\* One volunteer, one employee, two bookings of one need, two connections; one
\* code to be sent at a time.
CONSTANTS
  i1 = i1
  Institutions = {i1}
  Volunteers = {v1}
  Employees = {e1}
  Admins = {}
  WorksFor <- MCWorksFor
  Active = {v1, e1}
  Needs = {n1}
  BookingIds = {b1, b2}
  Requests = {r1, r2}
  QtyInputs = {10}
  NeedQtyInputs = {0}
  EditInputs = {}
  MaxNumeric = 1
  MaxCodes = 1
  Failures = TRUE
SPECIFICATION ServerSpec
PROPERTIES RequestsAnswered StopEnds
