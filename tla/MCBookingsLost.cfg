CONSTANTS
  i1 = i1
  Institutions = {i1}
  Volunteers = {v1}
  Employees = {e1}
  Admins = {}
  WorksFor <- MCWorksFor
  Active = {v1, e1}
  Needs = {n1}
  BookingIds = {b1}
  Requests = {r1}
  QtyInputs = {10}
  NeedQtyInputs = {0}
  EditInputs = {}
  MaxNumeric = 2
  Failures = FALSE
SPECIFICATION Spec
INVARIANT CompletedIsCredited
