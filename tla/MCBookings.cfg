CONSTANTS
  i1 = i1
  Institutions = {i1}
  Volunteers = {v1, v2}
  Employees = {e1}
  Admins = {}
  WorksFor <- MCWorksFor
  Active = {v1, v2, e1}
  Needs = {n1}
  BookingIds = {b1, b2}
  Requests = {r1, r2}
  QtyInputs = {4, 10}
  NeedQtyInputs = {0}
  EditInputs = {0}
  MaxNumeric = 2
  Failures = TRUE
SYMMETRY MCSymmetry
SPECIFICATION Spec
INVARIANTS TypeOK ActiveUnique SettledCreditIsExact
PROPERTIES SettledBookingFrozen ArchivedNeedFrozen LedgerSpec
