\* Two visitors who register without a phone, one after the other.
SPECIFICATION Spec
CONSTANTS
  ann = ann
  Ann = Ann
  bob = bob
  g1 = g1
  u1 = u1
  p1 = p1
  Spellings = {ann, bob}
  Lower <- MCLower
  Phones = {}
  Empty = none
  Roles = {"volunteer"}
  GoogleAccounts = {}
  UserIds = {u1, u2}
  Seeded <- NoUsers
  MaxCodes = 2
  Requests = {r1}
  Failures = FALSE
PROPERTY RegistrantGetsAccount
\* Once the codes are used up (MaxCodes) nothing is left to do.
CHECK_DEADLOCK FALSE
