\* An address in two spellings, a phone, a deactivated user, two requests in flight.
SPECIFICATION Spec
CONSTANTS
  ann = ann
  Ann = Ann
  bob = bob
  g1 = g1
  u1 = u1
  p1 = p1
  Spellings = {ann, Ann, bob}
  Lower <- MCLower
  Phones = {p1}
  Empty = none
  Roles = {"volunteer", "employee"}
  GoogleAccounts <- MCGoogle
  UserIds = {u1, u2, u3}
  Seeded <- MCSeeded
  MaxCodes = 2
  Requests = {r1, r2}
  Failures = TRUE
SYMMETRY MCSymmetry
INVARIANTS
  TypeOK
  AccountConfirmed
  CodeUsesBounded
PROPERTIES
  RegistrySpec
