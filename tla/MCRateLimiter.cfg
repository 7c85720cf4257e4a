\* Three requests of one client whose attempts are reset when it succeeds.
SPECIFICATION FairSpec
CONSTANTS
  Requests = {r1, r2, r3}
  Limit = 2
  Window = 2
  Resets = TRUE
  Failures = TRUE
INVARIANTS
  TypeOK
  CounterBounded
  AdmissionsBounded
PROPERTY CounterGoesAway
