\* One request at a time is enough: the key expires between its GET and its INCR.
SPECIFICATION FairSpec
CONSTANTS
  Requests = {r1}
  Limit = 2
  Window = 2
  Resets = FALSE
  Failures = FALSE
PROPERTY AttemptsForgotten
\* A refused client has nothing left to do, which is what this run is about.
CHECK_DEADLOCK FALSE
