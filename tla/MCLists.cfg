\* Two events, two instants, pages of one event, one volunteer, two requests in flight;
\* three institutions with at most one open need, two distances, pages of one.
SPECIFICATION ListsSpec
CONSTANTS
  Users = {v1}
  Requests = {r1, r2}
  Limit = 1
  MaxTime = 1
  MaxEvents = 2
  Failures = TRUE
  Ids = {1, 2, 3}
  Far = {0, 1}
  PageSize = 1
  MaxOpen = 1
SYMMETRY Symmetry
INVARIANTS
  TypeOK
  RepeatsOnlyAfterApproval
  MissesOnlyAfterRejection
  TotalCoversSeen
  DirectoryTypeOK
  MissesOnlyAfterRecount
  RepeatsOnlyAfterAddition
  BlockedOnlyAtTheEnd
PROPERTY PastEventClosed
