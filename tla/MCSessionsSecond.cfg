\* One user and one request at a time, without failures.
SPECIFICATION Spec
CONSTANTS
  Users = {alice}
  Standings <- MCStandings
  Requests = {r1}
  AccessTTL = 1
  RefreshTTL = 2
  MaxSecond = 1
  Failures = FALSE
PROPERTY RotationSucceeds
