\* alice signs in from two browsers, of which the first waits for its answers; two
\* requests in flight, three seconds; refresh tokens live two.
SPECIFICATION BrowserSpec
CONSTANTS
  alice = alice
  Users = {alice}
  Owner <- MCOwner
  Browsers = {b1, b2}
  Patient = {b1}
  MaxOpen = 2
  Standings <- MCStandings
  Requests = {r1, r2}
  AccessTTL = 1
  RefreshTTL = 2
  MaxSecond = 2
  Failures = TRUE
SYMMETRY Symmetry
INVARIANTS
  BrowserTypeOK
  RotationReplaces
  HeirsBounded
  SessionStaysInBrowser
  NeverStale
PROPERTIES
  SessionLedgerSpec
  SessionStaysOver
  LapsedClaimsStayLapsed
  OnlyLogoutSignsOut
