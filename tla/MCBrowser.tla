----------------------------- MODULE MCBrowser -----------------------------
(***************************************************************************)
(* Browser for TLC: one user, alice, in front of every browser.  The slots *)
(* of requests are a symmetry set (the properties are safety ones).        *)
(***************************************************************************)
EXTENDS Browser, SessionsRefinement, TLC

CONSTANT alice

MCOwner == [b \in Browsers |-> alice]

\* An employee who is approved, and one who waits for approval and is blocked.
MCStandings ==
  {[active |-> TRUE, claims |-> "employee"], [active |-> FALSE, claims |-> "pending"]}

Symmetry == Permutations(Requests)
=============================================================================
