------------------------- MODULE SessionsRefinement -------------------------
(***************************************************************************)
(* The statement-by-statement Sessions implements the atomic SessionLedger.*)
(* An exchange of the ledger is a refresh between the check of its token   *)
(* and the INSERT of the new one; a token is live while VerifyToken and    *)
(* its row would let it through.                                           *)
(***************************************************************************)
EXTENDS Sessions

Issued == [t \in DOMAIN tokens |-> tokens[t].login]
Live == {t \in DOMAIN tokens : Usable(t)}
Exchange(req) ==
  CASE req.at = "revoke" -> {req.token}
    [] req.at = "save" -> req.from
    [] OTHER -> {}
Exchanges == [r \in Requests |-> Exchange(reqs[r])]

\* The clock ends at MaxSecond.
Issuable == [user: Users, claims: Claims, second: 0 .. MaxSecond]

Ledger == INSTANCE SessionLedger WITH
  Tokens <- Issuable, issued <- Issued, live <- Live, exchanges <- Exchanges

\* Every effect of every interleaving of logins, refreshes and logouts is one step of
\* the ledger.
SessionLedgerSpec == Ledger!Spec
=============================================================================
