----------------------------- MODULE MCAccounts -----------------------------
(***************************************************************************)
(* Accounts for TLC: one address in two spellings.                         *)
(***************************************************************************)
EXTENDS AccountsRefinement, TLC

CONSTANTS ann, Ann, bob, g1, u1, p1

MCLower == [s \in Spellings |-> IF s = Ann THEN ann ELSE s]

\* One Google identity, whose address Google tells in either spelling.
MCGoogle == {[id |-> g1, email |-> Ann], [id |-> g1, email |-> ann]}

NoUsers == [u \in {} |-> 0]

\* A user with a phone number, whom somebody has deactivated.
MCSeeded ==
  u1 :> [email |-> bob, phone |-> {p1}, role |-> "employee",
         active |-> FALSE, approved |-> TRUE, google |-> {}]

MCSymmetry == Permutations(Requests)
=============================================================================
