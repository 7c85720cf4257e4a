---------------------------- MODULE SessionLedger ----------------------------
(***************************************************************************)
(* What the session component promises, with each effect in one atomic     *)
(* step: a ledger of the tokens that were ever issued, and which of them   *)
(* still give something.                                                   *)
(*                                                                         *)
(*   - a token is issued once, to one user with one set of claims and in   *)
(*     one session, and once it is dead it stays dead;                     *)
(*   - a token comes from a login, which starts a session, or from an      *)
(*     exchange, which a live token began, which gives at most one token,  *)
(*     and which gives it only when the old token is dead;                 *)
(*   - an exchange passes on user, claims and session as they were.        *)
(*                                                                         *)
(* It does not promise that an exchange gives a token, nor that a token is *)
(* exchanged once: the code does neither.                                  *)
(***************************************************************************)
CONSTANTS
  Tokens,    \* what may be issued; a token tells its user and its claims
  Requests

VARIABLES
  issued,     \* token -> the token that its session began with
  live,       \* tokens that can still be exchanged
  exchanges   \* request -> the token it exchanges (empty or one token)

lvars == <<issued, live, exchanges>>

Record(t, session) ==
  /\ issued' = [s \in DOMAIN issued \cup {t} |-> IF s = t THEN session ELSE issued[s]]
  /\ live' \in {live, live \cup {t}}  \* it may come too late to be of use

Open(t) ==
  /\ Record(t, t)
  /\ UNCHANGED exchanges

Begin(r, t) ==
  /\ exchanges[r] = {} /\ t \in live
  /\ exchanges' = [exchanges EXCEPT ![r] = {t}]
  /\ UNCHANGED <<issued, live>>

Redeem(r, t) ==
  /\ \E s \in exchanges[r] :
       /\ s \notin live /\ t.user = s.user /\ t.claims = s.claims
       /\ Record(t, issued[s])
  /\ exchanges' = [exchanges EXCEPT ![r] = {}]

\* Exchanges that give nothing: a failure, a restart, or a token that exists already.
Forfeit(R) ==
  /\ UNCHANGED <<issued, live>>
  /\ exchanges' = [r \in Requests |-> IF r \in R THEN {} ELSE exchanges[r]]

\* Tokens die by exchange, logout, reuse or age.
Expire(T) ==
  /\ live' = live \ T
  /\ UNCHANGED <<issued, exchanges>>

Init ==
  /\ issued = [t \in {} |-> 0]
  /\ live = {}
  /\ exchanges = [r \in Requests |-> {}]

Next ==
  \/ \E R \in SUBSET Requests : Forfeit(R)
  \/ \E T \in SUBSET live : Expire(T)
  \/ \E r \in Requests, t \in live : Begin(r, t)
  \/ \E t \in Tokens \ DOMAIN issued : Open(t) \/ \E r \in Requests : Redeem(r, t)

Spec == Init /\ [][Next]_lvars
=============================================================================
