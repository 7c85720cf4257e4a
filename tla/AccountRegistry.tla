--------------------------- MODULE AccountRegistry ---------------------------
(***************************************************************************)
(* What registration and sign-in with a code promise, with each effect in  *)
(* one atomic step: a registry of accounts, and the codes that were sent.  *)
(*                                                                         *)
(*   - a confirmation begins with the newest open code of a receiver, and  *)
(*     a code that is used up or expired is never open again;              *)
(*   - an account is opened for an applicant whose address has used up a   *)
(*     code, or for a newcomer that Google vouches for, and no two         *)
(*     accounts share an address, a phone or an identity of Google;        *)
(*   - nobody opens an account that is approved, or an administrator's;    *)
(*   - an account is activated, and a pair of tokens issued, only with a   *)
(*     code that is used up and was sent to an address or phone of that    *)
(*     very account, and a confirmation gives one pair at most;            *)
(*   - an account keeps its address, its phone, its role and its approval. *)
(*                                                                         *)
(* It does not promise that a confirmation gives anything, nor that a code *)
(* is confirmed once: the code does neither.                               *)
(***************************************************************************)
EXTENDS Integers, Sequences

CONSTANTS
  UserIds, Receivers, Requests,
  Seeded,      \* the accounts that are there at the start
  Applicants,  \* what a visitor may ask for
  Newcomers,   \* the accounts that Google may vouch for
  Identities   \* Google's ids and the addresses it vouches for

VARIABLES
  accounts,  \* id -> what is known of a user
  sent,      \* receivers of the codes, in the order they were sent
  open,      \* codes that a confirmation may begin with
  proven,    \* codes that were used up
  pairs,     \* code -> pairs of tokens it has given
  confirms   \* request -> the code it confirms (empty or one code)

rvars == <<accounts, sent, open, proven, pairs, confirms>>

Shares(p, q) ==
  \/ p.email = q.email
  \/ p.phone \cap q.phone # {}
  \/ p.google \cap q.google # {}

\* Writing p under id u leaves every key with one account.
Enter(u, p) ==
  /\ \A v \in DOMAIN accounts \ {u} : ~Shares(accounts[v], p)
  /\ accounts' = [v \in DOMAIN accounts \cup {u} |-> IF v = u THEN p ELSE accounts[v]]
  /\ UNCHANGED <<sent, open, proven>>

\* Request r confirms a used-up code of one of the receivers.
Proves(r, receivers) == \E o \in confirms[r] : o \in proven /\ sent[o] \in receivers
Reach(u) == {accounts[u].email} \cup accounts[u].phone

Send(rcv) ==
  /\ sent' = Append(sent, rcv)
  /\ open' = open \cup {Len(sent) + 1}
  /\ pairs' = Append(pairs, 0)
  /\ UNCHANGED <<accounts, proven, confirms>>

Expire(o) ==
  /\ open' = open \ {o}
  /\ UNCHANGED <<accounts, sent, proven, pairs, confirms>>

Begin(r, o) ==
  /\ confirms[r] = {} /\ \A c \in open : sent[c] = sent[o] => c <= o
  /\ confirms' = [confirms EXCEPT ![r] = {o}]
  /\ UNCHANGED <<accounts, sent, open, proven, pairs>>

Prove(r) ==
  /\ proven' = proven \cup confirms[r]
  /\ open' = open \ confirms[r]
  /\ UNCHANGED <<accounts, sent, pairs, confirms>>

Enroll(r, u, p) ==
  /\ Proves(r, {p.email})
  /\ Enter(u, p)
  /\ UNCHANGED <<pairs, confirms>>

Welcome(u, p) ==
  /\ Enter(u, p)
  /\ UNCHANGED <<pairs, confirms>>

Link(u, a) ==
  /\ accounts[u].email = a.email
  /\ Enter(u, [accounts[u] EXCEPT !.google = {a.id}])
  /\ UNCHANGED <<pairs, confirms>>

Activate(r, u) ==
  /\ Proves(r, Reach(u))
  /\ Enter(u, [accounts[u] EXCEPT !.active = TRUE])
  /\ UNCHANGED <<pairs, confirms>>

Issue(r, u) ==
  /\ Proves(r, Reach(u))
  /\ accounts[u].role = "employee" => accounts[u].approved
  /\ \E o \in confirms[r] : pairs' = [pairs EXCEPT ![o] = @ + 1]
  /\ confirms' = [confirms EXCEPT ![r] = {}]
  /\ UNCHANGED <<accounts, sent, open, proven>>

\* Confirmations that give nothing more: a refusal, a failure or a restart.
Forfeit(R) ==
  /\ UNCHANGED <<accounts, sent, open, proven, pairs>>
  /\ confirms' = [r \in Requests |-> IF r \in R THEN {} ELSE confirms[r]]

Init ==
  /\ accounts = Seeded
  /\ sent = <<>> /\ open = {} /\ proven = {} /\ pairs = <<>>
  /\ confirms = [r \in Requests |-> {}]

Next ==
  \/ \E rcv \in Receivers : Send(rcv)
  \/ \E o \in open : Expire(o) \/ \E r \in Requests : Begin(r, o)
  \/ \E r \in Requests : Prove(r)
  \/ \E u \in UserIds \ DOMAIN accounts :
       \/ \E p \in Applicants, r \in Requests : Enroll(r, u, p)
       \/ \E p \in Newcomers : Welcome(u, p)
  \/ \E u \in DOMAIN accounts :
       \/ \E a \in Identities : Link(u, a)
       \/ \E r \in Requests : Activate(r, u) \/ Issue(r, u)
  \/ \E R \in SUBSET Requests : Forfeit(R)

Spec == Init /\ [][Next]_rvars
=============================================================================
