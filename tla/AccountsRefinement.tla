------------------------- MODULE AccountsRefinement -------------------------
(***************************************************************************)
(* The statement-by-statement Accounts implements the atomic               *)
(* AccountRegistry.  A confirmation of the registry is a ConfirmOTP        *)
(* request from the code it was let through with to its answer.            *)
(***************************************************************************)
EXTENDS Accounts

\* The code a request confirms, if any.
CodeOf(q) ==
  IF q.at \in {"verify", "find", "recall", "forget", "activate", "session"} THEN {q.code}
  ELSE IF q.at = "insert" THEN q.code ELSE {}

Sent == [o \in DOMAIN codes |-> codes[o].receiver]
OpenCodes == {o \in DOMAIN codes : ~codes[o].verified /\ ~codes[o].expired}
Proven == {o \in DOMAIN codes : codes[o].verified}
Pairs == [o \in DOMAIN codes |-> codes[o].pairs]
Confirms == [r \in Requests |-> CodeOf(reqs[r])]

\* A visitor registers under an address in lower case; Google's users have no phone.
Applicants ==
  {Registrant(e, phone, role) : e \in Emails, phone \in Phones \cup {Empty}, role \in Roles}
Newcomers ==
  {[email |-> a.email, phone |-> {}, role |-> "volunteer",
    active |-> TRUE, approved |-> FALSE, google |-> {a.id}] : a \in GoogleAccounts}

Registry == INSTANCE AccountRegistry WITH
  Identities <- GoogleAccounts, accounts <- users, sent <- Sent, open <- OpenCodes,
  proven <- Proven, pairs <- Pairs, confirms <- Confirms

\* Every effect of every interleaving of registrations, confirmations and Google logins
\* is one step of the registry.
RegistrySpec == Registry!Spec
=============================================================================
