------------------------------ MODULE Accounts ------------------------------
(***************************************************************************)
(* A visitor registers (the data wait in Redis), receives a one-time       *)
(* password and confirms it; the confirmation creates the account.  Users  *)
(* also sign in with a one-time password alone, and with Google, which     *)
(* creates or links an account.                                            *)
(*                                                                         *)
(* Each statement and each Redis command is atomic by itself, as in        *)
(* Bookings.  ConfirmOTP uses up the code first, and then reads and writes *)
(* in up to five more steps.  A request that is refused before its first   *)
(* write changes nothing and is not an action; nor is a wrong code, which  *)
(* counts an attempt nobody reads.                                         *)
(*                                                                         *)
(* An address may be spelled in several ways.  Some of the code converts   *)
(* it to lower case, some does not.                                        *)
(***************************************************************************)
EXTENDS Integers, Sequences, FiniteSets

CONSTANTS
  Spellings,       \* e-mail addresses as clients and Google spell them
  Lower,           \* the lower-case spelling of each
  Phones,          \* phone numbers
  Empty,           \* the phone of a client that gives none: "", not NULL
  Roles,           \* bound: roles to register with, of volunteer and employee
  GoogleAccounts,  \* the ids and verified addresses Google tells of
  UserIds,         \* bound: ids the users table may hand out
  Seeded,          \* the users who are there at the start
  MaxCodes,        \* bound: rows of the otp table
  Requests,        \* bound: requests that are in flight at once
  Failures         \* may statements fail and the server stop?

Emails == {Lower[s] : s \in Spellings}
GoogleIds == {a.id : a \in GoogleAccounts}

\* phone and google are empty (NULL) or hold one value.
Person == [email: Spellings, phone: SUBSET (Phones \cup {Empty}),
           role: {"volunteer", "employee", "super_admin"},
           active: BOOLEAN, approved: BOOLEAN, google: SUBSET GoogleIds]

\* UNIQUE(email), UNIQUE(phone), UNIQUE(oauth_user_id, oauth_provider_name).
SameKey(p, q) ==
  \/ p.email = q.email
  \/ p.phone \cap q.phone # {}
  \/ p.google \cap q.google # {}

ASSUME AccountsAssumption ==
  /\ Lower \in [Spellings -> Spellings]
  /\ \A s \in Spellings : Lower[Lower[s]] = Lower[s]
  /\ Phones \cap Spellings = {}
  /\ Empty \notin Phones \cup Spellings
  /\ Roles \subseteq {"volunteer", "employee"}
  /\ \A a \in GoogleAccounts : a.email \in Spellings
  /\ DOMAIN Seeded \subseteq UserIds
  /\ Seeded \in [DOMAIN Seeded -> Person]
  /\ \A u, v \in DOMAIN Seeded : SameKey(Seeded[u], Seeded[v]) => u = v
  /\ MaxCodes \in Nat
  /\ IsFiniteSet(Requests)
  /\ Failures \in BOOLEAN

VARIABLES
  codes,    \* rows of the otp table, in the order of their ids
  users,    \* rows of the users table, by id
  pending,  \* the pending_reg keys of Redis, by address
  reqs      \* the requests in flight

vars == <<codes, users, pending, reqs>>

----------------------------------------------------------------------------
(* Rows and requests *)

Receivers == Spellings \cup Phones

\* pairs is history: the token pairs that were issued for the code.
NewCode(rcv) == [receiver |-> rcv, verified |-> FALSE, expired |-> FALSE, pairs |-> 0]
Code == [receiver: Receivers, verified: BOOLEAN, expired: BOOLEAN, pairs: Nat]

Idle == [at |-> "idle"]

\* code is the row a request confirms ({} when Google vouches for the person).
Request ==
  {Idle}
  \cup [at: {"pending"}, person: {p \in Person : p.email \in Emails}]
  \cup [at: {"send"}, receiver: Emails]
  \cup [at: {"verify", "find", "recall", "forget"}, code: DOMAIN codes]
  \cup [at: {"activate", "session"}, code: DOMAIN codes, user: DOMAIN users]
  \cup [at: {"insert"}, code: SUBSET DOMAIN codes, person: Person]
  \cup [at: {"link"}, account: GoogleAccounts]

Goto(r, next) == reqs' = [reqs EXCEPT ![r] = next]
Answer(r) == Goto(r, Idle)

\* GetUserByEmail, GetUserByPhone.
UsersWith(rcv) ==
  {u \in DOMAIN users : users[u].email = rcv \/ rcv \in users[u].phone}

\* The constraints refuse to write p under id u.
ClashNever(u, p) == FALSE
Clash(u, p) == \E v \in DOMAIN users \ {u} : SameKey(users[v], p)

Put(f, x, y) == [z \in DOMAIN f \cup {x} |-> IF z = x THEN y ELSE f[z]]
Without(f, x) == [z \in DOMAIN f \ {x} |-> f[z]]

----------------------------------------------------------------------------
(* Sending a code *)

\* A new code has an id left (bound).
CodeLeft ==
  Len(codes) + Cardinality({r \in Requests : reqs[r].at \in {"pending", "send"}}) < MaxCodes

\* The receiver is stored as it was spelled.
SendOTP(rcv) ==
  /\ CodeLeft
  /\ codes' = Append(codes, NewCode(rcv))
  /\ UNCHANGED <<users, pending, reqs>>

----------------------------------------------------------------------------
(* Registration *)

Registrant(email, phone, role) ==
  [email |-> email, phone |-> {phone}, role |-> role,
   active |-> TRUE, approved |-> FALSE, google |-> {}]

BeginRegisterAsSpelled(r, s, phone, role) ==
  /\ reqs[r] = Idle /\ CodeLeft
  /\ UsersWith(s) = {}
  /\ phone # Empty => UsersWith(phone) = {}
  /\ Goto(r, [at |-> "pending", person |-> Registrant(s, phone, role)])
  /\ UNCHANGED <<codes, users, pending>>

\* An empty phone is not looked up.  The institution of an employee is left out.
BeginRegister(r, s, phone, role) ==
  /\ reqs[r] = Idle /\ CodeLeft
  /\ UsersWith(Lower[s]) = {}
  /\ phone # Empty => UsersWith(phone) = {}
  /\ Goto(r, [at |-> "pending", person |-> Registrant(Lower[s], phone, role)])
  /\ UNCHANGED <<codes, users, pending>>

StorePending(r) ==
  /\ reqs[r].at = "pending"
  /\ LET p == reqs[r].person IN
     /\ pending' = Put(pending, p.email, p)
     /\ Goto(r, [at |-> "send", receiver |-> p.email])
  /\ UNCHANGED <<codes, users>>

SendCode(r) ==
  /\ reqs[r].at = "send"
  /\ codes' = Append(codes, NewCode(reqs[r].receiver))
  /\ Answer(r)
  /\ UNCHANGED <<users, pending>>

----------------------------------------------------------------------------
(* Confirmation *)

\* GetOTP: the newest code of the receiver that is not verified and not expired.
LiveVerifiedToo(rcv) ==
  {o \in DOMAIN codes : codes[o].receiver = rcv /\ ~codes[o].expired}
Live(rcv) ==
  {o \in DOMAIN codes : /\ codes[o].receiver = rcv
                        /\ ~codes[o].verified /\ ~codes[o].expired}
Newest(rcv, o) == o \in Live(rcv) /\ \A c \in Live(rcv) : c <= o

\* The handler converts the receiver to lower case, so that only codes that were
\* sent to such a receiver are found.
BeginConfirm(r, rcv, o) ==
  /\ reqs[r] = Idle
  /\ Newest(rcv, o)
  /\ Goto(r, [at |-> "verify", code |-> o])
  /\ UNCHANGED <<codes, users, pending>>

MarkVerifiedForgotten(r) ==
  /\ reqs[r].at = "verify"
  /\ Goto(r, [reqs[r] EXCEPT !.at = "find"])
  /\ UNCHANGED <<codes, users, pending>>

MarkVerified(r) ==
  /\ reqs[r].at = "verify"
  /\ codes' = [codes EXCEPT ![reqs[r].code].verified = TRUE]
  /\ Goto(r, [reqs[r] EXCEPT !.at = "find"])
  /\ UNCHANGED <<users, pending>>

\* The user is looked up once the code is used up.
FindUser(r) ==
  /\ reqs[r].at = "find"
  /\ LET o == reqs[r].code
         found == UsersWith(codes[o].receiver) IN
     \/ /\ found = {}
        /\ Goto(r, [reqs[r] EXCEPT !.at = "recall"])
     \/ \E u \in found :
          Goto(r, [at |-> IF users[u].active THEN "session" ELSE "activate",
                   code |-> o, user |-> u])
  /\ UNCHANGED <<codes, users, pending>>

\* No user: the registration is read from Redis, if it is still there.
RecallPending(r) ==
  /\ reqs[r].at = "recall"
  /\ LET o == reqs[r].code
         rcv == codes[o].receiver IN
     IF rcv \in DOMAIN pending
       THEN Goto(r, [at |-> "insert", code |-> {o}, person |-> pending[rcv]])
       ELSE Answer(r)
  /\ UNCHANGED <<codes, users, pending>>

\* CreateUser, for a registrant and for a Google account.
InsertUser(r) ==
  /\ reqs[r].at = "insert"
  /\ \E u \in UserIds \ DOMAIN users :
       IF Clash(u, reqs[r].person)
         THEN Answer(r) /\ UNCHANGED users
         ELSE /\ users' = Put(users, u, reqs[r].person)
              /\ \/ reqs[r].code = {} /\ Answer(r)
                 \/ \E o \in reqs[r].code : Goto(r, [at |-> "forget", code |-> o])
  /\ UNCHANGED <<codes, pending>>

\* An error of the DEL is logged and ignored.
ForgetPending(r) ==
  /\ reqs[r].at = "forget"
  /\ LET rcv == codes[reqs[r].code].receiver IN
     /\ pending' \in {Without(pending, rcv)} \cup (IF Failures THEN {pending} ELSE {})
     /\ \E u \in UsersWith(rcv) :
          Goto(r, [at |-> "session", code |-> reqs[r].code, user |-> u])
  /\ UNCHANGED <<codes, users>>

Activate(r) ==
  /\ reqs[r].at = "activate"
  /\ users' = [users EXCEPT ![reqs[r].user].active = TRUE]
  /\ Goto(r, [reqs[r] EXCEPT !.at = "session"])
  /\ UNCHANGED <<codes, pending>>

\* An employee whom nobody has approved gets no tokens; the rest of a token's life
\* is in module Sessions.
IssueTokens(r) ==
  /\ reqs[r].at = "session"
  /\ LET user == users[reqs[r].user] IN
     IF user.role = "employee" /\ ~user.approved
       THEN UNCHANGED codes
       ELSE codes' = [codes EXCEPT ![reqs[r].code].pairs = @ + 1]
  /\ Answer(r)
  /\ UNCHANGED <<users, pending>>

----------------------------------------------------------------------------
(* Google *)

\* The address is looked up in lower case and stored as Google spells it.
BeginLoginOAuth(r, a) ==
  /\ reqs[r] = Idle
  /\ LET found == UsersWith(Lower[a.email]) IN
     \/ /\ found = {}
        /\ Goto(r, [at |-> "insert", code |-> {},
                    person |-> [email |-> a.email, phone |-> {}, role |-> "volunteer",
                                active |-> TRUE, approved |-> FALSE, google |-> {a.id}]])
     \/ \E u \in found :
          users[u].google = {} /\ Goto(r, [at |-> "link", account |-> a])
  /\ UNCHANGED <<codes, users, pending>>

\* UPDATE users SET oauth_user_id ... WHERE email, as Google spells it.
LinkGoogle(r) ==
  /\ reqs[r].at = "link"
  /\ LET a == reqs[r].account
         Linked(u) == [users[u] EXCEPT !.google = {a.id}] IN
     \/ \E u \in DOMAIN users :
          /\ users[u].email = a.email
          /\ ~Clash(u, Linked(u))
          /\ users' = Put(users, u, Linked(u))
     \/ /\ \A u \in DOMAIN users : users[u].email = a.email => Clash(u, Linked(u))
        /\ UNCHANGED users
  /\ Answer(r)
  /\ UNCHANGED <<codes, pending>>

----------------------------------------------------------------------------
(* Time and failures *)

ExpireCode(o) ==
  /\ ~codes[o].expired
  /\ codes' = [codes EXCEPT ![o].expired = TRUE]
  /\ UNCHANGED <<users, pending, reqs>>

ExpirePending(email) ==
  /\ pending' = Without(pending, email)
  /\ UNCHANGED <<codes, users, reqs>>

\* A statement fails: the request ends, what it has done stays.
FailRequest(r) ==
  /\ Failures
  /\ reqs[r] # Idle
  /\ Answer(r)
  /\ UNCHANGED <<codes, users, pending>>

Restart ==
  /\ Failures
  /\ reqs' = [r \in Requests |-> Idle]
  /\ UNCHANGED <<codes, users, pending>>

----------------------------------------------------------------------------
(* The specification *)

Init ==
  /\ codes = <<>>
  /\ users = Seeded
  /\ pending = [e \in {} |-> 0]
  /\ reqs = [r \in Requests |-> Idle]

Begin(r) ==
  \/ \E s \in Spellings, phone \in Phones \cup {Empty}, role \in Roles :
       BeginRegister(r, s, phone, role)
  \/ \E rcv \in Emails \cup Phones, o \in DOMAIN codes : BeginConfirm(r, rcv, o)
  \/ \E a \in GoogleAccounts : BeginLoginOAuth(r, a)

Continue(r) ==
  \/ StorePending(r) \/ SendCode(r)
  \/ MarkVerified(r) \/ FindUser(r) \/ RecallPending(r)
  \/ InsertUser(r) \/ ForgetPending(r) \/ Activate(r) \/ IssueTokens(r)
  \/ LinkGoogle(r)

Next ==
  \/ \E r \in Requests : Begin(r) \/ Continue(r) \/ FailRequest(r)
  \/ \E rcv \in Receivers : SendOTP(rcv)
  \/ \E o \in DOMAIN codes : ExpireCode(o)
  \/ \E email \in DOMAIN pending : ExpirePending(email)
  \/ Restart

Spec == Init /\ [][Next]_vars

----------------------------------------------------------------------------
(* Properties *)

\* Rows and requests are well typed; registrations wait under the address they are
\* for, in lower case, which is where a confirmation looks for them.
TypeOK ==
  /\ codes \in Seq(Code)
  /\ DOMAIN users \subseteq UserIds
  /\ users \in [DOMAIN users -> Person]
  /\ DOMAIN pending \subseteq Emails
  /\ \A e \in DOMAIN pending : pending[e] \in Person /\ pending[e].email = e
  /\ reqs \in [Requests -> Request]

\* No address, phone number or Google identity belongs to two accounts, however
\* many confirmations and Google logins saw no account and went on to create one.
AccountsUnique == \A u, v \in DOMAIN users : SameKey(users[u], users[v]) => u = v

\* What the doc of Register says: a user record is only persisted after the code
\* has been confirmed.  Whoever has an account was there at the start, comes from
\* Google, or has used up a code that was sent to the account's address.
AccountConfirmed ==
  \A u \in DOMAIN users \ DOMAIN Seeded :
    \/ \E a \in GoogleAccounts : a.email = users[u].email /\ a.id \in users[u].google
    \/ \E o \in DOMAIN codes : codes[o].receiver = users[u].email /\ codes[o].verified

\* A code is not quite a ONE-time password: confirmations that overlap may all pass
\* with it.  No confirmation that begins after the code was verified does, so it
\* buys at most as many token pairs as there are requests in flight.
CodeUsesBounded == \A o \in DOMAIN codes : codes[o].pairs <= Cardinality(Requests)

\* A registration that has been confirmed becomes an account: what the client was
\* let to register (the phone is optional) can be stored.
RegistrantGetsAccount ==
  [][\A r \in Requests :
       reqs[r].at = "insert" /\ reqs[r].code # {} /\ reqs'[r] # reqs[r]
         => \E u \in DOMAIN users' : users'[u].email = reqs[r].person.email]_vars
=============================================================================
