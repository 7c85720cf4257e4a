--------------------------- MODULE AccountsProofs ---------------------------
(***************************************************************************)
(* For any addresses, users, codes and number of concurrent requests:      *)
(* accounts are unique and confirmed, and a code buys at most as many      *)
(* token pairs as there are requests.                                      *)
(***************************************************************************)
EXTENDS AccountsRefinement, FiniteSetTheorems, SequenceTheorems, TLAPS

N == Cardinality(Requests)

\* The requests that confirm a code.
Holders(o) == {r \in Requests : o \in CodeOf(reqs[r])}

\* Past MarkVerified, a request's code is verified.
UsedUp ==
  \A r \in Requests :
    reqs[r].at # "verify" => \A o \in CodeOf(reqs[r]) : codes[o].verified

\* Whoever is about to be inserted is the receiver of the code, or Google's user.
Vouched ==
  \A r \in Requests :
    reqs[r].at = "insert" =>
      /\ \A o \in reqs[r].code : codes[o].receiver = reqs[r].person.email
      /\ reqs[r].code = {} =>
           \E a \in GoogleAccounts :
             a.email = reqs[r].person.email /\ a.id \in reqs[r].person.google

\* A verified code has no new holders; each of those it has gets one pair at most.
Paid(o) ==
  IF codes[o].verified THEN codes[o].pairs + Cardinality(Holders(o)) <= N
                       ELSE codes[o].pairs = 0
CodesPaid == \A o \in DOMAIN codes : Paid(o)

IInv ==
  /\ TypeOK /\ AccountsUnique /\ UsedUp
  /\ Vouched /\ AccountConfirmed /\ CodesPaid

----------------------------------------------------------------------------
(* What a step does to the rows and the requests *)

\* Codes are never deleted, keep their receiver, and stay used up.
CodesKept ==
  /\ DOMAIN codes \subseteq DOMAIN codes'
  /\ \A o \in DOMAIN codes :
       /\ codes'[o].receiver = codes[o].receiver
       /\ codes[o].verified => codes'[o].verified

\* What TypeOK says of a request in flight, place by place.
LEMMA RequestFields ==
  ASSUME TypeOK, NEW r \in Requests
  PROVE  /\ reqs[r].at \in {"idle", "pending", "send", "verify", "find", "recall", "forget",
                            "activate", "session", "insert", "link"}
         /\ reqs[r].at = "pending" => reqs[r].person \in Person /\ reqs[r].person.email \in Emails
         /\ reqs[r].at = "send" => reqs[r].receiver \in Emails
         /\ reqs[r].at \in {"verify", "find", "recall", "forget"} =>
              /\ reqs[r].code \in DOMAIN codes
              /\ \A place \in {"verify", "find", "recall", "forget"} :
                   [reqs[r] EXCEPT !.at = place] = [at |-> place, code |-> reqs[r].code]
         /\ reqs[r].at \in {"activate", "session"} =>
              /\ reqs[r].code \in DOMAIN codes /\ reqs[r].user \in DOMAIN users
              /\ [reqs[r] EXCEPT !.at = "session"] =
                   [at |-> "session", code |-> reqs[r].code, user |-> reqs[r].user]
         /\ reqs[r].at = "insert" =>
              reqs[r].code \in SUBSET DOMAIN codes /\ reqs[r].person \in Person
         /\ reqs[r].at = "link" => reqs[r].account \in GoogleAccounts
         /\ CodeOf(reqs[r]) \subseteq DOMAIN codes
<1>1. reqs[r] \in Request
  BY DEF TypeOK
<1> QED BY <1>1 DEF Request, Idle, CodeOf

\* Requests stay well typed while rows are only added.
LEMMA RequestGrows ==
  ASSUME DOMAIN codes \subseteq DOMAIN codes', DOMAIN users \subseteq DOMAIN users'
  PROVE  Request \subseteq Request'
<1> SUFFICES ASSUME NEW q \in Request PROVE q \in Request'
  OBVIOUS
<1> QED BY DEF Request, Idle

\* A request that moves on.
LEMMA RequestMoves ==
  ASSUME TypeOK, DOMAIN codes \subseteq DOMAIN codes', DOMAIN users \subseteq DOMAIN users',
         NEW r \in Requests, NEW next \in Request', Goto(r, next)
  PROVE  reqs' \in [Requests -> Request']
<1>1. reqs \in [Requests -> Request']
  BY RequestGrows DEF TypeOK
<1> QED BY <1>1 DEF Goto

\* The INSERT of a code.
LEMMA CodeAppended ==
  ASSUME TypeOK, NEW rcv \in Receivers, codes' = Append(codes, NewCode(rcv))
  PROVE  /\ codes' \in Seq(Code) /\ CodesKept
         /\ DOMAIN codes' = DOMAIN codes \cup {Len(codes) + 1}
         /\ \A o \in DOMAIN codes : codes'[o] = codes[o]
         /\ codes'[Len(codes) + 1] = NewCode(rcv)
<1>1. codes \in Seq(Code) /\ NewCode(rcv) \in Code
  BY DEF TypeOK, NewCode, Code
<1>2. /\ codes' \in Seq(Code) /\ Len(codes') = Len(codes) + 1
      /\ \A i \in 1..Len(codes) : codes'[i] = codes[i]
      /\ codes'[Len(codes) + 1] = NewCode(rcv)
  BY <1>1, AppendProperties
<1>3. DOMAIN codes = 1..Len(codes) /\ DOMAIN codes' = 1..(Len(codes) + 1) /\ Len(codes) \in Nat
  BY <1>1, <1>2, LenProperties
<1> QED BY <1>2, <1>3 DEF CodesKept

\* An UPDATE of a code.
LEMMA CodeChanged ==
  ASSUME TypeOK, NEW o \in DOMAIN codes, NEW c \in Code,
         codes' = [codes EXCEPT ![o] = c],
         c.receiver = codes[o].receiver, codes[o].verified => c.verified
  PROVE  /\ codes' \in Seq(Code) /\ CodesKept
         /\ DOMAIN codes' = DOMAIN codes
         /\ \A p \in DOMAIN codes : codes'[p] = IF p = o THEN c ELSE codes[p]
<1>1. codes \in Seq(Code) /\ DOMAIN codes = 1..Len(codes)
  BY LenProperties DEF TypeOK
<1>2. codes' \in Seq(Code)
  BY <1>1, ExceptSeq
<1> QED BY <1>2 DEF CodesKept

LEMMA CodeTyped ==
  ASSUME TypeOK, NEW o \in DOMAIN codes
  PROVE  codes[o] \in Code
<1>1. codes \in Seq(Code) /\ DOMAIN codes = 1..Len(codes)
  BY LenProperties DEF TypeOK
<1> QED BY <1>1, ElementOfSeq

----------------------------------------------------------------------------
(* Types *)

\* The typing of the users, from that of each row.
UsersTyped ==
  /\ DOMAIN users \subseteq UserIds
  /\ users \in [DOMAIN users -> Person]

PendingTyped ==
  /\ DOMAIN pending \subseteq Emails
  /\ \A e \in DOMAIN pending : pending[e] \in Person /\ pending[e].email = e

\* A user is added, or one that is there changes.
LEMMA UserPut ==
  ASSUME TypeOK, NEW u \in UserIds, NEW p \in Person, users' = Put(users, u, p)
  PROVE  /\ UsersTyped'
         /\ DOMAIN users' = DOMAIN users \cup {u}
         /\ users'[u] = p
         /\ \A v \in DOMAIN users \ {u} : users'[v] = users[v]
<1>1. users' = [v \in DOMAIN users \cup {u} |-> IF v = u THEN p ELSE users[v]]
  BY DEF Put
<1>2. /\ DOMAIN users' = DOMAIN users \cup {u} /\ users'[u] = p
      /\ \A v \in DOMAIN users \ {u} : users'[v] = users[v]
  BY <1>1
<1>3. \A v \in DOMAIN users \cup {u} : (IF v = u THEN p ELSE users[v]) \in Person
  BY DEF TypeOK
<1>4. users' \in [DOMAIN users \cup {u} -> Person]
  BY <1>1, <1>3
<1> QED BY <1>2, <1>4 DEF TypeOK, UsersTyped

\* Registration goes on in lower case, which lowering keeps.
LEMMA LowerTyped ==
  ASSUME NEW s \in Spellings
  PROVE  Lower[s] \in Emails /\ Lower[s] \in Spellings
  BY AccountsAssumption DEF Emails, AccountsAssumption

LEMMA EmailTyped == Emails \subseteq Spellings /\ Emails \subseteq Receivers
  BY LowerTyped DEF Emails, Receivers

\* Codes are kept by every step, and so are the types.
LEMMA Keeps == TypeOK /\ [Next]_vars => CodesKept /\ TypeOK'
<1> SUFFICES ASSUME TypeOK, [Next]_vars PROVE CodesKept /\ TypeOK'
  OBVIOUS
<1> USE DEF Answer
<1>0. /\ Idle \in Request' /\ UsersTyped /\ PendingTyped
      /\ (UNCHANGED codes => CodesKept /\ codes' \in Seq(Code))
      /\ (UNCHANGED users => UsersTyped')
      /\ (UNCHANGED pending => PendingTyped')
  BY DEF Request, TypeOK, UsersTyped, PendingTyped, CodesKept
<1>1. ASSUME CodesKept, codes' \in Seq(Code), UsersTyped', PendingTyped',
             reqs' \in [Requests -> Request']
      PROVE  CodesKept /\ TypeOK'
  BY <1>1 DEF TypeOK, UsersTyped, PendingTyped
\* Most steps only move a request on.
<1>2. ASSUME NEW r \in Requests, NEW next \in Request', Goto(r, next),
             UNCHANGED <<codes, users, pending>>
      PROVE  CodesKept /\ TypeOK'
  <2>1. reqs' \in [Requests -> Request']
    BY <1>2, RequestMoves
  <2> QED BY <1>0, <1>1, <1>2, <2>1
<1>3. ASSUME NEW r \in Requests, NEW s \in Spellings, NEW phone \in Phones \cup {Empty},
             NEW role \in Roles, BeginRegister(r, s, phone, role)
      PROVE  CodesKept /\ TypeOK'
  <2>1. Registrant(Lower[s], phone, role) \in Person
    BY LowerTyped, AccountsAssumption DEF Registrant, Person, AccountsAssumption
  <2>2. Registrant(Lower[s], phone, role).email \in Emails
    BY LowerTyped DEF Registrant
  <2>3. [at |-> "pending", person |-> Registrant(Lower[s], phone, role)] \in Request'
    BY <2>1, <2>2 DEF Request
  <2> QED BY <1>2, <1>3, <2>3 DEF BeginRegister
<1>4. ASSUME NEW r \in Requests, NEW rcv, NEW o \in DOMAIN codes, BeginConfirm(r, rcv, o)
      PROVE  CodesKept /\ TypeOK'
  <2>1. [at |-> "verify", code |-> o] \in Request'
    BY <1>4 DEF BeginConfirm, Request
  <2> QED BY <1>2, <1>4, <2>1 DEF BeginConfirm
<1>5. ASSUME NEW r \in Requests, NEW a \in GoogleAccounts, BeginLoginOAuth(r, a)
      PROVE  CodesKept /\ TypeOK'
  <2> DEFINE p == [email |-> a.email, phone |-> {}, role |-> "volunteer",
                   active |-> TRUE, approved |-> FALSE, google |-> {a.id}]
  <2>1. p \in Person
    BY AccountsAssumption DEF Person, GoogleIds, AccountsAssumption
  <2>2. [at |-> "insert", code |-> {}, person |-> p] \in Request'
    BY <2>1 DEF Request
  <2>3. [at |-> "link", account |-> a] \in Request'
    BY DEF Request
  <2> QED BY <1>2, <1>5, <2>2, <2>3 DEF BeginLoginOAuth
<1>6. ASSUME NEW r \in Requests, StorePending(r)
      PROVE  CodesKept /\ TypeOK'
  <2> DEFINE p == reqs[r].person
  <2>1. p \in Person /\ p.email \in Emails /\ UNCHANGED <<codes, users>>
    BY <1>6, RequestFields DEF StorePending
  <2>2. pending' = Put(pending, p.email, p)
    BY <1>6 DEF StorePending
  <2>3. PendingTyped'
    BY <1>0, <2>1, <2>2 DEF Put, PendingTyped
  <2>4. [at |-> "send", receiver |-> p.email] \in Request'
    BY <2>1 DEF Request
  <2>5. reqs' \in [Requests -> Request']
    BY <1>6, <2>1, <2>4, RequestMoves DEF StorePending
  <2> QED BY <1>0, <1>1, <2>1, <2>3, <2>5
<1>7. ASSUME NEW r \in Requests, SendCode(r)
      PROVE  CodesKept /\ TypeOK'
  <2>1. reqs[r].receiver \in Receivers /\ codes' = Append(codes, NewCode(reqs[r].receiver))
    BY <1>7, RequestFields, EmailTyped DEF SendCode
  <2>2. CodesKept /\ codes' \in Seq(Code)
    BY <2>1, CodeAppended
  <2>3. reqs' \in [Requests -> Request']
    BY <1>0, <1>7, <2>2, RequestMoves DEF SendCode, CodesKept
  <2> QED BY <1>0, <1>1, <1>7, <2>2, <2>3 DEF SendCode
<1>8. ASSUME NEW r \in Requests, MarkVerified(r)
      PROVE  CodesKept /\ TypeOK'
  <2> DEFINE o == reqs[r].code
             c == [codes[o] EXCEPT !.verified = TRUE]
  <2>1. o \in DOMAIN codes /\ codes[o] \in Code
    BY <1>8, RequestFields, CodeTyped DEF MarkVerified
  <2>2. c \in Code /\ c.receiver = codes[o].receiver /\ c.verified
    BY <2>1 DEF Code
  <2>3. codes' = [codes EXCEPT ![o] = c]
    BY <1>8 DEF MarkVerified
  <2>4. CodesKept /\ codes' \in Seq(Code) /\ DOMAIN codes' = DOMAIN codes
    BY <2>1, <2>2, <2>3, CodeChanged
  <2>5. [at |-> "find", code |-> o] \in Request' /\ Goto(r, [at |-> "find", code |-> o])
    BY <1>8, <2>1, <2>4, RequestFields DEF MarkVerified, Request
  <2>6. reqs' \in [Requests -> Request']
    BY <1>8, <2>4, <2>5, RequestMoves DEF MarkVerified
  <2> QED BY <1>0, <1>1, <1>8, <2>4, <2>6 DEF MarkVerified
<1>9. ASSUME NEW r \in Requests, FindUser(r)
      PROVE  CodesKept /\ TypeOK'
  <2> DEFINE o == reqs[r].code
  <2>1. o \in DOMAIN codes /\ UNCHANGED <<codes, users, pending>>
    BY <1>9, RequestFields DEF FindUser
  <2>2. CASE Goto(r, [reqs[r] EXCEPT !.at = "recall"])
    <3>1. [at |-> "recall", code |-> o] \in Request' /\ Goto(r, [at |-> "recall", code |-> o])
      BY <1>9, <2>1, <2>2, RequestFields DEF FindUser, Request
    <3> QED BY <1>2, <2>1, <3>1
  <2>3. ASSUME NEW u \in UsersWith(codes[o].receiver),
               NEW place \in {"session", "activate"},
               Goto(r, [at |-> place, code |-> o, user |-> u])
        PROVE  CodesKept /\ TypeOK'
    <3>1. [at |-> place, code |-> o, user |-> u] \in Request'
      BY <2>1 DEF UsersWith, Request
    <3> QED BY <1>2, <2>1, <2>3, <3>1
  <2> QED BY <1>9, <2>2, <2>3 DEF FindUser
<1>10. ASSUME NEW r \in Requests, RecallPending(r)
      PROVE  CodesKept /\ TypeOK'
  <2> DEFINE o == reqs[r].code
             rcv == codes[o].receiver
             next == [at |-> "insert", code |-> {o}, person |-> pending[rcv]]
  <2>1. o \in DOMAIN codes /\ UNCHANGED <<codes, users, pending>>
    BY <1>10, RequestFields DEF RecallPending
  <2>2. CASE rcv \in DOMAIN pending
    <3>1. next \in Request'
      BY <2>1, <2>2 DEF TypeOK, Request
    <3> QED BY <1>2, <1>10, <2>1, <2>2, <3>1 DEF RecallPending
  <2>3. CASE rcv \notin DOMAIN pending
    BY <1>0, <1>2, <1>10, <2>1, <2>3 DEF RecallPending
  <2> QED BY <2>2, <2>3
<1>11. ASSUME NEW r \in Requests, InsertUser(r)
      PROVE  CodesKept /\ TypeOK'
  <2> DEFINE p == reqs[r].person
  <2>1. p \in Person /\ reqs[r].code \subseteq DOMAIN codes /\ UNCHANGED <<codes, pending>>
    BY <1>11, RequestFields DEF InsertUser
  <2>2. PICK u \in UserIds \ DOMAIN users :
          IF Clash(u, p)
            THEN Answer(r) /\ UNCHANGED users
            ELSE /\ users' = Put(users, u, p)
                 /\ \/ reqs[r].code = {} /\ Answer(r)
                    \/ \E o \in reqs[r].code : Goto(r, [at |-> "forget", code |-> o])
    BY <1>11 DEF InsertUser
  <2>3. CASE Clash(u, p)
    BY <1>0, <1>2, <2>1, <2>2, <2>3
  <2>4. CASE ~Clash(u, p)
    <3>1. UsersTyped' /\ DOMAIN users \subseteq DOMAIN users'
      BY <2>1, <2>2, <2>4, UserPut
    <3>2. PICK next \in Request' : Goto(r, next)
      <4>1. \A o \in reqs[r].code : [at |-> "forget", code |-> o] \in Request'
        BY <2>1 DEF Request
      <4> QED BY <1>0, <2>2, <2>4, <4>1
    <3>3. reqs' \in [Requests -> Request']
      BY <2>1, <3>1, <3>2, RequestMoves
    <3> QED BY <1>0, <1>1, <2>1, <3>1, <3>3
  <2> QED BY <2>3, <2>4
<1>12. ASSUME NEW r \in Requests, ForgetPending(r)
      PROVE  CodesKept /\ TypeOK'
  <2> DEFINE o == reqs[r].code
  <2>1. o \in DOMAIN codes /\ UNCHANGED <<codes, users>>
    BY <1>12, RequestFields DEF ForgetPending
  <2>2. PendingTyped'
    <3>1. pending' = pending \/ pending' = Without(pending, codes[o].receiver)
      BY <1>12 DEF ForgetPending
    <3> QED BY <1>0, <3>1 DEF Without, PendingTyped
  <2>3. PICK u \in UsersWith(codes[o].receiver) : Goto(r, [at |-> "session", code |-> o, user |-> u])
    BY <1>12 DEF ForgetPending
  <2>4. [at |-> "session", code |-> o, user |-> u] \in Request'
    BY <2>1 DEF UsersWith, Request
  <2>5. reqs' \in [Requests -> Request']
    BY <2>1, <2>3, <2>4, RequestMoves
  <2> QED BY <1>0, <1>1, <2>1, <2>2, <2>5
<1>13. ASSUME NEW r \in Requests, Activate(r)
      PROVE  CodesKept /\ TypeOK'
  <2> DEFINE u == reqs[r].user
             next == [at |-> "session", code |-> reqs[r].code, user |-> u]
  <2>1. /\ reqs[r].code \in DOMAIN codes /\ u \in DOMAIN users
        /\ UNCHANGED <<codes, pending>> /\ Goto(r, next)
    BY <1>13, RequestFields DEF Activate
  <2>2. users' = [users EXCEPT ![u].active = TRUE]
    BY <1>13 DEF Activate
  <2>3. UsersTyped' /\ DOMAIN users' = DOMAIN users
    <3>1. users[u] \in Person /\ users \in [DOMAIN users -> Person]
      BY <2>1 DEF TypeOK
    <3>2. [users[u] EXCEPT !.active = TRUE] \in Person
      BY <3>1 DEF Person
    <3>3. users' \in [DOMAIN users -> Person] /\ DOMAIN users' = DOMAIN users
      BY <2>2, <3>1, <3>2
    <3> QED BY <3>3 DEF TypeOK, UsersTyped
  <2>4. next \in Request'
    BY <2>1, <2>3 DEF Request
  <2>5. reqs' \in [Requests -> Request']
    BY <2>1, <2>3, <2>4, RequestMoves
  <2> QED BY <1>0, <1>1, <2>1, <2>3, <2>5
<1>14. ASSUME NEW r \in Requests, IssueTokens(r)
      PROVE  CodesKept /\ TypeOK'
  <2> DEFINE o == reqs[r].code
             c == [codes[o] EXCEPT !.pairs = @ + 1]
  <2>1. /\ o \in DOMAIN codes /\ codes[o] \in Code
        /\ UNCHANGED <<users, pending>> /\ Goto(r, Idle)
    BY <1>14, RequestFields, CodeTyped DEF IssueTokens
  <2>2. c \in Code /\ c.receiver = codes[o].receiver /\ c.verified = codes[o].verified
    BY <2>1 DEF Code
  <2>3. codes' = codes \/ codes' = [codes EXCEPT ![o] = c]
    BY <1>14 DEF IssueTokens
  <2>4. CodesKept /\ codes' \in Seq(Code) /\ DOMAIN codes' = DOMAIN codes
    BY <1>0, <2>1, <2>2, <2>3, CodeChanged
  <2>5. reqs' \in [Requests -> Request']
    BY <1>0, <2>1, <2>4, RequestMoves
  <2> QED BY <1>0, <1>1, <2>1, <2>4, <2>5
<1>15. ASSUME NEW r \in Requests, LinkGoogle(r)
      PROVE  CodesKept /\ TypeOK'
  <2> DEFINE a == reqs[r].account
             Linked(u) == [users[u] EXCEPT !.google = {a.id}]
  <2>1. a \in GoogleAccounts /\ UNCHANGED <<codes, pending>> /\ Goto(r, Idle)
    BY <1>15, RequestFields DEF LinkGoogle
  <2>2. \/ UNCHANGED users
        \/ \E u \in DOMAIN users : users' = Put(users, u, Linked(u))
    BY <1>15 DEF LinkGoogle
  <2>3. ASSUME NEW u \in DOMAIN users
        PROVE  u \in UserIds /\ Linked(u) \in Person
    BY <2>1 DEF TypeOK, Person, GoogleIds
  <2>4. UsersTyped' /\ DOMAIN users \subseteq DOMAIN users'
    BY <1>0, <2>2, <2>3, UserPut
  <2>5. reqs' \in [Requests -> Request']
    BY <1>0, <2>1, <2>4, RequestMoves
  <2> QED BY <1>0, <1>1, <2>1, <2>4, <2>5
<1>16. ASSUME NEW r \in Requests, FailRequest(r)
      PROVE  CodesKept /\ TypeOK'
  BY <1>0, <1>2, <1>16 DEF FailRequest
<1>17. ASSUME NEW rcv \in Receivers, SendOTP(rcv)
      PROVE  CodesKept /\ TypeOK'
  <2>1. CodesKept /\ codes' \in Seq(Code)
    BY <1>17, CodeAppended DEF SendOTP
  <2>2. reqs' \in [Requests -> Request']
    BY <1>17, <2>1, RequestGrows DEF SendOTP, TypeOK, CodesKept
  <2> QED BY <1>0, <1>1, <1>17, <2>1, <2>2 DEF SendOTP
<1>18. ASSUME NEW o \in DOMAIN codes, ExpireCode(o)
      PROVE  CodesKept /\ TypeOK'
  <2> DEFINE c == [codes[o] EXCEPT !.expired = TRUE]
  <2>1. codes[o] \in Code /\ codes' = [codes EXCEPT ![o] = c]
    BY <1>18, CodeTyped DEF ExpireCode
  <2>2. c \in Code /\ c.receiver = codes[o].receiver /\ c.verified = codes[o].verified
    BY <2>1 DEF Code
  <2>3. CodesKept /\ codes' \in Seq(Code)
    BY <2>1, <2>2, CodeChanged
  <2>4. reqs' \in [Requests -> Request']
    BY <1>18, <2>3, RequestGrows DEF ExpireCode, TypeOK, CodesKept
  <2> QED BY <1>0, <1>1, <1>18, <2>3, <2>4 DEF ExpireCode
<1>19. ASSUME NEW email, ExpirePending(email)
      PROVE  CodesKept /\ TypeOK'
  <2>1. PendingTyped'
    BY <1>0, <1>19 DEF ExpirePending, Without, PendingTyped
  <2>2. reqs' \in [Requests -> Request']
    BY <1>19, RequestGrows DEF ExpirePending, TypeOK
  <2> QED BY <1>0, <1>1, <1>19, <2>1, <2>2 DEF ExpirePending
<1>20. CASE Restart
  BY <1>0, <1>1, <1>20 DEF Restart
<1>21. CASE UNCHANGED vars
  <2>1. reqs' \in [Requests -> Request']
    BY <1>21, RequestGrows DEF vars, TypeOK
  <2> QED BY <1>0, <1>1, <1>21, <2>1 DEF vars
<1> QED
  BY <1>3, <1>4, <1>5, <1>6, <1>7, <1>8, <1>9, <1>10, <1>11, <1>12, <1>13, <1>14, <1>15,
     <1>16, <1>17, <1>18, <1>19, <1>20, <1>21
  DEF Next, Begin, Continue

----------------------------------------------------------------------------
(* Accounts stay unique *)

\* What a step may do to the users: keep their keys, or write a row of which the
\* constraints have found no clash.
LEMMA UsersStep ==
  ASSUME TypeOK, [Next]_vars
  PROVE  \/ /\ DOMAIN users' = DOMAIN users
            /\ \A u \in DOMAIN users : /\ users'[u].email = users[u].email
                                       /\ users'[u].phone = users[u].phone
                                       /\ users'[u].google = users[u].google
         \/ \E r \in Requests, u \in UserIds, p \in Person :
              /\ users' = Put(users, u, p)
              /\ ~Clash(u, p)
              /\ \/ u \notin DOMAIN users /\ reqs[r].at = "insert" /\ p = reqs[r].person
                 \/ \E a \in GoogleAccounts :
                      /\ u \in DOMAIN users /\ p.email = a.email /\ p.google = {a.id}
                   /\ p.email = users[u].email /\ p.phone = users[u].phone
<1> DEFINE Goal ==
      \/ /\ DOMAIN users' = DOMAIN users
         /\ \A u \in DOMAIN users : /\ users'[u].email = users[u].email
                                    /\ users'[u].phone = users[u].phone
                                    /\ users'[u].google = users[u].google
      \/ \E r \in Requests, u \in UserIds, p \in Person :
           /\ users' = Put(users, u, p)
           /\ ~Clash(u, p)
           /\ \/ u \notin DOMAIN users /\ reqs[r].at = "insert" /\ p = reqs[r].person
              \/ \E a \in GoogleAccounts :
                   /\ u \in DOMAIN users /\ p.email = a.email /\ p.google = {a.id}
                   /\ p.email = users[u].email /\ p.phone = users[u].phone
<1> SUFFICES Goal
  OBVIOUS
<1>1. CASE UNCHANGED users
  BY <1>1
<1>2. ASSUME NEW r \in Requests, InsertUser(r)
      PROVE  Goal
  <2>1. reqs[r].at = "insert" /\ reqs[r].person \in Person
    BY <1>2, RequestFields DEF InsertUser
  <2>2. PICK u \in UserIds \ DOMAIN users :
          \/ UNCHANGED users
          \/ ~Clash(u, reqs[r].person) /\ users' = Put(users, u, reqs[r].person)
    BY <1>2 DEF InsertUser
  <2> QED BY <1>1, <2>1, <2>2
<1>3. ASSUME NEW r \in Requests, Activate(r)
      PROVE  Goal
  <2> DEFINE u == reqs[r].user
  <2>1. u \in DOMAIN users /\ users[u] \in Person /\ users' = [users EXCEPT ![u].active = TRUE]
    BY <1>3, RequestFields DEF Activate, TypeOK
  <2>2. DOMAIN users' = DOMAIN users
    BY <2>1
  <2>3. ASSUME NEW v \in DOMAIN users
        PROVE  users'[v] = IF v = u THEN [users[u] EXCEPT !.active = TRUE] ELSE users[v]
    BY <2>1
  <2> QED BY <2>1, <2>2, <2>3 DEF Person
<1>4. ASSUME NEW r \in Requests, LinkGoogle(r)
      PROVE  Goal
  <2> DEFINE a == reqs[r].account
             Linked(u) == [users[u] EXCEPT !.google = {a.id}]
  <2>1. a \in GoogleAccounts
    BY <1>4, RequestFields DEF LinkGoogle
  <2>2. CASE UNCHANGED users
    BY <1>1, <2>2
  <2>3. ASSUME NEW u \in DOMAIN users, users[u].email = a.email, ~Clash(u, Linked(u)),
               users' = Put(users, u, Linked(u))
        PROVE  Goal
    <3>1. users[u] \in Person /\ u \in UserIds
      BY DEF TypeOK
    <3>2. /\ Linked(u) \in Person /\ Linked(u).email = a.email /\ Linked(u).google = {a.id}
          /\ Linked(u).email = users[u].email /\ Linked(u).phone = users[u].phone
      BY <2>1, <2>3, <3>1 DEF Person, GoogleIds
    <3> QED BY <2>1, <2>3, <3>1, <3>2
  <2> QED BY <1>4, <2>2, <2>3 DEF LinkGoogle
<1>5. CASE ~UNCHANGED users
  <2>1. PICK r \in Requests : InsertUser(r) \/ Activate(r) \/ LinkGoogle(r)
    BY <1>5, Zenon
    DEF Next, vars, Begin, Continue, BeginRegister, BeginConfirm, BeginLoginOAuth,
        StorePending, SendCode, MarkVerified, FindUser, RecallPending, ForgetPending,
        IssueTokens, FailRequest, SendOTP, ExpireCode, ExpirePending, Restart
  <2> QED BY <1>2, <1>3, <1>4, <2>1
<1> QED BY <1>1, <1>5

LEMMA UniqueStep ==
  ASSUME TypeOK, AccountsUnique, [Next]_vars
  PROVE  AccountsUnique'
<1>1. CASE /\ DOMAIN users' = DOMAIN users
           /\ \A u \in DOMAIN users : /\ users'[u].email = users[u].email
                                      /\ users'[u].phone = users[u].phone
                                      /\ users'[u].google = users[u].google
  BY <1>1 DEF AccountsUnique, SameKey
<1>2. ASSUME NEW u \in UserIds, NEW p \in Person, users' = Put(users, u, p), ~Clash(u, p)
      PROVE  AccountsUnique'
  <2>1. /\ DOMAIN users' = DOMAIN users \cup {u} /\ users'[u] = p
        /\ \A v \in DOMAIN users \ {u} : users'[v] = users[v]
    BY <1>2, UserPut
  <2>2. \A v \in DOMAIN users \ {u} : ~SameKey(users[v], p) /\ ~SameKey(p, users[v])
    BY <1>2 DEF Clash, SameKey
  <2> QED BY <2>1, <2>2 DEF AccountsUnique
<1> QED BY <1>1, <1>2, UsersStep

----------------------------------------------------------------------------
(* Accounts are confirmed *)

\* Whoever is added is vouched for, and a link adds the identity of the address.
LEMMA ConfirmedStep ==
  ASSUME TypeOK, UsedUp, Vouched, AccountConfirmed, [Next]_vars
  PROVE  AccountConfirmed'
<1> DEFINE Confirmed(p) ==
      \/ \E a \in GoogleAccounts : a.email = p.email /\ a.id \in p.google
      \/ \E o \in DOMAIN codes : codes[o].receiver = p.email /\ codes[o].verified
<1>1. ASSUME NEW p, Confirmed(p), NEW q, q.email = p.email, q.google = p.google
      PROVE  \/ \E a \in GoogleAccounts : a.email = q.email /\ a.id \in q.google
             \/ \E o \in DOMAIN codes' : codes'[o].receiver = q.email /\ codes'[o].verified
  BY <1>1, Keeps DEF CodesKept
<1>2. CASE /\ DOMAIN users' = DOMAIN users
           /\ \A u \in DOMAIN users : /\ users'[u].email = users[u].email
                                      /\ users'[u].phone = users[u].phone
                                      /\ users'[u].google = users[u].google
  BY <1>1, <1>2 DEF AccountConfirmed
<1>3. ASSUME NEW r \in Requests, NEW u \in UserIds, NEW p \in Person, users' = Put(users, u, p),
             \/ u \notin DOMAIN users /\ reqs[r].at = "insert" /\ p = reqs[r].person
             \/ \E a \in GoogleAccounts :
                  /\ u \in DOMAIN users /\ p.email = a.email /\ p.google = {a.id}
                  /\ p.email = users[u].email /\ p.phone = users[u].phone
      PROVE  AccountConfirmed'
  <2>1. /\ DOMAIN users' = DOMAIN users \cup {u} /\ users'[u] = p
        /\ \A v \in DOMAIN users \ {u} : users'[v] = users[v]
    BY <1>3, UserPut
  <2>2. Confirmed(p)
    <3>1. CASE reqs[r].at = "insert" /\ p = reqs[r].person
      <4>1. reqs[r].code \subseteq DOMAIN codes
        BY <3>1, RequestFields
      <4>2. \A o \in reqs[r].code : codes[o].receiver = p.email /\ codes[o].verified
        BY <3>1 DEF Vouched, UsedUp, CodeOf
      <4>3. reqs[r].code = {} => \E a \in GoogleAccounts : a.email = p.email /\ a.id \in p.google
        BY <3>1 DEF Vouched
      <4> QED BY <4>1, <4>2, <4>3
    <3>2. CASE \E a \in GoogleAccounts : p.email = a.email /\ p.google = {a.id}
      BY <3>2
    <3> QED BY <1>3, <3>1, <3>2
  <2>3. \A v \in DOMAIN users' \ DOMAIN Seeded : Confirmed(users'[v])
    BY <2>1, <2>2 DEF AccountConfirmed
  <2> QED BY <1>1, <2>3 DEF AccountConfirmed
<1> QED BY <1>2, <1>3, UsersStep

----------------------------------------------------------------------------
(* Requests and their codes *)

\* Every request stays where it is, or comes to a place with no code it did not
\* have; only a confirmation that begins takes up a code, which is live.
ReqsMoved ==
  \A r \in Requests :
    \/ reqs'[r] = reqs[r]
    \/ /\ CodeOf(reqs'[r]) \subseteq CodeOf(reqs[r])
       /\ reqs'[r].at # "verify"
       /\ reqs[r].at = "verify" => \A o \in CodeOf(reqs'[r]) : codes'[o].verified
       /\ reqs'[r].at = "insert" =>
            /\ \A o \in reqs'[r].code : codes[o].receiver = reqs'[r].person.email
            /\ reqs'[r].code = {} =>
                 \E a \in GoogleAccounts :
                   a.email = reqs'[r].person.email /\ a.id \in reqs'[r].person.google
    \/ \E o \in DOMAIN codes :
         ~codes[o].verified /\ reqs'[r].at = "verify" /\ CodeOf(reqs'[r]) = {o}

LEMMA ReqsStep == TypeOK /\ [Next]_vars => ReqsMoved
<1> SUFFICES ASSUME TypeOK, [Next]_vars PROVE ReqsMoved
  OBVIOUS
<1> USE DEF Answer
<1>0. reqs \in [Requests -> Request] /\ CodesKept
  BY Keeps DEF TypeOK
<1>1. CodeOf(Idle) = {} /\ Idle.at = "idle"
  BY DEF CodeOf, Idle
<1>2. ASSUME NEW r \in Requests, NEW next, Goto(r, next),
             /\ CodeOf(next) \subseteq CodeOf(reqs[r])
             /\ next.at \notin {"verify", "insert"}
             /\ reqs[r].at = "verify" => \A o \in CodeOf(next) : codes'[o].verified
      PROVE  ReqsMoved
  <2>1. \A q \in Requests : reqs'[q] = IF q = r THEN next ELSE reqs[q]
    BY <1>0, <1>2 DEF Goto
  <2> QED BY <1>2, <2>1 DEF ReqsMoved
<1>3. ASSUME NEW r \in Requests, Answer(r)
      PROVE  ReqsMoved
  BY <1>1, <1>2, <1>3
<1>4. ASSUME NEW r \in Requests, NEW s \in Spellings, NEW phone \in Phones \cup {Empty},
             NEW role \in Roles, BeginRegister(r, s, phone, role)
      PROVE  ReqsMoved
  <2> DEFINE next == [at |-> "pending", person |-> Registrant(Lower[s], phone, role)]
  <2>1. next.at = "pending" /\ CodeOf(next) = {} /\ reqs[r].at = "idle" /\ Goto(r, next)
    BY <1>4 DEF BeginRegister, CodeOf, Idle
  <2> QED BY <1>2, <2>1
<1>5. ASSUME NEW r \in Requests, NEW rcv, NEW o \in DOMAIN codes, BeginConfirm(r, rcv, o)
      PROVE  ReqsMoved
  <2> DEFINE next == [at |-> "verify", code |-> o]
  <2>1. \A q \in Requests : reqs'[q] = IF q = r THEN next ELSE reqs[q]
    BY <1>0, <1>5 DEF BeginConfirm, Goto
  <2>2. ~codes[o].verified /\ next.at = "verify" /\ CodeOf(next) = {o}
    BY <1>5 DEF BeginConfirm, Newest, Live, CodeOf
  <2> QED BY <2>1, <2>2 DEF ReqsMoved
<1>6. ASSUME NEW r \in Requests, NEW a \in GoogleAccounts, BeginLoginOAuth(r, a)
      PROVE  ReqsMoved
  <2> DEFINE p == [email |-> a.email, phone |-> {}, role |-> "volunteer",
                   active |-> TRUE, approved |-> FALSE, google |-> {a.id}]
             insert == [at |-> "insert", code |-> {}, person |-> p]
             link == [at |-> "link", account |-> a]
  <2>1. reqs[r].at = "idle"
    BY <1>6 DEF BeginLoginOAuth, Idle
  <2>2. CASE Goto(r, insert)
    <3>1. \A q \in Requests : reqs'[q] = IF q = r THEN insert ELSE reqs[q]
      BY <1>0, <2>2 DEF Goto
    <3>2. CodeOf(insert) = {} /\ p.email = a.email /\ a.id \in p.google
      BY DEF CodeOf
    <3>3. insert.at = "insert" /\ insert.code = {} /\ insert.person = p
      OBVIOUS
    <3> HIDE DEF insert, p
    <3> QED BY <2>1, <3>1, <3>2, <3>3 DEF ReqsMoved
  <2>3. CASE Goto(r, link)
    BY <1>2, <2>1, <2>3 DEF CodeOf
  <2> QED BY <1>6, <2>2, <2>3 DEF BeginLoginOAuth
<1>7. ASSUME NEW r \in Requests, StorePending(r)
      PROVE  ReqsMoved
  <2> DEFINE next == [at |-> "send", receiver |-> reqs[r].person.email]
  <2>1. next.at = "send" /\ CodeOf(next) = {} /\ reqs[r].at = "pending" /\ Goto(r, next)
    BY <1>7 DEF StorePending, CodeOf
  <2> QED BY <1>2, <2>1
<1>8. ASSUME NEW r \in Requests, MarkVerified(r)
      PROVE  ReqsMoved
  <2> DEFINE o == reqs[r].code
             next == [at |-> "find", code |-> o]
  <2>1. o \in DOMAIN codes /\ codes[o] \in Code /\ Goto(r, next)
    BY <1>8, RequestFields, CodeTyped DEF MarkVerified
  <2>2. codes'[o].verified
    BY <1>8, <2>1 DEF MarkVerified, Code
  <2>3. CodeOf(next) = {o} /\ CodeOf(reqs[r]) = {o} /\ next.at = "find"
    BY <1>8 DEF MarkVerified, CodeOf
  <2> QED BY <1>2, <2>1, <2>2, <2>3
\* The steps of a confirmation that keep its code.
<1>9. ASSUME NEW r \in Requests, NEW next, Goto(r, next),
             reqs[r].at \in {"find", "recall", "forget", "activate"},
             next.at \in {"recall", "activate", "session"}, next.code = reqs[r].code
      PROVE  ReqsMoved
  <2>1. CodeOf(next) = CodeOf(reqs[r])
    BY <1>9 DEF CodeOf
  <2> QED BY <1>2, <1>9, <2>1
<1>10. ASSUME NEW r \in Requests, FindUser(r)
      PROVE  ReqsMoved
  <2> DEFINE o == reqs[r].code
  <2>1. reqs[r].at = "find"
    BY <1>10 DEF FindUser
  <2>2. CASE Goto(r, [reqs[r] EXCEPT !.at = "recall"])
    <3>1. Goto(r, [at |-> "recall", code |-> o])
      BY <1>10, <2>2, RequestFields DEF FindUser
    <3> QED BY <1>9, <2>1, <3>1
  <2>3. ASSUME NEW u, NEW place \in {"session", "activate"},
               Goto(r, [at |-> place, code |-> o, user |-> u])
        PROVE  ReqsMoved
    BY <1>9, <2>1, <2>3
  <2> QED BY <1>10, <2>2, <2>3 DEF FindUser
<1>11. ASSUME NEW r \in Requests, RecallPending(r)
      PROVE  ReqsMoved
  <2> DEFINE o == reqs[r].code
             rcv == codes[o].receiver
             p == pending[rcv]
             next == [at |-> "insert", code |-> {o}, person |-> p]
  <2>1. reqs[r].at = "recall"
    BY <1>11 DEF RecallPending
  <2>2. CASE rcv \in DOMAIN pending
    <3>1. \A q \in Requests : reqs'[q] = IF q = r THEN next ELSE reqs[q]
      BY <1>0, <1>11, <2>2 DEF RecallPending, Goto
    <3>2. p.email = rcv
      BY <2>2 DEF TypeOK
    <3>3. CodeOf(next) = {o} /\ CodeOf(reqs[r]) = {o}
      BY <2>1 DEF CodeOf
    <3>4. next.at = "insert" /\ next.code = {o} /\ next.person = p
      OBVIOUS
    <3> HIDE DEF next, p
    <3> QED BY <2>1, <3>1, <3>2, <3>3, <3>4 DEF ReqsMoved
  <2>3. CASE rcv \notin DOMAIN pending
    BY <1>3, <1>11, <2>3 DEF RecallPending
  <2> QED BY <2>2, <2>3
<1>12. ASSUME NEW r \in Requests, InsertUser(r)
      PROVE  ReqsMoved
  <2>1. CASE Answer(r)
    BY <1>3, <2>1
  <2>2. ASSUME NEW o \in reqs[r].code, Goto(r, [at |-> "forget", code |-> o])
        PROVE  ReqsMoved
    <3> DEFINE next == [at |-> "forget", code |-> o]
    <3>1. reqs[r].at = "insert" /\ CodeOf(reqs[r]) = reqs[r].code
      BY <1>12 DEF InsertUser, CodeOf
    <3>2. CodeOf(next) = {o} /\ next.at = "forget"
      BY DEF CodeOf
    <3> QED BY <1>2, <2>2, <3>1, <3>2
  <2> QED BY <1>12, <2>1, <2>2 DEF InsertUser
<1>13. ASSUME NEW r \in Requests, ForgetPending(r)
      PROVE  ReqsMoved
  BY <1>9, <1>13 DEF ForgetPending
<1>14. ASSUME NEW r \in Requests, Activate(r)
      PROVE  ReqsMoved
  <2>1. Goto(r, [at |-> "session", code |-> reqs[r].code, user |-> reqs[r].user])
    BY <1>14, RequestFields DEF Activate
  <2> QED BY <1>9, <1>14, <2>1 DEF Activate
<1>15. ASSUME NEW r \in Requests, IssueTokens(r) \/ LinkGoogle(r) \/ SendCode(r) \/ FailRequest(r)
      PROVE  ReqsMoved
  BY <1>3, <1>15 DEF IssueTokens, LinkGoogle, SendCode, FailRequest
<1>16. CASE Restart
  BY <1>1, <1>16 DEF Restart, ReqsMoved
<1>17. CASE UNCHANGED reqs
  BY <1>17 DEF ReqsMoved
<1>18. CASE \/ \E rcv \in Receivers : SendOTP(rcv)
            \/ \E o \in DOMAIN codes : ExpireCode(o)
            \/ \E email \in DOMAIN pending : ExpirePending(email)
            \/ UNCHANGED vars
  BY <1>17, <1>18 DEF SendOTP, ExpireCode, ExpirePending, vars
<1> QED
  BY <1>4, <1>5, <1>6, <1>7, <1>8, <1>10, <1>11, <1>12, <1>13, <1>14, <1>15, <1>16, <1>18
  DEF Next, Begin, Continue

LEMMA UsedUpStep ==
  ASSUME TypeOK, UsedUp, [Next]_vars
  PROVE  UsedUp'
<1> SUFFICES ASSUME NEW r \in Requests, reqs'[r].at # "verify", NEW o \in CodeOf(reqs'[r])
             PROVE  codes'[o].verified
  BY DEF UsedUp, CodeOf
<1>1. CodesKept /\ ReqsMoved /\ CodeOf(reqs[r]) \subseteq DOMAIN codes
  BY Keeps, ReqsStep, RequestFields
<1>2. \/ o \in CodeOf(reqs[r]) /\ reqs[r].at # "verify"
      \/ codes'[o].verified
  BY <1>1 DEF ReqsMoved
<1>3. CASE o \in CodeOf(reqs[r]) /\ reqs[r].at # "verify"
  BY <1>1, <1>3 DEF UsedUp, CodesKept
<1> QED BY <1>2, <1>3

LEMMA VouchedStep ==
  ASSUME TypeOK, Vouched, [Next]_vars
  PROVE  Vouched'
<1> SUFFICES ASSUME NEW r \in Requests, reqs'[r].at = "insert"
             PROVE  /\ \A o \in reqs'[r].code : codes'[o].receiver = reqs'[r].person.email
                    /\ reqs'[r].code = {} =>
                         \E a \in GoogleAccounts :
                           a.email = reqs'[r].person.email /\ a.id \in reqs'[r].person.google
  BY DEF Vouched
<1>1. CodesKept /\ ReqsMoved /\ CodeOf(reqs[r]) \subseteq DOMAIN codes
  BY Keeps, ReqsStep, RequestFields
<1>2. CodeOf(reqs'[r]) = reqs'[r].code
  BY DEF CodeOf
<1>3. /\ \A o \in reqs'[r].code :
           o \in DOMAIN codes /\ codes[o].receiver = reqs'[r].person.email
      /\ reqs'[r].code = {} =>
           \E a \in GoogleAccounts :
             a.email = reqs'[r].person.email /\ a.id \in reqs'[r].person.google
  <2>1. CASE reqs'[r] = reqs[r]
    BY <1>1, <1>2, <2>1 DEF Vouched
  <2>2. CASE reqs'[r] # reqs[r]
    BY <1>1, <1>2, <2>2 DEF ReqsMoved
  <2> QED BY <2>1, <2>2
<1> QED BY <1>1, <1>3 DEF CodesKept

----------------------------------------------------------------------------
(* What a code buys *)

\* What a step does to the pairs of a code.
LEMMA PairsStep ==
  ASSUME TypeOK, [Next]_vars
  PROVE  \A o \in DOMAIN codes' :
           \/ o \notin DOMAIN codes /\ ~codes'[o].verified /\ codes'[o].pairs = 0
           \/ o \in DOMAIN codes /\ codes'[o].pairs = codes[o].pairs
           \/ /\ o \in DOMAIN codes /\ codes'[o].pairs = codes[o].pairs + 1
              /\ \E r \in Requests :
                   reqs[r].at = "session" /\ reqs[r].code = o /\ reqs'[r] = Idle
<1> DEFINE Goal(o) ==
      \/ o \notin DOMAIN codes /\ ~codes'[o].verified /\ codes'[o].pairs = 0
      \/ o \in DOMAIN codes /\ codes'[o].pairs = codes[o].pairs
      \/ /\ o \in DOMAIN codes /\ codes'[o].pairs = codes[o].pairs + 1
         /\ \E r \in Requests :
              reqs[r].at = "session" /\ reqs[r].code = o /\ reqs'[r] = Idle
<1> SUFFICES \A o \in DOMAIN codes' : Goal(o)
  OBVIOUS
<1>1. CASE UNCHANGED codes
  BY <1>1
<1>2. ASSUME NEW rcv \in Receivers, codes' = Append(codes, NewCode(rcv))
      PROVE  \A o \in DOMAIN codes' : Goal(o)
  <2>1. /\ DOMAIN codes' = DOMAIN codes \cup {Len(codes) + 1}
        /\ \A o \in DOMAIN codes : codes'[o] = codes[o]
        /\ codes'[Len(codes) + 1] = NewCode(rcv)
    BY <1>2, CodeAppended
  <2> QED BY <2>1 DEF NewCode
<1>3. ASSUME NEW p \in DOMAIN codes, NEW c \in Code, codes' = [codes EXCEPT ![p] = c],
             c.pairs = codes[p].pairs
      PROVE  \A o \in DOMAIN codes' : Goal(o)
  BY <1>3
<1>4. ASSUME NEW r \in Requests, SendCode(r)
      PROVE  \A o \in DOMAIN codes' : Goal(o)
  BY <1>2, <1>4, RequestFields, EmailTyped DEF SendCode
<1>5. ASSUME NEW r \in Requests, MarkVerified(r)
      PROVE  \A o \in DOMAIN codes' : Goal(o)
  <2> DEFINE p == reqs[r].code
             c == [codes[p] EXCEPT !.verified = TRUE]
  <2>1. p \in DOMAIN codes /\ codes[p] \in Code /\ codes' = [codes EXCEPT ![p] = c]
    BY <1>5, RequestFields, CodeTyped DEF MarkVerified
  <2>2. c \in Code /\ c.pairs = codes[p].pairs
    BY <2>1 DEF Code
  <2> QED BY <1>3, <2>1, <2>2
<1>6. ASSUME NEW r \in Requests, IssueTokens(r)
      PROVE  \A o \in DOMAIN codes' : Goal(o)
  <2> DEFINE p == reqs[r].code
             c == [codes[p] EXCEPT !.pairs = @ + 1]
  <2>1. /\ p \in DOMAIN codes /\ codes[p] \in Code /\ reqs[r].at = "session"
        /\ reqs \in [Requests -> Request]
    BY <1>6, RequestFields, CodeTyped DEF IssueTokens, TypeOK
  <2>2. reqs'[r] = Idle
    BY <1>6, <2>1 DEF IssueTokens, Answer, Goto
  <2>3. CASE codes' = [codes EXCEPT ![p] = c]
    <3>1. c.pairs = codes[p].pairs + 1
      BY <2>1 DEF Code
    <3> QED BY <2>1, <2>2, <2>3, <3>1
  <2> QED BY <1>1, <1>6, <2>3 DEF IssueTokens
<1>7. ASSUME NEW p \in DOMAIN codes, ExpireCode(p)
      PROVE  \A o \in DOMAIN codes' : Goal(o)
  <2> DEFINE c == [codes[p] EXCEPT !.expired = TRUE]
  <2>1. codes[p] \in Code /\ codes' = [codes EXCEPT ![p] = c]
    BY <1>7, CodeTyped DEF ExpireCode
  <2>2. c \in Code /\ c.pairs = codes[p].pairs
    BY <2>1 DEF Code
  <2> QED BY <1>3, <2>1, <2>2
<1>8. CASE ~UNCHANGED codes
  <2>1. \/ \E rcv \in Receivers : SendOTP(rcv)
        \/ \E p \in DOMAIN codes : ExpireCode(p)
        \/ \E r \in Requests : SendCode(r) \/ MarkVerified(r) \/ IssueTokens(r)
    BY <1>8, Zenon
    DEF Next, vars, Begin, Continue, BeginRegister, BeginConfirm, BeginLoginOAuth,
        StorePending, FindUser, RecallPending, InsertUser, ForgetPending, Activate,
        LinkGoogle, FailRequest, ExpirePending, Restart
  <2> QED BY <1>2, <1>4, <1>5, <1>6, <1>7, <2>1 DEF SendOTP
<1> QED BY <1>1, <1>8

LEMMA RequestsFinite ==
  ASSUME NEW A, A \subseteq Requests
  PROVE  /\ IsFiniteSet(A) /\ Cardinality(A) \in Nat /\ N \in Nat /\ Cardinality(A) <= N
<1>1. IsFiniteSet(Requests)
  BY AccountsAssumption DEF AccountsAssumption
<1> QED BY <1>1, FS_Subset, FS_CardinalityType DEF N

LEMMA PaidStep ==
  ASSUME TypeOK, UsedUp, CodesPaid, [Next]_vars
  PROVE  CodesPaid'
<1> SUFFICES ASSUME NEW o \in DOMAIN codes' PROVE Paid(o)'
  BY DEF CodesPaid
<1> DEFINE H == Holders(o)
           Hn == {r \in Requests : o \in CodeOf(reqs'[r])}
<1>1. CodesKept /\ ReqsMoved
  BY Keeps, ReqsStep
<1>2. Holders(o)' = Hn
  BY DEF Holders, CodeOf
<1>3. /\ IsFiniteSet(H) /\ Cardinality(H) \in Nat /\ N \in Nat
      /\ Cardinality(Hn) \in Nat /\ Cardinality(Hn) <= N
  <2>1. H \subseteq Requests /\ Hn \subseteq Requests
    BY DEF Holders
  <2> QED BY <2>1, RequestsFinite
\* Whoever holds a verified code held it before.
<1>4. ASSUME o \in DOMAIN codes, codes[o].verified
      PROVE  Hn \subseteq H
  BY <1>1, <1>4 DEF ReqsMoved, Holders
<1>5. CASE o \notin DOMAIN codes
  <2>1. ~codes'[o].verified /\ codes'[o].pairs = 0
    BY <1>5, PairsStep
  <2> QED BY <2>1 DEF Paid
<1>6. CASE o \in DOMAIN codes /\ ~codes[o].verified
  <2>1. codes[o].pairs = 0
    BY <1>6 DEF CodesPaid, Paid
  <2>2. codes'[o].pairs = 0
    <3>1. ASSUME NEW r \in Requests, reqs[r].at = "session", reqs[r].code = o
          PROVE  codes[o].verified
      BY <3>1 DEF UsedUp, CodeOf
    <3> QED BY <1>6, <2>1, <3>1, PairsStep
  <2>3. codes'[o].pairs + Cardinality(Hn) <= N
    BY <1>3, <2>2
  <2> QED BY <1>2, <2>2, <2>3 DEF Paid
<1>7. CASE o \in DOMAIN codes /\ codes[o].verified
  <2>1. codes'[o].verified /\ codes[o].pairs + Cardinality(H) <= N /\ codes[o].pairs \in Nat
    BY <1>1, <1>7, CodeTyped DEF CodesKept, CodesPaid, Paid, Code
  <2>2. Cardinality(Hn) <= Cardinality(H)
    BY <1>3, <1>4, <1>7, FS_Subset
  <2>3. CASE codes'[o].pairs = codes[o].pairs
    <3>1. codes'[o].pairs + Cardinality(Hn) <= N
      BY <1>3, <2>1, <2>2, <2>3
    <3> QED BY <1>2, <2>1, <3>1 DEF Paid
  <2>4. ASSUME NEW r \in Requests, reqs[r].at = "session", reqs[r].code = o,
               reqs'[r] = Idle, codes'[o].pairs = codes[o].pairs + 1
        PROVE  Paid(o)'
    <3>1. r \in H /\ r \notin Hn
      BY <2>4 DEF Holders, CodeOf, Idle
    <3>2. Hn \subseteq H \ {r}
      BY <1>4, <1>7, <3>1
    <3>3. IsFiniteSet(H \ {r}) /\ Cardinality(H \ {r}) = Cardinality(H) - 1
      BY <1>3, <3>1, FS_RemoveElement
    <3>4. Cardinality(Hn) <= Cardinality(H) - 1
      BY <3>2, <3>3, FS_Subset
    <3>5. codes'[o].pairs + Cardinality(Hn) <= N
      BY <1>3, <2>1, <2>4, <3>4
    <3> QED BY <1>2, <2>1, <3>5 DEF Paid
  <2> QED BY <1>7, <2>3, <2>4, PairsStep
<1> QED BY <1>5, <1>6, <1>7

----------------------------------------------------------------------------
(* Theorems *)

LEMMA InitIInv == Init => IInv
<1> SUFFICES ASSUME Init PROVE IInv
  OBVIOUS
<1>1. codes = <<>> /\ users = Seeded /\ DOMAIN pending = {}
  BY DEF Init
<1>2. DOMAIN codes = {} /\ codes \in Seq(Code)
  BY <1>1
<1>3. reqs \in [Requests -> Request] /\ \A r \in Requests : reqs[r] = Idle
  BY DEF Init, Request
<1>4. TypeOK
  BY <1>1, <1>2, <1>3, AccountsAssumption DEF TypeOK, AccountsAssumption
<1>5. AccountsUnique /\ AccountConfirmed
  BY <1>1, AccountsAssumption DEF AccountsUnique, AccountConfirmed, AccountsAssumption
<1>6. UsedUp /\ Vouched /\ CodesPaid
  BY <1>2, <1>3 DEF UsedUp, Vouched, CodesPaid, CodeOf, Idle
<1> QED BY <1>4, <1>5, <1>6 DEF IInv

LEMMA IInvStep == IInv /\ [Next]_vars => IInv'
  BY Keeps, UniqueStep, ConfirmedStep, UsedUpStep, VouchedStep, PaidStep DEF IInv

LEMMA Invariance == Spec => []IInv
  BY InitIInv, IInvStep, PTL DEF Spec

\* Rows and requests are well typed: what a request remembers of codes and users
\* is still there when it uses it, and registrations wait where they are looked for.
THEOREM TypeCorrect == Spec => []TypeOK
<1>1. IInv => TypeOK
  BY DEF IInv
<1> QED BY <1>1, Invariance, PTL

\* Accounts stay unique, however many requests create and link them at once.
THEOREM AccountsStayUnique == Spec => []AccountsUnique
<1>1. IInv => AccountsUnique
  BY DEF IInv
<1> QED BY <1>1, Invariance, PTL

\* No account comes to be without a used-up code of its address, or Google's word.
THEOREM AccountsAreConfirmed == Spec => []AccountConfirmed
<1>1. IInv => AccountConfirmed
  BY DEF IInv
<1> QED BY <1>1, Invariance, PTL

\* A code buys at most as many token pairs as there are requests in flight.
THEOREM CodeUsesStayBounded == Spec => []CodeUsesBounded
<1>1. ASSUME IInv, NEW o \in DOMAIN codes
      PROVE  codes[o].pairs <= N
  <2>1. codes[o].pairs \in Nat /\ Paid(o)
    BY <1>1, CodeTyped DEF IInv, CodesPaid, Code
  <2>2. N \in Nat /\ Cardinality(Holders(o)) \in Nat
    BY RequestsFinite DEF Holders
  <2> QED BY <2>1, <2>2 DEF Paid
<1>2. IInv => CodeUsesBounded
  BY <1>1 DEF CodeUsesBounded, N
<1> QED BY <1>2, Invariance, PTL

----------------------------------------------------------------------------
(* Who is registered, and who is let in *)

\* What a request is about to store is what a visitor or Google may ask for, and whom
\* it is about to activate or sign in has the address or the phone its code went to.
Rightful(q) ==
  /\ q.at = "pending" => q.person \in Applicants
  /\ q.at = "insert" => \/ q.code = {} /\ q.person \in Newcomers
                        \/ q.person \in Applicants /\ \E o \in DOMAIN codes : q.code = {o}
  /\ q.at \in {"activate", "session"} => q.user \in UsersWith(codes[q.code].receiver)

RInv ==
  /\ \A e \in DOMAIN pending : pending[e] \in Applicants
  /\ \A r \in Requests : Rightful(reqs[r])

\* Users keep their addresses and phones, and codes their receivers.
LEMMA ReachKept ==
  ASSUME TypeOK, [Next]_vars, NEW o \in DOMAIN codes, NEW u \in UsersWith(codes[o].receiver)
  PROVE  u \in UsersWith(codes[o].receiver)'
<1>1. codes'[o].receiver = codes[o].receiver
  BY Keeps DEF CodesKept
<1>2. u \in DOMAIN users
  BY DEF UsersWith
<1>3. /\ u \in DOMAIN users' /\ users'[u].email = users[u].email
      /\ users'[u].phone = users[u].phone
  <2>1. ASSUME NEW v \in UserIds, NEW p \in Person, users' = Put(users, v, p),
               v \in DOMAIN users => p.email = users[v].email /\ p.phone = users[v].phone
        PROVE  /\ u \in DOMAIN users' /\ users'[u].email = users[u].email
               /\ users'[u].phone = users[u].phone
    BY <1>2, <2>1, UserPut
  <2> QED BY <1>2, <2>1, UsersStep
<1> QED BY <1>1, <1>3 DEF UsersWith

LEMMA RightfulKept ==
  ASSUME TypeOK, [Next]_vars, NEW r \in Requests, Rightful(reqs[r]), reqs'[r] = reqs[r]
  PROVE  Rightful(reqs[r])'
<1>1. PICK q : q = reqs[r]
  OBVIOUS
<1>2. q.at \in {"activate", "session"} => q.code \in DOMAIN codes
  BY <1>1, RequestFields
<1>3. DOMAIN codes \subseteq DOMAIN codes'
  BY Keeps DEF CodesKept
<1>4. q.at \in {"activate", "session"} => q.user \in UsersWith(codes[q.code].receiver)'
  BY <1>1, <1>2, ReachKept DEF Rightful
<1>5. Rightful(q)'
  BY <1>1, <1>3, <1>4 DEF Rightful, Applicants, Newcomers
<1> QED BY <1>1, <1>5

LEMMA RightsMove ==
  ASSUME TypeOK, RInv, [Next]_vars, NEW r \in Requests, NEW next, Goto(r, next),
         Rightful(next)', \A e \in DOMAIN pending' : pending'[e] \in Applicants
  PROVE  RInv'
<1>1. \A q \in Requests : reqs'[q] = IF q = r THEN next ELSE reqs[q]
  BY DEF TypeOK, Goto
<1>2. ASSUME NEW q \in Requests
      PROVE  Rightful(reqs[q])'
  <2>1. CASE q = r
    BY <1>1, <2>1
  <2>2. CASE q # r
    BY <1>1, <2>2, RightfulKept DEF RInv
  <2> QED BY <2>1, <2>2
<1> QED BY <1>2 DEF RInv, Applicants

LEMMA RInvInit == Init => RInv
BY DEF Init, RInv, Rightful, Idle

LEMMA RInvStep == TypeOK /\ RInv /\ [Next]_vars => RInv'
<1> SUFFICES ASSUME TypeOK, RInv, [Next]_vars PROVE RInv'
  OBVIOUS
<1> USE DEF Answer
<1>0. \A e \in DOMAIN pending : pending[e] \in Applicants
  BY DEF RInv
\* A request that goes where nothing is asked of it.
<1>1. ASSUME NEW r \in Requests, NEW next, Goto(r, next),
             next.at \notin {"pending", "insert", "activate", "session"},
             \A e \in DOMAIN pending' : pending'[e] \in Applicants
      PROVE  RInv'
  <2>1. Rightful(next)'
    BY <1>1 DEF Rightful
  <2> QED BY <1>1, <2>1, RightsMove
<1>2. ASSUME NEW r \in Requests, Answer(r),
             \A e \in DOMAIN pending' : pending'[e] \in Applicants
      PROVE  RInv'
  <2>1. Idle.at = "idle"
    BY DEF Idle
  <2> QED BY <1>1, <1>2, <2>1
<1>3. ASSUME NEW r \in Requests, NEW s \in Spellings, NEW phone \in Phones \cup {Empty},
             NEW role \in Roles, BeginRegister(r, s, phone, role)
      PROVE  RInv'
  <2>1. PICK p, next : /\ p = Registrant(Lower[s], phone, role)
                       /\ next = [at |-> "pending", person |-> p] /\ Goto(r, next)
    BY <1>3 DEF BeginRegister
  <2>2. p \in Applicants
    BY <2>1 DEF Applicants, Emails
  <2>3. Rightful(next)'
    BY <2>1, <2>2 DEF Rightful, Applicants
  <2> QED BY <1>0, <1>3, <2>1, <2>3, RightsMove DEF BeginRegister
<1>4. ASSUME NEW r \in Requests, NEW rcv, NEW o \in DOMAIN codes, BeginConfirm(r, rcv, o)
      PROVE  RInv'
  BY <1>0, <1>1, <1>4 DEF BeginConfirm
<1>5. ASSUME NEW r \in Requests, NEW a \in GoogleAccounts, BeginLoginOAuth(r, a)
      PROVE  RInv'
  <2>1. PICK p \in Newcomers :
          \/ Goto(r, [at |-> "insert", code |-> {}, person |-> p])
          \/ Goto(r, [at |-> "link", account |-> a])
    BY <1>5 DEF BeginLoginOAuth, Newcomers
  <2>2. UNCHANGED pending
    BY <1>5 DEF BeginLoginOAuth
  <2>3. CASE Goto(r, [at |-> "insert", code |-> {}, person |-> p])
    <3>1. Rightful([at |-> "insert", code |-> {}, person |-> p])'
      BY <2>1 DEF Rightful, Newcomers
    <3> QED BY <1>0, <2>2, <2>3, <3>1, RightsMove
  <2>4. CASE Goto(r, [at |-> "link", account |-> a])
    BY <1>0, <1>1, <2>2, <2>4
  <2> QED BY <2>1, <2>3, <2>4
<1>6. ASSUME NEW r \in Requests, StorePending(r)
      PROVE  RInv'
  <2>1. PICK p : p = reqs[r].person
    OBVIOUS
  <2>2. p \in Applicants /\ pending' = Put(pending, p.email, p)
    BY <1>6, <2>1 DEF StorePending, RInv, Rightful
  <2>3. \A e \in DOMAIN pending' : pending'[e] \in Applicants
    BY <1>0, <2>2 DEF Put
  <2> QED BY <1>1, <1>6, <2>1, <2>3 DEF StorePending
<1>7. ASSUME NEW r \in Requests, MarkVerified(r)
      PROVE  RInv'
  <2>1. Goto(r, [at |-> "find", code |-> reqs[r].code]) /\ UNCHANGED pending
    BY <1>7, RequestFields DEF MarkVerified
  <2> QED BY <1>0, <1>1, <2>1
\* The steps of a confirmation to a user who has the receiver of its code.
<1>8. ASSUME NEW r \in Requests, NEW o \in DOMAIN codes, NEW u \in UsersWith(codes[o].receiver),
             NEW place \in {"activate", "session"},
             Goto(r, [at |-> place, code |-> o, user |-> u]),
             \A e \in DOMAIN pending' : pending'[e] \in Applicants
      PROVE  RInv'
  <2>1. u \in UsersWith(codes[o].receiver)'
    BY ReachKept
  <2>2. Rightful([at |-> place, code |-> o, user |-> u])'
    BY <2>1 DEF Rightful
  <2> QED BY <1>8, <2>2, RightsMove
<1>9. ASSUME NEW r \in Requests, FindUser(r)
      PROVE  RInv'
  <2>1. PICK o \in DOMAIN codes : o = reqs[r].code
    BY <1>9, RequestFields DEF FindUser
  <2>2. CASE Goto(r, [reqs[r] EXCEPT !.at = "recall"])
    <3>1. Goto(r, [at |-> "recall", code |-> o])
      BY <1>9, <2>1, <2>2, RequestFields DEF FindUser
    <3> QED BY <1>0, <1>1, <1>9, <3>1 DEF FindUser
  <2>3. CASE \E u \in UsersWith(codes[o].receiver) :
               Goto(r, [at |-> IF users[u].active THEN "session" ELSE "activate",
                        code |-> o, user |-> u])
    <3>1. PICK u \in UsersWith(codes[o].receiver), place \in {"activate", "session"} :
            Goto(r, [at |-> place, code |-> o, user |-> u])
      BY <2>3
    <3> QED BY <1>0, <1>8, <1>9, <3>1 DEF FindUser
  <2> QED BY <1>9, <2>1, <2>2, <2>3 DEF FindUser
<1>10. ASSUME NEW r \in Requests, RecallPending(r)
      PROVE  RInv'
  <2>1. PICK o \in DOMAIN codes : o = reqs[r].code
    BY <1>10, RequestFields DEF RecallPending
  <2>2. CASE codes[o].receiver \in DOMAIN pending
    <3>1. PICK p \in Applicants : Goto(r, [at |-> "insert", code |-> {o}, person |-> p])
      BY <1>0, <1>10, <2>1, <2>2 DEF RecallPending
    <3>2. o \in DOMAIN codes'
      BY Keeps DEF CodesKept
    <3>3. Rightful([at |-> "insert", code |-> {o}, person |-> p])'
      BY <3>1, <3>2 DEF Rightful, Applicants
    <3> QED BY <1>0, <1>10, <3>1, <3>3, RightsMove DEF RecallPending
  <2>3. CASE codes[o].receiver \notin DOMAIN pending
    BY <1>0, <1>2, <1>10, <2>1, <2>3 DEF RecallPending
  <2> QED BY <2>2, <2>3
<1>11. ASSUME NEW r \in Requests, InsertUser(r)
      PROVE  RInv'
  <2>1. UNCHANGED pending
    BY <1>11 DEF InsertUser
  <2>2. CASE Answer(r)
    BY <1>0, <1>2, <2>1, <2>2
  <2>3. ASSUME NEW o, Goto(r, [at |-> "forget", code |-> o])
        PROVE  RInv'
    BY <1>0, <1>1, <2>1, <2>3
  <2> QED BY <1>11, <2>2, <2>3 DEF InsertUser
<1>12. ASSUME NEW r \in Requests, ForgetPending(r)
      PROVE  RInv'
  <2>1. PICK o \in DOMAIN codes : o = reqs[r].code
    BY <1>12, RequestFields DEF ForgetPending
  <2>2. PICK u \in UsersWith(codes[o].receiver) :
          Goto(r, [at |-> "session", code |-> o, user |-> u])
    BY <1>12, <2>1 DEF ForgetPending
  <2>3. pending' = pending \/ pending' = Without(pending, codes[o].receiver)
    BY <1>12, <2>1 DEF ForgetPending
  <2>4. \A e \in DOMAIN pending' : pending'[e] \in Applicants
    BY <1>0, <2>3 DEF Without
  <2> QED BY <1>8, <2>2, <2>4
<1>13. ASSUME NEW r \in Requests, Activate(r)
      PROVE  RInv'
  <2>1. PICK o \in DOMAIN codes, u \in DOMAIN users : o = reqs[r].code /\ u = reqs[r].user
    BY <1>13, RequestFields DEF Activate
  <2>2. u \in UsersWith(codes[o].receiver)
    BY <1>13, <2>1 DEF Activate, RInv, Rightful
  <2>3. Goto(r, [at |-> "session", code |-> o, user |-> u]) /\ UNCHANGED pending
    BY <1>13, <2>1, RequestFields DEF Activate
  <2> QED BY <1>0, <1>8, <2>2, <2>3
<1>14. ASSUME NEW r \in Requests, IssueTokens(r) \/ LinkGoogle(r) \/ SendCode(r) \/ FailRequest(r)
      PROVE  RInv'
  BY <1>0, <1>2, <1>14 DEF IssueTokens, LinkGoogle, SendCode, FailRequest
<1>15. CASE Restart
  BY <1>15 DEF Restart, RInv, Rightful, Idle, Applicants
\* Steps in which no request moves.
<1>16. ASSUME UNCHANGED reqs, \A e \in DOMAIN pending' : pending'[e] \in Applicants
      PROVE  RInv'
  <2>1. \A r \in Requests : Rightful(reqs[r])'
    BY <1>16, RightfulKept DEF RInv
  <2> QED BY <1>16, <2>1 DEF RInv, Applicants
<1>17. CASE \/ \E rcv \in Receivers : SendOTP(rcv)
            \/ \E o \in DOMAIN codes : ExpireCode(o)
            \/ UNCHANGED vars
  BY <1>0, <1>16, <1>17 DEF SendOTP, ExpireCode, vars
<1>18. ASSUME NEW email, ExpirePending(email)
      PROVE  RInv'
  <2>1. \A e \in DOMAIN pending' : pending'[e] \in Applicants
    BY <1>0, <1>18 DEF ExpirePending, Without
  <2> QED BY <1>16, <1>18, <2>1 DEF ExpirePending
<1> QED
  BY <1>3, <1>4, <1>5, <1>6, <1>7, <1>9, <1>10, <1>11, <1>12, <1>13, <1>14, <1>15, <1>17,
     <1>18
  DEF Next, Begin, Continue

----------------------------------------------------------------------------
(* Accounts implements AccountRegistry *)

\* What the registry sees of the codes while they stand, and when one is sent.
LEMMA CodesStand ==
  ASSUME UNCHANGED codes
  PROVE  Sent' = Sent /\ OpenCodes' = OpenCodes /\ Proven' = Proven /\ Pairs' = Pairs
BY DEF Sent, OpenCodes, Proven, Pairs

LEMMA SeqOfFunction ==
  ASSUME NEW S, NEW n \in Nat, NEW f \in [1 .. n -> S]
  PROVE  f \in Seq(S) /\ Len(f) = n
<1>1. f \in Seq(S)
  BY SeqDef
<1>2. Len(f) \in Nat /\ 1 .. Len(f) = 1 .. n
  BY <1>1, LenProperties
<1> QED BY <1>1, <1>2

LEMMA CodesSent ==
  ASSUME TypeOK, NEW rcv \in Receivers, codes' = Append(codes, NewCode(rcv)),
         UNCHANGED <<users, Confirms>>
  PROVE  Registry!Next
<1>1. /\ codes \in Seq(Code) /\ codes' \in Seq(Code) /\ Len(codes) \in Nat
      /\ DOMAIN codes = 1 .. Len(codes)
      /\ DOMAIN codes' = DOMAIN codes \cup {Len(codes) + 1}
      /\ \A o \in DOMAIN codes : codes'[o] = codes[o]
      /\ codes'[Len(codes) + 1] = NewCode(rcv)
  BY CodeAppended, LenProperties DEF TypeOK
<1>2. DOMAIN codes' = 1 .. Len(codes) + 1 /\ Len(codes) + 1 \notin DOMAIN codes
  BY <1>1
<1>3. /\ Sent \in Seq(Receivers) /\ Sent' \in Seq(Receivers)
      /\ Pairs \in Seq(Nat) /\ Pairs' \in Seq(Nat)
      /\ Len(Sent) = Len(codes) /\ Len(Pairs) = Len(codes)
      /\ Len(Sent') = Len(codes) + 1 /\ Len(Pairs') = Len(codes) + 1
  <2>1. /\ \A o \in DOMAIN codes : codes[o].receiver \in Receivers /\ codes[o].pairs \in Nat
        /\ \A o \in DOMAIN codes' : codes'[o].receiver \in Receivers /\ codes'[o].pairs \in Nat
    BY <1>1, CodeTyped DEF Code, NewCode
  <2>2. /\ Sent \in [1 .. Len(codes) -> Receivers] /\ Pairs \in [1 .. Len(codes) -> Nat]
        /\ Sent' \in [1 .. Len(codes) + 1 -> Receivers]
        /\ Pairs' \in [1 .. Len(codes) + 1 -> Nat]
    BY <1>1, <1>2, <2>1 DEF Sent, Pairs
  <2>3. Len(codes) + 1 \in Nat
    BY <1>1
  <2> QED BY <1>1, <2>2, <2>3, SeqOfFunction
<1>4. Sent' = Append(Sent, rcv)
  <2>1. \A i \in 1 .. Len(codes) + 1 :
          Sent'[i] = IF i = Len(codes) + 1 THEN rcv ELSE Sent[i]
    BY <1>1, <1>2 DEF Sent, NewCode
  <2> QED BY <1>1, <1>3, <2>1, AppendProperties, SeqEqual
<1>5. Pairs' = Append(Pairs, 0)
  <2>1. \A i \in 1 .. Len(codes) + 1 :
          Pairs'[i] = IF i = Len(codes) + 1 THEN 0 ELSE Pairs[i]
    BY <1>1, <1>2 DEF Pairs, NewCode
  <2> QED BY <1>1, <1>3, <2>1, AppendProperties, SeqEqual
<1>6. OpenCodes' = OpenCodes \cup {Len(Sent) + 1} /\ Proven' = Proven
  BY <1>1, <1>2, <1>3 DEF OpenCodes, Proven, NewCode
<1>7. Registry!Send(rcv)
  BY <1>4, <1>5, <1>6 DEF Registry!Send
<1> QED BY <1>7 DEF Registry!Next

LEMMA ConfirmsMove ==
  ASSUME TypeOK, NEW r \in Requests, NEW next, Goto(r, next)
  PROVE  /\ Confirms' = [Confirms EXCEPT ![r] = CodeOf(next)]
         /\ CodeOf(next) = CodeOf(reqs[r]) => Confirms' = Confirms
<1>1. \A q \in Requests : reqs'[q] = IF q = r THEN next ELSE reqs[q]
  BY DEF TypeOK, Goto
<1>2. \A q \in Requests : Confirms'[q] = IF q = r THEN CodeOf(next) ELSE Confirms[q]
  BY <1>1 DEF Confirms, CodeOf
<1>3. /\ Confirms = [q \in Requests |-> Confirms[q]]
      /\ Confirms' = [q \in Requests |-> Confirms'[q]]
      /\ Confirms[r] = CodeOf(reqs[r])
  BY DEF Confirms
<1> QED BY <1>2, <1>3

\* Requests that end while nothing else happens.
LEMMA Forfeits ==
  ASSUME UNCHANGED <<codes, users>>, NEW R \in SUBSET Requests,
         \A q \in Requests : reqs'[q] = IF q \in R THEN Idle ELSE reqs[q]
  PROVE  Registry!Next
<1>1. Confirms' = [q \in Requests |-> IF q \in R THEN {} ELSE Confirms[q]]
  BY DEF Confirms, CodeOf, Idle
<1>2. Registry!Forfeit(R)
  BY <1>1, CodesStand DEF Registry!Forfeit
<1> QED BY <1>2 DEF Registry!Next

LEMMA ForfeitsOne ==
  ASSUME TypeOK, UNCHANGED <<codes, users>>, NEW r \in Requests, Answer(r)
  PROVE  Registry!Next
<1>1. \A q \in Requests : reqs'[q] = IF q \in {r} THEN Idle ELSE reqs[q]
  BY DEF TypeOK, Answer, Goto
<1> QED BY <1>1, Forfeits

\* A request whose code, if any, is the same afterwards.
LEMMA Stutters ==
  ASSUME TypeOK, UNCHANGED <<codes, users>>, NEW r \in Requests, NEW next, Goto(r, next),
         CodeOf(next) = CodeOf(reqs[r])
  PROVE  UNCHANGED Registry!rvars
BY CodesStand, ConfirmsMove DEF Registry!rvars

\* A write of users that the constraints let pass is an entry in the registry.
LEMMA Enters ==
  ASSUME UNCHANGED codes, NEW u, NEW p, users' = Put(users, u, p), ~Clash(u, p)
  PROVE  Registry!Enter(u, p)
<1>1. \A v \in DOMAIN users \ {u} : ~Registry!Shares(users[v], p)
  BY DEF Clash, SameKey, Registry!Shares
<1> QED BY <1>1, CodesStand DEF Registry!Enter, Put

LEMMA RegistryStep ==
  IInv /\ RInv /\ [Next]_vars => [Registry!Next]_(Registry!rvars)
<1> SUFFICES ASSUME IInv, RInv, [Next]_vars PROVE [Registry!Next]_(Registry!rvars)
  OBVIOUS
<1>0. TypeOK /\ CodeOf(Idle) = {}
  BY DEF IInv, CodeOf, Idle
<1> USE DEF Answer
<1>1. ASSUME NEW r \in Requests, Begin(r)
      PROVE  [Registry!Next]_(Registry!rvars)
  <2>1. ASSUME NEW next, Goto(r, next), CodeOf(next) = {}, reqs[r] = Idle,
               UNCHANGED <<codes, users>>
        PROVE  UNCHANGED Registry!rvars
    BY <1>0, <2>1, Stutters
  <2>2. ASSUME NEW s \in Spellings, NEW phone \in Phones \cup {Empty}, NEW role \in Roles,
               BeginRegister(r, s, phone, role)
        PROVE  UNCHANGED Registry!rvars
    <3>1. PICK next : Goto(r, next) /\ next.at = "pending"
      BY <2>2 DEF BeginRegister
    <3>2. CodeOf(next) = {}
      BY <3>1 DEF CodeOf
    <3> QED BY <2>1, <2>2, <3>1, <3>2 DEF BeginRegister
  <2>3. ASSUME NEW a \in GoogleAccounts, BeginLoginOAuth(r, a)
        PROVE  UNCHANGED Registry!rvars
    <3>1. PICK next : Goto(r, next) /\ CodeOf(next) = {}
      BY <2>3 DEF BeginLoginOAuth, CodeOf
    <3> QED BY <2>1, <2>3, <3>1 DEF BeginLoginOAuth
  <2>4. ASSUME NEW rcv, NEW o \in DOMAIN codes, BeginConfirm(r, rcv, o)
        PROVE  Registry!Next
    <3>1. PICK next : Goto(r, next) /\ CodeOf(next) = {o}
      BY <2>4 DEF BeginConfirm, CodeOf
    <3>2. Confirms' = [Confirms EXCEPT ![r] = {o}] /\ Confirms[r] = {}
      BY <1>0, <2>4, <3>1, ConfirmsMove DEF BeginConfirm, Confirms
    <3>3. o \in OpenCodes /\ \A c \in OpenCodes : Sent[c] = Sent[o] => c <= o
      BY <2>4 DEF BeginConfirm, Newest, Live, OpenCodes, Sent
    <3>4. Registry!Begin(r, o)
      BY <2>4, <3>2, <3>3, CodesStand DEF BeginConfirm, Registry!Begin
    <3> QED BY <3>3, <3>4 DEF Registry!Next
  <2> QED BY <1>1, <2>2, <2>3, <2>4 DEF Begin
<1>2. ASSUME NEW r \in Requests, StorePending(r) \/ FindUser(r)
      PROVE  UNCHANGED Registry!rvars
  <2>1. PICK next : Goto(r, next) /\ CodeOf(next) = CodeOf(reqs[r])
    <3>1. CASE StorePending(r)
      BY <3>1 DEF StorePending, CodeOf
    <3>2. CASE FindUser(r)
      <4>1. reqs[r].at = "find"
        BY <3>2 DEF FindUser
      <4>2. CASE Goto(r, [reqs[r] EXCEPT !.at = "recall"])
        <5>1. [reqs[r] EXCEPT !.at = "recall"] = [at |-> "recall", code |-> reqs[r].code]
          BY <1>0, <4>1, RequestFields
        <5>2. Goto(r, [at |-> "recall", code |-> reqs[r].code])
          BY <4>2, <5>1
        <5>3. CodeOf([at |-> "recall", code |-> reqs[r].code]) = CodeOf(reqs[r])
          BY <4>1 DEF CodeOf
        <5> QED BY <5>2, <5>3
      <4>3. ASSUME NEW u, Goto(r, [at |-> IF users[u].active THEN "session" ELSE "activate",
                                   code |-> reqs[r].code, user |-> u])
            PROVE  \E next : Goto(r, next) /\ CodeOf(next) = CodeOf(reqs[r])
        BY <4>1, <4>3 DEF CodeOf
      <4> QED BY <3>2, <4>2, <4>3 DEF FindUser
    <3> QED BY <1>2, <3>1, <3>2
  <2>2. UNCHANGED <<codes, users>>
    BY <1>2 DEF StorePending, FindUser
  <2> QED BY <1>0, <2>1, <2>2, Stutters
<1>3. ASSUME NEW r \in Requests, SendCode(r)
      PROVE  Registry!Next
  <2>1. reqs[r].receiver \in Receivers /\ codes' = Append(codes, NewCode(reqs[r].receiver))
    BY <1>0, <1>3, RequestFields, EmailTyped DEF SendCode
  <2>2. CodeOf(reqs[r]) = {}
    BY <1>3 DEF SendCode, CodeOf
  <2>3. Confirms' = Confirms
    BY <1>0, <1>3, <2>2, ConfirmsMove DEF SendCode
  <2> QED BY <1>0, <1>3, <2>1, <2>3, CodesSent DEF SendCode
<1>4. ASSUME NEW r \in Requests, MarkVerified(r)
      PROVE  Registry!Next
  <2>1. PICK o \in DOMAIN codes : o = reqs[r].code
    BY <1>0, <1>4, RequestFields DEF MarkVerified
  <2>2. Goto(r, [at |-> "find", code |-> o])
    BY <1>0, <1>4, <2>1, RequestFields DEF MarkVerified
  <2>3. Confirms' = Confirms /\ Confirms[r] = {o}
    <3>1. CodeOf([at |-> "find", code |-> o]) = {o} /\ CodeOf(reqs[r]) = {o}
      BY <1>4, <2>1 DEF MarkVerified, CodeOf
    <3> QED BY <1>0, <2>2, <3>1, ConfirmsMove DEF Confirms
  <2>4. /\ DOMAIN codes' = DOMAIN codes
        /\ \A p \in DOMAIN codes \ {o} : codes'[p] = codes[p]
        /\ codes'[o] = [codes[o] EXCEPT !.verified = TRUE]
        /\ codes[o] \in Code
    BY <1>0, <1>4, <2>1, CodeTyped DEF MarkVerified
  <2>5. /\ codes'[o].verified /\ codes'[o].receiver = codes[o].receiver
        /\ codes'[o].pairs = codes[o].pairs
    BY <2>4 DEF Code
  <2>6. Sent' = Sent /\ Pairs' = Pairs
    BY <2>4, <2>5 DEF Sent, Pairs
  <2>7. Proven' = Proven \cup {o} /\ OpenCodes' = OpenCodes \ {o}
    BY <2>1, <2>4, <2>5 DEF Proven, OpenCodes
  <2>8. Registry!Prove(r)
    BY <1>4, <2>3, <2>6, <2>7 DEF MarkVerified, Registry!Prove
  <2> QED BY <2>8 DEF Registry!Next
<1>5. ASSUME NEW r \in Requests, RecallPending(r)
      PROVE  [Registry!Next]_(Registry!rvars)
  <2>1. UNCHANGED <<codes, users>> /\ CodeOf(reqs[r]) = {reqs[r].code}
    BY <1>5 DEF RecallPending, CodeOf
  <2>2. Answer(r) \/ \E next : Goto(r, next) /\ CodeOf(next) = CodeOf(reqs[r])
    BY <1>5, <2>1 DEF RecallPending, CodeOf
  <2> QED BY <1>0, <2>1, <2>2, Stutters, ForfeitsOne
<1>6. ASSUME NEW r \in Requests, InsertUser(r)
      PROVE  Registry!Next
  <2>1. PICK p \in Person : p = reqs[r].person
    BY <1>0, <1>6, RequestFields DEF InsertUser
  <2>2. /\ reqs[r].at = "insert" /\ UNCHANGED codes
        /\ CodeOf(reqs[r]) = reqs[r].code /\ Confirms[r] = reqs[r].code
    BY <1>6 DEF InsertUser, CodeOf, Confirms
  <2>3. PICK u \in UserIds \ DOMAIN users :
          IF Clash(u, p)
            THEN Answer(r) /\ UNCHANGED users
            ELSE /\ users' = Put(users, u, p)
                 /\ \/ reqs[r].code = {} /\ Answer(r)
                    \/ \E o \in reqs[r].code : Goto(r, [at |-> "forget", code |-> o])
    BY <1>6, <2>1 DEF InsertUser
  <2>4. CASE Clash(u, p)
    BY <1>0, <2>2, <2>3, <2>4, ForfeitsOne
  <2>5. CASE ~Clash(u, p)
    <3>1. Registry!Enter(u, p)
      BY <2>2, <2>3, <2>5, Enters
    <3>2. CASE reqs[r].code = {} /\ Answer(r)
      <4>1. p \in Newcomers
        BY <2>1, <2>2, <3>2 DEF RInv, Rightful
      <4>2. Confirms' = Confirms
        BY <1>0, <2>2, <3>2, ConfirmsMove
      <4>3. Registry!Welcome(u, p)
        BY <2>2, <3>1, <4>2, CodesStand DEF Registry!Welcome
      <4> QED BY <2>3, <4>1, <4>3 DEF Registry!Next
    <3>3. ASSUME NEW o \in reqs[r].code, Goto(r, [at |-> "forget", code |-> o])
          PROVE  Registry!Next
      <4>1. p \in Applicants /\ reqs[r].code = {o} /\ o \in DOMAIN codes
        BY <2>1, <2>2, <3>3 DEF RInv, Rightful
      <4>2. codes[o].verified /\ codes[o].receiver = p.email
        BY <2>1, <2>2, <3>3 DEF IInv, UsedUp, Vouched
      <4>3. Registry!Proves(r, {p.email})
        BY <2>2, <4>1, <4>2 DEF Registry!Proves, Proven, Sent
      <4>4. CodeOf([at |-> "forget", code |-> o]) = {o}
        BY DEF CodeOf
      <4>5. Confirms' = Confirms
        BY <1>0, <2>2, <3>3, <4>1, <4>4, ConfirmsMove
      <4>6. Registry!Enroll(r, u, p)
        BY <2>2, <3>1, <4>3, <4>5, CodesStand DEF Registry!Enroll
      <4> QED BY <2>3, <4>1, <4>6 DEF Registry!Next
    <3> QED BY <2>3, <2>5, <3>2, <3>3
  <2> QED BY <2>4, <2>5
<1>7. ASSUME NEW r \in Requests, ForgetPending(r)
      PROVE  UNCHANGED Registry!rvars
  <2>1. CodeOf(reqs[r]) = {reqs[r].code} /\ UNCHANGED <<codes, users>>
    BY <1>7 DEF ForgetPending, CodeOf
  <2>2. PICK next : Goto(r, next) /\ CodeOf(next) = CodeOf(reqs[r])
    BY <1>7, <2>1 DEF ForgetPending, CodeOf
  <2> QED BY <1>0, <2>1, <2>2, Stutters
\* Whoever a confirmation activates or signs in has the receiver of its code.
<1>8. ASSUME NEW r \in Requests, reqs[r].at \in {"activate", "session"}
      PROVE  /\ reqs[r].user \in DOMAIN users /\ reqs[r].code \in DOMAIN codes
             /\ Confirms[r] = {reqs[r].code}
             /\ Registry!Proves(r, Registry!Reach(reqs[r].user))
  <2>1. PICK u \in DOMAIN users, o \in DOMAIN codes : u = reqs[r].user /\ o = reqs[r].code
    BY <1>0, <1>8, RequestFields
  <2>2. Confirms[r] = {o} /\ codes[o].verified
    BY <1>8, <2>1 DEF Confirms, CodeOf, IInv, UsedUp
  <2>3. users[u].email = codes[o].receiver \/ codes[o].receiver \in users[u].phone
    BY <1>8, <2>1 DEF RInv, Rightful, UsersWith
  <2>4. Registry!Proves(r, Registry!Reach(u))
    BY <2>1, <2>2, <2>3 DEF Registry!Proves, Registry!Reach, Proven, Sent
  <2> QED BY <2>1, <2>2, <2>4
<1>9. ASSUME NEW r \in Requests, Activate(r)
      PROVE  Registry!Next
  <2>1. PICK u \in DOMAIN users, o \in DOMAIN codes : u = reqs[r].user /\ o = reqs[r].code
    BY <1>0, <1>9, RequestFields DEF Activate
  <2>2. /\ users \in [DOMAIN users -> Person] /\ UNCHANGED codes
        /\ users' = [users EXCEPT ![u].active = TRUE]
        /\ Goto(r, [at |-> "session", code |-> o, user |-> u])
    BY <1>0, <1>9, <2>1, RequestFields DEF Activate, TypeOK
  <2>3. PICK p : p = [users[u] EXCEPT !.active = TRUE]
    OBVIOUS
  <2>4. /\ p.email = users[u].email /\ p.phone = users[u].phone /\ p.google = users[u].google
        /\ users' = Put(users, u, p)
    BY <2>2, <2>3 DEF Put, Person
  <2>5. ~Clash(u, p)
    BY <2>4 DEF IInv, AccountsUnique, Clash, SameKey
  <2>6. Registry!Enter(u, p)
    BY <2>2, <2>4, <2>5, Enters
  <2>7. Confirms' = Confirms
    <3>1. CodeOf([at |-> "session", code |-> o, user |-> u]) = {o} /\ CodeOf(reqs[r]) = {o}
      BY <1>9, <2>1 DEF Activate, CodeOf
    <3> QED BY <1>0, <2>2, <3>1, ConfirmsMove
  <2>8. Registry!Activate(r, u)
    BY <1>8, <1>9, <2>1, <2>2, <2>3, <2>6, <2>7, CodesStand DEF Activate, Registry!Activate
  <2> QED BY <2>8 DEF Registry!Next
<1>10. ASSUME NEW r \in Requests, IssueTokens(r)
      PROVE  Registry!Next
  <2>1. PICK u \in DOMAIN users, o \in DOMAIN codes : u = reqs[r].user /\ o = reqs[r].code
    BY <1>0, <1>10, RequestFields DEF IssueTokens
  <2>2. UNCHANGED users /\ Answer(r) /\ reqs[r].at = "session"
    BY <1>10 DEF IssueTokens
  <2>3. CASE users[u].role = "employee" /\ ~users[u].approved
    BY <1>0, <1>10, <2>1, <2>2, <2>3, ForfeitsOne DEF IssueTokens
  <2>4. CASE ~(users[u].role = "employee" /\ ~users[u].approved)
    <3>1. /\ DOMAIN codes' = DOMAIN codes
          /\ \A c \in DOMAIN codes \ {o} : codes'[c] = codes[c]
          /\ codes'[o] = [codes[o] EXCEPT !.pairs = @ + 1]
          /\ codes[o] \in Code
      BY <1>0, <1>10, <2>1, <2>4, CodeTyped DEF IssueTokens
    <3>2. /\ codes'[o].receiver = codes[o].receiver /\ codes'[o].verified = codes[o].verified
          /\ codes'[o].expired = codes[o].expired /\ codes'[o].pairs = codes[o].pairs + 1
      BY <3>1 DEF Code
    <3>3. Sent' = Sent
      BY <3>1, <3>2 DEF Sent
    <3>4. OpenCodes' = OpenCodes /\ Proven' = Proven
      BY <3>1, <3>2 DEF OpenCodes, Proven
    <3>5. Pairs' = [Pairs EXCEPT ![o] = @ + 1]
      BY <3>1, <3>2 DEF Pairs
    <3>6. Confirms' = [Confirms EXCEPT ![r] = {}]
      BY <1>0, <2>2, ConfirmsMove
    <3>7. Registry!Issue(r, u)
      BY <1>8, <2>1, <2>2, <2>4, <3>3, <3>4, <3>5, <3>6 DEF Registry!Issue
    <3> QED BY <3>7 DEF Registry!Next
  <2> QED BY <2>3, <2>4
<1>11. ASSUME NEW r \in Requests, LinkGoogle(r)
      PROVE  [Registry!Next]_(Registry!rvars)
  <2> DEFINE Linked(u, a) == [users[u] EXCEPT !.google = {a.id}]
  <2>1. PICK a \in GoogleAccounts : a = reqs[r].account
    BY <1>0, <1>11, RequestFields DEF LinkGoogle
  <2>2. UNCHANGED codes /\ Confirms' = Confirms
    <3>1. CodeOf(reqs[r]) = {} /\ Goto(r, Idle)
      BY <1>11 DEF LinkGoogle, CodeOf
    <3> QED BY <1>0, <1>11, <3>1, ConfirmsMove DEF LinkGoogle
  <2>3. ASSUME NEW u \in DOMAIN users, users[u].email = a.email, ~Clash(u, Linked(u, a)),
               users' = Put(users, u, Linked(u, a))
        PROVE  Registry!Next
    <3>1. Registry!Enter(u, Linked(u, a))
      <4>1. PICK p : p = Linked(u, a)
        OBVIOUS
      <4>2. Registry!Enter(u, p)
        BY <2>2, <2>3, <4>1, Enters
      <4> QED BY <4>1, <4>2
    <3>2. Registry!Link(u, a)
      BY <2>2, <2>3, <3>1, CodesStand DEF Registry!Link
    <3> QED BY <3>2 DEF Registry!Next
  <2>4. CASE UNCHANGED users
    BY <2>2, <2>4, CodesStand DEF Registry!rvars
  <2> QED BY <1>11, <2>1, <2>3, <2>4 DEF LinkGoogle
<1>12. ASSUME NEW r \in Requests, FailRequest(r)
      PROVE  Registry!Next
  BY <1>0, <1>12, ForfeitsOne DEF FailRequest
<1>13. ASSUME NEW rcv \in Receivers, SendOTP(rcv)
      PROVE  Registry!Next
  <2>1. UNCHANGED <<users, Confirms>>
    BY <1>13 DEF SendOTP, Confirms
  <2> QED BY <1>0, <1>13, <2>1, CodesSent DEF SendOTP
<1>14. ASSUME NEW o \in DOMAIN codes, ExpireCode(o)
      PROVE  [Registry!Next]_(Registry!rvars)
  <2>1. /\ DOMAIN codes' = DOMAIN codes
        /\ \A p \in DOMAIN codes \ {o} : codes'[p] = codes[p]
        /\ codes'[o] = [codes[o] EXCEPT !.expired = TRUE]
        /\ codes[o] \in Code /\ UNCHANGED users /\ Confirms' = Confirms
    BY <1>0, <1>14, CodeTyped DEF ExpireCode, Confirms
  <2>2. /\ codes'[o].expired /\ codes'[o].receiver = codes[o].receiver
        /\ codes'[o].pairs = codes[o].pairs /\ codes'[o].verified = codes[o].verified
    BY <2>1 DEF Code
  <2>3. Sent' = Sent /\ Pairs' = Pairs
    BY <2>1, <2>2 DEF Sent, Pairs
  <2>4. Proven' = Proven /\ OpenCodes' = OpenCodes \ {o}
    BY <2>1, <2>2 DEF Proven, OpenCodes
  <2>5. CASE o \in OpenCodes
    <3>1. Registry!Expire(o)
      BY <2>1, <2>3, <2>4 DEF Registry!Expire
    <3> QED BY <2>5, <3>1 DEF Registry!Next
  <2>6. CASE o \notin OpenCodes
    <3>1. OpenCodes' = OpenCodes
      BY <2>4, <2>6
    <3> QED BY <2>1, <2>3, <2>4, <3>1 DEF Registry!rvars
  <2> QED BY <2>5, <2>6
<1>15. ASSUME NEW email, ExpirePending(email)
      PROVE  UNCHANGED Registry!rvars
  BY <1>15, CodesStand DEF ExpirePending, Confirms, Registry!rvars
<1>16. CASE Restart
  <2>1. UNCHANGED <<codes, users>> /\ \A q \in Requests : reqs'[q] = Idle
    BY <1>16 DEF Restart
  <2> QED BY <2>1, Forfeits
<1>17. CASE UNCHANGED vars
  BY <1>17, CodesStand DEF vars, Confirms, Registry!rvars
<1> QED
  BY <1>1, <1>2, <1>3, <1>4, <1>5, <1>6, <1>7, <1>9, <1>10, <1>11, <1>12, <1>13, <1>14,
     <1>15, <1>16, <1>17
  DEF Next, Continue

\* Registrations, confirmations and Google logins, statement by statement and however
\* they overlap and fail, do only what the registry may do: nobody is registered,
\* activated or signed in with a code that was not sent to him, nobody registers as
\* approved or as an administrator, and a used-up code opens nothing again.
THEOREM AccountsImplementRegistry == Spec => RegistrySpec
<1>1. Init => Registry!Init
  <2>1. ASSUME Init PROVE Sent = <<>> /\ Pairs = <<>> /\ OpenCodes = {} /\ Proven = {}
    BY <2>1 DEF Init, Sent, Pairs, OpenCodes, Proven
  <2> QED BY <2>1 DEF Init, Registry!Init, Confirms, CodeOf, Idle
<1>2. Spec => []RInv
  BY TypeCorrect, RInvInit, RInvStep, PTL DEF Spec
<1>3. IInv /\ RInv /\ [Next]_vars => [Registry!Next]_(Registry!rvars)
  BY RegistryStep
<1> QED BY <1>1, <1>2, <1>3, Invariance, PTL DEF Spec, RegistrySpec, Registry!Spec
=============================================================================
