---------------------------- MODULE ServerProofs ----------------------------
(***************************************************************************)
(* Bookings implements BookingLedger: every initial state maps to an       *)
(* initial state of the ledger, and every step to a step of the ledger or  *)
(* to a stutter.  Server implements Bookings, so that all this, and what   *)
(* BookingsProofs shows, holds of a server that stops and starts again.    *)
(***************************************************************************)
EXTENDS Server, BookingsProofs

----------------------------------------------------------------------------
(* The abstract variables *)

LEMMA NeedsKept == UNCHANGED needs => UNCHANGED <<Received, ClosedNeeds>>
BY DEF Received, ClosedNeeds

\* A booking keeps its need for ever.
LEMMA NeedOfBooking ==
  ASSUME TypeOK, [Next]_vars, NEW c \in DOMAIN bookings
  PROVE  bookings'[c].need = bookings[c].need
<1>1. CASE UNCHANGED bookings
  BY <1>1
<1>2. ASSUME NEW b, NEW x, Inserts(b, x) PROVE bookings'[c].need = bookings[c].need
  BY <1>2 DEF Inserts, Put
<1>3. ASSUME NEW b, NEW x, Revises(b, x) PROVE bookings'[c].need = bookings[c].need
  <2>1. c # b => bookings'[c] = bookings[c]
    BY <1>3 DEF Revises, Put
  <2>2. c = b => bookings'[c] = [bookings[c] EXCEPT !.qty = x]
    BY <1>3 DEF Revises, Put
  <2>3. bookings[c] \in BookingRow
    BY DEF TypeOK
  <2>4. QED
    BY <2>1, <2>2, <2>3 DEF BookingRow
<1>4. ASSUME NEW b, NEW x, Restates(b, x) PROVE bookings'[c].need = bookings[c].need
  <2>1. c # b => bookings'[c] = bookings[c]
    BY <1>4 DEF Restates, Put
  <2>2. c = b => bookings'[c] = [bookings[c] EXCEPT !.status = x]
    BY <1>4 DEF Restates, Put
  <2>3. x \in Statuses
    BY <1>4 DEF Restates
  <2>4. [bookings[c] EXCEPT !.status = x].need = bookings[c].need
    BY <2>3, StatusRow
  <2>5. QED
    BY <2>1, <2>2, <2>4
<1>5. QED
  BY <1>1, <1>2, <1>3, <1>4, BookingChange

\* The claims of a step that moves request r.
LEMMA ClaimsMove ==
  ASSUME TypeOK, [Next]_vars, NEW r \in Requests, NEW next, Goto(r, next)
  PROVE  Claims' = [Claims EXCEPT ![r] =
                      IF next.at = "credit"
                        THEN {[need |-> bookings'[next.booking].need, qty |-> next.qty]}
                        ELSE {}]
<1>1. reqs \in [Requests -> Request]
  BY DEF TypeOK
<1>2. ASSUME NEW s \in Requests, s # r PROVE Claims'[s] = Claims[s]
  <2>1. reqs'[s] = reqs[s]
    BY <1>1, <1>2 DEF Goto
  <2>2. reqs[s].at = "credit" => Claim(reqs[s])' = Claim(reqs[s])
    <3>1. reqs[s].at = "credit" => reqs[s].booking \in DOMAIN bookings
      BY DEF TypeOK, References
    <3>2. QED
      BY <2>1, <3>1, NeedOfBooking DEF Claim
  <2>3. QED
    BY <2>1, <2>2 DEF Claims
<1>3. reqs'[r] = next
  BY <1>1 DEF Goto
<1>4. QED
  BY <1>2, <1>3 DEF Claims, Claim

\* A request without a claim that gets none.
LEMMA ClaimsKept ==
  ASSUME TypeOK, [Next]_vars, NEW r \in Requests, NEW next, Goto(r, next),
         reqs[r].at # "credit", next.at # "credit"
  PROVE  UNCHANGED Claims
<1>1. Claims' = [Claims EXCEPT ![r] = {}]
  BY ClaimsMove
<1>2. Claims[r] = {}
  BY DEF Claims
<1>3. QED
  BY <1>1, <1>2 DEF Claims

LEMMA ClaimsKeptByAnswer ==
  ASSUME TypeOK, [Next]_vars, NEW r \in Requests, Answer(r), reqs[r].at # "credit"
  PROVE  UNCHANGED Claims
<1>1. Goto(r, Idle) /\ Idle.at # "credit"
  BY DEF Answer, Goto, Idle
<1>2. QED
  BY <1>1, ClaimsKept

----------------------------------------------------------------------------
(* Writes of bookings are steps of the ledger *)

LEMMA RowIsRecord ==
  ASSUME NEW row \in BookingRow
  PROVE  row = [user |-> row.user, need |-> row.need, qty |-> row.qty, status |-> row.status]
BY DEF BookingRow

\* The partial unique index is what the ledger admits.
LEMMA IndexAdmits ==
  ASSUME NEW b, NEW row, ~IndexConflict(b, row), bookings' = Put(bookings, b, row)
  PROVE  Ledger!Record(b, row)
<1>1. Ledger!Admissible(b, row)
  BY DEF IndexConflict, Closed, Ledger!Admissible, Ledger!Released
<1>2. QED
  BY <1>1 DEF Ledger!Record, Put

LEMMA InsertIsPlace ==
  ASSUME TypeOK, NEW b, NEW row, Inserts(b, row), needs' = needs, UNCHANGED Claims
  PROVE  Ledger!Next
<1>1. /\ b \in BookingIds \ DOMAIN bookings /\ row.need \in DOMAIN Received
      /\ row.user \in Users /\ row.need \in Needs /\ row.qty \in Quantity
  BY DEF Inserts, BookingRow, Received
<1>2. Ledger!Record(b, [user |-> row.user, need |-> row.need, qty |-> row.qty,
                        status |-> "pending"])
  BY IndexAdmits, RowIsRecord DEF Inserts
<1>3. Ledger!Place(b, row.user, row.need, row.qty)
  BY <1>1, <1>2, NeedsKept DEF Ledger!Place
<1>4. QED
  BY <1>1, <1>3 DEF Ledger!Next

LEMMA ReviseIsRevise ==
  ASSUME TypeOK, ActiveUnique, NEW b, NEW q, Revises(b, q), needs' = needs, UNCHANGED Claims
  PROVE  Ledger!Next
<1> DEFINE row == [bookings[b] EXCEPT !.qty = q]
<1>1. /\ b \in DOMAIN bookings /\ b \in BookingIds /\ q \in Quantity
      /\ bookings[b].status = "pending" /\ bookings[b] \in BookingRow
  BY DEF Revises, TypeOK
<1>2. /\ row.user = bookings[b].user
      /\ row.need = bookings[b].need
      /\ row.status = bookings[b].status
  BY <1>1 DEF BookingRow
<1>3. ~IndexConflict(b, row)
  BY <1>1, <1>2 DEF IndexConflict, ActiveUnique
<1>4. Ledger!Record(b, row)
  BY <1>3, IndexAdmits DEF Revises
<1>5. Ledger!Revise(b, q)
  BY <1>1, <1>4, NeedsKept DEF Ledger!Revise
<1>6. QED
  BY <1>1, <1>5 DEF Ledger!Next

LEMMA RestateIsDecide ==
  ASSUME TypeOK, NEW b, NEW to \in Decisions, Restates(b, to), needs' = needs, UNCHANGED Claims
  PROVE  Ledger!Next
<1>1. b \in DOMAIN bookings /\ b \in BookingIds
  BY DEF Restates, TypeOK
<1>2. Ledger!Record(b, [bookings[b] EXCEPT !.status = to])
  BY IndexAdmits DEF Restates
<1>3. Ledger!Decide(b, to)
  BY <1>1, <1>2, NeedsKept DEF Ledger!Decide
<1>4. QED
  BY <1>1, <1>3 DEF Ledger!Next, Decisions

LEMMA CompleteIsComplete ==
  ASSUME TypeOK, [Next]_vars, NEW r \in Requests, CompleteStatus(r),
         Restates(reqs[r].booking, "completed"), Goto(r, [reqs[r] EXCEPT !.at = "credit"]),
         needs' = needs
  PROVE  Ledger!Next
<1> DEFINE b == reqs[r].booking
           next == [reqs[r] EXCEPT !.at = "credit"]
<1>1. reqs[r].at = "complete"
  BY DEF CompleteStatus
<1>2. /\ b \in DOMAIN bookings /\ b \in BookingIds /\ reqs[r].qty \in Quantity
      /\ next.at = "credit" /\ next.booking = b /\ next.qty = reqs[r].qty
  BY <1>1, CreditSlot, RequestFields DEF TypeOK
<1>3. bookings'[b].need = bookings[b].need
  BY <1>2, NeedOfBooking
<1>4. Claims' = [Claims EXCEPT ![r] = {[need |-> bookings[b].need, qty |-> reqs[r].qty]}]
  <2>1. Goto(r, next)
    OBVIOUS
  <2> HIDE DEF next, b
  <2>2. Claims' = [Claims EXCEPT ![r] =
                     IF next.at = "credit"
                       THEN {[need |-> bookings'[next.booking].need, qty |-> next.qty]}
                       ELSE {}]
    BY <2>1, ClaimsMove
  <2> QED BY <1>2, <1>3, <2>2
<1>5. Claims[r] = {}
  BY <1>1 DEF Claims
<1>6. Ledger!Record(b, [bookings[b] EXCEPT !.status = "completed"])
  BY IndexAdmits DEF Restates
<1>7. Ledger!Complete(b, r, reqs[r].qty)
  BY <1>2, <1>4, <1>5, <1>6, NeedsKept DEF Ledger!Complete
<1>8. QED
  BY <1>2, <1>7 DEF Ledger!Next

----------------------------------------------------------------------------
(* Claims that are paid or lost *)

LEMMA AnswerIsForfeit ==
  ASSUME TypeOK, [Next]_vars, NEW r \in Requests, Answer(r), UNCHANGED <<needs, bookings>>
  PROVE  Ledger!Next
<1>1. Goto(r, Idle) /\ Idle.at # "credit"
  BY DEF Answer, Goto, Idle
<1>2. Claims' = [Claims EXCEPT ![r] = {}]
  BY <1>1, ClaimsMove
<1>3. Ledger!Forfeit({r})
  BY <1>2, NeedsKept DEF Ledger!Forfeit, Claims
<1>4. QED
  BY <1>3 DEF Ledger!Next

LEMMA CreditIsPay ==
  ASSUME TypeOK, [Next]_vars, NEW r \in Requests, CreditNeed(r)
  PROVE  Ledger!Next
<1> DEFINE n == bookings[reqs[r].booking].need
           total == needs[n].received + reqs[r].qty
           row == [needs[n] EXCEPT !.received = total]
<1>1. Answer(r) /\ UNCHANGED bookings
  BY DEF CreditNeed
<1>2. CASE NeedWritable(n) /\ Fits(total)
  <2>1. needs' = Put(needs, n, row)
    BY <1>2 DEF CreditNeed
  <2>2. n \in DOMAIN needs /\ ~needs[n].archived /\ needs[n] \in NeedRow
    BY <1>2 DEF NeedWritable, TypeOK
  <2>3. row.received = total /\ row.archived = needs[n].archived
    BY <2>2 DEF NeedRow
  <2>4. Received' = [Received EXCEPT ![n] = @ + reqs[r].qty]
    BY <2>1, <2>2, <2>3 DEF Received, Put
  <2>5. ClosedNeeds' = ClosedNeeds
    BY <2>1, <2>2, <2>3 DEF ClosedNeeds, Put
  <2>6. Claims[r] = {[need |-> n, qty |-> reqs[r].qty]}
    BY DEF CreditNeed, Claims, Claim
  <2>7. Claims' = [Claims EXCEPT ![r] = {}]
    <3>1. Goto(r, Idle) /\ Idle.at # "credit"
      BY <1>1 DEF Answer, Goto, Idle
    <3>2. QED
      BY <3>1, ClaimsMove
  <2>8. Ledger!Pay(r)
    <3> DEFINE c == [need |-> n, qty |-> reqs[r].qty]
    <3>1. c \in Claims[r] /\ c.need \notin ClosedNeeds
      BY <2>2, <2>6 DEF ClosedNeeds
    <3>2. Received' = [Received EXCEPT ![c.need] = @ + c.qty]
      BY <2>4
    <3>3. QED
      BY <3>1, <3>2, <2>5, <2>7, <1>1 DEF Ledger!Pay
  <2>9. QED
    BY <2>8 DEF Ledger!Next
<1>3. CASE ~(NeedWritable(n) /\ Fits(total))
  <2>1. UNCHANGED needs
    BY <1>3 DEF CreditNeed
  <2>2. QED
    BY <2>1, <1>1, AnswerIsForfeit
<1>4. QED
  BY <1>2, <1>3

LEMMA RestartIsForfeit ==
  ASSUME Restart
  PROVE  Ledger!Next
<1>1. Claims' = [r \in Requests |-> {}]
  BY DEF Restart, Claims, Idle
<1>2. Ledger!Forfeit(Requests)
  BY <1>1, NeedsKept DEF Restart, Ledger!Forfeit
<1>3. QED
  BY <1>2 DEF Ledger!Next

----------------------------------------------------------------------------
(* The staff's requests about needs *)

LEMMA NeedRequestIsNeedStep ==
  ASSUME TypeOK, NeedRequest
  PROVE  Ledger!Next
<1>0. UNCHANGED <<bookings, reqs, Claims>>
  BY DEF NeedRequest, CreateNeed, UpdateNeed, DeleteNeed, Claims, Claim
<1>1. ASSUME NEW u \in Users, NEW n \in Needs, NEW i \in Institutions, NEW q \in NeedQtyInputs,
             CreateNeed(u, n, i, q)
      PROVE  Ledger!OpenNeed(n, Round(q)) /\ Round(q) \in OpenQty
  <2>1. n \notin DOMAIN needs /\ Round(q) \in OpenQty
    BY <1>1 DEF CreateNeed, OpenQty
  <2>2. needs' = Put(needs, n, [inst |-> i, received |-> Round(q), archived |-> FALSE,
                                history |-> {}])
    BY <1>1 DEF CreateNeed
  <2>3. Received' = [m \in DOMAIN Received \cup {n} |->
                       IF m = n THEN Round(q) ELSE Received[m]]
    BY <2>1, <2>2 DEF Received, Put
  <2>4. ClosedNeeds' = ClosedNeeds
    BY <2>1, <2>2 DEF ClosedNeeds, Put
  <2>5. QED
    BY <1>0, <2>1, <2>3, <2>4 DEF Ledger!OpenNeed, Received
<1>2. ASSUME NEW u \in Users, NEW n \in Needs, NEW q \in EditInputs, UpdateNeed(u, n, q)
      PROVE  Ledger!EditNeed(n, Round(q)) /\ Round(q) \in EditQty
  <2>1. PICK h \in {{}, {"update"}} :
          needs' = Put(needs, n, [needs[n] EXCEPT !.received = Round(q), !.history = @ \cup h])
    BY <1>2 DEF UpdateNeed
  <2> DEFINE row == [needs[n] EXCEPT !.received = Round(q), !.history = @ \cup h]
  <2>2. n \in DOMAIN needs /\ ~needs[n].archived /\ needs[n] \in NeedRow /\ Round(q) \in EditQty
    BY <1>2 DEF UpdateNeed, NeedWritable, EditQty, TypeOK
  <2>3. row.received = Round(q) /\ row.archived = needs[n].archived
    BY <2>2 DEF NeedRow
  <2>4. Received' = [Received EXCEPT ![n] = Round(q)]
    BY <2>1, <2>2, <2>3 DEF Received, Put
  <2>5. ClosedNeeds' = ClosedNeeds
    BY <2>1, <2>2, <2>3 DEF ClosedNeeds, Put
  <2>6. n \in DOMAIN Received \ ClosedNeeds
    BY <2>2 DEF Received, ClosedNeeds
  <2>7. QED
    BY <1>0, <2>2, <2>4, <2>5, <2>6 DEF Ledger!EditNeed
<1>3. ASSUME NEW u \in Users, NEW n \in Needs, DeleteNeed(u, n)
      PROVE  Ledger!CloseNeed(n)
  <2>1. PICK h \in {{}, {"archive"}} :
          needs' = Put(needs, n, [needs[n] EXCEPT !.archived = TRUE, !.history = @ \cup h])
    BY <1>3 DEF DeleteNeed
  <2> DEFINE row == [needs[n] EXCEPT !.archived = TRUE, !.history = @ \cup h]
  <2>2. n \in DOMAIN needs /\ needs[n] \in NeedRow
    BY <1>3 DEF DeleteNeed, TypeOK
  <2>3. row.received = needs[n].received /\ row.archived
    BY <2>2 DEF NeedRow
  <2>4. Received' = Received
    BY <2>1, <2>2, <2>3 DEF Received, Put
  <2>5. ClosedNeeds' = ClosedNeeds \cup {n}
    BY <2>1, <2>2, <2>3 DEF ClosedNeeds, Put
  <2>6. QED
    BY <1>0, <2>2, <2>4, <2>5 DEF Ledger!CloseNeed, Received
<1>4. QED
  BY <1>1, <1>2, <1>3 DEF NeedRequest, Ledger!Next

----------------------------------------------------------------------------
(* The refinement *)

LEMMA InitMaps == Init => Ledger!Init
BY DEF Init, Ledger!Init, Received, ClosedNeeds, Claims, Idle

LEMMA BeginStutters ==
  ASSUME TypeOK, [Next]_vars, NEW r \in Requests, Begin(r)
  PROVE  UNCHANGED Ledger!lvars
<1>1. UNCHANGED <<needs, bookings>>
  BY DEF Begin, BeginCreate, BeginUpdateMyBooking, BeginCancelMyBooking, BeginDecide,
     BeginComplete
<1>2. reqs[r] = Idle
  BY DEF Begin, BeginCreate, BeginUpdateMyBooking, BeginCancelMyBooking, BeginDecide,
     BeginComplete
<1>3. reqs[r].at # "credit"
  BY <1>2 DEF Idle
<1>4. \E next : Goto(r, next) /\ next.at # "credit"
  <2>1. ASSUME NEW u, NEW n, NEW q, BeginCreate(r, u, n, q)
        PROVE  \E next : Goto(r, next) /\ next.at # "credit"
    <3> DEFINE next == [at |-> "insert", user |-> u, need |-> n, qty |-> q]
    <3>1. Goto(r, next) /\ next.at # "credit"
      BY <2>1 DEF BeginCreate
    <3>2. QED
      BY <3>1
  <2>2. ASSUME NEW u, NEW b, NEW q, BeginUpdateMyBooking(r, u, b, q)
        PROVE  \E next : Goto(r, next) /\ next.at # "credit"
    <3> DEFINE next == [at |-> "quantity", booking |-> b, qty |-> q]
    <3>1. Goto(r, next) /\ next.at # "credit"
      BY <2>2 DEF BeginUpdateMyBooking
    <3>2. QED
      BY <3>1
  <2>3. ASSUME NEW b, NEW to, Goto(r, [at |-> "status", booking |-> b, to |-> to])
        PROVE  \E next : Goto(r, next) /\ next.at # "credit"
    <3> DEFINE next == [at |-> "status", booking |-> b, to |-> to]
    <3>1. Goto(r, next) /\ next.at # "credit"
      BY <2>3
    <3>2. QED
      BY <3>1
  <2>4. ASSUME NEW u, NEW b, BeginComplete(r, u, b)
        PROVE  \E next : Goto(r, next) /\ next.at # "credit"
    <3> DEFINE next == [at |-> "complete", booking |-> b, qty |-> bookings[b].qty,
                        settled |-> bookings[b].status # "pending"]
    <3>1. Goto(r, next) /\ next.at # "credit"
      BY <2>4 DEF BeginComplete
    <3>2. QED
      BY <3>1
  <2>5. QED
    BY <2>1, <2>2, <2>3, <2>4 DEF Begin, BeginCancelMyBooking, BeginDecide
<1>5. UNCHANGED Claims
  BY <1>3, <1>4, ClaimsKept
<1>6. QED
  BY <1>1, <1>5, NeedsKept DEF Ledger!lvars

LEMMA StepMaps ==
  ASSUME IInv, [Next]_vars
  PROVE  [Ledger!Next]_(Ledger!lvars)
<1> USE DEF IInv
<1>1. ASSUME NEW r \in Requests, Begin(r) PROVE UNCHANGED Ledger!lvars
  BY <1>1, BeginStutters
<1>2. ASSUME NEW r \in Requests, needs' = needs, reqs[r].at # "credit",
             UNCHANGED bookings, Answer(r)
      PROVE  UNCHANGED Ledger!lvars
  BY <1>2, ClaimsKeptByAnswer, NeedsKept DEF Ledger!lvars
<1>3. ASSUME NEW r \in Requests, InsertBooking(r) PROVE [Ledger!Next]_(Ledger!lvars)
  <2>1. reqs[r].at # "credit" /\ Emailing.at # "credit" /\ needs' = needs
    BY <1>3, InsertEffect DEF InsertBooking, Emailing
  <2>2. CASE UNCHANGED bookings /\ Answer(r)
    BY <2>1, <2>2, <1>2
  <2>3. CASE \E b, row : Inserts(b, row) /\ (Goto(r, Emailing) \/ Answer(r))
    <3>1. UNCHANGED Claims
      BY <2>1, <2>3, ClaimsKept, ClaimsKeptByAnswer
    <3>2. QED
      BY <2>1, <2>3, <3>1, InsertIsPlace
  <2>4. QED
    BY <1>3, <2>2, <2>3, InsertEffect
<1>4. ASSUME NEW r \in Requests, UpdateQuantity(r) PROVE [Ledger!Next]_(Ledger!lvars)
  <2>1. reqs[r].at # "credit" /\ needs' = needs /\ Answer(r)
    BY <1>4, QuantityEffect DEF UpdateQuantity
  <2>2. UNCHANGED Claims
    BY <2>1, ClaimsKeptByAnswer
  <2>3. QED
    BY <1>4, <2>1, <2>2, <1>2, QuantityEffect, ReviseIsRevise
<1>5. ASSUME NEW r \in Requests, UpdateStatus(r) PROVE [Ledger!Next]_(Ledger!lvars)
  <2>1. reqs[r].at # "credit" /\ needs' = needs /\ Answer(r)
    BY <1>5, UpdateStatusEffect DEF UpdateStatus
  <2>2. UNCHANGED Claims
    BY <2>1, ClaimsKeptByAnswer
  <2>3. QED
    BY <1>5, <2>1, <2>2, <1>2, UpdateStatusEffect, RestateIsDecide
<1>6. ASSUME NEW r \in Requests, CompleteStatus(r) PROVE [Ledger!Next]_(Ledger!lvars)
  <2>1. reqs[r].at # "credit" /\ needs' = needs
    BY <1>6, CompleteStatusEffect DEF CompleteStatus
  <2>2. QED
    BY <1>6, <2>1, <1>2, CompleteStatusEffect, CompleteIsComplete
<1>7. ASSUME NEW r \in Requests, CreditNeed(r) PROVE [Ledger!Next]_(Ledger!lvars)
  BY <1>7, CreditIsPay
<1>8. ASSUME NEW r \in Requests, SendEmail(r) \/ FailRequest(r)
      PROVE  [Ledger!Next]_(Ledger!lvars)
  BY <1>8, AnswerIsForfeit DEF SendEmail, FailRequest
<1>9. NeedRequest => Ledger!Next
  BY NeedRequestIsNeedStep
<1>10. Restart => Ledger!Next
  BY RestartIsForfeit
<1>11. UNCHANGED vars => UNCHANGED Ledger!lvars
  BY NeedsKept DEF vars, Ledger!lvars, Claims, Claim
<1>12. QED
  BY <1>1, <1>3, <1>4, <1>5, <1>6, <1>7, <1>8, <1>9, <1>10, <1>11 DEF Next, DatabaseStep

\* Every behaviour of the interleaved statements is a behaviour of the atomic ledger:
\* what a need received is paid out of claims, each raised by a completion and paid
\* once at most, for any number of users, needs, bookings and concurrent requests.
THEOREM BookingsImplementLedger == Spec => LedgerSpec
<1>1. Init => Ledger!Init
  BY InitMaps
<1>2. IInv /\ [Next]_vars => [Ledger!Next]_(Ledger!lvars)
  BY StepMaps
<1>3. QED
  BY <1>1, <1>2, IInvAlways, PTL DEF Spec, LedgerSpec, Ledger!Spec

----------------------------------------------------------------------------
(* The server *)

\* A process that ends, however it does, is a Restart; the rest of the process's own
\* steps, and connections, do not concern the bookings.
LEMMA ServerStep ==
  ASSUME Failures, ServerNext
  PROVE  [Next]_vars
<1>1. ASSUME NEW r \in Requests, Accept(r) PROVE UNCHANGED vars
  BY <1>1 DEF Accept
<1>2. ASSUME NEW r \in Requests, Receive(r) PROVE [Next]_vars
  BY <1>2 DEF Receive, SendOTP, Next
<1>3. ASSUME NEW r \in Requests, Execute(r) \/ Fail(r) \/ Mail(r) PROVE Next
  BY <1>3 DEF Execute, Fail, Mail, Next
<1>4. SendCode \/ Stop \/ ExitProperly \/ Start => UNCHANGED vars
  BY DEF SendCode, Stop, ExitProperly, Start
<1>5. ExitForced \/ Crash => Next
  BY DEF ExitForced, Crash, CutAll, Restart, Next
<1> QED BY <1>1, <1>2, <1>3, <1>4, <1>5 DEF ServerNext

\* With processes that may end at any moment, the server's behaviours are behaviours
\* of Bookings: none of its starts and stops does what a Restart does not.
THEOREM ServerIsBookings ==
  ASSUME Failures
  PROVE  ServerSpec => Spec
<1>1. ServerInit => Init
  BY DEF ServerInit
<1>2. [ServerNext]_serverVars => [Next]_vars
  BY ServerStep DEF serverVars
<1> QED BY <1>1, <1>2, PTL DEF ServerSpec, Spec

\* So stops and starts neither double a booking, nor touch what staff have decided or
\* a need that is archived, nor pay what no completion has claimed.
THEOREM ServerKeepsBookings ==
  ASSUME Failures
  PROVE  ServerSpec => []ActiveUnique /\ SettledBookingFrozen /\ ArchivedNeedFrozen /\ LedgerSpec
BY ServerIsBookings, OneLiveBooking, DecidedBookingsFrozen, ArchivedNeedsFrozen,
   BookingsImplementLedger, PTL
=============================================================================
