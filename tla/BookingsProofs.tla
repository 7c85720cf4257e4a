--------------------------- MODULE BookingsProofs ---------------------------
(***************************************************************************)
(* Safety of Bookings, for any number of users, needs, bookings and        *)
(* concurrent requests: type correctness and references, then what a step  *)
(* does to the bookings, then the invariants and the action properties.    *)
(***************************************************************************)
EXTENDS BookingsRefinement, TLAPS

----------------------------------------------------------------------------
(* Lemmas about the operators the model is built from *)

LEMMA PutFacts ==
  ASSUME NEW f, NEW x, NEW y
  PROVE  /\ DOMAIN Put(f, x, y) = DOMAIN f \cup {x}
         /\ Put(f, x, y)[x] = y
         /\ \A z \in DOMAIN f : z # x => Put(f, x, y)[z] = f[z]
BY DEF Put

LEMMA PutType ==
  ASSUME NEW S, NEW f, f \in [DOMAIN f -> S], NEW x, NEW y \in S
  PROVE  Put(f, x, y) \in [DOMAIN Put(f, x, y) -> S]
BY DEF Put

\* A quantity that volunteers may send is stored as a quantity, if it fits.
LEMMA RoundQuantity ==
  ASSUME NEW x \in Int
  PROVE  /\ Round(x) \in Int
         /\ x > 0 /\ Fits(Round(x)) => Round(x) \in Quantity
<1>1. Round(x) \in Int
  BY DEF Round
<1>2. x > 0 => Round(x) >= 0
  BY DEF Round
<1>3. QED
  BY <1>1, <1>2, BookingsAssumption DEF Fits, Numeric, Quantity

\* What a request in flight carries, by where it is.
LEMMA RequestFields ==
  ASSUME TypeOK, NEW r \in Requests
  PROVE  /\ reqs[r].at = "insert" =>
              /\ reqs[r].user \in Users /\ reqs[r].need \in Needs
              /\ reqs[r].qty \in QtyInputs /\ reqs[r].qty > 0
         /\ reqs[r].at = "quantity" =>
              /\ reqs[r].booking \in BookingIds
              /\ reqs[r].qty \in QtyInputs /\ reqs[r].qty > 0
         /\ reqs[r].at = "status" =>
              reqs[r].booking \in BookingIds /\ reqs[r].to \in Decisions
         /\ reqs[r].at \in {"complete", "credit"} =>
              /\ reqs[r] \in [at: {"complete", "credit"}, booking: BookingIds,
                              qty: Quantity, settled: BOOLEAN]
              /\ reqs[r].booking \in BookingIds
              /\ reqs[r].qty \in Quantity /\ reqs[r].settled \in BOOLEAN
BY DEF TypeOK, Request, Idle, Emailing

----------------------------------------------------------------------------
(* Types and references.  They are proved together: the types of what a    *)
(* statement writes depend on the rows its request points at.              *)

NeedsTyped == DOMAIN needs \subseteq Needs /\ needs \in [DOMAIN needs -> NeedRow]
BookingsTyped ==
  DOMAIN bookings \subseteq BookingIds /\ bookings \in [DOMAIN bookings -> BookingRow]
BookingNeeds == \A b \in DOMAIN bookings : bookings[b].need \in DOMAIN needs

\* What a request in flight points at.
Points(req) ==
  /\ req.at = "insert" => req.need \in DOMAIN needs
  /\ req.at \in {"quantity", "status", "complete", "credit"} => req.booking \in DOMAIN bookings

LEMMA TypeParts ==
  TypeOK <=> /\ NeedsTyped /\ BookingsTyped /\ BookingNeeds
           /\ reqs \in [Requests -> Request]
           /\ \A r \in Requests : Points(reqs[r])
BY DEF TypeOK, References, NeedsTyped, BookingsTyped, BookingNeeds, Points

LEMMA WriteNeed ==
  ASSUME TypeOK, NEW n \in Needs, NEW row \in NeedRow, needs' = Put(needs, n, row)
  PROVE  NeedsTyped' /\ DOMAIN needs \subseteq DOMAIN needs'
<1>1. DOMAIN needs' = DOMAIN needs \cup {n}
  BY DEF Put
<1>2. needs' \in [DOMAIN needs' -> NeedRow]
  BY PutType DEF TypeOK
<1>3. QED
  BY <1>1, <1>2 DEF TypeOK, NeedsTyped

LEMMA WriteBooking ==
  ASSUME TypeOK, NEW b \in BookingIds, NEW row \in BookingRow, row.need \in DOMAIN needs,
         bookings' = Put(bookings, b, row), needs' = needs
  PROVE  BookingsTyped' /\ BookingNeeds' /\ DOMAIN bookings \subseteq DOMAIN bookings'
<1>1. /\ DOMAIN bookings' = DOMAIN bookings \cup {b}
      /\ bookings'[b] = row
      /\ \A c \in DOMAIN bookings : c # b => bookings'[c] = bookings[c]
  BY DEF Put
<1>2. bookings' \in [DOMAIN bookings' -> BookingRow]
  BY PutType DEF TypeOK
<1>3. BookingNeeds'
  BY <1>1 DEF TypeOK, References, BookingNeeds
<1>4. QED
  BY <1>1, <1>2, <1>3 DEF TypeOK, BookingsTyped

\* A request that moves to where it may be, while rows are only added.
LEMMA MoveRequest ==
  ASSUME TypeOK, NEW r \in Requests, NEW next \in Request, Points(next), Goto(r, next),
         NeedsTyped', BookingsTyped', BookingNeeds',
         DOMAIN needs \subseteq DOMAIN needs', DOMAIN bookings \subseteq DOMAIN bookings'
  PROVE  TypeOK'
<1>1. reqs' = [reqs EXCEPT ![r] = next] /\ reqs \in [Requests -> Request]
  BY DEF Goto, TypeOK
<1>2. reqs' \in [Requests -> Request]
  BY <1>1
<1>3. ASSUME NEW s \in Requests PROVE Points(reqs[s])'
  <2>1. CASE s = r
    <3>1. reqs'[s] = next
      BY <1>1, <2>1
    <3>2. QED
      BY <3>1 DEF Points
  <2>2. CASE s # r
    <3>1. reqs'[s] = reqs[s]
      BY <1>1, <2>2
    <3>2. QED
      BY <3>1 DEF TypeOK, References, Points
  <2>3. QED
    BY <2>1, <2>2
<1>4. QED
  BY <1>2, <1>3 DEF TypeOK, References, NeedsTyped, BookingsTyped, BookingNeeds, Points

\* A request that is answered.
LEMMA AnswerRequest ==
  ASSUME TypeOK, NEW r \in Requests, Answer(r),
         NeedsTyped', BookingsTyped', BookingNeeds',
         DOMAIN needs \subseteq DOMAIN needs', DOMAIN bookings \subseteq DOMAIN bookings'
  PROVE  TypeOK'
<1>1. Idle \in Request /\ Points(Idle)
  BY DEF Request, Idle, Points
<1>2. Goto(r, Idle)
  BY DEF Answer, Goto
<1>3. QED
  BY <1>1, <1>2, MoveRequest

LEMMA TypeStutters ==
  ASSUME TypeOK
  PROVE  /\ UNCHANGED needs => NeedsTyped' /\ DOMAIN needs \subseteq DOMAIN needs'
         /\ UNCHANGED bookings => BookingsTyped' /\ DOMAIN bookings \subseteq DOMAIN bookings'
         /\ UNCHANGED bookings /\ DOMAIN needs \subseteq DOMAIN needs' => BookingNeeds'
BY DEF TypeOK, References, NeedsTyped, BookingsTyped, BookingNeeds

\* A step that only moves a request.
LEMMA OnlyMoves ==
  ASSUME TypeOK, NEW r \in Requests, NEW next \in Request, Points(next), Goto(r, next),
         UNCHANGED <<needs, bookings>>
  PROVE  TypeOK'
BY TypeStutters, MoveRequest

\* A step that writes a need and leaves the requests alone.
LEMMA OnlyNeed ==
  ASSUME TypeOK, NEW n \in Needs, NEW row \in NeedRow, needs' = Put(needs, n, row),
         UNCHANGED <<bookings, reqs>>
  PROVE  TypeOK'
<1>1. NeedsTyped' /\ DOMAIN needs \subseteq DOMAIN needs'
  BY WriteNeed
<1>2. BookingsTyped' /\ BookingNeeds'
  BY <1>1, TypeStutters
<1>3. reqs' \in [Requests -> Request] /\ \A r \in Requests : Points(reqs[r])'
  BY <1>1, TypeParts DEF Points
<1>4. QED
  BY <1>1, <1>2, <1>3 DEF TypeOK, References, NeedsTyped, BookingsTyped, BookingNeeds, Points

LEMMA StatusRow ==
  ASSUME TypeOK, NEW b \in DOMAIN bookings, NEW to \in Statuses
  PROVE  /\ [bookings[b] EXCEPT !.status = to] \in BookingRow
         /\ [bookings[b] EXCEPT !.status = to].user = bookings[b].user
         /\ [bookings[b] EXCEPT !.status = to].need = bookings[b].need
         /\ [bookings[b] EXCEPT !.status = to].qty = bookings[b].qty
         /\ [bookings[b] EXCEPT !.status = to].status = to
BY DEF TypeOK, BookingRow

\* The three ways in which a statement writes a booking: what it writes is a row of
\* the table, and the index admits it.
Inserts(b, row) ==
  /\ b \in BookingIds \ DOMAIN bookings
  /\ row \in BookingRow /\ row.need \in DOMAIN needs /\ row.status = "pending"
  /\ ~IndexConflict(b, row)
  /\ bookings' = Put(bookings, b, row)

Revises(b, q) ==
  /\ b \in DOMAIN bookings /\ bookings[b].status = "pending" /\ q \in Quantity
  /\ bookings' = Put(bookings, b, [bookings[b] EXCEPT !.qty = q])

Restates(b, to) ==
  LET row == [bookings[b] EXCEPT !.status = to] IN
  /\ b \in DOMAIN bookings /\ to \in Statuses \ {"pending"}
  /\ ~IndexConflict(b, row)
  /\ bookings' = Put(bookings, b, row)

LEMMA InsertEffect ==
  ASSUME TypeOK, NEW r \in Requests, InsertBooking(r)
  PROVE  /\ needs' = needs
         /\ \/ UNCHANGED bookings /\ Answer(r)
            \/ \E b, row : Inserts(b, row) /\ (Goto(r, Emailing) \/ Answer(r))
<1>1. PICK b \in BookingIds \ DOMAIN bookings :
        LET row == [user |-> reqs[r].user, need |-> reqs[r].need,
                    qty |-> Round(reqs[r].qty), status |-> "pending"] IN
        IF IndexConflict(b, row) \/ ~Fits(row.qty)
          THEN Answer(r) /\ UNCHANGED bookings
          ELSE /\ bookings' = Put(bookings, b, row)
               /\ Goto(r, Emailing) \/ Answer(r)
  BY DEF InsertBooking
<1> DEFINE row == [user |-> reqs[r].user, need |-> reqs[r].need,
                   qty |-> Round(reqs[r].qty), status |-> "pending"]
<1>2. /\ reqs[r].user \in Users /\ reqs[r].need \in DOMAIN needs /\ reqs[r].need \in Needs
      /\ reqs[r].qty \in Int /\ reqs[r].qty > 0
  BY RequestFields, BookingsAssumption DEF InsertBooking, TypeOK, References
<1>3. CASE ~(IndexConflict(b, row) \/ ~Fits(row.qty))
  <2>1. row \in BookingRow /\ row.need \in DOMAIN needs /\ row.status = "pending"
    BY <1>2, <1>3, RoundQuantity DEF BookingRow, Statuses
  <2>2. Inserts(b, row) /\ (Goto(r, Emailing) \/ Answer(r))
    BY <2>1, <1>1, <1>3 DEF Inserts
  <2>3. QED
    BY <2>2 DEF InsertBooking
<1>4. CASE IndexConflict(b, row) \/ ~Fits(row.qty)
  BY <1>1, <1>4 DEF InsertBooking
<1>5. QED
  BY <1>3, <1>4

LEMMA QuantityEffect ==
  ASSUME TypeOK, NEW r \in Requests, UpdateQuantity(r)
  PROVE  /\ needs' = needs /\ Answer(r)
         /\ UNCHANGED bookings \/ \E b, q : Revises(b, q)
<1> DEFINE b == reqs[r].booking
           qty == Round(reqs[r].qty)
<1>1. reqs[r].qty \in Int /\ reqs[r].qty > 0
  BY RequestFields, BookingsAssumption DEF UpdateQuantity, TypeOK
<1>2. CASE QuantityWritable(b) /\ Fits(qty)
  <2>1. qty \in Quantity
    BY <1>1, <1>2, RoundQuantity
  <2>2. Revises(b, qty)
    BY <2>1, <1>2 DEF UpdateQuantity, QuantityWritable, Revises
  <2>3. QED
    BY <2>2 DEF UpdateQuantity
<1>3. CASE ~(QuantityWritable(b) /\ Fits(qty))
  BY <1>3 DEF UpdateQuantity
<1>4. QED
  BY <1>2, <1>3

LEMMA SetStatusEffect ==
  ASSUME NEW r \in Requests, NEW b \in DOMAIN bookings, NEW to \in Statuses \ {"pending"},
         NEW next, SetStatus(r, b, to, next)
  PROVE  /\ needs' = needs
         /\ \/ UNCHANGED bookings /\ Answer(r)
            \/ Restates(b, to) /\ Goto(r, next)
<1> DEFINE row == [bookings[b] EXCEPT !.status = to]
<1>1. CASE IndexConflict(b, row)
  BY <1>1 DEF SetStatus
<1>2. CASE ~IndexConflict(b, row)
  <2>1. bookings' = Put(bookings, b, row) /\ Goto(r, next)
    BY <1>2 DEF SetStatus
  <2>2. Restates(b, to)
    BY <2>1, <1>2 DEF Restates
  <2>3. QED
    BY <2>1, <2>2 DEF SetStatus
<1>3. QED
  BY <1>1, <1>2

LEMMA UpdateStatusEffect ==
  ASSUME TypeOK, NEW r \in Requests, UpdateStatus(r)
  PROVE  /\ needs' = needs
         /\ \/ UNCHANGED bookings /\ Answer(r)
            \/ \E to \in Decisions : Restates(reqs[r].booking, to) /\ Answer(r)
<1>1. reqs[r].booking \in DOMAIN bookings /\ reqs[r].to \in Decisions
  BY RequestFields DEF UpdateStatus, TypeOK, References
<1>2. reqs[r].to \in Statuses \ {"pending"}
  BY <1>1 DEF Decisions, Statuses
<1>3. Goto(r, Idle) => Answer(r)
  BY DEF Goto, Answer
<1>4. QED
  BY <1>1, <1>2, <1>3, SetStatusEffect DEF UpdateStatus

LEMMA CompleteStatusEffect ==
  ASSUME TypeOK, NEW r \in Requests, CompleteStatus(r)
  PROVE  /\ needs' = needs
         /\ \/ UNCHANGED bookings /\ Answer(r)
            \/ /\ Restates(reqs[r].booking, "completed")
               /\ Goto(r, [reqs[r] EXCEPT !.at = "credit"])
<1>1. reqs[r].booking \in DOMAIN bookings /\ "completed" \in Statuses \ {"pending"}
  BY DEF CompleteStatus, TypeOK, References, Statuses
<1>2. QED
  BY <1>1, SetStatusEffect DEF CompleteStatus

LEMMA BookingWritten ==
  ASSUME TypeOK, needs' = needs, NEW b, NEW x, Inserts(b, x) \/ Revises(b, x) \/ Restates(b, x)
  PROVE  BookingsTyped' /\ BookingNeeds' /\ DOMAIN bookings \subseteq DOMAIN bookings'
<1>1. PICK row : bookings' = Put(bookings, b, row) /\ row \in BookingRow
                 /\ row.need \in DOMAIN needs /\ b \in BookingIds
  <2>1. CASE Inserts(b, x)
    BY <2>1 DEF Inserts
  <2>2. CASE Revises(b, x)
    <3>1. /\ [bookings[b] EXCEPT !.qty = x] \in BookingRow
          /\ [bookings[b] EXCEPT !.qty = x].need \in DOMAIN needs
      BY <2>2 DEF Revises, TypeOK, References, BookingRow
    <3>2. QED
      BY <3>1, <2>2 DEF Revises, TypeOK
  <2>3. CASE Restates(b, x)
    <3>1. /\ [bookings[b] EXCEPT !.status = x] \in BookingRow
          /\ [bookings[b] EXCEPT !.status = x].need \in DOMAIN needs
      BY <2>3, StatusRow DEF Restates, TypeOK, References
    <3>2. QED
      BY <3>1, <2>3 DEF Restates, TypeOK
  <2>4. QED
    BY <2>1, <2>2, <2>3
<1>2. QED
  BY <1>1, WriteBooking

LEMMA BeginTypes ==
  ASSUME TypeOK, NEW r \in Requests, Begin(r)
  PROVE  TypeOK'
<1>1. ASSUME NEW u \in Users, NEW n \in Needs, NEW q \in QtyInputs, BeginCreate(r, u, n, q)
      PROVE  TypeOK'
  <2> DEFINE next == [at |-> "insert", user |-> u, need |-> n, qty |-> q]
  <2>1. next \in Request /\ Points(next)
    BY <1>1 DEF BeginCreate, Request, Points
  <2>2. QED
    BY <2>1, <1>1, OnlyMoves DEF BeginCreate
<1>2. ASSUME NEW u \in Users, NEW b \in BookingIds, NEW q \in QtyInputs,
             BeginUpdateMyBooking(r, u, b, q)
      PROVE  TypeOK'
  <2> DEFINE next == [at |-> "quantity", booking |-> b, qty |-> q]
  <2>1. next \in Request /\ Points(next)
    BY <1>2 DEF BeginUpdateMyBooking, OwnPending, Request, Points
  <2>2. QED
    BY <2>1, <1>2, OnlyMoves DEF BeginUpdateMyBooking
<1>3. ASSUME NEW b \in DOMAIN bookings, NEW to \in Decisions,
             Goto(r, [at |-> "status", booking |-> b, to |-> to]),
             UNCHANGED <<needs, bookings>>
      PROVE  TypeOK'
  <2> DEFINE next == [at |-> "status", booking |-> b, to |-> to]
  <2>1. next \in Request /\ Points(next)
    BY DEF TypeOK, Request, Points
  <2>2. QED
    BY <2>1, <1>3, OnlyMoves
<1>4. ASSUME NEW u \in Users, NEW b \in BookingIds, BeginCancelMyBooking(r, u, b)
      PROVE  TypeOK'
  BY <1>3, <1>4 DEF BeginCancelMyBooking, OwnPending, Decisions
<1>5. ASSUME NEW u \in Users, NEW b \in BookingIds, NEW to \in {"approved", "rejected"},
             BeginDecide(r, u, b, to)
      PROVE  TypeOK'
  BY <1>3, <1>5 DEF BeginDecide, MayDecide, Decisions
<1>6. ASSUME NEW u \in Users, NEW b \in BookingIds, BeginComplete(r, u, b)
      PROVE  TypeOK'
  <2> DEFINE next == [at |-> "complete", booking |-> b, qty |-> bookings[b].qty,
                      settled |-> bookings[b].status # "pending"]
  <2>1. b \in DOMAIN bookings /\ bookings[b].qty \in Quantity
    BY <1>6 DEF BeginComplete, MayDecide, TypeOK, BookingRow
  <2>2. next \in Request /\ Points(next)
    BY <2>1 DEF Request, Points
  <2>3. QED
    BY <2>2, <1>6, OnlyMoves DEF BeginComplete
<1>7. QED
  BY <1>1, <1>2, <1>4, <1>5, <1>6 DEF Begin

\* A step that leaves the needs alone and writes at most one booking.
LEMMA WritesBooking ==
  ASSUME TypeOK, NEW r \in Requests, needs' = needs, NEW next \in Request, Points(next),
         \/ UNCHANGED bookings
         \/ \E b, x : Inserts(b, x) \/ Revises(b, x) \/ Restates(b, x),
         Goto(r, next) \/ Answer(r)
  PROVE  TypeOK'
<1>1. NeedsTyped' /\ DOMAIN needs \subseteq DOMAIN needs'
  BY TypeStutters
<1>2. BookingsTyped' /\ BookingNeeds' /\ DOMAIN bookings \subseteq DOMAIN bookings'
  BY <1>1, TypeStutters, BookingWritten
<1>3. QED
  BY <1>1, <1>2, MoveRequest, AnswerRequest

LEMMA InsertBookingTypes ==
  ASSUME TypeOK, NEW r \in Requests, InsertBooking(r)
  PROVE  TypeOK'
<1>1. Emailing \in Request /\ Points(Emailing)
  BY DEF Request, Emailing, Points
<1>2. QED
  BY <1>1, InsertEffect, WritesBooking

LEMMA UpdateQuantityTypes ==
  ASSUME TypeOK, NEW r \in Requests, UpdateQuantity(r)
  PROVE  TypeOK'
<1>1. Idle \in Request /\ Points(Idle)
  BY DEF Request, Idle, Points
<1>2. QED
  BY <1>1, QuantityEffect, WritesBooking

LEMMA UpdateStatusTypes ==
  ASSUME TypeOK, NEW r \in Requests, UpdateStatus(r)
  PROVE  TypeOK'
<1>1. Idle \in Request /\ Points(Idle)
  BY DEF Request, Idle, Points
<1>2. QED
  BY <1>1, UpdateStatusEffect, WritesBooking

\* Where a request that completes a booking goes after its first statement.
LEMMA CreditSlot ==
  ASSUME TypeOK, NEW r \in Requests, reqs[r].at \in {"complete", "credit"}
  PROVE  LET next == [reqs[r] EXCEPT !.at = "credit"] IN
         /\ next \in Request /\ Points(next) /\ next.at = "credit"
         /\ next.booking = reqs[r].booking
         /\ next.qty = reqs[r].qty
         /\ next.settled = reqs[r].settled
         /\ reqs[r].booking \in DOMAIN bookings
<1> DEFINE next == [reqs[r] EXCEPT !.at = "credit"]
           Slot == [at: {"complete", "credit"}, booking: BookingIds, qty: Quantity,
                    settled: BOOLEAN]
<1>1. reqs[r] \in Slot /\ reqs[r].booking \in DOMAIN bookings
  BY RequestFields DEF TypeOK, References
<1>2. /\ next \in Slot /\ next.at = "credit" /\ next.booking = reqs[r].booking
      /\ next.qty = reqs[r].qty /\ next.settled = reqs[r].settled
  BY <1>1
<1>3. next \in Request
  BY <1>2 DEF Request
<1>4. QED
  BY <1>1, <1>2, <1>3 DEF Points

LEMMA CompleteStatusTypes ==
  ASSUME TypeOK, NEW r \in Requests, CompleteStatus(r)
  PROVE  TypeOK'
<1>1. /\ [reqs[r] EXCEPT !.at = "credit"] \in Request
      /\ Points([reqs[r] EXCEPT !.at = "credit"])
  BY CreditSlot DEF CompleteStatus
<1>2. QED
  BY <1>1, CompleteStatusEffect, WritesBooking

LEMMA CreditNeedTypes ==
  ASSUME TypeOK, NEW r \in Requests, CreditNeed(r)
  PROVE  TypeOK'
<1> DEFINE n == bookings[reqs[r].booking].need
           total == needs[n].received + reqs[r].qty
           row == [needs[n] EXCEPT !.received = total]
<1>1. /\ BookingsTyped' /\ DOMAIN bookings \subseteq DOMAIN bookings'
      /\ bookings' = bookings /\ Answer(r)
  BY TypeStutters DEF CreditNeed
<1>2. CASE NeedWritable(n) /\ Fits(total)
  <2>1. needs' = Put(needs, n, row)
    BY <1>2 DEF CreditNeed
  <2>2. n \in DOMAIN needs /\ n \in Needs
    BY <1>2 DEF NeedWritable, TypeOK
  <2>3. row \in NeedRow
    BY <2>2, <1>2 DEF TypeOK, NeedRow, Fits
  <2>4. NeedsTyped' /\ DOMAIN needs \subseteq DOMAIN needs'
    BY <2>1, <2>2, <2>3, WriteNeed
  <2>5. QED
    BY <2>4, <1>1, TypeStutters, AnswerRequest
<1>3. CASE ~(NeedWritable(n) /\ Fits(total))
  <2>1. UNCHANGED needs
    BY <1>3 DEF CreditNeed
  <2>2. QED
    BY <2>1, <1>1, TypeStutters, AnswerRequest
<1>4. QED
  BY <1>2, <1>3

LEMMA NeedRequestTypes ==
  ASSUME TypeOK, NeedRequest
  PROVE  TypeOK'
<1>1. ASSUME NEW u \in Users, NEW n \in Needs, NEW i \in Institutions, NEW q \in NeedQtyInputs,
             CreateNeed(u, n, i, q)
      PROVE  TypeOK'
  <2> DEFINE row == [inst |-> i, received |-> Round(q), archived |-> FALSE, history |-> {}]
  <2>1. row \in NeedRow
    BY <1>1 DEF CreateNeed, Fits, NeedRow
  <2>2. QED
    BY <2>1, <1>1, OnlyNeed DEF CreateNeed
<1>2. ASSUME NEW u \in Users, NEW n \in Needs, NEW q \in EditInputs, UpdateNeed(u, n, q)
      PROVE  TypeOK'
  <2>1. PICK h \in {{}, {"update"}} :
          needs' = Put(needs, n, [needs[n] EXCEPT !.received = Round(q), !.history = @ \cup h])
    BY <1>2 DEF UpdateNeed
  <2>2. [needs[n] EXCEPT !.received = Round(q), !.history = @ \cup h] \in NeedRow
    BY <1>2 DEF UpdateNeed, NeedWritable, Fits, NeedRow, TypeOK
  <2>3. QED
    BY <2>1, <2>2, <1>2, OnlyNeed DEF UpdateNeed
<1>3. ASSUME NEW u \in Users, NEW n \in Needs, DeleteNeed(u, n)
      PROVE  TypeOK'
  <2>1. PICK h \in {{}, {"archive"}} :
          needs' = Put(needs, n, [needs[n] EXCEPT !.archived = TRUE, !.history = @ \cup h])
    BY <1>3 DEF DeleteNeed
  <2>2. [needs[n] EXCEPT !.archived = TRUE, !.history = @ \cup h] \in NeedRow
    BY <1>3 DEF DeleteNeed, NeedRow, TypeOK
  <2>3. QED
    BY <2>1, <2>2, <1>3, OnlyNeed DEF DeleteNeed
<1>4. QED
  BY <1>1, <1>2, <1>3 DEF NeedRequest

LEMMA TypeInit == Init => TypeOK
BY DEF Init, TypeOK, References, Request, Idle

LEMMA TypeStep ==
  ASSUME TypeOK, [Next]_vars
  PROVE  TypeOK'
<1>1. ASSUME NEW r \in Requests, Begin(r) PROVE TypeOK'
  BY <1>1, BeginTypes
<1>2. ASSUME NEW r \in Requests, DatabaseStep(r) PROVE TypeOK'
  BY <1>2, InsertBookingTypes, UpdateQuantityTypes, UpdateStatusTypes, CompleteStatusTypes,
     CreditNeedTypes DEF DatabaseStep
<1>3. ASSUME NEW r \in Requests, SendEmail(r) \/ FailRequest(r) PROVE TypeOK'
  BY <1>3, TypeStutters, AnswerRequest DEF SendEmail, FailRequest
<1>4. CASE NeedRequest
  BY <1>4, NeedRequestTypes
<1>5. CASE Restart
  <2>1. reqs' \in [Requests -> Request] /\ \A r \in Requests : Points(reqs[r])'
    BY <1>5 DEF Restart, Request, Idle, Points
  <2>2. QED
    BY <2>1, <1>5 DEF Restart, TypeOK, References, Points
<1>6. CASE UNCHANGED vars
  BY <1>6 DEF vars, TypeOK, References
<1>7. QED
  BY <1>1, <1>2, <1>3, <1>4, <1>5, <1>6 DEF Next

----------------------------------------------------------------------------
(* What a step does to the bookings, whoever takes it *)

LEMMA BookingChange ==
  ASSUME TypeOK, [Next]_vars
  PROVE  \/ UNCHANGED bookings
         \/ \E b, x : Inserts(b, x) \/ Revises(b, x) \/ Restates(b, x)
<1>1. ASSUME NEW r \in Requests, Begin(r) PROVE UNCHANGED bookings
  BY <1>1 DEF Begin, BeginCreate, BeginUpdateMyBooking, BeginCancelMyBooking, BeginDecide,
     BeginComplete
<1>2. ASSUME NEW r \in Requests, DatabaseStep(r)
      PROVE  \/ UNCHANGED bookings
             \/ \E b, x : Inserts(b, x) \/ Revises(b, x) \/ Restates(b, x)
  <2>1. CreditNeed(r) => UNCHANGED bookings
    BY DEF CreditNeed
  <2>2. QED
    BY <1>2, <2>1, InsertEffect, QuantityEffect, UpdateStatusEffect, CompleteStatusEffect
       DEF DatabaseStep
<1>3. ASSUME NEW r \in Requests, SendEmail(r) \/ FailRequest(r) PROVE UNCHANGED bookings
  BY <1>3 DEF SendEmail, FailRequest
<1>4. NeedRequest \/ Restart \/ UNCHANGED vars => UNCHANGED bookings
  BY DEF NeedRequest, CreateNeed, UpdateNeed, DeleteNeed, Restart, vars
<1>5. QED
  BY <1>1, <1>2, <1>3, <1>4 DEF Next

----------------------------------------------------------------------------
(* One live booking per volunteer and need *)

LEMMA ActiveWrite ==
  ASSUME ActiveUnique, NEW b, NEW row, bookings' = Put(bookings, b, row),
         ~IndexConflict(b, row)
  PROVE  ActiveUnique'
<1>1. /\ DOMAIN bookings' = DOMAIN bookings \cup {b}
      /\ bookings'[b] = row
      /\ \A c \in DOMAIN bookings : c # b => bookings'[c] = bookings[c]
  BY DEF Put
<1>2. QED
  BY <1>1 DEF ActiveUnique, IndexConflict

LEMMA ActiveStep ==
  ASSUME TypeOK, ActiveUnique, [Next]_vars
  PROVE  ActiveUnique'
<1>1. CASE UNCHANGED bookings
  BY <1>1 DEF ActiveUnique
<1>2. ASSUME NEW b, NEW x, Inserts(b, x) PROVE ActiveUnique'
  BY <1>2, ActiveWrite DEF Inserts
<1>3. ASSUME NEW b, NEW x, Revises(b, x) PROVE ActiveUnique'
  <2> DEFINE row == [bookings[b] EXCEPT !.qty = x]
  <2>1. b \in DOMAIN bookings /\ bookings[b] \in BookingRow
    BY <1>3 DEF Revises, TypeOK
  <2>2. /\ row.user = bookings[b].user
        /\ row.need = bookings[b].need
        /\ row.status = bookings[b].status
    BY <2>1 DEF BookingRow
  <2>3. ~IndexConflict(b, row)
    BY <2>1, <2>2 DEF IndexConflict, ActiveUnique
  <2>4. QED
    BY <2>3, <1>3, ActiveWrite DEF Revises
<1>4. ASSUME NEW b, NEW x, Restates(b, x) PROVE ActiveUnique'
  BY <1>4, ActiveWrite DEF Restates
<1>5. QED
  BY <1>1, <1>2, <1>3, <1>4, BookingChange

----------------------------------------------------------------------------
(* What staff have decided on stays *)

\* One step of SettledBookingFrozen, for one booking.
SettledStays(b) ==
  bookings[b].status # "pending" =>
    /\ bookings'[b].status # "pending"
    /\ bookings'[b].qty = bookings[b].qty

LEMMA SettledStep ==
  ASSUME TypeOK, [Next]_vars, NEW c \in DOMAIN bookings
  PROVE  SettledStays(c)
<1>1. CASE UNCHANGED bookings
  BY <1>1 DEF SettledStays
<1>2. ASSUME NEW b, NEW x, Inserts(b, x) PROVE SettledStays(c)
  BY <1>2 DEF Inserts, Put, SettledStays
<1>3. ASSUME NEW b, NEW x, Revises(b, x) PROVE SettledStays(c)
  BY <1>3 DEF Revises, Put, SettledStays
<1>4. ASSUME NEW b, NEW x, Restates(b, x) PROVE SettledStays(c)
  <2>1. bookings'[b].status # "pending" /\ bookings'[b].qty = bookings[b].qty
    <3>1. bookings'[b] = [bookings[b] EXCEPT !.status = x]
      BY <1>4 DEF Restates, Put
    <3>2. b \in DOMAIN bookings /\ x \in Statuses /\ x # "pending"
      BY <1>4 DEF Restates
    <3>3. QED
      BY <3>1, <3>2, StatusRow
  <2>2. c # b => bookings'[c] = bookings[c]
    BY <1>4 DEF Restates, Put
  <2>3. QED
    BY <2>1, <2>2 DEF SettledStays
<1>5. QED
  BY <1>1, <1>2, <1>3, <1>4, BookingChange

----------------------------------------------------------------------------
(* What a completion is about to credit *)

\* A request that is completing a booking is where it was, or has just read the
\* booking, or has just written its status.
LEMMA CompletionChange ==
  ASSUME TypeOK, [Next]_vars, NEW s \in Requests, reqs'[s].at \in {"complete", "credit"}
  PROVE  \/ reqs'[s] = reqs[s]
         \/ LET b == reqs'[s].booking IN
            /\ UNCHANGED bookings
            /\ reqs'[s].qty = bookings[b].qty
            /\ reqs'[s].settled = (bookings[b].status # "pending")
         \/ /\ reqs[s].at = "complete"
            /\ reqs'[s].booking = reqs[s].booking
            /\ reqs'[s].qty = reqs[s].qty
            /\ reqs'[s].settled = reqs[s].settled
<1> DEFINE Goal ==
         \/ reqs'[s] = reqs[s]
         \/ LET b == reqs'[s].booking IN
            /\ UNCHANGED bookings
            /\ reqs'[s].qty = bookings[b].qty
            /\ reqs'[s].settled = (bookings[b].status # "pending")
         \/ /\ reqs[s].at = "complete"
            /\ reqs'[s].booking = reqs[s].booking
            /\ reqs'[s].qty = reqs[s].qty
            /\ reqs'[s].settled = reqs[s].settled
<1>1. reqs \in [Requests -> Request]
  BY DEF TypeOK
<1>2. ASSUME NEW r \in Requests, NEW next, Goto(r, next),
             next.at \notin {"complete", "credit"}
      PROVE  Goal
  BY <1>1, <1>2 DEF Goto
<1>3. ASSUME NEW r \in Requests, Answer(r) PROVE Goal
  BY <1>2, <1>3 DEF Answer, Goto, Idle
<1>4. ASSUME NEW r \in Requests, Begin(r) PROVE Goal
  <2>1. ASSUME NEW u \in Users, NEW b \in BookingIds, BeginComplete(r, u, b) PROVE Goal
    BY <1>1, <2>1 DEF BeginComplete, Goto
  <2>2. ASSUME NEW u \in Users, NEW n \in Needs, NEW q \in QtyInputs, BeginCreate(r, u, n, q)
        PROVE  Goal
    BY <1>2, <2>2 DEF BeginCreate
  <2>3. ASSUME NEW u \in Users, NEW b \in BookingIds, NEW q \in QtyInputs,
               BeginUpdateMyBooking(r, u, b, q)
        PROVE  Goal
    BY <1>2, <2>3 DEF BeginUpdateMyBooking
  <2>4. ASSUME NEW u \in Users, NEW b \in BookingIds,
               BeginCancelMyBooking(r, u, b)
        PROVE  Goal
    BY <1>2, <2>4 DEF BeginCancelMyBooking
  <2>5. ASSUME NEW u \in Users, NEW b \in BookingIds, NEW to, BeginDecide(r, u, b, to)
        PROVE  Goal
    BY <1>2, <2>5 DEF BeginDecide
  <2>6. QED
    BY <1>4, <2>1, <2>2, <2>3, <2>4, <2>5 DEF Begin
<1>5. ASSUME NEW r \in Requests, DatabaseStep(r) PROVE Goal
  <2>1. CASE InsertBooking(r)
    BY <2>1, <1>2, <1>3, InsertEffect DEF Emailing
  <2>2. CASE UpdateQuantity(r) \/ UpdateStatus(r) \/ CreditNeed(r)
    BY <2>2, <1>3, QuantityEffect, UpdateStatusEffect DEF CreditNeed
  <2>3. CASE CompleteStatus(r)
    <3>1. CASE Answer(r)
      BY <3>1, <1>3
    <3>2. CASE Goto(r, [reqs[r] EXCEPT !.at = "credit"])
      <4>1. s = r => /\ reqs'[s] = [reqs[s] EXCEPT !.at = "credit"]
                     /\ reqs[s].at = "complete"
        BY <1>1, <3>2, <2>3 DEF Goto, CompleteStatus
      <4>2. s # r => reqs'[s] = reqs[s]
        BY <1>1, <3>2 DEF Goto
      <4>3. QED
        BY <4>1, <4>2, CreditSlot
    <3>3. QED
      BY <2>3, <3>1, <3>2, CompleteStatusEffect
  <2>4. QED
    BY <1>5, <2>1, <2>2, <2>3 DEF DatabaseStep
<1>6. ASSUME NEW r \in Requests, SendEmail(r) \/ FailRequest(r) PROVE Goal
  BY <1>6, <1>3 DEF SendEmail, FailRequest
<1>7. NeedRequest \/ UNCHANGED vars => Goal
  BY DEF NeedRequest, CreateNeed, UpdateNeed, DeleteNeed, vars
<1>8. Restart => Goal
  BY DEF Restart, Idle
<1>9. QED
  BY <1>4, <1>5, <1>6, <1>7, <1>8 DEF Next

LEMMA CreditStep ==
  ASSUME TypeOK, SettledCreditIsExact, [Next]_vars
  PROVE  SettledCreditIsExact'
<1> SUFFICES ASSUME NEW s \in Requests,
                    reqs'[s].at \in {"complete", "credit"}, reqs'[s].settled
             PROVE  /\ bookings'[reqs'[s].booking].status # "pending"
                    /\ bookings'[reqs'[s].booking].qty = reqs'[s].qty
  BY DEF SettledCreditIsExact
<1>1. CASE UNCHANGED bookings /\ reqs'[s].qty = bookings[reqs'[s].booking].qty
           /\ reqs'[s].settled = (bookings[reqs'[s].booking].status # "pending")
  BY <1>1
<1>2. CASE /\ reqs[s].at \in {"complete", "credit"}
           /\ reqs'[s].booking = reqs[s].booking
           /\ reqs'[s].qty = reqs[s].qty
           /\ reqs'[s].settled = reqs[s].settled
  <2>1. reqs[s].booking \in DOMAIN bookings
    BY <1>2 DEF TypeOK, References
  <2>2. /\ bookings[reqs[s].booking].status # "pending"
        /\ bookings[reqs[s].booking].qty = reqs[s].qty
    BY <1>2 DEF SettledCreditIsExact
  <2>3. QED
    BY <1>2, <2>1, <2>2, SettledStep DEF SettledStays
<1>3. QED
  BY <1>1, <1>2, CompletionChange

----------------------------------------------------------------------------
(* Archived needs *)

\* One step of ArchivedNeedFrozen, for one need.
ArchivedStays(n) ==
  needs[n].archived => needs'[n].archived /\ needs'[n].received = needs[n].received

LEMMA ArchivedStep ==
  ASSUME TypeOK, [Next]_vars, NEW m \in DOMAIN needs
  PROVE  ArchivedStays(m)
<1>1. CASE UNCHANGED needs
  BY <1>1 DEF ArchivedStays
<1>2. ASSUME NEW n, NEW row, NeedWritable(n), needs' = Put(needs, n, row)
      PROVE  ArchivedStays(m)
  BY <1>2 DEF NeedWritable, Put, ArchivedStays
<1>3. ASSUME NEW r \in Requests, CreditNeed(r) PROVE ArchivedStays(m)
  BY <1>1, <1>2, <1>3 DEF CreditNeed
<1>4. ASSUME NEW r \in Requests, DatabaseStep(r) PROVE ArchivedStays(m)
  BY <1>1, <1>3, <1>4, InsertEffect, QuantityEffect, UpdateStatusEffect, CompleteStatusEffect
     DEF DatabaseStep
<1>5. ASSUME NEW r \in Requests, Begin(r) \/ SendEmail(r) \/ FailRequest(r) PROVE UNCHANGED needs
  BY <1>5 DEF Begin, BeginCreate, BeginUpdateMyBooking, BeginCancelMyBooking, BeginDecide,
     BeginComplete, SendEmail, FailRequest
<1>6. CASE NeedRequest
  <2>1. ASSUME NEW u \in Users, NEW n \in Needs, NEW i \in Institutions, NEW q \in NeedQtyInputs,
               CreateNeed(u, n, i, q)
        PROVE  ArchivedStays(m)
    BY <2>1 DEF CreateNeed, Put, ArchivedStays
  <2>2. ASSUME NEW u \in Users, NEW n \in Needs, NEW q \in EditInputs, UpdateNeed(u, n, q)
        PROVE  ArchivedStays(m)
    BY <2>2, <1>2 DEF UpdateNeed
  <2>3. ASSUME NEW u \in Users, NEW n \in Needs, DeleteNeed(u, n) PROVE ArchivedStays(m)
    <3>1. PICK h \in {{}, {"archive"}} :
            needs' = Put(needs, n, [needs[n] EXCEPT !.archived = TRUE, !.history = @ \cup h])
      BY <2>3 DEF DeleteNeed
    <3>2. n \in DOMAIN needs /\ needs[n] \in NeedRow
      BY <2>3 DEF DeleteNeed, TypeOK
    <3>3. needs'[n].archived /\ needs'[n].received = needs[n].received
      BY <3>1, <3>2 DEF Put, NeedRow
    <3>4. m # n => needs'[m] = needs[m]
      BY <3>1 DEF Put
    <3>5. QED
      BY <3>3, <3>4 DEF ArchivedStays
  <2>4. QED
    BY <1>6, <2>1, <2>2, <2>3 DEF NeedRequest
<1>7. Restart \/ UNCHANGED vars => UNCHANGED needs
  BY DEF Restart, vars
<1>8. QED
  BY <1>1, <1>4, <1>5, <1>6, <1>7 DEF Next

----------------------------------------------------------------------------
(* Requests that do not overlap *)

\* A cancellation that has passed its check is about to write a pending booking.
CancelsPending ==
  \A s \in Requests :
    reqs[s].at = "status" /\ reqs[s].to = "cancelled" =>
      bookings[reqs[s].booking].status = "pending"

\* A request that comes to cancel a booking has just read that it is pending, or is where
\* it was; bookings change only in steps of the other requests.
LEMMA CancelChange ==
  ASSUME TypeOK, [Next]_vars, NEW s \in Requests,
         reqs'[s].at = "status", reqs'[s].to = "cancelled"
  PROVE  \/ reqs'[s] = reqs[s] /\ (UNCHANGED bookings \/ \E r \in Requests : r # s)
         \/ UNCHANGED bookings /\ bookings[reqs'[s].booking].status = "pending"
<1> DEFINE Goal ==
         \/ reqs'[s] = reqs[s] /\ (UNCHANGED bookings \/ \E r \in Requests : r # s)
         \/ UNCHANGED bookings /\ bookings[reqs'[s].booking].status = "pending"
<1>1. reqs \in [Requests -> Request]
  BY DEF TypeOK
<1>2. ASSUME NEW r \in Requests, NEW next, Goto(r, next), next.at # "status" PROVE Goal
  BY <1>1, <1>2 DEF Goto
<1>3. ASSUME NEW r \in Requests, Answer(r) PROVE Goal
  BY <1>1, <1>3 DEF Answer, Idle
<1>4. ASSUME NEW r \in Requests, Begin(r) PROVE Goal
  <2>1. ASSUME NEW u \in Users, NEW n \in Needs, NEW q \in QtyInputs, BeginCreate(r, u, n, q)
        PROVE  Goal
    BY <1>2, <2>1 DEF BeginCreate
  <2>2. ASSUME NEW u \in Users, NEW b \in BookingIds, NEW q \in QtyInputs,
               BeginUpdateMyBooking(r, u, b, q)
        PROVE  Goal
    BY <1>2, <2>2 DEF BeginUpdateMyBooking
  <2>3. ASSUME NEW u \in Users, NEW b \in BookingIds, BeginCancelMyBooking(r, u, b)
        PROVE  Goal
    BY <1>1, <2>3 DEF BeginCancelMyBooking, OwnPending, Goto
  <2>4. ASSUME NEW u \in Users, NEW b \in BookingIds, NEW to \in {"approved", "rejected"},
               BeginDecide(r, u, b, to)
        PROVE  Goal
    BY <1>1, <2>4 DEF BeginDecide, Goto
  <2>5. ASSUME NEW u \in Users, NEW b \in BookingIds, BeginComplete(r, u, b) PROVE Goal
    BY <1>2, <2>5 DEF BeginComplete
  <2> QED BY <1>4, <2>1, <2>2, <2>3, <2>4, <2>5 DEF Begin
<1>5. ASSUME NEW r \in Requests, DatabaseStep(r) PROVE Goal
  <2>1. CASE InsertBooking(r)
    BY <2>1, <1>2, <1>3, InsertEffect DEF Emailing
  <2>2. CASE UpdateQuantity(r) \/ UpdateStatus(r) \/ CreditNeed(r)
    BY <2>2, <1>3, QuantityEffect, UpdateStatusEffect DEF CreditNeed
  <2>3. CASE CompleteStatus(r)
    <3>1. CASE Goto(r, [reqs[r] EXCEPT !.at = "credit"])
      <4>1. [reqs[r] EXCEPT !.at = "credit"].at = "credit"
        BY <1>1, <2>3, CreditSlot DEF CompleteStatus
      <4> QED BY <1>2, <3>1, <4>1
    <3> QED BY <2>3, <3>1, <1>3, CompleteStatusEffect
  <2> QED BY <1>5, <2>1, <2>2, <2>3 DEF DatabaseStep
<1>6. ASSUME NEW r \in Requests, SendEmail(r) \/ FailRequest(r) PROVE Goal
  BY <1>6, <1>3 DEF SendEmail, FailRequest
<1>7. NeedRequest \/ UNCHANGED vars => Goal
  BY DEF NeedRequest, CreateNeed, UpdateNeed, DeleteNeed, vars
<1>8. Restart => Goal
  BY DEF Restart, Idle
<1> QED BY <1>4, <1>5, <1>6, <1>7, <1>8 DEF Next

\* Only a cancellation cancels a booking.
LEMMA CancelledBy ==
  ASSUME TypeOK, CancelsPending, [Next]_vars, NEW b \in DOMAIN bookings,
         bookings'[b].status = "cancelled"
  PROVE  bookings[b].status \in {"pending", "cancelled"}
<1>1. ASSUME NEW r \in Requests, UpdateStatus(r)
      PROVE  bookings[b].status \in {"pending", "cancelled"}
  <2>1. bookings' = bookings
        \/ bookings' = Put(bookings, reqs[r].booking,
                           [bookings[reqs[r].booking] EXCEPT !.status = reqs[r].to])
    BY <1>1 DEF UpdateStatus, SetStatus
  <2>2. /\ reqs[r].at = "status" /\ reqs[r].booking \in DOMAIN bookings
        /\ reqs[r].to \in Statuses
    BY <1>1, RequestFields DEF UpdateStatus, TypeOK, References, Decisions, Statuses
  <2>3. CASE bookings'[b] = bookings[b]
    BY <2>3
  <2>4. CASE b = reqs[r].booking
               /\ bookings'[b] = [bookings[b] EXCEPT !.status = reqs[r].to]
    <3>1. reqs[r].to = "cancelled"
      BY <2>2, <2>4, StatusRow
    <3> QED BY <2>2, <2>4, <3>1 DEF CancelsPending
  <2> QED BY <2>1, <2>3, <2>4 DEF Put
<1>2. ASSUME NEW r \in Requests, CompleteStatus(r)
      PROVE  bookings[b].status \in {"pending", "cancelled"}
  <2>1. CASE Restates(reqs[r].booking, "completed")
    <3>1. b = reqs[r].booking => bookings'[b].status = "completed"
      BY <2>1, StatusRow DEF Restates, Put
    <3>2. b # reqs[r].booking => bookings'[b] = bookings[b]
      BY <2>1 DEF Restates, Put
    <3> QED BY <3>1, <3>2
  <2> QED BY <1>2, <2>1, CompleteStatusEffect
<1>3. ASSUME NEW r \in Requests, InsertBooking(r)
      PROVE  bookings[b].status \in {"pending", "cancelled"}
  BY <1>3, InsertEffect DEF Inserts, Put
<1>4. ASSUME NEW r \in Requests, UpdateQuantity(r)
      PROVE  bookings[b].status \in {"pending", "cancelled"}
  <2>1. ASSUME NEW c, NEW q, Revises(c, q) PROVE bookings[b].status \in {"pending", "cancelled"}
    <3>1. b # c => bookings'[b] = bookings[b]
      BY <2>1 DEF Revises, Put
    <3> QED BY <2>1, <3>1 DEF Revises
  <2> QED BY <1>4, <2>1, QuantityEffect
<1>5. UNCHANGED bookings => bookings[b].status \in {"pending", "cancelled"}
  OBVIOUS
<1> QED BY <1>1, <1>2, <1>3, <1>4, <1>5
    DEF Next, DatabaseStep, CreditNeed, Begin, BeginCreate, BeginUpdateMyBooking,
        BeginCancelMyBooking, BeginDecide, BeginComplete, SendEmail, FailRequest, NeedRequest,
        CreateNeed, UpdateNeed, DeleteNeed, Restart, vars

----------------------------------------------------------------------------
(* The theorems *)

\* The inductive invariant.  SettledCreditIsExact is inductive only with the references
\* in TypeOK: the booking a completion carries must still be there for its row to be
\* compared.
IInv == TypeOK /\ ActiveUnique /\ SettledCreditIsExact

LEMMA IInvInit == Init => IInv
BY TypeInit DEF IInv, Init, ActiveUnique, SettledCreditIsExact, Idle

LEMMA IInvStep ==
  ASSUME IInv, [Next]_vars
  PROVE  IInv'
BY TypeStep, ActiveStep, CreditStep DEF IInv

LEMMA IInvAlways == Spec => []IInv
BY IInvInit, IInvStep, PTL DEF Spec

\* Rows and requests are always well typed, and every id that a request goes on with
\* names a row that is there, for any number of interleaved requests.
THEOREM TypeCorrect == Spec => []TypeOK
<1>1. IInv => TypeOK
  BY DEF IInv, TypeOK
<1>2. QED
  BY <1>1, IInvAlways, PTL

\* However many volunteers' and staff's requests race, a volunteer has one live
\* booking of a need at most.
THEOREM OneLiveBooking == Spec => []ActiveUnique
<1>1. IInv => ActiveUnique
  BY DEF IInv
<1>2. QED
  BY <1>1, IInvAlways, PTL

\* A completion of a booking that was no longer pending when it began credits what
\* the booking's row says, though it read the row two statements earlier.
THEOREM CreditIsExact == Spec => []SettledCreditIsExact
<1>1. IInv => SettledCreditIsExact
  BY DEF IInv
<1>2. QED
  BY <1>1, IInvAlways, PTL

\* No interleaving lets a volunteer change a booking staff have decided on.
THEOREM DecidedBookingsFrozen == Spec => SettledBookingFrozen
<1>1. IInv /\ [Next]_vars =>
        [\A b \in DOMAIN bookings :
           bookings[b].status # "pending" =>
             /\ bookings'[b].status # "pending"
             /\ bookings'[b].qty = bookings[b].qty]_vars
  BY SettledStep DEF IInv, SettledStays
<1>2. QED
  BY <1>1, IInvAlways, PTL DEF Spec, SettledBookingFrozen

\* No request, completions already under way included, changes what an archived need
\* has received.
THEOREM ArchivedNeedsFrozen == Spec => ArchivedNeedFrozen
<1>1. IInv /\ [Next]_vars =>
        [\A n \in DOMAIN needs :
           needs[n].archived =>
             /\ needs'[n].archived
             /\ needs'[n].received = needs[n].received]_vars
  BY ArchivedStep DEF IInv, ArchivedStays
<1>2. QED
  BY <1>1, IInvAlways, PTL DEF Spec, ArchivedNeedFrozen

\* The race that lets a cancellation overwrite a decision is a race: if requests do not
\* overlap, a volunteer cancels pending bookings only, as the doc of CancelMyBooking says,
\* and failures and restarts do not matter.
THEOREM CancelsPendingAlone ==
  (\A r, s \in Requests : r = s) => (Spec => CancelOnlyPending)
<1> SUFFICES ASSUME \A r, s \in Requests : r = s PROVE Spec => CancelOnlyPending
  OBVIOUS
<1>1. Init => CancelsPending
  BY DEF Init, CancelsPending, Idle
<1>2. TypeOK /\ CancelsPending /\ [Next]_vars => CancelsPending'
  <2> SUFFICES ASSUME TypeOK, CancelsPending, [Next]_vars, NEW s \in Requests,
                      reqs'[s].at = "status", reqs'[s].to = "cancelled"
               PROVE  bookings'[reqs'[s].booking].status = "pending"
    BY DEF CancelsPending
  <2> QED BY CancelChange DEF CancelsPending
<1>3. TypeOK /\ CancelsPending /\ [Next]_vars =>
        [\A b \in DOMAIN bookings :
           bookings'[b].status = "cancelled" =>
             bookings[b].status \in {"pending", "cancelled"}]_vars
  BY CancelledBy
<1> QED BY <1>1, <1>2, <1>3, TypeCorrect, PTL DEF Spec, CancelOnlyPending
=============================================================================
