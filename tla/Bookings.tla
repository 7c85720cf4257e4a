------------------------------ MODULE Bookings ------------------------------
(***************************************************************************)
(* Volunteers book the needs of institutions; staff approve, reject and    *)
(* complete the bookings, and a completion credits the need's received     *)
(* quantity.                                                               *)
(*                                                                         *)
(* Every HTTP request runs in a goroutine of its own and no service opens  *)
(* a database transaction, so the unit of atomicity is ONE SQL statement.  *)
(* A request is a slot of Requests.  Its first action (Begin...) stands    *)
(* for the reads and checks that precede its first write: the rows read    *)
(* there are either never changed (a booking's owner and need, a need's    *)
(* institution, a user's role) or copied into the slot, as the Go code     *)
(* copies them into a struct.  Each later write is an action of its own,   *)
(* so that other requests come in between.  A request that is refused      *)
(* before its first write changes nothing and is not an action.            *)
(*                                                                         *)
(* Quantities arrive as float64 and are stored as DECIMAL(10,2): inputs    *)
(* are in thousandths, stored values in hundredths.                        *)
(***************************************************************************)
EXTENDS Integers, FiniteSets

CONSTANTS
  Institutions,   \* ids of institutions
  Volunteers,     \* users with role "volunteer"
  Employees,      \* approved users with role "employee"
  Admins,         \* users with role "super_admin"
  WorksFor,       \* the institution_id of each employee
  Active,         \* the users whose is_active is true
  Needs,          \* bound: ids the needs table may hand out
  BookingIds,     \* bound: ids the bookings table may hand out
  Requests,       \* bound: requests that are in flight at once
  QtyInputs,      \* quantities volunteers send, in thousandths
  NeedQtyInputs,  \* received quantities staff create needs with, in thousandths
  EditInputs,     \* received quantities staff overwrite a need's with, in thousandths
  MaxNumeric,     \* the largest DECIMAL(10,2), in hundredths
  Failures        \* may statements fail and the server stop?

Users == Volunteers \cup Employees \cup Admins

ASSUME BookingsAssumption ==
  /\ WorksFor \in [Employees -> Institutions]
  /\ Active \subseteq Users
  /\ QtyInputs \subseteq Int
  /\ NeedQtyInputs \subseteq Int
  /\ EditInputs \subseteq Int
  /\ MaxNumeric \in Nat
  /\ Failures \in BOOLEAN

VARIABLES
  needs,     \* rows of the needs table, by id
  bookings,  \* rows of the bookings table, by id
  reqs       \* the requests in flight

vars == <<needs, bookings, reqs>>

----------------------------------------------------------------------------
(* Values, rows and requests *)

\* Conversion to DECIMAL(10,2): half away from zero; what does not fit is an error.
Round(x) == IF x >= 0 THEN (x + 5) \div 10 ELSE -((5 - x) \div 10)
Numeric == -MaxNumeric .. MaxNumeric
Quantity == 0 .. MaxNumeric
FitsAlways(x) == TRUE
Fits(x) == x \in Numeric

Statuses == {"pending", "approved", "rejected", "completed", "cancelled"}
Closed == {"cancelled", "rejected"}  \* outside the partial unique index
Decisions == {"approved", "rejected", "cancelled"}

NeedRow == [inst: Institutions, received: Numeric, archived: BOOLEAN,
            history: SUBSET {"update", "archive"}]
BookingRow == [user: Users, need: Needs, qty: Quantity, status: Statuses]

Idle == [at |-> "idle"]
Emailing == [at |-> "email"]

Request ==
  {Idle, Emailing}
  \cup [at: {"insert"}, user: Users, need: Needs, qty: {q \in QtyInputs : q > 0}]
  \cup [at: {"quantity"}, booking: BookingIds, qty: {q \in QtyInputs : q > 0}]
  \cup [at: {"status"}, booking: BookingIds, to: Decisions]
  \* qty and settled are what the request read of the booking when it began
  \cup [at: {"complete", "credit"}, booking: BookingIds, qty: Quantity, settled: BOOLEAN]

\* f with x mapped to y, whether or not x was in its domain: INSERT and UPDATE of a row.
Put(f, x, y) == [z \in DOMAIN f \cup {x} |-> IF z = x THEN y ELSE f[z]]

\* Staff of institution i: its employees, and every super-admin.
Manages(u, i) == u \in Admins \/ (u \in Employees /\ WorksFor[u] = i)

----------------------------------------------------------------------------
(* The statements the requests are made of *)

\* bookings_user_need_active_uniq refuses to write row under id b.
IndexConflictNever(b, row) == FALSE
IndexConflict(b, row) ==
  /\ row.status \notin Closed
  /\ \E c \in DOMAIN bookings \ {b} :
       /\ bookings[c].user = row.user
       /\ bookings[c].need = row.need
       /\ bookings[c].status \notin Closed

\* GetActiveBookingByUserAndNeed finds a row.
HasActiveBooking(u, n) ==
  \E b \in DOMAIN bookings :
    bookings[b].user = u /\ bookings[b].need = n /\ bookings[b].status \notin Closed

\* The WHERE clause of UpdateBookingQuantity.
QuantityWritableAnyStatus(b) == b \in DOMAIN bookings
QuantityWritable(b) == b \in DOMAIN bookings /\ bookings[b].status = "pending"

\* The WHERE clause shared by UpdateNeed and IncrementReceivedQty.
NeedWritableDeletedToo(n) == n \in DOMAIN needs
NeedWritable(n) == n \in DOMAIN needs /\ ~needs[n].archived

Answer(r) == reqs' = [reqs EXCEPT ![r] = Idle]
Goto(r, next) == reqs' = [reqs EXCEPT ![r] = next]

\* UpdateBookingStatus, its error answer included; a request that succeeds goes on as next.
SetStatus(r, b, to, next) ==
  LET row == [bookings[b] EXCEPT !.status = to] IN
  /\ IF IndexConflict(b, row)
       THEN Answer(r) /\ UNCHANGED bookings
       ELSE Goto(r, next) /\ bookings' = Put(bookings, b, row)
  /\ UNCHANGED needs

----------------------------------------------------------------------------
(* Booking a need *)

\* A new request has an id left for its row (bound).
IdLeft ==
  Cardinality(DOMAIN bookings) + Cardinality({r \in Requests : reqs[r].at = "insert"})
    < Cardinality(BookingIds)

BeginCreate(r, u, n, q) ==
  /\ reqs[r] = Idle /\ IdLeft
  /\ u \notin Employees /\ u \in Active
  /\ n \in DOMAIN needs
  /\ q > 0
  /\ ~HasActiveBooking(u, n)
  /\ Goto(r, [at |-> "insert", user |-> u, need |-> n, qty |-> q])
  /\ UNCHANGED <<needs, bookings>>

\* The INSERT; then the institution is looked up, and mailed if it has an address.
InsertBooking(r) ==
  /\ reqs[r].at = "insert"
  /\ \E b \in BookingIds \ DOMAIN bookings :
       LET row == [user |-> reqs[r].user, need |-> reqs[r].need,
                   qty |-> Round(reqs[r].qty), status |-> "pending"] IN
       IF IndexConflict(b, row) \/ ~Fits(row.qty)
         THEN Answer(r) /\ UNCHANGED bookings
         ELSE /\ bookings' = Put(bookings, b, row)
              /\ Goto(r, Emailing) \/ Answer(r)
  /\ UNCHANGED needs

\* The request waits for the SMTP server; whether the mail was sent is ignored.
SendEmail(r) ==
  /\ reqs[r] = Emailing
  /\ Answer(r)
  /\ UNCHANGED <<needs, bookings>>

----------------------------------------------------------------------------
(* What the volunteer does with a booking *)

\* Owner and status as the request read them.
OwnPending(u, b) ==
  /\ b \in DOMAIN bookings
  /\ bookings[b].user = u /\ bookings[b].status = "pending"

BeginUpdateMyBooking(r, u, b, q) ==
  /\ reqs[r] = Idle
  /\ OwnPending(u, b) /\ q > 0
  /\ Goto(r, [at |-> "quantity", booking |-> b, qty |-> q])
  /\ UNCHANGED <<needs, bookings>>

UpdateQuantity(r) ==
  /\ reqs[r].at = "quantity"
  /\ LET b == reqs[r].booking
         qty == Round(reqs[r].qty) IN
     IF QuantityWritable(b) /\ Fits(qty)
       THEN bookings' = Put(bookings, b, [bookings[b] EXCEPT !.qty = qty])
       ELSE UNCHANGED bookings
  /\ Answer(r)
  /\ UNCHANGED needs

BeginCancelMyBooking(r, u, b) ==
  /\ reqs[r] = Idle
  /\ OwnPending(u, b)
  /\ Goto(r, [at |-> "status", booking |-> b, to |-> "cancelled"])
  /\ UNCHANGED <<needs, bookings>>

----------------------------------------------------------------------------
(* What the staff do with a booking *)

\* The role and institution checks; the booking's status is not one of them.
MayDecide(u, b) ==
  b \in DOMAIN bookings /\ Manages(u, needs[bookings[b].need].inst)

BeginDecide(r, u, b, to) ==
  /\ reqs[r] = Idle
  /\ MayDecide(u, b)
  /\ Goto(r, [at |-> "status", booking |-> b, to |-> to])
  /\ UNCHANGED <<needs, bookings>>

UpdateStatus(r) ==
  /\ reqs[r].at = "status"
  /\ SetStatus(r, reqs[r].booking, reqs[r].to, Idle)

BeginComplete(r, u, b) ==
  /\ reqs[r] = Idle
  /\ MayDecide(u, b)
  /\ Goto(r, [at |-> "complete", booking |-> b, qty |-> bookings[b].qty,
              settled |-> bookings[b].status # "pending"])
  /\ UNCHANGED <<needs, bookings>>

CompleteStatus(r) ==
  /\ reqs[r].at = "complete"
  /\ SetStatus(r, reqs[r].booking, "completed", [reqs[r] EXCEPT !.at = "credit"])

CreditNeedWaiting(r) ==
  /\ reqs[r].at = "credit"
  /\ LET n == bookings[reqs[r].booking].need
         total == needs[n].received + reqs[r].qty IN
     /\ NeedWritable(n) /\ Fits(total)
     /\ needs' = Put(needs, n, [needs[n] EXCEPT !.received = total])
  /\ Answer(r)
  /\ UNCHANGED bookings

CreditNeedRetried(r) ==
  /\ reqs[r].at = "credit"
  /\ LET n == bookings[reqs[r].booking].need
         total == needs[n].received + reqs[r].qty IN
     IF NeedWritable(n) /\ Fits(total)
       THEN needs' = Put(needs, n, [needs[n] EXCEPT !.received = total])
       ELSE UNCHANGED needs
  /\ Answer(r) \/ UNCHANGED reqs
  /\ UNCHANGED bookings

\* IncrementReceivedQty with the quantity the request read when it began.
CreditNeed(r) ==
  /\ reqs[r].at = "credit"
  /\ LET n == bookings[reqs[r].booking].need
         total == needs[n].received + reqs[r].qty IN
     IF NeedWritable(n) /\ Fits(total)
       THEN needs' = Put(needs, n, [needs[n] EXCEPT !.received = total])
       ELSE UNCHANGED needs
  /\ Answer(r)
  /\ UNCHANGED bookings

----------------------------------------------------------------------------
(* Needs.  Each of these requests has one write that matters, and what it  *)
(* read before is either immutable or overwritten; the history row that    *)
(* follows is never read back, and an error writing it is ignored.         *)

CreateNeed(u, n, i, q) ==
  /\ n \in Needs \ DOMAIN needs
  /\ Manages(u, i)
  /\ Fits(Round(q))
  /\ needs' = Put(needs, n, [inst |-> i, received |-> Round(q), archived |-> FALSE,
                             history |-> {}])
  /\ UNCHANGED <<bookings, reqs>>

\* The client's received quantity replaces the stored one.
UpdateNeed(u, n, q) ==
  /\ NeedWritable(n)
  /\ Manages(u, needs[n].inst)
  /\ Fits(Round(q))
  /\ \E h \in {{}, {"update"}} :
       needs' = Put(needs, n, [needs[n] EXCEPT !.received = Round(q), !.history = @ \cup h])
  /\ UNCHANGED <<bookings, reqs>>

DeleteNeedHard(u, n) ==
  /\ n \in DOMAIN needs
  /\ Manages(u, needs[n].inst)
  /\ needs' = [m \in DOMAIN needs \ {n} |-> needs[m]]
  /\ UNCHANGED <<bookings, reqs>>

\* Soft delete: the row stays, and so do its bookings.
DeleteNeed(u, n) ==
  /\ n \in DOMAIN needs
  /\ Manages(u, needs[n].inst)
  /\ \E h \in {{}, {"archive"}} :
       needs' = Put(needs, n, [needs[n] EXCEPT !.archived = TRUE, !.history = @ \cup h])
  /\ UNCHANGED <<bookings, reqs>>

----------------------------------------------------------------------------
(* Failures *)

\* A statement fails (lost connection, cancelled request context): the request
\* ends with an error, and the statements it has already run stay.
FailRequest(r) ==
  /\ Failures
  /\ reqs[r] \notin {Idle, Emailing}
  /\ Answer(r)
  /\ UNCHANGED <<needs, bookings>>

\* The process stops and starts again.
Restart ==
  /\ Failures
  /\ reqs' = [r \in Requests |-> Idle]
  /\ UNCHANGED <<needs, bookings>>

----------------------------------------------------------------------------
(* The specification *)

Init ==
  /\ needs = [n \in {} |-> 0]
  /\ bookings = [b \in {} |-> 0]
  /\ reqs = [r \in Requests |-> Idle]

\* The steps a request takes by itself once it has begun.
DatabaseStep(r) ==
  \/ InsertBooking(r)
  \/ UpdateQuantity(r)
  \/ UpdateStatus(r)
  \/ CompleteStatus(r)
  \/ CreditNeed(r)

\* The requests that arrive.
Begin(r) ==
  \/ \E u \in Users, n \in Needs, q \in QtyInputs : BeginCreate(r, u, n, q)
  \/ \E u \in Users, b \in BookingIds :
       \/ \E q \in QtyInputs : BeginUpdateMyBooking(r, u, b, q)
       \/ BeginCancelMyBooking(r, u, b)
       \/ \E to \in {"approved", "rejected"} : BeginDecide(r, u, b, to)
       \/ BeginComplete(r, u, b)

NeedRequest ==
  \E u \in Users, n \in Needs :
    \/ \E i \in Institutions, q \in NeedQtyInputs : CreateNeed(u, n, i, q)
    \/ \E q \in EditInputs : UpdateNeed(u, n, q)
    \/ DeleteNeed(u, n)

Next ==
  \/ \E r \in Requests : Begin(r) \/ DatabaseStep(r) \/ SendEmail(r) \/ FailRequest(r)
  \/ NeedRequest
  \/ Restart

Spec == Init /\ [][Next]_vars

----------------------------------------------------------------------------
(* Properties *)

\* Every row and request points at rows that exist.
References ==
  /\ \A b \in DOMAIN bookings : bookings[b].need \in DOMAIN needs
  /\ \A r \in Requests :
       /\ reqs[r].at = "insert" => reqs[r].need \in DOMAIN needs
       /\ reqs[r].at \in {"quantity", "status", "complete", "credit"}
            => reqs[r].booking \in DOMAIN bookings

\* Rows and requests are well typed, and no quantity outgrows its column; a request
\* that goes on after its checks never finds the booking or the need of its later
\* statements gone.
TypeOK ==
  /\ DOMAIN needs \subseteq Needs
  /\ needs \in [DOMAIN needs -> NeedRow]
  /\ DOMAIN bookings \subseteq BookingIds
  /\ bookings \in [DOMAIN bookings -> BookingRow]
  /\ reqs \in [Requests -> Request]
  /\ References

\* No volunteer ever holds two live bookings of one need: neither two racing
\* CreateBooking calls that both saw none, nor a rejected or cancelled booking
\* that staff approve or complete again, gets past the partial unique index.
ActiveUnique ==
  \A b, c \in DOMAIN bookings :
    /\ bookings[b].user = bookings[c].user
    /\ bookings[b].need = bookings[c].need
    /\ bookings[b].status \notin Closed
    /\ bookings[c].status \notin Closed
    => b = c

\* CompleteBooking carries the quantity it read at its start across two statements.
\* If the booking had already left pending then, what it is about to credit is what
\* the row still says, whatever other requests did in between.
SettledCreditIsExact ==
  \A r \in Requests :
    reqs[r].at \in {"complete", "credit"} /\ reqs[r].settled =>
      /\ bookings[reqs[r].booking].status # "pending"
      /\ bookings[reqs[r].booking].qty = reqs[r].qty

\* A volunteer cannot change what staff have decided on: once a booking has left
\* pending no request changes its quantity and none makes it pending again, though
\* UpdateMyBooking checks the status in one statement and writes in another.
SettledBookingFrozen ==
  [][\A b \in DOMAIN bookings :
       bookings[b].status # "pending" =>
         /\ bookings'[b].status # "pending"
         /\ bookings'[b].qty = bookings[b].qty]_vars

\* Soft-deleting a need stops every later change of its received quantity, that of
\* completions already under way included, and is never undone.
ArchivedNeedFrozen ==
  [][\A n \in DOMAIN needs :
       needs[n].archived =>
         /\ needs'[n].archived
         /\ needs'[n].received = needs[n].received]_vars

\* What the doc of CancelMyBooking says: it cancels pending bookings.
CancelOnlyPending ==
  [][\A b \in DOMAIN bookings :
       bookings'[b].status = "cancelled" =>
         bookings[b].status \in {"pending", "cancelled"}]_vars
=============================================================================
