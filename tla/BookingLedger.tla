---------------------------- MODULE BookingLedger ----------------------------
(***************************************************************************)
(* What the booking component promises, with each effect in one atomic     *)
(* step and no requests in sight: a ledger of bookings, and the quantity   *)
(* each need has received.                                                 *)
(*                                                                         *)
(*   - a volunteer holds at most one live booking of a need;               *)
(*   - a booking is revised only while it is pending, and never becomes    *)
(*     pending again;                                                      *)
(*   - apart from edits by staff, a need's received quantity changes only  *)
(*     by paying a claim, a claim arises only by completing a booking, it  *)
(*     is paid at most once, and no claim is paid to a closed need.        *)
(*                                                                         *)
(* It does not promise that a claim is paid, nor that a booking is         *)
(* completed once: the code does neither.                                  *)
(***************************************************************************)
EXTENDS Integers

CONSTANTS
  Users, Needs, BookingIds, Requests,
  Quantity,  \* what a booking may promise
  OpenQty,   \* what a need may have received when it is opened
  EditQty    \* what staff may overwrite the received quantity with

VARIABLES
  ledger,    \* booking id -> user, need, qty, status
  received,  \* need -> quantity received so far
  closed,    \* needs that accept nothing any more
  claims     \* request -> what it may still pay (empty or one claim)

lvars == <<ledger, received, closed, claims>>

Released == {"cancelled", "rejected"}

\* Writing row under b leaves the volunteer with one live booking of the need.
Admissible(b, row) ==
  row.status \notin Released =>
    \A c \in DOMAIN ledger \ {b} :
      ledger[c].user = row.user /\ ledger[c].need = row.need
        => ledger[c].status \in Released

Record(b, row) ==
  /\ Admissible(b, row)
  /\ ledger' = [c \in DOMAIN ledger \cup {b} |-> IF c = b THEN row ELSE ledger[c]]

Place(b, u, n, q) ==
  /\ b \notin DOMAIN ledger /\ n \in DOMAIN received
  /\ Record(b, [user |-> u, need |-> n, qty |-> q, status |-> "pending"])
  /\ UNCHANGED <<received, closed, claims>>

Revise(b, q) ==
  /\ b \in DOMAIN ledger /\ ledger[b].status = "pending"
  /\ Record(b, [ledger[b] EXCEPT !.qty = q])
  /\ UNCHANGED <<received, closed, claims>>

Decide(b, to) ==
  /\ b \in DOMAIN ledger
  /\ Record(b, [ledger[b] EXCEPT !.status = to])
  /\ UNCHANGED <<received, closed, claims>>

Complete(b, r, q) ==
  /\ b \in DOMAIN ledger /\ claims[r] = {}
  /\ Record(b, [ledger[b] EXCEPT !.status = "completed"])
  /\ claims' = [claims EXCEPT ![r] = {[need |-> ledger[b].need, qty |-> q]}]
  /\ UNCHANGED <<received, closed>>

Pay(r) ==
  /\ \E c \in claims[r] :
       /\ c.need \notin closed
       /\ received' = [received EXCEPT ![c.need] = @ + c.qty]
  /\ claims' = [claims EXCEPT ![r] = {}]
  /\ UNCHANGED <<ledger, closed>>

\* Claims that are lost: to a closed need, an overflow, a failure or a restart.
Forfeit(R) ==
  /\ claims' = [r \in Requests |-> IF r \in R THEN {} ELSE claims[r]]
  /\ UNCHANGED <<ledger, received, closed>>

OpenNeed(n, q) ==
  /\ n \notin DOMAIN received
  /\ received' = [m \in DOMAIN received \cup {n} |-> IF m = n THEN q ELSE received[m]]
  /\ UNCHANGED <<ledger, closed, claims>>

EditNeed(n, q) ==
  /\ n \in DOMAIN received \ closed
  /\ received' = [received EXCEPT ![n] = q]
  /\ UNCHANGED <<ledger, closed, claims>>

CloseNeed(n) ==
  /\ n \in DOMAIN received
  /\ closed' = closed \cup {n}
  /\ UNCHANGED <<ledger, received, claims>>

Init ==
  /\ ledger = [b \in {} |-> 0]
  /\ received = [n \in {} |-> 0]
  /\ closed = {}
  /\ claims = [r \in Requests |-> {}]

Next ==
  \/ \E b \in BookingIds, q \in Quantity :
       \/ \E u \in Users, n \in Needs : Place(b, u, n, q)
       \/ Revise(b, q)
       \/ \E r \in Requests : Complete(b, r, q)
  \/ \E b \in BookingIds, to \in {"approved", "rejected", "cancelled"} : Decide(b, to)
  \/ \E r \in Requests : Pay(r)
  \/ \E R \in SUBSET Requests : Forfeit(R)
  \/ \E n \in Needs :
       \/ \E q \in OpenQty : OpenNeed(n, q)
       \/ \E q \in EditQty : EditNeed(n, q)
       \/ CloseNeed(n)

Spec == Init /\ [][Next]_lvars
=============================================================================
