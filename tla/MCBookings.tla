----------------------------- MODULE MCBookings -----------------------------
(***************************************************************************)
(* Bookings on small instances.                                            *)
(***************************************************************************)
EXTENDS BookingsRefinement, FiniteSetsExt, TLC

CONSTANT i1

\* Employees work for i1.
MCWorksFor == [e \in Employees |-> i1]

MCSymmetry == Permutations(Volunteers) \cup Permutations(BookingIds) \cup Permutations(Requests)

\* The quantities of the bookings of need n that satisfy Counted(_).
BookedQty(n, Counted(_)) ==
  MapThenSumSet(LAMBDA b : bookings[b].qty,
                {b \in DOMAIN bookings : bookings[b].need = n /\ Counted(b)})

\* What the doc of CompleteBooking says: it marks a booking completed and increments
\* the need's received quantity.  So, when no request is in flight, a need that nobody
\* edited has received at least what its completed bookings say.
CompletedIsCredited ==
  (\A r \in Requests : reqs[r] = Idle) =>
    \A n \in DOMAIN needs :
      needs[n].received >= BookedQty(n, LAMBDA b : bookings[b].status = "completed")

\* ... and at most what volunteers booked: completing is done once per booking.
NeverOverCredited ==
  \A n \in DOMAIN needs : needs[n].received <= BookedQty(n, LAMBDA b : TRUE)
=============================================================================
