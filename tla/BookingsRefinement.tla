------------------------- MODULE BookingsRefinement -------------------------
(***************************************************************************)
(* The statement-by-statement Bookings implements the atomic BookingLedger.*)
(* A claim of the ledger is a CompleteBooking request between its two      *)
(* writes.                                                                 *)
(***************************************************************************)
EXTENDS Bookings

Received == [n \in DOMAIN needs |-> needs[n].received]
ClosedNeeds == {n \in DOMAIN needs : needs[n].archived}
Claim(req) == [need |-> bookings[req.booking].need, qty |-> req.qty]
Claims == [r \in Requests |-> IF reqs[r].at = "credit" THEN {Claim(reqs[r])} ELSE {}]

OpenQty == {Round(q) : q \in NeedQtyInputs}
EditQty == {Round(q) : q \in EditInputs}

Ledger == INSTANCE BookingLedger WITH
  ledger <- bookings, received <- Received, closed <- ClosedNeeds, claims <- Claims

\* Every effect of every interleaving of the requests is one step of the ledger.
LedgerSpec == Ledger!Spec
=============================================================================
