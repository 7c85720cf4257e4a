----------------------------- MODULE MCSessions -----------------------------
(***************************************************************************)
(* Sessions for TLC: users who are volunteers and stay so.                 *)
(***************************************************************************)
EXTENDS Sessions

MCStandings == {[active |-> TRUE, claims |-> "volunteer"]}
=============================================================================
