------------------------------ MODULE MCServer ------------------------------
(***************************************************************************)
(* Server on a small instance.  Liveness is checked, so there is no        *)
(* symmetry set.                                                           *)
(***************************************************************************)
EXTENDS Server

CONSTANT i1

\* Employees work for i1.
MCWorksFor == [e \in Employees |-> i1]
=============================================================================
