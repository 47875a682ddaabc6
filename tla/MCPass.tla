------------------------------- MODULE MCPass -------------------------------
(* Instances of Pass for TLC. *)
EXTENDS Pass
=============================================================================
