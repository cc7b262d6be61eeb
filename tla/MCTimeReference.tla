-------------------------- MODULE MCTimeReference --------------------------
(* Instances of TimeReference for TLC. *)
EXTENDS TimeReference
=============================================================================
