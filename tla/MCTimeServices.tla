-------------------------- MODULE MCTimeServices ---------------------------
(* Instances of TimeServices for TLC. *)
EXTENDS TimeServices
=============================================================================
