------------------------ MODULE MCExecutiveServices ------------------------
(* Instances of ExecutiveServices for TLC. *)
EXTENDS ExecutiveServices
=============================================================================
