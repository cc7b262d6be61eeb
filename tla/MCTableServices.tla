-------------------------- MODULE MCTableServices --------------------------
(***************************************************************************)
(* Instances of TableServices for TLC.                                     *)
(***************************************************************************)
EXTENDS TableServices, TLC

CONSTANTS a1, a2, single, double, dump

\* Two tables that load and dump through the shared buffers.
SharedOwners == (single :> a1) @@ (dump :> a2)

\* A double-buffered table with a reader.
DoubleOwner == (double :> a1)
=============================================================================
