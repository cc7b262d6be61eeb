--------------------------- MODULE MCMissionApps ---------------------------
(* Instances of MissionApps for TLC. *)
EXTENDS MissionApps
=============================================================================
