--------------------------- MODULE MCCenturioNav ---------------------------
(***************************************************************************)
(* Instances of CenturioNav for TLC, with the rates of the configuration   *)
(* header: 10 Hz, 20 m/s, gain 1/2, 30 deg/s, arrival at 1 m.              *)
(***************************************************************************)
EXTENDS CenturioNav

At(n, e, u)  == [north |-> n, east |-> e, up |-> u]
Att(y, p, r) == [yaw |-> y, pitch |-> p, roll |-> r]

\* A diagonal climb, and a point under ground to the south.
MCPositions == {At(130, -90, 560), At(-40, 0, 300), At(0, 0, -5)}
\* Faster than the limit on both horizontal axes; a fast descent.
MCVelocities == {At(3000, -2500, 0), At(0, 0, -4200)}
\* Angles on both sides of the wrap, and outside the half-turn range.
MCAttitudes == {Att(190, -170, 0), Att(0, 500, 4)}
MCModes     == {SAFE, GUIDANCE, MANUAL, 7}
MCThrottles == {-5, 3, 250}
=============================================================================
