----------------------------- MODULE CenturioNav -----------------------------
(***************************************************************************)
(* The navigation application (apps/centurio_nav): one task that receives  *)
(* wake-ups, housekeeping requests and ground commands on one pipe and     *)
(* owns the vehicle state.  One action is the handling of one message.     *)
(*                                                                         *)
(* Units.  Lengths are centimetres, velocities cm/s, angles whole degrees, *)
(* throttle whole percent.  Latitude and longitude are distances from the  *)
(* start along a flat north and east axis: the code scales both the errors *)
(* and the integrated steps by the same metres-per-degree and cos(lat),    *)
(* except within 0.6 degrees of a pole, where it clamps the second only.   *)
(* Target.Mode and Target.ThrottlePercent are never read.                  *)
(* Quotients are truncated toward zero, as the vehicle can at most fall    *)
(* short of what real arithmetic gives.                                    *)
(***************************************************************************)
EXTENDS Integers, FiniteSets

CONSTANTS
  Rate,        \* CENTURIO_NAV_CONTROL_RATE_HZ
  MaxSpeed,    \* CENTURIO_NAV_MAX_SPEED_MS
  GainDiv,     \* 1 / CENTURIO_NAV_POS_GAIN
  SlewStep,    \* CENTURIO_NAV_ATT_SLEW_DPS / CENTURIO_NAV_CONTROL_RATE_HZ
  Arrival,     \* CENTURIO_NAV_ARRIVAL_M
  StartAlt,    \* the altitude set by CENTURIO_NAV_Init
  Modes,       \* payloads of SET_MODE the ground sends (any uint8)
  Positions,   \* payloads of SET_TARGET_POS
  Velocities,  \* payloads of SET_TARGET_VEL
  Attitudes,   \* payloads of SET_TARGET_ATT
  Throttles,   \* payloads of SET_THROTTLE
  CounterSize, \* range of the command counters (2^8 in the code)
  MaxCmds,     \* model bound: commands the ground sends in all
  MaxRange     \* model bound: how far the vehicle may fly

Vector   == [north : Int, east : Int, up : Int]
Attitude == [yaw : Int, pitch : Int, roll : Int]

ASSUME NavAssumption ==
  /\ Rate \in Nat \ {0} /\ GainDiv \in Nat \ {0} /\ CounterSize \in Nat \ {0}
  /\ MaxSpeed \in Nat /\ SlewStep \in 1..179 /\ Arrival \in Nat \ {0}
  /\ StartAlt \in Nat /\ MaxCmds \in Nat /\ MaxRange \in Nat
  /\ Modes \subseteq 0..255
  /\ Positions \subseteq Vector /\ Velocities \subseteq Vector
  /\ Attitudes \subseteq Attitude /\ Throttles \subseteq Int

VARIABLES
  pos, vel, att,       \* Nav: position, velocity, attitude
  throttle, mode,      \* Nav.ThrottlePercent, Nav.SystemStatus
  tgtPos, tgtVel, tgtAtt,  \* Target
  cmdCounter, errCounter,  \* CmdCounter, ErrCounter
  run,                 \* RunStatus is APP_RUN: the main loop goes on
  hk,                  \* the last housekeeping packet published
  sent,                \* commands sent so far
  commanded            \* history: the target commands accepted so far

navVars == <<pos, vel, att, throttle, mode>>
tgtVars == <<tgtPos, tgtVel, tgtAtt>>
vars    == <<navVars, tgtVars, cmdCounter, errCounter, run, hk, sent, commanded>>

SAFE     == 1
GUIDANCE == 2
MANUAL   == 3

Zero  == [north |-> 0, east |-> 0, up |-> 0]
Level == [yaw |-> 0, pitch |-> 0, roll |-> 0]
Home  == [north |-> 0, east |-> 0, up |-> StartAlt]

(***************************************************************************)
(* Control loop helpers.                                                   *)
(***************************************************************************)
\* CENTURIO_NAV_WrapDeg180: the loops subtract or add whole turns until the
\* angle is in -180..180; both ends are kept as they are.
WrapDeg180(a) ==
  IF a > 180 THEN ((a + 179) % 360) - 179
  ELSE IF a < -180 THEN ((a + 180) % 360) - 180
  ELSE a

\* CENTURIO_NAV_ClampF
ClampF(val, min, max) ==
  IF val < min THEN min ELSE IF val > max THEN max ELSE val

\* CENTURIO_NAV_SlewToward: one step by the short way round.
MutSlewToward(current, target) ==
  WrapDeg180(current + ClampF(target - current, -SlewStep, SlewStep))
SlewToward(current, target) ==
  WrapDeg180(current + ClampF(WrapDeg180(target - current), -SlewStep, SlewStep))

Abs(x) == IF x < 0 THEN -x ELSE x

\* Division truncated toward zero, d > 0.
Quot(x, d) == IF x < 0 THEN -((-x) \div d) ELSE x \div d

\* A function applied to, and a condition on, every component of a vector.
Each(F(_), v)  == [north |-> F(v.north), east |-> F(v.east), up |-> F(v.up)]
AllOf(P(_), v) == P(v.north) /\ P(v.east) /\ P(v.up)

SqLength(v) == v.north * v.north + v.east * v.east + v.up * v.up

Longest(v) ==
  CHOOSE r \in {Abs(v.north), Abs(v.east), Abs(v.up)} :
    r >= Abs(v.north) /\ r >= Abs(v.east) /\ r >= Abs(v.up)

\* sqrt(n*n + e*e + d*d), rounded up: no quotient by it is too large.
Length(v) ==
  CHOOSE r \in Longest(v)..(Abs(v.north) + Abs(v.east) + Abs(v.up)) :
    /\ r * r >= SqLength(v)
    /\ r > 0 => (r - 1) * (r - 1) < SqLength(v)

\* The error vector, from the position to the target.
MutMinus(v, w) == [north |-> v.north - w.north, east |-> v.east - w.east,
                   up |-> w.up - v.up]
Minus(v, w) == [north |-> v.north - w.north, east |-> v.east - w.east,
                up |-> v.up - w.up]

\* atan2(east, north) in degrees, to the nearest of the eight compass points.
Heading(v) ==
  LET n == Abs(v.north)  e == Abs(v.east)
      a == IF 5 * e < 2 * n THEN 0 ELSE IF 5 * n < 2 * e THEN 90 ELSE 45
      b == IF v.north >= 0 THEN a ELSE 180 - a
  IN IF v.east >= 0 THEN b ELSE -b

(***************************************************************************)
(* CENTURIO_NAV_RunControlLoop.                                            *)
(***************************************************************************)
MutSpeedLimit == MaxSpeed * (throttle \div 100)
SpeedLimit == (MaxSpeed * throttle) \div 100

\* Guidance velocity for the error vector err of length dist > 0: toward the
\* target, proportional to the distance, limited by the throttle.
GuidanceVel(err, dist) ==
  LET speed == ClampF(dist \div GainDiv, 0, SpeedLimit)
  IN Each(LAMBDA e : Quot(e * speed, dist), err)

\* Is the vehicle to move, in GUIDANCE?
Flying(err) == SqLength(err) > Arrival * Arrival /\ SpeedLimit > 0

\* The yaw GUIDANCE steers to: the track when there is horizontal motion to
\* make, the current yaw when the motion is vertical, the commanded yaw when
\* the vehicle holds its position.
GuidanceYaw(err) ==
  CASE ~Flying(err) -> SlewToward(att.yaw, tgtAtt.yaw)
    [] Flying(err) /\ (Abs(err.north) > 10 \/ Abs(err.east) > 10) ->
         SlewToward(att.yaw, Heading(err))
    [] OTHER -> att.yaw

SlewPitchRoll(yaw) ==
  [yaw |-> yaw, pitch |-> SlewToward(att.pitch, tgtAtt.pitch),
   roll |-> SlewToward(att.roll, tgtAtt.roll)]

Guidance ==
  LET err == Minus(tgtPos, pos) IN
  /\ mode = GUIDANCE
  /\ vel' = IF Flying(err) THEN GuidanceVel(err, Length(err)) ELSE Zero
  /\ att' = SlewPitchRoll(GuidanceYaw(err))

MutManual ==
  /\ mode = MANUAL
  /\ vel' = tgtVel
  /\ att' = SlewPitchRoll(SlewToward(att.yaw, tgtAtt.yaw))
Manual ==
  /\ mode = MANUAL
  /\ vel' = Each(LAMBDA v : ClampF(v, -MaxSpeed, MaxSpeed), tgtVel)
  /\ att' = SlewPitchRoll(SlewToward(att.yaw, tgtAtt.yaw))

HoldPosition ==
  /\ mode \notin {GUIDANCE, MANUAL}
  /\ vel' = Zero
  /\ UNCHANGED att

\* Position after one period at velocity v; the ground is at altitude zero.
MutIntegrate(v) ==
  [north |-> pos.north + Quot(v.north, Rate), east |-> pos.east + Quot(v.east, Rate),
   up |-> pos.up + Quot(v.up, Rate)]
Integrate(v) ==
  LET alt == pos.up + Quot(v.up, Rate) IN
  [north |-> pos.north + Quot(v.north, Rate), east |-> pos.east + Quot(v.east, Rate),
   up |-> IF alt < 0 THEN 0 ELSE alt]

\* CENTURIO_NAV_WAKEUP_MID
Wakeup ==
  /\ run
  /\ Guidance \/ Manual \/ HoldPosition
  /\ pos' = Integrate(vel')
  /\ AllOf(LAMBDA x : Abs(x) <= MaxRange, pos')
  /\ UNCHANGED <<throttle, mode, tgtVars, cmdCounter, errCounter, run, hk, sent, commanded>>

\* CENTURIO_NAV_SEND_HK_MID; the rest of the packet is a copy of Nav.
SendHk ==
  /\ run
  /\ hk' = [mode |-> mode, cmd |-> cmdCounter, err |-> errCounter]
  /\ UNCHANGED <<navVars, tgtVars, cmdCounter, errCounter, run, sent, commanded>>

(***************************************************************************)
(* CENTURIO_NAV_CMD_MID: the command dispatch of CENTURIO_NAV_Main.        *)
(***************************************************************************)
Bump(counter) == (counter + 1) % CounterSize

\* The ground sends one more command and the main loop receives it.
Receive == run /\ sent < MaxCmds /\ sent' = sent + 1 /\ UNCHANGED <<run, hk>>

Accept ==
  /\ Receive
  /\ cmdCounter' = Bump(cmdCounter)
  /\ UNCHANGED errCounter

Noop == Accept /\ UNCHANGED <<navVars, tgtVars, commanded>>

ResetCounters ==
  /\ Receive
  /\ cmdCounter' = 0 /\ errCounter' = 0
  /\ UNCHANGED <<navVars, tgtVars, commanded>>

SetMode(m) ==
  /\ Accept
  /\ mode' = m
  /\ UNCHANGED <<pos, vel, att, throttle, tgtVars, commanded>>

SetTargetPos(p) ==
  /\ Accept
  /\ tgtPos' = p
  /\ commanded' = commanded \cup {"pos"}
  /\ UNCHANGED <<navVars, tgtVel, tgtAtt>>

SetTargetVel(v) ==
  /\ Accept
  /\ tgtVel' = v
  /\ commanded' = commanded \cup {"vel"}
  /\ UNCHANGED <<navVars, tgtPos, tgtAtt>>

SetTargetAtt(a) ==
  /\ Accept
  /\ tgtAtt' = a
  /\ commanded' = commanded \cup {"att"}
  /\ UNCHANGED <<navVars, tgtPos, tgtVel>>

MutSetThrottle(pct) ==
  /\ Accept
  /\ throttle' = pct
  /\ UNCHANGED <<pos, vel, att, mode, tgtVars, commanded>>
SetThrottle(pct) ==
  /\ Accept
  /\ throttle' = ClampF(pct, 0, 100)
  /\ UNCHANGED <<pos, vel, att, mode, tgtVars, commanded>>

\* A command of the wrong length, or an unknown command code.
RejectCmd ==
  /\ Receive
  /\ errCounter' = Bump(errCounter)
  /\ UNCHANGED <<navVars, tgtVars, cmdCounter, commanded>>

\* CFE_SB_ReceiveBuffer fails: the loop ends and the application exits.
PipeReadError ==
  /\ run /\ run' = FALSE
  /\ UNCHANGED <<navVars, tgtVars, cmdCounter, errCounter, hk, sent, commanded>>

-----------------------------------------------------------------------------
\* CENTURIO_NAV_Init, after which the targets are the current state.  (When
\* a step of it fails the application exits before its first message.)
MutInit ==
  /\ pos = Home /\ vel = Zero /\ att = Level
  /\ throttle = 0 /\ mode = SAFE
  /\ tgtPos = Zero /\ tgtVel = Zero /\ tgtAtt = Level
  /\ cmdCounter = 0 /\ errCounter = 0 /\ run = TRUE
  /\ hk = [mode |-> 0, cmd |-> 0, err |-> 0]
  /\ sent = 0 /\ commanded = {}
Init ==
  /\ pos = Home /\ vel = Zero /\ att = Level
  /\ throttle = 0 /\ mode = SAFE
  /\ tgtPos = Home /\ tgtVel = Zero /\ tgtAtt = Level
  /\ cmdCounter = 0 /\ errCounter = 0 /\ run = TRUE
  /\ hk = [mode |-> 0, cmd |-> 0, err |-> 0]
  /\ sent = 0 /\ commanded = {}

Command ==
  \/ Noop \/ ResetCounters \/ RejectCmd
  \/ \E m \in Modes : SetMode(m)
  \/ \E p \in Positions : SetTargetPos(p)
  \/ \E v \in Velocities : SetTargetVel(v)
  \/ \E a \in Attitudes : SetTargetAtt(a)
  \/ \E pct \in Throttles : SetThrottle(pct)

Next == Wakeup \/ SendHk \/ Command \/ PipeReadError

Spec == Init /\ [][Next]_vars

\* The scheduler keeps sending wake-ups and the main loop handles them.
FairSpec == Spec /\ WF_vars(Wakeup)
(***************************************************************************)
(* Properties.                                                             *)
(***************************************************************************)
Angle == -180..180

\* Types: the throttle is a percentage whatever was commanded, the altitude
\* is never below ground, and every angle stays in the half-turn range.
TypeOK ==
  /\ pos \in [north : Int, east : Int, up : Nat]
  /\ vel \in Vector
  /\ att \in [yaw : Angle, pitch : Angle, roll : Angle]
  /\ throttle \in 0..100
  /\ mode \in 0..255
  /\ tgtPos \in Vector /\ tgtVel \in Vector /\ tgtAtt \in Attitude
  /\ cmdCounter \in 0..(CounterSize - 1) /\ errCounter \in 0..(CounterSize - 1)
  /\ run \in BOOLEAN
  /\ hk \in [mode : 0..255, cmd : 0..(CounterSize - 1), err : 0..(CounterSize - 1)]
  /\ sent \in 0..MaxCmds
  /\ commanded \subseteq {"pos", "vel", "att"}

\* "Targets start at the current state so nothing moves until commanded"
\* (CENTURIO_NAV_Init): whatever modes and throttles are set, in whatever
\* order, the vehicle stays where it is until a position or a velocity is
\* commanded, and level until an attitude is commanded too.
StaysHome ==
  commanded \cap {"pos", "vel"} = {} =>
    /\ pos = Home /\ vel = Zero
    /\ "att" \notin commanded => att = Level

\* No axis is ever faster than MaxSpeed, in any mode and in the cycles after
\* a change of mode or throttle.
AxisSpeedLimited == AllOf(LAMBDA v : Abs(v) <= MaxSpeed, vel)

\* A guidance cycle brings the vehicle nearer its target on every axis, never
\* past it.
NoOvershoot ==
  [][(Wakeup /\ mode = GUIDANCE) =>
       \A i \in {"north", "east", "up"} :
         LET err == tgtPos[i] - pos[i]  errN == tgtPos[i] - pos'[i]
         IN IF err >= 0 THEN errN \in 0..err ELSE errN \in err..0]_vars

\* Angular distance, the short way.
Turn(a, b) == Abs(WrapDeg180(a - b))

\* No angle turns by more than a slew step in a cycle, and pitch and roll turn
\* the short way: their distance to the commanded angle never grows.
TurnsShortWay ==
  [][Wakeup =>
       /\ \A i \in {"yaw", "pitch", "roll"} : Turn(att'[i], att[i]) <= SlewStep
       /\ \A i \in {"pitch", "roll"} :
            mode \in {GUIDANCE, MANUAL} =>
              \/ Turn(tgtAtt[i], att'[i]) < Turn(tgtAtt[i], att[i])
              \/ Turn(tgtAtt[i], att'[i]) = 0]_vars

Arrived ==
  LET err == Minus(tgtPos, pos) IN SqLength(err) <= Arrival * Arrival /\ vel = Zero

\* Left in GUIDANCE with throttle, and a target that is not under ground, the
\* vehicle gets within the arrival radius and stops there.
Arrives ==
  <>[](run /\ mode = GUIDANCE /\ throttle > 0 /\ tgtPos.up >= 0)
    => <>[]Arrived

\* Left in MANUAL and hovering, the vehicle takes the commanded attitude.  (A
\* vehicle that flies on ends at MaxRange, where the model has no more cycles.)
AttitudeReached ==
  <>[](run /\ mode = MANUAL /\ tgtVel = Zero)
    => <>[](\A i \in {"yaw", "pitch", "roll"} : Turn(tgtAtt[i], att[i]) = 0)
=============================================================================
