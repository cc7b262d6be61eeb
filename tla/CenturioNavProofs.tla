-------------------------- MODULE CenturioNavProofs --------------------------
(***************************************************************************)
(* Theorems about CenturioNav, for every configuration of the control loop *)
(* and every set of commands.                                              *)
(***************************************************************************)
EXTENDS CenturioNav, WellFoundedInduction, TLAPS

\* CENTURIO_NAV_WrapDeg180 returns an angle of the half-turn range that is a
\* whole number of turns away from its argument.
LEMMA WrapRange ==
  ASSUME NEW a \in Int
  PROVE  WrapDeg180(a) \in Angle /\ (WrapDeg180(a) - a) % 360 = 0
  BY DEF WrapDeg180, Angle

\* CENTURIO_NAV_ClampF returns a value of the range, and the value itself when
\* it is in the range.
LEMMA ClampRange ==
  ASSUME NEW v \in Int, NEW lo \in Int, NEW hi \in Int, lo <= hi
  PROVE  /\ ClampF(v, lo, hi) \in lo..hi
         /\ v \in lo..hi => ClampF(v, lo, hi) = v
  BY DEF ClampF

\* CENTURIO_NAV_SlewToward stays in the half-turn range, and does not move an
\* angle that is where it should be.
LEMMA SlewRange ==
  ASSUME NEW c \in Int, NEW t \in Int
  PROVE  /\ SlewToward(c, t) \in Angle
         /\ c \in Angle /\ t = c => SlewToward(c, t) = c
<1>1. ClampF(WrapDeg180(t - c), -SlewStep, SlewStep) \in Int
  <2>1. WrapDeg180(t - c) \in Int
    BY WrapRange DEF Angle
  <2> QED BY <2>1, NavAssumption DEF ClampF
<1>2. SlewToward(c, t) \in Angle
  BY <1>1, WrapRange DEF SlewToward
<1>3. ASSUME c \in Angle, t = c PROVE SlewToward(c, t) = c
  <2>1. WrapDeg180(t - c) = 0
    BY <1>3 DEF WrapDeg180
  <2>2. ClampF(0, -SlewStep, SlewStep) = 0
    BY NavAssumption DEF ClampF
  <2> QED BY <1>3, <2>1, <2>2 DEF SlewToward, WrapDeg180, Angle
<1> QED BY <1>2, <1>3

\* Truncated division gives an integer no longer than its argument.
LEMMA QuotRange ==
  ASSUME NEW x \in Int, NEW d \in Nat \ {0}
  PROVE  Quot(x, d) \in Int /\ (x = 0 => Quot(x, d) = 0)
  BY DEF Quot

\* Every set of natural numbers that is not empty has a least element.
LEMMA LeastNat ==
  ASSUME NEW T \in SUBSET Nat, T # {}
  PROVE  \E r \in T : \A q \in T : r <= q
<1>1. PICK r \in T : \A q \in T : <<q, r>> \notin OpToRel(<, Nat)
  BY WFMin, NatLessThanWellFounded
<1>2. \A q \in T : ~(q < r)
  BY <1>1 DEF OpToRel
<1> QED BY <1>2

\* Squares order the natural numbers.
LEMMA SquareMono ==
  ASSUME NEW a \in Nat, NEW b \in Nat, a * a <= b * b PROVE a <= b
<1>1. SUFFICES ASSUME b + 1 <= a PROVE FALSE
  OBVIOUS
<1>2. (b + 1) * (b + 1) <= a * a
  <2>1. PICK k \in Nat : a = b + 1 + k
    BY <1>1
  <2>2. a * a = (b + 1) * (b + 1) + 2 * k * (b + 1) + k * k
    BY <2>1
  <2>3. k * (b + 1) \in Nat /\ k * k \in Nat
    OBVIOUS
  <2> QED BY <2>2, <2>3
<1>3. (b + 1) * (b + 1) = b * b + 2 * b + 1
  OBVIOUS
<1> QED BY <1>2, <1>3

\* The rounded-up length of a vector exists, is as long as each component and
\* at most one unit longer than the vector.
LEMMA LengthSpec ==
  ASSUME NEW v \in Vector
  PROVE  /\ Length(v) \in Nat
         /\ AllOf(LAMBDA x : Abs(x) <= Length(v), v)
         /\ Length(v) * Length(v) >= SqLength(v)
<1> DEFINE n == Abs(v.north)
           e == Abs(v.east)
           u == Abs(v.up)
           sum == n + e + u
<1>1. /\ n \in Nat /\ e \in Nat /\ u \in Nat
      /\ SqLength(v) = n * n + e * e + u * u
  BY DEF Vector, Abs, SqLength
<1>2. /\ Longest(v) \in {n, e, u}
      /\ Longest(v) >= n /\ Longest(v) >= e /\ Longest(v) >= u
  <2>1. \E r \in {n, e, u} : r >= n /\ r >= e /\ r >= u
    BY <1>1
  <2> QED BY <2>1 DEF Longest
<1>3. n * n \in Nat /\ e * e \in Nat /\ u * u \in Nat /\ n * e \in Nat /\ n * u \in Nat /\ e * u \in Nat
  BY <1>1
<1>4. sum \in Nat /\ sum * sum >= SqLength(v)
  <2>1. sum * sum = n * n + e * e + u * u + 2 * (n * e) + 2 * (n * u) + 2 * (e * u)
    BY <1>1
  <2> QED BY <1>1, <1>3, <2>1
<1> DEFINE T == {r \in Nat : r * r >= SqLength(v)}
<1>5. PICK r \in T : \A q \in T : r <= q
  BY <1>4, LeastNat
<1>6. r <= sum
  BY <1>4, <1>5
<1>7. Longest(v) * Longest(v) <= r * r
  BY <1>1, <1>2, <1>3, <1>5
<1>8. Longest(v) <= r
  BY <1>1, <1>2, <1>5, <1>7, SquareMono
<1>9. r > 0 => (r - 1) * (r - 1) < SqLength(v)
  <2>1. ASSUME r > 0, ~((r - 1) * (r - 1) < SqLength(v)) PROVE FALSE
    <3>1. r - 1 \in Nat /\ SqLength(v) \in Nat
      BY <2>1, <1>1, <1>3, <1>5
    <3>2. r - 1 \in T
      BY <2>1, <3>1
    <3> QED BY <1>5, <3>2, <3>1
  <2> QED BY <2>1
<1>10. \E q \in Longest(v)..sum : q * q >= SqLength(v) /\ (q > 0 => (q - 1) * (q - 1) < SqLength(v))
  BY <1>1, <1>2, <1>5, <1>6, <1>8, <1>9
<1>11. Length(v) \in Longest(v)..sum /\ Length(v) * Length(v) >= SqLength(v)
  BY <1>10 DEF Length
<1> QED BY <1>1, <1>2, <1>11 DEF AllOf

\* A share e/d of a speed s is no faster than s, if e is no longer than d.
LEMMA ShareBound ==
  ASSUME NEW e \in Int, NEW s \in Nat, NEW d \in Nat \ {0}, Abs(e) <= d
  PROVE  Quot(e * s, d) \in Int /\ Abs(Quot(e * s, d)) <= s
<1>1. ASSUME NEW a \in Nat, a <= d PROVE (a * s) \div d \in 0..s
  <2>1. a * s \in Nat /\ a * s <= d * s
    <3>1. PICK k \in Nat : d = a + k
      BY <1>1
    <3>2. d * s = a * s + k * s /\ k * s \in Nat /\ a * s \in Nat
      BY <3>1
    <3> QED BY <3>2
  <2>2. PICK q \in Nat : q = (a * s) \div d
    BY <2>1
  <2>3. q * d <= a * s
    BY <2>1, <2>2
  <2>4. q <= s
    <3>1. SUFFICES ASSUME s + 1 <= q PROVE FALSE
      BY <2>2
    <3>0. q - (s + 1) \in Nat /\ q = s + 1 + (q - (s + 1))
      BY <3>1
    <3>2. PICK j \in Nat : q = s + 1 + j
      BY <3>0
    <3>3. q * d = s * d + d + j * d /\ j * d \in Nat
      BY <3>2
    <3> QED BY <2>1, <2>3, <3>3
  <2> QED BY <2>2, <2>4
<1>2. CASE e >= 0
  <2>1. e * s \in Nat
    BY <1>2
  <2> QED BY <1>1, <1>2, <2>1 DEF Quot, Abs
<1>3. CASE e < 0
  <2>1. -e \in Nat /\ (-e) * s = -(e * s) /\ (-e) * s \in Nat
    BY <1>3
  <2>2. ((-e) * s) \div d \in 0..s
    BY <1>1, <1>3, <2>1 DEF Abs
  <2> QED BY <2>1, <2>2 DEF Quot, Abs
<1> QED BY <1>2, <1>3

(***************************************************************************)
(* The inductive invariant: StaysHome needs the targets nobody has         *)
(* commanded yet to be the ones CENTURIO_NAV_Init chose.                   *)
(***************************************************************************)
HomeTargets ==
  /\ "pos" \notin commanded => tgtPos = Home
  /\ "vel" \notin commanded => tgtVel = Zero
  /\ "att" \notin commanded => tgtAtt = Level

NavInv == TypeOK /\ AxisSpeedLimited /\ HomeTargets /\ StaysHome

\* The throttle never allows more than the speed limit.
LEMMA SpeedLimitRange == ASSUME TypeOK PROVE SpeedLimit \in 0..MaxSpeed
<1>1. throttle \in 0..100 /\ MaxSpeed \in Nat
  BY NavAssumption DEF TypeOK
<1>2. PICK k \in Nat : throttle + k = 100
  <2>1. 100 - throttle \in Nat /\ throttle + (100 - throttle) = 100
    BY <1>1
  <2> QED BY <2>1
<1>3. MaxSpeed * throttle \in Nat /\ MaxSpeed * k \in Nat /\ MaxSpeed * throttle + MaxSpeed * k = 100 * MaxSpeed
  BY <1>1, <1>2
<1> QED BY <1>1, <1>3 DEF SpeedLimit

\* In a guidance cycle no axis gets more than the speed the throttle allows.
LEMMA GuidanceVelBound ==
  ASSUME TypeOK, NEW err \in Vector, Flying(err)
  PROVE  /\ GuidanceVel(err, Length(err)) \in Vector
         /\ AllOf(LAMBDA v : Abs(v) <= SpeedLimit, GuidanceVel(err, Length(err)))
<1> DEFINE d == Length(err)
           s == ClampF(d \div GainDiv, 0, SpeedLimit)
<1>1. d \in Nat /\ AllOf(LAMBDA x : Abs(x) <= d, err) /\ d * d >= SqLength(err)
  BY LengthSpec
<1>2. d # 0
  <2>1. SqLength(err) > 0
    <3>1. Arrival * Arrival \in Nat
      BY NavAssumption
    <3>2. SqLength(err) \in Int
      BY DEF SqLength, Vector
    <3> QED BY <3>1, <3>2 DEF Flying
  <2>2. SqLength(err) \in Int
    BY DEF SqLength, Vector
  <2>3. d = 0 => d * d = 0
    OBVIOUS
  <2> HIDE DEF d
  <2> QED BY <1>1, <2>1, <2>2, <2>3
<1>3. s \in Nat /\ s <= SpeedLimit
  <2>1. d \div GainDiv \in Nat
    BY <1>1, NavAssumption
  <2> HIDE DEF d
  <2> QED BY <2>1, SpeedLimitRange, NavAssumption DEF ClampF
<1>4. err.north \in Int /\ err.east \in Int /\ err.up \in Int
  BY DEF Vector
<1>5. GuidanceVel(err, d) = [north |-> Quot(err.north * s, d), east |-> Quot(err.east * s, d),
                             up |-> Quot(err.up * s, d)]
  BY DEF GuidanceVel, Each
<1> HIDE DEF s, d
<1>6. /\ Quot(err.north * s, d) \in Int /\ Abs(Quot(err.north * s, d)) <= s
      /\ Quot(err.east * s, d) \in Int /\ Abs(Quot(err.east * s, d)) <= s
      /\ Quot(err.up * s, d) \in Int /\ Abs(Quot(err.up * s, d)) <= s
  BY <1>1, <1>2, <1>3, <1>4, ShareBound DEF AllOf
<1>7. GuidanceVel(err, d) \in Vector /\ AllOf(LAMBDA v : Abs(v) <= SpeedLimit, GuidanceVel(err, d))
  <2>1. \A x \in Int : Abs(x) \in Nat
    BY DEF Abs
  <2>2. SpeedLimit \in Int
    BY SpeedLimitRange, NavAssumption
  <2> QED BY <1>3, <1>5, <1>6, <2>1, <2>2 DEF Vector, AllOf
<1> QED BY <1>7 DEF d

\* A control cycle keeps the types and the speed limit.
LEMMA WakeupSafe ==
  ASSUME NavInv, Wakeup PROVE TypeOK' /\ AxisSpeedLimited'
<1> USE NavAssumption DEF NavInv
<1>1. Minus(tgtPos, pos) \in Vector
  BY DEF TypeOK, Vector, Minus
<1>2. SpeedLimit \in 0..MaxSpeed
  BY SpeedLimitRange
<1>3. vel' \in Vector /\ AxisSpeedLimited'
  <2>1. vel' = Zero => vel' \in Vector /\ AxisSpeedLimited'
    BY DEF Zero, Vector, AxisSpeedLimited, AllOf, Abs
  <2>2. CASE Guidance
    <3>1. CASE Flying(Minus(tgtPos, pos))
      <4>1. vel' = GuidanceVel(Minus(tgtPos, pos), Length(Minus(tgtPos, pos)))
        BY <2>2, <3>1 DEF Guidance
      <4>2. vel' \in Vector /\ AllOf(LAMBDA v : Abs(v) <= SpeedLimit, vel')
        BY <1>1, <3>1, <4>1, GuidanceVelBound
      <4> QED BY <1>2, <4>2 DEF AxisSpeedLimited, AllOf, Vector, Abs
    <3>2. CASE ~Flying(Minus(tgtPos, pos))
      BY <2>1, <2>2, <3>2 DEF Guidance
    <3> QED BY <3>1, <3>2
  <2>3. CASE Manual
    BY <2>3 DEF Manual, Each, ClampF, Vector, TypeOK, AxisSpeedLimited, AllOf, Abs
  <2>4. CASE HoldPosition
    BY <2>1, <2>4 DEF HoldPosition
  <2> QED BY <2>2, <2>3, <2>4 DEF Wakeup
<1>4. pos' \in [north : Int, east : Int, up : Nat]
  <2>1. /\ Quot(vel'.north, Rate) \in Int
        /\ Quot(vel'.east, Rate) \in Int
        /\ Quot(vel'.up, Rate) \in Int
    BY <1>3, QuotRange DEF Vector
  <2>2. pos' = Integrate(vel')
    BY DEF Wakeup
  <2> QED BY <2>1, <2>2 DEF Integrate, TypeOK
<1>5. att' \in [yaw : Angle, pitch : Angle, roll : Angle]
  <2>1. /\ att.yaw \in Angle /\ att.pitch \in Angle /\ att.roll \in Angle
        /\ tgtAtt.yaw \in Int /\ tgtAtt.pitch \in Int /\ tgtAtt.roll \in Int
    BY DEF TypeOK, Attitude
  <2>2. ASSUME NEW c \in Angle, NEW t \in Int PROVE SlewToward(c, t) \in Angle
    <3>1. c \in Int
      BY DEF Angle
    <3> QED BY <3>1, SlewRange
  <2>3. Heading(Minus(tgtPos, pos)) \in Int
    BY <1>1 DEF Heading
  <2>4. GuidanceYaw(Minus(tgtPos, pos)) \in Angle
    BY <2>1, <2>2, <2>3 DEF GuidanceYaw
  <2>5. \A y \in Angle : SlewPitchRoll(y) \in [yaw : Angle, pitch : Angle, roll : Angle]
    BY <2>1, <2>2 DEF SlewPitchRoll
  <2>6. CASE Guidance
    BY <2>4, <2>5, <2>6 DEF Guidance
  <2>7. CASE Manual
    BY <2>1, <2>2, <2>5, <2>7 DEF Manual
  <2>8. CASE HoldPosition
    BY <2>8 DEF HoldPosition, TypeOK
  <2> QED BY <2>6, <2>7, <2>8 DEF Wakeup
<1> QED BY <1>3, <1>4, <1>5 DEF Wakeup, TypeOK, tgtVars

\* A control cycle does not move a vehicle that nobody has commanded.
LEMMA WakeupStays ==
  ASSUME NavInv, Wakeup PROVE HomeTargets' /\ StaysHome'
<1> USE NavAssumption DEF NavInv
<1>1. HomeTargets'
  BY DEF Wakeup, HomeTargets, tgtVars
<1>2. ASSUME commanded \cap {"pos", "vel"} = {} PROVE pos' = Home /\ vel' = Zero
  <2>1. pos = Home /\ tgtPos = Home /\ tgtVel = Zero
    BY <1>2 DEF HomeTargets, StaysHome
  <2>2. ~Flying(Minus(tgtPos, pos))
    <3>1. SqLength(Minus(tgtPos, pos)) = 0
      BY <2>1 DEF Home, Minus, SqLength
    <3>2. Arrival * Arrival \in Nat
      OBVIOUS
    <3> QED BY <3>1, <3>2 DEF Flying
  <2>3. vel' = Zero
    <3>1. CASE Manual
      BY <2>1, <3>1 DEF Manual, Each, ClampF, Zero
    <3> QED BY <2>2, <3>1 DEF Wakeup, Guidance, HoldPosition
  <2>4. pos' = Home
    <3>1. Quot(0, Rate) = 0
      BY QuotRange
    <3>2. pos' = Integrate(vel')
      BY DEF Wakeup
    <3> QED BY <2>1, <2>3, <3>1, <3>2 DEF Integrate, Home, Zero
  <2> QED BY <2>3, <2>4
<1>3. ASSUME commanded \cap {"pos", "vel"} = {}, "att" \notin commanded PROVE att' = Level
  <2>1. pos = Home /\ tgtPos = Home /\ att = Level /\ tgtAtt = Level
    BY <1>3 DEF HomeTargets, StaysHome
  <2>2. ~Flying(Minus(tgtPos, pos))
    <3>1. SqLength(Minus(tgtPos, pos)) = 0
      BY <2>1 DEF Home, Minus, SqLength
    <3>2. Arrival * Arrival \in Nat
      OBVIOUS
    <3> QED BY <3>1, <3>2 DEF Flying
  <2>3. SlewToward(0, 0) = 0
    BY SlewRange DEF Angle
  <2>4. SlewPitchRoll(SlewToward(att.yaw, tgtAtt.yaw)) = Level
    BY <2>1, <2>3 DEF SlewPitchRoll, Level
  <2>5. GuidanceYaw(Minus(tgtPos, pos)) = SlewToward(att.yaw, tgtAtt.yaw)
    BY <2>2 DEF GuidanceYaw
  <2> QED BY <2>1, <2>4, <2>5 DEF Wakeup, Guidance, Manual, HoldPosition
<1>4. StaysHome'
  BY <1>2, <1>3 DEF Wakeup, StaysHome
<1> QED BY <1>1, <1>4

\* The other messages.
LEMMA MessageSafe ==
  ASSUME NavInv, SendHk \/ Command \/ PipeReadError \/ UNCHANGED vars PROVE NavInv'
<1> USE NavAssumption DEF NavInv
<1>c. Bump(cmdCounter) \in 0..(CounterSize - 1) /\ Bump(errCounter) \in 0..(CounterSize - 1)
  BY DEF Bump, TypeOK
<1>1. CASE SendHk \/ PipeReadError \/ UNCHANGED vars
  <2>1. TypeOK'
    <3>1. CASE SendHk
      BY <3>1 DEF SendHk, TypeOK, navVars, tgtVars
    <3>2. CASE PipeReadError
      BY <3>2 DEF PipeReadError, TypeOK, navVars, tgtVars
    <3>3. CASE UNCHANGED vars
      BY <3>3 DEF TypeOK, vars, navVars, tgtVars
    <3> QED BY <1>1, <3>1, <3>2, <3>3
  <2>2. AxisSpeedLimited'
    BY <1>1 DEF SendHk, PipeReadError, AxisSpeedLimited, AllOf, vars, navVars
  <2>3. HomeTargets' /\ StaysHome'
    BY <1>1 DEF SendHk, PipeReadError, HomeTargets, StaysHome, vars, navVars, tgtVars
  <2> QED BY <2>1, <2>2, <2>3
<1>2. CASE Noop \/ ResetCounters \/ RejectCmd
  <2>1. TypeOK'
    <3>1. CASE Noop
      BY <3>1, <1>c DEF Noop, Accept, Receive, TypeOK, navVars, tgtVars
    <3>2. CASE ResetCounters
      BY <3>2 DEF ResetCounters, Receive, TypeOK, navVars, tgtVars
    <3>3. CASE RejectCmd
      BY <3>3, <1>c DEF RejectCmd, Receive, TypeOK, navVars, tgtVars
    <3> QED BY <1>2, <3>1, <3>2, <3>3
  <2>2. AxisSpeedLimited'
    BY <1>2 DEF Noop, ResetCounters, RejectCmd, AxisSpeedLimited, AllOf, navVars
  <2>3. HomeTargets' /\ StaysHome'
    BY <1>2 DEF Noop, ResetCounters, RejectCmd, HomeTargets, StaysHome, navVars, tgtVars
  <2> QED BY <2>1, <2>2, <2>3
<1>3. ASSUME NEW m \in Modes, SetMode(m) PROVE NavInv'
  <2>1. TypeOK'
    BY <1>c, <1>3 DEF SetMode, Accept, Receive, TypeOK, tgtVars
  <2>2. AxisSpeedLimited'
    BY <1>3 DEF SetMode, AxisSpeedLimited, AllOf
  <2>3. HomeTargets' /\ StaysHome'
    BY <1>3 DEF SetMode, HomeTargets, StaysHome, tgtVars
  <2> QED BY <2>1, <2>2, <2>3
<1>4. ASSUME NEW pct \in Throttles, SetThrottle(pct) PROVE NavInv'
  <2>1. ClampF(pct, 0, 100) \in 0..100
    BY DEF ClampF
  <2>2. TypeOK'
    BY <1>c, <1>4, <2>1 DEF SetThrottle, Accept, Receive, TypeOK, tgtVars
  <2>3. AxisSpeedLimited'
    BY <1>4 DEF SetThrottle, AxisSpeedLimited, AllOf
  <2>4. HomeTargets' /\ StaysHome'
    BY <1>4 DEF SetThrottle, HomeTargets, StaysHome, tgtVars
  <2> QED BY <2>2, <2>3, <2>4
<1>5. ASSUME \/ \E q \in Positions : SetTargetPos(q)
             \/ \E v \in Velocities : SetTargetVel(v)
             \/ \E a \in Attitudes : SetTargetAtt(a)
      PROVE NavInv'
  <2>1. TypeOK'
    <3>1. ASSUME NEW q \in Positions, SetTargetPos(q) PROVE TypeOK'
      BY <3>1, <1>c DEF SetTargetPos, Accept, Receive, TypeOK, navVars
    <3>2. ASSUME NEW v \in Velocities, SetTargetVel(v) PROVE TypeOK'
      BY <3>2, <1>c DEF SetTargetVel, Accept, Receive, TypeOK, navVars
    <3>3. ASSUME NEW a \in Attitudes, SetTargetAtt(a) PROVE TypeOK'
      BY <3>3, <1>c DEF SetTargetAtt, Accept, Receive, TypeOK, navVars
    <3> QED BY <1>5, <3>1, <3>2, <3>3
  <2>2. AxisSpeedLimited'
    BY <1>5 DEF SetTargetPos, SetTargetVel, SetTargetAtt, AxisSpeedLimited, AllOf, navVars
  <2>3. HomeTargets'
    BY <1>5 DEF SetTargetPos, SetTargetVel, SetTargetAtt, HomeTargets
  <2>4. StaysHome'
    BY <1>5 DEF SetTargetPos, SetTargetVel, SetTargetAtt, StaysHome, navVars
  <2> QED BY <2>1, <2>2, <2>3, <2>4
<1> QED BY <1>1, <1>2, <1>3, <1>4, <1>5 DEF Command

\* The invariant holds initially and in every step.
LEMMA NavInductive == (Init => NavInv) /\ (NavInv /\ [Next]_vars => NavInv')
<1>1. Init => NavInv
  <2> SUFFICES ASSUME Init PROVE NavInv
    OBVIOUS
  <2> USE NavAssumption DEF Init
  <2>1. TypeOK
    BY DEF TypeOK, Home, Zero, Level, Vector, Attitude, Angle, SAFE
  <2>2. AxisSpeedLimited
    BY DEF AxisSpeedLimited, AllOf, Zero, Abs
  <2>3. HomeTargets /\ StaysHome
    BY DEF HomeTargets, StaysHome
  <2> QED BY <2>1, <2>2, <2>3 DEF NavInv
<1>2. NavInv /\ [Next]_vars => NavInv'
  BY WakeupSafe, WakeupStays, MessageSafe DEF Next, NavInv
<1> QED BY <1>1, <1>2

\* Whatever the ground sends, the throttle stays a percentage, the vehicle
\* stays above ground and its angles in the half-turn range.
THEOREM NavTypeCorrect == Spec => []TypeOK
  BY NavInductive, PTL DEF Spec, NavInv

\* No axis is ever faster than CENTURIO_NAV_MAX_SPEED_MS, in GUIDANCE at any
\* throttle as in MANUAL at any commanded velocity.
THEOREM SpeedLimited == Spec => []AxisSpeedLimited
  BY NavInductive, PTL DEF Spec, NavInv

\* Nothing moves until a position or a velocity is commanded.
THEOREM NothingMovesUntilCommanded == Spec => []StaysHome
  BY NavInductive, PTL DEF Spec, NavInv

(***************************************************************************)
(* Turning.                                                                *)
(***************************************************************************)
\* An angle less than half a turn from a multiple of a turn is wrapped to it.
LEMMA WrapUnique ==
  ASSUME NEW a \in Int, NEW b \in -179..179, (a - b) % 360 = 0
  PROVE  WrapDeg180(a) = b
<1>1. PICK k \in Int : a = b + 360 * k
  BY WrapRange
<1> QED BY <1>1 DEF WrapDeg180

\* CENTURIO_NAV_SlewToward turns by c, a slew step at most, the short way.
LEMMA SlewTurns ==
  ASSUME NEW a \in Angle, NEW t \in Int
  PROVE  LET n == SlewToward(a, t)
         IN  /\ Turn(n, a) <= SlewStep
             /\ Turn(t, n) < Turn(t, a) \/ Turn(t, n) = 0
<1> DEFINE w == WrapDeg180(t - a)
           c == ClampF(w, -SlewStep, SlewStep)
           n == SlewToward(a, t)
<1>0. a \in Int /\ SlewStep \in 1..179
  BY NavAssumption DEF Angle
<1>1. w \in -180..180 /\ (w - (t - a)) % 360 = 0
  BY <1>0, WrapRange DEF Angle
<1> HIDE DEF w
<1>2. /\ c \in -SlewStep..SlewStep /\ c \in -179..179
      /\ IF w = 0 THEN c = 0 ELSE Abs(w - c) < Abs(w)
      /\ w - c \in -179..179
  BY <1>0, <1>1 DEF ClampF, Abs
<1> HIDE DEF c
<1>3. n \in Int /\ (n - (a + c)) % 360 = 0
  <2>1. n = WrapDeg180(a + c)
    BY DEF SlewToward, c, w
  <2>2. a + c \in Int
    BY <1>0, <1>2
  <2>3. WrapDeg180(a + c) \in Angle /\ (WrapDeg180(a + c) - (a + c)) % 360 = 0
    BY <2>2, WrapRange
  <2> QED BY <2>1, <2>3 DEF Angle
<1> HIDE DEF n
<1>4. WrapDeg180(n - a) = c
  <2>1. n - a \in Int /\ ((n - a) - c) % 360 = 0
    BY <1>0, <1>2, <1>3
  <2> QED BY <1>2, <2>1, WrapUnique
<1>5. WrapDeg180(t - n) = w - c
  <2>1. t - n \in Int /\ ((t - n) - (w - c)) % 360 = 0
    BY <1>0, <1>1, <1>2, <1>3
  <2> QED BY <1>2, <2>1, WrapUnique
<1>6. Turn(n, a) = Abs(c) /\ Turn(t, n) = Abs(w - c) /\ Turn(t, a) = Abs(w)
  BY <1>4, <1>5 DEF Turn, w
<1>7. Abs(c) <= SlewStep /\ (Abs(w - c) < Abs(w) \/ Abs(w - c) = 0)
  BY <1>0, <1>1, <1>2 DEF Abs
<1> QED BY <1>6, <1>7 DEF n

\* No angle turns by more than a slew step in a cycle, and pitch and roll turn
\* the short way until they are where they are commanded to be: the distances
\* are taken round the circle, across the half turn where the angles wrap.
THEOREM TurnsAreShort == Spec => TurnsShortWay
<1> DEFINE Short ==
      Wakeup =>
       /\ \A i \in {"yaw", "pitch", "roll"} : Turn(att'[i], att[i]) <= SlewStep
       /\ \A i \in {"pitch", "roll"} :
            mode \in {GUIDANCE, MANUAL} =>
              \/ Turn(tgtAtt[i], att'[i]) < Turn(tgtAtt[i], att[i])
              \/ Turn(tgtAtt[i], att'[i]) = 0
<1>1. ASSUME NavInv, Wakeup PROVE Short
  <2>1. /\ att.yaw \in Angle /\ att.pitch \in Angle /\ att.roll \in Angle
        /\ tgtAtt.yaw \in Int /\ tgtAtt.pitch \in Int /\ tgtAtt.roll \in Int
    BY <1>1 DEF NavInv, TypeOK, Attitude
  <2>2. Heading(Minus(tgtPos, pos)) \in Int
    BY <1>1 DEF NavInv, TypeOK, Vector, Minus, Heading
  <2>3. ASSUME NEW a \in Angle PROVE Turn(a, a) <= SlewStep
    BY NavAssumption DEF Turn, WrapDeg180, Abs, Angle
  <2>4. CASE HoldPosition
    <3>1. att' = att /\ mode \notin {GUIDANCE, MANUAL}
      BY <2>4 DEF HoldPosition
    <3> QED BY <2>1, <2>3, <3>1
  <2>5. CASE Guidance \/ Manual
    <3>1. PICK y : /\ att' = SlewPitchRoll(y)
                   /\ \/ \E t \in Int : y = SlewToward(att.yaw, t)
                      \/ y = att.yaw
      BY <2>1, <2>2, <2>5 DEF Guidance, Manual, GuidanceYaw
    <3>2. /\ att'.yaw = y /\ att'.pitch = SlewToward(att.pitch, tgtAtt.pitch)
          /\ att'.roll = SlewToward(att.roll, tgtAtt.roll)
      BY <3>1 DEF SlewPitchRoll
    <3>3. Turn(y, att.yaw) <= SlewStep
      BY <2>1, <2>3, <3>1, SlewTurns
    <3>4. /\ Turn(SlewToward(att.pitch, tgtAtt.pitch), att.pitch) <= SlewStep
          /\ \/ Turn(tgtAtt.pitch, SlewToward(att.pitch, tgtAtt.pitch)) < Turn(tgtAtt.pitch, att.pitch)
             \/ Turn(tgtAtt.pitch, SlewToward(att.pitch, tgtAtt.pitch)) = 0
      BY <2>1, SlewTurns
    <3>5. /\ Turn(SlewToward(att.roll, tgtAtt.roll), att.roll) <= SlewStep
          /\ \/ Turn(tgtAtt.roll, SlewToward(att.roll, tgtAtt.roll)) < Turn(tgtAtt.roll, att.roll)
             \/ Turn(tgtAtt.roll, SlewToward(att.roll, tgtAtt.roll)) = 0
      BY <2>1, SlewTurns
    <3> QED BY <3>2, <3>3, <3>4, <3>5
  <2> QED BY <1>1, <2>4, <2>5 DEF Wakeup
<1>2. NavInv => [Short]_vars
  BY <1>1
<1> HIDE DEF Short
<1>3. Spec => [][Short]_vars
  BY <1>2, NavInductive, PTL DEF Spec
<1> QED BY <1>3 DEF TurnsShortWay, Short

(***************************************************************************)
(* Approach.                                                               *)
(***************************************************************************)
\* A share of an error, and a part of that, is no longer than the error and
\* has its sign.
LEMMA ShareToward ==
  ASSUME NEW e \in Int, NEW s \in Nat, NEW d \in Nat \ {0}, s <= d, NEW r \in Nat \ {0}
  PROVE  LET q == Quot(Quot(e * s, d), r)
         IN  IF e >= 0 THEN q \in 0..e ELSE q \in e..0
<1>1. ASSUME NEW a \in Nat
      PROVE  (a * s) \div d \in 0..a /\ ((a * s) \div d) \div r \in 0..a
  <2>1. a * s \in Nat /\ a * d \in Nat /\ a * s <= a * d
    <3>1. d - s \in Nat
      OBVIOUS
    <3>2. PICK k \in Nat : d = s + k
      BY <3>1
    <3>3. a * d = a * s + a * k /\ a * k \in Nat /\ a * s \in Nat
      BY <3>2
    <3> QED BY <3>3
  <2>2. PICK q \in Nat : q = (a * s) \div d
    BY <2>1
  <2>3. q * d <= a * s
    BY <2>1, <2>2
  <2>4. q <= a
    <3>1. SUFFICES ASSUME a + 1 <= q PROVE FALSE
      BY <2>2
    <3>2. q - (a + 1) \in Nat /\ q = a + 1 + (q - (a + 1))
      BY <3>1
    <3>3. PICK j \in Nat : q = a + 1 + j
      BY <3>2
    <3>4. q * d = a * d + d + j * d /\ j * d \in Nat
      BY <3>3
    <3> QED BY <2>1, <2>3, <3>4
  <2>5. q \div r \in Nat /\ (q \div r) <= q
    <3>1. PICK p \in Nat : p = q \div r
      OBVIOUS
    <3>2. p * r <= q /\ p * r >= p
      <4>1. p * r <= q
        BY <3>1
      <4>2. r - 1 \in Nat
        OBVIOUS
      <4>3. PICK m \in Nat : r = 1 + m
        BY <4>2
      <4>4. p * r = p + p * m /\ p * m \in Nat
        BY <4>3
      <4> QED BY <4>1, <4>4
    <3> QED BY <3>1, <3>2
  <2> QED BY <2>2, <2>4, <2>5
<1>2. CASE e >= 0
  <2>1. e \in Nat /\ e * s \in Nat
    BY <1>2
  <2>2. Quot(e * s, d) = (e * s) \div d /\ (e * s) \div d \in 0..e
    BY <1>1, <2>1 DEF Quot
  <2>3. Quot(Quot(e * s, d), r) = ((e * s) \div d) \div r
    BY <2>2 DEF Quot
  <2> QED BY <1>1, <1>2, <2>1, <2>3
<1>3. CASE e < 0
  <2> DEFINE a == -e
  <2>1. a \in Nat /\ a * s = -(e * s) /\ a * s \in Nat /\ e * s \in Int
    BY <1>3
  <2>2. (a * s) \div d \in 0..a /\ ((a * s) \div d) \div r \in 0..a
    BY <1>1, <2>1
  <2>3. Quot(e * s, d) = -((a * s) \div d)
    <3>1. CASE e * s < 0
      BY <2>1, <3>1 DEF Quot
    <3>2. CASE e * s = 0
      BY <2>1, <3>2 DEF Quot
    <3> QED BY <2>1, <3>1, <3>2
  <2>4. PICK q \in 0..a : q = (a * s) \div d
    BY <2>2
  <2>5. Quot(-q, r) = -(q \div r)
    <3>1. q = 0 => q \div r = 0
      OBVIOUS
    <3> QED BY <2>1, <2>4, <3>1 DEF Quot
  <2>6. Quot(Quot(e * s, d), r) = -(q \div r) /\ q \div r \in 0..a
    BY <2>2, <2>3, <2>4, <2>5
  <2> QED BY <1>3, <2>1, <2>6
<1> QED BY <1>2, <1>3

\* What a flying vehicle covers on an axis in one guidance cycle.
Covers(e, q) == IF e >= 0 THEN q \in 0..e ELSE q \in e..0

\* On every axis a guidance cycle covers a part of the error.
LEMMA GuidanceCovers ==
  ASSUME TypeOK, NEW err \in Vector, Flying(err)
  PROVE  LET v == GuidanceVel(err, Length(err))
         IN  /\ Covers(err.north, Quot(v.north, Rate))
             /\ Covers(err.east, Quot(v.east, Rate))
             /\ Covers(err.up, Quot(v.up, Rate))
<1> DEFINE d == Length(err)
           s == ClampF(d \div GainDiv, 0, SpeedLimit)
<1>1. d \in Nat /\ d * d >= SqLength(err)
  BY LengthSpec
<1>2. d # 0
  <2>1. SqLength(err) \in Int
    BY DEF SqLength, Vector
  <2>2. SqLength(err) > 0
    <3>1. Arrival * Arrival \in Nat
      BY NavAssumption
    <3> QED BY <2>1, <3>1 DEF Flying
  <2>3. d = 0 => d * d = 0
    OBVIOUS
  <2> HIDE DEF d
  <2> QED BY <1>1, <2>1, <2>2, <2>3
<1>3. s \in Nat /\ s <= d
  <2> HIDE DEF d
  <2>1. PICK q \in Nat : q = d \div GainDiv
    BY <1>1, NavAssumption
  <2>2. q <= d
    <3>1. q * GainDiv <= d
      BY <1>1, <2>1, NavAssumption
    <3>2. GainDiv - 1 \in Nat
      BY NavAssumption
    <3>3. PICK m \in Nat : GainDiv = 1 + m
      BY <3>2, NavAssumption
    <3>4. q * GainDiv = q + q * m /\ q * m \in Nat
      BY <3>3
    <3> QED BY <1>1, <3>1, <3>4
  <2> QED BY <1>1, <2>1, <2>2, SpeedLimitRange, NavAssumption DEF ClampF
<1>4. err.north \in Int /\ err.east \in Int /\ err.up \in Int
  BY DEF Vector
<1>5. GuidanceVel(err, d) = [north |-> Quot(err.north * s, d), east |-> Quot(err.east * s, d),
                             up |-> Quot(err.up * s, d)]
  BY DEF GuidanceVel, Each
<1> HIDE DEF s, d
<1>6. ASSUME NEW e \in Int PROVE Covers(e, Quot(Quot(e * s, d), Rate))
  BY <1>1, <1>2, <1>3, ShareToward, NavAssumption DEF Covers
<1>7. /\ Covers(err.north, Quot(GuidanceVel(err, d).north, Rate))
      /\ Covers(err.east, Quot(GuidanceVel(err, d).east, Rate))
      /\ Covers(err.up, Quot(GuidanceVel(err, d).up, Rate))
  BY <1>4, <1>5, <1>6
<1> QED BY <1>7 DEF d

\* A guidance cycle brings the vehicle nearer its target on every axis and
\* never past it, whatever the gain, the control rate, the throttle and the
\* speed limit are; a target under ground is approached down to the ground.
THEOREM NeverOvershoots == Spec => NoOvershoot
<1> DEFINE Nearer ==
      (Wakeup /\ mode = GUIDANCE) =>
        \A i \in {"north", "east", "up"} :
          LET err == tgtPos[i] - pos[i]  errN == tgtPos[i] - pos'[i]
          IN IF err >= 0 THEN errN \in 0..err ELSE errN \in err..0
<1>1. ASSUME NavInv, Wakeup, mode = GUIDANCE PROVE Nearer
  <2> DEFINE err == Minus(tgtPos, pos)
  <2>1. /\ pos.north \in Int /\ pos.east \in Int /\ pos.up \in Nat
        /\ tgtPos.north \in Int /\ tgtPos.east \in Int /\ tgtPos.up \in Int
    BY <1>1 DEF NavInv, TypeOK, Vector
  <2>2. /\ err \in Vector
        /\ err.north = tgtPos.north - pos.north
        /\ err.east = tgtPos.east - pos.east
        /\ err.up = tgtPos.up - pos.up
    BY <2>1 DEF Minus, Vector
  <2>3. Guidance /\ pos' = Integrate(vel')
    BY <1>1 DEF Wakeup, Manual, HoldPosition, GUIDANCE, MANUAL
  <2>4. /\ Covers(err.north, Quot(vel'.north, Rate))
        /\ Covers(err.east, Quot(vel'.east, Rate))
        /\ Covers(err.up, Quot(vel'.up, Rate))
    <3>1. CASE Flying(err)
      <4>1. vel' = GuidanceVel(err, Length(err))
        BY <2>3, <3>1 DEF Guidance
      <4> HIDE DEF err
      <4> QED BY <1>1, <2>2, <3>1, <4>1, GuidanceCovers DEF NavInv
    <3>2. CASE ~Flying(err)
      <4>1. vel'.north = 0 /\ vel'.east = 0 /\ vel'.up = 0
        BY <2>3, <3>2 DEF Guidance, Zero
      <4>2. Quot(0, Rate) = 0
        BY QuotRange, NavAssumption
      <4> HIDE DEF err
      <4> QED BY <2>1, <2>2, <4>1, <4>2 DEF Covers
    <3> QED BY <3>1, <3>2
  <2> HIDE DEF err
  <2>5. /\ pos'.north = pos.north + Quot(vel'.north, Rate)
        /\ pos'.east = pos.east + Quot(vel'.east, Rate)
        /\ pos'.up = IF pos.up + Quot(vel'.up, Rate) < 0 THEN 0
                     ELSE pos.up + Quot(vel'.up, Rate)
    BY <2>3 DEF Integrate
  <2>6. ASSUME NEW t \in Int, NEW p \in Int, NEW q, Covers(t - p, q)
        PROVE  /\ q \in Int
               /\ IF t - p >= 0 THEN t - (p + q) \in 0..(t - p) ELSE t - (p + q) \in (t - p)..0
    BY <2>6 DEF Covers
  <2>7. LET e == tgtPos.up - pos.up  eN == tgtPos.up - pos'.up
        IN  IF e >= 0 THEN eN \in 0..e ELSE eN \in e..0
    BY <2>1, <2>2, <2>4, <2>5 DEF Covers
  <2>8. LET e == tgtPos.north - pos.north  eN == tgtPos.north - pos'.north
        IN  IF e >= 0 THEN eN \in 0..e ELSE eN \in e..0
    BY <2>1, <2>2, <2>4, <2>5, <2>6
  <2>9. LET e == tgtPos.east - pos.east  eN == tgtPos.east - pos'.east
        IN  IF e >= 0 THEN eN \in 0..e ELSE eN \in e..0
    BY <2>1, <2>2, <2>4, <2>5, <2>6
  <2> QED BY <2>7, <2>8, <2>9
<1>2. NavInv => [Nearer]_vars
  BY <1>1
<1> HIDE DEF Nearer
<1>3. Spec => [][Nearer]_vars
  BY <1>2, NavInductive, PTL DEF Spec
<1> QED BY <1>3 DEF NoOvershoot, Nearer
=============================================================================
