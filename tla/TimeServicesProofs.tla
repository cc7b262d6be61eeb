------------------------- MODULE TimeServicesProofs --------------------------
(***************************************************************************)
(* Proofs about TimeServices: types, that the local clock never wraps      *)
(* around the time latched at the tone, that a commanded flywheel runs     *)
(* free of the tones, and how far a tone can move the MET.                 *)
(***************************************************************************)
EXTENDS TimeServices, TLAPS

(***************************************************************************)
(* Arithmetic of clocks that roll over.                                    *)
(***************************************************************************)
\* A remainder is in range, and the remainder of a small number is itself.
LEMMA ModRange ==
    ASSUME NEW x \in Int, NEW n \in Nat \ {0}
    PROVE  /\ x % n \in 0 .. n - 1
           /\ x \in 0 .. n - 1 => x % n = x
           /\ x \in -n .. -1 => x % n = x + n
           /\ x \in n .. 2 * n - 1 => x % n = x - n
    BY Z3

\* What is left over after whole multiples is the remainder.
LEMMA ModIs ==
    ASSUME NEW n \in Nat \ {0}, NEW q \in Int, NEW r \in 0 .. n - 1
    PROVE  (n * q + r) % n = r
    OBVIOUS

\* Counting on by one adds one to a remainder or sets it to zero.
LEMMA ModNext ==
    ASSUME NEW x \in Int, NEW n \in Nat \ {0}
    PROVE  \/ (x + 1) % n = 0 /\ x % n = n - 1
           \/ (x + 1) % n = (x % n) + 1
<1>1. PICK q \in Int, r \in 0 .. n - 1 : r = x % n /\ x = n * q + r
    OBVIOUS
<1>2. CASE r < n - 1
    <2>1. x + 1 = n * q + (r + 1) /\ r + 1 \in 0 .. n - 1
        BY <1>1, <1>2
    <2>2. (x + 1) % n = r + 1
        BY <2>1, ModIs
    <2> QED BY <1>1, <2>2
<1>3. CASE r = n - 1
    <2>1. x + 1 = n * (q + 1) + 0
        BY <1>1, <1>3
    <2>2. (x + 1) % n = 0
        <3>1. q + 1 \in Int /\ 0 \in 0 .. n - 1
            OBVIOUS
        <3> QED BY <2>1, <3>1, ModIs
    <2> QED BY <1>1, <1>3, <2>2
<1> QED BY <1>2, <1>3

\* The clocks as the assumption on the constants has them.
LEMMA ClockFacts ==
    /\ Res \in Nat \ {0} /\ Wrap \in Nat \ {0} /\ MetWrap \in Nat \ {0}
    /\ StartFly \in Nat \ {0} /\ LatchFly \in Nat \ {0} /\ PipeDepth \in Nat \ {0}
    /\ MaxLate \in Nat /\ MaxCmds \in Nat /\ MetWrap * Res \in Nat \ {0}
    /\ METs = 0 .. MetWrap * Res - 1 /\ NewMETs \subseteq METs
<1>1. \A a, b \in Nat \ {0} : a * b \in Nat \ {0}
    OBVIOUS
<1> QED BY <1>1, TimeAssumption DEF METs

\* The time since a latch: an advance of the clock adds one to it until the
\* clock comes round to the latch again.
LEMMA ElapsedTick ==
    ASSUME NEW l \in Units, NEW c \in Units
    PROVE  /\ Elapsed(l, c) \in Units /\ Elapsed(c, c) = 0
           /\ (c + 1) % Wrap \in Units
           /\ Elapsed(l, c) + 1 < Wrap => Elapsed(l, (c + 1) % Wrap) = Elapsed(l, c) + 1
<1>1. Wrap \in Nat \ {0} /\ l \in 0 .. Wrap - 1 /\ c \in 0 .. Wrap - 1
    BY ClockFacts DEF Units
<1>2. ASSUME NEW d \in 0 .. Wrap - 1
      PROVE  (d - l) % Wrap = IF d >= l THEN d - l ELSE d - l + Wrap
    <2>1. d - l \in Int
        BY <1>1
    <2>2. d >= l => (d - l) % Wrap = d - l
        <3>1. ASSUME d >= l PROVE d - l \in 0 .. Wrap - 1
            BY <1>1, <3>1
        <3> QED BY <1>1, <2>1, <3>1, ModRange
    <2>3. ~(d >= l) => (d - l) % Wrap = d - l + Wrap
        <3>1. ASSUME ~(d >= l) PROVE d - l \in -Wrap .. -1
            BY <1>1, <3>1
        <3> QED BY <1>1, <2>1, <3>1, ModRange
    <2> QED BY <2>2, <2>3
<1>3. (c + 1) % Wrap = IF c + 1 < Wrap THEN c + 1 ELSE 0
    <2>1. c + 1 \in Int /\ (c + 1 < Wrap => c + 1 \in 0 .. Wrap - 1)
        BY <1>1
    <2>2. c + 1 < Wrap => (c + 1) % Wrap = c + 1
        BY <1>1, <2>1, ModRange
    <2>3. Wrap % Wrap = 0
        BY <1>1
    <2> QED BY <1>1, <2>2, <2>3
<1>4. (c - c) % Wrap = 0
    BY <1>1
<1>5. (c + 1) % Wrap \in 0 .. Wrap - 1
    BY <1>1, <1>3
<1> QED BY <1>1, <1>2, <1>3, <1>4, <1>5 DEF Elapsed, Units

\* Whole seconds.
LEMMA SecondsRange ==
    ASSUME NEW u \in Nat
    PROVE  /\ Seconds(u) \in Nat
           /\ u \in METs => Seconds(u) \in 0 .. MetWrap - 1
           /\ \A n \in Nat : ~(Seconds(u) >= n) => u <= n * Res - 1
<1>1. PICK q \in Nat, r \in 0 .. Res - 1 : q = u \div Res /\ u = Res * q + r
    BY ClockFacts
<1>2. ASSUME NEW n \in Nat, q < n PROVE u <= n * Res - 1
    <2>1. n - q - 1 \in Nat
        BY <1>2
    <2>2. PICK j \in Nat : n = q + 1 + j
        BY <2>1
    <2>3. n * Res = q * Res + Res + j * Res /\ j * Res \in Nat
        BY <2>2, ClockFacts
    <2> QED BY <1>1, <2>3, ClockFacts
<1>3. ASSUME u <= MetWrap * Res - 1 PROVE q < MetWrap
    <2>1. SUFFICES ASSUME ~(q < MetWrap) PROVE FALSE
        OBVIOUS
    <2>2. q - MetWrap \in Nat
        BY <2>1, ClockFacts
    <2>3. PICK j \in Nat : q = MetWrap + j
        BY <2>2, ClockFacts
    <2>4. Res * q = MetWrap * Res + j * Res /\ j * Res \in Nat
        BY <2>3, ClockFacts
    <2> QED BY <1>1, <1>3, <2>4, ClockFacts
<1>4. Seconds(u) = q
    BY <1>1 DEF Seconds
<1>5. \A n \in Nat : ~(q >= n) => u <= n * Res - 1
    BY <1>1, <1>2
<1>6. u \in METs => q \in 0 .. MetWrap - 1
    BY <1>1, <1>3, ClockFacts
<1> QED BY <1>1, <1>4, <1>5, <1>6

\* A count of seconds is a MET.
LEMMA WholeMET ==
    ASSUME NEW v \in 0 .. MetWrap - 1 PROVE v * Res \in METs
<1>1. MetWrap - 1 - v \in Nat
    BY ClockFacts
<1>2. PICK j \in Nat : MetWrap = v + 1 + j
    BY <1>1, ClockFacts
<1>3. MetWrap * Res = v * Res + Res + j * Res /\ j * Res \in Nat /\ v * Res \in Nat
    BY <1>2, ClockFacts
<1> QED BY <1>3, ClockFacts

(***************************************************************************)
(* Types.                                                                  *)
(***************************************************************************)
\* A message sent to the main task leaves its pipe within its depth.
LEMMA PutKeepsDepth ==
    ASSUME NEW q \in Seq(Messages), Len(q) <= PipeDepth, NEW m \in Messages
    PROVE  Put(q, m) \in Seq(Messages) /\ Len(Put(q, m)) <= PipeDepth
    BY ClockFacts DEF Put

\* The main task takes a message from the pipe.
LEMMA TakeKeepsDepth ==
    ASSUME TypeOK, pipe # <<>>
    PROVE  /\ Tail(pipe) \in Seq(Messages) /\ Len(Tail(pipe)) <= PipeDepth
           /\ Len(Tail(pipe)) = Len(pipe) - 1
           /\ \A i \in 1 .. Len(Tail(pipe)) : Tail(pipe)[i] = pipe[i + 1]
           /\ Head(pipe) = pipe[1] /\ 1 \in 1 .. Len(pipe)
    BY ClockFacts DEF TypeOK

\* The time since the tone and the MET that CFE_TIME_GetReference computes.
LEMMA ReferenceRange ==
    ASSUME TypeOK PROVE TimeSinceTone \in Units /\ CurrentMET \in METs
<1>1. ref.latch \in Units /\ clock \in Units /\ ref.met \in METs
    BY DEF TypeOK
<1>2. TimeSinceTone \in Units
    BY <1>1, ElapsedTick DEF TimeSinceTone
<1>3. ref.met + TimeSinceTone \in Int
    BY <1>1, <1>2, ClockFacts DEF Units
<1> QED BY <1>2, <1>3, ModRange, ClockFacts DEF CurrentMET

\* The types hold at the start.
LEMMA TypeInit == ASSUME Init PROVE TypeOK
<1>1. 0 \in METs /\ 0 \in Units /\ 0 \in 0 .. MetWrap - 1 /\ Units \subseteq 0 .. Wrap
    BY ClockFacts DEF Units
<1>2. /\ clock \in Units /\ ToneSignalLatch \in Units /\ VirtualMET \in 0 .. MetWrap - 1
      /\ {age, toneAge} \subseteq 0 .. Wrap
    BY <1>1 DEF Init
<1>3. ref \in [met : METs, latch : Units, set : {"NOT_SET", "WAS_SET"},
              fly : {"NO_FLY", "IS_FLY"}]
    BY <1>1, <1>2 DEF Init
<1>4. {newTone, Forced2Fly, localSem, toneSem} \subseteq BOOLEAN /\ toneTask \in {"wait", "send"}
    BY DEF Init
<1>5. pipe \in Seq(Messages) /\ Len(pipe) <= PipeDepth
    BY ClockFacts DEF Init
<1>6. late \in 0 .. MaxLate /\ cmds \in 0 .. MaxCmds
    BY ClockFacts DEF Init
<1> QED BY <1>2, <1>3, <1>4, <1>5, <1>6 DEF TypeOK

\* Every step keeps the types.
LEMMA TypeStep == ASSUME TypeOK, [Next]_vars PROVE TypeOK'
<1>1. CASE Tick
    <2>1. clock' \in Units
        BY <1>1, ElapsedTick DEF Tick, TypeOK
    <2>2. {age', toneAge'} \subseteq 0 .. Wrap
        BY SMTT(30), <1>1, ClockFacts DEF Tick, TypeOK, Older
    <2>3. late' \in 0 .. MaxLate
        BY <1>1, ClockFacts DEF Tick, TypeOK
    <2>4. localSem' \in BOOLEAN
        BY <1>1 DEF Tick
    <2> QED BY <1>1, <2>1, <2>2, <2>3, <2>4 DEF Tick, TypeOK, tone
<1>2. CASE Local1HzTask
    <2>1. pipe' \in Seq(Messages) /\ Len(pipe') <= PipeDepth
        BY <1>2, PutKeepsDepth DEF Local1HzTask, TypeOK, Messages
    <2> QED BY <1>2, <2>1 DEF Local1HzTask, TypeOK, tone, ages
<1>3. CASE Tone1HzTask
    <2>1. pipe' \in Seq(Messages) /\ Len(pipe') <= PipeDepth
        BY <1>3, PutKeepsDepth DEF Tone1HzTask, TypeOK, Messages
    <2>2. toneTask' \in {"wait", "send"} /\ toneSem' \in BOOLEAN
        BY <1>3 DEF Tone1HzTask, TypeOK
    <2> QED BY <1>3, <2>1, <2>2 DEF Tone1HzTask, TypeOK, tone, ages
<1>4. CASE OneHzCmd
    <2>1. pipe' \in Seq(Messages) /\ Len(pipe') <= PipeDepth
        BY <1>4, TakeKeepsDepth DEF OneHzCmd, Received
    <2>2. ref' \in [met : METs, latch : Units, set : {"NOT_SET", "WAS_SET"},
                    fly : {"NO_FLY", "IS_FLY"}]
        BY <1>4, ReferenceRange DEF OneHzCmd, Local1HzStateMachine, TypeOK
    <2>3. {age', toneAge'} \subseteq 0 .. Wrap
        BY <1>4, ClockFacts DEF OneHzCmd, Local1HzStateMachine, Tone1HzISR, TypeOK
    <2>4. VirtualMET' \in 0 .. MetWrap - 1
        <3>1. (VirtualMET + 1) % MetWrap \in 0 .. MetWrap - 1
            <4>1. VirtualMET + 1 \in Int
                BY ClockFacts DEF TypeOK
            <4> QED BY <4>1, ClockFacts, ModRange
        <3> QED BY <1>4, <3>1 DEF OneHzCmd, Tone1HzISR, TypeOK
    <2>5. ToneSignalLatch' \in Units /\ newTone' \in BOOLEAN /\ toneSem' \in BOOLEAN
        BY <1>4 DEF OneHzCmd, Tone1HzISR, TypeOK
    <2> QED BY <1>4, <2>1, <2>2, <2>3, <2>4, <2>5 DEF OneHzCmd, TypeOK
<1>5. CASE ToneSignalCmd
    <2>1. pipe' \in Seq(Messages) /\ Len(pipe') <= PipeDepth
        BY <1>5, TakeKeepsDepth DEF ToneSignalCmd, Received
    <2> QED BY <1>5, <2>1 DEF ToneSignalCmd, TypeOK, tone, ages
<1>6. CASE ToneSend
    <2>1. pipe' \in Seq(Messages) /\ Len(pipe') <= PipeDepth
        <3>1. Tail(pipe) \in Seq(Messages) /\ Len(Tail(pipe)) <= PipeDepth
            BY <1>6, TakeKeepsDepth DEF ToneSend, Received
        <3> QED BY <1>6, <3>1, PutKeepsDepth DEF ToneSend, Messages
    <2> QED BY <1>6, <2>1 DEF ToneSend, TypeOK, tone, ages
<1>7. CASE ToneData
    <2>1. pipe' \in Seq(Messages) /\ Len(pipe') <= PipeDepth
        BY <1>7, TakeKeepsDepth DEF ToneData, Received
    <2>2. ToneMET \in 0 .. MetWrap - 1
        <3>1. CurrentMET \in METs /\ CurrentMET \in Nat
            BY ReferenceRange, ClockFacts
        <3> QED BY <3>1, SecondsRange DEF ToneMET, TypeOK
    <2>3. VirtualMET' \in 0 .. MetWrap - 1
        BY <1>7, <2>2 DEF ToneData, ToneUpdate, TypeOK
    <2>4. ref' \in [met : METs, latch : Units, set : {"NOT_SET", "WAS_SET"},
                    fly : {"NO_FLY", "IS_FLY"}]
        <3>1. VirtualMET' * Res \in METs
            BY <2>3, WholeMET
        <3> QED BY <1>7, <3>1 DEF ToneData, ToneUpdate, TypeOK
    <2>5. {age', toneAge'} \subseteq 0 .. Wrap
        BY <1>7 DEF ToneData, ToneUpdate, TypeOK
    <2> QED BY <1>7, <2>1, <2>3, <2>4, <2>5 DEF ToneData, TypeOK
<1>8. ASSUME NEW state, SetState(state) PROVE TypeOK'
    <2>1. ref' \in [met : METs, latch : Units, set : {"NOT_SET", "WAS_SET"},
                    fly : {"NO_FLY", "IS_FLY"}]
        BY <1>8 DEF SetState, TypeOK
    <2>2. Forced2Fly' \in BOOLEAN
        BY <1>8 DEF SetState
    <2>3. cmds' \in 0 .. MaxCmds
        <3>1. cmds < MaxCmds /\ cmds' = cmds + 1
            BY <1>8 DEF SetState, Command
        <3>2. cmds \in 0 .. MaxCmds
            BY DEF TypeOK
        <3> QED BY <3>1, <3>2, ClockFacts
    <2> QED BY <1>8, <2>1, <2>2, <2>3 DEF SetState, Command, TypeOK, tasks
<1>9. ASSUME NEW met \in NewMETs, SetMET(met) PROVE TypeOK'
    <2>1. met \in METs /\ met \in Nat
        BY ClockFacts
    <2>2. VirtualMET' \in 0 .. MetWrap - 1
        BY <1>9, <2>1, SecondsRange DEF SetMET
    <2>3. ref' \in [met : METs, latch : Units, set : {"NOT_SET", "WAS_SET"},
                    fly : {"NO_FLY", "IS_FLY"}]
        BY <1>9, <2>1 DEF SetMET, TypeOK
    <2>4. cmds' \in 0 .. MaxCmds
        <3>1. cmds < MaxCmds /\ cmds' = cmds + 1
            BY <1>9 DEF SetMET, Command
        <3>2. cmds \in 0 .. MaxCmds
            BY DEF TypeOK
        <3> QED BY <3>1, <3>2, ClockFacts
    <2>5. {age', toneAge'} \subseteq 0 .. Wrap
        BY <1>9, ClockFacts DEF SetMET, Command, TypeOK
    <2> QED BY <1>9, <2>2, <2>3, <2>4, <2>5 DEF SetMET, Command, TypeOK, tasks
<1>10. CASE UNCHANGED vars
    BY <1>10 DEF vars, TypeOK, tone, tasks, ages
<1> QED BY <1>1, <1>2, <1>3, <1>4, <1>5, <1>6, <1>7, <1>8, <1>9, <1>10
      DEF Next, MainTask, GroundCommand

\* The clock, the reference, the MET and the pipe keep their ranges, for every
\* resolution, roll-over, pipe depth and delay.
THEOREM TimeTypeCorrect == Spec => []TypeOK
    BY TypeInit, TypeStep, PTL DEF Spec

(***************************************************************************)
(* The local clock and the latch.                                          *)
(*                                                                         *)
(* Lag is the longest time between two OneHz messages that the main task   *)
(* handles.  One may be lost to a full pipe, but not the first one after   *)
(* the tasks were idle: its pipe is empty then.                            *)
(***************************************************************************)
Lag == Res + 2 * MaxLate

\* What the age of the latch may be once a OneHz message was handled, before
\* and in the flywheel.
StartBound == StartFly * Res - 1
LatchBound == LatchFly * Res - 1
FlyBound == IF LatchBound >= StartBound + Lag THEN LatchBound ELSE StartBound + Lag

\* The clock does not roll over while the flywheel is entered and latches.
ClockOutlastsFlywheel ==
    StartFly * Res + 2 * Lag <= Wrap /\ LatchFly * Res + Lag <= Wrap

\* Every message on its way is a OneHz message.
Due ==
    /\ ~toneSem /\ toneTask = "wait"
    /\ \A i \in 1 .. Len(pipe) : pipe[i] = "OneHz"

\* The age a is at most b, but for the time since a OneHz message was handled.
Within(a, b) ==
    IF Idle THEN a <= b + MaxLate + (clock % Res)
    ELSE IF Due THEN a <= b + MaxLate + Res + late
    ELSE a <= b + late

AgeInv ==
    /\ ref.fly = "NO_FLY" => Within(age, StartBound)
    /\ Within(age, FlyBound)
    /\ newTone => Within(toneAge, 0)

LatchInv ==
    /\ age < Wrap => Elapsed(ref.latch, clock) = age
    /\ toneAge < Wrap => Elapsed(ToneSignalLatch, clock) = toneAge

ClockInv == TypeOK /\ AgeInv /\ LatchInv

\* The bounds on the ages are numbers, and none reaches the roll-over.
LEMMA BoundFacts ==
    /\ Lag \in Nat /\ StartBound \in Nat /\ LatchBound \in Nat /\ FlyBound \in Nat
    /\ FlyBound >= LatchBound /\ FlyBound >= StartBound + Lag
    /\ ClockOutlastsFlywheel => FlyBound + Lag < Wrap /\ Lag < Wrap
<1>1. StartFly * Res \in Nat \ {0} /\ LatchFly * Res \in Nat \ {0}
    <2>1. \A a, b \in Nat \ {0} : a * b \in Nat \ {0}
        OBVIOUS
    <2> QED BY <2>1, ClockFacts
<1>2. Lag \in Nat
    BY ClockFacts DEF Lag
<1> QED BY <1>1, <1>2, ClockFacts DEF StartBound, LatchBound, FlyBound, ClockOutlastsFlywheel

\* The remainder of the clock in the second.
LEMMA SecondTick ==
    ASSUME TypeOK
    PROVE  /\ clock % Res \in 0 .. Res - 1
           /\ Tick => clock' % Res = 0 \/ clock' % Res = (clock % Res) + 1
<1>1. clock \in 0 .. Wrap - 1 /\ Wrap \in Nat \ {0} /\ Res \in Nat \ {0} /\ Wrap % Res = 0
    BY ClockFacts, TimeAssumption DEF TypeOK, Units
<1>2. clock % Res \in 0 .. Res - 1
    BY <1>1
<1>3. CASE clock + 1 < Wrap
    <2>1. (clock + 1) % Wrap = clock + 1
        <3>1. clock + 1 \in 0 .. Wrap - 1
            BY <1>1, <1>3
        <3>2. clock + 1 \in Int
            BY <1>1
        <3> QED BY <1>1, <3>1, <3>2, ModRange
    <2>2. clock \in Int
        BY <1>1
    <2>3. (clock + 1) % Res = 0 \/ (clock + 1) % Res = (clock % Res) + 1
        BY <1>1, <2>2, ModNext
    <2> QED BY <1>2, <2>1, <2>3 DEF Tick
<1>4. CASE clock + 1 = Wrap
    <2>1. (clock + 1) % Wrap = 0 /\ 0 % Res = 0
        BY <1>1, <1>4
    <2> QED BY <1>2, <2>1 DEF Tick
<1> QED BY <1>1, <1>3, <1>4

\* An age that is within a bound is never more than Lag over it.
LEMMA WithinLag ==
    ASSUME TypeOK, NEW a \in Nat, NEW b \in Nat, Within(a, b)
    PROVE  /\ a <= b + Lag
           /\ \A c \in Nat : b <= c => Within(a, c)
<1>1. clock % Res \in 0 .. Res - 1 /\ late \in 0 .. MaxLate /\ Res \in Nat /\ MaxLate \in Nat
    BY SecondTick, ClockFacts DEF TypeOK
<1> QED BY <1>1 DEF Within, Lag

\* An age no more than the bound is within it.
LEMMA WithinNow ==
    ASSUME TypeOK, NEW a \in Nat, NEW b \in Nat, a <= b PROVE Within(a, b)
<1>1. clock % Res \in 0 .. Res - 1 /\ late \in 0 .. MaxLate /\ Res \in Nat /\ MaxLate \in Nat
    BY SecondTick, ClockFacts DEF TypeOK
<1> QED BY <1>1 DEF Within

\* Time passes: idle tasks stay idle until the second is full.
LEMMA TickPhase ==
    ASSUME TypeOK, Tick
    PROVE  \/ Idle /\ Idle' /\ clock' % Res = (clock % Res) + 1
           \/ Idle /\ ~Idle' /\ Due' /\ late' = 0
           \/ ~Idle /\ ~Idle' /\ (Due' <=> Due) /\ late' = late + 1
<1>1. CASE Idle
    <2>1. CASE clock' % Res = 0
        <3>1. ~Idle' /\ late' = 0
            BY <1>1, <2>1 DEF Tick, Idle
        <3>2. Due'
            BY <1>1 DEF Tick, Idle, Due
        <3> QED BY <1>1, <3>1, <3>2
    <2>2. CASE clock' % Res # 0
        <3>1. Idle'
            BY <1>1, <2>2 DEF Tick, Idle
        <3> QED BY <1>1, <2>2, <3>1, SecondTick
    <2> QED BY <2>1, <2>2
<1>2. CASE ~Idle
    <2>1. ~Idle' /\ late' = late + 1
        BY <1>2 DEF Tick, Idle
    <2>2. Due' <=> Due
        BY DEF Tick, Due
    <2> QED BY <1>2, <2>1, <2>2
<1> QED BY <1>1, <1>2

\* The other steps, but for the handling of OneHz, do not make the tasks idle
\* while OneHz messages are all there is.
LEMMA StepPhase ==
    ASSUME TypeOK,
           Local1HzTask \/ Tone1HzTask \/ ToneSignalCmd \/ ToneSend \/ ToneData
             \/ Command \/ UNCHANGED vars
    PROVE  /\ clock' = clock /\ late' = late
           /\ Idle => Idle'
           /\ Due /\ ~Idle => Due' /\ ~Idle'
<1>1. CASE Local1HzTask
    <2>1. ~Idle
        BY <1>1 DEF Local1HzTask, Idle
    <2>2. pipe' = Put(pipe, "OneHz") /\ pipe \in Seq(Messages)
        BY <1>1 DEF Local1HzTask, TypeOK
    <2>3. pipe' # <<>>
        BY <2>2, ClockFacts DEF Put
    <2>4. ASSUME Due PROVE \A i \in 1 .. Len(pipe') : pipe'[i] = "OneHz"
        BY <2>2, <2>4 DEF Put, Due
    <2>5. Due => Due'
        BY <1>1, <2>4 DEF Local1HzTask, Due
    <2> QED BY <1>1, <2>1, <2>3, <2>5 DEF Local1HzTask, Idle
<1>2. CASE Tone1HzTask
    BY <1>2 DEF Tone1HzTask, Idle, Due
<1>3. CASE ToneSignalCmd \/ ToneSend \/ ToneData
    <2>1. pipe # <<>> /\ Head(pipe) # "OneHz"
        BY <1>3 DEF ToneSignalCmd, ToneSend, ToneData, Received
    <2>2. ~Due /\ ~Idle
        BY <2>1, TakeKeepsDepth DEF Due, Idle
    <2> QED BY <1>3, <2>2 DEF ToneSignalCmd, ToneSend, ToneData
<1>4. CASE Command \/ UNCHANGED vars
    BY <1>4 DEF Command, vars, tasks, Idle, Due
<1> QED BY <1>1, <1>2, <1>3, <1>4

\* Nothing has aged at the start.
LEMMA ClockInit == ASSUME Init PROVE ClockInv
<1>1. TypeOK
    BY TypeInit
<1>2. 0 \in Nat /\ age = 0 /\ ~newTone
    BY DEF Init
<1>3. AgeInv
    BY <1>1, <1>2, WithinNow, BoundFacts DEF AgeInv
<1>4. Elapsed(ref.latch, clock) = 0
    BY <1>1, ElapsedTick DEF Init, TypeOK
<1>5. toneAge < Wrap => Elapsed(ToneSignalLatch, clock) = toneAge
    <2>1. clock \in 0 .. Wrap - 1 /\ clock \in Int /\ clock - 0 = clock
        BY ClockFacts DEF Init, Units
    <2>2. clock % Wrap = clock
        BY <2>1, ModRange, ClockFacts
    <2> QED BY <2>1, <2>2 DEF Init, Elapsed
<1> QED BY <1>1, <1>2, <1>3, <1>4, <1>5 DEF ClockInv, LatchInv

\* Within these bounds neither age reaches the roll-over of the clock, and so
\* the code computes the real ones.
LEMMA AgesReal ==
    ASSUME ClockOutlastsFlywheel, ClockInv
    PROVE  /\ age \in Nat /\ age < Wrap /\ TimeSinceTone = age
           /\ toneAge \in Nat
           /\ newTone => toneAge < Wrap /\ Elapsed(ToneSignalLatch, clock) = toneAge
<1>1. age \in Nat /\ toneAge \in Nat
    BY ClockFacts DEF ClockInv, TypeOK
<1>2. age < Wrap
    <2>1. age <= FlyBound + Lag
        BY <1>1, WithinLag, BoundFacts DEF ClockInv, AgeInv
    <2> QED BY <1>1, <2>1, BoundFacts, ClockFacts
<1>3. newTone => toneAge < Wrap
    <2>1. newTone => toneAge <= 0 + Lag
        BY <1>1, WithinLag DEF ClockInv, AgeInv
    <2> QED BY <1>1, <2>1, BoundFacts, ClockFacts
<1> QED BY <1>1, <1>2, <1>3 DEF ClockInv, LatchInv, TimeSinceTone

\* The steps that keep both ages and latches and do not handle OneHz.
LEMMA ClockKept ==
    ASSUME ClockInv, TypeOK',
           Local1HzTask \/ Tone1HzTask \/ ToneSignalCmd \/ ToneSend \/ ToneData
             \/ Command \/ UNCHANGED vars
    PROVE  /\ \A b \in Nat : Within(age, b) /\ age' = age => Within(age, b)'
           /\ \A b \in Nat : Within(toneAge, b) /\ toneAge' = toneAge => Within(toneAge, b)'
<1>1. /\ clock' = clock /\ late' = late /\ late \in 0 .. MaxLate /\ MaxLate \in Nat
      /\ age \in Nat /\ toneAge \in Nat /\ clock % Res \in 0 .. Res - 1 /\ Res \in Nat
    BY StepPhase, SecondTick, ClockFacts DEF ClockInv, TypeOK
<1>2. (Idle => Idle') /\ (Due /\ ~Idle => Due' /\ ~Idle')
    BY StepPhase DEF ClockInv
<1> QED BY <1>1, <1>2 DEF Within

\* Every step keeps the bounds on the ages of the reference and of the tone.
LEMMA ClockStep ==
    ASSUME ClockOutlastsFlywheel, ClockInv, [Next]_vars PROVE ClockInv'
<1>1. TypeOK /\ TypeOK'
    BY TypeStep DEF ClockInv
<1>2. /\ age \in Nat /\ age < Wrap /\ TimeSinceTone = age /\ toneAge \in Nat
      /\ newTone => toneAge < Wrap /\ Elapsed(ToneSignalLatch, clock) = toneAge
      /\ clock \in Units /\ ref.latch \in Units /\ ToneSignalLatch \in Units
    BY <1>1, AgesReal DEF TypeOK
<1>3. CASE Tick
    <2>1. age' = age + 1 /\ toneAge' = Older(toneAge) /\ ref' = ref
          /\ ToneSignalLatch' = ToneSignalLatch /\ newTone' = newTone
          /\ clock' = (clock + 1) % Wrap
        BY <1>2, <1>3 DEF Tick, tone, Older
    <2>2. ASSUME NEW b \in Nat, Within(age, b) PROVE Within(age, b)'
        <3>1. late \in 0 .. MaxLate /\ MaxLate \in Nat /\ Res \in Nat
              /\ clock % Res \in 0 .. Res - 1
            BY <1>1, SecondTick, ClockFacts DEF TypeOK
        <3> QED BY <1>1, <1>2, <1>3, <2>1, <2>2, <3>1, TickPhase DEF Within
    <2>3. ASSUME Within(toneAge, 0) PROVE Within(toneAge, 0)'
        <3>1. late \in 0 .. MaxLate /\ MaxLate \in Nat /\ Res \in Nat
              /\ clock % Res \in 0 .. Res - 1
            BY <1>1, SecondTick, ClockFacts DEF TypeOK
        <3>2. toneAge' \in Nat /\ toneAge' <= toneAge + 1
            BY <1>2, <2>1, ClockFacts DEF Older
        <3> QED BY <1>1, <1>2, <1>3, <3>2, <2>3, <3>1, TickPhase DEF Within
    <2>4. AgeInv'
        BY <2>1, <2>2, <2>3, BoundFacts DEF AgeInv, ClockInv
    <2>5. age' < Wrap => Elapsed(ref'.latch, clock') = age'
        BY <1>2, <2>1, ElapsedTick DEF TimeSinceTone
    <2>6. toneAge' < Wrap => Elapsed(ToneSignalLatch', clock') = toneAge'
        <3>1. toneAge' < Wrap => toneAge < Wrap /\ toneAge' = toneAge + 1
            BY <1>2, <2>1, ClockFacts DEF Older
        <3>2. toneAge < Wrap => Elapsed(ToneSignalLatch, clock) = toneAge
            BY DEF ClockInv, LatchInv
        <3>3. ASSUME toneAge' < Wrap PROVE Elapsed(ToneSignalLatch, clock) + 1 < Wrap
            BY <1>2, <3>1, <3>2, <3>3
        <3> QED BY <1>2, <2>1, <3>1, <3>2, <3>3, ElapsedTick
    <2> QED BY <1>1, <2>4, <2>5, <2>6 DEF ClockInv, LatchInv
<1>4. CASE Local1HzTask \/ Tone1HzTask \/ ToneSignalCmd \/ ToneSend \/ UNCHANGED vars
    <2>1. age' = age /\ toneAge' = toneAge /\ ref' = ref /\ newTone' = newTone
          /\ ToneSignalLatch' = ToneSignalLatch /\ clock' = clock
        BY <1>4 DEF Local1HzTask, Tone1HzTask, ToneSignalCmd, ToneSend, vars, ages, tone
    <2>2. AgeInv'
        BY <1>1, <1>4, <2>1, ClockKept, BoundFacts DEF AgeInv, ClockInv
    <2>3. LatchInv'
        BY <2>1 DEF LatchInv, ClockInv
    <2> QED BY <1>1, <2>2, <2>3 DEF ClockInv
<1>5. CASE OneHzCmd
    <2>1. toneAge' = 0 /\ ToneSignalLatch' = clock /\ clock' = clock
        BY <1>5 DEF OneHzCmd, Tone1HzISR
    <2>2. AgeInv'
        <3>0. /\ clock' = clock /\ late' = late /\ late \in 0 .. MaxLate /\ MaxLate \in Nat
              /\ clock % Res \in 0 .. Res - 1 /\ Res \in Nat
            BY <1>1, <1>5, SecondTick, ClockFacts DEF OneHzCmd, TypeOK
        <3>1. Within(toneAge, 0)'
            BY <2>1, <3>0 DEF Within
        <3>2. ASSUME NEW b \in Nat, age' <= b, age' \in Nat PROVE Within(age, b)'
            BY <3>0, <3>2 DEF Within
        <3>3. Seconds(TimeSinceTone) = Seconds(age)
            BY <1>2
        <3>4. CASE StartsFly
            <4>1. age' = age /\ ref'.fly = "IS_FLY" /\ Within(age, StartBound)
                BY <1>1, <1>5, <3>4 DEF OneHzCmd, Local1HzStateMachine, TypeOK, LatchesFly, StartsFly,
                                        ClockInv, AgeInv
            <4>2. age <= FlyBound
                <5>1. age <= StartBound + Lag
                    BY <1>1, <1>2, <4>1, WithinLag, BoundFacts
                <5> QED BY <1>2, <5>1, BoundFacts
            <4> QED BY <1>2, <3>1, <3>2, <4>1, <4>2, BoundFacts DEF AgeInv
        <3>5. CASE LatchesFly
            <4>1. age' = 0
                BY <1>5, <3>5 DEF OneHzCmd, Local1HzStateMachine
            <4> QED BY <3>1, <3>2, <4>1, BoundFacts DEF AgeInv
        <3>6. CASE ~StartsFly /\ ~LatchesFly
            <4>1. age' = age /\ ref' = ref
                BY <1>5, <3>6 DEF OneHzCmd, Local1HzStateMachine
            <4>2. ref.fly = "NO_FLY" => age <= StartBound
                BY <1>2, <3>3, <3>6, SecondsRange, ClockFacts DEF StartsFly, StartBound
            <4>3. ref.fly # "NO_FLY" => age <= LatchBound
                BY <1>1, <1>2, <3>3, <3>6, SecondsRange, ClockFacts DEF LatchesFly, LatchBound, TypeOK
            <4>4. age <= FlyBound
                BY <1>2, <4>2, <4>3, BoundFacts
            <4> QED BY <1>2, <3>1, <3>2, <4>1, <4>2, <4>4, BoundFacts DEF AgeInv
        <3> QED BY <3>4, <3>5, <3>6
    <2>3. Elapsed(clock, clock) = 0
        BY <1>2, ElapsedTick
    <2>4. age' < Wrap => Elapsed(ref'.latch, clock') = age'
        <3>1. CASE LatchesFly
            <4>1. ref'.latch = clock /\ age' = 0
                BY <1>1, <1>5, <3>1 DEF OneHzCmd, Local1HzStateMachine, TypeOK, LatchesFly, StartsFly
            <4> QED BY <2>1, <2>3, <4>1
        <3>2. CASE ~LatchesFly
            <4>1. ref'.latch = ref.latch /\ age' = age
                BY <1>1, <1>5, <3>2 DEF OneHzCmd, Local1HzStateMachine, TypeOK
            <4> QED BY <1>2, <2>1, <4>1 DEF TimeSinceTone
        <3> QED BY <3>1, <3>2
    <2>5. Elapsed(ToneSignalLatch', clock') = toneAge'
        BY <2>1, <2>3
    <2> QED BY <1>1, <2>2, <2>4, <2>5 DEF ClockInv, LatchInv
<1>6. CASE ToneData
    <2>1. toneAge' = toneAge /\ ToneSignalLatch' = ToneSignalLatch /\ clock' = clock /\ ~newTone'
        BY <1>6 DEF ToneData
    <2>2. toneAge' < Wrap => Elapsed(ToneSignalLatch', clock') = toneAge'
        BY <2>1 DEF ClockInv, LatchInv
    <2>3. CASE ToneVerify
        <3>1. toneAge = 0
            BY <1>2, <2>3 DEF ToneVerify
        <3>2. age' = 0 /\ ref'.latch = ToneSignalLatch
            BY <1>1, <1>6, <2>3, <3>1 DEF ToneData, ToneUpdate, TypeOK
        <3>3. /\ clock' = clock /\ late' = late /\ late \in 0 .. MaxLate /\ MaxLate \in Nat
              /\ clock % Res \in 0 .. Res - 1 /\ Res \in Nat
            BY <1>1, <1>6, SecondTick, ClockFacts DEF ToneData, TypeOK
        <3>4. ASSUME NEW b \in Nat PROVE Within(age, b)'
            BY <3>2, <3>3 DEF Within
        <3>5. AgeInv'
            BY <2>1, <3>4, BoundFacts DEF AgeInv
        <3> QED BY <1>1, <1>2, <2>1, <2>2, <2>3, <3>1, <3>2, <3>5
              DEF ClockInv, LatchInv, ToneVerify
    <2>4. CASE ~ToneVerify
        <3>1. age' = age /\ ref' = ref
            BY <1>6, <2>4 DEF ToneData
        <3>2. AgeInv'
            BY <1>1, <1>6, <2>1, <3>1, ClockKept, BoundFacts DEF AgeInv, ClockInv
        <3>3. LatchInv'
            BY <2>1, <2>2, <3>1 DEF LatchInv, ClockInv
        <3> QED BY <1>1, <3>2, <3>3 DEF ClockInv
    <2> QED BY <2>3, <2>4
<1>7. ASSUME NEW state, SetState(state) PROVE ClockInv'
    <2>1. Command /\ age' = age /\ toneAge' = toneAge /\ newTone' = newTone /\ clock' = clock
          /\ ToneSignalLatch' = ToneSignalLatch
        BY <1>7 DEF SetState, Command
    <2>2. ref'.latch = ref.latch /\ (ref'.fly = "NO_FLY" => ref.fly = "NO_FLY")
        BY <1>1, <1>7 DEF SetState, TypeOK
    <2>3. AgeInv'
        BY <1>1, <2>1, <2>2, ClockKept, BoundFacts DEF AgeInv, ClockInv
    <2>4. LatchInv'
        BY <2>1, <2>2 DEF LatchInv, ClockInv
    <2> QED BY <1>1, <2>3, <2>4 DEF ClockInv
<1>8. ASSUME NEW met \in NewMETs, SetMET(met) PROVE ClockInv'
    <2>1. Command /\ age' = 0 /\ toneAge' = toneAge /\ newTone' = newTone /\ clock' = clock
          /\ ToneSignalLatch' = ToneSignalLatch
        BY <1>8 DEF SetMET, Command
    <2>2. ref'.latch = clock
        BY <1>1, <1>8 DEF SetMET, TypeOK
    <2>3. /\ clock' = clock /\ late' = late /\ late \in 0 .. MaxLate /\ MaxLate \in Nat
          /\ clock % Res \in 0 .. Res - 1 /\ Res \in Nat
        BY <1>1, <1>8, SecondTick, ClockFacts DEF SetMET, Command, TypeOK
    <2>4. ASSUME NEW b \in Nat PROVE Within(age, b)'
        BY <2>1, <2>3 DEF Within
    <2>5. AgeInv'
        BY <1>1, <2>1, <2>4, ClockKept, BoundFacts DEF AgeInv, ClockInv
    <2>6. Elapsed(clock, clock) = 0
        BY <1>2, ElapsedTick
    <2>7. LatchInv'
        BY <2>1, <2>2, <2>6 DEF LatchInv, ClockInv
    <2> QED BY <1>1, <2>5, <2>7 DEF ClockInv
<1> QED BY <1>3, <1>4, <1>5, <1>6, <1>7, <1>8 DEF Next, MainTask, GroundCommand

\* The bounds hold in every reachable state.
LEMMA ClockInductive ==
    ASSUME ClockOutlastsFlywheel PROVE Spec => []ClockInv
<1>1. Init => ClockInv
    BY ClockInit
<1>2. ClockInv /\ [Next]_vars => ClockInv'
    BY ClockStep
<1> QED BY <1>1, <1>2, PTL DEF Spec

\* However tones are late, lost or refused and OneHz messages lost to a full
\* pipe, the local clock never wraps around the time latched at the tone, if
\* it rolls over later than the flywheel needs to start and to latch.
THEOREM ClockNeverWraps ==
    ASSUME ClockOutlastsFlywheel PROVE Spec => []NoWrapAround
<1>1. ClockInv => NoWrapAround
    BY AgesReal DEF NoWrapAround
<1> QED BY <1>1, ClockInductive, PTL

(***************************************************************************)
(* The commanded flywheel.                                                 *)
(***************************************************************************)
FlyInv == ClockInv /\ (Forced2Fly => ref.fly = "IS_FLY")

\* A clock that is commanded into flywheel is in flywheel.
LEMMA FlyInductive ==
    ASSUME ClockOutlastsFlywheel PROVE Spec => []FlyInv
<1>1. Init => FlyInv
    BY ClockInit DEF FlyInv, Init
<1>2. ASSUME FlyInv, [Next]_vars PROVE FlyInv'
    <2>1. ClockInv'
        BY <1>2, ClockStep DEF FlyInv
    <2>2. Forced2Fly' => ref'.fly = "IS_FLY"
        <3> USE DEF FlyInv, ClockInv, TypeOK
        <3>1. CASE Tick \/ Local1HzTask \/ Tone1HzTask \/ ToneSignalCmd \/ ToneSend \/ UNCHANGED vars
            BY <1>2, <3>1 DEF Tick, Local1HzTask, Tone1HzTask, ToneSignalCmd, ToneSend, vars
        <3>2. CASE OneHzCmd
            BY <1>2, <3>2 DEF OneHzCmd, Local1HzStateMachine
        <3>3. CASE ToneData
            BY <1>2, <3>3 DEF ToneData, ToneVerify, ToneUpdate
        <3>4. ASSUME NEW state, SetState(state) PROVE Forced2Fly' => ref'.fly = "IS_FLY"
            BY <1>2, <3>4 DEF SetState
        <3>5. ASSUME NEW met, SetMET(met) PROVE Forced2Fly' => ref'.fly = "IS_FLY"
            BY <1>2, <3>5 DEF SetMET
        <3> QED BY <1>2, <3>1, <3>2, <3>3, <3>4, <3>5 DEF Next, MainTask, GroundCommand
    <2> QED BY <2>1, <2>2 DEF FlyInv
<1> QED BY <1>1, <1>2, PTL DEF Spec

\* A difference of nothing, or of a whole roll-over of the MET, is no jump.
LEMMA NoJump ==
    ASSUME NEW d \in Int, d = 0 \/ d = -(MetWrap * Res)
    PROVE  LET period == MetWrap * Res
           IN  ((d + period \div 2) % period) - period \div 2 = 0
<1>1. PICK p \in Nat \ {0} : p = MetWrap * Res
    BY ClockFacts
<1>2. PICK h \in 0 .. p - 1 : h = p \div 2
    BY Z3
<1>3. (d + h) % p = h
    <2>1. CASE d = 0
        BY <2>1, ModRange
    <2>2. CASE d = -p
        <3>1. d + h \in -p .. -1 /\ d + h \in Int
            BY <2>2
        <3>2. (d + h) % p = d + h + p
            BY <3>1, ModRange
        <3> QED BY <2>2, <3>2
    <2> QED BY <1>1, <2>1, <2>2
<1> QED BY <1>1, <1>2, <1>3

\* Time passing moves the MET by the time that passed, a roll-over apart.
LEMMA TickMET ==
    ASSUME ClockOutlastsFlywheel, ClockInv, NoWrapAround', Tick PROVE Jump(1) = 0
<1>1. ref' = ref /\ age' = age + 1 /\ TimeSinceTone = age /\ age \in Nat /\ TimeSinceTone' = age + 1
    BY AgesReal DEF Tick, Older, NoWrapAround
<1>2. PICK p \in Nat \ {0} : p = MetWrap * Res
    BY ClockFacts
<1>3. PICK x \in Int : x = ref.met + age
    BY <1>1, ClockFacts DEF ClockInv, TypeOK
<1>4. CurrentMET = x % p /\ CurrentMET' = (x + 1) % p
    <2>1. CurrentMET = (ref.met + TimeSinceTone) % (MetWrap * Res)
        BY DEF CurrentMET
    <2>2. CurrentMET' = (ref'.met + TimeSinceTone') % (MetWrap * Res)
        BY DEF CurrentMET
    <2>3. ref'.met + TimeSinceTone' = x + 1
        BY SMTT(30), <1>1, <1>3, ClockFacts DEF ClockInv, TypeOK
    <2> QED BY <1>1, <1>2, <1>3, <2>1, <2>2, <2>3
<1>5. PICK d \in Int : d = CurrentMET' - CurrentMET - 1 /\ (d = 0 \/ d = -p)
    <2>1. x % p \in Int /\ (x + 1) % p \in Int
        OBVIOUS
    <2>2. \/ ((x + 1) % p) - (x % p) - 1 = 0
          \/ ((x + 1) % p) - (x % p) - 1 = -p
        <3>1. \/ (x + 1) % p = 0 /\ x % p = p - 1
              \/ (x + 1) % p = (x % p) + 1
            BY ModNext
        <3>2. ASSUME NEW u \in Int, NEW v \in Int, (v = 0 /\ u = p - 1) \/ v = u + 1
              PROVE  v - u - 1 = 0 \/ v - u - 1 = -p
            BY <3>2
        <3> QED BY <2>1, <3>1, <3>2
    <2> QED BY <1>4, <2>1, <2>2
<1>6. d = 0 \/ d = -(MetWrap * Res)
    BY <1>2, <1>5
<1>7. ((d + (MetWrap * Res) \div 2) % (MetWrap * Res)) - (MetWrap * Res) \div 2 = 0
    BY <1>6, NoJump
<1> QED BY <1>5, <1>7 DEF Jump

\* Commanded into flywheel, the clock runs free until the next clock state
\* command: no tone ends the flywheel, and only time moves the MET.
THEOREM FlywheelRunsFree ==
    ASSUME ClockOutlastsFlywheel PROVE Spec => CommandedFlywheelFree
<1> DEFINE Free ==
      Forced2Fly /\ Forced2Fly' /\ ~SetsMET =>
        ref'.fly = "IS_FLY" /\ Jump(IF Tick THEN 1 ELSE 0) = 0
<1>1. ASSUME FlyInv, FlyInv', NoWrapAround', Next, Forced2Fly, Forced2Fly', ~SetsMET
      PROVE  ref'.fly = "IS_FLY" /\ Jump(IF Tick THEN 1 ELSE 0) = 0
    <2>1. ref'.fly = "IS_FLY"
        BY <1>1 DEF FlyInv
    <2>2. CASE Tick
        BY <1>1, <2>1, <2>2, TickMET DEF FlyInv
    <2>3. CASE ~Tick
        <3>1. CurrentMET' = CurrentMET
            <4>1. TypeOK /\ ref.fly = "IS_FLY"
                BY <1>1 DEF FlyInv, ClockInv
            <4>2. CASE Local1HzTask \/ Tone1HzTask \/ ToneSignalCmd \/ ToneSend \/ ToneData
                BY <1>1, <4>2 DEF Local1HzTask, Tone1HzTask, ToneSignalCmd, ToneSend, ToneData,
                                  ToneVerify, CurrentMET, TimeSinceTone
            <4>3. CASE OneHzCmd
                <5>1. CASE LatchesFly
                    <6>1. ref'.met = CurrentMET /\ ref'.latch = clock /\ clock' = clock
                        BY <4>1, <4>3, <5>1 DEF OneHzCmd, Local1HzStateMachine, StartsFly, TypeOK
                    <6>2. TimeSinceTone' = 0
                        BY <4>1, <6>1, ElapsedTick DEF TimeSinceTone, TypeOK
                    <6>3. CurrentMET \in 0 .. MetWrap * Res - 1 /\ MetWrap * Res \in Nat \ {0}
                        BY <4>1, ReferenceRange, ClockFacts
                    <6>4. CurrentMET % (MetWrap * Res) = CurrentMET
                        <7>1. CurrentMET \in Int
                            BY <6>3
                        <7> QED BY <6>3, <7>1, ModRange
                    <6>5. CurrentMET' = (ref'.met + TimeSinceTone') % (MetWrap * Res)
                        BY DEF CurrentMET
                    <6>6. CurrentMET + 0 = CurrentMET
                        BY <6>3
                    <6> QED BY <6>1, <6>2, <6>4, <6>5, <6>6
                <5>2. CASE ~LatchesFly
                    BY <4>1, <4>3, <5>2 DEF OneHzCmd, Local1HzStateMachine, StartsFly,
                                            CurrentMET, TimeSinceTone
                <5> QED BY <5>1, <5>2
            <4>4. ASSUME NEW state \in {"FLYWHEEL", "VALID", "INVALID"}, SetState(state)
                  PROVE  CurrentMET' = CurrentMET
                <5>1. ref'.met = ref.met /\ ref'.latch = ref.latch /\ clock' = clock
                    BY <4>1, <4>4 DEF SetState, Command, TypeOK
                <5> QED BY <5>1 DEF CurrentMET, TimeSinceTone
            <4> QED BY <1>1, <2>3, <4>2, <4>3, <4>4 DEF Next, MainTask, GroundCommand, SetsMET
        <3>2. CurrentMET \in Int
            BY <1>1, ReferenceRange, ClockFacts DEF FlyInv, ClockInv
        <3>3. PICK d \in Int : d = CurrentMET' - CurrentMET - 0 /\ d = 0
            BY <3>1, <3>2
        <3>4. ((d + (MetWrap * Res) \div 2) % (MetWrap * Res)) - (MetWrap * Res) \div 2 = 0
            BY <3>3, NoJump
        <3>5. Jump(0) = 0
            BY <3>3, <3>4 DEF Jump
        <3> QED BY <2>1, <2>3, <3>5
    <2> QED BY <2>2, <2>3
<1>2. FlyInv /\ FlyInv' /\ NoWrapAround' /\ [Next]_vars => [Free]_vars
    BY <1>1
<1> HIDE DEF Free
<1>3. Spec => [][Free]_vars
    BY <1>2, FlyInductive, ClockNeverWraps, PTL DEF Spec
<1> QED BY <1>3 DEF CommandedFlywheelFree, Free

(***************************************************************************)
(* The jumps of the MET.  Out of flywheel the tone count is off the clock  *)
(* by what was counted and cut off since the reference was set (`o' below) *)
(* less its age.  A tone counts a second after the one before it, so the   *)
(* count is at most a second ahead; and a tone that is used has passed the *)
(* flywheel test, so it is not far behind.                                 *)
(***************************************************************************)
\* Of a tone, at most its first second counts.
Lesser(a, b) == IF a <= b THEN a ELSE b

\* The tone count amounts to the MET of the reference and o units, if one
\* does not mind a roll-over.
CountIs(o) ==
    /\ \E n \in Int : VirtualMET * Res + n * (MetWrap * Res) = ref.met + o
    /\ o >= 1 - Res
    /\ o + Lesser(toneAge, Res) <= age + Res

SlipInv ==
    ref.fly = "NO_FLY" =>
        /\ \E o \in Int : CountIs(o)
        /\ newTone => age <= StartBound + toneAge

METInv == ClockInv /\ SlipInv

\* The MET does not roll over within the longest slip, or within two seconds.
METOutlastsFlywheel == MetWrap * Res > 2 * MaxSlip /\ MetWrap > 2

\* A counted tone adds a second to the count.
LEMMA CountTone ==
    ASSUME TypeOK, VirtualMET' = (VirtualMET + 1) % MetWrap
    PROVE  \E j \in Int : VirtualMET' * Res + j * (MetWrap * Res) = VirtualMET * Res + Res
<1>1. VirtualMET \in 0 .. MetWrap - 1 /\ MetWrap \in Nat \ {0} /\ Res \in Nat \ {0}
    BY ClockFacts DEF TypeOK
<1>2. VirtualMET' = IF VirtualMET + 1 < MetWrap THEN VirtualMET + 1 ELSE 0
    <2>1. VirtualMET + 1 \in Int
        BY <1>1
    <2>2. VirtualMET + 1 < MetWrap => VirtualMET' = VirtualMET + 1
        <3>1. VirtualMET + 1 < MetWrap => VirtualMET + 1 \in 0 .. MetWrap - 1
            BY <1>1
        <3>2. VirtualMET + 1 < MetWrap => (VirtualMET + 1) % MetWrap = VirtualMET + 1
            BY <1>1, <2>1, <3>1, ModRange
        <3> QED BY <3>2
    <2>3. MetWrap % MetWrap = 0
        BY <1>1
    <2> QED BY <1>1, <2>2, <2>3
<1>3. CASE VirtualMET + 1 < MetWrap
    <2>1. VirtualMET' * Res + 0 * (MetWrap * Res) = VirtualMET * Res + Res
        BY <1>1, <1>2, <1>3
    <2> QED BY <2>1
<1>4. CASE ~(VirtualMET + 1 < MetWrap)
    <2>1. VirtualMET' = 0 /\ MetWrap = VirtualMET + 1
        BY <1>1, <1>2, <1>4
    <2>2. (VirtualMET + 1) * Res = VirtualMET * Res + Res
        BY <1>1
    <2>3. VirtualMET' * Res + 1 * (MetWrap * Res) = VirtualMET * Res + Res
        BY <1>1, <2>1, <2>2
    <2> QED BY <2>3
<1> QED BY <1>3, <1>4

\* The invariant holds initially: the clock starts in flywheel.
LEMMA METInit == ASSUME Init PROVE METInv
    BY ClockInit DEF METInv, SlipInv, Init

\* Every step keeps the tone count close to the clock.
LEMMA METStep ==
    ASSUME ClockOutlastsFlywheel, METInv, [Next]_vars PROVE METInv'
<1>1. ClockInv /\ ClockInv' /\ TypeOK /\ TypeOK' /\ SlipInv
    BY ClockStep DEF METInv, ClockInv
<1>2. /\ age \in Nat /\ age < Wrap /\ toneAge \in Nat /\ TimeSinceTone = age
      /\ Res \in Nat \ {0} /\ MetWrap \in Nat \ {0} /\ MetWrap * Res \in Nat \ {0}
      /\ ref.met \in Nat /\ VirtualMET \in Nat /\ StartBound \in Nat /\ VirtualMET * Res \in Nat
    <2>1. VirtualMET \in 0 .. MetWrap - 1 /\ ref.met \in METs
        BY <1>1 DEF TypeOK
    <2>2. VirtualMET * Res \in METs
        BY <2>1, WholeMET
    <2> QED BY <1>1, <2>1, <2>2, AgesReal, ClockFacts, BoundFacts
<1>same. ASSUME UNCHANGED <<VirtualMET, ref, toneAge, age>>, newTone' => newTone PROVE SlipInv'
    BY <1>1, <1>same DEF SlipInv, CountIs
<1>3. CASE Tick
    <2>1. /\ age' = age + 1 /\ toneAge' = Older(toneAge) /\ ref' = ref
          /\ VirtualMET' = VirtualMET /\ newTone' = newTone
        BY <1>2, <1>3 DEF Tick, tone, Older
    <2>2. toneAge' \in Nat /\ toneAge' <= toneAge + 1
        BY <1>2, <2>1, ClockFacts DEF Older
    <2>3. ASSUME NEW o \in Int, CountIs(o) PROVE CountIs(o)'
        <3>1. o + Lesser(toneAge', Res) <= age' + Res
            BY <1>2, <2>1, <2>2, <2>3 DEF CountIs, Lesser
        <3> QED BY <2>1, <2>3, <3>1 DEF CountIs
    <2>4. newTone /\ age <= StartBound + toneAge => age' <= StartBound + toneAge'
        <3>1. newTone => toneAge < Wrap
            BY <1>1, AgesReal
        <3>2. newTone => toneAge' = toneAge + 1
            BY <2>1, <3>1 DEF Older
        <3> QED BY <1>2, <2>1, <3>2
    <2>5. SlipInv'
        BY <1>1, <2>1, <2>3, <2>4 DEF SlipInv
    <2> QED BY <1>1, <2>5 DEF METInv
<1>4. CASE Local1HzTask \/ Tone1HzTask \/ ToneSignalCmd \/ ToneSend \/ UNCHANGED vars
    <2>1. UNCHANGED <<VirtualMET, ref, toneAge, age, newTone>>
        BY <1>4 DEF Local1HzTask, Tone1HzTask, ToneSignalCmd, ToneSend, vars, tone, ages
    <2> QED BY <1>1, <1>same, <2>1 DEF METInv
<1>5. CASE OneHzCmd
    <2>1. SUFFICES ASSUME ref'.fly = "NO_FLY"
                   PROVE  (\E o \in Int : CountIs(o)') /\ age' <= StartBound + toneAge'
        BY <1>1 DEF METInv, SlipInv
    <2>2. ref.fly = "NO_FLY" /\ ~StartsFly /\ ~LatchesFly
        BY <1>1, <1>5, <2>1 DEF OneHzCmd, Local1HzStateMachine, StartsFly, LatchesFly, TypeOK
    <2>3. ref' = ref /\ age' = age /\ toneAge' = 0
        BY <1>5, <2>2 DEF OneHzCmd, Local1HzStateMachine, Tone1HzISR
    <2>4. age <= StartBound
        BY <1>2, <2>2, SecondsRange, ClockFacts DEF StartsFly, StartBound
    <2>5. PICK o \in Int : CountIs(o)
        BY <1>1, <2>2 DEF SlipInv
    <2>6. PICK n \in Int : VirtualMET * Res + n * (MetWrap * Res) = ref.met + o
        BY <2>5 DEF CountIs
    <2>7. CASE VirtualMET' = VirtualMET
        <3>1. o + Lesser(toneAge', Res) <= age' + Res
            BY <1>2, <2>3, <2>5 DEF CountIs, Lesser
        <3>2. CountIs(o)'
            BY <2>3, <2>5, <2>7, <3>1 DEF CountIs
        <3> QED BY <1>2, <2>3, <2>4, <3>2
    <2>8. CASE VirtualMET' = (VirtualMET + 1) % MetWrap /\ Elapsed(ToneSignalLatch, clock) = Res
        <3>1. toneAge >= Res
            <4>1. Res < Wrap
                BY BoundFacts, ClockFacts DEF Lag
            <4> QED BY <1>1, <1>2, <2>8, <4>1, ClockFacts DEF ClockInv, LatchInv
        <3>2. PICK j \in Int : VirtualMET' * Res + j * (MetWrap * Res) = VirtualMET * Res + Res
            BY <1>1, <2>8, CountTone
        <3>3. VirtualMET' * Res + (n + j) * (MetWrap * Res) = ref'.met + (o + Res)
            <4>1. PICK p \in Nat \ {0} : p = MetWrap * Res
                BY <1>2
            <4>2. (n + j) * p = n * p + j * p /\ n * p \in Int /\ j * p \in Int
                BY <4>1
            <4>3. VirtualMET' * Res \in Int
                <5>1. VirtualMET' \in Int
                    BY <1>1, ClockFacts DEF TypeOK
                <5> QED BY <1>2, <5>1
            <4> QED BY <1>2, <2>3, <2>6, <3>2, <4>1, <4>2, <4>3
        <3>4. (o + Res) + Lesser(toneAge', Res) <= age' + Res /\ o + Res >= 1 - Res
            BY <1>2, <2>3, <2>5, <3>1 DEF CountIs, Lesser
        <3>5. CountIs(o + Res)'
            <4>1. n + j \in Int
                OBVIOUS
            <4> QED BY <3>3, <3>4, <4>1 DEF CountIs
        <3> QED BY <1>2, <2>3, <2>4, <3>5
    <2> QED BY <1>5, <2>7, <2>8 DEF OneHzCmd, Tone1HzISR
<1>6. CASE ToneData
    <2>1. CASE ToneVerify
        <3>1. /\ ref'.met = VirtualMET' * Res /\ age' = toneAge /\ toneAge' = toneAge /\ ~newTone'
            BY <1>1, <1>6, <2>1 DEF ToneData, ToneUpdate, ToneVerify, TypeOK
        <3>2. VirtualMET' * Res + 0 * (MetWrap * Res) = ref'.met + 0
            <4>1. VirtualMET' \in 0 .. MetWrap - 1
                BY <1>1 DEF TypeOK
            <4>2. VirtualMET' * Res \in METs
                BY <4>1, WholeMET
            <4>3. VirtualMET' * Res \in Nat
                BY <4>2, ClockFacts
            <4> QED BY <1>2, <3>1, <4>3
        <3>3. 0 + Lesser(toneAge', Res) <= age' + Res
            BY <1>2, <3>1 DEF Lesser
        <3>4. CountIs(0)'
            <4>1. \E n \in Int : VirtualMET' * Res + n * (MetWrap * Res) = ref'.met + 0
                BY <3>2
            <4>2. 0 >= 1 - Res
                BY <1>2
            <4> QED BY <3>3, <4>1, <4>2 DEF CountIs
        <3> QED BY <1>1, <3>1, <3>4 DEF METInv, SlipInv
    <2>2. CASE ~ToneVerify
        <3>1. UNCHANGED <<VirtualMET, ref, toneAge, age>> /\ ~newTone'
            BY <1>6, <2>2 DEF ToneData
        <3> QED BY <1>1, <1>same, <3>1 DEF METInv
    <2> QED BY <2>1, <2>2
<1>7. ASSUME NEW state, SetState(state) PROVE METInv'
    <2>1. /\ UNCHANGED <<VirtualMET, toneAge, age, newTone>> /\ ref'.met = ref.met
          /\ ref'.fly = "NO_FLY" => ref.fly = "NO_FLY"
        BY <1>1, <1>7 DEF SetState, Command, TypeOK
    <2> QED BY <1>1, <2>1 DEF METInv, SlipInv, CountIs
<1>8. ASSUME NEW met \in NewMETs, SetMET(met) PROVE METInv'
    <2>1. /\ ref'.met = met /\ VirtualMET' = Seconds(met) /\ age' = 0 /\ toneAge' = toneAge
          /\ met \in Nat
        BY <1>1, <1>8, ClockFacts DEF SetMET, Command, TypeOK
    <2>2. PICK q \in Nat, r \in 0 .. Res - 1 : q = met \div Res /\ met = Res * q + r
        BY <2>1, ClockFacts
    <2>3. VirtualMET' * Res + 0 * (MetWrap * Res) = ref'.met + (-r)
        <3>1. q * Res = Res * q /\ q * Res \in Nat
            BY <1>2
        <3>2. VirtualMET' = q
            BY <2>1, <2>2 DEF Seconds
        <3> QED BY <1>2, <2>1, <2>2, <3>1, <3>2
    <2>4. -r + Lesser(toneAge', Res) <= age' + Res /\ -r >= 1 - Res /\ -r \in Int
        BY <1>2, <2>1 DEF Lesser
    <2>5. CountIs(-r)'
        BY <2>3, <2>4 DEF CountIs
    <2>6. age' <= StartBound + toneAge'
        BY <1>2, <2>1
    <2> QED BY <1>1, <2>4, <2>5, <2>6 DEF METInv, SlipInv
<1> QED BY <1>3, <1>4, <1>5, <1>6, <1>7, <1>8 DEF Next, MainTask, GroundCommand

\* Nothing but time, SET MET and a tone that is used moves the MET.
LEMMA OnlyTonesMove ==
    ASSUME TypeOK, Next, ~Tick, ~SetsMET, ~(ToneData /\ ToneVerify)
    PROVE  CurrentMET' = CurrentMET
<1>1. CASE Local1HzTask \/ Tone1HzTask \/ ToneSignalCmd \/ ToneSend \/ ToneData
    BY <1>1 DEF Local1HzTask, Tone1HzTask, ToneSignalCmd, ToneSend, ToneData, CurrentMET, TimeSinceTone
<1>2. CASE OneHzCmd
    <2>1. CASE LatchesFly
        <3>1. ref'.met = CurrentMET /\ ref'.latch = clock /\ clock' = clock
            BY <1>2, <2>1 DEF OneHzCmd, Local1HzStateMachine, StartsFly, LatchesFly, TypeOK
        <3>2. TimeSinceTone' = 0
            BY <3>1, ElapsedTick DEF TimeSinceTone, TypeOK
        <3>3. CurrentMET \in 0 .. MetWrap * Res - 1 /\ MetWrap * Res \in Nat \ {0}
            BY ReferenceRange, ClockFacts
        <3>4. CurrentMET % (MetWrap * Res) = CurrentMET
            <4>1. CurrentMET \in Int
                BY <3>3
            <4> QED BY <3>3, <4>1, ModRange
        <3>5. CurrentMET' = (ref'.met + TimeSinceTone') % (MetWrap * Res)
            BY DEF CurrentMET
        <3>6. CurrentMET + 0 = CurrentMET
            BY <3>3
        <3> QED BY <3>1, <3>2, <3>4, <3>5, <3>6
    <2>2. CASE ~LatchesFly
        BY <1>2, <2>2 DEF OneHzCmd, Local1HzStateMachine, StartsFly, CurrentMET, TimeSinceTone, TypeOK
    <2> QED BY <2>1, <2>2
<1>3. ASSUME NEW state \in {"FLYWHEEL", "VALID", "INVALID"}, SetState(state)
      PROVE  CurrentMET' = CurrentMET
    <2>1. ref'.met = ref.met /\ ref'.latch = ref.latch /\ clock' = clock
        BY <1>3 DEF SetState, Command, TypeOK
    <2> QED BY <2>1 DEF CurrentMET, TimeSinceTone
<1> QED BY <1>1, <1>2, <1>3 DEF Next, MainTask, GroundCommand, SetsMET

\* A difference that is e, or e and whole roll-overs, is a jump of e, if e is
\* within the bounds.
LEMMA JumpIs ==
    ASSUME METOutlastsFlywheel, NEW e \in -MaxSlip .. Res, NEW j \in Int
    PROVE  LET period == MetWrap * Res
           IN  (((e + j * period) + period \div 2) % period) - period \div 2 = e
<1>1. PICK p \in Nat \ {0} : p = MetWrap * Res
    BY ClockFacts
<1>2. PICK h \in 0 .. p - 1 : h = p \div 2 /\ 2 * h <= p /\ p <= 2 * h + 1
    BY Z3
<1>3. MaxSlip \in Nat
    <2>1. MaxSlip = StartBound + (Res - 1)
        BY DEF MaxSlip, StartBound
    <2> QED BY <2>1, BoundFacts, ClockFacts
<1>4. p > 2 * MaxSlip /\ p >= 3 * Res
    <2>1. MetWrap >= 3 /\ p > 2 * MaxSlip
        BY <1>1, ClockFacts DEF METOutlastsFlywheel
    <2>2. PICK i \in Nat : MetWrap = 3 + i
        <3>1. MetWrap - 3 \in Nat
            BY <2>1, ClockFacts
        <3>2. MetWrap = 3 + (MetWrap - 3)
            BY ClockFacts
        <3> QED BY <3>1, <3>2
    <2>3. p = 3 * Res + i * Res /\ i * Res \in Nat
        BY <1>1, <2>2, ClockFacts
    <2> QED BY <2>1, <2>3, ClockFacts
<1>5. e + h \in 0 .. p - 1
    BY <1>2, <1>3, <1>4, ClockFacts
<1>6. (p * j + (e + h)) % p = e + h
    BY <1>5, ModIs
<1>7. p * j + (e + h) = (e + j * p) + h
    <2>1. p * j = j * p /\ p * j \in Int /\ e \in Int /\ h \in Int
        BY <1>2, <1>3, ClockFacts
    <2> QED BY <2>1
<1>8. ((e + j * p) + h) % p = e + h
    BY <1>6, <1>7
<1>9. (e + h) - h = e
    BY <1>2, <1>3, ClockFacts
<1> QED BY <1>1, <1>2, <1>8, <1>9

\* A tone that is used moves the MET ahead by at most a second and back by at
\* most MaxSlip.
LEMMA ToneJump ==
    ASSUME ClockOutlastsFlywheel, METOutlastsFlywheel, METInv, TypeOK', ToneData, ToneVerify
    PROVE  Jump(0) \in -MaxSlip .. Res
<1>0. TypeOK /\ ClockInv
    BY DEF METInv, ClockInv
<1>1. PICK p \in Nat \ {0} : p = MetWrap * Res
    BY ClockFacts
<1>2. /\ age \in Nat /\ toneAge = 0 /\ TimeSinceTone = age /\ newTone
      /\ Elapsed(ToneSignalLatch, clock) = 0
      /\ Res \in Nat \ {0} /\ StartBound \in Nat /\ ref.met \in Nat
      /\ MaxSlip = StartBound + (Res - 1)
    BY <1>0, AgesReal, ClockFacts, BoundFacts DEF ToneVerify, TypeOK, MaxSlip, StartBound
<1>3. PICK C \in Nat : C = CurrentMET /\ C \in METs
    BY <1>0, ReferenceRange, ClockFacts
<1>4. PICK v \in 0 .. MetWrap - 1 : v = VirtualMET' /\ v = ToneMET
    BY DEF ToneData, ToneUpdate, ToneVerify, TypeOK
<1>5. v * Res \in METs /\ v * Res \in Nat
    BY WholeMET, ClockFacts
<1>6. CurrentMET' = v * Res
    <2>1. ref'.met = v * Res /\ ref'.latch = ToneSignalLatch /\ clock' = clock
        BY <1>0, <1>4 DEF ToneData, ToneUpdate, ToneVerify, TypeOK
    <2>2. TimeSinceTone' = 0
        BY <1>2, <2>1 DEF TimeSinceTone
    <2>3. CurrentMET' = (v * Res + 0) % (MetWrap * Res)
        BY <2>1, <2>2 DEF CurrentMET
    <2>4. v * Res + 0 = v * Res
        BY <1>5
    <2>5. (v * Res) % (MetWrap * Res) = v * Res
        <3>1. PICK w \in Nat : w = v * Res /\ w \in 0 .. p - 1
            BY <1>1, <1>5 DEF METs
        <3>2. w % p = w
            <4>1. w \in Int
                BY <3>1
            <4> QED BY <3>1, <4>1, ModRange
        <3> QED BY <1>1, <3>1, <3>2
    <2> QED BY <2>3, <2>4, <2>5
<1>7. PICK e \in -MaxSlip .. Res, j \in Int : v * Res - C = e + j * p
    <2>1. CASE ref.fly = "IS_FLY"
        <3>1. PICK q \in Nat, r \in 0 .. Res - 1 : q = C \div Res /\ C = Res * q + r
            BY <1>2
        <3>2. v = q
            BY <1>3, <1>4, <2>1, <3>1 DEF ToneMET, Seconds
        <3>3. v * Res - C = -r + 0 * p
            <4>1. Res * q = q * Res /\ q * Res \in Nat
                BY <1>2
            <4> QED BY <1>1, <1>2, <3>1, <3>2, <4>1
        <3>4. -r \in -MaxSlip .. Res
            BY <1>2
        <3> QED BY <3>3, <3>4
    <2>2. CASE ref.fly = "NO_FLY"
        <3>1. v = VirtualMET /\ age <= StartBound
            BY <1>2, <1>4, <2>2 DEF METInv, SlipInv, ToneMET
        <3>2. PICK o \in Int : CountIs(o)
            BY <2>2 DEF METInv, SlipInv
        <3>3. PICK n \in Int : v * Res + n * p = ref.met + o
            BY <1>1, <3>1, <3>2 DEF CountIs
        <3>4. o >= 1 - Res /\ o <= age + Res
            BY <1>2, <3>2 DEF CountIs, Lesser
        <3>5. PICK m \in Int : ref.met + age = p * m + C
            <4>1. C = (ref.met + age) % p
                BY <1>1, <1>2, <1>3 DEF CurrentMET
            <4>2. ref.met + age \in Int
                BY <1>2
            <4>3. PICK x \in Int : x = ref.met + age
                BY <4>2
            <4>4. PICK m \in Int, r \in 0 .. p - 1 : r = x % p /\ x = p * m + r
                OBVIOUS
            <4> QED BY <4>1, <4>3, <4>4
        <3>6. v * Res - C = (o - age) + (m - n) * p
            <4>1. (m - n) * p = p * m - n * p /\ p * m \in Int /\ n * p \in Int
                BY <1>1
            <4> QED BY <1>2, <1>3, <1>5, <3>3, <3>5, <4>1
        <3>7. o - age \in -MaxSlip .. Res
            BY <1>2, <3>1, <3>4
        <3> QED BY <3>6, <3>7
    <2> QED BY <1>0, <2>1, <2>2 DEF TypeOK
<1>8. CurrentMET' - CurrentMET - 0 = e + j * p
    BY <1>3, <1>5, <1>6, <1>7
<1>9. (((e + j * (MetWrap * Res)) + (MetWrap * Res) \div 2) % (MetWrap * Res)) - (MetWrap * Res) \div 2 = e
    BY JumpIs
<1>10. Jump(0) = e
    BY <1>1, <1>8, <1>9 DEF Jump
<1> QED BY <1>10

\* Whatever tones are late, early or lost and however late the tasks are, no
\* step but SET MET moves the MET ahead by more than a second or back by more
\* than the flywheel takes to start and the fraction SET MET cut off, and time
\* passing moves it by exactly that time.
THEOREM METNeverLeaps ==
    ASSUME ClockOutlastsFlywheel, METOutlastsFlywheel PROVE Spec => METJumpBounded
<1> DEFINE Bounded == /\ Tick => Jump(1) = 0
                      /\ (~Tick /\ ~SetsMET) => Jump(0) \in -MaxSlip .. Res
<1>1. ASSUME METInv, METInv', NoWrapAround', Next PROVE Bounded
    <2>1. ClockInv /\ TypeOK /\ TypeOK'
        BY <1>1 DEF METInv, ClockInv
    <2>2. Tick => Jump(1) = 0
        BY <1>1, <2>1, TickMET
    <2>3. ASSUME ~Tick, ~SetsMET, ~(ToneData /\ ToneVerify) PROVE Jump(0) \in -MaxSlip .. Res
        <3>1. CurrentMET' = CurrentMET
            BY <1>1, <2>1, <2>3, OnlyTonesMove
        <3>2. CurrentMET \in Int
            BY <2>1, ReferenceRange, ClockFacts
        <3>3. PICK d \in Int : d = CurrentMET' - CurrentMET - 0 /\ d = 0
            BY <3>1, <3>2
        <3>4. ((d + (MetWrap * Res) \div 2) % (MetWrap * Res)) - (MetWrap * Res) \div 2 = 0
            BY <3>3, NoJump
        <3>5. Jump(0) = 0
            BY <3>3, <3>4 DEF Jump
        <3>6. MaxSlip \in Nat /\ Res \in Nat
            <4>1. MaxSlip = StartBound + (Res - 1)
                BY DEF MaxSlip, StartBound
            <4> QED BY <4>1, BoundFacts, ClockFacts
        <3> QED BY <3>5, <3>6
    <2>4. ASSUME ToneData, ToneVerify PROVE Jump(0) \in -MaxSlip .. Res
        BY <1>1, <2>1, <2>4, ToneJump
    <2> QED BY <2>2, <2>3, <2>4
<1>2. METInv /\ METInv' /\ NoWrapAround' /\ [Next]_vars => [Bounded]_vars
    BY <1>1
<1>3. Init => METInv
    BY METInit
<1>4. METInv /\ [Next]_vars => METInv'
    BY METStep
<1> HIDE DEF Bounded
<1>5. Spec => [][Bounded]_vars
    BY <1>2, <1>3, <1>4, ClockNeverWraps, PTL DEF Spec
<1> QED BY <1>5 DEF METJumpBounded, Bounded
=============================================================================
