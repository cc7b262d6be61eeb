---------------------------- MODULE TimeServices -----------------------------
(***************************************************************************)
(* Time Services as the mission configures it: a time server with an       *)
(* internal source, a virtual MET that counts tones, and a tone that is    *)
(* faked by its own one-hertz message ("time at the tone was").  The one   *)
(* hertz timer wakes a child task, which sends the OneHz message to the    *)
(* main task; its handler runs the flywheel state machine and the tone     *)
(* interrupt handler, which wakes a second child task, which sends the     *)
(* ToneSignal and ToneSend messages; ToneSend sends ToneData, and ToneData *)
(* pairs tone and data and moves the time reference.                       *)
(*                                                                         *)
(* The published reference is read and written as a whole here: module     *)
(* TimeReference shows why that is sound.  Times count units of 1/Res of a *)
(* second on a local clock that rolls over; a tone is on time when it is   *)
(* exactly a second after the last one, and data matches a tone when both  *)
(* fall in the same unit.  STCF and leap seconds, which nothing here       *)
(* reads, the counters and the events are left out.  ServerFlyState always *)
(* changes with ClockFlyState and stands for it.                           *)
(***************************************************************************)
EXTENDS Integers, Sequences

CONSTANTS
    Res,        \* units per second
    Wrap,       \* the local clock rolls over after Wrap units (MaxLocalClock)
    MetWrap,    \* the MET rolls over after MetWrap seconds (2^32)
    StartFly,   \* CFE_PLATFORM_TIME_CFG_START_FLY
    LatchFly,   \* CFE_PLATFORM_TIME_CFG_LATCH_FLY
    PipeDepth,  \* CFE_TIME_TASK_PIPE_DEPTH
    NewMETs,    \* payloads of the SET MET command, in units
    MaxLate,    \* bound: units the tasks may be behind
    MaxCmds     \* bound: ground commands

ASSUME TimeAssumption ==
    /\ {Res, Wrap, MetWrap, StartFly, LatchFly, PipeDepth} \subseteq Nat \ {0}
    /\ Wrap % Res = 0 /\ {MaxLate, MaxCmds} \subseteq Nat
    /\ NewMETs \subseteq 0 .. MetWrap * Res - 1

VARIABLES
    clock,            \* the local clock (CFE_PSP_GetTime)
    ref,              \* the published CFE_TIME_ReferenceState_t
    VirtualMET, ToneSignalLatch, Forced2Fly,
    newTone,          \* ToneSignalLatch was stored since the last ToneVerify
    localSem, toneSem,  \* LocalSemaphore, ToneSemaphore (binary)
    toneTask,         \* Tone1HzTask: "wait" on its semaphore or "send" ToneSend
    pipe,             \* the pipe of the main task
    late,             \* units since the tasks last were idle
    cmds,             \* ground commands so far
    age, toneAge      \* history: the real age of ref.latch and ToneSignalLatch

tone == <<VirtualMET, ToneSignalLatch, newTone>>
tasks == <<localSem, toneSem, toneTask, pipe>>
ages == <<age, toneAge>>
vars == <<clock, ref, tone, Forced2Fly, tasks, late, cmds, ages>>

Messages == {"OneHz", "ToneSignal", "ToneSend", "ToneData"}
Units == 0 .. Wrap - 1
METs == 0 .. MetWrap * Res - 1

(* The time from latch to now, when the clock rolled over at most once.     *)
Elapsed(latch, now) == (now - latch) % Wrap

(* CFE_TIME_GetReference: the time since the tone, and the MET. *)
TimeSinceTone == Elapsed(ref.latch, clock)
CurrentMET == (ref.met + TimeSinceTone) % (MetWrap * Res)

Seconds(units) == units \div Res

(* CFE_SB_TransmitMsg to the main task: a message for a full pipe is lost.   *)
(* Mutant: it is not.                                                        *)
MutPut(q, m) == Append(q, m)
Put(q, m) == IF Len(q) < PipeDepth THEN Append(q, m) ELSE q

Received(m) == pipe # <<>> /\ Head(pipe) = m

Idle == pipe = <<>> /\ ~localSem /\ ~toneSem /\ toneTask = "wait"
-----------------------------------------------------------------------------
(* A unit passes.  At each full second the timer calls Local1HzISR, which    *)
(* gives the semaphore.  The tasks are never more than MaxLate units behind. *)
Older(a) == IF a < Wrap THEN a + 1 ELSE a

Tick ==
    /\ Idle \/ late < MaxLate
    /\ clock' = (clock + 1) % Wrap
    /\ localSem' = (localSem \/ clock' % Res = 0)
    /\ late' = IF Idle THEN 0 ELSE late + 1
    /\ age' = Older(age) /\ toneAge' = Older(toneAge)
    /\ UNCHANGED <<ref, tone, Forced2Fly, toneSem, toneTask, pipe, cmds>>

Local1HzTask ==
    /\ localSem /\ localSem' = FALSE
    /\ pipe' = Put(pipe, "OneHz")
    /\ UNCHANGED <<clock, ref, tone, Forced2Fly, toneSem, toneTask, late, cmds, ages>>

(* Tone1HzTask sends two messages, between which others may be sent. *)
Tone1HzTask ==
    \/ /\ toneTask = "wait" /\ toneSem /\ toneSem' = FALSE
       /\ toneTask' = "send"
       /\ pipe' = Put(pipe, "ToneSignal")
       /\ UNCHANGED <<clock, ref, tone, Forced2Fly, localSem, late, cmds, ages>>
    \/ /\ toneTask = "send"
       /\ toneTask' = "wait"
       /\ pipe' = Put(pipe, "ToneSend")
       /\ UNCHANGED <<clock, ref, tone, Forced2Fly, localSem, toneSem, late, cmds, ages>>

(***************************************************************************)
(* OneHz: CFE_TIME_Local1HzStateMachine, then CFE_TIME_Tone1HzISR.         *)
(***************************************************************************)
(* Mutant: the flywheel starts at one second less. *)
MutStartFly == ref.fly = "NO_FLY" /\ Seconds(TimeSinceTone) >= StartFly - 1
StartsFly == ref.fly = "NO_FLY" /\ Seconds(TimeSinceTone) >= StartFly

(* Mutant: the flywheel never moves the latch. *)
MutLatchFly == FALSE
LatchesFly == ref.fly = "IS_FLY" /\ Seconds(TimeSinceTone) >= LatchFly

(* Both parts test the reference as it was before either changed it. *)
Local1HzStateMachine ==
    /\ ref' = IF StartsFly THEN [ref EXCEPT !.fly = "IS_FLY"]
              ELSE IF LatchesFly THEN [ref EXCEPT !.met = CurrentMET, !.latch = clock]
              ELSE ref
    /\ age' = IF LatchesFly THEN 0 ELSE age

(* A tone a second after the last one counts; any tone is latched. *)
Tone1HzISR ==
    LET good == Elapsed(ToneSignalLatch, clock) = Res
    IN  /\ VirtualMET' = IF good THEN (VirtualMET + 1) % MetWrap ELSE VirtualMET
        /\ toneSem' = (toneSem \/ good)
        /\ ToneSignalLatch' = clock /\ toneAge' = 0
        /\ newTone' = TRUE

OneHzCmd ==
    /\ Received("OneHz")
    /\ pipe' = Tail(pipe)
    /\ Local1HzStateMachine
    /\ Tone1HzISR
    /\ UNCHANGED <<clock, Forced2Fly, localSem, toneTask, late, cmds>>

ToneSignalCmd ==
    /\ Received("ToneSignal")
    /\ pipe' = Tail(pipe)
    /\ UNCHANGED <<clock, ref, tone, Forced2Fly, localSem, toneSem, toneTask, late, cmds, ages>>

(* With an internal source the contents of the data packet are not used. *)
ToneSend ==
    /\ Received("ToneSend")
    /\ pipe' = Put(Tail(pipe), "ToneData")
    /\ UNCHANGED <<clock, ref, tone, Forced2Fly, localSem, toneSem, toneTask, late, cmds, ages>>

(***************************************************************************)
(* ToneData: CFE_TIME_ToneVerify and CFE_TIME_ToneUpdate.                  *)
(***************************************************************************)
(* Mutant: a commanded flywheel is not looked at. *)
MutToneVerify == newTone /\ Elapsed(ToneSignalLatch, clock) = 0

(* The tone was not used before and is within the window, and the flywheel   *)
(* was not commanded.                                                        *)
ToneVerify == newTone /\ Elapsed(ToneSignalLatch, clock) = 0 /\ ~Forced2Fly

(* Mutant: the tone count is trusted after the flywheel. *)
MutToneMET == VirtualMET

(* In flywheel the tones counted may be too few: go by the clock. *)
ToneMET == IF ref.fly = "IS_FLY" THEN Seconds(CurrentMET) ELSE VirtualMET

ToneUpdate ==
    /\ VirtualMET' = ToneMET
    /\ ref' = [ref EXCEPT !.met = VirtualMET' * Res, !.latch = ToneSignalLatch, !.fly = "NO_FLY"]
    /\ age' = toneAge

ToneData ==
    /\ Received("ToneData")
    /\ pipe' = Tail(pipe)
    /\ \/ ToneVerify /\ ToneUpdate
       \/ ~ToneVerify /\ UNCHANGED <<VirtualMET, ref, age>>
    /\ newTone' = FALSE
    /\ UNCHANGED <<clock, ToneSignalLatch, Forced2Fly, localSem, toneSem, toneTask, late, cmds, toneAge>>

(***************************************************************************)
(* Ground commands.                                                        *)
(***************************************************************************)
Command ==
    /\ cmds < MaxCmds /\ cmds' = cmds + 1
    /\ UNCHANGED <<clock, ToneSignalLatch, newTone, tasks, late, toneAge>>

(* CFE_TIME_SetState: "FLYWHEEL", "VALID" or "INVALID". *)
SetState(state) ==
    /\ Command
    /\ Forced2Fly' = (state = "FLYWHEEL")
    /\ ref' = IF state = "FLYWHEEL" THEN [ref EXCEPT !.fly = "IS_FLY"]
              ELSE [ref EXCEPT !.set = IF state = "VALID" THEN "WAS_SET" ELSE "NOT_SET"]
    /\ UNCHANGED <<VirtualMET, age>>

SetMET(met) ==
    /\ Command
    /\ ref' = [ref EXCEPT !.met = met, !.latch = clock]
    /\ VirtualMET' = Seconds(met)
    /\ age' = 0
    /\ UNCHANGED Forced2Fly

-----------------------------------------------------------------------------
(* CFE_TIME_InitData without data from before the reset, at any time of the  *)
(* local clock; the first tone is measured from clock zero.                  *)
Init ==
    /\ clock \in Units
    /\ ref = [met |-> 0, latch |-> clock, set |-> "NOT_SET", fly |-> "IS_FLY"]
    /\ VirtualMET = 0 /\ ToneSignalLatch = 0 /\ newTone = FALSE /\ Forced2Fly = FALSE
    /\ localSem = FALSE /\ toneSem = FALSE /\ toneTask = "wait" /\ pipe = <<>>
    /\ late = 0 /\ cmds = 0 /\ age = 0 /\ toneAge = clock

MainTask == OneHzCmd \/ ToneSignalCmd \/ ToneSend \/ ToneData

GroundCommand ==
    \/ \E state \in {"FLYWHEEL", "VALID", "INVALID"} : SetState(state)
    \/ \E met \in NewMETs : SetMET(met)

Next == Tick \/ Local1HzTask \/ Tone1HzTask \/ MainTask \/ GroundCommand

Spec == Init /\ [][Next]_vars

(* Time goes on and the tasks of TIME are scheduled. *)
FairSpec ==
    Spec /\ WF_vars(Tick) /\ WF_vars(Local1HzTask) /\ WF_vars(Tone1HzTask) /\ WF_vars(MainTask)
-----------------------------------------------------------------------------
(***************************************************************************)
(* Properties.                                                             *)
(***************************************************************************)
(* Types: the pipe never holds more than its depth. *)
TypeOK ==
    /\ clock \in Units /\ ToneSignalLatch \in Units /\ VirtualMET \in 0 .. MetWrap - 1
    /\ ref \in [met : METs, latch : Units, set : {"NOT_SET", "WAS_SET"},
                fly : {"NO_FLY", "IS_FLY"}]
    /\ {newTone, Forced2Fly, localSem, toneSem} \subseteq BOOLEAN
    /\ toneTask \in {"wait", "send"}
    /\ pipe \in Seq(Messages) /\ Len(pipe) <= PipeDepth
    /\ late \in 0 .. MaxLate /\ cmds \in 0 .. MaxCmds
    /\ {age, toneAge} \subseteq 0 .. Wrap

(* "Prevent the local clock from completely wrapping around the time latched *)
(* at the tone" (Local1HzStateMachine): however long no tone is matched, the *)
(* time since the tone that GetReference computes is the real one.           *)
NoWrapAround == TimeSinceTone = age

(* The MET after a step minus the MET before it and the time that passed,    *)
(* taken in the half of the range around zero.                               *)
Jump(passed) ==
    LET period == MetWrap * Res
    IN  ((CurrentMET' - CurrentMET - passed + period \div 2) % period) - period \div 2

SetsMET == \E met \in NewMETs : SetMET(met)

(* How far the MET can fall back at a tone that is used: the seconds after   *)
(* which the flywheel starts, in which no tone may have counted, and the     *)
(* fraction of a second that SET MET does not pass on to the tone count.     *)
MaxSlip == (StartFly * Res - 1) + (Res - 1)

(* Whatever tones are late, early or lost, however late the tasks are and    *)
(* however the clock goes in and out of flywheel, no step but SET MET moves  *)
(* the MET ahead by more than a second or back by more than MaxSlip, and     *)
(* time passing moves it by exactly that time.                               *)
METJumpBounded ==
    [][ /\ Tick => Jump(1) = 0
        /\ (~Tick /\ ~SetsMET) => Jump(0) \in -MaxSlip .. Res ]_vars

(* Commanded into flywheel, the clock runs free until the next clock state   *)
(* command: no tone, on time or not, ends the flywheel or moves the MET.     *)
CommandedFlywheelFree ==
    [][Forced2Fly /\ Forced2Fly' /\ ~SetsMET =>
         ref'.fly = "IS_FLY" /\ Jump(IF Tick THEN 1 ELSE 0) = 0]_vars

(* Once the tasks keep up with the timer and no flywheel is commanded, the   *)
(* clock leaves the flywheel for good.                                       *)
FlywheelEnds ==
    <>[](late = 0 /\ ~Forced2Fly) => <>[](ref.fly = "NO_FLY")
=============================================================================
