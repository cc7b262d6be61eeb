--------------------------- MODULE MCSoftwareBus ---------------------------
(***************************************************************************)
(* Instances of SoftwareBus for TLC.                                       *)
(***************************************************************************)
EXTENDS SoftwareBus, TLC

CONSTANTS t1, t2, t3, a1, a2

\* A sender and a receiver, each an application of its own.
TwoApps == (t1 :> a1) @@ (t2 :> a2)

\* Two tasks of one application and a task of another.
Siblings == (t1 :> a1) @@ (t2 :> a1) @@ (t3 :> a2)

\* Pipe deletion by one task racing transmitters and the reading task, with
\* no clean-up, options or commands.
RaceNext ==
  \/ \E t \in Tasks :
       \/ AllocateMessageBuffer(t) \/ ReleaseMessageBuffer(t)
       \/ Transmit(t) \/ Receive(t) \/ Create(t) \/ Drain(t)
       \/ \E p \in PipeIds : \/ DeletePipe(t, p)
                             \/ \E m \in MsgIds : Subscribe(t, m, p)

RaceSpec == Init /\ [][RaceNext]_vars

\* Every ready task eventually runs.
LiveSpec == RaceSpec /\ \A t \in Tasks : WF_vars(InCall(t))

BufSymmetry == Permutations(Bufs)
=============================================================================
