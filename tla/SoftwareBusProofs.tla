-------------------------- MODULE SoftwareBusProofs --------------------------
(***************************************************************************)
(* Theorems about SoftwareBus, for every number of tasks, applications,    *)
(* messages, buffers and pipes.                                            *)
(***************************************************************************)
EXTENDS SoftwareBus, FiniteSetTheorems, TLAPS

\* CFE_SB_LocatePipeDescByID finds a slot of the pipe table.
LEMMA SlotType == ASSUME NEW p \in Int PROVE Slot(p) \in Slots
  BY SBAssumption, SMT DEF Slot, Slots

\* A decremented count is still a count.
LEMMA DecrType == ASSUME NEW n \in Nat PROVE Decr(n) \in Nat
  BY DEF Decr

\* Sets of pipes are finite and can be counted.
LEMMA PipeSetFinite ==
  ASSUME NEW S \in SUBSET PipeIds
  PROVE  IsFiniteSet(S) /\ Cardinality(S) \in Nat
<1>1. IsFiniteSet(PipeIds)
  BY SBAssumption, FS_Interval DEF PipeIds
<1>2. IsFiniteSet(S)
  BY <1>1, FS_Subset
<1> QED BY <1>2, FS_CardinalityType

\* What the accounting helpers return has the type of what they update.
LEMMA UnchargeType ==
  ASSUME TypeOK, NEW p \in PipeIds, NEW m
  PROVE  /\ UnchargePipe(p) \in [Slots -> PipeDesc]
         /\ UnchargeDest(m, p) \in [MsgIds -> [PipeIds -> Nat]]
<1>1. Slot(p) \in Slots
  BY SlotType DEF PipeIds
<1>2. UnchargePipe(p) \in [Slots -> PipeDesc]
  BY <1>1, DecrType DEF TypeOK, PipesTyped, UnchargePipe, PipeDesc
<1>3. UnchargeDest(m, p) \in [MsgIds -> [PipeIds -> Nat]]
  BY DecrType DEF TypeOK, RoutesTyped, UnchargeDest
<1> QED BY <1>2, <1>3

\* Dropping a reference leaves every use count a count.
LEMMA DecrBufType ==
  ASSUME TypeOK, NEW b PROVE DecrBufUseCnt(b) \in [Bufs -> Nat]
  BY DecrType DEF TypeOK, BufsTyped, DecrBufUseCnt

\* The variables keep their types in every step.
LEMMA TypeStep == TypeOK /\ [Next]_vars => TypeOK'
<1> SUFFICES ASSUME TypeOK, [Next]_vars PROVE TypeOK'
  OBVIOUS
<1> USE SBAssumption DEF TypeOK
<1>a. UNCHANGED pipeVars => PipesTyped'
  BY DEF PipesTyped, pipeVars
<1>b. UNCHANGED routeVars => RoutesTyped'
  BY DEF RoutesTyped, routeVars
<1>c. UNCHANGED bufVars => BufsTyped'
  BY DEF BufsTyped, bufVars
<1>d. UNCHANGED queueVars => QueuesTyped'
  BY DEF QueuesTyped, queueVars
<1>e. UNCHANGED procVars => ProcsTyped'
  BY DEF ProcsTyped, procVars
<1>1. ASSUME NEW t \in Tasks, AllocateMessageBuffer(t) PROVE TypeOK'
  <2>1. BufsTyped'
    BY <1>1 DEF AllocateMessageBuffer, BufsTyped
  <2>2. ProcsTyped'
    BY <1>1 DEF AllocateMessageBuffer, ProcsTyped, Hold, Goto, PC, Procs
  <2> QED BY <2>1, <2>2, <1>a, <1>b, <1>d, <1>1 DEF AllocateMessageBuffer
<1>2. ASSUME NEW t \in Tasks, ReleaseMessageBuffer(t) PROVE TypeOK'
  <2>1. BufsTyped'
    BY <1>2, DecrBufType DEF ReleaseMessageBuffer, BufsTyped
  <2>2. ProcsTyped'
    BY <1>2 DEF ReleaseMessageBuffer, ProcsTyped, Hold, Return, Goto, NoPipe, PC, Procs, PipeIds
  <2> QED BY <2>1, <2>2, <1>a, <1>b, <1>d, <1>2 DEF ReleaseMessageBuffer
<1>3. ASSUME NEW t \in Tasks, NEW m \in MsgIds, FindDestinations(t, m) PROVE TypeOK'
  <2> WithinLimit(t, m) \in SUBSET PipeIds
    BY DEF WithinLimit, Destinations, RoutesTyped
  <2> Cardinality(WithinLimit(t, m)) \in Nat
    BY PipeSetFinite
  <2>1. PipesTyped'
    BY <1>3 DEF FindDestinations, PipesTyped, PipeDesc
  <2>2. RoutesTyped'
    BY <1>3 DEF FindDestinations, RoutesTyped
  <2>3. BufsTyped'
    <3>1. UseCount' \in [Bufs -> Nat]
      <4>1. PICK n \in Nat : n = Cardinality(WithinLimit(t, m))
        OBVIOUS
      <4>2. UseCount' = [UseCount EXCEPT ![buf[t]] = @ + n]
        BY <1>3, <4>1 DEF FindDestinations
      <4>3. buf[t] \in Bufs
        BY <1>3 DEF FindDestinations, ProcsTyped, Procs
      <4> QED BY <4>2, <4>3 DEF BufsTyped
    <3>2. /\ Owner' \in [Bufs -> Apps \cup {NULL}]
          /\ MsgId' \in [Bufs -> MsgIds \cup {NULL}]
      BY <1>3 DEF FindDestinations, BufsTyped
    <3> QED BY <3>1, <3>2 DEF BufsTyped
  <2>4. ProcsTyped'
    BY <1>3 DEF FindDestinations, ProcsTyped, Goto, PC, Procs
  <2> QED BY <2>1, <2>2, <2>3, <2>4, <1>d, <1>3 DEF FindDestinations
<1>4. ASSUME NEW t \in Tasks, QueuePut(t) PROVE TypeOK'
  <2>1. QueuesTyped'
    BY <1>4 DEF QueuePut, QueuesTyped, ProcsTyped, Procs
  <2>2. ProcsTyped'
    BY <1>4 DEF QueuePut, ProcsTyped, Procs
  <2> QED BY <2>1, <2>2, <1>a, <1>b, <1>c, <1>4 DEF QueuePut
<1>5. ASSUME NEW t \in Tasks, QueuePutFails(t) PROVE TypeOK'
  <2>1. ProcsTyped'
    BY <1>5 DEF QueuePutFails, ProcsTyped, Goto, PC, Procs
  <2> QED BY <2>1, <1>a, <1>b, <1>c, <1>d, <1>5 DEF QueuePutFails
<1>6. ASSUME NEW t \in Tasks, UndoPut(t) PROVE TypeOK'
  <2> pipe[t] \in PipeIds /\ Slot(pipe[t]) \in Slots
    BY SlotType DEF ProcsTyped, PipeIds, Procs
  <2>1. PipesTyped'
    BY <1>6, UnchargeType DEF UndoPut, PipesTyped
  <2>2. RoutesTyped'
    BY <1>6, UnchargeType DEF UndoPut, RoutesTyped
  <2>3. BufsTyped'
    BY <1>6, DecrBufType DEF UndoPut, BufsTyped
  <2>4. ProcsTyped'
    BY <1>6 DEF UndoPut, ProcsTyped, Goto, PC, Procs
  <2> QED BY <2>1, <2>2, <2>3, <2>4, <1>d, <1>6 DEF UndoPut
<1>7. ASSUME NEW t \in Tasks, TransmitFinish(t) PROVE TypeOK'
  <2>1. BufsTyped'
    BY <1>7, DecrBufType DEF TransmitFinish, BufsTyped
  <2>2. ProcsTyped'
    BY <1>7 DEF TransmitFinish, ProcsTyped, Hold, Return, Goto, NoPipe, PC, Procs, PipeIds
  <2> QED BY <2>1, <2>2, <1>a, <1>b, <1>d, <1>7 DEF TransmitFinish
<1>8. ASSUME NEW t \in Tasks, NEW p \in PipeIds, ReceiveBuffer(t, p) PROVE TypeOK'
  <2> Slot(p) \in Slots
    BY SlotType DEF PipeIds
  <2>1. PipesTyped'
    BY <1>8 DEF ReceiveBuffer, PipesTyped, PipeDesc
  <2>2. BufsTyped'
    BY <1>8, DecrBufType DEF ReceiveBuffer, BufsTyped, ReleaseLast
  <2>3. ProcsTyped'
    BY <1>8 DEF ReceiveBuffer, ProcsTyped, Goto, PC, Procs
  <2> QED BY <2>1, <2>2, <2>3, <1>b, <1>d, <1>8 DEF ReceiveBuffer
<1>9. ASSUME NEW t \in Tasks, QueueGet(t) PROVE TypeOK'
  <2> pipe[t] \in PipeIds /\ Slot(pipe[t]) \in Slots
    BY SlotType DEF ProcsTyped, PipeIds, Procs
  <2>0. Head(queue[pipe[t]]) \in Bufs /\ Tail(queue[pipe[t]]) \in Seq(Bufs)
    BY <1>9 DEF QueueGet, QueuesTyped
  <2>1. QueuesTyped'
    BY <1>9 DEF QueueGet, QueuesTyped
  <2>2. ProcsTyped'
    BY <1>9, <2>0 DEF QueueGet, ProcsTyped, Goto, PC, Procs, Hold
  <2> QED BY <2>1, <2>2, <1>a, <1>b, <1>c, <1>9 DEF QueueGet
<1>10. ASSUME NEW t \in Tasks, QueueGetFails(t) PROVE TypeOK'
  <2>1. ProcsTyped'
    BY <1>10 DEF QueueGetFails, ProcsTyped, Return, Goto, NoPipe, PC, Procs, PipeIds
  <2> QED BY <2>1, <1>a, <1>b, <1>c, <1>d, <1>10 DEF QueueGetFails
<1>11. ASSUME NEW t \in Tasks, ExportReference(t) PROVE TypeOK'
  <2> pipe[t] \in PipeIds /\ Slot(pipe[t]) \in Slots
    BY SlotType DEF ProcsTyped, PipeIds, Procs
  <2>1. PipesTyped'
    <3>1. PICK u \in [Slots -> PipeDesc] : u = UnchargePipe(pipe[t])
      BY UnchargeType
    <3>2. buf[t] \in Bufs
      BY <1>11 DEF ExportReference, ProcsTyped, Procs
    <3>3. [u EXCEPT ![Slot(pipe[t])].last = buf[t]] \in [Slots -> PipeDesc]
      BY <3>2 DEF PipeDesc
    <3> QED BY <1>11, <3>1, <3>3 DEF ExportReference, PipesTyped
  <2>2. RoutesTyped'
    BY <1>11, UnchargeType DEF ExportReference, RoutesTyped
  <2>3. BufsTyped'
    BY <1>11, DecrBufType DEF ExportReference, BufsTyped
  <2>4. ProcsTyped'
    BY <1>11 DEF ExportReference, ProcsTyped, Hold, Return, Goto, NoPipe, PC, Procs, PipeIds
  <2> QED BY <2>1, <2>2, <2>3, <2>4, <1>d, <1>11 DEF ExportReference
<1>12. ASSUME NEW t \in Tasks, CreatePipe(t) PROVE TypeOK'
  <2>1. PipesTyped'
    <3>1. PICK i \in FreeIds :
            /\ i \in PipeIds
            /\ pipeTbl' = [pipeTbl EXCEPT ![Slot(i)] = [EmptyPipeDesc EXCEPT !.id = RESERVED]]
            /\ lastPipeId' = i
      BY <1>12 DEF CreatePipe
    <3>2. [EmptyPipeDesc EXCEPT !.id = RESERVED] \in PipeDesc
      BY DEF EmptyPipeDesc, PipeDesc, RESERVED
    <3>3. pipeTbl' \in [Slots -> PipeDesc]
      BY <3>1, <3>2 DEF PipesTyped
    <3>4. lastPipeId' \in 0..MaxPipeId /\ pipesInUse' \in Int
      BY <1>12, <3>1 DEF CreatePipe, PipesTyped, PipeIds
    <3> QED BY <3>3, <3>4 DEF PipesTyped
  <2>2. ProcsTyped'
    BY <1>12 DEF CreatePipe, ProcsTyped, Goto, PC, Procs
  <2> QED BY <2>1, <2>2, <1>b, <1>c, <1>d, <1>12 DEF CreatePipe
<1>13. ASSUME NEW t \in Tasks, QueueCreate(t) PROVE TypeOK'
  <2> pipe[t] \in PipeIds /\ Slot(pipe[t]) \in Slots
    BY SlotType DEF ProcsTyped, PipeIds, Procs
  <2>1. QueuesTyped'
    BY <1>13 DEF QueueCreate, QueuesTyped
  <2>2. ProcsTyped'
    BY <1>13 DEF QueueCreate, ProcsTyped, Goto, PC, Procs
  <2> QED BY <2>1, <2>2, <1>a, <1>b, <1>c, <1>13 DEF QueueCreate
<1>14. ASSUME NEW t \in Tasks, QueueCreateFails(t) PROVE TypeOK'
  <2>1. ProcsTyped'
    BY <1>14 DEF QueueCreateFails, ProcsTyped, Goto, PC, Procs
  <2> QED BY <2>1, <1>a, <1>b, <1>c, <1>d, <1>14 DEF QueueCreateFails
<1>15. ASSUME NEW t \in Tasks, PublishPipe(t) PROVE TypeOK'
  <2> pipe[t] \in PipeIds /\ Slot(pipe[t]) \in Slots
    BY SlotType DEF ProcsTyped, PipeIds, Procs
  <2>1. PipesTyped'
    BY <1>15 DEF PublishPipe, PipesTyped, PipeDesc
  <2>2. ProcsTyped'
    BY <1>15 DEF PublishPipe, ProcsTyped, Return, Goto, NoPipe, PC, Procs, PipeIds
  <2> QED BY <2>1, <2>2, <1>b, <1>c, <1>d, <1>15 DEF PublishPipe
<1>16. ASSUME NEW t \in Tasks, UnreservePipe(t) PROVE TypeOK'
  <2> pipe[t] \in PipeIds /\ Slot(pipe[t]) \in Slots
    BY SlotType DEF ProcsTyped, PipeIds, Procs
  <2>1. PipesTyped'
    BY <1>16 DEF UnreservePipe, PipesTyped, PipeDesc
  <2>2. ProcsTyped'
    BY <1>16 DEF UnreservePipe, ProcsTyped, Return, Goto, NoPipe, PC, Procs, PipeIds
  <2> QED BY <2>1, <2>2, <1>b, <1>c, <1>d, <1>16 DEF UnreservePipe
<1>17. ASSUME NEW x \in Procs, NEW p \in PipeIds, NEW app, UnlinkPipe(x, p, app) PROVE TypeOK'
  <2> Slot(p) \in Slots
    BY SlotType DEF PipeIds
  <2> Cardinality({m \in MsgIds : p \in Subs[m]}) \in Nat
    BY FS_Subset, FS_CardinalityType
  <2>1. PipesTyped'
    BY <1>17 DEF UnlinkPipe, PipesTyped, PipeDesc
  <2>2. RoutesTyped'
    BY <1>17 DEF UnlinkPipe, RoutesTyped, RemovePipeFromRoutes
  <2>3. ProcsTyped'
    BY <1>17 DEF UnlinkPipe, ProcsTyped, PipesTyped, PipeDesc, Hold, Goto, PC, Procs
  <2> QED BY <2>1, <2>2, <2>3, <1>c, <1>d, <1>17 DEF UnlinkPipe
<1>18. ASSUME NEW x \in Procs, DrainRelease(x) PROVE TypeOK'
  <2>1. BufsTyped'
    BY <1>18, DecrBufType DEF DrainRelease, BufsTyped
  <2>2. ProcsTyped'
    BY <1>18 DEF DrainRelease, ProcsTyped, Hold
  <2> QED BY <2>1, <2>2, <1>a, <1>b, <1>d, <1>18 DEF DrainRelease
<1>19. ASSUME NEW x \in Procs, DrainGet(x) PROVE TypeOK'
  <2> pipe[x] \in PipeIds /\ Slot(pipe[x]) \in Slots
    BY SlotType DEF ProcsTyped, PipeIds
  <2>0. Head(queue[pipe[x]]) \in Bufs /\ Tail(queue[pipe[x]]) \in Seq(Bufs)
    BY <1>19 DEF DrainGet, QueuesTyped
  <2>1. QueuesTyped'
    BY <1>19 DEF DrainGet, QueuesTyped
  <2>2. ProcsTyped'
    BY <1>19, <2>0 DEF DrainGet, ProcsTyped, Hold
  <2> QED BY <2>1, <2>2, <1>a, <1>b, <1>c, <1>19 DEF DrainGet
<1>20. ASSUME NEW x \in Procs, DrainEmpty(x) PROVE TypeOK'
  <2>1. ProcsTyped'
    BY <1>20 DEF DrainEmpty, ProcsTyped, Goto, PC, Procs
  <2> QED BY <2>1, <1>a, <1>b, <1>c, <1>d, <1>20 DEF DrainEmpty
<1>21. ASSUME NEW x \in Procs, QueueDelete(x) PROVE TypeOK'
  <2>1. QueuesTyped'
    BY <1>21 DEF QueueDelete, QueuesTyped
  <2>2. ProcsTyped'
    BY <1>21 DEF QueueDelete, ProcsTyped, Goto, PC, Procs
  <2> QED BY <2>1, <2>2, <1>a, <1>b, <1>c, <1>21 DEF QueueDelete
<1>22. ASSUME NEW x \in Procs, FreePipe(x) PROVE TypeOK'
  <2> pipe[x] \in PipeIds /\ Slot(pipe[x]) \in Slots
    BY SlotType DEF ProcsTyped, PipeIds
  <2>1. PipesTyped'
    BY <1>22 DEF FreePipe, PipesTyped, PipeDesc
  <2>2. ProcsTyped'
    BY <1>22 DEF FreePipe, ProcsTyped, Return, Goto, NoPipe, PC, Procs, PipeIds
  <2> QED BY <2>1, <2>2, <1>b, <1>c, <1>d, <1>22 DEF FreePipe
<1>23. ASSUME NEW t \in Tasks, NEW m \in MsgIds, NEW p \in PipeIds, Subscribe(t, m, p) PROVE TypeOK'
  <2>1. RoutesTyped'
    BY <1>23 DEF Subscribe, RoutesTyped
  <2> QED BY <2>1, <1>a, <1>c, <1>d, <1>e, <1>23 DEF Subscribe
<1>24. ASSUME NEW t \in Tasks, NEW m \in MsgIds, NEW p \in PipeIds, Unsubscribe(t, m, p) PROVE TypeOK'
  <2>1. RoutesTyped'
    BY <1>24 DEF Unsubscribe, RoutesTyped
  <2> QED BY <2>1, <1>a, <1>c, <1>d, <1>e, <1>24 DEF Unsubscribe
<1>25. ASSUME NEW t \in Tasks, NEW p \in PipeIds, NEW ignore \in BOOLEAN, SetPipeOpts(t, p, ignore) PROVE TypeOK'
  <2> Slot(p) \in Slots
    BY SlotType DEF PipeIds
  <2>1. PipesTyped'
    BY <1>25 DEF SetPipeOpts, PipesTyped, PipeDesc
  <2> QED BY <2>1, <1>b, <1>c, <1>d, <1>e, <1>25 DEF SetPipeOpts
<1>26. ASSUME NEW m \in MsgIds, NEW p \in PipeIds, EnableRoute(m, p) PROVE TypeOK'
  <2>1. RoutesTyped'
    BY <1>26 DEF EnableRoute, RoutesTyped
  <2> QED BY <2>1, <1>a, <1>c, <1>d, <1>e, <1>26 DEF EnableRoute
<1>27. ASSUME NEW m \in MsgIds, NEW p \in PipeIds, DisableRoute(m, p) PROVE TypeOK'
  <2>1. RoutesTyped'
    BY <1>27 DEF DisableRoute, RoutesTyped
  <2> QED BY <2>1, <1>a, <1>c, <1>d, <1>e, <1>27 DEF DisableRoute
<1>28. ASSUME NEW t \in Tasks, ExitApp(t) PROVE TypeOK'
  <2>1. ProcsTyped'
    BY <1>28 DEF ExitApp, ProcsTyped, Goto, PC, Procs
  <2> QED BY <2>1, <1>a, <1>b, <1>c, <1>d, <1>28 DEF ExitApp
<1>29. ASSUME NEW a \in Apps, ZeroCopyReleaseAppId(a) PROVE TypeOK'
  <2>1. BufsTyped'
    BY <1>29, DecrType DEF ZeroCopyReleaseAppId, BufsTyped
  <2>2. ProcsTyped'
    BY <1>29 DEF ZeroCopyReleaseAppId, ProcsTyped, Exited, Procs
  <2> QED BY <2>1, <2>2, <1>a, <1>b, <1>d, <1>29 DEF ZeroCopyReleaseAppId
<1>30. ASSUME NEW t \in Tasks, TaskStep(t) PROVE TypeOK'
  <2>1. CASE \E p \in PipeIds : DeletePipe(t, p)
    BY <2>1, <1>17 DEF DeletePipe, Procs
  <2> QED
    BY <1>30, <2>1, <1>1, <1>2, <1>3, <1>4, <1>5, <1>6, <1>7, <1>8, <1>9, <1>10, <1>11,
       <1>12, <1>13, <1>14, <1>15, <1>16, <1>23, <1>24, <1>25, <1>28
       DEF TaskStep, Transmit, Receive, Create, Configure
<1>31. ASSUME NEW x \in Procs, Drain(x) PROVE TypeOK'
  BY <1>31, <1>18, <1>19, <1>20, <1>21, <1>22 DEF Drain
<1>32. ASSUME CleanUpApp PROVE TypeOK'
  BY <1>32, <1>17, <1>29 DEF CleanUpApp, CleanUpPipe, Procs
<1>33. CASE UNCHANGED vars
  BY <1>33, <1>a, <1>b, <1>c, <1>d, <1>e DEF vars
<1> QED
  BY <1>26, <1>27, <1>30, <1>31, <1>32, <1>33 DEF Next, Command

\* The initial state has the types.
LEMMA TypeInit == Init => TypeOK
<1> SUFFICES ASSUME Init PROVE TypeOK
  OBVIOUS
<1> USE SBAssumption DEF Init
<1>1. EmptyPipeDesc \in PipeDesc
  BY DEF EmptyPipeDesc, PipeDesc, FREE
<1>2. PipesTyped
  BY <1>1 DEF PipesTyped
<1>3. RoutesTyped /\ BufsTyped
  BY DEF RoutesTyped, BufsTyped
<1>4. QueuesTyped
  BY DEF QueuesTyped
<1>5. ProcsTyped
  BY DEF ProcsTyped, PC, NoPipe, PipeIds, Procs
<1> QED BY <1>2, <1>3, <1>4, <1>5 DEF TypeOK

\* The Software Bus never leaves its types: no depth, use count or message
\* count goes below zero, and no queue holds anything but buffers.
THEOREM TypeCorrect == Spec => []TypeOK
  BY TypeInit, TypeStep, PTL DEF Spec

(***************************************************************************)
(* The pipe table.  ReservedByOne and RoutesLive are inductive together,   *)
(* given the types: the reservation is what keeps the slot of a pipe that  *)
(* is being created or deleted away from everyone else.                    *)
(***************************************************************************)
TableInv == TypeOK /\ ReservedByOne /\ RoutesLive

\* A process that is deleting a pipe.
Deleting(x) == pc[x] \in {"drain", "qdelete", "free"}

\* What most steps leave alone: the ids in the table, the processes that
\* create or delete pipes, the routes, the set of queues, the statistics.
QuietStep ==
  /\ \A s \in Slots : pipeTbl'[s].id = pipeTbl[s].id
  /\ \A x \in Procs : Busy(x)' <=> Busy(x)
  /\ \A x \in Procs : Busy(x) => pipe'[x] = pipe[x]
  /\ \A t \in Tasks : pc'[t] = "publish" => pc[t] = "publish" /\ pipe'[t] = pipe[t]
  /\ \A x \in Procs : Deleting(x)' <=> Deleting(x)
  /\ Subs' = Subs /\ qOpen' = qOpen
  /\ pipesInUse' = pipesInUse /\ subscriptionsInUse' = subscriptionsInUse

\* A quiet step keeps both invariants of the pipe table.
LEMMA QuietKeeps ==
  ASSUME TableInv, TypeOK', QuietStep PROVE ReservedByOne' /\ RoutesLive'
<1>1. ReservedByOne'
  BY DEF TableInv, QuietStep, ReservedByOne
<1>2. LivePipes' = LivePipes
  BY SlotType DEF QuietStep, LivePipes, PipeDescIsMatch, PipeIds, Slot
<1>3. RoutesLive'
  BY <1>2 DEF TableInv, QuietStep, RoutesLive
<1> QED BY <1>1, <1>3

\* The steps that are quiet.
LEMMA QuietSteps ==
  ASSUME TypeOK,
         \/ \E t \in Tasks :
              \/ AllocateMessageBuffer(t) \/ ReleaseMessageBuffer(t)
              \/ Transmit(t) \/ Receive(t) \/ ExitApp(t)
              \/ \E p \in PipeIds, ignore \in BOOLEAN : SetPipeOpts(t, p, ignore)
         \/ \E x \in Procs : DrainRelease(x) \/ DrainGet(x) \/ DrainEmpty(x)
         \/ Command
         \/ \E a \in Apps : ZeroCopyReleaseAppId(a)
         \/ UNCHANGED vars
  PROVE  QuietStep
<1> USE SBAssumption DEF TypeOK, PipesTyped, ProcsTyped, QuietStep, Busy, Deleting
<1>1. ASSUME NEW t \in Tasks, AllocateMessageBuffer(t) PROVE QuietStep
  BY <1>1 DEF AllocateMessageBuffer, Procs, Goto, pipeVars, routeVars, queueVars
<1>2. ASSUME NEW t \in Tasks, ReleaseMessageBuffer(t) PROVE QuietStep
  BY <1>2 DEF ReleaseMessageBuffer, Procs, Goto, Return, pipeVars, routeVars, queueVars
<1>3. ASSUME NEW t \in Tasks, NEW m \in MsgIds, FindDestinations(t, m) PROVE QuietStep
  BY <1>3 DEF FindDestinations, Procs, Goto, queueVars, PipeDesc
<1>4. ASSUME NEW t \in Tasks, QueuePut(t) PROVE QuietStep
  BY <1>4 DEF QueuePut, Procs, pipeVars, routeVars
<1>5. ASSUME NEW t \in Tasks, QueuePutFails(t) PROVE QuietStep
  BY <1>5 DEF QueuePutFails, Procs, Goto, pipeVars, routeVars, queueVars
<1>6. ASSUME NEW t \in Tasks, UndoPut(t) PROVE QuietStep
  BY <1>6 DEF UndoPut, Procs, Goto, UnchargePipe, PipeDesc, queueVars
<1>7. ASSUME NEW t \in Tasks, TransmitFinish(t) PROVE QuietStep
  BY <1>7 DEF TransmitFinish, Procs, Goto, Return, pipeVars, routeVars, queueVars
<1>8. ASSUME NEW t \in Tasks, NEW p \in PipeIds, ReceiveBuffer(t, p) PROVE QuietStep
  BY <1>8 DEF ReceiveBuffer, Procs, Goto, PipeDesc, routeVars, queueVars
<1>9. ASSUME NEW t \in Tasks, QueueGet(t) PROVE QuietStep
  BY <1>9 DEF QueueGet, Procs, Goto, pipeVars, routeVars
<1>10. ASSUME NEW t \in Tasks, QueueGetFails(t) PROVE QuietStep
  BY <1>10 DEF QueueGetFails, Procs, Goto, Return, pipeVars, routeVars, queueVars
<1>11. ASSUME NEW t \in Tasks, ExportReference(t) PROVE QuietStep
  BY <1>11 DEF ExportReference, Procs, Goto, Return, UnchargePipe, PipeDesc, queueVars
<1>12. ASSUME NEW t \in Tasks, ExitApp(t) PROVE QuietStep
  BY <1>12 DEF ExitApp, Procs, Goto, pipeVars, routeVars, queueVars
<1>13. ASSUME NEW t \in Tasks, NEW p \in PipeIds, NEW ignore \in BOOLEAN, SetPipeOpts(t, p, ignore) PROVE QuietStep
  BY <1>13 DEF SetPipeOpts, Procs, PipeDesc, routeVars, queueVars, procVars
<1>14. ASSUME NEW x \in Procs, DrainRelease(x) PROVE QuietStep
  BY <1>14 DEF DrainRelease, Procs, pipeVars, routeVars, queueVars
<1>15. ASSUME NEW x \in Procs, DrainGet(x) PROVE QuietStep
  BY <1>15 DEF DrainGet, Procs, pipeVars, routeVars
<1>16. ASSUME NEW x \in Procs, DrainEmpty(x) PROVE QuietStep
  BY <1>16 DEF DrainEmpty, Procs, Goto, pipeVars, routeVars, queueVars
<1>17. ASSUME Command PROVE QuietStep
  BY <1>17 DEF Command, EnableRoute, DisableRoute, pipeVars, queueVars, procVars
<1>18. ASSUME NEW a \in Apps, ZeroCopyReleaseAppId(a) PROVE QuietStep
  BY <1>18 DEF ZeroCopyReleaseAppId, Procs, pipeVars, routeVars, queueVars
<1>19. ASSUME UNCHANGED vars PROVE QuietStep
  BY <1>19 DEF vars, pipeVars, routeVars, queueVars, procVars
<1> QED BY <1>1, <1>2, <1>3, <1>4, <1>5, <1>6, <1>7, <1>8, <1>9, <1>10,
           <1>11, <1>12, <1>13, <1>14, <1>15, <1>16, <1>17, <1>18, <1>19 DEF Transmit, Receive

\* The invariants of the pipe table survive every step, those that create,
\* delete and subscribe pipes included.
LEMMA TableStep == TableInv /\ [Next]_vars => TableInv'
<1> SUFFICES ASSUME TableInv, [Next]_vars PROVE TableInv'
  OBVIOUS
<1>0. TypeOK' /\ TypeOK
  BY TypeStep DEF TableInv
<1> SUFFICES ReservedByOne' /\ RoutesLive'
  BY <1>0 DEF TableInv
<1>slot. \A p \in PipeIds : Slot(p) \in Slots
  BY SlotType DEF PipeIds
<1>ids. FREE \notin PipeIds /\ RESERVED \notin PipeIds /\ FREE # RESERVED
  BY DEF FREE, RESERVED, PipeIds
<1> USE SBAssumption, <1>0, <1>slot, <1>ids DEF TypeOK, PipesTyped, QueuesTyped, ProcsTyped, TableInv
<1>1. ASSUME NEW t \in Tasks, CreatePipe(t) PROVE ReservedByOne' /\ RoutesLive'
  <2>1. PICK i \in PipeIds :
          /\ pipeTbl[Slot(i)].id = FREE
          /\ pipeTbl' = [pipeTbl EXCEPT ![Slot(i)] = [EmptyPipeDesc EXCEPT !.id = RESERVED]]
          /\ pipe' = [pipe EXCEPT ![t] = i]
    BY <1>1 DEF CreatePipe, FreeIds
  <2>2. \A s \in Slots : pipeTbl'[s].id = IF s = Slot(i) THEN RESERVED ELSE pipeTbl[s].id
    BY <2>1 DEF EmptyPipeDesc, PipeDesc
  <2>3. ~Busy(t) /\ Busy(t)' /\ \A x \in Procs \ {t} : (Busy(x)' <=> Busy(x)) /\ pipe'[x] = pipe[x]
    BY <1>1, <2>1 DEF CreatePipe, Goto, Busy, Procs
  <2>4. \A x \in Procs : Busy(x) => Slot(pipe[x]) # Slot(i)
    BY <2>1 DEF ReservedByOne
  <2>5. ReservedByOne'
    <3>1. ASSUME NEW s \in Slots
          PROVE  pipeTbl'[s].id = RESERVED <=> \E x \in Procs : Busy(x)' /\ Slot(pipe'[x]) = s
      <4>1. CASE s = Slot(i)
        BY <4>1, <2>1, <2>2, <2>3 DEF Procs
      <4>2. CASE s # Slot(i)
        <5>1. pipeTbl'[s].id = pipeTbl[s].id
          BY <4>2, <2>2
        <5>2. \A x \in Procs : Busy(x)' /\ Slot(pipe'[x]) = s <=> Busy(x) /\ Slot(pipe[x]) = s
          BY <4>2, <2>1, <2>3 DEF Procs
        <5> QED BY <5>1, <5>2 DEF ReservedByOne
      <4> QED BY <4>1, <4>2
    <3>2. ASSUME NEW x \in Procs, NEW y \in Procs, Busy(x)', Busy(y)', Slot(pipe'[x]) = Slot(pipe'[y])
          PROVE  x = y
      BY <3>2, <2>1, <2>3, <2>4 DEF ReservedByOne, Procs
    <3> QED BY <3>1, <3>2 DEF ReservedByOne
  <2>6. LivePipes' = LivePipes
    BY <2>1, <2>2 DEF LivePipes, PipeDescIsMatch, Slot
  <2>7. RoutesLive'
    BY <1>1, <2>1, <2>6 DEF CreatePipe, Goto, Procs, RoutesLive, routeVars, queueVars
  <2> QED BY <2>5, <2>7
<1>2. ASSUME NEW t \in Tasks, QueueCreate(t) \/ QueueCreateFails(t)
      PROVE  ReservedByOne' /\ RoutesLive'
  <2>1. ReservedByOne'
    <3>1. \A x \in Procs : (Busy(x)' <=> Busy(x)) /\ pipe'[x] = pipe[x]
      BY <1>2 DEF QueueCreate, QueueCreateFails, Goto, Busy, Procs
    <3> QED BY <3>1, <1>2 DEF QueueCreate, QueueCreateFails, ReservedByOne, pipeVars
  <2>2. LivePipes' = LivePipes
    BY <1>2 DEF QueueCreate, QueueCreateFails, LivePipes, PipeDescIsMatch, Slot, pipeVars
  <2>3. RoutesLive'
    BY <1>2, <2>2 DEF QueueCreate, QueueCreateFails, Goto, Procs, RoutesLive, routeVars, queueVars
  <2> QED BY <2>1, <2>3
<1>3. ASSUME NEW x \in Procs, Busy(x), ~Busy(x)', pc'[x] # "publish",
             \A y \in Procs \ {x} : pc'[y] = pc[y] /\ pipe'[y] = pipe[y],
             NEW i \in PipeIds \cup {FREE},
             \A s \in Slots : pipeTbl'[s].id = IF s = Slot(pipe[x]) THEN i ELSE pipeTbl[s].id,
             i # FREE => i = pipe[x] /\ i \in qOpen,
             Subs' = Subs, qOpen' = qOpen
      PROVE  ReservedByOne' /\ RoutesLive'
  <2>1. \A y \in Procs \ {x} : Busy(y)' <=> Busy(y)
    BY <1>3 DEF Busy
  <2>2. pipeTbl[Slot(pipe[x])].id = RESERVED /\ i # RESERVED
    BY <1>3 DEF ReservedByOne
  <2>3. ReservedByOne'
    <3>1. ASSUME NEW s \in Slots
          PROVE  pipeTbl'[s].id = RESERVED <=> \E y \in Procs : Busy(y)' /\ Slot(pipe'[y]) = s
      <4>1. CASE s = Slot(pipe[x])
        <5>1. pipeTbl'[s].id # RESERVED
          BY <4>1, <1>3, <2>2
        <5>2. ASSUME NEW y \in Procs, Busy(y)', Slot(pipe'[y]) = s PROVE FALSE
          <6>1. y # x /\ Busy(y) /\ pipe'[y] = pipe[y]
            BY <5>2, <1>3, <2>1
          <6> QED BY <6>1, <5>2, <4>1, <1>3 DEF ReservedByOne
        <5> QED BY <5>1, <5>2
      <4>2. CASE s # Slot(pipe[x])
        <5>1. pipeTbl'[s].id = pipeTbl[s].id
          BY <4>2, <1>3
        <5>2. ASSUME NEW y \in Procs
              PROVE  Busy(y)' /\ Slot(pipe'[y]) = s <=> Busy(y) /\ Slot(pipe[y]) = s
          <6>1. CASE y = x
            BY <6>1, <4>2, <1>3
          <6>2. CASE y # x
            BY <6>2, <1>3, <2>1
          <6> QED BY <6>1, <6>2
        <5>3. pipeTbl[s].id = RESERVED <=> \E y \in Procs : Busy(y) /\ Slot(pipe[y]) = s
          BY DEF ReservedByOne
        <5> QED BY <5>1, <5>2, <5>3
      <4> QED BY <4>1, <4>2
    <3>2. ASSUME NEW y \in Procs, NEW z \in Procs, Busy(y)', Busy(z)', Slot(pipe'[y]) = Slot(pipe'[z])
          PROVE  y = z
      <4>1. /\ Busy(y) /\ pipe'[y] = pipe[y]
            /\ Busy(z) /\ pipe'[z] = pipe[z]
        BY <3>2, <1>3, <2>1
      <4> QED BY <4>1, <3>2 DEF ReservedByOne
    <3> QED BY <3>1, <3>2 DEF ReservedByOne
  <2>4. LivePipes \subseteq LivePipes' /\ LivePipes' \subseteq LivePipes \cup {i}
    BY <1>3, <2>2 DEF LivePipes, PipeDescIsMatch, Slot
  <2>5. LivePipes' \subseteq qOpen
    BY <1>3, <2>4 DEF RoutesLive, LivePipes
  <2>6. RoutesLive'
    BY <1>3, <2>4, <2>5 DEF RoutesLive, Procs
  <2> QED BY <2>3, <2>6
<1>4. ASSUME NEW t \in Tasks, PublishPipe(t) PROVE ReservedByOne' /\ RoutesLive'
  <2>1. pipe[t] \in PipeIds /\ pipe[t] \in qOpen /\ t \in Procs
    BY <1>4 DEF PublishPipe, RoutesLive, Procs
  <2>2. Busy(t) /\ ~Busy(t)' /\ pc'[t] # "publish"
    BY <1>4, <2>1 DEF PublishPipe, Return, Goto, Busy
  <2>3. \A y \in Procs \ {t} : pc'[y] = pc[y] /\ pipe'[y] = pipe[y]
    BY <1>4, <2>1 DEF PublishPipe, Return, Goto
  <2>4. \A s \in Slots : pipeTbl'[s].id = IF s = Slot(pipe[t]) THEN pipe[t] ELSE pipeTbl[s].id
    BY <1>4, <2>1 DEF PublishPipe, PipeDesc
  <2>5. Subs' = Subs /\ qOpen' = qOpen
    BY <1>4 DEF PublishPipe, routeVars, queueVars
  <2> QED BY ZenonT(60), <1>3, <2>1, <2>2, <2>3, <2>4, <2>5
<1>5. ASSUME NEW x \in Procs, UnreservePipe(x) \/ FreePipe(x) PROVE ReservedByOne' /\ RoutesLive'
  <2>1. Busy(x) /\ ~Busy(x)' /\ pc'[x] # "publish"
    BY <1>5 DEF UnreservePipe, FreePipe, Return, Goto, Busy
  <2>2. \A y \in Procs \ {x} : pc'[y] = pc[y] /\ pipe'[y] = pipe[y]
    BY <1>5 DEF UnreservePipe, FreePipe, Return, Goto
  <2>3. \A s \in Slots : pipeTbl'[s].id = IF s = Slot(pipe[x]) THEN FREE ELSE pipeTbl[s].id
    <3>1. pipeTbl' = [pipeTbl EXCEPT ![Slot(pipe[x])].id = FREE]
      BY <1>5 DEF UnreservePipe, FreePipe
    <3> QED BY <3>1 DEF PipeDesc
  <2>4. Subs' = Subs /\ qOpen' = qOpen
    BY <1>5 DEF UnreservePipe, FreePipe, routeVars, queueVars
  <2> QED BY <1>3, <2>1, <2>2, <2>3, <2>4
<1>6. ASSUME NEW x \in Procs, NEW p \in PipeIds, NEW app, UnlinkPipe(x, p, app), pc[x] = "idle"
      PROVE  ReservedByOne' /\ RoutesLive'
  <2>1. \A s \in Slots : pipeTbl'[s].id = IF s = Slot(p) THEN RESERVED ELSE pipeTbl[s].id
    BY <1>6 DEF UnlinkPipe, PipeDesc
  <2>2. /\ ~Busy(x) /\ Busy(x)' /\ pipe'[x] = p /\ pc'[x] # "publish"
        /\ \A y \in Procs \ {x} : (Busy(y)' <=> Busy(y)) /\ pc'[y] = pc[y] /\ pipe'[y] = pipe[y]
    BY <1>6 DEF UnlinkPipe, Goto, Busy
  <2>3. pipeTbl[Slot(p)].id = p
    BY <1>6 DEF UnlinkPipe, PipeDescIsMatch
  <2>4. \A y \in Procs : Busy(y) => Slot(pipe[y]) # Slot(p)
    BY <2>3 DEF ReservedByOne
  <2>5. ReservedByOne'
    <3>1. ASSUME NEW s \in Slots
          PROVE  pipeTbl'[s].id = RESERVED <=> \E y \in Procs : Busy(y)' /\ Slot(pipe'[y]) = s
      <4>1. CASE s = Slot(p)
        BY <4>1, <2>1, <2>2
      <4>2. CASE s # Slot(p)
        <5>1. pipeTbl'[s].id = pipeTbl[s].id
          BY <4>2, <2>1
        <5>2. ASSUME NEW y \in Procs
              PROVE  Busy(y)' /\ Slot(pipe'[y]) = s <=> Busy(y) /\ Slot(pipe[y]) = s
          <6>1. CASE y = x
            BY <6>1, <4>2, <2>2
          <6>2. CASE y # x
            BY <6>2, <2>2
          <6> QED BY <6>1, <6>2
        <5>3. pipeTbl[s].id = RESERVED <=> \E y \in Procs : Busy(y) /\ Slot(pipe[y]) = s
          BY DEF ReservedByOne
        <5> QED BY <5>1, <5>2, <5>3
      <4> QED BY <4>1, <4>2
    <3>2. ASSUME NEW y \in Procs, NEW z \in Procs, Busy(y)', Busy(z)', Slot(pipe'[y]) = Slot(pipe'[z])
          PROVE  y = z
      BY <3>2, <2>2, <2>4 DEF ReservedByOne
    <3> QED BY <3>1, <3>2 DEF ReservedByOne
  <2>6. LivePipes' = LivePipes \ {p}
    BY <2>1, <2>3 DEF LivePipes, PipeDescIsMatch, Slot
  <2>7. RoutesLive'
    BY <1>6, <2>2, <2>6 DEF UnlinkPipe, RemovePipeFromRoutes, RoutesLive, queueVars, Procs
  <2> QED BY <2>5, <2>7
<1>7. ASSUME NEW x \in Procs, QueueDelete(x) PROVE ReservedByOne' /\ RoutesLive'
  <2>1. Busy(x) /\ pc[x] # "publish" /\ pipeTbl[Slot(pipe[x])].id = RESERVED
    BY <1>7 DEF QueueDelete, Busy, ReservedByOne
  <2>2. ReservedByOne'
    BY ZenonT(60), <1>7 DEF QueueDelete, Goto, Busy, ReservedByOne, pipeVars
  <2>3. LivePipes' = LivePipes /\ pipe[x] \notin LivePipes
    BY <1>7, <2>1 DEF QueueDelete, LivePipes, PipeDescIsMatch, Slot, pipeVars
  <2>4. \A t \in Tasks : pc[t] = "publish" => pipe[t] # pipe[x]
    BY <2>1 DEF ReservedByOne, Busy, Procs
  <2>5. RoutesLive'
    BY <1>7, <2>3, <2>4 DEF QueueDelete, Goto, Procs, RoutesLive, routeVars
  <2> QED BY <2>2, <2>5
<1>8. ASSUME NEW t \in Tasks, NEW m \in MsgIds, NEW p \in PipeIds,
             Subscribe(t, m, p) \/ Unsubscribe(t, m, p)
      PROVE  ReservedByOne' /\ RoutesLive'
  <2>1. ReservedByOne'
    BY <1>8 DEF Subscribe, Unsubscribe, ReservedByOne, Busy, pipeVars, procVars
  <2>2. LivePipes' = LivePipes /\ p \in LivePipes
    BY <1>8 DEF Subscribe, Unsubscribe, LivePipes, PipeDescIsMatch, Slot, pipeVars
  <2>3. RoutesLive'
    <3>1. \A k \in MsgIds : Subs'[k] \subseteq Subs[k] \cup {p}
      <4>1. CASE Subscribe(t, m, p)
        BY ZenonT(60), <4>1 DEF Subscribe, RoutesTyped
      <4>2. CASE Unsubscribe(t, m, p)
        BY <4>2 DEF Unsubscribe, RoutesTyped
      <4> QED BY <1>8, <4>1, <4>2
    <3> QED BY <1>8, <2>2, <3>1 DEF Subscribe, Unsubscribe, RoutesLive, queueVars, procVars
  <2> QED BY <2>1, <2>3
<1>9. ASSUME QuietStep PROVE ReservedByOne' /\ RoutesLive'
  BY <1>9, QuietKeeps
<1>10. ASSUME NEW t \in Tasks, TaskStep(t) PROVE ReservedByOne' /\ RoutesLive'
  <2>1. CASE Create(t)
    BY <2>1, <1>1, <1>2, <1>4, <1>5 DEF Create, Procs
  <2>2. CASE Configure(t)
    <3>1. ASSUME NEW p \in PipeIds, DeletePipe(t, p) PROVE ReservedByOne' /\ RoutesLive'
      BY <3>1, <1>6 DEF DeletePipe, Procs
    <3>2. ASSUME NEW p \in PipeIds, NEW ignore \in BOOLEAN, SetPipeOpts(t, p, ignore)
          PROVE  ReservedByOne' /\ RoutesLive'
      BY <3>2, <1>9, QuietSteps
    <3> QED BY <2>2, <3>1, <3>2, <1>8 DEF Configure
  <2>3. CASE AllocateMessageBuffer(t) \/ ReleaseMessageBuffer(t) \/ Transmit(t)
             \/ Receive(t) \/ ExitApp(t)
    BY <2>3, <1>9, QuietSteps
  <2> QED BY <1>10, <2>1, <2>2, <2>3 DEF TaskStep
<1>11. ASSUME NEW x \in Procs, Drain(x) PROVE ReservedByOne' /\ RoutesLive'
  BY <1>11, <1>5, <1>7, <1>9, QuietSteps DEF Drain
<1>12. ASSUME CleanUpApp PROVE ReservedByOne' /\ RoutesLive'
  BY <1>12, <1>6, <1>9, QuietSteps DEF CleanUpApp, CleanUpPipe, Procs
<1>13. ASSUME Command \/ UNCHANGED vars PROVE ReservedByOne' /\ RoutesLive'
  BY <1>13, <1>9, QuietSteps
<1> QED
  BY <1>10, <1>11, <1>12, <1>13 DEF Next

\* Initially no slot is reserved and no pipe is live.
LEMMA TableInit == Init => TableInv
<1> SUFFICES ASSUME Init PROVE TableInv
  OBVIOUS
<1>1. TypeOK
  BY TypeInit
<1>2. \A s \in Slots : pipeTbl[s].id = FREE
  BY DEF Init, EmptyPipeDesc
<1>3. \A x \in Procs : ~Busy(x) /\ pc[x] # "publish"
  BY DEF Init, Busy
<1>4. ReservedByOne
  BY <1>2, <1>3 DEF ReservedByOne, FREE, RESERVED
<1>5. LivePipes = {}
  BY <1>2, SlotType DEF LivePipes, PipeDescIsMatch, FREE, PipeIds, Slot
<1>6. RoutesLive
  BY <1>3, <1>5 DEF Init, RoutesLive, Procs
<1> QED BY <1>1, <1>4, <1>6 DEF TableInv

\* While the SB lock is released inside CFE_SB_CreatePipe and
\* CFE_SB_DeletePipeFull, the slot is reserved for that one process: no slot
\* is ever handed out twice, and none is reserved with nobody to free it.
THEOREM ReservationExclusive == Spec => []ReservedByOne
<1>1. TableInv => ReservedByOne
  BY DEF TableInv
<1> QED BY <1>1, TableInit, TableStep, PTL DEF Spec

\* No route ever names a pipe that is not live, and every live pipe has its
\* OSAL queue, whatever creations and deletions are in progress.
THEOREM RoutesSound == Spec => []RoutesLive
<1>1. TableInv => RoutesLive
  BY DEF TableInv
<1> QED BY <1>1, TableInit, TableStep, PTL DEF Spec

(***************************************************************************)
(* The statistics packet.  StatsExact follows the pipe table: a pipe moves *)
(* from LivePipes to the processes that delete pipes and then out.         *)
(***************************************************************************)
Deleters == {x \in Procs : Deleting(x)}
Subscriptions == {r \in MsgIds \X PipeIds : r[2] \in Subs[r[1]]}

\* The sets that are counted are finite.
LEMMA CountedFinite ==
  ASSUME TypeOK
  PROVE  /\ IsFiniteSet(Procs) /\ IsFiniteSet(PipeIds) /\ IsFiniteSet(MsgIds \X PipeIds)
         /\ IsFiniteSet(LivePipes) /\ IsFiniteSet(Deleters) /\ IsFiniteSet(Subscriptions)
<1>1. IsFiniteSet(Procs)
  BY SBAssumption, FS_AddElement DEF Procs
<1>2. IsFiniteSet(PipeIds)
  BY PipeSetFinite
<1>3. IsFiniteSet(MsgIds \X PipeIds)
  BY <1>2, SBAssumption, FS_Product
<1>4. IsFiniteSet(LivePipes)
  BY <1>2, FS_Subset DEF LivePipes
<1>5. IsFiniteSet(Deleters)
  BY <1>1, FS_Subset DEF Deleters
<1>6. IsFiniteSet(Subscriptions)
  BY <1>3, FS_Subset DEF Subscriptions
<1> QED BY <1>1, <1>2, <1>3, <1>4, <1>5, <1>6

\* The live pipes change when a pipe is published or unlinked, and only then.
LEMMA LiveSteps ==
  ASSUME TableInv
  PROVE  /\ QuietStep => LivePipes' = LivePipes
         /\ \A t \in Tasks : CreatePipe(t) \/ QueueCreate(t) \/ QueueCreateFails(t)
                               => LivePipes' = LivePipes
         /\ \A t \in Tasks : PublishPipe(t) =>
              /\ LivePipes' = LivePipes \cup {pipe[t]}
              /\ pipe[t] \notin LivePipes
         /\ \A x \in Procs : UnreservePipe(x) \/ FreePipe(x) => LivePipes' = LivePipes
         /\ \A x \in Procs, p \in PipeIds : \A app : UnlinkPipe(x, p, app) =>
              /\ LivePipes' = LivePipes \ {p}
              /\ p \in LivePipes
         /\ UNCHANGED pipeTbl => LivePipes' = LivePipes
<1>slot. \A p \in PipeIds : Slot(p) \in Slots
  BY SlotType DEF PipeIds
<1>ids. FREE \notin PipeIds /\ RESERVED \notin PipeIds /\ FREE # RESERVED
  BY DEF FREE, RESERVED, PipeIds
<1>ty. pipeTbl \in [Slots -> PipeDesc] /\ pipe \in [Procs -> PipeIds]
  BY DEF TableInv, TypeOK, PipesTyped, ProcsTyped
<1>busy. \A x \in Procs : Busy(x) => pipeTbl[Slot(pipe[x])].id = RESERVED
  BY <1>slot, <1>ty DEF TableInv, ReservedByOne
<1> USE <1>slot, <1>ids, <1>ty
<1>1. QuietStep => LivePipes' = LivePipes
  BY DEF QuietStep, LivePipes, PipeDescIsMatch, Slot
<1>2. ASSUME NEW t \in Tasks, CreatePipe(t) PROVE LivePipes' = LivePipes
  <2>1. PICK i \in PipeIds :
          /\ pipeTbl[Slot(i)].id = FREE
          /\ pipeTbl' = [pipeTbl EXCEPT ![Slot(i)] = [EmptyPipeDesc EXCEPT !.id = RESERVED]]
    BY <1>2 DEF CreatePipe, FreeIds
  <2>2. \A s \in Slots : pipeTbl'[s].id = IF s = Slot(i) THEN RESERVED ELSE pipeTbl[s].id
    BY <2>1 DEF EmptyPipeDesc, PipeDesc
  <2> QED BY <2>1, <2>2 DEF LivePipes, PipeDescIsMatch, Slot
<1>3. UNCHANGED pipeTbl => LivePipes' = LivePipes
  BY DEF LivePipes, PipeDescIsMatch, Slot
<1>4. ASSUME NEW t \in Tasks, PublishPipe(t)
      PROVE  LivePipes' = LivePipes \cup {pipe[t]} /\ pipe[t] \notin LivePipes
  <2>1. t \in Procs /\ pipe[t] \in PipeIds /\ pipeTbl[Slot(pipe[t])].id = RESERVED
    BY <1>4, <1>busy DEF PublishPipe, Busy, Procs
  <2>2. \A s \in Slots : pipeTbl'[s].id = IF s = Slot(pipe[t]) THEN pipe[t] ELSE pipeTbl[s].id
    BY <1>4, <2>1 DEF PublishPipe, PipeDesc
  <2> QED BY <2>1, <2>2 DEF LivePipes, PipeDescIsMatch, Slot
<1>5. ASSUME NEW x \in Procs, UnreservePipe(x) \/ FreePipe(x) PROVE LivePipes' = LivePipes
  <2>1. pipeTbl[Slot(pipe[x])].id = RESERVED
    BY <1>5, <1>busy DEF UnreservePipe, FreePipe, Busy
  <2>2. pipeTbl' = [pipeTbl EXCEPT ![Slot(pipe[x])].id = FREE]
    BY <1>5 DEF UnreservePipe, FreePipe
  <2>3. \A s \in Slots : pipeTbl'[s].id = IF s = Slot(pipe[x]) THEN FREE ELSE pipeTbl[s].id
    BY <2>2 DEF PipeDesc
  <2> QED BY <2>1, <2>3 DEF LivePipes, PipeDescIsMatch, Slot
<1>6. ASSUME NEW x \in Procs, NEW p \in PipeIds, NEW app, UnlinkPipe(x, p, app)
      PROVE  LivePipes' = LivePipes \ {p} /\ p \in LivePipes
  <2>1. \A s \in Slots : pipeTbl'[s].id = IF s = Slot(p) THEN RESERVED ELSE pipeTbl[s].id
    BY <1>6 DEF UnlinkPipe, PipeDesc
  <2>2. pipeTbl[Slot(p)].id = p
    BY <1>6 DEF UnlinkPipe, PipeDescIsMatch
  <2> QED BY <2>1, <2>2 DEF LivePipes, PipeDescIsMatch, Slot
<1>7. \A t \in Tasks : QueueCreate(t) \/ QueueCreateFails(t) => LivePipes' = LivePipes
  BY <1>3 DEF QueueCreate, QueueCreateFails, pipeVars
<1> QED BY <1>1, <1>2, <1>3, <1>4, <1>5, <1>6, <1>7

\* The subscriptions of one pipe are as many as the messages it is
\* subscribed to, which is what CFE_SB_RemovePipeFromRoute takes off.
LEMMA SubscriptionsOf ==
  ASSUME TypeOK, NEW p \in PipeIds
  PROVE  LET M == {m \in MsgIds : p \in Subs[m]}
             R == {r \in Subscriptions : r[2] = p}
         IN  /\ IsFiniteSet(M) /\ IsFiniteSet(R)
             /\ Cardinality(R) = Cardinality(M)
<1> DEFINE M == {m \in MsgIds : p \in Subs[m]}
           R == {r \in Subscriptions : r[2] = p}
           f == [m \in M |-> <<m, p>>]
<1>1. IsFiniteSet(M)
  BY SBAssumption, FS_Subset
<1>2. f \in [M -> R]
  BY DEF Subscriptions
<1>3. \A a, b \in M : f[a] = f[b] => a = b
  OBVIOUS
<1>4. \A r \in R : \E m \in M : f[m] = r
  <2>1. SUFFICES ASSUME NEW r \in R PROVE \E m \in M : f[m] = r
    OBVIOUS
  <2>2. r[1] \in M /\ r = <<r[1], p>>
    BY DEF Subscriptions
  <2> QED BY <2>2
<1>5. f \in Bijection(M, R)
  BY <1>2, <1>3, <1>4 DEF Bijection, Injection, Surjection, IsInjective
<1>6. ExistsBijection(M, R)
  BY <1>5 DEF ExistsBijection
<1> HIDE DEF M, R
<1>7. IsFiniteSet(R) /\ Cardinality(R) = Cardinality(M)
  BY <1>1, <1>6, FS_Bijection
<1> QED BY <1>1, <1>7 DEF M, R

\* The in-use figures, in terms of the sets that are counted.
LEMMA StatsSets ==
  StatsExact <=> /\ pipesInUse = Cardinality(LivePipes) + Cardinality(Deleters)
                 /\ subscriptionsInUse = Cardinality(Subscriptions)
  BY DEF StatsExact, Deleters, Deleting, Subscriptions

\* The in-use figures stay exact in every step.
LEMMA StatsStep == TableInv /\ StatsExact /\ [Next]_vars => StatsExact'
<1> SUFFICES ASSUME TableInv, StatsExact, [Next]_vars PROVE StatsExact'
  OBVIOUS
<1>0. TypeOK /\ pc \in [Procs -> PC] /\ Subs \in [MsgIds -> SUBSET PipeIds]
  BY DEF TableInv, TypeOK, ProcsTyped, RoutesTyped
<1>fin. IsFiniteSet(LivePipes) /\ IsFiniteSet(Deleters) /\ IsFiniteSet(Subscriptions)
  BY <1>0, CountedFinite
<1>nat. /\ Cardinality(LivePipes) \in Nat /\ Cardinality(Deleters) \in Nat
        /\ Cardinality(Subscriptions) \in Nat
  BY <1>fin, FS_CardinalityType
<1>now. /\ pipesInUse = Cardinality(LivePipes) + Cardinality(Deleters)
        /\ subscriptionsInUse = Cardinality(Subscriptions)
  BY StatsSets
<1> SUFFICES /\ pipesInUse' = Cardinality(LivePipes') + Cardinality(Deleters')
             /\ subscriptionsInUse' = Cardinality(Subscriptions')
  BY DEF StatsExact, Deleters, Deleting, Subscriptions
<1> DEFINE Goal == /\ pipesInUse' = Cardinality(LivePipes') + Cardinality(Deleters')
                   /\ subscriptionsInUse' = Cardinality(Subscriptions')
<1>sub. Subs' = Subs => Subscriptions' = Subscriptions
  BY DEF Subscriptions
<1>del. (\A x \in Procs : Deleting(x)' <=> Deleting(x)) => Deleters' = Deleters
  BY DEF Deleters
<1>1. ASSUME QuietStep PROVE Goal
  <2>1. LivePipes' = LivePipes
    BY <1>1, LiveSteps
  <2>2. Deleters' = Deleters /\ Subscriptions' = Subscriptions
    BY <1>1, <1>sub, <1>del DEF QuietStep
  <2> QED BY <1>1, <2>1, <2>2, <1>now DEF QuietStep
<1>2. ASSUME NEW t \in Tasks, CreatePipe(t) \/ QueueCreate(t) \/ QueueCreateFails(t) \/ UnreservePipe(t)
      PROVE  Goal
  <2>1. LivePipes' = LivePipes
    BY <1>2, LiveSteps DEF Procs
  <2>2. Deleters' = Deleters
    BY <1>2, <1>0, <1>del
       DEF CreatePipe, QueueCreate, QueueCreateFails, UnreservePipe, Return, Goto, Deleting, Procs
  <2>3. Subs' = Subs /\ pipesInUse' = pipesInUse /\ subscriptionsInUse' = subscriptionsInUse
    BY <1>2 DEF CreatePipe, QueueCreate, QueueCreateFails, UnreservePipe, pipeVars, routeVars
  <2> QED BY <2>1, <2>2, <2>3, <1>sub, <1>now
<1>3. ASSUME NEW t \in Tasks, PublishPipe(t) PROVE Goal
  <2>1. LivePipes' = LivePipes \cup {pipe[t]} /\ pipe[t] \notin LivePipes
    BY <1>3, LiveSteps
  <2>2. Deleters' = Deleters
    BY <1>3, <1>0, <1>del DEF PublishPipe, Return, Goto, Deleting, Procs
  <2>3. Subs' = Subs /\ pipesInUse' = pipesInUse + 1 /\ subscriptionsInUse' = subscriptionsInUse
    BY <1>3 DEF PublishPipe, routeVars
  <2>4. Cardinality(LivePipes') = Cardinality(LivePipes) + 1
    BY <2>1, <1>fin, FS_AddElement
  <2> QED BY <2>2, <2>3, <2>4, <1>sub, <1>now, <1>nat
<1>4. ASSUME NEW x \in Procs, NEW p \in PipeIds, NEW app, UnlinkPipe(x, p, app), pc[x] = "idle"
      PROVE  Goal
  <2>1. LivePipes' = LivePipes \ {p} /\ p \in LivePipes
    BY <1>4, LiveSteps
  <2>2. Deleters' = Deleters \cup {x} /\ x \notin Deleters
    BY <1>4, <1>0 DEF UnlinkPipe, Goto, Deleting, Deleters
  <2>3. /\ Cardinality(LivePipes') = Cardinality(LivePipes) - 1
        /\ Cardinality(Deleters') = Cardinality(Deleters) + 1
    BY <2>1, <2>2, <1>fin, FS_AddElement, FS_RemoveElement
  <2>4. pipesInUse' = pipesInUse
    BY <1>4 DEF UnlinkPipe
  <2> DEFINE M == {m \in MsgIds : p \in Subs[m]}
             R == {r \in Subscriptions : r[2] = p}
  <2>5. Subscriptions' = Subscriptions \ R
    BY <1>4, <1>0 DEF UnlinkPipe, RemovePipeFromRoutes, Subscriptions
  <2>6. subscriptionsInUse' = subscriptionsInUse - Cardinality(M)
    BY <1>4 DEF UnlinkPipe, RemovePipeFromRoutes
  <2>7. Cardinality(R) = Cardinality(M) /\ R = Subscriptions \cap R
    BY <1>0, SubscriptionsOf
  <2> HIDE DEF M, R
  <2>8. Cardinality(Subscriptions') = Cardinality(Subscriptions) - Cardinality(R)
    <3>1. Cardinality(Subscriptions \ R) = Cardinality(Subscriptions) - Cardinality(Subscriptions \cap R)
      BY <1>fin, FS_Difference
    <3> QED BY <3>1, <2>5, <2>7
  <2>9. subscriptionsInUse' = Cardinality(Subscriptions')
    BY <2>6, <2>7, <2>8, <1>now
  <2> QED BY <2>3, <2>4, <2>9, <1>now, <1>nat
<1>5. ASSUME NEW x \in Procs, FreePipe(x) PROVE Goal
  <2>1. LivePipes' = LivePipes
    BY <1>5, LiveSteps
  <2>2. Deleters' = Deleters \ {x} /\ x \in Deleters
    BY <1>5, <1>0 DEF FreePipe, Return, Goto, Deleting, Deleters
  <2>3. Subs' = Subs /\ pipesInUse' = pipesInUse - 1 /\ subscriptionsInUse' = subscriptionsInUse
    BY <1>5 DEF FreePipe, routeVars
  <2>4. Cardinality(Deleters') = Cardinality(Deleters) - 1
    BY <2>2, <1>fin, FS_RemoveElement
  <2> QED BY <2>1, <2>3, <2>4, <1>sub, <1>now, <1>nat
<1>6. ASSUME NEW x \in Procs, QueueDelete(x) PROVE Goal
  <2>1. LivePipes' = LivePipes
    BY <1>6, LiveSteps DEF QueueDelete, pipeVars
  <2>2. Deleters' = Deleters
    BY <1>6, <1>0, <1>del DEF QueueDelete, Goto, Deleting
  <2>3. Subs' = Subs /\ pipesInUse' = pipesInUse /\ subscriptionsInUse' = subscriptionsInUse
    BY <1>6 DEF QueueDelete, pipeVars, routeVars
  <2> QED BY <2>1, <2>2, <2>3, <1>sub, <1>now
<1>7. ASSUME NEW t \in Tasks, NEW m \in MsgIds, NEW p \in PipeIds,
             Subscribe(t, m, p) \/ Unsubscribe(t, m, p)
      PROVE  Goal
  <2>1. LivePipes' = LivePipes
    BY <1>7, LiveSteps DEF Subscribe, Unsubscribe, pipeVars
  <2>2. Deleters' = Deleters /\ pipesInUse' = pipesInUse
    BY <1>7, <1>del DEF Subscribe, Unsubscribe, Deleting, procVars, pipeVars
  <2>3. subscriptionsInUse' = Cardinality(Subscriptions')
    <3>1. CASE UNCHANGED <<Subs, subscriptionsInUse>>
      BY <3>1, <1>sub, <1>now
    <3>2. CASE /\ p \notin Subs[m] /\ Subs' = [Subs EXCEPT ![m] = @ \cup {p}]
               /\ subscriptionsInUse' = subscriptionsInUse + 1
      <4>1. Subscriptions' = Subscriptions \cup {<<m, p>>} /\ <<m, p>> \notin Subscriptions
        BY <3>2, <1>0 DEF Subscriptions
      <4> QED BY <4>1, <3>2, <1>now, <1>fin, FS_AddElement
    <3>3. CASE Unsubscribe(t, m, p)
      <4>1. Subscriptions' = Subscriptions \ {<<m, p>>} /\ <<m, p>> \in Subscriptions
        BY <3>3, <1>0 DEF Subscriptions, Unsubscribe
      <4> QED BY <4>1, <3>3, <1>now, <1>fin, FS_RemoveElement DEF Unsubscribe
    <3> QED BY <1>7, <3>1, <3>2, <3>3 DEF Subscribe
  <2> QED BY <2>1, <2>2, <2>3, <1>now
<1>8. ASSUME NEW t \in Tasks, TaskStep(t) PROVE Goal
  <2>1. CASE Create(t)
    BY <2>1, <1>2, <1>3 DEF Create
  <2>2. CASE Configure(t)
    <3>1. ASSUME NEW p \in PipeIds, DeletePipe(t, p) PROVE Goal
      BY <3>1, <1>4 DEF DeletePipe, Procs
    <3>2. ASSUME NEW p \in PipeIds, NEW ignore \in BOOLEAN, SetPipeOpts(t, p, ignore) PROVE Goal
      BY <3>2, <1>0, <1>1, QuietSteps
    <3> QED BY <2>2, <3>1, <3>2, <1>7 DEF Configure
  <2>3. CASE AllocateMessageBuffer(t) \/ ReleaseMessageBuffer(t) \/ Transmit(t)
             \/ Receive(t) \/ ExitApp(t)
    BY <2>3, <1>0, <1>1, QuietSteps
  <2> QED BY <1>8, <2>1, <2>2, <2>3 DEF TaskStep
<1>9. ASSUME NEW x \in Procs, Drain(x) PROVE Goal
  BY <1>9, <1>0, <1>1, <1>5, <1>6, QuietSteps DEF Drain
<1>10. ASSUME CleanUpApp PROVE Goal
  BY <1>10, <1>0, <1>1, <1>4, QuietSteps DEF CleanUpApp, CleanUpPipe, Procs
<1>11. ASSUME Command \/ UNCHANGED vars PROVE Goal
  BY <1>11, <1>0, <1>1, QuietSteps
<1> QED BY <1>8, <1>9, <1>10, <1>11 DEF Next

\* At all times, whatever creations and deletions are half done, the
\* statistics packet says exactly how many pipes and subscriptions there are.
THEOREM StatisticsExact == Spec => []StatsExact
<1>1. Init => StatsExact
  <2> SUFFICES ASSUME Init PROVE StatsExact
    OBVIOUS
  <2>1. LivePipes = {}
    <3>1. \A s \in Slots : pipeTbl[s].id = FREE
      BY DEF Init, EmptyPipeDesc
    <3> QED BY <3>1, SlotType DEF LivePipes, PipeDescIsMatch, FREE, PipeIds, Slot
  <2>2. Deleters = {}
    BY DEF Init, Deleters, Deleting
  <2>3. Subscriptions = {}
    BY DEF Init, Subscriptions
  <2>4. pipesInUse = 0 /\ subscriptionsInUse = 0
    BY DEF Init
  <2> QED BY <2>1, <2>2, <2>3, <2>4, StatsSets, FS_EmptySet
<1> QED BY <1>1, TableInit, TableStep, StatsStep, PTL DEF Spec

(***************************************************************************)
(* The books: what a process may hold at each point of its API call, and   *)
(* which pipes nobody can know of yet.                                     *)
(***************************************************************************)

\* The parts of an API call that a process goes through with a write set,
\* with a buffer in its hands, and while it reads or creates a pipe.
Sending  == {"put", "undo"}
Holding  == {"own", "put", "undo", "export", "drain", "exit"}
Reading  == {"get", "export"}
Creating == {"create", "publish", "unreserve"}

\* ES only deletes pipes; a write set is only held while sending, and has in
\* it the pipe whose write just failed; a buffer is only held where the code
\* has it in a local variable.
CallTold(x) ==
  /\ x = ES => pc[x] \in {"idle", "drain", "qdelete", "free"}
  /\ pc[x] \notin Sending => todo[x] = {}
  /\ pc[x] = "undo" => pipe[x] \in todo[x]
  /\ pc[x] \notin Holding => buf[x] = NULL

CallsTold == \A x \in Procs : CallTold(x)

\* A step of one process leaves the locals of the others alone.
Local(x) ==
  \A y \in Procs \ {x} :
    pc'[y] = pc[y] /\ buf'[y] = buf[y] /\ todo'[y] = todo[y] /\ pipe'[y] = pipe[y]

\* One step of process x, by the operation it belongs to.
StepOf(x) ==
  \/ /\ x \in Tasks
     /\ \/ AllocateMessageBuffer(x) \/ ReleaseMessageBuffer(x) \/ ExitApp(x)
        \/ Transmit(x) \/ Receive(x) \/ Create(x)
  \/ Drain(x)
  \/ pc[x] = "idle" /\ \E p \in PipeIds : \E app \in Apps : UnlinkPipe(x, p, app)

\* The steps that belong to no process in the middle of a call.
ConfigStep ==
  \/ \E t \in Tasks, p \in PipeIds, m \in MsgIds : Subscribe(t, m, p) \/ Unsubscribe(t, m, p)
  \/ \E t \in Tasks, p \in PipeIds, ignore \in BOOLEAN : SetPipeOpts(t, p, ignore)
  \/ Command

\* Every step is one of these.
LEMMA StepKinds ==
  ASSUME [Next]_vars
  PROVE  \/ \E x \in Procs : StepOf(x)
         \/ ConfigStep
         \/ \E a \in Apps : ZeroCopyReleaseAppId(a)
         \/ UNCHANGED vars
<1>1. ASSUME NEW t \in Tasks, TaskStep(t) PROVE StepOf(t) \/ ConfigStep
  <2>1. CASE Configure(t)
    <3>1. ASSUME NEW p \in PipeIds, DeletePipe(t, p) PROVE StepOf(t)
      BY <3>1, SBAssumption DEF DeletePipe, StepOf
    <3> QED BY <2>1, <3>1 DEF Configure, ConfigStep
  <2> QED BY <1>1, <2>1 DEF TaskStep, StepOf
<1>2. ASSUME CleanUpApp
      PROVE  (\E x \in Procs : StepOf(x)) \/ \E a \in Apps : ZeroCopyReleaseAppId(a)
  <2>1. ASSUME NEW a \in Apps, NEW p \in PipeIds, CleanUpPipe(a, p) PROVE StepOf(ES)
    BY <2>1 DEF CleanUpPipe, StepOf
  <2> QED BY <1>2, <2>1 DEF CleanUpApp, Procs
<1>3. \A x \in Procs : Drain(x) => StepOf(x)
  BY DEF StepOf
<1> QED BY <1>1, <1>2, <1>3 DEF Next, Procs, ConfigStep

\* The locals of the processes stay as the code has them, and a step of one
\* process touches its own only.
LEMMA CallsStep ==
  ASSUME TypeOK, CallsTold, NEW x \in Procs, StepOf(x)
  PROVE  Local(x) /\ CallTold(x)'
<1>0. /\ pc \in [Procs -> PC] /\ buf \in [Procs -> Bufs \cup {NULL}]
      /\ todo \in [Procs -> SUBSET PipeIds] /\ pipe \in [Procs -> PipeIds]
  BY DEF TypeOK, ProcsTyped
<1>es. ES \notin Tasks /\ CallTold(x)
  BY SBAssumption DEF CallsTold
<1> USE <1>0, <1>es DEF Local, CallTold, Sending, Holding, Goto, Return, Hold
<1>1. ASSUME x \in Tasks, AllocateMessageBuffer(x) PROVE Local(x) /\ CallTold(x)'
  BY <1>1 DEF AllocateMessageBuffer
<1>2. ASSUME x \in Tasks, ReleaseMessageBuffer(x) PROVE Local(x) /\ CallTold(x)'
  BY <1>2 DEF ReleaseMessageBuffer
<1>3. ASSUME x \in Tasks, NEW m \in MsgIds, FindDestinations(x, m) PROVE Local(x) /\ CallTold(x)'
  BY <1>3 DEF FindDestinations
<1>4. ASSUME x \in Tasks, QueuePut(x) PROVE Local(x) /\ CallTold(x)'
  BY <1>4 DEF QueuePut
<1>5. ASSUME x \in Tasks, QueuePutFails(x) PROVE Local(x) /\ CallTold(x)'
  BY <1>5 DEF QueuePutFails
<1>6. ASSUME x \in Tasks, UndoPut(x) PROVE Local(x) /\ CallTold(x)'
  BY <1>6 DEF UndoPut
<1>7. ASSUME x \in Tasks, TransmitFinish(x) PROVE Local(x) /\ CallTold(x)'
  BY <1>7 DEF TransmitFinish
<1>8. ASSUME x \in Tasks, NEW p \in PipeIds, ReceiveBuffer(x, p) PROVE Local(x) /\ CallTold(x)'
  BY <1>8 DEF ReceiveBuffer
<1>9. ASSUME x \in Tasks, QueueGet(x) PROVE Local(x) /\ CallTold(x)'
  BY <1>9 DEF QueueGet
<1>10. ASSUME x \in Tasks, QueueGetFails(x) PROVE Local(x) /\ CallTold(x)'
  BY <1>10 DEF QueueGetFails
<1>11. ASSUME x \in Tasks, ExportReference(x) PROVE Local(x) /\ CallTold(x)'
  BY <1>11 DEF ExportReference
<1>12. ASSUME x \in Tasks, CreatePipe(x) PROVE Local(x) /\ CallTold(x)'
  BY <1>12 DEF CreatePipe
<1>13. ASSUME x \in Tasks, QueueCreate(x) PROVE Local(x) /\ CallTold(x)'
  BY <1>13 DEF QueueCreate
<1>14. ASSUME x \in Tasks, QueueCreateFails(x) PROVE Local(x) /\ CallTold(x)'
  BY <1>14 DEF QueueCreateFails
<1>15. ASSUME x \in Tasks, PublishPipe(x) PROVE Local(x) /\ CallTold(x)'
  BY <1>15 DEF PublishPipe
<1>16. ASSUME x \in Tasks, UnreservePipe(x) PROVE Local(x) /\ CallTold(x)'
  BY <1>16 DEF UnreservePipe
<1>17. ASSUME NEW p \in PipeIds, NEW app, UnlinkPipe(x, p, app), pc[x] = "idle" PROVE Local(x) /\ CallTold(x)'
  BY <1>17 DEF UnlinkPipe
<1>18. ASSUME DrainRelease(x) PROVE Local(x) /\ CallTold(x)'
  BY <1>18 DEF DrainRelease
<1>19. ASSUME DrainGet(x) PROVE Local(x) /\ CallTold(x)'
  BY <1>19 DEF DrainGet
<1>20. ASSUME DrainEmpty(x) PROVE Local(x) /\ CallTold(x)'
  BY <1>20 DEF DrainEmpty
<1>21. ASSUME QueueDelete(x) PROVE Local(x) /\ CallTold(x)'
  BY <1>21 DEF QueueDelete
<1>22. ASSUME FreePipe(x) PROVE Local(x) /\ CallTold(x)'
  BY <1>22 DEF FreePipe
<1>23. ASSUME x \in Tasks, ExitApp(x) PROVE Local(x) /\ CallTold(x)'
  BY <1>23 DEF ExitApp
<1> QED BY <1>1, <1>2, <1>3, <1>4, <1>5, <1>6, <1>7, <1>8, <1>9, <1>10, <1>11, <1>12, <1>13, <1>14, <1>15, <1>16, <1>17, <1>18, <1>19, <1>20, <1>21, <1>22, <1>23
       DEF StepOf, Transmit, Receive, Create, Drain

\* The steps that belong to no process leave every process where it is.
LEMMA ConfigLocal ==
  ASSUME ConfigStep
  PROVE  UNCHANGED <<pc, buf, todo, pipe, UseCount, Owner, MsgId, queue, qOpen, lastPipeId>>
  BY DEF ConfigStep, Subscribe, Unsubscribe, SetPipeOpts, Command, EnableRoute, DisableRoute,
         procVars, bufVars, queueVars, pipeVars

\* Every process stays where its API call can have brought it.
LEMMA CallsToldStep == TypeOK /\ CallsTold /\ [Next]_vars => CallsTold'
<1> SUFFICES ASSUME TypeOK, CallsTold, [Next]_vars PROVE CallsTold'
  OBVIOUS
<1>1. ASSUME NEW x \in Procs, StepOf(x) PROVE CallsTold'
  <2>1. Local(x) /\ CallTold(x)'
    BY <1>1, CallsStep
  <2> QED BY <2>1 DEF CallsTold, CallTold, Local
<1>2. ASSUME NEW a \in Apps, ZeroCopyReleaseAppId(a) PROVE CallsTold'
  BY <1>2 DEF ZeroCopyReleaseAppId, CallsTold, CallTold
<1>3. CASE ConfigStep \/ UNCHANGED vars
  <2>1. UNCHANGED <<pc, buf, todo, pipe>>
    BY <1>3, ConfigLocal DEF vars, procVars
  <2> QED BY <2>1 DEF CallsTold, CallTold
<1> QED BY <1>1, <1>2, <1>3, StepKinds

(***************************************************************************)
(* Pipes that are not published yet: an id that CreatePipe has not reached *)
(* or that a process has reserved.                                         *)
(***************************************************************************)
Unpublished(p) ==
  p > lastPipeId \/ \E x \in Procs : pc[x] \in Creating /\ pipe[x] = p

\* Nobody refers to an unpublished pipe, and its queue and its descriptor
\* are as good as new: the pipe starts with exact accounts.
FreshPipes ==
  /\ \A x \in Procs : pc[x] \in Creating =>
       /\ pipe[x] <= lastPipeId
       /\ pipeTbl[Slot(pipe[x])].last = NULL
       /\ pipeTbl[Slot(pipe[x])].depth = 0
  /\ \A p \in PipeIds : Unpublished(p) =>
       /\ queue[p] = <<>> /\ p \notin LivePipes
       /\ \A t \in Tasks : p \notin todo[t] /\ (pc[t] \in Reading => pipe[t] # p)

\* The task that is reading a live pipe is the one that created it, and it
\* has let the previous message go.
OneReader ==
  \A t \in Tasks : pc[t] \in Reading /\ pipe[t] \in LivePipes =>
    /\ pipeTbl[Slot(pipe[t])].reader = t
    /\ pipeTbl[Slot(pipe[t])].last = NULL

\* A live pipe's descriptor is not in a reserved slot.
LEMMA LiveSlots ==
  ASSUME TableInv
  PROVE  /\ \A p \in PipeIds : Slot(p) \in Slots /\ p # FREE /\ p # RESERVED
         /\ \A p \in PipeIds : PipeDescIsMatch(p) <=> p \in LivePipes
         /\ \A p \in LivePipes : p \in PipeIds /\ pipeTbl[Slot(p)].id = p
         /\ \A x \in Procs : pipe[x] \in PipeIds
         /\ \A x \in Procs : Busy(x) => pipeTbl[Slot(pipe[x])].id = RESERVED
         /\ FREE # RESERVED
<1>1. \A p \in PipeIds : Slot(p) \in Slots /\ p # FREE /\ p # RESERVED
  BY SlotType DEF PipeIds, FREE, RESERVED
<1>2. \A x \in Procs : pipe[x] \in PipeIds
  BY DEF TableInv, TypeOK, ProcsTyped
<1>3. \A x \in Procs : Busy(x) => pipeTbl[Slot(pipe[x])].id = RESERVED
  BY <1>1, <1>2 DEF TableInv, ReservedByOne
<1> QED BY <1>1, <1>2, <1>3 DEF LivePipes, PipeDescIsMatch, FREE, RESERVED

\* While a process is in the middle of creating or deleting a pipe, nobody
\* changes the descriptor it has reserved.
LEMMA ReservedKept ==
  ASSUME TableInv, CallsTold, [Next]_vars, NEW x \in Procs, Busy(x), Busy(x)'
  PROVE  pipeTbl'[Slot(pipe[x])] = pipeTbl[Slot(pipe[x])] /\ pipe'[x] = pipe[x]
<1> DEFINE s == Slot(pipe[x])
<1>0. /\ pc \in [Procs -> PC] /\ pipe \in [Procs -> PipeIds]
      /\ pipeTbl \in [Slots -> PipeDesc]
      /\ s \in Slots /\ pipeTbl[s].id = RESERVED
  BY LiveSlots DEF TableInv, TypeOK, PipesTyped, ProcsTyped
<1>1. \A p \in PipeIds : Slot(p) \in Slots /\ (PipeDescIsMatch(p) => Slot(p) # s)
  BY <1>0, LiveSlots DEF PipeDescIsMatch
<1> DEFINE Kept == pipeTbl'[s] = pipeTbl[s]
<1> HIDE DEF s
<1>2. ASSUME NEW y \in Tasks, CreatePipe(y) PROVE Kept /\ y # x
  <2>1. PICK i \in PipeIds :
          /\ pipeTbl[Slot(i)].id = FREE
          /\ pipeTbl' = [pipeTbl EXCEPT ![Slot(i)] = [EmptyPipeDesc EXCEPT !.id = RESERVED]]
    BY <1>2 DEF CreatePipe, FreeIds
  <2>2. Slot(i) # s
    BY <2>1, <1>0, LiveSlots
  <2>3. y # x
    BY <1>2 DEF CreatePipe, Busy
  <2> QED BY <2>1, <2>2, <2>3, <1>0
<1>3. ASSUME NEW y \in Tasks, NEW m \in MsgIds, FindDestinations(y, m) PROVE Kept
  <2>1. RESERVED \notin WithinLimit(y, m)
    BY LiveSlots DEF WithinLimit, Destinations, TableInv, TypeOK, RoutesTyped
  <2> QED BY <1>3, <2>1, <1>0 DEF FindDestinations
<1>4. ASSUME NEW y \in Procs, UndoPut(y) \/ ExportReference(y) PROVE Kept
  BY <1>4, <1>0, <1>1 DEF UndoPut, ExportReference, UnchargePipe
<1>5. ASSUME NEW y \in Tasks, NEW p \in PipeIds, ReceiveBuffer(y, p) PROVE Kept
  BY <1>5, <1>0, <1>1 DEF ReceiveBuffer
<1>6. ASSUME NEW y \in Procs, PublishPipe(y) \/ UnreservePipe(y) \/ FreePipe(y) PROVE Kept
  <2>1. Busy(y) /\ ~Busy(y)'
    BY <1>6, <1>0 DEF PublishPipe, UnreservePipe, FreePipe, Busy, Return, Goto
  <2>2. Slot(pipe[y]) # s
    BY <2>1, <1>0 DEF TableInv, ReservedByOne, s
  <2> QED BY <1>6, <2>2, <1>0 DEF PublishPipe, UnreservePipe, FreePipe
<1>7. ASSUME NEW y \in Procs, NEW p \in PipeIds, NEW app, UnlinkPipe(y, p, app) PROVE Kept
  BY <1>7, <1>0, <1>1 DEF UnlinkPipe
<1>8. ASSUME NEW y \in Tasks, NEW p \in PipeIds, NEW ignore, SetPipeOpts(y, p, ignore) PROVE Kept
  BY <1>8, <1>0, <1>1 DEF SetPipeOpts
<1>9. UNCHANGED pipeTbl => Kept
  OBVIOUS
<1>10. ASSUME NEW y \in Procs, StepOf(y) PROVE Kept
  <2>1. CASE Transmit(y) /\ y \in Tasks
    BY <2>1, <1>3, <1>4, <1>9 DEF Transmit, QueuePut, QueuePutFails, TransmitFinish, pipeVars, Procs
  <2>2. CASE Receive(y) /\ y \in Tasks
    BY <2>2, <1>4, <1>5, <1>9 DEF Receive, QueueGet, QueueGetFails, pipeVars, Procs
  <2>3. CASE Create(y) /\ y \in Tasks
    BY <2>3, <1>2, <1>6, <1>9 DEF Create, QueueCreate, QueueCreateFails, pipeVars
  <2>4. CASE Drain(y)
    BY <2>4, <1>6, <1>9 DEF Drain, DrainRelease, DrainGet, DrainEmpty, QueueDelete, pipeVars
  <2>5. CASE AllocateMessageBuffer(y) \/ ReleaseMessageBuffer(y) \/ ExitApp(y)
    BY <2>5, <1>9 DEF AllocateMessageBuffer, ReleaseMessageBuffer, ExitApp, pipeVars
  <2> QED BY <1>10, <2>1, <2>2, <2>3, <2>4, <2>5, <1>7 DEF StepOf
<1>11. ASSUME ConfigStep PROVE Kept
  BY <1>11, <1>8, <1>9 DEF ConfigStep, Subscribe, Unsubscribe, Command, EnableRoute, DisableRoute, pipeVars
<1>12. Kept
  BY <1>9, <1>10, <1>11, StepKinds DEF ZeroCopyReleaseAppId, vars, pipeVars
<1>13. pipe'[x] = pipe[x]
  <2>1. ASSUME NEW y \in Procs, y # x, StepOf(y) PROVE pipe'[x] = pipe[x]
    BY <2>1, CallsStep DEF Local, TableInv
  <2>2. ASSUME StepOf(x) PROVE pipe'[x] = pipe[x]
    <3>1. Create(x) \/ Drain(x)
      BY <2>2 DEF StepOf, Busy, AllocateMessageBuffer, ReleaseMessageBuffer, ExitApp, Transmit,
         FindDestinations, QueuePut, QueuePutFails, UndoPut, TransmitFinish, Receive,
         ReceiveBuffer, QueueGet, QueueGetFails, ExportReference
    <3> QED BY <3>1, <1>0 DEF Create, CreatePipe, QueueCreate, QueueCreateFails, PublishPipe,
              UnreservePipe, Drain, DrainRelease, DrainGet, DrainEmpty, QueueDelete, FreePipe,
              Busy, Return, Goto
  <2> QED BY <2>1, <2>2, StepKinds, ConfigLocal DEF ZeroCopyReleaseAppId, vars, procVars
<1> QED BY <1>12, <1>13 DEF s

\* A process starts to create a pipe only in CFE_SB_CreatePipe, with an id
\* above all that were issued before.
LEMMA CreateStarts ==
  ASSUME TypeOK, CallsTold, [Next]_vars
  PROVE  /\ \A x \in Procs : pc'[x] \in Creating /\ pc[x] \notin Creating =>
              x \in Tasks /\ CreatePipe(x)
         /\ lastPipeId' # lastPipeId => \E t \in Tasks : CreatePipe(t)
         /\ \A t \in Tasks : CreatePipe(t) =>
              /\ pipe'[t] = lastPipeId' /\ lastPipeId' > lastPipeId
              /\ pipeTbl'[Slot(pipe'[t])].last = NULL
              /\ pipeTbl'[Slot(pipe'[t])].depth = 0
         /\ lastPipeId' >= lastPipeId
<1>0. /\ pc \in [Procs -> PC] /\ pipe \in [Procs -> PipeIds]
      /\ pipeTbl \in [Slots -> PipeDesc] /\ lastPipeId \in Nat
  BY DEF TypeOK, PipesTyped, ProcsTyped
<1>1. ASSUME NEW x \in Procs, pc'[x] \in Creating, pc[x] \notin Creating
      PROVE  x \in Tasks /\ CreatePipe(x)
  <2>1. ASSUME NEW y \in Procs, y # x, StepOf(y) PROVE FALSE
    BY <1>1, <2>1, CallsStep DEF Local
  <2>2. ~UNCHANGED pc
    BY <1>1
  <2>3. StepOf(x)
    BY <2>1, <2>2, StepKinds, ConfigLocal DEF ZeroCopyReleaseAppId, vars, procVars
  <2>4. x \in Tasks /\ Create(x)
    BY <1>0, <1>1, <2>3 DEF StepOf, Creating, AllocateMessageBuffer, ReleaseMessageBuffer, ExitApp, Transmit,
         FindDestinations, QueuePut, QueuePutFails, UndoPut, TransmitFinish, Receive,
         ReceiveBuffer, QueueGet, QueueGetFails, ExportReference, UnlinkPipe,
         Drain, DrainRelease, DrainGet, DrainEmpty, QueueDelete, FreePipe, Return, Goto
  <2> QED BY <1>0, <1>1, <2>4 DEF Create, QueueCreate, QueueCreateFails, PublishPipe, UnreservePipe,
              Creating, Return, Goto
<1>2. ASSUME ~\E t \in Tasks : CreatePipe(t) PROVE lastPipeId' = lastPipeId
  <2>1. ASSUME NEW x \in Procs, StepOf(x) PROVE lastPipeId' = lastPipeId
    BY <1>2, <2>1 DEF StepOf, AllocateMessageBuffer, ReleaseMessageBuffer, ExitApp, Transmit,
         FindDestinations, QueuePut, QueuePutFails, UndoPut, TransmitFinish, Receive,
         ReceiveBuffer, QueueGet, QueueGetFails, ExportReference, UnlinkPipe,
         Drain, DrainRelease, DrainGet, DrainEmpty, QueueDelete, FreePipe,
         Create, QueueCreate, QueueCreateFails, PublishPipe, UnreservePipe, pipeVars
  <2> QED BY <2>1, StepKinds, ConfigLocal DEF ZeroCopyReleaseAppId, vars, pipeVars
<1>3. ASSUME NEW t \in Tasks, CreatePipe(t)
      PROVE  /\ pipe'[t] = lastPipeId' /\ lastPipeId' > lastPipeId
             /\ pipeTbl'[Slot(pipe'[t])].last = NULL
             /\ pipeTbl'[Slot(pipe'[t])].depth = 0
  <2>1. PICK i \in PipeIds :
          /\ i \in (lastPipeId + 1)..(lastPipeId + MaxPipes)
          /\ pipeTbl' = [pipeTbl EXCEPT ![Slot(i)] = [EmptyPipeDesc EXCEPT !.id = RESERVED]]
          /\ pipe' = [pipe EXCEPT ![t] = i] /\ lastPipeId' = i
    BY <1>3 DEF CreatePipe, FreeIds
  <2>2. Slot(i) \in Slots /\ pipe'[t] = i
    BY <2>1, <1>0, SlotType DEF PipeIds, Procs
  <2>3. pipeTbl'[Slot(i)] = [EmptyPipeDesc EXCEPT !.id = RESERVED]
    BY <2>1, <2>2, <1>0
  <2>4. lastPipeId' > lastPipeId
    BY <2>1, <1>0, SBAssumption
  <2> QED BY <2>1, <2>2, <2>3, <2>4 DEF EmptyPipeDesc
<1>4. lastPipeId' >= lastPipeId
  <2>1. lastPipeId' \in Int
    BY TypeStep DEF TypeOK, PipesTyped
  <2> QED BY <2>1, <1>0, <1>2, <1>3
<1> QED BY <1>1, <1>2, <1>3, <1>4

\* A pipe becomes live only when it is published.
LEMMA LiveGrows ==
  ASSUME TableInv, [Next]_vars
  PROVE  LivePipes' \subseteq LivePipes \/ \E t \in Tasks : PublishPipe(t)
<1>0. TypeOK
  BY DEF TableInv
<1> DEFINE Goal == LivePipes' \subseteq LivePipes \/ \E t \in Tasks : PublishPipe(t)
<1>1. ASSUME NEW x \in Procs, NEW q \in PipeIds, NEW app, UnlinkPipe(x, q, app) PROVE Goal
  BY <1>1, LiveSteps
<1>2. CASE QuietStep \/ UNCHANGED pipeTbl
  BY <1>2, LiveSteps
<1>3. ASSUME NEW x \in Procs, StepOf(x) PROVE Goal
  <2>1. CASE x \in Tasks /\ Create(x)
    BY <2>1, LiveSteps DEF Create, Procs
  <2>2. CASE Drain(x)
    BY <2>2, <1>0, <1>2, LiveSteps, QuietSteps DEF Drain, QueueDelete, pipeVars
  <2>3. CASE x \in Tasks /\ (Transmit(x) \/ Receive(x) \/ AllocateMessageBuffer(x)
                             \/ ReleaseMessageBuffer(x) \/ ExitApp(x))
    BY <2>3, <1>2, <1>0, QuietSteps
  <2> QED BY <1>3, <2>1, <2>2, <2>3, <1>1 DEF StepOf
<1>4. CASE ConfigStep
  <2>1. CASE Command
    BY <2>1, <1>2, <1>0, QuietSteps
  <2>2. ASSUME NEW t \in Tasks, NEW q \in PipeIds, NEW ignore \in BOOLEAN, SetPipeOpts(t, q, ignore)
        PROVE  Goal
    BY <2>2, <1>2, <1>0, QuietSteps
  <2> QED BY <1>4, <2>1, <2>2, <1>2 DEF ConfigStep, Subscribe, Unsubscribe, pipeVars
<1> QED BY <1>2, <1>3, <1>4, StepKinds DEF ZeroCopyReleaseAppId, vars, pipeVars

\* Unpublished pipes stay unknown to everyone until they are published.
LEMMA FreshStep ==
  ASSUME TableInv, CallsTold, FreshPipes, [Next]_vars
  PROVE  FreshPipes'
<1>0. /\ pc \in [Procs -> PC] /\ pipe \in [Procs -> PipeIds]
      /\ todo \in [Procs -> SUBSET PipeIds] /\ queue \in [PipeIds -> Seq(Bufs)]
      /\ lastPipeId \in Nat /\ lastPipeId' \in Nat /\ TypeOK
  BY TypeStep DEF TableInv, TypeOK, PipesTyped, ProcsTyped, QueuesTyped
<1>1. ASSUME NEW x \in Procs, pc'[x] \in Creating, pc[x] \in Creating
      PROVE  pipeTbl'[Slot(pipe[x])] = pipeTbl[Slot(pipe[x])] /\ pipe'[x] = pipe[x]
  BY <1>1, ReservedKept DEF Busy, Creating
<1>2. ASSUME NEW x \in Procs, pc'[x] \in Creating
      PROVE  /\ pipe'[x] <= lastPipeId'
             /\ pipeTbl'[Slot(pipe'[x])].last = NULL
             /\ pipeTbl'[Slot(pipe'[x])].depth = 0
  <2>1. CASE pc[x] \in Creating
    <3>1. pipe[x] <= lastPipeId /\ lastPipeId <= lastPipeId' /\ pipe[x] \in Nat
      BY <2>1, <1>0, CreateStarts DEF FreshPipes, PipeIds
    <3> QED BY <2>1, <3>1, <1>0, <1>1, <1>2 DEF FreshPipes
  <2>2. CASE pc[x] \notin Creating
    BY <2>2, <1>0, <1>2, CreateStarts
  <2> QED BY <2>1, <2>2
<1>3. ASSUME NEW p \in PipeIds, Unpublished(p)' PROVE Unpublished(p)
  <2>0. p \in Nat
    BY DEF PipeIds
  <2>1. CASE p > lastPipeId'
    BY <2>0, <2>1, <1>0, CreateStarts DEF Unpublished
  <2>2. ASSUME NEW x \in Procs, pc'[x] \in Creating, pipe'[x] = p PROVE Unpublished(p)
    <3>1. CASE pc[x] \in Creating
      BY <2>2, <3>1, <1>1 DEF Unpublished
    <3>2. CASE pc[x] \notin Creating
      BY <2>2, <3>2, <1>0, CreateStarts DEF Unpublished
    <3> QED BY <3>1, <3>2
  <2> QED BY <1>3, <2>1, <2>2 DEF Unpublished
<1>4. ASSUME NEW p \in PipeIds, Unpublished(p)
      PROVE  queue'[p] = <<>> /\ \A t \in Tasks : p \notin todo'[t] /\ (pc'[t] \in Reading => pipe'[t] # p)
  <2>0. /\ queue[p] = <<>> /\ p \notin LivePipes
        /\ \A t \in Tasks : p \notin todo[t] /\ (pc[t] \in Reading => pipe[t] # p)
    BY <1>4 DEF FreshPipes
  <2>1. ASSUME NEW x \in Procs, StepOf(x) PROVE queue'[p] = <<>>
    <3>1. CASE x \in Tasks /\ QueuePut(x)
      BY <3>1, <2>0, <1>0 DEF QueuePut
    <3>2. CASE QueueGet(x) \/ DrainGet(x)
      BY <3>2, <2>0, <1>0 DEF QueueGet, DrainGet
    <3>3. CASE UNCHANGED queue
      BY <3>3, <2>0
    <3> QED BY <2>1, <3>1, <3>2, <3>3 DEF StepOf, AllocateMessageBuffer, ReleaseMessageBuffer, ExitApp, Transmit,
         FindDestinations, QueuePutFails, UndoPut, TransmitFinish, Receive,
         ReceiveBuffer, QueueGetFails, ExportReference, UnlinkPipe,
         Drain, DrainRelease, DrainEmpty, QueueDelete, FreePipe,
         Create, CreatePipe, QueueCreate, QueueCreateFails, PublishPipe, UnreservePipe, queueVars
  <2>2. ASSUME NEW x \in Tasks, StepOf(x) PROVE p \notin todo'[x] /\ (pc'[x] \in Reading => pipe'[x] # p)
    <3>0. x \in Procs /\ p \notin todo[x] /\ (pc[x] \in Reading => pipe[x] # p)
      BY <2>0 DEF Procs
    <3>1. ASSUME NEW m \in MsgIds, FindDestinations(x, m) PROVE p \notin todo'[x] /\ pc'[x] \notin Reading
      <4>1. p \notin WithinLimit(x, m)
        BY <2>0 DEF WithinLimit, Destinations, LivePipes
      <4> QED BY <3>1, <4>1, <3>0, <1>0 DEF FindDestinations, Goto, Reading
    <3>2. ASSUME NEW q \in PipeIds, ReceiveBuffer(x, q) PROVE p \notin todo'[x] /\ pipe'[x] # p
      BY <3>2, <3>0, <2>0, <1>0 DEF ReceiveBuffer, LivePipes
    <3>3. CASE QueueGet(x) \/ UndoPut(x) \/ QueuePut(x)
      BY <3>3, <3>0, <1>0 DEF QueueGet, UndoPut, QueuePut, Goto, Reading
    <3>4. CASE UNCHANGED todo /\ pc'[x] \notin Reading
      BY <3>0, <3>4
    <3> QED BY <2>2, <3>0, <3>1, <3>2, <3>3, <3>4, <1>0
          DEF StepOf, AllocateMessageBuffer, ReleaseMessageBuffer, ExitApp, Transmit,
         QueuePutFails, TransmitFinish, Receive, QueueGetFails, ExportReference, UnlinkPipe,
         Drain, DrainRelease, DrainGet, DrainEmpty, QueueDelete, FreePipe,
         Create, CreatePipe, QueueCreate, QueueCreateFails, PublishPipe, UnreservePipe,
         Return, Goto, Reading
  <2>3. ASSUME NEW x \in Procs, StepOf(x), NEW t \in Tasks
        PROVE  p \notin todo'[t] /\ (pc'[t] \in Reading => pipe'[t] # p)
    <3>1. Local(x)
      BY <2>3, <1>0, CallsStep
    <3> QED BY <2>0, <2>2, <2>3, <3>1 DEF Local, Procs
  <2>4. ASSUME UNCHANGED <<pc, todo, pipe, queue>>
        PROVE queue'[p] = <<>> /\ \A t \in Tasks : p \notin todo'[t] /\ (pc'[t] \in Reading => pipe'[t] # p)
    BY <2>0, <2>4
  <2> QED BY <2>1, <2>3, <2>4, StepKinds, ConfigLocal DEF ZeroCopyReleaseAppId, vars, procVars, queueVars
<1>5. ASSUME NEW p \in PipeIds, Unpublished(p)' PROVE p \notin LivePipes'
  <2>0. p \notin LivePipes
    BY <1>3, <1>5 DEF FreshPipes
  <2>1. ASSUME NEW t \in Tasks, PublishPipe(t) PROVE p \notin LivePipes'
    <3>1. LivePipes' = LivePipes \cup {pipe[t]}
      BY <2>1, LiveSteps
    <3>2. t \in Procs /\ pc[t] \in Creating /\ Busy(t) /\ pc'[t] \notin Creating /\ lastPipeId' = lastPipeId
      BY <2>1, <1>0 DEF PublishPipe, Creating, Busy, Return, Goto, Procs
    <3>3. ~(pipe[t] > lastPipeId')
      BY <3>2, <1>0 DEF FreshPipes, PipeIds
    <3>4. ASSUME NEW x \in Procs, pc'[x] \in Creating, pipe'[x] = pipe[t] PROVE FALSE
      <4>1. pc[x] \in Creating
        BY <3>4, <1>0, <2>1, CreateStarts DEF CreatePipe, PublishPipe, Return, Goto, Creating, Procs
      <4>2. x # t /\ Busy(x) /\ pipe[x] = pipe[t]
        BY <4>1, <3>2, <3>4, <1>1 DEF Busy, Creating
      <4> QED BY <4>2, <3>2 DEF TableInv, ReservedByOne
    <3>5. p # pipe[t]
      BY <1>5, <3>3, <3>4 DEF Unpublished
    <3> QED BY <2>0, <3>1, <3>5
  <2> QED BY <2>0, <2>1, LiveGrows
<1>6. \A p \in PipeIds : Unpublished(p)' =>
       /\ queue'[p] = <<>> /\ p \notin LivePipes'
       /\ \A t \in Tasks : p \notin todo'[t] /\ (pc'[t] \in Reading => pipe'[t] # p)
  BY <1>3, <1>4, <1>5
<1> QED BY <1>2, <1>6 DEF FreshPipes

(***************************************************************************)
(* Queue depths.                                                           *)
(***************************************************************************)

\* Who is about to write to a pipe, and who has just read from it.
Writers(p)   == {t \in Tasks : p \in todo[t]}
Exporters(p) == {t \in Tasks : pc[t] = "export" /\ pipe[t] = p}

\* The depth of one pipe is exact.
DepthIs(p) ==
  pipeTbl[Slot(p)].depth =
    Len(queue[p]) + Cardinality(Writers(p)) + Cardinality(Exporters(p))

\* The depths, in terms of the tasks that are counted.
LEMMA DepthSets == DepthExact <=> \A p \in LivePipes : DepthIs(p)
  BY DEF DepthExact, DepthIs, Writers, Exporters

\* Two live pipes have descriptors of their own.
LEMMA LiveApart ==
  ASSUME NEW p \in LivePipes, NEW q \in LivePipes, Slot(p) = Slot(q) PROVE p = q
  BY DEF LivePipes, PipeDescIsMatch

\* The depth of a pipe that is and stays live stays exact.
LEMMA DepthKept ==
  ASSUME TableInv, CallsTold, [Next]_vars,
         NEW p \in LivePipes, p \in LivePipes', DepthIs(p)
  PROVE  DepthIs(p)'
<1>0. /\ pc \in [Procs -> PC] /\ pipe \in [Procs -> PipeIds]
      /\ todo \in [Procs -> SUBSET PipeIds] /\ queue \in [PipeIds -> Seq(Bufs)]
      /\ pipeTbl \in [Slots -> PipeDesc] /\ TypeOK
      /\ Tasks \subseteq Procs /\ p \in PipeIds
  BY DEF TableInv, TypeOK, PipesTyped, ProcsTyped, QueuesTyped, Procs, LivePipes
<1>s. Slot(p) \in Slots /\ pipeTbl[Slot(p)].id = p /\ pipeTbl[Slot(p)].depth \in Nat
      /\ p # FREE /\ p # RESERVED
  BY <1>0, LiveSlots DEF PipeDesc
<1>fin. IsFiniteSet(Writers(p)) /\ IsFiniteSet(Exporters(p))
  BY SBAssumption, FS_Subset DEF Writers, Exporters
<1>nat. Cardinality(Writers(p)) \in Nat /\ Cardinality(Exporters(p)) \in Nat /\ Len(queue[p]) \in Nat
  BY <1>fin, <1>0, FS_CardinalityType
<1> DEFINE SameDesc == pipeTbl'[Slot(p)].depth = pipeTbl[Slot(p)].depth
           SameQueue == queue'[p] = queue[p]
           SameWriters == Writers(p)' = Writers(p)
           SameExporters == Exporters(p)' = Exporters(p)
<1>same. SameDesc /\ SameQueue /\ SameWriters /\ SameExporters => DepthIs(p)'
  <2> SUFFICES ASSUME SameDesc, SameQueue, SameWriters, SameExporters PROVE DepthIs(p)'
    OBVIOUS
  <2> QED BY DEF DepthIs, Slot
<1>w. ASSUME NEW x \in Procs, Local(x), x \in Tasks => (p \in todo'[x] <=> p \in todo[x]) PROVE SameWriters
  BY <1>w, <1>0 DEF Local, Writers
<1>e. ASSUME NEW x \in Procs, Local(x), pc[x] # "export", pc'[x] # "export" PROVE SameExporters
  BY <1>e, <1>0 DEF Local, Exporters
<1>1. ASSUME NEW t \in Tasks, NEW m \in MsgIds, FindDestinations(t, m), Local(t) PROVE DepthIs(p)'
  <2>0. todo[t] = {} /\ pc[t] # "export" /\ pc'[t] # "export" /\ todo'[t] = WithinLimit(t, m)
    BY <1>1, <1>0 DEF CallsTold, CallTold, FindDestinations, Sending, Goto
  <2>1. SameQueue /\ SameExporters
    BY <1>1, <2>0, <1>0, <1>e DEF FindDestinations, queueVars
  <2>2. CASE p \in WithinLimit(t, m)
    <3>1. pipeTbl'[Slot(p)].depth = pipeTbl[Slot(p)].depth + 1
      BY <1>1, <2>2, <1>s, <1>0 DEF FindDestinations, PipeDesc
    <3>2. Writers(p)' = Writers(p) \cup {t} /\ t \notin Writers(p)
      BY <1>1, <2>0, <2>2, <1>0 DEF Writers, Local
    <3>3. Cardinality(Writers(p)') = Cardinality(Writers(p)) + 1
      BY <3>2, <1>fin, FS_AddElement
    <3> QED BY <2>1, <3>1, <3>3, <1>nat DEF DepthIs, Slot
  <2>3. CASE p \notin WithinLimit(t, m)
    <3>1. SameDesc
      BY <1>1, <2>3, <1>s, <1>0 DEF FindDestinations
    <3>2. SameWriters
      BY <1>1, <1>0, <2>0, <2>3, <1>w
    <3> QED BY <2>1, <3>1, <3>2, <1>same
  <2> QED BY <2>2, <2>3
<1>2. ASSUME NEW t \in Tasks, QueuePut(t), Local(t) PROVE DepthIs(p)'
  <2>0. PICK q \in todo[t] :
          /\ queue' = [queue EXCEPT ![q] = Append(@, buf[t])]
          /\ todo' = [todo EXCEPT ![t] = @ \ {q}]
    BY <1>2 DEF QueuePut
  <2>1. SameDesc /\ SameExporters
    BY <1>2, <1>0, <1>e DEF QueuePut, pipeVars
  <2>2. CASE q = p
    <3>1. Len(queue'[p]) = Len(queue[p]) + 1
      <4>1. buf[t] \in Bufs
        BY <1>2, <1>0 DEF QueuePut, TypeOK, ProcsTyped
      <4>2. queue'[p] = Append(queue[p], buf[t])
        BY <2>0, <2>2, <1>0
      <4> QED BY <4>1, <4>2, <1>0
    <3>2. Writers(p)' = Writers(p) \ {t} /\ t \in Writers(p)
      BY <1>2, <2>0, <2>2, <1>0 DEF Writers, Local
    <3>3. Cardinality(Writers(p)') = Cardinality(Writers(p)) - 1
      BY <3>2, <1>fin, FS_RemoveElement
    <3> QED BY <2>1, <3>1, <3>3, <1>nat DEF DepthIs, Slot
  <2>3. CASE q # p
    BY <1>2, <2>0, <2>1, <2>3, <1>0, <1>same, <1>w
  <2> QED BY <2>2, <2>3
<1>3. ASSUME NEW t \in Tasks, UndoPut(t), Local(t) PROVE DepthIs(p)'
  <2>0. /\ pipe[t] \in todo[t] /\ pipe[t] \in PipeIds
        /\ todo'[t] = todo[t] \ {pipe[t]}
    BY <1>3, <1>0 DEF CallsTold, CallTold, UndoPut
  <2>1. SameQueue /\ SameExporters
    BY <1>3, <1>0, <1>e DEF UndoPut, queueVars, Goto
  <2>2. CASE pipe[t] = p
    <3>1. Writers(p)' = Writers(p) \ {t} /\ t \in Writers(p)
      BY <1>3, <2>0, <2>2, <1>0 DEF Writers, Local
    <3>2. Cardinality(Writers(p)') = Cardinality(Writers(p)) - 1 /\ Cardinality(Writers(p)) # 0
      BY <3>1, <1>fin, FS_RemoveElement, FS_EmptySet
    <3>3. pipeTbl'[Slot(p)].depth = Decr(pipeTbl[Slot(p)].depth)
      BY <1>3, <2>2, <1>s, <1>0 DEF UndoPut, UnchargePipe, PipeDescIsMatch, PipeDesc
    <3>4. pipeTbl'[Slot(p)].depth = pipeTbl[Slot(p)].depth - 1
      BY <3>2, <3>3, <1>nat, <1>s DEF DepthIs, Decr
    <3> QED BY <2>1, <3>2, <3>4, <1>nat DEF DepthIs, Slot
  <2>3. CASE pipe[t] # p
    <3>1. SameDesc
      <4>1. PipeDescIsMatch(pipe[t]) => Slot(pipe[t]) # Slot(p)
        BY <2>0, <2>3, LiveApart DEF LivePipes
      <4> QED BY <1>3, <4>1, <2>0, <1>s, <1>0, LiveSlots DEF UndoPut, UnchargePipe
    <3>2. SameWriters
      BY <1>3, <2>0, <2>3, <1>0, <1>w
    <3> QED BY <2>1, <3>1, <3>2, <1>same
  <2> QED BY <2>2, <2>3
<1>4. ASSUME NEW t \in Tasks, QueueGet(t), Local(t) PROVE DepthIs(p)'
  <2>0. /\ pipe[t] \in PipeIds /\ queue' = [queue EXCEPT ![pipe[t]] = Tail(@)]
        /\ queue[pipe[t]] # <<>> /\ pc[t] = "get" /\ pc'[t] = "export" /\ pipe'[t] = pipe[t]
    BY <1>4, <1>0 DEF QueueGet, Goto
  <2>1. SameDesc /\ SameWriters
    BY <1>4, <1>0, <1>w DEF QueueGet, pipeVars
  <2>2. CASE pipe[t] = p
    <3>1. Len(queue'[p]) = Len(queue[p]) - 1
      BY <2>0, <2>2, <1>0
    <3>2. Exporters(p)' = Exporters(p) \cup {t} /\ t \notin Exporters(p)
      BY <1>4, <2>0, <2>2, <1>0 DEF Exporters, Local
    <3>3. Cardinality(Exporters(p)') = Cardinality(Exporters(p)) + 1
      BY <3>2, <1>fin, FS_AddElement
    <3>4. pipeTbl'[Slot(p)].depth = Len(queue'[p]) + Cardinality(Writers(p)') + Cardinality(Exporters(p)')
      <4>1. PICK l \in Nat, w \in Nat, e \in Nat :
              l = Len(queue[p]) /\ w = Cardinality(Writers(p)) /\ e = Cardinality(Exporters(p))
        BY <1>nat
      <4>2. /\ pipeTbl'[Slot(p)].depth = l + w + e /\ Len(queue'[p]) = l - 1
            /\ Cardinality(Writers(p)') = w /\ Cardinality(Exporters(p)') = e + 1
        BY <4>1, <2>1, <3>1, <3>3 DEF DepthIs
      <4> QED BY <4>2
    <3> QED BY <3>4 DEF DepthIs, Slot
  <2>3. CASE pipe[t] # p
    <3>1. SameExporters
      BY <1>4, <2>0, <2>3, <1>0 DEF Exporters, Local
    <3>2. SameQueue
      BY <2>0, <2>3, <1>0
    <3> QED BY <2>1, <3>1, <3>2, <1>same
  <2> QED BY <2>2, <2>3
<1>5. ASSUME NEW t \in Tasks, ExportReference(t), Local(t) PROVE DepthIs(p)'
  <2>0. pipe[t] \in PipeIds /\ pc[t] = "export" /\ pc'[t] = "idle"
    BY <1>5, <1>0 DEF ExportReference, Return, Goto
  <2>1. SameQueue /\ SameWriters
    BY <1>5, <1>0, <1>w DEF ExportReference, queueVars
  <2>2. CASE pipe[t] = p
    <3>1. Exporters(p)' = Exporters(p) \ {t} /\ t \in Exporters(p)
      BY <1>5, <2>0, <2>2, <1>0 DEF Exporters, Local
    <3>2. Cardinality(Exporters(p)') = Cardinality(Exporters(p)) - 1 /\ Cardinality(Exporters(p)) # 0
      BY <3>1, <1>fin, FS_RemoveElement, FS_EmptySet
    <3>3. pipeTbl'[Slot(p)].depth = Decr(pipeTbl[Slot(p)].depth)
      BY <1>5, <2>2, <1>s, <1>0 DEF ExportReference, UnchargePipe, PipeDescIsMatch, PipeDesc
    <3>4. pipeTbl'[Slot(p)].depth = pipeTbl[Slot(p)].depth - 1
      BY <3>2, <3>3, <1>nat, <1>s DEF DepthIs, Decr
    <3> QED BY <2>1, <3>2, <3>4, <1>nat DEF DepthIs, Slot
  <2>3. CASE pipe[t] # p
    <3>1. SameDesc
      <4>1. PipeDescIsMatch(pipe[t]) => Slot(pipe[t]) # Slot(p)
        BY <2>0, <2>3, LiveApart DEF LivePipes
      <4> QED BY <1>5, <4>1, <2>0, <1>s, <1>0, LiveSlots DEF ExportReference, UnchargePipe
    <3>2. SameExporters
      BY <1>5, <2>0, <2>3, <1>0 DEF Exporters, Local
    <3> QED BY <2>1, <3>1, <3>2, <1>same
  <2> QED BY <2>2, <2>3
<1>6. ASSUME NEW x \in Procs, Local(x), todo'[x] = todo[x], pc[x] # "export", pc'[x] # "export",
             SameQueue, SameDesc
      PROVE  DepthIs(p)'
  BY <1>6, <1>w, <1>e, <1>same
<1>7. ASSUME NEW x \in Procs, Drain(x), Local(x) PROVE DepthIs(p)'
  <2>1. SameQueue
    <3>1. CASE DrainGet(x)
      <4>1. pipe[x] # p
        BY <3>1, <1>s, LiveSlots DEF DrainGet, Busy
      <4> QED BY <3>1, <4>1, <1>0 DEF DrainGet
    <3> QED BY <1>7, <3>1 DEF Drain, DrainRelease, DrainEmpty, QueueDelete, FreePipe, queueVars
  <2>2. SameDesc
    <3>1. CASE FreePipe(x)
      BY <3>1, <1>0, <1>s, LiveSlots DEF FreePipe, PipeDesc
    <3> QED BY <1>7, <3>1 DEF Drain, DrainRelease, DrainGet, DrainEmpty, QueueDelete, pipeVars
  <2>3. pc[x] # "export" /\ pc'[x] # "export" /\ todo'[x] = todo[x]
    BY <1>7, <1>0 DEF Drain, DrainRelease, DrainGet, DrainEmpty, QueueDelete, FreePipe, Return, Goto
  <2> QED BY <1>6, <1>7, <2>1, <2>2, <2>3
<1>8. ASSUME NEW t \in Tasks, CreatePipe(t), Local(t) PROVE DepthIs(p)'
  <2>1. PICK i \in PipeIds :
          /\ pipeTbl[Slot(i)].id = FREE
          /\ pipeTbl' = [pipeTbl EXCEPT ![Slot(i)] = [EmptyPipeDesc EXCEPT !.id = RESERVED]]
    BY <1>8 DEF CreatePipe, FreeIds
  <2>2. Slot(i) # Slot(p)
    BY <2>1, <1>s
  <2>3. SameDesc /\ SameQueue /\ pc[t] # "export" /\ pc'[t] # "export" /\ todo'[t] = todo[t]
    BY <1>8, <2>1, <2>2, <1>s, <1>0 DEF CreatePipe, Goto, queueVars
  <2> QED BY <1>0, <1>6, <1>8, <2>3
<1>9. ASSUME NEW t \in Tasks, QueueCreate(t) \/ QueueCreateFails(t) \/ PublishPipe(t) \/ UnreservePipe(t), Local(t)
      PROVE  DepthIs(p)'
  <2>1. SameDesc
    <3>1. CASE PublishPipe(t)
      BY <3>1, <1>0, <1>s, LiveSlots DEF PublishPipe, PipeDesc
    <3>2. CASE UnreservePipe(t)
      BY <3>2, <1>0, <1>s, LiveSlots DEF UnreservePipe, PipeDesc
    <3> QED BY <1>9, <3>1, <3>2 DEF QueueCreate, QueueCreateFails, pipeVars
  <2>2. SameQueue /\ pc[t] # "export" /\ pc'[t] # "export" /\ todo'[t] = todo[t]
    BY <1>9, <1>0 DEF QueueCreate, QueueCreateFails, PublishPipe, UnreservePipe, Return, Goto, queueVars
  <2> QED BY <1>0, <1>6, <1>9, <2>1, <2>2
<1>10. ASSUME NEW x \in Procs, NEW q \in PipeIds, NEW app, UnlinkPipe(x, q, app), pc[x] = "idle", Local(x)
       PROVE  DepthIs(p)'
  <2>1. SameDesc
    BY <1>10, <1>0, <1>s, LiveSlots DEF UnlinkPipe, PipeDesc
  <2>2. SameQueue /\ pc'[x] # "export" /\ todo'[x] = todo[x]
    BY <1>10, <1>0 DEF UnlinkPipe, Goto, queueVars
  <2> QED BY <1>6, <1>10, <2>1, <2>2
<1>11. ASSUME NEW t \in Tasks, NEW q \in PipeIds, ReceiveBuffer(t, q), Local(t) PROVE DepthIs(p)'
  <2>1. SameDesc
    BY <1>11, <1>0, <1>s, LiveSlots DEF ReceiveBuffer, PipeDesc
  <2>2. SameQueue /\ pc[t] # "export" /\ pc'[t] # "export" /\ todo'[t] = todo[t]
    BY <1>11, <1>0 DEF ReceiveBuffer, Goto, queueVars
  <2> QED BY <1>0, <1>6, <1>11, <2>1, <2>2
<1>12. ASSUME NEW t \in Tasks, Local(t), \/ AllocateMessageBuffer(t) \/ ReleaseMessageBuffer(t) \/ ExitApp(t)
                                         \/ QueuePutFails(t) \/ TransmitFinish(t) \/ QueueGetFails(t)
       PROVE  DepthIs(p)'
  <2>1. /\ SameDesc /\ SameQueue /\ pc[t] # "export" /\ pc'[t] # "export" /\ todo'[t] = todo[t]
    BY <1>12, <1>0 DEF AllocateMessageBuffer, ReleaseMessageBuffer, ExitApp, QueuePutFails, TransmitFinish,
          QueueGetFails, Return, Goto, pipeVars, queueVars
  <2> QED BY <1>0, <1>6, <1>12, <2>1
<1>13. ASSUME UNCHANGED <<pc, todo, pipe, queue>>, SameDesc PROVE DepthIs(p)'
  <2>1. SameWriters /\ SameExporters
    BY <1>13 DEF Writers, Exporters
  <2> QED BY <1>13, <2>1, <1>same
<1>14. ASSUME NEW x \in Procs, StepOf(x) PROVE DepthIs(p)'
  <2>1. Local(x)
    BY <1>14, <1>0, CallsStep
  <2> QED BY <2>1, <1>14, <1>1, <1>2, <1>3, <1>4, <1>5, <1>7, <1>8, <1>9, <1>10, <1>11, <1>12
         DEF StepOf, Transmit, Receive, Create
<1>15. CASE ConfigStep
  <2>1. SameDesc
    <3>1. ASSUME NEW t \in Tasks, NEW q \in PipeIds, NEW ignore, SetPipeOpts(t, q, ignore) PROVE SameDesc
      BY <3>1, <1>0, <1>s, LiveSlots DEF SetPipeOpts, PipeDesc
    <3>2. CASE UNCHANGED pipeTbl
      BY <3>2
    <3> QED BY <1>15, <3>1, <3>2
          DEF ConfigStep, Subscribe, Unsubscribe, Command, EnableRoute, DisableRoute, pipeVars
  <2> QED BY <2>1, <1>13, <1>15, ConfigLocal
<1>16. CASE (\E a \in Apps : ZeroCopyReleaseAppId(a)) \/ UNCHANGED vars
  BY <1>13, <1>16 DEF ZeroCopyReleaseAppId, vars, pipeVars, queueVars, procVars
<1> QED BY <1>14, <1>15, <1>16, StepKinds

\* The invariant the accounts rest on.
BookInv == TableInv /\ CallsTold /\ FreshPipes

\* Types, pipe table, locals and unpublished pipes are inductive together.
LEMMA BookStep == BookInv /\ [Next]_vars => BookInv'
<1> SUFFICES ASSUME BookInv, [Next]_vars PROVE BookInv'
  OBVIOUS
<1>1. TableInv' /\ CallsTold'
  BY TableStep, CallsToldStep DEF BookInv, TableInv
<1>2. FreshPipes'
  BY FreshStep DEF BookInv
<1> QED BY <1>1, <1>2 DEF BookInv

\* Initially no call is in progress and no pipe has been created.
LEMMA BookInit == Init => BookInv
<1> SUFFICES ASSUME Init PROVE BookInv
  OBVIOUS
<1>1. TableInv
  BY TableInit
<1>2. \A x \in Procs : pc[x] = "idle" /\ todo[x] = {} /\ buf[x] = NULL
  BY DEF Init
<1>3. CallsTold
  BY <1>2 DEF CallsTold, CallTold
<1>4. LivePipes = {}
  <2>1. \A s \in Slots : pipeTbl[s].id = FREE
    BY DEF Init, EmptyPipeDesc
  <2> QED BY <2>1, SlotType DEF LivePipes, PipeDescIsMatch, FREE, PipeIds, Slot
<1>5. FreshPipes
  BY <1>2, <1>4 DEF Init, FreshPipes, Creating, Reading, Procs
<1> QED BY <1>1, <1>3, <1>5 DEF BookInv

\* A new pipe starts empty and the depths of the others stay exact.
LEMMA DepthStep == BookInv /\ DepthExact /\ [Next]_vars => DepthExact'
<1> SUFFICES ASSUME BookInv, DepthExact, [Next]_vars PROVE DepthExact'
  OBVIOUS
<1>0. TableInv /\ CallsTold /\ FreshPipes /\ \A p \in LivePipes : DepthIs(p)
  BY DepthSets DEF BookInv
<1>1. ASSUME NEW p \in LivePipes', p \in LivePipes PROVE DepthIs(p)'
  BY <1>0, <1>1, DepthKept
<1>2. ASSUME NEW p \in LivePipes', p \notin LivePipes PROVE DepthIs(p)'
  <2>1. PICK t \in Tasks : PublishPipe(t)
    BY <1>0, <1>2, LiveGrows
  <2>2. p = pipe[t]
    BY <1>0, <1>2, <2>1, LiveSteps
  <2>3. /\ t \in Procs /\ pc[t] \in Creating /\ p \in PipeIds /\ Slot(p) \in Slots
        /\ pc \in [Procs -> PC] /\ pipe \in [Procs -> PipeIds] /\ pipeTbl \in [Slots -> PipeDesc]
    BY <1>0, <2>1, <2>2, LiveSlots DEF PublishPipe, Creating, Procs, TableInv, TypeOK, PipesTyped, ProcsTyped
  <2>4. /\ pipeTbl[Slot(p)].depth = 0 /\ queue[p] = <<>>
        /\ \A u \in Tasks : p \notin todo[u] /\ (pc[u] \in Reading => pipe[u] # p)
    BY <1>0, <2>2, <2>3 DEF FreshPipes, Unpublished
  <2>5. pipeTbl'[Slot(p)].depth = 0
    BY <2>1, <2>2, <2>3, <2>4 DEF PublishPipe, PipeDesc
  <2>6. queue' = queue /\ todo' = todo
    BY <2>1 DEF PublishPipe, queueVars
  <2>7. \A u \in Tasks : pc'[u] = "export" => pc[u] = "export" /\ pipe'[u] = pipe[u]
    BY <2>1, <2>3 DEF PublishPipe, Return, Goto, Procs
  <2>8. Writers(p)' = {} /\ Exporters(p)' = {}
    BY <2>4, <2>6, <2>7 DEF Writers, Exporters, Reading
  <2>9. Len(queue'[p]) = 0
    BY <2>4, <2>6
  <2> QED BY <2>5, <2>8, <2>9, FS_EmptySet DEF DepthIs, Slot
<1>3. \A p \in LivePipes' : DepthIs(p)'
  BY <1>1, <1>2
<1> QED BY <1>3 DEF DepthExact, DepthIs, Writers, Exporters

\* CurrentQueueDepth is always the number of messages on their way to, on, or
\* just off the pipe, although it is charged and discharged in critical
\* sections other than those of the queue operations.
THEOREM QueueDepthExact == Spec => []DepthExact
<1>1. Init => DepthExact
  <2> SUFFICES ASSUME Init PROVE DepthExact
    OBVIOUS
  <2>1. \A s \in Slots : pipeTbl[s].id = FREE
    BY DEF Init, EmptyPipeDesc
  <2>2. LivePipes = {}
    BY <2>1, SlotType DEF LivePipes, PipeDescIsMatch, FREE, PipeIds, Slot
  <2> QED BY <2>2, DepthSets
<1> QED BY <1>1, BookInit, BookStep, DepthStep, PTL DEF Spec

(***************************************************************************)
(* References to buffers.                                                  *)
(***************************************************************************)
\* A step leaves the reader and the LastBuffer of a descriptor alone.
SameRefs(s) == pipeTbl'[s].last = pipeTbl[s].last /\ pipeTbl'[s].reader = pipeTbl[s].reader

\* The reader of a pipe and its LastBuffer are the business of the reader:
\* the other steps leave them alone in the descriptor of every live pipe.
LEMMA DescSteps ==
  ASSUME TableInv
  PROVE  /\ \A t \in Tasks : CreatePipe(t) => \A p \in LivePipes : SameRefs(Slot(p))
         /\ \A t \in Tasks : PublishPipe(t) =>
              /\ \A p \in LivePipes : SameRefs(Slot(p))
              /\ pipeTbl'[Slot(pipe[t])].last = pipeTbl[Slot(pipe[t])].last
         /\ \A t \in Tasks, p \in PipeIds : ReceiveBuffer(t, p) =>
              /\ \A s \in Slots \ {Slot(p)} : SameRefs(s)
              /\ pipeTbl'[Slot(p)].last = NULL
              /\ pipeTbl'[Slot(p)].reader = pipeTbl[Slot(p)].reader
         /\ \A t \in Tasks : ExportReference(t) /\ PipeDescIsMatch(pipe[t]) =>
              /\ \A s \in Slots \ {Slot(pipe[t])} : SameRefs(s)
              /\ pipeTbl'[Slot(pipe[t])].last = buf[t]
              /\ pipeTbl'[Slot(pipe[t])].reader = pipeTbl[Slot(pipe[t])].reader
         /\ \A t \in Tasks : \/ (\E m \in MsgIds : FindDestinations(t, m)) \/ UndoPut(t)
                             \/ UnreservePipe(t)
                             \/ (\E p \in PipeIds, ignore \in BOOLEAN : SetPipeOpts(t, p, ignore))
              => \A s \in Slots : SameRefs(s)
         /\ \A x \in Procs : FreePipe(x) \/ (\E p \in PipeIds : \E app : UnlinkPipe(x, p, app))
              => \A s \in Slots : SameRefs(s)
<1>0. /\ pipe \in [Procs -> PipeIds] /\ pipeTbl \in [Slots -> PipeDesc]
      /\ \A p \in PipeIds : Slot(p) \in Slots
      /\ Tasks \subseteq Procs
  BY LiveSlots DEF TableInv, TypeOK, PipesTyped, ProcsTyped, Procs
<1>1. ASSUME NEW t \in Tasks, CreatePipe(t), NEW p \in LivePipes PROVE SameRefs(Slot(p))
  <2>1. PICK i \in PipeIds :
          /\ pipeTbl[Slot(i)].id = FREE
          /\ pipeTbl' = [pipeTbl EXCEPT ![Slot(i)] = [EmptyPipeDesc EXCEPT !.id = RESERVED]]
    BY <1>1 DEF CreatePipe, FreeIds
  <2>2. Slot(i) # Slot(p) /\ Slot(p) \in Slots
    BY <2>1, LiveSlots
  <2> QED BY <2>1, <2>2, <1>0 DEF SameRefs
<1>2. ASSUME NEW t \in Tasks, PublishPipe(t)
      PROVE  /\ \A p \in LivePipes : SameRefs(Slot(p))
             /\ pipeTbl'[Slot(pipe[t])].last = pipeTbl[Slot(pipe[t])].last
  <2>1. pipeTbl[Slot(pipe[t])].id = RESERVED /\ Slot(pipe[t]) \in Slots /\ t \in Procs
    BY <1>0, <1>2, LiveSlots DEF PublishPipe, Busy
  <2>2. pipeTbl'[Slot(pipe[t])].last = pipeTbl[Slot(pipe[t])].last
    BY <1>0, <1>2, <2>1 DEF PublishPipe, PipeDesc
  <2>3. ASSUME NEW p \in LivePipes PROVE SameRefs(Slot(p))
    <3>1. Slot(p) # Slot(pipe[t]) /\ Slot(p) \in Slots
      BY <2>1, LiveSlots
    <3> QED BY <3>1, <1>0, <1>2 DEF PublishPipe, SameRefs
  <2> QED BY <2>2, <2>3
<1>3. ASSUME NEW t \in Tasks, NEW p \in PipeIds, ReceiveBuffer(t, p)
      PROVE  /\ \A s \in Slots \ {Slot(p)} : SameRefs(s)
             /\ pipeTbl'[Slot(p)].last = NULL
             /\ pipeTbl'[Slot(p)].reader = pipeTbl[Slot(p)].reader
  BY <1>0, <1>3 DEF ReceiveBuffer, SameRefs, PipeDesc
<1>4. ASSUME NEW t \in Tasks, ExportReference(t), PipeDescIsMatch(pipe[t])
      PROVE  /\ \A s \in Slots \ {Slot(pipe[t])} : SameRefs(s)
             /\ pipeTbl'[Slot(pipe[t])].last = buf[t]
             /\ pipeTbl'[Slot(pipe[t])].reader = pipeTbl[Slot(pipe[t])].reader
  <2>1. Slot(pipe[t]) \in Slots
    BY <1>0
  <2>2. pipeTbl' = [UnchargePipe(pipe[t]) EXCEPT ![Slot(pipe[t])].last = buf[t]]
    BY <1>4 DEF ExportReference
  <2> QED BY <1>0, <2>1, <2>2 DEF UnchargePipe, SameRefs, PipeDesc
<1>5. ASSUME NEW t \in Tasks, NEW m \in MsgIds, FindDestinations(t, m) PROVE \A s \in Slots : SameRefs(s)
  BY <1>0, <1>5 DEF FindDestinations, SameRefs, PipeDesc
<1>6. ASSUME NEW t \in Tasks, UndoPut(t) PROVE \A s \in Slots : SameRefs(s)
  BY <1>0, <1>6 DEF UndoPut, UnchargePipe, SameRefs, PipeDesc
<1>7. ASSUME NEW x \in Procs, UnreservePipe(x) \/ FreePipe(x) PROVE \A s \in Slots : SameRefs(s)
  <2>1. pipeTbl' = [pipeTbl EXCEPT ![Slot(pipe[x])].id = FREE]
    BY <1>7 DEF UnreservePipe, FreePipe
  <2> QED BY <1>0, <2>1 DEF SameRefs, PipeDesc
<1>8. ASSUME NEW t \in Tasks, NEW p \in PipeIds, NEW ignore \in BOOLEAN, SetPipeOpts(t, p, ignore)
      PROVE  \A s \in Slots : SameRefs(s)
  BY <1>0, <1>8 DEF SetPipeOpts, SameRefs, PipeDesc
<1>9. ASSUME NEW x \in Procs, NEW p \in PipeIds, NEW app, UnlinkPipe(x, p, app)
      PROVE  \A s \in Slots : SameRefs(s)
  BY <1>0, <1>9 DEF UnlinkPipe, SameRefs, PipeDesc
<1> QED BY <1>0, <1>1, <1>2, <1>3, <1>4, <1>5, <1>6, <1>7, <1>8, <1>9

\* Most steps neither start a read nor touch what a read relies on.
LEMMA ReaderQuiet ==
  ASSUME TableInv, OneReader, \A p \in LivePipes : SameRefs(Slot(p)), LivePipes' \subseteq LivePipes,
         \A t \in Tasks : pc'[t] \in Reading => pc[t] \in Reading /\ pipe'[t] = pipe[t]
  PROVE  OneReader'
  BY DEF OneReader, SameRefs, Slot

\* Only the task that created a pipe reads it, one call at a time.
LEMMA ReaderStep == BookInv /\ OneReader /\ [Next]_vars => OneReader'
<1> SUFFICES ASSUME BookInv, OneReader, [Next]_vars PROVE OneReader'
  OBVIOUS
<1>0. /\ TableInv /\ TypeOK /\ CallsTold /\ FreshPipes
      /\ pc \in [Procs -> PC] /\ pipe \in [Procs -> PipeIds] /\ Tasks \subseteq Procs
  BY DEF BookInv, TableInv, TypeOK, ProcsTyped, Procs
<1>s. \A p \in LivePipes : p \in PipeIds /\ Slot(p) \in Slots
  BY <1>0, LiveSlots
<1>u. ASSUME UNCHANGED pipeTbl PROVE LivePipes' \subseteq LivePipes /\ \A p \in LivePipes : SameRefs(Slot(p))
  BY <1>u, <1>0, LiveSteps DEF SameRefs
<1>1. ASSUME NEW x \in Tasks, NEW p \in PipeIds, ReceiveBuffer(x, p), Local(x) PROVE OneReader'
  <2>1. p \in LivePipes /\ pipeTbl[Slot(p)].reader = x /\ pipe'[x] = p
    BY <1>0, <1>1 DEF ReceiveBuffer, LivePipes
  <2>2. LivePipes' = LivePipes
    <3>1. QuietStep
      BY <1>0, <1>1, QuietSteps DEF Receive
    <3> QED BY <3>1, <1>0, LiveSteps
  <2>3. ASSUME NEW t \in Tasks, pc'[t] \in Reading, pipe'[t] \in LivePipes'
        PROVE  pipeTbl'[Slot(pipe'[t])].reader = t /\ pipeTbl'[Slot(pipe'[t])].last = NULL
    <3>1. CASE t = x
      BY <3>1, <2>1, <1>0, <1>1, DescSteps
    <3>2. CASE t # x
      <4>1. pc[t] \in Reading /\ pipe'[t] = pipe[t] /\ pipe[t] \in LivePipes
        BY <3>2, <2>2, <2>3, <1>0, <1>1 DEF Local
      <4>2. pipeTbl[Slot(pipe[t])].reader = t /\ pipeTbl[Slot(pipe[t])].last = NULL
        BY <4>1 DEF OneReader
      <4>3. Slot(pipe[t]) # Slot(p) /\ Slot(pipe[t]) \in Slots
        BY <4>1, <4>2, <2>1, <3>2, <1>s
      <4> QED BY <4>1, <4>2, <4>3, <1>0, <1>1, DescSteps DEF SameRefs
    <3> QED BY <3>1, <3>2
  <2> QED BY <2>3 DEF OneReader, Slot
<1>2. ASSUME NEW x \in Tasks, ExportReference(x), Local(x) PROVE OneReader'
  <2>1. LivePipes' = LivePipes
    <3>1. QuietStep
      BY <1>0, <1>2, QuietSteps DEF Receive
    <3> QED BY <3>1, <1>0, LiveSteps
  <2>2. \A t \in Tasks : pc'[t] \in Reading => t # x /\ pc[t] \in Reading /\ pipe'[t] = pipe[t]
    BY <1>0, <1>2 DEF ExportReference, Return, Goto, Reading, Local
  <2>3. CASE PipeDescIsMatch(pipe[x])
    <3>1. pipe[x] \in LivePipes /\ pipeTbl[Slot(pipe[x])].reader = x
      BY <2>3, <1>0, <1>2 DEF LivePipes, OneReader, ExportReference, Reading
    <3>2. ASSUME NEW t \in Tasks, pc'[t] \in Reading, pipe'[t] \in LivePipes'
          PROVE  pipeTbl'[Slot(pipe'[t])].reader = t /\ pipeTbl'[Slot(pipe'[t])].last = NULL
      <4>1. t # x /\ pc[t] \in Reading /\ pipe'[t] = pipe[t] /\ pipe[t] \in LivePipes
        BY <3>2, <2>1, <2>2
      <4>2. pipeTbl[Slot(pipe[t])].reader = t /\ pipeTbl[Slot(pipe[t])].last = NULL
        BY <4>1 DEF OneReader
      <4>3. Slot(pipe[t]) # Slot(pipe[x]) /\ Slot(pipe[t]) \in Slots
        BY <4>1, <4>2, <3>1, <1>s
      <4> QED BY <2>3, <4>1, <4>2, <4>3, <1>0, <1>2, DescSteps DEF SameRefs
    <3> QED BY <3>2 DEF OneReader, Slot
  <2>4. CASE ~PipeDescIsMatch(pipe[x])
    <3>1. UNCHANGED pipeTbl
      BY <2>4, <1>2 DEF ExportReference
    <3> QED BY <3>1, <2>2, <1>0, <1>u, ReaderQuiet
  <2> QED BY <2>3, <2>4
<1>3. ASSUME NEW x \in Tasks, PublishPipe(x), Local(x) PROVE OneReader'
  <2>1. LivePipes' = LivePipes \cup {pipe[x]}
    BY <1>0, <1>3, LiveSteps
  <2>2. \A t \in Tasks : pc'[t] \in Reading => t # x /\ pc[t] \in Reading /\ pipe'[t] = pipe[t]
    BY <1>0, <1>3 DEF PublishPipe, Return, Goto, Reading, Local
  <2>3. Unpublished(pipe[x]) /\ pipe[x] \in PipeIds
    BY <1>0, <1>3 DEF PublishPipe, Unpublished, Creating
  <2>4. ASSUME NEW t \in Tasks, pc'[t] \in Reading, pipe'[t] \in LivePipes'
        PROVE  pipeTbl'[Slot(pipe'[t])].reader = t /\ pipeTbl'[Slot(pipe'[t])].last = NULL
    <3>1. pc[t] \in Reading /\ pipe'[t] = pipe[t] /\ pipe[t] # pipe[x]
      BY <2>2, <2>3, <2>4, <1>0 DEF FreshPipes
    <3>2. pipe[t] \in LivePipes
      BY <3>1, <2>1, <2>4
    <3> QED BY <3>1, <3>2, <1>0, <1>3, DescSteps DEF OneReader, SameRefs
  <2> QED BY <2>4 DEF OneReader, Slot
<1>4. ASSUME NEW x \in Procs, Local(x), pc'[x] \in Reading => pc[x] \in Reading /\ pipe'[x] = pipe[x]
      PROVE  \A t \in Tasks : pc'[t] \in Reading => pc[t] \in Reading /\ pipe'[t] = pipe[t]
  BY <1>0, <1>4 DEF Local
<1>5. ASSUME NEW x \in Procs, StepOf(x), Local(x), ~\E p \in PipeIds : x \in Tasks /\ ReceiveBuffer(x, p)
      PROVE  pc'[x] \in Reading => pc[x] \in Reading /\ pipe'[x] = pipe[x]
  BY <1>0, <1>5 DEF StepOf, AllocateMessageBuffer, ReleaseMessageBuffer, ExitApp, Transmit,
         FindDestinations, QueuePut, QueuePutFails, UndoPut, TransmitFinish, Receive,
         QueueGet, QueueGetFails, ExportReference, UnlinkPipe,
         Drain, DrainRelease, DrainGet, DrainEmpty, QueueDelete, FreePipe,
         Create, CreatePipe, QueueCreate, QueueCreateFails, PublishPipe, UnreservePipe,
         Return, Goto, Reading
<1>6. ASSUME NEW x \in Procs, StepOf(x) PROVE OneReader'
  <2>0. Local(x)
    BY <1>0, <1>6, CallsStep
  <2>1. CASE x \in Tasks /\ ((\E p \in PipeIds : ReceiveBuffer(x, p)) \/ ExportReference(x) \/ PublishPipe(x))
    BY <2>0, <2>1, <1>1, <1>2, <1>3
  <2>2. ASSUME ~(x \in Tasks /\ ((\E p \in PipeIds : ReceiveBuffer(x, p)) \/ ExportReference(x) \/ PublishPipe(x)))
        PROVE  OneReader'
    <3>1. \A t \in Tasks : pc'[t] \in Reading => pc[t] \in Reading /\ pipe'[t] = pipe[t]
      BY <2>0, <2>2, <1>4, <1>5, <1>6
    <3>2. \A p \in LivePipes : SameRefs(Slot(p))
      <4>1. CASE \A s \in Slots : SameRefs(s)
        BY <4>1, <1>s
      <4>2. CASE x \in Tasks /\ Transmit(x)
        BY <4>1, <4>2, <1>0, <1>u, DescSteps DEF Transmit, QueuePut, QueuePutFails, TransmitFinish, pipeVars
      <4>3. CASE x \in Tasks /\ Create(x)
        BY <2>2, <4>1, <4>3, <1>0, <1>u, DescSteps DEF Create, QueueCreate, QueueCreateFails, pipeVars
      <4>4. CASE Drain(x)
        BY <4>1, <4>4, <1>0, <1>u, DescSteps DEF Drain, DrainRelease, DrainGet, DrainEmpty, QueueDelete, pipeVars
      <4>5. CASE \E p \in PipeIds : \E app \in Apps : UnlinkPipe(x, p, app)
        BY <4>1, <4>5, <1>0, DescSteps
      <4> QED BY <2>2, <1>6, <4>2, <4>3, <4>4, <4>5, <1>u
             DEF StepOf, Receive, QueueGet, QueueGetFails, AllocateMessageBuffer,
                 ReleaseMessageBuffer, ExitApp, pipeVars
    <3>3. LivePipes' \subseteq LivePipes
      <4>1. ASSUME NEW t \in Tasks, PublishPipe(t) PROVE FALSE
        <5>1. t \in Procs /\ pc[t] = "publish" /\ pc'[t] = "idle"
          BY <4>1, <1>0 DEF PublishPipe, Return, Goto
        <5>2. t = x
          BY <5>1, <2>0 DEF Local
        <5> QED BY <4>1, <5>2, <2>2
      <4> QED BY <4>1, <1>0, LiveGrows
    <3> QED BY <1>0, <3>1, <3>2, <3>3, ReaderQuiet
  <2> QED BY <2>1, <2>2
<1>7. ASSUME ConfigStep PROVE OneReader'
  <2>1. UNCHANGED <<pc, pipe>>
    BY <1>7, ConfigLocal
  <2>2. \A p \in LivePipes : SameRefs(Slot(p))
    BY <1>7, <1>0, <1>s, <1>u, DescSteps
       DEF ConfigStep, Subscribe, Unsubscribe, Command, EnableRoute, DisableRoute, pipeVars
  <2>3. LivePipes' \subseteq LivePipes
    <3>1. ASSUME NEW t \in Tasks, PublishPipe(t) PROVE FALSE
      BY <3>1, <2>1, <1>0 DEF PublishPipe, Return, Goto
    <3> QED BY <3>1, <1>0, LiveGrows
  <2> QED BY <1>0, <2>1, <2>2, <2>3, ReaderQuiet
<1>8. CASE (\E a \in Apps : ZeroCopyReleaseAppId(a)) \/ UNCHANGED vars
  <2>1. UNCHANGED <<pipeTbl, pc, pipe>>
    BY <1>8 DEF ZeroCopyReleaseAppId, vars, pipeVars, procVars
  <2> QED BY <2>1, <1>0, <1>u, ReaderQuiet
<1> QED BY <1>6, <1>7, <1>8, StepKinds

\* What the count of uses adds up.
RefCount(b) == Cardinality(ProcRefs(b)) + Cardinality(TodoRefs(b))
               + Cardinality(QueueRefs(b)) + Cardinality(LastRefs(b))

\* The references to a buffer are finitely many.
LEMMA RefsFinite ==
  ASSUME TypeOK, NEW b
  PROVE  /\ IsFiniteSet(ProcRefs(b)) /\ Cardinality(ProcRefs(b)) \in Nat
         /\ IsFiniteSet(TodoRefs(b)) /\ Cardinality(TodoRefs(b)) \in Nat
         /\ IsFiniteSet(QueueRefs(b)) /\ Cardinality(QueueRefs(b)) \in Nat
         /\ IsFiniteSet(LastRefs(b)) /\ Cardinality(LastRefs(b)) \in Nat
<1>1. IsFiniteSet(Procs) /\ IsFiniteSet(PipeIds) /\ IsFiniteSet(LivePipes)
  BY CountedFinite
<1>2. IsFiniteSet(Procs \X PipeIds)
  BY <1>1, FS_Product
<1>3. IsFiniteSet(ProcRefs(b))
  BY <1>1, FS_Subset DEF ProcRefs
<1>4. IsFiniteSet(TodoRefs(b))
  BY <1>2, FS_Subset DEF TodoRefs
<1>5. IsFiniteSet(QueueRefs(b))
  BY <1>1, FS_Subset DEF QueueRefs
<1>6. IsFiniteSet(LastRefs(b))
  BY <1>1, FS_Subset DEF LastRefs
<1> QED BY <1>3, <1>4, <1>5, <1>6, FS_CardinalityType

\* How a step of process x moves the references in the hands of processes.
LEMMA ProcRefsStep ==
  ASSUME NEW x \in Procs, NEW b, Local(x)
  PROVE  /\ buf'[x] = b => ProcRefs(b)' = ProcRefs(b) \cup {x}
         /\ buf'[x] # b => ProcRefs(b)' = ProcRefs(b) \ {x}
         /\ (buf'[x] = b <=> buf[x] = b) => ProcRefs(b)' = ProcRefs(b)
  BY DEF Local, ProcRefs

\* ... and those that are still to be written.
LEMMA TodoRefsStep ==
  ASSUME TypeOK, TypeOK', NEW x \in Procs, NEW b, Local(x)
  PROVE  /\ todo[x] = {} /\ todo'[x] = {} => TodoRefs(b)' = TodoRefs(b)
         /\ buf'[x] = buf[x] /\ todo'[x] = todo[x] => TodoRefs(b)' = TodoRefs(b)
         /\ buf'[x] = buf[x] /\ buf[x] # b => TodoRefs(b)' = TodoRefs(b)
         /\ \A q \in PipeIds : buf'[x] = buf[x] /\ buf[x] = b /\ todo'[x] = todo[x] \ {q} =>
              TodoRefs(b)' = TodoRefs(b) \ {<<x, q>>}
         /\ \A S \in SUBSET PipeIds : buf'[x] = buf[x] /\ buf[x] = b /\ todo[x] = {} /\ todo'[x] = S =>
              TodoRefs(b)' = TodoRefs(b) \cup ({x} \X S) /\ TodoRefs(b) \cap ({x} \X S) = {}
<1>1. \A y \in Procs : y # x => buf'[y] = buf[y] /\ todo'[y] = todo[y]
  BY DEF Local
<1>2. ASSUME todo[x] = {}, todo'[x] = {} PROVE TodoRefs(b)' = TodoRefs(b)
  BY <1>1, <1>2 DEF TodoRefs
<1>3. ASSUME buf'[x] = buf[x], todo'[x] = todo[x] PROVE TodoRefs(b)' = TodoRefs(b)
  BY <1>1, <1>3 DEF TodoRefs
<1>4. ASSUME buf'[x] = buf[x], buf[x] # b PROVE TodoRefs(b)' = TodoRefs(b)
  BY <1>1, <1>4 DEF TodoRefs
<1>5. ASSUME NEW q \in PipeIds, buf'[x] = buf[x], buf[x] = b, todo'[x] = todo[x] \ {q}
      PROVE  TodoRefs(b)' = TodoRefs(b) \ {<<x, q>>}
  <2>1. \A r \in Procs \X PipeIds : r[1] \in Procs /\ r[2] \in PipeIds /\ r = <<r[1], r[2]>>
    OBVIOUS
  <2>2. \A r \in Procs \X PipeIds : r = <<x, q>> <=> r[1] = x /\ r[2] = q
    BY <2>1
  <2> QED BY <1>1, <1>5, <2>1, <2>2 DEF TodoRefs
<1>6. ASSUME NEW S \in SUBSET PipeIds, buf'[x] = buf[x], buf[x] = b, todo[x] = {}, todo'[x] = S
      PROVE  TodoRefs(b)' = TodoRefs(b) \cup ({x} \X S) /\ TodoRefs(b) \cap ({x} \X S) = {}
  BY <1>1, <1>6 DEF TodoRefs
<1> QED BY <1>2, <1>3, <1>4, <1>5, <1>6

\* The references that live pipes hold in LastBuffer.
LEMMA LastRefsKept ==
  ASSUME TableInv, NEW b, LivePipes' = LivePipes, \A p \in LivePipes : SameRefs(Slot(p))
  PROVE  LastRefs(b)' = LastRefs(b)
  BY DEF LastRefs, SameRefs, Slot

\* What a queue holds after a write and after a read.
LEMMA QueueAppend ==
  ASSUME NEW s \in Seq(Bufs), NEW b \in Bufs
  PROVE  LET u == Append(s, b)
         IN  /\ u \in Seq(Bufs) /\ Len(u) = Len(s) + 1
             /\ {u[i] : i \in 1..Len(u)} = {s[i] : i \in 1..Len(s)} \cup {b}
             /\ \A i \in 1..Len(u) : u[i] = IF i = Len(s) + 1 THEN b ELSE s[i]
<1> DEFINE u == Append(s, b)
<1>1. u \in Seq(Bufs) /\ Len(u) = Len(s) + 1 /\ Len(s) \in Nat
  OBVIOUS
<1>2. \A i \in 1..Len(u) : u[i] = IF i = Len(s) + 1 THEN b ELSE s[i]
  OBVIOUS
<1> HIDE DEF u
<1>3. {u[i] : i \in 1..Len(u)} = {s[i] : i \in 1..Len(s)} \cup {b}
  <2>1. \A i \in 1..Len(s) : i \in 1..Len(u) /\ i # Len(s) + 1
    BY <1>1
  <2>2. \A i \in 1..Len(u) : i = Len(s) + 1 \/ i \in 1..Len(s)
    BY <1>1
  <2>3. Len(s) + 1 \in 1..Len(u)
    BY <1>1
  <2> QED BY <1>2, <2>1, <2>2, <2>3
<1> QED BY <1>1, <1>2, <1>3 DEF u

\* A read takes the first buffer, and only it, off the queue.
LEMMA QueueTail ==
  ASSUME NEW s \in Seq(Bufs), s # <<>>,
         \A i, j \in 1..Len(s) : s[i] = s[j] => i = j
  PROVE  LET u == Tail(s)
         IN  /\ u \in Seq(Bufs) /\ Len(u) = Len(s) - 1
             /\ {u[i] : i \in 1..Len(u)} = {s[i] : i \in 1..Len(s)} \ {Head(s)}
             /\ Head(s) \in Bufs /\ Head(s) \in {s[i] : i \in 1..Len(s)}
             /\ \A i, j \in 1..Len(u) : u[i] = u[j] => i = j
<1> DEFINE u == Tail(s)
<1>1. u \in Seq(Bufs) /\ Len(u) = Len(s) - 1 /\ Len(s) \in Nat /\ Len(s) >= 1
  OBVIOUS
<1>2. \A i \in 1..Len(u) : u[i] = s[i + 1]
  OBVIOUS
<1>3. Head(s) = s[1] /\ Head(s) \in Bufs
  BY <1>1
<1> HIDE DEF u
<1>4. {u[i] : i \in 1..Len(u)} = {s[i] : i \in 1..Len(s)} \ {Head(s)}
  <2>1. \A i \in 1..Len(u) : i + 1 \in 1..Len(s) /\ i + 1 # 1
    BY <1>1
  <2>2. \A i \in 1..Len(s) : i # 1 => i - 1 \in 1..Len(u) /\ (i - 1) + 1 = i
    BY <1>1
  <2>3. 1 \in 1..Len(s)
    BY <1>1
  <2>4. ASSUME NEW i \in 1..Len(u) PROVE u[i] \in {s[k] : k \in 1..Len(s)} /\ u[i] # Head(s)
    BY <2>1, <2>3, <1>2, <1>3
  <2>5. ASSUME NEW i \in 1..Len(s), s[i] # Head(s) PROVE s[i] \in {u[k] : k \in 1..Len(u)}
    <3>1. i # 1 /\ i - 1 \in 1..Len(u)
      BY <2>2, <2>5, <1>3
    <3>2. u[i - 1] = s[i]
      BY <3>1, <2>2, <1>2
    <3> QED BY <3>1, <3>2
  <2> QED BY <2>4, <2>5
<1>5. \A i, j \in 1..Len(u) : u[i] = u[j] => i = j
  <2>1. \A i \in 1..Len(u) : i + 1 \in 1..Len(s)
    BY <1>1
  <2>2. SUFFICES ASSUME NEW i \in 1..Len(u), NEW j \in 1..Len(u), u[i] = u[j] PROVE i = j
    OBVIOUS
  <2>3. s[i + 1] = s[j + 1]
    BY <1>2, <2>2
  <2>4. i + 1 = j + 1
    BY <2>1, <2>3
  <2> QED BY <2>4
<1>6. Head(s) \in {s[i] : i \in 1..Len(s)}
  BY <1>1, <1>3
<1> QED BY <1>1, <1>3, <1>4, <1>5, <1>6 DEF u

\* One message is in flight by the hand of one transmitter, which has not
\* already written it to a pipe it still has to write it to.
OneSender ==
  /\ \A t \in Tasks : \A p \in todo[t] : buf[t] \notin InQueue(p)
  /\ \A t, u \in Tasks : pc[t] \in Sending /\ pc[u] \in Sending /\ buf[t] = buf[u] => t = u

\* A zero-copy buffer that has not been transmitted belongs to the application
\* of the task that allocated it, which holds the only reference; and an
\* allocated buffer with an owner is in the hands of one of its tasks.
Owned ==
  /\ \A t \in Tasks : pc[t] \in {"own", "exit"} /\ buf[t] # NULL =>
       Owner[buf[t]] = AppOf[t] /\ UseCount[buf[t]] = 1
  /\ \A b \in Bufs : Owner[b] # NULL /\ UseCount[b] > 0 =>
       \E t \in Tasks : AppOf[t] = Owner[b] /\ pc[t] \in {"own", "exit"} /\ buf[t] = b

\* A queue holds a buffer at most once.
QueuesDistinct ==
  \A p \in PipeIds : \A i, j \in 1..Len(queue[p]) : queue[p][i] = queue[p][j] => i = j

\* The use counts, in terms of the references that are counted.
LEMMA UseSets == UseCountExact <=> (\A b \in Bufs : UseCount[b] = RefCount(b)) /\ QueuesDistinct
  BY DEF UseCountExact, RefCount, QueuesDistinct

\* The invariant behind the reference counts.
UseInv == BookInv /\ OneReader /\ UseCountExact /\ OneSender /\ Owned

\* A buffer with one use has no other reference than the one we know of, and
\* one with none has no reference at all.
LEMMA Exclusive ==
  ASSUME TypeOK, NEW b \in Bufs, UseCount[b] = RefCount(b)
  PROVE  /\ \A x \in ProcRefs(b) : UseCount[b] = 1 =>
              ProcRefs(b) = {x} /\ TodoRefs(b) = {} /\ QueueRefs(b) = {} /\ LastRefs(b) = {}
         /\ UseCount[b] = 0 =>
              ProcRefs(b) = {} /\ TodoRefs(b) = {} /\ QueueRefs(b) = {} /\ LastRefs(b) = {}
<1>1. PICK k \in Nat, l \in Nat, m \in Nat, n \in Nat :
        /\ k = Cardinality(ProcRefs(b)) /\ l = Cardinality(TodoRefs(b))
        /\ m = Cardinality(QueueRefs(b)) /\ n = Cardinality(LastRefs(b))
  BY RefsFinite
<1>2. UseCount[b] = k + l + m + n
  BY <1>1 DEF RefCount
<1>3. /\ k = 0 <=> ProcRefs(b) = {}
      /\ l = 0 <=> TodoRefs(b) = {}
      /\ m = 0 <=> QueueRefs(b) = {}
      /\ n = 0 <=> LastRefs(b) = {}
  BY <1>1, RefsFinite, FS_EmptySet
<1>4. k = 1 <=> \E y : ProcRefs(b) = {y}
  BY <1>1, RefsFinite, FS_Singleton
<1>5. ASSUME NEW x \in ProcRefs(b), UseCount[b] = 1
      PROVE  ProcRefs(b) = {x} /\ TodoRefs(b) = {} /\ QueueRefs(b) = {} /\ LastRefs(b) = {}
  <2>1. k # 0
    BY <1>3, <1>5
  <2>2. k = 1 /\ l = 0 /\ m = 0 /\ n = 0
    BY <2>1, <1>2, <1>5
  <2> QED BY <2>2, <1>3, <1>4, <1>5
<1>6. ASSUME UseCount[b] = 0
      PROVE  ProcRefs(b) = {} /\ TodoRefs(b) = {} /\ QueueRefs(b) = {} /\ LastRefs(b) = {}
  <2>1. k = 0 /\ l = 0 /\ m = 0 /\ n = 0
    BY <1>2, <1>6
  <2> QED BY <2>1, <1>3
<1> QED BY <1>5, <1>6

\* The references of a kind that a step leaves alone.
KeepProc(b)  == ProcRefs(b)' = ProcRefs(b)
KeepTodo(b)  == TodoRefs(b)' = TodoRefs(b)
KeepQueue(b) == QueueRefs(b)' = QueueRefs(b)
KeepLast(b)  == LastRefs(b)' = LastRefs(b)

\* The moves a reference can make, and what the use count does: a reference
\* is dropped, it goes from one place to another, or new ones are made.
LEMMA RefMoves ==
  ASSUME TypeOK, NEW b \in Bufs, UseCount[b] = RefCount(b)
  PROVE  /\ KeepProc(b) /\ KeepTodo(b) /\ KeepQueue(b) /\ KeepLast(b) /\ UseCount'[b] = UseCount[b]
              => UseCount'[b] = RefCount(b)'
         /\ \A x \in ProcRefs(b) :
              /\ ProcRefs(b)' = ProcRefs(b) \ {x} /\ UseCount'[b] = Decr(UseCount[b])
              /\ KeepTodo(b) /\ KeepQueue(b) /\ KeepLast(b)
              => UseCount'[b] = RefCount(b)'
         /\ \A r \in TodoRefs(b) :
              /\ TodoRefs(b)' = TodoRefs(b) \ {r} /\ UseCount'[b] = Decr(UseCount[b])
              /\ KeepProc(b) /\ KeepQueue(b) /\ KeepLast(b)
              => UseCount'[b] = RefCount(b)'
         /\ \A p \in LastRefs(b) :
              /\ LastRefs(b)' = LastRefs(b) \ {p} /\ UseCount'[b] = Decr(UseCount[b])
              /\ KeepProc(b) /\ KeepTodo(b) /\ KeepQueue(b)
              => UseCount'[b] = RefCount(b)'
         /\ \A r \in TodoRefs(b) : \A p :
              /\ TodoRefs(b)' = TodoRefs(b) \ {r} /\ p \notin QueueRefs(b)
              /\ QueueRefs(b)' = QueueRefs(b) \cup {p} /\ UseCount'[b] = UseCount[b]
              /\ KeepProc(b) /\ KeepLast(b)
              => UseCount'[b] = RefCount(b)'
         /\ \A p \in QueueRefs(b) : \A x :
              /\ QueueRefs(b)' = QueueRefs(b) \ {p} /\ x \notin ProcRefs(b)
              /\ ProcRefs(b)' = ProcRefs(b) \cup {x} /\ UseCount'[b] = UseCount[b]
              /\ KeepTodo(b) /\ KeepLast(b)
              => UseCount'[b] = RefCount(b)'
         /\ \A x \in ProcRefs(b) : \A p :
              /\ ProcRefs(b)' = ProcRefs(b) \ {x} /\ p \notin LastRefs(b)
              /\ LastRefs(b)' = LastRefs(b) \cup {p} /\ UseCount'[b] = UseCount[b]
              /\ KeepTodo(b) /\ KeepQueue(b)
              => UseCount'[b] = RefCount(b)'
         /\ \A p \in LastRefs(b) : \A x :
              /\ LastRefs(b)' = LastRefs(b) \ {p} /\ x \notin ProcRefs(b)
              /\ ProcRefs(b)' = ProcRefs(b) \cup {x} /\ UseCount'[b] = UseCount[b]
              /\ KeepTodo(b) /\ KeepQueue(b)
              => UseCount'[b] = RefCount(b)'
         /\ \A x :
              /\ ProcRefs(b)' = ProcRefs(b) \cup {x} /\ x \notin ProcRefs(b)
              /\ UseCount'[b] = UseCount[b] + 1
              /\ KeepTodo(b) /\ KeepQueue(b) /\ KeepLast(b)
              => UseCount'[b] = RefCount(b)'
         /\ \A n \in Nat :
              /\ Cardinality(TodoRefs(b)') = Cardinality(TodoRefs(b)) + n
              /\ UseCount'[b] = UseCount[b] + n
              /\ KeepProc(b) /\ KeepQueue(b) /\ KeepLast(b)
              => UseCount'[b] = RefCount(b)'
<1>1. PICK k \in Nat, l \in Nat, m \in Nat, n \in Nat :
        /\ k = Cardinality(ProcRefs(b)) /\ l = Cardinality(TodoRefs(b))
        /\ m = Cardinality(QueueRefs(b)) /\ n = Cardinality(LastRefs(b))
  BY RefsFinite
<1>2. UseCount[b] = k + l + m + n
  BY <1>1 DEF RefCount
<1>3. /\ \A x \in ProcRefs(b) : Cardinality(ProcRefs(b) \ {x}) = k - 1 /\ k > 0
      /\ \A x : x \notin ProcRefs(b) => Cardinality(ProcRefs(b) \cup {x}) = k + 1
      /\ \A r \in TodoRefs(b) : Cardinality(TodoRefs(b) \ {r}) = l - 1 /\ l > 0
      /\ \A p \in QueueRefs(b) : Cardinality(QueueRefs(b) \ {p}) = m - 1 /\ m > 0
      /\ \A p : p \notin QueueRefs(b) => Cardinality(QueueRefs(b) \cup {p}) = m + 1
      /\ \A p \in LastRefs(b) : Cardinality(LastRefs(b) \ {p}) = n - 1 /\ n > 0
      /\ \A p : p \notin LastRefs(b) => Cardinality(LastRefs(b) \cup {p}) = n + 1
  <2>1. ASSUME NEW S, IsFiniteSet(S), Cardinality(S) \in Nat
        PROVE  /\ \A x \in S : Cardinality(S \ {x}) = Cardinality(S) - 1 /\ Cardinality(S) > 0
               /\ \A x : x \notin S => Cardinality(S \cup {x}) = Cardinality(S) + 1
    BY <2>1, FS_AddElement, FS_RemoveElement, FS_EmptySet
  <2> QED BY <1>1, <2>1, RefsFinite
<1>4. ASSUME NEW k1 \in Int, NEW l1 \in Int, NEW m1 \in Int, NEW n1 \in Int,
             k1 = Cardinality(ProcRefs(b)'), l1 = Cardinality(TodoRefs(b)'),
             m1 = Cardinality(QueueRefs(b)'), n1 = Cardinality(LastRefs(b)'),
             UseCount'[b] = k1 + l1 + m1 + n1
      PROVE  UseCount'[b] = RefCount(b)'
  BY <1>4 DEF RefCount
<1>5. \A i \in Nat : i > 0 => Decr(i) = i - 1
  BY DEF Decr
<1> USE DEF KeepProc, KeepTodo, KeepQueue, KeepLast
<1>a. ASSUME KeepProc(b), KeepTodo(b), KeepQueue(b), KeepLast(b), UseCount'[b] = UseCount[b]
      PROVE  UseCount'[b] = RefCount(b)'
  BY <1>a, <1>1, <1>2, <1>4
<1>b. ASSUME NEW x \in ProcRefs(b),
             ProcRefs(b)' = ProcRefs(b) \ {x}, UseCount'[b] = Decr(UseCount[b]),
             KeepTodo(b), KeepQueue(b), KeepLast(b)
      PROVE  UseCount'[b] = RefCount(b)'
  <2>1. /\ Cardinality(ProcRefs(b)') = k - 1 /\ Cardinality(TodoRefs(b)') = l
        /\ Cardinality(QueueRefs(b)') = m /\ Cardinality(LastRefs(b)') = n
    BY <1>b, <1>1, <1>3
  <2>2. UseCount[b] \in Nat /\ UseCount[b] > 0
    <3>1. k > 0
      BY <1>b, <1>3
    <3> QED BY <3>1, <1>2
  <2>3. UseCount'[b] = UseCount[b] - 1
    BY <1>b, <1>5, <2>2
  <2>4. UseCount'[b] = (k - 1) + l + m + n
    BY <2>3, <1>2
  <2> QED BY <2>1, <2>4, <1>4
<1>c. ASSUME NEW r \in TodoRefs(b),
             TodoRefs(b)' = TodoRefs(b) \ {r}, UseCount'[b] = Decr(UseCount[b]),
             KeepProc(b), KeepQueue(b), KeepLast(b)
      PROVE  UseCount'[b] = RefCount(b)'
  <2>1. /\ Cardinality(ProcRefs(b)') = k /\ Cardinality(TodoRefs(b)') = l - 1
        /\ Cardinality(QueueRefs(b)') = m /\ Cardinality(LastRefs(b)') = n
    BY <1>c, <1>1, <1>3
  <2>2. UseCount[b] \in Nat /\ UseCount[b] > 0
    <3>1. l > 0
      BY <1>c, <1>3
    <3> QED BY <3>1, <1>2
  <2>3. UseCount'[b] = UseCount[b] - 1
    BY <1>c, <1>5, <2>2
  <2>4. UseCount'[b] = k + (l - 1) + m + n
    BY <2>3, <1>2
  <2> QED BY <2>1, <2>4, <1>4
<1>d. ASSUME NEW p \in LastRefs(b),
             LastRefs(b)' = LastRefs(b) \ {p}, UseCount'[b] = Decr(UseCount[b]),
             KeepProc(b), KeepTodo(b), KeepQueue(b)
      PROVE  UseCount'[b] = RefCount(b)'
  <2>1. /\ Cardinality(ProcRefs(b)') = k /\ Cardinality(TodoRefs(b)') = l
        /\ Cardinality(QueueRefs(b)') = m /\ Cardinality(LastRefs(b)') = n - 1
    BY <1>d, <1>1, <1>3
  <2>2. UseCount[b] \in Nat /\ UseCount[b] > 0
    <3>1. n > 0
      BY <1>d, <1>3
    <3> QED BY <3>1, <1>2
  <2>3. UseCount'[b] = UseCount[b] - 1
    BY <1>d, <1>5, <2>2
  <2>4. UseCount'[b] = k + l + m + (n - 1)
    BY <2>3, <1>2
  <2> QED BY <2>1, <2>4, <1>4
<1>e. ASSUME NEW r \in TodoRefs(b), NEW p, TodoRefs(b)' = TodoRefs(b) \ {r}, p \notin QueueRefs(b),
             QueueRefs(b)' = QueueRefs(b) \cup {p}, UseCount'[b] = UseCount[b],
             KeepProc(b), KeepLast(b)
      PROVE  UseCount'[b] = RefCount(b)'
  <2>1. /\ Cardinality(ProcRefs(b)') = k /\ Cardinality(TodoRefs(b)') = l - 1
        /\ Cardinality(QueueRefs(b)') = m + 1 /\ Cardinality(LastRefs(b)') = n
    BY <1>e, <1>1, <1>3
  <2>2. UseCount'[b] = k + (l - 1) + (m + 1) + n
    BY <1>e, <1>2
  <2> QED BY <2>1, <2>2, <1>4
<1>f. ASSUME NEW p \in QueueRefs(b), NEW x, QueueRefs(b)' = QueueRefs(b) \ {p}, x \notin ProcRefs(b),
             ProcRefs(b)' = ProcRefs(b) \cup {x}, UseCount'[b] = UseCount[b],
             KeepTodo(b), KeepLast(b)
      PROVE  UseCount'[b] = RefCount(b)'
  <2>1. /\ Cardinality(ProcRefs(b)') = k + 1 /\ Cardinality(TodoRefs(b)') = l
        /\ Cardinality(QueueRefs(b)') = m - 1 /\ Cardinality(LastRefs(b)') = n
    BY <1>f, <1>1, <1>3
  <2>2. UseCount'[b] = (k + 1) + l + (m - 1) + n
    BY <1>f, <1>2
  <2> QED BY <2>1, <2>2, <1>4
<1>g. ASSUME NEW x \in ProcRefs(b), NEW p, ProcRefs(b)' = ProcRefs(b) \ {x}, p \notin LastRefs(b),
             LastRefs(b)' = LastRefs(b) \cup {p}, UseCount'[b] = UseCount[b],
             KeepTodo(b), KeepQueue(b)
      PROVE  UseCount'[b] = RefCount(b)'
  <2>1. /\ Cardinality(ProcRefs(b)') = k - 1 /\ Cardinality(TodoRefs(b)') = l
        /\ Cardinality(QueueRefs(b)') = m /\ Cardinality(LastRefs(b)') = n + 1
    BY <1>g, <1>1, <1>3
  <2>2. UseCount'[b] = (k - 1) + l + m + (n + 1)
    BY <1>g, <1>2
  <2> QED BY <2>1, <2>2, <1>4
<1>h. ASSUME NEW p \in LastRefs(b), NEW x, LastRefs(b)' = LastRefs(b) \ {p}, x \notin ProcRefs(b),
             ProcRefs(b)' = ProcRefs(b) \cup {x}, UseCount'[b] = UseCount[b],
             KeepTodo(b), KeepQueue(b)
      PROVE  UseCount'[b] = RefCount(b)'
  <2>1. /\ Cardinality(ProcRefs(b)') = k + 1 /\ Cardinality(TodoRefs(b)') = l
        /\ Cardinality(QueueRefs(b)') = m /\ Cardinality(LastRefs(b)') = n - 1
    BY <1>h, <1>1, <1>3
  <2>2. UseCount'[b] = (k + 1) + l + m + (n - 1)
    BY <1>h, <1>2
  <2> QED BY <2>1, <2>2, <1>4
<1>i. ASSUME NEW x, ProcRefs(b)' = ProcRefs(b) \cup {x}, x \notin ProcRefs(b),
             UseCount'[b] = UseCount[b] + 1, KeepTodo(b), KeepQueue(b), KeepLast(b)
      PROVE  UseCount'[b] = RefCount(b)'
  <2>1. /\ Cardinality(ProcRefs(b)') = k + 1 /\ Cardinality(TodoRefs(b)') = l
        /\ Cardinality(QueueRefs(b)') = m /\ Cardinality(LastRefs(b)') = n
    BY <1>i, <1>1, <1>3
  <2>2. UseCount'[b] = (k + 1) + l + m + n
    BY <1>i, <1>2
  <2> QED BY <2>1, <2>2, <1>4
<1>j. ASSUME NEW i \in Nat, Cardinality(TodoRefs(b)') = Cardinality(TodoRefs(b)) + i,
             UseCount'[b] = UseCount[b] + i, KeepProc(b), KeepQueue(b), KeepLast(b)
      PROVE  UseCount'[b] = RefCount(b)'
  <2>1. /\ Cardinality(ProcRefs(b)') = k /\ Cardinality(TodoRefs(b)') = l + i
        /\ Cardinality(QueueRefs(b)') = m /\ Cardinality(LastRefs(b)') = n
    BY <1>j, <1>1, <1>3
  <2>2. UseCount'[b] = k + (l + i) + m + n
    BY <1>j, <1>2
  <2> QED BY <2>1, <2>2, <1>4
<1> QED BY <1>a, <1>b, <1>c, <1>d, <1>e, <1>f, <1>g, <1>h, <1>i, <1>j

\* Every step keeps the count of uses of every buffer exact.
LEMMA UseStep ==
  ASSUME UseInv, [Next]_vars, NEW b \in Bufs PROVE UseCount'[b] = RefCount(b)'
<1>0. /\ TableInv /\ TypeOK /\ TypeOK' /\ CallsTold /\ FreshPipes /\ OneReader /\ OneSender /\ Owned
      /\ QueuesDistinct /\ UseCount[b] = RefCount(b)
  BY TypeStep, UseSets DEF UseInv, BookInv, TableInv
<1>ty. /\ pc \in [Procs -> PC] /\ pipe \in [Procs -> PipeIds] /\ Tasks \subseteq Procs
       /\ todo \in [Procs -> SUBSET PipeIds] /\ queue \in [PipeIds -> Seq(Bufs)]
       /\ buf \in [Procs -> Bufs \cup {NULL}] /\ UseCount \in [Bufs -> Nat]
       /\ NULL \notin Bufs
  BY <1>0, SBAssumption DEF TypeOK, ProcsTyped, QueuesTyped, BufsTyped, Procs
<1>told. \A x \in Procs : CallTold(x)
  BY <1>0 DEF CallsTold
<1>decr. \A c : UseCount' = DecrBufUseCnt(c) =>
           /\ c = b => UseCount'[b] = Decr(UseCount[b])
           /\ c # b => UseCount'[b] = UseCount[b]
  BY <1>ty DEF DecrBufUseCnt
<1>q. UNCHANGED queue => KeepQueue(b)
  BY DEF KeepQueue, QueueRefs, InQueue
<1>l. UNCHANGED pipeTbl => KeepLast(b)
  BY <1>0, LiveSteps, LastRefsKept DEF KeepLast, SameRefs
<1>m. LivePipes' = LivePipes /\ (\A p \in LivePipes : SameRefs(Slot(p))) => KeepLast(b)
  BY <1>0, LastRefsKept DEF KeepLast
<1>s. \A p \in LivePipes : p \in PipeIds /\ Slot(p) \in Slots
  BY <1>0, LiveSlots
<1>drop. ASSUME NEW x \in Procs, Local(x), UseCount' = DecrBufUseCnt(buf[x]), buf[x] # NULL, buf'[x] = NULL,
                todo[x] = {}, todo'[x] = {}, KeepQueue(b), KeepLast(b)
         PROVE  UseCount'[b] = RefCount(b)'
  <2>1. KeepTodo(b)
    BY <1>0, <1>drop, TodoRefsStep DEF KeepTodo
  <2>2. CASE buf[x] = b
    <3>1. x \in ProcRefs(b)
      BY <2>2, <1>drop DEF ProcRefs
    <3>2. ProcRefs(b)' = ProcRefs(b) \ {x}
      BY <1>drop, <1>ty, ProcRefsStep
    <3> QED BY <2>1, <2>2, <3>1, <3>2, <1>0, <1>drop, <1>decr, RefMoves
  <2>3. CASE buf[x] # b
    <3>1. KeepProc(b)
      BY <2>3, <1>drop, <1>ty, ProcRefsStep DEF KeepProc
    <3> QED BY <2>1, <2>3, <3>1, <1>0, <1>drop, <1>decr, RefMoves
  <2> QED BY <2>2, <2>3
<1>none. ASSUME NEW x \in Procs, Local(x), buf'[x] = buf[x], todo'[x] = todo[x],
                UNCHANGED <<UseCount, queue>>, KeepLast(b)
         PROVE  UseCount'[b] = RefCount(b)'
  <2>1. KeepProc(b) /\ KeepTodo(b)
    BY <1>0, <1>none, ProcRefsStep, TodoRefsStep DEF KeepProc, KeepTodo
  <2> QED BY <2>1, <1>0, <1>none, <1>q, RefMoves
<1>1. ASSUME NEW t \in Tasks, AllocateMessageBuffer(t), Local(t) PROVE UseCount'[b] = RefCount(b)'
  <2>1. PICK c \in Bufs : UseCount[c] = 0 /\ UseCount' = [UseCount EXCEPT ![c] = 1] /\ buf'[t] = c
    BY <1>1, <1>ty DEF AllocateMessageBuffer, Hold
  <2>2. t \in Procs /\ buf[t] = NULL /\ todo[t] = {} /\ todo'[t] = {}
    BY <1>1, <1>ty, <1>told DEF AllocateMessageBuffer, CallTold, Sending, Holding
  <2>3. KeepTodo(b) /\ KeepQueue(b) /\ KeepLast(b)
    BY <1>0, <1>1, <2>2, <1>q, <1>l, TodoRefsStep DEF KeepTodo, AllocateMessageBuffer, queueVars, pipeVars
  <2>4. CASE c = b
    <3>1. ProcRefs(b)' = ProcRefs(b) \cup {t} /\ t \notin ProcRefs(b)
      BY <1>1, <2>1, <2>2, <2>4, <1>ty, ProcRefsStep DEF ProcRefs
    <3>2. UseCount'[b] = UseCount[b] + 1
      BY <2>1, <2>4, <1>ty
    <3> QED BY <2>3, <3>1, <3>2, <1>0, RefMoves
  <2>5. CASE c # b
    <3>1. KeepProc(b) /\ UseCount'[b] = UseCount[b]
      BY <1>1, <2>1, <2>2, <2>5, <1>ty, ProcRefsStep DEF KeepProc
    <3> QED BY <2>3, <3>1, <1>0, RefMoves
  <2> QED BY <2>4, <2>5
<1>2. ASSUME NEW t \in Tasks, ReleaseMessageBuffer(t), Local(t) PROVE UseCount'[b] = RefCount(b)'
  <2>1. /\ t \in Procs /\ buf[t] # NULL /\ buf'[t] = NULL /\ todo[t] = {} /\ todo'[t] = {}
        /\ UseCount' = DecrBufUseCnt(buf[t]) /\ UNCHANGED <<queue, pipeTbl>>
    BY <1>0, <1>2, <1>ty, <1>told
       DEF ReleaseMessageBuffer, CallTold, Sending, Hold, TypeOK, ProcsTyped, queueVars, pipeVars
  <2> QED BY <2>1, <1>2, <1>drop, <1>q, <1>l
<1>3. ASSUME NEW t \in Tasks, NEW m \in MsgIds, FindDestinations(t, m), Local(t)
      PROVE  UseCount'[b] = RefCount(b)'
  <2>1. /\ t \in Procs /\ buf[t] \in Bufs /\ buf'[t] = buf[t] /\ todo[t] = {} /\ todo'[t] = WithinLimit(t, m)
        /\ UNCHANGED queue /\ WithinLimit(t, m) \in SUBSET PipeIds
    BY <1>0, <1>3, <1>ty, <1>told
       DEF FindDestinations, CallTold, Sending, TypeOK, ProcsTyped, RoutesTyped, queueVars, WithinLimit, Destinations
  <2>2. KeepQueue(b) /\ KeepLast(b) /\ KeepProc(b)
    <3>1. QuietStep
      BY <1>0, <1>3, QuietSteps DEF Transmit
    <3>2. KeepLast(b)
      BY <3>1, <1>0, <1>3, <1>m, <1>s, LiveSteps, DescSteps
    <3>3. KeepProc(b)
      BY <2>1, <1>3, ProcRefsStep DEF KeepProc
    <3> QED BY <3>2, <3>3, <2>1, <1>q
  <2>3. PICK n \in Nat : n = Cardinality(WithinLimit(t, m)) /\ IsFiniteSet(WithinLimit(t, m))
    BY <2>1, PipeSetFinite
  <2>4. UseCount' = [UseCount EXCEPT ![buf[t]] = @ + n]
    BY <2>3, <1>3 DEF FindDestinations
  <2>5. CASE buf[t] = b
    <3> DEFINE S == WithinLimit(t, m)
    <3>1. TodoRefs(b)' = TodoRefs(b) \cup ({t} \X S) /\ TodoRefs(b) \cap ({t} \X S) = {}
      BY <2>1, <2>5, <1>0, <1>3, TodoRefsStep
    <3>2. IsFiniteSet({t} \X S) /\ Cardinality({t} \X S) = n
      <4>1. IsFiniteSet({t}) /\ Cardinality({t}) = 1
        BY FS_Singleton
      <4>2. IsFiniteSet({t} \X S) /\ Cardinality({t} \X S) = Cardinality({t}) * Cardinality(S)
        BY <4>1, <2>3, FS_Product
      <4> QED BY <4>1, <4>2, <2>3
    <3>3. Cardinality(TodoRefs(b)') = Cardinality(TodoRefs(b)) + n
      <4>1. IsFiniteSet(TodoRefs(b)) /\ Cardinality(TodoRefs(b)) \in Nat
        BY <1>0, RefsFinite
      <4> HIDE DEF S
      <4>2. Cardinality(TodoRefs(b) \cup ({t} \X S)) =
              Cardinality(TodoRefs(b)) + Cardinality({t} \X S) - Cardinality(TodoRefs(b) \cap ({t} \X S))
        BY <3>2, <4>1, FS_Union
      <4>3. Cardinality(TodoRefs(b) \cap ({t} \X S)) = 0
        BY <3>1, FS_EmptySet
      <4>4. Cardinality(TodoRefs(b) \cup ({t} \X S)) = Cardinality(TodoRefs(b)) + n
        BY <3>2, <4>1, <4>2, <4>3
      <4> QED BY <3>1, <4>4
    <3>4. UseCount'[b] = UseCount[b] + n
      BY <2>4, <2>5, <1>ty
    <3> QED BY <2>2, <3>3, <3>4, <1>0, RefMoves
  <2>6. CASE buf[t] # b
    <3>1. KeepTodo(b) /\ UseCount'[b] = UseCount[b]
      BY <2>1, <2>4, <2>6, <1>0, <1>3, <1>ty, TodoRefsStep DEF KeepTodo
    <3> QED BY <2>2, <3>1, <1>0, RefMoves
  <2> QED BY <2>5, <2>6
<1>4. ASSUME NEW t \in Tasks, QueuePut(t), Local(t) PROVE UseCount'[b] = RefCount(b)'
  <2>1. PICK q \in PipeIds :
          /\ q \in todo[t]
          /\ queue' = [queue EXCEPT ![q] = Append(@, buf[t])]
          /\ todo' = [todo EXCEPT ![t] = @ \ {q}]
    BY <1>4, <1>ty DEF QueuePut
  <2>2. /\ t \in Procs /\ buf[t] \in Bufs /\ buf'[t] = buf[t] /\ todo'[t] = todo[t] \ {q}
        /\ UNCHANGED <<pipeTbl, UseCount>>
    BY <1>0, <1>4, <1>ty, <2>1 DEF QueuePut, TypeOK, ProcsTyped, pipeVars, bufVars
  <2>3. KeepProc(b) /\ KeepLast(b) /\ UseCount'[b] = UseCount[b]
    BY <2>2, <1>4, <1>l, ProcRefsStep DEF KeepProc
  <2>4. /\ InQueue(q)' = InQueue(q) \cup {buf[t]}
        /\ \A p \in PipeIds \ {q} : InQueue(p)' = InQueue(p)
        /\ buf[t] \notin InQueue(q)
    <3>1. queue'[q] = Append(queue[q], buf[t]) /\ \A p \in PipeIds \ {q} : queue'[p] = queue[p]
      BY <2>1, <1>ty
    <3>2. InQueue(q)' = InQueue(q) \cup {buf[t]}
      BY <3>1, <2>2, <1>ty, QueueAppend DEF InQueue
    <3>3. buf[t] \notin InQueue(q)
      BY <2>1, <1>0 DEF OneSender
    <3> QED BY <3>1, <3>2, <3>3 DEF InQueue
  <2>5. CASE buf[t] = b
    <3>1. TodoRefs(b)' = TodoRefs(b) \ {<<t, q>>} /\ <<t, q>> \in TodoRefs(b)
      <4>1. TodoRefs(b)' = TodoRefs(b) \ {<<t, q>>}
        BY <2>2, <2>5, <1>0, <1>4, TodoRefsStep
      <4>2. <<t, q>> \in TodoRefs(b)
        BY <2>1, <2>2, <2>5 DEF TodoRefs
      <4> QED BY <4>1, <4>2
    <3>2. QueueRefs(b)' = QueueRefs(b) \cup {q} /\ q \notin QueueRefs(b)
      BY <2>4, <2>5 DEF QueueRefs
    <3> QED BY <2>3, <3>1, <3>2, <1>0, RefMoves
  <2>6. CASE buf[t] # b
    <3>1. KeepTodo(b)
      BY <2>2, <2>6, <1>0, <1>4, TodoRefsStep DEF KeepTodo
    <3>2. KeepQueue(b)
      BY <2>4, <2>6 DEF QueueRefs, KeepQueue
    <3> QED BY <2>3, <3>1, <3>2, <1>0, RefMoves
  <2> QED BY <2>5, <2>6
<1>5. ASSUME NEW t \in Tasks, UndoPut(t), Local(t) PROVE UseCount'[b] = RefCount(b)'
  <2>1. /\ t \in Procs /\ buf[t] \in Bufs /\ buf'[t] = buf[t] /\ todo'[t] = todo[t] \ {pipe[t]}
        /\ pipe[t] \in todo[t] /\ pipe[t] \in PipeIds
        /\ UNCHANGED queue /\ UseCount' = DecrBufUseCnt(buf[t])
    BY <1>0, <1>5, <1>ty, <1>told DEF UndoPut, CallTold, TypeOK, ProcsTyped, queueVars
  <2>2. KeepQueue(b) /\ KeepLast(b) /\ KeepProc(b)
    <3>1. QuietStep
      BY <1>0, <1>5, QuietSteps DEF Transmit
    <3>2. KeepLast(b)
      BY <3>1, <1>0, <1>5, <1>m, <1>s, LiveSteps, DescSteps
    <3>3. KeepProc(b)
      BY <2>1, <1>5, ProcRefsStep DEF KeepProc
    <3> QED BY <3>2, <3>3, <2>1, <1>q
  <2>3. CASE buf[t] = b
    <3>1. TodoRefs(b)' = TodoRefs(b) \ {<<t, pipe[t]>>}
      BY <2>1, <2>3, <1>0, <1>5, TodoRefsStep
    <3>2. <<t, pipe[t]>> \in TodoRefs(b)
      BY <2>1, <2>3 DEF TodoRefs
    <3> QED BY <2>1, <2>2, <2>3, <3>1, <3>2, <1>0, <1>decr, RefMoves
  <2>4. CASE buf[t] # b
    <3>1. KeepTodo(b)
      BY <2>1, <2>4, <1>0, <1>5, TodoRefsStep DEF KeepTodo
    <3> QED BY <2>1, <2>2, <2>4, <3>1, <1>0, <1>decr, RefMoves
  <2> QED BY <2>3, <2>4
<1>6. ASSUME NEW t \in Tasks, TransmitFinish(t), Local(t) PROVE UseCount'[b] = RefCount(b)'
  <2>1. /\ t \in Procs /\ buf[t] # NULL /\ buf'[t] = NULL /\ todo[t] = {} /\ todo'[t] = {}
        /\ UseCount' = DecrBufUseCnt(buf[t]) /\ UNCHANGED <<queue, pipeTbl>>
    BY <1>0, <1>6, <1>ty DEF TransmitFinish, Hold, TypeOK, ProcsTyped, queueVars, pipeVars
  <2> QED BY <2>1, <1>6, <1>drop, <1>q, <1>l
<1>7. ASSUME NEW t \in Tasks, NEW p \in PipeIds, ReceiveBuffer(t, p), Local(t)
      PROVE  UseCount'[b] = RefCount(b)'
  <2>1. /\ t \in Procs /\ buf'[t] = buf[t] /\ todo'[t] = todo[t] /\ UNCHANGED queue
        /\ p \in LivePipes /\ UseCount' = ReleaseLast(p)
    BY <1>7, <1>ty DEF ReceiveBuffer, queueVars, LivePipes
  <2>2. KeepProc(b) /\ KeepTodo(b) /\ KeepQueue(b)
    BY <2>1, <1>0, <1>7, <1>q, ProcRefsStep, TodoRefsStep DEF KeepProc, KeepTodo
  <2>3. LivePipes' = LivePipes
    <3>1. QuietStep
      BY <1>0, <1>7, QuietSteps DEF Receive
    <3> QED BY <3>1, <1>0, LiveSteps
  <2>4. \A q \in LivePipes : pipeTbl'[Slot(q)].last = IF q = p THEN NULL ELSE pipeTbl[Slot(q)].last
    BY <2>1, <1>0, <1>7, <1>s, LiveApart, DescSteps DEF SameRefs
  <2>5. LastRefs(b)' = LastRefs(b) \ {p}
    BY <2>3, <2>4, <1>ty DEF LastRefs, Slot
  <2>6. CASE pipeTbl[Slot(p)].last = b
    <3>1. p \in LastRefs(b) /\ UseCount' = DecrBufUseCnt(b)
      BY <2>1, <2>6, <1>ty DEF LastRefs, ReleaseLast
    <3> QED BY <2>2, <2>5, <3>1, <1>0, <1>decr, RefMoves
  <2>7. CASE pipeTbl[Slot(p)].last # b
    <3>1. KeepLast(b) /\ UseCount'[b] = UseCount[b]
      BY <2>1, <2>5, <2>7, <1>decr DEF LastRefs, KeepLast, ReleaseLast
    <3> QED BY <2>2, <3>1, <1>0, RefMoves
  <2> QED BY <2>6, <2>7
<1>read. ASSUME NEW x \in Procs, Local(x), NEW q \in PipeIds, queue[q] # <<>>,
                queue' = [queue EXCEPT ![q] = Tail(@)], buf[x] = NULL, buf'[x] = Head(queue[q]),
                todo[x] = {}, todo'[x] = {}, UNCHANGED <<UseCount, pipeTbl>>
         PROVE  UseCount'[b] = RefCount(b)'
  <2>1. KeepTodo(b) /\ KeepLast(b) /\ UseCount'[b] = UseCount[b]
    BY <1>0, <1>read, <1>l, TodoRefsStep DEF KeepTodo
  <2>2. \A i, j \in 1..Len(queue[q]) : queue[q][i] = queue[q][j] => i = j
    BY <1>0 DEF QueuesDistinct
  <2>3. queue'[q] = Tail(queue[q]) /\ queue[q] \in Seq(Bufs) /\ \A p \in PipeIds \ {q} : queue'[p] = queue[p]
    BY <1>read, <1>ty
  <2>4. /\ InQueue(q)' = InQueue(q) \ {buf'[x]} /\ buf'[x] \in InQueue(q) /\ buf'[x] \in Bufs
        /\ \A p \in PipeIds \ {q} : InQueue(p)' = InQueue(p)
    <3>1. InQueue(q)' = InQueue(q) \ {buf'[x]} /\ buf'[x] \in InQueue(q) /\ buf'[x] \in Bufs
      <4>1. PICK s \in Seq(Bufs) : s = queue[q]
        BY <2>3
      <4>2. s # <<>> /\ (\A i, j \in 1..Len(s) : s[i] = s[j] => i = j) /\ buf'[x] = Head(s) /\ queue'[q] = Tail(s)
        BY <4>1, <1>read, <2>2, <2>3
      <4>3. InQueue(q) = {s[i] : i \in 1..Len(s)} /\ InQueue(q)' = {Tail(s)[i] : i \in 1..Len(Tail(s))}
        BY <4>1, <4>2 DEF InQueue
      <4> QED BY <4>2, <4>3, QueueTail
    <3> QED BY <2>3, <3>1 DEF InQueue
  <2>5. CASE buf'[x] = b
    <3>1. ProcRefs(b)' = ProcRefs(b) \cup {x}
      BY <2>5, <1>read, ProcRefsStep
    <3>2. x \notin ProcRefs(b)
      BY <1>read, <1>ty DEF ProcRefs
    <3>3. QueueRefs(b)' = QueueRefs(b) \ {q} /\ q \in QueueRefs(b)
      BY <2>4, <2>5 DEF QueueRefs
    <3> QED BY <2>1, <3>1, <3>2, <3>3, <1>0, RefMoves
  <2>6. CASE buf'[x] # b
    <3>1. KeepProc(b)
      BY <2>6, <1>read, <1>ty, ProcRefsStep DEF KeepProc
    <3>2. KeepQueue(b)
      BY <2>4, <2>6 DEF QueueRefs, KeepQueue
    <3> QED BY <2>1, <3>1, <3>2, <1>0, RefMoves
  <2> QED BY <2>5, <2>6
<1>8. ASSUME NEW t \in Tasks, QueueGet(t), Local(t) PROVE UseCount'[b] = RefCount(b)'
  <2>1. /\ t \in Procs /\ pipe[t] \in PipeIds /\ queue[pipe[t]] # <<>>
        /\ queue' = [queue EXCEPT ![pipe[t]] = Tail(@)] /\ buf[t] = NULL /\ buf'[t] = Head(queue[pipe[t]])
        /\ todo[t] = {} /\ todo'[t] = {} /\ UNCHANGED <<UseCount, pipeTbl>>
    BY <1>8, <1>ty, <1>told DEF QueueGet, Hold, CallTold, Sending, Holding, bufVars, pipeVars
  <2> QED BY <2>1, <1>8, <1>read
<1>9. ASSUME NEW x \in Procs, DrainGet(x), Local(x) PROVE UseCount'[b] = RefCount(b)'
  <2>1. /\ pipe[x] \in PipeIds /\ queue[pipe[x]] # <<>>
        /\ queue' = [queue EXCEPT ![pipe[x]] = Tail(@)] /\ buf[x] = NULL /\ buf'[x] = Head(queue[pipe[x]])
        /\ todo[x] = {} /\ todo'[x] = {} /\ UNCHANGED <<UseCount, pipeTbl>>
    BY <1>9, <1>ty, <1>told DEF DrainGet, Hold, CallTold, Sending, Holding, bufVars, pipeVars
  <2> QED BY <2>1, <1>9, <1>read
<1>10. ASSUME NEW t \in Tasks, ExportReference(t), Local(t) PROVE UseCount'[b] = RefCount(b)'
  <2>1. /\ t \in Procs /\ buf[t] \in Bufs /\ buf'[t] = NULL /\ todo[t] = {} /\ todo'[t] = {}
        /\ UNCHANGED queue /\ pipe[t] \in PipeIds /\ pc[t] = "export"
    BY <1>0, <1>10, <1>ty, <1>told
       DEF ExportReference, CallTold, Sending, Hold, TypeOK, ProcsTyped, queueVars
  <2>2. CASE PipeDescIsMatch(pipe[t])
    <3>1. KeepTodo(b) /\ KeepQueue(b) /\ UseCount'[b] = UseCount[b]
      BY <2>1, <2>2, <1>0, <1>10, <1>q, TodoRefsStep DEF KeepTodo, ExportReference
    <3>2. pipe[t] \in LivePipes /\ pipeTbl[Slot(pipe[t])].last = NULL
      BY <2>1, <2>2, <1>0 DEF LivePipes, OneReader, Reading
    <3>3. LivePipes' = LivePipes
      <4>1. QuietStep
        BY <1>0, <1>10, QuietSteps DEF Receive
      <4> QED BY <4>1, <1>0, LiveSteps
    <3>4. \A q \in LivePipes : pipeTbl'[Slot(q)].last = IF q = pipe[t] THEN buf[t] ELSE pipeTbl[Slot(q)].last
      BY <2>2, <3>2, <1>0, <1>10, <1>s, LiveApart, DescSteps DEF SameRefs
    <3>5. CASE buf[t] = b
      <4>1. LastRefs(b)' = LastRefs(b) \cup {pipe[t]} /\ pipe[t] \notin LastRefs(b)
        BY <3>2, <3>3, <3>4, <3>5, <1>ty DEF LastRefs, Slot
      <4>2. ProcRefs(b)' = ProcRefs(b) \ {t}
        BY <2>1, <1>10, <1>ty, ProcRefsStep
      <4>3. t \in ProcRefs(b)
        BY <2>1, <3>5 DEF ProcRefs
      <4> QED BY <3>1, <4>1, <4>2, <4>3, <1>0, RefMoves
    <3>6. CASE buf[t] # b
      <4>1. KeepLast(b)
        BY <3>2, <3>3, <3>4, <3>6, <1>ty DEF LastRefs, KeepLast, Slot
      <4>2. KeepProc(b)
        BY <2>1, <3>6, <1>10, <1>ty, ProcRefsStep DEF KeepProc
      <4> QED BY <3>1, <4>1, <4>2, <1>0, RefMoves
    <3> QED BY <3>5, <3>6
  <2>3. CASE ~PipeDescIsMatch(pipe[t])
    <3>1. UseCount' = DecrBufUseCnt(buf[t]) /\ UNCHANGED pipeTbl
      BY <2>3, <1>10 DEF ExportReference
    <3> QED BY <2>1, <3>1, <1>10, <1>ty, <1>drop, <1>q, <1>l
  <2> QED BY <2>2, <2>3
<1>11. ASSUME NEW x \in Procs, NEW p \in PipeIds, NEW app, UnlinkPipe(x, p, app), pc[x] = "idle", Local(x)
       PROVE  UseCount'[b] = RefCount(b)'
  <2>1. /\ buf[x] = NULL /\ buf'[x] = pipeTbl[Slot(p)].last /\ todo[x] = {} /\ todo'[x] = {}
        /\ UNCHANGED <<queue, UseCount>>
    BY <1>11, <1>ty, <1>told DEF UnlinkPipe, CallTold, Sending, Holding, Hold, queueVars, bufVars
  <2>2. KeepTodo(b) /\ KeepQueue(b) /\ UseCount'[b] = UseCount[b]
    BY <2>1, <1>0, <1>11, <1>q, TodoRefsStep DEF KeepTodo
  <2>3. LivePipes' = LivePipes \ {p} /\ p \in LivePipes
    BY <1>0, <1>11, LiveSteps
  <2>4. \A q \in LivePipes : pipeTbl'[Slot(q)].last = pipeTbl[Slot(q)].last
    BY <1>0, <1>11, <1>s, DescSteps DEF SameRefs
  <2>5. LastRefs(b)' = LastRefs(b) \ {p}
    BY <2>3, <2>4 DEF LastRefs, Slot
  <2>6. CASE pipeTbl[Slot(p)].last = b
    <3>1. p \in LastRefs(b)
      BY <2>3, <2>6 DEF LastRefs
    <3>2. ProcRefs(b)' = ProcRefs(b) \cup {x}
      BY <2>1, <2>6, <1>11, ProcRefsStep
    <3>3. x \notin ProcRefs(b)
      BY <2>1, <1>ty DEF ProcRefs
    <3> QED BY <2>2, <2>5, <3>1, <3>2, <3>3, <1>0, RefMoves
  <2>7. CASE pipeTbl[Slot(p)].last # b
    <3>1. KeepLast(b)
      BY <2>5, <2>7 DEF LastRefs, KeepLast
    <3>2. KeepProc(b)
      BY <2>1, <2>7, <1>11, <1>ty, ProcRefsStep DEF KeepProc
    <3> QED BY <2>2, <3>1, <3>2, <1>0, RefMoves
  <2> QED BY <2>6, <2>7
<1>12. ASSUME NEW x \in Procs, DrainRelease(x), Local(x) PROVE UseCount'[b] = RefCount(b)'
  <2>1. /\ buf[x] # NULL /\ buf'[x] = NULL /\ todo[x] = {} /\ todo'[x] = {}
        /\ UseCount' = DecrBufUseCnt(buf[x]) /\ UNCHANGED <<queue, pipeTbl>>
    BY <1>12, <1>ty, <1>told DEF DrainRelease, CallTold, Sending, Hold, queueVars, pipeVars
  <2> QED BY <2>1, <1>12, <1>drop, <1>q, <1>l
<1>13. ASSUME NEW t \in Tasks, PublishPipe(t), Local(t) PROVE UseCount'[b] = RefCount(b)'
  <2>1. /\ t \in Procs /\ buf'[t] = buf[t] /\ todo'[t] = todo[t] /\ UNCHANGED <<UseCount, queue>>
        /\ pc[t] \in Creating
    BY <1>13, <1>ty DEF PublishPipe, bufVars, queueVars, Creating
  <2>2. LivePipes' = LivePipes \cup {pipe[t]} /\ pipe[t] \notin LivePipes
    BY <1>0, <1>13, LiveSteps
  <2>3. pipeTbl'[Slot(pipe[t])].last = NULL
    BY <2>1, <1>0, <1>13, DescSteps DEF FreshPipes
  <2>4. \A q \in LivePipes : pipeTbl'[Slot(q)].last = pipeTbl[Slot(q)].last
    BY <1>0, <1>13, DescSteps DEF SameRefs
  <2>5. KeepLast(b)
    BY <2>2, <2>3, <2>4, <1>ty DEF LastRefs, KeepLast, Slot
  <2> QED BY <2>1, <2>5, <1>13, <1>none
<1>14. ASSUME NEW x \in Procs, Local(x),
              \/ x \in Tasks /\ (CreatePipe(x) \/ UnreservePipe(x))
              \/ FreePipe(x)
       PROVE  UseCount'[b] = RefCount(b)'
  <2>1. buf'[x] = buf[x] /\ todo'[x] = todo[x] /\ UNCHANGED <<UseCount, queue>>
    BY <1>14 DEF CreatePipe, UnreservePipe, FreePipe, bufVars, queueVars
  <2>2. LivePipes' = LivePipes /\ \A p \in LivePipes : SameRefs(Slot(p))
    BY <1>0, <1>14, <1>s, <1>ty, LiveSteps, DescSteps
  <2> QED BY <2>1, <2>2, <1>14, <1>none, <1>m
<1>15. ASSUME NEW x \in Procs, Local(x),
              \/ QueuePutFails(x) \/ QueueGetFails(x) \/ QueueCreate(x) \/ QueueCreateFails(x)
              \/ DrainEmpty(x) \/ QueueDelete(x) \/ ExitApp(x)
       PROVE  UseCount'[b] = RefCount(b)'
  <2>1. buf'[x] = buf[x] /\ todo'[x] = todo[x] /\ UNCHANGED <<UseCount, queue, pipeTbl>>
    BY <1>15 DEF QueuePutFails, QueueGetFails, QueueCreate, QueueCreateFails, DrainEmpty, QueueDelete,
          ExitApp, bufVars, queueVars, pipeVars
  <2> QED BY <2>1, <1>15, <1>none, <1>l
<1>16. ASSUME NEW x \in Procs, StepOf(x) PROVE UseCount'[b] = RefCount(b)'
  <2>1. Local(x)
    BY <1>0, <1>16, CallsStep
  <2>2. CASE x \in Tasks /\ (AllocateMessageBuffer(x) \/ ReleaseMessageBuffer(x) \/ ExitApp(x))
    BY <2>1, <2>2, <1>1, <1>2, <1>15
  <2>3. CASE x \in Tasks /\ Transmit(x)
    BY <2>1, <2>3, <1>3, <1>4, <1>5, <1>6, <1>15 DEF Transmit
  <2>4. CASE x \in Tasks /\ Receive(x)
    BY <2>1, <2>4, <1>7, <1>8, <1>10, <1>15 DEF Receive
  <2>5. CASE x \in Tasks /\ Create(x)
    BY <2>1, <2>5, <1>13, <1>14, <1>15 DEF Create
  <2>6. CASE Drain(x)
    BY <2>1, <2>6, <1>9, <1>12, <1>14, <1>15 DEF Drain
  <2> QED BY <1>16, <2>1, <2>2, <2>3, <2>4, <2>5, <2>6, <1>11 DEF StepOf
<1>17. ASSUME ConfigStep \/ UNCHANGED vars PROVE UseCount'[b] = RefCount(b)'
  <2>1. UNCHANGED <<pc, buf, todo, pipe, UseCount, queue>>
    BY <1>17, ConfigLocal DEF vars, procVars, bufVars, queueVars
  <2>2. KeepProc(b) /\ KeepTodo(b) /\ KeepQueue(b)
    BY <2>1, <1>q DEF KeepProc, KeepTodo, ProcRefs, TodoRefs
  <2>3. KeepLast(b)
    <3>1. CASE UNCHANGED pipeTbl
      BY <3>1, <1>l
    <3>2. ASSUME NEW t \in Tasks, NEW p \in PipeIds, NEW ignore \in BOOLEAN, SetPipeOpts(t, p, ignore)
          PROVE  KeepLast(b)
      <4>1. QuietStep
        BY <1>0, <3>2, QuietSteps
      <4> QED BY <4>1, <3>2, <1>0, <1>m, <1>s, LiveSteps, DescSteps
    <3> QED BY <1>17, <3>1, <3>2
          DEF ConfigStep, Subscribe, Unsubscribe, Command, EnableRoute, DisableRoute, vars, pipeVars
  <2> QED BY <2>1, <2>2, <2>3, <1>0, RefMoves
<1>18. ASSUME NEW a \in Apps, ZeroCopyReleaseAppId(a) PROVE UseCount'[b] = RefCount(b)'
  <2>1. /\ \A t \in Tasks : AppOf[t] = a => pc[t] = "exit"
        /\ \A x \in Procs : buf'[x] = IF x \in Tasks /\ AppOf[x] = a THEN NULL ELSE buf[x]
        /\ UseCount'[b] = IF UseCount[b] > 0 /\ Owner[b] = a THEN Decr(UseCount[b]) ELSE UseCount[b]
        /\ UNCHANGED <<pipeTbl, queue, todo>>
    BY <1>18 DEF ZeroCopyReleaseAppId, Exited, pipeVars, queueVars
  <2>2. KeepQueue(b) /\ KeepLast(b)
    BY <2>1, <1>q, <1>l
  <2>3. \A t \in Tasks : AppOf[t] = a => todo[t] = {}
    BY <2>1, <1>told, <1>ty DEF CallTold, Sending
  <2>4. KeepTodo(b)
    <3>1. \A y \in Procs : \A q : q \in todo[y] => buf'[y] = buf[y]
      BY <2>1, <2>3
    <3> QED BY <3>1, <2>1 DEF KeepTodo, TodoRefs
  <2>5. CASE UseCount[b] > 0 /\ Owner[b] = a
    <3>1. PICK t \in Tasks : AppOf[t] = a /\ pc[t] \in {"own", "exit"} /\ buf[t] = b
      BY <2>5, <1>0, SBAssumption DEF Owned
    <3>2. UseCount[b] = 1 /\ t \in ProcRefs(b)
      BY <3>1, <1>0, <1>ty DEF Owned, ProcRefs
    <3>3. ProcRefs(b) = {t}
      BY <3>2, <1>0, Exclusive
    <3>4. ProcRefs(b)' = {}
      <4>1. \A x \in Procs : buf[x] = b => x = t
        BY <3>3 DEF ProcRefs
      <4>2. \A x \in Procs : buf'[x] # b
        BY <4>1, <3>1, <2>1, <1>ty
      <4> QED BY <4>2 DEF ProcRefs
    <3>5. ProcRefs(b)' = ProcRefs(b) \ {t}
      BY <3>3, <3>4
    <3> QED BY <2>1, <2>2, <2>4, <2>5, <3>2, <3>5, <1>0, RefMoves
  <2>6. CASE ~(UseCount[b] > 0 /\ Owner[b] = a)
    <3>1. \A t \in Tasks : AppOf[t] = a => buf[t] # b
      BY <2>1, <2>6, <1>0, <1>ty DEF Owned
    <3>2. KeepProc(b)
      BY <3>1, <2>1, <1>ty DEF KeepProc, ProcRefs
    <3> QED BY <2>1, <2>2, <2>4, <2>6, <3>2, <1>0, RefMoves
  <2> QED BY <2>5, <2>6
<1> QED BY <1>16, <1>17, <1>18, StepKinds

\* A buffer's owner, as long as it is not transmitted, has it to itself.
LEMMA OwnerAlone ==
  ASSUME UseInv, NEW t \in Tasks, pc[t] \in {"own", "exit"}, buf[t] # NULL
  PROVE  /\ buf[t] \in Bufs /\ UseCount[buf[t]] = 1 /\ Owner[buf[t]] = AppOf[t]
         /\ \A x \in Procs : buf[x] = buf[t] => x = t
         /\ \A p \in PipeIds : buf[t] \notin InQueue(p)
         /\ \A p \in LivePipes : pipeTbl[Slot(p)].last # buf[t]
<1>1. /\ TypeOK /\ buf[t] \in Bufs /\ t \in Procs /\ UseCount[buf[t]] = 1 /\ Owner[buf[t]] = AppOf[t]
  BY DEF UseInv, BookInv, TableInv, TypeOK, ProcsTyped, Procs, Owned
<1>2. UseCount[buf[t]] = RefCount(buf[t])
  BY <1>1, UseSets DEF UseInv
<1>3. t \in ProcRefs(buf[t])
  BY <1>1 DEF ProcRefs
<1>4. ProcRefs(buf[t]) = {t} /\ QueueRefs(buf[t]) = {} /\ LastRefs(buf[t]) = {}
  BY <1>1, <1>2, <1>3, Exclusive
<1> QED BY <1>1, <1>4 DEF ProcRefs, QueueRefs, LastRefs

\* No queue ever holds a buffer twice, and no two transmitters send the same
\* one: what a transmitter still has to write is not in the queue yet.
LEMMA SenderStep == ASSUME UseInv, [Next]_vars PROVE QueuesDistinct' /\ OneSender'
<1>0. /\ TableInv /\ TypeOK /\ TypeOK' /\ CallsTold /\ CallsTold' /\ OneSender /\ Owned /\ QueuesDistinct
  BY TypeStep, CallsToldStep, UseSets DEF UseInv, BookInv, TableInv
<1>ty. /\ pc \in [Procs -> PC] /\ pipe \in [Procs -> PipeIds] /\ Tasks \subseteq Procs
       /\ todo \in [Procs -> SUBSET PipeIds] /\ queue \in [PipeIds -> Seq(Bufs)]
       /\ buf \in [Procs -> Bufs \cup {NULL}]
  BY <1>0 DEF TypeOK, ProcsTyped, QueuesTyped, Procs
<1>todo. \A t \in Tasks : todo'[t] \in SUBSET PipeIds
  BY <1>0 DEF TypeOK, ProcsTyped, Procs
<1>q. UNCHANGED queue => QueuesDistinct' /\ \A p \in PipeIds : InQueue(p)' \subseteq InQueue(p)
  BY <1>0 DEF QueuesDistinct, InQueue
<1>gen. ASSUME NEW x \in Procs, Local(x), \A p \in PipeIds : InQueue(p)' \subseteq InQueue(p),
               pc'[x] \in Sending => pc[x] \in Sending /\ buf'[x] = buf[x] /\ todo'[x] \subseteq todo[x]
        PROVE  OneSender'
  <2>1. \A t \in Tasks : pc'[t] \in Sending =>
          pc[t] \in Sending /\ buf'[t] = buf[t] /\ todo'[t] \subseteq todo[t]
    BY <1>gen, <1>ty DEF Local
  <2>2. \A t \in Tasks : todo'[t] # {} => pc'[t] \in Sending
    BY <1>0, <1>ty DEF CallsTold, CallTold
  <2>3. ASSUME NEW t \in Tasks, NEW p \in todo'[t] PROVE buf'[t] \notin InQueue(p)'
    <3>1. p \in PipeIds /\ p \in todo[t] /\ buf'[t] = buf[t]
      BY <2>1, <2>2, <2>3, <1>todo
    <3> QED BY <3>1, <1>0, <1>gen DEF OneSender
  <2>4. ASSUME NEW t \in Tasks, NEW u \in Tasks, pc'[t] \in Sending, pc'[u] \in Sending, buf'[t] = buf'[u]
        PROVE  t = u
    BY <2>1, <2>4, <1>0 DEF OneSender
  <2> QED BY <2>3, <2>4 DEF OneSender
<1>read. ASSUME NEW q \in PipeIds, queue[q] # <<>>, queue' = [queue EXCEPT ![q] = Tail(@)]
         PROVE  QueuesDistinct' /\ \A p \in PipeIds : InQueue(p)' \subseteq InQueue(p)
  <2>1. PICK s \in Seq(Bufs) : s = queue[q]
    BY <1>ty
  <2>2. /\ s # <<>> /\ \A i, j \in 1..Len(s) : s[i] = s[j] => i = j
    BY <2>1, <1>read, <1>0 DEF QueuesDistinct
  <2>3. queue'[q] = Tail(s) /\ \A p \in PipeIds \ {q} : queue'[p] = queue[p]
    BY <2>1, <1>read, <1>ty
  <2>4. \A i, j \in 1..Len(queue'[q]) : queue'[q][i] = queue'[q][j] => i = j
    BY <2>2, <2>3, QueueTail
  <2>5. InQueue(q) = {s[i] : i \in 1..Len(s)} /\ InQueue(q)' = {Tail(s)[i] : i \in 1..Len(Tail(s))}
    BY <2>1, <2>3 DEF InQueue
  <2>6. InQueue(q)' \subseteq InQueue(q)
    BY <2>2, <2>5, QueueTail
  <2>7. \A p \in PipeIds \ {q} : InQueue(p)' = InQueue(p)
    BY <2>3 DEF InQueue
  <2>8. QueuesDistinct'
    BY <2>3, <2>4, <1>0 DEF QueuesDistinct
  <2> QED BY <2>6, <2>7, <2>8
<1>1. ASSUME NEW x \in Tasks, NEW m \in MsgIds, FindDestinations(x, m), Local(x)
      PROVE  QueuesDistinct' /\ OneSender'
  <2>1. /\ x \in Procs /\ pc[x] = "own" /\ buf[x] # NULL /\ buf'[x] = buf[x] /\ UNCHANGED queue
    BY <1>0, <1>1, <1>ty DEF FindDestinations, TypeOK, ProcsTyped, queueVars
  <2>2. /\ \A y \in Procs : buf[y] = buf[x] => y = x
        /\ \A p \in PipeIds : buf[x] \notin InQueue(p)
    BY <2>1, OwnerAlone
  <2>3. \A t \in Procs \ {x} : pc'[t] = pc[t] /\ buf'[t] = buf[t] /\ todo'[t] = todo[t]
    BY <1>1 DEF Local
  <2>4. \A p : InQueue(p)' = InQueue(p)
    BY <2>1 DEF InQueue
  <2>5. ASSUME NEW t \in Tasks, NEW p \in todo'[t] PROVE buf'[t] \notin InQueue(p)'
    <3>1. CASE t = x
      BY <3>1, <2>1, <2>2, <2>4, <2>5, <1>todo
    <3>2. CASE t # x
      BY <3>2, <2>3, <2>4, <2>5, <1>0, <1>ty DEF OneSender
    <3> QED BY <3>1, <3>2
  <2>6. ASSUME NEW t \in Tasks, NEW u \in Tasks, pc'[t] \in Sending, pc'[u] \in Sending, buf'[t] = buf'[u]
        PROVE  t = u
    <3>1. buf[t] = buf[u]
      BY <2>1, <2>3, <2>6, <1>ty
    <3>2. CASE t = x \/ u = x
      BY <3>1, <3>2, <2>2, <1>ty
    <3>3. CASE t # x /\ u # x
      BY <3>1, <3>3, <2>3, <2>6, <1>0, <1>ty DEF OneSender
    <3> QED BY <3>2, <3>3
  <2> QED BY <2>1, <2>5, <2>6, <1>q DEF OneSender
<1>2. ASSUME NEW x \in Tasks, QueuePut(x), Local(x) PROVE QueuesDistinct' /\ OneSender'
  <2>1. PICK q \in PipeIds :
          /\ q \in todo[x]
          /\ queue' = [queue EXCEPT ![q] = Append(@, buf[x])]
          /\ todo' = [todo EXCEPT ![x] = @ \ {q}]
    BY <1>2, <1>ty DEF QueuePut
  <2>2. /\ x \in Procs /\ buf[x] \in Bufs /\ UNCHANGED <<pc, buf>> /\ pc[x] \in Sending
    BY <1>0, <1>2, <1>ty DEF QueuePut, TypeOK, ProcsTyped, Sending
  <2>3. PICK s \in Seq(Bufs) : s = queue[q]
    BY <1>ty
  <2>4. queue'[q] = Append(s, buf[x]) /\ \A p \in PipeIds \ {q} : queue'[p] = queue[p]
    BY <2>1, <2>3, <1>ty
  <2>5. /\ InQueue(q) = {s[i] : i \in 1..Len(s)} /\ buf[x] \notin InQueue(q)
        /\ InQueue(q)' = {Append(s, buf[x])[i] : i \in 1..Len(Append(s, buf[x]))}
    BY <2>1, <2>3, <2>4, <1>0 DEF InQueue, OneSender
  <2>6. InQueue(q)' = InQueue(q) \cup {buf[x]} /\ \A p \in PipeIds \ {q} : InQueue(p)' = InQueue(p)
    <3>1. InQueue(q)' = InQueue(q) \cup {buf[x]}
      BY <2>2, <2>5, QueueAppend
    <3> QED BY <3>1, <2>4 DEF InQueue
  <2>7. QueuesDistinct'
    <3>1. \A i, j \in 1..Len(s) : s[i] = s[j] => i = j
      BY <2>3, <1>0 DEF QueuesDistinct
    <3>2. /\ Len(queue'[q]) = Len(s) + 1 /\ Len(s) \in Nat
          /\ \A i \in 1..Len(queue'[q]) : queue'[q][i] = IF i = Len(s) + 1 THEN buf[x] ELSE s[i]
      BY <2>2, <2>4, QueueAppend
    <3>3. \A i \in 1..Len(s) : s[i] # buf[x]
      BY <2>5
    <3>4. \A i \in 1..Len(queue'[q]) : i = Len(s) + 1 \/ i \in 1..Len(s)
      BY <3>2
    <3>5. \A i, j \in 1..Len(queue'[q]) : queue'[q][i] = queue'[q][j] => i = j
      BY <3>1, <3>2, <3>3, <3>4
    <3> QED BY <3>5, <2>4, <1>0 DEF QueuesDistinct
  <2>8. ASSUME NEW t \in Tasks, NEW p \in todo'[t] PROVE buf'[t] \notin InQueue(p)'
    <3>1. p \in todo[t] /\ p \in PipeIds /\ buf'[t] = buf[t] /\ (t = x => p # q)
      BY <2>1, <2>2, <2>8, <1>ty, <1>todo
    <3>2. buf[t] \notin InQueue(p)
      BY <3>1, <1>0 DEF OneSender
    <3>3. CASE p = q
      <4>1. t # x /\ pc[t] \in Sending
        BY <3>1, <3>3, <1>0, <1>ty DEF CallsTold, CallTold
      <4>2. buf[t] # buf[x]
        BY <4>1, <2>2, <1>0 DEF OneSender
      <4> QED BY <3>1, <3>2, <3>3, <4>2, <2>6
    <3>4. CASE p # q
      BY <3>1, <3>2, <3>4, <2>6
    <3> QED BY <3>3, <3>4
  <2>9. \A t, u \in Tasks : pc'[t] \in Sending /\ pc'[u] \in Sending /\ buf'[t] = buf'[u] => t = u
    BY <2>2, <1>0 DEF OneSender
  <2> QED BY <2>7, <2>8, <2>9 DEF OneSender
<1>3. ASSUME NEW x \in Procs, StepOf(x) PROVE QueuesDistinct' /\ OneSender'
  <2>1. Local(x)
    BY <1>0, <1>3, CallsStep
  <2>2. CASE x \in Tasks /\ ((\E m \in MsgIds : FindDestinations(x, m)) \/ QueuePut(x))
    BY <2>1, <2>2, <1>1, <1>2
  <2>3. ASSUME ~(x \in Tasks /\ ((\E m \in MsgIds : FindDestinations(x, m)) \/ QueuePut(x)))
        PROVE  QueuesDistinct' /\ OneSender'
    <3>1. pc'[x] \in Sending => pc[x] \in Sending /\ buf'[x] = buf[x] /\ todo'[x] \subseteq todo[x]
      BY <1>3, <2>3, <1>ty DEF StepOf, AllocateMessageBuffer, ReleaseMessageBuffer, ExitApp, Transmit,
         QueuePutFails, UndoPut, TransmitFinish, Receive,
         ReceiveBuffer, QueueGet, QueueGetFails, ExportReference, UnlinkPipe,
         Drain, DrainRelease, DrainGet, DrainEmpty, QueueDelete, FreePipe,
         Create, CreatePipe, QueueCreate, QueueCreateFails, PublishPipe, UnreservePipe,
         Return, Goto, Sending
    <3>2. QueuesDistinct' /\ \A p \in PipeIds : InQueue(p)' \subseteq InQueue(p)
      <4>1. CASE QueueGet(x) \/ DrainGet(x)
        <5>1. pipe[x] \in PipeIds /\ queue[pipe[x]] # <<>> /\ queue' = [queue EXCEPT ![pipe[x]] = Tail(@)]
          BY <4>1, <1>ty DEF QueueGet, DrainGet
        <5> QED BY <5>1, <1>read
      <4>2. CASE UNCHANGED queue
        BY <4>2, <1>q
      <4> QED BY <1>3, <2>3, <4>1, <4>2 DEF StepOf, AllocateMessageBuffer, ReleaseMessageBuffer, ExitApp, Transmit,
         QueuePutFails, UndoPut, TransmitFinish, Receive,
         ReceiveBuffer, QueueGetFails, ExportReference, UnlinkPipe,
         Drain, DrainRelease, DrainEmpty, QueueDelete, FreePipe,
         Create, CreatePipe, QueueCreate, QueueCreateFails, PublishPipe, UnreservePipe, queueVars
    <3> QED BY <2>1, <3>1, <3>2, <1>gen
  <2> QED BY <2>2, <2>3
<1>4. ASSUME NEW a \in Apps, ZeroCopyReleaseAppId(a) PROVE QueuesDistinct' /\ OneSender'
  <2>1. /\ UNCHANGED <<pc, todo, queue>>
        /\ \A t \in Tasks : pc[t] \in Sending => buf'[t] = buf[t]
    BY <1>4, <1>ty DEF ZeroCopyReleaseAppId, Exited, Sending, queueVars
  <2>2. \A t \in Tasks : todo[t] # {} => pc[t] \in Sending
    BY <1>0, <1>ty DEF CallsTold, CallTold
  <2>3. \A p : InQueue(p)' = InQueue(p)
    BY <2>1 DEF InQueue
  <2>4. OneSender'
    BY <2>1, <2>2, <2>3, <1>0 DEF OneSender
  <2> QED BY <2>1, <2>4, <1>q
<1>5. ASSUME ConfigStep \/ UNCHANGED vars PROVE QueuesDistinct' /\ OneSender'
  <2>1. UNCHANGED <<pc, buf, todo, queue>>
    BY <1>5, ConfigLocal DEF vars, procVars, queueVars
  <2> QED BY <2>1, <1>0, <1>q DEF OneSender, InQueue
<1> QED BY <1>3, <1>4, <1>5, StepKinds

\* A step of process x changes the descriptor of no allocated buffer that x
\* does not hold and that no pipe has as its last one.
LEMMA UntouchedBuffer ==
  ASSUME TypeOK, NEW x \in Procs, StepOf(x), NEW b \in Bufs, buf[x] # b, UseCount[b] # 0,
         \A p \in LivePipes : pipeTbl[Slot(p)].last # b
  PROVE  UseCount'[b] = UseCount[b] /\ Owner'[b] = Owner[b]
<1>0. UseCount \in [Bufs -> Nat] /\ Owner \in [Bufs -> Apps \cup {NULL}]
  BY DEF TypeOK, BufsTyped
<1> DEFINE Goal == UseCount'[b] = UseCount[b] /\ Owner'[b] = Owner[b]
<1>decr. \A c : c # b /\ UseCount' = DecrBufUseCnt(c) => UseCount'[b] = UseCount[b]
  BY <1>0 DEF DecrBufUseCnt
<1>1. CASE AllocateMessageBuffer(x)
  <2>1. PICK c \in Bufs : /\ UseCount[c] = 0 /\ UseCount' = [UseCount EXCEPT ![c] = 1]
                          /\ Owner' = [Owner EXCEPT ![c] = AppOf[x]]
    BY <1>1 DEF AllocateMessageBuffer
  <2> QED BY <2>1, <1>0
<1>2. CASE ReleaseMessageBuffer(x)
  BY <1>0, <1>2, <1>decr DEF ReleaseMessageBuffer
<1>3. ASSUME NEW m \in MsgIds, FindDestinations(x, m) PROVE Goal
  <2>1. Owner' = [Owner EXCEPT ![buf[x]] = NULL]
    BY <1>3 DEF FindDestinations
  <2>2. UseCount' = [UseCount EXCEPT ![buf[x]] = @ + Cardinality(WithinLimit(x, m))]
    BY <1>3 DEF FindDestinations
  <2>3. UseCount'[b] = UseCount[b]
    BY <2>2, <1>0
  <2> QED BY <2>1, <2>3, <1>0
<1>4. CASE UndoPut(x) \/ TransmitFinish(x) \/ DrainRelease(x)
  BY <1>4, <1>decr DEF UndoPut, TransmitFinish, DrainRelease
<1>5. CASE ExportReference(x)
  BY <1>5, <1>decr DEF ExportReference
<1>6. ASSUME NEW p \in PipeIds, ReceiveBuffer(x, p) PROVE Goal
  <2>1. p \in LivePipes /\ UseCount' = ReleaseLast(p) /\ Owner' = Owner
    BY <1>6 DEF ReceiveBuffer, LivePipes
  <2> QED BY <2>1, <1>decr DEF ReleaseLast
<1>7. CASE UNCHANGED bufVars
  BY <1>7 DEF bufVars
<1> QED BY <1>1, <1>2, <1>3, <1>4, <1>5, <1>6, <1>7 DEF StepOf, ExitApp, Transmit, QueuePut, QueuePutFails,
       Receive, QueueGet, QueueGetFails, UnlinkPipe, Drain, DrainGet, DrainEmpty, QueueDelete, FreePipe,
       Create, CreatePipe, QueueCreate, QueueCreateFails, PublishPipe, UnreservePipe

\* Zero-copy buffers stay with the application that allocated them until they
\* are transmitted, released, or taken back when the application has exited.
LEMMA OwnedStep == ASSUME UseInv, [Next]_vars PROVE Owned'
<1>0. /\ TableInv /\ TypeOK /\ CallsTold /\ Owned
  BY DEF UseInv, BookInv, TableInv
<1>ty. /\ pc \in [Procs -> PC] /\ Tasks \subseteq Procs /\ buf \in [Procs -> Bufs \cup {NULL}]
       /\ UseCount \in [Bufs -> Nat] /\ Owner \in [Bufs -> Apps \cup {NULL}]
       /\ NULL \notin Bufs /\ NULL \notin Apps /\ AppOf \in [Tasks -> Apps]
  BY <1>0, SBAssumption DEF TypeOK, ProcsTyped, BufsTyped, Procs
<1>told. \A x \in Procs : CallTold(x)
  BY <1>0 DEF CallsTold
<1>1. ASSUME NEW x \in Procs, StepOf(x) PROVE Owned'
  <2>0. Local(x)
    BY <1>0, <1>1, CallsStep
  <2>1. ASSUME NEW t \in Tasks, t # x, pc'[t] \in {"own", "exit"}, buf'[t] # NULL
        PROVE  Owner'[buf'[t]] = AppOf[t] /\ UseCount'[buf'[t]] = 1
    <3>1. pc[t] \in {"own", "exit"} /\ buf'[t] = buf[t] /\ buf[t] # NULL
      BY <2>0, <2>1, <1>ty DEF Local
    <3>2. /\ buf[t] \in Bufs /\ UseCount[buf[t]] = 1 /\ Owner[buf[t]] = AppOf[t] /\ buf[x] # buf[t]
          /\ \A p \in LivePipes : pipeTbl[Slot(p)].last # buf[t]
      BY <2>1, <3>1, OwnerAlone
    <3>3. UseCount'[buf[t]] = UseCount[buf[t]] /\ Owner'[buf[t]] = Owner[buf[t]]
      BY <3>2, <1>0, <1>1, UntouchedBuffer
    <3> QED BY <3>1, <3>2, <3>3
  <2>2. ASSUME x \in Tasks, pc'[x] \in {"own", "exit"}, buf'[x] # NULL
        PROVE  Owner'[buf'[x]] = AppOf[x] /\ UseCount'[buf'[x]] = 1
    <3>1. CASE AllocateMessageBuffer(x)
      BY <3>1, <1>ty DEF AllocateMessageBuffer, Hold
    <3>2. CASE ExitApp(x)
      <4>1. pc[x] = "own" /\ buf'[x] = buf[x] /\ UNCHANGED <<Owner, UseCount>>
        BY <2>2, <3>2, <1>told, <1>ty DEF ExitApp, CallTold, Holding, bufVars
      <4> QED BY <2>2, <4>1, <1>0 DEF Owned
    <3> QED BY <1>1, <2>2, <3>1, <3>2, <1>ty
         DEF StepOf, ReleaseMessageBuffer, Transmit, FindDestinations, QueuePut, QueuePutFails, UndoPut,
         TransmitFinish, Receive, ReceiveBuffer, QueueGet, QueueGetFails, ExportReference, UnlinkPipe,
         Drain, DrainRelease, DrainGet, DrainEmpty, QueueDelete, FreePipe,
         Create, CreatePipe, QueueCreate, QueueCreateFails, PublishPipe, UnreservePipe, Return, Goto
  <2>3. ASSUME NEW b \in Bufs, Owner'[b] # NULL, UseCount'[b] > 0
        PROVE  \E t \in Tasks : AppOf[t] = Owner'[b] /\ pc'[t] \in {"own", "exit"} /\ buf'[t] = b
    <3>k. ASSUME Owner'[b] = Owner[b], UseCount[b] > 0, pc[x] \in {"own", "exit"} => buf[x] # b
          PROVE  \E t \in Tasks : AppOf[t] = Owner'[b] /\ pc'[t] \in {"own", "exit"} /\ buf'[t] = b
      <4>1. PICK t \in Tasks : AppOf[t] = Owner[b] /\ pc[t] \in {"own", "exit"} /\ buf[t] = b
        BY <2>3, <3>k, <1>0 DEF Owned
      <4>2. t # x
        BY <4>1, <3>k
      <4>3. pc'[t] = pc[t] /\ buf'[t] = buf[t]
        BY <4>2, <2>0, <1>ty DEF Local
      <4> QED BY <4>1, <4>3, <3>k
    <3>1. CASE x \in Tasks /\ AllocateMessageBuffer(x)
      <4>1. PICK c \in Bufs : /\ UseCount' = [UseCount EXCEPT ![c] = 1] /\ buf' = [buf EXCEPT ![x] = c]
                              /\ Owner' = [Owner EXCEPT ![c] = AppOf[x]] /\ pc' = [pc EXCEPT ![x] = "own"]
        BY <3>1 DEF AllocateMessageBuffer, Hold, Goto
      <4>2. CASE b = c
        <5>1. AppOf[x] = Owner'[b] /\ pc'[x] = "own" /\ buf'[x] = b
          BY <3>1, <4>1, <4>2, <1>ty
        <5> QED BY <3>1, <5>1
      <4>3. CASE b # c
        <5>1. Owner'[b] = Owner[b] /\ UseCount[b] > 0 /\ buf[x] = NULL
          BY <2>3, <3>1, <4>1, <4>3, <1>ty, <1>told DEF AllocateMessageBuffer, CallTold, Holding
        <5> QED BY <5>1, <3>k, <1>ty
      <4> QED BY <4>2, <4>3
    <3>2. CASE x \in Tasks /\ ReleaseMessageBuffer(x)
      <4>1. Owner' = [Owner EXCEPT ![buf[x]] = NULL] /\ UseCount' = DecrBufUseCnt(buf[x])
        BY <3>2 DEF ReleaseMessageBuffer
      <4>2. buf[x] # b /\ Owner'[b] = Owner[b] /\ UseCount[b] > 0
        BY <2>3, <4>1, <1>ty DEF DecrBufUseCnt
      <4> QED BY <4>2, <3>k
    <3>3. ASSUME x \in Tasks, NEW m \in MsgIds, FindDestinations(x, m)
          PROVE  \E t \in Tasks : AppOf[t] = Owner'[b] /\ pc'[t] \in {"own", "exit"} /\ buf'[t] = b
      <4>1. Owner' = [Owner EXCEPT ![buf[x]] = NULL]
        BY <3>3 DEF FindDestinations
      <4>2. UseCount' = [UseCount EXCEPT ![buf[x]] = @ + Cardinality(WithinLimit(x, m))]
        BY <3>3 DEF FindDestinations
      <4>3. buf[x] # b /\ Owner'[b] = Owner[b]
        BY <2>3, <4>1, <1>ty
      <4>4. UseCount'[b] = UseCount[b]
        BY <4>2, <4>3, <1>ty
      <4> QED BY <2>3, <4>3, <4>4, <3>k
    <3>4. CASE x \in Tasks /\ ExitApp(x)
      <4>1. UNCHANGED <<Owner, UseCount, buf>> /\ pc' = [pc EXCEPT ![x] = "exit"]
        BY <3>4 DEF ExitApp, Goto, bufVars
      <4>2. PICK t \in Tasks : AppOf[t] = Owner[b] /\ pc[t] \in {"own", "exit"} /\ buf[t] = b
        BY <2>3, <4>1, <1>0 DEF Owned
      <4> QED BY <4>1, <4>2, <1>ty
    <3>5. ASSUME Owner' = Owner, UseCount' = UseCount \/ (\E c : UseCount' = DecrBufUseCnt(c)),
                 pc[x] \notin {"own", "exit"}
          PROVE  \E t \in Tasks : AppOf[t] = Owner'[b] /\ pc'[t] \in {"own", "exit"} /\ buf'[t] = b
      <4>1. UseCount[b] > 0
        BY <2>3, <3>5, <1>ty DEF DecrBufUseCnt, Decr
      <4> QED BY <4>1, <3>5, <3>k
    <3>6. CASE /\ x \in Tasks
               /\ \/ QueuePut(x) \/ QueuePutFails(x) \/ UndoPut(x) \/ TransmitFinish(x)
                  \/ Receive(x) \/ Create(x)
      <4>1. Owner' = Owner /\ pc[x] \notin {"own", "exit"}
        BY <3>6 DEF QueuePut, QueuePutFails, UndoPut, TransmitFinish, Receive, ReceiveBuffer, QueueGet,
           QueueGetFails, ExportReference, Create, CreatePipe, QueueCreate, QueueCreateFails, PublishPipe,
           UnreservePipe, bufVars
      <4>2. UseCount' = UseCount \/ \E c : UseCount' = DecrBufUseCnt(c)
        BY <3>6 DEF QueuePut, QueuePutFails, UndoPut, TransmitFinish, Receive, ReceiveBuffer, ReleaseLast, QueueGet,
           QueueGetFails, ExportReference, Create, CreatePipe, QueueCreate, QueueCreateFails, PublishPipe,
           UnreservePipe, bufVars
      <4> QED BY <4>1, <4>2, <3>5
    <3>7. CASE Drain(x) \/ (pc[x] = "idle" /\ \E p \in PipeIds : \E app \in Apps : UnlinkPipe(x, p, app))
      <4>1. Owner' = Owner /\ pc[x] \notin {"own", "exit"}
        BY <3>7 DEF Drain, DrainRelease, DrainGet, DrainEmpty, QueueDelete, FreePipe, UnlinkPipe, bufVars
      <4>2. UseCount' = UseCount \/ \E c : UseCount' = DecrBufUseCnt(c)
        BY <3>7 DEF Drain, DrainRelease, DrainGet, DrainEmpty, QueueDelete, FreePipe, UnlinkPipe, bufVars
      <4> QED BY <4>1, <4>2, <3>5
    <3> QED BY <1>1, <3>1, <3>2, <3>3, <3>4, <3>6, <3>7 DEF StepOf, Transmit
  <2> QED BY <2>1, <2>2, <2>3 DEF Owned
<1>2. ASSUME NEW a \in Apps, ZeroCopyReleaseAppId(a) PROVE Owned'
  <2>1. /\ \A x \in Procs : buf'[x] = IF x \in Tasks /\ AppOf[x] = a THEN NULL ELSE buf[x]
        /\ \A b \in Bufs : UseCount'[b] = IF UseCount[b] > 0 /\ Owner[b] = a THEN Decr(UseCount[b]) ELSE UseCount[b]
        /\ UNCHANGED <<Owner, pc>>
    BY <1>2 DEF ZeroCopyReleaseAppId
  <2>2. ASSUME NEW t \in Tasks, pc'[t] \in {"own", "exit"}, buf'[t] # NULL
        PROVE  Owner'[buf'[t]] = AppOf[t] /\ UseCount'[buf'[t]] = 1
    <3>1. AppOf[t] # a /\ buf'[t] = buf[t] /\ pc[t] \in {"own", "exit"} /\ buf[t] \in Bufs
      BY <2>1, <2>2, <1>ty
    <3>2. Owner[buf[t]] = AppOf[t] /\ UseCount[buf[t]] = 1
      BY <3>1, <1>0, <1>ty DEF Owned
    <3> QED BY <3>1, <3>2, <2>1
  <2>3. ASSUME NEW b \in Bufs, Owner'[b] # NULL, UseCount'[b] > 0
        PROVE  \E t \in Tasks : AppOf[t] = Owner'[b] /\ pc'[t] \in {"own", "exit"} /\ buf'[t] = b
    <3>1. UseCount[b] > 0
      BY <2>1, <2>3, <1>ty DEF Decr
    <3>2. PICK t \in Tasks : AppOf[t] = Owner[b] /\ pc[t] \in {"own", "exit"} /\ buf[t] = b
      BY <2>1, <2>3, <3>1, <1>0 DEF Owned
    <3>3. UseCount[b] = 1
      BY <3>2, <1>0, <1>ty DEF Owned
    <3>4. Owner[b] # a
      BY <2>1, <2>3, <3>3 DEF Decr
    <3> QED BY <2>1, <3>2, <3>4, <1>ty
  <2> QED BY <2>2, <2>3 DEF Owned
<1>3. ASSUME ConfigStep \/ UNCHANGED vars PROVE Owned'
  <2>1. UNCHANGED <<pc, buf, Owner, UseCount>>
    BY <1>3, ConfigLocal DEF vars, procVars, bufVars
  <2> QED BY <2>1, <1>0 DEF Owned
<1> QED BY <1>1, <1>2, <1>3, StepKinds

\* Every step preserves the invariant behind the reference counts.
LEMMA UseInvStep == UseInv /\ [Next]_vars => UseInv'
<1> SUFFICES ASSUME UseInv, [Next]_vars PROVE UseInv'
  OBVIOUS
<1>1. BookInv' /\ OneReader'
  BY BookStep, ReaderStep DEF UseInv
<1>2. \A b \in Bufs : UseCount'[b] = RefCount(b)'
  BY UseStep
<1>3. QueuesDistinct' /\ OneSender' /\ Owned'
  BY SenderStep, OwnedStep
<1>4. UseCountExact'
  BY <1>2, <1>3 DEF UseCountExact, RefCount, QueuesDistinct
<1> QED BY <1>1, <1>3, <1>4 DEF UseInv

\* Initially every buffer is in the pool and nothing refers to it.
LEMMA UseInvInit == Init => UseInv
<1> SUFFICES ASSUME Init PROVE UseInv
  OBVIOUS
<1>1. BookInv
  BY BookInit
<1>2. \A x \in Procs : pc[x] = "idle" /\ todo[x] = {} /\ buf[x] = NULL
  BY DEF Init
<1> \A t \in Tasks : t \in Procs
  BY DEF Procs
<1>3. OneReader
  BY <1>2 DEF OneReader, Reading
<1>8. OneSender
  BY <1>2 DEF OneSender, Sending
<1>9. \A b \in Bufs : UseCount[b] = 0
  BY DEF Init
<1>10. Owned
  <2>1. \A b \in Bufs : ~ (UseCount[b] > 0)
    BY <1>9
  <2> QED BY <1>2, <2>1 DEF Owned
<1>4. LivePipes = {}
  <2>1. \A s \in Slots : pipeTbl[s].id = FREE
    BY DEF Init, EmptyPipeDesc
  <2> QED BY <2>1, SlotType DEF LivePipes, PipeDescIsMatch, FREE, PipeIds, Slot
<1>5. \A p \in PipeIds : InQueue(p) = {} /\ Len(queue[p]) = 0
  BY DEF Init, InQueue
<1>6. ASSUME NEW b \in Bufs PROVE UseCount[b] = RefCount(b)
  <2>1. ProcRefs(b) = {} /\ TodoRefs(b) = {} /\ QueueRefs(b) = {} /\ LastRefs(b) = {}
    BY <1>2, <1>4, <1>5, SBAssumption DEF ProcRefs, TodoRefs, QueueRefs, LastRefs
  <2>2. UseCount[b] = 0
    BY DEF Init
  <2> QED BY <2>1, <2>2, FS_EmptySet DEF RefCount
<1>7. QueuesDistinct
  BY <1>5 DEF QueuesDistinct
<1> QED BY <1>1, <1>3, <1>6, <1>7, <1>8, <1>10, UseSets DEF UseInv

\* At every point between two critical sections of any number of tasks the use
\* count of a buffer is the number of references to it: no buffer that a task,
\* a queue or a pipe can still reach goes back to the pool, and none leaks.
THEOREM UseCountsExact == Spec => []UseCountExact
<1>1. UseInv => UseCountExact
  BY DEF UseInv
<1> QED BY <1>1, UseInvInit, UseInvStep, PTL DEF Spec

(***************************************************************************)
(* The message limit.  A message in transit to a live pipe stays there     *)
(* until the count of its subscription is discharged for it.               *)
(***************************************************************************)

\* Buffer b is about to be written to, is in, or has just been read from p.
Travels(b, p) ==
  \/ b \in InQueue(p)
  \/ \E t \in Tasks : buf[t] = b /\ p \in todo[t]
  \/ \E t \in Tasks : buf[t] = b /\ pc[t] = "export" /\ pipe[t] = p

\* The steps of task t that take its buffer off its pipe.
Arrives(t) == UndoPut(t) \/ ExportReference(t)

\* The steps that the message limit sees, in terms of who travels where.
LEMMA TransitSets ==
  ASSUME NEW m, NEW p PROVE InTransit(m, p) = {b \in Bufs : MsgId[b] = m /\ Travels(b, p)}
  BY DEF InTransit, Travels

\* A buffer that its allocator has not sent is on its way to no pipe.
LEMMA OwnStays ==
  ASSUME UseInv, NEW t \in Tasks, pc[t] = "own", NEW p \in PipeIds
  PROVE  buf[t] \in Bufs /\ ~Travels(buf[t], p)
<1>0. TypeOK /\ CallsTold /\ Tasks \subseteq Procs
  BY DEF UseInv, BookInv, TableInv, Procs
<1>1. buf[t] # NULL /\ buf[t] \in Bufs
  BY <1>0 DEF TypeOK, ProcsTyped
<1>2. /\ \A x \in Procs : buf[x] = buf[t] => x = t
      /\ buf[t] \notin InQueue(p)
  BY <1>1, OwnerAlone
<1>3. todo[t] = {}
  BY <1>0 DEF CallsTold, CallTold, Sending
<1> QED BY <1>0, <1>1, <1>2, <1>3 DEF Travels

\* A buffer on its way is neither free nor its sender's own: no step gives it
\* another message.
LEMMA TravelsKeepsMsg ==
  ASSUME UseInv, [Next]_vars, NEW b \in Bufs, NEW p \in PipeIds, Travels(b, p)
  PROVE  MsgId'[b] = MsgId[b]
<1>0. /\ TypeOK /\ CallsTold /\ UseCount[b] = RefCount(b)
      /\ Tasks \subseteq Procs /\ buf \in [Procs -> Bufs \cup {NULL}] /\ MsgId \in [Bufs -> MsgIds \cup {NULL}]
      /\ NULL \notin Bufs
  BY UseSets, SBAssumption DEF UseInv, BookInv, TableInv, TypeOK, ProcsTyped, BufsTyped, Procs
<1>1. UseCount[b] # 0
  <2>1. ProcRefs(b) # {} \/ QueueRefs(b) # {}
    BY <1>0 DEF Travels, ProcRefs, QueueRefs
  <2> QED BY <2>1, <1>0, Exclusive
<1>2. ASSUME NEW t \in Tasks, pc[t] = "own" PROVE buf[t] # b
  BY <1>2, OwnStays
<1>3. ASSUME NEW t \in Tasks, AllocateMessageBuffer(t) PROVE MsgId'[b] = MsgId[b]
  <2>1. PICK c \in Bufs : UseCount[c] = 0 /\ MsgId' = [MsgId EXCEPT ![c] = NULL]
    BY <1>3 DEF AllocateMessageBuffer
  <2> QED BY <2>1, <1>0, <1>1
<1>4. ASSUME NEW t \in Tasks, NEW m \in MsgIds, FindDestinations(t, m) PROVE MsgId'[b] = MsgId[b]
  <2>1. pc[t] = "own" /\ MsgId' = [MsgId EXCEPT ![buf[t]] = m]
    BY <1>4 DEF FindDestinations
  <2> QED BY <2>1, <1>0, <1>2
<1>5. CASE UNCHANGED MsgId
  BY <1>5
<1>6. ASSUME NEW x \in Procs, StepOf(x) PROVE MsgId'[b] = MsgId[b]
  BY <1>3, <1>4, <1>5, <1>6 DEF StepOf, ReleaseMessageBuffer, ExitApp, Transmit, QueuePut, QueuePutFails, UndoPut,
     TransmitFinish, Receive, ReceiveBuffer, QueueGet, QueueGetFails, ExportReference, UnlinkPipe,
     Drain, DrainRelease, DrainGet, DrainEmpty, QueueDelete, FreePipe,
     Create, CreatePipe, QueueCreate, QueueCreateFails, PublishPipe, UnreservePipe, bufVars
<1>7. ASSUME ConfigStep \/ UNCHANGED vars PROVE MsgId'[b] = MsgId[b]
  BY <1>7, ConfigLocal DEF vars, bufVars
<1>8. ASSUME NEW a \in Apps, ZeroCopyReleaseAppId(a) PROVE MsgId'[b] = MsgId[b]
  BY <1>8 DEF ZeroCopyReleaseAppId
<1> QED BY <1>6, <1>7, <1>8, StepKinds

\* A buffer on its way to a live pipe stays on its way, whatever the other
\* tasks do, until the failed write is undone or the reader exports it.
LEMMA TravelsStep ==
  ASSUME UseInv, [Next]_vars, NEW b \in Bufs, NEW p \in LivePipes, Travels(b, p)
  PROVE  Travels(b, p)' \/ \E t \in Tasks : Arrives(t) /\ buf[t] = b /\ pipe[t] = p
<1>0. /\ TableInv /\ TypeOK /\ CallsTold /\ p \in PipeIds /\ QueuesDistinct
      /\ Tasks \subseteq Procs /\ ES \notin Tasks /\ pc \in [Procs -> PC] /\ buf \in [Procs -> Bufs \cup {NULL}]
      /\ todo \in [Procs -> SUBSET PipeIds] /\ pipe \in [Procs -> PipeIds] /\ queue \in [PipeIds -> Seq(Bufs)]
      /\ NULL \notin Bufs
  BY UseSets, SBAssumption DEF UseInv, BookInv, TableInv, TypeOK, ProcsTyped, QueuesTyped, Procs, LivePipes
<1>told. \A x \in Procs : CallTold(x)
  BY <1>0 DEF CallsTold
<1>q. UNCHANGED queue => InQueue(p)' = InQueue(p)
  BY DEF InQueue
<1>gen. ASSUME NEW x \in Procs, Local(x), b \in InQueue(p) => b \in InQueue(p)' \/ Travels(b, p)',
               x \in Tasks /\ buf[x] = b /\ p \in todo[x] => Travels(b, p)',
               x \in Tasks /\ buf[x] = b /\ pc[x] = "export" /\ pipe[x] = p => Travels(b, p)'
        PROVE  Travels(b, p)'
  BY <1>0, <1>gen DEF Travels, Local
<1>1. ASSUME NEW x \in Tasks, QueuePut(x), Local(x) PROVE Travels(b, p)'
  <2>1. PICK q \in PipeIds :
          /\ q \in todo[x]
          /\ queue' = [queue EXCEPT ![q] = Append(@, buf[x])]
          /\ todo' = [todo EXCEPT ![x] = @ \ {q}]
    BY <1>0, <1>1 DEF QueuePut
  <2>2. x \in Procs /\ buf[x] \in Bufs /\ UNCHANGED <<pc, buf>> /\ pc[x] = "put"
    BY <1>0, <1>1 DEF QueuePut, TypeOK, ProcsTyped
  <2>3. PICK s \in Seq(Bufs) : s = queue[q]
    BY <1>0
  <2>4. queue'[q] = Append(s, buf[x]) /\ \A r \in PipeIds \ {q} : queue'[r] = queue[r]
    BY <2>1, <2>3, <1>0
  <2>5. /\ InQueue(q) = {s[i] : i \in 1..Len(s)}
        /\ InQueue(q)' = {Append(s, buf[x])[i] : i \in 1..Len(Append(s, buf[x]))}
    BY <2>3, <2>4 DEF InQueue
  <2>6. InQueue(q)' = InQueue(q) \cup {buf[x]}
    BY <2>2, <2>5, QueueAppend
  <2>7. p # q => InQueue(p)' = InQueue(p)
    BY <2>4, <1>0 DEF InQueue
  <2>8. b \in InQueue(p) => b \in InQueue(p)'
    BY <2>6, <2>7
  <2>9. buf[x] = b /\ p \in todo[x] => Travels(b, p)'
    <3>1. CASE p = q
      BY <3>1, <2>6 DEF Travels
    <3>2. CASE p # q
      <4>1. p \in todo[x] => p \in todo'[x]
        BY <3>2, <2>1, <2>2, <1>0
      <4> QED BY <4>1, <2>2 DEF Travels
    <3> QED BY <3>1, <3>2
  <2> QED BY <2>2, <2>8, <2>9, <1>1, <1>gen
<1>2. ASSUME NEW x \in Procs, QueueGet(x) \/ DrainGet(x), Local(x), QueueGet(x) => x \in Tasks
      PROVE Travels(b, p)'
  <2>1. /\ queue' = [queue EXCEPT ![pipe[x]] = Tail(@)] /\ queue[pipe[x]] # <<>> /\ pipe[x] \in PipeIds
        /\ buf' = [buf EXCEPT ![x] = Head(queue[pipe[x]])]
        /\ buf[x] = NULL
    BY <1>0, <1>2, <1>told DEF QueueGet, DrainGet, Hold, CallTold, Holding
  <2>2. PICK s \in Seq(Bufs) : s = queue[pipe[x]] /\ s # <<>>
    BY <1>0, <2>1
  <2>3. \A i, j \in 1..Len(s) : s[i] = s[j] => i = j
    BY <2>1, <2>2, <1>0 DEF QueuesDistinct
  <2>4. {Tail(s)[i] : i \in 1..Len(Tail(s))} = {s[i] : i \in 1..Len(s)} \ {Head(s)}
    BY <2>2, <2>3, QueueTail
  <2>5. b \in InQueue(p) => b \in InQueue(p)' \/ Travels(b, p)'
    <3>1. CASE pipe[x] # p
      <4>1. queue'[p] = queue[p]
        BY <3>1, <2>1, <1>0
      <4> QED BY <4>1 DEF InQueue
    <3>2. CASE pipe[x] = p
      <4>1. queue'[p] = Tail(s) /\ queue[p] = s
        BY <3>2, <2>1, <2>2, <1>0
      <4>5. /\ InQueue(p) = {s[i] : i \in 1..Len(s)}
            /\ InQueue(p)' = {Tail(s)[i] : i \in 1..Len(Tail(s))}
        BY <4>1 DEF InQueue
      <4>2. InQueue(p)' = InQueue(p) \ {Head(s)}
        BY <4>5, <2>4
      <4>3. x \in Tasks /\ pc'[x] = "export" /\ pipe'[x] = p
        <5>1. ~DrainGet(x)
          BY <3>2, <1>0, LiveSlots DEF DrainGet, Busy
        <5> QED BY <5>1, <3>2, <1>2, <1>0 DEF QueueGet, Goto
      <4>4. buf'[x] = Head(s)
        BY <2>1, <2>2, <1>0
      <4> QED BY <4>2, <4>3, <4>4 DEF Travels
    <3> QED BY <3>1, <3>2
  <2>6. buf[x] # b
    BY <2>1, <1>0
  <2> QED BY <2>5, <2>6, <1>2, <1>gen
<1>3. ASSUME NEW x \in Tasks, Arrives(x), Local(x)
      PROVE  Travels(b, p)' \/ (Arrives(x) /\ buf[x] = b /\ pipe[x] = p)
  <2>1. SUFFICES ASSUME ~(buf[x] = b /\ pipe[x] = p) PROVE Travels(b, p)'
    BY <1>3
  <2>2. x \in Procs /\ UNCHANGED queue
    BY <1>0, <1>3 DEF Arrives, UndoPut, ExportReference, queueVars
  <2>3. CASE UndoPut(x)
    <3>1. pc[x] = "undo" /\ buf'[x] = buf[x] /\ todo'[x] = todo[x] \ {pipe[x]}
      BY <2>2, <2>3, <1>0 DEF UndoPut
    <3>2. buf[x] = b /\ p \in todo[x] => Travels(b, p)'
      BY <3>1, <2>1 DEF Travels
    <3> QED BY <3>1, <3>2, <2>2, <1>3, <1>q, <1>gen
  <2>4. CASE ExportReference(x)
    <3>1. pc[x] = "export" /\ todo[x] = {}
      BY <2>2, <2>4, <1>told DEF ExportReference, CallTold, Sending
    <3> QED BY <3>1, <2>1, <2>2, <1>3, <1>q, <1>gen
  <2> QED BY <1>3, <2>3, <2>4 DEF Arrives
<1>4. ASSUME NEW x \in Tasks, QueuePutFails(x), Local(x) PROVE Travels(b, p)'
  <2>1. x \in Procs /\ pc[x] = "put" /\ UNCHANGED <<queue, buf, todo>>
    BY <1>0, <1>4 DEF QueuePutFails, queueVars
  <2>2. buf[x] = b /\ p \in todo[x] => Travels(b, p)'
    BY <2>1 DEF Travels
  <2> QED BY <2>1, <2>2, <1>4, <1>q, <1>gen
<1>5. ASSUME NEW x \in Procs, Local(x), UNCHANGED queue, todo[x] = {}, pc[x] # "export"
      PROVE  Travels(b, p)'
  BY <1>5, <1>q, <1>gen
<1>6. ASSUME NEW x \in Procs, StepOf(x)
      PROVE  Travels(b, p)' \/ \E t \in Tasks : Arrives(t) /\ buf[t] = b /\ pipe[t] = p
  <2>1. Local(x)
    BY <1>0, <1>6, CallsStep
  <2>2. CASE x \in Tasks /\ (QueuePut(x) \/ QueuePutFails(x) \/ QueueGet(x) \/ Arrives(x))
    BY <2>1, <2>2, <1>1, <1>2, <1>3, <1>4, <1>0
  <2>3. CASE DrainGet(x)
    <3>1. QueueGet(x) => x \in Tasks
      BY <2>3 DEF DrainGet, QueueGet
    <3> QED BY <2>1, <2>3, <3>1, <1>2
  <2>4. CASE x \in Tasks /\ TransmitFinish(x)
    <3>1. UNCHANGED queue /\ todo[x] = {} /\ pc[x] # "export"
      BY <2>4 DEF TransmitFinish, queueVars
    <3> QED BY <3>1, <2>1, <1>5
  <2>5. ASSUME pc[x] \notin {"put", "undo", "export"}, UNCHANGED queue PROVE Travels(b, p)'
    <3>1. todo[x] = {}
      BY <2>5, <1>told DEF CallTold, Sending
    <3> QED BY <3>1, <2>1, <2>5, <1>5
  <2> QED BY <1>6, <2>2, <2>3, <2>4, <2>5 DEF StepOf, AllocateMessageBuffer, ReleaseMessageBuffer, ExitApp, Transmit,
       FindDestinations, Receive, ReceiveBuffer, QueueGetFails, UnlinkPipe, Arrives,
       Drain, DrainRelease, DrainEmpty, QueueDelete, FreePipe,
       Create, CreatePipe, QueueCreate, QueueCreateFails, PublishPipe, UnreservePipe, queueVars
<1>7. ASSUME NEW a \in Apps, ZeroCopyReleaseAppId(a) PROVE Travels(b, p)'
  <2>1. /\ UNCHANGED <<queue, pc, todo, pipe>>
        /\ \A t \in Tasks : pc[t] # "exit" => buf'[t] = buf[t]
    BY <1>7, <1>0 DEF ZeroCopyReleaseAppId, Exited, queueVars
  <2>2. \A t \in Tasks : pc[t] = "exit" => todo[t] = {}
    BY <1>0, <1>told DEF CallTold, Sending
  <2> QED BY <2>1, <2>2, <1>q DEF Travels
<1>8. ASSUME ConfigStep \/ UNCHANGED vars PROVE Travels(b, p)'
  <2>1. UNCHANGED <<pc, buf, todo, pipe, queue>>
    BY <1>8, ConfigLocal DEF vars, procVars, queueVars
  <2> QED BY <2>1, <1>q DEF Travels
<1> QED BY <1>6, <1>7, <1>8, StepKinds

\* What the steps do to the count of the subscription of p to m: only a
\* transmission within the limit raises it, and a message that arrives while
\* the pipe is on the route lowers it.
LEMMA CountSteps ==
  ASSUME TypeOK, [Next]_vars, NEW m \in MsgIds, NEW p \in PipeIds
  PROVE  /\ \/ BuffCount'[m][p] <= BuffCount[m][p]
            \/ \E t \in Tasks : /\ FindDestinations(t, m) /\ p \in WithinLimit(t, m)
                                /\ BuffCount'[m][p] = BuffCount[m][p] + 1
         /\ \A t \in Tasks : /\ Arrives(t) /\ pipe[t] = p /\ MsgId[buf[t]] = m
                             /\ p \in Subs[m] /\ PipeDescIsMatch(p)
              => BuffCount'[m][p] = Decr(BuffCount[m][p])
         /\ (p \notin Subs[m] => BuffCount[m][p] = 0) =>
              (p \notin Subs'[m] => BuffCount'[m][p] = 0)
<1>0. /\ BuffCount \in [MsgIds -> [PipeIds -> Nat]] /\ Subs \in [MsgIds -> SUBSET PipeIds]
      /\ BuffCount[m][p] \in Nat
  BY DEF TypeOK, RoutesTyped
<1> DEFINE Lower == BuffCount'[m][p] <= BuffCount[m][p]
           Charged == \E t \in Tasks : /\ FindDestinations(t, m) /\ p \in WithinLimit(t, m)
                                       /\ BuffCount'[m][p] = BuffCount[m][p] + 1
           Off  == p \notin Subs[m] => BuffCount[m][p] = 0
           Off1 == p \notin Subs'[m] => BuffCount'[m][p] = 0
<1>dest. ASSUME NEW n, NEW q \in PipeIds, BuffCount' = UnchargeDest(n, q), Subs' = Subs
         PROVE  /\ Lower /\ (Off => Off1)
                /\ n = m /\ q = p /\ p \in Subs[m] => BuffCount'[m][p] = Decr(BuffCount[m][p])
  <2>1. CASE n = m /\ q = p /\ p \in Subs[m]
    <3>1. BuffCount' = [BuffCount EXCEPT ![m][p] = Decr(@)]
      BY <1>dest, <2>1 DEF UnchargeDest
    <3>2. BuffCount'[m][p] = Decr(BuffCount[m][p])
      BY <3>1, <1>0
    <3> QED BY <3>2, <2>1, <1>0, <1>dest DEF Decr
  <2>2. CASE ~(n = m /\ q = p /\ p \in Subs[m])
    <3>1. BuffCount'[m][p] = BuffCount[m][p]
      <4>1. CASE q \notin Subs[n]
        BY <4>1, <1>dest DEF UnchargeDest
      <4>2. CASE q \in Subs[n]
        <5>1. BuffCount' = [BuffCount EXCEPT ![n][q] = Decr(@)] /\ ~(n = m /\ q = p)
          BY <4>2, <2>2, <1>dest DEF UnchargeDest
        <5> HIDE DEF Lower, Charged, Off, Off1
        <5>2. n # m => BuffCount'[m] = BuffCount[m]
          BY <5>1, <1>0
        <5>3. n = m => BuffCount'[m] = [BuffCount[m] EXCEPT ![q] = Decr(@)]
          BY <5>1, <1>0
        <5> QED BY <5>1, <5>2, <5>3, <1>0
      <4> QED BY <4>1, <4>2
    <3> QED BY <3>1, <2>2, <1>0, <1>dest
  <2> QED BY <2>1, <2>2
<1>same. ASSUME BuffCount' = BuffCount, Subs[m] \subseteq Subs'[m] PROVE Lower /\ (Off => Off1)
  BY <1>same, <1>0
<1>1. ASSUME NEW t \in Tasks, NEW n \in MsgIds, FindDestinations(t, n)
      PROVE  (Lower \/ Charged) /\ (Off => Off1)
  <2>1. /\ BuffCount' = [BuffCount EXCEPT ![n] =
              [q \in PipeIds |-> IF q \in WithinLimit(t, n) THEN @[q] + 1 ELSE @[q]]]
        /\ Subs' = Subs /\ WithinLimit(t, n) \subseteq Subs[n]
    BY <1>1 DEF FindDestinations, WithinLimit, Destinations
  <2>2. n # m => BuffCount'[m] = BuffCount[m]
    BY <2>1, <1>0
  <2>3. n = m => BuffCount'[m][p] = IF p \in WithinLimit(t, m) THEN BuffCount[m][p] + 1 ELSE BuffCount[m][p]
    BY <2>1, <1>0
  <2>4. CASE n = m /\ p \in WithinLimit(t, m)
    BY <2>1, <2>3, <2>4, <1>1
  <2>5. CASE ~(n = m /\ p \in WithinLimit(t, m))
    <3>1. BuffCount'[m][p] = BuffCount[m][p]
      BY <2>2, <2>3, <2>5
    <3> QED BY <3>1, <2>1, <1>0
  <2> QED BY <2>4, <2>5
<1>pipe. pipe \in [Procs -> PipeIds] /\ Tasks \subseteq Procs
  BY DEF TypeOK, ProcsTyped, Procs
<1>2. ASSUME NEW t \in Tasks, Arrives(t)
      PROVE  /\ Lower /\ (Off => Off1)
             /\ /\ pipe[t] = p /\ MsgId[buf[t]] = m /\ p \in Subs[m] /\ PipeDescIsMatch(p)
                => BuffCount'[m][p] = Decr(BuffCount[m][p])
  <2>1. /\ Subs' = Subs
        /\ \/ BuffCount' = UnchargeDest(MsgId[buf[t]], pipe[t])
           \/ BuffCount' = BuffCount /\ ~PipeDescIsMatch(pipe[t])
    BY <1>2 DEF Arrives, UndoPut, ExportReference
  <2>2. pipe[t] \in PipeIds
    BY <1>pipe
  <2> QED BY <2>1, <2>2, <1>dest, <1>same
<1>3. ASSUME NEW x \in Procs, NEW q \in PipeIds, NEW app, UnlinkPipe(x, q, app) PROVE Lower /\ (Off => Off1)
  <2>1. /\ Subs' = [n \in MsgIds |-> Subs[n] \ {q}]
        /\ BuffCount' = [n \in MsgIds |-> [BuffCount[n] EXCEPT ![q] = 0]]
    BY <1>3 DEF UnlinkPipe, RemovePipeFromRoutes
  <2>2. BuffCount'[m][p] = (IF p = q THEN 0 ELSE BuffCount[m][p]) /\ Subs'[m] = Subs[m] \ {q}
    BY <2>1, <1>0
  <2> QED BY <2>2, <1>0
<1>4. ASSUME NEW t \in Tasks, NEW n \in MsgIds, NEW q \in PipeIds, Unsubscribe(t, n, q)
      PROVE  Lower /\ (Off => Off1)
  <2>1. /\ Subs' = [Subs EXCEPT ![n] = @ \ {q}]
        /\ BuffCount' = [BuffCount EXCEPT ![n][q] = 0]
    BY <1>4 DEF Unsubscribe
  <2>2. n # m => BuffCount'[m] = BuffCount[m] /\ Subs'[m] = Subs[m]
    BY <2>1, <1>0
  <2>3. n = m => BuffCount'[m] = [BuffCount[m] EXCEPT ![q] = 0] /\ Subs'[m] = Subs[m] \ {q}
    BY <2>1, <1>0
  <2>4. n = m => BuffCount'[m][p] = IF p = q THEN 0 ELSE BuffCount[m][p]
    BY <2>3, <1>0
  <2> QED BY <2>2, <2>3, <2>4, <1>0
<1>5. ASSUME NEW t \in Tasks, NEW n \in MsgIds, NEW q \in PipeIds, Subscribe(t, n, q)
      PROVE  Lower /\ (Off => Off1)
  <2>1. BuffCount' = BuffCount /\ (Subs' = Subs \/ Subs' = [Subs EXCEPT ![n] = @ \cup {q}])
    BY <1>5 DEF Subscribe
  <2>2. Subs[m] \subseteq Subs'[m]
    BY <2>1, <1>0
  <2> QED BY <2>1, <2>2, <1>same
<1>6. ASSUME NEW x \in Procs, StepOf(x), ~(x \in Tasks /\ Arrives(x)) PROVE (Lower \/ Charged) /\ (Off => Off1)
  <2>1. CASE x \in Tasks /\ \E n \in MsgIds : FindDestinations(x, n)
    BY <2>1, <1>1
  <2>2. CASE \E q \in PipeIds : \E app \in Apps : UnlinkPipe(x, q, app)
    BY <2>2, <1>3
  <2>3. CASE BuffCount' = BuffCount /\ Subs' = Subs
    BY <2>3, <1>same
  <2> HIDE DEF Lower, Charged, Off, Off1
  <2> QED BY <1>6, <2>1, <2>2, <2>3 DEF StepOf, AllocateMessageBuffer, ReleaseMessageBuffer, ExitApp, Transmit,
       QueuePut, QueuePutFails, TransmitFinish, Receive, ReceiveBuffer, QueueGet, QueueGetFails, Arrives,
       Drain, DrainRelease, DrainGet, DrainEmpty, QueueDelete, FreePipe,
       Create, CreatePipe, QueueCreate, QueueCreateFails, PublishPipe, UnreservePipe, routeVars
<1>7. ASSUME ConfigStep PROVE Lower /\ (Off => Off1)
  <2>1. CASE Command \/ \E t \in Tasks, q \in PipeIds, ignore \in BOOLEAN : SetPipeOpts(t, q, ignore)
    <3>1. BuffCount' = BuffCount /\ Subs' = Subs
      BY <2>1 DEF Command, EnableRoute, DisableRoute, SetPipeOpts, routeVars
    <3> QED BY <3>1, <1>same
  <2> HIDE DEF Lower, Off, Off1
  <2> QED BY <1>4, <1>5, <1>7, <2>1 DEF ConfigStep
<1>8. ASSUME UNCHANGED vars \/ \E a \in Apps : ZeroCopyReleaseAppId(a) PROVE Lower /\ (Off => Off1)
  <2>1. BuffCount' = BuffCount /\ Subs' = Subs
    BY <1>8 DEF ZeroCopyReleaseAppId, vars, routeVars
  <2> QED BY <2>1, <1>same
<1>9. (Lower \/ Charged) /\ (Off => Off1)
  <2> HIDE DEF Lower, Charged, Off, Off1
  <2> QED BY <1>2, <1>6, <1>7, <1>8, StepKinds
<1> QED BY <1>2, <1>9

\* A pipe that is not on the route of a message has no count: a subscription
\* starts from zero, and giving one up forgets what was in transit.
OffRoute == \A m \in MsgIds : \A p \in PipeIds : p \notin Subs[m] => BuffCount[m][p] = 0

\* The invariant behind the message limit.
LimitInv == UseInv /\ OffRoute /\ LimitNotOvercounted

\* One task at a time takes a buffer off a pipe.
LEMMA OneArrival ==
  ASSUME TypeOK, CallsTold, NEW t \in Tasks, NEW u \in Tasks, Arrives(t), Arrives(u) PROVE t = u
<1>1. t \in Procs /\ u \in Procs /\ pc \in [Procs -> PC]
  BY DEF Procs, TypeOK, ProcsTyped
<1>2. StepOf(t)
  BY DEF StepOf, Arrives, Transmit, Receive
<1>3. Local(t)
  BY <1>1, <1>2, CallsStep
<1>4. pc'[u] # pc[u]
  BY <1>1 DEF Arrives, UndoPut, ExportReference, Return, Goto
<1> QED BY <1>1, <1>3, <1>4 DEF Local

\* The count of every subscription stays within the limit and within what is
\* in transit, in every step.
LEMMA LimitStep == LimitInv /\ [Next]_vars => LimitInv'
<1> SUFFICES ASSUME LimitInv, [Next]_vars PROVE LimitInv'
  OBVIOUS
<1>0. /\ UseInv /\ UseInv' /\ TableInv /\ TypeOK /\ TypeOK' /\ CallsTold /\ OffRoute /\ LimitNotOvercounted
  BY UseInvStep DEF LimitInv, UseInv, BookInv, TableInv
<1>1. OffRoute'
  <2>1. ASSUME NEW m \in MsgIds, NEW p \in PipeIds PROVE p \notin Subs'[m] => BuffCount'[m][p] = 0
    <3>1. p \notin Subs[m] => BuffCount[m][p] = 0
      BY <1>0 DEF OffRoute
    <3> QED BY <3>1, <1>0, CountSteps
  <2> QED BY <2>1 DEF OffRoute
<1>2. ASSUME NEW m \in MsgIds, NEW p \in Subs'[m]
      PROVE  BuffCount'[m][p] <= MsgLim /\ BuffCount'[m][p] <= Cardinality(InTransit(m, p)')
  <2>1. /\ p \in PipeIds /\ MsgLim \in Nat
        /\ BuffCount[m][p] \in Nat /\ BuffCount'[m][p] \in Nat
    BY <1>0, SBAssumption DEF TypeOK, RoutesTyped
  <2>fin. /\ \A S : S \subseteq Bufs => IsFiniteSet(S) /\ Cardinality(S) \in Nat
    BY SBAssumption, FS_Subset, FS_CardinalityType
  <2>sub. ASSUME NEW S, NEW U, S \subseteq U, U \subseteq Bufs PROVE Cardinality(S) <= Cardinality(U)
    <3>1. IsFiniteSet(U)
      BY <2>sub, <2>fin
    <3> QED BY <3>1, <2>sub, FS_Subset
  <2> DEFINE T  == InTransit(m, p)
             T1 == InTransit(m, p)'
  <2>2. T \subseteq Bufs /\ T1 \subseteq Bufs
    BY DEF InTransit
  <2>mem. /\ \A b \in Bufs : b \in T <=> MsgId[b] = m /\ Travels(b, p)
          /\ \A b \in Bufs : b \in T1 <=> MsgId'[b] = m /\ Travels(b, p)'
    BY DEF InTransit, Travels
  <2>3. \/ BuffCount'[m][p] <= BuffCount[m][p]
        \/ \E t \in Tasks : /\ FindDestinations(t, m) /\ p \in WithinLimit(t, m)
                            /\ BuffCount'[m][p] = BuffCount[m][p] + 1
    BY <1>0, <2>1, CountSteps
  <2> HIDE DEF T, T1
  <2>4. CASE p \notin Subs[m]
    <3>1. BuffCount[m][p] = 0
      BY <2>1, <2>4, <1>0 DEF OffRoute
    <3>2. \A t : p \notin WithinLimit(t, m)
      BY <2>4 DEF WithinLimit, Destinations
    <3>3. BuffCount'[m][p] = 0
      BY <3>1, <3>2, <2>1, <2>3
    <3>4. Cardinality(T1) \in Nat
      BY <2>2, <2>fin
    <3> QED BY <3>3, <3>4, <2>1 DEF T1
  <2>5. CASE p \in Subs[m]
    <3>1. p \in LivePipes /\ PipeDescIsMatch(p)
      BY <2>5, <1>0 DEF TableInv, RoutesLive, LivePipes
    <3>2. PICK n \in Nat : n = Cardinality(T)
      BY <2>2, <2>fin
    <3>3. PICK n1 \in Nat : n1 = Cardinality(T1)
      BY <2>2, <2>fin
    <3>4. BuffCount[m][p] <= MsgLim /\ BuffCount[m][p] <= n
      BY <2>5, <3>2, <1>0 DEF LimitNotOvercounted, T
    <3>5. \A b \in T : MsgId'[b] = m
      BY <2>1, <2>2, <2>mem, <1>0, TravelsKeepsMsg
    <3>6. \A b \in T : b \in T1 \/ \E t \in Tasks : Arrives(t) /\ buf[t] = b /\ pipe[t] = p
      BY <3>1, <3>5, <2>2, <2>mem, <1>0, TravelsStep
    <3>7. ASSUME NEW t \in Tasks, Arrives(t), pipe[t] = p, MsgId[buf[t]] = m
          PROVE  BuffCount'[m][p] <= MsgLim /\ BuffCount'[m][p] <= n1
      <4>1. BuffCount'[m][p] = Decr(BuffCount[m][p])
        BY <1>0, <2>1, <2>5, <3>1, <3>7, CountSteps
      <4>2. T \ {buf[t]} \subseteq T1
        <5>1. \A u \in Tasks : Arrives(u) => u = t
          BY <1>0, <3>7, OneArrival
        <5> QED BY <5>1, <3>6
      <4>3. Cardinality(T \ {buf[t]}) >= n - 1 /\ Cardinality(T \ {buf[t]}) \in Nat
        <5>1. IsFiniteSet(T)
          BY <2>2, <2>fin
        <5>2. CASE buf[t] \in T
          BY <5>1, <5>2, <3>2, <2>2, <2>fin, FS_RemoveElement
        <5>3. CASE buf[t] \notin T
          <6>1. T \ {buf[t]} = T
            BY <5>3
          <6> QED BY <6>1, <3>2
        <5> QED BY <5>2, <5>3
      <4>4. Cardinality(T \ {buf[t]}) <= n1
        BY <4>2, <2>2, <2>sub, <3>3
      <4>5. PICK c \in Nat : c = BuffCount[m][p]
        BY <2>1
      <4>6. n - 1 <= n1
        BY <4>3, <4>4
      <4>7. c <= MsgLim /\ c <= n /\ BuffCount'[m][p] = Decr(c)
        BY <4>1, <4>5, <3>4
      <4>8. Decr(c) <= MsgLim /\ Decr(c) <= n1
        BY <4>6, <4>7, <2>1 DEF Decr
      <4> QED BY <4>7, <4>8
    <3>8. ASSUME \A t \in Tasks : ~(Arrives(t) /\ pipe[t] = p /\ MsgId[buf[t]] = m)
          PROVE  BuffCount'[m][p] <= MsgLim /\ BuffCount'[m][p] <= n1
      <4>1. T \subseteq T1
        BY <3>6, <3>8, <2>2, <2>mem
      <4>2. n <= n1
        BY <4>1, <2>2, <2>sub, <3>2, <3>3
      <4>3. CASE BuffCount'[m][p] <= BuffCount[m][p]
        BY <4>2, <4>3, <3>4, <2>1
      <4>4. ASSUME NEW t \in Tasks, FindDestinations(t, m), p \in WithinLimit(t, m),
                   BuffCount'[m][p] = BuffCount[m][p] + 1
            PROVE  BuffCount'[m][p] <= MsgLim /\ BuffCount'[m][p] <= n1
        <5>1. /\ pc[t] = "own" /\ buf'[t] = buf[t] /\ todo' = [todo EXCEPT ![t] = WithinLimit(t, m)]
              /\ MsgId' = [MsgId EXCEPT ![buf[t]] = m]
          BY <4>4 DEF FindDestinations
        <5>2. buf[t] \in Bufs /\ buf[t] \notin T
          BY <5>1, <1>0, <2>1, <2>mem, OwnStays
        <5>3. buf[t] \in T1
          <6>1. MsgId'[buf[t]] = m /\ p \in todo'[t]
            BY <5>1, <5>2, <4>4, <1>0 DEF TypeOK, BufsTyped, ProcsTyped, Procs
          <6>2. PICK b \in Bufs : b = buf[t]
            BY <5>2
          <6>3. Travels(b, p)'
            BY <5>1, <6>1, <6>2 DEF Travels
          <6>4. b \in T1
            BY <6>1, <6>2, <6>3, <2>mem
          <6> QED BY <6>2, <6>4
        <5>4. Cardinality(T \cup {buf[t]}) = n + 1
          BY <5>2, <3>2, <2>2, <2>fin, FS_AddElement
        <5>5. n + 1 <= n1
          BY <4>1, <5>3, <5>4, <2>2, <2>sub, <3>3
        <5>6. BuffCount[m][p] < MsgLim
          BY <4>4 DEF WithinLimit
        <5> QED BY <4>4, <5>5, <5>6, <3>4, <2>1
      <4> QED BY <4>3, <4>4, <2>3
    <3> QED BY <3>3, <3>7, <3>8 DEF T1
  <2> QED BY <2>4, <2>5
<1>3. LimitNotOvercounted'
  BY <1>2 DEF LimitNotOvercounted
<1> QED BY <1>0, <1>1, <1>3 DEF LimitInv

\* Nobody is subscribed to anything in the beginning.
LEMMA LimitInit == Init => LimitInv
<1> SUFFICES ASSUME Init PROVE LimitInv
  OBVIOUS
<1>1. OffRoute /\ LimitNotOvercounted
  BY DEF Init, OffRoute, LimitNotOvercounted
<1> QED BY <1>1, UseInvInit DEF LimitInv

\* A subscriber never has more messages of a kind counted against it than its
\* limit, nor more than really are on their way to it: a failed write, a
\* subscription given up and taken again, or a deleted pipe never makes
\* CFE_SB_TransmitTxn_FindDestinations refuse a message for messages that are
\* not there.
THEOREM LimitSound == Spec => []LimitNotOvercounted
<1>1. LimitInv => LimitNotOvercounted
  BY DEF LimitInv
<1> QED BY <1>1, LimitInit, LimitStep, PTL DEF Spec
=============================================================================
