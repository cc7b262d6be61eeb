---------------------------- MODULE SoftwareBus ----------------------------
(***************************************************************************)
(* The cFE Software Bus (cfe/modules/sb): publish/subscribe messaging by   *)
(* reference-counted buffers.                                              *)
(*                                                                         *)
(* Every task of every application calls the SB API on its own stack.  The *)
(* SB mutex (CFE_SB_LockSharedData) protects the pipe table, the routing   *)
(* table and the buffer descriptors, but it is released around the OSAL    *)
(* queue calls and between the phases of an operation.  One action of this *)
(* module is one lock..unlock region or one OSAL queue call, so every      *)
(* interleaving of API calls that the mutex allows is a behaviour.         *)
(*                                                                         *)
(* Abstractions.  A message is its MsgId; a buffer is an element of Bufs;  *)
(* the linked list of destinations of a route is the set Subs[m], so the   *)
(* order in which one message is offered to its destinations is left open  *)
(* (the code walks the list head first).  The OSAL queue of a pipe is      *)
(* named by the pipe id it was created for: CreatePipe calls               *)
(* OS_QueueCreate once for each id it reserves, and never reuses an id.    *)
(* TransmitMsg is AllocateMessageBuffer followed by FindDestinations: the  *)
(* two critical sections are those of the zero-copy API.  Events, peak     *)
(* values and the error counters of the housekeeping packet, which no SB   *)
(* code reads back, are left out.                                          *)
(***************************************************************************)
EXTENDS Integers, FiniteSets, Sequences

CONSTANTS
  Tasks,      \* tasks that call the SB API
  Apps,       \* applications (CFE_ES_AppId_t)
  AppOf,      \* the application each task belongs to
  ES,         \* the ES background task, which cleans up exited applications
  MsgIds,     \* valid message ids
  Bufs,       \* the buffers the SB memory pool can hold
  NULL,       \* no buffer, no application, no message id
  MaxPipes,   \* CFE_PLATFORM_SB_MAX_PIPES
  MaxRoutes,  \* CFE_PLATFORM_SB_MAX_MSG_IDS
  MaxDest,    \* CFE_PLATFORM_SB_MAX_DEST_PER_PKT
  Depth,      \* depth of every pipe (argument of CFE_SB_CreatePipe)
  MsgLim,     \* message limit of every subscription
  MaxPipeId   \* model bound: the number of pipe ids that are ever issued

ASSUME SBAssumption ==
  /\ AppOf \in [Tasks -> Apps]
  /\ ES \notin Tasks
  /\ NULL \notin Bufs /\ NULL \notin Apps /\ NULL \notin MsgIds
  /\ MaxPipes \in Nat \ {0} /\ MaxRoutes \in Nat \ {0} /\ MaxDest \in Nat \ {0}
  /\ Depth \in Nat \ {0} /\ MsgLim \in Nat /\ MaxPipeId \in Nat \ {0}
  /\ IsFiniteSet(Bufs) /\ IsFiniteSet(Tasks) /\ IsFiniteSet(MsgIds)

VARIABLES
  pipeTbl,            \* CFE_SB_Global.PipeTbl
  lastPipeId,         \* CFE_SB_Global.LastPipeId
  pipesInUse,         \* StatTlmMsg.Payload.PipesInUse
  Routes,             \* MsgIds that have a route (CFE_SBR_RDATA)
  Subs,               \* Subs[m]: pipes on the destination list of m
  Inactive,           \* Inactive[m]: those of them disabled by command
  BuffCount,          \* BuffCount[m][p]: DestPtr->BuffCount
  subscriptionsInUse, \* StatTlmMsg.Payload.SubscriptionsInUse
  UseCount,           \* UseCount[b]; zero: b is in the memory pool
  Owner,              \* Owner[b]: AppId of a zero-copy buffer, else NULL
  MsgId,              \* MsgId[b]: the message a buffer carries
  queue,              \* queue[p]: contents of the OSAL queue of p
  qOpen,              \* ids of the OSAL queues that exist
  pc,                 \* where each process is in its API call
  buf,                \* the buffer reference each process holds
  todo,               \* pipes a transmitter still has to write to
  pipe                \* the pipe a process operates on

pipeVars  == <<pipeTbl, lastPipeId, pipesInUse>>
routeVars == <<Routes, Subs, Inactive, BuffCount, subscriptionsInUse>>
bufVars   == <<UseCount, Owner, MsgId>>
queueVars == <<queue, qOpen>>
procVars  == <<pc, buf, todo, pipe>>
vars      == <<pipeVars, routeVars, bufVars, queueVars, procVars>>

FREE     == 0     \* CFE_RESOURCEID_UNDEFINED
RESERVED == -1    \* CFE_RESOURCEID_RESERVED

Procs   == Tasks \cup {ES}
PipeIds == 1..MaxPipeId
Slots   == 0..(MaxPipes - 1)

(***************************************************************************)
(* State helpers.                                                          *)
(***************************************************************************)
\* CFE_SB_LocatePipeDescByID
Slot(p) == p % MaxPipes

\* CFE_SB_PipeDescIsMatch
PipeDescIsMatch(p) == pipeTbl[Slot(p)].id = p

\* A pipe of the table that is neither free nor reserved.
LivePipes == {p \in PipeIds : PipeDescIsMatch(p)}

\* Elements of an OSAL queue.
InQueue(p) == {queue[p][i] : i \in 1..Len(queue[p])}

\* CFE_SB_DecrBufUseCnt on a count of uses: a buffer whose count reaches
\* zero goes back to the pool, and a count of zero is left alone.
MutDecr(n) == n - 1
Decr(n) == IF n > 0 THEN n - 1 ELSE n

DecrBufUseCnt(b) == [UseCount EXCEPT ![b] = Decr(@)]

\* Both counters of the destination (m, p) are decremented only where they
\* are positive, and only for a destination that is still on the route.
MutUnchargeDest(m, p) == BuffCount
UnchargeDest(m, p) ==
  IF p \in Subs[m] THEN [BuffCount EXCEPT ![m][p] = Decr(@)] ELSE BuffCount

MutUnchargePipe(p) == pipeTbl
UnchargePipe(p) == [pipeTbl EXCEPT ![Slot(p)].depth = Decr(@)]

Goto(x, l) == pc' = [pc EXCEPT ![x] = l]

\* An API call returns to the application and its locals are gone.
NoPipe    == 1
Return(x) == Goto(x, "idle") /\ pipe' = [pipe EXCEPT ![x] = NoPipe]
Hold(x, b) == buf' = [buf EXCEPT ![x] = b]

(***************************************************************************)
(* Buffers: CFE_SB_AllocateMessageBuffer, CFE_SB_ReleaseMessageBuffer.     *)
(***************************************************************************)
AllocateMessageBuffer(t) ==
  /\ pc[t] = "idle"
  /\ \E b \in Bufs :
       /\ UseCount[b] = 0
       /\ UseCount' = [UseCount EXCEPT ![b] = 1]
       /\ Owner' = [Owner EXCEPT ![b] = AppOf[t]]
       /\ MsgId' = [MsgId EXCEPT ![b] = NULL]
       /\ Hold(t, b)
  /\ Goto(t, "own")
  /\ UNCHANGED <<pipeVars, routeVars, queueVars, todo, pipe>>

ReleaseMessageBuffer(t) ==
  /\ pc[t] = "own"
  /\ UseCount' = DecrBufUseCnt(buf[t])
  /\ Owner' = [Owner EXCEPT ![buf[t]] = NULL]
  /\ Hold(t, NULL)
  /\ Return(t)
  /\ UNCHANGED <<pipeVars, routeVars, MsgId, queueVars, todo>>

(***************************************************************************)
(* Transmit: CFE_SB_TransmitTxn_Execute.                                   *)
(***************************************************************************)
\* The destinations a message m sent by task t is offered to: active, on a
\* pipe that exists, and not the sender's own pipe with IGNOREMINE set.
Destinations(t, m) ==
  {p \in Subs[m] \ Inactive[m] :
     /\ PipeDescIsMatch(p)
     /\ ~(pipeTbl[Slot(p)].ignoreMine /\ pipeTbl[Slot(p)].app = AppOf[t])}

\* Those whose message limit is not reached; the others get an error event.
WithinLimit(t, m) == {p \in Destinations(t, m) : BuffCount[m][p] < MsgLim}

\* CFE_SB_TransmitTxn_FindDestinations: depth, limit and use counts are
\* charged here, under the lock, in anticipation of the queue writes.
FindDestinations(t, m) ==
  LET dests == WithinLimit(t, m) IN
  /\ pc[t] = "own"
  /\ todo' = [todo EXCEPT ![t] = dests]
  /\ UseCount' = [UseCount EXCEPT ![buf[t]] = @ + Cardinality(dests)]
  /\ BuffCount' = [BuffCount EXCEPT ![m] =
                     [p \in PipeIds |-> IF p \in dests THEN @[p] + 1 ELSE @[p]]]
  /\ pipeTbl' = [s \in Slots |->
                   IF pipeTbl[s].id \in dests
                   THEN [pipeTbl[s] EXCEPT !.depth = @ + 1] ELSE pipeTbl[s]]
  /\ Owner' = [Owner EXCEPT ![buf[t]] = NULL]
  /\ MsgId' = [MsgId EXCEPT ![buf[t]] = m]
  /\ Goto(t, "put")
  /\ UNCHANGED <<lastPipeId, pipesInUse, Routes, Subs, Inactive,
                 subscriptionsInUse, queueVars, buf, pipe>>

\* CFE_SB_TransmitTxn_PipeHandler: OS_QueuePut, outside the lock.
QueuePut(t) ==
  /\ pc[t] = "put"
  /\ \E p \in todo[t] :
       /\ p \in qOpen /\ Len(queue[p]) < Depth
       /\ queue' = [queue EXCEPT ![p] = Append(@, buf[t])]
       /\ todo' = [todo EXCEPT ![t] = @ \ {p}]
  /\ UNCHANGED <<pipeVars, routeVars, bufVars, qOpen, pc, buf, pipe>>

\* OS_QueuePut fails: the queue is full, or it has been deleted.
QueuePutFails(t) ==
  /\ pc[t] = "put"
  /\ \E p \in todo[t] :
       /\ p \notin qOpen \/ Len(queue[p]) >= Depth
       /\ pipe' = [pipe EXCEPT ![t] = p]
  /\ Goto(t, "undo")
  /\ UNCHANGED <<pipeVars, routeVars, bufVars, queueVars, buf, todo>>

\* ... and the optimistic accounting is undone under the lock.
MutUndoPut(t) ==
  LET p == pipe[t] IN
  /\ pc[t] = "undo"
  /\ pipeTbl' = IF PipeDescIsMatch(p) THEN UnchargePipe(p) ELSE pipeTbl
  /\ BuffCount' = UnchargeDest(MsgId[buf[t]], p)
  /\ Goto(t, "put")
  /\ UNCHANGED <<lastPipeId, pipesInUse, Routes, Subs, Inactive, todo, UseCount,
                 subscriptionsInUse, Owner, MsgId, queueVars, buf, pipe>>
UndoPut(t) ==
  LET p == pipe[t] IN
  /\ pc[t] = "undo"
  /\ pipeTbl' = IF PipeDescIsMatch(p) THEN UnchargePipe(p) ELSE pipeTbl
  /\ BuffCount' = UnchargeDest(MsgId[buf[t]], p)
  /\ UseCount' = DecrBufUseCnt(buf[t])
  /\ todo' = [todo EXCEPT ![t] = @ \ {p}]
  /\ Goto(t, "put")
  /\ UNCHANGED <<lastPipeId, pipesInUse, Routes, Subs, Inactive,
                 subscriptionsInUse, Owner, MsgId, queueVars, buf, pipe>>

\* The sender's own reference is dropped last.
TransmitFinish(t) ==
  /\ pc[t] = "put" /\ todo[t] = {}
  /\ UseCount' = DecrBufUseCnt(buf[t])
  /\ Hold(t, NULL)
  /\ Return(t)
  /\ UNCHANGED <<pipeVars, routeVars, Owner, MsgId, queueVars, todo>>

(***************************************************************************)
(* Receive: CFE_SB_ReceiveBuffer.  The calls that fail validation change   *)
(* nothing and are stuttering steps.  One task reads a pipe, the one that  *)
(* created it: the code does not check this, but its note in               *)
(* CFE_SB_ReceiveTxn_SetPipeId rules out pipes shared by several readers.  *)
(* A message that fails its integrity check is dropped by calling          *)
(* ReceiveTxn_SetPipeId again and going back to the queue: what the same   *)
(* reader does by returning and calling CFE_SB_ReceiveBuffer once more.    *)
(***************************************************************************)
\* CFE_SB_ReceiveTxn_SetPipeId: the message of the previous call is let go.
MutReleaseLast(p) == UseCount
ReleaseLast(p) ==
  IF pipeTbl[Slot(p)].last = NULL THEN UseCount
  ELSE DecrBufUseCnt(pipeTbl[Slot(p)].last)

ReceiveBuffer(t, p) ==
  /\ pc[t] = "idle"
  /\ PipeDescIsMatch(p) /\ pipeTbl[Slot(p)].reader = t
  /\ UseCount' = ReleaseLast(p)
  /\ pipeTbl' = [pipeTbl EXCEPT ![Slot(p)].last = NULL]
  /\ pipe' = [pipe EXCEPT ![t] = p]
  /\ Goto(t, "get")
  /\ UNCHANGED <<lastPipeId, pipesInUse, routeVars, Owner, MsgId, queueVars,
                 buf, todo>>

\* CFE_SB_ReceiveTxn_PipeHandler: OS_QueueGet, outside the lock.
QueueGet(t) ==
  LET p == pipe[t] IN
  /\ pc[t] = "get"
  /\ p \in qOpen /\ queue[p] # <<>>
  /\ Hold(t, Head(queue[p]))
  /\ queue' = [queue EXCEPT ![p] = Tail(@)]
  /\ Goto(t, "export")
  /\ UNCHANGED <<pipeVars, routeVars, bufVars, qOpen, todo, pipe>>

\* Nothing there (CFE_SB_POLL, a timeout), or the queue has been deleted.
QueueGetFails(t) ==
  /\ pc[t] = "get"
  /\ pipe[t] \notin qOpen \/ queue[pipe[t]] = <<>>
  /\ Return(t)
  /\ UNCHANGED <<pipeVars, routeVars, bufVars, queueVars, buf, todo>>

\* CFE_SB_ReceiveTxn_ExportReference: the pipe is validated again; the
\* reference that was in the queue moves to LastBuffer, or is dropped when
\* the pipe was deleted in between.
ExportReference(t) ==
  LET p == pipe[t] IN
  /\ pc[t] = "export"
  /\ IF PipeDescIsMatch(p)
     THEN /\ pipeTbl' = [UnchargePipe(p) EXCEPT ![Slot(p)].last = buf[t]]
          /\ BuffCount' = UnchargeDest(MsgId[buf[t]], p)
          /\ UNCHANGED UseCount
     ELSE /\ UseCount' = DecrBufUseCnt(buf[t])
          /\ UNCHANGED <<pipeTbl, BuffCount>>
  /\ Hold(t, NULL)
  /\ Return(t)
  /\ UNCHANGED <<lastPipeId, pipesInUse, Routes, Subs, Inactive,
                 subscriptionsInUse, Owner, MsgId, queueVars, todo>>

(***************************************************************************)
(* CFE_SB_CreatePipe: reserve a descriptor under the lock, create the OSAL *)
(* queue outside it, publish the pipe (or give the descriptor back) under  *)
(* the lock again.                                                         *)
(***************************************************************************)
EmptyPipeDesc == [id |-> FREE, app |-> NULL, reader |-> NULL, last |-> NULL,
                  depth |-> 0, ignoreMine |-> FALSE]

\* The ids CFE_ResourceId_FindNext tries, the slot of which is free.
FreeIds == {i \in (lastPipeId + 1)..(lastPipeId + MaxPipes) :
              pipeTbl[Slot(i)].id = FREE}

CreatePipe(t) ==
  /\ pc[t] = "idle"
  /\ \E i \in FreeIds :
       /\ \A j \in FreeIds : i <= j
       /\ i \in PipeIds
       /\ pipeTbl' = [pipeTbl EXCEPT ![Slot(i)] = [EmptyPipeDesc EXCEPT !.id = RESERVED]]
       /\ lastPipeId' = i
       /\ pipe' = [pipe EXCEPT ![t] = i]
  /\ Goto(t, "create")
  /\ UNCHANGED <<pipesInUse, routeVars, bufVars, queueVars, buf, todo>>

QueueCreate(t) ==
  /\ pc[t] = "create"
  /\ qOpen' = qOpen \cup {pipe[t]}
  /\ Goto(t, "publish")
  /\ UNCHANGED <<pipeVars, routeVars, bufVars, queue, buf, todo, pipe>>

\* Name taken, or no free OSAL queue.
QueueCreateFails(t) ==
  /\ pc[t] = "create"
  /\ Goto(t, "unreserve")
  /\ UNCHANGED <<pipeVars, routeVars, bufVars, queueVars, buf, todo, pipe>>

PublishPipe(t) ==
  /\ pc[t] = "publish"
  /\ pipeTbl' = [pipeTbl EXCEPT ![Slot(pipe[t])].id = pipe[t],
                                ![Slot(pipe[t])].app = AppOf[t],
                                ![Slot(pipe[t])].reader = t]
  /\ pipesInUse' = pipesInUse + 1
  /\ Return(t)
  /\ UNCHANGED <<lastPipeId, routeVars, bufVars, queueVars, buf, todo>>

MutUnreservePipe(t) ==
  /\ pc[t] = "unreserve"
  /\ Return(t)
  /\ UNCHANGED <<pipeVars, routeVars, bufVars, queueVars, buf, todo>>
UnreservePipe(t) ==
  /\ pc[t] = "unreserve"
  /\ pipeTbl' = [pipeTbl EXCEPT ![Slot(pipe[t])].id = FREE]
  /\ Return(t)
  /\ UNCHANGED <<lastPipeId, pipesInUse, routeVars, bufVars, queueVars, buf,
                 todo>>

(***************************************************************************)
(* CFE_SB_DeletePipeFull, called by a task of the owner application or by  *)
(* ES on behalf of an application that has exited.                         *)
(***************************************************************************)
\* CFE_SB_RemovePipeFromRoute, for every route.
MutRemovePipeFromRoutes(p) ==
  UNCHANGED <<Subs, Inactive, BuffCount, subscriptionsInUse>>
RemovePipeFromRoutes(p) ==
  /\ Subs' = [m \in MsgIds |-> Subs[m] \ {p}]
  /\ Inactive' = [m \in MsgIds |-> Inactive[m] \ {p}]
  /\ BuffCount' = [m \in MsgIds |-> [BuffCount[m] EXCEPT ![p] = 0]]
  /\ subscriptionsInUse' =
       subscriptionsInUse - Cardinality({m \in MsgIds : p \in Subs[m]})

UnlinkPipe(x, p, app) ==
  /\ PipeDescIsMatch(p) /\ pipeTbl[Slot(p)].app = app
  /\ RemovePipeFromRoutes(p)
  /\ Hold(x, pipeTbl[Slot(p)].last)
  /\ pipeTbl' = [pipeTbl EXCEPT ![Slot(p)].id = RESERVED]
  /\ pipe' = [pipe EXCEPT ![x] = p]
  /\ Goto(x, "drain")
  /\ UNCHANGED <<lastPipeId, pipesInUse, Routes, bufVars, queueVars, todo>>

DeletePipe(t, p) ==
  /\ pc[t] = "idle"
  /\ UnlinkPipe(t, p, AppOf[t])

\* The messages left on the pipe are dropped one by one: the reference is
\* released under the lock, the next message is read outside it.
DrainRelease(x) ==
  /\ pc[x] = "drain" /\ buf[x] # NULL
  /\ UseCount' = DecrBufUseCnt(buf[x])
  /\ Hold(x, NULL)
  /\ UNCHANGED <<pipeVars, routeVars, Owner, MsgId, queueVars, pc, todo, pipe>>

DrainGet(x) ==
  /\ pc[x] = "drain" /\ buf[x] = NULL
  /\ queue[pipe[x]] # <<>>
  /\ Hold(x, Head(queue[pipe[x]]))
  /\ queue' = [queue EXCEPT ![pipe[x]] = Tail(@)]
  /\ UNCHANGED <<pipeVars, routeVars, bufVars, qOpen, pc, todo, pipe>>

DrainEmpty(x) ==
  /\ pc[x] = "drain" /\ buf[x] = NULL
  /\ queue[pipe[x]] = <<>>
  /\ Goto(x, "qdelete")
  /\ UNCHANGED <<pipeVars, routeVars, bufVars, queueVars, buf, todo, pipe>>

\* OS_QueueDelete: what is still in the queue can no longer be read.
QueueDelete(x) ==
  /\ pc[x] = "qdelete"
  /\ qOpen' = qOpen \ {pipe[x]}
  /\ Goto(x, "free")
  /\ UNCHANGED <<pipeVars, routeVars, bufVars, queue, buf, todo, pipe>>

MutFreePipe(x) ==
  /\ pc[x] = "free"
  /\ pipeTbl' = [pipeTbl EXCEPT ![Slot(pipe[x])].id = FREE]
  /\ Return(x)
  /\ UNCHANGED <<lastPipeId, pipesInUse, routeVars, bufVars, queueVars, buf, todo>>
FreePipe(x) ==
  /\ pc[x] = "free"
  /\ pipeTbl' = [pipeTbl EXCEPT ![Slot(pipe[x])].id = FREE]
  /\ pipesInUse' = pipesInUse - 1
  /\ Return(x)
  /\ UNCHANGED <<lastPipeId, routeVars, bufVars, queueVars, buf, todo>>

(***************************************************************************)
(* Routing: subscribe, unsubscribe, pipe options, route commands.          *)
(***************************************************************************)
\* CFE_SB_SubscribeFull.  The route is added first; no destination is added
\* to it for a duplicate, a full route, or when the pool has no block left.
Subscribe(t, m, p) ==
  /\ pc[t] = "idle"
  /\ PipeDescIsMatch(p) /\ pipeTbl[Slot(p)].app = AppOf[t]
  /\ m \in Routes \/ Cardinality(Routes) < MaxRoutes
  /\ Routes' = Routes \cup {m}
  /\ \/ UNCHANGED <<Subs, subscriptionsInUse>>
     \/ /\ p \notin Subs[m] /\ Cardinality(Subs[m]) < MaxDest
        /\ Subs' = [Subs EXCEPT ![m] = @ \cup {p}]
        /\ subscriptionsInUse' = subscriptionsInUse + 1
  /\ UNCHANGED <<pipeVars, Inactive, BuffCount, bufVars, queueVars, procVars>>

\* CFE_SB_UnsubscribeFull: the destination block is given back, and with it
\* the count of messages in transit to it.
Unsubscribe(t, m, p) ==
  /\ pc[t] = "idle"
  /\ PipeDescIsMatch(p) /\ pipeTbl[Slot(p)].app = AppOf[t]
  /\ p \in Subs[m]
  /\ Subs' = [Subs EXCEPT ![m] = @ \ {p}]
  /\ Inactive' = [Inactive EXCEPT ![m] = @ \ {p}]
  /\ BuffCount' = [BuffCount EXCEPT ![m][p] = 0]
  /\ subscriptionsInUse' = subscriptionsInUse - 1
  /\ UNCHANGED <<pipeVars, Routes, bufVars, queueVars, procVars>>

\* CFE_SB_SetPipeOpts
SetPipeOpts(t, p, ignore) ==
  /\ pc[t] = "idle"
  /\ PipeDescIsMatch(p) /\ pipeTbl[Slot(p)].app = AppOf[t]
  /\ pipeTbl' = [pipeTbl EXCEPT ![Slot(p)].ignoreMine = ignore]
  /\ UNCHANGED <<lastPipeId, pipesInUse, routeVars, bufVars, queueVars, procVars>>

\* CFE_SB_EnableRouteCmd and CFE_SB_DisableRouteCmd, from the ground.
EnableRoute(m, p) ==
  /\ PipeDescIsMatch(p) /\ p \in Subs[m]
  /\ Inactive' = [Inactive EXCEPT ![m] = @ \ {p}]
  /\ UNCHANGED <<pipeVars, Routes, Subs, BuffCount, subscriptionsInUse, bufVars,
                 queueVars, procVars>>

DisableRoute(m, p) ==
  /\ PipeDescIsMatch(p) /\ p \in Subs[m]
  /\ Inactive' = [Inactive EXCEPT ![m] = @ \cup {p}]
  /\ UNCHANGED <<pipeVars, Routes, Subs, BuffCount, subscriptionsInUse, bufVars,
                 queueVars, procVars>>

(***************************************************************************)
(* Application exit: the tasks of the application stop (CFE_ES_ExitApp)    *)
(* and ES calls CFE_SB_CleanUpApp, which deletes the application's pipes   *)
(* one by one and then releases the zero-copy buffers it still owns.       *)
(***************************************************************************)
ExitApp(t) ==
  /\ pc[t] \in {"idle", "own"}
  /\ Goto(t, "exit")
  /\ UNCHANGED <<pipeVars, routeVars, bufVars, queueVars, buf, todo, pipe>>

Exited(a) == \A t \in Tasks : AppOf[t] = a => pc[t] = "exit"

CleanUpPipe(a, p) ==
  /\ pc[ES] = "idle" /\ Exited(a)
  /\ UnlinkPipe(ES, p, a)

\* CFE_SB_ZeroCopyReleaseAppId, after the last pipe; the pointers of the
\* application's tasks die with the tasks, which ES deletes next.
ZeroCopyReleaseAppId(a) ==
  /\ pc[ES] = "idle" /\ Exited(a)
  /\ \A p \in LivePipes : pipeTbl[Slot(p)].app # a
  /\ \E b \in Bufs : UseCount[b] > 0 /\ Owner[b] = a
  /\ UseCount' = [b \in Bufs |->
                    IF UseCount[b] > 0 /\ Owner[b] = a THEN Decr(UseCount[b]) ELSE UseCount[b]]
  /\ buf' = [x \in Procs |-> IF x \in Tasks /\ AppOf[x] = a THEN NULL ELSE buf[x]]
  /\ UNCHANGED <<pipeVars, routeVars, Owner, MsgId, queueVars, pc, todo, pipe>>

-----------------------------------------------------------------------------
Init ==
  /\ pipeTbl = [s \in Slots |-> EmptyPipeDesc]
  /\ lastPipeId = 0
  /\ pipesInUse = 0
  /\ Routes = {}
  /\ Subs = [m \in MsgIds |-> {}]
  /\ Inactive = [m \in MsgIds |-> {}]
  /\ BuffCount = [m \in MsgIds |-> [p \in PipeIds |-> 0]]
  /\ subscriptionsInUse = 0
  /\ UseCount = [b \in Bufs |-> 0]
  /\ Owner = [b \in Bufs |-> NULL]
  /\ MsgId = [b \in Bufs |-> NULL]
  /\ queue = [p \in PipeIds |-> <<>>]
  /\ qOpen = {}
  /\ pc = [x \in Procs |-> "idle"]
  /\ buf = [x \in Procs |-> NULL]
  /\ todo = [x \in Procs |-> {}]
  /\ pipe = [x \in Procs |-> NoPipe]

Transmit(t) ==
  \/ \E m \in MsgIds : FindDestinations(t, m)
  \/ QueuePut(t) \/ QueuePutFails(t) \/ UndoPut(t) \/ TransmitFinish(t)

Receive(t) ==
  \/ \E p \in PipeIds : ReceiveBuffer(t, p)
  \/ QueueGet(t) \/ QueueGetFails(t) \/ ExportReference(t)

Create(t) ==
  CreatePipe(t) \/ QueueCreate(t) \/ QueueCreateFails(t) \/ PublishPipe(t)
  \/ UnreservePipe(t)

Drain(x) ==
  DrainRelease(x) \/ DrainGet(x) \/ DrainEmpty(x) \/ QueueDelete(x) \/ FreePipe(x)

Configure(t) ==
  \E p \in PipeIds :
    \/ \E m \in MsgIds : Subscribe(t, m, p) \/ Unsubscribe(t, m, p)
    \/ \E ignore \in BOOLEAN : SetPipeOpts(t, p, ignore)
    \/ DeletePipe(t, p)

Command == \E m \in MsgIds, p \in PipeIds : EnableRoute(m, p) \/ DisableRoute(m, p)

CleanUpApp ==
  \E a \in Apps : ZeroCopyReleaseAppId(a) \/ \E p \in PipeIds : CleanUpPipe(a, p)

TaskStep(t) ==
  \/ AllocateMessageBuffer(t) \/ ReleaseMessageBuffer(t)
  \/ Transmit(t) \/ Receive(t) \/ Create(t) \/ Configure(t)
  \/ ExitApp(t)

Next ==
  \/ \E t \in Tasks : TaskStep(t)
  \/ \E x \in Procs : Drain(x)
  \/ Command
  \/ CleanUpApp

Spec == Init /\ [][Next]_vars

\* A process goes on with the API call it is in the middle of.
InCall(t) ==
  \/ QueuePut(t) \/ QueuePutFails(t) \/ UndoPut(t) \/ TransmitFinish(t)
  \/ QueueGet(t) \/ QueueGetFails(t) \/ ExportReference(t)
  \/ QueueCreate(t) \/ QueueCreateFails(t) \/ PublishPipe(t) \/ UnreservePipe(t)
  \/ Drain(t)

(***************************************************************************)
(* Properties.                                                             *)
(***************************************************************************)
PC == {"idle", "own", "put", "undo", "get", "export", "create", "publish",
       "unreserve", "drain", "qdelete", "free", "exit"}

PipeDesc == [id : PipeIds \cup {FREE, RESERVED}, app : Apps \cup {NULL},
             reader : Tasks \cup {NULL}, last : Bufs \cup {NULL},
             depth : Nat, ignoreMine : BOOLEAN]

PipesTyped ==
  /\ pipeTbl \in [Slots -> PipeDesc]
  /\ lastPipeId \in 0..MaxPipeId
  /\ pipesInUse \in Int

RoutesTyped ==
  /\ Routes \in SUBSET MsgIds
  /\ Subs \in [MsgIds -> SUBSET PipeIds]
  /\ Inactive \in [MsgIds -> SUBSET PipeIds]
  /\ BuffCount \in [MsgIds -> [PipeIds -> Nat]]
  /\ subscriptionsInUse \in Int

BufsTyped ==
  /\ UseCount \in [Bufs -> Nat]
  /\ Owner \in [Bufs -> Apps \cup {NULL}]
  /\ MsgId \in [Bufs -> MsgIds \cup {NULL}]

QueuesTyped ==
  /\ queue \in [PipeIds -> Seq(Bufs)]
  /\ qOpen \in SUBSET PipeIds

ProcsTyped ==
  /\ pc \in [Procs -> PC]
  /\ buf \in [Procs -> Bufs \cup {NULL}]
  /\ todo \in [Procs -> SUBSET PipeIds]
  /\ pipe \in [Procs -> PipeIds]
  /\ \A t \in Tasks : pc[t] \in {"own", "put", "undo", "export"} => buf[t] # NULL

\* Every variable has its type: no count is ever below zero, a queue holds
\* buffers only, and a task in the middle of sending or receiving holds one.
TypeOK == PipesTyped /\ RoutesTyped /\ BufsTyped /\ QueuesTyped /\ ProcsTyped

\* The places a reference to buffer b can be: in the hands of a process, in
\* the write set of a transmitter, in a queue, in a pipe's LastBuffer.
ProcRefs(b)  == {x \in Procs : buf[x] = b}
TodoRefs(b)  == {r \in Procs \X PipeIds : buf[r[1]] = b /\ r[2] \in todo[r[1]]}
QueueRefs(b) == {p \in PipeIds : b \in InQueue(p)}
LastRefs(b)  == {p \in LivePipes : pipeTbl[Slot(p)].last = b}

\* UseCount is what cfe_sb_priv.h says it is, the number of references to
\* the buffer in the system, at every unlocked point of every interleaving
\* of transmit, receive, pipe deletion and application clean-up; so no
\* buffer that someone can still reach is ever back in the pool.  (A queue
\* holds a buffer at most once, so QueueRefs counts what it means to.)
UseCountExact ==
  /\ \A b \in Bufs :
       UseCount[b] = Cardinality(ProcRefs(b)) + Cardinality(TodoRefs(b))
                     + Cardinality(QueueRefs(b)) + Cardinality(LastRefs(b))
  /\ \A p \in PipeIds : \A i, j \in 1..Len(queue[p]) :
       queue[p][i] = queue[p][j] => i = j

\* CurrentQueueDepth, charged before the write and discharged after the read,
\* is the number of messages on their way to, on, or just off the pipe.
DepthExact ==
  \A p \in LivePipes :
    pipeTbl[Slot(p)].depth =
      Len(queue[p]) + Cardinality({t \in Tasks : p \in todo[t]})
      + Cardinality({t \in Tasks : pc[t] = "export" /\ pipe[t] = p})

\* Messages m in transit to pipe p: about to be written, queued, just read.
InTransit(m, p) ==
  {b \in Bufs :
     /\ MsgId[b] = m
     /\ \/ b \in InQueue(p)
        \/ \E t \in Tasks : buf[t] = b /\ p \in todo[t]
        \/ \E t \in Tasks : buf[t] = b /\ pc[t] = "export" /\ pipe[t] = p}

\* The count a subscription is limited by never exceeds the limit, nor the
\* messages really in transit: a subscriber is never refused a message for
\* messages that are not there (a failed write, a message unsubscribed from
\* or a deleted pipe gives its share back exactly once).
LimitNotOvercounted ==
  \A m \in MsgIds : \A p \in Subs[m] :
    /\ BuffCount[m][p] <= MsgLim
    /\ BuffCount[m][p] <= Cardinality(InTransit(m, p))

\* Every destination on a route is a live pipe, and every pipe that is live or
\* about to be has its OSAL queue: a transmitter that holds the lock finds no
\* stale route, whatever deletions and creations are half done.
RoutesLive ==
  /\ \A m \in MsgIds : Subs[m] \subseteq LivePipes
  /\ LivePipes \subseteq qOpen
  /\ \A t \in Tasks : pc[t] = "publish" => pipe[t] \in qOpen

\* The in-use figures of the statistics packet: a pipe counts from its
\* publication to the end of its deletion, a subscription while it is on a
\* route.
StatsExact ==
  /\ pipesInUse = Cardinality(LivePipes)
                  + Cardinality({x \in Procs : pc[x] \in {"drain", "qdelete", "free"}})
  /\ subscriptionsInUse =
       Cardinality({r \in MsgIds \X PipeIds : r[2] \in Subs[r[1]]})

\* A process that is in the middle of creating or deleting a pipe.
Busy(x) == pc[x] \in {"create", "publish", "unreserve", "drain", "qdelete", "free"}

\* A slot of the pipe table is reserved exactly while a process is creating
\* or deleting the pipe in it, and one process only: no slot is handed out
\* twice while the lock is released, and none stays reserved for ever.
ReservedByOne ==
  /\ \A s \in Slots :
       pipeTbl[s].id = RESERVED <=> \E x \in Procs : Busy(x) /\ Slot(pipe[x]) = s
  /\ \A x, y \in Procs :
       Busy(x) /\ Busy(y) /\ Slot(pipe[x]) = Slot(pipe[y]) => x = y

\* Every API call that does not wait for a message returns.  A transmitter
\* walks its destinations once even if their pipes go away under it, and a
\* deletion is not held up for ever by messages still being written: with the
\* routes gone only the transmitters that had already chosen the pipe write.
CallsReturn ==
  \A t \in Tasks :
    (Busy(t) \/ pc[t] \in {"put", "undo", "export"}) ~> (pc[t] = "idle")

\* Documented: deleting a pipe "cleans up all data structures associated with
\* the pipe", because with the route removed no new message is written to it.
DeletedPipeIsEmpty ==
  \A p \in PipeIds : p \notin qOpen => queue[p] = <<>>
=============================================================================
