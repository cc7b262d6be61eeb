# A TLA+ model of Bifrost Centurio

Bifrost Centurio is a flight software mission: NASA's core Flight System
(`cfe`, `osal`, `psp`) with a navigation application (`apps/centurio_nav`), a
bridge to a simulator (`apps/ue5_bridge`), the cFS lab applications and ground
tools. This directory holds TLA+ specifications of the parts that carry the
system's own logic, the TLC configurations that check them on small instances,
and TLAPS proofs for all instances.

Paths below are relative to the repository (`src/`).

## 1. Inventory

| component | state | operations | what makes it correct |
|---|---|---|---|
| Software Bus, `cfe/modules/sb` | pipe table, reference-counted buffers, destination lists, statistics; one mutex | create, delete, options of pipes; subscribe, unsubscribe; allocate, release, transmit, receive; enable and disable a route; clean-up of an application | every count equals what it counts at every point where the mutex is free; no table slot is given out twice; routes name live pipes; calls return |
| Routing, `cfe/modules/sbr` | MsgId to route map, heads of destination lists, sequence counters | add a route, look up, iterate | one route per MsgId, none lost on a hash collision |
| Resource ids, `cfe/modules/resourceid` | last id issued | find the next free id, id to index | an id is not reused while its slot is in use |
| Executive Services, `cfe/modules/es` | application, task, library and pool tables, critical data store, logs, reset state | start, stop, restart, reload, delete applications; child tasks; clean-up; pools; resets | one instance per name; the tables and their counts agree; no task outlives its application; resources of a dead application are released; a request that was accepted is carried out |
| Event Services, `cfe/modules/evs` | per-application filters and squelch counters, local log | register, send, filter, log | a filter never passes more than its mask allows; the log keeps the newest events |
| Table Services, `cfe/modules/tbl` | registry, access descriptors, load buffers, dump and validation requests | register, share, load, validate, activate, update, dump, get and release address | an image that is being read does not change; a load buffer has one user; no reader misses an update; an activated load ends |
| Time Services, `cfe/modules/time` | reference state, tone and data, flywheel | tone, 1 Hz, adjustments, conversions | a reader never sees half an update; time neither jumps nor wraps; flywheel starts and ends when it should |
| OSAL, PSP | object id tables, queues, semaphores, timers | create, delete, put, get, give, take | an id is valid or refused, never somebody else's |
| `centurio_nav` | vehicle state, targets, counters | wake-up (control cycle), housekeeping, seven commands | limits on speed, throttle, turn rate hold in every cycle; the vehicle arrives, stops, and does not move uncommanded |
| `ue5_bridge` | socket ids, buffers | telemetry to JSON, JSON to commands | one command per datagram, nothing sent for a bad one; commands that arrive get through |
| `sch_lab` | schedule counters, timing semaphore | tick | each entry is sent once every `PacketRate` ticks; a late scheduler does not crowd out commands |
| `ci_lab`, `to_lab`, ground tools, UE5 plugin | sockets, user interface | packets in and out | (environment of the model) |

How they interact. Applications share nothing but the services: `sch_lab` sends
wake-ups and housekeeping requests over the Software Bus to the pipe of
`centurio_nav`, `ci_lab` and `ue5_bridge` send it ground commands, `to_lab` and
`ue5_bridge` receive its telemetry. Every service call runs on the caller's
task; the service tables are shared and protected by one mutex per service,
which is given up around calls to OSAL and to other services. ES calls each
service's clean-up when an application ends.

What is hard. The Software Bus gives up its mutex in the middle of transmit,
receive, create and delete, so that an operation continues on a table that
others have changed; it charges its counters in advance and takes the charge
back when a queue write fails; a buffer may be referenced from a sender, several
queues and several pipes. Table Services does much of a load and a validation
without its lock, and an update has to wait for readers. Executive Services
spreads the life of an application over three kinds of task: the command task
leaves requests, the background task carries them out with the lock given up
between its sections, and the application's own tasks come and go meanwhile. Time
Services publishes its reference without any lock and matches tone and data that
arrive by different ways. In `centurio_nav` a command can change mode, throttle
or target between any two cycles, angles wrap, and the controller is a feedback
loop that has to converge. `PROJECT.json` lists these hazards line by line.

## 2. The modules

| module | what it is |
|---|---|
| `SoftwareBus` | pipes, routes, buffers and the application clean-up of the Software Bus, at the granularity of its critical sections |
| `SoftwareBusProofs` | TLAPS proofs about `SoftwareBus` |
| `CenturioNav` | the navigation application: control loop and command handling |
| `CenturioNavProofs` | TLAPS proofs about `CenturioNav` |
| `TableServices` | registry, handles, load buffers, the API and the ground commands of TBL |
| `TableServicesProofs` | TLAPS proofs about `TableServices` |
| `AppLifecycle` | abstract: what the ground is promised about an application |
| `ExecutiveServices` | application and task tables, command and background task, the tasks of applications; implements `AppLifecycle` |
| `ExecutiveServicesProofs` | TLAPS proofs about `ExecutiveServices` |
| `AppLifecycleProofs` | TLAPS proof that `ExecutiveServices` implements `AppLifecycle` |
| `TimeReference` | the lock-free reference state of TIME, word by word |
| `TimeReferenceProofs` | TLAPS proofs about `TimeReference` |
| `TimeServices` | tone, data, flywheel and the three tasks of TIME |
| `TimeServicesProofs` | TLAPS proofs about `TimeServices` |
| `MissionApps` | `sch_lab`, `ue5_bridge` and `centurio_nav` composed over their pipes |
| `MissionAppsProofs` | TLAPS proofs about `MissionApps` |
| `MC...` | the instances for TLC: values of the constants, symmetry, fairness |

### 2.1 SoftwareBus

A process is a task of an application, or `ES`, the background task that cleans
up. `pc[x]` says where it is in its API call, `buf[x]`, `todo[x]` and `pipe[x]`
are the locals of the call. **One action is one region between
`CFE_SB_LockSharedData` and `CFE_SB_UnlockSharedData`, or one OSAL queue call
outside the lock**; nothing else is visible to another task. For instance a
transmission is `FindDestinations` (lock), one `QueuePut` or `QueuePutFails` per
destination (no lock), an `UndoPut` (lock) after each failure, and
`TransmitFinish` (lock).

| state | code |
|---|---|
| `pipeTbl[s]` | `CFE_SB_Global.PipeTbl[s]`: `id` is `PipeId` (0 undefined, -1 reserved), `app` the owner, `last` is `LastBuffer`, `depth` is `CurrentQueueDepth`, `ignoreMine` the option bit. `reader` is not in the code: it is the task that created the pipe |
| `Routes`, `Subs`, `Inactive`, `BuffCount` | the routes, the pipes on the destination list of each, which are disabled, and `DestPtr->BuffCount` |
| `UseCount`, `Owner`, `MsgId` | fields of `CFE_SB_BufferD_t`; a use count of zero stands for a buffer in the pool |
| `queue`, `qOpen` | the OSAL queues and which of them exist |
| `pipesInUse`, `subscriptionsInUse`, `lastPipeId` | statistics and the last pipe id issued |

Data that is abstracted: message contents and sizes, names, events, error and
peak counters. Destination lists are sets, so the order in which the queues of
one message are written is left open, which includes the code's order. A message
that fails its integrity check on receive is dropped and the next one read, which
is two receive calls of the model. `MaxPipeId` bounds the pipe ids issued (the
code has 65 535 serial numbers before they wrap).

Assumed, not checked by the code: one task reads a pipe (the comment at
`cfe_sb_priv.c:1294-1308`), and an application is cleaned up only when all of its
tasks have called `CFE_ES_ExitApp`. The first is a documented contract. The
second leaves out forced kills and running child tasks, for which ES deletes
pipes before tasks (`cfe_es_apps.c:1451` and `1469`); `ExecutiveServices` has them.

Properties:

* `UseCountExact`: the use count of every buffer is the number of references to
  it. This is what makes zero-copy messaging safe: too low and a buffer returns
  to the pool while somebody reads it, too high and it leaks.
* `DepthExact`, `LimitNotOvercounted`: the depth of a pipe and the message count
  of a subscription never count a message that is not there, although they are
  charged in advance and pipes and subscriptions come and go in between.
* `RoutesLive`, `ReservedByOne`, `StatsExact`: half-done creations and deletions
  are never visible as a dangling route, a slot with two users, or a wrong figure.
* `CallsReturn` (liveness): transmit, create and delete come back.
* `DeletedPipeIsEmpty`: what a comment says and the code does not do, see
  section 4.

### 2.2 CenturioNav

One action is the handling of one message by `CENTURIO_NAV_Main`: `Wakeup` (a
control cycle: `Guidance`, `Manual` or `HoldPosition`, then `Integrate`),
`SendHk`, one action per command code, `RejectCmd` for wrong lengths and unknown
codes, `PipeReadError` for the exit. `pos`, `vel`, `att`, `throttle` and `mode`
are the members of `Nav` (`up` is altitude, minus the code's *down*), `tgtPos`,
`tgtVel`, `tgtAtt` those of `Target`. `commanded` is a history variable: which
targets were ever commanded.

Floating point is replaced by integers: centimetres, cm/s, degrees, percent.
Every division truncates toward zero and the distance is rounded up, so that a
modelled step is at most one unit shorter than the real one and never longer.
The earth is flat, which it nearly is at the distances the loop flies in one
cycle; poles and the date line are out. The heading is rounded to a compass
point (no property depends on its exact value). Commands are any values; the
configuration chooses a few on the edges (targets below ground, angles outside
the half turn, velocities above the limit, throttles outside 0..100).

Properties: `StaysHome` (nothing moves until commanded), `AxisSpeedLimited`,
`NoOvershoot` (no cycle passes the target, on any axis), `TurnsShortWay`, and the
liveness properties `Arrives` and `AttitudeReached`.

### 2.3 TableServices

A process is an application or the TBL task. `task[a]` and `tblTask` say where
each is in a call that gives up the registry lock half-way (the load, fill and
finish of `CFE_TBL_Load`, the validation function, the file read of a ground
load, the clean-up handle by handle); every other call is one action.

| state | code |
|---|---|
| `Registry[r]` | `CFE_TBL_Global.Registry[r]`: owner, `TableLoadedOnce`, `LoadPending`, `LoadInProgress` (none, the inactive half of a double-buffered table, or a shared buffer), `ActiveBufferIndex`, the ids of its dump and validation requests |
| `Handles[h]` | the access descriptors with `LockFlag`, `Updated` and `BufferIndex` |
| `Buffers`, `Taken` | the image and `Validated` mark of every buffer, and which shared load buffers are taken |
| `ValidationResults`, `DumpControlBlocks` | the requests the TBL task leaves for the owner |
| `seen[h]` | history: the image the holder of `h` read last |

An image is a number; `ValidImages` are those the validation function accepts.
A file read may fail after it has changed the buffer, as in the code.
`Reloads` is empty in the runs: the applications of this mission load a table
only once, at initialisation. `Unregisters` and `Exits` say which tables and
applications may go.

Three orders of calls, which the constants of the runs leave out, break a property
in TLC; the theorems of section 5 name what excludes them:

* a finished dump keeps its control block, with the registry index in it, until the
  next housekeeping request. If its table is unregistered in between and a
  double-buffered table with a load in progress takes the slot, `CFE_TBL_SendHkCmd`
  frees the shared load buffer with the number of the other table's inactive buffer
  (`LoadBuffersExclusive` fails; `StableDumps` excludes it);
* the owner of a double-buffered table calls `CFE_TBL_Load` again while the ground's
  file read fills the same inactive buffer (`HeldImageStable` fails);
* that owner exits, or unregisters the table, during the file read and the slot is
  taken by another table (as above; `SteadyDoubles` excludes both).

Properties: `HeldImageStable` (what is read through an address does not change
until it is released), `NoStaleReader` (a reader that is not told of an update
has read the active image), `LoadBuffersExclusive`, `ActivatedLoadEnds`
(liveness), and `ActivatedIsValidated`, which fails (section 4).

### 2.4 ExecutiveServices and AppLifecycle

The processes are the ES command task (`cmd`), the background task (`bg`), and
the operating system tasks of the applications (`osTasks[s].pc`). An application
is created from the command task and, for a restart, from the background task
(`create[p]`). One action is one section under the ES lock, or one call outside
it. `appTable` and `taskTable` are the tables of `CFE_ES_Global` with their free
and reserved marks, `scan` the state of `CFE_ES_RunAppTableScan`, `registeredApps`
and `registeredTasks` the counts of housekeeping. `resources` is what applications
hold in other services, `forced` a history: the applications cleaned up while a
task of theirs was still running.

An application may create a child task, exit, hang, ignore requests, be inside a
service call when it is killed; loading its module may fail; the background pass
may be late; OSAL task slots are reused.

`AppLifecycle` is the promise in terms of names only: an application is absent,
starting, running or stopping, runs one file, and has at most one request. It says
that a stopped application is never seen running again, that an exit does not
overwrite the ground's request, and that after a removal only the request that was
accepted decides whether, and with which file, it is started again.
`LifecycleRefined` says that `ExecutiveServices` implements it; the mapping reads
status, file and request off the record with that name and the pending restart off
the background task.

Other properties: `RegisteredExact`, `OneInstance`, `NoOrphanTask`,
`ResourcesReleased` and `RequestCarriedOut` (liveness).

`PollOutlastsCreate` is an assumption on timing: a new task delays
`CFE_PLATFORM_ES_STARTUP_SYNC_POLL_MSEC` before it first looks for its record, and
`CFE_ES_AppCreate` has finished by then. The code does not enforce it. With the
constant set to FALSE, `NoOrphanTask` and `RegisteredExact` fail (a task that exits
before its application is recorded is counted in afterwards), the others hold.

### 2.5 TimeReference

`CFE_TIME_StartReferenceUpdate` stamps the next of `Depth` records, copies the
current one into it word by word, the caller changes words, and
`CFE_TIME_FinishReferenceUpdate` publishes it. `CFE_TIME_GetReference` copies word
by word and then compares the version; it retries a limited number of times. Each
read or write of a word is an action, so that a reader can be interrupted anywhere
by any number of updates. There is one writer at a time, as in the code, where
updates run on the TIME task or with it held off. `ReadConsistent`: a successful
read is one published version, not older than the call. `GivesUpOnlyUnderStorm`:
zeroes are returned only after at least `RetryLimit * (Depth - 1)` updates within
the call. (The code also returns zeroes when the last retry succeeds,
`cfe_time_utils.c:600`; the bound holds in spite of it.) Memory is sequentially
consistent in the model.

### 2.6 TimeServices

The configuration that is built: server, virtual MET, fake tone, "time at the tone
was", internal source. A timer callback (`Tick`) gives two binary semaphores, the
local 1 Hz task and the tone task take them and send packets, the main task takes
packets from its pipe and runs the state machine, tone signal, tone data and
commands. `clock` rolls over at `Wrap`, the MET at `MetWrap`. `late` is how far the
tasks are behind the timer, `age` and `toneAge` are histories: the real time since
the reference and since the latched tone. Reading and updating the reference is
atomic here, which `TimeReference` justifies.

* `NoWrapAround`: the time since the tone computed from a clock that rolls over is
  the real one, because the flywheel latches in time. It needs `Wrap` above the time
  to enter the flywheel and to latch, plus the lateness of the tasks. With the
  flywheel and the lateness of the run TLC finds it violated for `Wrap = 12` and not
  for `Wrap = 14`; it is proved from `ClockOutlastsFlywheel`, here `Wrap >= 20`.
* `METJumpBounded`: time passing moves the MET by exactly that time, and no step but
  SET MET moves it ahead by more than a second or back by more than `MaxSlip`, however
  late the tasks are. It can fall back by the seconds after which the flywheel starts,
  since no tone need have counted in them (a tone that comes later finds the clock in
  flywheel, takes the time from the clock and does not move it by a second), and by the
  fraction of a second that SET MET puts into the reference and not into `VirtualMET`.
  The bound is met: with tasks that are 1.5 s late TLC finds a step that falls back by
  all of `MaxSlip`.
* `CommandedFlywheelFree`, `FlywheelEnds` (liveness).

### 2.7 MissionApps

`sch_lab` counts timer ticks with a semaphore, runs a pass of its table per tick
once it has seen a 1 Hz packet of TIME, and sends wake-ups and housekeeping
requests; `ue5_bridge` waits up to 100 ms for telemetry and then takes at most one
datagram from its socket; `centurio_nav` takes messages off its pipe. The bus is
reduced to what a sender sees: message limit and pipe depth. `BurstSparesCommands`:
however many wake-ups a late scheduler sends back to back, a command is refused
only because of other commands. It rests on `NavDepth >= 3 * MsgLimit`, which the
mission's 32 and 4 satisfy. `CommandsGetThrough` (liveness): commands that keep
reaching the socket get through to the vehicle.

## 3. The runs

| run | what it asks | bounds |
|---|---|---|
| `sb` | all safety properties on the whole Software Bus | 2 applications of one task and ES, 1 message id, 2 buffers, 2 pipes, depth 1, limit 2; 1.8 million states |
| `sb_race` | use counts when a sibling task deletes the pipe another task is reading | 3 tasks, 2 of them in one application, 2 slots used by 3 pipe ids, depth 1, limit 1, no clean-up, options or commands; 1.7 million states |
| `sb_live` | `CallsReturn` | 3 tasks, 1 pipe slot used by 2 ids in turn, 2 buffers |
| `sb_delete` | a documented claim that fails | depth 2, limit 1 |
| `nav` | safety and arrival of the navigation application | 3 commands out of 14, every interleaving with control cycles, positions within 7 m; 134 thousand states |
| `tbl` | readers, load buffers and removal | 2 applications, one single-buffered and one dump-only table, 2 handles, 1 shared load buffer; 447 thousand states |
| `tbl_double` | readers and the end of a load with two buffers | 1 double-buffered table with validation, an owner and a reader that may exit; 134 thousand states |
| `tbl_validated` | a documented claim that fails | as `tbl_double` |
| `es` | tables, tasks, resources, requests and the refinement | 2 names, 2 application slots, 2 task slots, 2 files, 2 ground commands, one application with a child task; 341 thousand states |
| `time_ref` | the lock-free reference | records of 2 words, 1 reader, the code's depth of 4, 2 retries, 8 versions; 4.2 million states |
| `time` | tone and flywheel | 2 units to a second, clock of 10 s, MET of 5 s, flywheel after 2 s and latched every 3 s, tasks up to 1.5 s late, pipe of 3, SET MET to 2.5 s, 1 command; 2.3 million states |
| `mission` | bursts and commands | rates 2 and 3, limit 2, pipes of 6 and 3, socket of 2, 2 ticks behind; 1.0 million states |

Why these bounds are enough to be interesting. Two pipes of depth 1 make full
queues, failed writes and two destinations for one message; two buffers make one
buffer wait in a queue while the other is sent and run the pool dry; two
pipe ids for one slot make an id that is stale although its slot is in use again
(`sb_race`, `sb_live`); a limit below, at and above the depth is tried (`sb_race`, `sb`).
Buffers are interchangeable in every definition, so symmetry on them is sound;
the liveness run has none. In `nav` the command count is bounded, not the
cycles: `MaxRange` only stops a vehicle that flies away in MANUAL. `CounterSize`
is 3 instead of 256 so that the counters wrap. In `tbl` one load buffer serves two
tables, so that it runs out and changes hands. In `es` two slots for applications
and tasks are reused under new ids, two commands are enough for a request that
overtakes another, and a start that meets a clean-up. In `time_ref` eight versions
pass the four records twice. In `time` clock and MET both roll over. In `mission`
the pipe of `centurio_nav` is exactly as deep as its three limits.

Deadlock is not checked: when the ids, versions or commands of the model are used
up, or all applications have exited, the system may stop.

Fairness. `sb_live` assumes weak fairness of each task's steps inside an API
call: a ready task eventually runs, and the SB mutex is held only for bounded
sections. Nothing is assumed about calls being made, nor about a receiver ever
getting a message. `nav` assumes weak fairness of `Wakeup`: `sch_lab` sends
a wake-up every tenth of a second and the application loops on its pipe until a
read error, which clears `run`. `tbl_double` assumes that a call that has begun
goes on, and strong fairness of the update: an owner calls `CFE_TBL_Manage` in its
loop, and a pending load comes before a pending validation there
(`CFE_TBL_TxnGetTableStatus`). Nothing makes a reader release a table. `es` assumes
only that the background task, which waits with a time-out, runs; the applications
may hang. `time` assumes that time passes and the tasks of TIME are scheduled,
`mission` that the application tasks are, and nothing of timer, TIME or plugin.

Every property of a passing run is violated by a mutant of the code it is about
(the `Mut...` operators, listed in `PROJECT.json`): a dropped decrement, a wrong
reset, a missing wrap.

## 4. What the runs found

* **A message can be stranded in a deleted pipe** (`sb_delete`).
  `CFE_SB_DeletePipeFull` removes the routes under the lock, then drains and
  deletes the queue without it. A transmitter that had already chosen the pipe
  can still write after the drain and before `OS_QueueDelete`. The message is
  lost and its buffer is never returned to the pool. In every other interleaving
  the reference is dropped by the drain or by the failed write: `UseCountExact`
  counts the stranded reference, and holds.
* **A table can be activated without validation** (`tbl_validated`). A second ground
  load that fails half-way has changed the buffer but leaves it marked validated;
  and a validation that ends after a new load marks the new image. The user's guide
  says that activation is refused until the inactive image has been validated.

Seen while modelling, with no run of their own: the message limit of a subscription
is exceeded by unsubscribing and subscribing again while messages are on the pipe (a
comment at `cfe_sb_priv.c:1365-1370` calls it nominal); in MANUAL the speed limit is
per axis, so a diagonal command flies 1.41 times as fast; a table load that its owner
abandons leaves `LoadPending` set; the timing assumptions of sections 2.4 and 2.6.

## 5. What is proved

All theorems hold for every value of the constants that satisfies the module's named
assumption: `SBAssumption` (finite sets of tasks, buffers and message ids, positive
sizes), `NavAssumption` (positive rate and gain divisor, a slew step below half a
turn, arbitrary command payloads), `TBLAssumption` (positive table sizes, what
`CFE_TBL_ValidateTableOptions` accepts), `ReferenceAssumption` (at least two records),
`TimeAssumption` (positive sizes, a clock that rolls over on a full second),
`MissionAssumption` (the pipe of `centurio_nav` holds its three message limits) and
`ESAssumption` (positive sizes, a finite startup script that fits the tables). TLC
evaluates them in the runs. Theorems that have a hypothesis besides are given with it.

| theorem | statement | argument |
|---|---|---|
| `TypeCorrect` | `Spec => []TypeOK` of `SoftwareBus` | inductive by itself once it says that a task inside a send or a receive holds a buffer (`ProcsTyped`): the use count of that buffer is what the step decrements |
| `ReservationExclusive` | `Spec => []ReservedByOne` | with `RoutesLive` and `TypeOK` as `TableInv`, see below |
| `RoutesSound` | `Spec => []RoutesLive` | as above |
| `StatisticsExact` | `Spec => []StatsExact` | with `TableInv`: a pipe is published or unlinked by the one process that has its slot reserved, and the subscriptions taken off with a pipe are counted one to one (`SubscriptionsOf`) |
| `QueueDepthExact` | `Spec => []DepthExact` | with `BookInv`, see below |
| `UseCountsExact` | `Spec => []UseCountExact` | with `UseInv`, see below; every step is one of the moves of a reference that `RefMoves` lists |
| `LimitSound` | `Spec => []LimitNotOvercounted` | with `LimitInv`, see below |
| `NavTypeCorrect` | `Spec => []TypeOK` of `CenturioNav` | range lemmas for wrap, clamp, slew and truncated division |
| `SpeedLimited` | `Spec => []AxisSpeedLimited` | a component of the error is no longer than the rounded-up distance (`LengthSpec`), so its share of a speed within the limit is within the limit (`ShareBound`) |
| `NothingMovesUntilCommanded` | `Spec => []StaysHome` | with `HomeTargets`: as long as a target is not commanded it is its initial value, so the error is zero and the slew goes nowhere |
| `TurnsAreShort` | `Spec => TurnsShortWay` | an angle within half a turn is determined by its residue (`WrapUnique`), so the wrapped step and the wrapped remainder are the clamped step and what is left (`SlewTurns`) |
| `NeverOvershoots` | `Spec => NoOvershoot` | the speed is at most the distance, so a cycle covers between none and all of the error on each axis (`ShareToward`), also when the ground cuts it short |
| `ReferenceTypeCorrect` | `Spec => []TypeOK` of `TimeReference` | inductive |
| `NoTornRead` | `Spec => []ReadConsistent` | see below |
| `ZeroNeedsStorm` | `Spec => []GivesUpOnlyUnderStorm` | each attempt that fails has seen its record stamped again, which takes `Depth - 1` updates; the attempts are disjoint in time |
| `MissionTypeCorrect` | `Spec => []TypeOK` of `MissionApps` | inductive |
| `CommandsAreSpared` | `Spec => BurstSparesCommands` | the messages of each kind on the pipe are at most `MsgLimit`, so three kinds never fill it |
| `TableTypeCorrect` | `Spec => []TypeOK` of `TableServices` | with what a load in progress and a call in progress refer to (`LoadKinds`, `CallInv`) |
| `LoadBuffersNotShared` | `DoubleBuffered = {} \/ StableDumps` implies `Spec => []LoadBuffersExclusive` | with the owners of buffers in the hands of a call (`OwnerInv`) and of dumps (`DumpInv`) |
| `UpdatesReachReaders`, `HeldImagesKept` | `SteadyDoubles` implies `Spec => []NoStaleReader` and `Spec => HeldImageStable` | see below |
| `TimeTypeCorrect` | `Spec => []TypeOK` of `TimeServices` | inductive, from the arithmetic of remainders |
| `ClockNeverWraps` | `ClockOutlastsFlywheel` implies `Spec => []NoWrapAround` | see below |
| `FlywheelRunsFree` | `ClockOutlastsFlywheel` implies `Spec => CommandedFlywheelFree` | a commanded flywheel is a flywheel (`FlyInv`), in which only the latch moves the reference, and it moves it to the current MET |
| `METNeverLeaps` | `ClockOutlastsFlywheel` and `METOutlastsFlywheel` imply `Spec => METJumpBounded` | with `METInv`, see below |
| `ESTypeCorrect` | `PollOutlastsCreate` implies `Spec => []TypeOK` of `ExecutiveServices` | part of `IInv`, see below |
| `CountsExact` | `PollOutlastsCreate` implies `Spec => []RegisteredExact` | the record that a step counts in or out was not counted, or was counted, before |
| `NeverTwice` | `PollOutlastsCreate` implies `Spec => []OneInstance` | a named task is the main task of the one record with its name, or is awaited by the `CFE_ES_AppCreate` that holds that record |
| `NoneOrphaned` | `PollOutlastsCreate` implies `Spec => []NoOrphanTask` | a task record tells the truth, and the clean-up lists every task whose record it reserves |
| `AllReleased` | `PollOutlastsCreate` implies `Spec => []ResourcesReleased` | a task that is inside a service call is not suspended, so the clean-up that finds it has marked the application as forced |
| `LifecycleImplemented` | `PollOutlastsCreate` implies `Spec => LifecycleRefined` | with `LifeInv`, see below |

`SoftwareBus`: `TableInv == TypeOK /\ ReservedByOne /\ RoutesLive`. `ReservedByOne`
alone is not inductive: freeing a slot keeps it only if no other process is busy with
the same slot, which is its second half, and publishing a pipe keeps `RoutesLive` only
if the publisher's queue is open, its third conjunct. Most actions do not touch the
pipe table or the processes that are creating and deleting; `QuietKeeps` handles
those at once.

The accounts of the Software Bus are charged and discharged in critical sections that
are separate from the queue operations, so none of them is inductive. Three invariants
build on each other:

* `BookInv` adds to `TableInv` what the locals of a process are at each point of its call
  (`CallsTold`: a write set only while sending, a buffer only where the code has one) and
  that nobody knows of a pipe before it is published (`FreshPipes`: no transmitter has
  it in its write set, its queue is empty, its depth 0 and its `LastBuffer` empty).
  Without the second a new pipe could inherit a depth.
* `UseInv` adds `UseCountExact` and what makes each reference a single one: only the
  creator of a pipe reads it and it lets the previous message go first (`OneReader`, the
  rule in the note of `CFE_SB_ReceiveTxn_SetPipeId`), a buffer is sent by one
  transmitter, which has not yet written it where it still has to write it (`OneSender`),
  and a buffer that was not transmitted belongs to the application that allocated it,
  with one reference (`Owned`). `Owned` is what `CFE_SB_ZeroCopyReleaseAppId` relies
  on when it takes the buffers of an exited application back by their owner.
* `LimitInv` adds that a pipe off the route of a message has no count (`OffRoute`). A
  buffer in transit to a live pipe keeps its message (`TravelsKeepsMsg`: it is neither
  free nor in its allocator's hands, by `UseInv`) and stays in transit until the failed
  write is undone or the reader exports it (`TravelsStep`), and these two steps
  are the ones that lower the count (`CountSteps`). The count may be below what is in
  transit, after a subscription was given up and taken again; it is never above.

`TimeReference`: `ReadConsistent` speaks of finished reads. The invariant says what a
reader in the middle of a copy knows: as long as the record it copies still carries
the version it took, the record has not been stamped again, so every word copied is
the word that was published with this version. The writer stamps before it changes a
word, and this order is what the induction uses.

`TableServices`: `HeldImageStable` and `NoStaleReader` need each other. The inductive
invariant `ReaderInv` adds that a locked or unread image is the active one (`LockInv`,
`UnreadInv`), that the buffer a call or a ground load is filling is not an active one
that someone may read (`FillInv`, `CmdInv`, `OwnerInv`), and where a dump writes
(`DumpBuf`). `SteadyDoubles` says that a double-buffered table is loaded by its owner
only once and is not removed, and `StableDumps` that a dump-only table is not; section
2.3 has TLC's counterexamples without them. Tables with one buffer need no hypothesis.
The constants of every run satisfy the hypotheses of the properties it checks.

`TimeServices`: a OneHz message may be lost to a full pipe, so the age of the latch is
not bounded by counting messages. `AgeInv` uses that the first OneHz message after the
tasks were idle finds an empty pipe: while nothing but OneHz messages is on its way
(`Due`), the age may exceed its bound by a second and twice the lateness, after the
message was handled only by the lateness. `ClockOutlastsFlywheel` is
`StartFly * Res + 2 * Lag <= Wrap` and `LatchFly * Res + Lag <= Wrap` with
`Lag == Res + 2 * MaxLate`. With the mission's 2 s, 8 s and a local clock that rolls
over at 27 s (`CFE_PLATFORM_TIME_MAX_LOCAL_SECS`) this lets the tasks of TIME be up to
5.75 s behind.

`METJumpBounded` does not follow from that alone: when a tone is used the MET moves to
the tone count (`VirtualMET`), so one has to know how far the count is from the clock.
`METInv` adds it to `ClockInv`: out of flywheel the count is the MET of the reference
and `o` units, up to whole roll-overs of the MET (`CountIs`). `o` is at least `1 - Res`,
the fraction cut off by SET MET, and `o + Lesser(toneAge, Res) <= age + Res`: tones come
a second apart, so the next one can count only when the latched one is a second old. And
a tone that is latched and not yet used has passed the test for the flywheel when it
came (`SlipInv`), so the reference is older than the tone by at most the time to start
the flywheel. In flywheel nothing is known of the count and nothing has to be: the tone
that ends the flywheel sets the count from the clock. `METOutlastsFlywheel`, a MET that
rolls over later than twice the slip and than two seconds, only lets a jump be told from
a roll-over; the MET of the mission rolls over after 2^32 seconds, that of the run after
5. The property was stated as at most a second both ways at first, and held in a run
with coarser constants; the invariant that would prove it was not inductive, and TLC
then found the longer slips.

`ExecutiveServices`: none of its properties is inductive, because records and tasks
are made and removed in several locked sections with calls in between. `IInv` says who
is responsible for everything that is in transition. A reserved application record is
held by exactly one `CFE_ES_AppCreate` or by the clean-up (`CreatesHoldSlot`,
`CleanupHoldsSlot`, `HoldersApart`, `ReservedHeld`), and no two records in use have one
name (`NamesApart`). A task that was created and has no record yet is awaited by exactly
one caller, a `CFE_ES_AppCreate` or a parent (`Awaited`, `AwaitedOnce`). A task record
names an existing task of its application (`RecordsTrue`), and a reserved one belongs to
the clean-up, which has the task on its list (`ReservedListed`, `LeftOvers`). A main task
is known by its name, its application's record, its own record and, during a clean-up,
that list (`MainsNamed`, `MainsRecorded`, `MainListed`). `PollOutlastsCreate` is needed
for `TasksInContext`: without it a task can leave before its application's record is
real, see section 2.4.

The refinement adds `LifeInv` to `IInv`: an application that the scan has listed is
stopping and stays as it is until the clean-up gets to it (`ListedDoomed`), what
`CFE_ES_ProcessControlRequest` copied is still what the record says when it is used, up
to and including the restart (`SnapshotTrue`), a stopping application has a request
(`StoppingAsked`), and a slot that a late request finds RUNNING holds an application
(`RunningReal`): a request is checked against the state of the slot only, so it may
reach an application that took the slot over, and this is the request that the promise
is about. With `NamesApart` each name shows exactly one record (`Shown`), a step on one
record is a step on one name (`OneName`), and each section under the ES lock is one
abstract step or is not seen: reserving a slot is `Start`, failing to create `StartFails`,
the first `CFE_ES_RunLoop` `Run`, a request `Ask` or `Reload`, the scan one `Notice` of all
names, `CFE_ES_ExitApp` `Exit`, freeing the record `Remove`, and the second
`CFE_ES_AppCreate` `Restart`.

Only model-checked: the liveness properties (`CallsReturn`, `FlywheelEnds`,
`CommandsGetThrough` and the others of section 3), which are beyond the prover. Every
safety property and the refinement that the passing runs check are proved.

Worth proving next: what the parts promise each other. The Software Bus as an abstract
bus (each message in order and at most once to each pipe that has subscribed) that
`MissionApps` assumes, and `TimeServices` with a reference that is read while it is
written, which `TimeReference` justifies.

The proofs are checked by TLAPS with Z3 and Zenon; their answers are taken as reported,
they are not checked again by a kernel.

## 6. Not modelled

* Event Services: filters, squelch counters and the local log, the next component
  to model.
* Software Bus: sequence counters, subscription reporting, the look-up by name, two
  readers of one pipe; the hash map of SBR.
* Executive Services: startup script, libraries, exceptions and resets, memory pools,
  critical data store, logs and performance data.
* Table Services: critical tables, notification messages, `CFE_TBL_Modified`, the
  registry dump; reloads by applications in the runs.
* Time Services: configurations that are not built, conversions, the reset area,
  synchronisation callbacks, weak memory.
* `ci_lab`, `to_lab`, `sample_app`, File Services, the message module: I/O, formats or
  templates, without protocol state of their own.
* Left out for good: wire formats and JSON, file I/O, user interfaces, the UE5 plugin,
  table tools and the operating system layers, which are the environment here, and
  unit tests and vendored code, which make up most of the repository's lines;
  floating-point rounding, which TLA+ cannot express at a useful size.
