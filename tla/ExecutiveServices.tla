-------------------------- MODULE ExecutiveServices --------------------------
(***************************************************************************)
(* Application control of Executive Services: the application table and    *)
(* the task table of ES, the ground commands that start, stop, restart and *)
(* reload an application (ES command task), the background scan that       *)
(* carries the requests out (ES background task), and the main and child   *)
(* tasks of the applications themselves, which run through RunLoop,        *)
(* ExitApp and the child task calls.  One action is one section that runs  *)
(* under the ES shared-data lock, or one call made outside of it.          *)
(*                                                                         *)
(* Core applications never change state here and are left out, and so are  *)
(* the fields the control flow does not read (priority, stack, symbols).   *)
(* Time is counted in background ticks.                                    *)
(***************************************************************************)
EXTENDS Integers, FiniteSets, Sequences, FiniteSetsExt, SequencesExt

CONSTANTS
    Names,          \* names of external applications
    Files, NoFile,  \* the module files, and the absence of one
    Initial,        \* the applications of the startup script
    InitialFile,    \* the file it names for them
    MaxApps,        \* CFE_PLATFORM_ES_MAX_APPLICATIONS
    MaxTasks,       \* OS_MAX_TASKS
    ScanRate,       \* CFE_PLATFORM_ES_APP_SCAN_RATE
    KillTimeout,    \* CFE_PLATFORM_ES_APP_KILL_TIMEOUT
    MaxElapsed,     \* bound: the longest a background pass may be late
    MaxCmds,        \* bound: ground commands
    Parents,        \* the applications that create a child task at start
    PollOutlastsCreate  \* the first poll of a new task comes after AppCreate ends

ASSUME ESAssumption ==
    /\ InitialFile \in Files /\ NoFile \notin Files
    /\ Initial \subseteq Names /\ IsFiniteSet(Initial) /\ Parents \subseteq Names
    /\ MaxApps \in Nat \ {0} /\ Cardinality(Initial) <= MaxApps
    /\ MaxTasks \in Nat \ {0} /\ Cardinality(Initial) <= MaxTasks
    /\ {ScanRate, KillTimeout, MaxElapsed} \subseteq Nat \ {0} /\ MaxCmds \in Nat
    /\ PollOutlastsCreate \in BOOLEAN

VARIABLES
    appTable, lastAppId,        \* CFE_ES_Global.AppTable, LastAppId
    taskTable,                  \* CFE_ES_Global.TaskTable
    registeredApps, registeredTasks,
    osTasks, lastOsTask,        \* external: the OSAL task table
    cmd, create,                \* ES command task; the AppCreate calls under way
    bg, scan,                   \* ES background task and BackgroundAppScanState
    resources,                  \* app ids that own something in SB, TBL, TIME or EVS
    forced,                     \* history: ids cleaned up while a task of theirs ran
    cmds                        \* ground commands so far

tables == <<appTable, lastAppId, taskTable, registeredApps, registeredTasks>>
os == <<osTasks, lastOsTask>>
history == <<resources, forced>>
vars == <<tables, os, cmd, create, bg, scan, history, cmds>>

AppSlots == 0 .. MaxApps - 1
TaskSlots == 0 .. MaxTasks - 1

Free == 0           \* CFE_RESOURCEID_UNDEFINED
Reserved == -1      \* CFE_RESOURCEID_RESERVED

(* CFE_ES_AppState_Enum_t: UNDEFINED, EARLY_INIT and LATE_INIT are all "INIT" *)
AppStates == {"INIT", "RUNNING", "WAITING", "STOPPED"}

(* CFE_ES_RunStatus_Enum_t *)
Requests == {"APP_RUN", "APP_EXIT", "APP_ERROR", "SYS_DELETE", "SYS_RESTART", "SYS_RELOAD"}
RestartRequests == {"SYS_RESTART", "SYS_RELOAD"}

Creators == {"cmd", "bg"}

(***************************************************************************)
(* Records and how they are found.                                         *)
(***************************************************************************)
IsUsed(rec) == rec.id # Free

LocateAppRecordByID(id) == id % MaxApps
LocateTaskRecordByID(id) == id % MaxTasks

AppRecordIsMatch(id) == appTable[LocateAppRecordByID(id)].id = id
TaskRecordIsMatch(id) == taskTable[LocateTaskRecordByID(id)].id = id

(* Mutant: a reserved record hides its name. *)
MutAppsNamed(n) == {s \in AppSlots : appTable[s].id > Free /\ appTable[s].name = n}

AppsNamed(n) == {s \in AppSlots : IsUsed(appTable[s]) /\ appTable[s].name = n}

(* A resource id is the next serial number whose slot is free. *)
FindNext(last, size, Used(_)) ==
    LET open == {i \in last + 1 .. last + size : ~Used(i % size)}
    IN  IF open = {} THEN Free ELSE Min(open)

(* GetAppRecordByContext: the caller's task record, then its application's. *)
HasContext(t) ==
    TaskRecordIsMatch(t) /\ AppRecordIsMatch(taskTable[LocateTaskRecordByID(t)].app)

Context(t) == LocateAppRecordByID(taskTable[LocateTaskRecordByID(t)].app)

IsMain(t) == \E s \in AppSlots : IsUsed(appTable[s]) /\ appTable[s].main = t

(***************************************************************************)
(* OSAL tasks (external).                                                  *)
(***************************************************************************)
NoOsTask == [id |-> Free, pc |-> "none", app |-> Free, name |-> "", child |-> Free]

OsAlive(t) == osTasks[LocateTaskRecordByID(t)].id = t
OsTask(t) == osTasks[LocateTaskRecordByID(t)]
LiveTasks == {osTasks[s].id : s \in TaskSlots} \ {Free}

NewOsTask == FindNext(lastOsTask, MaxTasks, LAMBDA s : osTasks[s].id # Free)

OS_TaskCreate(t, a, n, start) ==
    /\ lastOsTask' = t
    /\ osTasks' = [osTasks EXCEPT ![LocateTaskRecordByID(t)] =
                     [NoOsTask EXCEPT !.id = t, !.pc = start, !.app = a, !.name = n]]

(* OS_TaskDelete and the end of a task's function: an id that is no longer   *)
(* the slot's is refused and changes nothing.                                *)
WithoutTask(t) ==
    IF OsAlive(t) THEN [osTasks EXCEPT ![LocateTaskRecordByID(t)] = NoOsTask] ELSE osTasks

Goto(t, p) == osTasks' = [osTasks EXCEPT ![LocateTaskRecordByID(t)].pc = p]

(***************************************************************************)
(* The system after CFE_ES_Main ran the startup script: its applications   *)
(* are RUNNING and were given the ids 1, 2, ... in the order of the script. *)
(***************************************************************************)
FreeApp == [id |-> Free, name |-> "", state |-> "INIT", req |-> "APP_RUN",
            timer |-> 0, file |-> NoFile, main |-> Free]
FreeTask == [id |-> Free, app |-> Free]

(* Of a free record only the state is ever read again. *)
AppRecordSetFree(rec) == [FreeApp EXCEPT !.state = rec.state]

NoCreate == [pc |-> "idle", id |-> Free, name |-> "", file |-> NoFile, task |-> Free]
NoCmd == [pc |-> "idle", id |-> Free, kind |-> "none", file |-> NoFile]
NoWork == [pc |-> "idle", list |-> <<>>, id |-> Free, req |-> "APP_RUN", name |-> "",
           file |-> NoFile, tasks |-> {}, left |-> {}]

StartedSystem(order) ==
    LET Started(size, s) == CHOOSE i \in 1 .. Len(order) : i % size = s
        Taken(size, s) == \E i \in 1 .. Len(order) : i % size = s
    IN  /\ appTable = [s \in AppSlots |->
             IF ~Taken(MaxApps, s) THEN FreeApp
             ELSE [FreeApp EXCEPT !.id = Started(MaxApps, s), !.name = order[Started(MaxApps, s)],
                     !.state = "RUNNING", !.file = InitialFile, !.main = Started(MaxApps, s)]]
        /\ taskTable = [s \in TaskSlots |->
             IF ~Taken(MaxTasks, s) THEN FreeTask
             ELSE [id |-> Started(MaxTasks, s), app |-> Started(MaxTasks, s)]]
        /\ osTasks = [s \in TaskSlots |->
             IF ~Taken(MaxTasks, s) THEN NoOsTask
             ELSE [NoOsTask EXCEPT !.id = Started(MaxTasks, s), !.pc = "loop",
                     !.app = Started(MaxTasks, s), !.name = order[Started(MaxTasks, s)]]]
        /\ lastAppId = Len(order) /\ lastOsTask = Len(order)
        /\ registeredApps = Len(order) /\ registeredTasks = Len(order)
        /\ cmd = NoCmd /\ create = [p \in Creators |-> NoCreate]
        /\ bg = NoWork
        /\ scan = [pending |-> 0, timer |-> ScanRate, newCmd |-> FALSE]
        /\ resources = {} /\ forced = {} /\ cmds = 0

Init == \E order \in SetToSeqs(Initial) : StartedSystem(order)

(***************************************************************************)
(* CFE_ES_AppCreate, called by the start command and by a restart.         *)
(***************************************************************************)
NewAppId == FindNext(lastAppId, MaxApps, LAMBDA s : IsUsed(appTable[s]))

CanReserve(n) == AppsNamed(n) = {} /\ NewAppId # Free

(* The first locked section: the slot is taken but matches no id yet. *)
Reserve(p, n, f) ==
    /\ appTable' = [appTable EXCEPT ![LocateAppRecordByID(NewAppId)] =
                      [FreeApp EXCEPT !.id = Reserved, !.name = n, !.file = f]]
    /\ lastAppId' = NewAppId
    /\ create' = [create EXCEPT ![p] = [NoCreate EXCEPT !.pc = "load", !.id = NewAppId,
                                          !.name = n, !.file = f]]
    /\ UNCHANGED <<taskTable, registeredApps, registeredTasks>>

(* CFE_ES_LoadModule and the OS_TaskCreate of StartAppTask, unlocked. *)
LoadModule(p) ==
    LET c == create[p]
    IN  /\ c.pc = "load"
        /\ \/ /\ create' = [create EXCEPT ![p].pc = "finish"]
              /\ UNCHANGED os
           \/ /\ NewOsTask # Free
              /\ OS_TaskCreate(NewOsTask, c.id, c.name, "entry")
              /\ create' = [create EXCEPT ![p].pc = "register", ![p].task = NewOsTask]
        /\ UNCHANGED <<tables, cmd, bg, scan, history, cmds>>

(* The locked section of StartAppTask. *)
SetTaskRecord(t, a) ==
    /\ taskTable' = [taskTable EXCEPT ![LocateTaskRecordByID(t)] = [id |-> t, app |-> a]]
    /\ registeredTasks' = registeredTasks + 1

StartAppTask(p) ==
    LET c == create[p]
    IN  /\ c.pc = "register"
        /\ SetTaskRecord(c.task, c.id)
        /\ appTable' = [appTable EXCEPT ![LocateAppRecordByID(c.id)].main = c.task]
        /\ create' = [create EXCEPT ![p].pc = "finish"]
        /\ UNCHANGED <<lastAppId, registeredApps, os, cmd, bg, scan, history, cmds>>

(* The last locked section: the record becomes real, or free again. *)
FinishCreate(p) ==
    LET c == create[p]
        s == LocateAppRecordByID(c.id)
    IN  /\ c.pc = "finish"
        /\ IF c.task # Free
             THEN /\ appTable' = [appTable EXCEPT ![s].id = c.id]
                  /\ registeredApps' = registeredApps + 1
             ELSE /\ appTable' = [appTable EXCEPT ![s] = AppRecordSetFree(@)]
                  /\ UNCHANGED registeredApps
        /\ create' = [create EXCEPT ![p] = NoCreate]
        /\ bg' = IF p = "bg" THEN [NoWork EXCEPT !.list = bg.list] ELSE bg
        /\ scan' = [scan EXCEPT !.newCmd = @ \/ (p = "cmd" /\ c.task # Free)]
        /\ UNCHANGED <<lastAppId, taskTable, registeredTasks, os, cmd, history, cmds>>

(***************************************************************************)
(* Ground commands, one at a time in the ES command task.                  *)
(***************************************************************************)
CmdIdle == cmd.pc = "idle" /\ create["cmd"].pc = "idle" /\ cmds < MaxCmds

StartAppCmd(n, f) ==
    /\ CmdIdle
    /\ cmds' = cmds + 1
    /\ IF CanReserve(n) THEN Reserve("cmd", n, f) ELSE UNCHANGED <<tables, create>>
    /\ UNCHANGED <<os, cmd, bg, scan, history>>

(* Stop, restart and reload look the name up under the lock, release it,   *)
(* and take the lock again to leave the request.                           *)
GetAppIDByName(n, k, f) ==
    /\ CmdIdle
    /\ cmds' = cmds + 1
    /\ AppsNamed(n) # {}
    /\ \E s \in AppsNamed(n) :
         cmd' = [pc |-> "ask", id |-> appTable[s].id, kind |-> k, file |-> f]
    /\ UNCHANGED <<tables, os, create, bg, scan, history>>

(* CFE_ES_DeleteApp, RestartApp and ReloadApp check the slot's state, not  *)
(* that the slot still holds the id that was looked up.                    *)
RequestRefused ==
    \/ cmd.id = Reserved
    \/ appTable[LocateAppRecordByID(cmd.id)].state # "RUNNING"

LeaveRequest(rec) ==
    IF cmd.kind = "SYS_RELOAD" THEN [rec EXCEPT !.req = cmd.kind, !.file = cmd.file]
                               ELSE [rec EXCEPT !.req = cmd.kind]

RequestApp ==
    /\ cmd.pc = "ask"
    /\ cmd' = NoCmd
    /\ \/ /\ RequestRefused \/ cmd.kind \in RestartRequests   \* or the file is missing
          /\ UNCHANGED <<appTable, scan>>
       \/ /\ ~RequestRefused
          /\ appTable' = [appTable EXCEPT ![LocateAppRecordByID(cmd.id)] = LeaveRequest(@)]
          /\ scan' = [scan EXCEPT !.newCmd = TRUE]
    /\ UNCHANGED <<lastAppId, taskTable, registeredApps, registeredTasks, os, create, bg,
                   history, cmds>>

(***************************************************************************)
(* The background task.                                                    *)
(***************************************************************************)
(* Mutant: only an application that called ExitApp is waited for. *)
MutStopping(rec) == IsUsed(rec) /\ rec.state = "STOPPED"

Stopping(rec) == IsUsed(rec) /\ rec.state \in {"WAITING", "STOPPED"}

Requested(rec) == IsUsed(rec) /\ rec.state = "RUNNING" /\ rec.req # "APP_RUN"

(* Mutant: the kill timer is decremented past zero. *)
MutScanRecord(rec, e) ==
    IF Stopping(rec) THEN [rec EXCEPT !.timer = @ - e]
    ELSE IF Requested(rec) THEN [rec EXCEPT !.state = "WAITING", !.timer = KillTimeout * ScanRate]
    ELSE rec

(* A record in the locked scan, e ticks after the previous pass. *)
ScanRecord(rec, e) ==
    IF Stopping(rec) THEN [rec EXCEPT !.timer = IF @ > e THEN @ - e ELSE 0]
    ELSE IF Requested(rec) THEN [rec EXCEPT !.state = "WAITING", !.timer = KillTimeout * ScanRate]
    ELSE rec

TimedOut(rec, e) == Stopping(rec) /\ rec.timer <= e

(* The scan goes through the table from its first slot to its last. *)
InTableOrder(S) == {q \in [1 .. Cardinality(S) -> S] : \A i, j \in DOMAIN q : i < j => q[i] < q[j]}

ScanDue(e) == scan.pending # 0 \/ scan.newCmd \/ scan.timer <= e

RunAppTableScan(e) ==
    /\ bg.pc = "idle" /\ bg.list = <<>>
    /\ IF ScanDue(e)
         THEN /\ appTable' = [s \in AppSlots |-> ScanRecord(appTable[s], e)]
              /\ \E out \in InTableOrder({s \in AppSlots : TimedOut(appTable[s], e)}) :
                   bg' = [bg EXCEPT !.list = [i \in DOMAIN out |-> appTable[out[i]].id]]
              /\ scan' = [pending |-> Cardinality({s \in AppSlots : Stopping(appTable[s])}),
                          timer |-> ScanRate, newCmd |-> FALSE]
         ELSE /\ scan' = [scan EXCEPT !.timer = @ - e]
              /\ UNCHANGED <<appTable, bg>>
    /\ UNCHANGED <<lastAppId, taskTable, registeredApps, registeredTasks, os, cmd, create,
                   history, cmds>>

(* CFE_ES_ProcessControlRequest begins with a locked snapshot of the record. *)
ProcessControlRequest ==
    /\ bg.pc = "idle" /\ bg.list # <<>>
    /\ LET a == Head(bg.list)
           rec == appTable[LocateAppRecordByID(a)]
           work == [NoWork EXCEPT !.pc = "collect", !.id = a, !.list = Tail(bg.list)]
       IN  bg' = IF AppRecordIsMatch(a)
                   THEN [work EXCEPT !.req = rec.req, !.name = rec.name, !.file = rec.file]
                   ELSE work
    /\ UNCHANGED <<tables, os, cmd, create, scan, history, cmds>>

(* CFE_ES_CleanUpApp.  First locked section: the tasks are listed and their *)
(* records and the application's are reserved.  Only this task removes      *)
(* applications, so the record it listed still matches: the early return    *)
(* for an id that is not valid for deletion is never taken.                 *)
TaskRecordsOf(a) == {s \in TaskSlots : IsUsed(taskTable[s]) /\ taskTable[s].app = a}

StillRuns(a) == \E t \in LiveTasks : OsTask(t).app = a /\ OsTask(t).pc # "suspended"

CollectResources ==
    LET a == bg.id
        mine == TaskRecordsOf(a)
        ids == {taskTable[s].id : s \in mine}
    IN  /\ bg.pc = "collect"
        /\ AppRecordIsMatch(a)
        /\ registeredApps' = registeredApps - 1
        /\ registeredTasks' = registeredTasks - Cardinality(mine)
        /\ taskTable' = [s \in TaskSlots |->
                           IF s \in mine THEN [taskTable[s] EXCEPT !.id = Reserved] ELSE taskTable[s]]
        /\ appTable' = [appTable EXCEPT ![LocateAppRecordByID(a)].id = Reserved]
        /\ bg' = [bg EXCEPT !.pc = "services", !.tasks = ids, !.left = ids]
        /\ forced' = IF StillRuns(a) THEN forced \cup {a} ELSE forced
        /\ UNCHANGED <<lastAppId, os, cmd, create, scan, resources, cmds>>

(* Mutant: an application that exited by itself is not cleaned up after. *)
MutCleanUpServices ==
    /\ bg.pc = "services"
    /\ resources' = IF bg.req = "APP_EXIT" THEN resources ELSE resources \ {bg.id}
    /\ bg' = [bg EXCEPT !.pc = "tasks"]
    /\ UNCHANGED <<tables, os, cmd, create, scan, forced, cmds>>

(* The clean-up calls into TBL, SB, TIME and EVS. *)
CleanUpServices ==
    /\ bg.pc = "services"
    /\ resources' = resources \ {bg.id}
    /\ bg' = [bg EXCEPT !.pc = "tasks"]
    /\ UNCHANGED <<tables, os, cmd, create, scan, forced, cmds>>

(* Then its tasks one by one, the main task last. *)
CleanupTaskResources(t) ==
    /\ bg.pc = "tasks" /\ t \in bg.left
    /\ t = appTable[LocateAppRecordByID(bg.id)].main => bg.left = {t}
    /\ osTasks' = WithoutTask(t)
    /\ bg' = [bg EXCEPT !.left = @ \ {t}]
    /\ UNCHANGED <<tables, lastOsTask, cmd, create, scan, history, cmds>>

(* Mutant: the record is freed whoever has it now. *)
MutFreeIfReserved(rec, free) == free

(* Last locked section: what is still reserved is set free. *)
FreeIfReserved(rec, free) == IF rec.id = Reserved THEN free ELSE rec

FreeRecords ==
    LET slots == {LocateTaskRecordByID(t) : t \in bg.tasks}
    IN  /\ bg.pc = "tasks" /\ bg.left = {}
        /\ taskTable' = [s \in TaskSlots |->
                           IF s \in slots THEN FreeIfReserved(taskTable[s], FreeTask) ELSE taskTable[s]]
        /\ appTable' = [appTable EXCEPT ![LocateAppRecordByID(bg.id)] = FreeIfReserved(@, AppRecordSetFree(@))]
        /\ bg' = IF bg.req \in RestartRequests THEN [bg EXCEPT !.pc = "create", !.tasks = {}]
                                               ELSE [NoWork EXCEPT !.list = bg.list]
        /\ UNCHANGED <<lastAppId, registeredApps, registeredTasks, os, cmd, create, scan,
                       history, cmds>>

(* Back in ProcessControlRequest: the restart. *)
RestartCreate ==
    /\ bg.pc = "create" /\ create["bg"].pc = "idle"
    /\ IF CanReserve(bg.name)
         THEN Reserve("bg", bg.name, bg.file) /\ bg' = [bg EXCEPT !.pc = "creating"]
         ELSE UNCHANGED <<tables, create>> /\ bg' = [NoWork EXCEPT !.list = bg.list]
    /\ UNCHANGED <<os, cmd, scan, history, cmds>>

(***************************************************************************)
(* The tasks of the applications.                                          *)
(***************************************************************************)
At(t, p) == t \in LiveTasks /\ OsTask(t).pc = p

NoEsChange == UNCHANGED <<tables, cmd, create, bg, scan, cmds>>

(* CFE_ES_GetTaskFunction polls after a delay until the task record is     *)
(* filled in; it does not look at the application's record.                *)
TaskEntryPoint(t) ==
    /\ At(t, "entry")
    /\ TaskRecordIsMatch(t)
    /\ PollOutlastsCreate => HasContext(t)
    /\ Goto(t, IF IsMain(t) THEN "init" ELSE "child")
    /\ NoEsChange /\ UNCHANGED <<lastOsTask, history>>

(* CFE_ES_CreateChildTask from the main task, up to OS_TaskCreate ... *)
CreateChildTask(t) ==
    LET c == NewOsTask
    IN  /\ At(t, "init")
        /\ HasContext(t) /\ appTable[Context(t)].main = t
        /\ OsTask(t).name \in Parents /\ OsTask(t).child = Free
        /\ c # Free
        /\ lastOsTask' = c
        /\ osTasks' = [osTasks EXCEPT
             ![LocateTaskRecordByID(t)].pc = "spawn",
             ![LocateTaskRecordByID(t)].child = c,
             ![LocateTaskRecordByID(c)] = [NoOsTask EXCEPT !.id = c, !.pc = "entry",
                                                           !.app = OsTask(t).app]]
        /\ NoEsChange /\ UNCHANGED history

(* ... and the locked section of StartAppTask. *)
StartChildTask(t) ==
    /\ At(t, "spawn")
    /\ SetTaskRecord(OsTask(t).child, OsTask(t).app)
    /\ Goto(t, "init")
    /\ UNCHANGED <<appTable, lastAppId, registeredApps, lastOsTask, cmd, create, bg, scan,
                   history, cmds>>

DropTaskRecord(t) ==
    /\ taskTable' = [taskTable EXCEPT ![LocateTaskRecordByID(t)] = FreeTask]
    /\ registeredTasks' = registeredTasks - 1
    /\ UNCHANGED <<appTable, lastAppId, registeredApps, lastOsTask, cmd, create, bg, scan,
                   history, cmds>>

DeleteChildTask(t) ==
    LET c == OsTask(t).child
    IN  /\ At(t, "loop") /\ c # Free
        /\ TaskRecordIsMatch(c) /\ ~IsMain(c) /\ OsAlive(c)
        /\ osTasks' = WithoutTask(c)
        /\ DropTaskRecord(c)

(* Mutant: the child's record is not matched before it is dropped. *)
MutExitChildTask(t) ==
    /\ At(t, "child")
    /\ Goto(t, "exiting")
    /\ DropTaskRecord(t)

ExitChildTask(t) ==
    /\ At(t, "child")
    /\ HasContext(t) /\ appTable[Context(t)].main # t
    /\ Goto(t, "exiting")
    /\ DropTaskRecord(t)

OS_TaskExit(t) ==
    /\ At(t, "exiting")
    /\ osTasks' = WithoutTask(t)
    /\ NoEsChange /\ UNCHANGED <<lastOsTask, history>>

(* CFE_ES_RunLoop: false ends the application's main loop. *)
RunLoop(t) ==
    /\ At(t, "init") \/ At(t, "loop")
    /\ IF HasContext(t)
         THEN /\ appTable' = [appTable EXCEPT ![Context(t)].state = IF @ = "INIT" THEN "RUNNING" ELSE @]
              /\ Goto(t, IF appTable[Context(t)].req = "APP_RUN" THEN "loop" ELSE "leave")
         ELSE Goto(t, "leave") /\ UNCHANGED appTable
    /\ UNCHANGED <<lastAppId, taskTable, registeredApps, registeredTasks, lastOsTask, cmd,
                   create, bg, scan, history, cmds>>

(* The application gives up by itself, in its initialisation or later. *)
GiveUp(t) ==
    /\ At(t, "init") \/ At(t, "loop")
    /\ Goto(t, "leave")
    /\ NoEsChange /\ UNCHANGED <<lastOsTask, history>>

(* Mutant: the exit status always replaces the request. *)
MutExitRequest(rec, r) == r

(* A request of the ground that is pending already is not overwritten. *)
ExitRequest(rec, r) == IF rec.req = "APP_RUN" THEN r ELSE rec.req

(* CFE_ES_ExitApp: the task waits to be killed; without a record it just   *)
(* returns, and the task's function with it.                               *)
ExitApp(t, r) ==
    /\ At(t, "leave")
    /\ IF HasContext(t)
         THEN /\ appTable' = [appTable EXCEPT ![Context(t)].req = ExitRequest(appTable[Context(t)], r),
                                              ![Context(t)].state = "STOPPED"]
              /\ Goto(t, "suspended")
         ELSE osTasks' = WithoutTask(t) /\ UNCHANGED appTable
    /\ UNCHANGED <<lastAppId, taskTable, registeredApps, registeredTasks, lastOsTask, cmd,
                   create, bg, scan, history, cmds>>

(* A call into another service (CFE_SB_CreatePipe, CFE_EVS_Register, ...)  *)
(* asks ES for the caller's id first and allocates under its own lock.     *)
EnterService(t) ==
    /\ At(t, "loop") \/ At(t, "child")
    /\ HasContext(t)
    /\ Goto(t, IF At(t, "loop") THEN "call" ELSE "childcall")
    /\ NoEsChange /\ UNCHANGED <<lastOsTask, history>>

Allocate(t) ==
    /\ At(t, "call") \/ At(t, "childcall")
    /\ resources' = resources \cup {OsTask(t).app}
    /\ Goto(t, IF At(t, "call") THEN "loop" ELSE "child")
    /\ NoEsChange /\ UNCHANGED <<lastOsTask, forced>>

(***************************************************************************)
(* Specification.                                                          *)
(***************************************************************************)
AppCreate(p) == LoadModule(p) \/ StartAppTask(p) \/ FinishCreate(p)

CommandTask ==
    \/ \E n \in Names, f \in Files :
         \/ StartAppCmd(n, f)
         \/ GetAppIDByName(n, "SYS_RELOAD", f)
    \/ \E n \in Names, k \in {"SYS_DELETE", "SYS_RESTART"} : GetAppIDByName(n, k, NoFile)
    \/ RequestApp
    \/ AppCreate("cmd")

BackgroundTask ==
    \/ \E e \in 1 .. MaxElapsed : RunAppTableScan(e)
    \/ ProcessControlRequest
    \/ CollectResources
    \/ CleanUpServices
    \/ \E t \in bg.left : CleanupTaskResources(t)
    \/ FreeRecords
    \/ RestartCreate
    \/ AppCreate("bg")

AppTask(t) ==
    \/ TaskEntryPoint(t) \/ RunLoop(t) \/ GiveUp(t)
    \/ \E r \in {"APP_EXIT", "APP_ERROR"} : ExitApp(t, r)
    \/ CreateChildTask(t) \/ StartChildTask(t) \/ DeleteChildTask(t)
    \/ ExitChildTask(t) \/ OS_TaskExit(t)
    \/ EnterService(t) \/ Allocate(t)

Next ==
    \/ CommandTask
    \/ BackgroundTask
    \/ \E t \in LiveTasks : AppTask(t)

Spec == Init /\ [][Next]_vars

(* The background task waits on a semaphore with a timeout and so always   *)
(* runs again, and none of its steps waits for an application.  Nothing is *)
(* assumed of the applications, which may hang, nor of the ground.         *)
FairSpec == Spec /\ WF_vars(BackgroundTask)

(***************************************************************************)
(* Properties.                                                             *)
(***************************************************************************)
(* Shape of the ES tables and of the work in progress. *)
TypeOK ==
    /\ \A s \in AppSlots :
         LET rec == appTable[s]
         IN  /\ rec.id \in {Free, Reserved} \cup {i \in 1 .. lastAppId : i % MaxApps = s}
             /\ rec.state \in AppStates /\ rec.req \in Requests
             /\ rec.timer \in 0 .. KillTimeout * ScanRate
             /\ rec.file \in Files \cup {NoFile} /\ rec.main \in 0 .. lastOsTask
    /\ \A s \in TaskSlots :
         /\ taskTable[s].id \in {Free, Reserved} \cup {i \in 1 .. lastOsTask : i % MaxTasks = s}
         /\ taskTable[s].app \in 0 .. lastAppId
    /\ registeredApps \in 0 .. MaxApps /\ registeredTasks \in 0 .. MaxTasks
    /\ \A i \in DOMAIN bg.list : bg.list[i] \in 1 .. lastAppId
    /\ scan.pending \in 0 .. MaxApps /\ scan.timer \in 1 .. ScanRate
    /\ resources \cup forced \subseteq 1 .. lastAppId /\ cmds \in 0 .. MaxCmds

(* The counts ES reports in housekeeping are those of its tables through   *)
(* every interleaving of creation, child task calls and clean-up: a task   *)
(* that ends while its application is cleaned up is counted out once.      *)
RegisteredExact ==
    /\ registeredApps = Cardinality({s \in AppSlots : appTable[s].id > Free})
    /\ registeredTasks = Cardinality({s \in TaskSlots : taskTable[s].id > Free})

(* Two main tasks of one application name never exist at a time: a restart, *)
(* or a start command that arrives during a clean-up, waits for the old     *)
(* tasks to be deleted.                                                     *)
OneInstance ==
    \A t, u \in LiveTasks :
        (OsTask(t).name # "" /\ OsTask(t).name = OsTask(u).name) => t = u

(* No task survives its application and none loses its record to the       *)
(* clean-up of another: a task that runs finds its task record and its     *)
(* application's, unless its own application is being cleaned up.          *)
NoOrphanTask ==
    \A t \in LiveTasks :
        OsTask(t).pc \notin {"entry", "exiting"} => HasContext(t) \/ t \in bg.left

(* What an application holds in the other services is released with it,    *)
(* however the calls and the clean-up interleave, if it left through       *)
(* CFE_ES_ExitApp and no child task of its ran on.                         *)
ResourcesReleased ==
    \A a \in resources :
        AppRecordIsMatch(a) \/ (bg.id = a /\ bg.pc = "services") \/ a \in forced

(* The lifecycle promised to the ground, as it shows in the tables. *)
Occupied(n) == AppsNamed(n) # {}
RecordOf(n) == appTable[CHOOSE s \in AppsNamed(n) : TRUE]

Phase(state) ==
    CASE state = "INIT" -> "starting"
      [] state = "RUNNING" -> "running"
      [] OTHER -> "stopping"

StatusOf(n) == IF Occupied(n) THEN Phase(RecordOf(n).state) ELSE "absent"
FileOf(n) == IF Occupied(n) THEN RecordOf(n).file ELSE NoFile
RequestOf(n) == IF Occupied(n) THEN RecordOf(n).req ELSE "APP_RUN"
RestartOf(n) == IF bg.pc = "create" /\ bg.name = n THEN bg.file ELSE NoFile

Lifecycle == INSTANCE AppLifecycle WITH
    status <- [n \in Names |-> StatusOf(n)],
    file <- [n \in Names |-> FileOf(n)],
    asked <- [n \in Names |-> RequestOf(n)],
    redo <- [n \in Names |-> RestartOf(n)]

(* Every behaviour of the ES tables is a behaviour of AppLifecycle: the    *)
(* ground's last accepted request wins over the exit it causes, nothing    *)
(* runs on once it stops, and a restart uses the file last named.          *)
LifecycleRefined == Lifecycle!Spec

(* A request that was accepted is carried out, even if the application     *)
(* hangs and ignores it: the record it was left in is given up.            *)
RequestCarriedOut ==
    \A n \in Names :
        (Occupied(n) /\ RecordOf(n).req # "APP_RUN") ~> (~Occupied(n))
=============================================================================
