---------------------- MODULE ExecutiveServicesProofs ----------------------
(***************************************************************************)
(* Proofs about the ES tables.  The invariant says who is responsible for  *)
(* each record that is in transition: a reserved application slot belongs  *)
(* to one AppCreate or to the clean-up, a task that was created and not    *)
(* yet registered is awaited by one caller, and a reserved task record     *)
(* belongs to the clean-up, which has its task on its list.                *)
(***************************************************************************)
EXTENDS ExecutiveServices, FiniteSetTheorems, WellFoundedInduction, TLAPS

TaskPcs == {"none", "entry", "init", "spawn", "loop", "call", "leave", "suspended",
            "child", "childcall", "exiting"}

AppNames == Names \cup {""}      \* "" in records that are not in use

AppRec == [id : Int, name : AppNames, state : AppStates, req : Requests,
           timer : 0 .. KillTimeout * ScanRate, file : Files \cup {NoFile}, main : Nat]
TaskRec == [id : Int, app : Nat]
OsRec == [id : Nat, pc : TaskPcs, app : Nat, name : AppNames, child : Nat]
CreateRec == [pc : {"idle", "load", "register", "finish"}, id : Nat,
              name : AppNames, file : Files \cup {NoFile}, task : Nat]
CmdRec == [pc : {"idle", "ask"}, id : Int, kind : Requests \cup {"none"},
           file : Files \cup {NoFile}]
BgRec == [pc : {"idle", "collect", "services", "tasks", "create", "creating"},
          list : Seq(Int), id : Nat, req : Requests, name : AppNames,
          file : Files \cup {NoFile}, tasks : SUBSET Nat, left : SUBSET Nat]
ScanRec == [pending : 0 .. MaxApps, timer : 1 .. ScanRate, newCmd : BOOLEAN]

TablesTyped ==
    /\ appTable \in [AppSlots -> AppRec]
    /\ taskTable \in [TaskSlots -> TaskRec]
    /\ osTasks \in [TaskSlots -> OsRec]
    /\ create \in [Creators -> CreateRec]
    /\ lastAppId \in Nat /\ lastOsTask \in Nat

WorkTyped ==
    /\ cmd \in CmdRec /\ (cmd.pc = "ask" => cmd.kind \in {"SYS_DELETE", "SYS_RESTART", "SYS_RELOAD"})
    /\ bg \in BgRec
    /\ scan \in ScanRec
    /\ cmds \in 0 .. MaxCmds

-----------------------------------------------------------------------------
(* Ids are serial numbers given out so far, each found at its slot.          *)
AppIds ==
    \A s \in AppSlots :
        /\ appTable[s].main <= lastOsTask
        /\ \/ appTable[s].id \in {Free, Reserved}
           \/ appTable[s].id \in 1 .. lastAppId /\ LocateAppRecordByID(appTable[s].id) = s

TaskIds ==
    \A s \in TaskSlots :
        /\ taskTable[s].app <= lastAppId
        /\ \/ taskTable[s].id \in {Free, Reserved}
           \/ taskTable[s].id \in 1 .. lastOsTask /\ LocateTaskRecordByID(taskTable[s].id) = s
        /\ taskTable[s].id # Free => taskTable[s].app >= 1

OsIds ==
    \A s \in TaskSlots :
        /\ osTasks[s].child <= lastOsTask
        /\ osTasks[s].id # Free =>
             /\ osTasks[s].id <= lastOsTask /\ LocateTaskRecordByID(osTasks[s].id) = s
             /\ osTasks[s].app \in 1 .. lastAppId

CreateIds ==
    \A p \in Creators :
        /\ create[p].task <= lastOsTask
        /\ create[p].pc # "idle" => create[p].id \in 1 .. lastAppId
        /\ create[p].pc = "load" => create[p].task = Free
        /\ create[p].pc = "register" => create[p].task # Free

Cleaning == bg.pc \in {"services", "tasks"}

BgIds ==
    /\ bg.pc \in {"collect", "services", "tasks"} => bg.id \in 1 .. lastAppId
    /\ \A t \in bg.left : t \in 1 .. lastOsTask
    /\ ~Cleaning => bg.left = {}
    /\ create["bg"].pc # "idle" => bg.pc = "creating"

Ids == AppIds /\ TaskIds /\ OsIds /\ CreateIds /\ BgIds

-----------------------------------------------------------------------------
(* A task record tells the truth: its task exists and is the application's.  *)
RecordsTrue ==
    \A s \in TaskSlots : taskTable[s].id > Free =>
        /\ osTasks[s].id = taskTable[s].id /\ osTasks[s].app = taskTable[s].app
        /\ osTasks[s].pc # "exiting"

(* A reserved task record is the clean-up's, which will set it free. *)
ReservedListed ==
    \A s \in TaskSlots : taskTable[s].id = Reserved =>
        Cleaning /\ \E t \in bg.tasks : LocateTaskRecordByID(t) = s

(* A task that was created for application a and has no record yet. *)
Unregistered(t, a) ==
    /\ t # Free /\ OsAlive(t) /\ OsTask(t).pc = "entry" /\ OsTask(t).app = a
    /\ ~TaskRecordIsMatch(t)

(* The callers that have created a task and will register it next. *)
CreatorAwaits(p, t) == create[p].pc = "register" /\ create[p].task = t
ParentAwaits(s, t) == osTasks[s].id # Free /\ osTasks[s].pc = "spawn" /\ osTasks[s].child = t

Awaited ==
    /\ \A p \in Creators : create[p].pc = "register" =>
         /\ Unregistered(create[p].task, create[p].id)
         /\ OsTask(create[p].task).name = create[p].name
    /\ \A s \in TaskSlots : (osTasks[s].id # Free /\ osTasks[s].pc = "spawn") =>
         Unregistered(osTasks[s].child, osTasks[s].app)

AwaitedOnce ==
    /\ \A p, q \in Creators :
         (create[p].pc = "register" /\ CreatorAwaits(q, create[p].task)) => p = q
    /\ \A p \in Creators, s \in TaskSlots :
         create[p].pc = "register" => ~ParentAwaits(s, create[p].task)
    /\ \A s, q \in TaskSlots :
         (osTasks[s].id # Free /\ osTasks[s].pc = "spawn" /\ ParentAwaits(q, osTasks[s].child))
            => s = q

-----------------------------------------------------------------------------
(* A reserved application slot has exactly one holder. *)
CreatesHoldSlot ==
    \A p \in Creators : create[p].pc # "idle" =>
        LET rec == appTable[LocateAppRecordByID(create[p].id)]
        IN  /\ rec.id = Reserved /\ rec.name = create[p].name /\ rec.state = "INIT"
            /\ rec.main = IF create[p].pc = "finish" THEN create[p].task ELSE Free

CleanupHoldsSlot ==
    Cleaning => appTable[LocateAppRecordByID(bg.id)].id = Reserved

HoldersApart ==
    /\ \A p, q \in Creators :
         (create[p].pc # "idle" /\ create[q].pc # "idle"
            /\ LocateAppRecordByID(create[p].id) = LocateAppRecordByID(create[q].id)) => p = q
    /\ \A p \in Creators :
         (create[p].pc # "idle" /\ Cleaning) =>
            LocateAppRecordByID(create[p].id) # LocateAppRecordByID(bg.id)

ReservedHeld ==
    \A s \in AppSlots : appTable[s].id = Reserved =>
        \/ \E p \in Creators : create[p].pc # "idle" /\ LocateAppRecordByID(create[p].id) = s
        \/ Cleaning /\ LocateAppRecordByID(bg.id) = s

NamesApart ==
    \A s, q \in AppSlots :
        (IsUsed(appTable[s]) /\ IsUsed(appTable[q]) /\ appTable[s].name = appTable[q].name) => s = q

-----------------------------------------------------------------------------
(* A task that carries an application's name is its main task, or is about   *)
(* to be recorded as that.                                                   *)
Named(s) == osTasks[s].name # ""

MainsNamed ==
    \A s \in TaskSlots : (osTasks[s].id # Free /\ Named(s)) =>
        LET rec == appTable[LocateAppRecordByID(osTasks[s].app)]
        IN  /\ IsUsed(rec) /\ rec.name = osTasks[s].name
            /\ rec.main = osTasks[s].id \/ \E p \in Creators : CreatorAwaits(p, osTasks[s].id)

(* A main task that still exists has its record. *)
MainRecorded(m, a) ==
    (m # Free /\ OsAlive(m)) => taskTable[LocateTaskRecordByID(m)] = [id |-> m, app |-> a]

MainsRecorded ==
    /\ \A q \in AppSlots : appTable[q].id > Free => MainRecorded(appTable[q].main, appTable[q].id)
    /\ \A p \in Creators : create[p].pc = "finish" => MainRecorded(create[p].task, create[p].id)

(* The clean-up has the main task on its list until it is deleted, ... *)
MainListed ==
    Cleaning =>
        LET m == appTable[LocateAppRecordByID(bg.id)].main
        IN  (m # Free /\ OsAlive(m)) => m \in bg.left

(* ... and what is on the list is the application's, and nobody else's. *)
LeftOvers ==
    \A t \in bg.left : OsAlive(t) =>
        /\ OsTask(t).app = bg.id /\ (OsTask(t).pc # "suspended" => bg.id \in forced)
        /\ taskTable[LocateTaskRecordByID(t)].id = Reserved
        /\ \A p \in Creators : ~CreatorAwaits(p, t)
        /\ \A s \in TaskSlots : ~ParentAwaits(s, t)

(* HasContext and NoOrphanTask, slot by slot. *)
InContext(s) ==
    /\ taskTable[s].id = osTasks[s].id
    /\ appTable[LocateAppRecordByID(taskTable[s].app)].id = taskTable[s].app

TasksInContext ==
    \A s \in TaskSlots :
        (osTasks[s].id # Free /\ osTasks[s].pc \notin {"entry", "exiting"}) =>
            InContext(s) \/ osTasks[s].id \in bg.left

Core ==
    /\ RecordsTrue /\ ReservedListed /\ Awaited /\ AwaitedOnce
    /\ CreatesHoldSlot /\ CleanupHoldsSlot /\ HoldersApart /\ ReservedHeld /\ NamesApart
    /\ MainsNamed /\ MainsRecorded /\ MainListed /\ LeftOvers /\ TasksInContext

(* The applications to process are applications. *)
ListIds == \A i \in DOMAIN bg.list : bg.list[i] \in 1 .. lastAppId

HistoryIds == resources \subseteq 1 .. lastAppId /\ forced \subseteq 1 .. lastAppId

IInv ==
    /\ TablesTyped /\ WorkTyped /\ Ids /\ Core
    /\ ListIds /\ HistoryIds /\ RegisteredExact /\ ResourcesReleased

-----------------------------------------------------------------------------
(* Facts about constants and operators.                                      *)

\* The sizes are numbers.
LEMMA Sizes ==
  /\ MaxApps \in Nat \ {0} /\ MaxTasks \in Nat \ {0}
  /\ ScanRate \in Nat \ {0} /\ KillTimeout \in Nat \ {0} /\ MaxElapsed \in Nat \ {0}
  /\ MaxCmds \in Nat
BY ESAssumption

\* An id is located at a slot of its table.
LEMMA Slots ==
  /\ \A i \in Int : LocateAppRecordByID(i) \in AppSlots
  /\ \A i \in Int : LocateTaskRecordByID(i) \in TaskSlots
<1>1. ASSUME NEW i \in Int, NEW n \in Nat \ {0} PROVE i % n \in 0 .. n - 1
  OBVIOUS
<1> QED BY <1>1, Sizes DEF LocateAppRecordByID, LocateTaskRecordByID, AppSlots, TaskSlots

\* A set of natural numbers that is not empty contains its minimum.
LEMMA MinIn ==
  ASSUME NEW S \in SUBSET Nat, S # {}
  PROVE  Min(S) \in S
<1>1. PICK x \in S : \A y \in S : <<y, x>> \notin OpToRel(<, Nat)
  BY WFMin, NatLessThanWellFounded
<1>2. \A y \in S : ~ (y < x)
  BY <1>1 DEF OpToRel
<1>3. \A y \in S : x <= y
  BY <1>2
<1> QED BY <1>3 DEF Min

\* OS_TaskCreate gives a serial number that was never used and a free slot.
LEMMA NewTaskIsNew ==
  ASSUME TablesTyped, NewOsTask # Free
  PROVE  /\ NewOsTask \in Nat /\ NewOsTask > lastOsTask
         /\ osTasks[LocateTaskRecordByID(NewOsTask)].id = Free
<1> DEFINE open == {i \in lastOsTask + 1 .. lastOsTask + MaxTasks : ~(osTasks[i % MaxTasks].id # Free)}
<1>1. NewOsTask = IF open = {} THEN Free ELSE Min(open)
  BY DEF NewOsTask, FindNext
<1>2. open \in SUBSET Nat /\ \A i \in open : i > lastOsTask
  BY Sizes DEF TablesTyped
<1>3. open # {} /\ NewOsTask = Min(open)
  BY <1>1
<1> HIDE DEF open
<1>4. NewOsTask \in open
  BY <1>2, <1>3, MinIn
<1> QED BY <1>2, <1>4 DEF open, LocateTaskRecordByID

\* So does CFE_ResourceId_FindNext for an application.
LEMMA NewAppIsNew ==
  ASSUME TablesTyped, NewAppId # Free
  PROVE  /\ NewAppId \in Nat /\ NewAppId > lastAppId
         /\ appTable[LocateAppRecordByID(NewAppId)].id = Free
<1> DEFINE open == {i \in lastAppId + 1 .. lastAppId + MaxApps : ~(appTable[i % MaxApps].id # Free)}
<1>1. NewAppId = IF open = {} THEN Free ELSE Min(open)
  BY DEF NewAppId, FindNext, IsUsed
<1>2. open \in SUBSET Nat /\ \A i \in open : i > lastAppId
  BY Sizes DEF TablesTyped
<1>3. open # {} /\ NewAppId = Min(open)
  BY <1>1
<1> HIDE DEF open
<1>4. NewAppId \in open
  BY <1>2, <1>3, MinIn
<1> QED BY <1>2, <1>4 DEF open, LocateAppRecordByID

\* The fields of the tables have their types.
FieldTypes ==
    /\ \A s \in AppSlots : appTable[s].id \in Int /\ appTable[s].main \in Nat
    /\ \A s \in TaskSlots : taskTable[s].id \in Int /\ taskTable[s].app \in Nat
    /\ \A s \in TaskSlots : osTasks[s].id \in Nat /\ osTasks[s].app \in Nat
                              /\ osTasks[s].child \in Nat
    /\ \A p \in Creators : create[p].id \in Nat /\ create[p].task \in Nat
    /\ lastAppId \in Nat /\ lastOsTask \in Nat

\* The fields of a slot without a task.
LEMMA NoTaskFields ==
  /\ NoOsTask.id = Free /\ NoOsTask.pc = "none" /\ NoOsTask.app = Free /\ NoOsTask.child = Free
  /\ NoOsTask.name = ""
BY DEF NoOsTask

\* The fields of typed tables, one by one.
LEMMA Fields == ASSUME TablesTyped PROVE FieldTypes
BY DEF FieldTypes, TablesTyped, AppRec, TaskRec, OsRec, CreateRec

-----------------------------------------------------------------------------
(* Steps that leave the invariant's view of the tables alone: requests,      *)
(* states and timers of applications change, and tasks move on.              *)
QuietApps ==
    \A s \in AppSlots :
        /\ appTable'[s].id = appTable[s].id /\ appTable'[s].name = appTable[s].name
        /\ appTable'[s].main = appTable[s].main
        /\ (appTable[s].id = Reserved /\ appTable[s].state = "INIT") => appTable'[s].state = "INIT"

QuietTasks ==
    \A s \in TaskSlots :
        /\ osTasks'[s].id = osTasks[s].id /\ osTasks'[s].app = osTasks[s].app
        /\ osTasks'[s].name = osTasks[s].name /\ osTasks'[s].child = osTasks[s].child
        /\ osTasks'[s].pc # osTasks[s].pc =>
             /\ osTasks'[s].pc \notin {"entry", "spawn", "exiting"}
             /\ osTasks[s].pc \notin {"spawn", "suspended", "exiting"}
             /\ osTasks[s].pc = "entry" => InContext(s)

QuietBg ==
    /\ Cleaning => bg'.tasks = bg.tasks
    /\ bg'.left = bg.left
    /\ Cleaning' <=> Cleaning
    /\ Cleaning => bg'.id = bg.id

\* A quiet step gives out no ids.
LEMMA QuietIds ==
  ASSUME TablesTyped, Ids, QuietApps, QuietTasks,
         taskTable' = taskTable, create' = create,
         lastAppId' = lastAppId, lastOsTask' = lastOsTask
  PROVE  AppIds' /\ TaskIds' /\ OsIds' /\ CreateIds'
<1>1. AppIds' /\ TaskIds' /\ CreateIds'
  BY DEF Ids, AppIds, TaskIds, CreateIds, QuietApps
<1>2. OsIds'
  BY DEF Ids, OsIds, QuietTasks
<1> QED BY <1>1, <1>2

\* A quiet step leaves everybody's responsibilities as they are.
LEMMA QuietStep ==
  ASSUME TablesTyped, Ids, Core, QuietApps, QuietTasks, QuietBg,
         taskTable' = taskTable, create' = create, forced' = forced
  PROVE  Core'
<1>0. FieldTypes
  BY Fields
<1> USE <1>0, Slots DEF FieldTypes
<1>1. \A s \in TaskSlots : /\ osTasks'[s].pc = "entry" => osTasks[s].pc = "entry"
                           /\ osTasks'[s].pc = "spawn" => osTasks[s].pc = "spawn"
                           /\ osTasks'[s].pc = "exiting" => osTasks[s].pc = "exiting"
                           /\ osTasks[s].pc = "spawn" => osTasks'[s].pc = "spawn"
                           /\ osTasks[s].pc = "suspended" => osTasks'[s].pc = "suspended"
  BY DEF QuietTasks
<1>2. \A s \in TaskSlots : /\ osTasks'[s].id = osTasks[s].id /\ osTasks'[s].app = osTasks[s].app
                           /\ osTasks'[s].name = osTasks[s].name
                           /\ osTasks'[s].child = osTasks[s].child
  BY DEF QuietTasks
<1>3. RecordsTrue'
  BY <1>1, <1>2 DEF Core, RecordsTrue
<1>4. ReservedListed'
  BY DEF Core, ReservedListed, QuietBg
<1>5. ASSUME NEW t \in Nat, NEW a \in Nat, Unregistered(t, a)
      PROVE  Unregistered(t, a)'
  <2>1. osTasks[LocateTaskRecordByID(t)].pc = "entry" /\ osTasks[LocateTaskRecordByID(t)].id = t
    BY <1>5 DEF Unregistered, OsAlive, OsTask
  <2>2. ~InContext(LocateTaskRecordByID(t))
    BY <1>5 DEF Unregistered, InContext, OsAlive, TaskRecordIsMatch
  <2>3. osTasks'[LocateTaskRecordByID(t)].pc = "entry"
    BY <2>1, <2>2 DEF QuietTasks
  <2> QED BY <1>2, <1>5, <2>3 DEF Unregistered, OsAlive, OsTask, TaskRecordIsMatch
<1>6. Awaited'
  <2>1. ASSUME NEW p \in Creators, create[p].pc = "register"
        PROVE  Unregistered(create[p].task, create[p].id)' /\ OsTask(create[p].task)'.name = create[p].name
    BY <1>2, <1>5, <2>1 DEF Core, Awaited, OsTask
  <2>2. ASSUME NEW s \in TaskSlots, osTasks'[s].id # Free, osTasks'[s].pc = "spawn"
        PROVE  Unregistered(osTasks[s].child, osTasks[s].app)'
    BY <1>1, <1>2, <1>5, <2>2 DEF Core, Awaited
  <2> QED BY <1>2, <2>1, <2>2 DEF Awaited, Unregistered, OsAlive, OsTask, TaskRecordIsMatch
<1>7. AwaitedOnce'
  BY <1>1, <1>2 DEF Core, AwaitedOnce, CreatorAwaits, ParentAwaits
<1>8. CreatesHoldSlot' /\ CleanupHoldsSlot'
  <2>1. CreatesHoldSlot'
    BY DEF Core, CreatesHoldSlot, QuietApps
  <2>2. CleanupHoldsSlot'
    <3>1. Cleaning => bg.id \in Nat
      BY DEF Ids, BgIds, Cleaning
    <3> QED BY <3>1 DEF Core, CleanupHoldsSlot, QuietApps, QuietBg
  <2> QED BY <2>1, <2>2
<1>9. HoldersApart' /\ ReservedHeld' /\ NamesApart'
  BY DEF Core, HoldersApart, ReservedHeld, NamesApart, QuietApps, QuietBg, IsUsed
<1>10. MainsNamed'
  <2>1. \A s \in TaskSlots : Named(s)' <=> Named(s)
    BY <1>2 DEF Named
  <2> QED BY <1>2, <2>1 DEF Core, MainsNamed, QuietApps, IsUsed, CreatorAwaits
<1>11. MainsRecorded'
  BY <1>2 DEF Core, MainsRecorded, MainRecorded, QuietApps, OsAlive
<1>12. MainListed'
  <2>1. Cleaning => bg.id \in Nat
    BY DEF Ids, BgIds, Cleaning
  <2> QED BY <1>2, <2>1 DEF Core, MainListed, QuietApps, QuietBg, OsAlive
<1>13. LeftOvers'
  <2>1. \A t \in bg.left : t \in Nat /\ Cleaning
    BY DEF Ids, BgIds
  <2> QED BY <1>1, <1>2, <2>1 DEF Core, LeftOvers, QuietBg, OsAlive, OsTask, CreatorAwaits, ParentAwaits
<1>14. TasksInContext'
  <2>1. \A s \in TaskSlots : InContext(s) => InContext(s)'
    BY <1>2 DEF InContext, QuietApps
  <2> QED BY <1>1, <1>2, <2>1 DEF Core, TasksInContext, QuietTasks, QuietBg
<1> QED BY <1>3, <1>4, <1>6, <1>7, <1>8, <1>9, <1>10, <1>11, <1>12, <1>13, <1>14 DEF Core

-----------------------------------------------------------------------------
(* CFE_ES_AppCreate takes a slot.                                            *)
LEMMA ReserveStep ==
  ASSUME TablesTyped, Ids, Core, NEW p \in Creators, NEW n, NEW f,
         create[p].pc = "idle", CanReserve(n), Reserve(p, n, f),
         osTasks' = osTasks, lastOsTask' = lastOsTask, forced' = forced, QuietBg
  PROVE  AppIds' /\ TaskIds' /\ OsIds' /\ CreateIds' /\ Core'
<1> DEFINE a == NewAppId
           z == LocateAppRecordByID(a)
<1>0. FieldTypes
  BY Fields
<1>1. a \in Nat /\ a > lastAppId /\ appTable[z].id = Free /\ AppsNamed(n) = {}
  BY NewAppIsNew DEF CanReserve
<1>2. z \in AppSlots
  BY <1>1, Slots
<1>3. /\ taskTable' = taskTable /\ lastAppId' = a
      /\ \A s \in AppSlots : s # z => appTable'[s] = appTable[s]
      /\ appTable'[z].id = Reserved /\ appTable'[z].name = n /\ appTable'[z].state = "INIT"
      /\ appTable'[z].main = Free
  BY <1>2 DEF Reserve, TablesTyped, FreeApp
<1>4. /\ \A q \in Creators : q # p => create'[q] = create[q]
      /\ create'[p].pc = "load" /\ create'[p].id = a /\ create'[p].name = n
      /\ create'[p].task = Free
  BY DEF Reserve, TablesTyped, NoCreate
<1> HIDE DEF a, z
<1> USE <1>0, Slots DEF FieldTypes, Free, Reserved
<1>5. AppIds' /\ TaskIds' /\ OsIds' /\ CreateIds'
  <2>1. AppIds'
    BY <1>1, <1>2, <1>3 DEF Ids, AppIds
  <2>2. TaskIds' /\ OsIds'
    BY <1>1, <1>3 DEF Ids, TaskIds, OsIds
  <2>3. CreateIds'
    BY <1>1, <1>3, <1>4 DEF Ids, CreateIds
  <2> QED BY <2>1, <2>2, <2>3
<1>6. RecordsTrue' /\ ReservedListed'
  BY <1>3 DEF Core, RecordsTrue, ReservedListed, QuietBg
<1>7. Awaited' /\ AwaitedOnce'
  BY <1>3, <1>4 DEF Core, Awaited, AwaitedOnce, Unregistered, OsAlive, OsTask, TaskRecordIsMatch,
                    CreatorAwaits, ParentAwaits
<1>8. \A q \in Creators : (q # p /\ create[q].pc # "idle") => LocateAppRecordByID(create[q].id) # z
  BY <1>1 DEF Core, CreatesHoldSlot
<1>9. Cleaning => LocateAppRecordByID(bg.id) # z /\ LocateAppRecordByID(bg.id) \in AppSlots
  BY <1>1 DEF Core, CleanupHoldsSlot, Ids, BgIds, Cleaning
<1>10. CreatesHoldSlot'
  BY <1>3, <1>4, <1>8 DEF Core, CreatesHoldSlot, z
<1>11. CleanupHoldsSlot'
  BY <1>3, <1>9 DEF Core, CleanupHoldsSlot, QuietBg
<1>12. HoldersApart'
  BY <1>4, <1>8, <1>9 DEF Core, HoldersApart, QuietBg, z
<1>13. ReservedHeld'
  BY <1>3, <1>4 DEF Core, ReservedHeld, QuietBg, z
<1>14. NamesApart'
  <2>1. \A s \in AppSlots : IsUsed(appTable[s]) => appTable[s].name # n
    BY <1>1 DEF AppsNamed
  <2> QED BY <1>3, <2>1 DEF Core, NamesApart, IsUsed
<1>15. MainsNamed'
  <2>1. \A s \in TaskSlots : Named(s)' <=> Named(s)
    BY DEF Named
  <2>2. \A s \in TaskSlots : LocateAppRecordByID(osTasks[s].app) \in AppSlots
    OBVIOUS
  <2>3. \A q \in Creators, t \in Nat : CreatorAwaits(q, t) => CreatorAwaits(q, t)'
    BY <1>4 DEF CreatorAwaits
  <2> SUFFICES ASSUME NEW s \in TaskSlots, osTasks[s].id # Free, Named(s)
               PROVE  LET rec == appTable'[LocateAppRecordByID(osTasks[s].app)]
                      IN  /\ IsUsed(rec) /\ rec.name = osTasks[s].name
                          /\ \/ rec.main = osTasks[s].id
                             \/ \E q \in Creators : CreatorAwaits(q, osTasks[s].id)'
    BY <2>1 DEF MainsNamed, CreatorAwaits
  <2>4. LocateAppRecordByID(osTasks[s].app) # z
    BY <1>1 DEF Core, MainsNamed, IsUsed
  <2> QED BY <1>3, <2>2, <2>3, <2>4 DEF Core, MainsNamed
<1>16. MainsRecorded'
  BY <1>3, <1>4 DEF Core, MainsRecorded, MainRecorded, OsAlive
<1>17. MainListed'
  BY <1>3, <1>9 DEF Core, MainListed, QuietBg, OsAlive
<1>18. LeftOvers'
  <2>1. \A t \in bg.left : t \in Nat /\ Cleaning
    BY DEF Ids, BgIds
  <2> QED BY <1>3, <1>4, <2>1 DEF Core, LeftOvers, QuietBg, OsAlive, OsTask, CreatorAwaits, ParentAwaits
<1>19. TasksInContext'
  <2>1. \A s \in TaskSlots : (InContext(s) /\ osTasks[s].id # Free) => InContext(s)'
    BY <1>1, <1>3 DEF InContext, Ids, TaskIds
  <2> QED BY <2>1 DEF Core, TasksInContext, QuietBg
<1> QED BY <1>5, <1>6, <1>7, <1>10, <1>11, <1>12, <1>13, <1>14, <1>15, <1>16, <1>17, <1>18, <1>19
        DEF Core

-----------------------------------------------------------------------------
(* A task ends: it is deleted, or has dropped its record and is leaving.     *)
Deleted(z) == osTasks'[z] = NoOsTask

Leaves(z, t) ==
    /\ osTasks'[z] = [osTasks[z] EXCEPT !.pc = "exiting"] /\ taskTable'[z] = FreeTask
    /\ t \notin bg.left
    /\ \A q \in AppSlots : appTable[q].id > Free => appTable[q].main # t
    /\ \A p \in Creators : create[p].pc = "finish" => create[p].task # t

TaskEnds(z, t) ==
    /\ osTasks[z].id = t
    /\ Deleted(z) \/ Leaves(z, t)
    /\ taskTable'[z] = FreeTask \/ (taskTable'[z] = taskTable[z] /\ taskTable[z].id # t)
    /\ \A s \in TaskSlots : s # z => osTasks'[s] = osTasks[s] /\ taskTable'[s] = taskTable[s]
    /\ \A p \in Creators : ~CreatorAwaits(p, t)
    /\ \A s \in TaskSlots : ~ParentAwaits(s, t)
    /\ appTable' = appTable /\ create' = create /\ forced' = forced
    /\ lastAppId' = lastAppId /\ lastOsTask' = lastOsTask
    /\ bg'.tasks = bg.tasks /\ (Cleaning' <=> Cleaning) /\ (Cleaning => bg'.id = bg.id)
    /\ bg'.left = bg.left \/ (bg'.left = bg.left \ {t} /\ Deleted(z))

\* A task that ends, by itself or deleted, leaves no record behind it and is not
\* awaited by anybody.
LEMMA TaskEndsStep ==
  ASSUME TablesTyped, Ids, Core, NEW z \in TaskSlots, NEW t \in Nat \ {0}, TaskEnds(z, t)
  PROVE  AppIds' /\ TaskIds' /\ OsIds' /\ CreateIds' /\ Core'
<1>0. FieldTypes
  BY Fields
<1>1. /\ osTasks[z].id = t
      /\ \A s \in TaskSlots : s # z => osTasks'[s] = osTasks[s] /\ taskTable'[s] = taskTable[s]
      /\ appTable' = appTable /\ create' = create /\ forced' = forced
      /\ lastAppId' = lastAppId /\ lastOsTask' = lastOsTask
      /\ bg'.tasks = bg.tasks /\ (Cleaning' <=> Cleaning) /\ (Cleaning => bg'.id = bg.id)
      /\ bg'.left \subseteq bg.left
      /\ \A p \in Creators : ~CreatorAwaits(p, t)
      /\ \A s \in TaskSlots : ~ParentAwaits(s, t)
  BY DEF TaskEnds
<1>2. /\ osTasks'[z].pc # "spawn" /\ osTasks'[z].pc # "entry"
      /\ osTasks'[z].id = Free \/ osTasks'[z].pc = "exiting"
      /\ \/ osTasks'[z].id = Free /\ osTasks'[z].child = Free
         \/ /\ osTasks'[z].id = t /\ osTasks'[z].app = osTasks[z].app
            /\ osTasks'[z].name = osTasks[z].name /\ osTasks'[z].child = osTasks[z].child
            /\ Leaves(z, t) /\ bg'.left = bg.left
  <2>1. CASE Deleted(z)
    BY <2>1, NoTaskFields DEF Deleted
  <2>2. CASE ~Deleted(z)
    <3>1. Leaves(z, t) /\ bg'.left = bg.left
      BY <2>2 DEF TaskEnds
    <3>2. osTasks[z] \in OsRec
      BY DEF TablesTyped
    <3> QED BY <1>1, <3>1, <3>2 DEF Leaves, OsRec
  <2> QED BY <2>1, <2>2
<1>3. /\ \/ taskTable'[z].id = Free /\ taskTable'[z].app = 0
         \/ taskTable'[z] = taskTable[z]
      /\ taskTable'[z].id # t /\ taskTable'[z].id \in Int
  BY <1>0 DEF TaskEnds, FreeTask, Free, FieldTypes
<1>4. \A u \in bg.left : u \in Nat /\ (u = t \/ u \in bg'.left)
  BY DEF Ids, BgIds, TaskEnds
<1>5. ~(taskTable'[z].id > 0)
  BY <1>0, <1>1, <1>3 DEF Core, RecordsTrue, FieldTypes, Free
<1> USE <1>0, Slots DEF FieldTypes, Free, Reserved
<1>6. AppIds' /\ TaskIds' /\ OsIds' /\ CreateIds'
  <2>1. AppIds' /\ CreateIds'
    BY <1>1 DEF Ids, AppIds, CreateIds
  <2>2. TaskIds'
    BY <1>1, <1>3 DEF Ids, TaskIds
  <2>3. OsIds'
    BY <1>1, <1>2 DEF Ids, OsIds
  <2> QED BY <2>1, <2>2, <2>3
<1>7. RecordsTrue'
  BY <1>1, <1>5 DEF Core, RecordsTrue
<1>8. ReservedListed'
  BY <1>1, <1>3 DEF Core, ReservedListed
<1>9. ASSUME NEW u \in Nat, NEW a \in Nat, Unregistered(u, a), u # t
      PROVE  /\ LocateTaskRecordByID(u) # z /\ LocateTaskRecordByID(u) \in TaskSlots
             /\ Unregistered(u, a)'
  BY <1>1, <1>9 DEF Unregistered, OsAlive, OsTask, TaskRecordIsMatch
<1>10. Awaited'
  <2>1. ASSUME NEW p \in Creators, create[p].pc = "register"
        PROVE  Unregistered(create[p].task, create[p].id)' /\ OsTask(create[p].task)'.name = create[p].name
    <3>1. create[p].task # t
      BY <1>1, <2>1 DEF CreatorAwaits
    <3> QED BY <1>1, <1>9, <2>1, <3>1 DEF Core, Awaited, OsTask
  <2>2. ASSUME NEW s \in TaskSlots, osTasks'[s].id # Free, osTasks'[s].pc = "spawn"
        PROVE  s # z /\ Unregistered(osTasks[s].child, osTasks[s].app)'
    <3>1. s # z /\ osTasks[s].child # t
      BY <1>1, <1>2, <2>2 DEF ParentAwaits
    <3> QED BY <1>1, <1>9, <2>2, <3>1 DEF Core, Awaited
  <2> QED BY <1>1, <2>1, <2>2 DEF Awaited, Unregistered, OsAlive, OsTask, TaskRecordIsMatch
<1>11. AwaitedOnce'
  <2>1. \A s \in TaskSlots, u \in Nat : ParentAwaits(s, u)' => s # z /\ ParentAwaits(s, u)
    BY <1>1, <1>2 DEF ParentAwaits
  <2> QED BY <1>1, <2>1 DEF Core, AwaitedOnce, CreatorAwaits, ParentAwaits
<1>12. CreatesHoldSlot' /\ CleanupHoldsSlot' /\ HoldersApart' /\ ReservedHeld' /\ NamesApart'
  BY <1>1 DEF Core, CreatesHoldSlot, CleanupHoldsSlot, HoldersApart, ReservedHeld, NamesApart, IsUsed
<1>13. MainsNamed'
  <2>1. \A s \in TaskSlots : osTasks'[s].id # Free =>
          (Named(s)' <=> Named(s)) /\ osTasks'[s].id = osTasks[s].id /\ osTasks'[s].app = osTasks[s].app
          /\ osTasks'[s].name = osTasks[s].name
    BY <1>1, <1>2 DEF Named
  <2> QED BY <1>1, <2>1 DEF Core, MainsNamed, CreatorAwaits, IsUsed
<1>14. \A m \in Nat : (m # Free /\ OsAlive(m)') =>
         OsAlive(m) /\ (m = t => Leaves(z, t)) /\ (m # t => LocateTaskRecordByID(m) # z)
  <2> SUFFICES ASSUME NEW m \in Nat, m # Free, osTasks'[LocateTaskRecordByID(m)].id = m
               PROVE  /\ osTasks[LocateTaskRecordByID(m)].id = m /\ (m = t => Leaves(z, t))
                      /\ (m # t => LocateTaskRecordByID(m) # z)
    BY DEF OsAlive
  <2>1. CASE LocateTaskRecordByID(m) = z
    BY <1>1, <1>2, <2>1
  <2>2. CASE LocateTaskRecordByID(m) # z
    BY <1>1, <2>2 DEF Ids, OsIds
  <2> QED BY <2>1, <2>2
<1>15. MainsRecorded'
  <2>1. ASSUME NEW m \in Nat, NEW a \in Nat, MainRecorded(m, a), m # t \/ ~Leaves(z, t)
        PROVE  MainRecorded(m, a)'
    BY <1>1, <1>14, <2>1 DEF MainRecorded
  <2>2. ASSUME NEW q \in AppSlots, appTable[q].id > Free
        PROVE  MainRecorded(appTable[q].main, appTable[q].id)'
    <3>1. MainRecorded(appTable[q].main, appTable[q].id)
      BY <2>2 DEF Core, MainsRecorded
    <3>2. appTable[q].main # t \/ ~Leaves(z, t)
      BY <2>2 DEF Leaves
    <3> QED BY <1>1, <2>1, <2>2, <3>1, <3>2 DEF MainRecorded, OsAlive
  <2>3. ASSUME NEW p \in Creators, create[p].pc = "finish"
        PROVE  MainRecorded(create[p].task, create[p].id)'
    <3>1. MainRecorded(create[p].task, create[p].id)
      BY <2>3 DEF Core, MainsRecorded
    <3>2. create[p].task # t \/ ~Leaves(z, t)
      BY <2>3 DEF Leaves
    <3> QED BY <1>1, <2>1, <2>3, <3>1, <3>2 DEF MainRecorded, OsAlive
  <2> QED BY <1>1, <2>2, <2>3 DEF MainsRecorded, MainRecorded, OsAlive
<1>16. MainListed'
  <2>1. Cleaning => bg.id \in Nat
    BY DEF Ids, BgIds, Cleaning
  <2>2. Leaves(z, t) => t \notin bg.left
    BY DEF Leaves
  <2> QED BY <1>1, <1>4, <1>14, <2>1, <2>2 DEF Core, MainListed, OsAlive
<1>17. LeftOvers'
  <2> SUFFICES ASSUME NEW u \in bg'.left, OsAlive(u)'
               PROVE  /\ OsTask(u)'.app = bg.id /\ (OsTask(u)'.pc # "suspended" => bg.id \in forced)
                      /\ taskTable'[LocateTaskRecordByID(u)].id = Reserved
                      /\ \A p \in Creators : ~CreatorAwaits(p, u)'
                      /\ \A s \in TaskSlots : ~ParentAwaits(s, u)'
    <3>1. (\E u \in bg'.left : TRUE) => bg'.id = bg.id
      BY <1>1 DEF Ids, BgIds
    <3> QED BY <1>1, <3>1 DEF LeftOvers, OsTask, OsAlive, CreatorAwaits, ParentAwaits
  <2>1. u \in bg.left /\ u \in Nat \ {0}
    BY <1>1 DEF Ids, BgIds
  <2>2. OsAlive(u) /\ u # t /\ LocateTaskRecordByID(u) # z
    BY <1>14, <2>1 DEF Leaves
  <2>3. OsTask(u)' = OsTask(u) /\ taskTable'[LocateTaskRecordByID(u)] = taskTable[LocateTaskRecordByID(u)]
    BY <1>1, <2>1, <2>2 DEF OsTask
  <2>4. \A s \in TaskSlots : ParentAwaits(s, u)' => ParentAwaits(s, u)
    BY <1>1, <1>2 DEF ParentAwaits
  <2>5. \A p \in Creators : CreatorAwaits(p, u)' => CreatorAwaits(p, u)
    BY <1>1 DEF CreatorAwaits
  <2> QED BY <2>1, <2>2, <2>3, <2>4, <2>5 DEF Core, LeftOvers
<1>18. TasksInContext'
  <2>1. \A s \in TaskSlots : (s # z /\ InContext(s)) => InContext(s)'
    BY <1>1 DEF InContext
  <2>2. \A s \in TaskSlots : (s # z /\ osTasks[s].id # Free) => osTasks[s].id # t
    BY <1>1 DEF Ids, OsIds
  <2> SUFFICES ASSUME NEW s \in TaskSlots, osTasks'[s].id # Free,
                      osTasks'[s].pc \notin {"entry", "exiting"}
               PROVE  InContext(s)' \/ osTasks'[s].id \in bg'.left
    BY DEF TasksInContext
  <2>3. s # z /\ osTasks'[s] = osTasks[s]
    BY <1>1, <1>2
  <2> QED BY <1>4, <2>1, <2>2, <2>3 DEF Core, TasksInContext
<1> QED BY <1>6, <1>7, <1>8, <1>10, <1>11, <1>12, <1>13, <1>15, <1>16, <1>17, <1>18 DEF Core

-----------------------------------------------------------------------------
(* CFE_ES_AppCreate loads the module and creates the task, or fails.         *)
NotLoaded(p) ==
    /\ create' = [create EXCEPT ![p].pc = "finish"]
    /\ UNCHANGED <<tables, os, bg, forced>>

Loaded(p) ==
    /\ NewOsTask # Free
    /\ OS_TaskCreate(NewOsTask, create[p].id, create[p].name, "entry")
    /\ create' = [create EXCEPT ![p].pc = "register", ![p].task = NewOsTask]
    /\ UNCHANGED <<tables, bg, forced>>

\* A module that cannot be loaded: CFE_ES_AppCreate goes on to free the record.
LEMMA LoadFails ==
  ASSUME TablesTyped, Ids, Core, NEW p \in Creators, create[p].pc = "load", NotLoaded(p)
  PROVE  AppIds' /\ TaskIds' /\ OsIds' /\ CreateIds' /\ Core'
<1>0. FieldTypes
  BY Fields
<1>1. /\ \A q \in Creators : q # p => create'[q] = create[q]
      /\ create'[p].pc = "finish" /\ create'[p].id = create[p].id
      /\ create'[p].name = create[p].name /\ create'[p].task = create[p].task
  BY DEF TablesTyped, CreateRec, NotLoaded
<1>2. create[p].task = Free
  BY DEF Ids, CreateIds
<1>3. appTable' = appTable /\ taskTable' = taskTable /\ osTasks' = osTasks /\ bg' = bg
      /\ forced' = forced /\ lastAppId' = lastAppId /\ lastOsTask' = lastOsTask
  BY DEF tables, os, NotLoaded
<1> USE <1>0, Slots DEF FieldTypes
<1>4. AppIds' /\ TaskIds' /\ OsIds' /\ CreateIds'
  BY <1>1, <1>3 DEF Ids, AppIds, TaskIds, OsIds, CreateIds
<1>5. RecordsTrue' /\ ReservedListed'
  BY <1>3 DEF Core, RecordsTrue, ReservedListed, Cleaning
<1>6. Awaited' /\ AwaitedOnce'
  BY <1>1, <1>3 DEF Core, Awaited, AwaitedOnce, Unregistered, OsAlive, OsTask, TaskRecordIsMatch,
                    CreatorAwaits, ParentAwaits
<1>7. CreatesHoldSlot' /\ CleanupHoldsSlot'
  BY <1>1, <1>2, <1>3 DEF Core, CreatesHoldSlot, CleanupHoldsSlot, Cleaning
<1>8. HoldersApart' /\ ReservedHeld' /\ NamesApart'
  <2>1. \A q \in Creators : create'[q].id = create[q].id /\ (create'[q].pc # "idle" <=> create[q].pc # "idle")
    BY <1>1
  <2> QED BY <1>3, <2>1 DEF Core, HoldersApart, ReservedHeld, NamesApart, Cleaning, IsUsed
<1>9. MainsNamed'
  <2>1. \A s \in TaskSlots : Named(s)' <=> Named(s)
    BY <1>3 DEF Named
  <2>2. \A q \in Creators, t \in Nat : CreatorAwaits(q, t)' <=> CreatorAwaits(q, t)
    BY <1>1 DEF CreatorAwaits
  <2> QED BY <1>3, <2>1, <2>2 DEF Core, MainsNamed, IsUsed, CreatorAwaits
<1>10. MainsRecorded'
  BY <1>1, <1>2, <1>3 DEF Core, MainsRecorded, MainRecorded, OsAlive
<1>11. MainListed' /\ TasksInContext'
  BY <1>3 DEF Core, MainListed, TasksInContext, InContext, OsAlive, Cleaning
<1>12. LeftOvers'
  BY <1>1, <1>3 DEF Core, LeftOvers, OsAlive, OsTask, CreatorAwaits, ParentAwaits
<1> QED BY <1>4, <1>5, <1>6, <1>7, <1>8, <1>9, <1>10, <1>11, <1>12 DEF Core

\* The new main task is awaited by the CFE_ES_AppCreate that created it.
LEMMA LoadStep ==
  ASSUME TablesTyped, Ids, Core, NEW p \in Creators, create[p].pc = "load", Loaded(p)
  PROVE  AppIds' /\ TaskIds' /\ OsIds' /\ CreateIds' /\ Core'
<1>0. FieldTypes
  BY Fields
<1>c. PICK c \in Nat : c = NewOsTask
  BY NewTaskIsNew DEF Loaded
<1>z. PICK z \in TaskSlots : z = LocateTaskRecordByID(c)
  BY Slots
<1>1. c \in Nat /\ c > lastOsTask /\ osTasks[z].id = Free /\ z \in TaskSlots
  BY <1>c, <1>z, NewTaskIsNew DEF Loaded
<1>2. /\ \A q \in Creators : q # p => create'[q] = create[q]
      /\ create'[p].pc = "register" /\ create'[p].id = create[p].id
      /\ create'[p].name = create[p].name /\ create'[p].task = c
  BY <1>c DEF TablesTyped, CreateRec, Loaded
<1>3. appTable' = appTable /\ taskTable' = taskTable /\ bg' = bg
      /\ forced' = forced /\ lastAppId' = lastAppId /\ lastOsTask' = c
  BY <1>c DEF tables, OS_TaskCreate, Loaded
<1>4. /\ \A s \in TaskSlots : s # z => osTasks'[s] = osTasks[s]
      /\ osTasks'[z].id = c /\ osTasks'[z].pc = "entry" /\ osTasks'[z].app = create[p].id
      /\ osTasks'[z].name = create[p].name /\ osTasks'[z].child = Free
  BY <1>c, <1>z, <1>1 DEF OS_TaskCreate, TablesTyped, NoOsTask, Loaded
<1>5. z = LocateTaskRecordByID(c)
  BY <1>z
<1> USE <1>0, Slots DEF FieldTypes, Free, Reserved
<1>6. AppIds' /\ TaskIds' /\ OsIds' /\ CreateIds'
  <2>1. AppIds' /\ TaskIds'
    BY <1>1, <1>3 DEF Ids, AppIds, TaskIds
  <2>2. OsIds'
    BY <1>1, <1>3, <1>4, <1>5 DEF Ids, OsIds, CreateIds
  <2>3. CreateIds'
    BY <1>1, <1>2, <1>3 DEF Ids, CreateIds
  <2> QED BY <2>1, <2>2, <2>3
<1>7. ~(taskTable[z].id > 0)
  BY <1>1 DEF Core, RecordsTrue
<1>8. RecordsTrue'
  BY <1>3, <1>4, <1>7 DEF Core, RecordsTrue
<1>9. ReservedListed'
  BY <1>3 DEF Core, ReservedListed, Cleaning
<1>10. \A m \in Nat : (m # Free /\ OsAlive(m)) => LocateTaskRecordByID(m) # z /\ m # c
  BY <1>1 DEF OsAlive, Ids, OsIds
<1>11. \A m \in Nat : (m # Free /\ OsAlive(m)' /\ m # c) => OsAlive(m) /\ LocateTaskRecordByID(m) # z
  BY <1>1, <1>4 DEF OsAlive
<1>12. Awaited'
  <2>1. ASSUME NEW u \in Nat, NEW a \in Nat, Unregistered(u, a)
        PROVE  Unregistered(u, a)' /\ OsTask(u)'.name = OsTask(u).name
    BY <1>3, <1>4, <1>10, <2>1 DEF Unregistered, OsAlive, OsTask, TaskRecordIsMatch
  <2>2. \A a \in Nat : a = create[p].id => Unregistered(c, a)' /\ OsTask(c)'.name = create[p].name
    BY <1>1, <1>3, <1>4, <1>5, <1>7 DEF Unregistered, OsAlive, OsTask, TaskRecordIsMatch
  <2>3. ASSUME NEW q \in Creators, create'[q].pc = "register"
        PROVE  (Unregistered(create[q].task, create[q].id) /\ OsTask(create[q].task).name = create[q].name)'
    <3>1. CASE q = p
      BY <1>2, <2>2, <3>1 DEF Unregistered, OsAlive, OsTask, TaskRecordIsMatch
    <3>2. CASE q # p
      BY <1>2, <2>1, <2>3, <3>2 DEF Core, Awaited, Unregistered, OsAlive, OsTask, TaskRecordIsMatch
    <3> QED BY <3>1, <3>2
  <2>4. ASSUME NEW s \in TaskSlots, osTasks'[s].id # Free, osTasks'[s].pc = "spawn"
        PROVE  s # z /\ Unregistered(osTasks[s].child, osTasks[s].app)'
    <3>1. s # z
      BY <1>4, <2>4
    <3> QED BY <1>4, <2>1, <2>4, <3>1 DEF Core, Awaited
  <2> QED BY <1>4, <2>3, <2>4 DEF Awaited, Unregistered, OsAlive, OsTask, TaskRecordIsMatch
<1>13. \A s \in TaskSlots, u \in Nat : ParentAwaits(s, u)' => ParentAwaits(s, u) /\ u # c /\ s # z
  BY <1>1, <1>4 DEF ParentAwaits, Ids, OsIds
<1>14. AwaitedOnce'
  <2>1. \A q, r \in Creators :
          (create'[q].pc = "register" /\ create'[r].pc = "register" /\ create'[r].task = create'[q].task) => q = r
    BY <1>1, <1>2 DEF Core, AwaitedOnce, CreatorAwaits, Ids, CreateIds
  <2>2. \A q \in Creators, s \in TaskSlots :
          create'[q].pc = "register" => ~ParentAwaits(s, create[q].task)'
    <3> SUFFICES ASSUME NEW q \in Creators, NEW s \in TaskSlots, create'[q].pc = "register",
                        ParentAwaits(s, create[q].task)'
                 PROVE  FALSE
      OBVIOUS
    <3>1. create'[q].task \in Nat
      BY <1>1, <1>2
    <3>2. PICK u \in Nat : u = create'[q].task
      BY <3>1
    <3>3. ParentAwaits(s, u) /\ u # c
      BY <1>13, <3>2 DEF ParentAwaits
    <3> QED BY <1>2, <3>2, <3>3 DEF Core, AwaitedOnce
  <2>3. \A s, q \in TaskSlots :
          (osTasks'[s].id # Free /\ osTasks'[s].pc = "spawn" /\ osTasks'[q].id # Free
             /\ osTasks'[q].pc = "spawn" /\ osTasks'[q].child = osTasks'[s].child) => s = q
    BY <1>4 DEF Core, AwaitedOnce, ParentAwaits
  <2> QED BY <2>1, <2>2, <2>3 DEF AwaitedOnce, CreatorAwaits, ParentAwaits
<1>15. CreatesHoldSlot' /\ CleanupHoldsSlot'
  BY <1>2, <1>3 DEF Core, CreatesHoldSlot, CleanupHoldsSlot, Cleaning
<1>16. HoldersApart' /\ ReservedHeld' /\ NamesApart'
  <2>1. \A q \in Creators : create'[q].id = create[q].id /\ (create'[q].pc # "idle" <=> create[q].pc # "idle")
    BY <1>2
  <2> QED BY <1>3, <2>1 DEF Core, HoldersApart, ReservedHeld, NamesApart, Cleaning, IsUsed
<1>17. MainsNamed'
  <2>1. \A s \in TaskSlots : s # z => (Named(s)' <=> Named(s))
    BY <1>4 DEF Named
  <2>2. \A q \in Creators, t \in Nat : CreatorAwaits(q, t) => CreatorAwaits(q, t)'
    BY <1>2 DEF CreatorAwaits
  <2>3. \E q \in Creators : CreatorAwaits(q, c)'
    BY <1>2 DEF CreatorAwaits
  <2>4. LET rec == appTable[LocateAppRecordByID(create[p].id)]
        IN  rec.id = Reserved /\ rec.name = create[p].name
    BY DEF Core, CreatesHoldSlot
  <2> SUFFICES ASSUME NEW s \in TaskSlots, osTasks'[s].id # Free, Named(s)'
               PROVE  LET rec == appTable[LocateAppRecordByID(osTasks'[s].app)]
                      IN  /\ rec.id # Free /\ rec.name = osTasks'[s].name
                          /\ \/ rec.main = osTasks'[s].id
                             \/ \E q \in Creators : create'[q].pc = "register" /\ create'[q].task = osTasks'[s].id
    BY <1>3 DEF MainsNamed, CreatorAwaits, IsUsed
  <2>5. CASE s = z
    BY <1>2, <1>4, <2>4, <2>5
  <2>6. CASE s # z
    <3>1. osTasks'[s] = osTasks[s] /\ osTasks[s].id # Free /\ Named(s)
      BY <1>4, <2>1, <2>6
    <3>2. LET rec == appTable[LocateAppRecordByID(osTasks[s].app)]
          IN  /\ rec.id # Free /\ rec.name = osTasks[s].name
              /\ rec.main = osTasks[s].id \/ \E q \in Creators : CreatorAwaits(q, osTasks[s].id)
      BY <3>1 DEF Core, MainsNamed, IsUsed
    <3>3. \A q \in Creators : CreatorAwaits(q, osTasks[s].id) =>
            create'[q].pc = "register" /\ create'[q].task = osTasks[s].id
      BY <1>2 DEF CreatorAwaits
    <3> QED BY <3>1, <3>2, <3>3
  <2> QED BY <2>5, <2>6
<1>18. ASSUME NEW m \in Nat, NEW a \in Nat, m # c, MainRecorded(m, a)
       PROVE  MainRecorded(m, a)'
  BY <1>3, <1>11, <1>18 DEF MainRecorded
<1>19. MainsRecorded'
  <2>1. ASSUME NEW q \in AppSlots, appTable[q].id > Free
        PROVE  MainRecorded(appTable[q].main, appTable[q].id)'
    <3>1. PICK m \in Nat, a \in Nat : m = appTable[q].main /\ a = appTable[q].id
      BY <2>1
    <3>2. m # c /\ MainRecorded(m, a)
      BY <1>1, <2>1, <3>1 DEF Core, MainsRecorded, Ids, AppIds
    <3> QED BY <1>3, <1>18, <3>1, <3>2 DEF MainRecorded, OsAlive
  <2>2. ASSUME NEW q \in Creators, create'[q].pc = "finish"
        PROVE  create'[q] = create[q] /\ MainRecorded(create[q].task, create[q].id)'
    <3>1. create'[q] = create[q]
      BY <1>2, <2>2
    <3>2. PICK m \in Nat, a \in Nat : m = create[q].task /\ a = create[q].id
      OBVIOUS
    <3>3. m # c /\ MainRecorded(m, a)
      BY <1>1, <2>2, <3>1, <3>2 DEF Core, MainsRecorded, Ids, CreateIds
    <3> QED BY <1>18, <3>1, <3>2, <3>3 DEF MainRecorded, OsAlive
  <2> QED BY <1>2, <1>3, <2>1, <2>2 DEF MainsRecorded, MainRecorded, OsAlive
<1>20. MainListed'
  <2>1. Cleaning => bg.id \in Nat
    BY DEF Ids, BgIds, Cleaning
  <2> QED BY <1>1, <1>3, <1>11, <2>1 DEF Core, MainListed, OsAlive, Cleaning, Ids, AppIds
<1>21. LeftOvers'
  <2> SUFFICES ASSUME NEW u \in bg.left, OsAlive(u)'
               PROVE  /\ OsTask(u)'.app = bg.id /\ (OsTask(u)'.pc # "suspended" => bg.id \in forced)
                      /\ taskTable[LocateTaskRecordByID(u)].id = Reserved
                      /\ \A q \in Creators : ~CreatorAwaits(q, u)'
                      /\ \A s \in TaskSlots : ~ParentAwaits(s, u)'
    BY <1>3 DEF LeftOvers, OsTask, OsAlive, CreatorAwaits, ParentAwaits
  <2>1. u \in Nat \ {0} /\ u # c
    BY <1>1 DEF Ids, BgIds
  <2>2. OsAlive(u) /\ OsTask(u)' = OsTask(u)
    BY <1>4, <1>11, <2>1 DEF OsTask
  <2>3. \A q \in Creators : CreatorAwaits(q, u)' => CreatorAwaits(q, u)
    BY <1>2, <2>1 DEF CreatorAwaits
  <2> QED BY <1>13, <2>1, <2>2, <2>3 DEF Core, LeftOvers
<1>22. TasksInContext'
  <2>1. \A s \in TaskSlots : (s # z /\ InContext(s)) => InContext(s)'
    BY <1>3, <1>4 DEF InContext
  <2> QED BY <1>3, <1>4, <2>1 DEF Core, TasksInContext
<1> QED BY <1>6, <1>8, <1>9, <1>12, <1>14, <1>15, <1>16, <1>17, <1>19, <1>20, <1>21, <1>22 DEF Core

-----------------------------------------------------------------------------
(* CFE_ES_CreateChildTask creates the task.                                  *)
LEMMA CreateChildStep ==
  ASSUME TablesTyped, Ids, Core, NEW t \in Nat \ {0}, CreateChildTask(t)
  PROVE  AppIds' /\ TaskIds' /\ OsIds' /\ CreateIds' /\ Core'
<1>0. FieldTypes
  BY Fields
<1>c. PICK c \in Nat : c = NewOsTask
  BY NewTaskIsNew DEF CreateChildTask
<1>z. PICK z \in TaskSlots : z = LocateTaskRecordByID(c)
  BY Slots
<1>y. PICK y \in TaskSlots : y = LocateTaskRecordByID(t)
  BY Slots
<1>1. c > lastOsTask /\ osTasks[z].id = Free /\ z = LocateTaskRecordByID(c)
  BY <1>c, <1>z, NewTaskIsNew DEF CreateChildTask
<1>2. osTasks[y].id = t /\ osTasks[y].pc = "init" /\ y # z
  <2>1. t \in LiveTasks /\ osTasks[y].pc = "init"
    BY <1>y DEF CreateChildTask, At, OsTask
  <2>2. PICK s \in TaskSlots : osTasks[s].id = t
    BY <2>1 DEF LiveTasks
  <2>3. s = y
    BY <1>0, <1>y, <2>2 DEF Ids, OsIds, Free, FieldTypes
  <2> QED BY <1>1, <2>1, <2>2, <2>3 DEF Free
<1>3. appTable' = appTable /\ taskTable' = taskTable /\ bg' = bg /\ create' = create
      /\ forced' = forced /\ lastAppId' = lastAppId /\ lastOsTask' = c
  BY <1>c DEF CreateChildTask, NoEsChange, tables, history
<1>4. /\ \A s \in TaskSlots : (s # z /\ s # y) => osTasks'[s] = osTasks[s]
      /\ osTasks'[z].id = c /\ osTasks'[z].pc = "entry" /\ osTasks'[z].app = osTasks[y].app
      /\ osTasks'[z].name = "" /\ osTasks'[z].child = Free
      /\ osTasks'[y].id = t /\ osTasks'[y].pc = "spawn" /\ osTasks'[y].app = osTasks[y].app
      /\ osTasks'[y].name = osTasks[y].name /\ osTasks'[y].child = c
  BY <1>c, <1>z, <1>y, <1>1, <1>2 DEF CreateChildTask, TablesTyped, OsRec, NoOsTask, OsTask
<1>5. /\ \A s \in TaskSlots : (s # z /\ s # y) => osTasks'[s] = osTasks[s]
      /\ osTasks'[z].id = c /\ osTasks'[z].pc = "entry" /\ osTasks'[z].app = osTasks[y].app
      /\ osTasks'[z].child = Free
      /\ osTasks'[y].id = t /\ osTasks'[y].pc = "spawn" /\ osTasks'[y].app = osTasks[y].app
      /\ osTasks'[y].name = osTasks[y].name /\ osTasks'[y].child = c
  BY <1>4
<1> USE <1>0, Slots DEF FieldTypes, Free, Reserved
<1>6. AppIds' /\ TaskIds' /\ OsIds' /\ CreateIds'
  <2>1. AppIds' /\ TaskIds' /\ CreateIds'
    BY <1>1, <1>3 DEF Ids, AppIds, TaskIds, CreateIds
  <2>2. OsIds'
    BY <1>1, <1>2, <1>3, <1>5, <1>y DEF Ids, OsIds
  <2> QED BY <2>1, <2>2
<1>7. ~(taskTable[z].id > 0)
  BY <1>1 DEF Core, RecordsTrue
<1>8. RecordsTrue'
  BY <1>2, <1>3, <1>5, <1>7 DEF Core, RecordsTrue
<1>9. ReservedListed'
  BY <1>3 DEF Core, ReservedListed, Cleaning
<1>10. \A m \in Nat : (m # Free /\ OsAlive(m)) => LocateTaskRecordByID(m) # z /\ m # c
  BY <1>1 DEF OsAlive, Ids, OsIds
<1>11. \A m \in Nat : (m # Free /\ OsAlive(m)' /\ m # c) => OsAlive(m) /\ LocateTaskRecordByID(m) # z
  BY <1>1, <1>2, <1>5 DEF OsAlive
<1>12. Awaited'
  <2>1. ASSUME NEW u \in Nat, NEW a \in Nat, Unregistered(u, a)
        PROVE  Unregistered(u, a)' /\ OsTask(u)'.name = OsTask(u).name
    <3>1. LocateTaskRecordByID(u) # z /\ LocateTaskRecordByID(u) # y
      BY <1>2, <1>10, <2>1 DEF Unregistered, OsAlive, OsTask
    <3> QED BY <1>3, <1>5, <2>1, <3>1 DEF Unregistered, OsAlive, OsTask, TaskRecordIsMatch
  <2>2. \A a \in Nat : a = osTasks[y].app => Unregistered(c, a)'
    BY <1>1, <1>3, <1>5, <1>7 DEF Unregistered, OsAlive, OsTask, TaskRecordIsMatch
  <2>3. ASSUME NEW q \in Creators, create[q].pc = "register"
        PROVE  (Unregistered(create[q].task, create[q].id) /\ OsTask(create[q].task).name = create[q].name)'
    BY <1>3, <2>1, <2>3 DEF Core, Awaited, Unregistered, OsAlive, OsTask, TaskRecordIsMatch
  <2>4. ASSUME NEW s \in TaskSlots, osTasks'[s].id # Free, osTasks'[s].pc = "spawn"
        PROVE  Unregistered(osTasks[s].child, osTasks[s].app)'
    <3>1. s # z
      BY <1>5, <2>4
    <3>2. PICK u \in Nat, a \in Nat : u = osTasks'[s].child /\ a = osTasks'[s].app
      BY <1>5, <3>1
    <3>3. Unregistered(u, a)'
      <4>1. CASE s = y
        BY <1>5, <2>2, <3>2, <4>1
      <4>2. CASE s # y
        <5>1. osTasks'[s] = osTasks[s]
          BY <1>5, <3>1, <4>2
        <5>2. Unregistered(u, a)
          BY <2>4, <3>2, <5>1 DEF Core, Awaited
        <5> QED BY <2>1, <5>2
      <4> QED BY <4>1, <4>2
    <3> QED BY <3>2, <3>3 DEF Unregistered, OsAlive, OsTask, TaskRecordIsMatch
  <2> QED BY <1>3, <2>3, <2>4 DEF Awaited, Unregistered, OsAlive, OsTask, TaskRecordIsMatch
<1>13. \A s \in TaskSlots, u \in Nat : ParentAwaits(s, u)' =>
         (s = y /\ u = c) \/ (s # y /\ ParentAwaits(s, u) /\ u # c)
  BY <1>1, <1>2, <1>5 DEF ParentAwaits, Ids, OsIds
<1>14. AwaitedOnce'
  <2>1. \A q, r \in Creators :
          (create[q].pc = "register" /\ create[r].pc = "register" /\ create[r].task = create[q].task) => q = r
    BY DEF Core, AwaitedOnce, CreatorAwaits
  <2>2. \A q \in Creators, s \in TaskSlots : create[q].pc = "register" =>
          ~(osTasks'[s].id # Free /\ osTasks'[s].pc = "spawn" /\ osTasks'[s].child = create[q].task)
    <3> SUFFICES ASSUME NEW q \in Creators, NEW s \in TaskSlots, create[q].pc = "register",
                        osTasks'[s].id # Free, osTasks'[s].pc = "spawn", osTasks'[s].child = create[q].task
                 PROVE  FALSE
      OBVIOUS
    <3>1. PICK u \in Nat : u = create[q].task
      OBVIOUS
    <3>2. ParentAwaits(s, u)' /\ u # c
      BY <1>1, <3>1 DEF ParentAwaits, Ids, CreateIds
    <3>3. ParentAwaits(s, u)
      BY <1>13, <3>2
    <3> QED BY <3>1, <3>3 DEF Core, AwaitedOnce
  <2>3. \A s, q \in TaskSlots :
          (osTasks'[s].id # Free /\ osTasks'[s].pc = "spawn" /\ osTasks'[q].id # Free
             /\ osTasks'[q].pc = "spawn" /\ osTasks'[q].child = osTasks'[s].child) => s = q
    <3> SUFFICES ASSUME NEW s \in TaskSlots, NEW q \in TaskSlots,
                        osTasks'[s].id # Free, osTasks'[s].pc = "spawn", osTasks'[q].id # Free,
                        osTasks'[q].pc = "spawn", osTasks'[q].child = osTasks'[s].child
                 PROVE  s = q
      OBVIOUS
    <3>0. s # z /\ q # z
      BY <1>5
    <3>1. PICK u \in Nat : u = osTasks'[s].child
      BY <1>5, <3>0
    <3>2. ParentAwaits(s, u)' /\ ParentAwaits(q, u)'
      BY <3>1 DEF ParentAwaits
    <3>3. (s = y /\ q = y) \/ (ParentAwaits(s, u) /\ ParentAwaits(q, u))
      BY <1>13, <3>2
    <3> QED BY <3>3 DEF Core, AwaitedOnce, ParentAwaits
  <2> QED BY <1>3, <2>1, <2>2, <2>3 DEF AwaitedOnce, CreatorAwaits, ParentAwaits
<1>15. CreatesHoldSlot' /\ CleanupHoldsSlot' /\ HoldersApart' /\ ReservedHeld' /\ NamesApart'
  BY <1>3 DEF Core, CreatesHoldSlot, CleanupHoldsSlot, HoldersApart, ReservedHeld, NamesApart,
              Cleaning, IsUsed
<1>16. MainsNamed'
  <2>1. /\ \A s \in TaskSlots : s # z => (Named(s)' <=> Named(s))
        /\ ~Named(z)'
    BY <1>4 DEF Named
  <2> SUFFICES ASSUME NEW s \in TaskSlots, osTasks'[s].id # Free, Named(s)'
               PROVE  LET rec == appTable[LocateAppRecordByID(osTasks'[s].app)]
                      IN  /\ rec.id # Free /\ rec.name = osTasks'[s].name
                          /\ \/ rec.main = osTasks'[s].id
                             \/ \E q \in Creators : create[q].pc = "register" /\ create[q].task = osTasks'[s].id
    BY <1>3 DEF MainsNamed, CreatorAwaits, IsUsed
  <2>2. /\ osTasks'[s].id = osTasks[s].id /\ osTasks'[s].app = osTasks[s].app
        /\ osTasks'[s].name = osTasks[s].name /\ Named(s)
    BY <1>2, <1>5, <2>1
  <2> QED BY <2>2 DEF Core, MainsNamed, CreatorAwaits, IsUsed
<1>17. ASSUME NEW m \in Nat, NEW a \in Nat, m # c, MainRecorded(m, a)
       PROVE  MainRecorded(m, a)'
  BY <1>3, <1>11, <1>17 DEF MainRecorded
<1>18. MainsRecorded'
  <2>1. ASSUME NEW q \in AppSlots, appTable[q].id > Free
        PROVE  MainRecorded(appTable[q].main, appTable[q].id)'
    <3>1. PICK m \in Nat, a \in Nat : m = appTable[q].main /\ a = appTable[q].id
      BY <2>1
    <3>2. m # c /\ MainRecorded(m, a)
      BY <1>1, <2>1, <3>1 DEF Core, MainsRecorded, Ids, AppIds
    <3> QED BY <1>3, <1>17, <3>1, <3>2 DEF MainRecorded, OsAlive
  <2>2. ASSUME NEW q \in Creators, create[q].pc = "finish"
        PROVE  MainRecorded(create[q].task, create[q].id)'
    <3>1. PICK m \in Nat, a \in Nat : m = create[q].task /\ a = create[q].id
      OBVIOUS
    <3>2. m # c /\ MainRecorded(m, a)
      BY <1>1, <2>2, <3>1 DEF Core, MainsRecorded, Ids, CreateIds
    <3> QED BY <1>3, <1>17, <3>1, <3>2 DEF MainRecorded, OsAlive
  <2> QED BY <1>3, <2>1, <2>2 DEF MainsRecorded, MainRecorded, OsAlive
<1>19. MainListed'
  <2>1. Cleaning => bg.id \in Nat
    BY DEF Ids, BgIds, Cleaning
  <2> QED BY <1>1, <1>3, <1>11, <2>1 DEF Core, MainListed, OsAlive, Cleaning, Ids, AppIds
<1>20. LeftOvers'
  <2> SUFFICES ASSUME NEW u \in bg.left, OsAlive(u)'
               PROVE  /\ OsTask(u)'.app = bg.id /\ (OsTask(u)'.pc # "suspended" => bg.id \in forced)
                      /\ taskTable[LocateTaskRecordByID(u)].id = Reserved
                      /\ \A q \in Creators : ~CreatorAwaits(q, u)'
                      /\ \A s \in TaskSlots : ~ParentAwaits(s, u)'
    BY <1>3 DEF LeftOvers, OsTask, OsAlive, CreatorAwaits, ParentAwaits
  <2>1. u \in Nat \ {0} /\ u # c
    BY <1>1 DEF Ids, BgIds
  <2>2. OsAlive(u) /\ LocateTaskRecordByID(u) # z
    BY <1>11, <2>1
  <2>3. OsTask(u)'.app = OsTask(u).app /\ (OsTask(u)'.pc # "suspended" => OsTask(u).pc # "suspended")
    BY <1>2, <1>5, <2>1, <2>2 DEF OsTask
  <2>4. \A q \in Creators : CreatorAwaits(q, u)' => CreatorAwaits(q, u)
    BY <1>3 DEF CreatorAwaits
  <2> QED BY <1>13, <2>1, <2>2, <2>3, <2>4 DEF Core, LeftOvers
<1>21. TasksInContext'
  <2>1. \A s \in TaskSlots : (s # z /\ InContext(s)) => InContext(s)'
    BY <1>2, <1>3, <1>5 DEF InContext
  <2> SUFFICES ASSUME NEW s \in TaskSlots, osTasks'[s].id # Free,
                      osTasks'[s].pc \notin {"entry", "exiting"}
               PROVE  InContext(s)' \/ osTasks'[s].id \in bg.left
    BY <1>3 DEF TasksInContext
  <2>2. s # z /\ osTasks'[s].id = osTasks[s].id /\ osTasks[s].pc \notin {"entry", "exiting"}
    BY <1>2, <1>5
  <2> QED BY <2>1, <2>2 DEF Core, TasksInContext
<1> QED BY <1>6, <1>8, <1>9, <1>12, <1>14, <1>15, <1>16, <1>18, <1>19, <1>20, <1>21 DEF Core

-----------------------------------------------------------------------------
(* StartAppTask registers the main task of an application.                   *)
LEMMA StartAppStep ==
  ASSUME TablesTyped, Ids, Core, NEW p \in Creators, StartAppTask(p)
  PROVE  AppIds' /\ TaskIds' /\ OsIds' /\ CreateIds' /\ Core'
<1>0. FieldTypes
  BY Fields
<1>1. create[p].pc = "register"
  BY DEF StartAppTask
<1>2. PICK c \in Nat, a \in Nat : c = create[p].task /\ a = create[p].id
  BY <1>0 DEF FieldTypes
<1>3. PICK w \in TaskSlots, z \in AppSlots : w = LocateTaskRecordByID(c) /\ z = LocateAppRecordByID(a)
  BY Slots
<1>4. /\ c # Free /\ c <= lastOsTask /\ a \in 1 .. lastAppId
      /\ osTasks[w].id = c /\ osTasks[w].pc = "entry" /\ osTasks[w].app = a
      /\ taskTable[w].id # c
  BY <1>1, <1>2, <1>3 DEF Core, Awaited, Unregistered, OsAlive, OsTask, TaskRecordIsMatch, Ids, CreateIds
<1>5. ~(taskTable[w].id > 0)
  BY <1>0, <1>4 DEF Core, RecordsTrue, FieldTypes, Free
<1>6. osTasks' = osTasks /\ bg' = bg /\ forced' = forced /\ lastAppId' = lastAppId
      /\ lastOsTask' = lastOsTask
  BY DEF StartAppTask, os, history
<1>7. /\ \A s \in TaskSlots : s # w => taskTable'[s] = taskTable[s]
      /\ taskTable'[w] = [id |-> c, app |-> a]
      /\ taskTable'[w].id = c /\ taskTable'[w].app = a
  BY <1>2, <1>3 DEF StartAppTask, SetTaskRecord, TablesTyped
<1>8. /\ \A s \in AppSlots : s # z => appTable'[s] = appTable[s]
      /\ appTable'[z].id = appTable[z].id /\ appTable'[z].name = appTable[z].name
      /\ appTable'[z].state = appTable[z].state /\ appTable'[z].main = c
  BY <1>2, <1>3 DEF StartAppTask, TablesTyped, AppRec
<1>9. /\ \A q \in Creators : q # p => create'[q] = create[q]
      /\ create'[p].pc = "finish" /\ create'[p].id = a
      /\ create'[p].name = create[p].name /\ create'[p].task = c
  BY <1>2 DEF StartAppTask, TablesTyped, CreateRec
<1>10. appTable[z].id = Reserved /\ appTable[z].main = Free
  BY <1>1, <1>2, <1>3 DEF Core, CreatesHoldSlot
<1> USE <1>0, Slots DEF FieldTypes, Free, Reserved
<1>11. AppIds' /\ TaskIds' /\ OsIds' /\ CreateIds'
  <2>1. AppIds'
    BY <1>4, <1>6, <1>8 DEF Ids, AppIds
  <2>2. TaskIds'
    BY <1>3, <1>4, <1>6, <1>7 DEF Ids, TaskIds
  <2>3. OsIds' /\ CreateIds'
    BY <1>4, <1>6, <1>9 DEF Ids, OsIds, CreateIds
  <2> QED BY <2>1, <2>2, <2>3
<1>12. RecordsTrue'
  BY <1>4, <1>6, <1>7 DEF Core, RecordsTrue
<1>13. ReservedListed'
  BY <1>4, <1>6, <1>7 DEF Core, ReservedListed, Cleaning
<1>14. \A q \in Creators : (create'[q].pc = "register") =>
         create[q].pc = "register" /\ q # p /\ create'[q] = create[q] /\ create[q].task # c
  BY <1>1, <1>2, <1>9 DEF Core, AwaitedOnce, CreatorAwaits
<1>15. \A s \in TaskSlots : (osTasks[s].id # Free /\ osTasks[s].pc = "spawn") => osTasks[s].child # c
  BY <1>1, <1>2 DEF Core, AwaitedOnce, ParentAwaits
<1>16. Awaited'
  <2>1. ASSUME NEW u \in Nat, NEW b \in Nat, Unregistered(u, b), u # c
        PROVE  Unregistered(u, b)' /\ OsTask(u)' = OsTask(u)
    BY <1>4, <1>6, <1>7, <2>1 DEF Unregistered, OsAlive, OsTask, TaskRecordIsMatch
  <2>2. ASSUME NEW q \in Creators, create'[q].pc = "register"
        PROVE  (Unregistered(create[q].task, create[q].id) /\ OsTask(create[q].task).name = create[q].name)'
    <3>1. create[q].pc = "register" /\ create'[q] = create[q] /\ create[q].task # c
      BY <1>14, <2>2
    <3>2. PICK u \in Nat, b \in Nat : u = create[q].task /\ b = create[q].id
      OBVIOUS
    <3>3. Unregistered(u, b) /\ OsTask(u).name = create[q].name
      BY <3>1, <3>2 DEF Core, Awaited
    <3> QED BY <2>1, <3>1, <3>2, <3>3 DEF Unregistered, OsAlive, OsTask, TaskRecordIsMatch
  <2>3. ASSUME NEW s \in TaskSlots, osTasks[s].id # Free, osTasks[s].pc = "spawn"
        PROVE  Unregistered(osTasks[s].child, osTasks[s].app)'
    <3>1. PICK u \in Nat, b \in Nat : u = osTasks[s].child /\ b = osTasks[s].app
      OBVIOUS
    <3>2. Unregistered(u, b) /\ u # c
      BY <1>15, <2>3, <3>1 DEF Core, Awaited
    <3> QED BY <1>6, <2>1, <3>1, <3>2 DEF Unregistered, OsAlive, OsTask, TaskRecordIsMatch
  <2> QED BY <1>6, <2>2, <2>3 DEF Awaited, Unregistered, OsAlive, OsTask, TaskRecordIsMatch
<1>17. AwaitedOnce'
  BY <1>6, <1>14 DEF Core, AwaitedOnce, CreatorAwaits, ParentAwaits
<1>18. \A q \in Creators : (q # p /\ create[q].pc # "idle") => LocateAppRecordByID(create[q].id) # z
  BY <1>1, <1>2, <1>3 DEF Core, HoldersApart
<1>19. Cleaning => LocateAppRecordByID(bg.id) # z /\ LocateAppRecordByID(bg.id) \in AppSlots
  BY <1>1, <1>2, <1>3 DEF Core, HoldersApart, Ids, BgIds, Cleaning
<1>20. CreatesHoldSlot'
  BY <1>1, <1>2, <1>3, <1>8, <1>9, <1>18 DEF Core, CreatesHoldSlot
<1>21. CleanupHoldsSlot'
  BY <1>6, <1>8, <1>19 DEF Core, CleanupHoldsSlot, Cleaning
<1>22. HoldersApart' /\ ReservedHeld' /\ NamesApart'
  <2>1. \A q \in Creators : create'[q].id = create[q].id /\ (create'[q].pc # "idle" <=> create[q].pc # "idle")
    BY <1>1, <1>2, <1>9
  <2>2. \A s \in AppSlots : appTable'[s].id = appTable[s].id /\ appTable'[s].name = appTable[s].name
    BY <1>8
  <2>3. bg' = bg
    BY <1>6
  <2> QED BY <2>1, <2>2, <2>3 DEF Core, HoldersApart, ReservedHeld, NamesApart, Cleaning, IsUsed
<1>23. MainsNamed'
  <2>1. \A s \in TaskSlots : Named(s)' <=> Named(s)
    BY <1>6 DEF Named
  <2> SUFFICES ASSUME NEW s \in TaskSlots, osTasks[s].id # Free, Named(s)
               PROVE  LET rec == appTable'[LocateAppRecordByID(osTasks[s].app)]
                      IN  /\ rec.id # Free /\ rec.name = osTasks[s].name
                          /\ \/ rec.main = osTasks[s].id
                             \/ \E q \in Creators : create'[q].pc = "register" /\ create'[q].task = osTasks[s].id
    BY <1>6, <2>1 DEF MainsNamed, CreatorAwaits, IsUsed
  <2>2. PICK r \in AppSlots : r = LocateAppRecordByID(osTasks[s].app)
    BY ONLY <1>0, Slots, s \in TaskSlots DEF FieldTypes
  <2>3. /\ appTable[r].id # Free /\ appTable[r].name = osTasks[s].name
        /\ \/ appTable[r].main = osTasks[s].id
           \/ \E q \in Creators : create[q].pc = "register" /\ create[q].task = osTasks[s].id
    BY <2>2 DEF Core, MainsNamed, CreatorAwaits, IsUsed
  <2>4. appTable'[r].id = appTable[r].id /\ appTable'[r].name = appTable[r].name
    BY <1>8
  <2>5. CASE appTable[r].main = osTasks[s].id
    BY <1>8, <1>10, <2>2, <2>3, <2>4, <2>5
  <2>6. ASSUME NEW q \in Creators, create[q].pc = "register", create[q].task = osTasks[s].id
        PROVE  \/ appTable'[r].main = osTasks[s].id
               \/ \E k \in Creators : create'[k].pc = "register" /\ create'[k].task = osTasks[s].id
    <3>1. CASE q = p
      <4>1. s = w
        BY <1>2, <1>3, <2>6, <3>1 DEF Ids, OsIds
      <4>2. r = z
        BY <1>3, <1>4, <2>2, <4>1
      <4> QED BY <1>2, <1>8, <2>6, <3>1, <4>2
    <3>2. CASE q # p
      BY <1>9, <2>6, <3>2
    <3> QED BY <3>1, <3>2
  <2> QED BY <2>2, <2>3, <2>4, <2>5, <2>6
<1>24. ASSUME NEW m \in Nat, NEW b \in Nat, MainRecorded(m, b)
       PROVE  MainRecorded(m, b)'
  BY <1>4, <1>6, <1>7, <1>24 DEF MainRecorded, OsAlive
<1>25. MainsRecorded'
  <2>1. ASSUME NEW q \in AppSlots, appTable'[q].id > Free
        PROVE  MainRecorded(appTable[q].main, appTable[q].id)'
    <3>1. q # z /\ appTable'[q] = appTable[q]
      BY <1>8, <1>10, <2>1
    <3>2. PICK m \in Nat, b \in Nat : m = appTable[q].main /\ b = appTable[q].id
      BY <2>1, <3>1
    <3>3. MainRecorded(m, b)
      BY <2>1, <3>1, <3>2 DEF Core, MainsRecorded
    <3> QED BY <1>24, <3>1, <3>2, <3>3 DEF MainRecorded, OsAlive
  <2>2. ASSUME NEW q \in Creators, create'[q].pc = "finish"
        PROVE  MainRecorded(create[q].task, create[q].id)'
    <3>1. CASE q = p
      BY <1>3, <1>7, <1>9, <3>1 DEF MainRecorded
    <3>2. CASE q # p
      <4>1. create'[q] = create[q]
        BY <1>9, <3>2
      <4>2. PICK m \in Nat, b \in Nat : m = create[q].task /\ b = create[q].id
        OBVIOUS
      <4>3. MainRecorded(m, b)
        BY <2>2, <4>1, <4>2 DEF Core, MainsRecorded
      <4> QED BY <1>24, <4>1, <4>2, <4>3 DEF MainRecorded, OsAlive
    <3> QED BY <3>1, <3>2
  <2> QED BY <2>1, <2>2 DEF MainsRecorded
<1>26. MainListed'
  BY <1>6, <1>8, <1>19 DEF Core, MainListed, OsAlive, Cleaning
<1>27. LeftOvers'
  <2> SUFFICES ASSUME NEW u \in bg.left, OsAlive(u)
               PROVE  /\ OsTask(u).app = bg.id /\ (OsTask(u).pc # "suspended" => bg.id \in forced)
                      /\ taskTable'[LocateTaskRecordByID(u)].id = Reserved
                      /\ \A q \in Creators : ~CreatorAwaits(q, u)'
                      /\ \A s \in TaskSlots : ~ParentAwaits(s, u)
    BY <1>6 DEF LeftOvers, OsTask, OsAlive, CreatorAwaits, ParentAwaits
  <2>1. u \in Nat \ {0} /\ ~CreatorAwaits(p, u)
    BY DEF Ids, BgIds, Core, LeftOvers
  <2>2. LocateTaskRecordByID(u) # w
    BY <1>1, <1>2, <1>4, <2>1 DEF CreatorAwaits, OsAlive
  <2>3. \A q \in Creators : CreatorAwaits(q, u)' => CreatorAwaits(q, u)
    BY <1>14 DEF CreatorAwaits
  <2> QED BY <1>7, <2>1, <2>2, <2>3 DEF Core, LeftOvers
<1>28. TasksInContext'
  <2>1. \A s \in TaskSlots : (s # w /\ InContext(s)) => InContext(s)'
    BY <1>6, <1>7, <1>8 DEF InContext
  <2> QED BY <1>4, <1>6, <2>1 DEF Core, TasksInContext
<1> QED BY <1>11, <1>12, <1>13, <1>16, <1>17, <1>20, <1>21, <1>22, <1>23, <1>25, <1>26, <1>27, <1>28
        DEF Core

(* ... and the child task of a main task.                                    *)
LEMMA StartChildStep ==
  ASSUME TablesTyped, Ids, Core, NEW t \in Nat \ {0}, StartChildTask(t)
  PROVE  AppIds' /\ TaskIds' /\ OsIds' /\ CreateIds' /\ Core'
<1>0. FieldTypes
  BY Fields
<1>y. PICK y \in TaskSlots : y = LocateTaskRecordByID(t)
  BY Slots
<1>1. osTasks[y].id = t /\ osTasks[y].pc = "spawn"
  <2>1. t \in LiveTasks /\ osTasks[y].pc = "spawn"
    BY <1>y DEF StartChildTask, At, OsTask
  <2>2. PICK s \in TaskSlots : osTasks[s].id = t
    BY <2>1 DEF LiveTasks
  <2>3. s = y
    BY <1>0, <1>y, <2>2 DEF Ids, OsIds, Free, FieldTypes
  <2> QED BY <2>1, <2>2, <2>3
<1>2. PICK c \in Nat, a \in Nat : c = osTasks[y].child /\ a = osTasks[y].app
  BY <1>0 DEF FieldTypes
<1>3. PICK w \in TaskSlots : w = LocateTaskRecordByID(c)
  BY Slots
<1>4. /\ c # Free /\ c <= lastOsTask /\ a \in 1 .. lastAppId
      /\ osTasks[w].id = c /\ osTasks[w].pc = "entry" /\ osTasks[w].app = a
      /\ taskTable[w].id # c /\ w # y
  BY <1>1, <1>2, <1>3 DEF Core, Awaited, Unregistered, OsAlive, OsTask, TaskRecordIsMatch, Ids, OsIds, Free
<1>5. ~(taskTable[w].id > 0)
  BY <1>0, <1>4 DEF Core, RecordsTrue, FieldTypes, Free
<1>6. appTable' = appTable /\ create' = create /\ bg' = bg /\ forced' = forced
      /\ lastAppId' = lastAppId /\ lastOsTask' = lastOsTask
  BY DEF StartChildTask, history
<1>7. /\ \A s \in TaskSlots : s # w => taskTable'[s] = taskTable[s]
      /\ taskTable'[w].id = c /\ taskTable'[w].app = a
  BY <1>y, <1>2, <1>3 DEF StartChildTask, SetTaskRecord, TablesTyped, OsTask
<1>8. /\ \A s \in TaskSlots : s # y => osTasks'[s] = osTasks[s]
      /\ osTasks'[y].id = t /\ osTasks'[y].pc = "init" /\ osTasks'[y].app = a
      /\ osTasks'[y].name = osTasks[y].name /\ osTasks'[y].child = osTasks[y].child
  BY <1>y, <1>1, <1>2 DEF StartChildTask, Goto, TablesTyped, OsRec
<1>9. \A s \in TaskSlots : /\ osTasks'[s].id = osTasks[s].id /\ osTasks'[s].app = osTasks[s].app
                           /\ osTasks'[s].name = osTasks[s].name /\ osTasks'[s].child = osTasks[s].child
  BY <1>1, <1>2, <1>8
<1> USE <1>0, Slots DEF FieldTypes, Free, Reserved
<1>10. AppIds' /\ TaskIds' /\ OsIds' /\ CreateIds'
  <2>1. AppIds' /\ CreateIds'
    BY <1>6 DEF Ids, AppIds, CreateIds
  <2>2. TaskIds'
    BY <1>3, <1>4, <1>6, <1>7 DEF Ids, TaskIds
  <2>3. OsIds'
    BY <1>6, <1>9 DEF Ids, OsIds
  <2> QED BY <2>1, <2>2, <2>3
<1>11. RecordsTrue'
  BY <1>4, <1>7, <1>8, <1>9 DEF Core, RecordsTrue
<1>12. ReservedListed'
  BY <1>4, <1>6, <1>7 DEF Core, ReservedListed, Cleaning
<1>13. \A s \in TaskSlots : (osTasks'[s].id # Free /\ osTasks'[s].pc = "spawn") =>
         s # y /\ osTasks'[s] = osTasks[s] /\ osTasks[s].child # c
  BY <1>1, <1>2, <1>4, <1>8 DEF Core, AwaitedOnce, ParentAwaits
<1>14. \A q \in Creators : create[q].pc = "register" => create[q].task # c
  BY <1>1, <1>2 DEF Core, AwaitedOnce, ParentAwaits
<1>15. Awaited'
  <2>1. ASSUME NEW u \in Nat, NEW b \in Nat, Unregistered(u, b), u # c
        PROVE  Unregistered(u, b)' /\ OsTask(u)' = OsTask(u)
    <3>1. LocateTaskRecordByID(u) # y /\ LocateTaskRecordByID(u) # w /\ LocateTaskRecordByID(u) \in TaskSlots
      BY <1>1, <1>4, <2>1 DEF Unregistered, OsAlive, OsTask
    <3> QED BY <1>7, <1>8, <2>1, <3>1 DEF Unregistered, OsAlive, OsTask, TaskRecordIsMatch
  <2>2. ASSUME NEW q \in Creators, create[q].pc = "register"
        PROVE  (Unregistered(create[q].task, create[q].id) /\ OsTask(create[q].task).name = create[q].name)'
    <3>1. PICK u \in Nat, b \in Nat : u = create[q].task /\ b = create[q].id
      OBVIOUS
    <3>2. Unregistered(u, b) /\ OsTask(u).name = create[q].name /\ u # c
      BY <1>14, <2>2, <3>1 DEF Core, Awaited
    <3> QED BY <1>6, <2>1, <3>1, <3>2 DEF Unregistered, OsAlive, OsTask, TaskRecordIsMatch
  <2>3. ASSUME NEW s \in TaskSlots, osTasks'[s].id # Free, osTasks'[s].pc = "spawn"
        PROVE  Unregistered(osTasks[s].child, osTasks[s].app)'
    <3>1. osTasks'[s] = osTasks[s] /\ osTasks[s].child # c
      BY <1>13, <2>3
    <3>2. PICK u \in Nat, b \in Nat : u = osTasks[s].child /\ b = osTasks[s].app
      OBVIOUS
    <3>3. Unregistered(u, b)
      BY <2>3, <3>1, <3>2 DEF Core, Awaited
    <3> QED BY <2>1, <3>1, <3>2, <3>3 DEF Unregistered, OsAlive, OsTask, TaskRecordIsMatch
  <2> QED BY <1>6, <2>2, <2>3 DEF Awaited
<1>16. AwaitedOnce'
  BY <1>6, <1>13 DEF Core, AwaitedOnce, CreatorAwaits, ParentAwaits
<1>17. CreatesHoldSlot' /\ CleanupHoldsSlot' /\ HoldersApart' /\ ReservedHeld' /\ NamesApart'
  BY <1>6 DEF Core, CreatesHoldSlot, CleanupHoldsSlot, HoldersApart, ReservedHeld, NamesApart,
              Cleaning, IsUsed
<1>18. MainsNamed'
  <2>1. \A s \in TaskSlots : Named(s)' <=> Named(s)
    BY <1>9 DEF Named
  <2> QED BY <1>6, <1>9, <2>1 DEF Core, MainsNamed, CreatorAwaits, IsUsed
<1>19. ASSUME NEW m \in Nat, NEW b \in Nat, MainRecorded(m, b)
       PROVE  MainRecorded(m, b)'
  BY <1>4, <1>7, <1>9, <1>19 DEF MainRecorded, OsAlive
<1>20. MainsRecorded'
  <2>1. ASSUME NEW q \in AppSlots, appTable[q].id > Free
        PROVE  MainRecorded(appTable[q].main, appTable[q].id)'
    <3>1. PICK m \in Nat, b \in Nat : m = appTable[q].main /\ b = appTable[q].id
      BY <2>1
    <3>2. MainRecorded(m, b)
      BY <2>1, <3>1 DEF Core, MainsRecorded
    <3> QED BY <1>6, <1>19, <3>1, <3>2 DEF MainRecorded, OsAlive
  <2>2. ASSUME NEW q \in Creators, create[q].pc = "finish"
        PROVE  MainRecorded(create[q].task, create[q].id)'
    <3>1. PICK m \in Nat, b \in Nat : m = create[q].task /\ b = create[q].id
      OBVIOUS
    <3>2. MainRecorded(m, b)
      BY <2>2, <3>1 DEF Core, MainsRecorded
    <3> QED BY <1>6, <1>19, <3>1, <3>2 DEF MainRecorded, OsAlive
  <2> QED BY <1>6, <2>1, <2>2 DEF MainsRecorded, MainRecorded, OsAlive
<1>21. MainListed'
  <2>1. Cleaning => bg.id \in Nat
    BY DEF Ids, BgIds, Cleaning
  <2> QED BY <1>6, <1>9, <2>1 DEF Core, MainListed, OsAlive, Cleaning
<1>22. LeftOvers'
  <2> SUFFICES ASSUME NEW u \in bg.left, OsAlive(u)'
               PROVE  /\ OsTask(u)'.app = bg.id /\ (OsTask(u)'.pc # "suspended" => bg.id \in forced)
                      /\ taskTable'[LocateTaskRecordByID(u)].id = Reserved
                      /\ \A q \in Creators : ~CreatorAwaits(q, u)
                      /\ \A s \in TaskSlots : ~ParentAwaits(s, u)'
    BY <1>6 DEF LeftOvers, OsTask, OsAlive, CreatorAwaits, ParentAwaits
  <2>1. u \in Nat \ {0} /\ OsAlive(u)
    BY <1>9 DEF Ids, BgIds, OsAlive
  <2>2. ~ParentAwaits(y, u)
    BY <2>1 DEF Core, LeftOvers
  <2>3. LocateTaskRecordByID(u) # w
    BY <1>1, <1>2, <1>4, <2>1, <2>2 DEF ParentAwaits, OsAlive
  <2>4. \A s \in TaskSlots : ParentAwaits(s, u)' => ParentAwaits(s, u)
    BY <1>13 DEF ParentAwaits
  <2>5. OsTask(u)'.app = OsTask(u).app /\ (OsTask(u)'.pc # "suspended" => OsTask(u).pc # "suspended")
    BY <1>1, <1>8, <1>9, <2>1 DEF OsTask
  <2> QED BY <1>7, <2>1, <2>3, <2>4, <2>5 DEF Core, LeftOvers
<1>23. TasksInContext'
  <2>1. \A s \in TaskSlots : (s # w /\ InContext(s)) => InContext(s)'
    BY <1>6, <1>7, <1>9 DEF InContext
  <2> SUFFICES ASSUME NEW s \in TaskSlots, osTasks'[s].id # Free,
                      osTasks'[s].pc \notin {"entry", "exiting"}
               PROVE  InContext(s)' \/ osTasks'[s].id \in bg.left
    BY <1>6 DEF TasksInContext
  <2>2. s # w /\ osTasks'[s].id = osTasks[s].id /\ osTasks[s].pc \notin {"entry", "exiting"}
    BY <1>1, <1>4, <1>8
  <2> QED BY <2>1, <2>2 DEF Core, TasksInContext
<1> QED BY <1>10, <1>11, <1>12, <1>15, <1>16, <1>17, <1>18, <1>20, <1>21, <1>22, <1>23 DEF Core

-----------------------------------------------------------------------------
(* CFE_ES_AppCreate ends: the record becomes real, or the slot is given back. *)
LEMMA FinishStep ==
  ASSUME TablesTyped, Ids, Core, NEW p \in Creators, FinishCreate(p), bg \in BgRec
  PROVE  AppIds' /\ TaskIds' /\ OsIds' /\ CreateIds' /\ Core'
<1>0. FieldTypes
  BY Fields
<1>1. create[p].pc = "finish"
  BY DEF FinishCreate
<1>2. PICK c \in Nat, a \in Nat : c = create[p].task /\ a = create[p].id
  BY <1>0 DEF FieldTypes
<1>3. PICK z \in AppSlots : z = LocateAppRecordByID(a)
  BY Slots
<1>4. taskTable' = taskTable /\ osTasks' = osTasks /\ forced' = forced
      /\ lastAppId' = lastAppId /\ lastOsTask' = lastOsTask
  BY DEF FinishCreate, os, history
<1>5. /\ \A q \in Creators : q # p => create'[q] = create[q]
      /\ create'[p].pc = "idle" /\ create'[p].task = Free
  BY DEF FinishCreate, TablesTyped, NoCreate
<1>6. /\ \A s \in AppSlots : s # z => appTable'[s] = appTable[s]
      /\ \/ c = Free /\ appTable'[z].id = Free /\ appTable'[z].main = Free
         \/ /\ c # Free /\ appTable'[z].id = a /\ appTable'[z].name = appTable[z].name
            /\ appTable'[z].main = appTable[z].main
  <2>1. CASE c # Free
    BY <1>2, <1>3, <2>1 DEF FinishCreate, TablesTyped, AppRec
  <2>2. CASE c = Free
    BY <1>2, <1>3, <2>2 DEF FinishCreate, TablesTyped, AppRecordSetFree, FreeApp
  <2> QED BY <2>1, <2>2
<1>7. /\ bg'.left = bg.left /\ (Cleaning => bg' = bg) /\ (Cleaning' => bg' = bg)
  <2>1. CASE p = "bg"
    <3>1. bg.pc = "creating" /\ bg.left = {}
      BY <1>1, <2>1 DEF Ids, BgIds, Cleaning
    <3>2. bg'.pc = "idle" /\ bg'.left = {}
      BY <2>1 DEF FinishCreate, NoWork
    <3> QED BY <3>1, <3>2 DEF Cleaning
  <2>2. CASE p # "bg"
    BY <2>2 DEF FinishCreate
  <2> QED BY <2>1, <2>2
<1>8. /\ appTable[z].id = Reserved /\ appTable[z].main = c /\ a \in 1 .. lastAppId /\ c <= lastOsTask
  BY <1>1, <1>2, <1>3 DEF Core, CreatesHoldSlot, Ids, CreateIds
<1>9. MainRecorded(c, a)
  BY <1>1, <1>2 DEF Core, MainsRecorded
<1> USE <1>0, Slots DEF FieldTypes, Free, Reserved
<1>10. AppIds' /\ TaskIds' /\ OsIds' /\ CreateIds'
  <2>1. AppIds'
    BY <1>3, <1>4, <1>6, <1>8 DEF Ids, AppIds
  <2>2. TaskIds' /\ OsIds' /\ CreateIds'
    BY <1>4, <1>5 DEF Ids, TaskIds, OsIds, CreateIds
  <2> QED BY <2>1, <2>2
<1>11. RecordsTrue' /\ ReservedListed'
  BY <1>4, <1>7 DEF Core, RecordsTrue, ReservedListed, Cleaning
<1>12. \A q \in Creators : create'[q].pc # "idle" => q # p /\ create'[q] = create[q]
  BY <1>5
<1>13. Awaited' /\ AwaitedOnce'
  BY <1>4, <1>12 DEF Core, Awaited, AwaitedOnce, Unregistered, OsAlive, OsTask, TaskRecordIsMatch,
                    CreatorAwaits, ParentAwaits
<1>14. \A q \in Creators : (q # p /\ create[q].pc # "idle") => LocateAppRecordByID(create[q].id) # z
  BY <1>1, <1>2, <1>3 DEF Core, HoldersApart
<1>15. Cleaning => LocateAppRecordByID(bg.id) # z /\ LocateAppRecordByID(bg.id) \in AppSlots
  BY <1>1, <1>2, <1>3 DEF Core, HoldersApart, Ids, BgIds, Cleaning
<1>16. CreatesHoldSlot'
  BY <1>6, <1>12, <1>14 DEF Core, CreatesHoldSlot
<1>17. Cleaning' => Cleaning
  BY <1>7 DEF Cleaning
<1>18. CleanupHoldsSlot'
  BY <1>6, <1>7, <1>15, <1>17 DEF Core, CleanupHoldsSlot
<1>19. HoldersApart'
  BY <1>7, <1>12, <1>17 DEF Core, HoldersApart
<1>20. ReservedHeld'
  <2> SUFFICES ASSUME NEW s \in AppSlots, appTable'[s].id = Reserved
               PROVE  \/ \E q \in Creators : create'[q].pc # "idle" /\ LocateAppRecordByID(create'[q].id) = s
                      \/ Cleaning' /\ LocateAppRecordByID(bg'.id) = s
    BY DEF ReservedHeld
  <2>1. s # z /\ appTable[s].id = Reserved
    BY <1>6, <1>8
  <2>2. CASE Cleaning /\ LocateAppRecordByID(bg.id) = s
    BY <1>7, <2>2 DEF Cleaning
  <2>3. ASSUME NEW q \in Creators, create[q].pc # "idle", LocateAppRecordByID(create[q].id) = s
        PROVE  create'[q].pc # "idle" /\ LocateAppRecordByID(create'[q].id) = s
    BY <1>2, <1>3, <1>5, <2>1, <2>3
  <2> QED BY <2>1, <2>2, <2>3 DEF Core, ReservedHeld
<1>21. NamesApart'
  BY <1>6, <1>8 DEF Core, NamesApart, IsUsed
<1>22. MainsNamed'
  <2>1. \A s \in TaskSlots : Named(s)' <=> Named(s)
    BY <1>4 DEF Named
  <2> SUFFICES ASSUME NEW s \in TaskSlots, osTasks[s].id # Free, Named(s)
               PROVE  LET rec == appTable'[LocateAppRecordByID(osTasks[s].app)]
                      IN  /\ rec.id # Free /\ rec.name = osTasks[s].name
                          /\ \/ rec.main = osTasks[s].id
                             \/ \E q \in Creators : create'[q].pc = "register" /\ create'[q].task = osTasks[s].id
    BY <1>4, <2>1 DEF MainsNamed, CreatorAwaits, IsUsed
  <2>2. PICK r \in AppSlots : r = LocateAppRecordByID(osTasks[s].app)
    BY ONLY <1>0, Slots, s \in TaskSlots DEF FieldTypes
  <2>3. /\ appTable[r].id # Free /\ appTable[r].name = osTasks[s].name
        /\ \/ appTable[r].main = osTasks[s].id
           \/ \E q \in Creators : create[q].pc = "register" /\ create[q].task = osTasks[s].id
    BY <2>2 DEF Core, MainsNamed, CreatorAwaits, IsUsed
  <2>4. ASSUME NEW q \in Creators, create[q].pc = "register", create[q].task = osTasks[s].id
        PROVE  r # z /\ create'[q].pc = "register" /\ create'[q].task = osTasks[s].id
    <3>1. q # p /\ create'[q] = create[q]
      BY <1>1, <1>5, <2>4
    <3>2. LocateTaskRecordByID(osTasks[s].id) = s
      BY DEF Ids, OsIds
    <3>3. osTasks[s].app = create[q].id
      BY <2>4, <3>2 DEF Core, Awaited, Unregistered, OsTask
    <3> QED BY <1>14, <2>2, <2>4, <3>1, <3>3
  <2>5. CASE appTable[r].main = osTasks[s].id
    BY <1>6, <1>8, <2>2, <2>3, <2>5
  <2> QED BY <1>6, <2>2, <2>3, <2>4, <2>5
<1>23. MainsRecorded'
  <2>1. ASSUME NEW q \in AppSlots, appTable'[q].id > Free
        PROVE  MainRecorded(appTable[q].main, appTable[q].id)'
    <3>1. CASE q = z
      BY <1>4, <1>6, <1>8, <1>9, <2>1, <3>1 DEF MainRecorded, OsAlive
    <3>2. CASE q # z
      BY <1>4, <1>6, <2>1, <3>2 DEF Core, MainsRecorded, MainRecorded, OsAlive
    <3> QED BY <3>1, <3>2
  <2>2. ASSUME NEW q \in Creators, create'[q].pc = "finish"
        PROVE  MainRecorded(create[q].task, create[q].id)'
    BY <1>4, <1>12, <2>2 DEF Core, MainsRecorded, MainRecorded, OsAlive
  <2> QED BY <2>1, <2>2 DEF MainsRecorded
<1>24. MainListed'
  BY <1>4, <1>6, <1>7, <1>15, <1>17 DEF Core, MainListed, OsAlive
<1>25. LeftOvers'
  <2>1. \A u \in bg.left : bg' = bg
    BY <1>7 DEF Ids, BgIds
  <2>2. \A q \in Creators, u \in bg.left : CreatorAwaits(q, u)' => CreatorAwaits(q, u)
    BY <1>12 DEF CreatorAwaits
  <2> QED BY <1>4, <1>7, <2>1, <2>2 DEF Core, LeftOvers, OsAlive, OsTask, CreatorAwaits, ParentAwaits
<1>26. TasksInContext'
  <2>1. \A s \in TaskSlots : (InContext(s) /\ osTasks[s].id # Free) => InContext(s)'
    BY <1>4, <1>6, <1>8 DEF InContext, Ids, TaskIds
  <2> QED BY <1>4, <1>7, <2>1 DEF Core, TasksInContext
<1> QED BY <1>10, <1>11, <1>13, <1>16, <1>18, <1>19, <1>20, <1>21, <1>22, <1>23, <1>24, <1>25, <1>26
        DEF Core

-----------------------------------------------------------------------------
(* CFE_ES_CleanUpApp reserves the records, ...                               *)
LEMMA CollectStep ==
  ASSUME TablesTyped, Ids, Core, CollectResources, bg \in BgRec
  PROVE  AppIds' /\ TaskIds' /\ OsIds' /\ CreateIds' /\ Core'
<1>0. FieldTypes
  BY Fields
<1>1. PICK a \in Nat : a = bg.id
  BY DEF BgRec
<1>2. PICK z \in AppSlots : z = LocateAppRecordByID(a)
  BY Slots
<1>3. bg.pc = "collect" /\ ~Cleaning /\ bg.left = {} /\ a \in 1 .. lastAppId /\ appTable[z].id = a
  BY <1>1, <1>2 DEF CollectResources, Cleaning, Ids, BgIds, AppRecordIsMatch
<1>4. osTasks' = osTasks /\ create' = create /\ lastAppId' = lastAppId /\ lastOsTask' = lastOsTask
  BY DEF CollectResources, os
<1>5. /\ \A s \in AppSlots : s # z => appTable'[s] = appTable[s]
      /\ appTable'[z].id = Reserved /\ appTable'[z].name = appTable[z].name
      /\ appTable'[z].main = appTable[z].main
  BY <1>1, <1>2 DEF CollectResources, TablesTyped, AppRec
<1>6. \A s \in TaskSlots : taskTable[s].id # Reserved
  BY <1>3 DEF Core, ReservedListed
<1>7. \A s \in TaskSlots :
        /\ taskTable'[s].app = taskTable[s].app
        /\ (taskTable[s].id # Free /\ taskTable[s].app = a) => taskTable'[s].id = Reserved
        /\ ~(taskTable[s].id # Free /\ taskTable[s].app = a) => taskTable'[s] = taskTable[s]
  BY <1>1 DEF CollectResources, TaskRecordsOf, IsUsed, TablesTyped, TaskRec
<1>8. /\ bg'.pc = "services" /\ bg'.id = a
      /\ bg'.left = {taskTable[s].id : s \in {r \in TaskSlots : taskTable[r].id # Free /\ taskTable[r].app = a}}
      /\ bg'.tasks = bg'.left /\ Cleaning'
  BY <1>1 DEF CollectResources, TaskRecordsOf, IsUsed, BgRec, Cleaning
<1> USE <1>0, Slots DEF FieldTypes, Free, Reserved
<1>9. \A u \in bg'.left : \E s \in TaskSlots : taskTable[s].id = u /\ taskTable[s].id > 0 /\ taskTable[s].app = a
        /\ LocateTaskRecordByID(u) = s /\ taskTable'[s].id = Reserved
  BY <1>6, <1>7, <1>8 DEF Ids, TaskIds
<1>10. \A s \in TaskSlots : (taskTable[s].id > 0 /\ taskTable[s].app = a) => taskTable[s].id \in bg'.left
  BY <1>8
<1>11. AppIds' /\ TaskIds' /\ OsIds' /\ CreateIds'
  <2>1. AppIds'
    BY <1>4, <1>5 DEF Ids, AppIds
  <2>2. TaskIds'
    BY <1>4, <1>7 DEF Ids, TaskIds
  <2>3. OsIds' /\ CreateIds'
    BY <1>4 DEF Ids, OsIds, CreateIds
  <2> QED BY <2>1, <2>2, <2>3
<1>12. RecordsTrue'
  BY <1>4, <1>7 DEF Core, RecordsTrue
<1>13. ReservedListed'
  <2> SUFFICES ASSUME NEW s \in TaskSlots, taskTable'[s].id = Reserved
               PROVE  \E t \in bg'.tasks : LocateTaskRecordByID(t) = s
    BY <1>8 DEF ReservedListed
  <2>1. taskTable[s].id > 0 /\ taskTable[s].app = a /\ LocateTaskRecordByID(taskTable[s].id) = s
    BY <1>6, <1>7 DEF Ids, TaskIds
  <2> QED BY <1>8, <1>10, <2>1
<1>14. ASSUME NEW u \in Nat, NEW b \in Nat, Unregistered(u, b)
       PROVE  Unregistered(u, b)'
  BY <1>4, <1>7, <1>14 DEF Unregistered, OsAlive, OsTask, TaskRecordIsMatch
<1>15. Awaited'
  <2>1. ASSUME NEW q \in Creators, create[q].pc = "register"
        PROVE  (Unregistered(create[q].task, create[q].id) /\ OsTask(create[q].task).name = create[q].name)'
    <3>1. PICK u \in Nat, b \in Nat : u = create[q].task /\ b = create[q].id
      OBVIOUS
    <3>2. Unregistered(u, b) /\ OsTask(u).name = create[q].name
      BY <2>1, <3>1 DEF Core, Awaited
    <3> QED BY <1>4, <1>14, <3>1, <3>2 DEF Unregistered, OsAlive, OsTask, TaskRecordIsMatch
  <2>2. ASSUME NEW s \in TaskSlots, osTasks[s].id # Free, osTasks[s].pc = "spawn"
        PROVE  Unregistered(osTasks[s].child, osTasks[s].app)'
    <3>1. PICK u \in Nat, b \in Nat : u = osTasks[s].child /\ b = osTasks[s].app
      OBVIOUS
    <3>2. Unregistered(u, b)
      BY <2>2, <3>1 DEF Core, Awaited
    <3> QED BY <1>4, <1>14, <3>1, <3>2 DEF Unregistered, OsAlive, OsTask, TaskRecordIsMatch
  <2> QED BY <1>4, <2>1, <2>2 DEF Awaited
<1>16. AwaitedOnce'
  BY <1>4 DEF Core, AwaitedOnce, CreatorAwaits, ParentAwaits
<1>17. \A q \in Creators : create[q].pc # "idle" => LocateAppRecordByID(create[q].id) # z
  BY <1>3 DEF Core, CreatesHoldSlot
<1>18. CreatesHoldSlot'
  BY <1>4, <1>5, <1>17 DEF Core, CreatesHoldSlot
<1>19. CleanupHoldsSlot'
  BY <1>2, <1>5, <1>8 DEF CleanupHoldsSlot
<1>20. HoldersApart'
  BY <1>2, <1>4, <1>8, <1>17 DEF Core, HoldersApart
<1>21. ReservedHeld'
  BY <1>2, <1>3, <1>4, <1>5, <1>8 DEF Core, ReservedHeld
<1>22. NamesApart'
  BY <1>3, <1>5 DEF Core, NamesApart, IsUsed
<1>23. MainsNamed'
  <2>1. \A s \in TaskSlots : Named(s)' <=> Named(s)
    BY <1>4 DEF Named
  <2>2. \A s \in AppSlots : /\ appTable'[s].main = appTable[s].main /\ appTable'[s].name = appTable[s].name
                            /\ appTable[s].id # Free => appTable'[s].id # Free
    BY <1>5
  <2> QED BY <1>4, <2>1, <2>2 DEF Core, MainsNamed, CreatorAwaits, IsUsed
<1>24. ASSUME NEW m \in Nat, NEW b \in Nat, MainRecorded(m, b), b # a
       PROVE  MainRecorded(m, b)'
  BY <1>4, <1>7, <1>24 DEF MainRecorded, OsAlive
<1>25. MainsRecorded'
  <2>1. ASSUME NEW q \in AppSlots, appTable'[q].id > Free
        PROVE  MainRecorded(appTable[q].main, appTable[q].id)'
    <3>1. q # z /\ appTable'[q] = appTable[q]
      BY <1>5, <2>1
    <3>2. PICK m \in Nat, b \in Nat : m = appTable[q].main /\ b = appTable[q].id
      BY <2>1, <3>1
    <3>3. MainRecorded(m, b) /\ b # a
      BY <1>2, <2>1, <3>1, <3>2 DEF Core, MainsRecorded, Ids, AppIds
    <3> QED BY <1>24, <3>1, <3>2, <3>3 DEF MainRecorded, OsAlive
  <2>2. ASSUME NEW q \in Creators, create[q].pc = "finish"
        PROVE  MainRecorded(create[q].task, create[q].id)'
    <3>1. PICK m \in Nat, b \in Nat : m = create[q].task /\ b = create[q].id
      OBVIOUS
    <3>2. MainRecorded(m, b) /\ b # a
      BY <1>2, <1>17, <2>2, <3>1 DEF Core, MainsRecorded
    <3> QED BY <1>4, <1>24, <3>1, <3>2 DEF MainRecorded, OsAlive
  <2> QED BY <1>4, <2>1, <2>2 DEF MainsRecorded, MainRecorded, OsAlive
<1>26. MainListed'
  <2>1. PICK m \in Nat : m = appTable[z].main
    OBVIOUS
  <2>2. (m # Free /\ OsAlive(m)) => m \in bg'.left
    <3> SUFFICES ASSUME m # Free, OsAlive(m) PROVE m \in bg'.left
      OBVIOUS
    <3>1. taskTable[LocateTaskRecordByID(m)] = [id |-> m, app |-> a]
      <4>1. MainRecorded(appTable[z].main, appTable[z].id)
        BY <1>3 DEF Core, MainsRecorded
      <4>2. MainRecorded(m, a)
        BY <1>3, <2>1, <4>1
      <4> QED BY <4>2 DEF MainRecorded
    <3>2. taskTable[LocateTaskRecordByID(m)].id = m /\ taskTable[LocateTaskRecordByID(m)].app = a
      BY <3>1
    <3> QED BY <1>10, <3>2
  <2> QED BY <1>2, <1>4, <1>5, <1>8, <2>1, <2>2 DEF MainListed, OsAlive
<1>27. LeftOvers'
  <2> SUFFICES ASSUME NEW u \in bg'.left, OsAlive(u)
               PROVE  /\ OsTask(u).app = a /\ (OsTask(u).pc # "suspended" => a \in forced')
                      /\ taskTable'[LocateTaskRecordByID(u)].id = Reserved
                      /\ \A q \in Creators : ~CreatorAwaits(q, u)
                      /\ \A s \in TaskSlots : ~ParentAwaits(s, u)
    BY <1>4, <1>8 DEF LeftOvers, OsTask, OsAlive, CreatorAwaits, ParentAwaits
  <2>1. PICK s \in TaskSlots : taskTable[s].id = u /\ taskTable[s].id > 0 /\ taskTable[s].app = a
          /\ LocateTaskRecordByID(u) = s /\ taskTable'[s].id = Reserved
    BY <1>9
  <2>2. osTasks[s].id = u /\ osTasks[s].app = a
    BY <2>1 DEF Core, RecordsTrue
  <2>3. OsTask(u).pc # "suspended" => a \in forced'
    <3>1. u \in LiveTasks
      BY <2>1, <2>2 DEF LiveTasks
    <3>2. OsTask(u).app = bg.id
      BY <1>1, <2>1, <2>2 DEF OsTask
    <3>3. OsTask(u).pc # "suspended" => StillRuns(bg.id)
      BY <3>1, <3>2 DEF StillRuns
    <3> QED BY <1>1, <3>3 DEF CollectResources
  <2>4. \A b \in Nat : ~Unregistered(u, b)
    BY <2>1 DEF Unregistered, TaskRecordIsMatch
  <2>5. \A q \in Creators : ~CreatorAwaits(q, u)
    BY <2>4 DEF Core, Awaited, CreatorAwaits
  <2>6. \A r \in TaskSlots : ~ParentAwaits(r, u)
    BY <2>4 DEF Core, Awaited, ParentAwaits
  <2> QED BY <2>1, <2>2, <2>3, <2>5, <2>6 DEF OsTask
<1>28. TasksInContext'
  <2> SUFFICES ASSUME NEW s \in TaskSlots, osTasks[s].id # Free,
                      osTasks[s].pc \notin {"entry", "exiting"}
               PROVE  InContext(s)' \/ osTasks[s].id \in bg'.left
    BY <1>4 DEF TasksInContext
  <2>1. InContext(s)
    BY <1>3 DEF Core, TasksInContext
  <2>2. taskTable[s].id = osTasks[s].id /\ taskTable[s].id > 0
        /\ appTable[LocateAppRecordByID(taskTable[s].app)].id = taskTable[s].app
        /\ LocateAppRecordByID(taskTable[s].app) \in AppSlots
    BY <2>1 DEF InContext
  <2>3. CASE taskTable[s].app = a
    BY <1>10, <2>2, <2>3
  <2>4. CASE taskTable[s].app # a
    BY <1>3, <1>4, <1>5, <1>7, <2>2, <2>4 DEF InContext
  <2> QED BY <2>3, <2>4
<1> QED BY <1>11, <1>12, <1>13, <1>15, <1>16, <1>18, <1>19, <1>20, <1>21, <1>22, <1>23, <1>25, <1>26,
           <1>27, <1>28 DEF Core

(* ... and sets them free.                                                   *)
LEMMA FreeStep ==
  ASSUME TablesTyped, Ids, Core, FreeRecords, bg \in BgRec
  PROVE  AppIds' /\ TaskIds' /\ OsIds' /\ CreateIds' /\ Core'
<1>0. FieldTypes
  BY Fields
<1>1. PICK a \in Nat : a = bg.id
  BY DEF BgRec
<1>2. PICK z \in AppSlots : z = LocateAppRecordByID(a)
  BY Slots
<1>3. Cleaning /\ bg.left = {} /\ appTable[z].id = Reserved
  BY <1>1, <1>2 DEF FreeRecords, Cleaning, Core, CleanupHoldsSlot
<1>4. osTasks' = osTasks /\ create' = create /\ lastAppId' = lastAppId /\ lastOsTask' = lastOsTask
      /\ forced' = forced
  BY DEF FreeRecords, os, history
<1>5. /\ \A s \in AppSlots : s # z => appTable'[s] = appTable[s]
      /\ appTable'[z].id = Free
  BY <1>1, <1>2, <1>3 DEF FreeRecords, FreeIfReserved, AppRecordSetFree, FreeApp, TablesTyped
<1>6. \A s \in TaskSlots :
        /\ taskTable[s].id = Reserved => taskTable'[s] = FreeTask
        /\ taskTable[s].id # Reserved => taskTable'[s] = taskTable[s]
  <2>1. \A s \in TaskSlots : taskTable[s].id = Reserved => s \in {LocateTaskRecordByID(t) : t \in bg.tasks}
    BY DEF Core, ReservedListed
  <2> QED BY <2>1 DEF FreeRecords, FreeIfReserved
<1>7. \A s \in TaskSlots :
        /\ taskTable[s].id = Reserved => taskTable'[s].id = Free /\ taskTable'[s].app = Free
        /\ taskTable[s].id # Reserved => taskTable'[s] = taskTable[s]
  BY <1>6 DEF FreeTask
<1>8. ~Cleaning' /\ bg'.left = {}
  <2>1. CASE bg.req \in RestartRequests
    BY <1>3, <2>1 DEF FreeRecords, BgRec, Cleaning
  <2>2. CASE bg.req \notin RestartRequests
    BY <2>2 DEF FreeRecords, NoWork, Cleaning
  <2> QED BY <2>1, <2>2
<1> USE <1>0, Slots DEF FieldTypes, Free, Reserved
<1>11. AppIds' /\ TaskIds' /\ OsIds' /\ CreateIds'
  <2>1. AppIds'
    <3>1. appTable'[z].main = 0
      BY <1>1, <1>2, <1>3 DEF FreeRecords, FreeIfReserved, AppRecordSetFree, FreeApp, TablesTyped
    <3> QED BY <1>4, <1>5, <3>1 DEF Ids, AppIds
  <2>2. TaskIds'
    BY <1>4, <1>7 DEF Ids, TaskIds
  <2>3. OsIds' /\ CreateIds'
    BY <1>4 DEF Ids, OsIds, CreateIds
  <2> QED BY <2>1, <2>2, <2>3
<1>12. RecordsTrue' /\ ReservedListed'
  BY <1>4, <1>7 DEF Core, RecordsTrue, ReservedListed
<1>14. ASSUME NEW u \in Nat, NEW b \in Nat, Unregistered(u, b)
       PROVE  Unregistered(u, b)'
  BY <1>4, <1>7, <1>14 DEF Unregistered, OsAlive, OsTask, TaskRecordIsMatch
<1>15. Awaited'
  <2>1. ASSUME NEW q \in Creators, create[q].pc = "register"
        PROVE  (Unregistered(create[q].task, create[q].id) /\ OsTask(create[q].task).name = create[q].name)'
    <3>1. PICK u \in Nat, b \in Nat : u = create[q].task /\ b = create[q].id
      OBVIOUS
    <3>2. Unregistered(u, b) /\ OsTask(u).name = create[q].name
      BY <2>1, <3>1 DEF Core, Awaited
    <3> QED BY <1>4, <1>14, <3>1, <3>2 DEF Unregistered, OsAlive, OsTask, TaskRecordIsMatch
  <2>2. ASSUME NEW s \in TaskSlots, osTasks[s].id # Free, osTasks[s].pc = "spawn"
        PROVE  Unregistered(osTasks[s].child, osTasks[s].app)'
    <3>1. PICK u \in Nat, b \in Nat : u = osTasks[s].child /\ b = osTasks[s].app
      OBVIOUS
    <3>2. Unregistered(u, b)
      BY <2>2, <3>1 DEF Core, Awaited
    <3> QED BY <1>4, <1>14, <3>1, <3>2 DEF Unregistered, OsAlive, OsTask, TaskRecordIsMatch
  <2> QED BY <1>4, <2>1, <2>2 DEF Awaited
<1>16. AwaitedOnce'
  BY <1>4 DEF Core, AwaitedOnce, CreatorAwaits, ParentAwaits
<1>17. \A q \in Creators : create[q].pc # "idle" => LocateAppRecordByID(create[q].id) # z
  BY <1>1, <1>2, <1>3 DEF Core, HoldersApart
<1>18. CreatesHoldSlot'
  BY <1>4, <1>5, <1>17 DEF Core, CreatesHoldSlot
<1>19. CleanupHoldsSlot' /\ MainListed'
  BY <1>8 DEF CleanupHoldsSlot, MainListed
<1>20. HoldersApart'
  BY <1>4, <1>8 DEF Core, HoldersApart
<1>21. ReservedHeld'
  BY <1>1, <1>2, <1>4, <1>5 DEF Core, ReservedHeld
<1>22. NamesApart'
  BY <1>5 DEF Core, NamesApart, IsUsed
<1>23. MainsNamed'
  <2>1. \A s \in TaskSlots : Named(s)' <=> Named(s)
    BY <1>4 DEF Named
  <2> SUFFICES ASSUME NEW s \in TaskSlots, osTasks[s].id # Free, Named(s)
               PROVE  LET rec == appTable'[LocateAppRecordByID(osTasks[s].app)]
                      IN  /\ rec.id # Free /\ rec.name = osTasks[s].name
                          /\ \/ rec.main = osTasks[s].id
                             \/ \E q \in Creators : create[q].pc = "register" /\ create[q].task = osTasks[s].id
    BY <1>4, <2>1 DEF MainsNamed, CreatorAwaits, IsUsed
  <2>2. PICK r \in AppSlots : r = LocateAppRecordByID(osTasks[s].app)
    BY ONLY <1>0, Slots, s \in TaskSlots DEF FieldTypes
  <2>3. /\ appTable[r].id # Free /\ appTable[r].name = osTasks[s].name
        /\ \/ appTable[r].main = osTasks[s].id
           \/ \E q \in Creators : create[q].pc = "register" /\ create[q].task = osTasks[s].id
    BY <2>2 DEF Core, MainsNamed, CreatorAwaits, IsUsed
  <2>4. LocateTaskRecordByID(osTasks[s].id) = s
    BY DEF Ids, OsIds
  <2>5. r # z
    <3>1. CASE appTable[r].main = osTasks[s].id
      <4>1. OsAlive(osTasks[s].id)
        BY <2>4 DEF OsAlive
      <4>2. r = z => osTasks[s].id \in bg.left
        BY <1>1, <1>2, <1>3, <3>1, <4>1 DEF Core, MainListed
      <4> QED BY <1>3, <4>2
    <3>2. ASSUME NEW q \in Creators, create[q].pc = "register", create[q].task = osTasks[s].id
          PROVE  r # z
      <4>1. osTasks[s].app = create[q].id
        BY <2>4, <3>2 DEF Core, Awaited, Unregistered, OsTask
      <4> QED BY <1>17, <2>2, <3>2, <4>1
    <3> QED BY <2>3, <3>1, <3>2
  <2> QED BY <1>5, <2>2, <2>3, <2>5
<1>25. MainsRecorded'
  <2>1. ASSUME NEW m \in Nat, NEW b \in Nat, MainRecorded(m, b)
        PROVE  MainRecorded(m, b)'
    BY <1>4, <1>7, <2>1 DEF MainRecorded, OsAlive
  <2>2. ASSUME NEW q \in AppSlots, appTable'[q].id > Free
        PROVE  MainRecorded(appTable[q].main, appTable[q].id)'
    <3>1. q # z /\ appTable'[q] = appTable[q]
      BY <1>5, <2>2
    <3>2. PICK m \in Nat, b \in Nat : m = appTable[q].main /\ b = appTable[q].id
      BY <2>2, <3>1
    <3>3. MainRecorded(m, b)
      BY <2>2, <3>1, <3>2 DEF Core, MainsRecorded
    <3> QED BY <2>1, <3>1, <3>2, <3>3 DEF MainRecorded, OsAlive
  <2>3. ASSUME NEW q \in Creators, create[q].pc = "finish"
        PROVE  MainRecorded(create[q].task, create[q].id)'
    <3>1. PICK m \in Nat, b \in Nat : m = create[q].task /\ b = create[q].id
      OBVIOUS
    <3>2. MainRecorded(m, b)
      BY <2>3, <3>1 DEF Core, MainsRecorded
    <3> QED BY <1>4, <2>1, <3>1, <3>2 DEF MainRecorded, OsAlive
  <2> QED BY <1>4, <2>2, <2>3 DEF MainsRecorded, MainRecorded, OsAlive
<1>27. LeftOvers'
  BY <1>8 DEF LeftOvers
<1>28. TasksInContext'
  <2>1. \A s \in TaskSlots : (InContext(s) /\ osTasks[s].id # Free) => InContext(s)'
    <3> SUFFICES ASSUME NEW s \in TaskSlots, InContext(s), osTasks[s].id # Free
                 PROVE  InContext(s)'
      OBVIOUS
    <3>1. taskTable[s].id > 0 /\ appTable[LocateAppRecordByID(taskTable[s].app)].id = taskTable[s].app
          /\ LocateAppRecordByID(taskTable[s].app) \in AppSlots
      BY DEF InContext
    <3>2. LocateAppRecordByID(taskTable[s].app) # z
      BY <1>3, <3>1
    <3> QED BY <1>4, <1>5, <1>7, <3>1, <3>2 DEF InContext
  <2> QED BY <1>3, <1>4, <2>1 DEF Core, TasksInContext
<1> QED BY <1>11, <1>12, <1>15, <1>16, <1>18, <1>19, <1>20, <1>21, <1>22, <1>23, <1>25, <1>27, <1>28
        DEF Core

-----------------------------------------------------------------------------
(* The types.                                                                *)
LEMMA CountSlots ==
  ASSUME NEW S \in SUBSET AppSlots
  PROVE  IsFiniteSet(S) /\ Cardinality(S) \in 0 .. MaxApps
<1>1. IsFiniteSet(0 .. MaxApps - 1) /\ Cardinality(0 .. MaxApps - 1) = MaxApps
  BY Sizes, FS_Interval
<1>2. IsFiniteSet(S) /\ Cardinality(S) <= Cardinality(0 .. MaxApps - 1)
  BY <1>1, FS_Subset DEF AppSlots
<1>3. Cardinality(S) \in Nat
  BY <1>2, FS_CardinalityType
<1> QED BY <1>1, <1>2, <1>3, Sizes

\* The records of idle processes and free slots are typed.
LEMMA Constants ==
  /\ NoCreate \in CreateRec /\ NoCmd \in CmdRec /\ NoWork \in BgRec
  /\ NoOsTask \in OsRec /\ FreeTask \in TaskRec
  /\ \A rec \in AppRec : AppRecordSetFree(rec) \in AppRec
  /\ FreeApp \in AppRec
<1>1. KillTimeout * ScanRate \in Nat
  BY Sizes
<1>2. <<>> \in Seq(Int)
  OBVIOUS
<1>3. NoCreate \in CreateRec /\ NoCmd \in CmdRec /\ NoOsTask \in OsRec /\ FreeTask \in TaskRec
  BY DEF NoCreate, NoCmd, NoOsTask, FreeTask, CreateRec, CmdRec, OsRec, TaskRec, Free, Requests, TaskPcs,
         AppNames
<1>4. NoWork \in BgRec
  BY <1>2 DEF NoWork, BgRec, Free, Requests, AppNames
<1>5. FreeApp \in AppRec
  BY <1>1 DEF FreeApp, AppRec, Free, AppStates, Requests, AppNames
<1>6. \A rec \in AppRec : AppRecordSetFree(rec) \in AppRec
  BY <1>5 DEF AppRecordSetFree, AppRec
<1> QED BY <1>3, <1>4, <1>5, <1>6

\* The scan keeps the type of a record.
LEMMA ScanRecordType ==
  ASSUME NEW rec \in AppRec, NEW e \in Nat
  PROVE  ScanRecord(rec, e) \in AppRec
<1>1. PICK k \in Nat : k = KillTimeout * ScanRate
  BY Sizes
<1>2. rec.timer \in 0 .. k
  BY <1>1 DEF AppRec
<1>3. CASE Stopping(rec)
  <2>1. (IF rec.timer > e THEN rec.timer - e ELSE 0) \in 0 .. k
    BY <1>2
  <2> QED BY <1>1, <1>3, <2>1 DEF ScanRecord, AppRec
<1>4. CASE ~Stopping(rec) /\ Requested(rec)
  <2>1. k \in 0 .. k
    OBVIOUS
  <2> QED BY <1>1, <1>4, <2>1 DEF ScanRecord, AppRec, AppStates
<1>5. CASE ~Stopping(rec) /\ ~Requested(rec)
  BY <1>5 DEF ScanRecord
<1> QED BY <1>3, <1>4, <1>5

\* Reserving a record keeps the types.
LEMMA ReserveTypes ==
  ASSUME TablesTyped, NEW p \in Creators, NEW n \in AppNames, NEW f \in Files \cup {NoFile},
         CanReserve(n), Reserve(p, n, f)
  PROVE  /\ appTable' \in [AppSlots -> AppRec] /\ create' \in [Creators -> CreateRec]
         /\ taskTable' = taskTable /\ lastAppId' \in Nat
<1>1. NewAppId \in Nat
  BY NewAppIsNew DEF CanReserve
<1>2. [FreeApp EXCEPT !.id = Reserved, !.name = n, !.file = f] \in AppRec
  <2>1. FreeApp \in AppRec
    BY Constants
  <2>2. Reserved \in Int
    BY DEF Reserved
  <2> QED BY <2>1, <2>2 DEF AppRec
<1>3. [NoCreate EXCEPT !.pc = "load", !.id = NewAppId, !.name = n, !.file = f] \in CreateRec
  BY <1>1, Constants DEF CreateRec
<1>4. appTable' \in [AppSlots -> AppRec]
  BY <1>2 DEF Reserve, TablesTyped
<1>5. create' \in [Creators -> CreateRec]
  BY <1>3 DEF Reserve, TablesTyped
<1> QED BY <1>1, <1>4, <1>5 DEF Reserve

\* A task that goes on keeps the type of the tasks.
LEMMA GotoType ==
  ASSUME osTasks \in [TaskSlots -> OsRec], NEW t, NEW p \in TaskPcs, Goto(t, p)
  PROVE  osTasks' \in [TaskSlots -> OsRec]
BY DEF Goto, OsRec

\* So does a task that ends.
LEMMA WithoutTaskType ==
  ASSUME osTasks \in [TaskSlots -> OsRec], NEW t
  PROVE  WithoutTask(t) \in [TaskSlots -> OsRec]
BY Constants DEF WithoutTask

\* Of CFE_ES_AppCreate after its first section, ...
LEMMA CreateTypes ==
  ASSUME TablesTyped, WorkTyped, NEW p \in Creators, AppCreate(p)
  PROVE  TablesTyped' /\ WorkTyped'
<1>0. /\ appTable \in [AppSlots -> AppRec] /\ taskTable \in [TaskSlots -> TaskRec]
      /\ osTasks \in [TaskSlots -> OsRec] /\ create \in [Creators -> CreateRec]
      /\ lastAppId \in Nat /\ lastOsTask \in Nat
      /\ bg \in BgRec /\ scan \in ScanRec
  BY DEF TablesTyped, WorkTyped
<1>f. create[p] \in CreateRec
  BY <1>0
<1>1. CASE LoadModule(p)
  <2>0. UNCHANGED <<appTable, lastAppId, taskTable, cmd, bg, scan, cmds>>
    BY <1>1 DEF LoadModule, tables
  <2>1. CASE create' = [create EXCEPT ![p].pc = "finish"] /\ UNCHANGED os
    <3>1. create' \in [Creators -> CreateRec]
      BY <1>0, <1>f, <2>1 DEF CreateRec
    <3> QED BY <1>0, <2>0, <2>1, <3>1 DEF TablesTyped, WorkTyped, os
  <2>2. CASE /\ NewOsTask # Free
             /\ OS_TaskCreate(NewOsTask, create[p].id, create[p].name, "entry")
             /\ create' = [create EXCEPT ![p].pc = "register", ![p].task = NewOsTask]
    <3>1. NewOsTask \in Nat
      BY <2>2, NewTaskIsNew
    <3>2. create' \in [Creators -> CreateRec]
      BY <1>0, <1>f, <2>2, <3>1 DEF CreateRec
    <3>3. [NoOsTask EXCEPT !.id = NewOsTask, !.pc = "entry", !.app = create[p].id, !.name = create[p].name] \in OsRec
      BY <1>f, <3>1, Constants DEF CreateRec, OsRec, TaskPcs
    <3>4. osTasks' \in [TaskSlots -> OsRec] /\ lastOsTask' \in Nat
      BY <1>0, <2>2, <3>1, <3>3 DEF OS_TaskCreate
    <3> QED BY <1>0, <2>0, <3>2, <3>4 DEF TablesTyped, WorkTyped
  <2> QED BY <1>1, <2>1, <2>2 DEF LoadModule
<1>2. CASE StartAppTask(p)
  <2>0. create[p].task \in Nat /\ create[p].id \in Nat
    BY <1>f DEF CreateRec
  <2>1. taskTable' \in [TaskSlots -> TaskRec]
    <3>1. [id |-> create[p].task, app |-> create[p].id] \in TaskRec
      BY <2>0 DEF TaskRec
    <3>2. taskTable' = [taskTable EXCEPT ![LocateTaskRecordByID(create[p].task)] =
                                            [id |-> create[p].task, app |-> create[p].id]]
      BY <1>2 DEF StartAppTask, SetTaskRecord
    <3> QED BY <1>0, <3>1, <3>2
  <2>2. appTable' \in [AppSlots -> AppRec]
    <3>1. appTable' = [appTable EXCEPT ![LocateAppRecordByID(create[p].id)].main = create[p].task]
      BY <1>2 DEF StartAppTask
    <3>2. \A rec \in AppRec : [rec EXCEPT !.main = create[p].task] \in AppRec
      BY <2>0 DEF AppRec
    <3> QED BY <1>0, <3>1, <3>2
  <2>3. create' \in [Creators -> CreateRec]
    BY <1>0, <1>f, <1>2 DEF StartAppTask, CreateRec
  <2> QED BY <1>0, <1>2, <2>1, <2>2, <2>3 DEF StartAppTask, TablesTyped, WorkTyped, os
<1>3. CASE FinishCreate(p)
  <2>1. appTable' \in [AppSlots -> AppRec]
    <3>1. CASE create[p].task # Free
      <4>1. appTable' = [appTable EXCEPT ![LocateAppRecordByID(create[p].id)].id = create[p].id]
        BY <1>3, <3>1 DEF FinishCreate
      <4>2. create[p].id \in Int
        BY <1>f DEF CreateRec
      <4>3. \A rec \in AppRec : [rec EXCEPT !.id = create[p].id] \in AppRec
        BY <4>2 DEF AppRec
      <4> QED BY <1>0, <4>1, <4>3
    <3>2. CASE create[p].task = Free
      BY <1>0, <1>3, <3>2, Constants DEF FinishCreate
    <3> QED BY <3>1, <3>2
  <2>2. create' \in [Creators -> CreateRec]
    BY <1>0, <1>3, Constants DEF FinishCreate
  <2>3. [NoWork EXCEPT !.list = bg.list] \in BgRec
    BY <1>0, Constants DEF BgRec
  <2>4. bg' \in BgRec
    BY <1>0, <1>3, <2>3 DEF FinishCreate
  <2>5. scan' \in ScanRec
    BY <1>0, <1>3 DEF FinishCreate, ScanRec
  <2> QED BY <1>0, <1>3, <2>1, <2>2, <2>4, <2>5 DEF FinishCreate, TablesTyped, WorkTyped, os
<1> QED BY <1>1, <1>2, <1>3 DEF AppCreate

\* ... the command task ...
LEMMA CommandTypes ==
  ASSUME TablesTyped, WorkTyped, CommandTask
  PROVE  TablesTyped' /\ WorkTyped'
<1>0. /\ appTable \in [AppSlots -> AppRec] /\ taskTable \in [TaskSlots -> TaskRec]
      /\ osTasks \in [TaskSlots -> OsRec] /\ create \in [Creators -> CreateRec]
      /\ lastAppId \in Nat /\ lastOsTask \in Nat
      /\ cmd \in CmdRec /\ bg \in BgRec /\ scan \in ScanRec /\ cmds \in 0 .. MaxCmds
  BY DEF TablesTyped, WorkTyped
<1>1. ASSUME NEW n \in Names, NEW f \in Files, StartAppCmd(n, f)
      PROVE  TablesTyped' /\ WorkTyped'
  <2>1. cmds' \in 0 .. MaxCmds
    BY <1>0, <1>1, Sizes DEF StartAppCmd, CmdIdle
  <2>2. UNCHANGED <<osTasks, lastOsTask, cmd, bg, scan>>
    BY <1>1 DEF StartAppCmd, os
  <2>3. CASE CanReserve(n)
    <3>1. "cmd" \in Creators /\ n \in AppNames /\ f \in Files \cup {NoFile} /\ Reserve("cmd", n, f)
      BY <1>1, <2>3 DEF StartAppCmd, Creators, AppNames
    <3>2. /\ appTable' \in [AppSlots -> AppRec] /\ create' \in [Creators -> CreateRec]
          /\ taskTable' = taskTable /\ lastAppId' \in Nat
      BY <2>3, <3>1, ReserveTypes
    <3> QED BY <1>0, <2>1, <2>2, <3>2 DEF TablesTyped, WorkTyped
  <2>4. CASE ~CanReserve(n)
    <3>1. UNCHANGED <<appTable, lastAppId, taskTable, create>>
      BY <1>1, <2>4 DEF StartAppCmd, tables
    <3> QED BY <1>0, <2>1, <2>2, <3>1 DEF TablesTyped, WorkTyped
  <2> QED BY <2>3, <2>4
<1>2. ASSUME NEW n \in Names, NEW k \in {"SYS_DELETE", "SYS_RESTART", "SYS_RELOAD"},
             NEW f \in Files \cup {NoFile}, GetAppIDByName(n, k, f)
      PROVE  TablesTyped' /\ WorkTyped'
  <2>1. cmds' \in 0 .. MaxCmds
    BY <1>0, <1>2, Sizes DEF GetAppIDByName, CmdIdle
  <2>2. cmd' \in CmdRec /\ cmd'.kind = k
    <3>1. PICK s \in AppsNamed(n) : cmd' = [pc |-> "ask", id |-> appTable[s].id, kind |-> k, file |-> f]
      BY <1>2 DEF GetAppIDByName
    <3>2. appTable[s].id \in Int
      BY <1>0 DEF AppsNamed, AppRec
    <3> QED BY <3>1, <3>2 DEF CmdRec, Requests
  <2> QED BY <1>0, <1>2, <2>1, <2>2 DEF GetAppIDByName, TablesTyped, WorkTyped, tables, os
<1>3. CASE RequestApp
  <2>1. cmd' \in CmdRec /\ cmd'.pc = "idle"
    BY <1>3, Constants DEF RequestApp, NoCmd
  <2>2. scan' \in ScanRec
    BY <1>0, <1>3 DEF RequestApp, ScanRec
  <2>3. appTable' \in [AppSlots -> AppRec]
    <3>1. CASE UNCHANGED appTable
      BY <1>0, <3>1
    <3>2. CASE ~UNCHANGED appTable
      <4>1. appTable' = [appTable EXCEPT ![LocateAppRecordByID(cmd.id)] = LeaveRequest(@)]
        BY <1>3, <3>2 DEF RequestApp
      <4>2. cmd.kind \in Requests
        BY <1>3 DEF RequestApp, WorkTyped, Requests
      <4>3. \A rec \in AppRec : LeaveRequest(rec) \in AppRec
        BY <1>0, <4>2 DEF LeaveRequest, AppRec, CmdRec
      <4> QED BY <1>0, <4>1, <4>3
    <3> QED BY <3>1, <3>2
  <2> QED BY <1>0, <1>3, <2>1, <2>2, <2>3 DEF RequestApp, TablesTyped, WorkTyped, os
<1>4. CASE AppCreate("cmd")
  BY <1>4, CreateTypes DEF Creators
<1> QED BY <1>1, <1>2, <1>3, <1>4 DEF CommandTask
\* ... the background task ...
LEMMA TableOrderType ==
  ASSUME NEW S \in SUBSET AppSlots, NEW q \in InTableOrder(S)
  PROVE  \E n \in Nat : DOMAIN q = 1 .. n /\ \A i \in 1 .. n : q[i] \in S
<1>1. Cardinality(S) \in Nat
  BY CountSlots, Sizes
<1> QED BY <1>1 DEF InTableOrder

\* The background task keeps the types.
LEMMA BackgroundTypes ==
  ASSUME TablesTyped, WorkTyped, Ids, Core, ListIds, BackgroundTask
  PROVE  TablesTyped' /\ WorkTyped'
<1>0. /\ appTable \in [AppSlots -> AppRec] /\ taskTable \in [TaskSlots -> TaskRec]
      /\ osTasks \in [TaskSlots -> OsRec] /\ create \in [Creators -> CreateRec]
      /\ lastAppId \in Nat /\ lastOsTask \in Nat
      /\ bg \in BgRec /\ scan \in ScanRec
  BY DEF TablesTyped, WorkTyped
<1>1. ASSUME NEW e \in 1 .. MaxElapsed, RunAppTableScan(e)
      PROVE  TablesTyped' /\ WorkTyped'
  <2>e. e \in Nat
    BY Sizes
  <2>1. CASE ScanDue(e)
    <3>1. appTable' \in [AppSlots -> AppRec]
      <4>1. appTable' = [s \in AppSlots |-> ScanRecord(appTable[s], e)]
        BY <1>1, <2>1 DEF RunAppTableScan
      <4> QED BY <1>0, <2>e, <4>1, ScanRecordType
    <3>2. bg' \in BgRec
      <4> DEFINE S == {s \in AppSlots : TimedOut(appTable[s], e)}
      <4>1. PICK out \in InTableOrder(S) :
              bg' = [bg EXCEPT !.list = [i \in DOMAIN out |-> appTable[out[i]].id]]
        BY <1>1, <2>1 DEF RunAppTableScan
      <4>2. S \in SUBSET AppSlots
        OBVIOUS
      <4> HIDE DEF S
      <4>3. PICK n \in Nat : DOMAIN out = 1 .. n /\ \A i \in 1 .. n : out[i] \in S
        BY <4>2, TableOrderType
      <4>4. [i \in DOMAIN out |-> appTable[out[i]].id] \in Seq(Int)
        <5>1. \A i \in 1 .. n : appTable[out[i]].id \in Int
          BY <1>0, <4>2, <4>3 DEF AppRec
        <5> QED BY <4>3, <5>1
      <4> QED BY <1>0, <4>1, <4>4 DEF BgRec
    <3>3. scan' \in ScanRec
      <4>1. Cardinality({s \in AppSlots : Stopping(appTable[s])}) \in 0 .. MaxApps
        BY CountSlots
      <4>2. ScanRate \in 1 .. ScanRate
        BY Sizes
      <4>3. PICK k \in 0 .. MaxApps : k = Cardinality({s \in AppSlots : Stopping(appTable[s])})
        BY <4>1
      <4>4. scan' = [pending |-> k, timer |-> ScanRate, newCmd |-> FALSE]
        BY <1>1, <2>1, <4>3 DEF RunAppTableScan
      <4> QED BY ONLY <4>2, <4>4, k \in 0 .. MaxApps DEF ScanRec
    <3> QED BY <1>0, <1>1, <3>1, <3>2, <3>3 DEF RunAppTableScan, TablesTyped, WorkTyped, os
  <2>2. CASE ~ScanDue(e)
    <3>1. UNCHANGED <<appTable, bg>> /\ scan' = [scan EXCEPT !.timer = @ - e]
      BY <1>1, <2>2 DEF RunAppTableScan
    <3>2. scan.timer - e \in 1 .. ScanRate
      <4>1. scan.timer \in 1 .. ScanRate
        BY <1>0 DEF ScanRec
      <4>2. ~(scan.timer <= e)
        BY <2>2 DEF ScanDue
      <4> QED BY <2>e, <4>1, <4>2, Sizes
    <3>3. scan' \in ScanRec
      BY <1>0, <3>1, <3>2 DEF ScanRec
    <3> QED BY <1>0, <1>1, <3>1, <3>3 DEF RunAppTableScan, TablesTyped, WorkTyped, os
  <2> QED BY <2>1, <2>2
<1>2. CASE ProcessControlRequest
  <2>1. bg.list \in Seq(Int) /\ bg.list # <<>>
    BY <1>0, <1>2 DEF ProcessControlRequest, BgRec
  <2>2. Tail(bg.list) \in Seq(Int)
    BY <2>1
  <2>3. bg' \in BgRec
    <3> DEFINE a == Head(bg.list)
               rec == appTable[LocateAppRecordByID(a)]
               work == [NoWork EXCEPT !.pc = "collect", !.id = a, !.list = Tail(bg.list)]
    <3>1. a \in Nat
      BY <1>0, <2>1 DEF ListIds
    <3>2. work \in BgRec
      BY <2>2, <3>1, Constants DEF BgRec
    <3>3. rec \in AppRec
      BY <1>0, <3>1, Slots
    <3>4. bg' = IF AppRecordIsMatch(a)
                  THEN [work EXCEPT !.req = rec.req, !.name = rec.name, !.file = rec.file]
                  ELSE work
      BY <1>2 DEF ProcessControlRequest
    <3> HIDE DEF a, rec, work
    <3> QED BY <3>2, <3>3, <3>4 DEF BgRec, AppRec
  <2> QED BY <1>0, <1>2, <2>3 DEF ProcessControlRequest, TablesTyped, WorkTyped, tables, os
<1>3. CASE CollectResources
  <2>1. appTable' \in [AppSlots -> AppRec]
    <3>1. \A rec \in AppRec : [rec EXCEPT !.id = Reserved] \in AppRec
      BY DEF AppRec, Reserved
    <3>2. appTable' = [appTable EXCEPT ![LocateAppRecordByID(bg.id)].id = Reserved]
      BY <1>3 DEF CollectResources
    <3> QED BY <1>0, <3>1, <3>2
  <2>2. taskTable' \in [TaskSlots -> TaskRec]
    <3>1. \A rec \in TaskRec : [rec EXCEPT !.id = Reserved] \in TaskRec
      BY DEF TaskRec, Reserved
    <3>2. taskTable' = [s \in TaskSlots |-> IF s \in TaskRecordsOf(bg.id)
                                              THEN [taskTable[s] EXCEPT !.id = Reserved] ELSE taskTable[s]]
      BY <1>3 DEF CollectResources
    <3> QED BY <1>0, <3>1, <3>2
  <2>3. bg' \in BgRec
    <3>1. ~Cleaning
      BY <1>3 DEF CollectResources, Cleaning
    <3>2. \A s \in TaskSlots : taskTable[s].id # Reserved
      BY <3>1 DEF Core, ReservedListed
    <3>3. \A s \in TaskSlots : taskTable[s].id \in Nat
      BY <1>0, <3>2 DEF Ids, TaskIds, Free
    <3>4. PICK ids \in SUBSET Nat : ids = {taskTable[s].id : s \in TaskRecordsOf(bg.id)}
      BY <3>3 DEF TaskRecordsOf
    <3>5. bg' = [bg EXCEPT !.pc = "services", !.tasks = ids, !.left = ids]
      BY <1>3, <3>4 DEF CollectResources
    <3> QED BY <1>0, <3>5 DEF BgRec
  <2> QED BY <1>0, <1>3, <2>1, <2>2, <2>3 DEF CollectResources, TablesTyped, WorkTyped, os
<1>4. CASE CleanUpServices
  <2>1. bg' \in BgRec
    BY <1>0, <1>4 DEF CleanUpServices, BgRec
  <2> QED BY <1>0, <1>4, <2>1 DEF CleanUpServices, TablesTyped, WorkTyped, tables, os
<1>5. ASSUME NEW t \in bg.left, CleanupTaskResources(t)
      PROVE  TablesTyped' /\ WorkTyped'
  <2>1. bg' \in BgRec
    BY <1>0, <1>5 DEF CleanupTaskResources, BgRec
  <2>2. osTasks' \in [TaskSlots -> OsRec]
    BY <1>0, <1>5, WithoutTaskType DEF CleanupTaskResources
  <2> QED BY <1>0, <1>5, <2>1, <2>2 DEF CleanupTaskResources, TablesTyped, WorkTyped, tables
<1>6. CASE FreeRecords
  <2>1. bg' \in BgRec
    <3>1. [NoWork EXCEPT !.list = bg.list] \in BgRec
      BY <1>0, Constants DEF BgRec
    <3>2. [bg EXCEPT !.pc = "create", !.tasks = {}] \in BgRec
      BY <1>0 DEF BgRec
    <3> QED BY <1>6, <3>1, <3>2 DEF FreeRecords
  <2>2. taskTable' \in [TaskSlots -> TaskRec]
    BY <1>0, <1>6, Constants DEF FreeRecords, FreeIfReserved
  <2>3. appTable' \in [AppSlots -> AppRec]
    BY <1>0, <1>6, Constants DEF FreeRecords, FreeIfReserved
  <2> QED BY <1>0, <1>6, <2>1, <2>2, <2>3 DEF FreeRecords, TablesTyped, WorkTyped, os
<1>7. CASE RestartCreate
  <2>0. bg.name \in AppNames /\ bg.file \in Files \cup {NoFile} /\ "bg" \in Creators
    BY <1>0 DEF BgRec, Creators
  <2>1. CASE CanReserve(bg.name)
    <3>1. Reserve("bg", bg.name, bg.file) /\ bg' = [bg EXCEPT !.pc = "creating"]
      BY <1>7, <2>1 DEF RestartCreate
    <3>2. bg' \in BgRec
      BY <1>0, <3>1 DEF BgRec
    <3>3. /\ appTable' \in [AppSlots -> AppRec] /\ create' \in [Creators -> CreateRec]
          /\ taskTable' = taskTable /\ lastAppId' \in Nat
      BY <2>0, <2>1, <3>1, ReserveTypes
    <3> QED BY <1>0, <1>7, <3>2, <3>3 DEF RestartCreate, TablesTyped, WorkTyped, os
  <2>2. CASE ~CanReserve(bg.name)
    <3>1. [NoWork EXCEPT !.list = bg.list] \in BgRec
      BY <1>0, Constants DEF BgRec
    <3> QED BY <1>0, <1>7, <2>2, <3>1 DEF RestartCreate, TablesTyped, WorkTyped, os, tables
  <2> QED BY <2>1, <2>2
<1>8. CASE AppCreate("bg")
  BY <1>8, CreateTypes DEF Creators
<1> QED BY <1>1, <1>2, <1>3, <1>4, <1>5, <1>6, <1>7, <1>8 DEF BackgroundTask

\* ... and the tasks of the applications.
LEMMA AppTaskTypes ==
  ASSUME TablesTyped, WorkTyped, NEW t \in LiveTasks, AppTask(t)
  PROVE  TablesTyped' /\ WorkTyped'
<1>0. /\ appTable \in [AppSlots -> AppRec] /\ taskTable \in [TaskSlots -> TaskRec]
      /\ osTasks \in [TaskSlots -> OsRec] /\ create \in [Creators -> CreateRec]
      /\ lastAppId \in Nat /\ lastOsTask \in Nat
      /\ bg \in BgRec /\ scan \in ScanRec
  BY DEF TablesTyped, WorkTyped
<1>t. t \in Nat /\ OsTask(t) \in OsRec
  <2>1. t \in Nat
    BY <1>0 DEF LiveTasks, OsRec
  <2> QED BY <1>0, <2>1, Slots DEF OsTask
<1>p. {"init", "child", "spawn", "exiting", "loop", "leave", "suspended", "call", "childcall"} \subseteq TaskPcs
  BY DEF TaskPcs
<1>1. CASE TaskEntryPoint(t)
  <2>1. osTasks' \in [TaskSlots -> OsRec]
    BY <1>0, <1>1, <1>p, GotoType DEF TaskEntryPoint
  <2> QED BY <1>0, <1>1, <2>1 DEF TaskEntryPoint, NoEsChange, tables, TablesTyped, WorkTyped
<1>2. CASE RunLoop(t)
  <2>1. osTasks' \in [TaskSlots -> OsRec]
    BY <1>0, <1>2, <1>p, GotoType DEF RunLoop
  <2>2. appTable' \in [AppSlots -> AppRec]
    BY <1>0, <1>2 DEF RunLoop, AppRec, AppStates
  <2> QED BY <1>0, <1>2, <2>1, <2>2 DEF RunLoop, TablesTyped, WorkTyped
<1>3. CASE GiveUp(t)
  <2>1. osTasks' \in [TaskSlots -> OsRec]
    BY <1>0, <1>3, <1>p, GotoType DEF GiveUp
  <2> QED BY <1>0, <1>3, <2>1 DEF GiveUp, NoEsChange, tables, TablesTyped, WorkTyped
<1>4. ASSUME NEW r \in {"APP_EXIT", "APP_ERROR"}, ExitApp(t, r)
      PROVE  TablesTyped' /\ WorkTyped'
  <2>1. osTasks' \in [TaskSlots -> OsRec]
    BY <1>0, <1>4, <1>p, GotoType, WithoutTaskType DEF ExitApp
  <2>2. appTable' \in [AppSlots -> AppRec]
    <3>1. CASE HasContext(t)
      <4>1. \A rec \in AppRec : ExitRequest(rec, r) \in Requests
        BY DEF ExitRequest, AppRec, Requests
      <4>2. \A rec \in AppRec : [rec EXCEPT !.req = ExitRequest(rec, r), !.state = "STOPPED"] \in AppRec
        BY <4>1 DEF AppRec, AppStates
      <4>3. PICK z : z = Context(t)
        OBVIOUS
      <4>4. appTable' = [appTable EXCEPT ![z].req = ExitRequest(appTable[z], r), ![z].state = "STOPPED"]
        BY <1>4, <3>1, <4>3 DEF ExitApp
      <4>5. CASE z \in AppSlots
        <5>1. appTable' = [appTable EXCEPT ![z] = [appTable[z] EXCEPT !.req = ExitRequest(appTable[z], r),
                                                                      !.state = "STOPPED"]]
          BY <1>0, <4>4, <4>5
        <5> QED BY <1>0, <4>2, <4>5, <5>1
      <4>6. CASE z \notin AppSlots
        BY <1>0, <4>4, <4>6
      <4> QED BY <4>5, <4>6
    <3>2. CASE ~HasContext(t)
      BY <1>0, <1>4, <3>2 DEF ExitApp
    <3> QED BY <3>1, <3>2
  <2> QED BY <1>0, <1>4, <2>1, <2>2 DEF ExitApp, TablesTyped, WorkTyped
<1>5. CASE CreateChildTask(t)
  <2>1. NewOsTask \in Nat
    BY <1>5, NewTaskIsNew DEF CreateChildTask
  <2>2. PICK c \in Nat : c = NewOsTask
    BY <2>1
  <2>3. [NoOsTask EXCEPT !.id = c, !.pc = "entry", !.app = OsTask(t).app] \in OsRec
    BY <1>t, Constants DEF OsRec, TaskPcs
  <2>4. \A rec \in OsRec : /\ [rec EXCEPT !.pc = "spawn"] \in OsRec
                           /\ [rec EXCEPT !.child = c] \in OsRec
    BY <1>p DEF OsRec
  <2>5. osTasks' = [osTasks EXCEPT
             ![LocateTaskRecordByID(t)].pc = "spawn",
             ![LocateTaskRecordByID(t)].child = c,
             ![LocateTaskRecordByID(c)] = [NoOsTask EXCEPT !.id = c, !.pc = "entry",
                                                           !.app = OsTask(t).app]]
    BY <1>5, <2>2 DEF CreateChildTask
  <2>6. osTasks' \in [TaskSlots -> OsRec]
    BY <1>0, <2>3, <2>4, <2>5
  <2> QED BY <1>0, <1>5, <2>1, <2>6 DEF CreateChildTask, NoEsChange, tables, TablesTyped, WorkTyped
<1>6. CASE StartChildTask(t)
  <2>1. osTasks' \in [TaskSlots -> OsRec]
    BY <1>0, <1>6, <1>p, GotoType DEF StartChildTask
  <2>2. [id |-> OsTask(t).child, app |-> OsTask(t).app] \in TaskRec
    BY <1>t DEF OsRec, TaskRec
  <2>3. taskTable' \in [TaskSlots -> TaskRec]
    BY <1>0, <1>6, <2>2 DEF StartChildTask, SetTaskRecord
  <2> QED BY <1>0, <1>6, <2>1, <2>3 DEF StartChildTask, TablesTyped, WorkTyped
<1>7. CASE DeleteChildTask(t)
  <2>1. osTasks' \in [TaskSlots -> OsRec]
    BY <1>0, <1>7, WithoutTaskType DEF DeleteChildTask
  <2>2. taskTable' \in [TaskSlots -> TaskRec]
    BY <1>0, <1>7, Constants DEF DeleteChildTask, DropTaskRecord
  <2> QED BY <1>0, <1>7, <2>1, <2>2 DEF DeleteChildTask, DropTaskRecord, TablesTyped, WorkTyped
<1>8. CASE ExitChildTask(t)
  <2>1. osTasks' \in [TaskSlots -> OsRec]
    BY <1>0, <1>8, <1>p, GotoType DEF ExitChildTask
  <2>2. taskTable' \in [TaskSlots -> TaskRec]
    BY <1>0, <1>8, Constants DEF ExitChildTask, DropTaskRecord
  <2> QED BY <1>0, <1>8, <2>1, <2>2 DEF ExitChildTask, DropTaskRecord, TablesTyped, WorkTyped
<1>9. CASE OS_TaskExit(t)
  <2>1. osTasks' \in [TaskSlots -> OsRec]
    BY <1>0, <1>9, WithoutTaskType DEF OS_TaskExit
  <2> QED BY <1>0, <1>9, <2>1 DEF OS_TaskExit, NoEsChange, tables, TablesTyped, WorkTyped
<1>10. CASE EnterService(t)
  <2>1. osTasks' \in [TaskSlots -> OsRec]
    BY <1>0, <1>10, <1>p, GotoType DEF EnterService
  <2> QED BY <1>0, <1>10, <2>1 DEF EnterService, NoEsChange, tables, TablesTyped, WorkTyped
<1>11. CASE Allocate(t)
  <2>1. osTasks' \in [TaskSlots -> OsRec]
    BY <1>0, <1>11, <1>p, GotoType DEF Allocate
  <2> QED BY <1>0, <1>11, <2>1 DEF Allocate, NoEsChange, tables, TablesTyped, WorkTyped
<1> QED BY <1>1, <1>2, <1>3, <1>4, <1>5, <1>6, <1>7, <1>8, <1>9, <1>10, <1>11 DEF AppTask

-----------------------------------------------------------------------------
(* Every step keeps the tables' part of the invariant: each is one of the    *)
(* steps above.                                                              *)

\* A live task is found at its slot.
LEMMA LiveTask ==
  ASSUME TablesTyped, OsIds, NEW t \in LiveTasks
  PROVE  /\ t \in Nat \ {0} /\ LocateTaskRecordByID(t) \in TaskSlots
         /\ osTasks[LocateTaskRecordByID(t)].id = t
<1>0. FieldTypes
  BY Fields
<1>1. PICK s \in TaskSlots : osTasks[s].id = t /\ t # Free
  BY DEF LiveTasks
<1>2. t \in Nat \ {0}
  BY <1>0, <1>1 DEF FieldTypes, Free
<1>3. LocateTaskRecordByID(t) = s
  BY <1>1 DEF OsIds
<1> QED BY <1>1, <1>2, <1>3

\* A task that goes on changes its place in the code and nothing else.
LEMMA GotoEffect ==
  ASSUME TablesTyped, NEW t \in Nat, NEW p, Goto(t, p)
  PROVE  /\ \A s \in TaskSlots : s # LocateTaskRecordByID(t) => osTasks'[s] = osTasks[s]
         /\ \A s \in TaskSlots : s = LocateTaskRecordByID(t) =>
              /\ osTasks'[s] = [osTasks[s] EXCEPT !.pc = p]
              /\ osTasks'[s].pc = p
              /\ osTasks'[s].id = osTasks[s].id /\ osTasks'[s].app = osTasks[s].app
              /\ osTasks'[s].name = osTasks[s].name /\ osTasks'[s].child = osTasks[s].child
BY Slots DEF Goto, TablesTyped, OsRec

\* Moving on within its function is a quiet step of a task.
LEMMA GotoQuiet ==
  ASSUME TablesTyped, OsIds, NEW t \in LiveTasks, NEW p, Goto(t, p),
         p \notin {"entry", "spawn", "exiting"},
         OsTask(t).pc \notin {"spawn", "suspended", "exiting"},
         OsTask(t).pc = "entry" => HasContext(t)
  PROVE  QuietTasks
<1>1. PICK z \in TaskSlots : z = LocateTaskRecordByID(t)
  BY LiveTask
<1>2. t \in Nat /\ osTasks[z].id = t
  BY <1>1, LiveTask
<1>3. osTasks[z].pc = "entry" => InContext(z)
  BY <1>1, <1>2 DEF HasContext, InContext, TaskRecordIsMatch, AppRecordIsMatch, OsTask
<1>4. /\ \A s \in TaskSlots : s # z => osTasks'[s] = osTasks[s]
      /\ osTasks'[z].pc = p
      /\ osTasks'[z].id = osTasks[z].id /\ osTasks'[z].app = osTasks[z].app
      /\ osTasks'[z].name = osTasks[z].name /\ osTasks'[z].child = osTasks[z].child
  BY <1>1, <1>2, GotoEffect
<1>5. osTasks[z].pc \notin {"spawn", "suspended", "exiting"}
  BY <1>1 DEF OsTask
<1> QED BY <1>3, <1>4, <1>5 DEF QuietTasks

TablesKept == AppIds' /\ TaskIds' /\ OsIds' /\ CreateIds' /\ Core'

\* A quiet step keeps the invariant of the tables.
LEMMA Quiet ==
  ASSUME TablesTyped, Ids, Core, QuietApps, QuietTasks, QuietBg,
         UNCHANGED <<taskTable, create, forced, lastAppId, lastOsTask>>
  PROVE  TablesKept
BY QuietIds, QuietStep DEF TablesKept

\* What does not change is quiet.
LEMMA SameQuiet ==
  /\ UNCHANGED appTable => QuietApps
  /\ UNCHANGED osTasks => QuietTasks
  /\ UNCHANGED bg => QuietBg
BY DEF QuietApps, QuietTasks, QuietBg, Cleaning

\* CFE_ES_AppCreate keeps the invariant of the tables.
LEMMA CreateCore ==
  ASSUME TablesTyped, bg \in BgRec, Ids, Core, NEW p \in Creators, AppCreate(p)
  PROVE  TablesKept
<1>1. CASE LoadModule(p)
  <2>0. create[p].pc = "load"
    BY <1>1 DEF LoadModule
  <2>1. NotLoaded(p) \/ Loaded(p)
    BY <1>1 DEF LoadModule, NotLoaded, Loaded, history
  <2> QED BY <2>0, <2>1, LoadFails, LoadStep DEF TablesKept
<1>2. CASE StartAppTask(p)
  BY <1>2, StartAppStep DEF TablesKept
<1>3. CASE FinishCreate(p)
  BY <1>3, FinishStep DEF TablesKept
<1> QED BY <1>1, <1>2, <1>3 DEF AppCreate

\* The ground's commands keep the invariant of the tables.
LEMMA CommandCore ==
  ASSUME TablesTyped, WorkTyped, Ids, Core, CommandTask
  PROVE  TablesKept
<1>1. ASSUME NEW n \in Names, NEW f \in Files, StartAppCmd(n, f)
      PROVE  TablesKept
  <2>1. UNCHANGED <<osTasks, lastOsTask, bg, forced>>
    BY <1>1 DEF StartAppCmd, os, history
  <2>2. CASE CanReserve(n)
    <3>1. "cmd" \in Creators /\ create["cmd"].pc = "idle" /\ Reserve("cmd", n, f)
      BY <1>1, <2>2 DEF StartAppCmd, CmdIdle, Creators
    <3> QED BY <2>1, <2>2, <3>1, ReserveStep, SameQuiet DEF TablesKept
  <2>3. CASE ~CanReserve(n)
    <3>1. UNCHANGED <<appTable, lastAppId, taskTable, create>>
      BY <1>1, <2>3 DEF StartAppCmd, tables
    <3> QED BY <2>1, <3>1, Quiet, SameQuiet
  <2> QED BY <2>2, <2>3
<1>2. ASSUME NEW n, NEW k, NEW f, GetAppIDByName(n, k, f)
      PROVE  TablesKept
  <2>1. UNCHANGED <<osTasks, lastOsTask, bg, forced, appTable, lastAppId, taskTable, create>>
    BY <1>2 DEF GetAppIDByName, os, history, tables
  <2> QED BY <2>1, Quiet, SameQuiet
<1>3. CASE RequestApp
  <2>1. UNCHANGED <<osTasks, lastOsTask, bg, forced, lastAppId, taskTable, create>>
    BY <1>3 DEF RequestApp, os, history
  <2>2. QuietApps
    <3>1. CASE UNCHANGED appTable
      BY <3>1, SameQuiet
    <3>2. CASE appTable' = [appTable EXCEPT ![LocateAppRecordByID(cmd.id)] = LeaveRequest(@)]
      <4>1. \A rec \in AppRec : /\ LeaveRequest(rec).id = rec.id /\ LeaveRequest(rec).name = rec.name
                                /\ LeaveRequest(rec).main = rec.main /\ LeaveRequest(rec).state = rec.state
        BY DEF LeaveRequest, AppRec
      <4> QED BY <3>2, <4>1 DEF TablesTyped, QuietApps
    <3> QED BY <1>3, <3>1, <3>2 DEF RequestApp
  <2> QED BY <2>1, <2>2, Quiet, SameQuiet
<1>4. CASE AppCreate("cmd")
  BY <1>4, CreateCore DEF Creators, WorkTyped
<1> QED BY <1>1, <1>2, <1>3, <1>4 DEF CommandTask

\* A task that has its record, or is past its entry point, is not waited for.
LEMMA NotAwaited ==
  ASSUME TablesTyped, Core, NEW t \in Nat, TaskRecordIsMatch(t) \/ OsTask(t).pc # "entry"
  PROVE  /\ \A p \in Creators : ~CreatorAwaits(p, t)
         /\ \A s \in TaskSlots : ~ParentAwaits(s, t)
BY DEF Core, Awaited, Unregistered, CreatorAwaits, ParentAwaits

\* The clean-up skips a task that is gone already.
LEMMA DeadLeftStep ==
  ASSUME TablesTyped, Ids, Core, NEW t \in Nat, ~OsAlive(t),
         osTasks' = osTasks, bg' = [bg EXCEPT !.left = @ \ {t}], bg \in BgRec,
         UNCHANGED <<appTable, taskTable, create, forced, lastAppId, lastOsTask>>
  PROVE  TablesKept
<1>0. FieldTypes
  BY Fields
<1>1. bg'.pc = bg.pc /\ bg'.id = bg.id /\ bg'.tasks = bg.tasks /\ bg'.left = bg.left \ {t}
  BY DEF BgRec
<1>2. AppIds' /\ TaskIds' /\ OsIds' /\ CreateIds'
  BY DEF Ids, AppIds, TaskIds, OsIds, CreateIds
<1>3. RecordsTrue' /\ ReservedListed' /\ Awaited' /\ AwaitedOnce'
  BY <1>1 DEF Core, RecordsTrue, ReservedListed, Awaited, AwaitedOnce, Unregistered, OsAlive, OsTask,
              TaskRecordIsMatch, CreatorAwaits, ParentAwaits, Cleaning
<1>4. CreatesHoldSlot' /\ CleanupHoldsSlot' /\ HoldersApart' /\ ReservedHeld' /\ NamesApart'
  BY <1>1 DEF Core, CreatesHoldSlot, CleanupHoldsSlot, HoldersApart, ReservedHeld, NamesApart, Cleaning, IsUsed
<1>5. MainsNamed' /\ MainsRecorded'
  BY DEF Core, MainsNamed, Named, MainsRecorded, MainRecorded, CreatorAwaits, IsUsed, OsAlive
<1>6. MainListed' /\ LeftOvers'
  BY <1>1 DEF Core, MainListed, LeftOvers, Cleaning, OsAlive, OsTask, CreatorAwaits, ParentAwaits
<1>7. TasksInContext'
  <2>1. \A s \in TaskSlots : osTasks[s].id # Free => osTasks[s].id # t
    BY DEF Ids, OsIds, OsAlive
  <2> QED BY <1>1, <2>1 DEF Core, TasksInContext, InContext
<1> QED BY <1>2, <1>3, <1>4, <1>5, <1>6, <1>7 DEF Core, TablesKept

\* A task that ends leaves its slot and no other.
LEMMA WithoutTaskEffect ==
  ASSUME TablesTyped, NEW t \in Nat, OsAlive(t), osTasks' = WithoutTask(t)
  PROVE  /\ \A s \in TaskSlots : s # LocateTaskRecordByID(t) => osTasks'[s] = osTasks[s]
         /\ osTasks'[LocateTaskRecordByID(t)] = NoOsTask
BY Slots DEF WithoutTask, TablesTyped

\* The background task keeps the invariant of the tables.
LEMMA BackgroundCore ==
  ASSUME TablesTyped, WorkTyped, Ids, Core, BackgroundTask
  PROVE  TablesKept
<1>0. FieldTypes /\ bg \in BgRec
  BY Fields DEF WorkTyped
<1>1. ASSUME NEW e \in 1 .. MaxElapsed, RunAppTableScan(e)
      PROVE  TablesKept
  <2>1. UNCHANGED <<osTasks, lastOsTask, forced, lastAppId, taskTable, create>>
    BY <1>1 DEF RunAppTableScan, os, history
  <2>2. QuietApps
    <3>1. CASE UNCHANGED appTable
      BY <3>1, SameQuiet
    <3>2. CASE appTable' = [s \in AppSlots |-> ScanRecord(appTable[s], e)]
      <4>1. \A rec \in AppRec :
              /\ ScanRecord(rec, e).id = rec.id /\ ScanRecord(rec, e).name = rec.name
              /\ ScanRecord(rec, e).main = rec.main
              /\ rec.state = "INIT" => ScanRecord(rec, e).state = "INIT"
        BY DEF ScanRecord, Stopping, Requested, AppRec
      <4> QED BY <3>2, <4>1 DEF TablesTyped, QuietApps
    <3> QED BY <1>1, <3>1, <3>2 DEF RunAppTableScan
  <2>3. QuietBg
    <3>1. bg' = bg \/ \E l : bg' = [bg EXCEPT !.list = l]
      BY <1>1 DEF RunAppTableScan
    <3> QED BY <1>0, <3>1 DEF QuietBg, Cleaning, BgRec
  <2> QED BY <2>1, <2>2, <2>3, Quiet, SameQuiet
<1>2. CASE ProcessControlRequest
  <2>1. UNCHANGED <<osTasks, lastOsTask, forced, lastAppId, taskTable, create, appTable>>
    BY <1>2 DEF ProcessControlRequest, os, history, tables
  <2>2. bg.pc = "idle" /\ bg.left = {}
    BY <1>2 DEF ProcessControlRequest, Ids, BgIds, Cleaning
  <2>3. bg'.pc = "collect" /\ bg'.left = {}
    BY <1>2 DEF ProcessControlRequest, NoWork
  <2>4. bg'.tasks = {}
    BY <1>2 DEF ProcessControlRequest, NoWork
  <2> QED BY <2>1, <2>2, <2>3, <2>4, Quiet, SameQuiet DEF QuietBg, Cleaning
<1>3. CASE CollectResources
  BY <1>0, <1>3, CollectStep DEF TablesKept
<1>4. CASE CleanUpServices
  <2>1. UNCHANGED <<osTasks, lastOsTask, forced, lastAppId, taskTable, create, appTable>>
    BY <1>4 DEF CleanUpServices, os, tables
  <2>2. QuietBg
    BY <1>0, <1>4 DEF CleanUpServices, QuietBg, Cleaning, BgRec
  <2> QED BY <2>1, <2>2, Quiet, SameQuiet
<1>5. ASSUME NEW t \in bg.left, CleanupTaskResources(t)
      PROVE  TablesKept
  <2>1. t \in Nat \ {0}
    BY DEF Ids, BgIds
  <2>2. /\ osTasks' = WithoutTask(t) /\ bg' = [bg EXCEPT !.left = @ \ {t}]
        /\ UNCHANGED <<appTable, taskTable, create, forced, lastAppId, lastOsTask>>
    BY <1>5 DEF CleanupTaskResources, tables, history
  <2>3. CASE ~OsAlive(t)
    <3>1. osTasks' = osTasks
      BY <2>2, <2>3 DEF WithoutTask
    <3> QED BY <1>0, <2>1, <2>2, <2>3, <3>1, DeadLeftStep
  <2>4. CASE OsAlive(t)
    <3>1. PICK z \in TaskSlots : z = LocateTaskRecordByID(t)
      BY <2>1, Slots
    <3>2. osTasks[z].id = t /\ taskTable[z].id # t
      BY <2>1, <2>4, <3>1 DEF OsAlive, Core, LeftOvers, Reserved
    <3>3. Deleted(z) /\ \A s \in TaskSlots : s # z => osTasks'[s] = osTasks[s]
      BY <2>1, <2>2, <2>4, <3>1, WithoutTaskEffect DEF Deleted
    <3>4. /\ \A p \in Creators : ~CreatorAwaits(p, t)
          /\ \A s \in TaskSlots : ~ParentAwaits(s, t)
      BY <2>4 DEF Core, LeftOvers
    <3>5. /\ bg'.tasks = bg.tasks /\ (Cleaning' <=> Cleaning) /\ (Cleaning => bg'.id = bg.id)
          /\ bg'.left = bg.left \ {t}
      BY <1>0, <2>2 DEF BgRec, Cleaning
    <3>6. TaskEnds(z, t)
      BY <2>2, <3>2, <3>3, <3>4, <3>5 DEF TaskEnds
    <3> QED BY <2>1, <3>6, TaskEndsStep DEF TablesKept
  <2> QED BY <2>3, <2>4
<1>6. CASE FreeRecords
  BY <1>0, <1>6, FreeStep DEF TablesKept
<1>7. CASE RestartCreate
  <2>1. UNCHANGED <<osTasks, lastOsTask, forced>>
    BY <1>7 DEF RestartCreate, os, history
  <2>2. bg.pc = "create" /\ create["bg"].pc = "idle" /\ bg.left = {}
    BY <1>7 DEF RestartCreate, Ids, BgIds, Cleaning
  <2>3. CASE CanReserve(bg.name)
    <3>1. Reserve("bg", bg.name, bg.file) /\ bg' = [bg EXCEPT !.pc = "creating"]
      BY <1>7, <2>3 DEF RestartCreate
    <3>2. QuietBg
      BY <1>0, <2>2, <3>1 DEF QuietBg, Cleaning, BgRec
    <3> QED BY <2>1, <2>2, <2>3, <3>1, <3>2, ReserveStep DEF TablesKept, Creators
  <2>4. CASE ~CanReserve(bg.name)
    <3>1. UNCHANGED <<appTable, lastAppId, taskTable, create>> /\ bg' = [NoWork EXCEPT !.list = bg.list]
      BY <1>7, <2>4 DEF RestartCreate, tables
    <3>2. QuietBg
      BY <2>2, <3>1 DEF QuietBg, Cleaning, NoWork
    <3> QED BY <2>1, <3>1, <3>2, Quiet, SameQuiet
  <2> QED BY <2>3, <2>4
<1>8. CASE AppCreate("bg")
  BY <1>0, <1>8, CreateCore DEF Creators
<1> QED BY <1>1, <1>2, <1>3, <1>4, <1>5, <1>6, <1>7, <1>8 DEF BackgroundTask

\* What a task that is not at its entry point or leaving finds.
LEMMA LiveContext ==
  ASSUME TablesTyped, Ids, Core, NEW t \in LiveTasks, OsTask(t).pc \notin {"entry", "exiting"}
  PROVE  \/ HasContext(t)
         \/ t \in bg.left /\ taskTable[LocateTaskRecordByID(t)].id # t
<1>1. PICK z \in TaskSlots : z = LocateTaskRecordByID(t)
  BY LiveTask DEF Ids
<1>2. t \in Nat \ {0} /\ osTasks[z].id = t /\ OsAlive(t)
  BY <1>1, LiveTask DEF OsAlive, Ids
<1>3. InContext(z) \/ t \in bg.left
  BY <1>1, <1>2 DEF Core, TasksInContext, OsTask, Free
<1>4. InContext(z) => HasContext(t)
  BY <1>1, <1>2 DEF InContext, HasContext, TaskRecordIsMatch, AppRecordIsMatch
<1>5. t \in bg.left => taskTable[LocateTaskRecordByID(t)].id # t
  BY <1>2 DEF Core, LeftOvers, Reserved
<1> QED BY <1>3, <1>4, <1>5

\* A task with a context is recorded for an application that is in the table.
LEMMA ContextFacts ==
  ASSUME TablesTyped, Ids, Core, NEW t \in LiveTasks, HasContext(t)
  PROVE  /\ taskTable[LocateTaskRecordByID(t)].id = t
         /\ taskTable[LocateTaskRecordByID(t)].app \in 1 .. lastAppId
         /\ Context(t) \in AppSlots
         /\ appTable[Context(t)].id = taskTable[LocateTaskRecordByID(t)].app
<1>0. FieldTypes
  BY Fields
<1>1. PICK z \in TaskSlots : z = LocateTaskRecordByID(t)
  BY LiveTask DEF Ids
<1>2. t \in Nat \ {0}
  BY LiveTask DEF Ids
<1>3. taskTable[z].id = t /\ appTable[LocateAppRecordByID(taskTable[z].app)].id = taskTable[z].app
  BY <1>1 DEF HasContext, TaskRecordIsMatch, AppRecordIsMatch
<1>4. taskTable[z].app \in Nat
  BY <1>0 DEF FieldTypes
<1>5. taskTable[z].app \in 1 .. lastAppId
  BY <1>0, <1>2, <1>3, <1>4 DEF Ids, TaskIds, Free, FieldTypes
<1> QED BY <1>1, <1>3, <1>4, <1>5, Slots DEF Context

\* The applications' tasks keep the invariant of the tables.
LEMMA AppTaskCore ==
  ASSUME TablesTyped, WorkTyped, Ids, Core, PollOutlastsCreate, NEW t \in LiveTasks, AppTask(t)
  PROVE  TablesKept
<1>0. FieldTypes
  BY Fields
<1>z. PICK z \in TaskSlots : z = LocateTaskRecordByID(t)
  BY LiveTask DEF Ids
<1>t. t \in Nat \ {0} /\ osTasks[z].id = t /\ OsAlive(t) /\ OsIds
  BY <1>z, LiveTask DEF OsAlive, Ids
<1>1. CASE TaskEntryPoint(t)
  <2>1. UNCHANGED <<appTable, taskTable, create, bg, forced, lastAppId, lastOsTask>>
    BY <1>1 DEF TaskEntryPoint, NoEsChange, tables, history
  <2>2. PICK p \in {"init", "child"} : Goto(t, p)
    BY <1>1 DEF TaskEntryPoint
  <2>3. OsTask(t).pc = "entry" /\ HasContext(t)
    BY <1>1 DEF TaskEntryPoint, At
  <2>4. QuietTasks
    BY <1>t, <2>2, <2>3, GotoQuiet
  <2> QED BY <2>1, <2>4, Quiet, SameQuiet
<1>2. CASE RunLoop(t)
  <2>1. UNCHANGED <<taskTable, create, bg, forced, lastAppId, lastOsTask>>
    BY <1>2 DEF RunLoop, history
  <2>2. PICK p \in {"loop", "leave"} : Goto(t, p)
    BY <1>2 DEF RunLoop
  <2>3. OsTask(t).pc \in {"init", "loop"}
    BY <1>2 DEF RunLoop, At
  <2>4. QuietTasks
    BY <1>t, <2>2, <2>3, GotoQuiet
  <2>5. QuietApps
    <3>1. CASE ~HasContext(t)
      BY <1>2, <3>1, SameQuiet DEF RunLoop
    <3>2. CASE HasContext(t)
      <4>1. PICK x \in AppSlots : x = Context(t)
        BY <3>2, ContextFacts
      <4>2. appTable[x].id # Reserved
        BY <3>2, <4>1, ContextFacts DEF Reserved
      <4>3. appTable' = [appTable EXCEPT ![x].state = IF @ = "INIT" THEN "RUNNING" ELSE @]
        BY <1>2, <3>2, <4>1 DEF RunLoop
      <4> QED BY <4>2, <4>3 DEF QuietApps, TablesTyped, AppRec
    <3> QED BY <3>1, <3>2
  <2> QED BY <2>1, <2>4, <2>5, Quiet, SameQuiet
<1>3. CASE GiveUp(t)
  <2>1. UNCHANGED <<appTable, taskTable, create, bg, forced, lastAppId, lastOsTask>>
    BY <1>3 DEF GiveUp, NoEsChange, tables, history
  <2>2. Goto(t, "leave")
    BY <1>3 DEF GiveUp
  <2>3. OsTask(t).pc \in {"init", "loop"}
    BY <1>3 DEF GiveUp, At
  <2>4. QuietTasks
    BY <1>t, <2>2, <2>3, GotoQuiet
  <2> QED BY <2>1, <2>4, Quiet, SameQuiet
<1>4. ASSUME NEW r \in {"APP_EXIT", "APP_ERROR"}, ExitApp(t, r)
      PROVE  TablesKept
  <2>1. UNCHANGED <<taskTable, create, bg, forced, lastAppId, lastOsTask>>
    BY <1>4 DEF ExitApp, history
  <2>2. OsTask(t).pc = "leave"
    BY <1>4 DEF ExitApp, At
  <2>3. CASE HasContext(t)
    <3>1. Goto(t, "suspended")
      BY <1>4, <2>3 DEF ExitApp
    <3>2. QuietTasks
      BY <1>t, <2>2, <3>1, GotoQuiet
    <3>3. QuietApps
      <4>1. PICK x \in AppSlots : x = Context(t)
        BY <2>3, ContextFacts
      <4>2. appTable[x].id # Reserved
        BY <2>3, <4>1, ContextFacts DEF Reserved
      <4>3. appTable' = [appTable EXCEPT ![x].req = ExitRequest(appTable[x], r), ![x].state = "STOPPED"]
        BY <1>4, <2>3, <4>1 DEF ExitApp
      <4> QED BY <4>2, <4>3 DEF QuietApps, TablesTyped, AppRec
    <3> QED BY <2>1, <3>2, <3>3, Quiet, SameQuiet
  <2>4. CASE ~HasContext(t)
    <3>1. osTasks' = WithoutTask(t) /\ UNCHANGED appTable
      BY <1>4, <2>4 DEF ExitApp
    <3>2. Deleted(z) /\ \A s \in TaskSlots : s # z => osTasks'[s] = osTasks[s]
      BY <1>t, <1>z, <3>1, WithoutTaskEffect DEF Deleted
    <3>3. taskTable[z].id # t
      BY <1>z, <2>2, <2>4, LiveContext
    <3>4. TaskEnds(z, t)
      BY <1>t, <2>1, <2>2, <3>1, <3>2, <3>3, NotAwaited DEF TaskEnds, Cleaning
    <3> QED BY <1>t, <3>4, TaskEndsStep DEF TablesKept
  <2> QED BY <2>3, <2>4
<1>5. CASE CreateChildTask(t)
  BY <1>5, <1>t, CreateChildStep DEF TablesKept
<1>6. CASE StartChildTask(t)
  BY <1>6, <1>t, StartChildStep DEF TablesKept
<1>7. CASE DeleteChildTask(t)
  <2>1. PICK c \in Nat : c = OsTask(t).child
    BY <1>0, <1>z DEF FieldTypes, OsTask
  <2>2. PICK y \in TaskSlots : y = LocateTaskRecordByID(c)
    BY <2>1, Slots
  <2>3. c \in Nat \ {0} /\ TaskRecordIsMatch(c) /\ OsAlive(c) /\ osTasks' = WithoutTask(c)
        /\ DropTaskRecord(c)
    BY <1>7, <2>1 DEF DeleteChildTask, Free
  <2>4. UNCHANGED <<appTable, create, bg, forced, lastAppId, lastOsTask>>
    BY <2>3 DEF DropTaskRecord, history
  <2>5. Deleted(y) /\ \A s \in TaskSlots : s # y => osTasks'[s] = osTasks[s]
    BY <2>2, <2>3, WithoutTaskEffect DEF Deleted
  <2>6. taskTable'[y] = FreeTask /\ \A s \in TaskSlots : s # y => taskTable'[s] = taskTable[s]
    BY <2>2, <2>3 DEF DropTaskRecord, TablesTyped
  <2>7. osTasks[y].id = c
    BY <2>2, <2>3 DEF OsAlive
  <2>8. TaskEnds(y, c)
    BY <2>3, <2>4, <2>5, <2>6, <2>7, NotAwaited DEF TaskEnds, Cleaning
  <2> QED BY <2>3, <2>8, TaskEndsStep DEF TablesKept
<1>8. CASE ExitChildTask(t)
  <2>1. HasContext(t) /\ appTable[Context(t)].main # t /\ OsTask(t).pc = "child"
        /\ Goto(t, "exiting") /\ DropTaskRecord(t)
    BY <1>8 DEF ExitChildTask, At
  <2>2. UNCHANGED <<appTable, create, bg, forced, lastAppId, lastOsTask>>
    BY <2>1 DEF DropTaskRecord, history
  <2>3. taskTable'[z] = FreeTask /\ \A s \in TaskSlots : s # z => taskTable'[s] = taskTable[s]
    BY <1>z, <2>1 DEF DropTaskRecord, TablesTyped
  <2>4. /\ osTasks'[z] = [osTasks[z] EXCEPT !.pc = "exiting"]
        /\ \A s \in TaskSlots : s # z => osTasks'[s] = osTasks[s]
    BY <1>t, <1>z, <2>1, GotoEffect
  <2>5. taskTable[z].id = t /\ taskTable[z].app \in 1 .. lastAppId
        /\ appTable[LocateAppRecordByID(taskTable[z].app)].id = taskTable[z].app
    BY <1>z, <2>1, ContextFacts DEF Context
  <2>6. t \notin bg.left
    BY <1>t, <1>z, <2>5 DEF Core, LeftOvers, Reserved
  <2>7. ASSUME NEW q \in AppSlots, appTable[q].id > Free, appTable[q].main = t
        PROVE  FALSE
    <3>0. MainRecorded(t, appTable[q].id)
      BY <2>7 DEF Core, MainsRecorded
    <3>1. taskTable[z].app = appTable[q].id
      BY <1>t, <1>z, <3>0 DEF MainRecorded, Free
    <3>2. LocateAppRecordByID(appTable[q].id) = q
      BY <1>0, <2>7 DEF Ids, AppIds, Free, Reserved, FieldTypes
    <3>3. Context(t) = q
      BY <1>z, <3>1, <3>2 DEF Context
    <3> QED BY <2>1, <2>7, <3>3
  <2>8. ASSUME NEW p \in Creators, create[p].pc = "finish", create[p].task = t
        PROVE  FALSE
    <3>0. MainRecorded(t, create[p].id)
      BY <2>8 DEF Core, MainsRecorded
    <3>1. taskTable[z].app = create[p].id
      BY <1>t, <1>z, <3>0 DEF MainRecorded, Free
    <3>2. appTable[LocateAppRecordByID(create[p].id)].id = Reserved
      BY <2>8 DEF Core, CreatesHoldSlot
    <3> QED BY <2>5, <3>1, <3>2 DEF Reserved
  <2>9. Leaves(z, t)
    BY <2>3, <2>4, <2>6, <2>7, <2>8 DEF Leaves
  <2>10. TaskEnds(z, t)
    BY <1>t, <2>1, <2>2, <2>3, <2>4, <2>9, NotAwaited DEF TaskEnds, Cleaning
  <2> QED BY <1>t, <2>10, TaskEndsStep DEF TablesKept
<1>9. CASE OS_TaskExit(t)
  <2>1. UNCHANGED <<appTable, taskTable, create, bg, forced, lastAppId, lastOsTask>>
    BY <1>9 DEF OS_TaskExit, NoEsChange, tables, history
  <2>2. OsTask(t).pc = "exiting" /\ osTasks' = WithoutTask(t)
    BY <1>9 DEF OS_TaskExit, At
  <2>3. Deleted(z) /\ \A s \in TaskSlots : s # z => osTasks'[s] = osTasks[s]
    BY <1>t, <1>z, <2>2, WithoutTaskEffect DEF Deleted
  <2>4. taskTable[z].id # t
    BY <1>t, <1>z, <2>2 DEF Core, RecordsTrue, OsTask, Free
  <2>5. TaskEnds(z, t)
    BY <1>t, <2>1, <2>2, <2>3, <2>4, NotAwaited DEF TaskEnds, Cleaning
  <2> QED BY <1>t, <2>5, TaskEndsStep DEF TablesKept
<1>10. CASE EnterService(t)
  <2>1. UNCHANGED <<appTable, taskTable, create, bg, forced, lastAppId, lastOsTask>>
    BY <1>10 DEF EnterService, NoEsChange, tables, history
  <2>2. PICK p \in {"call", "childcall"} : Goto(t, p)
    BY <1>10 DEF EnterService
  <2>3. OsTask(t).pc \in {"loop", "child"}
    BY <1>10 DEF EnterService, At
  <2>4. QuietTasks
    BY <1>t, <2>2, <2>3, GotoQuiet
  <2> QED BY <2>1, <2>4, Quiet, SameQuiet
<1>11. CASE Allocate(t)
  <2>1. UNCHANGED <<appTable, taskTable, create, bg, forced, lastAppId, lastOsTask>>
    BY <1>11 DEF Allocate, NoEsChange, tables
  <2>2. PICK p \in {"loop", "child"} : Goto(t, p)
    BY <1>11 DEF Allocate
  <2>3. OsTask(t).pc \in {"call", "childcall"}
    BY <1>11 DEF Allocate, At
  <2>4. QuietTasks
    BY <1>t, <2>2, <2>3, GotoQuiet
  <2> QED BY <2>1, <2>4, Quiet, SameQuiet
<1> QED BY <1>1, <1>2, <1>3, <1>4, <1>5, <1>6, <1>7, <1>8, <1>9, <1>10, <1>11 DEF AppTask

-----------------------------------------------------------------------------
(* The work of the background task and the history.                          *)
LEMMA BgKept ==
  ASSUME BgIds, ListIds, bg' = bg,
         lastAppId \in Nat, lastOsTask \in Nat, lastAppId' \in Nat, lastOsTask' \in Nat,
         lastAppId' >= lastAppId, lastOsTask' >= lastOsTask,
         create'["bg"].pc # "idle" => create["bg"].pc # "idle"
  PROVE  BgIds' /\ ListIds'
BY DEF BgIds, ListIds, Cleaning

\* Ids are only ever given out.
LEMMA LastsGrow ==
  ASSUME TablesTyped, Next
  PROVE  lastAppId' >= lastAppId /\ lastOsTask' >= lastOsTask
<1>0. lastAppId \in Nat /\ lastOsTask \in Nat
  BY DEF TablesTyped
<1>1. ASSUME NEW n, NEW p, NEW f, CanReserve(n), Reserve(p, n, f) PROVE lastAppId' >= lastAppId
  BY <1>0, <1>1, NewAppIsNew DEF Reserve, CanReserve
<1>2. ASSUME NEW p, AppCreate(p) PROVE lastAppId' >= lastAppId /\ lastOsTask' >= lastOsTask
  <2>1. CASE LoadModule(p)
    BY <1>0, <2>1, NewTaskIsNew DEF LoadModule, OS_TaskCreate, tables, os
  <2>2. CASE StartAppTask(p) \/ FinishCreate(p)
    BY <1>0, <2>2 DEF StartAppTask, FinishCreate, os
  <2> QED BY <1>2, <2>1, <2>2 DEF AppCreate
<1>3. CASE CommandTask
  <2>1. ASSUME NEW n, NEW f, StartAppCmd(n, f) PROVE lastAppId' >= lastAppId /\ lastOsTask' >= lastOsTask
    BY <1>0, <1>1, <2>1 DEF StartAppCmd, tables, os
  <2>2. ASSUME NEW n, NEW k, NEW f, GetAppIDByName(n, k, f)
        PROVE  lastAppId' >= lastAppId /\ lastOsTask' >= lastOsTask
    BY <1>0, <2>2 DEF GetAppIDByName, tables, os
  <2>3. CASE RequestApp
    BY <1>0, <2>3 DEF RequestApp, os
  <2> QED BY <1>2, <1>3, <2>1, <2>2, <2>3 DEF CommandTask
<1>4. CASE BackgroundTask
  <2>1. CASE RestartCreate
    BY <1>0, <1>1, <2>1 DEF RestartCreate, tables, os
  <2>2. ASSUME NEW e, RunAppTableScan(e) PROVE lastAppId' >= lastAppId /\ lastOsTask' >= lastOsTask
    BY <1>0, <2>2 DEF RunAppTableScan, os
  <2>3. CASE ProcessControlRequest
    BY <1>0, <2>3 DEF ProcessControlRequest, tables, os
  <2>4. CASE CollectResources
    BY <1>0, <2>4 DEF CollectResources, os
  <2>5. CASE CleanUpServices
    BY <1>0, <2>5 DEF CleanUpServices, tables, os
  <2>6. ASSUME NEW t, CleanupTaskResources(t) PROVE lastAppId' >= lastAppId /\ lastOsTask' >= lastOsTask
    BY <1>0, <2>6 DEF CleanupTaskResources, tables
  <2>7. CASE FreeRecords
    BY <1>0, <2>7 DEF FreeRecords, os
  <2> QED BY <1>2, <1>4, <2>1, <2>2, <2>3, <2>4, <2>5, <2>6, <2>7 DEF BackgroundTask
<1>5. ASSUME NEW t \in LiveTasks, AppTask(t) PROVE lastAppId' >= lastAppId /\ lastOsTask' >= lastOsTask
  <2>1. CASE TaskEntryPoint(t) \/ GiveUp(t) \/ OS_TaskExit(t) \/ EnterService(t) \/ Allocate(t)
    BY <1>0, <2>1 DEF TaskEntryPoint, GiveUp, OS_TaskExit, EnterService, Allocate, NoEsChange, tables
  <2>2. CASE RunLoop(t) \/ \E r \in {"APP_EXIT", "APP_ERROR"} : ExitApp(t, r)
    BY <1>0, <2>2 DEF RunLoop, ExitApp
  <2>3. CASE CreateChildTask(t)
    BY <1>0, <2>3, NewTaskIsNew DEF CreateChildTask, NoEsChange, tables
  <2>4. CASE StartChildTask(t) \/ DeleteChildTask(t) \/ ExitChildTask(t)
    BY <1>0, <2>4 DEF StartChildTask, DeleteChildTask, ExitChildTask, DropTaskRecord
  <2> QED BY <1>5, <2>1, <2>2, <2>3, <2>4 DEF AppTask
<1> QED BY <1>3, <1>4, <1>5 DEF Next

\* Only the background task changes its work, and only it restarts.
LEMMA OthersKeepBg ==
  ASSUME TablesTyped, CommandTask \/ \E t \in LiveTasks : AppTask(t)
  PROVE  bg' = bg /\ (create'["bg"].pc # "idle" => create["bg"].pc # "idle")
<1>0. create \in [Creators -> CreateRec] /\ "bg" \in Creators /\ "cmd" \in Creators
  BY DEF TablesTyped, Creators
<1>1. CASE CommandTask
  <2>1. ASSUME NEW n, NEW f, StartAppCmd(n, f) PROVE bg' = bg /\ create'["bg"] = create["bg"]
    BY <1>0, <2>1 DEF StartAppCmd, Reserve
  <2>2. ASSUME NEW n, NEW k, NEW f, GetAppIDByName(n, k, f) PROVE bg' = bg /\ create'["bg"] = create["bg"]
    BY <2>2 DEF GetAppIDByName
  <2>3. CASE RequestApp
    BY <2>3 DEF RequestApp
  <2>4. CASE AppCreate("cmd")
    BY <1>0, <2>4 DEF AppCreate, LoadModule, StartAppTask, FinishCreate
  <2> QED BY <1>1, <2>1, <2>2, <2>3, <2>4 DEF CommandTask
<1>2. ASSUME NEW t \in LiveTasks, AppTask(t) PROVE bg' = bg /\ create' = create
  BY <1>2 DEF AppTask, TaskEntryPoint, GiveUp, OS_TaskExit, EnterService, Allocate, NoEsChange, RunLoop, ExitApp,
     CreateChildTask, StartChildTask, DeleteChildTask, ExitChildTask, DropTaskRecord
<1> QED BY <1>1, <1>2

\* The background task works on ids that were given out.
LEMMA WorkStep ==
  ASSUME TablesTyped, TablesTyped', WorkTyped, Ids, Core, ListIds, Next
  PROVE  BgIds' /\ ListIds'
<1>0. /\ lastAppId \in Nat /\ lastOsTask \in Nat /\ lastAppId' \in Nat /\ lastOsTask' \in Nat
      /\ lastAppId' >= lastAppId /\ lastOsTask' >= lastOsTask
      /\ BgIds /\ bg \in BgRec /\ FieldTypes
  BY LastsGrow, Fields DEF TablesTyped, Ids, WorkTyped
<1>1. CASE CommandTask \/ \E t \in LiveTasks : AppTask(t)
  BY <1>0, <1>1, OthersKeepBg, BgKept
<1>l. bg'.list = bg.list => ListIds'
  BY <1>0 DEF ListIds
<1>2. ASSUME NEW e \in 1 .. MaxElapsed, RunAppTableScan(e) PROVE BgIds' /\ ListIds'
  <2>1. CASE ~ScanDue(e)
    BY <1>0, <1>2, <2>1, BgKept DEF RunAppTableScan
  <2>2. CASE ScanDue(e)
    <3> DEFINE S == {s \in AppSlots : TimedOut(appTable[s], e)}
    <3>1. PICK out \in InTableOrder(S) :
              bg' = [bg EXCEPT !.list = [i \in DOMAIN out |-> appTable[out[i]].id]]
      BY <1>2, <2>2 DEF RunAppTableScan
    <3>2. S \in SUBSET AppSlots /\ \A s \in S : Stopping(appTable[s])
      BY DEF TimedOut
    <3> HIDE DEF S
    <3>3. PICK n \in Nat : DOMAIN out = 1 .. n /\ \A i \in 1 .. n : out[i] \in S
      BY <3>2, TableOrderType
    <3>4. ~Cleaning /\ bg.pc = "idle"
      BY <1>2 DEF RunAppTableScan, Cleaning
    <3>5. ASSUME NEW s \in S PROVE appTable[s].id \in 1 .. lastAppId
      <4>1. appTable[s].id # Free /\ appTable[s].state # "INIT" /\ s \in AppSlots
        BY <3>2 DEF Stopping, IsUsed
      <4>2. appTable[s].id # Reserved
        BY <3>4, <4>1 DEF Core, ReservedHeld, CreatesHoldSlot
      <4> QED BY <4>1, <4>2 DEF Ids, AppIds
    <3>6. bg'.list = [i \in 1 .. n |-> appTable[out[i]].id]
      BY <1>0, <3>1, <3>3 DEF BgRec
    <3>7. ListIds'
      BY <1>0, <3>3, <3>5, <3>6 DEF ListIds
    <3>8. bg'.pc = bg.pc /\ bg'.left = bg.left /\ create' = create
      BY <1>0, <1>2, <3>1 DEF BgRec, RunAppTableScan
    <3> QED BY <1>0, <3>4, <3>7, <3>8 DEF BgIds, Cleaning
  <2> QED BY <2>1, <2>2
<1>3. CASE ProcessControlRequest
  <2>1. bg.list \in Seq(Int) /\ bg.list # <<>> /\ bg.pc = "idle"
    BY <1>0, <1>3 DEF ProcessControlRequest, BgRec
  <2>2. Head(bg.list) \in 1 .. lastAppId
    BY <2>1 DEF ListIds
  <2>3. \A i \in DOMAIN Tail(bg.list) : Tail(bg.list)[i] \in 1 .. lastAppId
    BY <2>1 DEF ListIds
  <2>4. /\ bg'.list = Tail(bg.list) /\ bg'.id = Head(bg.list)
        /\ bg'.left = {} /\ bg'.pc = "collect"
    BY <1>3 DEF ProcessControlRequest, NoWork
  <2>5. create' = create
    BY <1>3 DEF ProcessControlRequest
  <2> QED BY <1>0, <2>1, <2>2, <2>3, <2>4, <2>5 DEF BgIds, ListIds, Cleaning
<1>4. CASE CollectResources
  <2>1. \A s \in TaskSlots : taskTable[s].id # Reserved
    BY <1>4 DEF Core, ReservedListed, CollectResources, Cleaning
  <2>2. \A s \in TaskRecordsOf(bg.id) : taskTable[s].id \in 1 .. lastOsTask
    BY <2>1 DEF TaskRecordsOf, IsUsed, Ids, TaskIds
  <2>3. /\ bg'.pc = "services" /\ bg'.id = bg.id /\ bg'.list = bg.list
        /\ bg'.left = {taskTable[s].id : s \in TaskRecordsOf(bg.id)}
    BY <1>0, <1>4 DEF CollectResources, BgRec
  <2>4. bg.id \in 1 .. lastAppId /\ create["bg"].pc = "idle" /\ create' = create
    BY <1>0, <1>4 DEF CollectResources, BgIds
  <2> QED BY <1>0, <1>l, <2>2, <2>3, <2>4 DEF BgIds, Cleaning
<1>5. CASE CleanUpServices
  <2>1. bg.pc = "services" /\ bg' = [bg EXCEPT !.pc = "tasks"] /\ create' = create
    BY <1>5 DEF CleanUpServices
  <2>2. bg'.pc = "tasks" /\ bg'.id = bg.id /\ bg'.list = bg.list /\ bg'.left = bg.left
    BY <1>0, <2>1 DEF BgRec
  <2> QED BY <1>0, <1>l, <2>1, <2>2 DEF BgIds, Cleaning
<1>6. ASSUME NEW t \in bg.left, CleanupTaskResources(t) PROVE BgIds' /\ ListIds'
  <2>1. bg.pc = "tasks" /\ bg' = [bg EXCEPT !.left = @ \ {t}] /\ create' = create
    BY <1>6 DEF CleanupTaskResources
  <2>2. bg'.pc = bg.pc /\ bg'.id = bg.id /\ bg'.list = bg.list /\ bg'.left = bg.left \ {t}
    BY <1>0, <2>1 DEF BgRec
  <2> QED BY <1>0, <1>l, <2>1, <2>2 DEF BgIds, Cleaning
<1>7. CASE FreeRecords
  <2>1. bg.pc = "tasks" /\ bg.left = {} /\ create' = create
    BY <1>7 DEF FreeRecords
  <2>2. bg'.pc \in {"create", "idle"} /\ bg'.list = bg.list /\ bg'.left = {}
    BY <1>0, <1>7 DEF FreeRecords, NoWork, BgRec
  <2> QED BY <1>0, <1>l, <2>1, <2>2 DEF BgIds, Cleaning
<1>8. CASE RestartCreate
  <2>1. bg.pc = "create" /\ create["bg"].pc = "idle"
    BY <1>8 DEF RestartCreate
  <2>2. \/ bg'.pc = "creating" /\ bg'.list = bg.list /\ bg'.left = bg.left
        \/ bg'.pc = "idle" /\ bg'.list = bg.list /\ bg'.left = {} /\ create' = create
    BY <1>0, <1>8 DEF RestartCreate, NoWork, BgRec
  <2> QED BY <1>0, <1>l, <2>1, <2>2 DEF BgIds, Cleaning
<1>9. CASE AppCreate("bg")
  <2>0. create["bg"].pc # "idle" /\ bg.pc = "creating" /\ bg.left = {}
    BY <1>0, <1>9 DEF AppCreate, LoadModule, StartAppTask, FinishCreate, BgIds, Cleaning
  <2>1. CASE LoadModule("bg") \/ StartAppTask("bg")
    <3>1. bg' = bg
      BY <2>1 DEF LoadModule, StartAppTask
    <3> QED BY <1>0, <2>0, <3>1, BgKept
  <2>2. CASE FinishCreate("bg")
    <3>1. bg' = [NoWork EXCEPT !.list = bg.list] /\ create'["bg"].pc = "idle"
      BY <2>2 DEF FinishCreate, TablesTyped, NoCreate, Creators
    <3>2. bg'.pc = "idle" /\ bg'.list = bg.list /\ bg'.left = {}
      BY <3>1 DEF NoWork
    <3> QED BY <1>l, <3>1, <3>2 DEF BgIds, Cleaning
  <2> QED BY <1>9, <2>1, <2>2 DEF AppCreate
<1> QED BY <1>1, <1>2, <1>3, <1>4, <1>5, <1>6, <1>7, <1>8, <1>9 DEF Next, BackgroundTask

\* An application in the table stays there until it is cleaned up.
AppsStay == \A s \in AppSlots : appTable[s].id > Free => appTable'[s].id = appTable[s].id

\* A step that removes no application and takes no resource leaves none behind.
LEMMA ReleasedKept ==
  ASSUME TablesTyped, HistoryIds, ResourcesReleased, AppsStay,
         UNCHANGED <<resources, forced>>, bg.pc = "services" => bg' = bg
  PROVE  ResourcesReleased'
<1>1. ASSUME NEW a \in resources, AppRecordIsMatch(a) PROVE AppRecordIsMatch(a)'
  <2>1. a \in Nat \ {0}
    BY DEF HistoryIds, TablesTyped
  <2>2. LocateAppRecordByID(a) \in AppSlots
    BY <2>1, Slots
  <2> QED BY <1>1, <2>1, <2>2 DEF AppRecordIsMatch, AppsStay, Free
<1> QED BY <1>1 DEF ResourcesReleased

\* Other than to give or take its id, a step leaves the id of a record alone or
\* passes from free to reserved and back.
AppsSame ==
    \A s \in AppSlots :
        appTable'[s].id = appTable[s].id \/ ~(appTable[s].id > Free \/ appTable'[s].id > Free)

\* Only CollectResources and the end of CFE_ES_AppCreate count applications.
LEMMA AppsSameStep ==
  ASSUME TablesTyped, WorkTyped, Ids, Core, Next, ~CollectResources,
         \A p \in Creators : ~FinishCreate(p)
  PROVE  AppsSame
<1>0. FieldTypes /\ bg \in BgRec /\ appTable \in [AppSlots -> AppRec]
  BY Fields DEF WorkTyped, TablesTyped
<1>s. UNCHANGED appTable => AppsSame
  BY DEF AppsSame
<1>r. ASSUME NEW n, NEW p, NEW f, CanReserve(n), Reserve(p, n, f) PROVE AppsSame
  <2>1. appTable[LocateAppRecordByID(NewAppId)].id = Free
    BY <1>r, NewAppIsNew DEF CanReserve
  <2>2. PICK x : x = LocateAppRecordByID(NewAppId)
    OBVIOUS
  <2>3. \A s \in AppSlots : IF s = x THEN appTable'[s].id = Reserved ELSE appTable'[s] = appTable[s]
    BY <1>0, <1>r, <2>2 DEF Reserve, FreeApp
  <2> QED BY <2>1, <2>2, <2>3 DEF AppsSame, Free, Reserved
<1>c. ASSUME NEW p \in Creators, AppCreate(p) PROVE AppsSame
  <2>1. CASE LoadModule(p)
    BY <1>s, <2>1 DEF LoadModule, tables
  <2>2. CASE StartAppTask(p)
    BY <1>0, <2>2 DEF StartAppTask, AppsSame, AppRec
  <2> QED BY <1>c, <2>1, <2>2 DEF AppCreate
<1>1. CASE CommandTask
  <2>1. ASSUME NEW n, NEW f, StartAppCmd(n, f) PROVE AppsSame
    BY <1>r, <1>s, <2>1 DEF StartAppCmd, tables
  <2>2. ASSUME NEW n, NEW k, NEW f, GetAppIDByName(n, k, f) PROVE AppsSame
    BY <1>s, <2>2 DEF GetAppIDByName, tables
  <2>3. CASE RequestApp
    <3>1. CASE UNCHANGED appTable
      BY <3>1, <1>s
    <3>2. CASE appTable' = [appTable EXCEPT ![LocateAppRecordByID(cmd.id)] = LeaveRequest(@)]
      <4>1. \A rec \in AppRec : LeaveRequest(rec).id = rec.id
        BY DEF LeaveRequest, AppRec
      <4> QED BY <1>0, <3>2, <4>1 DEF AppsSame
    <3> QED BY <2>3, <3>1, <3>2 DEF RequestApp
  <2> QED BY <1>1, <1>c, <2>1, <2>2, <2>3 DEF CommandTask, Creators
<1>2. CASE BackgroundTask
  <2>1. ASSUME NEW e, RunAppTableScan(e) PROVE AppsSame
    <3>1. CASE UNCHANGED appTable
      BY <3>1, <1>s
    <3>2. CASE appTable' = [s \in AppSlots |-> ScanRecord(appTable[s], e)]
      <4>1. \A rec \in AppRec : ScanRecord(rec, e).id = rec.id
        BY DEF ScanRecord, AppRec
      <4> QED BY <1>0, <3>2, <4>1 DEF AppsSame
    <3> QED BY <2>1, <3>1, <3>2 DEF RunAppTableScan
  <2>2. CASE ProcessControlRequest \/ CleanUpServices \/ \E t \in bg.left : CleanupTaskResources(t)
    BY <1>s, <2>2 DEF ProcessControlRequest, CleanUpServices, CleanupTaskResources, tables
  <2>3. CASE FreeRecords
    <3>1. PICK x : x = LocateAppRecordByID(bg.id)
      OBVIOUS
    <3>2. appTable[x].id = Reserved
      BY <2>3, <3>1 DEF FreeRecords, Core, CleanupHoldsSlot, Cleaning
    <3>3. \A s \in AppSlots : IF s = x THEN appTable'[s].id = Free ELSE appTable'[s] = appTable[s]
      BY <1>0, <2>3, <3>1, <3>2 DEF FreeRecords, FreeIfReserved, AppRecordSetFree, FreeApp
    <3> QED BY <3>2, <3>3 DEF AppsSame, Free, Reserved
  <2>4. CASE RestartCreate
    BY <1>r, <1>s, <2>4 DEF RestartCreate, tables
  <2> QED BY <1>2, <1>c, <2>1, <2>2, <2>3, <2>4 DEF BackgroundTask, Creators
<1>3. ASSUME NEW t \in LiveTasks, AppTask(t) PROVE AppsSame
  <2>1. CASE TaskEntryPoint(t) \/ GiveUp(t) \/ OS_TaskExit(t) \/ EnterService(t) \/ Allocate(t)
             \/ CreateChildTask(t)
    BY <1>s, <2>1 DEF TaskEntryPoint, GiveUp, OS_TaskExit, EnterService, Allocate, NoEsChange, tables, CreateChildTask
  <2>2. CASE StartChildTask(t) \/ DeleteChildTask(t) \/ ExitChildTask(t)
    BY <1>s, <2>2 DEF StartChildTask, DeleteChildTask, ExitChildTask, DropTaskRecord
  <2>3. CASE RunLoop(t)
    <3>1. CASE UNCHANGED appTable
      BY <3>1, <1>s
    <3>2. CASE appTable' = [appTable EXCEPT ![Context(t)].state = IF @ = "INIT" THEN "RUNNING" ELSE @]
      BY <1>0, <3>2 DEF AppsSame, AppRec
    <3> QED BY <2>3, <3>1, <3>2 DEF RunLoop
  <2>4. ASSUME NEW r, ExitApp(t, r) PROVE AppsSame
    <3>1. CASE UNCHANGED appTable
      BY <3>1, <1>s
    <3>2. CASE appTable' = [appTable EXCEPT ![Context(t)].req = ExitRequest(appTable[Context(t)], r),
                                            ![Context(t)].state = "STOPPED"]
      BY <1>0, <3>2 DEF AppsSame, AppRec
    <3> QED BY <2>4, <3>1, <3>2 DEF ExitApp
  <2> QED BY <1>3, <2>1, <2>2, <2>3, <2>4 DEF AppTask
<1> QED BY <1>1, <1>2, <1>3 DEF Next


\* The record that an AppCreate finishes was reserved.
LEMMA FinishEffect ==
  ASSUME TablesTyped, Ids, Core, NEW p \in Creators, FinishCreate(p)
  PROVE  LET z == LocateAppRecordByID(create[p].id)
         IN  /\ z \in AppSlots /\ appTable[z].id = Reserved
             /\ \A s \in AppSlots : s # z => appTable'[s] = appTable[s]
             /\ appTable'[z].id = IF create[p].task # Free THEN create[p].id ELSE Free
             /\ create[p].id \in 1 .. lastAppId
<1>0. FieldTypes
  BY Fields
<1>1. PICK x \in AppSlots : x = LocateAppRecordByID(create[p].id)
  BY <1>0, Slots DEF FieldTypes
<1>2. appTable[x].id = Reserved /\ create[p].id \in 1 .. lastAppId
  BY <1>1 DEF FinishCreate, Core, CreatesHoldSlot, Ids, CreateIds
<1>3. \A s \in AppSlots : s # x => appTable'[s] = appTable[s]
  BY <1>1 DEF FinishCreate, TablesTyped
<1>4. appTable'[x].id = IF create[p].task # Free THEN create[p].id ELSE Free
  <2>1. CASE create[p].task # Free
    <3>1. appTable' = [appTable EXCEPT ![x].id = create[p].id]
      BY <1>1, <2>1 DEF FinishCreate
    <3> QED BY <2>1, <3>1 DEF TablesTyped, AppRec
  <2>2. CASE create[p].task = Free
    <3>1. appTable' = [appTable EXCEPT ![x] = AppRecordSetFree(@)]
      BY <1>1, <2>2 DEF FinishCreate
    <3> QED BY <2>2, <3>1 DEF TablesTyped, AppRecordSetFree, FreeApp
  <2> QED BY <2>1, <2>2
<1> QED BY <1>1, <1>2, <1>3, <1>4

\* Only CollectResources takes an application out of the table.
LEMMA AppsStayStep ==
  ASSUME TablesTyped, WorkTyped, Ids, Core, Next, ~CollectResources
  PROVE  AppsStay
<1>1. CASE \A p \in Creators : ~FinishCreate(p)
  BY <1>1, AppsSameStep DEF AppsSame, AppsStay
<1>2. ASSUME NEW p \in Creators, FinishCreate(p) PROVE AppsStay
  BY <1>2, FinishEffect DEF AppsStay, Free, Reserved
<1> QED BY <1>1, <1>2

\* Every step keeps the resources with applications that are in the table.
LEMMA HistoryStep ==
  ASSUME TablesTyped, TablesTyped', WorkTyped, Ids, Core, HistoryIds, ResourcesReleased, Next
  PROVE  HistoryIds' /\ ResourcesReleased'
<1>0. /\ lastAppId \in Nat /\ lastAppId' \in Nat /\ lastAppId' >= lastAppId
      /\ FieldTypes /\ bg \in BgRec
  BY LastsGrow, Fields DEF TablesTyped, WorkTyped
<1>1. CASE CollectResources
  <2>1. /\ bg.pc = "collect" /\ AppRecordIsMatch(bg.id) /\ bg.id \in 1 .. lastAppId
        /\ resources' = resources /\ lastAppId' = lastAppId
        /\ forced' = forced \/ forced' = forced \cup {bg.id}
    BY <1>1 DEF CollectResources, Ids, BgIds
  <2>2. bg'.pc = "services" /\ bg'.id = bg.id
    BY <1>0, <1>1 DEF CollectResources, BgRec
  <2>3. \A s \in AppSlots : s # LocateAppRecordByID(bg.id) => appTable'[s] = appTable[s]
    BY <1>1 DEF CollectResources, TablesTyped
  <2>4. ASSUME NEW a \in resources, a \notin forced'
        PROVE  AppRecordIsMatch(a)' \/ bg'.id = a
    <3>1. a \in Nat /\ AppRecordIsMatch(a)
      BY <2>1, <2>4 DEF ResourcesReleased, HistoryIds
    <3>2. CASE LocateAppRecordByID(a) = LocateAppRecordByID(bg.id)
      BY <2>1, <2>2, <3>1, <3>2 DEF AppRecordIsMatch
    <3>3. CASE LocateAppRecordByID(a) # LocateAppRecordByID(bg.id)
      BY <2>3, <3>1, <3>3, Slots DEF AppRecordIsMatch
    <3> QED BY <3>2, <3>3
  <2> QED BY <2>1, <2>2, <2>4 DEF HistoryIds, ResourcesReleased
<1>2. CASE CleanUpServices
  <2>1. /\ bg.pc = "services" /\ resources' = resources \ {bg.id} /\ appTable' = appTable
        /\ lastAppId' = lastAppId /\ forced' = forced
    BY <1>2 DEF CleanUpServices, tables
  <2> QED BY <2>1 DEF HistoryIds, ResourcesReleased, AppRecordIsMatch
<1>3. ASSUME NEW t \in LiveTasks, Allocate(t) PROVE HistoryIds' /\ ResourcesReleased'
  <2>1. /\ resources' = resources \cup {OsTask(t).app} /\ forced' = forced /\ appTable' = appTable
        /\ bg' = bg /\ lastAppId' = lastAppId /\ OsTask(t).pc \in {"call", "childcall"}
    BY <1>3 DEF Allocate, NoEsChange, tables, At
  <2>2. PICK z \in TaskSlots : z = LocateTaskRecordByID(t) /\ osTasks[z].id = t /\ t \in Nat \ {0}
    BY LiveTask DEF Ids
  <2>3. PICK a \in Nat : a = OsTask(t).app /\ a = osTasks[z].app
    BY <1>0, <2>2 DEF FieldTypes, OsTask
  <2>4. a \in 1 .. lastAppId
    BY <2>2, <2>3 DEF Ids, OsIds, Free
  <2>5. AppRecordIsMatch(a) \/ a \in forced
    <3>1. CASE HasContext(t)
      <4>1. taskTable[z].id = t /\ appTable[LocateAppRecordByID(taskTable[z].app)].id = taskTable[z].app
        BY <2>2, <3>1 DEF HasContext, TaskRecordIsMatch, AppRecordIsMatch
      <4>2. taskTable[z].app = a
        BY <2>2, <2>3, <4>1 DEF Core, RecordsTrue, Free
      <4> QED BY <4>1, <4>2 DEF AppRecordIsMatch
    <3>2. CASE ~HasContext(t)
      <4>1. t \in bg.left
        BY <2>1, <3>2, LiveContext
      <4>2. OsAlive(t)
        BY <2>2 DEF OsAlive
      <4>3. OsTask(t).app = bg.id /\ (OsTask(t).pc # "suspended" => bg.id \in forced)
        BY <4>1, <4>2 DEF Core, LeftOvers
      <4> QED BY <2>1, <2>3, <4>3
    <3> QED BY <3>1, <3>2
  <2> QED BY <2>1, <2>3, <2>4, <2>5 DEF HistoryIds, ResourcesReleased, AppRecordIsMatch
<1>4. CASE /\ ~CollectResources /\ ~CleanUpServices /\ ~ \E t \in LiveTasks : Allocate(t)
  <2>1. UNCHANGED <<resources, forced>>
    <3>1. CASE CommandTask
      BY <3>1 DEF CommandTask, StartAppCmd, GetAppIDByName, RequestApp, AppCreate, LoadModule, StartAppTask,
                  FinishCreate, history
    <3>2. CASE BackgroundTask
      BY <1>4, <3>2 DEF BackgroundTask, RunAppTableScan, ProcessControlRequest, CleanupTaskResources, FreeRecords,
                        RestartCreate, AppCreate, LoadModule, StartAppTask, FinishCreate, history
    <3>3. ASSUME NEW t \in LiveTasks, AppTask(t) PROVE UNCHANGED <<resources, forced>>
      BY <1>4, <3>3 DEF AppTask, TaskEntryPoint, GiveUp, OS_TaskExit, EnterService, RunLoop, ExitApp,
           CreateChildTask, StartChildTask, DeleteChildTask, ExitChildTask, DropTaskRecord, history
    <3> QED BY <3>1, <3>2, <3>3 DEF Next
  <2>2. bg.pc = "services" => bg' = bg
    <3>1. CASE BackgroundTask
      <4>1. bg.pc = "services" => ~AppCreate("bg")
        BY DEF AppCreate, LoadModule, StartAppTask, FinishCreate, Ids, BgIds
      <4> QED BY <1>4, <3>1, <4>1 DEF BackgroundTask, RunAppTableScan, ProcessControlRequest, CleanupTaskResources,
                 FreeRecords, RestartCreate
    <3> QED BY <3>1, OthersKeepBg DEF Next
  <2>3. AppsStay
    BY <1>4, AppsStayStep
  <2>4. HistoryIds'
    BY <1>0, <2>1 DEF HistoryIds
  <2> QED BY <2>1, <2>2, <2>3, <2>4, ReleasedKept
<1> QED BY <1>1, <1>2, <1>3, <1>4

-----------------------------------------------------------------------------
(* The counts.                                                               *)
CountedApps == {s \in AppSlots : appTable[s].id > Free}
CountedTasks == {s \in TaskSlots : taskTable[s].id > Free}

\* The tables are finite.
LEMMA FiniteSlots == IsFiniteSet(AppSlots) /\ IsFiniteSet(TaskSlots)
BY Sizes, FS_Interval DEF AppSlots, TaskSlots

\* So are their parts, which can be counted.
LEMMA FiniteCounted ==
  /\ \A S \in SUBSET AppSlots : IsFiniteSet(S) /\ Cardinality(S) \in Nat
  /\ \A S \in SUBSET TaskSlots : IsFiniteSet(S) /\ Cardinality(S) \in Nat
<1>1. ASSUME NEW R, IsFiniteSet(R), NEW S \in SUBSET R PROVE IsFiniteSet(S) /\ Cardinality(S) \in Nat
  BY <1>1, FS_Subset, FS_CardinalityType
<1> QED BY <1>1, FiniteSlots

\* The counters are exact when they are the numbers of counted records.
LEMMA Counts ==
  RegisteredExact <=> registeredApps = Cardinality(CountedApps) /\ registeredTasks = Cardinality(CountedTasks)
BY DEF RegisteredExact, CountedApps, CountedTasks

TasksSame ==
    \A s \in TaskSlots :
        taskTable'[s].id = taskTable[s].id \/ ~(taskTable[s].id > Free \/ taskTable'[s].id > Free)

\* What counts is the records' ids being given out or not.
LEMMA SameCounts ==
  /\ AppsSame => CountedApps' = CountedApps
  /\ TasksSame => CountedTasks' = CountedTasks
  /\ UNCHANGED appTable => CountedApps' = CountedApps
  /\ UNCHANGED taskTable => CountedTasks' = CountedTasks
<1>1. AppsSame => CountedApps' = CountedApps
  BY DEF AppsSame, CountedApps
<1>2. TasksSame => CountedTasks' = CountedTasks
  BY DEF TasksSame, CountedTasks
<1> QED BY <1>1, <1>2 DEF CountedApps, CountedTasks

\* A task that waits for its record finds no other task's at its slot.
LEMMA UnregisteredSlot ==
  ASSUME TablesTyped, Core, NEW t \in Nat, NEW a, Unregistered(t, a)
  PROVE  ~(taskTable[LocateTaskRecordByID(t)].id > Free)
<1>0. FieldTypes
  BY Fields
<1>1. PICK w \in TaskSlots : w = LocateTaskRecordByID(t)
  BY Slots
<1>2. osTasks[w].id = t /\ taskTable[w].id # t
  BY <1>1 DEF Unregistered, OsAlive, TaskRecordIsMatch
<1> QED BY <1>1, <1>2 DEF Core, RecordsTrue

\* Registering a task counts one more.
LEMMA SetRecordCount ==
  ASSUME TablesTyped, RegisteredExact, NEW t \in Nat \ {0}, NEW a, SetTaskRecord(t, a),
         ~(taskTable[LocateTaskRecordByID(t)].id > Free)
  PROVE  registeredTasks' = Cardinality(CountedTasks')
<1>1. PICK w \in TaskSlots : w = LocateTaskRecordByID(t)
  BY Slots
<1>2. taskTable'[w].id = t /\ \A s \in TaskSlots : s # w => taskTable'[s] = taskTable[s]
  BY <1>1 DEF SetTaskRecord, TablesTyped
<1>3. CountedTasks' = CountedTasks \cup {w} /\ w \notin CountedTasks
  BY <1>1, <1>2 DEF CountedTasks, Free
<1>4. Cardinality(CountedTasks \cup {w}) = Cardinality(CountedTasks) + 1
  BY <1>3, FiniteCounted, FS_AddElement DEF CountedTasks
<1> QED BY <1>3, <1>4, Counts DEF SetTaskRecord

\* Freeing the record of a task counts one less.
LEMMA DropRecordCount ==
  ASSUME TablesTyped, RegisteredExact, NEW t \in Nat \ {0}, DropTaskRecord(t),
         taskTable[LocateTaskRecordByID(t)].id = t
  PROVE  registeredTasks' = Cardinality(CountedTasks')
<1>1. PICK w \in TaskSlots : w = LocateTaskRecordByID(t)
  BY Slots
<1>2. taskTable'[w].id = Free /\ \A s \in TaskSlots : s # w => taskTable'[s] = taskTable[s]
  BY <1>1 DEF DropTaskRecord, TablesTyped, FreeTask
<1>3. CountedTasks' = CountedTasks \ {w} /\ w \in CountedTasks
  BY <1>1, <1>2 DEF CountedTasks, Free
<1>4. Cardinality(CountedTasks \ {w}) = Cardinality(CountedTasks) - 1
  BY <1>3, FiniteCounted, FS_RemoveElement DEF CountedTasks
<1> QED BY <1>3, <1>4, Counts DEF DropTaskRecord

\* Every step keeps the counters exact.
LEMMA CountStep ==
  ASSUME TablesTyped, WorkTyped, Ids, Core, RegisteredExact, Next
  PROVE  RegisteredExact'
<1>0. FieldTypes /\ bg \in BgRec
  BY Fields DEF WorkTyped
<1>g. registeredApps = Cardinality(CountedApps) /\ registeredTasks = Cardinality(CountedTasks)
  BY Counts
<1>h. (registeredApps' = Cardinality(CountedApps') /\ registeredTasks' = Cardinality(CountedTasks'))
        => RegisteredExact'
  BY DEF RegisteredExact, CountedApps, CountedTasks
<1>1. CASE CollectResources
  <2>1. PICK a \in Nat : a = bg.id
    BY <1>0 DEF BgRec
  <2>2. PICK z \in AppSlots : z = LocateAppRecordByID(a)
    BY Slots
  <2>3. a > 0 /\ appTable[z].id = a
    BY <1>1, <2>1, <2>2 DEF CollectResources, Ids, BgIds, AppRecordIsMatch
  <2>4. /\ \A s \in AppSlots : s # z => appTable'[s] = appTable[s]
        /\ appTable'[z].id = Reserved
    BY <1>1, <2>1, <2>2 DEF CollectResources, TablesTyped, AppRec
  <2>5. CountedApps' = CountedApps \ {z} /\ z \in CountedApps
    BY <2>3, <2>4 DEF CountedApps, Free, Reserved
  <2>6. registeredApps' = Cardinality(CountedApps')
    <3>1. Cardinality(CountedApps \ {z}) = Cardinality(CountedApps) - 1
      BY <2>5, FiniteCounted, FS_RemoveElement DEF CountedApps
    <3> QED BY <1>1, <1>g, <2>5, <3>1 DEF CollectResources
  <2>7. PICK mine \in SUBSET TaskSlots : mine = TaskRecordsOf(a)
    BY DEF TaskRecordsOf
  <2>8. mine \subseteq CountedTasks
    <3>1. \A s \in TaskSlots : taskTable[s].id # Reserved
      BY <1>1 DEF Core, ReservedListed, CollectResources, Cleaning
    <3> QED BY <1>0, <2>7, <3>1 DEF TaskRecordsOf, IsUsed, CountedTasks, Ids, TaskIds, FieldTypes, Free
  <2>9. /\ \A s \in TaskSlots : taskTable'[s].id = IF s \in mine THEN Reserved ELSE taskTable[s].id
        /\ registeredTasks' = registeredTasks - Cardinality(mine)
    BY <1>1, <2>1, <2>7 DEF CollectResources, TablesTyped, TaskRec
  <2>10. CountedTasks' = CountedTasks \ mine
    BY <2>9 DEF CountedTasks, Free, Reserved
  <2>11. CountedTasks \cap mine = mine
    BY <2>8
  <2>12. Cardinality(CountedTasks \ mine) = Cardinality(CountedTasks) - Cardinality(CountedTasks \cap mine)
    BY FiniteCounted, FS_Difference DEF CountedTasks
  <2>13. registeredTasks' = Cardinality(CountedTasks')
    BY <1>g, <2>9, <2>10, <2>11, <2>12
  <2> QED BY <1>h, <2>6, <2>13
<1>2. ASSUME NEW p \in Creators, FinishCreate(p) PROVE RegisteredExact'
  <2>1. UNCHANGED <<taskTable, registeredTasks>>
    BY <1>2 DEF FinishCreate
  <2>2. PICK z \in AppSlots : /\ appTable[z].id = Reserved
                              /\ \A s \in AppSlots : s # z => appTable'[s] = appTable[s]
                              /\ appTable'[z].id = IF create[p].task # Free THEN create[p].id ELSE Free
    BY <1>2, FinishEffect
  <2>3. CASE create[p].task # Free
    <3>1. create[p].id > Free /\ registeredApps' = registeredApps + 1
      <4>1. create[p].id \in 1 .. lastAppId
        BY <1>2, FinishEffect
      <4>2. create[p].id > Free
        BY <1>0, <4>1 DEF FieldTypes, Free
      <4> QED BY <1>2, <2>3, <4>2 DEF FinishCreate
    <3>2. CountedApps' = CountedApps \cup {z} /\ z \notin CountedApps
      BY <2>2, <2>3, <3>1 DEF CountedApps, Free, Reserved
    <3>3. Cardinality(CountedApps \cup {z}) = Cardinality(CountedApps) + 1
      BY <3>2, FiniteCounted, FS_AddElement DEF CountedApps
    <3> QED BY <1>g, <1>h, <2>1, <3>1, <3>2, <3>3, SameCounts
  <2>4. CASE create[p].task = Free
    <3>1. registeredApps' = registeredApps
      BY <1>2, <2>4 DEF FinishCreate
    <3>2. CountedApps' = CountedApps
      BY <2>2, <2>4 DEF CountedApps, Free, Reserved
    <3> QED BY <1>g, <1>h, <2>1, <3>1, <3>2, SameCounts
  <2> QED BY <2>3, <2>4
<1>3. CASE ~CollectResources /\ \A p \in Creators : ~FinishCreate(p)
  <2>1. CountedApps' = CountedApps
    BY <1>3, AppsSameStep, SameCounts
  <2>2. registeredApps' = registeredApps
    <3>1. CASE CommandTask
      BY <1>3, <3>1 DEF CommandTask, StartAppCmd, Reserve, GetAppIDByName, RequestApp, AppCreate, LoadModule,
                  StartAppTask, tables, Creators
    <3>2. CASE BackgroundTask
      BY <1>3, <3>2 DEF BackgroundTask, RunAppTableScan, ProcessControlRequest, CleanupTaskResources, FreeRecords,
                        CleanUpServices, RestartCreate, Reserve, AppCreate, LoadModule, StartAppTask, tables, Creators
    <3>3. ASSUME NEW t \in LiveTasks, AppTask(t) PROVE registeredApps' = registeredApps
      BY <3>3 DEF AppTask, TaskEntryPoint, GiveUp, OS_TaskExit, EnterService, RunLoop, ExitApp, Allocate, tables,
           CreateChildTask, StartChildTask, DeleteChildTask, ExitChildTask, DropTaskRecord, NoEsChange
    <3> QED BY <3>1, <3>2, <3>3 DEF Next
  <2>3. registeredTasks' = Cardinality(CountedTasks')
    <3>s. ASSUME UNCHANGED <<taskTable, registeredTasks>> PROVE registeredTasks' = Cardinality(CountedTasks')
      BY <1>g, <3>s, SameCounts
    <3>c. ASSUME NEW p \in Creators, AppCreate(p) PROVE registeredTasks' = Cardinality(CountedTasks')
      <4>1. CASE LoadModule(p)
        BY <3>s, <4>1 DEF LoadModule, tables
      <4>2. CASE StartAppTask(p)
        <5>1. PICK c \in Nat, a \in Nat : c = create[p].task /\ a = create[p].id
          BY <1>0 DEF FieldTypes
        <5>2. Unregistered(c, a) /\ c # Free /\ SetTaskRecord(c, a)
          BY <4>2, <5>1 DEF StartAppTask, Core, Awaited, Unregistered
        <5> QED BY <5>2, UnregisteredSlot, SetRecordCount DEF Free
      <4> QED BY <1>3, <3>c, <4>1, <4>2 DEF AppCreate
    <3>1. CASE CommandTask
      <4>1. CASE AppCreate("cmd")
        BY <3>c, <4>1 DEF Creators
      <4>2. CASE ~AppCreate("cmd")
        <5>1. UNCHANGED <<taskTable, registeredTasks>>
          BY <3>1, <4>2 DEF CommandTask, StartAppCmd, Reserve, GetAppIDByName, RequestApp, tables
        <5> QED BY <3>s, <5>1
      <4> QED BY <4>1, <4>2
    <3>2. CASE BackgroundTask
      <4>1. CASE AppCreate("bg")
        BY <3>c, <4>1 DEF Creators
      <4>2. CASE FreeRecords
        <5>1. TasksSame
          BY <4>2 DEF FreeRecords, FreeIfReserved, FreeTask, TasksSame, Free, Reserved
        <5> QED BY <1>g, <4>2, <5>1, SameCounts DEF FreeRecords
      <4>3. CASE ~AppCreate("bg") /\ ~FreeRecords
        <5>1. UNCHANGED <<taskTable, registeredTasks>>
          BY <1>3, <3>2, <4>3 DEF BackgroundTask, RunAppTableScan, ProcessControlRequest, CleanupTaskResources,
                        CleanUpServices, RestartCreate, Reserve, tables
        <5> QED BY <3>s, <5>1
      <4> QED BY <4>1, <4>2, <4>3
    <3>3. ASSUME NEW t \in LiveTasks, AppTask(t) PROVE registeredTasks' = Cardinality(CountedTasks')
      <4>0. t \in Nat \ {0} /\ LocateTaskRecordByID(t) \in TaskSlots /\ osTasks[LocateTaskRecordByID(t)].id = t
        BY LiveTask DEF Ids
      <4>1. CASE StartChildTask(t)
        <5>1. PICK c \in Nat, a \in Nat : c = OsTask(t).child /\ a = OsTask(t).app
          BY <1>0, <4>0 DEF FieldTypes, OsTask
        <5>2. SetTaskRecord(c, a) /\ OsTask(t).pc = "spawn"
          BY <4>1, <5>1 DEF StartChildTask, At
        <5>3. Unregistered(c, a) /\ c # Free
          BY <4>0, <5>1, <5>2 DEF Core, Awaited, Unregistered, OsTask, Free
        <5> QED BY <5>2, <5>3, UnregisteredSlot, SetRecordCount DEF Free
      <4>2. CASE DeleteChildTask(t)
        <5>1. PICK c \in Nat : c = OsTask(t).child
          BY <1>0, <4>0 DEF FieldTypes, OsTask
        <5>2. c # Free /\ TaskRecordIsMatch(c) /\ DropTaskRecord(c)
          BY <4>2, <5>1 DEF DeleteChildTask
        <5> QED BY <5>2, DropRecordCount DEF Free, TaskRecordIsMatch
      <4>3. CASE ExitChildTask(t)
        <5>1. TaskRecordIsMatch(t) /\ DropTaskRecord(t)
          BY <4>3 DEF ExitChildTask, HasContext
        <5> QED BY <4>0, <5>1, DropRecordCount DEF TaskRecordIsMatch
      <4>4. CASE ~StartChildTask(t) /\ ~DeleteChildTask(t) /\ ~ExitChildTask(t)
        <5>1. UNCHANGED <<taskTable, registeredTasks>>
          BY <3>3, <4>4 DEF AppTask, TaskEntryPoint, GiveUp, OS_TaskExit, EnterService, RunLoop, ExitApp, Allocate,
               tables, CreateChildTask, NoEsChange
        <5> QED BY <3>s, <5>1
      <4> QED BY <4>1, <4>2, <4>3, <4>4
    <3> QED BY <3>1, <3>2, <3>3 DEF Next
  <2> QED BY <1>g, <1>h, <2>1, <2>2, <2>3
<1> QED BY <1>1, <1>2, <1>3

-----------------------------------------------------------------------------
(* The system after the startup script.                                      *)

\* Serial numbers up to the size of a table have slots of their own.
LEMMA SlotOf ==
  ASSUME NEW size \in Nat \ {0}
  PROVE  \A i \in 1 .. size : i % size = IF i = size THEN 0 ELSE i
<1> SUFFICES ASSUME NEW i \in 1 .. size PROVE i % size = IF i = size THEN 0 ELSE i
  OBVIOUS
<1>1. CASE i = size
  BY <1>1, SMTT(30)
<1>2. CASE i # size
  BY <1>2, SMTT(30)
<1> QED BY <1>1, <1>2

StartedApps(order, n) ==
    \A s \in AppSlots :
        \/ \E i \in 1 .. n :
             /\ LocateAppRecordByID(i) = s
             /\ appTable[s].id = i /\ appTable[s].name = order[i] /\ appTable[s].main = i
        \/ /\ \A i \in 1 .. n : LocateAppRecordByID(i) # s
           /\ appTable[s].id = Free /\ appTable[s].main = Free

StartedTasks(order, n) ==
    \A s \in TaskSlots :
        \/ \E i \in 1 .. n :
             /\ LocateTaskRecordByID(i) = s
             /\ taskTable[s] = [id |-> i, app |-> i] /\ taskTable[s].id = i /\ taskTable[s].app = i
             /\ osTasks[s].id = i /\ osTasks[s].app = i /\ osTasks[s].name = order[i]
             /\ osTasks[s].pc = "loop" /\ osTasks[s].child = Free
        \/ /\ \A i \in 1 .. n : LocateTaskRecordByID(i) # s
           /\ taskTable[s].id = Free /\ taskTable[s].app = Free
           /\ osTasks[s].id = Free /\ osTasks[s].child = Free

AfterScript(order, n) ==
    /\ StartedApps(order, n) /\ StartedTasks(order, n)
    /\ lastAppId = n /\ lastOsTask = n /\ registeredApps = n /\ registeredTasks = n
    /\ create = [p \in Creators |-> NoCreate]
    /\ bg = NoWork /\ resources = {} /\ forced = {}

\* The startup script names each application once and fits the tables.
LEMMA ScriptOrder ==
  ASSUME NEW order \in SetToSeqs(Initial)
  PROVE  \E n \in Nat :
           /\ n <= MaxApps /\ n <= MaxTasks /\ Len(order) = n
           /\ order \in [1 .. n -> Names]
           /\ \A i, j \in 1 .. n : order[i] = order[j] => i = j
<1> DEFINE n == Cardinality(Initial)
<1>1. n \in Nat /\ n <= MaxApps /\ n <= MaxTasks
  BY ESAssumption, FS_CardinalityType
<1>2. order \in [1 .. n -> Initial] /\ \A i, j \in 1 .. n : order[i] = order[j] => i = j
  BY DEF SetToSeqs, IsInjective
<1>3. Initial \subseteq Names
  BY ESAssumption
<1>4. order \in [1 .. n -> Names] /\ Len(order) = n
  BY <1>1, <1>2, <1>3
<1> QED BY <1>1, <1>2, <1>4

\* What the startup script leaves behind: n applications, each with its task.
LEMMA ScriptRun ==
  ASSUME NEW order \in SetToSeqs(Initial), StartedSystem(order)
  PROVE  \E n \in Nat :
           /\ n <= MaxApps /\ n <= MaxTasks
           /\ order \in [1 .. n -> Names]
           /\ \A i, j \in 1 .. n : order[i] = order[j] => i = j
           /\ AfterScript(order, n) /\ TablesTyped /\ WorkTyped
<1>1. PICK n \in Nat :
        /\ n <= MaxApps /\ n <= MaxTasks /\ Len(order) = n
        /\ order \in [1 .. n -> Names]
        /\ \A i, j \in 1 .. n : order[i] = order[j] => i = j
  BY ScriptOrder
<1> DEFINE At1(size, s) == CHOOSE i \in 1 .. n : i % size = s
           In(size, s) == \E i \in 1 .. n : i % size = s
           NewApp(i) == [FreeApp EXCEPT !.id = i, !.name = order[i],
                            !.state = "RUNNING", !.file = InitialFile, !.main = i]
           NewTask(i) == [id |-> i, app |-> i]
           NewOs(i) == [NoOsTask EXCEPT !.id = i, !.pc = "loop", !.app = i, !.name = order[i]]
<1>2. \A size, s : In(size, s) => At1(size, s) \in 1 .. n /\ At1(size, s) % size = s
  OBVIOUS
<1>3. appTable = [s \in AppSlots |-> IF ~In(MaxApps, s) THEN FreeApp ELSE NewApp(At1(MaxApps, s))]
  BY <1>1, ZenonT(60) DEF StartedSystem
<1>4. taskTable = [s \in TaskSlots |-> IF ~In(MaxTasks, s) THEN FreeTask ELSE NewTask(At1(MaxTasks, s))]
  BY <1>1, ZenonT(60) DEF StartedSystem
<1>5. osTasks = [s \in TaskSlots |-> IF ~In(MaxTasks, s) THEN NoOsTask ELSE NewOs(At1(MaxTasks, s))]
  BY <1>1, ZenonT(60) DEF StartedSystem
<1>6. /\ lastAppId = n /\ lastOsTask = n /\ registeredApps = n /\ registeredTasks = n
      /\ create = [p \in Creators |-> NoCreate] /\ cmd = NoCmd /\ bg = NoWork
      /\ scan = [pending |-> 0, timer |-> ScanRate, newCmd |-> FALSE]
      /\ resources = {} /\ forced = {} /\ cmds = 0
  BY <1>1 DEF StartedSystem
<1>7. ASSUME NEW i \in 1 .. n
      PROVE  /\ NewApp(i) \in AppRec /\ NewApp(i).id = i /\ NewApp(i).name = order[i] /\ NewApp(i).main = i
             /\ NewTask(i) \in TaskRec
             /\ NewOs(i) \in OsRec /\ NewOs(i).id = i /\ NewOs(i).app = i /\ NewOs(i).name = order[i]
             /\ NewOs(i).pc = "loop" /\ NewOs(i).child = Free
  <2>1. order[i] \in AppNames /\ InitialFile \in Files \cup {NoFile} /\ i \in Nat /\ i \in Int
    <3>1. order[i] \in Names
      BY <1>1
    <3>2. InitialFile \in Files
      BY ESAssumption
    <3>3. Names \subseteq AppNames
      BY DEF AppNames
    <3>4. i \in Nat /\ i \in Int
      BY <1>1
    <3> QED BY <3>1, <3>2, <3>3, <3>4
  <2>2. FreeApp \in AppRec /\ NoOsTask \in OsRec
    BY Constants
  <2>3. NewApp(i) \in AppRec
    BY <2>1, <2>2 DEF AppRec, AppStates
  <2>4. NewApp(i).id = i /\ NewApp(i).name = order[i] /\ NewApp(i).main = i
    BY <2>2 DEF AppRec
  <2>5. NewTask(i) \in TaskRec
    BY <2>1 DEF TaskRec
  <2>6. NewOs(i) \in OsRec
    BY <2>1, <2>2 DEF OsRec, TaskPcs
  <2>7. NewOs(i).id = i /\ NewOs(i).app = i /\ NewOs(i).name = order[i] /\ NewOs(i).pc = "loop"
        /\ NewOs(i).child = Free
    BY <2>2, NoTaskFields DEF OsRec
  <2> QED BY <2>3, <2>4, <2>5, <2>6, <2>7
<1>8. FreeApp \in AppRec /\ FreeTask \in TaskRec /\ NoOsTask \in OsRec
  BY Constants
<1>9. FreeApp.id = Free /\ FreeApp.main = Free /\ FreeTask.id = Free /\ FreeTask.app = Free
      /\ NoOsTask.id = Free /\ NoOsTask.child = Free
  BY NoTaskFields DEF FreeApp, FreeTask
<1> HIDE DEF At1, In, NewApp, NewOs
<1>10. appTable \in [AppSlots -> AppRec]
  BY <1>2, <1>3, <1>7, <1>8
<1>11. taskTable \in [TaskSlots -> TaskRec] /\ osTasks \in [TaskSlots -> OsRec]
  BY <1>2, <1>4, <1>5, <1>7, <1>8
<1>12. StartedApps(order, n)
  <2> SUFFICES ASSUME NEW s \in AppSlots
               PROVE  \/ \E i \in 1 .. n :
                           /\ LocateAppRecordByID(i) = s
                           /\ appTable[s].id = i /\ appTable[s].name = order[i] /\ appTable[s].main = i
                      \/ /\ \A i \in 1 .. n : LocateAppRecordByID(i) # s
                         /\ appTable[s].id = Free /\ appTable[s].main = Free
    BY DEF StartedApps
  <2>1. CASE In(MaxApps, s)
    <3>1. appTable[s] = NewApp(At1(MaxApps, s))
      BY <1>3, <2>1
    <3>2. PICK i \in 1 .. n : i = At1(MaxApps, s) /\ i % MaxApps = s
      BY <1>2, <2>1
    <3>3. NewApp(i).id = i /\ NewApp(i).name = order[i] /\ NewApp(i).main = i
      BY <1>7
    <3>4. LocateAppRecordByID(i) = s
      BY <3>2 DEF LocateAppRecordByID
    <3> QED BY <3>1, <3>2, <3>3, <3>4
  <2>2. CASE ~In(MaxApps, s)
    <3>1. appTable[s] = FreeApp
      BY <1>3, <2>2
    <3>2. \A i \in 1 .. n : LocateAppRecordByID(i) # s
      BY <2>2 DEF In, LocateAppRecordByID
    <3> QED BY <1>9, <3>1, <3>2
  <2> QED BY <2>1, <2>2
<1>13. StartedTasks(order, n)
  <2> SUFFICES ASSUME NEW s \in TaskSlots
               PROVE  \/ \E i \in 1 .. n :
                           /\ LocateTaskRecordByID(i) = s
                           /\ taskTable[s] = [id |-> i, app |-> i] /\ taskTable[s].id = i /\ taskTable[s].app = i
                           /\ osTasks[s].id = i /\ osTasks[s].app = i /\ osTasks[s].name = order[i]
                           /\ osTasks[s].pc = "loop" /\ osTasks[s].child = Free
                      \/ /\ \A i \in 1 .. n : LocateTaskRecordByID(i) # s
                         /\ taskTable[s].id = Free /\ taskTable[s].app = Free
                         /\ osTasks[s].id = Free /\ osTasks[s].child = Free
    BY DEF StartedTasks
  <2>1. CASE In(MaxTasks, s)
    <3>0. PICK i \in 1 .. n : i = At1(MaxTasks, s) /\ i % MaxTasks = s
      BY <1>2, <2>1
    <3>1. taskTable[s] = NewTask(i)
      BY <1>4, <2>1, <3>0
    <3>2. osTasks[s] = NewOs(i)
      BY <1>5, <2>1, <3>0
    <3>3. LocateTaskRecordByID(i) = s
      BY <3>0 DEF LocateTaskRecordByID
    <3>4. taskTable[s] = [id |-> i, app |-> i] /\ taskTable[s].id = i /\ taskTable[s].app = i
      BY <3>1
    <3>5. /\ osTasks[s].id = i /\ osTasks[s].app = i /\ osTasks[s].name = order[i]
          /\ osTasks[s].pc = "loop" /\ osTasks[s].child = Free
      <4>1. NewOs(i).id = i /\ NewOs(i).app = i /\ NewOs(i).name = order[i]
            /\ NewOs(i).pc = "loop" /\ NewOs(i).child = Free
        BY <1>7
      <4> QED BY <3>2, <4>1
    <3> QED BY <3>3, <3>4, <3>5
  <2>2. CASE ~In(MaxTasks, s)
    <3>1. taskTable[s] = FreeTask /\ osTasks[s] = NoOsTask
      BY <1>4, <1>5, <2>2
    <3>2. \A i \in 1 .. n : LocateTaskRecordByID(i) # s
      BY <2>2 DEF In, LocateTaskRecordByID
    <3> QED BY <1>9, <3>1, <3>2
  <2> QED BY <2>1, <2>2
<1>14. TablesTyped
  BY <1>6, <1>10, <1>11, Constants DEF TablesTyped
<1>15. WorkTyped
  <2>1. scan \in ScanRec
    BY <1>6, Sizes DEF ScanRec
  <2>2. cmd \in CmdRec /\ cmd.pc = "idle" /\ bg \in BgRec
    BY <1>6, Constants DEF NoCmd
  <2> QED BY <1>6, <2>1, <2>2, Sizes DEF WorkTyped
<1> QED BY <1>1, <1>6, <1>12, <1>13, <1>14, <1>15 DEF AfterScript

\* Serial numbers up to the size of a table are at different slots.
LEMMA CountScript ==
  ASSUME NEW size \in Nat \ {0}, NEW n \in Nat, n <= size
  PROVE  Cardinality({i % size : i \in 1 .. n}) = n
<1> DEFINE f == [i \in 1 .. n |-> i % size]
           S == {i % size : i \in 1 .. n}
<1>1. \A i \in 1 .. n : i \in 1 .. size
  OBVIOUS
<1>2. \A i, j \in 1 .. n : i % size = j % size => i = j
  <2> SUFFICES ASSUME NEW i \in 1 .. n, NEW j \in 1 .. n, i % size = j % size PROVE i = j
    OBVIOUS
  <2>1. i % size = (IF i = size THEN 0 ELSE i) /\ j % size = (IF j = size THEN 0 ELSE j)
    BY <1>1, SlotOf
  <2>2. (IF i = size THEN 0 ELSE i) = (IF j = size THEN 0 ELSE j)
    BY <2>1
  <2> QED BY ONLY <2>2, size \in Nat \ {0}, i \in 1 .. n, j \in 1 .. n, n \in Nat
<1>3. f \in [1 .. n -> S] /\ \A s \in S : \E i \in 1 .. n : f[i] = s
  OBVIOUS
<1>4. f \in Bijection(1 .. n, S)
  BY <1>2, <1>3 DEF Bijection, Injection, Surjection, IsInjective
<1>5. ExistsBijection(1 .. n, S)
  BY <1>4 DEF ExistsBijection
<1>6. IsFiniteSet(1 .. n) /\ Cardinality(1 .. n) = n
  BY FS_Interval
<1> QED BY <1>5, <1>6, FS_Bijection

\* The invariant holds after the startup script.
LEMMA InitInv == Init => IInv
<1> SUFFICES ASSUME NEW order \in SetToSeqs(Initial), StartedSystem(order) PROVE IInv
  BY DEF Init
<1>1. PICK n \in Nat :
        /\ n <= MaxApps /\ n <= MaxTasks
        /\ order \in [1 .. n -> Names]
        /\ \A i, j \in 1 .. n : order[i] = order[j] => i = j
        /\ AfterScript(order, n) /\ TablesTyped /\ WorkTyped
  BY ScriptRun
<1>2. /\ lastAppId = n /\ lastOsTask = n /\ registeredApps = n /\ registeredTasks = n
      /\ resources = {} /\ forced = {} /\ StartedApps(order, n) /\ StartedTasks(order, n)
  BY <1>1 DEF AfterScript
<1>3. \A p \in Creators : create[p].pc = "idle" /\ create[p].task = Free
  BY <1>1 DEF AfterScript, NoCreate
<1>4. bg.pc = "idle" /\ bg.left = {} /\ bg.list = <<>> /\ ~Cleaning
  BY <1>1 DEF AfterScript, NoWork, Cleaning
<1>5. FieldTypes
  BY <1>1, Fields
<1>a. \A s \in AppSlots :
        /\ appTable[s].id \in 0 .. n /\ appTable[s].main = appTable[s].id
        /\ appTable[s].id # 0 => LocateAppRecordByID(appTable[s].id) = s /\ appTable[s].name = order[appTable[s].id]
  BY <1>2, <1>5 DEF StartedApps, Free, FieldTypes
<1>b. \A i \in 1 .. n : LocateAppRecordByID(i) \in AppSlots /\ appTable[LocateAppRecordByID(i)].id = i
  <2> SUFFICES ASSUME NEW i \in 1 .. n
               PROVE  LocateAppRecordByID(i) \in AppSlots /\ appTable[LocateAppRecordByID(i)].id = i
    OBVIOUS
  <2>1. LocateAppRecordByID(i) \in AppSlots
    BY Slots
  <2>2. PICK j \in 1 .. n : LocateAppRecordByID(j) = LocateAppRecordByID(i)
                            /\ appTable[LocateAppRecordByID(i)].id = j
    BY <1>2, <2>1 DEF StartedApps
  <2>3. i % MaxApps = j % MaxApps
    BY <2>2 DEF LocateAppRecordByID
  <2>4. i \in 1 .. MaxApps /\ j \in 1 .. MaxApps
    BY <1>1, Sizes
  <2>5. (IF i = MaxApps THEN 0 ELSE i) = (IF j = MaxApps THEN 0 ELSE j)
    BY <2>3, <2>4, SlotOf, Sizes
  <2>6. i = j
    BY ONLY <2>4, <2>5, Sizes
  <2> QED BY <2>1, <2>2, <2>6
<1>t. \A s \in TaskSlots :
        \/ taskTable[s].id = 0 /\ taskTable[s].app = 0 /\ osTasks[s].id = 0 /\ osTasks[s].child = 0
        \/ \E i \in 1 .. n : 
             /\ LocateTaskRecordByID(i) = s /\ taskTable[s].id = i /\ taskTable[s].app = i
             /\ osTasks[s].id = i /\ osTasks[s].app = i /\ osTasks[s].child = 0 /\ osTasks[s].pc = "loop"
  BY <1>2 DEF StartedTasks, Free
<1>c. \A s \in TaskSlots :
        /\ taskTable[s].id \in 0 .. n /\ taskTable[s].app = taskTable[s].id
        /\ osTasks[s].id = taskTable[s].id /\ osTasks[s].child = 0
        /\ taskTable[s].id # 0 =>
             /\ LocateTaskRecordByID(taskTable[s].id) = s /\ osTasks[s].app = taskTable[s].id
             /\ osTasks[s].pc = "loop"
  BY <1>t
<1>u. \A s \in TaskSlots : taskTable[s].id # 0 =>
        /\ osTasks[s].name = order[taskTable[s].id]
        /\ taskTable[s] = [id |-> taskTable[s].id, app |-> taskTable[s].id]
  <2> SUFFICES ASSUME NEW s \in TaskSlots, taskTable[s].id # 0
      PROVE  /\ osTasks[s].name = order[taskTable[s].id]
             /\ taskTable[s] = [id |-> taskTable[s].id, app |-> taskTable[s].id]
    OBVIOUS
  <2>1. PICK i \in 1 .. n : taskTable[s] = [id |-> i, app |-> i] /\ taskTable[s].id = i /\ osTasks[s].name = order[i]
    BY <1>2 DEF StartedTasks, Free
  <2> QED BY <2>1
<1>d. \A i \in 1 .. n : LocateTaskRecordByID(i) \in TaskSlots /\ taskTable[LocateTaskRecordByID(i)].id = i
  <2> SUFFICES ASSUME NEW i \in 1 .. n
               PROVE  LocateTaskRecordByID(i) \in TaskSlots /\ taskTable[LocateTaskRecordByID(i)].id = i
    OBVIOUS
  <2>1. LocateTaskRecordByID(i) \in TaskSlots
    BY Slots
  <2>2. PICK j \in 1 .. n : LocateTaskRecordByID(j) = LocateTaskRecordByID(i)
                            /\ taskTable[LocateTaskRecordByID(i)].id = j
    BY <1>2, <2>1 DEF StartedTasks
  <2>3. i % MaxTasks = j % MaxTasks
    BY <2>2 DEF LocateTaskRecordByID
  <2>4. i \in 1 .. MaxTasks /\ j \in 1 .. MaxTasks
    BY <1>1, Sizes
  <2>5. (IF i = MaxTasks THEN 0 ELSE i) = (IF j = MaxTasks THEN 0 ELSE j)
    BY <2>3, <2>4, SlotOf, Sizes
  <2>6. i = j
    BY ONLY <2>4, <2>5, Sizes
  <2> QED BY <2>1, <2>2, <2>6
<1>6. AppIds /\ TaskIds /\ OsIds /\ CreateIds /\ BgIds
  <2>1. AppIds
    BY <1>1, <1>2, <1>a DEF AppIds, Free
  <2>2. TaskIds
    BY <1>1, <1>2, <1>c DEF TaskIds, Free
  <2>3. OsIds
    BY <1>1, <1>2, <1>c DEF OsIds, Free
  <2>4. CreateIds /\ BgIds
    BY <1>2, <1>3, <1>4 DEF CreateIds, BgIds, Free, Creators
  <2> QED BY <2>1, <2>2, <2>3, <2>4
<1>7. RecordsTrue /\ ReservedListed
  BY <1>c DEF RecordsTrue, ReservedListed, Free, Reserved
<1>8. Awaited /\ AwaitedOnce
  BY <1>3, <1>c DEF Awaited, AwaitedOnce, CreatorAwaits, ParentAwaits, Free
<1>9. CreatesHoldSlot /\ CleanupHoldsSlot /\ HoldersApart /\ ReservedHeld
  BY <1>3, <1>4, <1>a DEF CreatesHoldSlot, CleanupHoldsSlot, HoldersApart, ReservedHeld, Reserved
<1>10. NamesApart
  <2> SUFFICES ASSUME NEW s \in AppSlots, NEW q \in AppSlots, appTable[s].id # 0, appTable[q].id # 0,
                      appTable[s].name = appTable[q].name
               PROVE  s = q
    BY DEF NamesApart, IsUsed, Free
  <2>1. PICK i \in 1 .. n : i = appTable[s].id /\ LocateAppRecordByID(i) = s /\ appTable[s].name = order[i]
    BY <1>a
  <2>2. PICK j \in 1 .. n : j = appTable[q].id /\ LocateAppRecordByID(j) = q /\ appTable[q].name = order[j]
    BY <1>a
  <2>3. i = j
    BY <1>1, <2>1, <2>2
  <2> QED BY <2>1, <2>2, <2>3
<1>11. MainsNamed
  <2> SUFFICES ASSUME NEW s \in TaskSlots, osTasks[s].id # Free
               PROVE  LET rec == appTable[LocateAppRecordByID(osTasks[s].app)]
                      IN  IsUsed(rec) /\ rec.name = osTasks[s].name /\ rec.main = osTasks[s].id
    BY DEF MainsNamed
  <2>0. PICK i \in 1 .. n : i = osTasks[s].id /\ osTasks[s].app = i /\ taskTable[s].id = i
    BY <1>c DEF Free
  <2>a. taskTable[s].id # 0
    BY <2>0
  <2>b. osTasks[s].name = order[taskTable[s].id]
    BY <1>u, <2>a
  <2>1. i = osTasks[s].id /\ osTasks[s].app = i /\ osTasks[s].name = order[i]
    BY <2>0, <2>b
  <2>2. appTable[LocateAppRecordByID(i)].id = i /\ LocateAppRecordByID(i) \in AppSlots
    BY <1>b
  <2>3. appTable[LocateAppRecordByID(i)].name = order[i] /\ appTable[LocateAppRecordByID(i)].main = i
    BY <1>a, <2>2
  <2> QED BY <2>1, <2>2, <2>3 DEF IsUsed, Free
<1>12. MainsRecorded
  <2>1. ASSUME NEW q \in AppSlots, appTable[q].id > Free
        PROVE  MainRecorded(appTable[q].main, appTable[q].id)
    <3>1. PICK i \in 1 .. n : i = appTable[q].id /\ i = appTable[q].main
      BY <1>a, <2>1 DEF Free
    <3>2. taskTable[LocateTaskRecordByID(i)] = [id |-> i, app |-> i]
      BY <1>d, <1>u
    <3> QED BY <3>1, <3>2 DEF MainRecorded
  <2> QED BY <1>3, <2>1 DEF MainsRecorded
<1>13. MainListed /\ LeftOvers
  BY <1>4 DEF MainListed, LeftOvers
<1>14. TasksInContext
  <2> SUFFICES ASSUME NEW s \in TaskSlots, osTasks[s].id # Free PROVE InContext(s)
    BY DEF TasksInContext
  <2>1. PICK i \in 1 .. n : i = osTasks[s].id /\ taskTable[s].id = i /\ taskTable[s].app = i
    BY <1>c DEF Free
  <2> QED BY <1>b, <2>1 DEF InContext
<1>15. Core
  BY <1>7, <1>8, <1>9, <1>10, <1>11, <1>12, <1>13, <1>14 DEF Core
<1>16. ListIds /\ HistoryIds /\ ResourcesReleased
  BY <1>2, <1>4 DEF ListIds, HistoryIds, ResourcesReleased
<1>17. RegisteredExact
  <2>1. CountedApps = {i % MaxApps : i \in 1 .. n}
    <3>1. CountedApps \subseteq {LocateAppRecordByID(i) : i \in 1 .. n}
      BY <1>a DEF CountedApps, Free
    <3>2. {LocateAppRecordByID(i) : i \in 1 .. n} \subseteq CountedApps
      BY <1>b DEF CountedApps, Free
    <3> QED BY <3>1, <3>2 DEF LocateAppRecordByID
  <2>2. CountedTasks = {i % MaxTasks : i \in 1 .. n}
    <3>1. CountedTasks \subseteq {LocateTaskRecordByID(i) : i \in 1 .. n}
      BY <1>c DEF CountedTasks, Free
    <3>2. {LocateTaskRecordByID(i) : i \in 1 .. n} \subseteq CountedTasks
      BY <1>d DEF CountedTasks, Free
    <3> QED BY <3>1, <3>2 DEF LocateTaskRecordByID
  <2>3. Cardinality(CountedApps) = n
    BY <1>1, <2>1, CountScript, Sizes
  <2>4. Cardinality(CountedTasks) = n
    BY <1>1, <2>2, CountScript, Sizes
  <2> QED BY <1>2, <2>3, <2>4, Counts
<1> QED BY <1>1, <1>6, <1>15, <1>16, <1>17 DEF IInv, Ids

-----------------------------------------------------------------------------
(* The invariant is inductive, given that a task's first poll comes after    *)
(* the AppCreate that made it has ended.                                     *)
LEMMA InvStep ==
  ASSUME IInv, [Next]_vars, PollOutlastsCreate
  PROVE  IInv'
<1>1. CASE UNCHANGED vars
  <2>1. TablesTyped' /\ WorkTyped'
    BY <1>1 DEF IInv, vars, tables, os, TablesTyped, WorkTyped
  <2>2. TablesKept
    <3>1. UNCHANGED <<appTable, osTasks, bg, taskTable, create, forced, lastAppId, lastOsTask>>
      BY <1>1 DEF vars, tables, os, history
    <3> QED BY <3>1, Quiet, SameQuiet DEF IInv
  <2>3. BgIds' /\ ListIds'
    BY <1>1 DEF IInv, vars, tables, os, Ids, BgIds, ListIds, Cleaning
  <2>4. HistoryIds' /\ RegisteredExact' /\ ResourcesReleased'
    BY <1>1 DEF IInv, vars, tables, history, HistoryIds, RegisteredExact, ResourcesReleased, AppRecordIsMatch
  <2> QED BY <2>1, <2>2, <2>3, <2>4 DEF IInv, Ids, TablesKept
<1>2. CASE Next
  <2>1. TablesTyped' /\ WorkTyped'
    BY <1>2, CommandTypes, BackgroundTypes, AppTaskTypes DEF Next, IInv
  <2>2. TablesKept
    BY <1>2, CommandCore, BackgroundCore, AppTaskCore DEF Next, IInv
  <2>3. BgIds' /\ ListIds'
    BY <1>2, <2>1, WorkStep DEF IInv
  <2>4. HistoryIds' /\ ResourcesReleased'
    BY <1>2, <2>1, HistoryStep DEF IInv
  <2>5. RegisteredExact'
    BY <1>2, CountStep DEF IInv
  <2> QED BY <2>1, <2>2, <2>3, <2>4, <2>5 DEF IInv, Ids, TablesKept
<1> QED BY <1>1, <1>2

\* The invariant holds in every reachable state.
LEMMA Invariance == ASSUME PollOutlastsCreate PROVE Spec => []IInv
BY InitInv, InvStep, PTL DEF Spec

\* The invariant implies the types.
LEMMA InvType == IInv => TypeOK
<1> SUFFICES ASSUME IInv PROVE TypeOK
  OBVIOUS
<1>0. FieldTypes /\ AppIds /\ TaskIds /\ cmds \in 0 .. MaxCmds /\ scan \in ScanRec
      /\ appTable \in [AppSlots -> AppRec]
  BY Fields DEF IInv, Ids, WorkTyped, TablesTyped
<1>1. ASSUME NEW s \in AppSlots
      PROVE  /\ appTable[s].id \in {Free, Reserved} \cup {i \in 1 .. lastAppId : i % MaxApps = s}
             /\ appTable[s].main \in 0 .. lastOsTask
  BY <1>0 DEF AppIds, LocateAppRecordByID, FieldTypes
<1>2. ASSUME NEW s \in AppSlots
      PROVE  /\ appTable[s].state \in AppStates /\ appTable[s].req \in Requests
             /\ appTable[s].timer \in 0 .. KillTimeout * ScanRate
             /\ appTable[s].file \in Files \cup {NoFile}
  BY <1>0 DEF AppRec
<1>3. ASSUME NEW s \in TaskSlots
      PROVE  /\ taskTable[s].id \in {Free, Reserved} \cup {i \in 1 .. lastOsTask : i % MaxTasks = s}
             /\ taskTable[s].app \in 0 .. lastAppId
  BY <1>0 DEF TaskIds, LocateTaskRecordByID, FieldTypes
<1>4. registeredApps \in 0 .. MaxApps
  <2>1. CountedApps \in SUBSET AppSlots
    BY DEF CountedApps
  <2> QED BY <2>1, CountSlots, Counts DEF IInv
<1>5. registeredTasks \in 0 .. MaxTasks
  <2>1. CountedTasks \in SUBSET (0 .. MaxTasks - 1)
    BY DEF CountedTasks, TaskSlots
  <2>2. IsFiniteSet(0 .. MaxTasks - 1) /\ Cardinality(0 .. MaxTasks - 1) = MaxTasks
    BY Sizes, FS_Interval
  <2>3. IsFiniteSet(CountedTasks) /\ Cardinality(CountedTasks) <= MaxTasks
    BY <2>1, <2>2, FS_Subset
  <2>4. Cardinality(CountedTasks) \in Nat
    BY <2>3, FS_CardinalityType
  <2> QED BY <2>3, <2>4, Counts, Sizes DEF IInv
<1>6. scan.pending \in 0 .. MaxApps /\ scan.timer \in 1 .. ScanRate
  BY <1>0 DEF ScanRec
<1>7. /\ \A i \in DOMAIN bg.list : bg.list[i] \in 1 .. lastAppId
      /\ resources \cup forced \subseteq 1 .. lastAppId
  BY DEF IInv, ListIds, HistoryIds
<1> QED BY <1>0, <1>1, <1>2, <1>3, <1>4, <1>5, <1>6, <1>7 DEF TypeOK

\* A named task is the main task of the one application of its name.
LEMMA InvOneInstance == IInv => OneInstance
<1> SUFFICES ASSUME IInv, NEW t \in LiveTasks, NEW u \in LiveTasks,
                    Named(LocateTaskRecordByID(t)), OsTask(t).name = OsTask(u).name
             PROVE  t = u
  BY DEF OneInstance, Named, OsTask
<1>0. TablesTyped /\ Ids /\ OsIds /\ Core /\ FieldTypes
  BY Fields DEF IInv, Ids
<1>1. PICK x \in TaskSlots, y \in TaskSlots : x = LocateTaskRecordByID(t) /\ y = LocateTaskRecordByID(u)
  BY <1>0, LiveTask
<1>2. osTasks[x].id = t /\ osTasks[y].id = u /\ t \in Nat \ {0} /\ u \in Nat \ {0}
  BY <1>0, <1>1, LiveTask
<1>3. Named(x) /\ Named(y) /\ osTasks[x].name = osTasks[y].name
  BY <1>1 DEF OsTask, Named
<1>4. PICK a \in Nat, b \in Nat : a = osTasks[x].app /\ b = osTasks[y].app
  BY <1>0 DEF FieldTypes
<1>5. PICK q \in AppSlots, r \in AppSlots : q = LocateAppRecordByID(a) /\ r = LocateAppRecordByID(b)
  BY Slots
<1>6. /\ IsUsed(appTable[q]) /\ appTable[q].name = osTasks[x].name
      /\ appTable[q].main = t \/ \E p \in Creators : CreatorAwaits(p, t)
  BY <1>0, <1>2, <1>3, <1>4, <1>5 DEF Core, MainsNamed, Free
<1>7. /\ IsUsed(appTable[r]) /\ appTable[r].name = osTasks[y].name
      /\ appTable[r].main = u \/ \E p \in Creators : CreatorAwaits(p, u)
  BY <1>0, <1>2, <1>3, <1>4, <1>5 DEF Core, MainsNamed, Free
<1>8. q = r
  BY <1>0, <1>3, <1>6, <1>7 DEF Core, NamesApart
<1>9. ASSUME NEW p \in Creators, CreatorAwaits(p, t)
      PROVE  create[p].pc = "register" /\ create[p].task = t /\ LocateAppRecordByID(create[p].id) = q
             /\ appTable[q].main = Free
  <2>1. create[p].pc = "register" /\ create[p].task = t /\ create[p].id = a
    BY <1>0, <1>1, <1>4, <1>9 DEF CreatorAwaits, Core, Awaited, Unregistered, OsTask
  <2> QED BY <1>0, <1>5, <2>1 DEF Core, CreatesHoldSlot
<1>10. ASSUME NEW p \in Creators, CreatorAwaits(p, u)
      PROVE  create[p].pc = "register" /\ create[p].task = u /\ LocateAppRecordByID(create[p].id) = r
             /\ appTable[r].main = Free
  <2>1. create[p].pc = "register" /\ create[p].task = u /\ create[p].id = b
    BY <1>0, <1>1, <1>4, <1>10 DEF CreatorAwaits, Core, Awaited, Unregistered, OsTask
  <2> QED BY <1>0, <1>5, <2>1 DEF Core, CreatesHoldSlot
<1>11. CASE appTable[q].main = t
  BY <1>2, <1>7, <1>8, <1>10, <1>11 DEF Free
<1>12. CASE \E p \in Creators : CreatorAwaits(p, t)
  <2>1. PICK p \in Creators : CreatorAwaits(p, t)
    BY <1>12
  <2>2. PICK c \in Creators : CreatorAwaits(c, u)
    BY <1>2, <1>7, <1>8, <1>9, <2>1 DEF Free
  <2>3. p = c
    BY <1>0, <1>8, <1>9, <1>10, <2>1, <2>2 DEF Core, HoldersApart
  <2> QED BY <1>9, <1>10, <2>1, <2>2, <2>3
<1> QED BY <1>6, <1>11, <1>12

\* The invariant implies that every task belongs to an application.
LEMMA InvNoOrphan == IInv => NoOrphanTask
BY LiveContext DEF IInv, NoOrphanTask

-----------------------------------------------------------------------------
(* The hypothesis of the theorems is the delay in CFE_ES_GetTaskFunction:    *)
(* the first poll of a new task comes after the AppCreate that made it.      *)

(* The tables, the work of the background task and the history keep their    *)
(* types and ranges through every step of the command, background and        *)
(* application tasks.                                                        *)
THEOREM ESTypeCorrect == ASSUME PollOutlastsCreate PROVE Spec => []TypeOK
BY Invariance, InvType, PTL

(* RegisteredExternalApps and RegisteredTasks always count the records that  *)
(* hold an id: no race between CFE_ES_CleanUpApp, CFE_ES_ExitChildTask,      *)
(* CFE_ES_DeleteChildTask and CFE_ES_AppCreate counts a record twice or not  *)
(* at all.                                                                   *)
THEOREM CountsExact == ASSUME PollOutlastsCreate PROVE Spec => []RegisteredExact
<1>1. IInv => RegisteredExact
  BY DEF IInv
<1> QED BY <1>1, Invariance, PTL

(* CFE_ES_AppCreate never starts a second main task under a name whose first *)
(* one still exists, even while that one is being cleaned up.                *)
THEOREM NeverTwice == ASSUME PollOutlastsCreate PROVE Spec => []OneInstance
BY Invariance, InvOneInstance, PTL

(* A task past its entry point finds its own record and its application's,   *)
(* or is on the list of the CFE_ES_CleanUpApp that is going to delete it.    *)
THEOREM NoneOrphaned == ASSUME PollOutlastsCreate PROVE Spec => []NoOrphanTask
BY Invariance, InvNoOrphan, PTL

(* What an application allocated in another service is released by its       *)
(* clean-up, unless a task of it still ran when CFE_ES_CleanUpApp began.     *)
THEOREM AllReleased == ASSUME PollOutlastsCreate PROVE Spec => []ResourcesReleased
<1>1. IInv => ResourcesReleased
  BY DEF IInv
<1> QED BY <1>1, Invariance, PTL
=============================================================================
