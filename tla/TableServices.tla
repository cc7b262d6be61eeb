--------------------------- MODULE TableServices ---------------------------
(***************************************************************************)
(* cFE Table Services (cfe/modules/tbl): parameter tables that             *)
(* applications own or share, that the ground reloads while they are in    *)
(* use, and the TBL task that executes the ground's commands.              *)
(*                                                                         *)
(* The API runs on the stack of the calling application, the commands in   *)
(* the TBL task and CFE_TBL_CleanUpApp in the ES task.  One action is one  *)
(* region under the registry mutex; where the code works outside it        *)
(* (CFE_TBL_Load, CFE_TBL_LoadCmd, CFE_TBL_Validate) it is split at the    *)
(* file read and at the call of the validation function.                   *)
(*                                                                         *)
(* Abstractions.  The contents of a buffer are one image; a file is the    *)
(* image a read leaves behind and whether the read succeeded, so partial,  *)
(* short, incomplete and overlong files are all covered by the choice of   *)
(* the two.  The list of access descriptors of a table is the set of       *)
(* handles that refer to it.  Validation results and dump control blocks   *)
(* are named by their index: the "last id" counters of both tables are set *)
(* once (cfe_tbl_task.c:203-204), so ids are reused at once.               *)
(* LoadBuffs[-1], which the housekeeping command writes when a load is no  *)
(* longer in progress, lies outside the modelled state.  User defined      *)
(* addresses, critical tables (CDS), NotifyByMessage and CFE_TBL_Modified  *)
(* are left out.                                                           *)
(***************************************************************************)
EXTENDS Integers, FiniteSets, FiniteSetsExt

CONSTANTS
  Apps,            \* applications
  NoApp,           \* CFE_TBL_NOT_OWNED
  Tables,          \* full table names
  OwnerOf,         \* the application that registers each table
  DoubleBuffered,  \* tables registered with CFE_TBL_OPT_DBL_BUFFER
  DumpOnly,        \* tables registered with CFE_TBL_OPT_DUMP_ONLY
  HasValidation,   \* tables registered with a validation function
  Images,          \* contents of a table; 0 is all zeros
  ValidImages,     \* the images the validation functions accept
  NoImage,         \* history: the holder of a handle has not read the table
  MaxTables,       \* CFE_PLATFORM_TBL_MAX_NUM_TABLES
  MaxHandles,      \* CFE_PLATFORM_TBL_MAX_NUM_HANDLES
  MaxLoads,        \* CFE_PLATFORM_TBL_MAX_SIMULTANEOUS_LOADS
  MaxVals,         \* CFE_PLATFORM_TBL_MAX_NUM_VALIDATIONS
  Reloads,         \* tables whose owner calls CFE_TBL_Load again after the first load
  Unregisters,     \* tables whose owner calls CFE_TBL_Unregister
  Exits            \* applications that exit and start again

ASSUME TBLAssumption ==
  /\ Tables # {} /\ NoApp \notin Apps /\ NoImage \notin Images
  /\ OwnerOf \in [Tables -> Apps]
  /\ DoubleBuffered \cap DumpOnly = {}     \* CFE_TBL_ValidateTableOptions
  /\ DoubleBuffered \subseteq Tables /\ DumpOnly \subseteq Tables
  /\ HasValidation \subseteq Tables
  /\ 0 \in Images /\ ValidImages \subseteq Images
  /\ MaxTables \in Nat \ {0} /\ MaxHandles \in Nat \ {0}
  /\ MaxLoads \in Nat \ {0} /\ MaxVals \in Nat \ {0}
  /\ Reloads \subseteq Tables /\ Unregisters \subseteq Tables /\ Exits \subseteq Apps

VARIABLES
  Registry,            \* CFE_TBL_Global.Registry, without the buffers
  Handles,             \* CFE_TBL_Global.Handles
  Buffers,             \* contents of the tables' buffers and of LoadBuffs
  Taken,               \* LoadBuffs[i].Taken
  ValidationResults,   \* state of each validation result block
  DumpControlBlocks,   \* dump control blocks
  task,                \* where each application is in its API call
  tblTask,             \* where the TBL task is in CFE_TBL_LoadCmd
  seen                 \* history: the image each handle's holder has last read

vars == <<Registry, Handles, Buffers, Taken, ValidationResults,
          DumpControlBlocks, task, tblTask, seen>>

NONE   == -1   \* CFE_TBL_NO_LOAD_IN_PROGRESS, an undefined id
SHARED == -1   \* the "table" of the shared load buffers

Regs   == 0..(MaxTables - 1)
Hdls   == 0..(MaxHandles - 1)
Loads  == 0..(MaxLoads - 1)
Vals   == 0..(MaxVals - 1)
BufIds == (Regs \X {0, 1}) \cup ({SHARED} \X Loads)
NoBuf  == <<SHARED, NONE>>

EmptyBuffer == [img |-> 0, Validated |-> FALSE]

\* Plausible bug: the index of the active buffer starts like the other indices.
MutInitRegistryRecord ==
  [OwnerAppId |-> NoApp, Tbl |-> CHOOSE t \in Tables : TRUE,
   TableLoadedOnce |-> FALSE, LoadPending |-> FALSE,
   LoadInProgress |-> NONE, ActiveBufferIndex |-> NONE,
   ValidateActiveId |-> NONE, ValidateInactiveId |-> NONE, DumpControlId |-> NONE]

InitRegistryRecord ==
  [OwnerAppId |-> NoApp, Tbl |-> CHOOSE t \in Tables : TRUE,
   TableLoadedOnce |-> FALSE, LoadPending |-> FALSE,
   LoadInProgress |-> NONE, ActiveBufferIndex |-> 0,
   ValidateActiveId |-> NONE, ValidateInactiveId |-> NONE, DumpControlId |-> NONE]

FreeHandle == [UsedFlag |-> FALSE, AppId |-> NoApp, RegIndex |-> 0,
               LockFlag |-> FALSE, Updated |-> FALSE, BufferIndex |-> 0]

\* A dump control block that was never used; CFE_TBL_DumpCtrlBlockSetFree
\* leaves the buffer and the table of the last dump in a freed one.
FreeBlock == [State |-> "FREE", RegRec |-> 0, DumpBuffer |-> NoBuf]

DumpCtrlBlockSetFree(block) == [block EXCEPT !.State = "FREE"]

Idle == [op |-> "idle", reg |-> 0, buf |-> NoBuf, ok |-> FALSE, val |-> NONE]

Init ==
  /\ Registry = [r \in Regs |-> InitRegistryRecord]
  /\ Handles = [h \in Hdls |-> FreeHandle]
  /\ Buffers = [b \in BufIds |-> EmptyBuffer]
  /\ Taken = [i \in Loads |-> FALSE]
  /\ ValidationResults = [v \in Vals |-> "FREE"]
  /\ DumpControlBlocks = [d \in Loads |-> FreeBlock]
  /\ task = [a \in Apps |-> Idle]
  /\ tblTask = Idle
  /\ seen = [h \in Hdls |-> NoImage]
-----------------------------------------------------------------------------
(* Lookups.                                                                *)

IsDouble(r) == Registry[r].Tbl \in DoubleBuffered

HasValidationFunc(r) == Registry[r].Tbl \in HasValidation

Accessors(r) == {h \in Hdls : Handles[h].UsedFlag /\ Handles[h].RegIndex = r}

FindRegByName(t) ==
  {r \in Regs : Registry[r].OwnerAppId # NoApp /\ Registry[r].Tbl = t}

FreeRegistryEntries ==
  {r \in Regs : Registry[r].OwnerAppId = NoApp /\ Accessors(r) = {}}

FreeHandles == {h \in Hdls : ~Handles[h].UsedFlag}

GetActiveBuffer(r) ==
  <<r, IF IsDouble(r) THEN Registry[r].ActiveBufferIndex ELSE 0>>

\* The inactive buffer of r: at most one.
GetInactiveBuffer(r) ==
  CASE IsDouble(r) -> {<<r, 1 - Registry[r].ActiveBufferIndex>>}
    [] ~IsDouble(r) /\ Registry[r].LoadInProgress # NONE ->
         {<<SHARED, Registry[r].LoadInProgress>>}
    [] OTHER -> {}

GetSelectedBuffer(r, active) ==
  IF active THEN {GetActiveBuffer(r)} ELSE GetInactiveBuffer(r)

\* Plausible bug: the double-buffered load does not look for readers.
MutLocking(r, i) == {}

\* CFE_TBL_CheckInactiveBufferHelper: handles that hold buffer i of r.
Locking(r, i) ==
  {h \in Accessors(r) : Handles[h].LockFlag /\ Handles[h].BufferIndex = i}

\* A first load by the application goes straight to the active buffer.
LoadsInPlace(r, calledByApp) == calledByApp /\ ~Registry[r].TableLoadedOnce

\* Plausible bug: the search does not look at the Taken flags.
MutFreeLoadBuffs == Loads

FreeLoadBuffs == {i \in Loads : ~Taken[i]}

\* The working buffer CFE_TBL_GetWorkingBuffer returns: at most one.
WorkingBuffer(r, calledByApp) ==
  LET inactive == 1 - Registry[r].ActiveBufferIndex
  IN  CASE Registry[r].LoadInProgress # NONE -> GetInactiveBuffer(r)
        [] Registry[r].LoadInProgress = NONE /\ LoadsInPlace(r, calledByApp) ->
             {GetActiveBuffer(r)}
        [] Registry[r].LoadInProgress = NONE /\ ~LoadsInPlace(r, calledByApp) /\ IsDouble(r) ->
             IF Locking(r, inactive) = {} THEN {<<r, inactive>>} ELSE {}
        [] OTHER ->
             IF FreeLoadBuffs = {} THEN {} ELSE {<<SHARED, Min(FreeLoadBuffs)>>}

\* CFE_TBL_GetWorkingBuffer: buf is the result; a buffer that is allocated now
\* starts as a copy of the active image.  dump is the table's DumpControlId.
GetWorkingBuffer(r, calledByApp, buf, dump) ==
  LET allocates == /\ Registry[r].LoadInProgress = NONE
                   /\ ~LoadsInPlace(r, calledByApp)
  IN  /\ buf \in WorkingBuffer(r, calledByApp)
      /\ Registry' = [Registry EXCEPT
           ![r].LoadInProgress = IF allocates THEN buf[2] ELSE @,
           ![r].DumpControlId  = dump]
      /\ Taken' = [i \in Loads |-> Taken[i] \/ (allocates /\ buf = <<SHARED, i>>)]
      /\ Buffers' = IF allocates
                    THEN [Buffers EXCEPT ![buf].img = Buffers[GetActiveBuffer(r)].img]
                    ELSE Buffers
-----------------------------------------------------------------------------
(* Registration.                                                           *)

\* a may call the API: it is running and its task is not inside a call.
Ready(a) == task[a].op = "idle"

AllocateHandle(h, a, r, updated) ==
  /\ Handles' = [Handles EXCEPT ![h] = [@ EXCEPT
       !.UsedFlag = TRUE, !.AppId = a, !.RegIndex = r,
       !.LockFlag = FALSE, !.Updated = updated]]
  /\ seen' = [seen EXCEPT ![h] = NoImage]

\* CFE_TBL_Register; a duplicate registration by the owner changes nothing.
Register(a, t) ==
  /\ Ready(a) /\ OwnerOf[t] = a
  /\ FindRegByName(t) = {} /\ FreeRegistryEntries # {} /\ FreeHandles # {}
  /\ LET r == Min(FreeRegistryEntries)
     IN  /\ AllocateHandle(Min(FreeHandles), a, r, FALSE)
         /\ Registry' = [Registry EXCEPT ![r] = [InitRegistryRecord EXCEPT
              !.OwnerAppId = a, !.Tbl = t, !.TableLoadedOnce = t \in DumpOnly]]
         /\ Buffers' = [b \in BufIds |-> IF b[1] = r THEN EmptyBuffer ELSE Buffers[b]]
  /\ UNCHANGED <<Taken, ValidationResults, DumpControlBlocks, task, tblTask>>

\* CFE_TBL_Share.  An application asks for each table once.
Share(a, t) ==
  /\ Ready(a) /\ FreeHandles # {}
  /\ \E r \in FindRegByName(t) :
       /\ \A h \in Accessors(r) : Handles[h].AppId # a
       /\ AllocateHandle(Min(FreeHandles), a, r, Registry[r].TableLoadedOnce)
  /\ UNCHANGED <<Registry, Buffers, Taken, ValidationResults, DumpControlBlocks,
                 task, tblTask>>

\* CFE_TBL_TxnRemoveAccessLink: the last link takes the shared buffer with it.
\* disowned: the owner gave the table up in the same transaction.
RemoveAccessLink(h, disowned) ==
  LET r    == Handles[h].RegIndex
      lip  == Registry[r].LoadInProgress
      free == Accessors(r) = {h} /\ ~IsDouble(r) /\ lip # NONE
  IN  /\ Registry' = [Registry EXCEPT
           ![r].OwnerAppId     = IF disowned THEN NoApp ELSE @,
           ![r].LoadInProgress = IF free THEN NONE ELSE @]
      /\ Taken' = [i \in Loads |-> Taken[i] /\ ~(free /\ i = lip)]

\* UsedFlag = false; nothing reads the other fields of a free descriptor.
ReleaseHandle(h) ==
  /\ Handles' = [Handles EXCEPT ![h] = FreeHandle]
  /\ seen' = [seen EXCEPT ![h] = NoImage]

\* CFE_TBL_Unregister, by the owner or by an application that shares the table.
Unregister(a, h) ==
  LET r == Handles[h].RegIndex
  IN  /\ Ready(a) /\ Handles[h].UsedFlag /\ Handles[h].AppId = a
      /\ Registry[r].OwnerAppId = a => Registry[r].Tbl \in Unregisters
      /\ RemoveAccessLink(h, Registry[r].OwnerAppId = a)
      /\ ReleaseHandle(h)
      /\ UNCHANGED <<Buffers, ValidationResults, DumpControlBlocks, task, tblTask>>

\* CFE_ES_ExitApp: a makes no further call; ES cleans up after it.
Exit(a) ==
  /\ a \in Exits /\ Ready(a)
  /\ task' = [task EXCEPT ![a].op = "exit"]
  /\ UNCHANGED <<Registry, Handles, Buffers, Taken, ValidationResults,
                 DumpControlBlocks, tblTask, seen>>

\* CFE_TBL_CleanUpApp, first loop: dump requests of the tables a owns.
CleanUpDumps(a) ==
  /\ task[a].op = "exit"
  /\ DumpControlBlocks' = [d \in Loads |->
       IF /\ DumpControlBlocks[d].State # "FREE"
          /\ Registry[DumpControlBlocks[d].RegRec].OwnerAppId = a
       THEN DumpCtrlBlockSetFree(DumpControlBlocks[d]) ELSE DumpControlBlocks[d]]
  /\ task' = [task EXCEPT ![a].op = "cleanup"]
  /\ UNCHANGED <<Registry, Handles, Buffers, Taken, ValidationResults, tblTask, seen>>

HandlesOf(a) == {h \in Hdls : Handles[h].UsedFlag /\ Handles[h].AppId = a}

\* CFE_TBL_CleanUpApp, second loop: one handle, under the registry lock.
CleanUpHandle(a) ==
  /\ task[a].op = "cleanup" /\ HandlesOf(a) # {}
  /\ LET h == Min(HandlesOf(a))
     IN  /\ RemoveAccessLink(h, Registry[Handles[h].RegIndex].OwnerAppId = a)
         /\ ReleaseHandle(h)
  /\ UNCHANGED <<Buffers, ValidationResults, DumpControlBlocks, task, tblTask>>

\* The clean-up is over and the application is started again.
Restart(a) ==
  /\ task[a].op = "cleanup" /\ HandlesOf(a) = {}
  /\ task' = [task EXCEPT ![a] = Idle]
  /\ UNCHANGED <<Registry, Handles, Buffers, Taken, ValidationResults,
                 DumpControlBlocks, tblTask, seen>>
-----------------------------------------------------------------------------
(* Use of a table by the applications.                                     *)

\* TxnStartFromHandle with CFE_TBL_TxnContext_ACCESSOR_APP / OWNER_APP.
MayAccess(a, h) == Ready(a) /\ Handles[h].UsedFlag /\ Handles[h].AppId = a

MayOwn(a, h) == MayAccess(a, h) /\ Registry[Handles[h].RegIndex].OwnerAppId = a

\* CFE_TBL_GetAddress.  The holder reads the table from now on.
GetAddress(a, h) ==
  LET r == Handles[h].RegIndex
  IN  /\ MayAccess(a, h) /\ Registry[r].OwnerAppId # NoApp
      /\ Handles' = [Handles EXCEPT ![h].LockFlag = TRUE, ![h].Updated = FALSE,
                                    ![h].BufferIndex = Registry[r].ActiveBufferIndex]
      /\ seen' = [seen EXCEPT ![h] =
           IF Registry[r].TableLoadedOnce
           THEN Buffers[<<r, Registry[r].ActiveBufferIndex>>].img ELSE NoImage]
      /\ UNCHANGED <<Registry, Buffers, Taken, ValidationResults, DumpControlBlocks,
                     task, tblTask>>

\* CFE_TBL_ReleaseAddress.
ReleaseAddress(a, h) ==
  /\ MayAccess(a, h) /\ Handles[h].LockFlag
  /\ Handles' = [Handles EXCEPT ![h].LockFlag = FALSE]
  /\ UNCHANGED <<Registry, Buffers, Taken, ValidationResults, DumpControlBlocks,
                 task, tblTask, seen>>

\* Plausible bug: only the owner is told.
MutNotifyTblUsersOfUpdate(r) ==
  Handles' = [h \in Hdls |->
    IF h \in Accessors(r) /\ Handles[h].AppId = Registry[r].OwnerAppId
    THEN [Handles[h] EXCEPT !.Updated = TRUE] ELSE Handles[h]]

\* CFE_TBL_NotifyTblUsersOfUpdate.
NotifyTblUsersOfUpdate(r) ==
  Handles' = [h \in Hdls |-> IF h \in Accessors(r)
                             THEN [Handles[h] EXCEPT !.Updated = TRUE] ELSE Handles[h]]

\* Plausible bug: nobody looks at the locks.
MutNoLockCheck(r) == TRUE

\* Plausible bug: a table with two buffers waits for its readers as well.
MutUpdatable(r) == \A h \in Accessors(r) : ~Handles[h].LockFlag

\* CFE_TBL_UpdateInternal refuses a single-buffered table that anyone holds.
Updatable(r) == IsDouble(r) \/ \A h \in Accessors(r) : ~Handles[h].LockFlag

\* CFE_TBL_UpdateInternal of a load that is pending; pending is the value of
\* LoadPending, which CFE_TBL_Load has just set.
UpdateInternal(r, pending) ==
  LET lip == Registry[r].LoadInProgress
  IN  IF ~pending \/ lip = NONE \/ ~Updatable(r)
      THEN /\ Registry' = [Registry EXCEPT ![r].LoadPending = pending]
           /\ UNCHANGED <<Handles, Buffers, Taken>>
      ELSE /\ Registry' = [Registry EXCEPT
                ![r].LoadInProgress = NONE, ![r].LoadPending = FALSE,
                ![r].TableLoadedOnce = TRUE,
                ![r].ActiveBufferIndex = IF IsDouble(r) THEN lip ELSE @]
           /\ Buffers' = IF IsDouble(r) THEN Buffers
                         ELSE [Buffers EXCEPT ![<<r, 0>>].img = Buffers[<<SHARED, lip>>].img]
           /\ Taken' = [i \in Loads |-> Taken[i] /\ (IsDouble(r) \/ i # lip)]
           /\ NotifyTblUsersOfUpdate(r)

\* CFE_TBL_Update, which CFE_TBL_Manage calls for a pending load.
Update(a, h) ==
  LET r == Handles[h].RegIndex
  IN  /\ MayOwn(a, h) /\ Registry[r].LoadPending
      /\ UpdateInternal(r, TRUE)
      /\ UNCHANGED <<ValidationResults, DumpControlBlocks, task, tblTask, seen>>

\* CFE_TBL_Load up to the working buffer.
LoadStart(a, h) ==
  LET r == Handles[h].RegIndex
  IN  /\ MayOwn(a, h)
      /\ Registry[r].Tbl \notin DumpOnly
      /\ Registry[r].TableLoadedOnce => Registry[r].Tbl \in Reloads
      /\ Registry[r].LoadInProgress = NONE
      /\ \E buf \in BufIds :
           /\ GetWorkingBuffer(r, TRUE, buf, Registry[r].DumpControlId)
           /\ task' = [task EXCEPT ![a] = [Idle EXCEPT !.op = "fill", !.reg = r, !.buf = buf]]
      /\ UNCHANGED <<Handles, ValidationResults, DumpControlBlocks, tblTask, seen>>

\* CFE_TBL_LoadFromFile or the copy from memory; a read that fails has
\* overwritten the buffer as far as it got.
LoadFill(a) ==
  /\ task[a].op = "fill"
  /\ \E img \in Images, ok \in BOOLEAN :
       /\ Buffers' = [Buffers EXCEPT ![task[a].buf].img = img]
       /\ task' = [task EXCEPT ![a].op = "finish", ![a].ok = ok]
  /\ UNCHANGED <<Registry, Handles, Taken, ValidationResults, DumpControlBlocks,
                 tblTask, seen>>

\* The rest of CFE_TBL_Load after a failed read or validation.
LoadAbandon(a) ==
  LET r   == task[a].reg
      b   == task[a].buf
      bad == HasValidationFunc(r) /\ Buffers[b].img \notin ValidImages
  IN  /\ task[a].op = "finish" /\ (~task[a].ok \/ bad)
      /\ Buffers' = [Buffers EXCEPT ![b].img = IF task[a].ok THEN 0 ELSE @]
      /\ Taken' = [i \in Loads |-> Taken[i] /\
           ~(~IsDouble(r) /\ Registry[r].TableLoadedOnce /\ i = Registry[r].LoadInProgress)]
      /\ Registry' = [Registry EXCEPT ![r].LoadInProgress = NONE]
      /\ task' = [task EXCEPT ![a] = Idle]
      /\ UNCHANGED <<Handles, ValidationResults, DumpControlBlocks, tblTask, seen>>

\* The rest of CFE_TBL_Load after a successful read and validation: a first
\* load is in the active buffer already, another one is updated.
LoadComplete(a) ==
  LET r == task[a].reg
  IN  /\ task[a].op = "finish" /\ task[a].ok
      /\ HasValidationFunc(r) => Buffers[task[a].buf].img \in ValidImages
      /\ \/ /\ Registry[r].TableLoadedOnce
            /\ UpdateInternal(r, TRUE)
         \/ /\ ~Registry[r].TableLoadedOnce
            /\ Registry' = [Registry EXCEPT ![r].LoadInProgress = NONE,
                              ![r].LoadPending = FALSE, ![r].TableLoadedOnce = TRUE]
            /\ NotifyTblUsersOfUpdate(r)
            /\ UNCHANGED <<Buffers, Taken>>
      /\ task' = [task EXCEPT ![a] = Idle]
      /\ UNCHANGED <<ValidationResults, DumpControlBlocks, tblTask, seen>>

\* CFE_TBL_Validate, under the lock: the request for the inactive image comes
\* first.  A request is consumed even when its buffer is gone.
ValidateStart(a, h) ==
  LET r        == Handles[h].RegIndex
      inactive == Registry[r].ValidateInactiveId # NONE
      v        == IF inactive THEN Registry[r].ValidateInactiveId
                              ELSE Registry[r].ValidateActiveId
      bufs     == GetSelectedBuffer(r, ~inactive)
  IN  /\ MayOwn(a, h) /\ v # NONE
      /\ Registry' = IF inactive THEN [Registry EXCEPT ![r].ValidateInactiveId = NONE]
                                 ELSE [Registry EXCEPT ![r].ValidateActiveId = NONE]
      /\ task' = [task EXCEPT ![a] = [op |-> "validate", reg |-> r, val |-> v, ok |-> FALSE,
                    buf |-> IF bufs = {} THEN NoBuf ELSE CHOOSE b \in bufs : TRUE]]
      /\ UNCHANGED <<Handles, Buffers, Taken, ValidationResults, DumpControlBlocks,
                     tblTask, seen>>

\* The validation function runs outside the lock.
ValidateRun(a) ==
  LET b == task[a].buf
  IN  /\ task[a].op = "validate"
      /\ task' = [task EXCEPT ![a].op = "validated",
           ![a].ok = b # NoBuf /\ (HasValidationFunc(task[a].reg) => Buffers[b].img \in ValidImages)]
      /\ UNCHANGED <<Registry, Handles, Buffers, Taken, ValidationResults,
                     DumpControlBlocks, tblTask, seen>>

\* The result is stored outside the lock.
ValidateEnd(a) ==
  /\ task[a].op = "validated"
  /\ Buffers' = IF task[a].ok THEN [Buffers EXCEPT ![task[a].buf].Validated = TRUE] ELSE Buffers
  /\ ValidationResults' = [ValidationResults EXCEPT ![task[a].val] = "PERFORMED"]
  /\ task' = [task EXCEPT ![a] = Idle]
  /\ UNCHANGED <<Registry, Handles, Taken, DumpControlBlocks, tblTask, seen>>

\* CFE_TBL_TxnGetTableStatus = CFE_TBL_INFO_DUMP_PENDING.
DumpPending(r) ==
  /\ ~Registry[r].LoadPending
  /\ Registry[r].ValidateActiveId = NONE /\ Registry[r].ValidateInactiveId = NONE
  /\ Registry[r].DumpControlId # NONE

\* CFE_TBL_DumpToBuffer.  The clean-up of the owner may have freed the block: a
\* free block's State is not looked at again, its buffer is written all the same.
DumpToBuffer(a, h) ==
  LET r == Handles[h].RegIndex
      d == Registry[r].DumpControlId
  IN  /\ MayAccess(a, h) /\ DumpPending(r)
      /\ Buffers' = IF DumpControlBlocks[d].DumpBuffer = NoBuf THEN Buffers
                    ELSE [Buffers EXCEPT ![DumpControlBlocks[d].DumpBuffer].img =
                                            Buffers[GetActiveBuffer(r)].img]
      /\ Registry' = [Registry EXCEPT ![r].DumpControlId = NONE]
      /\ DumpControlBlocks' = [DumpControlBlocks EXCEPT
           ![d].State = IF @ = "FREE" THEN "FREE" ELSE "PERFORMED"]
      /\ UNCHANGED <<Handles, Taken, ValidationResults, task, tblTask, seen>>
-----------------------------------------------------------------------------
(* Ground commands, executed one at a time by the TBL task.                *)

TblReady == tblTask.op = "idle"

\* CFE_TBL_LoadCmd up to the working buffer.
LoadCmdStart(t) ==
  /\ TblReady /\ t \notin DumpOnly
  /\ \E r \in FindRegByName(t), buf \in BufIds :
       /\ ~Registry[r].LoadPending
       /\ GetWorkingBuffer(r, FALSE, buf, Registry[r].DumpControlId)
       /\ tblTask' = [Idle EXCEPT !.op = "load", !.reg = r, !.buf = buf]
  /\ UNCHANGED <<Handles, ValidationResults, DumpControlBlocks, task, seen>>

\* The validation flag after CFE_TBL_LoadCmd: a file that is incomplete or too
\* long has changed the buffer but not the flag.
LoadedFlag(r, b, ok) == IF ok THEN ~HasValidationFunc(r) ELSE Buffers[b].Validated

\* The rest of CFE_TBL_LoadCmd.
LoadCmdEnd ==
  LET b == tblTask.buf
  IN  /\ tblTask.op = "load"
      /\ \E img \in Images, ok \in BOOLEAN :
           Buffers' = [Buffers EXCEPT ![b] =
             [img |-> img, Validated |-> LoadedFlag(tblTask.reg, b, ok)]]
      /\ tblTask' = Idle
      /\ UNCHANGED <<Registry, Handles, Taken, ValidationResults, DumpControlBlocks,
                     task, seen>>

\* CFE_TBL_ValidateCmd.
ValidateCmd(t, active) ==
  LET free == {v \in Vals : ValidationResults[v] = "FREE"}
  IN  /\ TblReady /\ free # {}
      /\ \E r \in FindRegByName(t) :
           /\ GetSelectedBuffer(r, active) # {}
           /\ IF HasValidationFunc(r)
              THEN /\ ValidationResults' = [ValidationResults EXCEPT ![Min(free)] = "PENDING"]
                   /\ Registry' = IF active
                        THEN [Registry EXCEPT ![r].ValidateActiveId = Min(free)]
                        ELSE [Registry EXCEPT ![r].ValidateInactiveId = Min(free)]
              ELSE /\ ValidationResults' = [ValidationResults EXCEPT ![Min(free)] = "PERFORMED"]
                   /\ UNCHANGED Registry
      /\ UNCHANGED <<Handles, Buffers, Taken, DumpControlBlocks, task, tblTask, seen>>

\* CFE_TBL_ActivateCmd.
ActivateCmd(t) ==
  /\ TblReady /\ t \notin DumpOnly
  /\ \E r \in FindRegByName(t) :
       /\ Registry[r].LoadInProgress # NONE
       /\ \A b \in GetInactiveBuffer(r) : Buffers[b].Validated
       /\ Registry' = [Registry EXCEPT ![r].LoadPending = TRUE]
  /\ UNCHANGED <<Handles, Buffers, Taken, ValidationResults, DumpControlBlocks,
                 task, tblTask, seen>>

\* CFE_TBL_AbortLoadCmd.
AbortLoadCmd(t) ==
  /\ TblReady /\ t \notin DumpOnly
  /\ \E r \in FindRegByName(t) :
       /\ Registry[r].LoadInProgress # NONE
       /\ Taken' = [i \in Loads |-> Taken[i] /\ (IsDouble(r) \/ i # Registry[r].LoadInProgress)]
       /\ Registry' = [Registry EXCEPT ![r].LoadInProgress = NONE, ![r].LoadPending = FALSE]
  /\ UNCHANGED <<Handles, Buffers, ValidationResults, DumpControlBlocks, task, tblTask, seen>>

\* CFE_TBL_DumpCmd for a dump-only table; any other is written to the file at
\* once and changes nothing.
DumpCmd(t) ==
  LET free == {d \in Loads : DumpControlBlocks[d].State = "FREE"}
  IN  /\ TblReady /\ t \in DumpOnly /\ free # {}
      /\ \E r \in FindRegByName(t), buf \in BufIds :
           /\ Registry[r].DumpControlId = NONE
           /\ GetWorkingBuffer(r, FALSE, buf, Min(free))
           /\ DumpControlBlocks' = [DumpControlBlocks EXCEPT ![Min(free)] =
                [State |-> "PENDING", RegRec |-> r, DumpBuffer |-> buf]]
      /\ UNCHANGED <<Handles, ValidationResults, task, tblTask, seen>>

\* CFE_TBL_SendHkCmd: reports and frees one finished validation, then writes
\* the finished dumps to their files and frees what they occupy.
SendHkCmd ==
  LET done  == {v \in Vals : ValidationResults[v] = "PERFORMED"}
      dumps == {d \in Loads : DumpControlBlocks[d].State = "PERFORMED"}
      regs  == {DumpControlBlocks[d].RegRec : d \in dumps}
  IN  /\ TblReady
      /\ done # {} \/ dumps # {}
      /\ ValidationResults' = [v \in Vals |->
           IF done # {} /\ v = Min(done) THEN "FREE" ELSE ValidationResults[v]]
      /\ DumpControlBlocks' = [d \in Loads |->
           IF d \in dumps THEN DumpCtrlBlockSetFree(DumpControlBlocks[d]) ELSE DumpControlBlocks[d]]
      /\ Taken' = [i \in Loads |-> Taken[i] /\ \A r \in regs : Registry[r].LoadInProgress # i]
      /\ Registry' = [r \in Regs |->
           IF r \in regs THEN [Registry[r] EXCEPT !.LoadInProgress = NONE] ELSE Registry[r]]
      /\ UNCHANGED <<Handles, Buffers, task, tblTask, seen>>
-----------------------------------------------------------------------------
AppCall(a) ==
  \/ \E t \in Tables : Register(a, t) \/ Share(a, t)
  \/ \E h \in Hdls : \/ Unregister(a, h) \/ GetAddress(a, h) \/ ReleaseAddress(a, h)
                     \/ LoadStart(a, h)

\* What the owner does in every cycle (CFE_TBL_Manage).
Manage(a) == \E h \in Hdls : Update(a, h) \/ ValidateStart(a, h) \/ DumpToBuffer(a, h)

\* A call that has begun.
InCall(a) == \/ LoadFill(a) \/ LoadAbandon(a) \/ LoadComplete(a)
             \/ ValidateRun(a) \/ ValidateEnd(a)

CleanUpApp(a) == Exit(a) \/ CleanUpDumps(a) \/ CleanUpHandle(a) \/ Restart(a)

Command ==
  \/ \E t \in Tables : \/ LoadCmdStart(t) \/ ActivateCmd(t) \/ AbortLoadCmd(t) \/ DumpCmd(t)
                       \/ \E active \in BOOLEAN : ValidateCmd(t, active)
  \/ SendHkCmd

Next == \/ \E a \in Apps : AppCall(a) \/ Manage(a) \/ InCall(a) \/ CleanUpApp(a)
        \/ Command \/ LoadCmdEnd

Spec == Init /\ [][Next]_vars

\* A call that has begun is executed to its end, and an owner that keeps calling
\* CFE_TBL_Manage finds a pending load before a pending validation
\* (CFE_TBL_TxnGetTableStatus), so it cannot validate for ever instead.  Nothing
\* forces a reader to release a table.
UpdateStep(a) == \E h \in Hdls : Update(a, h)

FairSpec == Spec /\ \A a \in Apps : SF_vars(UpdateStep(a)) /\ WF_vars(InCall(a))
-----------------------------------------------------------------------------
(* Properties.                                                             *)

\* Types of the state (cfe_tbl_task.h).
TypeOK ==
  /\ Registry \in [Regs -> [OwnerAppId : Apps \cup {NoApp}, Tbl : Tables,
       TableLoadedOnce : BOOLEAN, LoadPending : BOOLEAN,
       LoadInProgress : {NONE, 0, 1} \cup Loads, ActiveBufferIndex : {0, 1},
       ValidateActiveId : Vals \cup {NONE}, ValidateInactiveId : Vals \cup {NONE},
       DumpControlId : Loads \cup {NONE}]]
  /\ Handles \in [Hdls -> [UsedFlag : BOOLEAN, AppId : Apps \cup {NoApp}, RegIndex : Regs,
       LockFlag : BOOLEAN, Updated : BOOLEAN, BufferIndex : {0, 1}]]
  /\ Buffers \in [BufIds -> [img : Images, Validated : BOOLEAN]]
  /\ Taken \in [Loads -> BOOLEAN]
  /\ ValidationResults \in [Vals -> {"FREE", "PENDING", "PERFORMED"}]
  /\ DumpControlBlocks \in [Loads -> [State : {"FREE", "PENDING", "PERFORMED"},
       RegRec : Regs, DumpBuffer : BufIds \cup {NoBuf}]]
  /\ task \in [Apps -> [op : {"idle", "fill", "finish", "validate", "validated", "exit", "cleanup"},
       reg : Regs, buf : BufIds \cup {NoBuf}, ok : BOOLEAN, val : Vals \cup {NONE}]]
  /\ tblTask \in [op : {"idle", "load"}, reg : Regs, buf : BufIds \cup {NoBuf},
       ok : BOOLEAN, val : {NONE}]
  /\ seen \in [Hdls -> Images \cup {NoImage}]

\* A shared load buffer that a single-buffered table loads or dumps through is
\* marked as taken and belongs to no other table.  CFE_TBL_GetWorkingBuffer,
\* the update, abort, dump and removal paths all allocate or free it.
LoadBuffersExclusive ==
  \A r \in Regs :
    (~IsDouble(r) /\ Registry[r].LoadInProgress # NONE) =>
      /\ Taken[Registry[r].LoadInProgress]
      /\ \A q \in Regs \ {r} : ~IsDouble(q) =>
           Registry[q].LoadInProgress # Registry[r].LoadInProgress

\* What an application reads through an address it got from CFE_TBL_GetAddress
\* does not change until it releases it, whatever the ground loads and
\* activates: CFE_TBL_UpdateInternal waits for the readers of a single-buffered
\* table, CFE_TBL_GetWorkingBuffer for those of the inactive buffer.
HeldImageStable ==
  [][\A h \in Hdls :
       LET b == <<Handles[h].RegIndex, Handles[h].BufferIndex>>
       IN  (/\ Handles[h].UsedFlag /\ Handles[h].LockFlag /\ seen[h] # NoImage
            /\ Handles'[h].UsedFlag /\ Handles'[h].LockFlag)
           => Buffers'[b].img = Buffers[b].img]_vars

\* A holder of a handle that is not told of an update (Updated is false) has
\* read the image that is active: no update is lost to any reader, in whatever
\* order they get the address, release it, and the table is loaded.
NoStaleReader ==
  \A h \in Hdls :
    LET r == Handles[h].RegIndex
    IN  (/\ Handles[h].UsedFlag /\ ~Handles[h].Updated /\ seen[h] # NoImage
         /\ Registry[r].OwnerAppId # NoApp)
        => seen[h] = Buffers[GetActiveBuffer(r)].img

\* An activated load of a double-buffered table is applied, or given up by an
\* abort or a failed load, although readers hold the table: only the
\* single-buffered update waits for them.
ActivatedLoadEnds ==
  \A r \in Regs :
    (/\ Registry[r].LoadPending /\ Registry[r].LoadInProgress # NONE
     /\ IsDouble(r) /\ Registry[r].OwnerAppId # NoApp) ~>
    (Registry[r].LoadInProgress = NONE \/ Registry[r].OwnerAppId = NoApp)

\* A load is pending only for an image that the validation function accepts.
\* cfe_tbl.dox:164-166: "The cFE will refuse to let a table with an associated
\* Validation Function be Activated until a successful Validation on the
\* Inactive table image has occurred."
ActivatedIsValidated ==
  \A r \in Regs :
    (/\ Registry[r].OwnerAppId # NoApp /\ Registry[r].LoadPending
     /\ Registry[r].LoadInProgress # NONE /\ HasValidationFunc(r))
    => \A b \in GetInactiveBuffer(r) : Buffers[b].img \in ValidImages
=============================================================================
