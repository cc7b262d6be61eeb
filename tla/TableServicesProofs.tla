------------------------ MODULE TableServicesProofs ------------------------
(***************************************************************************)
(* Theorems about TableServices, for every number of applications, tables, *)
(* handles, shared load buffers and validation results.                    *)
(***************************************************************************)
EXTENDS TableServices, WellFoundedInduction, TLAPS

\* The types of the records that TypeOK puts together.
RegType ==
  [OwnerAppId : Apps \cup {NoApp}, Tbl : Tables,
   TableLoadedOnce : BOOLEAN, LoadPending : BOOLEAN,
   LoadInProgress : {NONE, 0, 1} \cup Loads, ActiveBufferIndex : {0, 1},
   ValidateActiveId : Vals \cup {NONE}, ValidateInactiveId : Vals \cup {NONE},
   DumpControlId : Loads \cup {NONE}]

HandleType ==
  [UsedFlag : BOOLEAN, AppId : Apps \cup {NoApp}, RegIndex : Regs,
   LockFlag : BOOLEAN, Updated : BOOLEAN, BufferIndex : {0, 1}]

BufType == [img : Images, Validated : BOOLEAN]

BlockType == [State : {"FREE", "PENDING", "PERFORMED"}, RegRec : Regs,
              DumpBuffer : BufIds \cup {NoBuf}]

TaskType ==
  [op : {"idle", "fill", "finish", "validate", "validated", "exit", "cleanup"},
   reg : Regs, buf : BufIds \cup {NoBuf}, ok : BOOLEAN, val : Vals \cup {NONE}]

TblTaskType == [op : {"idle", "load"}, reg : Regs, buf : BufIds \cup {NoBuf},
                ok : BOOLEAN, val : {NONE}]

(* LoadInProgress names the inactive half of a double-buffered table, or the *)
(* shared buffer of a single-buffered one, which never switches.             *)
LoadKinds ==
  \A r \in Regs :
    IF IsDouble(r)
    THEN Registry[r].LoadInProgress \in {NONE, 1 - Registry[r].ActiveBufferIndex}
    ELSE Registry[r].LoadInProgress \in Loads \cup {NONE} /\ Registry[r].ActiveBufferIndex = 0

(* A call that is under way has what it still needs. *)
CallInv ==
  /\ \A a \in Apps :
       /\ task[a].op \in {"fill", "finish"} => task[a].buf \in BufIds
       /\ task[a].op \in {"validate", "validated"} => task[a].val \in Vals
       /\ task[a].op = "validated" /\ task[a].ok => task[a].buf \in BufIds
  /\ tblTask.op = "load" => tblTask.buf \in BufIds

BaseInv == TypeOK /\ LoadKinds /\ CallInv
-----------------------------------------------------------------------------
(* Facts about the operators.                                                *)

\* A nonempty set of indices has a least one.
LEMMA MinIn ==
  ASSUME NEW S \in SUBSET Nat, S # {}
  PROVE  Min(S) \in S
<1>1. PICK x \in S : \A y \in S : <<y, x>> \notin OpToRel(<, Nat)
  BY WFMin, NatLessThanWellFounded
<1>2. \A y \in S : ~ (y < x)
  BY <1>1 DEF OpToRel
<1>3. \A y \in S : x <= y
  BY <1>2
<1> QED BY <1>3 DEF Min

\* Indices and names of buffers.
LEMMA Indices ==
  /\ Regs \subseteq Nat /\ Hdls \subseteq Nat /\ Loads \subseteq Nat /\ Vals \subseteq Nat
  /\ 0 \in Regs /\ 0 \in Hdls /\ 0 \in Loads /\ 0 \in Vals
  /\ NONE \notin Loads /\ NONE \notin Vals /\ SHARED \notin Regs
  /\ NoBuf \notin BufIds
  /\ \A r \in Regs : <<r, 0>> \in BufIds /\ <<r, 1>> \in BufIds
  /\ \A i \in Loads : <<SHARED, i>> \in BufIds
BY TBLAssumption DEF Regs, Hdls, Loads, Vals, NONE, SHARED, NoBuf, BufIds

\* A buffer is half of a table, or shared.
LEMMA BufCases ==
  ASSUME NEW b \in BufIds
  PROVE  \/ \E r \in Regs, i \in {0, 1} : b = <<r, i>>
         \/ \E i \in Loads : b = <<SHARED, i>>
BY DEF BufIds

\* TypeOK in the terms above.
LEMMA Types ==
  TypeOK <=> /\ Registry \in [Regs -> RegType]
             /\ Handles \in [Hdls -> HandleType]
             /\ Buffers \in [BufIds -> BufType]
             /\ Taken \in [Loads -> BOOLEAN]
             /\ ValidationResults \in [Vals -> {"FREE", "PENDING", "PERFORMED"}]
             /\ DumpControlBlocks \in [Loads -> BlockType]
             /\ task \in [Apps -> TaskType]
             /\ tblTask \in TblTaskType
             /\ seen \in [Hdls -> Images \cup {NoImage}]
BY DEF TypeOK, RegType, HandleType, BufType, BlockType, TaskType, TblTaskType

\* The types after a step, variable by variable.
LEMMA TypesNext ==
  TypeOK' <=> /\ Registry' \in [Regs -> RegType]
              /\ Handles' \in [Hdls -> HandleType]
              /\ Buffers' \in [BufIds -> BufType]
              /\ Taken' \in [Loads -> BOOLEAN]
              /\ ValidationResults' \in [Vals -> {"FREE", "PENDING", "PERFORMED"}]
              /\ DumpControlBlocks' \in [Loads -> BlockType]
              /\ task' \in [Apps -> TaskType]
              /\ tblTask' \in TblTaskType
              /\ seen' \in [Hdls -> Images \cup {NoImage}]
BY DEF TypeOK, RegType, HandleType, BufType, BlockType, TaskType, TblTaskType

\* The records that are written whole have their types.
LEMMA Constants ==
         /\ InitRegistryRecord \in RegType /\ FreeHandle \in HandleType
         /\ EmptyBuffer \in BufType /\ FreeBlock \in BlockType
         /\ Idle \in TaskType /\ Idle \in TblTaskType
<1>1. InitRegistryRecord \in RegType
  BY Indices, TBLAssumption DEF InitRegistryRecord, RegType
<1>2. FreeHandle \in HandleType
  BY Indices DEF FreeHandle, HandleType
<1>3. EmptyBuffer \in BufType
  BY TBLAssumption DEF EmptyBuffer, BufType
<1>4. FreeBlock \in BlockType
  BY Indices DEF FreeBlock, BlockType
<1>5. Idle \in TaskType /\ Idle \in TblTaskType
  BY Indices DEF Idle, TaskType, TblTaskType
<1> QED BY <1>1, <1>2, <1>3, <1>4, <1>5

\* One field, or two, of one entry of the registry are written.
LEMMA SetTwo ==
  ASSUME Registry \in [Regs -> RegType], NEW r \in Regs, NEW x, NEW y,
         Registry' = [Registry EXCEPT ![r].LoadInProgress = x, ![r].DumpControlId = y]
  PROVE  /\ Registry'[r] = [Registry[r] EXCEPT !.LoadInProgress = x, !.DumpControlId = y]
         /\ \A q \in Regs \ {r} : Registry'[q] = Registry[q]
         /\ Registry' = [q \in Regs |-> Registry'[q]]
OBVIOUS

\* A registry entry keeps its type when these fields are written.
LEMMA RegFields ==
  ASSUME NEW rec \in RegType, NEW lip \in {NONE, 0, 1} \cup Loads,
         NEW dump \in Loads \cup {NONE}, NEW pend \in BOOLEAN, NEW act \in {0, 1}
  PROVE  /\ [rec EXCEPT !.LoadInProgress = lip, !.DumpControlId = dump] \in RegType
         /\ [rec EXCEPT !.LoadInProgress = lip, !.LoadPending = pend] \in RegType
         /\ [rec EXCEPT !.LoadInProgress = lip, !.LoadPending = pend,
                        !.TableLoadedOnce = TRUE] \in RegType
         /\ [rec EXCEPT !.LoadInProgress = lip, !.LoadPending = pend,
                        !.TableLoadedOnce = TRUE, !.ActiveBufferIndex = act] \in RegType
<1>1. [rec EXCEPT !.LoadInProgress = lip] \in RegType
  BY DEF RegType
<1>2. [rec EXCEPT !.LoadInProgress = lip, !.DumpControlId = dump] \in RegType
  BY <1>1 DEF RegType
<1>3. [rec EXCEPT !.LoadInProgress = lip, !.LoadPending = pend] \in RegType
  BY <1>1 DEF RegType
<1>4. [rec EXCEPT !.LoadInProgress = lip, !.LoadPending = pend, !.TableLoadedOnce = TRUE] \in RegType
  BY <1>3 DEF RegType
<1>5. [rec EXCEPT !.LoadInProgress = lip, !.LoadPending = pend,
                  !.TableLoadedOnce = TRUE, !.ActiveBufferIndex = act] \in RegType
  BY <1>4 DEF RegType
<1> QED BY <1>2, <1>3, <1>4, <1>5

\* Setting or clearing LoadPending keeps the type.
LEMMA PendingField ==
  ASSUME NEW rec \in RegType, NEW pend \in BOOLEAN
  PROVE  [rec EXCEPT !.LoadPending = pend] \in RegType
BY DEF RegType

\* A handle keeps its type when CFE_TBL_GetAddress writes it.
LEMMA HandleFields ==
  ASSUME NEW rec \in HandleType, NEW act \in {0, 1}
  PROVE  [rec EXCEPT !.LockFlag = TRUE, !.Updated = FALSE, !.BufferIndex = act] \in HandleType
<1>1. [rec EXCEPT !.LockFlag = TRUE] \in HandleType
  BY DEF HandleType
<1>2. [rec EXCEPT !.LockFlag = TRUE, !.Updated = FALSE] \in HandleType
  BY <1>1 DEF HandleType
<1> QED BY <1>2 DEF HandleType

\* The fields of a call that moves on.
LEMMA TaskFields ==
  ASSUME NEW rec \in TaskType, NEW o, NEW k
  PROVE  [rec EXCEPT !.op = o, !.ok = k] =
         [op |-> o, reg |-> rec.reg, buf |-> rec.buf, ok |-> k, val |-> rec.val]
<1>1. PICK o1, r1, b1, k1, v1 : rec = [op |-> o1, reg |-> r1, buf |-> b1, ok |-> k1, val |-> v1]
  BY DEF TaskType
<1> DEFINE mid == [rec EXCEPT !.op = o]
<1>2. mid = [op |-> o, reg |-> r1, buf |-> b1, ok |-> k1, val |-> v1]
  BY <1>1
<1>3. [rec EXCEPT !.op = o, !.ok = k] = [mid EXCEPT !.ok = k]
  OBVIOUS
<1> HIDE DEF mid
<1>4. [mid EXCEPT !.ok = k] = [op |-> o, reg |-> r1, buf |-> b1, ok |-> k, val |-> v1]
  BY <1>2
<1>5. rec.reg = r1 /\ rec.buf = b1 /\ rec.val = v1
  BY <1>1
<1> QED BY <1>3, <1>4, <1>5, Zenon

\* Where CFE_TBL_GetWorkingBuffer looks.
LEMMA WorkingBufferCases ==
  ASSUME BaseInv, NEW r \in Regs, NEW byApp \in BOOLEAN, NEW buf \in WorkingBuffer(r, byApp)
  PROVE  /\ buf \in BufIds
         /\ Registry[r].LoadInProgress = NONE /\ LoadsInPlace(r, byApp) => buf = GetActiveBuffer(r)
         /\ (Registry[r].LoadInProgress = NONE /\ ~LoadsInPlace(r, byApp) /\ IsDouble(r)) =>
              /\ buf = <<r, 1 - Registry[r].ActiveBufferIndex>>
              /\ Locking(r, 1 - Registry[r].ActiveBufferIndex) = {}
         /\ (Registry[r].LoadInProgress = NONE /\ ~LoadsInPlace(r, byApp) /\ ~IsDouble(r)) =>
              \E i \in FreeLoadBuffs : buf = <<SHARED, i>>
         /\ Registry[r].LoadInProgress # NONE =>
              buf = IF IsDouble(r) THEN <<r, 1 - Registry[r].ActiveBufferIndex>>
                                   ELSE <<SHARED, Registry[r].LoadInProgress>>
<1> DEFINE lip == Registry[r].LoadInProgress
           act == Registry[r].ActiveBufferIndex
<1>1. Registry[r] \in RegType
  BY Types DEF BaseInv
<1>2. act \in {0, 1} /\ lip \in {NONE, 0, 1} \cup Loads
      /\ (~IsDouble(r) => lip \in Loads \cup {NONE})
  BY <1>1 DEF RegType, BaseInv, LoadKinds
<1>3. <<r, 0>> \in BufIds /\ <<r, 1>> \in BufIds /\ \A i \in Loads : <<SHARED, i>> \in BufIds
  BY Indices
<1>4. GetActiveBuffer(r) \in BufIds
  BY <1>2, <1>3 DEF GetActiveBuffer
<1>5. act = 0 \/ act = 1
  BY <1>2
<1>6. <<r, 1 - act>> \in BufIds
  BY <1>5, <1>3
<1>7. CASE lip # NONE
  <2>1. buf \in GetInactiveBuffer(r)
    BY <1>7 DEF WorkingBuffer
  <2> QED BY <1>2, <1>3, <1>6, <1>7, <2>1 DEF GetInactiveBuffer
<1>8. CASE lip = NONE /\ LoadsInPlace(r, byApp)
  BY <1>4, <1>8 DEF WorkingBuffer
<1>9. CASE lip = NONE /\ ~LoadsInPlace(r, byApp) /\ IsDouble(r)
  BY <1>6, <1>9 DEF WorkingBuffer
<1>10. CASE lip = NONE /\ ~LoadsInPlace(r, byApp) /\ ~IsDouble(r)
  <2>1. FreeLoadBuffs # {} /\ buf = <<SHARED, Min(FreeLoadBuffs)>>
    BY <1>10 DEF WorkingBuffer
  <2>2. FreeLoadBuffs \in SUBSET Nat /\ FreeLoadBuffs \subseteq Loads
    BY Indices DEF FreeLoadBuffs
  <2>3. Min(FreeLoadBuffs) \in FreeLoadBuffs
    BY <2>1, <2>2, MinIn
  <2> QED BY <1>3, <1>10, <2>1, <2>2, <2>3
<1> QED BY <1>7, <1>8, <1>9, <1>10

-----------------------------------------------------------------------------
(* What the shared steps of several calls do to the registry.                *)

\* CFE_TBL_GetWorkingBuffer.
LEMMA WorkingBufferEffect ==
  ASSUME BaseInv, NEW r \in Regs, NEW byApp \in BOOLEAN, NEW buf \in BufIds,
         NEW dump \in Loads \cup {NONE}, GetWorkingBuffer(r, byApp, buf, dump)
  PROVE  /\ Registry' \in [Regs -> RegType] /\ LoadKinds'
         /\ Taken' \in [Loads -> BOOLEAN] /\ Buffers' \in [BufIds -> BufType]
         /\ \A q \in Regs \ {r} : Registry'[q] = Registry[q]
         /\ Registry'[r].LoadInProgress =
              IF Registry[r].LoadInProgress = NONE /\ ~LoadsInPlace(r, byApp)
              THEN buf[2] ELSE Registry[r].LoadInProgress
         /\ Registry'[r].OwnerAppId = Registry[r].OwnerAppId /\ Registry'[r].Tbl = Registry[r].Tbl
         /\ Registry'[r].TableLoadedOnce = Registry[r].TableLoadedOnce
         /\ Registry'[r].LoadPending = Registry[r].LoadPending
         /\ Registry'[r].ActiveBufferIndex = Registry[r].ActiveBufferIndex
<1> DEFINE lip == Registry[r].LoadInProgress
           act == Registry[r].ActiveBufferIndex
           allocates == lip = NONE /\ ~LoadsInPlace(r, byApp)
           new == IF allocates THEN buf[2] ELSE lip
<1>0. Registry \in [Regs -> RegType] /\ Buffers \in [BufIds -> BufType] /\ Taken \in [Loads -> BOOLEAN]
  BY Types DEF BaseInv
<1>1. Registry' = [Registry EXCEPT ![r].LoadInProgress = new, ![r].DumpControlId = dump]
  BY <1>0 DEF GetWorkingBuffer
<1>2. buf \in WorkingBuffer(r, byApp)
  BY DEF GetWorkingBuffer
<1>3. /\ act \in {0, 1} /\ lip \in {NONE, 0, 1} \cup Loads
      /\ IF IsDouble(r) THEN lip \in {NONE, 1 - act} ELSE lip \in Loads \cup {NONE} /\ act = 0
  BY <1>0 DEF RegType, BaseInv, LoadKinds
<1>4. IF IsDouble(r) THEN new \in {NONE, 1 - act} ELSE new \in Loads \cup {NONE}
  <2>1. CASE allocates /\ IsDouble(r)
    BY <1>2, <2>1, WorkingBufferCases
  <2>2. CASE allocates /\ ~IsDouble(r)
    <3>1. PICK i \in FreeLoadBuffs : buf = <<SHARED, i>>
      BY <1>2, <2>2, WorkingBufferCases
    <3>2. i \in Loads
      BY DEF FreeLoadBuffs
    <3> QED BY <2>2, <3>1, <3>2
  <2>3. CASE ~allocates
    BY <1>3, <2>3
  <2> QED BY <2>1, <2>2, <2>3
<1>5. new \in {NONE, 0, 1} \cup Loads
  BY <1>3, <1>4
<1> HIDE DEF new
<1>6. /\ Registry'[r] = [Registry[r] EXCEPT !.LoadInProgress = new, !.DumpControlId = dump]
      /\ \A q \in Regs \ {r} : Registry'[q] = Registry[q]
      /\ Registry' = [q \in Regs |-> Registry'[q]]
  BY <1>0, <1>1, SetTwo
<1>7. Registry'[r] \in RegType
  <2>1. Registry[r] \in RegType
    BY <1>0
  <2>2. [Registry[r] EXCEPT !.LoadInProgress = new, !.DumpControlId = dump] \in RegType
    BY <1>5, <2>1, RegFields, Zenon
  <2> QED BY <1>6, <2>2, Zenon
<1>8. Registry' \in [Regs -> RegType]
  BY <1>0, <1>6, <1>7
<1>9. LoadKinds'
  <2>1. /\ Registry'[r].Tbl = Registry[r].Tbl /\ Registry'[r].LoadInProgress = new
        /\ Registry'[r].ActiveBufferIndex = act
    BY <1>0, <1>6 DEF RegType
  <2> QED BY <1>3, <1>4, <1>6, <2>1 DEF LoadKinds, IsDouble, BaseInv
<1>10. Taken' \in [Loads -> BOOLEAN]
  BY <1>0, Zenon DEF GetWorkingBuffer
<1>11. Buffers' \in [BufIds -> BufType]
  <2>1. GetActiveBuffer(r) \in BufIds
    BY <1>3, Indices DEF GetActiveBuffer
  <2> QED BY <1>0, <2>1 DEF GetWorkingBuffer, BufType
<1>12. /\ Registry'[r].LoadInProgress = new
       /\ Registry'[r].OwnerAppId = Registry[r].OwnerAppId /\ Registry'[r].Tbl = Registry[r].Tbl
       /\ Registry'[r].TableLoadedOnce = Registry[r].TableLoadedOnce
       /\ Registry'[r].LoadPending = Registry[r].LoadPending
       /\ Registry'[r].ActiveBufferIndex = Registry[r].ActiveBufferIndex
  BY <1>0, <1>6 DEF RegType
<1> QED BY <1>6, <1>8, <1>9, <1>10, <1>11, <1>12 DEF new

\* CFE_TBL_TxnRemoveAccessLink.
LEMMA RemoveEffect ==
  ASSUME BaseInv, NEW h \in Hdls, NEW disowned \in BOOLEAN, RemoveAccessLink(h, disowned)
  PROVE  LET r    == Handles[h].RegIndex
             free == Accessors(r) = {h} /\ ~IsDouble(r) /\ Registry[r].LoadInProgress # NONE
         IN  /\ Registry' \in [Regs -> RegType] /\ LoadKinds'
             /\ Taken' \in [Loads -> BOOLEAN]
             /\ \A q \in Regs \ {r} : Registry'[q] = Registry[q]
             /\ Registry'[r] = [Registry[r] EXCEPT
                  !.OwnerAppId = IF disowned THEN NoApp ELSE @,
                  !.LoadInProgress = IF free THEN NONE ELSE @]
<1> DEFINE r == Handles[h].RegIndex
           lip == Registry[r].LoadInProgress
           free == Accessors(r) = {h} /\ ~IsDouble(r) /\ lip # NONE
           owner == IF disowned THEN NoApp ELSE Registry[r].OwnerAppId
           new == IF free THEN NONE ELSE lip
<1>0. /\ Registry \in [Regs -> RegType] /\ Taken \in [Loads -> BOOLEAN]
      /\ r \in Regs
  BY Types DEF BaseInv, HandleType
<1>1. Registry' = [Registry EXCEPT ![r].OwnerAppId = owner, ![r].LoadInProgress = new]
  BY <1>0 DEF RemoveAccessLink
<1>2. owner \in Apps \cup {NoApp} /\ new \in {NONE, 0, 1} \cup Loads /\ new \in {NONE, lip}
  BY <1>0 DEF RegType
<1> HIDE DEF new, owner, r
<1>3. /\ Registry'[r] = [Registry[r] EXCEPT !.OwnerAppId = owner, !.LoadInProgress = new]
      /\ \A q \in Regs \ {r} : Registry'[q] = Registry[q]
      /\ Registry' = [q \in Regs |-> Registry'[q]]
  BY <1>0, <1>1
<1>4. Registry'[r] \in RegType
  BY ZenonT(60), <1>0, <1>2, <1>3 DEF RegType
<1>5. Registry' \in [Regs -> RegType]
  BY <1>0, <1>3, <1>4
<1>6. LoadKinds'
  <2>1. /\ Registry'[r].Tbl = Registry[r].Tbl /\ Registry'[r].LoadInProgress = new
        /\ Registry'[r].ActiveBufferIndex = Registry[r].ActiveBufferIndex
    BY <1>0, <1>3 DEF RegType
  <2> QED BY <1>0, <1>2, <1>3, <2>1 DEF LoadKinds, IsDouble, BaseInv
<1>7. Taken' \in [Loads -> BOOLEAN]
  BY <1>0, Zenon DEF RemoveAccessLink
<1>8. Registry'[r] = [Registry[r] EXCEPT !.OwnerAppId = IF disowned THEN NoApp ELSE @,
                        !.LoadInProgress = IF free THEN NONE ELSE @]
  BY <1>0, <1>3 DEF new, owner, RegType
<1> QED BY <1>3, <1>5, <1>6, <1>7, <1>8 DEF r

\* CFE_TBL_UpdateInternal: either the load is left pending, or it is applied.
LEMMA UpdateEffect ==
  ASSUME BaseInv, NEW r \in Regs, UpdateInternal(r, TRUE)
  PROVE  LET lip == Registry[r].LoadInProgress
         IN  /\ Registry' \in [Regs -> RegType] /\ LoadKinds'
             /\ Taken' \in [Loads -> BOOLEAN] /\ Buffers' \in [BufIds -> BufType]
             /\ Handles' \in [Hdls -> HandleType]
             /\ \A q \in Regs \ {r} : Registry'[q] = Registry[q]
             /\ \/ /\ Registry'[r] = [Registry[r] EXCEPT !.LoadPending = TRUE]
                   /\ UNCHANGED <<Handles, Buffers, Taken>>
                \/ /\ Registry'[r] = [Registry[r] EXCEPT
                        !.LoadInProgress = NONE, !.LoadPending = FALSE, !.TableLoadedOnce = TRUE,
                        !.ActiveBufferIndex = IF IsDouble(r) THEN lip ELSE @]
                   /\ lip # NONE /\ Updatable(r)
                   /\ Buffers' = IF IsDouble(r) THEN Buffers
                         ELSE [Buffers EXCEPT ![<<r, 0>>].img = Buffers[<<SHARED, lip>>].img]
                   /\ Taken' = [i \in Loads |-> Taken[i] /\ (IsDouble(r) \/ i # lip)]
                   /\ NotifyTblUsersOfUpdate(r)
<1> DEFINE lip == Registry[r].LoadInProgress
           act == Registry[r].ActiveBufferIndex
           new == IF IsDouble(r) THEN lip ELSE act
<1>0. /\ Registry \in [Regs -> RegType] /\ Buffers \in [BufIds -> BufType]
      /\ Taken \in [Loads -> BOOLEAN] /\ Handles \in [Hdls -> HandleType]
  BY Types DEF BaseInv
<1>1. CASE lip = NONE \/ ~Updatable(r)
  <2>1. /\ Registry' = [Registry EXCEPT ![r].LoadPending = TRUE]
        /\ UNCHANGED <<Handles, Buffers, Taken>>
    BY <1>1 DEF UpdateInternal
  <2>2. /\ Registry'[r] = [Registry[r] EXCEPT !.LoadPending = TRUE]
        /\ \A q \in Regs \ {r} : Registry'[q] = Registry[q]
        /\ Registry' = [q \in Regs |-> Registry'[q]]
    BY <1>0, <2>1
  <2>3. Registry'[r] \in RegType
    BY ZenonT(60), <1>0, <2>2 DEF RegType
  <2>4. Registry' \in [Regs -> RegType]
    BY <1>0, <2>2, <2>3
  <2>5. LoadKinds'
    <3>1. /\ Registry'[r].Tbl = Registry[r].Tbl /\ Registry'[r].LoadInProgress = lip
          /\ Registry'[r].ActiveBufferIndex = act
      BY <1>0, <2>2 DEF RegType
    <3> QED BY <2>2, <3>1 DEF LoadKinds, IsDouble, BaseInv
  <2> QED BY <1>0, <2>1, <2>2, <2>4, <2>5
<1>2. CASE lip # NONE /\ Updatable(r)
  <2>1. /\ Registry' = [Registry EXCEPT ![r].LoadInProgress = NONE, ![r].LoadPending = FALSE,
                          ![r].TableLoadedOnce = TRUE, ![r].ActiveBufferIndex = new]
        /\ Buffers' = IF IsDouble(r) THEN Buffers
                      ELSE [Buffers EXCEPT ![<<r, 0>>].img = Buffers[<<SHARED, lip>>].img]
        /\ Taken' = [i \in Loads |-> Taken[i] /\ (IsDouble(r) \/ i # lip)]
        /\ NotifyTblUsersOfUpdate(r)
    BY <1>0, <1>2 DEF UpdateInternal
  <2>2. /\ act \in {0, 1} /\ (~IsDouble(r) => act = 0 /\ lip \in Loads)
        /\ (IsDouble(r) => lip = 1 - act)
    BY <1>0, <1>2 DEF RegType, BaseInv, LoadKinds
  <2>3. new \in {0, 1} /\ (~IsDouble(r) => new = 0)
    BY <2>2
  <2> HIDE DEF new
  <2>4. /\ Registry'[r] = [Registry[r] EXCEPT !.LoadInProgress = NONE, !.LoadPending = FALSE,
                             !.TableLoadedOnce = TRUE, !.ActiveBufferIndex = new]
        /\ \A q \in Regs \ {r} : Registry'[q] = Registry[q]
        /\ Registry' = [q \in Regs |-> Registry'[q]]
    BY <1>0, <2>1
  <2>5. Registry'[r] \in RegType
    <3>1. Registry[r] \in RegType /\ NONE \in {NONE, 0, 1} \cup Loads /\ FALSE \in BOOLEAN
      BY <1>0
    <3>2. [Registry[r] EXCEPT !.LoadInProgress = NONE, !.LoadPending = FALSE,
             !.TableLoadedOnce = TRUE, !.ActiveBufferIndex = new] \in RegType
      BY <2>3, <3>1, RegFields, Zenon
    <3> QED BY <2>4, <3>2, Zenon
  <2>6. Registry' \in [Regs -> RegType]
    BY <1>0, <2>4, <2>5
  <2>7. LoadKinds'
    <3>1. /\ Registry'[r].Tbl = Registry[r].Tbl /\ Registry'[r].LoadInProgress = NONE
          /\ Registry'[r].ActiveBufferIndex = new
      BY <1>0, <2>4 DEF RegType
    <3> QED BY <2>3, <2>4, <3>1 DEF LoadKinds, IsDouble, BaseInv
  <2>8. Taken' \in [Loads -> BOOLEAN]
    BY <2>1, <1>0, Zenon
  <2>9. Buffers' \in [BufIds -> BufType]
    BY <1>0, <2>1, <2>2, Indices DEF BufType
  <2>10. Handles' \in [Hdls -> HandleType]
    BY ZenonT(60), <1>0, <2>1 DEF NotifyTblUsersOfUpdate, HandleType
  <2>11. Registry'[r] = [Registry[r] EXCEPT
                        !.LoadInProgress = NONE, !.LoadPending = FALSE, !.TableLoadedOnce = TRUE,
                        !.ActiveBufferIndex = IF IsDouble(r) THEN lip ELSE @]
    BY <1>0, <2>4 DEF new, RegType
  <2> QED BY <1>2, <2>1, <2>4, <2>6, <2>7, <2>8, <2>9, <2>10, <2>11
<1> QED BY <1>1, <1>2

-----------------------------------------------------------------------------
(* Types, one action at a time.                                              *)

\* What BaseInv says of the next state when the calls under way do not change.
LEMMA BaseFrame ==
  ASSUME BaseInv, UNCHANGED <<task, tblTask>>,
         Registry' \in [Regs -> RegType], LoadKinds', Handles' \in [Hdls -> HandleType],
         Buffers' \in [BufIds -> BufType], Taken' \in [Loads -> BOOLEAN],
         ValidationResults' \in [Vals -> {"FREE", "PENDING", "PERFORMED"}],
         DumpControlBlocks' \in [Loads -> BlockType],
         seen' \in [Hdls -> Images \cup {NoImage}]
  PROVE  BaseInv'
<1>1. task \in [Apps -> TaskType] /\ tblTask \in TblTaskType
  BY Types DEF BaseInv
<1>2. TypeOK'
  BY <1>1, TypesNext
<1>3. CallInv'
  BY DEF BaseInv, CallInv
<1> QED BY <1>2, <1>3 DEF BaseInv

\* CFE_TBL_Register keeps the base invariant.
LEMMA RegisterBase ==
  ASSUME BaseInv, NEW a \in Apps, NEW t \in Tables, Register(a, t)
  PROVE  BaseInv'
<1>0. /\ Registry \in [Regs -> RegType] /\ Handles \in [Hdls -> HandleType]
      /\ Buffers \in [BufIds -> BufType] /\ Taken \in [Loads -> BOOLEAN]
      /\ ValidationResults \in [Vals -> {"FREE", "PENDING", "PERFORMED"}]
      /\ DumpControlBlocks \in [Loads -> BlockType]
      /\ seen \in [Hdls -> Images \cup {NoImage}]
  BY Types DEF BaseInv
<1> DEFINE r == Min(FreeRegistryEntries)
           h == Min(FreeHandles)
           rec == [InitRegistryRecord EXCEPT
                     !.OwnerAppId = a, !.Tbl = t, !.TableLoadedOnce = t \in DumpOnly]
<1>1. r \in Regs
  <2>1. FreeRegistryEntries \in SUBSET Nat /\ FreeRegistryEntries # {} /\ FreeRegistryEntries \subseteq Regs
    BY Indices DEF FreeRegistryEntries, Register
  <2> QED BY <2>1, MinIn
<1>2. h \in Hdls
  <2>1. FreeHandles \in SUBSET Nat /\ FreeHandles # {} /\ FreeHandles \subseteq Hdls
    BY Indices DEF FreeHandles, Register
  <2> QED BY <2>1, MinIn
<1> HIDE DEF r, h
<1>3. /\ AllocateHandle(h, a, r, FALSE)
      /\ Registry' = [Registry EXCEPT ![r] = rec]
      /\ Buffers' = [b \in BufIds |-> IF b[1] = r THEN EmptyBuffer ELSE Buffers[b]]
      /\ UNCHANGED <<Taken, ValidationResults, DumpControlBlocks, task, tblTask>>
  BY DEF Register, r, h
<1>4. rec \in RegType /\ rec.LoadInProgress = NONE /\ rec.ActiveBufferIndex = 0
  <2>1. (t \in DumpOnly) \in BOOLEAN
    OBVIOUS
  <2> QED BY <2>1, Indices DEF InitRegistryRecord, RegType
<1> HIDE DEF rec
<1>5. Registry' \in [Regs -> RegType]
  BY <1>0, <1>3, <1>4
<1>6. LoadKinds'
  <2>1. Registry'[r] = rec /\ \A q \in Regs \ {r} : Registry'[q] = Registry[q]
    BY <1>0, <1>1, <1>3
  <2>2. rec.ActiveBufferIndex = 0 /\ rec.LoadInProgress = NONE
    BY <1>4
  <2> QED BY <2>1, <2>2 DEF BaseInv, LoadKinds, IsDouble
<1>7. Handles' \in [Hdls -> HandleType]
  BY ZenonT(60), <1>0, <1>1, <1>2, <1>3 DEF AllocateHandle, HandleType
<1>8. seen' \in [Hdls -> Images \cup {NoImage}]
  BY <1>0, <1>3 DEF AllocateHandle
<1>9. Buffers' \in [BufIds -> BufType]
  BY <1>0, <1>3, Constants
<1> QED BY <1>0, <1>3, <1>5, <1>6, <1>7, <1>8, <1>9, BaseFrame

\* The calls on a handle keep the base invariant.
LEMMA HandleBase ==
  ASSUME BaseInv, NEW a \in Apps,
         \/ \E t \in Tables : Share(a, t)
         \/ \E h \in Hdls : GetAddress(a, h) \/ ReleaseAddress(a, h) \/ Unregister(a, h)
         \/ CleanUpHandle(a)
  PROVE  BaseInv'
<1>0. /\ Registry \in [Regs -> RegType] /\ Handles \in [Hdls -> HandleType]
      /\ Buffers \in [BufIds -> BufType] /\ Taken \in [Loads -> BOOLEAN]
      /\ ValidationResults \in [Vals -> {"FREE", "PENDING", "PERFORMED"}]
      /\ DumpControlBlocks \in [Loads -> BlockType]
      /\ seen \in [Hdls -> Images \cup {NoImage}]
  BY Types DEF BaseInv
<1>1. ASSUME NEW t \in Tables, Share(a, t) PROVE BaseInv'
  <2> DEFINE h == Min(FreeHandles)
  <2>1. h \in Hdls
    <3>1. FreeHandles \in SUBSET Nat /\ FreeHandles # {} /\ FreeHandles \subseteq Hdls
      BY <1>1, Indices DEF FreeHandles, Share
    <3> QED BY <3>1, MinIn
  <2>2. PICK r \in FindRegByName(t) : AllocateHandle(h, a, r, Registry[r].TableLoadedOnce)
    BY <1>1 DEF Share
  <2>3. UNCHANGED <<Registry, Buffers, Taken, ValidationResults, DumpControlBlocks, task, tblTask>>
    BY <1>1 DEF Share
  <2> HIDE DEF h
  <2>4. r \in Regs /\ Registry[r].TableLoadedOnce \in BOOLEAN
    BY <1>0 DEF FindRegByName, RegType
  <2>5. Handles' \in [Hdls -> HandleType]
    BY ZenonT(60), <1>0, <2>1, <2>2, <2>4 DEF AllocateHandle, HandleType
  <2>6. seen' \in [Hdls -> Images \cup {NoImage}]
    BY <1>0, <2>2 DEF AllocateHandle
  <2>7. LoadKinds'
    BY <2>3 DEF BaseInv, LoadKinds, IsDouble
  <2> QED BY <1>0, <2>3, <2>5, <2>6, <2>7, BaseFrame
<1>2. ASSUME NEW h \in Hdls, GetAddress(a, h) PROVE BaseInv'
  <2> DEFINE r == Handles[h].RegIndex
  <2>1. /\ r \in Regs /\ Registry[r].ActiveBufferIndex \in {0, 1}
    BY <1>0 DEF HandleType, RegType
  <2>2. Buffers[<<r, Registry[r].ActiveBufferIndex>>] \in BufType
    BY <1>0, <2>1, Indices
  <2>3. UNCHANGED <<Registry, Buffers, Taken, ValidationResults, DumpControlBlocks, task, tblTask>>
    BY <1>2 DEF GetAddress
  <2>4. seen' \in [Hdls -> Images \cup {NoImage}]
    BY <1>0, <1>2, <2>2 DEF GetAddress, BufType
  <2>5. Handles' \in [Hdls -> HandleType]
    <3>1. Handles' = [Handles EXCEPT ![h].LockFlag = TRUE, ![h].Updated = FALSE,
                                    ![h].BufferIndex = Registry[r].ActiveBufferIndex]
      BY <1>2 DEF GetAddress
    <3> DEFINE act == Registry[r].ActiveBufferIndex
               new == [Handles[h] EXCEPT !.LockFlag = TRUE, !.Updated = FALSE, !.BufferIndex = act]
    <3>2. act \in {0, 1} /\ Handles[h] \in HandleType
      BY <1>0, <2>1
    <3> HIDE DEF r, act
    <3>3. new \in HandleType
      BY <3>2, HandleFields, Zenon
    <3>4. Handles' = [Handles EXCEPT ![h] = new]
      BY <1>0, <3>1 DEF act
    <3> HIDE DEF new
    <3> QED BY <1>0, <3>3, <3>4
  <2>6. LoadKinds'
    BY <2>3 DEF BaseInv, LoadKinds, IsDouble
  <2> QED BY <1>0, <2>3, <2>4, <2>5, <2>6, BaseFrame
<1>3. ASSUME NEW h \in Hdls, ReleaseAddress(a, h) PROVE BaseInv'
  <2>1. UNCHANGED <<Registry, Buffers, Taken, ValidationResults, DumpControlBlocks, task, tblTask, seen>>
    BY <1>3 DEF ReleaseAddress
  <2>2. Handles' \in [Hdls -> HandleType]
    BY ZenonT(60), <1>0, <1>3 DEF ReleaseAddress, HandleType
  <2>3. LoadKinds'
    BY <2>1 DEF BaseInv, LoadKinds, IsDouble
  <2> QED BY <1>0, <2>1, <2>2, <2>3, BaseFrame
<1>4. ASSUME NEW h \in Hdls, NEW d \in BOOLEAN, RemoveAccessLink(h, d), ReleaseHandle(h),
             UNCHANGED <<Buffers, ValidationResults, DumpControlBlocks, task, tblTask>>
      PROVE  BaseInv'
  <2>1. Handles' \in [Hdls -> HandleType] /\ seen' \in [Hdls -> Images \cup {NoImage}]
    BY <1>0, <1>4, Constants DEF ReleaseHandle
  <2>2. Registry' \in [Regs -> RegType] /\ LoadKinds' /\ Taken' \in [Loads -> BOOLEAN]
    BY <1>4, RemoveEffect
  <2> QED BY <1>0, <1>4, <2>1, <2>2, BaseFrame
<1>5. ASSUME NEW h \in Hdls, Unregister(a, h) PROVE BaseInv'
  <2>1. (Registry[Handles[h].RegIndex].OwnerAppId = a) \in BOOLEAN
    OBVIOUS
  <2> QED BY <1>4, <1>5, <2>1 DEF Unregister
<1>6. CASE CleanUpHandle(a)
  <2> DEFINE h == Min(HandlesOf(a))
  <2>1. h \in Hdls
    <3>1. HandlesOf(a) \in SUBSET Nat /\ HandlesOf(a) # {} /\ HandlesOf(a) \subseteq Hdls
      BY <1>6, Indices DEF HandlesOf, CleanUpHandle
    <3> QED BY <3>1, MinIn
  <2>2. (Registry[Handles[h].RegIndex].OwnerAppId = a) \in BOOLEAN
    OBVIOUS
  <2>3. /\ RemoveAccessLink(h, Registry[Handles[h].RegIndex].OwnerAppId = a) /\ ReleaseHandle(h)
        /\ UNCHANGED <<Buffers, ValidationResults, DumpControlBlocks, task, tblTask>>
    BY <1>6 DEF CleanUpHandle
  <2> HIDE DEF h
  <2> QED BY <1>4, <2>1, <2>2, <2>3
<1> QED BY <1>1, <1>2, <1>3, <1>5, <1>6

\* The same when one application's call goes on.
LEMMA BaseTask ==
  ASSUME BaseInv, NEW a \in Apps, NEW rec \in TaskType, task' = [task EXCEPT ![a] = rec],
         rec.op \in {"fill", "finish"} => rec.buf \in BufIds,
         rec.op \in {"validate", "validated"} => rec.val \in Vals,
         rec.op = "validated" /\ rec.ok => rec.buf \in BufIds,
         UNCHANGED tblTask,
         Registry' \in [Regs -> RegType], LoadKinds', Handles' \in [Hdls -> HandleType],
         Buffers' \in [BufIds -> BufType], Taken' \in [Loads -> BOOLEAN],
         ValidationResults' \in [Vals -> {"FREE", "PENDING", "PERFORMED"}],
         DumpControlBlocks' \in [Loads -> BlockType],
         seen' \in [Hdls -> Images \cup {NoImage}]
  PROVE  BaseInv'
<1>1. task \in [Apps -> TaskType] /\ tblTask \in TblTaskType
  BY Types DEF BaseInv
<1>2. task' \in [Apps -> TaskType]
  BY <1>1
<1>3. TypeOK'
  BY <1>1, <1>2, TypesNext
<1>4. task'[a] = rec /\ \A c \in Apps \ {a} : task'[c] = task[c]
  BY <1>1
<1>5. CallInv'
  BY <1>4 DEF BaseInv, CallInv
<1> QED BY <1>3, <1>5 DEF BaseInv

\* CFE_TBL_Update, CFE_TBL_DumpToBuffer and the start of CFE_TBL_Validate.
LEMMA ManageBase == ASSUME BaseInv, NEW a \in Apps, Manage(a) PROVE BaseInv'
<1>0. /\ Registry \in [Regs -> RegType] /\ Handles \in [Hdls -> HandleType]
      /\ Buffers \in [BufIds -> BufType] /\ Taken \in [Loads -> BOOLEAN]
      /\ ValidationResults \in [Vals -> {"FREE", "PENDING", "PERFORMED"}]
      /\ DumpControlBlocks \in [Loads -> BlockType]
      /\ seen \in [Hdls -> Images \cup {NoImage}]
  BY Types DEF BaseInv
<1>1. PICK h \in Hdls : Update(a, h) \/ ValidateStart(a, h) \/ DumpToBuffer(a, h)
  BY DEF Manage
<1> DEFINE r == Handles[h].RegIndex
<1>2. r \in Regs /\ Registry[r] \in RegType
  BY <1>0 DEF HandleType
<1>3. CASE Update(a, h)
  <2>1. UpdateInternal(r, TRUE) /\ UNCHANGED <<ValidationResults, DumpControlBlocks, task, tblTask, seen>>
    BY <1>3 DEF Update
  <2> HIDE DEF r
  <2>2. /\ Registry' \in [Regs -> RegType] /\ LoadKinds'
        /\ Taken' \in [Loads -> BOOLEAN] /\ Buffers' \in [BufIds -> BufType]
        /\ Handles' \in [Hdls -> HandleType]
    BY <1>2, <2>1, UpdateEffect
  <2> QED BY <1>0, <2>1, <2>2, BaseFrame
<1>4. CASE DumpToBuffer(a, h)
  <2> DEFINE d == Registry[r].DumpControlId
             act == GetActiveBuffer(r)
  <2>1. d \in Loads
    BY <1>2, <1>4 DEF DumpToBuffer, DumpPending, RegType
  <2>2. act \in BufIds
    BY <1>2, Indices DEF GetActiveBuffer, RegType
  <2>3. UNCHANGED <<Handles, Taken, ValidationResults, task, tblTask, seen>>
    BY <1>4 DEF DumpToBuffer
  <2>4. Registry' = [Registry EXCEPT ![r].DumpControlId = NONE]
    BY <1>4 DEF DumpToBuffer
  <2>5. DumpControlBlocks' = [DumpControlBlocks EXCEPT
          ![d].State = IF @ = "FREE" THEN "FREE" ELSE "PERFORMED"]
    BY <1>4 DEF DumpToBuffer
  <2>6. Buffers' = IF DumpControlBlocks[d].DumpBuffer = NoBuf THEN Buffers
                   ELSE [Buffers EXCEPT ![DumpControlBlocks[d].DumpBuffer].img = Buffers[act].img]
    BY <1>4 DEF DumpToBuffer
  <2> HIDE DEF r, d, act
  <2>7. Registry' \in [Regs -> RegType]
    BY <1>0, <1>2, <2>4 DEF RegType
  <2>8. LoadKinds'
    <3>1. \A q \in Regs : /\ Registry'[q].Tbl = Registry[q].Tbl
                          /\ Registry'[q].LoadInProgress = Registry[q].LoadInProgress
                          /\ Registry'[q].ActiveBufferIndex = Registry[q].ActiveBufferIndex
      BY <1>0, <2>4 DEF RegType
    <3> QED BY <3>1 DEF BaseInv, LoadKinds, IsDouble
  <2>9. DumpControlBlocks' \in [Loads -> BlockType]
    BY <1>0, <2>1, <2>5 DEF BlockType
  <2>10. Buffers' \in [BufIds -> BufType]
    BY SMTT(30), <1>0, <2>1, <2>2, <2>6 DEF BufType, BlockType
  <2> QED BY <1>0, <2>3, <2>7, <2>8, <2>9, <2>10, BaseFrame
<1>5. CASE ValidateStart(a, h)
  <2> DEFINE inactive == Registry[r].ValidateInactiveId # NONE
             v == IF inactive THEN Registry[r].ValidateInactiveId ELSE Registry[r].ValidateActiveId
             bufs == GetSelectedBuffer(r, ~inactive)
             b == IF bufs = {} THEN NoBuf ELSE CHOOSE x \in bufs : TRUE
             rec == [op |-> "validate", reg |-> r, val |-> v, ok |-> FALSE, buf |-> b]
  <2>1. v \in Vals
    BY <1>2, <1>5 DEF ValidateStart, RegType
  <2>2. bufs \subseteq BufIds
    <3>1. /\ Registry[r].ActiveBufferIndex \in {0, 1}
          /\ (~IsDouble(r) => Registry[r].LoadInProgress \in Loads \cup {NONE})
      BY <1>2 DEF RegType, BaseInv, LoadKinds
    <3>2. GetActiveBuffer(r) \in BufIds
      BY <1>2, <3>1, Indices DEF GetActiveBuffer
    <3>3. 1 - Registry[r].ActiveBufferIndex \in {0, 1}
      BY <3>1
    <3>4. GetInactiveBuffer(r) \subseteq BufIds
      BY <1>2, <3>1, <3>3, Indices DEF GetInactiveBuffer
    <3> QED BY <3>2, <3>4 DEF GetSelectedBuffer
  <2>3. b \in BufIds \cup {NoBuf}
    BY <2>2
  <2>4. UNCHANGED <<Handles, Buffers, Taken, ValidationResults, DumpControlBlocks, tblTask, seen>>
    BY <1>5 DEF ValidateStart
  <2>5. \/ Registry' = [Registry EXCEPT ![r].ValidateInactiveId = NONE]
        \/ Registry' = [Registry EXCEPT ![r].ValidateActiveId = NONE]
    BY <1>5 DEF ValidateStart
  <2>6. task' = [task EXCEPT ![a] = rec]
    BY <1>5 DEF ValidateStart
  <2> HIDE DEF inactive, v, bufs, b, r
  <2>7. Registry' \in [Regs -> RegType]
    BY <1>0, <1>2, <2>5 DEF RegType
  <2>8. LoadKinds'
    <3>1. \A q \in Regs : /\ Registry'[q].Tbl = Registry[q].Tbl
                          /\ Registry'[q].LoadInProgress = Registry[q].LoadInProgress
                          /\ Registry'[q].ActiveBufferIndex = Registry[q].ActiveBufferIndex
      BY <1>0, <2>5 DEF RegType
    <3> QED BY <3>1 DEF BaseInv, LoadKinds, IsDouble
  <2>9. /\ rec \in TaskType /\ rec.op = "validate" /\ rec.val \in Vals
    BY <1>2, <2>1, <2>3 DEF TaskType
  <2> HIDE DEF rec
  <2> QED BY <1>0, <2>4, <2>6, <2>7, <2>8, <2>9, BaseTask
<1> QED BY <1>1, <1>3, <1>4, <1>5

\* The clean-up of an application, other than its handles.
LEMMA CleanUpBase ==
  ASSUME BaseInv, NEW a \in Apps, Exit(a) \/ CleanUpDumps(a) \/ Restart(a)
  PROVE  BaseInv'
<1>0. /\ Registry \in [Regs -> RegType] /\ Handles \in [Hdls -> HandleType]
      /\ Buffers \in [BufIds -> BufType] /\ Taken \in [Loads -> BOOLEAN]
      /\ ValidationResults \in [Vals -> {"FREE", "PENDING", "PERFORMED"}]
      /\ DumpControlBlocks \in [Loads -> BlockType]
      /\ seen \in [Hdls -> Images \cup {NoImage}]
      /\ task \in [Apps -> TaskType]
  BY Types DEF BaseInv
<1>1. UNCHANGED <<Registry, Handles, Buffers, Taken, ValidationResults, tblTask, seen>>
  BY DEF Exit, CleanUpDumps, Restart
<1>2. LoadKinds'
  BY <1>1 DEF BaseInv, LoadKinds, IsDouble
<1>3. DumpControlBlocks' \in [Loads -> BlockType]
  BY SMTT(30), <1>0 DEF Exit, CleanUpDumps, Restart, DumpCtrlBlockSetFree, BlockType
<1>4. PICK rec \in TaskType : /\ task' = [task EXCEPT ![a] = rec]
                              /\ rec.op \in {"exit", "cleanup", "idle"}
  <2>1. CASE Exit(a)
    <3>1. task' = [task EXCEPT ![a] = [task[a] EXCEPT !.op = "exit"]]
      BY <1>0, <2>1 DEF Exit
    <3>2. [task[a] EXCEPT !.op = "exit"] \in TaskType /\ [task[a] EXCEPT !.op = "exit"].op = "exit"
      BY <1>0 DEF TaskType
    <3> QED BY <3>1, <3>2, Zenon
  <2>2. CASE CleanUpDumps(a)
    <3>1. task' = [task EXCEPT ![a] = [task[a] EXCEPT !.op = "cleanup"]]
      BY <1>0, <2>2 DEF CleanUpDumps
    <3>2. [task[a] EXCEPT !.op = "cleanup"] \in TaskType /\ [task[a] EXCEPT !.op = "cleanup"].op = "cleanup"
      BY <1>0 DEF TaskType
    <3> QED BY <3>1, <3>2, Zenon
  <2>3. CASE Restart(a)
    <3>1. task' = [task EXCEPT ![a] = Idle]
      BY <2>3 DEF Restart
    <3>2. Idle \in TaskType /\ Idle.op = "idle"
      BY Constants DEF Idle
    <3> QED BY <3>1, <3>2, Zenon
  <2> QED BY <2>1, <2>2, <2>3
<1> QED BY <1>0, <1>1, <1>2, <1>3, <1>4, BaseTask

\* The beginning of CFE_TBL_Load keeps the base invariant.
LEMMA LoadStartBase ==
  ASSUME BaseInv, NEW a \in Apps, NEW h \in Hdls, LoadStart(a, h)
  PROVE  BaseInv'
<1>0. /\ Registry \in [Regs -> RegType] /\ Handles \in [Hdls -> HandleType]
      /\ ValidationResults \in [Vals -> {"FREE", "PENDING", "PERFORMED"}]
      /\ DumpControlBlocks \in [Loads -> BlockType]
      /\ seen \in [Hdls -> Images \cup {NoImage}]
  BY Types DEF BaseInv
<1> DEFINE r == Handles[h].RegIndex
<1>1. r \in Regs /\ Registry[r].DumpControlId \in Loads \cup {NONE}
  BY <1>0 DEF HandleType, RegType
<1>2. PICK buf \in BufIds :
        /\ GetWorkingBuffer(r, TRUE, buf, Registry[r].DumpControlId)
        /\ task' = [task EXCEPT ![a] = [Idle EXCEPT !.op = "fill", !.reg = r, !.buf = buf]]
  BY DEF LoadStart
<1>3. UNCHANGED <<Handles, ValidationResults, DumpControlBlocks, tblTask, seen>>
  BY DEF LoadStart
<1> HIDE DEF r
<1>4. /\ Registry' \in [Regs -> RegType] /\ LoadKinds'
      /\ Taken' \in [Loads -> BOOLEAN] /\ Buffers' \in [BufIds -> BufType]
  BY <1>1, <1>2, WorkingBufferEffect
<1> DEFINE rec == [Idle EXCEPT !.op = "fill", !.reg = r, !.buf = buf]
<1>5. rec \in TaskType /\ rec.op = "fill" /\ rec.buf \in BufIds
  BY <1>1 DEF Idle, TaskType
<1>6. task' = [task EXCEPT ![a] = rec]
  BY <1>2
<1> HIDE DEF rec
<1> QED BY <1>0, <1>3, <1>4, <1>5, <1>6, BaseTask

\* The rest of CFE_TBL_Load and of CFE_TBL_Validate.
LEMMA InCallBase == ASSUME BaseInv, NEW a \in Apps, InCall(a) PROVE BaseInv'
<1>0. /\ Registry \in [Regs -> RegType] /\ Handles \in [Hdls -> HandleType]
      /\ Buffers \in [BufIds -> BufType] /\ Taken \in [Loads -> BOOLEAN]
      /\ ValidationResults \in [Vals -> {"FREE", "PENDING", "PERFORMED"}]
      /\ DumpControlBlocks \in [Loads -> BlockType]
      /\ seen \in [Hdls -> Images \cup {NoImage}]
      /\ task \in [Apps -> TaskType] /\ task[a] \in TaskType
  BY Types DEF BaseInv
<1> DEFINE r == task[a].reg
           b == task[a].buf
<1>1. r \in Regs /\ Registry[r] \in RegType
  BY <1>0 DEF TaskType
<1>2. task[a].op \in {"fill", "finish"} => b \in BufIds
  BY DEF BaseInv, CallInv
<1>3. Idle \in TaskType /\ Idle.op = "idle"
  BY Constants DEF Idle
<1>4. CASE LoadFill(a)
  <2>1. PICK img \in Images, ok \in BOOLEAN :
          /\ Buffers' = [Buffers EXCEPT ![b].img = img]
          /\ task' = [task EXCEPT ![a].op = "finish", ![a].ok = ok]
    BY <1>4 DEF LoadFill
  <2>2. UNCHANGED <<Registry, Handles, Taken, ValidationResults, DumpControlBlocks, tblTask, seen>>
    BY <1>4 DEF LoadFill
  <2>3. b \in BufIds
    BY <1>2, <1>4 DEF LoadFill
  <2>4. Buffers' \in [BufIds -> BufType]
    BY <1>0, <2>1, <2>3 DEF BufType
  <2> DEFINE rec == [op |-> "finish", reg |-> r, buf |-> b, ok |-> ok, val |-> task[a].val]
  <2>5. rec \in TaskType /\ rec.op = "finish" /\ rec.buf \in BufIds
    BY <1>0, <1>1, <2>3 DEF TaskType
  <2>6. task' = [task EXCEPT ![a] = rec]
    <3>1. task' = [task EXCEPT ![a] = [task[a] EXCEPT !.op = "finish", !.ok = ok]]
      BY <1>0, <2>1
    <3>2. [task[a] EXCEPT !.op = "finish", !.ok = ok] = rec
      BY <1>0, TaskFields, Zenon
    <3> QED BY <3>1, <3>2, Zenon
  <2>7. LoadKinds'
    BY <2>2 DEF BaseInv, LoadKinds, IsDouble
  <2> HIDE DEF rec
  <2> QED BY <1>0, <2>2, <2>4, <2>5, <2>6, <2>7, BaseTask
<1>5. CASE LoadAbandon(a)
  <2>1. /\ Registry' = [Registry EXCEPT ![r].LoadInProgress = NONE]
        /\ task' = [task EXCEPT ![a] = Idle]
        /\ UNCHANGED <<Handles, ValidationResults, DumpControlBlocks, tblTask, seen>>
    BY <1>5 DEF LoadAbandon
  <2>2. Buffers' \in [BufIds -> BufType]
    <3>1. b \in BufIds
      BY <1>2, <1>5 DEF LoadAbandon
    <3>2. Buffers' = [Buffers EXCEPT ![b].img = IF task[a].ok THEN 0 ELSE @]
      BY <1>5 DEF LoadAbandon
    <3> QED BY <1>0, <3>1, <3>2, TBLAssumption DEF BufType
  <2>3. Taken' \in [Loads -> BOOLEAN]
    BY <1>0, <1>5, Zenon DEF LoadAbandon
  <2> HIDE DEF r, b
  <2>4. Registry' \in [Regs -> RegType]
    BY <1>0, <1>1, <2>1 DEF RegType
  <2>5. LoadKinds'
    <3>1. \A q \in Regs : /\ Registry'[q].Tbl = Registry[q].Tbl
                          /\ Registry'[q].LoadInProgress \in {NONE, Registry[q].LoadInProgress}
                          /\ Registry'[q].ActiveBufferIndex = Registry[q].ActiveBufferIndex
      BY <1>0, <2>1 DEF RegType
    <3> QED BY <3>1 DEF BaseInv, LoadKinds, IsDouble
  <2> QED BY <1>0, <1>3, <2>1, <2>2, <2>3, <2>4, <2>5, BaseTask
<1>6. CASE LoadComplete(a)
  <2>1. task' = [task EXCEPT ![a] = Idle] /\ UNCHANGED <<ValidationResults, DumpControlBlocks, tblTask, seen>>
    BY <1>6 DEF LoadComplete
  <2>2. \/ UpdateInternal(r, TRUE)
        \/ /\ Registry' = [Registry EXCEPT ![r].LoadInProgress = NONE,
                             ![r].LoadPending = FALSE, ![r].TableLoadedOnce = TRUE]
           /\ NotifyTblUsersOfUpdate(r)
           /\ UNCHANGED <<Buffers, Taken>>
    BY <1>6 DEF LoadComplete
  <2> HIDE DEF r, b
  <2>3. CASE UpdateInternal(r, TRUE)
    <3>1. /\ Registry' \in [Regs -> RegType] /\ LoadKinds'
          /\ Taken' \in [Loads -> BOOLEAN] /\ Buffers' \in [BufIds -> BufType]
          /\ Handles' \in [Hdls -> HandleType]
      BY <1>1, <2>3, UpdateEffect
    <3> QED BY <1>0, <1>3, <2>1, <3>1, BaseTask
  <2>4. CASE /\ Registry' = [Registry EXCEPT ![r].LoadInProgress = NONE,
                               ![r].LoadPending = FALSE, ![r].TableLoadedOnce = TRUE]
             /\ NotifyTblUsersOfUpdate(r)
             /\ UNCHANGED <<Buffers, Taken>>
    <3> DEFINE rec == [Registry[r] EXCEPT !.LoadInProgress = NONE,
                         !.LoadPending = FALSE, !.TableLoadedOnce = TRUE]
    <3>1. rec \in RegType
      <4>1. NONE \in {NONE, 0, 1} \cup Loads /\ FALSE \in BOOLEAN
        OBVIOUS
      <4>2. Registry[r] \in RegType /\ Registry[r].DumpControlId \in Loads \cup {NONE}
            /\ Registry[r].ActiveBufferIndex \in {0, 1}
        BY <1>1 DEF RegType
      <4> QED BY <4>1, <4>2, RegFields, Zenon
    <3>2. /\ rec.Tbl = Registry[r].Tbl /\ rec.LoadInProgress = NONE
          /\ rec.ActiveBufferIndex = Registry[r].ActiveBufferIndex
      BY <1>1 DEF RegType
    <3>3. Registry' = [Registry EXCEPT ![r] = rec]
      BY <1>0, <1>1, <2>4
    <3> HIDE DEF rec
    <3>4. Registry' \in [Regs -> RegType]
      BY <1>0, <3>1, <3>3
    <3>5. LoadKinds'
      <4>1. Registry'[r] = rec /\ \A q \in Regs \ {r} : Registry'[q] = Registry[q]
        BY <1>0, <1>1, <3>3
      <4> QED BY <1>1, <3>2, <4>1 DEF BaseInv, LoadKinds, IsDouble
    <3>6. Handles' \in [Hdls -> HandleType]
      BY ZenonT(60), <1>0, <2>4 DEF NotifyTblUsersOfUpdate, HandleType
    <3> QED BY <1>0, <1>3, <2>1, <2>4, <3>4, <3>5, <3>6, BaseTask
  <2> QED BY <2>2, <2>3, <2>4
<1>7. CASE ValidateRun(a)
  <2> DEFINE good == b # NoBuf /\ (HasValidationFunc(r) => Buffers[b].img \in ValidImages)
             rec == [op |-> "validated", reg |-> r, buf |-> b, ok |-> good, val |-> task[a].val]
  <2>1. UNCHANGED <<Registry, Handles, Buffers, Taken, ValidationResults, DumpControlBlocks, tblTask, seen>>
    BY <1>7 DEF ValidateRun
  <2>2. task' = [task EXCEPT ![a].op = "validated", ![a].ok = good]
    BY <1>7 DEF ValidateRun
  <2>3. good \in BOOLEAN /\ (good => b \in BufIds)
    <3>1. b \in BufIds \cup {NoBuf}
      BY <1>0 DEF TaskType
    <3> QED BY <3>1
  <2>4. task[a].val \in Vals
    BY <1>7 DEF ValidateRun, BaseInv, CallInv
  <2> HIDE DEF good
  <2>5. rec \in TaskType /\ rec.op = "validated" /\ rec.val \in Vals /\ (rec.ok => rec.buf \in BufIds)
    BY <1>0, <1>1, <2>3, <2>4 DEF TaskType
  <2>6. task' = [task EXCEPT ![a] = rec]
    <3>1. task' = [task EXCEPT ![a] = [task[a] EXCEPT !.op = "validated", !.ok = good]]
      BY <1>0, <2>2
    <3>2. [task[a] EXCEPT !.op = "validated", !.ok = good] = rec
      BY <1>0, TaskFields, Zenon
    <3> QED BY <3>1, <3>2, Zenon
  <2>7. LoadKinds'
    BY <2>1 DEF BaseInv, LoadKinds, IsDouble
  <2> HIDE DEF rec
  <2> QED BY <1>0, <2>1, <2>5, <2>6, <2>7, BaseTask
<1>8. CASE ValidateEnd(a)
  <2>1. /\ UNCHANGED <<Registry, Handles, Taken, DumpControlBlocks, tblTask, seen>>
        /\ task' = [task EXCEPT ![a] = Idle]
    BY <1>8 DEF ValidateEnd
  <2>2. task[a].val \in Vals /\ (task[a].ok => b \in BufIds)
    BY <1>8 DEF ValidateEnd, BaseInv, CallInv
  <2>3. Buffers' \in [BufIds -> BufType]
    BY <1>0, <1>8, <2>2 DEF ValidateEnd, BufType
  <2>4. ValidationResults' \in [Vals -> {"FREE", "PENDING", "PERFORMED"}]
    BY <1>0, <1>8 DEF ValidateEnd
  <2>5. LoadKinds'
    BY <2>1 DEF BaseInv, LoadKinds, IsDouble
  <2> HIDE DEF r, b
  <2> QED BY <1>0, <1>3, <2>1, <2>3, <2>4, <2>5, BaseTask
<1> QED BY <1>4, <1>5, <1>6, <1>7, <1>8 DEF InCall

\* The same when the TBL task goes on.
LEMMA BaseTblTask ==
  ASSUME BaseInv, UNCHANGED task, tblTask' \in TblTaskType,
         tblTask'.op = "load" => tblTask'.buf \in BufIds,
         Registry' \in [Regs -> RegType], LoadKinds', Handles' \in [Hdls -> HandleType],
         Buffers' \in [BufIds -> BufType], Taken' \in [Loads -> BOOLEAN],
         ValidationResults' \in [Vals -> {"FREE", "PENDING", "PERFORMED"}],
         DumpControlBlocks' \in [Loads -> BlockType],
         seen' \in [Hdls -> Images \cup {NoImage}]
  PROVE  BaseInv'
<1>1. task \in [Apps -> TaskType]
  BY Types DEF BaseInv
<1>2. TypeOK'
  BY <1>1, TypesNext
<1>3. CallInv'
  BY DEF BaseInv, CallInv
<1> QED BY <1>2, <1>3 DEF BaseInv

\* CFE_TBL_LoadCmd.
LEMMA LoadCmdBase ==
  ASSUME BaseInv, LoadCmdEnd \/ \E t \in Tables : LoadCmdStart(t)
  PROVE  BaseInv'
<1>0. /\ Registry \in [Regs -> RegType] /\ Handles \in [Hdls -> HandleType]
      /\ Buffers \in [BufIds -> BufType] /\ Taken \in [Loads -> BOOLEAN]
      /\ ValidationResults \in [Vals -> {"FREE", "PENDING", "PERFORMED"}]
      /\ DumpControlBlocks \in [Loads -> BlockType]
      /\ seen \in [Hdls -> Images \cup {NoImage}]
  BY Types DEF BaseInv
<1>1. CASE LoadCmdEnd
  <2> DEFINE b == tblTask.buf
  <2>1. PICK img \in Images, ok \in BOOLEAN :
          Buffers' = [Buffers EXCEPT ![b] =
            [img |-> img, Validated |-> LoadedFlag(tblTask.reg, b, ok)]]
    BY <1>1 DEF LoadCmdEnd
  <2>2. tblTask' = Idle
        /\ UNCHANGED <<Registry, Handles, Taken, ValidationResults, DumpControlBlocks, task, seen>>
    BY <1>1 DEF LoadCmdEnd
  <2>3. b \in BufIds
    BY <1>1 DEF LoadCmdEnd, BaseInv, CallInv
  <2>4. LoadedFlag(tblTask.reg, b, ok) \in BOOLEAN
    <3>1. Buffers[b].Validated \in BOOLEAN
      BY <1>0, <2>3 DEF BufType
    <3> QED BY <3>1 DEF LoadedFlag, HasValidationFunc
  <2> HIDE DEF b
  <2>5. Buffers' \in [BufIds -> BufType]
    BY <1>0, <2>1, <2>3, <2>4 DEF BufType
  <2>6. tblTask' \in TblTaskType /\ tblTask'.op = "idle"
    BY <2>2, Constants DEF Idle
  <2>7. LoadKinds'
    BY <2>2 DEF BaseInv, LoadKinds, IsDouble
  <2> QED BY <1>0, <2>2, <2>5, <2>6, <2>7, BaseTblTask
<1>2. ASSUME NEW t \in Tables, LoadCmdStart(t) PROVE BaseInv'
  <2>1. PICK r \in FindRegByName(t), buf \in BufIds :
          /\ GetWorkingBuffer(r, FALSE, buf, Registry[r].DumpControlId)
          /\ tblTask' = [Idle EXCEPT !.op = "load", !.reg = r, !.buf = buf]
    BY <1>2 DEF LoadCmdStart
  <2>2. UNCHANGED <<Handles, ValidationResults, DumpControlBlocks, task, seen>>
    BY <1>2 DEF LoadCmdStart
  <2>3. r \in Regs
    BY DEF FindRegByName
  <2>4. Registry[r].DumpControlId \in Loads \cup {NONE}
    BY <1>0, <2>3 DEF RegType
  <2>5. /\ Registry' \in [Regs -> RegType] /\ LoadKinds'
        /\ Taken' \in [Loads -> BOOLEAN] /\ Buffers' \in [BufIds -> BufType]
    BY <2>1, <2>3, <2>4, WorkingBufferEffect
  <2>6. tblTask' \in TblTaskType /\ tblTask'.buf \in BufIds
    BY <2>1, <2>3 DEF Idle, TblTaskType
  <2> QED BY <1>0, <2>2, <2>5, <2>6, BaseTblTask
<1> QED BY <1>1, <1>2

\* The commands that leave a request to the owner.
LEMMA RequestBase ==
  ASSUME BaseInv, NEW t \in Tables,
         ActivateCmd(t) \/ AbortLoadCmd(t) \/ DumpCmd(t) \/ \E active \in BOOLEAN : ValidateCmd(t, active)
  PROVE  BaseInv'
<1>0. /\ Registry \in [Regs -> RegType] /\ Handles \in [Hdls -> HandleType]
      /\ Buffers \in [BufIds -> BufType] /\ Taken \in [Loads -> BOOLEAN]
      /\ ValidationResults \in [Vals -> {"FREE", "PENDING", "PERFORMED"}]
      /\ DumpControlBlocks \in [Loads -> BlockType]
      /\ seen \in [Hdls -> Images \cup {NoImage}]
  BY Types DEF BaseInv
<1>1. \A r \in FindRegByName(t) : r \in Regs
  BY DEF FindRegByName
<1>2. CASE ActivateCmd(t)
  <2>1. PICK r \in FindRegByName(t) : Registry' = [Registry EXCEPT ![r].LoadPending = TRUE]
    BY <1>2 DEF ActivateCmd
  <2>2. UNCHANGED <<Handles, Buffers, Taken, ValidationResults, DumpControlBlocks, task, tblTask, seen>>
    BY <1>2 DEF ActivateCmd
  <2>3. Registry' \in [Regs -> RegType]
    <3>1. [Registry[r] EXCEPT !.LoadPending = TRUE] \in RegType
      BY <1>0, <1>1, PendingField, Zenon
    <3>2. Registry' = [Registry EXCEPT ![r] = [Registry[r] EXCEPT !.LoadPending = TRUE]]
      BY <1>0, <2>1
    <3> QED BY <1>0, <3>1, <3>2
  <2>4. LoadKinds'
    <3>1. \A q \in Regs : /\ Registry'[q].Tbl = Registry[q].Tbl
                          /\ Registry'[q].LoadInProgress = Registry[q].LoadInProgress
                          /\ Registry'[q].ActiveBufferIndex = Registry[q].ActiveBufferIndex
      BY <1>0, <2>1 DEF RegType
    <3> QED BY <3>1 DEF BaseInv, LoadKinds, IsDouble
  <2> QED BY <1>0, <2>2, <2>3, <2>4, BaseFrame
<1>3. CASE AbortLoadCmd(t)
  <2>1. PICK r \in FindRegByName(t) :
          /\ Taken' = [i \in Loads |-> Taken[i] /\ (IsDouble(r) \/ i # Registry[r].LoadInProgress)]
          /\ Registry' = [Registry EXCEPT ![r].LoadInProgress = NONE, ![r].LoadPending = FALSE]
    BY <1>3 DEF AbortLoadCmd
  <2>2. UNCHANGED <<Handles, Buffers, ValidationResults, DumpControlBlocks, task, tblTask, seen>>
    BY <1>3 DEF AbortLoadCmd
  <2> DEFINE rec == [Registry[r] EXCEPT !.LoadInProgress = NONE, !.LoadPending = FALSE]
  <2>3. r \in Regs /\ Registry[r] \in RegType
    BY <1>0, <1>1
  <2>4. rec \in RegType
    <3>1. NONE \in {NONE, 0, 1} \cup Loads /\ FALSE \in BOOLEAN
      OBVIOUS
    <3>2. Registry[r].DumpControlId \in Loads \cup {NONE} /\ Registry[r].ActiveBufferIndex \in {0, 1}
      BY <2>3 DEF RegType
    <3> QED BY <2>3, <3>1, <3>2, RegFields, Zenon
  <2>5. /\ rec.Tbl = Registry[r].Tbl /\ rec.LoadInProgress = NONE
        /\ rec.ActiveBufferIndex = Registry[r].ActiveBufferIndex
    BY <2>3 DEF RegType
  <2>6. Registry' = [Registry EXCEPT ![r] = rec]
    BY <1>0, <2>1, <2>3
  <2> HIDE DEF rec
  <2>7. Registry' \in [Regs -> RegType]
    BY <1>0, <2>4, <2>6
  <2>8. LoadKinds'
    <3>1. Registry'[r] = rec /\ \A q \in Regs \ {r} : Registry'[q] = Registry[q]
      BY <1>0, <2>3, <2>6
    <3> QED BY <2>3, <2>5, <3>1 DEF BaseInv, LoadKinds, IsDouble
  <2>9. Taken' \in [Loads -> BOOLEAN]
    BY <2>1, <1>0, Zenon
  <2> QED BY <1>0, <2>2, <2>7, <2>8, <2>9, BaseFrame
<1>4. CASE DumpCmd(t)
  <2> DEFINE free == {d \in Loads : DumpControlBlocks[d].State = "FREE"}
             m == Min(free)
  <2>1. m \in Loads
    <3>1. free \in SUBSET Nat /\ free # {} /\ free \subseteq Loads
      BY <1>4, Indices DEF DumpCmd
    <3> QED BY <3>1, MinIn
  <2>2. PICK r \in FindRegByName(t), buf \in BufIds :
          /\ GetWorkingBuffer(r, FALSE, buf, m)
          /\ DumpControlBlocks' = [DumpControlBlocks EXCEPT ![m] =
               [State |-> "PENDING", RegRec |-> r, DumpBuffer |-> buf]]
    BY <1>4 DEF DumpCmd
  <2>3. UNCHANGED <<Handles, ValidationResults, task, tblTask, seen>>
    BY <1>4 DEF DumpCmd
  <2> HIDE DEF free, m
  <2>4. /\ Registry' \in [Regs -> RegType] /\ LoadKinds'
        /\ Taken' \in [Loads -> BOOLEAN] /\ Buffers' \in [BufIds -> BufType]
    BY <1>1, <2>1, <2>2, WorkingBufferEffect
  <2>5. DumpControlBlocks' \in [Loads -> BlockType]
    BY <1>0, <1>1, <2>2 DEF BlockType
  <2> QED BY <1>0, <2>3, <2>4, <2>5, BaseFrame
<1>5. ASSUME NEW active \in BOOLEAN, ValidateCmd(t, active) PROVE BaseInv'
  <2> DEFINE free == {v \in Vals : ValidationResults[v] = "FREE"}
             m == Min(free)
  <2>1. m \in Vals
    <3>1. free \in SUBSET Nat /\ free # {} /\ free \subseteq Vals
      BY <1>5, Indices DEF ValidateCmd
    <3> QED BY <3>1, MinIn
  <2>2. PICK r \in FindRegByName(t) :
          /\ \/ ValidationResults' = [ValidationResults EXCEPT ![m] = "PENDING"]
             \/ ValidationResults' = [ValidationResults EXCEPT ![m] = "PERFORMED"]
          /\ \/ Registry' = [Registry EXCEPT ![r].ValidateActiveId = m]
             \/ Registry' = [Registry EXCEPT ![r].ValidateInactiveId = m]
             \/ Registry' = Registry
    BY <1>5 DEF ValidateCmd
  <2>3. UNCHANGED <<Handles, Buffers, Taken, DumpControlBlocks, task, tblTask, seen>>
    BY <1>5 DEF ValidateCmd
  <2> HIDE DEF free, m
  <2>4. Registry' \in [Regs -> RegType]
    BY <1>0, <1>1, <2>1, <2>2 DEF RegType
  <2>5. LoadKinds'
    <3>1. \A q \in Regs : /\ Registry'[q].Tbl = Registry[q].Tbl
                          /\ Registry'[q].LoadInProgress = Registry[q].LoadInProgress
                          /\ Registry'[q].ActiveBufferIndex = Registry[q].ActiveBufferIndex
      BY SMTT(30), <1>0, <1>1, <2>2 DEF RegType
    <3> QED BY <3>1 DEF BaseInv, LoadKinds, IsDouble
  <2>6. ValidationResults' \in [Vals -> {"FREE", "PENDING", "PERFORMED"}]
    BY <1>0, <2>2
  <2> QED BY <1>0, <2>3, <2>4, <2>5, <2>6, BaseFrame
<1> QED BY <1>2, <1>3, <1>4, <1>5

\* Housekeeping keeps the base invariant.
LEMMA SendHkBase == ASSUME BaseInv, SendHkCmd PROVE BaseInv'
<1>0. /\ Registry \in [Regs -> RegType] /\ Handles \in [Hdls -> HandleType]
      /\ Buffers \in [BufIds -> BufType] /\ Taken \in [Loads -> BOOLEAN]
      /\ ValidationResults \in [Vals -> {"FREE", "PENDING", "PERFORMED"}]
      /\ DumpControlBlocks \in [Loads -> BlockType]
      /\ seen \in [Hdls -> Images \cup {NoImage}]
  BY Types DEF BaseInv
<1> DEFINE dumps == {d \in Loads : DumpControlBlocks[d].State = "PERFORMED"}
           regs == {DumpControlBlocks[d].RegRec : d \in dumps}
<1>1. UNCHANGED <<Handles, Buffers, task, tblTask, seen>>
  BY DEF SendHkCmd
<1>2. ValidationResults' \in [Vals -> {"FREE", "PENDING", "PERFORMED"}]
  BY <1>0 DEF SendHkCmd
<1>3. DumpControlBlocks' \in [Loads -> BlockType]
  BY SMTT(30), <1>0 DEF SendHkCmd, DumpCtrlBlockSetFree, BlockType
<1>4. Taken' \in [Loads -> BOOLEAN]
  BY <1>0, Zenon DEF SendHkCmd
<1>5. Registry' = [r \in Regs |->
           IF r \in regs THEN [Registry[r] EXCEPT !.LoadInProgress = NONE] ELSE Registry[r]]
  BY DEF SendHkCmd
<1> HIDE DEF regs
<1>6. Registry' \in [Regs -> RegType]
  <2>1. \A r \in Regs : [Registry[r] EXCEPT !.LoadInProgress = NONE] \in RegType
    BY <1>0 DEF RegType
  <2> QED BY <1>0, <1>5, <2>1
<1>7. LoadKinds'
  <2>1. \A q \in Regs : /\ Registry'[q].Tbl = Registry[q].Tbl
                        /\ Registry'[q].LoadInProgress \in {NONE, Registry[q].LoadInProgress}
                        /\ Registry'[q].ActiveBufferIndex = Registry[q].ActiveBufferIndex
    BY <1>0, <1>5 DEF RegType
  <2> QED BY <2>1 DEF BaseInv, LoadKinds, IsDouble
<1> QED BY <1>1, <1>2, <1>3, <1>4, <1>6, <1>7, <1>0, BaseFrame

\* The base invariant holds at the start.
LEMMA BaseInit == Init => BaseInv
<1> SUFFICES ASSUME Init PROVE BaseInv
  OBVIOUS
<1>1. /\ Registry \in [Regs -> RegType] /\ Handles \in [Hdls -> HandleType]
      /\ Buffers \in [BufIds -> BufType] /\ Taken \in [Loads -> BOOLEAN]
      /\ ValidationResults \in [Vals -> {"FREE", "PENDING", "PERFORMED"}]
      /\ DumpControlBlocks \in [Loads -> BlockType]
      /\ task \in [Apps -> TaskType] /\ tblTask \in TblTaskType
      /\ seen \in [Hdls -> Images \cup {NoImage}]
  BY Constants DEF Init
<1>2. TypeOK
  BY <1>1, Types
<1>3. LoadKinds
  BY DEF Init, LoadKinds, IsDouble, InitRegistryRecord
<1>4. CallInv
  BY DEF Init, CallInv, Idle
<1> QED BY <1>2, <1>3, <1>4 DEF BaseInv

\* Every step keeps the base invariant.
LEMMA BaseStep == BaseInv /\ [Next]_vars => BaseInv'
<1> SUFFICES ASSUME BaseInv, [Next]_vars PROVE BaseInv'
  OBVIOUS
<1>1. ASSUME NEW a \in Apps, AppCall(a) PROVE BaseInv'
  BY <1>1, RegisterBase, HandleBase, LoadStartBase DEF AppCall
<1>2. ASSUME NEW a \in Apps, CleanUpApp(a) PROVE BaseInv'
  BY <1>2, CleanUpBase, HandleBase DEF CleanUpApp
<1>3. CASE Command
  BY <1>3, LoadCmdBase, RequestBase, SendHkBase DEF Command
<1>4. CASE UNCHANGED vars
  BY <1>4 DEF vars, BaseInv, TypeOK, LoadKinds, IsDouble, CallInv
<1> QED BY <1>1, <1>2, <1>3, <1>4, ManageBase, InCallBase, LoadCmdBase DEF Next

\* The base invariant holds in every reachable state.
LEMMA BaseAlways == Spec => []BaseInv
BY BaseInit, BaseStep, PTL DEF Spec

(* The types hold in every behaviour.  The half of a double-buffered table   *)
(* that CFE_TBL_UpdateInternal makes active is always the other half.        *)
THEOREM TableTypeCorrect == Spec => []TypeOK
<1>1. BaseInv => TypeOK
  BY DEF BaseInv
<1> QED BY <1>1, BaseAlways, PTL

-----------------------------------------------------------------------------
(* Owners and their tables.                                                  *)

(* A table is owned by the application that registers it, and only an        *)
(* application that may exit is cleaned up after.                            *)
OwnerInv ==
  /\ \A r \in Regs : Registry[r].OwnerAppId # NoApp =>
                       OwnerOf[Registry[r].Tbl] = Registry[r].OwnerAppId
  /\ \A a \in Apps : task[a].op \in {"exit", "cleanup"} => a \in Exits

\* A step that neither registers a table nor takes a handle away.
Quiet ==
  \/ \E a \in Apps :
       \/ \E t \in Tables : Share(a, t)
       \/ \E h \in Hdls : GetAddress(a, h) \/ ReleaseAddress(a, h) \/ LoadStart(a, h)
       \/ Manage(a) \/ InCall(a) \/ Exit(a) \/ CleanUpDumps(a) \/ Restart(a)
  \/ Command \/ LoadCmdEnd \/ UNCHANGED vars

\* A step that takes handle h away: CFE_TBL_Unregister or CFE_TBL_CleanUpApp.
Removes(a, h) ==
  /\ Handles[h].UsedFlag /\ Handles[h].AppId = a
  /\ RemoveAccessLink(h, Registry[Handles[h].RegIndex].OwnerAppId = a) /\ ReleaseHandle(h)
  /\ UNCHANGED <<Buffers, ValidationResults, DumpControlBlocks, task, tblTask>>
  /\ \/ /\ task[a].op = "idle"
        /\ Registry[Handles[h].RegIndex].OwnerAppId = a =>
             Registry[Handles[h].RegIndex].Tbl \in Unregisters
     \/ task[a].op = "cleanup"

\* A step is quiet, registers a table or takes a handle away.
LEMMA StepKinds ==
  ASSUME BaseInv, [Next]_vars
  PROVE  \/ Quiet
         \/ \E a \in Apps, t \in Tables : Register(a, t)
         \/ \E a \in Apps, h \in Hdls : Removes(a, h)
<1>1. ASSUME NEW a \in Apps, CleanUpHandle(a) PROVE \E h \in Hdls : Removes(a, h)
  <2> DEFINE h == Min(HandlesOf(a))
  <2>1. h \in HandlesOf(a)
    <3>1. HandlesOf(a) \in SUBSET Nat /\ HandlesOf(a) # {}
      BY <1>1, Indices DEF HandlesOf, CleanUpHandle
    <3> QED BY <3>1, MinIn
  <2>2. h \in Hdls /\ Handles[h].UsedFlag /\ Handles[h].AppId = a
    BY <2>1 DEF HandlesOf
  <2>3. /\ RemoveAccessLink(h, Registry[Handles[h].RegIndex].OwnerAppId = a) /\ ReleaseHandle(h)
        /\ UNCHANGED <<Buffers, ValidationResults, DumpControlBlocks, task, tblTask>>
        /\ task[a].op = "cleanup"
    BY <1>1 DEF CleanUpHandle
  <2> HIDE DEF h
  <2>4. Removes(a, h)
    BY <2>2, <2>3 DEF Removes
  <2> QED BY <2>2, <2>4
<1>2. ASSUME NEW a \in Apps, NEW h \in Hdls, Unregister(a, h) PROVE Removes(a, h)
  BY <1>2 DEF Unregister, Removes, Ready
<1>3. CASE Next
  BY <1>1, <1>2, <1>3 DEF Next, AppCall, CleanUpApp, Quiet
<1> QED BY <1>3 DEF Quiet

\* A quiet step leaves every table to its owner.
LEMMA QuietOwners ==
  ASSUME BaseInv, Quiet
  PROVE  \A q \in Regs : /\ Registry'[q].OwnerAppId = Registry[q].OwnerAppId
                         /\ Registry'[q].Tbl = Registry[q].Tbl
<1>0. /\ Registry \in [Regs -> RegType] /\ Handles \in [Hdls -> HandleType]
      /\ task \in [Apps -> TaskType]
  BY Types DEF BaseInv
<1>1. CASE UNCHANGED Registry
  BY <1>1
<1>2. ASSUME NEW r \in Regs, NEW byApp \in BOOLEAN, NEW buf \in BufIds,
             NEW dump \in Loads \cup {NONE}, GetWorkingBuffer(r, byApp, buf, dump)
      PROVE  \A q \in Regs : /\ Registry'[q].OwnerAppId = Registry[q].OwnerAppId
                             /\ Registry'[q].Tbl = Registry[q].Tbl
  <2>1. /\ \A q \in Regs \ {r} : Registry'[q] = Registry[q]
        /\ Registry'[r].OwnerAppId = Registry[r].OwnerAppId /\ Registry'[r].Tbl = Registry[r].Tbl
    BY <1>2, WorkingBufferEffect
  <2> QED BY <2>1
<1>3. ASSUME NEW r \in Regs, UpdateInternal(r, TRUE)
      PROVE  \A q \in Regs : /\ Registry'[q].OwnerAppId = Registry[q].OwnerAppId
                             /\ Registry'[q].Tbl = Registry[q].Tbl
  <2>1. /\ \A q \in Regs \ {r} : Registry'[q] = Registry[q]
        /\ \/ Registry'[r] = [Registry[r] EXCEPT !.LoadPending = TRUE]
           \/ Registry'[r] = [Registry[r] EXCEPT
                        !.LoadInProgress = NONE, !.LoadPending = FALSE, !.TableLoadedOnce = TRUE,
                        !.ActiveBufferIndex = IF IsDouble(r) THEN Registry[r].LoadInProgress ELSE @]
    BY <1>3, UpdateEffect
  <2>2. Registry'[r].OwnerAppId = Registry[r].OwnerAppId /\ Registry'[r].Tbl = Registry[r].Tbl
    BY <1>0, <2>1 DEF RegType
  <2> QED BY <2>1, <2>2
<1>4. ASSUME NEW a \in Apps, Manage(a)
      PROVE  \A q \in Regs : /\ Registry'[q].OwnerAppId = Registry[q].OwnerAppId
                             /\ Registry'[q].Tbl = Registry[q].Tbl
  <2>1. PICK h \in Hdls : Update(a, h) \/ ValidateStart(a, h) \/ DumpToBuffer(a, h)
    BY <1>4 DEF Manage
  <2>2. Handles[h].RegIndex \in Regs
    BY <1>0 DEF HandleType
  <2>3. CASE Update(a, h)
    BY <1>3, <2>2, <2>3 DEF Update
  <2>4. CASE ValidateStart(a, h) \/ DumpToBuffer(a, h)
    <3> DEFINE r == Handles[h].RegIndex
    <3>1. \/ Registry' = [Registry EXCEPT ![r].ValidateInactiveId = NONE]
          \/ Registry' = [Registry EXCEPT ![r].ValidateActiveId = NONE]
          \/ Registry' = [Registry EXCEPT ![r].DumpControlId = NONE]
      BY <2>4 DEF ValidateStart, DumpToBuffer
    <3> HIDE DEF r
    <3> QED BY <1>0, <3>1 DEF RegType
  <2> QED BY <2>1, <2>3, <2>4
<1>5. ASSUME NEW a \in Apps, InCall(a)
      PROVE  \A q \in Regs : /\ Registry'[q].OwnerAppId = Registry[q].OwnerAppId
                             /\ Registry'[q].Tbl = Registry[q].Tbl
  <2>1. task[a].reg \in Regs
    BY <1>0 DEF TaskType
  <2>2. CASE LoadFill(a) \/ ValidateRun(a) \/ ValidateEnd(a)
    BY <2>2, <1>1 DEF LoadFill, ValidateRun, ValidateEnd
  <2>3. CASE LoadAbandon(a)
    BY <1>0, <2>3 DEF LoadAbandon, RegType
  <2>4. CASE LoadComplete(a)
    <3>1. CASE UpdateInternal(task[a].reg, TRUE)
      BY <1>3, <2>1, <3>1
    <3>2. CASE Registry' = [Registry EXCEPT ![task[a].reg].LoadInProgress = NONE,
                              ![task[a].reg].LoadPending = FALSE, ![task[a].reg].TableLoadedOnce = TRUE]
      BY <1>0, <3>2 DEF RegType
    <3> QED BY <2>4, <3>1, <3>2 DEF LoadComplete
  <2> QED BY <1>5, <2>2, <2>3, <2>4 DEF InCall
<1>6. ASSUME NEW a \in Apps, NEW h \in Hdls, LoadStart(a, h)
      PROVE  \A q \in Regs : /\ Registry'[q].OwnerAppId = Registry[q].OwnerAppId
                             /\ Registry'[q].Tbl = Registry[q].Tbl
  <2>1. Handles[h].RegIndex \in Regs
    BY <1>0 DEF HandleType
  <2>2. Registry[Handles[h].RegIndex].DumpControlId \in Loads \cup {NONE}
    BY <1>0, <2>1 DEF RegType
  <2> QED BY <1>2, <1>6, <2>1, <2>2 DEF LoadStart
<1>7. CASE Command
  <2>1. \A t \in Tables : FindRegByName(t) \subseteq Regs
    BY DEF FindRegByName
  <2>2. ASSUME NEW t \in Tables, LoadCmdStart(t)
        PROVE  \A q \in Regs : /\ Registry'[q].OwnerAppId = Registry[q].OwnerAppId
                               /\ Registry'[q].Tbl = Registry[q].Tbl
    <3>1. PICK r \in FindRegByName(t), buf \in BufIds :
            GetWorkingBuffer(r, FALSE, buf, Registry[r].DumpControlId)
      BY <2>2 DEF LoadCmdStart
    <3>2. r \in Regs /\ Registry[r].DumpControlId \in Loads \cup {NONE}
      BY <1>0, <2>1 DEF RegType
    <3> QED BY <1>2, <3>1, <3>2
  <2>3. ASSUME NEW t \in Tables, DumpCmd(t)
        PROVE  \A q \in Regs : /\ Registry'[q].OwnerAppId = Registry[q].OwnerAppId
                               /\ Registry'[q].Tbl = Registry[q].Tbl
    <3> DEFINE free == {d \in Loads : DumpControlBlocks[d].State = "FREE"}
    <3>1. PICK r \in FindRegByName(t), buf \in BufIds : GetWorkingBuffer(r, FALSE, buf, Min(free))
      BY <2>3 DEF DumpCmd
    <3>2. free \in SUBSET Nat /\ free # {} /\ free \subseteq Loads
      BY <2>3, Indices DEF DumpCmd
    <3>3. Min(free) \in Loads
      BY <3>2, MinIn
    <3> HIDE DEF free
    <3> QED BY <1>2, <2>1, <3>1, <3>3
  <2>4. ASSUME NEW t \in Tables, ActivateCmd(t) \/ AbortLoadCmd(t)
        PROVE  \A q \in Regs : /\ Registry'[q].OwnerAppId = Registry[q].OwnerAppId
                               /\ Registry'[q].Tbl = Registry[q].Tbl
    <3>1. PICK r \in FindRegByName(t) :
            \/ Registry' = [Registry EXCEPT ![r].LoadPending = TRUE]
            \/ Registry' = [Registry EXCEPT ![r].LoadInProgress = NONE, ![r].LoadPending = FALSE]
      BY <2>4 DEF ActivateCmd, AbortLoadCmd
    <3> QED BY <1>0, <3>1 DEF RegType
  <2>5. ASSUME NEW t \in Tables, NEW active \in BOOLEAN, ValidateCmd(t, active)
        PROVE  \A q \in Regs : /\ Registry'[q].OwnerAppId = Registry[q].OwnerAppId
                               /\ Registry'[q].Tbl = Registry[q].Tbl
    BY <1>0, <2>5 DEF ValidateCmd, RegType
  <2>6. CASE SendHkCmd
    BY <1>0, <2>6 DEF SendHkCmd, RegType
  <2> QED BY <1>7, <2>2, <2>3, <2>4, <2>5, <2>6 DEF Command
<1>8. CASE UNCHANGED vars \/ LoadCmdEnd
  BY <1>1, <1>8 DEF vars, LoadCmdEnd
<1>9. ASSUME NEW a \in Apps, \/ \E t \in Tables : Share(a, t)
                             \/ \E h \in Hdls : GetAddress(a, h) \/ ReleaseAddress(a, h)
                             \/ Exit(a) \/ CleanUpDumps(a) \/ Restart(a)
      PROVE  UNCHANGED Registry
  BY <1>9 DEF Share, GetAddress, ReleaseAddress, Exit, CleanUpDumps, Restart
<1> QED BY <1>1, <1>4, <1>5, <1>6, <1>7, <1>8, <1>9 DEF Quiet

\* Only an application that may exit is ever cleaned up after.
LEMMA ExitsOnly ==
  ASSUME BaseInv, [Next]_vars, NEW c \in Apps, task'[c].op \in {"exit", "cleanup"}
  PROVE  task[c].op \in {"exit", "cleanup"} \/ c \in Exits
<1>0. task \in [Apps -> TaskType]
  BY Types DEF BaseInv
<1>1. CASE UNCHANGED task
  BY <1>1
<1>2. ASSUME NEW a \in Apps, NEW rec, task' = [task EXCEPT ![a] = rec],
             rec.op \notin {"exit", "cleanup"}
      PROVE  task[c].op \in {"exit", "cleanup"}
  BY <1>0, <1>2
<1>3. CASE Quiet
  <2>1. ASSUME NEW a \in Apps, NEW h \in Hdls, LoadStart(a, h) PROVE task[c].op \in {"exit", "cleanup"}
    <3>1. PICK r, buf : task' = [task EXCEPT ![a] = [Idle EXCEPT !.op = "fill", !.reg = r, !.buf = buf]]
      BY <2>1 DEF LoadStart
    <3>2. [Idle EXCEPT !.op = "fill", !.reg = r, !.buf = buf].op = "fill"
      BY DEF Idle
    <3> DEFINE rec == [Idle EXCEPT !.op = "fill", !.reg = r, !.buf = buf]
    <3>3. task' = [task EXCEPT ![a] = rec] /\ rec.op = "fill"
      BY <3>1, <3>2
    <3> HIDE DEF rec
    <3> QED BY <1>2, <3>3
  <2>2. ASSUME NEW a \in Apps, Manage(a) PROVE task[c].op \in {"exit", "cleanup"}
    <3>1. PICK h \in Hdls : Update(a, h) \/ ValidateStart(a, h) \/ DumpToBuffer(a, h)
      BY <2>2 DEF Manage
    <3>2. CASE Update(a, h) \/ DumpToBuffer(a, h)
      BY <3>2, <1>1 DEF Update, DumpToBuffer
    <3>3. CASE ValidateStart(a, h)
      <4>1. PICK r, v, b : task' = [task EXCEPT ![a] =
                [op |-> "validate", reg |-> r, val |-> v, ok |-> FALSE, buf |-> b]]
        BY <3>3 DEF ValidateStart
      <4> QED BY <1>0, <4>1
    <3> QED BY <3>1, <3>2, <3>3
  <2>3. ASSUME NEW a \in Apps, InCall(a) PROVE task[c].op \in {"exit", "cleanup"}
    <3>1. CASE LoadAbandon(a) \/ LoadComplete(a) \/ ValidateEnd(a)
      <4>1. task' = [task EXCEPT ![a] = Idle]
        BY <3>1 DEF LoadAbandon, LoadComplete, ValidateEnd
      <4> QED BY <1>0, <4>1 DEF Idle
    <3>2. CASE LoadFill(a) \/ ValidateRun(a)
      <4>1. PICK o \in {"finish", "validated"}, k \in BOOLEAN : task' = [task EXCEPT ![a].op = o, ![a].ok = k]
        BY <3>2 DEF LoadFill, ValidateRun
      <4> QED BY <1>0, <4>1 DEF TaskType
    <3> QED BY <2>3, <3>1, <3>2 DEF InCall
  <2>4. ASSUME NEW a \in Apps, Exit(a) \/ CleanUpDumps(a) \/ Restart(a)
        PROVE  task[c].op \in {"exit", "cleanup"} \/ c \in Exits
    <3>1. CASE Exit(a)
      <4>1. a \in Exits /\ task' = [task EXCEPT ![a].op = "exit"]
        BY <3>1 DEF Exit
      <4> QED BY <1>0, <4>1
    <3>2. CASE CleanUpDumps(a)
      <4>1. task[a].op = "exit" /\ task' = [task EXCEPT ![a].op = "cleanup"]
        BY <3>2 DEF CleanUpDumps
      <4> QED BY <1>0, <4>1
    <3>3. CASE Restart(a)
      <4>1. task' = [task EXCEPT ![a] = Idle]
        BY <3>3 DEF Restart
      <4> QED BY <1>0, <4>1 DEF Idle
    <3> QED BY <2>4, <3>1, <3>2, <3>3
  <2>5. ASSUME NEW a \in Apps, \/ \E t \in Tables : Share(a, t)
                               \/ \E h \in Hdls : GetAddress(a, h) \/ ReleaseAddress(a, h)
        PROVE  UNCHANGED task
    BY <2>5 DEF Share, GetAddress, ReleaseAddress
  <2>6. CASE Command \/ LoadCmdEnd \/ UNCHANGED vars
    <3>1. UNCHANGED task
      BY <2>6 DEF Command, LoadCmdEnd, LoadCmdStart, ActivateCmd, AbortLoadCmd, DumpCmd, ValidateCmd,
                  SendHkCmd, vars
    <3> QED BY <1>1, <3>1
  <2> QED BY <1>1, <1>3, <2>1, <2>2, <2>3, <2>4, <2>5, <2>6 DEF Quiet
<1>4. CASE \E a \in Apps, t \in Tables : Register(a, t)
  BY <1>1, <1>4 DEF Register
<1>5. CASE \E a \in Apps, h \in Hdls : Removes(a, h)
  BY <1>1, <1>5 DEF Removes
<1> QED BY <1>3, <1>4, <1>5, StepKinds

\* What a registration of t by a leaves behind, in record r and handle h.
Registers(a, t, r, h) ==
  /\ Registry[r].OwnerAppId = NoApp /\ Accessors(r) = {} /\ ~Handles[h].UsedFlag
  /\ Registry'[r].OwnerAppId = a /\ Registry'[r].Tbl = t /\ OwnerOf[t] = a
  /\ Registry'[r].LoadInProgress = NONE /\ Registry'[r].ActiveBufferIndex = 0
  /\ Registry'[r].LoadPending = FALSE
  /\ \A q \in Regs \ {r} : Registry'[q] = Registry[q]
  /\ \A b \in BufIds : b[1] # r => Buffers'[b] = Buffers[b]
  /\ \A k \in Hdls \ {h} : Handles'[k] = Handles[k] /\ seen'[k] = seen[k]
  /\ Handles'[h].RegIndex = r /\ Handles'[h].LockFlag = FALSE /\ Handles'[h].UsedFlag
  /\ seen'[h] = NoImage
  /\ UNCHANGED <<Taken, ValidationResults, DumpControlBlocks, task, tblTask>>

\* CFE_TBL_Register fills a record and a handle that were free.
LEMMA RegisterEffect ==
  ASSUME BaseInv, NEW a \in Apps, NEW t \in Tables, Register(a, t)
  PROVE  \E r \in Regs, h \in Hdls : Registers(a, t, r, h)
<1>0. /\ Registry \in [Regs -> RegType] /\ Handles \in [Hdls -> HandleType]
      /\ Buffers \in [BufIds -> BufType] /\ seen \in [Hdls -> Images \cup {NoImage}]
  BY Types DEF BaseInv
<1> DEFINE r == Min(FreeRegistryEntries)
           h == Min(FreeHandles)
           rec == [InitRegistryRecord EXCEPT
                     !.OwnerAppId = a, !.Tbl = t, !.TableLoadedOnce = t \in DumpOnly]
<1>1. r \in FreeRegistryEntries
  <2>1. FreeRegistryEntries \in SUBSET Nat /\ FreeRegistryEntries # {}
    BY Indices DEF FreeRegistryEntries, Register
  <2> QED BY <2>1, MinIn
<1>2. h \in FreeHandles
  <2>1. FreeHandles \in SUBSET Nat /\ FreeHandles # {}
    BY Indices DEF FreeHandles, Register
  <2> QED BY <2>1, MinIn
<1>3. /\ AllocateHandle(h, a, r, FALSE)
      /\ Registry' = [Registry EXCEPT ![r] = rec]
      /\ Buffers' = [b \in BufIds |-> IF b[1] = r THEN EmptyBuffer ELSE Buffers[b]]
      /\ UNCHANGED <<Taken, ValidationResults, DumpControlBlocks, task, tblTask>>
      /\ OwnerOf[t] = a
  BY DEF Register
<1> HIDE DEF r, h
<1>4. r \in Regs /\ Registry[r].OwnerAppId = NoApp /\ Accessors(r) = {}
  BY <1>1 DEF FreeRegistryEntries
<1>5. h \in Hdls /\ ~Handles[h].UsedFlag
  BY <1>2 DEF FreeHandles
<1>6. /\ rec.OwnerAppId = a /\ rec.Tbl = t /\ rec.LoadInProgress = NONE
      /\ rec.ActiveBufferIndex = 0 /\ rec.LoadPending = FALSE
  BY DEF InitRegistryRecord
<1> HIDE DEF rec
<1>7. Registry'[r] = rec /\ \A q \in Regs \ {r} : Registry'[q] = Registry[q]
  BY <1>0, <1>3, <1>4
<1>8. \A b \in BufIds : b[1] # r => Buffers'[b] = Buffers[b]
  BY <1>3
<1>9. /\ \A k \in Hdls \ {h} : Handles'[k] = Handles[k] /\ seen'[k] = seen[k]
      /\ seen'[h] = NoImage
      /\ Handles'[h] = [Handles[h] EXCEPT !.UsedFlag = TRUE, !.AppId = a, !.RegIndex = r,
                           !.LockFlag = FALSE, !.Updated = FALSE]
  BY <1>0, <1>3, <1>5 DEF AllocateHandle
<1>10. Handles'[h].RegIndex = r /\ Handles'[h].LockFlag = FALSE /\ Handles'[h].UsedFlag = TRUE
  BY <1>0, <1>5, <1>9 DEF HandleType
<1>11. Registers(a, t, r, h)
  BY <1>3, <1>4, <1>5, <1>6, <1>7, <1>8, <1>9, <1>10, Zenon DEF Registers
<1> QED BY <1>4, <1>5, <1>11

\* The owners of the tables, in every step.
LEMMA OwnerStep ==
  ASSUME BaseInv, OwnerInv, [Next]_vars
  PROVE  OwnerInv'
<1>0. Registry \in [Regs -> RegType] /\ Handles \in [Hdls -> HandleType]
  BY Types DEF BaseInv
<1>1. \A a \in Apps : task'[a].op \in {"exit", "cleanup"} => a \in Exits
  BY ExitsOnly DEF OwnerInv
<1>2. ASSUME NEW q \in Regs, Registry'[q].OwnerAppId # NoApp
      PROVE  OwnerOf[Registry'[q].Tbl] = Registry'[q].OwnerAppId
  <2>1. CASE Quiet
    BY <1>2, <2>1, QuietOwners DEF OwnerInv
  <2>2. CASE \E a \in Apps, t \in Tables : Register(a, t)
    <3>1. PICK a \in Apps, t \in Tables : Register(a, t)
      BY <2>2
    <3>2. PICK r \in Regs, h \in Hdls : Registers(a, t, r, h)
      BY <3>1, RegisterEffect
    <3> QED BY <1>2, <3>2 DEF OwnerInv, Registers
  <2>3. CASE \E a \in Apps, h \in Hdls : Removes(a, h)
    <3>1. PICK a \in Apps, h \in Hdls : Removes(a, h)
      BY <2>3
    <3> DEFINE r == Handles[h].RegIndex
    <3>2. RemoveAccessLink(h, Registry[r].OwnerAppId = a)
      BY <3>1 DEF Removes
    <3>3. (Registry[r].OwnerAppId = a) \in BOOLEAN /\ r \in Regs
      BY <1>0 DEF HandleType
    <3>4. \A p \in Regs : /\ Registry'[p].Tbl = Registry[p].Tbl
                          /\ Registry'[p].OwnerAppId \in {NoApp, Registry[p].OwnerAppId}
      <4> HIDE DEF r
      <4>1. PICK o \in {NoApp, Registry[r].OwnerAppId} : \E l :
              Registry' = [Registry EXCEPT ![r].OwnerAppId = o, ![r].LoadInProgress = l]
        BY <1>0, <3>2, <3>3 DEF RemoveAccessLink, r
      <4> QED BY <1>0, <3>3, <4>1 DEF RegType
    <3> QED BY <1>2, <3>4 DEF OwnerInv
  <2> QED BY <2>1, <2>2, <2>3, StepKinds
<1> QED BY <1>1, <1>2 DEF OwnerInv

\* Nothing is owned at the start.
LEMMA OwnerInit == Init => OwnerInv
<1> SUFFICES ASSUME Init PROVE OwnerInv
  OBVIOUS
<1>1. \A r \in Regs : Registry[r].OwnerAppId = NoApp
  BY DEF Init, InitRegistryRecord
<1>2. \A a \in Apps : task[a].op = "idle"
  BY DEF Init, Idle
<1> QED BY <1>1, <1>2 DEF OwnerInv

-----------------------------------------------------------------------------
(* Exclusive use of the shared load buffers.                                 *)

(* The tables that are only dumped stay registered: their owners neither     *)
(* unregister them nor exit.                                                 *)
StableDumps ==
  /\ DumpOnly \cap Unregisters = {}
  /\ \A t \in DumpOnly : OwnerOf[t] \notin Exits

(* A dump that is not over belongs to a registered dump-only table, which    *)
(* housekeeping relies on when it frees the buffer of a finished dump.       *)
DumpInv ==
  \A d \in Loads :
    DumpControlBlocks[d].State # "FREE" =>
      /\ Registry[DumpControlBlocks[d].RegRec].OwnerAppId # NoApp
      /\ Registry[DumpControlBlocks[d].RegRec].Tbl \in DumpOnly

\* What a quiet step does to the dump control blocks.
LEMMA QuietDumps ==
  ASSUME BaseInv, Quiet
  PROVE  \A d \in Loads :
           \/ DumpControlBlocks'[d].State = "FREE"
           \/ /\ DumpControlBlocks[d].State # "FREE"
              /\ DumpControlBlocks'[d].RegRec = DumpControlBlocks[d].RegRec
           \/ \E t \in DumpOnly : DumpControlBlocks'[d].RegRec \in FindRegByName(t)
<1>0. DumpControlBlocks \in [Loads -> BlockType]
  BY Types DEF BaseInv
<1>1. CASE UNCHANGED DumpControlBlocks
  BY <1>1
<1>2. ASSUME NEW a \in Apps, CleanUpDumps(a)
      PROVE  \A d \in Loads : \/ DumpControlBlocks'[d].State = "FREE"
                              \/ DumpControlBlocks'[d] = DumpControlBlocks[d]
  BY <1>0, <1>2 DEF CleanUpDumps, DumpCtrlBlockSetFree, BlockType
<1>3. CASE SendHkCmd
  <2>1. \A d \in Loads : \/ DumpControlBlocks'[d].State = "FREE"
                         \/ DumpControlBlocks'[d] = DumpControlBlocks[d]
    BY <1>0, <1>3 DEF SendHkCmd, DumpCtrlBlockSetFree, BlockType
  <2> QED BY <2>1
<1>4. ASSUME NEW a \in Apps, NEW h \in Hdls, DumpToBuffer(a, h)
      PROVE  \A d \in Loads : \/ DumpControlBlocks'[d].State = "FREE"
                              \/ /\ DumpControlBlocks[d].State # "FREE"
                                 /\ DumpControlBlocks'[d].RegRec = DumpControlBlocks[d].RegRec
  BY <1>0, <1>4 DEF DumpToBuffer, BlockType
<1>5. ASSUME NEW t \in Tables, DumpCmd(t)
      PROVE  \A d \in Loads : \/ DumpControlBlocks'[d] = DumpControlBlocks[d]
                              \/ DumpControlBlocks'[d].RegRec \in FindRegByName(t) /\ t \in DumpOnly
  <2>1. PICK r, buf, m :
          /\ r \in FindRegByName(t) /\ buf \in BufIds
          /\ DumpControlBlocks' = [DumpControlBlocks EXCEPT ![m] =
                [State |-> "PENDING", RegRec |-> r, DumpBuffer |-> buf]]
    BY <1>5 DEF DumpCmd
  <2>2. t \in DumpOnly
    BY <1>5 DEF DumpCmd
  <2> QED BY <1>0, <2>1, <2>2
<1>6. ASSUME NEW a \in Apps, \/ \E t \in Tables : Share(a, t)
                             \/ \E h \in Hdls : GetAddress(a, h) \/ ReleaseAddress(a, h) \/ LoadStart(a, h)
                             \/ \E h \in Hdls : Update(a, h) \/ ValidateStart(a, h)
                             \/ InCall(a) \/ Exit(a) \/ Restart(a)
      PROVE  UNCHANGED DumpControlBlocks
  BY <1>6 DEF Share, GetAddress, ReleaseAddress, LoadStart, Update, ValidateStart, InCall, LoadFill,
              LoadAbandon, LoadComplete, ValidateRun, ValidateEnd, Exit, Restart
<1>7. CASE LoadCmdEnd \/ UNCHANGED vars \/
           \E t \in Tables : \/ LoadCmdStart(t) \/ ActivateCmd(t) \/ AbortLoadCmd(t)
                             \/ \E active \in BOOLEAN : ValidateCmd(t, active)
  <2>1. UNCHANGED DumpControlBlocks
    BY <1>7 DEF LoadCmdEnd, vars, LoadCmdStart, ActivateCmd, AbortLoadCmd, ValidateCmd
  <2> QED BY <1>1, <2>1
<1>8. CASE \E t \in Tables : DumpCmd(t)
  <2>1. PICK t \in Tables : DumpCmd(t)
    BY <1>8
  <2>2. \A d \in Loads : \/ DumpControlBlocks'[d] = DumpControlBlocks[d]
                         \/ DumpControlBlocks'[d].RegRec \in FindRegByName(t) /\ t \in DumpOnly
    BY <1>5, <2>1
  <2> QED BY <2>2
<1>9. CASE \E a \in Apps : CleanUpDumps(a)
  BY <1>2, <1>9
<1>10. CASE \E a \in Apps, h \in Hdls : DumpToBuffer(a, h)
  BY <1>4, <1>10
<1> QED BY <1>1, <1>3, <1>6, <1>7, <1>8, <1>9, <1>10 DEF Quiet, Manage, Command

\* Dumps under way, in every step, when dump-only tables stay registered.
LEMMA DumpStep ==
  ASSUME BaseInv, OwnerInv, StableDumps, DumpInv, [Next]_vars
  PROVE  DumpInv'
<1>0. /\ Registry \in [Regs -> RegType] /\ Handles \in [Hdls -> HandleType]
      /\ DumpControlBlocks \in [Loads -> BlockType]
  BY Types DEF BaseInv
<1>a. \A d \in Loads : DumpControlBlocks[d].RegRec \in Regs
  BY <1>0 DEF BlockType
<1>1. CASE Quiet
  <2> SUFFICES ASSUME NEW d \in Loads, DumpControlBlocks'[d].State # "FREE"
               PROVE  /\ Registry'[DumpControlBlocks'[d].RegRec].OwnerAppId # NoApp
                      /\ Registry'[DumpControlBlocks'[d].RegRec].Tbl \in DumpOnly
    BY DEF DumpInv
  <2> DEFINE r == DumpControlBlocks'[d].RegRec
  <2>1. r \in Regs /\ Registry[r].OwnerAppId # NoApp /\ Registry[r].Tbl \in DumpOnly
    <3>1. CASE /\ DumpControlBlocks[d].State # "FREE"
               /\ DumpControlBlocks'[d].RegRec = DumpControlBlocks[d].RegRec
      BY <1>a, <3>1 DEF DumpInv
    <3>2. CASE \E t \in DumpOnly : DumpControlBlocks'[d].RegRec \in FindRegByName(t)
      BY <3>2 DEF FindRegByName
    <3> QED BY <1>1, <3>1, <3>2, QuietDumps
  <2> HIDE DEF r
  <2>2. Registry'[r].OwnerAppId # NoApp /\ Registry'[r].Tbl \in DumpOnly
    BY <1>1, <2>1, QuietOwners
  <2> QED BY <2>2 DEF r
<1>2. CASE \E a \in Apps, t \in Tables : Register(a, t)
  <2>1. PICK a \in Apps, t \in Tables, r \in Regs, h \in Hdls : Registers(a, t, r, h)
    BY <1>2, RegisterEffect
  <2>2. UNCHANGED DumpControlBlocks /\ Registry[r].OwnerAppId = NoApp
        /\ \A q \in Regs \ {r} : Registry'[q] = Registry[q]
    BY <2>1 DEF Registers
  <2> QED BY <1>a, <2>2 DEF DumpInv
<1>3. CASE \E a \in Apps, h \in Hdls : Removes(a, h)
  <2>1. PICK a \in Apps, h \in Hdls : Removes(a, h)
    BY <1>3
  <2> DEFINE r == Handles[h].RegIndex
  <2>2. /\ RemoveAccessLink(h, Registry[r].OwnerAppId = a) /\ UNCHANGED DumpControlBlocks
        /\ \/ Registry[r].OwnerAppId = a => Registry[r].Tbl \in Unregisters
           \/ task[a].op = "cleanup"
    BY <2>1 DEF Removes
  <2>3. r \in Regs
    BY <1>0 DEF HandleType
  <2> HIDE DEF r
  <2>4. PICK o, l : /\ Registry' = [Registry EXCEPT ![r].OwnerAppId = o, ![r].LoadInProgress = l]
                    /\ o = IF Registry[r].OwnerAppId = a THEN NoApp ELSE Registry[r].OwnerAppId
    BY <1>0, <2>2, <2>3 DEF RemoveAccessLink, r
  <2>5. /\ \A q \in Regs : Registry'[q].Tbl = Registry[q].Tbl
        /\ \A q \in Regs \ {r} : Registry'[q].OwnerAppId = Registry[q].OwnerAppId
        /\ Registry'[r].OwnerAppId = o
    BY <1>0, <2>3, <2>4 DEF RegType
  <2>6. Registry[r].Tbl \in DumpOnly /\ Registry[r].OwnerAppId # NoApp => o # NoApp
    BY <2>2, <2>3, <2>4 DEF StableDumps, OwnerInv
  <2> QED BY <1>a, <2>2, <2>5, <2>6 DEF DumpInv
<1> QED BY <1>1, <1>2, <1>3, StepKinds

\* Loads end and shared buffers are freed, but none is begun.
LEMMA ExclusiveKept ==
  ASSUME BaseInv, LoadBuffersExclusive,
         \A q \in Regs : /\ Registry'[q].LoadInProgress \in {NONE, Registry[q].LoadInProgress}
                         /\ \/ Registry'[q].Tbl = Registry[q].Tbl
                            \/ Registry'[q].LoadInProgress = NONE,
         \A i \in Loads : \/ Taken[i] => Taken'[i]
                          \/ \E r \in Regs : /\ ~IsDouble(r) /\ Registry[r].LoadInProgress = i
                                             /\ Registry'[r].LoadInProgress = NONE
  PROVE  LoadBuffersExclusive'
<1>1. ASSUME NEW q \in Regs, ~IsDouble(q)', Registry'[q].LoadInProgress # NONE
      PROVE  /\ ~IsDouble(q) /\ Registry'[q].LoadInProgress = Registry[q].LoadInProgress
             /\ Registry[q].LoadInProgress \in Loads
             /\ Taken'[Registry[q].LoadInProgress]
  <2>1. ~IsDouble(q) /\ Registry'[q].LoadInProgress = Registry[q].LoadInProgress
    BY <1>1 DEF IsDouble
  <2>2. Registry[q].LoadInProgress \in Loads
    BY <1>1, <2>1 DEF BaseInv, LoadKinds
  <2>3. Taken[Registry[q].LoadInProgress]
    BY <1>1, <2>1 DEF LoadBuffersExclusive
  <2>4. ASSUME NEW r \in Regs, ~IsDouble(r), Registry[r].LoadInProgress = Registry[q].LoadInProgress,
               Registry'[r].LoadInProgress = NONE
        PROVE  FALSE
    BY <1>1, <2>1, <2>4 DEF LoadBuffersExclusive
  <2> QED BY <2>1, <2>2, <2>3, <2>4
<1>2. ASSUME NEW q \in Regs, NEW p \in Regs \ {q}, ~IsDouble(q)', ~IsDouble(p)',
             Registry'[q].LoadInProgress # NONE
      PROVE  Registry'[p].LoadInProgress # Registry'[q].LoadInProgress
  <2>1. ~IsDouble(q) /\ Registry'[q].LoadInProgress = Registry[q].LoadInProgress
    BY <1>1, <1>2
  <2>2. CASE Registry'[p].LoadInProgress # NONE
    <3>1. ~IsDouble(p) /\ Registry'[p].LoadInProgress = Registry[p].LoadInProgress
      BY <1>1, <1>2, <2>2
    <3> QED BY <1>2, <2>1, <3>1 DEF LoadBuffersExclusive
  <2> QED BY <1>2, <2>2
<1> QED BY <1>1, <1>2 DEF LoadBuffersExclusive, IsDouble

\* CFE_TBL_GetWorkingBuffer takes a shared buffer that nobody uses.
LEMMA ExclusiveBegun ==
  ASSUME BaseInv, LoadBuffersExclusive, NEW r \in Regs, NEW byApp \in BOOLEAN, NEW buf \in BufIds,
         NEW dump \in Loads \cup {NONE}, GetWorkingBuffer(r, byApp, buf, dump)
  PROVE  LoadBuffersExclusive'
<1> DEFINE allocates == Registry[r].LoadInProgress = NONE /\ ~LoadsInPlace(r, byApp)
<1>1. /\ \A q \in Regs \ {r} : Registry'[q] = Registry[q]
      /\ Registry'[r].LoadInProgress = IF allocates THEN buf[2] ELSE Registry[r].LoadInProgress
      /\ Registry'[r].Tbl = Registry[r].Tbl
  BY WorkingBufferEffect
<1>2. /\ buf \in WorkingBuffer(r, byApp)
      /\ Taken' = [i \in Loads |-> Taken[i] \/ (allocates /\ buf = <<SHARED, i>>)]
  BY DEF GetWorkingBuffer
<1>3. \A q \in Regs : IsDouble(q)' <=> IsDouble(q)
  BY <1>1 DEF IsDouble
<1>4. \A i \in Loads : Taken[i] => Taken'[i]
  BY <1>2
<1>5. \A q \in Regs : ~IsDouble(q) => Registry[q].LoadInProgress \in Loads \cup {NONE}
  BY DEF BaseInv, LoadKinds
<1>6. CASE ~allocates
  BY <1>1, <1>4, <1>6, ExclusiveKept
<1>7. CASE allocates /\ IsDouble(r)
  <2>1. \A q \in Regs : ~IsDouble(q) => Registry'[q] = Registry[q]
    BY <1>1, <1>7
  <2> HIDE DEF allocates
  <2>2. ASSUME NEW q \in Regs, ~IsDouble(q)', Registry'[q].LoadInProgress # NONE
        PROVE  /\ Taken'[Registry'[q].LoadInProgress]
               /\ \A p \in Regs \ {q} : ~IsDouble(p)' =>
                    Registry'[p].LoadInProgress # Registry'[q].LoadInProgress
    <3>1. ~IsDouble(q) /\ Registry'[q] = Registry[q] /\ Registry[q].LoadInProgress \in Loads
      BY <1>3, <1>5, <2>1, <2>2
    <3>2. /\ Taken[Registry[q].LoadInProgress]
          /\ \A p \in Regs \ {q} : ~IsDouble(p) => Registry[p].LoadInProgress # Registry[q].LoadInProgress
      BY <2>2, <3>1 DEF LoadBuffersExclusive
    <3> QED BY <1>3, <1>4, <2>1, <3>1, <3>2
  <2> QED BY <2>2 DEF LoadBuffersExclusive, IsDouble
<1>8. CASE allocates /\ ~IsDouble(r)
  <2>1. PICK i \in FreeLoadBuffs : buf = <<SHARED, i>>
    BY <1>2, <1>8, WorkingBufferCases
  <2>2. i \in Loads /\ ~Taken[i]
    BY DEF FreeLoadBuffs
  <2>3. Registry'[r].LoadInProgress = i /\ Taken'[i]
    BY <1>1, <1>2, <1>8, <2>1, <2>2
  <2> HIDE DEF allocates
  <2>4. ASSUME NEW q \in Regs \ {r}, ~IsDouble(q)
        PROVE  Registry'[q].LoadInProgress = Registry[q].LoadInProgress /\ Registry[q].LoadInProgress # i
    <3>1. Registry[q].LoadInProgress # i
      BY <2>2, <2>4, Indices DEF LoadBuffersExclusive
    <3> QED BY <1>1, <3>1
  <2>5. ASSUME NEW q \in Regs, ~IsDouble(q)', Registry'[q].LoadInProgress # NONE
        PROVE  /\ Taken'[Registry'[q].LoadInProgress]
               /\ \A p \in Regs \ {q} : ~IsDouble(p)' =>
                    Registry'[p].LoadInProgress # Registry'[q].LoadInProgress
    <3>1. CASE q = r
      BY <1>3, <2>3, <2>4, <3>1
    <3>2. CASE q # r
      <4>1. ~IsDouble(q) /\ Registry'[q].LoadInProgress = Registry[q].LoadInProgress
            /\ Registry[q].LoadInProgress \in Loads /\ Registry[q].LoadInProgress # i
        BY <1>3, <1>5, <2>4, <2>5, <3>2
      <4>2. /\ Taken[Registry[q].LoadInProgress]
            /\ \A p \in Regs \ {q} : ~IsDouble(p) => Registry[p].LoadInProgress # Registry[q].LoadInProgress
        BY <2>5, <4>1 DEF LoadBuffersExclusive
      <4>3. \A p \in Regs \ {q} : ~IsDouble(p) => Registry'[p].LoadInProgress # Registry[q].LoadInProgress
        BY <2>3, <2>4, <4>1, <4>2
      <4> QED BY <1>3, <1>4, <4>1, <4>2, <4>3
    <3> QED BY <3>1, <3>2
  <2> QED BY <2>5 DEF LoadBuffersExclusive, IsDouble
<1> QED BY <1>6, <1>7, <1>8

\* A load that ends, applied or given up, frees its own buffer at most.
Ends(r) ==
  /\ \A q \in Regs \ {r} : Registry'[q] = Registry[q]
  /\ Registry'[r].LoadInProgress = NONE
  /\ \A i \in Loads : \/ Taken'[i] = Taken[i]
                      \/ ~IsDouble(r) /\ Registry[r].LoadInProgress = i

\* A load that ends leaves the other loads their buffers.
LEMMA ExclusiveEnded ==
  ASSUME BaseInv, LoadBuffersExclusive, NEW r \in Regs, Ends(r)
  PROVE  LoadBuffersExclusive'
<1>1. \A q \in Regs : /\ Registry'[q].LoadInProgress \in {NONE, Registry[q].LoadInProgress}
                      /\ \/ Registry'[q].Tbl = Registry[q].Tbl
                         \/ Registry'[q].LoadInProgress = NONE
  BY DEF Ends
<1>2. \A i \in Loads : \/ Taken[i] => Taken'[i]
                       \/ \E q \in Regs : /\ ~IsDouble(q) /\ Registry[q].LoadInProgress = i
                                          /\ Registry'[q].LoadInProgress = NONE
  BY DEF Ends
<1> QED BY <1>1, <1>2, ExclusiveKept

\* A step that leaves the loads alone leaves them their buffers.
LEMMA ExclusiveSame ==
  ASSUME BaseInv, LoadBuffersExclusive, UNCHANGED Taken,
         \A q \in Regs : /\ Registry'[q].LoadInProgress = Registry[q].LoadInProgress
                         /\ Registry'[q].Tbl = Registry[q].Tbl
  PROVE  LoadBuffersExclusive'
BY DEF LoadBuffersExclusive, IsDouble

\* An update leaves the other loads their buffers.
LEMMA ExclusiveUpdate ==
  ASSUME BaseInv, LoadBuffersExclusive, NEW r \in Regs, UpdateInternal(r, TRUE)
  PROVE  LoadBuffersExclusive'
<1>0. Registry[r] \in RegType
  BY Types DEF BaseInv
<1>1. /\ \A q \in Regs \ {r} : Registry'[q] = Registry[q]
      /\ \/ /\ Registry'[r] = [Registry[r] EXCEPT !.LoadPending = TRUE]
            /\ UNCHANGED Taken
         \/ /\ Registry'[r] = [Registry[r] EXCEPT
                 !.LoadInProgress = NONE, !.LoadPending = FALSE, !.TableLoadedOnce = TRUE,
                 !.ActiveBufferIndex = IF IsDouble(r) THEN Registry[r].LoadInProgress ELSE @]
            /\ Taken' = [i \in Loads |-> Taken[i] /\ (IsDouble(r) \/ i # Registry[r].LoadInProgress)]
  BY UpdateEffect
<1>2. CASE Registry'[r] = [Registry[r] EXCEPT !.LoadPending = TRUE] /\ UNCHANGED Taken
  <2>1. /\ Registry'[r].LoadInProgress = Registry[r].LoadInProgress
        /\ Registry'[r].Tbl = Registry[r].Tbl
    BY <1>0, <1>2 DEF RegType
  <2> QED BY <1>1, <1>2, <2>1, ExclusiveSame
<1>3. CASE /\ Registry'[r] = [Registry[r] EXCEPT
                 !.LoadInProgress = NONE, !.LoadPending = FALSE, !.TableLoadedOnce = TRUE,
                 !.ActiveBufferIndex = IF IsDouble(r) THEN Registry[r].LoadInProgress ELSE @]
           /\ Taken' = [i \in Loads |-> Taken[i] /\ (IsDouble(r) \/ i # Registry[r].LoadInProgress)]
  <2>1. Registry'[r].LoadInProgress = NONE
    BY <1>0, <1>3 DEF RegType
  <2>2. Taken \in [Loads -> BOOLEAN]
    BY Types DEF BaseInv
  <2>3. \A i \in Loads : \/ Taken'[i] = Taken[i]
                         \/ ~IsDouble(r) /\ Registry[r].LoadInProgress = i
    BY <1>3, <2>2, Zenon
  <2>4. Ends(r)
    BY <1>1, <2>1, <2>3 DEF Ends
  <2> QED BY <2>4, ExclusiveEnded
<1> QED BY <1>1, <1>2, <1>3

\* A quiet step keeps load buffers exclusive.
LEMMA ExclusiveQuiet ==
  ASSUME BaseInv, LoadBuffersExclusive, Quiet, DoubleBuffered = {} \/ DumpInv
  PROVE  LoadBuffersExclusive'
<1>0. /\ Registry \in [Regs -> RegType] /\ Handles \in [Hdls -> HandleType]
      /\ task \in [Apps -> TaskType] /\ Taken \in [Loads -> BOOLEAN]
      /\ DumpControlBlocks \in [Loads -> BlockType]
  BY Types DEF BaseInv
<1>1. CASE UNCHANGED <<Registry, Taken>>
  BY <1>1, ExclusiveSame
<1>2. ASSUME NEW a \in Apps, Manage(a)
      PROVE  LoadBuffersExclusive'
  <2>1. PICK h \in Hdls : Update(a, h) \/ ValidateStart(a, h) \/ DumpToBuffer(a, h)
    BY <1>2 DEF Manage
  <2>2. Handles[h].RegIndex \in Regs
    BY <1>0 DEF HandleType
  <2>3. CASE Update(a, h)
    BY <2>2, <2>3, ExclusiveUpdate DEF Update
  <2>4. CASE ValidateStart(a, h) \/ DumpToBuffer(a, h)
    <3> DEFINE r == Handles[h].RegIndex
    <3>1. \/ Registry' = [Registry EXCEPT ![r].ValidateInactiveId = NONE]
          \/ Registry' = [Registry EXCEPT ![r].ValidateActiveId = NONE]
          \/ Registry' = [Registry EXCEPT ![r].DumpControlId = NONE]
      BY <2>4 DEF ValidateStart, DumpToBuffer
    <3>2. UNCHANGED Taken
      BY <2>4 DEF ValidateStart, DumpToBuffer
    <3> HIDE DEF r
    <3>3. \A q \in Regs : /\ Registry'[q].LoadInProgress = Registry[q].LoadInProgress
                          /\ Registry'[q].Tbl = Registry[q].Tbl
      BY <1>0, <3>1 DEF RegType
    <3> QED BY <3>2, <3>3, ExclusiveSame
  <2> QED BY <2>1, <2>3, <2>4
<1>3. ASSUME NEW a \in Apps, InCall(a)
      PROVE  LoadBuffersExclusive'
  <2> DEFINE r == task[a].reg
  <2>1. r \in Regs
    BY <1>0 DEF TaskType
  <2>2. CASE LoadFill(a) \/ ValidateRun(a) \/ ValidateEnd(a)
    BY <2>2, <1>1 DEF LoadFill, ValidateRun, ValidateEnd
  <2>3. CASE LoadAbandon(a)
    <3>1. /\ Taken' = [i \in Loads |-> Taken[i] /\
               ~(~IsDouble(r) /\ Registry[r].TableLoadedOnce /\ i = Registry[r].LoadInProgress)]
          /\ Registry' = [Registry EXCEPT ![r].LoadInProgress = NONE]
      BY <2>3 DEF LoadAbandon
    <3> HIDE DEF r
    <3>2. \A q \in Regs \ {r} : Registry'[q] = Registry[q]
      BY <1>0, <3>1
    <3>3. Registry'[r].LoadInProgress = NONE
      BY <1>0, <2>1, <3>1 DEF RegType
    <3>4. \A i \in Loads : Taken'[i] = Taken[i] \/ (~IsDouble(r) /\ Registry[r].LoadInProgress = i)
      BY <1>0, <3>1, Zenon
    <3>5. Ends(r)
      BY <3>2, <3>3, <3>4 DEF Ends
    <3> QED BY <2>1, <3>5, ExclusiveEnded
  <2>4. CASE LoadComplete(a)
    <3>1. CASE UpdateInternal(task[a].reg, TRUE)
      BY <2>1, <3>1, ExclusiveUpdate
    <3>2. CASE /\ Registry' = [Registry EXCEPT ![r].LoadInProgress = NONE,
                              ![r].LoadPending = FALSE, ![r].TableLoadedOnce = TRUE]
               /\ UNCHANGED Taken
      <4> HIDE DEF r
      <4>1. (\A q \in Regs \ {r} : Registry'[q] = Registry[q]) /\ Registry'[r].LoadInProgress = NONE
        BY <1>0, <2>1, <3>2 DEF RegType
      <4>2. Ends(r)
        BY <4>1, <3>2 DEF Ends
      <4> QED BY <2>1, <4>2, ExclusiveEnded
    <3> QED BY <2>4, <3>1, <3>2 DEF LoadComplete
  <2> QED BY <1>3, <2>2, <2>3, <2>4 DEF InCall
<1>4. ASSUME NEW a \in Apps, NEW h \in Hdls, LoadStart(a, h)
      PROVE  LoadBuffersExclusive'
  <2>1. Handles[h].RegIndex \in Regs
    BY <1>0 DEF HandleType
  <2>2. Registry[Handles[h].RegIndex].DumpControlId \in Loads \cup {NONE}
    BY <1>0, <2>1 DEF RegType
  <2> QED BY <1>4, <2>1, <2>2, ExclusiveBegun DEF LoadStart
<1>5. CASE Command
  <2>1. \A t \in Tables : FindRegByName(t) \subseteq Regs
    BY DEF FindRegByName
  <2>2. ASSUME NEW t \in Tables, LoadCmdStart(t) PROVE LoadBuffersExclusive'
    <3>1. PICK r \in FindRegByName(t), buf \in BufIds :
            GetWorkingBuffer(r, FALSE, buf, Registry[r].DumpControlId)
      BY <2>2 DEF LoadCmdStart
    <3>2. r \in Regs /\ Registry[r].DumpControlId \in Loads \cup {NONE}
      BY <1>0, <2>1 DEF RegType
    <3> QED BY <3>1, <3>2, ExclusiveBegun
  <2>3. ASSUME NEW t \in Tables, DumpCmd(t) PROVE LoadBuffersExclusive'
    <3> DEFINE free == {d \in Loads : DumpControlBlocks[d].State = "FREE"}
    <3>1. PICK r \in FindRegByName(t), buf \in BufIds : GetWorkingBuffer(r, FALSE, buf, Min(free))
      BY <2>3 DEF DumpCmd
    <3>2. free \in SUBSET Nat /\ free # {} /\ free \subseteq Loads
      BY <2>3, Indices DEF DumpCmd
    <3>3. Min(free) \in Loads
      BY <3>2, MinIn
    <3> HIDE DEF free
    <3> QED BY <2>1, <3>1, <3>3, ExclusiveBegun
  <2>4. ASSUME NEW t \in Tables, ActivateCmd(t) \/ \E active \in BOOLEAN : ValidateCmd(t, active)
        PROVE LoadBuffersExclusive'
    <3>1. UNCHANGED Taken
      BY <2>4 DEF ActivateCmd, ValidateCmd
    <3>2. \A q \in Regs : /\ Registry'[q].LoadInProgress = Registry[q].LoadInProgress
                          /\ Registry'[q].Tbl = Registry[q].Tbl
      <4>1. PICK r, v :
              /\ r \in FindRegByName(t)
              /\ \/ Registry' = [Registry EXCEPT ![r].LoadPending = TRUE]
                 \/ Registry' = [Registry EXCEPT ![r].ValidateActiveId = v]
                 \/ Registry' = [Registry EXCEPT ![r].ValidateInactiveId = v]
                 \/ UNCHANGED Registry
        BY <2>4 DEF ActivateCmd, ValidateCmd
      <4> QED BY <1>0, <4>1 DEF RegType
    <3> QED BY <3>1, <3>2, ExclusiveSame
  <2>5. ASSUME NEW t \in Tables, AbortLoadCmd(t) PROVE LoadBuffersExclusive'
    <3>1. PICK r \in FindRegByName(t) :
            /\ Taken' = [i \in Loads |-> Taken[i] /\ (IsDouble(r) \/ i # Registry[r].LoadInProgress)]
            /\ Registry' = [Registry EXCEPT ![r].LoadInProgress = NONE, ![r].LoadPending = FALSE]
      BY <2>5 DEF AbortLoadCmd
    <3>2. r \in Regs
      BY <2>1
    <3>3. (\A q \in Regs \ {r} : Registry'[q] = Registry[q]) /\ Registry'[r].LoadInProgress = NONE
      BY <1>0, <3>1, <3>2 DEF RegType
    <3>4. \A i \in Loads : Taken'[i] = Taken[i] \/ (~IsDouble(r) /\ Registry[r].LoadInProgress = i)
      BY <1>0, <3>1, Zenon
    <3>5. Ends(r)
      BY <3>3, <3>4 DEF Ends
    <3> QED BY <3>2, <3>5, ExclusiveEnded
  <2>6. CASE SendHkCmd
    <3> DEFINE regs == {DumpControlBlocks[d].RegRec : d \in {e \in Loads : DumpControlBlocks[e].State = "PERFORMED"}}
    <3>1. /\ Taken' = [i \in Loads |-> Taken[i] /\ \A r \in regs : Registry[r].LoadInProgress # i]
          /\ Registry' = [r \in Regs |->
               IF r \in regs THEN [Registry[r] EXCEPT !.LoadInProgress = NONE] ELSE Registry[r]]
      BY <2>6 DEF SendHkCmd
    <3>2. regs \subseteq Regs /\ \A r \in regs : ~IsDouble(r)
      BY <1>0, TBLAssumption DEF BlockType, DumpInv, IsDouble
    <3> HIDE DEF regs
    <3>3. \A q \in Regs : /\ Registry'[q].LoadInProgress =
                               IF q \in regs THEN NONE ELSE Registry[q].LoadInProgress
                          /\ Registry'[q].Tbl = Registry[q].Tbl
      BY <1>0, <3>1 DEF RegType
    <3>4. \A i \in Loads : \/ Taken[i] => Taken'[i]
                           \/ \E r \in regs : Registry[r].LoadInProgress = i
      BY <3>1, Zenon
    <3>5. \A i \in Loads : \/ Taken[i] => Taken'[i]
                           \/ \E r \in Regs : /\ ~IsDouble(r) /\ Registry[r].LoadInProgress = i
                                              /\ Registry'[r].LoadInProgress = NONE
      BY <3>2, <3>3, <3>4
    <3> QED BY <3>3, <3>5, ExclusiveKept
  <2> QED BY <1>5, <2>2, <2>3, <2>4, <2>5, <2>6 DEF Command
<1>6. CASE UNCHANGED vars \/ LoadCmdEnd
  BY <1>1, <1>6 DEF vars, LoadCmdEnd
<1>7. ASSUME NEW a \in Apps, \/ \E t \in Tables : Share(a, t)
                             \/ \E h \in Hdls : GetAddress(a, h) \/ ReleaseAddress(a, h)
                             \/ Exit(a) \/ CleanUpDumps(a) \/ Restart(a)
      PROVE  UNCHANGED <<Registry, Taken>>
  BY <1>7 DEF Share, GetAddress, ReleaseAddress, Exit, CleanUpDumps, Restart
<1> QED BY <1>1, <1>2, <1>3, <1>4, <1>5, <1>6, <1>7 DEF Quiet

\* Every step keeps load buffers exclusive.
LEMMA ExclusiveStep ==
  ASSUME BaseInv, LoadBuffersExclusive, [Next]_vars, DoubleBuffered = {} \/ DumpInv
  PROVE  LoadBuffersExclusive'
<1>1. CASE Quiet
  BY <1>1, ExclusiveQuiet
<1>2. CASE \E a \in Apps, t \in Tables : Register(a, t)
  <2>1. PICK a \in Apps, t \in Tables, r \in Regs, h \in Hdls : Registers(a, t, r, h)
    BY <1>2, RegisterEffect
  <2>2. Ends(r)
    BY <2>1 DEF Registers, Ends
  <2> QED BY <2>2, ExclusiveEnded
<1>3. CASE \E a \in Apps, h \in Hdls : Removes(a, h)
  <2>1. PICK a \in Apps, h \in Hdls : Removes(a, h)
    BY <1>3
  <2> DEFINE r == Handles[h].RegIndex
             lip == Registry[r].LoadInProgress
             free == Accessors(r) = {h} /\ ~IsDouble(r) /\ lip # NONE
             owner == IF Registry[r].OwnerAppId = a THEN NoApp ELSE Registry[r].OwnerAppId
  <2>2. /\ Registry \in [Regs -> RegType] /\ Taken \in [Loads -> BOOLEAN] /\ r \in Regs
    BY Types DEF BaseInv, HandleType
  <2>3. /\ Registry' = [Registry EXCEPT ![r].OwnerAppId = owner,
                                        ![r].LoadInProgress = IF free THEN NONE ELSE lip]
        /\ Taken' = [i \in Loads |-> Taken[i] /\ ~(free /\ i = lip)]
    BY <2>1, <2>2 DEF Removes, RemoveAccessLink
  <2> HIDE DEF owner, r
  <2>4. /\ \A q \in Regs \ {r} : Registry'[q] = Registry[q]
        /\ Registry'[r].LoadInProgress = IF free THEN NONE ELSE lip
        /\ Registry'[r].Tbl = Registry[r].Tbl
    BY <2>2, <2>3 DEF RegType
  <2>5. CASE free
    <3>1. \A i \in Loads : Taken'[i] = Taken[i] \/ (~IsDouble(r) /\ lip = i)
      BY <2>2, <2>3, <2>5, Zenon
    <3>2. Ends(r)
      BY <2>4, <2>5, <3>1 DEF Ends
    <3> QED BY <2>2, <3>2, ExclusiveEnded
  <2>6. CASE ~free
    <3>1. \A i \in Loads : Taken'[i] = Taken[i]
      BY <2>2, <2>3, <2>6, Zenon
    <3>2. \A q \in Regs : /\ Registry'[q].LoadInProgress = Registry[q].LoadInProgress
                          /\ Registry'[q].Tbl = Registry[q].Tbl
      BY <2>4, <2>6
    <3> HIDE DEF free
    <3> QED BY <3>1, <3>2, ExclusiveKept
  <2> QED BY <2>5, <2>6
<1> QED BY <1>1, <1>2, <1>3, StepKinds

(* A shared load buffer is marked as taken while a single-buffered table     *)
(* loads or dumps through it, and no other table does: the allocation in     *)
(* CFE_TBL_GetWorkingBuffer and the frees of CFE_TBL_Load, Update, AbortLoad *)
(* and SendHkCmd agree, in every order.  SendHkCmd frees LoadBuffs[n] for    *)
(* the load in progress of whatever table the dump's record is by then: had  *)
(* the dump-only table made place for a double-buffered one, n would be an   *)
(* index of that table's own buffers.  Hence the hypothesis.                 *)
THEOREM LoadBuffersNotShared ==
  ASSUME DoubleBuffered = {} \/ StableDumps
  PROVE  Spec => []LoadBuffersExclusive
<1> DEFINE IInv == /\ BaseInv /\ OwnerInv /\ LoadBuffersExclusive
                   /\ (StableDumps => DumpInv)
<1>1. Init => IInv
  <2>1. Init => DumpInv
    BY DEF Init, DumpInv, FreeBlock
  <2>2. Init => LoadBuffersExclusive
    BY DEF Init, LoadBuffersExclusive, InitRegistryRecord
  <2> QED BY <2>1, <2>2, BaseInit, OwnerInit
<1>2. IInv /\ [Next]_vars => IInv'
  <2> SUFFICES ASSUME IInv, [Next]_vars PROVE IInv'
    OBVIOUS
  <2>1. BaseInv'
    BY BaseStep
  <2>2. OwnerInv'
    BY OwnerStep
  <2>3. StableDumps => DumpInv'
    BY DumpStep
  <2>4. LoadBuffersExclusive'
    BY ExclusiveStep
  <2>5. StableDumps' <=> StableDumps
    BY DEF StableDumps
  <2> QED BY <2>1, <2>2, <2>3, <2>4, <2>5
<1>3. IInv => LoadBuffersExclusive
  OBVIOUS
<1> QED BY <1>1, <1>2, <1>3, PTL DEF Spec

-----------------------------------------------------------------------------
(* What the holders of a table see.                                          *)

(* The double-buffered tables are loaded once by their owners, which keep    *)
(* them: every later load comes from the ground.                             *)
SteadyDoubles ==
  \A t \in DoubleBuffered : t \notin Reloads /\ t \notin Unregisters /\ OwnerOf[t] \notin Exits

(* CFE_TBL_Load fills a shared buffer, or the active buffer of a table that  *)
(* was never loaded; the caller owns the table all the while.                *)
FillInv ==
  \A a \in Apps : task[a].op \in {"fill", "finish"} =>
    /\ Registry[task[a].reg].OwnerAppId = a
    /\ \/ task[a].buf[1] = SHARED /\ ~IsDouble(task[a].reg)
       \/ /\ task[a].buf = GetActiveBuffer(task[a].reg)
          /\ ~Registry[task[a].reg].TableLoadedOnce

(* CFE_TBL_LoadCmd fills a shared buffer, or the inactive buffer of a table, *)
(* which nobody holds and which will not be activated before it is done.     *)
CmdInv ==
  (tblTask.op = "load" /\ tblTask.buf[1] # SHARED) =>
    /\ IsDouble(tblTask.reg) /\ Registry[tblTask.reg].OwnerAppId # NoApp
    /\ Registry[tblTask.reg].LoadPending = FALSE
    /\ tblTask.buf = <<tblTask.reg, 1 - Registry[tblTask.reg].ActiveBufferIndex>>
    /\ Locking(tblTask.reg, 1 - Registry[tblTask.reg].ActiveBufferIndex) = {}

(* Nobody holds the inactive buffer that a load in progress writes. *)
LockInv ==
  \A r \in Regs : IsDouble(r) /\ Registry[r].LoadInProgress # NONE =>
                    Locking(r, 1 - Registry[r].ActiveBufferIndex) = {}

(* Nobody has read a table that was never loaded. *)
UnreadInv ==
  \A h \in Hdls : Handles[h].UsedFlag /\ ~Registry[Handles[h].RegIndex].TableLoadedOnce =>
                    seen[h] = NoImage

(* Dumps go to the shared buffers. *)
DumpBuf == \A d \in Loads : DumpControlBlocks[d].DumpBuffer[1] = SHARED

ReaderInv == /\ BaseInv /\ OwnerInv /\ FillInv /\ CmdInv /\ LockInv /\ UnreadInv /\ DumpBuf
             /\ NoStaleReader

\* What a step may do to a handle that is in use after it.
Reads(h) ==
  LET r == Handles[h].RegIndex
  IN  /\ UNCHANGED <<Registry, Buffers>>
      /\ seen'[h] = IF Registry[r].TableLoadedOnce
                    THEN Buffers[<<r, Registry[r].ActiveBufferIndex>>].img ELSE NoImage

KeepsHandle(h) ==
  /\ Handles[h].UsedFlag /\ Handles'[h].RegIndex = Handles[h].RegIndex
  /\ Handles'[h].LockFlag =>
       \/ Handles[h].LockFlag /\ Handles'[h].BufferIndex = Handles[h].BufferIndex
       \/ Handles'[h].BufferIndex = Registry[Handles[h].RegIndex].ActiveBufferIndex
  /\ \/ seen'[h] = seen[h] /\ (Handles[h].Updated => Handles'[h].Updated)
     \/ Reads(h)

NewHandle(h) == Handles'[h].LockFlag = FALSE /\ seen'[h] = NoImage

\* CFE_TBL_NotifyTblUsersOfUpdate changes nothing but the Updated flags.
LEMMA NotifyEffect ==
  ASSUME Handles \in [Hdls -> HandleType], NEW r \in Regs, NotifyTblUsersOfUpdate(r)
  PROVE  \A h \in Hdls :
           /\ Handles'[h].UsedFlag = Handles[h].UsedFlag /\ Handles'[h].RegIndex = Handles[h].RegIndex
           /\ Handles'[h].LockFlag = Handles[h].LockFlag
           /\ Handles'[h].BufferIndex = Handles[h].BufferIndex
           /\ Handles[h].Updated => Handles'[h].Updated
           /\ h \in Accessors(r) => Handles'[h].Updated
<1> SUFFICES ASSUME NEW h \in Hdls
             PROVE  /\ Handles'[h].UsedFlag = Handles[h].UsedFlag
                    /\ Handles'[h].RegIndex = Handles[h].RegIndex
                    /\ Handles'[h].LockFlag = Handles[h].LockFlag
                    /\ Handles'[h].BufferIndex = Handles[h].BufferIndex
                    /\ Handles[h].Updated => Handles'[h].Updated
                    /\ h \in Accessors(r) => Handles'[h].Updated
  OBVIOUS
<1>1. Handles'[h] = IF h \in Accessors(r) THEN [Handles[h] EXCEPT !.Updated = TRUE] ELSE Handles[h]
  BY DEF NotifyTblUsersOfUpdate
<1>2. CASE h \in Accessors(r)
  <2>1. Handles'[h] = [Handles[h] EXCEPT !.Updated = TRUE]
    BY <1>1, <1>2
  <2>2. Handles'[h].Updated = TRUE
    BY <2>1 DEF HandleType
  <2> QED BY <2>1, <2>2 DEF HandleType
<1>3. CASE h \notin Accessors(r)
  BY <1>1, <1>3
<1> QED BY <1>2, <1>3

\* The handles after every step.
LEMMA HandleStep ==
  ASSUME BaseInv, [Next]_vars, NEW h \in Hdls, Handles'[h].UsedFlag
  PROVE  KeepsHandle(h) \/ NewHandle(h)
<1>0. /\ Registry \in [Regs -> RegType] /\ Handles \in [Hdls -> HandleType]
      /\ seen \in [Hdls -> Images \cup {NoImage}] /\ task \in [Apps -> TaskType]
  BY Types DEF BaseInv
<1>1. CASE UNCHANGED <<Handles, seen>>
  BY <1>1 DEF KeepsHandle
<1>2. ASSUME NEW r \in Regs, NotifyTblUsersOfUpdate(r), UNCHANGED seen
      PROVE  KeepsHandle(h)
  BY <1>0, <1>2, NotifyEffect DEF KeepsHandle
<1>3. ASSUME NEW r \in Regs, UpdateInternal(r, TRUE), UNCHANGED seen
      PROVE  KeepsHandle(h)
  <2>1. UNCHANGED Handles \/ NotifyTblUsersOfUpdate(r)
    BY <1>3, UpdateEffect
  <2> QED BY <1>1, <1>2, <1>3, <2>1 DEF KeepsHandle
<1>4. ASSUME NEW k \in Hdls, NEW a \in Apps, NEW r \in Regs, NEW u \in BOOLEAN, AllocateHandle(k, a, r, u)
      PROVE  KeepsHandle(h) \/ NewHandle(h)
  <2>1. CASE h # k
    <3>1. Handles'[h] = Handles[h] /\ seen'[h] = seen[h]
      BY <1>0, <1>4, <2>1 DEF AllocateHandle
    <3> QED BY <3>1 DEF KeepsHandle
  <2>2. CASE h = k
    <3>1. /\ Handles'[h] = [Handles[h] EXCEPT !.UsedFlag = TRUE, !.AppId = a, !.RegIndex = r,
                              !.LockFlag = FALSE, !.Updated = u]
          /\ seen'[h] = NoImage
      BY <1>0, <1>4, <2>2 DEF AllocateHandle
    <3>2. Handles'[h].LockFlag = FALSE
      BY <1>0, <3>1 DEF HandleType
    <3> QED BY <3>1, <3>2 DEF NewHandle
  <2> QED BY <2>1, <2>2
<1>5. CASE \E a \in Apps, t \in Tables : Register(a, t)
  <2>1. PICK a \in Apps, t \in Tables, r \in Regs, k \in Hdls : Registers(a, t, r, k)
    BY <1>5, RegisterEffect
  <2>2. CASE h # k
    <3>1. Handles'[h] = Handles[h] /\ seen'[h] = seen[h]
      BY <2>1, <2>2 DEF Registers
    <3> QED BY <3>1 DEF KeepsHandle
  <2>3. CASE h = k
    BY <2>1, <2>3 DEF Registers, NewHandle
  <2> QED BY <2>2, <2>3
<1>6. CASE \E a \in Apps, k \in Hdls : Removes(a, k)
  <2>1. PICK k \in Hdls : ReleaseHandle(k)
    BY <1>6 DEF Removes
  <2>2. h # k
    <3>1. Handles'[k] = FreeHandle
      BY <1>0, <2>1 DEF ReleaseHandle
    <3> QED BY <3>1 DEF FreeHandle
  <2>3. Handles'[h] = Handles[h] /\ seen'[h] = seen[h]
    BY <1>0, <2>1, <2>2 DEF ReleaseHandle
  <2> QED BY <2>3 DEF KeepsHandle
<1>7. ASSUME NEW a \in Apps, NEW t \in Tables, Share(a, t)
      PROVE  KeepsHandle(h) \/ NewHandle(h)
  <2>1. Min(FreeHandles) \in Hdls
    <3>1. FreeHandles \in SUBSET Nat /\ FreeHandles # {} /\ FreeHandles \subseteq Hdls
      BY <1>7, Indices DEF FreeHandles, Share
    <3> QED BY <3>1, MinIn
  <2>2. PICK r \in FindRegByName(t) : AllocateHandle(Min(FreeHandles), a, r, Registry[r].TableLoadedOnce)
    BY <1>7 DEF Share
  <2>3. r \in Regs /\ Registry[r].TableLoadedOnce \in BOOLEAN
    BY <1>0 DEF FindRegByName, RegType
  <2> QED BY <1>4, <2>1, <2>2, <2>3
<1>8. ASSUME NEW a \in Apps, NEW k \in Hdls, GetAddress(a, k) \/ ReleaseAddress(a, k)
      PROVE  KeepsHandle(h)
  <2>1. CASE h # k
    <3>1. Handles'[h] = Handles[h] /\ seen'[h] = seen[h]
      BY <1>0, <1>8, <2>1 DEF GetAddress, ReleaseAddress
    <3> QED BY <3>1 DEF KeepsHandle
  <2>2. CASE h = k /\ GetAddress(a, k)
    <3> DEFINE r == Handles[h].RegIndex
    <3>1. /\ Handles' = [Handles EXCEPT ![h].LockFlag = TRUE, ![h].Updated = FALSE,
                                        ![h].BufferIndex = Registry[r].ActiveBufferIndex]
          /\ Reads(h) /\ Handles[h].UsedFlag
      BY <1>0, <2>2 DEF GetAddress, Reads, MayAccess
    <3>2. Handles'[h].BufferIndex = Registry[r].ActiveBufferIndex /\ Handles'[h].RegIndex = r
      BY <1>0, <3>1 DEF HandleType
    <3> QED BY <3>1, <3>2 DEF KeepsHandle
  <2>3. CASE h = k /\ ReleaseAddress(a, k)
    <3>1. /\ Handles' = [Handles EXCEPT ![h].LockFlag = FALSE]
          /\ seen' = seen /\ Handles[h].UsedFlag
      BY <2>3 DEF ReleaseAddress, MayAccess
    <3>2. /\ Handles'[h].RegIndex = Handles[h].RegIndex /\ Handles'[h].LockFlag = FALSE
          /\ Handles'[h].Updated = Handles[h].Updated
      BY <1>0, <3>1 DEF HandleType
    <3> QED BY <3>1, <3>2 DEF KeepsHandle
  <2> QED BY <1>8, <2>1, <2>2, <2>3
<1>9. ASSUME NEW a \in Apps, Manage(a) PROVE KeepsHandle(h)
  <2>1. PICK k \in Hdls : Update(a, k) \/ ValidateStart(a, k) \/ DumpToBuffer(a, k)
    BY <1>9 DEF Manage
  <2>2. Handles[k].RegIndex \in Regs
    BY <1>0 DEF HandleType
  <2>3. CASE Update(a, k)
    BY <1>3, <2>2, <2>3 DEF Update
  <2>4. CASE ValidateStart(a, k) \/ DumpToBuffer(a, k)
    BY <2>4 DEF ValidateStart, DumpToBuffer, KeepsHandle
  <2> QED BY <2>1, <2>3, <2>4
<1>10. ASSUME NEW a \in Apps, InCall(a) PROVE KeepsHandle(h)
  <2>1. task[a].reg \in Regs
    BY <1>0 DEF TaskType
  <2>2. CASE LoadComplete(a)
    <3>1. UNCHANGED seen /\ (UpdateInternal(task[a].reg, TRUE) \/ NotifyTblUsersOfUpdate(task[a].reg))
      BY <2>2 DEF LoadComplete
    <3> QED BY <1>2, <1>3, <2>1, <3>1
  <2>3. CASE LoadFill(a) \/ LoadAbandon(a) \/ ValidateRun(a) \/ ValidateEnd(a)
    BY <2>3 DEF LoadFill, LoadAbandon, ValidateRun, ValidateEnd, KeepsHandle
  <2> QED BY <1>10, <2>2, <2>3 DEF InCall
<1>11. CASE Command \/ LoadCmdEnd \/ UNCHANGED vars
  <2>1. UNCHANGED <<Handles, seen>>
    BY <1>11 DEF Command, LoadCmdStart, ActivateCmd, AbortLoadCmd, DumpCmd, ValidateCmd, SendHkCmd,
                 LoadCmdEnd, vars
  <2> QED BY <1>1, <2>1
<1>12. ASSUME NEW a \in Apps, (\E k \in Hdls : LoadStart(a, k)) \/ Exit(a) \/ CleanUpDumps(a) \/ Restart(a)
       PROVE  UNCHANGED <<Handles, seen>>
  BY <1>12 DEF LoadStart, Exit, CleanUpDumps, Restart
<1>13. CASE Quiet
  BY <1>1, <1>7, <1>8, <1>9, <1>10, <1>11, <1>12, <1>13 DEF Quiet
<1> QED BY <1>5, <1>6, <1>13, StepKinds

\* What a step may do to an entry of the registry.
SameEntry(q) ==
  /\ Registry'[q].OwnerAppId = Registry[q].OwnerAppId /\ Registry'[q].Tbl = Registry[q].Tbl
  /\ Registry'[q].TableLoadedOnce = Registry[q].TableLoadedOnce
  /\ Registry'[q].ActiveBufferIndex = Registry[q].ActiveBufferIndex

KeptEntry(q) ==
  /\ SameEntry(q)
  /\ IsDouble(q) =>
       /\ Registry'[q].LoadPending => Registry[q].LoadPending \/ tblTask.op = "idle"
       /\ \/ Registry'[q].LoadInProgress \in {NONE, Registry[q].LoadInProgress}
          \/ Locking(q, 1 - Registry[q].ActiveBufferIndex) = {}

NewEntry(q) ==
  /\ Registry[q].OwnerAppId = NoApp /\ Accessors(q) = {} /\ Registry'[q].LoadInProgress = NONE

UpdatedEntry(q) ==
  /\ Registry'[q].OwnerAppId = Registry[q].OwnerAppId /\ Registry'[q].Tbl = Registry[q].Tbl
  /\ \E a \in Apps : /\ Registry[q].OwnerAppId = a
                     /\ task[a].op \in {"idle", "finish"}
                     /\ task'[a].op = "idle"
  /\ Registry'[q].LoadInProgress = NONE /\ Registry'[q].LoadPending = FALSE
  /\ Registry'[q].TableLoadedOnce = TRUE
  /\ \A h \in Accessors(q) : Handles'[h].Updated
  /\ IsDouble(q) => \/ Registry'[q].ActiveBufferIndex = Registry[q].ActiveBufferIndex
                    \/ Registry[q].LoadPending

DisownedEntry(q) ==
  /\ ~IsDouble(q) /\ Registry'[q].Tbl = Registry[q].Tbl
  /\ Registry'[q].TableLoadedOnce = Registry[q].TableLoadedOnce
  /\ Registry'[q].OwnerAppId = NoApp /\ UNCHANGED task
  /\ \E a \in Apps : Registry[q].OwnerAppId = a /\ task[a].op \in {"idle", "cleanup"}

EntryStep(q) == KeptEntry(q) \/ NewEntry(q) \/ UpdatedEntry(q) \/ DisownedEntry(q)

\* An update, by the owner.
LEMMA UpdateEntry ==
  ASSUME BaseInv, NEW r \in Regs, UpdateInternal(r, TRUE), NEW q \in Regs, NEW a \in Apps,
         Registry[r].OwnerAppId = a, task'[a].op = "idle", task[a].op \in {"idle", "finish"},
         IsDouble(r) => Registry[r].LoadPending
  PROVE  EntryStep(q)
<1>0. Registry[r] \in RegType /\ Handles \in [Hdls -> HandleType]
  BY Types DEF BaseInv
<1>1. CASE q # r
  <2>1. Registry'[q] = Registry[q]
    BY <1>1, UpdateEffect
  <2> QED BY <2>1 DEF EntryStep, KeptEntry, SameEntry
<1>2. CASE Registry'[r] = [Registry[r] EXCEPT !.LoadPending = TRUE]
  <2>1. SameEntry(r) /\ Registry'[r].LoadInProgress = Registry[r].LoadInProgress
    BY <1>0, <1>2 DEF SameEntry, RegType
  <2>2. KeptEntry(r)
    BY <2>1 DEF KeptEntry
  <2> QED BY <1>1, <2>2 DEF EntryStep
<1>3. CASE /\ Registry'[r] = [Registry[r] EXCEPT
                 !.LoadInProgress = NONE, !.LoadPending = FALSE, !.TableLoadedOnce = TRUE,
                 !.ActiveBufferIndex = IF IsDouble(r) THEN Registry[r].LoadInProgress ELSE @]
           /\ NotifyTblUsersOfUpdate(r)
  <2>1. /\ Registry'[r].OwnerAppId = Registry[r].OwnerAppId /\ Registry'[r].Tbl = Registry[r].Tbl
        /\ Registry'[r].LoadInProgress = NONE /\ Registry'[r].LoadPending = FALSE
        /\ Registry'[r].TableLoadedOnce = TRUE
    BY <1>0, <1>3 DEF RegType
  <2>2. \A h \in Accessors(r) : Handles'[h].Updated
    BY <1>0, <1>3, NotifyEffect DEF Accessors
  <2>3. UpdatedEntry(r)
    BY <2>1, <2>2 DEF UpdatedEntry
  <2> QED BY <1>1, <2>3 DEF EntryStep
<1>4. \/ Registry'[r] = [Registry[r] EXCEPT !.LoadPending = TRUE]
      \/ /\ Registry'[r] = [Registry[r] EXCEPT
                 !.LoadInProgress = NONE, !.LoadPending = FALSE, !.TableLoadedOnce = TRUE,
                 !.ActiveBufferIndex = IF IsDouble(r) THEN Registry[r].LoadInProgress ELSE @]
         /\ NotifyTblUsersOfUpdate(r)
  BY UpdateEffect
<1> QED BY <1>2, <1>3, <1>4

\* CFE_TBL_GetWorkingBuffer.
LEMMA WorkingBufferEntry ==
  ASSUME BaseInv, NEW r \in Regs, NEW byApp \in BOOLEAN, NEW buf \in BufIds,
         NEW dump \in Loads \cup {NONE}, GetWorkingBuffer(r, byApp, buf, dump), NEW q \in Regs
  PROVE  /\ EntryStep(q) /\ SameEntry(q)
         /\ Registry'[q].LoadPending = Registry[q].LoadPending
<1>1. /\ \A p \in Regs \ {r} : Registry'[p] = Registry[p]
      /\ Registry'[r].LoadInProgress =
              IF Registry[r].LoadInProgress = NONE /\ ~LoadsInPlace(r, byApp)
              THEN buf[2] ELSE Registry[r].LoadInProgress
      /\ Registry'[r].LoadPending = Registry[r].LoadPending
      /\ SameEntry(r)
  BY WorkingBufferEffect DEF SameEntry
<1>2. CASE q # r
  BY <1>1, <1>2 DEF EntryStep, KeptEntry, SameEntry
<1>3. CASE q = r
  <2>1. buf \in WorkingBuffer(r, byApp)
    BY DEF GetWorkingBuffer
  <2>2. IsDouble(r) => \/ Registry'[r].LoadInProgress = Registry[r].LoadInProgress
                       \/ Locking(r, 1 - Registry[r].ActiveBufferIndex) = {}
    BY <1>1, <2>1, WorkingBufferCases
  <2>3. KeptEntry(r)
    BY <1>1, <2>2 DEF KeptEntry
  <2> QED BY <1>1, <1>3, <2>3 DEF EntryStep
<1> QED BY <1>2, <1>3

\* Every step does one of four things to a table's record.
LEMMA RegistryStep ==
  ASSUME BaseInv, OwnerInv, FillInv, SteadyDoubles, [Next]_vars, NEW q \in Regs
  PROVE  EntryStep(q)
<1>0. /\ Registry \in [Regs -> RegType] /\ Handles \in [Hdls -> HandleType]
      /\ DumpControlBlocks \in [Loads -> BlockType] /\ task \in [Apps -> TaskType]
  BY Types DEF BaseInv
<1>1. CASE UNCHANGED Registry
  BY <1>1 DEF EntryStep, KeptEntry, SameEntry
<1>2. ASSUME NEW a \in Apps, Manage(a) PROVE EntryStep(q)
  <2>1. PICK h \in Hdls : Update(a, h) \/ ValidateStart(a, h) \/ DumpToBuffer(a, h)
    BY <1>2 DEF Manage
  <2> DEFINE r == Handles[h].RegIndex
  <2>2. r \in Regs
    BY <1>0 DEF HandleType
  <2>3. CASE Update(a, h)
    <3>1. /\ UpdateInternal(r, TRUE) /\ Registry[r].OwnerAppId = a /\ task[a].op = "idle"
          /\ Registry[r].LoadPending /\ UNCHANGED task
      BY <2>3 DEF Update, MayOwn, MayAccess, Ready
    <3> HIDE DEF r
    <3> QED BY <2>2, <3>1, UpdateEntry
  <2>4. CASE ValidateStart(a, h) \/ DumpToBuffer(a, h)
    <3>1. \/ Registry' = [Registry EXCEPT ![r].ValidateInactiveId = NONE]
          \/ Registry' = [Registry EXCEPT ![r].ValidateActiveId = NONE]
          \/ Registry' = [Registry EXCEPT ![r].DumpControlId = NONE]
      BY <2>4 DEF ValidateStart, DumpToBuffer
    <3> HIDE DEF r
    <3>2. /\ SameEntry(q) /\ Registry'[q].LoadInProgress = Registry[q].LoadInProgress
          /\ Registry'[q].LoadPending = Registry[q].LoadPending
      BY <1>0, <3>1 DEF RegType, SameEntry
    <3> QED BY <3>2 DEF EntryStep, KeptEntry
  <2> QED BY <2>1, <2>3, <2>4
<1>3. ASSUME NEW a \in Apps, InCall(a) PROVE EntryStep(q)
  <2> DEFINE r == task[a].reg
  <2>1. r \in Regs
    BY <1>0 DEF TaskType
  <2>2. CASE LoadFill(a) \/ ValidateRun(a) \/ ValidateEnd(a)
    BY <2>2, <1>1 DEF LoadFill, ValidateRun, ValidateEnd
  <2>3. CASE LoadAbandon(a)
    <3>1. Registry' = [Registry EXCEPT ![r].LoadInProgress = NONE]
      BY <2>3 DEF LoadAbandon
    <3> HIDE DEF r
    <3>2. /\ SameEntry(q) /\ Registry'[q].LoadInProgress \in {NONE, Registry[q].LoadInProgress}
          /\ Registry'[q].LoadPending = Registry[q].LoadPending
      BY <1>0, <3>1 DEF RegType, SameEntry
    <3> QED BY <3>2 DEF EntryStep, KeptEntry
  <2>4. CASE LoadComplete(a)
    <3>1. task[a].op = "finish" /\ task' = [task EXCEPT ![a] = Idle]
      BY <2>4 DEF LoadComplete
    <3>2. task'[a].op = "idle"
      BY <1>0, <3>1 DEF Idle
    <3>3. Registry[r].OwnerAppId = a /\ (IsDouble(r) => ~Registry[r].TableLoadedOnce)
      BY <3>1 DEF FillInv
    <3>4. CASE Registry[r].TableLoadedOnce /\ UpdateInternal(r, TRUE)
      <4> HIDE DEF r
      <4> QED BY <2>1, <3>1, <3>2, <3>3, <3>4, UpdateEntry
    <3>5. CASE /\ Registry' = [Registry EXCEPT ![r].LoadInProgress = NONE,
                              ![r].LoadPending = FALSE, ![r].TableLoadedOnce = TRUE]
               /\ NotifyTblUsersOfUpdate(r)
      <4> HIDE DEF r
      <4>1. CASE q # r
        <5>1. Registry'[q] = Registry[q]
          BY <1>0, <3>5, <4>1
        <5> QED BY <5>1 DEF EntryStep, KeptEntry, SameEntry
      <4>2. CASE q = r
        <5>1. /\ Registry'[r].OwnerAppId = Registry[r].OwnerAppId /\ Registry'[r].Tbl = Registry[r].Tbl
              /\ Registry'[r].LoadInProgress = NONE /\ Registry'[r].LoadPending = FALSE
              /\ Registry'[r].TableLoadedOnce = TRUE
              /\ Registry'[r].ActiveBufferIndex = Registry[r].ActiveBufferIndex
          BY <1>0, <2>1, <3>5 DEF RegType
        <5>2. \A h \in Accessors(r) : Handles'[h].Updated
          BY <1>0, <2>1, <3>5, NotifyEffect DEF Accessors
        <5>3. UpdatedEntry(r)
          BY <3>1, <3>2, <3>3, <5>1, <5>2 DEF UpdatedEntry
        <5> QED BY <4>2, <5>3 DEF EntryStep
      <4> QED BY <4>1, <4>2
    <3> QED BY <2>4, <3>4, <3>5 DEF LoadComplete
  <2> QED BY <1>3, <2>2, <2>3, <2>4 DEF InCall
<1>4. ASSUME NEW a \in Apps, NEW h \in Hdls, LoadStart(a, h) PROVE EntryStep(q)
  <2>1. Handles[h].RegIndex \in Regs
    BY <1>0 DEF HandleType
  <2>2. Registry[Handles[h].RegIndex].DumpControlId \in Loads \cup {NONE}
    BY <1>0, <2>1 DEF RegType
  <2>3. PICK buf \in BufIds : GetWorkingBuffer(Handles[h].RegIndex, TRUE, buf,
                                Registry[Handles[h].RegIndex].DumpControlId)
    BY <1>4 DEF LoadStart
  <2> QED BY <2>1, <2>2, <2>3, WorkingBufferEntry
<1>5. CASE Command
  <2>1. \A t \in Tables : FindRegByName(t) \subseteq Regs
    BY DEF FindRegByName
  <2>2. ASSUME NEW t \in Tables, LoadCmdStart(t) PROVE EntryStep(q)
    <3>1. PICK r \in FindRegByName(t), buf \in BufIds :
            GetWorkingBuffer(r, FALSE, buf, Registry[r].DumpControlId)
      BY <2>2 DEF LoadCmdStart
    <3>2. r \in Regs /\ Registry[r].DumpControlId \in Loads \cup {NONE}
      BY <1>0, <2>1 DEF RegType
    <3> QED BY <3>1, <3>2, WorkingBufferEntry
  <2>3. ASSUME NEW t \in Tables, DumpCmd(t) PROVE EntryStep(q)
    <3> DEFINE free == {d \in Loads : DumpControlBlocks[d].State = "FREE"}
    <3>1. PICK r \in FindRegByName(t), buf \in BufIds : GetWorkingBuffer(r, FALSE, buf, Min(free))
      BY <2>3 DEF DumpCmd
    <3>2. free \in SUBSET Nat /\ free # {} /\ free \subseteq Loads
      BY <2>3, Indices DEF DumpCmd
    <3>3. Min(free) \in Loads
      BY <3>2, MinIn
    <3> HIDE DEF free
    <3> QED BY <2>1, <3>1, <3>3, WorkingBufferEntry
  <2>4. CASE TblReady /\ SameEntry(q) /\ Registry'[q].LoadInProgress \in {NONE, Registry[q].LoadInProgress}
    BY <2>4 DEF TblReady, EntryStep, KeptEntry
  <2>5. ASSUME NEW t \in Tables, \/ ActivateCmd(t) \/ AbortLoadCmd(t)
                                 \/ \E active \in BOOLEAN : ValidateCmd(t, active)
        PROVE  EntryStep(q)
    <3>1. TblReady
      BY <2>5 DEF ActivateCmd, AbortLoadCmd, ValidateCmd
    <3>2. PICK r, v :
            \/ Registry' = [Registry EXCEPT ![r].LoadPending = TRUE]
            \/ Registry' = [Registry EXCEPT ![r].LoadInProgress = NONE, ![r].LoadPending = FALSE]
            \/ Registry' = [Registry EXCEPT ![r].ValidateActiveId = v]
            \/ Registry' = [Registry EXCEPT ![r].ValidateInactiveId = v]
            \/ UNCHANGED Registry
      BY <2>5 DEF ActivateCmd, AbortLoadCmd, ValidateCmd
    <3>3. SameEntry(q) /\ Registry'[q].LoadInProgress \in {NONE, Registry[q].LoadInProgress}
      BY <1>0, <3>2 DEF RegType, SameEntry
    <3> QED BY <2>4, <3>1, <3>3
  <2>6. CASE SendHkCmd
    <3>1. SameEntry(q) /\ Registry'[q].LoadInProgress \in {NONE, Registry[q].LoadInProgress}
      BY <1>0, <2>6 DEF SendHkCmd, RegType, SameEntry
    <3> QED BY <2>4, <2>6, <3>1 DEF SendHkCmd
  <2> QED BY <1>5, <2>2, <2>3, <2>5, <2>6 DEF Command
<1>6. CASE UNCHANGED vars \/ LoadCmdEnd
  BY <1>1, <1>6 DEF vars, LoadCmdEnd
<1>7. ASSUME NEW a \in Apps, \/ \E t \in Tables : Share(a, t)
                             \/ \E h \in Hdls : GetAddress(a, h) \/ ReleaseAddress(a, h)
                             \/ Exit(a) \/ CleanUpDumps(a) \/ Restart(a)
      PROVE  UNCHANGED Registry
  BY <1>7 DEF Share, GetAddress, ReleaseAddress, Exit, CleanUpDumps, Restart
<1>8. CASE Quiet
  BY <1>1, <1>2, <1>3, <1>4, <1>5, <1>6, <1>7, <1>8 DEF Quiet
<1>9. CASE \E a \in Apps, t \in Tables : Register(a, t)
  <2>1. PICK a \in Apps, t \in Tables, r \in Regs, h \in Hdls : Registers(a, t, r, h)
    BY <1>9, RegisterEffect
  <2>2. CASE q # r
    <3>1. Registry'[q] = Registry[q]
      BY <2>1, <2>2 DEF Registers
    <3> QED BY <3>1 DEF EntryStep, KeptEntry, SameEntry
  <2>3. CASE q = r
    BY <2>1, <2>3 DEF Registers, EntryStep, NewEntry
  <2> QED BY <2>2, <2>3
<1>10. CASE \E a \in Apps, h \in Hdls : Removes(a, h)
  <2>1. PICK a \in Apps, h \in Hdls : Removes(a, h)
    BY <1>10
  <2> DEFINE r == Handles[h].RegIndex
             owner == IF Registry[r].OwnerAppId = a THEN NoApp ELSE Registry[r].OwnerAppId
  <2>2. r \in Regs
    BY <1>0 DEF HandleType
  <2>3. PICK l \in {NONE, Registry[r].LoadInProgress} :
          Registry' = [Registry EXCEPT ![r].OwnerAppId = owner, ![r].LoadInProgress = l]
    BY <1>0, <2>1, <2>2 DEF Removes, RemoveAccessLink
  <2>4. /\ UNCHANGED task
        /\ \/ /\ task[a].op = "idle"
              /\ Registry[r].OwnerAppId = a => Registry[r].Tbl \in Unregisters
           \/ task[a].op = "cleanup"
    BY <2>1 DEF Removes
  <2> HIDE DEF r, owner
  <2>5. CASE q # r
    <3>1. Registry'[q] = Registry[q]
      BY <1>0, <2>3, <2>5
    <3> QED BY <3>1 DEF EntryStep, KeptEntry, SameEntry
  <2>6. /\ Registry'[r].Tbl = Registry[r].Tbl
        /\ Registry'[r].TableLoadedOnce = Registry[r].TableLoadedOnce
        /\ Registry'[r].ActiveBufferIndex = Registry[r].ActiveBufferIndex
        /\ Registry'[r].LoadPending = Registry[r].LoadPending
        /\ Registry'[r].OwnerAppId = owner
        /\ Registry'[r].LoadInProgress \in {NONE, Registry[r].LoadInProgress}
    BY <1>0, <2>2, <2>3 DEF RegType
  <2>7. CASE Registry[r].OwnerAppId = a
    <3>1. owner = NoApp
      BY <2>7 DEF owner
    <3>2. ~IsDouble(r)
      <4>1. OwnerOf[Registry[r].Tbl] = a
        BY <2>2, <2>7, TBLAssumption DEF OwnerInv
      <4>2. task[a].op = "cleanup" => a \in Exits
        BY DEF OwnerInv
      <4> QED BY <2>4, <2>7, <4>1, <4>2 DEF SteadyDoubles, IsDouble
    <3>3. DisownedEntry(r)
      BY <2>4, <2>6, <2>7, <3>1, <3>2 DEF DisownedEntry
    <3> QED BY <2>5, <3>3 DEF EntryStep
  <2>8. CASE Registry[r].OwnerAppId # a
    <3>1. owner = Registry[r].OwnerAppId
      BY <2>8 DEF owner
    <3>2. KeptEntry(r)
      BY <2>6, <3>1 DEF KeptEntry, SameEntry
    <3> QED BY <2>5, <3>2 DEF EntryStep
  <2> QED BY <2>7, <2>8
<1> QED BY <1>8, <1>9, <1>10, StepKinds

\* What a step may do to the image in buffer i of table r.
SameImage(r, i) == Buffers'[<<r, i>>].img = Buffers[<<r, i>>].img

BufferStep(r, i) ==
  \/ SameImage(r, i)
  \/ Accessors(r) = {}
  \/ /\ IsDouble(r) /\ i = 1 - Registry[r].ActiveBufferIndex
     /\ Locking(r, 1 - Registry[r].ActiveBufferIndex) = {}
  \/ Registry[r].TableLoadedOnce = FALSE
  \/ ~IsDouble(r) /\ \A h \in Accessors(r) : ~Handles[h].LockFlag /\ Handles'[h].Updated

\* One image is written.
LEMMA ImageWritten ==
  ASSUME BaseInv, NEW b \in BufIds, NEW r \in Regs, NEW i \in {0, 1}, b # <<r, i>>,
         \A c \in BufIds : c # b => Buffers'[c].img = Buffers[c].img
  PROVE  SameImage(r, i)
BY Indices DEF SameImage

\* Getting a working buffer disturbs no image that is read.
LEMMA WorkingBufferImage ==
  ASSUME BaseInv, NEW p \in Regs, NEW byApp \in BOOLEAN, NEW buf \in BufIds,
         NEW dump, GetWorkingBuffer(p, byApp, buf, dump), NEW r \in Regs, NEW i \in {0, 1}
  PROVE  BufferStep(r, i)
<1>0. Buffers \in [BufIds -> BufType]
  BY Types DEF BaseInv
<1>1. buf \in WorkingBuffer(p, byApp)
  BY DEF GetWorkingBuffer
<1>2. CASE Buffers' = Buffers
  BY <1>2 DEF BufferStep, SameImage
<1>3. CASE /\ Registry[p].LoadInProgress = NONE /\ ~LoadsInPlace(p, byApp)
           /\ Buffers' = [Buffers EXCEPT ![buf].img = Buffers[GetActiveBuffer(p)].img]
  <2>1. \A c \in BufIds : c # buf => Buffers'[c].img = Buffers[c].img
    BY <1>0, <1>3
  <2>2. CASE <<r, i>> # buf
    BY <2>1, <2>2, ImageWritten DEF BufferStep
  <2>3. CASE <<r, i>> = buf
    <3>1. CASE IsDouble(p)
      <4>1. buf = <<p, 1 - Registry[p].ActiveBufferIndex>> /\ Locking(p, 1 - Registry[p].ActiveBufferIndex) = {}
        BY <1>1, <1>3, <3>1, WorkingBufferCases
      <4>2. r = p /\ i = 1 - Registry[p].ActiveBufferIndex
        BY <2>3, <4>1
      <4> QED BY <3>1, <4>1, <4>2 DEF BufferStep
    <3>2. CASE ~IsDouble(p)
      <4>1. PICK j \in FreeLoadBuffs : buf = <<SHARED, j>>
        BY <1>1, <1>3, <3>2, WorkingBufferCases
      <4>2. r = SHARED
        BY <2>3, <4>1
      <4> QED BY <4>2, Indices
    <3> QED BY <3>1, <3>2
  <2> QED BY <2>2, <2>3
<1> QED BY <1>2, <1>3 DEF GetWorkingBuffer

\* An update disturbs only images that may be written.
LEMMA UpdateImage ==
  ASSUME BaseInv, NEW p \in Regs, UpdateInternal(p, TRUE), NEW r \in Regs, NEW i \in {0, 1}
  PROVE  BufferStep(r, i)
<1>0. Buffers \in [BufIds -> BufType] /\ Handles \in [Hdls -> HandleType]
  BY Types DEF BaseInv
<1>1. CASE Buffers' = Buffers
  BY <1>1 DEF BufferStep, SameImage
<1>2. CASE /\ ~IsDouble(p) /\ Updatable(p) /\ NotifyTblUsersOfUpdate(p)
           /\ Buffers' = [Buffers EXCEPT ![<<p, 0>>].img =
                             Buffers[<<SHARED, Registry[p].LoadInProgress>>].img]
  <2>1. \A c \in BufIds : c # <<p, 0>> => Buffers'[c].img = Buffers[c].img
    BY <1>0, <1>2
  <2>2. CASE r # p
    BY <2>1, <2>2, ImageWritten, Indices DEF BufferStep
  <2>3. CASE r = p
    <3>1. \A h \in Accessors(p) : Handles'[h].Updated
      BY <1>0, <1>2, NotifyEffect DEF Accessors
    <3>2. \A h \in Accessors(p) : ~Handles[h].LockFlag
      BY <1>2 DEF Updatable
    <3> QED BY <1>2, <2>3, <3>1, <3>2 DEF BufferStep
  <2> QED BY <2>2, <2>3
<1>3. \/ Buffers' = Buffers
      \/ /\ Updatable(p) /\ NotifyTblUsersOfUpdate(p)
         /\ Buffers' = IF IsDouble(p) THEN Buffers
                       ELSE [Buffers EXCEPT ![<<p, 0>>].img =
                               Buffers[<<SHARED, Registry[p].LoadInProgress>>].img]
  BY UpdateEffect
<1> QED BY <1>1, <1>2, <1>3

\* Every step disturbs only images that may be written.
LEMMA ImageStep ==
  ASSUME BaseInv, FillInv, CmdInv, DumpBuf, [Next]_vars, NEW r \in Regs, NEW i \in {0, 1}
  PROVE  BufferStep(r, i)
<1>0. /\ Registry \in [Regs -> RegType] /\ Handles \in [Hdls -> HandleType]
      /\ Buffers \in [BufIds -> BufType] /\ task \in [Apps -> TaskType]
      /\ DumpControlBlocks \in [Loads -> BlockType]
  BY Types DEF BaseInv
<1>1. CASE UNCHANGED Buffers
  BY <1>1 DEF BufferStep, SameImage
<1>2. ASSUME NEW a \in Apps, Manage(a) PROVE BufferStep(r, i)
  <2>1. PICK h \in Hdls : Update(a, h) \/ ValidateStart(a, h) \/ DumpToBuffer(a, h)
    BY <1>2 DEF Manage
  <2>2. Handles[h].RegIndex \in Regs
    BY <1>0 DEF HandleType
  <2>3. CASE Update(a, h)
    BY <2>2, <2>3, UpdateImage DEF Update
  <2>4. CASE ValidateStart(a, h)
    BY <1>1, <2>4 DEF ValidateStart
  <2>5. CASE DumpToBuffer(a, h)
    <3> DEFINE d == Registry[Handles[h].RegIndex].DumpControlId
               b == DumpControlBlocks[d].DumpBuffer
    <3>1. PICK x : Buffers' = IF b = NoBuf THEN Buffers ELSE [Buffers EXCEPT ![b].img = x]
      BY <2>5 DEF DumpToBuffer
    <3>2. d \in Loads
      BY <1>0, <2>2, <2>5 DEF DumpToBuffer, DumpPending, RegType
    <3>3. b \in BufIds \cup {NoBuf} /\ b[1] = SHARED
      BY <1>0, <3>2 DEF BlockType, DumpBuf
    <3> HIDE DEF d, b
    <3>4. CASE b = NoBuf
      BY <1>1, <3>1, <3>4
    <3>5. CASE b # NoBuf
      <4>1. b \in BufIds /\ b # <<r, i>>
        BY <3>3, <3>5, Indices
      <4>2. \A c \in BufIds : c # b => Buffers'[c].img = Buffers[c].img
        BY <1>0, <3>1, <3>5
      <4> QED BY <4>1, <4>2, ImageWritten DEF BufferStep
    <3> QED BY <3>4, <3>5
  <2> QED BY <2>1, <2>3, <2>4, <2>5
<1>3. ASSUME NEW a \in Apps, InCall(a) PROVE BufferStep(r, i)
  <2> DEFINE p == task[a].reg
             b == task[a].buf
  <2>1. p \in Regs
    BY <1>0 DEF TaskType
  <2>2. CASE LoadFill(a) \/ LoadAbandon(a)
    <3>1. task[a].op \in {"fill", "finish"} /\ \E x : Buffers' = [Buffers EXCEPT ![b].img = x]
      BY <2>2 DEF LoadFill, LoadAbandon
    <3>2. b \in BufIds
      BY <3>1 DEF BaseInv, CallInv
    <3>3. \/ b[1] = SHARED
          \/ b = GetActiveBuffer(p) /\ ~Registry[p].TableLoadedOnce
      BY <3>1 DEF FillInv
    <3>4. \A c \in BufIds : c # b => Buffers'[c].img = Buffers[c].img
      BY <1>0, <3>1
    <3>5. CASE b = <<r, i>>
      <4>1. r = p /\ ~Registry[p].TableLoadedOnce
        BY <3>3, <3>5, Indices DEF GetActiveBuffer
      <4>2. Registry[p].TableLoadedOnce \in BOOLEAN
        BY <1>0, <2>1 DEF RegType
      <4> QED BY <4>1, <4>2 DEF BufferStep
    <3> HIDE DEF b
    <3>6. CASE b # <<r, i>>
      BY <3>2, <3>4, <3>6, ImageWritten DEF BufferStep
    <3> QED BY <3>5, <3>6
  <2>3. CASE LoadComplete(a)
    BY <1>1, <2>1, <2>3, UpdateImage DEF LoadComplete
  <2>4. CASE ValidateRun(a)
    BY <1>1, <2>4 DEF ValidateRun
  <2>5. CASE ValidateEnd(a)
    <3>1. Buffers' = Buffers \/ Buffers' = [Buffers EXCEPT ![b].Validated = TRUE]
      BY <2>5 DEF ValidateEnd
    <3> HIDE DEF b
    <3>2. \A c \in BufIds : Buffers'[c].img = Buffers[c].img
      BY <1>0, <3>1 DEF BufType
    <3> QED BY <3>2, Indices DEF BufferStep, SameImage
  <2> QED BY <1>3, <2>2, <2>3, <2>4, <2>5 DEF InCall
<1>4. ASSUME NEW a \in Apps, NEW h \in Hdls, LoadStart(a, h) PROVE BufferStep(r, i)
  <2>1. Handles[h].RegIndex \in Regs
    BY <1>0 DEF HandleType
  <2>2. PICK buf \in BufIds : GetWorkingBuffer(Handles[h].RegIndex, TRUE, buf,
                                Registry[Handles[h].RegIndex].DumpControlId)
    BY <1>4 DEF LoadStart
  <2> QED BY <2>1, <2>2, WorkingBufferImage
<1>5. CASE Command
  <2>1. \A t \in Tables : FindRegByName(t) \subseteq Regs
    BY DEF FindRegByName
  <2>2. ASSUME NEW t \in Tables, LoadCmdStart(t) \/ DumpCmd(t) PROVE BufferStep(r, i)
    <3>1. PICK p, buf, d : /\ p \in FindRegByName(t) /\ buf \in BufIds
                           /\ GetWorkingBuffer(p, FALSE, buf, d)
      BY <2>2 DEF LoadCmdStart, DumpCmd
    <3> QED BY <2>1, <3>1, WorkingBufferImage
  <2>3. CASE SendHkCmd \/ \E t \in Tables : \/ ActivateCmd(t) \/ AbortLoadCmd(t)
                                           \/ \E active \in BOOLEAN : ValidateCmd(t, active)
    <3>1. UNCHANGED Buffers
      BY <2>3 DEF SendHkCmd, ActivateCmd, AbortLoadCmd, ValidateCmd
    <3> QED BY <1>1, <3>1
  <2> QED BY <1>5, <2>2, <2>3 DEF Command
<1>6. CASE LoadCmdEnd
  <2> DEFINE b == tblTask.buf
             p == tblTask.reg
  <2>1. tblTask.op = "load" /\ \E x : Buffers' = [Buffers EXCEPT ![b] = x]
    BY <1>6 DEF LoadCmdEnd
  <2>2. b \in BufIds
    BY <2>1 DEF BaseInv, CallInv
  <2>3. b[1] # SHARED => /\ IsDouble(p) /\ b = <<p, 1 - Registry[p].ActiveBufferIndex>>
                         /\ Locking(p, 1 - Registry[p].ActiveBufferIndex) = {}
    BY <2>1 DEF CmdInv
  <2>4. \A c \in BufIds : c # b => Buffers'[c].img = Buffers[c].img
    BY <1>0, <2>1
  <2>5. CASE b = <<r, i>>
    <3>1. b[1] # SHARED
      BY <2>5, Indices
    <3>2. r = p /\ i = 1 - Registry[p].ActiveBufferIndex
      BY <2>3, <2>5, <3>1
    <3> QED BY <2>3, <3>1, <3>2 DEF BufferStep
  <2>6. CASE b # <<r, i>>
    <3> HIDE DEF b
    <3> QED BY <2>2, <2>4, <2>6, ImageWritten DEF BufferStep
  <2> QED BY <2>5, <2>6
<1>7. CASE UNCHANGED vars
  BY <1>1, <1>7 DEF vars
<1>8. ASSUME NEW a \in Apps, \/ \E t \in Tables : Share(a, t)
                             \/ \E h \in Hdls : GetAddress(a, h) \/ ReleaseAddress(a, h)
                             \/ Exit(a) \/ CleanUpDumps(a) \/ Restart(a)
      PROVE  UNCHANGED Buffers
  BY <1>8 DEF Share, GetAddress, ReleaseAddress, Exit, CleanUpDumps, Restart
<1>9. CASE Quiet
  BY <1>1, <1>2, <1>3, <1>4, <1>5, <1>6, <1>7, <1>8, <1>9 DEF Quiet
<1>10. CASE \E a \in Apps, t \in Tables : Register(a, t)
  <2>1. PICK a \in Apps, t \in Tables, p \in Regs, h \in Hdls : Registers(a, t, p, h)
    BY <1>10, RegisterEffect
  <2>2. Accessors(p) = {} /\ \A b \in BufIds : b[1] # p => Buffers'[b] = Buffers[b]
    BY <2>1 DEF Registers
  <2> QED BY <2>2, Indices DEF BufferStep, SameImage
<1>11. CASE \E a \in Apps, h \in Hdls : Removes(a, h)
  BY <1>1, <1>11 DEF Removes
<1> QED BY <1>9, <1>10, <1>11, StepKinds

\* CFE_TBL_Load, in every step: it goes on, or it begins.
Begins(a) ==
  /\ Registry[task'[a].reg].OwnerAppId = a
  /\ task[a].op = "idle" /\ task'[a].op = "fill"
  /\ \/ task'[a].buf[1] = SHARED /\ ~IsDouble(task'[a].reg)
     \/ task'[a].buf = GetActiveBuffer(task'[a].reg) /\ ~Registry[task'[a].reg].TableLoadedOnce

GoesOn(a) == /\ task[a].op \in {"fill", "finish"}
             /\ task'[a].reg = task[a].reg /\ task'[a].buf = task[a].buf

\* A CFE_TBL_Load that is under way after a step went on or began in it.
LEMMA CallStep ==
  ASSUME BaseInv, SteadyDoubles, [Next]_vars, NEW a \in Apps, task'[a].op \in {"fill", "finish"}
  PROVE  GoesOn(a) \/ Begins(a)
<1>0. /\ Registry \in [Regs -> RegType] /\ Handles \in [Hdls -> HandleType]
      /\ task \in [Apps -> TaskType]
  BY Types DEF BaseInv
<1>1. CASE UNCHANGED task
  BY <1>1 DEF GoesOn
<1>2. ASSUME NEW c \in Apps, NEW rec, task' = [task EXCEPT ![c] = rec],
             rec.op \notin {"fill", "finish"}
      PROVE  GoesOn(a)
  BY <1>0, <1>2 DEF GoesOn
<1>3. ASSUME NEW c \in Apps, NEW h \in Hdls, LoadStart(c, h) PROVE GoesOn(a) \/ Begins(a)
  <2> DEFINE r == Handles[h].RegIndex
  <2>1. PICK buf \in BufIds :
          /\ GetWorkingBuffer(r, TRUE, buf, Registry[r].DumpControlId)
          /\ task' = [task EXCEPT ![c] = [Idle EXCEPT !.op = "fill", !.reg = r, !.buf = buf]]
    BY <1>3 DEF LoadStart
  <2>2. /\ r \in Regs /\ buf \in WorkingBuffer(r, TRUE)
    BY <1>0, <2>1 DEF HandleType, GetWorkingBuffer
  <2>3. /\ task[c].op = "idle" /\ Registry[r].OwnerAppId = c /\ Registry[r].LoadInProgress = NONE
        /\ Registry[r].TableLoadedOnce => Registry[r].Tbl \in Reloads
    BY <1>3 DEF LoadStart, MayOwn, MayAccess, Ready
  <2> HIDE DEF r
  <2>4. CASE a # c
    BY <1>0, <2>1, <2>4 DEF GoesOn
  <2>5. CASE a = c
    <3> DEFINE rec == [Idle EXCEPT !.op = "fill", !.reg = r, !.buf = buf]
    <3>1. rec.op = "fill" /\ rec.reg = r /\ rec.buf = buf
      BY DEF Idle
    <3>2. task'[a] = rec
      BY <1>0, <2>1, <2>5
    <3> HIDE DEF rec
    <3>3. CASE ~Registry[r].TableLoadedOnce
      <4>1. buf = GetActiveBuffer(r)
        BY <2>2, <2>3, <3>3, WorkingBufferCases DEF LoadsInPlace
      <4> QED BY <2>3, <2>5, <3>1, <3>2, <3>3, <4>1 DEF Begins
    <3>4. CASE Registry[r].TableLoadedOnce
      <4>1. ~IsDouble(r)
        BY <2>3, <3>4 DEF SteadyDoubles, IsDouble
      <4>2. \E j \in FreeLoadBuffs : buf = <<SHARED, j>>
        BY <2>2, <2>3, <3>4, <4>1, WorkingBufferCases DEF LoadsInPlace
      <4>3. buf[1] = SHARED
        BY <4>2
      <4> QED BY <2>3, <2>5, <3>1, <3>2, <4>1, <4>3 DEF Begins
    <3> QED BY <3>3, <3>4
  <2> QED BY <2>4, <2>5
<1>4. ASSUME NEW c \in Apps, Manage(c) PROVE GoesOn(a)
  <2>1. PICK h \in Hdls : Update(c, h) \/ ValidateStart(c, h) \/ DumpToBuffer(c, h)
    BY <1>4 DEF Manage
  <2>2. CASE Update(c, h) \/ DumpToBuffer(c, h)
    BY <2>2 DEF Update, DumpToBuffer, GoesOn
  <2>3. CASE ValidateStart(c, h)
    <3>1. PICK r, v, b : task' = [task EXCEPT ![c] =
              [op |-> "validate", reg |-> r, val |-> v, ok |-> FALSE, buf |-> b]]
      BY <2>3 DEF ValidateStart
    <3> QED BY <1>2, <3>1
  <2> QED BY <2>1, <2>2, <2>3
<1>5. ASSUME NEW c \in Apps, InCall(c) PROVE GoesOn(a)
  <2>1. CASE LoadAbandon(c) \/ LoadComplete(c) \/ ValidateEnd(c)
    <3>1. task' = [task EXCEPT ![c] = Idle] /\ Idle.op = "idle"
      BY <2>1 DEF LoadAbandon, LoadComplete, ValidateEnd, Idle
    <3> QED BY <1>2, <3>1
  <2>2. CASE LoadFill(c)
    <3>1. task[c].op = "fill" /\ \E k : task' = [task EXCEPT ![c].op = "finish", ![c].ok = k]
      BY <2>2 DEF LoadFill
    <3> QED BY <1>0, <3>1 DEF TaskType, GoesOn
  <2>3. CASE ValidateRun(c)
    <3>1. \E k : task' = [task EXCEPT ![c].op = "validated", ![c].ok = k]
      BY <2>3 DEF ValidateRun
    <3> QED BY <1>0, <3>1 DEF TaskType, GoesOn
  <2> QED BY <1>5, <2>1, <2>2, <2>3 DEF InCall
<1>6. ASSUME NEW c \in Apps, Exit(c) \/ CleanUpDumps(c) \/ Restart(c) PROVE GoesOn(a)
  <2>1. CASE Exit(c) \/ CleanUpDumps(c)
    <3>1. PICK o \in {"exit", "cleanup"} : task' = [task EXCEPT ![c].op = o]
      BY <2>1 DEF Exit, CleanUpDumps
    <3> QED BY <1>0, <3>1 DEF TaskType, GoesOn
  <2>2. CASE Restart(c)
    <3>1. task' = [task EXCEPT ![c] = Idle] /\ Idle.op = "idle"
      BY <2>2 DEF Restart, Idle
    <3> QED BY <1>2, <3>1
  <2> QED BY <1>6, <2>1, <2>2
<1>7. CASE Command \/ LoadCmdEnd \/ UNCHANGED vars
  <2>1. UNCHANGED task
    BY <1>7 DEF Command, LoadCmdStart, ActivateCmd, AbortLoadCmd, DumpCmd, ValidateCmd, SendHkCmd,
                LoadCmdEnd, vars
  <2> QED BY <1>1, <2>1
<1>8. ASSUME NEW c \in Apps, \/ \E t \in Tables : Share(c, t)
                             \/ \E h \in Hdls : GetAddress(c, h) \/ ReleaseAddress(c, h)
      PROVE  UNCHANGED task
  BY <1>8 DEF Share, GetAddress, ReleaseAddress
<1>9. CASE Quiet
  BY <1>1, <1>3, <1>4, <1>5, <1>6, <1>7, <1>8, <1>9 DEF Quiet
<1>10. CASE \/ \E c \in Apps, t \in Tables : Register(c, t)
            \/ \E c \in Apps, h \in Hdls : Removes(c, h)
  BY <1>1, <1>10 DEF Register, Removes
<1> QED BY <1>9, <1>10, StepKinds

\* CFE_TBL_LoadCmd begins.
CmdBegins ==
  LET r == tblTask'.reg
  IN  tblTask'.buf[1] # SHARED =>
        /\ r \in Regs /\ SameEntry(r) /\ IsDouble(r) /\ Registry[r].OwnerAppId # NoApp
        /\ Registry'[r].LoadPending = FALSE
        /\ tblTask'.buf = <<r, 1 - Registry[r].ActiveBufferIndex>>
        /\ Locking(r, 1 - Registry[r].ActiveBufferIndex) = {}

\* A CFE_TBL_LoadCmd goes on unchanged, is over or begins.
LEMMA CmdStep ==
  ASSUME BaseInv, LockInv, [Next]_vars
  PROVE  UNCHANGED tblTask \/ tblTask'.op = "idle" \/ CmdBegins
<1>0. Registry \in [Regs -> RegType]
  BY Types DEF BaseInv
<1>1. ASSUME NEW t \in Tables, LoadCmdStart(t) PROVE CmdBegins
  <2>1. PICK r \in FindRegByName(t), buf \in BufIds :
          /\ ~Registry[r].LoadPending
          /\ GetWorkingBuffer(r, FALSE, buf, Registry[r].DumpControlId)
          /\ tblTask' = [Idle EXCEPT !.op = "load", !.reg = r, !.buf = buf]
    BY <1>1 DEF LoadCmdStart
  <2>2. r \in Regs /\ Registry[r].OwnerAppId # NoApp
    BY DEF FindRegByName
  <2>3. /\ Registry[r].DumpControlId \in Loads \cup {NONE} /\ Registry[r].LoadPending = FALSE
    BY <1>0, <2>1, <2>2 DEF RegType
  <2>4. SameEntry(r) /\ Registry'[r].LoadPending = FALSE
    BY <2>1, <2>2, <2>3, WorkingBufferEntry
  <2>5. tblTask'.reg = r /\ tblTask'.buf = buf
    BY <2>1 DEF Idle
  <2>6. buf \in WorkingBuffer(r, FALSE) /\ ~LoadsInPlace(r, FALSE)
    BY <2>1 DEF GetWorkingBuffer, LoadsInPlace
  <2>7. CASE IsDouble(r)
    <3>1. /\ buf = <<r, 1 - Registry[r].ActiveBufferIndex>>
          /\ Locking(r, 1 - Registry[r].ActiveBufferIndex) = {}
      <4>1. CASE Registry[r].LoadInProgress = NONE
        BY <2>2, <2>6, <2>7, <4>1, WorkingBufferCases
      <4>2. CASE Registry[r].LoadInProgress # NONE
        <5>1. buf = <<r, 1 - Registry[r].ActiveBufferIndex>>
          BY <2>2, <2>6, <2>7, <4>2, WorkingBufferCases
        <5> QED BY <2>2, <2>7, <4>2, <5>1 DEF LockInv
      <4> QED BY <4>1, <4>2
    <3> QED BY <2>2, <2>4, <2>5, <2>7, <3>1 DEF CmdBegins
  <2>8. CASE ~IsDouble(r)
    <3>1. buf[1] = SHARED
      <4>1. CASE Registry[r].LoadInProgress = NONE
        <5>1. \E j \in FreeLoadBuffs : buf = <<SHARED, j>>
          BY <2>2, <2>6, <2>8, <4>1, WorkingBufferCases
        <5> QED BY <5>1
      <4>2. CASE Registry[r].LoadInProgress # NONE
        <5>1. buf = <<SHARED, Registry[r].LoadInProgress>>
          BY <2>2, <2>6, <2>8, <4>2, WorkingBufferCases
        <5> QED BY <5>1
      <4> QED BY <4>1, <4>2
    <3> QED BY <2>5, <3>1 DEF CmdBegins
  <2> QED BY <2>7, <2>8
<1>2. CASE LoadCmdEnd
  BY <1>2 DEF LoadCmdEnd, Idle
<1>3. CASE UNCHANGED vars \/ SendHkCmd \/
           \E t \in Tables : \/ ActivateCmd(t) \/ AbortLoadCmd(t) \/ DumpCmd(t)
                             \/ \E active \in BOOLEAN : ValidateCmd(t, active)
  BY <1>3 DEF vars, SendHkCmd, ActivateCmd, AbortLoadCmd, DumpCmd, ValidateCmd
<1>4. ASSUME NEW a \in Apps, \/ \E t \in Tables : Share(a, t)
                             \/ \E h \in Hdls : GetAddress(a, h) \/ ReleaseAddress(a, h) \/ LoadStart(a, h)
                             \/ Manage(a) \/ InCall(a) \/ Exit(a) \/ CleanUpDumps(a) \/ Restart(a)
      PROVE  UNCHANGED tblTask
  BY <1>4 DEF Share, GetAddress, ReleaseAddress, LoadStart, Manage, Update, ValidateStart, DumpToBuffer,
              InCall, LoadFill, LoadAbandon, LoadComplete, ValidateRun, ValidateEnd, Exit, CleanUpDumps,
              Restart
<1>5. CASE Quiet
  BY <1>1, <1>2, <1>3, <1>4, <1>5 DEF Quiet, Command
<1>6. CASE \/ \E a \in Apps, t \in Tables : Register(a, t)
           \/ \E a \in Apps, h \in Hdls : Removes(a, h)
  BY <1>6 DEF Register, Removes
<1> QED BY <1>5, <1>6, StepKinds

\* Dumps keep to the shared buffers: a dump-only table is single-buffered.
LEMMA DumpBufStep ==
  ASSUME BaseInv, DumpBuf, [Next]_vars
  PROVE  DumpBuf'
<1>0. DumpControlBlocks \in [Loads -> BlockType]
  BY Types DEF BaseInv
<1>1. CASE UNCHANGED DumpControlBlocks
  BY <1>1 DEF DumpBuf
<1>2. CASE SendHkCmd \/ \E a \in Apps : CleanUpDumps(a)
  <2>1. \A d \in Loads : DumpControlBlocks'[d].DumpBuffer = DumpControlBlocks[d].DumpBuffer
    BY <1>0, <1>2 DEF SendHkCmd, CleanUpDumps, DumpCtrlBlockSetFree, BlockType
  <2> QED BY <2>1 DEF DumpBuf
<1>3. ASSUME NEW a \in Apps, NEW h \in Hdls, DumpToBuffer(a, h) PROVE DumpBuf'
  <2>1. \E d, s : DumpControlBlocks' = [DumpControlBlocks EXCEPT ![d].State = s]
    BY <1>3 DEF DumpToBuffer
  <2>2. \A d \in Loads : DumpControlBlocks'[d].DumpBuffer = DumpControlBlocks[d].DumpBuffer
    BY <1>0, <2>1 DEF BlockType
  <2> QED BY <2>2 DEF DumpBuf
<1>4. ASSUME NEW t \in Tables, DumpCmd(t) PROVE DumpBuf'
  <2> DEFINE free == {d \in Loads : DumpControlBlocks[d].State = "FREE"}
  <2>1. PICK r \in FindRegByName(t), buf \in BufIds :
          /\ GetWorkingBuffer(r, FALSE, buf, Min(free))
          /\ DumpControlBlocks' = [DumpControlBlocks EXCEPT ![Min(free)] =
               [State |-> "PENDING", RegRec |-> r, DumpBuffer |-> buf]]
    BY <1>4 DEF DumpCmd
  <2>2. r \in Regs /\ ~IsDouble(r)
    BY <1>4, TBLAssumption DEF FindRegByName, DumpCmd, IsDouble
  <2>3. buf \in WorkingBuffer(r, FALSE) /\ ~LoadsInPlace(r, FALSE)
    BY <2>1 DEF GetWorkingBuffer, LoadsInPlace
  <2>4. buf[1] = SHARED
    <3>1. CASE Registry[r].LoadInProgress = NONE
      <4>1. \E j \in FreeLoadBuffs : buf = <<SHARED, j>>
        BY <2>2, <2>3, <3>1, WorkingBufferCases
      <4> QED BY <4>1
    <3>2. CASE Registry[r].LoadInProgress # NONE
      <4>1. buf = <<SHARED, Registry[r].LoadInProgress>>
        BY <2>2, <2>3, <3>2, WorkingBufferCases
      <4> QED BY <4>1
    <3> QED BY <3>1, <3>2
  <2> HIDE DEF free
  <2> QED BY <1>0, <2>1, <2>4 DEF DumpBuf
<1>5. ASSUME NEW a \in Apps, \/ \E t \in Tables : Share(a, t)
                             \/ \E h \in Hdls : GetAddress(a, h) \/ ReleaseAddress(a, h) \/ LoadStart(a, h)
                             \/ \E h \in Hdls : Update(a, h) \/ ValidateStart(a, h)
                             \/ InCall(a) \/ Exit(a) \/ Restart(a)
      PROVE  UNCHANGED DumpControlBlocks
  BY <1>5 DEF Share, GetAddress, ReleaseAddress, LoadStart, Update, ValidateStart, InCall, LoadFill,
              LoadAbandon, LoadComplete, ValidateRun, ValidateEnd, Exit, Restart
<1>6. CASE LoadCmdEnd \/ UNCHANGED vars \/
           \E t \in Tables : \/ LoadCmdStart(t) \/ ActivateCmd(t) \/ AbortLoadCmd(t)
                             \/ \E active \in BOOLEAN : ValidateCmd(t, active)
  <2>1. UNCHANGED DumpControlBlocks
    BY <1>6 DEF LoadCmdEnd, vars, LoadCmdStart, ActivateCmd, AbortLoadCmd, ValidateCmd
  <2> QED BY <1>1, <2>1
<1>7. CASE Quiet
  BY <1>1, <1>2, <1>3, <1>4, <1>5, <1>6, <1>7 DEF Quiet, Manage, Command
<1>8. CASE \/ \E a \in Apps, t \in Tables : Register(a, t)
           \/ \E a \in Apps, h \in Hdls : Removes(a, h)
  BY <1>1, <1>8 DEF Register, Removes
<1> QED BY <1>7, <1>8, StepKinds

-----------------------------------------------------------------------------
(* The invariant of the readers, one conjunct at a time.                     *)

\* Nobody comes to hold the buffer that is inactive.
LEMMA LockKept ==
  ASSUME BaseInv, [Next]_vars, NEW r \in Regs,
         Registry'[r].ActiveBufferIndex = Registry[r].ActiveBufferIndex,
         Locking(r, 1 - Registry[r].ActiveBufferIndex) = {}
  PROVE  Locking(r, 1 - Registry[r].ActiveBufferIndex)' = {}
<1>0. Registry[r].ActiveBufferIndex \in {0, 1}
  <2>1. Registry[r] \in RegType
    BY Types DEF BaseInv
  <2> QED BY <2>1 DEF RegType
<1> SUFFICES ASSUME NEW h \in Hdls, Handles'[h].UsedFlag, Handles'[h].RegIndex = r, Handles'[h].LockFlag,
                    Handles'[h].BufferIndex = 1 - Registry[r].ActiveBufferIndex
             PROVE  FALSE
  BY DEF Locking, Accessors
<1>1. CASE KeepsHandle(h)
  <2>1. Handles[h].UsedFlag /\ Handles[h].RegIndex = r
    BY <1>1 DEF KeepsHandle
  <2>2. ~Handles[h].LockFlag \/ Handles[h].BufferIndex # 1 - Registry[r].ActiveBufferIndex
    BY <2>1 DEF Locking, Accessors
  <2>3. Registry[r].ActiveBufferIndex # 1 - Registry[r].ActiveBufferIndex
    BY <1>0
  <2> QED BY <1>1, <2>1, <2>2, <2>3 DEF KeepsHandle
<1>2. CASE NewHandle(h)
  BY <1>2 DEF NewHandle
<1> QED BY <1>1, <1>2, HandleStep

\* Every step keeps CFE_TBL_Load to a buffer that nobody reads.
LEMMA FillStep ==
  ASSUME BaseInv, OwnerInv, FillInv, SteadyDoubles, [Next]_vars
  PROVE  FillInv'
<1>0. task' \in [Apps -> TaskType]
  BY BaseStep, TypesNext DEF BaseInv
<1> SUFFICES ASSUME NEW a \in Apps, task'[a].op \in {"fill", "finish"},
                    NEW r \in Regs, r = task'[a].reg
             PROVE  /\ Registry'[r].OwnerAppId = a
                    /\ \/ task'[a].buf[1] = SHARED /\ ~IsDouble(r)'
                       \/ task'[a].buf = GetActiveBuffer(r)' /\ ~Registry'[r].TableLoadedOnce
  BY <1>0 DEF FillInv, IsDouble, GetActiveBuffer, TaskType
<1>1. /\ Registry[r].OwnerAppId = a
      /\ \/ task'[a].buf[1] = SHARED /\ ~IsDouble(r)
         \/ task'[a].buf = GetActiveBuffer(r) /\ ~Registry[r].TableLoadedOnce
      /\ GoesOn(a) \/ Begins(a)
  BY CallStep DEF FillInv, GoesOn, Begins
<1>2. SameEntry(r)
  <2>1. CASE KeptEntry(r)
    BY <2>1 DEF KeptEntry
  <2>2. CASE NewEntry(r)
    BY <1>1, <2>2, TBLAssumption DEF NewEntry
  <2>3. CASE UpdatedEntry(r)
    BY <1>1, <2>3 DEF UpdatedEntry
  <2>4. CASE DisownedEntry(r)
    BY <1>1, <2>4 DEF DisownedEntry, GoesOn, Begins
  <2> QED BY <2>1, <2>2, <2>3, <2>4, RegistryStep DEF EntryStep
<1>3. (IsDouble(r)' <=> IsDouble(r)) /\ GetActiveBuffer(r)' = GetActiveBuffer(r)
  BY <1>2 DEF SameEntry, IsDouble, GetActiveBuffer
<1>4. Registry'[r].OwnerAppId = a /\ Registry'[r].TableLoadedOnce = Registry[r].TableLoadedOnce
  BY <1>1, <1>2 DEF SameEntry
<1>5. \/ task'[a].buf[1] = SHARED /\ ~IsDouble(r)'
      \/ task'[a].buf = GetActiveBuffer(r)' /\ ~Registry'[r].TableLoadedOnce
  BY <1>1, <1>3, <1>4
<1> QED BY <1>4, <1>5

\* Every step keeps CFE_TBL_LoadCmd to a buffer that nobody holds.
LEMMA CmdInvStep ==
  ASSUME BaseInv, OwnerInv, FillInv, SteadyDoubles, CmdInv, LockInv, [Next]_vars
  PROVE  CmdInv'
<1>0. tblTask' \in TblTaskType
  BY BaseStep, TypesNext DEF BaseInv
<1> SUFFICES ASSUME tblTask'.op = "load", tblTask'.buf[1] # SHARED,
                    NEW r \in Regs, r = tblTask'.reg
             PROVE  /\ IsDouble(r)' /\ Registry'[r].OwnerAppId # NoApp
                    /\ Registry'[r].LoadPending = FALSE
                    /\ tblTask'.buf = <<r, 1 - Registry'[r].ActiveBufferIndex>>
                    /\ Locking(r, 1 - Registry[r].ActiveBufferIndex)' = {}
  BY <1>0 DEF CmdInv, IsDouble, Locking, Accessors, TblTaskType
<1>1. CASE UNCHANGED tblTask
  <2>1. /\ IsDouble(r) /\ Registry[r].OwnerAppId # NoApp /\ Registry[r].LoadPending = FALSE
        /\ tblTask'.buf = <<r, 1 - Registry[r].ActiveBufferIndex>>
        /\ Locking(r, 1 - Registry[r].ActiveBufferIndex) = {} /\ tblTask.op = "load"
    BY <1>1 DEF CmdInv
  <2>2. Registry' \in [Regs -> RegType]
    BY BaseStep, TypesNext DEF BaseInv
  <2>3. /\ Registry'[r].OwnerAppId = Registry[r].OwnerAppId /\ Registry'[r].Tbl = Registry[r].Tbl
        /\ Registry'[r].ActiveBufferIndex = Registry[r].ActiveBufferIndex
        /\ Registry'[r].LoadPending = FALSE
    <3>1. CASE KeptEntry(r)
      <4>1. SameEntry(r) /\ ~Registry'[r].LoadPending
        BY <2>1, <3>1 DEF KeptEntry
      <4>2. Registry'[r].LoadPending \in BOOLEAN
        BY <2>2 DEF RegType
      <4> QED BY <4>1, <4>2 DEF SameEntry
    <3>2. CASE NewEntry(r)
      BY <2>1, <3>2 DEF NewEntry
    <3>3. CASE UpdatedEntry(r)
      BY <2>1, <3>3 DEF UpdatedEntry
    <3>4. CASE DisownedEntry(r)
      BY <2>1, <3>4 DEF DisownedEntry
    <3> QED BY <3>1, <3>2, <3>3, <3>4, RegistryStep DEF EntryStep
  <2>4. Locking(r, 1 - Registry[r].ActiveBufferIndex)' = {}
    BY <2>1, <2>3, LockKept
  <2> QED BY <2>1, <2>3, <2>4 DEF IsDouble
<1>2. CASE CmdBegins
  <2>1. /\ SameEntry(r) /\ IsDouble(r) /\ Registry[r].OwnerAppId # NoApp
        /\ Registry'[r].LoadPending = FALSE
        /\ tblTask'.buf = <<r, 1 - Registry[r].ActiveBufferIndex>>
        /\ Locking(r, 1 - Registry[r].ActiveBufferIndex) = {}
    BY <1>2 DEF CmdBegins
  <2>2. Locking(r, 1 - Registry[r].ActiveBufferIndex)' = {}
    BY <2>1, LockKept DEF SameEntry
  <2> QED BY <2>1, <2>2 DEF SameEntry, IsDouble
<1> QED BY <1>1, <1>2, CmdStep

\* Every step keeps the inactive buffer of a load in progress free of readers.
LEMMA LockStep ==
  ASSUME BaseInv, OwnerInv, FillInv, SteadyDoubles, LockInv, [Next]_vars
  PROVE  LockInv'
<1> SUFFICES ASSUME NEW r \in Regs, IsDouble(r)', Registry'[r].LoadInProgress # NONE
             PROVE  Locking(r, 1 - Registry[r].ActiveBufferIndex)' = {}
  BY DEF LockInv
<1>1. KeptEntry(r)
  <2>1. ~NewEntry(r) /\ ~UpdatedEntry(r)
    BY DEF NewEntry, UpdatedEntry
  <2>2. ~DisownedEntry(r)
    BY DEF DisownedEntry, IsDouble
  <2> QED BY <2>1, <2>2, RegistryStep DEF EntryStep
<1>2. SameEntry(r) /\ IsDouble(r)
  BY <1>1 DEF KeptEntry, SameEntry, IsDouble
<1>3. Locking(r, 1 - Registry[r].ActiveBufferIndex) = {}
  BY <1>1, <1>2 DEF KeptEntry, LockInv
<1> QED BY <1>2, <1>3, LockKept DEF SameEntry

\* Every step keeps tables that were never loaded unread.
LEMMA UnreadStep ==
  ASSUME BaseInv, OwnerInv, FillInv, SteadyDoubles, UnreadInv, [Next]_vars
  PROVE  UnreadInv'
<1> SUFFICES ASSUME NEW h \in Hdls, Handles'[h].UsedFlag,
                    ~Registry'[Handles'[h].RegIndex].TableLoadedOnce
             PROVE  seen'[h] = NoImage
  BY DEF UnreadInv
<1>1. CASE KeepsHandle(h)
  <2> DEFINE r == Handles[h].RegIndex
  <2>0. r \in Regs
    <3>1. Handles[h] \in HandleType
      BY Types DEF BaseInv
    <3> QED BY <3>1 DEF HandleType
  <2>1. Handles[h].UsedFlag /\ ~Registry'[r].TableLoadedOnce /\ h \in Accessors(r)
    BY <1>1 DEF KeepsHandle, Accessors
  <2>2. ~Registry[r].TableLoadedOnce
    <3> HIDE DEF r
    <3>1. CASE KeptEntry(r)
      BY <2>1, <3>1 DEF KeptEntry, SameEntry
    <3>2. CASE NewEntry(r)
      BY <2>1, <3>2 DEF NewEntry
    <3>3. CASE UpdatedEntry(r)
      BY <2>1, <3>3 DEF UpdatedEntry
    <3>4. CASE DisownedEntry(r)
      BY <2>1, <3>4 DEF DisownedEntry
    <3> QED BY <2>0, <3>1, <3>2, <3>3, <3>4, RegistryStep DEF EntryStep
  <2>3. seen[h] = NoImage
    BY <2>1, <2>2 DEF UnreadInv
  <2> QED BY <1>1, <2>2, <2>3 DEF KeepsHandle, Reads
<1>2. CASE NewHandle(h)
  BY <1>2 DEF NewHandle
<1> QED BY <1>1, <1>2, HandleStep

\* Every step keeps the readers up to date or told of the update.
LEMMA StaleStep ==
  ASSUME ReaderInv, SteadyDoubles, [Next]_vars
  PROVE  NoStaleReader'
<1>0. Handles' \in [Hdls -> HandleType] /\ Registry \in [Regs -> RegType]
  BY BaseStep, Types, TypesNext DEF BaseInv, ReaderInv
<1> SUFFICES ASSUME NEW h \in Hdls, Handles'[h].UsedFlag, ~Handles'[h].Updated, seen'[h] # NoImage,
                    NEW r \in Regs, r = Handles'[h].RegIndex, Registry'[r].OwnerAppId # NoApp
             PROVE  seen'[h] = Buffers'[GetActiveBuffer(r)'].img
  BY <1>0 DEF NoStaleReader, GetActiveBuffer, IsDouble, HandleType
<1>1. KeepsHandle(h)
  BY HandleStep DEF ReaderInv, NewHandle
<1> DEFINE act == Registry[r].ActiveBufferIndex
<1>2. Handles[h].UsedFlag /\ Handles[h].RegIndex = r /\ h \in Accessors(r)
  BY <1>1 DEF KeepsHandle, Accessors
<1>3. act \in {0, 1} /\ (~IsDouble(r) => act = 0)
  BY <1>0 DEF RegType, ReaderInv, BaseInv, LoadKinds
<1>4. GetActiveBuffer(r) = <<r, act>>
  BY <1>3 DEF GetActiveBuffer
<1>5. CASE Reads(h)
  <2>1. UNCHANGED <<Registry, Buffers>> /\ seen'[h] = Buffers[<<r, act>>].img
    BY <1>2, <1>5 DEF Reads
  <2>2. GetActiveBuffer(r)' = GetActiveBuffer(r)
    BY <2>1 DEF GetActiveBuffer, IsDouble
  <2> QED BY <1>4, <2>1, <2>2
<1>6. CASE seen'[h] = seen[h] /\ (Handles[h].Updated => Handles'[h].Updated)
  <2>1. ~Handles[h].Updated /\ seen[h] # NoImage
    BY <1>6
  <2>2. Registry[r].TableLoadedOnce
    BY <1>2, <2>1 DEF ReaderInv, UnreadInv
  <2>3. SameEntry(r)
    <3>1. CASE KeptEntry(r)
      BY <3>1 DEF KeptEntry
    <3>2. CASE NewEntry(r)
      BY <1>2, <3>2 DEF NewEntry
    <3>3. CASE UpdatedEntry(r)
      BY <1>2, <3>3 DEF UpdatedEntry
    <3>4. CASE DisownedEntry(r)
      BY <1>2, <3>4 DEF DisownedEntry
    <3> QED BY <1>0, <3>1, <3>2, <3>3, <3>4, RegistryStep DEF EntryStep, ReaderInv
  <2>4. GetActiveBuffer(r)' = <<r, act>>
    BY <1>4, <2>3 DEF SameEntry, GetActiveBuffer, IsDouble
  <2>5. seen[h] = Buffers[<<r, act>>].img
    <3>1. Registry[r].OwnerAppId # NoApp
      BY <1>2, <2>3 DEF SameEntry
    <3> QED BY <1>2, <1>4, <2>1, <3>1 DEF ReaderInv, NoStaleReader
  <2>6. SameImage(r, act)
    <3>1. BufferStep(r, act)
      BY <1>0, <1>3, ImageStep DEF ReaderInv
    <3>2. act # 1 - act
      BY <1>3
    <3> QED BY <1>2, <2>2, <3>1, <3>2 DEF BufferStep
  <2>7. seen'[h] = Buffers'[<<r, act>>].img
    BY <1>6, <2>5, <2>6 DEF SameImage
  <2> QED BY <2>4, <2>7
<1> QED BY <1>1, <1>5, <1>6 DEF KeepsHandle

\* What a holder reads does not change in a step.
LEMMA HeldStep ==
  ASSUME ReaderInv, [Next]_vars, NEW h \in Hdls, Handles[h].UsedFlag, Handles[h].LockFlag,
         seen[h] # NoImage
  PROVE  SameImage(Handles[h].RegIndex, Handles[h].BufferIndex)
<1> DEFINE r == Handles[h].RegIndex
           i == Handles[h].BufferIndex
<1>1. r \in Regs /\ i \in {0, 1}
  <2>1. Handles[h] \in HandleType
    BY Types DEF BaseInv, ReaderInv
  <2> QED BY <2>1 DEF HandleType
<1>2. h \in Accessors(r) /\ h \in Locking(r, i)
  BY DEF Accessors, Locking
<1>3. Registry[r].TableLoadedOnce
  BY DEF ReaderInv, UnreadInv
<1>4. Handles[h].LockFlag
  OBVIOUS
<1> HIDE DEF r, i
<1>5. BufferStep(r, i)
  BY <1>1, ImageStep DEF ReaderInv
<1>6. SameImage(r, i)
  BY <1>2, <1>3, <1>4, <1>5 DEF BufferStep
<1> QED BY <1>6 DEF r, i

\* The readers' invariant holds at the start.
LEMMA ReaderInit == Init => ReaderInv
<1> SUFFICES ASSUME Init PROVE ReaderInv
  OBVIOUS
<1>1. /\ \A a \in Apps : task[a].op = "idle"
      /\ tblTask.op = "idle" /\ \A h \in Hdls : seen[h] = NoImage
      /\ \A r \in Regs : Registry[r].LoadInProgress = NONE
      /\ \A d \in Loads : DumpControlBlocks[d].DumpBuffer = NoBuf
  BY DEF Init, Idle, InitRegistryRecord, FreeBlock
<1>2. FillInv /\ CmdInv /\ LockInv /\ UnreadInv /\ NoStaleReader
  BY <1>1 DEF FillInv, CmdInv, LockInv, UnreadInv, NoStaleReader
<1>3. DumpBuf
  BY <1>1 DEF DumpBuf, NoBuf
<1> QED BY <1>2, <1>3, BaseInit, OwnerInit DEF ReaderInv

\* Every step keeps the readers' invariant.
LEMMA ReaderStep ==
  ASSUME ReaderInv, SteadyDoubles, [Next]_vars
  PROVE  ReaderInv'
<1>1. BaseInv' /\ OwnerInv' /\ DumpBuf'
  BY BaseStep, OwnerStep, DumpBufStep DEF ReaderInv
<1>2. FillInv' /\ CmdInv' /\ LockInv' /\ UnreadInv'
  BY FillStep, CmdInvStep, LockStep, UnreadStep DEF ReaderInv
<1> QED BY <1>1, <1>2, StaleStep DEF ReaderInv

(* No update is lost to a reader: a holder of a handle whose Updated flag is *)
(* not set has read the image that is active, in whatever order the readers  *)
(* get and release the address and the ground and the owner load the table.  *)
(* SteadyDoubles is needed: CFE_TBL_LoadCmd fills the inactive buffer of a   *)
(* double-buffered table outside the lock, and an owner that loads, gives up *)
(* or leaves that table meanwhile makes the buffer the active one of it or   *)
(* of the table that is registered in its place.                             *)
THEOREM UpdatesReachReaders ==
  ASSUME SteadyDoubles
  PROVE  Spec => []NoStaleReader
<1>1. ReaderInv /\ [Next]_vars => ReaderInv'
  BY ReaderStep
<1>2. ReaderInv => NoStaleReader
  BY DEF ReaderInv
<1> QED BY <1>1, <1>2, ReaderInit, PTL DEF Spec

(* What an application reads through an address it holds does not change     *)
(* until it releases the address.                                            *)
THEOREM HeldImagesKept ==
  ASSUME SteadyDoubles
  PROVE  Spec => HeldImageStable
<1>1. ReaderInv /\ [Next]_vars => ReaderInv'
  BY ReaderStep
<1> DEFINE Held == \A h \in Hdls :
              LET b == <<Handles[h].RegIndex, Handles[h].BufferIndex>>
              IN  (/\ Handles[h].UsedFlag /\ Handles[h].LockFlag /\ seen[h] # NoImage
                   /\ Handles'[h].UsedFlag /\ Handles'[h].LockFlag)
                  => Buffers'[b].img = Buffers[b].img
<1>2. ReaderInv /\ [Next]_vars => [Held]_vars
  BY HeldStep DEF SameImage
<1> QED BY <1>1, <1>2, ReaderInit, PTL DEF Spec, HeldImageStable
=============================================================================
