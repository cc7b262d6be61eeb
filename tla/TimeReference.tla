---------------------------- MODULE TimeReference ----------------------------
(***************************************************************************)
(* How Time Services shares its time reference without a lock.  The main   *)
(* task of TIME is the only writer: it prepares the next of Depth records  *)
(* and publishes it by storing its version number.  Any task reads: it     *)
(* copies the record of the version it found and then compares the version *)
(* stamped on the record.  One action is one load or store of shared       *)
(* memory; the fields are volatile, so they happen in program order.       *)
(*                                                                         *)
(* A record holds one value per word in Words (AtToneMET, AtToneLatch and  *)
(* so on).  The value of a word is the version of the update that wrote    *)
(* it, which tells any two updates apart.                                  *)
(***************************************************************************)
EXTENDS Integers

CONSTANTS
    Words,       \* the words of CFE_TIME_ReferenceState_t
    Readers,     \* tasks that call CFE_TIME_GetReference
    Depth,       \* CFE_TIME_REFERENCE_BUF_DEPTH
    RetryLimit,  \* the initial RetryCount
    MaxVersion   \* bound: updates of the reference

ASSUME ReferenceAssumption ==
    /\ Words # {} /\ Depth \in Nat \ {0, 1} /\ RetryLimit \in Nat \ {0}
    /\ MaxVersion \in Nat \ {0}

VARIABLES
    StateVersion,        \* [slot -> version stamped on the record]
    ReferenceState,      \* [slot -> the words of the record]
    LastVersionCounter,  \* the version published last
    writer,              \* the update in progress
    reader,              \* [reader -> its read in progress]
    began,               \* history: the version published when the read began
    found                \* history: the record published when the attempt began

vars == <<StateVersion, ReferenceState, LastVersionCounter, writer, reader, began, found>>
shared == <<StateVersion, ReferenceState, LastVersionCounter>>
histories == <<began, found>>

Slots == 0 .. Depth - 1
Versions == 0 .. MaxVersion
Slot(v) == v % Depth          \* Version & CFE_TIME_REFERENCE_BUF_MASK

Unused == -1                  \* StateVersion 0xFFFFFFFF of CFE_TIME_InitData
Record == [Words -> Versions]
Blank == [w \in Words |-> 0]

WriterSteps == {"idle", "copy", "write"}
ReaderSteps == {"idle", "copy", "done"}
Results == {"none", "good", "zero"}

Current == ReferenceState[Slot(LastVersionCounter)]

(***************************************************************************)
(* The writer.                                                             *)
(***************************************************************************)
(* Mutant: the record keeps its old stamp until the update is published. *)
MutStartReferenceUpdate(F) ==
    /\ writer.at = "idle" /\ LastVersionCounter < MaxVersion
    /\ writer' = [at |-> "copy", version |-> LastVersionCounter + 1, left |-> Words, write |-> F]
    /\ UNCHANGED <<StateVersion, ReferenceState, LastVersionCounter, reader, histories>>

(* Mutant: the stamp is the version of the current record. *)
MutStampCurrent(F) ==
    /\ writer.at = "idle" /\ LastVersionCounter < MaxVersion
    /\ StateVersion' = [StateVersion EXCEPT ![Slot(LastVersionCounter + 1)] = LastVersionCounter]
    /\ writer' = [at |-> "copy", version |-> LastVersionCounter + 1, left |-> Words, write |-> F]
    /\ UNCHANGED <<ReferenceState, LastVersionCounter, reader, histories>>

(* CFE_TIME_StartReferenceUpdate: stamp the next record, then copy every      *)
(* word of the current one.  F are the words that the caller will change.    *)
StartReferenceUpdate(F) ==
    LET next == LastVersionCounter + 1
    IN  /\ writer.at = "idle" /\ LastVersionCounter < MaxVersion
        /\ StateVersion' = [StateVersion EXCEPT ![Slot(next)] = next]
        /\ writer' = [at |-> "copy", version |-> next, left |-> Words, write |-> F]
        /\ UNCHANGED <<ReferenceState, LastVersionCounter, reader, histories>>

CopyWord(w) ==
    /\ writer.at = "copy" /\ w \in writer.left
    /\ ReferenceState' = [ReferenceState EXCEPT ![Slot(writer.version)][w] = Current[w]]
    /\ writer' = [writer EXCEPT !.left = @ \ {w}]
    /\ UNCHANGED <<StateVersion, LastVersionCounter, reader, histories>>

CopyDone ==
    /\ writer.at = "copy" /\ writer.left = {}
    /\ writer' = [writer EXCEPT !.at = "write", !.left = writer.write]
    /\ UNCHANGED <<shared, reader, histories>>

(* The caller assigns the words it changes ...                               *)
WriteWord(w) ==
    /\ writer.at = "write" /\ w \in writer.left
    /\ ReferenceState' = [ReferenceState EXCEPT ![Slot(writer.version)][w] = writer.version]
    /\ writer' = [writer EXCEPT !.left = @ \ {w}]
    /\ UNCHANGED <<StateVersion, LastVersionCounter, reader, histories>>

(* ... and CFE_TIME_FinishReferenceUpdate publishes the record.              *)
FinishReferenceUpdate ==
    /\ writer.at = "write" /\ writer.left = {}
    /\ LastVersionCounter' = writer.version
    /\ writer' = [writer EXCEPT !.at = "idle"]
    /\ UNCHANGED <<StateVersion, ReferenceState, reader, histories>>

(***************************************************************************)
(* CFE_TIME_GetReference, the part that reads shared memory.               *)
(***************************************************************************)
(* One turn of its loop: take the published version, then copy its record.   *)
Attempt(r, retry) ==
    /\ reader' = [reader EXCEPT ![r] =
                    [at |-> "copy", version |-> LastVersionCounter, left |-> Words,
                     copy |-> Blank, retry |-> retry, result |-> "none"]]
    /\ found' = [found EXCEPT ![r] = Current]

GetReference(r) ==
    /\ reader[r].at # "copy"
    /\ Attempt(r, RetryLimit)
    /\ began' = [began EXCEPT ![r] = LastVersionCounter]
    /\ UNCHANGED <<shared, writer>>

ReadWord(r, w) ==
    /\ reader[r].at = "copy" /\ w \in reader[r].left
    /\ reader' = [reader EXCEPT ![r].left = @ \ {w},
                    ![r].copy[w] = ReferenceState[Slot(reader[r].version)][w]]
    /\ UNCHANGED <<shared, writer, histories>>

(* Mutant: an update during the read is taken for a change of the record. *)
MutUnchanged(r) == reader[r].version = LastVersionCounter

Unchanged(r) == reader[r].version = StateVersion[Slot(reader[r].version)]

(* The stamp is the expected one, or there are no more retries.  A read that *)
(* used its last retry is given up, also when that retry succeeded.          *)
ReadEnds(r) ==
    /\ reader[r].at = "copy" /\ reader[r].left = {}
    /\ Unchanged(r) \/ reader[r].retry = 0
    /\ reader' = [reader EXCEPT ![r].at = "done",
                    ![r].result = IF reader[r].retry = 0 THEN "zero" ELSE "good"]
    /\ UNCHANGED <<shared, writer, histories>>

ReadAgain(r) ==
    /\ reader[r].at = "copy" /\ reader[r].left = {}
    /\ ~Unchanged(r) /\ reader[r].retry > 0
    /\ Attempt(r, reader[r].retry - 1)
    /\ UNCHANGED <<shared, writer, began>>

-----------------------------------------------------------------------------
(* The reference that CFE_TIME_QueryResetVars published, version 1. *)
Init ==
    /\ StateVersion = [s \in Slots |-> IF s = Slot(1) THEN 1 ELSE Unused]
    /\ ReferenceState = [s \in Slots |-> [w \in Words |-> IF s = Slot(1) THEN 1 ELSE 0]]
    /\ LastVersionCounter = 1
    /\ writer = [at |-> "idle", version |-> 1, left |-> {}, write |-> {}]
    /\ reader = [r \in Readers |-> [at |-> "idle", version |-> 0, left |-> {},
                                    copy |-> Blank, retry |-> 0, result |-> "none"]]
    /\ began = [r \in Readers |-> 0]
    /\ found = [r \in Readers |-> Blank]

Writer ==
    \/ \E F \in SUBSET Words : StartReferenceUpdate(F)
    \/ \E w \in Words : CopyWord(w) \/ WriteWord(w)
    \/ CopyDone \/ FinishReferenceUpdate

Reader(r) ==
    \/ GetReference(r) \/ ReadEnds(r) \/ ReadAgain(r)
    \/ \E w \in Words : ReadWord(r, w)

Next == Writer \/ \E r \in Readers : Reader(r)

Spec == Init /\ [][Next]_vars
-----------------------------------------------------------------------------
(***************************************************************************)
(* Properties.                                                             *)
(***************************************************************************)
(* Types: a record in use is stamped with a version of its slot. *)
TypeOK ==
    /\ StateVersion \in [Slots -> Versions \cup {Unused}]
    /\ \A s \in Slots : StateVersion[s] # Unused => Slot(StateVersion[s]) = s
    /\ ReferenceState \in [Slots -> Record]
    /\ LastVersionCounter \in Versions
    /\ writer \in [at : WriterSteps, version : Versions, left : SUBSET Words,
                   write : SUBSET Words]
    /\ reader \in [Readers -> [at : ReaderSteps, version : Versions, left : SUBSET Words,
                               copy : Record, retry : 0 .. RetryLimit, result : Results]]
    /\ began \in [Readers -> Versions] /\ found \in [Readers -> Record]

(* A successful CFE_TIME_GetReference returns the reference as it was when   *)
(* the last attempt took the version: never a mixture of two updates, never  *)
(* an update that was not published, and none older than the call.           *)
ReadConsistent ==
    \A r \in Readers : reader[r].result = "good" =>
        reader[r].copy = found[r] /\ reader[r].version >= began[r]

(* GetReference gives up (and returns zeroes, "this should really never      *)
(* happen") only when the reference was updated so often during this one     *)
(* call that every retry met a record in reuse: Depth - 1 updates for each.  *)
GivesUpOnlyUnderStorm ==
    \A r \in Readers : reader[r].result = "zero" =>
        LastVersionCounter - began[r] >= RetryLimit * (Depth - 1)
=============================================================================
