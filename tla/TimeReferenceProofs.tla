------------------------- MODULE TimeReferenceProofs -------------------------
(***************************************************************************)
(* Theorems about TimeReference, for every set of words and readers, every *)
(* number of records and retries, and every number of updates.             *)
(***************************************************************************)
EXTENDS TimeReference, TLAPS

\* A version has its record among those of CFE_TIME_Global.ReferenceState.
LEMMA SlotType == ASSUME NEW v \in Nat PROVE Slot(v) \in Slots
  BY ReferenceAssumption, SMT DEF Slot, Slots

\* Two versions that share a record are at least Depth updates apart.
LEMMA SlotReuse ==
  ASSUME NEW a \in Nat, NEW b \in Nat, b < a, Slot(a) = Slot(b)
  PROVE  a >= b + Depth
<1> DEFINE q == a \div Depth
           p == b \div Depth
<1>1. Depth \in Nat \ {0, 1}
  BY ReferenceAssumption
<1>2. /\ q \in Int /\ p \in Int
      /\ a = Depth * q + Slot(a) /\ b = Depth * p + Slot(b)
  BY <1>1, SMT DEF Slot
<1>3. Slot(a) \in Int
  BY SlotType DEF Slots
<1> HIDE DEF q, p
<1>4. a - b = Depth * q - Depth * p
  BY <1>1, <1>2, <1>3
<1>5. ASSUME p >= q PROVE FALSE
  BY <1>1, <1>2, <1>4, <1>5, SMT
<1>6. q >= p + 1
  BY <1>2, <1>5
<1>7. Depth * q >= Depth * (p + 1)
  BY <1>1, <1>2, <1>6, SMT
<1>8. Depth * (p + 1) = Depth * p + Depth
  BY <1>1, <1>2, SMT
<1> QED BY <1>1, <1>2, <1>4, <1>7, <1>8

-----------------------------------------------------------------------------
(***************************************************************************)
(* The inductive invariant.                                                *)
(***************************************************************************)
\* The writer is at most one version ahead of what is published, and has stamped
\* the record it writes; the published record carries its own version.
WriterInv ==
  /\ LastVersionCounter >= 1
  /\ StateVersion[Slot(LastVersionCounter)] = LastVersionCounter
  /\ writer.at # "idle" => /\ writer.version = LastVersionCounter + 1
                           /\ StateVersion[Slot(writer.version)] = writer.version
  /\ \A s \in Slots : StateVersion[s] <= IF writer.at = "idle" THEN LastVersionCounter
                                          ELSE LastVersionCounter + 1

\* A reader in its copy loop: the stamp of its record only grows, and as long as
\* it is the version the reader took, the record, and what the reader has copied
\* of it, is what was published under that version.
CopyInv(r) ==
  LET rd == reader[r] IN
  rd.at = "copy" =>
    /\ rd.result = "none"
    /\ 1 <= began[r] /\ began[r] <= rd.version /\ rd.version <= LastVersionCounter
    /\ StateVersion[Slot(rd.version)] >= rd.version
    /\ StateVersion[Slot(rd.version)] = rd.version =>
         /\ ReferenceState[Slot(rd.version)] = found[r]
         /\ \A w \in Words \ rd.left : rd.copy[w] = found[r][w]

\* Every retry so far was paid for by Depth - 1 updates.
StormInv(r) ==
  /\ reader[r].at = "copy" =>
       reader[r].version - began[r] >= (RetryLimit - reader[r].retry) * (Depth - 1)
  /\ reader[r].result = "zero" =>
       /\ reader[r].version - began[r] >= RetryLimit * (Depth - 1)
       /\ reader[r].version <= LastVersionCounter

ReaderInv == \A r \in Readers : CopyInv(r) /\ StormInv(r)

IInv == TypeOK /\ WriterInv /\ ReaderInv /\ ReadConsistent

\* The reference that CFE_TIME_QueryResetVars published satisfies the invariant.
LEMMA InitInv == Init => IInv
<1> SUFFICES ASSUME Init PROVE IInv
  OBVIOUS
<1> USE ReferenceAssumption
<1>1. Slot(1) \in Slots /\ Slot(1) = 1
  BY SlotType, SMT DEF Slot
<1>2. TypeOK
  BY <1>1 DEF Init, TypeOK, Record, Versions, Unused, Blank, WriterSteps, ReaderSteps, Results
<1>3. WriterInv
  BY <1>1 DEF Init, WriterInv, Unused
<1>4. ReaderInv /\ ReadConsistent
  BY DEF Init, ReaderInv, CopyInv, StormInv, ReadConsistent
<1> QED BY <1>2, <1>3, <1>4 DEF IInv

\* The type of a read in progress.
ReaderRecord ==
  [at : ReaderSteps, version : Versions, left : SUBSET Words, copy : Record,
   retry : 0 .. RetryLimit, result : Results]

\* The variables keep their types in every step.
LEMMA TypeStep == TypeOK /\ WriterInv /\ [Next]_vars => TypeOK'
<1> SUFFICES ASSUME TypeOK, WriterInv, [Next]_vars PROVE TypeOK'
  OBVIOUS
<1> USE ReferenceAssumption DEF TypeOK
<1>0. /\ Slot(LastVersionCounter) \in Slots /\ Current \in Record
      /\ Slot(writer.version) \in Slots
      /\ \A r \in Readers : Slot(reader[r].version) \in Slots
  BY SlotType DEF Versions, Current
<1>1. ASSUME NEW F \in SUBSET Words, StartReferenceUpdate(F) PROVE TypeOK'
  <2>1. LastVersionCounter + 1 \in Versions /\ Slot(LastVersionCounter + 1) \in Slots
    BY <1>1, SlotType DEF StartReferenceUpdate, Versions
  <2>2. /\ StateVersion' \in [Slots -> Versions \cup {Unused}]
        /\ \A s \in Slots : StateVersion'[s] # Unused => Slot(StateVersion'[s]) = s
    BY <1>1, <2>1 DEF StartReferenceUpdate
  <2>3. writer' \in [at : WriterSteps, version : Versions, left : SUBSET Words, write : SUBSET Words]
    BY <1>1, <2>1 DEF StartReferenceUpdate, WriterSteps
  <2> QED BY <1>1, <2>2, <2>3 DEF StartReferenceUpdate, histories
<1>2. ASSUME NEW w \in Words, CopyWord(w) PROVE TypeOK'
  <2>1. ReferenceState' \in [Slots -> Record]
    BY <1>2, <1>0 DEF CopyWord, Record
  <2>2. writer' \in [at : WriterSteps, version : Versions, left : SUBSET Words, write : SUBSET Words]
    BY <1>2 DEF CopyWord
  <2> QED BY <1>2, <2>1, <2>2 DEF CopyWord, histories
<1>3. ASSUME NEW w \in Words, WriteWord(w) PROVE TypeOK'
  <2>1. ReferenceState' \in [Slots -> Record]
    BY <1>3, <1>0 DEF WriteWord, Record
  <2>2. writer' \in [at : WriterSteps, version : Versions, left : SUBSET Words, write : SUBSET Words]
    BY <1>3 DEF WriteWord
  <2> QED BY <1>3, <2>1, <2>2 DEF WriteWord, histories
<1>4. CASE CopyDone
  BY <1>4 DEF CopyDone, shared, histories, WriterSteps
<1>5. CASE FinishReferenceUpdate
  BY <1>5 DEF FinishReferenceUpdate, histories, WriterSteps
<1>6. ASSUME NEW r \in Readers, NEW n \in 0 .. RetryLimit, Attempt(r, n)
      PROVE  /\ reader' \in [Readers -> [at : ReaderSteps, version : Versions, left : SUBSET Words,
                               copy : Record, retry : 0 .. RetryLimit, result : Results]]
             /\ found' \in [Readers -> Record]
  BY <1>6, <1>0 DEF Attempt, ReaderSteps, Results, Blank, Record, Versions
<1>7. ASSUME NEW r \in Readers, GetReference(r) PROVE TypeOK'
  BY <1>7, <1>6 DEF GetReference, shared
<1>8. ASSUME NEW r \in Readers, ReadAgain(r) PROVE TypeOK'
  <2>1. reader[r].retry - 1 \in 0 .. RetryLimit
    BY <1>8 DEF ReadAgain
  <2> QED BY <1>8, <1>6, <2>1 DEF ReadAgain, shared
<1>9. ASSUME NEW r \in Readers, ReadEnds(r) PROVE TypeOK'
  <2>1. PICK z \in Results : reader' = [reader EXCEPT ![r].at = "done", ![r].result = z]
    BY <1>9 DEF ReadEnds, Results
  <2>2. \A q \in Readers : q # r => reader'[q] = reader[q]
    BY <2>1
  <2>3. reader'[r] = [at |-> "done", version |-> reader[r].version, left |-> reader[r].left,
                      copy |-> reader[r].copy, retry |-> reader[r].retry, result |-> z]
    BY ZenonT(60), <2>1
  <2>4. reader' = [q \in Readers |-> reader'[q]]
    BY <2>1
  <2>5. reader' \in [Readers -> ReaderRecord]
    BY <2>2, <2>3, <2>4 DEF ReaderRecord, ReaderSteps
  <2> QED BY <1>9, <2>5 DEF ReadEnds, shared, histories, ReaderRecord
<1>10. ASSUME NEW r \in Readers, NEW w \in Words, ReadWord(r, w) PROVE TypeOK'
  <2>1. ReferenceState[Slot(reader[r].version)][w] \in Versions
    BY <1>0 DEF Record
  <2>2. reader' = [reader EXCEPT ![r].left = @ \ {w},
                     ![r].copy[w] = ReferenceState[Slot(reader[r].version)][w]]
    BY <1>10 DEF ReadWord
  <2>3. \A q \in Readers : q # r => reader'[q] = reader[q]
    BY <2>2
  <2>4. reader'[r] = [at |-> reader[r].at, version |-> reader[r].version, left |-> reader[r].left \ {w},
                      copy |-> [reader[r].copy EXCEPT ![w] = ReferenceState[Slot(reader[r].version)][w]],
                      retry |-> reader[r].retry, result |-> reader[r].result]
    BY ZenonT(60), <2>2
  <2>5. reader' = [q \in Readers |-> reader'[q]]
    BY ZenonT(60), <2>2
  <2>6. reader' \in [Readers -> ReaderRecord]
    <3>1. reader'[r].copy \in Record
      BY <2>1, <2>4 DEF Record
    <3>2. reader'[r] \in ReaderRecord
      BY <3>1, <2>4 DEF ReaderRecord
    <3> QED BY <3>2, <2>3, <2>5 DEF ReaderRecord
  <2> QED BY <1>10, <2>6 DEF ReadWord, shared, histories, ReaderRecord
<1>11. CASE UNCHANGED vars
  BY <1>11 DEF vars
<1> QED
  BY <1>1, <1>2, <1>3, <1>4, <1>5, <1>7, <1>8, <1>9, <1>10, <1>11 DEF Next, Writer, Reader

\* The versions of the writer stay in step with the stamps: the record that is
\* stamped next is never the published one.
LEMMA WriterStep == TypeOK /\ WriterInv /\ [Next]_vars => WriterInv'
<1> SUFFICES ASSUME TypeOK, WriterInv, [Next]_vars PROVE WriterInv'
  OBVIOUS
<1> USE ReferenceAssumption DEF TypeOK, WriterInv
<1>0. LastVersionCounter \in Nat /\ Slot(LastVersionCounter) \in Slots
  BY SlotType DEF Versions
<1>s. StateVersion \in [Slots -> Int]
  BY DEF Versions, Unused
<1>1. ASSUME NEW F \in SUBSET Words, StartReferenceUpdate(F) PROVE WriterInv'
  <2>1. Slot(LastVersionCounter + 1) \in Slots
    BY <1>0, SlotType
  <2>2. Slot(LastVersionCounter + 1) # Slot(LastVersionCounter)
    BY <1>0, SlotReuse
  <2> QED BY <1>0, <1>s, <1>1, <2>1, <2>2 DEF StartReferenceUpdate
<1>2. ASSUME NEW w \in Words, CopyWord(w) \/ WriteWord(w) PROVE WriterInv'
  BY <1>2 DEF CopyWord, WriteWord
<1>3. CASE CopyDone
  BY <1>3 DEF CopyDone, shared
<1>4. CASE FinishReferenceUpdate
  BY <1>4, <1>0, <1>s DEF FinishReferenceUpdate
<1>5. ASSUME NEW r \in Readers, Reader(r) PROVE WriterInv'
  <2>1. UNCHANGED <<StateVersion, LastVersionCounter, writer>>
    BY <1>5 DEF Reader, GetReference, ReadEnds, ReadAgain, ReadWord, shared
  <2> QED BY <2>1
<1>6. CASE UNCHANGED vars
  BY <1>6 DEF vars
<1> QED BY <1>1, <1>2, <1>3, <1>4, <1>5, <1>6 DEF Next, Writer

\* An update disturbs no reader: versions and stamps only grow, and a record whose
\* stamp is still the version a reader took is not the one being written.
LEMMA WriterKeepsReaders ==
  ASSUME IInv, TypeOK', Writer
  PROVE  ReaderInv' /\ ReadConsistent'
<1> USE ReferenceAssumption DEF IInv
<1>0. /\ LastVersionCounter \in Nat /\ LastVersionCounter' \in Nat
      /\ StateVersion \in [Slots -> Int] /\ StateVersion' \in [Slots -> Int]
      /\ \A r \in Readers : /\ reader[r].version \in Nat /\ Slot(reader[r].version) \in Slots
                            /\ began[r] \in Nat
  BY SlotType DEF TypeOK, Versions, Unused
<1>1. UNCHANGED <<reader, began, found>>
  BY DEF Writer, StartReferenceUpdate, CopyWord, WriteWord, CopyDone, FinishReferenceUpdate, histories
<1>2. LastVersionCounter' >= LastVersionCounter
  <2>1. LastVersionCounter' = LastVersionCounter \/ FinishReferenceUpdate
    BY DEF Writer, StartReferenceUpdate, CopyWord, WriteWord, CopyDone, shared
  <2>2. FinishReferenceUpdate => LastVersionCounter' = LastVersionCounter + 1
    BY DEF FinishReferenceUpdate, WriterInv
  <2> QED BY <1>0, <2>1, <2>2
<1>3. ASSUME NEW v \in Nat, v <= LastVersionCounter, Slot(v) \in Slots, StateVersion[Slot(v)] >= v
      PROVE  /\ StateVersion'[Slot(v)] >= v
             /\ StateVersion'[Slot(v)] = v =>
                  /\ StateVersion[Slot(v)] = v
                  /\ ReferenceState'[Slot(v)] = ReferenceState[Slot(v)]
  <2>1. ASSUME NEW F \in SUBSET Words, StartReferenceUpdate(F)
        PROVE  /\ UNCHANGED ReferenceState
               /\ StateVersion'[Slot(v)] # StateVersion[Slot(v)] =>
                    StateVersion'[Slot(v)] = LastVersionCounter + 1
    BY <2>1, <1>0, <1>3 DEF StartReferenceUpdate, TypeOK
  <2>2. ASSUME NEW w \in Words, CopyWord(w) \/ WriteWord(w)
        PROVE  /\ UNCHANGED StateVersion
               /\ Slot(v) # Slot(writer.version) =>
                    ReferenceState'[Slot(v)] = ReferenceState[Slot(v)]
               /\ Slot(v) = Slot(writer.version) => StateVersion[Slot(v)] = LastVersionCounter + 1
    BY <2>2, <1>0, <1>3 DEF CopyWord, WriteWord, WriterInv, TypeOK
  <2>3. CASE CopyDone \/ FinishReferenceUpdate
    BY <2>3, <1>3 DEF CopyDone, FinishReferenceUpdate, shared
  <2>4. ASSUME NEW F \in SUBSET Words, StartReferenceUpdate(F)
        PROVE  /\ StateVersion'[Slot(v)] >= v
               /\ StateVersion'[Slot(v)] = v =>
                    /\ StateVersion[Slot(v)] = v
                    /\ ReferenceState'[Slot(v)] = ReferenceState[Slot(v)]
    BY <2>1, <2>4, <1>0, <1>3
  <2>5. ASSUME NEW w \in Words, CopyWord(w) \/ WriteWord(w)
        PROVE  /\ StateVersion'[Slot(v)] >= v
               /\ StateVersion'[Slot(v)] = v =>
                    /\ StateVersion[Slot(v)] = v
                    /\ ReferenceState'[Slot(v)] = ReferenceState[Slot(v)]
    BY <2>2, <2>5, <1>0, <1>3
  <2> QED BY <2>3, <2>4, <2>5 DEF Writer
<1>4. ASSUME NEW r \in Readers PROVE CopyInv(r)'
  <2>1. CopyInv(r)
    BY DEF ReaderInv
  <2>2. CASE reader[r].at = "copy"
    <3>1. /\ reader[r].version <= LastVersionCounter
          /\ StateVersion[Slot(reader[r].version)] >= reader[r].version
      BY <2>1, <2>2 DEF CopyInv
    <3>2. /\ StateVersion'[Slot(reader[r].version)] >= reader[r].version
          /\ StateVersion'[Slot(reader[r].version)] = reader[r].version =>
               /\ StateVersion[Slot(reader[r].version)] = reader[r].version
               /\ ReferenceState'[Slot(reader[r].version)] = ReferenceState[Slot(reader[r].version)]
      BY <3>1, <1>0, <1>3
    <3>3. reader[r].version <= LastVersionCounter'
      BY <3>1, <1>0, <1>2
    <3> QED BY <2>1, <2>2, <3>2, <3>3, <1>1 DEF CopyInv
  <2>3. CASE reader[r].at # "copy"
    BY <2>3, <1>1 DEF CopyInv
  <2> QED BY <2>2, <2>3
<1>5. ASSUME NEW r \in Readers PROVE StormInv(r)'
  <2>1. StormInv(r)
    BY DEF ReaderInv
  <2> QED BY <2>1, <1>0, <1>1, <1>2 DEF StormInv
<1>6. ReadConsistent'
  BY <1>1 DEF ReadConsistent
<1> QED BY <1>4, <1>5, <1>6 DEF ReaderInv

\* A step of one reader leaves the others as they are and keeps its own part of
\* the invariant.  A retry happens only after the record was stamped again, that
\* is, Depth - 1 published updates later.
LEMMA ReaderKeepsInv ==
  ASSUME IInv, TypeOK', NEW r \in Readers, Reader(r)
  PROVE  ReaderInv' /\ ReadConsistent'
<1> USE ReferenceAssumption DEF IInv
<1>0. /\ LastVersionCounter \in Nat /\ Depth - 1 \in Nat
      /\ StateVersion \in [Slots -> Int]
      /\ \A q \in Readers : /\ reader[q].version \in Nat /\ Slot(reader[q].version) \in Slots
                            /\ began[q] \in Nat /\ reader[q].retry \in 0 .. RetryLimit
      /\ Slot(LastVersionCounter) \in Slots
  BY SlotType DEF TypeOK, Versions, Unused
<1>1. UNCHANGED <<shared, writer>>
  BY DEF Reader, GetReference, ReadEnds, ReadAgain, ReadWord
<1>2. \A q \in Readers : q # r =>
        reader'[q] = reader[q] /\ began'[q] = began[q] /\ found'[q] = found[q]
  BY ZenonT(60) DEF Reader, GetReference, ReadEnds, ReadAgain, ReadWord, Attempt, histories, TypeOK
<1>3. CopyInv(r) /\ StormInv(r)
  BY DEF ReaderInv
<1>4. SUFFICES /\ CopyInv(r)' /\ StormInv(r)'
               /\ reader'[r].result = "good" =>
                    reader'[r].copy = found'[r] /\ reader'[r].version >= began'[r]
  <2>1. \A q \in Readers : q # r => CopyInv(q)' /\ StormInv(q)'
    BY <1>1, <1>2 DEF shared, ReaderInv, CopyInv, StormInv
  <2> QED BY <1>2, <1>4, <2>1 DEF ReaderInv, ReadConsistent
<1>5. ASSUME NEW n \in 0 .. RetryLimit, Attempt(r, n), began'[r] \in 1 .. LastVersionCounter,
             LastVersionCounter - began'[r] >= (RetryLimit - n) * (Depth - 1)
      PROVE  /\ CopyInv(r)' /\ StormInv(r)'
             /\ reader'[r].result = "good" =>
                  reader'[r].copy = found'[r] /\ reader'[r].version >= began'[r]
  <2>1. /\ reader'[r] = [at |-> "copy", version |-> LastVersionCounter, left |-> Words,
                         copy |-> Blank, retry |-> n, result |-> "none"]
        /\ found'[r] = Current
    BY <1>5 DEF Attempt, TypeOK
  <2>2. StateVersion[Slot(LastVersionCounter)] = LastVersionCounter
    BY DEF WriterInv
  <2>3. CopyInv(r)'
    BY <1>0, <1>1, <1>5, <2>1, <2>2 DEF CopyInv, Current, shared
  <2>4. StormInv(r)'
    BY <1>5, <2>1 DEF StormInv
  <2> QED BY <2>1, <2>3, <2>4
<1>6. CASE GetReference(r)
  <2>1. Attempt(r, RetryLimit) /\ began'[r] = LastVersionCounter
    BY <1>6 DEF GetReference, TypeOK
  <2>2. LastVersionCounter >= 1
    BY DEF WriterInv
  <2>3. (RetryLimit - RetryLimit) * (Depth - 1) = 0
    BY <1>0, SMT
  <2> QED BY <1>0, <1>5, <2>1, <2>2, <2>3
<1>7. CASE ReadAgain(r)
  <2> DEFINE v == reader[r].version
             n == reader[r].retry
  <2>1. /\ Attempt(r, n - 1) /\ began'[r] = began[r] /\ n - 1 \in 0 .. RetryLimit
        /\ reader[r].at = "copy" /\ StateVersion[Slot(v)] # v
    BY <1>7, <1>0 DEF ReadAgain, Unchanged
  <2>2. /\ StateVersion[Slot(v)] > v /\ 1 <= began[r] /\ began[r] <= v /\ v <= LastVersionCounter
        /\ v - began[r] >= (RetryLimit - n) * (Depth - 1)
    BY <2>1, <1>0, <1>3 DEF CopyInv, StormInv
  <2>3. /\ Slot(StateVersion[Slot(v)]) = Slot(v) /\ StateVersion[Slot(v)] \in Nat
        /\ StateVersion[Slot(v)] <= LastVersionCounter + 1
    BY <2>2, <1>0 DEF TypeOK, WriterInv, Unused, Versions
  <2>4. LastVersionCounter >= v + (Depth - 1)
    BY <2>2, <2>3, <1>0, SlotReuse
  <2>5. (RetryLimit - (n - 1)) * (Depth - 1) = (RetryLimit - n) * (Depth - 1) + (Depth - 1)
    BY <1>0, SMT
  <2>6. (RetryLimit - n) * (Depth - 1) \in Int
    BY <1>0, SMT
  <2>7. LastVersionCounter - began[r] >= (RetryLimit - (n - 1)) * (Depth - 1)
    <3> DEFINE k == (RetryLimit - n) * (Depth - 1)
               l == (RetryLimit - (n - 1)) * (Depth - 1)
    <3>1. k \in Int /\ l = k + (Depth - 1) /\ v - began[r] >= k
      BY <2>2, <2>5, <2>6
    <3> HIDE DEF k, l
    <3>2. LastVersionCounter - began[r] >= l
      BY <3>1, <2>4, <1>0
    <3> QED BY <3>2 DEF l
  <2>8. began'[r] \in 1 .. LastVersionCounter
    BY <2>1, <2>2, <1>0
  <2> QED BY <2>1, <2>7, <2>8, <1>5
<1>8. CASE ReadEnds(r)
  <2>1. /\ reader[r].at = "copy" /\ reader[r].left = {}
        /\ reader[r].retry # 0 => StateVersion[Slot(reader[r].version)] = reader[r].version
        /\ began'[r] = began[r] /\ found'[r] = found[r]
        /\ reader'[r].at = "done" /\ reader'[r].copy = reader[r].copy
        /\ reader'[r].version = reader[r].version
        /\ reader'[r].result = IF reader[r].retry = 0 THEN "zero" ELSE "good"
    BY <1>8 DEF ReadEnds, Unchanged, histories, TypeOK
  <2>2. CopyInv(r)'
    BY <2>1 DEF CopyInv
  <2>3. StormInv(r)'
    BY <2>1, <1>0, <1>1, <1>3 DEF StormInv, CopyInv, shared
  <2>4. reader[r].retry # 0 => reader[r].copy = found[r]
    <3>1. reader[r].copy \in [Words -> Versions] /\ found[r] \in [Words -> Versions]
      BY DEF TypeOK, Record
    <3>2. reader[r].retry # 0 => \A w \in Words : reader[r].copy[w] = found[r][w]
      BY <2>1, <1>3 DEF CopyInv
    <3> QED BY <3>1, <3>2
  <2>5. reader[r].version >= began[r]
    BY <2>1, <1>3, <1>0 DEF CopyInv
  <2> QED BY <2>1, <2>2, <2>3, <2>4, <2>5
<1>9. ASSUME NEW w \in Words, ReadWord(r, w)
      PROVE  /\ CopyInv(r)' /\ StormInv(r)'
             /\ reader'[r].result = "good" =>
                  reader'[r].copy = found'[r] /\ reader'[r].version >= began'[r]
  <2>1. /\ reader[r].at = "copy" /\ began'[r] = began[r] /\ found'[r] = found[r]
        /\ reader'[r].at = "copy" /\ reader'[r].version = reader[r].version
        /\ reader'[r].result = reader[r].result /\ reader'[r].retry = reader[r].retry
        /\ reader'[r].left = reader[r].left \ {w}
    BY <1>9 DEF ReadWord, histories, TypeOK
  <2>2. reader'[r].copy = [reader[r].copy EXCEPT ![w] = ReferenceState[Slot(reader[r].version)][w]]
    BY <1>9 DEF ReadWord, TypeOK
  <2>3. /\ reader'[r].copy[w] = ReferenceState[Slot(reader[r].version)][w]
        /\ \A x \in Words \ {w} : reader'[r].copy[x] = reader[r].copy[x]
    <3>1. reader[r].copy \in [Words -> Versions]
      BY DEF TypeOK, Record
    <3> QED BY <3>1, <2>2
  <2>4. CopyInv(r)'
    BY <2>1, <2>3, <1>1, <1>3 DEF CopyInv, shared
  <2>5. StormInv(r)'
    BY <2>1, <1>1, <1>3 DEF StormInv, CopyInv
  <2>6. reader[r].result = "none"
    BY <2>1, <1>3 DEF CopyInv
  <2> QED BY <2>1, <2>4, <2>5, <2>6
<1> QED BY <1>6, <1>7, <1>8, <1>9 DEF Reader

\* The invariant is inductive.
LEMMA InvStep == IInv /\ [Next]_vars => IInv'
<1> SUFFICES ASSUME IInv, [Next]_vars PROVE IInv'
  OBVIOUS
<1>1. TypeOK' /\ WriterInv'
  BY TypeStep, WriterStep DEF IInv
<1>2. CASE Writer
  BY <1>1, <1>2, WriterKeepsReaders DEF IInv
<1>3. ASSUME NEW r \in Readers, Reader(r) PROVE IInv'
  BY <1>1, <1>3, ReaderKeepsInv DEF IInv
<1>4. CASE UNCHANGED vars
  BY <1>1, <1>4 DEF vars, IInv, ReaderInv, CopyInv, StormInv, ReadConsistent
<1> QED BY <1>2, <1>3, <1>4 DEF Next

\* The invariant holds in every reachable state.
LEMMA InvAlways == Spec => []IInv
  BY InitInv, InvStep, PTL DEF Spec

-----------------------------------------------------------------------------
\* The stamp of a record in use is a version of its slot, and a read never has
\* more retries left than CFE_TIME_GetReference started with.
THEOREM ReferenceTypeCorrect == Spec => []TypeOK
<1>1. IInv => TypeOK
  BY DEF IInv
<1> QED BY <1>1, InvAlways, PTL

\* A read of the time reference that succeeds returns one published update,
\* never a mixture of two and never one older than the call, for every number of
\* records, words and readers and however the writer interrupts it.
THEOREM NoTornRead == Spec => []ReadConsistent
<1>1. IInv => ReadConsistent
  BY DEF IInv
<1> QED BY <1>1, InvAlways, PTL

\* CFE_TIME_GetReference returns zeroes only if the reference was updated at least
\* RetryLimit * (Depth - 1) times during this one call.
THEOREM ZeroNeedsStorm == Spec => []GivesUpOnlyUnderStorm
<1>1. IInv => GivesUpOnlyUnderStorm
  <2> SUFFICES ASSUME IInv, NEW r \in Readers, reader[r].result = "zero"
               PROVE  LastVersionCounter - began[r] >= RetryLimit * (Depth - 1)
    BY DEF GivesUpOnlyUnderStorm
  <2> DEFINE k == RetryLimit * (Depth - 1)
  <2>1. /\ LastVersionCounter \in Int /\ began[r] \in Int /\ reader[r].version \in Int
        /\ reader[r].version - began[r] >= k /\ reader[r].version <= LastVersionCounter
    BY DEF IInv, TypeOK, ReaderInv, StormInv, Versions
  <2>2. k \in Int
    BY ReferenceAssumption, SMT
  <2> HIDE DEF k
  <2>3. LastVersionCounter - began[r] >= k
    BY <2>1, <2>2
  <2> QED BY <2>3 DEF k
<1> QED BY <1>1, InvAlways, PTL
=============================================================================
