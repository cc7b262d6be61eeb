------------------------- MODULE AppLifecycleProofs -------------------------
(***************************************************************************)
(* ExecutiveServices implements AppLifecycle.  To the tables' invariant is *)
(* added what ties a record to the work on it: an application that ES has  *)
(* listed for removal stays stopped until it is removed, and the copy of   *)
(* its request that the background task works from stays true.             *)
(***************************************************************************)
EXTENDS ExecutiveServicesProofs

UsedTyped ==
    \A s \in AppSlots : IsUsed(appTable[s]) =>
        appTable[s].name \in Names /\ appTable[s].file \in Files

(* A slot that a late request may still find RUNNING holds an application. *)
RunningReal == \A s \in AppSlots : appTable[s].state = "RUNNING" => appTable[s].id > Free

StoppingAsked == \A s \in AppSlots : Stopping(appTable[s]) => appTable[s].req # "APP_RUN"

Doomed(a) == AppRecordIsMatch(a) /\ Stopping(appTable[LocateAppRecordByID(a)])

Working == bg.pc \in {"collect", "services", "tasks"}

ListedDoomed ==
    /\ \A i \in DOMAIN bg.list : Doomed(bg.list[i])
    /\ \A i, j \in DOMAIN bg.list : bg.list[i] = bg.list[j] => i = j
    /\ Working => \A i \in DOMAIN bg.list : bg.list[i] # bg.id

SnapshotTrue ==
    /\ bg.pc = "collect" => AppRecordIsMatch(bg.id)
    /\ Working =>
         LET rec == appTable[LocateAppRecordByID(bg.id)]
         IN  Stopping(rec) /\ bg.req = rec.req /\ bg.name = rec.name /\ bg.file = rec.file
    /\ bg.pc = "create" => bg.name \in Names /\ bg.file \in Files

ReloadNamesFile == (cmd.pc = "ask" /\ cmd.kind = "SYS_RELOAD") => cmd.file \in Files

LifeInv == UsedTyped /\ RunningReal /\ StoppingAsked /\ ListedDoomed /\ SnapshotTrue /\ ReloadNamesFile

-----------------------------------------------------------------------------
(* What the mapping shows of a record.                                       *)
LEMMA OnlySlot ==
  ASSUME NEW T, NEW s \in AppSlots, NEW n, T[s].id # Free /\ T[s].name = n,
         \A q \in AppSlots : (T[q].id # Free /\ T[q].name = n) => q = s
  PROVE  (CHOOSE x \in {x \in AppSlots : T[x].id # Free /\ T[x].name = n} : TRUE) = s
<1>1. {x \in AppSlots : T[x].id # Free /\ T[x].name = n} = {s}
  OBVIOUS
<1> QED BY <1>1

\* A record in use is what the mapping shows of its name.
LEMMA Shown ==
  ASSUME NamesApart, NEW s \in AppSlots, NEW n, IsUsed(appTable[s]), appTable[s].name = n
  PROVE  /\ StatusOf(n) = Phase(appTable[s].state) /\ FileOf(n) = appTable[s].file
         /\ RequestOf(n) = appTable[s].req
<1>1. \A q \in AppSlots : (appTable[q].id # Free /\ appTable[q].name = n) => q = s
  BY DEF NamesApart, IsUsed
<1>2. (CHOOSE x \in AppsNamed(n) : TRUE) = s
  BY <1>1, OnlySlot DEF AppsNamed, IsUsed
<1>3. s \in AppsNamed(n)
  BY DEF AppsNamed
<1>4. Occupied(n) /\ RecordOf(n) = appTable[s]
  BY <1>2, <1>3 DEF Occupied, RecordOf
<1> QED BY <1>4 DEF StatusOf, FileOf, RequestOf

\* The same after the step.
LEMMA ShownNext ==
  ASSUME NamesApart', NEW s \in AppSlots, NEW n, IsUsed(appTable'[s]), appTable'[s].name = n
  PROVE  /\ StatusOf(n)' = Phase(appTable'[s].state) /\ FileOf(n)' = appTable'[s].file
         /\ RequestOf(n)' = appTable'[s].req
<1>1. \A q \in AppSlots : (appTable'[q].id # Free /\ appTable'[q].name = n) => q = s
  BY DEF NamesApart, IsUsed
<1>2. (CHOOSE x \in AppsNamed(n)' : TRUE) = s
  BY <1>1, OnlySlot DEF AppsNamed, IsUsed
<1>3. s \in AppsNamed(n)'
  BY DEF AppsNamed
<1>4. Occupied(n)' /\ RecordOf(n)' = appTable'[s]
  BY <1>2, <1>3 DEF Occupied, RecordOf
<1> QED BY <1>4 DEF StatusOf, FileOf, RequestOf

\* A name without a record is shown as absent.
LEMMA NotShown ==
  ASSUME NEW n, \A s \in AppSlots : ~(IsUsed(appTable[s]) /\ appTable[s].name = n)
  PROVE  StatusOf(n) = "absent" /\ FileOf(n) = NoFile /\ RequestOf(n) = "APP_RUN"
BY DEF StatusOf, FileOf, RequestOf, Occupied, AppsNamed

\* The same after the step.
LEMMA NotShownNext ==
  ASSUME NEW n, \A s \in AppSlots : ~(IsUsed(appTable'[s]) /\ appTable'[s].name = n)
  PROVE  StatusOf(n)' = "absent" /\ FileOf(n)' = NoFile /\ RequestOf(n)' = "APP_RUN"
BY DEF StatusOf, FileOf, RequestOf, Occupied, AppsNamed

\* A record whose change is not seen, and a name whose record does not change.
SameView(s) ==
    /\ IsUsed(appTable'[s]) <=> IsUsed(appTable[s])
    /\ IsUsed(appTable[s]) =>
         /\ appTable'[s].name = appTable[s].name /\ Phase(appTable'[s].state) = Phase(appTable[s].state)
         /\ appTable'[s].file = appTable[s].file /\ appTable'[s].req = appTable[s].req

Elsewhere(s, n) ==
    ~(IsUsed(appTable[s]) /\ appTable[s].name = n) /\ ~(IsUsed(appTable'[s]) /\ appTable'[s].name = n)

SameName(n) == StatusOf(n)' = StatusOf(n) /\ FileOf(n)' = FileOf(n) /\ RequestOf(n)' = RequestOf(n)

\* If each record looks the same or has nothing to do with n, n looks the same.
LEMMA Frame ==
  ASSUME NamesApart, NamesApart', NEW n, \A s \in AppSlots : SameView(s) \/ Elsewhere(s, n)
  PROVE  SameName(n)
<1>1. CASE \E s \in AppSlots : IsUsed(appTable[s]) /\ appTable[s].name = n
  <2>1. PICK s \in AppSlots : IsUsed(appTable[s]) /\ appTable[s].name = n
    BY <1>1
  <2>2. SameView(s)
    BY <2>1 DEF Elsewhere
  <2>3. IsUsed(appTable'[s]) /\ appTable'[s].name = n
    BY <2>1, <2>2 DEF SameView
  <2> QED BY <2>1, <2>2, <2>3, Shown, ShownNext DEF SameView, SameName
<1>2. CASE ~ \E s \in AppSlots : IsUsed(appTable[s]) /\ appTable[s].name = n
  <2>1. \A s \in AppSlots : ~(IsUsed(appTable'[s]) /\ appTable'[s].name = n)
    BY <1>2 DEF SameView, Elsewhere
  <2> QED BY <1>2, <2>1, NotShown, NotShownNext DEF SameName
<1> QED BY <1>1, <1>2

-----------------------------------------------------------------------------
(* Steps of the abstract specification, name by name.                        *)
SameRedo == \A n \in Names : RestartOf(n)' = RestartOf(n)

\* If no restart is taken up or finished, the function of restarts stays.
LEMMA AbstractRedo == ASSUME SameRedo PROVE [n \in Names |-> RestartOf(n)]' = [n \in Names |-> RestartOf(n)]
BY DEF SameRedo

\* If every name looks the same, the mapped variables stay.
LEMMA AbstractSame ==
  ASSUME \A n \in Names : SameName(n)
  PROVE  /\ [n \in Names |-> StatusOf(n)]' = [n \in Names |-> StatusOf(n)]
         /\ [n \in Names |-> FileOf(n)]' = [n \in Names |-> FileOf(n)]
         /\ [n \in Names |-> RequestOf(n)]' = [n \in Names |-> RequestOf(n)]
BY DEF SameName

\* If only n looks different, the mapped variables change at n alone.
LEMMA AbstractBecomes ==
  ASSUME NEW n \in Names, \A m \in Names : m # n => SameName(m),
         NEW s, NEW f, NEW r, StatusOf(n)' = s, FileOf(n)' = f, RequestOf(n)' = r
  PROVE  Lifecycle!Becomes(n, s, f, r)
<1>1. [m \in Names |-> StatusOf(m)]' = [[m \in Names |-> StatusOf(m)] EXCEPT ![n] = s]
  BY DEF SameName
<1>2. [m \in Names |-> FileOf(m)]' = [[m \in Names |-> FileOf(m)] EXCEPT ![n] = f]
  BY DEF SameName
<1>3. [m \in Names |-> RequestOf(m)]' = [[m \in Names |-> RequestOf(m)] EXCEPT ![n] = r]
  BY DEF SameName
<1> QED BY <1>1, <1>2, <1>3 DEF Lifecycle!Becomes

OnlyChanges(z) == \A s \in AppSlots : s # z => appTable'[s] = appTable[s]

\* A step on the record of n leaves the other names alone.
LEMMA OneName ==
  ASSUME NamesApart, NamesApart', NEW z \in AppSlots, NEW n, OnlyChanges(z),
         IsUsed(appTable[z]) => appTable[z].name = n,
         IsUsed(appTable'[z]) => appTable'[z].name = n
  PROVE  \A m \in Names : m # n => SameName(m)
<1>1. ASSUME NEW m \in Names, m # n, NEW s \in AppSlots PROVE SameView(s) \/ Elsewhere(s, m)
  <2>1. CASE s = z
    BY <1>1, <2>1 DEF Elsewhere
  <2>2. CASE s # z
    BY <1>1, <2>2 DEF SameView, OnlyChanges
  <2> QED BY <2>1, <2>2
<1> QED BY <1>1, Frame

\* What the states of a record are shown as.
LEMMA Phases ==
  /\ Phase("INIT") = "starting" /\ Phase("RUNNING") = "running"
  /\ Phase("WAITING") = "stopping" /\ Phase("STOPPED") = "stopping"
BY DEF Phase

\* Reserving a record for a name that has none is Start.
LEMMA StartStep ==
  ASSUME NamesApart, NamesApart', SameRedo, NEW z \in AppSlots, NEW n \in Names, NEW f \in Files,
         OnlyChanges(z), ~IsUsed(appTable[z]), AppsNamed(n) = {},
         IsUsed(appTable'[z]), appTable'[z].name = n, appTable'[z].file = f,
         appTable'[z].state = "INIT", appTable'[z].req = "APP_RUN"
  PROVE  Lifecycle!Start(n, f)
<1>1. \A m \in Names : m # n => SameName(m)
  BY OneName
<1>2. StatusOf(n)' = "starting" /\ FileOf(n)' = f /\ RequestOf(n)' = "APP_RUN"
  BY ShownNext, Phases
<1>3. Lifecycle!Becomes(n, "starting", f, "APP_RUN")
  BY <1>1, <1>2, AbstractBecomes
<1>4. StatusOf(n) = "absent"
  BY NotShown DEF AppsNamed
<1> QED BY <1>3, <1>4, AbstractRedo DEF Lifecycle!Start

\* Freeing a record whose application never ran is StartFails.
LEMMA FailStep ==
  ASSUME NamesApart, NamesApart', SameRedo, NEW z \in AppSlots, NEW n \in Names,
         OnlyChanges(z), IsUsed(appTable[z]), appTable[z].name = n, appTable[z].state = "INIT",
         ~IsUsed(appTable'[z])
  PROVE  Lifecycle!StartFails(n)
<1>1. \A m \in Names : m # n => SameName(m)
  BY OneName
<1>2. \A s \in AppSlots : ~(IsUsed(appTable'[s]) /\ appTable'[s].name = n)
  BY DEF OnlyChanges, NamesApart
<1>3. StatusOf(n)' = "absent" /\ FileOf(n)' = NoFile /\ RequestOf(n)' = "APP_RUN"
  BY <1>2, NotShownNext
<1>4. Lifecycle!Becomes(n, "absent", NoFile, "APP_RUN")
  BY <1>1, <1>3, AbstractBecomes
<1>5. StatusOf(n) = "starting"
  BY Shown, Phases
<1> QED BY <1>4, <1>5, AbstractRedo DEF Lifecycle!StartFails

\* A step that keeps the record in use and its name.
KeepsName(z, n) ==
    /\ OnlyChanges(z)
    /\ IsUsed(appTable[z]) /\ appTable[z].name = n
    /\ IsUsed(appTable'[z]) /\ appTable'[z].name = n

\* A step on a record that keeps its name moves the name from what the record
\* was to what it is.
LEMMA KeptStep ==
  ASSUME NamesApart, NamesApart', NEW z \in AppSlots, NEW n \in Names, KeepsName(z, n)
  PROVE  /\ Lifecycle!Becomes(n, Phase(appTable'[z].state), appTable'[z].file, appTable'[z].req)
         /\ StatusOf(n) = Phase(appTable[z].state) /\ FileOf(n) = appTable[z].file
         /\ RequestOf(n) = appTable[z].req
<1>1. \A m \in Names : m # n => SameName(m)
  BY OneName DEF KeepsName
<1>2. /\ StatusOf(n)' = Phase(appTable'[z].state) /\ FileOf(n)' = appTable'[z].file
      /\ RequestOf(n)' = appTable'[z].req
  BY ShownNext DEF KeepsName
<1>3. Lifecycle!Becomes(n, Phase(appTable'[z].state), appTable'[z].file, appTable'[z].req)
  BY <1>1, <1>2, AbstractBecomes
<1> QED BY <1>3, Shown DEF KeepsName

\* An application that gets to its first run loop: Run.
LEMMA StartsRunning ==
  ASSUME NamesApart, NamesApart', SameRedo, NEW z \in AppSlots, NEW n \in Names, KeepsName(z, n),
         appTable[z].state = "INIT", appTable'[z].state = "RUNNING",
         appTable'[z].file = appTable[z].file, appTable'[z].req = appTable[z].req
  PROVE  Lifecycle!Run(n)
BY KeptStep, Phases, AbstractRedo DEF Lifecycle!Run

\* A request to a running application: Ask.
LEMMA IsAsked ==
  ASSUME NamesApart, NamesApart', SameRedo, NEW z \in AppSlots, NEW n \in Names, KeepsName(z, n),
         NEW r, appTable[z].state = "RUNNING", appTable'[z].state = "RUNNING",
         appTable'[z].file = appTable[z].file, appTable'[z].req = r
  PROVE  Lifecycle!Ask(n, r)
BY KeptStep, Phases, AbstractRedo DEF Lifecycle!Ask

\* A request that names a new file: Reload.
LEMMA IsReloaded ==
  ASSUME NamesApart, NamesApart', SameRedo, NEW z \in AppSlots, NEW n \in Names, KeepsName(z, n),
         NEW f, appTable[z].state = "RUNNING", appTable'[z].state = "RUNNING",
         appTable'[z].file = f, appTable'[z].req = "SYS_RELOAD"
  PROVE  Lifecycle!Reload(n, f)
BY KeptStep, Phases, AbstractRedo DEF Lifecycle!Reload

\* A name that stops, with its earlier request if it had one, exits: Exit.
LEMMA AbstractExit ==
  ASSUME SameRedo, NEW n \in Names, NEW r, StatusOf(n) \in {"starting", "running"},
         Lifecycle!Becomes(n, "stopping", FileOf(n),
           IF RequestOf(n) = "APP_RUN" THEN r ELSE RequestOf(n))
  PROVE  Lifecycle!Exit(n, r)
<1>1. /\ [m \in Names |-> StatusOf(m)][n] = StatusOf(n) /\ [m \in Names |-> FileOf(m)][n] = FileOf(n)
      /\ [m \in Names |-> RequestOf(m)][n] = RequestOf(n)
  OBVIOUS
<1>2. [m \in Names |-> RestartOf(m)]' = [m \in Names |-> RestartOf(m)]
  BY AbstractRedo
<1> QED BY <1>1, <1>2, Zenon DEF Lifecycle!Exit

\* CFE_ES_ExitApp, on the record of the caller, is Exit.
LEMMA LeavesStep ==
  ASSUME NamesApart, NamesApart', SameRedo, NEW z \in AppSlots, NEW n \in Names, KeepsName(z, n),
         NEW r, appTable[z].state \in {"INIT", "RUNNING"}, appTable'[z].state = "STOPPED",
         appTable'[z].file = appTable[z].file, appTable'[z].req = ExitRequest(appTable[z], r)
  PROVE  Lifecycle!Exit(n, r)
<1>5. /\ Lifecycle!Becomes(n, Phase(appTable'[z].state), appTable'[z].file, appTable'[z].req)
      /\ StatusOf(n) = Phase(appTable[z].state) /\ FileOf(n) = appTable[z].file
      /\ RequestOf(n) = appTable[z].req
  BY KeptStep
<1>1. /\ Lifecycle!Becomes(n, "stopping", appTable[z].file, ExitRequest(appTable[z], r))
      /\ StatusOf(n) = Phase(appTable[z].state) /\ FileOf(n) = appTable[z].file
      /\ RequestOf(n) = appTable[z].req
  BY <1>5, Phases
<1>2. StatusOf(n) \in {"starting", "running"}
  BY <1>1, Phases
<1>3. ExitRequest(appTable[z], r) = IF RequestOf(n) = "APP_RUN" THEN r ELSE RequestOf(n)
  BY <1>1 DEF ExitRequest
<1>4. Lifecycle!Becomes(n, "stopping", FileOf(n), IF RequestOf(n) = "APP_RUN" THEN r ELSE RequestOf(n))
  BY <1>1, <1>3
<1>9. Lifecycle!Exit(n, r)
  BY <1>2, <1>4, AbstractExit
<1> QED BY <1>9

\* The record of n is set free by the clean-up.
LEMMA IsRemoved ==
  ASSUME NamesApart, NamesApart', NEW z \in AppSlots, NEW n \in Names,
         OnlyChanges(z), IsUsed(appTable[z]), appTable[z].name = n, Stopping(appTable[z]),
         ~IsUsed(appTable'[z]),
         \A m \in Names : m # n => RestartOf(m)' = RestartOf(m),
         RestartOf(n)' = IF appTable[z].req \in RestartRequests THEN appTable[z].file ELSE NoFile
  PROVE  Lifecycle!Remove(n)
<1>1. \A m \in Names : m # n => SameName(m)
  BY OneName
<1>2. \A s \in AppSlots : ~(IsUsed(appTable'[s]) /\ appTable'[s].name = n)
  BY DEF OnlyChanges, NamesApart
<1>3. StatusOf(n)' = "absent" /\ FileOf(n)' = NoFile /\ RequestOf(n)' = "APP_RUN"
  BY <1>2, NotShownNext
<1>4. Lifecycle!Becomes(n, "absent", NoFile, "APP_RUN")
  BY <1>1, <1>3, AbstractBecomes
<1>5. StatusOf(n) = Phase(appTable[z].state) /\ FileOf(n) = appTable[z].file
        /\ RequestOf(n) = appTable[z].req
  BY Shown
<1>6. StatusOf(n) = "stopping"
  BY <1>5, Phases DEF Stopping
<1>7. RestartOf(n)' = IF RequestOf(n) \in {"SYS_RESTART", "SYS_RELOAD"} THEN FileOf(n) ELSE NoFile
  BY <1>5 DEF RestartRequests
<1>8. [m \in Names |-> RestartOf(m)]' =
        [[m \in Names |-> RestartOf(m)] EXCEPT ![n] =
           IF RequestOf(n) \in {"SYS_RESTART", "SYS_RELOAD"} THEN FileOf(n) ELSE NoFile]
  BY <1>7
<1> QED BY <1>4, <1>6, <1>8 DEF Lifecycle!Remove

\* ES notices requests: some running records with a request become WAITING.
LEMMA AreNoticed ==
  ASSUME NamesApart, NamesApart', SameRedo, UsedTyped,
         \A s \in AppSlots :
           /\ appTable'[s].id = appTable[s].id /\ appTable'[s].name = appTable[s].name
           /\ appTable'[s].file = appTable[s].file /\ appTable'[s].req = appTable[s].req
           /\ appTable'[s].state = IF Requested(appTable[s]) THEN "WAITING" ELSE appTable[s].state
  PROVE  \E S \in SUBSET Names : Lifecycle!Notice(S)
<1> DEFINE S == {n \in Names : \E s \in AppSlots : Requested(appTable[s]) /\ appTable[s].name = n}
<1>1. ASSUME NEW n \in S
      PROVE  /\ StatusOf(n) = "running" /\ RequestOf(n) # "APP_RUN" /\ StatusOf(n)' = "stopping"
             /\ FileOf(n)' = FileOf(n) /\ RequestOf(n)' = RequestOf(n)
  <2>1. PICK s \in AppSlots : Requested(appTable[s]) /\ appTable[s].name = n
    OBVIOUS
  <2>2. /\ IsUsed(appTable[s]) /\ appTable[s].state = "RUNNING" /\ appTable[s].req # "APP_RUN"
        /\ IsUsed(appTable'[s]) /\ appTable'[s].name = n /\ appTable'[s].state = "WAITING"
    BY <2>1 DEF Requested, IsUsed
  <2>3. StatusOf(n) = "running" /\ FileOf(n) = appTable[s].file /\ RequestOf(n) = appTable[s].req
    BY <2>1, <2>2, Shown, Phases
  <2>4. StatusOf(n)' = "stopping" /\ FileOf(n)' = appTable'[s].file /\ RequestOf(n)' = appTable'[s].req
    BY <2>2, ShownNext, Phases
  <2> QED BY <2>2, <2>3, <2>4
<1>2. ASSUME NEW n \in Names, n \notin S PROVE SameName(n)
  <2>1. ASSUME NEW s \in AppSlots PROVE SameView(s) \/ Elsewhere(s, n)
    <3>1. CASE Requested(appTable[s])
      <4>1. appTable[s].name # n
        BY <1>2, <3>1
      <4> QED BY <4>1 DEF Elsewhere
    <3>2. CASE ~Requested(appTable[s])
      BY <3>2 DEF SameView, IsUsed
    <3> QED BY <3>1, <3>2
  <2> QED BY <2>1, Frame
<1>3. \A n \in Names : FileOf(n)' = FileOf(n) /\ RequestOf(n)' = RequestOf(n)
  BY <1>1, <1>2 DEF SameName
<1>4. \A n \in Names : StatusOf(n)' = IF n \in S THEN "stopping" ELSE StatusOf(n)
  BY <1>1, <1>2 DEF SameName
<1>5. \A n \in S : StatusOf(n) = "running" /\ RequestOf(n) # "APP_RUN"
  BY <1>1
<1>6. S \in SUBSET Names
  OBVIOUS
<1> HIDE DEF S
<1>7. [n \in Names |-> StatusOf(n)]' = [n \in Names |-> IF n \in S THEN "stopping" ELSE [m \in Names |-> StatusOf(m)][n]]
  BY <1>4
<1>8. [n \in Names |-> FileOf(n)]' = [n \in Names |-> FileOf(n)] /\ [n \in Names |-> RequestOf(n)]' = [n \in Names |-> RequestOf(n)]
  BY <1>3
<1>9. \A n \in S : [m \in Names |-> StatusOf(m)][n] = "running" /\ [m \in Names |-> RequestOf(m)][n] # "APP_RUN"
  BY <1>5, <1>6
<1>10. Lifecycle!Notice(S)
  BY <1>7, <1>8, <1>9, AbstractRedo DEF Lifecycle!Notice
<1> QED BY <1>6, <1>10

\* The restart is begun, ...
LEMMA AbstractRestart ==
  ASSUME bg.pc = "create", bg.name \in Names, bg.file \in Files, bg'.pc # "create"
  PROVE  /\ [m \in Names |-> RestartOf(m)][bg.name] = bg.file /\ bg.file # NoFile
         /\ [m \in Names |-> RestartOf(m)]' = [[m \in Names |-> RestartOf(m)] EXCEPT ![bg.name] = NoFile]
<1>1. \A m \in Names : RestartOf(m)' = NoFile /\ RestartOf(m) = IF m = bg.name THEN bg.file ELSE NoFile
  BY DEF RestartOf
<1>2. bg.file # NoFile
  BY ESAssumption
<1> QED BY <1>1, <1>2

\* The CFE_ES_AppCreate that ends a restart reserves its record: Restart.
LEMMA RestartBegins ==
  ASSUME NamesApart, NamesApart', NEW z \in AppSlots,
         bg.pc = "create", bg.name \in Names, bg.file \in Files, bg'.pc # "create",
         OnlyChanges(z), ~IsUsed(appTable[z]), AppsNamed(bg.name) = {},
         IsUsed(appTable'[z]), appTable'[z].name = bg.name, appTable'[z].file = bg.file,
         appTable'[z].state = "INIT", appTable'[z].req = "APP_RUN"
  PROVE  Lifecycle!Restart(bg.name)
<1>0. PICK n : n = bg.name
  OBVIOUS
<1>1. \A m \in Names : m # n => SameName(m)
  BY <1>0, OneName
<1>2. StatusOf(n)' = "starting" /\ FileOf(n)' = bg.file /\ RequestOf(n)' = "APP_RUN"
  BY <1>0, ShownNext, Phases
<1>3. PICK f : f = bg.file
  OBVIOUS
<1>4. Lifecycle!Becomes(n, "starting", f, "APP_RUN")
  BY <1>0, <1>1, <1>2, <1>3, AbstractBecomes
<1>5. StatusOf(n) = "absent"
  BY <1>0, NotShown DEF AppsNamed
<1>6. [m \in Names |-> StatusOf(m)][n] = "absent"
  BY <1>0, <1>5
<1>7. /\ [m \in Names |-> RestartOf(m)][n] = f /\ f # NoFile
      /\ [m \in Names |-> RestartOf(m)]' = [[m \in Names |-> RestartOf(m)] EXCEPT ![n] = NoFile]
  BY <1>0, <1>3, AbstractRestart
<1>8. Lifecycle!Restart(n)
  BY <1>4, <1>6, <1>7, Zenon DEF Lifecycle!Restart
<1> QED BY <1>0, <1>8

\* ... or given up.
LEMMA RestartEnds ==
  ASSUME bg.pc = "create", bg.name \in Names, bg.file \in Files, bg'.pc # "create",
         \A m \in Names : SameName(m)
  PROVE  Lifecycle!Restart(bg.name)
BY AbstractRestart, AbstractSame DEF Lifecycle!Restart

-----------------------------------------------------------------------------
(* A step of ExecutiveServices is one of AppLifecycle or is not seen there,  *)
(* and keeps LifeInv.                                                        *)
LifeStep == [Lifecycle!Next]_(Lifecycle!vars)

\* Each action of AppLifecycle is a step of it.
LEMMA Steps ==
  /\ \A n \in Names, f \in Files : (Lifecycle!Start(n, f) \/ Lifecycle!Reload(n, f)) => LifeStep
  /\ \A n \in Names : (Lifecycle!StartFails(n) \/ Lifecycle!Run(n)) => LifeStep
  /\ \A n \in Names : (Lifecycle!Remove(n) \/ Lifecycle!Restart(n)) => LifeStep
  /\ \A n \in Names, r \in {"SYS_DELETE", "SYS_RESTART"} : Lifecycle!Ask(n, r) => LifeStep
  /\ \A n \in Names, r \in {"APP_EXIT", "APP_ERROR"} : Lifecycle!Exit(n, r) => LifeStep
  /\ (\E S \in SUBSET Names : Lifecycle!Notice(S)) => LifeStep
<1> USE DEF LifeStep, Lifecycle!Next
<1>1. \A n \in Names, f \in Files : (Lifecycle!Start(n, f) \/ Lifecycle!Reload(n, f)) => LifeStep
  BY Zenon
<1>2. \A n \in Names : (Lifecycle!StartFails(n) \/ Lifecycle!Run(n)) => LifeStep
  BY Zenon
<1>3. \A n \in Names : (Lifecycle!Remove(n) \/ Lifecycle!Restart(n)) => LifeStep
  BY Zenon
<1>4. \A n \in Names, r \in {"SYS_DELETE", "SYS_RESTART"} : Lifecycle!Ask(n, r) => LifeStep
  BY Zenon
<1>5. \A n \in Names, r \in {"APP_EXIT", "APP_ERROR"} : Lifecycle!Exit(n, r) => LifeStep
  BY Zenon
<1>6. (\E S \in SUBSET Names : Lifecycle!Notice(S)) => LifeStep
  BY Zenon
<1> QED BY <1>1, <1>2, <1>3, <1>4, <1>5, <1>6

\* A step in which every record looks the same is not seen.
LEMMA Unseen ==
  ASSUME NamesApart, NamesApart', SameRedo, \A s \in AppSlots : SameView(s)
  PROVE  LifeStep
<1>1. \A n \in Names : SameName(n)
  BY Frame
<1>2. UNCHANGED Lifecycle!vars
  BY <1>1, AbstractSame, AbstractRedo DEF Lifecycle!vars
<1> QED BY <1>2 DEF LifeStep

\* A step that leaves the application table alone is not seen.
LEMMA UnseenTable ==
  ASSUME NamesApart, NamesApart', SameRedo, appTable' = appTable
  PROVE  LifeStep
BY Unseen DEF SameView

RecordsOk == UsedTyped /\ RunningReal /\ StoppingAsked

(* A stopping application stays as it is until it is removed. *)
Halted(s) ==
    /\ appTable'[s].id = appTable[s].id /\ appTable'[s].state \in {"WAITING", "STOPPED"}
    /\ appTable'[s].name = appTable[s].name /\ appTable'[s].file = appTable[s].file
    /\ appTable'[s].req = appTable[s].req

Steady == \A s \in AppSlots : Stopping(appTable[s]) => Halted(s)

\* An application that is stopping still is, if the step lets the stopping be.
LEMMA DoomedStays ==
  ASSUME Steady, NEW a \in Int, Doomed(a)
  PROVE  Doomed(a)'
<1>1. LocateAppRecordByID(a) \in AppSlots
  BY Slots
<1> QED BY <1>1 DEF Steady, Halted, Doomed, Stopping, IsUsed, AppRecordIsMatch, LocateAppRecordByID

\* LifeInv survives a step that lets the stopping and the background task be.
LEMMA LifeKept ==
  ASSUME TablesTyped, WorkTyped, Ids, ListIds, LifeInv, RecordsOk', Steady, bg' = bg,
         ReloadNamesFile'
  PROVE  LifeInv'
<1>0. \A i \in DOMAIN bg.list : bg.list[i] \in Int
  BY DEF ListIds, TablesTyped
<1>1. ListedDoomed'
  BY <1>0, DoomedStays DEF LifeInv, ListedDoomed, Working
<1>2. ASSUME Working
      PROVE  LocateAppRecordByID(bg.id) \in AppSlots /\ Stopping(appTable[LocateAppRecordByID(bg.id)])
  BY <1>2, Slots DEF Working, Ids, BgIds, LifeInv, SnapshotTrue, TablesTyped
<1>3. SnapshotTrue'
  <2>1. Working' => Working
    BY DEF Working
  <2>2. Working' =>
          LET rec == appTable'[LocateAppRecordByID(bg.id)]
          IN  Stopping(rec) /\ bg.req = rec.req /\ bg.name = rec.name /\ bg.file = rec.file
    BY <1>2, <2>1 DEF LifeInv, SnapshotTrue, Steady, Halted, Stopping, IsUsed
  <2>3. bg.pc = "collect" => appTable'[LocateAppRecordByID(bg.id)].id = bg.id
    BY <1>2 DEF Working, LifeInv, SnapshotTrue, Steady, Halted, AppRecordIsMatch
  <2>4. bg.pc = "create" => bg.name \in Names /\ bg.file \in Files
    BY DEF LifeInv, SnapshotTrue
  <2> QED BY <2>2, <2>3, <2>4 DEF SnapshotTrue, AppRecordIsMatch, LocateAppRecordByID
<1> QED BY <1>1, <1>3 DEF LifeInv, RecordsOk

RecordGood(rec) ==
    /\ IsUsed(rec) => rec.name \in Names /\ rec.file \in Files
    /\ rec.state = "RUNNING" => rec.id > Free
    /\ Stopping(rec) => rec.req # "APP_RUN"

\* A step on one record, sound after it, and halted if it was stopping.
LEMMA OneRecord ==
  ASSUME RecordsOk, NEW z \in AppSlots, OnlyChanges(z), RecordGood(appTable'[z]),
         Stopping(appTable[z]) => Halted(z)
  PROVE  RecordsOk' /\ Steady
<1>1. RecordsOk'
  <2>1. ASSUME NEW s \in AppSlots PROVE RecordGood(appTable'[s])
    BY DEF OnlyChanges, RecordsOk, UsedTyped, RunningReal, StoppingAsked, RecordGood
  <2>2. UsedTyped'
    BY <2>1 DEF UsedTyped, RecordGood
  <2>3. RunningReal'
    BY <2>1 DEF RunningReal, RecordGood
  <2>4. StoppingAsked'
    BY <2>1 DEF StoppingAsked, RecordGood
  <2> QED BY <2>2, <2>3, <2>4 DEF RecordsOk
<1>2. Steady
  BY DEF Steady, Halted, OnlyChanges, Stopping
<1> QED BY <1>1, <1>2

\* A step that leaves the table alone keeps what is known of the records.
LEMMA SameRecords == ASSUME RecordsOk, appTable' = appTable PROVE RecordsOk' /\ Steady
BY DEF RecordsOk, UsedTyped, RunningReal, StoppingAsked, Steady, Halted, Stopping

\* CFE_ES_AppCreate takes a free slot.
LEMMA ReserveEffect ==
  ASSUME TablesTyped, RecordsOk, NEW p, NEW n \in Names, NEW f \in Files, CanReserve(n), Reserve(p, n, f)
  PROVE  /\ \E z \in AppSlots :
              /\ OnlyChanges(z) /\ ~IsUsed(appTable[z]) /\ AppsNamed(n) = {}
              /\ IsUsed(appTable'[z]) /\ appTable'[z].name = n /\ appTable'[z].file = f
              /\ appTable'[z].state = "INIT" /\ appTable'[z].req = "APP_RUN"
         /\ RecordsOk' /\ Steady
<1>1. NewAppId \in Nat /\ appTable[LocateAppRecordByID(NewAppId)].id = Free /\ AppsNamed(n) = {}
  BY NewAppIsNew DEF CanReserve
<1>2. PICK z \in AppSlots : z = LocateAppRecordByID(NewAppId)
  BY <1>1, Slots
<1>3. appTable' = [appTable EXCEPT ![z] = [FreeApp EXCEPT !.id = Reserved, !.name = n, !.file = f]]
  BY <1>2 DEF Reserve
<1>4. OnlyChanges(z)
  BY <1>3 DEF TablesTyped, OnlyChanges
<1>5. /\ appTable'[z].id = Reserved /\ appTable'[z].name = n /\ appTable'[z].file = f
      /\ appTable'[z].state = "INIT" /\ appTable'[z].req = "APP_RUN"
  BY <1>3 DEF TablesTyped, FreeApp
<1>6. ~IsUsed(appTable[z]) /\ ~Stopping(appTable[z])
  BY <1>1, <1>2 DEF IsUsed, Stopping
<1>7. IsUsed(appTable'[z]) /\ RecordGood(appTable'[z])
  BY <1>5 DEF IsUsed, RecordGood, Stopping, Reserved, Free
<1>8. RecordsOk' /\ Steady
  BY <1>4, <1>6, <1>7, OneRecord
<1> QED BY <1>1, <1>4, <1>5, <1>6, <1>7, <1>8

\* The record of an application that is being created.
LEMMA CreateSlot ==
  ASSUME TablesTyped, Ids, Core, NEW p \in Creators, create[p].pc # "idle"
  PROVE  \E z \in AppSlots : /\ z = LocateAppRecordByID(create[p].id) /\ appTable[z].id = Reserved
                             /\ appTable[z].state = "INIT" /\ create[p].id > Free
<1>0. FieldTypes
  BY Fields
<1> QED BY <1>0, Slots DEF FieldTypes, Core, CreatesHoldSlot, Ids, CreateIds, Free

\* Creating the main task does not touch what is shown.
LEMMA StartAppEffect ==
  ASSUME TablesTyped, Ids, Core, RecordsOk, NEW p \in Creators, StartAppTask(p)
  PROVE  /\ \A s \in AppSlots : SameView(s)
         /\ RecordsOk' /\ Steady
<1>1. PICK z \in AppSlots : /\ z = LocateAppRecordByID(create[p].id) /\ appTable[z].id = Reserved
                            /\ appTable[z].state = "INIT"
  BY CreateSlot DEF StartAppTask
<1>2. appTable' = [appTable EXCEPT ![z].main = create[p].task]
  BY <1>1 DEF StartAppTask
<1>3. OnlyChanges(z)
  BY <1>2 DEF TablesTyped, OnlyChanges
<1>4. /\ appTable'[z].id = appTable[z].id /\ appTable'[z].name = appTable[z].name
      /\ appTable'[z].file = appTable[z].file /\ appTable'[z].state = appTable[z].state
      /\ appTable'[z].req = appTable[z].req
  BY <1>2 DEF TablesTyped, AppRec
<1>5. RecordGood(appTable'[z])
  BY <1>1, <1>4 DEF RecordsOk, UsedTyped, RunningReal, StoppingAsked, RecordGood, IsUsed, Stopping
<1>6. ~Stopping(appTable[z])
  BY <1>1 DEF Stopping
<1>7. \A s \in AppSlots : SameView(s)
  BY <1>3, <1>4 DEF SameView, OnlyChanges, IsUsed
<1> QED BY <1>3, <1>5, <1>6, <1>7, OneRecord

\* A CFE_ES_AppCreate that succeeds gives the record its id, which is not shown.
LEMMA CreatedEffect ==
  ASSUME TablesTyped, Ids, Core, RecordsOk, NEW p \in Creators, FinishCreate(p), create[p].task # Free
  PROVE  /\ \A s \in AppSlots : SameView(s)
         /\ RecordsOk' /\ Steady
<1>1. PICK z \in AppSlots : /\ z = LocateAppRecordByID(create[p].id) /\ appTable[z].id = Reserved
                            /\ appTable[z].state = "INIT" /\ create[p].id > Free
  BY CreateSlot DEF FinishCreate
<1>2. appTable' = [appTable EXCEPT ![z].id = create[p].id]
  BY <1>1 DEF FinishCreate
<1>3. OnlyChanges(z)
  BY <1>2 DEF TablesTyped, OnlyChanges
<1>4. /\ appTable'[z].id = create[p].id /\ appTable'[z].name = appTable[z].name
      /\ appTable'[z].file = appTable[z].file /\ appTable'[z].state = appTable[z].state
      /\ appTable'[z].req = appTable[z].req
  BY <1>2 DEF TablesTyped, AppRec
<1>5. IsUsed(appTable[z]) /\ IsUsed(appTable'[z])
  BY <1>1, <1>4 DEF IsUsed, Free, Reserved
<1>6. RecordGood(appTable'[z]) /\ ~Stopping(appTable[z])
  BY <1>1, <1>4, <1>5 DEF RecordsOk, UsedTyped, RecordGood, Stopping
<1>7. \A s \in AppSlots : SameView(s)
  BY <1>3, <1>4, <1>5 DEF SameView, OnlyChanges, IsUsed
<1> QED BY <1>3, <1>6, <1>7, OneRecord

\* A CFE_ES_AppCreate that fails frees a record that is still INIT.
LEMMA NotCreatedEffect ==
  ASSUME TablesTyped, Ids, Core, RecordsOk, NEW p \in Creators, FinishCreate(p), create[p].task = Free
  PROVE  /\ \E z \in AppSlots :
              /\ OnlyChanges(z) /\ IsUsed(appTable[z]) /\ appTable[z].name \in Names
              /\ appTable[z].state = "INIT" /\ ~IsUsed(appTable'[z])
         /\ RecordsOk' /\ Steady
<1>1. PICK z \in AppSlots : /\ z = LocateAppRecordByID(create[p].id) /\ appTable[z].id = Reserved
                            /\ appTable[z].state = "INIT"
  BY CreateSlot DEF FinishCreate
<1>2. appTable' = [appTable EXCEPT ![z] = AppRecordSetFree(@)]
  BY <1>1 DEF FinishCreate
<1>3. OnlyChanges(z)
  BY <1>2 DEF TablesTyped, OnlyChanges
<1>4. appTable'[z].id = Free /\ appTable'[z].state = appTable[z].state
  BY <1>2 DEF TablesTyped, AppRecordSetFree, FreeApp
<1>5. IsUsed(appTable[z]) /\ ~IsUsed(appTable'[z])
  BY <1>1, <1>4 DEF IsUsed, Free, Reserved
<1>6. RecordGood(appTable'[z]) /\ ~Stopping(appTable[z])
  BY <1>1, <1>4, <1>5 DEF RecordGood, Stopping
<1>7. appTable[z].name \in Names
  BY <1>5 DEF RecordsOk, UsedTyped
<1>8. RecordsOk' /\ Steady
  BY <1>3, <1>6, OneRecord
<1> QED BY <1>1, <1>3, <1>5, <1>7, <1>8

\* The end of CFE_ES_AppCreate is StartFails or is not seen.
LEMMA FinishLife ==
  ASSUME TablesTyped, Ids, Core, NamesApart', RecordsOk, NEW p \in Creators, FinishCreate(p), SameRedo
  PROVE  LifeStep /\ RecordsOk' /\ Steady
<1>0. NamesApart
  BY DEF Core
<1>1. CASE create[p].task # Free
  BY <1>0, <1>1, CreatedEffect, Unseen
<1>2. CASE create[p].task = Free
  <2>1. PICK z \in AppSlots :
              /\ OnlyChanges(z) /\ IsUsed(appTable[z]) /\ appTable[z].name \in Names
              /\ appTable[z].state = "INIT" /\ ~IsUsed(appTable'[z])
    BY <1>2, NotCreatedEffect
  <2>2. PICK n \in Names : n = appTable[z].name
    BY <2>1
  <2>3. Lifecycle!StartFails(n)
    BY <1>0, <2>1, <2>2, FailStep
  <2>4. LifeStep
    BY <2>3, Steps
  <2> QED BY <1>2, <2>4, NotCreatedEffect
<1> QED BY <1>1, <1>2

\* A request is left in a record that is RUNNING.
LEMMA RequestLife ==
  ASSUME TablesTyped, WorkTyped, Core, NamesApart', LifeInv, RequestApp, SameRedo
  PROVE  LifeStep /\ RecordsOk' /\ Steady
<1>0. NamesApart /\ RecordsOk
  BY DEF Core, LifeInv, RecordsOk
<1>1. CASE appTable' = appTable
  BY <1>0, <1>1, UnseenTable, SameRecords
<1>2. CASE appTable' # appTable
  <2>1. /\ cmd.id # Reserved /\ appTable[LocateAppRecordByID(cmd.id)].state = "RUNNING"
        /\ appTable' = [appTable EXCEPT ![LocateAppRecordByID(cmd.id)] = LeaveRequest(@)]
    BY <1>2 DEF RequestApp, RequestRefused
  <2>2. PICK z \in AppSlots : z = LocateAppRecordByID(cmd.id)
    BY Slots DEF WorkTyped, CmdRec
  <2>3. PICK k : k = cmd.kind
    OBVIOUS
  <2>4. k \in {"SYS_DELETE", "SYS_RESTART", "SYS_RELOAD"}
    BY <2>3 DEF RequestApp, WorkTyped
  <2>5. PICK f : f = IF k = "SYS_RELOAD" THEN cmd.file ELSE appTable[z].file
    OBVIOUS
  <2>6. appTable[z].state = "RUNNING" /\ appTable[z].id > Free
    BY <2>1, <2>2 DEF LifeInv, RunningReal
  <2>7. appTable' = [appTable EXCEPT ![z] = LeaveRequest(@)]
    BY <2>1, <2>2
  <2>8. OnlyChanges(z)
    BY <2>7 DEF TablesTyped, OnlyChanges
  <2>9. appTable'[z] = LeaveRequest(appTable[z])
    BY <2>7 DEF TablesTyped
  <2>10. appTable[z] \in AppRec
    BY DEF TablesTyped
  <2>11. /\ appTable'[z].id = appTable[z].id /\ appTable'[z].name = appTable[z].name
         /\ appTable'[z].file = f /\ appTable'[z].state = "RUNNING" /\ appTable'[z].req = k
    BY <2>3, <2>5, <2>6, <2>9, <2>10 DEF LeaveRequest, AppRec
  <2>12. IsUsed(appTable[z]) /\ IsUsed(appTable'[z]) /\ appTable[z].name \in Names /\ f \in Files
    <3>1. IsUsed(appTable[z]) /\ IsUsed(appTable'[z])
      BY <2>6, <2>11 DEF IsUsed, Free
    <3>2. appTable[z].name \in Names /\ appTable[z].file \in Files
      BY <3>1 DEF LifeInv, UsedTyped
    <3>3. k = "SYS_RELOAD" => cmd.file \in Files
      BY <2>3 DEF LifeInv, ReloadNamesFile, RequestApp
    <3> QED BY <2>5, <3>1, <3>2, <3>3
  <2>13. RecordGood(appTable'[z]) /\ ~Stopping(appTable[z])
    BY <2>6, <2>11, <2>12 DEF RecordGood, Stopping
  <2>14. RecordsOk' /\ Steady
    BY <1>0, <2>8, <2>13, OneRecord
  <2>15. PICK n \in Names : n = appTable[z].name
    BY <2>12
  <2>16. KeepsName(z, n)
    BY <2>8, <2>11, <2>12, <2>15 DEF KeepsName
  <2>17. CASE k = "SYS_RELOAD"
    <3>1. Lifecycle!Reload(n, f)
      BY <1>0, <2>6, <2>11, <2>16, <2>17, IsReloaded
    <3> QED BY <2>12, <2>14, <3>1, Steps
  <2>18. CASE k \in {"SYS_DELETE", "SYS_RESTART"}
    <3>0. f = appTable[z].file
      BY <2>5, <2>18
    <3>1. Lifecycle!Ask(n, k)
      BY <1>0, <2>6, <2>11, <2>16, <3>0, IsAsked
    <3> QED BY <2>14, <2>18, <3>1, Steps
  <2> QED BY <2>4, <2>17, <2>18
<1> QED BY <1>1, <1>2

\* CFE_ES_RunLoop and CFE_ES_ExitApp on the caller's own record.
LEMMA ContextRecord ==
  ASSUME TablesTyped, Ids, Core, RecordsOk, NEW t \in LiveTasks, HasContext(t)
  PROVE  \E z \in AppSlots : /\ z = Context(t) /\ appTable[z].id > Free /\ IsUsed(appTable[z])
                             /\ appTable[z].name \in Names /\ appTable[z].file \in Files
                             /\ appTable[z] \in AppRec
<1>1. Context(t) \in AppSlots /\ appTable[Context(t)].id \in 1 .. lastAppId /\ lastAppId \in Nat
  BY ContextFacts DEF TablesTyped
<1>2. PICK z \in AppSlots : z = Context(t)
  BY <1>1
<1>3. appTable[z].id > Free /\ IsUsed(appTable[z])
  BY <1>1, <1>2 DEF IsUsed, Free
<1>4. appTable[z].name \in Names /\ appTable[z].file \in Files
  BY <1>3 DEF RecordsOk, UsedTyped
<1>5. appTable[z] \in AppRec
  BY DEF TablesTyped
<1> QED BY <1>2, <1>3, <1>4, <1>5

\* CFE_ES_RunLoop is Run or is not seen.
LEMMA RunLoopLife ==
  ASSUME TablesTyped, Ids, Core, NamesApart', RecordsOk, NEW t \in LiveTasks, RunLoop(t), SameRedo
  PROVE  LifeStep /\ RecordsOk' /\ Steady
<1>0. NamesApart
  BY DEF Core
<1>1. CASE ~HasContext(t)
  <2>1. appTable' = appTable
    BY <1>1 DEF RunLoop
  <2> QED BY <1>0, <2>1, UnseenTable, SameRecords
<1>2. CASE HasContext(t)
  <2>1. PICK z \in AppSlots : /\ z = Context(t) /\ appTable[z].id > Free /\ IsUsed(appTable[z])
                              /\ appTable[z].name \in Names /\ appTable[z].file \in Files
                              /\ appTable[z] \in AppRec
    BY <1>2, ContextRecord
  <2>2. appTable' = [appTable EXCEPT ![z].state = IF @ = "INIT" THEN "RUNNING" ELSE @]
    BY <1>2, <2>1 DEF RunLoop
  <2>3. OnlyChanges(z)
    BY <2>2 DEF TablesTyped, OnlyChanges
  <2>4. /\ appTable'[z].id = appTable[z].id /\ appTable'[z].name = appTable[z].name
        /\ appTable'[z].file = appTable[z].file /\ appTable'[z].req = appTable[z].req
        /\ appTable'[z].state = IF appTable[z].state = "INIT" THEN "RUNNING" ELSE appTable[z].state
    BY <2>1, <2>2 DEF TablesTyped, AppRec
  <2>5. RecordGood(appTable'[z])
    BY <2>1, <2>4 DEF RecordGood, RecordsOk, StoppingAsked, Stopping, IsUsed
  <2>6. Stopping(appTable[z]) => Halted(z)
    BY <2>4 DEF Stopping, Halted
  <2>7. RecordsOk' /\ Steady
    BY <2>3, <2>5, <2>6, OneRecord
  <2>8. CASE appTable[z].state = "INIT"
    <3>1. PICK n \in Names : n = appTable[z].name
      BY <2>1
    <3>2. KeepsName(z, n)
      BY <2>1, <2>3, <2>4, <3>1 DEF KeepsName, IsUsed
    <3>3. Lifecycle!Run(n)
      BY <1>0, <2>4, <2>8, <3>2, StartsRunning
    <3> QED BY <2>7, <3>3, Steps
  <2>9. CASE appTable[z].state # "INIT"
    <3>1. \A s \in AppSlots : SameView(s)
      BY <2>3, <2>4, <2>9 DEF SameView, OnlyChanges, IsUsed
    <3> QED BY <1>0, <2>7, <3>1, Unseen
  <2> QED BY <2>8, <2>9
<1> QED BY <1>1, <1>2

\* CFE_ES_ExitApp is Exit.
LEMMA ExitLife ==
  ASSUME TablesTyped, Ids, Core, NamesApart', RecordsOk, NEW t \in LiveTasks,
         NEW r \in {"APP_EXIT", "APP_ERROR"}, ExitApp(t, r), SameRedo
  PROVE  LifeStep /\ RecordsOk' /\ Steady
<1>0. NamesApart
  BY DEF Core
<1>1. CASE ~HasContext(t)
  <2>1. appTable' = appTable
    BY <1>1 DEF ExitApp
  <2> QED BY <1>0, <2>1, UnseenTable, SameRecords
<1>2. CASE HasContext(t)
  <2>1. PICK z \in AppSlots : /\ z = Context(t) /\ appTable[z].id > Free /\ IsUsed(appTable[z])
                              /\ appTable[z].name \in Names /\ appTable[z].file \in Files
                              /\ appTable[z] \in AppRec
    BY <1>2, ContextRecord
  <2>2. appTable' = [appTable EXCEPT ![z].req = ExitRequest(appTable[z], r), ![z].state = "STOPPED"]
    BY <1>2, <2>1 DEF ExitApp
  <2>3. OnlyChanges(z)
    BY <2>2 DEF TablesTyped, OnlyChanges
  <2>4. /\ appTable'[z].id = appTable[z].id /\ appTable'[z].name = appTable[z].name
        /\ appTable'[z].file = appTable[z].file /\ appTable'[z].state = "STOPPED"
        /\ appTable'[z].req = ExitRequest(appTable[z], r)
    BY <2>1, <2>2 DEF TablesTyped, AppRec
  <2>5. ExitRequest(appTable[z], r) # "APP_RUN"
    BY DEF ExitRequest
  <2>6. RecordGood(appTable'[z])
    BY <2>1, <2>4, <2>5 DEF RecordGood
  <2>7. Stopping(appTable[z]) => appTable'[z].req = appTable[z].req /\ Phase(appTable[z].state) = "stopping"
    BY <2>4, Phases DEF RecordsOk, StoppingAsked, ExitRequest, Stopping
  <2>8. Stopping(appTable[z]) => Halted(z)
    BY <2>4, <2>7 DEF Halted
  <2>9. RecordsOk' /\ Steady
    BY <2>3, <2>6, <2>8, OneRecord
  <2>10. CASE Stopping(appTable[z])
    <3>1. \A s \in AppSlots : SameView(s)
      BY <2>3, <2>4, <2>7, <2>10, Phases DEF SameView, OnlyChanges, IsUsed
    <3> QED BY <1>0, <2>9, <3>1, Unseen
  <2>11. CASE ~Stopping(appTable[z])
    <3>0. appTable[z].state \in {"INIT", "RUNNING"}
      BY <2>1, <2>11 DEF Stopping, AppRec, AppStates
    <3>1. PICK n \in Names : n = appTable[z].name
      BY <2>1
    <3>2. KeepsName(z, n)
      BY <2>1, <2>3, <2>4, <3>1 DEF KeepsName, IsUsed
    <3>3. Lifecycle!Exit(n, r)
      BY <1>0, <2>4, <3>0, <3>2, LeavesStep
    <3> QED BY <2>9, <3>3, Steps
  <2> QED BY <2>10, <2>11
<1> QED BY <1>1, <1>2

\* Only the background task restarts.
LEMMA BgRedo == ASSUME bg' = bg PROVE SameRedo
BY DEF SameRedo, RestartOf

\* A step that touches neither the table nor the background task.
LEMMA QuietLife ==
  ASSUME TablesTyped, WorkTyped, Ids, Core, ListIds, NamesApart', LifeInv,
         appTable' = appTable, bg' = bg, ReloadNamesFile'
  PROVE  LifeStep /\ LifeInv'
<1>1. NamesApart /\ RecordsOk /\ SameRedo
  BY BgRedo DEF Core, LifeInv, RecordsOk
<1>2. RecordsOk' /\ Steady
  BY <1>1, SameRecords
<1> QED BY <1>1, <1>2, UnseenTable, LifeKept

\* Any step of an application's task.
LEMMA AppTaskLife ==
  ASSUME TablesTyped, WorkTyped, Ids, Core, ListIds, NamesApart', LifeInv,
         NEW t \in LiveTasks, AppTask(t)
  PROVE  LifeStep /\ LifeInv'
<1>1. bg' = bg /\ cmd' = cmd
  <2>1. CASE TaskEntryPoint(t) \/ RunLoop(t) \/ GiveUp(t) \/ \E r \in {"APP_EXIT", "APP_ERROR"} : ExitApp(t, r)
    BY <2>1 DEF TaskEntryPoint, RunLoop, GiveUp, ExitApp, NoEsChange
  <2>2. CASE CreateChildTask(t) \/ StartChildTask(t) \/ DeleteChildTask(t)
    BY <2>2 DEF CreateChildTask, StartChildTask, DeleteChildTask, DropTaskRecord, NoEsChange
  <2>3. CASE ExitChildTask(t) \/ OS_TaskExit(t) \/ EnterService(t) \/ Allocate(t)
    BY <2>3 DEF ExitChildTask, OS_TaskExit, EnterService, Allocate, DropTaskRecord, NoEsChange
  <2> QED BY <2>1, <2>2, <2>3 DEF AppTask
<1>2. SameRedo /\ ReloadNamesFile' /\ RecordsOk
  BY <1>1, BgRedo DEF LifeInv, ReloadNamesFile, RecordsOk
<1>3. CASE RunLoop(t)
  BY <1>1, <1>2, <1>3, RunLoopLife, LifeKept
<1>4. CASE \E r \in {"APP_EXIT", "APP_ERROR"} : ExitApp(t, r)
  BY <1>1, <1>2, <1>4, ExitLife, LifeKept
<1>5. CASE appTable' = appTable
  BY <1>1, <1>2, <1>5, QuietLife
<1>6. appTable' = appTable \/ RunLoop(t) \/ \E r \in {"APP_EXIT", "APP_ERROR"} : ExitApp(t, r)
  <2>1. CASE TaskEntryPoint(t) \/ GiveUp(t)
    BY <2>1 DEF TaskEntryPoint, GiveUp, NoEsChange, tables
  <2>2. CASE CreateChildTask(t) \/ StartChildTask(t) \/ DeleteChildTask(t)
    BY <2>2 DEF CreateChildTask, StartChildTask, DeleteChildTask, DropTaskRecord, NoEsChange, tables
  <2>3. CASE ExitChildTask(t) \/ OS_TaskExit(t) \/ EnterService(t) \/ Allocate(t)
    BY <2>3 DEF ExitChildTask, OS_TaskExit, EnterService, Allocate, DropTaskRecord, NoEsChange, tables
  <2> QED BY <2>1, <2>2, <2>3 DEF AppTask
<1> QED BY <1>3, <1>4, <1>5, <1>6

\* Any step of CFE_ES_AppCreate.
LEMMA CreateLife ==
  ASSUME TablesTyped, Ids, Core, NamesApart', RecordsOk, NEW p \in Creators, AppCreate(p), SameRedo
  PROVE  LifeStep /\ RecordsOk' /\ Steady
<1>0. NamesApart
  BY DEF Core
<1>1. CASE LoadModule(p)
  <2>1. appTable' = appTable
    BY <1>1 DEF LoadModule, tables
  <2> QED BY <1>0, <2>1, UnseenTable, SameRecords
<1>2. CASE StartAppTask(p)
  BY <1>0, <1>2, StartAppEffect, Unseen
<1>3. CASE FinishCreate(p)
  BY <1>3, FinishLife
<1> QED BY <1>1, <1>2, <1>3 DEF AppCreate

\* Any step of the ground's commands.
LEMMA CommandLife ==
  ASSUME TablesTyped, WorkTyped, Ids, Core, ListIds, NamesApart', LifeInv, CommandTask
  PROVE  LifeStep /\ LifeInv'
<1>0. NamesApart /\ RecordsOk
  BY DEF Core, LifeInv, RecordsOk
<1>1. ASSUME NEW n \in Names, NEW f \in Files, StartAppCmd(n, f) PROVE LifeStep /\ LifeInv'
  <2>1. bg' = bg /\ cmd' = cmd
    BY <1>1 DEF StartAppCmd
  <2>2. SameRedo /\ ReloadNamesFile'
    BY <2>1, BgRedo DEF LifeInv, ReloadNamesFile
  <2>3. CASE CanReserve(n)
    <3>1. Reserve("cmd", n, f)
      BY <1>1, <2>3 DEF StartAppCmd
    <3>2. RecordsOk' /\ Steady
      BY <1>0, <2>3, <3>1, ReserveEffect
    <3>3. PICK z \in AppSlots :
              /\ OnlyChanges(z) /\ ~IsUsed(appTable[z]) /\ AppsNamed(n) = {}
              /\ IsUsed(appTable'[z]) /\ appTable'[z].name = n /\ appTable'[z].file = f
              /\ appTable'[z].state = "INIT" /\ appTable'[z].req = "APP_RUN"
      BY <1>0, <2>3, <3>1, ReserveEffect
    <3>4. Lifecycle!Start(n, f)
      BY <1>0, <2>2, <3>3, StartStep
    <3>5. LifeStep
      BY <3>4, Steps
    <3> QED BY <2>1, <2>2, <3>2, <3>5, LifeKept
  <2>4. CASE ~CanReserve(n)
    <3>1. appTable' = appTable
      BY <1>1, <2>4 DEF StartAppCmd, tables
    <3> QED BY <2>1, <2>2, <3>1, QuietLife
  <2> QED BY <2>3, <2>4
<1>2. ASSUME NEW n \in Names, NEW k, NEW f, GetAppIDByName(n, k, f), k = "SYS_RELOAD" => f \in Files
      PROVE  LifeStep /\ LifeInv'
  <2>1. bg' = bg /\ appTable' = appTable
    BY <1>2 DEF GetAppIDByName, tables
  <2>2. cmd'.kind = k /\ cmd'.file = f
    BY <1>2 DEF GetAppIDByName
  <2>3. ReloadNamesFile'
    BY <1>2, <2>2 DEF ReloadNamesFile
  <2> QED BY <2>1, <2>3, QuietLife
<1>3. CASE RequestApp
  <2>1. bg' = bg /\ cmd' = NoCmd
    BY <1>3 DEF RequestApp
  <2>2. SameRedo /\ ReloadNamesFile'
    BY <2>1, BgRedo DEF ReloadNamesFile, NoCmd
  <2> QED BY <1>3, <2>1, <2>2, RequestLife, LifeKept
<1>4. CASE AppCreate("cmd")
  <2>1. bg' = bg /\ cmd' = cmd
    BY <1>4 DEF AppCreate, LoadModule, StartAppTask, FinishCreate
  <2>2. SameRedo /\ ReloadNamesFile' /\ "cmd" \in Creators
    BY <2>1, BgRedo DEF LifeInv, ReloadNamesFile, Creators
  <2> QED BY <1>0, <1>4, <2>1, <2>2, CreateLife, LifeKept
<1> QED BY <1>1, <1>2, <1>3, <1>4 DEF CommandTask

-----------------------------------------------------------------------------
(* The background task.  Except for the application it is working on, a      *)
(* stopping application stays as it is.                                      *)
OthersSteady ==
    \A s \in AppSlots :
        (Stopping(appTable[s]) /\ ~(Working /\ s = LocateAppRecordByID(bg.id))) => Halted(s)

\* The list of the background task stays doomed while others are steady.
LEMMA ListStays ==
  ASSUME TablesTyped, Ids, Core, ListIds, LifeInv, OthersSteady, bg'.list = bg.list,
         Working' => Working /\ bg'.id = bg.id
  PROVE  ListedDoomed'
<1>1. ASSUME NEW i \in DOMAIN bg.list PROVE Doomed(bg.list[i])'
  <2>1. PICK a \in Int : a = bg.list[i] /\ a > Free
    BY <1>1 DEF ListIds, TablesTyped, Free
  <2>2. PICK s \in AppSlots : s = LocateAppRecordByID(a)
    BY <2>1, Slots
  <2>3. appTable[s].id = a /\ Stopping(appTable[s])
    BY <1>1, <2>1, <2>2 DEF LifeInv, ListedDoomed, Doomed, AppRecordIsMatch
  <2>4. ASSUME Working, s = LocateAppRecordByID(bg.id) PROVE FALSE
    <3>1. CASE bg.pc = "collect"
      <4>1. appTable[s].id = bg.id
        BY <2>4, <3>1 DEF LifeInv, SnapshotTrue, AppRecordIsMatch
      <4> QED BY <1>1, <2>1, <2>3, <2>4, <4>1 DEF LifeInv, ListedDoomed
    <3>2. CASE Cleaning
      <4>1. appTable[s].id = Reserved
        BY <2>4, <3>2 DEF Core, CleanupHoldsSlot
      <4> QED BY <2>1, <2>3, <4>1 DEF Reserved, Free
    <3> QED BY <2>4, <3>1, <3>2 DEF Working, Cleaning
  <2>5. Halted(s)
    BY <2>3, <2>4 DEF OthersSteady
  <2>6. Doomed(a)'
    BY <2>2, <2>3, <2>5 DEF Halted, Doomed, Stopping, IsUsed, AppRecordIsMatch, LocateAppRecordByID
  <2> QED BY <2>1, <2>6
<1>2. \A i \in DOMAIN bg'.list : Doomed(bg.list[i])'
  BY <1>1
<1>3. \A i, j \in DOMAIN bg'.list : bg'.list[i] = bg'.list[j] => i = j
  BY DEF LifeInv, ListedDoomed
<1>4. Working' => \A i \in DOMAIN bg'.list : bg'.list[i] # bg'.id
  BY DEF LifeInv, ListedDoomed
<1> QED BY <1>2, <1>3, <1>4 DEF ListedDoomed

\* The step of the background task as the invariant sees it.
LEMMA BgLife ==
  ASSUME TablesTyped, Ids, Core, ListIds, LifeInv, OthersSteady, bg'.list = bg.list,
         Working' => Working /\ bg'.id = bg.id, RecordsOk', SnapshotTrue', cmd' = cmd
  PROVE  LifeInv'
<1>1. ListedDoomed'
  BY ListStays
<1>2. ReloadNamesFile'
  BY DEF LifeInv, ReloadNamesFile
<1> QED BY <1>1, <1>2 DEF LifeInv, RecordsOk

\* If all the stopping are let be, so are those not worked on.
LEMMA SteadyOthers == Steady => OthersSteady
BY DEF Steady, OthersSteady

\* The clean-up of services and tasks is not seen.
LEMMA CleanUpLife ==
  ASSUME TablesTyped, WorkTyped, Ids, Core, ListIds, NamesApart', LifeInv,
         CleanUpServices \/ \E t \in bg.left : CleanupTaskResources(t)
  PROVE  LifeStep /\ LifeInv'
<1>0. NamesApart /\ RecordsOk
  BY DEF Core, LifeInv, RecordsOk
<1>1. /\ appTable' = appTable /\ cmd' = cmd /\ bg.pc \in {"services", "tasks"} /\ bg'.pc = "tasks"
      /\ bg'.id = bg.id /\ bg'.list = bg.list /\ bg'.name = bg.name /\ bg'.file = bg.file
      /\ bg'.req = bg.req
  <2>1. CASE CleanUpServices
    <3>1. bg' = [bg EXCEPT !.pc = "tasks"] /\ bg.pc = "services"
      BY <2>1 DEF CleanUpServices
    <3> QED BY <2>1, <3>1 DEF CleanUpServices, tables, WorkTyped, BgRec
  <2>2. CASE \E t \in bg.left : CleanupTaskResources(t)
    <3>1. PICK t \in bg.left : CleanupTaskResources(t)
      BY <2>2
    <3>2. bg' = [bg EXCEPT !.left = @ \ {t}] /\ bg.pc = "tasks"
      BY <3>1 DEF CleanupTaskResources
    <3> QED BY <3>1, <3>2 DEF CleanupTaskResources, tables, WorkTyped, BgRec
  <2> QED BY <2>1, <2>2
<1>2. SameRedo
  BY <1>1 DEF SameRedo, RestartOf
<1>3. LifeStep /\ RecordsOk' /\ OthersSteady
  BY <1>0, <1>1, <1>2, UnseenTable, SameRecords, SteadyOthers
<1>4. Working
  BY <1>1 DEF Working
<1>5. LET rec == appTable[LocateAppRecordByID(bg.id)]
      IN  Stopping(rec) /\ bg.req = rec.req /\ bg.name = rec.name /\ bg.file = rec.file
  BY <1>4 DEF LifeInv, SnapshotTrue
<1>6. SnapshotTrue'
  BY <1>1, <1>5 DEF SnapshotTrue
<1> QED BY <1>1, <1>3, <1>4, <1>6, BgLife

\* The scan changes states and timers.
LEMMA ScanView ==
  ASSUME NEW rec \in AppRec, NEW e
  PROVE  /\ ScanRecord(rec, e).id = rec.id /\ ScanRecord(rec, e).name = rec.name
         /\ ScanRecord(rec, e).file = rec.file /\ ScanRecord(rec, e).req = rec.req
         /\ ScanRecord(rec, e).state = IF Requested(rec) THEN "WAITING" ELSE rec.state
<1>1. CASE Stopping(rec)
  <2>1. ~Requested(rec)
    BY <1>1 DEF Stopping, Requested
  <2> QED BY <1>1, <2>1 DEF ScanRecord, AppRec
<1>2. CASE ~Stopping(rec) /\ Requested(rec)
  BY <1>2 DEF ScanRecord, AppRec
<1>3. CASE ~Stopping(rec) /\ ~Requested(rec)
  BY <1>3 DEF ScanRecord
<1> QED BY <1>1, <1>2, <1>3

Scanned ==
    \A s \in AppSlots :
        /\ appTable'[s].id = appTable[s].id /\ appTable'[s].name = appTable[s].name
        /\ appTable'[s].file = appTable[s].file /\ appTable'[s].req = appTable[s].req
        /\ appTable'[s].state = IF Requested(appTable[s]) THEN "WAITING" ELSE appTable[s].state

\* The scan keeps what is known of the records and lets the stopping be.
LEMMA ScannedRecords ==
  ASSUME RecordsOk, Scanned
  PROVE  RecordsOk' /\ Steady
<1>1. Steady
  BY DEF Steady, Halted, Scanned, Stopping, Requested
<1>2. UsedTyped'
  BY DEF RecordsOk, UsedTyped, Scanned, IsUsed
<1>3. RunningReal'
  BY DEF RecordsOk, RunningReal, Scanned
<1>4. StoppingAsked'
  BY DEF RecordsOk, StoppingAsked, Scanned, Stopping, Requested, IsUsed
<1> QED BY <1>1, <1>2, <1>3, <1>4 DEF RecordsOk

\* The scan of the table is one Notice, or is not seen.
LEMMA ScanLife ==
  ASSUME TablesTyped, WorkTyped, Ids, Core, ListIds, NamesApart', LifeInv,
         NEW e \in 1 .. MaxElapsed, RunAppTableScan(e)
  PROVE  LifeStep /\ LifeInv'
<1>0. NamesApart /\ RecordsOk
  BY DEF Core, LifeInv, RecordsOk
<1>1. bg.pc = "idle" /\ bg.list = <<>> /\ cmd' = cmd
  BY DEF RunAppTableScan
<1>2. CASE ~ScanDue(e)
  <2>1. appTable' = appTable /\ bg' = bg
    BY <1>2 DEF RunAppTableScan
  <2>2. ReloadNamesFile'
    BY <1>1 DEF LifeInv, ReloadNamesFile
  <2> QED BY <2>1, <2>2, QuietLife
<1>3. CASE ScanDue(e)
  <2> DEFINE S == {s \in AppSlots : TimedOut(appTable[s], e)}
  <2>1. appTable' = [s \in AppSlots |-> ScanRecord(appTable[s], e)]
    BY <1>3 DEF RunAppTableScan
  <2>2. PICK out \in InTableOrder(S) : bg' = [bg EXCEPT !.list = [i \in DOMAIN out |-> appTable[out[i]].id]]
    BY <1>3 DEF RunAppTableScan
  <2>3. Scanned
    BY <2>1, ScanView DEF Scanned, TablesTyped
  <2>4. RecordsOk' /\ Steady
    BY <1>0, <2>3, ScannedRecords
  <2>5. bg'.pc = "idle" /\ bg'.list = [i \in DOMAIN out |-> appTable[out[i]].id]
    BY <1>1, <2>2 DEF WorkTyped, BgRec
  <2>6. SameRedo
    BY <1>1, <2>5 DEF SameRedo, RestartOf
  <2>7. LifeStep
    BY <1>0, <2>3, <2>6, AreNoticed, Steps DEF RecordsOk, Scanned
  <2>8. PICK m \in Nat : DOMAIN out = 1 .. m /\ \A i \in 1 .. m : out[i] \in S
    <3>1. S \in SUBSET AppSlots
      OBVIOUS
    <3> QED BY <3>1, TableOrderType
  <2>9. \A i, j \in 1 .. m : i < j => out[i] < out[j]
    BY <2>8 DEF InTableOrder
  <2>10. \A i, j \in 1 .. m : out[i] = out[j] => i = j
    BY <2>8, <2>9 DEF AppSlots
  <2>11. ASSUME NEW s \in AppSlots, Stopping(appTable[s])
         PROVE  appTable[s].id \in Nat /\ LocateAppRecordByID(appTable[s].id) = s
    <3>1. ~Cleaning
      BY <1>1 DEF Cleaning
    <3>2. appTable[s].id # Reserved
      BY <2>11, <3>1 DEF Core, ReservedHeld, CreatesHoldSlot, Stopping
    <3> QED BY <2>11, <3>2 DEF Ids, AppIds, Stopping, IsUsed, TablesTyped
  <2>12. ASSUME NEW i \in 1 .. m
         PROVE  /\ bg'.list[i] = appTable[out[i]].id /\ out[i] \in AppSlots
                /\ LocateAppRecordByID(bg'.list[i]) = out[i] /\ Halted(out[i])
                /\ Stopping(appTable[out[i]])
    <3>1. out[i] \in AppSlots /\ Stopping(appTable[out[i]])
      BY <2>8 DEF TimedOut
    <3> QED BY <2>4, <2>5, <2>8, <2>11, <3>1 DEF Steady
  <2>13. DOMAIN bg'.list = 1 .. m
    BY <2>5, <2>8
  <2>14. ASSUME NEW i \in 1 .. m PROVE Doomed(bg.list[i])'
    <3>1. PICK a : a = bg'.list[i]
      OBVIOUS
    <3>2. Doomed(a)'
      BY <2>12, <3>1 DEF Doomed, AppRecordIsMatch, LocateAppRecordByID, Halted, Stopping, IsUsed
    <3> QED BY <3>1, <3>2
  <2>15. \A i, j \in 1 .. m : bg'.list[i] = bg'.list[j] => i = j
    BY <2>10, <2>12
  <2>16. ListedDoomed'
    BY <2>5, <2>13, <2>14, <2>15 DEF ListedDoomed, Working
  <2>17. SnapshotTrue'
    BY <2>5 DEF SnapshotTrue, Working
  <2>18. ReloadNamesFile'
    BY <1>1 DEF LifeInv, ReloadNamesFile
  <2> QED BY <2>4, <2>7, <2>16, <2>17, <2>18 DEF LifeInv, RecordsOk
<1> QED BY <1>2, <1>3

\* Head and tail of the list.
LEMMA TailFacts ==
  ASSUME NEW q \in Seq(Int), q # <<>>
  PROVE  /\ Head(q) = q[1] /\ 1 \in DOMAIN q
         /\ \A i \in DOMAIN Tail(q) : i \in Nat /\ i + 1 \in DOMAIN q /\ i + 1 # 1 /\ Tail(q)[i] = q[i + 1]
OBVIOUS

\* The application is taken off the list and its request is copied.
LEMMA ProcessLife ==
  ASSUME TablesTyped, WorkTyped, Ids, Core, ListIds, NamesApart', LifeInv, ProcessControlRequest
  PROVE  LifeStep /\ LifeInv'
<1>0. NamesApart /\ RecordsOk
  BY DEF Core, LifeInv, RecordsOk
<1>1. appTable' = appTable /\ cmd' = cmd /\ bg.pc = "idle" /\ bg.list # <<>> /\ bg.list \in Seq(Int)
  BY DEF ProcessControlRequest, tables, WorkTyped, BgRec
<1>2. PICK a \in Int : a = Head(bg.list)
  BY <1>1
<1>3. Doomed(a) /\ \A i \in DOMAIN Tail(bg.list) : Doomed(Tail(bg.list)[i]) /\ Tail(bg.list)[i] # a
  BY <1>1, <1>2, TailFacts DEF LifeInv, ListedDoomed
<1>4. \A i, j \in DOMAIN Tail(bg.list) : Tail(bg.list)[i] = Tail(bg.list)[j] => i = j
  BY <1>1, TailFacts DEF LifeInv, ListedDoomed
<1>5. PICK rec : rec = appTable[LocateAppRecordByID(a)]
  OBVIOUS
<1>6. AppRecordIsMatch(a) /\ rec.id = a /\ Stopping(rec)
  BY <1>3, <1>5 DEF Doomed, AppRecordIsMatch
<1>7. bg' = [[NoWork EXCEPT !.pc = "collect", !.id = a, !.list = Tail(bg.list)]
               EXCEPT !.req = rec.req, !.name = rec.name, !.file = rec.file]
  BY <1>2, <1>5, <1>6 DEF ProcessControlRequest
<1>8. /\ bg'.pc = "collect" /\ bg'.id = a /\ bg'.list = Tail(bg.list) /\ bg'.req = rec.req
      /\ bg'.name = rec.name /\ bg'.file = rec.file
  BY <1>7 DEF NoWork
<1>9. SameRedo
  BY <1>1, <1>8 DEF SameRedo, RestartOf
<1>10. LifeStep /\ RecordsOk' /\ Steady
  BY <1>0, <1>1, <1>9, UnseenTable, SameRecords
<1>11. ListedDoomed'
  <2>1. ASSUME NEW i \in DOMAIN bg'.list PROVE Doomed(bg.list[i])'
    <3>1. PICK b : b = Tail(bg.list)[i]
      OBVIOUS
    <3>2. Doomed(b)
      BY <1>3, <1>8, <2>1, <3>1
    <3>3. Doomed(b)'
      BY <1>1, <3>2 DEF Doomed, AppRecordIsMatch
    <3> QED BY <1>8, <3>1, <3>3
  <2>2. \A i \in DOMAIN bg'.list : bg'.list[i] # bg'.id
    BY <1>3, <1>8
  <2>3. \A i, j \in DOMAIN bg'.list : bg'.list[i] = bg'.list[j] => i = j
    BY <1>4, <1>8
  <2> QED BY <2>1, <2>2, <2>3 DEF ListedDoomed
<1>12. SnapshotTrue'
  BY <1>1, <1>5, <1>6, <1>8 DEF SnapshotTrue, AppRecordIsMatch
<1>13. ReloadNamesFile'
  BY <1>1 DEF LifeInv, ReloadNamesFile
<1> QED BY <1>10, <1>11, <1>12, <1>13 DEF LifeInv, RecordsOk

\* The clean-up reserves the record of the application ...
LEMMA CollectLife ==
  ASSUME TablesTyped, WorkTyped, Ids, Core, ListIds, NamesApart', LifeInv, CollectResources
  PROVE  LifeStep /\ LifeInv'
<1>0. NamesApart /\ RecordsOk
  BY DEF Core, LifeInv, RecordsOk
<1>1. bg.pc = "collect" /\ AppRecordIsMatch(bg.id) /\ cmd' = cmd /\ Working
  BY DEF CollectResources, Working
<1>2. PICK z \in AppSlots : z = LocateAppRecordByID(bg.id)
  BY <1>1, Slots DEF Ids, BgIds, TablesTyped
<1>3. /\ appTable[z].id = bg.id /\ Stopping(appTable[z]) /\ bg.req = appTable[z].req
      /\ bg.name = appTable[z].name /\ bg.file = appTable[z].file
  BY <1>1, <1>2 DEF LifeInv, SnapshotTrue, AppRecordIsMatch
<1>4. appTable' = [appTable EXCEPT ![z].id = Reserved]
  BY <1>2 DEF CollectResources
<1>5. OnlyChanges(z)
  BY <1>4 DEF TablesTyped, OnlyChanges
<1>6. /\ appTable'[z].id = Reserved /\ appTable'[z].name = appTable[z].name
      /\ appTable'[z].file = appTable[z].file /\ appTable'[z].state = appTable[z].state
      /\ appTable'[z].req = appTable[z].req
  BY <1>4 DEF TablesTyped, AppRec
<1>7. /\ bg'.pc = "services" /\ bg'.id = bg.id /\ bg'.list = bg.list /\ bg'.req = bg.req
      /\ bg'.name = bg.name /\ bg'.file = bg.file
  <2>1. PICK ids : bg' = [bg EXCEPT !.pc = "services", !.tasks = ids, !.left = ids]
    BY DEF CollectResources
  <2> QED BY <2>1 DEF WorkTyped, BgRec
<1>8. SameRedo
  BY <1>1, <1>7 DEF SameRedo, RestartOf
<1>9. IsUsed(appTable[z]) /\ IsUsed(appTable'[z]) /\ Stopping(appTable'[z]) /\ appTable[z].state # "RUNNING"
  BY <1>3, <1>6 DEF IsUsed, Stopping, Free, Reserved
<1>10. \A s \in AppSlots : SameView(s)
  BY <1>5, <1>6, <1>9 DEF SameView, OnlyChanges, IsUsed
<1>11. LifeStep
  BY <1>0, <1>8, <1>10, Unseen
<1>12. RecordGood(appTable'[z])
  BY <1>3, <1>6, <1>9 DEF RecordGood, RecordsOk, UsedTyped, StoppingAsked, LifeInv
<1>13. RecordsOk'
  <2>1. ASSUME NEW s \in AppSlots PROVE RecordGood(appTable'[s])
    BY <1>0, <1>5, <1>12 DEF OnlyChanges, RecordsOk, UsedTyped, RunningReal, StoppingAsked, RecordGood
  <2>2. UsedTyped' /\ RunningReal' /\ StoppingAsked'
    BY <2>1 DEF UsedTyped, RunningReal, StoppingAsked, RecordGood
  <2> QED BY <2>2 DEF RecordsOk
<1>14. OthersSteady
  BY <1>1, <1>2, <1>5 DEF OthersSteady, OnlyChanges, Halted, Stopping
<1>15. SnapshotTrue'
  <2>2. LocateAppRecordByID(bg'.id) = z
    BY <1>2, <1>7
  <2> QED BY <1>3, <1>6, <1>7, <1>9, <2>2 DEF SnapshotTrue, LocateAppRecordByID
<1> QED BY <1>1, <1>7, <1>11, <1>13, <1>14, <1>15, BgLife

\* ... and sets it free when everything of the application is gone.
LEMMA FreeLife ==
  ASSUME TablesTyped, WorkTyped, Ids, Core, ListIds, NamesApart', LifeInv, FreeRecords
  PROVE  LifeStep /\ LifeInv'
<1>0. NamesApart /\ RecordsOk
  BY DEF Core, LifeInv, RecordsOk
<1>1. bg.pc = "tasks" /\ cmd' = cmd /\ Working /\ Cleaning
  BY DEF FreeRecords, Working, Cleaning
<1>2. PICK z \in AppSlots : z = LocateAppRecordByID(bg.id)
  BY <1>1, Slots DEF Ids, BgIds, TablesTyped
<1>3. /\ appTable[z].id = Reserved /\ Stopping(appTable[z]) /\ bg.req = appTable[z].req
      /\ bg.name = appTable[z].name /\ bg.file = appTable[z].file
  BY <1>1, <1>2 DEF LifeInv, SnapshotTrue, Core, CleanupHoldsSlot
<1>4. IsUsed(appTable[z]) /\ appTable[z].name \in Names /\ appTable[z].file \in Files /\ appTable[z].state # "RUNNING"
  BY <1>0, <1>3 DEF Stopping, RecordsOk, UsedTyped
<1>5. appTable' = [appTable EXCEPT ![z] = AppRecordSetFree(@)]
  BY <1>2, <1>3 DEF FreeRecords, FreeIfReserved, TablesTyped
<1>6. OnlyChanges(z)
  BY <1>5 DEF TablesTyped, OnlyChanges
<1>7. appTable'[z].id = Free /\ appTable'[z].state = appTable[z].state
  BY <1>5 DEF TablesTyped, AppRecordSetFree, FreeApp
<1>8. ~IsUsed(appTable'[z]) /\ RecordGood(appTable'[z])
  BY <1>4, <1>7 DEF IsUsed, RecordGood, Stopping
<1>9. RecordsOk'
  <2>1. ASSUME NEW s \in AppSlots PROVE RecordGood(appTable'[s])
    BY <1>0, <1>6, <1>8 DEF OnlyChanges, RecordsOk, UsedTyped, RunningReal, StoppingAsked, RecordGood
  <2>2. UsedTyped' /\ RunningReal' /\ StoppingAsked'
    BY <2>1 DEF UsedTyped, RunningReal, StoppingAsked, RecordGood
  <2> QED BY <2>2 DEF RecordsOk
<1>10. OthersSteady
  BY <1>1, <1>2, <1>6 DEF OthersSteady, OnlyChanges, Halted, Stopping
<1>11. /\ bg.req \in RestartRequests => bg'.pc = "create" /\ bg'.name = bg.name /\ bg'.file = bg.file
       /\ bg.req \notin RestartRequests => bg'.pc = "idle"
       /\ bg'.list = bg.list
  <2>1. CASE bg.req \in RestartRequests
    <3>1. bg' = [bg EXCEPT !.pc = "create", !.tasks = {}]
      BY <2>1 DEF FreeRecords
    <3> QED BY <2>1, <3>1 DEF WorkTyped, BgRec
  <2>2. CASE bg.req \notin RestartRequests
    <3>1. bg' = [NoWork EXCEPT !.list = bg.list]
      BY <2>2 DEF FreeRecords
    <3> QED BY <2>2, <3>1 DEF NoWork
  <2> QED BY <2>1, <2>2
<1>12. ~Working' /\ SnapshotTrue'
  BY <1>3, <1>4, <1>11 DEF Working, SnapshotTrue
<1>13. LifeInv'
  BY <1>1, <1>9, <1>10, <1>11, <1>12, BgLife
<1>14. PICK n \in Names : n = appTable[z].name
  BY <1>4
<1>15. \A m \in Names : RestartOf(m) = NoFile
  BY <1>1 DEF RestartOf
<1>16. /\ \A m \in Names : m # n => RestartOf(m)' = NoFile
       /\ RestartOf(n)' = IF appTable[z].req \in RestartRequests THEN appTable[z].file ELSE NoFile
  BY <1>3, <1>11, <1>14 DEF RestartOf
<1>17. Lifecycle!Remove(n)
  BY <1>0, <1>3, <1>4, <1>6, <1>8, <1>14, <1>15, <1>16, IsRemoved
<1> QED BY <1>13, <1>17, Steps

\* The restart, as a second CFE_ES_AppCreate.
LEMMA RestartLife ==
  ASSUME TablesTyped, WorkTyped, Ids, Core, ListIds, NamesApart', LifeInv, RestartCreate
  PROVE  LifeStep /\ LifeInv'
<1>0. NamesApart /\ RecordsOk
  BY DEF Core, LifeInv, RecordsOk
<1>1. bg.pc = "create" /\ cmd' = cmd /\ ~Working
  BY DEF RestartCreate, Working
<1>2. PICK n \in Names : n = bg.name
  BY <1>1 DEF LifeInv, SnapshotTrue
<1>3. PICK f \in Files : f = bg.file
  BY <1>1 DEF LifeInv, SnapshotTrue
<1>4. bg'.list = bg.list /\ bg'.pc \in {"creating", "idle"}
  <2>1. CASE bg' = [bg EXCEPT !.pc = "creating"]
    BY <2>1 DEF WorkTyped, BgRec
  <2>2. CASE bg' = [NoWork EXCEPT !.list = bg.list]
    BY <2>2 DEF NoWork
  <2> QED BY <2>1, <2>2 DEF RestartCreate
<1>5. bg'.pc # "create" /\ ~Working' /\ SnapshotTrue'
  BY <1>4 DEF Working, SnapshotTrue
<1>6. CASE CanReserve(n)
  <2>1. Reserve("bg", n, f)
    BY <1>2, <1>3, <1>6 DEF RestartCreate
  <2>2. RecordsOk' /\ Steady
    BY <1>0, <1>6, <2>1, ReserveEffect
  <2>3. PICK z \in AppSlots :
            /\ OnlyChanges(z) /\ ~IsUsed(appTable[z]) /\ AppsNamed(n) = {}
            /\ IsUsed(appTable'[z]) /\ appTable'[z].name = n /\ appTable'[z].file = f
            /\ appTable'[z].state = "INIT" /\ appTable'[z].req = "APP_RUN"
    BY <1>0, <1>6, <2>1, ReserveEffect
  <2>4. Lifecycle!Restart(bg.name)
    BY <1>0, <1>1, <1>2, <1>3, <1>5, <2>3, RestartBegins
  <2>5. Lifecycle!Restart(n)
    BY <1>2, <2>4
  <2> QED BY <1>1, <1>4, <1>5, <2>2, <2>5, Steps, SteadyOthers, BgLife
<1>7. CASE ~CanReserve(n)
  <2>1. appTable' = appTable
    BY <1>2, <1>7 DEF RestartCreate, tables
  <2>2. \A m \in Names : SameName(m)
    BY <1>0, <2>1, Frame DEF SameView
  <2>3. Lifecycle!Restart(bg.name)
    BY <1>1, <1>2, <1>3, <1>5, <2>2, RestartEnds
  <2>4. Lifecycle!Restart(n)
    BY <1>2, <2>3
  <2>5. RecordsOk' /\ Steady
    BY <1>0, <2>1, SameRecords
  <2> QED BY <1>1, <1>4, <1>5, <2>4, <2>5, Steps, SteadyOthers, BgLife
<1> QED BY <1>6, <1>7

\* A CFE_ES_AppCreate of the background task that is under way.
LEMMA BgCreateLife ==
  ASSUME TablesTyped, WorkTyped, Ids, Core, ListIds, NamesApart', LifeInv, AppCreate("bg")
  PROVE  LifeStep /\ LifeInv'
<1>0. RecordsOk /\ "bg" \in Creators
  BY DEF LifeInv, RecordsOk, Creators
<1>1. create["bg"].pc # "idle" /\ cmd' = cmd
  BY DEF AppCreate, LoadModule, StartAppTask, FinishCreate
<1>2. bg.pc = "creating"
  BY <1>1 DEF Ids, BgIds
<1>3. bg'.list = bg.list /\ bg'.pc \in {"creating", "idle"}
  <2>1. CASE LoadModule("bg") \/ StartAppTask("bg")
    <3>1. bg' = bg
      BY <2>1 DEF LoadModule, StartAppTask
    <3> QED BY <1>2, <3>1
  <2>2. CASE FinishCreate("bg")
    <3>1. bg' = [NoWork EXCEPT !.list = bg.list]
      BY <2>2 DEF FinishCreate
    <3> QED BY <3>1 DEF NoWork
  <2> QED BY <2>1, <2>2 DEF AppCreate
<1>4. SameRedo /\ SnapshotTrue' /\ ~Working'
  BY <1>2, <1>3 DEF SameRedo, RestartOf, SnapshotTrue, Working
<1>5. LifeStep /\ RecordsOk' /\ Steady
  BY <1>0, <1>4, CreateLife
<1> QED BY <1>1, <1>3, <1>4, <1>5, SteadyOthers, BgLife

\* Any step of the background task.
LEMMA BackgroundLife ==
  ASSUME TablesTyped, WorkTyped, Ids, Core, ListIds, NamesApart', LifeInv, BackgroundTask
  PROVE  LifeStep /\ LifeInv'
BY ScanLife, ProcessLife, CollectLife, CleanUpLife, FreeLife, RestartLife, BgCreateLife DEF BackgroundTask

\* Any step of ES is a step of AppLifecycle or is not seen, and keeps LifeInv.
LEMMA LifeNext ==
  ASSUME IInv, IInv', LifeInv, [Next]_vars
  PROVE  LifeStep /\ LifeInv'
<1>1. TablesTyped /\ WorkTyped /\ Ids /\ Core /\ ListIds
  BY DEF IInv
<1>2. NamesApart'
  BY DEF IInv, Core
<1>3. CASE CommandTask
  BY <1>1, <1>2, <1>3, CommandLife
<1>4. CASE BackgroundTask
  BY <1>1, <1>2, <1>4, BackgroundLife
<1>5. CASE \E t \in LiveTasks : AppTask(t)
  BY <1>1, <1>2, <1>5, AppTaskLife
<1>6. CASE UNCHANGED vars
  <2>1. appTable' = appTable /\ bg' = bg /\ cmd' = cmd
    BY <1>6 DEF vars, tables
  <2>2. ReloadNamesFile'
    BY <2>1 DEF LifeInv, ReloadNamesFile
  <2> QED BY <1>1, <1>2, <2>1, <2>2, QuietLife
<1> QED BY <1>3, <1>4, <1>5, <1>6 DEF Next

-----------------------------------------------------------------------------
(* The system after the startup script.                                      *)
LEMMA ScriptRecords ==
  ASSUME NEW order \in SetToSeqs(Initial), StartedSystem(order)
  PROVE  \A s \in AppSlots :
           /\ appTable[s].req = "APP_RUN"
           /\ \/ ~IsUsed(appTable[s]) /\ appTable[s].state = "INIT"
              \/ /\ appTable[s].id > Free /\ appTable[s].name \in Names
                 /\ appTable[s].state = "RUNNING" /\ appTable[s].file = InitialFile
<1>1. PICK n \in Nat : order \in [1 .. n -> Names] /\ StartedApps(order, n) /\ TablesTyped
  BY ScriptRun DEF AfterScript
<1> SUFFICES ASSUME NEW s \in AppSlots
             PROVE  /\ appTable[s].req = "APP_RUN"
                    /\ \/ ~IsUsed(appTable[s]) /\ appTable[s].state = "INIT"
                       \/ /\ appTable[s].id > Free /\ appTable[s].name \in Names
                          /\ appTable[s].state = "RUNNING" /\ appTable[s].file = InitialFile
  OBVIOUS
<1>2. Len(order) = n /\ s \in Int
  BY <1>1 DEF AppSlots
<1>3. CASE \E i \in 1 .. n : LocateAppRecordByID(i) = s
  <2>1. \E i \in 1 .. n : appTable[s].id = i /\ appTable[s].name = order[i]
    BY <1>1, <1>3 DEF StartedApps
  <2>2. appTable[s].id > Free /\ appTable[s].name \in Names
    BY <1>1, <2>1 DEF Free
  <2>3. \E i \in 1 .. Len(order) : i % MaxApps = s
    BY <1>2, <1>3 DEF LocateAppRecordByID
  <2>4. \E k, m : appTable[s] = [FreeApp EXCEPT !.id = k, !.name = m, !.state = "RUNNING",
                                               !.file = InitialFile, !.main = k]
    BY <2>3 DEF StartedSystem
  <2>5. appTable[s].state = "RUNNING" /\ appTable[s].file = InitialFile /\ appTable[s].req = "APP_RUN"
    BY <2>4 DEF FreeApp
  <2> QED BY <2>2, <2>5
<1>4. CASE ~ \E i \in 1 .. n : LocateAppRecordByID(i) = s
  <2>1. ~ \E i \in 1 .. Len(order) : i % MaxApps = s
    BY <1>2, <1>4 DEF LocateAppRecordByID
  <2>2. appTable[s] = FreeApp
    BY <2>1 DEF StartedSystem
  <2>3. FreeApp.id = Free /\ FreeApp.state = "INIT" /\ FreeApp.req = "APP_RUN"
    BY DEF FreeApp
  <2>4. appTable[s].id = Free /\ appTable[s].state = "INIT" /\ appTable[s].req = "APP_RUN"
    BY <2>2, <2>3
  <2> QED BY <2>4 DEF IsUsed
<1> QED BY <1>3, <1>4

\* The system as started is an initial state of AppLifecycle.
LEMMA LifeInit == Init => LifeInv /\ Lifecycle!Init
<1> SUFFICES ASSUME NEW order \in SetToSeqs(Initial), StartedSystem(order)
             PROVE  LifeInv /\ Lifecycle!Init
  BY DEF Init
<1>1. \A s \in AppSlots :
        /\ appTable[s].req = "APP_RUN"
        /\ \/ ~IsUsed(appTable[s]) /\ appTable[s].state = "INIT"
           \/ /\ appTable[s].id > Free /\ appTable[s].name \in Names
              /\ appTable[s].state = "RUNNING" /\ appTable[s].file = InitialFile
  BY ScriptRecords
<1>2. bg.pc = "idle" /\ bg.list = <<>> /\ cmd.pc = "idle"
  BY DEF StartedSystem, NoWork, NoCmd
<1>3. NamesApart
  <2>1. Init
    BY DEF Init
  <2> QED BY <2>1, InitInv DEF IInv, Core
<1>4. InitialFile \in Files /\ NoFile \notin Files
  BY ESAssumption
<1>5. LifeInv
  <2>1. UsedTyped /\ RunningReal /\ StoppingAsked
    BY <1>1, <1>4 DEF UsedTyped, RunningReal, StoppingAsked, Stopping
  <2>2. ListedDoomed /\ SnapshotTrue /\ ReloadNamesFile
    BY <1>2 DEF ListedDoomed, SnapshotTrue, ReloadNamesFile, Working
  <2> QED BY <2>1, <2>2 DEF LifeInv
<1>6. ASSUME NEW n \in Names
      PROVE  /\ RequestOf(n) = "APP_RUN" /\ RestartOf(n) = NoFile
             /\ \/ StatusOf(n) = "absent" /\ FileOf(n) = NoFile
                \/ StatusOf(n) = "running" /\ FileOf(n) = InitialFile
  <2>0. RestartOf(n) = NoFile
    BY <1>2 DEF RestartOf
  <2>1. CASE \E s \in AppSlots : IsUsed(appTable[s]) /\ appTable[s].name = n
    <3>1. PICK s \in AppSlots : IsUsed(appTable[s]) /\ appTable[s].name = n
      BY <2>1
    <3>2. appTable[s].req = "APP_RUN" /\ appTable[s].state = "RUNNING" /\ appTable[s].file = InitialFile
      BY <1>1, <3>1
    <3>3. StatusOf(n) = "running" /\ FileOf(n) = InitialFile /\ RequestOf(n) = "APP_RUN"
      BY <1>3, <3>1, <3>2, Shown, Phases
    <3> QED BY <2>0, <3>3
  <2>2. CASE ~ \E s \in AppSlots : IsUsed(appTable[s]) /\ appTable[s].name = n
    BY <2>0, <2>2, NotShown
  <2> QED BY <2>1, <2>2
<1>7. Lifecycle!Init
  <2>1. [n \in Names |-> StatusOf(n)] \in [Names -> {"absent", "running"}]
    BY <1>6
  <2>2. [n \in Names |-> FileOf(n)] \in [Names -> Files \cup {NoFile}]
    BY <1>4, <1>6
  <2>3. \A n \in Names : ([m \in Names |-> FileOf(m)][n] = NoFile) <=> ([m \in Names |-> StatusOf(m)][n] = "absent")
    BY <1>4, <1>6
  <2>4. [n \in Names |-> RequestOf(n)] = [n \in Names |-> "APP_RUN"]
    BY <1>6
  <2>5. [n \in Names |-> RestartOf(n)] = [n \in Names |-> NoFile]
    BY <1>6
  <2> QED BY <2>1, <2>2, <2>3, <2>4, <2>5 DEF Lifecycle!Init
<1> QED BY <1>5, <1>7

(* The record of an application tells the truth for as long as ES works on  *)
(* it: what CFE_ES_ProcessControlRequest copied is what the record says.    *)
LEMMA LifeInvariance == ASSUME PollOutlastsCreate PROVE Spec => [](IInv /\ LifeInv)
<1>1. Init => IInv /\ LifeInv
  BY InitInv, LifeInit
<1>2. ASSUME IInv, LifeInv, [Next]_vars PROVE IInv' /\ LifeInv'
  BY <1>2, InvStep, LifeNext
<1> QED BY <1>1, <1>2, PTL DEF Spec

(* Every behaviour of the ES tables is one of AppLifecycle: the ground's    *)
(* last accepted request wins over the exit it causes, a stopping           *)
(* application is never seen running again, and a restart uses the file     *)
(* last named, however commands, scan, clean-up and tasks interleave.       *)
THEOREM LifecycleImplemented == ASSUME PollOutlastsCreate PROVE Spec => LifecycleRefined
<1>1. Init => Lifecycle!Init
  BY LifeInit
<1>2. ASSUME IInv, LifeInv, IInv', [Next]_vars PROVE [Lifecycle!Next]_(Lifecycle!vars)
  BY <1>2, LifeNext DEF LifeStep
<1>3. Spec => [](IInv /\ LifeInv)
  BY LifeInvariance
<1> QED BY <1>1, <1>2, <1>3, PTL DEF Spec, LifecycleRefined, Lifecycle!Spec
=============================================================================
