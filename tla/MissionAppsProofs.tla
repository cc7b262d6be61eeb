-------------------------- MODULE MissionAppsProofs --------------------------
(***************************************************************************)
(* Theorems about MissionApps, for every schedule, message limit, pipe     *)
(* depth and number of late ticks.                                         *)
(***************************************************************************)
EXTENDS MissionApps, FiniteSetTheorems, SequenceTheorems, TLAPS

\* The messages of one kind on a pipe can be counted.
LEMMA WaitingType ==
  ASSUME NEW S, NEW q \in Seq(S), NEW m
  PROVE  /\ IsFiniteSet({i \in DOMAIN q : q[i] = m})
         /\ Waiting(q, m) \in Nat
<1>1. IsFiniteSet(1 .. Len(q))
  BY FS_Interval
<1>2. {i \in DOMAIN q : q[i] = m} \in SUBSET (1 .. Len(q))
  OBVIOUS
<1>3. IsFiniteSet({i \in DOMAIN q : q[i] = m})
  BY <1>1, <1>2, FS_Subset
<1> QED BY <1>3, FS_CardinalityType DEF Waiting

\* Sending a message adds one to its own kind and nothing to the others.
LEMMA WaitingAppend ==
  ASSUME NEW S, NEW q \in Seq(S), NEW e \in S, NEW m
  PROVE  Waiting(Append(q, e), m) = IF e = m THEN Waiting(q, m) + 1 ELSE Waiting(q, m)
<1> DEFINE A == {i \in DOMAIN q : q[i] = m}
           B == {i \in DOMAIN Append(q, e) : Append(q, e)[i] = m}
<1>1. /\ Append(q, e) \in Seq(S) /\ Len(Append(q, e)) = Len(q) + 1
      /\ \A i \in 1 .. Len(q) : Append(q, e)[i] = q[i]
      /\ Append(q, e)[Len(q) + 1] = e
  BY AppendProperties
<1>2. DOMAIN q = 1 .. Len(q) /\ DOMAIN Append(q, e) = 1 .. Len(q) + 1 /\ Len(q) \in Nat
  BY <1>1
<1>a. Len(q) + 1 \notin A
  BY <1>2
<1>b. IsFiniteSet(A)
  BY WaitingType
<1>3. IsFiniteSet(A) /\ Len(q) + 1 \notin A
  BY <1>a, <1>b
<1>4. CASE e = m
  <2>1. B = A \cup {Len(q) + 1}
    BY <1>1, <1>2, <1>4
  <2> QED BY <1>3, <1>4, <2>1, FS_AddElement DEF Waiting
<1>5. CASE e # m
  <2>1. B = A
    BY <1>1, <1>2, <1>5
  <2> QED BY <1>5, <2>1 DEF Waiting
<1> QED BY <1>4, <1>5

\* Taking a message adds nothing to any kind.
LEMMA WaitingTail ==
  ASSUME NEW S, NEW q \in Seq(S), q # <<>>, NEW m
  PROVE  Waiting(Tail(q), m) <= Waiting(q, m)
<1> DEFINE A == {i \in DOMAIN Tail(q) : Tail(q)[i] = m}
           B == {i \in DOMAIN q : q[i] = m}
           f == [i \in A |-> i + 1]
<1>1. /\ Tail(q) \in Seq(S) /\ Len(Tail(q)) = Len(q) - 1 /\ Len(q) \in Nat
      /\ \A i \in 1 .. Len(Tail(q)) : Tail(q)[i] = q[i + 1]
  BY HeadTailProperties
<1>2. DOMAIN q = 1 .. Len(q) /\ DOMAIN Tail(q) = 1 .. Len(q) - 1
  BY <1>1
<1>3. IsFiniteSet(B)
  BY WaitingType
<1>4. \A i \in A : i \in Int /\ i + 1 \in B
  BY <1>1, <1>2
<1>5. f \in Injection(A, B)
  <2>1. f \in [A -> B]
    BY <1>4
  <2>2. \A i, j \in A : f[i] = f[j] => i = j
    BY <1>4
  <2> HIDE DEF A, B, f
  <2>3. DOMAIN f = A
    BY <2>1
  <2> QED BY <2>1, <2>2, <2>3 DEF Injection, IsInjective
<1> HIDE DEF f
<1>6. Cardinality(A) <= Cardinality(B)
  BY <1>3, <1>5, FS_Injection
<1> QED BY <1>6 DEF Waiting

\* The elements of two disjoint sets are counted separately.
LEMMA DisjointUnion ==
  ASSUME NEW A, NEW B, IsFiniteSet(A), IsFiniteSet(B), A \cap B = {}
  PROVE  /\ IsFiniteSet(A \cup B)
         /\ Cardinality(A \cup B) = Cardinality(A) + Cardinality(B)
<1>1. /\ IsFiniteSet(A \cup B)
      /\ Cardinality(A \cup B) = Cardinality(A) + Cardinality(B) - Cardinality(A \cap B)
  BY FS_Union
<1>2. Cardinality(A \cap B) = 0
  BY FS_EmptySet
<1>3. Cardinality(A) \in Nat /\ Cardinality(B) \in Nat
  BY FS_CardinalityType
<1> QED BY <1>1, <1>2, <1>3

\* A pipe of centurio_nav holds its three kinds of message and no other.
LEMMA PipeLength ==
  ASSUME NEW q \in Seq(NavMessages)
  PROVE  Len(q) = Waiting(q, "WAKEUP") + Waiting(q, "SEND_HK") + Waiting(q, "CMD")
<1> DEFINE W == {i \in DOMAIN q : q[i] = "WAKEUP"}
           H == {i \in DOMAIN q : q[i] = "SEND_HK"}
           C == {i \in DOMAIN q : q[i] = "CMD"}
<1>1. IsFiniteSet(W) /\ IsFiniteSet(H) /\ IsFiniteSet(C)
  BY WaitingType
<1>2. W \cap H = {} /\ (W \cup H) \cap C = {}
  OBVIOUS
<1>3. (W \cup H) \cup C = 1 .. Len(q)
  <2>1. \A i \in 1 .. Len(q) : q[i] \in {"SEND_HK", "WAKEUP", "CMD"}
    BY DEF NavMessages, Requests
  <2>2. DOMAIN q = 1 .. Len(q)
    OBVIOUS
  <2> QED BY <2>1, <2>2
<1>4. Waiting(q, "WAKEUP") = Cardinality(W) /\ Waiting(q, "SEND_HK") = Cardinality(H)
      /\ Waiting(q, "CMD") = Cardinality(C)
  BY DEF Waiting
<1> HIDE DEF W, H, C
<1>5. IsFiniteSet(W \cup H) /\ Cardinality(W \cup H) = Cardinality(W) + Cardinality(H)
  BY <1>1, <1>2, DisjointUnion
<1>6. Cardinality((W \cup H) \cup C) = Cardinality(W \cup H) + Cardinality(C)
  BY <1>1, <1>2, <1>5, DisjointUnion
<1>7. Len(q) \in Nat
  OBVIOUS
<1>8. \A n \in Nat : Cardinality(1 .. n) = n
  <2> TAKE n \in Nat
  <2>1. 1 \in Int /\ n \in Int
    OBVIOUS
  <2>2. Cardinality(1 .. n) = IF 1 > n THEN 0 ELSE n - 1 + 1
    BY ONLY <2>1, FS_Interval
  <2> QED BY <2>2
<1> QED BY <1>3, <1>4, <1>5, <1>6, <1>7, <1>8

-----------------------------------------------------------------------------
(* What holds in every state: the types, and each of the three subscriptions *)
(* of centurio_nav keeps to its limit.  The second part is what the limit    *)
(* check of CFE_SB_TransmitMsg maintains, and with PipeLength it keeps the   *)
(* pipe from filling up while one kind still has room.                       *)
WithinLimits == \A m \in NavMessages : Waiting(navPipe, m) <= MsgLimit

IInv == TypeOK /\ WithinLimits

\* The bounds the proofs use, one by one.
LEMMA Bounds ==
  /\ WakeRate \in Nat \ {0} /\ HkRate \in Nat \ {0} /\ MsgLimit \in Nat \ {0}
  /\ NavDepth \in Nat \ {0} /\ BridgeDepth \in Nat \ {0} /\ RxSize \in Nat \ {0}
  /\ MaxBehind \in Nat \ {0} /\ NavDepth >= 3 * MsgLimit
BY MissionAssumption

\* A request of the table is a message that centurio_nav subscribed to.
LEMMA RequestsSent == Requests \subseteq NavMessages /\ "CMD" \in NavMessages
BY DEF NavMessages

\* CFE_SB_TransmitMsg keeps the pipe within every limit.
LEMMA TransmitKeeps ==
  ASSUME navPipe \in Seq(NavMessages), WithinLimits, NEW e \in NavMessages, Transmit(e)
  PROVE  navPipe' \in Seq(NavMessages) /\ WithinLimits'
<1>1. CASE navPipe' = navPipe
  BY <1>1 DEF WithinLimits, Waiting
<1>2. CASE navPipe' # navPipe
  <2>1. navPipe' = Append(navPipe, e) /\ Waiting(navPipe, e) < MsgLimit
    BY <1>2 DEF Transmit
  <2>2. navPipe' \in Seq(NavMessages)
    BY <2>1
  <2>3. ASSUME NEW m \in NavMessages PROVE Waiting(navPipe', m) <= MsgLimit
    <3>1. Waiting(navPipe', m) = IF e = m THEN Waiting(navPipe, m) + 1 ELSE Waiting(navPipe, m)
      BY <2>1, WaitingAppend
    <3>2. Waiting(navPipe, m) \in Nat /\ MsgLimit \in Nat
      BY WaitingType, Bounds
    <3>3. CASE e = m
      BY <2>1, <3>1, <3>2, <3>3
    <3>4. CASE e # m
      BY <3>1, <3>4 DEF WithinLimits
    <3> QED BY <3>3, <3>4
  <2>4. WithinLimits'
    BY <2>3 DEF WithinLimits, Waiting
  <2> QED BY <2>2, <2>4
<1> QED BY <1>1, <1>2

\* Taking the first message keeps the pipe within every limit.
LEMMA TakeKeeps ==
  ASSUME navPipe \in Seq(NavMessages), WithinLimits, navPipe # <<>>, navPipe' = Tail(navPipe)
  PROVE  navPipe' \in Seq(NavMessages) /\ WithinLimits'
<1>1. navPipe' \in Seq(NavMessages)
  OBVIOUS
<1>2. ASSUME NEW m \in NavMessages PROVE Waiting(navPipe', m) <= MsgLimit
  <2>1. Waiting(navPipe', m) <= Waiting(navPipe, m)
    BY WaitingTail
  <2>2. Waiting(navPipe, m) \in Nat /\ Waiting(navPipe', m) \in Nat /\ MsgLimit \in Nat
    BY WaitingType, <1>1, Bounds
  <2>3. Waiting(navPipe, m) <= MsgLimit
    BY DEF WithinLimits
  <2> QED BY <2>1, <2>2, <2>3
<1>3. WithinLimits'
  BY <1>2 DEF WithinLimits, Waiting
<1> QED BY <1>1, <1>3

\* An empty pipe is within every limit.
LEMMA EmptyPipe == ASSUME navPipe = <<>> PROVE WithinLimits
<1>1. SUFFICES ASSUME NEW m \in NavMessages PROVE Waiting(navPipe, m) <= MsgLimit
  BY DEF WithinLimits
<1>2. {i \in DOMAIN navPipe : navPipe[i] = m} = {}
  OBVIOUS
<1> QED BY <1>2, FS_EmptySet, Bounds DEF Waiting

\* What a tick sends is in the table.
LEMMA TableOrder == ASSUME NEW S PROVE InTableOrder(S) \in Seq(Requests)
<1>1. "SEND_HK" \in Requests /\ "WAKEUP" \in Requests
  BY DEF Requests
<1>2. <<"SEND_HK">> \in Seq(Requests) /\ <<"WAKEUP">> \in Seq(Requests)
      /\ <<>> \in Seq(Requests)
  BY <1>1
<1> DEFINE a == IF "SEND_HK" \in S THEN <<"SEND_HK">> ELSE <<>>
           b == IF "WAKEUP" \in S THEN <<"WAKEUP">> ELSE <<>>
<1>3. a \in Seq(Requests) /\ b \in Seq(Requests)
  BY <1>2
<1> HIDE DEF a, b
<1>4. a \o b \in Seq(Requests)
  BY <1>3, ConcatProperties
<1> QED BY <1>4 DEF InTableOrder, a, b

\* The applications start within the invariant.
LEMMA InitInv == Init => IInv
<1> SUFFICES ASSUME Init PROVE IInv
  OBVIOUS
<1>1. WithinLimits
  BY EmptyPipe DEF Init
<1>2. \A m \in Requests : PacketRate(m) \in Nat \ {0}
  BY Bounds DEF PacketRate
<1>3. TypeOK
  <2>1. TimingSem \in 0 .. MaxBehind /\ oneHz \in 0 .. MsgLimit
    BY Bounds DEF Init
  <2>2. DOMAIN Counter = Requests /\ \A m \in Requests : Counter[m] \in 0 .. PacketRate(m) - 1
    BY <1>2 DEF Init
  <2>3. oneHzRcvd \in BOOLEAN /\ navRun \in BOOLEAN /\ rxBound \in BOOLEAN
        /\ bridge \in {"receive", "poll"}
    BY DEF Init
  <2>4. /\ due \in Seq(Requests) /\ navPipe \in Seq(NavMessages)
        /\ bridgePipe \in Seq({"HK"}) /\ rx \in Seq({"cmd", "bad"}) /\ Len(rx) <= RxSize
    BY EmptySeq, Bounds DEF Init
  <2> QED BY <2>1, <2>2, <2>3, <2>4 DEF TypeOK
<1> QED BY <1>1, <1>3 DEF IInv

\* sch_lab: the timer, the 1 Hz packet and the schedule.
LEMMA SchKeeps ==
  ASSUME IInv, LocalTimerCallback \/ OneHzPacket \/ SchLab
  PROVE  IInv'
<1> USE DEF IInv
<1>1. CASE LocalTimerCallback
  <2>1. TypeOK'
    BY <1>1, Bounds DEF LocalTimerCallback, TypeOK, nav, ue5
  <2>2. WithinLimits'
    BY <1>1 DEF LocalTimerCallback, nav, WithinLimits, Waiting
  <2> QED BY <2>1, <2>2
<1>2. CASE OneHzPacket
  <2>1. TypeOK'
    BY <1>2, Bounds DEF OneHzPacket, TypeOK, nav, ue5
  <2>2. WithinLimits'
    BY <1>2 DEF OneHzPacket, nav, WithinLimits, Waiting
  <2> QED BY <2>1, <2>2
<1>3. CASE ProcessTick
  <2>1. UNCHANGED <<navPipe, navRun, bridgePipe, bridge, rx, rxBound>>
    BY <1>3 DEF ProcessTick, nav, ue5
  <2>2. TimingSem' \in 0 .. MaxBehind /\ oneHz' \in 0 .. MsgLimit
    BY SMTT(30), <1>3, Bounds DEF ProcessTick, TypeOK
  <2>3. oneHzRcvd' \in BOOLEAN
    BY <1>3, Zenon DEF ProcessTick, TypeOK
  <2>4. due' \in Seq(Requests)
    BY <1>3, TableOrder DEF ProcessTick
  <2>5. DOMAIN Counter' = Requests
    BY <1>3 DEF ProcessTick
  <2>6. ASSUME NEW m \in Requests PROVE Counter'[m] \in 0 .. PacketRate(m) - 1
    <3> DEFINE ready == {r \in Requests : oneHzRcvd' /\ Counter[r] + 1 >= PacketRate(r)}
    <3>1. Counter'[m] = CASE m \in ready -> 0
                          [] m \notin ready /\ oneHzRcvd' -> Counter[m] + 1
                          [] OTHER -> Counter[m]
      BY <1>3 DEF ProcessTick
    <3>2. Counter[m] \in 0 .. PacketRate(m) - 1 /\ PacketRate(m) \in Nat \ {0}
      BY Bounds DEF TypeOK, PacketRate
    <3>3. CASE m \in ready
      BY <3>1, <3>2, <3>3
    <3>4. CASE m \notin ready /\ oneHzRcvd'
      <4>1. ~ (Counter[m] + 1 >= PacketRate(m))
        BY <3>4
      <4>2. Counter'[m] = Counter[m] + 1
        BY <3>1, <3>4
      <4> QED BY <4>1, <4>2, <3>2
    <3>5. CASE m \notin ready /\ ~ oneHzRcvd'
      BY <3>1, <3>2, <3>5
    <3> QED BY <3>3, <3>4, <3>5
  <2>7. TypeOK'
    BY <2>1, <2>2, <2>3, <2>4, <2>5, <2>6 DEF TypeOK
  <2>8. WithinLimits'
    BY <2>1 DEF WithinLimits, Waiting
  <2> QED BY <2>7, <2>8
<1>4. CASE SendDue
  <2>1. Head(due) \in NavMessages /\ due' \in Seq(Requests)
    BY <1>4, RequestsSent DEF SendDue, TypeOK
  <2>2. navPipe' \in Seq(NavMessages) /\ WithinLimits'
    BY <1>4, <2>1, TransmitKeeps DEF SendDue, TypeOK
  <2>3. TypeOK'
    BY <1>4, <2>1, <2>2 DEF SendDue, TypeOK, ue5
  <2> QED BY <2>2, <2>3
<1> QED BY <1>1, <1>2, <1>3, <1>4 DEF SchLab

\* centurio_nav takes a message, or ends.
LEMMA NavKeeps == ASSUME IInv, NavTask \/ NavExits PROVE IInv'
<1> USE DEF IInv
<1>1. ASSUME NEW m, NavTakes(m)
      PROVE  navPipe' \in Seq(NavMessages) /\ WithinLimits' /\ UNCHANGED <<sch, navRun>>
  BY <1>1, TakeKeeps DEF NavTakes, TypeOK
<1>2. CASE NavWakeup \/ NavCommand
  <2>1. navPipe' \in Seq(NavMessages) /\ WithinLimits' /\ UNCHANGED <<sch, navRun, ue5>>
    BY <1>1, <1>2 DEF NavWakeup, NavCommand
  <2> QED BY <2>1 DEF TypeOK, sch, ue5
<1>3. CASE NavSendHk
  <2>1. /\ navPipe' \in Seq(NavMessages) /\ WithinLimits'
        /\ UNCHANGED <<sch, navRun, bridge, rx, rxBound>>
    BY <1>1, <1>3 DEF NavSendHk
  <2>2. bridgePipe' \in Seq({"HK"})
    BY <1>3 DEF NavSendHk, TypeOK
  <2> QED BY <2>1, <2>2 DEF TypeOK, sch
<1>4. CASE NavExits
  <2>1. WithinLimits'
    <3>1. SUFFICES ASSUME NEW m \in NavMessages PROVE Waiting(navPipe', m) <= MsgLimit
      BY DEF WithinLimits, Waiting
    <3>2. {i \in DOMAIN navPipe' : navPipe'[i] = m} = {}
      BY <1>4 DEF NavExits
    <3> QED BY <3>2, FS_EmptySet, Bounds DEF Waiting
  <2>2. navPipe' \in Seq(NavMessages) /\ navRun' \in BOOLEAN
    BY <1>4, EmptySeq DEF NavExits
  <2>3. UNCHANGED <<sch, ue5>>
    BY <1>4 DEF NavExits
  <2>4. TypeOK'
    BY <2>2, <2>3 DEF TypeOK, sch, ue5
  <2> QED BY <2>1, <2>4
<1> QED BY <1>2, <1>3, <1>4 DEF NavTask

\* ue5_bridge and the plugin.
LEMMA BridgeKeeps ==
  ASSUME IInv, Ue5Bridge \/ \E d \in {"cmd", "bad"} : PluginSends(d)
  PROVE  IInv'
<1> USE DEF IInv
<1>1. CASE ReceiveHk \/ ReceiveTimeout
  <2>1. TypeOK'
    <3>1. bridgePipe' \in Seq({"HK"}) /\ bridge' = "poll"
      <4>1. bridge' = "poll" /\ (bridgePipe' = bridgePipe \/ (bridgePipe # <<>> /\ bridgePipe' = Tail(bridgePipe)))
        BY <1>1 DEF ReceiveHk, ReceiveTimeout
      <4>2. bridgePipe \in Seq({"HK"})
        BY DEF TypeOK
      <4> QED BY <4>1, <4>2, HeadTailProperties
    <3>2. UNCHANGED <<sch, nav, rx, rxBound>>
      BY <1>1 DEF ReceiveHk, ReceiveTimeout
    <3> QED BY <3>1, <3>2 DEF TypeOK, sch, nav
  <2>2. WithinLimits'
    BY <1>1 DEF ReceiveHk, ReceiveTimeout, nav, WithinLimits, Waiting
  <2> QED BY <2>1, <2>2
<1>2. CASE PollRx
  <2>1. navPipe' \in Seq(NavMessages) /\ WithinLimits'
    <3>1. CASE rx # <<>> /\ Head(rx) = "cmd"
      BY <1>2, <3>1, RequestsSent, TransmitKeeps DEF PollRx, TypeOK
    <3>2. CASE ~ (rx # <<>> /\ Head(rx) = "cmd")
      BY <1>2, <3>2 DEF PollRx, TypeOK, WithinLimits, Waiting
    <3> QED BY <3>1, <3>2
  <2>2. rx' \in Seq({"cmd", "bad"}) /\ Len(rx') <= RxSize
    BY <1>2, Bounds DEF PollRx, TypeOK
  <2>3. TypeOK'
    BY <1>2, <2>1, <2>2 DEF PollRx, TypeOK, sch
  <2> QED BY <2>1, <2>3
<1>3. CASE \E d \in {"cmd", "bad"} : PluginSends(d)
  <2> PICK d \in {"cmd", "bad"} : PluginSends(d)
    BY <1>3
  <2>1. rx' \in Seq({"cmd", "bad"}) /\ Len(rx') <= RxSize
    BY Bounds DEF PluginSends, TypeOK
  <2>2. UNCHANGED <<sch, nav, bridgePipe, bridge, rxBound>>
    BY DEF PluginSends
  <2>3. TypeOK'
    BY <2>1, <2>2 DEF TypeOK, sch, nav
  <2>4. WithinLimits'
    BY <2>2 DEF nav, WithinLimits, Waiting
  <2> QED BY <2>3, <2>4
<1> QED BY <1>1, <1>2, <1>3 DEF Ue5Bridge

\* Every step keeps the invariant.
LEMMA InvStep == IInv /\ [Next]_vars => IInv'
<1> SUFFICES ASSUME IInv, [Next]_vars PROVE IInv'
  OBVIOUS
<1>1. CASE Next
  BY <1>1, SchKeeps, NavKeeps, BridgeKeeps DEF Next
<1>2. CASE UNCHANGED vars
  BY <1>2 DEF vars, sch, nav, ue5, IInv, TypeOK, WithinLimits, Waiting
<1> QED BY <1>1, <1>2

\* The invariant holds in every reachable state.
LEMMA InvAlways == Spec => []IInv
BY InitInv, InvStep, PTL DEF Spec

-----------------------------------------------------------------------------
(* The types hold in every behaviour; in particular no counter of the        *)
(* schedule of sch_lab reaches its PacketRate between two ticks.             *)
THEOREM MissionTypeCorrect == Spec => []TypeOK
<1>1. IInv => TypeOK
  BY DEF IInv
<1> QED BY <1>1, InvAlways, PTL

(* A command that ue5_bridge dispatches is refused only because MsgLimit     *)
(* commands wait before it on the pipe of centurio_nav, however many         *)
(* requests a late scheduler sends back to back: were the pipe full, each of *)
(* the three kinds on it would be at its limit.                              *)
THEOREM CommandsAreSpared == Spec => BurstSparesCommands
<1>1. ASSUME IInv, PollRx, rx # <<>>, Head(rx) = "cmd", navRun, navPipe' = navPipe
      PROVE  Waiting(navPipe, "CMD") = MsgLimit
  <2>1. navPipe \in Seq(NavMessages)
    BY <1>1 DEF IInv, TypeOK
  <2>2. Append(navPipe, "CMD") # navPipe
    <3>1. Len(Append(navPipe, "CMD")) = Len(navPipe) + 1 /\ Len(navPipe) \in Nat
      BY <2>1, RequestsSent, AppendProperties
    <3> QED BY <3>1
  <2>3. ~ (Waiting(navPipe, "CMD") < MsgLimit /\ Len(navPipe) < NavDepth)
    BY <1>1, <2>2 DEF PollRx, Transmit
  <2>4. /\ Waiting(navPipe, "WAKEUP") \in Nat /\ Waiting(navPipe, "SEND_HK") \in Nat
        /\ Waiting(navPipe, "CMD") \in Nat
    BY <2>1, WaitingType
  <2>5. /\ Waiting(navPipe, "WAKEUP") <= MsgLimit /\ Waiting(navPipe, "SEND_HK") <= MsgLimit
        /\ Waiting(navPipe, "CMD") <= MsgLimit
    BY <1>1 DEF IInv, WithinLimits, NavMessages, Requests
  <2>6. Len(navPipe) = Waiting(navPipe, "WAKEUP") + Waiting(navPipe, "SEND_HK")
                         + Waiting(navPipe, "CMD")
    BY <2>1, PipeLength
  <2> QED BY <2>3, <2>4, <2>5, <2>6, Bounds
<1>2. IInv /\ [Next]_vars =>
        [(PollRx /\ rx # <<>> /\ Head(rx) = "cmd" /\ navRun /\ navPipe' = navPipe) =>
            Waiting(navPipe, "CMD") = MsgLimit]_vars
  BY <1>1
<1> QED BY <1>2, InvAlways, PTL DEF Spec, BurstSparesCommands
=============================================================================
