----------------------------- MODULE MissionApps -----------------------------
(***************************************************************************)
(* The mission applications around centurio_nav, composed over the         *)
(* Software Bus: sch_lab turns timer ticks into wake-up and housekeeping   *)
(* requests, ue5_bridge turns JSON datagrams of the UE5 plugin into        *)
(* commands and mirrors the housekeeping packets to it, and centurio_nav   *)
(* handles what arrives on its pipe (its control loop is module            *)
(* CenturioNav; here a message is only taken and counted).                 *)
(*                                                                         *)
(* The bus is reduced to what a sender sees of CFE_SB_TransmitMsg: the     *)
(* message is appended to the subscriber's pipe unless as many messages of *)
(* its kind as the subscription allows are waiting, or the pipe is full.   *)
(* Messages carry no contents; a datagram is a well-formed command ("cmd") *)
(* or one that dispatch_cmd_json refuses ("bad").                          *)
(***************************************************************************)
EXTENDS Integers, FiniteSets, Sequences

CONSTANTS
    WakeRate,     \* PacketRate of CENTURIO_NAV_WAKEUP_MID in the schedule table
    HkRate,       \* PacketRate of CENTURIO_NAV_SEND_HK_MID
    MsgLimit,     \* CFE_PLATFORM_SB_DEFAULT_MSG_LIMIT
    NavDepth,     \* CENTURIO_NAV_PIPE_DEPTH
    BridgeDepth,  \* UE5_BRIDGE_PIPE_DEPTH
    RxSize,       \* datagrams the receive socket holds
    MaxBehind     \* bound: ticks the scheduler may be behind

ASSUME MissionAssumption ==
    /\ {WakeRate, HkRate, MsgLimit, NavDepth, BridgeDepth, RxSize, MaxBehind} \subseteq Nat \ {0}
    /\ NavDepth >= 3 * MsgLimit    \* the three subscriptions of centurio_nav

VARIABLES
    TimingSem,        \* counting semaphore of sch_lab
    oneHz,            \* 1 Hz packets of TIME on the pipe of sch_lab
    oneHzRcvd,        \* SCH_OneHzPktsRcvd > 0
    Counter,          \* [request -> ticks since sch_lab last sent it]
    due,              \* requests that sch_lab still sends in this tick
    navPipe, navRun,  \* pipe of centurio_nav; its main loop goes on
    bridgePipe,       \* housekeeping packets on the pipe of ue5_bridge
    bridge,           \* ue5_bridge: before the "receive" or before PollRx
    rx, rxBound       \* the receive socket of ue5_bridge; its port is bound

sch == <<TimingSem, oneHz, oneHzRcvd, Counter, due>>
nav == <<navPipe, navRun>>
ue5 == <<bridgePipe, bridge, rx, rxBound>>
vars == <<sch, nav, ue5>>

Requests == {"SEND_HK", "WAKEUP"}
NavMessages == Requests \cup {"CMD"}

PacketRate(m) == IF m = "WAKEUP" THEN WakeRate ELSE HkRate

Waiting(pipe, m) == Cardinality({i \in DOMAIN pipe : pipe[i] = m})

(* CFE_SB_TransmitMsg to centurio_nav.  Mutant: the subscription has no limit. *)
MutTransmit(m) ==
    navPipe' = IF navRun /\ Len(navPipe) < NavDepth THEN Append(navPipe, m) ELSE navPipe

Transmit(m) ==
    navPipe' = IF navRun /\ Waiting(navPipe, m) < MsgLimit /\ Len(navPipe) < NavDepth
               THEN Append(navPipe, m) ELSE navPipe

(***************************************************************************)
(* sch_lab.                                                                *)
(***************************************************************************)
(* SCH_LAB_LocalTimerCallback. *)
LocalTimerCallback ==
    /\ TimingSem < MaxBehind
    /\ TimingSem' = TimingSem + 1
    /\ UNCHANGED <<oneHz, oneHzRcvd, Counter, due, nav, ue5>>

(* TIME sends its 1 Hz packet. *)
OneHzPacket ==
    /\ oneHz < MsgLimit
    /\ oneHz' = oneHz + 1
    /\ UNCHANGED <<TimingSem, oneHzRcvd, Counter, due, nav, ue5>>

(* The table has housekeeping first. *)
InTableOrder(S) ==
    (IF "SEND_HK" \in S THEN <<"SEND_HK">> ELSE <<>>)
      \o (IF "WAKEUP" \in S THEN <<"WAKEUP">> ELSE <<>>)

(* A tick: one 1 Hz packet is taken if there is one, and once there was one  *)
(* every entry of the table counts.                                          *)
(* Mutant: an entry that was sent is not reset.                              *)
MutProcessTick ==
    /\ due = <<>> /\ TimingSem > 0 /\ TimingSem' = TimingSem - 1
    /\ oneHz' = IF oneHz > 0 THEN oneHz - 1 ELSE 0
    /\ oneHzRcvd' = (oneHzRcvd \/ oneHz > 0)
    /\ LET ready == {m \in Requests : oneHzRcvd' /\ Counter[m] + 1 >= PacketRate(m)}
       IN  /\ Counter' = [m \in Requests |-> IF oneHzRcvd' THEN Counter[m] + 1 ELSE Counter[m]]
           /\ due' = InTableOrder(ready)
    /\ UNCHANGED <<nav, ue5>>

ProcessTick ==
    /\ due = <<>> /\ TimingSem > 0 /\ TimingSem' = TimingSem - 1
    /\ oneHz' = IF oneHz > 0 THEN oneHz - 1 ELSE 0
    /\ oneHzRcvd' = (oneHzRcvd \/ oneHz > 0)
    /\ LET ready == {m \in Requests : oneHzRcvd' /\ Counter[m] + 1 >= PacketRate(m)}
       IN  /\ Counter' = [m \in Requests |->
                            CASE m \in ready -> 0
                              [] m \notin ready /\ oneHzRcvd' -> Counter[m] + 1
                              [] OTHER -> Counter[m]]
           /\ due' = InTableOrder(ready)
    /\ UNCHANGED <<nav, ue5>>

SendDue ==
    /\ due # <<>> /\ due' = Tail(due)
    /\ Transmit(Head(due))
    /\ UNCHANGED <<TimingSem, oneHz, oneHzRcvd, Counter, navRun, ue5>>

(***************************************************************************)
(* centurio_nav, as the bus sees it.                                       *)
(***************************************************************************)
NavTakes(m) ==
    /\ navRun /\ navPipe # <<>> /\ Head(navPipe) = m
    /\ navPipe' = Tail(navPipe)
    /\ UNCHANGED <<sch, navRun>>

NavWakeup == NavTakes("WAKEUP") /\ UNCHANGED ue5

(* CENTURIO_NAV_ReportHousekeeping publishes the packet. *)
NavSendHk ==
    /\ NavTakes("SEND_HK")
    /\ bridgePipe' = IF Len(bridgePipe) < MsgLimit /\ Len(bridgePipe) < BridgeDepth
                     THEN Append(bridgePipe, "HK") ELSE bridgePipe
    /\ UNCHANGED <<bridge, rx, rxBound>>

NavCommand == NavTakes("CMD") /\ UNCHANGED ue5

(* A read error ends the application; ES then deletes its pipe. *)
NavExits ==
    /\ navRun /\ navRun' = FALSE
    /\ navPipe' = <<>>
    /\ UNCHANGED <<sch, ue5>>

(***************************************************************************)
(* ue5_bridge and the plugin.                                              *)
(***************************************************************************)
(* The plugin sends a datagram; the socket drops what it cannot hold.        *)
PluginSends(d) ==
    /\ rxBound /\ Len(rx) < RxSize
    /\ rx' = Append(rx, d)
    /\ UNCHANGED <<sch, nav, bridgePipe, bridge, rxBound>>

(* CFE_SB_ReceiveBuffer: a packet, which is sent to the plugin as JSON ...   *)
ReceiveHk ==
    /\ bridge = "receive" /\ bridgePipe # <<>>
    /\ bridgePipe' = Tail(bridgePipe)
    /\ bridge' = "poll"
    /\ UNCHANGED <<sch, nav, rx, rxBound>>

(* ... or a time-out after 100 ms.  Mutant: the wait has no end.          *)
MutReceiveTimeout == FALSE /\ UNCHANGED vars

ReceiveTimeout ==
    /\ bridge = "receive" /\ bridgePipe = <<>>
    /\ bridge' = "poll"
    /\ UNCHANGED <<sch, nav, bridgePipe, rx, rxBound>>

(* UE5_BRIDGE_PollRx: at most one datagram, which is dispatched as a command. *)
PollRx ==
    /\ bridge = "poll" /\ bridge' = "receive"
    /\ rx' = IF rx = <<>> THEN rx ELSE Tail(rx)
    /\ IF rx # <<>> /\ Head(rx) = "cmd" THEN Transmit("CMD") ELSE UNCHANGED navPipe
    /\ UNCHANGED <<sch, navRun, bridgePipe, rxBound>>

-----------------------------------------------------------------------------
(* The three applications after their initialisation.  ue5_bridge goes on    *)
(* when it cannot bind its port, and then never receives a datagram.         *)
Init ==
    /\ TimingSem = 0 /\ oneHz = 0 /\ oneHzRcvd = FALSE
    /\ Counter = [m \in Requests |-> 0] /\ due = <<>>
    /\ navPipe = <<>> /\ navRun = TRUE
    /\ bridgePipe = <<>> /\ bridge = "receive"
    /\ rx = <<>> /\ rxBound \in BOOLEAN

SchLab == ProcessTick \/ SendDue
NavTask == NavWakeup \/ NavSendHk \/ NavCommand
Ue5Bridge == ReceiveHk \/ ReceiveTimeout \/ PollRx

Next ==
    \/ LocalTimerCallback \/ OneHzPacket \/ SchLab
    \/ NavTask \/ NavExits
    \/ Ue5Bridge \/ \E d \in {"cmd", "bad"} : PluginSends(d)

Spec == Init /\ [][Next]_vars

(* The tasks of the applications are scheduled.  Nothing is assumed of the   *)
(* timer, of TIME or of the plugin.                                          *)
FairSpec == Spec /\ WF_vars(SchLab) /\ WF_vars(NavTask) /\ WF_vars(Ue5Bridge)
-----------------------------------------------------------------------------
(***************************************************************************)
(* Properties.                                                             *)
(***************************************************************************)
(* Types: no counter of the schedule reaches its rate between two ticks. *)
TypeOK ==
    /\ TimingSem \in 0 .. MaxBehind /\ oneHz \in 0 .. MsgLimit /\ oneHzRcvd \in BOOLEAN
    /\ DOMAIN Counter = Requests
    /\ \A m \in Requests : Counter[m] \in 0 .. PacketRate(m) - 1
    /\ due \in Seq(Requests)
    /\ navPipe \in Seq(NavMessages) /\ navRun \in BOOLEAN
    /\ bridgePipe \in Seq({"HK"}) /\ bridge \in {"receive", "poll"}
    /\ rx \in Seq({"cmd", "bad"}) /\ Len(rx) <= RxSize /\ rxBound \in BOOLEAN

(* However far the scheduler is behind and however many wake-ups it then     *)
(* sends back to back, they never crowd out a command: a command that        *)
(* ue5_bridge dispatches is refused only because MsgLimit commands wait on   *)
(* the pipe of centurio_nav before it.                                       *)
BurstSparesCommands ==
    [][(PollRx /\ rx # <<>> /\ Head(rx) = "cmd" /\ navRun /\ navPipe' = navPipe) =>
         Waiting(navPipe, "CMD") = MsgLimit]_vars

(* As long as centurio_nav runs, a plugin whose commands keep reaching the   *)
(* socket gets commands through to it, whether or not there is telemetry to  *)
(* mirror and whatever else is sent to the vehicle.                          *)
CommandsGetThrough ==
    ([]navRun /\ []<>(rx # <<>> /\ Head(rx) = "cmd")) => []<><<NavCommand>>_vars
=============================================================================
