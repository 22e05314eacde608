-------------------------- MODULE SenderApplication --------------------------
(***************************************************************************)
(* The CPE: the applications, the strategy and one send loop per           *)
(* interface, all driven by events of the ns-3 scheduler.  An event that   *)
(* is scheduled may run at any time here; ns-3 runs it after a fixed       *)
(* delay, so every schedule of the simulator is one of these               *)
(* interleavings.                                                          *)
(***************************************************************************)
EXTENDS TcpSockets

CONSTANTS
    SinWorkloads,  \* the traffic the run may be given: sinValues of every application
    MaxNow         \* bound of the model: the clock stops there

ASSUME SenderAssumption ==
    /\ SinWorkloads \subseteq [Apps -> SinValues]
    /\ MaxNow \in Nat

VARIABLES
    strategyType,      \* the StrategyTypes value of the run
    sinValues,         \* the samples of every application
    started,           \* StartApplication of the sender has run
    app,               \* [Apps -> AppState]
    iface,             \* [Ifaces -> IfaceState]
    m_totBytes,        \* bytes handed to the sockets
    computeScheduled,  \* a ComputeStrategyAndContinue event is scheduled
    sendScheduled,     \* [Ifaces -> BOOLEAN]: a SendPacket event is scheduled
    now,               \* the second of the last ComputeStrategyAndContinue
    strategyData,      \* the totals of the last StrategyDataPoint
    hasBeenComputed,   \* of LinearStrategy
    reports,           \* how many times the csv of the strategy was written
    aborted            \* why the program died, or "no"

senderVars == <<strategyType, sinValues, started, app, iface, m_totBytes, computeScheduled,
                sendScheduled, now, strategyData, hasBeenComputed, reports, aborted>>

SenderInit ==
    /\ strategyType \in StrategyChoices
    /\ sinValues \in SinWorkloads
    /\ started = FALSE
    /\ app = [a \in Apps |-> NewApplication]
    /\ iface = [i \in Ifaces |-> [pendingpackets  |-> << >>,
                                  correctPackages |-> 0,
                                  corruptPackages |-> 0,
                                  connected       |-> FALSE]]
    /\ m_totBytes = 0
    /\ computeScheduled = FALSE
    /\ sendScheduled = [i \in Ifaces |-> FALSE]
    /\ now = 0
    /\ strategyData = [totalCost |-> 0, totalAmountOfPackets |-> 0]
    /\ hasBeenComputed = FALSE
    /\ reports = 0
    /\ aborted = "no"

\* main.cpp uses SDWanStaticApplications for LINEAR and SinApplications otherwise.
Static == strategyType = "LINEAR"

\* Faulty variant: samples that are still to come are forgotten.
QueuesAreEmpty(apps, interfaces) ==
    /\ \A a \in Apps : apps[a].pendingpackets = 0
    /\ \A i \in Ifaces : ~getHasAnyAvailablePackage(interfaces[i])

getAllDataHasBeenSent(apps, interfaces) ==
    /\ \A a \in Apps : getHasStoppedGeneratingData(apps[a])
    /\ \A i \in Ifaces : ~getHasAnyAvailablePackage(interfaces[i])

AllDataHasBeenSent == getAllDataHasBeenSent(app, iface)

-----------------------------------------------------------------------------
(* Strategy::Compute at time t (in seconds), with the applications in the  *)
(* state apps.                                                             *)

ComputeNothing(apps) ==
    /\ strategyType = "LINEAR" /\ hasBeenComputed
    /\ app' = apps
    /\ UNCHANGED <<iface, strategyData, hasBeenComputed, reports, aborted>>

\* Faulty variants: the csv is decided on the state before this Compute, and the
\* totals are those of this Compute only.
AddDataPointEarly(pending, x) ==
    /\ strategyData' = [totalCost            |-> strategyData.totalCost + CostOf(x),
                        totalAmountOfPackets |-> strategyData.totalAmountOfPackets
                                                   + Total(pending)]
    /\ reports' = IF AllDataHasBeenSent THEN reports + 1 ELSE reports

\* A new data point with the totals up to this Compute, and the csv once all
\* data has been sent; LINEAR does neither.
AddDataPoint(pending, x) ==
    IF strategyType = "LINEAR"
    THEN UNCHANGED <<strategyData, reports>>
    ELSE /\ strategyData' = [totalCost            |-> strategyData.totalCost + CostOf(x),
                             totalAmountOfPackets |-> strategyData.totalAmountOfPackets
                                                        + Total(pending)]
         /\ reports' = IF getAllDataHasBeenSent(app', iface') THEN reports + 1 ELSE reports

Compute(apps, t) ==
    LET pending  == [a \in Apps |-> apps[a].pendingpackets]
        required == [a \in Apps |-> getRequiredPacketRate(sinValues[a])]
        plans    == ComputePlans(strategyType, pending, required, iface, 1000 * t)
    IN /\ ~(strategyType = "LINEAR" /\ hasBeenComputed)
       /\ \/ \E x \in plans :
               /\ app' = [a \in Apps |->
                            [apps[a] EXCEPT
                               !.pendingpackets = Remaining(strategyType, pending, x, a)]]
               /\ iface' = [i \in Ifaces |->
                              [iface[i] EXCEPT !.pendingpackets = @ \o PacketsFor(x, i)]]
               /\ AddDataPoint(pending, x)
               /\ hasBeenComputed' = (strategyType = "LINEAR")
               /\ UNCHANGED aborted
          \/ /\ plans = {}     \* an exception that nothing catches
             /\ aborted' = "infeasible"
             /\ app' = apps
             /\ UNCHANGED <<iface, strategyData, hasBeenComputed, reports>>

\* With the applications in the state apps: update them, compute, and come back
\* in a second unless everything has been sent.
ComputeAndContinue(apps, t) ==
    LET updated == [a \in Apps |-> Update(Static, apps[a], sinValues[a])]
    IN /\ ComputeNothing(updated) \/ Compute(updated, t)
       /\ computeScheduled' = (aborted' = "no" /\ ~getAllDataHasBeenSent(app', iface'))
       /\ now' = t

\* StartApplication: connect the sockets, start the applications, schedule the
\* send loops and compute for the first time, all in the event at time 0.
SenderStartApplication ==
    /\ ~started
    /\ started' = TRUE
    /\ sock' = [i \in Ifaces |-> Connected]
    /\ sendScheduled' = [i \in Ifaces |-> TRUE]
    /\ ComputeAndContinue(
          [a \in Apps |-> OnApplicationStart(Static, app[a], sinValues[a])], 0)
    /\ UNCHANGED <<strategyType, sinValues, m_totBytes>>

ComputeStrategyAndContinue ==
    /\ computeScheduled
    /\ ComputeAndContinue(app, IF now < MaxNow THEN now + 1 ELSE now)
    /\ UNCHANGED <<strategyType, sinValues, started, m_totBytes, sendScheduled, sock>>

-----------------------------------------------------------------------------
(* SendPacket of interface i. *)

\* Faulty variant: the loop of an interface ends when its own queue is empty.
SendLoopEndsWhenIdle(i) ==
    /\ ~getHasAnyAvailablePackage(iface[i])
    /\ sendScheduled' = [sendScheduled EXCEPT ![i] = FALSE]
    /\ UNCHANGED <<iface, m_totBytes, aborted, sock>>

SendLoopEnds(i) ==
    /\ AllDataHasBeenSent
    /\ sendScheduled' = [sendScheduled EXCEPT ![i] = FALSE]
    /\ UNCHANGED <<iface, m_totBytes, aborted, sock>>

\* Faulty variant: SendData returns without scheduling the next attempt.
SendNever(i) ==
    /\ \/ ~getHasAnyAvailablePackage(iface[i])
       \/ GetTxAvailable(sock[i]) < PacketSizeByte
    /\ sendScheduled' = [sendScheduled EXCEPT ![i] = FALSE]
    /\ UNCHANGED <<iface, m_totBytes, aborted, sock>>

\* Nothing to send, or no room in the TX buffer: try again later.
SendLater(i) ==
    /\ \/ ~getHasAnyAvailablePackage(iface[i])
       \/ GetTxAvailable(sock[i]) < PacketSizeByte
    /\ UNCHANGED <<iface, m_totBytes, aborted, sock, sendScheduled>>

\* Faulty variant: no check of the room in the TX buffer.
PoppableUnchecked(i) == getHasAnyAvailablePackage(iface[i])

Poppable(i) ==
    /\ getHasAnyAvailablePackage(iface[i])
    /\ GetTxAvailable(sock[i]) >= PacketSizeByte

\* Faulty variants: the corrupted packet is not counted, or not popped.
SendCorruptUncounted(i) ==
    /\ Poppable(i)
    /\ InterfaceErrorRate[i] > 0
    /\ iface' = [iface EXCEPT ![i].pendingpackets = Tail(@)]
    /\ UNCHANGED <<m_totBytes, aborted, sock, sendScheduled>>

\* The error model corrupts the packet, which is then not sent.
SendCorrupt(i) ==
    /\ Poppable(i)
    /\ InterfaceErrorRate[i] > 0
    /\ iface' = [iface EXCEPT ![i].pendingpackets = Tail(@),
                              ![i].corruptPackages = @ + 1]
    /\ UNCHANGED <<m_totBytes, aborted, sock, sendScheduled>>

\* The packet goes to the socket; anything but PacketSizeByte as the return
\* value is fatal.
SendCorrect(i) ==
    /\ Poppable(i)
    /\ InterfaceErrorRate[i] < 100
    /\ IF SendAccepts(sock[i])
       THEN /\ sock' = [sock EXCEPT ![i] = Send(@, Head(iface[i].pendingpackets))]
            /\ iface' = [iface EXCEPT ![i].pendingpackets = Tail(@),
                                      ![i].correctPackages = @ + 1]
            /\ m_totBytes' = m_totBytes + PacketSizeByte
            /\ UNCHANGED aborted
       ELSE /\ aborted' = "send"
            /\ iface' = [iface EXCEPT ![i].pendingpackets = Tail(@)]
            /\ UNCHANGED <<sock, m_totBytes>>
    /\ UNCHANGED sendScheduled

SendData(i) == SendLater(i) \/ SendCorrupt(i) \/ SendCorrect(i)

SendPacket(i) ==
    /\ sendScheduled[i]
    /\ SendLoopEnds(i) \/ (~AllDataHasBeenSent /\ SendData(i))
    /\ UNCHANGED <<strategyType, sinValues, started, app, computeScheduled, now, strategyData,
                   hasBeenComputed, reports>>

\* The connect callback, an event of its own after the handshake.  Nothing
\* reads the flag.
ConnectionSucceeded(i) ==
    /\ sock[i].m_state = "ESTABLISHED" /\ ~iface[i].connected
    /\ iface' = [iface EXCEPT ![i].connected = TRUE]
    /\ UNCHANGED <<strategyType, sinValues, started, app, m_totBytes, computeScheduled, sendScheduled,
                   now, strategyData, hasBeenComputed, reports, aborted, sock>>
=============================================================================
