-------------------------------- MODULE SDWan --------------------------------
(***************************************************************************)
(* One run of RunSimulation: the sender, the TCP connections and the       *)
(* receiver.  Both applications start at time 0, the sender first; every   *)
(* other event follows (a SYN needs the delay of the channel, and the      *)
(* SendPacket events of time 0 are scheduled by the sender's start, after  *)
(* the receiver's start event was).  A program that aborts takes no step.  *)
(***************************************************************************)
EXTENDS SenderApplication, ReceiverApplication

vars == <<senderVars, receiverVars, sock>>

Init ==
    /\ SenderInit
    /\ ReceiverInit
    /\ sock = [i \in Ifaces |-> NewSocket]

\* Only the connections move.
TcpStep(i) ==
    /\ \/ SynTimeout(i)
       \/ HandshakeCompleted(i)
       \/ SendPendingData(i)
       \/ ReTxTimeout(i)
       \/ NewAck(i)
    /\ UNCHANGED <<senderVars, receiverVars>>

StartSender == SenderStartApplication /\ UNCHANGED receiverVars

StartReceiver ==
    /\ started /\ ~listening
    /\ listening' = TRUE
    /\ UNCHANGED <<receivedPacketInfo, m_totalRx, senderVars, sock>>

ComputeEvent == listening /\ ComputeStrategyAndContinue /\ UNCHANGED receiverVars

SendEvent(i) == listening /\ SendPacket(i) /\ UNCHANGED receiverVars

ConnectEvent(i) == listening /\ ConnectionSucceeded(i) /\ UNCHANGED receiverVars

ReceiveEvent(i) == ReceivedData(i) /\ UNCHANGED senderVars

TcpEvent(i) == listening /\ TcpStep(i)

Next ==
    /\ aborted = "no"
    /\ \/ StartSender
       \/ StartReceiver
       \/ ComputeEvent
       \/ \E i \in Ifaces : \/ SendEvent(i)
                            \/ ConnectEvent(i)
                            \/ ReceiveEvent(i)
                            \/ TcpEvent(i)

Spec == Init /\ [][Next]_vars

(***************************************************************************)
(* ns-3 runs every scheduled event: both starts, the two kinds of loops of *)
(* the sender, the transmission of buffered data and the timers of the     *)
(* sockets.  Nothing is assumed of the network: whether a SYN+ACK, a       *)
(* segment or an acknowledgement ever arrives is left open.                *)
(***************************************************************************)
Alive(A) == aborted = "no" /\ A

TransmitEvent(i) == listening /\ SendPendingData(i) /\ UNCHANGED <<senderVars, receiverVars>>

TimerEvent(i) ==
    /\ listening
    /\ SynTimeout(i) \/ ReTxTimeout(i)
    /\ UNCHANGED <<senderVars, receiverVars>>

Fairness ==
    /\ WF_vars(Alive(StartSender))
    /\ WF_vars(Alive(StartReceiver))
    /\ WF_vars(Alive(ComputeEvent))
    /\ \A i \in Ifaces : /\ WF_vars(Alive(SendEvent(i)))
                         /\ WF_vars(Alive(TransmitEvent(i)))
                         /\ WF_vars(Alive(TimerEvent(i)))

FairSpec == Spec /\ Fairness

-----------------------------------------------------------------------------
LoopsStopped ==
    /\ started /\ ~computeScheduled /\ \A i \in Ifaces : ~sendScheduled[i]

SomeConnectionDead == \E i \in Ifaces : started /\ Dead(sock[i])

\* No event is left: the loops have stopped and no socket has data to transmit
\* or to have acknowledged.
SimulationOver ==
    /\ LoopsStopped
    /\ \A i \in Ifaces : Dead(sock[i]) \/ sock[i].head = Written(sock[i])

-----------------------------------------------------------------------------
(* Invariants *)

\* The type of every variable (type invariant of the module).
TypeOK ==
    /\ strategyType \in StrategyChoices
    /\ sinValues \in SinWorkloads
    /\ started \in BOOLEAN
    /\ app \in [Apps -> AppState]
    /\ iface \in [Ifaces -> IfaceState]
    /\ sock \in [Ifaces -> SockState]
    /\ m_totBytes \in Nat
    /\ computeScheduled \in BOOLEAN
    /\ sendScheduled \in [Ifaces -> BOOLEAN]
    /\ now \in Nat
    /\ strategyData \in [totalCost : Nat, totalAmountOfPackets : Nat]
    /\ hasBeenComputed \in BOOLEAN
    /\ reports \in Nat
    /\ aborted \in {"no", "infeasible", "send"}
    /\ listening \in BOOLEAN
    /\ receivedPacketInfo \in [Ifaces -> Seq(Apps)]
    /\ m_totalRx \in Nat

\* A loop of the sender ends only when there is nothing left to do: once a send
\* loop or the compute loop is not scheduled any more, every application has
\* stopped and every queue is empty, so no packet waits for a loop that is gone
\* (SenderApplication::SendPacket and ComputeStrategyAndContinue return without
\* scheduling themselves).
NoStrandedPackets ==
    (started /\ aborted = "no")
        => \/ computeScheduled /\ \A i \in Ifaces : sendScheduled[i]
           \/ AllDataHasBeenSent

\* Every packet an application generated is in the application's queue, in the
\* queue of one interface, in the stream of one socket or dropped as corrupt:
\* neither Compute nor SendData loses or duplicates a packet, whatever the
\* strategy and however the events interleave.
PacketConservation ==
    aborted # "send" =>
        Total([a \in Apps |-> app[a].generatedPackets])
          = Total([a \in Apps |-> app[a].pendingpackets])
            + Total([i \in Ifaces |-> Len(iface[i].pendingpackets)
                                        + Len(sock[i].data)
                                        + iface[i].corruptPackages])

\* The csv of a strategy is written once, by the last Compute, and its last row
\* accounts for every packet that was generated; LINEAR never writes one.
ReportIsComplete ==
    (started /\ aborted = "no" /\ ~computeScheduled)
        => IF strategyType = "LINEAR" THEN reports = 0
           ELSE /\ reports = 1
                /\ strategyData.totalAmountOfPackets
                     = Total([a \in Apps |-> app[a].generatedPackets])

\* What an application generates over a whole simulation: generateValues makes one
\* sample more than the simulation has seconds, and a SinApplication never sends
\* that last one, while the static application that LINEAR puts in its place
\* sends it too (SinApplication::getTotalData adds up all samples).
GeneratedTraffic ==
    \A a \in Apps :
        app[a].allPacketsGenerated =>
            app[a].generatedPackets
              = Total(sinValues[a]) - IF strategyType = "LINEAR" THEN 0
                                      ELSE sinValues[a][SimulationDurationInSeconds]

\* How many packets of application a the sink has recorded.
ReceivedPackets(a) ==
    Total([i \in Ifaces |->
              Cardinality({k \in DOMAIN receivedPacketInfo[i] :
                              receivedPacketInfo[i][k] = a})])

\* When the event list is empty and no connection failed, what is missing at the
\* sink is exactly what the error models dropped at the sender: losses of the
\* network do not show up in the reported error rates.
LossIsCorruption ==
    (SimulationOver /\ ~SomeConnectionDead)
        => Total([a \in Apps |-> app[a].generatedPackets])
             = Total([a \in Apps |-> ReceivedPackets(a)])
               + Total([i \in Ifaces |-> iface[i].corruptPackages])

\* The byte stream is cut where it was glued: whatever the segment boundaries,
\* the k-th packet HandleRead takes from a connection is attributed to the
\* application of the k-th packet SendData wrote to it.
ReceivedInOrder ==
    \A i \in Ifaces :
        /\ Len(receivedPacketInfo[i]) <= Len(sock[i].data)
        /\ \A k \in 1..Len(receivedPacketInfo[i]) :
              receivedPacketInfo[i][k] = sock[i].data[k]

\* After every callback less than one packet is left unread, so a packet never
\* waits for a callback that will not come.
NoWholePacketUnread ==
    \A i \in Ifaces :
        /\ GetRxAvailable(sock[i]) \in 0..(PacketSizeByte - 1)
        /\ sock[i].rxHead = PacketSizeByte * Len(receivedPacketInfo[i])

\* The marks of a stream are ordered and its unacknowledged part fits the TX
\* buffer: the check of GetTxAvailable in SendData keeps Send from failing for
\* lack of room.
TcpWindows ==
    \A i \in Ifaces :
        LET s == sock[i]
        IN /\ s.head <= s.nextRx /\ s.rxHead <= s.nextRx
           /\ s.nextRx <= s.highTxMark /\ s.highTxMark <= Written(s)
           /\ GetTxAvailable(s) \in 0..SndBufSize

\* The fatal error of SendData is reached only through a connection that was
\* never established: a full buffer or a lost established connection does not
\* cause it.
FatalSendOnlyIfClosed ==
    aborted = "send" => \E i \in Ifaces : sock[i].m_state = "CLOSED"

-----------------------------------------------------------------------------
(* Action properties *)

\* Once getAllDataHasBeenSent holds it holds for ever: no event generates or
\* queues a packet behind a loop that has already stopped.
AllSentIsStable == [][(started /\ AllDataHasBeenSent) => AllDataHasBeenSent']_vars

\* A connection whose retries are used up transmits nothing any more, although
\* Send still accepts packets for it.
DeadConnectionIsSilent ==
    [][\A i \in Ifaces :
          (started /\ Dead(sock[i])) => /\ Dead(sock'[i])
                                        /\ sock'[i].highTxMark = sock[i].highTxMark
                                        /\ sock'[i].head = sock[i].head]_vars

-----------------------------------------------------------------------------
(* Refinement *)

\* The overlay implements one FIFO channel per interface.
Delivery == INSTANCE DeliveryService
                WITH Interface <- Ifaces, Flow <- Apps,
                     written   <- [i \in Ifaces |-> sock[i].data],
                     recorded  <- receivedPacketInfo

DeliverySpec == Delivery!Spec

-----------------------------------------------------------------------------
(* Liveness, under FairSpec *)

\* Without a failed connection and without an abort, all loops stop and the sink
\* has recorded every packet that was not corrupted.
EverythingIsDelivered ==
    <>(\/ aborted # "no"
       \/ SomeConnectionDead
       \/ LoopsStopped /\ \A i \in Ifaces : receivedPacketInfo[i] = sock[i].data)

-----------------------------------------------------------------------------
(* What the documents say, where the code does something else *)

\* implementation.tex: the simulation will stop when all the packets will have
\* been sent.
SimulationStops == <>(aborted # "no" \/ LoopsStopped)
=============================================================================
