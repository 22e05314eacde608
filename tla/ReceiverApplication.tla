------------------------- MODULE ReceiverApplication -------------------------
(***************************************************************************)
(* The sink: it listens on every interface and records, for every packet   *)
(* it reads, the interface and the application it came from.  The list     *)
(* receivedPacketInfo is kept per interface: main.cpp sorts it, so the     *)
(* order between interfaces is not observable.                             *)
(***************************************************************************)
EXTENDS TcpSockets

VARIABLES
    listening,           \* StartApplication of the receiver has run
    receivedPacketInfo,  \* [Ifaces -> Seq(Apps)]
    m_totalRx            \* bytes read

receiverVars == <<listening, receivedPacketInfo, m_totalRx>>

ReceiverInit ==
    /\ listening = FALSE
    /\ receivedPacketInfo = [i \in Ifaces |-> << >>]
    /\ m_totalRx = 0

\* Faulty variant: the tag of the first packet of the stream.
FlowIdTagOfFirst(s, offset) == s.data[1]

\* The FlowIdTag of the byte at an offset of the stream: every byte of a
\* packet carries the tag of the packet Send was given.
FlowIdTag(s, offset) == s.data[(offset \div PacketSizeByte) + 1]

\* Faulty variant: at most one packet per callback.
PacketsToReadOnce(s) == IF GetRxAvailable(s) >= PacketSizeByte THEN 1 ELSE 0

\* The packets one call of HandleRead takes out of the RX buffer of s.
PacketsToRead(s) == GetRxAvailable(s) \div PacketSizeByte

\* Each packet is attributed to the tag of its first byte.
FlowsRead(s) ==
    [k \in 1..PacketsToRead(s) |-> FlowIdTag(s, s.rxHead + (k - 1) * PacketSizeByte)]

\* Faulty variant: the bytes are read but not taken out of the RX buffer.
AfterReadPeeked(s) == s

AfterRead(s) == [s EXCEPT !.rxHead = @ + PacketsToRead(s) * PacketSizeByte]

\* HandleRead of a socket s: as long as the bytes of a whole packet are there,
\* read exactly that many and record the packet.
HandleRead(i, s) ==
    /\ sock' = [sock EXCEPT ![i] = AfterRead(s)]
    /\ receivedPacketInfo' = [receivedPacketInfo EXCEPT ![i] = @ \o FlowsRead(s)]
    /\ m_totalRx' = m_totalRx + PacketsToRead(s) * PacketSizeByte

\* ReceivedData: bytes that continue the stream arrive and the receive
\* callback, HandleRead, runs at once.
ReceivedData(i) ==
    /\ listening
    /\ \E next \in (sock[i].nextRx + 1)..sock[i].highTxMark :
          HandleRead(i, [sock[i] EXCEPT !.nextRx = next])
    /\ UNCHANGED listening
=============================================================================
