----------------------------- MODULE TcpSockets -----------------------------
(***************************************************************************)
(* The TCP connections of ns-3 the program sends through, one per          *)
(* interface: the sender's TcpSocketBase, the network and the receiver's   *)
(* forked socket.  Bytes are counted from the start of the stream:         *)
(*                                                                         *)
(*     rxHead <= nextRx <= highTxMark <= bytes written by Send             *)
(*     head   <= nextRx                                                    *)
(*                                                                         *)
(* where bytes up to head are acknowledged (and out of the TX buffer), up  *)
(* to highTxMark transmitted at least once, up to nextRx received in order *)
(* and up to rxHead read by the receiving application.  A lost or          *)
(* reordered segment is one that does not advance nextRx; congestion       *)
(* control, pacing and the segment size only decide how many bytes a step  *)
(* moves, which is any number here.                                        *)
(***************************************************************************)
EXTENDS Strategies

CONSTANTS
    SynRetries,    \* m_synRetries, attribute ConnCount
    DataRetries,   \* m_dataRetries, attribute DataRetries
    SndBufSize     \* maximum size of the TX buffer, in bytes

ASSUME TcpAssumption ==
    /\ SynRetries \in Nat \ {0}
    /\ DataRetries \in Nat
    /\ SndBufSize \in Nat

VARIABLE sock      \* sock[i]: the connection of interface i

SockState == [m_state         : {"CLOSED", "SYN_SENT", "ESTABLISHED"},
              endPoint        : BOOLEAN,   \* m_endPoint # nullptr
              m_synCount      : Nat,
              m_dataRetrCount : Nat,
              data            : Seq(Apps), \* FlowIdTag of each packet written
              highTxMark      : Nat,
              head            : Nat,
              nextRx          : Nat,
              rxHead          : Nat]

\* A socket that has carried nothing.
EmptySocket(m_state, endPoint, m_synCount, m_dataRetrCount) ==
    [m_state         |-> m_state,
     endPoint        |-> endPoint,
     m_synCount      |-> m_synCount,
     m_dataRetrCount |-> m_dataRetrCount,
     data            |-> << >>,
     highTxMark      |-> 0,
     head            |-> 0,
     nextRx          |-> 0,
     rxHead          |-> 0]

NewSocket == EmptySocket("CLOSED", FALSE, 0, 0)

\* Bytes that Send has put into the TX buffer since the start.
Written(s) == PacketSizeByte * Len(s.data)

GetTxAvailable(s) == SndBufSize - (Written(s) - s.head)

GetRxAvailable(s) == s.nextRx - s.rxHead

\* Connect: the first SYN leaves at once and takes one of the retries.
Connected == EmptySocket("SYN_SENT", TRUE, SynRetries - 1, DataRetries)

\* Send accepts a packet in SYN_SENT and ESTABLISHED when it fits; in every
\* other case it returns -1.
SendAccepts(s) ==
    /\ s.m_state \in {"SYN_SENT", "ESTABLISHED"}
    /\ PacketSizeByte <= GetTxAvailable(s)

Send(s, flow) == [s EXCEPT !.data = Append(@, flow)]

-----------------------------------------------------------------------------
(* Steps of the protocol: what a timer or an arriving segment does. *)

\* Faulty variant: the retries are not checked before they are decremented.
SynTimeoutUnchecked(i) ==
    /\ sock[i].m_state = "SYN_SENT"
    /\ sock' = [sock EXCEPT ![i].m_synCount = @ - 1]

\* The retransmission timer of the SYN: the last one closes the socket and
\* calls ConnectionFailed, which only logs.
SynTimeout(i) ==
    /\ sock[i].m_state = "SYN_SENT"
    /\ \/ /\ sock[i].m_synCount > 0
          /\ sock' = [sock EXCEPT ![i].m_synCount = @ - 1]
       \/ /\ sock[i].m_synCount = 0
          /\ sock' = [sock EXCEPT ![i] =
                         [@ EXCEPT !.m_state = "CLOSED", !.endPoint = FALSE]]

\* The SYN+ACK arrives.
HandshakeCompleted(i) ==
    /\ sock[i].m_state = "SYN_SENT"
    /\ sock' = [sock EXCEPT ![i].m_state = "ESTABLISHED"]

\* Faulty variant: the end point is not checked.
SendPendingDataWithoutEndPoint(i) ==
    /\ sock[i].m_state = "ESTABLISHED"
    /\ \E mark \in (sock[i].highTxMark + 1)..Written(sock[i]) :
          sock' = [sock EXCEPT ![i].highTxMark = mark]

\* Segments with the bytes up to mark leave for the first time.
SendPendingData(i) ==
    /\ sock[i].m_state = "ESTABLISHED" /\ sock[i].endPoint
    /\ \E mark \in (sock[i].highTxMark + 1)..Written(sock[i]) :
          sock' = [sock EXCEPT ![i].highTxMark = mark]

\* No acknowledgement in time.  When the retries are used up the end point
\* is deallocated, and the state stays ESTABLISHED: Send goes on accepting
\* packets that nothing will transmit.
ReTxTimeout(i) ==
    /\ sock[i].m_state = "ESTABLISHED" /\ sock[i].endPoint
    /\ sock[i].head < sock[i].highTxMark
    /\ \/ /\ sock[i].m_dataRetrCount > 0
          /\ sock' = [sock EXCEPT ![i].m_dataRetrCount = @ - 1]
       \/ /\ sock[i].m_dataRetrCount = 0
          /\ sock' = [sock EXCEPT ![i].endPoint = FALSE]

\* Faulty variant: what was transmitted counts as acknowledged.
NewAckOfTransmitted(i) ==
    /\ sock[i].m_state = "ESTABLISHED" /\ sock[i].endPoint
    /\ \E ack \in (sock[i].head + 1)..sock[i].highTxMark :
          sock' = [sock EXCEPT ![i].head = ack]

\* An acknowledgement of the bytes up to ack reaches the sender.
NewAck(i) ==
    /\ sock[i].m_state = "ESTABLISHED" /\ sock[i].endPoint
    /\ \E ack \in (sock[i].head + 1)..sock[i].nextRx :
          sock' = [sock EXCEPT ![i] =
                      [@ EXCEPT !.head = ack, !.m_dataRetrCount = DataRetries]]

\* A connection that can carry nothing more.
Dead(s) == s.m_state # "SYN_SENT" /\ ~s.endPoint
=============================================================================
