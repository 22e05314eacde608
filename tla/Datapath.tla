------------------------------ MODULE Datapath ------------------------------
(***************************************************************************)
(* The datapath of the OpenFlow switch (openflow/switch/datapath.c with    *)
(* execute_actions of switch/dp_act.c): ports, packet buffers, the         *)
(* connections it talks to (remotes) and the handlers of their messages.   *)
(* Lookup in the flow table is the subject of FlowTable; here a flow       *)
(* matches on the input port and is a sequence of outputs.                 *)
(*                                                                         *)
(* The whole datapath is one record, and the functions of the code are     *)
(* operators from datapaths to datapaths, as they run to their end in one  *)
(* thread.  One turn of dp_run's loops is an action.  A packet is a number *)
(* and the port it came in on.  A flow that outputs to the flow table      *)
(* calls itself until the stack is full, which ends the switch.            *)
(***************************************************************************)
EXTENDS Integers, Sequences, FiniteSets, SequencesExt, FiniteSetsExt

CONSTANTS
  Ports,        \* physical ports
  Controller,   \* the remote of dp->controller
  Remotes,      \* all remotes, the controller's among them
  TxqLimit,     \* TXQ_LIMIT
  Slots,        \* N_PKT_BUFFERS
  Cookies,      \* 2^PKT_COOKIE_BITS - 1, the number of cookies in use
  TableSize,    \* flows that the tables hold
  LittleEndian, \* how the processor reads numbers
  Requests,     \* messages that each remote may send
  MaxPackets, MaxRequests, MaxEvents   \* bounds of the environment

\* Port numbers: physical ones (below DP_MAX_PORTS) and those with a meaning of their own.
PortNumbers == 0..254
InPort == 65528  Table == 65529  Flood == 65531  All == 65532  ToController == 65533  None == 65535

ASSUME DatapathAssumption ==
  /\ Ports \subseteq PortNumbers /\ IsFiniteSet(Ports)
  /\ Controller \in Remotes /\ IsFiniteSet(Remotes)
  /\ {TxqLimit, Slots, Cookies, TableSize} \subseteq Nat \ {0} /\ LittleEndian \in BOOLEAN
  /\ {MaxPackets, MaxRequests, MaxEvents} \subseteq Nat
  /\ \A r \in Remotes : \A m \in Requests[r] :
       /\ {"xid", "id", "meant"} \subseteq DOMAIN m
       /\ m.n \in Nat \ {0} /\ m.in \in PortNumbers \cup {None}
       /\ Len(m.outs) \in Nat /\ m.parts \in Nat

VARIABLES
  dp,         \* struct datapath, with buffers[] and buffer_idx; history in it: the
              \* replies sent on each connection, the dump that the connection before
              \* left behind, how often a buffer was given to a packet, what the turn
              \* sent, told the controller and got out of a buffer
  inbox,      \* messages on their way from each remote
  reported,   \* history: what was last reported under each buffer id, and when
  packets, requests, events     \* what has happened, for the bounds

vars == <<dp, inbox, reported, packets, requests, events>>

NoId == -1
NoPacket == [n |-> 0, in |-> 0]
NoReport == [pkt |-> NoPacket, at |-> 0]
NoUse == [id |-> NoId, pkt |-> NoPacket, meant |-> NoReport, passed |-> 0]
NoDump == [xid |-> 0, part |-> 0, parts |-> 0]

(***************************************************************************)
(* Sending to remotes                                                      *)
(***************************************************************************)

\* A message beyond the limit is dropped (EAGAIN), and so is one to a remote that is
\* not connected (ENOTCONN).
HasRoom(d, r) == Len(d.txq[r]) < TxqLimit
Sendable(d, r) == d.connected[r] /\ HasRoom(d, r)

send_openflow_buffer(d, r, m) ==
  IF ~Sendable(d, r) THEN d
  ELSE [d EXCEPT !.txq[r] = Append(@, m),
                 !.replies[r] = IF m.type = "REPLY" THEN Append(@, m) ELSE @]

(***************************************************************************)
(* Packet buffers                                                          *)
(***************************************************************************)
\* A buffer whose cookie is that of its previous packet.
save_buffer_same_cookie(d, pkt) ==
  LET i == (d.buffer_idx + 1) % Slots
      taken == d.buffers[i].pkt # NoPacket /\ d.buffers[i].fresh
  IN IF taken THEN [d |-> [d EXCEPT !.buffer_idx = i], id |-> NoId]
     ELSE [d |-> [d EXCEPT !.buffer_idx = i, !.buffers[i].pkt = pkt, !.buffers[i].fresh = TRUE,
                           !.buffers[i].times = @ + 1],
           id |-> i + Slots * d.buffers[i].cookie]

\* The next buffer, unless its packet is younger than OVERWRITE_SECS.
save_buffer(d, pkt) ==
  LET i == (d.buffer_idx + 1) % Slots
      cookie == IF d.buffers[i].cookie + 1 >= Cookies THEN 0 ELSE d.buffers[i].cookie + 1
      taken == d.buffers[i].pkt # NoPacket /\ d.buffers[i].fresh
  IN IF taken THEN [d |-> [d EXCEPT !.buffer_idx = i], id |-> NoId]
     ELSE [d |-> [d EXCEPT !.buffer_idx = i,
                           !.buffers[i] = [pkt |-> pkt, cookie |-> cookie, fresh |-> TRUE,
                                           times |-> d.buffers[i].times + 1]],
           id |-> i + Slots * cookie]

Holds(d, id) == d.buffers[id % Slots].cookie = id \div Slots
BufferOf(d, id) == IF Holds(d, id) THEN d.buffers[id % Slots].pkt ELSE NoPacket

\* retrieve_buffer and discard_buffer: the buffer is empty afterwards.
discard_buffer(d, id) == IF Holds(d, id) THEN [d EXCEPT !.buffers[id % Slots].pkt = NoPacket] ELSE d

(***************************************************************************)
(* Output                                                                  *)
(***************************************************************************)
\* A packet leaves through a port that is up.
output_packet(d, pkt, p) ==
  IF p \in Ports /\ "PORT_DOWN" \notin d.config[p]
    THEN [d EXCEPT !.sent = @ \cup {[pkt |-> pkt, port |-> p]}]
    ELSE d

\* The order of ports does not matter to what is sent.
output_all(d, pkt, in, flood) ==
  [d EXCEPT !.sent = @ \cup {[pkt |-> pkt, port |-> p] :
     p \in {q \in Ports \ {in} : /\ "PORT_DOWN" \notin d.config[q]
                                 /\ ~(flood /\ "NO_FLOOD" \in d.config[q])}}]

\* What the controller is told of a packet, and the id it knows it by, if the message
\* is not dropped.
dp_output_control(d, pkt) ==
  LET saved == save_buffer(d, pkt)
      sent == send_openflow_buffer(saved.d, Controller, [type |-> "PACKET_IN", id |-> saved.id, pkt |-> pkt])
  IN IF saved.id = NoId \/ ~Sendable(saved.d, Controller) THEN sent
     ELSE [sent EXCEPT !.told = Append(@, [id |-> saved.id, pkt |-> pkt,
                                           at |-> saved.d.buffers[saved.d.buffer_idx].times])]

FlowFor(d, in) == {f \in d.flows : f.in = in}

\* Outputs other than to the flow table.
do_output(d, pkt, out) ==
  CASE out = Flood -> output_all(d, pkt, pkt.in, TRUE)
    [] out = All -> output_all(d, pkt, pkt.in, FALSE)
    [] out = ToController -> dp_output_control(d, pkt)
    [] out = InPort -> output_packet(d, pkt, pkt.in)
    [] out = pkt.in -> d
    [] OTHER -> output_packet(d, pkt, out)

\* One output after the other.  (e is bound to a value, so that TLC computes it only once.)
execute_outputs(d, pkt, outs) ==
  LET after[n \in 0..Len(outs)] ==
        IF n = 0 THEN d
        ELSE CHOOSE x \in {do_output(e, pkt, outs[n]) : e \in {after[n - 1]}} : TRUE
  IN after[Len(outs)]

\* A packet that may be received goes where its flow says; found tells whether
\* it has one, or is dropped on its port.  A flow that outputs to the flow table finds
\* itself again, as often as it is executed: the switch runs out of stack.
run_flow_through_tables(d, pkt) ==
  LET outs == (CHOOSE f \in FlowFor(d, pkt.in) : TRUE).outs
  IN IF pkt.in \in Ports /\ "NO_RECV" \in d.config[pkt.in] THEN [d |-> d, found |-> TRUE]
     ELSE IF FlowFor(d, pkt.in) = {} THEN [d |-> d, found |-> FALSE]
     ELSE IF Table \in Range(outs) THEN [d |-> [d EXCEPT !.crashed = TRUE], found |-> TRUE]
     ELSE [d |-> execute_outputs(d, pkt, outs), found |-> TRUE]

\* A packet sent to the flow table that has no flow there is dropped.
execute_action(d, pkt, out) ==
  IF d.crashed THEN d
  ELSE IF out = Table THEN run_flow_through_tables(d, pkt).d
  ELSE do_output(d, pkt, out)

\* The actions of a message, with the packet that it carries or names.
execute_actions(d, pkt, outs) ==
  LET after[n \in 0..Len(outs)] ==
        IF n = 0 THEN d
        ELSE CHOOSE x \in {execute_action(e, pkt, outs[n]) : e \in {after[n - 1]}} : TRUE
  IN after[Len(outs)]

fwd_port_input(d, pkt) ==
  LET ran == run_flow_through_tables(d, pkt)
  IN IF ran.found THEN ran.d ELSE dp_output_control(ran.d, pkt)

(***************************************************************************)
(* Handlers of messages                                                    *)
(***************************************************************************)
\* validate_output compares a port of 32 bits, in the order of the network, with an input
\* port of 16: on a little-endian processor it finds them equal for the port that has the
\* input port in its upper half, which is the input port only if both are 0.  To output
\* to the flow table is allowed.
AsRead(in) == IF LittleEndian THEN in * 65536 ELSE in
Valid(in, outs) == {None, AsRead(in)} \cap Range(outs) = {}

\* retrieve_buffer, with what the sender of m meant by the id, and how many packets
\* the buffer was given to since.
Retrieved(d, m) ==
  [discard_buffer(d, m.id) EXCEPT !.used =
     [id |-> m.id, pkt |-> BufferOf(d, m.id), meant |-> m.meant,
      passed |-> d.buffers[m.id % Slots].times - m.meant.at]]

\* A packet_out carries a packet, or names a buffer that is gone if its id is
\* no longer good.
recv_packet_out(d, r, m) ==
  LET pkt == IF m.id = NoId THEN [n |-> m.n, in |-> m.in] ELSE BufferOf(d, m.id)
      got == IF m.id = NoId THEN d ELSE Retrieved(d, m)
  IN IF pkt = NoPacket THEN got
     ELSE IF ~Valid(m.in, m.outs) THEN send_openflow_buffer(got, r, [type |-> "ERROR"])
     ELSE execute_actions(got, [pkt EXCEPT !.in = m.in], m.outs)

\* A flow_mod that is refused loses its packet.
Refused(d, r, m) ==
  LET e == send_openflow_buffer(d, r, [type |-> "ERROR"])
  IN IF m.id # NoId THEN discard_buffer(e, m.id) ELSE e

\* A flow_mod that is accepted does with its packet what the flow does.
Applied(d, m) ==
  IF m.id = NoId \/ BufferOf(d, m.id) = NoPacket THEN d
  ELSE execute_actions(Retrieved(d, m), [BufferOf(d, m.id) EXCEPT !.in = m.in], m.outs)

\* The tables are full for a flow that replaces none (ENOBUFS).
Full(d, m) == FlowFor(d, m.in) = {} /\ Cardinality(d.flows) >= TableSize

add_flow(d, r, m) ==
  IF ~Valid(m.in, m.outs) \/ Full(d, m) THEN Refused(d, r, m)
  ELSE Applied([d EXCEPT !.flows = {f \in @ : f.in # m.in} \cup {[in |-> m.in, outs |-> m.outs]}], m)

mod_flow(d, r, m) ==
  IF ~Valid(m.in, m.outs) THEN Refused(d, r, m)
  ELSE Applied([d EXCEPT !.flows = {f \in @ : f.in # m.in} \cup
                                   {[in |-> m.in, outs |-> m.outs] : f \in FlowFor(d, m.in)}], m)

recv_flow(d, r, m) ==
  CASE m.command = "ADD" -> add_flow(d, r, m)
    [] m.command = "MODIFY" -> mod_flow(d, r, m)
    [] OTHER -> [d EXCEPT !.flows = {f \in @ : f.in # m.in}]

\* The masked bits are set before the old ones are looked at, so that the
\* device is never turned off or on.
dp_update_port_flags(d, m) ==
  [d EXCEPT !.config[m.port] = IF m.on THEN @ \cup {m.bit} ELSE @ \ {m.bit}]

\* A request of an unknown type or a wrong length has no parts, and no answer.
recv_stats_request(d, r, m) ==
  IF m.parts = 0 THEN d
  ELSE [d EXCEPT !.dump[r] = [xid |-> m.xid, part |-> 1, parts |-> m.parts]]

fwd_control_input(d, r, m) ==
  CASE m.type = "PACKET_OUT" -> recv_packet_out(d, r, m)
    [] m.type = "FLOW_MOD" -> recv_flow(d, r, m)
    [] m.type = "PORT_MOD" -> dp_update_port_flags(d, m)
    [] m.type = "SET_CONFIG" -> [d EXCEPT !.send_flow_exp = m.send_flow_exp]
    [] m.type = "STATS_REQUEST" -> recv_stats_request(d, r, m)
    [] m.type \in {"FEATURES_REQUEST", "GET_CONFIG_REQUEST", "ECHO_REQUEST"} ->
         send_openflow_buffer(d, r, [type |-> "REPLY", xid |-> m.xid, part |-> 1, parts |-> 1])
    [] m.type = "ECHO_REPLY" -> d
    [] OTHER -> send_openflow_buffer(d, r, [type |-> "ERROR"])

(***************************************************************************)
(* dp_run                                                                  *)
(***************************************************************************)
\* A turn that does not care whether the queue has room.
stats_dump_regardless(d, r) ==
  LET at == d.dump[r]
      e == send_openflow_buffer(d, r, [type |-> "REPLY", xid |-> at.xid, part |-> at.part, parts |-> at.parts])
  IN [e EXCEPT !.dump[r] = IF at.part >= at.parts THEN NoDump ELSE [at EXCEPT !.part = @ + 1]]

\* A turn that leaves room for two messages of other kinds.
stats_dump_reserves(d, r) == IF Len(d.txq[r]) >= TxqLimit - 2 THEN d ELSE stats_dump_regardless(d, r)

\* The next part of a dump, once the queue has room for it.  A part that cannot be sent
\* is lost: the error is a positive number, which asks for another turn, and after the
\* last part that turn finds the dump done (its part is one more than its parts).
stats_dump(d, r) ==
  LET at == d.dump[r]
      e == send_openflow_buffer(d, r, [type |-> "REPLY", xid |-> at.xid, part |-> at.part, parts |-> at.parts])
      last == at.part = at.parts /\ Sendable(d, r)
  IN IF ~HasRoom(d, r) THEN d
     ELSE IF at.part > at.parts THEN [d EXCEPT !.dump[r] = NoDump]
     ELSE [e EXCEPT !.dump[r] = IF last THEN NoDump ELSE [at EXCEPT !.part = @ + 1]]

\* A request is read only when no dump is going on.
Busy(d, r) == d.dump[r] # NoDump

\* What a turn begins with: nothing sent, told or used yet.
Fresh == [dp EXCEPT !.sent = {}, !.told = <<>>, !.used = NoUse]

Does(d) ==
  /\ dp' = d
  /\ reported' = [id \in DOMAIN reported |->
                    LET at == {i \in DOMAIN dp'.told : dp'.told[i].id = id}
                    IN IF at = {} THEN reported[id]
                       ELSE [pkt |-> dp'.told[Max(at)].pkt, at |-> dp'.told[Max(at)].at]]

\* One turn of remote_run's loop.
remote_run(r) ==
  \/ /\ Busy(dp, r) /\ Does(stats_dump(Fresh, r))
     /\ UNCHANGED <<inbox, packets, requests, events>>
  \/ /\ ~Busy(dp, r) /\ inbox[r] # <<>>
     /\ Does(fwd_control_input(Fresh, r, Head(inbox[r])))
     /\ inbox' = [inbox EXCEPT ![r] = Tail(@)]
     /\ UNCHANGED <<packets, requests, events>>

\* As many of the messages as there is room for, one after the other.
SendAll(d, r, ms) ==
  LET room == IF d.connected[r] THEN Max({0, TxqLimit - Len(d.txq[r])}) ELSE 0
  IN [d EXCEPT !.txq[r] = @ \o SubSeq(ms, 1, Min({room, Len(ms)}))]

\* update_port_status and send_port_status for every port: what the device says overrides
\* what was configured.
update_port_statuses(d) ==
  LET config == [p \in Ports |-> IF d.up[p] THEN d.config[p] \ {"PORT_DOWN"}
                                 ELSE d.config[p] \cup {"PORT_DOWN"}]
      link_down == [p \in Ports |-> ~d.carrier[p]]
      differ == {p \in Ports : config[p] # d.config[p] \/ link_down[p] # d.link_down[p]}
      order == SetToSeq(differ)
  IN SendAll([d EXCEPT !.config = config, !.link_down = link_down], Controller,
             [i \in DOMAIN order |-> [type |-> "PORT_STATUS", port |-> order[i]]])

\* A new second: the states of ports, then the flows that chain_timeout takes.
Timeout ==
  /\ events < MaxEvents
  /\ \E gone \in SUBSET dp.flows :
       Does(SendAll([update_port_statuses(Fresh) EXCEPT
                       !.flows = @ \ gone,
                       !.buffers = [i \in DOMAIN @ |-> [@[i] EXCEPT !.fresh = FALSE]]],
                    Controller, [i \in 1..Cardinality(gone) |-> [type |-> "FLOW_EXPIRED"]]))
  /\ events' = events + 1
  /\ UNCHANGED <<inbox, packets, requests>>

PortInput(p) ==
  /\ packets < MaxPackets
  /\ Does(fwd_port_input(Fresh, [n |-> packets + 1, in |-> p]))
  /\ packets' = packets + 1
  /\ UNCHANGED <<inbox, requests, events>>

(***************************************************************************)
(* Remotes, devices                                                        *)
(***************************************************************************)
\* A remote asks something; it numbers what it asks, and uses ids that it was told.
Asks(r) ==
  /\ requests < MaxRequests /\ dp.connected[r]
  /\ \E m \in Requests[r] : \E id \in {NoId} \cup {i \in DOMAIN reported : reported[i] # NoReport} :
       /\ m.type \notin {"PACKET_OUT", "FLOW_MOD"} => id = NoId
       /\ inbox' = [inbox EXCEPT ![r] = Append(@,
            [m EXCEPT !.xid = requests + 1, !.id = id, !.meant = IF id = NoId THEN NoReport ELSE reported[id]])]
  /\ requests' = requests + 1 /\ dp' = Fresh
  /\ UNCHANGED <<reported, packets, events>>

\* rconn takes a message from the queue when the connection can be written.
Drains(r) ==
  /\ dp.txq[r] # <<>>
  /\ dp' = [Fresh EXCEPT !.txq[r] = Tail(@)]
  /\ UNCHANGED <<inbox, reported, packets, requests, events>>

DeviceChanges(p) ==
  /\ events < MaxEvents
  /\ \/ dp' = [Fresh EXCEPT !.up[p] = ~@]
     \/ dp' = [Fresh EXCEPT !.carrier[p] = ~@]
  /\ events' = events + 1
  /\ UNCHANGED <<inbox, reported, packets, requests>>

\* The connection to the controller is made, at the start or again (rconn is reliable).
Connects ==
  /\ ~dp.connected[Controller]
  /\ dp' = [Fresh EXCEPT !.connected[Controller] = TRUE]
  /\ UNCHANGED <<inbox, reported, packets, requests, events>>

\* It is lost: what was queued and what was on its way goes with it; a dump goes on.
Disconnects ==
  /\ dp.connected[Controller] /\ events < MaxEvents
  /\ dp' = [Fresh EXCEPT !.connected[Controller] = FALSE, !.txq[Controller] = <<>>,
                         !.replies[Controller] = <<>>, !.late[Controller] = dp.dump[Controller].xid]
  /\ inbox' = [inbox EXCEPT ![Controller] = <<>>]
  /\ events' = events + 1
  /\ UNCHANGED <<reported, packets, requests>>

\* A remote other than the controller's goes away, its dump with it (remote_destroy),
\* and is accepted again.
remote_destroy(r) ==
  /\ r # Controller /\ events < MaxEvents
  /\ dp' = [Fresh EXCEPT !.txq[r] = <<>>, !.dump[r] = NoDump, !.replies[r] = <<>>]
  /\ inbox' = [inbox EXCEPT ![r] = <<>>]
  /\ events' = events + 1
  /\ UNCHANGED <<reported, packets, requests>>

Init ==
  /\ dp = [config |-> [p \in Ports |-> {}], link_down |-> [p \in Ports |-> FALSE],
           up |-> [p \in Ports |-> TRUE], carrier |-> [p \in Ports |-> TRUE],
           flows |-> {}, send_flow_exp |-> FALSE,
           buffers |-> [i \in 0..(Slots - 1) |-> [pkt |-> NoPacket, cookie |-> 0, fresh |-> FALSE, times |-> 0]],
           buffer_idx |-> 0,
           connected |-> [r \in Remotes |-> r # Controller],
           txq |-> [r \in Remotes |-> <<>>], dump |-> [r \in Remotes |-> NoDump],
           replies |-> [r \in Remotes |-> <<>>], late |-> [r \in Remotes |-> 0],
           sent |-> {}, told |-> <<>>, used |-> NoUse, crashed |-> FALSE]
  /\ inbox = [r \in Remotes |-> <<>>]
  /\ reported = [id \in 0..(Slots * Cookies - 1) |-> NoReport]
  /\ packets = 0 /\ requests = 0 /\ events = 0

Next == /\ ~dp.crashed
        /\ \/ Timeout \/ Connects \/ Disconnects
           \/ \E p \in Ports : PortInput(p) \/ DeviceChanges(p)
           \/ \E r \in Remotes : remote_run(r) \/ Asks(r) \/ Drains(r) \/ remote_destroy(r)

Spec == Init /\ [][Next]_vars

\* dp_run is called again within a second (poll_timer_wait) and its remotes read
\* what they are sent.
FairSpec ==
  Spec /\ \A r \in Remotes : /\ WF_vars(~dp.crashed /\ remote_run(r))
                             /\ WF_vars(~dp.crashed /\ Drains(r))

(***************************************************************************)
(* Properties                                                              *)
(***************************************************************************)

\* A buffer id brings out the packet that the controller was told of under it when it
\* sent the id, or none, though the buffer may have been given to other packets since:
\* to fewer than there are cookies, after which its cookie comes round (save_buffer).
BufferIsTheReported ==
  dp.used.pkt # NoPacket /\ dp.used.passed < Cookies => dp.used.pkt = dp.used.meant.pkt

\* A reply in several parts reaches its remote whole, in order, and with no answer to a
\* later request in between, however full the queue (remote_run).  Only the dump that
\* was going on when the last connection was lost may begin in the middle, as
\* stats_dump loses parts while there is no connection.
RepliesWhole ==
  \A r \in Remotes : \A i \in DOMAIN dp.replies[r] :
    LET m == dp.replies[r][i]
        before == dp.replies[r][i - 1]
    IN IF m.part = 1 THEN i > 1 => before.part = before.parts /\ before.xid < m.xid
       ELSE IF i = 1 THEN m.xid = dp.late[r]
       ELSE before.xid = m.xid /\ before.part = m.part - 1

\* A dump that was started ends if its remote reads on or leaves, unless the switch dies.
DumpEnds == \A r \in Remotes : (dp.dump[r] # NoDump) ~> (dp.dump[r] = NoDump \/ dp.crashed)
=============================================================================
