--------------------------- MODULE LearningSwitch ---------------------------
(***************************************************************************)
(* The learning switch of the OpenFlow controller                          *)
(* (openflow/lib/learning-switch.c, lib/mac-learning.c) in the main loop   *)
(* of controller/controller.c, with one switch at the other end of a       *)
(* connection that keeps the order of messages and may break.              *)
(*                                                                         *)
(* Times are relative and in seconds: next_query counts down to the next   *)
(* query, last_query and last_reply are ages, and so is the age of a MAC   *)
(* table entry; None is the code's LLONG_MIN.  A flow is its exact match   *)
(* (input port, source, destination) and its one output, or Drop.          *)
(***************************************************************************)
EXTENDS Integers, Sequences, FiniteSets, SequencesExt

CONSTANTS
  Ports,         \* port numbers of the switch, all below STP_MAX_PORTS
  Macs,          \* unicast addresses of stations
  MacMax,        \* MAC_MAX, the entries of the MAC table
  MacIdle,       \* 60: seconds after which an entry is not used any more
  ReplyWait,     \* 10: seconds to wait for a reply
  TxLimit,       \* 10: limit of queue_tx
  LearnMacs,     \* FALSE: --hub
  SetupFlows,    \* FALSE: --noflow
  LittleEndian,  \* byte order of the controller's host
  Probes,        \* the switch sends echo requests on an idle connection
  MaxPackets, MaxChanges, MaxQueries, MaxDrops, MaxWaiting  \* bounds of the environment

ASSUME SwitchAssumption ==
  /\ Ports \subseteq Nat /\ 0 \in Ports /\ IsFiniteSet(Ports) /\ IsFiniteSet(Macs)
  /\ {MacMax, MacIdle, ReplyWait, TxLimit} \subseteq Nat \ {0}
  /\ {MaxPackets, MaxChanges, MaxQueries, MaxDrops, MaxWaiting} \subseteq Nat
  /\ {LearnMacs, SetupFlows, LittleEndian, Probes} \subseteq BOOLEAN

VARIABLES
  sw,           \* struct lswitch
  ml,           \* sw->ml: entries in use, least recently used first
  awake,        \* the main loop is past poll_block
  toSwitch, toController,   \* messages on their way
  phys,         \* state of each port in the switch
  flows,        \* flow table of the switch
  packets, changes, drops,  \* what has happened, for the bounds
  dirty         \* history: a port state has changed since the last query

vars == <<sw, ml, awake, toSwitch, toController, phys, flows,
          packets, changes, drops, dirty>>
env == <<phys, flows, packets, changes, drops>>

None == -1
Flood == 1000
Drop == 1001
Group == "group"        \* any multicast address
PhysStates == {"listen", "learn", "forward", "block", "nostp"}

SameMatch(f, g) == <<f.in, f.src, f.dst>> = <<g.in, g.src, g.dst>>

(***************************************************************************)
(* MAC learning                                                            *)
(***************************************************************************)
search_bucket(t, mac) == SelectInSeq(t, LAMBDA e : e.mac = mac)

\* The station's own entry, a free one or the least recently used one, becomes
\* the most recently used.
mac_learning_learn(t, mac, port) ==
  LET i == search_bucket(t, mac)
      rest == IF i # 0 THEN RemoveAt(t, i) ELSE IF Len(t) = MacMax THEN Tail(t) ELSE t
  IN Append(rest, [mac |-> mac, port |-> port, age |-> 0])

mac_learning_lookup(t, mac) ==
  LET i == search_bucket(t, mac) IN
  IF mac # Group /\ i # 0 /\ t[i].age < MacIdle THEN t[i].port ELSE Flood

(***************************************************************************)
(* Sending                                                                 *)
(***************************************************************************)
FirstOf(ms, room) == IF room >= Len(ms) THEN ms ELSE IF room <= 0 THEN <<>> ELSE SubSeq(ms, 1, room)

\* sw->n_queued: the messages of queue_tx that the switch has not read yet.
n_queued == Len(SelectSeq(toSwitch, LAMBDA m : m.type \notin {"STATS_REQUEST", "DELETE_STRICT"}))

\* Messages beyond the limit are dropped, one by one.
queue_tx(ms) == toSwitch' = toSwitch \o FirstOf(ms, TxLimit - n_queued)

\* A query is only scheduled when none is outstanding.
schedule_query_unless_busy(s, delay) ==
  [s EXCEPT !.next_query = IF s.last_query # None THEN @ ELSE delay]

schedule_query(s, delay) ==
  [s EXCEPT !.next_query = IF @ = None \/ @ > delay THEN delay ELSE @]

Request == <<[type |-> "FEATURES_REQUEST"], [type |-> "SET_CONFIG"]>>

send_features_request(s) ==
  IF s.last_features_request >= 1
    THEN queue_tx(Request) /\ sw' = [s EXCEPT !.last_features_request = 0]
    ELSE sw' = s /\ UNCHANGED toSwitch

(***************************************************************************)
(* Port states                                                             *)
(***************************************************************************)
get_port_state(s, p) == IF p \notin Ports \/ ~s.stp THEN "FORWARDING" ELSE s.port_states[p]
may_learn(s, p) == get_port_state(s, p) \in {"LEARNING", "FORWARDING"}
may_recv(s, p, any_actions) ==
  get_port_state(s, p) \in IF any_actions THEN {"LEARNING", "FORWARDING"} ELSE {"FORWARDING"}
may_send(s, p) == get_port_state(s, p) = "FORWARDING"

\* Without STP on the port, or with the port or its link down, it forwards.
new_port_state(st) ==
  CASE st = "listen" -> "LISTENING" [] st = "learn" -> "LEARNING"
    [] st = "block" -> "BLOCKING"   [] OTHER -> "FORWARDING"

process_phy_port(s, p, st) ==
  IF s.stp /\ s.port_states[p] # new_port_state(st)
    THEN schedule_query([s EXCEPT !.port_states[p] = new_port_state(st)], 1)
    ELSE s

(***************************************************************************)
(* Handlers of messages from the switch                                    *)
(***************************************************************************)
process_switch_features(m) ==
  LET known == [sw EXCEPT !.datapath_id = 1, !.stp = m.stp,
                  !.port_states = [p \in Ports |-> IF m.stp THEN new_port_state(m.ports[p]) ELSE @[p]]]
  IN /\ sw' = IF m.stp THEN schedule_query(known, 1) ELSE known
     /\ dirty' = (dirty \/ m.stp)
     /\ UNCHANGED <<toSwitch, ml>>

process_port_status(m) ==
  /\ sw' = process_phy_port(sw, m.port, m.state)
  /\ dirty' = (dirty \/ sw'.port_states # sw.port_states)
  /\ UNCHANGED <<toSwitch, ml>>

process_echo_request == queue_tx(<<[type |-> "ECHO_REPLY"]>>) /\ UNCHANGED <<sw, ml, dirty>>

add_flow(m, out) == [type |-> "ADD", flow |-> [in |-> m.in, src |-> m.src, dst |-> m.dst, out |-> out]]
packet_out(m, out) == [type |-> "PACKET_OUT", in |-> m.in, out |-> out]

process_packet_in(m) ==
  LET learns == may_learn(sw, m.in) /\ LearnMacs
      table == IF learns THEN mac_learning_learn(ml, m.src, m.in) ELSE ml
      learned == mac_learning_lookup(table, m.dst)
      out == IF LearnMacs /\ may_send(sw, learned) THEN learned ELSE Flood
      drop == ~may_recv(sw, m.in, FALSE) \/ out = m.in
  IN /\ ml' = table
     /\ queue_tx(CASE drop -> IF SetupFlows THEN <<add_flow(m, Drop)>> ELSE <<>>
                   [] ~drop /\ SetupFlows /\ (~LearnMacs \/ out # Flood) ->
                        IF m.buffered THEN <<add_flow(m, out)>> ELSE <<add_flow(m, out), packet_out(m, out)>>
                   [] OTHER -> <<packet_out(m, out)>>)
     /\ UNCHANGED <<sw, dirty>>

\* The output port of an action is 32 bits wide; its first two bytes are read as
\* 16 bits.
OutPortRead(out) == IF LittleEndian THEN 0 ELSE out

process_flow_stats(f) ==
  \/ ~may_recv(sw, f.in, f.out # Drop)
  \/ f.out # Drop /\ ~may_send(sw, OutPortRead(f.out))

\* Deletions are sent with rconn_send, which has no limit.
process_stats_reply(m) ==
  /\ IF sw.last_query = None \/ m.xid # sw.query_xid
     THEN UNCHANGED <<sw, toSwitch>>
     ELSE /\ toSwitch' = toSwitch \o SetToSeq({[type |-> "DELETE_STRICT", flow |-> f] :
                                                f \in {g \in m.flows : process_flow_stats(g)}})
          /\ sw' = IF m.more THEN [sw EXCEPT !.last_reply = 0]
                   ELSE [sw EXCEPT !.last_query = None, !.last_reply = None]
  /\ UNCHANGED <<ml, dirty>>

lswitch_process_packet(m) ==
  IF sw.datapath_id = 0 /\ m.type \notin {"ECHO_REQUEST", "FEATURES_REPLY"}
  THEN send_features_request(sw) /\ UNCHANGED <<ml, dirty>>
  ELSE CASE m.type = "ECHO_REQUEST" -> process_echo_request
         [] m.type = "FEATURES_REPLY" -> process_switch_features(m)
         [] m.type = "PACKET_IN" -> process_packet_in(m)
         [] m.type = "PORT_STATUS" -> process_port_status(m)
         [] m.type = "STATS_REPLY" -> process_stats_reply(m)

(***************************************************************************)
(* The main loop                                                           *)
(***************************************************************************)
do_switching ==
  /\ toController # <<>>
  /\ lswitch_process_packet(Head(toController))
  /\ toController' = Tail(toController)
  /\ awake' = TRUE
  /\ UNCHANGED env

\* The query is given up when no more replies come, after none at all it is not.
ExpireQuery_partly(s) ==
  IF s.last_reply # None
    THEN IF s.last_reply > ReplyWait THEN schedule_query([s EXCEPT !.last_reply = None, !.last_query = None], 0) ELSE s
    ELSE s

\* Waits of lswitch_run that have ended; a query is outstanding in the result
\* if it returns early.
ExpireQuery(s) ==
  LET r == IF s.last_reply # None /\ s.last_reply > ReplyWait
             THEN schedule_query([s EXCEPT !.last_reply = None, !.last_query = None], 0) ELSE s
  IN IF r.last_reply = None /\ r.last_query # None /\ r.last_query > ReplyWait
       THEN schedule_query([r EXCEPT !.last_query = None], 0) ELSE r

\* Xids are random; two that are in use at a time are taken to be different.
InFlight == toSwitch \o toController
IsQuery(m) == m.type \in {"STATS_REQUEST", "STATS_REPLY"}
FreshXid == CHOOSE x \in 1..(Len(InFlight) + 2) :
              \A i \in DOMAIN InFlight : IsQuery(InFlight[i]) => InFlight[i].xid # x

\* lswitch_wait: the loop goes round at once when a wait has ended.
TimedOut(s) == IF s.last_reply # None THEN s.last_reply >= ReplyWait
               ELSE s.last_query # None /\ s.last_query >= ReplyWait

lswitch_run ==
  /\ awake
  /\ LET s == ExpireQuery(sw)
         due == s.last_reply = None /\ s.last_query = None /\ s.next_query = 0
     IN IF due
        THEN /\ Cardinality({i \in DOMAIN InFlight : IsQuery(InFlight[i])}) < MaxQueries
             /\ sw' = [s EXCEPT !.next_query = None, !.last_query = 0, !.query_xid = FreshXid]
             /\ toSwitch' = Append(toSwitch, [type |-> "STATS_REQUEST", xid |-> FreshXid])
             /\ dirty' = FALSE
        ELSE sw' = s /\ UNCHANGED <<toSwitch, dirty>>
  /\ awake' = TimedOut(sw')
  /\ UNCHANGED <<ml, toController>> /\ UNCHANGED env

\* A second passes; ages stop at the values the code can tell apart.
Older(age, limit) == IF age = None \/ age > limit THEN age ELSE age + 1

Tick ==
  /\ sw' = [sw EXCEPT !.next_query = IF @ > 0 THEN @ - 1 ELSE @,
                      !.last_query = Older(@, ReplyWait), !.last_reply = Older(@, ReplyWait),
                      !.last_features_request = Older(@, 0)]
  /\ ml' = [i \in DOMAIN ml |-> [ml[i] EXCEPT !.age = Older(@, MacIdle - 1)]]
  /\ awake' = (awake \/ TimedOut(sw'))
  /\ UNCHANGED <<toSwitch, toController, dirty>> /\ UNCHANGED env

(***************************************************************************)
(* The switch                                                              *)
(***************************************************************************)
\* A decoded flow_mod: the command is sent in host byte order, and out_port is
\* port 0 where OFPP_NONE would mean any.
Deleted(f) == {g \in flows : ~LittleEndian /\ SameMatch(f, g) /\ g.out = 0}

\* An answer to a flow query: whole, in two parts, broken off, or none.
Answers(m) ==
  LET reply(fs, more) == [type |-> "STATS_REPLY", xid |-> m.xid, flows |-> fs, more |-> more]
      part == {f \in flows : f.in = 0}
  IN {<<reply(flows, FALSE)>>, <<reply(part, TRUE), reply(flows \ part, FALSE)>>, <<reply(part, TRUE)>>, <<>>}

SwitchReceives ==
  /\ toSwitch # <<>>
  /\ LET m == Head(toSwitch) IN
       /\ flows' = CASE m.type = "ADD" -> {f \in flows : ~SameMatch(f, m.flow)} \cup {m.flow}
                     [] m.type = "DELETE_STRICT" -> flows \ Deleted(m.flow)
                     [] OTHER -> flows
       /\ \E reply \in CASE m.type = "FEATURES_REQUEST" ->
                              {<<[type |-> "FEATURES_REPLY", stp |-> TRUE, ports |-> phys]>>}
                         [] m.type = "STATS_REQUEST" -> Answers(m)
                         [] OTHER -> {<<>>} :
            toController' = toController \o reply
  /\ toSwitch' = Tail(toSwitch)
  /\ UNCHANGED <<sw, ml, awake, phys, packets, changes, drops, dirty>>

PacketMisses ==
  /\ packets < MaxPackets /\ Len(toController) < MaxWaiting
  /\ \E p \in Ports, src \in Macs, dst \in Macs \cup {Group}, buffered \in BOOLEAN :
       /\ src # dst /\ ~\E f \in flows : <<f.in, f.src, f.dst>> = <<p, src, dst>>
       /\ toController' = Append(toController, [type |-> "PACKET_IN", in |-> p, src |-> src, dst |-> dst,
                                                buffered |-> buffered])
  /\ packets' = packets + 1
  /\ UNCHANGED <<sw, ml, awake, toSwitch, phys, flows, changes, drops, dirty>>

PortChanges ==
  /\ changes < MaxChanges /\ Len(toController) < MaxWaiting
  /\ \E p \in Ports, st \in PhysStates :
       /\ st # phys[p]
       /\ phys' = [phys EXCEPT ![p] = st]
       /\ toController' = Append(toController, [type |-> "PORT_STATUS", port |-> p, state |-> st])
  /\ changes' = changes + 1
  /\ UNCHANGED <<sw, ml, awake, toSwitch, flows, packets, drops, dirty>>

FlowExpires ==
  /\ \E f \in flows : flows' = flows \ {f}
  /\ UNCHANGED <<sw, ml, awake, toSwitch, toController, phys, packets, changes, drops, dirty>>

Probe ==
  /\ Probes /\ toController = <<>> /\ toSwitch = <<>>
  /\ toController' = <<[type |-> "ECHO_REQUEST"]>>
  /\ UNCHANGED <<sw, ml, awake, toSwitch, phys, flows, packets, changes, drops, dirty>>

(***************************************************************************)
(* A connection, and the learning switch that new_switch makes for it      *)
(***************************************************************************)
lswitch_create ==
  [datapath_id |-> 0, stp |-> FALSE, port_states |-> [p \in Ports |-> "DISABLED"],
   next_query |-> None, last_query |-> None, last_reply |-> None, query_xid |-> 0,
   last_features_request |-> 0]

Reconnect ==
  /\ drops < MaxDrops
  /\ sw' = lswitch_create /\ ml' = <<>> /\ awake' = TRUE
  /\ toSwitch' = Request /\ toController' = <<>>
  /\ dirty' = FALSE
  /\ drops' = drops + 1
  /\ UNCHANGED <<phys, flows, packets, changes>>

Init ==
  /\ sw = lswitch_create /\ ml = <<>> /\ awake = TRUE
  /\ toSwitch = Request /\ toController = <<>>
  /\ phys = [p \in Ports |-> "forward"] /\ flows = {}
  /\ packets = 0 /\ changes = 0 /\ drops = 0 /\ dirty = FALSE

Next == \/ do_switching \/ lswitch_run \/ Tick \/ SwitchReceives \/ PacketMisses
        \/ PortChanges \/ FlowExpires \/ Probe \/ Reconnect

Spec == Init /\ [][Next]_vars

\* The loop runs when poll_block returns, time passes, the switch reads what it
\* is sent and, if it does at all, goes on probing.
FairSpec == /\ Spec
            /\ WF_vars(do_switching) /\ WF_vars(lswitch_run) /\ WF_vars(Tick)
            /\ WF_vars(SwitchReceives) /\ WF_vars(Probe)

(***************************************************************************)
(* Properties                                                              *)
(***************************************************************************)
\* A query does not stay outstanding for ever, though replies may be missing,
\* broken off, or late answers to an earlier query: it ends, or it is sent again
\* and is no second old (the two waits of lswitch_run).
QueryEnds == []<>(sw.last_query \in {None, 0})

\* A port state that changes at any moment, also while a query is under way or
\* while its replies are being read, is followed by a query that is sent after
\* the change (schedule_query), as long as something wakes the loop.
ChangeLeadsToQuery == dirty ~> ~dirty
=============================================================================
