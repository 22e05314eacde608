-------------------------------- MODULE Stp --------------------------------
(***************************************************************************)
(* Spanning tree among OpenFlow switches: lib/stp.c, the 802.1D protocol   *)
(* entity, as secchan/stp-secchan.c drives it.  Every bridge is a record   *)
(* and every C function an operator from such records to such records;     *)
(* out collects the BPDUs of a call in the order in which they are sent.   *)
(*                                                                         *)
(* Ethernet is modelled from the outside: a LAN carries a BPDU to every    *)
(* other port on it, each port receives in order, and BPDUs may be lost.   *)
(* A BPDU arrives, or is lost, in the second in which it is sent; the      *)
(* bridges tick in any order once a second.  All bridges run this code, so *)
(* they all use the same three times, and recording those of the root      *)
(* changes nothing.                                                        *)
(***************************************************************************)
EXTENDS Integers, Sequences, SequencesExt, FiniteSets, FiniteSetsExt, Functions

CONSTANTS Bridge,            \* names of the bridges
          FirstId,           \* FirstId[b]: the bridge id that stp_create gets
          Id,                \* bridge ids that a local port may bring
          NPorts,            \* ports of each bridge (STP_MAX_PORTS)
          Lan,               \* Lan[b][p]: the LAN that port p of b is plugged into
          Costs,             \* path costs that port speeds stand for
          FirstCost,
          SECOND,            \* time units in a second: 256
          LittleEndian,      \* byte order of the machine
          MaxChanges,        \* bound: port and local port changes
          MaxLosses          \* bound: BPDUs that are lost

hello_time == 2 * SECOND
max_age == 6 * SECOND
forward_delay == 4 * SECOND

ASSUME StpAssumption ==
    /\ FirstId \in [Bridge -> Nat] /\ IsInjective(FirstId)
    /\ NPorts \in Nat /\ SECOND \in Nat \ {0}
    /\ DOMAIN Lan = Bridge /\ \A b \in Bridge : DOMAIN Lan[b] = 1..NPorts
    /\ LittleEndian \in BOOLEAN
    /\ Id \subseteq Nat /\ Costs \subseteq Nat \ {0} /\ FirstCost \in Nat \ {0}
    \* the assertions of stp_create
    /\ 2 * (forward_delay - SECOND) >= max_age
    /\ max_age >= 2 * (hello_time + SECOND)

VARIABLES bridge,    \* bridge[b]: struct stp of b
          net,       \* net[b][p]: BPDUs on their way to port p of b
          ticked,    \* bridges that have ticked in this second
          changes, losses

vars == <<bridge, net, ticked, changes, losses>>

Port == 1..NPorts
Off == -1                    \* a timer that is not active
NULL == 0                    \* no root port

-----------------------------------------------------------------------------
(* Timers, one second further *)

stp_timer_expired(timer, timeout) == timer # Off /\ timer + SECOND >= timeout

Advanced(timer, timeout) ==
    IF timer = Off \/ stp_timer_expired(timer, timeout) THEN Off ELSE timer + SECOND

-----------------------------------------------------------------------------
(* Transmission *)

Enabled(s) == {p \in Port : s.ports[p].state # "disabled"}
stp_is_root_bridge(s) == s.bridge_id = s.designated_root
stp_is_designated_port(s, p) ==
    /\ s.ports[p].designated_bridge = s.bridge_id
    /\ s.ports[p].designated_port = s.ports[p].port_id

\* Does F to every port, in order.  (t is bound to a value, so that TLC computes it only
\* once.)
ForEachPort(s, F(_, _)) ==
    LET after[p \in 0..NPorts] ==
          IF p = 0 THEN s ELSE CHOOSE x \in {F(t, p) : t \in {after[p - 1]}} : TRUE
    IN after[NPorts]

ForEachEnabledPort(s, F(_, _)) ==
    LET after[p \in 0..NPorts] ==
          IF p = 0 THEN s
          ELSE CHOOSE x \in {IF p \in Enabled(t) THEN F(t, p) ELSE t : t \in {after[p - 1]}} : TRUE
    IN after[NPorts]

\* htons of a flag of one byte: nothing is left of it on a little-endian machine.
Flag(set) == set /\ ~LittleEndian

stp_transmit_config(s, p) ==
    LET age == IF stp_is_root_bridge(s) THEN 0
               ELSE s.ports[s.root_port].message_age_timer + 1
        config == [type |-> "config", root_id |-> s.designated_root,
                   root_path_cost |-> s.root_path_cost, bridge_id |-> s.bridge_id,
                   port_id |-> s.ports[p].port_id, message_age |-> age,
                   topology_change |-> Flag(s.topology_change),
                   topology_change_ack |-> Flag(s.ports[p].topology_change_ack)]
    IN IF ~stp_is_root_bridge(s) /\ s.root_port = NULL THEN s
       ELSE IF s.ports[p].hold_timer # Off THEN [s EXCEPT !.ports[p].config_pending = TRUE]
       ELSE IF age >= max_age THEN s
       ELSE [s EXCEPT !.ports[p].topology_change_ack = FALSE,
                      !.ports[p].config_pending = FALSE,
                      !.ports[p].hold_timer = 0,
                      !.out = Append(@, [port |-> p, bpdu |-> config])]

generate_config(s, p) == IF stp_is_designated_port(s, p) THEN stp_transmit_config(s, p) ELSE s

stp_config_bpdu_generation(s) == ForEachEnabledPort(s, generate_config)

stp_transmit_tcn(s) ==
    IF s.root_port = NULL THEN s
    ELSE [s EXCEPT !.out = Append(@, [port |-> s.root_port, bpdu |-> [type |-> "tcn"]])]

-----------------------------------------------------------------------------
(* Topology changes *)

stp_topology_change_detection(s) ==
    LET t == IF stp_is_root_bridge(s)
             THEN [s EXCEPT !.topology_change = TRUE, !.topology_change_timer = 0]
             ELSE IF ~s.topology_change_detected
             THEN [stp_transmit_tcn(s) EXCEPT !.tcn_timer = 0]
             ELSE s
    IN [t EXCEPT !.topology_change_detected = TRUE]

stp_topology_change_acknowledged(s) ==
    [s EXCEPT !.topology_change_detected = FALSE, !.tcn_timer = Off]

-----------------------------------------------------------------------------
(* Root, designated ports and port states *)

\* The order of the tuples that the C code compares field by field.
Less(u, v) ==
    \E i \in DOMAIN u : u[i] < v[i] /\ \A j \in 1..(i - 1) : u[j] = v[j]

stp_supersedes_root(root, p) ==
    LET priority(d) == <<d.designated_root, d.designated_cost + d.path_cost,
                         d.designated_bridge, d.designated_port, d.port_id>>
    IN Less(priority(p), priority(root))

stp_root_selection(s) ==
    LET candidates == {p \in Enabled(s) : /\ ~stp_is_designated_port(s, p)
                                          /\ s.ports[p].designated_root < s.bridge_id}
        root == CHOOSE p \in candidates :
                   \A q \in candidates : ~stp_supersedes_root(s.ports[p], s.ports[q])
    IN IF candidates = {}
       THEN [s EXCEPT !.root_port = NULL, !.designated_root = s.bridge_id,
                      !.root_path_cost = 0]
       ELSE [s EXCEPT !.root_port = root,
                      !.designated_root = s.ports[root].designated_root,
                      !.root_path_cost = s.ports[root].designated_cost
                                           + s.ports[root].path_cost]

stp_become_designated_port(s, p) ==
    [s EXCEPT !.ports[p].designated_root = s.designated_root,
              !.ports[p].designated_cost = s.root_path_cost,
              !.ports[p].designated_bridge = s.bridge_id,
              !.ports[p].designated_port = s.ports[p].port_id]

select_designated_port(s, p) ==
    LET d == s.ports[p]
    IN IF \/ stp_is_designated_port(s, p)
          \/ d.designated_root # s.designated_root
          \/ s.root_path_cost < d.designated_cost
          \/ /\ s.root_path_cost = d.designated_cost
             /\ \/ s.bridge_id < d.designated_bridge
                \/ /\ s.bridge_id = d.designated_bridge
                   /\ d.port_id <= d.designated_port
       THEN stp_become_designated_port(s, p) ELSE s

stp_designated_port_selection(s) == ForEachEnabledPort(s, select_designated_port)

stp_configuration_update(s) == stp_designated_port_selection(stp_root_selection(s))

\* Faulty variant: the first of the changed ports is the one that changed last.
stp_set_port_state_last(s, p, state) ==
    LET new == state # s.ports[p].state /\ ~s.ports[p].state_changed
    IN [s EXCEPT !.ports[p].state = state,
                 !.ports[p].state_changed = @ \/ new,
                 !.first_changed_port = IF new THEN p ELSE @]

stp_set_port_state(s, p, state) ==
    LET new == state # s.ports[p].state /\ ~s.ports[p].state_changed
    IN [s EXCEPT !.ports[p].state = state,
                 !.ports[p].state_changed = @ \/ new,
                 !.first_changed_port = IF new THEN Min({@, p}) ELSE @]

\* Faulty variant: the port does not go through listening and learning.
stp_make_forwarding_at_once(s, p) ==
    IF s.ports[p].state = "blocking" THEN stp_set_port_state(s, p, "forwarding") ELSE s

stp_make_forwarding(s, p) ==
    IF s.ports[p].state = "blocking"
    THEN [stp_set_port_state(s, p, "listening") EXCEPT !.ports[p].forward_delay_timer = 0]
    ELSE s

stp_make_blocking(s, p) ==
    IF s.ports[p].state \in {"disabled", "blocking"} THEN s
    ELSE LET t == IF s.ports[p].state \in {"forwarding", "learning"}
                  THEN stp_topology_change_detection(s) ELSE s
         IN [stp_set_port_state(t, p, "blocking") EXCEPT !.ports[p].forward_delay_timer = Off]

select_port_state(s, p) ==
    LET quiet == [s EXCEPT !.ports[p].config_pending = FALSE,
                           !.ports[p].topology_change_ack = FALSE]
    IN IF p = s.root_port THEN stp_make_forwarding(quiet, p)
       ELSE IF stp_is_designated_port(s, p)
       THEN stp_make_forwarding([s EXCEPT !.ports[p].message_age_timer = Off], p)
       ELSE stp_make_blocking(quiet, p)

stp_port_state_selection(s) == ForEachEnabledPort(s, select_port_state)

\* Also the end of stp_message_age_timer_expiry.
stp_become_root_bridge(s) ==
    LET t == stp_config_bpdu_generation(
                 [stp_topology_change_detection(s) EXCEPT !.tcn_timer = Off])
    IN [t EXCEPT !.hello_timer = 0]

\* What follows a change of what the bridge knows; s is the state before it.
Reconsider(s, changed) ==
    LET t == stp_port_state_selection(stp_configuration_update(changed))
    IN IF stp_is_root_bridge(t) /\ ~stp_is_root_bridge(s)
       THEN stp_become_root_bridge(t) ELSE t

-----------------------------------------------------------------------------
(* Received BPDUs *)

stp_supersedes_port_info(s, p, c) ==
    LET d == s.ports[p]
        new == <<c.root_id, c.root_path_cost, c.bridge_id>>
        old == <<d.designated_root, d.designated_cost, d.designated_bridge>>
    IN \/ Less(new, old)
       \/ new = old /\ (c.bridge_id # s.bridge_id \/ c.port_id <= d.designated_port)

stp_record_config_information(s, p, c) ==
    [s EXCEPT !.ports[p].designated_root = c.root_id,
              !.ports[p].designated_cost = c.root_path_cost,
              !.ports[p].designated_bridge = c.bridge_id,
              !.ports[p].designated_port = c.port_id,
              !.ports[p].message_age_timer = c.message_age]

stp_received_config_bpdu(s, p, c) ==
    IF stp_supersedes_port_info(s, p, c)
    THEN LET t == stp_port_state_selection(stp_configuration_update(
                      stp_record_config_information(s, p, c)))
             demoted == stp_is_root_bridge(s) /\ ~stp_is_root_bridge(t)
             u == IF ~demoted THEN t
                  ELSE IF t.topology_change_detected
                  THEN [stp_transmit_tcn(t) EXCEPT !.hello_timer = Off, !.tcn_timer = 0,
                                                   !.topology_change_timer = Off]
                  ELSE [t EXCEPT !.hello_timer = Off]
             v == stp_config_bpdu_generation([u EXCEPT !.topology_change = c.topology_change])
         IN IF p # u.root_port THEN u
            ELSE IF c.topology_change_ack THEN stp_topology_change_acknowledged(v) ELSE v
    ELSE IF stp_is_designated_port(s, p) THEN stp_transmit_config(s, p)
    ELSE s

stp_received_tcn_bpdu(s, p) ==
    IF stp_is_designated_port(s, p)
    THEN stp_transmit_config([stp_topology_change_detection(s)
                                 EXCEPT !.ports[p].topology_change_ack = TRUE], p)
    ELSE s

stp_received_bpdu(s, p, bpdu) ==
    IF s.ports[p].state = "disabled" THEN s
    ELSE IF bpdu.type = "tcn" THEN stp_received_tcn_bpdu(s, p)
    ELSE IF bpdu.message_age >= max_age THEN s
    ELSE stp_received_config_bpdu(s, p, bpdu)

-----------------------------------------------------------------------------
(* Timers that expire *)

stp_hello_timer_expiry(s) == [stp_config_bpdu_generation(s) EXCEPT !.hello_timer = 0]

stp_tcn_timer_expiry(s) == [stp_transmit_tcn(s) EXCEPT !.tcn_timer = 0]

stp_topology_change_timer_expiry(s) ==
    [s EXCEPT !.topology_change_detected = FALSE, !.topology_change = FALSE]

stp_message_age_timer_expiry(s, p) == Reconsider(s, stp_become_designated_port(s, p))

\* Faulty variant: the delay is not started again for the learning state.
stp_forward_delay_timer_expiry_once(s, p) ==
    IF s.ports[p].state = "listening" THEN stp_set_port_state(s, p, "learning")
    ELSE IF s.ports[p].state = "learning" THEN stp_set_port_state(s, p, "forwarding")
    ELSE s

stp_forward_delay_timer_expiry(s, p) ==
    CASE s.ports[p].state = "listening" ->
            [stp_set_port_state(s, p, "learning") EXCEPT !.ports[p].forward_delay_timer = 0]
      [] s.ports[p].state = "learning" ->
            LET t == stp_set_port_state(s, p, "forwarding")
            IN IF \E q \in Enabled(t) : t.ports[q].designated_bridge = t.bridge_id
               THEN stp_topology_change_detection(t) ELSE t
      [] OTHER -> s

stp_hold_timer_expiry(s, p) ==
    IF s.ports[p].config_pending THEN stp_transmit_config(s, p) ELSE s

tick_message_age(s, p) ==
    LET t == [s EXCEPT !.ports[p].message_age_timer = Advanced(@, max_age)]
    IN IF stp_timer_expired(s.ports[p].message_age_timer, max_age)
       THEN stp_message_age_timer_expiry(t, p) ELSE t

tick_port(s, p) ==
    LET t == [s EXCEPT !.ports[p].forward_delay_timer = Advanced(@, forward_delay)]
        u == IF stp_timer_expired(s.ports[p].forward_delay_timer, forward_delay)
             THEN stp_forward_delay_timer_expiry(t, p) ELSE t
        v == [u EXCEPT !.ports[p].hold_timer = Advanced(@, SECOND)]
    IN IF stp_timer_expired(u.ports[p].hold_timer, SECOND)
       THEN stp_hold_timer_expiry(v, p) ELSE v

stp_tick(s) ==
    LET a == [s EXCEPT !.hello_timer = Advanced(@, hello_time)]
        b == IF stp_timer_expired(s.hello_timer, hello_time)
             THEN stp_hello_timer_expiry(a) ELSE a
        c == [b EXCEPT !.tcn_timer = Advanced(@, hello_time)]
        d == IF stp_timer_expired(b.tcn_timer, hello_time) THEN stp_tcn_timer_expiry(c) ELSE c
        e == [d EXCEPT !.topology_change_timer = Advanced(@, max_age + forward_delay)]
        f == IF stp_timer_expired(d.topology_change_timer, max_age + forward_delay)
             THEN stp_topology_change_timer_expiry(e) ELSE e
    IN ForEachEnabledPort(ForEachEnabledPort(f, tick_message_age), tick_port)

-----------------------------------------------------------------------------
(* Configuration *)

stp_initialize_port(s, p, state) ==
    LET t == stp_set_port_state(stp_become_designated_port(s, p), p, state)
    IN [t EXCEPT !.ports[p].topology_change_ack = FALSE, !.ports[p].config_pending = FALSE,
                 !.ports[p].message_age_timer = Off, !.ports[p].forward_delay_timer = Off,
                 !.ports[p].hold_timer = Off]

stp_port_enable(s, p) ==
    IF s.ports[p].state # "disabled" THEN s
    ELSE stp_port_state_selection(stp_initialize_port(s, p, "blocking"))

stp_port_disable(s, p) ==
    IF s.ports[p].state = "disabled" THEN s
    ELSE LET t == stp_set_port_state(stp_become_designated_port(s, p), p, "disabled")
         IN Reconsider(s, [t EXCEPT !.ports[p].topology_change_ack = FALSE,
                                    !.ports[p].config_pending = FALSE,
                                    !.ports[p].message_age_timer = Off,
                                    !.ports[p].forward_delay_timer = Off])

stp_port_set_path_cost(s, p, cost) ==
    IF s.ports[p].path_cost = cost THEN s
    ELSE stp_port_state_selection(stp_configuration_update(
             [s EXCEPT !.ports[p].path_cost = cost]))

set_bridge_id(s, id) ==
    IF id = s.bridge_id THEN s
    ELSE LET own == {p \in Enabled(s) : stp_is_designated_port(s, p)}
         IN Reconsider(s, [s EXCEPT !.bridge_id = id,
                !.ports = [p \in Port |-> IF p \in own
                             THEN [s.ports[p] EXCEPT !.designated_bridge = id]
                             ELSE s.ports[p]]])

\* Every port counts as changed.  flag is the state that the port watcher was told last,
\* "none" for a port of the datapath that it was told nothing about yet.
stp_create(id) ==
    LET disabled(p) == [port_id |-> p, state |-> "disabled", path_cost |-> FirstCost,
                        designated_root |-> id, designated_cost |-> 0,
                        designated_bridge |-> id, designated_port |-> p,
                        topology_change_ack |-> FALSE, config_pending |-> FALSE,
                        message_age_timer |-> Off, forward_delay_timer |-> Off,
                        hold_timer |-> Off, state_changed |-> TRUE, flag |-> "none"]
    IN [bridge_id |-> id, designated_root |-> id, root_path_cost |-> 0, root_port |-> NULL,
        topology_change_detected |-> FALSE, topology_change |-> FALSE,
        hello_timer |-> 0, tcn_timer |-> Off, topology_change_timer |-> Off,
        ports |-> [p \in Port |-> disabled(p)],
        first_changed_port |-> 1, out |-> <<>>]

\* stp_start, and the port watcher's first calls of stp_port_changed_cb: the features
\* reply names the ports that are up, before stp_periodic_cb does anything.
stp_start(id, up) ==
    LET enable(s, p) == IF p \in up THEN stp_port_enable(s, p) ELSE s
    IN [ForEachPort(stp_create(id), enable) EXCEPT !.out = <<>>]

\* The loop over stp_get_changed_port, which tells the port watcher about each port.
stp_get_changed_ports(s) ==
    [s EXCEPT !.ports = [p \in Port |->
                 IF p >= s.first_changed_port /\ s.ports[p].state_changed
                 THEN [s.ports[p] EXCEPT !.state_changed = FALSE, !.flag = s.ports[p].state]
                 ELSE s.ports[p]],
              !.first_changed_port = NPorts + 1]

-----------------------------------------------------------------------------
(* The network *)

Everywhere == Bridge \X Port
LanOf(x) == Lan[x[1]][x[2]]
StateOf(x) == bridge[x[1]].ports[x[2]].state

\* m after b has sent o; a disabled port hears nothing.
Sent(m, b, o) ==
    [c \in Bridge |-> [p \in Port |->
        IF /\ <<c, p>> # <<b, o.port>>
           /\ Lan[c][p] = Lan[b][o.port]
           /\ StateOf(<<c, p>>) # "disabled"
        THEN Append(m[c][p], o.bpdu) ELSE m[c][p]]]

\* net after b has sent out.
Carried(n, b, out) ==
    LET after[k \in 0..Len(out)] ==
          IF k = 0 THEN n ELSE CHOOSE x \in {Sent(m, b, out[k]) : m \in {after[k - 1]}} : TRUE
    IN after[Len(out)]

Does(b, s, n) ==
    /\ bridge' = [bridge EXCEPT ![b] = [s EXCEPT !.out = <<>>]]
    /\ net' = Carried(n, b, s.out)

NetEmpty == \A x \in Everywhere : net[x[1]][x[2]] = <<>>

\* Named by no bridge but b, and by no BPDU on its way.
Unused(id, b) ==
    /\ \A c \in Bridge \ {b} : bridge[c].bridge_id # id
    /\ \A x \in Everywhere : \A k \in DOMAIN net[x[1]][x[2]] :
          LET m == net[x[1]][x[2]][k] IN m.type = "config" => m.bridge_id # id

Init ==
    /\ \E up \in [Bridge -> SUBSET Port] :
          bridge = [b \in Bridge |-> stp_start(FirstId[b], up[b])]
    /\ net = [b \in Bridge |-> [p \in Port |-> <<>>]]
    /\ ticked = {}
    /\ changes = 0
    /\ losses = 0

stp_periodic_cb(b) ==
    /\ IF ticked = Bridge THEN NetEmpty ELSE b \notin ticked
    /\ ticked' = IF ticked = Bridge THEN {b} ELSE ticked \union {b}
    /\ Does(b, stp_get_changed_ports(stp_tick(bridge[b])), net)
    /\ UNCHANGED <<changes, losses>>

stp_local_packet_cb(b, p) ==
    /\ net[b][p] # <<>>
    /\ Does(b, stp_received_bpdu(bridge[b], p, Head(net[b][p])),
            [net EXCEPT ![b][p] = Tail(@)])
    /\ UNCHANGED <<ticked, changes, losses>>

Lose(b, p) ==
    /\ net[b][p] # <<>>
    /\ losses < MaxLosses
    /\ losses' = losses + 1
    /\ net' = [net EXCEPT ![b][p] = Tail(@)]
    /\ UNCHANGED <<bridge, ticked, changes>>

\* A port event of the datapath, with or without BPDUs under way: a port goes up with
\* some speed, or down.  A port that was down may be another one when it comes up, one
\* that the datapath has just made and floods through.
stp_port_changed_cb(b, p, up, cost, made) ==
    /\ changes < MaxChanges
    /\ changes' = changes + 1
    /\ made => up /\ p \notin Enabled(bridge[b])
    /\ LET s == IF made THEN [bridge[b] EXCEPT !.ports[p].flag = "none"] ELSE bridge[b]
       IN Does(b, IF up THEN stp_port_set_path_cost(stp_port_enable(s, p), p, cost)
                  ELSE stp_port_disable(s, p), net)
    /\ UNCHANGED <<ticked, losses>>

\* The local port brings a hardware address, which is nobody else's.
stp_local_port_changed_cb(b, id) ==
    /\ changes < MaxChanges
    /\ changes' = changes + 1
    /\ Unused(id, b)
    /\ Does(b, set_bridge_id(bridge[b], id), net)
    /\ UNCHANGED <<ticked, losses>>

Next ==
    \E b \in Bridge :
        \/ stp_periodic_cb(b)
        \/ \E p \in Port :
              \/ stp_local_packet_cb(b, p)
              \/ Lose(b, p)
              \/ \E cost \in Costs, made \in BOOLEAN :
                    stp_port_changed_cb(b, p, TRUE, cost, made)
              \/ stp_port_changed_cb(b, p, FALSE, FirstCost, FALSE)
        \/ \E id \in Id : stp_local_port_changed_cb(b, id)

Spec == Init /\ [][Next]_vars

\* The ticks of a second, whatever they do to the bridges.
Passes == \E b \in Bridge : ticked' = IF ticked = Bridge THEN {b} ELSE ticked \union {b}

\* stp_wait_cb wakes the main loop every second, so time passes on every bridge; a
\* second ends only when its BPDUs have arrived or are lost.
FairSpec == Spec /\ WF_ticked(Passes)

-----------------------------------------------------------------------------
(* Properties *)

Timers(d) == {d.message_age_timer, d.forward_delay_timer, d.hold_timer}

\* A set of ports that flood forms a loop if it leaves no LAN and no bridge by one
\* port only.
Loop(E) ==
    /\ E # {}
    /\ \A x \in E : \E y \in E \ {x} : y[1] = x[1]
    /\ \A x \in E : \E y \in E \ {x} : LanOf(y) = LanOf(x)

\* Where the datapath floods: through the ports that it was told are forwarding, and
\* through those that it was told nothing about.
Flooding == {x \in Everywhere : /\ bridge[x[1]].ports[x[2]].flag \in {"forwarding", "none"}
                                /\ StateOf(x) # "disabled"}

\* The next stp_periodic_cb of its bridge tells the port watcher about this new port.
ToBeTold(x) ==
    LET s == bridge[x[1]]
        d == s.ports[x[2]]
    IN d.flag = "none" /\ d.state_changed /\ x[2] >= s.first_changed_port

\* The ports that flood form a loop only through a new port, and only until the next
\* second of its bridge, when stp_periodic_cb tells the datapath about it (a port floods
\* from its start, and PORT_MOD comes later).  Ports that were told of form none, not
\* even while bridges disagree on the root, links come and go, BPDUs are lost, and what
\* the port watcher was told lags behind the states of the protocol.
\* Nothing is said of a bridge that has changed its id: BPDUs of its old id can make all
\* bridges believe in a root that is no more, with every port a root port or designated;
\* when that belief dies of age, the ports may just have become forwarding.
NoLoop ==
    (\A b \in Bridge : bridge[b].bridge_id = FirstId[b])
       => \A E \in SUBSET Flooding : Loop(E) => \E x \in E : ToBeTold(x)

\* Nothing that has to happen later was forgotten: a port on its way to forwarding has
\* its delay running, a port that relies on another bridge's information ages it, and
\* a bridge that is root says hello.
NothingForgotten ==
    \A b \in Bridge :
        LET s == bridge[b]
        IN /\ stp_is_root_bridge(s) => s.hello_timer # Off
           /\ \A p \in Enabled(s) :
                 /\ s.ports[p].state \in {"listening", "learning"}
                      <=> s.ports[p].forward_delay_timer # Off
                 /\ ~stp_is_designated_port(s, p) => s.ports[p].message_age_timer # Off

\* The tree that should result: the enabled ports, least costs to the root from which
\* it follows, and the best port of each LAN.
Up == {x \in Everywhere : StateOf(x) # "disabled"}
Far == 1000
LinksFrom(b) == {l \in Up \X Up : l[1][1] = b /\ l[2][1] # b /\ LanOf(l[1]) = LanOf(l[2])}
CostFrom(r) ==
    LET cost[n \in 0..Cardinality(Bridge)] ==
          [b \in Bridge |->
             IF n = 0 THEN IF b = r THEN 0 ELSE Far
             ELSE Min({cost[n - 1][b]}
                    \union {cost[n - 1][l[2][1]] + bridge[b].ports[l[1][2]].path_cost :
                              l \in LinksFrom(b)})]
    IN cost[Cardinality(Bridge)]
RootFor(b) == CHOOSE r \in Bridge :
    /\ CostFrom(r)[b] < Far
    /\ \A c \in Bridge : CostFrom(c)[b] < Far => bridge[r].bridge_id <= bridge[c].bridge_id

Converged ==
    /\ \A b \in Bridge :
          LET s == bridge[b]
              r == RootFor(b)
          IN /\ s.designated_root = bridge[r].bridge_id
             /\ s.root_path_cost = CostFrom(r)[b]
             /\ \A p \in Enabled(s) :
                   s.ports[p].flag = IF p = s.root_port \/ stp_is_designated_port(s, p)
                                     THEN "forwarding" ELSE "blocking"
    /\ \A x \in Up : \E y \in Up :
          /\ LanOf(x) = LanOf(y) /\ stp_is_designated_port(bridge[y[1]], y[2])
          /\ \A z \in Up \ {y} : LanOf(z) = LanOf(y)
                                   => ~stp_is_designated_port(bridge[z[1]], z[2])

\* Once ports and links stay as they are and no more BPDUs are lost, the bridges agree
\* for good on the least bridge id in reach, on least costs and on one designated
\* port for each LAN, and every port of the tree forwards and no other.
Converges == <>[]Converged
=============================================================================
