---------------------------- MODULE PortWatcher ----------------------------
(***************************************************************************)
(* The port watcher of the secure channel (secchan/port-watcher.c): a copy *)
(* of the ports of the datapath, kept from what is relayed to and from the *)
(* controller, and the glue that runs the spanning tree on that copy       *)
(* (secchan/stp-secchan.c).  The tree itself is module Stp; here a port    *)
(* that is enabled may enter any state at a tick.                          *)
(*                                                                         *)
(* The datapath is the kernel's (datapath/datapath.c): replies come over   *)
(* local_rconn and port events over async_rconn, each in order, and the    *)
(* relay receives from async_rconn only when local_rconn has nothing.      *)
(* PORT_DOWN acts on the spanning tree as a link that is down does.        *)
(***************************************************************************)
EXTENDS Naturals, Sequences

CONSTANTS
  Port, OFPP_LOCAL,  \* the port numbers, and the one of the local port
  Mac,               \* hardware addresses
  NULL,              \* no port
  MaxChanges,        \* bound: changes of the datapath's ports
  MaxMods,           \* bound: PORT_MODs and FEATURES_REQUESTs of the controller
  MaxMoves,          \* bound: changes of state by the spanning tree
  MaxRequests,       \* bound: FEATURES_REQUESTs of the port watcher on a connection
  MaxLosses          \* bound: losses of local_rconn and of async_rconn

\* struct ofp_phy_port, as far as anybody here looks at it.
PhyPort == [mac : Mac, config : SUBSET {"NO_STP", "NO_FLOOD"}, link : BOOLEAN,
            stp : {"LISTEN", "LEARN", "BLOCK", "FORWARD"}]

ASSUME PortWatcherAssumption ==
  /\ OFPP_LOCAL \in Port /\ NULL \notin Port \union Mac \union PhyPort
  /\ {MaxChanges, MaxMods, MaxMoves, MaxRequests, MaxLosses} \subseteq Nat

StpState == {"disabled", "blocking", "listening", "learning", "forwarding"}

VARIABLES
  dp,                \* the ports of the datapath (Fresh); their STP bits are never set
  entry,             \* per port, the copy, its state in the tree, and state_changed
  got_feature_reply,
  told,              \* what the callbacks for the local port last got
  crashed,           \* a null pointer was dereferenced
  toDp,              \* the queue of local_rconn
  rxbuf,             \* a message of the controller that waits for that queue
  local, async,      \* what the datapath sent: features, and port events
  held,              \* the relay's rxbuf for the controller
  toCtl,             \* the queue of remote_rconn
  ctl,               \* per port, the hardware address that the controller last heard of
  changes, mods, moves, requests, losses,
  \* History, for the properties: the ports
  missed,            \* whose last event was lost with async_rconn,
  gone,              \* a deletion of which was lost with async_rconn, with none since,
  unset              \* whose last PORT_MOD of the tree was lost with local_rconn

vars == <<dp, entry, got_feature_reply, told, crashed, toDp, rxbuf, local, async, held, toCtl, ctl,
          changes, mods, moves, requests, losses, missed, gone, unset>>
watcher == <<entry, got_feature_reply, told, crashed>>
history == <<missed, gone, unset>>
counters == <<changes, mods, moves, requests, losses>>

Fresh(mac) == [mac |-> mac, config |-> {}, link |-> TRUE, stp |-> "LISTEN"]

\* port_watcher_start and stp_start; the datapath has some ports already.  stp_create leaves
\* every port of the tree, so all but the local one, disabled and changed.
Init ==
  /\ dp \in {f \in [Port -> {NULL} \union {Fresh(m) : m \in Mac}] : f[OFPP_LOCAL] # NULL}
  /\ entry = [p \in Port |-> [view |-> NULL, stp |-> "disabled", changed |-> p # OFPP_LOCAL]]
  /\ got_feature_reply = FALSE /\ told = NULL /\ crashed = FALSE
  /\ toDp = << >> /\ rxbuf = << >> /\ local = << >> /\ async = << >>
  /\ held = << >> /\ toCtl = << >> /\ ctl = [p \in Port |-> NULL]
  /\ changes = 0 /\ mods = 0 /\ moves = 0 /\ requests = 0 /\ losses = 0
  /\ missed = {} /\ gone = {} /\ unset = {}

------------------------------------------------------------------------------
(* The spanning tree's callback *)

stp_set_port_state(e, state) ==
  [e EXCEPT !.stp = state, !.changed = @ \/ e.stp # state]

\* A port that is enabled starts as designated, so that it listens at once.
stp_port_changed_cb(e, p, new) ==
  IF p = OFPP_LOCAL THEN e
  ELSE IF new = NULL \/ (new # NULL => "NO_STP" \in new.config \/ ~new.link)
  THEN stp_set_port_state(e, "disabled")
  ELSE IF e.stp = "disabled" THEN stp_set_port_state(e, "listening")
  ELSE e

------------------------------------------------------------------------------
(* Messages from the datapath *)

\* The bits of the spanning tree are the watcher's own.
Merged(e, opp) == IF e.view = NULL THEN opp ELSE [opp EXCEPT !.stp = e.view.stp]

\* Faulty variant: the state is left out.
opp_differs_config(a, b) == a.mac # b.mac \/ a.config # b.config

opp_differs(a, b) == a # b

\* Faulty variant: a port that is deleted stays.
update_phy_port_stays(e, p, opp, reason) ==
  IF reason = "DELETE" THEN stp_port_changed_cb(e, p, NULL)
  ELSE [stp_port_changed_cb(e, p, Merged(e, opp)) EXCEPT !.view = Merged(e, opp)]

update_phy_port(e, p, opp, reason) ==
  IF reason = "DELETE"
  THEN IF e.view = NULL THEN e ELSE [stp_port_changed_cb(e, p, NULL) EXCEPT !.view = NULL]
  ELSE LET new == Merged(e, opp)
       IN IF e.view # NULL /\ (e.view # NULL => ~opp_differs(new, e.view)) THEN e
          ELSE [stp_port_changed_cb(e, p, new) EXCEPT !.view = new]

FeaturesReply(m) ==
  [p \in Port |-> IF m[p] = NULL THEN update_phy_port(entry[p], p, NULL, "DELETE")
                  ELSE update_phy_port(entry[p], p, m[p], "MODIFY")]

\* rconn_send to the controller; of its news, it uses the hardware addresses.
Queue(q, news, relayed) == Append(q, [relayed |-> relayed, news |-> news])

\* The relay sends a message on, or holds it while the last one is queued.
RelayOn(news) ==
  IF \E i \in DOMAIN toCtl : toCtl[i].relayed
  THEN held' = Queue(held, news, TRUE) /\ UNCHANGED toCtl
  ELSE toCtl' = Queue(toCtl, news, TRUE) /\ UNCHANGED held

ReceiveFeatures ==
  /\ ~crashed /\ held = << >> /\ local # << >>
  /\ LET m == Head(local)
     IN /\ entry' = FeaturesReply(m)
        /\ RelayOn([p \in Port |-> IF m[p] = NULL THEN NULL ELSE m[p].mac])
  /\ got_feature_reply' = TRUE
  /\ told' = entry'[OFPP_LOCAL].view
  /\ local' = Tail(local)
  /\ UNCHANGED <<dp, crashed, toDp, rxbuf, async, ctl, counters, history>>

TellLocal(p) == told' = IF p = OFPP_LOCAL THEN entry'[p].view ELSE told

ReceiveStatus ==
  /\ ~crashed /\ held = << >> /\ local = << >> /\ async # << >>
  /\ LET m == Head(async)
         news == IF m.reason = "DELETE" THEN NULL ELSE m.desc.mac
     IN /\ entry' = [entry EXCEPT ![m.port] = update_phy_port(@, m.port, m.desc, m.reason)]
        /\ RelayOn([p \in {m.port} |-> news])
        /\ TellLocal(m.port)
  /\ async' = Tail(async)
  /\ UNCHANGED <<dp, got_feature_reply, crashed, toDp, rxbuf, local, ctl, counters, history>>

RelayHeld ==
  /\ held # << >> /\ \A i \in DOMAIN toCtl : ~toCtl[i].relayed
  /\ toCtl' = toCtl \o held /\ held' = << >>
  /\ UNCHANGED <<dp, watcher, toDp, rxbuf, local, async, ctl, counters, history>>

ControllerReceives ==
  /\ toCtl # << >>
  /\ ctl' = [p \in Port |-> IF p \in DOMAIN Head(toCtl).news THEN Head(toCtl).news[p] ELSE ctl[p]]
  /\ toCtl' = Tail(toCtl)
  /\ UNCHANGED <<dp, watcher, toDp, rxbuf, local, async, held, counters, history>>

------------------------------------------------------------------------------
(* Messages from the controller *)

\* Faulty variant: the flags are taken whatever the mask says.
Masked_whole(config, new, mask) == new

Masked(config, new, mask) == (config \ mask) \union (new \intersect mask)

\* The controller modifies a port it has heard of; port_watcher_remote_packet_cb does not
\* check that the copy still has it.
ControllerMods(p, config) ==
  /\ ~crashed /\ mods < MaxMods /\ rxbuf = << >>
  /\ ctl[p] # NULL
  /\ IF entry[p].view = NULL THEN crashed' = TRUE /\ UNCHANGED <<entry, told>>
     ELSE LET new == [entry[p].view EXCEPT !.config = Masked(@, config, {"NO_STP"})]
          IN /\ entry' = [entry EXCEPT ![p] = [stp_port_changed_cb(@, p, new) EXCEPT !.view = new]]
             /\ TellLocal(p)
             /\ UNCHANGED crashed
  /\ rxbuf' = <<[port |-> p, mac |-> ctl[p], config |-> config, mask |-> {"NO_STP"}]>>
  /\ mods' = mods + 1
  /\ UNCHANGED <<dp, got_feature_reply, toDp, local, async, held, toCtl, ctl,
                 changes, moves, requests, losses, history>>

ControllerAsks ==
  /\ ~crashed /\ mods < MaxMods /\ rxbuf = << >>
  /\ rxbuf' = <<[from |-> "controller"]>>
  /\ mods' = mods + 1
  /\ UNCHANGED <<dp, watcher, toDp, local, async, held, toCtl, ctl, changes, moves, requests, losses,
                 history>>

\* The relay sends it to the datapath.
RelayRemote ==
  /\ ~crashed /\ rxbuf # << >>
  /\ toDp' = toDp \o rxbuf /\ rxbuf' = << >>
  /\ UNCHANGED <<dp, watcher, local, async, held, toCtl, ctl, counters, history>>

------------------------------------------------------------------------------
(* The main loop *)

port_watcher_periodic_cb ==
  /\ ~crashed /\ ~got_feature_reply /\ requests < MaxRequests
  /\ \A i \in DOMAIN toDp : toDp[i] # [from |-> "watcher"]
  /\ toDp' = Append(toDp, [from |-> "watcher"])
  /\ requests' = requests + 1
  /\ UNCHANGED <<dp, watcher, rxbuf, local, async, held, toCtl, ctl, changes, mods, moves, losses,
                 history>>

p_state(s) == CASE s = "listening" -> "LISTEN" [] s = "learning" -> "LEARN"
                [] s = "blocking" -> "BLOCK" [] OTHER -> "FORWARD"
p_config(s) == IF s = "forwarding" THEN {} ELSE {"NO_FLOOD"}

\* port_watcher_set_flags does nothing when the copy has the flags already.
SetsFlags(v, s) == v.stp # p_state(s) \/ v.config \intersect {"NO_FLOOD"} # p_config(s)

\* The port whose state has changed, if the tree owns its flags.
Flagged(e) == /\ e.changed
              /\ e.view # NULL
              /\ e.view # NULL => "NO_STP" \notin e.view.config /\ SetsFlags(e.view, e.stp)

set_flags(e) ==
  IF Flagged(e)
  THEN [e EXCEPT !.view.config = Masked(@, p_config(e.stp), {"NO_FLOOD"}),
                 !.view.stp = p_state(e.stp), !.changed = FALSE]
  ELSE [e EXCEPT !.changed = FALSE]

\* stp_periodic_cb: a tick, after which port p has state s, then the ports that changed.
\* A call handles one of them; the others follow in the next, before anything else could
\* change their state.  A tick ends one forward delay, so that a port forwards only after it
\* was seen learning.
stp_periodic_cb(p, s) ==
  /\ ~crashed /\ got_feature_reply /\ p # OFPP_LOCAL
  /\ \/ s = entry[p].stp /\ entry[p].changed /\ UNCHANGED moves
     \/ /\ s # entry[p].stp /\ entry[p].stp # "disabled" /\ s # "disabled"
        /\ s = "forwarding" => entry[p].stp = "learning"
        /\ moves < MaxMoves /\ moves' = moves + 1
  /\ LET e == stp_set_port_state(entry[p], s)
         v == set_flags(e).view
     IN /\ entry' = [entry EXCEPT ![p] = set_flags(e)]
        /\ IF Flagged(e)
           THEN /\ toDp' = Append(toDp, [port |-> p, mac |-> v.mac, config |-> v.config,
                                         mask |-> {"NO_FLOOD"}])
                /\ toCtl' = Queue(toCtl, [q \in {p} |-> v.mac], FALSE)
                /\ unset' = unset \ {p}
           ELSE UNCHANGED <<toDp, toCtl, unset>>
  /\ UNCHANGED <<dp, got_feature_reply, told, crashed, rxbuf, local, async, held, ctl,
                 changes, mods, requests, losses, missed, gone>>

------------------------------------------------------------------------------
(* The datapath *)

\* The events of a port that are under way, and whether it is deleted by one.
Pending(p) == \E i \in DOMAIN async : async[i].port = p
Leaving(p) == \E i \in DOMAIN async : async[i].port = p /\ async[i].reason = "DELETE"

\* A PORT_MOD of the spanning tree.
SetsNoFlood(m, p) == "from" \notin DOMAIN m /\ m.port = p /\ "NO_FLOOD" \in m.mask

\* A port comes, goes, or its link changes; the subscribers are told.
DpChanges(p, reason, desc) ==
  /\ changes < MaxChanges /\ changes' = changes + 1
  /\ dp' = [dp EXCEPT ![p] = IF reason = "DELETE" THEN NULL ELSE desc]
  /\ async' = Append(async, [reason |-> reason, port |-> p, desc |-> desc])
  /\ missed' = missed \ {p} /\ gone' = IF reason = "DELETE" THEN gone \ {p} ELSE gone
  /\ UNCHANGED <<watcher, toDp, rxbuf, local, held, toCtl, ctl, mods, moves, requests, losses, unset>>

\* The local port comes with the datapath.
add_switch_port(p) ==
  p # OFPP_LOCAL /\ dp[p] = NULL /\ \E m \in Mac : DpChanges(p, "ADD", Fresh(m))
dp_del_switch_port(p) == dp[p] # NULL /\ DpChanges(p, "DELETE", dp[p])
dp_device_event(p) ==
  dp[p] # NULL /\ DpChanges(p, "MODIFY", [dp[p] EXCEPT !.link = ~@])

\* The datapath receives: a PORT_MOD changes the flags, and nobody is told.
DpReceives ==
  /\ toDp # << >> /\ toDp' = Tail(toDp)
  /\ LET m == Head(toDp)
     IN IF "from" \in DOMAIN m THEN local' = Append(local, dp) /\ UNCHANGED dp
        ELSE /\ dp' = IF dp[m.port] # NULL /\ (dp[m.port] # NULL => dp[m.port].mac = m.mac)
                      THEN [dp EXCEPT ![m.port].config = Masked(@, m.config, m.mask)] ELSE dp
             /\ UNCHANGED local
  /\ UNCHANGED <<watcher, rxbuf, async, held, toCtl, ctl, counters, history>>

\* local_rconn loses its connection, and its queue with it, then connects again.
LoseLocal ==
  /\ losses < MaxLosses /\ losses' = losses + 1
  /\ toDp' = << >> /\ local' = << >> /\ requests' = 0
  /\ unset' = unset \union {p \in Port : \E i \in DOMAIN toDp : SetsNoFlood(toDp[i], p)}
  /\ UNCHANGED <<dp, watcher, rxbuf, async, held, toCtl, ctl, changes, mods, moves, missed, gone>>

\* async_rconn loses its connection, then subscribes again.  Nobody asks for the ports again:
\* port_watcher_periodic_cb has its reply.
LoseAsync ==
  /\ losses < MaxLosses /\ losses' = losses + 1
  /\ async' = << >>
  /\ missed' = missed \union {p \in Port : Pending(p)} /\ gone' = gone \union {p \in Port : Leaving(p)}
  /\ UNCHANGED <<dp, watcher, toDp, rxbuf, local, held, toCtl, ctl, changes, mods, moves, requests,
                 unset>>

Datapath == \/ DpReceives \/ LoseLocal \/ LoseAsync
            \/ \E p \in Port : add_switch_port(p) \/ dp_del_switch_port(p) \/ dp_device_event(p)
Periodic == port_watcher_periodic_cb \/ \E p \in Port, s \in StpState : stp_periodic_cb(p, s)
Controller == \/ ControllerReceives \/ ControllerAsks
              \/ \E p \in Port, c \in SUBSET {"NO_STP"} : ControllerMods(p, c)
RelayRun == ReceiveFeatures \/ ReceiveStatus \/ RelayHeld \/ RelayRemote

\* Everything has been delivered, and the spanning tree has had its turn.
Quiet == /\ toDp = << >> /\ rxbuf = << >> /\ local = << >> /\ async = << >>
         /\ held = << >> /\ toCtl = << >> /\ got_feature_reply
         /\ \A p \in Port : ~entry[p].changed

Rest == (Quiet \/ crashed) /\ UNCHANGED vars

Next == Datapath \/ Periodic \/ Controller \/ RelayRun \/ Rest

Spec == Init /\ [][Next]_vars

\* Every process runs: the main loop of secchan, the datapath, the controller.
FairSpec ==
  /\ Spec
  /\ WF_vars(RelayRun) /\ WF_vars(ControllerReceives) /\ WF_vars(DpReceives)
  /\ WF_vars(port_watcher_periodic_cb)
  /\ WF_vars(\E p \in Port : stp_periodic_cb(p, entry[p].stp))

------------------------------------------------------------------------------
(* Properties *)

\* The copy says of a port what the datapath does.
Agreed(p) == /\ (entry[p].view = NULL) = (dp[p] = NULL)
             /\ dp[p] # NULL => /\ entry[p].view.mac = dp[p].mac
                                /\ entry[p].view.link = dp[p].link

\* Once every message has been delivered, the copy has every port as the datapath does whose
\* last event was not lost with async_rconn, although replies and port events come over two
\* connections that the relay does not read in the order of the events, and although either
\* connection may break at any moment (update_phy_port, the loops of
\* port_watcher_local_packet_cb).  The watcher does not ask for what it has missed.
ViewAgrees == Quiet => \A p \in Port \ missed : Agreed(p)

\* Once every message has been delivered, the datapath floods through a port that forwards and
\* not through one that blocks or learns, whatever PORT_MODs and port events have crossed
\* (stp_periodic_cb, port_watcher_set_flags).  Nothing sends again what a broken connection
\* took along: the last PORT_MOD for the port must not have been lost, and no deletion of a
\* port whose number has come back.
FloodFollowsStp ==
  Quiet => \A p \in Port \ (unset \union gone) :
    dp[p] # NULL /\ entry[p].stp \in {"blocking", "learning", "forwarding"} =>
      ("NO_FLOOD" \in dp[p].config) = (entry[p].stp # "forwarding")

\* The watcher learns the datapath's ports, and when these stop changing, its copy comes to
\* agree with them for ever, but for a port whose last event was lost with async_rconn.
Settles == <>[](crashed \/ (got_feature_reply /\ \A p \in Port \ missed : Agreed(p)))
=============================================================================
