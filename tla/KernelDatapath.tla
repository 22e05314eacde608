--------------------------- MODULE KernelDatapath ---------------------------
(***************************************************************************)
(* The life of datapaths and ports in the kernel module: the commands of   *)
(* Generic Netlink (datapath/datapath.c, one at a time under genl_mutex),  *)
(* frames received under rcu_read_lock, the work that sends the frames of  *)
(* the of device (datapath/dp_dev.c), the maintenance thread of each       *)
(* datapath, and the device events (datapath/dp_notify.c), which the       *)
(* kernel delivers with the rtnl lock held.                                *)
(*                                                                         *)
(* A datapath or a port is an entry of dp or port for ever; "live" says    *)
(* whether its memory is still allocated, so that a pointer kept too long  *)
(* shows.  Flow tables are module FlowTable; packet contents are left out. *)
(***************************************************************************)
EXTENDS Integers, Sequences, FiniteSets

CONSTANTS
  Idx,               \* numbers of datapaths
  Devs, OfDev,       \* Ethernet devices, and what stands for an of device
  Cpus,              \* processors that receive frames
  Slots, OFPP_LOCAL,      \* port numbers below DP_MAX_PORTS, and OFPP_LOCAL
  Events,            \* the events devices may have
  Faults,            \* whether allocations and kthread_run may fail
  TxQueueLen,        \* tx_queue_len of an of device
  MaxDps, MaxPorts,  \* bounds: datapaths and ports ever allocated
  MaxFrames,         \* bound: frames sent through of devices
  MaxEvents          \* bound: device events

ASSUME KernelDatapathAssumption ==
  /\ IsFiniteSet(Idx) /\ "work" \notin Cpus
  /\ OfDev \notin Devs /\ OFPP_LOCAL \notin Slots /\ Slots \subseteq Nat
  /\ Events \subseteq {"CHANGE", "DOWN", "UP", "UNREGISTER"}
  /\ Faults \in BOOLEAN
  /\ {TxQueueLen, MaxDps, MaxPorts, MaxFrames, MaxEvents} \subseteq Nat

VARIABLES
  dps,               \* dps[i], the datapath numbered i, or 0
  dp, port,          \* the datapaths and ports ever allocated
  br_port,           \* the br_port of each device, or 0
  up, carrier,       \* IFF_UP and the carrier of each device
  modrefs,           \* references to the module
  genl,              \* the command in progress
  ret,               \* how the last command ended, if none is in progress
  rx,                \* per processor, the ports its frame holds (inside rcu_read_lock if any)
  work,              \* the frame dp_dev_do_xmit has in hand
  notif,             \* the event in dp_device_event; the rtnl lock is held if there is one
  frames, events

vars == <<dps, dp, port, br_port, up, carrier, modrefs, genl, ret, rx, work, notif, frames, events>>

Idle == [pc |-> "idle", cmd |-> "none", idx |-> 0, dev |-> OfDev, d |-> 0, p |-> 0, next |-> "idle", wait |-> {}]
NoResult == [cmd |-> "none", idx |-> 0, err |-> "0"]
NoFrame == [d |-> 0, p |-> 0]
NoEvent == [pc |-> "idle", p |-> 0, ev |-> "none"]

rtnl_free == notif.pc = "idle"
reading == {c \in Cpus : rx[c] # {}} \union {r \in {"work"} : work # NoFrame}

\* The module is loaded with no datapath; the devices are all up or all down.
Init ==
  /\ dps = [i \in Idx |-> 0] /\ dp = <<>> /\ port = <<>>
  /\ br_port = [v \in Devs |-> 0]
  /\ \E b \in BOOLEAN : up = [v \in Devs |-> b]
  /\ carrier = [v \in Devs |-> TRUE]
  /\ modrefs = 0
  /\ genl = Idle /\ ret = NoResult
  /\ rx = [c \in Cpus |-> {}] /\ work = NoFrame /\ notif = NoEvent
  /\ frames = 0 /\ events = 0

-----------------------------------------------------------------------------
(* Steps of the thread that handles a command.                             *)

others == <<br_port, up, carrier, rx, work, notif, frames, events>>

\* The handler returns err.
Return(cmd, i, err) == genl' = Idle /\ ret' = [cmd |-> cmd, idx |-> i, err |-> err]
Goto(pc) == genl' = [genl EXCEPT !.pc = pc] /\ UNCHANGED ret

\* synchronize_rcu waits for the readers of this moment, then goes on at next.
Synchronize(next) ==
  genl' = [genl EXCEPT !.pc = "synchronize_rcu", !.next = next, !.wait = reading] /\ UNCHANGED ret
synchronize_rcu ==
  /\ genl.pc = "synchronize_rcu" /\ genl.wait = {}
  /\ Goto(genl.next)
  /\ UNCHANGED <<dps, dp, port, modrefs, others>>

\* The first lines of new_dp, with dp_genl_add.
new_dp(i) ==
  /\ genl.pc = "idle"
  /\ \/ /\ dps[i] # 0
        /\ Return("ADD_DP", i, "EEXIST")
        /\ UNCHANGED <<dp, modrefs>>
     \/ /\ dps[i] = 0 /\ Faults
        /\ Return("ADD_DP", i, "ENOMEM")
        /\ UNCHANGED <<dp, modrefs>>
     \/ /\ dps[i] = 0 /\ Len(dp) < MaxDps /\ Len(port) < MaxPorts
        /\ modrefs' = modrefs + 1
        /\ dp' = Append(dp, [idx |-> i, live |-> TRUE, reg |-> FALSE, chain |-> FALSE, list |-> {},
                             slots |-> [n \in Slots |-> 0], local |-> 0, task |-> "none",
                             timeout |-> FALSE, queue |-> 0, tx |-> FALSE])
        /\ genl' = [Idle EXCEPT !.pc = "dp_dev_setup", !.cmd = "ADD_DP", !.idx = i, !.d = Len(dp) + 1]
        /\ ret' = NoResult
  /\ UNCHANGED <<dps, port, others>>

\* The name is made from dp_idx, which is still 0 for every datapath, so it is
\* of0 and register_netdev refuses it when there is an of0 already.
of_name_taken == \E d \in DOMAIN dp : dp[d].reg
dp_dev_setup ==
  /\ genl.pc = "dp_dev_setup"
  /\ \/ /\ of_name_taken \/ Faults
        /\ dp' = [dp EXCEPT ![genl.d].live = FALSE]
        /\ modrefs' = modrefs - 1
        /\ Return("ADD_DP", genl.idx, IF of_name_taken THEN "EEXIST" ELSE "ENOMEM")
     \/ /\ ~of_name_taken
        /\ dp' = [dp EXCEPT ![genl.d].reg = TRUE, ![genl.d].tx = TRUE]
        /\ Goto("chain_create")
        /\ UNCHANGED modrefs
  /\ UNCHANGED <<dps, port, others>>

\* err is 0 since dp_dev_setup: a failure from here on ends with 0.
chain_create ==
  /\ genl.pc = "chain_create"
  /\ \/ Faults /\ Goto("netif_tx_disable") /\ UNCHANGED dp
     \/ Goto("new_local") /\ dp' = [dp EXCEPT ![genl.d].chain = TRUE]
  /\ UNCHANGED <<dps, port, modrefs, others>>

\* new_nbp, with the rtnl lock taken for dev_set_promiscuity.
NewPort(d, dev, no) ==
  /\ rtnl_free /\ Len(port) < MaxPorts
  /\ port' = Append(port, [dp |-> d, dev |-> dev, no |-> no, live |-> TRUE,
                           down |-> IF dev = OfDev THEN FALSE ELSE ~up[dev],
                           link_down |-> IF dev = OfDev THEN FALSE ELSE ~carrier[dev]])
  /\ dp' = [dp EXCEPT ![d].list = @ \union {Len(port) + 1},
                      ![d].slots = IF no = OFPP_LOCAL THEN @ ELSE [@ EXCEPT ![no] = Len(port) + 1],
                      ![d].local = IF no = OFPP_LOCAL THEN Len(port) + 1 ELSE @]
  /\ br_port' = IF no = OFPP_LOCAL THEN br_port ELSE [br_port EXCEPT ![dev] = Len(port) + 1]

\* When new_nbp fails the error is passed to dp_del_switch_port as a port: the
\* thread dies there, holding genl_mutex.
new_local ==
  /\ genl.pc = "new_local"
  /\ \/ Faults /\ Goto("oops") /\ UNCHANGED <<dp, port, br_port>>
     \/ NewPort(genl.d, OfDev, OFPP_LOCAL) /\ Goto("kthread_run")
  /\ UNCHANGED <<dps, modrefs, up, carrier, rx, work, notif, frames, events>>

kthread_run ==
  /\ genl.pc = "kthread_run"
  /\ \/ Faults /\ Synchronize("chain_destroy") /\ UNCHANGED <<dp, dps>>
     \/ /\ dp' = [dp EXCEPT ![genl.d].task = "run"]
        /\ dps' = [dps EXCEPT ![genl.idx] = genl.d]
        /\ Return("ADD_DP", genl.idx, "0")
  /\ UNCHANGED <<port, modrefs, others>>

\* Faulty variant: the ports and tables go while the thread is still running.
DelDpUnjoined(i) ==
  /\ genl.pc = "idle" /\ dps[i] # 0
  /\ dp' = [dp EXCEPT ![dps[i]].task = "stop"]
  /\ genl' = [Idle EXCEPT !.pc = "del_ports", !.cmd = "DEL_DP", !.idx = i, !.d = dps[i]]
  /\ ret' = NoResult
  /\ UNCHANGED <<dps, port, modrefs, others>>
\* dp_genl_del, and kthread_stop, which waits for dp_maint_func to end.
del_dp(i) ==
  /\ genl.pc = "idle"
  /\ \/ /\ dps[i] = 0
        /\ Return("DEL_DP", i, "ENOENT")
        /\ UNCHANGED dp
     \/ /\ dps[i] # 0
        /\ dp' = [dp EXCEPT ![dps[i]].task = "stop"]
        /\ genl' = [Idle EXCEPT !.pc = "kthread_stop", !.cmd = "DEL_DP", !.idx = i, !.d = dps[i]]
        /\ ret' = NoResult
  /\ UNCHANGED <<dps, port, modrefs, others>>
kthread_stop ==
  /\ genl.pc = "kthread_stop" /\ dp[genl.d].task = "exited"
  /\ Goto("del_ports")
  /\ UNCHANGED <<dps, dp, port, modrefs, others>>

\* The loop of del_dp over port_list, newest first, then dps[i] = NULL.
del_ports ==
  /\ genl.pc = "del_ports"
  /\ LET list == dp[genl.d].list IN
     \/ /\ \E p \in list :
             /\ \A q \in list : q <= p
             /\ genl' = [genl EXCEPT !.pc = "dev_set_promiscuity", !.p = p]
        /\ UNCHANGED <<dps, ret>>
     \/ /\ list = {}
        /\ dps' = [dps EXCEPT ![genl.idx] = 0]
        /\ Synchronize("netif_tx_disable")
  /\ UNCHANGED <<dp, port, modrefs, others>>

\* dp_genl_add_del_port with add_switch_port.
add_switch_port(i, dev) ==
  /\ genl.pc = "idle"
  /\ \/ /\ dps[i] = 0
        /\ Return("ADD_PORT", i, "ENOENT")
     \/ /\ dps[i] # 0 /\ \A n \in Slots : dp[dps[i]].slots[n] # 0
        /\ Return("ADD_PORT", i, "EXFULL")
     \/ /\ dps[i] # 0 /\ \E n \in Slots : dp[dps[i]].slots[n] = 0
        /\ \/ br_port[dev] # 0 /\ Return("ADD_PORT", i, "EBUSY")
           \/ br_port[dev] = 0 /\ Faults /\ Return("ADD_PORT", i, "ENOMEM")
           \/ /\ br_port[dev] = 0 /\ Len(port) < MaxPorts
              /\ genl' = [Idle EXCEPT !.pc = "new_nbp", !.cmd = "ADD_PORT", !.idx = i, !.d = dps[i], !.dev = dev]
              /\ ret' = NoResult
  /\ UNCHANGED <<dps, dp, port, modrefs, others>>

find_portno(d) == {n \in Slots : dp[d].slots[n] = 0 /\ \A m \in Slots : m < n => dp[d].slots[m] # 0}
new_nbp ==
  /\ genl.pc = "new_nbp"
  /\ \E n \in find_portno(genl.d) : NewPort(genl.d, genl.dev, n)
  /\ Return("ADD_PORT", genl.idx, "0")
  /\ UNCHANGED <<dps, modrefs, up, carrier, rx, work, notif, frames, events>>

del_switch_port(i, dev) ==
  /\ genl.pc = "idle"
  /\ IF dps[i] = 0 \/ br_port[dev] = 0
     THEN Return("DEL_PORT", i, "ENOENT")
     ELSE IF port[br_port[dev]].dp # dps[i]
     THEN Return("DEL_PORT", i, "ENOENT")
     ELSE /\ genl' = [Idle EXCEPT !.pc = "dev_set_promiscuity", !.cmd = "DEL_PORT", !.idx = i,
                                  !.d = dps[i], !.p = br_port[dev]]
          /\ ret' = NoResult
  /\ UNCHANGED <<dps, dp, port, modrefs, others>>

\* dp_del_switch_port, up to the end of its rtnl section.
dev_set_promiscuity ==
  /\ genl.pc = "dev_set_promiscuity" /\ rtnl_free
  /\ Goto("unlink")
  /\ UNCHANGED <<dps, dp, port, modrefs, others>>

\* The port leaves port_list, ports[] and br_port.
Unlink(slot_too, grace) ==
  LET p == port[genl.p] IN
  /\ genl.pc = "unlink"
  /\ dp' = [dp EXCEPT ![p.dp].list = @ \ {genl.p},
                      ![p.dp].slots = IF p.no = OFPP_LOCAL \/ ~slot_too THEN @ ELSE [@ EXCEPT ![p.no] = 0]]
  /\ br_port' = IF p.dev = OfDev THEN br_port ELSE [br_port EXCEPT ![p.dev] = 0]
  /\ IF grace THEN Synchronize("kfree_port") ELSE Goto("kfree_port")
  /\ UNCHANGED <<dps, port, modrefs, up, carrier, rx, work, notif, frames, events>>
\* Faulty variant: the port is freed without waiting for the readers.
UnlinkNoGrace == Unlink(TRUE, FALSE)
\* Faulty variant: ports[] keeps the pointer.
UnlinkKeepsSlot == Unlink(FALSE, TRUE)
unlink == Unlink(TRUE, TRUE)

kfree_port ==
  /\ genl.pc = "kfree_port"
  /\ port' = [port EXCEPT ![genl.p].live = FALSE]
  /\ IF genl.cmd = "DEL_DP" THEN Goto("del_ports") ELSE Return("DEL_PORT", genl.idx, "0")
  /\ UNCHANGED <<dps, dp, modrefs, others>>

\* dp_dev_destroy: netif_tx_disable and synchronize_net, skb_queue_purge, and
\* unregister_netdev, which waits until nobody has a reference to the device.
netif_tx_disable ==
  /\ genl.pc = "netif_tx_disable"
  /\ dp' = [dp EXCEPT ![genl.d].tx = FALSE]
  /\ Synchronize("unregister_netdev")
  /\ UNCHANGED <<dps, port, modrefs, others>>
netdev_refs(d) == {p \in DOMAIN port : port[p].live /\ port[p].dp = d /\ port[p].no = OFPP_LOCAL}
unregister_netdev ==
  /\ genl.pc = "unregister_netdev" /\ netdev_refs(genl.d) = {}
  /\ dp' = [dp EXCEPT ![genl.d].queue = 0, ![genl.d].reg = FALSE, ![genl.d].tx = FALSE]
  /\ IF genl.cmd = "ADD_DP" THEN Goto("kfree_dp") ELSE Synchronize("chain_destroy")
  /\ UNCHANGED <<dps, port, modrefs, others>>

\* chain_destroy, after its synchronize_rcu; with new_dp the device comes next.
chain_destroy ==
  /\ genl.pc = "chain_destroy"
  /\ dp' = [dp EXCEPT ![genl.d].chain = FALSE]
  /\ Goto(IF genl.cmd = "ADD_DP" THEN "netif_tx_disable" ELSE "kfree_dp")
  /\ UNCHANGED <<dps, port, modrefs, others>>

kfree_dp ==
  /\ genl.pc = "kfree_dp"
  /\ dp' = [dp EXCEPT ![genl.d].live = FALSE]
  /\ modrefs' = modrefs - 1
  /\ Return(genl.cmd, genl.idx, "0")
  /\ UNCHANGED <<dps, port, others>>


\* dp_genl_openflow with recv_port_mod and dp_update_port_flags, for PORT_DOWN.
\* The configuration is set first; the work that moves the device, which runs
\* at once here, is scheduled if the configuration then still differs.
dp_update_port_flags(i, n, down) ==
  LET p == dp[dps[i]].slots[n]
      set == [port[p] EXCEPT !.down = down]
      scheduled == set.down # down
  IN /\ genl.pc = "idle" /\ dps[i] # 0 /\ p # 0
     /\ port' = [port EXCEPT ![p] = set]
     /\ up' = IF scheduled THEN [up EXCEPT ![port[p].dev] = ~down] ELSE up
     /\ UNCHANGED <<dps, dp, br_port, carrier, modrefs, genl, ret, rx, work, notif, frames, events>>

-----------------------------------------------------------------------------
(* Frames, the work of the of device, and the maintenance thread.          *)

quiet == <<dps, port, br_port, up, carrier, modrefs, ret, notif, events>>
leave(r) == genl' = [genl EXCEPT !.wait = @ \ {r}]

\* dp_frame_hook: a frame on dev enters do_port_input.
dp_frame_hook(c, dev) ==
  /\ rx[c] = {} /\ br_port[dev] # 0
  /\ rx' = [rx EXCEPT ![c] = {br_port[dev]}]
  /\ UNCHANGED <<quiet, dp, genl, work, frames>>
\* dp_output_port: the frame also uses the port it goes out of.
dp_output_port(c, n) ==
  /\ \E p \in rx[c] : LET q == dp[port[p].dp].slots[n] IN
       q \notin rx[c] \union {0} /\ rx' = [rx EXCEPT ![c] = @ \union {q}]
  /\ UNCHANGED <<quiet, dp, genl, work, frames>>
FrameDone(c) ==
  /\ rx[c] # {}
  /\ rx' = [rx EXCEPT ![c] = {}]
  /\ leave(c)
  /\ UNCHANGED <<quiet, dp, work, frames>>

\* dp_dev_xmit: at the limit the queue stops, with this frame still in it.
dp_dev_xmit(d) ==
  /\ dp[d].reg /\ dp[d].tx /\ frames < MaxFrames
  /\ dp' = [dp EXCEPT ![d].queue = @ + 1, ![d].tx = dp[d].queue < TxQueueLen]
  /\ frames' = frames + 1
  /\ UNCHANGED <<quiet, genl, rx, work>>
\* dp_dev_do_xmit: a frame enters the tables on dp->local_port; when there is
\* no other one the queue wakes.
dp_dev_do_xmit(d) ==
  /\ work = NoFrame /\ dp[d].queue > 0
  /\ work' = [d |-> d, p |-> dp[d].local]
  /\ dp' = [dp EXCEPT ![d].queue = @ - 1]
  /\ UNCHANGED <<quiet, genl, rx, frames>>
XmitDone ==
  /\ work # NoFrame
  /\ work' = NoFrame
  /\ dp' = [dp EXCEPT ![work.d].tx = @ \/ (dp[work.d].reg /\ dp[work.d].queue = 0)]
  /\ leave("work")
  /\ UNCHANGED <<quiet, rx, frames>>

\* dp_maint_func: chain_timeout uses the tables outside any RCU section.
TimeoutStart(d) ==
  /\ dp[d].task = "run" /\ ~dp[d].timeout
  /\ dp' = [dp EXCEPT ![d].timeout = TRUE]
  /\ UNCHANGED <<quiet, genl, rx, work, frames>>
TimeoutEnd(d) ==
  /\ dp[d].timeout
  /\ dp' = [dp EXCEPT ![d].timeout = FALSE]
  /\ UNCHANGED <<quiet, genl, rx, work, frames>>

MaintExit(d) ==
  /\ dp[d].task = "stop" /\ ~dp[d].timeout
  /\ dp' = [dp EXCEPT ![d].task = "exited"]
  /\ UNCHANGED <<quiet, genl, rx, work, frames>>

-----------------------------------------------------------------------------
(* Device events.                                                          *)

\* A device of a datapath changes; dp_device_event reads its br_port.
Event(dev, ev) ==
  /\ rtnl_free /\ events < MaxEvents /\ br_port[dev] # 0
  /\ ev = "DOWN" => up[dev]
  /\ ev = "UP" => ~up[dev]
  /\ up' = IF ev \in {"DOWN", "UP"} THEN [up EXCEPT ![dev] = ~@] ELSE up
  /\ carrier' = IF ev = "CHANGE" THEN [carrier EXCEPT ![dev] = ~@] ELSE carrier
  /\ notif' = [pc |-> "handle", p |-> br_port[dev], ev |-> ev]
  /\ events' = events + 1
  /\ UNCHANGED <<dps, dp, port, br_port, modrefs, genl, ret, rx, work, frames>>

\* Of UNREGISTER, dp_del_switch_port takes the rtnl lock that the caller of the
\* handler holds: it waits there.
dp_device_event ==
  LET p == port[notif.p] IN
  /\ notif.pc = "handle"
  /\ IF notif.ev = "UNREGISTER"
     THEN notif' = [notif EXCEPT !.pc = "rtnl_lock"] /\ UNCHANGED port
     ELSE /\ notif' = NoEvent
          /\ port' = [port EXCEPT ![notif.p] =
               IF ~p.live THEN p
               ELSE IF notif.ev = "CHANGE" THEN [p EXCEPT !.link_down = ~carrier[p.dev]]
               ELSE [p EXCEPT !.down = notif.ev = "DOWN"]]
  /\ UNCHANGED <<dps, dp, br_port, up, carrier, modrefs, genl, ret, rx, work, frames, events>>

-----------------------------------------------------------------------------
Command(i) ==
  \/ new_dp(i) \/ del_dp(i)
  \/ \E dev \in Devs : add_switch_port(i, dev) \/ del_switch_port(i, dev)
  \/ \E n \in Slots, down \in BOOLEAN : dp_update_port_flags(i, n, down)

Step ==
  \/ dp_dev_setup \/ chain_create \/ new_local \/ kthread_run
  \/ kthread_stop \/ del_ports \/ new_nbp \/ dev_set_promiscuity \/ unlink \/ kfree_port
  \/ netif_tx_disable \/ unregister_netdev \/ chain_destroy \/ kfree_dp \/ synchronize_rcu

Frame ==
  \/ \E c \in Cpus, dev \in Devs : dp_frame_hook(c, dev)
  \/ \E c \in Cpus, n \in Slots : dp_output_port(c, n)
  \/ \E d \in DOMAIN dp : dp_dev_xmit(d)

Finish == (\E c \in Cpus : FrameDone(c)) \/ XmitDone

Next ==
  \/ \E i \in Idx : Command(i)
  \/ Step \/ Frame \/ Finish
  \/ \E d \in DOMAIN dp : dp_dev_do_xmit(d) \/ TimeoutStart(d) \/ TimeoutEnd(d) \/ MaintExit(d)
  \/ \E dev \in Devs, ev \in Events : Event(dev, ev)
  \/ dp_device_event

Spec == Init /\ [][Next]_vars

-----------------------------------------------------------------------------
(* Properties.                                                             *)

\* dp_del_switch_port, del_dp: the ports a received frame holds, the port it
\* came in on and those it goes out of, are allocated until its RCU section
\* ends, and so are their datapath and its tables.
FrameUsesLivePort ==
  \A c \in Cpus : \A p \in rx[c] : port[p].live /\ dp[port[p].dp].live /\ dp[port[p].dp].chain

\* dp_maint_func, which no RCU section protects, only times out the flows of
\* tables that del_dp has not destroyed.
TimeoutUsesLiveChain ==
  \A d \in DOMAIN dp : dp[d].timeout => dp[d].live /\ dp[d].chain

\* Between commands every pointer leads to what is allocated and leads back:
\* dps to running datapaths, ports[] and br_port to the same port, port_list to
\* exactly the allocated ports of the datapath.  The module has one reference for
\* each datapath.  All of it on every way out of new_dp that returns.
PointersAreLive ==
  genl.pc = "idle" =>
    /\ \A i \in Idx : dps[i] # 0 => LET d == dp[dps[i]] IN
         /\ d.live /\ d.idx = i /\ d.chain /\ d.reg /\ d.task = "run" /\ d.local \in d.list
         /\ d.list = {p \in DOMAIN port : port[p].live /\ port[p].dp = dps[i]}
         /\ \A n \in Slots : d.slots[n] # 0 =>
              /\ d.slots[n] \in d.list /\ port[d.slots[n]].no = n
              /\ br_port[port[d.slots[n]].dev] = d.slots[n]
    /\ \A v \in Devs : br_port[v] # 0 => LET p == port[br_port[v]] IN
         p.live /\ p.dev = v /\ dp[p.dp].slots[p.no] = br_port[v]
    /\ modrefs = Cardinality({i \in Idx : dps[i] # 0})
=============================================================================
