------------------------ MODULE KernelDatapathProofs ------------------------
(***************************************************************************)
(* Frames, the maintenance threads and the commands of KernelDatapath only *)
(* use memory that is allocated, for any number of processors, devices,    *)
(* ports and datapaths, and wherever allocations fail.                     *)
(***************************************************************************)
EXTENDS KernelDatapath, SequenceTheorems, FiniteSetTheorems, TLAPS

(* The stages of the commands; a thread in synchronize_rcu is at the stage  *)
(* that comes next.                                                         *)
Setup    == {"dp_dev_setup", "chain_create", "new_local"}
Teardown == {"netif_tx_disable", "unregister_netdev", "chain_destroy", "kfree_dp"}
Removal  == {"dev_set_promiscuity", "unlink", "kfree_port"}
Stages   == Setup \union Teardown \union Removal
              \union {"kthread_run", "oops", "kthread_stop", "del_ports", "new_nbp"}

Stage == IF genl.pc = "synchronize_rcu" THEN genl.next ELSE genl.pc

Datapaths ==
  [idx : Idx, live : BOOLEAN, reg : BOOLEAN, chain : BOOLEAN, list : SUBSET Nat,
   slots : [Slots -> Nat], local : Nat, task : {"none", "run", "stop", "exited"},
   timeout : BOOLEAN, queue : Int, tx : BOOLEAN]
PortsOfDps ==
  [dp : Nat, dev : Devs \union {OfDev}, no : Slots \union {OFPP_LOCAL}, live : BOOLEAN,
   down : BOOLEAN, link_down : BOOLEAN]
Commands ==
  [pc : Stages \union {"idle", "synchronize_rcu"},
   cmd : {"none", "ADD_DP", "DEL_DP", "ADD_PORT", "DEL_PORT"},
   idx : Idx \union {0}, dev : Devs \union {OfDev}, d : Nat, p : Nat,
   next : Stages \union {"idle"}, wait : SUBSET (Cpus \union {"work"})]

TypeOK ==
  /\ dps \in [Idx -> Nat]
  /\ dp \in Seq(Datapaths)
  /\ port \in Seq(PortsOfDps)
  /\ br_port \in [Devs -> Nat]
  /\ up \in [Devs -> BOOLEAN] /\ carrier \in [Devs -> BOOLEAN]
  /\ modrefs \in Int
  /\ genl \in Commands
  /\ genl.pc = "synchronize_rcu" => genl.next # "idle"
  /\ rx \in [Cpus -> SUBSET Nat]
  /\ work # NoFrame => work.d \in DOMAIN dp
  /\ notif \in [pc : {"idle", "handle", "rtnl_lock"}, p : Nat, ev : Events \union {"none"}]
  /\ notif.pc = "handle" => notif.p \in DOMAIN port /\ port[notif.p].dev \in Devs

\* A port that has left its datapath and is not free yet.
Freeing(p) == Stage = "kfree_port" /\ genl.p = p

\* port_list, ports[], local_port and br_port agree with each other and with the
\* ports that are allocated.
Links ==
  /\ \A p \in DOMAIN port :
       /\ port[p].dp \in DOMAIN dp
       /\ port[p].live <=> (p \in dp[port[p].dp].list \/ Freeing(p))
  /\ \A d \in DOMAIN dp : \A p \in dp[d].list :
       /\ p \in DOMAIN port /\ port[p].dp = d
       /\ IF port[p].no = OFPP_LOCAL THEN p = dp[d].local /\ port[p].dev = OfDev
          ELSE /\ p # dp[d].local /\ dp[d].slots[port[p].no] = p
               /\ port[p].dev \in Devs /\ br_port[port[p].dev] = p
  /\ \A d \in DOMAIN dp : dp[d].local = 0 \/ dp[d].local \in DOMAIN port
  /\ \A d \in DOMAIN dp : \A n \in Slots : dp[d].slots[n] # 0 =>
       dp[d].slots[n] \in dp[d].list /\ port[dp[d].slots[n]].no = n
  /\ \A v \in Devs : br_port[v] # 0 =>
       /\ br_port[v] \in DOMAIN port /\ port[br_port[v]].dev = v
       /\ br_port[v] \in dp[port[br_port[v]].dp].list

\* A port that a frame holds is in its datapath, or is waited for.
Awaited(c, p) ==
  /\ genl.pc = "synchronize_rcu" /\ genl.next = "kfree_port"
  /\ genl.p = p /\ c \in genl.wait
Frames ==
  \A c \in Cpus : \A p \in rx[c] :
    /\ p \in DOMAIN port /\ port[p].no # OFPP_LOCAL
    /\ p \in dp[port[p].dp].list \/ Awaited(c, p)

\* A port that frames may hold belongs to a datapath with tables.
Whole(d) == dp[d].live /\ dp[d].chain
PortsWhole ==
  \A p \in DOMAIN port : port[p].live /\ port[p].no # OFPP_LOCAL => Whole(port[p].dp)

Deleting(i) == genl.pc # "idle" /\ genl.cmd = "DEL_DP" /\ genl.idx = i

\* The datapaths that commands find in dps.
Published ==
  \A i \in Idx : dps[i] # 0 =>
    /\ dps[i] \in DOMAIN dp /\ dp[dps[i]].idx = i
    /\ Whole(dps[i]) /\ dp[dps[i]].reg
    /\ \/ dp[dps[i]].task = "run" /\ dp[dps[i]].local \in dp[dps[i]].list
       \/ Deleting(i)

\* The maintenance threads.
Threads ==
  \A d \in DOMAIN dp :
    /\ dp[d].task \in {"run", "stop"} => Whole(d)
    /\ dp[d].timeout => dp[d].task \in {"run", "stop"}

\* What a command may rely on at each of its stages.
AddsDp ==
  LET d == dp[genl.d] IN
  /\ Stage \in Setup \union Teardown \union {"kthread_run", "oops"}
  /\ dps[genl.idx] = 0 /\ d.live /\ d.task = "none"
  /\ \A n \in Slots : d.slots[n] = 0
  /\ Stage \in Setup => d.list = {}
  /\ Stage \in {"chain_create", "new_local", "kthread_run"} => d.reg
  /\ Stage \in {"new_local", "kthread_run"} => d.chain
  /\ Stage = "kthread_run" => d.local \in d.list
DeletesDp ==
  LET d == dp[genl.d] IN
  /\ Stage \in Removal \union Teardown \union {"kthread_stop", "del_ports"}
  /\ IF Stage \in Teardown THEN dps[genl.idx] = 0 /\ d.list = {} /\ d.live
     ELSE dps[genl.idx] = genl.d
  /\ IF Stage = "kthread_stop" THEN d.task \in {"stop", "exited"} ELSE d.task = "exited"
AddsPort ==
  /\ Stage = "new_nbp" /\ dps[genl.idx] = genl.d
  /\ genl.dev \in Devs /\ br_port[genl.dev] = 0
DeletesPort ==
  Stage \in Removal /\ dps[genl.idx] = genl.d /\ port[genl.p].no # OFPP_LOCAL
RemovesPort ==
  /\ genl.p \in DOMAIN port /\ port[genl.p].dp = genl.d
  /\ genl.p \in dp[genl.d].list <=> Stage # "kfree_port"
InProgress ==
  genl.pc # "idle" =>
    /\ genl.d \in DOMAIN dp /\ genl.idx \in Idx /\ dp[genl.d].idx = genl.idx
    /\ genl.cmd # "none"
    /\ genl.cmd = "ADD_DP" => AddsDp
    /\ genl.cmd = "DEL_DP" => DeletesDp
    /\ genl.cmd = "ADD_PORT" => AddsPort
    /\ genl.cmd = "DEL_PORT" => DeletesPort
    /\ Stage \in Removal => RemovesPort

\* The module is referred to by each datapath in dps, and by the one that a command
\* has at hand outside of it.
Outside == genl.pc # "idle" /\ genl.cmd \in {"ADD_DP", "DEL_DP"} /\ dps[genl.idx] = 0
Referred ==
  modrefs = Cardinality({i \in Idx : dps[i] # 0}) + IF Outside THEN 1 ELSE 0

IInv ==
  /\ TypeOK /\ Links /\ Frames /\ PortsWhole /\ Published /\ Threads /\ InProgress
  /\ Referred

-----------------------------------------------------------------------------
(* What the invariant gives.                                               *)

\* The datapath and the tables of the ports that a received frame holds are there.
LEMMA FramesAreSafe ==
  ASSUME IInv
  PROVE  FrameUsesLivePort
<1> SUFFICES ASSUME NEW c \in Cpus, NEW p \in rx[c]
             PROVE  port[p].live /\ dp[port[p].dp].live /\ dp[port[p].dp].chain
  BY DEF FrameUsesLivePort
<1>1. /\ p \in DOMAIN port /\ port[p].no # OFPP_LOCAL
      /\ p \in dp[port[p].dp].list \/ Awaited(c, p)
  BY DEF IInv, Frames
<1>2. p \in dp[port[p].dp].list \/ Freeing(p)
  BY <1>1 DEF Awaited, Freeing, Stage
<1>3. port[p].live
  BY <1>1, <1>2 DEF IInv, Links
<1> QED
  BY <1>1, <1>3 DEF IInv, PortsWhole, Whole

\* So are the tables that a maintenance thread times out.
LEMMA TimeoutsAreSafe ==
  ASSUME IInv
  PROVE  TimeoutUsesLiveChain
BY DEF IInv, Threads, Whole, TimeoutUsesLiveChain

\* Between commands the pointers between datapaths, ports and devices agree.
LEMMA PointersAreSafe ==
  ASSUME IInv
  PROVE  PointersAreLive
<1> SUFFICES ASSUME genl.pc = "idle"
             PROVE  PointersAreLive
  BY DEF PointersAreLive
<1> USE DEF IInv
<1>1. \A p \in DOMAIN port : port[p].dp \in DOMAIN dp /\ (port[p].live <=> p \in dp[port[p].dp].list)
  BY DEF Links, Freeing, Stage
<1>2. ASSUME NEW i \in Idx, dps[i] # 0
      PROVE  LET d == dp[dps[i]] IN
         /\ d.live /\ d.idx = i /\ d.chain /\ d.reg /\ d.task = "run" /\ d.local \in d.list
         /\ d.list = {p \in DOMAIN port : port[p].live /\ port[p].dp = dps[i]}
         /\ \A n \in Slots : d.slots[n] # 0 =>
              /\ d.slots[n] \in d.list /\ port[d.slots[n]].no = n
              /\ br_port[port[d.slots[n]].dev] = d.slots[n]
  <2>1. dps[i] \in DOMAIN dp
    BY <1>2 DEF Published
  <2>2. LET d == dp[dps[i]] IN
          d.live /\ d.idx = i /\ d.chain /\ d.reg /\ d.task = "run" /\ d.local \in d.list
    BY <1>2 DEF Published, Whole, Deleting
  <2>3. \A p : p \in dp[dps[i]].list <=> p \in DOMAIN port /\ port[p].live /\ port[p].dp = dps[i]
    BY <2>1, <1>1 DEF Links
  <2>4. dp[dps[i]].list = {p \in DOMAIN port : port[p].live /\ port[p].dp = dps[i]}
    BY <2>3
  <2>5. ASSUME NEW n \in Slots, dp[dps[i]].slots[n] # 0
        PROVE  /\ dp[dps[i]].slots[n] \in dp[dps[i]].list /\ port[dp[dps[i]].slots[n]].no = n
               /\ br_port[port[dp[dps[i]].slots[n]].dev] = dp[dps[i]].slots[n]
    BY <2>1, <2>5, KernelDatapathAssumption DEF Links
  <2> QED
    BY <2>2, <2>4, <2>5
<1>3. ASSUME NEW v \in Devs, br_port[v] # 0
      PROVE  LET p == port[br_port[v]] IN
               p.live /\ p.dev = v /\ dp[p.dp].slots[p.no] = br_port[v]
  <2>1. br_port[v] \in DOMAIN port /\ port[br_port[v]].dev = v
    BY <1>3 DEF Links
  <2>2. br_port[v] \in dp[port[br_port[v]].dp].list
    BY <1>3 DEF Links
  <2>3. v # OfDev
    BY KernelDatapathAssumption
  <2> QED
    BY <2>1, <2>2, <2>3, <1>1 DEF Links
<1>4. modrefs = Cardinality({i \in Idx : dps[i] # 0})
  <2>1. ~Outside
    BY DEF Outside
  <2>2. IsFiniteSet({i \in Idx : dps[i] # 0})
    BY KernelDatapathAssumption, FS_Subset
  <2>3. Cardinality({i \in Idx : dps[i] # 0}) \in Nat
    BY <2>2, FS_CardinalityType
  <2> QED
    BY <2>1, <2>3 DEF Referred
<1> QED
  BY <1>2, <1>3, <1>4 DEF PointersAreLive

\* The module as it is loaded.
LEMMA InitIsSound ==
  ASSUME Init
  PROVE  IInv
<1> USE DEF Init
<1>1. dp \in Seq(Datapaths) /\ port \in Seq(PortsOfDps) /\ DOMAIN dp = {} /\ DOMAIN port = {}
  OBVIOUS
<1>2. TypeOK
  BY <1>1 DEF TypeOK, Idle, Commands, NoFrame, NoEvent, Stages, Setup, Teardown, Removal
<1>3. Links /\ Frames /\ PortsWhole /\ Published /\ Threads /\ InProgress
  BY <1>1 DEF Links, Frames, PortsWhole, Published, Threads, InProgress, Idle
<1>4. Referred
  <2>1. {i \in Idx : dps[i] # 0} = {}
    OBVIOUS
  <2>2. Cardinality({i \in Idx : dps[i] # 0}) = 0
    BY <2>1, FS_EmptySet
  <2>3. ~Outside
    BY DEF Outside, Idle
  <2> QED
    BY <2>2, <2>3 DEF Referred
<1> QED
  BY <1>2, <1>3, <1>4 DEF IInv

-----------------------------------------------------------------------------
(* What a step leaves alone.                                               *)

SameLinks ==
  /\ DOMAIN dp' = DOMAIN dp /\ DOMAIN port' = DOMAIN port /\ br_port' = br_port
  /\ \A d \in DOMAIN dp :
       /\ dp'[d].idx = dp[d].idx /\ dp'[d].list = dp[d].list
       /\ dp'[d].slots = dp[d].slots /\ dp'[d].local = dp[d].local
  /\ \A p \in DOMAIN port :
       /\ port'[p].dp = port[p].dp /\ port'[p].dev = port[p].dev
       /\ port'[p].no = port[p].no /\ port'[p].live = port[p].live
SameWhole ==
  \A d \in DOMAIN dp :
    dp'[d].live = dp[d].live /\ dp'[d].chain = dp[d].chain /\ dp'[d].reg = dp[d].reg
SameTasks ==
  \A d \in DOMAIN dp : dp'[d].task = dp[d].task /\ dp'[d].timeout = dp[d].timeout
SameDps == dps' = dps /\ modrefs' = modrefs

\* A frame may leave the readers that synchronize_rcu waits for.
SameCommand ==
  /\ genl'.pc = genl.pc /\ genl'.cmd = genl.cmd /\ genl'.idx = genl.idx /\ genl'.dev = genl.dev
  /\ genl'.d = genl.d /\ genl'.p = genl.p /\ genl'.next = genl.next
\* A command may come out of synchronize_rcu.
SameHand ==
  /\ Stage' = Stage /\ (genl'.pc = "idle" <=> genl.pc = "idle")
  /\ genl'.cmd = genl.cmd /\ genl'.idx = genl.idx /\ genl'.dev = genl.dev
  /\ genl'.d = genl.d /\ genl'.p = genl.p

\* Lists and pointers that a step leaves alone agree after it as they did before.
LEMMA LinksKept ==
  ASSUME TypeOK, Links, SameLinks, \A p \in DOMAIN port : Freeing(p)' <=> Freeing(p)
  PROVE  Links'
<1>1. \A p \in DOMAIN port' :
        /\ port'[p].dp \in DOMAIN dp'
        /\ port'[p].live <=> (p \in dp'[port'[p].dp].list \/ Freeing(p)')
  BY DEF Links, SameLinks
<1>2. \A d \in DOMAIN dp' : \A p \in dp'[d].list :
       /\ p \in DOMAIN port' /\ port'[p].dp = d
       /\ IF port'[p].no = OFPP_LOCAL THEN p = dp'[d].local /\ port'[p].dev = OfDev
          ELSE /\ p # dp'[d].local /\ dp'[d].slots[port'[p].no] = p
               /\ port'[p].dev \in Devs /\ br_port'[port'[p].dev] = p
  BY DEF Links, SameLinks
<1>3. \A d \in DOMAIN dp' : \A n \in Slots : dp'[d].slots[n] # 0 =>
       dp'[d].slots[n] \in dp'[d].list /\ port'[dp'[d].slots[n]].no = n
  BY DEF Links, SameLinks
<1>4. \A v \in Devs : br_port'[v] # 0 =>
       /\ br_port'[v] \in DOMAIN port' /\ port'[br_port'[v]].dev = v
       /\ br_port'[v] \in dp'[port'[br_port'[v]].dp].list
  BY DEF Links, SameLinks
<1>5. \A d \in DOMAIN dp' : dp'[d].local = 0 \/ dp'[d].local \in DOMAIN port'
  BY DEF Links, SameLinks
<1> QED
  BY <1>1, <1>2, <1>3, <1>4, <1>5 DEF Links

\* Ports keep their datapaths and tables.
LEMMA PortsWholeKept ==
  ASSUME Links, PortsWhole, SameLinks, SameWhole
  PROVE  PortsWhole'
BY DEF Links, PortsWhole, SameLinks, SameWhole, Whole

\* Outside of synchronize_rcu the ports that frames hold are all in their datapaths.
LEMMA FramesKept ==
  ASSUME Links, Frames, SameLinks, rx' = rx, genl.pc # "synchronize_rcu"
  PROVE  Frames'
<1>1. \A c \in Cpus : \A p \in rx[c] :
        p \in DOMAIN port /\ port[p].no # OFPP_LOCAL /\ p \in dp[port[p].dp].list
  BY DEF Frames, Awaited
<1>2. \A c \in Cpus : \A p \in rx'[c] :
        p \in DOMAIN port' /\ port'[p].no # OFPP_LOCAL /\ p \in dp'[port'[p].dp].list
  BY <1>1 DEF SameLinks, Links
<1> QED
  BY <1>2 DEF Frames

\* Datapaths stay published while their threads run and their commands go on.
LEMMA PublishedKept ==
  ASSUME Published, SameLinks, SameWhole, SameTasks, dps' = dps,
         \A i \in Idx : dps[i] # 0 /\ Deleting(i) => Deleting(i)'
  PROVE  Published'
BY DEF Published, SameLinks, SameWhole, SameTasks, Whole

\* The threads keep their tables.
LEMMA ThreadsKept ==
  ASSUME Threads, SameLinks, SameWhole, SameTasks
  PROVE  Threads'
BY DEF Threads, SameLinks, SameWhole, SameTasks, Whole

\* The command keeps what it relies on when nothing it uses changes.
LEMMA InProgressKept ==
  ASSUME TypeOK, InProgress, SameLinks, SameWhole, SameTasks, SameDps, SameHand
  PROVE  InProgress'
<1> SUFFICES ASSUME genl'.pc # "idle"
             PROVE  InProgress'
  BY DEF InProgress
<1>1. genl.pc # "idle"
  BY DEF SameHand
<1>2. Stage' = Stage
  BY DEF SameHand
<1>3. genl.d \in DOMAIN dp /\ genl.idx \in Idx /\ dp[genl.d].idx = genl.idx /\ genl.cmd # "none"
  BY <1>1 DEF InProgress
<1>4. genl'.d \in DOMAIN dp' /\ genl'.idx \in Idx /\ dp'[genl'.d].idx = genl'.idx /\ genl'.cmd # "none"
  BY <1>3 DEF SameHand, SameLinks
<1>5. genl'.cmd = "ADD_DP" => AddsDp'
  BY <1>1, <1>2, <1>3 DEF InProgress, AddsDp, SameHand, SameLinks, SameWhole, SameTasks, SameDps
<1>6. genl'.cmd = "DEL_DP" => DeletesDp'
  BY <1>1, <1>2, <1>3 DEF InProgress, DeletesDp, SameHand, SameLinks, SameWhole, SameTasks, SameDps
<1>7. genl'.cmd = "ADD_PORT" => AddsPort'
  BY <1>1, <1>2, <1>3 DEF InProgress, AddsPort, SameHand, SameLinks, SameDps
<1>8. Stage \in Removal => genl.p \in DOMAIN port
  BY <1>1 DEF InProgress, RemovesPort
<1>9. genl'.cmd = "DEL_PORT" => DeletesPort'
  BY <1>1, <1>2, <1>3, <1>8 DEF InProgress, DeletesPort, SameHand, SameLinks, SameDps
<1>10. Stage' \in Removal => RemovesPort'
  BY <1>1, <1>2, <1>3, <1>8 DEF InProgress, RemovesPort, SameHand, SameLinks
<1> QED
  BY <1>4, <1>5, <1>6, <1>7, <1>9, <1>10 DEF InProgress

\* The steps of frames and devices, which leave all of this alone, keep the invariant.
LEMMA Undisturbed ==
  ASSUME IInv, SameLinks, SameWhole, SameTasks, SameDps, SameCommand
  PROVE  Links' /\ PortsWhole' /\ Published' /\ Threads' /\ InProgress' /\ Referred'
<1>1. Links'
  BY LinksKept DEF IInv, Freeing, Stage, SameCommand
<1>2. PortsWhole' /\ Threads' /\ InProgress'
  <2>1. SameHand
    BY DEF SameCommand, SameHand, Stage
  <2> QED
    BY <2>1, PortsWholeKept, ThreadsKept, InProgressKept DEF IInv
<1>3. Published'
  BY PublishedKept DEF IInv, Deleting, SameCommand, SameDps
<1>4. Outside' <=> Outside
  BY DEF Outside, SameCommand, SameDps
<1>5. Referred'
  BY <1>4 DEF IInv, Referred, SameDps
<1> QED
  BY <1>1, <1>2, <1>3, <1>5

\* What changes with one datapath, and with one port.
LEMMA DpUpdated ==
  ASSUME TypeOK, NEW d \in DOMAIN dp, NEW e \in Datapaths, dp' = [dp EXCEPT ![d] = e]
  PROVE  /\ dp' \in Seq(Datapaths) /\ DOMAIN dp' = DOMAIN dp /\ dp'[d] = e
         /\ \A c \in DOMAIN dp : c # d => dp'[c] = dp[c]
BY ExceptSeq, LenProperties DEF TypeOK
LEMMA PortUpdated ==
  ASSUME TypeOK, NEW p \in DOMAIN port, NEW e \in PortsOfDps, port' = [port EXCEPT ![p] = e]
  PROVE  /\ port' \in Seq(PortsOfDps) /\ DOMAIN port' = DOMAIN port /\ port'[p] = e
         /\ \A q \in DOMAIN port : q # p => port'[q] = port[q]
BY ExceptSeq, LenProperties DEF TypeOK

\* An element of a sequence has the type of its elements.
LEMMA Typed ==
  ASSUME TypeOK
  PROVE  /\ \A d \in DOMAIN dp : dp[d] \in Datapaths
         /\ \A p \in DOMAIN port : port[p] \in PortsOfDps
BY ElementOfSeq, LenProperties DEF TypeOK

-----------------------------------------------------------------------------
(* Frames, work and devices.                                               *)

\* dp_frame_hook: a device leads to a port of a datapath.
LEMMA HookKeeps ==
  ASSUME IInv, NEW c \in Cpus, NEW dev \in Devs, dp_frame_hook(c, dev)
  PROVE  IInv'
<1> USE DEF dp_frame_hook, quiet
<1>1. SameLinks /\ SameWhole /\ SameTasks /\ SameDps /\ SameCommand
  BY DEF SameLinks, SameWhole, SameTasks, SameDps, SameCommand
<1>2. TypeOK'
  BY DEF IInv, TypeOK, NoFrame
<1>3. /\ br_port[dev] \in DOMAIN port /\ port[br_port[dev]].no # OFPP_LOCAL
      /\ br_port[dev] \in dp[port[br_port[dev]].dp].list
  BY KernelDatapathAssumption DEF IInv, Links
<1>4. Frames'
  BY <1>3 DEF IInv, Frames, Awaited, TypeOK
<1> QED
  BY <1>1, <1>2, <1>4, Undisturbed DEF IInv

\* dp_output_port: a port number leads to a port of the same datapath.
LEMMA OutputKeeps ==
  ASSUME IInv, NEW c \in Cpus, NEW n \in Slots, dp_output_port(c, n)
  PROVE  IInv'
<1> USE DEF dp_output_port, quiet
<1>1. SameLinks /\ SameWhole /\ SameTasks /\ SameDps /\ SameCommand
  BY DEF SameLinks, SameWhole, SameTasks, SameDps, SameCommand
<1>2. PICK p \in rx[c] : LET q == dp[port[p].dp].slots[n] IN
        q \notin rx[c] \union {0} /\ rx' = [rx EXCEPT ![c] = @ \union {q}]
  OBVIOUS
<1> DEFINE q == dp[port[p].dp].slots[n]
<1>3. p \in DOMAIN port /\ port[p].dp \in DOMAIN dp
  BY DEF IInv, Frames, Links
<1>4. q # 0 /\ rx' = [rx EXCEPT ![c] = @ \union {q}]
  BY <1>2
<1>5. q \in dp[port[p].dp].list /\ port[q].no = n
  BY <1>3, <1>4 DEF IInv, Links
<1>6. q \in DOMAIN port /\ port[q].dp = port[p].dp /\ port[q].no # OFPP_LOCAL
  BY <1>3, <1>5, KernelDatapathAssumption DEF IInv, Links
<1>7. q \in Nat
  BY <1>3, Typed DEF IInv, Datapaths
<1> HIDE DEF q
<1>8. TypeOK'
  BY <1>4, <1>7 DEF IInv, TypeOK, NoFrame
<1>9. Frames'
  BY <1>4, <1>5, <1>6 DEF IInv, Frames, Awaited, TypeOK
<1> QED
  BY <1>1, <1>8, <1>9, Undisturbed DEF IInv

\* The end of an RCU section: the readers that are waited for lose it, and no other.
LEMMA FrameDoneKeeps ==
  ASSUME IInv, NEW c \in Cpus, FrameDone(c)
  PROVE  IInv'
<1> USE DEF FrameDone, quiet, leave
<1>1. SameCommand /\ genl'.wait = genl.wait \ {c} /\ genl' \in Commands
  BY DEF SameCommand, IInv, TypeOK, Commands
<1>2. SameLinks /\ SameWhole /\ SameTasks /\ SameDps
  BY DEF SameLinks, SameWhole, SameTasks, SameDps
<1>3. TypeOK'
  BY <1>1 DEF IInv, TypeOK, NoFrame, SameCommand
<1>4. ASSUME NEW b \in Cpus, NEW p \in rx'[b]
      PROVE  /\ p \in DOMAIN port' /\ port'[p].no # OFPP_LOCAL
             /\ p \in dp'[port'[p].dp].list \/ Awaited(b, p)'
  <2>1. b # c /\ p \in rx[b]
    BY DEF IInv, TypeOK
  <2> QED
    BY <2>1, <1>1 DEF IInv, Frames, Awaited, SameCommand
<1> QED
  BY <1>1, <1>2, <1>3, <1>4, Undisturbed DEF IInv, Frames

\* A step that receives nothing, while the readers that are waited for stay.
LEMMA FramesStill ==
  ASSUME Links, Frames, SameLinks, SameCommand, rx' = rx,
         \A c \in Cpus : c \in genl.wait => c \in genl'.wait
  PROVE  Frames'
<1> SUFFICES ASSUME NEW c \in Cpus, NEW p \in rx[c]
             PROVE  /\ p \in DOMAIN port' /\ port'[p].no # OFPP_LOCAL
                    /\ p \in dp'[port'[p].dp].list \/ Awaited(c, p)'
  BY DEF Frames
<1>1. /\ p \in DOMAIN port /\ port[p].no # OFPP_LOCAL /\ port[p].dp \in DOMAIN dp
      /\ p \in dp[port[p].dp].list \/ Awaited(c, p)
  BY DEF Frames, Links
<1> QED
  BY <1>1 DEF SameLinks, SameCommand, Awaited

\* dp_dev_xmit: the queue of an of device grows, and stops at its limit.
LEMMA XmitKeeps ==
  ASSUME IInv, NEW d \in DOMAIN dp, dp_dev_xmit(d)
  PROVE  IInv'
<1> DEFINE e == [dp[d] EXCEPT !.queue = @ + 1, !.tx = dp[d].queue < TxQueueLen]
<1>1. dp[d] \in Datapaths
  BY Typed DEF IInv
<1>2. e \in Datapaths /\ dp' = [dp EXCEPT ![d] = e]
  <2>1. (dp[d].queue < TxQueueLen) \in BOOLEAN /\ dp[d].queue + 1 \in Int
    BY <1>1, KernelDatapathAssumption DEF Datapaths
  <2>2. e \in Datapaths
    BY <1>1, <2>1 DEF Datapaths
  <2>3. dp' = [dp EXCEPT ![d] = e]
    BY DEF dp_dev_xmit
  <2> QED
    BY <2>2, <2>3
<1>3. /\ e.idx = dp[d].idx /\ e.list = dp[d].list /\ e.slots = dp[d].slots /\ e.local = dp[d].local
      /\ e.live = dp[d].live /\ e.chain = dp[d].chain /\ e.reg = dp[d].reg
      /\ e.task = dp[d].task /\ e.timeout = dp[d].timeout
  BY <1>1 DEF Datapaths
<1> HIDE DEF e
<1>4. /\ dp' \in Seq(Datapaths) /\ DOMAIN dp' = DOMAIN dp /\ dp'[d] = e
      /\ \A c \in DOMAIN dp : c # d => dp'[c] = dp[c]
  BY <1>2, DpUpdated DEF IInv
<1>5. SameLinks /\ SameWhole /\ SameTasks /\ SameDps /\ SameCommand
  BY <1>3, <1>4 DEF SameLinks, SameWhole, SameTasks, SameDps, SameCommand, dp_dev_xmit, quiet
<1>6. TypeOK'
  BY <1>4 DEF IInv, TypeOK, NoFrame, dp_dev_xmit, quiet
<1>7. Frames'
  BY <1>5, FramesStill DEF IInv, dp_dev_xmit
<1> QED
  BY <1>5, <1>6, <1>7, Undisturbed DEF IInv

\* dp_dev_do_xmit: the frame at hand is of a datapath.
LEMMA DoXmitKeeps ==
  ASSUME IInv, NEW d \in DOMAIN dp, dp_dev_do_xmit(d)
  PROVE  IInv'
<1> DEFINE e == [dp[d] EXCEPT !.queue = @ - 1]
<1>1. dp[d] \in Datapaths
  BY Typed DEF IInv
<1>2. e \in Datapaths /\ dp' = [dp EXCEPT ![d] = e]
  BY <1>1 DEF Datapaths, dp_dev_do_xmit
<1>3. /\ e.idx = dp[d].idx /\ e.list = dp[d].list /\ e.slots = dp[d].slots /\ e.local = dp[d].local
      /\ e.live = dp[d].live /\ e.chain = dp[d].chain /\ e.reg = dp[d].reg
      /\ e.task = dp[d].task /\ e.timeout = dp[d].timeout
  BY <1>1 DEF Datapaths
<1> HIDE DEF e
<1>4. /\ dp' \in Seq(Datapaths) /\ DOMAIN dp' = DOMAIN dp /\ dp'[d] = e
      /\ \A c \in DOMAIN dp : c # d => dp'[c] = dp[c]
  BY <1>2, DpUpdated DEF IInv
<1>5. SameLinks /\ SameWhole /\ SameTasks /\ SameDps /\ SameCommand
  BY <1>3, <1>4 DEF SameLinks, SameWhole, SameTasks, SameDps, SameCommand, dp_dev_do_xmit, quiet
<1>6. TypeOK'
  BY <1>4 DEF IInv, TypeOK, NoFrame, dp_dev_do_xmit, quiet
<1>7. Frames'
  BY <1>5, FramesStill DEF IInv, dp_dev_do_xmit
<1> QED
  BY <1>5, <1>6, <1>7, Undisturbed DEF IInv

\* Its end: no processor stops being waited for.
LEMMA XmitDoneKeeps ==
  ASSUME IInv, XmitDone
  PROVE  IInv'
<1> DEFINE d == work.d
           e == [dp[d] EXCEPT !.tx = @ \/ (dp[d].reg /\ dp[d].queue = 0)]
<1>1. d \in DOMAIN dp /\ dp[d] \in Datapaths
  BY Typed DEF IInv, TypeOK, XmitDone
<1>2. e \in Datapaths /\ dp' = [dp EXCEPT ![d] = e]
  BY <1>1 DEF Datapaths, XmitDone
<1>3. /\ e.idx = dp[d].idx /\ e.list = dp[d].list /\ e.slots = dp[d].slots /\ e.local = dp[d].local
      /\ e.live = dp[d].live /\ e.chain = dp[d].chain /\ e.reg = dp[d].reg
      /\ e.task = dp[d].task /\ e.timeout = dp[d].timeout
  BY <1>1 DEF Datapaths
<1> HIDE DEF d, e
<1>4. /\ dp' \in Seq(Datapaths) /\ DOMAIN dp' = DOMAIN dp /\ dp'[d] = e
      /\ \A c \in DOMAIN dp : c # d => dp'[c] = dp[c]
  BY <1>1, <1>2, DpUpdated DEF IInv
<1>5. SameCommand /\ genl'.wait = genl.wait \ {"work"} /\ genl' \in Commands
  BY DEF SameCommand, IInv, TypeOK, Commands, XmitDone, leave
<1>6. SameLinks /\ SameWhole /\ SameTasks /\ SameDps
  BY <1>1, <1>3, <1>4 DEF SameLinks, SameWhole, SameTasks, SameDps, XmitDone, quiet
<1>7. TypeOK'
  BY <1>4, <1>5 DEF IInv, TypeOK, NoFrame, SameCommand, XmitDone, quiet
<1>8. Frames'
  BY <1>5, <1>6, FramesStill, KernelDatapathAssumption DEF IInv, XmitDone
<1> QED
  BY <1>5, <1>6, <1>7, <1>8, Undisturbed DEF IInv

\* dp_device_event and PORT_MOD set the flags of a port, and nothing else of it.
LEMMA PortFlagsKeep ==
  ASSUME IInv, NEW p \in DOMAIN port, NEW e \in PortsOfDps, port' = [port EXCEPT ![p] = e],
         e.dp = port[p].dp, e.dev = port[p].dev, e.no = port[p].no, e.live = port[p].live,
         UNCHANGED <<dps, dp, br_port, modrefs, genl, rx>>
  PROVE  /\ port' \in Seq(PortsOfDps) /\ SameLinks
         /\ Links' /\ Frames' /\ PortsWhole' /\ Published' /\ Threads' /\ InProgress' /\ Referred'
<1>1. /\ port' \in Seq(PortsOfDps) /\ DOMAIN port' = DOMAIN port /\ port'[p] = e
      /\ \A q \in DOMAIN port : q # p => port'[q] = port[q]
  BY PortUpdated DEF IInv
<1>2. SameLinks /\ SameWhole /\ SameTasks /\ SameDps /\ SameCommand
  BY <1>1 DEF SameLinks, SameWhole, SameTasks, SameDps, SameCommand
<1>3. Frames'
  BY <1>2, FramesStill DEF IInv
<1> QED
  BY <1>1, <1>2, <1>3, Undisturbed

LEMMA PortModKeeps ==
  ASSUME IInv, NEW i \in Idx, NEW n \in Slots, NEW down \in BOOLEAN, dp_update_port_flags(i, n, down)
  PROVE  IInv'
<1> DEFINE p == dp[dps[i]].slots[n]
           e == [port[p] EXCEPT !.down = down]
<1>1. p # 0 /\ dps[i] # 0
  BY DEF dp_update_port_flags
<1>2. p \in DOMAIN port
  BY <1>1 DEF IInv, Published, Links
<1>3. port[p] \in PortsOfDps
  BY <1>2, Typed DEF IInv
<1>4. e \in PortsOfDps /\ e.dp = port[p].dp /\ e.dev = port[p].dev /\ e.no = port[p].no /\ e.live = port[p].live
  BY <1>3 DEF PortsOfDps
<1>5. port' = [port EXCEPT ![p] = e]
  BY DEF dp_update_port_flags
<1>6. UNCHANGED <<dps, dp, br_port, carrier, modrefs, genl, ret, rx, work, notif, frames, events>>
  BY DEF dp_update_port_flags
<1>7. up' \in [Devs -> BOOLEAN]
  BY DEF dp_update_port_flags, IInv, TypeOK
<1> HIDE DEF p, e
<1>8. /\ port' \in Seq(PortsOfDps) /\ SameLinks
      /\ Links' /\ Frames' /\ PortsWhole' /\ Published' /\ Threads' /\ InProgress' /\ Referred'
  BY <1>2, <1>4, <1>5, <1>6, PortFlagsKeep
<1>9. TypeOK'
  BY <1>6, <1>7, <1>8 DEF IInv, TypeOK, NoFrame, SameLinks
<1> QED
  BY <1>8, <1>9 DEF IInv

\* A device event finds a port of that device.
LEMMA EventKeeps ==
  ASSUME IInv, NEW dev \in Devs, NEW ev \in Events, Event(dev, ev)
  PROVE  IInv'
<1> USE DEF Event
<1>1. SameLinks /\ SameWhole /\ SameTasks /\ SameDps /\ SameCommand
  BY DEF SameLinks, SameWhole, SameTasks, SameDps, SameCommand
<1>2. br_port[dev] \in DOMAIN port /\ port[br_port[dev]].dev = dev
  BY DEF IInv, Links
<1>3. up' \in [Devs -> BOOLEAN] /\ carrier' \in [Devs -> BOOLEAN]
  BY DEF IInv, TypeOK
<1>4. TypeOK'
  BY <1>2, <1>3 DEF IInv, TypeOK, NoFrame
<1>5. Frames'
  BY <1>1, FramesStill DEF IInv
<1> QED
  BY <1>1, <1>4, <1>5, Undisturbed DEF IInv

\* The handler of the event.
LEMMA DeviceEventKeeps ==
  ASSUME IInv, dp_device_event
  PROVE  IInv'
<1>1. CASE notif.ev = "UNREGISTER"
  <2>1. UNCHANGED <<dps, dp, port, br_port, up, carrier, modrefs, genl, ret, rx, work>> /\ notif'.pc # "handle"
    BY <1>1 DEF dp_device_event, IInv, TypeOK
  <2>2. SameLinks /\ SameWhole /\ SameTasks /\ SameDps /\ SameCommand
    BY <2>1 DEF SameLinks, SameWhole, SameTasks, SameDps, SameCommand
  <2>3. TypeOK'
    BY <2>1, <1>1 DEF IInv, TypeOK, NoFrame, dp_device_event
  <2>4. Frames'
    BY <2>1, <2>2, FramesStill DEF IInv
  <2> QED
    BY <2>2, <2>3, <2>4, Undisturbed DEF IInv
<1>2. CASE notif.ev # "UNREGISTER"
  <2> DEFINE p == port[notif.p]
             e == IF ~p.live THEN p
                  ELSE IF notif.ev = "CHANGE" THEN [p EXCEPT !.link_down = ~carrier[p.dev]]
                  ELSE [p EXCEPT !.down = notif.ev = "DOWN"]
  <2>1. notif.p \in DOMAIN port /\ p.dev \in Devs
    BY DEF IInv, TypeOK, dp_device_event
  <2>2. p \in PortsOfDps /\ carrier[p.dev] \in BOOLEAN
    BY <2>1, Typed DEF IInv, TypeOK
  <2>3. e \in PortsOfDps /\ e.dp = p.dp /\ e.dev = p.dev /\ e.no = p.no /\ e.live = p.live
    BY <2>2 DEF PortsOfDps
  <2>4. port' = [port EXCEPT ![notif.p] = e] /\ notif' = NoEvent
    BY <1>2 DEF dp_device_event
  <2>5. UNCHANGED <<dps, dp, br_port, up, carrier, modrefs, genl, ret, rx, work>>
    BY DEF dp_device_event
  <2> HIDE DEF e
  <2>6. /\ port' \in Seq(PortsOfDps)
        /\ Links' /\ Frames' /\ PortsWhole' /\ Published' /\ Threads' /\ InProgress' /\ Referred'
    BY <2>1, <2>3, <2>4, <2>5, PortFlagsKeep
  <2>7. TypeOK'
    BY <2>4, <2>5, <2>6 DEF IInv, TypeOK, NoFrame, NoEvent
  <2> QED
    BY <2>6, <2>7 DEF IInv
<1> QED
  BY <1>1, <1>2

-----------------------------------------------------------------------------
(* The maintenance threads.                                                *)

\* A thread that goes on timing out, or ends as it was told to, disturbs no command.
LEMMA ThreadKeeps ==
  ASSUME IInv, NEW d \in DOMAIN dp, NEW e \in Datapaths, dp' = [dp EXCEPT ![d] = e],
         e.idx = dp[d].idx, e.list = dp[d].list, e.slots = dp[d].slots, e.local = dp[d].local,
         e.live = dp[d].live, e.chain = dp[d].chain, e.reg = dp[d].reg,
         e.task = dp[d].task \/ (dp[d].task = "stop" /\ e.task = "exited"),
         e.timeout => e.task \in {"run", "stop"},
         UNCHANGED <<quiet, genl, rx, work, frames>>
  PROVE  IInv'
<1>1. /\ dp' \in Seq(Datapaths) /\ DOMAIN dp' = DOMAIN dp /\ dp'[d] = e
      /\ \A c \in DOMAIN dp : c # d => dp'[c] = dp[c]
  BY DpUpdated DEF IInv
<1>2. SameLinks /\ SameWhole /\ SameDps /\ SameCommand
  BY <1>1 DEF SameLinks, SameWhole, SameDps, SameCommand, quiet
<1>3. TypeOK'
  BY <1>1 DEF IInv, TypeOK, NoFrame, quiet
<1>4. Links'
  BY <1>2, LinksKept DEF IInv, Freeing, Stage, SameCommand
<1>5. Frames'
  BY <1>2, FramesStill DEF IInv
<1>6. PortsWhole'
  BY <1>2, PortsWholeKept DEF IInv
<1>7. Published'
  <2> SUFFICES ASSUME NEW i \in Idx, dps[i] # 0
               PROVE  /\ dps[i] \in DOMAIN dp' /\ dp'[dps[i]].idx = i
                      /\ Whole(dps[i])' /\ dp'[dps[i]].reg
                      /\ \/ dp'[dps[i]].task = "run" /\ dp'[dps[i]].local \in dp'[dps[i]].list
                         \/ Deleting(i)'
    BY <1>2 DEF Published, SameDps
  <2>1. /\ dps[i] \in DOMAIN dp /\ dp[dps[i]].idx = i /\ Whole(dps[i]) /\ dp[dps[i]].reg
        /\ \/ dp[dps[i]].task = "run" /\ dp[dps[i]].local \in dp[dps[i]].list
           \/ Deleting(i)
    BY DEF IInv, Published
  <2>2. Deleting(i) => Deleting(i)'
    BY <1>2 DEF Deleting, SameCommand
  <2>3. dp[dps[i]].task = "run" => dp'[dps[i]].task = "run"
    BY <1>1, <2>1
  <2> QED
    BY <1>2, <2>1, <2>2, <2>3 DEF SameLinks, SameDps, SameWhole, Whole
<1>8. Threads'
  BY <1>1, <1>2 DEF IInv, Threads, SameWhole, Whole
<1>9. InProgress'
  <2> SUFFICES ASSUME genl.pc # "idle"
               PROVE  InProgress'
    BY <1>2 DEF InProgress, SameCommand
  <2>1. Stage' = Stage
    BY <1>2 DEF Stage, SameCommand
  <2>2. genl.d \in DOMAIN dp /\ genl.idx \in Idx /\ dp[genl.d].idx = genl.idx /\ genl.cmd # "none"
    BY DEF IInv, InProgress
  <2>3. genl'.d \in DOMAIN dp' /\ genl'.idx \in Idx /\ dp'[genl'.d].idx = genl'.idx /\ genl'.cmd # "none"
    BY <1>2, <2>2 DEF SameCommand, SameLinks
  <2>4. genl'.cmd = "ADD_DP" => AddsDp'
    <3>1. dp[genl.d].task = "none" => dp'[genl.d].task = "none"
      BY <1>1, <2>2
    <3> QED
      BY <1>2, <2>1, <2>2, <3>1 DEF IInv, InProgress, AddsDp, SameCommand, SameLinks, SameWhole, SameDps
  <2>5. genl'.cmd = "DEL_DP" => DeletesDp'
    <3>1. /\ dp[genl.d].task \in {"stop", "exited"} => dp'[genl.d].task \in {"stop", "exited"}
          /\ dp[genl.d].task = "exited" => dp'[genl.d].task = "exited"
      BY <1>1, <2>2
    <3> QED
      BY <1>2, <2>1, <2>2, <3>1 DEF IInv, InProgress, DeletesDp, SameCommand, SameLinks, SameWhole, SameDps
  <2>6. genl'.cmd = "ADD_PORT" => AddsPort'
    BY <1>2, <2>1 DEF IInv, InProgress, AddsPort, SameCommand, SameLinks, SameDps
  <2>7. Stage \in Removal => genl.p \in DOMAIN port
    BY DEF IInv, InProgress, RemovesPort
  <2>8. genl'.cmd = "DEL_PORT" => DeletesPort'
    BY <1>2, <2>1, <2>7 DEF IInv, InProgress, DeletesPort, SameCommand, SameLinks, SameDps
  <2>9. Stage' \in Removal => RemovesPort'
    BY <1>2, <2>1, <2>2, <2>7 DEF IInv, InProgress, RemovesPort, SameCommand, SameLinks
  <2> QED
    BY <2>3, <2>4, <2>5, <2>6, <2>8, <2>9 DEF InProgress
<1>10. Referred'
  BY <1>2 DEF IInv, Referred, Outside, SameDps, SameCommand
<1> QED
  BY <1>3, <1>4, <1>5, <1>6, <1>7, <1>8, <1>9, <1>10 DEF IInv

\* dp_maint_func.
LEMMA MaintKeeps ==
  ASSUME IInv, NEW d \in DOMAIN dp, TimeoutStart(d) \/ TimeoutEnd(d) \/ MaintExit(d)
  PROVE  IInv'
<1>1. dp[d] \in Datapaths
  BY Typed DEF IInv
<1>2. CASE TimeoutStart(d)
  <2> DEFINE e == [dp[d] EXCEPT !.timeout = TRUE]
  <2>1. /\ e \in Datapaths /\ e.task = dp[d].task /\ dp[d].task = "run"
        /\ e.idx = dp[d].idx /\ e.list = dp[d].list /\ e.slots = dp[d].slots /\ e.local = dp[d].local
        /\ e.live = dp[d].live /\ e.chain = dp[d].chain /\ e.reg = dp[d].reg
    BY <1>1, <1>2 DEF Datapaths, TimeoutStart
  <2>2. dp' = [dp EXCEPT ![d] = e] /\ UNCHANGED <<quiet, genl, rx, work, frames>>
    BY <1>2 DEF TimeoutStart
  <2> HIDE DEF e
  <2> QED
    BY <2>1, <2>2, ThreadKeeps
<1>3. CASE TimeoutEnd(d)
  <2> DEFINE e == [dp[d] EXCEPT !.timeout = FALSE]
  <2>1. /\ e \in Datapaths /\ e.task = dp[d].task /\ ~e.timeout
        /\ e.idx = dp[d].idx /\ e.list = dp[d].list /\ e.slots = dp[d].slots /\ e.local = dp[d].local
        /\ e.live = dp[d].live /\ e.chain = dp[d].chain /\ e.reg = dp[d].reg
    BY <1>1 DEF Datapaths
  <2>2. dp' = [dp EXCEPT ![d] = e] /\ UNCHANGED <<quiet, genl, rx, work, frames>>
    BY <1>3 DEF TimeoutEnd
  <2> HIDE DEF e
  <2> QED
    BY <2>1, <2>2, ThreadKeeps
<1>4. CASE MaintExit(d)
  <2> DEFINE e == [dp[d] EXCEPT !.task = "exited"]
  <2>1. /\ e \in Datapaths /\ dp[d].task = "stop" /\ e.task = "exited" /\ ~e.timeout
        /\ e.idx = dp[d].idx /\ e.list = dp[d].list /\ e.slots = dp[d].slots /\ e.local = dp[d].local
        /\ e.live = dp[d].live /\ e.chain = dp[d].chain /\ e.reg = dp[d].reg
    BY <1>1, <1>4 DEF Datapaths, MaintExit
  <2>2. dp' = [dp EXCEPT ![d] = e] /\ UNCHANGED <<quiet, genl, rx, work, frames>>
    BY <1>4 DEF MaintExit
  <2> HIDE DEF e
  <2> QED
    BY <2>1, <2>2, ThreadKeeps
<1> QED
  BY <1>2, <1>3, <1>4

-----------------------------------------------------------------------------
(* Commands that move on, or only change a datapath no command can find.   *)

\* A handler that goes to its next step, or returns, and writes nothing.
LEMMA CommandMoves ==
  ASSUME IInv, UNCHANGED <<dps, dp, port, modrefs, others>>,
         genl' \in Commands, genl'.pc = "synchronize_rcu" => genl'.next # "idle",
         \A p \in DOMAIN port : Freeing(p)' <=> Freeing(p),
         \A i \in Idx : dps[i] # 0 /\ Deleting(i) => Deleting(i)',
         Outside' <=> Outside, Frames', InProgress'
  PROVE  IInv'
<1>1. SameLinks /\ SameWhole /\ SameTasks /\ SameDps
  BY DEF SameLinks, SameWhole, SameTasks, SameDps, others
<1>2. TypeOK'
  BY DEF IInv, TypeOK, NoFrame, others
<1>3. Links' /\ PortsWhole' /\ Published' /\ Threads'
  BY <1>1, LinksKept, PortsWholeKept, PublishedKept, ThreadsKept DEF IInv, SameDps
<1>4. Referred'
  BY <1>1 DEF IInv, Referred, SameDps
<1> QED
  BY <1>2, <1>3, <1>4 DEF IInv

\* The datapath a command has outside of dps is no other's, and frames do not reach it.
LEMMA OutsideIsAlone ==
  ASSUME IInv, Outside
  PROVE  /\ genl.d \in DOMAIN dp /\ genl.idx \in Idx /\ dp[genl.d] \in Datapaths
         /\ \A i \in Idx : dps[i] # 0 => dps[i] # genl.d /\ ~Deleting(i)
         /\ \A p \in DOMAIN port : port[p].live /\ port[p].no # OFPP_LOCAL => port[p].dp # genl.d
         /\ dp[genl.d].live /\ dp[genl.d].task \notin {"run", "stop"} /\ ~dp[genl.d].timeout
         /\ Stage \in Setup \union Teardown \union {"kthread_run", "oops"}
         /\ \A i \in Idx : Deleting(i) => i = genl.idx
<1> USE DEF IInv
<1>1. genl.pc # "idle" /\ genl.cmd \in {"ADD_DP", "DEL_DP"} /\ dps[genl.idx] = 0
  BY DEF Outside
<1>2. genl.d \in DOMAIN dp /\ genl.idx \in Idx /\ dp[genl.d].idx = genl.idx
  BY <1>1 DEF InProgress
<1>3. dp[genl.d] \in Datapaths
  BY <1>2, Typed
<1>4. \A i \in Idx : dps[i] # 0 => dps[i] # genl.d /\ ~Deleting(i)
  BY <1>1, <1>2 DEF Published, Deleting
<1>5. CASE genl.cmd = "ADD_DP"
  <2>1. AddsDp
    BY <1>1, <1>5 DEF InProgress
  <2>2. /\ dp[genl.d].live /\ dp[genl.d].task \notin {"run", "stop"} /\ ~dp[genl.d].timeout
        /\ Stage \in Setup \union Teardown \union {"kthread_run", "oops"}
    BY <1>2, <1>3, <2>1 DEF AddsDp, Threads, Datapaths
  <2>3. ASSUME NEW p \in DOMAIN port, port[p].live, port[p].no # OFPP_LOCAL
        PROVE  port[p].dp # genl.d
    <3> SUFFICES ASSUME port[p].dp = genl.d
                 PROVE  FALSE
      OBVIOUS
    <3>1. p \in dp[genl.d].list
      BY <2>2, <2>3 DEF Links, Freeing, Setup, Teardown
    <3>2. dp[genl.d].slots[port[p].no] = p
      BY <1>2, <2>3, <3>1 DEF Links
    <3>3. port[p].no \in Slots
      BY <2>3, Typed DEF PortsOfDps
    <3>4. p # 0
      BY LenProperties DEF TypeOK
    <3> QED
      BY <2>1, <3>2, <3>3, <3>4 DEF AddsDp
  <2> QED
    BY <1>1, <1>2, <1>3, <1>4, <2>2, <2>3 DEF Deleting
<1>6. CASE genl.cmd = "DEL_DP"
  <2>1. DeletesDp
    BY <1>1, <1>6 DEF InProgress
  <2>2. genl.d # 0
    BY <1>2, LenProperties DEF TypeOK
  <2>3. Stage \in Teardown /\ dp[genl.d].list = {} /\ dp[genl.d].live
    BY <1>1, <2>1, <2>2 DEF DeletesDp
  <2>4. dp[genl.d].task = "exited" /\ ~dp[genl.d].timeout
    BY <1>2, <1>3, <2>1, <2>3 DEF DeletesDp, Threads, Teardown, Datapaths
  <2>5. \A p \in DOMAIN port : port[p].live => port[p].dp # genl.d
    BY <1>2, <2>3 DEF Links, Freeing, Teardown
  <2> QED
    BY <1>1, <1>2, <1>3, <1>4, <2>3, <2>4, <2>5 DEF Deleting
<1> QED
  BY <1>1, <1>5, <1>6

\* Such a datapath can be changed, but for its ports and its thread.
LEMMA OutsideChanges ==
  ASSUME IInv, Outside, genl.pc # "synchronize_rcu",
         NEW e \in Datapaths, dp' = [dp EXCEPT ![genl.d] = e],
         e.idx = dp[genl.d].idx, e.list = dp[genl.d].list, e.slots = dp[genl.d].slots,
         e.local = dp[genl.d].local, e.task = dp[genl.d].task, e.timeout = dp[genl.d].timeout,
         UNCHANGED <<dps, port, others>>, modrefs' \in Int,
         genl' \in Commands, genl'.pc = "synchronize_rcu" => genl'.next # "idle",
         Stage' # "kfree_port", InProgress', Referred'
  PROVE  IInv'
<1>1. /\ genl.d \in DOMAIN dp /\ genl.idx \in Idx
      /\ \A i \in Idx : dps[i] # 0 => dps[i] # genl.d /\ ~Deleting(i)
      /\ \A p \in DOMAIN port : port[p].live /\ port[p].no # OFPP_LOCAL => port[p].dp # genl.d
      /\ dp[genl.d].task \notin {"run", "stop"} /\ ~dp[genl.d].timeout
      /\ Stage \in Setup \union Teardown \union {"kthread_run", "oops"}
  BY OutsideIsAlone
<1>2. /\ dp' \in Seq(Datapaths) /\ DOMAIN dp' = DOMAIN dp /\ dp'[genl.d] = e
      /\ \A c \in DOMAIN dp : c # genl.d => dp'[c] = dp[c]
  BY <1>1, DpUpdated DEF IInv
<1>3. SameLinks /\ SameTasks
  BY <1>1, <1>2 DEF SameLinks, SameTasks, others
<1>4. TypeOK'
  BY <1>2 DEF IInv, TypeOK, NoFrame, others
<1>5. Links'
  BY <1>1, <1>3, LinksKept DEF IInv, Freeing, Setup, Teardown
<1>6. Frames'
  BY <1>3, FramesKept DEF IInv, others
<1>7. PortsWhole'
  BY <1>1, <1>2 DEF IInv, PortsWhole, Links, Whole
<1>8. Published'
  <2> SUFFICES ASSUME NEW i \in Idx, dps[i] # 0
               PROVE  /\ dps[i] \in DOMAIN dp' /\ dp'[dps[i]].idx = i
                      /\ dp'[dps[i]].live /\ dp'[dps[i]].chain /\ dp'[dps[i]].reg
                      /\ dp'[dps[i]].task = "run" /\ dp'[dps[i]].local \in dp'[dps[i]].list
    BY DEF Published, Whole
  <2> QED
    BY <1>1, <1>2 DEF IInv, Published, Whole
<1>9. Threads'
  BY <1>1, <1>2, <1>3 DEF IInv, Threads, SameTasks, Whole
<1> QED
  BY <1>4, <1>5, <1>6, <1>7, <1>8, <1>9 DEF IInv

\* A handler that returns at once.
LEMMA ReturnKeeps ==
  ASSUME IInv, genl.pc = "idle", genl' = Idle, UNCHANGED <<dps, dp, port, modrefs, others>>
  PROVE  IInv'
<1>1. genl' \in Commands /\ genl'.pc = "idle"
  BY DEF IInv, TypeOK, Idle, Commands
<1>2. Frames'
  BY FramesKept DEF IInv, SameLinks, others
<1>3. InProgress'
  BY <1>1 DEF InProgress
<1>4. /\ \A p \in DOMAIN port : Freeing(p)' <=> Freeing(p)
      /\ \A i \in Idx : ~Deleting(i)
      /\ Outside' <=> Outside
  BY <1>1 DEF Freeing, Stage, Deleting, Outside
<1> QED
  BY <1>1, <1>2, <1>3, <1>4, CommandMoves

\* add_switch_port, whose device is in no datapath.
LEMMA AddPortKeeps ==
  ASSUME IInv, NEW i \in Idx, NEW dev \in Devs, add_switch_port(i, dev)
  PROVE  IInv'
<1> USE DEF IInv
<1>1. genl.pc = "idle" /\ UNCHANGED <<dps, dp, port, modrefs, others>>
  BY DEF add_switch_port
<1>2. \/ genl' = Idle
      \/ /\ dps[i] # 0 /\ br_port[dev] = 0
         /\ genl' = [Idle EXCEPT !.pc = "new_nbp", !.cmd = "ADD_PORT", !.idx = i, !.d = dps[i], !.dev = dev]
  BY DEF add_switch_port, Return
<1>3. CASE genl' = Idle
  BY <1>1, <1>3, ReturnKeeps
<1>4. CASE /\ dps[i] # 0 /\ br_port[dev] = 0
           /\ genl' = [Idle EXCEPT !.pc = "new_nbp", !.cmd = "ADD_PORT", !.idx = i, !.d = dps[i], !.dev = dev]
  <2>1. dps[i] \in DOMAIN dp /\ dp[dps[i]].idx = i /\ dps[i] \in Nat
    BY <1>4 DEF Published, TypeOK
  <2>2. /\ genl'.pc = "new_nbp" /\ genl'.cmd = "ADD_PORT" /\ genl'.idx = i /\ genl'.d = dps[i]
        /\ genl'.dev = dev /\ Stage' = "new_nbp"
    BY <1>4 DEF Idle, Stage
  <2>3. genl' \in Commands
    BY <1>4, <2>1 DEF Idle, Commands, Stages
  <2>4. Frames'
    BY <1>1, FramesKept DEF SameLinks, others
  <2>5. InProgress'
    BY <1>1, <1>4, <2>1, <2>2 DEF InProgress, AddsPort, Removal, others
  <2>6. /\ \A p \in DOMAIN port : Freeing(p)' <=> Freeing(p)
        /\ \A j \in Idx : ~Deleting(j)
        /\ Outside' <=> Outside
    BY <1>1, <2>2 DEF Freeing, Stage, Deleting, Outside
  <2> QED
    BY <1>1, <2>2, <2>3, <2>4, <2>5, <2>6, CommandMoves
<1> QED
  BY <1>2, <1>3, <1>4

\* dp_genl_add_del_port finds the port of the device in the datapath it was given.
LEMMA DelPortKeeps ==
  ASSUME IInv, NEW i \in Idx, NEW dev \in Devs, del_switch_port(i, dev)
  PROVE  IInv'
<1> USE DEF IInv
<1>1. genl.pc = "idle" /\ UNCHANGED <<dps, dp, port, modrefs, others>>
  BY DEF del_switch_port
<1>2. \/ genl' = Idle
      \/ /\ dps[i] # 0 /\ br_port[dev] # 0 /\ port[br_port[dev]].dp = dps[i]
         /\ genl' = [Idle EXCEPT !.pc = "dev_set_promiscuity", !.cmd = "DEL_PORT", !.idx = i,
                                 !.d = dps[i], !.p = br_port[dev]]
  BY DEF del_switch_port, Return
<1>3. CASE genl' = Idle
  BY <1>1, <1>3, ReturnKeeps
<1>4. CASE /\ dps[i] # 0 /\ br_port[dev] # 0 /\ port[br_port[dev]].dp = dps[i]
           /\ genl' = [Idle EXCEPT !.pc = "dev_set_promiscuity", !.cmd = "DEL_PORT", !.idx = i,
                                   !.d = dps[i], !.p = br_port[dev]]
  <2>1. dps[i] \in DOMAIN dp /\ dp[dps[i]].idx = i /\ dps[i] \in Nat
    BY <1>4 DEF Published, TypeOK
  <2>2. /\ br_port[dev] \in DOMAIN port /\ br_port[dev] \in dp[dps[i]].list
        /\ port[br_port[dev]].no # OFPP_LOCAL /\ br_port[dev] \in Nat
    BY <1>4, <2>1, KernelDatapathAssumption DEF Links, TypeOK
  <2>3. /\ genl'.pc = "dev_set_promiscuity" /\ genl'.cmd = "DEL_PORT" /\ genl'.idx = i /\ genl'.d = dps[i]
        /\ genl'.p = br_port[dev] /\ Stage' = "dev_set_promiscuity"
    BY <1>4 DEF Idle, Stage
  <2>4. genl' \in Commands
    BY <1>4, <2>1, <2>2 DEF Idle, Commands, Stages, Removal
  <2>5. Frames'
    BY <1>1, FramesKept DEF SameLinks, others
  <2>6. InProgress'
    BY <1>1, <1>4, <2>1, <2>2, <2>3 DEF InProgress, DeletesPort, RemovesPort, Removal, others
  <2>7. /\ \A p \in DOMAIN port : Freeing(p)' <=> Freeing(p)
        /\ \A j \in Idx : ~Deleting(j)
        /\ Outside' <=> Outside
    BY <1>1, <2>3 DEF Freeing, Stage, Deleting, Outside
  <2> QED
    BY <1>1, <2>3, <2>4, <2>5, <2>6, <2>7, CommandMoves
<1> QED
  BY <1>2, <1>3, <1>4

\* synchronize_rcu returns when no reader it waited for is left, so that no frame
\* holds the port that goes.
LEMMA SynchronizeKeeps ==
  ASSUME IInv, synchronize_rcu
  PROVE  IInv'
<1> USE DEF IInv
<1>1. /\ genl.pc = "synchronize_rcu" /\ genl.wait = {} /\ UNCHANGED <<dps, dp, port, modrefs, others>>
      /\ genl' = [genl EXCEPT !.pc = genl.next]
  BY DEF synchronize_rcu, Goto
<1>2. genl.next \in Stages
  BY <1>1 DEF TypeOK, Commands
<1>3. "idle" \notin Stages /\ "synchronize_rcu" \notin Stages
  BY DEF Stages, Setup, Teardown, Removal
<1>4. /\ genl' \in Commands /\ genl'.pc = genl.next /\ genl'.cmd = genl.cmd /\ genl'.idx = genl.idx
      /\ genl'.dev = genl.dev /\ genl'.d = genl.d /\ genl'.p = genl.p
  BY <1>1, <1>2 DEF TypeOK, Commands
<1>5. SameHand
  BY <1>1, <1>2, <1>3, <1>4 DEF SameHand, Stage
<1>6. Frames'
  <2>1. \A c \in Cpus : \A p \in rx[c] :
          p \in DOMAIN port /\ port[p].no # OFPP_LOCAL /\ p \in dp[port[p].dp].list
    BY <1>1 DEF Frames, Awaited
  <2> QED
    BY <1>1, <2>1 DEF Frames, others
<1>7. InProgress'
  BY <1>1, <1>5, InProgressKept DEF SameLinks, SameWhole, SameTasks, SameDps, others
<1>8. /\ \A p \in DOMAIN port : Freeing(p)' <=> Freeing(p)
      /\ \A i \in Idx : Deleting(i) => Deleting(i)'
      /\ Outside' <=> Outside
  BY <1>1, <1>5 DEF Freeing, SameHand, Deleting, Outside
<1> QED
  BY <1>1, <1>2, <1>3, <1>4, <1>6, <1>7, <1>8, CommandMoves

\* A handler at its next step, and one that waits for the readers before it.
LEMMA GotoMoves ==
  ASSUME IInv, NEW pc \in Stages, Goto(pc)
  PROVE  /\ genl' \in Commands /\ genl'.pc = pc /\ genl'.pc # "idle" /\ genl'.pc # "synchronize_rcu"
         /\ Stage' = pc /\ genl'.cmd = genl.cmd /\ genl'.idx = genl.idx
         /\ genl'.d = genl.d /\ genl'.p = genl.p
<1>1. "idle" \notin Stages /\ "synchronize_rcu" \notin Stages
  BY DEF Stages, Setup, Teardown, Removal
<1>2. /\ genl' \in Commands /\ genl'.pc = pc /\ genl'.cmd = genl.cmd /\ genl'.idx = genl.idx
      /\ genl'.d = genl.d /\ genl'.p = genl.p
  BY DEF IInv, TypeOK, Commands, Goto
<1> QED
  BY <1>1, <1>2 DEF Stage
LEMMA SynchronizeMoves ==
  ASSUME IInv, NEW next \in Stages, Synchronize(next)
  PROVE  /\ genl' \in Commands /\ genl'.pc = "synchronize_rcu" /\ genl'.next = next /\ genl'.next # "idle"
         /\ genl'.wait = reading
         /\ Stage' = next /\ genl'.cmd = genl.cmd /\ genl'.idx = genl.idx
         /\ genl'.d = genl.d /\ genl'.p = genl.p
<1>1. "idle" \notin Stages
  BY DEF Stages, Setup, Teardown, Removal
<1>2. reading \in SUBSET (Cpus \union {"work"})
  BY DEF reading
<1>3. /\ genl' \in Commands /\ genl'.pc = "synchronize_rcu" /\ genl'.next = next /\ genl'.wait = reading
      /\ genl'.cmd = genl.cmd /\ genl'.idx = genl.idx /\ genl'.d = genl.d /\ genl'.p = genl.p
  BY <1>2 DEF IInv, TypeOK, Commands, Synchronize
<1> QED
  BY <1>1, <1>3 DEF Stage

\* kthread_stop: the thread has ended when the ports go.
LEMMA KthreadStopKeeps ==
  ASSUME IInv, kthread_stop
  PROVE  IInv'
<1> USE DEF IInv
<1>1. /\ genl.pc = "kthread_stop" /\ dp[genl.d].task = "exited" /\ Goto("del_ports")
      /\ UNCHANGED <<dps, dp, port, modrefs, others>> /\ Stage = "kthread_stop"
  BY DEF kthread_stop, Stage
<1>2. /\ genl' \in Commands /\ genl'.pc = "del_ports" /\ Stage' = "del_ports"
      /\ genl'.cmd = genl.cmd /\ genl'.idx = genl.idx /\ genl'.d = genl.d /\ genl'.p = genl.p
  BY <1>1, GotoMoves DEF Stages
<1>3. Frames'
  BY <1>1, FramesKept DEF SameLinks, others
<1>4. genl.cmd = "DEL_DP" /\ DeletesDp
  BY <1>1 DEF InProgress, AddsDp, AddsPort, DeletesPort, Setup, Teardown, Removal, TypeOK, Commands
<1>5. DeletesDp'
  BY <1>1, <1>2, <1>4 DEF DeletesDp, Teardown, Removal
<1>6. InProgress'
  BY <1>1, <1>2, <1>4, <1>5 DEF InProgress, Removal
<1>7. /\ \A p \in DOMAIN port : Freeing(p)' <=> Freeing(p)
      /\ \A i \in Idx : Deleting(i) => Deleting(i)'
      /\ Outside' <=> Outside
  BY <1>1, <1>2 DEF Freeing, Deleting, Outside
<1> QED
  BY <1>1, <1>2, <1>3, <1>6, <1>7, CommandMoves

\* dp_del_switch_port takes the rtnl lock first.
LEMMA PromiscuityKeeps ==
  ASSUME IInv, dev_set_promiscuity
  PROVE  IInv'
<1> USE DEF IInv
<1>1. /\ genl.pc = "dev_set_promiscuity" /\ Goto("unlink") /\ Stage = "dev_set_promiscuity"
      /\ UNCHANGED <<dps, dp, port, modrefs, others>>
  BY DEF dev_set_promiscuity, Stage
<1>2. /\ genl' \in Commands /\ genl'.pc = "unlink" /\ Stage' = "unlink"
      /\ genl'.cmd = genl.cmd /\ genl'.idx = genl.idx /\ genl'.d = genl.d /\ genl'.p = genl.p
  BY <1>1, GotoMoves DEF Stages, Removal
<1>3. Frames'
  BY <1>1, FramesKept DEF SameLinks, others
<1>4. genl.cmd \notin {"ADD_DP", "ADD_PORT"}
  BY <1>1 DEF InProgress, AddsDp, AddsPort, Setup, Teardown
<1>5. RemovesPort'
  BY <1>1, <1>2 DEF InProgress, RemovesPort, Removal
<1>6. genl'.cmd = "DEL_DP" => DeletesDp'
  BY <1>1, <1>2 DEF InProgress, DeletesDp, Teardown, Removal
<1>7. genl'.cmd = "DEL_PORT" => DeletesPort'
  BY <1>1, <1>2 DEF InProgress, DeletesPort, Removal
<1>8. InProgress'
  BY <1>1, <1>2, <1>4, <1>5, <1>6, <1>7 DEF InProgress
<1>9. /\ \A p \in DOMAIN port : Freeing(p)' <=> Freeing(p)
      /\ \A i \in Idx : Deleting(i) => Deleting(i)'
      /\ Outside' <=> Outside
  BY <1>1, <1>2 DEF Freeing, Deleting, Outside
<1> QED
  BY <1>1, <1>2, <1>3, <1>8, <1>9, CommandMoves

\* new_dp's failure to start the thread or to make the tables, and the death of the
\* thread that handles the command when it has no local port.
LEMMA SetupFails ==
  ASSUME IInv, UNCHANGED <<dps, dp, port, modrefs, others>>,
         \/ genl.pc = "chain_create" /\ Goto("netif_tx_disable")
         \/ genl.pc = "new_local" /\ Goto("oops")
         \/ genl.pc = "kthread_run" /\ Synchronize("chain_destroy")
  PROVE  IInv'
<1> USE DEF IInv
<1>1. genl.pc \in {"chain_create", "new_local", "kthread_run"} /\ Stage = genl.pc
  BY DEF Stage
<1>2. /\ genl' \in Commands /\ genl'.pc # "idle" /\ Stage' \in {"netif_tx_disable", "oops", "chain_destroy"}
      /\ genl'.pc = "synchronize_rcu" => genl'.next # "idle"
      /\ genl'.cmd = genl.cmd /\ genl'.idx = genl.idx /\ genl'.d = genl.d /\ genl'.p = genl.p
  BY GotoMoves, SynchronizeMoves DEF Stages, Teardown
<1>3. Frames'
  BY <1>1, FramesKept DEF SameLinks, others
<1>4. genl.cmd = "ADD_DP" /\ AddsDp
  BY <1>1 DEF InProgress, DeletesDp, AddsPort, DeletesPort, Teardown, Removal, TypeOK, Commands
<1>5. AddsDp'
  BY <1>2, <1>4 DEF AddsDp, Teardown, Setup
<1>6. InProgress'
  BY <1>1, <1>2, <1>4, <1>5 DEF InProgress, Removal
<1>7. /\ \A p \in DOMAIN port : Freeing(p)' <=> Freeing(p)
      /\ \A i \in Idx : Deleting(i) => Deleting(i)'
      /\ Outside' <=> Outside
  BY <1>1, <1>2 DEF Freeing, Deleting, Outside
<1> QED
  BY <1>1, <1>2, <1>3, <1>6, <1>7, CommandMoves

\* del_dp takes the newest port of its list; when there is none left, commands do
\* not find the datapath any more, and the module is referred to from outside of dps.
LEMMA DelPortsKeeps ==
  ASSUME IInv, del_ports
  PROVE  IInv'
<1> USE DEF IInv
<1> DEFINE list == dp[genl.d].list
<1>1. /\ genl.pc = "del_ports" /\ Stage = "del_ports" /\ UNCHANGED <<dp, port, modrefs, others>>
  BY DEF del_ports, Stage
<1>2. genl.cmd = "DEL_DP" /\ DeletesDp
  BY <1>1 DEF InProgress, AddsDp, AddsPort, DeletesPort, Setup, Teardown, Removal, TypeOK, Commands
<1>3. /\ dps[genl.idx] = genl.d /\ dp[genl.d].task = "exited" /\ genl.d \in DOMAIN dp /\ genl.idx \in Idx
      /\ dp[genl.d].idx = genl.idx
  BY <1>1, <1>2 DEF DeletesDp, InProgress, Teardown
<1>4. genl.d # 0
  BY <1>3, LenProperties DEF TypeOK
<1>5. CASE /\ \E p \in list : genl' = [genl EXCEPT !.pc = "dev_set_promiscuity", !.p = p]
           /\ UNCHANGED dps
  <2>1. PICK p \in list : genl' = [genl EXCEPT !.pc = "dev_set_promiscuity", !.p = p]
    BY <1>5
  <2>2. p \in DOMAIN port /\ port[p].dp = genl.d
    BY <1>3 DEF Links
  <2>3. p \in Nat
    BY <2>2, LenProperties DEF TypeOK
  <2>4. /\ genl' \in Commands /\ genl'.pc = "dev_set_promiscuity" /\ genl'.cmd = genl.cmd
        /\ genl'.idx = genl.idx /\ genl'.d = genl.d /\ genl'.p = p
    BY <2>1, <2>3 DEF TypeOK, Commands, Stages, Removal
  <2>5. Stage' = "dev_set_promiscuity"
    BY <2>4 DEF Stage
  <2>6. Frames'
    BY <1>1, FramesKept DEF SameLinks, others
  <2>7. DeletesDp' /\ RemovesPort'
    BY <1>1, <1>3, <1>5, <2>2, <2>4, <2>5 DEF DeletesDp, RemovesPort, Removal, Teardown
  <2>8. InProgress'
    BY <1>1, <1>2, <1>3, <2>4, <2>7 DEF InProgress
  <2>9. /\ \A q \in DOMAIN port : Freeing(q)' <=> Freeing(q)
        /\ \A i \in Idx : Deleting(i) => Deleting(i)'
        /\ Outside' <=> Outside
    BY <1>1, <1>5, <2>4, <2>5 DEF Freeing, Deleting, Outside
  <2> QED
    BY <1>1, <1>5, <2>4, <2>6, <2>8, <2>9, CommandMoves
<1>6. CASE /\ list = {} /\ dps' = [dps EXCEPT ![genl.idx] = 0] /\ Synchronize("netif_tx_disable")
  <2>1. /\ genl' \in Commands /\ genl'.pc = "synchronize_rcu" /\ genl'.next = "netif_tx_disable"
        /\ Stage' = "netif_tx_disable" /\ genl'.cmd = genl.cmd /\ genl'.idx = genl.idx
        /\ genl'.d = genl.d /\ genl'.p = genl.p
    BY <1>6, SynchronizeMoves DEF Stages, Teardown
  <2>2. dps' \in [Idx -> Nat] /\ dps'[genl.idx] = 0 /\ \A i \in Idx : i # genl.idx => dps'[i] = dps[i]
    BY <1>3, <1>6 DEF TypeOK
  <2>3. SameLinks /\ SameWhole /\ SameTasks
    BY <1>1 DEF SameLinks, SameWhole, SameTasks, others
  <2>4. TypeOK'
    BY <1>1, <2>1, <2>2 DEF TypeOK, NoFrame, others
  <2>5. Frames'
    BY <1>1, <2>3, FramesKept DEF others
  <2>6. Links' /\ PortsWhole' /\ Threads'
    BY <1>1, <2>1, <2>3, LinksKept, PortsWholeKept, ThreadsKept DEF Freeing
  <2>7. Published'
    BY <1>1, <2>2 DEF Published, Deleting, Whole
  <2>8. dp[genl.d].live
    BY <1>1, <1>3, <1>4 DEF Published, Whole
  <2>9. DeletesDp'
    BY <1>1, <1>3, <1>6, <2>1, <2>2, <2>8 DEF DeletesDp, Teardown
  <2>10. InProgress'
    BY <1>1, <1>2, <1>3, <2>1, <2>9 DEF InProgress, Removal
  <2>11. Referred'
    <3> DEFINE S == {i \in Idx : dps[i] # 0}
    <3>1. IsFiniteSet(S) /\ genl.idx \in S
      BY <1>3, <1>4, KernelDatapathAssumption, FS_Subset
    <3>2. Cardinality(S) \in Nat /\ Cardinality(S \ {genl.idx}) = Cardinality(S) - 1
      BY <3>1, FS_CardinalityType, FS_RemoveElement
    <3>3. {i \in Idx : dps'[i] # 0} = S \ {genl.idx}
      BY <2>2
    <3>4. modrefs = Cardinality(S) + 0
      BY <1>3, <1>4 DEF Referred, Outside
    <3>5. Outside'
      BY <1>2, <2>1, <2>2 DEF Outside
    <3> HIDE DEF S
    <3>6. modrefs' = Cardinality(S \ {genl.idx}) + 1
      BY <1>1, <3>2, <3>4
    <3> QED
      BY <3>3, <3>5, <3>6 DEF Referred
  <2> QED
    BY <2>4, <2>5, <2>6, <2>7, <2>10, <2>11
<1> QED
  BY <1>5, <1>6 DEF del_ports

\* The datapaths in dps are finitely many.
LEMMA IndexesAreCounted ==
  /\ IsFiniteSet({i \in Idx : dps[i] # 0})
  /\ Cardinality({i \in Idx : dps[i] # 0}) \in Nat
<1>1. IsFiniteSet({i \in Idx : dps[i] # 0})
  BY KernelDatapathAssumption, FS_Subset
<1> QED
  BY <1>1, FS_CardinalityType

\* new_dp's of device has the name of the first, if there is one; on failure the
\* datapath that no command has seen goes with its reference to the module.
LEMMA DevSetupKeeps ==
  ASSUME IInv, dp_dev_setup
  PROVE  IInv'
<1> USE DEF IInv
<1>1. genl.pc = "dp_dev_setup" /\ Stage = "dp_dev_setup" /\ UNCHANGED <<dps, port, others>>
  BY DEF dp_dev_setup, Stage
<1>2. genl.cmd = "ADD_DP" /\ AddsDp /\ genl.d \in DOMAIN dp /\ genl.idx \in Idx /\ dp[genl.d].idx = genl.idx
  BY <1>1 DEF InProgress, DeletesDp, AddsPort, DeletesPort, Setup, Teardown, Removal, TypeOK, Commands
<1>3. Outside /\ dp[genl.d] \in Datapaths
  BY <1>1, <1>2, Typed DEF AddsDp, Outside
<1>4. CASE /\ dp' = [dp EXCEPT ![genl.d].live = FALSE] /\ modrefs' = modrefs - 1 /\ genl' = Idle
  <2> DEFINE e == [dp[genl.d] EXCEPT !.live = FALSE]
  <2>1. /\ e \in Datapaths /\ dp' = [dp EXCEPT ![genl.d] = e]
        /\ e.idx = dp[genl.d].idx /\ e.list = dp[genl.d].list /\ e.slots = dp[genl.d].slots
        /\ e.local = dp[genl.d].local /\ e.task = dp[genl.d].task /\ e.timeout = dp[genl.d].timeout
    BY <1>3, <1>4 DEF Datapaths
  <2> HIDE DEF e
  <2>2. genl' \in Commands /\ genl'.pc = "idle" /\ Stage' = "idle"
    BY <1>4 DEF Idle, Commands, Stage
  <2>3. InProgress'
    BY <2>2 DEF InProgress
  <2>4. modrefs' \in Int
    BY <1>4 DEF TypeOK
  <2>5. Referred'
    BY <1>1, <1>3, <1>4, <2>2, IndexesAreCounted DEF Referred, Outside
  <2> QED
    BY <1>1, <1>3, <2>1, <2>2, <2>3, <2>4, <2>5, OutsideChanges
<1>5. CASE /\ dp' = [dp EXCEPT ![genl.d].reg = TRUE, ![genl.d].tx = TRUE]
           /\ Goto("chain_create") /\ UNCHANGED modrefs
  <2> DEFINE e == [dp[genl.d] EXCEPT !.reg = TRUE, !.tx = TRUE]
  <2>1. /\ e \in Datapaths /\ dp' = [dp EXCEPT ![genl.d] = e] /\ e.live = dp[genl.d].live /\ e.reg
        /\ e.idx = dp[genl.d].idx /\ e.list = dp[genl.d].list /\ e.slots = dp[genl.d].slots
        /\ e.local = dp[genl.d].local /\ e.task = dp[genl.d].task /\ e.timeout = dp[genl.d].timeout
    BY <1>3, <1>5 DEF Datapaths
  <2> HIDE DEF e
  <2>2. /\ genl' \in Commands /\ genl'.pc = "chain_create" /\ Stage' = "chain_create"
        /\ genl'.cmd = genl.cmd /\ genl'.idx = genl.idx /\ genl'.d = genl.d
    BY <1>5, GotoMoves DEF Stages, Setup
  <2>3. dp'[genl.d] = e /\ DOMAIN dp' = DOMAIN dp
    BY <1>2, <2>1, DpUpdated
  <2>4. AddsDp'
    BY <1>1, <1>2, <2>1, <2>2, <2>3 DEF AddsDp, Setup
  <2>5. InProgress'
    BY <1>1, <1>2, <2>1, <2>2, <2>3, <2>4 DEF InProgress, Removal
  <2>6. Referred' /\ modrefs' \in Int
    BY <1>1, <1>2, <1>3, <1>5, <2>2 DEF Referred, Outside, TypeOK
  <2> QED
    BY <1>1, <1>3, <2>1, <2>2, <2>5, <2>6, OutsideChanges
<1> QED
  BY <1>4, <1>5 DEF dp_dev_setup, Return

\* chain_create makes the tables.
LEMMA ChainCreateKeeps ==
  ASSUME IInv, chain_create
  PROVE  IInv'
<1> USE DEF IInv
<1>1. genl.pc = "chain_create" /\ Stage = "chain_create" /\ UNCHANGED <<dps, port, modrefs, others>>
  BY DEF chain_create, Stage
<1>2. genl.cmd = "ADD_DP" /\ AddsDp /\ genl.d \in DOMAIN dp /\ genl.idx \in Idx /\ dp[genl.d].idx = genl.idx
  BY <1>1 DEF InProgress, DeletesDp, AddsPort, DeletesPort, Setup, Teardown, Removal, TypeOK, Commands
<1>3. Outside /\ dp[genl.d] \in Datapaths
  BY <1>1, <1>2, Typed DEF AddsDp, Outside
<1>4. CASE Goto("netif_tx_disable") /\ UNCHANGED dp
  BY <1>1, <1>4, SetupFails
<1>5. CASE Goto("new_local") /\ dp' = [dp EXCEPT ![genl.d].chain = TRUE]
  <2> DEFINE e == [dp[genl.d] EXCEPT !.chain = TRUE]
  <2>1. /\ e \in Datapaths /\ dp' = [dp EXCEPT ![genl.d] = e] /\ e.live = dp[genl.d].live
        /\ e.chain /\ e.reg = dp[genl.d].reg
        /\ e.idx = dp[genl.d].idx /\ e.list = dp[genl.d].list /\ e.slots = dp[genl.d].slots
        /\ e.local = dp[genl.d].local /\ e.task = dp[genl.d].task /\ e.timeout = dp[genl.d].timeout
    BY <1>3, <1>5 DEF Datapaths
  <2> HIDE DEF e
  <2>2. /\ genl' \in Commands /\ genl'.pc = "new_local" /\ Stage' = "new_local"
        /\ genl'.cmd = genl.cmd /\ genl'.idx = genl.idx /\ genl'.d = genl.d
    BY <1>5, GotoMoves DEF Stages, Setup
  <2>3. dp'[genl.d] = e /\ DOMAIN dp' = DOMAIN dp
    BY <1>2, <2>1, DpUpdated
  <2>4. AddsDp'
    BY <1>1, <1>2, <2>1, <2>2, <2>3 DEF AddsDp, Setup
  <2>5. InProgress'
    BY <1>1, <1>2, <2>1, <2>2, <2>3, <2>4 DEF InProgress, Removal
  <2>6. Referred' /\ modrefs' \in Int
    BY <1>1, <1>2, <1>3, <2>2 DEF Referred, Outside, TypeOK
  <2> QED
    BY <1>1, <1>3, <2>1, <2>2, <2>5, <2>6, OutsideChanges
<1> QED
  BY <1>4, <1>5 DEF chain_create

\* The end of a datapath, of dp_dev_destroy and chain_destroy in either order: what it
\* changes is of no interest to a command that finds it in no list.
LEMMA TeardownKeeps ==
  ASSUME IInv, genl.pc \in Teardown, Outside, UNCHANGED <<dps, port, modrefs, others>>,
         NEW e \in Datapaths, dp' = [dp EXCEPT ![genl.d] = e], e.live = dp[genl.d].live,
         e.idx = dp[genl.d].idx, e.list = dp[genl.d].list, e.slots = dp[genl.d].slots,
         e.local = dp[genl.d].local, e.task = dp[genl.d].task, e.timeout = dp[genl.d].timeout,
         \E pc \in Teardown : Goto(pc) \/ Synchronize(pc)
  PROVE  IInv'
<1> USE DEF IInv
<1>1. genl.pc # "synchronize_rcu" /\ genl.pc # "idle" /\ Stage = genl.pc
  BY DEF Teardown, Stage
<1>2. genl.d \in DOMAIN dp /\ genl.idx \in Idx /\ dp[genl.d].idx = genl.idx
  BY <1>1 DEF InProgress
<1>3. PICK pc \in Teardown : Goto(pc) \/ Synchronize(pc)
  OBVIOUS
<1>4. pc \in Stages
  BY DEF Stages
<1>5. /\ genl' \in Commands /\ genl'.pc # "idle"
      /\ genl'.pc = "synchronize_rcu" => genl'.next # "idle"
      /\ Stage' = pc /\ genl'.cmd = genl.cmd /\ genl'.idx = genl.idx
      /\ genl'.d = genl.d /\ genl'.p = genl.p
  <2>1. CASE Goto(pc)
    BY <1>4, <2>1, GotoMoves
  <2>2. CASE Synchronize(pc)
    BY <1>4, <2>2, SynchronizeMoves
  <2> QED
    BY <1>3, <2>1, <2>2
<1>6. dp'[genl.d] = e /\ DOMAIN dp' = DOMAIN dp
  BY <1>2, DpUpdated
<1>7. genl.cmd = "ADD_DP" => AddsDp'
  BY <1>1, <1>5, <1>6 DEF InProgress, AddsDp, Setup, Teardown
<1>8. genl.cmd = "DEL_DP" => DeletesDp'
  BY <1>1, <1>5, <1>6 DEF InProgress, DeletesDp, Removal, Teardown
<1>9. InProgress'
  BY <1>1, <1>2, <1>5, <1>6, <1>7, <1>8 DEF InProgress, Outside, Removal, Teardown
<1>10. Outside' <=> Outside
  BY <1>1, <1>5 DEF Outside
<1>11. Referred' /\ modrefs' \in Int
  BY <1>10 DEF Referred, TypeOK
<1>12. Stage' # "kfree_port"
  BY <1>5 DEF Teardown
<1> QED
  BY <1>1, <1>5, <1>9, <1>11, <1>12, OutsideChanges

\* A command at a stage of the end has its datapath outside of dps.
LEMMA TeardownIsOutside ==
  ASSUME IInv, genl.pc \in Teardown
  PROVE  Outside /\ genl.d \in DOMAIN dp /\ dp[genl.d] \in Datapaths
<1>1. genl.pc # "idle" /\ Stage \in Teardown
  BY DEF Teardown, Stage
<1>2. genl.d \in DOMAIN dp /\ dp[genl.d] \in Datapaths
  BY <1>1, Typed DEF IInv, InProgress
<1>3. genl.cmd \in {"ADD_DP", "DEL_DP"}
  BY <1>1 DEF IInv, InProgress, AddsPort, DeletesPort, Teardown, Removal, TypeOK, Commands
<1>4. dps[genl.idx] = 0
  BY <1>1, <1>3 DEF IInv, InProgress, AddsDp, DeletesDp
<1> QED
  BY <1>1, <1>2, <1>3, <1>4 DEF Outside

\* netif_tx_disable, unregister_netdev and chain_destroy.
LEMMA DestroyKeeps ==
  ASSUME IInv, netif_tx_disable \/ unregister_netdev \/ chain_destroy
  PROVE  IInv'
<1>1. genl.pc \in Teardown
  BY DEF netif_tx_disable, unregister_netdev, chain_destroy, Teardown
<1>2. Outside /\ genl.d \in DOMAIN dp /\ dp[genl.d] \in Datapaths
  BY <1>1, TeardownIsOutside
<1>3. UNCHANGED <<dps, port, modrefs, others>>
  BY DEF netif_tx_disable, unregister_netdev, chain_destroy
<1>4. \E pc \in Teardown : Goto(pc) \/ Synchronize(pc)
  BY DEF netif_tx_disable, unregister_netdev, chain_destroy, Teardown
<1>5. CASE netif_tx_disable
  <2> DEFINE e == [dp[genl.d] EXCEPT !.tx = FALSE]
  <2>1. /\ e \in Datapaths /\ dp' = [dp EXCEPT ![genl.d] = e] /\ e.live = dp[genl.d].live
        /\ e.idx = dp[genl.d].idx /\ e.list = dp[genl.d].list /\ e.slots = dp[genl.d].slots
        /\ e.local = dp[genl.d].local /\ e.task = dp[genl.d].task /\ e.timeout = dp[genl.d].timeout
    BY <1>2, <1>5 DEF Datapaths, netif_tx_disable
  <2> HIDE DEF e
  <2> QED
    BY <1>1, <1>2, <1>3, <1>4, <2>1, TeardownKeeps
<1>6. CASE unregister_netdev
  <2> DEFINE e == [dp[genl.d] EXCEPT !.queue = 0, !.reg = FALSE, !.tx = FALSE]
  <2>1. /\ e \in Datapaths /\ e.live = dp[genl.d].live
        /\ e.idx = dp[genl.d].idx /\ e.list = dp[genl.d].list /\ e.slots = dp[genl.d].slots
        /\ e.local = dp[genl.d].local /\ e.task = dp[genl.d].task /\ e.timeout = dp[genl.d].timeout
    <3>1. 0 \in Int /\ FALSE \in BOOLEAN
      OBVIOUS
    <3> QED
      BY <1>2, <3>1 DEF Datapaths
  <2>2. dp' = [dp EXCEPT ![genl.d] = e]
    BY <1>2, <1>6 DEF unregister_netdev
  <2> HIDE DEF e
  <2> QED
    BY <1>1, <1>2, <1>3, <1>4, <2>1, <2>2, TeardownKeeps
<1>7. CASE chain_destroy
  <2> DEFINE e == [dp[genl.d] EXCEPT !.chain = FALSE]
  <2>1. /\ e \in Datapaths /\ dp' = [dp EXCEPT ![genl.d] = e] /\ e.live = dp[genl.d].live
        /\ e.idx = dp[genl.d].idx /\ e.list = dp[genl.d].list /\ e.slots = dp[genl.d].slots
        /\ e.local = dp[genl.d].local /\ e.task = dp[genl.d].task /\ e.timeout = dp[genl.d].timeout
    BY <1>2, <1>7 DEF Datapaths, chain_destroy
  <2> HIDE DEF e
  <2> QED
    BY <1>1, <1>2, <1>3, <1>4, <2>1, TeardownKeeps
<1> QED
  BY <1>5, <1>6, <1>7

\* kfree_dp gives up the reference to the module.
LEMMA KfreeDpKeeps ==
  ASSUME IInv, kfree_dp
  PROVE  IInv'
<1> USE DEF IInv
<1>1. /\ genl.pc = "kfree_dp" /\ genl.pc \in Teardown /\ modrefs' = modrefs - 1 /\ genl' = Idle
      /\ dp' = [dp EXCEPT ![genl.d].live = FALSE] /\ UNCHANGED <<dps, port, others>>
  BY DEF kfree_dp, Return, Teardown
<1>2. Outside /\ genl.d \in DOMAIN dp /\ dp[genl.d] \in Datapaths
  BY <1>1, TeardownIsOutside
<1> DEFINE e == [dp[genl.d] EXCEPT !.live = FALSE]
<1>3. /\ e \in Datapaths /\ dp' = [dp EXCEPT ![genl.d] = e]
      /\ e.idx = dp[genl.d].idx /\ e.list = dp[genl.d].list /\ e.slots = dp[genl.d].slots
      /\ e.local = dp[genl.d].local /\ e.task = dp[genl.d].task /\ e.timeout = dp[genl.d].timeout
  BY <1>1, <1>2 DEF Datapaths
<1> HIDE DEF e
<1>4. genl' \in Commands /\ genl'.pc = "idle" /\ Stage' = "idle"
  BY <1>1 DEF Idle, Commands, Stage
<1>5. InProgress'
  BY <1>4 DEF InProgress
<1>6. modrefs' \in Int
  BY <1>1 DEF TypeOK
<1>7. Referred'
  BY <1>1, <1>2, <1>4, IndexesAreCounted DEF Referred, Outside
<1> QED
  BY <1>1, <1>2, <1>3, <1>4, <1>5, <1>6, <1>7, OutsideChanges

-----------------------------------------------------------------------------
(* Commands that publish a datapath, and that begin and end the life of one *)
(* or of a port.                                                            *)

\* The count of the references when commands find one datapath more.
LEMMA OneMoreIndex ==
  ASSUME NEW i \in Idx, dps[i] = 0, dps \in [Idx -> Nat], NEW d \in Nat, d # 0, dps' = [dps EXCEPT ![i] = d]
  PROVE  Cardinality({j \in Idx : dps'[j] # 0}) = Cardinality({j \in Idx : dps[j] # 0}) + 1
<1> DEFINE S == {j \in Idx : dps[j] # 0}
<1>1. {j \in Idx : dps'[j] # 0} = S \union {i} /\ i \notin S
  OBVIOUS
<1>2. IsFiniteSet(S)
  BY IndexesAreCounted
<1> HIDE DEF S
<1>3. Cardinality(S \union {i}) = Cardinality(S) + 1
  BY <1>1, <1>2, FS_AddElement
<1> QED
  BY <1>1, <1>3 DEF S

\* new_dp ends: its thread runs, and dps leads to a whole datapath.
LEMMA KthreadRunKeeps ==
  ASSUME IInv, kthread_run
  PROVE  IInv'
<1> USE DEF IInv
<1>1. genl.pc = "kthread_run" /\ Stage = "kthread_run" /\ UNCHANGED <<port, modrefs, others>>
  BY DEF kthread_run, Stage
<1>2. genl.cmd = "ADD_DP" /\ AddsDp /\ genl.d \in DOMAIN dp /\ genl.idx \in Idx /\ dp[genl.d].idx = genl.idx
  BY <1>1 DEF InProgress, DeletesDp, AddsPort, DeletesPort, Setup, Teardown, Removal, TypeOK, Commands
<1>3. Outside /\ dp[genl.d] \in Datapaths /\ genl.d \in Nat /\ genl.d # 0
  BY <1>1, <1>2, Typed, LenProperties DEF AddsDp, Outside, TypeOK
<1>4. CASE Synchronize("chain_destroy") /\ UNCHANGED <<dp, dps>>
  BY <1>1, <1>4, SetupFails
<1>5. CASE /\ dp' = [dp EXCEPT ![genl.d].task = "run"] /\ dps' = [dps EXCEPT ![genl.idx] = genl.d]
           /\ genl' = Idle
  <2> DEFINE e == [dp[genl.d] EXCEPT !.task = "run"]
  <2>1. /\ e \in Datapaths /\ dp' = [dp EXCEPT ![genl.d] = e] /\ e.task = "run" /\ e.timeout = dp[genl.d].timeout
        /\ e.idx = dp[genl.d].idx /\ e.list = dp[genl.d].list /\ e.slots = dp[genl.d].slots
        /\ e.local = dp[genl.d].local /\ e.live = dp[genl.d].live /\ e.chain = dp[genl.d].chain
        /\ e.reg = dp[genl.d].reg
    BY <1>3, <1>5 DEF Datapaths
  <2> HIDE DEF e
  <2>2. /\ dp' \in Seq(Datapaths) /\ DOMAIN dp' = DOMAIN dp /\ dp'[genl.d] = e
        /\ \A c \in DOMAIN dp : c # genl.d => dp'[c] = dp[c]
    BY <1>2, <2>1, DpUpdated
  <2>3. SameLinks /\ SameWhole
    BY <1>1, <2>1, <2>2 DEF SameLinks, SameWhole, others
  <2>4. /\ genl' \in Commands /\ genl'.pc = "idle" /\ Stage' = "idle"
        /\ \A p : ~Freeing(p) /\ ~Freeing(p)'
    BY <1>1, <1>5 DEF Idle, Commands, Stage, Freeing
  <2>5. dps' \in [Idx -> Nat] /\ dps'[genl.idx] = genl.d /\ \A i \in Idx : i # genl.idx => dps'[i] = dps[i]
    BY <1>2, <1>3, <1>5 DEF TypeOK
  <2>6. TypeOK'
    BY <1>1, <2>2, <2>4, <2>5 DEF TypeOK, NoFrame, others
  <2>7. Links' /\ PortsWhole'
    BY <2>3, <2>4, LinksKept, PortsWholeKept
  <2>8. Frames'
    BY <1>1, <2>3, FramesKept DEF others
  <2>9. /\ dp[genl.d].live /\ dp[genl.d].chain /\ dp[genl.d].reg /\ dp[genl.d].task = "none"
        /\ dp[genl.d].local \in dp[genl.d].list
    BY <1>1, <1>2 DEF AddsDp
  <2>10. \A i \in Idx : dps[i] # 0 => dps[i] # genl.d /\ ~Deleting(i)
    BY <1>3, OutsideIsAlone
  <2>11. Published'
    <3> SUFFICES ASSUME NEW i \in Idx, dps'[i] # 0
                 PROVE  /\ dps'[i] \in DOMAIN dp' /\ dp'[dps'[i]].idx = i
                        /\ dp'[dps'[i]].live /\ dp'[dps'[i]].chain /\ dp'[dps'[i]].reg
                        /\ dp'[dps'[i]].task = "run" /\ dp'[dps'[i]].local \in dp'[dps'[i]].list
      BY DEF Published, Whole
    <3>1. CASE i = genl.idx
      BY <1>2, <2>1, <2>2, <2>5, <2>9, <3>1
    <3>2. CASE i # genl.idx
      BY <2>2, <2>5, <2>10, <3>2 DEF Published, Whole
    <3> QED
      BY <3>1, <3>2
  <2>12. Threads'
    BY <1>2, <1>3, <2>1, <2>2, <2>3, <2>9 DEF Threads, SameWhole, Whole
  <2>13. InProgress'
    BY <2>4 DEF InProgress
  <2>14. Referred'
    <3>1. dps[genl.idx] = 0
      BY <1>3 DEF Outside
    <3>2. Cardinality({j \in Idx : dps'[j] # 0}) = Cardinality({j \in Idx : dps[j] # 0}) + 1
      BY <1>2, <1>3, <1>5, <3>1, OneMoreIndex DEF TypeOK
    <3>3. ~Outside'
      BY <2>4 DEF Outside
    <3>4. modrefs' = Cardinality({j \in Idx : dps[j] # 0}) + 1
      BY <1>1, <1>3 DEF Referred
    <3>5. modrefs' = Cardinality({j \in Idx : dps'[j] # 0})
      BY <3>2, <3>4
    <3>6. modrefs' = modrefs /\ modrefs \in Int
      BY <1>1 DEF TypeOK
    <3> QED
      BY <3>3, <3>5, <3>6 DEF Referred
  <2> QED
    BY <2>6, <2>7, <2>8, <2>11, <2>12, <2>13, <2>14
<1> QED
  BY <1>4, <1>5 DEF kthread_run, Return

\* dp_genl_del tells the thread to stop; commands still find the datapath.
LEMMA DelDpKeeps ==
  ASSUME IInv, NEW i \in Idx, del_dp(i)
  PROVE  IInv'
<1> USE DEF IInv
<1>1. genl.pc = "idle" /\ UNCHANGED <<dps, port, modrefs, others>>
  BY DEF del_dp
<1>2. CASE genl' = Idle /\ UNCHANGED dp
  BY <1>1, <1>2, ReturnKeeps
<1>3. CASE /\ dps[i] # 0 /\ dp' = [dp EXCEPT ![dps[i]].task = "stop"]
           /\ genl' = [Idle EXCEPT !.pc = "kthread_stop", !.cmd = "DEL_DP", !.idx = i, !.d = dps[i]]
  <2> DEFINE d == dps[i]
             e == [dp[d] EXCEPT !.task = "stop"]
  <2>1. /\ d \in DOMAIN dp /\ d \in Nat /\ dp[d].idx = i /\ Whole(d) /\ dp[d].reg /\ dp[d].task = "run"
        /\ dp[d] \in Datapaths
    BY <1>1, <1>3, Typed DEF Published, Deleting, TypeOK
  <2>2. /\ e \in Datapaths /\ dp' = [dp EXCEPT ![d] = e] /\ e.task = "stop" /\ e.timeout = dp[d].timeout
        /\ e.idx = dp[d].idx /\ e.list = dp[d].list /\ e.slots = dp[d].slots
        /\ e.local = dp[d].local /\ e.live = dp[d].live /\ e.chain = dp[d].chain
        /\ e.reg = dp[d].reg
    BY <1>3, <2>1 DEF Datapaths
  <2> HIDE DEF e
  <2>3. /\ dp' \in Seq(Datapaths) /\ DOMAIN dp' = DOMAIN dp /\ dp'[d] = e
        /\ \A c \in DOMAIN dp : c # d => dp'[c] = dp[c]
    BY <2>1, <2>2, DpUpdated
  <2>4. SameLinks /\ SameWhole
    BY <1>1, <2>2, <2>3 DEF SameLinks, SameWhole, others
  <2>5. /\ genl' \in Commands /\ genl'.pc = "kthread_stop" /\ Stage' = "kthread_stop" /\ genl'.cmd = "DEL_DP"
        /\ genl'.idx = i /\ genl'.d = d
    BY <1>3, <2>1 DEF Idle, Commands, Stages, Stage
  <2>6. \A p : ~Freeing(p) /\ ~Freeing(p)'
    BY <1>1, <2>5 DEF Freeing, Stage
  <2>7. TypeOK'
    BY <1>1, <2>3, <2>5 DEF TypeOK, NoFrame, others
  <2>8. Links' /\ PortsWhole'
    BY <2>4, <2>6, LinksKept, PortsWholeKept
  <2>9. Frames'
    BY <1>1, <2>4, FramesKept DEF others
  <2>10. Published'
    <3> SUFFICES ASSUME NEW j \in Idx, dps[j] # 0
                 PROVE  /\ dps[j] \in DOMAIN dp' /\ dp'[dps[j]].idx = j
                        /\ dp'[dps[j]].live /\ dp'[dps[j]].chain /\ dp'[dps[j]].reg
                        /\ \/ dp'[dps[j]].task = "run" /\ dp'[dps[j]].local \in dp'[dps[j]].list
                           \/ Deleting(j)'
      BY <1>1 DEF Published, Whole
    <3>1. /\ dps[j] \in DOMAIN dp /\ dp[dps[j]].idx = j
          /\ dp[dps[j]].live /\ dp[dps[j]].chain /\ dp[dps[j]].reg
          /\ dp[dps[j]].task = "run" /\ dp[dps[j]].local \in dp[dps[j]].list
      BY <1>1 DEF Published, Whole, Deleting
    <3>2. CASE j = i
      <4>1. Deleting(j)'
        BY <2>5, <3>2 DEF Deleting
      <4> QED
        BY <2>4, <3>1, <4>1 DEF SameLinks, SameWhole
    <3>3. CASE j # i
      <4>1. dps[j] # d
        BY <2>1, <3>1, <3>3
      <4> QED
        BY <2>3, <3>1, <4>1
    <3> QED
      BY <3>2, <3>3
  <2>11. Threads'
    BY <2>1, <2>2, <2>3, <2>4 DEF Threads, SameWhole, Whole
  <2>12. InProgress'
    BY <1>1, <1>3, <2>1, <2>2, <2>3, <2>5 DEF InProgress, DeletesDp, Teardown, Removal
  <2>13. Referred'
    <3>1. ~Outside /\ ~Outside'
      BY <1>1, <1>3, <2>5 DEF Outside
    <3> QED
      BY <1>1, <3>1 DEF Referred
  <2> QED
    BY <2>7, <2>8, <2>9, <2>10, <2>11, <2>12, <2>13
<1> QED
  BY <1>2, <1>3 DEF del_dp, Return

\* new_dp makes a datapath without ports, tables or thread, and takes a reference.
LEMMA NewDpKeeps ==
  ASSUME IInv, NEW i \in Idx, new_dp(i)
  PROVE  IInv'
<1> USE DEF IInv
<1>1. genl.pc = "idle" /\ UNCHANGED <<dps, port, others>>
  BY DEF new_dp
<1>2. CASE genl' = Idle /\ UNCHANGED <<dp, modrefs>>
  BY <1>1, <1>2, ReturnKeeps
<1> DEFINE new == [idx |-> i, live |-> TRUE, reg |-> FALSE, chain |-> FALSE, list |-> {},
                   slots |-> [n \in Slots |-> 0], local |-> 0, task |-> "none",
                   timeout |-> FALSE, queue |-> 0, tx |-> FALSE]
<1>3. CASE /\ dps[i] = 0 /\ modrefs' = modrefs + 1 /\ dp' = Append(dp, new)
           /\ genl' = [Idle EXCEPT !.pc = "dp_dev_setup", !.cmd = "ADD_DP", !.idx = i, !.d = Len(dp) + 1]
  <2> DEFINE d == Len(dp) + 1
  <2>1. /\ new \in Datapaths /\ new.idx = i /\ new.local = 0 /\ new.live /\ new.list = {} /\ ~new.timeout
        /\ new.task = "none" /\ \A n \in Slots : new.slots[n] = 0
    BY DEF Datapaths
  <2> HIDE DEF new
  <2>2. /\ dp' \in Seq(Datapaths) /\ DOMAIN dp = 1..Len(dp) /\ DOMAIN dp' = 1..d /\ d \in Nat /\ dp'[d] = new
        /\ \A c \in DOMAIN dp : dp'[c] = dp[c]
    BY <1>3, <2>1, AppendProperties, LenProperties DEF TypeOK
  <2>3. /\ d \notin DOMAIN dp /\ d # 0 /\ \A c : c \in DOMAIN dp' <=> (c \in DOMAIN dp \/ c = d)
    BY <2>2
  <2>4. /\ genl' \in Commands /\ genl'.pc = "dp_dev_setup" /\ Stage' = "dp_dev_setup" /\ genl'.cmd = "ADD_DP"
        /\ genl'.idx = i /\ genl'.d = d
    BY <1>3, <2>2 DEF Idle, Commands, Stages, Setup, Stage
  <2> HIDE DEF d
  <2>5. \A p : ~Freeing(p) /\ ~Freeing(p)'
    BY <1>1, <2>4 DEF Freeing, Stage
  <2>6. TypeOK'
    BY <1>1, <1>3, <2>2, <2>3, <2>4 DEF TypeOK, NoFrame, others
  <2>7. Links'
    <3>1. \A p \in DOMAIN port : port[p].dp \in DOMAIN dp /\ (port[p].live <=> p \in dp[port[p].dp].list)
      BY <2>5 DEF Links
    <3>2. \A p \in DOMAIN port :
            /\ port[p].dp \in DOMAIN dp'
            /\ port[p].live <=> (p \in dp'[port[p].dp].list \/ Freeing(p)')
      BY <2>2, <2>3, <2>5, <3>1
    <3>3. \A c \in DOMAIN dp' : \A p \in dp'[c].list :
             /\ p \in DOMAIN port /\ port[p].dp = c
             /\ IF port[p].no = OFPP_LOCAL THEN p = dp'[c].local /\ port[p].dev = OfDev
                ELSE /\ p # dp'[c].local /\ dp'[c].slots[port[p].no] = p
                     /\ port[p].dev \in Devs /\ br_port[port[p].dev] = p
      BY <2>1, <2>2, <2>3 DEF Links
    <3>4. \A c \in DOMAIN dp' : \A n \in Slots : dp'[c].slots[n] # 0 =>
             dp'[c].slots[n] \in dp'[c].list /\ port[dp'[c].slots[n]].no = n
      BY <2>1, <2>2, <2>3 DEF Links
    <3>5. \A v \in Devs : br_port[v] # 0 =>
             /\ br_port[v] \in DOMAIN port /\ port[br_port[v]].dev = v
             /\ br_port[v] \in dp'[port[br_port[v]].dp].list
      BY <2>2, <3>1 DEF Links
    <3>6. \A c \in DOMAIN dp' : dp'[c].local = 0 \/ dp'[c].local \in DOMAIN port
      BY <2>1, <2>2, <2>3 DEF Links
    <3> QED
      BY <1>1, <3>2, <3>3, <3>4, <3>5, <3>6 DEF Links, others
  <2>8. Frames'
    <3>1. \A c \in Cpus : \A p \in rx[c] :
            p \in DOMAIN port /\ port[p].no # OFPP_LOCAL /\ p \in dp[port[p].dp].list
      BY <1>1 DEF Frames, Awaited
    <3>2. \A p \in DOMAIN port : dp'[port[p].dp] = dp[port[p].dp]
      BY <2>2 DEF Links
    <3> QED
      BY <1>1, <3>1, <3>2 DEF Frames, others
  <2>9. PortsWhole'
    BY <1>1, <2>2 DEF PortsWhole, Links, Whole
  <2>10. Published'
    BY <1>1, <2>2, <2>3 DEF Published, Deleting, Whole
  <2>11. Threads'
    BY <2>1, <2>2, <2>3 DEF Threads, Whole
  <2>12. AddsDp'
    BY <1>1, <1>3, <2>1, <2>2, <2>4 DEF AddsDp, Setup
  <2>13. InProgress'
    BY <2>1, <2>2, <2>3, <2>4, <2>12 DEF InProgress, Removal
  <2>14. Referred'
    <3>1. ~Outside /\ Outside'
      BY <1>1, <1>3, <2>4 DEF Outside
    <3>2. modrefs = Cardinality({j \in Idx : dps[j] # 0}) + 0
      BY <3>1 DEF Referred
    <3>3. modrefs' = Cardinality({j \in Idx : dps[j] # 0}) + 1
      BY <1>3, <3>2, IndexesAreCounted
    <3>4. {j \in Idx : dps'[j] # 0} = {j \in Idx : dps[j] # 0}
      BY <1>1
    <3> QED
      BY <3>1, <3>3, <3>4 DEF Referred
  <2> QED
    BY <2>6, <2>7, <2>8, <2>9, <2>10, <2>11, <2>13, <2>14
<1> QED
  BY <1>2, <1>3 DEF new_dp, Return

\* new_nbp: the port that is added has a number and a device that no other port has,
\* in a datapath with tables unless it is the first port.
LEMMA NewPortIsLinked ==
  ASSUME IInv, NEW d \in DOMAIN dp, NEW dev, NEW no, NewPort(d, dev, no), Stage \notin {"kfree_port"},
         Stage' \notin {"kfree_port"}, genl.pc # "synchronize_rcu", rx' = rx,
         \/ no = OFPP_LOCAL /\ dev = OfDev /\ dp[d].list = {}
         \/ /\ no \in Slots /\ dev \in Devs /\ Whole(d)
            /\ dp[d].slots[no] = 0 /\ br_port[dev] = 0
  PROVE  /\ dp' \in Seq(Datapaths) /\ port' \in Seq(PortsOfDps) /\ br_port' \in [Devs -> Nat]
         /\ DOMAIN dp' = DOMAIN dp /\ SameWhole /\ SameTasks
         /\ \A c \in DOMAIN dp : c # d => dp'[c] = dp[c]
         /\ dp'[d].idx = dp[d].idx
         /\ dp'[d].list = dp[d].list \union {Len(port) + 1}
         /\ dp'[d].local = IF no = OFPP_LOCAL THEN Len(port) + 1 ELSE dp[d].local
         /\ no = OFPP_LOCAL => dp'[d].slots = dp[d].slots
         /\ Links' /\ Frames' /\ PortsWhole'
<1> USE DEF IInv
<1> DEFINE p == Len(port) + 1
           new == [dp |-> d, dev |-> dev, no |-> no, live |-> TRUE,
                   down |-> IF dev = OfDev THEN FALSE ELSE ~up[dev],
                   link_down |-> IF dev = OfDev THEN FALSE ELSE ~carrier[dev]]
           e == [dp[d] EXCEPT !.list = @ \union {p},
                              !.slots = IF no = OFPP_LOCAL THEN @ ELSE [@ EXCEPT ![no] = p],
                              !.local = IF no = OFPP_LOCAL THEN p ELSE @]
<1>0. /\ no = OFPP_LOCAL => dev = OfDev /\ dp[d].list = {}
      /\ no # OFPP_LOCAL => /\ no \in Slots /\ dev \in Devs /\ Whole(d)
                            /\ dp[d].slots[no] = 0 /\ br_port[dev] = 0
  BY KernelDatapathAssumption
<1>1. dp[d] \in Datapaths /\ p \in Nat /\ d \in Nat
  BY Typed, LenProperties DEF TypeOK
<1>2. /\ new.dp = d /\ new.dev = dev /\ new.no = no /\ new.live
      /\ new \in PortsOfDps
  BY <1>1 DEF PortsOfDps, TypeOK
<1>3. /\ e \in Datapaths /\ e.idx = dp[d].idx /\ e.live = dp[d].live /\ e.chain = dp[d].chain /\ e.reg = dp[d].reg
      /\ e.task = dp[d].task /\ e.timeout = dp[d].timeout
      /\ e.list = dp[d].list \union {p} /\ e.slots \in [Slots -> Nat]
      /\ e.slots = (IF no = OFPP_LOCAL THEN dp[d].slots ELSE [dp[d].slots EXCEPT ![no] = p])
      /\ e.local = IF no = OFPP_LOCAL THEN p ELSE dp[d].local
  <2>1. dp[d].list \union {p} \in SUBSET Nat
    BY <1>1 DEF Datapaths
  <2>2. (IF no = OFPP_LOCAL THEN dp[d].slots ELSE [dp[d].slots EXCEPT ![no] = p]) \in [Slots -> Nat]
    BY <1>1 DEF Datapaths
  <2> QED
    BY <1>1, <2>1, <2>2 DEF Datapaths
<1>4. /\ dp' = [dp EXCEPT ![d] = e] /\ port' = Append(port, new)
      /\ br_port' = IF no = OFPP_LOCAL THEN br_port ELSE [br_port EXCEPT ![dev] = p]
  BY DEF NewPort
<1> HIDE DEF new, e
<1>5. /\ dp' \in Seq(Datapaths) /\ DOMAIN dp' = DOMAIN dp /\ dp'[d] = e
      /\ \A c \in DOMAIN dp : c # d => dp'[c] = dp[c]
  BY <1>3, <1>4, DpUpdated
<1>6. /\ port' \in Seq(PortsOfDps) /\ DOMAIN port = 1..Len(port) /\ DOMAIN port' = 1..p /\ port'[p] = new
      /\ \A q \in DOMAIN port : port'[q] = port[q]
  BY <1>2, <1>4, AppendProperties, LenProperties DEF TypeOK
<1>7. /\ p \notin DOMAIN port /\ p # 0
      /\ \A q : q \in DOMAIN port' <=> (q \in DOMAIN port \/ q = p)
  BY <1>1, <1>6
<1> HIDE DEF p
<1>8. br_port' \in [Devs -> Nat]
  BY <1>1, <1>4 DEF TypeOK
<1>9. SameWhole /\ SameTasks
  BY <1>3, <1>5 DEF SameWhole, SameTasks
<1>10. \A q \in DOMAIN port' :
         /\ port'[q].dp \in DOMAIN dp'
         /\ port'[q].live <=> (q \in dp'[port'[q].dp].list \/ Freeing(q)')
  <2> SUFFICES ASSUME NEW q \in DOMAIN port'
               PROVE  /\ port'[q].dp \in DOMAIN dp'
                      /\ port'[q].live <=> q \in dp'[port'[q].dp].list
    BY DEF Freeing
  <2>1. CASE q = p
    BY <1>2, <1>3, <1>5, <1>6, <2>1
  <2>2. CASE q # p
    <3>1. q \in DOMAIN port /\ port'[q] = port[q]
      BY <1>6, <1>7, <2>2
    <3>2. port[q].dp \in DOMAIN dp /\ (port[q].live <=> q \in dp[port[q].dp].list)
      BY <3>1 DEF Links, Freeing
    <3> QED
      BY <1>3, <1>5, <2>2, <3>1, <3>2
  <2> QED
    BY <2>1, <2>2
<1>11. ASSUME NEW c \in DOMAIN dp', NEW q \in dp'[c].list
       PROVE  /\ q \in DOMAIN port' /\ port'[q].dp = c
              /\ IF port'[q].no = OFPP_LOCAL THEN q = dp'[c].local /\ port'[q].dev = OfDev
                 ELSE /\ q # dp'[c].local /\ dp'[c].slots[port'[q].no] = q
                      /\ port'[q].dev \in Devs /\ br_port'[port'[q].dev] = q
  <2>1. CASE c = d /\ q = p
    <3>1. q \in DOMAIN port' /\ port'[q].dp = c /\ port'[q].no = no /\ port'[q].dev = dev
      BY <1>2, <1>6, <1>7, <2>1
    <3>2. CASE no = OFPP_LOCAL
      BY <1>0, <1>3, <1>5, <2>1, <3>1, <3>2
    <3>3. CASE no # OFPP_LOCAL
      <4>1. q # dp[c].local
        BY <1>7, <2>1 DEF Links
      <4>2. e.slots[no] = p
        BY <1>1, <1>3, <3>3 DEF Datapaths
      <4>3. dev \in Devs /\ br_port'[dev] = p
        BY <1>4, <3>3 DEF TypeOK
      <4> QED
        BY <1>3, <1>5, <2>1, <3>1, <3>3, <4>1, <4>2, <4>3
    <3> QED
      BY <3>2, <3>3
  <2>2. CASE q \in dp[c].list
    <3>1. /\ q \in DOMAIN port /\ port[q].dp = c /\ port'[q] = port[q] /\ q \in DOMAIN port'
          /\ IF port[q].no = OFPP_LOCAL THEN q = dp[c].local /\ port[q].dev = OfDev
             ELSE /\ q # dp[c].local /\ dp[c].slots[port[q].no] = q
                  /\ port[q].dev \in Devs /\ br_port[port[q].dev] = q
      BY <1>5, <1>6, <1>7, <2>2 DEF Links
    <3>2. q # p /\ q # 0
      BY <1>6, <1>7, <3>1
    <3>3. port[q].no # OFPP_LOCAL => br_port'[port[q].dev] = q
      BY <1>4, <3>1, <3>2 DEF TypeOK
    <3>4. CASE c # d
      BY <1>5, <3>1, <3>3, <3>4
    <3>5. CASE c = d
      <4>1. no # OFPP_LOCAL /\ no \in Slots /\ dp[d].slots[no] = 0
        BY <1>0, <2>2, <3>5
      <4>2. e.local = dp[d].local /\ e.slots = [dp[d].slots EXCEPT ![no] = p]
        BY <1>3, <4>1
      <4>3. port[q].no \in Slots \union {OFPP_LOCAL}
        BY <3>1, Typed DEF PortsOfDps
      <4>4. port[q].no # OFPP_LOCAL => e.slots[port[q].no] = q
        BY <1>1, <3>1, <3>2, <3>5, <4>1, <4>2, <4>3 DEF Datapaths
      <4> QED
        BY <1>5, <3>1, <3>3, <3>5, <4>2, <4>4
    <3> QED
      BY <3>4, <3>5
  <2> QED
    BY <1>3, <1>5, <2>1, <2>2
<1>12. \A c \in DOMAIN dp' : dp'[c].local = 0 \/ dp'[c].local \in DOMAIN port'
  BY <1>3, <1>5, <1>7 DEF Links
<1>13. ASSUME NEW c \in DOMAIN dp', NEW n \in Slots, dp'[c].slots[n] # 0
       PROVE  dp'[c].slots[n] \in dp'[c].list /\ port'[dp'[c].slots[n]].no = n
  <2>1. CASE c = d /\ n = no
    <3>1. e.slots[n] = p
      BY <1>1, <1>3, <2>1, KernelDatapathAssumption DEF Datapaths
    <3> QED
      BY <1>2, <1>3, <1>5, <1>6, <2>1, <3>1
  <2>2. CASE ~(c = d /\ n = no)
    <3>1. dp'[c].slots[n] = dp[c].slots[n]
      BY <1>1, <1>3, <1>5, <2>2 DEF Datapaths
    <3>2. c \in DOMAIN dp /\ dp[c].slots[n] \in dp[c].list /\ port[dp[c].slots[n]].no = n /\ dp[c].slots[n] \in DOMAIN port
      BY <1>5, <1>13, <3>1 DEF Links
    <3> QED
      BY <1>3, <1>5, <1>6, <3>1, <3>2
  <2> QED
    BY <2>1, <2>2
<1>14. ASSUME NEW v \in Devs, br_port'[v] # 0
       PROVE  /\ br_port'[v] \in DOMAIN port' /\ port'[br_port'[v]].dev = v
              /\ br_port'[v] \in dp'[port'[br_port'[v]].dp].list
  <2>1. CASE br_port'[v] = br_port[v]
    <3>1. /\ br_port[v] \in DOMAIN port /\ port[br_port[v]].dev = v
          /\ br_port[v] \in dp[port[br_port[v]].dp].list /\ port[br_port[v]].dp \in DOMAIN dp
      BY <1>14, <2>1 DEF Links
    <3>2. br_port[v] \in DOMAIN port' /\ port'[br_port[v]] = port[br_port[v]]
      BY <1>6, <1>7, <3>1
    <3>3. br_port[v] \in dp'[port[br_port[v]].dp].list
      BY <1>3, <1>5, <3>1
    <3> QED
      BY <2>1, <3>1, <3>2, <3>3
  <2>2. CASE br_port'[v] # br_port[v]
    <3>1. no # OFPP_LOCAL /\ v = dev /\ br_port'[v] = p
      BY <1>4, <2>2 DEF TypeOK
    <3> QED
      BY <1>2, <1>3, <1>5, <1>6, <1>7, <3>1
  <2> QED
    BY <2>1, <2>2
<1>15. Links'
  BY <1>10, <1>11, <1>12, <1>13, <1>14 DEF Links
<1>16. Frames'
  <2>1. \A c \in Cpus : \A q \in rx[c] :
          q \in DOMAIN port /\ port[q].no # OFPP_LOCAL /\ q \in dp[port[q].dp].list /\ port[q].dp \in DOMAIN dp
    BY DEF Frames, Awaited, Links
  <2>2. \A q \in DOMAIN port : q \in DOMAIN port' /\ port'[q] = port[q]
    BY <1>6, <1>7
  <2>3. \A c \in DOMAIN dp : dp[c].list \subseteq dp'[c].list
    BY <1>3, <1>5
  <2>4. \A c \in Cpus : \A q \in rx'[c] :
          q \in DOMAIN port' /\ port'[q].no # OFPP_LOCAL /\ q \in dp'[port'[q].dp].list
    BY <2>1, <2>2, <2>3
  <2> QED
    BY <2>4 DEF Frames
<1>17. PortsWhole'
  <2> SUFFICES ASSUME NEW q \in DOMAIN port', port'[q].live, port'[q].no # OFPP_LOCAL
               PROVE  dp'[port'[q].dp].live /\ dp'[port'[q].dp].chain
    BY DEF PortsWhole, Whole
  <2>1. CASE q = p
    BY <1>2, <1>3, <1>5, <1>6, <2>1 DEF Whole
  <2>2. CASE q # p
    <3>1. q \in DOMAIN port /\ port'[q] = port[q] /\ port[q].dp \in DOMAIN dp
      BY <1>6, <1>7, <2>2 DEF Links
    <3> QED
      BY <1>9, <3>1 DEF PortsWhole, Whole, SameWhole
  <2> QED
    BY <2>1, <2>2
<1> QED
  BY <1>3, <1>5, <1>6, <1>8, <1>9, <1>15, <1>16, <1>17 DEF p

\* The local port is the first of a datapath that only new_dp knows.
LEMMA NewLocalKeeps ==
  ASSUME IInv, new_local
  PROVE  IInv'
<1> USE DEF IInv
<1>1. /\ genl.pc = "new_local" /\ Stage = "new_local"
      /\ UNCHANGED <<dps, modrefs, up, carrier, rx, work, notif, frames, events>>
  BY DEF new_local, Stage
<1>2. genl.cmd = "ADD_DP" /\ AddsDp /\ genl.d \in DOMAIN dp /\ genl.idx \in Idx /\ dp[genl.d].idx = genl.idx
  BY <1>1 DEF InProgress, DeletesDp, AddsPort, DeletesPort, Setup, Teardown, Removal, TypeOK, Commands
<1>3. Outside
  BY <1>1, <1>2 DEF AddsDp, Outside
<1>4. CASE Goto("oops") /\ UNCHANGED <<dp, port, br_port>>
  BY <1>1, <1>4, SetupFails DEF others
<1>5. CASE NewPort(genl.d, OfDev, OFPP_LOCAL) /\ Goto("kthread_run")
  <2>1. /\ genl' \in Commands /\ genl'.pc = "kthread_run" /\ Stage' = "kthread_run"
        /\ genl'.cmd = genl.cmd /\ genl'.idx = genl.idx /\ genl'.d = genl.d
    BY <1>5, GotoMoves DEF Stages
  <2>2. dp[genl.d].list = {}
    BY <1>1, <1>2 DEF AddsDp, Setup
  <2>3. /\ dp' \in Seq(Datapaths) /\ port' \in Seq(PortsOfDps) /\ br_port' \in [Devs -> Nat]
        /\ DOMAIN dp' = DOMAIN dp /\ SameWhole /\ SameTasks
        /\ \A c \in DOMAIN dp : c # genl.d => dp'[c] = dp[c]
        /\ dp'[genl.d].idx = dp[genl.d].idx
        /\ dp'[genl.d].list = dp[genl.d].list \union {Len(port) + 1}
        /\ dp'[genl.d].local = Len(port) + 1 /\ dp'[genl.d].slots = dp[genl.d].slots
        /\ Links' /\ Frames' /\ PortsWhole'
    BY <1>1, <1>2, <1>5, <2>1, <2>2, NewPortIsLinked
  <2>4. rtnl_free
    BY <1>5 DEF NewPort
  <2>5. TypeOK'
    BY <1>1, <2>1, <2>3, <2>4 DEF TypeOK, NoFrame, rtnl_free
  <2>6. \A i \in Idx : dps[i] # 0 => dps[i] # genl.d /\ ~Deleting(i)
    BY <1>3, OutsideIsAlone
  <2>7. Published'
    <3> SUFFICES ASSUME NEW i \in Idx, dps[i] # 0
                 PROVE  /\ dps[i] \in DOMAIN dp' /\ dp'[dps[i]].idx = i
                        /\ dp'[dps[i]].live /\ dp'[dps[i]].chain /\ dp'[dps[i]].reg
                        /\ dp'[dps[i]].task = "run" /\ dp'[dps[i]].local \in dp'[dps[i]].list
      BY <1>1 DEF Published, Whole
    <3> QED
      BY <2>3, <2>6 DEF Published, Whole
  <2>8. Threads'
    BY <2>3 DEF Threads, SameWhole, SameTasks, Whole
  <2>9. AddsDp'
    BY <1>1, <1>2, <2>1, <2>3 DEF AddsDp, Setup, SameWhole, SameTasks
  <2>10. InProgress'
    BY <1>1, <1>2, <2>1, <2>3, <2>9 DEF InProgress, Removal
  <2>11. Outside' <=> Outside
    BY <1>1, <2>1 DEF Outside
  <2>12. Referred'
    BY <1>1, <2>11 DEF Referred
  <2> QED
    BY <2>3, <2>5, <2>7, <2>8, <2>10, <2>12
<1> QED
  BY <1>4, <1>5 DEF new_local

\* A port of a device takes the first free number of a datapath in use.
LEMMA NewNbpKeeps ==
  ASSUME IInv, new_nbp
  PROVE  IInv'
<1> USE DEF IInv
<1>1. /\ genl.pc = "new_nbp" /\ Stage = "new_nbp" /\ genl' = Idle
      /\ UNCHANGED <<dps, modrefs, up, carrier, rx, work, notif, frames, events>>
  BY DEF new_nbp, Stage, Return
<1>2. PICK n \in find_portno(genl.d) : NewPort(genl.d, genl.dev, n)
  BY DEF new_nbp
<1>3. genl.cmd = "ADD_PORT" /\ AddsPort /\ genl.d \in DOMAIN dp /\ genl.idx \in Idx /\ dp[genl.d].idx = genl.idx
  BY <1>1 DEF InProgress, AddsDp, DeletesDp, DeletesPort, Setup, Teardown, Removal, TypeOK, Commands
<1>4. genl.d # 0
  BY <1>3, LenProperties DEF TypeOK
<1>5. n \in Slots /\ dp[genl.d].slots[n] = 0 /\ genl.dev \in Devs /\ br_port[genl.dev] = 0 /\ Whole(genl.d)
  BY <1>2, <1>3, <1>4 DEF find_portno, AddsPort, Published
<1>6. genl' \in Commands /\ genl'.pc = "idle" /\ Stage' = "idle"
  BY <1>1 DEF Idle, Commands, Stage
<1>7. n # OFPP_LOCAL
  BY <1>5, KernelDatapathAssumption
<1>8. /\ dp' \in Seq(Datapaths) /\ port' \in Seq(PortsOfDps) /\ br_port' \in [Devs -> Nat]
      /\ DOMAIN dp' = DOMAIN dp /\ SameWhole /\ SameTasks
      /\ \A c \in DOMAIN dp : c # genl.d => dp'[c] = dp[c]
      /\ dp'[genl.d].idx = dp[genl.d].idx
      /\ dp'[genl.d].list = dp[genl.d].list \union {Len(port) + 1}
      /\ dp'[genl.d].local = dp[genl.d].local
      /\ Links' /\ Frames' /\ PortsWhole'
  BY <1>1, <1>2, <1>3, <1>5, <1>6, <1>7, NewPortIsLinked
<1>9. rtnl_free
  BY <1>2 DEF NewPort
<1>10. TypeOK'
  BY <1>1, <1>6, <1>8, <1>9 DEF TypeOK, NoFrame, rtnl_free
<1>11. Published'
  <2> SUFFICES ASSUME NEW i \in Idx, dps[i] # 0
               PROVE  /\ dps[i] \in DOMAIN dp' /\ dp'[dps[i]].idx = i
                      /\ dp'[dps[i]].live /\ dp'[dps[i]].chain /\ dp'[dps[i]].reg
                      /\ dp'[dps[i]].task = "run" /\ dp'[dps[i]].local \in dp'[dps[i]].list
    BY <1>1 DEF Published, Whole
  <2>1. /\ dps[i] \in DOMAIN dp /\ dp[dps[i]].idx = i
        /\ dp[dps[i]].live /\ dp[dps[i]].chain /\ dp[dps[i]].reg
        /\ dp[dps[i]].task = "run" /\ dp[dps[i]].local \in dp[dps[i]].list
    BY <1>3 DEF Published, Whole, Deleting
  <2>2. /\ dp'[dps[i]].idx = dp[dps[i]].idx /\ dp'[dps[i]].local = dp[dps[i]].local
        /\ dp[dps[i]].list \subseteq dp'[dps[i]].list
    BY <1>8, <2>1
  <2> QED
    BY <1>8, <2>1, <2>2 DEF SameWhole, SameTasks
<1>12. Threads'
  BY <1>8 DEF Threads, SameWhole, SameTasks, Whole
<1>13. InProgress'
  BY <1>6 DEF InProgress
<1>14. ~Outside /\ ~Outside'
  BY <1>3, <1>6 DEF Outside
<1>15. Referred'
  BY <1>1, <1>14 DEF Referred
<1> QED
  BY <1>8, <1>10, <1>11, <1>12, <1>13, <1>15

\* dp_del_switch_port frees a port that no frame holds any more.
LEMMA KfreePortKeeps ==
  ASSUME IInv, kfree_port
  PROVE  IInv'
<1> USE DEF IInv
<1> DEFINE p == genl.p
           e == [port[p] EXCEPT !.live = FALSE]
<1>1. /\ genl.pc = "kfree_port" /\ Stage = "kfree_port" /\ UNCHANGED <<dps, dp, modrefs, others>>
  BY DEF kfree_port, Stage
<1>2. /\ genl.d \in DOMAIN dp /\ genl.idx \in Idx /\ dp[genl.d].idx = genl.idx
      /\ p \in DOMAIN port /\ port[p].dp = genl.d /\ p \notin dp[genl.d].list
      /\ port[p] \in PortsOfDps
  BY <1>1, Typed DEF InProgress, RemovesPort, Removal
<1>3. /\ e \in PortsOfDps /\ port' = [port EXCEPT ![p] = e] /\ ~e.live
      /\ e.dp = port[p].dp /\ e.dev = port[p].dev /\ e.no = port[p].no
  BY <1>2 DEF PortsOfDps, kfree_port
<1> HIDE DEF e
<1>4. /\ port' \in Seq(PortsOfDps) /\ DOMAIN port' = DOMAIN port /\ port'[p] = e
      /\ \A q \in DOMAIN port : q # p => port'[q] = port[q]
  BY <1>2, <1>3, PortUpdated
<1>5. \A q \in DOMAIN port : port'[q].dp = port[q].dp /\ port'[q].dev = port[q].dev /\ port'[q].no = port[q].no
  BY <1>3, <1>4
<1>6. \/ genl.cmd = "DEL_DP" /\ Goto("del_ports")
      \/ genl.cmd = "DEL_PORT" /\ genl' = Idle
  BY <1>1 DEF kfree_port, Return, InProgress, AddsDp, AddsPort, Setup, Teardown, TypeOK, Commands
<1>7. /\ genl' \in Commands /\ genl'.pc # "synchronize_rcu" /\ Stage' \in {"del_ports", "idle"}
      /\ genl'.pc # "idle" => /\ genl.cmd = "DEL_DP" /\ genl'.cmd = "DEL_DP" /\ genl'.idx = genl.idx
                              /\ genl'.d = genl.d /\ Stage' = "del_ports"
  <2>1. CASE genl' = Idle
    BY <2>1 DEF Idle, Commands, Stage
  <2>2. CASE genl.cmd = "DEL_DP" /\ Goto("del_ports")
    BY <2>2, GotoMoves DEF Stages
  <2> QED
    BY <1>6, <2>1, <2>2
<1>8. TypeOK'
  BY <1>1, <1>4, <1>5, <1>7 DEF TypeOK, NoFrame, others
<1>9. Links'
  <2>1. \A q \in DOMAIN port' :
          /\ port'[q].dp \in DOMAIN dp'
          /\ port'[q].live <=> (q \in dp'[port'[q].dp].list \/ Freeing(q)')
    <3>1. \A q \in DOMAIN port : q # p => ~Freeing(q)
      BY DEF Freeing
    <3>2. \A q : ~Freeing(q)'
      BY <1>7 DEF Freeing
    <3> QED
      BY <1>1, <1>2, <1>3, <1>4, <1>5, <3>1, <3>2 DEF Links
  <2>2. \A d \in DOMAIN dp' : \A q \in dp'[d].list :
         /\ q \in DOMAIN port' /\ port'[q].dp = d
         /\ IF port'[q].no = OFPP_LOCAL THEN q = dp'[d].local /\ port'[q].dev = OfDev
            ELSE /\ q # dp'[d].local /\ dp'[d].slots[port'[q].no] = q
                 /\ port'[q].dev \in Devs /\ br_port'[port'[q].dev] = q
    BY <1>1, <1>4, <1>5 DEF Links, others
  <2>3. \A d \in DOMAIN dp' : dp'[d].local = 0 \/ dp'[d].local \in DOMAIN port'
    BY <1>1, <1>4 DEF Links
  <2>4. \A d \in DOMAIN dp' : \A n \in Slots : dp'[d].slots[n] # 0 =>
         dp'[d].slots[n] \in dp'[d].list /\ port'[dp'[d].slots[n]].no = n
    BY <1>1, <1>5 DEF Links
  <2>5. \A v \in Devs : br_port'[v] # 0 =>
         /\ br_port'[v] \in DOMAIN port' /\ port'[br_port'[v]].dev = v
         /\ br_port'[v] \in dp'[port'[br_port'[v]].dp].list
    BY <1>1, <1>4, <1>5 DEF Links, others
  <2> QED
    BY <2>1, <2>2, <2>3, <2>4, <2>5 DEF Links
<1>10. Frames'
  <2>1. \A c \in Cpus : \A q \in rx[c] :
          q \in DOMAIN port /\ port[q].no # OFPP_LOCAL /\ q \in dp[port[q].dp].list
    BY <1>1 DEF Frames, Awaited
  <2> QED
    BY <1>1, <1>4, <1>5, <2>1 DEF Frames, others
<1>11. PortsWhole'
  BY <1>1, <1>3, <1>4 DEF PortsWhole, Whole
<1>12. Published'
  <2>1. \A i \in Idx : Deleting(i) => Deleting(i)'
    <3>1. "del_ports" \in Stages
      BY DEF Stages
    <3>2. genl.cmd = "DEL_DP" => genl'.pc = "del_ports" /\ genl'.cmd = genl.cmd /\ genl'.idx = genl.idx
      BY <1>6, <3>1, GotoMoves
    <3> QED
      BY <3>2 DEF Deleting
  <2> QED
    BY <1>1, <2>1 DEF Published, Whole
<1>13. Threads'
  BY <1>1 DEF Threads, Whole
<1>14. InProgress'
  <2> SUFFICES ASSUME genl'.pc # "idle"
               PROVE  InProgress'
    BY DEF InProgress
  <2>1. DeletesDp
    BY <1>1, <1>7 DEF InProgress
  <2>2. DeletesDp'
    BY <1>1, <1>7, <2>1 DEF DeletesDp, Removal, Teardown
  <2> QED
    BY <1>1, <1>2, <1>7, <2>2 DEF InProgress, Removal
<1>15. Outside' <=> Outside
  <2>1. ~Outside
    <3>1. genl.cmd = "DEL_DP" => dps[genl.idx] = genl.d
      BY <1>1 DEF InProgress, DeletesDp, Teardown
    <3>2. genl.d # 0
      BY <1>2, LenProperties DEF TypeOK
    <3> QED
      BY <1>6, <3>1, <3>2 DEF Outside
  <2>2. ~Outside'
    BY <1>1, <1>7, <2>1 DEF Outside
  <2> QED
    BY <2>1, <2>2
<1>16. Referred'
  BY <1>1, <1>15 DEF Referred
<1> QED
  BY <1>8, <1>9, <1>10, <1>11, <1>12, <1>13, <1>14, <1>16

\* dp_del_switch_port takes the port out of port_list, ports[] and br_port at once,
\* and waits for the frames that may hold it.
LEMMA UnlinkKeeps ==
  ASSUME IInv, unlink
  PROVE  IInv'
<1> USE DEF IInv
<1> DEFINE p == genl.p
           d == genl.d
           no == port[p].no
           dev == port[p].dev
           e == [dp[d] EXCEPT !.list = @ \ {p},
                              !.slots = IF no = OFPP_LOCAL THEN @ ELSE [@ EXCEPT ![no] = 0]]
<1>1. /\ genl.pc = "unlink" /\ Stage = "unlink" /\ Synchronize("kfree_port")
      /\ UNCHANGED <<dps, port, modrefs, up, carrier, rx, work, notif, frames, events>>
      /\ dp' = [dp EXCEPT ![port[p].dp].list = @ \ {p},
                          ![port[p].dp].slots = IF no = OFPP_LOCAL THEN @ ELSE [@ EXCEPT ![no] = 0]]
      /\ br_port' = IF dev = OfDev THEN br_port ELSE [br_port EXCEPT ![dev] = 0]
  BY DEF unlink, Unlink, Stage
<1>2. /\ d \in DOMAIN dp /\ genl.idx \in Idx /\ dp[d].idx = genl.idx
      /\ p \in DOMAIN port /\ port[p].dp = d /\ p \in dp[d].list
      /\ genl.cmd \in {"DEL_DP", "DEL_PORT"}
  BY <1>1 DEF InProgress, RemovesPort, AddsDp, AddsPort, Setup, Teardown, Removal, TypeOK, Commands
<1>3. /\ dp[d] \in Datapaths /\ d # 0 /\ p # 0
      /\ no \in Slots \union {OFPP_LOCAL} /\ dev \in Devs \union {OfDev}
  BY <1>2, Typed, LenProperties DEF PortsOfDps, TypeOK
<1>4. /\ no = OFPP_LOCAL => dev = OfDev
      /\ no # OFPP_LOCAL => dev \in Devs /\ dev # OfDev /\ dp[d].slots[no] = p /\ br_port[dev] = p
      /\ no # OFPP_LOCAL => p # dp[d].local
  BY <1>2, <1>3, KernelDatapathAssumption DEF Links
<1>5. /\ e \in Datapaths /\ e.idx = dp[d].idx /\ e.live = dp[d].live /\ e.chain = dp[d].chain /\ e.reg = dp[d].reg
      /\ e.task = dp[d].task /\ e.timeout = dp[d].timeout /\ e.local = dp[d].local
      /\ e.list = dp[d].list \ {p}
      /\ e.slots = IF no = OFPP_LOCAL THEN dp[d].slots ELSE [dp[d].slots EXCEPT ![no] = 0]
  <2>1. (IF no = OFPP_LOCAL THEN dp[d].slots ELSE [dp[d].slots EXCEPT ![no] = 0]) \in [Slots -> Nat]
    BY <1>3 DEF Datapaths
  <2>2. dp[d].list \ {p} \in SUBSET Nat
    BY <1>3 DEF Datapaths
  <2> QED
    BY <1>3, <2>1, <2>2 DEF Datapaths
<1>6. dp' = [dp EXCEPT ![d] = e]
  BY <1>1, <1>2
<1> HIDE DEF e
<1>7. /\ dp' \in Seq(Datapaths) /\ DOMAIN dp' = DOMAIN dp /\ dp'[d] = e
      /\ \A c \in DOMAIN dp : c # d => dp'[c] = dp[c]
  BY <1>2, <1>5, <1>6, DpUpdated
<1>8. /\ genl' \in Commands /\ genl'.pc = "synchronize_rcu" /\ genl'.next = "kfree_port"
      /\ genl'.next # "idle" /\ genl'.wait = reading
      /\ Stage' = "kfree_port" /\ genl'.cmd = genl.cmd /\ genl'.idx = genl.idx
      /\ genl'.d = d /\ genl'.p = p
  BY <1>1, SynchronizeMoves DEF Stages, Removal
<1>9. /\ br_port' \in [Devs -> Nat]
      /\ \A v \in Devs : br_port'[v] = IF v = dev THEN 0 ELSE br_port[v]
  BY <1>1, <1>3, KernelDatapathAssumption DEF TypeOK
<1>10. SameWhole /\ SameTasks
  BY <1>5, <1>7 DEF SameWhole, SameTasks
<1>11. \A q : ~Freeing(q) /\ (Freeing(q)' <=> q = p)
  BY <1>1, <1>8 DEF Freeing
<1>12. \A n \in Slots : e.slots[n] = IF n = no THEN 0 ELSE dp[d].slots[n]
  BY <1>3, <1>5, KernelDatapathAssumption DEF Datapaths
<1> HIDE DEF p, d, no, dev
<1>13. TypeOK'
  BY <1>1, <1>7, <1>8, <1>9 DEF TypeOK, NoFrame
<1>14. \A q \in DOMAIN port :
         /\ port[q].dp \in DOMAIN dp'
         /\ port[q].live <=> (q \in dp'[port[q].dp].list \/ Freeing(q)')
  BY <1>2, <1>5, <1>7, <1>11 DEF Links
<1>15. ASSUME NEW c \in DOMAIN dp, NEW q \in dp'[c].list
       PROVE  /\ q \in DOMAIN port /\ port[q].dp = c
              /\ IF port[q].no = OFPP_LOCAL THEN q = dp'[c].local /\ port[q].dev = OfDev
                 ELSE /\ q # dp'[c].local /\ dp'[c].slots[port[q].no] = q
                      /\ port[q].dev \in Devs /\ br_port'[port[q].dev] = q
  <2>1. q \in dp[c].list /\ (c = d => q # p)
    BY <1>5, <1>7
  <2>2. /\ q \in DOMAIN port /\ port[q].dp = c
        /\ IF port[q].no = OFPP_LOCAL THEN q = dp[c].local /\ port[q].dev = OfDev
           ELSE /\ q # dp[c].local /\ dp[c].slots[port[q].no] = q
                /\ port[q].dev \in Devs /\ br_port[port[q].dev] = q
    BY <2>1 DEF Links
  <2>3. q # p
    BY <1>2, <2>1, <2>2
  <2>4. dp'[c].local = dp[c].local
    BY <1>5, <1>7
  <2>5. CASE port[q].no = OFPP_LOCAL
    BY <2>2, <2>4, <2>5
  <2>6. CASE port[q].no # OFPP_LOCAL
    <3>1. port[q].no \in Slots
      BY <2>2, <2>6, Typed DEF PortsOfDps
    <3>2. c = d => port[q].no # no
      BY <1>3, <1>4, <2>2, <2>3, <2>6, <3>1
    <3>3. dp'[c].slots[port[q].no] = q
      BY <1>7, <1>12, <2>2, <2>6, <3>1, <3>2
    <3>4. port[q].dev # dev
      BY <1>3, <1>4, <2>2, <2>3, <2>6, KernelDatapathAssumption
    <3> QED
      BY <1>9, <2>2, <2>4, <2>6, <3>3, <3>4
  <2> QED
    BY <2>5, <2>6
<1>16. \A c \in DOMAIN dp : dp'[c].local = 0 \/ dp'[c].local \in DOMAIN port
  BY <1>5, <1>7 DEF Links
<1>17. ASSUME NEW c \in DOMAIN dp, NEW n \in Slots, dp'[c].slots[n] # 0
       PROVE  dp'[c].slots[n] \in dp'[c].list /\ port[dp'[c].slots[n]].no = n
  <2>1. dp'[c].slots[n] = dp[c].slots[n] /\ (c = d => n # no)
    BY <1>7, <1>12, <1>17
  <2>2. dp[c].slots[n] \in dp[c].list /\ port[dp[c].slots[n]].no = n
    BY <1>17, <2>1 DEF Links
  <2>3. c = d => dp[c].slots[n] # p
    BY <2>1, <2>2 DEF no
  <2> QED
    BY <1>5, <1>7, <2>1, <2>2, <2>3
<1>18. ASSUME NEW v \in Devs, br_port'[v] # 0
       PROVE  /\ br_port'[v] \in DOMAIN port /\ port[br_port'[v]].dev = v
              /\ br_port'[v] \in dp'[port[br_port'[v]].dp].list
  <2>1. v # dev /\ br_port'[v] = br_port[v]
    BY <1>9, <1>18
  <2>2. /\ br_port[v] \in DOMAIN port /\ port[br_port[v]].dev = v
        /\ br_port[v] \in dp[port[br_port[v]].dp].list /\ port[br_port[v]].dp \in DOMAIN dp
    BY <1>18, <2>1 DEF Links
  <2>3. br_port[v] # p
    BY <2>1, <2>2 DEF dev
  <2> QED
    BY <1>5, <1>7, <2>1, <2>2, <2>3
<1>19. Links'
  <2>1. port' = port /\ DOMAIN dp' = DOMAIN dp
    BY <1>1, <1>7
  <2>2. \A q \in DOMAIN port' :
         /\ port'[q].dp \in DOMAIN dp'
         /\ port'[q].live <=> (q \in dp'[port'[q].dp].list \/ Freeing(q)')
    BY <1>14, <2>1
  <2>3. \A c \in DOMAIN dp' : \A q \in dp'[c].list :
         /\ q \in DOMAIN port' /\ port'[q].dp = c
         /\ IF port'[q].no = OFPP_LOCAL THEN q = dp'[c].local /\ port'[q].dev = OfDev
            ELSE /\ q # dp'[c].local /\ dp'[c].slots[port'[q].no] = q
                 /\ port'[q].dev \in Devs /\ br_port'[port'[q].dev] = q
    BY <1>15, <2>1
  <2>4. \A c \in DOMAIN dp' : dp'[c].local = 0 \/ dp'[c].local \in DOMAIN port'
    BY <1>16, <2>1
  <2>5. \A c \in DOMAIN dp' : \A n \in Slots : dp'[c].slots[n] # 0 =>
         dp'[c].slots[n] \in dp'[c].list /\ port'[dp'[c].slots[n]].no = n
    BY <1>17, <2>1
  <2>6. \A v \in Devs : br_port'[v] # 0 =>
         /\ br_port'[v] \in DOMAIN port' /\ port'[br_port'[v]].dev = v
         /\ br_port'[v] \in dp'[port'[br_port'[v]].dp].list
    BY <1>18, <2>1
  <2> QED
    BY <2>2, <2>3, <2>4, <2>5, <2>6 DEF Links
<1>20. Frames'
  <2> SUFFICES ASSUME NEW c \in Cpus, NEW q \in rx[c]
               PROVE  /\ q \in DOMAIN port /\ port[q].no # OFPP_LOCAL
                      /\ q \in dp'[port[q].dp].list \/ Awaited(c, q)'
    BY <1>1 DEF Frames
  <2>1. q \in DOMAIN port /\ port[q].no # OFPP_LOCAL /\ q \in dp[port[q].dp].list /\ port[q].dp \in DOMAIN dp
    BY <1>1 DEF Frames, Awaited, Links
  <2>2. c \in genl'.wait
    BY <1>8 DEF reading
  <2>3. q = p => Awaited(c, q)'
    BY <1>8, <2>2 DEF Awaited
  <2>4. q # p => q \in dp'[port[q].dp].list
    BY <1>5, <1>7, <2>1
  <2> QED
    BY <2>1, <2>3, <2>4
<1>21. PortsWhole'
  BY <1>1, <1>10 DEF PortsWhole, Whole, SameWhole, Links
<1>22. Published'
  <2> SUFFICES ASSUME NEW i \in Idx, dps[i] # 0
               PROVE  /\ dps[i] \in DOMAIN dp' /\ dp'[dps[i]].idx = i
                      /\ dp'[dps[i]].live /\ dp'[dps[i]].chain /\ dp'[dps[i]].reg
                      /\ \/ dp'[dps[i]].task = "run" /\ dp'[dps[i]].local \in dp'[dps[i]].list
                         \/ Deleting(i)'
    BY <1>1 DEF Published, Whole
  <2>1. /\ dps[i] \in DOMAIN dp /\ dp[dps[i]].idx = i
        /\ dp[dps[i]].live /\ dp[dps[i]].chain /\ dp[dps[i]].reg
        /\ \/ dp[dps[i]].task = "run" /\ dp[dps[i]].local \in dp[dps[i]].list
           \/ Deleting(i)
    BY DEF Published, Whole
  <2>2. Deleting(i) => Deleting(i)'
    BY <1>8 DEF Deleting
  <2>3. dp'[dps[i]].idx = dp[dps[i]].idx /\ dp'[dps[i]].local = dp[dps[i]].local
    BY <1>5, <1>7, <2>1
  <2>4. dp[dps[i]].local \in dp[dps[i]].list => dp'[dps[i]].local \in dp'[dps[i]].list \/ Deleting(i)'
    <3>1. CASE genl.cmd = "DEL_PORT"
      <4>1. no # OFPP_LOCAL
        BY <1>1, <3>1 DEF InProgress, DeletesPort, no, p
      <4> QED
        BY <1>4, <1>5, <1>7, <2>1, <2>3, <4>1
    <3>2. CASE genl.cmd = "DEL_DP"
      <4>1. i = genl.idx => Deleting(i)'
        BY <1>8, <3>2 DEF Deleting
      <4>2. i # genl.idx => dps[i] # d
        BY <1>2, <2>1
      <4> QED
        BY <1>7, <2>1, <4>1, <4>2
    <3> QED
      BY <1>2, <3>1, <3>2
  <2> QED
    BY <1>7, <1>10, <2>1, <2>2, <2>3, <2>4 DEF SameWhole, SameTasks
<1>23. Threads'
  BY <1>7, <1>10 DEF Threads, SameWhole, SameTasks, Whole
<1>24. InProgress'
  <2>1. genl'.cmd = "DEL_DP" => DeletesDp'
    BY <1>1, <1>2, <1>7, <1>8, <1>10 DEF InProgress, DeletesDp, Removal, Teardown, SameTasks, d
  <2>2. genl'.cmd = "DEL_PORT" => DeletesPort'
    BY <1>1, <1>8 DEF InProgress, DeletesPort, Removal, d, p
  <2>3. RemovesPort'
    BY <1>1, <1>2, <1>5, <1>7, <1>8 DEF RemovesPort
  <2> QED
    BY <1>2, <1>5, <1>7, <1>8, <2>1, <2>2, <2>3 DEF InProgress
<1>25. Outside' <=> Outside
  BY <1>1, <1>8 DEF Outside
<1>26. Referred'
  BY <1>1, <1>25 DEF Referred
<1> QED
  BY <1>13, <1>19, <1>20, <1>21, <1>22, <1>23, <1>24, <1>26

-----------------------------------------------------------------------------
(* The specification.                                                      *)

\* Every step of a command, of a frame, of a thread or of a device keeps the invariant.
LEMMA NextStep ==
  IInv /\ [Next]_vars => IInv'
<1> SUFFICES ASSUME IInv, [Next]_vars
             PROVE  IInv'
  OBVIOUS
<1>1. ASSUME NEW i \in Idx, Command(i)
      PROVE  IInv'
  BY <1>1, NewDpKeeps, DelDpKeeps, AddPortKeeps, DelPortKeeps, PortModKeeps DEF Command
<1>2. CASE Step
  BY <1>2, DevSetupKeeps, ChainCreateKeeps, NewLocalKeeps, KthreadRunKeeps, KthreadStopKeeps,
     DelPortsKeeps, NewNbpKeeps, PromiscuityKeeps, UnlinkKeeps, KfreePortKeeps, DestroyKeeps,
     KfreeDpKeeps, SynchronizeKeeps DEF Step
<1>3. CASE Frame
  BY <1>3, HookKeeps, OutputKeeps, XmitKeeps DEF Frame
<1>4. CASE Finish
  BY <1>4, FrameDoneKeeps, XmitDoneKeeps DEF Finish
<1>5. ASSUME NEW d \in DOMAIN dp, dp_dev_do_xmit(d) \/ TimeoutStart(d) \/ TimeoutEnd(d) \/ MaintExit(d)
      PROVE  IInv'
  BY <1>5, DoXmitKeeps, MaintKeeps
<1>6. ASSUME NEW dev \in Devs, NEW ev \in Events, Event(dev, ev)
      PROVE  IInv'
  BY <1>6, EventKeeps
<1>7. CASE dp_device_event
  BY <1>7, DeviceEventKeeps
<1>8. CASE UNCHANGED vars
  <2>1. UNCHANGED <<dps, dp, port, br_port, up, carrier, modrefs, genl, rx, work, notif>>
    BY <1>8 DEF vars
  <2>2. SameLinks /\ SameWhole /\ SameTasks /\ SameDps /\ SameCommand
    BY <2>1 DEF SameLinks, SameWhole, SameTasks, SameDps, SameCommand
  <2>3. TypeOK'
    BY <2>1 DEF IInv, TypeOK, NoFrame
  <2>4. Frames'
    BY <2>1, <2>2, FramesStill DEF IInv
  <2> QED
    BY <2>2, <2>3, <2>4, Undisturbed DEF IInv
<1> QED
  BY <1>1, <1>2, <1>3, <1>4, <1>5, <1>6, <1>7, <1>8 DEF Next

\* The invariant holds of the module from its loading on.
THEOREM Invariance == Spec => []IInv
<1>1. Init => IInv
  BY InitIsSound
<1> QED
  BY <1>1, NextStep, PTL DEF Spec

\* A frame received under rcu_read_lock only uses ports, a datapath and tables that
\* are allocated, however the processors and the commands interleave.
THEOREM FramesLive == Spec => []FrameUsesLivePort
<1>1. IInv => FrameUsesLivePort
  BY FramesAreSafe
<1> QED
  BY <1>1, Invariance, PTL

\* dp_maint_func, which no lock protects, only times out tables that are there.
THEOREM TimeoutsLive == Spec => []TimeoutUsesLiveChain
<1>1. IInv => TimeoutUsesLiveChain
  BY TimeoutsAreSafe
<1> QED
  BY <1>1, Invariance, PTL

\* Every command that returns, wherever it failed, leaves the pointers between
\* datapaths, ports and devices in agreement, and the module's references counted.
THEOREM PointersLive == Spec => []PointersAreLive
<1>1. IInv => PointersAreLive
  BY PointersAreSafe
<1> QED
  BY <1>1, Invariance, PTL
=============================================================================
