------------------------- MODULE PortWatcherProofs -------------------------
(***************************************************************************)
(* The port watcher's copy agrees with the datapath, and the datapath      *)
(* floods where the tree forwards, for every set of ports and hardware     *)
(* addresses and any number of changes, PORT_MODs, moves of the tree,      *)
(* requests and losses of either connection.                               *)
(***************************************************************************)
EXTENDS PortWatcher, SequenceTheorems, TLAPS

Maybe(S) == S \union {NULL}

\* The datapath never sets the bits of the spanning tree.
Own == {d \in PhyPort : d.stp = "LISTEN"}
Ports == [Port -> Maybe(Own)]
Event == [reason : {"ADD", "DELETE", "MODIFY"}, port : Port, desc : Own]

Flags == SUBSET {"NO_STP", "NO_FLOOD"}
Ask == [from : {"watcher", "controller"}]
Mod(masks) == [port : Port, mac : Mac, config : Flags, mask : masks]

Entry == [view : Maybe(PhyPort), stp : StpState, changed : BOOLEAN]
News == UNION {[S -> Maybe(Mac)] : S \in SUBSET Port}
Told == [relayed : BOOLEAN, news : News]

TypeOK ==
  /\ dp \in Ports
  /\ entry \in [Port -> Entry]
  /\ got_feature_reply \in BOOLEAN /\ crashed \in BOOLEAN
  /\ told \in Maybe(PhyPort)
  /\ toDp \in Seq(Ask \union Mod(Flags))
  /\ rxbuf \in Seq(Ask \union Mod({{"NO_STP"}}))
  /\ local \in Seq(Ports) /\ async \in Seq(Event)
  /\ held \in Seq(Told) /\ toCtl \in Seq(Told)
  /\ ctl \in [Port -> Maybe(Mac)]
  /\ {changes, mods, moves, requests, losses} \subseteq Nat
  /\ missed \subseteq Port /\ gone \subseteq Port /\ unset \subseteq Port

\* Two descriptions of a port say the same of what the watcher cannot set itself.
Agrees(a, b) == /\ (a = NULL) = (b = NULL)
                /\ b # NULL => a.mac = b.mac /\ a.link = b.link

Outcome(m) == IF m.reason = "DELETE" THEN NULL ELSE m.desc

\* The last event of a port leads to what the port is; a port without an event, none of which
\* was lost, is known as it is, in every reply on its way and, after the first reply, in the
\* copy.
Leads ==
  /\ \A i \in DOMAIN async :
       (\A j \in DOMAIN async : j > i => async[j].port # async[i].port)
         => Agrees(Outcome(async[i]), dp[async[i].port])
  /\ \A p \in Port \ missed : ~Pending(p) =>
       /\ \A k \in DOMAIN local : Agrees(local[k][p], dp[p])
       /\ got_feature_reply => Agrees(entry[p].view, dp[p])

\* Two descriptions are of the same port, which has not been deleted in between.
Same(a, b) == a # NULL => b # NULL /\ a.mac = b.mac

\* Events, replies and the copy are of the port that the datapath has, unless an event that
\* follows them says that it was deleted, or that event was lost.
Instances ==
  /\ \A i \in DOMAIN async :
       /\ async[i].reason # "DELETE"
       /\ \A j \in DOMAIN async :
            j > i => ~(async[j].port = async[i].port /\ async[j].reason = "DELETE")
       => Same(async[i].desc, dp[async[i].port])
  /\ \A p \in Port \ gone : ~Leaving(p) =>
       /\ \A k \in DOMAIN local : Same(local[k][p], dp[p])
       /\ Same(entry[p].view, dp[p])

\* What the copy and the tree know of each other.
Tree(e, p) ==
  /\ (e.view = NULL \/ p = OFPP_LOCAL) => e.stp = "disabled"
  /\ e.view # NULL /\ "NO_STP" \in e.view.config => e.stp = "disabled"
  /\ e.view # NULL /\ ~e.changed /\ e.stp # "disabled" => e.view.stp = p_state(e.stp)
  /\ e.stp \in {"learning", "blocking", "forwarding"} => ~e.changed
Trees == \A p \in Port : Tree(entry[p], p)

\* The positions of the messages that will set or clear NO_FLOOD of port p.
FlagMods(p) == {i \in DOMAIN toDp : /\ toDp[i] \in Mod(Flags)
                                    /\ toDp[i].port = p /\ toDp[i].mac = dp[p].mac
                                    /\ "NO_FLOOD" \in toDp[i].mask}

\* The tree has told the datapath about the port since it began to listen: the copy says
\* learning or blocking, or the port forwards.
Owed(e) == e.view # NULL /\ (e.view.stp \in {"LEARN", "BLOCK"} \/ e.stp = "forwarding")

\* What becomes of a copy asks the same of the datapath, if it asks anything.
Keeps(e, r) == Owed(r) => Owed(e) /\ (r.stp = "forwarding") = (e.stp = "forwarding")

\* NO_FLOOD of port p will be what the tree asks for: the last message says so, or, without
\* one, the port has it already.
Decided(p) ==
  /\ FlagMods(p) = {} => ("NO_FLOOD" \in dp[p].config) = (entry[p].stp # "forwarding")
  /\ \A i \in FlagMods(p) : (\A j \in FlagMods(p) : j <= i) =>
       ("NO_FLOOD" \in toDp[i].config) = (entry[p].stp # "forwarding")

Floods ==
  \A p \in Port \ (unset \union gone) : ~Leaving(p) /\ Owed(entry[p]) => Decided(p)

IInv == TypeOK /\ Leads /\ Instances /\ Trees /\ Floods

-----------------------------------------------------------------------------
(* The copy of a port *)

\* stp_port_changed_cb leaves a copy that the tree and the new description agree on.
LEMMA TreeFollows ==
  ASSUME NEW e \in Entry, NEW p \in Port, NEW new \in Maybe(PhyPort), Tree(e, p),
         new # NULL => new.stp = IF e.view = NULL THEN "LISTEN" ELSE e.view.stp
  PROVE  LET r == [stp_port_changed_cb(e, p, new) EXCEPT !.view = new]
         IN r \in Entry /\ r.view = new /\ Tree(r, p) /\ Keeps(e, r)
<1>1. \A s \in StpState :
        /\ stp_set_port_state(e, s) \in Entry /\ stp_set_port_state(e, s).view = e.view
        /\ stp_set_port_state(e, s).stp = s
        /\ stp_set_port_state(e, s).changed = (e.changed \/ e.stp # s)
  BY DEF stp_set_port_state, Entry
<1>2. "disabled" \in StpState /\ "listening" \in StpState
  BY DEF StpState
<1>0. e.stp = "forwarding" => e.view # NULL /\ e.view.stp = "FORWARD"
  BY DEF Tree, p_state
<1>3. CASE p = OFPP_LOCAL
  <2>1. stp_port_changed_cb(e, p, new) = e
    BY <1>3 DEF stp_port_changed_cb
  <2>2. [e EXCEPT !.view = new] \in Entry /\ Tree([e EXCEPT !.view = new], p)
    BY <1>3 DEF Entry, Tree
  <2>3. Keeps(e, [e EXCEPT !.view = new])
    BY <1>3 DEF Entry, Tree, Keeps, Owed
  <2> QED BY <2>1, <2>2, <2>3 DEF Entry
<1>4. CASE p # OFPP_LOCAL /\ (new = NULL \/ (new # NULL => "NO_STP" \in new.config \/ ~new.link))
  <2>1. stp_port_changed_cb(e, p, new) = stp_set_port_state(e, "disabled")
    BY <1>4 DEF stp_port_changed_cb
  <2> DEFINE r == [stp_set_port_state(e, "disabled") EXCEPT !.view = new]
  <2>2. r \in Entry /\ r.view = new /\ r.stp = "disabled"
    BY <1>1, <1>2 DEF Entry
  <2> HIDE DEF r
  <2>3. Tree(r, p) /\ Keeps(e, r)
    BY <1>0, <2>2 DEF Tree, Keeps, Owed
  <2> QED BY <2>1, <2>2, <2>3 DEF r
<1>5. CASE /\ p # OFPP_LOCAL /\ ~(new = NULL \/ (new # NULL => "NO_STP" \in new.config \/ ~new.link))
           /\ e.stp = "disabled"
  <2>1. stp_port_changed_cb(e, p, new) = stp_set_port_state(e, "listening")
    BY <1>5 DEF stp_port_changed_cb
  <2> DEFINE r == [stp_set_port_state(e, "listening") EXCEPT !.view = new]
  <2>2. r \in Entry /\ r.view = new /\ r.stp = "listening" /\ r.changed
    BY <1>1, <1>2, <1>5 DEF Entry
  <2> HIDE DEF r
  <2>3. Tree(r, p) /\ Keeps(e, r)
    BY <1>0, <1>5, <2>2 DEF Tree, Keeps, Owed
  <2> QED BY <2>1, <2>2, <2>3 DEF r
<1>6. CASE /\ p # OFPP_LOCAL /\ ~(new = NULL \/ (new # NULL => "NO_STP" \in new.config \/ ~new.link))
           /\ e.stp # "disabled"
  <2>1. stp_port_changed_cb(e, p, new) = e
    BY <1>6 DEF stp_port_changed_cb
  <2> DEFINE r == [e EXCEPT !.view = new]
  <2>2. r \in Entry /\ r.view = new /\ r.stp = e.stp /\ r.changed = e.changed
    BY DEF Entry
  <2>3. e.view # NULL /\ new # NULL /\ new.stp = e.view.stp
    BY <1>6 DEF Tree
  <2> HIDE DEF r
  <2>4. Tree(r, p)
    BY <1>6, <2>2, <2>3 DEF Tree
  <2>5. Keeps(e, r)
    BY <2>2, <2>3 DEF Keeps, Owed
  <2> QED BY <2>1, <2>2, <2>4, <2>5 DEF r
<1> QED
  BY <1>3, <1>4, <1>5, <1>6

\* What is passed on of a description keeps all of it but the state.
LEMMA MergedKeeps ==
  ASSUME NEW e \in Entry, NEW opp \in Own
  PROVE  LET m == Merged(e, opp)
         IN /\ m \in PhyPort /\ m # NULL /\ opp # NULL
            /\ m.mac = opp.mac /\ m.link = opp.link /\ m.config = opp.config
            /\ m.stp = IF e.view = NULL THEN "LISTEN" ELSE e.view.stp
BY PortWatcherAssumption DEF Merged, Own, Entry, PhyPort, Maybe

\* update_phy_port takes over what the datapath says of a port.
LEMMA PortUpdated ==
  ASSUME NEW e \in Entry, NEW p \in Port, NEW opp \in Own, Tree(e, p),
         NEW reason \in {"ADD", "MODIFY"}
  PROVE  LET r == update_phy_port(e, p, opp, reason)
         IN /\ r \in Entry /\ Tree(r, p) /\ Keeps(e, r)
            /\ r.view # NULL /\ r.view.mac = opp.mac /\ r.view.link = opp.link
<1> DEFINE new == Merged(e, opp)
<1>1. /\ new \in PhyPort /\ new # NULL
      /\ new.mac = opp.mac /\ new.link = opp.link
      /\ new.stp = IF e.view = NULL THEN "LISTEN" ELSE e.view.stp
  BY MergedKeeps
<1>2. CASE e.view # NULL /\ ~opp_differs(new, e.view)
  <2>1. update_phy_port(e, p, opp, reason) = e /\ new = e.view
    BY <1>2 DEF update_phy_port, opp_differs
  <2>2. Keeps(e, e)
    BY DEF Keeps
  <2> HIDE DEF new
  <2> QED BY <1>1, <1>2, <2>1, <2>2
<1>3. CASE ~(e.view # NULL /\ ~opp_differs(new, e.view))
  <2> DEFINE r == [stp_port_changed_cb(e, p, new) EXCEPT !.view = new]
  <2>1. update_phy_port(e, p, opp, reason) = r
    BY <1>3 DEF update_phy_port
  <2>2. r \in Entry /\ r.view = new /\ Tree(r, p) /\ Keeps(e, r)
    <3>1. new \in Maybe(PhyPort)
      BY <1>1 DEF Maybe
    <3> HIDE DEF new
    <3> QED BY <1>1, <3>1, TreeFollows
  <2> HIDE DEF new, r
  <2> QED BY <1>1, <2>1, <2>2
<1> QED
  BY <1>2, <1>3

\* update_phy_port forgets a port that is deleted.
LEMMA PortDeleted ==
  ASSUME NEW e \in Entry, NEW p \in Port, NEW opp, Tree(e, p)
  PROVE  LET r == update_phy_port(e, p, opp, "DELETE")
         IN r \in Entry /\ Tree(r, p) /\ Keeps(e, r) /\ r.view = NULL
<1>1. CASE e.view = NULL
  BY <1>1 DEF update_phy_port, Keeps
<1>2. CASE e.view # NULL
  <2> DEFINE r == [stp_port_changed_cb(e, p, NULL) EXCEPT !.view = NULL]
  <2>1. update_phy_port(e, p, opp, "DELETE") = r
    BY <1>2 DEF update_phy_port
  <2>2. NULL \in Maybe(PhyPort)
    BY DEF Maybe
  <2>3. r \in Entry /\ r.view = NULL /\ Tree(r, p) /\ Keeps(e, r)
    BY <2>2, TreeFollows
  <2> HIDE DEF r
  <2> QED BY <2>1, <2>3
<1> QED
  BY <1>1, <1>2

\* set_flags leaves the copy as the state of the tree asks, and sets NO_FLOOD with it.
LEMMA FlagsSet ==
  ASSUME NEW e \in Entry, NEW p \in Port, NEW s \in StpState, Tree(e, p),
         p # OFPP_LOCAL,
         \/ s = e.stp /\ e.changed
         \/ /\ s # e.stp /\ e.stp # "disabled" /\ s # "disabled"
            /\ s = "forwarding" => e.stp = "learning"
  PROVE  LET f == stp_set_port_state(e, s)
             r == set_flags(f)
         IN /\ r \in Entry /\ Tree(r, p)
            /\ (r.view = NULL) = (e.view = NULL)
            /\ e.view # NULL => r.view.mac = e.view.mac /\ r.view.link = e.view.link
            /\ ~Flagged(f) => Keeps(e, r)
            /\ Flagged(f) => /\ e.view # NULL
                             /\ r.view.config \in Flags
                             /\ ("NO_FLOOD" \in r.view.config) = (r.stp # "forwarding")
<1> DEFINE f == stp_set_port_state(e, s)
           r == set_flags(f)
<1>1. f \in Entry /\ f.view = e.view /\ f.stp = s /\ f.changed
  BY DEF stp_set_port_state, Entry
<1>2. CASE Flagged(f)
  <2> DEFINE v == e.view
  <2>1. v \in PhyPort /\ v # NULL /\ "NO_STP" \notin v.config
    BY <1>1, <1>2 DEF Flagged, Entry, Maybe
  <2>2. /\ r.view = [v EXCEPT !.config = Masked(@, p_config(s), {"NO_FLOOD"}), !.stp = p_state(s)]
        /\ r = [f EXCEPT !.view = r.view, !.changed = FALSE]
    <3> HIDE DEF f
    <3> QED BY <1>1, <1>2 DEF set_flags, Entry
  <2>3. p_state(s) \in {"LISTEN", "LEARN", "BLOCK", "FORWARD"} /\ p_config(s) \in {{}, {"NO_FLOOD"}}
    BY DEF p_state, p_config, StpState
  <2>4. ("NO_FLOOD" \in p_config(s)) = (s # "forwarding")
    BY DEF p_config
  <2> HIDE DEF f, r
  <2>5. /\ r.view \in PhyPort /\ r.view.mac = v.mac /\ r.view.link = v.link
        /\ r.view.stp = p_state(s) /\ r.view.config = Masked(v.config, p_config(s), {"NO_FLOOD"})
    <3> DEFINE st == p_state(s)
               co == Masked(v.config, p_config(s), {"NO_FLOOD"})
               w == r.view
    <3>1. w = [v EXCEPT !.config = co, !.stp = st]
      BY <2>1, <2>2
    <3>2. co \in SUBSET {"NO_STP", "NO_FLOOD"}
      <4>1. v.config \in SUBSET {"NO_STP", "NO_FLOOD"}
        BY <2>1 DEF PhyPort
      <4> QED BY <2>3, <4>1 DEF Masked
    <3>3. st \in {"LISTEN", "LEARN", "BLOCK", "FORWARD"}
      BY <2>3
    <3> HIDE DEF st, co, w, v
    <3>4. /\ w \in PhyPort /\ w.mac = v.mac /\ w.link = v.link
          /\ w.stp = st /\ w.config = co
      BY <2>1, <3>1, <3>2, <3>3 DEF PhyPort
    <3> QED BY <3>4 DEF st, co, w
  <2>6. r.view # NULL
    BY <2>5, PortWatcherAssumption
  <2>7. r \in Entry /\ r.stp = s /\ ~r.changed
    BY <1>1, <2>2, <2>5 DEF Entry, Maybe
  <2>8. "NO_STP" \notin r.view.config /\ r.view.config \in Flags
    BY <2>1, <2>3, <2>5 DEF Masked, PhyPort, Flags
  <2>9. ("NO_FLOOD" \in r.view.config) = ("NO_FLOOD" \in p_config(s))
    BY <2>3, <2>5 DEF Masked
  <2>10. Tree(r, p)
    BY <2>5, <2>6, <2>7, <2>8 DEF Tree
  <2> QED BY <1>2, <2>1, <2>4, <2>5, <2>6, <2>7, <2>8, <2>9, <2>10 DEF f, r
<1>3. CASE ~Flagged(f)
  <2>1. r = [f EXCEPT !.changed = FALSE]
    BY <1>3 DEF set_flags
  <2> HIDE DEF f, r
  <2>2. r \in Entry /\ r.view = e.view /\ r.stp = s /\ ~r.changed
    BY <1>1, <2>1 DEF Entry
  <2>3. s # "disabled" /\ e.stp = "disabled" => FALSE
    BY DEF Entry
  <2>4. Tree(r, p)
    <3>1. e.view # NULL /\ s # "disabled" => e.stp # "disabled"
      BY <2>3
    <3>2. e.view # NULL /\ s # "disabled" => e.view.stp = p_state(s)
      BY <1>1, <1>3, <2>3 DEF Flagged, Tree, SetsFlags
    <3>3. e.stp = "disabled" => s = "disabled"
      BY <2>3
    <3> QED BY <2>2, <3>2, <3>3 DEF Tree
  <2>5. s # "forwarding" /\ e.stp # "forwarding"
    <3>1. ASSUME e.stp \in {"learning", "forwarding"}, s # e.stp, s # "disabled"
          PROVE  e.view # NULL /\ "NO_STP" \notin e.view.config /\ e.view.stp = p_state(e.stp)
      BY <3>1 DEF Tree
    <3>2. ASSUME e.stp \in {"learning", "forwarding"}, s # e.stp, s # "disabled"
          PROVE  e.view.stp = p_state(s)
      BY <1>1, <1>3, <3>1, <3>2 DEF Flagged, SetsFlags
    <3>3. /\ p_state("learning") = "LEARN" /\ p_state("forwarding") = "FORWARD"
          /\ s \in StpState /\ s \notin {"disabled", "forwarding"} => p_state(s) # "FORWARD"
      BY DEF p_state, StpState
    <3>4. e.stp = "forwarding" => ~e.changed
      BY DEF Tree
    <3> QED BY <3>1, <3>2, <3>3, <3>4
  <2>6. Keeps(e, r)
    BY <2>2, <2>5 DEF Keeps, Owed
  <2> QED BY <1>3, <2>2, <2>4, <2>6 DEF f, r
<1> QED
  BY <1>2, <1>3

-----------------------------------------------------------------------------
(* Messages *)

\* A request for the features is no PORT_MOD.
LEMMA MessageKinds ==
  /\ \A x \in Ask : "from" \in DOMAIN x /\ x \notin Mod(Flags)
  /\ \A x \in Mod(Flags) : "from" \notin DOMAIN x
<1>1. \A x \in Ask : DOMAIN x = {"from"}
  BY DEF Ask
<1>2. \A x \in Mod(Flags) : DOMAIN x = {"port", "mac", "config", "mask"}
  BY DEF Mod
<1>3. \A x \in Ask : "from" \in DOMAIN x
  BY <1>1
<1>4. \A x \in Mod(Flags) : "from" \notin DOMAIN x
  BY <1>2
<1> QED
  BY <1>3, <1>4

\* What the relay tells the controller about some ports is news.
LEMMA NewsTyped ==
  ASSUME NEW S \in SUBSET Port, NEW f \in [S -> Maybe(Mac)]
  PROVE  f \in News
BY DEF News

\* rconn_send to the controller queues a message.
LEMMA Queued ==
  ASSUME NEW q \in Seq(Told), NEW news \in News, NEW b \in BOOLEAN
  PROVE  Queue(q, news, b) \in Seq(Told)
<1>1. [relayed |-> b, news |-> news] \in Told
  BY DEF Told
<1> QED
  BY <1>1, AppendProperties DEF Queue

\* relay_run keeps the queues of the controller.
LEMMA Relayed ==
  ASSUME TypeOK, NEW news \in News, RelayOn(news)
  PROVE  held' \in Seq(Told) /\ toCtl' \in Seq(Told)
<1>1. TRUE \in BOOLEAN /\ held \in Seq(Told) /\ toCtl \in Seq(Told)
  BY DEF TypeOK
<1>2. CASE \E i \in DOMAIN toCtl : toCtl[i].relayed
  BY <1>1, <1>2, Queued DEF RelayOn
<1>3. CASE ~\E i \in DOMAIN toCtl : toCtl[i].relayed
  BY <1>1, <1>3, Queued DEF RelayOn
<1> QED
  BY <1>2, <1>3

\* A fresh port, and one whose link has changed, are descriptions of the datapath's.
LEMMA Descriptions ==
  /\ Own \subseteq PhyPort /\ NULL \notin PhyPort
  /\ \A m \in Mac : Fresh(m) \in Own
  /\ \A d \in Own : [d EXCEPT !.link = ~@] \in Own
  /\ \A d \in Own, c, mask \in Flags :
       LET n == [d EXCEPT !.config = Masked(@, c, mask)]
       IN n \in Own /\ n.mac = d.mac /\ n.link = d.link /\ n.config = Masked(d.config, c, mask)
<1>1. Own \subseteq PhyPort /\ NULL \notin PhyPort
  BY PortWatcherAssumption DEF Own
<1>2. \A m \in Mac : Fresh(m) \in Own
  BY DEF Fresh, Own, PhyPort
<1>3. \A d \in Own : [d EXCEPT !.link = ~@] \in Own
  BY DEF Own, PhyPort
<1>4. ASSUME NEW d \in Own, NEW c \in Flags, NEW mask \in Flags
      PROVE  LET n == [d EXCEPT !.config = Masked(@, c, mask)]
             IN n \in Own /\ n.mac = d.mac /\ n.link = d.link /\ n.config = Masked(d.config, c, mask)
  <2> DEFINE co == Masked(d.config, c, mask)
             n == [d EXCEPT !.config = co]
  <2>1. co \in SUBSET {"NO_STP", "NO_FLOOD"}
    BY DEF Own, PhyPort, Masked, Flags
  <2> HIDE DEF co
  <2>2. n \in Own /\ n.mac = d.mac /\ n.link = d.link /\ n.config = co
    BY <2>1 DEF Own, PhyPort
  <2> QED BY <2>2 DEF co
<1> QED
  BY <1>1, <1>2, <1>3, <1>4

-----------------------------------------------------------------------------
(* Steps that leave the relation of copy and datapath alone *)

\* A step that keeps the datapath and its messages, and of every copy whether there is one
\* and what the watcher cannot set, keeps the copies true.
LEMMA CopiesKept ==
  ASSUME Leads, Instances,
         UNCHANGED <<dp, async, local, got_feature_reply, missed, gone>>,
         \A p \in Port : /\ (entry'[p].view = NULL) = (entry[p].view = NULL)
                         /\ entry[p].view # NULL => /\ entry'[p].view.mac = entry[p].view.mac
                                                    /\ entry'[p].view.link = entry[p].view.link
  PROVE  Leads' /\ Instances'
<1>1. Leads'
  BY DEF Leads, Agrees, Outcome, Pending
<1>2. Instances'
  BY DEF Instances, Same, Leaving
<1> QED
  BY <1>1, <1>2

\* One that adds nothing about NO_FLOOD to the queue of the datapath leaves what is decided.
LEMMA FlagModsKept ==
  ASSUME TypeOK, TypeOK', NEW p \in Port, UNCHANGED dp, Len(toDp) <= Len(toDp'),
         \A i \in 1..Len(toDp) : toDp'[i] = toDp[i],
         \A i \in (Len(toDp) + 1)..Len(toDp') :
           ~(toDp'[i] \in Mod(Flags) /\ toDp'[i].port = p /\ "NO_FLOOD" \in toDp'[i].mask),
         (entry'[p].stp = "forwarding") = (entry[p].stp = "forwarding"), Decided(p)
  PROVE  Decided(p)'
<1>1. /\ DOMAIN toDp = 1..Len(toDp) /\ Len(toDp) \in Nat
      /\ DOMAIN toDp' = 1..Len(toDp') /\ Len(toDp') \in Nat
  BY LenProperties DEF TypeOK
<1>2. FlagMods(p)' = FlagMods(p)
  BY <1>1 DEF FlagMods
<1>3. FlagMods(p) \subseteq 1..Len(toDp)
  BY <1>1 DEF FlagMods
<1> QED
  BY <1>2, <1>3 DEF Decided

\* The same of all ports.
LEMMA FloodsKept ==
  ASSUME TypeOK, TypeOK', Floods, UNCHANGED <<dp, async, gone, unset>>, Len(toDp) <= Len(toDp'),
         \A i \in 1..Len(toDp) : toDp'[i] = toDp[i],
         \A i \in (Len(toDp) + 1)..Len(toDp') :
           ~(toDp'[i] \in Mod(Flags) /\ "NO_FLOOD" \in toDp'[i].mask),
         \A p \in Port : Keeps(entry[p], entry'[p])
  PROVE  Floods'
<1> SUFFICES ASSUME NEW p \in Port \ (unset \union gone), ~Leaving(p)', Owed(entry'[p])
             PROVE  Decided(p)'
  BY DEF Floods, Owed
<1>1. ~Leaving(p)
  BY DEF Leaving
<1>2. Owed(entry[p]) /\ (entry'[p].stp = "forwarding") = (entry[p].stp = "forwarding")
  BY DEF Keeps
<1>3. Decided(p)
  BY <1>1, <1>2 DEF Floods
<1> QED
  BY <1>2, <1>3, FlagModsKept

-----------------------------------------------------------------------------
(* The initial states *)

\* port_watcher_start and stp_start: nothing is copied, sent or asked for yet.
LEMMA InitInv == Init => IInv
<1> SUFFICES ASSUME Init
             PROVE  IInv
  OBVIOUS
<1>1. << >> \in Seq(Ask \union Mod(Flags)) /\ << >> \in Seq(Ask \union Mod({{"NO_STP"}}))
      /\ << >> \in Seq(Ports) /\ << >> \in Seq(Event) /\ << >> \in Seq(Told)
      /\ DOMAIN << >> = {}
  OBVIOUS
<1>2. dp \in Ports
  BY Descriptions DEF Init, Ports, Maybe
<1>3. entry \in [Port -> Entry]
  BY DEF Init, Entry, Maybe, StpState
<1>4. ctl \in [Port -> Maybe(Mac)] /\ told \in Maybe(PhyPort)
  BY DEF Init, Maybe
<1>5. {changes, mods, moves, requests, losses} \subseteq Nat
  BY DEF Init
<1>6. TypeOK
  BY <1>1, <1>2, <1>3, <1>4, <1>5 DEF Init, TypeOK
<1>7. \A p \in Port : entry[p].view = NULL /\ entry[p].stp = "disabled"
  BY DEF Init
<1>8. Leads
  BY <1>1 DEF Init, Leads
<1>9. Instances
  BY <1>1, <1>7 DEF Init, Instances, Same
<1>10. Trees
  BY <1>7 DEF Trees, Tree
<1>11. Floods
  BY <1>7 DEF Floods, Owed
<1> QED
  BY <1>6, <1>8, <1>9, <1>10, <1>11 DEF IInv

-----------------------------------------------------------------------------
(* Messages of the datapath reach the watcher *)

\* The head of a queue of messages, and what remains when it is taken.
LEMMA Taken ==
  ASSUME NEW S, NEW q \in Seq(S), q # << >>
  PROVE  /\ Head(q) \in S /\ Head(q) = q[1] /\ 1 \in DOMAIN q
         /\ Tail(q) \in Seq(S)
         /\ \A i \in DOMAIN Tail(q) : i + 1 \in DOMAIN q /\ Tail(q)[i] = q[i + 1]
         /\ \A i \in DOMAIN q : i # 1 => /\ i - 1 \in DOMAIN Tail(q)
                                         /\ Tail(q)[i - 1] = q[i]
         /\ DOMAIN q \subseteq Nat \ {0} /\ DOMAIN Tail(q) \subseteq Nat \ {0}
<1>1. /\ Len(q) \in Nat /\ Len(q) # 0 /\ DOMAIN q = 1..Len(q)
      /\ Head(q) \in S /\ Tail(q) \in Seq(S) /\ Len(Tail(q)) = Len(q) - 1
      /\ \A i \in 1..Len(Tail(q)) : Tail(q)[i] = q[i + 1]
  BY EmptySeq, LenProperties, HeadTailProperties
<1>2. DOMAIN Tail(q) = 1..(Len(q) - 1)
  BY <1>1, LenProperties
<1>3. Head(q) = q[1]
  OBVIOUS
<1> QED
  BY <1>1, <1>2, <1>3

\* The first reply on its way and what it makes of every port.
LEMMA FeaturesTaken ==
  ASSUME TypeOK, Trees, local # << >>
  PROVE  LET m == Head(local)
         IN /\ m \in Ports /\ FeaturesReply(m) \in [Port -> Entry]
            /\ \A p \in Port :
                 LET e == FeaturesReply(m)[p]
                 IN /\ Tree(e, p) /\ Keeps(entry[p], e) /\ (e.view = NULL) = (m[p] = NULL)
                    /\ m[p] # NULL => e.view.mac = m[p].mac /\ e.view.link = m[p].link
<1> DEFINE m == Head(local)
<1>1. m \in Ports
  BY Taken DEF TypeOK
<1> HIDE DEF m
<1>2. ASSUME NEW p \in Port
      PROVE  LET e == FeaturesReply(m)[p]
             IN /\ e \in Entry
                /\ Tree(e, p) /\ Keeps(entry[p], e) /\ (e.view = NULL) = (m[p] = NULL)
                /\ m[p] # NULL => e.view.mac = m[p].mac /\ e.view.link = m[p].link
  <2>1. entry[p] \in Entry /\ Tree(entry[p], p)
    BY DEF TypeOK, Trees
  <2>2. CASE m[p] = NULL
    <3>1. FeaturesReply(m)[p] = update_phy_port(entry[p], p, NULL, "DELETE")
      BY <2>2 DEF FeaturesReply
    <3> QED BY <2>1, <2>2, <3>1, PortDeleted
  <2>3. CASE m[p] # NULL
    <3>1. FeaturesReply(m)[p] = update_phy_port(entry[p], p, m[p], "MODIFY")
      BY <2>3 DEF FeaturesReply
    <3>2. m[p] \in Own
      BY <1>1, <2>3 DEF Ports, Maybe
    <3> QED BY <2>1, <2>3, <3>1, <3>2, PortUpdated
  <2> QED BY <2>2, <2>3
<1>3. FeaturesReply(m) = [p \in Port |-> FeaturesReply(m)[p]]
  BY DEF FeaturesReply
<1>4. FeaturesReply(m) \in [Port -> Entry]
  BY <1>2, <1>3
<1> QED
  BY <1>1, <1>2, <1>4 DEF m

\* ReceiveFeatures: the reply replaces the copy.
LEMMA StepFeatures == IInv /\ ReceiveFeatures => IInv'
<1> SUFFICES ASSUME IInv, ReceiveFeatures
             PROVE  IInv'
  OBVIOUS
<1> USE DEF IInv
<1> DEFINE m == Head(local)
<1>1. /\ local # << >> /\ entry' = FeaturesReply(m) /\ got_feature_reply' = TRUE
      /\ told' = entry'[OFPP_LOCAL].view /\ local' = Tail(local)
      /\ UNCHANGED <<dp, crashed, toDp, rxbuf, async, ctl, counters, history>>
  BY DEF ReceiveFeatures
<1>2. /\ local' \in Seq(Ports) /\ m = local[1] /\ 1 \in DOMAIN local
      /\ \A i \in DOMAIN local' : i + 1 \in DOMAIN local /\ local'[i] = local[i + 1]
  BY <1>1, Taken DEF TypeOK
<1>3. m \in Ports /\ entry' \in [Port -> Entry]
  BY <1>1, FeaturesTaken
<1>4. \A p \in Port : /\ Tree(entry'[p], p) /\ Keeps(entry[p], entry'[p])
                      /\ (entry'[p].view = NULL) = (m[p] = NULL)
  BY <1>1, FeaturesTaken
<1>5. \A p \in Port : m[p] # NULL =>
        entry'[p].view.mac = m[p].mac /\ entry'[p].view.link = m[p].link
  BY <1>1, FeaturesTaken
<1>6. held' \in Seq(Told) /\ toCtl' \in Seq(Told)
  <2> DEFINE f == [p \in Port |-> IF m[p] = NULL THEN NULL ELSE m[p].mac]
  <2>1. \A p \in Port : f[p] \in Maybe(Mac)
    <3> SUFFICES ASSUME NEW p \in Port, m[p] # NULL
                 PROVE  m[p].mac \in Mac
      BY DEF Maybe
    <3>1. m[p] \in Own
      BY <1>3 DEF Ports, Maybe
    <3> QED BY <3>1 DEF Own, PhyPort
  <2>2. f \in [Port -> Maybe(Mac)]
    BY <2>1
  <2>3. f \in News
    BY <2>2, NewsTyped
  <2>4. RelayOn(f)
    BY DEF ReceiveFeatures
  <2> HIDE DEF f
  <2> QED BY <2>3, <2>4, Relayed
<1>7. TypeOK'
  <2>1. entry'[OFPP_LOCAL] \in Entry
    BY <1>3, PortWatcherAssumption
  <2>2. told' \in Maybe(PhyPort)
    BY <1>1, <2>1 DEF Entry
  <2> QED BY <1>1, <1>2, <1>3, <1>6, <2>2 DEF TypeOK, counters, history
<1> HIDE DEF m
<1>8. Leads'
  <2>1. ASSUME NEW p \in Port \ missed, ~Pending(p)'
        PROVE  /\ \A k \in DOMAIN local' : Agrees(local'[k][p], dp'[p])
               /\ Agrees(entry'[p].view, dp'[p])
    <3>1. ~Pending(p) /\ dp' = dp
      BY <1>1, <2>1 DEF Pending
    <3>2. \A k \in DOMAIN local : Agrees(local[k][p], dp[p])
      BY <3>1 DEF Leads
    <3>3. Agrees(m[p], dp[p])
      BY <1>2, <3>2
    <3>4. Agrees(entry'[p].view, dp[p])
      BY <1>4, <1>5, <3>3 DEF Agrees
    <3> QED BY <1>2, <3>1, <3>2, <3>4
  <2>2. \A i \in DOMAIN async' :
          (\A j \in DOMAIN async' : j > i => async'[j].port # async'[i].port)
            => Agrees(Outcome(async'[i]), dp'[async'[i].port])
    BY <1>1 DEF Leads
  <2> QED BY <1>1, <2>1, <2>2 DEF Leads, history
<1>9. Instances'
  <2>1. ASSUME NEW p \in Port \ gone, ~Leaving(p)'
        PROVE  /\ \A k \in DOMAIN local' : Same(local'[k][p], dp'[p])
               /\ Same(entry'[p].view, dp'[p])
    <3>1. ~Leaving(p) /\ dp' = dp
      BY <1>1, <2>1 DEF Leaving
    <3>2. \A k \in DOMAIN local : Same(local[k][p], dp[p])
      BY <3>1 DEF Instances
    <3>3. Same(m[p], dp[p])
      BY <1>2, <3>2
    <3>4. Same(entry'[p].view, dp[p])
      BY <1>4, <1>5, <3>3 DEF Same
    <3> QED BY <1>2, <3>1, <3>2, <3>4
  <2>2. \A i \in DOMAIN async' :
          /\ async'[i].reason # "DELETE"
          /\ \A j \in DOMAIN async' :
               j > i => ~(async'[j].port = async'[i].port /\ async'[j].reason = "DELETE")
          => Same(async'[i].desc, dp'[async'[i].port])
    BY <1>1 DEF Instances
  <2> QED BY <1>1, <2>1, <2>2 DEF Instances, history
<1>10. Trees'
  BY <1>4 DEF Trees
<1>11. Floods'
  <2>1. UNCHANGED <<dp, async, gone, unset, toDp>> /\ Len(toDp) \in Nat
    BY <1>1, LenProperties DEF TypeOK, history
  <2> QED BY <1>4, <1>7, <2>1, FloodsKept
<1> QED
  BY <1>7, <1>8, <1>9, <1>10, <1>11

\* ReceiveStatus: an event changes the copy of its port.
LEMMA StepStatus == IInv /\ ReceiveStatus => IInv'
<1> SUFFICES ASSUME IInv, ReceiveStatus
             PROVE  IInv'
  OBVIOUS
<1> USE DEF IInv
<1> DEFINE m == Head(async)
           e == update_phy_port(entry[m.port], m.port, m.desc, m.reason)
           news == IF m.reason = "DELETE" THEN NULL ELSE m.desc.mac
<1>1. /\ local = << >> /\ async # << >> /\ async' = Tail(async)
      /\ entry' = [entry EXCEPT ![m.port] = e]
      /\ RelayOn([p \in {m.port} |-> news]) /\ TellLocal(m.port)
      /\ UNCHANGED <<dp, got_feature_reply, crashed, toDp, rxbuf, local, ctl, counters, history>>
  BY DEF ReceiveStatus
<1>2. /\ async' \in Seq(Event) /\ m \in Event /\ m = async[1] /\ 1 \in DOMAIN async
      /\ \A i \in DOMAIN async' : i + 1 \in DOMAIN async /\ async'[i] = async[i + 1]
      /\ \A i \in DOMAIN async : i # 1 => i - 1 \in DOMAIN async' /\ async'[i - 1] = async[i]
      /\ DOMAIN async \subseteq Nat \ {0}
      /\ DOMAIN async' \subseteq Nat \ {0}
  BY <1>1, Taken DEF TypeOK
<1> HIDE DEF m
<1>3. m.port \in Port /\ m.desc \in Own /\ m.reason \in {"ADD", "DELETE", "MODIFY"}
  BY <1>2 DEF Event
<1>4. entry[m.port] \in Entry /\ Tree(entry[m.port], m.port)
  BY <1>3 DEF TypeOK, Trees
<1>5. /\ e \in Entry /\ Tree(e, m.port) /\ Keeps(entry[m.port], e)
      /\ m.reason = "DELETE" => e.view = NULL
      /\ m.reason # "DELETE" =>
           e.view # NULL /\ e.view.mac = m.desc.mac /\ e.view.link = m.desc.link
  <2>1. CASE m.reason = "DELETE"
    BY <1>3, <1>4, <2>1, PortDeleted
  <2>2. CASE m.reason \in {"ADD", "MODIFY"}
    BY <1>3, <1>4, <2>2, PortUpdated
  <2> QED BY <1>3, <2>1, <2>2
<1> HIDE DEF e
<1>6. /\ entry' \in [Port -> Entry] /\ entry'[m.port] = e
      /\ \A p \in Port : p # m.port => entry'[p] = entry[p]
  BY <1>1, <1>3, <1>5 DEF TypeOK
<1>7. held' \in Seq(Told) /\ toCtl' \in Seq(Told)
  <2>1. news \in Maybe(Mac)
    BY <1>3 DEF Maybe, Own, PhyPort
  <2> HIDE DEF news
  <2>2. [p \in {m.port} |-> news] \in News
    BY <1>3, <2>1, NewsTyped
  <2> QED BY <1>1, <2>2, Relayed
<1>8. TypeOK'
  <2>1. told' \in Maybe(PhyPort)
    <3>1. entry'[m.port].view \in Maybe(PhyPort)
      BY <1>3, <1>6 DEF Entry
    <3> QED BY <1>1, <3>1 DEF TellLocal, TypeOK
  <2> QED BY <1>1, <1>2, <1>6, <1>7, <2>1 DEF TypeOK, counters, history
<1>9. \A p \in Port : p # m.port => (Pending(p)' = Pending(p)) /\ (Leaving(p)' = Leaving(p))
  <2> SUFFICES ASSUME NEW p \in Port, p # m.port
               PROVE  (Pending(p)' = Pending(p)) /\ (Leaving(p)' = Leaving(p))
    OBVIOUS
  <2>1. \A i \in DOMAIN async : async[i].port = p => i # 1
    BY <1>2
  <2>2. Pending(p) => Pending(p)'
    BY <1>2, <2>1 DEF Pending
  <2>3. Pending(p)' => Pending(p)
    BY <1>2 DEF Pending
  <2>4. Leaving(p) => Leaving(p)'
    BY <1>2, <2>1 DEF Leaving
  <2>5. Leaving(p)' => Leaving(p)
    BY <1>2 DEF Leaving
  <2> QED BY <2>2, <2>3, <2>4, <2>5 DEF Pending, Leaving
<1>10. /\ DOMAIN local' = {} /\ dp' = dp /\ got_feature_reply' = got_feature_reply
       /\ UNCHANGED <<missed, gone, unset>>
  BY <1>1 DEF history
<1>11. Leads'
  <2>1. ASSUME NEW p \in Port \ missed, ~Pending(p)', got_feature_reply'
        PROVE  Agrees(entry'[p].view, dp'[p])
    <3>1. CASE p # m.port
      BY <1>6, <1>9, <1>10, <2>1, <3>1 DEF Leads
    <3>2. CASE p = m.port
      <4>1. \A j \in DOMAIN async : j > 1 => async[j].port # async[1].port
        BY <1>2, <2>1, <3>2 DEF Pending
      <4>2. Agrees(Outcome(m), dp[p])
        BY <1>2, <3>2, <4>1 DEF Leads
      <4>3. m.desc # NULL
        BY <1>3, Descriptions
      <4> QED BY <1>5, <1>6, <1>10, <3>2, <4>2, <4>3 DEF Agrees, Outcome
    <3> QED BY <3>1, <3>2
  <2>2. ASSUME NEW i \in DOMAIN async',
               \A j \in DOMAIN async' : j > i => async'[j].port # async'[i].port
        PROVE  Agrees(Outcome(async'[i]), dp'[async'[i].port])
    <3>1. \A j \in DOMAIN async : j > i + 1 => async[j].port # async[i + 1].port
      <4> SUFFICES ASSUME NEW j \in DOMAIN async, j > i + 1
                   PROVE  async[j].port # async[i + 1].port
        OBVIOUS
      <4>1. i \in Nat /\ j \in Nat
        BY <1>2
      <4>2. j # 1 /\ j - 1 > i
        BY <1>2, <4>1
      <4> QED BY <1>2, <2>2, <4>2
    <3> QED BY <1>2, <1>10, <3>1 DEF Leads
  <2> QED BY <1>10, <2>1, <2>2 DEF Leads
<1>12. Instances'
  <2>1. ASSUME NEW p \in Port \ gone, ~Leaving(p)'
        PROVE  Same(entry'[p].view, dp'[p])
    <3>1. CASE p # m.port
      BY <1>6, <1>9, <1>10, <2>1, <3>1 DEF Instances
    <3>2. CASE p = m.port /\ m.reason # "DELETE"
      <4>1. \A j \in DOMAIN async :
              j > 1 => ~(async[j].port = async[1].port /\ async[j].reason = "DELETE")
        BY <1>2, <2>1, <3>2 DEF Leaving
      <4>2. Same(m.desc, dp[p])
        BY <1>2, <3>2, <4>1 DEF Instances
      <4>3. m.desc # NULL
        BY <1>3, Descriptions
      <4> QED BY <1>5, <1>6, <1>10, <3>2, <4>2, <4>3 DEF Same
    <3>3. CASE p = m.port /\ m.reason = "DELETE"
      BY <1>5, <1>6, <3>3 DEF Same
    <3> QED BY <3>1, <3>2, <3>3
  <2>2. ASSUME NEW i \in DOMAIN async', async'[i].reason # "DELETE",
               \A j \in DOMAIN async' :
                 j > i => ~(async'[j].port = async'[i].port /\ async'[j].reason = "DELETE")
        PROVE  Same(async'[i].desc, dp'[async'[i].port])
    <3>1. \A j \in DOMAIN async :
            j > i + 1 => ~(async[j].port = async[i + 1].port /\ async[j].reason = "DELETE")
      <4> SUFFICES ASSUME NEW j \in DOMAIN async, j > i + 1
                   PROVE  ~(async[j].port = async[i + 1].port /\ async[j].reason = "DELETE")
        OBVIOUS
      <4>1. i \in Nat /\ j \in Nat
        BY <1>2
      <4>2. j # 1 /\ j - 1 > i
        BY <1>2, <4>1
      <4> QED BY <1>2, <2>2, <4>2
    <3> QED BY <1>2, <1>10, <2>2, <3>1 DEF Instances
  <2> QED BY <1>10, <2>1, <2>2 DEF Instances
<1>13. Trees'
  BY <1>5, <1>6 DEF Trees
<1>14. Floods'
  <2> SUFFICES ASSUME NEW p \in Port \ (unset \union gone), ~Leaving(p)', Owed(entry'[p])
               PROVE  Decided(p)'
    BY <1>10 DEF Floods, Owed
  <2>1. Owed(entry[p]) /\ (entry'[p].stp = "forwarding") = (entry[p].stp = "forwarding")
    BY <1>5, <1>6 DEF Keeps
  <2>2. ~Leaving(p)
    <3>1. CASE p # m.port
      BY <1>9, <3>1
    <3>2. CASE p = m.port
      <4>1. m.reason # "DELETE"
        BY <1>5, <1>6, <3>2 DEF Owed
      <4> QED BY <1>2, <4>1 DEF Leaving
    <3> QED BY <3>1, <3>2
  <2>3. Decided(p)
    BY <2>1, <2>2 DEF Floods
  <2>4. UNCHANGED <<dp, toDp>> /\ Len(toDp) \in Nat
    BY <1>1, LenProperties DEF TypeOK
  <2> QED BY <1>8, <2>1, <2>3, <2>4, FlagModsKept
<1> QED
  BY <1>8, <1>11, <1>12, <1>13, <1>14

-----------------------------------------------------------------------------
(* The datapath changes *)

\* A queue that is appended to.
LEMMA Appended ==
  ASSUME NEW S, NEW q \in Seq(S), NEW x \in S
  PROVE  /\ Append(q, x) \in Seq(S) /\ Len(Append(q, x)) = Len(q) + 1 /\ Len(q) \in Nat
         /\ DOMAIN q = 1..Len(q) /\ DOMAIN Append(q, x) = 1..(Len(q) + 1)
         /\ \A i \in DOMAIN q : Append(q, x)[i] = q[i]
         /\ Append(q, x)[Len(q) + 1] = x
BY AppendProperties, LenProperties

\* A port comes, goes or changes its link, and an event says so.
LEMMA StepChange ==
  ASSUME IInv, NEW p \in Port, NEW reason \in {"ADD", "DELETE", "MODIFY"}, NEW desc \in Own,
         DpChanges(p, reason, desc),
         reason = "ADD" => dp[p] = NULL,
         reason = "MODIFY" => /\ dp[p] # NULL /\ desc.mac = dp[p].mac
                              /\ desc.config = dp[p].config
  PROVE  IInv'
<1> USE DEF IInv
<1> DEFINE m == [reason |-> reason, port |-> p, desc |-> desc]
           new == IF reason = "DELETE" THEN NULL ELSE desc
           n == Len(async)
<1>1. /\ dp' = [dp EXCEPT ![p] = new] /\ async' = Append(async, m) /\ changes' = changes + 1
      /\ missed' = missed \ {p} /\ gone' = IF reason = "DELETE" THEN gone \ {p} ELSE gone
      /\ UNCHANGED <<entry, got_feature_reply, told, crashed, toDp, rxbuf, local, held, toCtl, ctl,
                     mods, moves, requests, losses, unset>>
  BY DEF DpChanges, watcher
<1>2. m \in Event /\ desc # NULL /\ m.port = p /\ m.reason = reason /\ Outcome(m) = new
  BY Descriptions DEF Event, Outcome
<1>3. /\ n \in Nat /\ DOMAIN async = 1..n /\ DOMAIN async' = 1..(n + 1) /\ async' \in Seq(Event)
      /\ \A i \in 1..n : async'[i] = async[i]
      /\ async'[n + 1] = m
  BY <1>1, <1>2, Appended DEF TypeOK
<1> HIDE DEF m, n
<1>4. /\ dp' \in Ports /\ dp'[p] = new
      /\ \A q \in Port : q # p => dp'[q] = dp[q]
  BY <1>1 DEF TypeOK, Ports, Maybe
<1>5. TypeOK'
  BY <1>1, <1>3, <1>4 DEF TypeOK
<1> HIDE DEF new
<1>6. /\ \A q \in Port : q # p => (Pending(q)' = Pending(q)) /\ (Leaving(q)' = Leaving(q))
      /\ Pending(p)' /\ (reason = "DELETE" => Leaving(p)')
      /\ Leaving(p) => Leaving(p)'
  <2>1. \A q \in Port : q # p => (Pending(q)' <=> Pending(q)) /\ (Leaving(q)' <=> Leaving(q))
    BY <1>2, <1>3 DEF Pending, Leaving
  <2>2. Pending(p)' /\ (reason = "DELETE" => Leaving(p)') /\ (Leaving(p) => Leaving(p)')
    BY <1>2, <1>3 DEF Pending, Leaving
  <2> QED BY <2>1, <2>2 DEF Pending, Leaving
<1>7. Leads'
  <2>1. ASSUME NEW i \in DOMAIN async',
               \A j \in DOMAIN async' : j > i => async'[j].port # async'[i].port
        PROVE  Agrees(Outcome(async'[i]), dp'[async'[i].port])
    <3>1. CASE i = n + 1
      BY <1>2, <1>3, <1>4, <3>1 DEF Agrees
    <3>2. CASE i # n + 1
      <4>1. i \in DOMAIN async /\ async'[i] = async[i] /\ n + 1 > i
        BY <1>3, <3>2
      <4>2. async[i].port # p
        BY <1>2, <1>3, <2>1, <4>1
      <4>3. async[i].port \in Port
        <5>1. async[i] \in Event
          BY <1>3, <4>1, ElementOfSeq DEF TypeOK, n
        <5> QED BY <5>1 DEF Event
      <4> QED BY <1>3, <1>4, <2>1, <4>1, <4>2, <4>3 DEF Leads
    <3> QED BY <3>1, <3>2
  <2>2. ASSUME NEW q \in Port \ missed', ~Pending(q)'
        PROVE  /\ \A k \in DOMAIN local' : Agrees(local'[k][q], dp'[q])
               /\ got_feature_reply' => Agrees(entry'[q].view, dp'[q])
    BY <1>1, <1>4, <1>6, <2>2 DEF Leads
  <2> QED BY <2>1, <2>2 DEF Leads
<1>8. \A x : Same(x, dp[p]) /\ reason # "DELETE" => Same(x, dp'[p])
  BY <1>2, <1>4 DEF Same, new
<1>9. Instances'
  <2>1. ASSUME NEW i \in DOMAIN async', async'[i].reason # "DELETE",
               \A j \in DOMAIN async' :
                 j > i => ~(async'[j].port = async'[i].port /\ async'[j].reason = "DELETE")
        PROVE  Same(async'[i].desc, dp'[async'[i].port])
    <3>1. CASE i = n + 1
      BY <1>2, <1>3, <1>4, <2>1, <3>1 DEF Same, new, m
    <3>2. CASE i # n + 1
      <4>1. i \in DOMAIN async /\ async'[i] = async[i] /\ n + 1 > i
        BY <1>3, <3>2
      <4>2. async[i].port = p => reason # "DELETE"
        BY <1>2, <1>3, <2>1, <4>1
      <4>3. async[i].port \in Port
        <5>1. async[i] \in Event
          BY <1>3, <4>1, ElementOfSeq DEF TypeOK, n
        <5> QED BY <5>1 DEF Event
      <4>4. Same(async[i].desc, dp[async[i].port])
        BY <1>3, <2>1, <4>1 DEF Instances
      <4> QED BY <1>4, <1>8, <4>1, <4>2, <4>3, <4>4
    <3> QED BY <3>1, <3>2
  <2>2. ASSUME NEW q \in Port \ gone', ~Leaving(q)'
        PROVE  /\ \A k \in DOMAIN local' : Same(local'[k][q], dp'[q])
               /\ Same(entry'[q].view, dp'[q])
    BY <1>1, <1>4, <1>6, <1>8, <2>2 DEF Instances
  <2> QED BY <2>1, <2>2 DEF Instances
<1>10. Trees'
  BY <1>1 DEF Trees
<1>11. Floods'
  <2> SUFFICES ASSUME NEW q \in Port \ (unset \union gone'), ~Leaving(q)', Owed(entry[q])
               PROVE  Decided(q)'
    BY <1>1 DEF Floods
  <2>1. ~Leaving(q) /\ (q = p => reason # "DELETE")
    BY <1>6
  <2>0. q \notin gone
    BY <1>1, <2>1
  <2>2. Decided(q)
    BY <2>0, <2>1 DEF Floods
  <2>3. q = p => dp[p] # NULL /\ reason = "MODIFY"
    BY <2>0, <2>1 DEF Instances, Same, Owed
  <2>4. dp'[q].mac = dp[q].mac /\ dp'[q].config = dp[q].config
    BY <1>4, <2>3 DEF new
  <2>5. FlagMods(q)' = FlagMods(q)
    BY <1>1, <2>4 DEF FlagMods
  <2> QED BY <1>1, <2>2, <2>4, <2>5 DEF Decided
<1> QED
  BY <1>5, <1>7, <1>9, <1>10, <1>11

\* add_switch_port, dp_del_switch_port and dp_device_event.
LEMMA StepPorts ==
  ASSUME IInv, NEW p \in Port, add_switch_port(p) \/ dp_del_switch_port(p) \/ dp_device_event(p)
  PROVE  IInv'
<1>1. dp[p] # NULL => dp[p] \in Own
  BY DEF IInv, TypeOK, Ports, Maybe
<1>2. CASE add_switch_port(p)
  <2>1. PICK mac \in Mac : DpChanges(p, "ADD", Fresh(mac))
    BY <1>2 DEF add_switch_port
  <2> QED BY <1>2, <2>1, StepChange, Descriptions DEF add_switch_port
<1>3. CASE dp_del_switch_port(p)
  BY <1>1, <1>3, StepChange DEF dp_del_switch_port
<1>4. CASE dp_device_event(p)
  <2> DEFINE d == [dp[p] EXCEPT !.link = ~@]
  <2>1. d \in Own /\ d.mac = dp[p].mac /\ d.config = dp[p].config
    BY <1>1, <1>4, Descriptions DEF dp_device_event, Own, PhyPort
  <2>2. DpChanges(p, "MODIFY", d) /\ dp[p] # NULL
    BY <1>4 DEF dp_device_event
  <2> HIDE DEF d
  <2> QED BY <2>1, <2>2, StepChange
<1> QED
  BY <1>2, <1>3, <1>4

\* DpReceives: a request is answered with the ports as they are.
LEMMA StepReply ==
  ASSUME IInv, DpReceives, Head(toDp) \in Ask
  PROVE  IInv'
<1> USE DEF IInv
<1>1. "from" \in DOMAIN Head(toDp)
  BY MessageKinds
<1>2. /\ toDp # << >> /\ toDp' = Tail(toDp) /\ local' = Append(local, dp) /\ dp' = dp
      /\ UNCHANGED <<entry, got_feature_reply, told, crashed, rxbuf, async, held, toCtl, ctl,
                     changes, mods, moves, requests, losses, missed, gone, unset>>
  BY <1>1 DEF DpReceives, watcher, counters, history
<1>3. /\ toDp' \in Seq(Ask \union Mod(Flags)) /\ Head(toDp) = toDp[1]
      /\ \A i \in DOMAIN toDp' : i + 1 \in DOMAIN toDp /\ toDp'[i] = toDp[i + 1]
      /\ \A i \in DOMAIN toDp : i # 1 => i - 1 \in DOMAIN toDp' /\ toDp'[i - 1] = toDp[i]
      /\ DOMAIN toDp \subseteq Nat \ {0} /\ DOMAIN toDp' \subseteq Nat \ {0}
  BY <1>2, Taken DEF TypeOK
<1>4. /\ local' \in Seq(Ports)
      /\ \A k \in DOMAIN local' : local'[k] = dp \/ (k \in DOMAIN local /\ local'[k] = local[k])
  <2>1. local \in Seq(Ports) /\ dp \in Ports
    BY DEF TypeOK
  <2>2. /\ Append(local, dp) \in Seq(Ports)
        /\ DOMAIN local = 1..Len(local) /\ DOMAIN Append(local, dp) = 1..(Len(local) + 1)
        /\ \A i \in DOMAIN local : Append(local, dp)[i] = local[i]
        /\ Append(local, dp)[Len(local) + 1] = dp /\ Len(local) \in Nat
    BY <2>1, Appended
  <2>3. \A k \in 1..(Len(local) + 1) : k = Len(local) + 1 \/ k \in 1..Len(local)
    BY <2>2
  <2> QED BY <1>2, <2>2, <2>3
<1>5. TypeOK'
  BY <1>2, <1>3, <1>4 DEF TypeOK
<1>6. Leads'
  BY <1>2, <1>4 DEF Leads, Pending, Agrees
<1>7. Instances'
  BY <1>2, <1>4 DEF Instances, Leaving, Same
<1>8. Trees'
  BY <1>2 DEF Trees
<1>9. Floods'
  <2> SUFFICES ASSUME NEW p \in Port \ (unset \union gone), ~Leaving(p)', Owed(entry[p])
               PROVE  Decided(p)'
    BY <1>2 DEF Floods
  <2>1. ~Leaving(p)
    BY <1>2 DEF Leaving
  <2>2. Decided(p)
    BY <2>1 DEF Floods
  <2>3. 1 \notin FlagMods(p)
    BY <1>3, MessageKinds DEF FlagMods
  <2>4. \A i \in DOMAIN toDp' : i \in FlagMods(p)' <=> i + 1 \in FlagMods(p)
    BY <1>2, <1>3 DEF FlagMods
  <2>5. \A i \in FlagMods(p) : i - 1 \in FlagMods(p)' /\ i \in Nat
    BY <1>2, <1>3, <2>3 DEF FlagMods
  <2>6. FlagMods(p)' = {} => FlagMods(p) = {}
    BY <2>5
  <2>7. ASSUME NEW i \in FlagMods(p)', \A j \in FlagMods(p)' : j <= i
        PROVE  ("NO_FLOOD" \in toDp'[i].config) = (entry[p].stp # "forwarding")
    <3>1. i \in DOMAIN toDp' /\ i \in Nat /\ toDp'[i] = toDp[i + 1] /\ i + 1 \in FlagMods(p)
      BY <1>3, <2>4 DEF FlagMods
    <3>2. \A j \in FlagMods(p) : j <= i + 1
      <4> SUFFICES ASSUME NEW j \in FlagMods(p)
                   PROVE  j <= i + 1
        OBVIOUS
      <4>1. j - 1 <= i /\ j \in Nat
        BY <2>5, <2>7
      <4> QED BY <3>1, <4>1
    <3> QED BY <2>2, <3>1, <3>2 DEF Decided
  <2> QED BY <1>2, <2>2, <2>6, <2>7 DEF Decided
<1> QED
  BY <1>5, <1>6, <1>7, <1>8, <1>9

\* DpReceives: a PORT_MOD changes flags of the port if it is still the one that is meant.
LEMMA StepPortMod ==
  ASSUME IInv, DpReceives, Head(toDp) \in Mod(Flags)
  PROVE  IInv'
<1> USE DEF IInv
<1> DEFINE m == Head(toDp)
           hit == dp[m.port] # NULL /\ (dp[m.port] # NULL => dp[m.port].mac = m.mac)
           d == dp[m.port]
           n == [d EXCEPT !.config = Masked(@, m.config, m.mask)]
<1>1. "from" \notin DOMAIN m
  BY MessageKinds
<1>2. /\ toDp # << >> /\ toDp' = Tail(toDp)
      /\ dp' = IF hit THEN [dp EXCEPT ![m.port] = n] ELSE dp
      /\ UNCHANGED <<entry, got_feature_reply, told, crashed, rxbuf, local, async, held, toCtl, ctl,
                     changes, mods, moves, requests, losses, missed, gone, unset>>
  BY <1>1 DEF DpReceives, watcher, counters, history
<1>3. /\ toDp' \in Seq(Ask \union Mod(Flags)) /\ m = toDp[1] /\ 1 \in DOMAIN toDp
      /\ \A i \in DOMAIN toDp' : i + 1 \in DOMAIN toDp /\ toDp'[i] = toDp[i + 1]
      /\ \A i \in DOMAIN toDp : i # 1 => i - 1 \in DOMAIN toDp' /\ toDp'[i - 1] = toDp[i]
      /\ DOMAIN toDp \subseteq Nat \ {0} /\ DOMAIN toDp' \subseteq Nat \ {0}
  BY <1>2, Taken DEF TypeOK
<1> HIDE DEF m
<1>4. m.port \in Port /\ m.config \in Flags /\ m.mask \in Flags /\ m \in Mod(Flags)
  BY DEF Mod, m
<1>5. hit => /\ d \in Own /\ n \in Own /\ n # NULL /\ n.mac = d.mac /\ n.link = d.link
             /\ n.config = Masked(d.config, m.config, m.mask)
  <2> SUFFICES ASSUME hit
               PROVE  /\ d \in Own /\ n \in Own /\ n # NULL /\ n.mac = d.mac /\ n.link = d.link
                      /\ n.config = Masked(d.config, m.config, m.mask)
    OBVIOUS
  <2>1. d \in Own
    BY <1>4 DEF TypeOK, Ports, Maybe
  <2> QED BY <1>4, <2>1, Descriptions
<1> HIDE DEF n
<1>6. /\ dp' \in Ports
      /\ \A p \in Port : /\ (dp'[p] = NULL) = (dp[p] = NULL)
                         /\ dp[p] # NULL => dp'[p].mac = dp[p].mac /\ dp'[p].link = dp[p].link
      /\ \A p \in Port : ~(hit /\ p = m.port) => dp'[p] = dp[p]
      /\ hit => dp'[m.port] = n
  BY <1>2, <1>4, <1>5 DEF TypeOK, Ports, Maybe
<1>7. TypeOK'
  BY <1>2, <1>3, <1>6 DEF TypeOK
<1>8. /\ \A p \in Port : \A x : Agrees(x, dp[p]) => Agrees(x, dp'[p])
      /\ \A p \in Port : \A x : Same(x, dp[p]) => Same(x, dp'[p])
  BY <1>6 DEF Agrees, Same
<1>9. \A i \in DOMAIN async : async[i].port \in Port
  <2>1. \A i \in DOMAIN async : async[i] \in Event
    BY LenProperties, ElementOfSeq DEF TypeOK
  <2> QED BY <2>1 DEF Event
<1>10. Leads'
  BY <1>2, <1>8, <1>9 DEF Leads, Pending
<1>11. Instances'
  BY <1>2, <1>8, <1>9 DEF Instances, Leaving
<1>12. Trees'
  BY <1>2 DEF Trees
<1>13. Floods'
  <2> SUFFICES ASSUME NEW p \in Port \ (unset \union gone), ~Leaving(p)', Owed(entry[p])
               PROVE  Decided(p)'
    BY <1>2 DEF Floods
  <2>1. ~Leaving(p)
    BY <1>2 DEF Leaving
  <2>2. Decided(p)
    BY <2>1 DEF Floods
  <2>3. dp[p] # NULL /\ dp'[p].mac = dp[p].mac
    BY <1>6, <2>1 DEF Instances, Same, Owed
  <2>4. \A i \in DOMAIN toDp' : i \in FlagMods(p)' <=> i + 1 \in FlagMods(p)
    BY <1>2, <1>3, <2>3 DEF FlagMods
  <2>5. \A i \in FlagMods(p) : i # 1 => i - 1 \in FlagMods(p)' /\ i \in Nat
    BY <1>2, <1>3, <2>3 DEF FlagMods
  <2>6. ASSUME FlagMods(p)' = {}
        PROVE  ("NO_FLOOD" \in dp'[p].config) = (entry[p].stp # "forwarding")
    <3>1. FlagMods(p) \subseteq {1}
      BY <2>5, <2>6
    <3>2. CASE 1 \in FlagMods(p)
      <4>1. hit /\ m.port = p /\ "NO_FLOOD" \in m.mask
        BY <1>3, <2>3, <3>2 DEF FlagMods
      <4>2. ("NO_FLOOD" \in m.config) = (entry[p].stp # "forwarding")
        BY <1>3, <2>2, <3>1, <3>2 DEF Decided
      <4>3. dp'[p].config = Masked(d.config, m.config, m.mask)
        BY <1>5, <1>6, <4>1
      <4> QED BY <4>1, <4>2, <4>3 DEF Masked
    <3>3. CASE 1 \notin FlagMods(p)
      <4>1. FlagMods(p) = {}
        BY <3>1, <3>3
      <4>2. ("NO_FLOOD" \in dp[p].config) = (entry[p].stp # "forwarding")
        BY <2>2, <4>1 DEF Decided
      <4>3. CASE hit /\ p = m.port
        <5>1. "NO_FLOOD" \notin m.mask
          BY <1>3, <1>4, <3>3, <4>3 DEF FlagMods
        <5>2. dp'[p].config = Masked(dp[p].config, m.config, m.mask)
          BY <1>5, <1>6, <4>3
        <5> QED BY <4>2, <5>1, <5>2 DEF Masked
      <4>4. CASE ~(hit /\ p = m.port)
        BY <1>6, <4>2, <4>4
      <4> QED BY <4>3, <4>4
    <3> QED BY <3>2, <3>3
  <2>7. ASSUME NEW i \in FlagMods(p)', \A j \in FlagMods(p)' : j <= i
        PROVE  ("NO_FLOOD" \in toDp'[i].config) = (entry[p].stp # "forwarding")
    <3>1. i \in DOMAIN toDp' /\ i \in Nat \ {0} /\ toDp'[i] = toDp[i + 1] /\ i + 1 \in FlagMods(p)
      BY <1>3, <2>4 DEF FlagMods
    <3>2. \A j \in FlagMods(p) : j <= i + 1
      <4> SUFFICES ASSUME NEW j \in FlagMods(p), j # 1
                   PROVE  j <= i + 1
        BY <3>1
      <4>1. j - 1 <= i /\ j \in Nat
        BY <2>5, <2>7
      <4> QED BY <3>1, <4>1
    <3> QED BY <2>2, <3>1, <3>2 DEF Decided
  <2>8. entry' = entry
    BY <1>2
  <2> HIDE DEF hit, d
  <2> QED BY <2>6, <2>7, <2>8 DEF Decided
<1> QED
  BY <1>7, <1>10, <1>11, <1>12, <1>13

\* LoseLocal: what was on its way to the datapath and back is gone.
LEMMA StepLose == IInv /\ LoseLocal => IInv'
<1> SUFFICES ASSUME IInv, LoseLocal
             PROVE  IInv'
  OBVIOUS
<1> USE DEF IInv
<1>1. /\ toDp' = << >> /\ local' = << >> /\ requests' = 0 /\ losses' = losses + 1
      /\ unset' = unset \union {p \in Port : \E i \in DOMAIN toDp : SetsNoFlood(toDp[i], p)}
      /\ UNCHANGED <<dp, entry, got_feature_reply, told, crashed, rxbuf, async, held, toCtl, ctl,
                     changes, mods, moves, missed, gone>>
  BY DEF LoseLocal, watcher
<1>2. << >> \in Seq(Ask \union Mod(Flags)) /\ << >> \in Seq(Ports) /\ DOMAIN << >> = {}
  OBVIOUS
<1>3. TypeOK'
  BY <1>1, <1>2 DEF TypeOK
<1>4. Leads' /\ Instances'
  BY <1>1, <1>2 DEF Leads, Instances, Pending, Leaving
<1>5. Trees'
  BY <1>1 DEF Trees
<1>6. Floods'
  <2> SUFFICES ASSUME NEW p \in Port \ (unset' \union gone), ~Leaving(p)', Owed(entry[p])
               PROVE  Decided(p)'
    BY <1>1 DEF Floods
  <2>1. Decided(p)
    BY <1>1 DEF Floods, Leaving
  <2>2. FlagMods(p) = {}
    <3> SUFFICES ASSUME NEW i \in FlagMods(p)
                 PROVE  FALSE
      OBVIOUS
    <3>1. i \in DOMAIN toDp /\ SetsNoFlood(toDp[i], p)
      BY MessageKinds DEF FlagMods, SetsNoFlood
    <3> QED BY <1>1, <3>1
  <2>3. FlagMods(p)' = {}
    BY <1>1, <1>2 DEF FlagMods
  <2> QED BY <1>1, <2>1, <2>2, <2>3 DEF Decided
<1> QED
  BY <1>3, <1>4, <1>5, <1>6

\* LoseAsync: the events on their way are gone, and nothing is claimed of their ports.
LEMMA StepLoseAsync == IInv /\ LoseAsync => IInv'
<1> SUFFICES ASSUME IInv, LoseAsync
             PROVE  IInv'
  OBVIOUS
<1> USE DEF IInv
<1>1. /\ async' = << >> /\ losses' = losses + 1
      /\ missed' = missed \union {p \in Port : Pending(p)}
      /\ gone' = gone \union {p \in Port : Leaving(p)}
      /\ UNCHANGED <<dp, entry, got_feature_reply, told, crashed, toDp, rxbuf, local, held, toCtl, ctl,
                     changes, mods, moves, requests, unset>>
  BY DEF LoseAsync, watcher
<1>2. << >> \in Seq(Event) /\ DOMAIN << >> = {}
  OBVIOUS
<1>3. TypeOK'
  BY <1>1, <1>2 DEF TypeOK
<1>4. Leads'
  <2>1. \A p \in Port \ missed' : p \notin missed /\ ~Pending(p)
    BY <1>1
  <2>2. \A p \in Port \ missed' : /\ \A k \in DOMAIN local : Agrees(local[k][p], dp[p])
                                  /\ got_feature_reply => Agrees(entry[p].view, dp[p])
    BY <2>1 DEF Leads
  <2> QED BY <1>1, <1>2, <2>2 DEF Leads
<1>5. Instances'
  <2>1. \A p \in Port \ gone' : p \notin gone /\ ~Leaving(p)
    BY <1>1
  <2>2. \A p \in Port \ gone' : /\ \A k \in DOMAIN local : Same(local[k][p], dp[p])
                                /\ Same(entry[p].view, dp[p])
    BY <2>1 DEF Instances
  <2> QED BY <1>1, <1>2, <2>2 DEF Instances
<1>6. Trees'
  BY <1>1 DEF Trees
<1>7. Floods'
  <2>1. \A p \in Port \ (unset \union gone') : Owed(entry[p]) => Decided(p)
    BY <1>1 DEF Floods
  <2>2. \A p \in Port : Decided(p)' = Decided(p)
    BY <1>1 DEF Decided, FlagMods
  <2> QED BY <1>1, <2>1, <2>2 DEF Floods
<1> QED
  BY <1>3, <1>4, <1>5, <1>6, <1>7

-----------------------------------------------------------------------------
(* The watcher, the relay and the controller *)

\* A step that touches neither the copies nor what is between them and the datapath.
LEMMA StepElsewhere ==
  ASSUME IInv, TypeOK',
         UNCHANGED <<dp, entry, got_feature_reply, toDp, local, async, missed, gone, unset>>
  PROVE  IInv'
<1>1. Leads' /\ Instances'
  BY CopiesKept DEF IInv
<1>2. Trees'
  BY DEF IInv, Trees
<1>3. Len(toDp) \in Nat
  BY LenProperties DEF IInv, TypeOK
<1>4. Floods'
  BY <1>3, FloodsKept DEF IInv, Keeps
<1> QED
  BY <1>1, <1>2, <1>4 DEF IInv

\* RelayHeld: the message that waited is queued.
LEMMA StepHeld == IInv /\ RelayHeld => IInv'
<1> SUFFICES ASSUME IInv, RelayHeld
             PROVE  IInv'
  OBVIOUS
<1>1. toCtl \o held \in Seq(Told) /\ << >> \in Seq(Told)
  BY ConcatProperties, EmptySeq DEF IInv, TypeOK
<1>2. TypeOK'
  BY <1>1 DEF IInv, TypeOK, RelayHeld, watcher, counters, history
<1> QED
  BY <1>2, StepElsewhere DEF RelayHeld, watcher, counters, history

\* ControllerReceives: the controller hears of some ports.
LEMMA StepHeard == IInv /\ ControllerReceives => IInv'
<1> SUFFICES ASSUME IInv, ControllerReceives
             PROVE  IInv'
  OBVIOUS
<1> DEFINE news == Head(toCtl).news
<1>1. toCtl # << >> /\ toCtl \in Seq(Told) /\ ctl \in [Port -> Maybe(Mac)]
  BY DEF ControllerReceives, IInv, TypeOK
<1>2. Tail(toCtl) \in Seq(Told) /\ Head(toCtl) \in Told
  BY <1>1, Taken
<1>3. news \in News
  BY <1>2 DEF Told
<1> HIDE DEF news
<1>4. \A p \in DOMAIN news : news[p] \in Maybe(Mac)
  BY <1>3 DEF News
<1>5. ctl' = [p \in Port |-> IF p \in DOMAIN news THEN news[p] ELSE ctl[p]]
  BY DEF ControllerReceives, news
<1>6. ctl' \in [Port -> Maybe(Mac)]
  BY <1>1, <1>4, <1>5
<1>7. TypeOK'
  BY <1>2, <1>6 DEF IInv, TypeOK, ControllerReceives, watcher, counters, history
<1> QED
  BY <1>7, StepElsewhere DEF ControllerReceives, watcher, counters, history

\* ControllerAsks: a FEATURES_REQUEST waits for the relay.
LEMMA StepAsks == IInv /\ ControllerAsks => IInv'
<1> SUFFICES ASSUME IInv, ControllerAsks
             PROVE  IInv'
  OBVIOUS
<1>1. <<[from |-> "controller"]>> \in Seq(Ask \union Mod({{"NO_STP"}}))
  BY DEF Ask
<1>2. TypeOK'
  BY <1>1 DEF IInv, TypeOK, ControllerAsks, watcher, history
<1> QED
  BY <1>2, StepElsewhere DEF ControllerAsks, watcher, history

\* RelayRemote: no message of the controller changes NO_FLOOD.
LEMMA StepRemote == IInv /\ RelayRemote => IInv'
<1> SUFFICES ASSUME IInv, RelayRemote
             PROVE  IInv'
  OBVIOUS
<1> DEFINE R == Ask \union Mod({{"NO_STP"}})
           D == Ask \union Mod(Flags)
<1>1. /\ toDp' = toDp \o rxbuf /\ rxbuf' = << >>
      /\ UNCHANGED <<dp, entry, got_feature_reply, told, crashed, local, async, held, toCtl, ctl,
                     changes, mods, moves, requests, losses, missed, gone, unset>>
  BY DEF RelayRemote, watcher, counters, history
<1>2. R \subseteq D
  <2>1. {"NO_STP"} \in Flags
    BY DEF Flags
  <2>2. Mod({{"NO_STP"}}) \subseteq Mod(Flags)
    BY <2>1 DEF Mod
  <2> QED BY <2>2
<1>3. toDp \in Seq(D) /\ rxbuf \in Seq(R)
  BY DEF IInv, TypeOK
<1> HIDE DEF R, D
<1>4. rxbuf \in Seq(D)
  BY <1>2, <1>3, SeqMonotonic
<1>5. /\ toDp' \in Seq(D) /\ Len(toDp') = Len(toDp) + Len(rxbuf)
      /\ \A i \in 1..(Len(toDp) + Len(rxbuf)) :
           toDp'[i] = IF i <= Len(toDp) THEN toDp[i] ELSE rxbuf[i - Len(toDp)]
  BY <1>1, <1>3, <1>4, ConcatProperties
<1>6. Len(toDp) \in Nat /\ Len(rxbuf) \in Nat
  BY <1>3, LenProperties
<1>7. << >> \in Seq(R)
  BY EmptySeq
<1>8. TypeOK'
  BY <1>1, <1>5, <1>7 DEF IInv, TypeOK, R, D
<1>9. \A i \in (Len(toDp) + 1)..Len(toDp') :
        ~(toDp'[i] \in Mod(Flags) /\ "NO_FLOOD" \in toDp'[i].mask)
  <2> SUFFICES ASSUME NEW i \in (Len(toDp) + 1)..Len(toDp')
               PROVE  ~(toDp'[i] \in Mod(Flags) /\ "NO_FLOOD" \in toDp'[i].mask)
    OBVIOUS
  <2>1. i - Len(toDp) \in 1..Len(rxbuf) /\ toDp'[i] = rxbuf[i - Len(toDp)]
    BY <1>5, <1>6
  <2>2. toDp'[i] \in R
    BY <1>3, <2>1, ElementOfSeq
  <2>3. toDp'[i] \in Mod({{"NO_STP"}}) => toDp'[i].mask = {"NO_STP"}
    BY DEF Mod
  <2> QED BY <2>2, <2>3, MessageKinds DEF R
<1>10. Leads' /\ Instances'
  BY <1>1, CopiesKept DEF IInv
<1>11. Trees'
  BY <1>1 DEF IInv, Trees
<1>12. Floods'
  <2>1. Len(toDp) <= Len(toDp') /\ \A i \in 1..Len(toDp) : toDp'[i] = toDp[i]
    BY <1>5, <1>6
  <2>2. \A p \in Port : Keeps(entry[p], entry'[p])
    BY <1>1 DEF Keeps
  <2> QED BY <1>1, <1>8, <1>9, <2>1, <2>2, FloodsKept DEF IInv
<1> QED
  BY <1>8, <1>10, <1>11, <1>12 DEF IInv

\* port_watcher_periodic_cb: nor does a FEATURES_REQUEST of the watcher.
LEMMA StepPeriodic == IInv /\ port_watcher_periodic_cb => IInv'
<1> SUFFICES ASSUME IInv, port_watcher_periodic_cb
             PROVE  IInv'
  OBVIOUS
<1> DEFINE x == [from |-> "watcher"]
<1>1. /\ toDp' = Append(toDp, x) /\ requests' = requests + 1
      /\ UNCHANGED <<dp, entry, got_feature_reply, told, crashed, rxbuf, local, async, held, toCtl,
                     ctl, changes, mods, moves, losses, missed, gone, unset>>
  BY DEF port_watcher_periodic_cb, watcher, history
<1>2. x \in Ask
  BY DEF Ask
<1> HIDE DEF x
<1>3. /\ toDp' \in Seq(Ask \union Mod(Flags)) /\ Len(toDp') = Len(toDp) + 1 /\ Len(toDp) \in Nat
      /\ \A i \in 1..Len(toDp) : toDp'[i] = toDp[i]
      /\ toDp'[Len(toDp) + 1] = x
  BY <1>1, <1>2, Appended DEF IInv, TypeOK
<1>4. TypeOK'
  BY <1>1, <1>3 DEF IInv, TypeOK
<1>5. Leads' /\ Instances'
  BY <1>1, CopiesKept DEF IInv
<1>6. Trees'
  BY <1>1 DEF IInv, Trees
<1>7. Floods'
  <2>1. \A i \in (Len(toDp) + 1)..Len(toDp') :
          ~(toDp'[i] \in Mod(Flags) /\ "NO_FLOOD" \in toDp'[i].mask)
    BY <1>2, <1>3, MessageKinds
  <2>2. Len(toDp) <= Len(toDp')
    BY <1>3
  <2>3. \A p \in Port : Keeps(entry[p], entry'[p])
    BY <1>1 DEF Keeps
  <2> QED BY <1>1, <1>3, <1>4, <2>1, <2>2, <2>3, FloodsKept DEF IInv
<1> QED
  BY <1>4, <1>5, <1>6, <1>7 DEF IInv

\* ControllerMods: the copy takes over NO_STP; the bits of the tree stay.
LEMMA StepMods ==
  ASSUME IInv, NEW p \in Port, NEW config \in SUBSET {"NO_STP"}, ControllerMods(p, config)
  PROVE  IInv'
<1> DEFINE e == entry[p]
           new == [e.view EXCEPT !.config = Masked(@, config, {"NO_STP"})]
           r == [stp_port_changed_cb(e, p, new) EXCEPT !.view = new]
           mod == [port |-> p, mac |-> ctl[p], config |-> config, mask |-> {"NO_STP"}]
<1>1. /\ ctl[p] # NULL /\ rxbuf' = <<mod>> /\ mods' = mods + 1
      /\ UNCHANGED <<dp, got_feature_reply, toDp, local, async, held, toCtl, ctl,
                     changes, moves, requests, losses, missed, gone, unset>>
  BY DEF ControllerMods, history
<1>2. rxbuf' \in Seq(Ask \union Mod({{"NO_STP"}}))
  <2>1. ctl[p] \in Mac
    BY <1>1 DEF IInv, TypeOK, Maybe
  <2>2. mod \in Mod({{"NO_STP"}})
    BY <2>1 DEF Mod, Flags, PhyPort
  <2> HIDE DEF mod
  <2> QED BY <1>1, <2>2
<1>3. e \in Entry /\ Tree(e, p)
  BY DEF IInv, TypeOK, Trees
<1>4. CASE e.view = NULL
  <2>1. crashed' = TRUE /\ UNCHANGED <<entry, told>>
    BY <1>4 DEF ControllerMods
  <2>2. TypeOK'
    BY <1>1, <1>2, <2>1 DEF IInv, TypeOK
  <2> QED BY <1>1, <2>1, <2>2, StepElsewhere
<1>5. CASE e.view # NULL
  <2>1. entry' = [entry EXCEPT ![p] = r] /\ TellLocal(p) /\ UNCHANGED crashed
    BY <1>5 DEF ControllerMods
  <2>2. /\ new \in PhyPort /\ new # NULL /\ new.mac = e.view.mac /\ new.link = e.view.link
        /\ new.stp = e.view.stp
    <3> DEFINE v == e.view
               co == Masked(v.config, config, {"NO_STP"})
    <3>1. v \in PhyPort
      BY <1>3, <1>5 DEF Entry, Maybe
    <3>2. new = [v EXCEPT !.config = co] /\ co \in SUBSET {"NO_STP", "NO_FLOOD"}
      BY <3>1 DEF Masked, PhyPort
    <3> HIDE DEF v, co, new
    <3>3. /\ new \in PhyPort /\ new.mac = v.mac /\ new.link = v.link
          /\ new.stp = v.stp
      BY <3>1, <3>2 DEF PhyPort
    <3> QED BY <3>3, Descriptions DEF v
  <2>3. new \in Maybe(PhyPort)
    BY <2>2 DEF Maybe
  <2> HIDE DEF new
  <2>4. r \in Entry /\ r.view = new /\ Tree(r, p) /\ Keeps(e, r)
    BY <1>3, <1>5, <2>2, <2>3, TreeFollows
  <2> HIDE DEF r
  <2>5. /\ entry' \in [Port -> Entry] /\ entry'[p] = r
        /\ \A q \in Port : q # p => entry'[q] = entry[q]
    BY <2>1, <2>4 DEF IInv, TypeOK
  <2>6. TypeOK'
    <3>1. told' \in Maybe(PhyPort)
      BY <2>1, <2>3, <2>4, <2>5 DEF TellLocal, IInv, TypeOK
    <3> QED BY <1>1, <1>2, <2>1, <2>5, <3>1 DEF IInv, TypeOK
  <2>7. \A q \in Port : /\ (entry'[q].view = NULL) = (entry[q].view = NULL)
                        /\ entry[q].view # NULL => /\ entry'[q].view.mac = entry[q].view.mac
                                                   /\ entry'[q].view.link = entry[q].view.link
    BY <1>5, <2>2, <2>4, <2>5
  <2>8. Leads' /\ Instances'
    BY <1>1, <2>7, CopiesKept DEF IInv
  <2>9. Trees'
    BY <2>4, <2>5 DEF IInv, Trees
  <2>10. Floods'
    <3>1. Len(toDp) \in Nat
      BY LenProperties DEF IInv, TypeOK
    <3>2. \A q \in Port : Keeps(entry[q], entry'[q])
      BY <2>4, <2>5 DEF Keeps
    <3> QED BY <1>1, <2>6, <3>1, <3>2, FloodsKept DEF IInv
  <2> QED BY <2>6, <2>8, <2>9, <2>10 DEF IInv
<1> QED
  BY <1>4, <1>5

\* stp_periodic_cb: when the flags of a port change, the message that is sent decides them.
LEMMA StepTree ==
  ASSUME IInv, NEW p \in Port, NEW s \in StpState, stp_periodic_cb(p, s)
  PROVE  IInv'
<1> DEFINE e == stp_set_port_state(entry[p], s)
           r == set_flags(e)
           v == r.view
           mod == [port |-> p, mac |-> v.mac, config |-> v.config, mask |-> {"NO_FLOOD"}]
           n == Len(toDp)
<1>1. /\ p # OFPP_LOCAL
      /\ \/ s = entry[p].stp /\ entry[p].changed
         \/ /\ s # entry[p].stp /\ entry[p].stp # "disabled" /\ s # "disabled"
            /\ s = "forwarding" => entry[p].stp = "learning"
      /\ moves' \in {moves, moves + 1}
      /\ entry' = [entry EXCEPT ![p] = r]
      /\ IF Flagged(e)
         THEN /\ toDp' = Append(toDp, mod) /\ toCtl' = Queue(toCtl, [q \in {p} |-> v.mac], FALSE)
              /\ unset' = unset \ {p}
         ELSE UNCHANGED <<toDp, toCtl, unset>>
      /\ UNCHANGED <<dp, got_feature_reply, told, crashed, rxbuf, local, async, held, ctl,
                     changes, mods, requests, losses, missed, gone>>
  BY DEF stp_periodic_cb
<1>2. entry[p] \in Entry /\ Tree(entry[p], p)
  BY DEF IInv, TypeOK, Trees
<1>3. /\ r \in Entry /\ Tree(r, p)
      /\ (v = NULL) = (entry[p].view = NULL)
      /\ entry[p].view # NULL => v.mac = entry[p].view.mac /\ v.link = entry[p].view.link
      /\ ~Flagged(e) => Keeps(entry[p], r)
      /\ Flagged(e) => /\ entry[p].view # NULL
                       /\ v.config \in Flags
                       /\ ("NO_FLOOD" \in v.config) = (r.stp # "forwarding")
  BY <1>1, <1>2, FlagsSet
<1> HIDE DEF e, r
<1>4. /\ entry' \in [Port -> Entry] /\ entry'[p] = r
      /\ \A q \in Port : q # p => entry'[q] = entry[q]
  BY <1>1, <1>3 DEF IInv, TypeOK
<1>5. Leads' /\ Instances'
  <2>1. \A q \in Port : /\ (entry'[q].view = NULL) = (entry[q].view = NULL)
                        /\ entry[q].view # NULL => /\ entry'[q].view.mac = entry[q].view.mac
                                                   /\ entry'[q].view.link = entry[q].view.link
    BY <1>3, <1>4
  <2> QED BY <1>1, <2>1, CopiesKept DEF IInv
<1>6. Trees'
  BY <1>3, <1>4 DEF IInv, Trees
<1>7. moves' \in Nat
  BY <1>1 DEF IInv, TypeOK
<1>8. CASE ~Flagged(e)
  <2>1. UNCHANGED <<toDp, toCtl, unset>>
    BY <1>1, <1>8
  <2>2. TypeOK'
    BY <1>1, <1>4, <1>7, <2>1 DEF IInv, TypeOK
  <2>3. Len(toDp) \in Nat
    BY LenProperties DEF IInv, TypeOK
  <2>4. \A q \in Port : Keeps(entry[q], entry'[q])
    BY <1>3, <1>4, <1>8 DEF Keeps
  <2>5. Floods'
    BY <1>1, <2>1, <2>2, <2>3, <2>4, FloodsKept DEF IInv
  <2> QED BY <1>5, <1>6, <2>2, <2>5 DEF IInv
<1>9. CASE Flagged(e)
  <2>1. /\ toDp' = Append(toDp, mod) /\ toCtl' = Queue(toCtl, [q \in {p} |-> v.mac], FALSE)
        /\ unset' = unset \ {p}
    BY <1>1, <1>9
  <2>2. v \in PhyPort /\ entry[p].view # NULL /\ v # NULL
    BY <1>3, <1>9 DEF Entry, Maybe
  <2> HIDE DEF v
  <2>3. mod \in Mod(Flags) /\ mod.port = p /\ mod.mac = v.mac /\ mod.config = v.config
        /\ "NO_FLOOD" \in mod.mask
    BY <1>3, <1>9, <2>2 DEF Mod, Flags, PhyPort
  <2> HIDE DEF mod
  <2>4. /\ toDp' \in Seq(Ask \union Mod(Flags)) /\ Len(toDp') = n + 1 /\ n \in Nat
        /\ DOMAIN toDp' = 1..(n + 1) /\ DOMAIN toDp = 1..n
        /\ \A i \in 1..n : toDp'[i] = toDp[i]
        /\ toDp'[n + 1] = mod
    BY <2>1, <2>3, Appended DEF IInv, TypeOK
  <2> HIDE DEF n
  <2>5. toCtl' \in Seq(Told)
    <3>1. [q \in {p} |-> v.mac] \in News
      BY <2>2, NewsTyped DEF Maybe, PhyPort
    <3>2. FALSE \in BOOLEAN /\ toCtl \in Seq(Told)
      BY DEF IInv, TypeOK
    <3> QED BY <2>1, <3>1, <3>2, Queued
  <2>6. TypeOK'
    BY <1>1, <1>4, <1>7, <2>1, <2>4, <2>5 DEF IInv, TypeOK
  <2>7. Floods'
    <3> SUFFICES ASSUME NEW q \in Port \ (unset' \union gone), ~Leaving(q)', Owed(entry'[q])
                 PROVE  Decided(q)'
      BY <1>1 DEF Floods, Owed
    <3>1. ~Leaving(q) /\ dp' = dp
      BY <1>1 DEF Leaving
    <3>2. CASE q # p
      <4>1. entry'[q] = entry[q] /\ Decided(q)
        BY <1>4, <2>1, <3>1, <3>2 DEF IInv, Floods
      <4>2. \A i \in (Len(toDp) + 1)..Len(toDp') :
              ~(toDp'[i] \in Mod(Flags) /\ toDp'[i].port = q /\ "NO_FLOOD" \in toDp'[i].mask)
        BY <2>3, <2>4, <3>2 DEF n
      <4>3. Len(toDp) <= Len(toDp') /\ \A i \in 1..Len(toDp) : toDp'[i] = toDp[i]
        BY <2>4 DEF n
      <4> QED BY <2>6, <3>1, <4>1, <4>2, <4>3, FlagModsKept DEF IInv
    <3>3. CASE q = p
      <4>1. v.mac = dp[p].mac
        BY <1>3, <2>2, <3>1, <3>3 DEF IInv, Instances, Same, v
      <4>2. n + 1 \in FlagMods(p)'
        BY <2>3, <2>4, <3>1, <4>1 DEF FlagMods
      <4>3. FlagMods(p)' \subseteq 1..(n + 1)
        BY <2>4 DEF FlagMods
      <4>4. \A i \in FlagMods(p)' : (\A j \in FlagMods(p)' : j <= i) => i = n + 1
        BY <2>4, <4>2, <4>3
      <4>5. ("NO_FLOOD" \in mod.config) = (entry'[p].stp # "forwarding")
        BY <1>3, <1>4, <1>9, <2>3, <3>3 DEF v
      <4> QED BY <2>4, <3>3, <4>2, <4>4, <4>5 DEF Decided
    <3> QED BY <3>2, <3>3
  <2> QED BY <1>5, <1>6, <2>6, <2>7 DEF IInv
<1> QED
  BY <1>8, <1>9

-----------------------------------------------------------------------------
(* Theorems *)

\* Every step of the watcher, the relay, the datapath and the controller keeps the copies
\* true and the flags decided.
THEOREM Invariance == Spec => []IInv
<1>1. Init => IInv
  BY InitInv
<1>2. IInv /\ [Next]_vars => IInv'
  <2> SUFFICES ASSUME IInv, [Next]_vars
               PROVE  IInv'
    OBVIOUS
  <2>1. CASE ReceiveFeatures
    BY <2>1, StepFeatures
  <2>2. CASE ReceiveStatus
    BY <2>2, StepStatus
  <2>3. CASE RelayHeld
    BY <2>3, StepHeld
  <2>4. CASE RelayRemote
    BY <2>4, StepRemote
  <2>5. CASE ControllerReceives
    BY <2>5, StepHeard
  <2>6. CASE ControllerAsks
    BY <2>6, StepAsks
  <2>7. ASSUME NEW p \in Port, NEW c \in SUBSET {"NO_STP"}, ControllerMods(p, c)
        PROVE  IInv'
    BY <2>7, StepMods
  <2>8. CASE port_watcher_periodic_cb
    BY <2>8, StepPeriodic
  <2>9. ASSUME NEW p \in Port, NEW s \in StpState, stp_periodic_cb(p, s)
        PROVE  IInv'
    BY <2>9, StepTree
  <2>10. ASSUME NEW p \in Port,
                add_switch_port(p) \/ dp_del_switch_port(p) \/ dp_device_event(p)
         PROVE  IInv'
    BY <2>10, StepPorts
  <2>11. CASE DpReceives
    <3>1. Head(toDp) \in Ask \union Mod(Flags)
      BY <2>11, Taken DEF DpReceives, IInv, TypeOK
    <3> QED BY <2>11, <3>1, StepReply, StepPortMod
  <2>12. CASE LoseLocal
    BY <2>12, StepLose
  <2>14. CASE LoseAsync
    BY <2>14, StepLoseAsync
  <2>13. CASE UNCHANGED vars
    <3>1. TypeOK'
      BY <2>13 DEF vars, IInv, TypeOK
    <3> QED BY <2>13, <3>1, StepElsewhere DEF vars
  <2> QED
    BY <2>1, <2>2, <2>3, <2>4, <2>5, <2>6, <2>7, <2>8, <2>9, <2>10, <2>11, <2>12, <2>13,
       <2>14 DEF Next, Datapath, Periodic, Controller, RelayRun, Rest
<1> QED
  BY <1>1, <1>2, PTL DEF Spec

\* The copy has the datapath's ports once every message has been delivered, but for ports whose
\* last event was lost with async_rconn: the last event or reply about a port is the truth.
THEOREM CopyAgrees == Spec => []ViewAgrees
<1>1. IInv => ViewAgrees
  <2> SUFFICES ASSUME IInv, Quiet, NEW p \in Port \ missed
               PROVE  Agrees(entry[p].view, dp[p])
    BY DEF ViewAgrees, Agreed, Agrees
  <2>1. ~Pending(p) /\ got_feature_reply
    BY DEF Quiet, Pending
  <2> QED BY <2>1 DEF IInv, Leads
<1> QED
  BY <1>1, Invariance, PTL

\* The datapath floods where the tree forwards, once every message has been delivered: the
\* last PORT_MOD for the port that is there now carries what the tree asks for, unless it was
\* lost with local_rconn or nobody was told that the port is a new one.
THEOREM FloodsAsTheTree == Spec => []FloodFollowsStp
<1>1. IInv => FloodFollowsStp
  <2> SUFFICES ASSUME IInv, Quiet, NEW p \in Port \ (unset \union gone), dp[p] # NULL,
                      entry[p].stp \in {"blocking", "learning", "forwarding"}
               PROVE  ("NO_FLOOD" \in dp[p].config) = (entry[p].stp # "forwarding")
    BY DEF FloodFollowsStp
  <2>1. ~Leaving(p) /\ ~entry[p].changed /\ DOMAIN toDp = {}
    BY DEF Quiet, Leaving
  <2>2. entry[p].view # NULL
    BY DEF IInv, Trees, Tree
  <2>3. entry[p].view.stp = p_state(entry[p].stp)
    BY <2>1, <2>2 DEF IInv, Trees, Tree
  <2>4. Owed(entry[p])
    BY <2>2, <2>3 DEF p_state, Owed
  <2>5. FlagMods(p) = {} /\ Decided(p)
    BY <2>1, <2>4 DEF IInv, Floods, FlagMods
  <2> QED BY <2>5 DEF Decided
<1> QED
  BY <1>1, Invariance, PTL
=============================================================================
