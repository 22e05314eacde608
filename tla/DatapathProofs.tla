-------------------------- MODULE DatapathProofs --------------------------
(***************************************************************************)
(* Replies in several parts reach every remote whole and in order, and the *)
(* id of a buffer means the packet it was reported with, for any number of *)
(* ports, remotes, buffers, cookies and flows, size of the queues, and     *)
(* numbers of packets, requests and events.                                *)
(***************************************************************************)
EXTENDS Datapath, SequenceTheorems, FiniteSetTheorems, WellFoundedInduction, TLAPS

Reply == [type : {"REPLY"}, xid : Nat, part : Nat, parts : Nat]
Dump == [xid : Nat, part : Nat, parts : Nat]
Packet == [n : Nat \ {0}, in : Nat]
Slot == 0..(Slots - 1)
Buffer == [pkt : Packet \cup {NoPacket}, cookie : 0..(Cookies - 1), fresh : BOOLEAN, times : Nat]
Report == [id : Nat, pkt : Packet, at : Nat]

\* What every function of the code needs of the datapath that it is given.
IsDp(d) ==
  /\ {"replies", "dump", "connected", "late", "txq", "flows", "used", "buffers", "buffer_idx", "told"}
       \subseteq DOMAIN d
  /\ d.connected \in [Remotes -> BOOLEAN] /\ d.late \in [Remotes -> Nat]
  /\ d.replies \in [Remotes -> Seq(Reply)]
  /\ d.dump \in [Remotes -> Dump]
  /\ \A f \in d.flows : Len(f.outs) \in Nat
  /\ d.buffers \in [Slot -> Buffer] /\ d.buffer_idx \in Nat
  /\ d.told \in Seq(Report)

\* A function that leaves connections alone.
Stays(d, e) == e.connected = d.connected /\ e.late = d.late

\* A function that answers nobody.
Quiet(d, e) == /\ IsDp(e) /\ Stays(d, e)
               /\ e.replies = d.replies /\ e.dump = d.dump

\* Buffer i cannot be given to another packet; what the controller is told of it.
Taken(d, i) == d.buffers[i].pkt # NoPacket /\ d.buffers[i].fresh
Entry(d, i) == [id |-> i + Slots * d.buffers[i].cookie, pkt |-> d.buffers[i].pkt, at |-> d.buffers[i].times]

\* The cookie after c.
NextCookie(c) == IF c + 1 >= Cookies THEN 0 ELSE c + 1

\* Between d and e buffer i was given to a packet.
Stored(d, e, i) == /\ e.buffers[i].cookie = NextCookie(d.buffers[i].cookie)
                   /\ e.buffers[i].times = d.buffers[i].times + 1
Saved(d, e, i) == ~ Taken(d, i) /\ Taken(e, i) /\ Stored(d, e, i)

\* A function that saves packets in buffers, and tells of those and no others.
Saves(d, e) ==
  /\ e.used = d.used
  /\ \A i \in Slot : e.buffers[i] = d.buffers[i] \/ Saved(d, e, i)
  /\ Range(d.told) \subseteq Range(e.told)
  /\ \A t \in Range(e.told) \ Range(d.told) : \E i \in Slot : Saved(d, e, i) /\ t = Entry(e, i)

Sends(d, e) == Quiet(d, e) /\ Saves(d, e)

\* A function that leaves buffers alone.
Leaves(d, e) == e.buffers = d.buffers /\ e.told = d.told /\ e.used = d.used

\* A function that may empty buffers, or let their packets grow old.
Kept(d, e, i) == /\ e.buffers[i].cookie = d.buffers[i].cookie
                 /\ e.buffers[i].times = d.buffers[i].times
                 /\ e.buffers[i].pkt \in {d.buffers[i].pkt, NoPacket}
Keeps(d, e) == e.told = d.told /\ \A i \in Slot : Kept(d, e, i)

\* A turn: buffers are emptied, then packets are saved.
Turns(d, e) ==
  /\ \A i \in Slot : Kept(d, e, i) \/ Stored(d, e, i)
  /\ \A t \in Range(e.told) \ Range(d.told) : \E i \in Slot : Stored(d, e, i) /\ t = Entry(e, i)

\* What the message m retrieves.
Use(d, m) == [id |-> m.id, pkt |-> BufferOf(d, m.id), meant |-> m.meant,
              passed |-> d.buffers[m.id % Slots].times - m.meant.at]
Uses(d, e, m) == \/ e.used = d.used
                 \/ /\ m.id # NoId
                    /\ e.used = Use(d, m)

\* The turn of a message that nobody answers.
Turned(d, e, m) == Quiet(d, e) /\ Turns(d, e) /\ Uses(d, e, m)

-----------------------------------------------------------------------------
(* Output *)

\* The least element of a non-empty set of naturals.
LEMMA LeastNat ==
    ASSUME NEW T \in SUBSET Nat, T # {}
    PROVE  \E n \in T : \A m \in T : n <= m
<1> DEFINE R == {mn \in Nat \X Nat : mn[1] < mn[2]}
<1>1. IsWellFoundedOn(R, Nat)
  BY NatLessThanWellFounded DEF OpToRel
<1>2. PICK n \in T : \A m \in T : ~ (<<m, n>> \in R)
  BY <1>1, WFMin
<1>3. ASSUME NEW m \in T PROVE n <= m
  <2>1. <<m, n>> \in Nat \X Nat /\ <<m, n>>[1] = m /\ <<m, n>>[2] = n
    OBVIOUS
  <2>2. ~(m < n)
    BY <1>2, <2>1
  <2>3. m \in Nat /\ n \in Nat
    OBVIOUS
  <2> QED BY <2>2, <2>3
<1> QED
  BY <1>3

\* A message other than a reply.
LEMMA SendIsQuiet ==
    ASSUME NEW d, IsDp(d), NEW r, NEW m, m.type # "REPLY"
    PROVE  /\ Quiet(d, send_openflow_buffer(d, r, m))
           /\ Leaves(d, send_openflow_buffer(d, r, m))
<1> DEFINE e == send_openflow_buffer(d, r, m)
           q == [d.txq EXCEPT ![r] = Append(@, m)]
<1>1. CASE ~ Sendable(d, r)
  BY <1>1 DEF send_openflow_buffer, Quiet, Stays, Leaves
<1>2. CASE Sendable(d, r)
  <2>1. [d.replies EXCEPT ![r] = @] = d.replies
    BY DEF IsDp
  <2>2. e = [d EXCEPT !.txq = q, !.replies = d.replies]
    BY <1>2, <2>1 DEF send_openflow_buffer
  <2> HIDE DEF e, q
  <2>3. /\ DOMAIN e = DOMAIN d /\ e.replies = d.replies /\ e.dump = d.dump /\ e.flows = d.flows
        /\ e.buffer_idx = d.buffer_idx /\ Leaves(d, e) /\ Stays(d, e)
    BY <2>2 DEF IsDp, Leaves, Stays
  <2> QED BY <2>3 DEF Quiet, IsDp, Leaves, Stays, e
<1> QED BY <1>1, <1>2

\* The index of a buffer.
LEMMA SlotIsInRange ==
    ASSUME NEW n \in Int, NEW k \in Nat \ {0}
    PROVE  n % k \in 0..(k - 1)
  OBVIOUS

\* Saving a packet in a buffer: the next one, unless it is taken.
LEMMA SaveInBuffer ==
    ASSUME NEW d, IsDp(d), NEW pkt \in Packet
    PROVE  LET saved == save_buffer(d, pkt)
               e == saved.d
           IN /\ Quiet(d, e) /\ e.told = d.told /\ e.used = d.used
              /\ \/ saved.id = NoId /\ e.buffers = d.buffers
                 \/ \E i \in Slot : /\ Saved(d, e, i) /\ saved.id # NoId
                                    /\ [id |-> saved.id, pkt |-> pkt,
                                        at |-> e.buffers[e.buffer_idx].times] = Entry(e, i)
                                    /\ Entry(e, i) \in Report
                                    /\ \A j \in Slot \ {i} : e.buffers[j] = d.buffers[j]
<1> DEFINE i == (d.buffer_idx + 1) % Slots
           cookie == NextCookie(d.buffers[i].cookie)
           times == d.buffers[i].times + 1
           new == [pkt |-> pkt, cookie |-> cookie, fresh |-> TRUE, times |-> times]
           buffers == [d.buffers EXCEPT ![i] = new]
           id == i + Slots * cookie
           full == [d EXCEPT !.buffer_idx = i]
           e == [d EXCEPT !.buffer_idx = i, !.buffers = buffers]
<1>1. i \in Slot /\ i \in Nat
  <2>1. d.buffer_idx + 1 \in Int /\ Slots \in Nat \ {0}
    BY DatapathAssumption DEF IsDp
  <2>2. i \in 0..(Slots - 1)
    BY <2>1, SlotIsInRange
  <2> HIDE DEF i
  <2> QED BY <2>1, <2>2 DEF Slot
<1>2. cookie \in 0..(Cookies - 1) /\ cookie \in Nat /\ times \in Nat
  <2>1. d.buffers[i].cookie \in 0..(Cookies - 1) /\ d.buffers[i].times \in Nat
    BY <1>1 DEF IsDp, Buffer
  <2>2. Cookies \in Nat \ {0}
    BY DatapathAssumption
  <2>3. \A c \in 0..(Cookies - 1) : NextCookie(c) \in 0..(Cookies - 1) /\ NextCookie(c) \in Nat
    BY <2>2 DEF NextCookie
  <2>4. \A n \in Nat : n + 1 \in Nat
    OBVIOUS
  <2> HIDE DEF i
  <2> QED BY <2>1, <2>3, <2>4
<1>3. id \in Nat
  BY <1>1, <1>2, DatapathAssumption
<1>4. pkt # NoPacket
  BY DEF Packet, NoPacket
<1>5. save_buffer(d, pkt) = IF Taken(d, i) THEN [d |-> full, id |-> NoId] ELSE [d |-> e, id |-> id]
  BY DEF save_buffer, Taken, NextCookie
<1> HIDE DEF i, cookie, id, times
<1>6. CASE Taken(d, i)
  <2>1. Quiet(d, full) /\ Leaves(d, full)
    BY <1>1 DEF Quiet, Stays, IsDp, Leaves
  <2> HIDE DEF full
  <2> QED BY <1>5, <1>6, <2>1 DEF Leaves
<1>7. CASE ~ Taken(d, i)
  <2>1. new \in Buffer /\ new.pkt = pkt /\ new.cookie = cookie /\ new.fresh /\ new.times = times
    BY <1>2 DEF Buffer
  <2> HIDE DEF new
  <2>2. buffers \in [Slot -> Buffer] /\ buffers[i] = new /\ \A j \in Slot \ {i} : buffers[j] = d.buffers[j]
    BY <1>1, <2>1 DEF IsDp
  <2> HIDE DEF buffers
  <2>3. Quiet(d, e) /\ e.told = d.told /\ e.used = d.used /\ e.buffers = buffers /\ e.buffer_idx = i
    BY <1>1, <2>2 DEF Quiet, Stays, IsDp
  <2> HIDE DEF e
  <2>4. Taken(e, i)
    BY <1>4, <2>1, <2>2, <2>3 DEF Taken
  <2>5. Entry(e, i) = [id |-> id, pkt |-> pkt, at |-> times] /\ e.buffers[e.buffer_idx].times = times
    BY <2>1, <2>2, <2>3 DEF Entry, id
  <2>6. Entry(e, i) \in Report
    BY <1>2, <1>3, <2>5 DEF Report
  <2>7. id # NoId
    BY <1>3 DEF NoId
  <2>8. Saved(d, e, i)
    BY <1>7, <2>1, <2>2, <2>3, <2>4 DEF Saved, Stored, cookie, times
  <2>9. save_buffer(d, pkt).d = e /\ save_buffer(d, pkt).id = id
    BY <1>5, <1>7
  <2> QED BY <1>1, <1>7, <2>2, <2>3, <2>4, <2>5, <2>6, <2>7, <2>8, <2>9
<1> QED
  BY <1>6, <1>7

\* Emptying a buffer.
LEMMA DiscardIsQuiet ==
    ASSUME NEW d, IsDp(d), NEW id
    PROVE  /\ Quiet(d, discard_buffer(d, id))
           /\ discard_buffer(d, id).told = d.told /\ discard_buffer(d, id).used = d.used
           /\ \A i \in Slot : LET b == discard_buffer(d, id).buffers[i]
                              IN b = d.buffers[i] \/ b = [d.buffers[i] EXCEPT !.pkt = NoPacket]
<1> DEFINE i == id % Slots
           buffers == [d.buffers EXCEPT ![i].pkt = NoPacket]
           e == [d EXCEPT !.buffers = buffers]
<1>1. buffers \in [Slot -> Buffer]
  BY DEF IsDp, Buffer
<1>2. \A j \in Slot : buffers[j] = d.buffers[j] \/ buffers[j] = [d.buffers[j] EXCEPT !.pkt = NoPacket]
  BY DEF IsDp
<1>3. discard_buffer(d, id) = IF Holds(d, id) THEN e ELSE d
  BY DEF discard_buffer
<1> HIDE DEF buffers
<1>4. Quiet(d, e) /\ e.told = d.told /\ e.used = d.used /\ e.buffers = buffers
  BY <1>1 DEF Quiet, Stays, IsDp
<1> HIDE DEF e
<1> QED
  BY <1>2, <1>3, <1>4 DEF Quiet, Stays

\* One quiet function after another.
LEMMA QuietThenQuiet ==
    ASSUME NEW d, NEW e, NEW f, Quiet(d, e), Quiet(e, f)
    PROVE  Quiet(d, f)
  BY DEF Quiet, Stays

\* A function that leaves buffers alone saves nothing.
LEMMA LeavingSends ==
    ASSUME NEW d, NEW e, Quiet(d, e), Leaves(d, e)
    PROVE  Sends(d, e)
  BY DEF Sends, Saves, Leaves

\* A buffer in which a packet was saved is taken for as long as the function runs.
LEMMA SendThenSend ==
    ASSUME NEW d, NEW e, NEW f, Sends(d, e), Sends(e, f)
    PROVE  Sends(d, f)
<1>1. Quiet(d, f) /\ f.used = d.used /\ Range(d.told) \subseteq Range(f.told)
  BY QuietThenQuiet DEF Sends, Saves
<1>2. ASSUME NEW i \in Slot, Saved(d, e, i)
      PROVE  f.buffers[i] = e.buffers[i] /\ Saved(d, f, i) /\ Entry(f, i) = Entry(e, i)
  <2>1. f.buffers[i] = e.buffers[i]
    BY <1>2 DEF Sends, Saves, Saved
  <2>2. Entry(f, i) = Entry(e, i) /\ (Taken(f, i) <=> Taken(e, i))
    BY <2>1 DEF Entry, Taken
  <2> QED BY <1>2, <2>1, <2>2 DEF Sends, Saves, Saved, Stored
<1>3. ASSUME NEW i \in Slot, Saved(e, f, i)
      PROVE  e.buffers[i] = d.buffers[i] /\ Saved(d, f, i)
  <2>1. e.buffers[i] = d.buffers[i]
    BY <1>3 DEF Sends, Saves, Saved
  <2> QED BY <1>3, <2>1 DEF Saved, Stored, Taken
<1>4. \A i \in Slot : f.buffers[i] = d.buffers[i] \/ Saved(d, f, i)
  BY <1>2, <1>3 DEF Sends, Saves
<1>5. ASSUME NEW t \in Range(f.told) \ Range(d.told)
      PROVE  \E i \in Slot : Saved(d, f, i) /\ t = Entry(f, i)
  <2>1. CASE t \in Range(e.told)
    BY <1>2, <2>1 DEF Sends, Saves
  <2>2. CASE t \notin Range(e.told)
    BY <1>3, <2>2 DEF Sends, Saves
  <2> QED BY <2>1, <2>2
<1> QED
  BY <1>1, <1>4, <1>5 DEF Sends, Saves

\* Emptying a buffer gives it to nobody.
LEMMA DiscardKeeps ==
    ASSUME NEW d, IsDp(d), NEW id
    PROVE  LET e == discard_buffer(d, id)
           IN Quiet(d, e) /\ Keeps(d, e) /\ e.used = d.used
<1> DEFINE e == discard_buffer(d, id)
<1>1. /\ Quiet(d, e) /\ e.told = d.told /\ e.used = d.used
      /\ \A i \in Slot : e.buffers[i] = d.buffers[i] \/ e.buffers[i] = [d.buffers[i] EXCEPT !.pkt = NoPacket]
  BY DiscardIsQuiet
<1> HIDE DEF e
<1>2. \A i \in Slot : Kept(d, e, i)
  <2> TAKE i \in Slot
  <2>1. d.buffers[i] \in Buffer
    BY DEF IsDp
  <2> DEFINE b == d.buffers[i]
  <2>2. /\ [b EXCEPT !.pkt = NoPacket].cookie = b.cookie /\ [b EXCEPT !.pkt = NoPacket].pkt = NoPacket
        /\ [b EXCEPT !.pkt = NoPacket].times = b.times
    BY <2>1 DEF Buffer
  <2> HIDE DEF b
  <2> QED BY <1>1, <2>2 DEF Kept, b
<1> QED
  BY <1>1, <1>2 DEF Keeps, e

\* A turn that saves nothing.
LEMMA KeepTurns ==
    ASSUME NEW d, NEW e, Keeps(d, e)
    PROVE  Turns(d, e)
  BY DEF Keeps, Turns

\* Buffers are emptied, then packets are saved.
LEMMA KeepThenSend ==
    ASSUME NEW d, NEW g, NEW e, NEW m, Quiet(d, g), Keeps(d, g), Uses(d, g, m), Sends(g, e)
    PROVE  Turned(d, e, m)
<1>1. Quiet(d, e)
  BY QuietThenQuiet DEF Sends
<1>2. \A i \in Slot : Saved(g, e, i) => Stored(d, e, i)
  BY DEF Saved, Stored, Keeps, Kept
<1>3. \A i \in Slot : Kept(d, e, i) \/ Stored(d, e, i)
  BY <1>2 DEF Sends, Saves, Keeps, Kept
<1>4. Turns(d, e)
  BY <1>2, <1>3 DEF Turns, Sends, Saves, Keeps
<1> QED
  BY <1>1, <1>4 DEF Turned, Uses, Sends, Saves

\* A turn that leaves buffers alone.
LEMMA LeavingTurns ==
    ASSUME NEW d, NEW e, NEW m, Quiet(d, e), Leaves(d, e)
    PROVE  Turned(d, e, m)
  BY DEF Turned, Turns, Uses, Leaves, Kept

\* A packet that leaves through one port.
LEMMA OutputSends ==
    ASSUME NEW d, IsDp(d), NEW pkt, NEW p
    PROVE  Sends(d, output_packet(d, pkt, p))
<1>1. Quiet(d, output_packet(d, pkt, p)) /\ Leaves(d, output_packet(d, pkt, p))
  BY DEF output_packet, Quiet, Stays, IsDp, Leaves
<1> QED
  BY <1>1, LeavingSends

\* A packet that leaves through many ports.
LEMMA FloodSends ==
    ASSUME NEW d, IsDp(d), NEW pkt, NEW in, NEW flood
    PROVE  Sends(d, output_all(d, pkt, in, flood))
<1> DEFINE S == d.sent \cup {[pkt |-> pkt, port |-> p] :
     p \in {q \in Ports \ {in} : /\ "PORT_DOWN" \notin d.config[q]
                                 /\ ~(flood /\ "NO_FLOOD" \in d.config[q])}}
<1>1. output_all(d, pkt, in, flood) = [d EXCEPT !.sent = S]
  BY DEF output_all
<1> HIDE DEF S
<1>2. Quiet(d, output_all(d, pkt, in, flood)) /\ Leaves(d, output_all(d, pkt, in, flood))
  BY <1>1 DEF Quiet, Stays, IsDp, Leaves
<1> QED
  BY <1>2, LeavingSends

\* A packet that goes to the controller.
LEMMA ControlSends ==
    ASSUME NEW d, IsDp(d), NEW pkt \in Packet
    PROVE  Sends(d, dp_output_control(d, pkt))
<1> DEFINE saved == save_buffer(d, pkt)
           m == [type |-> "PACKET_IN", id |-> saved.id, pkt |-> pkt]
           sent == send_openflow_buffer(saved.d, Controller, m)
           report == [id |-> saved.id, pkt |-> pkt, at |-> saved.d.buffers[saved.d.buffer_idx].times]
           dropped == ~ Sendable(saved.d, Controller)
           told == Append(sent.told, report)
           e == [sent EXCEPT !.told = told]
<1>1. /\ Quiet(d, saved.d) /\ saved.d.told = d.told /\ saved.d.used = d.used
      /\ \/ saved.id = NoId /\ saved.d.buffers = d.buffers
         \/ \E i \in Slot : /\ Saved(d, saved.d, i) /\ saved.id # NoId
                            /\ report = Entry(saved.d, i)
                            /\ Entry(saved.d, i) \in Report
                            /\ \A j \in Slot \ {i} : saved.d.buffers[j] = d.buffers[j]
  BY SaveInBuffer
<1>2. Quiet(saved.d, sent) /\ Leaves(saved.d, sent)
  <2>1. m.type # "REPLY" /\ IsDp(saved.d)
    BY <1>1 DEF Quiet
  <2> QED BY <2>1, SendIsQuiet
<1>3. dp_output_control(d, pkt) = IF saved.id = NoId \/ dropped THEN sent ELSE e
  BY DEF dp_output_control
<1> HIDE DEF saved, sent, report, dropped
<1>4. Quiet(d, sent) /\ IsDp(sent) /\ sent.told = d.told /\ sent.used = d.used /\ sent.buffers = saved.d.buffers
  BY <1>1, <1>2, QuietThenQuiet DEF Leaves, Quiet
<1>5. Sends(d, sent)
  <2>1. ASSUME NEW i \in Slot, Saved(d, saved.d, i) PROVE Saved(d, sent, i)
    BY <1>4, <2>1 DEF Saved, Stored, Taken
  <2> QED BY <1>1, <1>4, <2>1 DEF Sends, Saves
<1>6. CASE saved.id # NoId
  <2>1. PICK i \in Slot : /\ Saved(d, saved.d, i)
                          /\ report = Entry(saved.d, i) /\ report \in Report
                          /\ \A j \in Slot \ {i} : saved.d.buffers[j] = d.buffers[j]
    BY <1>1, <1>6
  <2>2. d.told \in Seq(Report)
    BY DEF IsDp
  <2>3. told \in Seq(Report) /\ Range(told) = Range(d.told) \cup {report}
    <3>1. told = Append(d.told, report)
      BY <1>4
    <3>2. /\ told \in Seq(Report) /\ Len(d.told) \in Nat /\ Len(told) = Len(d.told) + 1
          /\ DOMAIN told = 1..(Len(d.told) + 1) /\ DOMAIN d.told = 1..Len(d.told)
          /\ told[Len(d.told) + 1] = report /\ \A k \in 1..Len(d.told) : told[k] = d.told[k]
      BY <2>1, <2>2, <3>1
    <3> HIDE DEF told
    <3>3. \A k \in 1..(Len(d.told) + 1) : k \in 1..Len(d.told) \/ k = Len(d.told) + 1
      BY <3>2
    <3>4. Len(d.told) + 1 \in DOMAIN told /\ \A k \in DOMAIN d.told : k \in DOMAIN told
      BY <3>2
    <3> QED BY <3>2, <3>3, <3>4 DEF Range
  <2> HIDE DEF told
  <2>4. Quiet(d, e) /\ e.told = told /\ e.used = d.used /\ e.buffers = saved.d.buffers
    BY <1>4, <2>3 DEF Quiet, Stays, IsDp
  <2> HIDE DEF e
  <2>5. Entry(e, i) = report
    BY <2>1, <2>4 DEF Entry
  <2>6. Saved(d, e, i)
    BY <2>1, <2>4 DEF Saved, Stored, Taken
  <2>7. Saves(d, e)
    BY <2>1, <2>3, <2>4, <2>5, <2>6 DEF Saves
  <2>8. Sends(d, e)
    BY <2>4, <2>7 DEF Sends
  <2> QED BY <1>3, <1>5, <2>8
<1> QED
  BY <1>3, <1>5, <1>6

\* An output of a flow, or of a packet_out.
LEMMA DoOutputSends ==
    ASSUME NEW d, IsDp(d), NEW pkt \in Packet, NEW out
    PROVE  Sends(d, do_output(d, pkt, out))
<1>1. Sends(d, d)
  BY LeavingSends DEF Quiet, Stays, Leaves
<1> QED
  BY <1>1, OutputSends, FloodSends, ControlSends DEF do_output

\* The outputs of a flow.
LEMMA OutputsSend ==
    ASSUME NEW d, IsDp(d), NEW pkt \in Packet, NEW outs, Len(outs) \in Nat
    PROVE  Sends(d, execute_outputs(d, pkt, outs))
<1> DEFINE Step(v, n) == CHOOSE x \in {do_output(e, pkt, outs[n]) : e \in {v}} : TRUE
           Is(g, k) == g = [n \in 0..k |-> IF n = 0 THEN d ELSE Step(g[n - 1], n)]
           after == CHOOSE g : Is(g, Len(outs))
           Absent == {k \in Nat : ~ \E g : Is(g, k)}
           T == {n \in 0..Len(outs) : ~ Sends(d, after[n])}
<1>1. execute_outputs(d, pkt, outs) = after[Len(outs)]
  BY DEF execute_outputs
<1>2. \A v, n : Step(v, n) = do_output(v, pkt, outs[n])
  OBVIOUS
<1> HIDE DEF Step
<1>3. Absent = {}
  <2>1. SUFFICES ASSUME Absent # {} PROVE FALSE
    OBVIOUS
  <2>2. PICK k \in Absent : \A m \in Absent : k <= m
    <3>1. Absent \in SUBSET Nat
      OBVIOUS
    <3> HIDE DEF Absent
    <3> QED BY <2>1, <3>1, LeastNat
  <2>3. CASE k = 0
    <3> DEFINE g == [n \in 0..0 |-> d]
    <3>1. \E h : Is(h, 0)
      <4>1. Is(g, 0)
        OBVIOUS
      <4> QED BY <4>1
    <3> HIDE DEF Is
    <3>2. ~ \E h : Is(h, k)
      BY <2>2
    <3> QED BY <2>3, <3>1, <3>2
  <2>4. CASE k # 0
    <3>1. k \in Nat /\ k - 1 \in Nat /\ k - 1 \notin Absent
      <4>1. k \in Nat
        OBVIOUS
      <4> HIDE DEF Absent
      <4>2. ~ (k <= k - 1)
        BY <4>1
      <4> QED BY <2>2, <2>4, <4>1, <4>2
    <3>2. PICK g : Is(g, k - 1)
      BY <3>1
    <3> DEFINE h == [n \in 0..k |-> IF n = k THEN Step(g[k - 1], k) ELSE g[n]]
    <3>3. ASSUME NEW n \in 0..k
          PROVE  h[n] = IF n = 0 THEN d ELSE Step(h[n - 1], n)
      <4>1. CASE n = k
        <5>1. k - 1 \in 0..k /\ k - 1 # k /\ n # 0
          BY <3>1, <4>1, <2>4
        <5>2. h[k - 1] = g[k - 1]
          BY <5>1
        <5>3. h[n] = Step(g[k - 1], k)
          BY <4>1
        <5> HIDE DEF h
        <5> QED BY <4>1, <5>1, <5>2, <5>3
      <4>2. CASE n # k /\ n # 0
        <5>1. n \in 0..(k - 1) /\ n - 1 \in 0..k /\ n - 1 # k
          BY <3>1, <4>2
        <5>2. h[n] = g[n] /\ h[n - 1] = g[n - 1]
          BY <5>1, <4>2
        <5>3. g[n] = Step(g[n - 1], n)
          BY <3>2, <5>1, <4>2
        <5> HIDE DEF h
        <5> QED BY <4>2, <5>2, <5>3
      <4>3. CASE n = 0 /\ n # k
        <5>1. 0 \in 0..(k - 1)
          BY <3>1
        <5>2. g[0] = d
          BY <3>2, <5>1
        <5> QED BY <4>3, <5>2
      <4> QED BY <4>1, <4>2, <4>3
    <3>4. h = [n \in 0..k |-> h[n]]
      OBVIOUS
    <3> HIDE DEF h
    <3>5. [n \in 0..k |-> h[n]] = [n \in 0..k |-> IF n = 0 THEN d ELSE Step(h[n - 1], n)]
      BY <3>3
    <3>6. Is(h, k)
      BY <3>4, <3>5
    <3> QED BY <2>2, <3>6
  <2> QED
    BY <2>3, <2>4
<1>4. Is(after, Len(outs))
  <2>1. \E g : Is(g, Len(outs))
    BY <1>3
  <2> HIDE DEF Is
  <2> QED BY <2>1
<1> HIDE DEF after
<1>5. ASSUME NEW n \in T PROVE n # 0 /\ n - 1 \in T
  <2>1. n # 0
    <3>1. after[0] = d
      BY <1>4
    <3> QED BY <3>1, LeavingSends DEF Quiet, Stays, Leaves
  <2>2. n \in 0..Len(outs) /\ n - 1 \in 0..Len(outs) /\ ~ Sends(d, after[n])
    BY <2>1
  <2>3. after[n] = Step(after[n - 1], n)
    BY <1>4, <2>1, <2>2
  <2>4. after[n] = do_output(after[n - 1], pkt, outs[n])
    BY <1>2, <2>3
  <2>5. SUFFICES ASSUME Sends(d, after[n - 1]) PROVE FALSE
    BY <2>1, <2>2
  <2>6. IsDp(after[n - 1])
    BY <2>5 DEF Sends, Quiet
  <2>7. Sends(after[n - 1], do_output(after[n - 1], pkt, outs[n]))
    BY <2>6, DoOutputSends
  <2>8. Sends(d, after[n])
    BY <2>4, <2>5, <2>7, SendThenSend
  <2> QED BY <2>2, <2>8
<1>6. T = {}
  <2>1. SUFFICES ASSUME T # {} PROVE FALSE
    OBVIOUS
  <2>2. T \in SUBSET Nat
    OBVIOUS
  <2> HIDE DEF T
  <2>3. PICK n \in T : \A m \in T : n <= m
    BY <2>1, <2>2, LeastNat
  <2>4. n - 1 \in T /\ n \in Nat
    BY <1>5, <2>2, <2>3
  <2>5. n <= n - 1
    BY <2>3, <2>4
  <2> QED BY <2>4, <2>5
<1>7. Sends(d, after[Len(outs)])
  <2>1. Len(outs) \in 0..Len(outs)
    OBVIOUS
  <2> QED BY <1>6, <2>1
<1> QED
  BY <1>1, <1>7

\* A packet that goes where its flow says, or ends the switch.
LEMMA RunSends ==
    ASSUME NEW d, IsDp(d), NEW pkt \in Packet
    PROVE  Sends(d, run_flow_through_tables(d, pkt).d)
<1> DEFINE f == CHOOSE g \in FlowFor(d, pkt.in) : TRUE
           crashed == [d EXCEPT !.crashed = TRUE]
<1>1. Sends(d, d)
  BY LeavingSends DEF Quiet, Stays, Leaves
<1>2. Sends(d, crashed)
  <2>1. Quiet(d, crashed) /\ Leaves(d, crashed)
    BY DEF Quiet, Stays, IsDp, Leaves
  <2> HIDE DEF crashed
  <2> QED BY <2>1, LeavingSends
<1>3. CASE FlowFor(d, pkt.in) # {}
  <2>1. f \in d.flows
    BY <1>3 DEF FlowFor
  <2>2. Len(f.outs) \in Nat
    BY <2>1 DEF IsDp
  <2>3. Sends(d, execute_outputs(d, pkt, f.outs))
    BY <2>2, OutputsSend
  <2>4. run_flow_through_tables(d, pkt).d \in {d, crashed, execute_outputs(d, pkt, f.outs)}
    BY DEF run_flow_through_tables
  <2> HIDE DEF f, crashed
  <2> QED BY <1>1, <1>2, <2>3, <2>4
<1>4. CASE FlowFor(d, pkt.in) = {}
  BY <1>1, <1>4 DEF run_flow_through_tables
<1> QED
  BY <1>3, <1>4

\* A packet that came in.
LEMMA InputSends ==
    ASSUME NEW d, IsDp(d), NEW pkt \in Packet
    PROVE  Sends(d, fwd_port_input(d, pkt))
<1> DEFINE ran == run_flow_through_tables(d, pkt)
<1>1. Sends(d, ran.d)
  BY RunSends
<1>2. Sends(ran.d, dp_output_control(ran.d, pkt))
  BY <1>1, ControlSends DEF Sends, Quiet
<1>3. Sends(d, dp_output_control(ran.d, pkt))
  BY <1>1, <1>2, SendThenSend
<1> QED
  BY <1>1, <1>3 DEF fwd_port_input

\* An action of a message.
LEMMA ActionSends ==
    ASSUME NEW d, IsDp(d), NEW pkt \in Packet, NEW out
    PROVE  Sends(d, execute_action(d, pkt, out))
<1>1. Sends(d, d)
  BY LeavingSends DEF Quiet, Stays, Leaves
<1> QED
  BY <1>1, RunSends, DoOutputSends DEF execute_action

\* The actions of a message.
LEMMA ActionsSend ==
    ASSUME NEW d, IsDp(d), NEW pkt \in Packet, NEW outs, Len(outs) \in Nat
    PROVE  Sends(d, execute_actions(d, pkt, outs))
<1> DEFINE Step(v, n) == CHOOSE x \in {execute_action(e, pkt, outs[n]) : e \in {v}} : TRUE
           Is(g, k) == g = [n \in 0..k |-> IF n = 0 THEN d ELSE Step(g[n - 1], n)]
           after == CHOOSE g : Is(g, Len(outs))
           Absent == {k \in Nat : ~ \E g : Is(g, k)}
           T == {n \in 0..Len(outs) : ~ Sends(d, after[n])}
<1>1. execute_actions(d, pkt, outs) = after[Len(outs)]
  BY DEF execute_actions
<1>2. \A v, n : Step(v, n) = execute_action(v, pkt, outs[n])
  OBVIOUS
<1> HIDE DEF Step
<1>3. Absent = {}
  <2>1. SUFFICES ASSUME Absent # {} PROVE FALSE
    OBVIOUS
  <2>2. PICK k \in Absent : \A m \in Absent : k <= m
    <3>1. Absent \in SUBSET Nat
      OBVIOUS
    <3> HIDE DEF Absent
    <3> QED BY <2>1, <3>1, LeastNat
  <2>3. CASE k = 0
    <3> DEFINE g == [n \in 0..0 |-> d]
    <3>1. \E h : Is(h, 0)
      <4>1. Is(g, 0)
        OBVIOUS
      <4> QED BY <4>1
    <3> HIDE DEF Is
    <3>2. ~ \E h : Is(h, k)
      BY <2>2
    <3> QED BY <2>3, <3>1, <3>2
  <2>4. CASE k # 0
    <3>1. k \in Nat /\ k - 1 \in Nat /\ k - 1 \notin Absent
      <4>1. k \in Nat
        OBVIOUS
      <4> HIDE DEF Absent
      <4>2. ~ (k <= k - 1)
        BY <4>1
      <4> QED BY <2>2, <2>4, <4>1, <4>2
    <3>2. PICK g : Is(g, k - 1)
      BY <3>1
    <3> DEFINE h == [n \in 0..k |-> IF n = k THEN Step(g[k - 1], k) ELSE g[n]]
    <3>3. ASSUME NEW n \in 0..k
          PROVE  h[n] = IF n = 0 THEN d ELSE Step(h[n - 1], n)
      <4>1. CASE n = k
        <5>1. k - 1 \in 0..k /\ k - 1 # k /\ n # 0
          BY <3>1, <4>1, <2>4
        <5>2. h[k - 1] = g[k - 1]
          BY <5>1
        <5>3. h[n] = Step(g[k - 1], k)
          BY <4>1
        <5> HIDE DEF h
        <5> QED BY <4>1, <5>1, <5>2, <5>3
      <4>2. CASE n # k /\ n # 0
        <5>1. n \in 0..(k - 1) /\ n - 1 \in 0..k /\ n - 1 # k
          BY <3>1, <4>2
        <5>2. h[n] = g[n] /\ h[n - 1] = g[n - 1]
          BY <5>1, <4>2
        <5>3. g[n] = Step(g[n - 1], n)
          BY <3>2, <5>1, <4>2
        <5> HIDE DEF h
        <5> QED BY <4>2, <5>2, <5>3
      <4>3. CASE n = 0 /\ n # k
        <5>1. 0 \in 0..(k - 1)
          BY <3>1
        <5>2. g[0] = d
          BY <3>2, <5>1
        <5> QED BY <4>3, <5>2
      <4> QED BY <4>1, <4>2, <4>3
    <3>4. h = [n \in 0..k |-> h[n]]
      OBVIOUS
    <3> HIDE DEF h
    <3>5. [n \in 0..k |-> h[n]] = [n \in 0..k |-> IF n = 0 THEN d ELSE Step(h[n - 1], n)]
      BY <3>3
    <3>6. Is(h, k)
      BY <3>4, <3>5
    <3> QED BY <2>2, <3>6
  <2> QED
    BY <2>3, <2>4
<1>4. Is(after, Len(outs))
  <2>1. \E g : Is(g, Len(outs))
    BY <1>3
  <2> HIDE DEF Is
  <2> QED BY <2>1
<1> HIDE DEF after
<1>5. ASSUME NEW n \in T PROVE n # 0 /\ n - 1 \in T
  <2>1. n # 0
    <3>1. after[0] = d
      BY <1>4
    <3> QED BY <3>1, LeavingSends DEF Quiet, Stays, Leaves
  <2>2. n \in 0..Len(outs) /\ n - 1 \in 0..Len(outs) /\ ~ Sends(d, after[n])
    BY <2>1
  <2>3. after[n] = Step(after[n - 1], n)
    BY <1>4, <2>1, <2>2
  <2>4. after[n] = execute_action(after[n - 1], pkt, outs[n])
    BY <1>2, <2>3
  <2>5. SUFFICES ASSUME Sends(d, after[n - 1]) PROVE FALSE
    BY <2>1, <2>2
  <2>6. IsDp(after[n - 1])
    BY <2>5 DEF Sends, Quiet
  <2>7. Sends(after[n - 1], execute_action(after[n - 1], pkt, outs[n]))
    BY <2>6, ActionSends
  <2>8. Sends(d, after[n])
    BY <2>4, <2>5, <2>7, SendThenSend
  <2> QED BY <2>2, <2>8
<1>6. T = {}
  <2>1. SUFFICES ASSUME T # {} PROVE FALSE
    OBVIOUS
  <2>2. T \in SUBSET Nat
    OBVIOUS
  <2> HIDE DEF T
  <2>3. PICK n \in T : \A m \in T : n <= m
    BY <2>1, <2>2, LeastNat
  <2>4. n - 1 \in T /\ n \in Nat
    BY <1>5, <2>2, <2>3
  <2>5. n <= n - 1
    BY <2>3, <2>4
  <2> QED BY <2>4, <2>5
<1>7. Sends(d, after[Len(outs)])
  <2>1. Len(outs) \in 0..Len(outs)
    OBVIOUS
  <2> QED BY <1>6, <2>1
<1> QED
  BY <1>1, <1>7

-----------------------------------------------------------------------------
(* Handlers of messages *)

\* What a handler needs of a message.
Usable(m) == /\ m.xid \in Nat /\ m.parts \in Nat /\ Len(m.outs) \in Nat
             /\ m.n \in Nat \ {0} /\ m.in \in Nat /\ m.id \in Nat \cup {NoId}

\* Only these answer.
Asking == {"FEATURES_REQUEST", "GET_CONFIG_REQUEST", "ECHO_REQUEST"}

\* A packet of a buffer.
LEMMA BufferHasPacket ==
    ASSUME NEW d, IsDp(d), NEW id \in Nat
    PROVE  BufferOf(d, id) \in Packet \cup {NoPacket}
<1>1. id % Slots \in Slot
  <2>1. id \in Int /\ Slots \in Nat \ {0}
    BY DatapathAssumption
  <2> QED BY <2>1, SlotIsInRange DEF Slot
<1> QED
  BY <1>1 DEF BufferOf, IsDp, Buffer

\* A packet whose input port the message gives.
LEMMA PacketIn ==
    ASSUME NEW pkt \in Packet, NEW in \in Nat
    PROVE  [pkt EXCEPT !.in = in] \in Packet
  BY DEF Packet

\* A buffer that is retrieved.
LEMMA RetrievalIsQuiet ==
    ASSUME NEW d, IsDp(d), NEW m
    PROVE  /\ Quiet(d, Retrieved(d, m)) /\ Keeps(d, Retrieved(d, m))
           /\ Retrieved(d, m).used = Use(d, m)
<1> DEFINE e == discard_buffer(d, m.id)
           u == Use(d, m)
<1>1. Quiet(d, e) /\ Keeps(d, e)
  BY DiscardKeeps
<1>2. Retrieved(d, m) = [e EXCEPT !.used = u]
  BY DEF Retrieved, Use
<1> HIDE DEF e, u
<1>3. /\ Quiet(e, Retrieved(d, m)) /\ Retrieved(d, m).buffers = e.buffers
      /\ Retrieved(d, m).told = e.told /\ Retrieved(d, m).used = u
  BY <1>1, <1>2 DEF Quiet, Stays, IsDp
<1>4. Keeps(d, Retrieved(d, m))
  BY <1>1, <1>3 DEF Keeps, Kept
<1> QED
  BY <1>1, <1>3, <1>4, QuietThenQuiet DEF u

\* A message for an error.
LEMMA ErrorIsQuiet ==
    ASSUME NEW d, IsDp(d), NEW r
    PROVE  LET e == send_openflow_buffer(d, r, [type |-> "ERROR"])
           IN Quiet(d, e) /\ Keeps(d, e) /\ e.used = d.used /\ Sends(d, e)
<1>1. [type |-> "ERROR"].type # "REPLY"
  OBVIOUS
<1>2. LET e == send_openflow_buffer(d, r, [type |-> "ERROR"]) IN Quiet(d, e) /\ Leaves(d, e)
  BY <1>1, SendIsQuiet
<1> HIDE DEF send_openflow_buffer
<1> QED
  BY <1>2, LeavingSends DEF Leaves, Keeps, Kept

\* A packet_out.
LEMMA PacketOutTurns ==
    ASSUME NEW d, IsDp(d), NEW r, NEW m, Usable(m)
    PROVE  Turned(d, recv_packet_out(d, r, m), m)
<1> DEFINE pkt == IF m.id = NoId THEN [n |-> m.n, in |-> m.in] ELSE BufferOf(d, m.id)
           got == IF m.id = NoId THEN d ELSE Retrieved(d, m)
           error == send_openflow_buffer(got, r, [type |-> "ERROR"])
           done == execute_actions(got, [pkt EXCEPT !.in = m.in], m.outs)
<1>1. Quiet(d, got) /\ Keeps(d, got) /\ Uses(d, got, m)
  <2>1. CASE m.id = NoId
    BY <2>1 DEF Quiet, Stays, Keeps, Kept, Uses
  <2>2. CASE m.id # NoId
    BY <2>2, RetrievalIsQuiet DEF Uses
  <2> QED BY <2>1, <2>2
<1>2. pkt \in Packet \cup {NoPacket}
  BY BufferHasPacket DEF Usable, Packet
<1>3. recv_packet_out(d, r, m) = IF pkt = NoPacket THEN got
                                 ELSE IF ~Valid(m.in, m.outs) THEN error ELSE done
  BY DEF recv_packet_out
<1> HIDE DEF got, pkt
<1>4. Turned(d, got, m)
  BY <1>1, KeepTurns DEF Turned
<1>5. Turned(d, error, m)
  <2>1. Sends(got, error)
    BY <1>1, ErrorIsQuiet DEF Quiet
  <2> HIDE DEF error
  <2> QED BY <1>1, <2>1, KeepThenSend
<1>6. CASE pkt # NoPacket
  <2>1. [pkt EXCEPT !.in = m.in] \in Packet
    BY <1>2, <1>6, PacketIn DEF Usable
  <2>2. IsDp(got) /\ Len(m.outs) \in Nat
    BY <1>1 DEF Quiet, Usable
  <2>3. Sends(got, done)
    BY <2>1, <2>2, ActionsSend
  <2> HIDE DEF done
  <2>4. Turned(d, done, m)
    BY <1>1, <2>3, KeepThenSend
  <2> QED BY <1>3, <1>5, <1>6, <2>4
<1> QED
  BY <1>3, <1>4, <1>6

\* Flows that are added, changed or removed.
LEMMA FlowsChange ==
    ASSUME NEW d, IsDp(d), NEW flows, \A f \in flows : Len(f.outs) \in Nat
    PROVE  Quiet(d, [d EXCEPT !.flows = flows]) /\ Leaves(d, [d EXCEPT !.flows = flows])
  BY DEF Quiet, Stays, IsDp, Leaves

\* A flow_mod that is refused.
LEMMA RefusedTurns ==
    ASSUME NEW d, IsDp(d), NEW r, NEW m
    PROVE  Turned(d, Refused(d, r, m), m)
<1> DEFINE error == send_openflow_buffer(d, r, [type |-> "ERROR"])
           dropped == discard_buffer(error, m.id)
<1>1. Quiet(d, error) /\ Keeps(d, error) /\ error.used = d.used
  BY ErrorIsQuiet
<1>2. Turned(d, error, m)
  <2> HIDE DEF error
  <2> QED BY <1>1, KeepTurns DEF Turned, Uses
<1>3. Turned(d, dropped, m)
  <2>1. Quiet(error, dropped) /\ Keeps(error, dropped) /\ dropped.used = error.used
    BY <1>1, DiscardKeeps DEF Quiet
  <2> HIDE DEF error, dropped
  <2>2. Quiet(d, dropped) /\ Keeps(d, dropped)
    BY <1>1, <2>1, QuietThenQuiet DEF Keeps, Kept
  <2> QED BY <1>1, <2>1, <2>2, KeepTurns DEF Turned, Uses
<1>4. Refused(d, r, m) \in {error, dropped}
  BY DEF Refused
<1> HIDE DEF error, dropped
<1> QED
  BY <1>2, <1>3, <1>4

\* A flow_mod that is accepted, after which its packet is what the flow makes of it.
LEMMA AppliedTurns ==
    ASSUME NEW d, IsDp(d), NEW e, Quiet(d, e), Leaves(d, e), NEW m, Usable(m)
    PROVE  Turned(d, Applied(e, m), m)
<1> DEFINE pkt == [BufferOf(e, m.id) EXCEPT !.in = m.in]
           got == Retrieved(e, m)
           done == execute_actions(got, pkt, m.outs)
<1>1. IsDp(e) /\ Turned(d, e, m)
  BY LeavingTurns DEF Quiet
<1>2. ASSUME m.id # NoId, BufferOf(e, m.id) # NoPacket
      PROVE  Turned(d, done, m)
  <2>1. Use(e, m) = Use(d, m)
    BY DEF Use, BufferOf, Holds, Leaves
  <2>2. pkt \in Packet
    BY <1>1, <1>2, BufferHasPacket, PacketIn DEF Usable
  <2> HIDE DEF pkt
  <2>3. Quiet(e, got) /\ Keeps(e, got) /\ got.used = Use(e, m)
    BY <1>1, RetrievalIsQuiet
  <2>4. Quiet(d, got)
    BY <2>3, QuietThenQuiet
  <2>5. IsDp(got) /\ Len(m.outs) \in Nat
    BY <2>4 DEF Quiet, Usable
  <2>6. Sends(got, done)
    BY <2>2, <2>5, ActionsSend
  <2> HIDE DEF got, done
  <2>7. Keeps(d, got) /\ Uses(d, got, m)
    BY <1>2, <2>1, <2>3 DEF Keeps, Kept, Uses, Leaves
  <2> QED BY <2>4, <2>6, <2>7, KeepThenSend
<1>3. Applied(e, m) = IF m.id = NoId \/ BufferOf(e, m.id) = NoPacket THEN e ELSE done
  BY DEF Applied
<1> HIDE DEF done
<1> QED
  BY <1>1, <1>2, <1>3

\* A flow_mod that adds a flow.
LEMMA AddFlowTurns ==
    ASSUME NEW d, IsDp(d), NEW r, NEW m, Usable(m)
    PROVE  Turned(d, add_flow(d, r, m), m)
<1> DEFINE flows == {f \in d.flows : f.in # m.in} \cup {[in |-> m.in, outs |-> m.outs]}
           added == [d EXCEPT !.flows = flows]
<1>1. \A f \in flows : Len(f.outs) \in Nat
  BY DEF IsDp, Usable
<1>2. add_flow(d, r, m) \in {Refused(d, r, m), Applied(added, m)}
  BY DEF add_flow
<1> HIDE DEF flows
<1>3. Quiet(d, added) /\ Leaves(d, added)
  BY <1>1, FlowsChange
<1> HIDE DEF added
<1>4. Turned(d, Applied(added, m), m)
  BY <1>3, AppliedTurns
<1> QED
  BY <1>2, <1>4, RefusedTurns

\* A flow_mod that changes what a flow does.
LEMMA ModFlowTurns ==
    ASSUME NEW d, IsDp(d), NEW r, NEW m, Usable(m)
    PROVE  Turned(d, mod_flow(d, r, m), m)
<1> DEFINE flows == {f \in d.flows : f.in # m.in} \cup {[in |-> m.in, outs |-> m.outs] : f \in FlowFor(d, m.in)}
           changed == [d EXCEPT !.flows = flows]
<1>1. \A f \in flows : Len(f.outs) \in Nat
  BY DEF IsDp, Usable
<1>2. mod_flow(d, r, m) \in {Refused(d, r, m), Applied(changed, m)}
  BY DEF mod_flow
<1> HIDE DEF flows
<1>3. Quiet(d, changed) /\ Leaves(d, changed)
  BY <1>1, FlowsChange
<1> HIDE DEF changed
<1>4. Turned(d, Applied(changed, m), m)
  BY <1>3, AppliedTurns
<1> QED
  BY <1>2, <1>4, RefusedTurns

\* A flow_mod.
LEMMA FlowModTurns ==
    ASSUME NEW d, IsDp(d), NEW r, NEW m, Usable(m)
    PROVE  Turned(d, recv_flow(d, r, m), m)
<1> DEFINE flows == {f \in d.flows : f.in # m.in}
           gone == [d EXCEPT !.flows = flows]
<1>1. \A f \in flows : Len(f.outs) \in Nat
  BY DEF IsDp
<1>2. recv_flow(d, r, m) \in {add_flow(d, r, m), mod_flow(d, r, m), gone}
  BY DEF recv_flow
<1> HIDE DEF flows
<1>3. Turned(d, gone, m)
  BY <1>1, FlowsChange, LeavingTurns
<1> QED
  BY <1>2, <1>3, AddFlowTurns, ModFlowTurns

\* A port_mod, and a set_config.
LEMMA ConfigTurns ==
    ASSUME NEW d, IsDp(d), NEW m
    PROVE  /\ Turned(d, dp_update_port_flags(d, m), m)
           /\ Turned(d, [d EXCEPT !.send_flow_exp = m.send_flow_exp], m)
<1> DEFINE c == [d.config EXCEPT ![m.port] = IF m.on THEN @ \cup {m.bit} ELSE @ \ {m.bit}]
           e == dp_update_port_flags(d, m)
           f == [d EXCEPT !.send_flow_exp = m.send_flow_exp]
<1>1. e = [d EXCEPT !.config = c]
  BY DEF dp_update_port_flags
<1> HIDE DEF c, e
<1>2. Quiet(d, e) /\ Leaves(d, e)
  BY <1>1 DEF Quiet, Stays, IsDp, Leaves
<1>3. Quiet(d, f) /\ Leaves(d, f)
  BY DEF Quiet, Stays, IsDp, Leaves
<1> HIDE DEF f
<1>4. Turned(d, e, m) /\ Turned(d, f, m)
  BY <1>2, <1>3, LeavingTurns
<1> QED
  BY <1>4 DEF e, f

\* e is d after a reply of one part to r, if there was room for it.
Answered(d, e, r, x) ==
  /\ IsDp(e) /\ Stays(d, e) /\ e.dump = d.dump
  /\ \/ e.replies = d.replies
     \/ e.replies = [d.replies EXCEPT ![r] = Append(@, x)]

\* Sending a reply.
LEMMA ReplyIsSent ==
    ASSUME NEW d, IsDp(d), NEW r \in Remotes, NEW x \in Reply
    PROVE  /\ Answered(d, send_openflow_buffer(d, r, x), r, x)
           /\ Leaves(d, send_openflow_buffer(d, r, x))
           /\ Sendable(d, r) =>
                send_openflow_buffer(d, r, x).replies = [d.replies EXCEPT ![r] = Append(@, x)]
           /\ ~Sendable(d, r) => send_openflow_buffer(d, r, x) = d
<1> DEFINE e == send_openflow_buffer(d, r, x)
           q == [d.txq EXCEPT ![r] = Append(@, x)]
           rs == [d.replies EXCEPT ![r] = Append(@, x)]
<1>1. CASE ~Sendable(d, r)
  BY <1>1 DEF send_openflow_buffer, Answered, Stays, Leaves
<1>2. CASE Sendable(d, r)
  <2>1. e = [d EXCEPT !.txq = q, !.replies = rs]
    BY <1>2 DEF send_openflow_buffer, Reply
  <2>2. rs \in [Remotes -> Seq(Reply)]
    BY DEF IsDp
  <2> HIDE DEF e, q, rs
  <2>3. /\ DOMAIN e = DOMAIN d /\ e.replies = rs /\ e.dump = d.dump /\ e.flows = d.flows
        /\ e.buffer_idx = d.buffer_idx /\ Leaves(d, e) /\ Stays(d, e)
    BY <2>1 DEF IsDp, Leaves, Stays
  <2>4. IsDp(e)
    BY <2>2, <2>3 DEF IsDp, Leaves, Stays
  <2> QED BY <1>2, <2>3, <2>4 DEF Answered, e, rs
<1> QED
  BY <1>1, <1>2

\* A message: no answer, an answer of one part, or the beginning of a dump.
LEMMA MessageIsHandled ==
    ASSUME NEW d, IsDp(d), NEW r \in Remotes, NEW m, Usable(m)
    PROVE  LET e == fwd_control_input(d, r, m)
               x == [type |-> "REPLY", xid |-> m.xid, part |-> 1, parts |-> 1]
           IN /\ Turns(d, e) /\ Uses(d, e, m)
              /\ \/ Answered(d, e, r, x)
                 \/ /\ IsDp(e) /\ Stays(d, e) /\ e.replies = d.replies /\ m.parts # 0
                    /\ e.dump = [d.dump EXCEPT ![r] = [xid |-> m.xid, part |-> 1, parts |-> m.parts]]
<1> DEFINE e == fwd_control_input(d, r, m)
           x == [type |-> "REPLY", xid |-> m.xid, part |-> 1, parts |-> 1]
           s == send_openflow_buffer(d, r, x)
           dump == [d.dump EXCEPT ![r] = [xid |-> m.xid, part |-> 1, parts |-> m.parts]]
<1>1. \A f : Turned(d, f, m) => Answered(d, f, r, x) /\ Turns(d, f) /\ Uses(d, f, m)
  BY DEF Turned, Quiet, Answered
<1>2. \A f : Leaves(d, f) => Turns(d, f) /\ Uses(d, f, m)
  BY DEF Turns, Uses, Leaves, Kept
<1>3. CASE m.type = "STATS_REQUEST" /\ m.parts # 0
  <2>1. e = [d EXCEPT !.dump = dump]
    BY <1>3 DEF fwd_control_input, recv_stats_request
  <2>2. dump \in [Remotes -> Dump]
    BY DEF IsDp, Dump, Usable
  <2> HIDE DEF e, dump
  <2>3. /\ DOMAIN e = DOMAIN d /\ e.dump = dump /\ e.replies = d.replies /\ e.flows = d.flows
        /\ e.buffer_idx = d.buffer_idx /\ Leaves(d, e) /\ Stays(d, e)
    BY <2>1 DEF IsDp, Leaves, Stays
  <2>4. IsDp(e)
    BY <2>2, <2>3 DEF IsDp, Leaves, Stays
  <2> QED BY <1>2, <1>3, <2>3, <2>4 DEF e, dump
<1>4. CASE m.type \in Asking
  <2>1. e = s
    BY <1>4 DEF fwd_control_input, Asking
  <2>2. x \in Reply
    BY DEF Reply, Usable
  <2>3. Answered(d, s, r, x) /\ Leaves(d, s)
    BY <2>2, ReplyIsSent
  <2> QED BY <1>2, <2>1, <2>3
<1>5. CASE m.type \notin Asking /\ (m.type = "STATS_REQUEST" => m.parts = 0)
  <2>1. Turned(d, d, m)
    BY LeavingTurns DEF Quiet, Stays, Leaves
  <2>2. Turned(d, send_openflow_buffer(d, r, [type |-> "ERROR"]), m)
    <3> DEFINE f == send_openflow_buffer(d, r, [type |-> "ERROR"])
    <3>1. Quiet(d, f) /\ Keeps(d, f) /\ f.used = d.used
      BY ErrorIsQuiet
    <3> HIDE DEF f
    <3>2. Turned(d, f, m)
      BY <3>1, KeepTurns DEF Turned, Uses
    <3> QED BY <3>2 DEF f
  <2>3. Turned(d, e, m)
    BY <1>5, <2>1, <2>2, PacketOutTurns, FlowModTurns, ConfigTurns
       DEF fwd_control_input, recv_stats_request, Asking
  <2> QED BY <1>1, <2>3
<1> QED
  BY <1>3, <1>4, <1>5 DEF Asking

-----------------------------------------------------------------------------
(* dp_run *)

\* The next part of a dump is sent; is lost, as there is no connection; or finds the dump
\* done; or the queue has no room.
Parted(d, e, r) ==
  LET at == d.dump[r]
      x == [type |-> "REPLY", xid |-> at.xid, part |-> at.part, parts |-> at.parts]
      more == [at EXCEPT !.part = @ + 1]
  IN /\ IsDp(e) /\ Stays(d, e)
     /\ \/ e.replies = d.replies /\ e.dump = d.dump
        \/ e.replies = d.replies /\ e.dump = [d.dump EXCEPT ![r] = NoDump] /\ at.part > at.parts
        \/ /\ ~d.connected[r] /\ ~(at.part > at.parts)
           /\ e.replies = d.replies /\ e.dump = [d.dump EXCEPT ![r] = more]
        \/ /\ d.connected[r] /\ ~(at.part > at.parts)
           /\ e.replies = [d.replies EXCEPT ![r] = Append(@, x)]
           /\ e.dump = [d.dump EXCEPT ![r] = IF at.part = at.parts THEN NoDump ELSE more]

\* A turn of a dump.
LEMMA PartIsSent ==
    ASSUME NEW d, IsDp(d), NEW r \in Remotes
    PROVE  Leaves(d, stats_dump(d, r)) /\ Parted(d, stats_dump(d, r), r)
<1> DEFINE at == d.dump[r]
           x == [type |-> "REPLY", xid |-> at.xid, part |-> at.part, parts |-> at.parts]
           more == [at EXCEPT !.part = @ + 1]
           s == send_openflow_buffer(d, r, x)
           next == IF at.part = at.parts /\ Sendable(d, r) THEN NoDump ELSE more
           e == stats_dump(d, r)
           limit == ~HasRoom(d, r)
\* A change of the dump alone.
<1>1. ASSUME NEW f, IsDp(f), NEW y \in Dump
      PROVE  LET g == [f EXCEPT !.dump[r] = y]
             IN IsDp(g) /\ Stays(f, g) /\ Leaves(f, g) /\ g.replies = f.replies /\ g.dump = [f.dump EXCEPT ![r] = y]
  <2> DEFINE dump == [f.dump EXCEPT ![r] = y]
             g == [f EXCEPT !.dump = dump]
  <2>1. dump \in [Remotes -> Dump]
    BY <1>1 DEF IsDp
  <2> HIDE DEF dump
  <2>2. /\ DOMAIN g = DOMAIN f /\ g.dump = dump /\ g.replies = f.replies /\ g.flows = f.flows
        /\ g.buffer_idx = f.buffer_idx /\ Leaves(f, g) /\ Stays(f, g)
    BY <1>1 DEF IsDp, Leaves, Stays
  <2> HIDE DEF g
  <2>3. IsDp(g)
    BY <1>1, <2>1, <2>2 DEF IsDp, Leaves, Stays
  <2> QED BY <2>2, <2>3 DEF g, dump
<1>2. at \in Dump
  BY DEF IsDp
<1>3. x \in Reply /\ NoDump \in Dump /\ more \in Dump
  BY <1>2 DEF Reply, Dump, NoDump
<1>4. CASE limit
  BY <1>4 DEF stats_dump, Parted, Stays, Leaves
<1>5. CASE ~limit /\ at.part > at.parts
  <2>1. e = [d EXCEPT !.dump[r] = NoDump]
    BY <1>5 DEF stats_dump
  <2> HIDE DEF e
  <2>2. /\ IsDp(e) /\ Stays(d, e) /\ Leaves(d, e) /\ e.replies = d.replies
        /\ e.dump = [d.dump EXCEPT ![r] = NoDump]
    BY <1>1, <1>3, <2>1
  <2> QED BY <1>5, <2>2 DEF Parted, e
<1>6. CASE ~limit /\ ~(at.part > at.parts)
  <2>1. e = [s EXCEPT !.dump[r] = next]
    BY <1>6 DEF stats_dump
  <2>2. Answered(d, s, r, x) /\ Leaves(d, s)
    BY <1>3, ReplyIsSent
  <2>3. /\ Sendable(d, r) => s.replies = [d.replies EXCEPT ![r] = Append(@, x)]
        /\ ~Sendable(d, r) => s = d
    BY <1>3, ReplyIsSent
  <2>4. next \in Dump
    BY <1>3
  <2>5. Sendable(d, r) <=> d.connected[r]
    BY <1>6 DEF Sendable
  <2> HIDE DEF s, next, e
  <2>6. /\ IsDp(e) /\ Stays(s, e) /\ Leaves(s, e) /\ e.replies = s.replies
        /\ e.dump = [s.dump EXCEPT ![r] = next]
    BY <1>1, <2>1, <2>2, <2>4 DEF Answered
  <2>7. Stays(d, e) /\ Leaves(d, e) /\ e.dump = [d.dump EXCEPT ![r] = next]
    BY <2>2, <2>6 DEF Answered, Stays, Leaves
  <2> HIDE DEF more
  <2>8. CASE d.connected[r]
    <3>1. next = IF at.part = at.parts THEN NoDump ELSE more
      BY <2>5, <2>8 DEF next
    <3> QED BY <1>6, <2>3, <2>5, <2>6, <2>7, <2>8, <3>1 DEF Parted, e, more
  <2>9. CASE ~d.connected[r]
    <3>1. next = more
      BY <2>5, <2>9 DEF next
    <3> QED BY <1>6, <2>3, <2>5, <2>6, <2>7, <2>9, <3>1 DEF Parted, e, more
  <2> QED BY <2>8, <2>9
<1> QED
  BY <1>4, <1>5, <1>6

\* Messages that are no replies, as many as there is room for.
LEMMA SendAllIsQuiet ==
    ASSUME NEW d, IsDp(d), NEW r, NEW ms
    PROVE  Quiet(d, SendAll(d, r, ms)) /\ Leaves(d, SendAll(d, r, ms))
<1> DEFINE room == IF d.connected[r] THEN Max({0, TxqLimit - Len(d.txq[r])}) ELSE 0
           q == [d.txq EXCEPT ![r] = @ \o SubSeq(ms, 1, Min({room, Len(ms)}))]
<1>1. SendAll(d, r, ms) = [d EXCEPT !.txq = q]
  BY DEF SendAll
<1> HIDE DEF room, q
<1> QED
  BY <1>1 DEF Quiet, Stays, IsDp, Leaves

\* The states of ports.
LEMMA StatusesAreQuiet ==
    ASSUME NEW d, IsDp(d)
    PROVE  Quiet(d, update_port_statuses(d)) /\ Leaves(d, update_port_statuses(d))
<1> DEFINE config == [p \in Ports |-> IF d.up[p] THEN d.config[p] \ {"PORT_DOWN"}
                                      ELSE d.config[p] \cup {"PORT_DOWN"}]
           link_down == [p \in Ports |-> ~d.carrier[p]]
           differ == {p \in Ports : config[p] # d.config[p] \/ link_down[p] # d.link_down[p]}
           order == SetToSeq(differ)
           ms == [i \in DOMAIN order |-> [type |-> "PORT_STATUS", port |-> order[i]]]
           e == [d EXCEPT !.config = config, !.link_down = link_down]
<1>1. update_port_statuses(d) = SendAll(e, Controller, ms)
  BY DEF update_port_statuses
<1> HIDE DEF config, link_down, ms
<1>2. Quiet(d, e) /\ Leaves(d, e)
  BY DEF Quiet, Stays, IsDp, Leaves
<1> HIDE DEF e
<1>3. Quiet(e, SendAll(e, Controller, ms)) /\ Leaves(e, SendAll(e, Controller, ms))
  BY <1>2, SendAllIsQuiet DEF Quiet
<1>4. Quiet(d, SendAll(e, Controller, ms)) /\ Leaves(d, SendAll(e, Controller, ms))
  BY <1>2, <1>3, QuietThenQuiet DEF Leaves
<1> QED
  BY <1>1, <1>4

\* A new second: packets grow old, and their buffers keep them.
Second(d, gone) ==
  SendAll([update_port_statuses(d) EXCEPT
             !.flows = @ \ gone,
             !.buffers = [i \in DOMAIN @ |-> [@[i] EXCEPT !.fresh = FALSE]]],
          Controller, [i \in 1..Cardinality(gone) |-> [type |-> "FLOW_EXPIRED"]])

LEMMA SecondIsQuiet ==
    ASSUME NEW d, IsDp(d), NEW gone
    PROVE  LET e == Second(d, gone)
           IN Quiet(d, e) /\ Keeps(d, e) /\ e.used = d.used
<1> DEFINE u == update_port_statuses(d)
           flows == u.flows \ gone
           buffers == [i \in DOMAIN u.buffers |-> [u.buffers[i] EXCEPT !.fresh = FALSE]]
           e == [u EXCEPT !.flows = flows, !.buffers = buffers]
           ms == [i \in 1..Cardinality(gone) |-> [type |-> "FLOW_EXPIRED"]]
           f == SendAll(e, Controller, ms)
<1>1. Quiet(d, u) /\ Leaves(d, u)
  BY StatusesAreQuiet
<1>2. e = [u EXCEPT !.flows = @ \ gone, !.buffers = [i \in DOMAIN @ |-> [@[i] EXCEPT !.fresh = FALSE]]]
  OBVIOUS
<1>3. \A x \in flows : Len(x.outs) \in Nat
  BY <1>1 DEF Quiet, IsDp
<1>4. /\ buffers \in [Slot -> Buffer]
      /\ \A i \in Slot : /\ buffers[i].cookie = d.buffers[i].cookie /\ buffers[i].pkt = d.buffers[i].pkt
                         /\ buffers[i].times = d.buffers[i].times
  <2>1. u.buffers = d.buffers /\ d.buffers \in [Slot -> Buffer]
    BY <1>1 DEF Leaves, IsDp
  <2>2. buffers = [i \in Slot |-> [d.buffers[i] EXCEPT !.fresh = FALSE]]
    BY <2>1
  <2>3. \A b \in Buffer : LET c == [b EXCEPT !.fresh = FALSE]
                          IN c \in Buffer /\ c.cookie = b.cookie /\ c.pkt = b.pkt /\ c.times = b.times
    BY DEF Buffer
  <2> HIDE DEF buffers
  <2> QED BY <2>1, <2>2, <2>3
<1> HIDE DEF u, flows, buffers
<1>5. Quiet(u, e) /\ e.buffers = buffers /\ e.told = u.told /\ e.used = u.used
  BY <1>1, <1>3, <1>4 DEF Quiet, Stays, IsDp
<1> HIDE DEF e
<1>6. Quiet(e, f) /\ Leaves(e, f)
  BY <1>5, SendAllIsQuiet DEF Quiet
<1> HIDE DEF f
<1>7. Quiet(d, f)
  BY <1>1, <1>5, <1>6, QuietThenQuiet
<1>8. Keeps(d, f) /\ f.used = d.used
  BY <1>1, <1>4, <1>5, <1>6 DEF Keeps, Kept, Leaves
<1> QED
  BY <1>2, <1>7, <1>8 DEF Second, u, f

-----------------------------------------------------------------------------
(* The replies and the dump of a remote, and the requests on their way *)

\* Replies rs, in order, of which only those to the request late may begin in the middle.
Whole(rs, late) ==
  \A i \in DOMAIN rs :
    IF rs[i].part = 1 THEN i > 1 => rs[i - 1].part = rs[i - 1].parts /\ rs[i - 1].xid < rs[i].xid
    ELSE IF i = 1 THEN rs[i].xid = late
    ELSE rs[i - 1].xid = rs[i].xid /\ rs[i - 1].part = rs[i].part - 1

\* The requests q are numbered in order, the last of all being n.
Numbered(q, n) ==
  /\ \A i \in 1..Len(q) : Usable(q[i]) /\ q[i].xid \in 1..n
  /\ \A i, j \in 1..Len(q) : i < j => q[i].xid < q[j].xid

\* The dump du answers a request older than those in q, and may have to find itself done.
Underway(du, q, n) ==
  du # NoDump => /\ du.xid \in 1..n /\ du.part \in 1..(du.parts + 1)
                 /\ \A i \in 1..Len(q) : du.xid < q[i].xid

\* The last reply is older than the requests in q, and is the last of its parts unless
\* the dump continues it.  A dump that has sent nothing on this connection and does not
\* begin is the one of the connection before.
LastReply(rs, du, q, n, late) ==
  LET last == rs[Len(rs)]
  IN /\ rs # <<>> => /\ last.xid \in 1..n
                     /\ \A i \in 1..Len(q) : last.xid < q[i].xid
                     /\ du = NoDump \/ du.part = 1 => last.part = last.parts
                     /\ du # NoDump /\ du.part = 1 => last.xid < du.xid
                     /\ du # NoDump => du.part <= du.parts
                     /\ du # NoDump /\ du.part > 1 => last.xid = du.xid /\ last.part = du.part - 1
     /\ rs = <<>> /\ du # NoDump /\ du.part > 1 => du.xid = late

Coherent(rs, du, q, n, late) ==
  Whole(rs, late) /\ Numbered(q, n) /\ Underway(du, q, n) /\ LastReply(rs, du, q, n, late)

\* There is no connection: nothing is sent or asked, and a dump is the one of the
\* connection before.
Cut(rs, du, q, late) == rs = <<>> /\ q = <<>> /\ (du # NoDump => du.xid = late)

\* A remote, with its requests q.
InOrder(d, r, q, n) ==
  /\ Coherent(d.replies[r], d.dump[r], q, n, d.late[r])
  /\ d.connected[r] \/ Cut(d.replies[r], d.dump[r], q, d.late[r])

\* A sequence, of whatever.
IsSeq(q) == \E S : q \in Seq(S)

\* Ids of buffers, and what is counted.
Ids == 0..(Slots * Cookies - 1)
Counted == packets \in Nat /\ requests \in Nat /\ DOMAIN reported = Ids

\* The inductive invariant.
IInv ==
  /\ IsDp(dp)
  /\ Counted
  /\ DOMAIN inbox = Remotes /\ inbox = [r \in Remotes |-> inbox[r]]
  /\ \A r \in Remotes : IsSeq(inbox[r]) /\ InOrder(dp, r, inbox[r], requests)

\* Replies in order have no gap.
LEMMA CoherentIsWhole ==
    IInv => RepliesWhole
  BY DEF IInv, InOrder, Coherent, Whole, RepliesWhole

\* Taking the first request.
LEMMA TailIsNumbered ==
    ASSUME NEW q, IsSeq(q), q # <<>>, NEW n \in Nat, Numbered(q, n)
    PROVE  /\ IsSeq(Tail(q)) /\ Numbered(Tail(q), n)
           /\ Usable(Head(q)) /\ Head(q).xid \in 1..n
           /\ \A i \in 1..Len(Tail(q)) : Head(q).xid < Tail(q)[i].xid
           /\ \A i \in 1..Len(Tail(q)) : \E j \in 1..Len(q) : Tail(q)[i] = q[j]
<1>1. PICK S : q \in Seq(S)
  BY DEF IsSeq
<1>2. /\ Tail(q) \in Seq(S) /\ Len(q) \in Nat /\ Len(q) >= 1
      /\ Len(Tail(q)) = Len(q) - 1 /\ Head(q) = q[1]
  BY <1>1
<1>3. \A i \in 1..Len(Tail(q)) : i \in 1..Len(q) /\ i + 1 \in 1..Len(q) /\ Tail(q)[i] = q[i + 1]
  BY <1>1, <1>2
<1>4. IsSeq(Tail(q))
  BY <1>2 DEF IsSeq
<1>5. 1 \in 1..Len(q)
  BY <1>2
<1>6. Usable(Head(q)) /\ Head(q).xid \in 1..n
  BY <1>2, <1>5 DEF Numbered
<1>7. ASSUME NEW i \in 1..Len(Tail(q)) PROVE Head(q).xid < Tail(q)[i].xid
  <2>1. 1 < i + 1 /\ i + 1 \in 1..Len(q) /\ Tail(q)[i] = q[i + 1]
    BY <1>2, <1>3
  <2>2. q[1].xid < q[i + 1].xid
    BY <1>5, <2>1 DEF Numbered
  <2> QED BY <1>2, <2>1, <2>2
<1>8. Numbered(Tail(q), n)
  <2>1. ASSUME NEW i \in 1..Len(Tail(q)) PROVE Usable(Tail(q)[i]) /\ Tail(q)[i].xid \in 1..n
    BY <1>3 DEF Numbered
  <2>2. ASSUME NEW i \in 1..Len(Tail(q)), NEW j \in 1..Len(Tail(q)), i < j
        PROVE  Tail(q)[i].xid < Tail(q)[j].xid
    <3>1. i + 1 < j + 1 /\ i + 1 \in 1..Len(q) /\ j + 1 \in 1..Len(q)
      BY <1>2, <1>3, <2>2
    <3>2. q[i + 1].xid < q[j + 1].xid
      BY <3>1 DEF Numbered
    <3> QED BY <1>3, <3>2
  <2> QED BY <2>1, <2>2 DEF Numbered
<1> QED
  BY <1>3, <1>4, <1>6, <1>7, <1>8

\* A request is read, and answered by nothing.
LEMMA ReadKeepsCoherent ==
    ASSUME NEW rs \in Seq(Reply), NEW q, IsSeq(q), q # <<>>, NEW n \in Nat, NEW late,
           Coherent(rs, NoDump, q, n, late)
    PROVE  Coherent(rs, NoDump, Tail(q), n, late)
<1>1. Numbered(q, n)
  BY DEF Coherent
<1>2. /\ Numbered(Tail(q), n)
      /\ \A i \in 1..Len(Tail(q)) : \E j \in 1..Len(q) : Tail(q)[i] = q[j]
  BY <1>1, TailIsNumbered
<1>3. LastReply(rs, NoDump, Tail(q), n, late)
  BY <1>2 DEF Coherent, LastReply
<1> QED
  BY <1>2, <1>3 DEF Coherent, Underway

\* A reply in order after the others.
LEMMA AppendKeepsWhole ==
    ASSUME NEW rs \in Seq(Reply), NEW late, Whole(rs, late), NEW x \in Reply,
           LET last == rs[Len(rs)]
           IN rs # <<>> => IF x.part = 1 THEN last.part = last.parts /\ last.xid < x.xid
                           ELSE last.xid = x.xid /\ last.part = x.part - 1,
           rs = <<>> => x.part = 1 \/ x.xid = late
    PROVE  Whole(Append(rs, x), late)
<1> DEFINE t == Append(rs, x)
<1>1. /\ t \in Seq(Reply) /\ Len(rs) \in Nat /\ Len(t) = Len(rs) + 1
      /\ t[Len(rs) + 1] = x /\ \A i \in 1..Len(rs) : t[i] = rs[i]
      /\ rs = <<>> <=> Len(rs) = 0
  OBVIOUS
<1> HIDE DEF t
<1>2. ASSUME NEW i \in DOMAIN t
      PROVE  IF t[i].part = 1 THEN i > 1 => t[i - 1].part = t[i - 1].parts /\ t[i - 1].xid < t[i].xid
             ELSE IF i = 1 THEN t[i].xid = late
             ELSE t[i - 1].xid = t[i].xid /\ t[i - 1].part = t[i].part - 1
  <2>1. i \in 1..(Len(rs) + 1) /\ (i # 1 => i - 1 \in 1..Len(rs))
    BY <1>1
  <2>2. i # 1 => t[i - 1] = rs[i - 1]
    BY <1>1, <2>1
  <2>3. CASE i = Len(rs) + 1
    <3>1. t[i] = x /\ (i # 1 => rs # <<>> /\ t[i - 1] = rs[Len(rs)]) /\ (i = 1 => rs = <<>>)
      BY <1>1, <2>1, <2>2, <2>3
    <3> QED BY <2>1, <3>1
  <2>4. CASE i # Len(rs) + 1
    <3>1. i \in DOMAIN rs /\ t[i] = rs[i]
      BY <1>1, <2>1, <2>4
    <3> QED BY <2>1, <2>2, <3>1 DEF Whole
  <2> QED BY <2>3, <2>4
<1> QED
  BY <1>2 DEF Whole, t

\* A request is read, and answered at once.
LEMMA AnswerKeepsCoherent ==
    ASSUME NEW rs \in Seq(Reply), NEW q, IsSeq(q), q # <<>>, NEW n \in Nat, NEW late,
           Coherent(rs, NoDump, q, n, late), NEW x \in Reply,
           x.xid = Head(q).xid, x.part = 1, x.parts = 1
    PROVE  Coherent(Append(rs, x), NoDump, Tail(q), n, late)
<1>1. Numbered(q, n) /\ Whole(rs, late) /\ LastReply(rs, NoDump, q, n, late)
  BY DEF Coherent
<1>2. /\ Numbered(Tail(q), n) /\ x.xid \in 1..n
      /\ \A i \in 1..Len(Tail(q)) : x.xid < Tail(q)[i].xid
  BY <1>1, TailIsNumbered
<1>3. 1 \in 1..Len(q) /\ Head(q) = q[1]
  BY DEF IsSeq
<1>4. Whole(Append(rs, x), late)
  <2>1. rs # <<>> => rs[Len(rs)].part = rs[Len(rs)].parts /\ rs[Len(rs)].xid < x.xid
    BY <1>1, <1>3 DEF LastReply
  <2> QED BY <1>1, <2>1, AppendKeepsWhole
<1>5. Append(rs, x) # <<>> /\ Append(rs, x)[Len(Append(rs, x))] = x
  OBVIOUS
<1>6. LastReply(Append(rs, x), NoDump, Tail(q), n, late)
  BY <1>2, <1>5 DEF LastReply
<1> QED
  BY <1>2, <1>4, <1>6 DEF Coherent, Underway

\* A request is read that begins a dump.
LEMMA StartKeepsCoherent ==
    ASSUME NEW rs \in Seq(Reply), NEW q, IsSeq(q), q # <<>>, NEW n \in Nat, NEW late,
           Coherent(rs, NoDump, q, n, late), Head(q).parts # 0
    PROVE  Coherent(rs, [xid |-> Head(q).xid, part |-> 1, parts |-> Head(q).parts], Tail(q), n, late)
<1> DEFINE du == [xid |-> Head(q).xid, part |-> 1, parts |-> Head(q).parts]
<1>1. Numbered(q, n) /\ Whole(rs, late) /\ LastReply(rs, NoDump, q, n, late)
  BY DEF Coherent
<1>2. /\ Numbered(Tail(q), n) /\ Usable(Head(q)) /\ Head(q).xid \in 1..n
      /\ \A i \in 1..Len(Tail(q)) : Head(q).xid < Tail(q)[i].xid
      /\ \A i \in 1..Len(Tail(q)) : \E j \in 1..Len(q) : Tail(q)[i] = q[j]
  BY <1>1, TailIsNumbered
<1>3. 1 \in 1..Len(q) /\ Head(q) = q[1]
  BY DEF IsSeq
<1>4. du.xid = Head(q).xid /\ du.part = 1 /\ du.parts \in Nat \ {0}
  BY <1>2 DEF Usable
<1> HIDE DEF du
<1>5. Underway(du, Tail(q), n)
  BY <1>2, <1>4 DEF Underway
<1>6. LastReply(rs, du, Tail(q), n, late)
  BY <1>1, <1>2, <1>3, <1>4 DEF LastReply
<1> QED
  BY <1>1, <1>2, <1>5, <1>6 DEF Coherent, du

\* The next part of a dump, one that it has.
LEMMA PartKeepsCoherent ==
    ASSUME NEW rs \in Seq(Reply), NEW du \in Dump, du # NoDump, ~(du.part > du.parts),
           NEW q, NEW n \in Nat, NEW late, Coherent(rs, du, q, n, late)
    PROVE  Coherent(Append(rs, [type |-> "REPLY", xid |-> du.xid, part |-> du.part, parts |-> du.parts]),
                    IF du.part = du.parts THEN NoDump ELSE [du EXCEPT !.part = @ + 1], q, n, late)
<1> DEFINE x == [type |-> "REPLY", xid |-> du.xid, part |-> du.part, parts |-> du.parts]
           more == [du EXCEPT !.part = @ + 1]
           next == IF du.part = du.parts THEN NoDump ELSE more
           t == Append(rs, x)
<1>1. Numbered(q, n) /\ Whole(rs, late) /\ LastReply(rs, du, q, n, late) /\ Underway(du, q, n)
  BY DEF Coherent
<1>2. /\ du.xid \in 1..n /\ du.part \in 1..du.parts /\ du.parts \in Nat /\ du.part \in Nat
      /\ \A i \in 1..Len(q) : du.xid < q[i].xid
  BY <1>1 DEF Underway, Dump
<1>3. x \in Reply /\ x.xid = du.xid /\ x.part = du.part /\ x.parts = du.parts
  BY DEF Reply, Dump
<1>4. more.xid = du.xid /\ more.part = du.part + 1 /\ more.parts = du.parts
  BY DEF Dump
<1> HIDE DEF x, more
<1>5. Whole(t, late)
  <2>1. rs # <<>> => IF x.part = 1 THEN rs[Len(rs)].part = rs[Len(rs)].parts /\ rs[Len(rs)].xid < x.xid
                     ELSE rs[Len(rs)].xid = x.xid /\ rs[Len(rs)].part = x.part - 1
    BY <1>1, <1>2, <1>3 DEF LastReply
  <2>2. rs = <<>> => x.part = 1 \/ x.xid = late
    BY <1>1, <1>2, <1>3 DEF LastReply
  <2> QED BY <1>1, <1>3, <2>1, <2>2, AppendKeepsWhole
<1>6. t # <<>> /\ t[Len(t)] = x
  BY <1>3
<1> HIDE DEF t
<1>7. ASSUME du.part = du.parts PROVE Coherent(t, NoDump, q, n, late)
  <2>1. LastReply(t, NoDump, q, n, late)
    BY <1>2, <1>3, <1>6, <1>7 DEF LastReply
  <2>2. Underway(NoDump, q, n)
    BY DEF Underway
  <2> QED BY <1>1, <1>5, <2>1, <2>2 DEF Coherent
<1>8. ASSUME du.part # du.parts PROVE Coherent(t, more, q, n, late)
  <2>1. more.part > 1 /\ more.part - 1 = du.part /\ more # NoDump /\ more.part <= more.parts
    BY <1>2, <1>4, <1>8 DEF NoDump
  <2>2. LastReply(t, more, q, n, late)
    BY <1>2, <1>3, <1>4, <1>6, <2>1 DEF LastReply
  <2>3. Underway(more, q, n)
    BY <1>2, <1>4, <1>8 DEF Underway
  <2> QED BY <1>1, <1>5, <2>2, <2>3 DEF Coherent
<1>9. Coherent(t, next, q, n, late)
  BY <1>7, <1>8
<1> QED
  BY <1>9 DEF t, x, more

\* A dump that finds itself done.
LEMMA DoneKeepsCoherent ==
    ASSUME NEW rs, NEW du \in Dump, du # NoDump, du.part > du.parts,
           NEW q, NEW n \in Nat, NEW late, Coherent(rs, du, q, n, late)
    PROVE  Coherent(rs, NoDump, q, n, late)
<1>1. rs = <<>>
  BY DEF Coherent, LastReply, Dump
<1> QED
  BY <1>1 DEF Coherent, Underway, LastReply

\* The next part of a dump is lost, as there is no connection.
LEMMA LostKeepsCoherent ==
    ASSUME NEW rs, NEW du \in Dump, du # NoDump, ~(du.part > du.parts),
           NEW q, NEW n \in Nat, NEW late, Coherent(rs, du, q, n, late), Cut(rs, du, q, late)
    PROVE  /\ Coherent(rs, [du EXCEPT !.part = @ + 1], q, n, late)
           /\ Cut(rs, [du EXCEPT !.part = @ + 1], q, late)
<1> DEFINE more == [du EXCEPT !.part = @ + 1]
<1>1. /\ du.xid \in 1..n /\ du.part \in 1..du.parts /\ du.parts \in Nat /\ du.part \in Nat
      /\ \A i \in 1..Len(q) : du.xid < q[i].xid
  BY DEF Coherent, Underway, Dump
<1>2. more.xid = du.xid /\ more.part = du.part + 1 /\ more.parts = du.parts
  BY DEF Dump
<1> HIDE DEF more
<1>3. Underway(more, q, n)
  BY <1>1, <1>2 DEF Underway
<1>4. rs = <<>> /\ q = <<>> /\ du.xid = late
  BY DEF Cut
<1>5. LastReply(rs, more, q, n, late) /\ Cut(rs, more, q, late)
  BY <1>2, <1>4 DEF LastReply, Cut
<1> QED
  BY <1>3, <1>5 DEF Coherent, more

\* A remote asks something.
LEMMA AskKeepsCoherent ==
    ASSUME NEW rs \in Seq(Reply), NEW du \in Dump, NEW q, IsSeq(q), NEW n \in Nat, NEW late,
           Coherent(rs, du, q, n, late), NEW m, Usable(m), m.xid = n + 1
    PROVE  IsSeq(Append(q, m)) /\ Coherent(rs, du, Append(q, m), n + 1, late)
<1> DEFINE t == Append(q, m)
<1>1. PICK S : q \in Seq(S)
  BY DEF IsSeq
<1>2. /\ t \in Seq(S \cup {m}) /\ Len(q) \in Nat /\ Len(t) = Len(q) + 1
      /\ t[Len(q) + 1] = m /\ \A i \in 1..Len(q) : t[i] = q[i]
  <2>1. q \in Seq(S \cup {m})
    BY <1>1
  <2> QED BY <2>1
<1> HIDE DEF t
<1>3. \A i \in 1..Len(t) : i \in 1..Len(q) \/ i = Len(q) + 1
  BY <1>2
<1>4. Numbered(q, n)
  BY DEF Coherent
<1>5. \A x \in 1..n : x \in 1..(n + 1) /\ x < n + 1
  OBVIOUS
<1>6. Numbered(t, n + 1)
  <2>1. ASSUME NEW i \in 1..Len(t) PROVE Usable(t[i]) /\ t[i].xid \in 1..(n + 1)
    BY <1>2, <1>3, <1>4, <1>5 DEF Numbered
  <2>2. ASSUME NEW i \in 1..Len(t), NEW j \in 1..Len(t), i < j PROVE t[i].xid < t[j].xid
    <3>1. i \in 1..Len(q)
      BY <1>2, <2>2
    <3>2. CASE j \in 1..Len(q)
      BY <1>2, <1>4, <2>2, <3>1, <3>2 DEF Numbered
    <3>3. CASE j = Len(q) + 1
      BY <1>2, <1>4, <1>5, <3>1, <3>3 DEF Numbered
    <3> QED BY <1>3, <3>2, <3>3
  <2> QED BY <2>1, <2>2 DEF Numbered
<1>7. Underway(du, t, n + 1)
  BY <1>2, <1>3, <1>5 DEF Coherent, Underway
<1>8. LastReply(rs, du, t, n + 1, late)
  BY <1>2, <1>3, <1>5 DEF Coherent, LastReply
<1> QED
  BY <1>2, <1>6, <1>7, <1>8 DEF Coherent, IsSeq, t

\* Another remote asks something.
LEMMA OtherAskKeepsCoherent ==
    ASSUME NEW rs, NEW du, NEW q, NEW n \in Nat, NEW late, Coherent(rs, du, q, n, late)
    PROVE  Coherent(rs, du, q, n + 1, late)
<1>1. \A x \in 1..n : x \in 1..(n + 1)
  OBVIOUS
<1> QED
  BY <1>1 DEF Coherent, Numbered, Underway, LastReply

-----------------------------------------------------------------------------
(* Every step *)

\* Steps count what happens, and what is reported has an id of a buffer.
LEMMA CountStep ==
    ASSUME Counted, [Next]_vars
    PROVE  Counted'
<1>1. ASSUME NEW d, Does(d) PROVE DOMAIN reported' = DOMAIN reported
  <2> DEFINE At(id) == {i \in DOMAIN dp'.told : dp'.told[i].id = id}
             New(id) == IF At(id) = {} THEN reported[id]
                        ELSE [pkt |-> dp'.told[Max(At(id))].pkt, at |-> dp'.told[Max(At(id))].at]
  <2>1. reported' = [id \in DOMAIN reported |-> New(id)]
    BY <1>1 DEF Does
  <2> HIDE DEF New
  <2> QED BY <2>1
<1>2. CASE Timeout
  BY <1>1, <1>2 DEF Timeout, Counted
<1>3. ASSUME NEW p \in Ports, PortInput(p) PROVE Counted'
  BY <1>1, <1>3 DEF PortInput, Counted
<1>4. ASSUME NEW r \in Remotes, remote_run(r) PROVE Counted'
  BY <1>1, <1>4 DEF remote_run, Counted
<1>5. ASSUME NEW r \in Remotes, Asks(r) PROVE Counted'
  BY <1>5 DEF Asks, Counted
<1>6. ASSUME NEW p \in Ports, DeviceChanges(p) PROVE Counted'
  BY <1>6 DEF DeviceChanges, Counted
<1>7. ASSUME NEW r \in Remotes, Drains(r) \/ remote_destroy(r) PROVE Counted'
  BY <1>7 DEF Drains, remote_destroy, Counted
<1>8. CASE Connects \/ Disconnects
  BY <1>8 DEF Connects, Disconnects, Counted
<1>9. CASE UNCHANGED vars
  BY <1>9 DEF vars, Counted
<1> QED
  BY <1>2, <1>3, <1>4, <1>5, <1>6, <1>7, <1>8, <1>9 DEF Next

\* A step that sends no reply, and reads nothing.
LEMMA QuietStep ==
    ASSUME IInv, Quiet(dp, dp'), UNCHANGED <<inbox, requests>>, Counted'
    PROVE  IInv'
  BY DEF IInv, InOrder, Quiet, Stays

\* A step for one remote.
LEMMA RemoteStep ==
    ASSUME IInv, NEW r \in Remotes, NEW q, IsDp(dp'), requests' = requests,
           inbox' = [inbox EXCEPT ![r] = q], IsSeq(q),
           \A s \in Remotes \ {r} : /\ dp'.replies[s] = dp.replies[s] /\ dp'.dump[s] = dp.dump[s]
                                    /\ dp'.connected[s] = dp.connected[s] /\ dp'.late[s] = dp.late[s],
           InOrder(dp', r, q, requests), Counted'
    PROVE  IInv'
<1>1. DOMAIN inbox' = Remotes /\ inbox' = [s \in Remotes |-> inbox'[s]]
  BY DEF IInv
<1>2. inbox'[r] = q /\ \A s \in Remotes \ {r} : inbox'[s] = inbox[s]
  BY DEF IInv
<1>3. ASSUME NEW s \in Remotes
      PROVE  IsSeq(inbox'[s]) /\ InOrder(dp', s, inbox'[s], requests)
  <2>1. CASE s = r
    BY <1>2, <2>1
  <2>2. CASE s # r
    <3>1. IsSeq(inbox[s]) /\ InOrder(dp, s, inbox[s], requests)
      BY DEF IInv
    <3> QED BY <1>2, <2>2, <3>1 DEF InOrder
  <2> QED BY <2>1, <2>2
<1> QED
  BY <1>1, <1>3 DEF IInv

\* What a turn begins with.
LEMMA FreshDp ==
    ASSUME IInv
    PROVE  /\ Quiet(dp, Fresh) /\ IsDp(Fresh) /\ Stays(dp, Fresh)
           /\ Fresh.replies = dp.replies /\ Fresh.dump = dp.dump
           /\ Fresh.buffers = dp.buffers /\ Fresh.told = <<>> /\ Fresh.used = NoUse
<1>1. <<>> \in Seq(Report)
  OBVIOUS
<1> QED
  BY <1>1 DEF IInv, Quiet, Stays, IsDp, Fresh

\* A turn of the dump of a remote.
LEMMA DumpStep ==
    ASSUME IInv, NEW r \in Remotes, Busy(dp, r), dp' = stats_dump(Fresh, r), inbox' = inbox,
           requests' = requests, Counted'
    PROVE  IInv'
<1> DEFINE rs == dp.replies[r]
           du == dp.dump[r]
           q == inbox[r]
           late == dp.late[r]
           x == [type |-> "REPLY", xid |-> du.xid, part |-> du.part, parts |-> du.parts]
           more == [du EXCEPT !.part = @ + 1]
           last == IF du.part = du.parts THEN NoDump ELSE more
<1>1. /\ IsDp(Fresh) /\ Fresh.replies = dp.replies /\ Fresh.dump = dp.dump /\ Stays(dp, Fresh)
      /\ rs \in Seq(Reply) /\ du \in Dump /\ du # NoDump /\ requests \in Nat
      /\ dp.replies \in [Remotes -> Seq(Reply)] /\ dp.dump \in [Remotes -> Dump]
  BY FreshDp DEF IInv, IsDp, Counted, Busy
<1>2. /\ IsSeq(q) /\ Coherent(rs, du, q, requests, late)
      /\ dp.connected[r] \/ Cut(rs, du, q, late)
  BY DEF IInv, InOrder
<1>3. Parted(dp, dp', r)
  <2> DEFINE f == Fresh
             e == stats_dump(f, r)
  <2>1. IsDp(f) /\ f.replies = dp.replies /\ f.dump = dp.dump /\ Stays(dp, f) /\ dp' = e
    BY <1>1
  <2> HIDE DEF f
  <2>2. Parted(f, e, r)
    BY <2>1, PartIsSent
  <2> HIDE DEF e
  <2> QED BY <2>1, <2>2 DEF Parted, Stays
<1>4. IsDp(dp') /\ Stays(dp, dp')
  BY <1>3 DEF Parted
<1>5. \/ dp'.replies = dp.replies /\ dp'.dump = dp.dump
      \/ /\ <<dp'.replies[r], dp'.dump[r]>> = <<rs, NoDump>> /\ du.part > du.parts
         /\ \A s \in Remotes \ {r} : dp'.replies[s] = dp.replies[s] /\ dp'.dump[s] = dp.dump[s]
      \/ /\ <<dp'.replies[r], dp'.dump[r]>> = <<rs, more>> /\ ~(du.part > du.parts) /\ ~ dp.connected[r]
         /\ \A s \in Remotes \ {r} : dp'.replies[s] = dp.replies[s] /\ dp'.dump[s] = dp.dump[s]
      \/ /\ <<dp'.replies[r], dp'.dump[r]>> = <<Append(rs, x), last>> /\ ~(du.part > du.parts) /\ dp.connected[r]
         /\ \A s \in Remotes \ {r} : dp'.replies[s] = dp.replies[s] /\ dp'.dump[s] = dp.dump[s]
  <2> HIDE DEF more, x
  <2> QED BY <1>1, <1>3 DEF Parted, more, x
<1> HIDE DEF x, more, last
<1>6. CASE dp'.replies = dp.replies /\ dp'.dump = dp.dump
  BY <1>4, <1>6, QuietStep DEF Quiet
<1>7. ASSUME \A s \in Remotes \ {r} : dp'.replies[s] = dp.replies[s] /\ dp'.dump[s] = dp.dump[s],
             Coherent(dp'.replies[r], dp'.dump[r], q, requests, late),
             dp.connected[r] \/ Cut(dp'.replies[r], dp'.dump[r], q, late)
      PROVE  IInv'
  <2>1. inbox' = [inbox EXCEPT ![r] = q]
    BY DEF IInv
  <2>2. InOrder(dp', r, q, requests)
    BY <1>4, <1>7 DEF InOrder, Stays
  <2>3. \A s \in Remotes \ {r} : /\ dp'.replies[s] = dp.replies[s] /\ dp'.dump[s] = dp.dump[s]
                                 /\ dp'.connected[s] = dp.connected[s] /\ dp'.late[s] = dp.late[s]
    BY <1>4, <1>7 DEF Stays
  <2> HIDE DEF q
  <2> QED BY <1>2, <1>4, <2>1, <2>2, <2>3, RemoteStep
<1>8. CASE /\ <<dp'.replies[r], dp'.dump[r]>> = <<rs, NoDump>> /\ du.part > du.parts
           /\ \A s \in Remotes \ {r} : dp'.replies[s] = dp.replies[s] /\ dp'.dump[s] = dp.dump[s]
  <2>1. Coherent(rs, NoDump, q, requests, late)
    BY <1>1, <1>2, <1>8, DoneKeepsCoherent
  <2>2. dp.connected[r] \/ Cut(rs, NoDump, q, late)
    BY <1>2 DEF Cut
  <2> QED BY <1>7, <1>8, <2>1, <2>2
<1>9. CASE /\ <<dp'.replies[r], dp'.dump[r]>> = <<rs, more>> /\ ~(du.part > du.parts) /\ ~ dp.connected[r]
           /\ \A s \in Remotes \ {r} : dp'.replies[s] = dp.replies[s] /\ dp'.dump[s] = dp.dump[s]
  <2>1. Coherent(rs, more, q, requests, late) /\ Cut(rs, more, q, late)
    BY <1>1, <1>2, <1>9, LostKeepsCoherent DEF more
  <2> QED BY <1>7, <1>9, <2>1
<1>10. CASE /\ <<dp'.replies[r], dp'.dump[r]>> = <<Append(rs, x), last>> /\ ~(du.part > du.parts) /\ dp.connected[r]
            /\ \A s \in Remotes \ {r} : dp'.replies[s] = dp.replies[s] /\ dp'.dump[s] = dp.dump[s]
  <2>1. Coherent(Append(rs, x), last, q, requests, late)
    BY <1>1, <1>2, <1>10, PartKeepsCoherent DEF x, last, more
  <2> QED BY <1>7, <1>10, <2>1
<1> QED
  BY <1>5, <1>6, <1>8, <1>9, <1>10

\* A message of a remote is read.
LEMMA ReadStep ==
    ASSUME IInv, NEW r \in Remotes, ~ Busy(dp, r), inbox[r] # <<>>,
           dp' = fwd_control_input(Fresh, r, Head(inbox[r])),
           inbox' = [inbox EXCEPT ![r] = Tail(@)], requests' = requests, Counted'
    PROVE  IInv'
<1> DEFINE rs == dp.replies[r]
           q == inbox[r]
           late == dp.late[r]
           m == Head(q)
           x == [type |-> "REPLY", xid |-> m.xid, part |-> 1, parts |-> 1]
           start == [xid |-> m.xid, part |-> 1, parts |-> m.parts]
           e == fwd_control_input(Fresh, r, m)
<1>1. /\ IsDp(Fresh) /\ Fresh.replies = dp.replies /\ Fresh.dump = dp.dump /\ Stays(dp, Fresh)
      /\ rs \in Seq(Reply) /\ dp.dump[r] = NoDump /\ requests \in Nat
      /\ dp.replies \in [Remotes -> Seq(Reply)] /\ dp.dump \in [Remotes -> Dump]
  BY FreshDp DEF IInv, IsDp, Counted, Busy
<1>2. IsSeq(q) /\ Coherent(rs, NoDump, q, requests, late) /\ dp.connected[r]
  BY <1>1 DEF IInv, InOrder, Cut
<1>3. IsSeq(Tail(q)) /\ Usable(m)
  BY <1>1, <1>2, TailIsNumbered DEF Coherent
<1>4. inbox' = [inbox EXCEPT ![r] = Tail(q)] /\ dp' = e
  OBVIOUS
<1>5. \/ Answered(Fresh, e, r, x)
      \/ /\ IsDp(e) /\ Stays(Fresh, e) /\ e.replies = dp.replies /\ m.parts # 0
         /\ e.dump = [dp.dump EXCEPT ![r] = start]
  BY <1>1, <1>3, MessageIsHandled
<1>6. x \in Reply /\ x.xid = m.xid /\ x.part = 1 /\ x.parts = 1
  BY <1>3 DEF Reply, Usable
<1>7. /\ Coherent(rs, NoDump, Tail(q), requests, late)
      /\ Coherent(Append(rs, x), NoDump, Tail(q), requests, late)
      /\ m.parts # 0 => Coherent(rs, start, Tail(q), requests, late)
  BY <1>1, <1>2, <1>6, ReadKeepsCoherent, AnswerKeepsCoherent, StartKeepsCoherent
<1> HIDE DEF e, x, start, m
<1>8. /\ IsDp(dp') /\ Stays(dp, dp')
      /\ \/ dp'.dump = dp.dump /\ dp'.replies = dp.replies
         \/ dp'.dump = dp.dump /\ dp'.replies = [dp.replies EXCEPT ![r] = Append(@, x)]
         \/ dp'.replies = dp.replies /\ dp'.dump = [dp.dump EXCEPT ![r] = start] /\ m.parts # 0
  BY <1>1, <1>4, <1>5 DEF Answered, Stays
<1>9. /\ \A s \in Remotes \ {r} : /\ dp'.replies[s] = dp.replies[s] /\ dp'.dump[s] = dp.dump[s]
                                  /\ dp'.connected[s] = dp.connected[s] /\ dp'.late[s] = dp.late[s]
      /\ \/ <<dp'.replies[r], dp'.dump[r]>> \in {<<rs, NoDump>>, <<Append(rs, x), NoDump>>}
         \/ <<dp'.replies[r], dp'.dump[r]>> = <<rs, start>> /\ m.parts # 0
  BY <1>1, <1>8 DEF Stays
<1>10. InOrder(dp', r, Tail(q), requests)
  BY <1>2, <1>7, <1>8, <1>9 DEF InOrder, Stays
<1> QED
  BY <1>3, <1>4, <1>8, <1>9, <1>10, RemoteStep

\* A turn of a remote.
LEMMA RunStep ==
    ASSUME IInv, NEW r \in Remotes, remote_run(r), Counted'
    PROVE  IInv'
  BY DumpStep, ReadStep DEF remote_run, Does

\* A remote asks.
LEMMA AskStep ==
    ASSUME IInv, NEW r \in Remotes, Asks(r), Counted'
    PROVE  IInv'
<1>1. PICK m \in Requests[r], id \in {NoId} \cup {i \in DOMAIN reported : reported[i] # NoReport} :
        inbox' = [inbox EXCEPT ![r] = Append(@,
          [m EXCEPT !.xid = requests + 1, !.id = id, !.meant = IF id = NoId THEN NoReport ELSE reported[id]])]
  BY Zenon DEF Asks
<1> DEFINE meant == IF id = NoId THEN NoReport ELSE reported[id]
           n == [m EXCEPT !.xid = requests + 1, !.id = id, !.meant = meant]
<1>2. inbox' = [inbox EXCEPT ![r] = Append(@, n)] /\ requests' = requests + 1 /\ dp' = Fresh /\ dp.connected[r]
  BY <1>1 DEF Asks
<1> HIDE DEF meant
<1>3. /\ n.xid = requests + 1 /\ n.outs = m.outs /\ n.parts = m.parts
      /\ n.n = m.n /\ n.in = m.in /\ n.id = id
  BY DatapathAssumption
<1>4. Usable(n) /\ n.xid = requests + 1
  <2>1. id \in Nat \cup {NoId}
    <3>1. DOMAIN reported \subseteq Nat
      BY DatapathAssumption DEF IInv, Counted, Ids
    <3> QED BY <3>1
  <2>2. m.n \in Nat \ {0} /\ m.in \in Nat /\ Len(m.outs) \in Nat /\ m.parts \in Nat
    <3>1. /\ m.n \in Nat \ {0} /\ m.in \in PortNumbers \cup {None}
          /\ Len(m.outs) \in Nat /\ m.parts \in Nat
      BY Zenon, DatapathAssumption
    <3>2. PortNumbers \subseteq Nat /\ None \in Nat
      BY DEF PortNumbers, None
    <3>3. m.in \in Nat
      BY <3>1, <3>2
    <3> QED BY <3>1, <3>3
  <2>3. requests + 1 \in Nat
    BY DEF IInv, Counted
  <2> HIDE DEF n
  <2> QED BY <1>3, <2>1, <2>2, <2>3 DEF Usable
<1> HIDE DEF n
<1>5. /\ DOMAIN inbox' = Remotes /\ inbox' = [s \in Remotes |-> inbox'[s]]
      /\ inbox'[r] = Append(inbox[r], n) /\ \A s \in Remotes \ {r} : inbox'[s] = inbox[s]
  BY <1>2 DEF IInv
<1>6. ASSUME NEW s \in Remotes
      PROVE  IsSeq(inbox'[s]) /\ InOrder(dp', s, inbox'[s], requests')
  <2>1. /\ dp.replies[s] \in Seq(Reply) /\ dp.dump[s] \in Dump /\ requests \in Nat
        /\ IsSeq(inbox[s]) /\ Coherent(dp.replies[s], dp.dump[s], inbox[s], requests, dp.late[s])
        /\ dp.connected[s] \/ Cut(dp.replies[s], dp.dump[s], inbox[s], dp.late[s])
    BY DEF IInv, IsDp, Counted, InOrder
  <2>2. /\ dp'.replies = dp.replies /\ dp'.dump = dp.dump
        /\ dp'.connected = dp.connected /\ dp'.late = dp.late
    BY <1>2, FreshDp DEF Stays
  <2>3. CASE s = r
    <3>1. /\ IsSeq(Append(inbox[s], n))
          /\ Coherent(dp.replies[s], dp.dump[s], Append(inbox[s], n), requests + 1, dp.late[s])
      BY <1>4, <2>1, AskKeepsCoherent
    <3> QED BY <1>2, <1>5, <2>2, <2>3, <3>1 DEF InOrder
  <2>4. CASE s # r
    <3>1. Coherent(dp.replies[s], dp.dump[s], inbox[s], requests + 1, dp.late[s])
      BY <2>1, OtherAskKeepsCoherent
    <3> QED BY <1>2, <1>5, <2>1, <2>2, <2>4, <3>1 DEF InOrder
  <2> QED BY <2>3, <2>4
<1>7. IsDp(dp')
  BY <1>2, FreshDp
<1> QED
  BY <1>5, <1>6, <1>7 DEF IInv

\* A connection without replies, requests and dumps.
LEMMA NothingIsInOrder ==
    ASSUME NEW late
    PROVE  IsSeq(<<>>) /\ Coherent(<<>>, NoDump, <<>>, requests, late) /\ Cut(<<>>, NoDump, <<>>, late)
<1>1. <<>> \in Seq({})
  OBVIOUS
<1> QED
  BY <1>1 DEF IsSeq, Coherent, Whole, Numbered, Underway, LastReply, Cut

\* A remote goes away.
LEMMA DestroyStep ==
    ASSUME IInv, NEW r \in Remotes, remote_destroy(r), Counted'
    PROVE  IInv'
<1> DEFINE txq == [Fresh.txq EXCEPT ![r] = <<>>]
           dump == [dp.dump EXCEPT ![r] = NoDump]
           replies == [dp.replies EXCEPT ![r] = <<>>]
<1>1. IsDp(dp) /\ IsDp(Fresh) /\ Fresh.replies = dp.replies /\ Fresh.dump = dp.dump /\ Stays(dp, Fresh)
  BY FreshDp DEF IInv
<1>2. dp' = [Fresh EXCEPT !.txq = txq, !.dump = dump, !.replies = replies]
  BY <1>1 DEF remote_destroy
<1>3. dump \in [Remotes -> Dump] /\ replies \in [Remotes -> Seq(Reply)]
  <2>1. <<>> \in Seq(Reply) /\ NoDump \in Dump
    BY DEF Dump, NoDump
  <2> QED BY <1>1, <2>1 DEF IsDp
<1>4. /\ replies[r] = <<>> /\ dump[r] = NoDump
      /\ \A s \in Remotes \ {r} : replies[s] = dp.replies[s] /\ dump[s] = dp.dump[s]
  BY <1>1 DEF IsDp
<1> HIDE DEF txq, dump, replies
<1>5. IsDp(dp') /\ dp'.replies = replies /\ dp'.dump = dump /\ Stays(dp, dp')
  <2> DEFINE f == Fresh
  <2>1. IsDp(f) /\ Stays(dp, f) /\ dp' = [f EXCEPT !.txq = txq, !.dump = dump, !.replies = replies]
    BY <1>1, <1>2
  <2> HIDE DEF f
  <2> QED BY <1>3, <2>1 DEF IsDp, Stays
<1>6. inbox' = [inbox EXCEPT ![r] = <<>>] /\ requests' = requests
  BY DEF remote_destroy
<1>7. IsSeq(<<>>) /\ InOrder(dp', r, <<>>, requests)
  BY <1>4, <1>5, NothingIsInOrder DEF InOrder
<1>8. \A s \in Remotes \ {r} : /\ dp'.replies[s] = dp.replies[s] /\ dp'.dump[s] = dp.dump[s]
                               /\ dp'.connected[s] = dp.connected[s] /\ dp'.late[s] = dp.late[s]
  BY <1>4, <1>5 DEF Stays
<1> QED
  BY <1>5, <1>6, <1>7, <1>8, RemoteStep

\* The connection to the controller is made.
LEMMA ConnectStep ==
    ASSUME IInv, Connects, Counted'
    PROVE  IInv'
<1> DEFINE r == Controller
           connected == [dp.connected EXCEPT ![r] = TRUE]
           f == Fresh
<1>1. /\ r \in Remotes /\ IsDp(dp) /\ IsDp(f) /\ f.replies = dp.replies /\ f.dump = dp.dump
      /\ f.connected = dp.connected /\ f.late = dp.late
  BY FreshDp, DatapathAssumption DEF IInv, Stays
<1>2. dp' = [f EXCEPT !.connected = connected]
  BY <1>1 DEF Connects
<1>3. connected \in [Remotes -> BOOLEAN] /\ connected[r]
      /\ \A s \in Remotes \ {r} : connected[s] = dp.connected[s]
  BY <1>1 DEF IsDp
<1> HIDE DEF r, connected, f
<1>4. /\ IsDp(dp') /\ dp'.replies = dp.replies /\ dp'.dump = dp.dump /\ dp'.late = dp.late
      /\ dp'.connected = connected
  BY <1>1, <1>2, <1>3 DEF IsDp
<1>5. inbox' = [inbox EXCEPT ![r] = inbox[r]] /\ requests' = requests
  BY DEF Connects, IInv
<1>6. IsSeq(inbox[r]) /\ InOrder(dp', r, inbox[r], requests)
  BY <1>1, <1>3, <1>4 DEF IInv, InOrder
<1>7. \A s \in Remotes \ {r} : /\ dp'.replies[s] = dp.replies[s] /\ dp'.dump[s] = dp.dump[s]
                               /\ dp'.connected[s] = dp.connected[s] /\ dp'.late[s] = dp.late[s]
  BY <1>3, <1>4
<1> QED
  BY <1>1, <1>4, <1>5, <1>6, <1>7, RemoteStep

\* The connection to the controller is lost, with the parts of a dump that were sent.
LEMMA DisconnectStep ==
    ASSUME IInv, Disconnects, Counted'
    PROVE  IInv'
<1> DEFINE r == Controller
           f == Fresh
           connected == [dp.connected EXCEPT ![r] = FALSE]
           txq == [f.txq EXCEPT ![r] = <<>>]
           replies == [dp.replies EXCEPT ![r] = <<>>]
           late == [dp.late EXCEPT ![r] = dp.dump[r].xid]
<1>1. /\ r \in Remotes /\ IsDp(dp) /\ IsDp(f) /\ f.replies = dp.replies /\ f.dump = dp.dump
      /\ f.connected = dp.connected /\ f.late = dp.late
  BY FreshDp, DatapathAssumption DEF IInv, Stays
<1>2. dp' = [f EXCEPT !.connected = connected, !.txq = txq, !.replies = replies, !.late = late]
  BY <1>1 DEF Disconnects
<1>3. /\ connected \in [Remotes -> BOOLEAN] /\ replies \in [Remotes -> Seq(Reply)]
      /\ late \in [Remotes -> Nat]
  <2>1. <<>> \in Seq(Reply) /\ dp.dump[r].xid \in Nat
    BY <1>1 DEF IsDp, Dump
  <2> QED BY <1>1, <2>1 DEF IsDp
<1>4. /\ replies[r] = <<>> /\ late[r] = dp.dump[r].xid
      /\ \A s \in Remotes \ {r} : /\ connected[s] = dp.connected[s] /\ replies[s] = dp.replies[s]
                                  /\ late[s] = dp.late[s]
  BY <1>1 DEF IsDp
<1> HIDE DEF r, connected, f, txq, replies, late
<1>5. /\ IsDp(dp') /\ dp'.replies = replies /\ dp'.dump = dp.dump /\ dp'.late = late
      /\ dp'.connected = connected
  BY <1>1, <1>2, <1>3 DEF IsDp
<1>6. inbox' = [inbox EXCEPT ![r] = <<>>] /\ requests' = requests
  BY DEF Disconnects, r
<1>7. IsSeq(<<>>) /\ InOrder(dp', r, <<>>, requests)
  <2> DEFINE du == dp.dump[r]
             q == inbox[r]
             n == requests
  <2>1. Underway(du, q, n)
    BY <1>1 DEF IInv, InOrder, Coherent
  <2>2. Whole(<<>>, late[r]) /\ Numbered(<<>>, n) /\ IsSeq(<<>>)
    BY NothingIsInOrder DEF Coherent
  <2>3. Underway(du, <<>>, n)
    BY <2>1 DEF Underway
  <2>4. LastReply(<<>>, du, <<>>, n, late[r]) /\ Cut(<<>>, du, <<>>, late[r])
    BY <1>4 DEF LastReply, Cut
  <2> QED BY <1>4, <1>5, <2>2, <2>3, <2>4 DEF InOrder, Coherent
<1>8. \A s \in Remotes \ {r} : /\ dp'.replies[s] = dp.replies[s] /\ dp'.dump[s] = dp.dump[s]
                               /\ dp'.connected[s] = dp.connected[s] /\ dp'.late[s] = dp.late[s]
  BY <1>4, <1>5
<1> QED
  BY <1>1, <1>5, <1>6, <1>7, <1>8, RemoteStep

\* A packet that comes in.
LEMMA InputIsTold ==
    ASSUME IInv, NEW p \in Ports, PortInput(p)
    PROVE  Sends(Fresh, dp')
<1> DEFINE pkt == [n |-> packets + 1, in |-> p]
<1>1. pkt \in Packet
  <2>1. p \in Nat
    BY DatapathAssumption DEF PortNumbers
  <2> QED BY <2>1 DEF Packet, IInv, Counted
<1>2. dp' = fwd_port_input(Fresh, pkt)
  BY DEF PortInput, Does
<1> HIDE DEF pkt
<1>3. Sends(Fresh, fwd_port_input(Fresh, pkt))
  BY <1>1, FreshDp, InputSends
<1> QED
  BY <1>2, <1>3

\* The parts of a reply and the order of answers are kept by every step.
THEOREM Invariance == Spec => []IInv
<1>1. Init => IInv
  <2> SUFFICES ASSUME Init PROVE IInv
    OBVIOUS
  <2>1. IsDp(dp)
    <3>1. [i \in Slot |-> [pkt |-> NoPacket, cookie |-> 0, fresh |-> FALSE, times |-> 0]] \in [Slot -> Buffer]
      BY DatapathAssumption DEF Buffer
    <3>2. dp.buffers \in [Slot -> Buffer]
      BY <3>1 DEF Init, Slot
    <3>3. /\ dp.replies = [r \in Remotes |-> <<>>] /\ dp.dump = [r \in Remotes |-> NoDump]
          /\ dp.connected = [r \in Remotes |-> r # Controller] /\ dp.late = [r \in Remotes |-> 0]
          /\ dp.flows = {} /\ dp.buffer_idx = 0 /\ dp.told = <<>>
          /\ {"replies", "dump", "connected", "late", "txq", "flows", "used", "buffers", "buffer_idx", "told"}
               \subseteq DOMAIN dp
      BY DEF Init
    <3>4. NoDump \in Dump /\ <<>> \in Seq(Reply) /\ <<>> \in Seq(Report)
      BY DEF Dump, NoDump
    <3>5. /\ dp.replies \in [Remotes -> Seq(Reply)] /\ dp.dump \in [Remotes -> Dump] /\ dp.told \in Seq(Report)
          /\ dp.connected \in [Remotes -> BOOLEAN] /\ dp.late \in [Remotes -> Nat]
      BY <3>3, <3>4
    <3> QED BY <3>2, <3>3, <3>5 DEF IsDp
  <2>2. inbox = [r \in Remotes |-> <<>>]
    BY DEF Init
  <2>3. ASSUME NEW r \in Remotes
        PROVE  IsSeq(inbox[r]) /\ InOrder(dp, r, inbox[r], requests)
    <3>1. inbox[r] = <<>> /\ dp.replies[r] = <<>> /\ dp.dump[r] = NoDump
      BY DEF Init
    <3> QED BY <3>1, NothingIsInOrder DEF InOrder
  <2>4. Counted
    BY DEF Init, Counted, Ids
  <2> QED BY <2>1, <2>2, <2>3, <2>4 DEF IInv
<1>2. IInv /\ [Next]_vars => IInv'
  <2> SUFFICES ASSUME IInv, [Next]_vars PROVE IInv'
    OBVIOUS
  <2>1. Quiet(dp, Fresh) /\ IsDp(Fresh) /\ Counted'
    BY FreshDp, CountStep DEF IInv
  <2>2. CASE Timeout
    <3>1. PICK gone \in SUBSET dp.flows : Does(Second(Fresh, gone))
      BY <2>2, Zenon DEF Timeout, Second
    <3>2. Quiet(Fresh, dp')
      BY <2>1, <3>1, SecondIsQuiet DEF Does
    <3>3. UNCHANGED <<inbox, requests>>
      BY <2>2 DEF Timeout
    <3> QED BY <2>1, <3>2, <3>3, QuietThenQuiet, QuietStep
  <2>3. ASSUME NEW p \in Ports, PortInput(p) PROVE IInv'
    <3>1. Quiet(Fresh, dp')
      BY <2>1, <2>3, InputIsTold DEF Sends
    <3>2. UNCHANGED <<inbox, requests>>
      BY <2>3 DEF PortInput
    <3> QED BY <2>1, <3>1, <3>2, QuietThenQuiet, QuietStep
  <2>4. ASSUME NEW p \in Ports, DeviceChanges(p) PROVE IInv'
    <3>1. PICK up, carrier : dp' \in {[Fresh EXCEPT !.up = up], [Fresh EXCEPT !.carrier = carrier]}
      BY <2>4 DEF DeviceChanges
    <3>2. Quiet(dp, dp')
      BY <2>1, <3>1 DEF Quiet, Stays, IsDp
    <3>3. UNCHANGED <<inbox, requests>>
      BY <2>4 DEF DeviceChanges
    <3> QED BY <2>1, <3>2, <3>3, QuietStep
  <2>5. ASSUME NEW r \in Remotes, Drains(r) PROVE IInv'
    <3>1. dp' = [Fresh EXCEPT !.txq = [Fresh.txq EXCEPT ![r] = Tail(Fresh.txq[r])]]
      BY <2>5 DEF Drains
    <3>2. Quiet(dp, dp')
      BY <2>1, <3>1 DEF Quiet, Stays, IsDp
    <3>3. UNCHANGED <<inbox, requests>>
      BY <2>5 DEF Drains
    <3> QED BY <2>1, <3>2, <3>3, QuietStep
  <2>6. CASE UNCHANGED vars
    BY <2>1, <2>6 DEF vars, IInv
  <2> QED
    BY <2>1, <2>2, <2>3, <2>4, <2>5, <2>6, RunStep, AskStep, DestroyStep,
       ConnectStep, DisconnectStep DEF Next
<1> QED
  BY <1>1, <1>2, PTL DEF Spec

\* A reply in several parts reaches its remote whole and in order, with no answer to a
\* later request in between, whatever other remotes, ports and the flow table do, however
\* full the queues are, and however often the connection to the controller is lost; only
\* the dump that was going on when it was lost may begin in the middle on the next
\* connection (remote_run, stats_dump, send_openflow_buffer).
THEOREM NoReplyIsTorn == Spec => []RepliesWhole
<1>1. IInv => RepliesWhole
  BY CoherentIsWhole
<1> QED
  BY <1>1, Invariance, PTL

-----------------------------------------------------------------------------
(* Ids of buffers *)

\* The id that a remote knows buffer i by, when its cookie is c.
IdOf(i, c) == i + Slots * c

\* An id names one buffer, with one cookie.
LEMMA IdIsUnique ==
    ASSUME NEW n \in Nat \ {0}, NEW i \in 0..(n - 1), NEW j \in 0..(n - 1), NEW b \in Nat, NEW c \in Nat,
           i + n * b = j + n * c
    PROVE  i = j /\ b = c
<1>1. /\ i \in Nat /\ j \in Nat /\ n * b \in Nat /\ n * c \in Nat
      /\ i < n /\ j < n
  OBVIOUS
<1>2. ASSUME NEW x \in Nat, NEW y \in Nat, x < y PROVE n * x + n <= n * y
  <2>1. x + 1 <= y
    BY <1>2
  <2>2. n * (x + 1) <= n * y
    BY <2>1
  <2>3. n * (x + 1) = n * x + n
    OBVIOUS
  <2> QED BY <2>2, <2>3
<1>3. ~(b < c)
  <2>1. b < c => n * b + n <= n * c
    BY <1>2
  <2> QED BY <1>1, <2>1
<1>4. ~(c < b)
  <2>1. c < b => n * c + n <= n * b
    BY <1>2
  <2> QED BY <1>1, <2>1
<1>5. b = c
  BY <1>3, <1>4
<1> QED
  BY <1>1, <1>5

\* An id as its buffer and its cookie.
LEMMA IdParts ==
    ASSUME NEW id \in Ids
    PROVE  /\ id % Slots \in Slot /\ id \div Slots \in 0..(Cookies - 1)
           /\ id = IdOf(id % Slots, id \div Slots)
<1> DEFINE n == Slots
           q == id \div n
           k == Cookies
<1>1. n \in Nat \ {0} /\ k \in Nat \ {0} /\ id \in Nat
  BY DatapathAssumption DEF Ids
<1>2. id < n * k
  <2>1. n * k \in Nat
    BY <1>1
  <2> HIDE DEF n, k
  <2> QED BY <1>1, <2>1 DEF Ids, n, k
<1>3. q \in Nat /\ n * q <= id /\ id % n \in 0..(n - 1) /\ id = (id % n) + n * q
  <2> HIDE DEF n
  <2> QED BY <1>1
<1>4. q < k
  <2> HIDE DEF n, k, q
  <2>1. SUFFICES ASSUME k <= q PROVE FALSE
    BY <1>1, <1>3
  <2>2. n * k <= n * q
    BY <1>1, <1>3, <2>1
  <2>3. n * k \in Nat /\ n * q \in Nat
    BY <1>1, <1>3
  <2> QED BY <1>1, <1>2, <1>3, <2>2, <2>3
<1>5. q \in 0..(k - 1)
  BY <1>1, <1>3, <1>4
<1> QED
  BY <1>3, <1>5 DEF Slot, IdOf

\* Every buffer has an id.
LEMMA IdInIds ==
    ASSUME NEW i \in Slot, NEW c \in 0..(Cookies - 1)
    PROVE  IdOf(i, c) \in Ids
<1> DEFINE n == Slots
           k == Cookies
<1>1. n \in Nat \ {0} /\ k \in Nat \ {0} /\ i \in Nat /\ c \in Nat /\ i <= n - 1 /\ c + 1 <= k
  BY DatapathAssumption DEF Slot
<1> HIDE DEF n, k
<1>2. n * (c + 1) <= n * k
  BY <1>1
<1>3. n * (c + 1) = n * c + n /\ n * c \in Nat /\ n * k \in Nat
  BY <1>1
<1>4. i + n * c \in 0..(n * k - 1)
  BY <1>1, <1>2, <1>3
<1> QED
  BY <1>4 DEF IdOf, Ids, n, k

-----------------------------------------------------------------------------
(* What buffers hold, and what was reported *)

\* A remote was told of a packet under id.  Since then its buffer was given to as many
\* packets as the buffer's count says; its cookie is as many cookies further, round and
\* round, and as long as it was given to none it holds that packet or none.
Stamped(id, rep, buffers) ==
  LET b == buffers[id % Slots]
      c == id \div Slots
      passed == b.times - rep.at
  IN /\ rep.at \in Nat /\ rep.at <= b.times
     /\ passed < Cookies => b.cookie = c + passed \/ b.cookie = (c + passed) - Cookies
     /\ passed = 0 => b.pkt \in {rep.pkt, NoPacket}

\* What m means by its id was told of.
Meant(m, buffers) == m.id # NoId => m.id \in Ids /\ Stamped(m.id, m.meant, buffers)

\* The inductive invariant of buffers.
BInv ==
  /\ \A id \in Ids : reported[id] # NoReport => Stamped(id, reported[id], dp.buffers)
  /\ \A r \in Remotes : \A k \in 1..Len(inbox[r]) : Meant(inbox[r][k], dp.buffers)
  /\ BufferIsTheReported

\* The greatest of finitely many indices.
LEMMA GreatestIndex ==
    ASSUME NEW n \in Nat, NEW S \in SUBSET (1..n), S # {}
    PROVE  Max(S) \in S
<1> DEFINE T == {k \in Nat : \A x \in S : x <= k}
<1>1. n \in T
  OBVIOUS
<1>2. T \in SUBSET Nat
  OBVIOUS
<1>3. PICK k \in T : \A m \in T : k <= m
  <2> HIDE DEF T
  <2> QED BY <1>1, <1>2, LeastNat
<1>4. k \in S
  <2>1. SUFFICES ASSUME k \notin S PROVE FALSE
    OBVIOUS
  <2>2. k \in Nat /\ \A x \in S : x <= k /\ x # k /\ x \in Nat /\ x >= 1
    BY <1>3, <2>1
  <2>3. k >= 1 /\ \A x \in S : x <= k - 1
    <3>1. PICK y \in S : TRUE
      OBVIOUS
    <3>2. y \in Nat /\ y >= 1 /\ y <= k
      BY <2>2
    <3>3. \A x \in S : x \in Nat /\ x <= k /\ x # k
      BY <2>2
    <3> QED BY <2>2, <3>2, <3>3
  <2>4. k - 1 \in T
    BY <2>2, <2>3
  <2> QED BY <1>3, <2>2, <2>4
<1>5. \A x \in S : k >= x
  BY <1>3
<1>6. \E x \in S : \A y \in S : x >= y
  BY <1>4, <1>5
<1> QED
  BY <1>6 DEF Max

\* A report changes what is reported under its id, and nothing else.
LEMMA ReportsAreTold ==
    ASSUME NEW d, IsDp(d), Does(d), NEW id \in DOMAIN reported
    PROVE  \/ reported'[id] = reported[id] /\ \A t \in Range(d.told) : t.id # id
           \/ \E t \in Range(d.told) : t.id = id /\ reported'[id] = [pkt |-> t.pkt, at |-> t.at]
<1> DEFINE At(x) == {i \in DOMAIN d.told : d.told[i].id = x}
           New(x) == IF At(x) = {} THEN reported[x]
                     ELSE [pkt |-> d.told[Max(At(x))].pkt, at |-> d.told[Max(At(x))].at]
<1>1. reported' = [x \in DOMAIN reported |-> New(x)]
  BY DEF Does
<1>2. reported'[id] = New(id)
  <2> HIDE DEF New
  <2> QED BY <1>1
<1>3. d.told \in Seq(Report) /\ Len(d.told) \in Nat /\ DOMAIN d.told = 1..Len(d.told)
  BY DEF IsDp
<1>4. CASE At(id) = {}
  BY <1>2, <1>4 DEF Range
<1>5. CASE At(id) # {}
  <2>1. At(id) \in SUBSET (1..Len(d.told))
    BY <1>3
  <2>2. Max(At(id)) \in At(id)
    <3> HIDE DEF At
    <3> QED BY <1>3, <1>5, <2>1, GreatestIndex
  <2> DEFINE k == Max(At(id))
  <2>3. k \in DOMAIN d.told /\ d.told[k].id = id
    BY <2>2
  <2> HIDE DEF k
  <2>4. reported'[id] = [pkt |-> d.told[k].pkt, at |-> d.told[k].at]
    BY <1>2, <1>5 DEF k
  <2> QED BY <2>3, <2>4 DEF Range
<1> QED
  BY <1>4, <1>5

\* A buffer that is emptied, or given to another packet, keeps the count of what was told.
LEMMA StampKept ==
    ASSUME NEW d, IsDp(d), NEW e, NEW id \in Ids, NEW rep, Stamped(id, rep, d.buffers),
           \A i \in Slot : Kept(d, e, i) \/ Stored(d, e, i)
    PROVE  Stamped(id, rep, e.buffers)
<1> DEFINE i == id % Slots
           c == id \div Slots
           b == d.buffers[i]
           n == e.buffers[i]
           k == Cookies
           old == b.times - rep.at
           new == n.times - rep.at
<1>1. i \in Slot /\ c \in 0..(Cookies - 1)
  BY IdParts
<1>2. b.cookie \in 0..(k - 1) /\ b.times \in Nat /\ k \in Nat \ {0}
  BY <1>1, DatapathAssumption DEF IsDp, Buffer
<1>3. /\ rep.at \in Nat /\ rep.at <= b.times
      /\ old < k => b.cookie = c + old \/ b.cookie = (c + old) - k
      /\ old = 0 => b.pkt \in {rep.pkt, NoPacket}
  BY DEF Stamped
<1>4. Kept(d, e, i) \/ Stored(d, e, i)
  BY <1>1
<1>5. SUFFICES /\ rep.at <= n.times
               /\ new < k => n.cookie = c + new \/ n.cookie = (c + new) - k
               /\ new = 0 => n.pkt \in {rep.pkt, NoPacket}
  BY <1>3 DEF Stamped
<1>6. CASE Kept(d, e, i)
  <2>1. n.cookie = b.cookie /\ n.times = b.times /\ n.pkt \in {b.pkt, NoPacket}
    BY <1>6 DEF Kept
  <2> HIDE DEF b, n, i, c
  <2> QED BY <1>3, <2>1
<1>7. CASE Stored(d, e, i)
  <2>1. n.cookie = (IF b.cookie + 1 >= k THEN 0 ELSE b.cookie + 1) /\ n.times = b.times + 1
    BY <1>7 DEF Stored, NextCookie
  <2> HIDE DEF b, n, i, c, k
  <2>2. new = old + 1 /\ old \in Nat
    BY <1>2, <1>3, <2>1
  <2>3. c \in Nat /\ c <= k - 1 /\ b.cookie \in Nat /\ b.cookie <= k - 1 /\ k \in Nat
    BY <1>1, <1>2 DEF k
  <2> HIDE DEF old, new
  <2>4. ASSUME new < k PROVE n.cookie = c + new \/ n.cookie = (c + new) - k
    BY <1>3, <2>1, <2>2, <2>3, <2>4
  <2>5. rep.at <= n.times /\ new # 0
    BY <1>2, <1>3, <2>1, <2>2
  <2> QED BY <2>4, <2>5
<1> QED
  BY <1>4, <1>6, <1>7

\* What the controller is told of a packet that was saved.
LEMMA EntryIsStamped ==
    ASSUME NEW e, IsDp(e), NEW i \in Slot
    PROVE  LET t == Entry(e, i)
           IN t.id \in Ids /\ Stamped(t.id, [pkt |-> t.pkt, at |-> t.at], e.buffers)
<1> DEFINE b == e.buffers[i]
           c == b.cookie
           id == IdOf(i, c)
<1>1. b \in Buffer /\ c \in 0..(Cookies - 1) /\ b.times \in Nat
  BY DEF IsDp, Buffer
<1>2. id \in Ids
  BY <1>1, IdInIds
<1>3. id % Slots = i /\ id \div Slots = c
  <2> DEFINE j == id % Slots
             q == id \div Slots
  <2>1. j \in Slot /\ q \in 0..(Cookies - 1) /\ id = IdOf(j, q)
    BY <1>2, IdParts
  <2>2. Slots \in Nat \ {0} /\ Cookies \in Nat \ {0}
    BY DatapathAssumption
  <2> HIDE DEF b, c, j, q
  <2>3. c \in Nat /\ q \in Nat
    BY <1>1, <2>1, <2>2
  <2>4. i + Slots * c = j + Slots * q
    BY <2>1 DEF IdOf
  <2>5. i = j /\ c = q
    BY <2>1, <2>2, <2>3, <2>4, IdIsUnique DEF Slot
  <2> QED BY <2>5 DEF j, q
<1>4. Entry(e, i) = [id |-> id, pkt |-> b.pkt, at |-> b.times]
  BY DEF Entry, IdOf
<1> DEFINE rep == [pkt |-> b.pkt, at |-> b.times]
<1>5. rep.at = b.times /\ rep.pkt = b.pkt
  OBVIOUS
<1> HIDE DEF id, rep
<1>6. Stamped(id, rep, e.buffers)
  <2>1. e.buffers[id % Slots] = b /\ id \div Slots = c
    BY <1>3
  <2> HIDE DEF b, c
  <2>2. b.times - rep.at = 0 /\ rep.at \in Nat /\ rep.at <= b.times /\ c = b.cookie /\ c \in Nat
    BY <1>1, <1>5, DatapathAssumption DEF c
  <2> QED BY <1>5, <2>1, <2>2 DEF Stamped
<1> QED
  BY <1>2, <1>4, <1>6 DEF rep

\* A turn keeps what was told, and what it tells is so.
LEMMA TurnKeepsStamps ==
    ASSUME IInv, BInv, NEW e, IsDp(e), Does(e), Turns(Fresh, e)
    PROVE  /\ \A id \in Ids : reported'[id] # NoReport => Stamped(id, reported'[id], e.buffers)
           /\ \A m : Meant(m, dp.buffers) => Meant(m, e.buffers)
<1>1. IsDp(Fresh) /\ Fresh.buffers = dp.buffers /\ Fresh.told = <<>> /\ DOMAIN reported = Ids
  BY FreshDp DEF IInv, Counted
<1>2. \A i \in Slot : Kept(Fresh, e, i) \/ Stored(Fresh, e, i)
  BY DEF Turns
<1>3. ASSUME NEW id \in Ids, NEW rep, Stamped(id, rep, dp.buffers)
      PROVE  Stamped(id, rep, e.buffers)
  <2> DEFINE d == Fresh
  <2>1. IsDp(d) /\ Stamped(id, rep, d.buffers) /\ \A i \in Slot : Kept(d, e, i) \/ Stored(d, e, i)
    BY <1>1, <1>2, <1>3
  <2> HIDE DEF d
  <2> QED BY <2>1, StampKept
<1>4. \A t \in Range(e.told) : \E i \in Slot : t = Entry(e, i)
  <2>1. Range(Fresh.told) = {}
    BY <1>1 DEF Range
  <2> QED BY <2>1 DEF Turns
<1>5. ASSUME NEW id \in Ids, reported'[id] # NoReport
      PROVE  Stamped(id, reported'[id], e.buffers)
  <2>1. CASE reported'[id] = reported[id]
    BY <1>3, <1>5, <2>1 DEF BInv
  <2>2. CASE \E t \in Range(e.told) : t.id = id /\ reported'[id] = [pkt |-> t.pkt, at |-> t.at]
    <3>1. PICK t \in Range(e.told) : t.id = id /\ reported'[id] = [pkt |-> t.pkt, at |-> t.at]
      BY <2>2
    <3>2. PICK i \in Slot : t = Entry(e, i)
      BY <1>4
    <3>3. Stamped(t.id, [pkt |-> t.pkt, at |-> t.at], e.buffers)
      BY <3>2, EntryIsStamped
    <3> QED BY <3>1, <3>3
  <2> QED BY <1>1, <2>1, <2>2, ReportsAreTold
<1>6. ASSUME NEW m, Meant(m, dp.buffers) PROVE Meant(m, e.buffers)
  BY <1>3, <1>6 DEF Meant
<1> QED
  BY <1>5, <1>6

\* What a message brings out of a buffer is what it meant.
LEMMA UseIsMeant ==
    ASSUME IInv, NEW m, Meant(m, dp.buffers), NEW e, Uses(Fresh, e, m)
    PROVE  e.used.pkt # NoPacket /\ e.used.passed < Cookies => e.used.pkt = e.used.meant.pkt
<1>1. Fresh.used = NoUse /\ Fresh.buffers = dp.buffers /\ IsDp(dp)
  BY FreshDp DEF IInv
<1>2. CASE e.used = Fresh.used
  BY <1>1, <1>2 DEF NoUse
<1>3. CASE m.id # NoId /\ e.used = Use(Fresh, m)
  <2> DEFINE i == m.id % Slots
             c == m.id \div Slots
             b == dp.buffers[i]
             passed == b.times - m.meant.at
  <2>1. m.id \in Ids /\ Stamped(m.id, m.meant, dp.buffers)
    BY <1>3 DEF Meant
  <2>2. i \in Slot /\ c \in 0..(Cookies - 1)
    BY <2>1, IdParts
  <2>3. b.cookie \in 0..(Cookies - 1) /\ b.times \in Nat
    BY <1>1, <2>2 DEF IsDp, Buffer
  <2>4. /\ m.meant.at \in Nat /\ m.meant.at <= b.times
        /\ passed < Cookies => b.cookie = c + passed \/ b.cookie = (c + passed) - Cookies
        /\ passed = 0 => b.pkt \in {m.meant.pkt, NoPacket}
    BY <2>1 DEF Stamped
  <2>5. /\ e.used.pkt = IF b.cookie = c THEN b.pkt ELSE NoPacket
        /\ e.used.passed = passed /\ e.used.meant = m.meant
    BY <1>1, <1>3 DEF Use, BufferOf, Holds
  <2>6. ASSUME passed < Cookies, b.cookie = c PROVE passed = 0
    <3> DEFINE k == Cookies
               a == m.meant.at
               x == b.times
    <3>1. k \in Nat /\ c \in Nat /\ a \in Nat /\ x \in Nat /\ a <= x
      BY <2>2, <2>3, <2>4, DatapathAssumption
    <3>2. x - a < k /\ (c = c + (x - a) \/ c = (c + (x - a)) - k)
      BY <2>4, <2>6
    <3> HIDE DEF k, a, x, c
    <3>3. x - a = 0
      BY <3>1, <3>2
    <3> QED BY <3>3 DEF x, a
  <2> HIDE DEF i, c, b, passed
  <2> QED BY <2>4, <2>5, <2>6
<1> QED
  BY <1>2, <1>3 DEF Uses

-----------------------------------------------------------------------------
(* Every step keeps the invariant of buffers *)

\* A turn of a remote either leaves buffers alone, or reads a message.
LEMMA RunTurns ==
    ASSUME IInv, NEW r \in Remotes, remote_run(r)
    PROVE  /\ Does(dp')
           /\ \/ Leaves(Fresh, dp') /\ inbox' = inbox
              \/ /\ inbox[r] # <<>> /\ inbox' = [inbox EXCEPT ![r] = Tail(@)]
                 /\ Turns(Fresh, dp') /\ Uses(Fresh, dp', Head(inbox[r]))
<1>1. IsDp(Fresh)
  BY FreshDp
<1>2. CASE Busy(dp, r) /\ Does(stats_dump(Fresh, r)) /\ UNCHANGED <<inbox, packets, requests, events>>
  <2>1. dp' = stats_dump(Fresh, r)
    BY <1>2 DEF Does
  <2>2. Leaves(Fresh, stats_dump(Fresh, r))
    BY <1>1, PartIsSent
  <2> QED BY <1>2, <2>1, <2>2
<1>3. CASE /\ ~Busy(dp, r) /\ inbox[r] # <<>> /\ Does(fwd_control_input(Fresh, r, Head(inbox[r])))
           /\ inbox' = [inbox EXCEPT ![r] = Tail(@)] /\ UNCHANGED <<packets, requests, events>>
  <2> DEFINE m == Head(inbox[r])
  <2>1. dp' = fwd_control_input(Fresh, r, m)
    BY <1>3 DEF Does
  <2>2. IsSeq(inbox[r]) /\ requests \in Nat /\ Numbered(inbox[r], requests)
    BY DEF IInv, InOrder, Counted, Coherent
  <2>3. Usable(m)
    BY <1>3, <2>2, TailIsNumbered
  <2> HIDE DEF m
  <2>4. Turns(Fresh, fwd_control_input(Fresh, r, m)) /\ Uses(Fresh, fwd_control_input(Fresh, r, m), m)
    BY <1>1, <2>3, MessageIsHandled
  <2>5. Does(dp')
    BY <1>3, <2>1 DEF m
  <2> QED BY <1>3, <2>1, <2>4, <2>5 DEF m
<1> QED
  BY <1>2, <1>3 DEF remote_run

\* Every message on its way is one of before.
Older(new, old) ==
  \A r \in Remotes : \A k \in 1..Len(new[r]) : \E j \in 1..Len(old[r]) : new[r][k] = old[r][j]

\* A turn, whether it reads a message or not.
LEMMA TurnStep ==
    ASSUME IInv, BInv, IsDp(dp'), Does(dp'), Turns(Fresh, dp'), Older(inbox', inbox), BufferIsTheReported'
    PROVE  BInv'
<1>1. /\ \A id \in Ids : reported'[id] # NoReport => Stamped(id, reported'[id], dp'.buffers)
      /\ \A m : Meant(m, dp.buffers) => Meant(m, dp'.buffers)
  BY TurnKeepsStamps
<1>2. ASSUME NEW r \in Remotes, NEW k \in 1..Len(inbox'[r]) PROVE Meant(inbox'[r][k], dp'.buffers)
  <2>1. PICK j \in 1..Len(inbox[r]) : inbox'[r][k] = inbox[r][j]
    BY DEF Older
  <2> QED BY <1>1, <2>1 DEF BInv
<1> QED
  BY <1>1, <1>2 DEF BInv

\* A step that leaves buffers alone and tells nothing.
LEMMA StillStep ==
    ASSUME IInv, BInv, dp'.buffers = dp.buffers, dp'.used \in {dp.used, NoUse}, reported' = reported,
           Older(inbox', inbox)
    PROVE  BInv'
<1>1. BufferIsTheReported'
  BY DEF BInv, BufferIsTheReported, NoUse
<1>2. ASSUME NEW r \in Remotes, NEW k \in 1..Len(inbox'[r]) PROVE Meant(inbox'[r][k], dp'.buffers)
  <2>1. PICK j \in 1..Len(inbox[r]) : inbox'[r][k] = inbox[r][j]
    BY DEF Older
  <2> QED BY <2>1 DEF BInv
<1> QED
  BY <1>1, <1>2 DEF BInv

\* Messages that stay, that are lost with their connection, or of which one is read.
LEMMA OlderAre ==
    ASSUME IInv, NEW q,
           \/ q = inbox
           \/ \E r \in Remotes : q = [inbox EXCEPT ![r] = <<>>]
           \/ \E r \in Remotes : inbox[r] # <<>> /\ q = [inbox EXCEPT ![r] = Tail(@)]
    PROVE  Older(q, inbox)
<1>1. CASE q = inbox
  BY <1>1 DEF Older
<1>2. ASSUME NEW r \in Remotes, q = [inbox EXCEPT ![r] = <<>>] PROVE Older(q, inbox)
  <2>1. q[r] = <<>> /\ \A s \in Remotes \ {r} : q[s] = inbox[s]
    BY <1>2 DEF IInv
  <2>2. 1..Len(q[r]) = {}
    BY <2>1
  <2> QED BY <2>1, <2>2 DEF Older
<1>3. ASSUME NEW r \in Remotes, inbox[r] # <<>>, q = [inbox EXCEPT ![r] = Tail(@)] PROVE Older(q, inbox)
  <2>1. q[r] = Tail(inbox[r]) /\ \A s \in Remotes \ {r} : q[s] = inbox[s]
    BY <1>3 DEF IInv
  <2>2. \A k \in 1..Len(Tail(inbox[r])) : \E j \in 1..Len(inbox[r]) : Tail(inbox[r])[k] = inbox[r][j]
    <3> DEFINE s == inbox[r]
               n == requests
    <3>1. IsSeq(s) /\ s # <<>> /\ n \in Nat /\ Numbered(s, n)
      BY <1>3 DEF IInv, InOrder, Counted, Coherent
    <3> HIDE DEF s, n
    <3>2. \A k \in 1..Len(Tail(s)) : \E j \in 1..Len(s) : Tail(s)[k] = s[j]
      BY <3>1, TailIsNumbered
    <3> QED BY <3>2 DEF s
  <2>3. ASSUME NEW s \in Remotes, NEW k \in 1..Len(q[s])
        PROVE  \E j \in 1..Len(inbox[s]) : q[s][k] = inbox[s][j]
    <3>1. CASE s = r
      BY <2>1, <2>2, <3>1
    <3>2. CASE s # r
      BY <2>1, <3>2
    <3> QED BY <3>1, <3>2
  <2> QED BY <2>3 DEF Older
<1> QED
  BY <1>1, <1>2, <1>3

\* A packet comes in.
LEMMA InputKeeps ==
    ASSUME IInv, BInv, NEW p \in Ports, PortInput(p)
    PROVE  BInv'
<1>1. Sends(Fresh, dp')
  BY InputIsTold
<1>2. Quiet(Fresh, Fresh) /\ Keeps(Fresh, Fresh) /\ Fresh.used = NoUse
  BY FreshDp DEF Quiet, Stays, Keeps, Kept
<1>3. IsDp(dp') /\ Turns(Fresh, dp') /\ dp'.used = NoUse
  <2> DEFINE m == [id |-> NoId]
  <2>1. Uses(Fresh, Fresh, m) /\ m.id = NoId
    BY DEF Uses
  <2> HIDE DEF m
  <2>2. Turned(Fresh, dp', m)
    BY <1>1, <1>2, <2>1, KeepThenSend
  <2> QED BY <1>2, <2>1, <2>2 DEF Turned, Uses, Quiet
<1>4. Does(dp') /\ inbox' = inbox
  BY DEF PortInput, Does
<1>5. BufferIsTheReported'
  BY <1>3 DEF BufferIsTheReported, NoUse
<1> QED
  BY <1>3, <1>4, <1>5, OlderAre, TurnStep

\* A turn of a remote.
LEMMA RunKeeps ==
    ASSUME IInv, BInv, IInv', NEW r \in Remotes, remote_run(r)
    PROVE  BInv'
<1>1. /\ Does(dp') /\ IsDp(dp') /\ Fresh.used = NoUse
      /\ \/ Leaves(Fresh, dp') /\ inbox' = inbox
         \/ /\ inbox[r] # <<>> /\ inbox' = [inbox EXCEPT ![r] = Tail(@)]
            /\ Turns(Fresh, dp') /\ Uses(Fresh, dp', Head(inbox[r]))
  BY RunTurns, FreshDp DEF IInv
<1>2. CASE Leaves(Fresh, dp') /\ inbox' = inbox
  <2>1. Keeps(Fresh, dp') /\ dp'.used = NoUse
    BY <1>1, <1>2 DEF Leaves, Keeps, Kept
  <2>2. Turns(Fresh, dp') /\ BufferIsTheReported'
    BY <2>1, KeepTurns DEF BufferIsTheReported, NoUse
  <2> QED BY <1>1, <1>2, <2>2, OlderAre, TurnStep
<1>3. CASE /\ inbox[r] # <<>> /\ inbox' = [inbox EXCEPT ![r] = Tail(@)]
           /\ Turns(Fresh, dp') /\ Uses(Fresh, dp', Head(inbox[r]))
  <2> DEFINE m == Head(inbox[r])
             e == dp'
  <2>1. Meant(m, dp.buffers)
    <3>1. PICK S : inbox[r] \in Seq(S)
      BY DEF IInv, IsSeq
    <3>2. 1 \in 1..Len(inbox[r]) /\ m = inbox[r][1]
      BY <1>3, <3>1
    <3> QED BY <3>2 DEF BInv
  <2>2. Uses(Fresh, e, m)
    BY <1>3
  <2> HIDE DEF m, e
  <2>3. e.used.pkt # NoPacket /\ e.used.passed < Cookies => e.used.pkt = e.used.meant.pkt
    BY <2>1, <2>2, UseIsMeant
  <2>4. BufferIsTheReported'
    BY <2>3 DEF BufferIsTheReported, e
  <2> QED BY <1>1, <1>3, <2>4, OlderAre, TurnStep
<1> QED
  BY <1>1, <1>2, <1>3

\* A remote asks with an id that it was told.
LEMMA AskKeeps ==
    ASSUME IInv, BInv, NEW r \in Remotes, Asks(r)
    PROVE  BInv'
<1>1. PICK m \in Requests[r], id \in {NoId} \cup {i \in DOMAIN reported : reported[i] # NoReport} :
        inbox' = [inbox EXCEPT ![r] = Append(@,
          [m EXCEPT !.xid = requests + 1, !.id = id, !.meant = IF id = NoId THEN NoReport ELSE reported[id]])]
  BY Zenon DEF Asks
<1> DEFINE meant == IF id = NoId THEN NoReport ELSE reported[id]
           n == [m EXCEPT !.xid = requests + 1, !.id = id, !.meant = meant]
<1>2. inbox' = [inbox EXCEPT ![r] = Append(@, n)] /\ dp' = Fresh /\ reported' = reported
  BY <1>1 DEF Asks
<1> HIDE DEF meant
<1>3. n.id = id /\ n.meant = meant
  BY DatapathAssumption
<1>4. Meant(n, dp.buffers)
  BY <1>3 DEF Meant, meant, BInv, IInv, Counted
<1> HIDE DEF n
<1>5. inbox'[r] = Append(inbox[r], n) /\ \A s \in Remotes \ {r} : inbox'[s] = inbox[s]
  BY <1>2 DEF IInv
<1>6. \A j \in 1..Len(Append(inbox[r], n)) :
         \/ Append(inbox[r], n)[j] = n
         \/ j \in 1..Len(inbox[r]) /\ Append(inbox[r], n)[j] = inbox[r][j]
  <2>1. PICK S : inbox[r] \in Seq(S)
    BY DEF IInv, IsSeq
  <2>2. inbox[r] \in Seq(S \cup {n})
    BY <2>1
  <2> QED BY <2>2
<1>7. ASSUME NEW s \in Remotes, NEW j \in 1..Len(inbox'[s]) PROVE Meant(inbox'[s][j], dp.buffers)
  <2>1. CASE s = r
    <3>1. inbox'[s][j] = n \/ (j \in 1..Len(inbox[r]) /\ inbox'[s][j] = inbox[r][j])
      BY <1>5, <1>6, <2>1
    <3> QED BY <1>4, <3>1 DEF BInv
  <2>2. CASE s # r
    BY <1>5, <2>2 DEF BInv
  <2> QED BY <2>1, <2>2
<1>8. dp'.buffers = dp.buffers /\ dp'.used = NoUse
  BY <1>2, FreshDp
<1>9. BufferIsTheReported'
  BY <1>8 DEF BufferIsTheReported, NoUse
<1>10. \A id_1 \in Ids : reported'[id_1] # NoReport => Stamped(id_1, reported'[id_1], dp'.buffers)
  BY <1>2, <1>8 DEF BInv
<1> QED
  BY <1>7, <1>8, <1>9, <1>10 DEF BInv

\* A step of the queues, the devices or the connections.
LEMMA OtherKeeps ==
    ASSUME IInv, BInv,
           \/ Connects \/ Disconnects
           \/ \E p \in Ports : DeviceChanges(p)
           \/ \E r \in Remotes : Drains(r) \/ remote_destroy(r)
    PROVE  BInv'
<1> DEFINE f == Fresh
<1>1. IsDp(f) /\ f.buffers = dp.buffers /\ f.used = NoUse /\ Controller \in Remotes
  BY FreshDp, DatapathAssumption
<1>2. ASSUME dp'.buffers = f.buffers, dp'.used = f.used, reported' = reported,
             \/ inbox' = inbox
             \/ \E r \in Remotes : inbox' = [inbox EXCEPT ![r] = <<>>]
      PROVE  BInv'
  BY <1>1, <1>2, OlderAre, StillStep
<1>3. CASE Connects
  <2>1. dp' = [f EXCEPT !.connected[Controller] = TRUE] /\ reported' = reported /\ inbox' = inbox
    BY <1>3 DEF Connects
  <2> HIDE DEF f
  <2>2. dp'.buffers = f.buffers /\ dp'.used = f.used
    BY <1>1, <2>1 DEF IsDp
  <2> QED BY <1>2, <2>1, <2>2
<1>4. CASE Disconnects
  <2> DEFINE xid == dp.dump[Controller].xid
  <2>1. /\ dp' = [f EXCEPT !.connected[Controller] = FALSE, !.txq[Controller] = <<>>,
                           !.replies[Controller] = <<>>, !.late[Controller] = xid]
        /\ reported' = reported /\ inbox' = [inbox EXCEPT ![Controller] = <<>>]
    BY <1>4 DEF Disconnects
  <2> HIDE DEF f, xid
  <2>2. dp'.buffers = f.buffers /\ dp'.used = f.used
    BY <1>1, <2>1 DEF IsDp
  <2> QED BY <1>1, <1>2, <2>1, <2>2
<1>5. ASSUME NEW p \in Ports, DeviceChanges(p) PROVE BInv'
  <2>1. /\ \E up, carrier : dp' \in {[f EXCEPT !.up = up], [f EXCEPT !.carrier = carrier]}
        /\ reported' = reported /\ inbox' = inbox
    BY <1>5 DEF DeviceChanges
  <2> HIDE DEF f
  <2>2. dp'.buffers = f.buffers /\ dp'.used = f.used
    BY <1>1, <2>1 DEF IsDp
  <2> QED BY <1>2, <2>1, <2>2
<1>6. ASSUME NEW r \in Remotes, Drains(r) PROVE BInv'
  <2> DEFINE q == [f.txq EXCEPT ![r] = Tail(@)]
  <2>1. dp' = [f EXCEPT !.txq = q] /\ reported' = reported /\ inbox' = inbox
    BY <1>6 DEF Drains
  <2> HIDE DEF f, q
  <2>2. dp'.buffers = f.buffers /\ dp'.used = f.used
    BY <1>1, <2>1 DEF IsDp
  <2> QED BY <1>2, <2>1, <2>2
<1>7. ASSUME NEW r \in Remotes, remote_destroy(r) PROVE BInv'
  <2>1. /\ dp' = [f EXCEPT !.txq[r] = <<>>, !.dump[r] = NoDump, !.replies[r] = <<>>]
        /\ reported' = reported /\ inbox' = [inbox EXCEPT ![r] = <<>>]
    BY <1>7, Zenon DEF remote_destroy
  <2> HIDE DEF f
  <2>2. dp'.buffers = f.buffers /\ dp'.used = f.used
    BY <1>1, <2>1 DEF IsDp
  <2> QED BY <1>2, <2>1, <2>2
<1> QED
  BY <1>3, <1>4, <1>5, <1>6, <1>7

\* Buffers keep the count of what was told through every step.
LEMMA EveryStepKeeps ==
    ASSUME IInv, BInv, IInv', [Next]_vars
    PROVE  BInv'
<1>1. CASE Timeout
  <2>1. PICK gone \in SUBSET dp.flows : Does(Second(Fresh, gone)) /\ UNCHANGED <<inbox, packets, requests>>
    BY <1>1, Zenon DEF Timeout, Second
  <2>2. dp' = Second(Fresh, gone) /\ inbox' = inbox
    BY <2>1 DEF Does
  <2>3. IsDp(Fresh) /\ Fresh.used = NoUse /\ IsDp(dp') /\ Does(dp')
    BY <2>1, <2>2, FreshDp DEF IInv
  <2>4. Keeps(Fresh, dp') /\ dp'.used = NoUse
    BY <2>2, <2>3, SecondIsQuiet
  <2>5. Turns(Fresh, dp') /\ BufferIsTheReported'
    BY <2>4, KeepTurns DEF BufferIsTheReported, NoUse
  <2> QED BY <2>2, <2>3, <2>5, OlderAre, TurnStep
<1>2. CASE UNCHANGED vars
  <2>1. dp' = dp /\ inbox' = inbox /\ reported' = reported
    BY <1>2 DEF vars
  <2> QED BY <2>1, OlderAre, StillStep
<1> QED
  BY <1>1, <1>2, InputKeeps, RunKeeps, AskKeeps, OtherKeeps DEF Next

\* A packet_out or a flow_mod gets out of a buffer the packet that the remote was told
\* of under that id, or none, though the buffer may have been given to other packets
\* since, as long as to fewer than there are cookies (save_buffer, retrieve_buffer):
\* however ids travel, are repeated, come from several remotes, or arrive on a later
\* connection.
THEOREM BuffersKeepTheirMeaning == Spec => []BufferIsTheReported
<1>1. Init => BInv
  <2> SUFFICES ASSUME Init PROVE BInv
    OBVIOUS
  <2>1. dp.used = NoUse /\ \A r \in Remotes : inbox[r] = <<>>
    BY DEF Init
  <2>2. \A id \in Ids : reported[id] = NoReport
    BY DEF Init, Ids
  <2> QED BY <2>1, <2>2 DEF BInv, BufferIsTheReported, NoUse
<1>2. IInv /\ IInv' /\ BInv /\ [Next]_vars => BInv'
  BY EveryStepKeeps
<1>3. BInv => BufferIsTheReported
  BY DEF BInv
<1> QED
  BY <1>1, <1>2, <1>3, Invariance, PTL DEF Spec
=============================================================================
