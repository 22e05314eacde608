---------------------------- MODULE RconnProofs ----------------------------
(***************************************************************************)
(* Rconn holds its vconn, its queue and its admission as it promises, for  *)
(* every set of peers, every backoff, probe and admission interval, every  *)
(* limit of the queue and every number of monitors.                        *)
(***************************************************************************)
EXTENDS Rconn, SequenceTheorems, FiniteSetTheorems, TLAPS

States == {"VOID", "BACKOFF", "CONNECTING", "ACTIVE", "IDLE"}
Names == Peer \union {"void"}
Packets == [to : Names, counted : BOOLEAN]

\* struct rconn.
Rconns ==
    [state : States, vconn : BOOLEAN, name : Names, reliable : BOOLEAN,
     txq : Seq(Packets), n_queued : Int,
     backoff : 0..max_backoff, backoff_deadline : 0..Never,
     state_entered : Nat, last_received : Nat, last_connected : Nat,
     probably_admitted : BOOLEAN, last_admitted : 0..FailureCap,
     questionable : BOOLEAN, last_questioned : Nat,
     monitors : SUBSET Monitor]

\* What holds of an rconn at every point of a handler where disconnect may be called.
Sound(r) ==
    /\ r \in Rconns
    /\ r.n_queued = Counted(r.txq)
    /\ r.n_queued <= queue_limit
    /\ r.reliable => r.name \in Peer
    /\ r.state \in {"VOID", "BACKOFF"} => ~r.vconn

\* What holds of it between two handlers.
Consistent(r) ==
    /\ Sound(r)
    /\ r.state = "VOID" => ~r.reliable
    /\ r.state \in {"CONNECTING", "ACTIVE"} => r.vconn
    /\ r.state \in {"BACKOFF", "CONNECTING"} => r.reliable
    /\ r.state = "BACKOFF" => r.backoff > 0

TypeOK ==
    /\ inRun \in BOOLEAN
    /\ network \in {"ok", "silent", "refused"}
    /\ inbox \in {"none", "ordinary", "admission"}
    /\ since \in Nat
    /\ monitorsOpen \subseteq Monitor
    /\ connects \in Nat
    /\ crashed \in BOOLEAN

\* The age of a connection is that of last_connected, and a null vconn was used only
\* in the state that a lost probe leaves.
IInv ==
    /\ TypeOK
    /\ Consistent(rc)
    /\ is_connected_state(rc.state) => since = rc.last_connected
    /\ crashed => rc.state = "IDLE" /\ ~rc.vconn

\* From r to s no connection is made, and none of r goes on without its vconn or in
\* another state; what counts as admitted was admitted before.
Unmoved(r, s) ==
    /\ s.last_connected = r.last_connected
    /\ s.probably_admitted => r.probably_admitted
    /\ is_connected_state(s.state) => s.state = r.state /\ s.vconn = r.vconn

-----------------------------------------------------------------------------
(* The packets that are counted *)

\* The counted packets of a queue are finitely many.
LEMMA CountedIsFinite ==
    ASSUME NEW q \in Seq(Packets)
    PROVE  IsFiniteSet({i \in DOMAIN q : q[i].counted})
<1>1. IsFiniteSet(DOMAIN q)
  BY LenProperties, FS_Interval
<1> QED
  BY <1>1, FS_Subset

\* Their number is a natural number.
LEMMA CountedIsNat ==
    ASSUME NEW q \in Seq(Packets)
    PROVE  Counted(q) \in Nat
BY CountedIsFinite, FS_CardinalityType DEF Counted

\* A queue that is emptied counts nothing.
LEMMA CountedEmpty == Counted(<<>>) = 0
<1>1. {i \in DOMAIN <<>> : <<>>[i].counted} = {}
  OBVIOUS
<1> QED
  BY <1>1, FS_EmptySet DEF Counted

\* Push: one packet more is counted exactly when the caller counts the new one.
LEMMA CountedAppend ==
    ASSUME NEW q \in Seq(Packets), NEW b \in Packets
    PROVE  Counted(Append(q, b)) = Counted(q) + IF b.counted THEN 1 ELSE 0
<1> DEFINE a == Append(q, b)
           C == {i \in DOMAIN q : q[i].counted}
           D == {i \in DOMAIN a : a[i].counted}
<1>1. /\ DOMAIN a = 1..(Len(q) + 1) /\ DOMAIN q = 1..Len(q) /\ Len(q) \in Nat
      /\ \A i \in 1..Len(q) : a[i] = q[i]
      /\ a[Len(q) + 1] = b
  BY AppendProperties, LenProperties
<1>2. IsFiniteSet(C) /\ Counted(q) \in Nat
  BY CountedIsNat, CountedIsFinite
<1>3. CASE b.counted
  <2>1. D = C \union {Len(q) + 1} /\ Len(q) + 1 \notin C
    <3> HIDE DEF a
    <3> QED BY <1>1, <1>3
  <2> QED BY <1>2, <1>3, <2>1, FS_AddElement DEF Counted
<1>4. CASE ~b.counted
  <2>1. D = C
    <3> HIDE DEF a
    <3> QED BY <1>1, <1>4
  <2>2. Counted(a) = Counted(q)
    BY <2>1 DEF Counted
  <2> HIDE DEF a
  <2>3. Counted(a) = Counted(q) + IF b.counted THEN 1 ELSE 0
    BY <1>2, <1>4, <2>2
  <2> QED BY <2>3 DEF a
<1> QED
  BY <1>3, <1>4

\* do_tx_work: the packets that left and those that remain are counted apart.
LEMMA CountedSplit ==
    ASSUME NEW q \in Seq(Packets), NEW n \in 0..Len(q)
    PROVE  /\ SubSeq(q, n + 1, Len(q)) \in Seq(Packets)
           /\ Counted(SubSeq(q, 1, n)) + Counted(SubSeq(q, n + 1, Len(q))) = Counted(q)
<1> DEFINE a == SubSeq(q, 1, n)
           z == SubSeq(q, n + 1, Len(q))
           A == {i \in DOMAIN a : a[i].counted}
           Z == {i \in DOMAIN z : z[i].counted}
           Y == {i \in (n + 1)..Len(q) : q[i].counted}
           C == {i \in DOMAIN q : q[i].counted}
           f == [i \in Z |-> i + n]
<1>0. Len(q) \in Nat /\ DOMAIN q = 1..Len(q) /\ \A i \in 1..Len(q) : q[i] \in Packets
  BY LenProperties, ElementOfSeq
<1>1. /\ a \in Seq(Packets) /\ Len(a) = n /\ DOMAIN a = 1..n
      /\ \A i \in 1..n : a[i] = q[i]
  <2>1. /\ a \in Seq(Packets) /\ Len(a) = IF 1 <= n THEN n - 1 + 1 ELSE 0
        /\ \A i \in 1..(n - 1 + 1) : a[i] = q[1 + i - 1]
    BY <1>0, SubSeqProperties
  <2> QED BY <1>0, <2>1, LenProperties
<1>2. /\ z \in Seq(Packets) /\ Len(z) = Len(q) - n /\ DOMAIN z = 1..(Len(q) - n)
      /\ \A i \in 1..(Len(q) - n) : z[i] = q[i + n]
  <2>1. /\ z \in Seq(Packets)
        /\ Len(z) = IF n + 1 <= Len(q) THEN Len(q) - (n + 1) + 1 ELSE 0
        /\ \A i \in 1..(Len(q) - (n + 1) + 1) : z[i] = q[(n + 1) + i - 1]
    BY <1>0, SubSeqProperties
  <2>2. Len(z) = Len(q) - n
    <3>1. Len(z) = IF n + 1 <= Len(q) THEN Len(q) - (n + 1) + 1 ELSE 0
      BY <2>1
    <3> DEFINE k == Len(q)
               l == Len(z)
    <3>2. k \in Nat /\ n \in 0..k /\ l = IF n + 1 <= k THEN k - (n + 1) + 1 ELSE 0
      BY <1>0, <3>1
    <3> HIDE DEF k, l
    <3>3. l = k - n BY <3>2
    <3> QED BY <3>3 DEF k, l
  <2>3. DOMAIN z = 1..Len(z)
    BY <2>1, LenProperties
  <2>4. \A i \in 1..(Len(q) - n) : z[i] = q[i + n]
    <3>1. SUFFICES ASSUME NEW i \in 1..(Len(q) - n) PROVE z[i] = q[i + n]
      OBVIOUS
    <3> HIDE DEF z
    <3>2. i \in 1..(Len(q) - (n + 1) + 1) /\ (n + 1) + i - 1 = i + n
      BY <1>0
    <3> QED BY <2>1, <3>2
  <2> QED BY <2>1, <2>2, <2>3, <2>4
<1>3. /\ IsFiniteSet(A) /\ IsFiniteSet(Z) /\ IsFiniteSet(C)
      /\ Counted(a) = Cardinality(A) /\ Counted(z) = Cardinality(Z)
      /\ Counted(q) = Cardinality(C)
  BY <1>1, <1>2, CountedIsFinite DEF Counted
<1> HIDE DEF a, z
<1>4. Cardinality(Y) = Cardinality(Z) /\ IsFiniteSet(Y)
  <2>1. \A i \in Z : f[i] \in Y
    BY <1>0, <1>2
  <2>2. \A i, j \in Z : f[i] = f[j] => i = j
    BY <1>0, <1>2
  <2>3. \A j \in Y : j - n \in Z /\ f[j - n] = j
    <3>1. SUFFICES ASSUME NEW j \in Y PROVE j - n \in Z /\ f[j - n] = j
      OBVIOUS
    <3>2. j \in Int /\ j - n \in 1..(Len(q) - n) /\ (j - n) + n = j /\ q[j].counted
      BY <1>0
    <3>3. z[j - n] = q[j]
      BY <1>2, <3>2
    <3> QED BY <1>2, <3>2, <3>3
  <2>4. f \in Bijection(Z, Y)
    <3> HIDE DEF Z, Y
    <3>1. f \in [Z -> Y] BY <2>1
    <3> HIDE DEF f
    <3> QED BY <2>2, <2>3, <3>1 DEF Bijection, Injection, Surjection, IsInjective
  <2> QED BY <1>3, <2>4, FS_Bijection DEF ExistsBijection
<1>5. C = A \union Y /\ A \intersect Y = {}
  BY <1>0, <1>1
<1> HIDE DEF A, Z, Y, C
<1>6. /\ Cardinality(C) = Cardinality(A) + Cardinality(Y) - 0
      /\ Cardinality(A) \in Nat /\ Cardinality(Y) \in Nat
  BY <1>3, <1>4, <1>5, FS_Union, FS_EmptySet, FS_CardinalityType
<1> QED
  BY <1>2, <1>3, <1>4, <1>6 DEF a, z

\* try_send: the packet that leaves is no longer counted.
LEMMA CountedTail ==
    ASSUME NEW q \in Seq(Packets), q # <<>>
    PROVE  /\ Tail(q) \in Seq(Packets)
           /\ Counted(Tail(q)) = Counted(q) - IF Head(q).counted THEN 1 ELSE 0
<1> DEFINE a == SubSeq(q, 1, 1)
<1>1. Len(q) \in Nat /\ 1 \in 0..Len(q) /\ \A i \in 1..1 : q[i] \in Packets
  BY LenProperties, EmptySeq, ElementOfSeq
<1>2. Tail(q) = SubSeq(q, 2, Len(q))
  BY TailIsSubSeq
<1>3. /\ Counted(a) + Counted(Tail(q)) = Counted(q) /\ Tail(q) \in Seq(Packets)
  <2>1. /\ SubSeq(q, 1 + 1, Len(q)) \in Seq(Packets)
        /\ Counted(SubSeq(q, 1, 1)) + Counted(SubSeq(q, 1 + 1, Len(q))) = Counted(q)
    BY <1>1, CountedSplit
  <2>2. SubSeq(q, 1 + 1, Len(q)) = Tail(q)
    BY <1>2
  <2> QED BY <2>1, <2>2
<1>4. a \in Seq(Packets) /\ Len(a) = 1 /\ a[1] = q[1]
  BY <1>1, SubSeqProperties
<1>5. DOMAIN a = {1} /\ Head(q) = q[1]
  BY <1>4, LenProperties
<1> HIDE DEF a
<1>6. Counted(a) = IF Head(q).counted THEN 1 ELSE 0
  <2>1. CASE Head(q).counted
    <3>1. {i \in DOMAIN a : a[i].counted} = {1} BY <1>4, <1>5, <2>1
    <3> QED BY <2>1, <3>1, FS_Singleton DEF Counted
  <2>2. CASE ~Head(q).counted
    <3>1. {i \in DOMAIN a : a[i].counted} = {} BY <1>4, <1>5, <2>2
    <3> QED BY <2>2, <3>1, FS_EmptySet DEF Counted
  <2> QED BY <2>1, <2>2
<1>7. Counted(q) \in Nat /\ Counted(Tail(q)) \in Nat
  BY <1>3, CountedIsNat
<1> QED
  BY <1>3, <1>6, <1>7

-----------------------------------------------------------------------------
(* What the operations on struct rconn keep *)

\* The backoff that disconnect chooses lies between 1 and max_backoff.
LEMMA NextBackoffBounded ==
    ASSUME NEW r \in Rconns
    PROVE  next_backoff(r) \in 1..max_backoff
<1>1. max_backoff \in Nat \ {0} BY RconnAssumption
<1>2. r.backoff \in 0..max_backoff BY DEF Rconns
<1> QED
  BY <1>1, <1>2 DEF next_backoff, MinOf, MaxOf

\* A transition changes state, state_entered and probably_admitted only.
LEMMA TransitionKeeps ==
    ASSUME NEW r \in Rconns, NEW s \in States
    PROVE  /\ state_transition(r, s) \in Rconns
           /\ state_transition(r, s).state = s
           /\ state_transition(r, s).vconn = r.vconn
           /\ state_transition(r, s).name = r.name
           /\ state_transition(r, s).reliable = r.reliable
           /\ state_transition(r, s).txq = r.txq
           /\ state_transition(r, s).n_queued = r.n_queued
           /\ state_transition(r, s).backoff = r.backoff
           /\ state_transition(r, s).last_admitted = r.last_admitted
           /\ state_transition(r, s).last_connected = r.last_connected
           /\ state_transition(r, s).probably_admitted => r.probably_admitted
BY DEF state_transition, Rconns, is_connected_state, ConnectedStates

\* An rconn with another queue and another count of it.
Requeued(r, q, n) == [r EXCEPT !.txq = q, !.n_queued = n]

\* Nothing but the queue and its count changes.
LEMMA RequeuedKeeps ==
    ASSUME NEW r \in Rconns, NEW q \in Seq(Packets), NEW n \in Int
    PROVE  /\ Requeued(r, q, n) \in Rconns
           /\ Requeued(r, q, n).txq = q /\ Requeued(r, q, n).n_queued = n
           /\ Requeued(r, q, n).state = r.state
           /\ Requeued(r, q, n).vconn = r.vconn
           /\ Requeued(r, q, n).name = r.name
           /\ Requeued(r, q, n).reliable = r.reliable
           /\ Requeued(r, q, n).backoff = r.backoff
           /\ Requeued(r, q, n).last_admitted = r.last_admitted
           /\ Requeued(r, q, n).last_connected = r.last_connected
           /\ Requeued(r, q, n).probably_admitted = r.probably_admitted
BY DEF Requeued, Rconns

\* A queue whose count is right leaves an rconn sound.
LEMMA RequeuedIsSound ==
    ASSUME NEW r, Sound(r), NEW q \in Seq(Packets), Counted(q) <= queue_limit
    PROVE  Sound(Requeued(r, q, Counted(q)))
<1>1. r \in Rconns
  BY DEF Sound
<1>2. Counted(q) \in Int
  BY CountedIsNat
<1> QED
  BY <1>1, <1>2, RequeuedKeeps DEF Sound

\* A flushed queue is empty and nothing of it is counted any more.
LEMMA FlushIsSound ==
    ASSUME NEW r, Sound(r)
    PROVE  /\ Sound(flush_queue(r))
           /\ flush_queue(r).state = r.state /\ flush_queue(r).name = r.name
           /\ flush_queue(r).reliable = r.reliable /\ flush_queue(r).vconn = r.vconn
           /\ flush_queue(r).n_queued = 0
<1>1. r \in Rconns /\ r.n_queued = Counted(r.txq) /\ r.txq \in Seq(Packets)
  BY DEF Sound, Rconns
<1>2. Counted(r.txq) \in Nat
  BY <1>1, CountedIsNat
<1>3. r.n_queued - Counted(r.txq) = 0
  BY <1>1, <1>2
<1> DEFINE none == <<>>
<1>4. none \in Seq(Packets) /\ Counted(none) = 0 /\ Counted(none) <= queue_limit
  <2>1. Counted(none) = 0
    BY CountedEmpty
  <2>2. 0 <= queue_limit
    BY RconnAssumption
  <2> QED BY <2>1, <2>2, EmptySeq
<1>5. flush_queue(r) = Requeued(r, none, 0)
  BY <1>3 DEF flush_queue, Requeued
<1> HIDE DEF none
<1>6. Sound(flush_queue(r))
  BY <1>4, <1>5, RequeuedIsSound
<1> DEFINE t == Requeued(r, none, 0)
<1>7. /\ t.state = r.state /\ t.name = r.name
      /\ t.reliable = r.reliable /\ t.vconn = r.vconn /\ t.n_queued = 0
  BY <1>1, <1>4, RequeuedKeeps
<1> HIDE DEF t
<1> QED
  BY <1>5, <1>6, <1>7 DEF t

\* rconn_disconnect leaves nothing open and nothing to reconnect to.
LEMMA DisconnectedIsConsistent ==
    ASSUME NEW r, Sound(r), r.state = "VOID" => ~r.reliable
    PROVE  /\ Consistent(rconn_disconnect(r))
           /\ rconn_disconnect(r).state = "VOID"
           /\ rconn_disconnect(r).last_admitted = r.last_admitted
<1>1. CASE r.state = "VOID"
  BY <1>1 DEF rconn_disconnect, Consistent
<1>2. CASE r.state # "VOID"
  <2> DEFINE d == [r EXCEPT !.vconn = FALSE, !.name = "void", !.reliable = FALSE,
                            !.backoff = 0, !.backoff_deadline = 0]
             t == state_transition(d, "VOID")
  <2>1. /\ d \in Rconns /\ d.vconn = FALSE /\ d.reliable = FALSE
        /\ d.txq = r.txq /\ d.n_queued = r.n_queued
        /\ d.last_admitted = r.last_admitted
    <3>1. 0 \in 0..max_backoff /\ 0 \in 0..Never
      BY RconnAssumption DEF Never
    <3> QED BY <3>1 DEF Sound, Rconns, Names
  <2>2. rconn_disconnect(r) = t
    BY <1>2 DEF rconn_disconnect
  <2> HIDE DEF d
  <2>3. /\ t \in Rconns /\ t.state = "VOID" /\ t.vconn = FALSE /\ t.reliable = FALSE
        /\ t.txq = r.txq /\ t.n_queued = r.n_queued
        /\ t.last_admitted = r.last_admitted
    BY <2>1, TransitionKeeps DEF States
  <2> HIDE DEF t
  <2>4. Consistent(t)
    BY <2>3 DEF Consistent, Sound
  <2> QED BY <2>2, <2>3, <2>4
<1> QED
  BY <1>1, <1>2

\* question_connectivity only raises a flag.
LEMMA QuestionKeeps ==
    ASSUME NEW r \in Rconns
    PROVE  /\ question_connectivity(r) \in Rconns
           /\ question_connectivity(r).state = r.state
           /\ question_connectivity(r).vconn = r.vconn
           /\ question_connectivity(r).name = r.name
           /\ question_connectivity(r).reliable = r.reliable
           /\ question_connectivity(r).txq = r.txq
           /\ question_connectivity(r).n_queued = r.n_queued
           /\ question_connectivity(r).backoff = r.backoff
           /\ question_connectivity(r).last_admitted = r.last_admitted
           /\ question_connectivity(r).last_connected = r.last_connected
           /\ question_connectivity(r).probably_admitted = r.probably_admitted
BY DEF question_connectivity, Rconns

\* disconnect may be called wherever an rconn is sound: it closes the vconn, and what
\* it leaves is consistent.
LEMMA DisconnectIsConsistent ==
    ASSUME NEW r, Sound(r)
    PROVE  /\ Consistent(disconnect(r))
           /\ disconnect(r).last_admitted = r.last_admitted
<1>1. CASE ~r.reliable
  BY <1>1, DisconnectedIsConsistent DEF disconnect
<1>2. CASE r.reliable
  <2> DEFINE open == r.state \in ConnectedStates \union {"CONNECTING"}
             shut == [r EXCEPT !.vconn = FALSE]
             closed == IF open THEN flush_queue(shut) ELSE r
             b == next_backoff(r)
             later == [closed EXCEPT !.backoff = b, !.backoff_deadline = b]
             waiting == state_transition(later, "BACKOFF")
  <2>1. r \in Rconns /\ r.name \in Peer
    BY <1>2 DEF Sound
  <2>2. b \in 1..max_backoff
    BY <2>1, NextBackoffBounded
  <2>3. /\ Sound(closed) /\ closed.reliable = TRUE /\ closed.name = r.name
        /\ closed.vconn = FALSE /\ closed.last_admitted = r.last_admitted
    <3>1. CASE open
      <4>1. /\ Sound(shut) /\ shut.reliable = TRUE /\ shut.name = r.name
            /\ shut.vconn = FALSE /\ shut.last_admitted = r.last_admitted
        BY <1>2 DEF Sound, Rconns
      <4>2. flush_queue(shut).last_admitted = shut.last_admitted
        BY <4>1 DEF flush_queue, Sound, Rconns
      <4> HIDE DEF shut
      <4>3. /\ Sound(flush_queue(shut)) /\ flush_queue(shut).reliable = shut.reliable
            /\ flush_queue(shut).name = shut.name /\ flush_queue(shut).vconn = shut.vconn
        BY <4>1, FlushIsSound
      <4> HIDE DEF open
      <4> QED BY <3>1, <4>1, <4>2, <4>3
    <3>2. CASE ~open
      <4>1. r.state \in {"VOID", "BACKOFF"} /\ r.reliable = TRUE /\ r.vconn = FALSE
        BY <1>2, <2>1, <3>2 DEF Sound, Rconns, States, ConnectedStates
      <4> HIDE DEF open
      <4> QED BY <3>2, <4>1
    <3> QED BY <3>1, <3>2
  <2> HIDE DEF closed
  <2>4. /\ later \in Rconns /\ later.backoff = b /\ later.reliable = TRUE
        /\ later.name = r.name /\ later.vconn = FALSE
        /\ later.txq = closed.txq /\ later.n_queued = closed.n_queued
        /\ later.last_admitted = r.last_admitted
    <3>1. b \in 0..max_backoff /\ b \in 0..Never /\ closed \in Rconns
      BY <2>2, <2>3, RconnAssumption DEF Never, Sound
    <3> HIDE DEF b
    <3> QED BY <2>3, <3>1 DEF Rconns
  <2> HIDE DEF later
  <2>5. /\ waiting \in Rconns /\ waiting.state = "BACKOFF" /\ waiting.backoff = b
        /\ waiting.reliable = TRUE /\ waiting.name = r.name /\ waiting.vconn = FALSE
        /\ waiting.txq = closed.txq /\ waiting.n_queued = closed.n_queued
        /\ waiting.last_admitted = r.last_admitted
    BY <2>4, TransitionKeeps DEF States
  <2>6. disconnect(r) = IF r.last_connected > QuestionPeriod
                        THEN question_connectivity(waiting) ELSE waiting
    BY <1>2 DEF disconnect, waiting, later, closed, b
  <2> HIDE DEF waiting
  <2> DEFINE w == question_connectivity(waiting)
  <2>7. /\ w \in Rconns /\ w.state = "BACKOFF" /\ w.backoff = b
        /\ w.reliable = TRUE /\ w.name = r.name /\ w.vconn = FALSE
        /\ w.txq = closed.txq /\ w.n_queued = closed.n_queued
        /\ w.last_admitted = r.last_admitted
    BY <2>5, QuestionKeeps
  <2> HIDE DEF w, b
  <2>8. /\ closed.n_queued = Counted(closed.txq) /\ closed.n_queued <= queue_limit
        /\ b > 0
    BY <2>2, <2>3 DEF Sound
  <2>9. Sound(waiting) /\ Sound(w)
    BY <2>1, <2>5, <2>7, <2>8 DEF Sound
  <2>10. Consistent(waiting)
    BY <2>5, <2>8, <2>9 DEF Consistent
  <2>11. Consistent(w)
    BY <2>7, <2>8, <2>9 DEF Consistent
  <2> QED BY <2>5, <2>6, <2>7, <2>10, <2>11 DEF w
<1> QED
  BY <1>1, <1>2

\* disconnect makes no connection and admits nothing, and what it leaves is not connected.
LEMMA DisconnectUnmoved ==
    ASSUME NEW r \in Rconns
    PROVE  /\ Unmoved(r, rconn_disconnect(r))
           /\ Unmoved(r, disconnect(r))
           /\ disconnect(r).state \in {"VOID", "BACKOFF"}
<1>1. rconn_disconnect(r).state = "VOID" /\ Unmoved(r, rconn_disconnect(r))
  <2>1. CASE r.state = "VOID"
    BY <2>1 DEF rconn_disconnect, Unmoved
  <2>2. CASE r.state # "VOID"
    <3> DEFINE d == [r EXCEPT !.vconn = FALSE, !.name = "void", !.reliable = FALSE,
                              !.backoff = 0, !.backoff_deadline = 0]
    <3>1. /\ d \in Rconns /\ d.last_connected = r.last_connected
          /\ d.probably_admitted = r.probably_admitted
      <4>1. 0 \in 0..max_backoff /\ 0 \in 0..Never
        BY RconnAssumption DEF Never
      <4> QED BY <4>1 DEF Rconns, Names
    <3>2. rconn_disconnect(r) = state_transition(d, "VOID")
      BY <2>2 DEF rconn_disconnect
    <3> HIDE DEF d
    <3> QED BY <3>1, <3>2, TransitionKeeps DEF Unmoved, States, is_connected_state, ConnectedStates
  <2> QED BY <2>1, <2>2
<1>2. CASE ~r.reliable
  BY <1>1, <1>2 DEF disconnect
<1>3. CASE r.reliable
  <2> DEFINE shut == flush_queue([r EXCEPT !.vconn = FALSE])
             closed == IF r.state \in ConnectedStates \union {"CONNECTING"} THEN shut ELSE r
             b == next_backoff(r)
             later == [closed EXCEPT !.backoff = b, !.backoff_deadline = b]
             waiting == state_transition(later, "BACKOFF")
             w == question_connectivity(waiting)
  <2>1. /\ DOMAIN closed = DOMAIN r /\ closed.last_connected = r.last_connected
        /\ closed.probably_admitted = r.probably_admitted
    BY DEF flush_queue, Rconns
  <2> HIDE DEF closed, b
  <2>2. /\ DOMAIN later = DOMAIN r /\ later.last_connected = r.last_connected
        /\ later.probably_admitted = r.probably_admitted
    BY <2>1 DEF Rconns
  <2> HIDE DEF later
  <2>3. /\ waiting.last_connected = r.last_connected /\ waiting.state = "BACKOFF"
        /\ waiting.probably_admitted = r.probably_admitted /\ DOMAIN waiting = DOMAIN r
    BY <2>2 DEF state_transition, Rconns, is_connected_state, ConnectedStates
  <2>4. disconnect(r) = IF r.last_connected > QuestionPeriod THEN w ELSE waiting
    BY <1>3 DEF disconnect, waiting, later, closed, b
  <2> HIDE DEF waiting
  <2>5. /\ w.last_connected = r.last_connected /\ w.state = "BACKOFF"
        /\ w.probably_admitted = r.probably_admitted
    BY <2>3 DEF question_connectivity, Rconns
  <2> HIDE DEF w
  <2> QED BY <1>1, <2>3, <2>4, <2>5 DEF Unmoved, is_connected_state, ConnectedStates
<1> QED
  BY <1>1, <1>2, <1>3

\* Nor does reconnect: an attempt is not a connection yet.
LEMMA ReconnectUnmoved ==
    ASSUME NEW r \in Rconns, NEW o
    PROVE  Unmoved(r, reconnect(r, o))
<1>1. CASE o
  <2> DEFINE q == [r EXCEPT !.vconn = TRUE, !.backoff_deadline = r.backoff]
  <2>1. /\ q \in Rconns /\ q.last_connected = r.last_connected
        /\ q.probably_admitted = r.probably_admitted
    <3>1. r.backoff \in 0..Never
      <4>1. r.backoff \in 0..max_backoff
        BY DEF Rconns
      <4> QED BY <4>1, RconnAssumption DEF Never
    <3> QED BY <3>1 DEF Rconns
  <2>2. reconnect(r, o) = state_transition(q, "CONNECTING")
    BY <1>1 DEF reconnect
  <2> HIDE DEF q
  <2> QED BY <2>1, <2>2, TransitionKeeps DEF Unmoved, States, is_connected_state, ConnectedStates
<1>2. CASE ~o
  <2> DEFINE q == [r EXCEPT !.backoff_deadline = Never]
  <2>1. /\ q \in Rconns /\ q.last_connected = r.last_connected
        /\ q.probably_admitted = r.probably_admitted /\ q.state = r.state /\ q.vconn = r.vconn
    <3>1. Never \in 0..Never
      BY RconnAssumption DEF Never
    <3> QED BY <3>1 DEF Rconns
  <2>2. reconnect(r, o) = disconnect(q)
    BY <1>2 DEF reconnect
  <2> HIDE DEF q
  <2> QED BY <2>1, <2>2, DisconnectUnmoved DEF Unmoved
<1> QED
  BY <1>1, <1>2

\* reconnect opens a vconn, or waits again.
LEMMA ReconnectIsConsistent ==
    ASSUME NEW r, Sound(r), r.reliable, NEW o \in BOOLEAN
    PROVE  /\ Consistent(reconnect(r, o))
           /\ reconnect(r, o).last_admitted = r.last_admitted
<1>1. /\ r \in Rconns /\ r.name \in Peer /\ r.reliable = TRUE
      /\ r.backoff \in 0..max_backoff
  BY DEF Sound, Rconns
<1>2. CASE o
  <2> DEFINE q == [r EXCEPT !.vconn = TRUE, !.backoff_deadline = r.backoff]
             t == state_transition(q, "CONNECTING")
  <2>1. /\ q \in Rconns /\ q.vconn = TRUE /\ q.name = r.name /\ q.reliable = TRUE
        /\ q.txq = r.txq /\ q.n_queued = r.n_queued
        /\ q.last_admitted = r.last_admitted
    <3>1. r.backoff \in 0..Never
      BY <1>1, RconnAssumption DEF Never
    <3> QED BY <1>1, <3>1 DEF Rconns
  <2> HIDE DEF q
  <2>2. /\ t \in Rconns /\ t.state = "CONNECTING" /\ t.vconn = TRUE
        /\ t.name = r.name /\ t.reliable = TRUE
        /\ t.txq = r.txq /\ t.n_queued = r.n_queued
        /\ t.last_admitted = r.last_admitted
    BY <2>1, TransitionKeeps DEF States
  <2>3. reconnect(r, o) = t
    BY <1>2 DEF reconnect, q
  <2> HIDE DEF t
  <2>4. Consistent(t)
    BY <1>1, <2>2 DEF Consistent, Sound
  <2> QED BY <2>2, <2>3, <2>4
<1>3. CASE ~o
  <2> DEFINE q == [r EXCEPT !.backoff_deadline = Never]
  <2>1. q \in Rconns /\ q.last_admitted = r.last_admitted /\ Sound(q)
    <3>1. Never \in 0..Never
      BY RconnAssumption DEF Never
    <3> QED BY <1>1, <3>1 DEF Rconns, Sound
  <2>2. reconnect(r, o) = disconnect(q)
    BY <1>3 DEF reconnect
  <2> HIDE DEF q
  <2>3. Consistent(disconnect(q)) /\ disconnect(q).last_admitted = q.last_admitted
    BY <2>1, DisconnectIsConsistent
  <2> QED BY <2>1, <2>2, <2>3
<1> QED
  BY <1>2, <1>3

\* A queue whose count is right leaves an rconn consistent.
LEMMA RequeuedIsConsistent ==
    ASSUME NEW r, Consistent(r), NEW q \in Seq(Packets), Counted(q) <= queue_limit
    PROVE  /\ Consistent(Requeued(r, q, Counted(q)))
           /\ Requeued(r, q, Counted(q)).last_admitted = r.last_admitted
           /\ Requeued(r, q, Counted(q)).state = r.state
           /\ Requeued(r, q, Counted(q)).txq = q
           /\ Unmoved(r, Requeued(r, q, Counted(q)))
<1>1. r \in Rconns /\ Sound(r) /\ Counted(q) \in Int
  BY CountedIsNat DEF Consistent, Sound
<1> DEFINE t == Requeued(r, q, Counted(q))
<1>2. /\ t \in Rconns /\ t.txq = q /\ t.state = r.state /\ t.vconn = r.vconn
      /\ t.name = r.name /\ t.reliable = r.reliable /\ t.backoff = r.backoff
      /\ t.last_admitted = r.last_admitted /\ t.last_connected = r.last_connected
      /\ t.probably_admitted = r.probably_admitted
  BY <1>1, RequeuedKeeps
<1>3. Sound(t)
  BY <1>1, RequeuedIsSound
<1> HIDE DEF t
<1>4. Consistent(t)
  BY <1>2, <1>3 DEF Consistent
<1>5. Unmoved(r, t)
  BY <1>2 DEF Unmoved
<1> QED
  BY <1>2, <1>4, <1>5 DEF t

\* try_send: the first packet leaves, stays, or the connection is lost.
LEMMA TrySendIsConsistent ==
    ASSUME NEW r, Consistent(r), r.txq # <<>>, NEW x
    PROVE  /\ Consistent(try_send(r, x))
           /\ try_send(r, x).last_admitted = r.last_admitted
           /\ Unmoved(r, try_send(r, x))
           /\ x # "error" => try_send(r, x).state = r.state
<1>1. /\ r \in Rconns /\ Sound(r) /\ r.txq \in Seq(Packets) /\ r.n_queued \in Int
      /\ r.n_queued = Counted(r.txq)
  BY DEF Consistent, Sound, Rconns
<1>2. CASE x = "ok"
  <2>1. /\ Tail(r.txq) \in Seq(Packets)
        /\ Counted(Tail(r.txq)) = r.n_queued - IF Head(r.txq).counted THEN 1 ELSE 0
    BY <1>1, CountedTail
  <2>0. Counted(Tail(r.txq)) <= queue_limit
    <3>1. /\ r.n_queued \in Int /\ queue_limit \in Int
          /\ r.n_queued <= queue_limit
      BY <1>1, RconnAssumption DEF Sound
    <3>2. IF Head(r.txq).counted THEN r.n_queued - 1 <= queue_limit
                                 ELSE r.n_queued <= queue_limit
      BY <3>1
    <3>3. \/ Counted(Tail(r.txq)) = r.n_queued - 1
          \/ Counted(Tail(r.txq)) = r.n_queued - 0
      BY <2>1
    <3> QED BY <3>1, <3>3
  <2>2. Sent(r) = Requeued(r, Tail(r.txq), Counted(Tail(r.txq)))
    BY <2>1 DEF Sent, Requeued
  <2> DEFINE t == Requeued(r, Tail(r.txq), Counted(Tail(r.txq)))
  <2>3. /\ Consistent(t) /\ t.last_admitted = r.last_admitted
        /\ Unmoved(r, t) /\ t.state = r.state
    BY <2>0, <2>1, RequeuedIsConsistent
  <2> HIDE DEF t
  <2> QED BY <1>2, <2>2, <2>3 DEF try_send, t
<1>3. CASE x = "error"
  BY <1>1, <1>3, DisconnectIsConsistent, DisconnectUnmoved DEF try_send
<1>4. CASE x \notin {"ok", "error"}
  BY <1>4 DEF try_send, Unmoved
<1> QED
  BY <1>2, <1>3, <1>4

\* do_tx_work, however far it gets.
LEMMA TxWorkIsConsistent ==
    ASSUME NEW r, Consistent(r), NEW s \in do_tx_work(r)
    PROVE  Consistent(s) /\ s.last_admitted = r.last_admitted /\ Unmoved(r, s)
<1> DEFINE q == r.txq
           after(n) == SentFirst(r, n)
<1>1. /\ r \in Rconns /\ q \in Seq(Packets) /\ r.n_queued = Counted(q)
      /\ Len(q) \in Nat
  BY LenProperties DEF Consistent, Sound, Rconns
<1>2. ASSUME NEW n \in 0..Len(q)
      PROVE  /\ Consistent(after(n)) /\ after(n).last_admitted = r.last_admitted
             /\ after(n).txq = SubSeq(q, n + 1, Len(q)) /\ Unmoved(r, after(n))
  <2> DEFINE a == SubSeq(q, 1, n)
             z == SubSeq(q, n + 1, Len(q))
             t == Requeued(r, z, Counted(z))
  <2>1. z \in Seq(Packets) /\ Counted(a) + Counted(z) = Counted(q)
    BY <1>1, CountedSplit
  <2>2. a \in Seq(Packets)
    <3>1. \A i \in 1..n : q[i] \in Packets
      BY <1>1, ElementOfSeq
    <3> QED BY <1>1, <3>1, SubSeqProperties
  <2>3. Counted(a) \in Nat /\ Counted(z) \in Nat /\ Counted(q) \in Nat
    BY <1>1, <2>1, <2>2, CountedIsNat
  <2>4. after(n) = [r EXCEPT !.txq = z, !.n_queued = r.n_queued - Counted(a)]
    BY DEF SentFirst
  <2> HIDE DEF a, z
  <2>5. r.n_queued - Counted(a) = Counted(z)
    BY <1>1, <2>1, <2>3
  <2>8. Counted(z) <= queue_limit
    <3>1. queue_limit \in Nat /\ Counted(q) <= queue_limit
      BY <1>1, RconnAssumption DEF Consistent, Sound
    <3> QED BY <2>1, <2>3, <3>1
  <2>6. after(n) = t
    BY <2>4, <2>5 DEF Requeued
  <2>7. Consistent(t) /\ t.last_admitted = r.last_admitted /\ t.txq = z /\ Unmoved(r, t)
    BY <2>1, <2>8, RequeuedIsConsistent
  <2> HIDE DEF t, after
  <2> QED BY <2>6, <2>7 DEF z
<1>3. CASE s = after(Len(q))
  <2>1. Len(q) \in 0..Len(q)
    BY <1>1
  <2> HIDE DEF after, q
  <2> QED BY <1>2, <1>3, <2>1
<1>4. ASSUME NEW n \in 0..(Len(q) - 1), NEW x \in SendResults, s = try_send(after(n), x)
      PROVE  Consistent(s) /\ s.last_admitted = r.last_admitted /\ Unmoved(r, s)
  <2>1. n \in 0..Len(q) /\ n + 1 <= Len(q)
    BY <1>1
  <2>2. SubSeq(q, n + 1, Len(q)) # <<>>
    <3>1. \A i \in (n + 1)..Len(q) : q[i] \in Packets
      BY <1>1, ElementOfSeq
    <3>2. Len(SubSeq(q, n + 1, Len(q))) = Len(q) - (n + 1) + 1
      BY <1>1, <2>1, <3>1, SubSeqProperties
    <3>3. Len(SubSeq(q, n + 1, Len(q))) # 0
      BY <1>1, <2>1, <3>2
    <3> QED BY <3>3, EmptySeq
  <2>3. /\ Consistent(after(n)) /\ after(n).last_admitted = r.last_admitted
        /\ after(n).txq # <<>> /\ Unmoved(r, after(n))
    BY <1>2, <2>1, <2>2
  <2> HIDE DEF after
  <2>4. Consistent(s) /\ s.last_admitted = after(n).last_admitted /\ Unmoved(after(n), s)
    BY <1>4, <2>3, TrySendIsConsistent
  <2> QED BY <2>3, <2>4 DEF Unmoved
<1>5. \/ s = after(Len(q))
      \/ \E n \in 0..(Len(q) - 1), x \in SendResults : s = try_send(after(n), x)
  BY DEF do_tx_work
<1> QED
  BY <1>3, <1>4, <1>5

\* A packet that is queued is counted if its caller counts it.
LEMMA PushIsConsistent ==
    ASSUME NEW r, Consistent(r), NEW b \in Packets,
           b.counted => r.n_queued < queue_limit
    PROVE  /\ Consistent(Push(r, b)) /\ Push(r, b).last_admitted = r.last_admitted
           /\ Push(r, b).txq # <<>> /\ Unmoved(r, Push(r, b))
           /\ Push(r, b).state = r.state /\ Push(r, b).txq = Append(r.txq, b)
<1> DEFINE q == Append(r.txq, b)
           t == Requeued(r, q, Counted(q))
<1>1. r.txq \in Seq(Packets) /\ r.n_queued = Counted(r.txq)
  BY DEF Consistent, Sound, Rconns
<1>2. /\ q \in Seq(Packets) /\ q # <<>>
      /\ Counted(q) = r.n_queued + IF b.counted THEN 1 ELSE 0
  BY <1>1, AppendProperties, CountedAppend
<1>5. Counted(q) <= queue_limit
  <2>1. /\ r.n_queued \in Int /\ queue_limit \in Int /\ r.n_queued <= queue_limit
        /\ b.counted \in BOOLEAN
    BY RconnAssumption DEF Consistent, Sound, Rconns, Packets
  <2> HIDE DEF q
  <2>2. CASE b.counted
    <3>1. Counted(q) = r.n_queued + 1 BY <1>2, <2>2
    <3> QED BY <2>1, <2>2, <3>1
  <2>3. CASE ~b.counted
    <3>1. Counted(q) = r.n_queued + 0 BY <1>2, <2>3
    <3> QED BY <2>1, <3>1
  <2> QED BY <2>2, <2>3
<1>3. Push(r, b) = t
  BY <1>2 DEF Push, Requeued
<1> HIDE DEF q
<1>4. /\ Consistent(t) /\ t.last_admitted = r.last_admitted /\ t.txq = q
      /\ Unmoved(r, t) /\ t.state = r.state
  BY <1>2, <1>5, RequeuedIsConsistent
<1> HIDE DEF t
<1>6. Push(r, b).txq # <<>> /\ Push(r, b).txq = q
  BY <1>2, <1>3, <1>4
<1> QED
  BY <1>3, <1>4, <1>6 DEF q

\* rconn_send, whatever the vconn and the monitors do.
LEMMA SendIsConsistent ==
    ASSUME NEW r, Consistent(r), NEW b \in Packets,
           b.counted => r.n_queued < queue_limit,
           NEW s \in rconn_send(r, b)
    PROVE  /\ Consistent(s) /\ s.last_admitted = r.last_admitted /\ Unmoved(r, s)
           /\ is_connected_state(r.state) /\ ~is_connected_state(s.state)
                => r.txq = <<>> /\ network = "refused"
<1>1. CASE ~is_connected_state(r.state)
  BY <1>1 DEF rconn_send, Unmoved
<1>2. CASE is_connected_state(r.state)
  <2>1. ASSUME NEW m \in copy_to_monitor(r)
        PROVE  /\ Consistent(m) /\ m.last_admitted = r.last_admitted
               /\ m.n_queued = r.n_queued /\ m.txq = r.txq /\ m.state = r.state
               /\ Unmoved(r, m)
    <3>1. PICK failing \in SUBSET r.monitors : m = [r EXCEPT !.monitors = @ \ failing]
      BY DEF copy_to_monitor
    <3>2. r \in Rconns /\ r.monitors \ failing \in SUBSET Monitor
      BY DEF Consistent, Sound, Rconns
    <3>3. m \in Rconns /\ m.last_admitted = r.last_admitted
      BY <3>1, <3>2 DEF Rconns
    <3>4. /\ m.state = r.state /\ m.vconn = r.vconn /\ m.name = r.name
          /\ m.reliable = r.reliable /\ m.backoff = r.backoff
          /\ m.txq = r.txq /\ m.n_queued = r.n_queued
          /\ m.last_connected = r.last_connected /\ m.probably_admitted = r.probably_admitted
      BY <3>1, <3>2 DEF Rconns
    <3>5. Consistent(m)
      BY <3>3, <3>4 DEF Consistent, Sound
    <3>6. Unmoved(r, m)
      BY <3>4 DEF Unmoved
    <3> QED BY <3>3, <3>4, <3>5, <3>6
  <2>2. ASSUME NEW m \in copy_to_monitor(r)
        PROVE  LET q == Push(m, b) IN
               /\ Consistent(q) /\ q.last_admitted = r.last_admitted /\ Unmoved(r, q)
               /\ q.state = r.state /\ q.txq # <<>> /\ q.txq = Append(r.txq, b)
    <3> DEFINE q == Push(m, b)
    <3>1. /\ Consistent(m) /\ m.last_admitted = r.last_admitted /\ Unmoved(r, m)
          /\ b.counted => m.n_queued < queue_limit
          /\ m.state = r.state /\ m.txq = r.txq
      BY <2>1
    <3>2. /\ Consistent(q) /\ q.last_admitted = m.last_admitted /\ Unmoved(m, q)
          /\ q.state = m.state /\ q.txq # <<>> /\ q.txq = Append(m.txq, b)
      BY <3>1, PushIsConsistent
    <3> HIDE DEF q
    <3>3. Unmoved(r, q)
      BY <3>1, <3>2 DEF Unmoved
    <3> QED BY <3>1, <3>2, <3>3 DEF q
  <2>3. PICK m \in copy_to_monitor(r) :
           \/ s = Push(m, b)
           \/ /\ Len(Push(m, b).txq) = 1
              /\ \E x \in SendResults : s = try_send(Push(m, b), x)
    BY <1>2 DEF rconn_send
  <2> DEFINE q == Push(m, b)
  <2>4. /\ Consistent(q) /\ q.last_admitted = r.last_admitted /\ Unmoved(r, q)
        /\ q.state = r.state /\ q.txq # <<>> /\ q.txq = Append(r.txq, b)
    BY <2>2
  <2>5. s = q \/ (Len(q.txq) = 1 /\ \E x \in SendResults : s = try_send(q, x))
    BY <2>3
  <2> HIDE DEF q
  <2>6. CASE s = q
    BY <1>2, <2>4, <2>6
  <2>7. CASE Len(q.txq) = 1 /\ \E x \in SendResults : s = try_send(q, x)
    <3>1. PICK x \in SendResults : s = try_send(q, x)
      BY <2>7
    <3>2. /\ Consistent(s) /\ s.last_admitted = q.last_admitted /\ Unmoved(q, s)
          /\ x # "error" => s.state = q.state
      BY <2>4, <3>1, TrySendIsConsistent
    <3>3. Unmoved(r, s)
      BY <2>4, <3>2 DEF Unmoved
    <3>4. x = "error" => network = "refused"
      BY DEF SendResults
    <3>5. r.txq = <<>>
      <4>1. r.txq \in Seq(Packets)
        BY DEF Consistent, Sound, Rconns
      <4>2. Len(Append(r.txq, b)) = Len(r.txq) + 1 /\ Len(r.txq) \in Nat
        BY <4>1, AppendProperties, LenProperties
      <4>3. Len(r.txq) = 0
        BY <2>4, <2>7, <4>2
      <4> QED BY <4>1, <4>3, EmptySeq
    <3> QED BY <1>2, <2>4, <3>2, <3>3, <3>4, <3>5
  <2> QED BY <2>5, <2>6, <2>7
<1> QED
  BY <1>1, <1>2

-----------------------------------------------------------------------------
(* The handlers of rconn_run and rconn_recv *)

\* One turn of the loop of rconn_run makes a connection, or sends the inactivity probe,
\* or leaves admission and connection as they are; only a probe that is refused
\* loses the vconn of a state that is connected.
Turns(r, s) ==
    \/ Unmoved(r, s)
    \/ /\ r.state = "CONNECTING" /\ s.state = "ACTIVE"
       /\ s.last_connected = 0 /\ (s.probably_admitted => r.probably_admitted)
    \/ /\ r.state = "ACTIVE" /\ s.state = "IDLE"
       /\ s.last_connected = r.last_connected
       /\ s.probably_admitted => r.probably_admitted
       /\ s.vconn = r.vconn \/ (timed_out(r) /\ r.txq = <<>> /\ network = "refused")

\* One turn of the loop of rconn_run.
LEMMA RunIsConsistent ==
    ASSUME NEW r, Consistent(r), NEW s \in run(r)
    PROVE  Consistent(s) /\ s.last_admitted = r.last_admitted /\ Turns(r, s)
<1>1. r \in Rconns /\ Sound(r) /\ r.state \in States
  BY DEF Consistent, Sound, Rconns
<1>2. CASE r.state = "VOID"
  BY <1>2 DEF run, Unmoved, Turns
<1>3. CASE r.state = "BACKOFF"
  <2>1. s \in run_BACKOFF(r)
    BY <1>3 DEF run
  <2>2. r.reliable /\ \A o \in MayOpen : o \in BOOLEAN
    BY <1>3 DEF Consistent, MayOpen
  <2>3. CASE timed_out(r)
    <3>1. PICK o \in MayOpen : s = reconnect(r, o)
      BY <2>1, <2>3 DEF run_BACKOFF
    <3> QED BY <1>1, <2>2, <3>1, ReconnectIsConsistent, ReconnectUnmoved DEF Turns
  <2>4. CASE ~timed_out(r)
    BY <2>1, <2>4 DEF run_BACKOFF, Unmoved, Turns
  <2> QED BY <2>3, <2>4
<1>4. CASE r.state = "CONNECTING"
  <2> DEFINE t == state_transition(r, "ACTIVE")
             up == [t EXCEPT !.last_connected = 0]
             q == [r EXCEPT !.backoff_deadline = Never]
  <2>1. s \in run_CONNECTING(r)
    BY <1>4 DEF run
  <2>2. s \in {up, disconnect(r), disconnect(q), r}
    BY <2>1 DEF run_CONNECTING, ConnectResults
  <2>3. Consistent(up) /\ up.last_admitted = r.last_admitted /\ Turns(r, up)
    <3>1. /\ t \in Rconns /\ t.state = "ACTIVE" /\ t.name = r.name
          /\ t.reliable = r.reliable /\ t.txq = r.txq /\ t.n_queued = r.n_queued
          /\ t.last_admitted = r.last_admitted /\ t.vconn = r.vconn
          /\ t.probably_admitted => r.probably_admitted
      BY <1>1, TransitionKeeps DEF States
    <3> HIDE DEF t
    <3>2. /\ up \in Rconns /\ up.state = "ACTIVE" /\ up.name = r.name
          /\ up.reliable = r.reliable /\ up.txq = r.txq /\ up.n_queued = r.n_queued
          /\ up.last_admitted = r.last_admitted /\ up.vconn = r.vconn
          /\ up.last_connected = 0 /\ (up.probably_admitted => r.probably_admitted)
      BY <3>1 DEF Rconns
    <3> HIDE DEF up
    <3>3. r.vconn
      BY <1>4 DEF Consistent
    <3>4. Consistent(up)
      BY <1>1, <3>2, <3>3 DEF Consistent, Sound
    <3> QED BY <1>4, <3>2, <3>4 DEF Turns
  <2>4. /\ Sound(q) /\ q.last_admitted = r.last_admitted /\ q \in Rconns
        /\ q.last_connected = r.last_connected /\ q.probably_admitted = r.probably_admitted
    <3>1. Never \in 0..Never
      BY RconnAssumption DEF Never
    <3> QED BY <1>1, <3>1 DEF Rconns, Sound
  <2> HIDE DEF up, q
  <2>5. Unmoved(r, disconnect(r)) /\ Unmoved(r, disconnect(q)) /\ Unmoved(r, r)
    <3>1. /\ Unmoved(r, disconnect(r)) /\ Unmoved(q, disconnect(q))
          /\ disconnect(q).state \in {"VOID", "BACKOFF"}
      BY <1>1, <2>4, DisconnectUnmoved
    <3> QED BY <2>4, <3>1 DEF Unmoved, is_connected_state, ConnectedStates
  <2> QED BY <1>1, <2>2, <2>3, <2>4, <2>5, DisconnectIsConsistent DEF Turns
<1>5. CASE r.state = "ACTIVE"
  <2>1. s \in run_ACTIVE(r)
    BY <1>5 DEF run
  <2>2. CASE timed_out(r)
    <3>1. PICK u \in rconn_send(r, EchoRequest(r)) : s = state_transition(u, "IDLE")
      BY <2>1, <2>2 DEF run_ACTIVE
    <3>2. EchoRequest(r) \in Packets /\ ~EchoRequest(r).counted
      BY <1>1 DEF EchoRequest, Packets, Rconns
    <3>3. /\ Consistent(u) /\ u.last_admitted = r.last_admitted /\ Unmoved(r, u)
          /\ ~is_connected_state(u.state) => r.txq = <<>> /\ network = "refused"
      BY <1>5, <3>2, SendIsConsistent DEF is_connected_state, ConnectedStates
    <3>4. u \in Rconns /\ Sound(u)
      BY <3>3 DEF Consistent, Sound
    <3>5. /\ s \in Rconns /\ s.state = "IDLE" /\ s.name = u.name
          /\ s.reliable = u.reliable /\ s.txq = u.txq /\ s.n_queued = u.n_queued
          /\ s.last_admitted = u.last_admitted /\ s.vconn = u.vconn
          /\ s.last_connected = u.last_connected
          /\ s.probably_admitted => u.probably_admitted
      BY <3>1, <3>4, TransitionKeeps DEF States
    <3>6. Consistent(s)
      BY <3>3, <3>4, <3>5 DEF Consistent, Sound
    <3>7. Turns(r, s)
      BY <1>5, <2>2, <3>3, <3>5 DEF Turns, Unmoved
    <3> QED BY <3>3, <3>5, <3>6, <3>7
  <2>3. CASE ~timed_out(r)
    BY <2>1, <2>3, TxWorkIsConsistent DEF run_ACTIVE, Turns
  <2> QED BY <2>2, <2>3
<1>6. CASE r.state = "IDLE"
  <2>1. s \in run_IDLE(r)
    BY <1>6 DEF run
  <2>2. CASE timed_out(r)
    <3> DEFINE q == question_connectivity(r)
    <3>1. s = disconnect(q)
      BY <2>1, <2>2 DEF run_IDLE
    <3>2. /\ Sound(q) /\ q.last_admitted = r.last_admitted /\ q \in Rconns
          /\ q.last_connected = r.last_connected /\ q.probably_admitted = r.probably_admitted
      BY <1>1, QuestionKeeps DEF Sound
    <3> HIDE DEF q
    <3>3. Unmoved(q, disconnect(q)) /\ disconnect(q).state \in {"VOID", "BACKOFF"}
      BY <3>2, DisconnectUnmoved
    <3>4. Unmoved(r, disconnect(q))
      BY <3>2, <3>3 DEF Unmoved, is_connected_state, ConnectedStates
    <3> QED BY <3>1, <3>2, <3>4, DisconnectIsConsistent DEF Turns
  <2>3. CASE ~timed_out(r)
    BY <2>1, <2>3, TxWorkIsConsistent DEF run_IDLE, Turns
  <2> QED BY <2>2, <2>3
<1> QED
  BY <1>1, <1>2, <1>3, <1>4, <1>5, <1>6 DEF States

\* A received message: a connection that is not admitted by it, or by its age, keeps
\* its age of admission and does not come to count as admitted.
LEMMA ReceiveIsConsistent ==
    ASSUME NEW r, Consistent(r), is_connected_state(r.state),
           r.vconn, NEW message, NEW m \in copy_to_monitor(r)
    PROVE  LET s == Receive(m, message)
           IN  /\ Consistent(s) /\ s.last_connected = r.last_connected
               /\ s.vconn /\ s.state = "ACTIVE"
               /\ \/ s.last_admitted < r.last_admitted
                  \/ s.probably_admitted /\ ~r.probably_admitted
                  => message = "admission" \/ r.last_connected >= AdmissionPeriod
<1> DEFINE admitted == message = "admission" \/ m.last_connected >= AdmissionPeriod
           a == IF admitted THEN 0 ELSE m.last_admitted
           q == [m EXCEPT !.probably_admitted = @ \/ admitted,
                          !.last_admitted = a, !.last_received = 0]
           t == state_transition(q, "ACTIVE")
<1>1. r \in Rconns /\ Sound(r) /\ r.state \in {"ACTIVE", "IDLE"}
  BY DEF Consistent, Sound, is_connected_state, ConnectedStates
<1>2. /\ m \in Rconns /\ m.state = r.state /\ m.vconn = r.vconn /\ m.name = r.name
      /\ m.reliable = r.reliable /\ m.txq = r.txq /\ m.n_queued = r.n_queued
      /\ m.last_admitted = r.last_admitted /\ m.last_connected = r.last_connected
      /\ m.probably_admitted = r.probably_admitted
  <2>1. PICK failing \in SUBSET r.monitors : m = [r EXCEPT !.monitors = @ \ failing]
    BY DEF copy_to_monitor
  <2>2. r.monitors \ failing \in SUBSET Monitor
    BY <1>1 DEF Rconns
  <2> QED BY <1>1, <2>1, <2>2 DEF Rconns
<1>3. /\ r.last_admitted \in 0..FailureCap /\ FailureCap \in Nat
      /\ a \in 0..FailureCap /\ (~admitted => a = r.last_admitted)
  BY <1>1, <1>2, RconnAssumption DEF Rconns
<1>4. admitted \in BOOLEAN
  OBVIOUS
<1>16. admitted <=> (message = "admission" \/ r.last_connected >= AdmissionPeriod)
  BY <1>2
<1> HIDE DEF admitted, a
<1>5. /\ q \in Rconns /\ q.state = r.state /\ q.name = r.name
      /\ q.reliable = r.reliable /\ q.txq = r.txq /\ q.n_queued = r.n_queued
      /\ q.last_admitted = a /\ (~admitted => q.probably_admitted = r.probably_admitted)
      /\ q.last_connected = r.last_connected /\ q.vconn = r.vconn
  BY <1>2, <1>3, <1>4 DEF Rconns
<1>6. Receive(m, message) = IF m.state = "IDLE" THEN t ELSE q
  BY DEF Receive, q, a, admitted
<1> HIDE DEF q
<1>7. /\ t \in Rconns /\ t.state = "ACTIVE" /\ t.name = q.name
      /\ t.reliable = q.reliable /\ t.txq = q.txq /\ t.n_queued = q.n_queued
      /\ t.last_admitted = q.last_admitted /\ t.last_connected = q.last_connected
      /\ t.vconn = q.vconn
  BY <1>5, TransitionKeeps DEF States
<1>8. t.probably_admitted = q.probably_admitted
  BY <1>1, <1>5 DEF state_transition, is_connected_state, ConnectedStates, Rconns
<1> HIDE DEF t
<1>9. Consistent(q) /\ Consistent(t)
  BY <1>1, <1>5, <1>7 DEF Consistent, Sound
<1>10. a < r.last_admitted => admitted
  BY <1>3
<1>12. ~admitted => /\ q.probably_admitted = r.probably_admitted
                    /\ t.probably_admitted = r.probably_admitted
  BY <1>5, <1>8
<1>13. q.last_admitted = a /\ t.last_admitted = a
  BY <1>5, <1>7
<1>14. CASE m.state = "IDLE"
  <2>1. Receive(m, message) = t /\ t.vconn /\ t.state = "ACTIVE"
        /\ t.last_connected = r.last_connected
    BY <1>5, <1>6, <1>7, <1>14
  <2> QED BY <1>9, <1>10, <1>12, <1>13, <1>16, <2>1
<1>15. CASE m.state # "IDLE"
  <2>1. Receive(m, message) = q /\ q.vconn /\ q.state = "ACTIVE"
        /\ q.last_connected = r.last_connected
    BY <1>1, <1>2, <1>5, <1>6, <1>15
  <2> QED BY <1>9, <1>10, <1>12, <1>13, <1>16, <2>1
<1> QED
  BY <1>14, <1>15

\* A second that passes changes ages only, and none of them falls.
LEMMA OlderIsConsistent ==
    ASSUME NEW r, Consistent(r)
    PROVE  /\ Consistent(Older(r)) /\ ~(Older(r).last_admitted < r.last_admitted)
           /\ Older(r).state = r.state /\ Older(r).vconn = r.vconn
           /\ Older(r).probably_admitted = r.probably_admitted
           /\ Older(r).last_connected = MinOf(r.last_connected + 1, LongCap)
<1> DEFINE t == Older(r)
           e == MinOf(r.state_entered + 1, AgeCap)
           v == MinOf(r.last_received + 1, probe_interval)
           c == MinOf(r.last_connected + 1, LongCap)
           u == MinOf(r.last_questioned + 1, LongCap)
           l == MinOf(r.last_admitted + 1, FailureCap)
           d == IF r.backoff_deadline = Never THEN r.backoff_deadline
                ELSE MaxOf(r.backoff_deadline - 1, 0)
<1>1. r \in Rconns
  BY DEF Consistent, Sound
<1>2. /\ r.state_entered \in Nat /\ r.last_received \in Nat /\ r.last_connected \in Nat
      /\ r.last_questioned \in Nat /\ r.last_admitted \in 0..FailureCap
      /\ r.backoff_deadline \in 0..Never
  BY <1>1 DEF Rconns
<1>3. /\ max_backoff \in Nat /\ Never \in Nat /\ AgeCap \in Nat /\ LongCap \in Nat
      /\ probe_interval \in Nat /\ FailureCap \in Nat
  BY RconnAssumption DEF Never, AgeCap, LongCap
<1>4. e \in Nat /\ v \in Nat /\ c \in Nat /\ u \in Nat
  BY <1>2, <1>3 DEF MinOf
<1>5. l \in 0..FailureCap /\ ~(l < r.last_admitted)
  BY <1>2, <1>3 DEF MinOf
<1>6. d \in 0..Never
  BY <1>2, <1>3 DEF MaxOf
<1>7. t = [r EXCEPT !.state_entered = e, !.last_received = v, !.last_connected = c,
                    !.last_questioned = u, !.last_admitted = l, !.backoff_deadline = d]
  BY DEF Older
<1> HIDE DEF t, e, v, c, u, l, d
<1>8. /\ t \in Rconns /\ t.state = r.state /\ t.vconn = r.vconn /\ t.name = r.name
      /\ t.reliable = r.reliable /\ t.backoff = r.backoff
      /\ t.txq = r.txq /\ t.n_queued = r.n_queued /\ t.last_admitted = l
      /\ t.probably_admitted = r.probably_admitted /\ t.last_connected = c
  BY <1>1, <1>4, <1>5, <1>6, <1>7 DEF Rconns
<1>9. Consistent(t)
  BY <1>8 DEF Consistent, Sound
<1> QED
  BY <1>5, <1>8, <1>9 DEF t, c

-----------------------------------------------------------------------------
(* The inductive invariant *)

\* An rconn that is consistent holds its vconn as it should.
LEMMA ConsistentHolds ==
    ASSUME NEW r, Consistent(r)
    PROVE  HoldsVconn(r)
<1>1. r \in Rconns /\ r.backoff \in 0..max_backoff /\ max_backoff \in Nat
  BY RconnAssumption DEF Consistent, Sound, Rconns
<1> QED
  BY <1>1 DEF HoldsVconn, Consistent, Sound

\* What a step that changes the rconn has to show.
LEMMA StepIsEnough ==
    ASSUME IInv, TypeOK', Consistent(rc'), rc'.last_admitted = rc.last_admitted,
           Unmoved(rc, rc'), since' = since, crashed' => rc'.state = "IDLE" /\ ~rc'.vconn
    PROVE  IInv' /\ EarnsAdmission /\ VconnFollowsState
<1>1. ~(rc.last_admitted < rc.last_admitted)
  <2>1. rc.last_admitted \in 0..FailureCap /\ FailureCap \in Nat
    BY RconnAssumption DEF IInv, Consistent, Sound, Rconns
  <2> QED BY <2>1
<1>2. EarnsAdmission
  BY <1>1 DEF EarnsAdmission, Unmoved
<1>3. HoldsVconn(rc')
  BY ConsistentHolds
<1>4. VconnFollowsState
  BY <1>3 DEF VconnFollowsState, Unmoved, is_connected_state, ConnectedStates
<1>5. IInv'
  <2>1. is_connected_state(rc'.state) => since' = rc'.last_connected
    BY DEF IInv, Unmoved
  <2> QED BY <2>1 DEF IInv
<1> QED
  BY <1>2, <1>4, <1>5

\* Every action keeps the invariant, moves last_admitted as rconn_recv may, and loses a
\* vconn only as run_ACTIVE does.
LEMMA NextStep ==
    ASSUME IInv, Next
    PROVE  IInv' /\ EarnsAdmission /\ VconnFollowsState
<1>1. /\ TypeOK /\ Consistent(rc) /\ Sound(rc) /\ rc \in Rconns
      /\ rc.last_admitted \in 0..FailureCap
  BY DEF IInv, Consistent, Sound, Rconns
<1>2. rc.state = "VOID" => ~rc.reliable
  BY <1>1 DEF Consistent
<1>0. Unmoved(rc, rc)
  BY DEF Unmoved
<1>3. ASSUME NEW p \in Peer, rconn_connect(p) PROVE IInv' /\ EarnsAdmission /\ VconnFollowsState
  <2> DEFINE d == rconn_disconnect(rc)
             q == [d EXCEPT !.name = p, !.reliable = TRUE]
  <2>1. TypeOK'
    <3>1. /\ connects' = connects + 1 /\ inbox' = "none" /\ since' = since
          /\ inRun' = inRun /\ crashed' = crashed
          /\ network' = network /\ monitorsOpen' = monitorsOpen
      BY <1>3 DEF rconn_connect, Env
    <3>2. connects' \in Nat
      <4>1. connects \in Nat
        BY <1>1 DEF TypeOK
      <4> QED BY <3>1, <4>1
    <3> QED BY <1>1, <3>1, <3>2 DEF TypeOK
  <2>2. /\ Consistent(d) /\ d.state = "VOID" /\ d.last_admitted = rc.last_admitted
        /\ Unmoved(rc, d)
    BY <1>1, <1>2, DisconnectedIsConsistent, DisconnectUnmoved
  <2>3. PICK o \in BOOLEAN : rc' = reconnect(q, o)
    BY <1>3 DEF rconn_connect, MayOpen
  <2> HIDE DEF d
  <2>4. /\ Sound(q) /\ q.reliable /\ q.last_admitted = rc.last_admitted
        /\ q.last_connected = d.last_connected /\ q.state = d.state
        /\ q.probably_admitted = d.probably_admitted /\ q \in Rconns
    BY <2>2 DEF Consistent, Sound, Rconns, Names
  <2> HIDE DEF q
  <2>5. Consistent(rc') /\ rc'.last_admitted = rc.last_admitted /\ Unmoved(q, rc')
    BY <2>3, <2>4, ReconnectIsConsistent, ReconnectUnmoved
  <2>6. Unmoved(rc, rc')
    BY <2>2, <2>4, <2>5 DEF Unmoved, is_connected_state, ConnectedStates
  <2>7. since' = since /\ ~crashed'
    BY <1>3 DEF rconn_connect, Callable
  <2> QED BY <2>1, <2>5, <2>6, <2>7, StepIsEnough
<1>4. ASSUME NEW p \in Peer, rconn_connect_unreliably(p) PROVE IInv' /\ EarnsAdmission /\ VconnFollowsState
  <2> DEFINE d == rconn_disconnect(rc)
             q == [d EXCEPT !.name = p, !.vconn = TRUE, !.last_connected = 0]
             t == state_transition(q, "ACTIVE")
  <2>1. TypeOK'
    <3>1. /\ connects' = connects + 1 /\ inbox' = "none" /\ since' = 0
          /\ inRun' = inRun /\ crashed' = crashed
          /\ network' = network /\ monitorsOpen' = monitorsOpen
      BY <1>4 DEF rconn_connect_unreliably, Env
    <3>2. connects' \in Nat
      <4>1. connects \in Nat
        BY <1>1 DEF TypeOK
      <4> QED BY <3>1, <4>1
    <3> QED BY <1>1, <3>1, <3>2 DEF TypeOK
  <2>2. /\ Consistent(d) /\ Sound(d) /\ d \in Rconns /\ Unmoved(rc, d)
        /\ d.state = "VOID" /\ d.last_admitted = rc.last_admitted
    BY <1>1, <1>2, DisconnectedIsConsistent, DisconnectUnmoved DEF Consistent, Sound
  <2>3. rc' = t
    BY <1>4 DEF rconn_connect_unreliably
  <2> HIDE DEF d
  <2>4. /\ q \in Rconns /\ q.name = p /\ q.txq = d.txq /\ q.n_queued = d.n_queued
        /\ q.last_admitted = rc.last_admitted /\ q.vconn = TRUE /\ q.last_connected = 0
        /\ q.probably_admitted = d.probably_admitted
    BY <2>2 DEF Rconns, Names
  <2> HIDE DEF q
  <2>5. /\ t \in Rconns /\ t.state = "ACTIVE" /\ t.name = p /\ t.txq = d.txq
        /\ t.n_queued = d.n_queued /\ t.last_admitted = rc.last_admitted
        /\ t.vconn = TRUE /\ t.last_connected = 0
        /\ t.probably_admitted => d.probably_admitted
    BY <2>4, TransitionKeeps DEF States
  <2> HIDE DEF t
  <2>6. Consistent(t)
    BY <2>2, <2>5 DEF Consistent, Sound
  <2>7. since' = 0 /\ ~crashed'
    BY <1>4 DEF rconn_connect_unreliably, Callable
  <2>8. IInv'
    BY <2>1, <2>3, <2>5, <2>6, <2>7 DEF IInv
  <2>9. EarnsAdmission
    <3>1. ~(rc.last_admitted < rc.last_admitted)
      BY <1>1, RconnAssumption
    <3> QED BY <2>2, <2>3, <2>5, <3>1 DEF EarnsAdmission, Unmoved
  <2>10. VconnFollowsState
    BY <2>3, <2>5, <2>6, <2>7, ConsistentHolds DEF VconnFollowsState
  <2> QED BY <2>8, <2>9, <2>10
<1>5. ASSUME Disconnect PROVE IInv' /\ EarnsAdmission /\ VconnFollowsState
  <2>1. TypeOK'
    BY <1>1, <1>5 DEF TypeOK, Disconnect, Env
  <2>2. Consistent(rc') /\ rc'.last_admitted = rc.last_admitted /\ Unmoved(rc, rc')
    BY <1>1, <1>2, <1>5, DisconnectedIsConsistent, DisconnectUnmoved DEF Disconnect
  <2>3. since' = since /\ ~crashed'
    BY <1>5 DEF Disconnect, Callable
  <2> QED BY <2>1, <2>2, <2>3, StepIsEnough
<1>6. ASSUME rconn_destroy PROVE IInv' /\ EarnsAdmission /\ VconnFollowsState
  <2> DEFINE none == <<>>
  <2>1. TypeOK'
    BY <1>1, <1>6 DEF TypeOK, rconn_destroy
  <2>2. flush_queue(rc).n_queued = 0
    BY <1>1, FlushIsSound
  <2>3. rc' = rconn_create /\ rc' = [rconn_create EXCEPT !.n_queued = rc'.n_queued]
    <3>1. rc' = [rconn_create EXCEPT !.n_queued = 0]
      BY <1>6, <2>2 DEF rconn_destroy
    <3> QED BY <3>1 DEF rconn_create
  <2>4. Consistent(rconn_create)
    <3>1. /\ 0 \in 0..max_backoff /\ 0 \in 0..Never /\ 0 \in 0..FailureCap
          /\ 0 <= queue_limit
      BY RconnAssumption DEF Never
    <3>2. none \in Seq(Packets) /\ Counted(none) = 0 /\ rconn_create.txq = none
      BY CountedEmpty, EmptySeq DEF rconn_create
    <3> HIDE DEF none
    <3> QED BY <3>1, <3>2 DEF Consistent, Sound, Rconns, rconn_create, States, Names
  <2>5. rc'.state = "VOID" /\ ~crashed'
    BY <1>6, <2>3 DEF rconn_destroy, rconn_create, Callable
  <2>6. IInv'
    BY <2>1, <2>3, <2>4, <2>5 DEF IInv, is_connected_state, ConnectedStates
  <2>7. VconnFollowsState
    BY <2>3, <2>4, <2>5, ConsistentHolds DEF VconnFollowsState
  <2> QED BY <2>3, <2>6, <2>7 DEF EarnsAdmission
<1>7. ASSUME rconn_run PROVE IInv' /\ EarnsAdmission /\ VconnFollowsState
  <2>1. CASE UsesVconn(rc) /\ ~rc.vconn /\ Crash
    <3>1. rc' = rc /\ TypeOK' /\ since' = since
      BY <1>1, <1>7, <2>1 DEF TypeOK, rconn_run, Crash, Env
    <3>2. rc.state = "IDLE" /\ ~rc.vconn
      BY <1>1, <2>1 DEF UsesVconn, Consistent, is_connected_state, ConnectedStates
    <3> QED BY <1>0, <1>1, <3>1, <3>2, StepIsEnough
  <2>2. CASE ~(UsesVconn(rc) /\ ~rc.vconn /\ Crash)
    <3>1. PICK r \in run(rc) :
             /\ rc' = r /\ inRun' = (r.state # rc.state)
             /\ inbox' = IF ~r.vconn THEN "none"
                         ELSE IF inbox = "none" /\ EchoReplied(r) THEN "ordinary"
                         ELSE inbox
             /\ since' = IF rc.state = "CONNECTING" /\ r.state = "ACTIVE" THEN 0 ELSE since
      BY <1>7, <2>2 DEF rconn_run
    <3>2. Consistent(rc') /\ rc'.last_admitted = rc.last_admitted /\ Turns(rc, rc')
      BY <1>1, <3>1, RunIsConsistent
    <3>3. ~crashed' /\ crashed' \in BOOLEAN
      BY <1>1, <1>7, <2>2 DEF rconn_run, TypeOK
    <3>4. inRun' \in BOOLEAN /\ inbox' \in {"none", "ordinary", "admission"} /\ since' \in Nat
      BY <1>1, <3>1 DEF TypeOK
    <3>5. TypeOK'
      BY <1>1, <1>7, <3>3, <3>4 DEF TypeOK, rconn_run, Env
    <3>6. CASE Unmoved(rc, rc') /\ since' = since
      BY <3>2, <3>3, <3>5, <3>6, StepIsEnough
    <3>7. CASE ~(Unmoved(rc, rc') /\ since' = since)
      <4>1. is_connected_state(rc'.state) => since' = rc'.last_connected
        BY <3>1, <3>2 DEF Turns, Unmoved, IInv, is_connected_state, ConnectedStates
      <4>2. IInv'
        BY <3>2, <3>3, <3>5, <4>1 DEF IInv
      <4>3. EarnsAdmission
        <5>1. ~(rc.last_admitted < rc.last_admitted)
          BY <1>1, RconnAssumption
        <5> QED BY <3>2, <5>1 DEF EarnsAdmission, Turns, Unmoved
      <4>4. (rc'.state = "IDLE" /\ ~rc'.vconn) => (rc.state = "IDLE" /\ ~rc.vconn) \/ LosesVconn
        BY <1>1, <3>2 DEF Turns, Unmoved, LosesVconn, Consistent, is_connected_state, ConnectedStates
      <4>5. VconnFollowsState
        BY <3>2, <3>3, <4>4, ConsistentHolds DEF VconnFollowsState
      <4> QED BY <4>2, <4>3, <4>5
    <3> QED BY <3>6, <3>7
  <2> QED BY <2>1, <2>2
<1>8. ASSUME rconn_recv PROVE IInv' /\ EarnsAdmission /\ VconnFollowsState
  <2>1. TypeOK'
    BY <1>1, <1>8 DEF TypeOK, rconn_recv, Crash, Env
  <2>2. is_connected_state(rc.state)
    BY <1>8 DEF rconn_recv
  <2>3. CASE ~rc.vconn /\ Crash
    <3>1. rc' = rc /\ since' = since
      BY <2>3 DEF Crash
    <3>2. rc.state = "IDLE"
      BY <1>1, <2>2, <2>3 DEF Consistent, is_connected_state, ConnectedStates
    <3> QED BY <1>0, <1>1, <2>1, <2>3, <3>1, <3>2, StepIsEnough
  <2>4. CASE rc' = disconnect(rc) /\ since' = since /\ ~crashed'
    <3>1. Consistent(rc') /\ rc'.last_admitted = rc.last_admitted /\ Unmoved(rc, rc')
      BY <1>1, <2>4, DisconnectIsConsistent, DisconnectUnmoved
    <3> QED BY <2>1, <2>4, <3>1, StepIsEnough
  <2>5. CASE /\ "ok" \in RecvResults /\ rc.vconn /\ since' = since /\ ~crashed' /\ inbox' = "none"
             /\ \E m \in copy_to_monitor(rc) : rc' = Receive(m, inbox)
    <3>1. inbox # "none"
      BY <2>5 DEF RecvResults
    <3>2. /\ Consistent(rc') /\ rc'.last_connected = rc.last_connected
          /\ rc'.vconn /\ rc'.state = "ACTIVE"
          /\ \/ rc'.last_admitted < rc.last_admitted
             \/ rc'.probably_admitted /\ ~rc.probably_admitted
             => inbox = "admission" \/ rc.last_connected >= AdmissionPeriod
      BY <1>1, <2>2, <2>5, ReceiveIsConsistent
    <3>3. since = rc.last_connected
      BY <2>2 DEF IInv
    <3>4. EarnsAdmission
      BY <2>5, <3>1, <3>2, <3>3 DEF EarnsAdmission
    <3>5. IInv' /\ VconnFollowsState
      BY <2>1, <2>5, <3>2, <3>3, ConsistentHolds DEF IInv, VconnFollowsState
    <3> QED BY <3>4, <3>5
  <2>6. ~crashed
    BY <1>8 DEF rconn_recv, Callable
  <2> QED BY <1>8, <2>3, <2>4, <2>5, <2>6 DEF rconn_recv
<1>9. ASSUME rconn_send_with_limit PROVE IInv' /\ EarnsAdmission /\ VconnFollowsState
  <2> DEFINE b == [to |-> rc.name, counted |-> TRUE]
  <2>1. TypeOK'
    BY <1>1, <1>9 DEF TypeOK, rconn_send_with_limit, Crash, Env
  <2>2. b \in Packets /\ rc.n_queued < queue_limit
    BY <1>1, <1>9 DEF Packets, Rconns, rconn_send_with_limit
  <2>3. /\ rc' = rc \/ rc' \in rconn_send(rc, b)
        /\ since' = since
        /\ crashed' => rc' = rc /\ ~rc.vconn /\ is_connected_state(rc.state)
    BY <1>9 DEF rconn_send_with_limit, Crash, Callable
  <2> HIDE DEF b
  <2>4. Consistent(rc') /\ rc'.last_admitted = rc.last_admitted /\ Unmoved(rc, rc')
    BY <1>0, <1>1, <2>2, <2>3, SendIsConsistent
  <2>5. crashed' => rc'.state = "IDLE" /\ ~rc'.vconn
    BY <1>1, <2>3 DEF Consistent, is_connected_state, ConnectedStates
  <2> QED BY <2>1, <2>3, <2>4, <2>5, StepIsEnough
<1>10. ASSUME NEW m \in Monitor, rconn_add_monitor(m) PROVE IInv' /\ EarnsAdmission /\ VconnFollowsState
  <2> DEFINE q == [rc EXCEPT !.monitors = @ \union {m}]
  <2>1. TypeOK'
    BY <1>1, <1>10 DEF TypeOK, rconn_add_monitor
  <2>2. rc' = rc \/ rc' = q
    BY <1>10 DEF rconn_add_monitor
  <2>3. q \in Rconns /\ q.last_admitted = rc.last_admitted
    BY <1>1 DEF Rconns
  <2>4. /\ q.state = rc.state /\ q.vconn = rc.vconn /\ q.name = rc.name
        /\ q.reliable = rc.reliable /\ q.backoff = rc.backoff
        /\ q.txq = rc.txq /\ q.n_queued = rc.n_queued
        /\ q.last_connected = rc.last_connected /\ q.probably_admitted = rc.probably_admitted
    BY <1>1 DEF Rconns
  <2> HIDE DEF q
  <2>5. Consistent(q)
    BY <1>1, <2>3, <2>4 DEF Consistent, Sound
  <2>6. Unmoved(rc, q)
    BY <2>4 DEF Unmoved
  <2>7. since' = since /\ ~crashed'
    BY <1>10 DEF rconn_add_monitor, Callable
  <2> QED BY <1>0, <1>1, <2>1, <2>2, <2>3, <2>5, <2>6, <2>7, StepIsEnough
<1>11. ASSUME rconn_is_connectivity_questionable PROVE IInv' /\ EarnsAdmission /\ VconnFollowsState
  <2> DEFINE q == [rc EXCEPT !.questionable = FALSE]
  <2>1. TypeOK' /\ rc' = q
    BY <1>1, <1>11 DEF TypeOK, rconn_is_connectivity_questionable, Env
  <2>2. q \in Rconns /\ q.last_admitted = rc.last_admitted
    BY <1>1 DEF Rconns
  <2>3. /\ q.state = rc.state /\ q.vconn = rc.vconn /\ q.name = rc.name
        /\ q.reliable = rc.reliable /\ q.backoff = rc.backoff
        /\ q.txq = rc.txq /\ q.n_queued = rc.n_queued
        /\ q.last_connected = rc.last_connected /\ q.probably_admitted = rc.probably_admitted
    BY <1>1 DEF Rconns
  <2> HIDE DEF q
  <2>4. Consistent(q)
    BY <1>1, <2>2, <2>3 DEF Consistent, Sound
  <2>5. Unmoved(rc, q)
    BY <2>3 DEF Unmoved
  <2>6. since' = since /\ ~crashed'
    BY <1>11 DEF rconn_is_connectivity_questionable, Callable
  <2> QED BY <2>1, <2>2, <2>4, <2>5, <2>6, StepIsEnough
<1>12. ASSUME Tick PROVE IInv' /\ EarnsAdmission /\ VconnFollowsState
  <2>1. ~crashed' /\ since' = MinOf(since + 1, LongCap)
    BY <1>12 DEF Tick, Callable
  <2>2. TypeOK'
    <3>1. since' \in Nat
      BY <1>1, <2>1, RconnAssumption DEF TypeOK, MinOf, LongCap
    <3> QED BY <1>1, <1>12, <3>1 DEF TypeOK, Tick, Env
  <2>3. /\ Consistent(rc') /\ ~(rc'.last_admitted < rc.last_admitted)
        /\ rc'.state = rc.state /\ rc'.vconn = rc.vconn
        /\ rc'.probably_admitted = rc.probably_admitted
        /\ rc'.last_connected = MinOf(rc.last_connected + 1, LongCap)
    BY <1>1, <1>12, OlderIsConsistent DEF Tick
  <2>4. IInv'
    BY <2>1, <2>2, <2>3 DEF IInv
  <2>5. VconnFollowsState
    BY <2>1, <2>3, ConsistentHolds DEF VconnFollowsState
  <2> QED BY <2>3, <2>4, <2>5 DEF EarnsAdmission
<1>13. ASSUME PeerSends PROVE IInv' /\ EarnsAdmission /\ VconnFollowsState
  <2>1. TypeOK' /\ rc' = rc /\ since' = since /\ ~crashed'
    BY <1>1, <1>13 DEF TypeOK, PeerSends, Env, Callable
  <2> QED BY <1>0, <1>1, <2>1, StepIsEnough
<1>14. ASSUME NetworkChanges PROVE IInv' /\ EarnsAdmission /\ VconnFollowsState
  <2>1. TypeOK' /\ rc' = rc /\ since' = since /\ ~crashed'
    BY <1>1, <1>14 DEF TypeOK, NetworkChanges, Callable
  <2> QED BY <1>0, <1>1, <2>1, StepIsEnough
<1> QED
  BY <1>3, <1>4, <1>5, <1>6, <1>7, <1>8, <1>9, <1>10, <1>11, <1>12, <1>13, <1>14 DEF Next

\* The inductive invariant holds: the types, and an rconn that is consistent between
\* its handlers.
THEOREM Invariance == Spec => []IInv
<1>1. Init => IInv
  <2> DEFINE none == <<>>
  <2>1. SUFFICES ASSUME Init PROVE IInv
    OBVIOUS
  <2>2. TypeOK
    BY <2>1 DEF Init, TypeOK
  <2>3. /\ 0 \in 0..max_backoff /\ 0 \in 0..Never /\ 0 \in 0..FailureCap
        /\ 0 <= queue_limit
    BY RconnAssumption DEF Never
  <2>4. none \in Seq(Packets) /\ Counted(none) = 0 /\ rconn_create.txq = none
    BY CountedEmpty, EmptySeq DEF rconn_create
  <2>5. rc = rconn_create
    BY <2>1 DEF Init
  <2> HIDE DEF none
  <2>6. Consistent(rconn_create)
    BY <2>3, <2>4 DEF Consistent, Sound, Rconns, rconn_create, States, Names
  <2>7. rc.state = "VOID" /\ ~crashed
    BY <2>1 DEF Init, rconn_create
  <2> QED BY <2>2, <2>5, <2>6, <2>7 DEF IInv, is_connected_state, ConnectedStates
<1>2. IInv /\ [Next]_vars => IInv'
  <2>1. SUFFICES ASSUME IInv, UNCHANGED vars PROVE IInv'
    BY NextStep
  <2> QED BY <2>1 DEF vars, IInv, TypeOK
<1> QED
  BY <1>1, <1>2, PTL DEF Spec

\* rconn_run, disconnect and rconn_disconnect: a vconn is held in the states that use it and
\* in no other, but for the one step in which run_ACTIVE goes to IDLE after its probe
\* was refused; a null vconn is used in the state this leaves, and nowhere else.
THEOREM VconnHeld == Spec => VconnMatchesState
<1>1. IInv /\ [Next]_vars => [VconnFollowsState]_vars
  BY NextStep
<1> QED
  BY <1>1, Invariance, PTL DEF Spec, VconnMatchesState

\* try_send, flush_queue and rconn_send: the callers' counter is the number of their
\* packets in the queue, which never exceeds the limit.
THEOREM QueueAccounted == Spec => []QueueAccounting
<1>1. IInv => QueueAccounting
  BY DEF IInv, Consistent, Sound, QueueAccounting
<1> QED
  BY <1>1, Invariance, PTL

\* rconn_recv: the failure duration starts again, and an rconn comes to count as admitted,
\* only with a received message that proves admission or comes on a connection that
\* has lasted AdmissionPeriod.
THEOREM AdmissionEarned == Spec => AdmissionIsEarned
<1>1. IInv /\ [Next]_vars => [EarnsAdmission]_vars
  BY NextStep
<1> QED
  BY <1>1, Invariance, PTL DEF Spec, AdmissionIsEarned
=============================================================================
