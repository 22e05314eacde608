------------------------------- MODULE Rconn -------------------------------
(***************************************************************************)
(* The reliable connection of the OpenFlow library (lib/rconn.c): a state  *)
(* machine around a vconn that reconnects with exponential backoff, probes *)
(* a silent peer and queues what the vconn does not take.                  *)
(*                                                                         *)
(* Of a time_t the code only uses the distance to now, so a time stamp is  *)
(* its age (and backoff_deadline the seconds that are left), capped where  *)
(* no comparison tells larger values apart.  The virtual connection is     *)
(* external: what vconn_open, vconn_connect, vconn_send and vconn_recv     *)
(* return is a choice that the state of the network limits.  Counters that *)
(* only status reports read are left out.                                  *)
(***************************************************************************)
EXTENDS Integers, Sequences, FiniteSets

CONSTANTS Peer,             \* the names an rconn may be told to connect to
          max_backoff,      \* the longest backoff, in seconds
          probe_interval,   \* seconds of silence before a probe; 0: no probes
          AdmissionPeriod,  \* the 30 seconds after which a peer has admitted us
          QuestionPeriod,   \* the 60 seconds of question_connectivity
          FailureCap,       \* ages of last_admitted above this are not told apart
          queue_limit,      \* what callers pass to rconn_send_with_limit
          MaxQueue,         \* bound: packets in the queue when one more is added
          Monitor,          \* vconns that may be added as monitors
          MAX_MONITORS,
          Unreliable,       \* whether rconn_connect_unreliably is called
          MaxConnects       \* bound: calls that name a peer

ASSUME RconnAssumption ==
    /\ max_backoff \in Nat \ {0}
    /\ {probe_interval, AdmissionPeriod, QuestionPeriod, FailureCap} \subseteq Nat
    /\ {queue_limit, MaxQueue, MAX_MONITORS, MaxConnects} \subseteq Nat
    /\ Unreliable \in BOOLEAN

VARIABLES rc,         \* struct rconn, with the caller's counter n_queued
          inRun,      \* inside the loop of rconn_run
          network,    \* "ok", "silent" (nothing arrives) or "refused" (errors)
          inbox,      \* the next message to be received: "none", one that proves
                      \* "admission", or an "ordinary" one that is_admitted_msg refuses
          since,      \* history: the age of the connection made last
          monitorsOpen, \* history: monitor vconns that exist
          connects,   \* history: calls that named a peer
          crashed     \* a null vconn was used

vars == <<rc, inRun, network, inbox, since, monitorsOpen, connects, crashed>>

ConnectedStates == {"ACTIVE", "IDLE"}
is_connected_state(s) == s \in ConnectedStates

\* backoff_deadline as the seconds that are left: TIME_MIN is 0, TIME_MAX never passes.
Never == max_backoff + 1

AgeCap == IF probe_interval > max_backoff THEN probe_interval ELSE max_backoff
LongCap == 1 + IF AdmissionPeriod > QuestionPeriod THEN AdmissionPeriod ELSE QuestionPeriod

MinOf(a, b) == IF a < b THEN a ELSE b
MaxOf(a, b) == IF a > b THEN a ELSE b

rconn_create ==
    [state |-> "VOID", vconn |-> FALSE, name |-> "void", reliable |-> FALSE,
     txq |-> <<>>, n_queued |-> 0,
     backoff |-> 0, backoff_deadline |-> 0,
     state_entered |-> 0, last_received |-> 0, last_connected |-> 0,
     probably_admitted |-> FALSE, last_admitted |-> 0,
     questionable |-> FALSE, last_questioned |-> 0,
     monitors |-> {}]

state_transition(r, s) ==
    [r EXCEPT !.probably_admitted =
                  IF is_connected_state(s) /\ ~is_connected_state(r.state) THEN FALSE ELSE @,
              !.state = s,
              !.state_entered = 0]

question_connectivity(r) ==
    IF r.last_questioned > QuestionPeriod
    THEN [r EXCEPT !.questionable = TRUE, !.last_questioned = 0]
    ELSE r

\* The packets of a queue that their sender counts: those with a b->private.
Counted(q) == Cardinality({i \in DOMAIN q : q[i].counted})

\* Faulty variant: the queue is emptied without telling its owners.
flush_queue_uncounted(r) == [r EXCEPT !.txq = <<>>]

flush_queue(r) ==
    [r EXCEPT !.txq = <<>>,
              !.n_queued = @ - Counted(r.txq)]

\* Faulty variant: the vconn of an attempt that is still going on is not closed.
rconn_disconnect_leaking(r) ==
    IF r.state = "VOID" THEN r
    ELSE state_transition([r EXCEPT !.vconn = @ /\ r.state = "CONNECTING",
                                    !.name = "void", !.reliable = FALSE,
                                    !.backoff = 0, !.backoff_deadline = 0], "VOID")

rconn_disconnect(r) ==
    IF r.state = "VOID" THEN r
    ELSE state_transition([r EXCEPT !.vconn = FALSE, !.name = "void",
                                    !.reliable = FALSE, !.backoff = 0,
                                    !.backoff_deadline = 0], "VOID")

next_backoff(r) ==
    IF r.backoff_deadline = 0 THEN 1 ELSE MinOf(max_backoff, MaxOf(1, 2 * r.backoff))

disconnect(r) ==
    IF ~r.reliable THEN rconn_disconnect(r)
    ELSE LET closed == IF r.state \in ConnectedStates \union {"CONNECTING"}
                       THEN flush_queue([r EXCEPT !.vconn = FALSE])
                       ELSE r
             b == next_backoff(r)
             waiting == state_transition([closed EXCEPT !.backoff = b,
                                                        !.backoff_deadline = b], "BACKOFF")
         IN IF r.last_connected > QuestionPeriod THEN question_connectivity(waiting)
            ELSE waiting

\* reconnect, when vconn_open succeeds and when it fails.
reconnect(r, opened) ==
    IF opened
    THEN state_transition([r EXCEPT !.vconn = TRUE, !.backoff_deadline = r.backoff],
                          "CONNECTING")
    ELSE disconnect([r EXCEPT !.backoff_deadline = Never])

-----------------------------------------------------------------------------
(* The vconn and the network below it *)

\* Can an attempt succeed, stay undecided or fail; can a sent packet leave.
MayOpen    == {o \in BOOLEAN : o \/ network = "refused"}
ConnectResults ==
    IF network = "ok" THEN {"ok", "EAGAIN"}
    ELSE IF network = "silent" THEN {"EAGAIN"} ELSE {"EAGAIN", "error"}
SendResults ==
    IF network = "refused" THEN {"ok", "EAGAIN", "error"} ELSE {"ok", "EAGAIN"}
RecvResults ==
    (IF inbox # "none" THEN {"ok"} ELSE {"EAGAIN"})
        \union (IF network = "refused" THEN {"error"} ELSE {})

-----------------------------------------------------------------------------
(* Sending *)

Sent(r) == [r EXCEPT !.txq = Tail(@),
                     !.n_queued = @ - IF Head(r.txq).counted THEN 1 ELSE 0]

try_send(r, result) ==
    IF result = "ok" THEN Sent(r) ELSE IF result = "error" THEN disconnect(r) ELSE r

\* The first n packets of the queue leave.
SentFirst(r, n) == [r EXCEPT !.txq = SubSeq(@, n + 1, Len(@)),
                             !.n_queued = @ - Counted(SubSeq(r.txq, 1, n))]

\* The outcomes of do_tx_work: packets leave until the queue is empty or the vconn
\* refuses the next one.
do_tx_work(r) ==
    {SentFirst(r, Len(r.txq))}
      \union {try_send(SentFirst(r, n), x) :
                  n \in 0..(Len(r.txq) - 1), x \in SendResults \ {"ok"}}

Push(r, b) == [r EXCEPT !.txq = Append(@, b),
                        !.n_queued = @ + IF b.counted THEN 1 ELSE 0]

\* A monitor that fails is forgotten.
copy_to_monitor(r) == {[r EXCEPT !.monitors = @ \ failing] : failing \in SUBSET r.monitors}

\* The outcomes of rconn_send: only the first packet of a queue is tried at once.
rconn_send(r, b) ==
    IF ~is_connected_state(r.state) THEN {r}
    ELSE UNION {IF Len(q.txq) = 1 THEN {try_send(q, x) : x \in SendResults} ELSE {q} :
                   q \in {Push(m, b) : m \in copy_to_monitor(r)}}

-----------------------------------------------------------------------------
(* The states *)

\* timeout_*, as the number of seconds after which timed_out is true.
timed_out(r) ==
    \/ r.state = "BACKOFF" /\ r.state_entered >= r.backoff
    \/ r.state = "CONNECTING" /\ r.state_entered >= MaxOf(1, r.backoff)
    \/ r.state = "ACTIVE" /\ probe_interval > 0
         /\ MinOf(r.last_received, r.state_entered) >= probe_interval
    \/ r.state = "IDLE" /\ r.state_entered >= probe_interval

\* Faulty variant: no more attempts once the longest backoff is reached.
run_BACKOFF_limited(r) ==
    IF timed_out(r) /\ r.backoff < max_backoff
    THEN {reconnect(r, o) : o \in MayOpen} ELSE {r}

run_BACKOFF(r) ==
    IF timed_out(r) THEN {reconnect(r, o) : o \in MayOpen} ELSE {r}

run_CONNECTING(r) ==
    {CASE x = "ok" -> [state_transition(r, "ACTIVE") EXCEPT !.last_connected = 0]
       [] x = "error" -> disconnect(r)
       [] x = "EAGAIN" /\ timed_out(r) -> disconnect([r EXCEPT !.backoff_deadline = Never])
       [] OTHER -> r : x \in ConnectResults}

EchoRequest(r) == [to |-> r.name, counted |-> FALSE]

\* Faulty variant: the probe is sent again and again instead of once.
run_ACTIVE_forever(r) ==
    IF timed_out(r)
    THEN {[s EXCEPT !.state_entered = 0] : s \in rconn_send(r, EchoRequest(r))}
    ELSE do_tx_work(r)

\* The transition to IDLE follows whatever has become of the connection in rconn_send.
run_ACTIVE(r) ==
    IF timed_out(r)
    THEN {state_transition(s, "IDLE") : s \in rconn_send(r, EchoRequest(r))}
    ELSE do_tx_work(r)

run_IDLE(r) ==
    IF timed_out(r) THEN {disconnect(question_connectivity(r))} ELSE do_tx_work(r)

run(r) ==
    CASE r.state = "VOID"       -> {r}
      [] r.state = "BACKOFF"    -> run_BACKOFF(r)
      [] r.state = "CONNECTING" -> run_CONNECTING(r)
      [] r.state = "ACTIVE"     -> run_ACTIVE(r)
      [] r.state = "IDLE"       -> run_IDLE(r)

\* run touches the vconn: vconn_connect, or vconn_send for a packet of the queue.
UsesVconn(r) ==
    \/ r.state = "CONNECTING"
    \/ is_connected_state(r.state)
         /\ ((r.txq # <<>> /\ ~timed_out(r)) \/ (r.state = "ACTIVE" /\ timed_out(r) /\ r.txq = <<>>))

-----------------------------------------------------------------------------
(* Actions *)

Init ==
    /\ rc = rconn_create
    /\ inRun = FALSE
    /\ network \in {"ok", "silent", "refused"}
    /\ inbox = "none"
    /\ since = 0
    /\ monitorsOpen = {}
    /\ connects = 0
    /\ crashed = FALSE

Env == <<network, monitorsOpen>>
Callable == ~inRun /\ ~crashed

Crash == crashed' = TRUE /\ UNCHANGED <<rc, inRun, inbox, since>>

rconn_connect(p) ==
    /\ Callable
    /\ connects < MaxConnects
    /\ connects' = connects + 1
    /\ \E o \in MayOpen :
          rc' = reconnect([rconn_disconnect(rc) EXCEPT !.name = p, !.reliable = TRUE], o)
    /\ inbox' = "none"
    /\ UNCHANGED <<inRun, crashed, since, Env>>

rconn_connect_unreliably(p) ==
    /\ Callable /\ Unreliable
    /\ connects < MaxConnects
    /\ connects' = connects + 1
    /\ rc' = state_transition([rconn_disconnect(rc) EXCEPT
                                  !.name = p, !.vconn = TRUE, !.last_connected = 0], "ACTIVE")
    /\ inbox' = "none"
    /\ since' = 0
    /\ UNCHANGED <<inRun, crashed, Env>>

Disconnect ==
    /\ Callable
    /\ rc.state # "VOID"
    /\ rc' = rconn_disconnect(rc)
    /\ inbox' = "none"
    /\ UNCHANGED <<inRun, crashed, connects, since, Env>>

\* A peer that is reached answers the probe, with an OFPT_ECHO_REPLY.
EchoReplied(r) == network = "ok" /\ r.state = "IDLE" /\ r.txq = <<>>

\* One turn of the loop of rconn_run, which ends when the state stays the same.
rconn_run ==
    /\ ~crashed
    /\ \/ /\ UsesVconn(rc) /\ ~rc.vconn
          /\ Crash
       \/ /\ UsesVconn(rc) => rc.vconn
          /\ \E r \in run(rc) :
                /\ rc' = r
                /\ inRun' = (r.state # rc.state)
                /\ inbox' = IF ~r.vconn THEN "none"
                            ELSE IF inbox = "none" /\ EchoReplied(r) THEN "ordinary"
                            ELSE inbox
                /\ since' = IF rc.state = "CONNECTING" /\ r.state = "ACTIVE" THEN 0 ELSE since
          /\ UNCHANGED crashed
    /\ UNCHANGED <<connects, Env>>

\* Faulty variant: whatever the peer sends proves that it has admitted us.
Receive_trusting(r, message) ==
    LET s == [r EXCEPT !.probably_admitted = TRUE, !.last_admitted = 0, !.last_received = 0]
    IN IF r.state = "IDLE" THEN state_transition(s, "ACTIVE") ELSE s

Receive(r, message) ==
    LET admitted == message = "admission" \/ r.last_connected >= AdmissionPeriod
        s == [r EXCEPT !.probably_admitted = @ \/ admitted,
                       !.last_admitted = IF admitted THEN 0 ELSE @,
                       !.last_received = 0]
    IN IF r.state = "IDLE" THEN state_transition(s, "ACTIVE") ELSE s

rconn_recv ==
    /\ Callable
    /\ is_connected_state(rc.state)
    /\ \/ ~rc.vconn /\ Crash
       \/ /\ rc.vconn
          /\ \/ /\ "ok" \in RecvResults
                /\ \E r \in copy_to_monitor(rc) : rc' = Receive(r, inbox)
                /\ inbox' = "none"
             \/ /\ "error" \in RecvResults
                /\ rc' = disconnect(rc)
                /\ inbox' = "none"
          /\ UNCHANGED <<inRun, crashed, since>>
    /\ UNCHANGED <<connects, Env>>

\* rconn_send_with_limit of a packet that the caller counts.
rconn_send_with_limit ==
    /\ Callable
    /\ rc.n_queued < queue_limit
    /\ Len(rc.txq) < MaxQueue
    /\ is_connected_state(rc.state)
    /\ LET b == [to |-> rc.name, counted |-> TRUE]
       IN \/ /\ rc.txq = <<>> /\ ~rc.vconn
             /\ Crash
          \/ /\ rc.txq = <<>> => rc.vconn
             /\ rc' \in rconn_send(rc, b)
             /\ inbox' = IF rc'.vconn THEN inbox ELSE "none"
             /\ UNCHANGED <<inRun, crashed, since>>
    /\ UNCHANGED <<connects, Env>>

rconn_add_monitor(m) ==
    /\ Callable
    /\ m \notin monitorsOpen
    /\ IF Cardinality(rc.monitors) < MAX_MONITORS
       THEN /\ rc' = [rc EXCEPT !.monitors = @ \union {m}]
            /\ monitorsOpen' = monitorsOpen \union {m}
       ELSE UNCHANGED <<rc, monitorsOpen>>
    /\ UNCHANGED <<inRun, network, inbox, since, connects, crashed>>

\* rconn_destroy, and rconn_create of the rconn that takes its place.
rconn_destroy ==
    /\ Callable
    /\ connects > 0
    /\ rc' = [rconn_create EXCEPT !.n_queued = flush_queue(rc).n_queued]
    /\ monitorsOpen' = monitorsOpen \ rc.monitors
    /\ inbox' = "none"
    /\ since' = 0
    /\ UNCHANGED <<inRun, network, connects, crashed>>

rconn_is_connectivity_questionable ==
    /\ Callable
    /\ rc.questionable
    /\ rc' = [rc EXCEPT !.questionable = FALSE]
    /\ UNCHANGED <<inRun, inbox, since, crashed, connects, Env>>

-----------------------------------------------------------------------------
(* Time and the network *)

Older(r) ==
    [r EXCEPT !.state_entered  = MinOf(@ + 1, AgeCap),
              !.last_received  = MinOf(@ + 1, probe_interval),
              !.last_connected = MinOf(@ + 1, LongCap),
              !.last_questioned = MinOf(@ + 1, LongCap),
              !.last_admitted  = MinOf(@ + 1, FailureCap),
              !.backoff_deadline = IF @ = Never THEN @ ELSE MaxOf(@ - 1, 0)]

\* A second passes; the process may be late for a timer that is due.
Tick ==
    /\ Callable
    /\ rc' = Older(rc)
    /\ since' = MinOf(since + 1, LongCap)
    /\ UNCHANGED <<inRun, inbox, crashed, connects, Env>>

\* The queue has no limit for probes: each message of a peer that does not read makes
\* room for another one.  Bound: the peer sends while fewer than MaxQueue wait, and
\* a message that is not received yet stays in front of what follows it.
PeerSends ==
    /\ Callable
    /\ Len(rc.txq) < MaxQueue
    /\ network = "ok" /\ is_connected_state(rc.state) /\ rc.vconn
    /\ inbox = "none"
    /\ inbox' \in {"ordinary", "admission"}
    /\ UNCHANGED <<rc, inRun, since, crashed, connects, Env>>

NetworkChanges ==
    /\ Callable
    /\ network' \in {"ok", "silent", "refused"}
    /\ UNCHANGED <<rc, inRun, inbox, since, monitorsOpen, connects, crashed>>

Next ==
    \/ \E p \in Peer : rconn_connect(p) \/ rconn_connect_unreliably(p)
    \/ Disconnect
    \/ rconn_destroy
    \/ rconn_run
    \/ rconn_recv
    \/ rconn_send_with_limit
    \/ \E m \in Monitor : rconn_add_monitor(m)
    \/ rconn_is_connectivity_questionable
    \/ Tick
    \/ PeerSends
    \/ NetworkChanges

Spec == Init /\ [][Next]_vars

Connected == rconn_run /\ rc.state = "CONNECTING" /\ rc'.state = "ACTIVE"

\* The main loops of secchan and controller call rconn_run and then rconn_recv in
\* every turn, time goes on, and a handshake that could succeed again and again
\* does succeed.
FairSpec ==
    /\ Spec
    /\ WF_vars(rconn_run) /\ WF_vars(rconn_recv) /\ WF_vars(Tick)
    /\ SF_vars(Connected)

-----------------------------------------------------------------------------
(* Properties *)

\* The callers' counter is the number of their packets in the queue after every
\* sequence of sends, refusals, disconnections and probes, so the limit of
\* rconn_send_with_limit neither leaks away nor lets the queue grow.
QueueAccounting ==
    /\ rc.n_queued = Counted(rc.txq)
    /\ Counted(rc.txq) <= queue_limit

\* A vconn is held while it is being connected or used, and otherwise closed: none is
\* forgotten open when the rconn gives up or is told to disconnect, and only a
\* reliable rconn waits to try again.
HoldsVconn(r) ==
    /\ r.state \in {"VOID", "BACKOFF"} => ~r.vconn
    /\ r.state \in {"CONNECTING", "ACTIVE"} => r.vconn
    /\ r.state \in {"BACKOFF", "CONNECTING"} => r.reliable /\ r.name \in Peer
    /\ r.state = "BACKOFF" => r.backoff \in 1..max_backoff

\* The code has one exception.  run_ACTIVE goes to IDLE whatever has become of the connection
\* in rconn_send: when the inactivity probe is refused, disconnect has already closed
\* the vconn, and the rconn is IDLE without one.
LosesVconn ==
    /\ rc.state = "ACTIVE" /\ timed_out(rc) /\ rc.txq = <<>>
    /\ network = "refused"

\* Apart from that, the vconn goes with the state after every sequence of calls, losses and
\* timeouts: a connected state loses its vconn in no other step, and a null vconn is
\* used only in the state that this step leaves.
VconnFollowsState ==
    /\ HoldsVconn(rc')
    /\ (rc'.state = "IDLE" /\ ~rc'.vconn) => (rc.state = "IDLE" /\ ~rc.vconn) \/ LosesVconn
    /\ crashed' => rc'.state = "IDLE" /\ ~rc'.vconn

VconnMatchesState == [][VconnFollowsState]_vars

\* Being connected for a moment does not count as being admitted.  The failure duration
\* (rconn_failure_duration) starts again, and the rconn counts as admitted, only when a
\* message is received that proves admission, or any message on a connection that has
\* itself lasted AdmissionPeriod, however long earlier ones lasted.  An rconn that
\* is created anew starts at 0.
EarnsAdmission ==
    \/ rc'.last_admitted < rc.last_admitted
    \/ rc'.probably_admitted /\ ~rc.probably_admitted
    => \/ rc' = [rconn_create EXCEPT !.n_queued = rc'.n_queued]
       \/ /\ rc.vconn /\ inbox # "none" /\ inbox' = "none"
          /\ inbox = "admission" \/ since >= AdmissionPeriod

AdmissionIsEarned == [][EarnsAdmission]_vars

\* A reliable rconn whose network works is connected again and again, however often
\* the connection was lost before.
Reconnects ==
    []<>(is_connected_state(rc.state) \/ rc.state = "VOID" \/ network # "ok" \/ crashed)

\* With probes, a peer that has become silent is given up.
SilentPeerIsGivenUp ==
    (is_connected_state(rc.state) /\ network = "silent")
        ~> (~is_connected_state(rc.state) \/ network # "silent" \/ crashed)
=============================================================================
