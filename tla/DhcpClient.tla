---------------------------- MODULE DhcpClient ----------------------------
(***************************************************************************)
(* Controller discovery: the DHCP client of lib/dhcp-client.c as           *)
(* secchan/discovery.c drives it.                                          *)
(*                                                                         *)
(* Times are relative: elapsed counts the seconds in this state, due those *)
(* until the next retransmission, lease_left those until lease_expiration  *)
(* and wake those until the poll loop calls dhclient_run again.  Servers   *)
(* and the network are external: requests may be answered with any of      *)
(* Terms or refused, and answers arrive late, in any order or never.  All  *)
(* messages carry the same xid, which the client never changes.            *)
(***************************************************************************)
EXTENDS Integers, Sequences, SequencesExt, FiniteSets, FiniteSetsExt

CONSTANTS Terms,             \* [ip, lease, t1, t2, valid, server] that servers offer; 0 is
                             \* absent, valid: discovery accepts it, server: it names one
          Requested,         \* addresses that dhclient_init asks for; 0 is none
          MIN_ACCEPTABLE_LEASE,
          LongLease,         \* leases from here on have fuzzy T1 and T2: 60
          LeaseFuzz,         \* and this much of it: 10
          GiveUp,            \* seconds in REBOOTING, REQUESTING and SELECTING: 60
          InitDelays,        \* fuzz(2, 1)
          Retransmits,       \* fuzz(delay, 1), where discovery limits delay to 3
          Deadline,          \* of discovery_question_connectivity: 15
          QuestionInterval,  \* rconn.c questions connectivity no more often: 60
          Word,              \* unsigned integers wrap here
          MaxQueue,          \* bound: messages in the receive queue
          Longest,           \* bound: seconds from here on are not told apart
          MaxInFlight,       \* bound: requests, and replies, on their way; more are lost
          MaxCalls           \* bound: calls of init, release and force_renew

ASSUME DhcpAssumption ==
    /\ \A t \in Terms : t.lease \in 0..(Word - 1) /\ t.t1 \in Nat /\ t.t2 \in Nat
    /\ 0 \notin {t.ip : t \in Terms}
    /\ MIN_ACCEPTABLE_LEASE > 1
    /\ Deadline < QuestionInterval
    /\ {LongLease, LeaseFuzz, GiveUp, Deadline, QuestionInterval, Word, Longest} \subseteq Nat
    /\ (LongLease * 7) \div 8 > LeaseFuzz
    /\ 2 * LongLease < Word
    /\ InitDelays \subseteq Nat /\ Retransmits \subseteq Nat \ {0}
    /\ \A secs \in {GiveUp, QuestionInterval} \union InitDelays \union {t.lease : t \in Terms} :
           secs < Longest    \* every timeout
    /\ MaxQueue < 50         \* do_receive_msg reads no more at a time

VARIABLES cli,       \* struct dhclient
          again,     \* dhclient_run is in its loop
          wake,
          requests, replies,   \* messages on their way
          device,    \* the address that the network device is configured with
          calls,
          asked      \* seconds since connectivity was last questioned

vars == <<cli, again, wake, requests, replies, device, calls, asked>>

None == [ip |-> 0]
Never == Word

Bound(c) == c.state \in {"BOUND", "RENEWING", "REBINDING"}
dhclient_get_ip(c) == IF Bound(c) THEN c.ipaddr ELSE 0

state_transition(c, state) ==
    LET am == state \in {"BOUND", "RENEWING", "REBINDING"}
    IN [c EXCEPT !.state = state, !.elapsed = 0, !.due = 0,
                 !.changed = @ \/ Bound(c) # am,
                 !.binding = IF Bound(c) /\ ~am THEN None ELSE @,
                 !.queue = IF state \in {"SELECTING", "REQUESTING", "REBOOTING"}
                           THEN <<>> ELSE @]

\* timeout() is true at once or sets the poll loop's alarm.
timeout(c, secs) == c.elapsed >= secs
Alarm(c, secs) == [c EXCEPT !.alarm = Min({@, Max({secs - c.elapsed, 0})})]

-----------------------------------------------------------------------------
(* Sending *)

\* The client after send_reliably with some fuzz, and the request it sends, if any.
send_reliably(c, fuzz) ==
    IF c.due = 0 THEN [c EXCEPT !.due = fuzz, !.alarm = 0]
    ELSE [c EXCEPT !.alarm = Min({@, c.due})]
Sends(c, type) ==
    IF c.due = 0 /\ Cardinality(requests) < MaxInFlight
    THEN {[type |-> type]} ELSE {}

-----------------------------------------------------------------------------
(* Receiving *)

validate_offered_options(m) == m.terms.valid /\ m.terms.lease >= MIN_ACCEPTABLE_LEASE

\* What dhclient_run_SELECTING goes on with.
Acceptable(m) == m.type = "OFFER" /\ validate_offered_options(m) /\ m.terms.server

\* The position of the first message that is used, or 0.
FirstOf(q, Used(_)) ==
    LET hits == {i \in DOMAIN q : Used(q[i])} IN IF hits = {} THEN 0 ELSE Min(hits)
RestAfter(q, i) == IF i = 0 THEN <<>> ELSE SubSeq(q, i + 1, Len(q))

\* T2 and T1 of a lease: the server's if they make sense.
Clamp(x, low, high) == Min({Max({x, low}), high})
calc_t2(lease) ==
    LET base == (lease * 7) \div 8
    IN IF lease >= LongLease
       THEN {Clamp(base + f, 0, lease - 1) : f \in -LeaseFuzz..LeaseFuzz} ELSE {base}
calc_t1(lease, t2) ==
    IF lease >= LongLease
    THEN {Clamp((lease \div 2) + f, 0, t2 - 1) : f \in -LeaseFuzz..LeaseFuzz}
    ELSE {lease \div 2}

T2s(m) == IF m.t2 = 0 \/ m.t2 >= m.lease THEN calc_t2(m.lease) ELSE {m.t2}
T1s(m, t2) == IF m.t1 = 0 \/ m.t1 >= t2 THEN calc_t1(m.lease, t2) ELSE {m.t1}

\* Not the times.
same_binding(old, new) == old.ip = new.ip

Accept(c, m, t1, t2) ==
    state_transition(
        [c EXCEPT !.changed = @ \/ (c.binding # None /\ ~same_binding(c.binding, m)),
                  !.binding = m, !.ipaddr = m.ip, !.lease_left = m.lease,
                  !.bound_timeout = t1, !.renewing_timeout = (t2 - t1) % Word,
                  !.rebinding_timeout = m.lease - t2],
        "BOUND")

\* The outcomes of receive_ack: whether it returned true, and the client then.
receive_ack(c) ==
    LET i == FirstOf(c.queue, LAMBDA m : m.type \in {"ACK", "NAK"})
        d == [c EXCEPT !.queue = RestAfter(c.queue, i)]
        m == c.queue[i]
    IN IF i = 0 THEN {[ok |-> FALSE, cli |-> d]}
       ELSE IF m.type = "NAK"
       THEN {[ok |-> TRUE, cli |-> state_transition(d, "INIT")]}
       ELSE IF ~validate_offered_options(m) THEN {[ok |-> FALSE, cli |-> d]}
       ELSE UNION {{[ok |-> TRUE, cli |-> Accept(d, m.terms, t1, t2)] : t1 \in T1s(m.terms, t2)} :
                      t2 \in T2s(m.terms)}

-----------------------------------------------------------------------------
(* The states *)

\* The end of an iteration of dhclient_run: it goes on while the state changes; then
\* discovery_run configures the device, and dhclient_wait sets the timer.
Ran(after) == \E c \in {after} :
    /\ again' = (c.state # cli.state)
    /\ cli' = [c EXCEPT !.changed = @ /\ again', !.alarm = Never]
    /\ device' = IF c.changed /\ ~again' THEN dhclient_get_ip(c) ELSE device
    /\ wake' = IF again' THEN 0 ELSE c.alarm
    /\ UNCHANGED <<replies, calls, asked>>

\* Whether the poll loop wakes up for a message.
Readable == cli.queue # <<>>
              /\ cli.state \in {"SELECTING", "REQUESTING", "RENEWING", "REBINDING"}

Running(states) == cli.state \in states

do_init(state, next_state) ==
    /\ Running({state})
    /\ \E delay \in InitDelays :
          LET c == [cli EXCEPT !.init_delay = IF @ = 0 THEN delay ELSE @]
          IN Ran(IF timeout(c, c.init_delay) THEN state_transition(c, next_state)
                 ELSE Alarm(c, c.init_delay))
    /\ UNCHANGED requests

dhclient_run_SELECTING ==
    /\ Running({"SELECTING"})
    /\ requests' = requests \union Sends(cli, "DISCOVER")
    /\ \E fuzz \in Retransmits :
          LET c == send_reliably(cli, fuzz)
              d == IF c.server_ip THEN IF timeout(c, GiveUp)
                                       THEN state_transition([c EXCEPT !.server_ip = FALSE], "INIT")
                                       ELSE Alarm(c, GiveUp)
                   ELSE c
              i == FirstOf(d.queue, Acceptable)
          IN Ran(IF i = 0 THEN [d EXCEPT !.queue = <<>>]
                 ELSE state_transition([d EXCEPT !.server_ip = TRUE,
                                                 !.ipaddr = d.queue[i].terms.ip],
                                       "REQUESTING"))

\* Faulty variant: the alarm for the end of the state is not set.
AwaitAckForever(secs, next_state) ==
    /\ requests' = requests \union Sends(cli, "REQUEST")
    /\ \E fuzz \in Retransmits, r \in receive_ack(cli) :
          Ran(send_reliably(cli, fuzz))

\* REBOOTING, REQUESTING, RENEWING and REBINDING: ask, and go on after secs.
AwaitAck(secs, next_state) ==
    /\ requests' = requests \union Sends(cli, "REQUEST")
    /\ \E fuzz \in Retransmits :
          LET c == send_reliably(cli, fuzz)
          IN \E r \in receive_ack(c) :
                Ran(IF r.ok THEN r.cli
                    ELSE IF timeout(c, secs) THEN state_transition(r.cli, next_state)
                    ELSE Alarm(r.cli, secs))

dhclient_run_BOUND ==
    /\ Running({"BOUND"})
    /\ Ran(IF timeout(cli, cli.bound_timeout) THEN state_transition(cli, "RENEWING")
           ELSE Alarm(cli, cli.bound_timeout))
    /\ UNCHANGED requests

dhclient_run_RELEASED ==
    /\ Running({"RELEASED"})
    /\ Ran(cli)
    /\ UNCHANGED requests

dhclient_run ==
    \/ do_init("INIT", "SELECTING")
    \/ do_init("INIT_REBOOT", "REBOOTING")
    \/ Running({"REBOOTING", "REQUESTING"}) /\ AwaitAck(GiveUp, "INIT")
    \/ dhclient_run_SELECTING
    \/ dhclient_run_BOUND
    \/ Running({"RENEWING"}) /\ AwaitAck(cli.renewing_timeout, "REBINDING")
    \/ Running({"REBINDING"}) /\ AwaitAck(cli.rebinding_timeout, "INIT")
    \/ dhclient_run_RELEASED

-----------------------------------------------------------------------------
(* Calls *)

dhclient_create ==
    [state |-> "RELEASED", elapsed |-> 0, ipaddr |-> 0, server_ip |-> FALSE,
     binding |-> None, changed |-> TRUE, due |-> 0, init_delay |-> 0, lease_left |-> 0,
     bound_timeout |-> 0, renewing_timeout |-> 0, rebinding_timeout |-> 0,
     alarm |-> Never, queue |-> <<>>]

InitClient(c, requested_ip) ==
    [state_transition(c, IF requested_ip # 0 THEN "INIT_REBOOT" ELSE "INIT")
        EXCEPT !.ipaddr = requested_ip, !.init_delay = 0]

Called(c) ==
    /\ ~again
    /\ calls < MaxCalls
    /\ calls' = calls + 1
    /\ cli' = c
    /\ UNCHANGED <<again, requests, replies, device>>

dhclient_init(requested_ip) ==
    /\ Called(InitClient(cli, requested_ip))
    /\ wake' = 0
    /\ UNCHANGED asked

dhclient_release ==
    /\ Called(state_transition(cli, "RELEASED"))
    /\ wake' = Never
    /\ UNCHANGED asked

\* Faulty variant: the lease that is left is not looked at.
do_force_renew_late(c, deadline) ==
    IF c.state \in {"BOUND", "RENEWING"}
    THEN [state_transition(c, "RENEWING") EXCEPT !.renewing_timeout = (deadline * 3) \div 4,
                                                 !.rebinding_timeout = deadline \div 4]
    ELSE [state_transition(c, "REBINDING") EXCEPT !.rebinding_timeout = deadline]

do_force_renew(c, deadline) ==
    LET d == Min({c.lease_left, deadline})
    IN IF c.lease_left <= deadline /\ c.state \in {"RENEWING", "REBINDING"} THEN c
       ELSE IF c.state \in {"BOUND", "RENEWING"}
       THEN [state_transition(c, "RENEWING") EXCEPT !.renewing_timeout = (d * 3) \div 4,
                                                    !.rebinding_timeout = d \div 4]
       ELSE [state_transition(c, "REBINDING") EXCEPT !.rebinding_timeout = d]

\* discovery_question_connectivity: drains the queue, then asks again.
dhclient_force_renew ==
    LET c == [cli EXCEPT !.queue = <<>>]
    IN /\ asked >= QuestionInterval
       /\ \/ ~Bound(cli) /\ cli.state # "RELEASED" /\ Called(c) /\ UNCHANGED wake
          \/ Bound(cli) /\ Called(do_force_renew(c, Deadline)) /\ wake' = 0
          \/ cli.state = "RELEASED" /\ Called(InitClient(c, 0)) /\ wake' = 0
       /\ asked' = 0

-----------------------------------------------------------------------------
(* Servers, the network and time *)

Reply(type, t) == [type |-> type, terms |-> t]

Answer(r) ==
    /\ Cardinality(replies) < MaxInFlight
    /\ requests' = requests \ {r}
    /\ \/ \E t \in Terms :
             replies' = replies \union
                 {Reply(IF r.type = "DISCOVER" THEN "OFFER" ELSE "ACK", t)}
       \/ /\ r.type = "REQUEST"
          /\ replies' = replies \union {Reply("NAK", None)}
    /\ UNCHANGED <<cli, again, wake, device, calls, asked>>

Lose ==
    /\ \/ \E r \in requests : requests' = requests \ {r} /\ UNCHANGED replies
       \/ \E m \in replies : replies' = replies \ {m} /\ UNCHANGED requests
    /\ UNCHANGED <<cli, again, wake, device, calls, asked>>

\* Arrives, and may arrive once more.
Arrive(m, duplicated) ==
    /\ Len(cli.queue) < MaxQueue
    /\ cli' = [cli EXCEPT !.queue = Append(@, m)]
    /\ replies' = IF duplicated THEN replies ELSE replies \ {m}
    /\ UNCHANGED <<again, wake, requests, device, calls, asked>>

second ==
    /\ ~again /\ wake # 0 /\ ~Readable
    /\ cli' = [cli EXCEPT !.elapsed = Min({@ + 1, Longest}), !.due = Max({@ - 1, 0}),
                          !.lease_left = IF Bound(cli) THEN Max({@ - 1, -1}) ELSE 0]
    /\ wake' = IF wake = Never THEN Never ELSE wake - 1
    /\ asked' = Min({asked + 1, QuestionInterval})
    /\ UNCHANGED <<again, requests, replies, device, calls>>

Init ==
    /\ cli = InitClient(dhclient_create, 0)      \* discovery_local_port_cb
    /\ again = FALSE
    /\ wake = 0
    /\ requests = {} /\ replies = {}
    /\ device = 0
    /\ calls = 0
    /\ asked = QuestionInterval

Next ==
    \/ dhclient_run
    \/ \E ip \in Requested : dhclient_init(ip)
    \/ dhclient_release
    \/ dhclient_force_renew
    \/ \E r \in requests : Answer(r)
    \/ \E m \in replies, duplicated \in BOOLEAN : Arrive(m, duplicated)
    \/ Lose
    \/ second

Spec == Init /\ [][Next]_vars

\* The main loop runs whenever the poll loop wakes up, and time passes between its
\* runs, however many messages arrive.
FairSpec == Spec /\ WF_vars(dhclient_run) /\ SF_vars(second)

-----------------------------------------------------------------------------
(* Properties *)

\* A T2 of the server's that comes before the T1 that calc_t1 gives a short lease.
Backwards(m) ==
    m.lease < LongLease /\ 0 < m.t2 /\ m.t2 < m.lease \div 2 /\ ~(0 < m.t1 /\ m.t1 < m.t2)

\* receive_ack's t2 - t1 has wrapped around, and no forced renewal has set other times.
Wrapped == Backwards(cli.binding) /\ cli.renewing_timeout > cli.binding.lease

\* An address is not used for longer than its lease, through renewals that fail, calls
\* of force_renew and late answers: the alarms that the states set wake the poll loop
\* in time to give it up.  The one exception is the renewal of a lease for which t2 - t1
\* has wrapped around in receive_ack: it goes on after the lease.
LeaseNotExceeded ==
    Bound(cli) /\ cli.lease_left < 0 => cli.state # "BOUND" /\ Wrapped

\* No state lasts for ever but RELEASED, SELECTING when no acceptable offer arrives, and
\* RENEWING when t2 - t1 has wrapped around in receive_ack.
MovesOn ==
    \/ []<><<cli'.state # cli.state>>_cli
    \/ <>[](cli.state = "RELEASED")
    \/ <>[](/\ cli.state = "SELECTING"
            /\ \A i \in DOMAIN cli.queue : ~Acceptable(cli.queue[i]))
    \/ <>[](cli.state = "RENEWING" /\ Wrapped)
=============================================================================
