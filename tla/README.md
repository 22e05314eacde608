# TLA+ models of the SD-WAN overlay simulation and its OpenFlow library

The program in `src/code` simulates a branch router (CPE) that distributes the
traffic of several applications over several ISP interfaces, following one of
four strategies, to a sink. It is written against ns-3: everything happens in
handlers that the ns-3 scheduler calls one at a time, and the packets travel
over ns-3's TCP sockets. Beside it, `src/openflowlib` holds the OpenFlow
reference implementation (controller, secure channel, switch and kernel
datapath). This directory holds models of both, TLC runs on small instances, and
TLAPS proofs, for all instances, about the simulation and about the library's
reliable connection, flow tables, switch datapath, kernel datapath, port watcher,
spanning tree and DHCP client.

    cd tla
    tlc -workers 2 -config strategies.cfg MCSDWan
    tlapm SDWanProofs.tla

Sections 1 to 4 are about the simulation, section 5 about the OpenFlow library.

## 1. The system

| Component | State | Operations | Talks to |
|---|---|---|---|
| Applications (`SDWanApplication`, `SinApplication`, `SDWanStaticApplication`, `SinGenerator`) | queue of packets, generated packets, current sample, end flag | `OnApplicationStart`, `Update`/`OnUpdate` | called by the sender, popped by the strategy |
| ISP interfaces (`ISPInterface`) | queue, correct/corrupt counters, connected flag, channel parameters | enqueue, next packet, rates, average waiting time | filled by the strategy, emptied by the sender |
| Strategies (`RoundRobinStrategy`, `RandomStrategy`, `LinearStrategy`, `ReactiveStrategy`) | data points of the report, `hasBeenComputed` | `Compute`, `getAllDataHasBeenSent` | moves packets from applications to interfaces; asks OR-Tools; writes a csv |
| Sender (`SenderApplication`) | sockets, bytes sent, scheduled events | `StartApplication`, `ComputeStrategyAndContinue` (every second), `SendPacket` (one loop per interface), connect callbacks | ns-3 scheduler, sockets |
| TCP sockets (ns-3 `TcpSocketBase`, vendored) | state, end point, retries, TX and RX buffer | `Connect`, `Send`, timers, acknowledgements, receive callback | both applications |
| Sink (`ReceiverApplication`) | list of received packets, bytes read | `StartApplication`, `HandleRead` | sockets; read by `main` |
| Run (`main.cpp`, `RunInfo`, `Utils`) | parameters, results | `RunSimulation`, report | builds the rest, aggregates the sink's list |

What is hard here: the sender's loops (one per interface and one that computes)
decide on their own, by the same test, when to stop; the sockets carry bytes,
and the sink must find the packets in them again; a connection may fail before
it is established (then `Send` fails and the program dies) or after (then
nothing tells the application); plans may be infeasible; and the report adds up
numbers that three parts count independently. `PROJECT.json` lists these
hazards with their lines.

What makes each component correct: an application gives every sample once and
knows when it has none left; a strategy hands out each pending packet exactly
once; the sender loses, duplicates and strands nothing and comes to an end; the
sockets keep their marks in order and never refuse what the sender checked; the
sink records exactly what was written, in order, for the right application; the
report accounts for every packet.

## 2. Modules

`Totals` <- `SDWanApplication` <- `Strategies` <- `TcpSockets` <-
`SenderApplication`, `ReceiverApplication` <- `SDWan` <- `MCSDWan`

* **Totals**: sums over finite index sets, defined by cardinality so that the
  finite-set theorems apply (no recursion).
* **SDWanApplication**: an application is a record, its methods are operators
  on it. The payloads in the queue are never read, so the queue is its length.
* **Strategies**: the plans each `Compute` may follow (`x[a][j]` packets of
  application `a` to interface `j`), the integer programs with every constraint
  multiplied by the number of pending packets (the code divides by it, so all
  arithmetic is exact here), and the order in which an interface's queue gets
  its packets (`PacketsFor`). `Solve` stands for OR-Tools: any optimal
  solution, or none. ReactiveStrategy loops over the subsets of the
  interfaces, but its filter ends in `|| true`, so every candidate is the full
  set and the result it keeps is the optimum of that one program.
* **TcpSockets**: one connection per interface as four marks in a stream of
  bytes (acknowledged, transmitted, received in order, read), the handshake
  with its retries and the data retries. Loss, reordering and duplication of
  segments are steps that do not move a mark; how far a mark moves is free, so
  segments are cut anywhere. When the data retries are used up the end point
  goes and the state stays `ESTABLISHED`, as in `ReTxTimeout`.
* **ReceiverApplication**: `ReceivedData` delivers bytes and runs `HandleRead`,
  which reads whole packets and attributes each to the tag of its first byte.
* **SenderApplication**: `SenderStartApplication`, `ComputeStrategyAndContinue`,
  `SendPacket` (with the branches `SendLoopEnds`, `SendLater`, `SendCorrupt`,
  `SendCorrect`) and `ConnectionSucceeded`. `aborted` records the two ways the
  program dies: the uncaught exception of an infeasible plan and
  `NS_FATAL_ERROR` after a refused `Send`.
* **SDWan**: the composition, its fairness, and all properties.
* **DeliveryService**: the abstract specification, a FIFO channel of packets
  per interface; `SDWan` implements it with `written` mapped to the packets
  given to each socket and `recorded` to the sink's list.
* **RunReport**: the experiment around the simulations: main's loop over the
  strategies, the condensation of what the sink recorded into a `RunInfo`, and
  the rows of the file, with the exception that an application without a single
  received packet raises. What a simulation delivers is any outcome; a simulation
  may also die (the two ways that `aborted` of `SenderApplication` records), which ends
  the program without a row of its strategy, and so does a file that cannot be opened.
* **MCSDWan**, **MCRunReport**: the constants of the runs.
* **SDWanProofs**: the proofs about `SDWan` (lemmas about sums, about plans and about one
  connection, and the theorems), and, in its last part, those about `RunReport`.

Scheduling. ns-3 runs an event at a given simulated time. The model lets every
scheduled event run at any moment, after both start events (they are scheduled
for time 0 before anything else exists, the sender's first). Each real schedule
is one of these interleavings, so what holds here holds in the program; an
interleaving that no choice of data rates and delays produces is possible here,
which is why the violation below was confirmed against the code by hand.

Operators introduced by "Faulty variant" are plausible bugs of the definition
that follows them. No specification uses them; they serve to show that each
property fails when the code is wrong.

## 3. Runs

| Run | What it shows |
|---|---|
| `strategies` | The four strategies (chosen in the initial state) on two applications, two interfaces and 0/1 traffic of three seconds, and a burst that makes the reactive plan infeasible. Every application hands out exactly its samples (`GeneratedTraffic`). No loop stops too early (`NoStrandedPackets`, `AllSentIsStable`), no packet is lost or duplicated between the queues (`PacketConservation`), the csv is written once and is complete (`ReportIsComplete`), and what is missing in the end is exactly what the error models dropped (`LossIsCorruption`). |
| `transport` | One interface, packets of three bytes, a TX buffer of seven, segments cut anywhere, retries of both kinds: `ReceivedInOrder`, `NoWholePacketUnread`, `TcpWindows`, `FatalSendOnlyIfClosed`, `DeadConnectionIsSilent` and the refinement `DeliverySpec`; under `FairSpec` every run comes to an end with everything delivered, unless a connection died or the program aborted (`EverythingIsDelivered`). |
| `report` | Two strategies with two runs each, in which applications may deliver nothing: a row that is printed has the columns of the applications its header names (`ColumnsBelongToApplications`), and every run without a row is accounted for by how the program ended (`LostRowsHaveACause`): the whole strategy is missing when a simulation died or the file could not be opened, the runs from the first one with a silent application on when the exception of `at()` ended it, and nothing of the strategies before. |
| `stopping` | Ends in a violation of `SimulationStops`: the thesis says that the simulation stops when all packets have been sent, but after TCP dropped a connection its send loop finds the buffer full for ever. `findings` in `PROJECT.json` quotes the line. |

Reading the code for the model brought up more places where it does not do what
its texts say. They are part of the model, but no run is spent on them:

* `SenderApplication` registers `TotalAmount`, the bound on the bytes sent, and
  never reads it;
* `OnApplicationStart` and the first `Update` run in one event, so two samples
  are taken in the first second, and the first reactive plan can be infeasible
  although each single sample fits; the exception then ends the program;
* `currentIndex` of round robin starts again at the first interface every
  second, which favours the first interfaces;
* `getAveragePacketCost` divides packets by cost;
* an application none of whose packets arrived has no entry in the report's
  vectors, so `at(2)` throws, and the rows of the later runs and strategies are
  lost with it.

Bounds. `PacketSizeByte` is 1 where only packets matter and 3 where the cutting
of the stream does (a packet can then arrive in pieces, and a buffer of 7 is no
multiple of it); the program's value is 128. `SndBufSize` of one packet makes
the full-buffer branch frequent. `SynRetries` and `DataRetries` of 0 to 2 reach
every retry branch. Two applications and two interfaces are the least for which
order and attribution matter. Three seconds are the least in which the first
sample, an ordinary one and the last one differ (the first event takes two).
`MaxNow` bounds the clock: it stands still there, which only matters to the
waiting times of the reactive strategy; its bound in `strategies` is the
duration. Interface parameters
are those of `main.cpp` in relation, not in size: a slow, cheap, lossy interface
and a fast, expensive one.

Fairness (`FairSpec`). ns-3 runs every scheduled event, so the two start events,
the compute and send loops, the transmission of buffered data and the sockets'
timers are weakly fair. Nothing is assumed of the network: a SYN+ACK, a segment
or an acknowledgement may never arrive, in which case the timers use up their
retries and the connection dies. `EverythingIsDelivered` therefore allows for
dead connections and `SimulationStops` does not, which is the difference the
`stopping` run shows.

Such losses are part of the program's own set-up: `main.cpp` installs each error
model as `ReceiveErrorModel` on the CPE's device as well, so SYN+ACKs and
acknowledgements are dropped at the rate of the interface, independently of the
packets `SendData` drops itself.

Deadlock is not checked: the simulation is meant to run out of events.

## 4. Proofs

The theorems about the simulation are in `SDWanProofs` and hold for every number of applications and
interfaces, every strategy, traffic, duration, packet size, buffer size and
number of retries, from the named assumptions on the constants only.

`Invariance` proves `IInv` inductive. It is

* `TypeOK`;
* `SampleInv`: an application that still generates has a sample left. Without
  it `sinValues[currentSample]` could be outside the vector and the type of the
  queue is lost;
* `BeforeStart`: nothing is written before the sender starts, because
  `StartApplication` replaces the sockets and would otherwise forget a stream;
* `Streams`: for every connection, the order of its marks, the room in the TX
  buffer, less than a packet unread, and the sink's list being a prefix of what
  was written (`StreamInv`). Typing itself depends on it:
  `HandleRead` looks up the tag of a byte, which exists only if the byte was
  written, and its division by the packet size gives the packet's index only
  because every read starts at a packet boundary.

From it follow `TypeCorrect`, `WindowsHold` (`TcpWindows`), `InOrder`
(`ReceivedInOrder`), `NothingUnread` (`NoWholePacketUnread`), `FatalSend`
(`FatalSendOnlyIfClosed`), `DeadIsSilent` (`DeadConnectionIsSilent`) and
`Refinement` (`DeliverySpec`: a `Send` is a `Write`, a `HandleRead` a `Record`,
everything else a stutter). `AllSentStable` rests on the fact that a Compute
with nothing pending hands out nothing, whichever strategy it follows
(`ComputeKeepsAllSent`), and `NothingStranded` rests on `AllSentStable`: a loop
ends only when all is sent, and all sent stays so.

The accounts of the simulation are kept by four parties that never compare them:
an application counts what it generates, the strategy what it takes, an
interface what it queues, sends and drops, and the sink what it records.
`LedgerHolds` proves that they balance. `Ledger` is inductive relative to `IInv`
and `NoStrandedPackets`, and consists of

* `SamplesGiven`: what an application has generated is the sum of its samples up
  to the current one, and its end flag is up exactly at the last;
* `AppsBeforeStart`: the sender finds the applications as they were constructed,
  so that the first event takes two samples and no more;
* `PacketConservation`;
* `TotalsMatch`: the total of the strategy's data points and what is still
  pending make up what was generated;
* `ReportAtTheEnd`: the csv is written when the compute loop ends, and only then;
* `StoppedByItself`: a program that dies leaves a loop scheduled unless all has
  been sent. Without this part `LossIsCorruption` does not follow: an exception
  in a compute event could end the simulation with packets pending, and only
  because nothing can be infeasible when nothing is pending it does not.

From it follow `PacketsConserved` (`PacketConservation`), `ReportComplete`
(`ReportIsComplete`), `TrafficGiven` (`GeneratedTraffic`) and `LossExplained`
(`LossIsCorruption`).

The strategies enter through two lemmas. `ComputePlansAreFull`: every plan any of
them may follow sends each application's pending packets, neither more nor less
(for round robin a counting argument, for the others their constraint).
`PlanIsHandedOut`: what the interfaces' queues get from such a plan is, summed over
the interfaces, what the applications lose. They rest on lemmas about
sums: `TotalSplit` (one index apart), `TotalSum` (of two functions),
`TotalSwap` (rows against columns) and `TotalByLabel` (a finite set has as many
elements as all labels together mark). These are inductions over a finite set, and
the library's induction theorems have an operator as parameter, which the provers
cannot instantiate; `SetInduction` states the principle for the set of those
subsets that satisfy a property, and follows from the well-foundedness of strict
inclusion.

The last part of `SDWanProofs` proves both invariants of `RunReport` for any outcomes of
the simulations: `ColumnsBelong` (`ColumnsBelongToApplications`) and `RowsLost`
(`LostRowsHaveACause`). The inductive invariant `ReportIInv` relates `results`, `files`
and `simulated` position by position (`Kept`, `RowsOfRuns`), says that strategies main has
not got to are empty and that the one it is at has no rows before its report (`Untried`),
that finished strategies have a row for every run (`Reported`), and names the run that
raised the exception (`Cause`). The point is `Groups`: the keys of a map come in ascending
order, so three groups out of the ids 1 to 3 can only be 1, 2, 3 (`AscendingOfAll`), and a
`RunInfo` with a dropped application has fewer, whichever it was; so `at(2)` throws before
a shifted row is written. `RunReport` assumes what a sink can deliver: of each application
natural numbers of packets, and no more than were generated.

Only model-checked: `EverythingIsDelivered` and `SimulationStops` (liveness
under fairness is out of the prover's reach). The proofs about the OpenFlow library
are in section 5.

## 5. The OpenFlow library

### Parts

    controller ---- rconn/vconn ---- secchan ---- rconn/vconn ---- switch
    (learning        (TCP, SSL,      (relay and     (netlink,      (user space:
     switch)          unix)           hooks)         unix)          switch/, kernel:
                                                                    datapath/)

Every program is one thread around a poll loop: `X_run` functions do what can
be done without waiting, `X_wait` functions say what to wake up for, and
`poll_block` sleeps. The kernel module runs under Generic Netlink, RCU, the
rtnl lock, a work queue and a maintenance thread. What is hard: steps of one
run function between which the other side acts; timers that are never
registered; state that two parts copy from each other over connections that
lose, delay and reorder in relation to one another; memory that is freed while a
pointer to it is kept; and a resumable iteration over tables that change.

| Module | Code | State and steps |
|---|---|---|
| `Rconn` | `lib/rconn.c` | The five states with backoff, probes, the queue and its callers' counters, monitors. A time stamp is its age, capped where no comparison tells larger ages apart. What the vconn returns is limited by the state of the network. |
| `FlowTable` | `switch/chain.c`, `table-hash.c`, `table-linear.c`, `switch-flow.c` | The chain of a double-hashing and a linear table under flow_mods, packets, timeouts and resumable dumps. Hashes are arbitrary functions. |
| `Datapath` | `switch/datapath.c`, `dp_act.c` | One record and operators on it: ports, packet buffers with cookies, output, tables that are full and flows that output to them, remotes with bounded queues, dumps, handlers; the controller's connection is lost and made again. One turn of the loops of `dp_run` is a step. |
| `Stp` | `lib/stp.c`, `secchan/stp-secchan.c` | Every bridge is a record and every C function an operator; LANs carry BPDUs and lose them; bridges tick in any order. A BPDU arrives, or is lost, in the second in which it is sent. |
| `PortWatcher` | `secchan/port-watcher.c`, `stp-secchan.c`, `secchan.c` | The copy of the datapath's ports and the flags the tree sets, with three connections that each keep their own order; the two to the datapath may break and lose what they carry. |
| `DhcpClient` | `lib/dhcp-client.c`, `secchan/discovery.c` | All states with retransmission, leases, forced renewal and the alarms of the poll loop; servers and network answer late, twice or never. |
| `LearningSwitch` | `lib/learning-switch.c`, `mac-learning.c`, `controller/controller.c` | MAC table, flow set-up, the queries that implement STP states, the controller's loop, one switch. |
| `KernelDatapath` | `datapath/datapath.c`, `dp_dev.c`, `dp_notify.c`, `chain.c` | Commands step by step with their failure paths, frames under RCU, the of device's work, the maintenance thread, device events under the rtnl lock. A freed object keeps its entry, marked as not live, so that a pointer kept too long shows. |

`MC` modules give the constants of the runs where a cfg cannot.

### Runs

| Run | What it shows |
|---|---|
| `rconn` | The vconn exists in the states that need it and only there, and is lost by a connected state in no step but the one described below (`VconnMatchesState`); the callers' counters match the queue after any sequence of calls and losses (`QueueAccounting`); only a received message that proves admission, or any on a connection old enough, ends the failure duration and makes the rconn count as admitted (`AdmissionIsEarned`); the rconn gets connected again while the network works (`Reconnects`) and gives a silent peer up (`SilentPeerIsGivenUp`). |
| `flow_table` | Exact flows that overflow from table to table, wildcarded ones, timeouts and a dump one flow at a time: a lookup finds a match of the highest priority (`LookupIsBestMatch`), a deletion leaves nothing it covers (`DeleteIsComplete`), and a dump misses no flow that stays (`DumpMissesNothing`). |
| `datapath` | Until its cookie comes round, a buffer id means the packet that was reported under it, or none (`BufferIsTheReported`); a reply of several parts is neither cut nor interrupted by full queues, but for the one that was going on when the controller's connection was lost (`RepliesWhole`), and a dump ends unless the switch dies (`DumpEnds`). |
| `stp` | Two bridges on two LANs, with any set of ports up at the start, one BPDU lost and one port or id that changes at any moment, BPDUs under way or not: flooding ports form a loop only through a port that is new and of which the next second tells the datapath (`NoLoop`), every wait has its timer (`NothingForgotten`), and the right tree results for good (`Converges`, against costs computed independently). |
| `ports` | Two changes of the ports, so that one may go and come back, and a loss of either connection at any moment: the copy of the ports agrees with the datapath once every message has arrived (`ViewAgrees`, `Settles`), and the datapath floods where the tree forwards (`FloodFollowsStp`), but for the ports about which just that message was lost that nobody repeats. |
| `dhcp` | With offers without T1 and T2, with both in order, with a T2 before the T1 that the client makes up, too short, or naming no server: an address is used beyond its lease only while RENEWING with a `t2 - t1` that wrapped around (`LeaseNotExceeded`), and but for that state, RELEASED, and SELECTING without an acceptable offer, none lasts for ever (`MovesOn`). |
| `lswitch` | A flow query ends or is repeated whatever becomes of its replies (`QueryEnds`), and a port state that changes at any moment is followed by a query sent after the change (`ChangeLeadsToQuery`). |
| `kdp` | Frames under RCU and the maintenance thread only meet live ports and tables (`FrameUsesLivePort`, `TimeoutUsesLiveChain`), and between commands all pointers and the module's reference count agree, after failures too (`PointersAreLive`). |

Conditions in these properties that the code needs:

* `VconnMatchesState` names the one step that breaks the rule: `run_ACTIVE`
  (`rconn.c:386`) enters IDLE even if sending the probe has just disconnected, so the
  rconn is IDLE without a vconn. It says that no other step does that, and that a null
  vconn is used in no other state. `Reconnects` and `SilentPeerIsGivenUp` except the
  state `crashed`, in which the null vconn was used.
* `AdmissionIsEarned` measures a connection's age by the history variable `since`, which
  starts again with every connection; the code's `last_connected` has to agree with it.
* Nothing repairs what a connection of `secchan` loses. A port event lost with
  `async_rconn` is not asked for, since `got_feature_reply` stays true
  (`port-watcher.c:287`), and flags lost with `local_rconn` are recorded as set
  (`port-watcher.c:464`). History variables name the ports concerned: `missed` (the
  latest event was lost), `unset` (the tree's latest PORT_MOD was) and `gone` (a
  deletion was, and the number may have been given to another port). `ViewAgrees` and
  `Settles` except the ports in `missed`, and `FloodFollowsStp` those in `unset` and
  `gone`, until a later event or PORT_MOD takes them out; a reply that the controller asks
  for may repair the copy earlier, which is not claimed. `Settles` also excepts the crash of
  `port_watcher_remote_packet_cb` on a port that has just gone.
* A send that fails does not end a dump. `stats_dump` (`datapath.c:1668`) returns the
  positive `ENOTCONN` or `EAGAIN` of the send, and `remote_run` takes a positive number for
  more to come; so while the controller's connection is down the parts are made and
  lost, and what is left of the reply goes out on the next connection. `RepliesWhole`
  allows for exactly that dump, which the history variable `late` names. `EAGAIN` does
  not occur, since `remote_run` waits for room first.
* `BufferIsTheReported` has the hypothesis that the buffer was given to fewer packets than
  there are cookies since the id was reported. The code has 2^24 - 1 for each buffer.
* `DumpEnds` excepts the end of the switch, `crashed`. The comment of `validate_output`
  (`dp_act.c:100`) means to keep actions from sending to the flow table, but the code lets them:
  `dp_output_port` (`datapath.c:574`) looks the packet up again on its input port,
  finds the flow it is executing, and calls itself until the stack is full. In a
  packet_out the same output is of use, and one lookup.
* `NoLoop` of `Stp` makes two exceptions. The datapath floods through a port until
  the first `PORT_MOD` about it (`stp-secchan.c:152-191`), so ports that have just come
  up may form a loop until the next second of a bridge that has one of them. And if a
  bridge changes its id while a BPDU with its old one is under way, both bridges may
  believe for up to `max_age` in a root that is no more, with every port a root port or
  designated; TLC found that their forward delays can end just before that, so that
  all ports forward until the next BPDU arrives. `NoLoop` therefore says nothing of a
  bridge that has changed its id; the other two properties of the run do. A flag counts
  as set when the port watcher is told: how `PORT_MOD` travels is in `PortWatcher`.
* `FloodFollowsStp` says nothing of a port that listens or is disabled: a port that has
  just come listens, and is flooded through, until `stp_periodic_cb` tells the datapath;
  and one that comes with its link down is never mentioned at all.
* `LeaseNotExceeded` and `MovesOn` name the one case that breaks the rule, `Wrapped`.
  If a server sends a T2 below half of a short lease (less than 60 s) and no T1, or a
  T1 that is not below its T2, `calc_t1` takes half of the lease without a look at
  T2 and the unsigned `t2 - t1` (`dhcp-client.c:733`) wraps around: RENEWING does not
  end unless an ACK or a NAK arrives, and the client outlives its lease. The run has
  such an offer. The properties say that nothing else makes a lease last too long or
  a state last for ever, and that BOUND, and renewals that `dhclient_force_renew`
  cut short while the lease lasted, are in time with such an offer too. The attempt
  to prove `LeaseNotExceeded` without the exception is what found the case.
* `ChangeLeadsToQuery` is checked with a switch that probes an idle connection:
  `lswitch_wait` sets no timer for `next_query`, so without any message the
  loop sleeps over a query that is due, and no property covers that case.
* `kdp` does not ask that device events end, nor that a device event or a frame
  of the of device use a live port: the handler of UNREGISTER waits for the rtnl
  lock its caller holds, `dp_device_event` reads `br_port` outside any section
  that `synchronize_rcu` waits for, and `del_dp` frees the local port before it
  stops the of device's queue.

Other deviations that the models contain: an exact flow may be stored in two
tables after a deletion; one that overflows into the linear table can lose
against a wildcarded flow of priority 65535; a dump whose reply ends with serial
0 starts the linear table again; `flow_matches_desc` ignores the wildcards of
the stored flow; a topology change acknowledgement is lost in a 16-bit
conversion of a byte on little-endian machines; `process_flow_stats` sends its
deletions in the wrong byte order; `dp_update_port_flags` overwrites what it is
about to compare; `validate_output` compares a port of 32 bits in the order of the
network with an input port of 16, so that on a little-endian machine it refuses port
`in_port << 16` where it means to refuse the input port (`AsRead`).

### Bounds

Time-outs and intervals are scaled to a few seconds, keeping their order: a
backoff that doubles at least once, a lease with all its phases. `Longest` in
`dhcp` is where the count of seconds in a state stops; it is beyond every lease and
timeout, as the module assumes, but the one that has wrapped around, which the
code would wait for through its whole range of seconds. Queues and
tables hold one or two entries, so that they are full and empty in every run;
two ports, two remotes, two bridges are the least for which order and choice
matter, and three exact flows in two colliding buckets the least that overflow.
Every bound on the environment (packets, changes, losses, requests) is a
constant whose name begins with `Max`, chosen so that each action happens; in
`lswitch`, `MaxQueries` bounds the query messages under way at a time and not
their number, so queries may be repeated for ever. In `datapath`, one buffer with two
cookies makes ids old, and cookies come round, after two packets, and a table of one flow
is full for a second input port. In `kdp` the devices are all
up or all down at first, so that one event brings each of its kinds. The one timeout of
`flow_table` is the idle one; hard timeouts, which run down the same way without
being reset by packets, are in the module but not in the run. `lswitch` has one
station, which suffices for the queries; learning between stations is in the
module but hardly exercised.

### Proofs

Each of these seven modules extends the one it is about and proves an inductive
invariant `IInv`, from the assumptions that the module names: sets of ports,
processors and peers are arbitrary, and so are the bounds on changes, losses and
calls. TLC checked each `IInv` on the run's instance before it was proved.

**`RconnProofs`.** `VconnHeld` (`VconnMatchesState`), `QueueAccounted`
(`QueueAccounting`) and `AdmissionEarned` (`AdmissionIsEarned`). A handler of the
rconn may call `disconnect` in the middle, several times, and goes on with what is
left. So there are two levels: `Sound` holds wherever that can happen (the counter is
the number of counted packets of the queue, at most the limit; no vconn in VOID
and BACKOFF; a reliable rconn has a name), and `Consistent` between handlers (in
addition VOID is not reliable, CONNECTING and ACTIVE have their vconn, BACKOFF and
CONNECTING are reliable and a backoff is not zero). `Unmoved` and `Turns` relate the two
ends of a handler: which of them may lose a vconn in a connected state, make a
connection or count as admitted. Reliability is in it because `disconnect` asks for
it: an unreliable rconn forgets its name and ends in VOID, a reliable one keeps it and
backs off. The lemmas `CountedAppend` and `CountedSplit` say how pushing and sending
a part of the queue change the count.

**`KernelDatapathProofs`.** `FramesLive` (`FrameUsesLivePort`), `TimeoutsLive`
(`TimeoutUsesLiveChain`) and `PointersLive` (`PointersAreLive`), for any number of
processors, devices, ports and datapath indices (finitely many indices, for the
count of references). `IInv` says what each party may rely on while a command is
between two of its steps: `Links` (port_list, ports[], local_port and br_port
agree, and a port is allocated as long as it is listed or about to be freed),
`Frames` (a port that a frame holds is listed, or `synchronize_rcu` still waits for
that processor), `PortsWhole` and `Published` (a port that frames can hold, and a
datapath that commands can find, has its tables), `Threads` (a maintenance thread
that may still run has its tables), `InProgress` (one clause per command and stage,
with those of the failure paths) and `Referred` (the count of references is that
of the datapaths in dps, and of the one a command holds outside of it).
The two that carry the argument are `Frames`, the grace period, and the
stages of `DeletesDp`: tables go after the last port has gone and the thread has
stopped.

**`PortWatcherProofs`.** `CopyAgrees` (`ViewAgrees`) and `FloodsAsTheTree`
(`FloodFollowsStp`). The properties speak of quiet states only; `IInv` says why the
messages under way lead there. `Leads`: the last event of a port leads to what the
port is, and a port without an event is known as it is in every reply under way and
in the copy. `Instances`: events, replies and copy describe the port that is there
now, by its hardware address, unless a DELETE is still to come or was lost; without it a
PORT_MOD for a port that was replaced would count for its successor. `Trees`: what
the copy and the tree know of each other, and that a port which learns, blocks or
forwards has no change that the datapath was not told. `Floods`: the last PORT_MOD under way that
concerns NO_FLOOD, or the port itself when there is none, has what the tree asks
for, unless that PORT_MOD was lost. It needs that a port forwards only after it was seen
learning: one that listens again after its link was down may still have the state
FORWARD in the copy, and the flags of a PORT_MOD under way. The module assumes that the
null pointer is no description of a port and no hardware address.

**`DhcpClientProofs`.** `LeaseKept` (`LeaseNotExceeded`). `Timely`: what is left of
the present state and of those that follow it fits into what is left of the lease,
in BOUND, RENEWING and REBINDING alike, after forced renewals too. `Watched`: the
alarm goes off before the state is over; without it the poll loop could sleep past
the end. `Late` and `Overdue`: a renewal whose time has wrapped around is excepted from
both, and it is shown that only a T2 before T1 leads to it. The module assumes that
seven eighths of a long lease are more than the fuzz, that two leases shorter than a
long one are below the range of an unsigned, and that timeouts are below the cap of
the count of seconds; it assumes nothing of the times that servers send.

**`FlowTableProofs`.** `BestMatchIsFound` (`LookupIsBestMatch`), `NothingIsMissed`
(`DumpMissesNothing`) and `DeletionIsComplete` (`DeleteIsComplete`), for any header
fields, hash functions, sizes and numbers of messages. `InPlace`: a flow in a hash
table is exact, has the highest priority and lies in the bucket of its key; so the one
bucket that the lookup looks at is enough. `Sorted`: the linear table is in the
order of the priorities, so its first match is a best one, and `Ids` and `Serials` tell
one flow from another. `Owed`: every flow that a request is still owed is stored, matches,
and lies behind the position of the request; the new position of a reply is in
front of what the reply left out (`StepStatsDump`), also where the serial numbers of
the linear table count down to 0. `UpdateThins` treats every loop over the tables at once:
a modification, deletion, timeout or packet changes or removes flows at their
places and keeps their order. The module assumes that buckets and timeouts are
natural numbers and that priorities go up to `ExactPriority`.

**`DatapathProofs`.** `NoReplyIsTorn` (`RepliesWhole`), for any ports, remotes,
requests, sizes of the queues, tables and buffers. `Coherent` relates four things of one
remote: what it was answered on this connection (`Whole`), its requests on their way
(`Numbered`), the dump under way (`Underway`) and the last reply (`LastReply`): the last
reply is older than every request not yet read, and the dump goes on from it, or begins
after the last part of another, or is the late one of the connection before. Without a
connection (`Cut`) there are no replies and no requests, and a dump can only be the late
one. Reading no request while a dump is under way (`Busy`) and waiting for room
in `stats_dump` are what keeps it; `Parted` lists what a turn of a dump can come to: its
part is sent, is lost for want of a connection, finds the dump done, or has to wait. The
other operators answer nobody: `Quiet` says that of each in a lemma of its own, from
`send_openflow_buffer` up to `fwd_port_input` and the new second. The loops over outputs are
recursive functions; that they exist, and are quiet to their end, follows by the least
counterexample (`LeastNat`), as an induction over data cannot be cited. The module assumes
that the outputs of a message have a length and that a message that carries a packet
carries one; nothing is assumed of the commands, actions and ports in it.

`BuffersKeepTheirMeaning` (`BufferIsTheReported`) needs no bound on packets or requests.
`BInv` relates every id that was reported, or is on its way in a message (`Meant`), to the
buffers as they are now. `Stamped`: the buffer was given to some number of packets since;
as long as these are fewer than the cookies, its cookie is that many further than the
one in the id, round and round; and as long as there were none, it holds the packet that was
reported, or no packet. So a buffer has the cookie of the id again only if it was given to no
packet, or to as many as there are cookies (`UseIsMeant`). `StampKept` says that a turn keeps
this of a buffer that it empties, leaves or fills. That a turn fills a buffer at most
once, although flows and flooding may send a packet to the controller many times, is
`SendThenSend`: a buffer that was just filled is `Taken` until the next second (`Saves`).
`Turns` and `Uses` put this together for a turn that retrieves a buffer first, and each
handler has a lemma on them, those of refused and of accepted flow_mods (`RefusedTurns`,
`AppliedTurns`) for both commands that carry actions. `IdIsUnique` and `IdParts` are the
arithmetic of the ids.

**`StpProofs`.** `NothingIsForgotten` (`NothingForgotten`), for any bridges, ports, LANs,
ids and costs, and any numbers of changes and losses. `NothingForgotten` is not inductive:
a bridge whose only other information vanishes becomes the root, and not every handler
that chooses the root port again starts the hello timer. `Good` therefore adds `Rooted`: a
bridge that is not the root has a port it can choose as root port, with information from
another bridge. Handlers that take the last such port away compare what the bridge was and
is (`BecomeRootKeeps`); the others leave one, or add one (`RecordKeeps`). The latter needs
that a bridge's own BPDU does not come back to the port it left by (`NotOwn`), which is
why `IInv` also says of the network that a BPDU on its way to a port does not claim to
have been sent by it (`Net`), and that bridges have different ids; an id that a bridge
takes on is one that no other bridge has and no BPDU under way names (`UnusedId`). Each
call of a handler has a lemma that says what it leaves alone: what only sends `Talks`,
what decides the states of the ports `Settles` (a port whose information changes becomes
designated, and one whose message age stops is designated), and `SelectionKeeps` puts the
three selections together. The loops over ports are recursive functions with the body as
an operator. As no lemma may have an operator as argument, each loop has a lemma of its
own, and all of them rest on `LoopRuns`: the loop, as a function of its turns, runs to its
end. The module assumes that ids are natural numbers and that path costs are positive.

Only model-checked: every liveness property (`Reconnects`, `SilentPeerIsGivenUp`,
`DumpEnds`, `Converges`, `Settles`, `MovesOn`, `QueryEnds`, `ChangeLeadsToQuery`), since
fairness is out of the prover's reach; and `NoLoop` of `Stp`, whose argument is about the
paths of a graph and about times over several bridges (no port forwards before older
information has aged out everywhere).

### Fairness

Each `FairSpec` says that the poll loop comes round: the `run` functions are
weakly fair, since `poll_block` returns when something it waits for is there,
and time passes. Strong fairness is used twice: in `dhcp` for the second that
passes, because messages may keep the loop busy at any moment but not for ever,
and in `rconn` for a handshake, which may fail often but not always while the
network works. In `datapath`, `ports` and `lswitch` the peers read what they are
sent. Deadlock is checked in `stp`, `ports` and `dhcp`; the other runs may
really stop, when a connection is closed, the program has crashed or the
environment has used up its bounds.

## 6. Not modelled

* Simulation: the sine curves and the noise of the generator (any traffic is
  allowed), which parameters a row of the report repeats, logging and file
  layout; the write one past the end of `indexes` in `RandomStrategy` (the
  vector is never used), and the rounding of floating-point costs;
  `StopApplication` of the sender (never called), and closing of connections;
  the rest of ns-3, OR-Tools' inside, netanim, bake.
* OpenFlow, state machines of their own behind narrow interfaces: the framing
  and version handshake of `vconn`, SSL, the rate limiter, remote command
  execution, fail-open mode, virtual ports with their red-black tree, management
  connections of the relay. The modelled parts see them as channels that delay,
  lose or refuse, or as one more message.
* OpenFlow, text and encoding: `ofp-print`, `dpctl`, `vlog`, command lines,
  netlink attributes and DHCP options, wrappers of system calls, containers
  whose contracts the models use directly. `udatapath/` is an older copy of
  `switch/`, and `datapath/forward.c` with the software tables of the kernel
  repeats it once more under RCU. The Wireshark dissector, copies of Wireshark's
  headers and two unpacked copies of waf make up about half of the lines of the
  directory; none of it has state worth a model.

About 7 % of all lines that count as implementation in the repository are
mapped: most of the simulation's own code, and of the OpenFlow modules above
most of what changes state. The rest is text, encoding, copies and third-party
code.

## 7. Plan

1. Done: the modules, runs and theorems above.
2. Proofs: `NoLoop` of `Stp`, from an invariant on how old the information of each
   port is.
3. `SenderTimed`: the sender's loops with their periods as an event calendar,
   shown to implement `SenderApplication`.
4. Fail-open mode as a composition with `Rconn`, and the version handshake.
