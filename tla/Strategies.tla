----------------------------- MODULE Strategies -----------------------------
(***************************************************************************)
(* What Compute() of each strategy decides: a plan x, where x[a][j] is the *)
(* number of packets of application a that go to interface j.  All four    *)
(* strategies visit the applications in the order of the vector, so a plan *)
(* also fixes the order in which an interface's queue receives its packets *)
(* (PacketsFor).                                                           *)
(*                                                                         *)
(* ReactiveStrategy and LinearStrategy hand an integer program to OR-Tools *)
(* (external): the solver is its contract, any optimal solution.  The      *)
(* coefficients are quotients by the number of pending packets p; here     *)
(* each constraint is multiplied by p, so that all arithmetic is exact.    *)
(***************************************************************************)
EXTENDS SDWanApplication, Sequences, FiniteSetsExt

CONSTANTS
    NumApplications,     \* applications->size()
    NumInterfaces,       \* availableInterfaces->size()
    StrategyChoices,     \* the strategies that main tries
    PacketSizeByte,      \* Utils::PacketSizeByte
    DataBitRate,         \* [Ifaces -> bit/s]: DataRate of the channel
    DelayInMilliseconds, \* [Ifaces -> ms]: Delay of the channel
    InterfaceErrorRate,  \* [Ifaces -> %]: ErrorRate of the error model
    Cost,                \* [Ifaces -> cost of a packet]
    RequiredDelay,       \* [Apps -> ms]: requiredDelay
    RequiredErrorRate    \* [Apps -> %]: errorRate of the application

Apps   == 1..NumApplications
Ifaces == 1..NumInterfaces

StrategyTypes == {"LINEAR", "RANDOM", "ROUND_ROBIN", "REACTIVE"}

ASSUME StrategyAssumption ==
    /\ NumApplications \in Nat \ {0}
    /\ NumInterfaces \in Nat \ {0}
    /\ StrategyChoices \subseteq StrategyTypes
    /\ PacketSizeByte \in Nat \ {0}
    /\ DataBitRate \in [Ifaces -> Nat \ {0}]
    /\ DelayInMilliseconds \in [Ifaces -> Nat]
    /\ InterfaceErrorRate \in [Ifaces -> 0..100]
    /\ Cost \in [Ifaces -> Nat]
    /\ RequiredDelay \in [Apps -> Nat]
    /\ RequiredErrorRate \in [Apps -> Nat]

PacketSizeBit == 8 * PacketSizeByte

\* An ISPInterface of the sender; its queue holds the application
\* (originatedFrom) of every packet that waits to be sent.
IfaceState == [pendingpackets  : Seq(Apps),
               correctPackages : Nat,
               corruptPackages : Nat,
               connected       : BOOLEAN]

getHasAnyAvailablePackage(interface) == interface.pendingpackets # << >>

getPackageRate(j) == DataBitRate[j] \div PacketSizeBit

\* Packets waiting divided by the rate of departures since time 0; DelayEstimator
\* truncates the quotient to an integer.
getAverageWaitingTimeInMilliseconds(interface, nowInMilliseconds) ==
    LET totalAmountOfPackets == interface.correctPackages + interface.corruptPackages
    IN IF nowInMilliseconds = 0 \/ totalAmountOfPackets = 0 THEN 0
       ELSE (Len(interface.pendingpackets) * nowInMilliseconds)
                \div totalAmountOfPackets

-----------------------------------------------------------------------------
Pending == [Apps -> Nat]
Plans   == [Apps -> [Ifaces -> Nat]]

\* All ways to spread n packets of one application over the interfaces.
Rows(n) == {row \in [Ifaces -> 0..n] : Total(row) = n}

\* The plans that send every pending packet.
FullPlans(pending) ==
    {x \in [Apps -> UNION {Rows(pending[a]) : a \in Apps}] :
        \A a \in Apps : Total(x[a]) = pending[a]}

CostOf(x) == Total([aj \in Apps \X Ifaces |-> x[aj[1]][aj[2]] * Cost[aj[2]]])

-----------------------------------------------------------------------------
(* RoundRobinStrategy: the n-th packet of a Compute, counted over all      *)
(* applications, goes to interface (n - 1) % NumInterfaces; currentIndex   *)
(* is local to Compute and starts at 0 every time.                         *)

EnqueuedBefore(pending, a) ==
    Total([b \in {c \in Apps : c < a} |-> pending[b]])

\* Faulty variant: the last packet of every application is skipped.
RoundRobinPlanShort(pending) ==
    [a \in Apps |-> [j \in Ifaces |->
        Cardinality({n \in (EnqueuedBefore(pending, a) + 1)
                             ..(EnqueuedBefore(pending, a) + pending[a] - 1) :
                        (n - 1) % NumInterfaces = j - 1})]]

RoundRobinPlan(pending) ==
    [a \in Apps |-> [j \in Ifaces |->
        Cardinality({n \in (EnqueuedBefore(pending, a) + 1)
                             ..(EnqueuedBefore(pending, a) + pending[a]) :
                        (n - 1) % NumInterfaces = j - 1})]]

(* RandomStrategy: every packet goes to a random interface.  The shuffled  *)
(* indexes are computed and not used: the applications come in order.      *)
RandomPlans(pending) == FullPlans(pending)

-----------------------------------------------------------------------------
(* The integer programs. *)

WeightedSum(row, weight) == MapThenSumSet(LAMBDA j : row[j] * weight[j], Ifaces)

CapacityConstraint(x) ==
    \A j \in Ifaces : MapThenSumSet(LAMBDA a : x[a][j], Apps) <= getPackageRate(j)

\* requiredRate is in packets per second, and a packet has PacketSizeBit bits.
BandwidthConstraint(row, n, requiredRate) ==
    WeightedSum(row, DataBitRate) >= requiredRate * PacketSizeBit * n

DelayConstraint(a, row, n, delays) == WeightedSum(row, delays) <= RequiredDelay[a] * n

ErrorRateConstraint(a, row, n) ==
    WeightedSum(row, InterfaceErrorRate) <= RequiredErrorRate[a] * n

\* ComputeOptimization of ReactiveStrategy; with no pending packet the
\* bandwidth constraint of an application is skipped.
ReactivePlans(pending, required, interfaces, nowInMilliseconds) ==
    LET delays == [j \in Ifaces |->
            DelayInMilliseconds[j]
              + getAverageWaitingTimeInMilliseconds(interfaces[j], nowInMilliseconds)]
    IN {x \in FullPlans(pending) :
          /\ CapacityConstraint(x)
          /\ \A a \in Apps :
                /\ pending[a] > 0 => BandwidthConstraint(x[a], pending[a], required[a])
                /\ DelayConstraint(a, x[a], pending[a], delays)
                /\ ErrorRateConstraint(a, x[a], pending[a])}

\* LinearStrategy: no capacity and no waiting time; with no pending packet
\* all bandwidth coefficients are 0 and the bound remains.
LinearPlans(pending, required) ==
    {x \in FullPlans(pending) :
        \A a \in Apps :
            /\ IF pending[a] > 0 THEN BandwidthConstraint(x[a], pending[a], required[a])
               ELSE required[a] = 0
            /\ DelayConstraint(a, x[a], pending[a], DelayInMilliseconds)
            /\ ErrorRateConstraint(a, x[a], pending[a])}

\* What the solver may return: any feasible plan of least cost, or nothing.
Solve(feasible) == {x \in feasible : \A y \in feasible : CostOf(x) <= CostOf(y)}

\* The plans Compute may follow; none when the integer program is infeasible.
ComputePlans(strategy, pending, required, interfaces, nowInMilliseconds) ==
    IF strategy = "ROUND_ROBIN" THEN {RoundRobinPlan(pending)}
    ELSE IF strategy = "RANDOM" THEN RandomPlans(pending)
    ELSE IF strategy = "LINEAR" THEN Solve(LinearPlans(pending, required))
    ELSE Solve(ReactivePlans(pending, required, interfaces, nowInMilliseconds))

\* What is left in the queue of application a: ROUND_ROBIN and RANDOM pop
\* until it is empty, the others pop once per packet of the plan.
Remaining(strategy, pending, x, a) ==
    IF strategy \in {"ROUND_ROBIN", "RANDOM"} THEN 0
    ELSE pending[a] - Total(x[a])

-----------------------------------------------------------------------------
(* The packets interface j receives: those of application 1, then those of *)
(* application 2, and so on.                                               *)

Column(x, j, B) == [b \in B |-> x[b][j]]

UpTo(x, j, a) == Total(Column(x, j, 1..a))

PacketsFor(x, j) ==
    [n \in 1..Total(Column(x, j, Apps)) |->
        CHOOSE a \in Apps : UpTo(x, j, a - 1) < n /\ n <= UpTo(x, j, a)]
=============================================================================
