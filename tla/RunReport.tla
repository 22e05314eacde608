----------------------------- MODULE RunReport -----------------------------
(***************************************************************************)
(* The experiment around the simulations: main runs every strategy over a  *)
(* sample of the parameter combinations, RunSimulation condenses what the  *)
(* sink recorded into a RunInfo, and printResultsToFile writes one row per *)
(* RunInfo when the strategy is done.                                      *)
(*                                                                         *)
(* What a simulation delivers is any number of packets of every            *)
(* application over every interface (SDWan is the model of a simulation).  *)
(* A quotient is kept exactly, as the record of its two terms.  Which      *)
(* combinations are drawn is left open, and so are the parameters that a   *)
(* row repeats.                                                            *)
(***************************************************************************)
EXTENDS Integers, Sequences, SequencesExt, Totals

CONSTANTS Interface,      \* the ISP interfaces
          PacketCost,     \* the cost of one packet over each of them
          PacketRate,     \* their rates, in packets per second
          Strategies,     \* how many strategies main tries
          Outcomes,       \* what a simulation may generate and deliver
          MaxRuns         \* bound: simulations per strategy

\* main creates three applications, and the report has columns for three.
ApplicationIds == 1..3

\* An outcome: generated[a] packets of application a, of which received[a][i] reached
\* the sink over interface i.
ASSUME ReportAssumption ==
    /\ IsFiniteSet(Interface) /\ PacketCost \in [Interface -> Nat \ {0}]
    /\ PacketRate \in [Interface -> Nat]
    /\ Strategies \in Nat \ {0} /\ MaxRuns \in Nat
    /\ Outcomes \subseteq [received : [ApplicationIds -> [Interface -> Nat]],
                            generated : [ApplicationIds -> Nat]]
    /\ \A sim \in Outcomes : \A a \in ApplicationIds :
          Total(sim.received[a]) <= sim.generated[a]

VARIABLES strategy,   \* the strategy main is at, counted from 1
          results,    \* the RunInfos of this strategy
          files,      \* the rows of the file of each strategy
          program,    \* "running", "exited", or why it ended early: "died" in a
                      \* simulation, "unopened" or "terminated" in the report
          simulated   \* history: what each run of each strategy really delivered

reportVars == <<strategy, results, files, program, simulated>>

Quotient(n, d) == [num |-> n, den |-> d]

-----------------------------------------------------------------------------
(* RunSimulation, once the simulation is over *)

Received(sim, a) == Total(sim.received[a])

\* The order in which a std::map is gone through.
Ascending(keys) ==
    CHOOSE s \in [1..Cardinality(keys) -> keys] :
        \A k, l \in 1..Cardinality(keys) : k < l => s[k] < s[l]

Delivering(sim) == {a \in ApplicationIds : Received(sim, a) > 0}

\* Faulty variant: the groups in descending order.
FlowGroupsDescending(sim) == Reverse(Ascending(Delivering(sim)))

\* The keys of the map from application to packets: only an application that
\* some received packet comes from has an entry.
FlowGroups(sim) == Ascending(Delivering(sim))

AverageBandwidth(sim, a) ==
    Quotient(Total([i \in Interface |-> sim.received[a][i] * PacketRate[i]]),
             Received(sim, a))

ErrorRate(sim, a) ==
    Quotient(100 * (sim.generated[a] - Received(sim, a)), sim.generated[a])

PacketsCost(sim) ==
    Total([a \in ApplicationIds |->
             Total([i \in Interface |-> sim.received[a][i] * PacketCost[i]])])

RunInfo(sim) ==
    LET flows == FlowGroups(sim)
    IN [totalAmountOfPackets  |-> Total([a \in ApplicationIds |-> Received(sim, a)]),
        totalCost             |-> PacketsCost(sim),
        applicationErrorRates |-> [k \in DOMAIN flows |-> ErrorRate(sim, flows[k])],
        applicationBandWidth  |-> [k \in DOMAIN flows |-> AverageBandwidth(sim, flows[k])]]

getAveragePacketCost(info) ==
    IF info.totalAmountOfPackets = 0
    THEN Quotient(0, 1)
    ELSE Quotient(info.totalAmountOfPackets, info.totalCost)

-----------------------------------------------------------------------------
(* printResultsToFile *)

Complete(info) == Len(info.applicationBandWidth) >= 3

Row(info) == [bandWidth  |-> SubSeq(info.applicationBandWidth, 1, 3),
              errorRates |-> SubSeq(info.applicationErrorRates, 1, 3),
              averagePacketCost |-> getAveragePacketCost(info),
              totalPackets |-> info.totalAmountOfPackets,
              totalCost    |-> info.totalCost]

\* Faulty variant: rows that lack a column are skipped silently.
PrintedSkipping(infos) == SelectSeq(infos, Complete)

\* The rows that reach the file: at() throws in the first row that lacks a column,
\* and nothing catches the exception.
Printed(infos) ==
    LET short == {k \in DOMAIN infos : ~Complete(infos[k])}
    IN SubSeq(infos, 1, IF short = {} THEN Len(infos) ELSE Min(short) - 1)

-----------------------------------------------------------------------------
(* main *)

ReportInit ==
    /\ strategy = 1
    /\ results = <<>>
    /\ files = [s \in 1..Strategies |-> <<>>]
    /\ program = "running"
    /\ simulated = [s \in 1..Strategies |-> <<>>]

RunSimulation ==
    /\ program = "running"
    /\ Len(results) < MaxRuns
    /\ \E sim \in Outcomes :
          /\ results' = Append(results, RunInfo(sim))
          /\ simulated' = [simulated EXCEPT ![strategy] = Append(@, sim)]
    /\ UNCHANGED <<strategy, files, program>>

\* A simulation that does not return ends the program: nothing catches the exception
\* of a plan that is not feasible, and NS_FATAL_ERROR aborts.
SimulationDies ==
    /\ program = "running"
    /\ Len(results) < MaxRuns
    /\ program' = "died"
    /\ UNCHANGED <<strategy, results, files, simulated>>

PrintResults ==
    /\ program = "running"
    /\ LET printed == Printed(results)
       IN /\ files' = [files EXCEPT ![strategy] = [k \in DOMAIN printed |-> Row(printed[k])]]
          /\ program' = IF \E k \in DOMAIN results : ~Complete(results[k])
                        THEN "terminated"
                        ELSE IF strategy = Strategies THEN "exited" ELSE "running"
    /\ strategy' = IF program' = "running" THEN strategy + 1 ELSE strategy
    /\ results' = <<>>
    /\ UNCHANGED simulated

\* printResultsToFile throws, and nothing catches, when the file cannot be opened.
FileCannotBeOpened ==
    /\ program = "running"
    /\ program' = "unopened"
    /\ UNCHANGED <<strategy, results, files, simulated>>

ReportNext == RunSimulation \/ SimulationDies \/ PrintResults \/ FileCannotBeOpened

ReportSpec == ReportInit /\ [][ReportNext]_reportVars

-----------------------------------------------------------------------------
(* Properties *)

\* The row of a run is at the run's own position, and its three columns are those of
\* the applications that the header of the file names, in the header's order:
\* although RunSimulation drops applications nothing was received from, no row
\* that is printed has its columns shifted by that.
ColumnsBelongToApplications ==
    \A s \in 1..Strategies : \A k \in DOMAIN files[s] : \A a \in ApplicationIds :
        /\ files[s][k].errorRates[a] = ErrorRate(simulated[s][k], a)
        /\ files[s][k].bandWidth[a] = AverageBandwidth(simulated[s][k], a)

\* A run that was simulated has no row only as long as its strategy is running, or for one
\* of two reasons, and how the program ended tells which: it ended before the report of the
\* strategy began (a simulation died, or the file cannot be opened), and then the whole
\* strategy has no rows; or it ended in the report, and then the rows end right before
\* the first run in which the sink received nothing from some application.  In particular
\* an earlier strategy, and every strategy of a program that exits, has all its rows.
LostRowsHaveACause ==
    LET silent(sim) == \E a \in ApplicationIds : Received(sim, a) = 0
    IN \A s \in 1..Strategies :
          LET n == Len(files[s])
          IN n # Len(simulated[s]) =>
                /\ s = strategy
                /\ \/ program \in {"running", "died", "unopened"} /\ n = 0
                   \/ /\ program = "terminated"
                      /\ n < Len(simulated[s])
                      /\ silent(simulated[s][n + 1])
                      /\ \A k \in 1..n : ~silent(simulated[s][k])
=============================================================================
