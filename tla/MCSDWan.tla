------------------------------- MODULE MCSDWan -------------------------------
(***************************************************************************)
(* Instances of SDWan for TLC: a slow, cheap and lossy interface 1, a fast *)
(* and expensive interface 2 (the first and the last of main.cpp, scaled   *)
(* down), and applications with one or two packets per sample.             *)
(***************************************************************************)
EXTENDS SDWan

MCDataBitRate == [i \in Ifaces |-> i * PacketSizeBit]
MCDelay       == [i \in Ifaces |-> IF i = 1 THEN 150 ELSE 30]
MCCost        == [i \in Ifaces |-> i]

MCRequiredDelay     == [a \in Apps |-> IF a = 1 THEN 700 ELSE 200]
MCRequiredErrorRate == [a \in Apps |-> IF a = 1 THEN 20 ELSE 10]

\* Error models on interface 1, or on none.
MCErrorRate    == [i \in Ifaces |-> IF i = 1 THEN 20 ELSE 0]
NoErrorRates   == [i \in Ifaces |-> 0]

\* At most one packet in a sample, in any sample of application 1 and in the first
\* or the last one that application 2 sends.  The sample after the last second,
\* which a SinApplication never sends, is 1.
LightWorkloads ==
    {w \in [Apps -> [SampleIndexes -> 0..1]] :
        /\ \A a \in Apps : w[a][SimulationDurationInSeconds] = 1
        /\ \E early \in 0..1 : w[2] = [s \in SampleIndexes |->
              IF s = 0 THEN early
              ELSE IF s = SimulationDurationInSeconds - 1 THEN 1 - early
              ELSE IF s = SimulationDurationInSeconds THEN 1 ELSE 0]}

\* Four packets in the first event, more than the interfaces carry in a second: the
\* first reactive plan is infeasible.
Burst == [a \in Apps |-> [s \in SampleIndexes |-> IF a = 1 /\ s <= 1 THEN 2 ELSE 0]]

MCWorkloads == LightWorkloads \union {Burst}

\* Application 1 is busy, the others send one packet in their first sample.
BusyWorkloads ==
    {[a \in Apps |-> [s \in SampleIndexes |->
                        IF a = 1 THEN n ELSE IF s = 0 THEN 1 ELSE 0]] : n \in 1..2}

\* One packet per second and application: together no more than the slower
\* interfaces can carry.
SteadyWorkload == {[a \in Apps |-> [s \in SampleIndexes |-> 1]]}
=============================================================================
