---------------------------- MODULE MCRunReport ----------------------------
(***************************************************************************)
(* The report of two strategies over a cheap and a dear interface.         *)
(***************************************************************************)
EXTENDS RunReport

MCPacketCost == [i \in Interface |-> IF i = 1 THEN 10 ELSE 100]
MCPacketRate == [i \in Interface |-> IF i = 1 THEN 10 ELSE 30]

\* Application 1 sends x packets over interface 1, application 2 y over each and
\* application 3 z over interface 2; one more packet of application 2 is lost.
Outcome(x, y, z) ==
    [received  |-> <<[i \in Interface |-> IF i = 1 THEN x ELSE 0],
                     [i \in Interface |-> y],
                     [i \in Interface |-> IF i = 2 THEN z ELSE 0]>>,
     generated |-> <<x, 2 * y + 1, z>>]

\* Some deliver packets of every application, others leave one, two or all out.
MCOutcomes == {Outcome(x, y, z) : x \in 0..2, y \in 0..1, z \in 0..1}
=============================================================================
