---------------------------- MODULE MCFlowTable ----------------------------
(***************************************************************************)
(* Instances of FlowTable: two header fields of one bit, so that there are *)
(* exact and wildcarded keys, and subtables in which exact flows collide.  *)
(***************************************************************************)
EXTENDS FlowTable

K(a, b, w) == [flow |-> [f \in Field |-> IF f = "a" THEN a ELSE b], wildcards |-> w]

\* Three exact keys, which do not fit into two buckets, and one with a wildcarded field.
Overflowing == {K(0, 0, {}), K(0, 1, {}), K(1, 0, {}), K(0, 0, {"b"})}

\* Both subtables hash every flow to one bucket.
OneBucket == <<[f \in Flows |-> 0], [f \in Flows |-> 0]>>

\* One second without a packet.
IdleTimeout == {<<1, 0>>}
=============================================================================
