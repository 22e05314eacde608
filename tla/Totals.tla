------------------------------- MODULE Totals -------------------------------
(***************************************************************************)
(* Sums of naturals over a finite index set.  A function f into the        *)
(* naturals is spread out into one slot per unit, so that its sum is the   *)
(* number of its slots.  The definition needs no recursion, so the facts   *)
(* of FiniteSetTheorems apply to it.                                       *)
(***************************************************************************)
EXTENDS Integers, FiniteSets

Slots(f) == UNION {{d} \X (1..f[d]) : d \in DOMAIN f}

Total(f) == Cardinality(Slots(f))
=============================================================================
