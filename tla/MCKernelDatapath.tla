-------------------------- MODULE MCKernelDatapath --------------------------
(* Model values and symmetry for KernelDatapath.                           *)
EXTENDS KernelDatapath, TLC

CONSTANTS d1, d2, c1

MCSym == Permutations(Devs)
=============================================================================
