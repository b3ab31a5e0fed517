----------------------------- MODULE MCSWDPI_open -----------------------------
(* SWDPI_open for TLC: the processes and the heap blocks are interchangeable. *)
EXTENDS SWDPI_open, TLC

Symmetry == Permutations(Procs) \cup Permutations(Blocks)
=============================================================================
