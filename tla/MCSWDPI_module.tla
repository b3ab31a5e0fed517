---------------------------- MODULE MCSWDPI_module ----------------------------
(* SWDPI_module for TLC: the processes and the heap blocks are interchangeable. *)
EXTENDS SWDPI_module, TLC

Symmetry == Permutations(Procs) \cup Permutations(Blocks)
=============================================================================
