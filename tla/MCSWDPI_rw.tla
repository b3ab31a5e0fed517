------------------------------ MODULE MCSWDPI_rw ------------------------------
(* SWDPI_rw for TLC: the commands are interchangeable. *)
EXTENDS SWDPI_rw, TLC

Symmetry == Permutations(Cmds)
=============================================================================
