------------------------------ MODULE MCComArray ------------------------------
(* ComArray for TLC: the commands are interchangeable. *)
EXTENDS ComArray, TLC

Symmetry == Permutations(Cmds)
=============================================================================
