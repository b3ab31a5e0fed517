------------------------------- MODULE MCDevices -------------------------------
(***************************************************************************)
(* Devices for TLC: three entries of the device table, the second without   *)
(* addresses, and the part numbers with sequences.  The second target's     *)
(* vector table at address 0 looks like the part number of the second       *)
(* entry, the first target is in no table.                                   *)
(***************************************************************************)
EXTENDS Devices

Info(p, b, r) == [partno |-> p, baseDBG |-> b, regs |-> r]
MCInfo == <<Info(1047, 1, TRUE), Info(1088, 0, FALSE), Info(1094, 2, TRUE)>>
MCSequences == <<1047, 1094>>

Target(p, ids) == [partno |-> p, id |-> [b \in 0..2 |-> ids[b + 1]]]
MCTargets == {Target(1, <<1024, 0, 0>>), Target(1094, <<1088, 0, 1094>>)}

(* The hypothesis under which the proofs find the part identified.                *)
ASSUME RecognisableTargets == Recognisable
=============================================================================
