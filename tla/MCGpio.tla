--------------------------------- MODULE MCGpio ---------------------------------
(***************************************************************************)
(* Gpio for TLC: the code's two pins, one that shares all their registers on *)
(* a Pi 4 and one that shares the latch only.                                *)
(***************************************************************************)
EXTENDS Gpio

(* Everything an input without pull, or all pins used by peripherals and pulled  *)
(* up with their outputs high.                                                   *)
MCPowerUp ==
  [b \in {"raspi4", "raspi5"} |->
     {[r \in Registers(b) |-> {}],
      [r \in Registers(b) |->
         IF b = "raspi4"
           THEN IF r < 7 THEN {2, 14, 17, 20} ELSE IF r < 57 THEN {4, 5, 6, 12} ELSE {8, 10, 12}
           ELSE IF r < PADS THEN {0, 2, 12, 14, 15} ELSE {3, 6}]}]
=============================================================================
