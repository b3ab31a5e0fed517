----------------------------- MODULE MCSWDPI_SWD -----------------------------
(***************************************************************************)
(* SWDPI_SWD for TLC, at the size of the code: words of 32 bits, 100 tries, *)
(* commands of cheese_registers.h.                                           *)
(***************************************************************************)
EXTENDS SWDPI_SWD

(* 0x81 (ABORT), 0x8D (CTRLSTAT, read), 0x9F (DRW, read), 0xBB (DRW, write) *)
MCAbort == <<1, 0, 0, 0, 0, 0, 0, 1>>
MCCtrlstat == <<1, 0, 1, 1, 0, 0, 0, 1>>
MCCmds == {<<1, 1, 1, 1, 1, 0, 0, 1>>, <<1, 1, 0, 1, 1, 1, 0, 1>>}

(* The word with the given bits set. *)
Word32(bits) == [k \in 1..32 |-> IF k - 1 \in bits THEN 1 ELSE 0]

(* 0x1F; no ones, all ones, an odd number of them, and 0xA5 and 0x81, which look *)
(* like the headers of a read of IDCODE and of a write to ABORT                  *)
MCAbortWord == Word32(0..4)
MCWords == {Word32({}), Word32(0..31), Word32({3, 12, 31}), Word32({0, 2, 5, 7}),
            Word32({0, 7})}
=============================================================================
