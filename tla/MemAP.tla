--------------------------------- MODULE MemAP ---------------------------------
(***************************************************************************)
(* The target at the other end of the wire, as far as cheese_comSWD.c and   *)
(* cheese_memoryaccess.c rely on it: a debug port with sticky error flags   *)
(* and one memory access port with an auto-incrementing transfer address    *)
(* register (TAR), pipelined reads and posted writes.  It is no part of the *)
(* repository; cheese_registers.h describes its registers.                  *)
(*                                                                         *)
(* A target is a record of its registers and its memory, a command one of   *)
(* the commands of cheese_registers.h with its data word.                   *)
(***************************************************************************)
EXTENDS Integers

CONSTANTS
  Addrs,   \* the word addresses of the model's memory, 0..n
  Mapped,  \* those the bus answers for
  Block,   \* words in one auto-increment block (1KB, 256 words, on a Cortex-M0)
  Word     \* the values of a memory word; 0 is one of them

ASSUME MemoryAssumption == Mapped \subseteq Addrs /\ Addrs \subseteq Nat
ASSUME BlockAssumption == Block \in Nat \ {0}
ASSUME WordAssumption == 0 \in Word

DPRegs == {"IDCODE", "CTRLSTAT_R", "ABORT", "CTRLSTAT_W", "SELECT", "READBUF"}
APRegs == {"CSW", "TAR", "DRW_R", "DRW_W"}

Cmd(r, v) == [reg |-> r, val |-> v]

Targets == [attached : BOOLEAN, \* somebody is at the other end
            reset : BOOLEAN,    \* a line reset was seen, IDCODE has to be read next
            sticky : BOOLEAN,   \* STICKYERR of CTRL/STAT
            powered : BOOLEAN,  \* the power-up requests of CTRL/STAT
            bank : {0, 15},     \* APBANKSEL
            inc : BOOLEAN,      \* auto-increment of CSW
            tar : Nat,
            rdbuf : Word,       \* the result of the last AP read
            mem : [Addrs -> Word]]

(* The address that follows a: the increment stays inside the block of a. *)
Increment(a) == ((a \div Block) * Block) + ((a + 1) % Block)

(* What the target acknowledges: 1 OK, 4 FAULT, 0 nothing. *)
Ack(t, c) ==
  IF ~t.attached \/ (t.reset /\ c.reg # "IDCODE") THEN 0
  ELSE IF \/ t.sticky /\ c.reg \notin {"IDCODE", "CTRLSTAT_R", "ABORT"}
          \/ c.reg \in APRegs /\ ~t.powered THEN 4
  ELSE 1

(* An access through DRW: performed if the bus answers, else a sticky error.  *)
Access(t, c) ==
  LET moved == [t EXCEPT !.tar = IF t.inc THEN Increment(t.tar) ELSE t.tar] IN
  IF t.tar \notin Mapped THEN [moved EXCEPT !.sticky = TRUE]
  ELSE IF c.reg = "DRW_R" THEN [moved EXCEPT !.rdbuf = t.mem[t.tar]]
  ELSE [moved EXCEPT !.mem[t.tar] = c.val]

(* The target after a command it acknowledged with OK. *)
Perform(t, c) ==
  CASE c.reg = "IDCODE"               -> [t EXCEPT !.reset = FALSE]
    [] c.reg = "ABORT"                -> [t EXCEPT !.sticky = FALSE]
    [] c.reg = "CTRLSTAT_W"           -> [t EXCEPT !.powered = TRUE]
    [] c.reg = "SELECT"               -> [t EXCEPT !.bank = c.val]
    [] c.reg = "CSW" /\ t.bank = 0    -> [t EXCEPT !.inc = c.val]
    [] c.reg = "TAR" /\ t.bank = 0    -> [t EXCEPT !.tar = c.val]
    [] c.reg \in {"DRW_R", "DRW_W"} /\ t.bank = 0 -> Access(t, c)
    [] OTHER                          -> t

(* The data word of the reply: an AP read delivers the result of the one before. *)
Reply(t, c) == IF c.reg \in {"DRW_R", "READBUF"} THEN t.rdbuf ELSE 0

=============================================================================
