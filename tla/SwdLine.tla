--------------------------------- MODULE SwdLine ---------------------------------
(***************************************************************************)
(* What the four cycle functions of SWDPI_SWD.c promise, whatever the board: *)
(* a cycle is exactly one pulse of the clock, the data line changes only     *)
(* while the clock is high and carries what the cycle means when the clock   *)
(* falls, and a read cycle returns what the target drives, 0 if nobody does. *)
(***************************************************************************)
EXTENDS Naturals

VARIABLES
  cycle,   \* "closed", "init", "none" (between two cycles), "cleanup", a member of Cycles
  edges,   \* edges of the clock in this cycle
  clock,   \* what the host drives: "low", "high", "free" (nothing) or "undefined"
  data,    \* the same for the data pin
  drive,   \* what the target drives: "low", "high" or "none"
  sample,  \* what the last read cycle returned
  spoilt   \* another driver got in the way; nothing is promised any more

vars == <<cycle, edges, clock, data, drive, sample, spoilt>>

Cycles == {"read", "write0", "write1", "turn2read", "turn2write"}

Meant(c) == CASE c \in {"read", "turn2read"}    -> "free"
              [] c \in {"write0", "turn2write"} -> "low"
              [] c = "write1"                   -> "high"

(* The cycles that may follow when the host drives d.                          *)
Follows(c, d) == IF c = "read" THEN d = "free" ELSE c = "turn2write" \/ d # "free"

Init ==
  /\ cycle = "closed"
  /\ edges = 0
  /\ clock \in {"low", "high", "free", "undefined"}
  /\ data \in {"low", "high", "free", "undefined"}
  /\ drive = "none" /\ sample = "low"
  /\ spoilt = FALSE

(* open() starts to set the pins up, and has done so.                          *)
SetUp ==
  /\ cycle \in {"closed", "init"}
  /\ cycle' = "init"
  /\ edges' = 0
  /\ UNCHANGED <<drive, sample, spoilt>>

Ready ==
  /\ cycle = "init" /\ clock = "low" /\ data = "low"
  /\ cycle' = "none"
  /\ UNCHANGED <<edges, clock, data, drive, sample, spoilt>>

Begin(c) ==
  /\ cycle = "none" /\ Follows(c, data)
  /\ cycle' = c
  /\ edges' = 0
  /\ UNCHANGED <<clock, data, drive, sample, spoilt>>

(* The target takes its bit at the rising edge, and drives its own from then on. *)
Rise ==
  /\ cycle \in Cycles /\ edges = 0
  /\ clock = "low" /\ clock' = "high"
  /\ edges' = 1
  /\ drive' \in IF cycle = "read" THEN {"low", "high", "none"} ELSE {"none"}
  /\ UNCHANGED <<cycle, data, sample, spoilt>>

Shift ==
  /\ cycle \in Cycles \ {"read"} /\ clock = "high"
  /\ UNCHANGED <<cycle, edges, clock, drive, sample, spoilt>>

Fall ==
  /\ cycle \in Cycles /\ edges = 1
  /\ clock = "high" /\ clock' = "low"
  /\ data = Meant(cycle)
  /\ edges' = 2
  /\ UNCHANGED <<cycle, data, drive, sample, spoilt>>

End ==
  /\ cycle \in Cycles /\ edges = 2
  /\ cycle' = "none"
  /\ sample' = IF cycle = "read" THEN (IF drive = "none" THEN "low" ELSE drive) ELSE sample
  /\ UNCHANGED <<edges, clock, data, drive, spoilt>>

(* release() lets both lines idle low.                                          *)
Cleanup ==
  /\ cycle = "none"
  /\ cycle' = "cleanup"
  /\ edges' = 0
  /\ UNCHANGED <<clock, data, drive, sample, spoilt>>

Closed ==
  /\ cycle = "cleanup"
  /\ clock = "low" /\ data = "low"
  /\ cycle' = "closed"
  /\ UNCHANGED <<edges, clock, data, drive, sample, spoilt>>

(* Both lines only ever fall in cleanup. *)
Idle ==
  /\ cycle = "cleanup"
  /\ clock' = "low" /\ data' \in {data, "low"}
  /\ UNCHANGED <<cycle, edges, drive, sample, spoilt>>

Spoil == spoilt' = TRUE

Next ==
  \/ SetUp \/ Ready \/ (\E c \in Cycles : Begin(c)) \/ Rise \/ Shift \/ Fall \/ End
  \/ Cleanup \/ Idle \/ Closed \/ Spoil

Spec == Init /\ [][Next]_vars

=============================================================================
