---------------------------------- MODULE Gpio ----------------------------------
(***************************************************************************)
(* The GPIO back-ends (SWDPI_raspi4.c, SWDPI_raspi5.c) under the four cycle  *)
(* functions of SWDPI_SWD.c, one step per access to a hardware register.     *)
(*                                                                         *)
(* A register is the set of its bits that are 1, and registers have the     *)
(* word offsets of the code.  The Pi 4 keeps the fields of several pins in   *)
(* one register and changes them by load and store; the Pi 5 has registers  *)
(* of its own for every pin, with aliases that set or clear bits.  Other     *)
(* kernel drivers set up their own pins at any time.                        *)
(***************************************************************************)
EXTENDS Naturals, Sequences

CONSTANTS
  Pins,               \* the pins of the model
  clockPin, dataPin,  \* 5 and 6 in the code
  PowerUp             \* what the registers of a board may hold before the first open()

VARIABLES
  board,    \* "raspi4" or "raspi5": SWDGPIOBBD_initRaspi() has filled SWDPI_gpio_interface
  mem,      \* the registers
  old,      \* the word a load has fetched for the next store
  todo,     \* the accesses the current function still has to do
  input,    \* the last turnaround was one to reading
  cycle, edges, drive, sample,   \* see SwdLine
  other,    \* another driver between its own load and store, or NoOther
  wanted,   \* history: how the drivers of the other pins have set them up
  raced     \* history: a register changed between a load and its store

host == <<old, todo, input, cycle, edges, drive, sample>>
vars == <<board, mem, host, other, wanted, raced>>

-----------------------------------------------------------------------------
(* Registers *)

PADS == 32768              \* OFFSET_PADS_RP1
Shift(bits, n) == {b + n : b \in bits}

GPFSELx_NoOffset(p) == Shift({0, 1, 2}, 3 * p)

GPFSEL(p) == p \div 10
GPFSELx(p) == Shift({0, 1, 2}, 3 * (p % 10))
GPSET(p) == 7 + p \div 32  \* the output latch, which GPCLR clears
Pull4(p) == 57 + p \div 16
Ctrl(p) == 2 * p + 1
Pad(p) == PADS + p + 1

FUNCSEL == 0..4
OUTOVER == {12, 13}
OEOVER == {14, 15}
INOVER == {16, 17}

(* The register that holds the pin's function, and the bits of it that do.      *)
FunctionReg(b, p) == IF b = "raspi4" THEN GPFSEL(p) ELSE Ctrl(p)
FunctionBits(b, p) == IF b = "raspi4" THEN GPFSELx(p) ELSE FUNCSEL

(* Everything that belongs to a pin: pairs of a register and a bit of it.       *)
PinBits(b, p) ==
  IF b = "raspi4"
    THEN ({GPFSEL(p)} \X GPFSELx(p)) \cup {<<GPSET(p), p % 32>>}
         \cup ({Pull4(p)} \X Shift({0, 1}, 2 * (p % 16)))
    ELSE {Ctrl(p), Pad(p)} \X (0..31)

Registers(b) == {x[1] : x \in UNION {PinBits(b, p) : p \in Pins}}
Setting(p, m) == {x \in PinBits(board, p) : x[2] \in m[x[1]]}

Others == Pins \ {clockPin, dataPin}
NoOther == [pin |-> clockPin, val |-> {}]

ASSUME PinsAssumption ==
  Pins \subseteq 0..53 /\ {clockPin, dataPin} \subseteq Pins /\ clockPin # dataPin
ASSUME PowerUpAssumption ==
  \A b \in {"raspi4", "raspi5"} : PowerUp[b] \subseteq [Registers(b) -> SUBSET (0..31)]

-----------------------------------------------------------------------------
(* The functions of the two back-ends, as lists of accesses *)

Access(a, r, mask, bits) == [do |-> a, reg |-> r, mask |-> mask, bits |-> bits]
Set(r, bits) == <<Access("set", r, bits, bits)>>
Clr(r, bits) == <<Access("clr", r, bits, bits)>>
Level(p) == <<Access("level", IF board = "raspi4" THEN GPSET(p) ELSE Ctrl(p), {}, {})>>

Update_NoMask(r, mask, bits) == <<Access("load", r, mask, {}), Access("store", r, 0..31, bits)>>

(* newRegValue = (gpio4Mem[r] & ~registerMask) | (function & registerMask)      *)
Update(r, mask, bits) == <<Access("load", r, mask, {}), Access("store", r, mask, bits)>>

configPinPullRaspi4(p) ==   \* with GPIO_PULL_DOWN, the only setting ever asked for
  Update(Pull4(p), Shift({0, 1}, 2 * (p % 16)), Shift({1}, 2 * (p % 16)))
setPinOutputRaspi4(p) == Update(GPFSEL(p), GPFSELx(p), Shift({0}, 3 * (p % 10)))
setPinInputRaspi4(p) == Update(GPFSEL(p), GPFSELx(p), {})
setPinRaspi4(p) == Set(GPSET(p), {p % 32})
unsetPinRaspi4(p) == Clr(GPSET(p), {p % 32})

configPinPullRaspi5(p) == Clr(Pad(p), {2, 3}) \o Set(Pad(p), {2})

Function5 == FUNCSEL \cup OUTOVER \cup OEOVER \cup INOVER   \* 0x3F01F

setPinOutputRaspi5(p) ==
  Clr(Ctrl(p), Function5) \o Clr(Pad(p), {6, 7}) \o Set(Ctrl(p), OEOVER \cup FUNCSEL)

setPinInputRaspi5_PadKept(p) == Clr(Ctrl(p), Function5) \o Set(Ctrl(p), FUNCSEL)

(* Output off and input on, in the pad; the function is NULL.                   *)
setPinInputRaspi5(p) ==
  Clr(Ctrl(p), Function5) \o Set(Pad(p), {6, 7}) \o Set(Ctrl(p), FUNCSEL)

setPinRaspi5(p) == Set(Ctrl(p), OUTOVER)
unsetPinRaspi5(p) == Clr(Ctrl(p), OUTOVER) \o Set(Ctrl(p), {13})

(* SWDPI_gpio_interface *)
configPinPull(p) == IF board = "raspi4" THEN configPinPullRaspi4(p) ELSE configPinPullRaspi5(p)
setPinOutput(p) == IF board = "raspi4" THEN setPinOutputRaspi4(p) ELSE setPinOutputRaspi5(p)
setPinInput(p) == IF board = "raspi4" THEN setPinInputRaspi4(p) ELSE setPinInputRaspi5(p)
setPin(p) == IF board = "raspi4" THEN setPinRaspi4(p) ELSE setPinRaspi5(p)
unsetPin(p) == IF board = "raspi4" THEN unsetPinRaspi4(p) ELSE unsetPinRaspi5(p)

init ==
  configPinPull(clockPin) \o configPinPull(dataPin)
  \o setPinOutput(clockPin) \o setPinOutput(dataPin)
  \o unsetPin(clockPin) \o unsetPin(dataPin)

cleanup == unsetPin(clockPin) \o unsetPin(dataPin)

-----------------------------------------------------------------------------
(* The cycle functions *)

cycleRead == setPin(clockPin) \o unsetPin(clockPin) \o Level(dataPin)

cycleWrite_DataFirst(bit) ==
  (IF bit = 0 THEN unsetPin(dataPin) ELSE setPin(dataPin))
  \o setPin(clockPin) \o unsetPin(clockPin)

cycleWrite(bit) ==
  setPin(clockPin) \o (IF bit = 0 THEN unsetPin(dataPin) ELSE setPin(dataPin))
  \o unsetPin(clockPin)

cycleTurnaround2Read ==
  setPin(clockPin) \o unsetPin(dataPin) \o setPinInput(dataPin) \o unsetPin(clockPin)

cycleTurnaround2Write ==
  setPin(clockPin) \o unsetPin(dataPin) \o setPinOutput(dataPin) \o unsetPin(clockPin)

Cycles == {"read", "write0", "write1", "turn2read", "turn2write"}
Program(c) ==
  CASE c = "init" -> init [] c = "cleanup" -> cleanup
    [] c = "read" -> cycleRead
    [] c = "write0" -> cycleWrite(0) [] c = "write1" -> cycleWrite(1)
    [] c = "turn2read" -> cycleTurnaround2Read [] c = "turn2write" -> cycleTurnaround2Write

-----------------------------------------------------------------------------
(* The pins of either board: what a pin drives, given all registers. *)

Output4(p, m) ==
  LET f == GPFSELx(p) \cap m[GPFSEL(p)] IN
  IF f = {} THEN "free"
  ELSE IF f # Shift({0}, 3 * (p % 10)) THEN "undefined"    \* a peripheral
  ELSE IF p % 32 \in m[GPSET(p)] THEN "high" ELSE "low"

Output5(p, m) ==
  LET null == FUNCSEL \subseteq m[Ctrl(p)] IN
  IF 7 \in m[Pad(p)] THEN "free"
  ELSE IF ~OEOVER \subseteq m[Ctrl(p)] THEN (IF null THEN "free" ELSE "undefined")
  ELSE IF OUTOVER \subseteq m[Ctrl(p)] THEN "high"
  ELSE IF 13 \in m[Ctrl(p)] \/ null THEN "low" ELSE "undefined"

Output(p, m) == IF board = "raspi4" THEN Output4(p, m) ELSE Output5(p, m)

PulledDown(p) ==
  IF board = "raspi4" THEN Shift({0, 1}, 2 * (p % 16)) \cap mem[Pull4(p)] = Shift({1}, 2 * (p % 16))
  ELSE {2, 3} \cap mem[Pad(p)] = {2}

(* The Pi 5 sees a pin only if the pad's input is enabled. *)
InputEnabled(p) == board = "raspi5" => 6 \in mem[Pad(p)]

(* The levels that a read of the data pin may find.                             *)
DataLevels ==
  LET out == Output(dataPin, mem)
      driven == ({out} \cap {"low", "high"}) \cup ({drive} \ {"none"}) IN
  IF out = "undefined" \/ ~InputEnabled(dataPin) \/ (driven = {} /\ ~PulledDown(dataPin)) THEN {"low", "high"}
  ELSE IF driven = {} THEN {"low"} ELSE driven

-----------------------------------------------------------------------------

Init ==
  /\ board \in {"raspi4", "raspi5"}
  /\ mem \in PowerUp[board]
  /\ old = {} /\ todo = <<>> /\ input = FALSE
  /\ cycle = "closed" /\ edges = 0 /\ drive = "none" /\ sample = "low"
  /\ other = NoOther
  /\ wanted = [p \in Others |-> Setting(p, mem)]
  /\ raced = FALSE

Call(c) ==
  /\ todo = <<>>
  /\ cycle' = c
  /\ todo' = Program(c)
  /\ input' = (c = "turn2read" \/ (input /\ c \notin {"turn2write", "init"}))
  /\ edges' = 0
  /\ UNCHANGED <<board, mem, old, drive, sample, other, wanted, raced>>

OpenDevice == cycle = "closed" /\ Call("init")
Release == cycle = "none" /\ ~input /\ Call("cleanup")

(* The order in which SWDPI_SWD.c calls them: bits are read after a turnaround   *)
(* to reading and written after one to writing.                                  *)
ClockCycle(c) ==
  /\ cycle = "none"
  /\ input <=> c = "read" \/ (input /\ c = "turn2write")
  /\ Call(c)

Return ==
  /\ todo = <<>> /\ cycle \notin {"closed", "none"}
  /\ cycle' = IF cycle = "cleanup" THEN "closed" ELSE "none"
  /\ UNCHANGED <<board, input, mem, old, todo, edges, drive, sample, other, wanted, raced>>

ThisAccess == Head(todo)
At(a) == todo # <<>> /\ ThisAccess.do = a /\ todo' = Tail(todo)

(* The registers become m.  At a rising edge of the clock the target begins to   *)
(* drive a bit if this is a read cycle, and stops driving if not.                *)
Write(m) ==
  /\ mem' = m
  /\ IF cycle \in Cycles /\ Output(clockPin, m) # Output(clockPin, mem)
       THEN /\ edges' = edges + 1
            /\ IF Output(clockPin, m) # "high" THEN UNCHANGED drive
               ELSE drive' \in IF cycle = "read" THEN {"low", "high", "none"} ELSE {"none"}
       ELSE UNCHANGED <<edges, drive>>

Load ==
  /\ At("load")
  /\ old' = mem[ThisAccess.reg]
  /\ UNCHANGED <<board, input, mem, cycle, edges, drive, sample, other, wanted, raced>>

Store ==
  /\ At("store")
  /\ Write([mem EXCEPT ![ThisAccess.reg] =
              (old \ ThisAccess.mask) \cup (ThisAccess.bits \cap ThisAccess.mask)])
  /\ raced' = (raced \/ mem[ThisAccess.reg] # old)
  /\ UNCHANGED <<board, input, old, cycle, sample, other, wanted>>

SetBits ==
  /\ At("set")
  /\ Write([mem EXCEPT ![ThisAccess.reg] = @ \cup ThisAccess.bits])
  /\ UNCHANGED <<board, input, old, cycle, sample, other, wanted, raced>>

ClearBits ==
  /\ At("clr")
  /\ Write([mem EXCEPT ![ThisAccess.reg] = @ \ ThisAccess.bits])
  /\ UNCHANGED <<board, input, old, cycle, sample, other, wanted, raced>>

(* The last access of a read cycle, which returns what it finds.                 *)
ReadLevel ==
  /\ At("level")
  /\ sample' \in DataLevels
  /\ cycle' = "none"
  /\ UNCHANGED <<board, input, mem, old, edges, drive, other, wanted, raced>>

(* Another driver gives its pin one of two functions, by load and store; it does *)
(* not know of this driver, and this driver takes no lock of the other's.        *)
OtherLoads(p) ==
  /\ other = NoOther
  /\ other' = [pin |-> p, val |-> mem[FunctionReg(board, p)]]
  /\ UNCHANGED <<board, mem, host, wanted, raced>>

OtherStores ==
  /\ other # NoOther
  /\ LET r == FunctionReg(board, other.pin)
         f == FunctionBits(board, other.pin) IN
     /\ \E new \in {other.val \ f, other.val \cup f} : mem' = [mem EXCEPT ![r] = new]
     /\ wanted' = [wanted EXCEPT ![other.pin] = Setting(other.pin, mem')]
     /\ raced' = (raced \/ mem[r] # other.val)
  /\ other' = NoOther
  /\ UNCHANGED <<board, host>>

-----------------------------------------------------------------------------

Next ==
  \/ OpenDevice \/ Release \/ (\E c \in Cycles : ClockCycle(c))
  \/ Return \/ Load \/ Store \/ SetBits \/ ClearBits \/ ReadLevel
  \/ (\E p \in Others : OtherLoads(p)) \/ OtherStores

Spec == Init /\ [][Next]_vars

-----------------------------------------------------------------------------
(* Properties *)

TypeOK ==
  /\ board \in {"raspi4", "raspi5"}
  /\ mem \in [Registers(board) -> SUBSET (0..31)]
  /\ old \subseteq 0..31
  /\ cycle \in Cycles \cup {"closed", "init", "none", "cleanup"}
  /\ edges \in Nat /\ drive \in {"low", "high", "none"} /\ sample \in {"low", "high"}
  /\ other.pin \in Pins /\ other.val \subseteq 0..31
  /\ wanted \in [Others -> SUBSET (Registers(board) \X (0..31))]
  /\ {input, raced} \subseteq BOOLEAN

(* A load and a store of this driver and of another interleave on one register:  *)
(* one of the two changes is lost.  No two pins share a register on a Pi 5.      *)
LostUpdate == raced /\ board = "raspi4"

(* Pins that belong to other drivers stay as those set them up: the back-ends    *)
(* (SWDPI_raspi4.c, SWDPI_raspi5.c) change the fields of their own two pins and   *)
(* nothing else, and a lost update is the only way in which anything goes wrong. *)
OthersKept == ~LostUpdate => \A p \in Others : Setting(p, mem) = wanted[p]

(* Both boards, cycle by cycle, keep what SwdLine promises of the functions of   *)
(* SWDPI_SWD.c:293-350, which is why SWDPI_SWD may take one cycle for one bit.   *)
Line == INSTANCE SwdLine WITH
  clock <- Output(clockPin, mem), data <- Output(dataPin, mem), spoilt <- LostUpdate

ImplementsSwdLine == Line!Spec

=============================================================================
