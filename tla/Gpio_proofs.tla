------------------------------ MODULE Gpio_proofs ------------------------------
(***************************************************************************)
(* Proofs about Gpio, for any set of the pins 0..53 and any contents of the  *)
(* registers at the first open(): the back-ends never touch a bit of another *)
(* driver's pin, unless a load and a store of the two interleave (Pi 4), and *)
(* short of that they move the lines as SwdLine promises, on either board.   *)
(***************************************************************************)
EXTENDS Gpio, SequenceTheorems, TLAPS

Word == 0..31

(* What the back-ends may still have to do: accesses to bits that belong to no  *)
(* other driver's pin, and no load and store on a Pi 5.                         *)
OwnBits(r, mask) ==
  /\ r \in Registers(board) /\ mask \subseteq Word
  /\ \A p \in Others : ({r} \X mask) \cap PinBits(board, p) = {}

Accesses ==
  {a \in [do : {"load", "store", "set", "clr", "level"}, reg : Registers(board),
          mask : SUBSET Word, bits : SUBSET Word] :
     /\ OwnBits(a.reg, a.mask)
     /\ a.do \in {"set", "clr"} => a.bits = a.mask
     /\ board = "raspi5" => a.do \notin {"load", "store"}}

IInv ==
  /\ TypeOK
  /\ todo \in Seq(Accesses)
  /\ other = NoOther \/ other.pin \in Others
  /\ OthersKept

BoardOK == board \in {"raspi4", "raspi5"}

-----------------------------------------------------------------------------
(* The pins *)

LEMMA Mask4 ==
  ASSUME NEW p \in 0..53
  PROVE  /\ Shift({0}, 3 * (p % 10)) \subseteq Word
         /\ GPFSELx(p) \subseteq Word /\ p % 32 \in Word
         /\ Shift({0, 1}, 2 * (p % 16)) \subseteq Word
         /\ Shift({1}, 2 * (p % 16)) \subseteq Word
<1>1. p % 10 \in 0..9 /\ p % 32 \in 0..31 /\ p % 16 \in 0..15
  BY SMT
<1>2. QED BY <1>1, SMT DEF Shift, GPFSELx, Word

(* Fields of two pins do not overlap.                                           *)
LEMMA Disjoint ==
  ASSUME NEW b \in {"raspi4", "raspi5"}, NEW p \in 0..53, NEW q \in 0..53, p # q
  PROVE  PinBits(b, p) \cap PinBits(b, q) = {}
<1>1. CASE b = "raspi4"
  <2>1. /\ GPFSEL(p) \in 0..5 /\ GPFSEL(q) \in 0..5
        /\ GPSET(p) \in 7..8 /\ GPSET(q) \in 7..8
        /\ Pull4(p) \in 57..60 /\ Pull4(q) \in 57..60
    BY SMT DEF GPFSEL, GPSET, Pull4
  <2>2. ({GPFSEL(p)} \X GPFSELx(p)) \cap ({GPFSEL(q)} \X GPFSELx(q)) = {}
    BY SMT DEF GPFSEL, GPFSELx, Shift
  <2>3. <<GPSET(p), p % 32>> # <<GPSET(q), q % 32>>
    BY SMT DEF GPSET
  <2>4. ({Pull4(p)} \X Shift({0, 1}, 2 * (p % 16))) \cap ({Pull4(q)} \X Shift({0, 1}, 2 * (q % 16))) = {}
    BY SMT DEF Pull4, Shift
  <2>5. \A u \in {p, q} : PinBits(b, u) =
          ({GPFSEL(u)} \X GPFSELx(u)) \cup {<<GPSET(u), u % 32>>}
          \cup ({Pull4(u)} \X Shift({0, 1}, 2 * (u % 16)))
    BY <1>1 DEF PinBits
  <2>6. QED BY <2>1, <2>2, <2>3, <2>4, <2>5
<1>2. CASE b = "raspi5"
  <2>1. {Ctrl(p), Pad(p)} \cap {Ctrl(q), Pad(q)} = {}
    BY SMT DEF Ctrl, Pad, PADS
  <2>2. /\ PinBits(b, p) = {Ctrl(p), Pad(p)} \X (0..31)
        /\ PinBits(b, q) = {Ctrl(q), Pad(q)} \X (0..31)
    BY <1>2 DEF PinBits
  <2>3. QED BY <2>1, <2>2
<1>3. QED BY <1>1, <1>2

LEMMA PinsTypes == Pins \subseteq 0..53 /\ clockPin \in Pins /\ dataPin \in Pins /\ Others \subseteq Pins
BY PinsAssumption DEF Others

LEMMA MyPin ==
  ASSUME BoardOK, NEW p \in {clockPin, dataPin}, NEW r, NEW mask \in SUBSET Word,
         {r} \X mask \subseteq PinBits(board, p), r \in Registers(board)
  PROVE  OwnBits(r, mask)
<1>1. ASSUME NEW q \in Others PROVE ({r} \X mask) \cap PinBits(board, q) = {}
  <2>1. PinBits(board, p) \cap PinBits(board, q) = {}
    BY PinsTypes, Disjoint DEF Others, BoardOK
  <2>2. QED BY <2>1
<1>2. QED BY <1>1 DEF OwnBits

-----------------------------------------------------------------------------
(* The functions of the back-ends *)

LEMMA MyRegisters4 ==
  ASSUME board = "raspi4", NEW p \in {clockPin, dataPin}
  PROVE  /\ {GPFSEL(p)} \X GPFSELx(p) \subseteq PinBits(board, p)
         /\ {GPSET(p)} \X {p % 32} \subseteq PinBits(board, p)
         /\ {Pull4(p)} \X Shift({0, 1}, 2 * (p % 16)) \subseteq PinBits(board, p)
         /\ GPFSEL(p) \in Registers(board) /\ GPSET(p) \in Registers(board)
         /\ Pull4(p) \in Registers(board)
<1>1. PinBits(board, p) =
        ({GPFSEL(p)} \X GPFSELx(p)) \cup {<<GPSET(p), p % 32>>}
        \cup ({Pull4(p)} \X Shift({0, 1}, 2 * (p % 16)))
  BY DEF PinBits
<1>2. p \in Pins
  BY PinsTypes
<1>3. /\ <<GPFSEL(p), 0 + 3 * (p % 10)>> \in PinBits(board, p)
      /\ <<GPSET(p), p % 32>> \in PinBits(board, p)
      /\ <<Pull4(p), 0 + 2 * (p % 16)>> \in PinBits(board, p)
  BY <1>1 DEF GPFSELx, Shift
<1>4. \A x \in PinBits(board, p) : x[1] \in Registers(board)
  BY <1>2 DEF Registers
<1>5. GPFSEL(p) \in Registers(board) /\ GPSET(p) \in Registers(board) /\ Pull4(p) \in Registers(board)
  BY <1>3, <1>4
<1>6. QED BY <1>1, <1>5

LEMMA MyRegisters5 ==
  ASSUME board = "raspi5", NEW p \in {clockPin, dataPin}
  PROVE  /\ {Ctrl(p)} \X Word \subseteq PinBits(board, p)
         /\ {Pad(p)} \X Word \subseteq PinBits(board, p)
         /\ Ctrl(p) \in Registers(board) /\ Pad(p) \in Registers(board)
<1>1. PinBits(board, p) = {Ctrl(p), Pad(p)} \X Word
  BY DEF PinBits, Word
<1>2. p \in Pins
  BY PinsTypes
<1>3. <<Ctrl(p), 0>> \in PinBits(board, p) /\ <<Pad(p), 0>> \in PinBits(board, p)
  BY <1>1 DEF Word
<1>4. \A x \in PinBits(board, p) : x[1] \in Registers(board)
  BY <1>2 DEF Registers
<1>5. QED BY <1>1, <1>3, <1>4

LEMMA SetClr ==
  ASSUME BoardOK, NEW p \in {clockPin, dataPin}, NEW r \in Registers(board),
         NEW bits \in SUBSET Word, {r} \X bits \subseteq PinBits(board, p)
  PROVE  Set(r, bits) \in Seq(Accesses) /\ Clr(r, bits) \in Seq(Accesses)
<1>1. OwnBits(r, bits)
  BY MyPin
<1>2. Access("set", r, bits, bits) \in Accesses /\ Access("clr", r, bits, bits) \in Accesses
  BY <1>1 DEF Accesses, Access
<1>3. QED BY <1>2 DEF Set, Clr

LEMMA UpdateOwn ==
  ASSUME board = "raspi4", NEW p \in {clockPin, dataPin}, NEW r \in Registers(board),
         NEW mask \in SUBSET Word, {r} \X mask \subseteq PinBits(board, p),
         NEW bits \in SUBSET Word
  PROVE  Update(r, mask, bits) \in Seq(Accesses)
<1>1. OwnBits(r, mask)
  BY MyPin DEF BoardOK
<1>2. Access("load", r, mask, {}) \in Accesses /\ Access("store", r, mask, bits) \in Accesses
  BY <1>1 DEF Accesses, Access
<1>3. QED BY <1>2 DEF Update

LEMMA Join ==
  ASSUME NEW S, NEW s \in Seq(S), NEW t \in Seq(S)
  PROVE  s \o t \in Seq(S)
OBVIOUS

LEMMA PinOps4 ==
  ASSUME board = "raspi4", NEW p \in {clockPin, dataPin}
  PROVE  /\ configPinPullRaspi4(p) \in Seq(Accesses)
         /\ setPinOutputRaspi4(p) \in Seq(Accesses)
         /\ setPinInputRaspi4(p) \in Seq(Accesses)
         /\ setPinRaspi4(p) \in Seq(Accesses)
         /\ unsetPinRaspi4(p) \in Seq(Accesses)
         /\ Level(p) \in Seq(Accesses)
<1>1. p \in 0..53 /\ BoardOK
  BY PinsTypes DEF BoardOK
<1> USE <1>1, Mask4, MyRegisters4
<1>2. configPinPullRaspi4(p) \in Seq(Accesses)
  BY UpdateOwn DEF configPinPullRaspi4
<1>3. setPinOutputRaspi4(p) \in Seq(Accesses)
  BY UpdateOwn DEF setPinOutputRaspi4
<1>4. setPinInputRaspi4(p) \in Seq(Accesses)
  BY UpdateOwn DEF setPinInputRaspi4
<1>5. {p % 32} \in SUBSET Word
  OBVIOUS
<1>6. setPinRaspi4(p) \in Seq(Accesses) /\ unsetPinRaspi4(p) \in Seq(Accesses)
  BY <1>5, SetClr DEF setPinRaspi4, unsetPinRaspi4
<1>7. OwnBits(GPSET(p), {})
  BY DEF OwnBits
<1>8. Level(p) \in Seq(Accesses)
  <2>1. Access("level", GPSET(p), {}, {}) \in Accesses
    BY <1>7 DEF Accesses, Access
  <2>2. QED BY <2>1 DEF Level
<1>9. QED BY <1>2, <1>3, <1>4, <1>6, <1>8

LEMMA PinOps5 ==
  ASSUME board = "raspi5", NEW p \in {clockPin, dataPin}
  PROVE  /\ configPinPullRaspi5(p) \in Seq(Accesses)
         /\ setPinOutputRaspi5(p) \in Seq(Accesses)
         /\ setPinInputRaspi5(p) \in Seq(Accesses)
         /\ setPinRaspi5(p) \in Seq(Accesses)
         /\ unsetPinRaspi5(p) \in Seq(Accesses)
         /\ Level(p) \in Seq(Accesses)
<1>1. BoardOK
  BY DEF BoardOK
<1>2. ASSUME NEW r \in {Ctrl(p), Pad(p)}, NEW bits \in SUBSET Word
      PROVE  Set(r, bits) \in Seq(Accesses) /\ Clr(r, bits) \in Seq(Accesses)
  <2>1. {r} \X bits \subseteq PinBits(board, p) /\ r \in Registers(board)
    BY MyRegisters5
  <2>2. QED BY <1>1, <2>1, SetClr
<1>3. /\ {2, 3} \in SUBSET Word /\ {2} \in SUBSET Word /\ {13} \in SUBSET Word
      /\ {6, 7} \in SUBSET Word /\ Function5 \in SUBSET Word /\ FUNCSEL \in SUBSET Word
      /\ (OEOVER \cup FUNCSEL) \in SUBSET Word /\ OUTOVER \in SUBSET Word
  BY DEF Word, Function5, FUNCSEL, OEOVER, OUTOVER, INOVER
<1>4. configPinPullRaspi5(p) \in Seq(Accesses)
  BY <1>2, <1>3, Join DEF configPinPullRaspi5
<1>5. setPinOutputRaspi5(p) \in Seq(Accesses)
  BY <1>2, <1>3, Join DEF setPinOutputRaspi5
<1>6. setPinInputRaspi5(p) \in Seq(Accesses)
  BY <1>2, <1>3, Join DEF setPinInputRaspi5
<1>7. setPinRaspi5(p) \in Seq(Accesses) /\ unsetPinRaspi5(p) \in Seq(Accesses)
  BY <1>2, <1>3, Join DEF setPinRaspi5, unsetPinRaspi5
<1>8. OwnBits(Ctrl(p), {})
  BY MyRegisters5 DEF OwnBits
<1>9. Level(p) \in Seq(Accesses)
  <2>1. Access("level", Ctrl(p), {}, {}) \in Accesses
    BY <1>8, MyRegisters5 DEF Accesses, Access
  <2>2. QED BY <2>1 DEF Level
<1>10. QED BY <1>4, <1>5, <1>6, <1>7, <1>9

(* Whatever SWDPI_SWD.c asks of the back-end touches the two pins only.         *)
LEMMA ProgramsOwn ==
  ASSUME BoardOK, NEW c \in Cycles \cup {"init", "cleanup"}
  PROVE  Program(c) \in Seq(Accesses)
<1>1. ASSUME NEW p \in {clockPin, dataPin}
      PROVE  /\ configPinPull(p) \in Seq(Accesses) /\ setPinOutput(p) \in Seq(Accesses)
             /\ setPinInput(p) \in Seq(Accesses) /\ setPin(p) \in Seq(Accesses)
             /\ unsetPin(p) \in Seq(Accesses) /\ Level(p) \in Seq(Accesses)
  BY PinOps4, PinOps5 DEF BoardOK, configPinPull, setPinOutput, setPinInput, setPin, unsetPin
<1> HIDE DEF configPinPull, setPinOutput, setPinInput, setPin, unsetPin, Level
<1>2. init \in Seq(Accesses)
  BY <1>1, Join DEF init
<1>3. cleanup \in Seq(Accesses)
  BY <1>1, Join DEF cleanup
<1>4. cycleRead \in Seq(Accesses)
  BY <1>1, Join DEF cycleRead
<1>5. cycleWrite(0) \in Seq(Accesses) /\ cycleWrite(1) \in Seq(Accesses)
  BY <1>1, Join DEF cycleWrite
<1>6. cycleTurnaround2Read \in Seq(Accesses) /\ cycleTurnaround2Write \in Seq(Accesses)
  BY <1>1, Join DEF cycleTurnaround2Read, cycleTurnaround2Write
<1>7. QED BY <1>2, <1>3, <1>4, <1>5, <1>6 DEF Program, Cycles

-----------------------------------------------------------------------------
(* The registers *)

LEMMA PinBitsArePairs ==
  ASSUME NEW b \in {"raspi4", "raspi5"}, NEW p \in Pins, NEW x \in PinBits(b, p)
  PROVE  x = <<x[1], x[2]>> /\ x[1] \in Registers(b) /\ x[2] \in Word
<1>1. x[1] \in Registers(b)
  BY DEF Registers
<1>2. CASE b = "raspi4"
  BY <1>1, <1>2, PinsTypes, Mask4 DEF PinBits
<1>3. CASE b = "raspi5"
  BY <1>1, <1>3 DEF PinBits, Word
<1>4. QED BY <1>2, <1>3

(* A register that changes within a mask which holds no bit of pin q leaves q    *)
(* as it is.                                                                    *)
LEMMA KeepPin ==
  ASSUME BoardOK, mem \in [Registers(board) -> SUBSET Word], NEW q \in Pins,
         NEW r \in Registers(board), NEW mask, NEW new,
         ({r} \X mask) \cap PinBits(board, q) = {},
         \A b \in Word \ mask : b \in new <=> b \in mem[r]
  PROVE  Setting(q, [mem EXCEPT ![r] = new]) = Setting(q, mem)
<1>1. ASSUME NEW x \in PinBits(board, q)
      PROVE  x[2] \in [mem EXCEPT ![r] = new][x[1]] <=> x[2] \in mem[x[1]]
  <2>1. x = <<x[1], x[2]>> /\ x[1] \in Registers(board) /\ x[2] \in Word
    BY PinBitsArePairs DEF BoardOK
  <2>2. CASE x[1] # r
    BY <2>1, <2>2
  <2>3. CASE x[1] = r
    <3>1. x[2] \notin mask
      BY <2>1, <2>3
    <3>2. QED BY <2>1, <2>3, <3>1
  <2>4. QED BY <2>2, <2>3
<1>2. QED BY <1>1 DEF Setting

LEMMA SettingType ==
  ASSUME BoardOK, NEW p \in Pins, NEW m
  PROVE  Setting(p, m) \subseteq Registers(board) \X Word
<1>1. ASSUME NEW x \in PinBits(board, p) PROVE x \in Registers(board) \X Word
  BY PinBitsArePairs DEF BoardOK
<1>2. QED BY <1>1 DEF Setting

(* The field that another driver changes is the pin's own.                       *)
LEMMA FunctionOwn ==
  ASSUME BoardOK, NEW p \in Pins
  PROVE  /\ FunctionReg(board, p) \in Registers(board)
         /\ FunctionBits(board, p) \subseteq Word
         /\ {FunctionReg(board, p)} \X FunctionBits(board, p) \subseteq PinBits(board, p)
         /\ board = "raspi5" => {FunctionReg(board, p)} \X Word \subseteq PinBits(board, p)
<1>1. CASE board = "raspi4"
  <2>1. {GPFSEL(p)} \X GPFSELx(p) \subseteq PinBits(board, p)
    BY <1>1 DEF PinBits
  <2>2. <<GPFSEL(p), 0 + 3 * (p % 10)>> \in PinBits(board, p)
    BY <2>1 DEF GPFSELx, Shift
  <2>3. GPFSEL(p) \in Registers(board)
    BY <2>2 DEF Registers
  <2>4. QED BY <1>1, <2>1, <2>3, Mask4, PinsTypes DEF FunctionReg, FunctionBits
<1>2. CASE board = "raspi5"
  <2>1. PinBits(board, p) = {Ctrl(p), Pad(p)} \X Word
    BY <1>2 DEF PinBits, Word
  <2>2. <<Ctrl(p), 0>> \in PinBits(board, p)
    BY <2>1 DEF Word
  <2>3. Ctrl(p) \in Registers(board)
    BY <2>2 DEF Registers
  <2>4. FUNCSEL \subseteq Word
    BY DEF FUNCSEL, Word
  <2>5. QED BY <1>2, <2>1, <2>3, <2>4 DEF FunctionReg, FunctionBits
<1>3. QED BY <1>1, <1>2 DEF BoardOK

-----------------------------------------------------------------------------

LEMMA InitInv == Init => IInv
<1> SUFFICES ASSUME Init PROVE IInv
  OBVIOUS
<1>1. BoardOK /\ mem \in [Registers(board) -> SUBSET Word]
  BY PowerUpAssumption DEF Init, BoardOK, Word
<1>2. wanted \in [Others -> SUBSET (Registers(board) \X Word)]
  BY <1>1, SettingType, PinsTypes DEF Init
<1>3. TypeOK
  BY <1>1, <1>2, PinsTypes DEF Init, TypeOK, NoOther, Word, BoardOK
<1>4. OthersKept
  BY DEF Init, OthersKept
<1>5. todo \in Seq(Accesses)
  BY DEF Init
<1>6. QED BY <1>3, <1>4, <1>5 DEF IInv, Init

LEMMA SameBoard ==
  ASSUME board' = board
  PROVE  Accesses' = Accesses
BY DEF Accesses, OwnBits

(* The next access is one of this driver's, and what remains is too.            *)
LEMMA AtOwn ==
  ASSUME todo \in Seq(Accesses), NEW a, At(a)
  PROVE  /\ ThisAccess \in Accesses /\ ThisAccess.do = a /\ todo' \in Seq(Accesses)
         /\ ThisAccess.reg \in Registers(board) /\ OwnBits(ThisAccess.reg, ThisAccess.mask)
         /\ ThisAccess.mask \subseteq Word /\ ThisAccess.bits \subseteq Word
         /\ a \in {"set", "clr"} => ThisAccess.bits = ThisAccess.mask
         /\ board = "raspi5" => a \notin {"load", "store"}
<1>1. ThisAccess \in Accesses /\ ThisAccess.do = a /\ todo' \in Seq(Accesses)
  BY DEF At, ThisAccess
<1>2. QED BY <1>1 DEF Accesses

(* One write of the back-end.                                                   *)
LEMMA WriteInv ==
  ASSUME IInv, NEW r \in Registers(board), NEW mask, OwnBits(r, mask), NEW new \in SUBSET Word,
         Write([mem EXCEPT ![r] = new]), board' = board, wanted' = wanted,
         LostUpdate => LostUpdate',
         ~LostUpdate' => \A b \in Word \ mask : b \in new <=> b \in mem[r]
  PROVE  /\ mem' \in [Registers(board) -> SUBSET Word]
         /\ edges' \in Nat /\ drive' \in {"low", "high", "none"}
         /\ OthersKept'
<1>1. mem \in [Registers(board) -> SUBSET Word] /\ BoardOK /\ mem' = [mem EXCEPT ![r] = new]
  BY DEF IInv, TypeOK, Word, BoardOK, Write
<1>2. edges' \in Nat /\ drive' \in {"low", "high", "none"}
  BY DEF IInv, TypeOK, Write
<1>3. ASSUME ~LostUpdate', NEW q \in Others PROVE Setting(q, mem)' = wanted'[q]
  <2>1. Setting(q, mem') = Setting(q, mem)
    BY <1>1, <1>3, KeepPin, PinsTypes DEF OwnBits
  <2>2. Setting(q, mem)' = Setting(q, mem')
    BY DEF Setting
  <2>3. QED BY <1>3, <2>1, <2>2 DEF IInv, OthersKept
<1>4. QED BY <1>1, <1>2, <1>3 DEF OthersKept

(* What another driver stores is in the register that holds the function of a    *)
(* pin of its own, and every other pin stays as it is.                           *)
LEMMA StrangerStores ==
  ASSUME IInv, OtherStores, ~LostUpdate', NEW q \in Pins, q # other.pin
  PROVE  Setting(q, mem') = Setting(q, mem)
<1>0. BoardOK /\ mem \in [Registers(board) -> SUBSET Word] /\ board' = board
  BY DEF IInv, TypeOK, BoardOK, Word, OtherStores
<1> DEFINE pin == other.pin
           r == FunctionReg(board, pin)
           f == FunctionBits(board, pin)
<1>1. pin \in Others /\ pin \in Pins /\ other.val \subseteq Word
  BY PinsTypes DEF OtherStores, IInv, TypeOK, Word
<1>2. r \in Registers(board) /\ f \subseteq Word /\ q # pin
  BY <1>0, <1>1, FunctionOwn
<1> HIDE DEF r, f, pin
<1>3. PICK new \in {other.val \ f, other.val \cup f} : mem' = [mem EXCEPT ![r] = new]
  BY DEF OtherStores, r, f, pin
<1>4. raced' = (raced \/ mem[r] # other.val)
  BY DEF OtherStores, r, pin
<1>5. CASE board = "raspi4"
  <2>1. mem[r] = other.val
    BY <1>0, <1>4, <1>5 DEF LostUpdate
  <2>2. ({r} \X f) \cap PinBits(board, q) = {}
    BY <1>0, <1>1, <1>2, FunctionOwn, Disjoint, PinsTypes DEF BoardOK, r, f
  <2>3. \A b \in Word \ f : b \in new <=> b \in mem[r]
    BY <1>3, <2>1
  <2>4. QED
    BY <1>0, <1>2, <1>3, <2>2, <2>3, KeepPin
<1>6. CASE board = "raspi5"
  <2>1. ({r} \X Word) \cap PinBits(board, q) = {}
    BY <1>0, <1>1, <1>2, <1>6, FunctionOwn, Disjoint, PinsTypes DEF BoardOK, r
  <2>2. QED
    BY <1>0, <1>2, <1>3, <2>1, KeepPin
<1>7. QED
  BY <1>0, <1>5, <1>6 DEF BoardOK

LEMMA StepInv == IInv /\ [Next]_vars => IInv'
<1> SUFFICES ASSUME IInv, [Next]_vars PROVE IInv'
  OBVIOUS
<1>0. BoardOK /\ mem \in [Registers(board) -> SUBSET Word]
  BY DEF IInv, TypeOK, BoardOK, Word
<1>1. ASSUME NEW c \in Cycles \cup {"init", "cleanup"}, Call(c) PROVE IInv'
  <2>1. todo' \in Seq(Accesses)'
    BY <1>0, <1>1, ProgramsOwn, SameBoard DEF Call
  <2>2. TypeOK'
    BY <1>1 DEF Call, IInv, TypeOK
  <2>3. OthersKept'
    BY <1>1 DEF Call, IInv, OthersKept, LostUpdate, Setting
  <2>4. QED BY <1>1, <2>1, <2>2, <2>3 DEF IInv, Call
<1>2. CASE Return \/ UNCHANGED vars
  <2>1. TypeOK'
    BY <1>2 DEF Return, vars, host, IInv, TypeOK, Cycles
  <2>2. todo' = todo /\ other' = other /\ mem' = mem /\ board' = board /\ wanted' = wanted /\ raced' = raced
    BY <1>2 DEF Return, vars, host
  <2>3. OthersKept'
    BY <2>2 DEF IInv, OthersKept, LostUpdate, Setting
  <2>4. QED BY <2>1, <2>2, <2>3, SameBoard DEF IInv
<1>3. CASE Load
  <2>1. ThisAccess.reg \in Registers(board) /\ todo' \in Seq(Accesses)
    BY <1>3, AtOwn DEF Load, IInv
  <2>2. TypeOK'
    BY <1>0, <1>3, <2>1 DEF Load, IInv, TypeOK, Word
  <2>3. OthersKept'
    BY <1>3 DEF Load, IInv, OthersKept, LostUpdate, Setting
  <2>4. QED BY <1>3, <2>1, <2>2, <2>3, SameBoard DEF IInv, Load
<1>4. CASE Store
  <2> DEFINE new == (old \ ThisAccess.mask) \cup (ThisAccess.bits \cap ThisAccess.mask)
  <2>1. /\ ThisAccess.reg \in Registers(board) /\ OwnBits(ThisAccess.reg, ThisAccess.mask)
        /\ todo' \in Seq(Accesses) /\ ThisAccess.bits \subseteq Word /\ board # "raspi5"
    BY <1>4, AtOwn DEF Store, IInv
  <2>2. new \in SUBSET Word
    BY <2>1 DEF IInv, TypeOK, Word
  <2>3. ~LostUpdate' => old = mem[ThisAccess.reg]
    BY <1>0, <1>4, <2>1 DEF Store, LostUpdate, BoardOK
  <2>4. /\ mem' \in [Registers(board) -> SUBSET Word]
        /\ edges' \in Nat /\ drive' \in {"low", "high", "none"} /\ OthersKept'
    <3>1. /\ Write([mem EXCEPT ![ThisAccess.reg] = new]) /\ board' = board /\ wanted' = wanted
          /\ LostUpdate => LostUpdate'
      BY <1>4 DEF Store, LostUpdate
    <3>2. ~LostUpdate' => \A b \in Word \ ThisAccess.mask : b \in new <=> b \in mem[ThisAccess.reg]
      BY <2>1, <2>3
    <3> HIDE DEF new
    <3>3. QED
      BY <2>1, <2>2, <3>1, <3>2, WriteInv
  <2>5. raced' \in BOOLEAN
    BY <1>4 DEF Store, IInv, TypeOK
  <2>6. TypeOK'
    BY <1>4, <2>4, <2>5 DEF Store, IInv, TypeOK, Word
  <2>7. QED BY <1>4, <2>1, <2>4, <2>6, SameBoard DEF IInv, Store
<1>5. CASE SetBits
  <2> DEFINE new == mem[ThisAccess.reg] \cup ThisAccess.bits
  <2>1. /\ ThisAccess.reg \in Registers(board) /\ OwnBits(ThisAccess.reg, ThisAccess.mask)
        /\ todo' \in Seq(Accesses) /\ ThisAccess.bits \subseteq Word /\ ThisAccess.bits = ThisAccess.mask
    BY <1>5, AtOwn DEF SetBits, IInv
  <2>2. /\ mem' \in [Registers(board) -> SUBSET Word]
        /\ edges' \in Nat /\ drive' \in {"low", "high", "none"} /\ OthersKept'
    <3>1. Write([mem EXCEPT ![ThisAccess.reg] = new])
      BY <1>5 DEF SetBits
    <3>2. new \in SUBSET Word /\ \A b \in Word \ ThisAccess.mask : b \in new <=> b \in mem[ThisAccess.reg]
      BY <1>0, <2>1
    <3>3. board' = board /\ wanted' = wanted /\ raced' = raced
      BY <1>5 DEF SetBits
    <3>4. QED BY <2>1, <3>1, <3>2, <3>3, WriteInv DEF LostUpdate
  <2>3. TypeOK'
    BY <1>5, <2>2 DEF SetBits, IInv, TypeOK, Word
  <2>4. QED BY <1>5, <2>1, <2>2, <2>3, SameBoard DEF IInv, SetBits
<1>6. CASE ClearBits
  <2> DEFINE new == mem[ThisAccess.reg] \ ThisAccess.bits
  <2>1. /\ ThisAccess.reg \in Registers(board) /\ OwnBits(ThisAccess.reg, ThisAccess.mask)
        /\ todo' \in Seq(Accesses) /\ ThisAccess.bits \subseteq Word /\ ThisAccess.bits = ThisAccess.mask
    BY <1>6, AtOwn DEF ClearBits, IInv
  <2>2. /\ mem' \in [Registers(board) -> SUBSET Word]
        /\ edges' \in Nat /\ drive' \in {"low", "high", "none"} /\ OthersKept'
    <3>1. Write([mem EXCEPT ![ThisAccess.reg] = new])
      BY <1>6 DEF ClearBits
    <3>2. new \in SUBSET Word /\ \A b \in Word \ ThisAccess.mask : b \in new <=> b \in mem[ThisAccess.reg]
      BY <1>0, <2>1
    <3>3. board' = board /\ wanted' = wanted /\ raced' = raced
      BY <1>6 DEF ClearBits
    <3>4. QED BY <2>1, <3>1, <3>2, <3>3, WriteInv DEF LostUpdate
  <2>3. TypeOK'
    BY <1>6, <2>2 DEF ClearBits, IInv, TypeOK, Word
  <2>4. QED BY <1>6, <2>1, <2>2, <2>3, SameBoard DEF IInv, ClearBits
<1>7. CASE ReadLevel
  <2>1. todo' \in Seq(Accesses)
    BY <1>7, AtOwn DEF ReadLevel, IInv
  <2>2. DataLevels \subseteq {"low", "high"}
    BY DEF DataLevels, IInv, TypeOK
  <2>3. TypeOK'
    BY <1>7, <2>2 DEF ReadLevel, IInv, TypeOK
  <2>4. OthersKept'
    BY <1>7 DEF ReadLevel, IInv, OthersKept, LostUpdate, Setting
  <2>5. QED BY <1>7, <2>1, <2>3, <2>4, SameBoard DEF IInv, ReadLevel
<1>8. ASSUME NEW p \in Others, OtherLoads(p) PROVE IInv'
  <2>1. p \in Pins /\ FunctionReg(board, p) \in Registers(board)
    BY <1>0, FunctionOwn, PinsTypes
  <2>2. TypeOK'
    BY <1>0, <1>8, <2>1 DEF OtherLoads, host, IInv, TypeOK, Word
  <2>3. OthersKept'
    BY <1>8 DEF OtherLoads, IInv, OthersKept, LostUpdate, Setting
  <2>4. other'.pin \in Others'
    BY <1>8 DEF OtherLoads, Others
  <2>5. QED BY <1>8, <2>2, <2>3, <2>4, SameBoard DEF IInv, OtherLoads, host
<1>9. CASE OtherStores
  <2> DEFINE pin == other.pin
             r == FunctionReg(board, pin)
             f == FunctionBits(board, pin)
  <2>1. pin \in Others /\ pin \in Pins /\ other.val \subseteq Word
    BY <1>9, PinsTypes DEF OtherStores, IInv, TypeOK, Word
  <2>2. r \in Registers(board) /\ f \subseteq Word
    BY <1>0, <2>1, FunctionOwn
  <2> HIDE DEF r, f, pin
  <2>3. PICK new \in {other.val \ f, other.val \cup f} : mem' = [mem EXCEPT ![r] = new]
    BY <1>9 DEF OtherStores, r, f, pin
  <2>4. /\ wanted' = [wanted EXCEPT ![pin] = Setting(pin, mem')]
        /\ raced' = (raced \/ mem[r] # other.val) /\ board' = board /\ todo' = todo
    BY <1>9 DEF OtherStores, r, pin, host
  <2>5. ASSUME ~LostUpdate', NEW q \in Others, q # pin PROVE Setting(q, mem') = Setting(q, mem)
    BY <1>9, <2>5, StrangerStores, PinsTypes DEF pin
  <2>6. LostUpdate => LostUpdate'
    BY <2>4 DEF LostUpdate
  <2>7. ASSUME NEW q \in Others PROVE Setting(q, mem)' = Setting(q, mem')
    BY <2>4 DEF Setting
  <2>8. OthersKept'
    <3>1. \A q \in Others : ~LostUpdate' => wanted'[q] = Setting(q, mem')
      BY <2>1, <2>4, <2>5, <2>6 DEF IInv, OthersKept, TypeOK
    <3>2. QED BY <2>7, <3>1 DEF OthersKept
  <2>9. wanted' \in [Others -> SUBSET (Registers(board) \X Word)]
    BY <1>0, <2>1, <2>4, SettingType DEF IInv, TypeOK, Word
  <2>10. mem' \in [Registers(board) -> SUBSET Word]
    BY <1>0, <2>1, <2>2, <2>3
  <2>11. raced' \in BOOLEAN
    BY <2>4 DEF IInv, TypeOK
  <2>12. TypeOK'
    BY <1>9, <2>4, <2>9, <2>10, <2>11, PinsTypes DEF OtherStores, host, NoOther, IInv, TypeOK, Word
  <2>13. QED BY <1>9, <2>4, <2>8, <2>12, SameBoard DEF IInv, OtherStores
<1>10. CASE Next
  <2>1. CASE OpenDevice
    BY <1>1, <2>1 DEF OpenDevice
  <2>2. CASE Release
    BY <1>1, <2>2 DEF Release
  <2>3. CASE \E c \in Cycles : ClockCycle(c)
    BY <1>1, <2>3 DEF ClockCycle
  <2>4. CASE Return \/ Load \/ Store \/ SetBits \/ ClearBits \/ ReadLevel \/ OtherStores
    BY <1>2, <1>3, <1>4, <1>5, <1>6, <1>7, <1>9, <2>4
  <2>5. CASE \E p \in Others : OtherLoads(p)
    BY <1>8, <2>5
  <2>6. QED BY <1>10, <2>1, <2>2, <2>3, <2>4, <2>5 DEF Next
<1>11. QED BY <1>2, <1>10

(* Every register keeps to its 32 bits and every step of the back-ends to the   *)
(* state that SWDPI_raspi4.c and SWDPI_raspi5.c describe, on either board.       *)
THEOREM TypeCorrect == Spec => []TypeOK
<1>1. IInv => TypeOK
  BY DEF IInv
<1>2. QED BY <1>1, InitInv, StepInv, PTL DEF Spec

(* No access of the back-ends disturbs a pin of another driver, unless a load   *)
(* and a store of the two interleave on one register of a Pi 4: for all pins and  *)
(* whatever the registers hold at first.                                         *)
THEOREM OthersUntouched == Spec => []OthersKept
<1>1. IInv => OthersKept
  BY DEF IInv
<1>2. QED BY <1>1, InitInv, StepInv, PTL DEF Spec

-----------------------------------------------------------------------------
(* The state of one of the driver's pins, as far as the lines depend on it.      *)
Driving(p) ==
  IF board = "raspi4" THEN GPFSELx(p) \cap mem[GPFSEL(p)] = Shift({0}, 3 * (p % 10))
  ELSE OEOVER \cup FUNCSEL \subseteq mem[Ctrl(p)] /\ 7 \notin mem[Pad(p)]

Floating(p) ==
  IF board = "raspi4" THEN GPFSELx(p) \cap mem[GPFSEL(p)] = {} ELSE {6, 7} \subseteq mem[Pad(p)]

High(p) == IF board = "raspi4" THEN p % 32 \in mem[GPSET(p)] ELSE OUTOVER \subseteq mem[Ctrl(p)]
Low(p) == IF board = "raspi4" THEN p % 32 \notin mem[GPSET(p)] ELSE 12 \notin mem[Ctrl(p)]

(* What the pad of a Pi 5 must not be when the next bits are set.                *)
PadOut(p) == board = "raspi5" => 7 \notin mem[Pad(p)]
PadDown(p) == board = "raspi5" => 3 \notin mem[Pad(p)]

(* The accesses done so far are the first ones of the current function.          *)
Steps == Len(Program(cycle))
Done == Steps - Len(todo)

Working == Cycles \cup {"init", "cleanup"}

Suffix ==
  /\ cycle \notin Working => todo = <<>>
  /\ cycle \in Working =>
       /\ Len(todo) <= Steps
       /\ \A k \in 1 .. Len(todo) : todo[k] = Program(cycle)[Done + k]

(* The access after which the clock is low again.                               *)
Falls ==
  CASE cycle = "read"                       -> 2
    [] cycle = "write1"                     -> 3
    [] cycle = "write0"                     -> IF board = "raspi4" THEN 3 ELSE 4
    [] cycle \in {"turn2read", "turn2write"} -> IF board = "raspi4" THEN 5 ELSE 7

Clocked ==
  cycle \in Cycles =>
    /\ Driving(clockPin) /\ PulledDown(dataPin)
    /\ Done = 0 => Low(clockPin) /\ edges = 0
    /\ Done \in 1 .. Falls - 1 => High(clockPin) /\ edges = 1
    /\ Done >= Falls => Low(clockPin) /\ edges = 2

Carried ==
  /\ cycle = "read" => Floating(dataPin) /\ input
  /\ cycle \in {"write0", "write1"} => Driving(dataPin) /\ ~input
  /\ cycle = "write1" /\ Done >= 2 => High(dataPin)
  /\ cycle \in {"write0", "turn2read", "turn2write"} /\ Done >= 2 => Low(dataPin)
  /\ cycle = "turn2read" => input
  /\ cycle = "turn2read" /\ Done >= (IF board = "raspi4" THEN 4 ELSE 5) => Floating(dataPin)
  /\ cycle = "turn2write" => ~input
  /\ cycle = "turn2write" /\ Done >= 5 => PadOut(dataPin)
  /\ cycle = "turn2write" /\ Done >= (IF board = "raspi4" THEN 4 ELSE 6) => Driving(dataPin)

(* What the functions before have brought about.                                *)
Prepared4 ==
  cycle = "init" /\ board = "raspi4" =>
    /\ Done >= 4 => PulledDown(dataPin)
    /\ Done >= 6 => Driving(clockPin)
    /\ Done >= 8 => Driving(dataPin)
    /\ Done >= 9 => Low(clockPin)
    /\ Done >= 10 => Low(dataPin)

Prepared5 ==
  cycle = "init" /\ board = "raspi5" =>
    /\ Done >= 3 => PadDown(dataPin)
    /\ Done >= 4 => PulledDown(dataPin)
    /\ Done >= 6 => PadOut(clockPin)
    /\ Done >= 7 => Driving(clockPin)
    /\ Done >= 9 => PadOut(dataPin)
    /\ Done >= 10 => Driving(dataPin)
    /\ Done >= 11 => Low(clockPin)
    /\ Done >= 13 => Low(dataPin)

Between ==
  /\ cycle \in {"closed", "init", "cleanup"} => ~input
  /\ cycle = "init" => edges = 0
  /\ cycle = "none" =>
       /\ Driving(clockPin) /\ Low(clockPin) /\ PulledDown(dataPin)
       /\ IF input THEN Floating(dataPin) ELSE Driving(dataPin)
  /\ cycle = "cleanup" =>
       /\ Driving(clockPin) /\ Low(clockPin) /\ Driving(dataPin)
       /\ Done >= (IF board = "raspi4" THEN 2 ELSE 3) => Low(dataPin)

(* A read cycle ends with its last access, which returns the level.             *)
Unread == cycle = "read" => todo # <<>>

LInv == ~LostUpdate => Clocked /\ Carried /\ Prepared4 /\ Prepared5 /\ Between /\ Unread

-----------------------------------------------------------------------------
(* The accesses, by what they are for. *)

Up(p) == IF board = "raspi4" THEN Access("set", GPSET(p), {p % 32}, {p % 32})
         ELSE Access("set", Ctrl(p), OUTOVER, OUTOVER)
Down(p) == IF board = "raspi4" THEN Access("clr", GPSET(p), {p % 32}, {p % 32})
           ELSE Access("clr", Ctrl(p), OUTOVER, OUTOVER)
Hold(p) == Access("set", Ctrl(p), {13}, {13})
Look(p) == Access("level", IF board = "raspi4" THEN GPSET(p) ELSE Ctrl(p), {}, {})

GetFunction(p) == Access("load", GPFSEL(p), GPFSELx(p), {})
Out(p) == IF board = "raspi4" THEN Access("store", GPFSEL(p), GPFSELx(p), Shift({0}, 3 * (p % 10)))
          ELSE Access("set", Ctrl(p), OEOVER \cup FUNCSEL, OEOVER \cup FUNCSEL)
In(p) == IF board = "raspi4" THEN Access("store", GPFSEL(p), GPFSELx(p), {})
         ELSE Access("set", Pad(p), {6, 7}, {6, 7})
Blank(p) == Access("clr", Ctrl(p), Function5, Function5)
EnableOutput(p) == Access("clr", Pad(p), {6, 7}, {6, 7})
Select(p) == Access("set", Ctrl(p), FUNCSEL, FUNCSEL)

PullBits(p) == Shift({0, 1}, 2 * (p % 16))
GetPull(p) == Access("load", Pull4(p), PullBits(p), {})
Unpull(p) == Access("clr", Pad(p), {2, 3}, {2, 3})
Pull(p) == IF board = "raspi4" THEN Access("store", Pull4(p), PullBits(p), Shift({1}, 2 * (p % 16)))
           ELSE Access("set", Pad(p), {2}, {2})

LEMMA Pair == ASSUME NEW a, NEW b PROVE <<a>> \o <<b>> = <<a, b>>
<1> DEFINE s == <<a>> \o <<b>>
           t == <<a, b>>
<1>1. s \in Seq({a, b}) /\ t \in Seq({a, b})
  OBVIOUS
<1>2. Len(s) = 2 /\ Len(t) = 2 /\ s[1] = a /\ s[2] = b /\ t[1] = a /\ t[2] = b
  OBVIOUS
<1> HIDE DEF s, t
<1>3. \A i \in 1..2 : s[i] = t[i]
  BY <1>2
<1>4. s = t
  BY <1>1, <1>2, <1>3, SeqEqual
<1>5. QED
  BY <1>4 DEF s, t

LEMMA Triple == ASSUME NEW a, NEW b, NEW c PROVE <<a>> \o <<b>> \o <<c>> = <<a, b, c>>
<1> DEFINE s == <<a>> \o <<b>> \o <<c>>
           t == <<a, b, c>>
<1>1. s \in Seq({a, b, c}) /\ t \in Seq({a, b, c})
  OBVIOUS
<1>2. /\ Len(s) = 3 /\ Len(t) = 3
      /\ s[1] = a /\ s[2] = b /\ s[3] = c /\ t[1] = a /\ t[2] = b /\ t[3] = c
  OBVIOUS
<1> HIDE DEF s, t
<1>3. \A i \in 1..3 : s[i] = t[i]
  BY <1>2
<1>4. s = t
  BY <1>1, <1>2, <1>3, SeqEqual
<1>5. QED
  BY <1>4 DEF s, t

(* The functions as lists of these. *)
LEMMA PinFunctions ==
  ASSUME BoardOK, NEW p
  PROVE  /\ setPin(p) = <<Up(p)>>
         /\ Level(p) = <<Look(p)>>
         /\ board = "raspi4" =>
              /\ unsetPin(p) = <<Down(p)>>
              /\ setPinOutput(p) = <<GetFunction(p), Out(p)>>
              /\ setPinInput(p) = <<GetFunction(p), In(p)>>
              /\ configPinPull(p) = <<GetPull(p), Pull(p)>>
         /\ board = "raspi5" =>
              /\ unsetPin(p) = <<Down(p), Hold(p)>>
              /\ setPinOutput(p) = <<Blank(p), EnableOutput(p), Out(p)>>
              /\ setPinInput(p) = <<Blank(p), In(p), Select(p)>>
              /\ configPinPull(p) = <<Unpull(p), Pull(p)>>
<1>1. CASE board = "raspi4"
  BY <1>1 DEF setPin, unsetPin, setPinOutput, setPinInput, configPinPull, setPinRaspi4, unsetPinRaspi4,
              setPinOutputRaspi4, setPinInputRaspi4, configPinPullRaspi4, Level, Set, Clr, Update,
              Up, Down, Look, GetFunction, Out, In, GetPull, Pull, PullBits
<1>2. CASE board = "raspi5"
  BY <1>2, Pair, Triple DEF setPin, unsetPin, setPinOutput, setPinInput, configPinPull, setPinRaspi5,
              unsetPinRaspi5, setPinOutputRaspi5, setPinInputRaspi5, configPinPullRaspi5, Level, Set, Clr,
              Up, Down, Look, Hold, Out, In, Blank, EnableOutput, Select, Unpull, Pull
<1>3. QED
  BY <1>1, <1>2 DEF BoardOK

LEMMA Programs4 ==
  ASSUME board = "raspi4"
  PROVE  /\ Len(Program("read")) = 3
         /\ Program("read")[1] = Up(clockPin) /\ Program("read")[2] = Down(clockPin)
         /\ Program("read")[3] = Look(dataPin)
         /\ Len(Program("write0")) = 3
         /\ Program("write0")[1] = Up(clockPin) /\ Program("write0")[2] = Down(dataPin)
         /\ Program("write0")[3] = Down(clockPin)
         /\ Len(Program("write1")) = 3
         /\ Program("write1")[1] = Up(clockPin) /\ Program("write1")[2] = Up(dataPin)
         /\ Program("write1")[3] = Down(clockPin)
         /\ Len(Program("turn2read")) = 5
         /\ Program("turn2read")[1] = Up(clockPin) /\ Program("turn2read")[2] = Down(dataPin)
         /\ Program("turn2read")[3] = GetFunction(dataPin) /\ Program("turn2read")[4] = In(dataPin)
         /\ Program("turn2read")[5] = Down(clockPin)
         /\ Len(Program("turn2write")) = 5
         /\ Program("turn2write")[1] = Up(clockPin) /\ Program("turn2write")[2] = Down(dataPin)
         /\ Program("turn2write")[3] = GetFunction(dataPin)
         /\ Program("turn2write")[4] = Out(dataPin) /\ Program("turn2write")[5] = Down(clockPin)
         /\ Len(Program("init")) = 10
         /\ Program("init")[1] = GetPull(clockPin) /\ Program("init")[2] = Pull(clockPin)
         /\ Program("init")[3] = GetPull(dataPin) /\ Program("init")[4] = Pull(dataPin)
         /\ Program("init")[5] = GetFunction(clockPin) /\ Program("init")[6] = Out(clockPin)
         /\ Program("init")[7] = GetFunction(dataPin) /\ Program("init")[8] = Out(dataPin)
         /\ Program("init")[9] = Down(clockPin) /\ Program("init")[10] = Down(dataPin)
         /\ Len(Program("cleanup")) = 2
         /\ Program("cleanup")[1] = Down(clockPin) /\ Program("cleanup")[2] = Down(dataPin)
<1>0. BoardOK
  BY DEF BoardOK
<1> USE <1>0, PinFunctions
<1>1. /\ Len(Program("read")) = 3
      /\ Program("read")[1] = Up(clockPin) /\ Program("read")[2] = Down(clockPin)
      /\ Program("read")[3] = Look(dataPin)
  <2>1. Program("read") = <<Up(clockPin)>> \o <<Down(clockPin)>> \o <<Look(dataPin)>>
    BY DEF Program, cycleRead
  <2>2. QED
    BY ONLY <2>1
<1>2. /\ Len(Program("write0")) = 3
      /\ Program("write0")[1] = Up(clockPin) /\ Program("write0")[2] = Down(dataPin)
      /\ Program("write0")[3] = Down(clockPin)
  <2>1. Program("write0") = <<Up(clockPin)>> \o <<Down(dataPin)>> \o <<Down(clockPin)>>
    BY DEF Program, cycleWrite
  <2>2. QED
    BY ONLY <2>1
<1>3. /\ Len(Program("write1")) = 3
      /\ Program("write1")[1] = Up(clockPin) /\ Program("write1")[2] = Up(dataPin)
      /\ Program("write1")[3] = Down(clockPin)
  <2>0. Program("write1") = setPin(clockPin) \o setPin(dataPin) \o unsetPin(clockPin)
    <3>1. cycleWrite(1) = setPin(clockPin) \o setPin(dataPin) \o unsetPin(clockPin)
      BY ONLY SMT DEF cycleWrite
    <3>2. QED
      BY ONLY <3>1 DEF Program
  <2>1. Program("write1") = <<Up(clockPin)>> \o <<Up(dataPin)>> \o <<Down(clockPin)>>
    BY <2>0
  <2>2. QED
    BY ONLY <2>1
<1>4. /\ Len(Program("turn2read")) = 5
      /\ Program("turn2read")[1] = Up(clockPin) /\ Program("turn2read")[2] = Down(dataPin)
      /\ Program("turn2read")[3] = GetFunction(dataPin)
      /\ Program("turn2read")[4] = In(dataPin) /\ Program("turn2read")[5] = Down(clockPin)
  <2>1. Program("turn2read") = <<Up(clockPin)>> \o <<Down(dataPin)>>
                               \o <<GetFunction(dataPin), In(dataPin)>> \o <<Down(clockPin)>>
    BY DEF Program, cycleTurnaround2Read
  <2>2. QED
    BY ONLY <2>1
<1>5. /\ Len(Program("turn2write")) = 5
      /\ Program("turn2write")[1] = Up(clockPin) /\ Program("turn2write")[2] = Down(dataPin)
      /\ Program("turn2write")[3] = GetFunction(dataPin)
      /\ Program("turn2write")[4] = Out(dataPin) /\ Program("turn2write")[5] = Down(clockPin)
  <2>1. Program("turn2write") = <<Up(clockPin)>> \o <<Down(dataPin)>>
                                \o <<GetFunction(dataPin), Out(dataPin)>> \o <<Down(clockPin)>>
    BY DEF Program, cycleTurnaround2Write
  <2>2. QED
    BY ONLY <2>1
<1>6. /\ Len(Program("init")) = 10
      /\ Program("init")[1] = GetPull(clockPin) /\ Program("init")[2] = Pull(clockPin)
      /\ Program("init")[3] = GetPull(dataPin) /\ Program("init")[4] = Pull(dataPin)
      /\ Program("init")[5] = GetFunction(clockPin) /\ Program("init")[6] = Out(clockPin)
      /\ Program("init")[7] = GetFunction(dataPin) /\ Program("init")[8] = Out(dataPin)
      /\ Program("init")[9] = Down(clockPin) /\ Program("init")[10] = Down(dataPin)
  <2>1. Program("init") = <<GetPull(clockPin), Pull(clockPin)>>
                          \o <<GetPull(dataPin), Pull(dataPin)>>
                          \o <<GetFunction(clockPin), Out(clockPin)>>
                          \o <<GetFunction(dataPin), Out(dataPin)>> \o <<Down(clockPin)>>
                          \o <<Down(dataPin)>>
    BY DEF Program, init
  <2>2. QED
    BY ONLY <2>1
<1>7. /\ Len(Program("cleanup")) = 2
      /\ Program("cleanup")[1] = Down(clockPin) /\ Program("cleanup")[2] = Down(dataPin)
  <2>1. Program("cleanup") = <<Down(clockPin)>> \o <<Down(dataPin)>>
    BY DEF Program, cleanup
  <2>2. QED
    BY ONLY <2>1
<1> QED
  BY ONLY <1>1, <1>2, <1>3, <1>4, <1>5, <1>6, <1>7

LEMMA Programs5 ==
  ASSUME board = "raspi5"
  PROVE  /\ Len(Program("read")) = 4
         /\ Program("read")[1] = Up(clockPin) /\ Program("read")[2] = Down(clockPin)
         /\ Program("read")[3] = Hold(clockPin) /\ Program("read")[4] = Look(dataPin)
         /\ Len(Program("write0")) = 5
         /\ Program("write0")[1] = Up(clockPin) /\ Program("write0")[2] = Down(dataPin)
         /\ Program("write0")[3] = Hold(dataPin) /\ Program("write0")[4] = Down(clockPin)
         /\ Program("write0")[5] = Hold(clockPin)
         /\ Len(Program("write1")) = 4
         /\ Program("write1")[1] = Up(clockPin) /\ Program("write1")[2] = Up(dataPin)
         /\ Program("write1")[3] = Down(clockPin) /\ Program("write1")[4] = Hold(clockPin)
         /\ Len(Program("turn2read")) = 8
         /\ Program("turn2read")[1] = Up(clockPin) /\ Program("turn2read")[2] = Down(dataPin)
         /\ Program("turn2read")[3] = Hold(dataPin) /\ Program("turn2read")[4] = Blank(dataPin)
         /\ Program("turn2read")[5] = In(dataPin) /\ Program("turn2read")[6] = Select(dataPin)
         /\ Program("turn2read")[7] = Down(clockPin) /\ Program("turn2read")[8] = Hold(clockPin)
         /\ Len(Program("turn2write")) = 8
         /\ Program("turn2write")[1] = Up(clockPin) /\ Program("turn2write")[2] = Down(dataPin)
         /\ Program("turn2write")[3] = Hold(dataPin) /\ Program("turn2write")[4] = Blank(dataPin)
         /\ Program("turn2write")[5] = EnableOutput(dataPin)
         /\ Program("turn2write")[6] = Out(dataPin) /\ Program("turn2write")[7] = Down(clockPin)
         /\ Program("turn2write")[8] = Hold(clockPin)
         /\ Len(Program("init")) = 14
         /\ Program("init")[1] = Unpull(clockPin) /\ Program("init")[2] = Pull(clockPin)
         /\ Program("init")[3] = Unpull(dataPin) /\ Program("init")[4] = Pull(dataPin)
         /\ Program("init")[5] = Blank(clockPin) /\ Program("init")[6] = EnableOutput(clockPin)
         /\ Program("init")[7] = Out(clockPin) /\ Program("init")[8] = Blank(dataPin)
         /\ Program("init")[9] = EnableOutput(dataPin) /\ Program("init")[10] = Out(dataPin)
         /\ Program("init")[11] = Down(clockPin) /\ Program("init")[12] = Hold(clockPin)
         /\ Program("init")[13] = Down(dataPin) /\ Program("init")[14] = Hold(dataPin)
         /\ Len(Program("cleanup")) = 4
         /\ Program("cleanup")[1] = Down(clockPin) /\ Program("cleanup")[2] = Hold(clockPin)
         /\ Program("cleanup")[3] = Down(dataPin) /\ Program("cleanup")[4] = Hold(dataPin)
<1>0. BoardOK
  BY DEF BoardOK
<1> USE <1>0, PinFunctions
<1>1. /\ Len(Program("read")) = 4
      /\ Program("read")[1] = Up(clockPin) /\ Program("read")[2] = Down(clockPin)
      /\ Program("read")[3] = Hold(clockPin) /\ Program("read")[4] = Look(dataPin)
  <2>1. Program("read") = <<Up(clockPin)>> \o <<Down(clockPin), Hold(clockPin)>>
                          \o <<Look(dataPin)>>
    BY DEF Program, cycleRead
  <2>2. QED
    BY ONLY <2>1
<1>2. /\ Len(Program("write0")) = 5
      /\ Program("write0")[1] = Up(clockPin) /\ Program("write0")[2] = Down(dataPin)
      /\ Program("write0")[3] = Hold(dataPin) /\ Program("write0")[4] = Down(clockPin)
      /\ Program("write0")[5] = Hold(clockPin)
  <2>1. Program("write0") = <<Up(clockPin)>> \o <<Down(dataPin), Hold(dataPin)>>
                            \o <<Down(clockPin), Hold(clockPin)>>
    BY DEF Program, cycleWrite
  <2>2. QED
    BY ONLY <2>1
<1>3. /\ Len(Program("write1")) = 4
      /\ Program("write1")[1] = Up(clockPin) /\ Program("write1")[2] = Up(dataPin)
      /\ Program("write1")[3] = Down(clockPin) /\ Program("write1")[4] = Hold(clockPin)
  <2>0. Program("write1") = setPin(clockPin) \o setPin(dataPin) \o unsetPin(clockPin)
    <3>1. cycleWrite(1) = setPin(clockPin) \o setPin(dataPin) \o unsetPin(clockPin)
      BY ONLY SMT DEF cycleWrite
    <3>2. QED
      BY ONLY <3>1 DEF Program
  <2>1. Program("write1") = <<Up(clockPin)>> \o <<Up(dataPin)>>
                            \o <<Down(clockPin), Hold(clockPin)>>
    BY <2>0
  <2>2. QED
    BY ONLY <2>1
<1>4. /\ Len(Program("turn2read")) = 8
      /\ Program("turn2read")[1] = Up(clockPin) /\ Program("turn2read")[2] = Down(dataPin)
      /\ Program("turn2read")[3] = Hold(dataPin) /\ Program("turn2read")[4] = Blank(dataPin)
      /\ Program("turn2read")[5] = In(dataPin) /\ Program("turn2read")[6] = Select(dataPin)
      /\ Program("turn2read")[7] = Down(clockPin) /\ Program("turn2read")[8] = Hold(clockPin)
  <2>1. Program("turn2read") = <<Up(clockPin)>> \o <<Down(dataPin), Hold(dataPin)>>
                               \o <<Blank(dataPin), In(dataPin), Select(dataPin)>>
                               \o <<Down(clockPin), Hold(clockPin)>>
    BY DEF Program, cycleTurnaround2Read
  <2>2. QED
    BY ONLY <2>1
<1>5. /\ Len(Program("turn2write")) = 8
      /\ Program("turn2write")[1] = Up(clockPin) /\ Program("turn2write")[2] = Down(dataPin)
      /\ Program("turn2write")[3] = Hold(dataPin) /\ Program("turn2write")[4] = Blank(dataPin)
      /\ Program("turn2write")[5] = EnableOutput(dataPin)
      /\ Program("turn2write")[6] = Out(dataPin) /\ Program("turn2write")[7] = Down(clockPin)
      /\ Program("turn2write")[8] = Hold(clockPin)
  <2>1. Program("turn2write") = <<Up(clockPin)>> \o <<Down(dataPin), Hold(dataPin)>>
                                \o <<Blank(dataPin), EnableOutput(dataPin), Out(dataPin)>>
                                \o <<Down(clockPin), Hold(clockPin)>>
    BY DEF Program, cycleTurnaround2Write
  <2>2. QED
    BY ONLY <2>1
<1>6. /\ Len(Program("init")) = 14
      /\ Program("init")[1] = Unpull(clockPin) /\ Program("init")[2] = Pull(clockPin)
      /\ Program("init")[3] = Unpull(dataPin) /\ Program("init")[4] = Pull(dataPin)
      /\ Program("init")[5] = Blank(clockPin) /\ Program("init")[6] = EnableOutput(clockPin)
      /\ Program("init")[7] = Out(clockPin) /\ Program("init")[8] = Blank(dataPin)
      /\ Program("init")[9] = EnableOutput(dataPin) /\ Program("init")[10] = Out(dataPin)
      /\ Program("init")[11] = Down(clockPin) /\ Program("init")[12] = Hold(clockPin)
      /\ Program("init")[13] = Down(dataPin) /\ Program("init")[14] = Hold(dataPin)
  <2>1. Program("init") = <<Unpull(clockPin), Pull(clockPin)>>
                          \o <<Unpull(dataPin), Pull(dataPin)>>
                          \o <<Blank(clockPin), EnableOutput(clockPin), Out(clockPin)>>
                          \o <<Blank(dataPin), EnableOutput(dataPin), Out(dataPin)>>
                          \o <<Down(clockPin), Hold(clockPin)>> \o <<Down(dataPin), Hold(dataPin)>>
    BY DEF Program, init
  <2>2. QED
    BY ONLY <2>1
<1>7. /\ Len(Program("cleanup")) = 4
      /\ Program("cleanup")[1] = Down(clockPin) /\ Program("cleanup")[2] = Hold(clockPin)
      /\ Program("cleanup")[3] = Down(dataPin) /\ Program("cleanup")[4] = Hold(dataPin)
  <2>1. Program("cleanup") = <<Down(clockPin), Hold(clockPin)>> \o <<Down(dataPin), Hold(dataPin)>>
    BY DEF Program, cleanup
  <2>2. QED
    BY ONLY <2>1
<1> QED
  BY ONLY <1>1, <1>2, <1>3, <1>4, <1>5, <1>6, <1>7

-----------------------------------------------------------------------------
(* One access. *)

(* The registers after an access that nobody got in the way of.                 *)
After(a) ==
  [mem EXCEPT ![a.reg] =
     CASE a.do = "store" -> (@ \ a.mask) \cup (a.bits \cap a.mask)
       [] a.do = "set"   -> @ \cup a.bits
       [] a.do = "clr"   -> @ \ a.bits
       [] OTHER          -> @]

Acts ==
  /\ todo # <<>> /\ todo' = Tail(todo) /\ ThisAccess.do # "level"
  /\ Write(After(ThisAccess))
  /\ UNCHANGED <<board, input, cycle, sample>>

LEMMA IsAct ==
  ASSUME IInv, Load \/ Store \/ SetBits \/ ClearBits, ~LostUpdate'
  PROVE  Acts
<1>1. mem \in [Registers(board) -> SUBSET Word] /\ BoardOK /\ ThisAccess.reg \in Registers(board)
  BY AtOwn DEF IInv, TypeOK, Word, BoardOK, Load, Store, SetBits, ClearBits
<1>2. CASE Load
  <2>1. /\ todo # <<>> /\ todo' = Tail(todo) /\ ThisAccess.do = "load"
        /\ UNCHANGED <<board, input, cycle, sample, mem, edges, drive>>
    BY <1>2 DEF Load, At
  <2>2. After(ThisAccess) = mem
    BY <1>1, <2>1 DEF After
  <2>3. Write(mem)
    BY <2>1 DEF Write
  <2>4. QED
    BY <2>1, <2>2, <2>3 DEF Acts
<1>3. CASE Store
  <2>1. /\ todo # <<>> /\ todo' = Tail(todo) /\ ThisAccess.do = "store"
        /\ UNCHANGED <<board, input, cycle, sample>>
        /\ raced' = (raced \/ mem[ThisAccess.reg] # old)
        /\ Write([mem EXCEPT ![ThisAccess.reg] =
                    (old \ ThisAccess.mask) \cup (ThisAccess.bits \cap ThisAccess.mask)])
    BY <1>3 DEF Store, At
  <2>2. board = "raspi4"
    BY <1>1, <1>3, AtOwn DEF Store, IInv, BoardOK
  <2>3. old = mem[ThisAccess.reg]
    BY <2>1, <2>2 DEF LostUpdate
  <2>4. After(ThisAccess) = [mem EXCEPT ![ThisAccess.reg] =
                               (old \ ThisAccess.mask) \cup (ThisAccess.bits \cap ThisAccess.mask)]
    BY <1>1, <2>1, <2>3 DEF After
  <2>5. QED
    BY <2>1, <2>4 DEF Acts
<1>4. CASE SetBits
  <2>1. /\ todo # <<>> /\ todo' = Tail(todo) /\ ThisAccess.do = "set"
        /\ UNCHANGED <<board, input, cycle, sample>>
        /\ Write([mem EXCEPT ![ThisAccess.reg] = @ \cup ThisAccess.bits])
    BY <1>4 DEF SetBits, At
  <2>2. After(ThisAccess) = [mem EXCEPT ![ThisAccess.reg] = @ \cup ThisAccess.bits]
    BY <1>1, <2>1 DEF After
  <2>3. QED
    BY <2>1, <2>2 DEF Acts
<1>5. CASE ClearBits
  <2>1. /\ todo # <<>> /\ todo' = Tail(todo) /\ ThisAccess.do = "clr"
        /\ UNCHANGED <<board, input, cycle, sample>>
        /\ Write([mem EXCEPT ![ThisAccess.reg] = @ \ ThisAccess.bits])
    BY <1>5 DEF ClearBits, At
  <2>2. After(ThisAccess) = [mem EXCEPT ![ThisAccess.reg] = @ \ ThisAccess.bits]
    BY <1>1, <2>1 DEF After
  <2>3. QED
    BY <2>1, <2>2 DEF Acts
<1>6. QED
  BY <1>2, <1>3, <1>4, <1>5

LEMMA SameProgram ==
  ASSUME board' = board, NEW c \in Working
  PROVE  Program(c)' = Program(c)
BY DEF Program, cycleRead, cycleWrite, cycleTurnaround2Read, cycleTurnaround2Write, init, cleanup,
       setPin, unsetPin, setPinInput, setPinOutput, configPinPull, setPinRaspi4, unsetPinRaspi4,
       setPinInputRaspi4, setPinOutputRaspi4, configPinPullRaspi4, setPinRaspi5, unsetPinRaspi5,
       setPinInputRaspi5, setPinOutputRaspi5, configPinPullRaspi5, Level, Set, Clr, Update

LEMMA NextAccess ==
  ASSUME IInv, Suffix, cycle \in Working, todo # <<>>, todo' = Tail(todo), board' = board
  PROVE  /\ Done \in 0 .. Steps - 1 /\ Steps \in Nat
         /\ ThisAccess = Program(cycle)[Done + 1]
         /\ cycle' = cycle => Steps' = Steps /\ Done' = Done + 1 /\ Suffix'
<1>1. Program(cycle) \in Seq(Accesses) /\ todo \in Seq(Accesses)
  BY ProgramsOwn DEF IInv, TypeOK, BoardOK, Working
<1>2. PICK P \in Seq(Accesses) : P = Program(cycle)
  BY <1>1
<1>3. PICK n \in Nat, l \in Nat :
        n = Len(todo) /\ l = Len(P) /\ n <= l /\ n # 0 /\ Len(todo') = n - 1
        /\ \A k \in 1 .. n - 1 : todo'[k] = todo[k + 1]
  BY <1>1, <1>2 DEF Suffix, Steps
<1>4. \A k \in 1 .. n : todo[k] = P[l - n + k]
  BY <1>2, <1>3 DEF Suffix, Steps, Done
<1>5. Done = l - n /\ Steps = l
  BY <1>2, <1>3 DEF Done, Steps
<1>6. ThisAccess = P[l - n + 1]
  <2>1. ThisAccess = todo[1]
    BY <1>1 DEF ThisAccess
  <2>2. 1 \in 1 .. n
    BY <1>3
  <2>3. QED
    BY <1>4, <2>1, <2>2
<1>7. ASSUME cycle' = cycle PROVE Steps' = Steps /\ Done' = Done + 1 /\ Suffix'
  <2>1. Program(cycle)' = P
    BY <1>2, <1>7, SameProgram
  <2>2. Steps' = l /\ Done' = l - (n - 1)
    BY <1>3, <2>1 DEF Steps, Done
  <2>3. \A k \in 1 .. n - 1 : todo'[k] = P[l - (n - 1) + k]
    <3>1. \A k \in 1 .. n - 1 : k + 1 \in 1 .. n /\ l - n + (k + 1) = l - (n - 1) + k
      BY <1>3
    <3>2. QED
      BY <1>3, <1>4, <3>1
  <2>4. Suffix'
    BY <1>3, <1>7, <2>1, <2>2, <2>3 DEF Suffix
  <2>5. QED
    BY <1>3, <1>5, <2>2, <2>4
<1>8. QED
  BY <1>2, <1>3, <1>5, <1>6, <1>7

-----------------------------------------------------------------------------
(* What an access does to a pin. *)

Mine == {clockPin, dataPin}

Same(p) ==
  /\ Driving(p)' <=> Driving(p)
  /\ Floating(p)' <=> Floating(p)
  /\ High(p)' <=> High(p)
  /\ Low(p)' <=> Low(p)
  /\ PulledDown(p)' <=> PulledDown(p)
  /\ PadOut(p)' <=> PadOut(p)
  /\ PadDown(p)' <=> PadDown(p)
  /\ Output(p, mem)' = Output(p, mem)

KeepMode(p) ==
  /\ Driving(p) => Driving(p)'
  /\ Floating(p) => Floating(p)'

KeepPull(p) == PulledDown(p) => PulledDown(p)'
KeepLow(p) == Low(p) => Low(p)'

(* The lines depend on the pin's own bits only.                                 *)
LEMMA SameSetting ==
  ASSUME BoardOK, board' = board, NEW p \in Mine, Setting(p, mem)' = Setting(p, mem)
  PROVE  Same(p)
<1>1. \A r, b : <<r, b>> \in PinBits(board, p) => (b \in mem'[r] <=> b \in mem[r])
  <2>1. SUFFICES ASSUME NEW r, NEW b, <<r, b>> \in PinBits(board, p)
                 PROVE  b \in mem'[r] <=> b \in mem[r]
    OBVIOUS
  <2>2. <<r, b>> \in Setting(p, mem) <=> b \in mem[r]
    BY <2>1 DEF Setting
  <2>3. <<r, b>> \in Setting(p, mem)' <=> b \in mem'[r]
    BY <2>1 DEF Setting
  <2>4. QED
    BY <2>2, <2>3
<1>2. CASE board = "raspi4"
  <2>1. /\ \A b \in GPFSELx(p) : b \in mem'[GPFSEL(p)] <=> b \in mem[GPFSEL(p)]
        /\ p % 32 \in mem'[GPSET(p)] <=> p % 32 \in mem[GPSET(p)]
        /\ \A b \in PullBits(p) : b \in mem'[Pull4(p)] <=> b \in mem[Pull4(p)]
    <3>1. {GPFSEL(p)} \X GPFSELx(p) \subseteq PinBits(board, p)
      BY <1>2, MyRegisters4 DEF Mine
    <3>2. <<GPSET(p), p % 32>> \in PinBits(board, p)
      BY <1>2, MyRegisters4 DEF Mine
    <3>3. {Pull4(p)} \X PullBits(p) \subseteq PinBits(board, p)
      BY <1>2, MyRegisters4 DEF Mine, PullBits
    <3>4. QED
      BY <1>1, <3>1, <3>2, <3>3
  <2>2. /\ GPFSELx(p) \cap mem'[GPFSEL(p)] = GPFSELx(p) \cap mem[GPFSEL(p)]
        /\ PullBits(p) \cap mem'[Pull4(p)] = PullBits(p) \cap mem[Pull4(p)]
    BY <2>1
  <2>3. QED
    BY <1>2, <2>1, <2>2 DEF Same, Driving, Floating, High, Low, PulledDown, PadOut, PadDown, Output,
                            Output4, PullBits
<1>3. CASE board = "raspi5"
  <2>1. /\ \A b \in Word : b \in mem'[Ctrl(p)] <=> b \in mem[Ctrl(p)]
        /\ \A b \in Word : b \in mem'[Pad(p)] <=> b \in mem[Pad(p)]
    <3>1. {Ctrl(p)} \X Word \subseteq PinBits(board, p) /\ {Pad(p)} \X Word \subseteq PinBits(board, p)
      BY <1>3, MyRegisters5 DEF Mine
    <3>2. QED
      BY <1>1, <3>1
  <2>2. /\ FUNCSEL \subseteq Word /\ OUTOVER \subseteq Word /\ OEOVER \subseteq Word
        /\ {2, 3} \subseteq Word /\ {6, 7} \subseteq Word /\ {12, 13} \subseteq Word
    BY DEF FUNCSEL, OUTOVER, OEOVER, Word
  <2>3. /\ FUNCSEL \subseteq mem'[Ctrl(p)] <=> FUNCSEL \subseteq mem[Ctrl(p)]
        /\ OEOVER \subseteq mem'[Ctrl(p)] <=> OEOVER \subseteq mem[Ctrl(p)]
        /\ OUTOVER \subseteq mem'[Ctrl(p)] <=> OUTOVER \subseteq mem[Ctrl(p)]
        /\ OEOVER \cup FUNCSEL \subseteq mem'[Ctrl(p)] <=> OEOVER \cup FUNCSEL \subseteq mem[Ctrl(p)]
        /\ {6, 7} \subseteq mem'[Pad(p)] <=> {6, 7} \subseteq mem[Pad(p)]
        /\ {2, 3} \cap mem'[Pad(p)] = {2, 3} \cap mem[Pad(p)]
    BY <2>1, <2>2
  <2>4. /\ 7 \in mem'[Pad(p)] <=> 7 \in mem[Pad(p)]
        /\ 3 \in mem'[Pad(p)] <=> 3 \in mem[Pad(p)]
        /\ 12 \in mem'[Ctrl(p)] <=> 12 \in mem[Ctrl(p)]
        /\ 13 \in mem'[Ctrl(p)] <=> 13 \in mem[Ctrl(p)]
    BY <2>1 DEF Word
  <2>5. QED
    BY <1>3, <2>3, <2>4 DEF Same, Driving, Floating, High, Low, PulledDown, PadOut, PadDown, Output,
                            Output5
<1>4. QED
  BY <1>2, <1>3 DEF BoardOK

(* The accesses to pin p.                                                       *)
PinAccesses(p) ==
  {Up(p), Down(p), Out(p), In(p), Pull(p)}
  \cup (IF board = "raspi4" THEN {GetFunction(p), GetPull(p)}
        ELSE {Hold(p), Blank(p), EnableOutput(p), Select(p), Unpull(p)})

LEMMA PinAccessOwn ==
  ASSUME BoardOK, NEW p \in Mine, NEW a \in PinAccesses(p)
  PROVE  /\ a.reg \in Registers(board) /\ a.mask \in SUBSET Word
         /\ {a.reg} \X a.mask \subseteq PinBits(board, p)
         /\ a.do \in {"load", "store", "set", "clr"}
         /\ a.do \in {"set", "clr"} => a.bits = a.mask
<1>1. CASE board = "raspi4"
  <2>1. p \in 0..53
    BY PinsTypes DEF Mine
  <2>2. /\ GPFSELx(p) \in SUBSET Word /\ {p % 32} \in SUBSET Word /\ PullBits(p) \in SUBSET Word
    BY <2>1, Mask4 DEF PullBits
  <2>3. /\ {GPFSEL(p)} \X GPFSELx(p) \subseteq PinBits(board, p)
        /\ {GPSET(p)} \X {p % 32} \subseteq PinBits(board, p)
        /\ {Pull4(p)} \X PullBits(p) \subseteq PinBits(board, p)
        /\ GPFSEL(p) \in Registers(board) /\ GPSET(p) \in Registers(board)
        /\ Pull4(p) \in Registers(board)
    BY <1>1, MyRegisters4 DEF Mine, PullBits
  <2>4. a \in {Up(p), Down(p), Out(p), In(p), Pull(p), GetFunction(p), GetPull(p)}
    BY <1>1 DEF PinAccesses
  <2>5. /\ a.do \in {"load", "store", "set", "clr"} /\ (a.do \in {"set", "clr"} => a.bits = a.mask)
        /\ \/ a.reg = GPFSEL(p) /\ a.mask = GPFSELx(p)
           \/ a.reg = GPSET(p) /\ a.mask = {p % 32}
           \/ a.reg = Pull4(p) /\ a.mask = PullBits(p)
    <3>1. CASE a \in {Up(p), Down(p)}
      BY <1>1, <3>1 DEF Up, Down, Access
    <3>2. CASE a \in {Out(p), In(p), Pull(p)}
      BY <1>1, <3>2 DEF Out, In, Pull, Access
    <3>3. CASE a \in {GetFunction(p), GetPull(p)}
      BY <3>3 DEF GetFunction, GetPull, Access
    <3>4. QED
      BY <2>4, <3>1, <3>2, <3>3
  <2>6. QED
    BY <2>2, <2>3, <2>5
<1>2. CASE board = "raspi5"
  <2>1. /\ {Ctrl(p)} \X Word \subseteq PinBits(board, p) /\ {Pad(p)} \X Word \subseteq PinBits(board, p)
        /\ Ctrl(p) \in Registers(board) /\ Pad(p) \in Registers(board)
    BY <1>2, MyRegisters5 DEF Mine
  <2>2. /\ a.do \in {"set", "clr"} /\ a.bits = a.mask /\ a.reg \in {Ctrl(p), Pad(p)}
        /\ a.mask \in {OUTOVER, {13}, OEOVER \cup FUNCSEL, {6, 7}, Function5, FUNCSEL, {2, 3}, {2}}
    <3>1. CASE a \in {Up(p), Down(p), Hold(p), Out(p), Blank(p), Select(p)}
      BY <1>2, <3>1 DEF Up, Down, Hold, Out, Blank, Select, Access
    <3>2. CASE a \in {In(p), Pull(p), EnableOutput(p), Unpull(p)}
      BY <1>2, <3>2 DEF In, Pull, EnableOutput, Unpull, Access
    <3>3. QED
      BY <1>2, <3>1, <3>2 DEF PinAccesses
  <2>3. \A m \in {OUTOVER, {13}, OEOVER \cup FUNCSEL, {6, 7}, Function5, FUNCSEL, {2, 3}, {2}} :
          m \subseteq Word
    BY DEF Word, Function5, FUNCSEL, OEOVER, OUTOVER, INOVER
  <2>4. QED
    BY <2>1, <2>2, <2>3
<1>3. QED
  BY <1>1, <1>2 DEF BoardOK

(* An access to one of the two pins leaves the other as it is.                  *)
LEMMA OtherPin ==
  ASSUME BoardOK, board' = board, mem \in [Registers(board) -> SUBSET Word],
         NEW p \in Mine, NEW q \in Mine, p # q,
         NEW a \in PinAccesses(p), mem' = After(a)
  PROVE  Same(q)
<1>1. PICK r \in Registers(board) : r = a.reg
  BY PinAccessOwn
<1>2. PICK mask \in SUBSET Word : mask = a.mask
  BY PinAccessOwn
<1>3. ({r} \X mask) \cap PinBits(board, q) = {}
  <2>1. {r} \X mask \subseteq PinBits(board, p)
    BY <1>1, <1>2, PinAccessOwn
  <2>2. PinBits(board, p) \cap PinBits(board, q) = {}
    BY Disjoint, PinsTypes DEF Mine, BoardOK
  <2>3. QED
    BY <2>1, <2>2
<1>4. PICK new : mem' = [mem EXCEPT ![r] = new] /\ \A b \in Word \ mask : b \in new <=> b \in mem[r]
  <2>1. a.do \in {"load", "store", "set", "clr"} /\ (a.do \in {"set", "clr"} => a.bits = mask)
    BY <1>2, PinAccessOwn
  <2>2. CASE a.do = "load"
    <3>1. mem' = [mem EXCEPT ![r] = mem[r]]
      BY <1>1, <2>2 DEF After
    <3>2. QED
      BY <3>1
  <2>3. CASE a.do = "store"
    <3>1. mem' = [mem EXCEPT ![r] = (mem[r] \ mask) \cup (a.bits \cap mask)]
      BY <1>1, <1>2, <2>3 DEF After
    <3>2. QED
      BY <3>1
  <2>4. CASE a.do = "set"
    <3>1. mem' = [mem EXCEPT ![r] = mem[r] \cup mask]
      BY <1>1, <2>1, <2>4 DEF After
    <3>2. QED
      BY <3>1
  <2>5. CASE a.do = "clr"
    <3>1. mem' = [mem EXCEPT ![r] = mem[r] \ mask]
      BY <1>1, <2>1, <2>5 DEF After
    <3>2. QED
      BY <3>1
  <2>6. QED
    BY <2>1, <2>2, <2>3, <2>4, <2>5
<1>5. Setting(q, mem') = Setting(q, mem)
  <2>1. q \in Pins
    BY PinsTypes DEF Mine
  <2>2. Setting(q, [mem EXCEPT ![r] = new]) = Setting(q, mem)
    BY <1>3, <1>4, <2>1, KeepPin
  <2>3. QED
    BY <1>4, <2>2
<1>6. Setting(q, mem)' = Setting(q, mem')
  BY DEF Setting
<1>7. QED
  BY <1>5, <1>6, SameSetting

LEMMA PinOutput ==
  ASSUME BoardOK, NEW p \in Mine
  PROVE  /\ Driving(p) /\ High(p) => Output(p, mem) = "high"
         /\ Driving(p) /\ Low(p) => Output(p, mem) = "low"
         /\ Driving(p) => Output(p, mem) \in {"low", "high"}
         /\ Floating(p) => Output(p, mem) = "free" /\ InputEnabled(p)
         /\ Output(p, mem) \in {"low", "high", "free", "undefined"}
<1>1. CASE board = "raspi4"
  <2>1. Shift({0}, 3 * (p % 10)) # {}
    BY DEF Shift
  <2>2. QED
    BY <1>1, <2>1 DEF Driving, Floating, High, Low, Output, Output4, InputEnabled
<1>2. CASE board = "raspi5"
  <2>1. Driving(p) => /\ 7 \notin mem[Pad(p)] /\ OEOVER \subseteq mem[Ctrl(p)]
                      /\ FUNCSEL \subseteq mem[Ctrl(p)]
    BY <1>2 DEF Driving
  <2>2. Low(p) => ~(OUTOVER \subseteq mem[Ctrl(p)])
    BY <1>2 DEF Low, OUTOVER
  <2>3. High(p) => OUTOVER \subseteq mem[Ctrl(p)]
    BY <1>2 DEF High
  <2>4. Floating(p) => 7 \in mem[Pad(p)] /\ 6 \in mem[Pad(p)]
    BY <1>2 DEF Floating
  <2>5. QED
    BY <1>2, <2>1, <2>2, <2>3, <2>4 DEF Output, Output5, InputEnabled
<1>3. QED
  BY <1>1, <1>2 DEF BoardOK

(* The effect of each access on its pin. *)

LEMMA Effects4 ==
  ASSUME board = "raspi4", board' = board, mem \in [Registers(board) -> SUBSET Word], NEW p \in Mine
  PROVE  /\ mem' = After(Up(p))   => High(p)' /\ KeepMode(p) /\ KeepPull(p)
         /\ mem' = After(Down(p)) => Low(p)' /\ KeepMode(p) /\ KeepPull(p)
         /\ mem' = After(Out(p))  => Driving(p)' /\ KeepLow(p) /\ KeepPull(p)
         /\ mem' = After(In(p))   => Floating(p)' /\ KeepLow(p) /\ KeepPull(p)
         /\ mem' = After(Pull(p)) => PulledDown(p)' /\ KeepMode(p) /\ KeepLow(p)
         /\ mem' = After(GetFunction(p)) => Same(p)
         /\ mem' = After(GetPull(p)) => Same(p)
<1>1. p \in 0..53 /\ BoardOK
  BY PinsTypes DEF Mine, BoardOK
<1>2. PICK f \in Registers(board), s \in Registers(board), u \in Registers(board) :
        /\ f = GPFSEL(p) /\ s = GPSET(p) /\ u = Pull4(p)
        /\ f # s /\ s # u /\ f # u
  <2>1. GPFSEL(p) \in 0..5 /\ GPSET(p) \in 7..8 /\ Pull4(p) \in 57..60
    BY <1>1 DEF GPFSEL, GPSET, Pull4
  <2>2. GPFSEL(p) \in Registers(board) /\ GPSET(p) \in Registers(board) /\ Pull4(p) \in Registers(board)
    BY MyRegisters4 DEF Mine
  <2>3. QED
    BY <2>1, <2>2
<1>3. /\ Shift({0}, 3 * (p % 10)) \subseteq GPFSELx(p)
      /\ Shift({1}, 2 * (p % 16)) \subseteq PullBits(p)
  BY <1>1 DEF Shift, GPFSELx, PullBits
<1>4. /\ Driving(p) <=> GPFSELx(p) \cap mem[f] = Shift({0}, 3 * (p % 10))
      /\ Floating(p) <=> GPFSELx(p) \cap mem[f] = {}
      /\ High(p) <=> p % 32 \in mem[s]
      /\ Low(p) <=> p % 32 \notin mem[s]
      /\ PulledDown(p) <=> PullBits(p) \cap mem[u] = Shift({1}, 2 * (p % 16))
  BY <1>2 DEF Driving, Floating, High, Low, PulledDown, PullBits
<1>5. /\ Driving(p)' <=> GPFSELx(p) \cap mem'[f] = Shift({0}, 3 * (p % 10))
      /\ Floating(p)' <=> GPFSELx(p) \cap mem'[f] = {}
      /\ High(p)' <=> p % 32 \in mem'[s]
      /\ Low(p)' <=> p % 32 \notin mem'[s]
      /\ PulledDown(p)' <=> PullBits(p) \cap mem'[u] = Shift({1}, 2 * (p % 16))
  BY <1>2 DEF Driving, Floating, High, Low, PulledDown, PullBits
<1>6. mem' = After(Up(p)) => High(p)' /\ KeepMode(p) /\ KeepPull(p)
  <2>1. mem' = After(Up(p)) => mem' = [mem EXCEPT ![s] = mem[s] \cup {p % 32}]
    BY <1>2 DEF After, Up, Access
  <2>2. QED
    BY <1>2, <1>4, <1>5, <2>1 DEF KeepMode, KeepPull
<1>7. mem' = After(Down(p)) => Low(p)' /\ KeepMode(p) /\ KeepPull(p)
  <2>1. mem' = After(Down(p)) => mem' = [mem EXCEPT ![s] = mem[s] \ {p % 32}]
    BY <1>2 DEF After, Down, Access
  <2>2. QED
    BY <1>2, <1>4, <1>5, <2>1 DEF KeepMode, KeepPull
<1>8. mem' = After(Out(p)) => Driving(p)' /\ KeepLow(p) /\ KeepPull(p)
  <2>1. mem' = After(Out(p)) =>
          mem' = [mem EXCEPT ![f] = (mem[f] \ GPFSELx(p)) \cup (Shift({0}, 3 * (p % 10)) \cap GPFSELx(p))]
    BY <1>2 DEF After, Out, Access
  <2>2. mem' = After(Out(p)) => /\ GPFSELx(p) \cap mem'[f] = Shift({0}, 3 * (p % 10))
                                /\ mem'[s] = mem[s] /\ mem'[u] = mem[u]
    BY <1>2, <1>3, <2>1
  <2>3. QED
    BY <1>4, <1>5, <2>2 DEF KeepLow, KeepPull
<1>9. mem' = After(In(p)) => Floating(p)' /\ KeepLow(p) /\ KeepPull(p)
  <2>1. mem' = After(In(p)) =>
          mem' = [mem EXCEPT ![f] = (mem[f] \ GPFSELx(p)) \cup ({} \cap GPFSELx(p))]
    BY <1>2 DEF After, In, Access
  <2>2. mem' = After(In(p)) => GPFSELx(p) \cap mem'[f] = {} /\ mem'[s] = mem[s] /\ mem'[u] = mem[u]
    BY <1>2, <2>1
  <2>3. QED
    BY <1>4, <1>5, <2>2 DEF KeepLow, KeepPull
<1>10. mem' = After(Pull(p)) => PulledDown(p)' /\ KeepMode(p) /\ KeepLow(p)
  <2>1. mem' = After(Pull(p)) =>
          mem' = [mem EXCEPT ![u] = (mem[u] \ PullBits(p)) \cup (Shift({1}, 2 * (p % 16)) \cap PullBits(p))]
    BY <1>2 DEF After, Pull, Access
  <2>2. mem' = After(Pull(p)) => /\ PullBits(p) \cap mem'[u] = Shift({1}, 2 * (p % 16))
                                 /\ mem'[s] = mem[s] /\ mem'[f] = mem[f]
    BY <1>2, <1>3, <2>1
  <2>3. QED
    BY <1>4, <1>5, <2>2 DEF KeepMode, KeepLow
<1>11. mem' = After(GetFunction(p)) \/ mem' = After(GetPull(p)) => Same(p)
  <2>1. mem' = After(GetFunction(p)) \/ mem' = After(GetPull(p)) => mem' = mem
    BY <1>2 DEF After, GetFunction, GetPull, Access
  <2>2. mem' = mem => Setting(p, mem)' = Setting(p, mem)
    BY DEF Setting
  <2>3. QED
    BY <1>1, <2>1, <2>2, SameSetting
<1>12. QED
  BY <1>6, <1>7, <1>8, <1>9, <1>10, <1>11

LEMMA Effects5 ==
  ASSUME board = "raspi5", board' = board, mem \in [Registers(board) -> SUBSET Word], NEW p \in Mine
  PROVE  /\ mem' = After(Up(p))     => High(p)' /\ KeepMode(p) /\ KeepPull(p)
         /\ mem' = After(Down(p))   => Low(p)' /\ KeepMode(p) /\ KeepPull(p)
         /\ mem' = After(Hold(p))   => KeepLow(p) /\ KeepMode(p) /\ KeepPull(p)
         /\ mem' = After(Blank(p))  => Low(p)' /\ KeepPull(p)
         /\ mem' = After(EnableOutput(p)) => PadOut(p)' /\ KeepLow(p) /\ KeepPull(p)
         /\ mem' = After(Out(p))    => (PadOut(p) => Driving(p)') /\ KeepLow(p) /\ KeepPull(p)
         /\ mem' = After(In(p))     => Floating(p)' /\ KeepLow(p) /\ KeepPull(p)
         /\ mem' = After(Select(p)) => KeepMode(p) /\ KeepLow(p) /\ KeepPull(p)
         /\ mem' = After(Unpull(p)) => PadDown(p)' /\ KeepMode(p) /\ KeepLow(p)
         /\ mem' = After(Pull(p))   => (PadDown(p) => PulledDown(p)') /\ KeepMode(p) /\ KeepLow(p)
<1>2. PICK c \in Registers(board), d \in Registers(board) : c = Ctrl(p) /\ d = Pad(p) /\ c # d
  <2>1. p \in 0..53
    BY PinsTypes DEF Mine
  <2>2. Ctrl(p) # Pad(p)
    BY <2>1 DEF Ctrl, Pad, PADS
  <2>3. QED
    BY <2>2, MyRegisters5 DEF Mine
<1>3. /\ OUTOVER \cap (OEOVER \cup FUNCSEL) = {} /\ 12 \in OUTOVER /\ 12 \notin {13}
      /\ {13} \cap (OEOVER \cup FUNCSEL) = {}
      /\ 12 \in Function5 /\ 12 \notin OEOVER \cup FUNCSEL /\ 12 \notin FUNCSEL
  BY DEF OUTOVER, OEOVER, FUNCSEL, Function5
<1>4. /\ Driving(p) <=> OEOVER \cup FUNCSEL \subseteq mem[c] /\ 7 \notin mem[d]
      /\ Floating(p) <=> {6, 7} \subseteq mem[d]
      /\ High(p) <=> OUTOVER \subseteq mem[c]
      /\ Low(p) <=> 12 \notin mem[c]
      /\ PulledDown(p) <=> {2, 3} \cap mem[d] = {2}
      /\ PadOut(p) <=> 7 \notin mem[d]
      /\ PadDown(p) <=> 3 \notin mem[d]
  BY <1>2 DEF Driving, Floating, High, Low, PulledDown, PadOut, PadDown
<1>5. /\ Driving(p)' <=> OEOVER \cup FUNCSEL \subseteq mem'[c] /\ 7 \notin mem'[d]
      /\ Floating(p)' <=> {6, 7} \subseteq mem'[d]
      /\ High(p)' <=> OUTOVER \subseteq mem'[c]
      /\ Low(p)' <=> 12 \notin mem'[c]
      /\ PulledDown(p)' <=> {2, 3} \cap mem'[d] = {2}
      /\ PadOut(p)' <=> 7 \notin mem'[d]
      /\ PadDown(p)' <=> 3 \notin mem'[d]
  BY <1>2 DEF Driving, Floating, High, Low, PulledDown, PadOut, PadDown
<1> DEFINE Sets(r, bits) == mem' = [mem EXCEPT ![r] = mem[r] \cup bits]
           Clears(r, bits) == mem' = [mem EXCEPT ![r] = mem[r] \ bits]
<1>6. /\ mem' = After(Up(p))     => Sets(c, OUTOVER)
      /\ mem' = After(Down(p))   => Clears(c, OUTOVER)
      /\ mem' = After(Hold(p))   => Sets(c, {13})
      /\ mem' = After(Blank(p))  => Clears(c, Function5)
      /\ mem' = After(EnableOutput(p)) => Clears(d, {6, 7})
      /\ mem' = After(Out(p))    => Sets(c, OEOVER \cup FUNCSEL)
      /\ mem' = After(In(p))     => Sets(d, {6, 7})
      /\ mem' = After(Select(p)) => Sets(c, FUNCSEL)
      /\ mem' = After(Unpull(p)) => Clears(d, {2, 3})
      /\ mem' = After(Pull(p))   => Sets(d, {2})
  BY <1>2 DEF After, Up, Down, Hold, Blank, EnableOutput, Out, In, Select, Unpull, Pull, Access
<1>7. \A bits : Sets(c, bits) => mem'[c] = mem[c] \cup bits /\ mem'[d] = mem[d]
  BY <1>2
<1>8. \A bits : Clears(c, bits) => mem'[c] = mem[c] \ bits /\ mem'[d] = mem[d]
  BY <1>2
<1>9. \A bits : Sets(d, bits) => mem'[d] = mem[d] \cup bits /\ mem'[c] = mem[c]
  BY <1>2
<1>10. \A bits : Clears(d, bits) => mem'[d] = mem[d] \ bits /\ mem'[c] = mem[c]
  BY <1>2
<1> HIDE DEF Sets, Clears
<1>11. Sets(c, OUTOVER) => High(p)' /\ KeepMode(p) /\ KeepPull(p)
  BY <1>4, <1>5, <1>7 DEF KeepMode, KeepPull
<1>12. Clears(c, OUTOVER) => Low(p)' /\ KeepMode(p) /\ KeepPull(p)
  BY <1>3, <1>4, <1>5, <1>8 DEF KeepMode, KeepPull
<1>13. Sets(c, {13}) => KeepLow(p) /\ KeepMode(p) /\ KeepPull(p)
  BY <1>3, <1>4, <1>5, <1>7 DEF KeepLow, KeepMode, KeepPull
<1>14. Clears(c, Function5) => Low(p)' /\ KeepPull(p)
  BY <1>3, <1>4, <1>5, <1>8 DEF KeepPull
<1>15. Clears(d, {6, 7}) => PadOut(p)' /\ KeepLow(p) /\ KeepPull(p)
  BY <1>4, <1>5, <1>10 DEF KeepLow, KeepPull
<1>16. Sets(c, OEOVER \cup FUNCSEL) => (PadOut(p) => Driving(p)') /\ KeepLow(p) /\ KeepPull(p)
  BY <1>3, <1>4, <1>5, <1>7 DEF KeepLow, KeepPull
<1>17. Sets(d, {6, 7}) => Floating(p)' /\ KeepLow(p) /\ KeepPull(p)
  BY <1>4, <1>5, <1>9 DEF KeepLow, KeepPull
<1>18. Sets(c, FUNCSEL) => KeepMode(p) /\ KeepLow(p) /\ KeepPull(p)
  BY <1>3, <1>4, <1>5, <1>7 DEF KeepMode, KeepLow, KeepPull
<1>19. Clears(d, {2, 3}) => PadDown(p)' /\ KeepMode(p) /\ KeepLow(p)
  BY <1>4, <1>5, <1>10 DEF KeepMode, KeepLow
<1>20. Sets(d, {2}) => (PadDown(p) => PulledDown(p)') /\ KeepMode(p) /\ KeepLow(p)
  BY <1>4, <1>5, <1>9 DEF KeepMode, KeepLow
<1>21. QED
  BY <1>6, <1>11, <1>12, <1>13, <1>14, <1>15, <1>16, <1>17, <1>18, <1>19, <1>20

(* What a pin that drives or is pulled down has in its pad.                     *)
LEMMA Pads ==
  ASSUME BoardOK, NEW p \in Mine
  PROVE  /\ Driving(p) => PadOut(p)
         /\ PulledDown(p) => PadDown(p)
BY DEF Driving, PadOut, PulledDown, PadDown

LEMMA PadsKept ==
  ASSUME BoardOK, board' = board, NEW p \in Mine
  PROVE  /\ Driving(p)' => PadOut(p)'
         /\ PulledDown(p)' => PadDown(p)'
BY DEF Driving, PadOut, PulledDown, PadDown

-----------------------------------------------------------------------------
(* One access as a step of the lines. *)

Clock == Output(clockPin, mem)
Data == Output(dataPin, mem)

LEMMA ActEdges ==
  ASSUME Acts
  PROVE  /\ mem' = After(ThisAccess) /\ UNCHANGED <<board, input, cycle, sample>>
         /\ cycle \notin Cycles \/ Clock' = Clock => UNCHANGED <<edges, drive>>
         /\ cycle \in Cycles /\ Clock' # Clock =>
              /\ edges' = edges + 1
              /\ Clock' = "high" => drive' \in IF cycle = "read" THEN {"low", "high", "none"} ELSE {"none"}
              /\ Clock' # "high" => UNCHANGED drive
<1> DEFINE m == After(ThisAccess)
<1>1. /\ Write(m) /\ mem' = m /\ UNCHANGED <<board, input, cycle, sample>>
  BY DEF Acts, Write
<1> HIDE DEF m
<1>2. Clock' = Output(clockPin, m)
  BY <1>1 DEF Clock, Output
<1>3. QED
  BY <1>1, <1>2 DEF Write, m, Clock

LEMMA Unspoilt ==
  ASSUME ~LostUpdate, ~LostUpdate'
  PROVE  LostUpdate' = LostUpdate
BY DEF LostUpdate

LEMMA SameCycles == Line!Cycles = Cycles
BY DEF Line!Cycles, Cycles

LEMMA StepRise ==
  ASSUME Acts, ~LostUpdate, ~LostUpdate', cycle \in Cycles, edges = 0,
         Clock = "low", Clock' = "high", Data' = Data
  PROVE  Line!Rise /\ edges' = 1
BY ActEdges, Unspoilt, SameCycles DEF Line!Rise, Clock, Data

LEMMA StepShift ==
  ASSUME Acts, ~LostUpdate, ~LostUpdate', cycle \in Cycles, cycle # "read",
         Clock = "high", Clock' = Clock
  PROVE  Line!Shift /\ edges' = edges
BY ActEdges, Unspoilt, SameCycles DEF Line!Shift, Clock, Data

LEMMA StepFall ==
  ASSUME Acts, ~LostUpdate, ~LostUpdate', cycle \in Cycles, edges = 1,
         Clock = "high", Clock' = "low", Data' = Data, Data = Line!Meant(cycle)
  PROVE  Line!Fall /\ edges' = 2
BY ActEdges, Unspoilt, SameCycles DEF Line!Fall, Clock, Data

LEMMA StepHold ==
  ASSUME Acts, ~LostUpdate, ~LostUpdate', Clock' = Clock, Data' = Data
  PROVE  UNCHANGED Line!vars /\ edges' = edges
BY ActEdges, Unspoilt DEF Line!vars, Clock, Data

LEMMA StepSetUp ==
  ASSUME Acts, ~LostUpdate, ~LostUpdate', cycle = "init", edges = 0
  PROVE  Line!SetUp /\ edges' = 0
BY ActEdges, Unspoilt DEF Line!SetUp, Cycles

LEMMA StepIdle ==
  ASSUME Acts, ~LostUpdate, ~LostUpdate', cycle = "cleanup", Clock' = "low", Data' \in {Data, "low"}
  PROVE  Line!Idle
BY ActEdges, Unspoilt DEF Line!Idle, Clock, Data, Cycles

-----------------------------------------------------------------------------
(* The cycles, access by access. *)

Now ==
  /\ IInv /\ Suffix /\ LInv /\ ~LostUpdate /\ ~LostUpdate'
  /\ Acts /\ cycle \in Working

LEMMA Moment ==
  ASSUME Now
  PROVE  /\ BoardOK /\ mem \in [Registers(board) -> SUBSET Word]
         /\ board' = board /\ cycle' = cycle /\ input' = input
         /\ clockPin \in Mine /\ dataPin \in Mine /\ clockPin # dataPin
         /\ Done \in 0 .. Steps - 1 /\ Steps \in Nat
         /\ ThisAccess = Program(cycle)[Done + 1] /\ mem' = After(ThisAccess)
         /\ Done' = Done + 1 /\ Suffix'
         /\ Clocked /\ Carried /\ Prepared4 /\ Prepared5 /\ Between /\ Unread
<1>1. BoardOK /\ mem \in [Registers(board) -> SUBSET Word]
  BY DEF Now, IInv, TypeOK, BoardOK, Word
<1>2. clockPin \in Mine /\ dataPin \in Mine /\ clockPin # dataPin
  BY PinsAssumption DEF Mine
<1>3. mem' = After(ThisAccess) /\ UNCHANGED <<board, input, cycle, sample>>
  BY ActEdges DEF Now
<1>4. todo # <<>> /\ todo' = Tail(todo)
  BY DEF Now, Acts
<1>5. /\ Done \in 0 .. Steps - 1 /\ Steps \in Nat /\ ThisAccess = Program(cycle)[Done + 1]
      /\ Done' = Done + 1 /\ Suffix'
  BY <1>3, <1>4, NextAccess DEF Now
<1>6. Clocked /\ Carried /\ Prepared4 /\ Prepared5 /\ Between /\ Unread
  BY DEF Now, LInv
<1>7. QED
  BY <1>1, <1>2, <1>3, <1>5, <1>6

LEMMA Lengths ==
  ASSUME BoardOK, cycle \in Cycles
  PROVE  /\ board = "raspi4" => Steps = IF cycle = "read" THEN 3 ELSE Falls
         /\ board = "raspi5" => Steps = IF cycle = "read" THEN 4 ELSE Falls + 1
         /\ Falls \in 2..7 /\ (Falls = 2 <=> cycle = "read")
BY Programs4, Programs5 DEF Steps, Falls, Cycles, BoardOK

(* The clock goes up first, and comes down at the access that Falls counts.     *)
LEMMA ClockAccess ==
  ASSUME Now, cycle \in Cycles
  PROVE  /\ Done = 0 => ThisAccess = Up(clockPin)
         /\ Done = Falls - 1 => ThisAccess = Down(clockPin)
         /\ Done >= Falls => board = "raspi5" /\ Done = Falls /\ ThisAccess = Hold(clockPin)
<1>1. ThisAccess.do # "level" /\ \A p : Look(p).do = "level"
  BY DEF Now, Acts, Look, Access
<1>2. CASE board = "raspi4"
  BY <1>1, <1>2, Moment, Lengths, Programs4 DEF Falls, Cycles
<1>3. CASE board = "raspi5"
  BY <1>1, <1>3, Moment, Lengths, Programs5 DEF Falls, Cycles
<1>4. QED
  BY <1>2, <1>3, Moment DEF BoardOK

(* Inside a cycle nothing but the pins and the counters changes.                *)
LEMMA Inside ==
  ASSUME Now, cycle \in Cycles
  PROVE  /\ Falls' = Falls
         /\ Prepared4' /\ Prepared5' /\ Between'
<1>1. cycle' = cycle /\ board' = board
  BY Moment
<1>2. cycle \notin {"init", "none", "closed", "cleanup"}
  BY DEF Cycles
<1>3. QED
  BY <1>1, <1>2 DEF Falls, Prepared4, Prepared5, Between

LEMMA ClockEffects ==
  ASSUME Now
  PROVE  /\ ThisAccess = Up(clockPin) => High(clockPin)' /\ KeepMode(clockPin) /\ Same(dataPin)
         /\ ThisAccess = Down(clockPin) => Low(clockPin)' /\ KeepMode(clockPin) /\ Same(dataPin)
         /\ board = "raspi5" /\ ThisAccess = Hold(clockPin) =>
              KeepLow(clockPin) /\ KeepMode(clockPin) /\ Same(dataPin)
<1>1. ThisAccess \in PinAccesses(clockPin) => Same(dataPin)
  BY Moment, OtherPin
<1>2. /\ Up(clockPin) \in PinAccesses(clockPin) /\ Down(clockPin) \in PinAccesses(clockPin)
      /\ board = "raspi5" => Hold(clockPin) \in PinAccesses(clockPin)
  BY DEF PinAccesses
<1>3. CASE board = "raspi4"
  BY <1>1, <1>2, <1>3, Moment, Effects4
<1>4. CASE board = "raspi5"
  BY <1>1, <1>2, <1>4, Moment, Effects5
<1>5. QED
  BY <1>3, <1>4, Moment DEF BoardOK

(* An access to the data pin does nothing to the clock.                         *)
LEMMA DataEffects ==
  ASSUME Now, ThisAccess \in PinAccesses(dataPin)
  PROVE  Same(clockPin)
BY Moment, OtherPin

LevelsRight ==
  BoardOK => \A p \in Mine :
    /\ Driving(p) /\ High(p) => Output(p, mem) = "high"
    /\ Driving(p) /\ Low(p) => Output(p, mem) = "low"
    /\ Driving(p) => Output(p, mem) \in {"low", "high"}
    /\ Floating(p) => Output(p, mem) = "free" /\ InputEnabled(p)

LEMMA Levels == LevelsRight
BY PinOutput DEF LevelsRight

LEMMA ClockLevels ==
  ASSUME Now
  PROVE  /\ Driving(clockPin) /\ High(clockPin) => Clock = "high"
         /\ Driving(clockPin) /\ Low(clockPin) => Clock = "low"
         /\ Driving(clockPin)' /\ High(clockPin)' => Clock' = "high"
         /\ Driving(clockPin)' /\ Low(clockPin)' => Clock' = "low"
<1>1. BoardOK /\ BoardOK' /\ clockPin \in Mine
  BY Moment DEF BoardOK
<1>2. LevelsRight /\ LevelsRight'
  BY Levels, PTL
<1>3. QED
  BY <1>1, <1>2 DEF Clock, LevelsRight, Mine

LEMMA StepUp ==
  ASSUME Now, cycle \in Cycles, Done = 0
  PROVE  Line!Rise /\ Clocked' /\ Carried'
<1>1. ThisAccess = Up(clockPin)
  BY ClockAccess
<1>2. High(clockPin)' /\ KeepMode(clockPin) /\ Same(dataPin)
  BY <1>1, ClockEffects
<1>3. /\ Driving(clockPin) /\ PulledDown(dataPin) /\ Low(clockPin) /\ edges = 0
      /\ Driving(clockPin)' /\ PulledDown(dataPin)'
  BY <1>2, Moment DEF Clocked, KeepMode, Same
<1>4. Clock = "low" /\ Clock' = "high" /\ Data' = Data
  BY <1>2, <1>3, ClockLevels DEF Same, Data
<1>5. Line!Rise /\ edges' = 1
  BY <1>3, <1>4, StepRise DEF Now
<1>6. Done' = 1 /\ Falls' = Falls /\ Falls \in 2..7 /\ cycle' = cycle /\ input' = input
  BY Moment, Inside, Lengths
<1>7. Clocked'
  BY <1>2, <1>3, <1>5, <1>6 DEF Clocked
<1>8. Carried'
  BY <1>2, <1>6, Moment DEF Carried, Same
<1>9. QED
  BY <1>5, <1>7, <1>8

LEMMA DataMeant ==
  ASSUME Now, cycle \in Cycles, Done >= Falls - 1
  PROVE  Data = Line!Meant(cycle)
<1>1. /\ cycle \in {"read", "turn2read"} => Floating(dataPin)
      /\ cycle \in {"write0", "turn2write"} => Driving(dataPin) /\ Low(dataPin)
      /\ cycle = "write1" => Driving(dataPin) /\ High(dataPin)
  BY Moment DEF Carried, Falls, BoardOK
<1>2. BoardOK /\ dataPin \in Mine
  BY Moment
<1>3. /\ Driving(dataPin) /\ High(dataPin) => Data = "high"
      /\ Driving(dataPin) /\ Low(dataPin) => Data = "low"
      /\ Floating(dataPin) => Data = "free"
  BY <1>2, PinOutput DEF Data
<1>4. QED
  BY <1>1, <1>3 DEF Line!Meant, Cycles

LEMMA StepDown ==
  ASSUME Now, cycle \in Cycles, Done = Falls - 1
  PROVE  Line!Fall /\ Clocked' /\ Carried'
<1>0. Falls \in 2..7 /\ Falls' = Falls /\ Done' = Falls /\ cycle' = cycle /\ input' = input /\ board' = board
  BY Moment, Inside, Lengths
<1>1. ThisAccess = Down(clockPin)
  BY ClockAccess
<1>2. Low(clockPin)' /\ KeepMode(clockPin) /\ Same(dataPin)
  BY <1>1, ClockEffects
<1>3. /\ Driving(clockPin) /\ PulledDown(dataPin) /\ High(clockPin) /\ edges = 1
      /\ Driving(clockPin)' /\ PulledDown(dataPin)'
  BY <1>0, <1>2, Moment DEF Clocked, KeepMode, Same
<1>4. Clock = "high" /\ Clock' = "low" /\ Data' = Data
  BY <1>2, <1>3, ClockLevels DEF Same, Data
<1>5. Data = Line!Meant(cycle)
  BY <1>0, DataMeant
<1>6. Line!Fall /\ edges' = 2
  BY <1>3, <1>4, <1>5, StepFall DEF Now
<1>7. Clocked'
  BY <1>0, <1>2, <1>3, <1>6 DEF Clocked
<1>8. Carried'
  <2>1. Carried /\ BoardOK /\ Done \in Nat
    BY Moment
  <2>2. CASE board = "raspi4"
    <3>1. PadOut(dataPin)'
      BY <1>0, <2>2 DEF PadOut
    <3>2. QED
      BY <1>0, <1>2, <2>1, <2>2, <3>1 DEF Carried, Same, Falls
  <2>3. CASE board = "raspi5"
    BY <1>0, <1>2, <2>1, <2>3 DEF Carried, Same, Falls
  <2>4. QED
    BY <2>1, <2>2, <2>3 DEF BoardOK
<1>9. QED
  BY <1>6, <1>7, <1>8

(* On a Pi 5, one more bit of the clock pin is set at the end.                  *)
LEMMA StepAfter ==
  ASSUME Now, cycle \in Cycles, Done >= Falls
  PROVE  UNCHANGED Line!vars /\ Clocked' /\ Carried'
<1>0. /\ Falls \in 2..7 /\ Falls' = Falls /\ Done' = Falls + 1 /\ Done = Falls
      /\ cycle' = cycle /\ input' = input /\ board' = board
  BY Moment, Inside, Lengths, ClockAccess
<1>1. board = "raspi5" /\ ThisAccess = Hold(clockPin)
  BY ClockAccess
<1>2. KeepLow(clockPin) /\ KeepMode(clockPin) /\ Same(dataPin)
  BY <1>1, ClockEffects
<1>3. /\ Driving(clockPin) /\ PulledDown(dataPin) /\ Low(clockPin) /\ edges = 2
      /\ Driving(clockPin)' /\ PulledDown(dataPin)' /\ Low(clockPin)'
  BY <1>0, <1>2, Moment DEF Clocked, KeepMode, KeepLow, Same
<1>4. Clock' = Clock /\ Data' = Data
  BY <1>2, <1>3, ClockLevels DEF Same, Data
<1>5. UNCHANGED Line!vars /\ edges' = 2
  BY <1>3, <1>4, StepHold DEF Now
<1>6. Clocked'
  BY <1>0, <1>3, <1>5 DEF Clocked
<1>7. Carried'
  BY <1>0, <1>1, <1>2, Moment DEF Carried, Same, Falls
<1>8. QED
  BY <1>5, <1>6, <1>7

(* The accesses in between are to the data pin, and bring about what the cycle   *)
(* is to carry.                                                                 *)
LEMMA DataAccess4 ==
  ASSUME Now, cycle \in Cycles, Done \in 1 .. Falls - 2, board = "raspi4"
  PROVE  /\ ThisAccess \in PinAccesses(dataPin) /\ cycle # "read"
         /\ Done = 1 => ThisAccess = IF cycle = "write1" THEN Up(dataPin) ELSE Down(dataPin)
         /\ Done >= 2 => cycle \in {"turn2read", "turn2write"} /\ Done \in 2..3
         /\ Done = 2 => ThisAccess = GetFunction(dataPin)
         /\ Done = 3 => ThisAccess = IF cycle = "turn2read" THEN In(dataPin) ELSE Out(dataPin)
<1>1. /\ Done = 1 => ThisAccess = IF cycle = "write1" THEN Up(dataPin) ELSE Down(dataPin)
      /\ Done >= 2 => cycle \in {"turn2read", "turn2write"} /\ Done \in 2..3
      /\ Done = 2 => ThisAccess = GetFunction(dataPin)
      /\ Done = 3 => ThisAccess = IF cycle = "turn2read" THEN In(dataPin) ELSE Out(dataPin)
      /\ cycle # "read" /\ (Done = 1 \/ Done >= 2)
  BY Moment, Lengths, Programs4 DEF Falls, Cycles
<1>2. QED
  BY <1>1 DEF PinAccesses

LEMMA DataAccess5 ==
  ASSUME Now, cycle \in Cycles, Done \in 1 .. Falls - 2, board = "raspi5"
  PROVE  /\ ThisAccess \in PinAccesses(dataPin) /\ cycle # "read"
         /\ Done = 1 => ThisAccess = IF cycle = "write1" THEN Up(dataPin) ELSE Down(dataPin)
         /\ Done >= 2 => cycle # "write1" /\ Done \in 2..5
         /\ Done = 2 => ThisAccess = Hold(dataPin)
         /\ Done >= 3 => cycle \in {"turn2read", "turn2write"}
         /\ Done = 3 => ThisAccess = Blank(dataPin)
         /\ Done = 4 => ThisAccess = IF cycle = "turn2read" THEN In(dataPin) ELSE EnableOutput(dataPin)
         /\ Done = 5 => ThisAccess = IF cycle = "turn2read" THEN Select(dataPin) ELSE Out(dataPin)
<1>1. /\ Done = 1 => ThisAccess = IF cycle = "write1" THEN Up(dataPin) ELSE Down(dataPin)
      /\ Done >= 2 => cycle # "write1" /\ Done \in 2..5
      /\ Done = 2 => ThisAccess = Hold(dataPin)
      /\ Done >= 3 => cycle \in {"turn2read", "turn2write"}
      /\ Done = 3 => ThisAccess = Blank(dataPin)
      /\ Done = 4 => ThisAccess = IF cycle = "turn2read" THEN In(dataPin) ELSE EnableOutput(dataPin)
      /\ Done = 5 => ThisAccess = IF cycle = "turn2read" THEN Select(dataPin) ELSE Out(dataPin)
      /\ cycle # "read" /\ (Done = 1 \/ Done \in 2..5)
  BY Moment, Lengths, Programs5 DEF Falls, Cycles
<1>2. QED
  BY <1>1 DEF PinAccesses

LEMMA DataCarried4 ==
  ASSUME Now, cycle \in Cycles, Done \in 1 .. Falls - 2, board = "raspi4"
  PROVE  Carried' /\ KeepPull(dataPin)
<1>0. /\ cycle' = cycle /\ input' = input /\ board' = board /\ Done' = Done + 1
      /\ Carried /\ mem \in [Registers(board) -> SUBSET Word] /\ dataPin \in Mine
      /\ mem' = After(ThisAccess)
  BY Moment
<1>1. CASE Done = 1
  <2>1. cycle \in {"write0", "write1", "turn2read", "turn2write"}
    BY DataAccess4 DEF Cycles
  <2>2. /\ cycle = "write1" => High(dataPin)' /\ KeepMode(dataPin)
        /\ cycle # "write1" => Low(dataPin)' /\ KeepMode(dataPin)
        /\ KeepPull(dataPin)
    BY <1>0, <1>1, DataAccess4, Effects4
  <2>3. Carried'
    BY <1>0, <1>1, <2>1, <2>2 DEF Carried, KeepMode
  <2>4. QED
    BY <2>2, <2>3
<1>2. CASE Done = 2
  <2>1. cycle \in {"turn2read", "turn2write"} /\ Same(dataPin)
    BY <1>0, <1>2, DataAccess4, Effects4
  <2>2. Carried'
    BY <1>0, <1>2, <2>1 DEF Carried, Same
  <2>3. QED
    BY <2>1, <2>2 DEF Same, KeepPull
<1>3. CASE Done = 3
  <2>1. /\ cycle \in {"turn2read", "turn2write"}
        /\ cycle = "turn2read" => Floating(dataPin)'
        /\ cycle = "turn2write" => Driving(dataPin)'
        /\ KeepLow(dataPin) /\ KeepPull(dataPin)
    BY <1>0, <1>3, DataAccess4, Effects4
  <2>2. Carried'
    BY <1>0, <1>3, <2>1 DEF Carried, KeepLow
  <2>3. QED
    BY <2>1, <2>2
<1>4. QED
  BY <1>1, <1>2, <1>3, DataAccess4, Lengths, Moment DEF BoardOK

LEMMA DataCarried5 ==
  ASSUME Now, cycle \in Cycles, Done \in 1 .. Falls - 2, board = "raspi5"
  PROVE  Carried' /\ KeepPull(dataPin)
<1>0. /\ cycle' = cycle /\ input' = input /\ board' = board /\ Done' = Done + 1
      /\ Carried /\ mem \in [Registers(board) -> SUBSET Word] /\ dataPin \in Mine
      /\ mem' = After(ThisAccess)
  BY Moment
<1>1. CASE Done = 1
  <2>1. cycle \in {"write0", "write1", "turn2read", "turn2write"}
    BY DataAccess5 DEF Cycles
  <2>2. /\ cycle = "write1" => High(dataPin)' /\ KeepMode(dataPin)
        /\ cycle # "write1" => Low(dataPin)' /\ KeepMode(dataPin)
        /\ KeepPull(dataPin)
    BY <1>0, <1>1, DataAccess5, Effects5
  <2>3. Carried'
    BY <1>0, <1>1, <2>1, <2>2 DEF Carried, KeepMode
  <2>4. QED
    BY <2>2, <2>3
<1>2. CASE Done = 2
  <2>1. /\ cycle \in {"write0", "turn2read", "turn2write"}
        /\ KeepLow(dataPin) /\ KeepMode(dataPin) /\ KeepPull(dataPin)
    BY <1>0, <1>2, DataAccess5, Effects5 DEF Cycles
  <2>2. Carried'
    BY <1>0, <1>2, <2>1 DEF Carried, KeepLow, KeepMode
  <2>3. QED
    BY <2>1, <2>2
<1>3. CASE Done = 3
  <2>1. cycle \in {"turn2read", "turn2write"} /\ Low(dataPin)' /\ KeepPull(dataPin)
    BY <1>0, <1>3, DataAccess5, Effects5
  <2>2. Carried'
    BY <1>0, <1>3, <2>1 DEF Carried
  <2>3. QED
    BY <2>1, <2>2
<1>4. CASE Done = 4
  <2>1. /\ cycle \in {"turn2read", "turn2write"}
        /\ cycle = "turn2read" => Floating(dataPin)'
        /\ cycle = "turn2write" => PadOut(dataPin)'
        /\ KeepLow(dataPin) /\ KeepPull(dataPin)
    BY <1>0, <1>4, DataAccess5, Effects5
  <2>2. Carried'
    BY <1>0, <1>4, <2>1 DEF Carried, KeepLow
  <2>3. QED
    BY <2>1, <2>2
<1>5. CASE Done = 5
  <2>1. /\ cycle \in {"turn2read", "turn2write"}
        /\ cycle = "turn2read" => KeepMode(dataPin)
        /\ cycle = "turn2write" => (PadOut(dataPin) => Driving(dataPin)')
        /\ KeepLow(dataPin) /\ KeepPull(dataPin)
    BY <1>0, <1>5, DataAccess5, Effects5
  <2>2. cycle = "turn2write" => Driving(dataPin)'
    BY <1>0, <1>5, <2>1 DEF Carried
  <2>3. cycle = "turn2write" => PadOut(dataPin)'
    BY <1>0, <2>2, PadsKept, Moment
  <2>4. Carried'
    BY <1>0, <1>5, <2>1, <2>2, <2>3 DEF Carried, KeepLow, KeepMode
  <2>5. QED
    BY <2>1, <2>4
<1>6. QED
  BY <1>1, <1>2, <1>3, <1>4, <1>5, DataAccess5, Lengths, Moment DEF BoardOK

LEMMA StepData ==
  ASSUME Now, cycle \in Cycles, Done \in 1 .. Falls - 2
  PROVE  Line!Shift /\ Clocked' /\ Carried'
<1>0. /\ Falls \in 2..7 /\ Falls' = Falls /\ Done' = Done + 1
      /\ cycle' = cycle /\ input' = input /\ board' = board /\ BoardOK
  BY Moment, Inside, Lengths
<1>1. ThisAccess \in PinAccesses(dataPin) /\ cycle # "read" /\ Carried' /\ KeepPull(dataPin)
  BY <1>0, DataAccess4, DataAccess5, DataCarried4, DataCarried5 DEF BoardOK
<1>2. Same(clockPin)
  BY <1>1, DataEffects
<1>3. /\ Driving(clockPin) /\ PulledDown(dataPin) /\ High(clockPin) /\ edges = 1
      /\ Driving(clockPin)' /\ PulledDown(dataPin)' /\ High(clockPin)'
  BY <1>0, <1>1, <1>2, Moment DEF Clocked, KeepPull, Same
<1>4. Clock = "high" /\ Clock' = Clock
  BY <1>3, ClockLevels
<1>5. Line!Shift /\ edges' = 1
  BY <1>1, <1>3, <1>4, StepShift DEF Now
<1>6. Clocked'
  BY <1>0, <1>3, <1>5 DEF Clocked
<1>7. QED
  BY <1>1, <1>5, <1>6

(* Every access of a cycle is one step of the lines, or none.                   *)
LEMMA CycleStep ==
  ASSUME Now, cycle \in Cycles
  PROVE  [Line!Next]_(Line!vars) /\ LInv' /\ Suffix'
<1>1. Clocked' /\ Carried' /\ (Line!Rise \/ Line!Shift \/ Line!Fall \/ UNCHANGED Line!vars)
  <2>1. Done = 0 \/ Done \in 1 .. Falls - 2 \/ Done = Falls - 1 \/ Done >= Falls
    BY Moment, Lengths
  <2>2. QED
    BY <2>1, StepUp, StepData, StepDown, StepAfter
<1>2. Prepared4' /\ Prepared5' /\ Between' /\ Suffix'
  BY Inside, Moment
<1>3. Unread'
  <2>1. SUFFICES ASSUME cycle = "read" PROVE Done' < Steps'
    BY Moment DEF Unread, Done, Steps, Suffix
  <2>2. ThisAccess # Look(dataPin)
    BY DEF Now, Acts, Look, Access
  <2>3. Program("read")[Steps] = Look(dataPin)
    BY <2>1, Moment, Programs4, Programs5 DEF Steps, BoardOK
  <2>4. Done + 1 # Steps
    BY <2>1, <2>2, <2>3, Moment
  <2>5. Steps' = Steps
    BY <2>1, Moment, SameProgram DEF Steps, Working, Cycles
  <2>6. QED
    BY <2>4, <2>5, Moment
<1>4. QED
  BY <1>1, <1>2, <1>3 DEF LInv, Line!Next

-----------------------------------------------------------------------------
(* The functions that set the pins up and let them idle. *)

LEMMA SetUp4 ==
  ASSUME Now, cycle = "init", board = "raspi4"
  PROVE  Prepared4'
<1>0. /\ cycle' = cycle /\ board' = board /\ Done' = Done + 1 /\ Done \in 0..9
      /\ ThisAccess = Program("init")[Done + 1] /\ mem' = After(ThisAccess)
      /\ mem \in [Registers(board) -> SUBSET Word] /\ BoardOK
      /\ clockPin \in Mine /\ dataPin \in Mine /\ clockPin # dataPin
  <2>1. Steps = 10
    BY Programs4 DEF Steps
  <2>2. QED
    BY <2>1, Moment
<1>1. Prepared4 <=>
        /\ Done >= 4 => PulledDown(dataPin)
        /\ Done >= 6 => Driving(clockPin)
        /\ Done >= 8 => Driving(dataPin)
        /\ Done >= 9 => Low(clockPin)
        /\ Done >= 10 => Low(dataPin)
  BY DEF Now, Prepared4
<1>2. Prepared4' <=>
        /\ Done + 1 >= 4 => PulledDown(dataPin)'
        /\ Done + 1 >= 6 => Driving(clockPin)'
        /\ Done + 1 >= 8 => Driving(dataPin)'
        /\ Done + 1 >= 9 => Low(clockPin)'
        /\ Done + 1 >= 10 => Low(dataPin)'
  BY <1>0 DEF Now, Prepared4
<1>3. Prepared4
  BY Moment
<1>4. /\ ThisAccess \in PinAccesses(clockPin) => Same(dataPin)
      /\ ThisAccess \in PinAccesses(dataPin) => Same(clockPin)
  BY <1>0, OtherPin
<1>5. CASE Done \in 0..2
  BY <1>2, <1>5
<1>6. CASE Done = 3
  <2>1. ThisAccess = Pull(dataPin)
    BY <1>0, <1>6, Programs4
  <2>2. PulledDown(dataPin)'
    BY <1>0, <2>1, Effects4
  <2>3. QED
    BY <1>2, <1>6, <2>2
<1>7. CASE Done = 4
  <2>1. ThisAccess = GetFunction(clockPin)
    BY <1>0, <1>7, Programs4
  <2>2. Same(dataPin)
    BY <1>4, <2>1 DEF PinAccesses
  <2>3. QED
    BY <1>1, <1>2, <1>3, <1>7, <2>2 DEF Same
<1>8. CASE Done = 5
  <2>1. ThisAccess = Out(clockPin)
    BY <1>0, <1>8, Programs4
  <2>2. Same(dataPin) /\ Driving(clockPin)'
    BY <1>0, <1>4, <2>1, Effects4 DEF PinAccesses
  <2>3. QED
    BY <1>1, <1>2, <1>3, <1>8, <2>2 DEF Same
<1>9. CASE Done = 6
  <2>1. ThisAccess = GetFunction(dataPin)
    BY <1>0, <1>9, Programs4
  <2>2. Same(clockPin) /\ Same(dataPin)
    BY <1>0, <1>4, <2>1, Effects4 DEF PinAccesses
  <2>3. QED
    BY <1>1, <1>2, <1>3, <1>9, <2>2 DEF Same
<1>10. CASE Done = 7
  <2>1. ThisAccess = Out(dataPin)
    BY <1>0, <1>10, Programs4
  <2>2. Same(clockPin) /\ Driving(dataPin)' /\ KeepPull(dataPin)
    BY <1>0, <1>4, <2>1, Effects4 DEF PinAccesses
  <2>3. QED
    BY <1>1, <1>2, <1>3, <1>10, <2>2 DEF Same, KeepPull
<1>11. CASE Done = 8
  <2>1. ThisAccess = Down(clockPin)
    BY <1>0, <1>11, Programs4
  <2>2. Same(dataPin) /\ Low(clockPin)' /\ KeepMode(clockPin)
    BY <1>0, <1>4, <2>1, Effects4 DEF PinAccesses
  <2>3. QED
    BY <1>1, <1>2, <1>3, <1>11, <2>2 DEF Same, KeepMode
<1>12. CASE Done = 9
  <2>1. ThisAccess = Down(dataPin)
    BY <1>0, <1>12, Programs4
  <2>2. Same(clockPin) /\ Low(dataPin)' /\ KeepMode(dataPin) /\ KeepPull(dataPin)
    BY <1>0, <1>4, <2>1, Effects4 DEF PinAccesses
  <2>3. QED
    BY <1>1, <1>2, <1>3, <1>12, <2>2 DEF Same, KeepMode, KeepPull
<1>13. QED
  BY <1>0, <1>5, <1>6, <1>7, <1>8, <1>9, <1>10, <1>11, <1>12

LEMMA SetUp5 ==
  ASSUME Now, cycle = "init", board = "raspi5"
  PROVE  Prepared5'
<1>0. /\ cycle' = cycle /\ board' = board /\ Done' = Done + 1 /\ Done \in 0..13
      /\ ThisAccess = Program("init")[Done + 1] /\ mem' = After(ThisAccess)
      /\ mem \in [Registers(board) -> SUBSET Word] /\ BoardOK
      /\ clockPin \in Mine /\ dataPin \in Mine /\ clockPin # dataPin
  <2>1. Steps = 14
    BY Programs5 DEF Steps
  <2>2. QED
    BY <2>1, Moment
<1>1. Prepared5 <=>
        /\ Done >= 3 => PadDown(dataPin)
        /\ Done >= 4 => PulledDown(dataPin)
        /\ Done >= 6 => PadOut(clockPin)
        /\ Done >= 7 => Driving(clockPin)
        /\ Done >= 9 => PadOut(dataPin)
        /\ Done >= 10 => Driving(dataPin)
        /\ Done >= 11 => Low(clockPin)
        /\ Done >= 13 => Low(dataPin)
  BY DEF Now, Prepared5
<1>2. Prepared5' <=>
        /\ Done + 1 >= 3 => PadDown(dataPin)'
        /\ Done + 1 >= 4 => PulledDown(dataPin)'
        /\ Done + 1 >= 6 => PadOut(clockPin)'
        /\ Done + 1 >= 7 => Driving(clockPin)'
        /\ Done + 1 >= 9 => PadOut(dataPin)'
        /\ Done + 1 >= 10 => Driving(dataPin)'
        /\ Done + 1 >= 11 => Low(clockPin)'
        /\ Done + 1 >= 13 => Low(dataPin)'
  BY <1>0 DEF Now, Prepared5
<1>3. Prepared5
  BY Moment
<1>4. /\ ThisAccess \in PinAccesses(clockPin) => Same(dataPin)
      /\ ThisAccess \in PinAccesses(dataPin) => Same(clockPin)
  BY <1>0, OtherPin
<1>5. /\ Driving(clockPin)' => PadOut(clockPin)'
      /\ Driving(dataPin)' => PadOut(dataPin)'
      /\ PulledDown(dataPin)' => PadDown(dataPin)'
  BY <1>0, PadsKept
<1>6. CASE Done \in 0..1
  BY <1>2, <1>6
<1>7. CASE Done = 2
  <2>1. ThisAccess = Unpull(dataPin)
    BY <1>0, <1>7, Programs5
  <2>2. PadDown(dataPin)'
    BY <1>0, <2>1, Effects5
  <2>3. QED
    BY <1>2, <1>7, <2>2
<1>8. CASE Done = 3
  <2>1. ThisAccess = Pull(dataPin)
    BY <1>0, <1>8, Programs5
  <2>2. PulledDown(dataPin)'
    BY <1>0, <1>1, <1>3, <1>8, <2>1, Effects5
  <2>3. QED
    BY <1>2, <1>5, <1>8, <2>2
<1>9. CASE Done \in {4, 5, 6}
  <2>1. /\ Done = 4 => ThisAccess = Blank(clockPin)
        /\ Done = 5 => ThisAccess = EnableOutput(clockPin)
        /\ Done = 6 => ThisAccess = Out(clockPin)
    BY <1>0, <1>9, Programs5
  <2>2. /\ Same(dataPin)
        /\ Done = 5 => PadOut(clockPin)'
        /\ Done = 6 => (PadOut(clockPin) => Driving(clockPin)')
    BY <1>0, <1>4, <1>9, <2>1, Effects5 DEF PinAccesses
  <2>3. QED
    BY <1>1, <1>2, <1>3, <1>5, <1>9, <2>2 DEF Same
<1>10. CASE Done \in {7, 8, 9}
  <2>1. /\ Done = 7 => ThisAccess = Blank(dataPin)
        /\ Done = 8 => ThisAccess = EnableOutput(dataPin)
        /\ Done = 9 => ThisAccess = Out(dataPin)
    BY <1>0, <1>10, Programs5
  <2>2. /\ Same(clockPin) /\ KeepPull(dataPin)
        /\ Done = 8 => PadOut(dataPin)'
        /\ Done = 9 => (PadOut(dataPin) => Driving(dataPin)')
    BY <1>0, <1>4, <1>10, <2>1, Effects5 DEF PinAccesses
  <2>3. QED
    BY <1>1, <1>2, <1>3, <1>5, <1>10, <2>2 DEF Same, KeepPull
<1>11. CASE Done \in {10, 11}
  <2>1. /\ Done = 10 => ThisAccess = Down(clockPin)
        /\ Done = 11 => ThisAccess = Hold(clockPin)
    BY <1>0, <1>11, Programs5
  <2>2. /\ Same(dataPin) /\ KeepMode(clockPin)
        /\ Done = 10 => Low(clockPin)'
        /\ Done = 11 => KeepLow(clockPin)
    BY <1>0, <1>4, <1>11, <2>1, Effects5 DEF PinAccesses
  <2>3. QED
    BY <1>1, <1>2, <1>3, <1>5, <1>11, <2>2 DEF Same, KeepMode, KeepLow
<1>12. CASE Done \in {12, 13}
  <2>1. /\ Done = 12 => ThisAccess = Down(dataPin)
        /\ Done = 13 => ThisAccess = Hold(dataPin)
    BY <1>0, <1>12, Programs5
  <2>2. /\ Same(clockPin) /\ KeepMode(dataPin) /\ KeepPull(dataPin)
        /\ Done = 12 => Low(dataPin)'
        /\ Done = 13 => KeepLow(dataPin)
    BY <1>0, <1>4, <1>12, <2>1, Effects5 DEF PinAccesses
  <2>3. QED
    BY <1>1, <1>2, <1>3, <1>5, <1>12, <2>2 DEF Same, KeepMode, KeepPull, KeepLow
<1>13. QED
  BY <1>0, <1>6, <1>7, <1>8, <1>9, <1>10, <1>11, <1>12

LEMMA SetUpStep ==
  ASSUME Now, cycle = "init"
  PROVE  Line!SetUp /\ LInv' /\ Suffix'
<1>0. /\ cycle' = cycle /\ board' = board /\ input' = input /\ Suffix' /\ BoardOK /\ Between
  BY Moment
<1>1. Line!SetUp /\ edges' = 0
  BY <1>0, StepSetUp DEF Now, Between
<1>2. Prepared4' /\ Prepared5'
  <2>1. CASE board = "raspi4"
    BY <1>0, <2>1, SetUp4 DEF Prepared5
  <2>2. CASE board = "raspi5"
    BY <1>0, <2>2, SetUp5 DEF Prepared4
  <2>3. QED
    BY <1>0, <2>1, <2>2 DEF BoardOK
<1>3. Clocked' /\ Carried' /\ Between' /\ Unread'
  BY <1>0, <1>1 DEF Clocked, Carried, Between, Unread, Cycles
<1>4. QED
  BY <1>0, <1>1, <1>2, <1>3 DEF LInv

(* The last accesses of release() are to the clock, then to the data pin.       *)
LEMMA IdleStep ==
  ASSUME Now, cycle = "cleanup"
  PROVE  Line!Idle /\ LInv' /\ Suffix'
<1>0. /\ cycle' = cycle /\ board' = board /\ input' = input /\ Suffix' /\ BoardOK /\ Between
      /\ Done' = Done + 1 /\ Done \in Nat /\ mem' = After(ThisAccess)
      /\ ThisAccess = Program("cleanup")[Done + 1]
      /\ mem \in [Registers(board) -> SUBSET Word]
      /\ clockPin \in Mine /\ dataPin \in Mine /\ clockPin # dataPin
  BY Moment
<1>1. /\ Driving(clockPin) /\ Low(clockPin) /\ Driving(dataPin) /\ ~input
      /\ Done >= (IF board = "raspi4" THEN 2 ELSE 3) => Low(dataPin)
  BY <1>0 DEF Between
<1> DEFINE first == IF board = "raspi4" THEN 1 ELSE 2
<1>2. /\ Done < first => ThisAccess = Down(clockPin) \/ (board = "raspi5" /\ ThisAccess = Hold(clockPin))
      /\ Done = first => ThisAccess = Down(dataPin)
      /\ Done > first => board = "raspi5" /\ ThisAccess = Hold(dataPin)
  <2>1. Done < Steps
    BY Moment
  <2>2. CASE board = "raspi4"
    BY <1>0, <2>1, <2>2, Programs4 DEF Steps
  <2>3. CASE board = "raspi5"
    <3>1. Steps = 4
      BY <2>3, Programs5 DEF Steps
    <3>2. Done \in 0..3
      BY <1>0, <2>1, <3>1
    <3>3. /\ Done = 0 => ThisAccess = Down(clockPin)
          /\ Done = 1 => ThisAccess = Hold(clockPin)
          /\ Done = 2 => ThisAccess = Down(dataPin)
          /\ Done = 3 => ThisAccess = Hold(dataPin)
      BY <1>0, <2>3, Programs5
    <3>4. QED
      BY <2>3, <3>2, <3>3
  <2>4. QED
    BY <1>0, <2>2, <2>3 DEF BoardOK
<1>3. CASE Done < first
  <2>1. KeepMode(clockPin) /\ Low(clockPin)' /\ Same(dataPin)
    BY <1>1, <1>2, <1>3, ClockEffects DEF KeepLow
  <2>2. Data' = Data /\ Driving(clockPin)' /\ Driving(dataPin)' /\ (Low(dataPin) => Low(dataPin)')
    BY <1>1, <2>1 DEF Same, KeepMode, Data
  <2>3. Clock' = "low"
    BY <2>1, <2>2, ClockLevels
  <2>4. Line!Idle
    BY <2>2, <2>3, StepIdle DEF Now
  <2>5. Between'
    BY <1>0, <1>1, <1>3, <2>1, <2>2 DEF Between
  <2>6. QED
    BY <1>0, <2>4, <2>5 DEF LInv, Clocked, Carried, Prepared4, Prepared5, Unread, Cycles
<1>4. CASE Done >= first
  <2>1. ThisAccess = Down(dataPin) \/ (board = "raspi5" /\ ThisAccess = Hold(dataPin) /\ Low(dataPin))
    BY <1>0, <1>1, <1>2, <1>4 DEF BoardOK
  <2>2. Same(clockPin) /\ KeepMode(dataPin) /\ Low(dataPin)'
    BY <1>0, <2>1, OtherPin, Effects4, Effects5 DEF PinAccesses, BoardOK, KeepLow
  <2>3. Driving(clockPin)' /\ Low(clockPin)' /\ Driving(dataPin)'
    BY <1>1, <2>2 DEF Same, KeepMode
  <2>4. Clock' = "low" /\ Data' = "low"
    <3>1. BoardOK'
      BY <1>0 DEF BoardOK
    <3>2. LevelsRight'
      BY Levels, PTL
    <3>3. QED
      BY <1>0, <2>2, <2>3, <3>1, <3>2 DEF LevelsRight, Clock, Data, Mine
  <2>5. Line!Idle
    BY <2>4, StepIdle DEF Now
  <2>6. Between'
    BY <1>0, <1>1, <2>2, <2>3 DEF Between
  <2>7. QED
    BY <1>0, <2>5, <2>6 DEF LInv, Clocked, Carried, Prepared4, Prepared5, Unread, Cycles
<1>5. QED
  BY <1>0, <1>3, <1>4

-----------------------------------------------------------------------------
(* The other steps. *)

(* The level of the data pin is looked at last.                                 *)
LEMMA LookLast ==
  ASSUME BoardOK, NEW c \in Working, NEW k \in 1 .. Len(Program(c)), Program(c)[k].do = "level"
  PROVE  c = "read" /\ k = Len(Program(c)) /\ k >= 3 /\ Program(c)[k] = Look(dataPin)
<1> DEFINE Looks(a) == a.do = "level"
<1>1. \A p \in Mine : \A a \in PinAccesses(p) : ~Looks(a)
  BY PinAccessOwn
<1>2. clockPin \in Mine /\ dataPin \in Mine
  BY DEF Mine
<1>3. Looks(Program(c)[k]) /\ k \in 1 .. Len(Program(c))
  OBVIOUS
<1>c. \/ c = "read" \/ c = "write0" \/ c = "write1" \/ c = "turn2read" \/ c = "turn2write"
      \/ c = "init" \/ c = "cleanup"
  BY DEF Working, Cycles
<1> HIDE DEF Looks
<1>4. CASE board = "raspi4"
  <2>1. \A p \in Mine :
          /\ ~Looks(Up(p)) /\ ~Looks(Down(p)) /\ ~Looks(Out(p)) /\ ~Looks(In(p))
          /\ ~Looks(Pull(p)) /\ ~Looks(GetFunction(p)) /\ ~Looks(GetPull(p))
    BY <1>1, <1>4 DEF PinAccesses
  <2>2. c # "write0"
    <3>1. c = "write0" => k \in 1..3
      <4>1. Len(Program("write0")) = 3
        BY <1>4, Programs4
      <4>2. QED
        BY <1>3, <4>1
    <3>2. c = "write0" => (k = 1 \/ k = 2 \/ k = 3)
      BY <3>1
    <3>3. QED
      BY <1>2, <1>3, <1>4, <2>1, <3>2, Programs4
  <2>3. c # "write1"
    <3>1. c = "write1" => k \in 1..3
      <4>1. Len(Program("write1")) = 3
        BY <1>4, Programs4
      <4>2. QED
        BY <1>3, <4>1
    <3>2. c = "write1" => (k = 1 \/ k = 2 \/ k = 3)
      BY <3>1
    <3>3. QED
      BY <1>2, <1>3, <1>4, <2>1, <3>2, Programs4
  <2>4. c # "turn2read"
    <3>1. c = "turn2read" => k \in 1..5
      <4>1. Len(Program("turn2read")) = 5
        BY <1>4, Programs4
      <4>2. QED
        BY <1>3, <4>1
    <3>2. c = "turn2read" => (k = 1 \/ k = 2 \/ k = 3 \/ k = 4 \/ k = 5)
      BY <3>1
    <3>3. QED
      BY <1>2, <1>3, <1>4, <2>1, <3>2, Programs4
  <2>5. c # "turn2write"
    <3>1. c = "turn2write" => k \in 1..5
      <4>1. Len(Program("turn2write")) = 5
        BY <1>4, Programs4
      <4>2. QED
        BY <1>3, <4>1
    <3>2. c = "turn2write" => (k = 1 \/ k = 2 \/ k = 3 \/ k = 4 \/ k = 5)
      BY <3>1
    <3>3. QED
      BY <1>2, <1>3, <1>4, <2>1, <3>2, Programs4
  <2>6. c # "init"
    <3>1. c = "init" => k \in 1..10
      <4>1. Len(Program("init")) = 10
        BY <1>4, Programs4
      <4>2. QED
        BY <1>3, <4>1
    <3>2. c = "init" => (k = 1 \/ k = 2 \/ k = 3 \/ k = 4 \/ k = 5 \/ k = 6 \/ k = 7 \/ k = 8
                           \/ k = 9 \/ k = 10)
      BY <3>1
    <3>3. QED
      BY <1>2, <1>3, <1>4, <2>1, <3>2, Programs4
  <2>7. c # "cleanup"
    <3>1. c = "cleanup" => k \in 1..2
      <4>1. Len(Program("cleanup")) = 2
        BY <1>4, Programs4
      <4>2. QED
        BY <1>3, <4>1
    <3>2. c = "cleanup" => (k = 1 \/ k = 2)
      BY <3>1
    <3>3. QED
      BY <1>2, <1>3, <1>4, <2>1, <3>2, Programs4
  <2>8. c = "read" => k = 3
    <3>1. c = "read" => k \in 1..3
      <4>1. Len(Program("read")) = 3
        BY <1>4, Programs4
      <4>2. QED
        BY <1>3, <4>1
    <3>2. c = "read" => (k = 1 \/ k = 2 \/ k = 3)
      BY <3>1
    <3>3. QED
      BY <1>2, <1>3, <1>4, <2>1, <3>2, Programs4
  <2>9. Len(Program("read")) = 3 /\ Program("read")[3] = Look(dataPin)
    BY <1>4, Programs4
  <2>10. c = "read"
    BY <1>c, <2>2, <2>3, <2>4, <2>5, <2>6, <2>7
  <2>11. QED
    BY <2>8, <2>9, <2>10
<1>5. CASE board = "raspi5"
  <2>1. \A p \in Mine :
          /\ ~Looks(Up(p)) /\ ~Looks(Down(p)) /\ ~Looks(Out(p)) /\ ~Looks(In(p))
          /\ ~Looks(Pull(p)) /\ ~Looks(Hold(p)) /\ ~Looks(Blank(p)) /\ ~Looks(EnableOutput(p))
          /\ ~Looks(Select(p)) /\ ~Looks(Unpull(p))
    BY <1>1, <1>5 DEF PinAccesses
  <2>2. c # "write0"
    <3>1. c = "write0" => k \in 1..5
      <4>1. Len(Program("write0")) = 5
        BY <1>5, Programs5
      <4>2. QED
        BY <1>3, <4>1
    <3>2. c = "write0" => (k = 1 \/ k = 2 \/ k = 3 \/ k = 4 \/ k = 5)
      BY <3>1
    <3>3. QED
      BY <1>2, <1>3, <1>5, <2>1, <3>2, Programs5
  <2>3. c # "write1"
    <3>1. c = "write1" => k \in 1..4
      <4>1. Len(Program("write1")) = 4
        BY <1>5, Programs5
      <4>2. QED
        BY <1>3, <4>1
    <3>2. c = "write1" => (k = 1 \/ k = 2 \/ k = 3 \/ k = 4)
      BY <3>1
    <3>3. QED
      BY <1>2, <1>3, <1>5, <2>1, <3>2, Programs5
  <2>4. c # "turn2read"
    <3>1. c = "turn2read" => k \in 1..8
      <4>1. Len(Program("turn2read")) = 8
        BY <1>5, Programs5
      <4>2. QED
        BY <1>3, <4>1
    <3>2. c = "turn2read" => (k = 1 \/ k = 2 \/ k = 3 \/ k = 4 \/ k = 5 \/ k = 6 \/ k = 7 \/ k = 8)
      BY <3>1
    <3>3. QED
      BY <1>2, <1>3, <1>5, <2>1, <3>2, Programs5
  <2>5. c # "turn2write"
    <3>1. c = "turn2write" => k \in 1..8
      <4>1. Len(Program("turn2write")) = 8
        BY <1>5, Programs5
      <4>2. QED
        BY <1>3, <4>1
    <3>2. c = "turn2write" => (k = 1 \/ k = 2 \/ k = 3 \/ k = 4 \/ k = 5 \/ k = 6 \/ k = 7 \/ k = 8)
      BY <3>1
    <3>3. QED
      BY <1>2, <1>3, <1>5, <2>1, <3>2, Programs5
  <2>6. c # "init"
    <3>1. c = "init" => k \in 1..14
      <4>1. Len(Program("init")) = 14
        BY <1>5, Programs5
      <4>2. QED
        BY <1>3, <4>1
    <3>2. c = "init" => (k = 1 \/ k = 2 \/ k = 3 \/ k = 4 \/ k = 5 \/ k = 6 \/ k = 7 \/ k = 8
                           \/ k = 9 \/ k = 10 \/ k = 11 \/ k = 12 \/ k = 13 \/ k = 14)
      BY <3>1
    <3>3. ~(c = "init" /\ (k = 1 \/ k = 2 \/ k = 3 \/ k = 4 \/ k = 5 \/ k = 6 \/ k = 7))
      BY <1>2, <1>3, <1>5, <2>1, Programs5
    <3>4. ~(c = "init" /\ (k = 8 \/ k = 9 \/ k = 10 \/ k = 11 \/ k = 12 \/ k = 13 \/ k = 14))
      BY <1>2, <1>3, <1>5, <2>1, Programs5
    <3>5. QED
      BY <3>2, <3>3, <3>4
  <2>7. c # "cleanup"
    <3>1. c = "cleanup" => k \in 1..4
      <4>1. Len(Program("cleanup")) = 4
        BY <1>5, Programs5
      <4>2. QED
        BY <1>3, <4>1
    <3>2. c = "cleanup" => (k = 1 \/ k = 2 \/ k = 3 \/ k = 4)
      BY <3>1
    <3>3. QED
      BY <1>2, <1>3, <1>5, <2>1, <3>2, Programs5
  <2>8. c = "read" => k = 4
    <3>1. c = "read" => k \in 1..4
      <4>1. Len(Program("read")) = 4
        BY <1>5, Programs5
      <4>2. QED
        BY <1>3, <4>1
    <3>2. c = "read" => (k = 1 \/ k = 2 \/ k = 3 \/ k = 4)
      BY <3>1
    <3>3. QED
      BY <1>2, <1>3, <1>5, <2>1, <3>2, Programs5
  <2>9. Len(Program("read")) = 4 /\ Program("read")[4] = Look(dataPin)
    BY <1>5, Programs5
  <2>10. c = "read"
    BY <1>c, <2>2, <2>3, <2>4, <2>5, <2>6, <2>7
  <2>11. QED
    BY <2>8, <2>9, <2>10
<1>6. QED
  BY <1>4, <1>5 DEF BoardOK

LEMMA LevelRead ==
  ASSUME IInv, Suffix, ReadLevel
  PROVE  /\ cycle = "read" /\ ThisAccess = Look(dataPin)
         /\ Done = Steps - 1 /\ Steps >= 3 /\ todo' = <<>>
<1>1. /\ todo # <<>> /\ todo' = Tail(todo) /\ ThisAccess.do = "level" /\ board' = board
      /\ BoardOK /\ todo \in Seq(Accesses)
  BY DEF ReadLevel, At, IInv, TypeOK, BoardOK
<1>2. cycle \in Working
  BY <1>1 DEF Suffix
<1>3. Done \in 0 .. Steps - 1 /\ Steps \in Nat /\ ThisAccess = Program(cycle)[Done + 1]
  BY <1>1, <1>2, NextAccess
<1>4. cycle = "read" /\ Done + 1 = Steps /\ Steps >= 3 /\ ThisAccess = Look(dataPin)
  BY <1>1, <1>2, <1>3, LookLast DEF Steps
<1>5. PICK n \in Nat : n = Len(todo) /\ (n = 1 => Tail(todo) = <<>>)
  BY <1>1
<1>6. Done = Steps - n
  BY <1>5 DEF Done
<1>7. n = 1 /\ Done = Steps - 1
  BY <1>3, <1>4, <1>6
<1>8. QED
  BY <1>1, <1>4, <1>5, <1>7

LEMMA SuffixNext ==
  ASSUME IInv, Suffix, [Next]_vars
  PROVE  Suffix'
<1>0. BoardOK /\ board' = board
  BY DEF IInv, TypeOK, BoardOK, Next, OpenDevice, Release, ClockCycle, Call, Return, Load, Store,
         SetBits, ClearBits, ReadLevel, OtherLoads, OtherStores, vars
<1>1. ASSUME NEW c \in Working, Call(c) PROVE Suffix'
  <2>1. todo' = Program(c) /\ cycle' = c
    BY <1>1 DEF Call
  <2>2. Program(c)' = Program(c) /\ Program(c) \in Seq(Accesses)
    BY <1>0, SameProgram, ProgramsOwn DEF Working
  <2>3. Steps' = Len(todo') /\ Done' = 0
    BY <2>1, <2>2 DEF Steps, Done
  <2>4. QED
    BY <2>1, <2>2, <2>3 DEF Suffix
<1>2. CASE Return
  BY <1>2 DEF Return, Suffix, Working, Cycles
<1>3. CASE Load \/ Store \/ SetBits \/ ClearBits
  <2>1. todo # <<>> /\ todo' = Tail(todo) /\ cycle' = cycle
    BY <1>3 DEF Load, Store, SetBits, ClearBits, At
  <2>2. cycle \in Working
    BY <2>1 DEF Suffix
  <2>3. QED
    BY <1>0, <2>1, <2>2, NextAccess
<1>4. CASE ReadLevel
  <2>1. todo' = <<>> /\ cycle' = "none"
    BY <1>4, LevelRead DEF ReadLevel
  <2>2. QED
    BY <2>1 DEF Suffix, Working, Cycles
<1>5. CASE (\E p \in Others : OtherLoads(p)) \/ OtherStores \/ UNCHANGED vars
  <2>1. todo' = todo /\ cycle' = cycle
    BY <1>5 DEF OtherLoads, OtherStores, host, vars
  <2>2. cycle \in Working => Program(cycle)' = Program(cycle)
    BY <1>0, <2>1, SameProgram
  <2>3. QED
    BY <2>1, <2>2 DEF Suffix, Steps, Done
<1>6. QED
  BY <1>1, <1>2, <1>3, <1>4, <1>5 DEF Next, OpenDevice, Release, ClockCycle, Working

(* What is spoilt stays so.                                                     *)
LEMMA StaysSpoilt ==
  ASSUME [Next]_vars, LostUpdate
  PROVE  LostUpdate'
BY DEF LostUpdate, Next, OpenDevice, Release, ClockCycle, Call, Return, Load, Store, SetBits, ClearBits,
       ReadLevel, OtherLoads, OtherStores, vars

LEMMA Unmoved ==
  ASSUME BoardOK, board' = board, mem' = mem
  PROVE  Same(clockPin) /\ Same(dataPin) /\ Clock' = Clock /\ Data' = Data
<1>1. ASSUME NEW p \in Mine PROVE Same(p)
  <2>1. Setting(p, mem)' = Setting(p, mem)
    BY DEF Setting
  <2>2. QED
    BY <2>1, SameSetting
<1>2. QED
  BY <1>1 DEF Mine, Same, Clock, Data

(* The start of a function of the driver.                                       *)
LEMMA Called ==
  ASSUME IInv, ~LostUpdate, NEW c \in Working, Call(c)
  PROVE  /\ BoardOK /\ board' = board /\ cycle' = c /\ Done' = 0 /\ edges' = 0
         /\ LostUpdate' = LostUpdate /\ UNCHANGED <<drive, sample>>
         /\ input' = (c = "turn2read" \/ (input /\ c \notin {"turn2write", "init"}))
         /\ Same(clockPin) /\ Same(dataPin) /\ Clock' = Clock /\ Data' = Data
         /\ todo' = Program(c)
<1>1. BoardOK /\ board' = board /\ cycle' = c /\ edges' = 0 /\ mem' = mem /\ raced' = raced
      /\ todo' = Program(c) /\ UNCHANGED <<drive, sample>>
      /\ input' = (c = "turn2read" \/ (input /\ c \notin {"turn2write", "init"}))
  BY DEF IInv, TypeOK, BoardOK, Call
<1>2. Program(c)' = Program(c) /\ Program(c) \in Seq(Accesses)
  BY <1>1, SameProgram, ProgramsOwn DEF Working
<1>3. Done' = 0
  <2>1. Done' = Len(Program(c)) - Len(Program(c))
    BY <1>1, <1>2 DEF Steps, Done
  <2>2. Len(Program(c)) \in Nat
    BY <1>2
  <2>3. QED
    BY <2>1, <2>2
<1>4. QED
  BY <1>1, <1>3, Unmoved DEF LostUpdate

LEMMA OpenStep ==
  ASSUME IInv, LInv, ~LostUpdate, OpenDevice
  PROVE  Line!SetUp /\ LInv'
<1>1. "init" \in Working /\ cycle = "closed" /\ Call("init")
  BY DEF OpenDevice, Working
<1>2. /\ cycle' = "init" /\ Done' = 0 /\ edges' = 0 /\ LostUpdate' = LostUpdate
      /\ UNCHANGED <<drive, sample>> /\ ~input'
  BY <1>1, Called
<1>3. Line!SetUp
  BY <1>1, <1>2 DEF Line!SetUp
<1>4. QED
  BY <1>2, <1>3 DEF LInv, Clocked, Carried, Prepared4, Prepared5, Between, Unread, Cycles

LEMMA ReleaseStep ==
  ASSUME IInv, LInv, ~LostUpdate, Release
  PROVE  Line!Cleanup /\ LInv'
<1>1. "cleanup" \in Working /\ cycle = "none" /\ ~input /\ Call("cleanup")
  BY DEF Release, Working
<1>2. /\ cycle' = "cleanup" /\ Done' = 0 /\ edges' = 0 /\ LostUpdate' = LostUpdate
      /\ UNCHANGED <<drive, sample>> /\ ~input' /\ board' = board
      /\ Same(clockPin) /\ Same(dataPin) /\ Clock' = Clock /\ Data' = Data
  BY <1>1, Called
<1>3. Line!Cleanup
  BY <1>1, <1>2 DEF Line!Cleanup, Clock, Data
<1>4. Between'
  BY <1>1, <1>2 DEF LInv, Between, Same
<1>5. QED
  BY <1>2, <1>3, <1>4 DEF LInv, Clocked, Carried, Prepared4, Prepared5, Unread, Cycles

(* A bit is read only while the data pin floats, and written while it drives.   *)
LEMMA BeginStep ==
  ASSUME IInv, LInv, ~LostUpdate, NEW c \in Cycles, ClockCycle(c)
  PROVE  Line!Begin(c) /\ LInv'
<1>1. c \in Working /\ cycle = "none" /\ Call(c) /\ (input <=> c = "read" \/ (input /\ c = "turn2write"))
  BY DEF ClockCycle, Working
<1>2. /\ cycle' = c /\ Done' = 0 /\ edges' = 0 /\ LostUpdate' = LostUpdate
      /\ UNCHANGED <<drive, sample>> /\ board' = board /\ BoardOK
      /\ input' = (c = "turn2read" \/ (input /\ c \notin {"turn2write", "init"}))
      /\ Same(clockPin) /\ Same(dataPin) /\ Clock' = Clock /\ Data' = Data
      /\ todo' = Program(c)
  BY <1>1, Called
<1>3. /\ Driving(clockPin) /\ Low(clockPin) /\ PulledDown(dataPin)
      /\ IF input THEN Floating(dataPin) ELSE Driving(dataPin)
  BY <1>1 DEF LInv, Between
<1>4. Line!Begin(c)
  <2>1. /\ Floating(dataPin) => Data = "free"
        /\ Driving(dataPin) => Data \in {"low", "high"}
    BY <1>2, PinOutput DEF Mine, Data
  <2>2. Line!Follows(c, Data)
    BY <1>1, <1>3, <2>1 DEF Line!Follows
  <2>3. QED
    BY <1>1, <1>2, <2>2 DEF Line!Begin, Clock, Data
<1>5. Falls' \in 2..7
  BY <1>2 DEF Falls, Cycles
<1>6. Clocked'
  BY <1>2, <1>3, <1>5 DEF Clocked, Same
<1>7. Carried'
  <2>1. /\ c = "read" => Floating(dataPin)' /\ input'
        /\ c \in {"write0", "write1"} => Driving(dataPin)' /\ ~input'
        /\ c = "turn2read" => input'
        /\ c = "turn2write" => ~input'
    BY <1>1, <1>2, <1>3 DEF Same
  <2>2. ~(Done' >= 2) /\ ~(Done' >= 4) /\ ~(Done' >= 5) /\ ~(Done' >= 6)
    BY <1>2
  <2>3. QED
    BY <1>2, <2>1, <2>2 DEF Carried
<1>8. Unread'
  <2>1. c = "read" => Len(Program(c)) # 0
    BY <1>2, Programs4, Programs5 DEF BoardOK
  <2>2. QED
    BY <1>2, <2>1 DEF Unread
<1>9. Prepared4' /\ Prepared5' /\ Between'
  BY <1>2 DEF Prepared4, Prepared5, Between, Cycles
<1>10. QED
  BY <1>4, <1>6, <1>7, <1>8, <1>9 DEF LInv

(* The end of a function of the driver: all of its accesses are done.           *)
LEMMA Finished ==
  ASSUME IInv, Suffix, LInv, ~LostUpdate, Return
  PROVE  /\ Done = Steps /\ Steps \in Nat /\ cycle \in Working \ {"read"}
         /\ BoardOK /\ board' = board /\ LostUpdate' = LostUpdate
         /\ UNCHANGED <<edges, input, drive, sample>>
         /\ cycle' = IF cycle = "cleanup" THEN "closed" ELSE "none"
         /\ Same(clockPin) /\ Same(dataPin) /\ Clock' = Clock /\ Data' = Data
<1>1. /\ todo = <<>> /\ cycle \notin {"closed", "none"}
      /\ BoardOK /\ board' = board /\ mem' = mem /\ raced' = raced
      /\ UNCHANGED <<edges, input, drive, sample>>
      /\ cycle' = IF cycle = "cleanup" THEN "closed" ELSE "none"
  BY DEF Return, IInv, TypeOK, BoardOK
<1>2. cycle \in Working \ {"read"}
  BY <1>1 DEF IInv, TypeOK, Working, LInv, Unread
<1>3. Program(cycle) \in Seq(Accesses)
  BY <1>1, <1>2, ProgramsOwn DEF Working
<1>4. Done = Steps /\ Steps \in Nat
  BY <1>1, <1>3 DEF Done, Steps
<1>5. QED
  BY <1>1, <1>2, <1>4, Unmoved DEF LostUpdate

LEMMA ReturnStep ==
  ASSUME IInv, Suffix, LInv, ~LostUpdate, Return
  PROVE  (Line!Ready \/ Line!End \/ Line!Closed) /\ LInv'
<1>1. /\ Done = Steps /\ Steps \in Nat /\ cycle \in Working \ {"read"}
      /\ BoardOK /\ board' = board /\ LostUpdate' = LostUpdate
      /\ UNCHANGED <<edges, input, drive, sample>>
      /\ cycle' = IF cycle = "cleanup" THEN "closed" ELSE "none"
      /\ Same(clockPin) /\ Same(dataPin) /\ Clock' = Clock /\ Data' = Data
  BY Finished
<1>2. \A p \in Mine : Driving(p) /\ Low(p) => Output(p, mem) = "low"
  BY <1>1, PinOutput
<1>3. CASE cycle = "init"
  <2>1. /\ Driving(clockPin) /\ Low(clockPin) /\ PulledDown(dataPin)
        /\ Driving(dataPin) /\ Low(dataPin) /\ ~input
    <3>1. CASE board = "raspi4"
      <4>1. Steps = 10
        BY <1>3, <3>1, Programs4 DEF Steps
      <4>2. QED
        BY <1>1, <1>3, <3>1, <4>1 DEF LInv, Prepared4, Between
    <3>2. CASE board = "raspi5"
      <4>1. Steps = 14
        BY <1>3, <3>2, Programs5 DEF Steps
      <4>2. QED
        BY <1>1, <1>3, <3>2, <4>1 DEF LInv, Prepared5, Between
    <3>3. QED
      BY <1>1, <3>1, <3>2 DEF BoardOK
  <2>2. Clock = "low" /\ Data = "low"
    BY <1>2, <2>1 DEF Mine, Clock, Data
  <2>3. Line!Ready
    BY <1>1, <1>3, <2>2 DEF Line!Ready, Clock, Data
  <2>4. Between'
    BY <1>1, <1>3, <2>1 DEF Between, Same
  <2>5. QED
    BY <1>1, <1>3, <2>3, <2>4 DEF LInv, Clocked, Carried, Prepared4, Prepared5, Unread, Cycles
<1>4. CASE cycle = "cleanup"
  <2>1. /\ Driving(clockPin) /\ Low(clockPin) /\ Driving(dataPin) /\ Low(dataPin) /\ ~input
    <3>1. CASE board = "raspi4"
      <4>1. Steps = 2
        BY <1>4, <3>1, Programs4 DEF Steps
      <4>2. QED
        BY <1>1, <1>4, <3>1, <4>1 DEF LInv, Between
    <3>2. CASE board = "raspi5"
      <4>1. Steps = 4
        BY <1>4, <3>2, Programs5 DEF Steps
      <4>2. QED
        BY <1>1, <1>4, <3>2, <4>1 DEF LInv, Between
    <3>3. QED
      BY <1>1, <3>1, <3>2 DEF BoardOK
  <2>2. Clock = "low" /\ Data = "low"
    BY <1>2, <2>1 DEF Mine, Clock, Data
  <2>3. Line!Closed
    BY <1>1, <1>4, <2>2 DEF Line!Closed, Clock, Data
  <2>4. Between'
    BY <1>1, <1>4, <2>1 DEF Between
  <2>5. QED
    BY <1>1, <1>4, <2>3, <2>4 DEF LInv, Clocked, Carried, Prepared4, Prepared5, Unread, Cycles
<1>5. CASE cycle \in Cycles
  <2>1. Done >= Falls
    <3>1. Falls \in 2..7 /\ Steps >= Falls
      BY <1>1, <1>5, Lengths DEF BoardOK
    <3>2. QED
      BY <1>1, <3>1
  <2>2. Low(clockPin) /\ edges = 2 /\ Driving(clockPin) /\ PulledDown(dataPin)
    BY <1>5, <2>1 DEF LInv, Clocked
  <2>3. IF input THEN Floating(dataPin) ELSE Driving(dataPin)
    <3>0. Carried
      BY DEF LInv
    <3>1. /\ cycle \in {"write0", "write1"} => Driving(dataPin) /\ ~input
          /\ cycle = "turn2read" => input /\ Floating(dataPin)
          /\ cycle = "turn2write" => ~input /\ Driving(dataPin)
      BY <1>1, <1>5, <2>1, <3>0 DEF Carried, Falls, BoardOK
    <3>2. QED
      BY <1>1, <1>5, <3>1 DEF Cycles
  <2>4. cycle' = "none" /\ cycle # "read"
    BY <1>1, <1>5 DEF Cycles
  <2>5. Line!End
    BY <1>1, <1>5, <2>2, <2>4, SameCycles DEF Line!End, Clock, Data
  <2>6. Between'
    BY <1>1, <2>2, <2>3, <2>4 DEF Between, Same
  <2>7. QED
    BY <1>1, <2>4, <2>5, <2>6 DEF LInv, Clocked, Carried, Prepared4, Prepared5, Unread, Cycles
<1>6. QED
  BY <1>1, <1>3, <1>4, <1>5 DEF Working

(* The level that is read is the one the target drives, and low if it does not. *)
LEMMA ReadStep ==
  ASSUME IInv, Suffix, LInv, ~LostUpdate, ReadLevel
  PROVE  Line!End /\ LInv'
<1>1. /\ BoardOK /\ board' = board /\ mem' = mem /\ raced' = raced
      /\ UNCHANGED <<edges, input, drive>> /\ cycle' = "none" /\ sample' \in DataLevels
      /\ drive \in {"low", "high", "none"}
  BY DEF ReadLevel, IInv, TypeOK, BoardOK
<1>2. cycle = "read" /\ Done = Steps - 1 /\ Steps >= 3
  BY LevelRead
<1>3. Same(clockPin) /\ Same(dataPin) /\ Clock' = Clock /\ Data' = Data
  BY <1>1, Unmoved
<1>4. Low(clockPin) /\ edges = 2 /\ Driving(clockPin) /\ PulledDown(dataPin)
  <2>1. Falls = 2 /\ cycle \in Cycles
    BY <1>2 DEF Falls, Cycles
  <2>2. Steps \in Nat
    BY <1>1, <1>2, Programs4, Programs5 DEF Steps, BoardOK
  <2>3. Done >= Falls
    BY <1>2, <2>1, <2>2
  <2>4. QED
    BY <2>1, <2>3 DEF LInv, Clocked
<1>5. Floating(dataPin) /\ input
  BY <1>2 DEF LInv, Carried
<1>6. sample' = IF drive = "none" THEN "low" ELSE drive
  <2>1. Output(dataPin, mem) = "free" /\ InputEnabled(dataPin)
    BY <1>1, <1>5, PinOutput DEF Mine
  <2>2. QED
    BY <1>1, <1>4, <2>1 DEF DataLevels
<1>7. Line!End
  BY <1>1, <1>2, <1>3, <1>4, <1>6, SameCycles DEF Line!End, Clock, Data, LostUpdate, Cycles
<1>8. Between'
  BY <1>1, <1>3, <1>4, <1>5 DEF Between, Same
<1>9. QED
  BY <1>1, <1>7, <1>8 DEF LInv, Clocked, Carried, Prepared4, Prepared5, Unread, Cycles

(* A step that changes neither the driver nor its two pins.                     *)
LEMMA Aside ==
  ASSUME BoardOK, LInv, ~LostUpdate, ~LostUpdate', Same(clockPin), Same(dataPin),
         UNCHANGED <<board, todo, input, cycle, edges, drive, sample>>
  PROVE  UNCHANGED Line!vars /\ LInv'
<1>1. UNCHANGED Line!vars
  BY DEF Same, Line!vars, LostUpdate
<1>2. cycle \in Working => Program(cycle)' = Program(cycle)
  BY SameProgram
<1>3. cycle \in Working => Steps' = Steps /\ Done' = Done
  BY <1>2 DEF Steps, Done
<1>4. Falls' = Falls
  BY DEF Falls
<1>5. Clocked'
  BY <1>3, <1>4 DEF LInv, Clocked, Same, Working
<1>6. Carried'
  BY <1>3 DEF LInv, Carried, Same, Working, Cycles
<1>7. Prepared4' /\ Prepared5' /\ Between' /\ Unread'
  BY <1>3 DEF LInv, Prepared4, Prepared5, Between, Unread, Same, Working
<1>8. QED
  BY <1>1, <1>5, <1>6, <1>7 DEF LInv

LEMMA StrangerStep ==
  ASSUME IInv, LInv, ~LostUpdate, ~LostUpdate', OtherStores
  PROVE  UNCHANGED Line!vars /\ LInv'
<1>1. BoardOK /\ UNCHANGED <<board, todo, input, cycle, edges, drive, sample>>
  BY DEF IInv, TypeOK, BoardOK, OtherStores, host
<1>2. ASSUME NEW p \in Mine PROVE Same(p)
  <2>1. p \in Pins /\ p # other.pin
    BY PinsTypes DEF Mine, IInv, OtherStores, Others
  <2>2. Setting(p, mem') = Setting(p, mem)
    BY <2>1, StrangerStores
  <2>3. Setting(p, mem)' = Setting(p, mem')
    BY <1>1 DEF Setting
  <2>4. QED
    BY <1>1, <2>2, <2>3, SameSetting
<1>3. QED
  BY <1>1, <1>2, Aside DEF Mine

(* Every step of the back-ends is one step of the lines, or none.               *)
LEMMA LineStep ==
  ASSUME IInv, Suffix, LInv, [Next]_vars
  PROVE  [Line!Next]_(Line!vars) /\ LInv'
<1>1. CASE LostUpdate'
  BY <1>1 DEF Line!Next, Line!Spoil, LInv
<1>2. CASE ~LostUpdate'
  <2>1. ~LostUpdate
    BY <1>2, StaysSpoilt
  <2>2. CASE OpenDevice \/ Release
    BY <2>1, <2>2, OpenStep, ReleaseStep DEF Line!Next
  <2>3. CASE \E c \in Cycles : ClockCycle(c)
    BY <2>1, <2>3, BeginStep, SameCycles DEF Line!Next
  <2>4. CASE Return \/ ReadLevel
    BY <2>1, <2>4, ReturnStep, ReadStep DEF Line!Next
  <2>5. CASE Load \/ Store \/ SetBits \/ ClearBits
    <3>1. Acts
      BY <1>2, <2>5, IsAct
    <3>2. cycle \in Working
      BY <3>1 DEF Suffix, Acts
    <3>3. Now
      BY <1>2, <2>1, <3>1, <3>2 DEF Now
    <3>4. QED
      BY <3>2, <3>3, CycleStep, SetUpStep, IdleStep DEF Line!Next, Working
  <2>6. CASE (\E p \in Others : OtherLoads(p)) \/ UNCHANGED vars
    <3>1. UNCHANGED <<board, todo, input, cycle, edges, drive, sample>> /\ mem' = mem
      BY <2>6 DEF OtherLoads, host, vars
    <3>2. BoardOK
      BY DEF IInv, TypeOK, BoardOK
    <3>3. QED
      BY <1>2, <2>1, <3>1, <3>2, Unmoved, Aside
  <2>7. CASE OtherStores
    BY <1>2, <2>1, <2>7, StrangerStep
  <2>8. QED
    BY <2>2, <2>3, <2>4, <2>5, <2>6, <2>7 DEF Next
<1>3. QED
  BY <1>1, <1>2

LEMMA LineInit == Init => Line!Init /\ Suffix /\ LInv
<1> SUFFICES ASSUME Init PROVE Line!Init /\ Suffix /\ LInv
  OBVIOUS
<1>1. BoardOK
  BY DEF Init, BoardOK
<1>2. ~LostUpdate /\ LostUpdate = FALSE
  BY DEF Init, LostUpdate
<1>3. Line!Init
  BY <1>1, <1>2, PinOutput DEF Init, Line!Init, Mine
<1>4. Suffix /\ LInv
  BY DEF Init, Suffix, LInv, Clocked, Carried, Prepared4, Prepared5, Between, Unread, Working, Cycles
<1>5. QED
  BY <1>3, <1>4

(* On either board the accesses of the back-ends, one by one, move the two lines  *)
(* as the cycle functions promise (SWDPI_SWD.c:293-350): one pulse of the clock a *)
(* cycle, data that changes only while the clock is high and means what was to be *)
(* sent when it falls, and a sample of what the target drives, for all pins and   *)
(* all contents of the registers at power-up.                                    *)
THEOREM LinesRight == Spec => ImplementsSwdLine
<1>1. Init => IInv /\ Suffix /\ LInv /\ Line!Init
  BY InitInv, LineInit
<1>2. IInv /\ Suffix /\ LInv /\ [Next]_vars => IInv' /\ Suffix' /\ LInv' /\ [Line!Next]_(Line!vars)
  BY StepInv, SuffixNext, LineStep
<1>3. QED
  BY <1>1, <1>2, PTL DEF Spec, ImplementsSwdLine, Line!Spec

=============================================================================
