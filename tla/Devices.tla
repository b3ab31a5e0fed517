--------------------------------- MODULE Devices ---------------------------------
(***************************************************************************)
(* Loading and starting code: the device functions of cheese_devices.c and  *)
(* the commands -stmwrite, -stmrun, -stmexecute and -stmerase of            *)
(* cheese_memoryaccess.c and the test of cheese_test.c, which main() runs   *)
(* without an argument.  All are straight lines of transfers, against the   *)
(* debug registers of a Cortex-M core that runs, resets and moves its       *)
(* registers at its own pace.                                               *)
(*                                                                         *)
(* A command is the list of steps it still has to do.  A step is one        *)
(* transfer, performed or lost (MemoryAccess shows why these are the cases); *)
(* the functions drop the error of a lost transfer.  Each command is a      *)
(* process of its own, so the globals start afresh.                         *)
(*                                                                         *)
(* A memory word is its place in the image: k is the k-th word of the file,  *)
(* Other any other word, the zeros of -stmerase included.                    *)
(***************************************************************************)
EXTENDS Integers, Sequences, FiniteSetsExt

CONSTANTS
  stm_info,       \* the device table: part number, address of its ID, TRUE if
                  \* the entry has register addresses
  stm_sequences,  \* the part numbers with command sequences
  Targets,        \* targets: part number, what they answer at an ID address
  Words           \* bound: words in an image

ASSUME WordsAssumption == Words \in Nat /\ Words >= 2
ASSUME TablesAssumption ==
  /\ stm_info \in Seq([partno : Nat, baseDBG : Nat, regs : BOOLEAN])
  /\ stm_sequences \in Seq(Nat)
  /\ \A t \in Targets : \A i \in DOMAIN stm_info : stm_info[i].baseDBG \in DOMAIN t.id

VARIABLES
  target,                                        \* who is at the other end
  currentDeviceIndex, currentSequenceDeviceIndex,
  command,    \* the command in progress, or the last one
  todo,       \* its steps
  data,       \* fileDataArray, emptyWords or dataArray
  reply,      \* of the last memory function
  ram,        \* the words at the command's address
  core,       \* the core's debug registers
  disturbed   \* history: in this command a transfer was lost or went astray, reached
              \* a core in reset, or asked a running core for its registers

indices == <<currentDeviceIndex, currentSequenceDeviceIndex>>
vars == <<target, indices, command, todo, data, reply, ram, core, disturbed>>

Other == 0
Values == Other..Words
Image == [k \in 1..Words |-> k]
NoReg == "none"
CoreRegs == {"SP", "PC"}

-----------------------------------------------------------------------------
(* The command sequences (stm_device_sequences.inc) and the functions that      *)
(* write registers, as lists of steps.                                          *)

W(r, v) == [reg |-> r, val |-> v]
Run == {"C_DEBUGEN"}       \* 0xA05F0001
Leave == {}                \* 0xA05F0000

Sequence(s) ==
  CASE s = "SEQ_UNHALT"          -> <<W("DHCSR", Run)>>
    [] s = "SEQ_HALT_ON_RESET"   -> <<W("DEMCR", TRUE), W("DHCSR", Run)>>
    [] s = "SEQ_UNHALT_ON_RESET" -> <<W("DEMCR", FALSE), W("DHCSR", Leave)>>
    [] s = "SEQ_RESET"           -> <<W("AIRCR", TRUE)>>

Step(what) == [do |-> what]
executeSequence(s) == <<[do |-> "sequence", writes |-> Sequence(s)]>>
WriteDeviceRegister(r, v) == <<[do |-> "register", reg |-> r, val |-> v]>>

WriteCoreRegister_NoPoll(r, k) ==
  WriteDeviceRegister("DCRDR", k) \o WriteDeviceRegister("DCRSR", r)

(* Value first, then the selector, then wait until the core has taken it; k is   *)
(* an index into data.                                                          *)
WriteCoreRegister(r, k) ==
  WriteDeviceRegister("DCRDR", k) \o WriteDeviceRegister("DCRSR", r) \o <<Step("poll")>>

initDevice == [i \in DOMAIN stm_info |-> [do |-> "scan", i |-> i]] \o <<Step("match")>>

HaltAndReset_Swapped == executeSequence("SEQ_RESET") \o executeSequence("SEQ_HALT_ON_RESET")

HaltAndReset == executeSequence("SEQ_HALT_ON_RESET") \o executeSequence("SEQ_RESET")

StartImage ==
  WriteDeviceRegister("VTOR", "image") \o WriteCoreRegister("SP", 1)
  \o WriteCoreRegister("PC", 2) \o executeSequence("SEQ_UNHALT")

stmWrite == initDevice \o HaltAndReset \o <<Step("sleep"), Step("stmWriteAligned")>>
stmRun == initDevice \o <<Step("stmReadAligned")>> \o StartImage
stmExecute == initDevice \o HaltAndReset \o <<Step("stmWriteAligned")>> \o StartImage
stmErase_StillCaught ==
  initDevice \o HaltAndReset \o <<Step("stmWriteAligned")>>
  \o executeSequence("SEQ_UNHALT") \o executeSequence("SEQ_RESET")
stmErase ==
  initDevice \o HaltAndReset \o <<Step("stmWriteAligned")>>
  \o executeSequence("SEQ_UNHALT_ON_RESET") \o executeSequence("SEQ_RESET")
(* The array that cheese_test() prepares is never sent. *)
cheese_test ==
  initDevice \o HaltAndReset \o <<Step("sleep")>> \o executeSequence("SEQ_UNHALT")
  \o <<Step("com_writeWord"), Step("com_readWord")>>

Commands == {"stmWrite", "stmRun", "stmExecute", "stmErase", "cheese_test"}
Program(c) ==
  CASE c = "stmWrite" -> stmWrite [] c = "stmRun" -> stmRun
    [] c = "stmExecute" -> stmExecute [] c = "stmErase" -> stmErase
    [] c = "cheese_test" -> cheese_test

-----------------------------------------------------------------------------
(* The core: DHCSR.C_DEBUGEN, DEMCR.VC_CORERESET, a requested reset, the         *)
(* register DCRSR selects until it is transferred, DCRDR, VTOR.                 *)

CoreStates == [halted : BOOLEAN, debugen : BOOLEAN, vcreset : BOOLEAN, resetting : BOOLEAN,
               select : CoreRegs \cup {NoReg}, dcrdr : Values,
               regs : [CoreRegs -> Values], vtor : {"reset", "image"}]

S_REGRDY == core.select = NoReg

(* The core after a write to one of its registers.                              *)
Written(w) ==
  CASE w.reg = "DHCSR" -> [core EXCEPT !.debugen = "C_DEBUGEN" \in w.val, !.halted = FALSE]
    [] w.reg = "DEMCR" -> [core EXCEPT !.vcreset = w.val]
    [] w.reg = "AIRCR" -> [core EXCEPT !.resetting = TRUE]
    [] w.reg = "VTOR"  -> [core EXCEPT !.vtor = w.val]
    [] w.reg = "DCRDR" -> [core EXCEPT !.dcrdr = data[w.val]]
    [] w.reg = "DCRSR" -> [core EXCEPT !.select = w.val]

CoreReset ==
  /\ core.resetting
  /\ core' = [core EXCEPT !.resetting = FALSE, !.halted = core.vcreset /\ core.debugen,
                          !.select = NoReg, !.regs = [r \in CoreRegs |-> Other],
                          !.vtor = "reset"]
  /\ UNCHANGED <<target, indices, command, todo, data, reply, ram, disturbed>>

(* A halted core moves DCRDR to the selected register.                          *)
CoreTransfer ==
  /\ core.halted /\ ~S_REGRDY
  /\ core' = [core EXCEPT !.select = NoReg, !.regs[core.select] = core.dcrdr]
  /\ UNCHANGED <<target, indices, command, todo, data, reply, ram, disturbed>>

(* A running core uses its registers and its memory, sooner or later all of it.  *)
CoreRuns ==
  /\ ~core.halted /\ ~core.resetting
  /\ core' = [core EXCEPT !.regs = [r \in CoreRegs |-> Other]]
  /\ ram' = [k \in 1..Words |-> Other]
  /\ UNCHANGED <<target, indices, command, todo, data, reply, disturbed>>

-----------------------------------------------------------------------------
(* The commands *)

Init ==
  /\ target \in Targets
  /\ currentDeviceIndex = -1 /\ currentSequenceDeviceIndex = -1
  /\ command = "stmErase" /\ todo = <<>>
  /\ data = <<>> /\ reply = 0
  /\ ram = [k \in 1..Words |-> Other]
  /\ core = [halted |-> FALSE, debugen |-> FALSE, vcreset |-> FALSE, resetting |-> FALSE,
             select |-> NoReg, dcrdr |-> Other, regs |-> [r \in CoreRegs |-> Other],
             vtor |-> "reset"]
  /\ disturbed = TRUE

Call(c) ==
  /\ todo = <<>>
  /\ command' = c
  /\ todo' = Program(c)
  /\ data' \in CASE c = "stmRun"   -> {<<Other, Other>>, SubSeq(Image, 1, 2)}   \* not initialised
                  [] c = "stmErase" -> {[k \in 1..Words |-> Other]}
                  [] OTHER          -> {Image}
  /\ currentDeviceIndex' = -1 /\ currentSequenceDeviceIndex' = -1
  /\ reply' = 0
  /\ disturbed' = FALSE
  /\ UNCHANGED <<target, ram, core>>

At(what) == todo # <<>> /\ Head(todo).do = what
Done == todo' = Tail(todo)
ThisStep == Head(todo)

(* A transfer was performed; odd says that the target need not do what was meant. *)
Reached(odd) == disturbed' = (disturbed \/ core.resetting \/ odd)

(* setCurrentDeviceIndices(): the last entry whose part number the target shows  *)
(* at the entry's ID address; a lost read gives 0.                              *)
Matches(i, id) == id = stm_info[i].partno

ScanEntry_First(id) ==
  /\ At("scan")
  /\ Done
  /\ currentDeviceIndex' = IF Matches(ThisStep.i, id) /\ currentDeviceIndex = -1
                             THEN ThisStep.i - 1 ELSE currentDeviceIndex
  /\ UNCHANGED <<target, currentSequenceDeviceIndex, command, data, reply, ram, core>>

ScanEntry(id) ==
  /\ At("scan")
  /\ Done
  /\ currentDeviceIndex' = IF Matches(ThisStep.i, id) THEN ThisStep.i - 1 ELSE currentDeviceIndex
  /\ UNCHANGED <<target, currentSequenceDeviceIndex, command, data, reply, ram, core>>

SequenceIndices_OneBased(partno) ==
  LET same == {i \in DOMAIN stm_sequences : stm_sequences[i] = partno} IN
  IF same = {} THEN -1 ELSE Max(same)

SequenceIndices(partno) ==
  LET same == {i \in DOMAIN stm_sequences : stm_sequences[i] = partno} IN
  IF same = {} THEN -1 ELSE Max(same) - 1

(* The sequences of that part number, or of whatever partno holds when no entry  *)
(* matched.                                                                      *)
MatchSequences ==
  /\ At("match")
  /\ Done
  /\ \E partno \in IF currentDeviceIndex # -1 THEN {stm_info[currentDeviceIndex + 1].partno}
                    ELSE {0} \cup {stm_sequences[i] : i \in DOMAIN stm_sequences} :
       currentSequenceDeviceIndex' = SequenceIndices(partno)
  /\ UNCHANGED <<target, currentDeviceIndex, command, data, reply, ram, core, disturbed>>

ScanRead == At("scan") /\ ScanEntry(target.id[stm_info[ThisStep.i].baseDBG]) /\ Reached(FALSE)
ScanLost == ScanEntry(0) /\ disturbed' = TRUE

-----------------------------------------------------------------------------
(* com_transferSequence(): one write after the other, up to the first that       *)
(* fails.  Without sequences for the part nothing is sent, and nobody asks.      *)

SequenceWrite ==
  /\ At("sequence") /\ currentSequenceDeviceIndex # -1
  /\ core' = Written(Head(ThisStep.writes))
  /\ todo' = IF Len(ThisStep.writes) = 1 THEN Tail(todo)
             ELSE <<[ThisStep EXCEPT !.writes = Tail(@)]>> \o Tail(todo)
  /\ Reached(FALSE)
  /\ UNCHANGED <<target, indices, command, data, reply, ram>>

SequenceLost ==
  /\ At("sequence")
  /\ Done
  /\ disturbed' = TRUE
  /\ UNCHANGED <<target, indices, command, data, reply, ram, core>>

(* com_writeWord() to a register of the current device.  Index -1, and an entry  *)
(* without addresses, write somewhere else.  A running core may or may not take  *)
(* the selection of a register.                                                  *)
Addressed == currentDeviceIndex # -1 /\ stm_info[currentDeviceIndex + 1].regs

RegisterWrite ==
  /\ At("register") /\ Addressed
  /\ Done
  /\ LET running == ThisStep.reg = "DCRSR" /\ ~core.halted IN
     /\ core' \in {Written(ThisStep)} \cup IF running THEN {core} ELSE {}
     /\ Reached(running)
  /\ UNCHANGED <<target, indices, command, data, reply, ram>>

RegisterLost ==
  /\ At("register")
  /\ Done
  /\ disturbed' = TRUE
  /\ UNCHANGED <<target, indices, command, data, reply, ram, core>>

RegisterReady_Inverted == ~S_REGRDY

(* "Polls DHCSR until DHCSR.S_REGRDY reads-as-one" *)
RegisterReady == S_REGRDY

Poll ==
  /\ At("poll") /\ Addressed /\ RegisterReady
  /\ Done
  /\ Reached(FALSE)
  /\ UNCHANGED <<target, indices, command, data, reply, ram, core>>

(* A lost status reads as 0, so the loop goes on; a word from elsewhere may have *)
(* the bit.                                                                      *)
PollLost ==
  /\ At("poll")
  /\ UNCHANGED todo \/ (~Addressed /\ Done)
  /\ disturbed' = TRUE
  /\ UNCHANGED <<target, indices, command, data, reply, ram, core>>

-----------------------------------------------------------------------------
(* stmWriteAligned() and stmReadAligned(), as MemCopy has them and with what an   *)
(* unplugged target does (it answers 0, which passes as success); nobody looks at  *)
(* what they return.                                                              *)

Store ==
  /\ At("stmWriteAligned")
  /\ Done
  /\ ram' = data
  /\ reply' = 0
  /\ Reached(FALSE)
  /\ UNCHANGED <<target, indices, command, data, core>>

(* Part of the image is stored.  The result may be 0: when the target did not      *)
(* answer from some word on, and when only the last word, which no later access     *)
(* confirms, was lost.                                                            *)
StoreFails ==
  /\ At("stmWriteAligned")
  /\ Done
  /\ \E n \in 0 .. Words - 1 : ram' = [k \in 1..Words |-> IF k <= n THEN data[k] ELSE ram[k]]
  /\ reply' \in {-2, 0}
  /\ disturbed' = TRUE
  /\ UNCHANGED <<target, indices, command, data, core>>

(* The command's address was not aligned: nothing is written.                    *)
StoreRefused ==
  /\ At("stmWriteAligned")
  /\ Done
  /\ reply' = -11
  /\ UNCHANGED <<target, indices, command, data, ram, core, disturbed>>

Load ==
  /\ At("stmReadAligned")
  /\ Done
  /\ data' = <<ram[1], ram[2]>>
  /\ reply' = 0
  /\ Reached(FALSE)
  /\ UNCHANGED <<target, indices, command, ram, core>>

LoadRefused ==
  /\ At("stmReadAligned")
  /\ Done
  /\ reply' = -11
  /\ UNCHANGED <<target, indices, command, data, ram, core, disturbed>>

(* Nothing is handed over, or the zeros of a target that does not answer.         *)
LoadFails ==
  /\ At("stmReadAligned")
  /\ Done
  /\ \/ reply' = -2 /\ UNCHANGED data
     \/ reply' = 0 /\ data' = <<Other, Other>>
  /\ disturbed' = TRUE
  /\ UNCHANGED <<target, indices, command, ram, core>>

(* com_writeWord() and com_readWord() of cheese_test(), to and from the first word. *)
TestWrites ==
  /\ At("com_writeWord")
  /\ Done
  /\ ram' = [ram EXCEPT ![1] = Other]
  /\ Reached(FALSE)
  /\ UNCHANGED <<target, indices, command, data, reply, core>>

TestReads ==
  /\ At("com_readWord")
  /\ Done
  /\ Reached(FALSE)
  /\ UNCHANGED <<target, indices, command, data, reply, ram, core>>

TestLost ==
  /\ At("com_writeWord") \/ At("com_readWord")
  /\ Done
  /\ disturbed' = TRUE
  /\ UNCHANGED <<target, indices, command, data, reply, ram, core>>

(* sleep(1) is ample time for a reset.                                           *)
Sleep ==
  /\ At("sleep") /\ ~core.resetting
  /\ Done
  /\ UNCHANGED <<target, indices, command, data, reply, ram, core, disturbed>>

-----------------------------------------------------------------------------

Running ==
  \/ ScanRead \/ MatchSequences \/ SequenceWrite \/ SequenceLost
  \/ RegisterWrite \/ RegisterLost \/ Poll \/ Store \/ StoreRefused \/ Load
  \/ LoadRefused \/ TestWrites \/ TestReads \/ Sleep

Loss == ScanLost \/ PollLost \/ StoreFails \/ LoadFails \/ TestLost

Core == CoreReset \/ CoreTransfer

Next == (\E c \in Commands : Call(c)) \/ Running \/ Loss \/ Core \/ CoreRuns

Spec == Init /\ [][Next]_vars

(* The program goes on, and so does the core.                                    *)
FairSpec == Spec /\ WF_vars(Running) /\ WF_vars(Core)

-----------------------------------------------------------------------------
(* Properties *)

TypeOK ==
  /\ target \in Targets
  /\ currentDeviceIndex \in -1 .. Len(stm_info) - 1
  /\ currentSequenceDeviceIndex \in -1 .. Len(stm_sequences) - 1
  /\ command \in Commands
  /\ data \in Seq(Values)
  /\ reply \in {0, -2, -11}
  /\ ram \in [1..Words -> Values]
  /\ core \in CoreStates
  /\ disturbed \in BOOLEAN

(* A target whose part is in the table shows its part number at the address of    *)
(* one of its entries, and at the address of no later entry the part number of    *)
(* that entry, if it is another part's; a part in no table shows none.  A word of *)
(* the target's own at such an address (its vector table) could break this.       *)
Recognisable ==
  \A t \in Targets :
    LET shows == {i \in 1..Len(stm_info) : t.id[stm_info[i].baseDBG] = stm_info[i].partno} IN
    IF \E i \in 1..Len(stm_info) : stm_info[i].partno = t.partno
      THEN \E i \in shows : /\ stm_info[i].partno = t.partno
                            /\ \A j \in shows : j > i => stm_info[j].partno = t.partno
      ELSE shows = {}

(* When the scan of the device table is over, both indices are those of the part *)
(* that is connected, even if it also answers at another entry's address, and    *)
(* -1 if the part is in no table (setCurrentDeviceIndices(), initDevice()).      *)
IdentifiedRight ==
  todo # <<>> /\ ThisStep.do \notin {"scan", "match"} /\ ~disturbed =>
    IF \E i \in DOMAIN stm_info : stm_info[i].partno = target.partno
      THEN /\ stm_info[currentDeviceIndex + 1].partno = target.partno
           /\ currentSequenceDeviceIndex # -1 =>
                stm_sequences[currentSequenceDeviceIndex + 1] = target.partno
      ELSE currentDeviceIndex = -1

(* A core that stmExecute() or stmRun() lets go has the vector table, the stack   *)
(* pointer and the program counter it was given: each register gets its own      *)
(* value although both go through DCRDR and the core takes its time.  They are    *)
(* those of the words in memory, unless the command's address was refused, which  *)
(* nobody notices (cheese_memoryaccess.c:414, 464).                              *)
LetGo == command \in {"stmExecute", "stmRun"} /\ Len(todo) = 1 /\ todo' = <<>>

StartedRight ==
  [][LetGo /\ ~disturbed' =>
       /\ core'.vtor = "image"
       /\ core'.regs = [r \in CoreRegs |-> IF r = "SP" THEN data[1] ELSE data[2]]
       /\ reply = 0 => <<data[1], data[2]>> = <<ram[1], ram[2]>>
       /\ reply = 0 /\ command = "stmExecute" => ram = Image]_vars

(* After stmWrite() the core is held and the image stays in memory as written:    *)
(* the old program neither runs while it is stored nor afterwards.                *)
ImageStays ==
  command = "stmWrite" /\ todo = <<>> /\ reply = 0 /\ ~disturbed => core.halted /\ ram = Image

(* Only stmWrite() leaves the core held.  After the other commands it runs, or     *)
(* will after its reset, and after stmErase() no later reset stops it.            *)
Released ==
  command # "stmWrite" /\ todo = <<>> /\ ~disturbed =>
    /\ core.halted => core.resetting
    /\ command = "stmErase" => ~core.vcreset /\ ~core.debugen

(* Every command ends; the loops that wait for S_REGRDY have no other way out     *)
(* (cheese_devices.c:92, 106).                                                    *)
CommandReturns == todo # <<>> ~> todo = <<>> \/ disturbed

=============================================================================
