------------------------------ MODULE MemoryAccess ------------------------------
(***************************************************************************)
(* Reading and writing the target's memory (cheese_memoryaccess.c and the   *)
(* single-word functions of cheese_comSWD.c) over the target of MemAP.      *)
(*                                                                         *)
(* A call is cut into transfers of at most Chunk words that start at an     *)
(* aligned address; a transfer is a list of set-up commands followed by the *)
(* accesses.  comArrayTransfer() is one step per command here: it stops at  *)
(* the first failing command and returns its acknowledge, as ComArray shows *)
(* of the real one.                                                         *)
(***************************************************************************)
EXTENDS MemAP, Sequences

CONSTANTS
  Requests,   \* the calls: kind, base (a byte address), count, data
  Memories,   \* the contents the target's memory may have at first
  Chunk,      \* words per transfer, 32 in the code
  MAX_COMS,   \* commands per transfer, 64 in the code
  NoFile,     \* what the dump file is when there is none
  Removable   \* TRUE if the target may be unplugged or lose its power

ASSUME ChunkAssumption == Chunk \in Nat \ {0} /\ MAX_COMS \in Nat /\ Chunk + 8 < MAX_COMS
ASSUME MemoriesAssumption == Memories \subseteq [Addrs -> Word]
ASSUME RequestsAssumption == Requests # {} /\
  \A r \in Requests : /\ r.kind \in {"fetch", "print", "dump", "write", "peek", "poke"}
                      /\ r.base \in Nat /\ r.count \in Nat
                      /\ r.kind \in {"peek", "poke"} => r.count = 1
                      /\ r.kind \in {"write", "poke"} => r.data \in [1 .. r.count -> Word]

VARIABLES
  pc,                       \* "idle", "open", "prepare", "transfer"
  request,                  \* the call in progress, or the last one
  baseAddr, wordCount, wordOffset,   \* aligned by align2mem()
  wordsTransferred, wordsTransferredThisRun, wordsStored,
  dataArray,                \* what stmReadAligned() has stored so far
  words,                    \* what the caller got, or the user sees
  file,                     \* the dump file: the words in it, or NoFile
  reply,                    \* what the last call returned
  cmdArray, replyArray,     \* the transfer in progress
  target

progress == <<wordsTransferred, wordsTransferredThisRun, wordsStored, dataArray>>
call     == <<request, baseAddr, wordCount, wordOffset>>
result   == <<words, reply>>
transfer == <<cmdArray, replyArray>>
vars     == <<pc, call, progress, result, file, transfer, target>>

Reads == {"fetch", "print", "dump"}   \* stmFetch(), stmPrint(), stmDump()

Align_Word == 4

Align == 4 * Chunk

-----------------------------------------------------------------------------
(* The command lists of cheese_comSWD.c *)

prepAPaccess_NoAbort(bank) ==
  <<Cmd("IDCODE", 0), Cmd("CTRLSTAT_R", 0), Cmd("CTRLSTAT_W", 0),
    Cmd("CTRLSTAT_W", 0), Cmd("SELECT", bank)>>

prepAPaccess(bank) ==
  <<Cmd("IDCODE", 0), Cmd("CTRLSTAT_R", 0), Cmd("ABORT", 0),
    Cmd("CTRLSTAT_W", 0), Cmd("SELECT", bank)>>

prepMemAccess(addr) == prepAPaccess(0) \o <<Cmd("CSW", TRUE), Cmd("TAR", addr)>>
prepMemAccessNoAutoIncrease(addr) == prepAPaccess(0) \o <<Cmd("CSW", FALSE), Cmd("TAR", addr)>>

(* comArrayAdd() drops what does not fit. *)
Filled(cmds) == IF Len(cmds) <= MAX_COMS THEN cmds ELSE SubSeq(cmds, 1, MAX_COMS)

(* comArrayRead() of a place that is not filled returns an error number. *)
comArrayRead(i) == IF i < Len(cmdArray) THEN replyArray[i + 1] ELSE -2

(* The driver starts every write() with a line reset. *)
Send(cmds) ==
  /\ pc' = "transfer"
  /\ cmdArray' = Filled(cmds)
  /\ replyArray' = <<>>
  /\ target' = [target EXCEPT !.reset = TRUE]

-----------------------------------------------------------------------------

Fresh(m) ==
  [attached |-> TRUE, reset |-> FALSE, sticky |-> FALSE, powered |-> FALSE, bank |-> 0,
   inc |-> FALSE, tar |-> 0, rdbuf |-> 0, mem |-> m]
LeftByAnother(m) == [Fresh(m) EXCEPT !.sticky = TRUE, !.powered = TRUE, !.bank = 15]

Init ==
  /\ pc = "idle"
  /\ request = CHOOSE r \in Requests : TRUE
  /\ baseAddr = 0 /\ wordCount = 0 /\ wordOffset = 0
  /\ wordsTransferred = 0 /\ wordsTransferredThisRun = 0 /\ wordsStored = 0
  /\ dataArray = <<>> /\ words = <<>>
  /\ reply = 0
  /\ file = NoFile
  /\ cmdArray = <<>> /\ replyArray = <<>>
  /\ \E m \in Memories : target \in {Fresh(m), LeftByAnother(m)}

align2mem(base, count) ==
  /\ wordOffset' = (base % Align) \div 4
  /\ baseAddr' = base - (base % Align)
  /\ wordCount' = count + ((base % Align) \div 4)

(* The functions that read align their request; the others take it as it is.    *)
(* Only stmDump() knows the file, so calls of other kinds are made without one,   *)
(* which bounds the number of states.                                            *)
Call(r) ==
  /\ pc = "idle"
  /\ r.kind # "dump" => file = NoFile
  /\ pc' = IF r.kind = "dump" THEN "open" ELSE "prepare"
  /\ request' = r
  /\ IF r.kind \in Reads THEN align2mem(r.base, r.count)
     ELSE baseAddr' = r.base /\ wordCount' = r.count /\ wordOffset' = 0
  /\ dataArray' = [k \in 1 .. wordCount' |-> 0]
  /\ words' = <<>> /\ reply' = 0
  /\ UNCHANGED <<wordsTransferred, wordsTransferredThisRun, wordsStored, file, transfer, target>>

(* The call returns e; its local variables end with it.                         *)
Leave(e) ==
  /\ pc' = "idle"
  /\ reply' = e
  /\ wordsTransferred' = 0 /\ wordsTransferredThisRun' = 0 /\ wordsStored' = 0
  /\ dataArray' = <<>>
  /\ cmdArray' = <<>> /\ replyArray' = <<>>
  /\ UNCHANGED call

(* stmDump() makes its file before it reads anything, and touches none that is    *)
(* there already, be it the empty one of a dump that failed.                     *)
DumpOpens ==
  /\ pc = "open" /\ file = NoFile
  /\ pc' = "prepare"
  /\ file' = <<>>
  /\ UNCHANGED <<call, progress, result, transfer, target>>

DumpRefused ==
  /\ pc = "open" /\ file # NoFile
  /\ Leave(-1)
  /\ UNCHANGED <<words, file, target>>

Minimum(m, n) == IF m <= n THEN m ELSE n

RunStart_NotReset == wordsTransferredThisRun

(* The inner loops of stmReadAligned() and stmWriteAligned() count the words of  *)
(* the next transfer from zero, up to Chunk.                                    *)
RunStart == 0
Added == Minimum(Chunk - RunStart, wordCount - wordsTransferred)

NextRun(cmds) ==
  /\ wordsTransferred < wordCount
  /\ wordsTransferredThisRun' = RunStart + Added
  /\ wordsTransferred' = wordsTransferred + Added
  /\ Send(cmds)
  /\ UNCHANGED <<call, wordsStored, dataArray, result, file>>

Accepted == baseAddr % Align = 0

PrepareRead ==
  /\ pc = "prepare" /\ request.kind \in Reads /\ Accepted
  /\ NextRun(prepMemAccess((baseAddr \div 4) + wordsStored)
             \o [k \in 1 .. Added + 1 |-> Cmd("DRW_R", 0)])

PrepareWrite ==
  /\ pc = "prepare" /\ request.kind = "write" /\ Accepted
  /\ NextRun(prepMemAccess((baseAddr \div 4) + wordsTransferred)
             \o [k \in 1 .. Added |-> Cmd("DRW_W", request.data[wordsTransferred + k])])

(* com_readWord() and com_writeWord() *)
PrepareWord ==
  /\ pc = "prepare" /\ request.kind \in {"peek", "poke"}
  /\ Send(prepMemAccessNoAutoIncrease(baseAddr \div 4)
          \o IF request.kind = "peek" THEN <<Cmd("DRW_R", 0), Cmd("READBUF", 0)>>
             ELSE <<Cmd("DRW_W", request.data[1])>>)
  /\ UNCHANGED <<call, progress, result, file>>

(* "baseAddr not aligned": stmWriteAligned() is called with the user's address,   *)
(* stmReadAligned() with one that align2mem() has aligned.                       *)
RefuseUnaligned ==
  /\ pc = "prepare" /\ request.kind \in Reads \cup {"write"}
  /\ ~Accepted
  /\ Leave(-11)
  /\ UNCHANGED <<words, file, target>>

-----------------------------------------------------------------------------
(* comArrayTransfer() *)

Current == cmdArray[Len(replyArray) + 1]
Sending == pc = "transfer" /\ Len(replyArray) < Len(cmdArray)

(* The target performs the command. *)
CommandOk ==
  /\ Sending
  /\ Ack(target, Current) = 1
  /\ replyArray' = Append(replyArray, Reply(target, Current))
  /\ target' = Perform(target, Current)
  /\ UNCHANGED <<pc, call, progress, result, file, cmdArray>>

(* Nobody answers: the pulled-down line reads as 0, which the driver takes for  *)
(* success, with a data word of zero.                                          *)
CommandUnanswered ==
  /\ Sending
  /\ Ack(target, Current) = 0
  /\ replyArray' = Append(replyArray, 0)
  /\ UNCHANGED <<pc, call, progress, result, file, cmdArray, target>>

(* The transfer stops with error e.  The single-word functions do not look at   *)
(* it: com_readWord() returns the zero of the cleared reply.                    *)
Abandon(e) ==
  /\ Leave(e)
  /\ words' = IF request.kind = "peek" THEN <<0>> ELSE words
  /\ UNCHANGED <<file, target>>

CommandFault == Sending /\ Ack(target, Current) = 4 /\ Abandon(-4)

(* The target answers WAIT until the driver gives up; it can do so at any time. *)
CommandWaits == Sending /\ Abandon(-2)

(* The next transfer does not begin: another process has the device open.       *)
DeviceBusy ==
  /\ pc = "prepare"
  /\ request.kind \in {"peek", "poke"} \/ (Accepted /\ wordsTransferred < wordCount)
  /\ Abandon(-1)

Transferred == pc = "transfer" /\ Len(replyArray) = Len(cmdArray)

startIndex_Dummy == 7

(* The index of the first reply with data: seven set-up commands and the dummy  *)
(* read, whose own reply belongs to an earlier access.                          *)
startIndex == 8

(* stmReadAligned() stores the words of this transfer and goes on. *)
StoreWords ==
  /\ Transferred /\ request.kind \in Reads
  /\ pc' = "prepare"
  /\ dataArray' = [k \in DOMAIN dataArray |->
                     IF k - wordsStored \in 1 .. wordsTransferredThisRun
                       THEN comArrayRead(startIndex + k - wordsStored - 1) ELSE dataArray[k]]
  /\ wordsStored' = wordsStored + wordsTransferredThisRun
  /\ UNCHANGED <<call, wordsTransferred, wordsTransferredThisRun, result, file, transfer, target>>

GoOnWriting ==
  /\ Transferred /\ request.kind = "write"
  /\ pc' = "prepare"
  /\ UNCHANGED <<call, progress, result, file, transfer, target>>

ReturnWord ==
  /\ Transferred /\ request.kind \in {"peek", "poke"}
  /\ Leave(0)
  /\ words' = IF request.kind = "peek" THEN <<comArrayRead(8)>> ELSE words
  /\ UNCHANGED <<file, target>>

AllTransferred == pc = "prepare" /\ Accepted /\ wordsTransferred >= wordCount

WriteReturns ==
  /\ AllTransferred /\ request.kind = "write"
  /\ Leave(0)
  /\ UNCHANGED <<words, file, target>>

(* The words before the address that was asked for are dropped.                 *)
Delivered == SubSeq(dataArray, wordOffset + 1, wordCount)

FetchReturns ==
  /\ AllTransferred /\ request.kind = "fetch"
  /\ Leave(0)
  /\ words' = Delivered
  /\ UNCHANGED <<file, target>>

PrintReturns ==
  /\ AllTransferred /\ request.kind = "print"
  /\ Leave(0)
  /\ words' = Delivered
  /\ UNCHANGED <<file, target>>

DumpReturns ==
  /\ AllTransferred /\ request.kind = "dump"
  /\ Leave(0)
  /\ file' = Delivered
  /\ UNCHANGED <<words, target>>

-----------------------------------------------------------------------------

Running ==
  \/ DumpOpens \/ DumpRefused
  \/ PrepareRead \/ PrepareWrite \/ PrepareWord \/ RefuseUnaligned
  \/ CommandOk \/ CommandUnanswered \/ CommandFault \/ CommandWaits \/ DeviceBusy
  \/ StoreWords \/ GoOnWriting
  \/ ReturnWord \/ WriteReturns \/ FetchReturns \/ PrintReturns \/ DumpReturns

(* The target is unplugged or loses its power, at any time, and for good.       *)
Detach ==
  /\ Removable /\ target.attached
  /\ target' = [Fresh(target.mem) EXCEPT !.attached = FALSE]
  /\ UNCHANGED <<pc, call, progress, result, file, transfer>>

RemoveFile ==
  /\ pc = "idle" /\ file # NoFile
  /\ file' = NoFile
  /\ UNCHANGED <<pc, call, progress, result, transfer, target>>

Next == (\E r \in Requests : Call(r)) \/ Running \/ Detach \/ RemoveFile

Spec == Init /\ [][Next]_vars

FairSpec == Spec /\ WF_vars(Running)

-----------------------------------------------------------------------------
(* Properties *)

TypeOK ==
  /\ pc \in {"idle", "open", "prepare", "transfer"}
  /\ request \in Requests
  /\ wordsTransferredThisRun \in 0..Chunk
  /\ {wordsTransferred, wordsStored} \subseteq 0..wordCount
  /\ pc # "idle" => Len(dataArray) = wordCount
  /\ reply \in {0, -1, -2, -4, -11}
  /\ Len(replyArray) <= Len(cmdArray)
  /\ target \in Targets

(* Every access of a chunk reaches the address the code means: the transfer     *)
(* address register, which the target increments on its own and only within a   *)
(* block, is never wrapped around between two accesses of one transfer.         *)
Intended ==
  CASE request.kind \in Reads -> (baseAddr \div 4) + wordsStored
    [] request.kind = "write" -> (baseAddr \div 4) + wordsTransferred - wordsTransferredThisRun
    [] OTHER                  -> baseAddr \div 4

AddressesExact ==
  Sending /\ target.attached /\ Len(replyArray) \in 7 .. 6 + wordsTransferredThisRun =>
    target.tar = Intended + Len(replyArray) - 7

(* A call fails with FAULT only for the access right before the command that was  *)
(* refused, an access of the same transfer to a word the target does not have:    *)
(* no error left behind by an earlier transfer, its read-ahead behind the last     *)
(* word included, makes a later one fail.  That word lies where the call has to    *)
(* go, not behind it.  It need not be one that was asked for: a read starts at    *)
(* the aligned address, and fails if a word between that one and the first it      *)
(* was asked for is missing.                                                    *)
FaultAt == Intended + Len(replyArray) - 8

NoFalseAlarm ==
  [][pc # "idle" /\ pc' = "idle" /\ reply' = -4 =>
       /\ FaultAt \notin Mapped
       /\ FaultAt \in (baseAddr \div 4) .. (baseAddr \div 4) + wordCount - 1]_vars

(* A successful read delivers what is in the target's memory, a successful write  *)
(* has stored its words, and nothing else is ever touched: no other word of the   *)
(* memory and no file that was there.                                           *)
Copy == INSTANCE MemCopy WITH
  attached <- target.attached, mem <- target.mem,
  busy <- pc # "idle", made <- request.kind = "dump" /\ pc \in {"prepare", "transfer"},
  failed <- reply # 0 /\ request.kind \notin {"peek", "poke"}

ImplementsMemCopy == Copy!Spec

(* Every call returns: the outer loops make progress ("infinite loop would       *)
(* result if we do not set it to zero", cheese_memoryaccess.c:111).              *)
CallReturns == pc # "idle" ~> pc = "idle"

(* stmFetch() returns 0 only with the words of the target's memory.              *)
FetchDelivers ==
  [][pc # "idle" /\ pc' = "idle" /\ reply' = 0 /\ request.kind = "fetch" =>
       words' = [k \in 1 .. request.count |->
                   target.mem[(request.base \div 4) + k - 1]]]_vars

=============================================================================
