------------------------------ MODULE SWDPI_SWD ------------------------------
(***************************************************************************)
(* Transfers on the wire (SWDPI_SWD.c), one step per clock cycle.           *)
(*                                                                         *)
(* Host and target share one data line.  The host turns its pin between     *)
(* output and input; the target, which is no part of the repository, counts *)
(* the same cycles on its own and drives the line in the cycles that the    *)
(* protocol gives it.  Nothing but the count keeps the two in step.         *)
(*                                                                         *)
(* A request begins with the sequence that resets the target's side.  A     *)
(* transfer has the phases command, turn2read and ack, then, for a read,    *)
(* receive and turn2write, for a write, turn2write and send.  A WAIT        *)
(* inserts a turnaround (waitturn) and repeats the command.  Commands and   *)
(* data words are sequences of bits, the first bit on the wire first.       *)
(***************************************************************************)
EXTENDS Naturals, SequencesExt

CONSTANTS
  Cmds,                        \* the commands a user sends
  ABORT_CMD, CTRLSTAT_R_CMD,
  AbortWord,                   \* the word SWDGPIOBBD_abort() writes, 0x1F
  Words,                       \* the data words of host and target
  DataBits,                    \* bits of a data word, 32 in the code
  Acks,                        \* what the target may answer: 1 OK, 2 WAIT, 4 FAULT
  MaxTries,                    \* tries of a command answered with WAIT, 100 in the code
  ResetOnes                    \* ones in a row that reset the target, 50 in the protocol

Bits(len) == [1..len -> {0, 1}]
Ones(bits) == Cardinality({k \in DOMAIN bits : bits[k] = 1})
Reading(c) == c[3] = 1         \* the bit that lowLevelCmd & 0x4 tests

(* A header the target accepts: start, parity of four bits, stop, park. *)
Valid(h) == h[1] = 1 /\ Ones(SubSeq(h, 2, 5)) % 2 = h[6] /\ h[7] = 0 /\ h[8] = 1

ASSUME NumbersAssumption == DataBits \in Nat \ {0} /\ MaxTries \in Nat \ {0} /\ ResetOnes \in Nat \ {0}
(* A line reset is longer than a data word or a header, and 56 ones are enough to  *)
(* end whatever the target is in the middle of; 59 are, for a target that waits.  *)
ASSUME SizesAssumption == 8 < ResetOnes /\ DataBits + 1 < ResetOnes /\ DataBits + 15 <= 56 /\ ResetOnes <= 59
ASSUME WordsAssumption == Words \cup {AbortWord} \subseteq Bits(DataBits) /\ Words # {}
ASSUME AcksAssumption == Acks \subseteq {1, 2, 4}
ASSUME CmdsAssumption ==
  /\ Cmds \cup {ABORT_CMD, CTRLSTAT_R_CMD} \subseteq {h \in Bits(8) : Valid(h)}
  /\ Reading(CTRLSTAT_R_CMD) /\ ~Reading(ABORT_CMD)

VARIABLES
  job,        \* "none", "connect", "ready" (connected), "transfer", "ctrlstat", "abort",
              \* "disconnect"
  phase, n,   \* the phase on the wire and the cycle in it
  cmd, data, ack, abortcounter,   \* arguments and locals
  pin,        \* the direction of the host's data pin
  target,     \* the target's place in the protocol, with the bits of this place
  ones,       \* the ones in a row that the target has seen, up to ResetOnes
  performed,  \* history: the accesses the target performed in this job
  stray       \* history: data bits were sent that the target did not wait for

host == <<job, cmd, data, ack, abortcounter>>
line == <<pin, target, ones>>
vars == <<host, phase, n, line, performed, stray>>

Zero == [k \in 1..DataBits |-> 0]
IdleTarget == [state |-> "idle", got |-> <<>>, cmd |-> ABORT_CMD, ack |-> 1, word |-> Zero]

Init ==
  /\ job = "none" /\ phase = "idle" /\ n = 0
  /\ cmd = CTRLSTAT_R_CMD /\ data = Zero /\ ack = 0 /\ abortcounter = 0
  /\ pin = "output"
  /\ target = IdleTarget /\ ones = 0
  /\ performed = <<>> /\ stray = FALSE

-----------------------------------------------------------------------------
(* The target: what it does in a cycle in which the line carries bit l. *)

Driving == target.state \in {"ack", "rdata"}

TargetBit ==
  LET k == Len(target.got) + 1 IN
  IF target.state = "ack" THEN <<target.ack % 2, (target.ack \div 2) % 2, target.ack \div 4>>[k]
  ELSE IF k <= DataBits THEN target.word[k] ELSE Ones(target.word) % 2

Become(s) == target' = [target EXCEPT !.state = s, !.got = <<>>]
Collect(l) == target' = [target EXCEPT !.got = Append(@, l)]
Performs(word) == performed' = Append(performed, [cmd |-> target.cmd, word |-> word])

TargetIdle(l) ==
  /\ target.state = "idle"
  /\ target' = IF l = 1 THEN [target EXCEPT !.state = "header", !.got = <<1>>] ELSE target
  /\ UNCHANGED performed

(* A header it does not accept is a protocol error: the target is lost until    *)
(* the next line reset.                                                        *)
TargetHeader(l) ==
  LET h == Append(target.got, l) IN
  /\ target.state = "header"
  /\ \/ Len(h) < 8 /\ Collect(l)
     \/ Len(h) = 8 /\ ~Valid(h) /\ Become("lost")
     \/ /\ Len(h) = 8 /\ Valid(h)
        /\ \E a \in Acks : \E w \in IF a = 1 /\ Reading(h) THEN Words ELSE {Zero} :
             target' = [state |-> "turn", got |-> <<>>, cmd |-> h, ack |-> a, word |-> w]
  /\ UNCHANGED performed

TargetTurns ==
  /\ \/ target.state = "turn" /\ Become("ack")
     \/ /\ target.state = "turnback"
        /\ Become(IF target.ack = 1 /\ ~Reading(target.cmd) THEN "wdata" ELSE "idle")
  /\ UNCHANGED performed

TargetAck ==
  /\ target.state = "ack"
  /\ IF Len(target.got) < 2 THEN Collect(TargetBit)
     ELSE Become(IF target.ack = 1 /\ Reading(target.cmd) THEN "rdata" ELSE "turnback")
  /\ UNCHANGED performed

TargetSends ==
  /\ target.state = "rdata"
  /\ IF Len(target.got) < DataBits THEN Collect(TargetBit) /\ UNCHANGED performed
     ELSE Become("turnback") /\ Performs(target.word)

(* A word with a wrong parity bit is dropped. *)
TargetReceives(l) ==
  /\ target.state = "wdata"
  /\ IF Len(target.got) < DataBits THEN Collect(l) /\ UNCHANGED performed
     ELSE /\ Become("idle")
          /\ IF Ones(target.got) % 2 = l THEN Performs(target.got) ELSE UNCHANGED performed

TargetLost == target.state = "lost" /\ UNCHANGED <<target, performed>>

(* A line reset; a target that drives the line does not see what the host does.  *)
Counted(l) == IF Driving \/ l = 0 THEN 0 ELSE Min({ones + 1, ResetOnes})
TargetReset == target' = IdleTarget /\ UNCHANGED performed

TargetCycle(l) ==
  /\ ones' = Counted(l)
  /\ IF ones' = ResetOnes THEN TargetReset
     ELSE \/ TargetIdle(l) \/ TargetHeader(l) \/ TargetTurns \/ TargetAck
          \/ TargetSends \/ TargetReceives(l) \/ TargetLost

-----------------------------------------------------------------------------
(* The line: what either side drives, the pull-down otherwise. *)

Line(dir, bit) ==
  LET driven == (IF dir = "output" THEN {bit} ELSE {}) \cup (IF Driving THEN {TargetBit} ELSE {})
  IN IF driven = {} THEN {0} ELSE driven

(* One clock cycle; the pin has direction dir in it and an output carries bit. *)
Cycle(dir, bit, l) ==
  /\ l \in Line(dir, bit)
  /\ pin' = dir
  /\ TargetCycle(l)
  /\ stray' = (stray \/ (phase = "send" /\ n = 0 /\ target.state # "wdata"))

Advance(len, next) ==
  IF n + 1 < len THEN n' = n + 1 /\ UNCHANGED phase
  ELSE n' = 0 /\ phase' = next

DataPhase == IF Reading(cmd) THEN "receive" ELSE "turn2write"

-----------------------------------------------------------------------------
(* The host's cycles *)

(* 0xFF seven times, 0x9E, 0xE7, 0xFF seven times, 0x00; the sequence of 0x00.    *)
AllOnes == [k \in 1..56 |-> 1]
AllZeros == [k \in 1..8 |-> 0]
jtag2swd_OneReset == AllOnes \o <<0, 1, 1, 1, 1, 0, 0, 1>> \o <<1, 1, 1, 0, 0, 1, 1, 1>> \o AllZeros
swd_sequence_jtag2swd ==
  AllOnes \o <<0, 1, 1, 1, 1, 0, 0, 1>> \o <<1, 1, 1, 0, 0, 1, 1, 1>> \o AllOnes \o AllZeros
swd_sequence_null == AllZeros

SWDGPIOBBD_sequence(l) ==
  LET seq == IF job = "connect" THEN swd_sequence_jtag2swd ELSE swd_sequence_null IN
  /\ phase = "sequence"
  /\ Cycle(pin, seq[n + 1], l)
  /\ Advance(Len(seq), "done")
  /\ UNCHANGED host

SWDGPIOBBD_command(l) ==
  /\ phase = "command"
  /\ Cycle(pin, cmd[n + 1], l)
  /\ Advance(8, "turn2read")
  /\ UNCHANGED host

SWDGPIOBBD_cycleTurnaround2Read(l) ==
  /\ phase = "turn2read"
  /\ Cycle("input", 0, l)
  /\ Advance(1, "ack")
  /\ UNCHANGED host

(* The loop of a transfer and of abort() goes on after a WAIT; the read of      *)
(* CTRLSTAT in abort() is tried once.                                          *)
SWDGPIOBBD_receiveAck(l) ==
  /\ phase = "ack"
  /\ Cycle(pin, 0, l)
  /\ ack' = (IF n = 0 THEN 0 ELSE ack) + l * 2^n
  /\ abortcounter' = IF n = 2 THEN abortcounter + 1 ELSE abortcounter
  /\ Advance(3, IF ack' = 2 /\ job # "ctrlstat" THEN "waitturn" ELSE DataPhase)
  /\ UNCHANGED <<job, cmd, data>>

WaitTurn_OnceMore(l) ==
  /\ phase = "waitturn"
  /\ Cycle("output", 0, l)
  /\ Advance(1, IF abortcounter <= MaxTries THEN "command" ELSE DataPhase)
  /\ UNCHANGED host

(* SWDGPIOBBD_cycleTurnaround2Write() inside the loop. *)
WaitTurn(l) ==
  /\ phase = "waitturn"
  /\ Cycle("output", 0, l)
  /\ Advance(1, IF abortcounter < MaxTries THEN "command" ELSE DataPhase)
  /\ UNCHANGED host

ReceiveData_NoParity(l) ==
  /\ phase = "receive"
  /\ Cycle(pin, 0, l)
  /\ data' = IF n < DataBits THEN [data EXCEPT ![n + 1] = l] ELSE data
  /\ Advance(DataBits, "turn2write")
  /\ UNCHANGED <<job, cmd, ack, abortcounter>>

(* The parity bit is read, and the result of the comparison ignored. *)
SWDGPIOBBD_receiveData(l) ==
  /\ phase = "receive"
  /\ Cycle(pin, 0, l)
  /\ data' = IF n < DataBits THEN [data EXCEPT ![n + 1] = l] ELSE data
  /\ Advance(DataBits + 1, "turn2write")
  /\ UNCHANGED <<job, cmd, ack, abortcounter>>

SWDGPIOBBD_cycleTurnaround2Write(l) ==
  /\ phase = "turn2write"
  /\ Cycle("output", 0, l)
  /\ Advance(1, IF Reading(cmd) THEN "done" ELSE "send")
  /\ UNCHANGED host

SendData_EvenParity(l) ==
  /\ phase = "send"
  /\ Cycle(pin, IF n < DataBits THEN data[n + 1]
                ELSE IF n = DataBits THEN (Ones(data) + 1) % 2 ELSE 0, l)
  /\ Advance(DataBits + 3, "done")
  /\ UNCHANGED host

(* Data, parity and "two low cycles", whatever the acknowledge was. *)
SWDGPIOBBD_sendData(l) ==
  /\ phase = "send"
  /\ Cycle(pin, IF n < DataBits THEN data[n + 1] ELSE IF n = DataBits THEN Ones(data) % 2 ELSE 0, l)
  /\ Advance(DataBits + 3, "done")
  /\ UNCHANGED host

-----------------------------------------------------------------------------
(* The jobs *)

Sequence(j) ==
  /\ job' = j /\ phase' = "sequence"
  /\ UNCHANGED <<n, cmd, data, ack, abortcounter, line, performed, stray>>

(* write() begins with the jtag2swd sequence.                                    *)
StartRequest == job = "none" /\ Sequence("connect")

Connected ==
  /\ job = "connect" /\ phase = "done"
  /\ job' = "ready" /\ phase' = "idle"
  /\ stray' = FALSE /\ performed' = <<>>
  /\ UNCHANGED <<n, cmd, data, ack, abortcounter, line>>

EndRequest == job = "ready" /\ Sequence("disconnect")

Disconnected ==
  /\ job = "disconnect" /\ phase = "done"
  /\ job' = "none" /\ phase' = "idle"
  /\ UNCHANGED <<n, cmd, data, ack, abortcounter, line, performed, stray>>

Begin(j, c, d, firstPhase) ==
  /\ job' = j /\ cmd' = c /\ data' = d /\ abortcounter' = 0
  /\ phase' = firstPhase
  /\ UNCHANGED <<n, line, stray>>

SWDGPIOBBD_transfer(c, d) ==
  /\ job = "ready"
  /\ Begin("transfer", c, d, "command")
  /\ ack' = 2
  /\ performed' = <<>>

TransferOk ==
  /\ job = "transfer" /\ phase = "done" /\ ack <= 1
  /\ job' = "ready" /\ phase' = "idle"
  /\ UNCHANGED <<n, cmd, data, ack, abortcounter, line, performed, stray>>

(* The transfer failed: abort() reads CTRLSTAT first. *)
SWDGPIOBBD_abort ==
  /\ job = "transfer" /\ phase = "done" /\ ack > 1
  /\ Begin("ctrlstat", CTRLSTAT_R_CMD, data, "command")
  /\ ack' = 2
  /\ performed' = <<>>

(* The acknowledge of that read decides whether the loop that sends the ABORT   *)
(* command is entered at all; its data word is sent in any case.               *)
AbortLoop ==
  /\ job = "ctrlstat" /\ phase = "done"
  /\ Begin("abort", ABORT_CMD, AbortWord, IF ack = 2 THEN "command" ELSE "turn2write")
  /\ UNCHANGED <<ack, performed>>

(* The command loop ends, and write() goes on to the null sequence.              *)
AbortReturn == job = "abort" /\ phase = "done" /\ Sequence("disconnect")

-----------------------------------------------------------------------------

Clock == \E l \in {0, 1} :
  \/ SWDGPIOBBD_sequence(l) \/ SWDGPIOBBD_command(l) \/ SWDGPIOBBD_cycleTurnaround2Read(l) \/ SWDGPIOBBD_receiveAck(l)
  \/ WaitTurn(l) \/ SWDGPIOBBD_receiveData(l) \/ SWDGPIOBBD_cycleTurnaround2Write(l)
  \/ SWDGPIOBBD_sendData(l)

Driver == Clock \/ Connected \/ Disconnected \/ TransferOk \/ SWDGPIOBBD_abort \/ AbortLoop \/ AbortReturn

Next ==
  \/ StartRequest \/ EndRequest
  \/ \E c \in Cmds : \E d \in IF Reading(c) THEN {Zero} ELSE Words : SWDGPIOBBD_transfer(c, d)
  \/ Driver

Spec == Init /\ [][Next]_vars

(* The bit-banging loops are straight-line code. *)
FairSpec == Spec /\ WF_vars(Driver)

-----------------------------------------------------------------------------
(* Properties *)

TypeOK ==
  /\ job \in {"none", "connect", "ready", "transfer", "ctrlstat", "abort", "disconnect"}
  /\ phase \in {"idle", "sequence", "command", "turn2read", "ack", "waitturn", "receive", "turn2write",
                "send", "done"}
  /\ n \in 0 .. Max({DataBits + 8, Len(swd_sequence_jtag2swd)})
  /\ cmd \in Bits(8) /\ data \in Bits(DataBits)
  /\ ack \in 0..7 /\ abortcounter \in 0..MaxTries
  /\ pin \in {"input", "output"}
  /\ target.state \in {"idle", "header", "turn", "ack", "rdata", "turnback", "wdata", "lost"}
  /\ ones \in 0..ResetOnes
  /\ stray \in BOOLEAN

(* Every command of a transfer, a repeated one included, meets a target that    *)
(* waits for a header: turnarounds and data phases of host and target add up to *)
(* the same number of cycles after OK, WAIT and FAULT, and what follows a stray *)
(* data word never reaches another transfer.                                    *)
InStep ==
  job = "ready" \/ (job = "transfer" /\ phase = "command" /\ n = 0) =>
    target.state = "idle" /\ pin = "output"

(* Host and target never drive the line in the same cycle, as long as the host  *)
(* has sent no data word that the target did not wait for.                      *)
NoContention == [][~stray' /\ Clock => ~(Driving /\ pin' = "output")]_vars

(* The wire keeps what the command loop of write() relies on: a transfer that    *)
(* returns OK was performed exactly once, with the data word of the host (write) *)
(* or of the target (read); one that returns WAIT or FAULT, after any number of  *)
(* tries and whatever the target made of a stray data word, was not performed at *)
(* all; and every transfer, with its abort, comes to an end.                     *)
Stage ==
  CASE job = "transfer" -> "busy"
    [] job \in {"ctrlstat", "abort"} -> "failed"
    [] job = "ready" -> "ready"
    [] OTHER -> "none"

T == INSTANCE Transfer WITH
  Reads <- {c \in Cmds : Reading(c)},
  stage <- Stage,
  asked <- IF job = "transfer" THEN <<[cmd |-> cmd, word |-> IF Reading(cmd) THEN Zero ELSE data]>>
           ELSE <<>>,
  performed <- IF job = "transfer" THEN performed ELSE <<>>,
  answer <- IF job = "ready" /\ performed # <<>> THEN <<data>> ELSE <<>>

ImplementsTransfer == T!Spec

(* abort() clears the error flags: "ABORT register: [4]=clear the STICKYORUN,   *)
(* ... [2]=clear the STICKYERR" (SWDPI_SWD.c:134), so the target has performed  *)
(* the write to ABORT when it returns.                                          *)
AbortWritten ==
  job = "abort" /\ phase = "done" =>
    \E k \in DOMAIN performed : performed[k] = [cmd |-> ABORT_CMD, word |-> AbortWord]

=============================================================================
