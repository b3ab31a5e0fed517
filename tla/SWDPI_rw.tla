-------------------------------- MODULE SWDPI_rw --------------------------------
(***************************************************************************)
(* The write() and read() handlers of an open /dev/SWDPI (SWDPI_base.c):   *)
(* a write() runs a list of commands over the wire and leaves the replies  *)
(* in receiveBuffer, read() hands them out, and no further write() is      *)
(* accepted until everything has been read.                                *)
(*                                                                         *)
(* One user has the device open (SWDPI_open) and calls one handler at a    *)
(* time; the command loop of write() is one step per command, so that the  *)
(* target's acknowledge of each command is chosen when it is sent.  A      *)
(* command is a member of Cmds, and None is the all-zero 64-bit word.  A    *)
(* word of Headless is not zero, but its first byte, the packet request, is. *)
(***************************************************************************)
EXTENDS Integers, Sequences, FiniteSets

CONSTANTS
  Cmds,      \* the non-zero words a user writes
  Headless,  \* those of Cmds that hold no packet request
  None,      \* the zero word
  Acks,      \* the acknowledges a target may give
  Size,      \* sendBuffer_size and receiveBuffer_size (64 in the code)
  MaxCount,  \* bound: words in one write()
  MaxRead,   \* bound: words in one read()
  UintMod    \* the modulus of uint32_t arithmetic

ASSUME NoneAssumption == None \notin Cmds
ASSUME HeadlessAssumption == Headless \subseteq Cmds
ASSUME AcksAssumption == Acks \subseteq 0..7
ASSUME SizeAssumption == Size \in Nat \ {0} /\ MaxCount \in Nat /\ MaxRead \in Nat
ASSUME UintAssumption == UintMod \in Nat /\ UintMod > Size + 2 /\ UintMod > MaxRead

VARIABLES
  file,                        \* "closed", "idle" (open, no handler runs), "writing"
  sendBuffer, receiveBuffer,   \* Size cells each
  receiveBuffer_level, receiveBuffer_levelRead,
  SWDGPIOBBD_readwritelock,
  count, i,                    \* the command loop of write()
  ret,                         \* what the last handler returned
  user,                        \* the words the last read() since the last write()
                               \* has delivered
  request, wire,               \* history: the words of the last accepted write(),
                               \* and the replies on the wire since
  overrun                      \* history: the last write() or read() that was not
                               \* refused accessed a cell past the end of a buffer

buffers == <<sendBuffer, receiveBuffer>>
levels  == <<receiveBuffer_level, receiveBuffer_levelRead>>
loop    == <<count, i, request, wire, overrun>>
vars    == <<file, buffers, levels, SWDGPIOBBD_readwritelock, loop, ret, user>>

Cells == 0 .. Size - 1
Entry == [cmd : Cmds \cup {None}, ack : Acks \cup {0}]
New(c) == [cmd |-> c, ack |-> 0]
Zeroed == [k \in Cells |-> New(None)]

(* What a load of cell k may yield: past the end lies memory of somebody else.   *)
Loaded(buffer, k) == IF k \in Cells THEN {buffer[k]} ELSE Entry

Requests == UNION {[1..n -> Cmds \cup {None}] : n \in 0..MaxCount}

Init ==
  /\ file = "closed"
  /\ sendBuffer = Zeroed /\ receiveBuffer = Zeroed
  /\ receiveBuffer_level = 0 /\ receiveBuffer_levelRead = 0
  /\ SWDGPIOBBD_readwritelock = 0
  /\ count = 0 /\ i = 0
  /\ request = <<>> /\ wire = <<>> /\ overrun = FALSE
  /\ ret = 0
  /\ user = <<>>

Open_LevelKept ==
  /\ file = "closed"
  /\ file' = "idle"
  /\ sendBuffer' = Zeroed /\ receiveBuffer' = Zeroed
  /\ SWDGPIOBBD_readwritelock' = 0
  /\ ret' = 0
  /\ UNCHANGED <<levels, loop, user>>

(* A successful open(): two buffers fresh from kcalloc(), levels and lock reset. *)
Open ==
  /\ file = "closed"
  /\ file' = "idle"
  /\ sendBuffer' = Zeroed /\ receiveBuffer' = Zeroed
  /\ receiveBuffer_level' = 0 /\ receiveBuffer_levelRead' = 0
  /\ SWDGPIOBBD_readwritelock' = 0
  /\ ret' = 0
  /\ UNCHANGED <<loop, user>>

(* release() frees the buffers.  The levels and the lock stay as they are.       *)
Close ==
  /\ file = "idle"
  /\ file' = "closed"
  /\ sendBuffer' = Zeroed /\ receiveBuffer' = Zeroed
  /\ count' = 0 /\ i' = 0 /\ ret' = 0
  /\ request' = <<>> /\ wire' = <<>> /\ user' = <<>> /\ overrun' = FALSE
  /\ UNCHANGED <<levels, SWDGPIOBBD_readwritelock>>

-----------------------------------------------------------------------------
(* write() *)

WriteError_LevelIgnored(n, ragged) ==
  IF SWDGPIOBBD_readwritelock = 1 THEN -1
  ELSE IF ragged THEN -3
  ELSE IF n > Size THEN -1 ELSE 0

(* The error a write() of n words is refused with, 0 if it is accepted; ragged *)
(* says that its length is no multiple of 8 bytes.                             *)
WriteError(n, ragged) ==
  IF SWDGPIOBBD_readwritelock = 1 THEN -1
  ELSE IF ragged THEN -3
  ELSE IF receiveBuffer_level # 0 THEN -2
  ELSE IF n > Size THEN -1 ELSE 0

WriteRefused(n, ragged) ==
  /\ file = "idle"
  /\ WriteError(n, ragged) # 0
  /\ ret' = WriteError(n, ragged)
  /\ UNCHANGED <<file, buffers, levels, SWDGPIOBBD_readwritelock, loop, user>>

(* The copy loop stores a command at its own index and counts the non-zero ones. *)
WriteStart(r) ==
  /\ file = "idle"
  /\ WriteError(Len(r), FALSE) = 0
  /\ file' = "writing"
  /\ sendBuffer' = [k \in Cells |-> IF k + 1 \in DOMAIN r /\ r[k + 1] # None
                                      THEN New(r[k + 1]) ELSE sendBuffer[k]]
  /\ count' = Cardinality({k \in DOMAIN r : r[k] # None})
  /\ i' = 0
  /\ request' = r
  /\ wire' = <<>>
  /\ user' = <<>> /\ overrun' = FALSE
  /\ UNCHANGED <<receiveBuffer, levels, SWDGPIOBBD_readwritelock, ret>>

(* SWDGPIOBBD_transfer() fails on a word whose first byte is zero, which it does *)
(* not send and leaves as it is, and on any acknowledge above 1.  The copy loop   *)
(* has tested the whole word instead.                                           *)
Unsent == Headless \cup {None}
Reply(ack) == LET e == sendBuffer[i] IN
  IF e.cmd \in Unsent THEN e ELSE [e EXCEPT !.ack = ack]
Failed(e) == e.cmd \in Unsent \/ e.ack > 1

TransferOk(ack) ==
  /\ file = "writing" /\ i < count
  /\ ~Failed(Reply(ack))
  /\ sendBuffer' = [sendBuffer EXCEPT ![i] = Reply(ack)]
  /\ receiveBuffer' = [receiveBuffer EXCEPT ![receiveBuffer_level] = Reply(ack)]
  /\ receiveBuffer_level' = receiveBuffer_level + 1
  /\ i' = i + 1
  /\ wire' = Append(wire, Reply(ack))
  /\ overrun' = (overrun \/ {i, receiveBuffer_level} \ Cells # {})
  /\ UNCHANGED <<file, receiveBuffer_levelRead, SWDGPIOBBD_readwritelock, count,
                 request, ret, user>>

TransferError_Continue(ack) ==
  /\ file = "writing" /\ i < count
  /\ Failed(Reply(ack))
  /\ sendBuffer' = [sendBuffer EXCEPT ![i] = Reply(ack)]
  /\ receiveBuffer' = [receiveBuffer EXCEPT ![receiveBuffer_level] = Reply(ack)]
  /\ receiveBuffer_level' = receiveBuffer_level + 1
  /\ i' = i + 1
  /\ wire' = Append(wire, Reply(ack))
  /\ UNCHANGED <<file, receiveBuffer_levelRead, SWDGPIOBBD_readwritelock, count,
                 request, overrun, ret, user>>

(* The failed command is stored "so that we get the error back", i becomes      *)
(* count, and the loop body goes on to store sendBuffer[count] after it, which    *)
(* may lie past the end, and so may the cell it is stored in.                    *)
TransferError(ack) ==
  /\ file = "writing" /\ i < count
  /\ Failed(Reply(ack))
  /\ sendBuffer' = [sendBuffer EXCEPT ![i] = Reply(ack)]
  /\ \E after \in Loaded(sendBuffer, count) :
       receiveBuffer' = [receiveBuffer EXCEPT ![receiveBuffer_level] = Reply(ack),
                                              ![receiveBuffer_level + 1] = after]
  /\ receiveBuffer_level' = receiveBuffer_level + 2
  /\ i' = count + 1
  /\ wire' = Append(wire, Reply(ack))
  /\ overrun' = (overrun \/ {i, count, receiveBuffer_level, receiveBuffer_level + 1} \ Cells # {})
  /\ UNCHANGED <<file, receiveBuffer_levelRead, SWDGPIOBBD_readwritelock, count,
                 request, ret, user>>

WriteReturn ==
  /\ file = "writing" /\ i >= count
  /\ file' = "idle"
  /\ ret' = receiveBuffer_level
  /\ UNCHANGED <<buffers, levels, SWDGPIOBBD_readwritelock, loop, user>>

-----------------------------------------------------------------------------
(* read() *)

(* Refused for its length, or because nothing is left: the lock stays set.      *)
ReadRefused(ragged) ==
  /\ file = "idle"
  /\ SWDGPIOBBD_readwritelock' = 1
  /\ \/ /\ ragged
        /\ ret' = -3
        /\ UNCHANGED levels
     \/ /\ ~ragged /\ receiveBuffer_level = 0
        /\ ret' = -1
        /\ UNCHANGED levels
     \/ /\ ~ragged /\ receiveBuffer_level # 0
        /\ receiveBuffer_level = receiveBuffer_levelRead
        /\ ret' = -1
        /\ receiveBuffer_level' = 0 /\ receiveBuffer_levelRead' = 0
  /\ UNCHANGED <<file, buffers, loop, user>>

Available == (receiveBuffer_level - receiveBuffer_levelRead) % UintMod

(* copy_to_user() of the n words that were asked for, from the start of the      *)
(* buffer, whatever has been read before, however many are left and however      *)
(* large the buffer is.                                                         *)
CopyToUser(n) ==
  /\ \E past \in [Size + 1 .. n -> Entry] :
       user' = [k \in 1..n |-> IF k <= Size THEN receiveBuffer[k - 1] ELSE past[k]]
  /\ overrun' = (n > Size)

ReadOk_NoReset(n) ==
  /\ file = "idle"
  /\ receiveBuffer_level \notin {0, receiveBuffer_levelRead}
  /\ CopyToUser(n)
  /\ receiveBuffer_levelRead' = (receiveBuffer_levelRead + n) % UintMod
  /\ SWDGPIOBBD_readwritelock' = 0
  /\ UNCHANGED <<file, buffers, receiveBuffer_level, count, i, request, wire>>
  /\ ret' = Available'

ReadOk_LockKept(n) ==
  /\ file = "idle"
  /\ receiveBuffer_level \notin {0, receiveBuffer_levelRead}
  /\ CopyToUser(n)
  /\ LET levelRead == (receiveBuffer_levelRead + n) % UintMod
         drained == levelRead = receiveBuffer_level IN
     /\ receiveBuffer_level' = IF drained THEN 0 ELSE receiveBuffer_level
     /\ receiveBuffer_levelRead' = IF drained THEN 0 ELSE levelRead
  /\ SWDGPIOBBD_readwritelock' = IF receiveBuffer_level' = 0 THEN 0 ELSE 1
  /\ ret' = Available'
  /\ UNCHANGED <<file, buffers, count, i, request, wire>>

ReadOk(n) ==
  /\ file = "idle"
  /\ receiveBuffer_level \notin {0, receiveBuffer_levelRead}
  /\ CopyToUser(n)
  /\ LET levelRead == (receiveBuffer_levelRead + n) % UintMod
         drained == levelRead = receiveBuffer_level IN
     /\ receiveBuffer_level' = IF drained THEN 0 ELSE receiveBuffer_level
     /\ receiveBuffer_levelRead' = IF drained THEN 0 ELSE levelRead
  /\ SWDGPIOBBD_readwritelock' = 0
  /\ ret' = Available'
  /\ UNCHANGED <<file, buffers, count, i, request, wire>>

-----------------------------------------------------------------------------

Writing == WriteReturn \/ \E ack \in Acks : TransferOk(ack) \/ TransferError(ack)

Use ==
  \/ \E n \in 0..MaxCount, ragged \in BOOLEAN : WriteRefused(n, ragged)
  \/ \E r \in Requests : WriteStart(r)
  \/ Writing
  \/ \E ragged \in BOOLEAN : ReadRefused(ragged)
  \/ \E n \in 0..MaxRead : ReadOk(n)

Next == Open \/ Close \/ Use

Spec == Init /\ [][Next]_vars

-----------------------------------------------------------------------------
(* Properties *)

TypeOK ==
  /\ file \in {"closed", "idle", "writing"}
  /\ sendBuffer \in [Cells -> Entry]
  /\ receiveBuffer \in [Cells -> Entry]
  /\ receiveBuffer_level \in 0 .. Size + 1
  /\ receiveBuffer_levelRead \in 0 .. UintMod - 1
  /\ SWDGPIOBBD_readwritelock \in {0, 1}
  /\ count \in 0..MaxCount
  /\ i \in 0 .. count + 1
  /\ ret \in Int
  /\ overrun \in BOOLEAN

(* The cells of the waiting replies that hold a failed command. *)
FailedCells == {k \in Cells : k < receiveBuffer_level /\ Failed(receiveBuffer[k])}

(* The replies that wait for the user answer the commands it wrote, each at its  *)
(* command's place, and they say how far the commands got: if none of them is a   *)
(* failed one every command was sent and answered, and otherwise the first failed *)
(* one is the last command that was sent.  (What write() returns does not say     *)
(* it: after a failure there is one more word in the buffer than was sent, which  *)
(* looks like success when the last command but one has failed.)                 *)
(* Zero words are not counted (SWDPI_base.c:218), but keep their places: with     *)
(* zero words in the request what is sent at their places is left open, and so    *)
(* many commands at the end of the request are not sent; all other words are      *)
(* still answered at their own places.                                          *)
RepliesMatchRequest ==
  file # "closed" /\ receiveBuffer_level # 0 =>
    /\ Len(wire) <= count /\ count <= Len(request) /\ Len(wire) <= receiveBuffer_level
    /\ (\A k \in DOMAIN request : request[k] # None) => count = Len(request)
    /\ \A k \in DOMAIN wire : /\ request[k] # None => wire[k].cmd = request[k]
                              /\ receiveBuffer[k - 1] = wire[k]
    /\ IF FailedCells = {}
         THEN file = "idle" => Len(wire) = count
         ELSE Len(wire) - 1 \in FailedCells /\ \A k \in FailedCells : Len(wire) - 1 <= k

(* Two things only make a handler read or write past the end of a buffer: a       *)
(* read() of more words than the buffer holds, since copy_to_user() takes the     *)
(* user's length (SWDPI_base.c:328), and a write() of a request that fills the    *)
(* buffer, since a failed command stores two words (SWDPI_base.c:250).  No        *)
(* sequence of other calls does, whatever levels earlier ones have left.          *)
InBounds == overrun => Len(user) > Size \/ Len(request) = Size

(* The words write() left for the user stay as they are until read() has        *)
(* delivered them or the device is closed: no second write() starts.            *)
UnreadKept ==
  [][file = "idle" /\ receiveBuffer_level # 0 /\ file' # "closed" =>
       receiveBuffer' = receiveBuffer /\ file' = "idle"]_vars

(* A read() that is refused leaves the read/write lock set (SWDPI_base.c:284),   *)
(* and every later write() is refused for it: no user whose last call succeeded   *)
(* meets such a lock, and neither does a user who has just opened the device.     *)
StuckLockShows == file # "closed" /\ SWDGPIOBBD_readwritelock = 1 => file = "idle" /\ ret < 0

(* The branch of read() for a buffer that "has been read but somehow levels     *)
(* have not been reset" (SWDPI_base.c:302) is never taken.                      *)
LevelsReset == receiveBuffer_level # 0 => receiveBuffer_level # receiveBuffer_levelRead

(* read() "only returns available data" (SWDPI_base.c:313): what it delivers    *)
(* is the part of the replies not read yet, or a prefix of it.                  *)
OnlyAvailableData ==
  [][user' # user =>
      /\ Len(user') <= receiveBuffer_level - receiveBuffer_levelRead
      /\ \A k \in DOMAIN user' :
           receiveBuffer_levelRead + k - 1 \in Cells =>
             user'[k] = receiveBuffer[receiveBuffer_levelRead + k - 1]]_vars

-----------------------------------------------------------------------------
(* The inductive strengthening: how far the command loop has got, and that     *)
(* levelRead counts only words of the current replies.                         *)

LoopInv ==
  /\ count <= Size
  /\ receiveBuffer_level = 0 => receiveBuffer_levelRead = 0
  /\ file = "writing" =>
       /\ receiveBuffer_levelRead = 0
       /\ IF i <= count THEN receiveBuffer_level = i
          ELSE receiveBuffer_level \in 2 .. count + 1

IInv == TypeOK /\ LoopInv /\ LevelsReset

=============================================================================
