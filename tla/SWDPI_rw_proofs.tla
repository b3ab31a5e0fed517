---------------------------- MODULE SWDPI_rw_proofs ----------------------------
(***************************************************************************)
(* Proofs about write() and read() for any commands, buffer size and       *)
(* request length.                                                         *)
(***************************************************************************)
EXTENDS SWDPI_rw, FiniteSetTheorems, TLAPS

USE NoneAssumption, HeadlessAssumption, AcksAssumption, SizeAssumption, UintAssumption

(* The copy loop of write() counts at most as many commands as it was given. *)
LEMMA RealCount ==
  ASSUME NEW r \in Requests
  PROVE  /\ Len(r) \in 0..MaxCount
         /\ Cardinality({k \in DOMAIN r : r[k] # None}) \in 0 .. Len(r)
         /\ (\A k \in DOMAIN r : r[k] # None) =>
              Cardinality({k \in DOMAIN r : r[k] # None}) = Len(r)
<1> DEFINE N == {k \in DOMAIN r : r[k] # None}
<1>1. PICK n \in 0..MaxCount : r \in [1..n -> Cmds \cup {None}]
  BY DEF Requests
<1>2. Len(r) = n /\ DOMAIN r = 1..n
  BY <1>1
<1>3. IsFiniteSet(1..n) /\ Cardinality(1..n) = n
  BY FS_Interval
<1>4. IsFiniteSet(N) /\ Cardinality(N) <= n
  BY <1>2, <1>3, FS_Subset
<1>5. Cardinality(N) \in Nat
  BY <1>4, FS_CardinalityType
<1>6. Len(r) \in 0..MaxCount /\ Cardinality(N) \in 0 .. Len(r)
  BY <1>2, <1>3, <1>4, <1>5
<1>7. ASSUME \A k \in DOMAIN r : r[k] # None
      PROVE  Cardinality(N) = Len(r)
  <2>1. N = 1..n
    BY <1>2, <1>7
  <2>2. QED
    BY <1>2, <1>3, <2>1, Zenon
<1>8. QED
  BY <1>6, <1>7, Zenon

(* uint32_t arithmetic stays within uint32_t. *)
LEMMA Wraps ==
  ASSUME NEW x \in Int
  PROVE  x % UintMod \in 0 .. UintMod - 1
  OBVIOUS

LEMMA Below == \A n \in Nat : \A k \in 0 .. n - 1 : k \in Nat /\ k < n
  OBVIOUS

LEMMA NewEntry ==
  /\ New(None) \in Entry
  /\ \A c \in Cmds : New(c) \in Entry
  /\ Zeroed \in [Cells -> Entry]
  BY DEF New, Entry, Zeroed

LEMMA ReplyEntry ==
  ASSUME TypeOK, NEW ack \in Acks
  PROVE  /\ i \in Cells => Reply(ack) \in Entry
         /\ Loaded(sendBuffer, count) \subseteq Entry
<1>1. \A k \in Cells : sendBuffer[k] \in Entry
  BY DEF TypeOK
<1>2. QED
  BY <1>1 DEF Reply, Loaded, Entry

-----------------------------------------------------------------------------

LEMMA InitIInv == Init => IInv
<1> SUFFICES ASSUME Init
             PROVE  IInv
  OBVIOUS
<1>1. TypeOK
  <2>1. overrun \in BOOLEAN /\ sendBuffer \in [Cells -> Entry] /\ receiveBuffer \in [Cells -> Entry]
    BY NewEntry DEF Init
  <2>2. QED
    BY <2>1 DEF Init, TypeOK
<1>2. LoopInv /\ LevelsReset
  BY DEF Init, LoopInv, LevelsReset
<1>3. QED
  BY <1>1, <1>2 DEF IInv

(* The steps of write() and the other steps preserve IInv, action by action. *)
LEMMA WriteIInv ==
  ASSUME IInv, Writing \/ \E r \in Requests : WriteStart(r)
  PROVE  IInv'
<1>1. TypeOK /\ LoopInv /\ LevelsReset
  BY DEF IInv
<1>2. CASE \E r \in Requests : WriteStart(r)
  <2>1. PICK r \in Requests : WriteStart(r)
    BY <1>2
  <2>2. receiveBuffer_level = 0 /\ Len(r) <= Size
    BY <2>1, <1>1, RealCount DEF WriteStart, WriteError
  <2>3. count' \in 0..MaxCount /\ count' <= Size
    BY <2>1, <2>2, RealCount DEF WriteStart
  <2>4. r \in [DOMAIN r -> Cmds \cup {None}]
    BY DEF Requests
  <2>5. sendBuffer' \in [Cells -> Entry]
    BY <2>1, <2>4, <1>1, NewEntry DEF WriteStart, TypeOK
  <2>9. overrun' \in BOOLEAN
    BY <2>1 DEF WriteStart
  <2>6. TypeOK'
    BY <2>1, <2>3, <2>5, <2>9, <1>1 DEF WriteStart, TypeOK, levels
  <2>7. LoopInv' /\ LevelsReset'
    BY <2>1, <2>2, <2>3, <1>1 DEF WriteStart, LoopInv, LevelsReset, levels
  <2>8. QED
    BY <2>6, <2>7 DEF IInv
<1>3. ASSUME NEW ack \in Acks, TransferOk(ack)
      PROVE  IInv'
  <2>2. i \in Nat /\ i < count /\ receiveBuffer_level = i /\ count \in 0..MaxCount /\ count <= Size
    BY <1>1, <1>3 DEF TransferOk, TypeOK, LoopInv
  <2>1. Reply(ack) \in Entry
    BY <1>1, <2>2, ReplyEntry DEF Cells
  <2>3. TypeOK'
    <3>1. overrun' \in BOOLEAN
      BY <1>3 DEF TransferOk
    <3>2. sendBuffer' \in [Cells -> Entry] /\ receiveBuffer' \in [Cells -> Entry]
      BY <1>1, <1>3, <2>1 DEF TransferOk, TypeOK
    <3>3. QED
      BY <1>1, <1>3, <2>2, <3>1, <3>2 DEF TransferOk, TypeOK
  <2>4. LoopInv' /\ LevelsReset'
    BY <1>1, <1>3, <2>2 DEF TransferOk, LoopInv, LevelsReset
  <2>5. QED
    BY <2>3, <2>4 DEF IInv
<1>4. ASSUME NEW ack \in Acks, TransferError(ack)
      PROVE  IInv'
  <2>2. i \in Nat /\ i < count /\ receiveBuffer_level = i /\ count \in 0..MaxCount /\ count <= Size
    BY <1>1, <1>4 DEF TransferError, TypeOK, LoopInv
  <2>1. Reply(ack) \in Entry /\ Loaded(sendBuffer, count) \subseteq Entry
    BY <1>1, <2>2, ReplyEntry DEF Cells
  <2>3. TypeOK'
    <3>1. overrun' \in BOOLEAN
      BY <1>4 DEF TransferError
    <3>2. sendBuffer' \in [Cells -> Entry] /\ receiveBuffer' \in [Cells -> Entry]
      <4>1. PICK after \in Entry :
              receiveBuffer' = [receiveBuffer EXCEPT ![receiveBuffer_level] = Reply(ack),
                                                     ![receiveBuffer_level + 1] = after]
        BY <1>4, <2>1 DEF TransferError
      <4>2. QED
        BY <1>1, <1>4, <2>1, <4>1 DEF TransferError, TypeOK
    <3>3. QED
      BY <1>1, <1>4, <2>2, <3>1, <3>2 DEF TransferError, TypeOK
  <2>4. LoopInv' /\ LevelsReset'
    BY <1>1, <1>4, <2>2 DEF TransferError, LoopInv, LevelsReset
  <2>5. QED
    BY <2>3, <2>4 DEF IInv
<1>5. ASSUME WriteReturn
      PROVE  IInv'
  <2>1. TypeOK'
    BY <1>1, <1>5 DEF WriteReturn, TypeOK, buffers, levels, loop
  <2>2. LoopInv' /\ LevelsReset'
    BY <1>1, <1>5 DEF WriteReturn, LoopInv, LevelsReset, buffers, levels, loop
  <2>3. QED
    BY <2>1, <2>2 DEF IInv
<1>6. QED
  BY <1>2, <1>3, <1>4, <1>5 DEF Writing

LEMMA OtherIInv ==
  ASSUME IInv, Next, ~Writing, ~(\E r \in Requests : WriteStart(r))
  PROVE  IInv'
<1>1. TypeOK /\ LoopInv /\ LevelsReset
  BY DEF IInv
<1> USE DEF IInv, buffers, levels, loop
<1>2. CASE Open
  <2>1. TypeOK'
    BY <1>1, <1>2, NewEntry DEF Open, TypeOK
  <2>2. QED
    BY <1>1, <1>2, <2>1 DEF Open, LoopInv, LevelsReset
<1>3. CASE Close
  <2>3. overrun' \in BOOLEAN
    BY <1>3 DEF Close
  <2>1. TypeOK'
    BY <1>1, <1>3, <2>3, NewEntry DEF Close, TypeOK
  <2>2. QED
    BY <1>1, <1>3, <2>1 DEF Close, LoopInv, LevelsReset
<1>4. ASSUME NEW n \in 0..MaxCount, NEW ragged \in BOOLEAN, WriteRefused(n, ragged)
      PROVE  IInv'
  <2>1. WriteError(n, ragged) \in Int
    BY DEF WriteError
  <2>2. QED
    BY <1>1, <1>4, <2>1 DEF WriteRefused, TypeOK, LoopInv, LevelsReset
<1>5. ASSUME NEW ragged \in BOOLEAN, ReadRefused(ragged)
      PROVE  IInv'
  BY <1>1, <1>5 DEF ReadRefused, TypeOK, LoopInv, LevelsReset
<1>6. ASSUME NEW n \in 0..MaxRead, ReadOk(n)
      PROVE  IInv'
  <2>1. (receiveBuffer_levelRead + n) % UintMod \in 0 .. UintMod - 1
    BY <1>1, Wraps DEF TypeOK
  <2>2. /\ receiveBuffer_level' \in 0 .. Size + 1
        /\ receiveBuffer_levelRead' \in 0 .. UintMod - 1
        /\ receiveBuffer_level' = 0 => receiveBuffer_levelRead' = 0
        /\ receiveBuffer_level' # 0 => receiveBuffer_level' # receiveBuffer_levelRead'
    BY <1>1, <1>6, <2>1 DEF ReadOk, TypeOK, LoopInv
  <2>3. ret' \in Int
    BY <1>6, <2>2, Wraps DEF ReadOk, Available
  <2>4. TypeOK'
    BY <1>1, <1>6, <2>2, <2>3 DEF ReadOk, CopyToUser, TypeOK
  <2>5. QED
    BY <1>1, <1>6, <2>2, <2>4 DEF ReadOk, LoopInv, LevelsReset
<1>7. QED
  BY <1>2, <1>3, <1>4, <1>5, <1>6 DEF Next, Use

LEMMA IInvStep == IInv /\ [Next]_vars => IInv'
<1>1. ASSUME IInv, UNCHANGED vars
      PROVE  IInv'
  BY <1>1 DEF IInv, TypeOK, LoopInv, LevelsReset, vars, buffers, levels, loop
<1>2. QED
  BY <1>1, WriteIInv, OtherIInv

-----------------------------------------------------------------------------
(* The levels, the buffers and the loop of write() keep their types: whatever   *)
(* is written and answered, the replies never exceed one word past the buffer.  *)
THEOREM TypeCorrect == Spec => []TypeOK
<1>1. IInv => TypeOK
  BY DEF IInv
<1>2. QED
  BY <1>1, InitIInv, IInvStep, PTL DEF Spec

(* read() never meets a drained buffer whose levels were not reset: its own     *)
(* reset after the copy is enough, for any sequence of calls.                   *)
THEOREM DrainedIsReset == Spec => []LevelsReset
<1>1. IInv => LevelsReset
  BY DEF IInv
<1>2. QED
  BY <1>1, InitIInv, IInvStep, PTL DEF Spec

(* A handler leaves the buffers only in a read() of more words than they hold or  *)
(* in a write() of a request that fills them, whatever was called before, however *)
(* large the buffers are and however the target answers.                         *)
THEOREM NoOverrun == Spec => []InBounds
<1> DEFINE InLoop == file = "writing" => count <= Len(request) /\ Len(request) \in 0..Size
           BInv == InBounds /\ InLoop
<1>1. Init => BInv
  BY DEF Init, InBounds
<1>2. IInv /\ BInv /\ [Next]_vars => BInv'
  <2> SUFFICES ASSUME IInv, InBounds, InLoop, [Next]_vars
               PROVE  InBounds' /\ InLoop'
    OBVIOUS
  <2>1. CASE UNCHANGED vars
    BY <2>1 DEF vars, loop, InBounds
  <2>2. CASE Open \/ Close
    BY <2>2 DEF Open, Close, loop, InBounds
  <2>3. ASSUME NEW r \in Requests, WriteStart(r)
        PROVE  InBounds' /\ InLoop'
    <3>1. Len(r) <= Size /\ Len(r) \in Nat /\ count' <= Len(r) /\ request' = r /\ overrun' = FALSE
      BY <2>3, RealCount DEF WriteStart, WriteError
    <3>2. QED
      BY <3>1 DEF InBounds
  <2>4. ASSUME NEW ack \in Acks, TransferOk(ack) \/ TransferError(ack)
        PROVE  InBounds' /\ InLoop'
    <3>1. /\ i \in Nat /\ i < count /\ receiveBuffer_level = i /\ count \in Nat
          /\ count <= Len(request) /\ Len(request) \in 0..Size
      BY <2>4 DEF IInv, TypeOK, LoopInv, TransferOk, TransferError
    <3>2. InLoop' /\ UNCHANGED <<request, user>>
      BY <2>4, <3>1 DEF TransferOk, TransferError
    <3>3. ASSUME Len(request) < Size
          PROVE  {i, count, receiveBuffer_level, receiveBuffer_level + 1} \subseteq Cells
      BY <3>1, <3>3 DEF Cells
    <3>4. CASE Len(request) = Size
      BY <3>2, <3>4 DEF InBounds
    <3>5. CASE Len(request) < Size
      <4>1. /\ {i, receiveBuffer_level} \ Cells = {}
            /\ {i, count, receiveBuffer_level, receiveBuffer_level + 1} \ Cells = {}
        BY <3>3, <3>5
      <4>2. overrun' => overrun
        BY <2>4, <4>1, Zenon DEF TransferOk, TransferError
      <4>3. QED
        BY <3>2, <4>2 DEF InBounds
    <3>6. QED
      BY <3>1, <3>4, <3>5
  <2>5. CASE WriteReturn
    BY <2>5 DEF WriteReturn, loop, InBounds
  <2>6. ASSUME NEW n \in 0..MaxCount, NEW ragged \in BOOLEAN, WriteRefused(n, ragged)
        PROVE  InBounds' /\ InLoop'
    BY <2>6 DEF WriteRefused, loop, InBounds
  <2>7. ASSUME NEW ragged \in BOOLEAN, ReadRefused(ragged)
        PROVE  InBounds' /\ InLoop'
    BY <2>7 DEF ReadRefused, loop, InBounds
  <2>8. ASSUME NEW n \in 0..MaxRead, ReadOk(n)
        PROVE  InBounds' /\ InLoop'
    <3>1. Len(user') = n /\ overrun' = (n > Size) /\ file' # "writing"
      BY <2>8 DEF ReadOk, CopyToUser
    <3>2. QED
      BY <3>1 DEF InBounds
  <2>9. QED
    BY <2>1, <2>2, <2>3, <2>4, <2>5, <2>6, <2>7, <2>8 DEF Next, Use, Writing
<1>3. BInv => InBounds
  OBVIOUS
<1>4. QED
  BY <1>1, <1>2, <1>3, InitIInv, IInvStep, PTL DEF Spec

(* Replies that have not been read are never overwritten by a second write().   *)
THEOREM RepliesKept == Spec => UnreadKept
<1>1. [Next]_vars => [file = "idle" /\ receiveBuffer_level # 0 /\ file' # "closed" =>
                        receiveBuffer' = receiveBuffer /\ file' = "idle"]_vars
  <2> SUFFICES ASSUME Next, file = "idle", receiveBuffer_level # 0, file' # "closed"
               PROVE  receiveBuffer' = receiveBuffer /\ file' = "idle"
    BY DEF vars, buffers
  <2>1. \A r \in Requests : ~WriteStart(r)
    BY DEF WriteStart, WriteError
  <2>2. ~Writing /\ ~Open /\ ~Close
    BY DEF Writing, WriteReturn, TransferOk, TransferError, Open, Close
  <2>3. QED
    BY <2>1, <2>2 DEF Next, Use, WriteRefused, ReadRefused, ReadOk, buffers
<1>2. QED
  BY <1>1, PTL DEF Spec, UnreadKept

(* Only a user whose last call failed finds the read/write lock set: a read()    *)
(* that succeeds, a write() that is accepted and open() all leave it clear.      *)
THEOREM StuckLockVisible == Spec => []StuckLockShows
<1>1. Init => StuckLockShows
  BY DEF Init, StuckLockShows
<1>2. TypeOK /\ StuckLockShows /\ [Next]_vars => StuckLockShows'
  <2> SUFFICES ASSUME TypeOK, StuckLockShows, [Next]_vars
               PROVE  StuckLockShows'
    OBVIOUS
  <2> USE DEF StuckLockShows
  <2>1. CASE Open \/ Close \/ UNCHANGED vars
    BY <2>1 DEF Open, Close, vars
  <2>2. ASSUME NEW n \in 0..MaxCount, NEW ragged \in BOOLEAN, WriteRefused(n, ragged)
        PROVE  StuckLockShows'
    BY <2>2 DEF WriteRefused, WriteError
  <2>3. ASSUME NEW r \in Requests, WriteStart(r)
        PROVE  StuckLockShows'
    BY <2>3 DEF WriteStart, WriteError
  <2>4. CASE Writing
    BY <2>4 DEF Writing, WriteReturn, TransferOk, TransferError
  <2>5. ASSUME NEW ragged \in BOOLEAN, ReadRefused(ragged)
        PROVE  StuckLockShows'
    BY <2>5 DEF ReadRefused
  <2>6. ASSUME NEW n \in 0..MaxRead, ReadOk(n)
        PROVE  StuckLockShows'
    BY <2>6 DEF ReadOk
  <2>7. QED
    BY <2>1, <2>2, <2>3, <2>4, <2>5, <2>6 DEF Next, Use
<1>3. QED
  BY <1>1, <1>2, TypeCorrect, PTL DEF Spec

-----------------------------------------------------------------------------
(* RepliesMatchRequest, strengthened by what holds in the middle of write(): the *)
(* commands that wait are where the copy loop has put them, and every one that    *)
(* was sent has been answered in its place.                                     *)

Answered ==
  \A k \in DOMAIN wire : /\ request[k] # None => wire[k].cmd = request[k]
                         /\ receiveBuffer[k - 1] = wire[k]
                         /\ wire[k].cmd \notin Unsent => wire[k].ack \in Acks
                         /\ Failed(wire[k]) => k = Len(wire)

Counted == (\A k \in DOMAIN request : request[k] # None) => count = Len(request)

ReplyInv ==
  /\ wire \in Seq(Entry)
  /\ file = "writing" =>
       /\ count <= Len(request) /\ Len(request) \in Nat /\ Counted
       /\ Answered
       /\ \A k \in i .. count - 1 : request[k + 1] # None => sendBuffer[k].cmd = request[k + 1]
       /\ IF i <= count
            THEN Len(wire) = i /\ \A k \in DOMAIN wire : ~Failed(wire[k])
            ELSE receiveBuffer_level = Len(wire) + 1 /\ wire # <<>> /\ Failed(wire[Len(wire)])
  /\ RepliesMatchRequest

(* How far write() has got and what it has stored decide what the user can tell  *)
(* from the replies.                                                            *)
Stored ==
  /\ wire \in Seq(Entry) /\ Len(wire) <= count /\ count <= Len(request) /\ count \in 0..Size
  /\ Answered /\ Counted
  /\ \/ /\ receiveBuffer_level = Len(wire)
        /\ \A k \in DOMAIN wire : ~Failed(wire[k])
        /\ file = "idle" => Len(wire) = count
     \/ /\ receiveBuffer_level = Len(wire) + 1
        /\ wire # <<>> /\ Failed(wire[Len(wire)])

LEMMA StoredReplies == Stored => RepliesMatchRequest
<1> SUFFICES ASSUME Stored
             PROVE  RepliesMatchRequest
  OBVIOUS
<1> DEFINE n == Len(wire)
<1>1. /\ n \in Nat /\ DOMAIN wire = 1..n
      /\ n <= count /\ count \in Nat /\ count <= Size /\ count <= Len(request)
  BY DEF Stored
<1>2. \A k \in 1..n : /\ request[k] # None => wire[k].cmd = request[k]
                      /\ receiveBuffer[k - 1] = wire[k]
                      /\ Failed(wire[k]) => k = n
  BY <1>1 DEF Stored, Answered
<1>3. (\A k \in DOMAIN request : request[k] # None) => count = Len(request)
  BY DEF Stored, Counted
<1> HIDE DEF n
<1>4. ASSUME NEW k \in Cells, k < n
      PROVE  k + 1 \in 1..n /\ receiveBuffer[k] = wire[k + 1]
  <2>1. k \in Int /\ k + 1 \in 1..n /\ (k + 1) - 1 = k
    BY <1>1, <1>4 DEF Cells
  <2>2. QED
    BY <1>2, <2>1
<1>5. n <= receiveBuffer_level /\
      IF FailedCells = {}
        THEN file = "idle" => n = count
        ELSE n - 1 \in FailedCells /\ \A k \in FailedCells : n - 1 <= k
  <2>1. CASE /\ receiveBuffer_level = n
             /\ \A k \in 1..n : ~Failed(wire[k])
             /\ file = "idle" => n = count
    <3>1. FailedCells = {}
      BY <1>4, <2>1 DEF FailedCells
    <3>2. QED
      BY <1>1, <2>1, <3>1
  <2>2. CASE receiveBuffer_level = n + 1 /\ n # 0 /\ Failed(wire[n])
    <3>1. n - 1 \in Cells /\ n - 1 < n /\ (n - 1) + 1 = n
      BY <1>1, <2>2 DEF Cells
    <3>2. receiveBuffer[n - 1] = wire[n]
      BY <1>4, <3>1
    <3>3. n - 1 \in FailedCells
      BY <1>1, <2>2, <3>1, <3>2 DEF FailedCells
    <3>4. ASSUME NEW k \in FailedCells
          PROVE  n - 1 <= k
      <4>1. k \in Cells /\ k \in Int /\ Failed(receiveBuffer[k])
        BY DEF FailedCells, Cells
      <4>2. k < n => k + 1 = n
        BY <1>2, <1>4, <4>1
      <4>3. QED
        BY <1>1, <4>1, <4>2
    <3>5. QED
      BY <1>1, <2>2, <3>3, <3>4
  <2>3. wire # <<>> => n # 0
    BY DEF Stored, n
  <2>4. QED
    BY <1>1, <2>1, <2>2, <2>3 DEF Stored, n
<1>6. QED
  BY <1>1, <1>2, <1>3, <1>5 DEF RepliesMatchRequest, n

LEMMA StartReplies ==
  ASSUME IInv, ReplyInv, NEW r \in Requests, WriteStart(r)
  PROVE  ReplyInv'
<1>1. receiveBuffer_level = 0 /\ Len(r) \in 0..Size /\ count' \in 0..Len(r) /\ i' = 0
  BY RealCount DEF WriteStart, WriteError
<1>2. DOMAIN r = 1 .. Len(r)
  BY DEF Requests
<1>3. wire' = <<>> /\ request' = r /\ receiveBuffer_level' = 0
  BY <1>1 DEF WriteStart, levels
<1>4. \A k \in Nat : k < count' /\ r[k + 1] # None => sendBuffer'[k].cmd = r[k + 1]
  <2> SUFFICES ASSUME NEW k \in Nat, k < count', r[k + 1] # None
               PROVE  sendBuffer'[k].cmd = r[k + 1]
    OBVIOUS
  <2>1. k \in Cells /\ k + 1 \in DOMAIN r
    <3>1. count' \in Nat /\ Len(r) \in Nat /\ count' <= Len(r) /\ Len(r) <= Size
      BY <1>1
    <3>2. k + 1 \in 1 .. Len(r) /\ k \in 0 .. Size - 1
      BY <3>1
    <3>3. QED
      BY <1>2, <3>2, Zenon DEF Cells
  <2>2. sendBuffer'[k] = New(r[k + 1])
    BY <2>1 DEF WriteStart
  <2>3. QED
    BY <2>2 DEF New
<1>5. Answered' /\ wire' \in Seq(Entry) /\ Len(wire') = 0 /\ \A k \in DOMAIN wire' : ~Failed(wire'[k])
  BY <1>3 DEF Answered
<1>6. RepliesMatchRequest'
  BY <1>3 DEF RepliesMatchRequest
<1>7. /\ i' <= count' /\ count' <= Len(request') /\ Len(request') \in Nat /\ Len(wire') = i'
      /\ Counted'
  <2>1. count' = Cardinality({k \in DOMAIN r : r[k] # None})
    BY DEF WriteStart
  <2>2. Counted'
    BY <1>3, <2>1, RealCount DEF Counted
  <2>3. QED
    BY <1>1, <1>3, <1>5, <2>2
<1>8. \A k \in i' .. count' - 1 : request'[k + 1] # None => sendBuffer'[k].cmd = request'[k + 1]
  <2>1. i' = 0 /\ count' \in Nat
    BY <1>1
  <2>2. \A k \in i' .. count' - 1 : k \in Nat /\ k < count'
    BY <2>1, Below, Zenon
  <2>3. QED
    BY <1>3, <1>4, <2>2, Zenon
<1>9. QED
  BY <1>5, <1>6, <1>7, <1>8 DEF ReplyInv, Failed

LEMMA SentReplies ==
  ASSUME IInv, ReplyInv, NEW ack \in Acks, TransferOk(ack) \/ TransferError(ack)
  PROVE  /\ wire' \in Seq(Entry) /\ Len(wire') = i + 1 /\ i + 1 <= count /\ i \in Nat
         /\ wire'[i + 1] = Reply(ack)
         /\ Answered'
         /\ \A k \in 1..i : wire'[k] = wire[k] /\ ~Failed(wire[k])
         /\ receiveBuffer_level = i /\ request' = request /\ count' = count
         /\ \A k \in (i + 1) .. count - 1 : sendBuffer'[k] = sendBuffer[k]
<1>1. /\ file = "writing" /\ i < count /\ i \in Nat /\ count \in Nat /\ count <= Size
      /\ receiveBuffer_level = i /\ Len(wire) = i /\ count <= Len(request)
      /\ sendBuffer \in [Cells -> Entry] /\ receiveBuffer \in [Cells -> Entry]
      /\ wire \in Seq(Entry) /\ wire' = Append(wire, Reply(ack))
      /\ request' = request /\ count' = count /\ sendBuffer' = [sendBuffer EXCEPT ![i] = Reply(ack)]
  BY DEF TransferOk, TransferError, IInv, TypeOK, LoopInv, ReplyInv
<1>2. i \in Cells /\ Reply(ack) \in Entry
  BY <1>1, ReplyEntry DEF Cells, IInv
<1>3. /\ Reply(ack).cmd = sendBuffer[i].cmd
      /\ Reply(ack).cmd \notin Unsent => Reply(ack).ack \in Acks
  BY <1>1, <1>2 DEF Reply, Entry
<1>4. /\ receiveBuffer'[i] = Reply(ack)
      /\ \A k \in 0 .. i - 1 : receiveBuffer'[k] = receiveBuffer[k]
  <2>1. CASE TransferOk(ack)
    BY <1>1, <1>2, <2>1 DEF TransferOk, Cells
  <2>2. CASE TransferError(ack)
    <3>1. PICK after \in Loaded(sendBuffer, count) :
            receiveBuffer' = [receiveBuffer EXCEPT ![receiveBuffer_level] = Reply(ack),
                                                   ![receiveBuffer_level + 1] = after]
      BY <2>2 DEF TransferError
    <3>2. QED
      BY <1>1, <1>2, <3>1 DEF Cells
  <2>3. QED
    BY <2>1, <2>2
<1>5. /\ wire' \in Seq(Entry) /\ Len(wire') = i + 1 /\ wire'[i + 1] = Reply(ack)
      /\ \A k \in 1..i : wire'[k] = wire[k]
  BY <1>1, <1>2
<1>6. \A k \in 1..i : ~Failed(wire[k])
  <2>1. DOMAIN wire = 1..i /\ i <= count
    BY <1>1
  <2>2. QED
    BY <1>1, <2>1 DEF ReplyInv
<1>7. request[i + 1] # None => sendBuffer[i].cmd = request[i + 1]
  BY <1>1 DEF ReplyInv
<1>8. Answered'
  <2> SUFFICES ASSUME NEW k \in 1..(i + 1)
               PROVE  /\ request[k] # None => wire'[k].cmd = request[k]
                      /\ receiveBuffer'[k - 1] = wire'[k]
                      /\ wire'[k].cmd \notin Unsent => wire'[k].ack \in Acks
                      /\ Failed(wire'[k]) => k = Len(wire')
    BY <1>1, <1>5 DEF Answered, Failed
  <2>1. CASE k = i + 1
    BY <1>1, <1>3, <1>4, <1>5, <1>7, <2>1
  <2>2. CASE k \in 1..i
    <3>1. /\ request[k] # None => wire[k].cmd = request[k]
          /\ receiveBuffer[k - 1] = wire[k]
          /\ wire[k].cmd \notin Unsent => wire[k].ack \in Acks
      <4>1. k \in DOMAIN wire
        BY <1>1, <2>2
      <4>2. Answered
        BY <1>1 DEF ReplyInv
      <4>3. QED
        BY <4>1, <4>2 DEF Answered
    <3>2. k - 1 \in 0 .. i - 1
      BY <1>1, <2>2
    <3>3. QED
      BY <1>4, <1>5, <1>6, <2>2, <3>1, <3>2
  <2>3. QED
    BY <1>1, <2>1, <2>2
<1>9. \A k \in (i + 1) .. count - 1 : sendBuffer'[k] = sendBuffer[k]
  BY <1>1 DEF Cells
<1>10. QED
  BY <1>1, <1>5, <1>6, <1>8, <1>9

LEMMA ReplyStep == IInv /\ ReplyInv /\ [Next]_vars => ReplyInv'
<1> SUFFICES ASSUME IInv, ReplyInv, [Next]_vars
             PROVE  ReplyInv'
  OBVIOUS
<1>1. CASE UNCHANGED vars
  BY <1>1 DEF vars, buffers, levels, loop, ReplyInv, Answered, Counted, RepliesMatchRequest,
              FailedCells, Failed
<1>2. CASE Open \/ Close
  <2>1. wire' \in Seq(Entry) /\ file' # "writing"
    <3>1. wire' = wire \/ wire' = <<>>
      BY <1>2 DEF Open, Close, loop
    <3>2. <<>> \in Seq(Entry)
      OBVIOUS
    <3>3. QED
      BY <1>2, <3>1, <3>2 DEF Open, Close, ReplyInv
  <2>2. file' = "closed" \/ receiveBuffer_level' = 0
    BY <1>2 DEF Open, Close
  <2>3. RepliesMatchRequest'
    BY <2>2 DEF RepliesMatchRequest
  <2>4. QED
    BY <2>1, <2>3 DEF ReplyInv
<1>3. ASSUME NEW n \in 0..MaxCount, NEW ragged \in BOOLEAN, WriteRefused(n, ragged)
      PROVE  ReplyInv'
  BY <1>3 DEF WriteRefused, buffers, levels, loop, ReplyInv, RepliesMatchRequest, FailedCells, Failed
<1>4. ASSUME NEW ack \in Acks, TransferOk(ack)
      PROVE  ReplyInv'
  <2>1. /\ wire' \in Seq(Entry) /\ Len(wire') = i + 1 /\ i + 1 <= count /\ i \in Nat
        /\ wire'[i + 1] = Reply(ack) /\ Answered'
        /\ \A k \in 1..i : wire'[k] = wire[k] /\ ~Failed(wire[k])
        /\ receiveBuffer_level = i /\ request' = request /\ count' = count
        /\ \A k \in (i + 1) .. count - 1 : sendBuffer'[k] = sendBuffer[k]
    BY <1>4, SentReplies
  <2>2. /\ ~Failed(wire'[i + 1]) /\ i' = i + 1 /\ receiveBuffer_level' = i + 1
        /\ file = "writing" /\ file' = "writing" /\ count \in Nat
    BY <1>4, <2>1 DEF TransferOk, IInv, TypeOK
  <2>7. Counted' /\ count <= Len(request) /\ count <= Size
    BY <2>1, <2>2 DEF ReplyInv, Counted, IInv, LoopInv
  <2>3. \A k \in 1..(i + 1) : ~Failed(wire'[k])
    BY <2>1, <2>2
  <2>4. \A k \in i' .. count' - 1 : request'[k + 1] # None => sendBuffer'[k].cmd = request'[k + 1]
    <3> SUFFICES ASSUME NEW k \in (i + 1) .. count - 1, request[k + 1] # None
                 PROVE  sendBuffer'[k].cmd = request[k + 1]
      BY <2>1, <2>2
    <3>1. k \in i .. count - 1
      BY <2>1, <2>2
    <3>2. sendBuffer[k].cmd = request[k + 1]
      BY <2>2, <3>1 DEF ReplyInv
    <3>3. QED
      BY <2>1, <3>2
  <2>5. RepliesMatchRequest'
    <3>1. Stored'
      BY <2>1, <2>2, <2>3, <2>7 DEF Stored, Failed
    <3>2. QED
      BY <3>1, StoredReplies, PTL
  <2>6. QED
    BY <2>1, <2>2, <2>3, <2>4, <2>5, <2>7 DEF ReplyInv, Failed
<1>5. ASSUME NEW ack \in Acks, TransferError(ack)
      PROVE  ReplyInv'
  <2>1. /\ wire' \in Seq(Entry) /\ Len(wire') = i + 1 /\ i + 1 <= count /\ i \in Nat
        /\ wire'[i + 1] = Reply(ack) /\ Answered'
        /\ receiveBuffer_level = i /\ request' = request /\ count' = count
    BY <1>5, SentReplies
  <2>2. /\ Failed(wire'[i + 1]) /\ i' = count + 1 /\ receiveBuffer_level' = i + 2
        /\ file = "writing" /\ file' = "writing" /\ count \in Nat
    BY <1>5, <2>1 DEF TransferError, IInv, TypeOK
  <2>5. Counted' /\ count <= Len(request) /\ count <= Size
    BY <2>1, <2>2 DEF ReplyInv, Counted, IInv, LoopInv
  <2>3. RepliesMatchRequest'
    <3>1. Stored'
      BY <2>1, <2>2, <2>5 DEF Stored, Failed
    <3>2. QED
      BY <3>1, StoredReplies, PTL
  <2>4. QED
    BY <2>1, <2>2, <2>3, <2>5 DEF ReplyInv, Failed
<1>6. CASE WriteReturn
  <2>1. /\ file = "writing" /\ i >= count /\ file' = "idle"
        /\ UNCHANGED <<receiveBuffer, receiveBuffer_level, wire, request, count>>
    BY <1>6 DEF WriteReturn, buffers, levels, loop
  <2>2. i <= count => i = count
    BY <2>1 DEF IInv, TypeOK
  <2>3. RepliesMatchRequest'
    <3>1. /\ count \in 0..Size /\ count <= Len(request) /\ i \in 0 .. count + 1
          /\ wire \in Seq(Entry) /\ Answered /\ Counted
          /\ IF i <= count
               THEN /\ receiveBuffer_level = i /\ Len(wire) = i
                    /\ \A k \in DOMAIN wire : ~Failed(wire[k])
               ELSE /\ receiveBuffer_level \in 2 .. count + 1
                    /\ receiveBuffer_level = Len(wire) + 1 /\ wire # <<>> /\ Failed(wire[Len(wire)])
      BY <2>1 DEF IInv, TypeOK, LoopInv, ReplyInv
    <3>2. Stored'
      BY <2>1, <2>2, <3>1 DEF Stored, Answered, Counted, Failed
    <3>3. QED
      BY <3>2, StoredReplies, PTL
  <2>4. QED
    BY <2>1, <2>3 DEF ReplyInv
<1>7. ASSUME NEW ragged \in BOOLEAN, ReadRefused(ragged)
      PROVE  ReplyInv'
  BY <1>7 DEF ReadRefused, buffers, levels, loop, ReplyInv, RepliesMatchRequest, FailedCells, Failed
<1>8. ASSUME NEW n \in 0..MaxRead, ReadOk(n)
      PROVE  ReplyInv'
  <2>1. receiveBuffer_level' \in {0, receiveBuffer_level}
    BY <1>8 DEF ReadOk
  <2>2. /\ file = "idle" /\ file' = "idle"
        /\ UNCHANGED <<receiveBuffer, count, request, wire>>
    BY <1>8 DEF ReadOk, buffers
  <2>3. receiveBuffer_level' # 0 => FailedCells' = FailedCells
    BY <2>1, <2>2 DEF FailedCells, Failed
  <2>4. QED
    BY <2>1, <2>2, <2>3 DEF ReplyInv, RepliesMatchRequest
<1>9. QED
  BY <1>1, <1>2, <1>3, <1>4, <1>5, <1>6, <1>7, <1>8, StartReplies DEF Next, Use, Writing

(* The replies that wait for a user stand at the places of the commands it wrote, *)
(* and the first failed one among them is the last command that was sent: for any *)
(* commands, any answers of the target and any sequence of calls.  What is said of *)
(* requests with zero words is only that other words are answered in their places. *)
THEOREM RepliesRight == Spec => []RepliesMatchRequest
<1>1. Init => ReplyInv
  BY DEF Init, ReplyInv, RepliesMatchRequest
<1>2. ReplyInv => RepliesMatchRequest
  BY DEF ReplyInv
<1>3. QED
  BY <1>1, <1>2, ReplyStep, InitIInv, IInvStep, PTL DEF Spec

=============================================================================
