---------------------------- MODULE ComArray_proofs ----------------------------
(***************************************************************************)
(* Proofs about comArrayTransfer() over the driver, for any commands, array *)
(* and buffer sizes, and with any other users of the device.                *)
(***************************************************************************)
EXTENDS ComArray, SWDPI_rw_proofs

USE NoneAssumption, HeadlessAssumption, AcksAssumption, SizeAssumption, UintAssumption

(* An array fits into the driver's buffers, and can be read at once.             *)
Fits == MaxCount <= Size /\ MaxCount <= MaxRead

(* The answers of the protocol.  The driver fails on 3 and 5 to 7 too, which       *)
(* FailedReplies does not know, and neither of the two fails on 0, the answer of a *)
(* target that drives nothing: it is stored as if it were OK.                    *)
KnownFailures == Acks \subseteq {0, 1, 2, 4}
KnownAnswers == Acks \subseteq {1, 2, 4}

-----------------------------------------------------------------------------
(* Where the driver is at each place of the client.  The transfer's own replies   *)
(* are on the wire, in the driver's buffer, and then in the client's array.       *)

Packets == Cmds \ Headless

Sent ==
  /\ Len(wire) \in 0 .. Len(cmdArray32)
  /\ \A k \in 1 .. Len(wire) : /\ wire[k].cmd = cmdArray32[k]
                               /\ wire[k].ack \in Acks
                               /\ Failed(wire[k]) => k = Len(wire)
  /\ (\A k \in 1 .. Len(wire) : ~Failed(wire[k])) => Len(wire) = Len(cmdArray32)

ClientInv ==
  /\ cmdArray32 \in Seq(Packets) /\ Len(cmdArray32) <= MaxCount
  /\ client \in {"idle", "opened", "writing", "written", "checking", "returned"}
  /\ client = "opened" =>
       file = "idle" /\ receiveBuffer_level = 0 /\ SWDGPIOBBD_readwritelock = 0
  /\ client = "writing" =>
       file = "writing" /\ request = cmdArray32 /\ count = Len(cmdArray32)
  /\ client = "written" =>
       /\ file = "idle" /\ receiveBuffer_levelRead = 0
       /\ cmdArray32 # <<>> => receiveBuffer_level # 0
       /\ Sent
       /\ \A k \in 1 .. Len(wire) : receiveBuffer[k - 1] = wire[k]
  /\ client = "checking" =>
       /\ Sent
       /\ \A k \in 1 .. Len(wire) : replyArray32[k] = wire[k]

ComInv == IInv /\ ReplyInv /\ ClientInv

-----------------------------------------------------------------------------
(* The client uses the driver only as SWDPI_rw lets its user use it. *)

LEMMA ArrayIsRequest ==
  ASSUME ClientInv
  PROVE  /\ cmdArray32 \in Requests
         /\ Cardinality({k \in DOMAIN cmdArray32 : cmdArray32[k] # None}) = Len(cmdArray32)
<1> DEFINE n == Len(cmdArray32)
<1>1. cmdArray32 \in Seq(Packets) /\ n \in 0..MaxCount /\ DOMAIN cmdArray32 = 1..n
  BY DEF ClientInv
<1>2. \A k \in 1..n : cmdArray32[k] \in Cmds
  BY <1>1 DEF Packets
<1>3. cmdArray32 \in [1..n -> Cmds \cup {None}]
  BY <1>1, <1>2
<1>4. cmdArray32 \in Requests
  BY <1>1, <1>3 DEF Requests
<1>5. {k \in DOMAIN cmdArray32 : cmdArray32[k] # None} = 1..n
  BY <1>1, <1>2
<1>6. \A m \in Nat : Cardinality(1..m) = m
  BY FS_Interval
<1>7. n \in Nat
  BY <1>1
<1>8. QED
  BY <1>4, <1>5, <1>6, <1>7, Zenon

LEMMA ClientIsUser ==
  ASSUME Fits, ClientInv, [ComNext]_allVars
  PROVE  [Next]_vars
<1>1. cmdArray32 \in Requests /\ Len(cmdArray32) \in 0..MaxRead
  BY ArrayIsRequest DEF Fits, ClientInv
<1>2. CASE Prepare \/ OpenFails \/ Return \/ UNCHANGED allVars
  BY <1>2 DEF Prepare, Packets, OpenFails, Return, comArrayClear, comArrayAdd, allVars
<1>3. CASE OpenDevice \/ CloseDevice \/ OtherUser
  BY <1>3 DEF OpenDevice, CloseDevice, OtherUser, Next
<1>4. CASE WriteCommands
  BY <1>1, <1>4 DEF WriteCommands, Next, Use
<1>5. CASE DriverWrites \/ WriteDone
  BY <1>5 DEF DriverWrites, WriteDone, Next, Use, Writing
<1>6. CASE ReadReplies
  BY <1>1, <1>6 DEF ReadReplies, Next, Use
<1>7. QED
  BY <1>2, <1>3, <1>4, <1>5, <1>6 DEF ComNext, Transferring

-----------------------------------------------------------------------------
(* The steps of a transfer *)

LEMMA TransferWritten ==
  ASSUME ComInv, WriteDone
  PROVE  ClientInv'
<1> USE DEF ComInv
<1>1. /\ file = "writing" /\ i >= count /\ file' = "idle" /\ client' = "written"
      /\ UNCHANGED <<receiveBuffer, receiveBuffer_level, receiveBuffer_levelRead, wire,
                     request, count, cmdArray32>>
      /\ request = cmdArray32 /\ count = Len(cmdArray32)
      /\ cmdArray32 \in Seq(Packets) /\ Len(cmdArray32) <= MaxCount
  BY DEF WriteDone, WriteReturn, buffers, levels, loop, ClientInv
<1>2. /\ i \in 0 .. count + 1 /\ count \in Nat /\ receiveBuffer_levelRead = 0 /\ Answered
      /\ wire \in Seq(Entry)
      /\ IF i <= count
           THEN /\ receiveBuffer_level = i /\ Len(wire) = i
                /\ \A k \in DOMAIN wire : ~Failed(wire[k])
           ELSE /\ receiveBuffer_level \in 2 .. count + 1
                /\ receiveBuffer_level = Len(wire) + 1 /\ wire # <<>> /\ Failed(wire[Len(wire)])
  BY <1>1 DEF IInv, TypeOK, LoopInv, ReplyInv
<1>3. Len(wire) \in 0 .. Len(cmdArray32) /\ DOMAIN wire = 1 .. Len(wire)
  BY <1>1, <1>2
<1>4. \A k \in 1 .. Len(wire) : /\ wire[k].cmd = cmdArray32[k]
                                /\ wire[k].ack \in Acks
                                /\ receiveBuffer[k - 1] = wire[k]
                                /\ Failed(wire[k]) => k = Len(wire)
  <2> SUFFICES ASSUME NEW k \in 1 .. Len(wire)
               PROVE  /\ wire[k].cmd = cmdArray32[k]
                      /\ wire[k].ack \in Acks
                      /\ receiveBuffer[k - 1] = wire[k]
                      /\ Failed(wire[k]) => k = Len(wire)
    OBVIOUS
  <2>1. cmdArray32[k] \in Packets
    BY <1>1, <1>3
  <2>2. request[k] # None /\ request[k] \notin Unsent
    BY <1>1, <2>1 DEF Packets, Unsent
  <2>3. QED
    BY <1>1, <1>2, <1>3, <2>2 DEF Answered
<1>5. (\A k \in 1 .. Len(wire) : ~Failed(wire[k])) => Len(wire) = Len(cmdArray32)
  <2> SUFFICES ASSUME \A k \in 1 .. Len(wire) : ~Failed(wire[k])
               PROVE  Len(wire) = Len(cmdArray32)
    OBVIOUS
  <2>1. wire # <<>> => Len(wire) \in 1 .. Len(wire)
    BY <1>2
  <2>2. ~(wire # <<>> /\ Failed(wire[Len(wire)]))
    BY <2>1, Zenon
  <2>3. i <= count
    BY <1>2, <2>2
  <2>4. QED
    BY <1>1, <1>2, <2>3
<1>6. cmdArray32 # <<>> => receiveBuffer_level # 0
  <2>1. cmdArray32 # <<>> => Len(cmdArray32) # 0
    BY <1>1
  <2>2. QED
    BY <1>1, <1>2, <2>1
<1>7. Sent'
  BY <1>1, <1>3, <1>4, <1>5 DEF Sent, Failed
<1>8. QED
  BY <1>1, <1>2, <1>4, <1>6, <1>7 DEF ClientInv

LEMMA RepliesRead ==
  ASSUME Fits, ComInv, ReadReplies
  PROVE  ClientInv'
<1> USE DEF ComInv
<1>1. /\ client = "written" /\ client' = "checking"
      /\ UNCHANGED <<wire, cmdArray32>>
      /\ cmdArray32 \in Seq(Packets) /\ Len(cmdArray32) <= MaxCount
      /\ receiveBuffer_levelRead = 0 /\ Sent
      /\ \A k \in 1 .. Len(wire) : receiveBuffer[k - 1] = wire[k]
  BY DEF ReadReplies, ReadOk, ReadRefused, loop, ClientInv
<1>2. Sent'
  BY <1>1 DEF Sent, Failed
<1>3. ASSUME NEW k \in 1 .. Len(wire)
      PROVE  replyArray32'[k] = wire[k]
  <2>1. /\ k \in 1 .. Len(cmdArray32) /\ k \in 1..MAX_COMS /\ k - 1 \in Cells
        /\ Len(cmdArray32) # 0
    BY <1>1, <1>3 DEF Sent, MAX_COMS, Cells, Fits
  <2>2. cmdArray32 # <<>>
    BY <2>1
  <2>3. receiveBuffer_level \notin {0, receiveBuffer_levelRead}
    BY <1>1, <2>2 DEF ClientInv
  <2>4. /\ DOMAIN user' = 1 .. Len(cmdArray32)
        /\ \A m \in 1 .. Len(cmdArray32) : m <= Size => user'[m] = receiveBuffer[m - 1]
        /\ replyArray32' = [m \in 1..MAX_COMS |->
                              IF m \in DOMAIN user' THEN user'[m] ELSE replyArray32[m]]
    BY <2>3 DEF ReadReplies, ReadOk, ReadRefused, CopyToUser
  <2>5. replyArray32'[k] = receiveBuffer[k - 1]
    BY <2>1, <2>4 DEF Cells
  <2>6. QED
    BY <1>1, <2>5
<1>4. QED
  BY <1>1, <1>2, <1>3 DEF ClientInv

LEMMA ClientStep ==
  ASSUME Fits, ComInv, [ComNext]_allVars
  PROVE  ClientInv'
<1>1. ClientInv
  BY DEF ComInv
<1>2. CASE UNCHANGED allVars
  BY <1>1, <1>2 DEF allVars, vars, clientVars, buffers, levels, loop, ClientInv, Sent, Failed
<1>3. CASE Prepare
  <2>1. CASE comArrayClear
    <3>1. <<>> \in Seq(Packets) /\ Len(<<>>) = 0
      OBVIOUS
    <3>2. QED
      BY <1>1, <2>1, <3>1 DEF comArrayClear, ClientInv
  <2>2. ASSUME NEW c \in Packets, comArrayAdd(c)
        PROVE  ClientInv'
    <3>1. cmdArray32' \in Seq(Packets) /\ Len(cmdArray32') <= MaxCount
      BY <1>1, <2>2 DEF comArrayAdd, ClientInv, MAX_COMS
    <3>2. QED
      BY <1>1, <2>2, <3>1 DEF comArrayAdd, ClientInv
  <2>3. QED
    BY <1>3, <2>1, <2>2 DEF Prepare, Packets
<1>4. CASE OpenDevice
  BY <1>1, <1>4 DEF OpenDevice, Open, ClientInv
<1>5. CASE OpenFails \/ Return \/ OtherUser \/ CloseDevice
  BY <1>1, <1>5 DEF OpenFails, Return, OtherUser, CloseDevice, clientVars, ClientInv
<1>6. CASE WriteCommands
  <2>1. count' = Len(cmdArray32)
    BY <1>1, <1>6, ArrayIsRequest DEF WriteCommands, WriteStart
  <2>2. QED
    BY <1>1, <1>6, <2>1 DEF WriteCommands, WriteStart, ClientInv
<1>7. CASE DriverWrites
  BY <1>1, <1>7 DEF DriverWrites, TransferOk, TransferError, clientVars, ClientInv
<1>8. CASE WriteDone
  BY <1>8, TransferWritten
<1>9. CASE ReadReplies
  BY <1>9, RepliesRead
<1>10. QED
  BY <1>2, <1>3, <1>4, <1>5, <1>6, <1>7, <1>8, <1>9 DEF ComNext, Transferring

LEMMA InitComInv == ComInit => ComInv
<1> SUFFICES ASSUME ComInit
             PROVE  ComInv
  OBVIOUS
<1>1. IInv
  BY InitIInv DEF ComInit
<1>2. ReplyInv
  BY DEF ComInit, Init, ReplyInv, RepliesMatchRequest
<1>3. ClientInv
  BY DEF ComInit, ClientInv
<1>4. QED
  BY <1>1, <1>2, <1>3 DEF ComInv

LEMMA ComStep == Fits /\ ComInv /\ [ComNext]_allVars => ComInv' /\ [Next]_vars
<1> SUFFICES ASSUME Fits, ComInv, [ComNext]_allVars
             PROVE  ComInv' /\ [Next]_vars
  OBVIOUS
<1>1. [Next]_vars
  BY ClientIsUser DEF ComInv
<1>2. IInv' /\ ReplyInv'
  BY <1>1, IInvStep, ReplyStep DEF ComInv
<1>3. QED
  BY <1>1, <1>2, ClientStep DEF ComInv

-----------------------------------------------------------------------------
(* comArrayTransfer() and the other users together drive the device only in ways  *)
(* that SWDPI_rw describes, so what is proved of the driver holds with them.      *)
THEOREM ClientUsesDriver == Fits => (ComSpec => Spec)
<1> SUFFICES ASSUME Fits
             PROVE  ComSpec => Spec
  OBVIOUS
<1>1. ComInit => Init
  BY DEF ComInit
<1>2. QED
  BY <1>1, InitComInv, ComStep, PTL DEF ComSpec, Spec

(* In particular the driver's own invariants hold under the client.               *)
THEOREM DriverUnderClient ==
  Fits => (ComSpec => [](TypeOK /\ RepliesMatchRequest /\ InBounds /\ LevelsReset /\ StuckLockShows)
                      /\ UnreadKept)
<1> SUFFICES ASSUME Fits
             PROVE  ComSpec => [](TypeOK /\ RepliesMatchRequest /\ InBounds /\ LevelsReset
                                  /\ StuckLockShows) /\ UnreadKept
  OBVIOUS
<1>1. ComSpec => Spec
  BY ClientUsesDriver
<1>2. QED
  BY <1>1, TypeCorrect, RepliesRight, NoOverrun, DrainedIsReset, StuckLockVisible, RepliesKept, PTL

(* No write() of comArrayTransfer() is refused, and no read() that has something   *)
(* to fetch, whatever earlier transfers and other users have left in the driver.  *)
THEOREM AlwaysAccepted == Fits => (ComSpec => []NeverRefused)
<1> SUFFICES ASSUME Fits
             PROVE  ComSpec => []NeverRefused
  OBVIOUS
<1>1. ComInv => NeverRefused
  BY DEF Fits, ComInv, ClientInv, NeverRefused, WriteError
<1>2. QED
  BY <1>1, InitComInv, ComStep, PTL DEF ComSpec

(* After a transfer without a failed reply, the reply of every command stands at   *)
(* the command's own place: the driver's levels and the client's array agree.     *)
LEMMA ReplyTruth ==
  ASSUME KnownFailures, ComInv, client = "checking"
  PROVE  /\ \A k \in 1 .. Len(wire) : Failed(wire[k]) <=> wire[k].ack \in {2, 4}
         /\ \A k \in 1 .. Len(wire) : wire[k].ack \in Acks
         /\ \A k \in 1 .. Len(wire) : k \in FailedReplies <=> Failed(wire[k])
<1>1. /\ Sent /\ wire \in Seq(Entry)
      /\ \A k \in 1 .. Len(wire) : replyArray32[k] = wire[k]
      /\ cmdArray32 \in Seq(Packets)
  BY DEF ComInv, ClientInv, ReplyInv
<1>2. ASSUME NEW k \in 1 .. Len(wire)
      PROVE  /\ k \in DOMAIN cmdArray32 /\ wire[k].cmd \notin Unsent
             /\ wire[k].ack \in Acks
  <2>1. k \in DOMAIN cmdArray32 /\ cmdArray32[k] \in Packets
    BY <1>1, <1>2 DEF Sent
  <2>2. QED
    BY <1>1, <1>2, <2>1 DEF Sent, Packets, Unsent
<1>3. \A k \in 1 .. Len(wire) : Failed(wire[k]) <=> wire[k].ack \in {2, 4}
  <2> SUFFICES ASSUME NEW k \in 1 .. Len(wire)
               PROVE  Failed(wire[k]) <=> wire[k].ack \in {2, 4}
    OBVIOUS
  <2>1. wire[k].cmd \notin Unsent /\ wire[k].ack \in {0, 1, 2, 4}
    BY <1>2 DEF KnownFailures
  <2>2. QED
    BY <2>1 DEF Failed
<1>4. QED
  BY <1>1, <1>2, <1>3 DEF FailedReplies

THEOREM RepliesCorrect == Fits /\ KnownFailures => (ComSpec => []RepliesInPlace)
<1> SUFFICES ASSUME Fits, KnownFailures
             PROVE  ComSpec => []RepliesInPlace
  OBVIOUS
<1>1. ComInv => RepliesInPlace
  <2> SUFFICES ASSUME ComInv, client = "checking", FailedReplies = {}
               PROVE  \A k \in DOMAIN cmdArray32 :
                        replyArray32[k] = wire[k] /\ wire[k].cmd = cmdArray32[k]
    BY DEF RepliesInPlace
  <2>1. \A k \in 1 .. Len(wire) : ~Failed(wire[k])
    BY ReplyTruth
  <2>2. /\ Sent /\ \A k \in 1 .. Len(wire) : replyArray32[k] = wire[k]
        /\ cmdArray32 \in Seq(Packets)
    BY DEF ComInv, ClientInv
  <2>3. DOMAIN cmdArray32 = 1 .. Len(wire)
    BY <2>1, <2>2 DEF Sent
  <2>4. QED
    BY <2>2, <2>3 DEF Sent
<1>2. QED
  BY <1>1, InitComInv, ComStep, PTL DEF ComSpec

(* What comArrayTransfer() returns is the truth about the wire, although it drops  *)
(* the results of write() and read(): 0 if every command was acknowledged with OK, *)
(* else the acknowledge of the first that was not, for a target that answers OK,   *)
(* WAIT or FAULT.                                                                *)
THEOREM ResultTrue == Fits /\ KnownAnswers => (ComSpec => ResultIsTruth)
<1> SUFFICES ASSUME Fits, KnownAnswers
             PROVE  ComSpec => ResultIsTruth
  OBVIOUS
<1> DEFINE Truth ==
      IF \E k \in DOMAIN wire : wire[k].ack # 1
        THEN rc' = -wire[Len(wire)].ack
        ELSE rc' = 0 /\ Len(wire) = Len(cmdArray32)
<1>2. KnownFailures
  BY DEF KnownAnswers, KnownFailures
<1>1. ComInv /\ [ComNext]_allVars =>
        [client = "checking" /\ client' = "returned" => Truth]_allVars
  <2> SUFFICES ASSUME ComInv, ComNext, client = "checking", client' = "returned"
               PROVE  Truth
    OBVIOUS
  <2>1. CloseDevice
    BY DEF ComNext, Transferring, Prepare, OpenDevice, OpenFails, WriteCommands, DriverWrites,
           WriteDone, ReadReplies, Return, OtherUser, comArrayClear, comArrayAdd
  <2>2. /\ Sent /\ wire \in Seq(Entry) /\ DOMAIN wire = 1 .. Len(wire) /\ Len(wire) \in Nat
        /\ \A k \in 1 .. Len(wire) : replyArray32[k] = wire[k]
        /\ cmdArray32 \in Seq(Packets)
    BY DEF ComInv, ClientInv, ReplyInv
  <2>6. \A k \in 1 .. Len(wire) : Failed(wire[k]) <=> wire[k].ack # 1
    <3>1. \A k \in 1 .. Len(wire) : /\ Failed(wire[k]) <=> wire[k].ack \in {2, 4}
                                    /\ wire[k].ack \in Acks
      BY <1>2, ReplyTruth
    <3>2. \A k \in 1 .. Len(wire) : wire[k].ack \in {1, 2, 4}
      BY <3>1, Zenon DEF KnownAnswers
    <3>3. QED
      BY <3>1, <3>2
  <2>3. CASE \E k \in 1 .. Len(wire) : Failed(wire[k])
    <3>1. PICK k \in 1 .. Len(wire) : Failed(wire[k])
      BY <2>3
    <3>2. k = Len(wire) /\ k \in FailedReplies
      BY <1>2, <2>2, <3>1, ReplyTruth DEF Sent
    <3>3. \A j \in FailedReplies : j \in Nat /\ Len(wire) <= j
      <4> SUFFICES ASSUME NEW j \in FailedReplies
                   PROVE  j \in Nat /\ Len(wire) <= j
        OBVIOUS
      <4>1. j \in Nat \ {0}
        BY <2>2 DEF FailedReplies
      <4>2. ASSUME j < Len(wire)
            PROVE  FALSE
        <5>1. j \in 1 .. Len(wire)
          BY <2>2, <4>1, <4>2
        <5>2. Failed(wire[j])
          BY <1>2, <5>1, ReplyTruth
        <5>3. j = Len(wire)
          BY <2>2, <5>1, <5>2, Zenon DEF Sent
        <5>4. QED
          BY <2>2, <4>1, <4>2, <5>3
      <4>3. QED
        BY <2>2, <4>1, <4>2
    <3>4. Len(wire) \in FailedReplies /\ \A j \in FailedReplies : Len(wire) <= j
      BY <3>2, <3>3
    <3>5. (CHOOSE j \in FailedReplies : \A m \in FailedReplies : j <= m) = Len(wire)
      <4>1. ASSUME NEW j \in FailedReplies, \A m \in FailedReplies : j <= m
            PROVE  j = Len(wire)
        <5>1. j <= Len(wire) /\ Len(wire) <= j /\ j \in Nat /\ Len(wire) \in Nat
          BY <2>2, <3>3, <3>4, <4>1
        <5>2. QED
          BY <5>1
      <4>2. QED
        BY <3>4, <4>1
    <3>6. FailedReplies # {} /\ replyArray32[Len(wire)] = wire[Len(wire)]
      BY <2>2, <3>1, <3>2
    <3>7. QED
      BY <2>1, <2>2, <2>6, <3>1, <3>5, <3>6 DEF CloseDevice
  <2>4. CASE \A k \in 1 .. Len(wire) : ~Failed(wire[k])
    <3>4. Len(wire) = Len(cmdArray32)
      BY <2>2, <2>4, Zenon DEF Sent
    <3>1. Len(wire) = Len(cmdArray32) /\ DOMAIN cmdArray32 = 1 .. Len(wire)
      BY <2>2, <3>4
    <3>2. FailedReplies = {}
      <4>1. \A k \in FailedReplies : k \in 1 .. Len(wire)
        BY <3>1 DEF FailedReplies
      <4>2. QED
        BY <1>2, <2>4, <4>1, ReplyTruth
    <3>3. QED
      BY <2>1, <2>2, <2>4, <2>6, <3>1, <3>2 DEF CloseDevice
  <2>5. QED
    BY <2>3, <2>4
<1>3. QED
  BY <1>1, InitComInv, ComStep, PTL DEF ComSpec, ResultIsTruth

=============================================================================
