-------------------------------- MODULE ComArray --------------------------------
(***************************************************************************)
(* The user-space side of the driver protocol (cheese_comSWD.c): a comArray *)
(* is filled with commands and comArrayTransfer() opens /dev/SWDPI, writes  *)
(* the commands, reads as many replies as it wrote commands, looks for an   *)
(* acknowledge of 2 or 4 among them and closes the device.  It ignores what *)
(* write() and read() return.                                               *)
(*                                                                         *)
(* The driver is SWDPI_rw; this module composes the two, and other users of  *)
(* the device that do with it what they like.                               *)
(***************************************************************************)
EXTENDS SWDPI_rw

CONSTANT MaxOther   \* bound: words in one write() of another user

VARIABLES
  cmdArray32,   \* the commands, a sequence of length filling
  replyArray32, \* MAX_COMS replies
  client,       \* where the client is
  rc            \* what the last comArrayTransfer() returned

clientVars == <<cmdArray32, replyArray32, client, rc>>
allVars == <<vars, clientVars>>

MAX_COMS == MaxCount
ClearedReplies == [k \in 1..MAX_COMS |-> New(None)]

ComInit ==
  /\ Init
  /\ cmdArray32 = <<>>
  /\ replyArray32 = ClearedReplies
  /\ client = "idle"
  /\ rc = 0

(* comArrayInit() and comArrayClear() leave an empty array and zero replies. *)
comArrayClear ==
  /\ client = "idle"
  /\ cmdArray32' = <<>>
  /\ replyArray32' = ClearedReplies
  /\ UNCHANGED <<vars, client, rc>>

comArrayAdd_Unchecked(c) ==
  /\ client = "idle"
  /\ cmdArray32' = Append(cmdArray32, c)
  /\ UNCHANGED <<vars, replyArray32, client, rc>>

(* comArrayAdd() drops a command when the array is full. *)
comArrayAdd(c) ==
  /\ client = "idle"
  /\ Len(cmdArray32) < MAX_COMS
  /\ cmdArray32' = Append(cmdArray32, c)
  /\ UNCHANGED <<vars, replyArray32, client, rc>>

-----------------------------------------------------------------------------
(* comArrayTransfer(), one action per call of the driver. *)

OpenDevice ==
  /\ client = "idle"
  /\ Open
  /\ client' = "opened"
  /\ UNCHANGED <<cmdArray32, replyArray32, rc>>

(* Another process has the device open. *)
OpenFails ==
  /\ client = "idle" /\ file # "closed"
  /\ client' = "returned"
  /\ rc' = -1
  /\ UNCHANGED <<vars, cmdArray32, replyArray32>>

WriteCommands ==
  /\ client = "opened"
  /\ client' = "writing"
  /\ WriteStart(cmdArray32)
  /\ UNCHANGED <<cmdArray32, replyArray32, rc>>

(* The driver works while the client waits in write(). *)
DriverWrites ==
  /\ client = "writing"
  /\ \E ack \in Acks : TransferOk(ack) \/ TransferError(ack)
  /\ UNCHANGED clientVars

WriteDone ==
  /\ client = "writing"
  /\ client' = "written"
  /\ WriteReturn
  /\ UNCHANGED <<cmdArray32, replyArray32, rc>>

(* read() fills the first filling replies, or returns an error that is ignored. *)
ReadReplies_Short ==
  /\ client = "written"
  /\ client' = "checking"
  /\ \/ /\ ReadOk(Len(cmdArray32) - 1)
        /\ replyArray32' = [k \in 1..MAX_COMS |->
                              IF k \in DOMAIN user' THEN user'[k] ELSE replyArray32[k]]
     \/ /\ ReadRefused(FALSE)
        /\ UNCHANGED replyArray32
  /\ UNCHANGED <<cmdArray32, rc>>

ReadReplies_UntilData ==
  /\ client = "written"
  /\ \/ /\ ReadOk(Len(cmdArray32))
        /\ replyArray32' = [k \in 1..MAX_COMS |->
                              IF k \in DOMAIN user' THEN user'[k] ELSE replyArray32[k]]
        /\ client' = "checking"
     \/ /\ ReadRefused(FALSE)
        /\ UNCHANGED <<replyArray32, client>>
  /\ UNCHANGED <<cmdArray32, rc>>

ReadReplies ==
  /\ client = "written"
  /\ client' = "checking"
  /\ \/ /\ ReadOk(Len(cmdArray32))
        /\ replyArray32' = [k \in 1..MAX_COMS |->
                              IF k \in DOMAIN user' THEN user'[k] ELSE replyArray32[k]]
     \/ /\ ReadRefused(FALSE)
        /\ UNCHANGED replyArray32
  /\ UNCHANGED <<cmdArray32, rc>>

FailedReplies_FaultOnly == {k \in DOMAIN cmdArray32 : replyArray32[k].ack = 4}

(* The replies whose acknowledge, the top byte of the command word, is WAIT or FAULT. *)
FailedReplies == {k \in DOMAIN cmdArray32 : replyArray32[k].ack \in {2, 4}}

CloseDevice_LeftOpen ==
  /\ client = "checking"
  /\ client' = "returned"
  /\ rc' = IF FailedReplies = {} THEN 0
           ELSE -replyArray32[CHOOSE k \in FailedReplies : \A j \in FailedReplies : k <= j].ack
  /\ IF FailedReplies = {} THEN Close ELSE UNCHANGED vars
  /\ UNCHANGED <<cmdArray32, replyArray32>>

CloseDevice ==
  /\ client = "checking"
  /\ client' = "returned"
  /\ rc' = IF FailedReplies = {} THEN 0
           ELSE -replyArray32[CHOOSE k \in FailedReplies : \A j \in FailedReplies : k <= j].ack
  /\ Close
  /\ UNCHANGED <<cmdArray32, replyArray32>>

(* The caller has its result; it may add commands to the array or transfer it   *)
(* again.                                                                       *)
Return ==
  /\ client = "returned"
  /\ client' = "idle"
  /\ rc' = 0
  /\ UNCHANGED <<vars, cmdArray32, replyArray32>>

-----------------------------------------------------------------------------
(* Another process may hold the device at any time between two transfers.  What *)
(* it does with it meets nothing of the client's arrays, so it uses the device   *)
(* only while these are empty, and they change only while it is closed.          *)

Fresh == cmdArray32 = <<>> /\ replyArray32 = ClearedReplies

OtherUser ==
  /\ client = "idle"
  /\ Open \/ Close \/ (Fresh /\ Use /\ Len(request') <= MaxOther)
  /\ UNCHANGED clientVars

(* Every command of the prep functions has its packet request. *)
Prepare == file = "closed" /\ (comArrayClear \/ \E c \in Cmds \ Headless : comArrayAdd(c))

-----------------------------------------------------------------------------

Transferring ==
  \/ WriteCommands \/ DriverWrites \/ WriteDone \/ ReadReplies \/ CloseDevice \/ Return

ComNext == Prepare \/ OpenDevice \/ OpenFails \/ Transferring \/ OtherUser

ComSpec == ComInit /\ [][ComNext]_allVars

(* The client and the driver do not stop in the middle of a transfer. *)
ComFairSpec == ComSpec /\ WF_allVars(Transferring)

-----------------------------------------------------------------------------
(* Properties *)

(* The return value of comArrayTransfer() is the truth about the wire, for a      *)
(* target that answers OK, WAIT or FAULT: 0 when every command of the array was   *)
(* sent and acknowledged OK (1), and otherwise the acknowledge of the first       *)
(* command that was not.                                                        *)
ResultIsTruth ==
  [][client = "checking" /\ client' = "returned" =>
       IF \E k \in DOMAIN wire : wire[k].ack # 1
         THEN rc' = -wire[Len(wire)].ack
         ELSE rc' = 0 /\ Len(wire) = Len(cmdArray32)]_allVars

(* The reply to the k-th command stands at place k of the reply array, whatever  *)
(* earlier transfers and other users have left in the driver.                   *)
RepliesInPlace ==
  client = "checking" /\ FailedReplies = {} =>
    \A k \in DOMAIN cmdArray32 : replyArray32[k] = wire[k] /\ wire[k].cmd = cmdArray32[k]

(* The order in which the client calls the driver satisfies the driver's own    *)
(* conditions, whoever has used it before: no write() of the client is refused,  *)
(* and a read() only when the array is empty, so ignoring their return values    *)
(* loses nothing.                                                               *)
NeverRefused ==
  /\ client = "opened" => WriteError(Len(cmdArray32), FALSE) = 0
  /\ client = "written" /\ cmdArray32 # <<>> =>
       receiveBuffer_level \notin {0, receiveBuffer_levelRead}

(* Every transfer returns, and with the device closed again, or nobody could     *)
(* ever open it any more.                                                       *)
TransferReturns == client = "opened" ~> client = "returned" /\ file = "closed"

=============================================================================
