------------------------------- MODULE SWDPI_open -------------------------------
(***************************************************************************)
(* The open() and release() handlers of /dev/SWDPI (SWDPI_base.c).         *)
(*                                                                         *)
(* The device admits one user at a time.  The lock is a plain uint8_t that *)
(* open() tests and then sets, and that open()'s failure path and          *)
(* release() clear BEFORE they free the two kernel buffers.  The kernel    *)
(* calls the handlers of different processes concurrently, so each access  *)
(* to the shared globals is a step of its own here.                        *)
(***************************************************************************)
EXTENDS Naturals

CONSTANTS
  Procs,    \* the processes that open /dev/SWDPI
  Blocks,   \* the heap blocks kcalloc() can hand out
  NULL      \* what kcalloc() returns when it fails

ASSUME NullAssumption == NULL \notin Blocks
ASSUME ProcsAssumption == Procs # {}

VARIABLES
  SWDGPIOBBD_lock,            \* 0 or 1
  sendBuffer, receiveBuffer,  \* the global pointers; never reset after kfree()
  live,                       \* the blocks that are allocated
  pc,                         \* where each process is, see PCs
  raced                       \* history: a test of the lock passed while another
                              \* handler was in its Window

vars == <<SWDGPIOBBD_lock, sendBuffer, receiveBuffer, live, pc, raced>>

(* Outside the driver: never opened or closed again, or open() returned -1. *)
Out == {"closed", "refused"}

(* The process owns the device: open() has set the lock and nobody cleared it. *)
Owning == {"alloc_send", "alloc_receive", "check", "opened"}

(* The lock is cleared already but the process still has buffers to free. *)
Freeing == {"undo_send", "undo_receive", "free_send", "free_receive"}

(* The process is inside the driver and the lock does not say so. *)
Window == {"set_lock"} \cup Freeing

PCs == Out \cup Owning \cup Window

Goto(p, from, to) == /\ pc[p] = from
                     /\ pc' = [pc EXCEPT ![p] = to]

Init ==
  /\ SWDGPIOBBD_lock = 0
  /\ sendBuffer = NULL
  /\ receiveBuffer = NULL
  /\ live = {}
  /\ pc = [p \in Procs |-> "closed"]
  /\ raced = FALSE

-----------------------------------------------------------------------------
(* open() *)

LockIsFree == SWDGPIOBBD_lock = 0

(* The test passes.  Between here and OpenSetLock another test passes too. *)
OpenTest(p) ==
  /\ LockIsFree
  /\ \E o \in Out : Goto(p, o, "set_lock")
  /\ raced' = (raced \/ \E q \in Procs \ {p} : pc[q] \in Window)
  /\ UNCHANGED <<SWDGPIOBBD_lock, sendBuffer, receiveBuffer, live>>

(* "failure: already locked": open() returns -1 and touches nothing. *)
OpenRefused(p) ==
  /\ ~LockIsFree
  /\ Goto(p, "closed", "refused")
  /\ UNCHANGED <<SWDGPIOBBD_lock, sendBuffer, receiveBuffer, live, raced>>

OpenSetLock_Counted(p) ==
  /\ Goto(p, "set_lock", "alloc_send")
  /\ SWDGPIOBBD_lock' = SWDGPIOBBD_lock + 1
  /\ UNCHANGED <<sendBuffer, receiveBuffer, live, raced>>

OpenSetLock_Skipped(p) ==
  /\ Goto(p, "set_lock", "alloc_send")
  /\ UNCHANGED <<SWDGPIOBBD_lock, sendBuffer, receiveBuffer, live, raced>>

(* Sets the lock and initialises the GPIO pins. *)
OpenSetLock(p) ==
  /\ Goto(p, "set_lock", "alloc_send")
  /\ SWDGPIOBBD_lock' = 1
  /\ UNCHANGED <<sendBuffer, receiveBuffer, live, raced>>

(* kcalloc() returns a block that is not in use, or NULL. *)
Kcalloc(ptr, otherPtr) ==
  \E b \in (Blocks \ live) \cup {NULL} :
    /\ ptr' = b
    /\ live' = live \cup ({b} \ {NULL})
    /\ UNCHANGED <<SWDGPIOBBD_lock, otherPtr, raced>>

OpenAllocSend(p) ==
  /\ Goto(p, "alloc_send", "alloc_receive")
  /\ Kcalloc(sendBuffer, receiveBuffer)

OpenAllocReceive(p) ==
  /\ Goto(p, "alloc_receive", "check")
  /\ Kcalloc(receiveBuffer, sendBuffer)

Allocated_SendOnly == sendBuffer # NULL

Allocated == sendBuffer # NULL /\ receiveBuffer # NULL

OpenReturn(p) ==
  /\ Allocated
  /\ Goto(p, "check", "opened")
  /\ UNCHANGED <<SWDGPIOBBD_lock, sendBuffer, receiveBuffer, live, raced>>

OpenFail_LockKept(p) ==
  /\ ~Allocated
  /\ Goto(p, "check", "undo_send")
  /\ UNCHANGED <<SWDGPIOBBD_lock, sendBuffer, receiveBuffer, live, raced>>

(* An allocation failed: the lock is cleared first, the block freed later. *)
OpenFail(p) ==
  /\ ~Allocated
  /\ Goto(p, "check", "undo_send")
  /\ SWDGPIOBBD_lock' = 0
  /\ UNCHANGED <<sendBuffer, receiveBuffer, live, raced>>

Kfree_Forgotten(ptr) ==
  UNCHANGED <<SWDGPIOBBD_lock, sendBuffer, receiveBuffer, live, raced>>

(* if( ptr != NULL ) kfree( ptr ); the pointer keeps its value. *)
Kfree(ptr) ==
  /\ live' = live \ {ptr}
  /\ UNCHANGED <<SWDGPIOBBD_lock, sendBuffer, receiveBuffer, raced>>

OpenUndoSend(p)    == Goto(p, "undo_send", "undo_receive") /\ Kfree(sendBuffer)
OpenUndoReceive(p) == Goto(p, "undo_receive", "refused") /\ Kfree(receiveBuffer)

-----------------------------------------------------------------------------
(* release(), the kernel's answer to the last close() *)

Release_LockKept(p) ==
  /\ Goto(p, "opened", "free_send")
  /\ UNCHANGED <<SWDGPIOBBD_lock, sendBuffer, receiveBuffer, live, raced>>

Release(p) ==
  /\ Goto(p, "opened", "free_send")
  /\ SWDGPIOBBD_lock' = 0
  /\ UNCHANGED <<sendBuffer, receiveBuffer, live, raced>>

ReleaseFreeSend_Receive(p) ==
  Goto(p, "free_send", "free_receive") /\ Kfree(receiveBuffer)

ReleaseFreeSend(p) == Goto(p, "free_send", "free_receive") /\ Kfree(sendBuffer)

ReleaseFreeReceive(p) == Goto(p, "free_receive", "closed") /\ Kfree(receiveBuffer)

-----------------------------------------------------------------------------

(* What a handler does on its own once the process has called it. *)
Handler(p) ==
  \/ OpenSetLock(p)
  \/ OpenAllocSend(p)
  \/ OpenAllocReceive(p)
  \/ OpenReturn(p)
  \/ OpenFail(p)
  \/ OpenUndoSend(p)
  \/ OpenUndoReceive(p)
  \/ ReleaseFreeSend(p)
  \/ ReleaseFreeReceive(p)

Next == \E p \in Procs : OpenTest(p) \/ OpenRefused(p) \/ Release(p) \/ Handler(p)

Spec == Init /\ [][Next]_vars

-----------------------------------------------------------------------------
(* Properties.  The first five say that the tests of the lock that pass while *)
(* another handler is between its test and its set, or between its clear and  *)
(* its last kfree(), are the ONLY way in which the lock fails.                *)

TypeOK ==
  /\ SWDGPIOBBD_lock \in {0, 1}
  /\ sendBuffer \in Blocks \cup {NULL}
  /\ receiveBuffer \in Blocks \cup {NULL}
  /\ live \subseteq Blocks
  /\ pc \in [Procs -> PCs]
  /\ raced \in BOOLEAN

(* At most one process is anywhere between open()'s test and the end of its    *)
(* release(): open() and release() of SWDPI_base.c admit one user at a time.   *)
ExclusiveOwner ==
  ~raced => \A p, q \in Procs : pc[p] \notin Out /\ pc[q] \notin Out => p = q

(* The lock is 1 exactly while a process owns the device: no return path of    *)
(* open(), and no release(), leaves it set behind or clears another's.         *)
LockMatchesOwner ==
  ~raced => (SWDGPIOBBD_lock = 1 <=> \E p \in Procs : pc[p] \in Owning)

(* write() and read() of an opened device use two allocated, distinct buffers. *)
BuffersLive ==
  ~raced => \A p \in Procs : pc[p] = "opened" =>
    /\ {sendBuffer, receiveBuffer} \subseteq live
    /\ sendBuffer # receiveBuffer

(* Every kfree() of the failure path and of release() frees a live block.      *)
FreesOnlyLive ==
  ~raced => \A p \in Procs :
    /\ pc[p] \in {"undo_send", "free_send"} => sendBuffer \in live \cup {NULL}
    /\ pc[p] \in {"undo_receive", "free_receive"} => receiveBuffer \in live \cup {NULL}

(* Once every handler has returned and the device is closed, nothing is        *)
(* allocated: neither a failed open() nor a release() leaks a buffer.          *)
NoLeak ==
  ~raced /\ (\A p \in Procs : pc[p] \in Out) => live = {}

(* What open() announces with "failure: already locked" (SWDPI_base.c:130): no *)
(* second open() succeeds while the device is open.  Concurrent opens break it. *)
AlreadyLocked ==
  \A p, q \in Procs : pc[p] = "opened" /\ pc[q] = "opened" => p = q

-----------------------------------------------------------------------------
(* The inductive strengthening of the safety properties: which blocks are     *)
(* allocated when the one process inside the driver is at label l.            *)

Allocations(l) ==
  IF l \in {"check", "opened", "undo_send", "free_send"}
    THEN {sendBuffer, receiveBuffer} \ {NULL}
  ELSE IF l = "alloc_receive" THEN {sendBuffer} \ {NULL}
  ELSE IF l \in {"undo_receive", "free_receive"} THEN {receiveBuffer} \ {NULL}
  ELSE {}

HeapMatchesPC ==
  ~raced => \A p \in Procs :
    /\ (\A q \in Procs \ {p} : pc[q] \in Out) => live = Allocations(pc[p])
    /\ pc[p] \in {"check", "opened", "undo_send", "free_send"} =>
         (sendBuffer = receiveBuffer => sendBuffer = NULL)
    /\ pc[p] \in {"opened", "free_send", "free_receive"} => Allocated

IInv == TypeOK /\ ExclusiveOwner /\ LockMatchesOwner /\ HeapMatchesPC

=============================================================================
