-------------------------- MODULE SWDPI_module_proofs --------------------------
(***************************************************************************)
(* Proofs about the open()/release() handlers and about the life of the      *)
(* kernel module around them, for any set of processes, any heap and any      *)
(* boards.  The inductive invariant IInv of the handlers says what is         *)
(* allocated at each label of the one process inside the driver; LifeInv       *)
(* carries it across loads, unloads and processes that are killed in open().   *)
(***************************************************************************)
EXTENDS SWDPI_module, TLAPS

-----------------------------------------------------------------------------
(* open() and release() alone: Spec of SWDPI_open. *)

(* Every step is either a passed or a refused test, a release, or one of the *)
(* handler's own steps; the preservation proofs below split along this line. *)
LEMMA NextCases ==
  ASSUME Next
  PROVE  \E p \in Procs :
           \/ OpenTest(p)         \/ OpenRefused(p)      \/ OpenSetLock(p)
           \/ OpenAllocSend(p)    \/ OpenAllocReceive(p) \/ OpenReturn(p)
           \/ OpenFail(p)         \/ OpenUndoSend(p)     \/ OpenUndoReceive(p)
           \/ Release(p)          \/ ReleaseFreeSend(p)  \/ ReleaseFreeReceive(p)
  BY DEF Next, Handler

LEMMA TypeStep == TypeOK /\ [Next]_vars => TypeOK'
<1> SUFFICES ASSUME TypeOK, [Next]_vars
             PROVE  TypeOK'
  OBVIOUS
<1> USE DEF TypeOK, PCs, Out, Owning, Freeing, Window, Goto
<1>1. CASE UNCHANGED vars
  BY <1>1 DEF vars
<1>2. CASE Next
  <2> PICK p \in Procs :
         \/ OpenTest(p)         \/ OpenRefused(p)      \/ OpenSetLock(p)
         \/ OpenAllocSend(p)    \/ OpenAllocReceive(p) \/ OpenReturn(p)
         \/ OpenFail(p)         \/ OpenUndoSend(p)     \/ OpenUndoReceive(p)
         \/ Release(p)          \/ ReleaseFreeSend(p)  \/ ReleaseFreeReceive(p)
    BY <1>2, NextCases
  <2>1. CASE OpenTest(p) \/ OpenRefused(p)
    BY <2>1 DEF OpenTest, OpenRefused
  <2>2. CASE OpenSetLock(p) \/ OpenReturn(p) \/ OpenFail(p) \/ Release(p)
    BY <2>2 DEF OpenSetLock, OpenReturn, OpenFail, Release
  <2>3. CASE OpenAllocSend(p) \/ OpenAllocReceive(p)
    BY <2>3 DEF OpenAllocSend, OpenAllocReceive, Kcalloc
  <2>4. CASE OpenUndoSend(p) \/ OpenUndoReceive(p)
    BY <2>4 DEF OpenUndoSend, OpenUndoReceive, Kfree
  <2>5. CASE ReleaseFreeSend(p) \/ ReleaseFreeReceive(p)
    BY <2>5 DEF ReleaseFreeSend, ReleaseFreeReceive, Kfree
  <2>6. QED
    BY <2>1, <2>2, <2>3, <2>4, <2>5
<1>3. QED
  BY <1>1, <1>2

(* The lock, the two pointers, the heap and every program counter keep their  *)
(* type, whatever the interleaving of open() and release().                   *)
THEOREM TypeCorrect == Spec => []TypeOK
<1>1. Init => TypeOK
  BY DEF Init, TypeOK, PCs, Out
<1>2. QED
  BY <1>1, TypeStep, PTL DEF Spec

-----------------------------------------------------------------------------
(* While no test has raced, a process inside the driver is alone in it, so    *)
(* its step meets only processes that are outside.                            *)
LEMMA AloneInside ==
  ASSUME IInv, ~raced, NEW p \in Procs, pc[p] \notin Out
  PROVE  \A q \in Procs \ {p} : pc[q] \in Out
  BY DEF IInv, ExclusiveOwner

(* A test that passes without racing finds every process outside, the lock    *)
(* free and the heap empty.                                                   *)
LEMMA CleanTest ==
  ASSUME IInv, NEW p \in Procs, OpenTest(p), ~raced'
  PROVE  /\ ~raced
         /\ \A q \in Procs : pc[q] \in Out
         /\ live = {}
<1>1. ~raced /\ pc[p] \in Out
  BY DEF OpenTest, Goto, IInv, TypeOK
<1>2. \A q \in Procs \ {p} : pc[q] \notin Window
  BY DEF OpenTest, IInv, TypeOK
<1>3. \A q \in Procs : pc[q] \notin Owning
  BY <1>1 DEF OpenTest, LockIsFree, IInv, LockMatchesOwner
<1>4. \A q \in Procs : pc[q] \in Out
  BY <1>1, <1>2, <1>3 DEF IInv, TypeOK, PCs
<1>5. live = Allocations(pc[p])
  BY <1>1, <1>4 DEF IInv, HeapMatchesPC
<1>6. Allocations(pc[p]) = {}
  BY <1>1 DEF Allocations, Out
<1>7. QED
  BY <1>1, <1>4, <1>5, <1>6

(* IInv is preserved by every step. *)
LEMMA IInvStep ==
  ASSUME IInv, Next, TypeOK'
  PROVE  IInv'
<1> SUFFICES ASSUME ~raced'
             PROVE  (ExclusiveOwner /\ LockMatchesOwner /\ HeapMatchesPC)'
  BY DEF IInv, ExclusiveOwner, LockMatchesOwner, HeapMatchesPC
<1> PICK p \in Procs :
       \/ OpenTest(p)         \/ OpenRefused(p)      \/ OpenSetLock(p)
       \/ OpenAllocSend(p)    \/ OpenAllocReceive(p) \/ OpenReturn(p)
       \/ OpenFail(p)         \/ OpenUndoSend(p)     \/ OpenUndoReceive(p)
       \/ Release(p)          \/ ReleaseFreeSend(p)  \/ ReleaseFreeReceive(p)
  BY NextCases
<1> USE NullAssumption DEF IInv, TypeOK, Out, Owning, Freeing, Window, PCs, Goto, Allocated,
           Allocations
<1>1. CASE OpenTest(p)
  <2>1. /\ ~raced
        /\ \A q \in Procs : pc[q] \in Out
        /\ live = {}
    BY <1>1, CleanTest
  <2>2. ExclusiveOwner'
    BY <1>1, <2>1 DEF OpenTest, ExclusiveOwner
  <2>3. LockMatchesOwner'
    BY <1>1, <2>1 DEF OpenTest, LockMatchesOwner, LockIsFree
  <2>4. HeapMatchesPC'
    BY <1>1, <2>1 DEF OpenTest, HeapMatchesPC
  <2>5. QED
    BY <2>2, <2>3, <2>4
<1>2. CASE OpenRefused(p)
  <2>1. ExclusiveOwner'
    BY <1>2 DEF OpenRefused, ExclusiveOwner
  <2>2. LockMatchesOwner'
    BY <1>2 DEF OpenRefused, LockMatchesOwner
  <2>3. HeapMatchesPC'
    BY <1>2 DEF OpenRefused, HeapMatchesPC
  <2>4. QED
    BY <2>1, <2>2, <2>3
<1>3. CASE \/ OpenSetLock(p) \/ OpenAllocSend(p) \/ OpenAllocReceive(p)
           \/ OpenReturn(p) \/ OpenFail(p) \/ OpenUndoSend(p) \/ OpenUndoReceive(p)
           \/ Release(p) \/ ReleaseFreeSend(p) \/ ReleaseFreeReceive(p)
  <2>1. ~raced /\ pc[p] \notin Out
    BY <1>3 DEF OpenSetLock, OpenAllocSend, OpenAllocReceive, OpenReturn, OpenFail,
                OpenUndoSend, OpenUndoReceive, Release, ReleaseFreeSend,
                ReleaseFreeReceive, Kcalloc, Kfree
  <2>2. \A q \in Procs \ {p} : pc[q] \in Out
    BY <2>1, AloneInside
  <2>3. \A q \in Procs \ {p} : pc'[q] = pc[q]
    BY <1>3 DEF OpenSetLock, OpenAllocSend, OpenAllocReceive, OpenReturn, OpenFail,
                OpenUndoSend, OpenUndoReceive, Release, ReleaseFreeSend,
                ReleaseFreeReceive
  <2>4. ExclusiveOwner'
    BY <2>2, <2>3 DEF ExclusiveOwner
  <2>5. /\ live = Allocations(pc[p])
        /\ SWDGPIOBBD_lock = 1 <=> pc[p] \in Owning
    BY <2>1, <2>2 DEF HeapMatchesPC, LockMatchesOwner
  <2>6. SWDGPIOBBD_lock' = 1 <=> pc'[p] \in Owning
    BY <1>3, <2>5 DEF OpenSetLock, OpenAllocSend, OpenAllocReceive, OpenReturn, OpenFail,
                OpenUndoSend, OpenUndoReceive, Release, ReleaseFreeSend,
                ReleaseFreeReceive, Kcalloc, Kfree
  <2>7. LockMatchesOwner'
    BY <2>2, <2>3, <2>6 DEF LockMatchesOwner
  <2>8. /\ (live = Allocations(pc[p]))'
        /\ (pc[p] \in {"check", "opened", "undo_send", "free_send"} =>
              (sendBuffer = receiveBuffer => sendBuffer = NULL))'
        /\ (pc[p] \in {"opened", "free_send", "free_receive"} => Allocated)'
    <3>1. CASE OpenSetLock(p)
      BY <3>1, <2>5 DEF OpenSetLock
    <3>2. CASE OpenAllocSend(p)
      BY <3>2, <2>5 DEF OpenAllocSend, Kcalloc
    <3>3. CASE OpenAllocReceive(p)
      BY <3>3, <2>5 DEF OpenAllocReceive, Kcalloc
    <3>4. CASE OpenReturn(p) \/ OpenFail(p) \/ Release(p)
      BY <3>4, <2>1, <2>5 DEF OpenReturn, OpenFail, Release, HeapMatchesPC
    <3>5. CASE OpenUndoSend(p) \/ OpenUndoReceive(p)
      BY <3>5, <2>1, <2>5 DEF OpenUndoSend, OpenUndoReceive, Kfree, HeapMatchesPC
    <3>6. CASE ReleaseFreeSend(p) \/ ReleaseFreeReceive(p)
      BY <3>6, <2>1, <2>5 DEF ReleaseFreeSend, ReleaseFreeReceive, Kfree, HeapMatchesPC
    <3>7. QED
      BY <1>3, <3>1, <3>2, <3>3, <3>4, <3>5, <3>6
  <2>9. HeapMatchesPC'
    <3> SUFFICES ASSUME NEW q \in Procs
                 PROVE  /\ (\A r \in Procs \ {q} : pc'[r] \in Out) => live' = Allocations(pc[q])'
                        /\ (pc[q] \in {"check", "opened", "undo_send", "free_send"} =>
                              (sendBuffer = receiveBuffer => sendBuffer = NULL))'
                        /\ (pc[q] \in {"opened", "free_send", "free_receive"} => Allocated)'
      BY DEF HeapMatchesPC
    <3>1. CASE q = p
      BY <3>1, <2>8
    <3>2. CASE q # p
      <4>1. pc'[q] \in Out
        BY <3>2, <2>2, <2>3
      <4>2. (\A r \in Procs \ {q} : pc'[r] \in Out) => live' = {}
        BY <3>2, <2>8
      <4>3. QED
        BY <4>1, <4>2
    <3>3. QED
      BY <3>1, <3>2
  <2>10. QED
    BY <2>4, <2>7, <2>9
<1>4. QED
  BY <1>1, <1>2, <1>3

LEMMA InitIInv == Init => IInv
<1> SUFFICES ASSUME Init
             PROVE  IInv
  OBVIOUS
<1>1. \A p \in Procs : pc[p] = "closed" /\ live = {} /\ SWDGPIOBBD_lock = 0
  BY DEF Init
<1>2. TypeOK
  BY DEF Init, TypeOK, PCs, Out
<1>3. ExclusiveOwner /\ LockMatchesOwner
  BY <1>1, <1>2 DEF Init, ExclusiveOwner, LockMatchesOwner, Out, Owning
<1>4. HeapMatchesPC
  BY <1>1 DEF HeapMatchesPC, Allocations
<1>5. QED
  BY <1>2, <1>3, <1>4 DEF IInv

LEMMA NextIInv == IInv /\ [Next]_vars => IInv'
<1> SUFFICES ASSUME IInv, [Next]_vars
             PROVE  IInv'
  OBVIOUS
<1>1. TypeOK'
  BY TypeStep DEF IInv
<1>2. CASE Next
  BY <1>1, <1>2, IInvStep
<1>3. CASE UNCHANGED vars
  BY <1>1, <1>3 DEF vars, IInv, ExclusiveOwner, LockMatchesOwner, HeapMatchesPC,
         Allocations, Allocated
<1>4. QED
  BY <1>2, <1>3

(* IInv holds of every reachable state. *)
THEOREM Inductive == Spec => []IInv
  BY InitIInv, NextIInv, PTL DEF Spec

-----------------------------------------------------------------------------
(* Unless a test of the lock raced, one process at most is inside the driver. *)
THEOREM Exclusion == Spec => []ExclusiveOwner
<1>1. IInv => ExclusiveOwner
  BY DEF IInv
<1>2. QED
  BY <1>1, Inductive, PTL

(* Unless a test of the lock raced, the lock is set exactly while some process *)
(* owns the device: no path through open() or release() leaves it stuck.       *)
THEOREM LockAccurate == Spec => []LockMatchesOwner
<1>1. IInv => LockMatchesOwner
  BY DEF IInv
<1>2. QED
  BY <1>1, Inductive, PTL

LEMMA IInvBuffers == IInv => BuffersLive /\ FreesOnlyLive /\ NoLeak
<1>1. IInv => BuffersLive /\ FreesOnlyLive
  <2> SUFFICES ASSUME IInv, ~raced, NEW p \in Procs, pc[p] \notin Out
               PROVE  /\ pc[p] = "opened" => /\ {sendBuffer, receiveBuffer} \subseteq live
                                             /\ sendBuffer # receiveBuffer
                      /\ pc[p] \in {"undo_send", "free_send"} =>
                           sendBuffer \in live \cup {NULL}
                      /\ pc[p] \in {"undo_receive", "free_receive"} =>
                           receiveBuffer \in live \cup {NULL}
    BY DEF BuffersLive, FreesOnlyLive, Out
  <2>1. live = Allocations(pc[p])
    BY AloneInside DEF IInv, HeapMatchesPC
  <2>2. QED
    BY <2>1, NullAssumption DEF IInv, HeapMatchesPC, Allocations, Allocated
<1>2. IInv => NoLeak
  <2> SUFFICES ASSUME IInv, ~raced, \A p \in Procs : pc[p] \in Out
               PROVE  live = {}
    BY DEF NoLeak
  <2>1. PICK p \in Procs : TRUE
    BY ProcsAssumption
  <2>2. live = Allocations(pc[p])
    BY <2>1 DEF IInv, HeapMatchesPC
  <2>3. QED
    BY <2>1, <2>2 DEF Allocations, Out
<1>3. QED
  BY <1>1, <1>2

(* Unless a test of the lock raced, a device that is open has two buffers, which  *)
(* are allocated and not the same block.                                         *)
THEOREM BuffersStay == Spec => []BuffersLive
  BY IInvBuffers, Inductive, PTL

(* Unless a test of the lock raced, the failure path of open() and release() free  *)
(* allocated blocks only, each once.                                             *)
THEOREM FreedOnce == Spec => []FreesOnlyLive
  BY IInvBuffers, Inductive, PTL

(* Unless a test of the lock raced, nothing stays allocated after the last         *)
(* handler, a failed open() included.                                            *)
THEOREM NothingLeaks == Spec => []NoLeak
  BY IInvBuffers, Inductive, PTL

-----------------------------------------------------------------------------
(* The life of the module: ModSpec. *)

(* What is registered follows from how far init or exit has come; a process that *)
(* was killed stays where it was.                                               *)
RegisteredSoFar ==
  registered =
    CASE module = "unloaded" -> {}
      [] module = "init" -> {InitOrder[i] : i \in 1..step}
      [] module = "live" -> {InitOrder[i] : i \in 1..Len(InitOrder)}
      [] module = "exit" -> {ExitOrder[i] : i \in (step + 1)..Len(ExitOrder)}

NoHandler == \A p \in Procs : pc[p] \in Out

LifeInv ==
  /\ ModTypeOK
  /\ IInv
  /\ RegisteredSoFar
  /\ module \in {"unloaded", "exit"} => NoHandler
  /\ \A p \in crashed : pc[p] = "alloc_send"

LEMMA Orders ==
  /\ Len(InitOrder) = 5 /\ Len(ExitOrder) = 5
  /\ InitOrder[1] = "region" /\ InitOrder[2] = "proc" /\ InitOrder[3] = "cdev"
  /\ InitOrder[4] = "class" /\ InitOrder[5] = "device"
  /\ ExitOrder[1] = "device" /\ ExitOrder[2] = "class" /\ ExitOrder[3] = "cdev"
  /\ ExitOrder[4] = "proc" /\ ExitOrder[5] = "region"
  BY DEF InitOrder, ExitOrder

(* The globals of a freshly loaded module.                                      *)
LEMMA LoadIInv ==
  ASSUME LifeInv, Load
  PROVE  IInv'
<1>1. NoHandler /\ TypeOK
  BY DEF LifeInv, Load, IInv
<1>2. ~raced => live = {}
  BY <1>1, IInvBuffers DEF LifeInv, NoLeak, NoHandler
<1>3. TypeOK'
  BY <1>1 DEF Load, TypeOK
<1>4. ExclusiveOwner'
  BY <1>1 DEF Load, NoHandler, ExclusiveOwner
<1>5. LockMatchesOwner'
  BY <1>1 DEF Load, NoHandler, LockMatchesOwner, Out, Owning
<1>6. HeapMatchesPC'
  BY <1>1, <1>2 DEF Load, NoHandler, HeapMatchesPC, Allocations, Out
<1>7. QED
  BY <1>3, <1>4, <1>5, <1>6 DEF IInv

(* A step of a handler, as the module sees it.                                  *)
LEMMA HandlerStep ==
  ASSUME LifeInv, NEW p \in Procs, Opens(p) \/ GoesOn(p) \/ Closes(p)
  PROVE  /\ Next
         /\ p \notin crashed
         /\ UNCHANGED <<module, step, registered, board, interface>>
         /\ \A q \in Procs \ {p} : pc'[q] = pc[q]
         /\ crashed' = crashed \/ (crashed' = crashed \cup {p} /\ pc'[p] = "alloc_send")
         /\ module \notin {"unloaded", "exit"}
<1>1. pc \in [Procs -> PCs]
  BY DEF LifeInv, IInv, TypeOK
<1>2. CASE Opens(p)
  BY <1>1, <1>2 DEF Opens, life, Next, OpenTest, OpenRefused, Goto, Reachable, LifeInv, Out
<1>3. CASE Closes(p)
  BY <1>1, <1>3 DEF Closes, life, Next, Release, Goto, LifeInv, NoHandler, Out
<1>4. CASE GoesOn(p)
  <2>1. Handler(p) /\ p \notin crashed
    BY <1>4 DEF GoesOn, SetLockAndInit, Handler
  <2>2. /\ pc[p] \notin Out
        /\ \A q \in Procs \ {p} : pc'[q] = pc[q]
    BY <1>1, <2>1 DEF Handler, OpenSetLock, OpenAllocSend, OpenAllocReceive, OpenReturn, OpenFail,
         OpenUndoSend, OpenUndoReceive, ReleaseFreeSend, ReleaseFreeReceive, Goto, Out
  <2>3. crashed' = crashed \/ (crashed' = crashed \cup {p} /\ pc'[p] = "alloc_send")
    BY <1>1, <1>4 DEF GoesOn, SetLockAndInit, OpenSetLock, Goto, life
  <2>4. UNCHANGED <<module, step, registered, board, interface>>
    BY <1>4 DEF GoesOn, SetLockAndInit, life
  <2>5. QED
    BY <2>1, <2>2, <2>3, <2>4 DEF Next, LifeInv, NoHandler
<1>5. QED
  BY <1>2, <1>3, <1>4

LEMMA LifeStep == LifeInv /\ [ModNext]_modVars => LifeInv'
<1> SUFFICES ASSUME LifeInv, [ModNext]_modVars
             PROVE  LifeInv'
  OBVIOUS
<1> USE Orders
<1>1. CASE UNCHANGED vars /\ (Register \/ SWDGPIOBBD_initRaspi \/ Unload \/ Unregister \/ Gone \/ UNCHANGED life)
  <2>1. IInv'
    BY <1>1, NextIInv DEF LifeInv
  <2>2. pc' = pc /\ crashed' = crashed
    BY <1>1 DEF vars, life, Register, SWDGPIOBBD_initRaspi, Unload, Unregister, Gone
  <2>3. CASE Register
    <3>1. /\ module = "init" /\ step \in 0..4 /\ module' = "init" /\ step' = step + 1
          /\ registered' = registered \cup {InitOrder[step + 1]}
      BY <2>3 DEF Register, LifeInv, ModTypeOK
    <3>2. registered' = {InitOrder[i] : i \in 1..step'}
      <4>1. registered = {InitOrder[i] : i \in 1..step}
        BY <3>1 DEF LifeInv, RegisteredSoFar
      <4>2. 1..(step + 1) = (1..step) \cup {step + 1}
        BY <3>1
      <4>3. QED
        BY <3>1, <4>1, <4>2
    <3>3. RegisteredSoFar'
      BY <3>1, <3>2 DEF RegisteredSoFar
    <3>4. ModTypeOK'
      <4>1. registered' \subseteq {"region", "proc", "cdev", "class", "device"}
        <5>1. \A i \in 1..5 : InitOrder[i] \in {"region", "proc", "cdev", "class", "device"}
          OBVIOUS
        <5>2. step + 1 \in 1..5
          BY <3>1
        <5>3. QED
          BY <3>1, <5>1, <5>2 DEF LifeInv, ModTypeOK
      <4>2. QED
        BY <2>1, <2>3, <3>1, <4>1 DEF Register, LifeInv, ModTypeOK, IInv
    <3>5. module' \in {"unloaded", "exit"} => NoHandler'
      BY <2>2, <2>3 DEF Register, NoHandler
    <3>6. QED
      BY <2>1, <2>2, <3>3, <3>4, <3>5 DEF LifeInv
  <2>4. CASE SWDGPIOBBD_initRaspi
    <3>1. module = "init" /\ step = 5 /\ module' = "live" /\ step' = step /\ registered' = registered
      BY <2>4 DEF SWDGPIOBBD_initRaspi
    <3>2. registered' = {InitOrder[i] : i \in 1..5}
      BY <3>1 DEF LifeInv, RegisteredSoFar
    <3>3. RegisteredSoFar'
      BY <3>1, <3>2 DEF RegisteredSoFar
    <3>4. ModTypeOK'
      BY <2>1, <2>4 DEF SWDGPIOBBD_initRaspi, vars, LifeInv, ModTypeOK, IInv, BackEnds
    <3>5. module' \in {"unloaded", "exit"} => NoHandler'
      BY <2>2, <2>4 DEF SWDGPIOBBD_initRaspi, NoHandler
    <3>6. QED
      BY <2>1, <2>2, <3>3, <3>4, <3>5 DEF LifeInv
  <2>5. CASE Unload
    <3>1. module = "live" /\ module' = "exit" /\ step' = 0 /\ registered' = registered
      BY <2>5 DEF Unload
    <3>2. registered' = {ExitOrder[i] : i \in 1..5}
      <4>1. registered = {InitOrder[i] : i \in 1..5}
        BY <3>1 DEF LifeInv, RegisteredSoFar
      <4>3. {InitOrder[i] : i \in 1..5} = {InitOrder[1], InitOrder[2], InitOrder[3], InitOrder[4], InitOrder[5]}
        <5>1. 1..5 = {1, 2, 3, 4, 5}
          OBVIOUS
        <5>2. QED
          BY <5>1
      <4>4. {ExitOrder[i] : i \in 1..5} = {ExitOrder[1], ExitOrder[2], ExitOrder[3], ExitOrder[4], ExitOrder[5]}
        <5>1. 1..5 = {1, 2, 3, 4, 5}
          OBVIOUS
        <5>2. QED
          BY <5>1
      <4>5. {InitOrder[1], InitOrder[2], InitOrder[3], InitOrder[4], InitOrder[5]}
              = {ExitOrder[1], ExitOrder[2], ExitOrder[3], ExitOrder[4], ExitOrder[5]}
        OBVIOUS
      <4>6. QED
        BY <3>1, <4>1, <4>3, <4>4, <4>5
    <3>3. RegisteredSoFar'
      BY <3>1, <3>2 DEF RegisteredSoFar
    <3>4. ModTypeOK'
      BY <2>1, <2>5 DEF Unload, vars, LifeInv, ModTypeOK, IInv
    <3>5. module' \in {"unloaded", "exit"} => NoHandler'
      BY <2>2, <2>5 DEF Unload, NoHandler
    <3>6. QED
      BY <2>1, <2>2, <3>3, <3>4, <3>5 DEF LifeInv
  <2>6. CASE Unregister
    <3>1. /\ module = "exit" /\ step \in 0..4 /\ module' = "exit" /\ step' = step + 1
          /\ registered' = registered \ {ExitOrder[step + 1]}
      BY <2>6 DEF Unregister, LifeInv, ModTypeOK
    <3>2. registered' = {ExitOrder[i] : i \in (step' + 1)..5}
      <4>1. registered = {ExitOrder[i] : i \in (step + 1)..5}
        BY <3>1 DEF LifeInv, RegisteredSoFar
      <4>2. \A i, j \in 1..5 : ExitOrder[i] = ExitOrder[j] => i = j
        OBVIOUS
      <4>3. (step + 1)..5 = ((step + 2)..5) \cup {step + 1} /\ step + 1 \in 1..5 /\ (step + 2)..5 \subseteq 1..5
        BY <3>1
      <4>4. step + 1 \notin (step + 2)..5
        BY <3>1
      <4>5. {ExitOrder[i] : i \in (step + 1)..5} \ {ExitOrder[step + 1]} = {ExitOrder[i] : i \in (step + 2)..5}
        BY <4>2, <4>3, <4>4
      <4>6. QED
        BY <3>1, <4>1, <4>5
    <3>3. RegisteredSoFar'
      BY <3>1, <3>2 DEF RegisteredSoFar
    <3>4. ModTypeOK'
      <4>1. /\ UNCHANGED <<board, interface, crashed>> /\ step' \in 0..5
            /\ registered' \subseteq {"region", "proc", "cdev", "class", "device"}
        <5>1. UNCHANGED <<board, interface, crashed>>
          BY <2>6 DEF Unregister
        <5>2. registered \subseteq {"region", "proc", "cdev", "class", "device"}
          BY DEF LifeInv, ModTypeOK
        <5>3. step' \in 0..5
          BY <3>1
        <5>4. QED
          BY <3>1, <5>1, <5>2, <5>3
      <4>2. QED
        BY <2>1, <3>1, <4>1 DEF LifeInv, ModTypeOK, IInv
    <3>5. NoHandler'
      BY <2>2, <3>1 DEF LifeInv, NoHandler
    <3>6. QED
      BY <2>1, <2>2, <3>3, <3>4, <3>5 DEF LifeInv
  <2>7. CASE Gone
    <3>1. module = "exit" /\ step = 5 /\ module' = "unloaded" /\ registered' = registered
      BY <2>7 DEF Gone
    <3>2. registered' = {}
      <4>1. registered = {ExitOrder[i] : i \in (step + 1)..5}
        BY <3>1 DEF LifeInv, RegisteredSoFar
      <4>2. (step + 1)..5 = {}
        BY <3>1
      <4>3. QED
        BY <3>1, <4>1, <4>2
    <3>3. RegisteredSoFar'
      BY <3>1, <3>2 DEF RegisteredSoFar
    <3>4. ModTypeOK'
      BY <2>1, <2>7 DEF Gone, LifeInv, ModTypeOK, IInv
    <3>5. NoHandler'
      BY <2>2, <3>1 DEF LifeInv, NoHandler
    <3>6. QED
      BY <2>1, <2>2, <3>3, <3>4, <3>5 DEF LifeInv
  <2>8. CASE UNCHANGED life
    BY <1>1, <2>1, <2>2, <2>8 DEF life, vars, LifeInv, ModTypeOK, RegisteredSoFar, NoHandler, IInv
  <2>9. QED
    BY <1>1, <2>3, <2>4, <2>5, <2>6, <2>7, <2>8
<1>2. CASE Load
  <2>1. IInv'
    BY <1>2, LoadIInv
  <2>2. ModTypeOK' /\ RegisteredSoFar'
    BY <1>2, <2>1 DEF Load, LifeInv, ModTypeOK, RegisteredSoFar, IInv
  <2>3. QED
    BY <1>2, <2>1, <2>2 DEF Load, LifeInv, NoHandler
<1>3. ASSUME NEW p \in Procs, Opens(p) \/ GoesOn(p) \/ Closes(p)
      PROVE  LifeInv'
  <2>1. /\ Next /\ p \notin crashed
        /\ UNCHANGED <<module, step, registered, board, interface>>
        /\ \A q \in Procs \ {p} : pc'[q] = pc[q]
        /\ crashed' = crashed \/ (crashed' = crashed \cup {p} /\ pc'[p] = "alloc_send")
        /\ module \notin {"unloaded", "exit"}
    BY <1>3, HandlerStep
  <2>2. IInv'
    BY <2>1, NextIInv DEF LifeInv
  <2>3. ModTypeOK' /\ RegisteredSoFar'
    BY <2>1, <2>2 DEF LifeInv, ModTypeOK, RegisteredSoFar, IInv
  <2>4. \A q \in crashed' : pc'[q] = "alloc_send"
    BY <2>1 DEF LifeInv, ModTypeOK
  <2>5. QED
    BY <2>1, <2>2, <2>3, <2>4 DEF LifeInv
<1>4. QED
  BY <1>1, <1>2, <1>3 DEF ModNext, modVars, Register, SWDGPIOBBD_initRaspi, Unload, Unregister, Gone

LEMMA LifeInit == ModInit => LifeInv
<1> SUFFICES ASSUME ModInit
             PROVE  LifeInv
  OBVIOUS
<1>1. IInv
  BY InitIInv DEF ModInit
<1>2. QED
  BY <1>1, Orders DEF ModInit, Init, LifeInv, IInv, ModTypeOK, RegisteredSoFar, NoHandler, Out

(* The inductive invariant of the whole driver's life.                          *)
THEOREM LifeInductive == ModSpec => []LifeInv
  BY LifeInit, LifeStep, PTL DEF ModSpec

-----------------------------------------------------------------------------
(* Loading, unloading and killed processes disturb nothing of what the lock and  *)
(* the heap of open() and release() guarantee.                                  *)
THEOREM LifeSafe ==
  ModSpec => [](/\ ModTypeOK /\ ExclusiveOwner /\ LockMatchesOwner
                /\ BuffersLive /\ FreesOnlyLive /\ NoLeak)
<1>1. LifeInv => /\ ModTypeOK /\ ExclusiveOwner /\ LockMatchesOwner
                 /\ BuffersLive /\ FreesOnlyLive /\ NoLeak
  BY IInvBuffers DEF LifeInv, IInv
<1>2. QED
  BY <1>1, LifeInductive, PTL

(* No handler runs in a module that is being removed, and the registrations      *)
(* never point to one that is gone.                                             *)
THEOREM Backed == ModSpec => []HandlersBacked
<1>1. LifeInv => HandlersBacked
  <2> SUFFICES ASSUME LifeInv
               PROVE  HandlersBacked
    OBVIOUS
  <2>1. /\ "device" \in registered => {"class", "cdev", "region"} \subseteq registered
        /\ "cdev" \in registered => "region" \in registered
        /\ module = "unloaded" => registered = {}
    BY Orders DEF LifeInv, RegisteredSoFar, ModTypeOK
  <2>2. QED
    BY <2>1 DEF LifeInv, NoHandler, HandlersBacked
<1>2. QED
  BY <1>1, LifeInductive, PTL

(* A process that is killed in open() keeps the device locked and the module in  *)
(* use for good.                                                                *)
THEOREM CrashIsFinal == ModSpec => []CrashLocks
<1>1. LifeInv => CrashLocks
  <2> SUFFICES ASSUME LifeInv, NEW p \in crashed
               PROVE  /\ module \in {"init", "live"}
                      /\ ~raced => SWDGPIOBBD_lock = 1 /\ \A q \in Procs : pc[q] \in Out \/ q \in crashed
    BY DEF CrashLocks
  <2>1. p \in Procs /\ pc[p] = "alloc_send"
    BY DEF LifeInv, ModTypeOK
  <2>2. module \in {"init", "live"}
    BY <2>1 DEF LifeInv, ModTypeOK, NoHandler, Out
  <2>3. ASSUME ~raced PROVE SWDGPIOBBD_lock = 1 /\ \A q \in Procs : pc[q] \in Out \/ q \in crashed
    BY <2>1, <2>3 DEF LifeInv, IInv, ExclusiveOwner, LockMatchesOwner, Out, Owning
  <2>4. QED
    BY <2>2, <2>3
<1>2. QED
  BY <1>1, LifeInductive, PTL

=============================================================================
