------------------------------ MODULE SWDPI_module ------------------------------
(***************************************************************************)
(* The life of the kernel module around open() and release() of /dev/SWDPI:  *)
(* module_init registers the device and then selects the GPIO back-end for    *)
(* the board, module_exit takes the registrations back.  SWDPI_open gives     *)
(* the handlers, which the kernel calls as soon as the device is there.       *)
(***************************************************************************)
EXTENDS SWDPI_open, Sequences

CONSTANT Boards   \* the machines the module may be loaded on

VARIABLES
  module,         \* "unloaded", "init", "live" or "exit"
  step,           \* the calls of SWDGPIOBBD_init() or SWDGPIOBBD_exit() that are done
  registered,     \* what the kernel knows of the module
  board,          \* the machine
  interface,      \* SWDPI_gpio_interface: a back-end, or none as the initializer has it
  crashed         \* the processes that were killed in a handler

life == <<module, step, registered, board, interface, crashed>>
modVars == <<vars, life>>

BackEnds == {"raspi4", "raspi5"}

(* alloc_chrdev_region, proc_create, cdev_add, class_create, device_create      *)
InitOrder == <<"region", "proc", "cdev", "class", "device">>

ExitOrder_NoRegion == <<"device", "class", "cdev", "proc">>

(* device_destroy, class_destroy, cdev_del, remove_proc_entry,                  *)
(* unregister_chrdev_region                                                     *)
ExitOrder == <<"device", "class", "cdev", "proc", "region">>

(* open() reaches the driver: there is a node with a device behind it, and the  *)
(* kernel gets a reference to the module, which it does until exit begins.      *)
Reachable == {"device", "cdev"} \subseteq registered /\ module \in {"init", "live"}

ModInit ==
  /\ Init
  /\ module = "unloaded" /\ step = 0 /\ registered = {}
  /\ board \in Boards
  /\ interface = "none"
  /\ crashed = {}

-----------------------------------------------------------------------------
(* insmod and rmmod *)

(* A module that is loaded again starts with fresh globals; what has leaked      *)
(* stays allocated.                                                             *)
Load ==
  /\ module = "unloaded"
  /\ module' = "init" /\ step' = 0
  /\ interface' = "none"
  /\ SWDGPIOBBD_lock' = 0 /\ sendBuffer' = NULL /\ receiveBuffer' = NULL
  /\ UNCHANGED <<live, pc, raced, registered, board, crashed>>

Register ==
  /\ module = "init" /\ step < Len(InitOrder)
  /\ step' = step + 1
  /\ registered' = registered \cup {InitOrder[step + 1]}
  /\ UNCHANGED <<vars, module, board, interface, crashed>>

(* The last thing that init does; boards before the Pi 4, and boards that none  *)
(* of the names match, get no back-end.  Any result is dropped.                 *)
SWDGPIOBBD_initRaspi ==
  /\ module = "init" /\ step = Len(InitOrder)
  /\ module' = "live"
  /\ interface' = IF board \in BackEnds THEN board ELSE interface
  /\ UNCHANGED <<vars, step, registered, board, crashed>>

Unload_NoOwner ==
  /\ module = "live"
  /\ module' = "exit" /\ step' = 0
  /\ UNCHANGED <<vars, registered, board, interface, crashed>>

(* .owner = THIS_MODULE: every process inside the driver holds a reference, and *)
(* one that was killed there never gives it back.                               *)
Unload ==
  /\ module = "live"
  /\ \A p \in Procs : pc[p] \in Out
  /\ module' = "exit" /\ step' = 0
  /\ UNCHANGED <<vars, registered, board, interface, crashed>>

Unregister ==
  /\ module = "exit" /\ step < Len(ExitOrder)
  /\ step' = step + 1
  /\ registered' = registered \ {ExitOrder[step + 1]}
  /\ UNCHANGED <<vars, module, board, interface, crashed>>

Gone ==
  /\ module = "exit" /\ step = Len(ExitOrder)
  /\ module' = "unloaded"
  /\ UNCHANGED <<vars, step, registered, board, interface, crashed>>

-----------------------------------------------------------------------------
(* The handlers *)

Opens(p) ==
  /\ Reachable
  /\ OpenTest(p) \/ OpenRefused(p)
  /\ UNCHANGED life

SetLockAndInit_InitFirst(p) ==
  /\ IF interface = "none" THEN OpenSetLock_Skipped(p) ELSE OpenSetLock(p)
  /\ crashed' = IF interface = "none" THEN crashed \cup {p} ELSE crashed
  /\ UNCHANGED <<module, step, registered, board, interface>>

(* open() calls init() of the interface right after it has set the lock; with no *)
(* back-end that is a call through a null pointer, and the kernel kills the      *)
(* process where it is.                                                         *)
SetLockAndInit(p) ==
  /\ OpenSetLock(p)
  /\ crashed' = IF interface = "none" THEN crashed \cup {p} ELSE crashed
  /\ UNCHANGED <<module, step, registered, board, interface>>

GoesOn(p) ==
  /\ p \notin crashed
  /\ \/ SetLockAndInit(p)
     \/ /\ \/ OpenAllocSend(p) \/ OpenAllocReceive(p) \/ OpenReturn(p) \/ OpenFail(p)
           \/ OpenUndoSend(p) \/ OpenUndoReceive(p) \/ ReleaseFreeSend(p) \/ ReleaseFreeReceive(p)
        /\ UNCHANGED life

Closes(p) == Release(p) /\ UNCHANGED life

-----------------------------------------------------------------------------

ModNext ==
  \/ Load \/ Register \/ SWDGPIOBBD_initRaspi \/ Unload \/ Unregister \/ Gone
  \/ \E p \in Procs : Opens(p) \/ GoesOn(p) \/ Closes(p)

ModSpec == ModInit /\ [][ModNext]_modVars

(* A handler runs to its end unless the process is killed, and every process that *)
(* opened the device closes it: comArrayTransfer() and main() close it on every   *)
(* path, and so does exit.                                                      *)
ModFairness == \A p \in Procs : WF_modVars(GoesOn(p)) /\ WF_modVars(Closes(p))

ModFairSpec == ModSpec /\ ModFairness

-----------------------------------------------------------------------------
(* Properties *)

ModTypeOK ==
  /\ TypeOK
  /\ module \in {"unloaded", "init", "live", "exit"}
  /\ step \in 0..Len(InitOrder)
  /\ registered \subseteq {"region", "proc", "cdev", "class", "device"}
  /\ board \in Boards /\ interface \in BackEnds \cup {"none"}
  /\ crashed \subseteq Procs

(* No process runs in a handler while the module is being removed, or is gone,   *)
(* and what is registered points to something: rmmod waits for users, and the    *)
(* registrations of SWDPI_base.c:423-485 are taken back in the order that keeps   *)
(* the others valid, to the last one.                                           *)
HandlersBacked ==
  /\ module \in {"unloaded", "exit"} => \A p \in Procs : pc[p] \in Out
  /\ "device" \in registered => {"class", "cdev", "region"} \subseteq registered
  /\ "cdev" \in registered => "region" \in registered
  /\ module = "unloaded" => registered = {}

(* A process is killed only where no back-end has been selected; from then on    *)
(* the device is locked and the module in use until the machine restarts, as     *)
(* long as no test of the lock has raced.                                       *)
CrashLocks ==
  crashed # {} =>
    /\ module \in {"init", "live"}
    /\ ~raced => SWDGPIOBBD_lock = 1 /\ \A p \in Procs : pc[p] \in Out \/ p \in crashed

(* The device is never locked for good, whatever the interleaving of opens,      *)
(* closes, loads and unloads, unless a process was killed in open().             *)
LockComesFree == []<>(SWDGPIOBBD_lock = 0 \/ crashed # {})

(* What open() assumes when it calls the interface (SWDPI_base.c:133): a board    *)
(* has been selected before any process is in open().                            *)
HardwareSelected == \A p \in Procs : pc[p] = "set_lock" => interface # "none"

=============================================================================
