# cheesecake in TLA+

*cheesecake* turns a Raspberry Pi into a debug probe: a Linux kernel module (`SWDPI*.c`)
bit-bangs the SWD protocol on two GPIO pins and offers it as `/dev/SWDPI`, and a user
program (`cheese*.c`) reads, writes, identifies, loads and starts ARM Cortex-M targets
through that device. This directory holds TLA+ models of both halves, TLC runs that check
them on small instances, and TLAPS proofs about all of them: every invariant that the runs
check of the code as it is has a theorem.

`PROJECT.json` maps every definition to its source lines and lists the runs, the mutants
that each property has to catch, the hazards of the code and the disagreements found.

## 1. The system

### Components

| Component | Source | State it keeps | Operations | Module |
|---|---|---|---|---|
| open/release of the driver | `SWDPI_base.c` | the lock, two buffer pointers, the kernel heap | `open`, `release` | `SWDPI_open` |
| module init and exit | `SWDPI_base.c`, `SWDPI_SWD.c` | what is registered, the back-end | `init`, `exit`, `initRaspi` | `SWDPI_module` |
| write/read of the driver | `SWDPI_base.c` | send and receive buffer, two levels, the read/write lock | `write` (copy loop, command loop, error path), `read` | `SWDPI_rw` |
| the wire | `SWDPI_SWD.c` | pin direction, place in the transfer, tries | `transfer`, `abort`, the sequences, the bit and turnaround cycles | `SWDPI_SWD`, `Transfer` |
| GPIO back-ends | `SWDPI_raspi4.c`, `SWDPI_raspi5.c` | the registers of the pins | set, clear, read, direction, `init`, `cleanup` | `Gpio`, `SwdLine` |
| comArray | `cheese_comSWD.c` | command and reply array, the error code | `comArrayClear/Add/Transfer/Read`, `com_transferSequence` | `ComArray` |
| memory access | `cheese_memoryaccess.c`, `cheese_comSWD.c` | the progress of a chunked read or write, the dump file | `stmFetch`, `stmPrint`, `stmDump`, `stmReadAligned`, `stmWriteAligned`, `com_readWord`, `com_writeWord` | `MemoryAccess`, `MemAP`, `MemCopy` |
| devices and core control | `cheese_devices.c` and tables | the two indices of the current device | identification, command sequences, core registers | `Devices` |
| write, run, execute, erase, test | `cheese_memoryaccess.c`, `cheese_test.c` | the image, the target's core | `stmWrite`, `stmRun`, `stmExecute`, `stmErase`, `cheese_test` | `Devices` |
| system information | `cheese_systeminfo.c` | the list of access ports, the recursion | `detectSystem`, `extractComponent`, `extractROMtable`, `extractSCScomponent` | `SystemInfo` |
| command line | `cheesecake.c`, `cheese_utils.c` | none | `main` | the choice of the command in `Devices`, the calls of `MemoryAccess` and `SystemInfo`; argument parsing is left out |
| unused code, name tables | `saved_snippets.c`, `*.inc` | none | none | not modelled |

### How they interact

```
 main(): -info / -stmprint / -stmdump / -stmwrite / -stmrun / ...   one process each
      |  calls                                     Devices, SystemInfo
      v
 memory functions: chunks -> command lists         MemoryAccess  (promise: MemCopy)
      |  comArrayClear, comArrayAdd..., comArrayTransfer
      v
 open, write, read, close of /dev/SWDPI            ComArray over SWDPI_rw; SWDPI_module over SWDPI_open
      |  SWDGPIOBBD_transfer per command, SWDGPIOBBD_abort after a failure
      v
 the wire, cycle by cycle                          SWDPI_SWD     (promise: Transfer)
      |  setPin, clearPin, setDirection, readPin per cycle
      v
 the registers of the GPIO block                   Gpio          (promise: SwdLine)
      |
 the target: debug port, memory access port (MemAP), core (in Devices), ROM tables (in SystemInfo)
```

Processes share the driver's globals, and kernel drivers share the GPIO registers. Host and
target share one data line, and only their count of clock cycles tells them who drives
it. Errors travel upwards as acknowledges stored in replies, and most callers drop return
values, so what a caller may conclude from what it gets back is the recurring question.

### What is hard here, and what has to be true

* **open/release** — handlers of several processes interleave; an allocation may fail
  between the set and the clear of the lock. Exclusive ownership, an accurate lock,
  no leak, no free of what is not allocated, no lock left set.
* **module** — the device can be opened as soon as it is created, before its back-end
  is selected, and the module may go while it is in use. No handler without a module, no
  registration that points to nothing, a device that comes free again.
* **write/read** — a failing command in the middle of a request, the extra reply word of
  the error path at the limit of the buffer, zero words, partial reads, levels that have
  to meet again, a lock that a refused `read()` leaves set. Replies belong to their
  commands, nothing is overwritten before it is read, and what is accessed past the end of a
  buffer depends on the size of the request and of the `read()` only.
* **wire** — turnarounds after each acknowledge, retries after WAIT, data bits sent to a
  target that does not listen, the reset that brings it back. In step before every
  command, at most one driver of the line, performed once or not at all.
* **GPIO** — load and store of registers that other drivers use too, a direction
  change in several writes, a latch that keeps an old level. One clean pulse per cycle,
  nobody else's pin.
* **comArray** — ignores what `write()` and `read()` return and early-returns on errors.
  Its result is the truth about the wire whatever others have left in the driver, and
  the device is closed on every path.
* **memory access** — off-by-one in pipelined reads, chunk against alignment against the
  auto-increment block, sticky errors that survive a call, posted writes. A successful
  call copied exactly the memory that was asked for; every call returns.
* **devices** — core registers written through one data register while the core takes its
  time, a reset that comes late, tables searched for the last match. The right part,
  the right registers, an image that stays.
* **system information** — signed offsets, failures in the middle of a recursion, the
  limit on access ports. Every component once, in order, and nothing else.

`PROJECT.json` has each of these as a hazard at the line where it bites.

## 2. Modules and how they correspond to the code

**`SWDPI_open`**. `pc[p]` is the place of process `p` in `open()` or `release()`; there is
one step for each access to a shared variable (test of the lock, set, two `kcalloc()`, the
check, the failure path, the clear of the lock and the two `kfree()`). `live` is the
heap. The lock is a plain variable in the code, and it is one here, so the window between
test and set is in the model. `raced` is a history variable: a test passed while another
handler was in its window (after its test and before its set, or after its clear and
before its last `kfree()`). The safety properties say that such a race is the *only* way
in which anything goes wrong; `AlreadyLocked` says it without that excuse and fails
(§5).

**`SWDPI_module`** extends it by the life of the module. `Register` and `Unregister` are the
calls of `init` and `exit` one by one; `SWDGPIOBBD_initRaspi` comes last and selects a
back-end, or none. `open()` is possible as soon as the node and the character device are
there. A process that reaches `init()` of an interface that is still `"none"` is
killed (`crashed`), with the lock set and the module in use. `rmmod` waits for users.

**`SWDPI_rw`**. One open file, one user, one handler at a time. `WriteStart` is
`write()` up to the command loop, with the copy loop that stores a word at its own index
but counts only non-zero words; `TransferOk` and `TransferError` are one round of the command
loop; `WriteReturn`, `ReadRefused`, `ReadOk` are the other ends of the handlers. The
error path stores two words and leaves the loop by assigning its variable, exactly as in
lines 246-260. `read()` copies as many words as it is asked for, from the start of the buffer and past
its end (`CopyToUser`), resets the levels when they meet, and a refused `read()` leaves the
read/write lock set. A load past the end of a buffer gives any word (`Loaded`). A word may be
zero (`None`) or lack only its packet request (`Headless`): the copy loop tests the whole word,
the transfer only the first byte. Level arithmetic is modulo `UintMod`
(the code's `uint32_t`). `wire`, `request`, `overrun` and `user` are history; `overrun` is about
the last call that was not refused.

**`ComArray`** extends `SWDPI_rw` by its client and by other users of the device:
`comArrayTransfer()` opens, writes, reads and closes, tests the replies for the two errors
it knows, and returns; in between another process may hold the device and call `write()` and
`read()` as it likes (`OtherUser`), words without a packet request included, which the client's
own functions never write.

**`SWDPI_SWD`**. One step per clock cycle, at the code's own size (32 data bits, 100
tries). `job` is the function that runs, `phase` and `n` say which of its loops the host is in,
`target` is the target's own place in the protocol. The two see only the bit on
the line; a bit that nobody drives is 0 (the pull-down). The sequence that starts a request
(`SWDGPIOBBD_connect()`) and the zeros that end it are sent bit by bit, and the target
counts `ones` on its own: fifty of them bring it back from wherever it was.
**`Transfer`** is the promise to the command loop of `write()`: the
access was performed once if the call says OK, and not at all if it does not.

**`Gpio`** is below that: every access to a register by the back-ends, as the list `todo` of
the current function, under the cycle functions of `SWDPI_SWD.c` and beside other drivers
that set up their own pins by load and store. A register is the set of its bits.
**`SwdLine`** is the promise: one pulse per cycle, the right level at the falling edge, and
a read cycle returns what the target drives. It is what lets `SWDPI_SWD` take a cycle for a
step.

**`MemAP`** is the target as the memory functions rely on it (external: registers, sticky
error, pipelined reads, posted writes, auto-increment that wraps inside a block).
**`MemoryAccess`** has the loops of `stmReadAligned()` and `stmWriteAligned()`, the
alignment of `stmFetch()`, `stmPrint()` and `stmDump()`, the single-word functions and the
command lists of the `prep` functions; `comArrayTransfer()` is one step per command, with
the result that `ComArray` shows of the real one. The target may answer WAIT for good, be unplugged at
any time, and keeps its registers between calls; another process may have the device open when a
transfer begins (`DeviceBusy`); a dump makes its file first. An address that is no multiple of
the alignment is refused (`Accepted`), which a read never meets, as `align2mem()` moves its address down.
**`MemCopy`** is the promise: a call either fails or is a copy, a
write that fails has stored some of its words, a file holds all of its words or none,
nothing else changes.

**`Devices`**. A command is the list of its remaining steps (`todo`); each step is a
transfer that is performed or lost. The core is a record of the debug registers the code
uses and has actions of its own (`CoreReset`, `CoreTransfer`, `CoreRuns`). `disturbed` marks a command in which a
transfer was lost or went astray, reached a core in reset, or asked a running core for its
registers; the properties speak of the others. A transfer of memory that is lost may still
return 0 (`StoreFails`, `LoadFails`), as finding 4 and `MemCopy` have it. `cheese_test()`, which `main()` runs without
an argument, is one of the commands.

**`SystemInfo`**. The recursion is an explicit list of components still to extract. What
is shown of a component is its address, its depth and, if the table takes it for a System Control
Space, its registers: all of those read, or zeros when any part of the fetch failed, because
`stmFetch()` hands over everything or nothing (`cheese_memoryaccess.c:291`). The reference is a recursive function over the target's tree, with
the reads that failed taken out; the targets are those whose tables are a tree
(`TreeAssumption`).

The `MC*` modules give the constants their values; each `.cfg` is one run.

## 3. Runs

| Run | Spec | Shows | Bounds |
|---|---|---|---|
| `driver_life` | fair | exclusive owner, accurate lock, live buffers, frees and leaks, handlers backed by a module, what a crash leaves, lock comes free | 3 processes, 3 blocks, a board with a back-end and one without |
| `open_race` | | refutes `AlreadyLocked` (two opens succeed) | 2 processes, 4 blocks |
| `module_race` | | refutes `HardwareSelected` (open before the back-end is there) | 2 processes, 4 blocks, two boards with back-ends |
| `transfer` | fair | replies match and tell how far the commands got, what leaves the buffers, unread replies kept, levels reset, stuck lock shows; the result of `comArrayTransfer()` is the truth, replies in place, never refused, it returns and closes | 3 cells, arrays to 3 commands, other users' requests to 2 words (zeros and a word without a packet request included) and reads to 4, OK, WAIT, FAULT, modulus 7 |
| `rw_overread` | | refutes `OnlyAvailableData` | 3 cells, requests to 2 of 3 words, reads to 3 |
| `mem_safety` | fair | `MemoryAccess` implements `MemCopy`, addresses exact, no false alarm, every call returns | chunks of 2, blocks of 4, 10 words with a hole, 15 calls in any series; a dump file only meets dumps |
| `mem_silent` | | refutes `FetchDelivers` (target unplugged) | as above, 4 calls |
| `swd_wire` | fair | in step, no contention, the bits implement `Transfer` | real size; 2 commands, 5 words |
| `swd_abort` | | refutes `AbortWritten` | real size |
| `gpio` | | both back-ends implement `SwdLine`, others' pins kept | pins 4, 5, 6, 12; two contents of the registers at power-up |
| `devices` | fair | identification, started right, image stays, released, command returns | 3 table entries, 2 targets, sequences for two parts, images of 2 words |
| `system_info` | fair | the walk is complete, bounded, and ends | 16 pages, 3 access ports, tables of 4, depth 3, 7 known components |

Why the bounds are enough:

* `driver_life`: a third process is what a race between two needs as a witness (one leaves
  while two test); three blocks let an allocation fail in every place.
* `transfer`: with three commands a failure can come first, in the middle or last; another
  user's two words have a zero word before or after a failing one, and need two reads to be
  drained; a read of three is more than there is, and a read of four more than the buffer has. An array of three
  commands fills the buffer, so both ways to leave it (§6) happen. The modulus is
  the smallest the assumption allows.
* `mem_*`: a chunk of two in a block of four keeps the code's proportion (a chunk divides
  a block); three transfers per call are the first, a middle and the last. One call reads a word that
  is there behind one of its aligned block that is not.
* `swd_wire`: nothing is scaled down. The five words have no ones, all ones, an odd number,
  and two look like headers, of a read and of a write.
* `gpio`: on a Pi 4, pin 4 shares all registers of pins 5 and 6, pin 12 only the latch; the
  registers start from nothing set and from everything in use.
* `devices`: the table has an entry without addresses, a target that also looks like it
  at its address 0, and a target that is in no table.
* `system_info`: offsets of both signs and one across the end of the address space, an
  entry that is not present, a dead end, components of all classes, an ID with two meanings,
  more access ports than fit and none.

Deadlock is checked in all runs but `driver_life`: a process killed in `open()` never goes on and
keeps the device locked and the module loaded, and when all are killed nothing moves.

### Fairness

* `driver_life`: weak fairness for each process's handler and its `release()`. A handler
  is straight-line code, and `comArrayTransfer()` or the exit of the process closes the
  file. Neither opening nor loading is fair, and a killed process does nothing.
* `transfer`, `mem_safety`: the program and the driver do not stop in the middle;
  new calls need not come, and other users may stay away. The target owes nothing: it may
  answer WAIT for good.
* `swd_wire`: the bit-banging loops go on. The target may answer WAIT in all 100 tries.
* `devices`: the program goes on, and a core in reset or with a register to move
  eventually does so. `CommandReturns` speaks of undisturbed commands: a poll whose reads
  are lost for good is an endless loop in the code.
* `system_info`: the program goes on; no transfer has to fail.

## 4. Proofs

Each holds for every value of the constants within the named `ASSUME`s of the modules, which
TLC evaluates in the runs.

`SWDPI_module_proofs` (any processes, heap and boards), in two parts. The handlers alone
(`Spec` of `SWDPI_open`):

* `TypeCorrect`, `Inductive`, `Exclusion`, `LockAccurate`, `BuffersStay` (`BuffersLive`),
  `FreedOnce` (`FreesOnlyLive`), `NothingLeaks` (`NoLeak`).
* Exclusion alone is not inductive: whether the next step keeps it depends on whether the
  lock is accurate, and whether frees are safe depends on what is allocated at each place.
  `IInv` is `TypeOK /\ ExclusiveOwner /\ LockMatchesOwner /\ HeapMatchesPC`, where
  `HeapMatchesPC` says which blocks are live for each `pc` of the one process inside.
  The lemma `AloneInside` turns exclusion into "all others are out", `CleanTest` handles
  the test of the lock, and `IInvStep` has one case per action. The other four
  properties follow from `IInv`.

The life of the module around them (`ModSpec`):

* `LifeInductive`, `LifeSafe` (`ModTypeOK` and the properties of `SWDPI_open`), `Backed`
  (`HandlersBacked`), `CrashIsFinal` (`CrashLocks`): the invariant of `SWDPI_open` is carried
  through loads and unloads, with the registrations as far as each step of `init` and
  `exit` has got.

`SWDPI_rw_proofs` (any size, request length, read length and modulus):

* `TypeCorrect`, `DrainedIsReset` (`LevelsReset`), `NoOverrun` (`InBounds`),
  `RepliesKept` (`UnreadKept`), `StuckLockVisible` (`StuckLockShows`), `RepliesRight`
  (`RepliesMatchRequest`).
* `IInv` adds `LoopInv` to the type invariant: inside the command loop the level is the
  index until the error path adds its extra word, `count` stays within the buffer
  although it is computed apart from the copy loop (lemma `RealCount`), and an empty
  buffer has both levels at zero. `Wraps` is the arithmetic of `UintMod`.
* `NoOverrun` has no hypothesis: whatever levels a series of calls leaves, only a request that fills the buffer
  or a `read()` longer than it gets past the end. Both do so in the code (§6).
* `RepliesRight` rests on `Stored`: each reply on the wire is the cell of its command, and
  behind a failed one there is one more word, whatever it is. So the first failed word of the
  buffer is that of the last command sent, and without one all were sent and answered. What `write()` returns would not
  tell: it is the same when all of n commands succeed and when the last but one fails.

`ComArray_proofs` (any array length, any other users):

* `ClientUsesDriver`: every step of the composition is a step of `SWDPI_rw` or leaves the
  driver alone, so the driver's invariants hold under the client (`DriverUnderClient`).
* `AlwaysAccepted` (`NeverRefused`), `RepliesCorrect` (`RepliesInPlace`), `ResultTrue`
  (`ResultIsTruth`): what the client has in its arrays and what the driver has in its buffers,
  for each place in `comArrayTransfer()`. The hypotheses are that an array fits the buffer (`Fits`)
  and, for `RepliesCorrect`, that the acknowledge is OK, WAIT, FAULT or none (`KnownFailures`); for `ResultTrue`
  that it is OK, WAIT or FAULT (`KnownAnswers`): with no answer at all (0) the result is 0 although
  nothing was acknowledged (finding 4).

`MemoryAccess_proofs` (any memory, calls, chunk and block):

* `TypeCorrect`: the counters of the nested loops stay within the words that were asked for.
  `TInv` adds how far a call is (`Progress`) and the types of the command lists, which the
  lemmas `ReadLists`, `WriteLists` and `WordLists` give.
* `AddressesRight` (`AddressesExact`), if whole chunks fill an auto-increment block (`Fits`;
  32 words and 256 in the code). `AInv` says that every transfer starts at a multiple of the
  chunk (`Aligned`), what its set-up commands are (`SetUp`) and what those performed so far have
  made of the target's registers (`Followed`). The lemma `InChunk` is the arithmetic: the
  increment never wraps inside a chunk.
* `CopiesRight` (`ImplementsMemCopy`), under `Fits`: the whole refinement, initial states and
  every step, for any memory, any sequence of calls and any target that waits or is unplugged.
  `CInv` relates the locals of a call to its request (`Begun`), gives the whole command list of a
  transfer (`Listed`) and the target's state after any number of its commands (`Reached`). With
  that, each reply is the word at its address (`Arrived`), each stored word too (`Gathered`), and
  each word written is in the memory (`Landed`, `Settled`), but perhaps the last of a transfer:
  the one exception `MemCopy` makes.
* `FaultsAreReal` (`NoFalseAlarm`), under `Fits`, from the same invariant: the set-up clears the
  sticky error before the first access, so a refused command follows an access of this transfer
  to a word the target does not have, and that word lies between the address the call starts at and
  its last word. A read starts at the aligned address: it fails for a missing word before
  the first one it was asked for, too.

`Gpio_proofs` (any pins, any contents of the registers):

* `TypeCorrect`, and `OthersUntouched` (`OthersKept`): the invariant says that every
  access still to do lies within the bits of the driver's own two pins, and that a word
  between load and store differs from the register only if somebody got in between.
* `LinesRight` (`ImplementsSwdLine`): the whole refinement, on either board, one access at a
  time. `Suffix` says that the accesses still to do are the last ones of the current function, so
  `Done` counts those performed; `Programs4` and `Programs5` give each access of each function.
  What a pin does is put in terms of its own bits (`Driving`, `Floating`, `High`, `Low`,
  `PulledDown`), and `LInv` says which hold after how many accesses: of the clock (`Clocked`) and
  the data pin (`Carried`) inside a cycle, of both while `init` runs (`Prepared4`, `Prepared5`)
  and between two functions (`Between`). It holds until an update is lost, after which `SwdLine`
  promises nothing. The lemmas `Effects4`, `Effects5` and `OtherPin` are what each access does
  to its own pin and that it does nothing to the other; a register that several pins share is why
  this needs the bits and not the registers.

`SWDPI_SWD_proofs` (any commands and words, any number of tries, words of up to 41 bits, a line
reset of ones that is longer than a word and a header and at most 59; `SizesAssumption`):

* `TypeCorrect` (`TypeOK`), `StaysInStep` (`InStep`), `NeverBoth` (`NoContention`), and
  `Implements`: the initial states of the wire are initial states of `Transfer`, and each clock
  cycle is a step of `Transfer` or a stutter. The run shows the same of its fairness.
* `Types` bounds the host's counters phase by phase, and `LineTypes` what the target has
  collected. `Apart` is what holds between transfers: whatever a stray word has led the target
  into, the first ones of the connect sequence are enough to end it (`Ends`), and
  `Switching` follows the rest of the sequence to an idle target. `Together` relates the two
  counts of cycles inside a transfer, phase by phase, as long as no stray word has been sent.
  `Accomplished` says what the target has performed at each place, in particular that a stray
  word is too short to be taken for a whole access (`Progress`). The parts need each other: a
  transfer starts together because of `Apart`, and `Apart` holds after a transfer
  because of where `Together` says the target is.
* For `Implements` the abstract variables get names (stage, command, access performed, answer),
  and there is one lemma for each abstract action.

`Devices_proofs` (any table of parts, any command sequences, images and targets):

* `TypeCorrect`, `Identified` (`IdentifiedRight`), `Stays` (`ImageStays`), `LetGoRight`,
  `FreedAgain` (`Released`).
* The steps left in `todo` decide what has been done, so the first invariant is about them:
  `todo` is what is left of the command's own list, with at most its first sequence half
  sent (`Placed`). `Found` is how far the search of the table is and what it has found. `Held`,
  `Kept`, `Started` and `Loosed` say for each length of `todo` what is in place: a core caught
  by its reset stays so, the image stays from its storing on, a register is on its way or there
  (`Taken`), a core that is let go is not caught again. These four speak of undisturbed
  commands only. Each has one case per step of the host and per action of the core.
* `Identified` has the hypothesis `Recognisable`: a part that is in the table shows its
  number at the address of one of its entries, and no later entry of another part matches. That is
  a condition on the targets the code can tell apart (the last match wins); `MCDevices` assumes
  it of the targets of the run, so TLC evaluates it.

`SystemInfo_proofs` (any number of pages, access ports and entries, any table of known
components, any reads that fail):

* `TypeCorrect` (`TypeOK`), and `WalkedRight` (`WalkComplete`): what `-info` has shown when it ends
  is what the recursive reference says.
* The conditions are named assumptions about the targets, which TLC evaluates on those of the run.
  `TreeAssumption`: only one access port or entry leads to a component, and no table is reached
  from itself. The code needs both: it follows a cycle for ever, and shows twice what is listed
  twice. `TargetsAssumption`: a table has no more entries than the code looks at.
  `KnownAssumption`: an ID that is taken for an SCS has no other meaning, as in
  `arm_dbcomponents.inc`, where the last meaning of the one ambiguous ID is a TPIU. Offsets may have either
  sign and may wrap; `NewBase` is the lemma that the code's signed arithmetic is addition
  modulo the number of pages.
* The prover has no induction over data, so the proof brings its own: `Least` gets a least element of
  a set of numbers from the library's well-founded order of finite sets, `Induction`
  follows, and with it that `FlattenSeq()` and `Below`, which are chosen functions, exist
  and solve their equations (`JoinsFlat`, `FlatCat`, `TreeExists`, `BelowTree`).
* `Walked` is the invariant: what is below the access ports begun (`Bases`) is what was shown
  (`Done`) followed by what is below the components still listed (`ToCome`). The reference leaves out what
  could not be read, and so changes when a read fails; `Walked` therefore speaks of every set
  of reads that contains those that failed and no more of what is done with
  (`Compatible`). When a component is met, whether its own read fails is then a case and not a change.
* `Places` says that this is possible: a component is listed only if the walk found a
  way to it and has not been there, and there is only one way (`OneWay`). It has one case for each
  action, and `Walked` one lemma (`WalkedScan` to `WalkedTable`).

Only model-checked: the properties under fairness, which say that every call returns
(`LockComesFree`, `TransferReturns`, `CallReturns`, `CommandReturns`, `DetectSystemReturns`) or
include it (the live half of `Transfer`). Every other property of a passing run is stated by
a theorem; where a theorem has a hypothesis the property does not have, it is named above.

## 5. Disagreements between the code and what it says

1. `open_race` — the test (`SWDPI_base.c:123`) and the set (`:125`) of the lock are two
   steps; two processes may both open the device.
2. `module_race` — `/dev/SWDPI` is created (`SWDPI_base.c:440`) before the back-end is
   selected; an `open()` in between calls through a null pointer, although the
   "correct hardware has been selected already" (`:133`).
3. `rw_overread` — `read()` computes how many words are left ("only returns available
   data", `SWDPI_base.c:313`) but copies as many as were asked for, from the start.
4. `mem_silent` — an acknowledge of 0, nobody at the other end, passes for success in the driver
   and in the client: a fetch returns 0 and zeros.
5. `swd_abort` — the loop of `abort()` that sends ABORT is entered only if the read of
   CTRLSTAT before it was answered with WAIT; normally ABORT is never sent, only its data word.
   The client's own set-up clears the flags at the start of the next transfer, which is why
   `NoFalseAlarm` holds all the same.

## 6. What the models leave out, and the conditions on the properties

Conditions under which properties are stated, each because the code does otherwise
outside them:

* `~raced` in `SWDPI_open` and `SWDPI_module`: see finding 1. `crashed = {}` in
  `LockComesFree`: see finding 2.
* Zero words in `RepliesMatchRequest`: a zero word is not counted but keeps its place
  (`SWDPI_base.c:218`). In that place the loop sends what an earlier request left in `sendBuffer`, or
  stops at an empty word, and as many commands at the end of the request are never sent.
  The property says only that all other words are answered at their own places.
* Requests and reads of the buffer's size in `InBounds`. After a failing command, a request of 64 words makes the
  loop read `sendBuffer[64]` (`SWDPI_base.c:259`), and store `receiveBuffer[64]` if it was
  the last one; a `read()` of more than 64 words copies what lies behind `receiveBuffer`
  to the user (`:328`). The words found there are any words in the model; what a store there destroys is not
  modelled. `comArrayTransfer()` reads as many words as it writes, so it meets only the first
  of the two, with an array that is full.
* Targets that answer OK, WAIT or FAULT in `transfer`: a protocol error (7) and no answer at all (0)
  are not recognised by the client (`cheese_comSWD.c:198`).
* The aligned block in `NoFalseAlarm`: a read of words that are all there fails with FAULT if an
  earlier word of their block of 32 is missing, as `align2mem()` moves the address down to its
  start (`cheese_memoryaccess.c:201`).
* The last word of a transfer in `MemCopy`'s `WriteOk`: a write may return 0 though the bus
  did not answer for a word that *ends* a transfer, because the error of the last posted write
  shows only in the next transfer, whose set-up clears it (`cheese_memoryaccess.c:117`).
* Attached targets in `MemCopy`: see finding 4.
* `NoContention` up to the first stray data word in `SWDPI_SWD`: a word sent after WAIT or
  FAULT may look like a header. `InStep` shows that the line reset ends it.
* `LostUpdate` in `Gpio`: the Pi 4 driver changes registers it shares by load and store,
  without the lock of the kernel's own pin driver; an update that falls in between is lost.
* `~disturbed` in `Devices`, and images that were stored (`reply = 0`): nobody looks at
  the result of `stmWriteAligned()` before the core is started.
* Vector tables that match no later table entry in `devices`.
* What the first access port reaches in `SystemInfo`, as all components are read through it
  (`cheese_systeminfo.c:217`), and the registers of components whose ID has one meaning in the table:
  a Cortex-M33 has one ID for several components, and the last entry wins.
* Targets whose tables are a tree in `SystemInfo`: a component that is listed twice is shown twice, and
  a table that lists itself is followed for ever (`cheese_systeminfo.c:354`).

Not modelled: the copy of a command sequence, which `executeSequence()` makes with
`sequence_length * 8 + 4` bytes in a block of `sequence_length * 8` (`cheese_devices.c:154`), so that its last
word, into which the reply is read and which is returned (`:165`), lies past the block's end;
registrations that fail and device trees without a GPIO node (no result is
looked at); `ioremap()`, which each `open()` repeats; two handlers at once on one open file
(threads sharing a descriptor); address arithmetic modulo 2^32 in `MemoryAccess`; wrong
bits and parity errors on the line and the timing inside a cycle; printing and formatting;
reading and parsing files; reads of core registers and `SEQ_HALT`, which no command uses;
the identification fields that `-info` prints and nothing depends on; the parsing of
arguments and the check for root in `main()`; functions nothing calls.

## 7. Plan

Done, in this order: `SWDPI_open`, `SWDPI_rw`, `ComArray`, `MemoryAccess` with `MemAP` and
`MemCopy`, `SWDPI_SWD`, `Devices`, `SystemInfo`; then `Gpio` with `SwdLine`, `SWDPI_module`,
`Transfer`; proofs for the driver first, then the client, the pins and the addresses, then
the wire and the devices, then what the memory functions and the pins promise, and last
the walk over a target's tables.

Worth adding:

* a wrong bit on the line: what a lost parity does to a transfer that the host does not check;
* two threads on one open file, for the read/write lock that is tested and set in two steps
  (`SWDPI_base.c:171`).
