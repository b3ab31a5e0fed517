-------------------------- MODULE MemoryAccess_proofs --------------------------
(***************************************************************************)
(* Proofs about the memory functions, for any memory, requests, chunk and  *)
(* block: types first, then the addresses that a transfer reaches, then    *)
(* what the calls deliver and store.                                       *)
(***************************************************************************)
EXTENDS MemoryAccess, SequenceTheorems, TLAPS

USE MemoryAssumption, BlockAssumption, WordAssumption, ChunkAssumption, MemoriesAssumption

(* The commands of cheese_registers.h with the data words they are sent with.    *)
Commands ==
  [reg : {"IDCODE", "CTRLSTAT_R", "ABORT", "CTRLSTAT_W", "READBUF", "DRW_R"}, val : {0}]
    \cup [reg : {"SELECT"}, val : {0, 15}] \cup [reg : {"CSW"}, val : BOOLEAN]
    \cup [reg : {"TAR"}, val : Nat] \cup [reg : {"DRW_W"}, val : Word]

LEMMA CommandTypes ==
  /\ \A r \in {"IDCODE", "CTRLSTAT_R", "ABORT", "CTRLSTAT_W", "READBUF", "DRW_R"} :
       Cmd(r, 0) \in Commands
  /\ Cmd("SELECT", 0) \in Commands
  /\ \A b \in BOOLEAN : Cmd("CSW", b) \in Commands
  /\ \A a \in Nat : Cmd("TAR", a) \in Commands
  /\ \A w \in Word : Cmd("DRW_W", w) \in Commands
  BY DEF Cmd, Commands

-----------------------------------------------------------------------------
(* The target keeps its type. *)

LEMMA IncrementType == \A a \in Nat : Increment(a) \in Nat
<1> SUFFICES ASSUME NEW a \in Nat
             PROVE  Increment(a) \in Nat
  OBVIOUS
<1>1. a \div Block \in Nat /\ (a + 1) % Block \in Nat
  OBVIOUS
<1>2. (a \div Block) * Block \in Nat
  BY <1>1
<1>3. QED
  BY <1>1, <1>2 DEF Increment

LEMMA Updates ==
  ASSUME NEW t \in Targets
  PROVE  /\ \A b \in BOOLEAN : /\ [t EXCEPT !.attached = b] \in Targets
                               /\ [t EXCEPT !.reset = b] \in Targets
                               /\ [t EXCEPT !.sticky = b] \in Targets
                               /\ [t EXCEPT !.powered = b] \in Targets
                               /\ [t EXCEPT !.inc = b] \in Targets
         /\ \A b \in {0, 15} : [t EXCEPT !.bank = b] \in Targets
         /\ \A a \in Nat : [t EXCEPT !.tar = a] \in Targets
         /\ \A w \in Word : [t EXCEPT !.rdbuf = w] \in Targets
         /\ \A m \in [Addrs -> Word] : [t EXCEPT !.mem = m] \in Targets
  BY DEF Targets

LEMMA Kept ==
  ASSUME NEW t \in Targets, NEW u,
         \/ \E b \in BOOLEAN : u = [t EXCEPT !.sticky = b]
         \/ \E w \in Word : u = [t EXCEPT !.rdbuf = w]
         \/ \E m \in [Addrs -> Word] : u = [t EXCEPT !.mem = m]
  PROVE  /\ u \in Targets
         /\ u.attached = t.attached /\ u.reset = t.reset
         /\ u.bank = t.bank /\ u.inc = t.inc /\ u.tar = t.tar
<1>1. CASE \E b \in BOOLEAN : u = [t EXCEPT !.sticky = b]
  BY <1>1 DEF Targets
<1>2. CASE \E w \in Word : u = [t EXCEPT !.rdbuf = w]
  BY <1>2 DEF Targets
<1>3. CASE \E m \in [Addrs -> Word] : u = [t EXCEPT !.mem = m]
  BY <1>3 DEF Targets
<1>4. QED
  BY <1>1, <1>2, <1>3

LEMMA AccessType ==
  ASSUME NEW t \in Targets, NEW c \in Commands, c.reg \in {"DRW_R", "DRW_W"}
  PROVE  LET u == Access(t, c) IN
         /\ u \in Targets
         /\ u.attached = t.attached /\ u.reset = t.reset
         /\ u.bank = t.bank /\ u.inc = t.inc
         /\ u.tar = IF t.inc THEN Increment(t.tar) ELSE t.tar
<1>1. PICK a \in Nat : a = IF t.inc THEN Increment(t.tar) ELSE t.tar
  BY IncrementType DEF Targets
<1> DEFINE moved == [t EXCEPT !.tar = a]
<1>2. /\ moved \in Targets /\ moved.mem = t.mem /\ moved.tar = a
      /\ moved.attached = t.attached /\ moved.reset = t.reset
      /\ moved.bank = t.bank /\ moved.inc = t.inc
  <2>1. moved \in Targets
    BY Updates
  <2>2. /\ moved.mem = t.mem /\ moved.tar = a
        /\ moved.attached = t.attached /\ moved.reset = t.reset
        /\ moved.bank = t.bank /\ moved.inc = t.inc
    BY DEF Targets
  <2>3. QED
    BY <2>1, <2>2
<1>3. Access(t, c) = IF t.tar \notin Mapped THEN [moved EXCEPT !.sticky = TRUE]
                     ELSE IF c.reg = "DRW_R" THEN [moved EXCEPT !.rdbuf = t.mem[t.tar]]
                     ELSE [moved EXCEPT !.mem[t.tar] = c.val]
  BY <1>1 DEF Access
<1> HIDE DEF moved
<1>4. CASE t.tar \notin Mapped
  BY <1>1, <1>2, <1>3, <1>4, Kept
<1>5. CASE t.tar \in Mapped /\ c.reg = "DRW_R"
  <2>1. t.mem[t.tar] \in Word
    BY <1>5 DEF Targets
  <2>2. Access(t, c) = [moved EXCEPT !.rdbuf = t.mem[t.tar]]
    BY <1>3, <1>5
  <2>3. QED
    BY <1>1, <1>2, <2>1, <2>2, Kept
<1>6. CASE t.tar \in Mapped /\ c.reg = "DRW_W"
  <2> DEFINE m == [t.mem EXCEPT ![t.tar] = c.val]
  <2>1. m \in [Addrs -> Word]
    BY <1>6 DEF Targets, Commands
  <2>2. Access(t, c) = [moved EXCEPT !.mem = m]
    BY <1>2, <1>3, <1>6
  <2> HIDE DEF m
  <2>3. QED
    BY <1>1, <1>2, <2>1, <2>2, Kept
<1>7. QED
  BY <1>4, <1>5, <1>6

(* What a performed command does to the registers the addresses depend on.      *)
LEMMA PerformType ==
  ASSUME NEW t \in Targets, NEW c \in Commands
  PROVE  LET u == Perform(t, c) IN
         /\ u \in Targets /\ Reply(t, c) \in Word
         /\ u.attached = t.attached
         /\ u.reset = IF c.reg = "IDCODE" THEN FALSE ELSE t.reset
         /\ u.bank = IF c.reg = "SELECT" THEN c.val ELSE t.bank
         /\ u.inc = IF c.reg = "CSW" /\ t.bank = 0 THEN c.val ELSE t.inc
         /\ u.tar = IF t.bank # 0 THEN t.tar
                    ELSE IF c.reg = "TAR" THEN c.val
                    ELSE IF c.reg \in {"DRW_R", "DRW_W"} /\ t.inc THEN Increment(t.tar)
                    ELSE t.tar
<1>1. Reply(t, c) \in Word
  BY DEF Targets, Reply
<1>2. CASE c.reg \in {"DRW_R", "DRW_W"} /\ t.bank = 0
  <2>1. Perform(t, c) = Access(t, c)
    BY <1>2 DEF Perform
  <2> DEFINE u == Access(t, c)
  <2>2. /\ u \in Targets /\ u.attached = t.attached /\ u.reset = t.reset
        /\ u.bank = t.bank /\ u.inc = t.inc
        /\ u.tar = IF t.inc THEN Increment(t.tar) ELSE t.tar
    BY <1>2, AccessType
  <2> HIDE DEF u
  <2>3. QED
    BY <1>1, <1>2, <2>1, <2>2 DEF u
<1>3. CASE c.reg \in {"IDCODE", "ABORT", "CTRLSTAT_W"}
  <2>1. PICK u \in {[t EXCEPT !.reset = FALSE], [t EXCEPT !.sticky = FALSE],
                    [t EXCEPT !.powered = TRUE]} :
          /\ Perform(t, c) = u
          /\ u.reset = IF c.reg = "IDCODE" THEN FALSE ELSE t.reset
    BY <1>3 DEF Perform, Targets
  <2>2. u \in Targets
    <3>1. FALSE \in BOOLEAN /\ TRUE \in BOOLEAN
      BY Zenon
    <3>2. QED
      BY <3>1, Updates
  <2>3. /\ u.attached = t.attached
        /\ u.bank = t.bank /\ u.inc = t.inc /\ u.tar = t.tar
    BY DEF Targets
  <2>4. QED
    BY <1>1, <1>3, <2>1, <2>2, <2>3
<1>4. CASE c.reg = "SELECT"
  <2>1. c.val \in {0, 15}
    BY <1>4 DEF Commands
  <2>2. Perform(t, c) = [t EXCEPT !.bank = c.val]
    BY <1>4 DEF Perform
  <2>3. QED
    BY <1>1, <1>4, <2>1, <2>2 DEF Targets
<1>5. CASE c.reg = "CSW" /\ t.bank = 0
  <2>1. c.val \in BOOLEAN
    BY <1>5 DEF Commands
  <2>2. Perform(t, c) = [t EXCEPT !.inc = c.val]
    BY <1>5 DEF Perform
  <2>3. QED
    BY <1>1, <1>5, <2>1, <2>2 DEF Targets
<1>6. CASE c.reg = "TAR" /\ t.bank = 0
  <2>1. c.val \in Nat
    BY <1>6 DEF Commands
  <2>2. Perform(t, c) = [t EXCEPT !.tar = c.val]
    BY <1>6 DEF Perform
  <2>3. QED
    BY <1>1, <1>6, <2>1, <2>2 DEF Targets
<1>7. CASE /\ c.reg \notin {"IDCODE", "ABORT", "CTRLSTAT_W", "SELECT"}
           /\ ~(c.reg \in {"CSW", "TAR", "DRW_R", "DRW_W"} /\ t.bank = 0)
  <2>1. Perform(t, c) = t
    BY <1>7 DEF Perform
  <2>2. QED
    BY <1>1, <1>7, <2>1
<1>8. QED
  BY <1>2, <1>3, <1>4, <1>5, <1>6, <1>7

-----------------------------------------------------------------------------
(* Command lists *)

(* The seven commands that every transfer starts with. *)
Prepared(cmds, inc, addr) ==
  /\ cmds[1] = Cmd("IDCODE", 0) /\ cmds[2] = Cmd("CTRLSTAT_R", 0) /\ cmds[3] = Cmd("ABORT", 0)
  /\ cmds[4] = Cmd("CTRLSTAT_W", 0) /\ cmds[5] = Cmd("SELECT", 0)
  /\ cmds[6] = Cmd("CSW", inc) /\ cmds[7] = Cmd("TAR", addr)

LEMMA PrepShape ==
  ASSUME NEW addr \in Nat, NEW inc \in BOOLEAN,
         NEW p, p = prepAPaccess(0) \o <<Cmd("CSW", inc), Cmd("TAR", addr)>>
  PROVE  p \in Seq(Commands) /\ Len(p) = 7 /\ Prepared(p, inc, addr)
<1> DEFINE q == prepAPaccess(0)
           r == <<Cmd("CSW", inc), Cmd("TAR", addr)>>
<1>1. /\ q \in Seq(Commands) /\ Len(q) = 5
      /\ q[1] = Cmd("IDCODE", 0) /\ q[2] = Cmd("CTRLSTAT_R", 0) /\ q[3] = Cmd("ABORT", 0)
      /\ q[4] = Cmd("CTRLSTAT_W", 0) /\ q[5] = Cmd("SELECT", 0)
  BY CommandTypes DEF prepAPaccess
<1>2. r \in Seq(Commands) /\ Len(r) = 2 /\ r[1] = Cmd("CSW", inc) /\ r[2] = Cmd("TAR", addr)
  BY CommandTypes
<1> HIDE DEF q, r
<1>3. p = q \o r
  BY DEF q, r
<1>4. QED
  <2> DEFINE s == q \o r
  <2>1. /\ s \in Seq(Commands) /\ Len(s) = Len(q) + Len(r)
        /\ \A k \in 1 .. Len(q) + Len(r) : s[k] = IF k <= Len(q) THEN q[k] ELSE r[k - Len(q)]
    BY <1>1, <1>2, ConcatProperties, Zenon
  <2>2. p = s
    BY <1>3
  <2> HIDE DEF s
  <2>3. /\ Len(s) = 7 /\ s[6] = r[1] /\ s[7] = r[2]
        /\ s[1] = q[1] /\ s[2] = q[2] /\ s[3] = q[3] /\ s[4] = q[4] /\ s[5] = q[5]
    BY <1>1, <1>2, <2>1
  <2>4. QED
    BY <1>1, <1>2, <2>1, <2>2, <2>3, Zenon DEF Prepared

LEMMA ListShape ==
  ASSUME NEW p \in Seq(Commands), Len(p) = 7, NEW n \in Nat, n <= Chunk + 1,
         NEW f \in [1..n -> Commands]
  PROVE  /\ Filled(p \o f) \in Seq(Commands) /\ Len(Filled(p \o f)) = 7 + n
         /\ \A k \in 1..7 : Filled(p \o f)[k] = p[k]
         /\ \A k \in 8 .. 7 + n : Filled(p \o f)[k] = f[k - 7]
<1>1. f \in Seq(Commands) /\ Len(f) = n
  OBVIOUS
<1> DEFINE s == p \o f
<1>2. /\ s \in Seq(Commands) /\ Len(s) = Len(p) + Len(f)
      /\ \A k \in 1 .. Len(p) + Len(f) : s[k] = IF k <= Len(p) THEN p[k] ELSE f[k - Len(p)]
  BY <1>1, ConcatProperties, Zenon
<1> HIDE DEF s
<1>3. /\ Len(s) = 7 + n
      /\ \A k \in 1..7 : s[k] = p[k]
      /\ \A k \in 8 .. 7 + n : s[k] = f[k - 7]
  BY <1>1, <1>2
<1>4. Filled(s) = s
  BY <1>3 DEF Filled
<1>5. QED
  BY <1>2, <1>3, <1>4 DEF s

-----------------------------------------------------------------------------
(* Types and progress *)

Types ==
  /\ pc \in {"idle", "open", "prepare", "transfer"} /\ request \in Requests
  /\ baseAddr \in Nat /\ wordCount \in Nat
  /\ wordsTransferredThisRun \in 0..Chunk
  /\ wordsTransferred \in 0..wordCount /\ wordsStored \in 0..wordCount
  /\ pc # "idle" => dataArray \in [1..wordCount -> Word \cup {-2}]
  /\ reply \in {0, -1, -2, -4, -11}
  /\ target \in Targets

Lists ==
  /\ cmdArray \in Seq(Commands) /\ replyArray \in Seq(Word)
  /\ Len(replyArray) <= Len(cmdArray)

(* How far a call is: what stmReadAligned() has transferred it has stored, but   *)
(* for the transfer in progress; the other functions store nothing.              *)
Progress ==
  /\ pc \in {"idle", "open"} =>
       wordsTransferred = 0 /\ wordsTransferredThisRun = 0 /\ wordsStored = 0
  /\ wordsTransferredThisRun <= wordsTransferred
  /\ request.kind \in Reads =>
       wordsTransferred = wordsStored + IF pc = "transfer" THEN wordsTransferredThisRun ELSE 0
  /\ request.kind \notin Reads => wordsStored = 0
  /\ request.kind \in {"peek", "poke"} => wordsTransferred = 0
  /\ pc # "idle" /\ request.kind = "write" => wordCount = request.count

TInv == Types /\ Lists /\ Progress

LEMMA AlignTypes ==
  ASSUME NEW base \in Nat
  PROVE  /\ Align \in Nat \ {0} /\ base % Align \in 0..base
         /\ (base % Align) \div 4 \in Nat
<1>1. Align \in Nat \ {0}
  BY DEF Align
<1>2. base % Align \in 0..base
  <2> HIDE DEF Align
  <2>1. QED
    BY <1>1
<1>3. QED
  BY <1>1, <1>2

LEMMA FreshTypes ==
  ASSUME NEW m \in [Addrs -> Word]
  PROVE  Fresh(m) \in Targets /\ LeftByAnother(m) \in Targets
<1>1. Fresh(m) \in Targets
  BY DEF Fresh, Targets
<1> DEFINE t1 == [Fresh(m) EXCEPT !.sticky = TRUE]
           t2 == [t1 EXCEPT !.powered = TRUE]
<1>2. t1 \in Targets
  BY <1>1, Updates
<1> HIDE DEF t1
<1>3. t2 \in Targets
  BY <1>2, Updates
<1> HIDE DEF t2
<1>4. [t2 EXCEPT !.bank = 15] \in Targets
  BY <1>3, Updates
<1>5. LeftByAnother(m) = [t2 EXCEPT !.bank = 15]
  BY DEF LeftByAnother, t1, t2
<1>6. QED
  BY <1>1, <1>4, <1>5

LEMMA InitTypes == Init => TInv
<1> SUFFICES ASSUME Init
             PROVE  TInv
  OBVIOUS
<1>1. request \in Requests
  BY RequestsAssumption DEF Init
<1>2. target \in Targets
  BY FreshTypes DEF Init
<1>3. Types
  BY <1>1, <1>2 DEF Init, Types
<1>4. Lists /\ Progress
  BY DEF Init, Lists, Progress
<1>5. QED
  BY <1>3, <1>4 DEF TInv

LEMMA LeaveKeeps ==
  ASSUME TInv, NEW e \in {0, -1, -2, -4, -11}, Leave(e), target' \in Targets
  PROVE  TInv'
<1>1. Types'
  BY DEF TInv, Types, Leave, call
<1>2. Lists' /\ Progress'
  BY DEF TInv, Types, Lists, Progress, Leave, call
<1>3. QED
  BY <1>1, <1>2 DEF TInv

LEMMA CallKeeps ==
  ASSUME TInv, NEW r \in Requests, Call(r)
  PROVE  TInv'
<1>1. r.base \in Nat /\ r.count \in Nat
  BY RequestsAssumption
<1>2. baseAddr' \in Nat /\ wordCount' \in Nat
  <2>1. CASE r.kind \in Reads
    <3> HIDE DEF Align
    <3>1. baseAddr' = r.base - (r.base % Align) /\ wordCount' = r.count + ((r.base % Align) \div 4)
      BY <2>1 DEF Call, align2mem
    <3>2. QED
      BY <1>1, <3>1, AlignTypes
  <2>2. CASE r.kind \notin Reads
    BY <1>1, <2>2 DEF Call
  <2>3. QED
    BY <2>1, <2>2
<1>3. dataArray' \in [1..wordCount' -> Word \cup {-2}]
  BY DEF Call
<1>4. Types'
  BY <1>2, <1>3 DEF TInv, Types, Progress, Call
<1>5. Lists'
  BY DEF TInv, Lists, Call, transfer
<1>6. Progress'
  BY <1>1 DEF TInv, Progress, Call, Reads
<1>7. QED
  BY <1>4, <1>5, <1>6 DEF TInv

(* The next transfer moves at most Chunk words, and no more than are left.       *)
LEMMA NextRunKeeps ==
  ASSUME TInv, NEW cmds, NextRun(cmds), pc = "prepare",
         request.kind \in Reads \cup {"write"}, Filled(cmds) \in Seq(Commands)
  PROVE  TInv'
<1>1. Added \in 0..Chunk /\ wordsTransferred + Added \in 0..wordCount
  BY DEF TInv, Types, NextRun, Added, Minimum, RunStart
<1>2. target' \in Targets
  BY Updates DEF TInv, Types, NextRun, Send
<1>3. Types'
  BY <1>1, <1>2 DEF TInv, Types, NextRun, Send, call, result, RunStart
<1>4. Lists'
  BY DEF TInv, Lists, NextRun, Send
<1>5. Progress'
  BY <1>1 DEF TInv, Types, Progress, NextRun, Send, call, RunStart, Reads
<1>6. QED
  BY <1>3, <1>4, <1>5 DEF TInv

LEMMA ReadLists ==
  ASSUME TInv, PrepareRead
  PROVE  LET n == Added + 1 IN
         /\ cmdArray' \in Seq(Commands) /\ Len(cmdArray') = 7 + n
         /\ Prepared(cmdArray', TRUE, (baseAddr \div 4) + wordsStored)
         /\ \A k \in 8 .. 7 + n : cmdArray'[k].reg = "DRW_R"
<1> DEFINE n == Added + 1
           p == prepMemAccess((baseAddr \div 4) + wordsStored)
           f == [k \in 1..n |-> Cmd("DRW_R", 0)]
<1>1. n \in Nat /\ n <= Chunk + 1
  BY DEF TInv, Types, PrepareRead, NextRun, Added, Minimum, RunStart
<1>2. (baseAddr \div 4) + wordsStored \in Nat
  BY DEF TInv, Types
<1>3. /\ p \in Seq(Commands) /\ Len(p) = 7
      /\ Prepared(p, TRUE, (baseAddr \div 4) + wordsStored)
  BY <1>2, PrepShape DEF prepMemAccess
<1>4. f \in [1..n -> Commands] /\ \A k \in 1..n : f[k].reg = "DRW_R"
  BY CommandTypes DEF Cmd
<1>5. cmdArray' = Filled(p \o f)
  BY DEF PrepareRead, NextRun, Send
<1> HIDE DEF n, p, f
<1>6. /\ cmdArray' \in Seq(Commands) /\ Len(cmdArray') = 7 + n
      /\ \A k \in 1..7 : cmdArray'[k] = p[k]
      /\ \A k \in 8 .. 7 + n : cmdArray'[k] = f[k - 7]
  <2>1. /\ Filled(p \o f) \in Seq(Commands) /\ Len(Filled(p \o f)) = 7 + n
        /\ \A k \in 1..7 : Filled(p \o f)[k] = p[k]
        /\ \A k \in 8 .. 7 + n : Filled(p \o f)[k] = f[k - 7]
    BY <1>1, <1>3, <1>4, ListShape, Zenon
  <2>2. QED
    BY <1>5, <2>1, Zenon
<1>7. ASSUME NEW k \in 8 .. 7 + n
      PROVE  cmdArray'[k].reg = "DRW_R"
  <2>1. k - 7 \in 1..n /\ cmdArray'[k] = f[k - 7]
    BY <1>1, <1>6
  <2>2. QED
    BY <1>4, <2>1
<1>8. Prepared(cmdArray', TRUE, (baseAddr \div 4) + wordsStored)
  <2>1. /\ cmdArray'[1] = p[1] /\ cmdArray'[2] = p[2] /\ cmdArray'[3] = p[3] /\ cmdArray'[4] = p[4]
        /\ cmdArray'[5] = p[5] /\ cmdArray'[6] = p[6] /\ cmdArray'[7] = p[7]
    BY <1>6
  <2>2. QED
    BY <1>3, <2>1, Zenon DEF Prepared
<1>9. QED
  BY <1>6, <1>7, <1>8 DEF n

LEMMA WriteLists ==
  ASSUME TInv, PrepareWrite
  PROVE  LET n == Added IN
         /\ cmdArray' \in Seq(Commands) /\ Len(cmdArray') = 7 + n
         /\ Prepared(cmdArray', TRUE, (baseAddr \div 4) + wordsTransferred)
         /\ \A k \in 8 .. 7 + n :
              cmdArray'[k] = Cmd("DRW_W", request.data[wordsTransferred + k - 7])
<1> DEFINE n == Added
           p == prepMemAccess((baseAddr \div 4) + wordsTransferred)
           f == [k \in 1..n |-> Cmd("DRW_W", request.data[wordsTransferred + k])]
<1>1. n \in Nat /\ n <= Chunk + 1 /\ wordsTransferred + n <= wordCount
  BY DEF TInv, Types, PrepareWrite, NextRun, Added, Minimum, RunStart
<1>2. (baseAddr \div 4) + wordsTransferred \in Nat
  BY DEF TInv, Types
<1>3. /\ p \in Seq(Commands) /\ Len(p) = 7
      /\ Prepared(p, TRUE, (baseAddr \div 4) + wordsTransferred)
  BY <1>2, PrepShape DEF prepMemAccess
<1>4. /\ f \in [1..n -> Commands]
      /\ \A k \in 1..n : f[k] = Cmd("DRW_W", request.data[wordsTransferred + k])
  <2>1. request.data \in [1..wordCount -> Word]
    BY RequestsAssumption DEF TInv, Types, Progress, PrepareWrite
  <2>2. \A k \in 1..n : request.data[wordsTransferred + k] \in Word
    <3> HIDE DEF n
    <3>1. QED
      BY <1>1, <2>1 DEF TInv, Types
  <2> HIDE DEF n
  <2>3. \A k \in 1..n : f[k] \in Commands
    BY <2>2, CommandTypes
  <2>4. QED
    BY <2>3
<1>5. cmdArray' = Filled(p \o f)
  BY DEF PrepareWrite, NextRun, Send
<1> HIDE DEF n, p, f
<1>6. /\ cmdArray' \in Seq(Commands) /\ Len(cmdArray') = 7 + n
      /\ \A k \in 1..7 : cmdArray'[k] = p[k]
      /\ \A k \in 8 .. 7 + n : cmdArray'[k] = f[k - 7]
  <2>1. /\ Filled(p \o f) \in Seq(Commands) /\ Len(Filled(p \o f)) = 7 + n
        /\ \A k \in 1..7 : Filled(p \o f)[k] = p[k]
        /\ \A k \in 8 .. 7 + n : Filled(p \o f)[k] = f[k - 7]
    BY <1>1, <1>3, <1>4, ListShape, Zenon
  <2>2. QED
    BY <1>5, <2>1, Zenon
<1>7. ASSUME NEW k \in 8 .. 7 + n
      PROVE  cmdArray'[k] = Cmd("DRW_W", request.data[wordsTransferred + k - 7])
  <2>1. k - 7 \in 1..n /\ cmdArray'[k] = f[k - 7]
    BY <1>1, <1>6
  <2>2. cmdArray'[k] = Cmd("DRW_W", request.data[wordsTransferred + (k - 7)])
    BY <1>4, <2>1
  <2>3. wordsTransferred + (k - 7) = wordsTransferred + k - 7
    BY <1>1 DEF TInv, Types
  <2>4. QED
    BY <2>2, <2>3
<1>8. Prepared(cmdArray', TRUE, (baseAddr \div 4) + wordsTransferred)
  <2>1. /\ cmdArray'[1] = p[1] /\ cmdArray'[2] = p[2] /\ cmdArray'[3] = p[3] /\ cmdArray'[4] = p[4]
        /\ cmdArray'[5] = p[5] /\ cmdArray'[6] = p[6] /\ cmdArray'[7] = p[7]
    BY <1>6
  <2>2. QED
    BY <1>3, <2>1, Zenon DEF Prepared
<1>9. QED
  BY <1>6, <1>7, <1>8 DEF n

LEMMA WordLists ==
  ASSUME TInv, PrepareWord
  PROVE  /\ cmdArray' \in Seq(Commands)
         /\ Prepared(cmdArray', FALSE, baseAddr \div 4)
         /\ request.kind = "peek" => /\ Len(cmdArray') = 9
                                     /\ cmdArray'[8] = Cmd("DRW_R", 0)
                                     /\ cmdArray'[9] = Cmd("READBUF", 0)
         /\ request.kind = "poke" => /\ Len(cmdArray') = 8
                                     /\ cmdArray'[8] = Cmd("DRW_W", request.data[1])
<1> DEFINE p == prepMemAccessNoAutoIncrease(baseAddr \div 4)
           f == IF request.kind = "peek" THEN <<Cmd("DRW_R", 0), Cmd("READBUF", 0)>>
                ELSE <<Cmd("DRW_W", request.data[1])>>
<1>1. p \in Seq(Commands) /\ Len(p) = 7 /\ Prepared(p, FALSE, baseAddr \div 4)
  <2>1. baseAddr \div 4 \in Nat
    BY DEF TInv, Types
  <2>2. QED
    BY <2>1, PrepShape DEF prepMemAccessNoAutoIncrease
<1>2. PICK n \in 1..2 :
        /\ f \in [1..n -> Commands]
        /\ request.kind = "peek" => n = 2 /\ f[1] = Cmd("DRW_R", 0) /\ f[2] = Cmd("READBUF", 0)
        /\ request.kind = "poke" => n = 1 /\ f[1] = Cmd("DRW_W", request.data[1])
  <2>1. CASE request.kind = "peek"
    BY <2>1, CommandTypes
  <2>2. CASE request.kind = "poke"
    <3>1. request.data[1] \in Word
      BY <2>2, RequestsAssumption DEF TInv, Types
    <3>2. QED
      BY <2>2, <3>1, CommandTypes
  <2>3. QED
    BY <2>1, <2>2 DEF PrepareWord
<1>3. cmdArray' = Filled(p \o f)
  BY DEF PrepareWord, Send
<1> HIDE DEF p, f
<1>4. n \in Nat /\ n <= Chunk + 1
  OBVIOUS
<1>5. /\ cmdArray' \in Seq(Commands) /\ Len(cmdArray') = 7 + n
      /\ \A k \in 1..7 : cmdArray'[k] = p[k]
      /\ \A k \in 8 .. 7 + n : cmdArray'[k] = f[k - 7]
  <2>1. /\ Filled(p \o f) \in Seq(Commands) /\ Len(Filled(p \o f)) = 7 + n
        /\ \A k \in 1..7 : Filled(p \o f)[k] = p[k]
        /\ \A k \in 8 .. 7 + n : Filled(p \o f)[k] = f[k - 7]
    BY <1>1, <1>2, <1>4, ListShape, Zenon
  <2>2. QED
    BY <1>3, <2>1, Zenon
<1>6. Prepared(cmdArray', FALSE, baseAddr \div 4)
  <2>1. /\ cmdArray'[1] = p[1] /\ cmdArray'[2] = p[2] /\ cmdArray'[3] = p[3] /\ cmdArray'[4] = p[4]
        /\ cmdArray'[5] = p[5] /\ cmdArray'[6] = p[6] /\ cmdArray'[7] = p[7]
    BY <1>5
  <2>2. QED
    BY <1>1, <2>1, Zenon DEF Prepared
<1>7. /\ cmdArray'[8] = f[1]
      /\ n = 2 => cmdArray'[9] = f[2]
  BY <1>4, <1>5
<1>8. QED
  <2>1. request.kind = "peek" => Len(cmdArray') = 9
    BY <1>2, <1>5
  <2>2. request.kind = "poke" => Len(cmdArray') = 8
    BY <1>2, <1>5
  <2>3. QED
    BY <1>2, <1>5, <1>6, <1>7, <2>1, <2>2, Zenon

LEMMA PrepareKeeps ==
  ASSUME TInv, PrepareRead \/ PrepareWrite \/ PrepareWord
  PROVE  TInv'
<1>1. CASE PrepareRead
  <2>1. PICK cmds : NextRun(cmds) /\ cmdArray' = Filled(cmds)
    BY <1>1 DEF PrepareRead, NextRun, Send
  <2>2. QED
    BY <1>1, <2>1, ReadLists, NextRunKeeps DEF PrepareRead
<1>2. CASE PrepareWrite
  <2>1. PICK cmds : NextRun(cmds) /\ cmdArray' = Filled(cmds)
    BY <1>2 DEF PrepareWrite, NextRun, Send
  <2>2. QED
    BY <1>2, <2>1, WriteLists, NextRunKeeps DEF PrepareWrite
<1>3. CASE PrepareWord
  <2>1. target' \in Targets
    BY <1>3, Updates DEF TInv, Types, PrepareWord, Send
  <2>2. Types'
    BY <1>3, <2>1 DEF TInv, Types, PrepareWord, Send, call, progress, result
  <2>3. Lists'
    <3>1. cmdArray' \in Seq(Commands)
      BY <1>3, WordLists, Zenon
    <3>2. QED
      BY <1>3, <3>1 DEF TInv, Lists, PrepareWord, Send
  <2>4. Progress'
    BY <1>3 DEF TInv, Progress, PrepareWord, Send, call, progress, Reads
  <2>5. QED
    BY <2>2, <2>3, <2>4 DEF TInv
<1>4. QED
  BY <1>1, <1>2, <1>3

LEMMA CommandKeeps ==
  ASSUME TInv, CommandOk \/ CommandUnanswered
  PROVE  TInv'
<1> USE DEF CommandOk, CommandUnanswered, Sending
<1>1. Current \in Commands
  BY DEF TInv, Lists, Current
<1>2. target' \in Targets
  BY <1>1, PerformType DEF TInv, Types
<1>3. Types'
  BY <1>2 DEF TInv, Types, call, progress, result
<1>4. Lists'
  <2>1. PICK w \in Word : replyArray' = Append(replyArray, w)
    BY <1>1, PerformType DEF TInv, Types
  <2>2. QED
    BY <2>1 DEF TInv, Lists
<1>5. Progress'
  BY DEF TInv, Progress, call, progress
<1>6. QED
  BY <1>3, <1>4, <1>5 DEF TInv

LEMMA StoreKeeps ==
  ASSUME TInv, StoreWords
  PROVE  TInv'
<1>1. \A i \in Nat : comArrayRead(i) \in Word \cup {-2}
  BY DEF TInv, Lists, StoreWords, Transferred, comArrayRead
<1>2. dataArray' \in [1..wordCount -> Word \cup {-2}]
  <2>1. dataArray \in [1..wordCount -> Word \cup {-2}]
    BY DEF TInv, Types, StoreWords, Transferred
  <2>2. ASSUME NEW k \in 1..wordCount, k - wordsStored \in 1..wordsTransferredThisRun
        PROVE  startIndex + k - wordsStored - 1 \in Nat
    BY <2>2 DEF TInv, Types, startIndex
  <2>3. QED
    BY <1>1, <2>1, <2>2 DEF StoreWords
<1>3. wordsStored' = wordsTransferred
  BY DEF TInv, Types, Progress, StoreWords, Transferred
<1>4. Types'
  BY <1>2, <1>3 DEF TInv, Types, StoreWords, call, result
<1>5. Lists'
  BY DEF TInv, Lists, StoreWords, transfer
<1>6. Progress'
  BY <1>3 DEF TInv, Types, Progress, StoreWords, call, Reads
<1>7. QED
  BY <1>4, <1>5, <1>6 DEF TInv

LEMMA OthersKeep ==
  ASSUME TInv, DumpOpens \/ GoOnWriting \/ Detach \/ RemoveFile \/ UNCHANGED vars
  PROVE  TInv'
<1>1. target' \in Targets
  <2>1. CASE Detach
    <3>1. target.mem \in [Addrs -> Word]
      BY DEF TInv, Types, Targets
    <3>2. QED
      BY <2>1, <3>1, FreshTypes, Updates DEF Detach
  <2>2. CASE ~Detach
    BY <2>2 DEF TInv, Types, DumpOpens, GoOnWriting, RemoveFile, vars
  <2>3. QED
    BY <2>1, <2>2
<1>2. CASE DumpOpens
  BY <1>1, <1>2 DEF TInv, Types, Lists, Progress, DumpOpens, call, progress, result, transfer, Reads
<1>3. CASE GoOnWriting
  BY <1>1, <1>3 DEF TInv, Types, Lists, Progress, GoOnWriting, Transferred, call, progress, result, transfer, Reads
<1>4. CASE Detach \/ RemoveFile \/ UNCHANGED vars
  <2>1. UNCHANGED <<pc, call, progress, reply, transfer>>
    BY <1>4 DEF Detach, RemoveFile, vars, result
  <2>2. QED
    BY <1>1, <2>1 DEF TInv, Types, Lists, Progress, call, progress, transfer
<1>5. QED
  BY <1>2, <1>3, <1>4

(* The calls that end here; their local variables end with them.                 *)
LEMMA ReturnsLeave ==
  ASSUME TInv,
         \/ DumpRefused \/ RefuseUnaligned \/ DeviceBusy \/ CommandFault \/ CommandWaits
         \/ ReturnWord \/ WriteReturns \/ FetchReturns \/ PrintReturns \/ DumpReturns
  PROVE  /\ \E e \in {0, -1, -2, -4, -11} : Leave(e)
         /\ UNCHANGED target
  BY DEF DumpRefused, RefuseUnaligned, DeviceBusy, CommandFault, CommandWaits, Abandon,
         ReturnWord, WriteReturns, FetchReturns, PrintReturns, DumpReturns

LEMMA NextTypes == TInv /\ [Next]_vars => TInv'
<1> SUFFICES ASSUME TInv, [Next]_vars
             PROVE  TInv'
  OBVIOUS
<1>1. CASE \E r \in Requests : Call(r)
  BY <1>1, CallKeeps
<1>2. CASE PrepareRead \/ PrepareWrite \/ PrepareWord
  BY <1>2, PrepareKeeps
<1>3. CASE CommandOk \/ CommandUnanswered
  BY <1>3, CommandKeeps
<1>4. CASE StoreWords
  BY <1>4, StoreKeeps
<1>5. CASE DumpOpens \/ GoOnWriting \/ Detach \/ RemoveFile \/ UNCHANGED vars
  BY <1>5, OthersKeep
<1>6. CASE \/ DumpRefused \/ RefuseUnaligned \/ DeviceBusy \/ CommandFault \/ CommandWaits
           \/ ReturnWord \/ WriteReturns \/ FetchReturns \/ PrintReturns \/ DumpReturns
  <2>1. PICK e \in {0, -1, -2, -4, -11} : Leave(e)
    BY <1>6, ReturnsLeave
  <2>2. target' \in Targets
    BY <1>6, ReturnsLeave DEF TInv, Types
  <2>3. QED
    BY <2>1, <2>2, LeaveKeeps
<1>7. QED
  BY <1>1, <1>2, <1>3, <1>4, <1>5, <1>6 DEF Next, Running

LEMMA TInvType == TInv => TypeOK
<1> SUFFICES ASSUME TInv
             PROVE  TypeOK
  OBVIOUS
<1>1. ASSUME pc # "idle"
      PROVE  Len(dataArray) = wordCount
  BY <1>1 DEF TInv, Types
<1>2. QED
  BY <1>1 DEF TInv, Types, Lists, TypeOK

(* The counters of the outer and inner loops, the arrays and the target keep     *)
(* their ranges, for any memory, requests, chunk and block: no loop runs past    *)
(* the words that were asked for (cheese_memoryaccess.c:104-129, 145-195).        *)
THEOREM TypeCorrect == Spec => []TypeOK
<1>1. Spec => []TInv
  BY InitTypes, NextTypes, PTL DEF Spec
<1>2. QED
  BY <1>1, TInvType, PTL

-----------------------------------------------------------------------------
(* Addresses *)

(* The auto-increment block is cut into whole chunks, as 256 words into 32 are.  *)
Fits == \E m \in Nat \ {0} : Block = m * Chunk

Multiple(x) == \E k \in Nat : x = k * Chunk

LEMMA DivMod ==
  ASSUME NEW n \in Nat \ {0}, NEW q \in Nat, NEW s \in 0 .. n - 1
  PROVE  (q * n + s) \div n = q /\ (q * n + s) % n = s
  OBVIOUS

LEMMA DivModEx ==
  ASSUME NEW x \in Nat, NEW n \in Nat \ {0}
  PROVE  \E q \in Nat : \E s \in 0 .. n - 1 : x = q * n + s
<1>1. x \div n \in Nat /\ x % n \in 0 .. n - 1 /\ x = (x \div n) * n + (x % n)
  OBVIOUS
<1>2. QED
  BY <1>1

LEMMA Multiples ==
  /\ Multiple(0)
  /\ \A x, y \in Nat : Multiple(x) /\ Multiple(y) => Multiple(x + y)
  /\ \A x \in Nat : Multiple(x) => Multiple(x + Chunk)
<1>1. Multiple(0)
  BY DEF Multiple
<1>2. ASSUME NEW x \in Nat, NEW y \in Nat, Multiple(x), Multiple(y)
      PROVE  Multiple(x + y)
  <2>1. PICK k \in Nat : x = k * Chunk
    BY <1>2 DEF Multiple
  <2>2. PICK l \in Nat : y = l * Chunk
    BY <1>2 DEF Multiple
  <2>3. x + y = (k + l) * Chunk /\ k + l \in Nat
    BY <2>1, <2>2
  <2>4. QED
    BY <2>3 DEF Multiple
<1>3. Multiple(Chunk)
  <2>1. Chunk = 1 * Chunk
    OBVIOUS
  <2>2. QED
    BY <2>1 DEF Multiple
<1>4. QED
  BY <1>1, <1>2, <1>3

(* Within a chunk the target's address register counts on as the code means it.  *)
LEMMA InChunk ==
  ASSUME Fits, NEW a \in Nat, Multiple(a), NEW j \in Nat, j + 1 < Chunk
  PROVE  Increment(a + j) = a + j + 1
<1>1. PICK m \in Nat \ {0} : Block = m * Chunk
  BY DEF Fits
<1>2. PICK k \in Nat : a = k * Chunk
  BY DEF Multiple
<1>3. PICK q \in Nat, r \in 0 .. m - 1 : k = q * m + r
  BY <1>1, DivModEx
<1>4. PICK s \in Nat : s = r * Chunk
  BY <1>3
<1>5. a = q * Block + s
  BY <1>1, <1>2, <1>3, <1>4
<1>6. s + Chunk <= Block
  <2>1. (r + 1) * Chunk <= m * Chunk
    BY <1>1, <1>3
  <2>2. (r + 1) * Chunk = s + Chunk
    BY <1>3, <1>4
  <2>3. QED
    BY <1>1, <2>1, <2>2
<1>7. s + j \in 0 .. Block - 1 /\ s + j + 1 \in 0 .. Block - 1
  BY <1>4, <1>6
<1>8. (a + j) \div Block = q
  <2>1. a + j = q * Block + (s + j)
    BY <1>4, <1>5
  <2>2. QED
    BY <1>7, <2>1, DivMod
<1>9. (a + j + 1) % Block = s + j + 1
  <2> DEFINE t == s + j + 1
  <2>1. t \in 0 .. Block - 1
    BY <1>7
  <2>2. a + j + 1 = q * Block + t
    BY <1>4, <1>5
  <2> HIDE DEF t
  <2>3. (q * Block + t) % Block = t
    BY <2>1, DivMod
  <2>4. QED
    BY <2>2, <2>3 DEF t
<1>10. QED
  BY <1>5, <1>8, <1>9 DEF Increment

(* What align2mem() returns, and what stmWriteAligned() accepts, starts a chunk.  *)
LEMMA AlignedStart ==
  ASSUME NEW base \in Nat
  PROVE  /\ base - (base % Align) \in Nat
         /\ Multiple((base - (base % Align)) \div 4)
<1>1. Align \in Nat \ {0}
  BY AlignTypes
<1>2. PICK q \in Nat : base - (base % Align) = q * Align
  <2> HIDE DEF Align
  <2>1. PICK q \in Nat, s \in 0 .. Align - 1 : base = q * Align + s
    BY <1>1, DivModEx
  <2>2. base % Align = s
    BY <1>1, <2>1, DivMod
  <2>3. q * Align \in Nat
    BY <1>1
  <2>4. QED
    BY <1>1, <2>1, <2>2, <2>3
<1>3. PICK x \in Nat : x = q * Chunk
  OBVIOUS
<1>4. q * Align = 4 * x
  BY <1>3 DEF Align
<1>5. (4 * x) \div 4 = x
  OBVIOUS
<1>6. QED
  BY <1>2, <1>3, <1>4, <1>5 DEF Multiple

Copies == Reads \cup {"write"}

(* Every transfer starts at the first word of a chunk, only the last one may end  *)
(* inside it.                                                                    *)
Aligned ==
  /\ pc # "idle" /\ request.kind \in Reads => Multiple(baseAddr \div 4)
  /\ wordsTransferred < wordCount => Multiple(wordsTransferred)
  /\ pc = "transfer" /\ request.kind \in Copies => Multiple(Intended)

(* The set-up of a transfer, and that nothing but accesses follows it.           *)
SetUp ==
  pc = "transfer" /\ request.kind \in Copies =>
    /\ Len(cmdArray) >= 7 + wordsTransferredThisRun
    /\ cmdArray[1] = Cmd("IDCODE", 0) /\ cmdArray[5] = Cmd("SELECT", 0)
    /\ cmdArray[6] = Cmd("CSW", TRUE) /\ cmdArray[7] = Cmd("TAR", Intended)
    /\ \A k \in 8 .. Len(cmdArray) : cmdArray[k].reg \in {"DRW_R", "DRW_W"}

(* What the commands that were performed have made of the target's registers.    *)
Followed ==
  pc = "transfer" /\ request.kind \in Copies /\ target.attached =>
    LET n == Len(replyArray) IN
    /\ n >= 1 => ~target.reset
    /\ n >= 5 => target.bank = 0
    /\ n >= 6 => target.inc
    /\ n \in 7 .. 6 + wordsTransferredThisRun => target.tar = Intended + n - 7

AInv == Aligned /\ SetUp /\ Followed

LEMMA InitAddresses == Init => AInv
  BY Multiples DEF Init, AInv, Aligned, SetUp, Followed

LEMMA IntendedType == TInv => Intended \in Nat
<1> SUFFICES ASSUME TInv PROVE Intended \in Nat
  OBVIOUS
<1>1. /\ baseAddr \in Nat /\ wordsStored \in Nat /\ wordsTransferred \in Nat
      /\ wordsTransferredThisRun \in Nat
  BY DEF TInv, Types
<1>2. baseAddr \div 4 \in Nat
  BY <1>1
<1>3. wordsTransferredThisRun <= wordsTransferred
  BY DEF TInv, Progress
<1>4. QED
  BY <1>1, <1>2, <1>3 DEF Intended

(* Between two transfers only the alignment has to hold on. *)
LEMMA BetweenTransfers ==
  ASSUME TInv, AInv, pc' # "transfer",
         \/ pc' = "idle" /\ wordsTransferred' = 0
         \/ pc # "idle" /\ UNCHANGED <<call, wordsTransferred>>
  PROVE  AInv'
<1>1. Aligned'
  BY Multiples DEF AInv, Aligned, call
<1>2. SetUp' /\ Followed'
  BY DEF SetUp, Followed
<1>3. QED
  BY <1>1, <1>2 DEF AInv

LEMMA CallAligned ==
  ASSUME TInv, NEW r \in Requests, Call(r)
  PROVE  AInv'
<1>1. wordsTransferred' = 0
  BY DEF TInv, Progress, Call
<1>2. pc' \in {"open", "prepare"} /\ request' = r
  BY DEF Call
<1>3. ASSUME r.kind \in Reads
      PROVE  Multiple(baseAddr' \div 4)
  <2>1. r.base \in Nat
    BY RequestsAssumption
  <2>2. baseAddr' = r.base - (r.base % Align)
    BY <1>3 DEF Call, align2mem
  <2>3. QED
    BY <2>1, <2>2, AlignedStart
<1>4. Aligned'
  BY <1>1, <1>2, <1>3, Multiples DEF Aligned
<1>5. SetUp' /\ Followed'
  BY <1>2 DEF SetUp, Followed
<1>6. QED
  BY <1>4, <1>5 DEF AInv

(* A transfer that ends inside a chunk is the last one.                          *)
LEMMA RunAligned ==
  ASSUME TInv, AInv, NEW cmds, NextRun(cmds)
  PROVE  /\ Multiple(wordsTransferred)
         /\ wordsTransferred' < wordCount => Multiple(wordsTransferred')
         /\ wordsTransferredThisRun' = Added /\ wordsTransferred' = wordsTransferred + Added
         /\ UNCHANGED <<call, wordsStored>> /\ pc' = "transfer" /\ replyArray' = <<>>
<1>1. Multiple(wordsTransferred)
  BY DEF AInv, Aligned, NextRun
<1>2. wordsTransferred' < wordCount => wordsTransferred' = wordsTransferred + Chunk
  BY DEF TInv, Types, NextRun, Added, Minimum, RunStart
<1>3. wordsTransferred \in Nat
  BY DEF TInv, Types
<1>4. wordsTransferredThisRun' = Added
  BY DEF TInv, Types, NextRun, Added, Minimum, RunStart
<1>5. QED
  BY <1>1, <1>2, <1>3, <1>4, Multiples DEF NextRun, Send

LEMMA ReadAligned ==
  ASSUME TInv, AInv, PrepareRead
  PROVE  AInv'
<1>1. PICK cmds : NextRun(cmds)
  BY DEF PrepareRead
<1> DEFINE a == (baseAddr \div 4) + wordsStored
<1>2. request.kind \in Reads /\ request' = request /\ pc = "prepare"
  BY <1>1, RunAligned DEF PrepareRead, call
<1>3. Intended' = a
  BY <1>1, <1>2, RunAligned DEF Intended, Reads, call
<1>4. Multiple(a)
  <2>1. wordsStored = wordsTransferred
    BY <1>2 DEF TInv, Types, Progress
  <2>2. Multiple(baseAddr \div 4)
    BY <1>2 DEF AInv, Aligned
  <2>3. baseAddr \div 4 \in Nat /\ wordsStored \in Nat
    BY DEF TInv, Types
  <2>4. QED
    BY <1>1, <2>1, <2>2, <2>3, Multiples, RunAligned
<1> HIDE DEF a
<1>5. Aligned'
  BY <1>1, <1>2, <1>3, <1>4, RunAligned DEF AInv, Aligned, call
<1>6. SetUp'
  <2>1. Added \in Nat
    BY DEF TInv, Types, PrepareRead, NextRun, Added, Minimum, RunStart
  <2>2. /\ Len(cmdArray') = 8 + Added /\ Prepared(cmdArray', TRUE, a)
        /\ \A k \in 8 .. 8 + Added : cmdArray'[k].reg = "DRW_R"
    <3>1. 7 + (Added + 1) = 8 + Added
      BY <2>1
    <3>2. QED
      BY <3>1, ReadLists DEF a
  <2>3. QED
    BY <1>1, <1>3, <2>1, <2>2, RunAligned DEF SetUp, Prepared
<1>7. Followed'
  BY <1>1, RunAligned DEF TInv, Types, Followed
<1>8. QED
  BY <1>5, <1>6, <1>7 DEF AInv

LEMMA WriteAligned ==
  ASSUME TInv, AInv, PrepareWrite
  PROVE  AInv'
<1>1. PICK cmds : NextRun(cmds)
  BY DEF PrepareWrite
<1> DEFINE a == (baseAddr \div 4) + wordsTransferred
<1>2. request.kind = "write" /\ request' = request /\ pc = "prepare"
  BY <1>1, RunAligned DEF PrepareWrite, call
<1>3. Added \in Nat
  BY DEF TInv, Types, PrepareWrite, NextRun, Added, Minimum, RunStart
<1>4. Intended' = a
  BY <1>1, <1>2, <1>3, RunAligned DEF TInv, Types, Intended, Reads, call
<1>5. Multiple(a)
  <2>1. baseAddr \in Nat /\ wordsTransferred \in Nat
    BY DEF TInv, Types
  <2>2. baseAddr - (baseAddr % Align) = baseAddr
    BY <2>1 DEF PrepareWrite, Accepted
  <2>3. Multiple(baseAddr \div 4)
    BY <2>1, <2>2, AlignedStart
  <2>4. QED
    BY <1>1, <2>1, <2>3, Multiples, RunAligned
<1> HIDE DEF a
<1>6. Aligned'
  BY <1>1, <1>2, <1>4, <1>5, RunAligned DEF AInv, Aligned, Reads, call
<1>7. SetUp'
  <2>1. /\ Len(cmdArray') = 7 + Added /\ Prepared(cmdArray', TRUE, a)
        /\ \A k \in 8 .. 7 + Added : cmdArray'[k].reg = "DRW_W"
    <3>1. /\ Len(cmdArray') = 7 + Added /\ Prepared(cmdArray', TRUE, a)
          /\ \A k \in 8 .. 7 + Added :
               cmdArray'[k] = Cmd("DRW_W", request.data[wordsTransferred + k - 7])
      BY WriteLists DEF a
    <3>2. \A v : Cmd("DRW_W", v).reg = "DRW_W"
      BY DEF Cmd
    <3>3. QED
      BY <3>1, <3>2, Zenon
  <2>2. QED
    BY <1>1, <1>3, <1>4, <2>1, RunAligned DEF SetUp, Prepared
<1>8. Followed'
  BY <1>1, RunAligned DEF TInv, Types, Followed
<1>9. QED
  BY <1>6, <1>7, <1>8 DEF AInv

(* One more command was performed: the set-up selects the port, the increment    *)
(* and the address, and each access moves the address by one word.              *)
LEMMA CommandFollowed ==
  ASSUME Fits, TInv, AInv, CommandOk
  PROVE  AInv'
<1>0. PICK n \in Nat : n = Len(replyArray)
  BY DEF TInv, Lists
<1> DEFINE c == cmdArray[n + 1]
<1>1. /\ n < Len(cmdArray) /\ Len(replyArray') = n + 1
      /\ UNCHANGED <<pc, call, progress, cmdArray>> /\ pc = "transfer"
      /\ target' = Perform(target, c)
  BY <1>0 DEF TInv, Lists, CommandOk, Sending, Current
<1>2. c \in Commands /\ target \in Targets
  BY <1>1 DEF TInv, Types, Lists
<1>3. Aligned'
  BY <1>1 DEF AInv, Aligned, Intended, call, progress
<1>4. SetUp'
  BY <1>1 DEF AInv, SetUp, Intended, call, progress
<1>5. Followed'
  <2> SUFFICES ASSUME request.kind \in Copies, target'.attached
               PROVE  /\ ~target'.reset
                      /\ n >= 4 => target'.bank = 0
                      /\ n >= 5 => target'.inc
                      /\ n + 1 \in 7 .. 6 + wordsTransferredThisRun => target'.tar = Intended + n - 6
    <3>1. Intended' = Intended /\ Intended \in Nat
      BY <1>1, IntendedType DEF Intended, call, progress
    <3>2. QED
      BY <1>1, <3>1 DEF Followed, call, progress
  <2> DEFINE u == Perform(target, c)
  <2>1. /\ u.attached = target.attached
        /\ u.reset = IF c.reg = "IDCODE" THEN FALSE ELSE target.reset
        /\ u.bank = IF c.reg = "SELECT" THEN c.val ELSE target.bank
        /\ u.inc = IF c.reg = "CSW" /\ target.bank = 0 THEN c.val ELSE target.inc
        /\ u.tar = IF target.bank # 0 THEN target.tar
                   ELSE IF c.reg = "TAR" THEN c.val
                   ELSE IF c.reg \in {"DRW_R", "DRW_W"} /\ target.inc THEN Increment(target.tar)
                   ELSE target.tar
    BY <1>2, PerformType
  <2> HIDE DEF u
  <2>2. target' = u
    BY <1>1 DEF u
  <2>3. /\ n >= 1 => ~target.reset
        /\ n >= 5 => target.bank = 0
        /\ n >= 6 => target.inc
        /\ n \in 7 .. 6 + wordsTransferredThisRun => target.tar = Intended + n - 7
    BY <1>0, <1>1, <2>1, <2>2 DEF AInv, Followed
  <2>4. /\ n = 0 => c.reg = "IDCODE"
        /\ n = 4 => c.reg = "SELECT" /\ c.val = 0
        /\ n = 5 => c.reg = "CSW" /\ c.val = TRUE
        /\ n = 6 => c.reg = "TAR" /\ c.val = Intended
        /\ n >= 7 => c.reg \in {"DRW_R", "DRW_W"}
    <3>1. /\ cmdArray[1] = Cmd("IDCODE", 0) /\ cmdArray[5] = Cmd("SELECT", 0)
          /\ cmdArray[6] = Cmd("CSW", TRUE) /\ cmdArray[7] = Cmd("TAR", Intended)
          /\ \A k \in 8 .. Len(cmdArray) : cmdArray[k].reg \in {"DRW_R", "DRW_W"}
      BY <1>1 DEF AInv, SetUp
    <3>2. n >= 7 => n + 1 \in 8 .. Len(cmdArray)
      BY <1>1 DEF TInv, Lists
    <3>3. n >= 7 => c.reg \in {"DRW_R", "DRW_W"}
      BY <3>1, <3>2
    <3>4. CASE n = 0
      BY <3>1, <3>4 DEF Cmd
    <3>5. CASE n = 4
      BY <3>1, <3>5 DEF Cmd
    <3>6. CASE n = 5
      BY <3>1, <3>6 DEF Cmd
    <3>7. CASE n = 6
      BY <3>1, <3>7 DEF Cmd
    <3>8. QED
      BY <3>3, <3>4, <3>5, <3>6, <3>7
  <2> HIDE DEF c
  <2>5. CASE n < 4
    <3>1. ~u.reset
      BY <2>1, <2>3, <2>4, <2>5
    <3>2. QED
      BY <2>2, <2>5, <3>1
  <2>6. CASE n \in {4, 5, 6}
    <3>1. ~u.reset
      BY <2>1, <2>3, <2>6
    <3>2. u.bank = 0
      BY <2>1, <2>3, <2>4, <2>6
    <3>3. n >= 5 => u.inc
      BY <2>1, <2>3, <2>4, <2>6
    <3>4. n + 1 >= 7 => u.tar = Intended
      BY <2>1, <2>3, <2>4, <2>6
    <3>5. QED
      BY <2>2, <2>6, <3>1, <3>2, <3>3, <3>4, IntendedType
  <2>7. CASE n >= 7
    <3>1. ~u.reset /\ u.bank = 0 /\ u.inc
      BY <1>1, <2>1, <2>3, <2>4, <2>7
    <3>2. ASSUME n + 1 \in 7 .. 6 + wordsTransferredThisRun
          PROVE  u.tar = Intended + n - 6
      <4>1. Intended \in Nat /\ Multiple(Intended)
        BY <1>1, IntendedType DEF AInv, Aligned
      <4>2. wordsTransferredThisRun \in 0..Chunk
        BY DEF TInv, Types
      <4>3. PICK j \in Nat : j = n - 7
        BY <1>1, <2>7
      <4>4. j + 1 < Chunk /\ target.tar = Intended + j
        BY <1>1, <2>3, <2>7, <3>2, <4>1, <4>2, <4>3
      <4>5. u.tar = Increment(Intended + j)
        BY <1>1, <2>1, <2>3, <2>4, <2>7, <4>4
      <4>6. Increment(Intended + j) = Intended + j + 1
        BY <4>1, <4>4, InChunk
      <4>7. QED
        BY <1>1, <4>1, <4>3, <4>5, <4>6
    <3>3. QED
      BY <2>2, <2>7, <3>1, <3>2
  <2>8. QED
    BY <2>5, <2>6, <2>7
<1>6. QED
  BY <1>3, <1>4, <1>5 DEF AInv

(* A target that is there answers: after a line reset the first command is the    *)
(* one it waits for.                                                            *)
LEMMA UnansweredFollowed ==
  ASSUME TInv, AInv, CommandUnanswered
  PROVE  AInv'
<1>1. /\ UNCHANGED <<pc, call, progress, cmdArray, target>> /\ pc = "transfer"
      /\ Len(replyArray) \in Nat /\ Len(replyArray) < Len(cmdArray)
  BY DEF TInv, Lists, CommandUnanswered, Sending
<1>2. request.kind \in Copies => ~target.attached
  <2>1. ASSUME request.kind \in Copies, target.attached
        PROVE  FALSE
    <3>1. target.reset /\ Current.reg # "IDCODE"
      BY <2>1 DEF CommandUnanswered, Ack
    <3>2. Len(replyArray) = 0
      BY <1>1, <2>1, <3>1 DEF AInv, Followed
    <3>3. Current.reg = "IDCODE"
      BY <1>1, <2>1, <3>2 DEF AInv, SetUp, Current, Cmd
    <3>4. QED
      BY <3>1, <3>3
  <2>2. QED
    BY <2>1
<1>3. Aligned' /\ SetUp'
  BY <1>1 DEF AInv, Aligned, SetUp, Intended, call, progress
<1>4. Followed'
  BY <1>1, <1>2 DEF Followed, call
<1>5. QED
  BY <1>3, <1>4 DEF AInv

LEMMA NextAddresses ==
  ASSUME Fits, TInv, AInv, [Next]_vars
  PROVE  AInv'
<1>1. CASE \E r \in Requests : Call(r)
  BY <1>1, CallAligned
<1>2. CASE PrepareRead
  BY <1>2, ReadAligned
<1>3. CASE PrepareWrite
  BY <1>3, WriteAligned
<1>4. CASE PrepareWord
  <2>1. /\ request.kind \notin Copies /\ pc # "idle"
        /\ UNCHANGED <<call, progress>>
    BY <1>4 DEF PrepareWord, Copies, Reads
  <2>2. QED
    BY <1>4, <2>1 DEF AInv, Aligned, SetUp, Followed, call, progress
<1>5. CASE CommandOk
  BY <1>5, CommandFollowed
<1>6. CASE CommandUnanswered
  BY <1>6, UnansweredFollowed
<1>7. CASE StoreWords \/ DumpOpens \/ GoOnWriting
  <2>1. pc' # "transfer" /\ pc # "idle" /\ UNCHANGED <<call, wordsTransferred>>
    BY <1>7 DEF StoreWords, DumpOpens, GoOnWriting, Transferred, progress
  <2>2. QED
    BY <2>1, BetweenTransfers
<1>8. CASE \/ DumpRefused \/ RefuseUnaligned \/ DeviceBusy \/ CommandFault \/ CommandWaits
           \/ ReturnWord \/ WriteReturns \/ FetchReturns \/ PrintReturns \/ DumpReturns
  <2>1. pc' = "idle" /\ wordsTransferred' = 0
    BY <1>8, ReturnsLeave DEF Leave
  <2>2. QED
    BY <2>1, BetweenTransfers
<1>9. CASE Detach
  <2>1. ~target'.attached
    BY <1>9 DEF Detach, Fresh
  <2>2. QED
    BY <1>9, <2>1 DEF Detach, AInv, Aligned, SetUp, Followed, Intended, call, progress, transfer
<1>10. CASE RemoveFile \/ UNCHANGED vars
  <2>1. UNCHANGED <<pc, call, progress, transfer, target>>
    BY <1>10 DEF RemoveFile, vars
  <2>2. QED
    BY <2>1 DEF AInv, Aligned, SetUp, Followed, Intended, call, progress, transfer
<1>11. QED
  BY <1>1, <1>2, <1>3, <1>4, <1>5, <1>6, <1>7, <1>8, <1>9, <1>10 DEF Next, Running

LEMMA AInvExact == TInv /\ AInv => AddressesExact
<1> SUFFICES ASSUME TInv, AInv, Sending, target.attached,
                    Len(replyArray) \in 7 .. 6 + wordsTransferredThisRun
             PROVE  target.tar = Intended + Len(replyArray) - 7
  BY DEF AddressesExact
<1>1. request.kind \in Copies
  BY RequestsAssumption DEF TInv, Types, Progress, Copies, Reads
<1>2. QED
  BY <1>1 DEF AInv, Followed, Sending

(* Every access reaches the address that the code means, for any memory, any      *)
(* requests and any chunk, if whole chunks fill the target's auto-increment       *)
(* block: alignment and chunk size (cheese_memoryaccess.c:97, :201-214) keep the  *)
(* target's register from wrapping around inside a transfer.                     *)
THEOREM AddressesRight == Fits => (Spec => []AddressesExact)
<1> SUFFICES ASSUME Fits
             PROVE  Spec => []AddressesExact
  OBVIOUS
<1>1. Init => TInv /\ AInv
  BY InitTypes, InitAddresses
<1>2. TInv /\ AInv /\ [Next]_vars => TInv' /\ AInv'
  BY NextTypes, NextAddresses
<1>3. TInv /\ AInv => AddressesExact
  BY AInvExact
<1>4. QED
  BY <1>1, <1>2, <1>3, PTL DEF Spec

-----------------------------------------------------------------------------
(* The promise of MemCopy. *)

Reading == request.kind \in Reads \cup {"peek"}
Writing == request.kind \in {"write", "poke"}

(* The words of the transfer in progress, and how many the call had before it.   *)
Run == IF request.kind \in Copies THEN wordsTransferredThisRun ELSE 1
Before == IF request.kind = "write" THEN wordsTransferred - wordsTransferredThisRun ELSE 0

(* The numbers a call works with, and the request they come from.               *)
Begun ==
  pc # "idle" =>
    /\ reply = 0
    /\ pc = "open" => request.kind = "dump"
    /\ request.kind \in Reads =>
         /\ wordOffset \in Nat /\ wordCount = request.count + wordOffset
         /\ request.base \div 4 = (baseAddr \div 4) + wordOffset
    /\ request.kind \notin Reads => baseAddr = request.base /\ wordCount = request.count

(* The whole command list of a transfer.                                        *)
Listed ==
  pc = "transfer" =>
    /\ \E inc \in BOOLEAN : Prepared(cmdArray, inc, Intended)
    /\ Run >= 1
    /\ Reading => /\ Len(cmdArray) = 8 + Run
                  /\ \A k \in 8 .. 7 + Run : cmdArray[k].reg = "DRW_R"
                  /\ cmdArray[8 + Run].reg \in {"DRW_R", "READBUF"}
    /\ Writing => /\ Len(cmdArray) = 7 + Run
                  /\ \A k \in 8 .. 7 + Run : cmdArray[k] = Cmd("DRW_W", request.data[Before + k - 7])

(* What the target is after the commands it has performed: powered, selected, at  *)
(* the word that comes next, and without an error but that of the last access.    *)
Reached ==
  pc = "transfer" /\ target.attached =>
    LET n == Len(replyArray) IN
    /\ n >= 1 => ~target.reset
    /\ n >= 4 => target.powered
    /\ n >= 5 => target.bank = 0
    /\ n \in 7 .. 6 + Run => target.tar = Intended + n - 7
    /\ n \in 3..7 => ~target.sticky
    /\ n \in 8 .. 7 + Run /\ target.sticky => Intended + n - 8 \notin Mapped

(* The word w that was read from a: what is there, or zero without a target.       *)
Genuine(w, a) == \/ a \in Mapped /\ w = target.mem[a]
                 \/ ~target.attached /\ w = 0

(* The replies that have arrived, and the one that the target has ready.        *)
Arrived ==
  pc = "transfer" /\ Reading =>
    LET n == Len(replyArray) IN
    /\ \A j \in 1 .. Run : 8 + j <= n => Genuine(replyArray[8 + j], Intended + j - 1)
    /\ target.attached /\ ~target.sticky /\ n \in 8 .. 7 + Run =>
         Genuine(target.rdbuf, Intended + n - 8)

(* The words of the transfers before.                                           *)
Gathered ==
  pc # "idle" /\ request.kind \in Reads =>
    \A k \in 1 .. wordsStored : Genuine(dataArray[k], (baseAddr \div 4) + k - 1)

There(k) ==
  LET a == (baseAddr \div 4) + k IN a \in Mapped /\ target.mem[a] = request.data[k + 1]

Landed ==
  pc = "transfer" /\ Writing /\ target.attached =>
    LET n == Len(replyArray) IN
    \A j \in 1 .. Run : j <= n - 7 =>
      \/ There(Before + j - 1)
      \/ j = n - 7 /\ target.sticky

(* The words of the transfers before are in the memory, but perhaps for the last  *)
(* of a transfer.                                                               *)
Settled ==
  pc # "idle" /\ request.kind = "write" /\ target.attached =>
    \A k \in 0 .. (IF pc = "transfer" THEN Before ELSE wordsTransferred) - 1 :
      \/ There(k)
      \/ (baseAddr \div 4) + k \notin Mapped /\ (k = request.count - 1 \/ (k + 1) % Chunk = 0)

CInv == Begun /\ Listed /\ Reached /\ Arrived /\ Gathered /\ Landed /\ Settled

(* What an access to the word at TAR makes of the target.                     *)
LEMMA AccessEffect ==
  ASSUME NEW t \in Targets, NEW c \in Commands, c.reg \in {"DRW_R", "DRW_W"}
  PROVE  LET u == Access(t, c) IN
         /\ u.powered = t.powered
         /\ u.sticky <=> (t.sticky \/ t.tar \notin Mapped)
         /\ u.rdbuf = IF c.reg = "DRW_R" /\ t.tar \in Mapped THEN t.mem[t.tar] ELSE t.rdbuf
         /\ u.mem = IF c.reg = "DRW_W" /\ t.tar \in Mapped THEN [t.mem EXCEPT ![t.tar] = c.val]
                    ELSE t.mem
<1> DEFINE i == IF t.inc THEN Increment(t.tar) ELSE t.tar
           m == [t EXCEPT !.tar = i]
<1> HIDE DEF i
<1>1. /\ m.powered = t.powered /\ m.sticky = t.sticky /\ m.rdbuf = t.rdbuf /\ m.mem = t.mem
      /\ DOMAIN m = DOMAIN t
  BY DEF Targets
<1>2. Access(t, c) = IF t.tar \notin Mapped THEN [m EXCEPT !.sticky = TRUE]
                     ELSE IF c.reg = "DRW_R" THEN [m EXCEPT !.rdbuf = t.mem[t.tar]]
                     ELSE [m EXCEPT !.mem[t.tar] = c.val]
  BY DEF Access, i
<1>3. {"powered", "sticky", "rdbuf", "mem"} \subseteq DOMAIN m /\ t.sticky \in BOOLEAN
  BY DEF Targets
<1> HIDE DEF m
<1>4. CASE t.tar \notin Mapped
  <2>1. Access(t, c) = [m EXCEPT !.sticky = TRUE]
    BY <1>2, <1>4
  <2>2. QED
    BY <1>1, <1>3, <1>4, <2>1
<1>5. CASE t.tar \in Mapped /\ c.reg = "DRW_R"
  <2>1. Access(t, c) = [m EXCEPT !.rdbuf = t.mem[t.tar]]
    BY <1>2, <1>5
  <2>2. QED
    BY <1>1, <1>3, <1>5, <2>1
<1>6. CASE t.tar \in Mapped /\ c.reg = "DRW_W"
  <2>1. Access(t, c) = [m EXCEPT !.mem[t.tar] = c.val]
    BY <1>2, <1>6
  <2>2. QED
    BY <1>1, <1>3, <1>6, <2>1
<1>7. QED
  BY <1>4, <1>5, <1>6

(* What a command makes of the rest of the target: its power, its error, its      *)
(* read buffer and its memory.                                                  *)
LEMMA PerformEffect ==
  ASSUME NEW t \in Targets, NEW c \in Commands
  PROVE  LET u      == Perform(t, c)
             access == c.reg \in {"DRW_R", "DRW_W"} /\ t.bank = 0
         IN
         /\ u.powered <=> (c.reg = "CTRLSTAT_W" \/ t.powered)
         /\ u.sticky <=> (c.reg # "ABORT" /\ (t.sticky \/ (access /\ t.tar \notin Mapped)))
         /\ u.rdbuf = IF access /\ c.reg = "DRW_R" /\ t.tar \in Mapped THEN t.mem[t.tar] ELSE t.rdbuf
         /\ u.mem = IF access /\ c.reg = "DRW_W" /\ t.tar \in Mapped
                    THEN [t.mem EXCEPT ![t.tar] = c.val] ELSE t.mem
<1>0. t.sticky \in BOOLEAN /\ t.powered \in BOOLEAN
  BY DEF Targets
<1>1. CASE c.reg \in {"DRW_R", "DRW_W"} /\ t.bank = 0
  <2>1. Perform(t, c) = Access(t, c)
    BY <1>1 DEF Perform
  <2> DEFINE u == Access(t, c)
  <2>2. /\ u.powered = t.powered
        /\ u.sticky <=> (t.sticky \/ t.tar \notin Mapped)
        /\ u.rdbuf = IF c.reg = "DRW_R" /\ t.tar \in Mapped THEN t.mem[t.tar] ELSE t.rdbuf
        /\ u.mem = IF c.reg = "DRW_W" /\ t.tar \in Mapped THEN [t.mem EXCEPT ![t.tar] = c.val]
                   ELSE t.mem
    BY <1>1, AccessEffect
  <2> HIDE DEF u
  <2>3. QED
    BY <1>0, <1>1, <2>1, <2>2 DEF u
<1>2. CASE ~(c.reg \in {"DRW_R", "DRW_W"} /\ t.bank = 0)
  <2> DEFINE u == Perform(t, c)
  <2>1. \/ c.reg = "IDCODE" /\ u = [t EXCEPT !.reset = FALSE]
        \/ c.reg = "ABORT" /\ u = [t EXCEPT !.sticky = FALSE]
        \/ c.reg = "CTRLSTAT_W" /\ u = [t EXCEPT !.powered = TRUE]
        \/ c.reg = "SELECT" /\ u = [t EXCEPT !.bank = c.val]
        \/ c.reg = "CSW" /\ u = [t EXCEPT !.inc = c.val]
        \/ c.reg = "TAR" /\ u = [t EXCEPT !.tar = c.val]
        \/ c.reg \notin {"IDCODE", "ABORT", "CTRLSTAT_W", "SELECT"} /\ u = t
    BY <1>2 DEF Perform
  <2>2. {"powered", "sticky", "rdbuf", "mem"} \subseteq DOMAIN t
    BY DEF Targets
  <2> HIDE DEF u
  <2>3. /\ u.powered <=> (c.reg = "CTRLSTAT_W" \/ t.powered)
        /\ u.sticky <=> (c.reg # "ABORT" /\ t.sticky)
        /\ u.rdbuf = t.rdbuf /\ u.mem = t.mem
    <3>1. CASE c.reg \in {"IDCODE", "SELECT", "CSW", "TAR"} /\ c.reg # "ABORT" /\ c.reg # "CTRLSTAT_W"
      BY <1>0, <2>1, <2>2, <3>1
    <3>2. CASE c.reg = "ABORT"
      BY <1>0, <2>1, <2>2, <3>2
    <3>3. CASE c.reg = "CTRLSTAT_W"
      BY <1>0, <2>1, <2>2, <3>3
    <3>4. CASE u = t /\ c.reg # "ABORT" /\ c.reg # "CTRLSTAT_W"
      BY <1>0, <3>4
    <3>5. QED
      BY <2>1, <3>1, <3>2, <3>3, <3>4
  <2>4. QED
    BY <1>2, <2>3 DEF u
<1>3. QED
  BY <1>1, <1>2

(* The words of an aligned address and of the offset that was cut off.        *)
LEMMA AlignedWords ==
  ASSUME NEW base \in Nat
  PROVE  base \div 4 = ((base - (base % Align)) \div 4) + ((base % Align) \div 4)
<1>1. Align \in Nat \ {0}
  BY DEF Align
<1> HIDE DEF Align
<1>2. PICK q \in Nat, s \in 0 .. Align - 1 : base = q * Align + s
  BY <1>1, DivModEx
<1>3. base % Align = s
  BY <1>1, <1>2, DivMod
<1>4. PICK x \in Nat : x = q * Chunk
  OBVIOUS
<1>5. q * Align = 4 * x
  BY <1>4 DEF Align
<1>6. s \in Nat
  BY <1>1, <1>2
<1>7. (4 * x + s) \div 4 = x + (s \div 4) /\ (4 * x) \div 4 = x
  BY <1>6
<1>8. QED
  BY <1>2, <1>3, <1>5, <1>6, <1>7

(* Only a new call changes what is asked for. *)
LEMMA GoesOn ==
  ASSUME [Next]_vars, pc' # "idle"
  PROVE  \/ \E r \in Requests : Call(r)
         \/ pc # "idle" /\ UNCHANGED <<call, reply>> /\ (pc' = "open" => pc = "open")
<1>1. CASE PrepareRead \/ PrepareWrite \/ PrepareWord
  BY <1>1 DEF PrepareRead, PrepareWrite, PrepareWord, NextRun, Send, call, result
<1>2. CASE DumpOpens \/ CommandOk \/ CommandUnanswered \/ StoreWords \/ GoOnWriting
  BY <1>2 DEF DumpOpens, CommandOk, CommandUnanswered, StoreWords, GoOnWriting, Sending,
              Transferred, call, result
<1>3. CASE \/ DumpRefused \/ RefuseUnaligned \/ DeviceBusy \/ CommandFault \/ CommandWaits
           \/ ReturnWord \/ WriteReturns \/ FetchReturns \/ PrintReturns \/ DumpReturns
  BY <1>3 DEF DumpRefused, RefuseUnaligned, DeviceBusy, CommandFault, CommandWaits, Abandon, ReturnWord,
              WriteReturns, FetchReturns, PrintReturns, DumpReturns, Leave
<1>4. CASE Detach \/ RemoveFile \/ UNCHANGED vars
  BY <1>4 DEF Detach, RemoveFile, vars, call, result
<1>5. QED
  BY <1>1, <1>2, <1>3, <1>4 DEF Next, Running

LEMMA BegunNext ==
  ASSUME TInv, Begun, [Next]_vars
  PROVE  Begun'
<1>1. SUFFICES ASSUME pc' # "idle" PROVE Begun'
  BY DEF Begun
<1>2. ASSUME NEW r \in Requests, Call(r)
      PROVE  Begun'
  <2>1. r.base \in Nat /\ r.count \in Nat
    BY RequestsAssumption
  <2>2. request' = r /\ reply' = 0 /\ (pc' = "open" => r.kind = "dump")
    BY <1>2 DEF Call
  <2>3. CASE r.kind \in Reads
    <3>1. /\ wordOffset' = (r.base % Align) \div 4
          /\ baseAddr' = r.base - (r.base % Align)
          /\ wordCount' = r.count + ((r.base % Align) \div 4)
      BY <1>2, <2>3 DEF Call, align2mem
    <3>2. (r.base % Align) \div 4 \in Nat
      BY <2>1, AlignTypes
    <3>3. r.base \div 4 = ((r.base - (r.base % Align)) \div 4) + ((r.base % Align) \div 4)
      BY <2>1, AlignedWords
    <3>4. QED
      BY <2>2, <2>3, <3>1, <3>2, <3>3 DEF Begun
  <2>4. CASE r.kind \notin Reads
    BY <1>2, <2>2, <2>4 DEF Call, Begun
  <2>5. QED
    BY <2>3, <2>4
<1>3. ASSUME pc # "idle", UNCHANGED <<call, reply>>, pc' = "open" => pc = "open"
      PROVE  Begun'
  BY <1>3 DEF Begun, call
<1>4. QED
  BY <1>1, <1>2, <1>3, GoesOn

(* A transfer is begun, or goes on with the same list. *)
LEMMA InTransfer ==
  ASSUME [Next]_vars, pc' = "transfer"
  PROVE  \/ PrepareRead \/ PrepareWrite \/ PrepareWord
         \/ /\ pc = "transfer" /\ UNCHANGED <<call, progress, cmdArray>>
            /\ CommandOk \/ CommandUnanswered \/ Detach \/ UNCHANGED <<replyArray, target>>
<1>1. CASE \E r \in Requests : Call(r)
  BY <1>1 DEF Call
<1>2. CASE DumpOpens \/ StoreWords \/ GoOnWriting
  BY <1>2 DEF DumpOpens, StoreWords, GoOnWriting
<1>3. CASE CommandOk \/ CommandUnanswered
  BY <1>3 DEF CommandOk, CommandUnanswered, Sending
<1>4. CASE \/ DumpRefused \/ RefuseUnaligned \/ DeviceBusy \/ CommandFault \/ CommandWaits
           \/ ReturnWord \/ WriteReturns \/ FetchReturns \/ PrintReturns \/ DumpReturns
  BY <1>4 DEF DumpRefused, RefuseUnaligned, DeviceBusy, CommandFault, CommandWaits, Abandon, ReturnWord,
              WriteReturns, FetchReturns, PrintReturns, DumpReturns, Leave
<1>5. CASE Detach
  BY <1>5 DEF Detach, transfer
<1>6. CASE RemoveFile
  BY <1>6 DEF RemoveFile
<1>7. CASE UNCHANGED vars
  BY <1>7 DEF vars, transfer
<1>8. QED
  BY <1>1, <1>2, <1>3, <1>4, <1>5, <1>6, <1>7 DEF Next, Running

(* A transfer gets at least one word and at most a chunk.                     *)
LEMMA AddedType ==
  ASSUME TInv, wordsTransferred < wordCount
  PROVE  Added \in 1..Chunk /\ wordsTransferred + Added <= wordCount
BY DEF TInv, Types, Added, Minimum, RunStart

(* What a transfer starts from. *)
LEMMA TransferStarts ==
  ASSUME TInv, PrepareRead \/ PrepareWrite \/ PrepareWord
  PROVE  /\ pc = "prepare" /\ pc' = "transfer" /\ replyArray' = <<>>
         /\ UNCHANGED <<call, wordsStored, dataArray>>
         /\ target' = [target EXCEPT !.reset = TRUE]
         /\ Run' \in 1..Chunk
         /\ Before' = IF request.kind = "write" THEN wordsTransferred ELSE 0
         /\ Intended' = CASE request.kind \in Reads -> (baseAddr \div 4) + wordsStored
                          [] request.kind = "write" -> (baseAddr \div 4) + wordsTransferred
                          [] OTHER                  -> baseAddr \div 4
         /\ Prepared(cmdArray', request.kind \in Copies, Intended')
<1>0. baseAddr \div 4 \in Nat /\ wordsStored \in Nat /\ wordsTransferred \in Nat
  BY DEF TInv, Types
<1>1. CASE PrepareRead \/ PrepareWrite
  <2>1. PICK cmds : NextRun(cmds)
    BY <1>1 DEF PrepareRead, PrepareWrite
  <2>2. Added \in 1..Chunk
    BY <2>1, AddedType DEF NextRun
  <2>3. /\ pc = "prepare" /\ pc' = "transfer" /\ replyArray' = <<>>
        /\ UNCHANGED <<call, wordsStored, dataArray>>
        /\ target' = [target EXCEPT !.reset = TRUE]
        /\ wordsTransferredThisRun' = Added /\ wordsTransferred' = wordsTransferred + Added
        /\ request' = request /\ baseAddr' = baseAddr
    BY <1>1, <2>1, <2>2 DEF PrepareRead, PrepareWrite, NextRun, Send, RunStart, call
  <2>4. CASE PrepareRead
    <3>1. request.kind \in Reads /\ request.kind # "write" /\ request.kind \in Copies
      BY <2>4 DEF PrepareRead, Reads, Copies
    <3>2. Intended' = (baseAddr \div 4) + wordsStored
      BY <2>3, <3>1 DEF Intended
    <3>3. Prepared(cmdArray', TRUE, (baseAddr \div 4) + wordsStored)
      BY <2>4, ReadLists
    <3>4. Run' \in 1..Chunk /\ Before' = 0
      BY <2>2, <2>3, <3>1 DEF Run, Before
    <3>5. (request.kind \in Copies) = TRUE
      BY <3>1
    <3>6. QED
      BY <2>3, <3>1, <3>2, <3>3, <3>4, <3>5
  <2>5. CASE PrepareWrite
    <3>1. request.kind \notin Reads /\ request.kind = "write" /\ request.kind \in Copies
      BY <2>5 DEF PrepareWrite, Reads, Copies
    <3>2. Intended' = (baseAddr \div 4) + wordsTransferred
      BY <1>0, <2>2, <2>3, <3>1 DEF Intended
    <3>3. Prepared(cmdArray', TRUE, (baseAddr \div 4) + wordsTransferred)
      BY <2>5, WriteLists
    <3>4. Run' \in 1..Chunk /\ Before' = wordsTransferred
      BY <1>0, <2>2, <2>3, <3>1 DEF Run, Before
    <3>5. (request.kind \in Copies) = TRUE
      BY <3>1
    <3>6. QED
      BY <2>3, <3>1, <3>2, <3>3, <3>4, <3>5
  <2>6. QED
    BY <1>1, <2>4, <2>5
<1>2. CASE PrepareWord
  <2>1. request.kind \notin Reads /\ request.kind # "write" /\ request.kind \notin Copies
    BY <1>2 DEF PrepareWord, Reads, Copies
  <2>2. /\ pc = "prepare" /\ pc' = "transfer" /\ replyArray' = <<>>
        /\ UNCHANGED <<call, progress>>
        /\ target' = [target EXCEPT !.reset = TRUE]
        /\ request' = request /\ baseAddr' = baseAddr
    BY <1>2 DEF PrepareWord, Send, call
  <2>3. Intended' = baseAddr \div 4
    BY <2>1, <2>2 DEF Intended
  <2>4. Prepared(cmdArray', FALSE, baseAddr \div 4)
    BY <1>2, WordLists
  <2>5. Run' \in 1..Chunk /\ Before' = 0
    BY <2>1, <2>2 DEF Run, Before
  <2>6. (request.kind \in Copies) = FALSE
    BY <2>1
  <2>7. QED
    BY <2>1, <2>2, <2>3, <2>4, <2>5, <2>6 DEF progress
<1>3. QED
  BY <1>1, <1>2

(* The length and place of the transfer in progress.                          *)
LEMMA RunTypes ==
  ASSUME TInv
  PROVE  /\ Run \in Nat /\ Run <= Chunk /\ Before \in Nat /\ Intended \in Nat /\ baseAddr \div 4 \in Nat
         /\ Writing => Intended = (baseAddr \div 4) + Before
<1>1. /\ wordsTransferredThisRun \in Nat /\ wordsTransferredThisRun <= Chunk
      /\ wordsTransferred \in Nat /\ baseAddr \div 4 \in Nat
      /\ wordsTransferredThisRun <= wordsTransferred
  BY DEF TInv, Types, Progress
<1>2. QED
  BY <1>1, IntendedType DEF Run, Before, Intended, Writing, Reads

LEMMA ListedNext ==
  ASSUME TInv, Begun, Listed, [Next]_vars
  PROVE  Listed'
<1>1. SUFFICES ASSUME pc' = "transfer" PROVE Listed'
  BY DEF Listed
<1>2. CASE pc = "transfer" /\ UNCHANGED <<call, progress, cmdArray>>
  BY <1>2 DEF Listed, Reading, Writing, Run, Before, Intended, call, progress
<1>3. CASE PrepareRead \/ PrepareWrite \/ PrepareWord
  <2>1. /\ request' = request /\ Run' \in Nat /\ Run' >= 1
        /\ Before' = IF request.kind = "write" THEN wordsTransferred ELSE 0
    BY <1>3, TransferStarts DEF call
  <2>2. \E inc \in BOOLEAN : Prepared(cmdArray', inc, Intended')
    <3>1. Prepared(cmdArray', request.kind \in Copies, Intended')
      BY <1>3, TransferStarts
    <3>2. (request.kind \in Copies) \in BOOLEAN
      OBVIOUS
    <3>3. QED
      BY <3>1, <3>2, Zenon
  <2>3. CASE PrepareRead
    <3>1. Run' = Added /\ request.kind \in Reads /\ Added \in Nat
      BY <2>1, <2>3, AddedType DEF PrepareRead, NextRun, Run, Copies, RunStart
    <3>2. /\ Len(cmdArray') = 7 + (Added + 1)
          /\ \A k \in 8 .. 7 + (Added + 1) : cmdArray'[k].reg = "DRW_R"
      BY <2>3, ReadLists
    <3>3. /\ Len(cmdArray') = 8 + Run'
          /\ \A k \in 8 .. 7 + Run' : cmdArray'[k].reg = "DRW_R"
          /\ cmdArray'[8 + Run'].reg = "DRW_R"
      BY <3>1, <3>2
    <3>4. ~Writing'
      BY <2>1, <3>1 DEF Writing, Reads
    <3>5. QED
      BY <2>1, <2>2, <3>3, <3>4 DEF Listed
  <2>4. CASE PrepareWrite
    <3>1. Run' = Added /\ request.kind = "write" /\ Added \in Nat
      BY <2>1, <2>4, AddedType DEF PrepareWrite, NextRun, Run, Copies, RunStart
    <3>2. /\ Len(cmdArray') = 7 + Added
          /\ \A k \in 8 .. 7 + Added :
               cmdArray'[k] = Cmd("DRW_W", request.data[wordsTransferred + k - 7])
      BY <2>4, WriteLists
    <3>3. /\ Len(cmdArray') = 7 + Run'
          /\ \A k \in 8 .. 7 + Run' : cmdArray'[k] = Cmd("DRW_W", request'.data[Before' + k - 7])
      BY <2>1, <3>1, <3>2
    <3>4. ~Reading'
      BY <2>1, <3>1 DEF Reading, Reads
    <3>5. QED
      BY <2>1, <2>2, <3>3, <3>4 DEF Listed
  <2>5. CASE PrepareWord
    <3>1. Run' = 1 /\ Before' = 0 /\ request.kind \in {"peek", "poke"}
      BY <2>1, <2>5 DEF PrepareWord, Run, Copies, Reads
    <3>2. CASE request.kind = "peek"
      <4>1. Len(cmdArray') = 9 /\ cmdArray'[8].reg = "DRW_R" /\ cmdArray'[9].reg = "READBUF"
        BY <2>5, <3>2, WordLists DEF Cmd
      <4>2. ~Writing'
        BY <2>1, <3>2 DEF Writing
      <4>3. \A k \in 8 .. 7 + 1 : cmdArray'[k].reg = "DRW_R"
        BY <4>1
      <4>4. QED
        BY <2>1, <2>2, <3>1, <4>1, <4>2, <4>3 DEF Listed
    <3>3. CASE request.kind = "poke"
      <4>1. Len(cmdArray') = 8 /\ cmdArray'[8] = Cmd("DRW_W", request.data[1])
        BY <2>5, <3>3, WordLists
      <4>2. ~Reading'
        BY <2>1, <3>3 DEF Reading, Reads
      <4>3. \A k \in 8 .. 7 + 1 : cmdArray'[k] = Cmd("DRW_W", request'.data[0 + k - 7])
        BY <2>1, <4>1
      <4>4. QED
        BY <2>1, <2>2, <3>1, <4>1, <4>2, <4>3 DEF Listed
    <3>4. QED
      BY <3>1, <3>2, <3>3
  <2>6. QED
    BY <1>3, <2>3, <2>4, <2>5
<1>4. QED
  BY <1>1, <1>2, <1>3, InTransfer

(* A call either reads or writes.                                             *)
LEMMA Kinds ==
  ASSUME TInv
  PROVE  /\ request.kind \in {"fetch", "print", "dump", "write", "peek", "poke"}
         /\ request.count \in Nat /\ request.base \in Nat
         /\ (Reading /\ ~Writing) \/ (Writing /\ ~Reading)
         /\ request.kind \in {"peek", "poke"} => request.count = 1
         /\ Writing => request.data \in [1 .. request.count -> Word]
BY RequestsAssumption DEF TInv, Types, Reading, Writing, Reads

(* What an OK says of the target.                                             *)
LEMMA Acknowledged ==
  ASSUME NEW t \in Targets, NEW c, Ack(t, c) = 1
  PROVE  /\ t.attached
         /\ t.reset => c.reg = "IDCODE"
         /\ t.sticky => c.reg \in {"IDCODE", "CTRLSTAT_R", "ABORT"}
         /\ c.reg \in APRegs => t.powered
BY DEF Ack

(* The command that comes after n others. *)
LEMMA CommandAt ==
  ASSUME TInv, Listed, Sending, NEW n \in Nat, n = Len(replyArray), NEW c, c = Current
  PROVE  /\ c \in Commands /\ n < Len(cmdArray) /\ n <= 7 + Run /\ Run >= 1
         /\ n = 0 => c.reg = "IDCODE"
         /\ n = 1 => c.reg = "CTRLSTAT_R"
         /\ n = 2 => c.reg = "ABORT"
         /\ n = 3 => c.reg = "CTRLSTAT_W"
         /\ n = 4 => c.reg = "SELECT" /\ c.val = 0
         /\ n = 5 => c.reg = "CSW"
         /\ n = 6 => c.reg = "TAR" /\ c.val = Intended
         /\ n >= 7 => IF Reading
                      THEN /\ c.reg \in {"DRW_R", "READBUF"}
                           /\ n \in 7 .. 6 + Run => c.reg = "DRW_R"
                      ELSE /\ c = Cmd("DRW_W", request.data[Before + n - 6])
                           /\ n \in 7 .. 6 + Run
<1>1. pc = "transfer" /\ n < Len(cmdArray) /\ c = cmdArray[n + 1]
  BY DEF Sending, Current
<1>2. c \in Commands /\ Run \in Nat /\ Before \in Nat /\ Len(cmdArray) \in Nat
  BY <1>1, RunTypes DEF TInv, Lists
<1>3. PICK inc \in BOOLEAN : Prepared(cmdArray, inc, Intended)
  BY <1>1 DEF Listed
<1>4. /\ n = 0 => c.reg = "IDCODE"
      /\ n = 1 => c.reg = "CTRLSTAT_R"
      /\ n = 2 => c.reg = "ABORT"
      /\ n = 3 => c.reg = "CTRLSTAT_W"
      /\ n = 4 => c.reg = "SELECT" /\ c.val = 0
      /\ n = 5 => c.reg = "CSW"
      /\ n = 6 => c.reg = "TAR" /\ c.val = Intended
  <2>1. ASSUME n = 0
        PROVE  c = Cmd("IDCODE", 0)
    BY <1>1, <1>3, <2>1 DEF Prepared
  <2>2. ASSUME n = 1
        PROVE  c = Cmd("CTRLSTAT_R", 0)
    BY <1>1, <1>3, <2>2 DEF Prepared
  <2>3. ASSUME n = 2
        PROVE  c = Cmd("ABORT", 0)
    BY <1>1, <1>3, <2>3 DEF Prepared
  <2>4. ASSUME n = 3
        PROVE  c = Cmd("CTRLSTAT_W", 0)
    BY <1>1, <1>3, <2>4 DEF Prepared
  <2>5. ASSUME n = 4
        PROVE  c = Cmd("SELECT", 0)
    BY <1>1, <1>3, <2>5 DEF Prepared
  <2>6. ASSUME n = 5
        PROVE  c = Cmd("CSW", inc)
    BY <1>1, <1>3, <2>6 DEF Prepared
  <2>7. ASSUME n = 6
        PROVE  c = Cmd("TAR", Intended)
    BY <1>1, <1>3, <2>7 DEF Prepared
  <2>8. QED
    BY <2>1, <2>2, <2>3, <2>4, <2>5, <2>6, <2>7 DEF Cmd
<1>6. CASE Reading
  <2>1. /\ Run >= 1 /\ Len(cmdArray) = 8 + Run
        /\ \A k \in 8 .. 7 + Run : cmdArray[k].reg = "DRW_R"
        /\ cmdArray[8 + Run].reg \in {"DRW_R", "READBUF"}
    BY <1>1, <1>6 DEF Listed
  <2>2. n \in 7 .. 6 + Run => c.reg = "DRW_R"
    BY <1>1, <1>2, <2>1
  <2>3. n = 7 + Run => c.reg \in {"DRW_R", "READBUF"}
    BY <1>1, <1>2, <2>1
  <2>4. n <= 7 + Run /\ (n >= 7 => n \in 7 .. 6 + Run \/ n = 7 + Run)
    BY <1>1, <1>2, <2>1
  <2>5. QED
    BY <1>1, <1>2, <1>4, <1>6, <2>1, <2>2, <2>3, <2>4
<1>7. CASE Writing
  <2>1. /\ Run >= 1 /\ Len(cmdArray) = 7 + Run
        /\ \A k \in 8 .. 7 + Run : cmdArray[k] = Cmd("DRW_W", request.data[Before + k - 7])
    BY <1>1, <1>7 DEF Listed
  <2>2. n <= 6 + Run /\ n <= 7 + Run
    BY <1>1, <1>2, <2>1
  <2>3. ASSUME n >= 7
        PROVE  c = Cmd("DRW_W", request.data[Before + n - 6])
    <3>1. n + 1 \in 8 .. 7 + Run /\ Before + (n + 1) - 7 = Before + n - 6
      BY <1>2, <2>2, <2>3
    <3>2. QED
      BY <1>1, <2>1, <3>1
  <2>4. n >= 7 => n \in 7 .. 6 + Run
    BY <1>2, <2>2
  <2>5. ~Reading
    BY <1>7, Kinds
  <2>6. QED
    BY <1>1, <1>2, <1>4, <2>1, <2>2, <2>3, <2>4, <2>5
<1>8. QED
  BY <1>6, <1>7, Kinds

(* Each command of the set-up does its part.                                  *)
LEMMA ReachedCommand ==
  ASSUME Fits, TInv, AInv, Listed, Reached, CommandOk
  PROVE  Reached'
<1>0. PICK n \in Nat : n = Len(replyArray)
  BY DEF TInv, Lists
<1> DEFINE c == Current
<1>1. /\ Sending /\ pc = "transfer" /\ Len(replyArray') = n + 1
      /\ UNCHANGED <<pc, call, progress, cmdArray>>
      /\ target' = Perform(target, c) /\ Ack(target, c) = 1
  BY <1>0 DEF TInv, Lists, CommandOk, Sending
<1>2. /\ Run' = Run /\ Intended' = Intended /\ request' = request
      /\ Run \in Nat /\ Intended \in Nat
  BY <1>1, RunTypes DEF Run, Intended, call, progress
<1>3. /\ c \in Commands /\ n <= 7 + Run /\ Run >= 1
      /\ n = 0 => c.reg = "IDCODE"
      /\ n = 1 => c.reg = "CTRLSTAT_R"
      /\ n = 2 => c.reg = "ABORT"
      /\ n = 3 => c.reg = "CTRLSTAT_W"
      /\ n = 4 => c.reg = "SELECT" /\ c.val = 0
      /\ n = 5 => c.reg = "CSW"
      /\ n = 6 => c.reg = "TAR" /\ c.val = Intended
      /\ n >= 7 => c.reg \in {"DRW_R", "DRW_W", "READBUF"}
      /\ n \in 7 .. 6 + Run => c.reg \in {"DRW_R", "DRW_W"}
  <2>1. n >= 7 => IF Reading
                  THEN /\ c.reg \in {"DRW_R", "READBUF"}
                       /\ n \in 7 .. 6 + Run => c.reg = "DRW_R"
                  ELSE /\ c = Cmd("DRW_W", request.data[Before + n - 6])
                       /\ n \in 7 .. 6 + Run
    BY <1>0, <1>1, CommandAt
  <2>2. \A v : Cmd("DRW_W", v).reg = "DRW_W"
    BY DEF Cmd
  <2>3. n \in 7 .. 6 + Run => n >= 7
    BY <1>2
  <2>4. /\ n >= 7 => c.reg \in {"DRW_R", "DRW_W", "READBUF"}
        /\ n \in 7 .. 6 + Run => c.reg \in {"DRW_R", "DRW_W"}
    BY <2>1, <2>2, <2>3
  <2>5. QED
    BY <1>0, <1>1, <2>4, CommandAt
<1> DEFINE u == Perform(target, c)
<1> HIDE DEF c
<1>4. target \in Targets
  BY DEF TInv, Types
<1>5. /\ u.reset = IF c.reg = "IDCODE" THEN FALSE ELSE target.reset
      /\ u.bank = IF c.reg = "SELECT" THEN c.val ELSE target.bank
      /\ u.tar = IF target.bank # 0 THEN target.tar
                 ELSE IF c.reg = "TAR" THEN c.val
                 ELSE IF c.reg \in {"DRW_R", "DRW_W"} /\ target.inc THEN Increment(target.tar)
                 ELSE target.tar
  BY <1>3, <1>4, PerformType
<1>6. /\ u.powered <=> (c.reg = "CTRLSTAT_W" \/ target.powered)
      /\ u.sticky <=> (c.reg # "ABORT" /\ (target.sticky
                         \/ (c.reg \in {"DRW_R", "DRW_W"} /\ target.bank = 0 /\ target.tar \notin Mapped)))
  BY <1>3, <1>4, PerformEffect
<1>7. /\ target.attached
      /\ target.reset => c.reg = "IDCODE"
      /\ target.sticky => c.reg \in {"IDCODE", "CTRLSTAT_R", "ABORT"}
  BY <1>1, <1>4, Acknowledged
<1>8. /\ n >= 1 => ~target.reset
      /\ n >= 4 => target.powered
      /\ n >= 5 => target.bank = 0
      /\ n \in 7 .. 6 + Run => target.tar = Intended + n - 7
      /\ n \in 3..7 => ~target.sticky
  BY <1>0, <1>1, <1>7 DEF Reached
<1> HIDE DEF u
<1>9. target' = u
  BY <1>1 DEF u
<1>10. ~u.reset
  BY <1>3, <1>5, <1>7
<1>11. n + 1 >= 4 => u.powered
  BY <1>3, <1>6, <1>8
<1>12. n + 1 >= 5 => u.bank = 0
  BY <1>3, <1>5, <1>8
<1>13. ASSUME n + 1 \in 7 .. 6 + Run
       PROVE  u.tar = Intended + (n + 1) - 7
  <2>1. CASE request.kind \in Copies
    <3>1. AInv'
      BY <1>1, CommandFollowed
    <3>2. Run = wordsTransferredThisRun
      BY <2>1 DEF Run
    <3>3. target'.attached
      BY <1>3, <1>4, <1>7, <1>1, PerformType
    <3>4. QED
      BY <1>1, <1>2, <1>9, <1>13, <2>1, <3>1, <3>2, <3>3 DEF AInv, Followed, progress
  <2>2. CASE request.kind \notin Copies
    <3>1. n = 6
      BY <1>13, <2>2 DEF Run
    <3>2. u.tar = Intended
      BY <1>3, <1>5, <1>8, <3>1
    <3>3. QED
      BY <1>2, <3>1, <3>2
  <2>3. QED
    BY <2>1, <2>2
<1>14. n + 1 \in 3..7 => ~u.sticky
  <2>1. CASE n = 2
    BY <1>3, <1>6, <2>1
  <2>2. CASE n \in 3..6
    <3>1. c.reg \notin {"DRW_R", "DRW_W"} /\ ~target.sticky
      BY <1>3, <1>8, <2>2
    <3>2. QED
      BY <1>6, <3>1
  <2>3. QED
    BY <2>1, <2>2
<1>15. ASSUME n + 1 \in 8 .. 7 + Run, u.sticky
       PROVE  Intended + (n + 1) - 8 \notin Mapped
  <2>1. n \in 7 .. 6 + Run /\ Intended + (n + 1) - 8 = Intended + n - 7
    BY <1>2, <1>15
  <2>2. c.reg \in {"DRW_R", "DRW_W"} /\ ~target.sticky
    BY <1>3, <1>7, <2>1
  <2>3. QED
    BY <1>6, <1>8, <1>15, <2>1, <2>2
<1>16. QED
  BY <1>1, <1>2, <1>9, <1>10, <1>11, <1>12, <1>13, <1>14, <1>15 DEF Reached

(* What a command does to the memory, and to the word that is read.              *)
LEMMA MemoryAfter ==
  ASSUME TInv, Listed, Reached, CommandOk, NEW n \in Nat, n = Len(replyArray)
  PROVE  /\ target.attached /\ target'.attached
         /\ Reading \/ n < 7 => target'.mem = target.mem
         /\ Writing /\ n >= 7 =>
              /\ n \in 7 .. 6 + Run
              /\ target'.mem = IF Intended + n - 7 \in Mapped
                               THEN [target.mem EXCEPT ![Intended + n - 7] = request.data[Before + n - 6]]
                               ELSE target.mem
         /\ n >= 7 => ~target.sticky
         /\ n \in 7 .. 6 + Run =>
              /\ target'.sticky <=> Intended + n - 7 \notin Mapped
              /\ Reading /\ ~target'.sticky => target'.rdbuf = target.mem[Intended + n - 7]
         /\ Reading /\ n >= 8 => Reply(target, Current) = target.rdbuf
<1> DEFINE c == Current
           u == Perform(target, c)
           a == Intended + n - 7
<1>1. /\ Sending /\ pc = "transfer" /\ target' = u /\ Ack(target, c) = 1
  BY DEF CommandOk, Sending
<1>2. /\ c \in Commands /\ n <= 7 + Run /\ Run \in Nat
      /\ n >= 7 => IF Reading
                   THEN /\ c.reg \in {"DRW_R", "READBUF"}
                        /\ n \in 7 .. 6 + Run => c.reg = "DRW_R"
                   ELSE /\ c = Cmd("DRW_W", request.data[Before + n - 6])
                        /\ n \in 7 .. 6 + Run
  BY <1>1, CommandAt, RunTypes
<1>3. n < 7 => c.reg \notin {"DRW_R", "DRW_W"}
  <2>1. /\ n = 0 => c.reg = "IDCODE"
        /\ n = 1 => c.reg = "CTRLSTAT_R"
        /\ n = 2 => c.reg = "ABORT"
        /\ n = 3 => c.reg = "CTRLSTAT_W"
        /\ n = 4 => c.reg = "SELECT"
        /\ n = 5 => c.reg = "CSW"
        /\ n = 6 => c.reg = "TAR"
    BY <1>1, CommandAt
  <2> HIDE DEF c
  <2>2. n < 7 => n \in 0..6
    BY SMTT(20)
  <2>3. QED
    BY <2>1, <2>2
<1>4. Writing /\ n >= 7 => c.reg = "DRW_W" /\ c.val = request.data[Before + n - 6]
  <2>1. Writing /\ n >= 7 => c = Cmd("DRW_W", request.data[Before + n - 6])
    BY <1>2, Kinds
  <2>2. QED
    BY <2>1 DEF Cmd
<1>5. target \in Targets
  BY DEF TInv, Types
<1> HIDE DEF c
<1>6. /\ target.attached
      /\ target.sticky => c.reg \in {"IDCODE", "CTRLSTAT_R", "ABORT"}
  BY <1>1, <1>5, Acknowledged
<1>7. /\ n >= 5 => target.bank = 0
      /\ n \in 7 .. 6 + Run => target.tar = a
  BY <1>1, <1>6 DEF Reached
<1>8. u.attached = target.attached
  BY <1>2, <1>5, PerformType
<1> DEFINE access == c.reg \in {"DRW_R", "DRW_W"} /\ target.bank = 0
<1>9. /\ u.sticky <=> (c.reg # "ABORT" /\ (target.sticky \/ (access /\ target.tar \notin Mapped)))
      /\ u.rdbuf = IF access /\ c.reg = "DRW_R" /\ target.tar \in Mapped
                   THEN target.mem[target.tar] ELSE target.rdbuf
      /\ u.mem = IF access /\ c.reg = "DRW_W" /\ target.tar \in Mapped
                 THEN [target.mem EXCEPT ![target.tar] = c.val] ELSE target.mem
  BY <1>2, <1>5, PerformEffect
<1> HIDE DEF u, a
<1>10. n >= 7 => ~target.sticky
  <2>1. n >= 7 => c.reg \in {"DRW_R", "DRW_W", "READBUF"}
    BY <1>2, <1>4, Kinds
  <2>2. QED
    BY <1>6, <2>1
<1>11. Reading \/ n < 7 => u.mem = target.mem
  BY <1>2, <1>3, <1>9
<1>12. ASSUME Writing, n >= 7
       PROVE  /\ n \in 7 .. 6 + Run
              /\ u.mem = IF a \in Mapped THEN [target.mem EXCEPT ![a] = request.data[Before + n - 6]]
                         ELSE target.mem
  <2>1. n \in 7 .. 6 + Run
    BY <1>2, <1>12, Kinds
  <2>2. access /\ c.reg = "DRW_W" /\ c.val = request.data[Before + n - 6] /\ target.tar = a
    BY <1>4, <1>7, <1>12, <2>1
  <2> HIDE DEF access
  <2>3. QED
    BY <1>9, <2>1, <2>2
<1>13. ASSUME n \in 7 .. 6 + Run
       PROVE  /\ u.sticky <=> a \notin Mapped
              /\ Reading /\ ~u.sticky => u.rdbuf = target.mem[a]
  <2>1. n >= 7 /\ n >= 5
    BY <1>2, <1>13
  <2>2. /\ access /\ target.tar = a /\ ~target.sticky
        /\ c.reg # "ABORT" /\ (Reading => c.reg = "DRW_R")
    BY <1>2, <1>4, <1>7, <1>10, <1>13, <2>1, Kinds
  <2> HIDE DEF access
  <2>3. QED
    BY <1>9, <2>2
<1>14. Reading /\ n >= 8 => Reply(target, c) = target.rdbuf
  <2>1. n >= 8 => n >= 7
    OBVIOUS
  <2>2. QED
    BY <1>2, <2>1 DEF Reply
<1>15. QED
  BY <1>1, <1>6, <1>8, <1>10, <1>11, <1>12, <1>13, <1>14 DEF a, c

(* Nobody but an absent target leaves a command unanswered. *)
LEMMA UnansweredAlone ==
  ASSUME TInv, Listed, Reached, CommandUnanswered
  PROVE  ~target.attached
<1>1. PICK n \in Nat : n = Len(replyArray)
  BY DEF TInv, Lists
<1>2. Sending /\ pc = "transfer" /\ Ack(target, Current) = 0
  BY DEF CommandUnanswered, Sending
<1>3. SUFFICES ASSUME target.attached PROVE FALSE
  OBVIOUS
<1>4. target.reset /\ Current.reg # "IDCODE"
  BY <1>2, <1>3 DEF Ack
<1>5. n = 0
  BY <1>1, <1>2, <1>3, <1>4 DEF Reached
<1>6. QED
  BY <1>1, <1>2, <1>4, <1>5, CommandAt

LEMMA ReachedNext ==
  ASSUME Fits, TInv, AInv, Listed, Reached, [Next]_vars
  PROVE  Reached'
<1>1. SUFFICES ASSUME pc' = "transfer", target'.attached PROVE Reached'
  BY DEF Reached
<1>2. CASE PrepareRead \/ PrepareWrite \/ PrepareWord
  <2>1. Len(replyArray') = 0
    BY <1>2, TransferStarts
  <2>2. Run' \in Nat
    BY <1>2, TransferStarts
  <2>3. QED
    BY <2>1, <2>2 DEF Reached
<1>3. CASE CommandOk
  BY <1>3, ReachedCommand
<1>4. CASE CommandUnanswered
  <2>1. target' = target
    BY <1>4 DEF CommandUnanswered
  <2>2. QED
    BY <1>1, <1>4, <2>1, UnansweredAlone
<1>5. CASE Detach
  BY <1>1, <1>5 DEF Detach, Fresh
<1>6. CASE pc = "transfer" /\ UNCHANGED <<call, progress, cmdArray>> /\ UNCHANGED <<replyArray, target>>
  BY <1>6 DEF Reached, Run, Intended, call, progress
<1>7. QED
  BY <1>1, <1>2, <1>3, <1>4, <1>5, <1>6, InTransfer

LEMMA ArrivedNext ==
  ASSUME TInv, Listed, Reached, Arrived, [Next]_vars
  PROVE  Arrived'
<1>1. SUFFICES ASSUME pc' = "transfer", Reading' PROVE Arrived'
  BY DEF Arrived
<1>2. CASE PrepareRead \/ PrepareWrite \/ PrepareWord
  <2>1. Len(replyArray') = 0
    BY <1>2, TransferStarts
  <2>2. Run' \in Nat
    BY <1>2, TransferStarts
  <2>3. QED
    BY <2>1, <2>2 DEF Arrived
<1>3. CASE pc = "transfer" /\ UNCHANGED <<call, progress, cmdArray>>
  <2>1. PICK n \in Nat : n = Len(replyArray)
    BY DEF TInv, Lists
  <2>2. /\ Run' = Run /\ Intended' = Intended /\ request' = request /\ Reading
        /\ Run \in Nat /\ Intended \in Nat
    BY <1>1, <1>3, RunTypes DEF Run, Intended, Reading, call, progress
  <2>3. /\ \A j \in 1 .. Run : 8 + j <= n => Genuine(replyArray[8 + j], Intended + j - 1)
        /\ target.attached /\ ~target.sticky /\ n \in 8 .. 7 + Run =>
             Genuine(target.rdbuf, Intended + n - 8)
    BY <1>3, <2>1, <2>2 DEF Arrived
  <2>4. CASE CommandOk
    <3>1. /\ target.attached /\ target'.attached /\ target'.mem = target.mem
          /\ n >= 7 => ~target.sticky
          /\ n \in 7 .. 6 + Run =>
               /\ target'.sticky <=> Intended + n - 7 \notin Mapped
               /\ ~target'.sticky => target'.rdbuf = target.mem[Intended + n - 7]
          /\ n >= 8 => Reply(target, Current) = target.rdbuf
      BY <2>1, <2>2, <2>4, MemoryAfter
    <3>2. /\ replyArray' = Append(replyArray, Reply(target, Current))
          /\ replyArray \in Seq(Word) /\ Sending
      BY <2>4 DEF CommandOk, TInv, Lists
    <3>3. /\ Len(replyArray') = n + 1
          /\ \A k \in 1..n : replyArray'[k] = replyArray[k]
          /\ replyArray'[n + 1] = Reply(target, Current)
      BY <2>1, <3>2
    <3>4. ASSUME NEW j \in 1 .. Run, 8 + j <= n + 1
          PROVE  Genuine(replyArray[8 + j], Intended + j - 1)'
      <4>1. CASE 8 + j <= n
        <5>1. Genuine(replyArray[8 + j], Intended + j - 1) /\ replyArray'[8 + j] = replyArray[8 + j]
          BY <2>3, <3>3, <4>1
        <5>2. QED
          BY <2>2, <3>1, <5>1 DEF Genuine
      <4>2. CASE 8 + j = n + 1
        <5>1. n \in 8 .. 7 + Run /\ n >= 7 /\ n >= 8
          BY <2>2, <4>2
        <5>2. Genuine(target.rdbuf, Intended + n - 8)
          BY <2>3, <3>1, <5>1
        <5>3. replyArray'[8 + j] = target.rdbuf /\ Intended + n - 8 = Intended + j - 1
          BY <2>2, <3>1, <3>3, <4>2, <5>1
        <5>4. QED
          BY <2>2, <3>1, <5>2, <5>3 DEF Genuine
      <4>3. QED
        BY <3>4, <4>1, <4>2
    <3>5. ASSUME ~target'.sticky, n + 1 \in 8 .. 7 + Run
          PROVE  Genuine(target.rdbuf, Intended + (n + 1) - 8)'
      <4>1. n \in 7 .. 6 + Run /\ Intended + (n + 1) - 8 = Intended + n - 7
        BY <2>2, <3>5
      <4>2. Intended + n - 7 \in Mapped /\ target'.rdbuf = target'.mem[Intended + n - 7]
        BY <3>1, <3>5, <4>1
      <4>3. QED
        BY <2>2, <4>1, <4>2 DEF Genuine
    <3>6. QED
      BY <2>2, <3>3, <3>4, <3>5 DEF Arrived
  <2>5. CASE CommandUnanswered
    <3>1. ~target.attached /\ target' = target
      BY <2>5, UnansweredAlone DEF CommandUnanswered
    <3>2. replyArray' = Append(replyArray, 0) /\ replyArray \in Seq(Word)
      BY <2>5 DEF CommandUnanswered, TInv, Lists
    <3>3. /\ Len(replyArray') = n + 1
          /\ \A k \in 1..n : replyArray'[k] = replyArray[k]
          /\ replyArray'[n + 1] = 0
      BY <2>1, <3>2
    <3>4. ASSUME NEW j \in 1 .. Run, 8 + j <= n + 1
          PROVE  Genuine(replyArray[8 + j], Intended + j - 1)'
      <4>1. CASE 8 + j <= n
        <5>1. Genuine(replyArray[8 + j], Intended + j - 1) /\ replyArray'[8 + j] = replyArray[8 + j]
          BY <2>3, <3>3, <4>1
        <5>2. QED
          BY <2>2, <3>1, <5>1 DEF Genuine
      <4>2. CASE 8 + j = n + 1
        BY <3>1, <3>3, <4>2 DEF Genuine
      <4>3. QED
        BY <3>4, <4>1, <4>2
    <3>5. QED
      BY <2>2, <3>1, <3>3, <3>4 DEF Arrived
  <2>6. CASE Detach
    <3>1. /\ ~target'.attached /\ target.attached /\ target'.mem = target.mem
          /\ replyArray' = replyArray
      BY <2>6 DEF Detach, Fresh, transfer
    <3>2. ASSUME NEW j \in 1 .. Run, 8 + j <= n
          PROVE  Genuine(replyArray[8 + j], Intended + j - 1)'
      <4>1. Genuine(replyArray[8 + j], Intended + j - 1)
        BY <2>3, <3>2
      <4>2. QED
        BY <2>2, <3>1, <4>1 DEF Genuine
    <3>3. QED
      BY <2>1, <2>2, <3>1, <3>2 DEF Arrived
  <2>7. CASE UNCHANGED <<replyArray, target>>
    BY <1>3, <2>2, <2>7 DEF Arrived, Genuine
  <2>8. QED
    BY <1>1, <1>2, <2>4, <2>5, <2>6, <2>7, InTransfer
<1>4. QED
  BY <1>1, <1>2, <1>3, InTransfer

(* Only a command of a write changes the memory; nobody is plugged in again.     *)
LEMMA MemoryStays ==
  ASSUME TInv, Listed, Reached, [Next]_vars
  PROVE  /\ (CommandOk /\ Writing) \/ target'.mem = target.mem
         /\ target'.attached => target.attached
<1>0. target \in Targets
  BY DEF TInv, Types
<1>1. CASE \E r \in Requests : Call(r)
  BY <1>1 DEF Call
<1>2. CASE PrepareRead \/ PrepareWrite \/ PrepareWord
  <2>1. target' = [target EXCEPT !.reset = TRUE]
    BY <1>2, TransferStarts
  <2>2. QED
    BY <1>0, <2>1 DEF Targets
<1>3. CASE CommandOk
  <2>1. PICK n \in Nat : n = Len(replyArray)
    BY DEF TInv, Lists
  <2>2. QED
    BY <1>3, <2>1, MemoryAfter, Kinds
<1>4. CASE \/ DumpOpens \/ StoreWords \/ GoOnWriting \/ CommandUnanswered
           \/ RemoveFile \/ UNCHANGED vars
  BY <1>4 DEF DumpOpens, StoreWords, GoOnWriting, CommandUnanswered, RemoveFile, vars
<1>5. CASE \/ DumpRefused \/ RefuseUnaligned \/ DeviceBusy \/ CommandFault \/ CommandWaits
           \/ ReturnWord \/ WriteReturns \/ FetchReturns \/ PrintReturns \/ DumpReturns
  BY <1>5, ReturnsLeave
<1>6. CASE Detach
  BY <1>6 DEF Detach, Fresh
<1>7. QED
  BY <1>1, <1>2, <1>3, <1>4, <1>5, <1>6 DEF Next, Running

LEMMA DataStays ==
  ASSUME TInv, [Next]_vars, pc' # "idle"
  PROVE  \/ \E r \in Requests : Call(r)
         \/ StoreWords
         \/ UNCHANGED <<wordsStored, dataArray>>
<1>1. CASE PrepareRead \/ PrepareWrite \/ PrepareWord
  BY <1>1, TransferStarts
<1>2. CASE DumpOpens \/ CommandOk \/ CommandUnanswered \/ GoOnWriting
  BY <1>2 DEF DumpOpens, CommandOk, CommandUnanswered, GoOnWriting, progress
<1>3. CASE \/ DumpRefused \/ RefuseUnaligned \/ DeviceBusy \/ CommandFault \/ CommandWaits
           \/ ReturnWord \/ WriteReturns \/ FetchReturns \/ PrintReturns \/ DumpReturns
  BY <1>3 DEF DumpRefused, RefuseUnaligned, DeviceBusy, CommandFault, CommandWaits, Abandon, ReturnWord,
              WriteReturns, FetchReturns, PrintReturns, DumpReturns, Leave
<1>4. CASE Detach \/ RemoveFile \/ UNCHANGED vars
  BY <1>4 DEF Detach, RemoveFile, vars, progress
<1>5. QED
  BY <1>1, <1>2, <1>3, <1>4 DEF Next, Running

(* What stmReadAligned() puts into its array is what has arrived. *)
LEMMA StoreGathers ==
  ASSUME TInv, Listed, Arrived, Gathered, StoreWords
  PROVE  Gathered'
<1>1. /\ pc = "transfer" /\ Len(replyArray) = Len(cmdArray) /\ request.kind \in Reads
      /\ UNCHANGED <<call, target>>
      /\ wordsStored' = wordsStored + wordsTransferredThisRun
      /\ dataArray' = [k \in DOMAIN dataArray |->
                         IF k - wordsStored \in 1 .. wordsTransferredThisRun
                         THEN comArrayRead(startIndex + k - wordsStored - 1) ELSE dataArray[k]]
  BY DEF StoreWords, Transferred
<1>2. PICK s \in Nat, m \in Nat, b \in Nat :
        /\ s = wordsStored /\ m = wordsTransferredThisRun /\ b = baseAddr \div 4
        /\ s + m <= wordCount /\ wordCount \in Nat
  <2>1. wordsTransferred = wordsStored + wordsTransferredThisRun
    BY <1>1 DEF TInv, Types, Progress
  <2>2. QED
    BY <2>1 DEF TInv, Types
<1>3. Reading /\ Run = m /\ Intended = b + s
  <2>1. Reading /\ request.kind \in Copies
    BY <1>1 DEF Reading, Copies
  <2>2. Intended = b + s
    BY <1>1, <1>2 DEF Intended, Reads
  <2>3. QED
    BY <1>2, <2>1, <2>2 DEF Run
<1>4. Len(replyArray) = 8 + m /\ Len(cmdArray) = 8 + m
  BY <1>1, <1>3 DEF Listed
<1>5. \A j \in 1 .. m : 8 + j <= 8 + m => Genuine(replyArray[8 + j], b + s + j - 1)
  BY <1>1, <1>3, <1>4 DEF Arrived
<1>6. DOMAIN dataArray = 1 .. wordCount
  BY <1>1 DEF TInv, Types
<1>7. /\ baseAddr' \div 4 = b /\ request' = request
      /\ \A k \in 1 .. s : Genuine(dataArray[k], b + k - 1)
  BY <1>1, <1>2 DEF Gathered, call
<1>8. ASSUME NEW k \in 1 .. s + m
      PROVE  Genuine(dataArray[k], b + k - 1)'
  <2>1. k \in DOMAIN dataArray
    BY <1>2, <1>6
  <2>2. CASE k <= s
    <3>1. k - s \notin 1 .. m
      BY <2>2
    <3>2. dataArray'[k] = dataArray[k]
      BY <1>1, <1>2, <2>1, <3>1
    <3>3. Genuine(dataArray[k], b + k - 1)
      BY <1>7, <2>2
    <3>4. QED
      BY <1>1, <3>2, <3>3 DEF Genuine
  <2>3. CASE k > s
    <3>1. PICK j \in 1 .. m : j = k - s
      BY <2>3
    <3>2. dataArray'[k] = comArrayRead(startIndex + k - s - 1)
      BY <1>1, <1>2, <2>1, <3>1
    <3>3. startIndex + k - s - 1 = 7 + j /\ 7 + j < 8 + m
      BY <3>1 DEF startIndex
    <3>4. dataArray'[k] = replyArray[7 + j + 1]
      BY <1>4, <3>2, <3>3 DEF comArrayRead
    <3>5. 7 + j + 1 = 8 + j /\ b + s + j - 1 = b + k - 1 /\ 8 + j <= 8 + m
      BY <3>1
    <3>6. Genuine(replyArray[8 + j], b + s + j - 1)
      BY <1>5, <3>5
    <3>7. QED
      BY <1>1, <3>4, <3>5, <3>6 DEF Genuine
  <2>4. QED
    BY <2>2, <2>3
<1>9. QED
  BY <1>1, <1>2, <1>7, <1>8 DEF Gathered

LEMMA GatheredNext ==
  ASSUME TInv, Begun, Listed, Reached, Arrived, Gathered, [Next]_vars
  PROVE  Gathered'
<1>1. SUFFICES ASSUME pc' # "idle", request'.kind \in Reads PROVE Gathered'
  BY DEF Gathered
<1>2. CASE \E r \in Requests : Call(r)
  <2>1. wordsStored' = 0
    BY <1>2 DEF Call, TInv, Progress
  <2>2. QED
    BY <2>1 DEF Gathered
<1>3. CASE StoreWords
  BY <1>3, StoreGathers
<1>4. CASE pc # "idle" /\ UNCHANGED call /\ UNCHANGED <<wordsStored, dataArray>>
  <2>1. request' = request /\ baseAddr' = baseAddr /\ ~Writing
    BY <1>1, <1>4 DEF call, Writing, Reads
  <2>2. target'.mem = target.mem /\ (target'.attached => target.attached)
    BY <2>1, MemoryStays
  <2>3. \A k \in 1 .. wordsStored : Genuine(dataArray[k], (baseAddr \div 4) + k - 1)
    BY <1>1, <1>4, <2>1 DEF Gathered
  <2>4. ASSUME NEW k \in 1 .. wordsStored
        PROVE  Genuine(dataArray[k], (baseAddr \div 4) + k - 1)'
    <3>1. Genuine(dataArray[k], (baseAddr \div 4) + k - 1)
      BY <2>3
    <3>2. QED
      BY <1>4, <2>1, <2>2, <3>1 DEF Genuine
  <2>5. QED
    BY <1>4, <2>1, <2>4 DEF Gathered
<1>5. QED
  BY <1>1, <1>2, <1>3, <1>4, GoesOn, DataStays

LEMMA LandedNext ==
  ASSUME TInv, Listed, Reached, Landed, [Next]_vars
  PROVE  Landed'
<1>1. SUFFICES ASSUME pc' = "transfer", Writing', target'.attached PROVE Landed'
  BY DEF Landed
<1>2. CASE PrepareRead \/ PrepareWrite \/ PrepareWord
  <2>1. Len(replyArray') = 0
    BY <1>2, TransferStarts
  <2>2. Run' \in Nat
    BY <1>2, TransferStarts
  <2>3. QED
    BY <2>1, <2>2 DEF Landed
<1>3. CASE pc = "transfer" /\ UNCHANGED <<call, progress, cmdArray>>
  <2>1. PICK n \in Nat : n = Len(replyArray)
    BY DEF TInv, Lists
  <2>2. /\ Run' = Run /\ Before' = Before /\ request' = request /\ baseAddr' = baseAddr /\ Writing
        /\ Run \in Nat /\ Before \in Nat /\ baseAddr \div 4 \in Nat
        /\ Intended = (baseAddr \div 4) + Before
    BY <1>1, <1>3, RunTypes DEF Run, Before, Writing, call, progress
  <2>3. CASE CommandOk
    <3>1. PICK i \in Nat, a \in Nat : i = Intended /\ (n >= 7 => a = i + n - 7)
      <4>1. n >= 7 => Intended + n - 7 \in Nat
        BY <2>2
      <4>2. QED
        BY <2>2, <4>1
    <3>2. /\ target.attached
          /\ n >= 7 =>
               /\ n \in 7 .. 6 + Run /\ ~target.sticky
               /\ target'.mem = IF a \in Mapped
                                THEN [target.mem EXCEPT ![a] = request.data[Before + n - 6]]
                                ELSE target.mem
               /\ target'.sticky <=> a \notin Mapped
      BY <2>1, <2>2, <2>3, <3>1, MemoryAfter
    <3>3. Len(replyArray') = n + 1
      BY <2>1, <2>3 DEF CommandOk, TInv, Lists
    <3>4. DOMAIN target.mem = Addrs
      BY DEF TInv, Types, Targets
    <3>5. \A j \in 1 .. Run : j <= n - 7 => There(Before + j - 1) \/ (j = n - 7 /\ target.sticky)
      BY <1>3, <2>1, <2>2, <3>2 DEF Landed
    <3>6. ASSUME NEW j \in 1 .. Run, j <= (n + 1) - 7
          PROVE  There(Before + j - 1)' \/ (j = (n + 1) - 7 /\ target'.sticky)
      <4>1. n >= 7
        BY <3>6
      <4>2. CASE j <= n - 7
        <5>1. There(Before + j - 1)
          BY <3>2, <3>5, <4>1, <4>2
        <5>2. (baseAddr \div 4) + (Before + j - 1) # a
          BY <2>2, <3>1, <4>1, <4>2
        <5>3. target'.mem[(baseAddr \div 4) + (Before + j - 1)] = target.mem[(baseAddr \div 4) + (Before + j - 1)]
          BY <3>2, <3>4, <4>1, <5>1, <5>2, MemoryAssumption DEF There
        <5>4. QED
          BY <2>2, <5>1, <5>3 DEF There
      <4>3. CASE j = n - 6
        <5>1. CASE a \in Mapped
          <6>1. a \in DOMAIN target.mem
            BY <3>4, <5>1, MemoryAssumption
          <6>2. target'.mem[a] = request.data[Before + n - 6]
            BY <3>2, <4>1, <5>1, <6>1
          <6>3. /\ (baseAddr \div 4) + (Before + j - 1) = a
                /\ Before + j - 1 + 1 = Before + n - 6
            BY <2>2, <3>1, <4>1, <4>3
          <6>4. QED
            BY <2>2, <5>1, <6>2, <6>3 DEF There
        <5>2. CASE a \notin Mapped
          BY <3>2, <4>1, <4>3, <5>2
        <5>3. QED
          BY <5>1, <5>2
      <4>4. QED
        BY <3>6, <4>2, <4>3
    <3>7. QED
      BY <2>2, <3>3, <3>6 DEF Landed
  <2>4. CASE CommandUnanswered
    <3>1. target' = target
      BY <2>4 DEF CommandUnanswered
    <3>2. QED
      BY <1>1, <2>4, <3>1, UnansweredAlone
  <2>5. CASE Detach
    BY <1>1, <2>5 DEF Detach, Fresh
  <2>6. CASE UNCHANGED <<replyArray, target>>
    BY <1>3, <2>2, <2>6 DEF Landed, There
  <2>7. QED
    BY <1>1, <1>2, <2>3, <2>4, <2>5, <2>6, InTransfer
<1>4. QED
  BY <1>1, <1>2, <1>3, InTransfer

(* A transfer that is over has stored all of its words but perhaps the last.     *)
LEMMA RunSettles ==
  ASSUME TInv, AInv, Listed, Reached, Landed, Settled, Begun, GoOnWriting, target.attached
  PROVE  Settled'
<1>1. /\ pc = "transfer" /\ pc' = "prepare" /\ Len(replyArray) = Len(cmdArray)
      /\ request.kind = "write" /\ UNCHANGED <<call, progress, target>>
  BY DEF GoOnWriting, Transferred
<1>2. Writing /\ Run = wordsTransferredThisRun /\ Before = wordsTransferred - wordsTransferredThisRun
  BY <1>1 DEF Writing, Run, Before, Copies
<1>3. PICK b \in Nat, d \in Nat, m \in Nat, t \in Nat :
        /\ b = baseAddr \div 4 /\ d = Before /\ m = Run /\ t = wordsTransferred
        /\ t = d + m /\ m >= 1 /\ Intended = b + d /\ Len(replyArray) = 7 + m
  <2>1. wordsTransferred \in Nat /\ wordsTransferred = Before + Run
    BY <1>2, RunTypes DEF TInv, Types
  <2>2. Run >= 1 /\ Len(cmdArray) = 7 + Run
    BY <1>1, <1>2 DEF Listed
  <2>3. QED
    BY <1>1, <1>2, <2>1, <2>2, RunTypes
<1>4. \A j \in 1 .. m : There(d + j - 1) \/ (j = m /\ target.sticky)
  <2>1. \A j \in 1 .. Run : j <= Len(replyArray) - 7 =>
          There(Before + j - 1) \/ (j = Len(replyArray) - 7 /\ target.sticky)
    BY <1>1, <1>2 DEF Landed
  <2>2. Len(replyArray) - 7 = m /\ (\A j \in 1 .. m : j <= m)
    BY <1>3
  <2>3. QED
    BY <1>3, <2>1, <2>2
<1>5. target.sticky => b + (t - 1) \notin Mapped
  <2>1. 7 + m \in 8 .. 7 + m /\ (b + d) + (7 + m) - 8 = b + (t - 1)
    BY <1>3
  <2>2. QED
    BY <1>1, <1>3, <2>1 DEF Reached
<1>6. t = request.count \/ t % Chunk = 0
  <2>1. wordCount = request.count /\ t <= wordCount /\ wordCount \in Nat
    BY <1>1, <1>3 DEF Begun, TInv, Types, Reads
  <2>2. ASSUME t < wordCount
        PROVE  t % Chunk = 0
    <3>1. PICK q \in Nat : t = q * Chunk
      BY <1>3, <2>2 DEF AInv, Aligned, Multiple
    <3>2. q * Chunk \in Nat /\ 0 \in 0 .. Chunk - 1
      OBVIOUS
    <3>3. (q * Chunk + 0) % Chunk = 0
      BY <3>2, DivMod
    <3>4. QED
      BY <3>1, <3>2, <3>3
  <2>3. QED
    BY <2>1, <2>2
<1>7. /\ request' = request /\ baseAddr' \div 4 = b /\ wordsTransferred' = t /\ target' = target
  BY <1>1, <1>3 DEF call, progress
<1>8. \A k \in 0 .. d - 1 :
        \/ There(k)
        \/ b + k \notin Mapped /\ (k = request.count - 1 \/ (k + 1) % Chunk = 0)
  BY <1>1, <1>3 DEF Settled
<1>9. ASSUME NEW k \in 0 .. t - 1
      PROVE  \/ There(k)
             \/ b + k \notin Mapped /\ (k = request.count - 1 \/ (k + 1) % Chunk = 0)
  <2>1. CASE k < d
    BY <1>8, <2>1
  <2>2. CASE k >= d
    <3>1. PICK j \in 1 .. m : j = k - d + 1
      BY <1>3, <2>2
    <3>2. d + j - 1 = k /\ (j = m => k = t - 1 /\ k + 1 = t)
      BY <1>3, <3>1
    <3>3. There(k) \/ (j = m /\ target.sticky)
      BY <1>4, <3>2
    <3>4. QED
      BY <1>3, <1>5, <1>6, <3>2, <3>3
  <2>3. QED
    BY <2>1, <2>2
<1>10. QED
  BY <1>1, <1>3, <1>7, <1>9 DEF Settled, There

(* Between two calls of the driver, a call of a write goes on like this. *)
LEMMA WriteGoesOn ==
  ASSUME TInv, Begun, [Next]_vars, pc # "idle", pc' # "idle", pc' # "transfer",
         request.kind = "write"
  PROVE  \/ GoOnWriting
         \/ pc = "prepare" /\ UNCHANGED <<pc, call, wordsTransferred>>
<1>1. pc # "open"
  BY DEF Begun
<1>2. CASE (\E r \in Requests : Call(r)) \/ DumpOpens \/ StoreWords \/ RemoveFile
  BY <1>1, <1>2 DEF Call, DumpOpens, StoreWords, RemoveFile, Reads
<1>3. CASE PrepareRead \/ PrepareWrite \/ PrepareWord
  BY <1>3 DEF PrepareRead, PrepareWrite, PrepareWord, NextRun, Send
<1>4. CASE CommandOk \/ CommandUnanswered
  BY <1>4 DEF CommandOk, CommandUnanswered, Sending
<1>5. CASE \/ DumpRefused \/ RefuseUnaligned \/ DeviceBusy \/ CommandFault \/ CommandWaits
           \/ ReturnWord \/ WriteReturns \/ FetchReturns \/ PrintReturns \/ DumpReturns
  BY <1>5 DEF DumpRefused, RefuseUnaligned, DeviceBusy, CommandFault, CommandWaits, Abandon, ReturnWord,
              WriteReturns, FetchReturns, PrintReturns, DumpReturns, Leave
<1>6. CASE Detach \/ UNCHANGED vars
  BY <1>1, <1>6 DEF Detach, vars, progress, TInv, Types
<1>7. QED
  BY <1>2, <1>3, <1>4, <1>5, <1>6 DEF Next, Running

LEMMA SettledNext ==
  ASSUME TInv, AInv, Begun, Listed, Reached, Landed, Settled, [Next]_vars
  PROVE  Settled'
<1>1. SUFFICES ASSUME pc' # "idle", request'.kind = "write", target'.attached PROVE Settled'
  BY DEF Settled
<1>2. target.attached
  BY <1>1, MemoryStays
<1>3. CASE \E r \in Requests : Call(r)
  <2>1. wordsTransferred' = 0 /\ pc' # "transfer"
    BY <1>3 DEF Call, TInv, Progress
  <2>2. QED
    BY <2>1 DEF Settled
<1>4. CASE pc # "idle" /\ UNCHANGED call
  <2>1. request' = request /\ baseAddr' = baseAddr /\ request.kind = "write" /\ Writing
    BY <1>1, <1>4 DEF call, Writing
  <2>2. PICK d : /\ d = IF pc = "transfer" THEN Before ELSE wordsTransferred
                 /\ d \in Nat
    BY RunTypes DEF TInv, Types
  <2>3. \A k \in 0 .. d - 1 :
          \/ There(k)
          \/ (baseAddr \div 4) + k \notin Mapped /\ (k = request.count - 1 \/ (k + 1) % Chunk = 0)
    BY <1>2, <1>4, <2>1, <2>2 DEF Settled
  <2>4. ASSUME d = (IF pc = "transfer" THEN Before ELSE wordsTransferred)',
               \A k \in 0 .. d - 1 : There(k) => There(k)'
        PROVE  Settled'
    <3>1. ASSUME NEW k \in 0 .. d - 1
          PROVE  \/ There(k)'
                 \/ (baseAddr' \div 4) + k \notin Mapped /\ (k = request'.count - 1 \/ (k + 1) % Chunk = 0)
      BY <2>1, <2>3, <2>4
    <3>2. QED
      BY <2>4, <3>1 DEF Settled
  <2>5. CASE pc' = "transfer"
    <3>1. CASE PrepareRead \/ PrepareWord
      BY <2>1, <3>1 DEF PrepareRead, PrepareWord, Reads
    <3>2. CASE PrepareWrite
      <4>1. pc = "prepare" /\ Before' = wordsTransferred /\ pc' = "transfer"
        BY <2>1, <3>2, TransferStarts
      <4>2. ~CommandOk
        BY <4>1 DEF CommandOk, Sending
      <4>3. target'.mem = target.mem
        BY <4>2, MemoryStays
      <4>4. \A k \in 0 .. d - 1 : There(k) => There(k)'
        BY <2>1, <4>3 DEF There
      <4>5. QED
        BY <2>2, <2>4, <4>1, <4>4
    <3>3. CASE pc = "transfer" /\ UNCHANGED <<call, progress, cmdArray>>
      <4>1. Before' = Before
        BY <2>1, <3>3 DEF Before, progress
      <4>2. CASE ~CommandOk
        <5>1. target'.mem = target.mem
          BY <4>2, MemoryStays
        <5>2. \A k \in 0 .. d - 1 : There(k) => There(k)'
          BY <2>1, <5>1 DEF There
        <5>3. QED
          BY <2>2, <2>4, <2>5, <3>3, <4>1, <5>2
      <4>3. CASE CommandOk
        <5>1. PICK n \in Nat : n = Len(replyArray)
          BY DEF TInv, Lists
        <5>2. CASE n < 7
          <6>1. target'.mem = target.mem
            BY <4>3, <5>1, <5>2, MemoryAfter
          <6>2. \A k \in 0 .. d - 1 : There(k) => There(k)'
            BY <2>1, <6>1 DEF There
          <6>3. QED
            BY <2>2, <2>4, <2>5, <3>3, <4>1, <6>2
        <5>3. CASE n >= 7
          <6>1. PICK b \in Nat, a \in Nat :
                  b = baseAddr \div 4 /\ a = b + d + n - 7 /\ a = Intended + n - 7
            BY <2>1, <2>2, <3>3, <5>3, RunTypes
          <6>2. target'.mem = IF a \in Mapped
                              THEN [target.mem EXCEPT ![a] = request.data[Before + n - 6]]
                              ELSE target.mem
            BY <2>1, <4>3, <5>1, <5>3, <6>1, MemoryAfter
          <6>3. DOMAIN target.mem = Addrs
            BY DEF TInv, Types, Targets
          <6>4. ASSUME NEW k \in 0 .. d - 1, There(k)
                PROVE  There(k)'
            <7>1. b + k # a /\ b + k \in Mapped /\ target.mem[b + k] = request.data[k + 1]
              BY <2>2, <5>3, <6>1, <6>4 DEF There
            <7>2. target'.mem[b + k] = target.mem[b + k]
              BY <6>2, <6>3, <7>1, MemoryAssumption
            <7>3. QED
              BY <2>1, <6>1, <7>1, <7>2 DEF There
          <6>5. QED
            BY <2>2, <2>4, <2>5, <3>3, <4>1, <6>4
        <5>4. QED
          BY <5>2, <5>3
      <4>4. QED
        BY <4>2, <4>3
    <3>4. QED
      BY <2>5, <3>1, <3>2, <3>3, InTransfer
  <2>6. CASE pc' # "transfer"
    <3>1. CASE GoOnWriting
      BY <1>2, <3>1, RunSettles
    <3>2. CASE pc = "prepare" /\ UNCHANGED <<pc, call, wordsTransferred>>
      <4>1. ~CommandOk
        BY <3>2 DEF CommandOk, Sending
      <4>2. target'.mem = target.mem
        BY <4>1, MemoryStays
      <4>3. \A k \in 0 .. d - 1 : There(k) => There(k)'
        BY <2>1, <4>2 DEF There
      <4>4. QED
        BY <2>2, <2>4, <3>2, <4>3
    <3>3. QED
      BY <1>1, <1>4, <2>1, <2>6, <3>1, <3>2, WriteGoesOn
  <2>7. QED
    BY <2>5, <2>6
<1>5. QED
  BY <1>1, <1>3, <1>4, GoesOn

(* The parts hold together. *)
LEMMA CInvInit == Init => CInv
BY DEF Init, CInv, Begun, Listed, Reached, Arrived, Gathered, Landed, Settled

LEMMA CInvNext ==
  ASSUME Fits, TInv, AInv, CInv, [Next]_vars
  PROVE  CInv'
<1>1. Begun /\ Listed /\ Reached /\ Arrived /\ Gathered /\ Landed /\ Settled
  BY DEF CInv
<1>2. Begun' /\ Listed' /\ Reached' /\ Arrived'
  BY <1>1, BegunNext, ListedNext, ReachedNext, ArrivedNext
<1>3. Gathered' /\ Landed' /\ Settled'
  BY <1>1, GatheredNext, LandedNext, SettledNext
<1>4. QED
  BY <1>2, <1>3 DEF CInv

(* The initial states of the memory functions are initial states of MemCopy.  *)
LEMMA CopyInit == Init => Copy!Init
<1> SUFFICES ASSUME Init PROVE Copy!Init
  OBVIOUS
<1>1. PICK m \in Memories : target \in {Fresh(m), LeftByAnother(m)}
  BY DEF Init
<1>2. target.attached = TRUE /\ target.mem = m
  <2>1. Fresh(m).attached = TRUE /\ Fresh(m).mem = m
    BY DEF Fresh
  <2>2. LeftByAnother(m).attached = TRUE /\ LeftByAnother(m).mem = m
    BY DEF Fresh, LeftByAnother
  <2>3. QED
    BY <1>1, <2>1, <2>2
<1>3. m \in [Addrs -> Word]
  BY MemoriesAssumption
<1>4. request \in Requests
  BY RequestsAssumption DEF Init
<1>5. /\ (pc # "idle") = FALSE /\ (request.kind = "dump" /\ pc \in {"prepare", "transfer"}) = FALSE
      /\ (reply # 0 /\ request.kind \notin {"peek", "poke"}) = FALSE
  BY DEF Init
<1>6. file = NoFile /\ words = <<>>
  BY DEF Init
<1>7. QED
  BY <1>2, <1>3, <1>4, <1>5, <1>6 DEF Copy!Init

LEMMA CopyCall ==
  ASSUME NEW r \in Requests, Call(r)
  PROVE  Copy!Call(r)
BY DEF Call, Copy!Call

(* Everything that the promise does not see. *)
LEMMA Stutters ==
  ASSUME UNCHANGED <<request, words, reply, file>>,
         target'.mem = target.mem, target'.attached = target.attached,
         pc' = pc \/ (pc \in {"prepare", "transfer"} /\ pc' \in {"prepare", "transfer"})
  PROVE  UNCHANGED Copy!vars
BY DEF Copy!vars

LEMMA CurrentType == TInv /\ Sending => Current \in Commands
BY DEF TInv, Lists, Sending, Current

(* A command of a write stores at most its own word. *)
LEMMA CopyStore ==
  ASSUME TInv, CInv, CommandOk, Writing
  PROVE  Copy!Store
<1>1. PICK n \in Nat : n = Len(replyArray)
  BY DEF TInv, Lists
<1>2. /\ pc = "transfer" /\ UNCHANGED <<pc, call, result, file>>
      /\ target' = Perform(target, Current) /\ Sending
  BY DEF CommandOk, Sending
<1>3. target'.mem \in [Addrs -> Word]
  <2>1. target' \in Targets
    BY CommandKeeps DEF TInv, Types
  <2>2. QED
    BY <2>1 DEF Targets
<1>4. target'.attached = target.attached
  BY <1>2, CurrentType, PerformType DEF TInv, Types
<1>5. target'.mem = target.mem \/ \E k \in 0 .. request.count - 1 :
        LET a == Copy!Place(request, k) IN
        a \in Addrs /\ target'.mem = [target.mem EXCEPT ![a] = request.data[k + 1]]
  <2>1. CASE n < 7
    BY <1>1, <2>1, MemoryAfter DEF CInv
  <2>2. CASE n >= 7
    <3>1. PICK k \in Nat, b \in Nat :
            /\ k = Before + n - 7 /\ b = baseAddr \div 4 /\ Intended + n - 7 = b + k
            /\ n \in 7 .. 6 + Run
      <4>1. n \in 7 .. 6 + Run
        BY <1>1, <2>2, MemoryAfter DEF CInv
      <4>2. Before \in Nat /\ baseAddr \div 4 \in Nat /\ Intended = (baseAddr \div 4) + Before
        BY RunTypes
      <4>3. Before + n - 7 \in Nat /\ Intended + n - 7 = (baseAddr \div 4) + (Before + n - 7)
        BY <2>2, <4>2
      <4>4. QED
        BY <4>1, <4>2, <4>3
    <3>2. k < request.count
      <4>1. CASE request.kind = "write"
        <5>1. /\ Run = wordsTransferredThisRun
              /\ Before = wordsTransferred - wordsTransferredThisRun
          BY <4>1 DEF Run, Before, Copies
        <5>2. wordCount = request.count /\ wordsTransferred <= wordCount
              /\ wordCount \in Nat /\ wordsTransferred \in Nat /\ wordsTransferredThisRun \in Nat
          BY <1>2, <4>1 DEF TInv, Types, Progress
        <5>3. QED
          BY <3>1, <5>1, <5>2
      <4>2. CASE request.kind # "write"
        <5>1. request.count = 1
          BY <4>2, Kinds DEF Writing
        <5>2. Run = 1 /\ Before = 0
          BY <4>2 DEF Run, Before, Copies, Writing, Reads
        <5>3. QED
          BY <3>1, <5>1, <5>2
      <4>3. QED
        BY <4>1, <4>2
    <3>3. request.count \in Nat /\ k \in 0 .. request.count - 1
      BY <3>2, Kinds
    <3>4. Copy!Place(request, k) = b + k
      <4>1. baseAddr = request.base
        BY <1>2 DEF CInv, Begun, Writing, Reads
      <4>2. QED
        BY <3>1, <4>1 DEF Copy!Place
    <3>5. Before + n - 6 = k + 1
      BY <2>2, <3>1, RunTypes
    <3>6. target'.mem = IF b + k \in Mapped THEN [target.mem EXCEPT ![b + k] = request.data[k + 1]]
                        ELSE target.mem
      BY <1>1, <2>2, <3>1, <3>5, MemoryAfter DEF CInv
    <3>7. QED
      BY <3>3, <3>4, <3>6, MemoryAssumption
  <2>3. n < 7 \/ n >= 7
    OBVIOUS
  <2>4. QED
    BY <2>1, <2>2, <2>3, Zenon
<1>6. \A a \in Addrs : \/ target'.mem[a] = target.mem[a]
                       \/ \E k \in 0 .. request.count - 1 :
                            Copy!Place(request, k) = a /\ target'.mem[a] = request.data[k + 1]
  <2>1. target.mem \in [Addrs -> Word]
    BY DEF TInv, Types, Targets
  <2>2. ASSUME target'.mem # target.mem, NEW a \in Addrs, target'.mem[a] # target.mem[a]
        PROVE  \E k \in 0 .. request.count - 1 :
                 Copy!Place(request, k) = a /\ target'.mem[a] = request.data[k + 1]
    <3>1. PICK k \in 0 .. request.count - 1 :
            LET p == Copy!Place(request, k) IN
            p \in Addrs /\ target'.mem = [target.mem EXCEPT ![p] = request.data[k + 1]]
      BY <1>5, <2>2
    <3>2. QED
      BY <2>1, <2>2, <3>1
  <2>3. QED
    BY <2>2
<1>7. (pc # "idle") /\ request.kind \in {"write", "poke"}
  BY <1>2 DEF Writing
<1>8. QED
  BY <1>2, <1>3, <1>4, <1>6, <1>7 DEF Copy!Store, call, result

(* What the caller gets of a read is the words it asked for. *)
LEMMA Delivers ==
  ASSUME TInv, CInv, AllTransferred, request.kind \in Reads
  PROVE  Copy!Read(Delivered)
<1>0. dataArray \in Seq(Word \cup {-2}) /\ Len(dataArray) = wordCount
  <2>1. pc # "idle"
    BY DEF AllTransferred
  <2>2. wordCount \in Nat /\ dataArray \in [1 .. wordCount -> Word \cup {-2}]
    BY <2>1 DEF TInv, Types
  <2>3. QED
    BY <2>2
<1>1. PICK o \in Nat, c \in Nat, b \in Nat :
        /\ o = wordOffset /\ c = request.count /\ b = baseAddr \div 4
        /\ wordCount = c + o /\ request.base \div 4 = b + o
  BY Kinds, RunTypes DEF CInv, Begun, AllTransferred
<1>2. \A k \in 1 .. c + o : Genuine(dataArray[k], b + k - 1)
  <2>1. wordsTransferred = wordsStored + 0 /\ wordsTransferred = wordCount
    BY <1>1 DEF TInv, Types, Progress, AllTransferred
  <2>2. wordsStored = c + o
    BY <1>1, <2>1 DEF TInv, Types
  <2>3. QED
    BY <1>1, <2>2 DEF CInv, Gathered, AllTransferred
<1>3. Len(Delivered) = c /\ \A k \in 1 .. c : Delivered[k] = dataArray[k + o]
  <2>1. dataArray \in Seq(Word \cup {-2}) /\ Len(dataArray) = c + o
    BY <1>1, <1>0
  <2>2. \A k \in o + 1 .. c + o : dataArray[k] \in Word \cup {-2}
    BY <2>1
  <2>3. Delivered = SubSeq(dataArray, o + 1, c + o)
    BY <1>1 DEF Delivered
  <2>4. PICK m \in Int, n \in Int : m = o + 1 /\ n = c + o
    OBVIOUS
  <2> DEFINE d == SubSeq(dataArray, m, n)
  <2>5. /\ Len(d) = IF m <= n THEN n - m + 1 ELSE 0
        /\ \A k \in 1 .. n - m + 1 : d[k] = dataArray[m + k - 1]
    BY <2>2, <2>4, SubSeqProperties
  <2>6. Delivered = d
    BY <2>3, <2>4
  <2> HIDE DEF d
  <2>7. Len(d) = c /\ \A k \in 1 .. c : d[k] = dataArray[k + o]
    BY <2>4, <2>5
  <2>8. QED
    BY <2>6, <2>7
<1>4. DOMAIN Delivered = 1 .. request.count
  <2>1. Delivered \in Seq(Word \cup {-2})
    <3>1. dataArray \in Seq(Word \cup {-2}) /\ Len(dataArray) = c + o
      BY <1>1, <1>0
    <3>2. QED
      BY <1>1, <3>1 DEF Delivered
  <2>2. QED
    BY <1>1, <1>3, <2>1
<1>5. ASSUME NEW k \in 1 .. c
      PROVE  Genuine(Delivered[k], Copy!Place(request, k - 1))
  <2>1. k + o \in 1 .. c + o /\ b + (k + o) - 1 = (b + o) + (k - 1)
    OBVIOUS
  <2>2. Genuine(dataArray[k + o], (b + o) + (k - 1))
    BY <1>2, <2>1
  <2>3. QED
    BY <1>1, <1>3, <2>2 DEF Copy!Place
<1>6. target.attached => Copy!Region(request) \subseteq Mapped
  <2>1. ASSUME target.attached, NEW k \in 0 .. c - 1
        PROVE  Copy!Place(request, k) \in Mapped
    <3>1. k + 1 \in 1 .. c /\ (k + 1) - 1 = k
      OBVIOUS
    <3>2. Genuine(Delivered[k + 1], Copy!Place(request, k))
      BY <1>5, <3>1
    <3>3. QED
      BY <2>1, <3>2 DEF Genuine
  <2>2. QED
    BY <1>1, <2>1 DEF Copy!Region
<1>7. QED
  BY <1>1, <1>4, <1>5, <1>6 DEF Copy!Read, Genuine

(* com_readWord() gets the word that was asked for. *)
LEMMA DeliversWord ==
  ASSUME TInv, CInv, Transferred, request.kind = "peek"
  PROVE  Copy!Read(<<comArrayRead(8)>>)
<1>1. /\ pc = "transfer" /\ Reading /\ Run = 1 /\ Len(replyArray) = Len(cmdArray)
      /\ request.count = 1 /\ baseAddr = request.base
  BY Kinds DEF Transferred, Reading, Run, Copies, Reads, CInv, Begun
<1>2. Len(cmdArray) = 9 /\ Len(replyArray) = 9
  BY <1>1 DEF CInv, Listed
<1>3. PICK b \in Nat : b = baseAddr \div 4 /\ Intended = b
  BY <1>1, RunTypes DEF Intended, Reads, Transferred
<1>4. Genuine(replyArray[9], b)
  <2>1. \A j \in 1 .. 1 : 8 + j <= 9 => Genuine(replyArray[8 + j], b + j - 1)
    BY <1>1, <1>2, <1>3 DEF CInv, Arrived
  <2>2. QED
    BY <2>1
<1>5. comArrayRead(8) = replyArray[9]
  BY <1>2 DEF comArrayRead
<1>6. Copy!Place(request, 0) = b
  BY <1>1, <1>3 DEF Copy!Place
<1> DEFINE ws == <<comArrayRead(8)>>
<1>7. DOMAIN ws = 1 .. 1 /\ ws[1] = replyArray[9]
  BY <1>5
<1> HIDE DEF ws
<1>8. target.attached => Copy!Region(request) \subseteq Mapped
  BY <1>1, <1>4, <1>6 DEF Copy!Region, Genuine
<1>9. QED
  <2>1. Copy!Read(ws)
    BY <1>1, <1>4, <1>6, <1>7, <1>8 DEF Copy!Read, Genuine
  <2>2. QED
    BY <2>1 DEF ws

(* A fetch, a print and a dump that return 0 deliver what is there.           *)
LEMMA CopyReads ==
  ASSUME TInv, CInv, FetchReturns \/ PrintReturns
  PROVE  Copy!FetchOk
<1>1. /\ AllTransferred /\ request.kind \in {"fetch", "print"} /\ request.kind \in Reads
      /\ Leave(0) /\ words' = Delivered /\ UNCHANGED <<file, target>>
  BY DEF FetchReturns, PrintReturns, Reads
<1>2. Copy!Read(words')
  BY <1>1, Delivers
<1>3. pc # "idle" /\ pc' = "idle" /\ request' = request /\ reply = 0 /\ reply' = 0
  BY <1>1 DEF AllTransferred, Leave, call, CInv, Begun
<1>4. QED
  BY <1>1, <1>2, <1>3 DEF Copy!FetchOk

LEMMA CopyDump ==
  ASSUME TInv, CInv, DumpReturns
  PROVE  Copy!DumpOk
<1>1. /\ AllTransferred /\ request.kind = "dump" /\ request.kind \in Reads
      /\ Leave(0) /\ file' = Delivered /\ UNCHANGED <<words, target>>
  BY DEF DumpReturns, Reads
<1>2. Copy!Read(file')
  BY <1>1, Delivers
<1>3. pc = "prepare" /\ pc' = "idle" /\ request' = request /\ reply = 0 /\ reply' = 0
  BY <1>1 DEF AllTransferred, Leave, call, CInv, Begun
<1>4. QED
  BY <1>1, <1>2, <1>3 DEF Copy!DumpOk

(* A write that returns 0 has stored what it had to store. *)
LEMMA CopyWrite ==
  ASSUME TInv, CInv, WriteReturns
  PROVE  Copy!WriteOk
<1>1. /\ pc = "prepare" /\ pc' = "idle" /\ request.kind = "write" /\ request' = request
      /\ reply = 0 /\ reply' = 0 /\ UNCHANGED <<words, file, target>>
  BY DEF WriteReturns, AllTransferred, Leave, call, CInv, Begun
<1>2. PICK b \in Nat : b = baseAddr \div 4 /\ \A k \in Nat : Copy!Place(request, k) = b + k
  <2>1. baseAddr = request.base
    BY <1>1 DEF CInv, Begun, Reads
  <2>2. QED
    BY <2>1, RunTypes DEF Copy!Place
<1>3. wordsTransferred = request.count /\ request.count \in Nat
  BY <1>1, Kinds DEF WriteReturns, AllTransferred, TInv, Types, Progress
<1>4. target.attached =>
        \A k \in 0 .. request.count - 1 :
          \/ There(k)
          \/ b + k \notin Mapped /\ (k = request.count - 1 \/ (k + 1) % Chunk = 0)
  BY <1>1, <1>2, <1>3 DEF CInv, Settled
<1>5. target.attached =>
        \A k \in 0 .. request.count - 1 :
          \/ target.mem[Copy!Place(request, k)] = request.data[k + 1]
          \/ Copy!Place(request, k) \notin Mapped /\ Copy!Unnoticed(k)
  BY <1>2, <1>3, <1>4 DEF There, Copy!Unnoticed
<1>6. QED
  BY <1>1, <1>5 DEF Copy!WriteOk

(* A single word is read like a fetch of one; a write of one promises         *)
(* nothing.                                                                   *)
LEMMA CopyWord ==
  ASSUME TInv, CInv, ReturnWord
  PROVE  Copy!FetchOk \/ Copy!PokeReturns
<1>1. /\ Transferred /\ pc = "transfer" /\ pc' = "idle" /\ request.kind \in {"peek", "poke"}
      /\ request' = request /\ UNCHANGED <<file, target>>
      /\ words' = IF request.kind = "peek" THEN <<comArrayRead(8)>> ELSE words
  BY DEF ReturnWord, Transferred, Leave, call
<1>2. CASE request.kind = "peek"
  <2>1. Copy!Read(words')
    BY <1>1, <1>2, DeliversWord
  <2>2. QED
    BY <1>1, <1>2, <2>1 DEF Copy!FetchOk
<1>3. CASE request.kind = "poke"
  BY <1>1, <1>3 DEF Copy!PokeReturns
<1>4. QED
  BY <1>1, <1>2, <1>3

(* A call that fails delivers and stores nothing.                             *)
LEMMA CopyFails ==
  ASSUME TInv, CInv, CommandFault \/ CommandWaits \/ DumpRefused \/ RefuseUnaligned \/ DeviceBusy
  PROVE  Copy!Fail \/ Copy!PeekFails \/ Copy!PokeReturns
<1>1. CASE CommandFault \/ CommandWaits \/ DeviceBusy
  <2>1. /\ pc # "idle" /\ pc' = "idle" /\ request' = request /\ reply' # 0
        /\ words' = IF request.kind = "peek" THEN <<0>> ELSE words
        /\ UNCHANGED <<file, target>>
    BY <1>1 DEF CommandFault, CommandWaits, DeviceBusy, Abandon, Sending, Leave, call
  <2>6. pc \in {"prepare", "transfer"}
    BY <1>1 DEF CommandFault, CommandWaits, DeviceBusy, Sending
  <2>2. CASE request.kind = "peek"
    BY <2>1, <2>2 DEF Copy!PeekFails
  <2>3. CASE request.kind = "poke"
    BY <2>1, <2>3 DEF Copy!PokeReturns
  <2>4. CASE request.kind \notin {"peek", "poke"}
    BY <2>1, <2>4, <2>6 DEF Copy!Fail
  <2>7. QED
    BY <2>2, <2>3, <2>4
<1>2. CASE DumpRefused \/ RefuseUnaligned
  <2>1. /\ pc # "idle" /\ pc' = "idle" /\ request' = request /\ reply' # 0
        /\ request.kind \in Reads \cup {"write"}
        /\ UNCHANGED <<words, file, target>>
    BY <1>2 DEF DumpRefused, RefuseUnaligned, Leave, call, CInv, Begun, Reads
  <2>2. QED
    BY <2>1 DEF Copy!Fail, Reads
<1>3. QED
  BY <1>1, <1>2

(* The steps around a call.                                                   *)
LEMMA CopyOthers ==
  ASSUME TInv, CInv
  PROVE  /\ DumpOpens => Copy!MakeFile
         /\ Detach => Copy!Unplug
         /\ RemoveFile => Copy!RemoveFile
<1>1. ASSUME DumpOpens PROVE Copy!MakeFile
  BY <1>1 DEF DumpOpens, call, result, CInv, Begun, Copy!MakeFile
<1>2. ASSUME Detach PROVE Copy!Unplug
  BY <1>2 DEF Detach, Fresh, call, result, Copy!Unplug
<1>3. ASSUME RemoveFile PROVE Copy!RemoveFile
  BY <1>3 DEF RemoveFile, call, result, Copy!RemoveFile
<1>4. QED
  BY <1>1, <1>2, <1>3

(* The other steps are not seen.                                              *)
LEMMA CopyStutters ==
  ASSUME TInv, CInv,
         \/ PrepareRead \/ PrepareWrite \/ PrepareWord \/ CommandUnanswered
         \/ (CommandOk /\ Reading) \/ StoreWords \/ GoOnWriting \/ UNCHANGED vars
  PROVE  UNCHANGED Copy!vars
<1>0. target \in Targets
  BY DEF TInv, Types
<1>1. CASE PrepareRead \/ PrepareWrite \/ PrepareWord
  <2>1. /\ pc = "prepare" /\ pc' = "transfer" /\ UNCHANGED <<request, words, reply, file>>
        /\ target' = [target EXCEPT !.reset = TRUE]
    BY <1>1 DEF PrepareRead, PrepareWrite, PrepareWord, NextRun, Send, call, result
  <2>2. target'.mem = target.mem /\ target'.attached = target.attached
    BY <1>0, <2>1 DEF Targets
  <2>3. QED
    BY <2>1, <2>2, Stutters
<1>2. CASE CommandOk /\ Reading
  <2>1. PICK n \in Nat : n = Len(replyArray)
    BY DEF TInv, Lists
  <2>2. /\ pc' = pc /\ UNCHANGED <<request, words, reply, file>>
        /\ Sending /\ target' = Perform(target, Current)
    BY <1>2 DEF CommandOk, call, result
  <2>3. target'.mem = target.mem
    BY <1>2, <2>1, MemoryAfter DEF CInv
  <2>4. target'.attached = target.attached
    BY <1>0, <2>2, CurrentType, PerformType
  <2>5. QED
    BY <2>2, <2>3, <2>4, Stutters
<1>3. CASE StoreWords \/ GoOnWriting
  <2>1. /\ pc = "transfer" /\ pc' = "prepare" /\ UNCHANGED <<request, words, reply, file, target>>
    BY <1>3 DEF StoreWords, GoOnWriting, Transferred, call, result
  <2>2. QED
    BY <2>1, Stutters
<1>4. CASE CommandUnanswered \/ UNCHANGED vars
  <2>1. pc' = pc /\ UNCHANGED <<request, words, reply, file, target>>
    BY <1>4 DEF CommandUnanswered, vars, call, result
  <2>2. QED
    BY <2>1, Stutters
<1>5. QED
  BY <1>1, <1>2, <1>3, <1>4

LEMMA CopyStep ==
  ASSUME TInv, CInv, [Next]_vars
  PROVE  [Copy!Next]_(Copy!vars)
<1>1. CASE \E r \in Requests : Call(r)
  BY <1>1, CopyCall DEF Copy!Next
<1>2. CASE CommandOk
  <2>1. CASE Writing
    BY <1>2, <2>1, CopyStore DEF Copy!Next
  <2>2. CASE Reading
    BY <1>2, <2>2, CopyStutters
  <2>3. QED
    BY <2>1, <2>2, Kinds
<1>3. CASE FetchReturns \/ PrintReturns \/ DumpReturns \/ WriteReturns \/ ReturnWord
  BY <1>3, CopyReads, CopyDump, CopyWrite, CopyWord DEF Copy!Next
<1>4. CASE CommandFault \/ CommandWaits \/ DumpRefused \/ RefuseUnaligned \/ DeviceBusy
  BY <1>4, CopyFails DEF Copy!Next
<1>5. CASE DumpOpens \/ Detach \/ RemoveFile
  BY <1>5, CopyOthers DEF Copy!Next
<1>6. CASE \/ PrepareRead \/ PrepareWrite \/ PrepareWord \/ CommandUnanswered
           \/ StoreWords \/ GoOnWriting \/ UNCHANGED vars
  BY <1>6, CopyStutters
<1>7. QED
  BY <1>1, <1>2, <1>3, <1>4, <1>5, <1>6 DEF Next, Running

(* The memory functions keep the promise of MemCopy: a fetch, print or dump that  *)
(* succeeds has delivered the words of the target's memory at the address that    *)
(* was asked for, a write that succeeds has stored its words wherever the bus     *)
(* answers, and nothing else is touched, for any calls, memory and chunk          *)
(* (stmReadAligned(), stmWriteAligned(), com_readWord(), com_writeWord()).        *)
THEOREM CopiesRight == Fits => (Spec => ImplementsMemCopy)
<1> SUFFICES ASSUME Fits
             PROVE  Spec => ImplementsMemCopy
  OBVIOUS
<1>1. Init => TInv /\ AInv /\ CInv
  BY InitTypes, InitAddresses, CInvInit
<1>2. TInv /\ AInv /\ CInv /\ [Next]_vars => TInv' /\ AInv' /\ CInv'
  BY NextTypes, NextAddresses, CInvNext
<1>3. Init => Copy!Init
  BY CopyInit
<1>4. TInv /\ CInv /\ [Next]_vars => [Copy!Next]_(Copy!vars)
  BY CopyStep
<1>5. QED
  BY <1>1, <1>2, <1>3, <1>4, PTL DEF Spec, ImplementsMemCopy, Copy!Spec

(* A command that is refused comes after an access that the target had no word    *)
(* for: the set-up clears what was left of an earlier call, and powers the port.  *)
LEMMA FaultHasReason ==
  ASSUME TInv, CInv, CommandFault
  PROVE  /\ FaultAt \notin Mapped
         /\ FaultAt \in (baseAddr \div 4) .. (baseAddr \div 4) + wordCount - 1
<1>1. PICK n \in Nat : n = Len(replyArray)
  BY DEF TInv, Lists
<1> DEFINE c == Current
<1>2. Sending /\ pc = "transfer" /\ Ack(target, c) = 4
  BY DEF CommandFault, Sending
<1>3. /\ n <= 7 + Run /\ Run >= 1 /\ Run \in Nat
      /\ n = 0 => c.reg = "IDCODE"
      /\ n = 1 => c.reg = "CTRLSTAT_R"
      /\ n = 2 => c.reg = "ABORT"
      /\ n = 3 => c.reg = "CTRLSTAT_W"
      /\ n = 4 => c.reg = "SELECT"
  BY <1>1, <1>2, CommandAt, RunTypes DEF CInv
<1> HIDE DEF c
<1>4. /\ target.attached
      /\ \/ target.sticky /\ c.reg \notin {"IDCODE", "CTRLSTAT_R", "ABORT"}
         \/ c.reg \in APRegs /\ ~target.powered
  BY <1>2 DEF Ack
<1>5. /\ n >= 4 => target.powered
      /\ n \in 3..7 => ~target.sticky
      /\ n \in 8 .. 7 + Run /\ target.sticky => Intended + n - 8 \notin Mapped
  BY <1>1, <1>2, <1>4 DEF CInv, Reached
<1>6. ~(c.reg \in APRegs /\ ~target.powered)
  <2>1. n >= 4 \/ n \in 0..3
    OBVIOUS
  <2>2. n \in 0..3 => c.reg \notin APRegs
    BY <1>3 DEF APRegs
  <2>3. QED
    BY <1>5, <2>1, <2>2
<1>7. target.sticky /\ n \in 8 .. 7 + Run
  <2>1. target.sticky /\ c.reg \notin {"IDCODE", "CTRLSTAT_R", "ABORT"}
    BY <1>4, <1>6
  <2>2. n \notin 0..2 /\ n \notin 3..7
    BY <1>3, <1>5, <2>1
  <2>3. QED
    BY <1>3, <2>1, <2>2
<1>8. PICK b \in Nat : b = baseAddr \div 4
  BY RunTypes
<1>9. Intended + n - 8 \in b .. b + wordCount - 1
  <2>1. /\ wordsTransferred \in Nat /\ wordsStored \in Nat /\ wordsTransferredThisRun \in Nat
        /\ wordCount \in Nat /\ wordsTransferred <= wordCount
        /\ wordsTransferredThisRun <= wordsTransferred
    BY DEF TInv, Types, Progress
  <2>2. CASE request.kind \in Reads
    <3>1. Intended = b + wordsStored
      BY <1>8, <2>2 DEF Intended, Reads
    <3>2. Run = wordsTransferredThisRun /\ wordsTransferred = wordsStored + wordsTransferredThisRun
      BY <1>2, <2>2 DEF Run, Copies, TInv, Progress
    <3>3. QED
      BY <1>7, <2>1, <3>1, <3>2
  <2>3. CASE request.kind = "write"
    <3>1. Intended = b + wordsTransferred - wordsTransferredThisRun
      BY <1>8, <2>3 DEF Intended, Reads
    <3>2. Run = wordsTransferredThisRun
      BY <2>3 DEF Run, Copies
    <3>3. QED
      BY <1>7, <2>1, <3>1, <3>2
  <2>4. CASE request.kind \in {"peek", "poke"}
    <3>1. Intended = b /\ Run = 1
      BY <1>8, <2>4 DEF Intended, Run, Copies, Reads
    <3>2. wordCount = 1
      BY <1>2, <2>4, Kinds DEF CInv, Begun, Reads
    <3>3. QED
      BY <1>7, <3>1, <3>2
  <2>5. QED
    BY <2>2, <2>3, <2>4, Kinds DEF Reads
<1>10. QED
  BY <1>1, <1>5, <1>7, <1>8, <1>9 DEF FaultAt

(* Only a refused command makes a call return FAULT. *)
LEMMA OnlyFaults ==
  ASSUME CInv, [Next]_vars, pc # "idle", pc' = "idle", reply' = -4
  PROVE  CommandFault
<1>1. ~(\E r \in Requests : Call(r))
  BY DEF Call
<1>2. ~(PrepareRead \/ PrepareWrite \/ PrepareWord)
  BY DEF PrepareRead, PrepareWrite, PrepareWord, NextRun, Send
<1>3. ~(DumpOpens \/ CommandOk \/ CommandUnanswered \/ StoreWords \/ GoOnWriting)
  BY DEF DumpOpens, CommandOk, CommandUnanswered, Sending, StoreWords, GoOnWriting
<1>4. ~(\/ DumpRefused \/ RefuseUnaligned \/ DeviceBusy \/ CommandWaits
        \/ ReturnWord \/ WriteReturns \/ FetchReturns \/ PrintReturns \/ DumpReturns)
  BY DEF DumpRefused, RefuseUnaligned, DeviceBusy, CommandWaits, Abandon, ReturnWord,
         WriteReturns, FetchReturns, PrintReturns, DumpReturns, Leave
<1>5. ~(Detach \/ RemoveFile \/ UNCHANGED vars)
  BY DEF Detach, RemoveFile, vars
<1>6. QED
  BY <1>1, <1>2, <1>3, <1>4, <1>5 DEF Next, Running

(* A call fails with FAULT only right behind an access of the same transfer to a   *)
(* word the target does not have, and that word does not lie behind the last one   *)
(* that was asked for, for any calls, memory and chunk: the set-up of a transfer   *)
(* (cheese_memoryaccess.c:112, :157) clears what an earlier one left behind, the    *)
(* read ahead of the last word (:158-167) included.  For a read the word may lie    *)
(* before the first one that was asked for, down to the aligned address.           *)
THEOREM FaultsAreReal == Fits => (Spec => NoFalseAlarm)
<1> SUFFICES ASSUME Fits
             PROVE  Spec => NoFalseAlarm
  OBVIOUS
<1> DEFINE True == [pc # "idle" /\ pc' = "idle" /\ reply' = -4 =>
                      /\ FaultAt \notin Mapped
                      /\ FaultAt \in (baseAddr \div 4) .. (baseAddr \div 4) + wordCount - 1]_vars
<1>1. Init => TInv /\ AInv /\ CInv
  BY InitTypes, InitAddresses, CInvInit
<1>2. TInv /\ AInv /\ CInv /\ [Next]_vars => TInv' /\ AInv' /\ CInv'
  BY NextTypes, NextAddresses, CInvNext
<1>3. TInv /\ CInv /\ [Next]_vars => True
  BY OnlyFaults, FaultHasReason
<1>4. QED
  BY <1>1, <1>2, <1>3, PTL DEF Spec, NoFalseAlarm
=============================================================================
