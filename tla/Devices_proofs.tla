----------------------------- MODULE Devices_proofs -----------------------------
(***************************************************************************)
(* Proofs about loading and starting code, for any device table, any         *)
(* targets and any size of an image.  The place in a command is the number   *)
(* of steps that are left.                                                   *)
(***************************************************************************)
EXTENDS Devices, SequenceTheorems, FiniteSetTheorems, TLAPS

USE WordsAssumption

-----------------------------------------------------------------------------
(* A nonempty set of numbers up to n has a greatest one: the sets of greater     *)
(* numbers are finite, and one of them is the smallest.                          *)
LEMMA Greatest ==
  ASSUME NEW n \in Nat, NEW S, S \subseteq 1..n, S # {}
  PROVE  Max(S) \in S /\ \A y \in S : y <= Max(S)
<1> DEFINE Above(x) == {y \in S : y > x}
           T == {Above(x) : x \in S}
           R == StrictSubsetOrdering(1..n)
<1>1. IsWellFoundedOn(R, FiniteSubsetsOf(1..n))
  BY FS_StrictSubsetOrderingWellFounded, Zenon
<1>2. FiniteSubsetsOf(1..n) = SUBSET (1..n)
  <2>1. IsFiniteSet(1..n)
    BY FS_Interval
  <2>2. QED
    BY <2>1, FS_FiniteSubsetsOfFinite, Zenon
<1>3. T \subseteq SUBSET (1..n) /\ T # {}
  OBVIOUS
<1>4. PICK a \in T : \A b \in T : ~(<<b, a>> \in R)
  <2> HIDE DEF T, R
  <2>1. IsWellFoundedOn(R, SUBSET (1..n))
    BY <1>1, <1>2
  <2>2. QED
    BY <1>3, <2>1, WFMin, Zenon
<1>5. PICK x \in S : a = Above(x)
  BY <1>4
<1>6. ASSUME NEW y \in S PROVE x >= y
  <2>1. SUFFICES ASSUME y > x PROVE FALSE
    BY <1>6
  <2>2. Above(y) \subseteq Above(x) /\ y \in Above(x) /\ y \notin Above(y)
    <3> HIDE DEF T, R
    <3>1. x \in Int /\ y \in Int /\ \A z \in S : z \in Int
      BY <1>5, <1>6
    <3>2. \A z \in Above(y) : z \in Above(x)
      BY <2>1, <3>1
    <3>3. y \in Above(x) /\ y \notin Above(y)
      BY <2>1, <3>1
    <3>4. QED
      BY <3>2, <3>3
  <2>3. <<Above(y), a>> \in R
    BY <1>5, <2>2 DEF StrictSubsetOrdering
  <2>4. QED
    BY <1>4, <2>3
<1>7. \E z \in S : \A y \in S : z >= y
  BY <1>6
<1>8. QED
  BY <1>7 DEF Max

-----------------------------------------------------------------------------
(* The steps of the commands *)

Sends(s) == [do |-> "sequence", writes |-> Sequence(s)]
Sets(r, v) == [do |-> "register", reg |-> r, val |-> v]

PartSent == {[do |-> "sequence", writes |-> <<W("DHCSR", Run)>>],
             [do |-> "sequence", writes |-> <<W("DHCSR", Leave)>>]}

Simple == {"match", "sleep", "poll", "stmWriteAligned", "stmReadAligned", "com_writeWord", "com_readWord"}
SequenceNames == {"SEQ_UNHALT", "SEQ_HALT_ON_RESET", "SEQ_UNHALT_ON_RESET", "SEQ_RESET"}

Steps ==
  [do : {"scan"}, i : 1..Len(stm_info)] \cup {Step(d) : d \in Simple}
    \cup {Sets("VTOR", "image")} \cup {Sets("DCRDR", k) : k \in {1, 2}}
    \cup {Sets("DCRSR", r) : r \in CoreRegs}
    \cup {Sends(s) : s \in SequenceNames} \cup PartSent

(* The steps of a command once the part is identified. *)
Start ==
  <<Sets("VTOR", "image"), Sets("DCRDR", 1), Sets("DCRSR", "SP"), Step("poll"),
    Sets("DCRDR", 2), Sets("DCRSR", "PC"), Step("poll"), Sends("SEQ_UNHALT")>>

Rest(c) ==
  CASE c = "stmWrite" ->
         <<Sends("SEQ_HALT_ON_RESET"), Sends("SEQ_RESET"), Step("sleep"), Step("stmWriteAligned")>>
    [] c = "stmRun" ->
         <<Step("stmReadAligned"), Sets("VTOR", "image"),
           Sets("DCRDR", 1), Sets("DCRSR", "SP"), Step("poll"),
           Sets("DCRDR", 2), Sets("DCRSR", "PC"), Step("poll"), Sends("SEQ_UNHALT")>>
    [] c = "stmExecute" ->
         <<Sends("SEQ_HALT_ON_RESET"), Sends("SEQ_RESET"), Step("stmWriteAligned"),
           Sets("VTOR", "image"), Sets("DCRDR", 1), Sets("DCRSR", "SP"), Step("poll"),
           Sets("DCRDR", 2), Sets("DCRSR", "PC"), Step("poll"), Sends("SEQ_UNHALT")>>
    [] c = "stmErase" ->
         <<Sends("SEQ_HALT_ON_RESET"), Sends("SEQ_RESET"), Step("stmWriteAligned"),
           Sends("SEQ_UNHALT_ON_RESET"), Sends("SEQ_RESET")>>
    [] c = "cheese_test" ->
         <<Sends("SEQ_HALT_ON_RESET"), Sends("SEQ_RESET"), Step("sleep"), Sends("SEQ_UNHALT"),
           Step("com_writeWord"), Step("com_readWord")>>

Length(c) ==
  CASE c = "stmWrite" -> 4 [] c = "stmRun" -> 9 [] c = "stmExecute" -> 11
    [] c = "stmErase" -> 5 [] c = "cheese_test" -> 6

(* The step when r are left in all, the scan of the device table included.       *)
StepOf(c, r) ==
  IF r <= Length(c) THEN Rest(c)[Length(c) + 1 - r]
  ELSE IF r = Length(c) + 1 THEN Step("match")
  ELSE [do |-> "scan", i |-> Len(stm_info) + Length(c) + 2 - r]

LEMMA Joined ==
  ASSUME NEW S, NEW s \in Seq(S), NEW t \in Seq(S), NEW q \in Seq(S),
         Len(q) = Len(s) + Len(t),
         \A i \in 1..Len(s) : q[i] = s[i], \A i \in 1..Len(t) : q[Len(s) + i] = t[i]
  PROVE  s \o t = q
<1> DEFINE p == s \o t
<1>1. /\ p \in Seq(S) /\ Len(p) = Len(s) + Len(t)
      /\ \A i \in 1 .. Len(s) + Len(t) : p[i] = IF i <= Len(s) THEN s[i] ELSE t[i - Len(s)]
  BY ConcatProperties, Zenon
<1>2. ASSUME NEW i \in 1 .. Len(s) + Len(t) PROVE p[i] = q[i]
  <2>1. CASE i <= Len(s)
    BY <1>1, <2>1
  <2>2. CASE i > Len(s)
    <3>1. i - Len(s) \in 1..Len(t) /\ Len(s) + (i - Len(s)) = i
      BY <2>2
    <3>2. q[Len(s) + (i - Len(s))] = t[i - Len(s)]
      BY <3>1
    <3>3. p[i] = t[i - Len(s)]
      BY <2>2, <1>1
    <3>4. QED
      BY <3>1, <3>2, <3>3
  <2>3. QED
    BY <2>1, <2>2
<1> HIDE DEF p
<1>3. p = q
  BY <1>1, <1>2
<1>4. QED
  BY <1>3 DEF p

LEMMA StepTypes ==
  /\ \A d \in Simple : Step(d) \in Steps
  /\ Sets("VTOR", "image") \in Steps /\ \A k \in {1, 2} : Sets("DCRDR", k) \in Steps
  /\ \A r \in CoreRegs : Sets("DCRSR", r) \in Steps
  /\ \A s \in SequenceNames : Sends(s) \in Steps
  BY DEF Steps

(* Short sequences, joined. *)
LEMMA Join11 ==
  ASSUME NEW a1, NEW b1
  PROVE  <<a1>> \o <<b1>> = <<a1, b1>>
<1> DEFINE S == {a1, b1}
           s == <<a1>>
           t == <<b1>>
           q == <<a1, b1>>
<1>1. /\ s \in Seq(S) /\ t \in Seq(S) /\ q \in Seq(S)
      /\ Len(s) = 1 /\ Len(t) = 1 /\ Len(q) = 2
  OBVIOUS
<1>2. (\A i \in 1..1 : q[i] = s[i]) /\ \A i \in 1..1 : q[1 + i] = t[i]
  OBVIOUS
<1> HIDE DEF S, s, t, q
<1>3. /\ Len(q) = Len(s) + Len(t)
      /\ (\A i \in 1..Len(s) : q[i] = s[i]) /\ \A i \in 1..Len(t) : q[Len(s) + i] = t[i]
  BY <1>1, <1>2
<1>4. s \o t = q
  BY <1>1, <1>3, Joined, Zenon
<1>5. QED
  BY <1>4 DEF s, t, q

LEMMA Join21 ==
  ASSUME NEW a1, NEW a2, NEW b1
  PROVE  <<a1, a2>> \o <<b1>> = <<a1, a2, b1>>
<1> DEFINE S == {a1, a2, b1}
           s == <<a1, a2>>
           t == <<b1>>
           q == <<a1, a2, b1>>
<1>1. /\ s \in Seq(S) /\ t \in Seq(S) /\ q \in Seq(S)
      /\ Len(s) = 2 /\ Len(t) = 1 /\ Len(q) = 3
  OBVIOUS
<1>2. (\A i \in 1..2 : q[i] = s[i]) /\ \A i \in 1..1 : q[2 + i] = t[i]
  OBVIOUS
<1> HIDE DEF S, s, t, q
<1>3. /\ Len(q) = Len(s) + Len(t)
      /\ (\A i \in 1..Len(s) : q[i] = s[i]) /\ \A i \in 1..Len(t) : q[Len(s) + i] = t[i]
  BY <1>1, <1>2
<1>4. s \o t = q
  BY <1>1, <1>3, Joined, Zenon
<1>5. QED
  BY <1>4 DEF s, t, q

LEMMA Join22 ==
  ASSUME NEW a1, NEW a2, NEW b1, NEW b2
  PROVE  <<a1, a2>> \o <<b1, b2>> = <<a1, a2, b1, b2>>
<1> DEFINE S == {a1, a2, b1, b2}
           s == <<a1, a2>>
           t == <<b1, b2>>
           q == <<a1, a2, b1, b2>>
<1>1. /\ s \in Seq(S) /\ t \in Seq(S) /\ q \in Seq(S)
      /\ Len(s) = 2 /\ Len(t) = 2 /\ Len(q) = 4
  OBVIOUS
<1>2. (\A i \in 1..2 : q[i] = s[i]) /\ \A i \in 1..2 : q[2 + i] = t[i]
  OBVIOUS
<1> HIDE DEF S, s, t, q
<1>3. /\ Len(q) = Len(s) + Len(t)
      /\ (\A i \in 1..Len(s) : q[i] = s[i]) /\ \A i \in 1..Len(t) : q[Len(s) + i] = t[i]
  BY <1>1, <1>2
<1>4. s \o t = q
  BY <1>1, <1>3, Joined, Zenon
<1>5. QED
  BY <1>4 DEF s, t, q

LEMMA Join13 ==
  ASSUME NEW a1, NEW b1, NEW b2, NEW b3
  PROVE  <<a1>> \o <<b1, b2, b3>> = <<a1, b1, b2, b3>>
<1> DEFINE S == {a1, b1, b2, b3}
           s == <<a1>>
           t == <<b1, b2, b3>>
           q == <<a1, b1, b2, b3>>
<1>1. /\ s \in Seq(S) /\ t \in Seq(S) /\ q \in Seq(S)
      /\ Len(s) = 1 /\ Len(t) = 3 /\ Len(q) = 4
  OBVIOUS
<1>2. (\A i \in 1..1 : q[i] = s[i]) /\ \A i \in 1..3 : q[1 + i] = t[i]
  OBVIOUS
<1> HIDE DEF S, s, t, q
<1>3. /\ Len(q) = Len(s) + Len(t)
      /\ (\A i \in 1..Len(s) : q[i] = s[i]) /\ \A i \in 1..Len(t) : q[Len(s) + i] = t[i]
  BY <1>1, <1>2
<1>4. s \o t = q
  BY <1>1, <1>3, Joined, Zenon
<1>5. QED
  BY <1>4 DEF s, t, q

LEMMA Join43 ==
  ASSUME NEW a1, NEW a2, NEW a3, NEW a4, NEW b1, NEW b2, NEW b3
  PROVE  <<a1, a2, a3, a4>> \o <<b1, b2, b3>> = <<a1, a2, a3, a4, b1, b2, b3>>
<1> DEFINE S == {a1, a2, a3, a4, b1, b2, b3}
           s == <<a1, a2, a3, a4>>
           t == <<b1, b2, b3>>
           q == <<a1, a2, a3, a4, b1, b2, b3>>
<1>1. /\ s \in Seq(S) /\ t \in Seq(S) /\ q \in Seq(S)
      /\ Len(s) = 4 /\ Len(t) = 3 /\ Len(q) = 7
  OBVIOUS
<1>2. (\A i \in 1..4 : q[i] = s[i]) /\ \A i \in 1..3 : q[4 + i] = t[i]
  OBVIOUS
<1> HIDE DEF S, s, t, q
<1>3. /\ Len(q) = Len(s) + Len(t)
      /\ (\A i \in 1..Len(s) : q[i] = s[i]) /\ \A i \in 1..Len(t) : q[Len(s) + i] = t[i]
  BY <1>1, <1>2
<1>4. s \o t = q
  BY <1>1, <1>3, Joined, Zenon
<1>5. QED
  BY <1>4 DEF s, t, q

LEMMA Join71 ==
  ASSUME NEW a1, NEW a2, NEW a3, NEW a4, NEW a5, NEW a6, NEW a7, NEW b1
  PROVE  <<a1, a2, a3, a4, a5, a6, a7>> \o <<b1>> = <<a1, a2, a3, a4, a5, a6, a7, b1>>
<1> DEFINE S == {a1, a2, a3, a4, a5, a6, a7, b1}
           s == <<a1, a2, a3, a4, a5, a6, a7>>
           t == <<b1>>
           q == <<a1, a2, a3, a4, a5, a6, a7, b1>>
<1>1. /\ s \in Seq(S) /\ t \in Seq(S) /\ q \in Seq(S)
      /\ Len(s) = 7 /\ Len(t) = 1 /\ Len(q) = 8
  OBVIOUS
<1>2. (\A i \in 1..7 : q[i] = s[i]) /\ \A i \in 1..1 : q[7 + i] = t[i]
  OBVIOUS
<1> HIDE DEF S, s, t, q
<1>3. /\ Len(q) = Len(s) + Len(t)
      /\ (\A i \in 1..Len(s) : q[i] = s[i]) /\ \A i \in 1..Len(t) : q[Len(s) + i] = t[i]
  BY <1>1, <1>2
<1>4. s \o t = q
  BY <1>1, <1>3, Joined, Zenon
<1>5. QED
  BY <1>4 DEF s, t, q

LEMMA Join18 ==
  ASSUME NEW a1, NEW b1, NEW b2, NEW b3, NEW b4, NEW b5, NEW b6, NEW b7, NEW b8
  PROVE  <<a1>> \o <<b1, b2, b3, b4, b5, b6, b7, b8>> = <<a1, b1, b2, b3, b4, b5, b6, b7, b8>>
<1> DEFINE S == {a1, b1, b2, b3, b4, b5, b6, b7, b8}
           s == <<a1>>
           t == <<b1, b2, b3, b4, b5, b6, b7, b8>>
           q == <<a1, b1, b2, b3, b4, b5, b6, b7, b8>>
<1>1. /\ s \in Seq(S) /\ t \in Seq(S) /\ q \in Seq(S)
      /\ Len(s) = 1 /\ Len(t) = 8 /\ Len(q) = 9
  OBVIOUS
<1>2. (\A i \in 1..1 : q[i] = s[i]) /\ \A i \in 1..8 : q[1 + i] = t[i]
  OBVIOUS
<1> HIDE DEF S, s, t, q
<1>3. /\ Len(q) = Len(s) + Len(t)
      /\ (\A i \in 1..Len(s) : q[i] = s[i]) /\ \A i \in 1..Len(t) : q[Len(s) + i] = t[i]
  BY <1>1, <1>2
<1>4. s \o t = q
  BY <1>1, <1>3, Joined, Zenon
<1>5. QED
  BY <1>4 DEF s, t, q

LEMMA Join38 ==
  ASSUME NEW a1, NEW a2, NEW a3, NEW b1, NEW b2, NEW b3, NEW b4, NEW b5, NEW b6,
         NEW b7, NEW b8
  PROVE  <<a1, a2, a3>> \o <<b1, b2, b3, b4, b5, b6, b7, b8>> = <<a1, a2, a3, b1, b2, b3, b4, b5, b6, b7, b8>>
<1> DEFINE S == {a1, a2, a3, b1, b2, b3, b4, b5, b6, b7, b8}
           s == <<a1, a2, a3>>
           t == <<b1, b2, b3, b4, b5, b6, b7, b8>>
           q == <<a1, a2, a3, b1, b2, b3, b4, b5, b6, b7, b8>>
<1>1. /\ s \in Seq(S) /\ t \in Seq(S) /\ q \in Seq(S)
      /\ Len(s) = 3 /\ Len(t) = 8 /\ Len(q) = 11
  OBVIOUS
<1>2. (\A i \in 1..3 : q[i] = s[i]) /\ \A i \in 1..8 : q[3 + i] = t[i]
  OBVIOUS
<1> HIDE DEF S, s, t, q
<1>3. /\ Len(q) = Len(s) + Len(t)
      /\ (\A i \in 1..Len(s) : q[i] = s[i]) /\ \A i \in 1..Len(t) : q[Len(s) + i] = t[i]
  BY <1>1, <1>2
<1>4. s \o t = q
  BY <1>1, <1>3, Joined, Zenon
<1>5. QED
  BY <1>4 DEF s, t, q

LEMMA Join31 ==
  ASSUME NEW a1, NEW a2, NEW a3, NEW b1
  PROVE  <<a1, a2, a3>> \o <<b1>> = <<a1, a2, a3, b1>>
<1> DEFINE S == {a1, a2, a3, b1}
           s == <<a1, a2, a3>>
           t == <<b1>>
           q == <<a1, a2, a3, b1>>
<1>1. /\ s \in Seq(S) /\ t \in Seq(S) /\ q \in Seq(S)
      /\ Len(s) = 3 /\ Len(t) = 1 /\ Len(q) = 4
  OBVIOUS
<1>2. (\A i \in 1..3 : q[i] = s[i]) /\ \A i \in 1..1 : q[3 + i] = t[i]
  OBVIOUS
<1> HIDE DEF S, s, t, q
<1>3. /\ Len(q) = Len(s) + Len(t)
      /\ (\A i \in 1..Len(s) : q[i] = s[i]) /\ \A i \in 1..Len(t) : q[Len(s) + i] = t[i]
  BY <1>1, <1>2
<1>4. s \o t = q
  BY <1>1, <1>3, Joined, Zenon
<1>5. QED
  BY <1>4 DEF s, t, q

LEMMA Join41 ==
  ASSUME NEW a1, NEW a2, NEW a3, NEW a4, NEW b1
  PROVE  <<a1, a2, a3, a4>> \o <<b1>> = <<a1, a2, a3, a4, b1>>
<1> DEFINE S == {a1, a2, a3, a4, b1}
           s == <<a1, a2, a3, a4>>
           t == <<b1>>
           q == <<a1, a2, a3, a4, b1>>
<1>1. /\ s \in Seq(S) /\ t \in Seq(S) /\ q \in Seq(S)
      /\ Len(s) = 4 /\ Len(t) = 1 /\ Len(q) = 5
  OBVIOUS
<1>2. (\A i \in 1..4 : q[i] = s[i]) /\ \A i \in 1..1 : q[4 + i] = t[i]
  OBVIOUS
<1> HIDE DEF S, s, t, q
<1>3. /\ Len(q) = Len(s) + Len(t)
      /\ (\A i \in 1..Len(s) : q[i] = s[i]) /\ \A i \in 1..Len(t) : q[Len(s) + i] = t[i]
  BY <1>1, <1>2
<1>4. s \o t = q
  BY <1>1, <1>3, Joined, Zenon
<1>5. QED
  BY <1>4 DEF s, t, q

LEMMA Join42 ==
  ASSUME NEW a1, NEW a2, NEW a3, NEW a4, NEW b1, NEW b2
  PROVE  <<a1, a2, a3, a4>> \o <<b1, b2>> = <<a1, a2, a3, a4, b1, b2>>
<1> DEFINE S == {a1, a2, a3, a4, b1, b2}
           s == <<a1, a2, a3, a4>>
           t == <<b1, b2>>
           q == <<a1, a2, a3, a4, b1, b2>>
<1>1. /\ s \in Seq(S) /\ t \in Seq(S) /\ q \in Seq(S)
      /\ Len(s) = 4 /\ Len(t) = 2 /\ Len(q) = 6
  OBVIOUS
<1>2. (\A i \in 1..4 : q[i] = s[i]) /\ \A i \in 1..2 : q[4 + i] = t[i]
  OBVIOUS
<1> HIDE DEF S, s, t, q
<1>3. /\ Len(q) = Len(s) + Len(t)
      /\ (\A i \in 1..Len(s) : q[i] = s[i]) /\ \A i \in 1..Len(t) : q[Len(s) + i] = t[i]
  BY <1>1, <1>2
<1>4. s \o t = q
  BY <1>1, <1>3, Joined, Zenon
<1>5. QED
  BY <1>4 DEF s, t, q

LEMMA Concat ==
  ASSUME NEW s \in Seq(Steps), NEW t \in Seq(Steps)
  PROVE  /\ s \o t \in Seq(Steps) /\ Len(s \o t) = Len(s) + Len(t)
         /\ \A i \in 1 .. Len(s) + Len(t) : (s \o t)[i] = IF i <= Len(s) THEN s[i] ELSE t[i - Len(s)]
  BY ConcatProperties, Zenon

LEMMA Regroup ==
  ASSUME NEW s \in Seq(Steps), NEW t \in Seq(Steps), NEW u \in Seq(Steps)
  PROVE  (s \o t) \o u = s \o (t \o u)
  BY ConcatAssociative

LEMMA InitTypes ==
  /\ initDevice \in Seq(Steps) /\ Len(initDevice) = Len(stm_info) + 1
  /\ \A k \in 1..Len(stm_info) : initDevice[k] = [do |-> "scan", i |-> k]
  /\ initDevice[Len(stm_info) + 1] = Step("match")
<1> DEFINE scans == [i \in DOMAIN stm_info |-> [do |-> "scan", i |-> i]]
           last == <<Step("match")>>
<1>1. /\ scans \in Seq(Steps) /\ Len(scans) = Len(stm_info)
      /\ \A k \in 1..Len(stm_info) : scans[k] = [do |-> "scan", i |-> k]
  <2>1. DOMAIN stm_info = 1..Len(stm_info) /\ Len(stm_info) \in Nat
    BY TablesAssumption
  <2>2. \A k \in 1..Len(stm_info) : [do |-> "scan", i |-> k] \in Steps
    BY DEF Steps
  <2>3. QED
    BY <2>1, <2>2
<1>2. last \in Seq(Steps) /\ Len(last) = 1 /\ last[1] = Step("match")
  BY StepTypes DEF Simple
<1>3. initDevice = scans \o last
  BY DEF initDevice
<1> HIDE DEF scans, last
<1>4. /\ scans \o last \in Seq(Steps) /\ Len(scans \o last) = Len(scans) + Len(last)
      /\ \A k \in 1 .. Len(scans) + Len(last) :
           (scans \o last)[k] = IF k <= Len(scans) THEN scans[k] ELSE last[k - Len(scans)]
  BY <1>1, <1>2, ConcatProperties, Zenon
<1>5. \A k \in 1..Len(stm_info) : initDevice[k] = [do |-> "scan", i |-> k]
  <2> TAKE k \in 1..Len(stm_info)
  <2>1. k \in 1 .. Len(scans) + Len(last) /\ k <= Len(scans)
    BY <1>1, <1>2
  <2>2. QED
    BY <1>1, <1>3, <1>4, <2>1
<1>6. initDevice[Len(stm_info) + 1] = Step("match")
  <2>1. /\ Len(scans) + 1 \in 1 .. Len(scans) + Len(last)
        /\ ~(Len(scans) + 1 <= Len(scans)) /\ Len(scans) + 1 - Len(scans) = 1
    BY <1>1, <1>2
  <2>2. QED
    BY <1>1, <1>2, <1>3, <1>4, <2>1
<1>7. QED
  BY <1>1, <1>2, <1>3, <1>4, <1>5, <1>6

LEMMA ResetIs == HaltAndReset = <<Sends("SEQ_HALT_ON_RESET"), Sends("SEQ_RESET")>>
<1>1. Sends("SEQ_HALT_ON_RESET") \in Steps /\ Sends("SEQ_RESET") \in Steps
  BY StepTypes DEF SequenceNames
<1>2. HaltAndReset = <<Sends("SEQ_HALT_ON_RESET")>> \o <<Sends("SEQ_RESET")>>
  BY DEF HaltAndReset, executeSequence, Sends
<1> HIDE DEF Sends
<1>3. QED
  BY <1>1, <1>2, Join11

LEMMA StartIs == StartImage = Start
<1> DEFINE V == Sets("VTOR", "image")
           P == Step("poll")
           U == Sends("SEQ_UNHALT")
           D(k) == Sets("DCRDR", k)
           S(r) == Sets("DCRSR", r)
<1>1. ASSUME NEW r, NEW k PROVE WriteCoreRegister(r, k) = <<D(k), S(r), P>>
  <2>1. WriteCoreRegister(r, k) = (<<D(k)>> \o <<S(r)>>) \o <<P>>
    BY DEF WriteCoreRegister, WriteDeviceRegister, Sets
  <2> HIDE DEF D, S, P
  <2>2. <<D(k)>> \o <<S(r)>> = <<D(k), S(r)>>
    BY Join11, Zenon
  <2>3. <<D(k), S(r)>> \o <<P>> = <<D(k), S(r), P>>
    BY Join21, Zenon
  <2>4. QED
    BY <2>1, <2>2, <2>3, Zenon
<1>2. StartImage = ((<<V>> \o <<D(1), S("SP"), P>>) \o <<D(2), S("PC"), P>>) \o <<U>>
  BY <1>1 DEF StartImage, WriteDeviceRegister, executeSequence, Sets, Sends
<1>3. Start = <<V, D(1), S("SP"), P, D(2), S("PC"), P, U>>
  BY DEF Start
<1> HIDE DEF V, D, S, P, U
<1>4. <<V>> \o <<D(1), S("SP"), P>> = <<V, D(1), S("SP"), P>>
  BY Join13, Zenon
<1>5. <<V, D(1), S("SP"), P>> \o <<D(2), S("PC"), P>> = <<V, D(1), S("SP"), P, D(2), S("PC"), P>>
  BY Join43
<1>6. <<V, D(1), S("SP"), P, D(2), S("PC"), P>> \o <<U>>
        = <<V, D(1), S("SP"), P, D(2), S("PC"), P, U>>
  BY Join71
<1>7. QED
  BY <1>2, <1>3, <1>4, <1>5, <1>6, Zenon

LEMMA ProgramIs ==
  ASSUME NEW c \in Commands
  PROVE  /\ Rest(c) \in Seq(Steps) /\ Len(Rest(c)) = Length(c)
         /\ Program(c) = initDevice \o Rest(c)
<1> DEFINE H == Sends("SEQ_HALT_ON_RESET")
           R == Sends("SEQ_RESET")
           U == Sends("SEQ_UNHALT")
           N == Sends("SEQ_UNHALT_ON_RESET")
           sleep == Step("sleep")
           write == Step("stmWriteAligned")
           read == Step("stmReadAligned")
           wr == Step("com_writeWord")
           rd == Step("com_readWord")
           V == Sets("VTOR", "image")
           P == Step("poll")
           D1 == Sets("DCRDR", 1)
           D2 == Sets("DCRDR", 2)
           SP == Sets("DCRSR", "SP")
           PC == Sets("DCRSR", "PC")
           I == initDevice
<1>1. /\ H \in Steps /\ R \in Steps /\ U \in Steps /\ N \in Steps
      /\ sleep \in Steps /\ write \in Steps /\ read \in Steps /\ wr \in Steps /\ rd \in Steps
      /\ V \in Steps /\ P \in Steps /\ D1 \in Steps /\ D2 \in Steps /\ SP \in Steps /\ PC \in Steps
  BY StepTypes DEF SequenceNames, Simple, CoreRegs
<1>2. HaltAndReset = <<H, R>> /\ StartImage = Start /\ Start = <<V, D1, SP, P, D2, PC, P, U>>
  BY ResetIs, StartIs DEF Start
<1>3. /\ Program("stmWrite") = (I \o <<H, R>>) \o <<sleep, write>>
      /\ Program("stmRun") = (I \o <<read>>) \o Start
      /\ Program("stmExecute") = ((I \o <<H, R>>) \o <<write>>) \o Start
      /\ Program("stmErase") = (((I \o <<H, R>>) \o <<write>>) \o <<N>>) \o <<R>>
      /\ Program("cheese_test") = (((I \o <<H, R>>) \o <<sleep>>) \o <<U>>) \o <<wr, rd>>
  BY <1>2 DEF Program, stmWrite, stmRun, stmExecute, stmErase, cheese_test, executeSequence, Sends
<1>4. /\ Rest("stmWrite") = <<H, R, sleep, write>>
      /\ Rest("stmRun") = <<read, V, D1, SP, P, D2, PC, P, U>>
      /\ Rest("stmExecute") = <<H, R, write, V, D1, SP, P, D2, PC, P, U>>
      /\ Rest("stmErase") = <<H, R, write, N, R>>
      /\ Rest("cheese_test") = <<H, R, sleep, U, wr, rd>>
  BY DEF Rest
<1>5. /\ Length("stmWrite") = 4 /\ Length("stmRun") = 9 /\ Length("stmExecute") = 11
      /\ Length("stmErase") = 5 /\ Length("cheese_test") = 6
  BY DEF Length
<1>6. I \in Seq(Steps)
  BY InitTypes
<1> HIDE DEF H, R, U, N, sleep, write, read, wr, rd, V, P, D1, D2, SP, PC, I
<1>7. /\ <<H, R>> \in Seq(Steps) /\ <<R>> \in Seq(Steps) /\ <<U>> \in Seq(Steps)
      /\ <<N>> \in Seq(Steps) /\ <<write>> \in Seq(Steps) /\ <<read>> \in Seq(Steps)
      /\ <<sleep>> \in Seq(Steps) /\ <<sleep, write>> \in Seq(Steps) /\ <<wr, rd>> \in Seq(Steps)
      /\ <<H, R, write>> \in Seq(Steps) /\ <<H, R, sleep>> \in Seq(Steps)
      /\ <<H, R, write, N>> \in Seq(Steps) /\ <<H, R, sleep, U>> \in Seq(Steps)
      /\ Start \in Seq(Steps)
  BY <1>1, <1>2
<1>8. ASSUME NEW d \in Commands PROVE Rest(d) \in Seq(Steps) /\ Len(Rest(d)) = Length(d)
  <2>1. CASE d = "stmWrite"
    <3>1. <<H, R, sleep, write>> \in Seq(Steps) /\ Len(<<H, R, sleep, write>>) = 4
      BY <1>1
    <3>2. QED
      BY <1>4, <1>5, <2>1, <3>1
  <2>2. CASE d = "stmRun"
    <3>1. <<read, V, D1, SP, P, D2, PC, P, U>> \in Seq(Steps) /\ Len(<<read, V, D1, SP, P, D2, PC, P, U>>) = 9
      BY <1>1
    <3>2. QED
      BY <1>4, <1>5, <2>2, <3>1
  <2>3. CASE d = "stmExecute"
    <3>1. <<H, R, write, V, D1, SP, P, D2, PC, P, U>> \in Seq(Steps) /\ Len(<<H, R, write, V, D1, SP, P, D2, PC, P, U>>) = 11
      BY <1>1
    <3>2. QED
      BY <1>4, <1>5, <2>3, <3>1
  <2>4. CASE d = "stmErase"
    <3>1. <<H, R, write, N, R>> \in Seq(Steps) /\ Len(<<H, R, write, N, R>>) = 5
      BY <1>1
    <3>2. QED
      BY <1>4, <1>5, <2>4, <3>1
  <2>5. CASE d = "cheese_test"
    <3>1. <<H, R, sleep, U, wr, rd>> \in Seq(Steps) /\ Len(<<H, R, sleep, U, wr, rd>>) = 6
      BY <1>1
    <3>2. QED
      BY <1>4, <1>5, <2>5, <3>1
  <2>6. QED
    BY <2>1, <2>2, <2>3, <2>4, <2>5 DEF Commands
<1>9. Program("stmWrite") = I \o Rest("stmWrite")
  <2>1. (I \o <<H, R>>) \o <<sleep, write>> = I \o (<<H, R>> \o <<sleep, write>>)
    BY <1>6, <1>7, Regroup
  <2>2. <<H, R>> \o <<sleep, write>> = <<H, R, sleep, write>>
    BY Join22, Zenon
  <2>3. QED
    BY <1>3, <1>4, <2>1, <2>2, Zenon
<1>10. Program("stmRun") = I \o Rest("stmRun")
  <2>1. (I \o <<read>>) \o Start = I \o (<<read>> \o Start)
    BY <1>6, <1>7, Regroup
  <2>2. <<read>> \o <<V, D1, SP, P, D2, PC, P, U>> = <<read, V, D1, SP, P, D2, PC, P, U>>
    BY Join18
  <2>3. QED
    BY <1>2, <1>3, <1>4, <2>1, <2>2, Zenon
<1>11. /\ (I \o <<H, R>>) \o <<write>> = I \o <<H, R, write>>
       /\ (I \o <<H, R>>) \o <<sleep>> = I \o <<H, R, sleep>>
  <2>1. /\ (I \o <<H, R>>) \o <<write>> = I \o (<<H, R>> \o <<write>>)
        /\ (I \o <<H, R>>) \o <<sleep>> = I \o (<<H, R>> \o <<sleep>>)
    BY <1>6, <1>7, Regroup
  <2>2. <<H, R>> \o <<write>> = <<H, R, write>>
    BY Join21, Zenon
  <2>3. <<H, R>> \o <<sleep>> = <<H, R, sleep>>
    BY Join21, Zenon
  <2>4. QED
    BY <2>1, <2>2, <2>3, Zenon
<1>12. Program("stmExecute") = I \o Rest("stmExecute")
  <2>1. (I \o <<H, R, write>>) \o Start = I \o (<<H, R, write>> \o Start)
    BY <1>6, <1>7, Regroup
  <2>2. <<H, R, write>> \o <<V, D1, SP, P, D2, PC, P, U>> = <<H, R, write, V, D1, SP, P, D2, PC, P, U>>
    BY Join38
  <2>3. QED
    BY <1>2, <1>3, <1>4, <1>11, <2>1, <2>2, Zenon
<1>13. Program("stmErase") = I \o Rest("stmErase")
  <2>1. (I \o <<H, R, write>>) \o <<N>> = I \o (<<H, R, write>> \o <<N>>)
    BY <1>6, <1>7, Regroup
  <2>2. <<H, R, write>> \o <<N>> = <<H, R, write, N>>
    BY Join31, Zenon
  <2>3. (I \o <<H, R, write, N>>) \o <<R>> = I \o (<<H, R, write, N>> \o <<R>>)
    BY <1>6, <1>7, Regroup
  <2>4. <<H, R, write, N>> \o <<R>> = <<H, R, write, N, R>>
    BY Join41, Zenon
  <2>5. QED
    BY <1>3, <1>4, <1>11, <2>1, <2>2, <2>3, <2>4, Zenon
<1>14. Program("cheese_test") = I \o Rest("cheese_test")
  <2>1. (I \o <<H, R, sleep>>) \o <<U>> = I \o (<<H, R, sleep>> \o <<U>>)
    BY <1>6, <1>7, Regroup
  <2>2. <<H, R, sleep>> \o <<U>> = <<H, R, sleep, U>>
    BY Join31, Zenon
  <2>3. (I \o <<H, R, sleep, U>>) \o <<wr, rd>> = I \o (<<H, R, sleep, U>> \o <<wr, rd>>)
    BY <1>6, <1>7, Regroup
  <2>4. <<H, R, sleep, U>> \o <<wr, rd>> = <<H, R, sleep, U, wr, rd>>
    BY Join42
  <2>5. QED
    BY <1>3, <1>4, <1>11, <2>1, <2>2, <2>3, <2>4, Zenon
<1>15. QED
  BY <1>5, <1>8, <1>9, <1>10, <1>12, <1>13, <1>14 DEF Commands, I

(* A command is the identification followed by the rest. *)
LEMMA Programs ==
  ASSUME NEW c \in Commands
  PROVE  /\ Program(c) \in Seq(Steps)
         /\ Len(Program(c)) = Len(stm_info) + 1 + Length(c)
         /\ \A k \in 1..Len(Program(c)) :
              Program(c)[k] = StepOf(c, Len(Program(c)) - k + 1)
<1> DEFINE p == Program(c)
           q == Rest(c)
<1>1. PICK l \in Nat, n \in Nat : l = Len(stm_info) /\ n = Length(c)
  BY TablesAssumption DEF Commands, Length
<1>2. q \in Seq(Steps) /\ Len(q) = n /\ p = initDevice \o q
  BY <1>1, ProgramIs
<1>3. /\ initDevice \in Seq(Steps) /\ Len(initDevice) = l + 1
      /\ \A k \in 1..l : initDevice[k] = [do |-> "scan", i |-> k]
      /\ initDevice[l + 1] = Step("match")
  BY <1>1, InitTypes
<1> HIDE DEF p, q
<1>4. /\ p \in Seq(Steps) /\ Len(p) = l + 1 + n
      /\ \A k \in 1 .. l + 1 + n :
           p[k] = IF k <= l + 1 THEN initDevice[k] ELSE q[k - (l + 1)]
  <2>1. /\ initDevice \o q \in Seq(Steps) /\ Len(initDevice \o q) = Len(initDevice) + Len(q)
        /\ \A k \in 1 .. Len(initDevice) + Len(q) :
             (initDevice \o q)[k] =
                IF k <= Len(initDevice) THEN initDevice[k] ELSE q[k - Len(initDevice)]
    BY <1>2, <1>3, ConcatProperties, Zenon
  <2>2. QED
    BY <1>1, <1>2, <1>3, <2>1
<1>5. ASSUME NEW k \in 1 .. l + 1 + n
      PROVE  p[k] = StepOf(c, l + 1 + n - k + 1)
  <2>1. CASE k <= l
    <3>1. k \in 1..l /\ l + n + 2 - (l + 1 + n - k + 1) = k
      BY <2>1
    <3>2. /\ ~(l + 1 + n - k + 1 <= n) /\ ~(l + 1 + n - k + 1 = n + 1) /\ k <= l + 1
      BY <2>1
    <3>3. p[k] = [do |-> "scan", i |-> k]
      BY <1>3, <1>4, <3>1, <3>2
    <3>4. StepOf(c, l + 1 + n - k + 1) = [do |-> "scan", i |-> k]
      BY <1>1, <3>1, <3>2 DEF StepOf
    <3>5. QED
      BY <3>3, <3>4
  <2>2. CASE k = l + 1
    <3>1. l + 1 + n - k + 1 = n + 1 /\ ~(n + 1 <= n) /\ k <= l + 1
      BY <1>1, <2>2
    <3>2. p[k] = Step("match")
      BY <1>3, <1>4, <2>2, <3>1
    <3>3. StepOf(c, l + 1 + n - k + 1) = Step("match")
      BY <1>1, <3>1 DEF StepOf
    <3>4. QED
      BY <3>2, <3>3
  <2>3. CASE k > l + 1
    <3>1. l + 1 + n - k + 1 <= n /\ n + 1 - (l + 1 + n - k + 1) = k - (l + 1)
      BY <1>1, <2>3
    <3>2. p[k] = q[k - (l + 1)]
      BY <1>1, <1>4, <2>3
    <3>3. StepOf(c, l + 1 + n - k + 1) = q[k - (l + 1)]
      BY <1>1, <3>1 DEF StepOf, q
    <3>4. QED
      BY <3>2, <3>3
  <2>4. k <= l \/ k = l + 1 \/ k > l + 1
    OBVIOUS
  <2>5. QED
    BY <2>1, <2>2, <2>3, <2>4
<1>6. QED
  BY <1>1, <1>4, <1>5 DEF p

-----------------------------------------------------------------------------
(* The place in a command: the steps still to do are the last ones of its        *)
(* program, the first of them perhaps half done.                                *)

Half(s) ==
  IF s = Sends("SEQ_HALT_ON_RESET") THEN {[do |-> "sequence", writes |-> <<W("DHCSR", Run)>>]}
  ELSE IF s = Sends("SEQ_UNHALT_ON_RESET") THEN {[do |-> "sequence", writes |-> <<W("DHCSR", Leave)>>]}
  ELSE {}

Placed ==
  /\ todo \in Seq(Steps)
  /\ Len(todo) <= Len(stm_info) + 1 + Length(command)
  /\ \A k \in 1..Len(todo) : \/ todo[k] = StepOf(command, Len(todo) - k + 1)
                             \/ k = 1 /\ todo[k] \in Half(StepOf(command, Len(todo)))

(* What the step may be when r are left. *)
SequenceAt(c, r, ws) ==
  \/ c # "stmRun" /\ r = Length(c) /\ ws \in {Sequence("SEQ_HALT_ON_RESET"), <<W("DHCSR", Run)>>}
  \/ c # "stmRun" /\ r = Length(c) - 1 /\ ws = Sequence("SEQ_RESET")
  \/ c \in {"stmRun", "stmExecute"} /\ r = 1 /\ ws = Sequence("SEQ_UNHALT")
  \/ c = "stmErase" /\ r = 2 /\ ws \in {Sequence("SEQ_UNHALT_ON_RESET"), <<W("DHCSR", Leave)>>}
  \/ c = "stmErase" /\ r = 1 /\ ws = Sequence("SEQ_RESET")
  \/ c = "cheese_test" /\ r = 3 /\ ws = Sequence("SEQ_UNHALT")

RegisterAt(r, s) ==
  \/ r = 8 /\ s.reg = "VTOR" /\ s.val = "image"
  \/ r = 7 /\ s.reg = "DCRDR" /\ s.val = 1
  \/ r = 6 /\ s.reg = "DCRSR" /\ s.val = "SP"
  \/ r = 4 /\ s.reg = "DCRDR" /\ s.val = 2
  \/ r = 3 /\ s.reg = "DCRSR" /\ s.val = "PC"

Allowed(c, r, s) ==
  \/ s.do = "sequence" /\ SequenceAt(c, r, s.writes)
  \/ s.do = "register" /\ c \in {"stmRun", "stmExecute"} /\ RegisterAt(r, s)
  \/ s.do = "poll" /\ c \in {"stmRun", "stmExecute"} /\ r \in {2, 5}
  \/ /\ s.do = "stmWriteAligned"
     /\ (c = "stmWrite" /\ r = 1) \/ (c = "stmExecute" /\ r = 9) \/ (c = "stmErase" /\ r = 3)
  \/ s.do = "stmReadAligned" /\ c = "stmRun" /\ r = 9
  \/ s.do = "sleep" /\ ((c = "stmWrite" /\ r = 2) \/ (c = "cheese_test" /\ r = 4))
  \/ s.do \in {"com_writeWord", "com_readWord"} /\ c = "cheese_test" /\ r \in {1, 2}

LEMMA StepAllowed ==
  ASSUME NEW c \in Commands, NEW r \in 1..Length(c), NEW s,
         s = StepOf(c, r) \/ s \in Half(StepOf(c, r))
  PROVE  Allowed(c, r, s)
<1>1. /\ Length("stmWrite") = 4 /\ Length("stmRun") = 9 /\ Length("stmExecute") = 11
      /\ Length("stmErase") = 5 /\ Length("cheese_test") = 6
  BY DEF Length
<1>2. r <= Length(c) => StepOf(c, r) = Rest(c)[Length(c) + 1 - r]
  BY DEF StepOf
<1>3. /\ \A d : d \in Simple => Half(Step(d)) = {}
      /\ \A q, v : Half(Sets(q, v)) = {}
      /\ Half(Sends("SEQ_RESET")) = {} /\ Half(Sends("SEQ_UNHALT")) = {}
      /\ Half(Sends("SEQ_HALT_ON_RESET")) = {[do |-> "sequence", writes |-> <<W("DHCSR", Run)>>]}
      /\ Half(Sends("SEQ_UNHALT_ON_RESET")) = {[do |-> "sequence", writes |-> <<W("DHCSR", Leave)>>]}
  BY DEF Half, Sends, Sets, Step, Sequence, W, Simple, Run, Leave
<1>4. CASE c = "stmWrite"
  <2>1. r \in 1..4 /\ StepOf(c, r) = Rest("stmWrite")[5 - r]
    BY <1>1, <1>2, <1>4
  <2>2. r = 1 \/ r = 2 \/ r = 3 \/ r = 4
    BY <2>1
  <2>3. /\ r = 1 => StepOf(c, r) = Step("stmWriteAligned")
        /\ r = 2 => StepOf(c, r) = Step("sleep")
        /\ r = 3 => StepOf(c, r) = Sends("SEQ_RESET")
        /\ r = 4 => StepOf(c, r) = Sends("SEQ_HALT_ON_RESET")
    BY <2>1 DEF Rest
  <2>4. QED
    BY <1>1, <1>3, <1>4, <2>2, <2>3 DEF Allowed, SequenceAt, RegisterAt, Sends, Sets, Step, Simple
<1>5. CASE c = "stmRun"
  <2>1. r \in 1..9 /\ StepOf(c, r) = Rest("stmRun")[10 - r]
    BY <1>1, <1>2, <1>5
  <2>2. r = 1 \/ r = 2 \/ r = 3 \/ r = 4 \/ r = 5 \/ r = 6 \/ r = 7 \/ r = 8 \/ r = 9
    BY <2>1
  <2>3. /\ r = 1 => StepOf(c, r) = Sends("SEQ_UNHALT")
        /\ r = 2 => StepOf(c, r) = Step("poll")
        /\ r = 3 => StepOf(c, r) = Sets("DCRSR", "PC")
        /\ r = 4 => StepOf(c, r) = Sets("DCRDR", 2)
        /\ r = 5 => StepOf(c, r) = Step("poll")
        /\ r = 6 => StepOf(c, r) = Sets("DCRSR", "SP")
        /\ r = 7 => StepOf(c, r) = Sets("DCRDR", 1)
        /\ r = 8 => StepOf(c, r) = Sets("VTOR", "image")
        /\ r = 9 => StepOf(c, r) = Step("stmReadAligned")
    BY <2>1 DEF Rest
  <2>4. QED
    BY <1>1, <1>3, <1>5, <2>2, <2>3 DEF Allowed, SequenceAt, RegisterAt, Sends, Sets, Step, Simple
<1>6. CASE c = "stmExecute"
  <2>1. r \in 1..11 /\ StepOf(c, r) = Rest("stmExecute")[12 - r]
    BY <1>1, <1>2, <1>6
  <2>2. r = 1 \/ r = 2 \/ r = 3 \/ r = 4 \/ r = 5 \/ r = 6 \/ r = 7 \/ r = 8 \/ r = 9 \/ r = 10 \/ r = 11
    BY <2>1
  <2>3. /\ r = 1 => StepOf(c, r) = Sends("SEQ_UNHALT")
        /\ r = 2 => StepOf(c, r) = Step("poll")
        /\ r = 3 => StepOf(c, r) = Sets("DCRSR", "PC")
        /\ r = 4 => StepOf(c, r) = Sets("DCRDR", 2)
        /\ r = 5 => StepOf(c, r) = Step("poll")
    BY <2>1 DEF Rest
  <2>4. /\ r = 6 => StepOf(c, r) = Sets("DCRSR", "SP")
        /\ r = 7 => StepOf(c, r) = Sets("DCRDR", 1)
        /\ r = 8 => StepOf(c, r) = Sets("VTOR", "image")
        /\ r = 9 => StepOf(c, r) = Step("stmWriteAligned")
        /\ r = 10 => StepOf(c, r) = Sends("SEQ_RESET")
        /\ r = 11 => StepOf(c, r) = Sends("SEQ_HALT_ON_RESET")
    BY <2>1 DEF Rest
  <2>5. QED
    BY <1>1, <1>3, <1>6, <2>2, <2>3, <2>4 DEF Allowed, SequenceAt, RegisterAt, Sends, Sets, Step, Simple
<1>7. CASE c = "stmErase"
  <2>1. r \in 1..5 /\ StepOf(c, r) = Rest("stmErase")[6 - r]
    BY <1>1, <1>2, <1>7
  <2>2. r = 1 \/ r = 2 \/ r = 3 \/ r = 4 \/ r = 5
    BY <2>1
  <2>3. /\ r = 1 => StepOf(c, r) = Sends("SEQ_RESET")
        /\ r = 2 => StepOf(c, r) = Sends("SEQ_UNHALT_ON_RESET")
        /\ r = 3 => StepOf(c, r) = Step("stmWriteAligned")
        /\ r = 4 => StepOf(c, r) = Sends("SEQ_RESET")
        /\ r = 5 => StepOf(c, r) = Sends("SEQ_HALT_ON_RESET")
    BY <2>1 DEF Rest
  <2>4. QED
    BY <1>1, <1>3, <1>7, <2>2, <2>3 DEF Allowed, SequenceAt, RegisterAt, Sends, Sets, Step, Simple
<1>8. CASE c = "cheese_test"
  <2>1. r \in 1..6 /\ StepOf(c, r) = Rest("cheese_test")[7 - r]
    BY <1>1, <1>2, <1>8
  <2>2. r = 1 \/ r = 2 \/ r = 3 \/ r = 4 \/ r = 5 \/ r = 6
    BY <2>1
  <2>3. /\ r = 1 => StepOf(c, r) = Step("com_readWord")
        /\ r = 2 => StepOf(c, r) = Step("com_writeWord")
        /\ r = 3 => StepOf(c, r) = Sends("SEQ_UNHALT")
        /\ r = 4 => StepOf(c, r) = Step("sleep")
        /\ r = 5 => StepOf(c, r) = Sends("SEQ_RESET")
        /\ r = 6 => StepOf(c, r) = Sends("SEQ_HALT_ON_RESET")
    BY <2>1 DEF Rest
  <2>4. QED
    BY <1>1, <1>3, <1>8, <2>2, <2>3 DEF Allowed, SequenceAt, RegisterAt, Sends, Sets, Step, Simple
<1>9. QED
  BY <1>4, <1>5, <1>6, <1>7, <1>8 DEF Commands

LEMMA Ends ==
  ASSUME NEW S, NEW s \in Seq(S), s # <<>>
  PROVE  /\ Len(s) \in Nat /\ Len(s) >= 1 /\ Head(s) = s[1] /\ Head(s) \in S
         /\ Tail(s) \in Seq(S) /\ Len(Tail(s)) = Len(s) - 1
         /\ \A k \in 1 .. Len(s) - 1 : Tail(s)[k] = s[k + 1]
  OBVIOUS

LEMMA Sizes ==
  /\ Len(stm_info) \in Nat /\ -1 \in -1 .. Len(stm_info) - 1
  /\ Len(stm_sequences) \in Nat /\ -1 \in -1 .. Len(stm_sequences) - 1
  /\ \A c \in Commands : Length(c) \in Nat /\ Length(c) >= 4
  BY TablesAssumption DEF Commands, Length

(* The step a command is at. *)
LEMMA Place ==
  ASSUME command \in Commands, Placed, todo # <<>>
  PROVE  LET r == Len(todo)  s == ThisStep IN
         /\ r \in Nat /\ r >= 1
         /\ \/ r > Length(command) + 1 /\ s.do = "scan" /\ s.i \in 1..Len(stm_info)
               /\ s.i = Len(stm_info) + Length(command) + 2 - r
            \/ r = Length(command) + 1 /\ s.do = "match"
            \/ r \in 1..Length(command) /\ Allowed(command, r, s)
<1>1. PICK r \in Nat, l \in Nat, n \in Nat :
        r = Len(todo) /\ l = Length(command) /\ n = Len(stm_info)
  BY Sizes DEF Placed
<1>2. r >= 1 /\ r <= n + 1 + l /\ ThisStep = todo[1]
  BY <1>1, Ends DEF Placed, ThisStep
<1>3. todo[1] = StepOf(command, r) \/ todo[1] \in Half(StepOf(command, r))
  <2>1. 1 \in 1..Len(todo) /\ Len(todo) - 1 + 1 = r
    BY <1>1, <1>2
  <2>2. QED
    BY <1>1, <2>1 DEF Placed
<1>4. CASE r > l + 1
  <2>1. StepOf(command, r) = [do |-> "scan", i |-> n + l + 2 - r]
    BY <1>1, <1>4 DEF StepOf
  <2>2. Half(StepOf(command, r)) = {}
    BY <2>1 DEF Half, Sends
  <2>3. n + l + 2 - r \in 1..n
    BY <1>2, <1>4
  <2>4. ThisStep.do = "scan" /\ ThisStep.i = n + l + 2 - r
    BY <1>2, <1>3, <2>1, <2>2
  <2>5. QED
    BY <1>1, <1>2, <1>4, <2>3, <2>4
<1>5. CASE r = l + 1
  <2>1. StepOf(command, r) = Step("match")
    BY <1>1, <1>5 DEF StepOf
  <2>2. Half(StepOf(command, r)) = {}
    BY <2>1 DEF Half, Sends, Step
  <2>3. QED
    BY <1>1, <1>2, <1>3, <1>5, <2>1, <2>2 DEF Step
<1>6. CASE r <= l
  <2>1. r \in 1..Length(command)
    BY <1>1, <1>2, <1>6
  <2>2. Allowed(command, r, todo[1])
    BY <1>3, <2>1, StepAllowed
  <2>3. QED
    BY <1>1, <1>2, <2>1, <2>2
<1>7. QED
  BY <1>4, <1>5, <1>6

LEMMA Replaced ==
  ASSUME NEW x, NEW y, NEW s, s = [do |-> "sequence", writes |-> x]
  PROVE  [s EXCEPT !.writes = y] = [do |-> "sequence", writes |-> y]
<1> DEFINE R == [do : {"sequence"}, writes : {x, y}]
           h == [s EXCEPT !.writes = y]
           k == [do |-> "sequence", writes |-> y]
<1>1. s \in R
  OBVIOUS
<1>2. h \in R /\ h.writes = y /\ h.do = "sequence"
  BY <1>1
<1>3. k \in R /\ k.writes = y /\ k.do = "sequence"
  OBVIOUS
<1> HIDE DEF h, k
<1>4. h = k
  BY <1>2, <1>3
<1>5. QED
  BY <1>4 DEF h, k

(* A step done, and half a step. *)
LEMMA Advance ==
  ASSUME command \in Commands, Placed, todo # <<>>, Done, command' = command
  PROVE  Placed' /\ Len(todo') = Len(todo) - 1
<1>1. PICK r \in Nat, n \in Nat, l \in Nat :
        r = Len(todo) /\ n = Len(stm_info) /\ l = Length(command)
  BY Sizes DEF Placed
<1>2. /\ todo' \in Seq(Steps) /\ r >= 1 /\ Len(todo') = r - 1
      /\ \A k \in 1 .. r - 1 : todo'[k] = todo[k + 1]
  BY <1>1, Ends DEF Placed, Done
<1>3. ASSUME NEW k \in 1 .. r - 1 PROVE todo'[k] = StepOf(command, (r - 1) - k + 1)
  <2>1. k + 1 \in 1..r /\ k + 1 # 1 /\ r - (k + 1) + 1 = (r - 1) - k + 1
    BY <1>1
  <2>2. todo[k + 1] = StepOf(command, r - (k + 1) + 1)
    BY <1>1, <2>1 DEF Placed
  <2>3. QED
    BY <1>2, <2>1, <2>2
<1>4. r - 1 <= n + 1 + l
  BY <1>1 DEF Placed
<1>5. Len(todo') <= Len(stm_info) + 1 + Length(command')
  BY <1>1, <1>2, <1>4
<1>6. \A k \in 1..Len(todo') : todo'[k] = StepOf(command', Len(todo') - k + 1)
  BY <1>2, <1>3
<1>7. QED
  BY <1>1, <1>2, <1>5, <1>6 DEF Placed

LEMMA HalfAdvance ==
  ASSUME command \in Commands, Placed, At("sequence"), Len(ThisStep.writes) # 1, command' = command,
         todo' = <<[ThisStep EXCEPT !.writes = Tail(@)]>> \o Tail(todo)
  PROVE  /\ Placed' /\ Len(todo') = Len(todo) /\ todo' # <<>>
         /\ \/ /\ command # "stmRun" /\ Len(todo) = Length(command)
               /\ ThisStep = Sends("SEQ_HALT_ON_RESET")
               /\ todo'[1] = [do |-> "sequence", writes |-> <<W("DHCSR", Run)>>]
            \/ /\ command = "stmErase" /\ Len(todo) = 2
               /\ ThisStep = Sends("SEQ_UNHALT_ON_RESET")
               /\ todo'[1] = [do |-> "sequence", writes |-> <<W("DHCSR", Leave)>>]
<1>1. PICK r \in Nat, l \in Nat : r = Len(todo) /\ l = Length(command)
  BY Sizes DEF Placed
<1>2. todo # <<>> /\ ThisStep = todo[1] /\ ThisStep \in Steps /\ r >= 1 /\ ThisStep.do = "sequence"
  BY <1>1, Ends DEF Placed, ThisStep, At
<1>3. Len(Sequence("SEQ_UNHALT")) = 1 /\ Len(Sequence("SEQ_RESET")) = 1
  BY DEF Sequence
<1>4. \/ ThisStep = Sends("SEQ_HALT_ON_RESET")
      \/ ThisStep = Sends("SEQ_UNHALT_ON_RESET")
  <2>1. \A t \in PartSent : Len(t.writes) = 1
    BY DEF PartSent
  <2>2. ThisStep \notin PartSent
    BY <2>1
  <2>3. ThisStep \in {Sends(q) : q \in SequenceNames}
    BY <1>2, <2>2 DEF Steps, Step, Sets, Simple
  <2>4. QED
    BY <1>3, <2>3 DEF SequenceNames, Sends
<1>5. /\ Sequence("SEQ_HALT_ON_RESET") = <<W("DEMCR", TRUE), W("DHCSR", Run)>>
      /\ Sequence("SEQ_UNHALT_ON_RESET") = <<W("DEMCR", FALSE), W("DHCSR", Leave)>>
      /\ Sequence("SEQ_UNHALT") = <<W("DHCSR", Run)>> /\ Sequence("SEQ_RESET") = <<W("AIRCR", TRUE)>>
  BY DEF Sequence
<1>6. SequenceAt(command, r, ThisStep.writes)
  BY <1>1, <1>2, Place DEF Allowed
<1>7. /\ ThisStep = Sends("SEQ_HALT_ON_RESET") => command # "stmRun" /\ r = l
      /\ ThisStep = Sends("SEQ_UNHALT_ON_RESET") => command = "stmErase" /\ r = 2
  <2>1. Sequence("SEQ_HALT_ON_RESET") # Sequence("SEQ_UNHALT_ON_RESET")
    <3>1. <<W("DEMCR", TRUE), W("DHCSR", Run)>>[1].val # <<W("DEMCR", FALSE), W("DHCSR", Leave)>>[1].val
      BY DEF W
    <3>2. QED
      BY <1>5, <3>1
  <2>2. Len(Sequence("SEQ_HALT_ON_RESET")) = 2 /\ Len(Sequence("SEQ_UNHALT_ON_RESET")) = 2
    BY <1>5
  <2>3. Len(<<W("DHCSR", Run)>>) = 1 /\ Len(<<W("DHCSR", Leave)>>) = 1
    OBVIOUS
  <2>4. QED
    BY <1>1, <1>3, <1>6, <2>1, <2>2, <2>3 DEF SequenceAt, Sends
<1>8. todo[1] = StepOf(command, r)
  <2>1. 1 \in 1..Len(todo) /\ Len(todo) - 1 + 1 = r
    BY <1>1, <1>2
  <2>2. todo[1] = StepOf(command, r) \/ todo[1] \in Half(StepOf(command, r))
    BY <1>1, <2>1 DEF Placed
  <2>3. \A x : \A t \in Half(x) : Len(t.writes) = 1
    BY DEF Half
  <2>4. QED
    BY <1>2, <2>2, <2>3
<1> DEFINE h == [ThisStep EXCEPT !.writes = Tail(@)]
<1>9. /\ ThisStep = Sends("SEQ_HALT_ON_RESET") => h = [do |-> "sequence", writes |-> <<W("DHCSR", Run)>>]
      /\ ThisStep = Sends("SEQ_UNHALT_ON_RESET") => h = [do |-> "sequence", writes |-> <<W("DHCSR", Leave)>>]
  <2>1. \A a, b : Tail(<<a, b>>) = <<b>>
    OBVIOUS
  <2>2. /\ Tail(Sequence("SEQ_HALT_ON_RESET")) = <<W("DHCSR", Run)>>
        /\ Tail(Sequence("SEQ_UNHALT_ON_RESET")) = <<W("DHCSR", Leave)>>
    BY <1>5, <2>1
  <2>3. ASSUME NEW q, ThisStep = Sends(q)
        PROVE  h = [do |-> "sequence", writes |-> Tail(Sequence(q))]
    <3>1. ThisStep = [do |-> "sequence", writes |-> Sequence(q)] /\ ThisStep.writes = Sequence(q)
      BY <2>3 DEF Sends
    <3>2. [ThisStep EXCEPT !.writes = Tail(Sequence(q))]
            = [do |-> "sequence", writes |-> Tail(Sequence(q))]
      BY <3>1, Replaced
    <3>3. QED
      BY <3>1, <3>2
  <2> HIDE DEF h
  <2>4. QED
    BY <2>2, <2>3
<1>10. h \in Steps /\ h \in Half(StepOf(command, r))
  <2>1. h \in PartSent
    BY <1>4, <1>9 DEF PartSent
  <2>2. QED
    BY <1>2, <1>4, <1>5, <1>8, <1>9, <2>1 DEF Steps, Half
<1> HIDE DEF h
<1>11. /\ todo' \in Seq(Steps) /\ Len(todo') = r /\ todo'[1] = h
       /\ \A k \in 2..r : todo'[k] = todo[k]
  <2>1. /\ Tail(todo) \in Seq(Steps) /\ Len(Tail(todo)) = r - 1
        /\ \A k \in 1 .. r - 1 : Tail(todo)[k] = todo[k + 1]
    BY <1>1, <1>2, Ends DEF Placed
  <2> DEFINE a == <<h>>
             b == Tail(todo)
  <2>2. a \in Seq(Steps) /\ Len(a) = 1 /\ a[1] = h
    BY <1>10
  <2>3. todo' = a \o b
    BY DEF h
  <2> HIDE DEF a, b
  <2>4. b \in Seq(Steps) /\ Len(b) = r - 1 /\ \A k \in 1 .. r - 1 : b[k] = todo[k + 1]
    BY <2>1 DEF b
  <2>5. /\ a \o b \in Seq(Steps) /\ Len(a \o b) = Len(a) + Len(b)
        /\ \A k \in 1 .. Len(a) + Len(b) : (a \o b)[k] = IF k <= Len(a) THEN a[k] ELSE b[k - Len(a)]
    BY <2>2, <2>4, Concat
  <2>6. Len(todo') = r /\ todo'[1] = h
    BY <1>1, <1>2, <2>2, <2>3, <2>4, <2>5
  <2>7. ASSUME NEW k \in 2..r PROVE todo'[k] = todo[k]
    <3>1. k \in 1 .. 1 + (r - 1) /\ ~(k <= 1) /\ k - 1 \in 1 .. r - 1 /\ (k - 1) + 1 = k
      BY <1>1, <2>7
    <3>2. todo'[k] = b[k - 1]
      BY <2>2, <2>3, <2>4, <2>5, <3>1
    <3>3. QED
      BY <2>4, <3>1, <3>2
  <2>8. QED
    BY <2>3, <2>5, <2>6, <2>7
<1>12. Placed'
  <2>1. ASSUME NEW k \in 1..r
        PROVE  todo'[k] = StepOf(command, r - k + 1) \/ (k = 1 /\ todo'[k] \in Half(StepOf(command, r)))
    <3>1. CASE k = 1
      BY <1>10, <1>11, <3>1
    <3>2. CASE k # 1
      <4>1. k \in 2..r
        BY <3>2
      <4>2. QED
        BY <1>1, <1>11, <3>2, <4>1 DEF Placed
    <3>3. QED
      BY <3>1, <3>2
  <2>2. Len(todo') <= Len(stm_info) + 1 + Length(command')
    BY <1>1, <1>11 DEF Placed
  <2>3. QED
    BY <1>1, <1>11, <2>1, <2>2 DEF Placed
<1>13. todo' # <<>>
  BY <1>2, <1>11
<1>14. QED
  BY <1>1, <1>4, <1>7, <1>9, <1>11, <1>12, <1>13

-----------------------------------------------------------------------------
(* Types *)

(* What a command works on, which is there from the call on. *)
Loaded ==
  todo # <<>> =>
    /\ Len(data) >= 2
    /\ command # "stmRun" => Len(data) = Words
    /\ command \in {"stmWrite", "stmExecute"} => data = Image

(* The registers of the core after a write. *)
LEMMA WritesDHCSRRun ==
  ASSUME core \in CoreStates, NEW w, w.reg = "DHCSR", w.val = Run, NEW n, n = Written(w)
  PROVE  /\ n \in CoreStates /\ n.halted = FALSE /\ n.debugen = TRUE
         /\ n.vcreset = core.vcreset /\ n.resetting = core.resetting /\ n.select = core.select
         /\ n.dcrdr = core.dcrdr /\ n.regs = core.regs /\ n.vtor = core.vtor
<1>1. n = [core EXCEPT !.debugen = TRUE, !.halted = FALSE]
  <2>1. ("C_DEBUGEN" \in w.val) = TRUE
    BY DEF Run
  <2>2. n = [core EXCEPT !.debugen = "C_DEBUGEN" \in w.val, !.halted = FALSE]
    BY DEF Written
  <2>3. QED
    BY <2>1, <2>2, Zenon
<1>2. QED
  BY <1>1 DEF CoreStates

LEMMA WritesDHCSRLeave ==
  ASSUME core \in CoreStates, NEW w, w.reg = "DHCSR", w.val = Leave, NEW n, n = Written(w)
  PROVE  /\ n \in CoreStates /\ n.halted = FALSE /\ n.debugen = FALSE
         /\ n.vcreset = core.vcreset /\ n.resetting = core.resetting /\ n.select = core.select
         /\ n.dcrdr = core.dcrdr /\ n.regs = core.regs /\ n.vtor = core.vtor
<1>1. n = [core EXCEPT !.debugen = FALSE, !.halted = FALSE]
  <2>1. ("C_DEBUGEN" \in w.val) = FALSE
    BY DEF Leave
  <2>2. n = [core EXCEPT !.debugen = "C_DEBUGEN" \in w.val, !.halted = FALSE]
    BY DEF Written
  <2>3. QED
    BY <2>1, <2>2, Zenon
<1>2. QED
  BY <1>1 DEF CoreStates

LEMMA WritesDEMCR ==
  ASSUME core \in CoreStates, NEW w, w.reg = "DEMCR", w.val \in BOOLEAN, NEW n, n = Written(w)
  PROVE  /\ n \in CoreStates /\ n.vcreset = w.val /\ n.halted = core.halted
         /\ n.debugen = core.debugen /\ n.resetting = core.resetting /\ n.select = core.select
         /\ n.dcrdr = core.dcrdr /\ n.regs = core.regs /\ n.vtor = core.vtor
<1>1. n = [core EXCEPT !.vcreset = w.val]
  BY DEF Written
<1>2. QED
  BY <1>1 DEF CoreStates

LEMMA WritesAIRCR ==
  ASSUME core \in CoreStates, NEW w, w.reg = "AIRCR", NEW n, n = Written(w)
  PROVE  /\ n \in CoreStates /\ n.resetting = TRUE /\ n.halted = core.halted
         /\ n.debugen = core.debugen /\ n.vcreset = core.vcreset /\ n.select = core.select
         /\ n.dcrdr = core.dcrdr /\ n.regs = core.regs /\ n.vtor = core.vtor
<1>1. n = [core EXCEPT !.resetting = TRUE]
  BY DEF Written
<1>2. QED
  BY <1>1 DEF CoreStates

LEMMA WritesVTOR ==
  ASSUME core \in CoreStates, NEW w, w.reg = "VTOR", w.val = "image", NEW n, n = Written(w)
  PROVE  /\ n \in CoreStates /\ n.vtor = "image" /\ n.halted = core.halted
         /\ n.debugen = core.debugen /\ n.vcreset = core.vcreset
         /\ n.resetting = core.resetting /\ n.select = core.select /\ n.dcrdr = core.dcrdr
         /\ n.regs = core.regs
<1>1. n = [core EXCEPT !.vtor = "image"]
  BY DEF Written
<1>2. QED
  BY <1>1 DEF CoreStates

LEMMA WritesDCRDR ==
  ASSUME core \in CoreStates, NEW w, w.reg = "DCRDR", data[w.val] \in Values, NEW n, n = Written(w)
  PROVE  /\ n \in CoreStates /\ n.dcrdr = data[w.val] /\ n.halted = core.halted
         /\ n.debugen = core.debugen /\ n.vcreset = core.vcreset
         /\ n.resetting = core.resetting /\ n.select = core.select /\ n.regs = core.regs
         /\ n.vtor = core.vtor
<1>1. n = [core EXCEPT !.dcrdr = data[w.val]]
  BY DEF Written
<1>2. QED
  BY <1>1 DEF CoreStates

LEMMA WritesDCRSR ==
  ASSUME core \in CoreStates, NEW w, w.reg = "DCRSR", w.val \in CoreRegs, NEW n, n = Written(w)
  PROVE  /\ n \in CoreStates /\ n.select = w.val /\ n.halted = core.halted
         /\ n.debugen = core.debugen /\ n.vcreset = core.vcreset
         /\ n.resetting = core.resetting /\ n.dcrdr = core.dcrdr /\ n.regs = core.regs
         /\ n.vtor = core.vtor
<1>1. n = [core EXCEPT !.select = w.val]
  BY DEF Written
<1>2. QED
  BY <1>1 DEF CoreStates

LEMMA WritesDiffer ==
  /\ W("DHCSR", Leave) # W("DHCSR", Run)
  /\ W("DHCSR", Leave) # W("AIRCR", TRUE)
  /\ W("DHCSR", Run) # W("AIRCR", TRUE)
<1>1. W("DHCSR", Leave).val # W("DHCSR", Run).val
  BY DEF W, Run, Leave
<1>2. /\ W("DHCSR", Leave).reg # W("AIRCR", TRUE).reg
      /\ W("DHCSR", Run).reg # W("AIRCR", TRUE).reg
  BY DEF W
<1>3. QED
  BY <1>1, <1>2

LEMMA SequenceIs ==
  /\ Len(Sequence("SEQ_HALT_ON_RESET")) = 2 /\ Head(Sequence("SEQ_HALT_ON_RESET")) = W("DEMCR", TRUE)
  /\ Len(Sequence("SEQ_UNHALT_ON_RESET")) = 2 /\ Head(Sequence("SEQ_UNHALT_ON_RESET")) = W("DEMCR", FALSE)
  /\ Len(Sequence("SEQ_UNHALT")) = 1 /\ Head(Sequence("SEQ_UNHALT")) = W("DHCSR", Run)
  /\ Len(Sequence("SEQ_RESET")) = 1 /\ Head(Sequence("SEQ_RESET")) = W("AIRCR", TRUE)
  /\ Len(<<W("DHCSR", Run)>>) = 1 /\ Head(<<W("DHCSR", Run)>>) = W("DHCSR", Run)
  /\ Len(<<W("DHCSR", Leave)>>) = 1 /\ Head(<<W("DHCSR", Leave)>>) = W("DHCSR", Leave)
<1> HIDE DEF W
<1>1. QED
  BY DEF Sequence

(* What each write of a sequence does, and when it is sent: r and r2 steps are   *)
(* left before and after it, n is the core afterwards.                          *)
Effect(r, r2, n) ==
  \/ /\ command # "stmRun" /\ r = Length(command) /\ r2 = Length(command) /\ n.vcreset = TRUE
     /\ n.halted = core.halted /\ n.debugen = core.debugen /\ n.resetting = core.resetting
  \/ /\ command # "stmRun" /\ r = Length(command) /\ r2 = Length(command) - 1 /\ todo[1] # Sends("SEQ_HALT_ON_RESET")
     /\ n.halted = FALSE /\ n.debugen = TRUE
     /\ n.vcreset = core.vcreset /\ n.resetting = core.resetting
  \/ /\ (command # "stmRun" /\ r = Length(command) - 1) \/ (command = "stmErase" /\ r = 1)
     /\ r2 = r - 1 /\ n.resetting = TRUE
     /\ n.halted = core.halted /\ n.debugen = core.debugen /\ n.vcreset = core.vcreset
  \/ /\ \/ command \in {"stmRun", "stmExecute"} /\ r = 1
        \/ command = "cheese_test" /\ r = 3
     /\ r2 = r - 1 /\ n.halted = FALSE /\ n.debugen = TRUE
     /\ n.vcreset = core.vcreset /\ n.resetting = core.resetting
  \/ /\ command = "stmErase" /\ r = 2 /\ r2 = 2 /\ n.vcreset = FALSE
     /\ n.halted = core.halted /\ n.debugen = core.debugen /\ n.resetting = core.resetting
  \/ /\ command = "stmErase" /\ r = 2 /\ r2 = 1 /\ todo[1] # Sends("SEQ_UNHALT_ON_RESET")
     /\ n.halted = FALSE /\ n.debugen = FALSE
     /\ n.vcreset = core.vcreset /\ n.resetting = core.resetting

LEMMA EffectSteps ==
  ASSUME NEW r, NEW r2, NEW n, Effect(r, r2, n)
  PROVE  r2 = r \/ r2 = r - 1
  BY DEF Effect

LEMMA Sent ==
  ASSUME command \in Commands, Placed, core \in CoreStates, SequenceWrite
  PROVE  /\ Placed' /\ core' \in CoreStates
         /\ core'.select = core.select /\ core'.dcrdr = core.dcrdr
         /\ core'.regs = core.regs /\ core'.vtor = core.vtor
         /\ Effect(Len(todo), Len(todo'), core')
<1> DEFINE w == Head(ThisStep.writes)
           n == core'
<1>1. /\ At("sequence") /\ todo # <<>> /\ command' = command /\ n = Written(w)
      /\ todo' = IF Len(ThisStep.writes) = 1 THEN Tail(todo)
                 ELSE <<[ThisStep EXCEPT !.writes = Tail(@)]>> \o Tail(todo)
  BY DEF SequenceWrite, At
<1>2. PICK r \in Nat, l \in Nat : r = Len(todo) /\ l = Length(command) /\ r >= 1 /\ l >= 4
  BY <1>1, Sizes, Place
<1>3. SequenceAt(command, r, ThisStep.writes) /\ ThisStep = todo[1]
  BY <1>1, <1>2, Place, Ends DEF Allowed, At, ThisStep, Placed
<1>4. \A v, x : W(v, x).reg = v /\ W(v, x).val = x
  BY DEF W
<1>5. CASE Len(ThisStep.writes) = 1
  <2>1. Placed' /\ Len(todo') = r - 1
    BY <1>1, <1>2, <1>5, Advance DEF Done
  <2>2. ThisStep # Sends("SEQ_HALT_ON_RESET") /\ ThisStep # Sends("SEQ_UNHALT_ON_RESET")
    <3>1. \A q : Sends(q).writes = Sequence(q)
      BY DEF Sends
    <3>2. QED
      BY <1>5, <3>1, SequenceIs
  <2>3. \/ command # "stmRun" /\ r = l /\ w = W("DHCSR", Run)
        \/ command # "stmRun" /\ r = l - 1 /\ w = W("AIRCR", TRUE)
        \/ command \in {"stmRun", "stmExecute"} /\ r = 1 /\ w = W("DHCSR", Run)
        \/ command = "stmErase" /\ r = 2 /\ w = W("DHCSR", Leave)
        \/ command = "stmErase" /\ r = 1 /\ w = W("AIRCR", TRUE)
        \/ command = "cheese_test" /\ r = 3 /\ w = W("DHCSR", Run)
    <3>1. PICK ws : ws = ThisStep.writes /\ Len(ws) = 1 /\ w = Head(ws)
      BY <1>5
    <3>2. SequenceAt(command, r, ws)
      BY <1>3, <3>1
    <3> HIDE DEF w
    <3>3. /\ ws = Sequence("SEQ_RESET") => w = W("AIRCR", TRUE)
          /\ ws = Sequence("SEQ_UNHALT") => w = W("DHCSR", Run)
          /\ ws = <<W("DHCSR", Run)>> => w = W("DHCSR", Run)
          /\ ws = <<W("DHCSR", Leave)>> => w = W("DHCSR", Leave)
      BY <3>1, SequenceIs, Zenon
    <3>4. ws # Sequence("SEQ_HALT_ON_RESET") /\ ws # Sequence("SEQ_UNHALT_ON_RESET")
      <4>1. Len(Sequence("SEQ_HALT_ON_RESET")) = 2 /\ Len(Sequence("SEQ_UNHALT_ON_RESET")) = 2
        BY SequenceIs
      <4>2. QED
        BY <3>1, <4>1
    <3>5. QED
      BY <1>2, <3>2, <3>3, <3>4 DEF SequenceAt
  <2> HIDE DEF n, w
  <2>4. ASSUME w = W("DHCSR", Run)
        PROVE  /\ n \in CoreStates /\ n.halted = FALSE /\ n.debugen = TRUE
               /\ n.vcreset = core.vcreset /\ n.resetting = core.resetting
               /\ n.select = core.select /\ n.dcrdr = core.dcrdr /\ n.regs = core.regs /\ n.vtor = core.vtor
    <3>1. n = Written(w) /\ w.reg = "DHCSR" /\ w.val = Run
      BY <1>1, <1>4, <2>4
    <3>2. QED
      BY <3>1, WritesDHCSRRun
  <2>5. ASSUME w = W("DHCSR", Leave)
        PROVE  /\ n \in CoreStates /\ n.halted = FALSE /\ n.debugen = FALSE
               /\ n.vcreset = core.vcreset /\ n.resetting = core.resetting
               /\ n.select = core.select /\ n.dcrdr = core.dcrdr /\ n.regs = core.regs /\ n.vtor = core.vtor
    <3>1. n = Written(w) /\ w.reg = "DHCSR" /\ w.val = Leave
      BY <1>1, <1>4, <2>5
    <3>2. QED
      BY <3>1, WritesDHCSRLeave
  <2>6. ASSUME w = W("AIRCR", TRUE)
        PROVE  /\ n \in CoreStates /\ n.resetting = TRUE
               /\ n.halted = core.halted /\ n.debugen = core.debugen /\ n.vcreset = core.vcreset
               /\ n.select = core.select /\ n.dcrdr = core.dcrdr /\ n.regs = core.regs /\ n.vtor = core.vtor
    BY <1>1, <1>4, <2>6, WritesAIRCR
  <2>7. /\ n \in CoreStates
        /\ n.select = core.select /\ n.dcrdr = core.dcrdr /\ n.regs = core.regs /\ n.vtor = core.vtor
    BY <2>3, <2>4, <2>5, <2>6
  <2>8. Effect(r, r - 1, n)
    <3>1. CASE w = W("DHCSR", Run)
      <4>1. \/ command # "stmRun" /\ r = l
            \/ command \in {"stmRun", "stmExecute"} /\ r = 1
            \/ command = "cheese_test" /\ r = 3
        BY <2>3, <3>1, WritesDiffer
      <4>2. QED
        BY <1>2, <1>3, <2>2, <2>4, <3>1, <4>1 DEF Effect
    <3>2. CASE w = W("DHCSR", Leave)
      <4>1. command = "stmErase" /\ r = 2
        BY <2>3, <3>2, WritesDiffer
      <4>2. r - 1 = 1 /\ todo[1] # Sends("SEQ_UNHALT_ON_RESET")
        BY <1>2, <1>3, <2>2, <4>1
      <4>3. /\ n.halted = FALSE /\ n.debugen = FALSE
            /\ n.vcreset = core.vcreset /\ n.resetting = core.resetting
        BY <2>5, <3>2
      <4>4. QED
        BY <4>1, <4>2, <4>3 DEF Effect
    <3>3. CASE w = W("AIRCR", TRUE)
      <4>1. (command # "stmRun" /\ r = l - 1) \/ (command = "stmErase" /\ r = 1)
        BY <2>3, <3>3, WritesDiffer
      <4>2. QED
        BY <1>2, <2>6, <3>3, <4>1 DEF Effect
    <3>4. QED
      BY <2>3, <3>1, <3>2, <3>3
  <2>9. QED
    BY <1>2, <2>1, <2>7, <2>8 DEF n
<1>6. CASE Len(ThisStep.writes) # 1
  <2>1. /\ Placed' /\ Len(todo') = r
        /\ \/ command # "stmRun" /\ r = l /\ ThisStep = Sends("SEQ_HALT_ON_RESET")
           \/ command = "stmErase" /\ r = 2 /\ ThisStep = Sends("SEQ_UNHALT_ON_RESET")
    <3>1. todo' = <<[ThisStep EXCEPT !.writes = Tail(@)]>> \o Tail(todo)
      BY <1>1, <1>6
    <3>2. QED
      BY <1>1, <1>2, <1>6, <3>1, HalfAdvance
  <2>2. /\ ThisStep = Sends("SEQ_HALT_ON_RESET") => w = W("DEMCR", TRUE)
        /\ ThisStep = Sends("SEQ_UNHALT_ON_RESET") => w = W("DEMCR", FALSE)
    <3>1. \A q : Sends(q).writes = Sequence(q)
      BY DEF Sends
    <3>2. QED
      BY <3>1, SequenceIs
  <2> HIDE DEF n, w
  <2>3. ASSUME NEW b \in BOOLEAN, w = W("DEMCR", b)
        PROVE  /\ n \in CoreStates /\ n.vcreset = b
               /\ n.select = core.select /\ n.dcrdr = core.dcrdr /\ n.regs = core.regs /\ n.vtor = core.vtor
               /\ n.halted = core.halted /\ n.debugen = core.debugen /\ n.resetting = core.resetting
    BY <1>1, <1>4, <2>3, WritesDEMCR
  <2>4. Effect(r, r, n)
    BY <1>2, <2>1, <2>2, <2>3 DEF Effect
  <2>5. QED
    BY <1>2, <2>1, <2>2, <2>3, <2>4 DEF n
<1>7. QED
  BY <1>5, <1>6

(* What each write to a register of the core does. *)
LEMMA RegisterEffect ==
  ASSUME command \in Commands, Placed, core \in CoreStates, data \in Seq(Values), Loaded, RegisterWrite
  PROVE  LET r == Len(todo) IN
         /\ Placed' /\ core' \in CoreStates /\ Len(todo') = r - 1
         /\ command \in {"stmRun", "stmExecute"} /\ r \in {8, 7, 6, 4, 3}
         /\ core'.halted = core.halted /\ core'.debugen = core.debugen /\ core'.vcreset = core.vcreset
         /\ core'.resetting = core.resetting /\ core'.regs = core.regs
         /\ core'.vtor = IF r = 8 THEN "image" ELSE core.vtor
         /\ core'.dcrdr = IF r = 7 THEN data[1] ELSE IF r = 4 THEN data[2] ELSE core.dcrdr
         /\ \/ core'.select = IF r = 6 THEN "SP" ELSE IF r = 3 THEN "PC" ELSE core.select
            \/ ~core.halted /\ disturbed'
<1>1. PICK r \in Nat : r = Len(todo)
  BY DEF Placed
<1>2. /\ At("register") /\ todo # <<>> /\ Done /\ command' = command
      /\ core' = Written(ThisStep) \/ (ThisStep.reg = "DCRSR" /\ ~core.halted /\ core' = core /\ disturbed')
  BY DEF RegisterWrite, At, Reached
<1>3. command \in {"stmRun", "stmExecute"} /\ RegisterAt(r, ThisStep)
  BY <1>1, <1>2, Place DEF Allowed, At, ThisStep
<1>4. Placed' /\ Len(todo') = r - 1
  BY <1>1, <1>2, Advance
<1>5. data[1] \in Values /\ data[2] \in Values
  BY <1>2 DEF Loaded
<1>6. PICK w : w = ThisStep
  OBVIOUS
<1>7. CASE r = 8
  <2>1. w.reg = "VTOR" /\ w.val = "image" /\ core' = Written(w)
    BY <1>2, <1>3, <1>6, <1>7 DEF RegisterAt
  <2>2. QED
    BY <1>1, <1>3, <1>4, <1>7, <2>1, WritesVTOR
<1>8. CASE r = 7
  <2>1. w.reg = "DCRDR" /\ w.val = 1 /\ core' = Written(w) /\ data[w.val] \in Values
    BY <1>2, <1>3, <1>5, <1>6, <1>8 DEF RegisterAt
  <2>2. QED
    BY <1>1, <1>3, <1>4, <1>8, <2>1, WritesDCRDR
<1>9. CASE r = 4
  <2>1. w.reg = "DCRDR" /\ w.val = 2 /\ core' = Written(w) /\ data[w.val] \in Values
    BY <1>2, <1>3, <1>5, <1>6, <1>9 DEF RegisterAt
  <2>2. QED
    BY <1>1, <1>3, <1>4, <1>9, <2>1, WritesDCRDR
<1>10. CASE r = 6
  <2>1. w.reg = "DCRSR" /\ w.val = "SP" /\ w.val \in CoreRegs
    BY <1>3, <1>6, <1>10 DEF RegisterAt, CoreRegs
  <2>2. CASE core' = Written(w)
    BY <1>1, <1>3, <1>4, <1>10, <2>1, <2>2, WritesDCRSR
  <2>3. CASE ~core.halted /\ core' = core /\ disturbed'
    BY <1>1, <1>3, <1>4, <1>10, <2>3
  <2>4. QED
    BY <1>2, <1>6, <2>2, <2>3
<1>11. CASE r = 3
  <2>1. w.reg = "DCRSR" /\ w.val = "PC" /\ w.val \in CoreRegs
    BY <1>3, <1>6, <1>11 DEF RegisterAt, CoreRegs
  <2>2. CASE core' = Written(w)
    BY <1>1, <1>3, <1>4, <1>11, <2>1, <2>2, WritesDCRSR
  <2>3. CASE ~core.halted /\ core' = core /\ disturbed'
    BY <1>1, <1>3, <1>4, <1>11, <2>3
  <2>4. QED
    BY <1>2, <1>6, <2>2, <2>3
<1>12. QED
  BY <1>3, <1>7, <1>8, <1>9, <1>10, <1>11 DEF RegisterAt

(* Only a halted core takes the selection of a register for certain. *)
LEMMA RegisterReached ==
  ASSUME command \in Commands, Placed, RegisterWrite, ~disturbed'
  PROVE  /\ ~disturbed /\ ~core.resetting
         /\ Len(todo) \in {6, 3} => core.halted
<1>1. PICK r \in Nat : r = Len(todo)
  BY DEF Placed
<1>2. /\ ThisStep.do = "register" /\ todo # <<>>
      /\ ~disturbed /\ ~core.resetting /\ ~(ThisStep.reg = "DCRSR" /\ ~core.halted)
  BY DEF RegisterWrite, At, ThisStep, Reached
<1>3. RegisterAt(r, ThisStep)
  BY <1>1, <1>2, Place DEF Allowed
<1>4. r \in {6, 3} => ThisStep.reg = "DCRSR"
  BY <1>3 DEF RegisterAt
<1>5. QED
  BY <1>1, <1>2, <1>4

LEMMA Reset ==
  ASSUME core \in CoreStates, CoreReset
  PROVE  /\ core' \in CoreStates /\ core.resetting
         /\ core'.resetting = FALSE /\ core'.halted = (core.vcreset /\ core.debugen)
         /\ core'.debugen = core.debugen /\ core'.vcreset = core.vcreset
<1> DEFINE h == core.vcreset /\ core.debugen
<1>1. core' = [core EXCEPT !.resetting = FALSE, !.halted = h, !.select = NoReg,
                           !.regs = [r \in CoreRegs |-> Other], !.vtor = "reset"]
  BY DEF CoreReset
<1>2. core.resetting /\ Other \in Values
  BY DEF CoreReset, Values, Other
<1>3. CASE h
  <2>1. h = TRUE
    BY <1>3
  <2>2. core' = [core EXCEPT !.resetting = FALSE, !.halted = TRUE, !.select = NoReg,
                             !.regs = [r \in CoreRegs |-> Other], !.vtor = "reset"]
    BY <1>1, <2>1, Zenon
  <2>3. QED
    BY <1>2, <1>3, <2>2 DEF CoreStates
<1>4. CASE ~h
  <2>1. h = FALSE
    BY <1>4
  <2>2. core' = [core EXCEPT !.resetting = FALSE, !.halted = FALSE, !.select = NoReg,
                             !.regs = [r \in CoreRegs |-> Other], !.vtor = "reset"]
    BY <1>1, <2>1, Zenon
  <2>3. QED
    BY <1>2, <1>4, <2>2 DEF CoreStates
<1>5. QED
  BY <1>3, <1>4

LEMMA Transfers ==
  ASSUME core \in CoreStates, CoreTransfer
  PROVE  /\ core' \in CoreStates /\ core.halted /\ core.select \in CoreRegs /\ core'.select = NoReg
         /\ core'.regs = [core.regs EXCEPT ![core.select] = core.dcrdr]
         /\ core'.halted = core.halted /\ core'.debugen = core.debugen /\ core'.vcreset = core.vcreset
         /\ core'.resetting = core.resetting /\ core'.dcrdr = core.dcrdr /\ core'.vtor = core.vtor
<1>1. core.halted /\ core.select \in CoreRegs /\ core.dcrdr \in Values
  BY DEF CoreTransfer, S_REGRDY, CoreStates
<1>2. core' = [core EXCEPT !.select = NoReg, !.regs[core.select] = core.dcrdr]
  BY DEF CoreTransfer
<1>3. QED
  BY <1>1, <1>2 DEF CoreStates

LEMMA Runs ==
  ASSUME core \in CoreStates, CoreRuns
  PROVE  /\ core' \in CoreStates /\ ~core.halted /\ ~core.resetting
         /\ core'.regs = [r \in CoreRegs |-> Other] /\ core'.select = core.select
         /\ core'.halted = core.halted /\ core'.debugen = core.debugen /\ core'.vcreset = core.vcreset
         /\ core'.resetting = core.resetting /\ core'.dcrdr = core.dcrdr /\ core'.vtor = core.vtor
<1>1. [r \in CoreRegs |-> Other] \in [CoreRegs -> Values]
  BY DEF Values, Other
<1>2. PICK z : z = [r \in CoreRegs |-> Other] /\ z \in [CoreRegs -> Values]
  BY <1>1
<1>3. core' = [core EXCEPT !.regs = z] /\ ~core.halted /\ ~core.resetting
  BY <1>2 DEF CoreRuns
<1>4. /\ core' \in CoreStates /\ core'.regs = z /\ core'.select = core.select
      /\ core'.halted = core.halted /\ core'.debugen = core.debugen /\ core'.vcreset = core.vcreset
      /\ core'.resetting = core.resetting /\ core'.dcrdr = core.dcrdr /\ core'.vtor = core.vtor
  BY <1>2, <1>3 DEF CoreStates
<1>5. QED
  BY <1>2, <1>3, <1>4

Typed == TypeOK /\ Placed /\ Loaded

LEMMA ImageTypes ==
  /\ Image \in Seq(Values) /\ Len(Image) = Words
  /\ Image[1] = 1 /\ Image[2] = 2
  BY DEF Image, Values, Other

LEMMA TypedInit ==
  ASSUME Init
  PROVE  Typed
<1>1. Placed
  <2>1. todo = <<>> /\ todo \in Seq(Steps) /\ Len(todo) = 0 /\ command \in Commands
    BY DEF Init, Commands
  <2>2. QED
    BY <2>1, Sizes DEF Placed
<1>2. Loaded
  BY DEF Init, Loaded
<1>3. core \in CoreStates /\ ram \in [1..Words -> Values]
  BY DEF Init, CoreStates, Values, Other, CoreRegs
<1>4. /\ target \in Targets /\ command \in Commands /\ data \in Seq(Values)
      /\ reply \in {0, -2, -11} /\ disturbed \in BOOLEAN
      /\ currentDeviceIndex = -1 /\ currentSequenceDeviceIndex = -1
  BY DEF Init, Commands
<1>5. TypeOK
  BY <1>3, <1>4, Sizes DEF TypeOK
<1>6. QED
  BY <1>1, <1>2, <1>5 DEF Typed

LEMMA TypedCall ==
  ASSUME Typed, NEW c \in Commands, Call(c)
  PROVE  Typed'
<1>1. Placed'
  <2>1. todo' = Program(c) /\ command' = c
    BY DEF Call
  <2>2. PICK p : p = Program(c)
    OBVIOUS
  <2>3. /\ p \in Seq(Steps) /\ Len(p) = Len(stm_info) + 1 + Length(c)
        /\ \A k \in 1..Len(p) : p[k] = StepOf(c, Len(p) - k + 1)
    BY <2>2, Programs
  <2>4. Len(p) <= Len(stm_info) + 1 + Length(c)
    BY <2>3, Sizes
  <2>5. QED
    BY <2>1, <2>2, <2>3, <2>4 DEF Placed
<1>2. /\ data' \in Seq(Values) /\ Len(data') >= 2
      /\ c # "stmRun" => Len(data') = Words
      /\ c \in {"stmWrite", "stmExecute"} => data' = Image
  <2>1. CASE c = "stmRun"
    <3>1. data' \in {<<Other, Other>>, SubSeq(Image, 1, 2)}
      BY <2>1 DEF Call
    <3>2. <<Other, Other>> \in Seq(Values) /\ Len(<<Other, Other>>) = 2
      BY DEF Values, Other
    <3>3. SubSeq(Image, 1, 2) \in Seq(Values) /\ Len(SubSeq(Image, 1, 2)) = 2
      BY ImageTypes, SubSeqProperties
    <3>4. data' \in Seq(Values) /\ Len(data') = 2
      BY <3>1, <3>2, <3>3
    <3>5. QED
      BY <2>1, <3>4
  <2>2. CASE c = "stmErase"
    <3>1. data' = [k \in 1..Words |-> Other]
      BY <2>2 DEF Call
    <3>2. QED
      BY <2>2, <3>1 DEF Values, Other
  <2>3. CASE c \notin {"stmRun", "stmErase"}
    <3>1. data' = Image
      BY <2>3 DEF Call
    <3>2. QED
      BY <2>3, <3>1, ImageTypes
  <2>4. QED
    BY <2>1, <2>2, <2>3
<1>3. Loaded'
  BY <1>2 DEF Call, Loaded
<1>4. /\ currentDeviceIndex' = -1 /\ currentSequenceDeviceIndex' = -1 /\ command' = c
      /\ reply' = 0 /\ disturbed' = FALSE /\ UNCHANGED <<target, ram, core>>
  BY DEF Call
<1>5. TypeOK'
  BY <1>2, <1>4, Sizes DEF Typed, TypeOK
<1>6. QED
  BY <1>1, <1>3, <1>5 DEF Typed

LEMMA SequenceFound ==
  ASSUME NEW partno
  PROVE  /\ SequenceIndices(partno) \in -1 .. Len(stm_sequences) - 1
         /\ SequenceIndices(partno) # -1 => stm_sequences[SequenceIndices(partno) + 1] = partno
<1> DEFINE same == {i \in DOMAIN stm_sequences : stm_sequences[i] = partno}
<1>1. PICK n \in Nat : n = Len(stm_sequences) /\ DOMAIN stm_sequences = 1..n
  BY TablesAssumption
<1>2. SequenceIndices(partno) = IF same = {} THEN -1 ELSE Max(same) - 1
  BY DEF SequenceIndices
<1>3. CASE same = {}
  BY <1>1, <1>2, <1>3
<1>4. CASE same # {}
  <2>1. same \subseteq 1..n
    BY <1>1
  <2>2. Max(same) \in same
    BY <1>4, <2>1, Greatest
  <2>3. Max(same) \in 1..n /\ stm_sequences[Max(same)] = partno
    BY <1>1, <2>2
  <2>4. QED
    BY <1>1, <1>2, <1>4, <2>3
<1>5. QED
  BY <1>3, <1>4

(* The parts of Typed that a step leaves alone. *)
LEMMA TypedStep ==
  ASSUME Typed, todo # <<>>, Placed', command' = command, target' = target,
         data' = data \/ (data' \in Seq(Values) /\ Len(data') = 2 /\ command = "stmRun"),
         currentDeviceIndex' \in -1 .. Len(stm_info) - 1,
         currentSequenceDeviceIndex' \in -1 .. Len(stm_sequences) - 1,
         reply' \in {0, -2, -11}, ram' \in [1..Words -> Values], core' \in CoreStates,
         disturbed' \in BOOLEAN
  PROVE  Typed'
<1>1. /\ Len(data) >= 2 /\ data \in Seq(Values)
      /\ command # "stmRun" => Len(data) = Words
      /\ command \in {"stmWrite", "stmExecute"} => data = Image
  BY DEF Typed, TypeOK, Loaded
<1>2. Loaded'
  <2>1. CASE data' = data
    BY <1>1, <2>1 DEF Loaded
  <2>2. CASE Len(data') = 2 /\ command = "stmRun"
    BY <2>2 DEF Loaded
  <2>3. QED
    BY <2>1, <2>2
<1>3. QED
  BY <1>1, <1>2 DEF Typed, TypeOK

LEMMA TypedNext ==
  ASSUME Typed, [Next]_vars
  PROVE  Typed'
<1>1. /\ command \in Commands /\ core \in CoreStates /\ Placed /\ Loaded
      /\ data \in Seq(Values) /\ ram \in [1..Words -> Values] /\ target \in Targets
      /\ currentDeviceIndex \in -1 .. Len(stm_info) - 1
      /\ currentSequenceDeviceIndex \in -1 .. Len(stm_sequences) - 1
      /\ reply \in {0, -2, -11} /\ disturbed \in BOOLEAN
  BY DEF Typed, TypeOK
<1>2. Other \in Values /\ \A odd : Reached(odd) => disturbed' \in BOOLEAN
  <2>1. Other \in Values
    BY DEF Values, Other
  <2>2. ASSUME NEW odd, Reached(odd) PROVE disturbed' \in BOOLEAN
    BY <2>2 DEF Reached
  <2>3. QED
    BY <2>1, <2>2
<1>3. ASSUME todo # <<>>, Done, command' = command PROVE Placed'
  BY <1>1, <1>3, Advance
<1>4. CASE UNCHANGED vars
  BY <1>4 DEF vars, indices, Typed, TypeOK, Placed, Loaded
<1>5. ASSUME NEW c \in Commands, Call(c) PROVE Typed'
  BY <1>5, TypedCall
<1>6. CASE ScanRead \/ ScanLost
  <2>1. PICK id : ScanEntry(id) /\ disturbed' \in BOOLEAN
    BY <1>2, <1>6 DEF ScanRead, ScanLost
  <2>2. todo # <<>> /\ Placed'
    BY <1>3, <2>1 DEF ScanEntry, At
  <2>3. ThisStep.i \in 1..Len(stm_info)
    BY <1>1, <2>1, Place DEF ScanEntry, At, ThisStep, Allowed
  <2>4. currentDeviceIndex' \in -1 .. Len(stm_info) - 1
    BY <1>1, <2>1, <2>3, Sizes DEF ScanEntry
  <2>5. QED
    BY <1>1, <2>1, <2>2, <2>4, TypedStep DEF ScanEntry
<1>7. CASE MatchSequences
  <2>1. todo # <<>> /\ Placed'
    BY <1>3, <1>7 DEF MatchSequences, At
  <2>2. currentSequenceDeviceIndex' \in -1 .. Len(stm_sequences) - 1
    BY <1>7, SequenceFound DEF MatchSequences
  <2>3. QED
    BY <1>1, <1>7, <2>1, <2>2, TypedStep DEF MatchSequences
<1>8. CASE SequenceWrite
  <2>1. todo # <<>> /\ disturbed' \in BOOLEAN
    BY <1>2, <1>8 DEF SequenceWrite, At
  <2>2. QED
    BY <1>1, <1>8, <2>1, Sent, TypedStep DEF SequenceWrite, indices
<1>9. CASE RegisterWrite
  <2>1. todo # <<>> /\ disturbed' \in BOOLEAN
    BY <1>2, <1>9 DEF RegisterWrite, At
  <2>2. QED
    BY <1>1, <1>9, <2>1, RegisterEffect, TypedStep DEF RegisterWrite, indices
<1>10. CASE PollLost
  <2>1. Placed'
    BY <1>1, <1>3, <1>10 DEF PollLost, At, Placed
  <2>2. QED
    BY <1>1, <1>10, <2>1, TypedStep DEF PollLost, At, indices
<1>11. CASE SequenceLost \/ RegisterLost \/ Poll \/ TestReads \/ TestLost \/ Sleep
  <2>1. /\ todo # <<>> /\ Done /\ UNCHANGED <<target, indices, command, data, reply, ram, core>>
        /\ disturbed' \in BOOLEAN
    BY <1>1, <1>2, <1>11 DEF SequenceLost, RegisterLost, Poll, TestReads, TestLost, Sleep, At
  <2>2. QED
    BY <1>1, <1>3, <2>1, TypedStep DEF indices
<1>12. CASE Store \/ StoreFails \/ StoreRefused
  <2>1. /\ todo # <<>> /\ At("stmWriteAligned") /\ Done /\ UNCHANGED <<target, indices, command, data, core>>
        /\ disturbed' \in BOOLEAN /\ reply' \in {0, -2, -11}
    BY <1>1, <1>2, <1>12 DEF Store, StoreFails, StoreRefused, At
  <2>2. data \in [1..Words -> Values]
    <3>1. command # "stmRun"
      BY <1>1, <2>1, Place DEF Allowed, At, ThisStep
    <3>2. QED
      BY <1>1, <2>1, <3>1 DEF Loaded
  <2>3. ram' \in [1..Words -> Values]
    BY <1>1, <1>12, <2>2 DEF Store, StoreFails, StoreRefused
  <2>4. QED
    BY <1>1, <1>3, <2>1, <2>3, TypedStep DEF indices
<1>13. CASE Load \/ LoadRefused \/ LoadFails
  <2>1. /\ todo # <<>> /\ At("stmReadAligned") /\ Done /\ UNCHANGED <<target, indices, command, ram, core>>
        /\ disturbed' \in BOOLEAN /\ reply' \in {0, -2, -11}
        /\ \/ data' = data \/ data' = <<ram[1], ram[2]>> \/ data' = <<Other, Other>>
    BY <1>1, <1>2, <1>13 DEF Load, LoadRefused, LoadFails, At
  <2>2. command = "stmRun"
    BY <1>1, <2>1, Place DEF Allowed, At, ThisStep
  <2>3. /\ <<ram[1], ram[2]>> \in Seq(Values) /\ Len(<<ram[1], ram[2]>>) = 2
        /\ <<Other, Other>> \in Seq(Values) /\ Len(<<Other, Other>>) = 2
    BY <1>1, WordsAssumption DEF Values, Other
  <2>4. QED
    BY <1>1, <1>3, <2>1, <2>2, <2>3, TypedStep DEF indices
<1>14. CASE TestWrites
  <2>1. todo # <<>> /\ disturbed' \in BOOLEAN /\ ram' \in [1..Words -> Values]
    BY <1>1, <1>2, <1>14 DEF TestWrites, At
  <2>2. QED
    BY <1>1, <1>3, <1>14, <2>1, TypedStep DEF TestWrites, indices
<1>15. CASE CoreReset \/ CoreTransfer \/ CoreRuns
  <2>1. core' \in CoreStates /\ ram' \in [1..Words -> Values]
    <3>1. ram' = ram \/ ram' = [k \in 1..Words |-> Other]
      BY <1>15 DEF CoreReset, CoreTransfer, CoreRuns
    <3>2. QED
      BY <1>1, <1>2, <1>15, <3>1, Reset, Transfers, Runs
  <2>2. UNCHANGED <<target, indices, command, todo, data, reply, disturbed>>
    BY <1>15 DEF CoreReset, CoreTransfer, CoreRuns
  <2>3. QED
    BY <1>1, <2>1, <2>2 DEF Typed, TypeOK, Placed, Loaded, indices
<1>16. QED
  BY <1>4, <1>5, <1>6, <1>7, <1>8, <1>9, <1>10, <1>11, <1>12, <1>13, <1>14, <1>15
     DEF Next, Running, Loss, Core

(* The state has its types: indices of the table, words of the image, registers   *)
(* of the core.                                                                  *)
THEOREM TypeCorrect == Spec => []TypeOK
<1>1. Init => Typed
  BY TypedInit
<1>2. Typed /\ [Next]_vars => Typed'
  BY TypedNext
<1>3. Typed => TypeOK
  BY DEF Typed
<1>4. QED
  BY <1>1, <1>2, <1>3, PTL DEF Spec

-----------------------------------------------------------------------------
(* The identification of the part *)

(* The scan of the device table is this far, and has found the last match.       *)
Known(i) == target.id[stm_info[i].baseDBG] = stm_info[i].partno
Scanned == IF Len(todo) > Length(command) + 1
           THEN Len(stm_info) + Length(command) + 1 - Len(todo) ELSE Len(stm_info)

Found ==
  ~disturbed =>
    /\ \A i \in 1..Scanned : Known(i) => i <= currentDeviceIndex + 1
    /\ currentDeviceIndex # -1 => currentDeviceIndex + 1 <= Scanned /\ Known(currentDeviceIndex + 1)
    /\ Len(todo) <= Length(command) /\ currentDeviceIndex # -1 /\ currentSequenceDeviceIndex # -1 =>
         stm_sequences[currentSequenceDeviceIndex + 1] = stm_info[currentDeviceIndex + 1].partno

LEMMA FoundCall ==
  ASSUME NEW c \in Commands, Call(c)
  PROVE  Found'
<1>1. PICK n \in Nat, l \in Nat : n = Len(stm_info) /\ l = Length(c)
  BY Sizes
<1>2. /\ Len(todo') = n + 1 + l /\ command' = c
      /\ currentDeviceIndex' = -1
  BY <1>1, Programs DEF Call
<1>3. Scanned' = 0
  <2>1. CASE n = 0
    BY <1>1, <1>2, <2>1 DEF Scanned
  <2>2. CASE n # 0
    <3>1. n + 1 + l > l + 1 /\ n + l + 1 - (n + 1 + l) = 0
      BY <2>2
    <3>2. QED
      BY <1>1, <1>2, <3>1 DEF Scanned
  <2>3. QED
    BY <2>1, <2>2
<1>4. ~(Len(todo') <= Length(command'))
  BY <1>1, <1>2
<1>5. QED
  BY <1>2, <1>3, <1>4 DEF Found

LEMMA FoundScan ==
  ASSUME Typed, Found, ScanRead
  PROVE  Found'
<1>1. PICK n \in Nat, l \in Nat, r \in Nat, i \in 1..Len(stm_info) :
        /\ n = Len(stm_info) /\ l = Length(command) /\ r = Len(todo) /\ i = ThisStep.i
        /\ r > l + 1 /\ i = n + l + 2 - r
  BY Sizes, Place DEF Typed, TypeOK, Placed, ScanRead, At, ThisStep, Allowed
<1>2. /\ ScanEntry(target.id[stm_info[i].baseDBG]) /\ Done /\ todo # <<>>
      /\ disturbed \/ core.resetting <=> disturbed'
      /\ command' = command /\ target' = target
  BY <1>1 DEF ScanRead, ScanEntry, Reached, At
<1>3. Len(todo') = r - 1
  BY <1>1, <1>2, Ends DEF Typed, Placed, Done
<1>4. Scanned = i - 1 /\ Scanned' = i
  <2>1. Scanned = i - 1
    BY <1>1 DEF Scanned
  <2>2. CASE r - 1 > l + 1
    BY <1>1, <1>2, <1>3, <2>2 DEF Scanned
  <2>3. CASE r - 1 = l + 1
    <3>1. i = n /\ ~(r - 1 > l + 1)
      BY <1>1, <2>3
    <3>2. QED
      BY <1>1, <1>2, <1>3, <2>1, <3>1 DEF Scanned
  <2>4. r > l + 1
    BY <1>1, Zenon
  <2>5. r - 1 > l + 1 \/ r - 1 = l + 1
    BY <2>4
  <2>6. QED
    BY <2>1, <2>2, <2>3, <2>5
<1>5. currentDeviceIndex' = IF Known(i) THEN i - 1 ELSE currentDeviceIndex
  BY <1>1, <1>2 DEF ScanEntry, Matches, Known
<1>6. \A k : Known(k)' <=> Known(k)
  BY <1>2 DEF Known
<1>7. currentDeviceIndex \in -1 .. n - 1
  BY <1>1 DEF Typed, TypeOK
<1>8. SUFFICES ASSUME ~disturbed'
               PROVE  /\ \A k \in 1..i : Known(k) => k <= currentDeviceIndex' + 1
                      /\ currentDeviceIndex' # -1 =>
                           currentDeviceIndex' + 1 <= i /\ Known(currentDeviceIndex' + 1)
  <2>1. ~(Len(todo') <= Length(command'))
    BY <1>1, <1>2, <1>3
  <2>2. QED
    BY <1>4, <1>6, <2>1 DEF Found
<1>9. /\ \A k \in 1 .. i - 1 : Known(k) => k <= currentDeviceIndex + 1
      /\ currentDeviceIndex # -1 =>
           currentDeviceIndex + 1 <= i - 1 /\ Known(currentDeviceIndex + 1)
  BY <1>2, <1>4, <1>8 DEF Found
<1>10. CASE Known(i)
  <2>1. currentDeviceIndex' = i - 1
    BY <1>5, <1>10
  <2>2. i - 1 + 1 = i
    OBVIOUS
  <2>3. QED
    BY <1>10, <2>1, <2>2
<1>11. CASE ~Known(i)
  <2>1. currentDeviceIndex' = currentDeviceIndex
    BY <1>5, <1>11
  <2>2. ASSUME NEW k \in 1..i, Known(k) PROVE k <= currentDeviceIndex + 1
    <3>1. k \in 1 .. i - 1
      BY <1>11, <2>2
    <3>2. QED
      BY <1>9, <2>2, <3>1
  <2>3. currentDeviceIndex # -1 => currentDeviceIndex + 1 <= i /\ Known(currentDeviceIndex + 1)
    BY <1>7, <1>9
  <2>4. QED
    BY <2>1, <2>2, <2>3
<1>12. QED
  BY <1>10, <1>11

LEMMA FoundMatch ==
  ASSUME Typed, Found, MatchSequences
  PROVE  Found'
<1>1. PICK n \in Nat, l \in Nat, r \in Nat :
        n = Len(stm_info) /\ l = Length(command) /\ r = Len(todo) /\ r = l + 1
  BY Sizes, Place DEF Typed, TypeOK, Placed, MatchSequences, At, ThisStep, Allowed
<1>2. /\ Done /\ todo # <<>> /\ UNCHANGED <<command, target, disturbed, currentDeviceIndex>>
  BY DEF MatchSequences, At
<1>3. Len(todo') = l
  <2>1. Len(todo') = r - 1
    BY <1>1, <1>2, Ends DEF Typed, Placed, Done
  <2>2. QED
    BY <1>1, <2>1
<1>4. Scanned = n /\ Scanned' = n
  BY <1>1, <1>2, <1>3 DEF Scanned
<1>5. \A k : Known(k)' <=> Known(k)
  BY <1>2 DEF Known
<1>6. currentDeviceIndex # -1 /\ currentSequenceDeviceIndex' # -1 =>
        stm_sequences[currentSequenceDeviceIndex' + 1] = stm_info[currentDeviceIndex + 1].partno
  <2>1. SUFFICES ASSUME currentDeviceIndex # -1
                 PROVE  currentSequenceDeviceIndex' # -1 =>
                          stm_sequences[currentSequenceDeviceIndex' + 1]
                            = stm_info[currentDeviceIndex + 1].partno
    OBVIOUS
  <2>2. currentSequenceDeviceIndex' = SequenceIndices(stm_info[currentDeviceIndex + 1].partno)
    BY <2>1 DEF MatchSequences
  <2>3. QED
    BY <2>2, SequenceFound
<1>7. QED
  BY <1>2, <1>4, <1>5, <1>6 DEF Found

(* Nothing changes once the part is identified. *)
LEMMA FoundKept ==
  ASSUME Typed, Found, Len(todo') <= Len(todo), Len(todo') \in Nat, Len(todo) \in Nat,
         Len(todo) <= Length(command) \/ Len(todo') = Len(todo),
         UNCHANGED <<target, indices, command>>, ~disturbed' => ~disturbed
  PROVE  Found'
<1>1. PICK n \in Nat, l \in Nat : n = Len(stm_info) /\ l = Length(command)
  BY Sizes DEF Typed, TypeOK
<1>2. \A k : Known(k)' <=> Known(k)
  BY DEF Known
<1>3. Scanned' = Scanned
  BY <1>1 DEF Scanned
<1>4. Len(todo') <= Length(command') => Len(todo) <= Length(command)
  BY <1>1
<1>5. QED
  BY <1>2, <1>3, <1>4 DEF Found, indices

LEMMA FoundNext ==
  ASSUME Typed, Found, [Next]_vars
  PROVE  Found'
<1>1. command \in Commands /\ Placed /\ core \in CoreStates /\ data \in Seq(Values) /\ Loaded
  BY DEF Typed, TypeOK
<1>2. Len(todo) \in Nat
  BY <1>1 DEF Placed
<1>3. \A odd : Reached(odd) /\ ~disturbed' => ~disturbed
  BY DEF Reached
<1>4. ASSUME todo # <<>>, ThisStep.do \notin {"scan", "match"}
      PROVE  Len(todo) <= Length(command)
  BY <1>1, <1>4, Place
<1>5. ASSUME Done, todo # <<>>
      PROVE  Len(todo') <= Len(todo) /\ Len(todo') \in Nat
  BY <1>1, <1>2, <1>5, Ends DEF Done, Placed
<1>6. CASE UNCHANGED vars
  BY <1>2, <1>6, FoundKept DEF vars, indices
<1>7. ASSUME NEW c \in Commands, Call(c) PROVE Found'
  BY <1>7, FoundCall
<1>8. CASE ScanRead
  BY <1>8, FoundScan
<1>9. CASE MatchSequences
  BY <1>9, FoundMatch
<1>10. CASE SequenceWrite
  <2>1. todo # <<>> /\ Len(todo) <= Length(command)
    BY <1>4, <1>10 DEF SequenceWrite, At, ThisStep
  <2>2. Len(todo') <= Len(todo) /\ Len(todo') \in Nat
    <3>1. Effect(Len(todo), Len(todo'), core') /\ Placed'
      BY <1>1, <1>10, Sent
    <3>2. PICK r \in Nat, l \in Nat : r = Len(todo) /\ l = Length(command) /\ l >= 4
      BY <1>1, <1>2, Sizes
    <3>3. Len(todo') = r \/ Len(todo') = r - 1
      BY <3>1, <3>2, EffectSteps
    <3>4. Len(todo') \in Nat
      BY <3>1 DEF Placed
    <3>5. QED
      BY <3>2, <3>3, <3>4
  <2>3. QED
    BY <1>2, <1>3, <1>10, <2>1, <2>2, FoundKept DEF SequenceWrite
<1>11. CASE RegisterWrite \/ Poll \/ StoreRefused \/ LoadRefused \/ Store \/ Load
              \/ TestWrites \/ TestReads \/ Sleep
  <2>1. /\ todo # <<>> /\ ThisStep.do \notin {"scan", "match"} /\ Done
        /\ UNCHANGED <<target, indices, command>> /\ (~disturbed' => ~disturbed)
    <3>1. /\ todo # <<>> /\ ThisStep.do \notin {"scan", "match"} /\ Done
          /\ UNCHANGED <<target, indices, command>>
      BY <1>11 DEF RegisterWrite, Poll, StoreRefused, LoadRefused, Store, Load, TestWrites,
                   TestReads, Sleep, At, ThisStep
    <3>2. disturbed' = disturbed \/ \E odd : Reached(odd)
      BY <1>11 DEF RegisterWrite, Poll, StoreRefused, LoadRefused, Store, Load, TestWrites,
                   TestReads, Sleep
    <3>3. QED
      BY <1>3, <3>1, <3>2
  <2>2. QED
    BY <1>2, <1>4, <1>5, <2>1, FoundKept
<1>12. CASE ScanLost \/ SequenceLost \/ RegisterLost \/ PollLost \/ StoreFails \/ LoadFails \/ TestLost
  <2>1. disturbed'
    BY <1>12 DEF ScanLost, SequenceLost, RegisterLost, PollLost, StoreFails, LoadFails, TestLost
  <2>2. QED
    BY <2>1 DEF Found
<1>13. CASE CoreReset \/ CoreTransfer \/ CoreRuns
  <2>1. UNCHANGED <<target, indices, command, todo, disturbed>>
    BY <1>13 DEF CoreReset, CoreTransfer, CoreRuns
  <2>2. QED
    BY <1>2, <2>1, FoundKept
<1>14. QED
  BY <1>6, <1>7, <1>8, <1>9, <1>10, <1>11, <1>12, <1>13 DEF Next, Running, Loss, Core

(* Both indices are those of the part that is connected, for every device table,  *)
(* as long as no other part's entry is matched behind the part's own.             *)
THEOREM Identified == Recognisable => (Spec => []IdentifiedRight)
<1>0. SUFFICES ASSUME Recognisable PROVE Spec => []IdentifiedRight
  OBVIOUS
<1>1. Init => Typed /\ Found
  BY TypedInit DEF Init, Found
<1>2. Typed /\ Found /\ [Next]_vars => (Typed /\ Found)'
  BY TypedNext, FoundNext
<1>3. ASSUME Typed, Found PROVE IdentifiedRight
  <2>1. SUFFICES ASSUME todo # <<>>, ThisStep.do \notin {"scan", "match"}, ~disturbed
                 PROVE  IdentifiedRight
    BY DEF IdentifiedRight
  <2>2. PICK n \in Nat : n = Len(stm_info) /\ DOMAIN stm_info = 1..n
    BY TablesAssumption
  <2>3. Len(todo) <= Length(command) /\ Scanned = n
    <3>1. Len(todo) <= Length(command)
      BY <1>3, <2>1, Place DEF Typed, TypeOK
    <3>2. QED
      BY <1>3, <2>2, <3>1, Sizes DEF Scanned, Typed, TypeOK, Placed
  <2>4. /\ \A i \in 1..n : Known(i) => i <= currentDeviceIndex + 1
        /\ currentDeviceIndex # -1 => currentDeviceIndex + 1 <= n /\ Known(currentDeviceIndex + 1)
        /\ currentDeviceIndex # -1 /\ currentSequenceDeviceIndex # -1 =>
             stm_sequences[currentSequenceDeviceIndex + 1] = stm_info[currentDeviceIndex + 1].partno
    BY <1>3, <2>1, <2>3 DEF Found
  <2>5. currentDeviceIndex \in -1 .. n - 1 /\ target \in Targets
    BY <1>3, <2>2 DEF Typed, TypeOK
  <2> DEFINE shows == {i \in 1..n : Known(i)}
  <2>6. IF \E i \in 1..n : stm_info[i].partno = target.partno
          THEN \E i \in shows : /\ stm_info[i].partno = target.partno
                                /\ \A j \in shows : j > i => stm_info[j].partno = target.partno
          ELSE shows = {}
    BY <1>0, <2>2, <2>5 DEF Recognisable, Known
  <2>7. CASE \E i \in 1..n : stm_info[i].partno = target.partno
    <3>1. PICK i \in shows : /\ stm_info[i].partno = target.partno
                             /\ \A j \in shows : j > i => stm_info[j].partno = target.partno
      BY <2>6, <2>7
    <3>2. i \in 1..n /\ i <= currentDeviceIndex + 1 /\ currentDeviceIndex # -1
      BY <2>4, <2>5, <3>1
    <3>3. currentDeviceIndex + 1 \in shows
      BY <2>4, <2>5, <3>2
    <3>4. currentDeviceIndex + 1 = i \/ currentDeviceIndex + 1 > i
      BY <2>5, <3>2
    <3>5. stm_info[currentDeviceIndex + 1].partno = target.partno
      BY <3>1, <3>3, <3>4
    <3>6. QED
      BY <2>2, <2>4, <2>7, <3>2, <3>5 DEF IdentifiedRight
  <2>8. CASE ~ \E i \in 1..n : stm_info[i].partno = target.partno
    <3>1. shows = {}
      BY <2>6, <2>8
    <3>2. currentDeviceIndex = -1
      BY <2>4, <2>5, <3>1
    <3>3. QED
      BY <2>2, <2>8, <3>2 DEF IdentifiedRight
  <2>9. QED
    BY <2>7, <2>8
<1>4. Typed /\ Found => IdentifiedRight
  BY <1>3
<1>5. QED
  BY <1>1, <1>2, <1>4, PTL DEF Spec


-----------------------------------------------------------------------------
(* What the transfers and the reset of the core leave behind *)

(* The steps that do not write to the core, by the place where they stand. *)
Quiet(r) ==
  \/ r > Length(command) /\ UNCHANGED <<data, reply, ram>>
  \/ /\ command \in {"stmRun", "stmExecute"} /\ r \in {2, 5}
     /\ core.select = NoReg /\ UNCHANGED <<data, reply, ram>>
  \/ /\ \/ command = "stmWrite" /\ r = 1
        \/ command = "stmExecute" /\ r = 9
        \/ command = "stmErase" /\ r = 3
     /\ data' = data
     /\ (ram' = data /\ ~core.resetting) \/ reply' = -11
  \/ /\ command = "stmRun" /\ r = 9
     /\ (data' = <<ram[1], ram[2]>> /\ ram' = ram /\ ~core.resetting) \/ reply' = -11
  \/ /\ \/ command = "stmWrite" /\ r = 2
        \/ command = "cheese_test" /\ r = 4
     /\ ~core.resetting /\ UNCHANGED <<data, reply, ram>>
  \/ command = "cheese_test" /\ r \in {1, 2}

LEMMA FirstStep ==
  ASSUME command \in Commands, Placed, todo # <<>>, Done, command' = command
  PROVE  Len(todo') \in Nat /\ (Len(todo') >= 1 => todo'[1] = StepOf(command, Len(todo')))
<1>1. PICK r \in Nat : r = Len(todo)
  BY DEF Placed
<1>2. /\ r >= 1 /\ Len(todo') = r - 1
      /\ \A k \in 1 .. r - 1 : todo'[k] = todo[k + 1]
  BY <1>1, Ends DEF Placed, Done
<1>3. ASSUME r - 1 >= 1 PROVE todo'[1] = StepOf(command, r - 1)
  <2>1. 1 \in 1 .. r - 1 /\ 2 \in 1..r /\ r - 2 + 1 = r - 1 /\ 1 + 1 = 2
    BY <1>3
  <2>2. todo[2] = StepOf(command, r - 2 + 1)
    BY <1>1, <2>1 DEF Placed
  <2>3. QED
    BY <1>2, <2>1, <2>2
<1>4. QED
  BY <1>1, <1>2, <1>3

Silent == \/ ScanRead \/ MatchSequences \/ Poll \/ Store \/ StoreRefused \/ Load \/ LoadRefused
          \/ TestWrites \/ TestReads \/ Sleep

LEMMA SilentSteps ==
  ASSUME Typed, Silent, ~disturbed'
  PROVE  /\ Quiet(Len(todo)) /\ ~disturbed /\ core' = core /\ command' = command
         /\ Len(todo') = Len(todo) - 1 /\ Len(todo) >= 1
         /\ Len(todo') >= 1 => todo'[1] = StepOf(command, Len(todo'))
<1>1. command \in Commands /\ Placed
  BY DEF Typed, TypeOK
<1>2. todo # <<>> /\ Done /\ UNCHANGED <<command, core>>
  BY DEF Silent, ScanRead, ScanEntry, MatchSequences, Poll, Store, StoreRefused, Load, LoadRefused,
         TestWrites, TestReads, Sleep, At
<1>3. PICK r \in Nat : r = Len(todo) /\ r >= 1
  BY <1>1, <1>2, Place
<1>4. Len(todo') = r - 1 /\ (Len(todo') >= 1 => todo'[1] = StepOf(command, Len(todo')))
  BY <1>1, <1>2, <1>3, Advance, FirstStep
<1>5. \A odd : Reached(odd) => ~disturbed /\ ~core.resetting
  BY DEF Reached
<1>6. ~disturbed
  <2>1. disturbed' = disturbed \/ \E odd : Reached(odd)
    BY DEF Silent, ScanRead, MatchSequences, Poll, Store, StoreRefused, Load, LoadRefused,
           TestWrites, TestReads, Sleep
  <2>2. QED
    BY <1>5, <2>1
<1>7. ASSUME todo # <<>>, ThisStep.do \notin {"scan", "match"} PROVE Allowed(command, r, ThisStep)
  BY <1>1, <1>3, <1>7, Place
<1>8. CASE ScanRead \/ MatchSequences
  <2>1. r > Length(command)
    <3>1. ThisStep.do \in {"scan", "match"}
      BY <1>8 DEF ScanRead, MatchSequences, At, ThisStep
    <3>2. Length(command) \in Nat
      BY <1>1, Sizes
    <3>3. r = Length(command) + 1 \/ r > Length(command) + 1
      BY <1>1, <1>2, <1>3, <3>1, Place DEF Allowed
    <3>4. QED
      BY <3>2, <3>3
  <2>2. UNCHANGED <<data, reply, ram>>
    BY <1>8 DEF ScanRead, ScanEntry, MatchSequences
  <2>3. QED
    BY <1>2, <1>3, <1>4, <1>6, <2>1, <2>2 DEF Quiet
<1>9. CASE Poll
  <2>1. ThisStep.do = "poll" /\ core.select = NoReg /\ UNCHANGED <<data, reply, ram>>
    BY <1>9 DEF Poll, At, ThisStep, RegisterReady, S_REGRDY
  <2>2. command \in {"stmRun", "stmExecute"} /\ r \in {2, 5}
    BY <1>2, <1>7, <2>1 DEF Allowed
  <2>3. QED
    BY <1>2, <1>3, <1>4, <1>6, <2>1, <2>2 DEF Quiet
<1>10. CASE Store \/ StoreRefused
  <2>1. /\ ThisStep.do = "stmWriteAligned" /\ data' = data
        /\ (ram' = data /\ ~core.resetting) \/ reply' = -11
    BY <1>5, <1>10 DEF Store, StoreRefused, At, ThisStep
  <2>2. (command = "stmWrite" /\ r = 1) \/ (command = "stmExecute" /\ r = 9) \/ (command = "stmErase" /\ r = 3)
    BY <1>2, <1>7, <2>1 DEF Allowed
  <2>3. QED
    BY <1>2, <1>3, <1>4, <1>6, <2>1, <2>2 DEF Quiet
<1>11. CASE Load \/ LoadRefused
  <2>1. /\ ThisStep.do = "stmReadAligned"
        /\ (data' = <<ram[1], ram[2]>> /\ ram' = ram /\ ~core.resetting) \/ reply' = -11
    BY <1>5, <1>11 DEF Load, LoadRefused, At, ThisStep
  <2>2. command = "stmRun" /\ r = 9
    BY <1>2, <1>7, <2>1 DEF Allowed
  <2>3. QED
    BY <1>2, <1>3, <1>4, <1>6, <2>1, <2>2 DEF Quiet
<1>12. CASE TestWrites \/ TestReads
  <2>1. ThisStep.do \in {"com_writeWord", "com_readWord"}
    BY <1>12 DEF TestWrites, TestReads, At, ThisStep
  <2>2. command = "cheese_test" /\ r \in {1, 2}
    BY <1>2, <1>7, <2>1 DEF Allowed
  <2>3. QED
    BY <1>2, <1>3, <1>4, <1>6, <2>2 DEF Quiet
<1>13. CASE Sleep
  <2>1. ThisStep.do = "sleep" /\ ~core.resetting /\ UNCHANGED <<data, reply, ram>>
    BY <1>13 DEF Sleep, At, ThisStep
  <2>2. (command = "stmWrite" /\ r = 2) \/ (command = "cheese_test" /\ r = 4)
    BY <1>2, <1>7, <2>1 DEF Allowed
  <2>3. QED
    BY <1>2, <1>3, <1>4, <1>6, <2>1, <2>2 DEF Quiet
<1>14. QED
  BY <1>8, <1>9, <1>10, <1>11, <1>12, <1>13 DEF Silent

(* A call starts before the identification of the part. *)
LEMMA CallLength ==
  ASSUME NEW c \in Commands, Call(c)
  PROVE  /\ command' = c /\ Len(todo') \in Nat /\ Len(todo') > Length(c) /\ Length(c) \in Nat
         /\ c = "stmWrite" => Length(c) = 4
         /\ c = "stmRun" => Length(c) = 9
         /\ c = "stmExecute" => Length(c) = 11
         /\ c = "stmErase" => Length(c) = 5
         /\ c = "cheese_test" => Length(c) = 6
<1>1. PICK n \in Nat, l \in Nat : n = Len(stm_info) /\ l = Length(c)
  BY Sizes
<1>2. command' = c /\ Len(todo') = n + 1 + l
  BY <1>1, Programs DEF Call
<1>3. Len(todo') \in Nat /\ Len(todo') > Length(c) /\ Length(c) \in Nat
  BY <1>1, <1>2
<1>4. /\ Length("stmWrite") = 4 /\ Length("stmRun") = 9 /\ Length("stmExecute") = 11
      /\ Length("stmErase") = 5 /\ Length("cheese_test") = 6
  BY DEF Length
<1>5. QED
  BY <1>2, <1>3, <1>4

(* Every step is one of these, if nothing is lost. *)
LEMMA Cases ==
  ASSUME [Next]_vars, ~disturbed'
  PROVE  \/ UNCHANGED vars \/ \E c \in Commands : Call(c)
         \/ Silent \/ SequenceWrite \/ RegisterWrite
         \/ CoreReset \/ CoreTransfer \/ CoreRuns
<1>1. ~(ScanLost \/ SequenceLost \/ RegisterLost \/ PollLost \/ StoreFails \/ LoadFails \/ TestLost)
  BY DEF ScanLost, SequenceLost, RegisterLost, PollLost, StoreFails, LoadFails, TestLost
<1>2. QED
  BY <1>1 DEF Next, Running, Loss, Core, Silent

(* A core that is to be caught by its reset is, and stays so. *)
Held ==
  command \in {"stmWrite", "stmExecute"} /\ ~disturbed =>
    /\ Len(todo) = Length(command) /\ todo[1] # Sends("SEQ_HALT_ON_RESET") => core.vcreset
    /\ Len(todo) < Length(command) => core.vcreset /\ core.debugen
    /\ Len(todo) < Length(command) - 1 /\ (command = "stmExecute" => Len(todo) > 0) =>
         core.resetting \/ core.halted

(* Nobody else writes while stmWrite() stores the image, nor afterwards. *)
Kept ==
  command = "stmWrite" /\ ~disturbed =>
    /\ Len(todo) <= 1 => ~core.resetting
    /\ Len(todo) = 0 /\ reply = 0 => ram = Image

LEMMA Lengths ==
  /\ Length("stmWrite") = 4 /\ Length("stmRun") = 9 /\ Length("stmExecute") = 11
  /\ Length("stmErase") = 5 /\ Length("cheese_test") = 6
  BY DEF Length

LEMMA CaughtFirst == StepOf("stmWrite", 4) = Sends("SEQ_HALT_ON_RESET")
                     /\ StepOf("stmExecute", 11) = Sends("SEQ_HALT_ON_RESET")
<1>1. Rest("stmWrite")[1] = Sends("SEQ_HALT_ON_RESET") /\ Rest("stmExecute")[1] = Sends("SEQ_HALT_ON_RESET")
  BY DEF Rest
<1>2. QED
  BY <1>1, Lengths DEF StepOf

LEMMA HeldNext ==
  ASSUME Typed, Held, [Next]_vars
  PROVE  Held'
<1>1. command \in Commands /\ Placed /\ core \in CoreStates /\ data \in Seq(Values) /\ Loaded
  BY DEF Typed, TypeOK
<1>2. SUFFICES ASSUME ~disturbed', command' \in {"stmWrite", "stmExecute"} PROVE Held'
  BY DEF Held
<1>3. PICK r \in Nat : r = Len(todo)
  BY <1>1 DEF Placed
<1>4. CASE UNCHANGED vars
  BY <1>4 DEF vars, Held
<1>5. ASSUME NEW c \in Commands, Call(c) PROVE Held'
  <2>1. PICK l \in Nat, q \in Nat : l = Length(command') /\ q = Len(todo') /\ q > l
    BY <1>5, CallLength
  <2>2. QED
    BY <2>1 DEF Held
<1>6. ASSUME UNCHANGED command, ~disturbed
      PROVE  /\ command \in {"stmWrite", "stmExecute"}
             /\ Length(command) = IF command = "stmWrite" THEN 4 ELSE 11
             /\ r = Length(command) /\ todo[1] # Sends("SEQ_HALT_ON_RESET") => core.vcreset
             /\ r < Length(command) => core.vcreset /\ core.debugen
             /\ r < Length(command) - 1 /\ (command = "stmExecute" => r > 0) =>
                  core.resetting \/ core.halted
  BY <1>2, <1>3, <1>6, Lengths DEF Held
<1>7. CASE Silent
  <2>1. /\ Quiet(r) /\ ~disturbed /\ core' = core /\ command' = command /\ Len(todo') = r - 1 /\ r >= 1
        /\ Len(todo') >= 1 => todo'[1] = StepOf(command, Len(todo'))
    BY <1>2, <1>3, <1>7, SilentSteps
  <2>2. PICK l \in Nat : l = Length(command) /\ l >= 4
    BY <1>1, Sizes
  <2>3. CASE r > l
    <3>1. r - 1 >= l /\ ~(r - 1 < l) /\ ~(r - 1 < l - 1)
      BY <2>2, <2>3
    <3>2. r - 1 = l => todo'[1] = Sends("SEQ_HALT_ON_RESET")
      BY <1>6, <2>1, <2>2, CaughtFirst
    <3>3. QED
      BY <2>1, <2>2, <3>1, <3>2 DEF Held
  <2>4. CASE ~(r > l)
    <3>1. r < l - 1
      BY <1>6, <2>1, <2>2, <2>4 DEF Quiet
    <3>2. /\ core.vcreset /\ core.debugen
          /\ (command = "stmExecute" => r - 1 > 0) => core.resetting \/ core.halted
      BY <1>6, <2>1, <2>2, <3>1
    <3>3. r - 1 # l
      BY <2>2, <3>1
    <3>4. QED
      BY <2>1, <2>2, <3>2, <3>3 DEF Held
  <2>5. QED
    BY <2>3, <2>4
<1>8. CASE SequenceWrite
  <2>1. /\ Effect(r, Len(todo'), core') /\ core' \in CoreStates
        /\ command' = command /\ ~disturbed
    BY <1>1, <1>2, <1>3, <1>8, Sent DEF SequenceWrite, Reached
  <2>2. PICK l \in Nat : l = Length(command) /\ l >= 4
    BY <1>1, Sizes
  <2>3. PICK q : q = Len(todo')
    OBVIOUS
  <2>4. CASE r = l /\ q = l /\ core'.vcreset = TRUE
    BY <2>1, <2>2, <2>3, <2>4 DEF Held
  <2>5. CASE /\ r = l /\ q = l - 1 /\ todo[1] # Sends("SEQ_HALT_ON_RESET")
             /\ core'.debugen = TRUE /\ core'.vcreset = core.vcreset
    <3>1. core.vcreset /\ q # l /\ ~(q < l - 1)
      BY <1>6, <2>1, <2>2, <2>5
    <3>2. QED
      BY <2>1, <2>2, <2>3, <2>5, <3>1 DEF Held
  <2>6. CASE /\ r = l - 1 /\ q = r - 1 /\ core'.resetting = TRUE
             /\ core'.debugen = core.debugen /\ core'.vcreset = core.vcreset
    <3>1. core.vcreset /\ core.debugen /\ q # l
      BY <1>6, <2>1, <2>2, <2>6
    <3>2. QED
      BY <2>1, <2>2, <2>3, <2>6, <3>1 DEF Held
  <2>7. CASE command = "stmExecute" /\ r = 1 /\ q = 0 /\ core'.debugen = TRUE /\ core'.vcreset = core.vcreset
    <3>1. core.vcreset /\ q # l /\ ~(q > 0)
      BY <1>6, <2>1, <2>2, <2>7
    <3>2. QED
      BY <2>1, <2>2, <2>3, <2>7, <3>1 DEF Held
  <2>8. \/ r = l /\ q = l /\ core'.vcreset = TRUE
        \/ /\ r = l /\ q = l - 1 /\ todo[1] # Sends("SEQ_HALT_ON_RESET")
           /\ core'.debugen = TRUE /\ core'.vcreset = core.vcreset
        \/ /\ r = l - 1 /\ q = r - 1 /\ core'.resetting = TRUE
           /\ core'.debugen = core.debugen /\ core'.vcreset = core.vcreset
        \/ command = "stmExecute" /\ r = 1 /\ q = r - 1 /\ core'.debugen = TRUE /\ core'.vcreset = core.vcreset
    <3>1. PICK n : n = core'
      OBVIOUS
    <3>2. Effect(r, q, n) /\ command \in {"stmWrite", "stmExecute"}
      BY <1>6, <2>1, <2>3, <3>1
    <3>3. command # "stmErase" /\ command # "cheese_test" /\ command # "stmRun"
      BY <3>2
    <3>4. QED
      BY <2>2, <3>1, <3>2, <3>3, Zenon DEF Effect
  <2>9. r = 1 => r - 1 = 0
    OBVIOUS
  <2>10. QED
    BY <2>4, <2>5, <2>6, <2>7, <2>8, <2>9
<1>9. CASE RegisterWrite
  <2>1. /\ Len(todo') = r - 1 /\ r \in {8, 7, 6, 4, 3} /\ command' = command /\ ~disturbed
        /\ core'.halted = core.halted /\ core'.debugen = core.debugen /\ core'.vcreset = core.vcreset
        /\ core'.resetting = core.resetting /\ command \in {"stmRun", "stmExecute"}
    BY <1>1, <1>2, <1>3, <1>9, RegisterEffect, RegisterReached DEF RegisterWrite
  <2>2. command = "stmExecute" /\ Length(command) = 11
    BY <1>6, <2>1
  <2>3. core.vcreset /\ core.debugen /\ (core.resetting \/ core.halted) /\ r - 1 # 11
    BY <1>6, <2>1, <2>2
  <2>4. QED
    BY <2>1, <2>2, <2>3 DEF Held
<1>10. CASE CoreReset \/ CoreTransfer \/ CoreRuns
  <2>1. UNCHANGED <<command, todo, disturbed>>
    BY <1>10 DEF CoreReset, CoreTransfer, CoreRuns
  <2>2. core'.debugen = core.debugen /\ core'.vcreset = core.vcreset
    BY <1>1, <1>10, Reset, Transfers, Runs
  <2>3. ASSUME core.vcreset /\ core.debugen, core.resetting \/ core.halted
        PROVE  core'.resetting \/ core'.halted
    <3>1. CASE CoreReset
      BY <1>1, <2>3, <3>1, Reset
    <3>2. CASE CoreTransfer
      BY <1>1, <3>2, Transfers
    <3>3. QED
      BY <1>1, <1>10, <2>3, <3>1, <3>2, Runs
  <2>4. PICK l \in Nat : l = Length(command) /\ l >= 4
    BY <1>1, Sizes
  <2>5. r < l - 1 => r < l
    BY <2>4
  <2>6. QED
    BY <1>2, <1>3, <1>6, <2>1, <2>2, <2>3, <2>4, <2>5 DEF Held
<1>11. QED
  BY <1>2, <1>4, <1>5, <1>7, <1>8, <1>9, <1>10, Cases

LEMMA KeptNext ==
  ASSUME Typed, Held, Kept, [Next]_vars
  PROVE  Kept'
<1>1. command \in Commands /\ Placed /\ core \in CoreStates /\ data \in Seq(Values) /\ Loaded
  BY DEF Typed, TypeOK
<1>2. SUFFICES ASSUME ~disturbed', command' = "stmWrite" PROVE Kept'
  BY DEF Kept
<1>3. PICK r \in Nat : r = Len(todo)
  BY <1>1 DEF Placed
<1>4. CASE UNCHANGED vars
  BY <1>4 DEF vars, Kept
<1>5. ASSUME NEW c \in Commands, Call(c) PROVE Kept'
  <2>1. PICK q \in Nat : q = Len(todo') /\ q > 4
    BY <1>2, <1>5, CallLength
  <2>2. QED
    BY <2>1 DEF Kept
<1>6. ASSUME UNCHANGED command, ~disturbed
      PROVE  /\ command = "stmWrite" /\ Length(command) = 4
             /\ r <= 1 => ~core.resetting
             /\ r = 0 /\ reply = 0 => ram = Image
             /\ r < 3 => core.resetting \/ core.halted
  BY <1>2, <1>3, <1>6, Lengths DEF Held, Kept
<1>7. CASE Silent
  <2>1. Quiet(r) /\ ~disturbed /\ core' = core /\ command' = command /\ Len(todo') = r - 1 /\ r >= 1
    BY <1>2, <1>3, <1>7, SilentSteps
  <2>2. command = "stmWrite" /\ Length(command) = 4
    BY <1>6, <2>1
  <2>3. CASE r > 4
    <3>1. r - 1 # 0 /\ ~(r - 1 <= 1)
      BY <2>3
    <3>2. QED
      BY <2>1, <3>1 DEF Kept
  <2>4. CASE r = 2 /\ ~core.resetting
    BY <2>1, <2>4 DEF Kept
  <2>5. CASE r = 1 /\ (ram' = data \/ reply' = -11)
    <3>1. data = Image /\ ~core.resetting
      <4>1. todo # <<>>
        <5>1. Len(<<>>) = 0 /\ Len(todo) = 1
          BY <1>3, <2>5
        <5>2. QED
          BY <5>1
      <4>2. QED
        BY <1>1, <1>6, <2>1, <2>2, <2>5, <4>1 DEF Loaded
    <3>2. QED
      BY <2>1, <2>5, <3>1 DEF Kept
  <2>6. QED
    BY <2>1, <2>2, <2>3, <2>4, <2>5 DEF Quiet
<1>8. CASE SequenceWrite
  <2>1. Effect(r, Len(todo'), core') /\ command' = command /\ ~disturbed
    BY <1>1, <1>2, <1>3, <1>8, Sent DEF SequenceWrite, Reached
  <2>2. PICK q : q = Len(todo')
    OBVIOUS
  <2>3. q = 4 \/ q = 3 \/ q = 2
    BY <1>6, <2>1, <2>2 DEF Effect
  <2>4. QED
    BY <2>2, <2>3 DEF Kept
<1>9. CASE RegisterWrite
  BY <1>1, <1>2, <1>9, RegisterEffect DEF RegisterWrite
<1>10. CASE CoreReset \/ CoreTransfer \/ CoreRuns
  <2>1. UNCHANGED <<command, todo, disturbed, reply>>
    BY <1>10 DEF CoreReset, CoreTransfer, CoreRuns
  <2>2. r <= 1 => ~core.resetting /\ core.halted
    BY <1>2, <1>6, <2>1
  <2>3. CASE CoreReset
    <3>1. ~(r <= 1) /\ r # 0
      BY <1>1, <2>2, <2>3, Reset
    <3>2. QED
      BY <1>3, <2>1, <3>1 DEF Kept
  <2>4. CASE CoreTransfer
    <3>1. core'.resetting = core.resetting /\ ram' = ram
      BY <1>1, <2>4, Transfers DEF CoreTransfer
    <3>2. QED
      BY <1>2, <1>3, <1>6, <2>1, <3>1 DEF Kept
  <2>5. CASE CoreRuns
    <3>1. ~(r <= 1) /\ r # 0
      BY <1>1, <2>2, <2>5, Runs
    <3>2. QED
      BY <1>3, <2>1, <3>1 DEF Kept
  <2>6. QED
    BY <1>10, <2>3, <2>4, <2>5
<1>11. QED
  BY <1>2, <1>4, <1>5, <1>7, <1>8, <1>9, <1>10, Cases

(* An image that stmWrite() loaded stays as it was written, behind a core that is  *)
(* held.                                                                        *)
THEOREM Stays == Spec => []ImageStays
<1>1. Init => Typed /\ Held /\ Kept
  BY TypedInit DEF Init, Held, Kept
<1>2. Typed /\ Held /\ Kept /\ [Next]_vars => (Typed /\ Held /\ Kept)'
  BY TypedNext, HeldNext, KeptNext
<1>3. Typed /\ Held /\ Kept => ImageStays
  <2>1. todo = <<>> => Len(todo) = 0
    OBVIOUS
  <2>2. QED
    BY <2>1, Lengths DEF Held, Kept, ImageStays
<1>4. QED
  BY <1>1, <1>2, <1>3, PTL DEF Spec

(* The value is in DCRDR while the core has not taken it, and in the register    *)
(* afterwards.                                                                  *)
Taken(r, v) ==
  \/ core.select = r /\ core.dcrdr = v
  \/ core.select = NoReg /\ core.regs[r] = v

(* How far a start has come: what has been loaded, what the core has.            *)
Started ==
  command \in {"stmRun", "stmExecute"} /\ ~disturbed =>
    LET r == Len(todo) IN
    /\ r \in 1..8 /\ reply = 0 =>
         /\ ~core.resetting
         /\ core.halted => /\ data[1] = ram[1] /\ data[2] = ram[2]
                           /\ command = "stmExecute" => ram = Image
    /\ r <= 7 => ~core.resetting /\ core.vtor = "image"
    /\ r = 6 => core.dcrdr = data[1]
    /\ r \in 1..5 => core.halted
    /\ r = 5 => Taken("SP", data[1])
    /\ r \in 1..4 => core.regs["SP"] = data[1]
    /\ r \in {1, 3, 4} => core.select = NoReg
    /\ r = 3 => core.dcrdr = data[2]
    /\ r = 2 => Taken("PC", data[2])
    /\ r = 1 => core.regs["PC"] = data[2]
    /\ r = 0 => ~core.halted

LEMMA StartedNotYet ==
  ASSUME NEW q \in Nat, q = Len(todo'), q > 8
  PROVE  Started'
<1>1. /\ q \notin 1..8 /\ q \notin 1..5 /\ q \notin 1..4 /\ q \notin {1, 3, 4} /\ ~(q <= 7)
      /\ q # 0 /\ q # 1 /\ q # 2 /\ q # 3 /\ q # 5 /\ q # 6
  OBVIOUS
<1>2. QED
  BY <1>1 DEF Started

LEMMA StartedNext ==
  ASSUME Typed, Started, [Next]_vars
  PROVE  Started'
<1>1. command \in Commands /\ Placed /\ core \in CoreStates /\ data \in Seq(Values) /\ Loaded
  BY DEF Typed, TypeOK
<1>2. SUFFICES ASSUME ~disturbed', command' \in {"stmRun", "stmExecute"} PROVE Started'
  BY DEF Started
<1>3. PICK r \in Nat : r = Len(todo)
  BY <1>1 DEF Placed
<1>4. CASE UNCHANGED vars
  BY <1>4 DEF vars, Started, Taken
<1>5. ASSUME NEW c \in Commands, Call(c) PROVE Started'
  <2>1. PICK q \in Nat : q = Len(todo') /\ q > 8
    BY <1>2, <1>5, CallLength
  <2>2. QED
    BY <2>1, StartedNotYet
<1>6. ASSUME UNCHANGED command, ~disturbed
      PROVE  /\ command \in {"stmRun", "stmExecute"}
             /\ Length(command) = IF command = "stmRun" THEN 9 ELSE 11
             /\ r \in 1..8 /\ reply = 0 =>
                  /\ ~core.resetting
                  /\ core.halted => /\ data[1] = ram[1] /\ data[2] = ram[2]
                                    /\ command = "stmExecute" => ram = Image
             /\ r <= 7 => ~core.resetting /\ core.vtor = "image"
             /\ r = 6 => core.dcrdr = data[1]
             /\ r \in 1..5 => core.halted
             /\ r = 5 => Taken("SP", data[1])
             /\ r \in 1..4 => core.regs["SP"] = data[1]
             /\ r \in {1, 3, 4} => core.select = NoReg
             /\ r = 3 => core.dcrdr = data[2]
             /\ r = 2 => Taken("PC", data[2])
             /\ r = 1 => core.regs["PC"] = data[2]
             /\ r = 0 => ~core.halted
  <2>1. command \in {"stmRun", "stmExecute"}
    BY <1>2, <1>6
  <2>2. Length(command) = IF command = "stmRun" THEN 9 ELSE 11
    BY <2>1, Lengths
  <2>3. QED
    BY <1>3, <1>6, <2>1, <2>2 DEF Started
<1>7. CASE Silent
  <2>1. /\ Quiet(r) /\ ~disturbed /\ core' = core /\ command' = command /\ Len(todo') = r - 1 /\ r >= 1
    BY <1>2, <1>3, <1>7, SilentSteps
  <2>2. CASE r > 9
    <3>1. ~(r - 1 <= 8)
      BY <2>2
    <3>2. QED
      BY <2>1, <3>1 DEF Started
  <2>3. CASE r = 9
    <3>1. SUFFICES ASSUME reply' = 0
                   PROVE  /\ ~core.resetting
                          /\ data'[1] = ram'[1] /\ data'[2] = ram'[2]
                          /\ command = "stmExecute" => ram' = Image
      BY <2>1, <2>3 DEF Started
    <3>2. CASE command = "stmExecute"
      <4>1. todo # <<>>
        <5>1. Len(<<>>) = 0 /\ Len(todo) = 9
          BY <1>3, <2>3
        <5>2. QED
          BY <5>1
      <4>2. data = Image
        BY <1>1, <3>2, <4>1 DEF Loaded
      <4>3. data' = data /\ ram' = data /\ ~core.resetting
        BY <1>6, <2>1, <2>3, <3>1, <3>2 DEF Quiet
      <4>4. QED
        BY <3>2, <4>2, <4>3
    <3>3. CASE command = "stmRun"
      <4>1. data' = <<ram[1], ram[2]>> /\ ram' = ram /\ ~core.resetting
        BY <1>6, <2>1, <2>3, <3>1, <3>3 DEF Quiet
      <4>2. QED
        BY <3>3, <4>1
    <3>4. QED
      BY <1>6, <2>1, <3>2, <3>3
  <2>4. CASE r \in {2, 5}
    <3>1. core.select = NoReg /\ UNCHANGED <<data, reply, ram>>
      BY <1>6, <2>1, <2>4 DEF Quiet
    <3>2. NoReg \notin CoreRegs /\ "SP" \in CoreRegs /\ "PC" \in CoreRegs
      BY DEF NoReg, CoreRegs
    <3>3. /\ r = 5 => core.regs["SP"] = data[1]
          /\ r = 2 => core.regs["PC"] = data[2]
      BY <1>6, <2>1, <3>1, <3>2 DEF Taken
    <3>4. r - 1 = 4 \/ r - 1 = 1
      BY <2>4
    <3>5. QED
      BY <1>6, <2>1, <2>4, <3>1, <3>3, <3>4 DEF Started
  <2>5. QED
    BY <1>6, <2>1, <2>2, <2>3, <2>4 DEF Quiet
<1>8. CASE SequenceWrite
  <2>1. /\ Effect(r, Len(todo'), core') /\ command' = command /\ ~disturbed
        /\ UNCHANGED <<data, reply, ram>> /\ core'.vtor = core.vtor /\ Placed'
    BY <1>1, <1>2, <1>3, <1>8, Sent DEF SequenceWrite, Reached
  <2>2. PICK q \in Nat : q = Len(todo')
    BY <2>1 DEF Placed
  <2>3. q > 8 \/ (r = 1 /\ q = r - 1 /\ core'.halted = FALSE /\ core'.resetting = core.resetting)
    <3>1. PICK n : n = core'
      OBVIOUS
    <3>2. Effect(r, q, n) /\ command \in {"stmRun", "stmExecute"}
      BY <1>6, <2>1, <2>2, <3>1
    <3>3. command # "stmErase" /\ command # "cheese_test"
      BY <3>2
    <3>4. \/ command # "stmRun" /\ r = Length(command) /\ q = Length(command)
          \/ command # "stmRun" /\ r = Length(command) /\ q = Length(command) - 1
          \/ command # "stmRun" /\ r = Length(command) - 1 /\ q = r - 1
          \/ r = 1 /\ q = r - 1 /\ n.halted = FALSE /\ n.resetting = core.resetting
      BY <3>2, <3>3, Zenon DEF Effect
    <3>5. command # "stmRun" => Length(command) = 11
      BY <1>6, <2>1
    <3>6. QED
      BY <3>1, <3>4, <3>5
  <2>4. CASE q > 8
    BY <2>2, <2>4, StartedNotYet
  <2>5. CASE r = 1 /\ q = r - 1 /\ core'.halted = FALSE /\ core'.resetting = core.resetting
    <3>1. q = 0 /\ ~core.resetting /\ core.vtor = "image"
      BY <1>6, <2>1, <2>5
    <3>2. QED
      BY <2>1, <2>2, <2>5, <3>1 DEF Started
  <2>6. QED
    BY <2>3, <2>4, <2>5
<1>9. CASE RegisterWrite
  <2>1. /\ Len(todo') = r - 1 /\ r \in {8, 7, 6, 4, 3} /\ UNCHANGED <<command, data, reply, ram>>
        /\ ~disturbed /\ ~core.resetting /\ (r \in {6, 3} => core.halted)
    BY <1>1, <1>2, <1>3, <1>9, RegisterEffect, RegisterReached DEF RegisterWrite
  <2>2. /\ core'.halted = core.halted /\ core'.resetting = core.resetting /\ core'.regs = core.regs
        /\ core'.vtor = IF r = 8 THEN "image" ELSE core.vtor
        /\ core'.dcrdr = IF r = 7 THEN data[1] ELSE IF r = 4 THEN data[2] ELSE core.dcrdr
        /\ core'.select = IF r = 6 THEN "SP" ELSE IF r = 3 THEN "PC" ELSE core.select
    BY <1>1, <1>2, <1>3, <1>9, <2>1, RegisterEffect
  <2>3. CASE r = 8
    <3>1. Len(todo') = 7
      BY <2>1, <2>3
    <3>2. QED
      BY <1>6, <2>1, <2>2, <2>3, <3>1 DEF Started
  <2>4. CASE r = 7
    <3>1. Len(todo') = 6
      BY <2>1, <2>4
    <3>2. QED
      BY <1>6, <2>1, <2>2, <2>4, <3>1 DEF Started
  <2>5. CASE r = 6
    <3>1. Len(todo') = 5
      BY <2>1, <2>5
    <3>2. QED
      BY <1>6, <2>1, <2>2, <2>5, <3>1 DEF Started, Taken
  <2>6. CASE r = 4
    <3>1. Len(todo') = 3
      BY <2>1, <2>6
    <3>2. QED
      BY <1>6, <2>1, <2>2, <2>6, <3>1 DEF Started
  <2>7. CASE r = 3
    <3>1. Len(todo') = 2
      BY <2>1, <2>7
    <3>2. QED
      BY <1>6, <2>1, <2>2, <2>7, <3>1 DEF Started, Taken
  <2>8. QED
    BY <2>1, <2>3, <2>4, <2>5, <2>6, <2>7
<1>10. CASE CoreReset
  <2>1. UNCHANGED <<command, todo, disturbed, reply>> /\ core.resetting
    BY <1>10 DEF CoreReset
  <2>2. ~(r <= 7) /\ ~(r \in 1..8 /\ reply = 0)
    BY <1>2, <1>6, <2>1
  <2>3. r # 0 /\ r \notin 1..5 /\ r \notin 1..4 /\ r \notin {1, 3, 4} /\ r # 1 /\ r # 2 /\ r # 3 /\ r # 5 /\ r # 6
    BY <2>2
  <2>4. QED
    BY <1>3, <2>1, <2>2, <2>3 DEF Started
<1>11. CASE CoreTransfer
  <2>1. UNCHANGED <<command, todo, disturbed, reply, data, ram>>
    BY <1>11 DEF CoreTransfer
  <2>2. /\ core.halted /\ core.select \in CoreRegs /\ core'.select = NoReg
        /\ core'.regs = [core.regs EXCEPT ![core.select] = core.dcrdr]
        /\ core'.halted = core.halted /\ core'.resetting = core.resetting
        /\ core'.dcrdr = core.dcrdr /\ core'.vtor = core.vtor
    BY <1>1, <1>11, Transfers
  <2>3. NoReg \notin CoreRegs /\ "SP" \in CoreRegs /\ "PC" \in CoreRegs /\ core.regs \in [CoreRegs -> Values]
    BY <1>1 DEF NoReg, CoreRegs, CoreStates
  <2>4. r \notin {0, 1, 3, 4}
    BY <1>2, <1>6, <2>1, <2>2, <2>3
  <2>5. r = 5 => core.select = "SP" /\ core.dcrdr = data[1]
    BY <1>2, <1>6, <2>1, <2>2, <2>3 DEF Taken
  <2>6. r = 2 => core.select = "PC" /\ core.dcrdr = data[2] /\ core.regs["SP"] = data[1]
    BY <1>2, <1>6, <2>1, <2>2, <2>3 DEF Taken
  <2>7. r = 5 => core'.regs["SP"] = data[1]
    BY <2>2, <2>3, <2>5
  <2>8. r = 2 => core'.regs["PC"] = data[2] /\ core'.regs["SP"] = data[1]
    BY <2>2, <2>3, <2>6
  <2>9. CASE r = 5
    BY <1>2, <1>3, <1>6, <2>1, <2>2, <2>7, <2>9 DEF Started, Taken
  <2>10. CASE r = 2
    BY <1>2, <1>3, <1>6, <2>1, <2>2, <2>8, <2>10 DEF Started, Taken
  <2>11. CASE r \notin {0, 1, 2, 3, 4, 5}
    <3>1. r \notin 1..5 /\ r \notin 1..4
      BY <2>11
    <3>2. QED
      BY <1>2, <1>3, <1>6, <2>1, <2>2, <2>11, <3>1 DEF Started
  <2>12. QED
    BY <2>4, <2>9, <2>10, <2>11
<1>12. CASE CoreRuns
  <2>1. UNCHANGED <<command, todo, disturbed, reply, data>>
    BY <1>12 DEF CoreRuns
  <2>2. /\ ~core.halted /\ ~core.resetting
        /\ core'.halted = core.halted /\ core'.resetting = core.resetting
        /\ core'.dcrdr = core.dcrdr /\ core'.vtor = core.vtor
    BY <1>1, <1>12, Runs
  <2>3. r \notin 1..5
    BY <1>2, <1>6, <2>1, <2>2
  <2>4. r \notin 1..4 /\ r # 1 /\ r # 2 /\ r # 3 /\ r # 4 /\ r # 5 /\ r \notin {1, 3, 4}
    BY <2>3
  <2>5. QED
    BY <1>2, <1>3, <1>6, <2>1, <2>2, <2>3, <2>4 DEF Started
<1>13. QED
  BY <1>2, <1>4, <1>5, <1>7, <1>8, <1>9, <1>10, <1>11, <1>12, Cases

(* A core that is let go has the vector table, the stack pointer and the program  *)
(* counter of the image in its memory.                                           *)
THEOREM LetGoRight == Spec => StartedRight
<1>1. Init => Typed /\ Started
  BY TypedInit DEF Init, Started
<1>2. Typed /\ Started /\ [Next]_vars => (Typed /\ Started)'
  BY TypedNext, StartedNext
<1> DEFINE Right == LetGo /\ ~disturbed' =>
                      /\ core'.vtor = "image"
                      /\ core'.regs = [r \in CoreRegs |-> IF r = "SP" THEN data[1] ELSE data[2]]
                      /\ reply = 0 => <<data[1], data[2]>> = <<ram[1], ram[2]>>
                      /\ reply = 0 /\ command = "stmExecute" => ram = Image
<1>3. ASSUME Typed, Started, Next, LetGo, ~disturbed' PROVE Right
  <2>1. /\ command \in {"stmRun", "stmExecute"} /\ Len(todo) = 1 /\ todo # <<>> /\ todo' = <<>>
        /\ command \in Commands /\ Placed /\ core \in CoreStates
    <3>1. Len(<<>>) = 0
      OBVIOUS
    <3>2. command \in {"stmRun", "stmExecute"} /\ Len(todo) = 1 /\ todo' = <<>>
      BY <1>3 DEF LetGo
    <3>3. command \in Commands /\ Placed /\ core \in CoreStates
      BY <1>3 DEF Typed, TypeOK
    <3>4. todo # <<>>
      BY <3>1, <3>2
    <3>5. QED
      BY <3>2, <3>3, <3>4
  <2>2. SequenceWrite
    <3>1. ~Silent
      <4>1. Silent => Quiet(1)
        BY <1>3, <2>1, SilentSteps
      <4>2. Length(command) >= 4 /\ Length(command) \in Nat
        BY <2>1, Sizes
      <4>3. ~Quiet(1)
        BY <2>1, <4>2 DEF Quiet
      <4>4. QED
        BY <4>1, <4>3
    <3>2. ~RegisterWrite
      <4>1. Loaded /\ data \in Seq(Values)
        BY <1>3 DEF Typed, TypeOK
      <4>2. QED
        BY <2>1, <4>1, RegisterEffect
    <3>3. ~(CoreReset \/ CoreTransfer \/ CoreRuns) /\ ~UNCHANGED vars
      BY <2>1 DEF CoreReset, CoreTransfer, CoreRuns, vars
    <3>4. ~ \E c \in Commands : Call(c)
      BY <2>1 DEF Call
    <3>5. QED
      BY <1>3, <3>1, <3>2, <3>3, <3>4, Cases
  <2>3. core'.vtor = core.vtor /\ core'.regs = core.regs /\ ~disturbed
    BY <1>3, <2>1, <2>2, Sent DEF SequenceWrite, Reached
  <2>4. /\ core.vtor = "image" /\ core.regs["SP"] = data[1] /\ core.regs["PC"] = data[2]
        /\ reply = 0 => /\ data[1] = ram[1] /\ data[2] = ram[2]
                        /\ command = "stmExecute" => ram = Image
    <3>1. PICK q \in Nat : q = 1 /\ q = Len(todo) /\ q \in 1..8 /\ q \in 1..5 /\ q \in 1..4 /\ q <= 7
      BY <2>1
    <3>2. QED
      BY <1>3, <2>1, <2>3, <3>1 DEF Started
  <2>5. core.regs = [r \in CoreRegs |-> IF r = "SP" THEN data[1] ELSE data[2]]
    BY <2>1, <2>4 DEF CoreStates, CoreRegs
  <2>6. QED
    BY <2>3, <2>4, <2>5
<1>4. ASSUME Typed, Started, [Next]_vars PROVE [Right]_vars
  BY <1>3, <1>4
<1>5. QED
  BY <1>1, <1>2, <1>4, PTL DEF Spec, StartedRight

(* A command that lets the core go does so for good. *)
Loosed ==
  ~disturbed =>
    /\ command = "stmErase" =>
         /\ Len(todo) = 2 /\ todo[1] # Sends("SEQ_UNHALT_ON_RESET") => ~core.vcreset
         /\ Len(todo) <= 1 => ~core.vcreset /\ ~core.debugen /\ ~core.halted
    /\ command = "cheese_test" =>
         /\ Len(todo) <= 3 => ~core.resetting
         /\ Len(todo) <= 2 => ~core.halted

LEMMA LoosedNext ==
  ASSUME Typed, Loosed, [Next]_vars
  PROVE  Loosed'
<1>1. command \in Commands /\ Placed /\ core \in CoreStates /\ data \in Seq(Values) /\ Loaded
  BY DEF Typed, TypeOK
<1>2. SUFFICES ASSUME ~disturbed', command' \in {"stmErase", "cheese_test"} PROVE Loosed'
  BY DEF Loosed
<1>3. PICK r \in Nat : r = Len(todo)
  BY <1>1 DEF Placed
<1>4. CASE UNCHANGED vars
  BY <1>4 DEF vars, Loosed
<1>5. ASSUME NEW c \in Commands, Call(c) PROVE Loosed'
  <2>1. PICK q \in Nat : q = Len(todo') /\ q > 4
    BY <1>2, <1>5, CallLength
  <2>2. q # 2 /\ ~(q <= 1) /\ ~(q <= 3) /\ ~(q <= 2)
    BY <2>1
  <2>3. QED
    BY <2>1, <2>2 DEF Loosed
<1>6. ASSUME UNCHANGED command, ~disturbed
      PROVE  /\ command = "stmErase" =>
                  /\ Length(command) = 5
                  /\ r = 2 /\ todo[1] # Sends("SEQ_UNHALT_ON_RESET") => ~core.vcreset
                  /\ r <= 1 => ~core.vcreset /\ ~core.debugen /\ ~core.halted
             /\ command = "cheese_test" =>
                  /\ Length(command) = 6
                  /\ r <= 3 => ~core.resetting
                  /\ r <= 2 => ~core.halted
             /\ command \in {"stmErase", "cheese_test"}
  BY <1>2, <1>3, <1>6, Lengths DEF Loosed
<1>7. CASE Silent
  <2>1. /\ Quiet(r) /\ ~disturbed /\ core' = core /\ command' = command /\ Len(todo') = r - 1 /\ r >= 1
        /\ Len(todo') >= 1 => todo'[1] = StepOf(command, Len(todo'))
    BY <1>2, <1>3, <1>7, SilentSteps
  <2>2. CASE r > 5
    <3>1. r - 1 # 2 /\ ~(r - 1 <= 1) /\ ~(r - 1 <= 3) /\ ~(r - 1 <= 2)
      BY <2>2
    <3>2. QED
      BY <2>1, <3>1 DEF Loosed
  <2>3. CASE command = "stmErase" /\ r = 3
    <3>1. StepOf(command, 2) = Sends("SEQ_UNHALT_ON_RESET")
      BY <2>3, Lengths DEF StepOf, Rest
    <3>2. Len(todo') = 2 /\ todo'[1] = Sends("SEQ_UNHALT_ON_RESET")
      BY <2>1, <2>3, <3>1
    <3>3. QED
      BY <2>1, <2>3, <3>2 DEF Loosed
  <2>4. CASE command = "cheese_test" /\ r = 4 /\ ~core.resetting
    <3>1. Len(todo') = 3
      BY <2>1, <2>4
    <3>2. QED
      BY <2>1, <2>4, <3>1 DEF Loosed
  <2>5. CASE command = "cheese_test" /\ r \in {1, 2}
    <3>1. ~core.resetting /\ ~core.halted
      BY <1>6, <2>1, <2>5
    <3>2. QED
      BY <2>1, <2>5, <3>1 DEF Loosed
  <2>6. \/ r > Length(command) \/ (command = "stmErase" /\ r = 3)
        \/ command = "cheese_test" /\ r = 4 /\ ~core.resetting
        \/ command = "cheese_test" /\ r \in {1, 2}
    BY <1>6, <2>1 DEF Quiet
  <2>7. r > Length(command) => r > 5
    BY <1>6, <2>1
  <2>8. QED
    BY <2>2, <2>3, <2>4, <2>5, <2>6, <2>7
<1>8. CASE SequenceWrite
  <2>1. /\ Effect(r, Len(todo'), core') /\ command' = command /\ ~disturbed /\ Placed' /\ core' \in CoreStates
    BY <1>1, <1>2, <1>3, <1>8, Sent DEF SequenceWrite, Reached
  <2>2. PICK q \in Nat : q = Len(todo')
    BY <2>1 DEF Placed
  <2>3. PICK n : n = core' /\ n \in CoreStates
    BY <2>1
  <2>4. Effect(r, q, n) /\ command \in {"stmErase", "cheese_test"}
    BY <1>6, <2>1, <2>2, <2>3
  <2>5. command # "stmRun" /\ command # "stmExecute"
    BY <2>4
  <2>6. \/ r = Length(command) /\ q = Length(command)
        \/ r = Length(command) /\ q = Length(command) - 1
        \/ r = Length(command) - 1 /\ q = r - 1
        \/ command = "stmErase" /\ r = 1 /\ q = r - 1
             /\ n.halted = core.halted /\ n.debugen = core.debugen /\ n.vcreset = core.vcreset
        \/ command = "cheese_test" /\ r = 3 /\ q = r - 1 /\ n.halted = FALSE /\ n.resetting = core.resetting
        \/ command = "stmErase" /\ r = 2 /\ q = 2 /\ n.vcreset = FALSE
        \/ command = "stmErase" /\ r = 2 /\ q = 1 /\ todo[1] # Sends("SEQ_UNHALT_ON_RESET")
             /\ n.halted = FALSE /\ n.debugen = FALSE /\ n.vcreset = core.vcreset
    BY <2>4, <2>5, Zenon DEF Effect
  <2>7. CASE q > 3 \/ (q = 3 /\ command = "stmErase")
    <3>1. q # 2 /\ ~(q <= 1) /\ ~(q <= 2) /\ (command = "stmErase" \/ ~(q <= 3))
      BY <2>7
    <3>2. QED
      BY <2>1, <2>2, <3>1 DEF Loosed
  <2>8. CASE command = "stmErase" /\ r = 1 /\ q = r - 1
             /\ n.halted = core.halted /\ n.debugen = core.debugen /\ n.vcreset = core.vcreset
    <3>1. q = 0 /\ ~core.vcreset /\ ~core.debugen /\ ~core.halted
      BY <1>6, <2>1, <2>8
    <3>2. QED
      BY <2>1, <2>2, <2>3, <2>8, <3>1 DEF Loosed
  <2>9. CASE command = "cheese_test" /\ r = 3 /\ q = r - 1 /\ n.halted = FALSE /\ n.resetting = core.resetting
    <3>1. ~core.resetting
      BY <1>6, <2>1, <2>9
    <3>2. QED
      BY <2>1, <2>2, <2>3, <2>9, <3>1 DEF Loosed
  <2>10. CASE command = "stmErase" /\ r = 2 /\ q = 2 /\ n.vcreset = FALSE
    BY <2>1, <2>2, <2>3, <2>10 DEF Loosed
  <2>11. CASE command = "stmErase" /\ r = 2 /\ q = 1 /\ todo[1] # Sends("SEQ_UNHALT_ON_RESET")
             /\ n.halted = FALSE /\ n.debugen = FALSE /\ n.vcreset = core.vcreset
    <3>1. ~core.vcreset
      BY <1>6, <2>1, <2>11
    <3>2. QED
      BY <2>1, <2>2, <2>3, <2>11, <3>1 DEF Loosed
  <2>12. /\ command = "stmErase" => Length(command) = 5
         /\ command = "cheese_test" => Length(command) = 6
    BY <1>6, <2>1
  <2>13. PICK l \in {5, 6} : l = Length(command) /\ (l = 5 => command = "stmErase")
    BY <2>4, <2>12
  <2>14. (r = l /\ q = l) \/ (r = l /\ q = l - 1) \/ (r = l - 1 /\ q = r - 1)
           => q > 3 \/ (q = 3 /\ command = "stmErase")
    BY <2>13
  <2>15. QED
    BY <2>6, <2>7, <2>8, <2>9, <2>10, <2>11, <2>13, <2>14
<1>9. CASE RegisterWrite
  BY <1>1, <1>2, <1>9, RegisterEffect DEF RegisterWrite
<1>10. CASE CoreReset \/ CoreTransfer \/ CoreRuns
  <2>1. UNCHANGED <<command, todo, disturbed>>
    BY <1>10 DEF CoreReset, CoreTransfer, CoreRuns
  <2>2. core'.debugen = core.debugen /\ core'.vcreset = core.vcreset
    BY <1>1, <1>10, Reset, Transfers, Runs
  <2>3. /\ ~core.resetting => ~core'.resetting /\ core'.halted = core.halted
        /\ ~core.vcreset /\ ~core.halted => ~core'.halted
    <3>1. CASE CoreReset
      BY <1>1, <3>1, Reset
    <3>2. CASE CoreTransfer
      BY <1>1, <3>2, Transfers
    <3>3. CASE CoreRuns
      BY <1>1, <3>3, Runs
    <3>4. QED
      BY <1>10, <3>1, <3>2, <3>3
  <2>4. r <= 2 => r <= 3
    OBVIOUS
  <2>5. QED
    BY <1>2, <1>3, <1>6, <2>1, <2>2, <2>3, <2>4 DEF Loosed
<1>11. QED
  BY <1>2, <1>4, <1>5, <1>7, <1>8, <1>9, <1>10, Cases

(* No command but stmWrite() leaves the core held, and stmErase() leaves nothing   *)
(* that a later reset would hold it by.                                          *)
THEOREM FreedAgain == Spec => []Released
<1>1. Init => Typed /\ Started /\ Loosed
  BY TypedInit DEF Init, Started, Loosed
<1>2. Typed /\ Started /\ Loosed /\ [Next]_vars => (Typed /\ Started /\ Loosed)'
  BY TypedNext, StartedNext, LoosedNext
<1>3. Typed /\ Started /\ Loosed => Released
  <2>1. Typed => command \in Commands
    BY DEF Typed, TypeOK
  <2>2. todo = <<>> => Len(todo) = 0
    OBVIOUS
  <2>3. QED
    BY <2>1, <2>2 DEF Started, Loosed, Released, Commands
<1>4. QED
  BY <1>1, <1>2, <1>3, PTL DEF Spec
=================================================================================
