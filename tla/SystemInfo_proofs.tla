---------------------------- MODULE SystemInfo_proofs ----------------------------
(***************************************************************************)
(* Proofs about -info for any target whose tables are a tree, any number of   *)
(* pages, access ports and entries, any table of known components, and reads   *)
(* that fail at any place.  The reference Below is a recursive function, so    *)
(* the proof starts with induction: Least says that a set of numbers has a    *)
(* least one, FlattenSeq() and Below are shown to exist and to satisfy their  *)
(* equations, and Walked is the invariant that relates the list of components *)
(* still to extract to what the reference says lies below them.               *)
(***************************************************************************)
EXTENDS SystemInfo, FiniteSetTheorems, SequenceTheorems, WellFoundedInduction, TLAPS

-----------------------------------------------------------------------------
(* Induction. *)

(* The orders of the finite sets of numbers give the order of the numbers.      *)
LEMMA Least ==
  ASSUME NEW T \in SUBSET Nat, T # {}
  PROVE  \E x \in T : \A y \in T : x <= y
<1> DEFINE R == StrictSubsetOrdering(Nat)
           F == {0 .. m : m \in T}
<1>1. IsWellFoundedOn(R, FiniteSubsetsOf(Nat))
  BY FS_StrictSubsetOrderingWellFounded
<1>2. \A m \in T : 0 .. m \in FiniteSubsetsOf(Nat)
  BY FS_Interval DEF FiniteSubsetsOf
<1>3. F \subseteq FiniteSubsetsOf(Nat) /\ F # {}
  BY <1>2
<1>4. \A a, b \in F : a \subseteq b /\ a # b => <<a, b>> \in R
  BY <1>3 DEF StrictSubsetOrdering, FiniteSubsetsOf
<1> HIDE DEF R
<1>5. PICK f \in F : \A g \in F : ~(<<g, f>> \in R)
  <2> HIDE DEF F
  <2>1. QED BY <1>1, <1>3, WFMin
<1>6. PICK x \in T : f = 0 .. x
  OBVIOUS
<1>7. ASSUME NEW y \in T PROVE x <= y
  <2>1. ~(0 .. y \subseteq 0 .. x /\ 0 .. y # 0 .. x)
    BY <1>4, <1>5, <1>6
  <2>2. y < x => 0 .. y \subseteq 0 .. x /\ x \in 0 .. x /\ x \notin 0 .. y
    OBVIOUS
  <2>3. QED
    BY <2>1, <2>2
<1>8. QED
  BY <1>7

(* Induction over the numbers, for the set of those that have the property.    *)
LEMMA Induction ==
  ASSUME NEW G \in SUBSET Nat, 0 \in G, \A n \in Nat : n \in G => n + 1 \in G
  PROVE  G = Nat
<1>1. SUFFICES ASSUME Nat \ G # {} PROVE FALSE
  OBVIOUS
<1>2. PICK x \in Nat \ G : \A y \in Nat \ G : x <= y
  BY <1>1, Least
<1>3. x # 0 /\ x - 1 \in Nat
  BY <1>2
<1>4. x - 1 \in G
  BY <1>2, <1>3
<1>5. QED
  BY <1>2, <1>3, <1>4

-----------------------------------------------------------------------------
(* Sequences. *)

(* What SMT shows of sequences, stated once for any element type.                *)
LEMMA SeqAt ==
  ASSUME NEW X, NEW s \in Seq(X), NEW k \in DOMAIN s
  PROVE  s[k] \in X
OBVIOUS

LEMMA SeqCat ==
  ASSUME NEW X, NEW a \in Seq(X), NEW b \in Seq(X)
  PROVE  /\ a \o b \in Seq(X) /\ Len(a \o b) = Len(a) + Len(b)
         /\ \A k \in 1 .. Len(a) : (a \o b)[k] = a[k]
         /\ \A k \in 1 .. Len(b) : (a \o b)[Len(a) + k] = b[k]
OBVIOUS

LEMMA SeqSame ==
  ASSUME NEW X, NEW a \in Seq(X), NEW b \in Seq(X), Len(a) = Len(b), \A k \in 1 .. Len(a) : a[k] = b[k]
  PROVE  a = b
OBVIOUS

(* Joining is associative.                                    *)
LEMMA Assoc ==
  ASSUME NEW V, NEW a \in Seq(V), NEW b \in Seq(V), NEW c \in Seq(V)
  PROVE  a \o (b \o c) = (a \o b) \o c
BY ConcatAssociative, SMTT(30)

-----------------------------------------------------------------------------
(* What FlattenSeq() computes. *)

(* p[i] is the first i sequences of s, joined.                                  *)
Joins(p, s, V) ==
  /\ p \in [0 .. Len(s) -> Seq(V)]
  /\ p[0] = <<>>
  /\ \A i \in 1 .. Len(s) : p[i] = p[i - 1] \o s[i]

(* The partial joins exist.                                                    *)
LEMMA JoinsExist ==
  ASSUME NEW V, NEW s \in Seq(Seq(V))
  PROVE  \E p : Joins(p, s, V)
<1> DEFINE To(p, n) == /\ p \in [0 .. n -> Seq(V)] /\ p[0] = <<>>
                       /\ \A i \in 1 .. n : p[i] = p[i - 1] \o s[i]
           G == {n \in Nat : n <= Len(s) => \E p : To(p, n)}
<1>1. 0 \in G
  <2>1. To([i \in 0 .. 0 |-> <<>>], 0)
    OBVIOUS
  <2>2. QED
    BY <2>1
<1>2. ASSUME NEW n \in Nat, NEW p, To(p, n), n + 1 <= Len(s) PROVE \E q : To(q, n + 1)
  <2>1. n + 1 \in 1 .. Len(s) /\ n \in 0 .. n
    BY <1>2
  <2>2. p[n] \o s[n + 1] \in Seq(V)
    BY <1>2, <2>1
  <2> DEFINE q == [i \in 0 .. n + 1 |-> IF i = n + 1 THEN p[n] \o s[n + 1] ELSE p[i]]
  <2>3. q \in [0 .. n + 1 -> Seq(V)]
    BY <1>2, <2>2
  <2>4. /\ 0 \in 0 .. n + 1 /\ n + 1 \in 0 .. n + 1 /\ 0 # n + 1
        /\ \A i \in 0 .. n : i \in 0 .. n + 1 /\ i # n + 1
    OBVIOUS
  <2>5. q[0] = p[0]
    BY <2>4
  <2>6. q[n + 1] = p[n] \o s[n + 1]
    BY <2>4
  <2>7. \A i \in 0 .. n : q[i] = p[i]
    BY <2>4
  <2> HIDE DEF q
  <2>8. ASSUME NEW i \in 1 .. n + 1 PROVE q[i] = q[i - 1] \o s[i]
    <3>1. i - 1 \in 0 .. n /\ (i = n + 1 => i - 1 = n) /\ (i = n + 1 \/ i \in 1 .. n)
      OBVIOUS
    <3>2. CASE i = n + 1
      BY <2>6, <2>7, <3>1, <3>2
    <3>3. CASE i \in 1 .. n
      <4>1. i \in 0 .. n
        BY <3>3
      <4>2. QED
        BY <1>2, <2>7, <3>1, <3>3, <4>1
    <3>4. QED
      BY <3>1, <3>2, <3>3
  <2>9. q[0] = <<>>
    BY <1>2, <2>5
  <2>10. QED
    BY <2>3, <2>8, <2>9
<1>3. Len(s) \in G
  <2> HIDE DEF To
  <2>1. ASSUME NEW n \in Nat, n \in G PROVE n + 1 \in G
    <3>1. n + 1 <= Len(s) => n <= Len(s)
      OBVIOUS
    <3>2. QED
      BY <1>2, <2>1, <3>1
  <2>2. G = Nat
    BY <1>1, <2>1, Induction
  <2>3. Len(s) \in Nat
    OBVIOUS
  <2>4. QED
    BY <2>2, <2>3
<1>4. PICK p : To(p, Len(s))
  <2> HIDE DEF To
  <2>1. QED
    BY <1>3
<1>5. QED
  BY <1>4 DEF Joins

(* The last partial join is what FlattenSeq() chooses.                         *)
LEMMA JoinsFlat ==
  ASSUME NEW V, NEW s \in Seq(Seq(V)), NEW p, Joins(p, s, V)
  PROVE  FlattenSeq(s) = p[Len(s)]
<1>1. CASE Len(s) = 0
  BY <1>1 DEF Joins, FlattenSeq
<1>2. CASE Len(s) # 0
  <2> DEFINE IsFlat(f) == f = [i \in 1 .. Len(s) |-> IF i = 1 THEN s[i] ELSE f[i - 1] \o s[i]]
             flatten == CHOOSE f : IsFlat(f)
  <2>1. FlattenSeq(s) = flatten[Len(s)]
    BY <1>2 DEF FlattenSeq
  <2>2. IsFlat([i \in 1 .. Len(s) |-> p[i]])
    <3>1. PICK l \in Nat : l = Len(s)
      OBVIOUS
    <3> DEFINE g == [i \in 1 .. l |-> p[i]]
    <3>2. \A i \in 1 .. l : p[i] = p[i - 1] \o s[i]
      BY <3>1 DEF Joins
    <3>3. ASSUME NEW i \in 1 .. l PROVE g[i] = IF i = 1 THEN s[i] ELSE g[i - 1] \o s[i]
      <4>1. CASE i = 1
        <5>0. 1 \in 1 .. l /\ 1 - 1 = 0
          BY <4>1
        <5>1. p[1] = p[1 - 1] \o s[1]
          BY <3>2, <5>0
        <5>2. p[0] = <<>>
          BY DEF Joins
        <5>3. s[1] \in Seq(V)
          BY <3>1, <5>0
        <5>4. p[1] = <<>> \o s[1]
          BY <5>0, <5>1, <5>2
        <5>5. p[1] = s[1]
          BY <5>3, <5>4
        <5>6. QED
          BY <4>1, <5>5
      <4>2. CASE i # 1
        <5>1. i - 1 \in 1 .. l
          BY <4>2
        <5>2. QED
          BY <3>2, <4>2, <5>1
      <4>3. QED
        BY <4>1, <4>2
    <3>4. g = [i \in 1 .. l |-> IF i = 1 THEN s[i] ELSE g[i - 1] \o s[i]]
      BY <3>3
    <3>5. QED
      BY <3>1, <3>4
  <2>3. IsFlat(flatten)
    <3> HIDE DEF IsFlat
    <3>1. QED BY <2>2
  <2>4. \A i \in 1 .. Len(s) : flatten[i] = IF i = 1 THEN s[i] ELSE flatten[i - 1] \o s[i]
    <3> HIDE DEF flatten
    <3>1. QED BY <2>3
  <2> HIDE DEF flatten, IsFlat
  <2> DEFINE G == {n \in Nat : n \in 1 .. Len(s) => flatten[n] = p[n]}
  <2>5. ASSUME NEW n \in Nat, n \in G, n + 1 \in 1 .. Len(s) PROVE flatten[n + 1] = p[n + 1]
    <3>1. p[n + 1] = p[n] \o s[n + 1]
      <4>1. p[n + 1] = p[(n + 1) - 1] \o s[n + 1]
        BY <2>5 DEF Joins
      <4>2. (n + 1) - 1 = n
        OBVIOUS
      <4>3. QED
        BY <4>1, <4>2
    <3>2. CASE n = 0
      <4>1. p[0] = <<>> /\ s[1] \in Seq(V) /\ flatten[1] = s[1]
        BY <2>4, <2>5, <3>2 DEF Joins
      <4>2. <<>> \o s[1] = s[1]
        BY <4>1
      <4>3. QED
        BY <3>1, <3>2, <4>1, <4>2
    <3>3. CASE n # 0
      <4>1. n \in 1 .. Len(s) /\ n + 1 # 1 /\ (n + 1) - 1 = n
        BY <2>5, <3>3
      <4>2. flatten[n + 1] = flatten[n] \o s[n + 1]
        BY <2>4, <2>5, <4>1
      <4>3. QED
        BY <2>5, <3>1, <4>1, <4>2
    <3>4. QED
      BY <3>2, <3>3
  <2>6. G = Nat
    <3>1. 0 \in G
      OBVIOUS
    <3>2. \A n \in Nat : n \in G => n + 1 \in G
      BY <2>5
    <3> HIDE DEF G
    <3>3. G \in SUBSET Nat
      BY DEF G
    <3>4. QED
      BY <3>1, <3>2, <3>3, Induction
  <2>7. QED
    BY <1>2, <2>1, <2>6
<1>3. QED
  BY <1>1, <1>2

(* The type of a flattened list, and its value for none, one and two parts.    *)
LEMMA FlatType ==
  ASSUME NEW V, NEW s \in Seq(Seq(V))
  PROVE  FlattenSeq(s) \in Seq(V)
<1>1. PICK p : Joins(p, s, V)
  BY JoinsExist
<1>2. Len(s) \in 0 .. Len(s)
  OBVIOUS
<1>3. p[Len(s)] \in Seq(V)
  BY <1>1, <1>2 DEF Joins
<1>4. QED
  BY <1>1, <1>3, JoinsFlat

LEMMA FlatNone == FlattenSeq(<<>>) = <<>>
BY DEF FlattenSeq

LEMMA FlatOne ==
  ASSUME NEW V, NEW x \in Seq(V)
  PROVE  FlattenSeq(<<x>>) = x
<1> DEFINE s == <<x>>
           p == [i \in 0 .. 1 |-> IF i = 0 THEN <<>> ELSE x]
<1>1. s \in Seq(Seq(V)) /\ Len(s) = 1 /\ s[1] = x
  OBVIOUS
<1>2. p \in [0 .. 1 -> Seq(V)] /\ p[0] = <<>> /\ p[1] = x
  OBVIOUS
<1> HIDE DEF s, p
<1>3. \A i \in 1 .. 1 : p[i] = p[i - 1] \o s[i]
  <2>1. x = <<>> \o x
    OBVIOUS
  <2>2. \A i \in 1 .. 1 : i = 1 /\ i - 1 = 0
    OBVIOUS
  <2>3. QED
    BY <1>1, <1>2, <2>1, <2>2
<1>4. Joins(p, s, V)
  BY <1>1, <1>2, <1>3 DEF Joins
<1>5. FlattenSeq(s) = x
  BY <1>1, <1>2, <1>4, JoinsFlat
<1>6. QED
  BY <1>5 DEF s

(* Two lists one after the other.                                               *)
LEMMA FlatCat ==
  ASSUME NEW V, NEW s \in Seq(Seq(V)), NEW t \in Seq(Seq(V))
  PROVE  FlattenSeq(s \o t) = FlattenSeq(s) \o FlattenSeq(t)
<1>1. PICK p : Joins(p, s, V)
  BY JoinsExist
<1>2. PICK q : Joins(q, t, V)
  BY JoinsExist
<1>3. PICK m \in Nat, n \in Nat : m = Len(s) /\ n = Len(t)
  OBVIOUS
<1>4. /\ s \o t \in Seq(Seq(V)) /\ Len(s \o t) = m + n
      /\ \A i \in 1 .. m : (s \o t)[i] = s[i]
      /\ \A i \in 1 .. n : (s \o t)[m + i] = t[i]
  BY <1>3
<1> DEFINE st == s \o t
           r == [i \in 0 .. m + n |-> IF i <= m THEN p[i] ELSE p[m] \o q[i - m]]
<1> HIDE DEF st
<1>5. /\ p \in [0 .. m -> Seq(V)] /\ p[0] = <<>> /\ \A i \in 1 .. m : p[i] = p[i - 1] \o s[i]
      /\ q \in [0 .. n -> Seq(V)] /\ q[0] = <<>> /\ \A i \in 1 .. n : q[i] = q[i - 1] \o t[i]
  BY <1>1, <1>2, <1>3 DEF Joins
<1>6. /\ \A i \in 0 .. m : r[i] = p[i]
      /\ \A i \in 1 .. n : r[m + i] = p[m] \o q[i]
  <2>1. \A i \in 0 .. m : i \in 0 .. m + n /\ i <= m
    BY <1>3
  <2>2. \A i \in 1 .. n : m + i \in 0 .. m + n /\ ~(m + i <= m) /\ (m + i) - m = i
    BY <1>3
  <2>3. QED
    BY <2>1, <2>2
<1>7. \A i \in 0 .. n : r[m + i] = p[m] \o q[i]
  <2>1. m \in 0 .. m /\ m + 0 = m
    BY <1>3
  <2>2. p[m] \in Seq(V)
    BY <1>5, <2>1
  <2>3. r[m + 0] = p[m] \o q[0]
    <3>1. p[m] \o <<>> = p[m]
      BY <2>2
    <3>2. QED
      BY <1>5, <1>6, <2>1, <3>1
  <2>4. \A i \in 0 .. n : i = 0 \/ i \in 1 .. n
    BY <1>3
  <2>5. QED
    BY <1>6, <2>3, <2>4
<1>8. r \in [0 .. m + n -> Seq(V)]
  <2>1. ASSUME NEW i \in 0 .. m + n PROVE (IF i <= m THEN p[i] ELSE p[m] \o q[i - m]) \in Seq(V)
    <3>1. CASE i <= m
      <4>1. i \in 0 .. m
        BY <1>3, <3>1
      <4>2. QED
        BY <1>5, <3>1, <4>1
    <3>2. CASE ~(i <= m)
      <4>1. m \in 0 .. m /\ i - m \in 0 .. n
        BY <1>3, <3>2
      <4>2. p[m] \in Seq(V) /\ q[i - m] \in Seq(V)
        BY <1>5, <4>1
      <4>3. QED
        BY <3>2, <4>2
    <3>3. QED
      BY <3>1, <3>2
  <2>2. QED
    BY <2>1
<1> HIDE DEF r
<1>9. ASSUME NEW i \in 1 .. m + n PROVE r[i] = r[i - 1] \o st[i]
  <2>1. CASE i \in 1 .. m
    <3>1. i \in 0 .. m /\ i - 1 \in 0 .. m
      BY <1>3, <2>1
    <3>2. QED
      BY <1>4, <1>5, <1>6, <2>1, <3>1 DEF st
  <2>2. CASE i \notin 1 .. m
    <3>1. PICK j \in 1 .. n : i = m + j /\ j - 1 \in 0 .. n /\ i - 1 = m + (j - 1) /\ j \in 0 .. n
      <4>1. i - m \in 1 .. n /\ i = m + (i - m) /\ (i - m) - 1 \in 0 .. n
            /\ i - 1 = m + ((i - m) - 1) /\ i - m \in 0 .. n
        BY <1>3, <2>2
      <4>2. QED
        BY <4>1
    <3>2. r[i] = p[m] \o (q[j - 1] \o t[j])
      BY <1>5, <1>7, <3>1
    <3>3. r[i - 1] \o st[i] = (p[m] \o q[j - 1]) \o t[j]
      BY <1>4, <1>7, <3>1 DEF st
    <3>4. p[m] \in Seq(V) /\ q[j - 1] \in Seq(V) /\ t[j] \in Seq(V)
      <4>1. m \in 0 .. m
        BY <1>3
      <4>2. p[m] \in Seq(V) /\ q[j - 1] \in Seq(V)
        BY <1>5, <3>1, <4>1
      <4>3. t[j] \in Seq(V)
        BY <1>3, <3>1
      <4>4. QED
        BY <4>2, <4>3
    <3>5. p[m] \o (q[j - 1] \o t[j]) = (p[m] \o q[j - 1]) \o t[j]
      <4>1. PICK x \in Seq(V), y \in Seq(V), z \in Seq(V) : x = p[m] /\ y = q[j - 1] /\ z = t[j]
        BY <3>4
      <4>2. x \o (y \o z) = (x \o y) \o z
        BY Assoc, SMTT(30)
      <4>3. QED
        BY <4>1, <4>2
    <3>6. QED
      BY <3>2, <3>3, <3>5
  <2>3. QED
    BY <2>1, <2>2
<1>10. Joins(r, st, V)
  <2>1. r[0] = <<>>
    <3>1. 0 \in 0 .. m
      BY <1>3
    <3>2. QED
      BY <1>5, <1>6, <3>1
  <2>2. QED
    BY <1>4, <1>8, <1>9, <2>1 DEF Joins, st
<1>11. FlattenSeq(st) = r[m + n]
  BY <1>4, <1>10, JoinsFlat DEF st
<1>12. FlattenSeq(s) = p[m] /\ FlattenSeq(t) = q[n]
  BY <1>1, <1>2, <1>3, JoinsFlat
<1>13. QED
  <2>1. n \in 0 .. n
    BY <1>3
  <2>2. QED
    BY <1>7, <1>11, <1>12, <2>1 DEF st

-----------------------------------------------------------------------------
(* What lies below a component, for a target t and a set U of reads that fail.   *)

ComponentSet == [baseAddr : PageNumbers, depth : 0 .. MaxDepth]
ShownSet == [component : ComponentSet, registers : Seq(Nat)]
Trees == [0 .. MaxDepth + 1 -> [PageNumbers -> Seq(ShownSet)]]

(* RegistersOf and Below with the target and the failed reads as parameters.     *)
Registers(t, U, b) ==
  IF t.memory[b].class \notin {"CoreSight", "genericIP"} \/ Meanings(t.memory[b].id) # {"SCS"} THEN <<>>
  ELSE IF <<b, "fetch">> \in U THEN <<0, 0>> ELSE t.memory[b].registers

(* What lies below b by its table, when F says what lies below each entry.     *)
Inside(t, F, d, b) ==
  FlattenSeq([k \in DOMAIN t.memory[b].entries |->
    LET e == t.memory[b].entries[k] IN
    IF e.present THEN F[d + 1][(b + e.offset) % Pages] ELSE <<>>])

(* What lies below b and b itself: the equation that Below solves.             *)
Under(t, U, F, d, b) ==
  IF d > MaxDepth \/ t.memory[b].class = "invalid" \/ <<b, "registers">> \in U THEN <<>>
  ELSE <<Shown(Component(b, d), Registers(t, U, b))>> \o
       IF t.memory[b].class # "ROM" \/ <<b, "entries">> \in U THEN <<>> ELSE Inside(t, F, d, b)

IsTree(t, U, F) == F = [d \in 0 .. MaxDepth + 1 |-> [b \in PageNumbers |-> Under(t, U, F, d, b)]]

(* The reference is the tree of the current target without the reads that failed.*)
LEMMA BelowIs == Below = CHOOSE F : IsTree(target, unread, F)
BY DEF Below, IsTree, Under, Inside, Registers, RegistersOf, Memory

(* An entry leads to a page that exists.                                       *)
LEMMA ChildType ==
  ASSUME NEW t \in Targets, NEW b \in PageNumbers, NEW k \in DOMAIN t.memory[b].entries
  PROVE  Child(t, b, k) \in PageNumbers
<1>1. t.memory[b].entries \in Seq([offset : PageNumbers, present : BOOLEAN])
  BY TargetsAssumption
<1>2. t.memory[b].entries[k].offset \in PageNumbers
  <2> DEFINE X == [offset : PageNumbers, present : BOOLEAN]
  <2>1. t.memory[b].entries[k] \in X
    <3> HIDE DEF X
    <3>1. t.memory[b].entries \in Seq(X)
      BY <1>1 DEF X
    <3>2. QED
      BY <3>1, SeqAt
  <2>2. QED
    BY <2>1
<1>3. \A n \in Nat : n % Pages \in 0 .. Pages - 1
  BY PagesAssumption
<1>4. b + t.memory[b].entries[k].offset \in Nat
  BY <1>2 DEF PageNumbers
<1>5. QED
  BY <1>3, <1>4 DEF PageNumbers, Child

LEMMA InsideType ==
  ASSUME NEW t \in Targets, NEW F, NEW d \in 0 .. MaxDepth, NEW b \in PageNumbers,
         \A c \in PageNumbers : F[d + 1][c] \in Seq(ShownSet)
  PROVE  Inside(t, F, d, b) \in Seq(ShownSet)
<1> DEFINE s == [k \in DOMAIN t.memory[b].entries |->
                   LET e == t.memory[b].entries[k] IN
                   IF e.present THEN F[d + 1][(b + e.offset) % Pages] ELSE <<>>]
<1>1. t.memory[b].entries \in Seq([offset : PageNumbers, present : BOOLEAN])
  BY TargetsAssumption
<1>2. \A k \in DOMAIN t.memory[b].entries : (b + t.memory[b].entries[k].offset) % Pages \in PageNumbers
  BY ChildType DEF Child
<1>3. DOMAIN t.memory[b].entries = 1 .. Len(t.memory[b].entries) /\ Len(t.memory[b].entries) \in Nat
  BY <1>1
<1>4. s \in Seq(Seq(ShownSet))
  <2>1. ASSUME NEW k \in DOMAIN t.memory[b].entries
        PROVE  (LET e == t.memory[b].entries[k] IN
                IF e.present THEN F[d + 1][(b + e.offset) % Pages] ELSE <<>>) \in Seq(ShownSet)
    <3>1. F[d + 1][(b + t.memory[b].entries[k].offset) % Pages] \in Seq(ShownSet)
      BY <1>2
    <3>2. QED
      BY <3>1
  <2>2. PICK n \in Nat : n = Len(t.memory[b].entries)
    BY <1>3
  <2> DEFINE X == Seq(ShownSet)
  <2>3. s \in [1 .. n -> X]
    BY <1>3, <2>1, <2>2
  <2> HIDE DEF s, X
  <2>4. s \in Seq(X)
    BY <2>3
  <2>5. QED
    BY <2>4 DEF X
<1> HIDE DEF s
<1>5. FlattenSeq(s) \in Seq(ShownSet)
  BY <1>4, FlatType
<1>6. QED
  BY <1>5 DEF s, Inside

LEMMA RegistersType ==
  ASSUME NEW t \in Targets, NEW U, NEW b \in PageNumbers
  PROVE  Registers(t, U, b) \in Seq(Nat)
<1>1. t.memory[b].registers \in Nat \X Nat
  BY TargetsAssumption
<1>2. PICK m \in Nat, n \in Nat : t.memory[b].registers = <<m, n>>
  BY <1>1
<1>3. QED
  BY <1>2 DEF Registers

LEMMA UnderType ==
  ASSUME NEW t \in Targets, NEW U, NEW F, NEW d \in 0 .. MaxDepth + 1, NEW b \in PageNumbers,
         d <= MaxDepth => \A c \in PageNumbers : F[d + 1][c] \in Seq(ShownSet)
  PROVE  Under(t, U, F, d, b) \in Seq(ShownSet)
<1>1. CASE d > MaxDepth
  BY <1>1 DEF Under
<1>2. CASE ~(d > MaxDepth)
  <2>1. d \in 0 .. MaxDepth /\ d <= MaxDepth
    BY <1>2, SizesAssumption
  <2>2. Shown(Component(b, d), Registers(t, U, b)) \in ShownSet
    BY <2>1, RegistersType DEF Shown, Component, ShownSet, ComponentSet
  <2>3. Inside(t, F, d, b) \in Seq(ShownSet)
    BY <2>1, InsideType
  <2>4. QED
    BY <2>2, <2>3 DEF Under
<1>3. QED
  BY <1>1, <1>2

(* One level depends on the next deeper level only.                            *)
LEMMA UnderSame ==
  ASSUME NEW t, NEW U, NEW F, NEW H, NEW d \in 0 .. MaxDepth + 1, NEW b,
         d <= MaxDepth => F[d + 1] = H[d + 1]
  PROVE  Under(t, U, F, d, b) = Under(t, U, H, d, b)
<1>1. CASE d > MaxDepth
  BY <1>1 DEF Under
<1>2. CASE ~(d > MaxDepth)
  <2>1. F[d + 1] = H[d + 1]
    BY <1>2, SizesAssumption
  <2>2. Inside(t, F, d, b) = Inside(t, H, d, b)
    BY <2>1, Zenon DEF Inside
  <2>3. QED
    BY <2>2 DEF Under
<1>3. QED
  BY <1>1, <1>2

(* Below exists: it is built from the deepest level up.                         *)
LEMMA TreeExists ==
  ASSUME NEW t, NEW U
  PROVE  \E F : IsTree(t, U, F)
<1>1. PICK N \in Nat : N = MaxDepth + 1
  BY SizesAssumption
<1> DEFINE From(F, n) == F = [d \in N - n .. N |-> [b \in PageNumbers |-> Under(t, U, F, d, b)]]
           G == {n \in Nat : n <= N => \E F : From(F, n)}
<1>2. 0 \in G
  <2> DEFINE F == [d \in N .. N |-> [b \in PageNumbers |-> <<>>]]
  <2>1. ASSUME NEW H PROVE \A d \in N .. N : \A b \in PageNumbers : Under(t, U, H, d, b) = <<>>
    BY <1>1, SizesAssumption DEF Under
  <2>2. N - 0 = N
    OBVIOUS
  <2>3. F = [d \in N .. N |-> [b \in PageNumbers |-> Under(t, U, F, d, b)]]
    <3> HIDE DEF F
    <3>1. \A d \in N .. N : \A b \in PageNumbers : Under(t, U, F, d, b) = <<>>
      BY <2>1
    <3>2. QED
      BY <3>1 DEF F
  <2> HIDE DEF F
  <2>4. From(F, 0)
    BY <2>2, <2>3
  <2>5. QED
    BY <2>4
<1>3. ASSUME NEW n \in Nat, NEW F, From(F, n), n + 1 <= N PROVE \E H : From(H, n + 1)
  <2>1. PICK m \in Nat : m = N - (n + 1) /\ m + 1 = N - n /\ m <= MaxDepth
    <3>1. N - (n + 1) \in Nat /\ (N - (n + 1)) + 1 = N - n /\ N - (n + 1) <= MaxDepth
      BY <1>1, <1>3, SizesAssumption
    <3>2. QED
      BY <3>1
  <2> DEFINE H == [d \in m .. N |-> IF d = m THEN [b \in PageNumbers |-> Under(t, U, F, m, b)] ELSE F[d]]
  <2>2. F = [d \in m + 1 .. N |-> [b \in PageNumbers |-> Under(t, U, F, d, b)]]
    BY <1>3, <2>1
  <2>3. \A d \in m + 1 .. N : d \in m .. N /\ d # m
    BY <2>1
  <2>4. \A d \in m + 1 .. N : H[d] = F[d]
    BY <2>3
  <2>5. m \in m .. N /\ H[m] = [b \in PageNumbers |-> Under(t, U, F, m, b)]
    BY <1>1, <2>1, SizesAssumption
  <2>6. H = [d \in m .. N |-> H[d]]
    OBVIOUS
  <2> HIDE DEF H
  <2>7. ASSUME NEW d \in m .. N, NEW b \in PageNumbers PROVE Under(t, U, H, d, b) = Under(t, U, F, d, b)
    <3>1. d \in 0 .. MaxDepth + 1 /\ (d <= MaxDepth => d + 1 \in m + 1 .. N)
      BY <1>1, <2>1, SizesAssumption
    <3>2. d <= MaxDepth => H[d + 1] = F[d + 1]
      BY <2>4, <3>1
    <3>3. QED
      BY <3>1, <3>2, UnderSame
  <2>8. ASSUME NEW d \in m .. N PROVE H[d] = [b \in PageNumbers |-> Under(t, U, H, d, b)]
    <3>1. CASE d = m
      BY <2>5, <2>7, <3>1
    <3>2. CASE d # m
      <4>1. d \in m + 1 .. N
        BY <2>1, <3>2
      <4>2. F[d] = [b \in PageNumbers |-> Under(t, U, F, d, b)]
        BY <2>2, <4>1
      <4>3. QED
        BY <2>4, <2>7, <4>1, <4>2
    <3>3. QED
      BY <3>1, <3>2
  <2>9. H = [d \in m .. N |-> [b \in PageNumbers |-> Under(t, U, H, d, b)]]
    BY <2>6, <2>8
  <2>10. From(H, n + 1)
    BY <2>1, <2>9
  <2>11. QED
    BY <2>10
<1>4. PICK F : From(F, N)
  <2> HIDE DEF From
  <2>1. ASSUME NEW n \in Nat, n \in G PROVE n + 1 \in G
    <3>1. n + 1 <= N => n <= N
      OBVIOUS
    <3>2. QED
      BY <1>3, <2>1, <3>1
  <2>2. G = Nat
    BY <1>2, <2>1, Induction
  <2>3. QED
    BY <2>2
<1>5. N - N .. N = 0 .. MaxDepth + 1
  BY <1>1
<1>6. IsTree(t, U, F)
  BY <1>4, <1>5 DEF IsTree
<1>7. QED
  BY <1>6

(* A tree solves its equation at each page and depth.                          *)
LEMMA TreeAt ==
  ASSUME NEW t, NEW U, NEW F, IsTree(t, U, F), NEW d \in 0 .. MaxDepth + 1, NEW b \in PageNumbers
  PROVE  F[d][b] = Under(t, U, F, d, b)
<1> DEFINE X(H, e) == [c \in PageNumbers |-> Under(t, U, H, e, c)]
<1>1. F = [e \in 0 .. MaxDepth + 1 |-> X(F, e)]
  BY DEF IsTree
<1>2. X(F, d)[b] = Under(t, U, F, d, b)
  OBVIOUS
<1> HIDE DEF X
<1>3. F[d] = X(F, d)
  BY <1>1
<1>4. QED
  BY <1>2, <1>3

(* It consists of lists of shown components.                                   *)
LEMMA TreeType ==
  ASSUME NEW t \in Targets, NEW U, NEW F, IsTree(t, U, F)
  PROVE  F \in Trees
<1>1. PICK N \in Nat : N = MaxDepth + 1
  BY SizesAssumption
<1> DEFINE Typed(d) == \A b \in PageNumbers : F[d][b] \in Seq(ShownSet)
           G == {n \in Nat : n <= N => Typed(N - n)}
<1>2. ASSUME NEW d \in 0 .. MaxDepth + 1, d <= MaxDepth => Typed(d + 1) PROVE Typed(d)
  <2>1. ASSUME NEW b \in PageNumbers PROVE F[d][b] \in Seq(ShownSet)
    <3>1. Under(t, U, F, d, b) \in Seq(ShownSet)
      BY <1>2, UnderType
    <3>2. F[d][b] = Under(t, U, F, d, b)
      BY TreeAt
    <3>3. QED
      BY <3>1, <3>2
  <2>2. QED
    BY <2>1
<1> HIDE DEF Typed
<1>3. 0 \in G
  <2>1. N - 0 \in 0 .. MaxDepth + 1 /\ ~(N - 0 <= MaxDepth)
    BY <1>1, SizesAssumption
  <2>2. QED
    BY <1>2, <2>1
<1>4. ASSUME NEW n \in Nat, n \in G PROVE n + 1 \in G
  <2>1. n + 1 <= N => /\ n <= N /\ N - (n + 1) \in 0 .. MaxDepth + 1 /\ (N - (n + 1)) + 1 = N - n
    BY <1>1, SizesAssumption
  <2>2. QED
    BY <1>2, <1>4, <2>1
<1>5. G = Nat
  <2> HIDE DEF G
  <2>1. G \in SUBSET Nat
    BY DEF G
  <2>2. QED
    BY <1>3, <1>4, <2>1, Induction
<1>6. ASSUME NEW d \in 0 .. MaxDepth + 1 PROVE Typed(d)
  <2>1. N - d \in Nat /\ N - d <= N /\ N - (N - d) = d
    BY <1>1, SizesAssumption
  <2>2. QED
    BY <1>5, <2>1
<1>7. ASSUME NEW d \in 0 .. MaxDepth + 1 PROVE F[d] \in [PageNumbers -> Seq(ShownSet)]
  <2> DEFINE X(H, e) == [c \in PageNumbers |-> Under(t, U, H, e, c)]
  <2>1. F = [e \in 0 .. MaxDepth + 1 |-> X(F, e)]
    BY DEF IsTree
  <2>2. DOMAIN X(F, d) = PageNumbers /\ X(F, d) = [c \in DOMAIN X(F, d) |-> X(F, d)[c]]
    OBVIOUS
  <2>3. F[d] = X(F, d)
    <3> HIDE DEF X
    <3>1. QED BY <2>1
  <2>4. \A b \in PageNumbers : F[d][b] \in Seq(ShownSet)
    BY <1>6 DEF Typed
  <2> HIDE DEF X
  <2>5. QED
    BY <2>2, <2>3, <2>4
<1>8. F = [e \in 0 .. MaxDepth + 1 |-> F[e]]
  <2> DEFINE X(e) == [c \in PageNumbers |-> Under(t, U, F, e, c)]
  <2>1. F = [e \in 0 .. MaxDepth + 1 |-> X(e)]
    BY DEF IsTree
  <2> HIDE DEF X
  <2>2. QED BY <2>1
<1>9. QED
  BY <1>7, <1>8 DEF Trees

(* So Below is a tree, and is well typed.                                      *)
LEMMA BelowTree == IsTree(target, unread, Below)
BY BelowIs, TreeExists

-----------------------------------------------------------------------------
(* Lists of components. *)

(* What lies below the components of the list s.                                *)
BelowEach(F, s) == [k \in DOMAIN s |-> F[s[k].depth][s[k].baseAddr]]
Whole(F, s) == FlattenSeq(BelowEach(F, s))

LEMMA BelowType ==
  ASSUME NEW F \in Trees, NEW c \in ComponentSet
  PROVE  F[c.depth][c.baseAddr] \in Seq(ShownSet)
<1>1. c.depth \in 0 .. MaxDepth + 1 /\ c.baseAddr \in PageNumbers
  BY SizesAssumption DEF ComponentSet
<1>2. F[c.depth] \in [PageNumbers -> Seq(ShownSet)]
  BY <1>1 DEF Trees
<1>3. QED
  BY <1>1, <1>2

LEMMA BelowEachType ==
  ASSUME NEW F \in Trees, NEW s \in Seq(ComponentSet)
  PROVE  /\ BelowEach(F, s) \in Seq(Seq(ShownSet))
         /\ Len(BelowEach(F, s)) = Len(s)
<1>1. DOMAIN s = 1 .. Len(s) /\ Len(s) \in Nat /\ \A k \in 1 .. Len(s) : s[k] \in ComponentSet
  OBVIOUS
<1>2. \A k \in 1 .. Len(s) : F[s[k].depth][s[k].baseAddr] \in Seq(ShownSet)
  BY <1>1, BelowType
<1>3. BelowEach(F, s) \in [1 .. Len(s) -> Seq(ShownSet)]
  BY <1>1, <1>2 DEF BelowEach
<1>4. QED
  BY <1>1, <1>3

LEMMA WholeType ==
  ASSUME NEW F \in Trees, NEW s \in Seq(ComponentSet)
  PROVE  Whole(F, s) \in Seq(ShownSet)
BY BelowEachType, FlatType DEF Whole

LEMMA WholeNone ==
  ASSUME NEW F
  PROVE  Whole(F, <<>>) = <<>>
<1>1. BelowEach(F, <<>>) = <<>>
  BY DEF BelowEach
<1>2. QED
  BY <1>1, FlatNone DEF Whole

LEMMA WholeOne ==
  ASSUME NEW F \in Trees, NEW c \in ComponentSet
  PROVE  Whole(F, <<c>>) = F[c.depth][c.baseAddr]
<1>1. BelowEach(F, <<c>>) = <<F[c.depth][c.baseAddr]>>
  BY DEF BelowEach
<1>2. QED
  BY <1>1, BelowType, FlatOne DEF Whole

(* Components that follow each other show their trees one after the other.     *)
LEMMA WholeCat ==
  ASSUME NEW F \in Trees, NEW s \in Seq(ComponentSet), NEW r \in Seq(ComponentSet)
  PROVE  Whole(F, s \o r) = Whole(F, s) \o Whole(F, r)
<1>1. PICK m \in Nat, n \in Nat : m = Len(s) /\ n = Len(r)
  OBVIOUS
<1>2. /\ DOMAIN s = 1 .. m /\ DOMAIN r = 1 .. n /\ DOMAIN (s \o r) = 1 .. m + n
      /\ \A k \in 1 .. m : (s \o r)[k] = s[k]
      /\ \A k \in 1 .. n : (s \o r)[m + k] = r[k]
  BY <1>1
<1> DEFINE a == BelowEach(F, s)
           b == BelowEach(F, r)
           ab == BelowEach(F, s \o r)
<1>3. a \in Seq(Seq(ShownSet)) /\ Len(a) = m /\ b \in Seq(Seq(ShownSet)) /\ Len(b) = n
  BY <1>1, BelowEachType
<1>4. s \o r \in Seq(ComponentSet) /\ Len(s \o r) = m + n
  BY <1>1
<1>5. ab \in Seq(Seq(ShownSet)) /\ Len(ab) = m + n
  BY <1>4, BelowEachType
<1>6. /\ \A k \in 1 .. m : ab[k] = a[k]
      /\ \A k \in 1 .. n : ab[m + k] = b[k]
  <2>1. \A k \in 1 .. m : k \in 1 .. m + n
    BY <1>1
  <2>2. \A k \in 1 .. n : m + k \in 1 .. m + n
    BY <1>1
  <2>3. QED
    BY <1>2, <2>1, <2>2 DEF BelowEach
<1> HIDE DEF a, b, ab
<1>7. ab = a \o b
  <2>1. /\ Len(a \o b) = m + n /\ a \o b \in Seq(Seq(ShownSet))
        /\ \A k \in 1 .. m : (a \o b)[k] = a[k]
        /\ \A k \in 1 .. n : (a \o b)[m + k] = b[k]
    <3> DEFINE X == Seq(ShownSet)
    <3> HIDE DEF X
    <3>1. a \in Seq(X) /\ b \in Seq(X)
      BY <1>3 DEF X
    <3>2. /\ a \o b \in Seq(X) /\ Len(a \o b) = Len(a) + Len(b)
          /\ \A k \in 1 .. Len(a) : (a \o b)[k] = a[k]
          /\ \A k \in 1 .. Len(b) : (a \o b)[Len(a) + k] = b[k]
      BY <3>1, SeqCat
    <3>3. a \o b \in Seq(Seq(ShownSet))
      BY <3>2 DEF X
    <3>4. QED
      BY <1>3, <3>2, <3>3
  <2>2. ASSUME NEW k \in 1 .. m + n PROVE ab[k] = (a \o b)[k]
    <3>1. CASE k \in 1 .. m
      BY <1>6, <2>1, <3>1
    <3>2. CASE k \notin 1 .. m
      <4>1. k - m \in 1 .. n /\ m + (k - m) = k
        BY <1>1, <3>2
      <4>2. QED
        BY <1>6, <2>1, <4>1
    <3>3. QED
      BY <3>1, <3>2
  <2>3. QED
    BY <1>5, <2>1, <2>2, SeqSame
<1>8. FlattenSeq(ab) = FlattenSeq(a) \o FlattenSeq(b)
  BY <1>3, <1>7, FlatCat
<1>9. QED
  BY <1>8 DEF Whole, a, b, ab

(* A component to extract and those that follow.                                *)
LEMMA WholeFirst ==
  ASSUME NEW F \in Trees, NEW s \in Seq(ComponentSet), s # <<>>
  PROVE  Whole(F, s) = F[Head(s).depth][Head(s).baseAddr] \o Whole(F, Tail(s))
<1>1. Head(s) \in ComponentSet /\ Tail(s) \in Seq(ComponentSet) /\ s = <<Head(s)>> \o Tail(s)
  OBVIOUS
<1>2. <<Head(s)>> \in Seq(ComponentSet)
  BY <1>1
<1>3. QED
  BY <1>1, <1>2, WholeCat, WholeOne

(* A list of lists shows what its lists show, one after the other.               *)
LEMMA WholeFlat ==
  ASSUME NEW F \in Trees, NEW s \in Seq(Seq(ComponentSet))
  PROVE  Whole(F, FlattenSeq(s)) = FlattenSeq([k \in DOMAIN s |-> Whole(F, s[k])])
<1>1. PICK p : Joins(p, s, ComponentSet)
  BY JoinsExist
<1>2. PICK l \in Nat : l = Len(s) /\ DOMAIN s = 1 .. l
  OBVIOUS
<1>3. /\ p \in [0 .. l -> Seq(ComponentSet)]
      /\ p[0] = <<>>
      /\ \A i \in 1 .. l : p[i] = p[i - 1] \o s[i]
  BY <1>1, <1>2 DEF Joins
<1>4. \A k \in 1 .. l : s[k] \in Seq(ComponentSet)
  BY <1>2
<1> DEFINE r == [k \in DOMAIN s |-> Whole(F, s[k])]
           q == [i \in 0 .. l |-> Whole(F, p[i])]
<1>5. r \in Seq(Seq(ShownSet)) /\ Len(r) = l /\ \A k \in 1 .. l : r[k] = Whole(F, s[k])
  <2>1. \A k \in 1 .. l : Whole(F, s[k]) \in Seq(ShownSet)
    BY <1>4, WholeType
  <2>2. r \in [1 .. l -> Seq(ShownSet)]
    BY <1>2, <2>1
  <2>3. QED
    BY <1>2, <2>2
<1>6. q \in [0 .. l -> Seq(ShownSet)]
  <2>1. \A i \in 0 .. l : Whole(F, p[i]) \in Seq(ShownSet)
    BY <1>3, WholeType
  <2>2. QED
    BY <2>1
<1>7. q[0] = <<>>
  <2>1. 0 \in 0 .. l
    OBVIOUS
  <2>2. QED
    BY <1>3, <2>1, WholeNone
<1>8. ASSUME NEW i \in 1 .. l PROVE q[i] = q[i - 1] \o r[i]
  <2>1. i \in 0 .. l /\ i - 1 \in 0 .. l
    OBVIOUS
  <2>2. p[i - 1] \in Seq(ComponentSet) /\ s[i] \in Seq(ComponentSet) /\ p[i] = p[i - 1] \o s[i]
    BY <1>3, <1>4, <2>1
  <2>3. Whole(F, p[i]) = Whole(F, p[i - 1]) \o Whole(F, s[i])
    BY <2>2, WholeCat
  <2>4. q[i] = Whole(F, p[i]) /\ q[i - 1] = Whole(F, p[i - 1])
    BY <2>1
  <2> HIDE DEF q, r
  <2>5. QED
    BY <1>5, <2>3, <2>4
<1> HIDE DEF q, r
<1>9. Joins(q, r, ShownSet)
  BY <1>5, <1>6, <1>7, <1>8 DEF Joins
<1>10. FlattenSeq(r) = q[l]
  BY <1>5, <1>9, JoinsFlat
<1>11. FlattenSeq(s) = p[l]
  BY <1>1, <1>2, JoinsFlat
<1>12. q[l] = Whole(F, p[l])
  <2>1. l \in 0 .. l
    OBVIOUS
  <2>2. QED
    BY <2>1 DEF q
<1>13. QED
  BY <1>10, <1>11, <1>12 DEF r

(* A list of single elements and of nothing, no two of the elements related by R. *)
Singles(s, V) == \A k \in DOMAIN s : s[k] = <<>> \/ \E x \in V : s[k] = <<x>>
Unrelated(s, V, R) ==
  \A k, l \in DOMAIN s : \A x, y \in V : s[k] = <<x>> /\ s[l] = <<y>> /\ <<x, y>> \in R => k = l

LEMMA FlatSingles ==
  ASSUME NEW V, NEW R, NEW s \in Seq(Seq(V)), Singles(s, V), Unrelated(s, V, R)
  PROVE  /\ \A i \in DOMAIN FlattenSeq(s) : \E k \in DOMAIN s : s[k] = <<FlattenSeq(s)[i]>>
         /\ \A i, j \in DOMAIN FlattenSeq(s) : <<FlattenSeq(s)[i], FlattenSeq(s)[j]>> \in R => i = j
<1>1. PICK p : Joins(p, s, V)
  BY JoinsExist
<1>2. PICK l \in Nat : l = Len(s) /\ DOMAIN s = 1 .. l
  OBVIOUS
<1>3. /\ p \in [0 .. l -> Seq(V)]
      /\ p[0] = <<>>
      /\ \A i \in 1 .. l : p[i] = p[i - 1] \o s[i]
  BY <1>1, <1>2 DEF Joins
<1> DEFINE From(n) == \A i \in DOMAIN p[n] : \E k \in 1 .. n : s[k] = <<p[n][i]>>
           Apart(n) == \A i, j \in DOMAIN p[n] : <<p[n][i], p[n][j]>> \in R => i = j
           G == {n \in Nat : n <= l => From(n) /\ Apart(n)}
<1>4. 0 \in G
  BY <1>3
<1>5. ASSUME NEW n \in Nat, n + 1 <= l, From(n), Apart(n) PROVE From(n + 1) /\ Apart(n + 1)
  <2>1. n + 1 \in 1 .. l /\ n \in 0 .. l /\ (n + 1) - 1 = n /\ n + 1 \in 0 .. l
    BY <1>5
  <2>2. p[n + 1] = p[n] \o s[n + 1] /\ p[n] \in Seq(V) /\ p[n + 1] \in Seq(V)
    <3>1. p[n + 1] = p[(n + 1) - 1] \o s[n + 1]
      BY <1>3, <2>1
    <3>2. QED
      BY <1>3, <2>1, <3>1
  <2>3. CASE s[n + 1] = <<>>
    <3>1. p[n + 1] = p[n]
      BY <2>2, <2>3
    <3>2. \A k \in 1 .. n : k \in 1 .. n + 1
      OBVIOUS
    <3>3. QED
      BY <1>5, <3>1, <3>2
  <2>4. CASE s[n + 1] # <<>>
    <3>1. PICK x \in V : s[n + 1] = <<x>>
      BY <1>2, <2>1, <2>4 DEF Singles
    <3>2. PICK m \in Nat : m = Len(p[n]) /\ DOMAIN p[n] = 1 .. m
      BY <2>2
    <3>3. /\ DOMAIN p[n + 1] = 1 .. m + 1
          /\ p[n + 1][m + 1] = x
          /\ \A i \in 1 .. m : p[n + 1][i] = p[n][i]
      BY <2>2, <3>1, <3>2
    <3>4. ASSUME NEW i \in 1 .. m PROVE \E k \in 1 .. n : s[k] = <<p[n + 1][i]>>
      BY <1>5, <3>2, <3>3
    <3>5. \A i \in 1 .. m + 1 : i \in 1 .. m \/ i = m + 1
      OBVIOUS
    <3>6. From(n + 1)
      <4>1. n + 1 \in 1 .. n + 1 /\ \A k \in 1 .. n : k \in 1 .. n + 1
        OBVIOUS
      <4>2. ASSUME NEW i \in 1 .. m + 1 PROVE \E k \in 1 .. n + 1 : s[k] = <<p[n + 1][i]>>
        BY <3>1, <3>3, <3>4, <3>5, <4>1
      <4>3. QED
        BY <3>3, <4>2
    <3>7. ASSUME NEW i \in 1 .. m PROVE <<p[n + 1][i], x>> \notin R /\ <<x, p[n + 1][i]>> \notin R
      <4>1. PICK k \in 1 .. n : s[k] = <<p[n + 1][i]>>
        BY <3>4
      <4>2. k \in DOMAIN s /\ n + 1 \in DOMAIN s /\ k # n + 1
        BY <1>2, <1>5, <2>1
      <4>3. p[n + 1][i] \in V
        <5>1. i \in DOMAIN p[n + 1]
          BY <3>3
        <5>2. QED
          BY <2>2, <5>1, SeqAt
      <4>4. QED
        BY <3>1, <4>1, <4>2, <4>3 DEF Unrelated
    <3>8. Apart(n + 1)
      <4>1. ASSUME NEW i \in 1 .. m + 1, NEW j \in 1 .. m + 1, <<p[n + 1][i], p[n + 1][j]>> \in R
            PROVE  i = j
        <5>1. CASE i \in 1 .. m /\ j \in 1 .. m
          BY <1>5, <3>2, <3>3, <4>1, <5>1
        <5>2. CASE i = m + 1 /\ j = m + 1
          BY <5>2
        <5>3. CASE i \in 1 .. m /\ j = m + 1
          BY <3>3, <3>7, <4>1, <5>3
        <5>4. CASE i = m + 1 /\ j \in 1 .. m
          BY <3>3, <3>7, <4>1, <5>4
        <5>5. QED
          BY <3>5, <5>1, <5>2, <5>3, <5>4
      <4>2. QED
        BY <3>3, <4>1
    <3>9. QED
      BY <3>6, <3>8
  <2>5. QED
    BY <2>3, <2>4
<1>6. From(l) /\ Apart(l)
  <2> HIDE DEF From, Apart
  <2>1. ASSUME NEW n \in Nat, n \in G PROVE n + 1 \in G
    <3>1. n + 1 <= l => n <= l
      OBVIOUS
    <3>2. QED
      BY <1>5, <2>1, <3>1
  <2>2. G = Nat
    BY <1>4, <2>1, Induction
  <2>3. QED
    BY <2>2
<1>7. FlattenSeq(s) = p[l]
  BY <1>1, <1>2, JoinsFlat
<1>8. QED
  BY <1>2, <1>6, <1>7

-----------------------------------------------------------------------------
(* The components that a ROM table lists. *)

(* The signed addition of the code is addition modulo the number of pages.     *)
LEMMA NewBase ==
  ASSUME NEW a \in PageNumbers, NEW b \in PageNumbers
  PROVE  calcNewBaseTwosComplement(a, b) = (a + b) % Pages
<1>1. (a - ((Pages - 1 - b) + 1)) % Pages = (a + b) % Pages
  BY PagesAssumption DEF PageNumbers
<1>2. QED
  BY <1>1 DEF calcNewBaseTwosComplement

(* The code looks at every entry of a table.                                   *)
LEMMA AllEntries ==
  ASSUME NEW t \in Targets, NEW b \in PageNumbers
  PROVE  Entries(t.memory[b]) = t.memory[b].entries
<1> DEFINE X == [offset : PageNumbers, present : BOOLEAN]
<1>1. t.memory[b].entries \in Seq(X) /\ Len(t.memory[b].entries) <= RomEntries
  BY TargetsAssumption
<1> HIDE DEF X
<1>2. PICK n \in Nat : n = Len(t.memory[b].entries)
  BY <1>1
<1>3. Min({RomEntries, n}) = n
  BY <1>1, <1>2, SizesAssumption DEF Min
<1>4. SubSeq(t.memory[b].entries, 1, n) = t.memory[b].entries
  BY <1>1, <1>2
<1>5. QED
  BY <1>2, <1>3, <1>4 DEF Entries, FirstOf

(* The entries of c's table, one by one.                                        *)
Rows(t, c) ==
  [k \in EntriesOf(t, c.baseAddr) |->
    IF t.memory[c.baseAddr].entries[k].present THEN <<Component(Child(t, c.baseAddr, k), c.depth + 1)>> ELSE <<>>]

LEMMA ListedRows ==
  ASSUME NEW t \in Targets, NEW c \in ComponentSet
  PROVE  Listed(c, t.memory[c.baseAddr]) = FlattenSeq(Rows(t, c))
<1>1. c.baseAddr \in PageNumbers
  BY DEF ComponentSet
<1>2. Entries(t.memory[c.baseAddr]) = t.memory[c.baseAddr].entries
  BY <1>1, AllEntries
<1>3. ASSUME NEW k \in DOMAIN t.memory[c.baseAddr].entries
      PROVE  t.memory[c.baseAddr].entries[k].offset \in PageNumbers
  <2> DEFINE X == [offset : PageNumbers, present : BOOLEAN]
  <2>1. t.memory[c.baseAddr].entries \in Seq(X)
    BY <1>1, TargetsAssumption
  <2> HIDE DEF X
  <2>2. t.memory[c.baseAddr].entries[k] \in X
    BY <2>1, SeqAt
  <2>3. QED
    BY <2>2 DEF X
<1>4. \A k \in DOMAIN t.memory[c.baseAddr].entries :
        calcNewBaseTwosComplement(c.baseAddr, t.memory[c.baseAddr].entries[k].offset) = Child(t, c.baseAddr, k)
  BY <1>1, <1>3, NewBase DEF Child
<1>5. [k \in DOMAIN Entries(t.memory[c.baseAddr]) |->
        IF Entries(t.memory[c.baseAddr])[k].present
        THEN <<Component(calcNewBaseTwosComplement(c.baseAddr, Entries(t.memory[c.baseAddr])[k].offset), c.depth + 1)>>
        ELSE <<>>] = Rows(t, c)
  BY <1>2, <1>4 DEF Rows, EntriesOf
<1>6. QED
  BY <1>5 DEF Listed

LEMMA RowsType ==
  ASSUME NEW t \in Targets, NEW c \in ComponentSet, t.memory[c.baseAddr].class = "ROM",
         c.depth <= t.depth[c.baseAddr]
  PROVE  /\ Rows(t, c) \in Seq(Seq(ComponentSet))
         /\ \A k \in EntriesOf(t, c.baseAddr) : Leads(t, c.baseAddr, k) =>
              /\ Component(Child(t, c.baseAddr, k), c.depth + 1) \in ComponentSet
              /\ c.depth + 1 <= t.depth[Child(t, c.baseAddr, k)]
<1>1. c.baseAddr \in PageNumbers /\ c.depth \in 0 .. MaxDepth
  BY DEF ComponentSet
<1>2. \E n \in Nat : EntriesOf(t, c.baseAddr) = 1 .. n
  <2> DEFINE X == [offset : PageNumbers, present : BOOLEAN]
  <2>1. t.memory[c.baseAddr].entries \in Seq(X)
    BY <1>1, TargetsAssumption
  <2> HIDE DEF X
  <2>2. QED
    BY <2>1 DEF EntriesOf
<1>3. ASSUME NEW k \in EntriesOf(t, c.baseAddr), Leads(t, c.baseAddr, k)
      PROVE  /\ Component(Child(t, c.baseAddr, k), c.depth + 1) \in ComponentSet
             /\ c.depth + 1 <= t.depth[Child(t, c.baseAddr, k)]
  <2>1. Child(t, c.baseAddr, k) \in PageNumbers
    BY <1>1, ChildType DEF EntriesOf
  <2>2. t.depth[Child(t, c.baseAddr, k)] > t.depth[c.baseAddr]
    BY <1>1, <1>3, TreeAssumption
  <2>3. t.depth \in [PageNumbers -> 0 .. MaxDepth]
    BY TreeAssumption
  <2>4. t.depth[Child(t, c.baseAddr, k)] \in 0 .. MaxDepth /\ t.depth[c.baseAddr] \in 0 .. MaxDepth
    BY <1>1, <2>1, <2>3
  <2>5. c.depth + 1 \in 0 .. MaxDepth /\ c.depth + 1 <= t.depth[Child(t, c.baseAddr, k)]
    BY <1>1, <2>2, <2>4, SizesAssumption
  <2>6. QED
    BY <2>1, <2>5 DEF Component, ComponentSet
<1>4. \A k \in EntriesOf(t, c.baseAddr) : t.memory[c.baseAddr].entries[k].present => Leads(t, c.baseAddr, k)
  BY DEF Leads
<1>5. ASSUME NEW k \in EntriesOf(t, c.baseAddr)
      PROVE  (IF t.memory[c.baseAddr].entries[k].present
              THEN <<Component(Child(t, c.baseAddr, k), c.depth + 1)>> ELSE <<>>) \in Seq(ComponentSet)
  BY <1>3, <1>4
<1>6. Rows(t, c) \in [EntriesOf(t, c.baseAddr) -> Seq(ComponentSet)]
  BY <1>5 DEF Rows
<1>7. QED
  BY <1>2, <1>3, <1>6

(* extractROMtable() lists the components that the entries lead to, in order and one deeper.*)
LEMMA ListedRight ==
  ASSUME NEW t \in Targets, NEW c \in ComponentSet, t.memory[c.baseAddr].class = "ROM",
         c.depth <= t.depth[c.baseAddr], NEW L, L = Listed(c, t.memory[c.baseAddr])
  PROVE  /\ L \in Seq(ComponentSet)
         /\ \A i \in DOMAIN L : /\ L[i].depth <= t.depth[L[i].baseAddr]
                                /\ \E k \in EntriesOf(t, c.baseAddr) :
                                     Leads(t, c.baseAddr, k) /\ L[i].baseAddr = Child(t, c.baseAddr, k)
         /\ \A i, j \in DOMAIN L : L[i].baseAddr = L[j].baseAddr /\ Valid(t, L[i].baseAddr) => i = j
         /\ \A F \in Trees : Whole(F, L) = Inside(t, F, c.depth, c.baseAddr)
<1> DEFINE R == {e \in ComponentSet \X ComponentSet : e[1].baseAddr = e[2].baseAddr /\ Valid(t, e[1].baseAddr)}
           s == Rows(t, c)
           N(k) == Component(Child(t, c.baseAddr, k), c.depth + 1)
<1>1. L = FlattenSeq(s)
  BY ListedRows
<1>2. /\ s \in Seq(Seq(ComponentSet))
      /\ \A k \in EntriesOf(t, c.baseAddr) : Leads(t, c.baseAddr, k) =>
           N(k) \in ComponentSet /\ c.depth + 1 <= t.depth[Child(t, c.baseAddr, k)]
  BY RowsType
<1>3. /\ DOMAIN s = EntriesOf(t, c.baseAddr)
      /\ \A k \in DOMAIN s : Leads(t, c.baseAddr, k) => s[k] = <<N(k)>>
      /\ \A k \in DOMAIN s : ~Leads(t, c.baseAddr, k) => s[k] = <<>>
  BY DEF Rows, Leads
<1>4. c.baseAddr \in PageNumbers
  BY DEF ComponentSet
<1>5. \A k \in DOMAIN s : N(k).baseAddr = Child(t, c.baseAddr, k) /\ N(k).depth = c.depth + 1
  BY DEF Component
<1> HIDE DEF s, N
<1>6. \A k \in DOMAIN s : s[k] = <<>> \/ \E x \in ComponentSet : s[k] = <<x>>
  BY <1>2, <1>3
<1>7. ASSUME NEW k \in DOMAIN s, NEW l \in DOMAIN s, NEW x \in ComponentSet, NEW y \in ComponentSet,
             s[k] = <<x>>, s[l] = <<y>>, <<x, y>> \in R
      PROVE  k = l
  <2>0. <<x>> # <<>> /\ <<y>> # <<>>
    OBVIOUS
  <2>1. Leads(t, c.baseAddr, k) /\ Leads(t, c.baseAddr, l)
    BY <1>3, <1>7, <2>0
  <2>2. <<x>> = <<N(k)>> /\ <<y>> = <<N(l)>>
    BY <1>3, <1>7, <2>1
  <2>3. Child(t, c.baseAddr, k) = Child(t, c.baseAddr, l) /\ Valid(t, Child(t, c.baseAddr, k))
    <3>1. x = N(k) /\ y = N(l)
      BY <2>2
    <3>2. QED
      BY <1>5, <1>7, <3>1
  <2>4. QED
    BY <1>3, <1>4, <2>1, <2>3, TreeAssumption
<1>8. /\ \A i \in DOMAIN L : \E k \in DOMAIN s : s[k] = <<L[i]>>
      /\ \A i, j \in DOMAIN L : <<L[i], L[j]>> \in R => i = j
  <2> HIDE DEF R
  <2>1. Singles(s, ComponentSet) /\ Unrelated(s, ComponentSet, R)
    BY <1>6, <1>7 DEF Singles, Unrelated
  <2>2. QED
    BY <1>1, <1>2, <2>1, FlatSingles
<1>9. L \in Seq(ComponentSet)
  BY <1>1, <1>2, FlatType
<1>10. \A i \in DOMAIN L : L[i] \in ComponentSet
  BY <1>9, SeqAt
<1>11. ASSUME NEW i \in DOMAIN L
       PROVE  /\ L[i].depth <= t.depth[L[i].baseAddr]
              /\ \E k \in EntriesOf(t, c.baseAddr) :
                   Leads(t, c.baseAddr, k) /\ L[i].baseAddr = Child(t, c.baseAddr, k)
  <2>1. PICK k \in DOMAIN s : s[k] = <<L[i]>>
    BY <1>8
  <2>2. <<L[i]>> # <<>>
    OBVIOUS
  <2>3. Leads(t, c.baseAddr, k) /\ <<L[i]>> = <<N(k)>>
    BY <1>3, <2>1, <2>2
  <2>4. L[i] = N(k)
    BY <2>3
  <2>5. QED
    BY <1>2, <1>3, <1>5, <2>3, <2>4
<1>12. \A i, j \in DOMAIN L : L[i].baseAddr = L[j].baseAddr /\ Valid(t, L[i].baseAddr) => i = j
  BY <1>8, <1>10
<1>13. ASSUME NEW F \in Trees PROVE Whole(F, L) = Inside(t, F, c.depth, c.baseAddr)
  <2>1. Whole(F, L) = FlattenSeq([k \in DOMAIN s |-> Whole(F, s[k])])
    BY <1>1, <1>2, WholeFlat
  <2>2. ASSUME NEW k \in DOMAIN s
        PROVE  Whole(F, s[k]) =
                 IF t.memory[c.baseAddr].entries[k].present
                 THEN F[c.depth + 1][(c.baseAddr + t.memory[c.baseAddr].entries[k].offset) % Pages] ELSE <<>>
    <3>1. CASE t.memory[c.baseAddr].entries[k].present
      <4>1. Leads(t, c.baseAddr, k)
        BY <3>1 DEF Leads
      <4>2. s[k] = <<N(k)>> /\ N(k) \in ComponentSet
        BY <1>2, <1>3, <4>1
      <4>3. Whole(F, s[k]) = F[N(k).depth][N(k).baseAddr]
        BY <4>2, WholeOne
      <4>4. QED
        BY <1>5, <3>1, <4>3 DEF Child
    <3>2. CASE ~t.memory[c.baseAddr].entries[k].present
      <4>1. s[k] = <<>>
        BY <1>3, <3>2 DEF Leads
      <4>2. QED
        BY <3>2, <4>1, WholeNone
    <3>3. QED
      BY <3>1, <3>2
  <2>3. [k \in DOMAIN s |-> Whole(F, s[k])] =
          [k \in DOMAIN t.memory[c.baseAddr].entries |->
            LET e == t.memory[c.baseAddr].entries[k] IN
            IF e.present THEN F[c.depth + 1][(c.baseAddr + e.offset) % Pages] ELSE <<>>]
    BY <1>3, <2>2 DEF EntriesOf
  <2>4. QED
    BY <2>1, <2>3 DEF Inside
<1>14. QED
  BY <1>9, <1>11, <1>12, <1>13

-----------------------------------------------------------------------------
(* Type correctness. *)

(* The types of all variables; what was noted of the access ports is what the target has.*)
Typed ==
  /\ target \in Targets
  /\ pc \in {"idle", "identify", "scan", "walk", "table", "scs"}
  /\ /\ myAccessPorts \in Seq(PageNumbers)
     /\ Len(myAccessPorts) <= MaxAPs /\ Len(myAccessPorts) <= Len(target.aps)
     /\ \A k \in DOMAIN myAccessPorts : myAccessPorts[k] = target.aps[k]
  /\ ap \in 0 .. Len(myAccessPorts)
  /\ /\ components \in Seq(ComponentSet)
     /\ \A i \in DOMAIN components : components[i].depth <= target.depth[components[i].baseAddr]
  /\ reply \in {0, -1, -2, -4}
  /\ extracted \in Seq(ShownSet)

(* What each phase of the walk starts from.                                     *)
Phases ==
  /\ pc \in {"idle", "identify", "scan"} => components = <<>>
  /\ pc \in {"identify", "scan"} => ap = 0 /\ extracted = <<>> /\ unread = {} /\ reply = 0
  /\ pc \in {"walk", "table", "scs"} =>
       reply = 0 /\ (Len(myAccessPorts) = MaxAPs \/ Len(myAccessPorts) = Len(target.aps))
  /\ pc \in {"table", "scs"} =>
       /\ components # <<>> /\ extracted # <<>>
       /\ extracted[Len(extracted)] = Shown(This, <<>>)
  /\ pc = "table" => Memory(This.baseAddr).class = "ROM"
  /\ pc = "scs" => ShowsRegisters(This)

(* The current component and the others.                                       *)
LEMMA FirstType ==
  ASSUME Typed, components # <<>>
  PROVE  /\ This \in ComponentSet /\ This.depth <= target.depth[This.baseAddr]
         /\ This.baseAddr \in PageNumbers
         /\ Tail(components) \in Seq(ComponentSet)
         /\ \A i \in DOMAIN Tail(components) :
              Tail(components)[i].depth <= target.depth[Tail(components)[i].baseAddr]
<1>1. PICK n \in Nat : n = Len(components) /\ n >= 1 /\ DOMAIN components = 1 .. n
  BY DEF Typed
<1>2. This = components[1] /\ 1 \in DOMAIN components
  BY <1>1 DEF This
<1>3. This \in ComponentSet /\ This.depth <= target.depth[This.baseAddr]
  BY <1>2, SeqAt DEF Typed
<1>4. Tail(components) \in Seq(ComponentSet) /\ DOMAIN Tail(components) = 1 .. n - 1
      /\ \A i \in 1 .. n - 1 : Tail(components)[i] = components[i + 1]
  BY <1>1 DEF Typed
<1>5. \A i \in 1 .. n - 1 : i + 1 \in 1 .. n
  BY <1>1
<1>6. QED
  BY <1>1, <1>3, <1>4, <1>5 DEF Typed, ComponentSet

LEMMA ShownType ==
  ASSUME NEW c \in ComponentSet, NEW r \in Seq(Nat)
  PROVE  Shown(c, r) \in ShownSet
BY DEF Shown, ShownSet

LEMMA TypedInit == Init => Typed /\ Phases
<1> SUFFICES ASSUME Init PROVE Typed /\ Phases
  OBVIOUS
<1>1. Len(target.aps) \in Nat
  BY TargetsAssumption DEF Init
<1>2. Typed
  BY <1>1, SizesAssumption DEF Init, Typed
<1>3. QED
  BY <1>2 DEF Init, Phases

(* Every step keeps them.                                                      *)
LEMMA TypedStep ==
  ASSUME Typed, Phases, [Next]_vars
  PROVE  Typed' /\ Phases'
<1>0. target.aps \in Seq(PageNumbers) /\ Len(target.aps) \in Nat /\ Len(myAccessPorts) \in Nat
  BY TargetsAssumption DEF Typed
<1>1. CASE detectSystem
  BY <1>0, <1>1, SizesAssumption DEF detectSystem, Typed, Phases
<1>2. CASE ReadIDCODE
  BY <1>2 DEF ReadIDCODE, Typed, Phases, walk
<1>3. CASE DetectFails
  BY <1>3 DEF DetectFails, Typed, Phases, walk
<1>4. CASE ScanAP
  <2>1. CASE Len(myAccessPorts) < MaxAPs /\ Len(myAccessPorts) < Len(target.aps)
    <3>1. PICK n \in Nat : n = Len(myAccessPorts) /\ n + 1 \in DOMAIN target.aps
      BY <1>0, <2>1
    <3>2. target.aps[n + 1] \in PageNumbers
      BY <1>0, <3>1, SeqAt
    <3>3. myAccessPorts' = Append(myAccessPorts, target.aps[n + 1]) /\ target' = target /\ ap' = ap
          /\ components' = components /\ extracted' = extracted /\ reply' = reply /\ pc' = pc
          /\ unread' = unread /\ pc = "scan"
      BY <1>4, <2>1, <3>1 DEF ScanAP
    <3>4. myAccessPorts' \in Seq(PageNumbers) /\ Len(myAccessPorts') = n + 1
          /\ \A k \in DOMAIN myAccessPorts' : myAccessPorts'[k] = target.aps[k]
      BY <3>1, <3>2, <3>3 DEF Typed
    <3>5. ap \in 0 .. n + 1
      BY <3>1 DEF Typed
    <3>6. Typed'
      BY <1>0, <2>1, <3>1, <3>3, <3>4, <3>5, SizesAssumption DEF Typed
    <3>7. QED
      BY <3>3, <3>6 DEF Phases
  <2>2. CASE ~(Len(myAccessPorts) < MaxAPs /\ Len(myAccessPorts) < Len(target.aps))
    <3>1. /\ pc = "scan" /\ pc' = "walk"
          /\ UNCHANGED <<target, myAccessPorts, ap, components, extracted, reply, unread>>
      BY <1>4, <2>2 DEF ScanAP
    <3>2. Len(myAccessPorts) = MaxAPs \/ Len(myAccessPorts) = Len(target.aps)
      BY <1>0, <2>2, SizesAssumption DEF Typed
    <3>3. QED
      BY <3>1, <3>2 DEF Typed, Phases
  <2>3. QED
    BY <2>1, <2>2
<1>5. CASE extractAccessPort
  <2>1. ap + 1 \in DOMAIN myAccessPorts /\ ap + 1 \in 0 .. Len(myAccessPorts)
    BY <1>0, <1>5 DEF extractAccessPort, Typed
  <2>2. myAccessPorts[ap + 1] \in PageNumbers
    BY <2>1, SeqAt DEF Typed
  <2>3. target.depth[myAccessPorts[ap + 1]] \in 0 .. MaxDepth
    BY <2>2, TreeAssumption DEF Typed
  <2>4. Component(myAccessPorts[ap + 1], 0) \in ComponentSet
        /\ Component(myAccessPorts[ap + 1], 0).depth = 0
        /\ Component(myAccessPorts[ap + 1], 0).baseAddr = myAccessPorts[ap + 1]
    BY <2>2, SizesAssumption DEF Component, ComponentSet
  <2>5. components' = <<Component(myAccessPorts[ap + 1], 0)>>
    BY <1>5 DEF extractAccessPort
  <2>6. components' \in Seq(ComponentSet)
        /\ \A i \in DOMAIN components' : components'[i].depth <= target.depth[components'[i].baseAddr]
    BY <2>3, <2>4, <2>5
  <2>7. Typed'
    BY <1>5, <2>1, <2>6 DEF extractAccessPort, Typed
  <2>8. QED
    BY <1>5, <2>7 DEF extractAccessPort, Phases
<1>6. CASE DetectReturns
  BY <1>6 DEF DetectReturns, Typed, Phases, walk
<1>7. CASE extractComponent
  <2>1. This \in ComponentSet /\ Tail(components) \in Seq(ComponentSet)
        /\ \A i \in DOMAIN Tail(components) :
             Tail(components)[i].depth <= target.depth[Tail(components)[i].baseAddr]
    BY <1>7, FirstType DEF extractComponent
  <2>2. Shown(This, <<>>) \in ShownSet
    <3>1. <<>> \in Seq(Nat)
      OBVIOUS
    <3>2. QED
      BY <2>1, <3>1, ShownType
  <2>3. extracted' = Append(extracted, Shown(This, <<>>))
    BY <1>7 DEF extractComponent
  <2>4. extracted' \in Seq(ShownSet) /\ extracted' # <<>>
        /\ extracted'[Len(extracted')] = Shown(This, <<>>)
    <3>1. PICK x \in ShownSet : x = Shown(This, <<>>)
      BY <2>2
    <3>2. extracted \in Seq(ShownSet) /\ extracted' = Append(extracted, x)
      BY <2>3, <3>1 DEF Typed
    <3>3. QED
      BY <3>1, <3>2
  <2>5. pc = "walk" /\ UNCHANGED <<target, myAccessPorts, ap, reply, unread>>
    BY <1>7 DEF extractComponent
  <2>6. CASE components' = components /\ pc' = "table" /\ Memory(This.baseAddr).class = "ROM"
    <3>1. Typed'
      BY <2>4, <2>5, <2>6 DEF Typed
    <3>2. components # <<>>
      BY <1>7 DEF extractComponent
    <3>3. QED
      BY <2>4, <2>5, <2>6, <3>1, <3>2 DEF Phases, This, Memory
  <2>7. CASE components' = components /\ pc' = "scs" /\ ShowsRegisters(This)
    <3>1. Typed'
      BY <2>4, <2>5, <2>7 DEF Typed
    <3>2. components # <<>>
      BY <1>7 DEF extractComponent
    <3>3. QED
      BY <2>4, <2>5, <2>7, <3>1, <3>2 DEF Phases, This, Memory, ShowsRegisters
  <2>8. CASE components' = Tail(components) /\ pc' = pc
    <3>1. Typed'
      BY <2>1, <2>4, <2>5, <2>8 DEF Typed
    <3>2. QED
      BY <2>5, <2>8, <3>1 DEF Phases
  <2>9. QED
    BY <1>7, <2>6, <2>7, <2>8 DEF extractComponent
<1>8. CASE \E f \in BOOLEAN : extractSCScomponent(f)
  <2>1. PICK f \in BOOLEAN : extractSCScomponent(f)
    BY <1>8
  <2>2. pc = "scs" /\ pc' = "walk" /\ components' = Tail(components)
        /\ UNCHANGED <<target, myAccessPorts, ap, reply>>
    BY <2>1 DEF extractSCScomponent
  <2>3. components # <<>> /\ extracted # <<>>
    BY <2>2 DEF Phases
  <2>4. This \in ComponentSet /\ Tail(components) \in Seq(ComponentSet) /\ This.baseAddr \in PageNumbers
        /\ \A i \in DOMAIN Tail(components) :
             Tail(components)[i].depth <= target.depth[Tail(components)[i].baseAddr]
    BY <2>3, FirstType
  <2> DEFINE read == Memory(This.baseAddr).registers
             r == IF f THEN <<0, 0>> ELSE read
  <2>5. r \in Seq(Nat)
    <3>1. read \in Nat \X Nat
      BY <2>4, TargetsAssumption DEF Memory, Typed
    <3>2. PICK m \in Nat, n \in Nat : read = <<m, n>>
      BY <3>1
    <3>3. QED
      BY <3>2
  <2>6. extracted' = Front(extracted) \o <<Shown(This, r)>>
    BY <2>1 DEF extractSCScomponent
  <2> HIDE DEF r
  <2>7. Shown(This, r) \in ShownSet
    BY <2>4, <2>5, ShownType
  <2>8. Front(extracted) \in Seq(ShownSet)
    BY <2>3 DEF Front, Typed
  <2>9. extracted' \in Seq(ShownSet)
    BY <2>6, <2>7, <2>8
  <2>10. Typed'
    BY <2>2, <2>4, <2>9 DEF Typed
  <2>11. QED
    BY <2>2, <2>10 DEF Phases
<1>9. CASE \E failed \in BOOLEAN : ComponentInvalid(failed)
  <2>1. components # <<>> /\ components' = Tail(components) /\ pc = "walk"
        /\ UNCHANGED <<target, pc, myAccessPorts, ap, extracted, reply>>
    BY <1>9 DEF ComponentInvalid
  <2>2. Tail(components) \in Seq(ComponentSet)
        /\ \A i \in DOMAIN Tail(components) :
             Tail(components)[i].depth <= target.depth[Tail(components)[i].baseAddr]
    BY <2>1, FirstType
  <2>3. Typed'
    BY <2>1, <2>2 DEF Typed
  <2>4. QED
    BY <2>1, <2>3 DEF Phases
<1>10. CASE extractROMtable
  <2>1. pc = "table" /\ pc' = "walk" /\ UNCHANGED <<target, myAccessPorts, ap, extracted, reply, unread>>
    BY <1>10 DEF extractROMtable
  <2>2. components # <<>> /\ target.memory[This.baseAddr].class = "ROM"
    BY <2>1 DEF Phases, Memory
  <2>3. PICK L : L = Listed(This, target.memory[This.baseAddr])
    OBVIOUS
  <2>4. PICK T : T = Tail(components)
    OBVIOUS
  <2>5. components' = L \o T
    BY <1>10, <2>3, <2>4 DEF extractROMtable, Memory
  <2>6. This \in ComponentSet /\ This.depth <= target.depth[This.baseAddr]
        /\ T \in Seq(ComponentSet) /\ \A i \in DOMAIN T : T[i].depth <= target.depth[T[i].baseAddr]
    BY <2>2, <2>4, FirstType
  <2>7. L \in Seq(ComponentSet) /\ \A i \in DOMAIN L : L[i].depth <= target.depth[L[i].baseAddr]
    BY <2>2, <2>3, <2>6, ListedRight DEF Typed
  <2>8. L \o T \in Seq(ComponentSet)
        /\ \A i \in DOMAIN (L \o T) : (L \o T)[i].depth <= target.depth[(L \o T)[i].baseAddr]
    BY <2>6, <2>7, SeqCat
  <2>9. Typed'
    BY <2>1, <2>5, <2>8 DEF Typed
  <2>10. QED
    BY <2>1, <2>9 DEF Phases
<1>11. CASE TableFails
  <2>1. pc = "table" /\ pc' = "walk" /\ components' = Tail(components)
        /\ UNCHANGED <<target, myAccessPorts, ap, extracted, reply>>
    BY <1>11 DEF TableFails
  <2>2. components # <<>>
    BY <2>1 DEF Phases
  <2>3. Tail(components) \in Seq(ComponentSet)
        /\ \A i \in DOMAIN Tail(components) :
             Tail(components)[i].depth <= target.depth[Tail(components)[i].baseAddr]
    BY <2>2, FirstType
  <2>4. Typed'
    BY <2>1, <2>3 DEF Typed
  <2>5. QED
    BY <2>1, <2>4 DEF Phases
<1>12. CASE UNCHANGED vars
  BY <1>12 DEF vars, walk, Typed, Phases, This, Memory, ShowsRegisters
<1>13. QED
  BY <1>1, <1>2, <1>3, <1>4, <1>5, <1>6, <1>7, <1>8, <1>9, <1>10, <1>11, <1>12 DEF Next, Running, Failing

LEMMA TypedAlways == Spec => [](Typed /\ Phases)
<1>1. Typed /\ Phases /\ [Next]_vars => (Typed /\ Phases)'
  BY TypedStep
<1>2. QED
  BY <1>1, TypedInit, PTL DEF Spec

(* The lists hold components at pages that exist and at most MaxDepth tables deep,    *)
(* and no more access ports are noted than the array of detectSystem() has room for.  *)
THEOREM TypeCorrect == Spec => []TypeOK
<1>1. Typed => TypeOK
  <2> SUFFICES ASSUME Typed PROVE TypeOK
    OBVIOUS
  <2>1. ASSUME NEW c \in ToSet(components) PROVE c.baseAddr \in PageNumbers /\ c.depth \in 0 .. MaxDepth
    <3>1. c \in ComponentSet
      BY SeqAt DEF ToSet, Typed
    <3>2. QED
      BY <3>1 DEF ComponentSet
  <2>2. QED
    BY <2>1 DEF Typed, TypeOK
<1>2. QED
  BY <1>1, TypedAlways, PTL

-----------------------------------------------------------------------------
(* No component is met twice. *)

(* Pages with a component that was shown, or of which a read failed.            *)
Seen ==
  {b \in PageNumbers : /\ Valid(target, b)
                       /\ \/ \E i \in DOMAIN extracted : extracted[i].component.baseAddr = b
                          \/ \E x \in unread : x[1] = b}

(* Those whose entries were looked at, if they have any.                        *)
Expanded == {p \in Seen : ~(pc = "table" /\ p = This.baseAddr)}

(* The pages that the walk found its way to.                                    *)
Found ==
  {b \in PageNumbers :
    \/ \E k \in 1 .. ap : myAccessPorts[k] = b
    \/ \E p \in Expanded : \E k \in EntriesOf(target, p) : Leads(target, p, k) /\ Child(target, p, k) = b}

(* Each component listed was found and is not done, and none is listed twice.  *)
Places ==
  /\ \A i \in DOMAIN components : components[i].baseAddr \in Found
  /\ \A b \in Seen : b \in Found
  /\ \A i \in DOMAIN components : components[i].baseAddr \in Seen =>
       i = 1 /\ pc \in {"table", "scs"} /\ \A x \in unread : x[1] # components[i].baseAddr
  /\ \A i, j \in DOMAIN components :
       components[i].baseAddr = components[j].baseAddr /\ Valid(target, components[i].baseAddr) => i = j

(* What is found stays found.                                                  *)
LEMMA FoundGrows ==
  ASSUME target' = target, myAccessPorts' = myAccessPorts, Typed, ap' \in Nat, ap <= ap', Expanded \subseteq Expanded',
         NEW b \in Found
  PROVE  b \in Found'
<1>1. CASE \E k \in 1 .. ap : myAccessPorts[k] = b
  <2>1. \A k \in 1 .. ap : k \in 1 .. ap'
    BY DEF Typed
  <2>2. QED
    BY <1>1, <2>1 DEF Found
<1>2. CASE \E p \in Expanded : \E k \in EntriesOf(target, p) : Leads(target, p, k) /\ Child(target, p, k) = b
  BY <1>2 DEF Found
<1>3. QED
  BY <1>1, <1>2 DEF Found

(* Roots and entries lead to different components.                              *)
LEMMA OneWay ==
  ASSUME Typed, Places, NEW b \in PageNumbers, Valid(target, b),
         NEW p \in PageNumbers, NEW k \in EntriesOf(target, p), Leads(target, p, k), Child(target, p, k) = b,
         p \notin Expanded
  PROVE  b \notin Found
<1>1. SUFFICES ASSUME b \in Found PROVE FALSE
  OBVIOUS
<1>2. CASE \E i \in 1 .. ap : myAccessPorts[i] = b
  <2>1. PICK i \in 1 .. ap : myAccessPorts[i] = b
    BY <1>2
  <2>2. i \in DOMAIN myAccessPorts /\ i \in DOMAIN target.aps
    <3>1. target.aps \in Seq(PageNumbers)
      BY TargetsAssumption DEF Typed
    <3>2. QED
      BY <3>1 DEF Typed
  <2>3. target.aps[i] = b
    BY <2>1, <2>2 DEF Typed
  <2>4. target \in Targets
    BY DEF Typed
  <2>5. \A h \in DOMAIN target.aps : target.aps[h] # Child(target, p, k)
    BY <2>4, TreeAssumption
  <2>6. QED
    BY <2>2, <2>3, <2>5
<1>3. CASE \E q \in Expanded : \E j \in EntriesOf(target, q) : Leads(target, q, j) /\ Child(target, q, j) = b
  <2>0. PICK q \in Expanded : \E j \in EntriesOf(target, q) : Leads(target, q, j) /\ Child(target, q, j) = b
    BY <1>3
  <2>1. PICK j \in EntriesOf(target, q) : Leads(target, q, j) /\ Child(target, q, j) = b
    BY <2>0
  <2>2. q \in PageNumbers
    BY DEF Expanded, Seen
  <2>3. target \in Targets
    BY DEF Typed
  <2>4. p = q
    BY <2>1, <2>2, <2>3, TreeAssumption
  <2>5. QED
    BY <2>4
<1>4. QED
  BY <1>1, <1>2, <1>3 DEF Found

(* The current component is done with.                                          *)
LEMMA PlacesNext ==
  ASSUME Typed, Places, components # <<>>, components' = Tail(components),
         Found \subseteq Found', target' = target,
         Seen' \subseteq Seen \cup {This.baseAddr}
  PROVE  Places'
<1>1. PICK n \in Nat : n = Len(components) /\ n >= 1 /\ DOMAIN components = 1 .. n
  BY DEF Typed
<1>2. This = components[1] /\ 1 \in DOMAIN components
  BY <1>1 DEF This
<1>3. DOMAIN components' = 1 .. n - 1 /\ \A i \in 1 .. n - 1 : components'[i] = components[i + 1]
  BY <1>1 DEF Typed
<1>4. \A i \in 1 .. n - 1 : i + 1 \in 1 .. n /\ i + 1 # 1
  BY <1>1
<1>5. \A i \in DOMAIN components' : components'[i].baseAddr \in Found'
  BY <1>1, <1>3, <1>4 DEF Places
<1>6. \A b \in Seen' : b \in Found'
  BY <1>2 DEF Places
<1>7. \A i \in DOMAIN components' : components'[i].baseAddr \notin Seen'
  <2>1. SUFFICES ASSUME NEW i \in 1 .. n - 1, components[i + 1].baseAddr \in Seen' PROVE FALSE
    BY <1>3
  <2>2. Valid(target, components[i + 1].baseAddr)
    BY <2>1 DEF Seen
  <2>3. components[i + 1].baseAddr # This.baseAddr
    BY <1>1, <1>2, <1>4, <2>2 DEF Places
  <2>4. components[i + 1].baseAddr \in Seen
    BY <2>1, <2>3
  <2>5. QED
    BY <1>1, <1>4, <2>4 DEF Places
<1>8. \A i, j \in DOMAIN components' :
        components'[i].baseAddr = components'[j].baseAddr /\ Valid(target, components'[i].baseAddr) => i = j
  <2>1. \A i, j \in 1 .. n - 1 :
          components[i + 1].baseAddr = components[j + 1].baseAddr /\ Valid(target, components[i + 1].baseAddr) => i + 1 = j + 1
    BY <1>1, <1>4 DEF Places
  <2>2. \A i, j \in 1 .. n - 1 : i + 1 = j + 1 => i = j
    OBVIOUS
  <2>3. QED
    BY <1>3, <2>1, <2>2
<1>9. QED
  BY <1>5, <1>6, <1>7, <1>8 DEF Places

LEMMA PlacesInit == Init => Places
BY DEF Init, Places, Seen

(* Every step keeps it, one case for each action.                              *)
LEMMA PlacesStep ==
  ASSUME Typed, Typed', Phases, Phases', Places, [Next]_vars
  PROVE  Places'
<1>1. CASE detectSystem
  BY <1>1 DEF detectSystem, Places, Seen
<1>2. CASE ReadIDCODE \/ DetectFails
  <2>1. UNCHANGED <<target, myAccessPorts, ap, components, extracted, unread>>
    BY <1>2 DEF ReadIDCODE, DetectFails, walk
  <2>2. pc' # "table" /\ components = <<>>
    BY <1>2 DEF ReadIDCODE, DetectFails, Phases
  <2>3. Seen' = Seen /\ Expanded \subseteq Expanded'
    BY <2>1, <2>2 DEF Seen, Expanded
  <2>4. ap' \in Nat /\ ap <= ap'
    BY <2>1 DEF Typed
  <2>5. Found \subseteq Found'
    BY <2>1, <2>3, <2>4, FoundGrows
  <2>6. QED
    BY <2>1, <2>2, <2>3, <2>5 DEF Places
<1>3. CASE ScanAP
  <2>1. pc = "scan" /\ UNCHANGED <<target, ap, components, extracted, unread>>
    BY <1>3 DEF ScanAP
  <2>2. components' = <<>> /\ extracted' = <<>> /\ unread' = {}
    BY <2>1 DEF Phases
  <2>3. QED
    BY <2>2 DEF Places, Seen
<1>4. CASE extractAccessPort
  <2>1. pc = "walk" /\ pc' = "walk" /\ UNCHANGED <<target, myAccessPorts, extracted, unread>>
        /\ ap' = ap + 1 /\ ap < Len(myAccessPorts)
    BY <1>4 DEF extractAccessPort
  <2>2. PICK b : b = myAccessPorts[ap + 1]
    OBVIOUS
  <2>3. DOMAIN components' = {1} /\ components'[1].baseAddr = b
    BY <1>4, <2>2 DEF extractAccessPort, Component
  <2>4. Seen' = Seen /\ Expanded \subseteq Expanded'
    BY <2>1 DEF Seen, Expanded
  <2>5. ap' \in Nat /\ ap <= ap' /\ ap + 1 \in 1 .. ap'
    BY <2>1 DEF Typed
  <2>6. Found \subseteq Found'
    BY <2>1, <2>4, <2>5, FoundGrows
  <2>7. b \in Found'
    <3>1. ap + 1 \in DOMAIN myAccessPorts
      BY <2>1 DEF Typed
    <3>2. b \in PageNumbers
      BY <2>2, <3>1, SeqAt DEF Typed
    <3>3. QED
      BY <2>1, <2>2, <2>5, <3>2 DEF Found
  <2>8. ASSUME b \in Seen PROVE FALSE
    <3>0. target \in Targets
      BY DEF Typed
    <3>1. b \in Found /\ Valid(target, b)
      BY <2>8 DEF Places, Seen
    <3>2. ap + 1 \in DOMAIN myAccessPorts /\ \A i \in 1 .. ap : i \in DOMAIN myAccessPorts /\ i # ap + 1
      BY <2>1 DEF Typed
    <3>3. \A i \in DOMAIN myAccessPorts : i \in DOMAIN target.aps
      <4>1. target.aps \in Seq(PageNumbers)
        BY TargetsAssumption DEF Typed
      <4>2. QED
        BY <4>1 DEF Typed
    <3>4. b = target.aps[ap + 1]
      BY <2>2, <3>2 DEF Typed
    <3>5. CASE \E i \in 1 .. ap : myAccessPorts[i] = b
      <4>1. PICK i \in 1 .. ap : myAccessPorts[i] = b
        BY <3>5
      <4>2. target.aps[i] = b
        BY <3>2, <4>1 DEF Typed
      <4>3. i = ap + 1
        BY <3>0, <3>1, <3>2, <3>3, <3>4, <4>2, TreeAssumption
      <4>4. QED
        BY <3>2, <4>3
    <3>6. CASE \E q \in Expanded : \E j \in EntriesOf(target, q) : Leads(target, q, j) /\ Child(target, q, j) = b
      <4>1. PICK q \in Expanded : \E j \in EntriesOf(target, q) : Leads(target, q, j) /\ Child(target, q, j) = b
        BY <3>6
      <4>2. PICK j \in EntriesOf(target, q) : Leads(target, q, j) /\ Child(target, q, j) = b
        BY <4>1
      <4>3. q \in PageNumbers
        BY DEF Expanded, Seen
      <4>4. target.aps[ap + 1] # b
        BY <3>0, <3>1, <3>2, <3>3, <4>2, <4>3, TreeAssumption
      <4>5. QED
        BY <3>4, <4>4
    <3>7. QED
      BY <3>1, <3>5, <3>6 DEF Found
  <2>9. QED
    BY <2>3, <2>4, <2>6, <2>7, <2>8 DEF Places
<1>5. CASE DetectReturns
  <2>1. UNCHANGED <<target, myAccessPorts, ap, components, extracted, unread>> /\ components = <<>>
    BY <1>5 DEF DetectReturns, walk
  <2>2. pc' # "table"
    BY <1>5 DEF DetectReturns
  <2>3. Seen' = Seen /\ Expanded \subseteq Expanded'
    BY <2>1, <2>2 DEF Seen, Expanded
  <2>4. ap' \in Nat /\ ap <= ap'
    BY <2>1 DEF Typed
  <2>5. Found \subseteq Found'
    BY <2>1, <2>3, <2>4, FoundGrows
  <2>6. QED
    BY <2>1, <2>3, <2>5 DEF Places
<1>6. CASE extractComponent
  <2>1. /\ pc = "walk" /\ UNCHANGED <<target, myAccessPorts, ap, unread>> /\ components # <<>>
        /\ Valid(target, This.baseAddr)
    BY <1>6 DEF extractComponent, Valid, Memory
  <2>2. extracted' = Append(extracted, Shown(This, <<>>)) /\ This.baseAddr \in PageNumbers
    BY <1>6, <2>1, FirstType DEF extractComponent
  <2>3. Seen' = Seen \cup {This.baseAddr}
    <3>1. PICK m \in Nat : m = Len(extracted) /\ DOMAIN extracted = 1 .. m
      BY DEF Typed
    <3>2. PICK x : x = Shown(This, <<>>)
      OBVIOUS
    <3>3. x.component.baseAddr = This.baseAddr
      BY <3>2 DEF Shown
    <3>4. DOMAIN extracted' = 1 .. m + 1 /\ extracted'[m + 1] = x /\ \A i \in 1 .. m : extracted'[i] = extracted[i]
      BY <2>2, <3>1, <3>2 DEF Typed
    <3>5. \A i \in 1 .. m + 1 : i \in 1 .. m \/ i = m + 1
      OBVIOUS
    <3>6. m + 1 \in 1 .. m + 1 /\ \A i \in 1 .. m : i \in 1 .. m + 1
      OBVIOUS
    <3>7. \A b : (\E i \in DOMAIN extracted' : extracted'[i].component.baseAddr = b) <=>
                 (b = This.baseAddr \/ \E i \in DOMAIN extracted : extracted[i].component.baseAddr = b)
      BY <3>1, <3>3, <3>4, <3>5, <3>6
    <3>8. QED
      BY <2>1, <2>2, <3>7 DEF Seen
  <2>4. ap' \in Nat /\ ap <= ap'
    BY <2>1 DEF Typed
  <2>5. PICK n \in Nat : n = Len(components) /\ n >= 1 /\ DOMAIN components = 1 .. n
    BY <2>1 DEF Typed
  <2>6. This = components[1] /\ 1 \in DOMAIN components
    BY <2>5 DEF This
  <2>7. This.baseAddr \notin Seen
    BY <2>1, <2>6 DEF Places
  <2>8. (pc' = "table" => components' = components) /\ (pc' # "table" \/ This' = This)
    BY <1>6 DEF extractComponent, This
  <2>9. Expanded \subseteq Expanded'
    BY <2>3, <2>7, <2>8 DEF Expanded
  <2>10. Found \subseteq Found'
    BY <2>1, <2>4, <2>9, FoundGrows
  <2>11. CASE components' = Tail(components)
    BY <2>1, <2>3, <2>10, <2>11, PlacesNext
  <2>12. CASE components' = components /\ pc' \in {"table", "scs"}
    <3>1. ASSUME NEW i \in DOMAIN components, components[i].baseAddr \in Seen'
          PROVE  i = 1 /\ \A x \in unread : x[1] # components[i].baseAddr
      <4>1. components[i].baseAddr \notin Seen
        BY <2>1 DEF Places
      <4>2. components[i].baseAddr = This.baseAddr
        BY <2>3, <3>1, <4>1
      <4>3. i = 1
        BY <2>1, <2>6, <4>2 DEF Places
      <4>4. QED
        BY <2>1, <2>2, <4>1, <4>2, <4>3 DEF Seen
    <3>2. \A b \in Seen' : b \in Found'
      BY <2>3, <2>6, <2>10 DEF Places
    <3>3. QED
      BY <2>1, <2>10, <2>12, <3>1, <3>2 DEF Places
  <2>13. QED
    BY <1>6, <2>11, <2>12 DEF extractComponent
<1>7. CASE \E f \in BOOLEAN : extractSCScomponent(f)
  <2>1. PICK f \in BOOLEAN : extractSCScomponent(f)
    BY <1>7
  <2>2. /\ pc = "scs" /\ pc' = "walk" /\ components' = Tail(components)
        /\ UNCHANGED <<target, myAccessPorts, ap>>
        /\ unread \subseteq unread' /\ \A x \in unread' : x \in unread \/ x[1] = This.baseAddr
    BY <2>1 DEF extractSCScomponent
  <2>3. components # <<>> /\ extracted # <<>> /\ extracted[Len(extracted)] = Shown(This, <<>>)
    BY <2>2 DEF Phases
  <2>4. PICK r : extracted' = Front(extracted) \o <<Shown(This, r)>>
    BY <2>1 DEF extractSCScomponent
  <2>5. \A b : (\E i \in DOMAIN extracted' : extracted'[i].component.baseAddr = b) <=>
               (\E i \in DOMAIN extracted : extracted[i].component.baseAddr = b)
    <3>1. PICK m \in Nat : m = Len(extracted) /\ m >= 1 /\ DOMAIN extracted = 1 .. m
      BY <2>3 DEF Typed
    <3>2. PICK x : x = Shown(This, r)
      OBVIOUS
    <3>3. PICK e \in Seq(ShownSet) : e = Front(extracted) /\ Len(e) = m - 1 /\ \A i \in 1 .. m - 1 : e[i] = extracted[i]
      <4>1. /\ Front(extracted) \in Seq(ShownSet) /\ Len(Front(extracted)) = m - 1
            /\ \A i \in 1 .. m - 1 : Front(extracted)[i] = extracted[i]
        BY <3>1 DEF Front, Typed
      <4>2. QED
        BY <4>1
    <3>4. DOMAIN extracted' = 1 .. m /\ extracted'[m] = x /\ \A i \in 1 .. m - 1 : extracted'[i] = extracted[i]
      BY <2>4, <3>1, <3>2, <3>3, SMTT(30)
    <3>5. x.component = extracted[m].component
      BY <2>3, <3>1, <3>2 DEF Shown
    <3>6. \A i \in 1 .. m : i \in 1 .. m - 1 \/ i = m
      OBVIOUS
    <3>7. \A i \in 1 .. m : extracted'[i].component = extracted[i].component
      BY <3>4, <3>5, <3>6
    <3>8. QED
      BY <3>1, <3>4, <3>7
  <2>6. Seen \subseteq Seen' /\ Seen' \subseteq Seen \cup {This.baseAddr}
    BY <2>2, <2>5 DEF Seen
  <2>7. Expanded \subseteq Expanded'
    BY <2>2, <2>6 DEF Expanded
  <2>8. ap' \in Nat /\ ap <= ap'
    BY <2>2 DEF Typed
  <2>9. Found \subseteq Found'
    BY <2>2, <2>7, <2>8, FoundGrows
  <2>10. QED
    BY <2>2, <2>3, <2>6, <2>9, PlacesNext
<1>8. CASE TableFails \/ \E failed \in BOOLEAN : ComponentInvalid(failed)
  <2>1. /\ components' = Tail(components) /\ pc' = "walk"
        /\ UNCHANGED <<target, myAccessPorts, ap, extracted>>
        /\ unread \subseteq unread' /\ \A x \in unread' : x \in unread \/ x[1] = This.baseAddr
    BY <1>8 DEF TableFails, ComponentInvalid
  <2>2. components # <<>>
    BY <1>8 DEF TableFails, ComponentInvalid, Phases
  <2>3. Seen \subseteq Seen' /\ Seen' \subseteq Seen \cup {This.baseAddr}
    BY <2>1 DEF Seen
  <2>4. Expanded \subseteq Expanded'
    BY <2>1, <2>3 DEF Expanded
  <2>5. ap' \in Nat /\ ap <= ap'
    BY <2>1 DEF Typed
  <2>6. Found \subseteq Found'
    BY <2>1, <2>4, <2>5, FoundGrows
  <2>7. QED
    BY <2>1, <2>2, <2>3, <2>6, PlacesNext
<1>9. CASE extractROMtable
  <2>1. pc = "table" /\ pc' = "walk" /\ UNCHANGED <<target, myAccessPorts, ap, extracted, unread>>
    BY <1>9 DEF extractROMtable
  <2>2. components # <<>> /\ target.memory[This.baseAddr].class = "ROM"
        /\ extracted # <<>> /\ extracted[Len(extracted)] = Shown(This, <<>>)
    BY <2>1 DEF Phases, Memory
  <2>3. PICK L : L = Listed(This, target.memory[This.baseAddr])
    OBVIOUS
  <2>4. PICK T : T = Tail(components)
    OBVIOUS
  <2>5. components' = L \o T
    BY <1>9, <2>3, <2>4 DEF extractROMtable, Memory
  <2>6. This \in ComponentSet /\ This.depth <= target.depth[This.baseAddr]
        /\ T \in Seq(ComponentSet) /\ This.baseAddr \in PageNumbers
    BY <2>2, <2>4, FirstType
  <2>7. /\ L \in Seq(ComponentSet)
        /\ \A i \in DOMAIN L : \E k \in EntriesOf(target, This.baseAddr) :
             Leads(target, This.baseAddr, k) /\ L[i].baseAddr = Child(target, This.baseAddr, k)
        /\ \A i, j \in DOMAIN L : L[i].baseAddr = L[j].baseAddr /\ Valid(target, L[i].baseAddr) => i = j
    BY <2>2, <2>3, <2>6, ListedRight DEF Typed
  <2>8. Seen' = Seen /\ Expanded \subseteq Expanded' /\ This.baseAddr \notin Expanded
    BY <2>1 DEF Seen, Expanded
  <2>9. This.baseAddr \in Expanded'
    <3>1. PICK m \in Nat : m = Len(extracted) /\ m \in DOMAIN extracted
      BY <2>2 DEF Typed
    <3>2. extracted[m].component.baseAddr = This.baseAddr
      BY <2>2, <3>1 DEF Shown
    <3>3. This.baseAddr \in Seen
      BY <2>2, <2>6, <3>1, <3>2 DEF Seen, Valid
    <3>4. QED
      BY <2>1, <2>8, <3>3 DEF Expanded
  <2>10. ap' \in Nat /\ ap <= ap'
    BY <2>1 DEF Typed
  <2>11. Found \subseteq Found'
    BY <2>1, <2>8, <2>10, FoundGrows
  <2>12. PICK n \in Nat : n = Len(components) /\ n >= 1 /\ DOMAIN components = 1 .. n
    BY <2>2 DEF Typed
  <2>13. This = components[1] /\ 1 \in DOMAIN components
    BY <2>12 DEF This
  <2>14. DOMAIN T = 1 .. n - 1 /\ \A i \in 1 .. n - 1 : T[i] = components[i + 1]
    BY <2>4, <2>12 DEF Typed
  <2>15. \A i \in 1 .. n - 1 : i + 1 \in 1 .. n /\ i + 1 # 1
    BY <2>12
  <2>16. ASSUME NEW i \in DOMAIN L
         PROVE  /\ L[i].baseAddr \in Found'
                /\ Valid(target, L[i].baseAddr) => L[i].baseAddr \notin Found
    <3>1. PICK k \in EntriesOf(target, This.baseAddr) :
            Leads(target, This.baseAddr, k) /\ L[i].baseAddr = Child(target, This.baseAddr, k)
      BY <2>7
    <3>2. L[i].baseAddr \in PageNumbers
      BY <2>6, <3>1, ChildType DEF Typed, EntriesOf
    <3>3. L[i].baseAddr \in Found'
      BY <2>1, <2>9, <3>1, <3>2 DEF Found
    <3>4. QED
      BY <2>6, <2>8, <3>1, <3>2, <3>3, OneWay
  <2>17. ASSUME NEW i \in DOMAIN T
         PROVE  /\ T[i].baseAddr \in Found /\ T[i].baseAddr \in Found'
                /\ T[i].baseAddr \notin Seen
    BY <2>11, <2>12, <2>14, <2>15 DEF Places
  <2>18. \A i, j \in DOMAIN T : T[i].baseAddr = T[j].baseAddr /\ Valid(target, T[i].baseAddr) => i = j
    <3>1. \A i, j \in 1 .. n - 1 :
            T[i].baseAddr = T[j].baseAddr /\ Valid(target, T[i].baseAddr) => i + 1 = j + 1
      BY <2>12, <2>14, <2>15 DEF Places
    <3>2. \A i, j \in 1 .. n - 1 : i + 1 = j + 1 => i = j
      OBVIOUS
    <3>3. QED
      BY <2>14, <3>1, <3>2
  <2>19. \A b \in Seen' : b \in Found /\ b \in Found' /\ Valid(target, b)
    BY <2>8, <2>11 DEF Places, Seen
  <2>20. PICK l \in Nat, m \in Nat : l = Len(L) /\ m = Len(T) /\ DOMAIN L = 1 .. l /\ DOMAIN T = 1 .. m
    BY <2>6, <2>7
  <2>21. /\ DOMAIN components' = 1 .. l + m
         /\ \A i \in 1 .. l : components'[i] = L[i]
         /\ \A i \in 1 .. l + m : i \notin 1 .. l => i - l \in 1 .. m /\ components'[i] = T[i - l]
    BY <2>5, <2>6, <2>7, <2>20
  <2>22. ASSUME NEW i \in DOMAIN components'
         PROVE  components'[i].baseAddr \in Found' /\ components'[i].baseAddr \notin Seen'
    <3>1. CASE i \in 1 .. l
      BY <2>16, <2>19, <2>20, <2>21, <3>1
    <3>2. CASE i \notin 1 .. l
      BY <2>8, <2>17, <2>20, <2>21, <3>2
    <3>3. QED
      BY <3>1, <3>2
  <2>23. ASSUME NEW i \in DOMAIN components', NEW j \in DOMAIN components',
                components'[i].baseAddr = components'[j].baseAddr, Valid(target, components'[i].baseAddr)
         PROVE  i = j
    <3>1. CASE i \in 1 .. l /\ j \in 1 .. l
      BY <2>7, <2>20, <2>21, <2>23, <3>1
    <3>2. CASE i \notin 1 .. l /\ j \notin 1 .. l
      <4>0. PICK g \in DOMAIN T, h \in DOMAIN T : /\ g = i - l /\ components'[i] = T[g]
                                              /\ h = j - l /\ components'[j] = T[h]
        BY <2>20, <2>21, <3>2
      <4>1. i - l = j - l
        BY <2>18, <2>23, <4>0
      <4>2. QED
        BY <2>20, <2>21, <4>1
    <3>3. CASE i \in 1 .. l /\ j \notin 1 .. l
      <4>1. L[i].baseAddr \notin Found /\ T[j - l].baseAddr \in Found
        BY <2>16, <2>17, <2>20, <2>21, <2>23, <3>3
      <4>2. L[i].baseAddr = T[j - l].baseAddr
        BY <2>21, <2>23, <3>3
      <4>3. QED
        BY <4>1, <4>2
    <3>4. CASE i \notin 1 .. l /\ j \in 1 .. l
      <4>1. L[j].baseAddr = T[i - l].baseAddr /\ Valid(target, L[j].baseAddr)
        BY <2>21, <2>23, <3>4
      <4>2. L[j].baseAddr \notin Found /\ T[i - l].baseAddr \in Found
        BY <2>16, <2>17, <2>20, <2>21, <3>4, <4>1
      <4>3. QED
        BY <4>1, <4>2
    <3>5. QED
      BY <3>1, <3>2, <3>3, <3>4
  <2>24. QED
    BY <2>1, <2>19, <2>22, <2>23 DEF Places
<1>10. CASE UNCHANGED vars
  BY <1>10 DEF vars, walk, Places, Seen, Found, Expanded, This
<1>11. QED
  BY <1>1, <1>2, <1>3, <1>4, <1>5, <1>6, <1>7, <1>8, <1>9, <1>10 DEF Next, Running, Failing

-----------------------------------------------------------------------------
(* What a single component adds. *)

(* What lies below a component: nothing, or itself and what its table leads to.*)
LEMMA AtUnder ==
  ASSUME NEW t \in Targets, NEW U, NEW F, IsTree(t, U, F), NEW c \in ComponentSet
  PROVE  F[c.depth][c.baseAddr] = Under(t, U, F, c.depth, c.baseAddr) /\ F[c.depth][c.baseAddr] \in Seq(ShownSet)
<1>1. c.depth \in 0 .. MaxDepth + 1 /\ c.baseAddr \in PageNumbers
  BY SizesAssumption DEF ComponentSet
<1>2. F \in Trees
  BY TreeType
<1>3. F[c.depth][c.baseAddr] = Under(t, U, F, c.depth, c.baseAddr)
  BY <1>1, TreeAt
<1>4. QED
  BY <1>2, <1>3, BelowType

LEMMA AtInvalid ==
  ASSUME NEW t \in Targets, NEW U, NEW F, IsTree(t, U, F), NEW c \in ComponentSet,
         t.memory[c.baseAddr].class = "invalid" \/ <<c.baseAddr, "registers">> \in U
  PROVE  F[c.depth][c.baseAddr] = <<>>
BY AtUnder DEF Under

LEMMA AtComponent ==
  ASSUME NEW t \in Targets, NEW U, NEW F, IsTree(t, U, F), NEW c \in ComponentSet,
         t.memory[c.baseAddr].class # "invalid", <<c.baseAddr, "registers">> \notin U
  PROVE  F[c.depth][c.baseAddr] =
           <<Shown(c, Registers(t, U, c.baseAddr))>> \o
           IF t.memory[c.baseAddr].class # "ROM" \/ <<c.baseAddr, "entries">> \in U THEN <<>>
           ELSE Inside(t, F, c.depth, c.baseAddr)
<1>1. ~(c.depth > MaxDepth) /\ Component(c.baseAddr, c.depth) = c
  BY SizesAssumption DEF ComponentSet, Component
<1>2. F[c.depth][c.baseAddr] = Under(t, U, F, c.depth, c.baseAddr)
  BY AtUnder
<1>3. QED
  BY <1>1, <1>2 DEF Under

(* The code takes the last entry of the table of known components.             *)
LEMMA LastMeaning ==
  ASSUME NEW id
  PROVE  /\ Meanings(id) # {} => dbcompclass(id) \in Meanings(id)
         /\ Meanings(id) = {} => dbcompclass(id) = "NONE"
<1> DEFINE matches == {i \in DOMAIN arm_comp : arm_comp[i].ID = id}
<1>1. PICK n \in Nat : DOMAIN arm_comp = 1 .. n
  BY TableAssumption
<1>2. CASE matches = {}
  BY <1>2 DEF Meanings, dbcompclass
<1>3. CASE matches # {}
  <2> DEFINE T == {m \in Nat : \A i \in matches : i <= m}
  <2>1. n \in T
    BY <1>1
  <2>2. PICK x \in T : \A y \in T : x <= y
    BY <2>1, Least
  <2>3. x \in matches
    <3>1. SUFFICES ASSUME x \notin matches PROVE FALSE
      OBVIOUS
    <3>2. PICK i \in matches : i \in Nat /\ i >= 1
      BY <1>1, <1>3
    <3>3. \A j \in matches : j \in Nat /\ j <= x /\ j # x
      BY <1>1, <2>2, <3>1
    <3>4. x - 1 \in Nat /\ \A j \in matches : j <= x - 1
      BY <3>2, <3>3
    <3>5. x - 1 \in T
      BY <3>4
    <3>6. QED
      BY <2>2, <3>5
  <2>4. x \in matches /\ \A y \in matches : y <= x
    BY <2>2, <2>3
  <2> HIDE DEF matches
  <2>5. Max(matches) \in matches
    BY <2>4 DEF Max
  <2>6. QED
    BY <1>3, <2>5 DEF matches, Meanings, dbcompclass
<1>4. QED
  BY <1>2, <1>3

(* A component shows registers by the program when it does by the reference.     *)
LEMMA SameMeaning ==
  ASSUME Typed, NEW c \in ComponentSet
  PROVE  ShowsRegisters(c) <=> /\ target.memory[c.baseAddr].class \in {"CoreSight", "genericIP"}
                               /\ Meanings(target.memory[c.baseAddr].id) = {"SCS"}
<1>1. c.baseAddr \in PageNumbers /\ target \in Targets
  BY DEF ComponentSet, Typed
<1>2. dbcompclass(target.memory[c.baseAddr].id) = "SCS" => Meanings(target.memory[c.baseAddr].id) = {"SCS"}
  BY <1>1, KnownAssumption
<1>3. Meanings(target.memory[c.baseAddr].id) = {"SCS"} => dbcompclass(target.memory[c.baseAddr].id) = "SCS"
  BY LastMeaning
<1>4. QED
  BY <1>2, <1>3 DEF ShowsRegisters, Memory

-----------------------------------------------------------------------------
(* The walk goes over what the reference says. *)

Parts == {"registers", "entries", "fetch"}

(* The reads that may fail in all: those that did and any that are still to come. *)
Compatible(U) ==
  /\ unread \subseteq U
  /\ \A b \in Seen : \A part \in Parts : <<b, part>> \in U /\ <<b, part>> \notin unread =>
       /\ b = This.baseAddr
       /\ \/ pc = "table" /\ part = "entries"
          \/ pc = "scs" /\ part = "fetch"

(* The components of the access ports begun.                                   *)
Bases == [k \in 1 .. ap |-> Component(myAccessPorts[k], 0)]

(* The components that are done with; in scs the last one shown still lacks its registers.*)
Done == IF pc = "scs" THEN Front(extracted) ELSE extracted

(* What is still to be shown.                                                  *)
ToCome(U, F) ==
  IF pc # "table" THEN Whole(F, components)
  ELSE (IF <<This.baseAddr, "entries">> \in U THEN <<>> ELSE Inside(target, F, This.depth, This.baseAddr))
       \o Whole(F, Tail(components))

(* Whatever else fails, what was shown and what is to come make up what is below *)
(* the access ports that were begun.                                            *)
Walked ==
  pc \in {"walk", "table", "scs"} =>
    \A U, F : Compatible(U) /\ IsTree(target, U, F) => Whole(F, Bases) = Done \o ToCome(U, F)

BasesTyped == Bases \in Seq(ComponentSet) /\ Len(Bases) = ap

LEMMA BasesType == Typed => BasesTyped
<1> SUFFICES ASSUME Typed PROVE BasesTyped
  OBVIOUS
<1>1. ap \in Nat /\ \A k \in 1 .. ap : k \in DOMAIN myAccessPorts
  BY DEF Typed
<1>2. \A k \in 1 .. ap : myAccessPorts[k] \in PageNumbers
  BY <1>1, SeqAt DEF Typed
<1>3. \A k \in 1 .. ap : Component(myAccessPorts[k], 0) \in ComponentSet
  BY <1>2, SizesAssumption DEF Component, ComponentSet
<1>4. Bases \in [1 .. ap -> ComponentSet]
  BY <1>3 DEF Bases
<1>5. QED
  BY <1>1, <1>4 DEF BasesTyped

(* Walked is kept by each step of the walk: by the end of the scan,            *)
LEMMA WalkedScan ==
  ASSUME Phases, ScanAP, pc' = "walk"
  PROVE  Walked'
<1>1. ap' = 0 /\ components' = <<>> /\ extracted' = <<>>
  BY DEF ScanAP, Phases
<1>2. ASSUME NEW F PROVE Whole(F, Bases') = <<>> /\ Whole(F, components') = <<>>
  <2>1. Bases' = <<>>
    BY <1>1 DEF Bases
  <2>2. QED
    BY <1>1, <2>1, WholeNone
<1>3. QED
  BY <1>1, <1>2 DEF Walked, Done, ToCome

(* by going on to the next access port,                                        *)
LEMMA WalkedAccessPort ==
  ASSUME Typed, Typed', Walked, extractAccessPort
  PROVE  Walked'
<1>1. /\ pc = "walk" /\ pc' = "walk" /\ components = <<>>
      /\ ap' = ap + 1 /\ ap + 1 \in DOMAIN myAccessPorts /\ ap \in Nat
      /\ UNCHANGED <<target, myAccessPorts, extracted, unread>>
  BY DEF extractAccessPort, Typed
<1>2. PICK c : c = Component(myAccessPorts[ap + 1], 0)
  OBVIOUS
<1>3. components' = <<c>>
  BY <1>2 DEF extractAccessPort
<1>4. c \in ComponentSet /\ <<c>> \in Seq(ComponentSet)
  <2>1. myAccessPorts[ap + 1] \in PageNumbers
    BY <1>1, SeqAt DEF Typed
  <2>2. c \in ComponentSet
    BY <1>2, <2>1, SizesAssumption DEF Component, ComponentSet
  <2>3. QED
    BY <2>2
<1>5. Bases' = Bases \o <<c>>
  <2>1. PICK n \in Nat : n = ap
    BY <1>1
  <2>2. Bases = [k \in 1 .. n |-> Component(myAccessPorts[k], 0)]
        /\ Bases' = [k \in 1 .. n + 1 |-> Component(myAccessPorts[k], 0)]
    BY <1>1, <2>1 DEF Bases
  <2>3. Bases \in Seq(ComponentSet) /\ Len(Bases) = n /\ Bases' \in Seq(ComponentSet) /\ Len(Bases') = n + 1
    <3>1. BasesTyped
      BY BasesType
    <3>2. BasesTyped'
      BY BasesType, PTL
    <3>3. QED
      BY <1>1, <2>1, <3>1, <3>2 DEF BasesTyped
  <2>4. \A k \in 1 .. n : k \in 1 .. n + 1
    OBVIOUS
  <2>5. n + 1 \in 1 .. n + 1
    OBVIOUS
  <2>6. (\A k \in 1 .. n : Bases'[k] = Bases[k]) /\ Bases'[n + 1] = c
    BY <1>2, <2>1, <2>2, <2>4, <2>5
  <2>7. QED
    BY <1>4, <2>3, <2>6
<1>6. ASSUME NEW U, NEW F, Compatible(U)', IsTree(target, U, F)
      PROVE  Whole(F, Bases') = extracted \o Whole(F, components')
  <2>1. Compatible(U)
    BY <1>1, <1>6 DEF Compatible, Seen
  <2>2. F \in Trees
    BY <1>6, TreeType DEF Typed
  <2>3. Whole(F, Bases') = Whole(F, Bases) \o Whole(F, <<c>>)
    BY <1>4, <1>5, <2>2, BasesType, WholeCat DEF BasesTyped
  <2>4. Whole(F, Bases) = extracted \o Whole(F, components)
    BY <1>1, <1>6, <2>1 DEF Walked, Done, ToCome
  <2>5. Whole(F, components) = <<>>
    BY <1>1, WholeNone
  <2>6. extracted \o <<>> = extracted
    BY DEF Typed
  <2>7. QED
    BY <1>3, <2>3, <2>4, <2>5, <2>6
<1>7. QED
  BY <1>1, <1>6 DEF Walked, Done, ToCome

(* by a component that was read,                                               *)
LEMMA WalkedComponent ==
  ASSUME Typed, Typed', Phases, Places, Walked, extractComponent
  PROVE  Walked'
<1>1. /\ pc = "walk" /\ components # <<>> /\ Valid(target, This.baseAddr)
      /\ extracted' = Append(extracted, Shown(This, <<>>))
      /\ UNCHANGED <<target, myAccessPorts, ap, reply, unread>>
  BY DEF extractComponent, Valid, Memory
<1>2. This \in ComponentSet /\ This.baseAddr \in PageNumbers /\ Tail(components) \in Seq(ComponentSet)
  BY <1>1, FirstType
<1>3. PICK c : c = This
  OBVIOUS
<1>4. PICK x \in ShownSet : x = Shown(c, <<>>)
  <2>1. <<>> \in Seq(Nat)
    OBVIOUS
  <2>2. QED
    BY <1>2, <1>3, <2>1, ShownType
<1>5. PICK e \in Seq(ShownSet) : e = extracted
  BY DEF Typed
<1>6. extracted' = Append(e, x) /\ Append(e, x) = e \o <<x>> /\ Front(Append(e, x)) = e
  BY <1>1, <1>3, <1>4, <1>5 DEF Front
<1>7. c.baseAddr \notin Seen
  <2>1. This = components[1] /\ 1 \in DOMAIN components
    BY <1>1 DEF This, Typed
  <2>2. QED
    BY <1>1, <1>3, <2>1 DEF Places
<1>8. Seen' = Seen \cup {c.baseAddr}
  <2>1. PICK m \in Nat : m = Len(e) /\ DOMAIN e = 1 .. m
    OBVIOUS
  <2>2. x.component.baseAddr = c.baseAddr
    BY <1>4 DEF Shown
  <2>3. DOMAIN extracted' = 1 .. m + 1 /\ extracted'[m + 1] = x /\ \A i \in 1 .. m : extracted'[i] = extracted[i]
    BY <1>5, <1>6, <2>1
  <2>4. (\A i \in 1 .. m + 1 : i \in 1 .. m \/ i = m + 1) /\ m + 1 \in 1 .. m + 1 /\ \A i \in 1 .. m : i \in 1 .. m + 1
    OBVIOUS
  <2>5. \A b : (\E i \in DOMAIN extracted' : extracted'[i].component.baseAddr = b) <=>
               (b = c.baseAddr \/ \E i \in DOMAIN extracted : extracted[i].component.baseAddr = b)
    BY <1>5, <2>1, <2>2, <2>3, <2>4
  <2>6. QED
    BY <1>1, <1>2, <1>3, <2>5 DEF Seen
<1>9. Bases' = Bases
  BY <1>1 DEF Bases
<1>10. ASSUME NEW U, NEW F, Compatible(U)', IsTree(target, U, F)
       PROVE  /\ Whole(F, Bases) = e \o Whole(F, components)
              /\ Whole(F, components) = F[c.depth][c.baseAddr] \o Whole(F, Tail(components))
              /\ F[c.depth][c.baseAddr] =
                   <<Shown(c, Registers(target, U, c.baseAddr))>> \o
                   IF target.memory[c.baseAddr].class # "ROM" \/ <<c.baseAddr, "entries">> \in U THEN <<>>
                   ELSE Inside(target, F, c.depth, c.baseAddr)
              /\ F[c.depth][c.baseAddr] \in Seq(ShownSet) /\ Whole(F, Tail(components)) \in Seq(ShownSet)
  <2>1. pc' = "walk" \/ This' = This
    BY DEF extractComponent, This
  <2>2. Compatible(U)
    BY <1>1, <1>3, <1>7, <1>8, <1>10, <2>1 DEF Compatible
  <2>3. Whole(F, Bases) = e \o Whole(F, components)
    BY <1>1, <1>5, <1>10, <2>2 DEF Walked, Done, ToCome
  <2>4. <<c.baseAddr, "registers">> \notin U
    <3>1. <<c.baseAddr, "registers">> \notin unread
      <4>1. \A y \in unread : y[1] # c.baseAddr
        BY <1>1, <1>2, <1>3, <1>7 DEF Seen
      <4>2. <<c.baseAddr, "registers">>[1] = c.baseAddr
        OBVIOUS
      <4>3. QED
        BY <4>1, <4>2
    <3>2. QED
      BY <1>1, <1>8, <1>10, <3>1 DEF Compatible, Parts
  <2>5. F \in Trees
    BY <1>10, TreeType DEF Typed
  <2>6. Whole(F, components) = F[c.depth][c.baseAddr] \o Whole(F, Tail(components))
    BY <1>1, <1>3, <2>5, WholeFirst DEF Typed, This
  <2>7. Whole(F, Tail(components)) \in Seq(ShownSet)
    BY <1>2, <2>5, WholeType
  <2>8. target \in Targets
    BY DEF Typed
  <2>9. c \in ComponentSet /\ target.memory[c.baseAddr].class # "invalid"
    BY <1>1, <1>2, <1>3 DEF Valid
  <2>10. F[c.depth][c.baseAddr] \in Seq(ShownSet)
    BY <1>10, <2>8, <2>9, AtUnder
  <2>11. F[c.depth][c.baseAddr] =
           <<Shown(c, Registers(target, U, c.baseAddr))>> \o
           IF target.memory[c.baseAddr].class # "ROM" \/ <<c.baseAddr, "entries">> \in U THEN <<>>
           ELSE Inside(target, F, c.depth, c.baseAddr)
    BY <1>10, <2>4, <2>8, <2>9, AtComponent, SMTT(30)
  <2>12. QED
    BY <2>3, <2>6, <2>7, <2>10, <2>11
<1>11. CASE Memory(This.baseAddr).class = "ROM" /\ pc' = "table" /\ components' = components
  <2>1. This' = c /\ target.memory[c.baseAddr].class = "ROM"
    BY <1>3, <1>11 DEF This, Memory
  <2>2. ASSUME NEW U, NEW F, Compatible(U)', IsTree(target, U, F)
        PROVE  Whole(F, Bases) = Append(e, x) \o
                 ((IF <<c.baseAddr, "entries">> \in U THEN <<>> ELSE Inside(target, F, c.depth, c.baseAddr))
                   \o Whole(F, Tail(components)))
    <3> DEFINE in == IF <<c.baseAddr, "entries">> \in U THEN <<>> ELSE Inside(target, F, c.depth, c.baseAddr)
               w == Whole(F, Tail(components))
    <3>1. Registers(target, U, c.baseAddr) = <<>>
      BY <2>1 DEF Registers
    <3>2. F[c.depth][c.baseAddr] = <<x>> \o in
      <4>1. F[c.depth][c.baseAddr] =
              <<x>> \o IF target.memory[c.baseAddr].class # "ROM" \/ <<c.baseAddr, "entries">> \in U THEN <<>>
                       ELSE Inside(target, F, c.depth, c.baseAddr)
        <5>1. F[c.depth][c.baseAddr] =
                <<Shown(c, Registers(target, U, c.baseAddr))>> \o
                IF target.memory[c.baseAddr].class # "ROM" \/ <<c.baseAddr, "entries">> \in U THEN <<>>
                ELSE Inside(target, F, c.depth, c.baseAddr)
          BY <1>10, <2>2
        <5>2. <<Shown(c, Registers(target, U, c.baseAddr))>> = <<x>>
          BY <1>4, <3>1
        <5>3. QED
          BY <5>1, <5>2
      <4>2. CASE <<c.baseAddr, "entries">> \in U
        BY <4>1, <4>2
      <4>3. CASE <<c.baseAddr, "entries">> \notin U
        BY <2>1, <4>1, <4>3
      <4>4. QED
        BY <4>2, <4>3
    <3>3. in \in Seq(ShownSet)
      <4>1. F \in Trees /\ target \in Targets
        BY <2>2, TreeType DEF Typed
      <4>2. c.depth \in 0 .. MaxDepth /\ c.depth + 1 \in 0 .. MaxDepth + 1
        BY <1>2, <1>3, SizesAssumption DEF ComponentSet
      <4>3. \A b \in PageNumbers : F[c.depth + 1][b] \in Seq(ShownSet)
        <5>1. F[c.depth + 1] \in [PageNumbers -> Seq(ShownSet)]
          BY <4>1, <4>2 DEF Trees
        <5>2. QED
          BY <5>1
      <4>4. Inside(target, F, c.depth, c.baseAddr) \in Seq(ShownSet)
        BY <1>2, <1>3, <4>1, <4>2, <4>3, InsideType
      <4>5. QED
        BY <4>4
    <3>4. w \in Seq(ShownSet) /\ Whole(F, Bases) = e \o ((<<x>> \o in) \o w)
      BY <1>10, <2>2, <3>2
    <3> HIDE DEF in, w
    <3>5. <<x>> \in Seq(ShownSet) /\ <<x>> \o in \in Seq(ShownSet) /\ in \o w \in Seq(ShownSet)
      BY <3>3, <3>4
    <3>6. (<<x>> \o in) \o w = <<x>> \o (in \o w)
      BY <3>3, <3>4, <3>5, Assoc
    <3>7. e \o (<<x>> \o (in \o w)) = (e \o <<x>>) \o (in \o w)
      <4>1. PICK y \in Seq(ShownSet) : y = in \o w
        BY <3>5
      <4>2. e \o (<<x>> \o y) = (e \o <<x>>) \o y
        BY <3>5, Assoc
      <4>3. QED
        BY <4>1, <4>2
    <3>8. Whole(F, Bases) = Append(e, x) \o (in \o w)
      BY <1>6, <3>4, <3>6, <3>7
    <3>9. QED
      BY <3>8 DEF in, w
  <2>3. QED
    BY <1>1, <1>6, <1>9, <1>11, <2>1, <2>2 DEF Walked, Done, ToCome
<1>12. CASE pc' = "scs" /\ components' = components
  <2>1. \A U, F : Compatible(U)' /\ IsTree(target, U, F) => Whole(F, Bases) = e \o Whole(F, components)
    BY <1>10
  <2>2. QED
    BY <1>1, <1>6, <1>9, <1>12, <2>1 DEF Walked, Done, ToCome
<1>13. CASE /\ Memory(This.baseAddr).class # "ROM" /\ ~ShowsRegisters(This)
            /\ components' = Tail(components) /\ pc' = "walk"
  <2>1. target.memory[c.baseAddr].class # "ROM" /\ ~ShowsRegisters(c)
    BY <1>3, <1>13 DEF Memory
  <2>2. ASSUME NEW U, NEW F, Compatible(U)', IsTree(target, U, F)
        PROVE  Whole(F, Bases) = Append(e, x) \o Whole(F, Tail(components))
    <3> DEFINE w == Whole(F, Tail(components))
    <3>1. Registers(target, U, c.baseAddr) = <<>>
      BY <1>2, <1>3, <2>1, SameMeaning DEF Registers
    <3>2. F[c.depth][c.baseAddr] = <<x>> \o <<>>
      BY <1>4, <1>10, <2>1, <2>2, <3>1
    <3>3. F[c.depth][c.baseAddr] = <<x>>
      BY <3>2
    <3>4. w \in Seq(ShownSet) /\ Whole(F, Bases) = e \o (<<x>> \o w)
      BY <1>10, <2>2, <3>3
    <3> HIDE DEF w
    <3>5. <<x>> \in Seq(ShownSet)
      OBVIOUS
    <3>6. e \o (<<x>> \o w) = (e \o <<x>>) \o w
      BY <3>4, <3>5, Assoc
    <3>7. Whole(F, Bases) = Append(e, x) \o w
      BY <1>6, <3>4, <3>6
    <3>8. QED
      BY <3>7 DEF w
  <2>3. QED
    BY <1>1, <1>6, <1>9, <1>13, <2>2 DEF Walked, Done, ToCome
<1>14. QED
  BY <1>1, <1>11, <1>12, <1>13 DEF extractComponent

(* by the registers of a System Control Space, all of them or none,               *)
LEMMA WalkedScs ==
  ASSUME Typed, Typed', Phases, Places, Walked, NEW f \in BOOLEAN, extractSCScomponent(f)
  PROVE  Walked'
<1>1. /\ pc = "scs" /\ pc' = "walk" /\ components' = Tail(components)
      /\ UNCHANGED <<target, myAccessPorts, ap>>
      /\ unread' = IF f THEN unread \cup {<<This.baseAddr, "fetch">>} ELSE unread
  BY DEF extractSCScomponent
<1>2. /\ components # <<>> /\ extracted # <<>> /\ ShowsRegisters(This)
      /\ extracted[Len(extracted)] = Shown(This, <<>>)
  BY <1>1 DEF Phases
<1>3. This \in ComponentSet /\ This.baseAddr \in PageNumbers /\ Tail(components) \in Seq(ComponentSet)
  BY <1>2, FirstType
<1>4. PICK c \in ComponentSet : c = This
  BY <1>3
<1>5. PICK e \in Seq(ShownSet) : e = Front(extracted)
  <2>1. PICK x \in Seq(ShownSet), m \in Nat : x = extracted /\ m = Len(x) /\ m >= 1
    BY <1>2 DEF Typed
  <2>2. Front(x) \in Seq(ShownSet)
    BY <2>1 DEF Front
  <2>3. QED
    BY <2>1, <2>2
<1> DEFINE read == target.memory[c.baseAddr].registers
           r == IF f THEN <<0, 0>> ELSE read
<1>6. extracted' = e \o <<Shown(c, r)>>
  BY <1>4, <1>5 DEF extractSCScomponent, Memory
<1>7. /\ target.memory[c.baseAddr].class \in {"CoreSight", "genericIP"}
      /\ Meanings(target.memory[c.baseAddr].id) = {"SCS"}
  BY <1>2, <1>4, SameMeaning
<1>8. Valid(target, c.baseAddr) /\ c.baseAddr \in Seen
  <2>1. PICK m \in Nat : m = Len(extracted) /\ m \in DOMAIN extracted
    BY <1>2 DEF Typed
  <2>2. extracted[m].component.baseAddr = c.baseAddr
    BY <1>2, <1>4, <2>1 DEF Shown
  <2>3. QED
    BY <1>3, <1>4, <1>7, <2>1, <2>2 DEF Seen, Valid
<1>9. \A part : <<c.baseAddr, part>> \notin unread
  <2>1. This = components[1] /\ 1 \in DOMAIN components
    BY <1>2 DEF This, Typed
  <2>2. \A y \in unread : y[1] # c.baseAddr
    BY <1>4, <1>8, <2>1 DEF Places
  <2>3. QED
    BY <2>2
<1>10. Seen \subseteq Seen'
  <2>1. PICK m \in Nat : m = Len(extracted) /\ m >= 1 /\ DOMAIN extracted = 1 .. m
    BY <1>2 DEF Typed
  <2>2. Len(e) = m - 1 /\ \A i \in 1 .. m - 1 : e[i] = extracted[i]
    BY <1>2, <1>5, <2>1 DEF Front, Typed
  <2>3. PICK x : x = Shown(c, r)
    OBVIOUS
  <2>4. DOMAIN extracted' = 1 .. m /\ extracted'[m] = x /\ \A i \in 1 .. m - 1 : extracted'[i] = extracted[i]
    BY <1>6, <2>1, <2>2, <2>3
  <2>5. x.component = extracted[m].component
    BY <1>2, <1>4, <2>1, <2>3 DEF Shown
  <2>6. \A i \in 1 .. m : i \in 1 .. m - 1 \/ i = m
    OBVIOUS
  <2>7. \A i \in 1 .. m : extracted'[i].component = extracted[i].component
    BY <2>4, <2>5, <2>6
  <2>8. \A b : (\E i \in DOMAIN extracted : extracted[i].component.baseAddr = b) =>
               (\E i \in DOMAIN extracted' : extracted'[i].component.baseAddr = b)
    BY <2>1, <2>4, <2>7
  <2>9. QED
    BY <1>1, <2>8 DEF Seen
<1>11. Bases' = Bases
  BY <1>1 DEF Bases
<1> HIDE DEF r
<1>12. ASSUME NEW U, NEW F, Compatible(U)', IsTree(target, U, F)
       PROVE  Whole(F, Bases) = (e \o <<Shown(c, r)>>) \o Whole(F, Tail(components))
  <2>1. \A part \in Parts : <<c.baseAddr, part>> \in U <=> (f /\ part = "fetch")
    <3>1. ASSUME NEW part \in Parts, <<c.baseAddr, part>> \in U PROVE f /\ part = "fetch"
      <4>1. <<c.baseAddr, part>> \in unread'
        BY <1>1, <1>8, <1>10, <1>12, <3>1 DEF Compatible
      <4>2. QED
        BY <1>1, <1>9, <4>1
    <3>2. f => <<c.baseAddr, "fetch">> \in U
      BY <1>1, <1>4, <1>12 DEF Compatible
    <3>3. QED
      BY <3>1, <3>2
  <2>2. Compatible(U)
    <3>1. unread \subseteq U
      BY <1>1, <1>12 DEF Compatible
    <3>2. ASSUME NEW b \in Seen, NEW part \in Parts, <<b, part>> \in U, <<b, part>> \notin unread
          PROVE  b = This.baseAddr /\ part = "fetch"
      <4>1. <<b, part>> \in unread'
        BY <1>1, <1>10, <1>12, <3>2 DEF Compatible
      <4>2. <<b, part>> = <<This.baseAddr, "fetch">>
        BY <1>1, <3>2, <4>1
      <4>3. QED
        BY <4>2
    <3>3. QED
      BY <1>1, <3>1, <3>2 DEF Compatible
  <2>3. Registers(target, U, c.baseAddr) = r
    <3>1. <<c.baseAddr, "fetch">> \in U <=> f
      BY <2>1 DEF Parts
    <3>2. QED
      BY <1>7, <3>1 DEF Registers, r
  <2>4. F \in Trees /\ target \in Targets
    BY <1>12, TreeType DEF Typed
  <2>5. target.memory[c.baseAddr].class # "invalid" /\ <<c.baseAddr, "registers">> \notin U
    BY <1>7, <2>1 DEF Parts
  <2>6. F[c.depth][c.baseAddr] = <<Shown(c, r)>> \o <<>>
    <3>1. F[c.depth][c.baseAddr] =
            <<Shown(c, Registers(target, U, c.baseAddr))>> \o
            IF target.memory[c.baseAddr].class # "ROM" \/ <<c.baseAddr, "entries">> \in U THEN <<>>
            ELSE Inside(target, F, c.depth, c.baseAddr)
      BY <1>12, <2>4, <2>5, AtComponent, SMTT(30)
    <3>2. target.memory[c.baseAddr].class # "ROM"
      BY <1>7
    <3>3. QED
      BY <2>3, <3>1, <3>2
  <2>7. F[c.depth][c.baseAddr] = <<Shown(c, r)>> /\ <<Shown(c, r)>> \in Seq(ShownSet)
    <3>1. F[c.depth][c.baseAddr] \in Seq(ShownSet)
      BY <1>12, <2>4, AtUnder
    <3>2. PICK x : x = Shown(c, r)
      OBVIOUS
    <3>3. F[c.depth][c.baseAddr] = <<x>>
      BY <2>6, <3>2
    <3>4. QED
      BY <3>1, <3>2, <3>3
  <2>8. Whole(F, Bases) = e \o Whole(F, components)
    BY <1>1, <1>5, <1>12, <2>2 DEF Walked, Done, ToCome
  <2>9. Whole(F, components) = F[c.depth][c.baseAddr] \o Whole(F, Tail(components))
    BY <1>2, <1>4, <2>4, WholeFirst DEF Typed, This
  <2>10. Whole(F, Tail(components)) \in Seq(ShownSet)
    BY <1>3, <2>4, WholeType
  <2>11. QED
    BY <2>7, <2>8, <2>9, <2>10, Assoc
<1>13. QED
  BY <1>1, <1>6, <1>11, <1>12 DEF Walked, Done, ToCome

(* by a component that is none or could not be read,                           *)
LEMMA WalkedInvalid ==
  ASSUME Typed, Places, Walked, NEW failed \in BOOLEAN, ComponentInvalid(failed)
  PROVE  Walked'
<1>1. /\ pc = "walk" /\ pc' = "walk" /\ components # <<>> /\ components' = Tail(components)
      /\ failed \/ target.memory[This.baseAddr].class = "invalid"
      /\ unread' = IF failed THEN unread \cup {<<This.baseAddr, "registers">>} ELSE unread
      /\ UNCHANGED <<target, myAccessPorts, ap, extracted>>
  BY DEF ComponentInvalid, Memory
<1>2. This \in ComponentSet /\ Tail(components) \in Seq(ComponentSet)
  BY <1>1, FirstType
<1>3. PICK c \in ComponentSet : c = This
  BY <1>2
<1>4. c.baseAddr \notin Seen
  <2>1. This = components[1] /\ 1 \in DOMAIN components
    BY <1>1 DEF This, Typed
  <2>2. QED
    BY <1>1, <1>3, <2>1 DEF Places
<1>5. Seen \subseteq Seen' /\ Bases' = Bases
  BY <1>1 DEF Seen, Bases
<1>6. ASSUME NEW U, NEW F, Compatible(U)', IsTree(target, U, F)
      PROVE  Whole(F, Bases) = extracted \o Whole(F, Tail(components))
  <2>1. Compatible(U)
    <3>1. unread \subseteq U
      BY <1>1, <1>6 DEF Compatible
    <3>2. ASSUME NEW b \in Seen, NEW part \in Parts, <<b, part>> \in U, <<b, part>> \notin unread
          PROVE  FALSE
      <4>1. <<b, part>> \in unread'
        BY <1>1, <1>5, <1>6, <3>2 DEF Compatible
      <4>2. <<b, part>> = <<c.baseAddr, "registers">>
        BY <1>1, <1>3, <3>2, <4>1
      <4>3. QED
        BY <1>4, <4>2
    <3>3. QED
      BY <1>1, <3>1, <3>2 DEF Compatible
  <2>2. Whole(F, Bases) = extracted \o Whole(F, components)
    BY <1>1, <1>6, <2>1 DEF Walked, Done, ToCome
  <2>3. F \in Trees /\ target \in Targets
    BY <1>6, TreeType DEF Typed
  <2>4. target.memory[c.baseAddr].class = "invalid" \/ <<c.baseAddr, "registers">> \in U
    BY <1>1, <1>3, <1>6 DEF Compatible
  <2>5. F[c.depth][c.baseAddr] = <<>>
    BY <1>6, <2>3, <2>4, AtInvalid
  <2>6. Whole(F, components) = <<>> \o Whole(F, Tail(components))
    BY <1>1, <1>3, <2>3, <2>5, WholeFirst DEF Typed, This
  <2>7. Whole(F, Tail(components)) \in Seq(ShownSet)
    BY <1>2, <2>3, WholeType
  <2>8. Whole(F, components) = Whole(F, Tail(components))
    BY <2>6, <2>7
  <2>9. QED
    BY <2>2, <2>8
<1>7. QED
  BY <1>1, <1>5, <1>6 DEF Walked, Done, ToCome

(* and by a table whose entries were read or not.                              *)
LEMMA WalkedTable ==
  ASSUME Typed, Phases, Places, Walked, extractROMtable \/ TableFails
  PROVE  Walked'
<1>1. /\ pc = "table" /\ pc' = "walk"
      /\ UNCHANGED <<target, myAccessPorts, ap, extracted>>
      /\ \/ components' = Listed(This, target.memory[This.baseAddr]) \o Tail(components) /\ unread' = unread
         \/ components' = Tail(components) /\ unread' = unread \cup {<<This.baseAddr, "entries">>}
  BY DEF extractROMtable, TableFails, Memory
<1>2. /\ components # <<>> /\ extracted # <<>> /\ target.memory[This.baseAddr].class = "ROM"
      /\ extracted[Len(extracted)] = Shown(This, <<>>)
  BY <1>1 DEF Phases, Memory
<1>3. /\ This \in ComponentSet /\ This.baseAddr \in PageNumbers /\ Tail(components) \in Seq(ComponentSet)
      /\ This.depth <= target.depth[This.baseAddr]
  BY <1>2, FirstType
<1>4. PICK c \in ComponentSet : c = This
  BY <1>3
<1>5. PICK T \in Seq(ComponentSet) : T = Tail(components)
  BY <1>3
<1>6. c.baseAddr \in Seen
  <2>1. PICK m \in Nat : m = Len(extracted) /\ m \in DOMAIN extracted
    BY <1>2 DEF Typed
  <2>2. extracted[m].component.baseAddr = c.baseAddr
    BY <1>2, <1>4, <2>1 DEF Shown
  <2>3. QED
    BY <1>2, <1>3, <1>4, <2>1, <2>2 DEF Seen, Valid
<1>7. \A part : <<c.baseAddr, part>> \notin unread
  <2>1. This = components[1] /\ 1 \in DOMAIN components
    BY <1>2 DEF This, Typed
  <2>2. \A y \in unread : y[1] # c.baseAddr
    BY <1>4, <1>6, <2>1 DEF Places
  <2>3. QED
    BY <2>2
<1>8. Seen \subseteq Seen' /\ Bases' = Bases /\ unread \subseteq unread'
  BY <1>1 DEF Seen, Bases
<1>9. ASSUME NEW U, NEW F, Compatible(U)', IsTree(target, U, F)
      PROVE  Whole(F, Bases) = extracted \o
               ((IF <<c.baseAddr, "entries">> \in U THEN <<>> ELSE Inside(target, F, c.depth, c.baseAddr))
                 \o Whole(F, T))
  <2>1. unread \subseteq U
    BY <1>8, <1>9 DEF Compatible
  <2>2. ASSUME NEW b \in Seen, NEW part \in Parts, <<b, part>> \in U, <<b, part>> \notin unread
        PROVE  b = This.baseAddr /\ part = "entries"
    <3>1. <<b, part>> \in unread'
      BY <1>1, <1>8, <1>9, <2>2 DEF Compatible
    <3>2. <<b, part>> = <<This.baseAddr, "entries">>
      BY <1>1, <2>2, <3>1
    <3>3. QED
      BY <3>2
  <2>3. Compatible(U)
    BY <1>1, <2>1, <2>2 DEF Compatible
  <2>4. QED
    BY <1>1, <1>4, <1>5, <1>9, <2>3 DEF Walked, Done, ToCome
<1>10. CASE components' = Tail(components) /\ unread' = unread \cup {<<This.baseAddr, "entries">>}
  <2>1. ASSUME NEW U, NEW F, Compatible(U)', IsTree(target, U, F)
        PROVE  Whole(F, Bases) = extracted \o Whole(F, T)
    <3>1. <<c.baseAddr, "entries">> \in U
      BY <1>4, <1>10, <2>1 DEF Compatible
    <3>2. Whole(F, Bases) = extracted \o (<<>> \o Whole(F, T))
      BY <1>9, <2>1, <3>1
    <3>3. F \in Trees
      BY <2>1, TreeType DEF Typed
    <3>4. Whole(F, T) \in Seq(ShownSet)
      BY <3>3, WholeType
    <3>5. <<>> \o Whole(F, T) = Whole(F, T)
      BY <3>4
    <3>6. QED
      BY <3>2, <3>5
  <2>2. QED
    BY <1>1, <1>5, <1>8, <1>10, <2>1 DEF Walked, Done, ToCome
<1>11. CASE components' = Listed(This, target.memory[This.baseAddr]) \o Tail(components) /\ unread' = unread
  <2>1. PICK L : L = Listed(c, target.memory[c.baseAddr])
    OBVIOUS
  <2>2. target \in Targets /\ target.memory[c.baseAddr].class = "ROM" /\ c.depth <= target.depth[c.baseAddr]
    BY <1>2, <1>3, <1>4 DEF Typed
  <2>3. L \in Seq(ComponentSet) /\ \A F \in Trees : Whole(F, L) = Inside(target, F, c.depth, c.baseAddr)
    BY <2>1, <2>2, ListedRight
  <2>4. components' = L \o T
    BY <1>4, <1>5, <1>11, <2>1
  <2>5. ASSUME NEW U, NEW F, Compatible(U)', IsTree(target, U, F)
        PROVE  Whole(F, Bases) = extracted \o Whole(F, components')
    <3>1. <<c.baseAddr, "entries">> \notin U
      BY <1>1, <1>6, <1>7, <1>8, <1>11, <2>5 DEF Compatible, Parts
    <3>2. F \in Trees
      BY <2>2, <2>5, TreeType
    <3>3. Whole(F, L \o T) = Whole(F, L) \o Whole(F, T)
      BY <2>3, <3>2, WholeCat
    <3>4. Whole(F, L) = Inside(target, F, c.depth, c.baseAddr)
      BY <2>3, <3>2
    <3>5. QED
      BY <1>9, <2>4, <2>5, <3>1, <3>3, <3>4
  <2>6. QED
    BY <1>1, <1>8, <2>5 DEF Walked, Done, ToCome
<1>12. QED
  BY <1>1, <1>10, <1>11

-----------------------------------------------------------------------------
(* The reference is met when the walk ends. *)

(* What WalkComplete asks for.                                                 *)
Shows ==
  extracted = IF reply < 0 \/ ap = 0 THEN <<>>
              ELSE FlattenSeq([k \in DOMAIN FirstOf(target.aps, MaxAPs) |-> Below[0][target.aps[k]]])

(* At the end of the walk nothing is to come.                                  *)
LEMMA Complete ==
  ASSUME Typed, Phases, Walked, pc = "walk", components = <<>>, ap = Len(myAccessPorts)
  PROVE  Shows
<1>1. reply = 0 /\ (Len(myAccessPorts) = MaxAPs \/ Len(myAccessPorts) = Len(target.aps))
  BY DEF Phases
<1>2. Compatible(unread)
  BY DEF Compatible
<1>3. IsTree(target, unread, Below)
  BY BelowTree
<1>4. Whole(Below, Bases) = extracted \o Whole(Below, components)
  BY <1>2, <1>3 DEF Walked, Done, ToCome
<1>5. Whole(Below, Bases) = extracted
  <2>1. Whole(Below, components) = <<>>
    BY WholeNone
  <2>2. extracted \o <<>> = extracted
    BY DEF Typed
  <2>3. QED
    BY <1>4, <2>1, <2>2
<1>6. PICK n \in Nat : n = Len(target.aps) /\ target.aps \in Seq(PageNumbers)
  BY TargetsAssumption DEF Typed
<1>7. Min({MaxAPs, n}) = ap /\ ap \in Nat /\ ap <= n
  <2>1. ap \in Nat /\ ap <= MaxAPs /\ ap <= n /\ (ap = MaxAPs \/ ap = n)
    BY <1>1, <1>6 DEF Typed
  <2>2. QED
    BY <2>1, SizesAssumption DEF Min
<1>8. DOMAIN FirstOf(target.aps, MaxAPs) = 1 .. ap
  BY <1>6, <1>7 DEF FirstOf
<1>9. \A k \in 1 .. ap : myAccessPorts[k] = target.aps[k]
  BY DEF Typed
<1>10. BelowEach(Below, Bases) = [k \in DOMAIN FirstOf(target.aps, MaxAPs) |-> Below[0][target.aps[k]]]
  <2>1. DOMAIN Bases = 1 .. ap
    BY DEF Bases
  <2>2. \A k \in 1 .. ap : Bases[k].depth = 0 /\ Bases[k].baseAddr = target.aps[k]
    BY <1>9 DEF Bases, Component
  <2>3. QED
    BY <1>8, <2>1, <2>2 DEF BelowEach
<1>11. ap = 0 => extracted = <<>>
  <2>1. ap = 0 => Bases = <<>>
    BY DEF Bases
  <2>2. QED
    BY <1>5, <2>1, WholeNone
<1>12. QED
  BY <1>1, <1>5, <1>10, <1>11 DEF Shows, Whole

BelowDefined == Below = CHOOSE F : IsTree(target, unread, F)

(* The reference changes only with the target and the failed reads.            *)
LEMMA ShowsStays ==
  ASSUME UNCHANGED <<target, reply, ap, extracted, unread>>, Shows
  PROVE  Shows'
<1>1. BelowDefined
  BY BelowIs DEF BelowDefined
<1>2. BelowDefined'
  BY BelowIs, PTL DEF BelowDefined
<1>3. Below' = Below
  BY <1>1, <1>2 DEF BelowDefined
<1>4. QED
  BY <1>3 DEF Shows

(* The inductive invariant.                                                    *)
Invariant == Typed /\ Phases /\ Places /\ Walked /\ (pc = "idle" => Shows)

(* When -info ends it has shown what the reference says of the target, for any      *)
(* target whose tables are a tree and any reads that fail (detectSystem(),           *)
(* extractComponent(), extractROMtable(), extractSCScomponent()).                    *)
THEOREM WalkedRight == Spec => []WalkComplete
<1>1. Init => Invariant
  <2> SUFFICES ASSUME Init PROVE Invariant
    OBVIOUS
  <2>1. Walked /\ Shows
    BY DEF Init, Walked, Shows
  <2>2. QED
    BY <2>1, TypedInit, PlacesInit DEF Invariant
<1>2. ASSUME Invariant, [Next]_vars PROVE Invariant'
  <2>1. Typed /\ Phases /\ Places /\ Walked
    BY <1>2 DEF Invariant
  <2>2. Typed' /\ Phases'
    BY <1>2, <2>1, TypedStep
  <2>3. Places'
    BY <1>2, <2>1, <2>2, PlacesStep
  <2>4. Walked'
    <3>1. CASE pc' \notin {"walk", "table", "scs"}
      BY <3>1 DEF Walked
    <3>2. CASE ScanAP
      BY <2>1, <3>1, <3>2, WalkedScan DEF ScanAP
    <3>3. CASE extractAccessPort
      BY <2>1, <2>2, <3>3, WalkedAccessPort
    <3>4. CASE extractComponent
      BY <2>1, <2>2, <3>4, WalkedComponent
    <3>5. CASE \E f \in BOOLEAN : extractSCScomponent(f)
      BY <2>1, <2>2, <3>5, WalkedScs
    <3>6. CASE \E failed \in BOOLEAN : ComponentInvalid(failed)
      BY <2>1, <3>6, WalkedInvalid
    <3>7. CASE extractROMtable \/ TableFails
      BY <2>1, <3>7, WalkedTable
    <3>8. CASE detectSystem \/ ReadIDCODE \/ DetectFails \/ DetectReturns
      BY <3>1, <3>8, Zenon DEF detectSystem, ReadIDCODE, DetectFails, DetectReturns
    <3>9. CASE UNCHANGED vars
      BY <2>1, <3>9 DEF vars, walk, Walked, Compatible, Seen, Bases, Done, ToCome, This
    <3>10. QED
      BY <1>2, <3>2, <3>3, <3>4, <3>5, <3>6, <3>7, <3>8, <3>9 DEF Next, Running, Failing
  <2>5. pc' = "idle" => Shows'
    <3>1. CASE DetectFails
      <4>1. extracted' = <<>> /\ reply' < 0
        BY <2>1, <3>1 DEF DetectFails, Phases, walk, Typed
      <4>2. QED
        BY <4>1 DEF Shows
    <3>2. CASE DetectReturns
      <4>1. Shows
        BY <2>1, <3>2, Complete DEF DetectReturns
      <4>2. QED
        BY <3>2, <4>1, ShowsStays DEF DetectReturns, walk
    <3>3. CASE UNCHANGED vars
      <4>1. UNCHANGED <<target, pc, reply, ap, extracted, unread>>
        BY <3>3 DEF vars, walk
      <4>2. QED
        BY <1>2, <4>1, ShowsStays DEF Invariant
    <3>4. CASE ~DetectFails /\ ~DetectReturns /\ Next
      <4>1. pc' # "idle"
        BY <2>1, <3>4 DEF Next, Running, Failing, detectSystem, ReadIDCODE, ScanAP, extractAccessPort,
           extractComponent, extractROMtable, ComponentInvalid, extractSCScomponent, TableFails
      <4>2. QED
        BY <4>1
    <3>5. QED
      BY <1>2, <3>1, <3>2, <3>3, <3>4
  <2>6. QED
    BY <2>2, <2>3, <2>4, <2>5 DEF Invariant
<1>3. Invariant => WalkComplete
  BY DEF Invariant, Shows, WalkComplete
<1>4. QED
  BY <1>1, <1>2, <1>3, PTL DEF Spec
==================================================================================
