---------------------------- MODULE SWDPI_SWD_proofs ----------------------------
(***************************************************************************)
(* Proofs about transfers on the wire, for data words of up to 41 bits, any  *)
(* number of tries and any length of the line reset up to 59: first the      *)
(* target on its own, then the sequence that connects, then host and target  *)
(* in step through a transfer.                                               *)
(***************************************************************************)
EXTENDS SWDPI_SWD, TLAPS

USE NumbersAssumption, SizesAssumption

-----------------------------------------------------------------------------
(* The target *)

Bit == {0, 1}
States == {"idle", "header", "turn", "ack", "rdata", "turnback", "wdata", "lost"}

(* How many bits the target has of the place it is at. *)
Collected(t) ==
  CASE t.state = "header" -> Len(t.got) \in 1..7
    [] t.state = "ack"    -> Len(t.got) \in 0..2
    [] t.state = "rdata"  -> Len(t.got) \in 0..DataBits /\ t.ack = 1 /\ Reading(t.cmd)
    [] t.state = "wdata"  -> Len(t.got) \in 0..DataBits /\ t.ack = 1 /\ ~Reading(t.cmd)
    [] OTHER              -> t.got = <<>>

Target(t) ==
  /\ t \in [state : States, got : Seq(Bit), cmd : Bits(8), ack : {1, 2, 4}, word : Bits(DataBits)]
  /\ Collected(t)

LineTypes ==
  /\ Target(target)
  /\ ones \in 0..ResetOnes
  /\ ones = ResetOnes => target = IdleTarget

LEMMA Least ==
  ASSUME NEW x \in Nat, NEW y \in Nat
  PROVE  Min({x, y}) = IF x <= y THEN x ELSE y
  BY DEF Min

LEMMA Greatest ==
  ASSUME NEW x \in Nat, NEW y \in Nat
  PROVE  Max({x, y}) = IF x <= y THEN y ELSE x
  BY DEF Max

LEMMA Appended ==
  ASSUME NEW s \in Seq(Bit), NEW b \in Bit
  PROVE  /\ Append(s, b) \in Seq(Bit) /\ Len(Append(s, b)) = Len(s) + 1 /\ Len(s) \in Nat
         /\ \A k \in 1..Len(s) : Append(s, b)[k] = s[k]
         /\ Append(s, b)[Len(s) + 1] = b
  OBVIOUS

LEMMA Whole ==
  ASSUME NEW m \in Nat, NEW s \in Seq(Bit), Len(s) = m
  PROVE  s \in Bits(m)
  BY DEF Bits, Bit

LEMMA Idle == Target(IdleTarget) /\ IdleTarget.state = "idle" /\ IdleTarget.got = <<>>
<1>1. Zero \in Bits(DataBits) /\ ABORT_CMD \in Bits(8)
  BY CmdsAssumption DEF Zero, Bits
<1>2. <<>> \in Seq(Bit) /\ Len(<<>>) = 0
  OBVIOUS
<1>3. QED
  BY <1>1, <1>2 DEF Target, IdleTarget, Collected, States

(* The bit the target drives is a bit. *)
LEMMA DrivenBit ==
  ASSUME Target(target), target.state = "ack" \/ (target.state = "rdata" /\ Len(target.got) < DataBits)
  PROVE  /\ TargetBit \in Bit
         /\ target.state = "ack" =>
              TargetBit = CASE Len(target.got) = 0 -> target.ack % 2
                            [] Len(target.got) = 1 -> (target.ack \div 2) % 2
                            [] Len(target.got) = 2 -> target.ack \div 4
         /\ target.state = "rdata" => TargetBit = target.word[Len(target.got) + 1]
<1>1. target.ack \in {1, 2, 4} /\ Collected(target) /\ target.word \in Bits(DataBits) /\ target.got \in Seq(Bit)
  BY DEF Target
<1>2. CASE target.state = "ack"
  <2>1. PICK j \in 0..2 : j = Len(target.got)
    BY <1>1, <1>2 DEF Collected
  <2>2. j = 0 \/ j = 1 \/ j = 2
    BY <2>1
  <2>3. TargetBit = <<target.ack % 2, (target.ack \div 2) % 2, target.ack \div 4>>[j + 1]
    BY <1>2, <2>1 DEF TargetBit
  <2>4. /\ j = 0 => TargetBit = target.ack % 2
        /\ j = 1 => TargetBit = (target.ack \div 2) % 2
        /\ j = 2 => TargetBit = target.ack \div 4
    <3>1. 0 + 1 = 1 /\ 1 + 1 = 2 /\ 2 + 1 = 3
      OBVIOUS
    <3>2. QED
      BY <2>3, <3>1
  <2>5. target.ack % 2 \in Bit /\ (target.ack \div 2) % 2 \in Bit /\ target.ack \div 4 \in Bit
    BY <1>1 DEF Bit
  <2>6. TargetBit \in Bit
    BY <2>2, <2>4, <2>5
  <2>7. QED
    BY <1>2, <2>1, <2>2, <2>4, <2>6
<1>3. CASE target.state = "rdata" /\ Len(target.got) < DataBits
  <2>1. PICK k \in 1..DataBits : k = Len(target.got) + 1
    BY <1>1, <1>3
  <2>2. TargetBit = target.word[k]
    BY <1>3, <2>1 DEF TargetBit
  <2>3. QED
    BY <1>1, <1>3, <2>1, <2>2 DEF Bits, Bit
<1>4. QED
  BY <1>2, <1>3

(* What a cycle without a line reset does to the target. *)
Cycled(t, t2, l) ==
  CASE t.state = "idle" -> IF l = 1 THEN t2.state = "header" /\ Len(t2.got) = 1 /\ t2.got[1] = 1 ELSE t2 = t
    [] t.state = "header" ->
         LET h == Append(t.got, l) IN
         IF Len(h) < 8 THEN t2.state = "header" /\ t2.got = h
         ELSE IF Valid(h) THEN t2.state = "turn" /\ t2.cmd = h /\ t2.ack \in Acks
                               /\ (t2.ack = 1 /\ Reading(h) => t2.word \in Words)
         ELSE t2.state = "lost"
    [] t.state = "turn" -> t2.state = "ack" /\ Len(t2.got) = 0
    [] t.state = "ack" ->
         IF Len(t.got) < 2 THEN t2.state = "ack" /\ Len(t2.got) = Len(t.got) + 1
         ELSE IF t.ack = 1 /\ Reading(t.cmd) THEN t2.state = "rdata" /\ Len(t2.got) = 0
         ELSE t2.state = "turnback"
    [] t.state = "rdata" ->
         IF Len(t.got) < DataBits THEN t2.state = "rdata" /\ Len(t2.got) = Len(t.got) + 1 ELSE t2.state = "turnback"
    [] t.state = "turnback" ->
         IF t.ack = 1 /\ ~Reading(t.cmd) THEN t2.state = "wdata" /\ Len(t2.got) = 0 ELSE t2.state = "idle"
    [] t.state = "wdata" ->
         IF Len(t.got) < DataBits THEN t2.state = "wdata" /\ t2.got = Append(t.got, l) ELSE t2.state = "idle"
    [] t.state = "lost" -> t2.state = "lost"

LEMMA Becoming ==
  ASSUME Target(target), NEW s \in States, Become(s),
         s \in {"ack", "idle", "turnback", "lost"} \/ (s = "rdata" /\ target.ack = 1 /\ Reading(target.cmd))
           \/ (s = "wdata" /\ target.ack = 1 /\ ~Reading(target.cmd))
  PROVE  /\ Target(target') /\ target'.state = s /\ target'.got = <<>> /\ Len(target'.got) = 0
         /\ target'.cmd = target.cmd /\ target'.ack = target.ack /\ target'.word = target.word
<1>0. <<>> \in Seq(Bit) /\ Len(<<>>) = 0
  OBVIOUS
<1>1. PICK e : e = <<>> /\ e \in Seq(Bit) /\ Len(e) = 0
  BY <1>0, Zenon
<1>2. target' = [target EXCEPT !.state = s, !.got = e]
  BY <1>1 DEF Become
<1>3. target \in [state : States, got : Seq(Bit), cmd : Bits(8), ack : {1, 2, 4}, word : Bits(DataBits)]
  BY DEF Target
<1>4. /\ target' \in [state : States, got : Seq(Bit), cmd : Bits(8), ack : {1, 2, 4}, word : Bits(DataBits)]
      /\ target'.state = s /\ target'.got = e
      /\ target'.cmd = target.cmd /\ target'.ack = target.ack /\ target'.word = target.word
  BY <1>1, <1>2, <1>3
<1>5. Collected(target')
  <2>1. Len(target'.got) \in 0..2 /\ Len(target'.got) \in 0..DataBits
    BY <1>1, <1>4
  <2>2. QED
    BY <1>1, <1>4, <2>1 DEF Collected
<1>6. QED
  BY <1>1, <1>4, <1>5 DEF Target

LEMMA Collecting ==
  ASSUME Target(target), NEW b \in Bit, Collect(b),
         \/ target.state = "header" /\ Len(target.got) < 7
         \/ target.state = "ack" /\ Len(target.got) < 2
         \/ target.state \in {"rdata", "wdata"} /\ Len(target.got) < DataBits
  PROVE  /\ Target(target') /\ target'.state = target.state /\ target'.got = Append(target.got, b)
         /\ Len(target'.got) = Len(target.got) + 1
         /\ target'.cmd = target.cmd /\ target'.ack = target.ack /\ target'.word = target.word
<1>1. target \in [state : States, got : Seq(Bit), cmd : Bits(8), ack : {1, 2, 4}, word : Bits(DataBits)]
  BY DEF Target
<1>2. /\ Append(target.got, b) \in Seq(Bit) /\ Len(Append(target.got, b)) = Len(target.got) + 1
      /\ Len(target.got) \in Nat
  BY <1>1, Appended
<1>3. PICK g \in Seq(Bit), j \in Nat : g = Append(target.got, b) /\ j = Len(target.got) /\ Len(g) = j + 1
  BY <1>2, Zenon
<1>4. target' = [target EXCEPT !.got = g]
  BY <1>3 DEF Collect
<1>5. /\ target' \in [state : States, got : Seq(Bit), cmd : Bits(8), ack : {1, 2, 4}, word : Bits(DataBits)]
      /\ target'.state = target.state /\ target'.got = g
      /\ target'.cmd = target.cmd /\ target'.ack = target.ack /\ target'.word = target.word
  BY <1>1, <1>4
<1>6. Collected(target')
  <2>1. CASE target.state = "header" /\ j < 7
    <3>1. j + 1 \in 1..7
      BY <2>1
    <3>2. QED
      BY <1>3, <1>5, <2>1, <3>1 DEF Collected
  <2>2. CASE target.state = "ack" /\ j < 2
    <3>1. j + 1 \in 0..2
      BY <2>2
    <3>2. QED
      BY <1>3, <1>5, <2>2, <3>1 DEF Collected
  <2>3. CASE target.state \in {"rdata", "wdata"} /\ j < DataBits
    <3>1. j + 1 \in 0..DataBits
      BY <2>3
    <3>2. Collected(target)
      BY DEF Target
    <3>3. QED
      BY <1>3, <1>5, <2>3, <3>1, <3>2 DEF Collected
  <2>4. QED
    BY <1>3, <2>1, <2>2, <2>3
<1>7. QED
  BY <1>3, <1>5, <1>6 DEF Target

(* What the target performs in such a cycle. *)
Performed(l) ==
  IF target.state = "rdata" /\ ~(Len(target.got) < DataBits)
    THEN performed' = Append(performed, [cmd |-> target.cmd, word |-> target.word])
  ELSE IF target.state = "wdata" /\ ~(Len(target.got) < DataBits) /\ Ones(target.got) % 2 = l
    THEN performed' = Append(performed, [cmd |-> target.cmd, word |-> target.got])
  ELSE performed' = performed

(* A place is left with its command, answer and word. *)
Kept(t, t2) == t2.cmd = t.cmd /\ t2.ack = t.ack /\ t2.word = t.word

LEMMA Steps ==
  ASSUME Target(target), NEW l \in Bit,
         \/ TargetIdle(l) \/ TargetHeader(l) \/ TargetTurns \/ TargetAck
         \/ TargetSends \/ TargetReceives(l) \/ TargetLost
  PROVE  /\ Target(target') /\ Cycled(target, target', l) /\ Performed(l)
         /\ target.state # "header" => Kept(target, target')
<1>1. /\ target \in [state : States, got : Seq(Bit), cmd : Bits(8), ack : {1, 2, 4}, word : Bits(DataBits)]
      /\ Collected(target)
  BY DEF Target
<1>2. PICK j \in Nat : j = Len(target.got)
  BY <1>1
<1>3. CASE TargetIdle(l)
  <2>1. target.state = "idle" /\ performed' = performed
    BY <1>3 DEF TargetIdle
  <2>2. CASE l = 1
    <3>0. <<1>> \in Seq(Bit) /\ Len(<<1>>) = 1 /\ <<1>>[1] = 1
      BY DEF Bit
    <3>1. PICK e : e = <<1>> /\ e \in Seq(Bit) /\ Len(e) = 1 /\ e[1] = 1
      BY <3>0, Zenon
    <3>2. target' = [target EXCEPT !.state = "header", !.got = e]
      BY <1>3, <2>2, <3>1 DEF TargetIdle
    <3>3. /\ target' \in [state : States, got : Seq(Bit), cmd : Bits(8), ack : {1, 2, 4}, word : Bits(DataBits)]
          /\ target'.state = "header" /\ target'.got = e /\ Kept(target, target')
      BY <1>1, <3>1, <3>2 DEF States, Kept
    <3>4. Len(e) \in 1..7
      BY <3>1
    <3>5. QED
      BY <2>1, <2>2, <3>1, <3>3, <3>4 DEF Target, Collected, Cycled, Performed
  <2>3. CASE l # 1
    <3>1. target' = target
      BY <1>3, <2>3 DEF TargetIdle
    <3>2. QED
      BY <2>1, <2>3, <3>1 DEF Cycled, Performed, Kept
  <2>4. QED
    BY <2>2, <2>3
<1>4. CASE TargetHeader(l)
  <2>1. target.state = "header" /\ performed' = performed /\ j \in 1..7
    BY <1>1, <1>2, <1>4 DEF TargetHeader, Collected
  <2>2. PICK h : h = Append(target.got, l) /\ h \in Seq(Bit) /\ Len(h) = j + 1
    <3>1. Append(target.got, l) \in Seq(Bit) /\ Len(Append(target.got, l)) = j + 1
      BY <1>1, <1>2, Appended
    <3>2. QED
      BY <3>1, Zenon
  <2>3. CASE Len(h) < 8 /\ Collect(l)
    <3>1. Len(target.got) < 7
      BY <1>2, <2>1, <2>2, <2>3
    <3>2. Target(target') /\ target'.state = "header" /\ target'.got = h
      BY <2>1, <2>2, <2>3, <3>1, Collecting
    <3>3. QED
      BY <2>1, <2>2, <2>3, <3>2 DEF Cycled, Performed
  <2>4. CASE Len(h) = 8 /\ ~Valid(h) /\ Become("lost")
    <3>1. Target(target') /\ target'.state = "lost"
      BY <2>4, Becoming DEF States
    <3>2. ~(Len(h) < 8)
      BY <2>4
    <3>3. QED
      BY <2>1, <2>2, <2>4, <3>1, <3>2 DEF Cycled, Performed
  <2>5. CASE /\ Len(h) = 8 /\ Valid(h)
             /\ \E a \in Acks : \E w \in IF a = 1 /\ Reading(h) THEN Words ELSE {Zero} :
                  target' = [state |-> "turn", got |-> <<>>, cmd |-> h, ack |-> a, word |-> w]
    <3>1. PICK a, w : /\ a \in Acks
                      /\ w \in IF a = 1 /\ Reading(h) THEN Words ELSE {Zero}
                      /\ target' = [state |-> "turn", got |-> <<>>, cmd |-> h, ack |-> a, word |-> w]
      BY <2>5
    <3>2. a \in {1, 2, 4} /\ h \in Bits(8)
      BY <2>2, <2>5, <3>1, AcksAssumption, Whole
    <3>3. w \in Bits(DataBits)
      <4>1. Zero \in Bits(DataBits)
        BY Idle DEF Target, IdleTarget
      <4>2. QED
        BY <3>1, <4>1, WordsAssumption
    <3>4. <<>> \in Seq(Bit)
      OBVIOUS
    <3>5. Target(target')
      BY <3>1, <3>2, <3>3, <3>4 DEF Target, Collected, States
    <3>6. ~(Len(h) < 8)
      BY <2>5
    <3>7. /\ target'.state = "turn" /\ target'.cmd = h /\ target'.ack \in Acks
          /\ (target'.ack = 1 /\ Reading(h) => target'.word \in Words)
      BY <3>1
    <3>8. QED
      BY <2>1, <2>2, <2>5, <3>5, <3>6, <3>7 DEF Cycled, Performed
  <2>6. QED
    BY <1>4, <2>2, <2>3, <2>4, <2>5 DEF TargetHeader
<1>5. CASE TargetTurns
  <2>1. CASE target.state = "turn" /\ Become("ack")
    <3>1. Target(target') /\ target'.state = "ack" /\ Len(target'.got) = 0 /\ Kept(target, target')
      BY <2>1, Becoming DEF States, Kept
    <3>2. QED
      BY <1>5, <2>1, <3>1 DEF Cycled, Performed, TargetTurns
  <2>2. CASE /\ target.state = "turnback"
             /\ Become(IF target.ack = 1 /\ ~Reading(target.cmd) THEN "wdata" ELSE "idle")
    <3>1. CASE target.ack = 1 /\ ~Reading(target.cmd)
      <4>1. Become("wdata")
        BY <2>2, <3>1
      <4>2. Target(target') /\ target'.state = "wdata" /\ Len(target'.got) = 0 /\ Kept(target, target')
        BY <3>1, <4>1, Becoming DEF States, Kept
      <4>3. QED
        BY <1>5, <2>2, <3>1, <4>2 DEF Cycled, Performed, TargetTurns
    <3>2. CASE ~(target.ack = 1 /\ ~Reading(target.cmd))
      <4>1. Become("idle")
        BY <2>2, <3>2
      <4>2. Target(target') /\ target'.state = "idle" /\ Kept(target, target')
        BY <4>1, Becoming DEF States, Kept
      <4>3. QED
        BY <1>5, <2>2, <3>2, <4>2 DEF Cycled, Performed, TargetTurns
    <3>3. QED
      BY <3>1, <3>2
  <2>3. QED
    BY <1>5, <2>1, <2>2 DEF TargetTurns
<1>6. CASE TargetAck
  <2>1. target.state = "ack" /\ performed' = performed /\ j \in 0..2
    BY <1>1, <1>2, <1>6 DEF TargetAck, Collected
  <2>2. CASE Len(target.got) < 2
    <3>1. Collect(TargetBit) /\ TargetBit \in Bit
      BY <1>6, <2>1, <2>2, DrivenBit DEF TargetAck
    <3>2. Target(target') /\ target'.state = "ack" /\ Len(target'.got) = Len(target.got) + 1 /\ Kept(target, target')
      BY <2>1, <2>2, <3>1, Collecting DEF Kept
    <3>3. QED
      BY <2>1, <2>2, <3>2 DEF Cycled, Performed
  <2>3. CASE ~(Len(target.got) < 2) /\ target.ack = 1 /\ Reading(target.cmd)
    <3>1. Become("rdata")
      BY <1>6, <2>3 DEF TargetAck
    <3>2. Target(target') /\ target'.state = "rdata" /\ Len(target'.got) = 0 /\ Kept(target, target')
      BY <2>3, <3>1, Becoming DEF States, Kept
    <3>3. QED
      BY <2>1, <2>3, <3>2 DEF Cycled, Performed
  <2>4. CASE ~(Len(target.got) < 2) /\ ~(target.ack = 1 /\ Reading(target.cmd))
    <3>1. Become("turnback")
      BY <1>6, <2>4 DEF TargetAck
    <3>2. Target(target') /\ target'.state = "turnback" /\ Kept(target, target')
      BY <3>1, Becoming DEF States, Kept
    <3>3. QED
      BY <2>1, <2>4, <3>2 DEF Cycled, Performed
  <2>5. QED
    BY <2>2, <2>3, <2>4
<1>7. CASE TargetSends
  <2>1. target.state = "rdata"
    BY <1>7 DEF TargetSends
  <2>2. CASE Len(target.got) < DataBits
    <3>1. Collect(TargetBit) /\ TargetBit \in Bit /\ performed' = performed
      BY <1>7, <2>1, <2>2, DrivenBit DEF TargetSends
    <3>2. Target(target') /\ target'.state = "rdata" /\ Len(target'.got) = Len(target.got) + 1 /\ Kept(target, target')
      BY <2>1, <2>2, <3>1, Collecting DEF Kept
    <3>3. QED
      BY <2>1, <2>2, <3>1, <3>2 DEF Cycled, Performed
  <2>3. CASE ~(Len(target.got) < DataBits)
    <3>1. Become("turnback") /\ Performs(target.word)
      BY <1>7, <2>3 DEF TargetSends
    <3>2. Target(target') /\ target'.state = "turnback" /\ Kept(target, target')
      BY <3>1, Becoming DEF States, Kept
    <3>3. QED
      BY <2>1, <2>3, <3>1, <3>2 DEF Cycled, Performed, Performs
  <2>4. QED
    BY <2>2, <2>3
<1>8. CASE TargetReceives(l)
  <2>1. target.state = "wdata"
    BY <1>8 DEF TargetReceives
  <2>2. CASE Len(target.got) < DataBits
    <3>1. Collect(l) /\ performed' = performed
      BY <1>8, <2>2 DEF TargetReceives
    <3>2. Target(target') /\ target'.state = "wdata" /\ target'.got = Append(target.got, l) /\ Kept(target, target')
      BY <2>1, <2>2, <3>1, Collecting DEF Kept
    <3>3. QED
      BY <2>1, <2>2, <3>1, <3>2 DEF Cycled, Performed
  <2>3. CASE ~(Len(target.got) < DataBits)
    <3>1. /\ Become("idle")
          /\ IF Ones(target.got) % 2 = l THEN Performs(target.got) ELSE UNCHANGED performed
      BY <1>8, <2>3 DEF TargetReceives
    <3>2. Target(target') /\ target'.state = "idle" /\ Kept(target, target')
      BY <3>1, Becoming DEF States, Kept
    <3>3. QED
      BY <2>1, <2>3, <3>1, <3>2 DEF Cycled, Performed, Performs
  <2>4. QED
    BY <2>2, <2>3
<1>9. CASE TargetLost
  BY <1>9 DEF TargetLost, Cycled, Performed, Kept
<1>10. QED
  BY <1>3, <1>4, <1>5, <1>6, <1>7, <1>8, <1>9

(* One cycle of the target, line reset included. *)
LEMMA Cycles ==
  ASSUME LineTypes, NEW l \in Bit, TargetCycle(l)
  PROVE  /\ LineTypes'
         /\ ones' = IF Driving \/ l = 0 THEN 0 ELSE IF ones + 1 <= ResetOnes THEN ones + 1 ELSE ResetOnes
         /\ ones' = ResetOnes => target' = IdleTarget /\ performed' = performed
         /\ ones' # ResetOnes => /\ Cycled(target, target', l) /\ Performed(l)
                                 /\ target.state # "header" => Kept(target, target')
<1>1. Target(target) /\ ones \in 0..ResetOnes
  BY DEF LineTypes
<1>2. ones' = IF Driving \/ l = 0 THEN 0 ELSE IF ones + 1 <= ResetOnes THEN ones + 1 ELSE ResetOnes
  <2>1. Min({ones + 1, ResetOnes}) = IF ones + 1 <= ResetOnes THEN ones + 1 ELSE ResetOnes
    BY <1>1, Least
  <2>2. QED
    BY <2>1 DEF TargetCycle, Counted
<1>3. ones' \in 0..ResetOnes
  BY <1>1, <1>2
<1>4. CASE ones' = ResetOnes
  <2>1. target' = IdleTarget /\ performed' = performed
    BY <1>4 DEF TargetCycle, TargetReset
  <2>2. LineTypes'
    BY <1>3, <2>1, Idle DEF LineTypes
  <2>3. QED
    BY <1>2, <1>4, <2>1, <2>2
<1>5. CASE ones' # ResetOnes
  <2>1. \/ TargetIdle(l) \/ TargetHeader(l) \/ TargetTurns \/ TargetAck
        \/ TargetSends \/ TargetReceives(l) \/ TargetLost
    BY <1>5 DEF TargetCycle
  <2>2. /\ Target(target') /\ Cycled(target, target', l) /\ Performed(l)
        /\ target.state # "header" => Kept(target, target')
    BY <1>1, <2>1, Steps
  <2>3. LineTypes'
    BY <1>3, <1>5, <2>2 DEF LineTypes
  <2>4. QED
    BY <1>2, <1>5, <2>2, <2>3
<1>6. QED
  BY <1>4, <1>5
-----------------------------------------------------------------------------
(* The invariant *)

Transferring == job \in {"transfer", "ctrlstat", "abort"}

(* The phases of a job, and the last cycle of a phase. *)
Phases ==
  CASE job \in {"none", "ready"} -> {"idle"}
    [] job \in {"connect", "disconnect"} -> {"sequence", "done"}
    [] job = "ctrlstat" -> {"command", "turn2read", "ack", "receive", "turn2write", "done"}
    [] OTHER -> {"command", "turn2read", "ack", "waitturn", "receive", "turn2write", "send", "done"}

LastCycle ==
  CASE phase = "sequence" -> IF job = "connect" THEN 135 ELSE 7
    [] phase = "command" -> 7
    [] phase = "ack" -> 2
    [] phase = "receive" -> DataBits
    [] phase = "send" -> DataBits + 2
    [] OTHER -> 0

HostTypes ==
  /\ job \in {"none", "connect", "ready", "transfer", "ctrlstat", "abort", "disconnect"}
  /\ phase \in Phases /\ n \in 0..LastCycle
  /\ cmd \in Bits(8) /\ data \in Bits(DataBits)
  /\ ack \in 0..7 /\ abortcounter \in 0..MaxTries
  /\ stray \in BOOLEAN

(* What the locals hold in the phases that read them. *)
Locals ==
  /\ job = "transfer" => cmd \in Cmds /\ (~Reading(cmd) => data \in Words)
  /\ job = "ctrlstat" => cmd = CTRLSTAT_R_CMD
  /\ job = "abort" => cmd = ABORT_CMD
  /\ phase = "receive" => Reading(cmd)
  /\ phase = "send" => ~Reading(cmd)
  /\ phase \in {"command", "turn2read", "ack"} => abortcounter < MaxTries
  /\ phase = "waitturn" => ack = 2
  /\ phase = "ack" => (n = 1 => ack \in 0..1) /\ (n = 2 => ack \in 0..3)

Pin ==
  /\ pin \in {"input", "output"}
  /\ phase \in {"idle", "sequence", "command", "turn2read", "send", "done"} => pin = "output"
  /\ phase = "ack" \/ (phase = "receive" /\ ack # 2) => pin = "input"

(* m cycles with a one are enough to end whatever the target is doing.          *)
Ends(t, m) ==
  LET len == Len(t.got) IN
  CASE t.state = "idle" -> m >= 8
    [] t.state = "header" -> m >= DataBits + 15 \/ (m >= 8 - len /\ (len = 7 => t.got[7] = 1))
    [] t.state = "turn" -> m >= DataBits + 14
    [] t.state = "ack" -> m >= DataBits + 13 - len
    [] t.state = "rdata" -> m >= DataBits + 10 - len
    [] t.state = "turnback" -> m >= DataBits + 10 \/ (m >= 9 /\ ~(t.ack = 1 /\ ~Reading(t.cmd)))
    [] t.state = "wdata" -> m >= DataBits + 9 - len
    [] t.state = "lost" -> m >= 0

(* The sequence that connects, after n of its cycles: ones that end what the    *)
(* target is doing, two bytes that it takes for a malformed header or does not  *)
(* see, the ones of a line reset, and zeros.                                    *)
Lost == target.state = "lost"
Left(k) == IF k <= DataBits + 15 THEN DataBits + 15 - k ELSE 0
WasReset == target.state = "idle" /\ ones = ResetOnes

Switching ==
  /\ n <= 56 => WasReset \/ Ends(target, Left(n))
  /\ n = 57 => ones = 0 /\ (Lost \/ target.state = "idle")
  /\ n \in 58..64 => /\ ones <= n - 57 /\ (n = 63 => ones = 0) /\ (n = 64 => ones <= 1)
                     /\ Lost \/ /\ target.state = "header" /\ Len(target.got) = n - 57
                                /\ n = 64 => target.got[7] = 1
  /\ n \in 65..69 => Lost /\ ones <= n - 63 /\ (n >= 68 => ones = 0)
  /\ n \in 70..128 => IF n - 69 < ResetOnes THEN ones = n - 69 /\ Lost ELSE WasReset
  /\ n \in 129..135 => ones = 0 /\ target.state = "idle"

Quiet ==
  /\ target.state \in {"idle", "header", "lost"}
  /\ target.state = "header" /\ Len(target.got) = 7 => target.got[7] = 1

(* Between transfers.                                                            *)
Apart ==
  /\ job \in {"none", "disconnect"} /\ ~stray => target.state = "idle"
  /\ job = "ready" => ~stray /\ target.state = "idle" /\ ones = 0
  /\ job = "connect" =>
       /\ phase = "sequence" => Switching
       /\ phase = "done" => target.state = "idle" /\ ones = 0
       /\ ~stray => Quiet

(* Host and target in step, phase by phase, as long as no data word has gone     *)
(* astray.                                                                       *)
Answering == target.cmd = cmd /\ (job = "transfer" /\ target.ack = 1 /\ Reading(cmd) => target.word \in Words)

InStepCommand ==
  /\ ones <= n
  /\ n = 0 => target.state = "idle"
  /\ n > 0 => target.state = "header" /\ Len(target.got) = n /\ \A k \in 1..n : target.got[k] = cmd[k]

InStepTurn2Read == ones <= 8 /\ target.state = "turn" /\ Answering

InStepAck ==
  /\ ones = 0 /\ target.state = "ack" /\ Len(target.got) = n /\ Answering
  /\ n = 1 => ack = target.ack % 2
  /\ n = 2 => ack = target.ack % 4

InStepWait == ones = 0 /\ target.state = "turnback" /\ ack = 2 /\ target.ack = 2

InStepReceive ==
  /\ ones = 0
  /\ IF ack = 1 THEN /\ target.state = "rdata" /\ Len(target.got) = n /\ Answering
                     /\ \A k \in 1..n : k <= DataBits => data[k] = target.word[k]
     ELSE target.state = "idle" \/ (n = 0 /\ target.state = "turnback" /\ target.ack # 1)

InStepTurn2Write ==
  /\ ones = 0
  /\ IF Reading(cmd)
     THEN IF ack = 1 THEN target.state = "turnback" /\ target.cmd = cmd ELSE target.state = "idle"
     ELSE \/ target.state = "turnback" /\ target.cmd = cmd /\ target.ack = ack
          \/ target.state = "idle" /\ (job = "transfer" => ack # 1)

InStepSend ==
  \/ n = 0 /\ target.state = "idle" /\ (job = "transfer" => ack # 1) /\ ones = 0
  \/ /\ n <= DataBits /\ target.state = "wdata" /\ Len(target.got) = n /\ target.cmd = cmd /\ ack = 1
     /\ ones <= n /\ \A k \in 1..n : target.got[k] = data[k]
  \/ n = DataBits + 1 /\ target.state = "idle" /\ ack = 1 /\ ones <= n
  \/ n = DataBits + 2 /\ target.state = "idle" /\ ack = 1 /\ ones = 0

InStepDone == target.state = "idle" /\ ones = 0

Together ==
  Transferring /\ ~stray =>
    /\ phase = "command" => InStepCommand
    /\ phase = "turn2read" => InStepTurn2Read
    /\ phase = "ack" => InStepAck
    /\ phase = "waitturn" => InStepWait
    /\ phase = "receive" => InStepReceive
    /\ phase = "turn2write" => InStepTurn2Write
    /\ phase = "send" => InStepSend
    /\ phase = "done" => InStepDone

(* What a transfer has performed.  A stray data word is too short for the        *)
(* target to take it for a whole access.                                         *)
Progress(t) ==
  CASE t.state = "header" -> Len(t.got)
    [] t.state = "turn" -> 8
    [] t.state = "ack" -> 9 + Len(t.got)
    [] t.state = "rdata" -> 12 + Len(t.got)
    [] t.state = "turnback" -> 12
    [] t.state = "wdata" -> 13 + Len(t.got)
    [] OTHER -> 0

Access(w) == [cmd |-> cmd, word |-> w]

Answered == ack \in {1, 2, 4}

Accomplished ==
  job = "transfer" =>
    /\ phase \in {"command", "turn2read", "ack", "waitturn", "receive"} => ~stray /\ performed = <<>>
    /\ phase \in {"waitturn", "receive", "turn2write", "send", "done"} => Answered
    /\ phase = "turn2write" =>
         /\ ~stray
         /\ IF Reading(cmd) /\ ack = 1 THEN performed = <<Access(data)>> /\ data \in Words ELSE performed = <<>>
    /\ phase = "send" => IF ~stray /\ n > DataBits THEN performed = <<Access(data)>> ELSE performed = <<>>
    /\ phase = "send" /\ stray => ack # 1 /\ Progress(target) <= n
    /\ phase = "done" => IF ack = 1 THEN ~stray /\ performed = <<Access(data)>> ELSE performed = <<>>

Types == HostTypes /\ Locals /\ Pin

IInv == Types /\ LineTypes /\ Apart /\ Together /\ Accomplished

-----------------------------------------------------------------------------
(* The line and the host's loops *)

LEMMA Forced ==
  ASSUME NEW bit, NEW dir \in {"input", "output"}, NEW l \in Line(dir, bit)
  PROVE  /\ dir = "output" /\ ~Driving => l = bit
         /\ dir = "input" /\ ~Driving => l = 0
         /\ dir = "input" /\ Driving => l = TargetBit
  BY DEF Line

(* r is s, of i bits, followed by t, of j bits. *)
Joins(r, s, t, i, j) ==
  /\ r \in Seq(Bit) /\ Len(r) = i + j
  /\ \A k \in 1..(i + j) : (k <= i => r[k] = s[k]) /\ (i < k => r[k] = t[k - i])

LEMMA Joined ==
  ASSUME NEW s \in Seq(Bit), NEW t \in Seq(Bit), NEW i \in Nat, NEW j \in Nat, Len(s) = i, Len(t) = j
  PROVE  Joins(s \o t, s, t, i, j)
<1>1. /\ s \o t \in Seq(Bit) /\ Len(s \o t) = i + j
      /\ \A k \in 1..i : (s \o t)[k] = s[k]
      /\ \A k \in 1..j : (s \o t)[i + k] = t[k]
  OBVIOUS
<1>2. ASSUME NEW k \in 1..(i + j), i < k PROVE (s \o t)[k] = t[k - i]
  <2>1. PICK o \in 1..j : o = k - i /\ i + o = k
    BY <1>2
  <2>2. QED
    BY <1>1, <2>1
<1>3. ASSUME NEW k \in 1..(i + j), k <= i PROVE (s \o t)[k] = s[k]
  <2>1. k \in 1..i
    BY <1>3
  <2>2. QED
    BY <1>1, <2>1
<1>4. QED
  BY <1>1, <1>2, <1>3 DEF Joins

LEMMA SequenceBits ==
  /\ swd_sequence_jtag2swd \in Seq(Bit) /\ Len(swd_sequence_jtag2swd) = 136
  /\ \A k \in 1..136 :
       swd_sequence_jtag2swd[k] = IF k <= 56 \/ k \in 58..61 \/ k \in 64..67 \/ k \in 70..128 THEN 1 ELSE 0
  /\ swd_sequence_null \in Seq(Bit) /\ Len(swd_sequence_null) = 8
  /\ \A k \in 1..8 : swd_sequence_null[k] = 0
<1> DEFINE s1 == <<0, 1, 1, 1, 1, 0, 0, 1>>
           s2 == <<1, 1, 1, 0, 0, 1, 1, 1>>
           i8 == 8   i56 == 56   i64 == 64   i72 == 72   i128 == 128   i136 == 136
           a == AllOnes \o s1   b == a \o s2   c == b \o AllOnes   d == c \o AllZeros
<1>1. AllOnes \in Seq(Bit) /\ Len(AllOnes) = i56 /\ \A k \in 1..56 : AllOnes[k] = 1
  BY DEF AllOnes, Bit
<1>2. AllZeros \in Seq(Bit) /\ Len(AllZeros) = i8 /\ \A k \in 1..8 : AllZeros[k] = 0
  BY DEF AllZeros, Bit
<1>3. s1 \in Seq(Bit) /\ Len(s1) = i8 /\ \A k \in 1..8 : s1[k] = IF k \in {1, 6, 7} THEN 0 ELSE 1
  BY DEF Bit
<1>4. s2 \in Seq(Bit) /\ Len(s2) = i8 /\ \A k \in 1..8 : s2[k] = IF k \in {4, 5} THEN 0 ELSE 1
  BY DEF Bit
<1>5. /\ i8 \in Nat /\ i56 \in Nat /\ i64 \in Nat /\ i72 \in Nat /\ i128 \in Nat /\ i136 \in Nat
      /\ i64 = i56 + i8 /\ i72 = i64 + i8 /\ i128 = i72 + i56 /\ i136 = i128 + i8
  OBVIOUS
<1>6. /\ AllOnes \in Seq(Bit) /\ Len(AllOnes) = i56 /\ AllZeros \in Seq(Bit) /\ Len(AllZeros) = i8
      /\ s1 \in Seq(Bit) /\ Len(s1) = i8 /\ s2 \in Seq(Bit) /\ Len(s2) = i8
  BY <1>1, <1>2, <1>3, <1>4
<1>7. swd_sequence_jtag2swd = d
  BY DEF swd_sequence_jtag2swd
<1> HIDE DEF s1, s2, i8, i56, i64, i72, i128, i136, a, b, c, d
<1>8. Joins(a, AllOnes, s1, i56, i8) /\ a \in Seq(Bit) /\ Len(a) = i64
  <2>1. Joins(AllOnes \o s1, AllOnes, s1, i56, i8)
    BY <1>5, <1>6, Joined, Zenon
  <2>2. Joins(a, AllOnes, s1, i56, i8)
    BY <2>1 DEF a
  <2>3. QED
    BY <1>5, <2>2 DEF Joins
<1>9. Joins(b, a, s2, i64, i8) /\ b \in Seq(Bit) /\ Len(b) = i72
  <2>1. Joins(a \o s2, a, s2, i64, i8)
    BY <1>5, <1>6, <1>8, Joined, Zenon
  <2>2. Joins(b, a, s2, i64, i8)
    BY <2>1 DEF b
  <2>3. QED
    BY <1>5, <2>2 DEF Joins
<1>10. Joins(c, b, AllOnes, i72, i56) /\ c \in Seq(Bit) /\ Len(c) = i128
  <2>1. Joins(b \o AllOnes, b, AllOnes, i72, i56)
    BY <1>5, <1>6, <1>9, Joined, Zenon
  <2>2. Joins(c, b, AllOnes, i72, i56)
    BY <2>1 DEF c
  <2>3. QED
    BY <1>5, <2>2 DEF Joins
<1>11. Joins(d, c, AllZeros, i128, i8) /\ d \in Seq(Bit) /\ Len(d) = i136
  <2>1. Joins(c \o AllZeros, c, AllZeros, i128, i8)
    BY <1>5, <1>6, <1>10, Joined, Zenon
  <2>2. Joins(d, c, AllZeros, i128, i8)
    BY <2>1 DEF d
  <2>3. QED
    BY <1>5, <2>2 DEF Joins
<1>12. ASSUME NEW k \in 1..136
       PROVE  d[k] = IF k <= 56 \/ k \in 58..61 \/ k \in 64..67 \/ k \in 70..128 THEN 1 ELSE 0
  <2>0. k \in Nat /\ 1 <= k /\ k <= 136
    OBVIOUS
  <2>1. k <= i136 => (k <= i128 => d[k] = c[k]) /\ (i128 < k => d[k] = AllZeros[k - i128])
    <3>1. k <= i136 => k \in 1..(i128 + i8)
      BY <2>0 DEF i8, i56, i64, i72, i128, i136
    <3>2. QED
      BY <1>11, <3>1 DEF Joins
  <2>2. k <= i128 => (k <= i72 => c[k] = b[k]) /\ (i72 < k => c[k] = AllOnes[k - i72])
    <3>1. k <= i128 => k \in 1..(i72 + i56)
      BY <2>0 DEF i8, i56, i64, i72, i128, i136
    <3>2. QED
      BY <1>10, <3>1 DEF Joins
  <2>3. k <= i72 => (k <= i64 => b[k] = a[k]) /\ (i64 < k => b[k] = s2[k - i64])
    <3>1. k <= i72 => k \in 1..(i64 + i8)
      BY <2>0 DEF i8, i56, i64, i72, i128, i136
    <3>2. QED
      BY <1>9, <3>1 DEF Joins
  <2>4. k <= i64 => (k <= i56 => a[k] = AllOnes[k]) /\ (i56 < k => a[k] = s1[k - i56])
    <3>1. k <= i64 => k \in 1..(i56 + i8)
      BY <2>0 DEF i8, i56, i64, i72, i128, i136
    <3>2. QED
      BY <1>8, <3>1 DEF Joins
  <2> USE DEF i8, i56, i64, i72, i128, i136
  <2>5. CASE k <= 56
    <3>1. d[k] = AllOnes[k] /\ k \in 1..56
      BY <2>1, <2>2, <2>3, <2>4, <2>5
    <3>2. QED
      BY <1>1, <2>5, <3>1
  <2>6. CASE 56 < k /\ k <= 64
    <3>1. d[k] = s1[k - 56] /\ k - 56 \in 1..8
      BY <2>1, <2>2, <2>3, <2>4, <2>6
    <3>2. QED
      BY <1>3, <2>6, <3>1
  <2>7. CASE 64 < k /\ k <= 72
    <3>1. d[k] = s2[k - 64] /\ k - 64 \in 1..8
      BY <2>1, <2>2, <2>3, <2>7
    <3>2. QED
      BY <1>4, <2>7, <3>1
  <2>8. CASE 72 < k /\ k <= 128
    <3>1. d[k] = AllOnes[k - 72] /\ k - 72 \in 1..56
      BY <2>1, <2>2, <2>8
    <3>2. AllOnes[k - 72] = 1
      BY <1>1, <3>1
    <3>3. QED
      BY <2>8, <3>1, <3>2
  <2>9. CASE 128 < k
    <3>1. d[k] = AllZeros[k - 128] /\ k - 128 \in 1..8
      BY <2>1, <2>9
    <3>2. QED
      BY <1>2, <2>9, <3>1
  <2>10. QED
    BY <2>5, <2>6, <2>7, <2>8, <2>9
<1>13. QED
  BY <1>2, <1>7, <1>11, <1>12 DEF swd_sequence_null, i8, i136

-----------------------------------------------------------------------------
(* Types *)

LEMMA Powers == 2^0 = 1 /\ 2^1 = 2 /\ 2^2 = 4
  OBVIOUS

LEMMA InitTypes ==
  ASSUME Init
  PROVE  Types /\ LineTypes
<1>1. CTRLSTAT_R_CMD \in Bits(8) /\ Zero \in Bits(DataBits)
  BY CmdsAssumption DEF Zero, Bits
<1>2. HostTypes
  <2>1. phase \in Phases
    BY DEF Init, Phases
  <2>2. n \in 0..LastCycle
    BY DEF Init, LastCycle
  <2>3. job \in {"none", "connect", "ready", "transfer", "ctrlstat", "abort", "disconnect"}
    BY DEF Init
  <2>4. cmd \in Bits(8) /\ data \in Bits(DataBits)
    BY <1>1 DEF Init
  <2>5. ack \in 0..7 /\ abortcounter \in 0..MaxTries /\ stray \in BOOLEAN
    <3>1. ack = 0 /\ abortcounter = 0 /\ stray = FALSE
      BY DEF Init
    <3>2. stray \in BOOLEAN
      BY <3>1, Zenon
    <3>3. QED
      BY <3>1, <3>2
  <2>6. QED
    BY <2>1, <2>2, <2>3, <2>4, <2>5 DEF HostTypes
<1>3. Locals /\ Pin
  BY DEF Init, Locals, Pin
<1>4. LineTypes
  BY Idle DEF Init, LineTypes
<1>5. QED
  BY <1>2, <1>3, <1>4 DEF Types

LEMMA SequenceTypes ==
  ASSUME Types, NEW l \in Bit, SWDGPIOBBD_sequence(l)
  PROVE  /\ Types' /\ UNCHANGED host /\ pin' = "output" /\ job \in {"connect", "disconnect"}
         /\ IF n < (IF job = "connect" THEN 135 ELSE 7) THEN n' = n + 1 /\ phase' = phase
            ELSE n' = 0 /\ phase' = "done"
         /\ l \in Line("output", IF job = "connect" THEN swd_sequence_jtag2swd[n + 1] ELSE 0)
         /\ TargetCycle(l) /\ stray' = stray
<1> DEFINE seq == IF job = "connect" THEN swd_sequence_jtag2swd ELSE swd_sequence_null
           last == IF job = "connect" THEN 135 ELSE 7
<1>1. /\ phase = "sequence" /\ Cycle(pin, seq[n + 1], l) /\ Advance(Len(seq), "done")
      /\ UNCHANGED host
  BY DEF SWDGPIOBBD_sequence
<1>2. HostTypes /\ Locals /\ Pin
  BY DEF Types
<1>3. job \in {"connect", "disconnect"} /\ n \in 0..last /\ pin = "output"
  BY <1>1, <1>2 DEF HostTypes, Phases, LastCycle, Pin
<1>4. Len(seq) = last + 1 /\ (job # "connect" => seq[n + 1] = 0)
  <2>1. CASE job = "connect"
    BY <2>1, SequenceBits
  <2>2. CASE job # "connect"
    <3>1. seq = swd_sequence_null /\ n + 1 \in 1..8 /\ last = 7
      BY <1>3, <2>2
    <3>2. Len(swd_sequence_null) = 8 /\ swd_sequence_null[n + 1] = 0
      BY <3>1, SequenceBits
    <3> HIDE DEF seq, last
    <3>3. QED
      BY <3>1, <3>2
  <2>3. QED
    BY <2>1, <2>2
<1>5. IF n < last THEN n' = n + 1 /\ phase' = phase ELSE n' = 0 /\ phase' = "done"
  <2> HIDE DEF seq
  <2>1. last \in Nat
    OBVIOUS
  <2> HIDE DEF last
  <2>2. QED
    BY <1>1, <1>3, <1>4, <2>1 DEF Advance
<1>6. /\ l \in Line("output", IF job = "connect" THEN swd_sequence_jtag2swd[n + 1] ELSE 0)
      /\ TargetCycle(l) /\ stray' = stray /\ pin' = "output"
  BY <1>1, <1>2, <1>3, <1>4 DEF Cycle, HostTypes
<1>7. HostTypes'
  <2>1. /\ UNCHANGED <<job, cmd, data, ack, abortcounter, stray>>
        /\ phase' \in {"sequence", "done"} /\ n' \in 0..last /\ (phase' = "done" => n' = 0)
    BY <1>1, <1>3, <1>5, <1>6 DEF host
  <2>2. n' \in 0..LastCycle' /\ phase' \in Phases'
    BY <1>3, <2>1 DEF LastCycle, Phases
  <2>3. QED
    BY <1>2, <2>1, <2>2 DEF HostTypes
<1>8. Locals' /\ Pin'
  BY <1>1, <1>2, <1>3, <1>5, <1>6 DEF Locals, Pin, host
<1>9. QED
  BY <1>1, <1>3, <1>5, <1>6, <1>7, <1>8 DEF Types

LEMMA CommandTypes ==
  ASSUME Types, NEW l \in Bit, SWDGPIOBBD_command(l)
  PROVE  /\ Types' /\ UNCHANGED host /\ Transferring /\ phase = "command" /\ n \in 0..7
         /\ IF n < 7 THEN n' = n + 1 /\ phase' = "command" ELSE n' = 0 /\ phase' = "turn2read"
         /\ l \in Line("output", cmd[n + 1]) /\ TargetCycle(l) /\ stray' = stray
<1>1. /\ phase = "command" /\ Cycle(pin, cmd[n + 1], l) /\ Advance(8, "turn2read") /\ UNCHANGED host
  BY DEF SWDGPIOBBD_command
<1>2. HostTypes /\ Locals /\ Pin
  BY DEF Types
<1>3. Transferring /\ n \in 0..7 /\ pin = "output"
  BY <1>1, <1>2 DEF HostTypes, Phases, LastCycle, Pin, Transferring
<1>4. IF n < 7 THEN n' = n + 1 /\ phase' = "command" ELSE n' = 0 /\ phase' = "turn2read"
  BY <1>1, <1>3 DEF Advance
<1>5. l \in Line("output", cmd[n + 1]) /\ TargetCycle(l) /\ stray' = stray /\ pin' = "output"
  BY <1>1, <1>2, <1>3 DEF Cycle, HostTypes
<1>6. HostTypes'
  BY <1>1, <1>2, <1>3, <1>4, <1>5 DEF HostTypes, Phases, LastCycle, host, Transferring
<1>7. Locals' /\ Pin'
  BY <1>1, <1>2, <1>3, <1>4, <1>5 DEF Locals, Pin, host
<1>8. QED
  BY <1>1, <1>3, <1>4, <1>5, <1>6, <1>7 DEF Types

LEMMA Turn2ReadTypes ==
  ASSUME Types, NEW l \in Bit, SWDGPIOBBD_cycleTurnaround2Read(l)
  PROVE  /\ Types' /\ UNCHANGED host /\ Transferring /\ phase = "turn2read" /\ n' = 0 /\ phase' = "ack"
         /\ l \in Line("input", 0) /\ TargetCycle(l) /\ stray' = stray
<1>1. /\ phase = "turn2read" /\ Cycle("input", 0, l) /\ Advance(1, "ack") /\ UNCHANGED host
  BY DEF SWDGPIOBBD_cycleTurnaround2Read
<1>2. HostTypes /\ Locals /\ Pin
  BY DEF Types
<1>3. Transferring /\ n = 0
  BY <1>1, <1>2 DEF HostTypes, Phases, LastCycle, Transferring
<1>4. n' = 0 /\ phase' = "ack"
  BY <1>1, <1>3 DEF Advance
<1>5. l \in Line("input", 0) /\ TargetCycle(l) /\ stray' = stray /\ pin' = "input"
  BY <1>1, <1>2 DEF Cycle, HostTypes
<1>6. HostTypes'
  BY <1>1, <1>2, <1>3, <1>4, <1>5 DEF HostTypes, Phases, LastCycle, host, Transferring
<1>7. Locals' /\ Pin'
  BY <1>1, <1>2, <1>3, <1>4, <1>5 DEF Locals, Pin, host
<1>8. QED
  BY <1>1, <1>3, <1>4, <1>5, <1>6, <1>7 DEF Types

LEMMA AckTypes ==
  ASSUME Types, NEW l \in Bit, SWDGPIOBBD_receiveAck(l)
  PROVE  /\ Types' /\ UNCHANGED <<job, cmd, data>> /\ Transferring /\ phase = "ack" /\ n \in 0..2
         /\ (n = 0 => ack' = l) /\ (n = 1 => ack' = ack + 2 * l) /\ (n = 2 => ack' = ack + 4 * l)
         /\ IF n < 2 THEN n' = n + 1 /\ phase' = "ack"
            ELSE n' = 0 /\ phase' = IF ack' = 2 /\ job # "ctrlstat" THEN "waitturn" ELSE DataPhase
         /\ l \in Line("input", 0) /\ TargetCycle(l) /\ stray' = stray
<1>1. /\ phase = "ack" /\ Cycle(pin, 0, l)
      /\ ack' = (IF n = 0 THEN 0 ELSE ack) + l * 2^n
      /\ abortcounter' = IF n = 2 THEN abortcounter + 1 ELSE abortcounter
      /\ Advance(3, IF ack' = 2 /\ job # "ctrlstat" THEN "waitturn" ELSE DataPhase)
      /\ UNCHANGED <<job, cmd, data>>
  BY DEF SWDGPIOBBD_receiveAck
<1>2. HostTypes /\ Locals /\ Pin
  BY DEF Types
<1>3. Transferring /\ n \in 0..2 /\ pin = "input" /\ abortcounter < MaxTries
  BY <1>1, <1>2 DEF HostTypes, Phases, LastCycle, Pin, Locals, Transferring
<1>4. (n = 0 => ack' = l) /\ (n = 1 => ack' = ack + 2 * l) /\ (n = 2 => ack' = ack + 4 * l)
  <2>1. l \in {0, 1} /\ ack \in Nat
    BY <1>2 DEF Bit, HostTypes
  <2>2. CASE n = 0
    <3>1. 2^n = 1
      BY <2>2, Powers
    <3>2. QED
      BY <1>1, <2>1, <2>2, <3>1
  <2>3. CASE n = 1
    <3>1. 2^n = 2
      BY <2>3, Powers
    <3>2. QED
      BY <1>1, <2>1, <2>3, <3>1
  <2>4. CASE n = 2
    <3>1. 2^n = 4
      BY <2>4, Powers
    <3>2. QED
      BY <1>1, <2>1, <2>4, <3>1
  <2>5. QED
    BY <1>3, <2>2, <2>3, <2>4
<1>5. IF n < 2 THEN n' = n + 1 /\ phase' = "ack"
      ELSE n' = 0 /\ phase' = IF ack' = 2 /\ job # "ctrlstat" THEN "waitturn" ELSE DataPhase
  BY <1>1, <1>3 DEF Advance
<1>6. l \in Line("input", 0) /\ TargetCycle(l) /\ stray' = stray /\ pin' = "input"
  BY <1>1, <1>2, <1>3 DEF Cycle, HostTypes
<1>7. ack' \in 0..7 /\ (n = 0 => ack' \in 0..1) /\ (n = 1 => ack' \in 0..3)
  <2>1. l \in {0, 1} /\ (n = 1 => ack \in 0..1) /\ (n = 2 => ack \in 0..3)
    BY <1>1, <1>2 DEF Bit, Locals
  <2>2. n = 0 \/ n = 1 \/ n = 2
    BY <1>3
  <2>3. QED
    BY <1>4, <2>1, <2>2
<1>8. abortcounter' \in 0..MaxTries /\ (n < 2 => abortcounter' < MaxTries)
  BY <1>1, <1>2, <1>3 DEF HostTypes
<1>9. HostTypes'
  <2>1. n' \in 0..2 /\ (n' # 0 => phase' = "ack") /\ (phase' = "ack" => n < 2)
    BY <1>3, <1>5 DEF DataPhase
  <2>2. phase' \in Phases'
    BY <1>1, <1>3, <1>5 DEF Phases, Transferring, DataPhase
  <2>3. n' \in 0..LastCycle'
    BY <1>1, <1>3, <1>5, <2>1 DEF LastCycle, Transferring, DataPhase
  <2>4. QED
    BY <1>1, <1>2, <1>6, <1>7, <1>8, <2>2, <2>3 DEF HostTypes
<1>10. Locals' /\ Pin'
  BY <1>1, <1>2, <1>3, <1>5, <1>6, <1>7, <1>8 DEF Locals, Pin, DataPhase
<1>11. QED
  BY <1>1, <1>3, <1>4, <1>5, <1>6, <1>9, <1>10 DEF Types

LEMMA WaitTypes ==
  ASSUME Types, NEW l \in Bit, WaitTurn(l)
  PROVE  /\ Types' /\ UNCHANGED host /\ Transferring /\ phase = "waitturn" /\ n' = 0
         /\ phase' = "command" \/ phase' = DataPhase
         /\ l \in Line("output", 0) /\ TargetCycle(l) /\ stray' = stray
<1>1. /\ phase = "waitturn" /\ Cycle("output", 0, l)
      /\ Advance(1, IF abortcounter < MaxTries THEN "command" ELSE DataPhase) /\ UNCHANGED host
  BY DEF WaitTurn
<1>2. HostTypes /\ Locals /\ Pin
  BY DEF Types
<1>3. Transferring /\ n = 0 /\ job # "ctrlstat"
  BY <1>1, <1>2 DEF HostTypes, Phases, LastCycle, Transferring
<1>4. n' = 0 /\ phase' = IF abortcounter < MaxTries THEN "command" ELSE DataPhase
  BY <1>1, <1>3 DEF Advance
<1>5. l \in Line("output", 0) /\ TargetCycle(l) /\ stray' = stray /\ pin' = "output"
  BY <1>1, <1>2 DEF Cycle, HostTypes
<1>6. HostTypes'
  BY <1>1, <1>2, <1>3, <1>4, <1>5 DEF HostTypes, Phases, LastCycle, host, Transferring, DataPhase
<1>7. Locals' /\ Pin'
  BY <1>1, <1>2, <1>3, <1>4, <1>5 DEF Locals, Pin, host, DataPhase
<1>8. QED
  BY <1>1, <1>3, <1>4, <1>5, <1>6, <1>7 DEF Types

LEMMA ReceiveTypes ==
  ASSUME Types, NEW l \in Bit, SWDGPIOBBD_receiveData(l)
  PROVE  /\ Types' /\ UNCHANGED <<job, cmd, ack, abortcounter>> /\ Transferring /\ phase = "receive"
         /\ Reading(cmd) /\ n \in 0..DataBits
         /\ data' = IF n < DataBits THEN [data EXCEPT ![n + 1] = l] ELSE data
         /\ IF n < DataBits THEN n' = n + 1 /\ phase' = "receive" ELSE n' = 0 /\ phase' = "turn2write"
         /\ l \in Line(pin, 0) /\ TargetCycle(l) /\ stray' = stray
<1>1. /\ phase = "receive" /\ Cycle(pin, 0, l)
      /\ data' = IF n < DataBits THEN [data EXCEPT ![n + 1] = l] ELSE data
      /\ Advance(DataBits + 1, "turn2write") /\ UNCHANGED <<job, cmd, ack, abortcounter>>
  BY DEF SWDGPIOBBD_receiveData
<1>2. HostTypes /\ Locals /\ Pin
  BY DEF Types
<1>3. Transferring /\ n \in 0..DataBits /\ Reading(cmd)
  BY <1>1, <1>2 DEF HostTypes, Phases, LastCycle, Locals, Transferring
<1>4. IF n < DataBits THEN n' = n + 1 /\ phase' = "receive" ELSE n' = 0 /\ phase' = "turn2write"
  BY <1>1, <1>3 DEF Advance
<1>5. l \in Line(pin, 0) /\ TargetCycle(l) /\ stray' = stray /\ pin' = pin
  BY <1>1, <1>2 DEF Cycle, HostTypes
<1>6. data' \in Bits(DataBits)
  BY <1>1, <1>2, <1>3 DEF HostTypes, Bits, Bit
<1>7. HostTypes'
  BY <1>1, <1>2, <1>3, <1>4, <1>5, <1>6 DEF HostTypes, Phases, LastCycle, Transferring
<1>8. Locals' /\ Pin'
  BY <1>1, <1>2, <1>3, <1>4, <1>5 DEF Locals, Pin
<1>9. QED
  BY <1>1, <1>3, <1>4, <1>5, <1>7, <1>8 DEF Types

LEMMA Turn2WriteTypes ==
  ASSUME Types, NEW l \in Bit, SWDGPIOBBD_cycleTurnaround2Write(l)
  PROVE  /\ Types' /\ UNCHANGED host /\ Transferring /\ phase = "turn2write" /\ n' = 0
         /\ phase' = IF Reading(cmd) THEN "done" ELSE "send"
         /\ l \in Line("output", 0) /\ TargetCycle(l) /\ stray' = stray
<1>1. /\ phase = "turn2write" /\ Cycle("output", 0, l)
      /\ Advance(1, IF Reading(cmd) THEN "done" ELSE "send") /\ UNCHANGED host
  BY DEF SWDGPIOBBD_cycleTurnaround2Write
<1>2. HostTypes /\ Locals /\ Pin
  BY DEF Types
<1>3. Transferring /\ n = 0
  BY <1>1, <1>2 DEF HostTypes, Phases, LastCycle, Transferring
<1>4. n' = 0 /\ phase' = IF Reading(cmd) THEN "done" ELSE "send"
  BY <1>1, <1>3 DEF Advance
<1>5. l \in Line("output", 0) /\ TargetCycle(l) /\ stray' = stray /\ pin' = "output"
  BY <1>1, <1>2 DEF Cycle, HostTypes
<1>6. job = "ctrlstat" => Reading(cmd)
  BY <1>2, CmdsAssumption DEF Locals
<1>7. HostTypes'
  BY <1>1, <1>2, <1>3, <1>4, <1>5, <1>6 DEF HostTypes, Phases, LastCycle, host, Transferring
<1>8. Locals' /\ Pin'
  BY <1>1, <1>2, <1>3, <1>4, <1>5 DEF Locals, Pin, host
<1>9. QED
  BY <1>1, <1>3, <1>4, <1>5, <1>7, <1>8 DEF Types

(* The bit that a data word has on the wire in cycle k, its parity bit and two   *)
(* zeros included.                                                               *)
SentBit(k) == IF k < DataBits THEN data[k + 1] ELSE IF k = DataBits THEN Ones(data) % 2 ELSE 0

LEMMA SendTypes ==
  ASSUME Types, NEW l \in Bit, SWDGPIOBBD_sendData(l)
  PROVE  /\ Types' /\ UNCHANGED host /\ Transferring /\ phase = "send" /\ ~Reading(cmd) /\ n \in 0 .. DataBits + 2
         /\ IF n < DataBits + 2 THEN n' = n + 1 /\ phase' = "send" ELSE n' = 0 /\ phase' = "done"
         /\ l \in Line("output", SentBit(n)) /\ TargetCycle(l)
         /\ stray' = (stray \/ (n = 0 /\ target.state # "wdata"))
<1>1. phase = "send" /\ Cycle(pin, SentBit(n), l) /\ Advance(DataBits + 3, "done") /\ UNCHANGED host
  BY DEF SWDGPIOBBD_sendData, SentBit
<1>2. HostTypes /\ Locals /\ Pin
  BY DEF Types
<1>3. Transferring /\ n \in 0 .. DataBits + 2 /\ ~Reading(cmd) /\ pin = "output"
  BY <1>1, <1>2 DEF HostTypes, Phases, LastCycle, Locals, Pin, Transferring
<1>4. IF n < DataBits + 2 THEN n' = n + 1 /\ phase' = "send" ELSE n' = 0 /\ phase' = "done"
  BY <1>1, <1>3 DEF Advance
<1>5. /\ l \in Line("output", SentBit(n)) /\ TargetCycle(l) /\ pin' = "output"
      /\ stray' = (stray \/ (n = 0 /\ target.state # "wdata"))
  BY <1>1, <1>3 DEF Cycle
<1>6. HostTypes'
  <2>1. stray' \in BOOLEAN
    BY <1>5
  <2>2. QED
    BY <1>1, <1>2, <1>3, <1>4, <2>1 DEF HostTypes, Phases, LastCycle, host, Transferring
<1>7. Locals' /\ Pin'
  BY <1>1, <1>2, <1>3, <1>4, <1>5 DEF Locals, Pin, host
<1>8. QED
  BY <1>1, <1>3, <1>4, <1>5, <1>6, <1>7 DEF Types

(* A step between two jobs; the wire rests. *)
Jobs ==
  \/ StartRequest \/ EndRequest \/ Connected \/ Disconnected \/ TransferOk \/ SWDGPIOBBD_abort \/ AbortLoop
  \/ AbortReturn
  \/ \E c \in Cmds : \E d \in IF Reading(c) THEN {Zero} ELSE Words : SWDGPIOBBD_transfer(c, d)

LEMMA JobTypes ==
  ASSUME Types, Jobs
  PROVE  Types' /\ UNCHANGED line
<1> USE DEF HostTypes, Phases, LastCycle, Locals, Pin, Types, line
<1>0. n \in 0..LastCycle /\ phase \in Phases
  OBVIOUS
<1>1. CASE StartRequest
  <2>1. job = "none" /\ job' = "connect" /\ phase' = "sequence" /\ pin = "output" /\ n = 0
        /\ UNCHANGED <<n, cmd, data, ack, abortcounter, line, performed, stray>>
    BY <1>1 DEF StartRequest, Sequence
  <2>2. QED
    BY <2>1
<1>2. CASE EndRequest
  <2>1. job = "ready" /\ job' = "disconnect" /\ phase' = "sequence" /\ pin = "output" /\ n = 0
        /\ UNCHANGED <<n, cmd, data, ack, abortcounter, line, performed, stray>>
    BY <1>2 DEF EndRequest, Sequence
  <2>2. QED
    BY <2>1
<1>3. CASE Connected
  <2>1. job' = "ready" /\ phase' = "idle" /\ pin = "output" /\ n = 0
        /\ UNCHANGED <<n, cmd, data, ack, abortcounter, line>>
    BY <1>3 DEF Connected
  <2>2. stray' = FALSE
    BY <1>3 DEF Connected
  <2>3. stray' \in BOOLEAN
    BY <2>2, Zenon
  <2>4. QED
    BY <2>1, <2>3
<1>4. CASE Disconnected
  <2>1. job' = "none" /\ phase' = "idle" /\ pin = "output" /\ n = 0
        /\ UNCHANGED <<n, cmd, data, ack, abortcounter, line, performed, stray>>
    BY <1>4 DEF Disconnected
  <2>2. QED
    BY <2>1
<1>5. CASE TransferOk
  <2>1. job' = "ready" /\ phase' = "idle" /\ pin = "output" /\ n = 0
        /\ UNCHANGED <<n, cmd, data, ack, abortcounter, line, performed, stray>>
    BY <1>5 DEF TransferOk
  <2>2. QED
    BY <2>1
<1>6. CASE SWDGPIOBBD_abort
  <2>1. job' = "ctrlstat" /\ cmd' = CTRLSTAT_R_CMD /\ phase' = "command" /\ abortcounter' = 0 /\ ack' = 2
        /\ pin = "output" /\ n = 0 /\ UNCHANGED <<n, data, line, stray>>
    BY <1>6 DEF SWDGPIOBBD_abort, Begin
  <2>2. QED
    BY <2>1, CmdsAssumption
<1>7. CASE AbortLoop
  <2>1. job' = "abort" /\ cmd' = ABORT_CMD /\ data' = AbortWord /\ phase' \in {"command", "turn2write"}
        /\ abortcounter' = 0 /\ pin = "output" /\ n = 0 /\ UNCHANGED <<n, ack, line, stray>>
    BY <1>7 DEF AbortLoop, Begin
  <2>2. QED
    BY <2>1, CmdsAssumption, WordsAssumption
<1>8. CASE AbortReturn
  <2>1. job' = "disconnect" /\ phase' = "sequence" /\ pin = "output" /\ n = 0
        /\ UNCHANGED <<n, cmd, data, ack, abortcounter, line, performed, stray>>
    BY <1>8 DEF AbortReturn, Sequence
  <2>2. QED
    BY <2>1
<1>9. ASSUME NEW c \in Cmds, NEW d \in IF Reading(c) THEN {Zero} ELSE Words, SWDGPIOBBD_transfer(c, d)
      PROVE  Types' /\ UNCHANGED line
  <2>1. job' = "transfer" /\ cmd' = c /\ data' = d /\ phase' = "command" /\ abortcounter' = 0 /\ ack' = 2
        /\ pin = "output" /\ n = 0 /\ UNCHANGED <<n, line, stray>>
    BY <1>9 DEF SWDGPIOBBD_transfer, Begin
  <2>2. c \in Bits(8) /\ d \in Bits(DataBits) /\ (~Reading(c) => d \in Words)
    BY CmdsAssumption, WordsAssumption, Idle DEF Target, IdleTarget
  <2>3. QED
    BY <2>1, <2>2
<1>10. QED
  BY <1>1, <1>2, <1>3, <1>4, <1>5, <1>6, <1>7, <1>8, <1>9 DEF Jobs

-----------------------------------------------------------------------------
(* The type invariant *)

LEMMA ClockSteps ==
  ASSUME Types, LineTypes, Clock
  PROVE  Types' /\ LineTypes'
<1>1. PICK l \in Bit :
        \/ SWDGPIOBBD_sequence(l) \/ SWDGPIOBBD_command(l) \/ SWDGPIOBBD_cycleTurnaround2Read(l)
        \/ SWDGPIOBBD_receiveAck(l) \/ WaitTurn(l) \/ SWDGPIOBBD_receiveData(l)
        \/ SWDGPIOBBD_cycleTurnaround2Write(l) \/ SWDGPIOBBD_sendData(l)
  BY DEF Clock, Bit
<1>2. Types' /\ TargetCycle(l)
  BY <1>1, SequenceTypes, CommandTypes, Turn2ReadTypes, AckTypes, WaitTypes, ReceiveTypes, Turn2WriteTypes,
     SendTypes
<1>3. QED
  BY <1>2, Cycles

(* Every step is one of the host's cycles or goes from one job to the next.      *)
LEMMA Parts ==
  ASSUME Next
  PROVE  Clock \/ Jobs
  BY DEF Next, Driver, Jobs

LEMMA TypesStep ==
  ASSUME Types, LineTypes, [Next]_vars
  PROVE  Types' /\ LineTypes'
<1>1. CASE Clock
  BY <1>1, ClockSteps
<1>2. CASE Jobs
  BY <1>2, JobTypes DEF line, LineTypes
<1>3. CASE UNCHANGED vars
  BY <1>3 DEF vars, host, line, Types, HostTypes, Phases, LastCycle, Locals, Pin, LineTypes
<1>4. QED
  BY <1>1, <1>2, <1>3, Parts

LEMMA Typed ==
  ASSUME Types, LineTypes
  PROVE  TypeOK
<1>1. Max({DataBits + 8, Len(swd_sequence_jtag2swd)}) = 136
  <2>1. PICK m \in Nat : m = DataBits + 8 /\ m <= 136
    OBVIOUS
  <2>2. Max({m, 136}) = 136
    BY <2>1, Greatest
  <2>3. QED
    BY <2>1, <2>2, SequenceBits
<1>2. LastCycle \in 0..135
  BY DEF LastCycle
<1>3. n \in 0..136
  BY <1>2 DEF Types, HostTypes
<1>4. phase \in {"idle", "sequence", "command", "turn2read", "ack", "waitturn", "receive", "turn2write",
                 "send", "done"}
  BY DEF Types, HostTypes, Phases
<1>5. target.state \in States /\ ones \in 0..ResetOnes
  BY DEF LineTypes, Target
<1>6. QED
  BY <1>1, <1>3, <1>4, <1>5 DEF TypeOK, Types, HostTypes, Pin, States

(* Types: each phase keeps to its cycles, the tries to their bound, and the      *)
(* places of the target to the bits they have.                                   *)
THEOREM TypeCorrect == Spec => []TypeOK
<1>1. Init => Types /\ LineTypes
  BY InitTypes
<1>2. Types /\ LineTypes /\ [Next]_vars => (Types /\ LineTypes)'
  BY TypesStep
<1>3. Types /\ LineTypes => TypeOK
  BY Typed
<1>4. QED
  BY <1>1, <1>2, <1>3, PTL DEF Spec

-----------------------------------------------------------------------------
(* The sequence that connects *)

LEMMA Idling == Target(target) => (target.state = "idle" => ~Driving) /\ (Lost => ~Driving)
  BY DEF Driving, Lost

(* A cycle with a zero.                                                          *)
LEMMA ZeroCycles ==
  ASSUME LineTypes, TargetCycle(0)
  PROVE  /\ LineTypes' /\ ones' = 0 /\ Cycled(target, target', 0) /\ Performed(0)
         /\ target.state # "header" => Kept(target, target')
<1>1. 0 \in Bit
  BY DEF Bit
<1>2. ones' = 0
  BY <1>1, Cycles
<1>3. QED
  BY <1>1, <1>2, Cycles

LEMMA EndsAny ==
  ASSUME NEW t, Target(t), NEW m \in Nat, m >= DataBits + 15
  PROVE  Ends(t, m)
<1>1. t.state \in States /\ t.got \in Seq(Bit)
  BY DEF Target
<1>2. PICK j \in Nat : j = Len(t.got)
  BY <1>1
<1>3. QED
  <2>1. /\ m >= DataBits + 14 /\ m >= DataBits + 13 - j /\ m >= DataBits + 10 - j /\ m >= DataBits + 10
        /\ m >= DataBits + 9 - j /\ m >= 8 /\ m >= 0
    BY <1>2
  <2>2. QED
    BY <1>1, <1>2, <2>1 DEF Ends, States

LEMMA EndsLost ==
  ASSUME NEW t, Target(t)
  PROVE  Ends(t, 0) <=> t.state = "lost"
<1>1. t.state \in States /\ t.got \in Seq(Bit) /\ Collected(t)
  BY DEF Target
<1>2. PICK j \in Nat : j = Len(t.got)
  BY <1>1
<1>3. t.state = "header" => j \in 1..7
  BY <1>1, <1>2 DEF Collected
<1>4. t.state = "ack" => j \in 0..2
  BY <1>1, <1>2 DEF Collected
<1>5. t.state \in {"rdata", "wdata"} => j \in 0..DataBits
  BY <1>1, <1>2 DEF Collected
<1>6. /\ ~(0 >= 8) /\ ~(0 >= DataBits + 15) /\ ~(0 >= DataBits + 14) /\ ~(0 >= DataBits + 10) /\ ~(0 >= 9) /\ 0 >= 0
  OBVIOUS
<1>7. /\ t.state = "header" => ~(0 >= 8 - j)
      /\ t.state = "ack" => ~(0 >= DataBits + 13 - j)
      /\ t.state = "rdata" => ~(0 >= DataBits + 10 - j)
      /\ t.state = "wdata" => ~(0 >= DataBits + 9 - j)
  BY <1>3, <1>4, <1>5
<1>8. QED
  BY <1>1, <1>2, <1>6, <1>7 DEF Ends, States

LEMMA EndsNext ==
  ASSUME Target(target), Target(target'), NEW l \in Bit, Cycled(target, target', l),
         target.state # "header" => Kept(target, target'),
         ~Driving => l = 1, NEW m \in Nat, Ends(target, m + 1)
  PROVE  Ends(target', m)
<1>1. target.state \in States /\ target.got \in Seq(Bit) /\ Collected(target)
  BY DEF Target
<1>2. target'.state \in States /\ target'.got \in Seq(Bit) /\ Collected(target')
  BY DEF Target
<1>3. PICK j \in Nat, j2 \in Nat : j = Len(target.got) /\ j2 = Len(target'.got)
  BY <1>1, <1>2
<1>4. CASE target.state = "idle"
  <2>1. l = 1 /\ m + 1 >= 8
    BY <1>4 DEF Driving, Ends
  <2>2. target'.state = "header" /\ j2 = 1
    BY <1>3, <1>4, <2>1 DEF Cycled
  <2>3. QED
    BY <1>3, <2>1, <2>2 DEF Ends
<1>5. CASE target.state = "header"
  <2>1. l = 1 /\ j \in 1..7
    BY <1>1, <1>3, <1>5 DEF Driving, Collected
  <2>2. m + 1 >= DataBits + 15 \/ (m + 1 >= 8 - j /\ (j = 7 => target.got[7] = 1))
    BY <1>3, <1>5 DEF Ends
  <2>3. PICK h \in Seq(Bit) : h = Append(target.got, l) /\ Len(h) = j + 1 /\ h[j + 1] = l
                              /\ \A k \in 1..j : h[k] = target.got[k]
    <3>1. /\ Append(target.got, l) \in Seq(Bit) /\ Len(Append(target.got, l)) = j + 1
          /\ Append(target.got, l)[j + 1] = l
          /\ \A k \in 1..j : Append(target.got, l)[k] = target.got[k]
      BY <1>1, <1>3, Appended
    <3>2. QED
      BY <3>1, Zenon
  <2>4. CASE j < 7
    <3>1. target'.state = "header" /\ target'.got = h /\ j2 = j + 1
      <4>1. Len(h) < 8
        BY <2>3, <2>4
      <4>2. target'.state = "header" /\ target'.got = h
        BY <1>5, <2>3, <4>1 DEF Cycled
      <4>3. QED
        BY <1>3, <2>3, <4>2
    <3>2. j2 = 7 => target'.got[7] = 1
      BY <2>1, <2>3, <3>1
    <3>3. m >= 8 - j2
      BY <2>1, <2>2, <3>1
    <3>4. QED
      BY <1>3, <3>1, <3>2, <3>3 DEF Ends
  <2>5. CASE j = 7
    <3>1. ~(Len(h) < 8)
      BY <2>3, <2>5
    <3>2. CASE m + 1 >= DataBits + 15
      <4>1. target'.state = "turn" \/ target'.state = "lost"
        BY <1>5, <2>3, <3>1 DEF Cycled
      <4>2. m >= DataBits + 14 /\ m >= 0
        BY <3>2
      <4>3. QED
        BY <4>1, <4>2 DEF Ends
    <3>3. CASE target.got[7] = 1
      <4>1. ~Valid(h)
        BY <2>3, <2>5, <3>3 DEF Valid
      <4>2. target'.state = "lost"
        BY <1>5, <2>3, <3>1, <4>1 DEF Cycled
      <4>3. QED
        BY <4>2 DEF Ends
    <3>4. QED
      BY <2>2, <2>5, <3>2, <3>3
  <2>6. QED
    BY <2>1, <2>4, <2>5
<1>6. CASE target.state = "turn"
  <2>1. target'.state = "ack" /\ j2 = 0 /\ m + 1 >= DataBits + 14
    BY <1>3, <1>6 DEF Cycled, Ends
  <2>2. QED
    BY <1>3, <2>1 DEF Ends
<1>7. CASE target.state = "ack"
  <2>1. m + 1 >= DataBits + 13 - j /\ j \in 0..2
    BY <1>1, <1>3, <1>7 DEF Ends, Collected
  <2>2. CASE j < 2
    <3>1. target'.state = "ack" /\ j2 = j + 1
      BY <1>3, <1>7, <2>2 DEF Cycled
    <3>2. m >= DataBits + 13 - j2
      BY <2>1, <3>1
    <3>3. QED
      BY <1>3, <3>1, <3>2 DEF Ends
  <2>3. CASE ~(j < 2)
    <3>1. (target'.state = "rdata" /\ j2 = 0) \/ target'.state = "turnback"
      BY <1>3, <1>7, <2>3 DEF Cycled
    <3>2. m >= DataBits + 10 /\ (j2 = 0 => m >= DataBits + 10 - j2)
      BY <2>1, <2>3
    <3>3. QED
      BY <1>3, <3>1, <3>2 DEF Ends
  <2>4. QED
    BY <2>2, <2>3
<1>8. CASE target.state = "rdata"
  <2>1. m + 1 >= DataBits + 10 - j /\ j \in 0..DataBits /\ target.ack = 1 /\ Reading(target.cmd)
    BY <1>1, <1>3, <1>8 DEF Ends, Collected
  <2>2. CASE j < DataBits
    <3>1. target'.state = "rdata" /\ j2 = j + 1
      BY <1>3, <1>8, <2>2 DEF Cycled
    <3>2. m >= DataBits + 10 - j2
      BY <2>1, <3>1
    <3>3. QED
      BY <1>3, <3>1, <3>2 DEF Ends
  <2>3. CASE ~(j < DataBits)
    <3>1. target'.state = "turnback" /\ target'.cmd = target.cmd
      BY <1>3, <1>8, <2>3 DEF Cycled, Kept
    <3>2. m >= 9 /\ ~(target'.ack = 1 /\ ~Reading(target'.cmd))
      BY <2>1, <2>3, <3>1
    <3>3. QED
      BY <3>1, <3>2 DEF Ends
  <2>4. QED
    BY <2>2, <2>3
<1>9. CASE target.state = "turnback"
  <2>1. m + 1 >= DataBits + 10 \/ (m + 1 >= 9 /\ ~(target.ack = 1 /\ ~Reading(target.cmd)))
    BY <1>9 DEF Ends
  <2>2. IF target.ack = 1 /\ ~Reading(target.cmd) THEN target'.state = "wdata" /\ j2 = 0 ELSE target'.state = "idle"
    BY <1>3, <1>9 DEF Cycled
  <2>3. m >= 8 /\ (target.ack = 1 /\ ~Reading(target.cmd) /\ j2 = 0 => m >= DataBits + 9 - j2)
    BY <2>1
  <2>4. QED
    BY <1>3, <2>2, <2>3 DEF Ends
<1>10. CASE target.state = "wdata"
  <2>1. m + 1 >= DataBits + 9 - j /\ j \in 0..DataBits
    BY <1>1, <1>3, <1>10 DEF Ends, Collected
  <2>2. CASE j < DataBits
    <3>1. l \in Bit /\ Len(Append(target.got, l)) = j + 1
      BY <1>1, <1>3, Appended
    <3>2. target'.state = "wdata" /\ j2 = j + 1
      BY <1>3, <1>10, <2>2, <3>1 DEF Cycled
    <3>3. m >= DataBits + 9 - j2
      BY <2>1, <3>2
    <3>4. QED
      BY <1>3, <3>2, <3>3 DEF Ends
  <2>3. CASE ~(j < DataBits)
    <3>1. target'.state = "idle"
      BY <1>3, <1>10, <2>3 DEF Cycled
    <3>2. QED
      BY <2>1, <2>3, <3>1 DEF Ends
  <2>4. QED
    BY <2>2, <2>3
<1>11. CASE target.state = "lost"
  <2>1. target'.state = "lost"
    BY <1>11 DEF Cycled
  <2>2. QED
    BY <2>1 DEF Ends
<1>12. QED
  BY <1>1, <1>4, <1>5, <1>6, <1>7, <1>8, <1>9, <1>10, <1>11 DEF States

(* One cycle of the sequence.                                                    *)
LEMMA SwitchingNext ==
  ASSUME Types, LineTypes, NEW l \in Bit, SWDGPIOBBD_sequence(l), job = "connect", Switching
  PROVE  IF n < 135 THEN Switching' ELSE target'.state = "idle" /\ ones' = 0
<1>1. /\ job' = job /\ n \in 0..135
      /\ IF n < 135 THEN n' = n + 1 /\ phase' = phase ELSE n' = 0 /\ phase' = "done"
      /\ l \in Line("output", swd_sequence_jtag2swd[n + 1]) /\ TargetCycle(l)
  <2>1. phase = "sequence" /\ Types
    BY DEF SWDGPIOBBD_sequence
  <2>2. n \in 0..135
    BY <2>1 DEF Types, HostTypes, LastCycle
  <2>3. QED
    BY <2>1, <2>2, SequenceTypes DEF host
<1>2. Target(target) /\ Target(target') /\ LineTypes' /\ ones \in 0..ResetOnes /\ ones' \in 0..ResetOnes
  BY <1>1, Cycles DEF LineTypes
<1>3. ~Driving => l = swd_sequence_jtag2swd[n + 1]
  BY <1>1, Forced
<1>4. swd_sequence_jtag2swd[n + 1] =
        IF n <= 55 \/ n \in 57..60 \/ n \in 63..66 \/ n \in 69..127 THEN 1 ELSE 0
  <2>1. PICK k \in 1..136 : k = n + 1
    BY <1>1
  <2>2. \A i \in 1..136 :
          swd_sequence_jtag2swd[i] = IF i <= 56 \/ i \in 58..61 \/ i \in 64..67 \/ i \in 70..128 THEN 1 ELSE 0
    BY SequenceBits
  <2>3. QED
    BY <1>1, <2>1, <2>2
<1>5. /\ ones' = IF Driving \/ l = 0 THEN 0 ELSE IF ones + 1 <= ResetOnes THEN ones + 1 ELSE ResetOnes
      /\ ones' = ResetOnes => target' = IdleTarget
      /\ ones' # ResetOnes => /\ Cycled(target, target', l)
                              /\ target.state # "header" => Kept(target, target')
  BY <1>1, Cycles
<1>6. IdleTarget.state = "idle"
  BY Idle
<1>7. CASE n <= 55
  <2>1. ~Driving => l = 1
    BY <1>3, <1>4, <1>7
  <2>2. n' = n + 1 /\ n < 135 /\ n' <= 56
        /\ n' # 57 /\ n' \notin 58..64 /\ n' \notin 65..69 /\ n' \notin 70..128 /\ n' \notin 129..135
    BY <1>1, <1>7
  <2>3. CASE ones' = ResetOnes
    <3>1. WasReset'
      BY <1>5, <1>6, <2>3 DEF WasReset
    <3>2. QED
      BY <2>2, <3>1 DEF Switching
  <2>4. CASE ones' # ResetOnes
    <3>1. ~WasReset
      BY <1>2, <1>5, <2>1, <2>4 DEF WasReset, Driving
    <3>2. PICK m \in Nat : m = Left(n) /\ Ends(target, m)
      <4>1. Left(n) \in Nat
        BY <1>1 DEF Left
      <4>2. WasReset \/ Ends(target, Left(n))
        <5>1. n <= 56
          BY <1>1, <1>7
        <5>2. QED
          BY <5>1 DEF Switching
      <4>3. QED
        BY <3>1, <4>1, <4>2, Zenon
    <3>3. CASE m = 0
      <4>1. target'.state = "lost"
        BY <1>2, <1>5, <2>4, <3>2, <3>3, EndsLost DEF Cycled
      <4>2. Left(n') = 0
        BY <1>1, <2>2, <3>2, <3>3 DEF Left
      <4>3. Ends(target', 0)
        BY <4>1 DEF Ends
      <4>4. QED
        BY <2>2, <4>2, <4>3 DEF Switching
    <3>4. CASE m # 0
      <4>1. PICK m1 \in Nat : m = m1 + 1 /\ m1 = Left(n')
        <5>1. Left(n') \in Nat /\ m = Left(n') + 1
          BY <1>1, <2>2, <3>2, <3>4 DEF Left
        <5>2. QED
          BY <5>1
      <4>2. Ends(target', m1)
        BY <1>2, <1>5, <2>1, <2>4, <3>2, <4>1, EndsNext
      <4>3. QED
        BY <2>2, <4>1, <4>2 DEF Switching
    <3>5. QED
      BY <3>3, <3>4
  <2>5. QED
    BY <2>3, <2>4
<1>8. CASE n = 56
  <2>1. n' = 57 /\ n < 135
    BY <1>1, <1>8
  <2>2. WasReset \/ Lost
    <3>1. Left(56) = 0
      BY DEF Left
    <3>2. WasReset \/ Ends(target, 0)
      BY <1>8, <3>1 DEF Switching
    <3>3. QED
      BY <1>2, <3>2, EndsLost DEF Lost
  <2>3. l = 0 /\ ones' = 0
    BY <1>2, <1>3, <1>4, <1>5, <1>8, <2>2, Idling DEF WasReset
  <2>4. Cycled(target, target', l)
    BY <1>5, <2>3
  <2>5. target'.state = "lost" \/ target'.state = "idle"
    <3>1. target.state = "idle" \/ target.state = "lost"
      BY <2>2 DEF WasReset, Lost
    <3>2. target.state = "idle" => target' = target
      BY <2>3, <2>4 DEF Cycled
    <3>3. QED
      BY <2>4, <3>1, <3>2 DEF Cycled
  <2>6. QED
    BY <2>1, <2>3, <2>5 DEF Switching, Lost, WasReset
<1>9. CASE n = 57
  <2>1. n' = 58 /\ n < 135
    BY <1>1, <1>9
  <2>2. ones = 0 /\ (Lost \/ target.state = "idle")
    BY <1>9 DEF Switching
  <2>3. l = 1 /\ ones' = 1
    BY <1>2, <1>3, <1>4, <1>5, <1>9, <2>2, Idling
  <2>4. Cycled(target, target', l)
    BY <1>5, <2>3
  <2>5. target'.state = "lost" \/ (target'.state = "header" /\ Len(target'.got) = 1)
    BY <2>2, <2>3, <2>4 DEF Cycled, Lost
  <2>6. QED
    BY <2>1, <2>3, <2>5 DEF Switching, Lost, WasReset
<1>10. CASE n \in 58..63
  <2>1. n' = n + 1 /\ n < 135 /\ n' \in 59..64 /\ n' - 57 = (n - 57) + 1
        /\ ~(n' <= 56) /\ n' # 57 /\ n' \in 58..64
        /\ n' \notin 65..69 /\ n' \notin 70..128 /\ n' \notin 129..135
    BY <1>1, <1>10
  <2>2. /\ ones <= n - 57 /\ (n = 63 => ones = 0)
        /\ Lost \/ (target.state = "header" /\ Len(target.got) = n - 57)
    BY <1>10 DEF Switching
  <2>3. ~Driving
    BY <1>2, <2>2, Idling DEF Driving
  <2>4. (n \in {61, 62} => l = 0) /\ (n = 63 => l = 1)
    BY <1>3, <1>4, <2>3
  <2>5. ones' <= n' - 57 /\ (n' = 63 => ones' = 0) /\ (n' = 64 => ones' <= 1) /\ ones' # ResetOnes
    BY <1>2, <1>5, <1>10, <2>1, <2>2, <2>3, <2>4
  <2>6. CASE Lost
    <3>1. Lost'
      BY <1>5, <2>5, <2>6 DEF Cycled, Lost
    <3>2. QED
      BY <2>1, <2>5, <3>1 DEF Switching, Lost, WasReset
  <2>7. CASE target.state = "header" /\ Len(target.got) = n - 57
    <3>1. PICK j \in 1..6 : j = n - 57 /\ j = Len(target.got) /\ n' - 57 = j + 1
      BY <1>10, <2>1, <2>7
    <3>2. target.got \in Seq(Bit)
      BY <1>2 DEF Target
    <3>3. Len(Append(target.got, l)) = j + 1 /\ Append(target.got, l)[j + 1] = l
      BY <3>1, <3>2, Appended
    <3>4. target'.state = "header" /\ Len(target'.got) = j + 1 /\ target'.got[j + 1] = l
      <4>1. Cycled(target, target', l) /\ Len(Append(target.got, l)) < 8
        BY <1>5, <2>5, <3>1, <3>3
      <4>2. target'.state = "header" /\ target'.got = Append(target.got, l)
        BY <2>7, <4>1 DEF Cycled
      <4>3. QED
        BY <3>3, <4>2
    <3>5. n' = 64 => j + 1 = 7 /\ l = 1
      BY <1>1, <1>10, <2>1, <2>4, <3>1
    <3>6. Len(target'.got) = n' - 57 /\ (n' = 64 => target'.got[7] = 1)
      BY <3>1, <3>4, <3>5
    <3>7. QED
      BY <2>1, <2>5, <3>4, <3>6 DEF Switching
  <2>8. QED
    BY <2>2, <2>6, <2>7
<1>11. CASE n = 64
  <2>1. n' = 65 /\ n < 135
    BY <1>1, <1>11
  <2>2. ones <= 1 /\ (Lost \/ (target.state = "header" /\ Len(target.got) = 7 /\ target.got[7] = 1))
    BY <1>11 DEF Switching
  <2>3. l = 1 /\ ones' <= 2
    BY <1>2, <1>3, <1>4, <1>5, <1>11, <2>2, Idling DEF Driving
  <2>4. Lost'
    <3>1. CASE Lost
      BY <1>2, <1>5, <2>3, <3>1 DEF Cycled, Lost
    <3>2. CASE target.state = "header" /\ Len(target.got) = 7 /\ target.got[7] = 1
      <4>1. target.got \in Seq(Bit)
        BY <1>2 DEF Target
      <4>2. PICK h : h = Append(target.got, l) /\ Len(h) = 8 /\ h[7] = 1
        <5>1. PICK j \in Nat : j = 7 /\ j = Len(target.got) /\ target.got[j] = 1
          BY <3>2
        <5>2. j \in 1..j
          BY <5>1
        <5>3. Len(Append(target.got, l)) = j + 1 /\ Append(target.got, l)[j] = target.got[j]
          <6>1. /\ \A k \in 1..Len(target.got) : Append(target.got, l)[k] = target.got[k]
                /\ Len(Append(target.got, l)) = Len(target.got) + 1
            BY <4>1, Appended
          <6>2. QED
            BY <5>1, <5>2, <6>1
        <5>4. Len(Append(target.got, l)) = 8 /\ Append(target.got, l)[7] = 1
          BY <5>1, <5>3
        <5>5. QED
          BY <5>4
      <4>3. ~Valid(h) /\ ~(Len(h) < 8)
        BY <4>2 DEF Valid
      <4>4. QED
        BY <1>2, <1>5, <2>3, <3>2, <4>2, <4>3 DEF Cycled, Lost
    <3>3. QED
      BY <2>2, <3>1, <3>2
  <2>5. QED
    BY <1>2, <2>1, <2>3, <2>4 DEF Switching, Lost, WasReset
<1>12. CASE n \in 65..68
  <2>1. n' = n + 1 /\ n < 135 /\ n' \in 66..69
        /\ ~(n' <= 56) /\ n' # 57 /\ n' \in 65..69
        /\ n' \notin 58..64 /\ n' \notin 70..128 /\ n' \notin 129..135
    BY <1>1, <1>12
  <2>2. Lost /\ ones <= n - 63 /\ (n >= 68 => ones = 0)
    BY <1>12 DEF Switching
  <2>3. n \in {67, 68} => l = 0
    BY <1>2, <1>3, <1>4, <2>2, Idling
  <2>4. ones' <= n' - 63 /\ (n' >= 68 => ones' = 0) /\ ones' # ResetOnes
    BY <1>2, <1>5, <1>12, <2>1, <2>2, <2>3
  <2>5. Lost'
    BY <1>5, <2>2, <2>4 DEF Cycled, Lost
  <2>6. QED
    BY <2>1, <2>4, <2>5 DEF Switching, Lost, WasReset
<1>13. CASE n = 69
  <2>1. n' = 70 /\ n < 135 /\ n' - 69 = 1 /\ n' - 69 < ResetOnes
    BY <1>1, <1>13
  <2>2. Lost /\ ones = 0
    BY <1>13 DEF Switching
  <2>3. l = 1 /\ ones' = 1
    BY <1>2, <1>3, <1>4, <1>5, <1>13, <2>2, Idling
  <2>4. Lost'
    BY <1>5, <2>2, <2>3 DEF Cycled, Lost
  <2>5. QED
    BY <2>1, <2>3, <2>4 DEF Switching, Lost, WasReset
<1>14. CASE n \in 70..127
  <2>1. n' = n + 1 /\ n < 135 /\ n' \in 71..128 /\ n' - 69 = (n - 69) + 1
        /\ ~(n' <= 56) /\ n' # 57 /\ n' \in 70..128
        /\ n' \notin 58..64 /\ n' \notin 65..69 /\ n' \notin 129..135
    BY <1>1, <1>14
  <2>2. IF n - 69 < ResetOnes THEN ones = n - 69 /\ Lost ELSE WasReset
    BY <1>14 DEF Switching
  <2>3. l = 1 /\ ~Driving
    BY <1>2, <1>3, <1>4, <1>14, <2>2, Idling DEF WasReset
  <2>4. CASE n' - 69 < ResetOnes
    <3>1. ones' = n' - 69 /\ ones' # ResetOnes
      BY <1>5, <1>14, <2>1, <2>2, <2>3, <2>4
    <3>2. Lost'
      <4>1. Lost /\ Cycled(target, target', l)
        BY <1>5, <1>14, <2>1, <2>2, <2>4, <3>1
      <4>2. QED
        BY <4>1 DEF Cycled, Lost
    <3>3. QED
      BY <2>1, <2>4, <3>1, <3>2 DEF Switching, Lost, WasReset
  <2>5. CASE ~(n' - 69 < ResetOnes)
    <3>1. ones' = ResetOnes
      BY <1>5, <1>14, <2>1, <2>2, <2>3, <2>5 DEF WasReset
    <3>2. WasReset'
      BY <1>5, <1>6, <3>1 DEF WasReset
    <3>3. QED
      BY <2>1, <2>5, <3>2 DEF Switching, Lost, WasReset
  <2>6. QED
    BY <2>4, <2>5
<1>15. CASE n \in 128..135
  <2>1. target.state = "idle"
    <3>1. CASE n = 128
      <4>1. ~(n - 69 < ResetOnes)
        BY <3>1
      <4>2. QED
        BY <3>1, <4>1 DEF Switching, WasReset
    <3>2. CASE n \in 129..135
      BY <3>2 DEF Switching
    <3>3. QED
      BY <1>15, <3>1, <3>2
  <2>2. l = 0
    BY <1>2, <1>3, <1>4, <1>15, <2>1, Idling
  <2>3. ones' = 0
    BY <1>5, <2>2
  <2>4. target'.state = "idle"
    BY <1>5, <2>1, <2>2, <2>3 DEF Cycled
  <2>5. n < 135 => /\ n' \in 129..135 /\ ~(n' <= 56) /\ n' # 57 /\ n' \notin 58..64 /\ n' \notin 65..69
                   /\ n' \notin 70..128
    BY <1>1, <1>15
  <2>6. n < 135 => Switching'
    BY <2>3, <2>4, <2>5 DEF Switching
  <2>7. QED
    BY <2>3, <2>4, <2>6
<1>16. QED
  BY <1>1, <1>7, <1>8, <1>9, <1>10, <1>11, <1>12, <1>13, <1>14, <1>15

(* A target that was idle does not drive the line while the host connects.       *)
LEMMA QuietNext ==
  ASSUME Types, LineTypes, NEW l \in Bit, SWDGPIOBBD_sequence(l), job = "connect", Switching, Quiet
  PROVE  Quiet'
<1>1. /\ phase = "sequence" /\ n \in 0..135
      /\ IF n < 135 THEN n' = n + 1 /\ phase' = phase ELSE n' = 0 /\ phase' = "done"
      /\ l \in Line("output", swd_sequence_jtag2swd[n + 1]) /\ TargetCycle(l)
  <2>1. phase = "sequence" /\ Types
    BY DEF SWDGPIOBBD_sequence
  <2>2. n \in 0..135
    BY <2>1 DEF Types, HostTypes, LastCycle
  <2>3. QED
    BY <2>1, <2>2, SequenceTypes DEF host
<1>2. Target(target) /\ target.got \in Seq(Bit) /\ Collected(target)
  BY DEF LineTypes, Target
<1>3. CASE n <= 55
  <2>1. swd_sequence_jtag2swd[n + 1] = 1
    <3>1. PICK k \in 1..136 : k = n + 1 /\ k <= 56
      BY <1>1, <1>3
    <3>2. \A i \in 1..136 :
            swd_sequence_jtag2swd[i] = IF i <= 56 \/ i \in 58..61 \/ i \in 64..67 \/ i \in 70..128 THEN 1 ELSE 0
      BY SequenceBits
    <3>3. QED
      BY <3>1, <3>2
  <2>2. ~Driving /\ l = 1
    BY <1>1, <2>1, Forced DEF Quiet, Driving
  <2>3. CASE ones' = ResetOnes
    <3>1. target' = IdleTarget
      BY <1>1, <2>3, Cycles
    <3>2. QED
      BY <3>1, Idle DEF Quiet
  <2>4. CASE ones' # ResetOnes
    <3>1. Cycled(target, target', l)
      BY <1>1, <2>4, Cycles
    <3>2. CASE target.state = "idle"
      <4>1. target'.state = "header" /\ Len(target'.got) = 1
        BY <2>2, <3>1, <3>2 DEF Cycled
      <4>2. QED
        BY <4>1 DEF Quiet
    <3>3. CASE target.state = "header"
      <4>1. PICK j \in 1..7 : j = Len(target.got) /\ (j = 7 => target.got[7] = 1)
        BY <1>2, <3>3 DEF Quiet, Collected
      <4>2. PICK h : /\ h = Append(target.got, l) /\ Len(h) = j + 1 /\ h[j + 1] = 1
                     /\ \A k \in 1..j : h[k] = target.got[k]
        <5>1. /\ Len(Append(target.got, l)) = j + 1 /\ Append(target.got, l)[j + 1] = 1
              /\ \A k \in 1..j : Append(target.got, l)[k] = target.got[k]
          BY <1>2, <2>2, <4>1, Appended
        <5>2. QED
          BY <5>1, Zenon
      <4>3. CASE j < 7
        <5>1. Len(h) < 8
          BY <4>2, <4>3
        <5>2. target'.state = "header" /\ target'.got = h
          BY <3>1, <3>3, <4>2, <5>1 DEF Cycled
        <5>3. Len(h) = 7 => h[7] = 1
          BY <4>2
        <5>4. QED
          BY <5>2, <5>3 DEF Quiet
      <4>4. CASE j = 7
        <5>1. ~(Len(h) < 8) /\ h[7] = 1
          BY <4>1, <4>2, <4>4
        <5>2. ~Valid(h)
          BY <5>1 DEF Valid
        <5>3. target'.state = "lost"
          BY <3>1, <3>3, <4>2, <5>1, <5>2 DEF Cycled
        <5>4. QED
          BY <5>3 DEF Quiet
      <4>5. j < 7 \/ j = 7
        OBVIOUS
      <4>6. QED
        BY <4>3, <4>4, <4>5
    <3>4. CASE target.state = "lost"
      <4>1. target'.state = "lost"
        BY <3>1, <3>4 DEF Cycled
      <4>2. QED
        BY <4>1 DEF Quiet
    <3>5. QED
      BY <3>2, <3>3, <3>4 DEF Quiet
  <2>5. QED
    BY <2>3, <2>4
<1>4. CASE n \in 56..134
  <2>1. Switching' /\ n' \in 57..135
    BY <1>1, <1>4, SwitchingNext
  <2>2. PICK m \in 57..135 : m = n'
    BY <2>1
  <2>3. \/ target'.state = "idle" \/ target'.state = "lost"
        \/ target'.state = "header" /\ Len(target'.got) = n' - 57 /\ (n' = 64 => target'.got[7] = 1)
    <3>1. n' = 57 \/ n' \in 58..64 \/ n' \in 65..69 \/ n' \in 70..128 \/ n' \in 129..135
      BY <2>1
    <3>2. CASE n' \in 70..128
      <4>1. IF n' - 69 < ResetOnes THEN Lost' ELSE WasReset'
        BY <2>1, <3>2 DEF Switching
      <4>2. QED
        BY <4>1 DEF Lost, WasReset
    <3>3. CASE n' \notin 70..128
      BY <2>1, <3>1, <3>3 DEF Switching, Lost
    <3>4. QED
      BY <3>2, <3>3
  <2>4. m - 57 = 7 => m = 64
    BY <2>2
  <2>5. QED
    BY <2>2, <2>3, <2>4 DEF Quiet
<1>5. CASE n = 135
  <2>1. target'.state = "idle"
    BY <1>1, <1>5, SwitchingNext
  <2>2. QED
    BY <2>1 DEF Quiet
<1>6. QED
  BY <1>1, <1>3, <1>4, <1>5

LEMMA ApartSequence ==
  ASSUME Types, LineTypes, Apart, NEW l \in Bit, SWDGPIOBBD_sequence(l)
  PROVE  Apart'
<1>1. /\ UNCHANGED host /\ job \in {"connect", "disconnect"} /\ stray' = stray /\ phase = "sequence"
      /\ n < (IF job = "connect" THEN 135 ELSE 7) => n' = n + 1 /\ phase' = phase
      /\ ~(n < (IF job = "connect" THEN 135 ELSE 7)) => n' = 0 /\ phase' = "done"
      /\ l \in Line("output", IF job = "connect" THEN swd_sequence_jtag2swd[n + 1] ELSE 0)
      /\ TargetCycle(l)
  BY SequenceTypes DEF SWDGPIOBBD_sequence
<1>2. job' = job
  BY <1>1 DEF host
<1>3. CASE job = "connect"
  <2>1. Switching /\ (~stray => Quiet)
    BY <1>1, <1>3 DEF Apart
  <2>2. IF n < 135 THEN Switching' ELSE target'.state = "idle" /\ ones' = 0
    BY <1>3, <2>1, SwitchingNext
  <2>3. ~stray => Quiet'
    BY <1>3, <2>1, QuietNext
  <2>4. (phase' = "sequence" => n < 135) /\ (phase' = "done" => ~(n < 135))
    BY <1>1, <1>3
  <2>5. QED
    BY <1>1, <1>2, <1>3, <2>2, <2>3, <2>4 DEF Apart
<1>4. CASE job = "disconnect"
  <2>1. ASSUME ~stray PROVE target'.state = "idle"
    <3>1. target.state = "idle" /\ ~Driving
      BY <1>4, <2>1 DEF Apart, Driving
    <3>2. l = 0
      BY <1>1, <1>4, <3>1, Forced
    <3>3. Cycled(target, target', 0)
      BY <1>1, <3>2, ZeroCycles
    <3>4. QED
      BY <3>1, <3>3 DEF Cycled
  <2>2. QED
    BY <1>1, <1>2, <1>4, <2>1 DEF Apart
<1>5. QED
  BY <1>1, <1>3, <1>4

-----------------------------------------------------------------------------
(* In step, one phase after the other *)

LEMMA CmdValid ==
  ASSUME Types, Transferring
  PROVE  cmd \in Bits(8) /\ Valid(cmd)
<1>1. cmd \in Cmds \cup {ABORT_CMD, CTRLSTAT_R_CMD}
  BY DEF Types, Locals, Transferring
<1>2. QED
  BY <1>1, CmdsAssumption

(* An astray data word leaves nothing to prove of a phase before send.           *)
LEMMA NotAstray ==
  ASSUME Accomplished, stray, phase \in {"command", "turn2read", "ack", "waitturn", "receive", "turn2write"}
  PROVE  job # "transfer"
  BY DEF Accomplished

LEMMA CommandInStep ==
  ASSUME IInv, NEW l \in Bit, SWDGPIOBBD_command(l)
  PROVE  Together' /\ Accomplished'
<1>1. /\ Types /\ LineTypes /\ Together /\ Accomplished /\ Transferring /\ phase = "command" /\ n \in 0..7
      /\ IF n < 7 THEN n' = n + 1 /\ phase' = "command" ELSE n' = 0 /\ phase' = "turn2read"
      /\ l \in Line("output", cmd[n + 1]) /\ TargetCycle(l) /\ stray' = stray
      /\ job' = job /\ cmd' = cmd /\ data' = data /\ ack' = ack
  BY CommandTypes DEF IInv, host
<1>2. CASE stray
  <2>1. job # "transfer"
    BY <1>1, <1>2, NotAstray
  <2>2. QED
    BY <1>1, <1>2, <2>1 DEF Together, Accomplished
<1>3. CASE ~stray
  <2>1. /\ ones <= n
        /\ n = 0 => target.state = "idle"
        /\ n > 0 => target.state = "header" /\ Len(target.got) = n /\ \A k \in 1..n : target.got[k] = cmd[k]
    BY <1>1, <1>3 DEF Together, InStepCommand
  <2>2. /\ ~Driving /\ (target.state = "idle" \/ target.state = "header") /\ ones <= n
        /\ n = 0 => target.state = "idle"
    <3>1. n = 0 \/ n > 0
      BY <1>1
    <3>2. target.state = "idle" \/ target.state = "header"
      BY <2>1, <3>1
    <3>3. ~Driving
      BY <3>2 DEF Driving
    <3>4. QED
      BY <2>1, <3>2, <3>3
  <2>3. l = cmd[n + 1]
    BY <1>1, <2>2, Forced
  <2>4. Target(target) /\ target.got \in Seq(Bit) /\ ones \in 0..ResetOnes
    BY <1>1 DEF LineTypes, Target
  <2>5. ones' <= n + 1 /\ ones' # ResetOnes
    <3>1. ones' = IF Driving \/ l = 0 THEN 0 ELSE IF ones + 1 <= ResetOnes THEN ones + 1 ELSE ResetOnes
      BY <1>1, Cycles
    <3>2. ones <= 7 /\ n <= 7 /\ ones + 1 < ResetOnes
      BY <1>1, <2>2, <2>4
    <3>3. QED
      BY <1>1, <2>2, <2>4, <3>1, <3>2
  <2>6. Cycled(target, target', l) /\ performed' = performed
    <3>1. Cycled(target, target', l) /\ Performed(l)
      BY <1>1, <2>5, Cycles
    <3>2. QED
      BY <2>2, <3>1 DEF Performed
  <2>7. cmd \in Bits(8) /\ Valid(cmd)
    BY <1>1, CmdValid
  <2>8. CASE n = 0
    <3>1. l = 1
      BY <2>3, <2>7, <2>8 DEF Valid
    <3>2. target'.state = "header" /\ Len(target'.got) = 1 /\ target'.got[1] = 1
      BY <2>2, <2>6, <2>8, <3>1 DEF Cycled
    <3>3. \A k \in 1..1 : target'.got[k] = cmd[k]
      BY <2>3, <2>8, <3>1, <3>2
    <3>4. n' = 1 /\ phase' = "command"
      BY <1>1, <2>8
    <3>5. InStepCommand'
      BY <1>1, <2>5, <2>8, <3>2, <3>3, <3>4 DEF InStepCommand
    <3>6. QED
      BY <1>1, <1>3, <2>6, <3>4, <3>5 DEF Together, Accomplished
  <2>9. CASE n # 0
    <3>1. n \in 1..7 /\ target.state = "header" /\ Len(target.got) = n
      BY <1>1, <2>1, <2>9
    <3>2. PICK h \in Seq(Bit) : /\ h = Append(target.got, l) /\ Len(h) = n + 1 /\ h[n + 1] = l
                                /\ \A k \in 1..n : h[k] = target.got[k]
      <4>1. /\ Append(target.got, l) \in Seq(Bit) /\ Len(Append(target.got, l)) = n + 1
            /\ Append(target.got, l)[n + 1] = l
            /\ \A k \in 1..n : Append(target.got, l)[k] = target.got[k]
        BY <2>4, <3>1, Appended
      <4>2. QED
        BY <4>1, Zenon
    <3>3. \A k \in 1..(n + 1) : h[k] = cmd[k]
      BY <1>1, <2>1, <2>3, <3>1, <3>2
    <3>4. CASE n < 7
      <4>1. target'.state = "header" /\ target'.got = h
        <5>1. Len(h) < 8
          BY <3>1, <3>2, <3>4
        <5>2. QED
          BY <2>6, <3>1, <3>2, <5>1 DEF Cycled
      <4>2. n' = n + 1 /\ phase' = "command" /\ n' # 0
        BY <1>1, <3>1, <3>4
      <4>3. InStepCommand'
        BY <1>1, <2>5, <3>2, <3>3, <4>1, <4>2 DEF InStepCommand
      <4>4. QED
        BY <1>1, <1>3, <2>6, <4>2, <4>3 DEF Together, Accomplished
    <3>5. CASE n = 7
      <4>1. Len(h) = 8 /\ \A k \in 1..8 : h[k] = cmd[k]
        BY <3>2, <3>3, <3>5
      <4>2. h \in Bits(8)
        BY <4>1, Whole
      <4>3. h = cmd
        BY <2>7, <4>1, <4>2 DEF Bits
      <4>4. ~(Len(h) < 8)
        BY <4>1
      <4>5. /\ target'.state = "turn" /\ target'.cmd = cmd
            /\ (target'.ack = 1 /\ Reading(cmd) => target'.word \in Words)
        BY <2>6, <2>7, <3>1, <3>2, <4>3, <4>4 DEF Cycled
      <4>6. n' = 0 /\ phase' = "turn2read" /\ ones' <= 8
        BY <1>1, <2>5, <3>5
      <4>7. InStepTurn2Read'
        BY <1>1, <4>5, <4>6 DEF InStepTurn2Read, Answering
      <4>8. QED
        BY <1>1, <1>3, <2>6, <4>6, <4>7 DEF Together, Accomplished
    <3>6. QED
      BY <3>1, <3>4, <3>5
  <2>10. QED
    BY <2>8, <2>9
<1>4. QED
  BY <1>2, <1>3

LEMMA Turn2ReadInStep ==
  ASSUME IInv, NEW l \in Bit, SWDGPIOBBD_cycleTurnaround2Read(l)
  PROVE  Together' /\ Accomplished'
<1>1. /\ Types /\ LineTypes /\ Together /\ Accomplished /\ Transferring /\ phase = "turn2read"
      /\ n' = 0 /\ phase' = "ack" /\ l \in Line("input", 0) /\ TargetCycle(l) /\ stray' = stray
      /\ job' = job /\ cmd' = cmd /\ data' = data /\ ack' = ack
  BY Turn2ReadTypes DEF IInv, host
<1>2. CASE stray
  <2>1. job # "transfer"
    BY <1>1, <1>2, NotAstray
  <2>2. QED
    BY <1>1, <1>2, <2>1 DEF Together, Accomplished
<1>3. CASE ~stray
  <2>1. target.state = "turn" /\ Answering
    BY <1>1, <1>3 DEF Together, InStepTurn2Read
  <2>2. l = 0
    BY <1>1, <2>1, Forced DEF Driving
  <2>3. ones' = 0 /\ Cycled(target, target', 0) /\ Performed(0) /\ Kept(target, target')
    BY <1>1, <2>1, <2>2, ZeroCycles
  <2>4. target'.state = "ack" /\ Len(target'.got) = 0 /\ performed' = performed
    BY <2>1, <2>3 DEF Cycled, Performed
  <2>5. Answering'
    BY <1>1, <2>1, <2>3 DEF Answering, Kept
  <2>6. InStepAck'
    BY <1>1, <2>3, <2>4, <2>5 DEF InStepAck
  <2>7. QED
    BY <1>1, <1>3, <2>4, <2>6 DEF Together, Accomplished
<1>4. QED
  BY <1>2, <1>3

LEMMA AckInStep ==
  ASSUME IInv, NEW l \in Bit, SWDGPIOBBD_receiveAck(l)
  PROVE  Together' /\ Accomplished'
<1>1. /\ Types /\ LineTypes /\ Together /\ Accomplished /\ Transferring /\ phase = "ack" /\ n \in 0..2
      /\ (n = 0 => ack' = l) /\ (n = 1 => ack' = ack + 2 * l) /\ (n = 2 => ack' = ack + 4 * l)
      /\ IF n < 2 THEN n' = n + 1 /\ phase' = "ack"
         ELSE n' = 0 /\ phase' = IF ack' = 2 /\ job # "ctrlstat" THEN "waitturn" ELSE DataPhase
      /\ l \in Line("input", 0) /\ TargetCycle(l) /\ stray' = stray
      /\ job' = job /\ cmd' = cmd /\ data' = data
  BY AckTypes DEF IInv
<1>2. CASE stray
  <2>1. job # "transfer"
    BY <1>1, <1>2, NotAstray
  <2>2. QED
    BY <1>1, <1>2, <2>1 DEF Together, Accomplished
<1>3. CASE ~stray
  <2>1. /\ target.state = "ack" /\ Len(target.got) = n /\ Answering
        /\ (n = 1 => ack = target.ack % 2) /\ (n = 2 => ack = target.ack % 4)
    BY <1>1, <1>3 DEF Together, InStepAck
  <2>2. Target(target) /\ target.ack \in {1, 2, 4}
    BY <1>1 DEF LineTypes, Target
  <2>3. Driving /\ l = TargetBit
    BY <1>1, <2>1, Forced DEF Driving
  <2>4. ones' = 0
    BY <1>1, <2>3, Cycles
  <2>5. Cycled(target, target', l) /\ Performed(l) /\ Kept(target, target')
    BY <1>1, <2>1, <2>4, Cycles
  <2>6. /\ performed' = performed /\ target'.ack = target.ack /\ target'.cmd = target.cmd /\ target'.word = target.word
        /\ Answering'
    BY <1>1, <2>1, <2>5 DEF Performed, Kept, Answering
  <2>7. /\ n = 0 => l = target.ack % 2
        /\ n = 1 => l = (target.ack \div 2) % 2
        /\ n = 2 => l = target.ack \div 4
    BY <1>1, <2>1, <2>2, <2>3, DrivenBit
  <2>8. /\ n = 0 => ack' = target.ack % 2
        /\ n = 1 => ack' = target.ack % 4
        /\ n = 2 => ack' = target.ack
    BY <1>1, <2>1, <2>2, <2>7
  <2>9. CASE n < 2
    <3>1. target'.state = "ack" /\ Len(target'.got) = n + 1
      BY <2>1, <2>5, <2>9 DEF Cycled
    <3>2. n' = n + 1 /\ phase' = "ack" /\ (n' = 1 => n = 0) /\ (n' = 2 => n = 1)
      BY <1>1, <2>9
    <3>3. InStepAck'
      BY <2>4, <2>6, <2>8, <3>1, <3>2 DEF InStepAck
    <3>4. QED
      BY <1>1, <1>3, <2>6, <3>2, <3>3 DEF Together, Accomplished
  <2>10. CASE n = 2
    <3>1. n' = 0 /\ ack' = target.ack /\ phase' = IF ack' = 2 /\ job # "ctrlstat" THEN "waitturn" ELSE DataPhase
      BY <1>1, <2>8, <2>10
    <3>2. IF ack' = 1 /\ Reading(cmd) THEN target'.state = "rdata" /\ Len(target'.got) = 0
          ELSE target'.state = "turnback"
      BY <2>1, <2>5, <2>10, <3>1 DEF Cycled, Answering
    <3>3. Answered'
      BY <2>2, <3>1 DEF Answered
    <3>4. CASE ack' = 2 /\ job # "ctrlstat"
      <4>1. phase' = "waitturn" /\ target'.state = "turnback" /\ target'.ack = 2
        BY <2>6, <3>1, <3>2, <3>4
      <4>2. InStepWait'
        BY <2>4, <3>4, <4>1 DEF InStepWait
      <4>3. QED
        BY <1>1, <1>3, <2>6, <3>3, <4>1, <4>2 DEF Together, Accomplished
    <3>5. CASE ~(ack' = 2 /\ job # "ctrlstat") /\ Reading(cmd)
      <4>1. phase' = "receive"
        BY <3>1, <3>5 DEF DataPhase
      <4>2. InStepReceive'
        <5>1. CASE ack' = 1
          <6>1. target'.state = "rdata" /\ Len(target'.got) = 0
            BY <3>2, <3>5, <5>1
          <6>2. QED
            BY <2>4, <2>6, <3>1, <5>1, <6>1 DEF InStepReceive
        <5>2. CASE ack' # 1
          <6>1. target'.state = "turnback" /\ target'.ack # 1
            BY <2>6, <3>1, <3>2, <5>2
          <6>2. QED
            BY <2>4, <3>1, <5>2, <6>1 DEF InStepReceive
        <5>3. QED
          BY <5>1, <5>2
      <4>3. QED
        BY <1>1, <1>3, <2>6, <3>3, <4>1, <4>2 DEF Together, Accomplished
    <3>6. CASE ~(ack' = 2 /\ job # "ctrlstat") /\ ~Reading(cmd)
      <4>1. phase' = "turn2write"
        BY <3>1, <3>6 DEF DataPhase
      <4>2. target'.state = "turnback" /\ target'.cmd = cmd /\ target'.ack = ack'
        BY <2>1, <2>6, <3>1, <3>2, <3>6 DEF Answering
      <4>3. InStepTurn2Write'
        BY <1>1, <2>4, <3>6, <4>2 DEF InStepTurn2Write
      <4>4. QED
        BY <1>1, <1>3, <2>6, <3>3, <3>6, <4>1, <4>3 DEF Together, Accomplished
    <3>7. QED
      BY <3>4, <3>5, <3>6
  <2>11. QED
    BY <1>1, <2>9, <2>10
<1>4. QED
  BY <1>2, <1>3

LEMMA WaitInStep ==
  ASSUME IInv, NEW l \in Bit, WaitTurn(l)
  PROVE  Together' /\ Accomplished'
<1>1. /\ Types /\ LineTypes /\ Together /\ Accomplished /\ Transferring /\ phase = "waitturn"
      /\ n' = 0 /\ (phase' = "command" \/ phase' = DataPhase)
      /\ l \in Line("output", 0) /\ TargetCycle(l) /\ stray' = stray
      /\ job' = job /\ cmd' = cmd /\ data' = data /\ ack' = ack
  BY WaitTypes DEF IInv, host
<1>2. CASE stray
  <2>1. job # "transfer"
    BY <1>1, <1>2, NotAstray
  <2>2. QED
    BY <1>1, <1>2, <2>1 DEF Together, Accomplished, DataPhase
<1>3. CASE ~stray
  <2>1. target.state = "turnback" /\ ack = 2 /\ target.ack = 2
    BY <1>1, <1>3 DEF Together, InStepWait
  <2>2. l = 0
    BY <1>1, <2>1, Forced DEF Driving
  <2>3. ones' = 0 /\ Cycled(target, target', 0) /\ Performed(0)
    BY <1>1, <2>1, <2>2, ZeroCycles
  <2>4. target'.state = "idle" /\ performed' = performed
    BY <2>1, <2>3 DEF Cycled, Performed
  <2>5. Answered'
    BY <1>1, <2>1 DEF Answered
  <2>6. CASE phase' = "command"
    <3>1. InStepCommand'
      BY <1>1, <2>3, <2>4 DEF InStepCommand
    <3>2. QED
      BY <1>1, <1>3, <2>4, <2>6, <3>1 DEF Together, Accomplished
  <2>7. CASE phase' = DataPhase /\ Reading(cmd)
    <3>1. phase' = "receive"
      BY <2>7 DEF DataPhase
    <3>2. InStepReceive'
      BY <1>1, <2>1, <2>3, <2>4 DEF InStepReceive
    <3>3. QED
      BY <1>1, <1>3, <2>4, <2>5, <3>1, <3>2 DEF Together, Accomplished
  <2>8. CASE phase' = DataPhase /\ ~Reading(cmd)
    <3>1. phase' = "turn2write"
      BY <2>8 DEF DataPhase
    <3>2. InStepTurn2Write'
      BY <1>1, <2>1, <2>3, <2>4, <2>8 DEF InStepTurn2Write
    <3>3. QED
      BY <1>1, <1>3, <2>4, <2>5, <2>8, <3>1, <3>2 DEF Together, Accomplished
  <2>9. QED
    BY <1>1, <2>6, <2>7, <2>8
<1>4. QED
  BY <1>2, <1>3

LEMMA Turn2WriteInStep ==
  ASSUME IInv, NEW l \in Bit, SWDGPIOBBD_cycleTurnaround2Write(l)
  PROVE  Together' /\ Accomplished'
<1>1. /\ Types /\ LineTypes /\ Together /\ Accomplished /\ Transferring /\ phase = "turn2write"
      /\ n' = 0 /\ phase' = IF Reading(cmd) THEN "done" ELSE "send"
      /\ l \in Line("output", 0) /\ TargetCycle(l) /\ stray' = stray
      /\ job' = job /\ cmd' = cmd /\ data' = data /\ ack' = ack
  BY Turn2WriteTypes DEF IInv, host
<1>2. CASE stray
  <2>1. job # "transfer"
    BY <1>1, <1>2, NotAstray
  <2>2. QED
    BY <1>1, <1>2, <2>1 DEF Together, Accomplished
<1>3. CASE ~stray
  <2>1. InStepTurn2Write
    BY <1>1, <1>3 DEF Together
  <2>2. target.state = "turnback" \/ target.state = "idle"
    BY <2>1 DEF InStepTurn2Write
  <2>3. l = 0
    BY <1>1, <2>2, Forced DEF Driving
  <2>4. ones' = 0 /\ Cycled(target, target', 0) /\ Performed(0) /\ Kept(target, target')
    BY <1>1, <2>2, <2>3, ZeroCycles
  <2>5. performed' = performed
    BY <2>2, <2>4 DEF Performed
  <2>6. CASE Reading(cmd)
    <3>1. target'.state = "idle"
      <4>1. \/ target.state = "turnback" /\ target.cmd = cmd
            \/ target.state = "idle"
        BY <2>1, <2>6 DEF InStepTurn2Write
      <4>2. CASE target.state = "turnback" /\ target.cmd = cmd
        BY <2>4, <2>6, <4>2 DEF Cycled
      <4>3. CASE target.state = "idle"
        BY <2>4, <4>3 DEF Cycled
      <4>4. QED
        BY <4>1, <4>2, <4>3
    <3>2. phase' = "done" /\ InStepDone'
      BY <1>1, <2>4, <2>6, <3>1 DEF InStepDone
    <3>3. QED
      BY <1>1, <1>3, <2>5, <2>6, <3>2 DEF Together, Accomplished, Answered, Access
  <2>7. CASE ~Reading(cmd)
    <3>1. phase' = "send"
      BY <1>1, <2>7
    <3>2. InStepSend'
      <4>1. CASE target.state = "turnback" /\ target.cmd = cmd /\ target.ack = ack /\ ack = 1
        <5>1. target'.state = "wdata" /\ Len(target'.got) = 0 /\ target'.cmd = cmd
          BY <2>4, <2>7, <4>1 DEF Cycled, Kept
        <5>2. QED
          BY <1>1, <2>4, <4>1, <5>1 DEF InStepSend
      <4>2. CASE target.state = "turnback" /\ target.cmd = cmd /\ target.ack = ack /\ ack # 1
        <5>1. target'.state = "idle"
          BY <2>4, <4>2 DEF Cycled
        <5>2. QED
          BY <1>1, <2>4, <4>2, <5>1 DEF InStepSend
      <4>3. CASE target.state = "idle" /\ (job = "transfer" => ack # 1)
        <5>1. target'.state = "idle"
          BY <2>4, <4>3 DEF Cycled
        <5>2. QED
          BY <1>1, <2>4, <4>3, <5>1 DEF InStepSend
      <4>4. QED
        BY <2>1, <2>7, <4>1, <4>2, <4>3 DEF InStepTurn2Write
    <3>3. QED
      BY <1>1, <1>3, <2>5, <2>7, <3>1, <3>2 DEF Together, Accomplished, Answered
  <2>8. QED
    BY <2>6, <2>7
<1>4. QED
  BY <1>2, <1>3

LEMMA ReceiveInStep ==
  ASSUME IInv, NEW l \in Bit, SWDGPIOBBD_receiveData(l)
  PROVE  Together' /\ Accomplished'
<1>1. /\ Types /\ LineTypes /\ Together /\ Accomplished /\ Transferring /\ phase = "receive" /\ n \in 0..DataBits
      /\ data' = IF n < DataBits THEN [data EXCEPT ![n + 1] = l] ELSE data
      /\ IF n < DataBits THEN n' = n + 1 /\ phase' = "receive" ELSE n' = 0 /\ phase' = "turn2write"
      /\ l \in Line(pin, 0) /\ TargetCycle(l) /\ stray' = stray /\ Reading(cmd)
      /\ job' = job /\ cmd' = cmd /\ ack' = ack
  BY ReceiveTypes DEF IInv
<1>2. CASE stray
  <2>1. job # "transfer"
    BY <1>1, <1>2, NotAstray
  <2>2. QED
    BY <1>1, <1>2, <2>1 DEF Together, Accomplished
<1>3. CASE ~stray
  <2>1. InStepReceive /\ data \in Bits(DataBits) /\ Target(target) /\ pin \in {"input", "output"}
    BY <1>1, <1>3 DEF Together, Types, HostTypes, LineTypes, Pin
  <2>2. job = "transfer" => Answered /\ performed = <<>>
    BY <1>1 DEF Accomplished
  <2>3. CASE ack = 1
    <3>1. /\ target.state = "rdata" /\ Len(target.got) = n /\ Answering
          /\ \A k \in 1..n : k <= DataBits => data[k] = target.word[k]
      BY <2>1, <2>3 DEF InStepReceive
    <3>2. Driving /\ pin = "input"
      BY <1>1, <2>3, <3>1 DEF Driving, Types, Pin
    <3>3. l = TargetBit
      BY <1>1, <3>2, Forced
    <3>4. ones' = 0
      BY <1>1, <3>2, Cycles
    <3>5. Cycled(target, target', l) /\ Performed(l) /\ Kept(target, target')
      BY <1>1, <3>1, <3>4, Cycles
    <3>6. Answering' /\ target'.word = target.word /\ target'.cmd = cmd
      BY <1>1, <3>1, <3>5 DEF Answering, Kept
    <3>7. CASE n < DataBits
      <4>1. target'.state = "rdata" /\ Len(target'.got) = n + 1 /\ performed' = performed
        BY <3>1, <3>5, <3>7 DEF Cycled, Performed
      <4>2. l = target.word[n + 1]
        BY <2>1, <3>1, <3>3, <3>7, DrivenBit
      <4>3. ASSUME NEW k \in 1..(n + 1), k <= DataBits PROVE data'[k] = target'.word[k]
        <5>1. DOMAIN data = 1..DataBits /\ n + 1 \in 1..DataBits
          BY <1>1, <2>1, <3>7 DEF Bits
        <5>2. data'[n + 1] = l /\ (k # n + 1 => data'[k] = data[k])
          BY <1>1, <3>7, <4>3, <5>1
        <5>3. k = n + 1 \/ k \in 1..n
          BY <1>1
        <5>4. QED
          BY <3>1, <3>6, <4>2, <4>3, <5>2, <5>3
      <4>4. n' = n + 1 /\ phase' = "receive"
        BY <1>1, <3>7
      <4>5. InStepReceive'
        BY <1>1, <2>3, <3>4, <3>6, <4>1, <4>3, <4>4 DEF InStepReceive
      <4>6. QED
        BY <1>1, <1>3, <2>2, <4>1, <4>4, <4>5 DEF Together, Accomplished, Answered
    <3>8. CASE n = DataBits
      <4>1. target'.state = "turnback" /\ performed' = Append(performed, [cmd |-> target.cmd, word |-> target.word])
        BY <3>1, <3>5, <3>8 DEF Cycled, Performed
      <4>2. n' = 0 /\ phase' = "turn2write" /\ data' = data
        BY <1>1, <3>8
      <4>3. InStepTurn2Write'
        BY <1>1, <2>3, <3>4, <3>6, <4>1 DEF InStepTurn2Write
      <4>4. data = target.word
        <5>1. target.word \in Bits(DataBits)
          BY <2>1 DEF Target
        <5>2. \A k \in 1..DataBits : data[k] = target.word[k]
          BY <3>1, <3>8
        <5>3. QED
          BY <2>1, <5>1, <5>2 DEF Bits
      <4>5. job = "transfer" => performed' = <<Access(data)>>' /\ data' \in Words
        <5>1. ASSUME job = "transfer" PROVE performed' = <<Access(data)>>'
          BY <1>1, <2>2, <3>1, <4>1, <4>2, <4>4, <5>1 DEF Access, Answering
        <5>2. ASSUME job = "transfer" PROVE data' \in Words
          <6>1. target.ack = 1
            BY <2>1, <3>1 DEF Target, Collected
          <6>2. QED
            BY <1>1, <3>1, <4>2, <4>4, <5>2, <6>1 DEF Answering
        <5>3. QED
          BY <5>1, <5>2
      <4>6. QED
        BY <1>1, <1>3, <2>2, <2>3, <4>2, <4>3, <4>5 DEF Together, Accomplished, Answered
    <3>9. QED
      BY <1>1, <3>7, <3>8
  <2>4. CASE ack # 1
    <3>1. target.state = "idle" \/ (n = 0 /\ target.state = "turnback" /\ target.ack # 1)
      BY <2>1, <2>4 DEF InStepReceive
    <3>2. l = 0
      BY <1>1, <2>1, <3>1, Forced DEF Driving
    <3>3. ones' = 0 /\ Cycled(target, target', 0) /\ Performed(0)
      BY <1>1, <3>2, ZeroCycles
    <3>4. target'.state = "idle"
      <4>1. CASE target.state = "idle"
        BY <3>3, <4>1 DEF Cycled
      <4>2. CASE target.state = "turnback" /\ target.ack # 1
        BY <3>3, <4>2 DEF Cycled
      <4>3. QED
        BY <3>1, <4>1, <4>2
    <3>5. performed' = performed
      BY <3>1, <3>3 DEF Performed
    <3>6. CASE n < DataBits
      <4>1. n' = n + 1 /\ phase' = "receive"
        BY <1>1, <3>6
      <4>2. InStepReceive'
        BY <1>1, <2>4, <3>3, <3>4 DEF InStepReceive
      <4>3. QED
        BY <1>1, <1>3, <2>2, <3>5, <4>1, <4>2 DEF Together, Accomplished, Answered
    <3>7. CASE n = DataBits
      <4>1. n' = 0 /\ phase' = "turn2write"
        BY <1>1, <3>7
      <4>2. InStepTurn2Write'
        BY <1>1, <2>4, <3>3, <3>4 DEF InStepTurn2Write
      <4>3. QED
        BY <1>1, <1>3, <2>2, <2>4, <3>5, <4>1, <4>2 DEF Together, Accomplished, Answered
    <3>8. QED
      BY <1>1, <3>6, <3>7
  <2>5. QED
    BY <2>3, <2>4
<1>4. QED
  BY <1>2, <1>3

(* What a stray data word makes of the target in a cycle.                        *)
LEMMA StrayNext ==
  ASSUME LineTypes, NEW l \in Bit, TargetCycle(l), NEW m \in Nat, m <= DataBits + 2, Progress(target) <= m
  PROVE  Progress(target') <= m + 1 /\ performed' = performed
<1>1. Target(target) /\ target.state \in States /\ target.got \in Seq(Bit) /\ Collected(target)
  BY DEF LineTypes, Target
<1>2. CASE ones' = ResetOnes
  <2>1. target' = IdleTarget /\ performed' = performed
    BY <1>2, Cycles
  <2>2. target'.state = "idle"
    BY <2>1, Idle
  <2>3. QED
    BY <2>1, <2>2 DEF Progress
<1>3. CASE ones' # ResetOnes
  <2>1. Cycled(target, target', l) /\ Performed(l)
    BY <1>3, Cycles
  <2>2. PICK j \in Nat : j = Len(target.got)
    BY <1>1
  <2>3. CASE target.state = "idle"
    <3>1. target'.state = "idle" \/ (target'.state = "header" /\ Len(target'.got) = 1)
      BY <2>1, <2>3 DEF Cycled
    <3>2. performed' = performed
      BY <2>1, <2>3 DEF Performed
    <3>3. 0 <= m + 1 /\ 1 <= m + 1
      OBVIOUS
    <3>4. Progress(target') <= m + 1
      BY <3>1, <3>3 DEF Progress
    <3>5. QED
      BY <3>2, <3>4
  <2>4. CASE target.state = "header"
    <3>1. j \in 1..7 /\ j <= m /\ performed' = performed
      BY <1>1, <2>1, <2>2, <2>4 DEF Collected, Progress, Performed
    <3>2. PICK h \in Seq(Bit) : h = Append(target.got, l) /\ Len(h) = j + 1
      <4>1. Append(target.got, l) \in Seq(Bit) /\ Len(Append(target.got, l)) = j + 1
        BY <1>1, <2>2, Appended
      <4>2. QED
        BY <4>1, Zenon
    <3>3. CASE j < 7
      <4>1. target'.state = "header" /\ target'.got = h
        <5>1. Len(h) < 8
          BY <3>2, <3>3
        <5>2. QED
          BY <2>1, <2>4, <3>2, <5>1 DEF Cycled
      <4>2. QED
        BY <3>1, <3>2, <4>1 DEF Progress
    <3>4. CASE j = 7
      <4>1. ~(Len(h) < 8)
        BY <3>2, <3>4
      <4>2. target'.state = "turn" \/ target'.state = "lost"
        BY <2>1, <2>4, <3>2, <4>1 DEF Cycled
      <4>3. QED
        BY <3>1, <3>4, <4>2 DEF Progress
    <3>5. QED
      BY <3>1, <3>3, <3>4
  <2>5. CASE target.state = "turn"
    <3>1. target'.state = "ack" /\ Len(target'.got) = 0 /\ 8 <= m /\ performed' = performed
      BY <2>1, <2>5 DEF Cycled, Progress, Performed
    <3>2. QED
      BY <3>1 DEF Progress
  <2>6. CASE target.state = "ack"
    <3>1. j \in 0..2 /\ 9 + j <= m /\ performed' = performed
      BY <1>1, <2>1, <2>2, <2>6 DEF Collected, Progress, Performed
    <3>2. CASE j < 2
      <4>1. target'.state = "ack" /\ Len(target'.got) = j + 1
        BY <2>1, <2>2, <2>6, <3>2 DEF Cycled
      <4>2. QED
        BY <3>1, <4>1 DEF Progress
    <3>3. CASE j = 2
      <4>1. (target'.state = "rdata" /\ Len(target'.got) = 0) \/ target'.state = "turnback"
        BY <2>1, <2>2, <2>6, <3>3 DEF Cycled
      <4>2. Progress(target') = 12
        <5>1. 12 + 0 = 12
          OBVIOUS
        <5>2. QED
          BY <4>1, <5>1, Zenon DEF Progress
      <4>3. QED
        BY <3>1, <3>3, <4>2
    <3>4. QED
      BY <3>1, <3>2, <3>3
  <2>7. CASE target.state = "rdata"
    <3>1. j \in 0..DataBits /\ 12 + j <= m
      BY <1>1, <2>2, <2>7 DEF Collected, Progress
    <3>2. j < DataBits
      BY <3>1
    <3>3. target'.state = "rdata" /\ Len(target'.got) = j + 1 /\ performed' = performed
      BY <2>1, <2>2, <2>7, <3>2 DEF Cycled, Performed
    <3>4. Progress(target') = 12 + (j + 1)
      BY <3>3 DEF Progress
    <3>5. QED
      BY <3>1, <3>3, <3>4
  <2>8. CASE target.state = "turnback"
    <3>1. (target'.state = "wdata" /\ Len(target'.got) = 0) \/ target'.state = "idle"
      BY <2>1, <2>8 DEF Cycled
    <3>2. 12 <= m /\ performed' = performed
      BY <2>1, <2>8 DEF Progress, Performed
    <3>3. Progress(target') \in {0, 13}
      BY <3>1 DEF Progress
    <3>4. QED
      BY <3>2, <3>3
  <2>9. CASE target.state = "wdata"
    <3>1. j \in 0..DataBits /\ 13 + j <= m
      BY <1>1, <2>2, <2>9 DEF Collected, Progress
    <3>2. j < DataBits
      BY <3>1
    <3>3. Len(Append(target.got, l)) = j + 1
      BY <1>1, <2>2, Appended
    <3>4. target'.state = "wdata" /\ Len(target'.got) = j + 1 /\ performed' = performed
      BY <2>1, <2>2, <2>9, <3>2, <3>3 DEF Cycled, Performed
    <3>5. Progress(target') = 13 + (j + 1)
      BY <3>4 DEF Progress
    <3>6. QED
      BY <3>1, <3>4, <3>5
  <2>10. CASE target.state = "lost"
    <3>1. target'.state = "lost" /\ performed' = performed
      BY <2>1, <2>10 DEF Cycled, Performed
    <3>2. QED
      BY <3>1 DEF Progress
  <2>11. QED
    BY <1>1, <2>3, <2>4, <2>5, <2>6, <2>7, <2>8, <2>9, <2>10 DEF States
<1>4. QED
  BY <1>2, <1>3

LEMMA SendInStep ==
  ASSUME IInv, NEW l \in Bit, SWDGPIOBBD_sendData(l)
  PROVE  Together' /\ Accomplished'
<1>1. /\ Types /\ LineTypes /\ Together /\ Accomplished /\ Transferring /\ phase = "send" /\ n \in 0 .. DataBits + 2
      /\ IF n < DataBits + 2 THEN n' = n + 1 /\ phase' = "send" ELSE n' = 0 /\ phase' = "done"
      /\ l \in Line("output", SentBit(n)) /\ TargetCycle(l)
      /\ stray' = (stray \/ (n = 0 /\ target.state # "wdata")) /\ ~Reading(cmd)
      /\ job' = job /\ cmd' = cmd /\ data' = data /\ ack' = ack
  BY SendTypes DEF IInv, host
<1>2. /\ Target(target) /\ target.got \in Seq(Bit) /\ ones \in 0..ResetOnes /\ data \in Bits(DataBits)
      /\ target.state \in States /\ stray \in BOOLEAN
  BY <1>1 DEF LineTypes, Target, Types, HostTypes
<1>3. CASE stray'
  <2>1. CASE job # "transfer"
    BY <1>1, <1>3, <2>1 DEF Together, Accomplished
  <2>2. CASE job = "transfer"
    <3>1. ack # 1 /\ Answered /\ performed = <<>> /\ Progress(target) <= n
      <4>1. CASE stray
        BY <1>1, <2>2, <4>1 DEF Accomplished
      <4>2. CASE ~stray
        <5>1. n = 0 /\ target.state # "wdata"
          BY <1>1, <1>3, <4>2
        <5>2. InStepSend
          BY <1>1, <4>2 DEF Together
        <5>3. target.state = "idle" /\ ack # 1
          BY <2>2, <5>1, <5>2 DEF InStepSend
        <5>4. Answered /\ performed = <<>>
          <6>1. ~(n > DataBits)
            BY <5>1
          <6>2. QED
            BY <1>1, <2>2, <6>1 DEF Accomplished
        <5>5. Progress(target) = 0
          BY <5>3 DEF Progress
        <5>6. QED
          BY <5>1, <5>3, <5>4, <5>5
      <4>3. QED
        BY <4>1, <4>2
    <3>2. Progress(target') <= n + 1 /\ performed' = <<>>
      BY <1>1, <3>1, StrayNext
    <3>3. (phase' = "send" /\ n' = n + 1) \/ phase' = "done"
      BY <1>1
    <3>4. QED
      BY <1>1, <1>3, <2>2, <3>1, <3>2, <3>3 DEF Together, Accomplished, Answered
  <2>3. QED
    BY <2>1, <2>2
<1>4. CASE ~stray'
  <2>1. ~stray /\ (n = 0 => target.state = "wdata")
    BY <1>1, <1>4
  <2>2. InStepSend
    BY <1>1, <2>1 DEF Together
  <2>3. target.state \in {"wdata", "idle"} /\ ack = 1
    BY <2>1, <2>2 DEF InStepSend
  <2>4. l = SentBit(n) /\ ~Driving
    BY <1>1, <2>3, Forced DEF Driving
  <2>5. ones' = IF l = 0 THEN 0 ELSE IF ones + 1 <= ResetOnes THEN ones + 1 ELSE ResetOnes
    BY <1>1, <2>4, Cycles
  <2>6. /\ job = "transfer" /\ ~(n > DataBits) => performed = <<>>
        /\ job = "transfer" /\ n > DataBits => performed = <<Access(data)>>
        /\ job = "transfer" => Answered
    BY <1>1, <2>1 DEF Accomplished
  <2>7. CASE n <= DataBits
    <3>1. /\ target.state = "wdata" /\ Len(target.got) = n /\ target.cmd = cmd
          /\ ones <= n /\ \A k \in 1..n : target.got[k] = data[k]
      <4>1. n # DataBits + 1 /\ n # DataBits + 2 /\ ~(n = 0 /\ target.state = "idle")
        BY <1>1, <2>1, <2>7
      <4>2. QED
        BY <2>2, <4>1 DEF InStepSend
    <3>2. ones' <= n + 1 /\ ones' # ResetOnes
      BY <1>1, <1>2, <2>5, <2>7, <3>1
    <3>3. Cycled(target, target', l) /\ Performed(l) /\ Kept(target, target')
      BY <1>1, <3>1, <3>2, Cycles
    <3>4. n' = n + 1 /\ phase' = "send"
      BY <1>1, <2>7
    <3>5. CASE n < DataBits
      <4>1. l = data[n + 1]
        BY <2>4, <3>5 DEF SentBit
      <4>2. target'.state = "wdata" /\ target'.got = Append(target.got, l) /\ target'.cmd = cmd
        BY <3>1, <3>3, <3>5 DEF Cycled, Kept
      <4>3. performed' = performed
        BY <3>1, <3>3, <3>5 DEF Performed
      <4>4. /\ Len(target'.got) = n + 1 /\ target'.got[n + 1] = l
            /\ \A k \in 1..n : target'.got[k] = target.got[k]
        BY <1>2, <3>1, <4>2, Appended
      <4>5. ASSUME NEW k \in 1..(n + 1) PROVE target'.got[k] = data[k]
        <5>1. k = n + 1 \/ k \in 1..n
          BY <1>1
        <5>2. QED
          BY <3>1, <4>1, <4>4, <5>1
      <4>6. n' <= DataBits
        BY <1>1, <3>4, <3>5
      <4>7. InStepSend'
        BY <1>1, <2>3, <3>2, <3>4, <4>2, <4>4, <4>5, <4>6 DEF InStepSend
      <4>8. ~(n' > DataBits) /\ ~(n > DataBits)
        BY <1>1, <3>4, <3>5
      <4>9. QED
        BY <1>1, <1>4, <2>6, <3>4, <4>3, <4>7, <4>8 DEF Together, Accomplished, Answered
    <3>6. CASE n = DataBits
      <4>1. target.got = data
        <5>1. target.got \in Bits(DataBits)
          BY <1>2, <3>1, <3>6, Whole
        <5>2. QED
          BY <1>2, <3>1, <3>6, <5>1 DEF Bits
      <4>2. Ones(target.got) % 2 = l
        BY <2>4, <3>6, <4>1 DEF SentBit
      <4>3. ~(Len(target.got) < DataBits)
        BY <3>1, <3>6
      <4>4. target'.state = "idle"
        BY <3>1, <3>3, <4>3 DEF Cycled
      <4>5. performed' = Append(performed, [cmd |-> cmd, word |-> data])
        BY <3>1, <3>3, <4>1, <4>2, <4>3 DEF Performed
      <4>6. n' = DataBits + 1 /\ n' > DataBits /\ ~(n > DataBits)
        BY <3>4, <3>6
      <4>7. InStepSend'
        BY <1>1, <2>3, <3>2, <3>4, <4>4, <4>6 DEF InStepSend
      <4>8. ASSUME job = "transfer" PROVE performed' = <<Access(data)>>'
        BY <1>1, <2>6, <4>5, <4>6, <4>8 DEF Access
      <4>9. QED
        BY <1>1, <1>4, <2>6, <3>4, <4>6, <4>7, <4>8 DEF Together, Accomplished, Answered
    <3>7. QED
      BY <1>1, <2>7, <3>5, <3>6
  <2>8. CASE n > DataBits
    <3>1. n = DataBits + 1 \/ n = DataBits + 2
      BY <1>1, <2>8
    <3>2. target.state = "idle"
      <4>1. n # 0 /\ ~(n <= DataBits)
        BY <1>1, <2>8
      <4>2. QED
        BY <2>2, <4>1 DEF InStepSend
    <3>3. l = 0
      <4>1. ~(n < DataBits) /\ n # DataBits
        BY <1>1, <2>8
      <4>2. QED
        BY <2>4, <4>1 DEF SentBit
    <3>4. ones' = 0 /\ Cycled(target, target', 0) /\ Performed(0)
      BY <1>1, <3>3, ZeroCycles
    <3>5. target'.state = "idle" /\ performed' = performed
      BY <3>2, <3>4 DEF Cycled, Performed
    <3>6. CASE n = DataBits + 1
      <4>1. n' = DataBits + 2 /\ phase' = "send" /\ n' > DataBits
        BY <1>1, <3>6
      <4>2. InStepSend'
        BY <1>1, <2>3, <3>4, <3>5, <4>1 DEF InStepSend
      <4>3. QED
        BY <1>1, <1>4, <2>6, <2>8, <3>5, <4>1, <4>2 DEF Together, Accomplished, Answered, Access
    <3>7. CASE n = DataBits + 2
      <4>1. phase' = "done"
        BY <1>1, <3>7
      <4>2. InStepDone'
        BY <3>4, <3>5 DEF InStepDone
      <4>3. QED
        BY <1>1, <1>4, <2>3, <2>6, <2>8, <3>5, <4>1, <4>2 DEF Together, Accomplished, Answered, Access
    <3>8. QED
      BY <3>1, <3>6, <3>7
  <2>9. QED
    BY <1>1, <2>7, <2>8
<1>5. QED
  BY <1>2, <1>3, <1>4

LEMMA JobsInStep ==
  ASSUME IInv, Jobs
  PROVE  Apart' /\ Together' /\ Accomplished'
<1>1. /\ HostTypes /\ Locals /\ Pin /\ Target(target) /\ Apart /\ Together /\ Accomplished
      /\ UNCHANGED line /\ target' = target /\ ones' = ones
  BY JobTypes DEF IInv, Types, LineTypes, line
<1>2. CASE StartRequest
  <2>1. /\ job = "none" /\ job' = "connect" /\ phase' = "sequence" /\ stray' = stray /\ n' = n
    BY <1>2 DEF StartRequest, Sequence
  <2>2. n = 0
    BY <1>1, <2>1 DEF HostTypes, Phases, LastCycle
  <2>3. Ends(target, DataBits + 15)
    BY <1>1, EndsAny
  <2>4. Switching'
    <3>1. Left(0) = DataBits + 15
      BY DEF Left
    <3>2. n' <= 56 /\ n' # 57 /\ n' \notin 58..64 /\ n' \notin 65..69 /\ n' \notin 70..128 /\ n' \notin 129..135
      BY <2>1, <2>2
    <3>3. Ends(target', Left(n'))
      BY <1>1, <2>1, <2>2, <2>3, <3>1
    <3>4. QED
      BY <3>2, <3>3 DEF Switching
  <2>5. ~stray' => Quiet'
    BY <1>1, <2>1 DEF Apart, Quiet
  <2>6. QED
    BY <2>1, <2>4, <2>5 DEF Apart, Together, Accomplished, Transferring
<1>3. CASE EndRequest
  <2>1. job = "ready" /\ job' = "disconnect" /\ phase' = "sequence" /\ stray' = stray
    BY <1>3 DEF EndRequest, Sequence
  <2>2. QED
    BY <1>1, <2>1 DEF Apart, Together, Accomplished, Transferring
<1>4. CASE Connected
  <2>1. job = "connect" /\ phase = "done" /\ job' = "ready" /\ stray' = FALSE
    BY <1>4 DEF Connected
  <2>2. QED
    BY <1>1, <2>1 DEF Apart, Together, Accomplished, Transferring
<1>5. CASE Disconnected
  <2>1. job = "disconnect" /\ job' = "none" /\ stray' = stray
    BY <1>5 DEF Disconnected
  <2>2. QED
    BY <1>1, <2>1 DEF Apart, Together, Accomplished, Transferring
<1>6. CASE TransferOk
  <2>1. job = "transfer" /\ phase = "done" /\ ack <= 1 /\ job' = "ready" /\ stray' = stray
    BY <1>6 DEF TransferOk
  <2>2. ack = 1 /\ ~stray
    BY <1>1, <2>1 DEF Accomplished, Answered
  <2>3. target.state = "idle" /\ ones = 0
    BY <1>1, <2>1, <2>2 DEF Together, Transferring, InStepDone
  <2>4. QED
    BY <1>1, <2>1, <2>2, <2>3 DEF Apart, Together, Accomplished, Transferring
<1>7. CASE SWDGPIOBBD_abort
  <2>1. /\ job = "transfer" /\ phase = "done" /\ job' = "ctrlstat" /\ phase' = "command" /\ stray' = stray
        /\ n' = n
    BY <1>7 DEF SWDGPIOBBD_abort, Begin
  <2>2. n = 0
    BY <1>1, <2>1 DEF HostTypes, LastCycle
  <2>3. ~stray => InStepCommand'
    <3>1. ~stray => target.state = "idle" /\ ones = 0
      BY <1>1, <2>1 DEF Together, Transferring, InStepDone
    <3>2. QED
      BY <1>1, <2>1, <2>2, <3>1 DEF InStepCommand
  <2>4. QED
    BY <2>1, <2>3 DEF Apart, Together, Accomplished
<1>8. CASE AbortLoop
  <2>1. /\ job = "ctrlstat" /\ phase = "done" /\ job' = "abort" /\ stray' = stray /\ n' = n /\ cmd' = ABORT_CMD
        /\ phase' = IF ack = 2 THEN "command" ELSE "turn2write"
    BY <1>8 DEF AbortLoop, Begin
  <2>2. n = 0
    BY <1>1, <2>1 DEF HostTypes, LastCycle
  <2>3. ~stray => target.state = "idle" /\ ones = 0
    BY <1>1, <2>1 DEF Together, Transferring, InStepDone
  <2>4. ~stray => InStepCommand'
    BY <1>1, <2>1, <2>2, <2>3 DEF InStepCommand
  <2>5. ~stray => InStepTurn2Write'
    BY <1>1, <2>1, <2>3, CmdsAssumption DEF InStepTurn2Write
  <2>6. QED
    BY <2>1, <2>4, <2>5 DEF Apart, Together, Accomplished
<1>9. CASE AbortReturn
  <2>1. job = "abort" /\ phase = "done" /\ job' = "disconnect" /\ phase' = "sequence" /\ stray' = stray
    BY <1>9 DEF AbortReturn, Sequence
  <2>2. ~stray => target.state = "idle"
    BY <1>1, <2>1 DEF Together, Transferring, InStepDone
  <2>3. QED
    BY <1>1, <2>1, <2>2 DEF Apart, Together, Accomplished, Transferring
<1>10. ASSUME NEW c \in Cmds, NEW d \in IF Reading(c) THEN {Zero} ELSE Words, SWDGPIOBBD_transfer(c, d)
       PROVE  Apart' /\ Together' /\ Accomplished'
  <2>1. /\ job = "ready" /\ job' = "transfer" /\ phase' = "command" /\ stray' = stray /\ n' = n
        /\ performed' = <<>>
    BY <1>10 DEF SWDGPIOBBD_transfer, Begin
  <2>2. n = 0
    BY <1>1, <2>1 DEF HostTypes, Phases, LastCycle
  <2>3. ~stray /\ target.state = "idle" /\ ones = 0
    BY <1>1, <2>1 DEF Apart
  <2>4. InStepCommand'
    BY <1>1, <2>1, <2>2, <2>3 DEF InStepCommand
  <2>5. QED
    BY <2>1, <2>3, <2>4 DEF Apart, Together, Accomplished
<1>11. QED
  BY <1>2, <1>3, <1>4, <1>5, <1>6, <1>7, <1>8, <1>9, <1>10 DEF Jobs

-----------------------------------------------------------------------------
(* The invariant holds *)

LEMMA Initially == Init => IInv
<1> SUFFICES ASSUME Init PROVE IInv
  OBVIOUS
<1>1. Types /\ LineTypes
  BY InitTypes
<1>2. job = "none" /\ target.state = "idle"
  BY Idle DEF Init
<1>3. Apart /\ Together /\ Accomplished
  BY <1>2 DEF Apart, Together, Accomplished, Transferring
<1>4. QED
  BY <1>1, <1>3 DEF IInv

LEMMA ClockInvariant ==
  ASSUME IInv, Clock
  PROVE  Apart' /\ Together' /\ Accomplished'
<1>1. PICK l \in Bit :
        \/ SWDGPIOBBD_sequence(l) \/ SWDGPIOBBD_command(l) \/ SWDGPIOBBD_cycleTurnaround2Read(l)
        \/ SWDGPIOBBD_receiveAck(l) \/ WaitTurn(l) \/ SWDGPIOBBD_receiveData(l)
        \/ SWDGPIOBBD_cycleTurnaround2Write(l) \/ SWDGPIOBBD_sendData(l)
  BY DEF Clock, Bit
<1>2. Types /\ LineTypes /\ Apart
  BY DEF IInv
<1>3. CASE SWDGPIOBBD_sequence(l)
  <2>1. job' = job /\ job \in {"connect", "disconnect"}
    BY <1>2, <1>3, SequenceTypes DEF host
  <2>2. Apart'
    BY <1>2, <1>3, ApartSequence
  <2>3. QED
    BY <2>1, <2>2 DEF Together, Accomplished, Transferring
<1>4. CASE ~SWDGPIOBBD_sequence(l)
  <2>1. Transferring /\ job' = job
    BY <1>1, <1>2, <1>4, CommandTypes, Turn2ReadTypes, AckTypes, WaitTypes, ReceiveTypes, Turn2WriteTypes, SendTypes
       DEF host
  <2>2. Apart'
    BY <2>1 DEF Apart, Transferring
  <2>3. Together' /\ Accomplished'
    BY <1>1, <1>4, CommandInStep, Turn2ReadInStep, AckInStep, WaitInStep, ReceiveInStep, Turn2WriteInStep, SendInStep
  <2>4. QED
    BY <2>2, <2>3
<1>5. QED
  BY <1>3, <1>4

LEMMA Inductive == IInv /\ [Next]_vars => IInv'
<1> SUFFICES ASSUME IInv, [Next]_vars PROVE IInv'
  OBVIOUS
<1>1. Types' /\ LineTypes'
  BY TypesStep DEF IInv
<1>2. Apart' /\ Together' /\ Accomplished'
  <2>1. CASE Clock
    BY <2>1, ClockInvariant
  <2>2. CASE Jobs
    BY <2>2, JobsInStep
  <2>3. CASE UNCHANGED vars
    <3>1. Apart /\ Together /\ Accomplished
      BY DEF IInv
    <3>2. UNCHANGED <<job, phase, n, cmd, data, ack, pin, target, ones, performed, stray>>
      BY <2>3 DEF vars, host, line
    <3>3. Apart'
      <4>1. (WasReset' <=> WasReset) /\ (Lost' <=> Lost) /\ (Quiet' <=> Quiet)
        BY <3>2 DEF WasReset, Lost, Quiet
      <4>2. ASSUME Switching PROVE Switching'
        <5>1. /\ n' <= 56 => WasReset' \/ Ends(target', Left(n'))
              /\ n' = 57 => ones' = 0 /\ (Lost' \/ target'.state = "idle")
          BY <3>2, <4>1, <4>2 DEF Switching
        <5>2. n' \in 58..64 => /\ ones' <= n' - 57 /\ (n' = 63 => ones' = 0) /\ (n' = 64 => ones' <= 1)
                               /\ Lost' \/ /\ target'.state = "header" /\ Len(target'.got) = n' - 57
                                           /\ n' = 64 => target'.got[7] = 1
          BY <3>2, <4>1, <4>2 DEF Switching
        <5>3. /\ n' \in 65..69 => Lost' /\ ones' <= n' - 63 /\ (n' >= 68 => ones' = 0)
              /\ n' \in 129..135 => ones' = 0 /\ target'.state = "idle"
          BY <3>2, <4>1, <4>2 DEF Switching
        <5>4. n' \in 70..128 => IF n' - 69 < ResetOnes THEN ones' = n' - 69 /\ Lost' ELSE WasReset'
          BY <3>2, <4>1, <4>2 DEF Switching
        <5>5. QED
          BY <5>1, <5>2, <5>3, <5>4 DEF Switching
      <4>4. QED
        BY <3>1, <3>2, <4>1, <4>2 DEF Apart
    <3>4. Together'
      BY <3>1, <3>2 DEF Together, Transferring, InStepCommand, InStepTurn2Read, InStepAck, InStepWait,
                        InStepReceive, InStepTurn2Write, InStepSend, InStepDone, Answering
    <3>5. Accomplished'
      BY <3>1, <3>2 DEF Accomplished, Answered, Access, Progress
    <3>6. QED
      BY <3>3, <3>4, <3>5
  <2>4. QED
    BY <2>1, <2>2, <2>3, Parts
<1>3. QED
  BY <1>1, <1>2 DEF IInv

LEMMA Invariant == Spec => []IInv
  BY Initially, Inductive, PTL DEF Spec

(* InStep: a transfer, and every repetition of its command, meets a target that  *)
(* waits for a header.                                                           *)
THEOREM StaysInStep == Spec => []InStep
<1>1. IInv => InStep
  <2> SUFFICES ASSUME IInv, job = "ready" \/ (job = "transfer" /\ phase = "command" /\ n = 0)
               PROVE  target.state = "idle" /\ pin = "output"
    BY DEF InStep
  <2>1. HostTypes /\ Pin /\ Apart /\ Together /\ Accomplished
    BY DEF IInv, Types
  <2>2. CASE job = "ready"
    BY <2>1, <2>2 DEF HostTypes, Phases, Pin, Apart
  <2>3. CASE job = "transfer" /\ phase = "command" /\ n = 0
    <3>1. ~stray
      BY <2>1, <2>3 DEF Accomplished
    <3>2. InStepCommand
      BY <2>1, <2>3, <3>1 DEF Together, Transferring
    <3>3. QED
      BY <2>1, <2>3, <3>2 DEF InStepCommand, Pin
  <2>4. QED
    BY <2>2, <2>3
<1>2. QED
  BY <1>1, Invariant, PTL

(* NoContention: in no cycle do host and target both drive the line, as long as  *)
(* no data word has gone astray.                                                *)
LEMMA NoneDrives ==
  ASSUME IInv, Clock, ~stray', pin' = "output"
  PROVE  ~Driving
<1>1. PICK l \in Bit :
        \/ SWDGPIOBBD_sequence(l) \/ SWDGPIOBBD_command(l) \/ SWDGPIOBBD_cycleTurnaround2Read(l)
        \/ SWDGPIOBBD_receiveAck(l) \/ WaitTurn(l) \/ SWDGPIOBBD_receiveData(l)
        \/ SWDGPIOBBD_cycleTurnaround2Write(l) \/ SWDGPIOBBD_sendData(l)
  BY DEF Clock, Bit
<1>2. Types /\ Target(target) /\ Pin /\ Apart /\ Together
  BY DEF IInv, Types, LineTypes
<1>3. CASE SWDGPIOBBD_sequence(l)
  <2>1. job \in {"connect", "disconnect"} /\ phase = "sequence" /\ ~stray
    BY <1>2, <1>3, SequenceTypes DEF SWDGPIOBBD_sequence
  <2>2. target.state \in {"idle", "header", "lost"}
    BY <1>2, <2>1 DEF Apart, Quiet
  <2>3. QED
    BY <2>2 DEF Driving
<1>4. CASE SWDGPIOBBD_command(l)
  <2>1. InStepCommand /\ n \in 0..7
    BY <1>2, <1>4, CommandTypes DEF Together
  <2>2. n = 0 \/ n > 0
    BY <2>1
  <2>3. QED
    BY <2>1, <2>2 DEF InStepCommand, Driving
<1>5. CASE SWDGPIOBBD_cycleTurnaround2Read(l)
  BY <1>5 DEF SWDGPIOBBD_cycleTurnaround2Read, Cycle
<1>6. CASE SWDGPIOBBD_receiveAck(l)
  BY <1>2, <1>6 DEF SWDGPIOBBD_receiveAck, Cycle, Pin
<1>7. CASE WaitTurn(l)
  <2>1. InStepWait
    BY <1>2, <1>7, WaitTypes DEF Together
  <2>2. QED
    BY <2>1 DEF InStepWait, Driving
<1>8. CASE SWDGPIOBBD_receiveData(l)
  <2>1. InStepReceive
    BY <1>2, <1>8, ReceiveTypes DEF Together
  <2>2. ack # 1
    BY <1>2, <1>8 DEF SWDGPIOBBD_receiveData, Cycle, Pin
  <2>3. QED
    BY <2>1, <2>2 DEF InStepReceive, Driving
<1>9. CASE SWDGPIOBBD_cycleTurnaround2Write(l)
  <2>1. InStepTurn2Write
    BY <1>2, <1>9, Turn2WriteTypes DEF Together
  <2>2. QED
    BY <2>1 DEF InStepTurn2Write, Driving
<1>10. CASE SWDGPIOBBD_sendData(l)
  <2>1. InStepSend
    BY <1>2, <1>10, SendTypes DEF Together
  <2>2. QED
    BY <2>1 DEF InStepSend, Driving
<1>11. QED
  BY <1>1, <1>3, <1>4, <1>5, <1>6, <1>7, <1>8, <1>9, <1>10

(* NoContention, from the places of the target in every phase of the host.       *)
THEOREM NeverBoth == Spec => NoContention
<1>1. IInv /\ [Next]_vars => [~stray' /\ Clock => ~(Driving /\ pin' = "output")]_vars
  BY NoneDrives
<1>2. QED
  BY <1>1, Invariant, PTL DEF Spec, NoContention

-----------------------------------------------------------------------------
(* The abstract transfer *)

(* What the abstract variables stand for.                                        *)
Asked == IF job = "transfer" THEN <<Access(IF Reading(cmd) THEN Zero ELSE data)>> ELSE <<>>
Achieved == IF job = "transfer" THEN performed ELSE <<>>
Answer == IF job = "ready" /\ performed # <<>> THEN <<data>> ELSE <<>>

LEMMA Stuttering ==
  ASSUME Stage' = Stage, Asked' = Asked, Achieved' = Achieved, Answer' = Answer
  PROVE  UNCHANGED T!vars
  BY DEF T!vars, Asked, Achieved, Answer, Access

LEMMA Starting ==
  ASSUME Stage = "none", Stage' = "ready", Asked' = <<>>, Achieved' = <<>>, Answer' = <<>>
  PROVE  T!Next
  BY DEF T!Next, T!Start, T!Clear, Asked, Achieved, Answer, Access

LEMMA Ending ==
  ASSUME Stage = "ready", Stage' = "none", Asked' = <<>>, Achieved' = <<>>, Answer' = <<>>
  PROVE  T!Next
  BY DEF T!Next, T!End, T!Clear, Asked, Achieved, Answer, Access

LEMMA Asking ==
  ASSUME Stage = "ready", Stage' = "busy", NEW c \in Cmds, NEW w \in IF Reading(c) THEN {Zero} ELSE Words,
         Asked' = <<[cmd |-> c, word |-> w]>>, Achieved' = <<>>, Answer' = <<>>
  PROVE  T!Next
<1>1. T!Ask(c, w)
  BY DEF T!Ask, T!Access, Asked, Achieved, Answer, Access
<1>2. w \in IF c \in {x \in Cmds : Reading(x)} THEN {Zero} ELSE Words
  OBVIOUS
<1>3. QED
  BY <1>1, <1>2 DEF T!Next

LEMMA Performing ==
  ASSUME Stage = "busy", Stage' = "busy", NEW c \in Cmds, NEW v, NEW w \in Words,
         Asked = <<[cmd |-> c, word |-> v]>>, Asked' = Asked, Reading(c) \/ w = v,
         Achieved = <<>>, Achieved' = <<[cmd |-> c, word |-> w]>>, Answer' = Answer
  PROVE  T!Next
<1>1. Asked[1].cmd = c /\ Asked[1].word = v
  OBVIOUS
<1>2. c \in {x \in Cmds : Reading(x)} \/ w = v
  OBVIOUS
<1>3. T!Perform(w)
  BY <1>1, <1>2 DEF T!Perform, T!Access, Asked, Achieved, Answer, Access
<1>4. QED
  BY <1>3 DEF T!Next

LEMMA Succeeding ==
  ASSUME Stage = "busy", Stage' = "ready", NEW a, Achieved = <<a>>, Asked' = <<>>, Achieved' = <<>>,
         Answer' = <<a.word>>
  PROVE  T!Next
  BY DEF T!Next, T!Succeed, T!Clear, Asked, Achieved, Answer, Access

LEMMA Failing ==
  ASSUME Stage = "busy", Stage' = "failed", Achieved = <<>>, Asked' = <<>>, Achieved' = <<>>, Answer' = Answer
  PROVE  T!Next
  BY DEF T!Next, T!Fail, T!Clear, Asked, Achieved, Answer, Access

LEMMA Recovering ==
  ASSUME Stage = "failed", Stage' = "none", Asked' = <<>>, Achieved' = <<>>, Answer' = <<>>
  PROVE  T!Next
  BY DEF T!Next, T!Recover, T!Clear, Asked, Achieved, Answer, Access

(* Of the cycles of a transfer only the one that completes the access is a step  *)
(* of the abstract transfer.                                                     *)
LEMMA ClockImplements ==
  ASSUME IInv, IInv', Clock
  PROVE  T!Next \/ UNCHANGED T!vars
<1>1. PICK l \in Bit :
        \/ SWDGPIOBBD_sequence(l) \/ SWDGPIOBBD_command(l) \/ SWDGPIOBBD_cycleTurnaround2Read(l)
        \/ SWDGPIOBBD_receiveAck(l) \/ WaitTurn(l) \/ SWDGPIOBBD_receiveData(l)
        \/ SWDGPIOBBD_cycleTurnaround2Write(l) \/ SWDGPIOBBD_sendData(l)
  BY DEF Clock, Bit
<1>2. Types /\ Locals /\ Accomplished /\ Accomplished' /\ Locals' /\ Together
  BY DEF IInv, Types
<1>3. CASE job # "transfer"
  <2>1. job' = job /\ job # "ready"
    BY <1>1, <1>2, SequenceTypes, CommandTypes, Turn2ReadTypes, AckTypes, WaitTypes, ReceiveTypes,
       Turn2WriteTypes, SendTypes DEF host, Transferring
  <2>2. Stage' = Stage /\ Asked' = Asked /\ Achieved' = Achieved /\ Answer' = Answer
    BY <1>3, <2>1 DEF Stage, Asked, Achieved, Answer
  <2>3. QED
    BY <2>2, Stuttering
<1>4. CASE job = "transfer"
  <2>1. ~SWDGPIOBBD_sequence(l) /\ cmd \in Cmds
    BY <1>2, <1>4, SequenceTypes DEF Locals
  <2>2. job' = job /\ cmd' = cmd /\ (Reading(cmd) \/ data' = data)
    BY <1>1, <1>2, <2>1, CommandTypes, Turn2ReadTypes, AckTypes, WaitTypes, ReceiveTypes, Turn2WriteTypes, SendTypes
       DEF host
  <2>3. \/ performed' = performed
        \/ performed = <<>> /\ performed' = <<Access(data)>>' /\ data' \in Words
    <3>1. CASE \/ SWDGPIOBBD_command(l) \/ SWDGPIOBBD_cycleTurnaround2Read(l) \/ SWDGPIOBBD_receiveAck(l)
               \/ WaitTurn(l)
      <4>1. /\ phase \in {"command", "turn2read", "ack", "waitturn"}
            /\ phase' \in {"command", "turn2read", "ack", "waitturn", DataPhase}
        BY <1>2, <3>1, CommandTypes, Turn2ReadTypes, AckTypes, WaitTypes DEF Transferring
      <4>2. performed = <<>>
        BY <1>2, <1>4, <4>1 DEF Accomplished
      <4>3. performed' = <<>>
        BY <1>2, <1>4, <2>2, <4>1 DEF Accomplished, DataPhase
      <4>4. QED
        BY <4>2, <4>3
    <3>2. CASE SWDGPIOBBD_receiveData(l)
      <4>1. phase = "receive" /\ phase' \in {"receive", "turn2write"}
        BY <1>2, <3>2, ReceiveTypes
      <4>2. performed = <<>>
        BY <1>2, <1>4, <4>1 DEF Accomplished
      <4>3. performed' = <<>> \/ (performed' = <<Access(data)>>' /\ data' \in Words)
        BY <1>2, <1>4, <2>2, <4>1 DEF Accomplished
      <4>4. QED
        BY <4>2, <4>3
    <3>3. CASE SWDGPIOBBD_cycleTurnaround2Write(l)
      <4>1. /\ phase = "turn2write" /\ ack' = ack /\ data' = data /\ n' = 0
            /\ phase' = IF Reading(cmd) THEN "done" ELSE "send"
        BY <1>2, <3>3, Turn2WriteTypes DEF host
      <4>2. performed = IF Reading(cmd) /\ ack = 1 THEN <<Access(data)>> ELSE <<>>
        BY <1>2, <1>4, <4>1 DEF Accomplished
      <4>3. CASE Reading(cmd)
        <5>1. performed' = IF ack' = 1 THEN <<Access(data)>>' ELSE <<>>
          BY <1>2, <1>4, <2>2, <4>1, <4>3 DEF Accomplished
        <5>2. QED
          BY <2>2, <4>1, <4>2, <4>3, <5>1 DEF Access
      <4>4. CASE ~Reading(cmd)
        <5>1. ~(n' > DataBits) /\ phase' = "send"
          BY <4>1, <4>4
        <5>2. performed' = <<>>
          BY <1>2, <1>4, <2>2, <5>1 DEF Accomplished
        <5>3. QED
          BY <4>2, <4>4, <5>2
      <4>5. QED
        BY <4>3, <4>4
    <3>4. CASE SWDGPIOBBD_sendData(l)
      <4>1. /\ phase = "send" /\ ack' = ack /\ data' = data /\ n \in 0 .. DataBits + 2 /\ ~Reading(cmd)
            /\ IF n < DataBits + 2 THEN n' = n + 1 /\ phase' = "send" ELSE n' = 0 /\ phase' = "done"
            /\ stray' = (stray \/ (n = 0 /\ target.state # "wdata"))
        BY <1>2, <3>4, SendTypes DEF host
      <4>2. data' \in Words
        BY <1>2, <1>4, <2>2, <4>1 DEF Locals
      <4>3. performed = IF ~stray /\ n > DataBits THEN <<Access(data)>> ELSE <<>>
        BY <1>2, <1>4, <4>1 DEF Accomplished
      <4>4. CASE n < DataBits + 2
        <5>1. performed' = IF ~stray' /\ n' > DataBits THEN <<Access(data)>>' ELSE <<>>
          BY <1>2, <1>4, <2>2, <4>1, <4>4 DEF Accomplished
        <5>2. n > DataBits => n' > DataBits /\ (stray' => stray)
          <6>1. n > DataBits => n' > DataBits /\ n # 0
            BY <4>1, <4>4
          <6>2. QED
            BY <4>1, <6>1
        <5>3. stray => stray'
          BY <4>1
        <5>4. <<Access(data)>>' = <<Access(data)>>
          BY <2>2, <4>1 DEF Access
        <5>5. QED
          BY <4>2, <4>3, <5>1, <5>2, <5>3, <5>4
      <4>5. CASE ~(n < DataBits + 2)
        <5>1. performed' = IF ack' = 1 THEN <<Access(data)>>' ELSE <<>>
          BY <1>2, <1>4, <2>2, <4>1, <4>5 DEF Accomplished
        <5>2. <<Access(data)>>' = <<Access(data)>> /\ n > DataBits /\ n # 0
          BY <2>2, <4>1, <4>5 DEF Access
        <5>3. stray => ack # 1
          BY <1>2, <1>4, <4>1 DEF Accomplished
        <5>4. ~stray => ack = 1
          <6>1. ~(n <= DataBits)
            BY <4>1, <4>5
          <6>2. QED
            BY <1>2, <1>4, <4>1, <5>2, <6>1 DEF Together, Transferring, InStepSend
        <5>5. QED
          BY <4>1, <4>3, <5>1, <5>2, <5>3, <5>4
      <4>6. QED
        BY <4>4, <4>5
    <3>5. QED
      BY <1>1, <2>1, <3>1, <3>2, <3>3, <3>4
  <2>4. Stage = "busy" /\ Stage' = "busy" /\ Asked' = Asked /\ Answer' = Answer
    BY <1>4, <2>2 DEF Stage, Asked, Answer, Access
  <2>5. CASE performed' = performed
    <3>1. Achieved' = Achieved
      BY <1>4, <2>2, <2>5 DEF Achieved
    <3>2. QED
      BY <2>4, <3>1, Stuttering
  <2>6. CASE performed = <<>> /\ performed' = <<Access(data)>>' /\ data' \in Words
    <3>1. Asked = <<[cmd |-> cmd, word |-> IF Reading(cmd) THEN Zero ELSE data]>>
      BY <1>4 DEF Asked, Access
    <3>2. Achieved = <<>> /\ Achieved' = <<[cmd |-> cmd, word |-> data']>>
      BY <1>4, <2>2, <2>6 DEF Achieved, Access
    <3>3. Reading(cmd) \/ data' = IF Reading(cmd) THEN Zero ELSE data
      BY <2>2
    <3>4. QED
      BY <2>1, <2>4, <2>6, <3>1, <3>2, <3>3, Performing
  <2>7. QED
    BY <2>3, <2>5, <2>6
<1>5. QED
  BY <1>3, <1>4

LEMMA JobImplements ==
  ASSUME IInv, Jobs
  PROVE  T!Next \/ UNCHANGED T!vars
<1>1. HostTypes /\ Accomplished
  BY DEF IInv, Types
<1>2. CASE StartRequest \/ Disconnected \/ EndRequest \/ AbortReturn
  <2>1. CASE StartRequest \/ Disconnected
    <3>1. job \in {"none", "disconnect"} /\ job' \in {"none", "connect"}
      BY <2>1 DEF StartRequest, Disconnected, Sequence
    <3>2. Stage' = Stage /\ Asked' = Asked /\ Achieved' = Achieved /\ Answer' = Answer
      BY <3>1 DEF Stage, Asked, Achieved, Answer
    <3>3. QED
      BY <3>2, Stuttering
  <2>2. CASE EndRequest
    <3>1. job = "ready" /\ job' = "disconnect"
      BY <2>2 DEF EndRequest, Sequence
    <3>2. Stage = "ready" /\ Stage' = "none" /\ Asked' = <<>> /\ Achieved' = <<>> /\ Answer' = <<>>
      BY <3>1 DEF Stage, Asked, Achieved, Answer
    <3>3. QED
      BY <3>2, Ending
  <2>3. CASE AbortReturn
    <3>1. job = "abort" /\ job' = "disconnect"
      BY <2>3 DEF AbortReturn, Sequence
    <3>2. Stage = "failed" /\ Stage' = "none" /\ Asked' = <<>> /\ Achieved' = <<>> /\ Answer' = <<>>
      BY <3>1 DEF Stage, Asked, Achieved, Answer
    <3>3. QED
      BY <3>2, Recovering
  <2>4. QED
    BY <1>2, <2>1, <2>2, <2>3
<1>3. CASE Connected
  <2>1. job = "connect" /\ job' = "ready" /\ performed' = <<>>
    BY <1>3 DEF Connected
  <2>2. Stage = "none" /\ Stage' = "ready" /\ Asked' = <<>> /\ Achieved' = <<>> /\ Answer' = <<>>
    BY <2>1 DEF Stage, Asked, Achieved, Answer
  <2>3. QED
    BY <2>2, Starting
<1>4. CASE TransferOk
  <2>1. job = "transfer" /\ phase = "done" /\ ack <= 1 /\ job' = "ready" /\ performed' = performed /\ data' = data
    BY <1>4 DEF TransferOk
  <2>2. performed = <<Access(data)>>
    BY <1>1, <2>1 DEF Accomplished, Answered
  <2>3. performed # <<>> /\ data = Access(data).word
    BY <2>2 DEF Access
  <2>4. Stage = "busy" /\ Stage' = "ready" /\ Asked' = <<>> /\ Achieved' = <<>> /\ Achieved = <<Access(data)>>
    BY <2>1, <2>2 DEF Stage, Asked, Achieved
  <2>5. Answer' = <<Access(data).word>>
    BY <2>1, <2>3 DEF Answer
  <2>6. QED
    BY <2>4, <2>5, Succeeding
<1>5. CASE SWDGPIOBBD_abort
  <2>1. job = "transfer" /\ phase = "done" /\ ack > 1 /\ job' = "ctrlstat"
    BY <1>5 DEF SWDGPIOBBD_abort, Begin
  <2>2. performed = <<>>
    BY <1>1, <2>1 DEF Accomplished
  <2>3. /\ Stage = "busy" /\ Stage' = "failed" /\ Achieved = <<>> /\ Asked' = <<>> /\ Achieved' = <<>>
        /\ Answer' = Answer
    BY <2>1, <2>2 DEF Stage, Asked, Achieved, Answer
  <2>4. QED
    BY <2>3, Failing
<1>6. CASE AbortLoop
  <2>1. job = "ctrlstat" /\ job' = "abort"
    BY <1>6 DEF AbortLoop, Begin
  <2>2. Stage' = Stage /\ Asked' = Asked /\ Achieved' = Achieved /\ Answer' = Answer
    BY <2>1 DEF Stage, Asked, Achieved, Answer
  <2>3. QED
    BY <2>2, Stuttering
<1>7. ASSUME NEW c \in Cmds, NEW d \in IF Reading(c) THEN {Zero} ELSE Words, SWDGPIOBBD_transfer(c, d)
      PROVE  T!Next
  <2>1. job = "ready" /\ job' = "transfer" /\ cmd' = c /\ data' = d /\ performed' = <<>>
    BY <1>7 DEF SWDGPIOBBD_transfer, Begin
  <2>2. Stage = "ready" /\ Stage' = "busy" /\ Achieved' = <<>> /\ Answer' = <<>>
    BY <2>1 DEF Stage, Achieved, Answer
  <2>3. Asked' = <<[cmd |-> c, word |-> d]>>
    BY <2>1 DEF Asked, Access
  <2>4. QED
    BY <2>2, <2>3, Asking
<1>8. QED
  BY <1>2, <1>3, <1>4, <1>5, <1>6, <1>7 DEF Jobs

(* The safety part of ImplementsTransfer: every step on the wire is a step of    *)
(* the abstract transfer or changes nothing of it, so a transfer that returns    *)
(* OK was performed exactly once with the word of host or target, and one that   *)
(* returns WAIT or FAULT not at all.                                             *)
THEOREM Implements == Spec => T!Init /\ [][T!Next]_(T!vars)
<1>1. Init => T!Init
  BY DEF Init, T!Init, Stage
<1>2. IInv /\ IInv' /\ [Next]_vars => [T!Next]_(T!vars)
  <2> SUFFICES ASSUME IInv, IInv', [Next]_vars PROVE T!Next \/ UNCHANGED T!vars
    OBVIOUS
  <2>1. CASE Clock
    BY <2>1, ClockImplements
  <2>2. CASE Jobs
    BY <2>2, JobImplements
  <2>3. CASE UNCHANGED vars
    <3>1. UNCHANGED <<job, cmd, data, performed>>
      BY <2>3 DEF vars, host
    <3>2. Stage' = Stage /\ Asked' = Asked /\ Achieved' = Achieved /\ Answer' = Answer
      BY <3>1 DEF Stage, Asked, Achieved, Answer, Access
    <3>3. QED
      BY <3>2, Stuttering
  <2>4. QED
    BY <2>1, <2>2, <2>3, Parts
<1>3. QED
  BY <1>1, <1>2, Invariant, PTL DEF Spec

=============================================================================
