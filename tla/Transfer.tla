------------------------------- MODULE Transfer -------------------------------
(***************************************************************************)
(* What the command loop of write() relies on when it calls                 *)
(* SWDGPIOBBD_transfer() and SWDGPIOBBD_abort(): the wire without its bits.  *)
(*                                                                         *)
(* A transfer is performed by the target at most once, and the caller is    *)
(* told OK exactly if it was.  After a failure the caller has to begin      *)
(* again: nothing is promised of the target before the next request.        *)
(***************************************************************************)
EXTENDS Naturals, Sequences

CONSTANTS
  Cmds, Reads,   \* commands, and the set of those that read
  Words, Zero    \* data words; the word that is sent with a read

VARIABLES
  stage,      \* "none", "ready" (in a request), "busy" (in a transfer), "failed"
  asked,      \* <<the access that is asked for>>, or empty
  performed,  \* the accesses the target performed in this transfer
  answer      \* <<the word returned with an OK>>, or empty

vars == <<stage, asked, performed, answer>>

Access(c, w) == [cmd |-> c, word |-> w]

Init == stage = "none" /\ asked = <<>> /\ performed = <<>> /\ answer = <<>>

Clear(s) == stage' = s /\ asked' = <<>> /\ performed' = <<>>

Start == stage = "none" /\ Clear("ready") /\ answer' = <<>>
End   == stage = "ready" /\ Clear("none") /\ answer' = <<>>

Ask(c, w) ==
  /\ stage = "ready"
  /\ stage' = "busy"
  /\ asked' = <<Access(c, w)>>
  /\ performed' = <<>> /\ answer' = <<>>

(* The target takes the word of a write as it was sent; a read has its own.      *)
Perform(w) ==
  /\ stage = "busy" /\ performed = <<>>
  /\ asked[1].cmd \notin Reads => w = asked[1].word
  /\ performed' = <<Access(asked[1].cmd, w)>>
  /\ UNCHANGED <<stage, asked, answer>>

Succeed ==
  /\ stage = "busy" /\ performed # <<>>
  /\ Clear("ready")
  /\ answer' = <<performed[1].word>>

Fail ==
  /\ stage = "busy" /\ performed = <<>>
  /\ Clear("failed")
  /\ UNCHANGED answer

Recover == stage = "failed" /\ Clear("none") /\ answer' = <<>>

Next ==
  \/ Start \/ End \/ Succeed \/ Fail \/ Recover
  \/ \E c \in Cmds : \E w \in IF c \in Reads THEN {Zero} ELSE Words : Ask(c, w)
  \/ \E w \in Words : Perform(w)

(* Every call returns, the abort after a failed one included.                    *)
Returns == stage \in {"busy", "failed"} ~> stage \in {"none", "ready"}

Spec == Init /\ [][Next]_vars /\ Returns

=============================================================================
