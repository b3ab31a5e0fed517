------------------------------ MODULE MCSystemInfo ------------------------------
(***************************************************************************)
(* SystemInfo for TLC: sixteen pages, three targets.  One has tables of      *)
(* tables with offsets of both signs, one of them across the end of the      *)
(* address space, entries that are not present, one that leads to no         *)
(* component, and leaves of all kinds; one has more access ports than fit, the first with the tree;   *)
(* one has no access port.                                                   *)
(***************************************************************************)
EXTENDS SystemInfo

(* The table, cut down: an ID that an SCS shares with others, as the Cortex-M33    *)
(* parts do, and the zeros behind the last entry, which C puts there.             *)
Known(i, c) == [ID |-> i, componentClass |-> c]
MCarm_comp ==
  <<Known("0", "NONE"), Known("M4", "ROM"), Known("M0+ SCS", "SCS"), Known("M0+ DWT", "DWT"),
    Known("M33", "SCS"), Known("M33", "TPIU"), Known("0", "NONE")>>

Leaf(c, i) == [class |-> c, id |-> i, registers |-> <<7, 3>>, entries |-> <<>>]
Table(s) == [class |-> "ROM", id |-> "M4", registers |-> <<0, 0>>, entries |-> s]
Entry(o) == [offset |-> o, present |-> TRUE]
Absent(o) == [offset |-> o, present |-> FALSE]

Tree == [p \in 0..15 |->
  CASE p = 12 -> Table(<<Entry(13), Absent(1), Entry(5), Entry(2)>>)   \* 9, 1, 14
    [] p = 9  -> Table(<<Entry(1), Absent(0), Entry(9)>>)              \* 10, 2
    [] p = 2  -> Table(<<Entry(14), Entry(1), Entry(2)>>)              \* 0, 3, 4
    [] p = 1  -> Leaf("CoreSight", "M0+ SCS")
    [] p = 10 -> Leaf("CoreSight", "M33")
    [] p = 14 -> Leaf("genericIP", "M0+ SCS")
    [] p = 0  -> Leaf("other", "0")
    [] p = 4  -> Leaf("CoreSight", "M0+ DWT")
    [] OTHER  -> Leaf("invalid", "0")]

Depth == [p \in 0..15 |-> CASE p \in {9, 1, 14} -> 1 [] p \in {10, 2} -> 2 [] p \in {0, 3, 4} -> 3 [] OTHER -> 0]

MCTargets == {[aps |-> a, memory |-> Tree, depth |-> Depth] : a \in {<<12>>, <<12, 15, 15, 15>>, <<>>}}
=============================================================================
