---------------------------- MODULE MCMemoryAccess ----------------------------
(***************************************************************************)
(* MemoryAccess for TLC: chunks of two words, so a call takes up to three   *)
(* transfers, auto-increment blocks of four words, ten words of address     *)
(* space with a hole.                                                        *)
(***************************************************************************)
EXTENDS MemoryAccess

MCAddrs == 0..9
MCWord == -2..30
MCMemories == {[a \in MCAddrs |-> a + 1]}

Read(what, b, n) == [kind |-> what, base |-> b, count |-> n]
Write(b, s) == [kind |-> "write", base |-> b, count |-> Len(s), data |-> s]
Peek(b) == [kind |-> "peek", base |-> b, count |-> 1]
Poke(b, v) == [kind |-> "poke", base |-> b, count |-> 1, data |-> <<v>>]

(* Aligned and unaligned addresses, empty calls, calls that end in the middle   *)
(* of a chunk and at its end, calls that leave the mapped memory at once or     *)
(* half-way, a read of a word that is there behind one that is not, and a write   *)
(* whose last word the bus does not answer for.                                *)
MCRequests ==
  {Read("fetch", 4, 3), Read("fetch", 20, 2), Read("fetch", 28, 1), Read("print", 14, 2),
   Read("print", 0, 6),
   Read("dump", 12, 2), Peek(12), Peek(36)}
  \cup {Write(0, <<21, 22, 23>>), Write(16, <<5, 26, 27, 28>>), Write(16, <<5, 26, 27>>),
        Write(4, <<28>>), Write(0, <<>>), Poke(8, 23), Poke(36, 29)}

FewRequests ==
  {Read("fetch", 4, 3), Read("fetch", 20, 3), Write(0, <<21, 22, 23>>), Write(4, <<28>>)}
=============================================================================
