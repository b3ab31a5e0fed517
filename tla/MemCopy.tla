-------------------------------- MODULE MemCopy --------------------------------
(***************************************************************************)
(* What the memory functions of cheese_memoryaccess.c promise as long as a   *)
(* target is connected: a read that succeeds delivers the words of the       *)
(* target's memory at the address that was asked for, a write that succeeds  *)
(* has put the given words there wherever the bus answers, and a write       *)
(* touches nothing else, whether it succeeds or fails.  A write need not      *)
(* notice that the bus did not answer for the last word of a transfer.  The  *)
(* two single-word functions promise less: a read that fails delivers zero,  *)
(* and a write that fails returns like one that succeeds.                    *)
(*                                                                         *)
(* A dump makes a new file, which stays empty unless all of its words could   *)
(* be read; no file that exists is ever written to.                          *)
(***************************************************************************)
EXTENDS Integers

CONSTANTS Addrs, Mapped, Word, Requests, Chunk, NoFile

VARIABLES
  attached, \* somebody is at the other end of the wire
  mem,      \* the target's memory
  file,     \* the file of the dumps, the words in it or NoFile
  request,  \* the operation in progress, a member of Requests, or the last one
  busy,     \* an operation is in progress
  made,     \* it is a dump that has made the file
  words,    \* the words the last successful fetch delivered
  failed    \* the last operation returned an error

vars == <<attached, mem, file, request, busy, made, words, failed>>

(* The place of word k of the request; word 0 holds the byte at its address. *)
Place(r, k) == (r.base \div 4) + k
Region(r) == {Place(r, k) : k \in 0 .. r.count - 1}

Init ==
  /\ attached = TRUE
  /\ mem \in [Addrs -> Word]
  /\ file = NoFile
  /\ request \in Requests
  /\ busy = FALSE /\ made = FALSE
  /\ words = <<>>
  /\ failed = FALSE

Call(r) ==
  /\ ~busy
  /\ busy' = TRUE
  /\ request' = r
  /\ words' = <<>>
  /\ failed' = FALSE
  /\ UNCHANGED <<attached, mem, file, made>>

(* A part of the request's words reaches the memory. *)
Store ==
  /\ busy /\ request.kind \in {"write", "poke"}
  /\ mem' \in [Addrs -> Word]
  /\ \A a \in Addrs : \/ mem'[a] = mem[a]
                      \/ \E k \in 0 .. request.count - 1 :
                           Place(request, k) = a /\ mem'[a] = request.data[k + 1]
  /\ UNCHANGED <<attached, file, request, busy, made, words, failed>>

(* The words of the request as they are read; without a target they are zero.   *)
Read(ws) ==
  /\ attached => Region(request) \subseteq Mapped
  /\ DOMAIN ws = 1 .. request.count
  /\ \A k \in DOMAIN ws :
       \/ Place(request, k - 1) \in Mapped /\ ws[k] = mem[Place(request, k - 1)]
       \/ ~attached /\ ws[k] = 0

FetchOk ==
  /\ busy /\ request.kind \in {"fetch", "print", "peek"}
  /\ busy' = FALSE
  /\ Read(words')
  /\ UNCHANGED <<attached, mem, file, request, made, failed>>

(* Word k ends a transfer: whether it was stored is known to the target only.    *)
Unnoticed(k) == k = request.count - 1 \/ (k + 1) % Chunk = 0

WriteOk ==
  /\ busy /\ request.kind = "write"
  /\ attached => \A k \in 0 .. request.count - 1 :
       \/ mem[Place(request, k)] = request.data[k + 1]
       \/ Place(request, k) \notin Mapped /\ Unnoticed(k)
  /\ busy' = FALSE
  /\ UNCHANGED <<attached, mem, file, request, made, words, failed>>

(* com_readWord() failed: it says so with a word that may be a value, too. *)
PeekFails ==
  /\ busy /\ request.kind = "peek"
  /\ busy' = FALSE
  /\ words' = <<0>>
  /\ UNCHANGED <<attached, mem, file, request, made, failed>>

(* com_writeWord() returns, whether the word was stored or not. *)
PokeReturns ==
  /\ busy /\ request.kind = "poke"
  /\ busy' = FALSE
  /\ UNCHANGED <<attached, mem, file, request, made, words, failed>>

MakeFile ==
  /\ busy /\ request.kind = "dump" /\ file = NoFile
  /\ file' = <<>> /\ made' = TRUE
  /\ UNCHANGED <<attached, mem, request, busy, words, failed>>

DumpOk ==
  /\ busy /\ made
  /\ busy' = FALSE /\ made' = FALSE
  /\ Read(file')
  /\ UNCHANGED <<attached, mem, request, words, failed>>

(* An error of any of the functions but the single-word ones. *)
Fail ==
  /\ busy /\ request.kind \notin {"peek", "poke"}
  /\ busy' = FALSE /\ made' = FALSE
  /\ failed' = TRUE
  /\ UNCHANGED <<attached, mem, file, request, words>>

(* The user removes the file, or unplugs the target. *)
RemoveFile ==
  /\ ~busy
  /\ file' = NoFile
  /\ UNCHANGED <<attached, mem, request, busy, made, words, failed>>

Unplug ==
  /\ attached' = FALSE
  /\ UNCHANGED <<mem, file, request, busy, made, words, failed>>

Next ==
  \/ \E r \in Requests : Call(r)
  \/ Store \/ FetchOk \/ WriteOk \/ PeekFails \/ PokeReturns \/ MakeFile \/ DumpOk \/ Fail
  \/ RemoveFile \/ Unplug

Spec == Init /\ [][Next]_vars

=============================================================================
