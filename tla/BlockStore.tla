----------------------------- MODULE BlockStore -----------------------------
(***************************************************************************)
(* What a client of an arena is promised, without pages, reservations or   *)
(* cursors: a block it was given is aligned, belongs to nobody else, and   *)
(* stays its own until every block is given back at once.  Module Arena    *)
(* implements this specification.                                          *)
(***************************************************************************)
EXTENDS Integers

CONSTANT Align          \* alignment of every block, alignof(max_align_t)

VARIABLES blocks,       \* the blocks clients hold, <<address, size>>
          phase         \* "none", "null", "live", "destroyed", "exited"

storeVars == <<blocks, phase>>

(* The bytes of two blocks are disjoint address ranges.                    *)
Apart(b, c) == b[1] + b[2] <= c[1] \/ c[1] + c[2] <= b[1]

MultipleOf(n, a) == \E k \in 0 .. n : n = k * a

Init == blocks = {} /\ phase = "none"

(* Opening the store, successfully or not, hands nothing out.              *)
Open ==
  /\ phase = "none"
  /\ phase' \in {"live", "null"}
  /\ UNCHANGED blocks

(* A new block is aligned and apart from all the blocks still held.        *)
Give ==
  /\ phase = "live"
  /\ \E b \in blocks' \ blocks :
       /\ MultipleOf(b[1], Align)
       /\ \A c \in blocks : Apart(b, c)
       /\ blocks' = blocks \union {b}
  /\ UNCHANGED phase

(* All blocks are given back together.                                     *)
TakeBack ==
  /\ phase = "live"
  /\ blocks' = {}
  /\ phase' \in {"live", "destroyed"}

(* A request that cannot be met ends the process and disturbs no block.    *)
Refuse ==
  /\ phase \in {"live", "null"}
  /\ phase' = "exited"
  /\ UNCHANGED blocks

Next == Open \/ Give \/ TakeBack \/ Refuse

Spec == Init /\ [][Next]_storeVars
=============================================================================
