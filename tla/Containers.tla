----------------------------- MODULE Containers -----------------------------
(***************************************************************************)
(* What the containers of src/util and src/token promise, without storage, *)
(* cursors or capacities: a sequence of items, at most Room of them, and   *)
(* the answer to the last call.  A queue puts at the end and takes at the  *)
(* front, a stack puts and takes at the end, a list anywhere.  Positions   *)
(* count from zero, as in the code.  A call that is refused ends the       *)
(* process, and what the container held is then of no interest.            *)
(***************************************************************************)
EXTENDS Integers, SequencesExt

CONSTANTS Values,     \* what is stored
          Room,       \* the number of items there is room for
          Fallible,   \* whether a call may be refused for want of memory
          Nothing     \* the answer of a call that returns no item

VARIABLES items, answer,
          life        \* "live", "exited" or "destroyed"

contents == <<items, answer, life>>

(* A container that could not be made ends the process, too.               *)
Init == items = <<>> /\ answer = Nothing /\ life \in {"live", "exited"}

Put(position, v) ==
  /\ life = "live"
  /\ position \in 0 .. Len(items) /\ Len(items) < Room
  /\ items' = InsertAt(items, position + 1, v)
  /\ answer' = Nothing
  /\ UNCHANGED life

Take(position) ==
  /\ life = "live"
  /\ position \in 0 .. Len(items) - 1
  /\ items' = RemoveAt(items, position + 1)
  /\ answer' = items[position + 1]
  /\ UNCHANGED life

Replace(position, v) ==
  /\ life = "live"
  /\ position \in 0 .. Len(items) - 1
  /\ items' = ReplaceAt(items, position + 1, v)
  /\ answer' = Nothing
  /\ UNCHANGED life

(* A look never changes the contents, and finds nothing only past the end. *)
Look(position) ==
  /\ life = "live"
  /\ position \in Nat
  /\ answer' = IF position < Len(items) THEN items[position + 1] ELSE Nothing
  /\ UNCHANGED <<items, life>>

Clear ==
  /\ life = "live"
  /\ items' = <<>> /\ answer' = Nothing
  /\ UNCHANGED life

End(how) ==
  /\ life = "live"
  /\ life' = how
  /\ items' = <<>> /\ answer' = Nothing

(* Only an empty or a full container refuses, unless memory runs out.      *)
Refuse ==
  /\ Fallible \/ items = <<>> \/ Len(items) = Room
  /\ End("exited")

FifoNext ==
  \/ \E v \in Values : Put(Len(items), v)
  \/ Take(0)
  \/ \E position \in 0 .. Room : Look(position)
  \/ Refuse \/ End("destroyed")

LifoNext ==
  \/ \E v \in Values : Put(Len(items), v)
  \/ Take(Len(items) - 1)
  \/ Look(Len(items) - 1)
  \/ Clear \/ Refuse

ListNext ==
  \/ \E position \in 0 .. Room, v \in Values : Put(position, v) \/ Replace(position, v)
  \/ \E position \in 0 .. Room : Take(position) \/ Look(position)
  \/ Refuse \/ End("destroyed")

FifoSpec == Init /\ [][FifoNext]_contents
LifoSpec == Init /\ [][LifoNext]_contents
ListSpec == Init /\ [][ListNext]_contents
=============================================================================
