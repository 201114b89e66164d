----------------------------- MODULE TokenQueue -----------------------------
(***************************************************************************)
(* The token queue of src/token/token_queue.c between the lexer and the    *)
(* parser: a vector that is only appended to and an index of the next      *)
(* token.  Tokens that were taken stay in the vector.                      *)
(***************************************************************************)
EXTENDS Vector

CONSTANT MaxOffset      \* bound: how far the parser looks ahead

ASSUME QueueAssumption == MaxOffset \in Nat

VARIABLE idx

queueVars == <<vectorVars, idx>>

-----------------------------------------------------------------------------
(* queue_init: the list is a vector of its own.                            *)
QueueInit == VectorInit /\ owner = "queue" /\ idx = 0

queue_push(token) == vector_push(token) /\ UNCHANGED idx

(* A token that could not be made is NULL, and the error is INTERNAL.      *)
queue_push_null ==
  /\ Live
  /\ Ends("exited")
  /\ UNCHANGED <<storage, owner, accessed, idx>>

queue_push_fails == GrowthFails /\ UNCHANGED idx

(* Mutant: a token that was taken is removed from the vector as well.      *)
queue_pop_removes ==
  /\ idx < size
  /\ vector_remove(idx)
  /\ idx' = idx + 1

queue_pop ==
  /\ idx < size
  /\ vector_get(idx)
  /\ idx' = idx + 1

queue_pop_empty ==
  /\ Live /\ idx >= size
  /\ Ends("exited")
  /\ UNCHANGED <<storage, owner, accessed, idx>>

(* queue_peek is queue_peek_offset with offset 0; both answer NULL past    *)
(* the last token.                                                         *)
queue_peek_offset(offset) ==
  /\ idx + offset < size
  /\ vector_get(idx + offset)
  /\ UNCHANGED idx

queue_peek_null(offset) ==
  /\ Live /\ idx + offset >= size
  /\ Answers({}, Unset)
  /\ UNCHANGED <<storage, owner, vectorLife, idx>>

(* destroy_queue goes through all the tokens, those taken included.        *)
destroy_queue ==
  /\ Live
  /\ Ends("destroyed")
  /\ accessed' = 0 .. size - 1
  /\ UNCHANGED <<storage, owner, idx>>

QueueNext ==
  \/ \E token \in Values : queue_push(token)
  \/ queue_push_null \/ queue_push_fails
  \/ queue_pop \/ queue_pop_empty
  \/ \E offset \in 0 .. MaxOffset : queue_peek_offset(offset) \/ queue_peek_null(offset)
  \/ destroy_queue

QueueSpec == QueueInit /\ [][QueueNext]_queueVars

-----------------------------------------------------------------------------
InUse == owner = "queue" /\ Live

(* The tokens still to be taken.                                           *)
Waiting == [k \in 1 .. size - idx |-> elems[idx + k - 1]]

Queue == INSTANCE Containers WITH
  Room <- MaxSize, Fallible <- TRUE, Nothing <- Unset,
  items <- IF InUse THEN Waiting ELSE <<>>,
  answer <- IF owner = "queue" THEN returned ELSE Unset,
  life <- IF InUse \/ owner # "queue" THEN "live"
          ELSE IF vectorLife = "destroyed" THEN "destroyed" ELSE "exited"

(* The parser takes the tokens in the order in which the lexer made them,  *)
(* none twice and none lost, and looks ahead at the ones it will take.     *)
ImplementsQueue == Queue!FifoSpec
=============================================================================
