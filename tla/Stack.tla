------------------------------- MODULE Stack --------------------------------
(***************************************************************************)
(* The stack of src/util/stack.c: a block of cells of fixed capacity from  *)
(* an arena and the index of the next free one.  Every refusal is an       *)
(* INTERNAL error, which ends the process.                                 *)
(***************************************************************************)
EXTENDS Integers, Sequences

CONSTANTS
  Pointers,         (* what is stored                                       *)
  NULL,             (* what a call that returns no pointer leaves           *)
  StackCapacity     (* the capacity given to init_stack                     *)

ASSUME StackAssumption == StackCapacity \in Nat /\ NULL \notin Pointers

VARIABLES
  slots,        (* the data of the stack                                    *)
  top,
  popped,       (* what the last call returned                              *)
  stackLife     (* "live" or "exited"                                       *)

stackVars == <<slots, top, popped, stackLife>>

-----------------------------------------------------------------------------
(* init_stack; if the arena refuses one of the two blocks, the error is    *)
(* INTERNAL.                                                               *)
StackInit ==
  /\ slots = [cell \in 0 .. StackCapacity - 1 |-> NULL]
  /\ top = 0
  /\ popped = NULL
  /\ stackLife \in {"live", "exited"}

stack_push(pointer) ==
  /\ stackLife = "live" /\ top # StackCapacity
  /\ slots' = [slots EXCEPT ![top] = pointer]
  /\ top' = top + 1
  /\ popped' = NULL
  /\ UNCHANGED stackLife

stack_is_empty == top = 0

(* Mutant: the cell is read before the index is decremented.               *)
stack_pop_above ==
  /\ stackLife = "live" /\ ~stack_is_empty
  /\ popped' = IF top < StackCapacity THEN slots[top] ELSE NULL
  /\ top' = top - 1
  /\ UNCHANGED <<slots, stackLife>>

stack_pop ==
  /\ stackLife = "live" /\ ~stack_is_empty
  /\ popped' = slots[top - 1]
  /\ top' = top - 1
  /\ UNCHANGED <<slots, stackLife>>

stack_peek ==
  /\ stackLife = "live" /\ ~stack_is_empty
  /\ popped' = slots[top - 1]
  /\ UNCHANGED <<slots, top, stackLife>>

(* ERROR_BUFFER_FULL of a push, ERROR_BUFFER_EMPTY of a pop or a peek.     *)
StackRefuses ==
  /\ stackLife = "live" /\ (stack_is_empty \/ top = StackCapacity)
  /\ popped' = NULL
  /\ stackLife' = "exited"
  /\ UNCHANGED <<slots, top>>

stack_reset ==
  /\ stackLife = "live"
  /\ top' = 0
  /\ popped' = NULL
  /\ UNCHANGED <<slots, stackLife>>

StackNext ==
  \/ \E pointer \in Pointers : stack_push(pointer)
  \/ stack_pop \/ stack_peek \/ stack_reset \/ StackRefuses

StackSpec == StackInit /\ [][StackNext]_stackVars

-----------------------------------------------------------------------------
(* Types; the cells below the index hold pointers.                         *)
StackTypeOK ==
  /\ slots \in [0 .. StackCapacity - 1 -> Pointers \union {NULL}]
  /\ top \in 0 .. StackCapacity
  /\ popped \in Pointers \union {NULL}
  /\ stackLife \in {"live", "exited"}
  /\ \A cell \in 0 .. top - 1 : slots[cell] \in Pointers

Lifo == INSTANCE Containers WITH
  Values <- Pointers, Room <- StackCapacity, Fallible <- FALSE, Nothing <- NULL,
  items <- IF stackLife = "live" THEN [k \in 1 .. top |-> slots[k - 1]] ELSE <<>>,
  answer <- popped,
  life <- stackLife

(* The stack is a last-in first-out store of its capacity: what a reset or *)
(* a pop leaves in the block is never given out again, and only a full or  *)
(* an empty stack refuses.                                                 *)
ImplementsLifo == Lifo!LifoSpec
=============================================================================
