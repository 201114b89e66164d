----------------------------- MODULE RingBuffer -----------------------------
(***************************************************************************)
(* The ring buffer of src/util/ringbuffer.c: a block of RingSize cells and *)
(* two cursors that wrap around.  One cell is left free, by which a full   *)
(* buffer differs from an empty one.  Every refusal is an INTERNAL error,  *)
(* which ends the process.                                                 *)
(***************************************************************************)
EXTENDS Integers, Sequences

CONSTANTS
  Tokens,       (* the pointers stored                                      *)
  NoToken,      (* what a cell holds before its first use                   *)
  RingSize      (* RINGBUFFER_SIZE, 2048                                    *)

ASSUME RingAssumption == RingSize \in Nat \ {0} /\ NoToken \notin Tokens

VARIABLES
  data, read_idx, write_idx,
  value,        (* what the last call returned                              *)
  freed,        (* the tokens ringbuffer_destroy destroyed, in order        *)
  ringLife      (* "live", "destroyed" or "exited"                          *)

ringVars == <<data, read_idx, write_idx, value, freed, ringLife>>

-----------------------------------------------------------------------------
(* init_ringbuffer; if malloc fails, the error is INTERNAL.  The cells are *)
(* not initialized.                                                        *)
RingInit ==
  /\ data = [cell \in 0 .. RingSize - 1 |-> NoToken]
  /\ read_idx = 0 /\ write_idx = 0
  /\ value = NoToken /\ freed = <<>>
  /\ ringLife \in {"live", "exited"}

After(cursor) == IF cursor + 1 >= RingSize THEN 0 ELSE cursor + 1

rb_is_empty == read_idx = write_idx

(* Mutant: the last free cell is used as well.                             *)
RingFullLate == FALSE

RingFull == After(write_idx) = read_idx

ringbuffer_push(token) ==
  /\ ringLife = "live" /\ ~RingFull
  /\ data' = [data EXCEPT ![write_idx] = token]
  /\ write_idx' = After(write_idx)
  /\ value' = NoToken
  /\ UNCHANGED <<read_idx, freed, ringLife>>

ringbuffer_pop ==
  /\ ringLife = "live" /\ ~rb_is_empty
  /\ value' = data[read_idx]
  /\ read_idx' = After(read_idx)
  /\ UNCHANGED <<data, write_idx, freed, ringLife>>

ringbuffer_peek ==
  /\ ringLife = "live" /\ ~rb_is_empty
  /\ value' = data[read_idx]
  /\ UNCHANGED <<data, read_idx, write_idx, freed, ringLife>>

(* ERROR_BUFFER_FULL of a push, ERROR_BUFFER_EMPTY of a pop or a peek.     *)
RingRefuses ==
  /\ ringLife = "live" /\ (RingFull \/ rb_is_empty)
  /\ value' = NoToken
  /\ ringLife' = "exited"
  /\ UNCHANGED <<data, read_idx, write_idx, freed>>

(* The tokens from the read cursor to the write cursor, around the end.    *)
Held == (write_idx - read_idx + RingSize) % RingSize

InRing == [k \in 1 .. Held |-> data[(read_idx + k - 1) % RingSize]]

(* ringbuffer_destroy pops and destroys until the cursors meet.            *)
ringbuffer_destroy ==
  /\ ringLife = "live"
  /\ freed' = InRing
  /\ read_idx' = write_idx
  /\ value' = NoToken
  /\ ringLife' = "destroyed"
  /\ UNCHANGED <<data, write_idx>>

RingNext ==
  \/ \E token \in Tokens : ringbuffer_push(token)
  \/ ringbuffer_pop \/ ringbuffer_peek
  \/ RingRefuses \/ ringbuffer_destroy

RingSpec == RingInit /\ [][RingNext]_ringVars

-----------------------------------------------------------------------------
(* Types; the cursors stay within the block, and the cells between them    *)
(* hold tokens.                                                            *)
RingTypeOK ==
  /\ data \in [0 .. RingSize - 1 -> Tokens \union {NoToken}]
  /\ read_idx \in 0 .. RingSize - 1 /\ write_idx \in 0 .. RingSize - 1
  /\ value \in Tokens \union {NoToken}
  /\ freed \in Seq(Tokens)
  /\ ringLife \in {"live", "destroyed", "exited"}
  /\ \A k \in 1 .. Held : data[(read_idx + k - 1) % RingSize] \in Tokens

Ring == INSTANCE Containers WITH
  Values <- Tokens, Room <- RingSize - 1, Fallible <- FALSE, Nothing <- NoToken,
  items <- IF ringLife = "live" THEN InRing ELSE <<>>,
  answer <- value,
  life <- ringLife

(* The ring is a first-in first-out queue of RingSize - 1 tokens: nothing  *)
(* is overwritten or given out of order when a cursor wraps around, and    *)
(* only a full or an empty buffer refuses.                                 *)
ImplementsFifo == Ring!FifoSpec
=============================================================================
