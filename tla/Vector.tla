------------------------------- MODULE Vector -------------------------------
(***************************************************************************)
(* The growing array of src/util/vector.c: a block of cells from malloc,   *)
(* the capacity the code believes it has, and the size.  Every operation   *)
(* that writes goes through extend_if_necessary and get_element, whose     *)
(* assertion ends the process (no build of the project defines NDEBUG).    *)
(*                                                                         *)
(* realloc may fail.  The capacity has been doubled by then, and the       *)
(* report of the failure is pushed on the vector of errors: when that is   *)
(* the very vector that could not grow, the push is nested in the first.   *)
(***************************************************************************)
EXTENDS Integers, Sequences

CONSTANTS
  Values,             (* the pointers stored                                *)
  Unset,              (* what a fresh cell holds; no pointer is returned    *)
  InitialCapacity,    (* 4                                                  *)
  MaxSize             (* bound: the number of elements                      *)

ASSUME VectorAssumption ==
  /\ InitialCapacity \in Nat \ {0, 1}
  /\ MaxSize \in Nat
  /\ Unset \notin Values

VARIABLES
  elems,        (* the cells of the block, numbered from 0                  *)
  capacity, size,
  owner,        (* "log" for errorVector, "queue" for the list of a token
                   queue, "client" for any other vector                     *)
  accessed,     (* the cells the last call read or wrote                    *)
  returned,     (* what the last call returned                              *)
  vectorLife    (* "live", "destroyed", or how the process ended            *)

storage == <<elems, capacity, size>>
vectorVars == <<storage, owner, accessed, returned, vectorLife>>

Allocated == DOMAIN elems

Live == vectorLife = "live"

Answers(cells, value) == accessed' = cells /\ returned' = value

(* assert in get_element and every other end of the process.               *)
Ends(how) == vectorLife' = how /\ returned' = Unset

-----------------------------------------------------------------------------
(* vector_create; assertions check what malloc returns.                    *)
VectorInit ==
  /\ elems = [cell \in 0 .. InitialCapacity - 1 |-> Unset]
  /\ capacity = InitialCapacity /\ size = 0
  /\ owner \in {"client", "queue", "log"}
  /\ accessed = {} /\ returned = Unset
  /\ vectorLife \in {"live", "aborted"}

(* The test of extend_if_necessary, made on the size already increased.    *)
Full(n) == n >= capacity

Capacity(n) == IF Full(n) THEN 2 * capacity ELSE capacity

(* Mutant: the block is reallocated before the capacity is doubled.        *)
ExtendedLate(n) == elems

(* The block after extend_if_necessary for size n, if realloc grants it.   *)
Extended(n) ==
  [cell \in 0 .. Capacity(n) - 1 |-> IF cell \in Allocated THEN elems[cell] ELSE Unset]

(* The comparison of vector_in_bounds and get_element is unsigned, so that *)
(* a negative index is out of bounds too.                                  *)
Within(i, n) == i \in 0 .. n - 1

(* Mutant: the elements are moved up starting from the lowest.             *)
MovedUpByCopy(cells, i, n) ==
  [cell \in DOMAIN cells |-> IF cell \in i + 1 .. n - 1 THEN cells[i] ELSE cells[cell]]

(* memmove of the elements from i on to the next cell; n counts the room   *)
(* for the new one.                                                        *)
MovedUp(cells, i, n) ==
  [cell \in DOMAIN cells |-> IF cell \in i + 1 .. n - 1 THEN cells[cell - 1] ELSE cells[cell]]

MovedDown(cells, i, n) ==
  [cell \in DOMAIN cells |-> IF cell \in i .. n - 2 THEN cells[cell + 1] ELSE cells[cell]]

vector_insert(i, v) ==
  /\ Live /\ size < MaxSize
  /\ Within(i, size + 1)
  /\ size' = size + 1
  /\ capacity' = Capacity(size + 1)
  /\ elems' = [MovedUp(Extended(size + 1), i, size + 1) EXCEPT ![i] = v]
  /\ Answers(i .. size, Unset)
  /\ UNCHANGED <<owner, vectorLife>>

vector_push(v) == vector_insert(size, v)

(* An index that leaves a gap: the vector has grown when it is noticed.    *)
vector_insert_aborts(i) ==
  /\ Live /\ size < MaxSize
  /\ ~Within(i, size + 1)
  /\ size' = size + 1
  /\ capacity' = Capacity(size + 1)
  /\ elems' = Extended(size + 1)
  /\ Ends("aborted")
  /\ UNCHANGED <<owner, accessed>>

(* realloc returns NULL.  For any vector but the log's, the error is       *)
(* logged and the process exits.                                           *)
GrowthFails ==
  /\ Live /\ size < MaxSize /\ Full(size + 1)
  /\ owner # "log"
  /\ size' = size + 1
  /\ capacity' = Capacity(size + 1)
  /\ Ends("exited")
  /\ UNCHANGED <<elems, owner, accessed>>

(* For the log's, push_error is called once more before v->elems is set:   *)
(* within the capacity already doubled, it writes the cell after the next, *)
(* and print_all_errors reads up to it, one cell that was never written    *)
(* included.                                                               *)
LogGrowthFails ==
  /\ Live /\ size < MaxSize /\ Full(size + 1)
  /\ owner = "log"
  /\ size' = size + 2
  /\ capacity' = Capacity(size + 1)
  /\ accessed' = 0 .. size + 1
  /\ \E how \in {"exited", "crashed"} : Ends(how)
  /\ UNCHANGED <<elems, owner>>

vector_remove(i) ==
  /\ Live /\ Within(i, size)
  /\ size' = size - 1
  /\ elems' = MovedDown(elems, i, size)
  /\ Answers(i .. size - 1, elems[i])
  /\ UNCHANGED <<capacity, owner, vectorLife>>

vector_pop == vector_remove(size - 1)

vector_set(i, v) ==
  /\ Live /\ Within(i, size)
  /\ elems' = [elems EXCEPT ![i] = v]
  /\ Answers({i}, Unset)
  /\ UNCHANGED <<capacity, size, owner, vectorLife>>

vector_get(i) ==
  /\ Live /\ Within(i, size)
  /\ Answers({i}, elems[i])
  /\ UNCHANGED <<storage, owner, vectorLife>>

(* The assertion of get_element in vector_get, vector_set, vector_remove   *)
(* and, for an empty vector, vector_pop.                                   *)
get_element_aborts(i) ==
  /\ Live /\ ~Within(i, size)
  /\ Ends("aborted")
  /\ UNCHANGED <<storage, owner, accessed>>

vector_destroy ==
  /\ Live
  /\ Ends("destroyed")
  /\ accessed' = {}
  /\ UNCHANGED <<storage, owner>>

VectorNext ==
  \/ \E i \in -1 .. MaxSize :
       \/ \E v \in Values : vector_insert(i, v) \/ vector_set(i, v)
       \/ vector_remove(i) \/ vector_get(i)
       \/ vector_insert_aborts(i) \/ get_element_aborts(i)
  \/ \E v \in Values : vector_push(v)
  \/ vector_pop \/ GrowthFails \/ LogGrowthFails \/ vector_destroy

VectorSpec == VectorInit /\ [][VectorNext]_vectorVars

-----------------------------------------------------------------------------
(* Types, and the room that is left in a vector in use: the block has as   *)
(* many cells as the code believes, and more than there are elements.      *)
VectorTypeOK ==
  /\ size \in Nat /\ capacity \in Nat \ {0, 1}
  /\ \E cells \in Nat : elems \in [0 .. cells - 1 -> Values \union {Unset}]
  /\ owner \in {"client", "queue", "log"}
  /\ accessed \subseteq Nat
  /\ returned \in Values \union {Unset}
  /\ vectorLife \in {"live", "destroyed", "aborted", "exited", "crashed"}
  /\ vectorLife \in {"live", "destroyed"} =>
       /\ Allocated = 0 .. capacity - 1 /\ size < capacity
       /\ \A cell \in 0 .. size - 1 : elems[cell] \in Values

(* Every access of a vector is to a cell of its block, through any history *)
(* of growth, shifts and removals ("to safely get a pointer to the given   *)
(* index's location in the vector's own internal storage").  The exception *)
(* is the report of the failed growth of the log's own vector: it accesses *)
(* exactly one cell behind the block, and the process does not survive it. *)
InsideAllocation ==
  accessed \subseteq Allocated
    \/ /\ owner = "log" /\ vectorLife \in {"exited", "crashed"}
       /\ \A cell \in accessed \ Allocated : cell = capacity \div 2

(* The elements in order, which is all a client knows of a vector.         *)
Elements == [k \in 1 .. size |-> elems[k - 1]]

List == INSTANCE Containers WITH
  Room <- MaxSize, Fallible <- TRUE, Nothing <- Unset,
  items <- IF Live THEN Elements ELSE <<>>,
  answer <- returned,
  life <- IF vectorLife \in {"live", "destroyed"} THEN vectorLife ELSE "exited"

(* A vector is a list of its elements: what was put in is found again, in  *)
(* its order and at its index, whatever is inserted and removed around it. *)
ImplementsList == List!ListSpec
=============================================================================
