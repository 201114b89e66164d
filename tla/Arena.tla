-------------------------------- MODULE Arena --------------------------------
(***************************************************************************)
(* The arena allocator of src/util/arena.c.  An arena reserves a range of  *)
(* pages (mmap PROT_NONE) and makes them usable (mprotect) as its cursor   *)
(* advances.  Addresses are integers.  A failed request is reported with   *)
(* ERROR_PHASE_INTERNAL, which ends the process (module ErrorLog models    *)
(* the report itself).                                                     *)
(*                                                                         *)
(* The kernel is the environment: the pages that follow the reservation    *)
(* may belong to another mapping, and a commit may be refused.             *)
(***************************************************************************)
EXTENDS Integers

CONSTANTS
  Page,       (* sysconf(_SC_PAGESIZE)                                      *)
  Align,      (* alignof(max_align_t)                                       *)
  Base,       (* the address mmap returns, on a page boundary               *)
  Pages,      (* the multiplier given to init_arena                         *)
  Sizes       (* the sizes clients ask for: sizeof(...) or a length plus 1  *)

ASSUME ConstantsAssumption ==
  /\ Align \in Nat \ {0}
  /\ Page \in Nat \ {0} /\ \E k \in 1 .. Page : Page = k * Align
  /\ Base \in Nat /\ \E k \in 0 .. Base : Base = k * Page
  /\ Pages \in Nat \ {0}
  /\ Sizes \subseteq Nat \ {0}

VARIABLES
  start, current, committed_end, reserved_end,   (* the fields of Arena     *)
  phase,    (* "none", "null" (init_arena failed), "live", "destroyed", or
               "exited" once log_error has ended the process                *)
  mapped,   (* whether the page at reserved_end is mapped by someone else   *)
  blocks    (* what arena_alloc returned and reset/destroy did not revoke   *)

fields == <<start, current, committed_end, reserved_end>>
vars == <<fields, phase, mapped, blocks>>

(* ALIGN_UP, and the page rounding of a commit.  The masks of the code are *)
(* this for powers of two, which Page and Align are on every target.       *)
RoundUp(n, a) == ((n + a - 1) \div a) * a

BlockEnd(b) == b[1] + b[2]

Store == INSTANCE BlockStore

-----------------------------------------------------------------------------
Init ==
  /\ start = 0 /\ current = 0 /\ committed_end = 0 /\ reserved_end = 0
  /\ phase = "none"
  /\ mapped \in BOOLEAN
  /\ blocks = {}

(* init_arena: malloc or mmap may fail, and then the caller holds NULL.    *)
InitArena ==
  /\ phase = "none"
  /\ start' = Base /\ current' = Base /\ committed_end' = Base
  /\ reserved_end' = Base + Pages * Page
  /\ phase' = "live"
  /\ UNCHANGED <<mapped, blocks>>

InitArenaFails ==
  /\ phase = "none"
  /\ phase' = "null"
  /\ UNCHANGED <<fields, mapped, blocks>>

(* Mutant: the check looks at the cursor and forgets the request.          *)
FitsCursorOnly(size) == current <= reserved_end

(* The bound check of arena_alloc.  It reads the cursor before the cursor  *)
(* is aligned.                                                             *)
Fits(size) == current + size <= reserved_end

(* Mutant: the cursor is not aligned before use.                           *)
CursorUnaligned == current

Cursor == RoundUp(current, Align)

(* Mutants: the end advances by what is needed, not by what was committed; *)
(* the size of the commit is counted from the start of the arena.          *)
CommitEndUnrounded(size) ==
  IF Cursor + size > committed_end THEN Cursor + size ELSE committed_end

CommitEndFromStart(size) ==
  IF Cursor + size > committed_end
  THEN committed_end + RoundUp(Cursor + size - start, Page)
  ELSE committed_end

(* commit_memory(committed_end, needed) and the update that follows it.    *)
CommitEnd(size) ==
  IF Cursor + size > committed_end
  THEN committed_end + RoundUp(Cursor + size - committed_end, Page)
  ELSE committed_end

(* mprotect succeeds only over mapped pages: those of the reservation and, *)
(* if something is mapped there, the page that follows it.                 *)
CommitAllowed(size) ==
  CommitEnd(size) > reserved_end => mapped

(* Mutant: the result is aligned, the cursor advances as if it were not.   *)
AllocForgetsPadding(size) ==
  /\ phase = "live"
  /\ Fits(size)
  /\ CommitAllowed(size)
  /\ committed_end' = CommitEnd(size)
  /\ blocks' = blocks \union {<<Cursor, size>>}
  /\ current' = current + size
  /\ UNCHANGED <<start, reserved_end, phase, mapped>>

Alloc(size) ==
  /\ phase = "live"
  /\ Fits(size)
  /\ CommitAllowed(size)
  /\ committed_end' = CommitEnd(size)
  /\ blocks' = blocks \union {<<Cursor, size>>}
  /\ current' = Cursor + size
  /\ UNCHANGED <<start, reserved_end, phase, mapped>>

(* "Failed to commit memory": the cursor has moved, the process ends.  The *)
(* kernel may refuse any commit, and must refuse one over unmapped pages.  *)
AllocCommitFails(size) ==
  /\ phase = "live"
  /\ Fits(size)
  /\ CommitEnd(size) # committed_end
  /\ current' = Cursor
  /\ phase' = "exited"
  /\ UNCHANGED <<start, committed_end, reserved_end, mapped, blocks>>

(* "Arena out of space", also what a NULL arena gets.                      *)
AllocOutOfSpace(size) ==
  /\ phase \in {"live", "null"}
  /\ phase = "live" => ~Fits(size)
  /\ phase' = "exited"
  /\ UNCHANGED <<fields, mapped, blocks>>

(* reset_arena: the cursor goes back, the committed pages stay.            *)
Reset ==
  /\ phase = "live"
  /\ current' = start
  /\ blocks' = {}
  /\ UNCHANGED <<start, committed_end, reserved_end, phase, mapped>>

(* destroy_arena unmaps the reservation.                                   *)
Destroy ==
  /\ phase = "live"
  /\ phase' = "destroyed"
  /\ blocks' = {}
  /\ UNCHANGED <<fields, mapped>>

(* munmap refuses: that is reported, and the process ends.                 *)
DestroyFails ==
  /\ phase = "live"
  /\ phase' = "exited"
  /\ UNCHANGED <<fields, mapped, blocks>>

(* reset_arena and destroy_arena of a NULL arena report and exit.          *)
NullArena ==
  /\ phase = "null"
  /\ phase' = "exited"
  /\ UNCHANGED <<fields, mapped, blocks>>

Next ==
  \/ InitArena \/ InitArenaFails
  \/ \E size \in Sizes :
       Alloc(size) \/ AllocCommitFails(size) \/ AllocOutOfSpace(size)
  \/ Reset \/ Destroy \/ DestroyFails \/ NullArena

Spec == Init /\ [][Next]_vars

-----------------------------------------------------------------------------
OnBoundary(n, a) == \E k \in 0 .. n : n = k * a

(* Types of the state; the commit end stays on a page boundary, because    *)
(* mprotect takes nothing else.                                            *)
TypeOK ==
  /\ start \in Nat /\ current \in Nat /\ reserved_end \in Nat
  /\ committed_end \in Nat /\ OnBoundary(committed_end, Page)
  /\ phase \in {"none", "null", "live", "destroyed", "exited"}
  /\ mapped \in BOOLEAN
  /\ blocks \subseteq Nat \X Sizes

(* arena_alloc never hands the same byte out twice: whatever the sizes and *)
(* the padding between them, blocks in use do not overlap, and the next    *)
(* one will start after all of them.                                       *)
BlocksApart ==
  /\ \A b, c \in blocks : b = c \/ Store!Apart(b, c)
  /\ \A b \in blocks : BlockEnd(b) <= current

(* A block in use is aligned and lies in pages that were committed, so     *)
(* that its first access does not fault.                                   *)
BlocksBacked ==
  \A b \in blocks :
    /\ OnBoundary(b[1], Align)
    /\ start <= b[1] /\ BlockEnd(b) <= committed_end

(* The check precedes the alignment (lines 77 and 84), so a block can pass *)
(* the end of the reservation: by less than one alignment unit, and only   *)
(* the last block an arena ever hands out.                                 *)
OvershootBounded ==
  \A b \in blocks :
    /\ BlockEnd(b) < reserved_end + Align
    /\ BlockEnd(b) > reserved_end =>
         \A c \in blocks : c = b \/ BlockEnd(c) <= reserved_end

(* The allocator is lazy (README, "commits smaller sections upon request"): *)
(* a commit takes no page that the request does not reach.                 *)
CommitIsMinimal ==
  [][ phase = "live" /\ committed_end' > committed_end
        => committed_end' < current' + Page ]_vars

(* The arena implements the block store its clients rely on.               *)
StoreSpec == Store!Spec
=============================================================================
