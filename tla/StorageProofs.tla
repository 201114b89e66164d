----------------------------- MODULE StorageProofs -----------------------------
(***************************************************************************)
(* Proofs about what the compiler keeps its data in, side by side as in    *)
(* MCStorage: the arena, for every page request, alignment, reservation and   *)
(* set of request sizes that satisfies the assumption of module Arena; the *)
(* ring buffer and the stack, for every capacity; vectors and token        *)
(* queues, for every initial capacity and any number of elements.          *)
(***************************************************************************)
EXTENDS Arena, TokenQueue, RingBuffer, Stack, SequencesExt, SequenceTheorems, TLAPS

-----------------------------------------------------------------------------
(* Arithmetic of ALIGN_UP and of page rounding.                            *)

LEMMA RoundUpBounds ==
  ASSUME NEW a \in Nat \ {0}, NEW n \in Int
  PROVE  /\ RoundUp(n, a) \in Int
         /\ n <= RoundUp(n, a) /\ RoundUp(n, a) < n + a
         /\ \E k \in Int : RoundUp(n, a) = k * a
<1> DEFINE m == n + a - 1
<1> DEFINE q == m \div a
<1>1. /\ q \in Int /\ m % a \in 0 .. (a - 1) /\ m = a * q + (m % a)
  OBVIOUS
<1>2. RoundUp(n, a) = q * a
  BY DEF RoundUp
<1>3. q * a = m - (m % a) /\ q * a \in Int
  BY <1>1
<1>4. n <= q * a /\ q * a < n + a
  BY <1>1, <1>3
<1> QED
  BY <1>1, <1>2, <1>3, <1>4

(* A natural multiple is what OnBoundary says, with its bounded witness.   *)
LEMMA BoundaryOfMultiple ==
  ASSUME NEW a \in Nat \ {0}, NEW n \in Nat, NEW k \in Int, n = k * a
  PROVE  OnBoundary(n, a)
<1>1. k >= 0
  BY SMT
<1>2. k <= n
  BY <1>1, SMT
<1> QED
  BY <1>1, <1>2 DEF OnBoundary

LEMMA RoundUpOnBoundary ==
  ASSUME NEW a \in Nat \ {0}, NEW n \in Nat
  PROVE  RoundUp(n, a) \in Nat /\ OnBoundary(RoundUp(n, a), a)
<1>1. RoundUp(n, a) \in Nat
  <2>1. RoundUp(n, a) \in Int /\ n <= RoundUp(n, a)
    BY RoundUpBounds
  <2> QED
    BY <2>1
<1>2. PICK k \in Int : RoundUp(n, a) = k * a
  <2>1. n \in Int
    OBVIOUS
  <2> QED
    BY <2>1, RoundUpBounds, Zenon
<1> QED
  BY <1>1, <1>2, BoundaryOfMultiple

LEMMA SumOnBoundary ==
  ASSUME NEW a \in Nat \ {0}, NEW m \in Nat, NEW n \in Nat,
         OnBoundary(m, a), OnBoundary(n, a)
  PROVE  OnBoundary(m + n, a)
<1>1. PICK i \in 0 .. m : m = i * a
  BY DEF OnBoundary
<1>2. PICK j \in 0 .. n : n = j * a
  BY DEF OnBoundary
<1>3. m + n = (i + j) * a /\ i + j \in Int /\ m + n \in Nat
  BY <1>1, <1>2
<1> QED
  BY <1>3, BoundaryOfMultiple

-----------------------------------------------------------------------------
(* The inductive invariant.  BlocksApart and OvershootBounded need each    *)
(* other's cursor facts; ArenaLive says what is true only while requests   *)
(* can still be served.                                                    *)

ArenaLive ==
  phase = "live" => start <= committed_end /\ current <= committed_end

NothingBeforeOpen == phase \in {"none", "null"} => blocks = {}

IInv ==
  /\ TypeOK /\ ArenaLive /\ NothingBeforeOpen /\ start <= current
  /\ BlocksApart /\ BlocksBacked /\ OvershootBounded

LEMMA ConstantFacts ==
  /\ Align \in Nat \ {0} /\ Page \in Nat \ {0}
  /\ Base \in Nat /\ OnBoundary(Base, Page)
  /\ Pages * Page \in Nat
  /\ Sizes \subseteq Nat \ {0}
  BY ConstantsAssumption DEF OnBoundary

(* A block is a pair of naturals, the second one positive.                 *)
LEMMA BlockFacts ==
  ASSUME TypeOK, NEW b \in blocks
  PROVE  /\ b[1] \in Nat /\ b[2] \in Nat \ {0}
         /\ BlockEnd(b) \in Nat /\ BlockEnd(b) = b[1] + b[2]
<1>1. Sizes \subseteq Nat \ {0}
  BY ConstantFacts
<1>2. b \in Nat \X Sizes
  BY Zenon DEF TypeOK
<1>3. b[1] \in Nat /\ b[2] \in Sizes
  BY <1>2
<1>4. b[2] \in Nat \ {0}
  BY <1>1, <1>3, Zenon
<1> QED
  BY <1>3, <1>4 DEF BlockEnd

(* Where the cursor stands once aligned.                                   *)
LEMMA CursorFacts ==
  ASSUME TypeOK
  PROVE  /\ Cursor \in Nat /\ OnBoundary(Cursor, Align)
         /\ current <= Cursor /\ Cursor < current + Align
<1>1. Align \in Nat \ {0} /\ current \in Nat /\ current \in Int
  BY ConstantFacts DEF TypeOK
<1>2. Cursor \in Nat /\ OnBoundary(Cursor, Align)
  BY <1>1, RoundUpOnBoundary DEF Cursor
<1>3. current <= Cursor /\ Cursor < current + Align
  BY <1>1, RoundUpBounds DEF Cursor
<1> QED
  BY <1>2, <1>3

(* What a commit covers: all of the request, on a page boundary, and less  *)
(* than a page more when anything was committed at all.                    *)
LEMMA CommitFacts ==
  ASSUME TypeOK, NEW request \in Sizes
  PROVE  /\ CommitEnd(request) \in Nat /\ OnBoundary(CommitEnd(request), Page)
         /\ Cursor + request <= CommitEnd(request)
         /\ committed_end <= CommitEnd(request)
         /\ CommitEnd(request) > committed_end
              => CommitEnd(request) < Cursor + request + Page
<1>1. request \in Nat /\ Page \in Nat \ {0} /\ committed_end \in Nat
  BY ConstantFacts DEF TypeOK
<1>2. Cursor \in Nat
  BY CursorFacts
<1>3. CASE ~(Cursor + request > committed_end)
  BY <1>1, <1>2, <1>3 DEF CommitEnd, TypeOK
<1>4. CASE Cursor + request > committed_end
  <2> DEFINE needed == Cursor + request - committed_end
  <2>1. needed \in Nat
    BY <1>1, <1>2, <1>4
  <2>2. /\ RoundUp(needed, Page) \in Nat
        /\ OnBoundary(RoundUp(needed, Page), Page)
    BY <1>1, <2>1, RoundUpOnBoundary
  <2>3. needed <= RoundUp(needed, Page) /\ RoundUp(needed, Page) < needed + Page
    BY <1>1, <2>1, RoundUpBounds
  <2>4. CommitEnd(request) = committed_end + RoundUp(needed, Page)
    BY <1>4 DEF CommitEnd
  <2>5. OnBoundary(CommitEnd(request), Page)
    BY <1>1, <2>2, <2>4, SumOnBoundary DEF TypeOK
  <2> HIDE DEF needed
  <2>6. needed = Cursor + request - committed_end
    BY DEF needed
  <2> QED
    BY <1>1, <1>2, <2>1, <2>2, <2>3, <2>4, <2>5, <2>6
<1> QED
  BY <1>3, <1>4

-----------------------------------------------------------------------------
(* A served request keeps the invariant.                                   *)
LEMMA AllocInvariant ==
  ASSUME IInv, NEW request \in Sizes, Alloc(request)
  PROVE  IInv'
<1> DEFINE new == <<Cursor, request>>
<1>1. /\ phase = "live" /\ current + request <= reserved_end
      /\ committed_end' = CommitEnd(request)
      /\ blocks' = blocks \union {new}
      /\ current' = Cursor + request
      /\ UNCHANGED <<start, reserved_end, phase, mapped>>
  BY DEF Alloc, Fits
<1>2. /\ start \in Nat /\ current \in Nat /\ committed_end \in Nat
      /\ reserved_end \in Nat /\ blocks \subseteq Nat \X Sizes
      /\ request \in Nat \ {0} /\ Align \in Nat \ {0}
  BY ConstantFacts DEF IInv, TypeOK
<1>3. /\ Cursor \in Nat /\ OnBoundary(Cursor, Align)
      /\ current <= Cursor /\ Cursor < current + Align
  BY CursorFacts DEF IInv
<1>4. /\ CommitEnd(request) \in Nat /\ OnBoundary(CommitEnd(request), Page)
      /\ Cursor + request <= CommitEnd(request) /\ committed_end <= CommitEnd(request)
  BY CommitFacts DEF IInv
<1>5. BlockEnd(new) = Cursor + request /\ new[1] = Cursor /\ new[2] = request
  BY DEF BlockEnd
<1>6. \A b \in blocks : /\ b[1] \in Nat /\ b[2] \in Nat \ {0}
                        /\ BlockEnd(b) \in Nat /\ BlockEnd(b) = b[1] + b[2]
  BY BlockFacts DEF IInv
<1>7. \A b \in blocks : BlockEnd(b) <= current
  BY DEF IInv, BlocksApart
<1> HIDE DEF new
<1>8. TypeOK'
  <2>1. new \in Nat \X Sizes
    BY <1>3 DEF new
  <2> QED
    BY <1>1, <1>2, <1>3, <1>4, <2>1 DEF IInv, TypeOK
<1>9. ArenaLive' /\ NothingBeforeOpen' /\ (start <= current)'
  BY <1>1, <1>2, <1>3, <1>4 DEF IInv, ArenaLive, NothingBeforeOpen
<1>10. BlocksApart'
  <2>1. \A b \in blocks : Store!Apart(b, new) /\ Store!Apart(new, b)
    BY <1>2, <1>3, <1>5, <1>6, <1>7 DEF Store!Apart
  <2>2. \A b, c \in blocks' : b = c \/ Store!Apart(b, c)
    BY <1>1, <2>1 DEF IInv, BlocksApart
  <2>3. \A b \in blocks' : BlockEnd(b) <= current'
    BY <1>1, <1>2, <1>3, <1>5, <1>6, <1>7
  <2> QED
    BY <2>2, <2>3 DEF BlocksApart
<1>11. BlocksBacked'
  <2>1. /\ OnBoundary(new[1], Align) /\ start <= new[1]
        /\ BlockEnd(new) <= CommitEnd(request)
    BY <1>2, <1>3, <1>4, <1>5 DEF IInv
  <2>2. \A b \in blocks : BlockEnd(b) <= CommitEnd(request)
    BY <1>2, <1>4, <1>6 DEF IInv, BlocksBacked
  <2> QED
    BY <1>1, <2>1, <2>2 DEF IInv, BlocksBacked
<1>12. OvershootBounded'
  <2>1. BlockEnd(new) < reserved_end + Align
    BY <1>1, <1>2, <1>3, <1>5
  <2>2. \A b \in blocks : BlockEnd(b) <= reserved_end
    BY <1>1, <1>2, <1>6, <1>7
  <2> QED
    BY <1>1, <1>2, <1>6, <2>1, <2>2 DEF OvershootBounded
<1> QED
  BY <1>8, <1>9, <1>10, <1>11, <1>12 DEF IInv

LEMMA InitInvariant == Init => IInv
<1> SUFFICES ASSUME Init PROVE IInv
  OBVIOUS
<1>1. OnBoundary(0, Page)
  BY ConstantFacts DEF OnBoundary
<1> QED
  BY <1>1 DEF Init, IInv, TypeOK, ArenaLive, NothingBeforeOpen, BlocksApart,
              BlocksBacked, OvershootBounded

(* The other operations hand out nothing.                                  *)
LEMMA StepInvariant == IInv /\ [Next]_vars => IInv'
<1> SUFFICES ASSUME IInv, [Next]_vars PROVE IInv'
  OBVIOUS
<1> USE DEF IInv, TypeOK, ArenaLive, NothingBeforeOpen
<1>1. CASE InitArena
  BY <1>1, ConstantFacts
  DEF InitArena, BlocksApart, BlocksBacked, OvershootBounded
<1>2. CASE InitArenaFails \/ DestroyFails \/ NullArena
  BY <1>2 DEF InitArenaFails, DestroyFails, NullArena, fields, BlocksApart, BlocksBacked,
              OvershootBounded
<1>3. ASSUME NEW request \in Sizes, Alloc(request) PROVE IInv'
  BY <1>3, AllocInvariant
<1>4. ASSUME NEW request \in Sizes, AllocCommitFails(request) PROVE IInv'
  <2>1. /\ current' = Cursor /\ Cursor \in Nat /\ current <= Cursor
        /\ current \in Nat /\ phase' = "exited"
        /\ UNCHANGED <<start, committed_end, reserved_end, mapped, blocks>>
    BY <1>4, CursorFacts DEF AllocCommitFails
  <2>2. \A b \in blocks : BlockEnd(b) \in Nat /\ BlockEnd(b) <= current
    BY BlockFacts DEF BlocksApart
  <2>3. BlocksApart'
    BY <2>1, <2>2 DEF BlocksApart
  <2> QED
    BY <2>1, <2>3 DEF BlocksBacked, OvershootBounded
<1>5. ASSUME NEW request \in Sizes, AllocOutOfSpace(request) PROVE IInv'
  BY <1>5 DEF AllocOutOfSpace, fields, BlocksApart, BlocksBacked,
              OvershootBounded
<1>6. CASE Reset \/ Destroy
  BY <1>6 DEF Reset, Destroy, fields, BlocksApart, BlocksBacked,
              OvershootBounded
<1>7. CASE UNCHANGED vars
  BY <1>7 DEF vars, fields, BlocksApart, BlocksBacked, OvershootBounded
<1> QED
  BY <1>1, <1>2, <1>3, <1>4, <1>5, <1>6, <1>7 DEF Next

THEOREM InductiveInvariant == Spec => []IInv
  BY InitInvariant, StepInvariant, PTL DEF Spec

-----------------------------------------------------------------------------
(* Types, and the commit end on a page boundary (arena.c:89-95).           *)
THEOREM TypeCorrect == Spec => []TypeOK
<1>1. IInv => TypeOK
  BY DEF IInv
<1> QED
  BY <1>1, InductiveInvariant, PTL

(* No byte of an arena is ever part of two blocks in use (arena.c:84-101). *)
THEOREM NoOverlap == Spec => []BlocksApart
<1>1. IInv => BlocksApart
  BY DEF IInv
<1> QED
  BY <1>1, InductiveInvariant, PTL

(* A block is aligned and committed when it is returned (arena.c:84-96).   *)
THEOREM NoFault == Spec => []BlocksBacked
<1>1. IInv => BlocksBacked
  BY DEF IInv
<1> QED
  BY <1>1, InductiveInvariant, PTL

(* How far past its reservation an arena can go: the check of arena.c:77   *)
(* bounds the damage of its being made before the alignment.               *)
THEOREM OvershootIsBounded == Spec => []OvershootBounded
<1>1. IInv => OvershootBounded
  BY DEF IInv
<1> QED
  BY <1>1, InductiveInvariant, PTL

(* A commit takes only the pages the request reaches (arena.c:87-95).      *)
THEOREM LazyCommit == Spec => CommitIsMinimal
<1> DEFINE Minimal == phase = "live" /\ committed_end' > committed_end
                        => committed_end' < current' + Page
<1>1. ASSUME IInv, [Next]_vars PROVE [Minimal]_vars
  <2>1. ASSUME NEW request \in Sizes, Alloc(request) PROVE Minimal
    BY <1>1, <2>1, CommitFacts DEF Alloc, IInv
  <2>2. CASE InitArena
    BY <2>2 DEF InitArena
  <2>3. ASSUME committed_end' = committed_end PROVE Minimal
    BY <1>1, <2>3 DEF IInv, TypeOK
  <2>4. CASE UNCHANGED vars
    BY <2>4
  <2> QED
    BY <1>1, <2>1, <2>2, <2>3, <2>4
    DEF Next, InitArenaFails, AllocCommitFails, AllocOutOfSpace, Reset,
        Destroy, DestroyFails, NullArena, fields
<1> QED
  BY <1>1, InductiveInvariant, PTL DEF Spec, CommitIsMinimal

(* Every step of the arena is a step of the block store or leaves it as it *)
(* is: clients can forget the reservation, the pages and the cursor.       *)
THEOREM ImplementsStore == Spec => StoreSpec
<1>1. Init => Store!Init
  BY DEF Init, Store!Init
<1>2. ASSUME IInv, [Next]_vars PROVE [Store!Next]_(Store!storeVars)
  <2> USE DEF Store!storeVars, Store!Next
  <2>1. CASE InitArena \/ InitArenaFails
    BY <2>1 DEF InitArena, InitArenaFails, Store!Open
  <2>2. ASSUME NEW request \in Sizes, Alloc(request) PROVE Store!Give
    <3> DEFINE new == <<Cursor, request>>
    <3>1. /\ phase = "live" /\ phase' = phase
          /\ blocks' = blocks \union {new}
      BY <2>2 DEF Alloc
    <3>2. IInv'
      BY <1>2, <2>2, AllocInvariant
    <3>3. OnBoundary(new[1], Align)
      BY <3>1, <3>2 DEF IInv, BlocksBacked
    <3>4. \A c \in blocks : BlockEnd(c) <= Cursor /\ BlockEnd(c) = c[1] + c[2]
      <4>1. Cursor \in Nat /\ current \in Nat /\ current <= Cursor
        BY <1>2, CursorFacts DEF IInv, TypeOK
      <4>2. \A c \in blocks : BlockEnd(c) <= current
        BY <1>2 DEF IInv, BlocksApart
      <4>3. \A c \in blocks : /\ BlockEnd(c) \in Nat
                             /\ BlockEnd(c) = c[1] + c[2]
        BY <1>2, BlockFacts DEF IInv
      <4> QED
        BY <4>1, <4>2, <4>3
    <3>5. /\ Cursor \in Nat /\ request \in Nat \ {0} /\ new[1] = Cursor
          /\ new[2] = request /\ blocks \subseteq Nat \X Sizes
      BY <1>2, CursorFacts, ConstantFacts DEF IInv, TypeOK
    <3> HIDE DEF new
    <3>6. new \notin blocks
      BY <3>4, <3>5
    <3>7. \A c \in blocks : Store!Apart(new, c)
      BY <3>4, <3>5 DEF Store!Apart
    <3>8. Store!MultipleOf(new[1], Align)
      BY <3>3 DEF OnBoundary, Store!MultipleOf
    <3> QED
      BY <3>1, <3>6, <3>7, <3>8 DEF Store!Give
  <2>3. ASSUME NEW request \in Sizes,
               AllocCommitFails(request) \/ AllocOutOfSpace(request)
        PROVE  Store!Refuse
    BY <2>3 DEF AllocCommitFails, AllocOutOfSpace, Store!Refuse
  <2>4. CASE Reset \/ Destroy
    BY <2>4 DEF Reset, Destroy, Store!TakeBack
  <2>5. CASE DestroyFails \/ NullArena
    BY <2>5 DEF DestroyFails, NullArena, Store!Refuse
  <2>6. CASE UNCHANGED vars
    BY <2>6 DEF vars
  <2> QED
    BY <1>2, <2>1, <2>2, <2>3, <2>4, <2>5, <2>6 DEF Next
<1> QED
  BY <1>1, <1>2, InductiveInvariant, PTL DEF Spec, StoreSpec, Store!Spec

-----------------------------------------------------------------------------
(* Containers.  The lemmas relate cells of a block, numbered from 0, to    *)
(* the items of module Containers.                                         *)
(* The first n cells of f are in S; s has them as its elements.            *)
Filled(f, n, S) == \A c \in 0 .. n - 1 : f[c] \in S

InOrder(s, f, n, S) ==
  /\ s \in Seq(S) /\ Len(s) = n
  /\ \A k \in 1 .. n : s[k] = f[k - 1]

Cells(f, n) == [k \in 1 .. n |-> f[k - 1]]

LEMMA CellsInOrder ==
  ASSUME NEW S, NEW f, NEW n \in Nat, Filled(f, n, S)
  PROVE  InOrder(Cells(f, n), f, n, S)
  BY DEF Cells, Filled, InOrder

(* InsertAt and RemoveAt of SequencesExt, element by element.              *)
Inserted(t, s, i, e, S) ==
  /\ t \in Seq(S) /\ Len(t) = Len(s) + 1
  /\ \A k \in 1 .. Len(s) + 1 :
       t[k] = IF k < i THEN s[k] ELSE IF k = i THEN e ELSE s[k - 1]

LEMMA InsertAtElements ==
  ASSUME NEW S, NEW s \in Seq(S), NEW i \in 1 .. Len(s) + 1, NEW e \in S
  PROVE  Inserted(InsertAt(s, i, e), s, i, e, S)
<1> DEFINE a == SubSeq(s, 1, i - 1)
<1> DEFINE b == SubSeq(s, i, Len(s))
<1>1. /\ a \in Seq(S) /\ Len(a) = i - 1
      /\ \A k \in 1 .. i - 1 : a[k] = s[k]
  OBVIOUS
<1>2. /\ b \in Seq(S) /\ Len(b) = Len(s) - i + 1
      /\ \A k \in 1 .. Len(s) - i + 1 : b[k] = s[i + k - 1]
  OBVIOUS
<1>3. InsertAt(s, i, e) = a \o <<e>> \o b
  BY DEF InsertAt
<1> HIDE DEF a, b
<1> DEFINE c == a \o <<e>>
<1>4. /\ c \in Seq(S) /\ Len(c) = i
      /\ \A k \in 1 .. i : c[k] = IF k < i THEN s[k] ELSE e
  BY <1>1
<1>5. InsertAt(s, i, e) = c \o b
  BY <1>3
<1> HIDE DEF c
<1>6. /\ c \o b \in Seq(S) /\ Len(c \o b) = Len(c) + Len(b)
      /\ \A k \in 1 .. Len(c) + Len(b) :
           (c \o b)[k] = IF k <= Len(c) THEN c[k] ELSE b[k - Len(c)]
  BY <1>2, <1>4, ConcatProperties
<1>7. Len(c) + Len(b) = Len(s) + 1
  BY <1>2, <1>4
<1>8. ASSUME NEW k \in 1 .. Len(s) + 1
      PROVE  (c \o b)[k] = IF k < i THEN s[k] ELSE IF k = i THEN e ELSE s[k - 1]
  <2>1. (c \o b)[k] = IF k <= i THEN c[k] ELSE b[k - i]
    BY <1>4, <1>6, <1>7
  <2>2. k > i => b[k - i] = s[i + (k - i) - 1]
    BY <1>2
  <2>3. k <= i => c[k] = IF k < i THEN s[k] ELSE e
    BY <1>4
  <2> QED
    BY <2>1, <2>2, <2>3
<1> QED
  BY <1>5, <1>6, <1>7, <1>8 DEF Inserted

Removed(t, s, i, S) ==
  /\ t \in Seq(S) /\ Len(t) = Len(s) - 1
  /\ \A k \in 1 .. Len(s) - 1 : t[k] = IF k < i THEN s[k] ELSE s[k + 1]

LEMMA RemoveAtElements ==
  ASSUME NEW S, NEW s \in Seq(S), NEW i \in 1 .. Len(s)
  PROVE  Removed(RemoveAt(s, i), s, i, S)
<1> DEFINE a == SubSeq(s, 1, i - 1)
<1> DEFINE b == SubSeq(s, i + 1, Len(s))
<1>1. /\ a \in Seq(S) /\ Len(a) = i - 1
      /\ \A k \in 1 .. i - 1 : a[k] = s[k]
  OBVIOUS
<1>2. /\ b \in Seq(S) /\ Len(b) = Len(s) - i
      /\ \A k \in 1 .. Len(s) - i : b[k] = s[i + k]
  OBVIOUS
<1>3. RemoveAt(s, i) = a \o b
  BY DEF RemoveAt
<1> HIDE DEF a, b
<1>4. /\ a \o b \in Seq(S) /\ Len(a \o b) = Len(a) + Len(b)
      /\ \A k \in 1 .. Len(a) + Len(b) :
           (a \o b)[k] = IF k <= Len(a) THEN a[k] ELSE b[k - Len(a)]
  BY <1>1, <1>2, ConcatProperties
<1>5. Len(a) + Len(b) = Len(s) - 1
  BY <1>1, <1>2
<1>6. ASSUME NEW k \in 1 .. Len(s) - 1
      PROVE  (a \o b)[k] = IF k < i THEN s[k] ELSE s[k + 1]
  <2>1. (a \o b)[k] = IF k <= i - 1 THEN a[k] ELSE b[k - (i - 1)]
    BY <1>1, <1>4, <1>5
  <2>2. k > i - 1 => b[k - (i - 1)] = s[i + (k - (i - 1))]
    BY <1>2
  <2>3. k <= i - 1 => a[k] = s[k]
    BY <1>1
  <2> QED
    BY <2>1, <2>2, <2>3
<1> QED
  BY <1>3, <1>4, <1>5, <1>6 DEF Removed

(* What an operation does to the cells is what it does to the items.       *)
Shifted(g, f, n, i, v) ==
  \A c \in 0 .. n : g[c] = IF c < i THEN f[c] ELSE IF c = i THEN v ELSE f[c - 1]

LEMMA CellsPut ==
  ASSUME NEW S, NEW f, NEW g, NEW n \in Nat, NEW i \in 0 .. n, NEW v \in S,
         Filled(f, n, S), Shifted(g, f, n, i, v)
  PROVE  Cells(g, n + 1) = InsertAt(Cells(f, n), i + 1, v)
<1> DEFINE s == Cells(f, n)
<1> DEFINE j == i + 1
<1> DEFINE m == n + 1
<1> DEFINE t == InsertAt(s, j, v)
<1>1. InOrder(s, f, n, S)
  BY CellsInOrder
<1>2. m \in Nat /\ Filled(g, m, S)
  BY DEF Filled, Shifted
<1>3. j \in 1 .. Len(s) + 1 /\ s \in Seq(S)
  BY <1>1 DEF InOrder
<1> HIDE DEF m, s, j
<1>4. InOrder(Cells(g, m), g, m, S)
  BY <1>2, CellsInOrder
<1>5. Inserted(t, s, j, v, S)
  BY <1>3, InsertAtElements
<1> HIDE DEF t
<1>6. ASSUME NEW k \in 1 .. m
      PROVE  Cells(g, m)[k] = t[k]
  <2>1. Cells(g, m)[k] = g[k - 1]
    BY <1>4 DEF InOrder
  <2>2. t[k] = IF k < j THEN s[k] ELSE IF k = j THEN v ELSE s[k - 1]
    BY <1>1, <1>5 DEF Inserted, InOrder, m
  <2>3. g[k - 1] = IF k - 1 < i THEN f[k - 1] ELSE IF k - 1 = i THEN v ELSE f[(k - 1) - 1]
    BY DEF Shifted, m
  <2>4. k < j => s[k] = f[k - 1]
    BY <1>1 DEF InOrder, j
  <2>5. k > j => s[k - 1] = f[(k - 1) - 1]
    BY <1>1 DEF InOrder, j, m
  <2> QED
    BY <2>1, <2>2, <2>3, <2>4, <2>5 DEF j, m
<1>7. Len(t) = m /\ t \in Seq(S)
  BY <1>1, <1>5 DEF Inserted, InOrder, m
<1>8. Cells(g, m) = t
  BY <1>4, <1>6, <1>7, SeqEqual DEF InOrder
<1> QED
  BY <1>8 DEF t, s, j, m

Closed(g, f, n, i) ==
  \A c \in 0 .. n - 2 : g[c] = IF c < i THEN f[c] ELSE f[c + 1]

LEMMA CellsTake ==
  ASSUME NEW S, NEW f, NEW g, NEW n \in Nat, NEW i \in 0 .. n - 1,
         Filled(f, n, S), Closed(g, f, n, i)
  PROVE  Cells(g, n - 1) = RemoveAt(Cells(f, n), i + 1)
<1> DEFINE s == Cells(f, n)
<1> DEFINE j == i + 1
<1> DEFINE m == n - 1
<1> DEFINE t == RemoveAt(s, j)
<1>1. InOrder(s, f, n, S)
  BY CellsInOrder
<1>2. m \in Nat /\ Filled(g, m, S)
  BY DEF Filled, Closed
<1>3. j \in 1 .. Len(s) /\ s \in Seq(S)
  BY <1>1 DEF InOrder
<1> HIDE DEF m, s, j
<1>4. InOrder(Cells(g, m), g, m, S)
  BY <1>2, CellsInOrder
<1>5. Removed(t, s, j, S)
  BY <1>3, RemoveAtElements
<1> HIDE DEF t
<1>6. ASSUME NEW k \in 1 .. m
      PROVE  Cells(g, m)[k] = t[k]
  <2>1. Cells(g, m)[k] = g[k - 1]
    BY <1>4 DEF InOrder
  <2>2. t[k] = IF k < j THEN s[k] ELSE s[k + 1]
    BY <1>1, <1>5 DEF Removed, InOrder, m
  <2>3. g[k - 1] = IF k - 1 < i THEN f[k - 1] ELSE f[(k - 1) + 1]
    BY DEF Closed, m
  <2>4. s[k] = f[k - 1] /\ s[k + 1] = f[(k + 1) - 1]
    BY <1>1 DEF InOrder, m
  <2> QED
    BY <2>1, <2>2, <2>3, <2>4 DEF j, m
<1>7. Len(t) = m /\ t \in Seq(S)
  BY <1>1, <1>2, <1>5 DEF Removed, InOrder, m
<1>8. Cells(g, m) = t
  BY <1>4, <1>6, <1>7, SeqEqual DEF InOrder
<1> QED
  BY <1>8 DEF t, s, j, m

-----------------------------------------------------------------------------
(* The stack: the index stays within the capacity, and what is below it    *)
(* are pointers, for every capacity and sequence of calls.                 *)
THEOREM StackTypeCorrect == StackSpec => []StackTypeOK
<1> USE StackAssumption
<1>1. StackInit => StackTypeOK
  BY DEF StackInit, StackTypeOK
<1>2. ASSUME StackTypeOK, [StackNext]_stackVars
      PROVE  StackTypeOK'
  <2> USE <1>2 DEF StackTypeOK
  <2>1. ASSUME NEW pointer \in Pointers, stack_push(pointer)
        PROVE  StackTypeOK'
    BY <2>1 DEF stack_push
  <2>2. CASE stack_pop
    BY <2>2 DEF stack_pop, stack_is_empty
  <2>3. CASE stack_peek
    BY <2>3 DEF stack_peek, stack_is_empty
  <2>4. CASE stack_reset
    BY <2>4 DEF stack_reset
  <2>5. CASE StackRefuses
    BY <2>5 DEF StackRefuses
  <2>6. CASE UNCHANGED stackVars
    BY <2>6 DEF stackVars
  <2> QED
    BY <2>1, <2>2, <2>3, <2>4, <2>5, <2>6 DEF StackNext
<1> QED
  BY <1>1, <1>2, PTL DEF StackSpec

Stacked == IF stackLife = "live" THEN Cells(slots, top) ELSE <<>>

(* A stack of any capacity, with the cells that a pop or a reset leaves in *)
(* its block, is a last-in first-out store of that capacity.               *)
THEOREM StackIsLifo == StackSpec => ImplementsLifo
<1> USE StackAssumption
<1>1. StackInit => Lifo!Init
  BY DEF StackInit, Lifo!Init
<1>2. ASSUME StackTypeOK, [StackNext]_stackVars
      PROVE  [Lifo!LifoNext]_(Lifo!contents)
  <2>0. top \in Nat /\ Filled(slots, top, Pointers)
    BY <1>2 DEF StackTypeOK, Filled
  <2> DEFINE held == Cells(slots, top)
  <2>a. InOrder(held, slots, top, Pointers)
    BY <2>0, CellsInOrder
  <2>1. ASSUME NEW pointer \in Pointers, stack_push(pointer)
        PROVE  Lifo!LifoNext
    <3>1. Shifted(slots', slots, top, top, pointer)
      BY <1>2, <2>1 DEF stack_push, StackTypeOK, Shifted
    <3>2. Cells(slots', top + 1) = InsertAt(Cells(slots, top), top + 1, pointer)
      BY <2>0, <3>1, CellsPut
    <3>3. Lifo!Put(top, pointer)
      BY <1>2, <2>0, <2>1, <3>2, <2>a
      DEF stack_push, StackTypeOK, Lifo!Put, Lifo!InsertAt, InsertAt, Cells, InOrder
    <3> QED
      BY <2>a, <2>1, <3>3 DEF Lifo!LifoNext, stack_push, Cells, InOrder
  <2>2. CASE stack_pop
    <3>1. top - 1 \in 0 .. top - 1 /\ Closed(slots, slots, top, top - 1)
      BY <2>0, <2>2 DEF stack_pop, stack_is_empty, Closed
    <3>2. Cells(slots, top - 1) = RemoveAt(Cells(slots, top), (top - 1) + 1)
      BY <2>0, <3>1, CellsTake
    <3> DEFINE last == Len(IF stackLife = "live" THEN held ELSE <<>>) - 1
    <3>3. last = top - 1 /\ stackLife = "live"
      BY <2>a, <2>2 DEF stack_pop, InOrder
    <3> HIDE DEF last
    <3>4. Lifo!Take(last)
      BY <2>0, <2>2, <3>1, <3>2, <3>3, <2>a
      DEF stack_pop, Lifo!Take, Lifo!RemoveAt, RemoveAt, Cells, InOrder
    <3>5. Lifo!LifoNext
      BY <3>4 DEF Lifo!LifoNext, last, Cells
    <3> QED
      BY <3>5
  <2>3. CASE stack_peek
    <3>1. Lifo!Look(top - 1)
      BY <2>0, <2>3, <2>a DEF stack_peek, stack_is_empty, Lifo!Look, Cells, InOrder
    <3> QED
      BY <2>a, <2>3, <3>1 DEF Lifo!LifoNext, stack_peek, Cells, InOrder
  <2>4. CASE stack_reset
    BY <2>4 DEF stack_reset, Lifo!LifoNext, Lifo!Clear
  <2>5. CASE StackRefuses
    <3>1. top = 0 => held = <<>>
      BY <2>0 DEF Cells
    <3>2. Lifo!Refuse
      BY <2>5, <2>a, <3>1
      DEF StackRefuses, stack_is_empty, Lifo!Refuse, Lifo!End, Cells, InOrder
    <3> QED
      BY <3>2 DEF Lifo!LifoNext
  <2>6. CASE UNCHANGED stackVars
    BY <2>6 DEF stackVars, Lifo!contents
  <2> QED
    BY <1>2, <2>1, <2>2, <2>3, <2>4, <2>5, <2>6 DEF StackNext
<1> QED
  BY <1>1, <1>2, StackTypeCorrect, PTL DEF StackSpec, ImplementsLifo, Lifo!LifoSpec

-----------------------------------------------------------------------------
(* The ring.  Modulo its size, a cursor moves as one that starts again at  *)
(* the end of the block: Place is the cell of the token number c from the  *)
(* cursor r, Gap the number of tokens from r to w.                         *)
Place(r, c) == IF r + c < RingSize THEN r + c ELSE r + c - RingSize

Gap(r, w) == IF r <= w THEN w - r ELSE w - r + RingSize

Cursors == 0 .. RingSize - 1

LEMMA ModuloOnce ==
  ASSUME NEW n \in 0 .. 2 * RingSize - 1
  PROVE  n % RingSize = IF n < RingSize THEN n ELSE n - RingSize
  BY RingAssumption

LEMMA PlaceIsModulo ==
  ASSUME NEW r \in Cursors, NEW c \in Cursors
  PROVE  (r + c) % RingSize = Place(r, c) /\ Place(r, c) \in Cursors
<1>1. r + c \in 0 .. 2 * RingSize - 1
  BY RingAssumption DEF Cursors
<1> QED
  BY <1>1, ModuloOnce, RingAssumption DEF Place, Cursors

LEMMA GapIsModulo ==
  ASSUME NEW r \in Cursors, NEW w \in Cursors
  PROVE  (w - r + RingSize) % RingSize = Gap(r, w) /\ Gap(r, w) \in Cursors
<1>1. w - r + RingSize \in 0 .. 2 * RingSize - 1
  BY RingAssumption DEF Cursors
<1> QED
  BY <1>1, ModuloOnce, RingAssumption DEF Gap, Cursors

LEMMA AfterIsPlace ==
  ASSUME NEW r \in Cursors
  PROVE  After(r) = IF r + 1 < RingSize THEN r + 1 ELSE 0
  BY RingAssumption DEF After, Cursors

(* The cells of a block d from the cursor r on.                            *)
FromCursor(d, r) == [c \in Cursors |-> d[Place(r, c)]]

Ringed(d, r, w) == Cells(FromCursor(d, r), Gap(r, w))

LEMMA RingIsFront ==
  ASSUME NEW d, NEW r \in Cursors, NEW w \in Cursors
  PROVE  [k \in 1 .. (w - r + RingSize) % RingSize |-> d[(r + k - 1) % RingSize]]
           = Ringed(d, r, w)
<1>1. (w - r + RingSize) % RingSize = Gap(r, w) /\ Gap(r, w) \in Cursors
  BY GapIsModulo
<1>2. ASSUME NEW k \in 1 .. Gap(r, w)
      PROVE  d[(r + k - 1) % RingSize] = FromCursor(d, r)[k - 1]
  <2> DEFINE c == k - 1
  <2>1. c \in Cursors /\ r + k - 1 = r + c
    BY <1>1, RingAssumption DEF Cursors
  <2> HIDE DEF c
  <2>2. (r + c) % RingSize = Place(r, c)
    BY <2>1, PlaceIsModulo
  <2>3. d[(r + k - 1) % RingSize] = FromCursor(d, r)[c]
    BY <2>1, <2>2 DEF FromCursor
  <2> QED
    BY <2>3 DEF c
<1> QED
  BY <1>1, <1>2 DEF Ringed, Cells

(* The cells between the cursors hold tokens.                              *)
RingFilled(d, r, w) == Filled(FromCursor(d, r), Gap(r, w), Tokens)

LEMMA FilledIsTyped ==
  ASSUME NEW d, NEW r \in Cursors, NEW w \in Cursors
  PROVE  RingFilled(d, r, w) <=>
           \A k \in 1 .. (w - r + RingSize) % RingSize : d[(r + k - 1) % RingSize] \in Tokens
<1>1. (w - r + RingSize) % RingSize = Gap(r, w) /\ Gap(r, w) \in Cursors
  BY GapIsModulo
<1>2. ASSUME NEW c \in 0 .. Gap(r, w) - 1
      PROVE  d[(r + (c + 1) - 1) % RingSize] = FromCursor(d, r)[c] /\ c + 1 \in 1 .. Gap(r, w)
  <2>1. c \in Cursors /\ r + (c + 1) - 1 = r + c /\ c + 1 \in 1 .. Gap(r, w)
    BY <1>1, RingAssumption DEF Cursors
  <2>2. (r + c) % RingSize = Place(r, c)
    BY <2>1, PlaceIsModulo
  <2> QED
    BY <2>1, <2>2 DEF FromCursor
<1>3. ASSUME NEW k \in 1 .. Gap(r, w)
      PROVE  k - 1 \in 0 .. Gap(r, w) - 1 /\ (k - 1) + 1 = k
  BY <1>1 DEF Cursors
<1> QED
  BY <1>1, <1>2, <1>3 DEF RingFilled, Filled

(* A push appends at the write cursor; a pop moves the read cursor on.     *)
LEMMA PushRing ==
  ASSUME NEW d, NEW e, NEW r \in Cursors, NEW w \in Cursors, NEW token \in Tokens,
         After(w) # r, e = [d EXCEPT ![w] = token], d \in [Cursors -> Tokens \union {NoToken}]
  PROVE  /\ Gap(r, After(w)) = Gap(r, w) + 1
         /\ Shifted(FromCursor(e, r), FromCursor(d, r), Gap(r, w), Gap(r, w), token)
<1>1. After(w) = IF w + 1 < RingSize THEN w + 1 ELSE 0
  BY AfterIsPlace
<1>2. Gap(r, After(w)) = Gap(r, w) + 1 /\ Gap(r, w) \in Cursors
  BY <1>1, RingAssumption DEF Gap, Cursors
<1>3. ASSUME NEW c \in 0 .. Gap(r, w)
      PROVE  /\ c \in Cursors /\ Place(r, c) \in Cursors
             /\ Place(r, c) = w <=> c = Gap(r, w)
  BY <1>2, RingAssumption DEF Place, Gap, Cursors
<1>4. ASSUME NEW c \in 0 .. Gap(r, w)
      PROVE  FromCursor(e, r)[c] = IF c = Gap(r, w) THEN token ELSE FromCursor(d, r)[c]
  <2>1. e[Place(r, c)] = IF Place(r, c) = w THEN token ELSE d[Place(r, c)]
    BY <1>3 DEF Cursors
  <2> QED
    BY <1>3, <2>1 DEF FromCursor
<1>5. ASSUME NEW c \in 0 .. Gap(r, w)
      PROVE  FromCursor(e, r)[c] =
               IF c < Gap(r, w) THEN FromCursor(d, r)[c]
               ELSE IF c = Gap(r, w) THEN token ELSE FromCursor(d, r)[c - 1]
  <2>1. FromCursor(e, r)[c] = IF c = Gap(r, w) THEN token ELSE FromCursor(d, r)[c]
    BY <1>4
  <2>2. c < Gap(r, w) \/ c = Gap(r, w)
    BY <1>2 DEF Cursors
  <2>3. c < Gap(r, w) => c # Gap(r, w)
    BY <1>2 DEF Cursors
  <2> QED
    BY <2>1, <2>2, <2>3
<1> QED
  BY <1>2, <1>5 DEF Shifted

LEMMA PopRing ==
  ASSUME NEW d, NEW r \in Cursors, NEW w \in Cursors, r # w
  PROVE  /\ Gap(r, w) \in Nat /\ 0 \in 0 .. Gap(r, w) - 1
         /\ Gap(After(r), w) = Gap(r, w) - 1
         /\ Closed(FromCursor(d, After(r)), FromCursor(d, r), Gap(r, w), 0)
         /\ FromCursor(d, r)[0] = d[r]
<1>1. After(r) = IF r + 1 < RingSize THEN r + 1 ELSE 0
  BY AfterIsPlace
<1>2. Gap(After(r), w) = Gap(r, w) - 1 /\ Gap(r, w) \in Cursors /\ Gap(r, w) > 0
  BY <1>1, RingAssumption DEF Gap, Cursors
<1>3. ASSUME NEW c \in 0 .. Gap(r, w) - 2
      PROVE  c \in Cursors /\ c + 1 \in Cursors /\ Place(After(r), c) = Place(r, c + 1)
  BY <1>1, <1>2, RingAssumption DEF Place, Gap, Cursors
<1>4. 0 \in Cursors /\ Place(r, 0) = r
  BY RingAssumption DEF Place, Cursors
<1> QED
  BY <1>2, <1>3, <1>4 DEF Closed, FromCursor, Cursors
(* The ring: the cursors stay in the block and the cells between them hold *)
(* tokens, for every size and any number of turns around the block.        *)
RingHolds ==
  /\ data \in [Cursors -> Tokens \union {NoToken}]
  /\ read_idx \in Cursors /\ write_idx \in Cursors
  /\ RingFilled(data, read_idx, write_idx)

LEMMA PushHolds ==
  ASSUME RingHolds, NEW token \in Tokens, ringbuffer_push(token)
  PROVE  RingHolds' /\ Gap(read_idx, write_idx) < RingSize - 1
         /\ Ringed(data', read_idx, write_idx') =
              InsertAt(Ringed(data, read_idx, write_idx), Gap(read_idx, write_idx) + 1, token)
<1> DEFINE n == Gap(read_idx, write_idx)
<1>1. /\ read_idx \in Cursors /\ write_idx \in Cursors /\ After(write_idx) # read_idx
      /\ data' = [data EXCEPT ![write_idx] = token] /\ write_idx' = After(write_idx)
      /\ data \in [Cursors -> Tokens \union {NoToken}]
      /\ UNCHANGED read_idx
  BY DEF RingHolds, ringbuffer_push, RingFull
<1>2. /\ Gap(read_idx, After(write_idx)) = n + 1
      /\ Shifted(FromCursor(data', read_idx), FromCursor(data, read_idx), n, n, token)
  BY <1>1, PushRing
<1>3. write_idx' \in Cursors /\ data' \in [Cursors -> Tokens \union {NoToken}]
  BY <1>1, AfterIsPlace, RingAssumption DEF Cursors
<1>4. n \in Cursors /\ n + 1 \in Cursors /\ n \in Nat
  <2>1. n \in Cursors /\ Gap(read_idx, After(write_idx)) \in Cursors
    BY <1>1, <1>3, GapIsModulo
  <2> QED
    BY <1>2, <2>1 DEF Cursors
<1>5. Filled(FromCursor(data, read_idx), n, Tokens)
  BY DEF RingHolds, RingFilled
<1>6. Filled(FromCursor(data', read_idx), n + 1, Tokens)
  BY <1>2, <1>4, <1>5 DEF Filled, Shifted
<1>7. Cells(FromCursor(data', read_idx), n + 1)
        = InsertAt(Cells(FromCursor(data, read_idx), n), n + 1, token)
  <2>1. n \in 0 .. n
    BY <1>4
  <2> QED
    BY <1>2, <1>4, <1>5, <2>1, CellsPut
<1>8. RingHolds'
  BY <1>1, <1>2, <1>3, <1>6 DEF RingHolds, RingFilled
<1>9. n < RingSize - 1
  BY <1>4, RingAssumption DEF Cursors
<1> QED
  BY <1>1, <1>2, <1>7, <1>8, <1>9 DEF Ringed

LEMMA PopHolds ==
  ASSUME RingHolds, read_idx # write_idx
  PROVE  /\ Gap(read_idx, write_idx) > 0
         /\ After(read_idx) \in Cursors
         /\ RingFilled(data, After(read_idx), write_idx)
         /\ data[read_idx] = Ringed(data, read_idx, write_idx)[1]
         /\ data[read_idx] \in Tokens
         /\ Ringed(data, After(read_idx), write_idx) =
              RemoveAt(Ringed(data, read_idx, write_idx), 1)
<1> DEFINE n == Gap(read_idx, write_idx)
<1> DEFINE f == FromCursor(data, read_idx)
<1> DEFINE g == FromCursor(data, After(read_idx))
<1>1. read_idx \in Cursors /\ write_idx \in Cursors
  BY DEF RingHolds
<1>2. /\ n \in Nat /\ 0 \in 0 .. n - 1 /\ Gap(After(read_idx), write_idx) = n - 1
      /\ Closed(g, f, n, 0) /\ f[0] = data[read_idx]
  BY <1>1, PopRing
<1>3. After(read_idx) \in Cursors
  BY <1>1, AfterIsPlace, RingAssumption DEF Cursors
<1>4. Filled(f, n, Tokens)
  BY DEF RingHolds, RingFilled
<1> HIDE DEF n, f, g
<1>5. Filled(g, n - 1, Tokens)
  BY <1>2, <1>4 DEF Filled, Closed
<1>6. Cells(g, n - 1) = RemoveAt(Cells(f, n), 0 + 1)
  BY <1>2, <1>4, CellsTake
<1>7. InOrder(Cells(f, n), f, n, Tokens)
  BY <1>2, <1>4, CellsInOrder
<1>8. data[read_idx] = Cells(f, n)[1] /\ data[read_idx] \in Tokens
  BY <1>2, <1>4, <1>7 DEF InOrder, Filled
<1> QED
  BY <1>2, <1>3, <1>5, <1>6, <1>8 DEF Ringed, RingFilled, n, f, g
LEMMA HoldsIsTyped ==
  RingTypeOK <=> /\ RingHolds
                 /\ value \in Tokens \union {NoToken} /\ freed \in Seq(Tokens)
                 /\ ringLife \in {"live", "destroyed", "exited"}
  BY FilledIsTyped DEF RingTypeOK, RingHolds, Held, Cursors

LEMMA RingSequence ==
  ASSUME RingHolds
  PROVE  /\ InRing = Ringed(data, read_idx, write_idx)
         /\ InRing \in Seq(Tokens) /\ Len(InRing) = Gap(read_idx, write_idx)
<1>1. read_idx \in Cursors /\ write_idx \in Cursors
  BY DEF RingHolds
<1>2. InRing = Ringed(data, read_idx, write_idx)
  BY <1>1, RingIsFront DEF InRing, Held
<1>3. Gap(read_idx, write_idx) \in Nat
  BY <1>1, GapIsModulo DEF Cursors
<1>4. InOrder(Ringed(data, read_idx, write_idx), FromCursor(data, read_idx),
              Gap(read_idx, write_idx), Tokens)
  BY <1>3, CellsInOrder DEF RingHolds, RingFilled, Ringed
<1> QED
  BY <1>2, <1>4 DEF InOrder

RingInv ==
  /\ RingHolds
  /\ value \in Tokens \union {NoToken} /\ freed \in Seq(Tokens)
  /\ ringLife \in {"live", "destroyed", "exited"}

LEMMA RingInvariant == RingSpec => []RingInv
<1> USE RingAssumption
<1>1. RingInit => RingInv
  <2> SUFFICES ASSUME RingInit PROVE RingInv
    OBVIOUS
  <2>1. read_idx \in Cursors /\ write_idx \in Cursors /\ Gap(read_idx, write_idx) = 0
    BY DEF RingInit, Cursors, Gap
  <2> QED
    BY <2>1 DEF RingInit, RingInv, RingHolds, RingFilled, Filled, Cursors
<1>2. ASSUME RingInv, [RingNext]_ringVars
      PROVE  RingInv'
  <2>1. ASSUME NEW token \in Tokens, ringbuffer_push(token)
        PROVE  RingInv'
    <3>1. RingHolds'
      BY <1>2, <2>1, PushHolds DEF RingInv
    <3> QED
      BY <1>2, <2>1, <3>1 DEF RingInv, ringbuffer_push
  <2>2. CASE ringbuffer_pop
    <3>1. /\ After(read_idx) \in Cursors
          /\ RingFilled(data, After(read_idx), write_idx)
          /\ data[read_idx] \in Tokens
      BY <1>2, <2>2, PopHolds DEF RingInv, ringbuffer_pop, rb_is_empty
    <3>2. RingHolds'
      BY <1>2, <2>2, <3>1 DEF RingInv, RingHolds, ringbuffer_pop
    <3> QED
      BY <1>2, <2>2, <3>1, <3>2 DEF RingInv, ringbuffer_pop
  <2>3. CASE ringbuffer_peek
    <3>1. data[read_idx] \in Tokens
      BY <1>2, <2>3, PopHolds DEF RingInv, ringbuffer_peek, rb_is_empty
    <3> QED
      BY <1>2, <2>3, <3>1 DEF RingInv, RingHolds, ringbuffer_peek
  <2>4. CASE RingRefuses
    BY <1>2, <2>4 DEF RingInv, RingHolds, RingRefuses
  <2>5. CASE ringbuffer_destroy
    <3>1. InRing \in Seq(Tokens)
      BY <1>2, RingSequence DEF RingInv
    <3>2. write_idx \in Cursors /\ Gap(write_idx, write_idx) = 0
      BY <1>2 DEF RingInv, RingHolds, Gap, Cursors
    <3>3. RingHolds'
      BY <1>2, <2>5, <3>2 DEF RingInv, RingHolds, RingFilled, Filled, ringbuffer_destroy
    <3> QED
      BY <1>2, <2>5, <3>1, <3>3 DEF RingInv, ringbuffer_destroy
  <2>6. CASE UNCHANGED ringVars
    BY <1>2, <2>6 DEF RingInv, RingHolds, ringVars
  <2> QED
    BY <1>2, <2>1, <2>2, <2>3, <2>4, <2>5, <2>6 DEF RingNext
<1> QED
  BY <1>1, <1>2, PTL DEF RingSpec

(* The cursors stay within the block and what lies between them are tokens *)
(* that were pushed, for every size of the ring.                           *)
THEOREM RingTypeCorrect == RingSpec => []RingTypeOK
<1>1. RingInv => RingTypeOK
  BY HoldsIsTyped DEF RingInv
<1> QED
  BY <1>1, RingInvariant, PTL

(* A ring of any size, after any number of turns of its cursors, is a      *)
(* first-in first-out queue of one token less than its size.               *)
THEOREM RingIsFifo == RingSpec => ImplementsFifo
<1> USE RingAssumption
<1>1. RingInit => Ring!Init
  <2> SUFFICES ASSUME RingInit PROVE Ring!Init
    OBVIOUS
  <2>1. read_idx \in Cursors /\ write_idx \in Cursors /\ Gap(read_idx, write_idx) = 0
    BY DEF RingInit, Cursors, Gap
  <2>2. RingHolds
    BY <2>1 DEF RingInit, RingHolds, RingFilled, Filled, Cursors
  <2>3. InRing \in Seq(Tokens) /\ Len(InRing) = 0
    BY <2>1, <2>2, RingSequence
  <2>4. InRing = <<>>
    BY <2>3
  <2> QED
    BY <2>4 DEF RingInit, Ring!Init
<1>2. ASSUME RingInv, RingInv', [RingNext]_ringVars
      PROVE  [Ring!FifoNext]_(Ring!contents)
  <2> DEFINE held == Ringed(data, read_idx, write_idx)
  <2> DEFINE n == Gap(read_idx, write_idx)
  <2>1. /\ RingHolds /\ n \in Cursors
        /\ InRing = held /\ held \in Seq(Tokens) /\ Len(held) = n
    BY <1>2, RingSequence, GapIsModulo DEF RingInv, RingHolds
  <2>2. ASSUME RingHolds'
        PROVE  InRing' = Ringed(data', read_idx', write_idx')
    BY <2>2, RingIsFront DEF RingHolds, InRing, Held
  <2>3. ASSUME NEW token \in Tokens, ringbuffer_push(token)
        PROVE  Ring!FifoNext
    <3> DEFINE last == Len(IF ringLife = "live" THEN InRing ELSE <<>>)
    <3>1. last = n /\ ringLife = "live"
      BY <2>1, <2>3 DEF ringbuffer_push
    <3>2. /\ n < RingSize - 1
          /\ InRing' = InsertAt(held, n + 1, token)
      BY <2>1, <2>2, <2>3, PushHolds DEF ringbuffer_push
    <3> HIDE DEF last, held, n
    <3>3. /\ (IF ringLife = "live" THEN InRing ELSE <<>>) = held
          /\ (IF ringLife' = "live" THEN InRing' ELSE <<>>) = InRing'
          /\ last \in 0 .. Len(held) /\ Len(held) < RingSize - 1
      BY <2>1, <2>3, <3>1, <3>2 DEF ringbuffer_push, Cursors
    <3>4. InRing' = Ring!InsertAt(held, last + 1, token)
      BY <3>1, <3>2 DEF Ring!InsertAt, InsertAt
    <3>5. Ring!Put(last, token)
      BY <2>3, <3>1, <3>3, <3>4 DEF ringbuffer_push, Ring!Put
    <3> QED
      BY <3>5 DEF Ring!FifoNext, last
  <2>4. CASE ringbuffer_pop
    <3>1. /\ n > 0 /\ data[read_idx] = held[1]
          /\ Ringed(data, After(read_idx), write_idx) = RemoveAt(held, 1)
      BY <2>1, <2>4, PopHolds DEF ringbuffer_pop, rb_is_empty
    <3>2. InRing' = RemoveAt(held, 1)
      BY <1>2, <2>2, <2>4, <3>1 DEF RingInv, ringbuffer_pop
    <3> HIDE DEF held, n
    <3>3. Ring!Take(0)
      BY <2>1, <2>4, <3>1, <3>2
      DEF ringbuffer_pop, Ring!Take, Ring!RemoveAt, RemoveAt, Cursors
    <3> QED
      BY <3>3 DEF Ring!FifoNext
  <2>5. CASE ringbuffer_peek
    <3>1. n > 0 /\ data[read_idx] = held[1]
      BY <2>1, <2>5, PopHolds DEF ringbuffer_peek, rb_is_empty
    <3>2. InRing' = InRing
      BY <2>5 DEF ringbuffer_peek, InRing, Held
    <3> HIDE DEF held, n
    <3>3. Ring!Look(0)
      BY <2>1, <2>5, <3>1, <3>2 DEF ringbuffer_peek, Ring!Look, Cursors
    <3>4. 0 \in 0 .. RingSize - 1
      OBVIOUS
    <3> QED
      BY <3>3, <3>4 DEF Ring!FifoNext
  <2>6. CASE RingRefuses
    <3>1. RingFull => n = RingSize - 1
      BY <2>1, AfterIsPlace DEF RingFull, RingHolds, Gap, Cursors
    <3>2. rb_is_empty => n = 0
      BY <2>1 DEF rb_is_empty, RingHolds, Gap, Cursors
    <3> HIDE DEF held, n
    <3>3. n = 0 => held = <<>>
      BY <2>1
    <3>4. Ring!Refuse
      BY <2>1, <2>6, <3>1, <3>2, <3>3 DEF RingRefuses, Ring!Refuse, Ring!End
    <3> QED
      BY <3>4 DEF Ring!FifoNext
  <2>7. CASE ringbuffer_destroy
    BY <2>7 DEF ringbuffer_destroy, Ring!FifoNext, Ring!End
  <2>8. CASE UNCHANGED ringVars
    BY <2>8 DEF ringVars, Ring!contents, InRing, Held
  <2> QED
    BY <1>2, <2>3, <2>4, <2>5, <2>6, <2>7, <2>8 DEF RingNext
<1> QED
  BY <1>1, <1>2, RingInvariant, PTL DEF RingSpec, ImplementsFifo, Ring!FifoSpec

-----------------------------------------------------------------------------
(* Vectors and token queues.                                               *)
Cell == Values \union {Unset}

(* What the proofs use of a vector in use.                                 *)
Usable ==
  /\ size \in Nat /\ capacity \in Nat \ {0, 1} /\ size < capacity
  /\ elems \in [0 .. capacity - 1 -> Cell]
  /\ Filled(elems, size, Values)

LEMMA LiveIsUsable ==
  ASSUME VectorTypeOK, vectorLife \in {"live", "destroyed"}
  PROVE  Usable
  BY DEF VectorTypeOK, Usable, Cell, Filled, Allocated

LEMMA UsableIsTyped ==
  ASSUME Usable, owner \in {"client", "queue", "log"}, accessed \subseteq Nat,
         returned \in Cell, vectorLife \in {"live", "destroyed", "aborted", "exited"}
  PROVE  VectorTypeOK
<1>1. capacity \in Nat /\ elems \in [0 .. capacity - 1 -> Values \union {Unset}]
  BY DEF Usable, Cell
<1> QED
  BY <1>1 DEF VectorTypeOK, Usable, Cell, Filled, Allocated

(* extend_if_necessary leaves room for one element more than there is.     *)
LEMMA Extends ==
  ASSUME Usable
  PROVE  /\ Capacity(size + 1) \in Nat \ {0, 1}
         /\ size + 1 < Capacity(size + 1) /\ capacity <= Capacity(size + 1)
         /\ Extended(size + 1) \in [0 .. Capacity(size + 1) - 1 -> Cell]
         /\ \A c \in 0 .. capacity - 1 : Extended(size + 1)[c] = elems[c]
<1>1. /\ Capacity(size + 1) \in Nat \ {0, 1}
      /\ size + 1 < Capacity(size + 1) /\ capacity <= Capacity(size + 1)
  BY DEF Usable, Capacity, Full
<1>2. Allocated = 0 .. capacity - 1 /\ Unset \in Cell
  BY DEF Usable, Allocated, Cell
<1>3. \A c \in 0 .. capacity - 1 : elems[c] \in Cell /\ c \in 0 .. Capacity(size + 1) - 1
  BY <1>1 DEF Usable
<1> HIDE DEF Cell
<1> QED
  BY <1>1, <1>2, <1>3 DEF Extended

(* memmove and the write that follows it, on any block of n cells.         *)
LEMMA MoveUp ==
  ASSUME NEW n \in Nat, NEW e \in [0 .. n - 1 -> Cell], NEW last \in Nat, last < n,
         NEW i \in 0 .. last, NEW v \in Cell,
         NEW m, m = [MovedUp(e, i, last + 1) EXCEPT ![i] = v]
  PROVE  m \in [0 .. n - 1 -> Cell] /\ Shifted(m, e, last, i, v)
<1> DEFINE up == MovedUp(e, i, last + 1)
<1>1. up = [c \in 0 .. n - 1 |-> IF c \in i + 1 .. last THEN e[c - 1] ELSE e[c]]
  BY DEF MovedUp
<1> HIDE DEF up
<1>2. ASSUME NEW c \in 0 .. n - 1
      PROVE  up[c] = (IF c \in i + 1 .. last THEN e[c - 1] ELSE e[c]) /\ up[c] \in Cell
  <2>1. up[c] = IF c \in i + 1 .. last THEN e[c - 1] ELSE e[c]
    BY <1>1
  <2>2. e[c] \in Cell /\ (c > 0 => e[c - 1] \in Cell)
    OBVIOUS
  <2>3. c \in i + 1 .. last => c > 0
    OBVIOUS
  <2> QED
    BY <2>1, <2>2, <2>3
<1>3. up \in [0 .. n - 1 -> Cell]
  <2>1. up = [c \in 0 .. n - 1 |-> up[c]]
    BY <1>1
  <2> QED
    BY <1>2, <2>1
<1>4. m = [up EXCEPT ![i] = v]
  BY DEF up
<1>5. m \in [0 .. n - 1 -> Cell]
  BY <1>3, <1>4
<1>6. ASSUME NEW c \in 0 .. last
      PROVE  m[c] = IF c < i THEN e[c] ELSE IF c = i THEN v ELSE e[c - 1]
  <2>1. c \in 0 .. n - 1 /\ i \in 0 .. n - 1
    OBVIOUS
  <2>2. m[c] = IF c = i THEN v ELSE up[c]
    BY <1>3, <1>4, <2>1
  <2>3. up[c] = IF c \in i + 1 .. last THEN e[c - 1] ELSE e[c]
    BY <1>2, <2>1
  <2> QED
    BY <2>2, <2>3
<1> QED
  BY <1>5, <1>6 DEF Shifted

LEMMA MoveDown ==
  ASSUME NEW n \in Nat, NEW e \in [0 .. n - 1 -> Cell], NEW count \in 1 .. n,
         NEW i \in 0 .. count - 1
  PROVE  /\ MovedDown(e, i, count) \in [0 .. n - 1 -> Cell]
         /\ Closed(MovedDown(e, i, count), e, count, i)
<1> DEFINE down == MovedDown(e, i, count)
<1>1. down = [c \in 0 .. n - 1 |-> IF c \in i .. count - 2 THEN e[c + 1] ELSE e[c]]
  BY DEF MovedDown
<1> HIDE DEF down
<1>2. ASSUME NEW c \in 0 .. n - 1
      PROVE  down[c] = (IF c \in i .. count - 2 THEN e[c + 1] ELSE e[c]) /\ down[c] \in Cell
  <2>1. down[c] = IF c \in i .. count - 2 THEN e[c + 1] ELSE e[c]
    BY <1>1
  <2>2. e[c] \in Cell /\ (c < n - 1 => e[c + 1] \in Cell)
    OBVIOUS
  <2>3. c \in i .. count - 2 => c < n - 1
    OBVIOUS
  <2> QED
    BY <2>1, <2>2, <2>3
<1>3. down \in [0 .. n - 1 -> Cell]
  <2>1. down = [c \in 0 .. n - 1 |-> down[c]]
    BY <1>1
  <2> QED
    BY <1>2, <2>1
<1>4. ASSUME NEW c \in 0 .. count - 2
      PROVE  down[c] = IF c < i THEN e[c] ELSE e[c + 1]
  <2>1. c \in 0 .. n - 1
    OBVIOUS
  <2>2. down[c] = IF c \in i .. count - 2 THEN e[c + 1] ELSE e[c]
    BY <1>2, <2>1
  <2> QED
    BY <2>2
<1>5. Closed(down, e, count, i)
  BY <1>4 DEF Closed
<1> QED
  BY <1>3, <1>5 DEF down

LEMMA InsertKeeps ==
  ASSUME Usable, NEW i \in 0 .. size, NEW v \in Values, vector_insert(i, v)
  PROVE  /\ Usable' /\ Allocated' = 0 .. capacity' - 1
         /\ accessed' \subseteq 0 .. capacity' - 1
         /\ Shifted(elems', elems, size, i, v)
<1> DEFINE e == Extended(size + 1)
<1> DEFINE n == Capacity(size + 1)
<1>1. /\ size \in Nat /\ n \in Nat \ {0, 1} /\ size + 1 < n
      /\ capacity \in Nat /\ size < capacity /\ v \in Cell
      /\ e \in [0 .. n - 1 -> Cell]
      /\ \A c \in 0 .. capacity - 1 : e[c] = elems[c]
  BY Extends DEF Usable, Cell
<1>2. /\ size' = size + 1 /\ capacity' = n /\ accessed' = i .. size
      /\ elems' = [MovedUp(e, i, size + 1) EXCEPT ![i] = v]
  BY DEF vector_insert, Answers
<1> HIDE DEF e, n
<1>3. elems' \in [0 .. n - 1 -> Cell] /\ Shifted(elems', e, size, i, v)
  <2>1. size < n
    BY <1>1
  <2> QED
    BY <1>1, <1>2, <2>1, MoveUp
<1>4. Shifted(elems', elems, size, i, v)
  <2> SUFFICES ASSUME NEW c \in 0 .. size
               PROVE  elems'[c] = IF c < i THEN elems[c] ELSE IF c = i THEN v ELSE elems[c - 1]
    BY DEF Shifted
  <2>1. elems'[c] = IF c < i THEN e[c] ELSE IF c = i THEN v ELSE e[c - 1]
    BY <1>3 DEF Shifted
  <2>2. c \in 0 .. capacity - 1 /\ (c > i => c - 1 \in 0 .. capacity - 1)
    BY <1>1
  <2>3. e[c] = elems[c] /\ (c > i => e[c - 1] = elems[c - 1])
    BY <1>1, <2>2
  <2> QED
    BY <2>1, <2>3
<1>5. Filled(elems', size', Values)
  BY <1>1, <1>2, <1>4 DEF Filled, Shifted, Usable
<1>6. Usable'
  BY <1>1, <1>2, <1>3, <1>5 DEF Usable
<1>7. Allocated' = 0 .. capacity' - 1
  BY <1>2, <1>3 DEF Allocated
<1>8. accessed' \subseteq 0 .. capacity' - 1
  BY <1>1, <1>2
<1> QED
  BY <1>4, <1>6, <1>7, <1>8

LEMMA RemoveKeeps ==
  ASSUME Usable, NEW i \in 0 .. size - 1, vector_remove(i)
  PROVE  /\ Usable' /\ Allocated' = 0 .. capacity - 1
         /\ accessed' \subseteq 0 .. capacity - 1
         /\ Closed(elems', elems, size, i) /\ elems[i] \in Values
<1>1. /\ size \in 1 .. capacity /\ capacity \in Nat \ {0, 1}
      /\ elems \in [0 .. capacity - 1 -> Cell]
      /\ elems' = MovedDown(elems, i, size) /\ size' = size - 1 /\ capacity' = capacity
      /\ accessed' = i .. size - 1 /\ size < capacity
  BY DEF Usable, vector_remove, Answers
<1>2. elems' \in [0 .. capacity - 1 -> Cell] /\ Closed(elems', elems, size, i)
  BY <1>1, MoveDown
<1>3. Filled(elems', size', Values) /\ elems[i] \in Values
  BY <1>1, <1>2 DEF Filled, Closed, Usable
<1>4. Usable'
  BY <1>1, <1>2, <1>3 DEF Usable
<1> QED
  BY <1>1, <1>2, <1>3, <1>4 DEF Allocated

-----------------------------------------------------------------------------
VectorInv == VectorTypeOK /\ InsideAllocation

LEMMA VectorStarts == VectorInit => VectorInv
<1> SUFFICES ASSUME VectorInit PROVE VectorInv
  OBVIOUS
<1>1. InitialCapacity \in Nat \ {0, 1}
  BY VectorAssumption
<1>2. Usable
  BY <1>1 DEF VectorInit, Usable, Filled, Cell
<1>3. VectorTypeOK
  BY <1>2, UsableIsTyped DEF VectorInit, Cell
<1> QED
  BY <1>3 DEF VectorInv, InsideAllocation, VectorInit

(* A step that leaves the storage usable and accesses its cells only.      *)
LEMMA StaysUsable ==
  ASSUME VectorInv, Usable', owner' = owner, accessed' \subseteq 0 .. capacity' - 1,
         returned' \in Cell, vectorLife' \in {"live", "destroyed", "aborted", "exited"}
  PROVE  VectorInv'
<1>1. owner' \in {"client", "queue", "log"} /\ accessed' \subseteq Nat
  BY DEF VectorInv, VectorTypeOK
<1>2. capacity' \in Nat /\ elems' \in [0 .. capacity' - 1 -> Cell]
  BY DEF Usable
<1>3. VectorTypeOK'
  BY <1>1, <1>2 DEF VectorTypeOK, Usable, Cell, Filled, Allocated
<1>4. InsideAllocation'
  BY <1>2 DEF InsideAllocation, Allocated
<1> QED
  BY <1>3, <1>4 DEF VectorInv

(* A step that ends the process where it is, with its storage untouched.   *)
LEMMA StopsThere ==
  ASSUME VectorInv, Live, UNCHANGED <<elems, owner, accessed>>,
         size' \in Nat, capacity' \in Nat \ {0, 1}, returned' \in Cell,
         vectorLife' \in {"aborted", "exited"}
  PROVE  VectorInv'
<1>1. capacity \in Nat /\ elems \in [0 .. capacity - 1 -> Values \union {Unset}]
  BY LiveIsUsable DEF VectorInv, Live, Usable, Cell
<1>2. VectorTypeOK'
  BY <1>1 DEF VectorInv, VectorTypeOK, Cell
<1>3. InsideAllocation'
  BY DEF VectorInv, InsideAllocation, Allocated, Live
<1> QED
  BY <1>2, <1>3 DEF VectorInv

LEMMA InsertStep ==
  ASSUME VectorInv, NEW i \in Int, NEW v \in Values, vector_insert(i, v)
  PROVE  VectorInv'
<1>1. Usable /\ i \in 0 .. size
  BY LiveIsUsable DEF VectorInv, vector_insert, Live, Within, Usable
<1>2. Usable' /\ accessed' \subseteq 0 .. capacity' - 1
  BY <1>1, InsertKeeps
<1> QED
  BY <1>2, StaysUsable DEF vector_insert, Answers, Cell, Live

LEMMA RemoveStep ==
  ASSUME VectorInv, NEW i \in Int, vector_remove(i)
  PROVE  VectorInv'
<1>1. Usable /\ i \in 0 .. size - 1
  BY LiveIsUsable DEF VectorInv, vector_remove, Live, Within
<1>2. /\ Usable' /\ accessed' \subseteq 0 .. capacity - 1 /\ elems[i] \in Values
  BY <1>1, RemoveKeeps
<1> QED
  BY <1>2, StaysUsable DEF vector_remove, Answers, Cell, Live

LEMMA GetStep ==
  ASSUME VectorInv, NEW i \in Int, vector_get(i)
  PROVE  VectorInv' /\ elems[i] \in Values
<1>1. Usable /\ i \in 0 .. size - 1
  BY LiveIsUsable DEF VectorInv, vector_get, Live, Within
<1>2. i \in 0 .. capacity - 1 /\ elems[i] \in Values
  BY <1>1 DEF Usable, Filled
<1>3. Usable' /\ accessed' \subseteq 0 .. capacity' - 1
  BY <1>1, <1>2 DEF Usable, Filled, vector_get, Answers, storage
<1> QED
  BY <1>2, <1>3, StaysUsable DEF vector_get, Answers, Cell, Live

LEMMA SetStep ==
  ASSUME VectorInv, NEW i \in Int, NEW v \in Values, vector_set(i, v)
  PROVE  VectorInv'
<1>1. Usable /\ i \in 0 .. size - 1
  BY LiveIsUsable DEF VectorInv, vector_set, Live, Within
<1>2. /\ elems \in [0 .. capacity - 1 -> Cell] /\ v \in Cell /\ i \in 0 .. capacity - 1
  BY <1>1 DEF Usable, Cell
<1>3. elems' = [elems EXCEPT ![i] = v] /\ UNCHANGED <<size, capacity>> /\ accessed' = {i}
  BY DEF vector_set, Answers
<1>4. elems' \in [0 .. capacity - 1 -> Cell]
  BY <1>2, <1>3
<1>5. Filled(elems', size', Values)
  BY <1>1, <1>2, <1>3 DEF Usable, Filled
<1>6. Usable' /\ accessed' \subseteq 0 .. capacity' - 1
  BY <1>1, <1>2, <1>3, <1>4, <1>5 DEF Usable
<1> QED
  BY <1>6, StaysUsable DEF vector_set, Answers, Cell, Live

LEMMA GrowthFailsStep ==
  ASSUME VectorInv, GrowthFails
  PROVE  VectorInv'
<1>1. Usable
  BY LiveIsUsable DEF VectorInv, GrowthFails, Live
<1>2. size' \in Nat /\ capacity' \in Nat \ {0, 1}
  BY <1>1, Extends DEF GrowthFails, Usable
<1> QED
  BY <1>2, StopsThere DEF GrowthFails, Ends, Cell

LEMMA LogGrowthFailsStep ==
  ASSUME VectorInv, LogGrowthFails
  PROVE  VectorInv'
<1>1. Usable
  BY LiveIsUsable DEF VectorInv, LogGrowthFails, Live
<1>2. /\ capacity \in Nat \ {0, 1} /\ size = capacity - 1
      /\ capacity' = 2 * capacity /\ size' = size + 2 /\ accessed' = 0 .. size + 1
      /\ UNCHANGED <<elems, owner>> /\ owner = "log" /\ returned' = Unset
      /\ elems \in [0 .. capacity - 1 -> Cell] /\ vectorLife' \in {"exited", "crashed"}
  BY <1>1 DEF LogGrowthFails, Usable, Full, Capacity, Ends
<1>3. VectorTypeOK'
  BY <1>2 DEF VectorTypeOK, Cell
<1>4. Allocated' = 0 .. capacity - 1 /\ capacity' \div 2 = capacity
  BY <1>2 DEF Allocated
<1>5. InsideAllocation'
  BY <1>2, <1>4 DEF InsideAllocation
<1> QED
  BY <1>3, <1>5 DEF VectorInv

LEMMA LongerRange ==
  ASSUME NEW m \in Nat, NEW n \in Nat, m <= n
  PROVE  0 .. m - 1 \subseteq 0 .. n - 1
  OBVIOUS

LEMMA InsertAbortsStep ==
  ASSUME VectorInv, NEW i \in Int, vector_insert_aborts(i)
  PROVE  VectorInv'
<1>1. Usable
  BY LiveIsUsable DEF VectorInv, vector_insert_aborts, Live
<1>2. /\ capacity' \in Nat \ {0, 1} /\ size' = size + 1 /\ size' < capacity'
      /\ elems' \in [0 .. capacity' - 1 -> Cell] /\ capacity <= capacity'
      /\ elems \in [0 .. capacity - 1 -> Cell] /\ capacity \in Nat /\ size \in Nat
      /\ UNCHANGED <<owner, accessed>> /\ returned' = Unset /\ vectorLife' = "aborted"
  BY <1>1, Extends DEF vector_insert_aborts, Usable, Ends
<1>3. accessed \subseteq 0 .. capacity - 1
  BY <1>2 DEF VectorInv, InsideAllocation, Allocated, vector_insert_aborts, Live
<1>4. VectorTypeOK'
  <2>1. capacity' \in Nat \ {0, 1} /\ elems' \in [0 .. capacity' - 1 -> Values \union {Unset}]
    BY <1>2 DEF Cell
  <2>2. owner' \in {"client", "queue", "log"} /\ accessed' \subseteq Nat
    BY <1>2 DEF VectorInv, VectorTypeOK
  <2>3. size' \in Nat /\ returned' \in Values \union {Unset} /\ vectorLife' = "aborted"
    BY <1>2
  <2> QED
    BY <2>1, <2>2, <2>3 DEF VectorTypeOK
<1>5. InsideAllocation'
  <2>1. Allocated' = 0 .. capacity' - 1
    BY <1>2 DEF Allocated
  <2>2. capacity \in Nat /\ capacity' \in Nat /\ capacity <= capacity'
    BY <1>2
  <2>3. 0 .. capacity - 1 \subseteq 0 .. capacity' - 1
    BY <2>2, LongerRange
  <2>4. accessed' \subseteq Allocated'
    BY <1>2, <1>3, <2>1, <2>3
  <2> QED
    BY <2>4 DEF InsideAllocation
<1> QED
  BY <1>4, <1>5 DEF VectorInv

LEMMA VectorInvariant ==
  VectorInv /\ [VectorNext]_vectorVars => VectorInv'
<1> SUFFICES ASSUME VectorInv, [VectorNext]_vectorVars PROVE VectorInv'
  OBVIOUS
<1>1. size \in Int /\ MaxSize \in Int
  BY VectorAssumption DEF VectorInv, VectorTypeOK
<1>2. ASSUME NEW i \in -1 .. MaxSize, NEW v \in Values,
             vector_insert(i, v) \/ vector_set(i, v)
      PROVE  VectorInv'
  BY <1>1, <1>2, InsertStep, SetStep
<1>3. ASSUME NEW i \in -1 .. MaxSize, vector_remove(i) \/ vector_get(i)
      PROVE  VectorInv'
  BY <1>1, <1>3, RemoveStep, GetStep
<1>4. ASSUME NEW i \in -1 .. MaxSize, vector_insert_aborts(i)
      PROVE  VectorInv'
  BY <1>1, <1>4, InsertAbortsStep
<1>5. ASSUME NEW i \in -1 .. MaxSize, get_element_aborts(i)
      PROVE  VectorInv'
  <2>1. size \in Nat /\ capacity \in Nat \ {0, 1}
    BY DEF VectorInv, VectorTypeOK
  <2> QED
    BY <1>5, <2>1, StopsThere DEF get_element_aborts, Ends, storage, Cell
<1>6. ASSUME NEW v \in Values, vector_push(v)
      PROVE  VectorInv'
  BY <1>1, <1>6, InsertStep DEF vector_push
<1>7. ASSUME vector_pop
      PROVE  VectorInv'
  <2>1. size - 1 \in Int
    BY <1>1
  <2> QED
    BY <1>7, <2>1, RemoveStep DEF vector_pop
<1>8. ASSUME vector_destroy
      PROVE  VectorInv'
  <2>1. Usable /\ UNCHANGED <<elems, size, capacity>>
    BY <1>8, LiveIsUsable DEF VectorInv, vector_destroy, Live, storage
  <2>2. Usable'
    BY <2>1 DEF Usable, Filled
  <2> QED
    BY <1>8, <2>2, StaysUsable DEF vector_destroy, Ends, Cell
<1>9. CASE UNCHANGED vectorVars
  BY <1>9 DEF VectorInv, VectorTypeOK, InsideAllocation, Allocated, vectorVars, storage
<1> QED
  BY <1>2, <1>3, <1>4, <1>5, <1>6, <1>7, <1>8, <1>9, GrowthFailsStep, LogGrowthFailsStep
  DEF VectorNext

LEMMA VectorIsSafe == VectorSpec => []VectorInv
  BY VectorStarts, VectorInvariant, PTL DEF VectorSpec

(* The capacity the code believes in is the length of the block, and it is *)
(* more than the number of elements, whatever the initial capacity.        *)
THEOREM VectorTypeCorrect == VectorSpec => []VectorTypeOK
<1>1. VectorInv => VectorTypeOK
  BY DEF VectorInv
<1> QED
  BY <1>1, VectorIsSafe, PTL

(* No access of a vector leaves its block, but the one cell behind it that *)
(* the log writes when its own vector could not grow.                      *)
THEOREM AccessesStayInside == VectorSpec => []InsideAllocation
<1>1. VectorInv => InsideAllocation
  BY DEF VectorInv
<1> QED
  BY <1>1, VectorIsSafe, PTL

-----------------------------------------------------------------------------
(* The list a vector in use stands for.                                    *)
Listed == IF Live THEN Elements ELSE <<>>

LEMMA ListedIs ==
  ASSUME VectorInv, Live
  PROVE  /\ Usable /\ Listed = Cells(elems, size)
         /\ InOrder(Listed, elems, size, Values)
<1>1. Usable
  BY LiveIsUsable DEF VectorInv, Live
<1>2. Listed = Cells(elems, size)
  BY DEF Listed, Elements, Cells
<1>3. InOrder(Cells(elems, size), elems, size, Values)
  BY <1>1, CellsInOrder DEF Usable
<1> QED
  BY <1>1, <1>2, <1>3

LEMMA InsertPuts ==
  ASSUME VectorInv, NEW i \in Int, NEW v \in Values, vector_insert(i, v)
  PROVE  List!Put(i, v) /\ i \in 0 .. MaxSize
<1>0. /\ Live /\ Live' /\ size < MaxSize /\ size' = size + 1 /\ returned' = Unset
      /\ vectorLife = "live" /\ UNCHANGED vectorLife
  BY DEF vector_insert, Live, Answers
<1>1. /\ Usable /\ Listed = Cells(elems, size) /\ InOrder(Listed, elems, size, Values)
  BY <1>0, ListedIs
<1>2. size \in Nat /\ i \in 0 .. size
  BY <1>1 DEF vector_insert, Within, Usable
<1>3. Shifted(elems', elems, size, i, v)
  BY <1>1, <1>2, InsertKeeps
<1>4. Cells(elems', size + 1) = InsertAt(Cells(elems, size), i + 1, v)
  BY <1>1, <1>2, <1>3, CellsPut DEF Usable
<1>5. Listed' = InsertAt(Listed, i + 1, v)
  BY <1>0, <1>1, <1>4 DEF Listed, Elements, Cells
<1>6. Len(Listed) = size
  BY <1>1 DEF InOrder
<1>7. i \in 0 .. MaxSize
  BY <1>0, <1>2, VectorAssumption
<1>8. List!Put(i, v)
  BY <1>0, <1>2, <1>5, <1>6 DEF List!Put, List!InsertAt, InsertAt, Listed
<1> QED
  BY <1>7, <1>8

LEMMA RemoveTakes ==
  ASSUME VectorInv, NEW i \in Int, vector_remove(i)
  PROVE  List!Take(i)
<1>0. /\ Live /\ Live' /\ size' = size - 1 /\ returned' = elems[i]
      /\ vectorLife = "live" /\ UNCHANGED vectorLife
  BY DEF vector_remove, Live, Answers
<1>1. /\ Usable /\ Listed = Cells(elems, size) /\ InOrder(Listed, elems, size, Values)
  BY <1>0, ListedIs
<1>2. size \in Nat /\ i \in 0 .. size - 1
  BY <1>1 DEF vector_remove, Within, Usable
<1>3. Closed(elems', elems, size, i)
  BY <1>1, <1>2, RemoveKeeps
<1>4. Cells(elems', size - 1) = RemoveAt(Cells(elems, size), i + 1)
  BY <1>1, <1>2, <1>3, CellsTake DEF Usable
<1>5. Listed' = RemoveAt(Listed, i + 1)
  BY <1>0, <1>1, <1>4 DEF Listed, Elements, Cells
<1>6. Len(Listed) = size /\ Listed[i + 1] = elems[i]
  BY <1>1, <1>2 DEF InOrder
<1> QED
  BY <1>0, <1>2, <1>5, <1>6 DEF List!Take, List!RemoveAt, RemoveAt, Listed

LEMMA GetLooks ==
  ASSUME VectorInv, NEW i \in Int, vector_get(i)
  PROVE  List!Look(i)
<1>0. /\ Live /\ UNCHANGED <<elems, size, vectorLife>> /\ returned' = elems[i]
      /\ vectorLife = "live"
  BY DEF vector_get, Live, Answers, storage
<1>1. Usable /\ InOrder(Listed, elems, size, Values)
  BY <1>0, ListedIs
<1>2. size \in Nat /\ i \in 0 .. size - 1
  BY <1>1 DEF vector_get, Within, Usable
<1>3. Listed' = Listed
  BY <1>0 DEF Listed, Live, Elements
<1>4. Len(Listed) = size /\ Listed[i + 1] = elems[i]
  BY <1>1, <1>2 DEF InOrder
<1> QED
  BY <1>0, <1>2, <1>3, <1>4 DEF List!Look, Listed

LEMMA SetReplaces ==
  ASSUME VectorInv, NEW i \in Int, NEW v \in Values, vector_set(i, v)
  PROVE  List!Replace(i, v)
<1>0. /\ Live /\ Live' /\ UNCHANGED <<size, vectorLife>> /\ returned' = Unset
      /\ vectorLife = "live" /\ elems' = [elems EXCEPT ![i] = v]
  BY DEF vector_set, Live, Answers
<1>1. Usable /\ InOrder(Listed, elems, size, Values)
  BY <1>0, ListedIs
<1>2. size \in Nat /\ i \in 0 .. size - 1
  BY <1>1 DEF vector_set, Within, Usable
<1>3. elems' = [c \in 0 .. capacity - 1 |-> IF c = i THEN v ELSE elems[c]] /\ size < capacity
  BY <1>0, <1>1, <1>2 DEF Usable
<1>4. \A k \in 1 .. size : elems'[k - 1] = IF k = i + 1 THEN v ELSE elems[k - 1]
  BY <1>1, <1>2, <1>3 DEF Usable
<1>5. Listed' = [k \in 1 .. size |-> elems'[k - 1]]
  BY <1>0 DEF Listed, Elements
<1>6. Listed = [k \in 1 .. size |-> elems[k - 1]]
  BY <1>0 DEF Listed, Elements
<1>7. Listed' = [Listed EXCEPT ![i + 1] = v]
  BY <1>2, <1>4, <1>5, <1>6
<1>8. Len(Listed) = size
  BY <1>1 DEF InOrder
<1> QED
  BY <1>0, <1>2, <1>7, <1>8 DEF List!Replace, List!ReplaceAt, ReplaceAt, Listed

(* A vector in use never holds more than the bound of the model.           *)
Bounded == Live => size <= MaxSize

LEMMA BoundedStep ==
  ASSUME VectorInv, Bounded, [VectorNext]_vectorVars
  PROVE  Bounded'
<1>1. size \in Nat /\ MaxSize \in Nat
  BY VectorAssumption DEF VectorInv, VectorTypeOK
<1>2. ASSUME NEW i \in Int, NEW v \in Values, vector_insert(i, v)
      PROVE  Bounded'
  BY <1>1, <1>2 DEF vector_insert, Bounded
<1>3. ASSUME NEW i \in Int, vector_remove(i)
      PROVE  Bounded'
  BY <1>1, <1>3 DEF vector_remove, Bounded, Live
<1>4. CASE UNCHANGED <<size, vectorLife>>
  BY <1>4 DEF Bounded, Live
<1>5. CASE vectorLife' # "live"
  BY <1>5 DEF Bounded, Live
<1>6. ASSUME NEW i \in Int
      PROVE  /\ vector_get(i) => UNCHANGED <<size, vectorLife>>
             /\ \A v \in Values : vector_set(i, v) => UNCHANGED <<size, vectorLife>>
  BY DEF vector_get, vector_set, storage
<1>7. ASSUME NEW i \in Int, vector_insert_aborts(i) \/ get_element_aborts(i)
      PROVE  vectorLife' # "live"
  BY <1>7 DEF vector_insert_aborts, get_element_aborts, Ends
<1>8. ASSUME GrowthFails \/ LogGrowthFails \/ vector_destroy
      PROVE  vectorLife' # "live"
  BY <1>8 DEF GrowthFails, LogGrowthFails, vector_destroy, Ends
<1>9. CASE UNCHANGED vectorVars
  BY <1>4, <1>9 DEF vectorVars, storage
<1>10. \A i \in -1 .. MaxSize : i \in Int
  OBVIOUS
<1> QED
  BY <1>1, <1>2, <1>3, <1>4, <1>5, <1>6, <1>7, <1>8, <1>9, <1>10
  DEF VectorNext, vector_push, vector_pop

LEMMA EndsRefuse ==
  ASSUME VectorInv, Live, vectorLife' \in {"aborted", "exited", "crashed"}, returned' = Unset
  PROVE  List!Refuse
  BY DEF List!Refuse, List!End, Live

(* Growth, memmove and removal implement a list: for every capacity and    *)
(* any history of calls, an element stays at its place among the others.   *)
THEOREM VectorIsList == VectorSpec => ImplementsList
<1>1. VectorInit => List!Init /\ Bounded
  BY VectorAssumption DEF VectorInit, List!Init, Live, Elements, Bounded
<1>2. ASSUME VectorInv, Bounded, [VectorNext]_vectorVars
      PROVE  [List!ListNext]_(List!contents)
  <2>0. size \in Nat /\ MaxSize \in Nat
    BY <1>2, VectorAssumption DEF VectorInv, VectorTypeOK
  <2>1. ASSUME NEW i \in Int, NEW v \in Values, vector_insert(i, v)
        PROVE  List!ListNext
    BY <1>2, <2>1, InsertPuts DEF List!ListNext
  <2>2. ASSUME NEW i \in Int, vector_remove(i)
        PROVE  List!ListNext
    <3>1. List!Take(i)
      BY <1>2, <2>2, RemoveTakes
    <3>2. i \in 0 .. MaxSize
      BY <1>2, <2>0, <2>2 DEF vector_remove, Within, Bounded
    <3> QED
      BY <3>1, <3>2 DEF List!ListNext
  <2>3. ASSUME NEW i \in Int, vector_get(i)
        PROVE  List!ListNext
    <3>1. List!Look(i)
      BY <1>2, <2>3, GetLooks
    <3>2. i \in 0 .. MaxSize
      BY <1>2, <2>0, <2>3 DEF vector_get, Within, Bounded
    <3> QED
      BY <3>1, <3>2 DEF List!ListNext
  <2>4. ASSUME NEW i \in Int, NEW v \in Values, vector_set(i, v)
        PROVE  List!ListNext
    <3>1. List!Replace(i, v)
      BY <1>2, <2>4, SetReplaces
    <3>2. i \in 0 .. MaxSize
      BY <1>2, <2>0, <2>4 DEF vector_set, Within, Bounded
    <3> QED
      BY <3>1, <3>2 DEF List!ListNext
  <2>5. ASSUME NEW i \in Int, vector_insert_aborts(i) \/ get_element_aborts(i)
        PROVE  List!ListNext
    <3>1. List!Refuse
      BY <1>2, <2>5, EndsRefuse DEF vector_insert_aborts, get_element_aborts, Ends
    <3> QED
      BY <3>1 DEF List!ListNext
  <2>6. CASE GrowthFails \/ LogGrowthFails
    <3>1. List!Refuse
      BY <1>2, <2>6, EndsRefuse DEF GrowthFails, LogGrowthFails, Ends
    <3> QED
      BY <3>1 DEF List!ListNext
  <2>7. CASE vector_destroy
    BY <2>7 DEF vector_destroy, Ends, Live, List!ListNext, List!End
  <2>8. CASE UNCHANGED vectorVars
    BY <2>8 DEF vectorVars, storage, List!contents, Live, Elements
  <2>9. \A i \in -1 .. MaxSize : i \in Int
    OBVIOUS
  <2> QED
    BY <1>2, <2>0, <2>1, <2>2, <2>3, <2>4, <2>5, <2>6, <2>7, <2>8, <2>9
    DEF VectorNext, vector_push, vector_pop
<1> QED
  BY <1>1, <1>2, VectorIsSafe, BoundedStep, PTL DEF VectorSpec, ImplementsList, List!ListSpec

-----------------------------------------------------------------------------
(* Token queues.  The index never passes the end of the list.              *)
QueueInv ==
  /\ VectorInv /\ owner = "queue" /\ idx \in Nat
  /\ Live => idx <= size /\ size <= MaxSize

LEMMA QueueUsable ==
  ASSUME QueueInv, Live
  PROVE  /\ Usable /\ size \in Nat /\ MaxSize \in Nat /\ capacity \in Nat \ {0, 1}
         /\ idx \in Nat /\ idx <= size /\ size <= MaxSize /\ size < capacity
<1>1. Usable
  BY LiveIsUsable DEF QueueInv, VectorInv, Live
<1> QED
  BY <1>1, VectorAssumption DEF Usable, QueueInv

LEMMA QueuePushStep ==
  ASSUME QueueInv, NEW token \in Values, queue_push(token)
  PROVE  QueueInv'
<1>1. Live /\ Usable /\ size \in Int /\ MaxSize \in Int
  BY QueueUsable DEF queue_push, vector_push, vector_insert
<1>2. VectorInv'
  BY <1>1, InsertStep DEF QueueInv, queue_push, vector_push
<1> QED
  BY <1>1, <1>2 DEF QueueInv, queue_push, vector_push, vector_insert

LEMMA QueueGetStep ==
  ASSUME QueueInv, NEW i \in Int, vector_get(i), idx' \in Nat, idx' <= size
  PROVE  QueueInv'
<1>1. VectorInv'
  BY GetStep DEF QueueInv
<1> QED
  BY <1>1 DEF QueueInv, vector_get, storage, Live

LEMMA QueueEndStep ==
  ASSUME QueueInv, queue_push_null \/ queue_pop_empty
  PROVE  QueueInv'
<1>1. Live /\ Ends("exited") /\ UNCHANGED <<storage, owner, accessed, idx>>
  BY DEF queue_push_null, queue_pop_empty
<1>2. size \in Nat /\ capacity \in Nat \ {0, 1}
  BY <1>1, QueueUsable
<1>3. VectorInv'
  BY <1>1, <1>2, StopsThere DEF QueueInv, Ends, Cell, storage
<1> QED
  BY <1>1, <1>3 DEF QueueInv, Ends, Live

LEMMA QueueInvariant ==
  QueueInv /\ [QueueNext]_queueVars => QueueInv'
<1> SUFFICES ASSUME QueueInv, [QueueNext]_queueVars PROVE QueueInv'
  OBVIOUS
<1>1. CASE queue_push_fails
  <2>1. VectorInv'
    BY <1>1, GrowthFailsStep DEF QueueInv, queue_push_fails
  <2> QED
    BY <1>1, <2>1 DEF QueueInv, queue_push_fails, GrowthFails, Ends, Live
<1>2. CASE queue_pop
  <2>1. Live /\ vector_get(idx) /\ idx < size /\ idx' = idx + 1
    BY <1>2 DEF queue_pop, vector_get
  <2>2. idx \in Int /\ idx' \in Nat /\ idx' <= size
    BY <2>1, QueueUsable
  <2> QED
    BY <2>1, <2>2, QueueGetStep
<1>3. ASSUME NEW offset \in 0 .. MaxOffset, queue_peek_offset(offset)
      PROVE  QueueInv'
  <2>1. Live /\ vector_get(idx + offset) /\ idx' = idx
    BY <1>3 DEF queue_peek_offset, vector_get
  <2>2. idx + offset \in Int /\ idx' \in Nat /\ idx' <= size
    BY <2>1, QueueUsable
  <2> QED
    BY <2>1, <2>2, QueueGetStep
<1>4. ASSUME NEW offset \in 0 .. MaxOffset, queue_peek_null(offset)
      PROVE  QueueInv'
  <2>1. /\ Live /\ Live' /\ accessed' = {} /\ returned' = Unset
        /\ UNCHANGED <<elems, size, capacity, owner, idx, vectorLife>>
    BY <1>4 DEF queue_peek_null, Answers, storage, Live
  <2>2. VectorInv'
    <3>1. Usable'
      BY <2>1, QueueUsable DEF Usable, Filled
    <3> QED
      BY <2>1, <3>1, StaysUsable DEF QueueInv, Cell, Live
  <2> QED
    BY <2>1, <2>2 DEF QueueInv
<1>5. CASE destroy_queue
  <2>1. /\ Live /\ ~Live' /\ accessed' = 0 .. size - 1 /\ returned' = Unset
        /\ UNCHANGED <<elems, size, capacity, owner, idx>> /\ vectorLife' = "destroyed"
    BY <1>5 DEF destroy_queue, Ends, storage, Live
  <2>2. VectorInv'
    <3>1. Usable' /\ size \in Nat /\ capacity \in Nat /\ size <= capacity
      BY <2>1, QueueUsable DEF Usable, Filled
    <3>2. accessed' \subseteq 0 .. capacity' - 1
      BY <2>1, <3>1, LongerRange
    <3> QED
      BY <2>1, <3>1, <3>2, StaysUsable DEF QueueInv, Cell
  <2> QED
    BY <2>1, <2>2 DEF QueueInv
<1>6. CASE UNCHANGED queueVars
  <2>1. UNCHANGED vectorVars /\ UNCHANGED idx
    BY <1>6 DEF queueVars
  <2>2. VectorInv'
    BY <2>1, VectorInvariant DEF QueueInv
  <2> QED
    BY <2>1, <2>2 DEF QueueInv, vectorVars, storage, Live
<1> QED
  BY <1>1, <1>2, <1>3, <1>4, <1>5, <1>6, QueuePushStep, QueueEndStep DEF QueueNext

LEMMA QueueIsSafe == QueueSpec => []QueueInv
<1>1. QueueInit => QueueInv
  BY VectorStarts, VectorAssumption DEF QueueInit, QueueInv, VectorInit, Live
<1> QED
  BY <1>1, QueueInvariant, PTL DEF QueueSpec

(* The cells from a position on.                                           *)
From(cells, position) == [c \in Nat |-> cells[position + c]]

Pending == IF InUse THEN Waiting ELSE <<>>

LEMMA PendingIs ==
  ASSUME QueueInv, Live
  PROVE  /\ Pending = Cells(From(elems, idx), size - idx)
         /\ Filled(From(elems, idx), size - idx, Values)
         /\ InOrder(Pending, From(elems, idx), size - idx, Values)
         /\ size - idx \in 0 .. MaxSize
<1>1. /\ Usable /\ size \in Nat /\ MaxSize \in Nat /\ idx \in Nat
      /\ idx <= size /\ size <= MaxSize
  BY QueueUsable
<1>2. size - idx \in Nat /\ size - idx \in 0 .. MaxSize
  BY <1>1
<1>3. \A k \in 1 .. size - idx :
        k - 1 \in Nat /\ elems[idx + k - 1] = From(elems, idx)[k - 1]
  BY <1>1 DEF From
<1>4. Pending = Cells(From(elems, idx), size - idx)
  BY <1>3 DEF Pending, InUse, Waiting, Cells, QueueInv
<1>5. Filled(From(elems, idx), size - idx, Values)
  <2> SUFFICES ASSUME NEW c \in 0 .. size - idx - 1
               PROVE  From(elems, idx)[c] \in Values
    BY DEF Filled
  <2>1. c \in Nat /\ idx + c \in 0 .. size - 1
    BY <1>1
  <2>2. elems[idx + c] \in Values
    BY <1>1, <2>1 DEF Usable, Filled
  <2> QED
    BY <2>1, <2>2 DEF From
<1> QED
  BY <1>2, <1>4, <1>5, CellsInOrder

LEMMA PushPuts ==
  ASSUME QueueInv, NEW token \in Values, queue_push(token)
  PROVE  Queue!Put(Len(Pending), token)
<1> DEFINE n == size - idx
<1>0. /\ Live /\ Live' /\ size < MaxSize /\ size' = size + 1 /\ returned' = Unset
      /\ UNCHANGED <<owner, vectorLife, idx>> /\ owner = "queue" /\ vector_insert(size, token)
  BY DEF queue_push, vector_push, vector_insert, Live, Answers, QueueInv
<1>1. /\ Usable /\ size \in Nat /\ MaxSize \in Nat /\ idx \in Nat /\ idx <= size
  BY <1>0, QueueUsable
<1>2. /\ Pending = Cells(From(elems, idx), n) /\ Filled(From(elems, idx), n, Values)
      /\ InOrder(Pending, From(elems, idx), n, Values) /\ n \in Nat
  BY <1>0, PendingIs
<1>3. Shifted(elems', elems, size, size, token)
  <2>1. size \in 0 .. size
    BY <1>1
  <2> QED
    BY <1>0, <1>1, <2>1, InsertKeeps
<1>4. Shifted(From(elems', idx), From(elems, idx), n, n, token)
  <2> SUFFICES ASSUME NEW c \in 0 .. n
               PROVE  From(elems', idx)[c] = IF c < n THEN From(elems, idx)[c] ELSE token
    BY <1>2 DEF Shifted
  <2>1. /\ c \in Nat /\ idx + c \in 0 .. size
        /\ idx + c < size <=> c < n
        /\ idx + c = size <=> c = n
    BY <1>1
  <2>2. elems'[idx + c] = IF idx + c < size THEN elems[idx + c] ELSE token
    BY <1>1, <1>3, <2>1 DEF Shifted
  <2> QED
    BY <2>1, <2>2 DEF From
<1>5. Cells(From(elems', idx), n + 1) = InsertAt(Cells(From(elems, idx), n), n + 1, token)
  <2>1. n \in 0 .. n
    BY <1>2
  <2> HIDE DEF n
  <2> QED
    BY <1>2, <1>4, <2>1, CellsPut
<1>6. Pending' = Cells(From(elems', idx), n + 1)
  <2>1. QueueInv'
    BY QueuePushStep
  <2>2. /\ Usable' /\ size' - idx' = n + 1
        /\ \A k \in 1 .. n + 1 : k - 1 \in Nat /\ elems'[idx + k - 1] = From(elems', idx)[k - 1]
    BY <1>0, <1>1, <1>2, InsertKeeps DEF From
  <2> QED
    BY <1>0, <2>2 DEF Pending, InUse, Waiting, Cells
<1>7. Pending' = InsertAt(Pending, n + 1, token)
  BY <1>2, <1>5, <1>6
<1>8. Len(Pending) = n /\ n < MaxSize
  BY <1>0, <1>1, <1>2 DEF InOrder
<1> HIDE DEF n
<1>9. Queue!Put(n, token)
  <2>1. InUse /\ InUse' /\ owner = "queue" /\ owner' = "queue" /\ returned' = Unset
    BY <1>0 DEF InUse
  <2>2. n \in 0 .. Len(Pending) /\ Len(Pending) < MaxSize
    BY <1>2, <1>8
  <2>3. Pending' = Queue!InsertAt(Pending, n + 1, token)
    BY <1>7 DEF Queue!InsertAt, InsertAt
  <2> QED
    BY <2>1, <2>2, <2>3 DEF Queue!Put, Pending
<1> QED
  BY <1>8, <1>9

LEMMA PopTakes ==
  ASSUME QueueInv, queue_pop
  PROVE  Queue!Take(0)
<1> DEFINE n == size - idx
<1>0. /\ Live /\ Live' /\ idx < size /\ idx' = idx + 1 /\ returned' = elems[idx]
      /\ UNCHANGED <<elems, size, owner, vectorLife>> /\ owner = "queue"
  BY DEF queue_pop, vector_get, Live, Answers, QueueInv, storage
<1>1. size \in Nat /\ MaxSize \in Nat /\ idx \in Nat
  BY <1>0, QueueUsable
<1>2. /\ Pending = Cells(From(elems, idx), n) /\ Filled(From(elems, idx), n, Values)
      /\ InOrder(Pending, From(elems, idx), n, Values) /\ n \in Nat
  BY <1>0, PendingIs
<1>3. /\ 0 \in 0 .. n - 1
      /\ From(elems, idx)[0] = elems[idx]
      /\ \A c \in 0 .. n - 2 : From(elems, idx + 1)[c] = From(elems, idx)[c + 1]
  BY <1>0, <1>1 DEF From
<1>4. Closed(From(elems, idx + 1), From(elems, idx), n, 0)
  BY <1>3 DEF Closed
<1>5. Cells(From(elems, idx + 1), n - 1) = RemoveAt(Cells(From(elems, idx), n), 0 + 1)
  <2> HIDE DEF n
  <2> QED
    BY <1>2, <1>3, <1>4, CellsTake
<1>6. Pending' = Cells(From(elems, idx + 1), n - 1)
  <2>1. /\ size' - idx' = n - 1
        /\ \A k \in 1 .. n - 1 :
             k - 1 \in Nat /\ elems'[idx' + k - 1] = From(elems, idx + 1)[k - 1]
    BY <1>0, <1>1 DEF From
  <2> QED
    BY <1>0, <2>1 DEF Pending, InUse, Waiting, Cells
<1>7. Pending' = RemoveAt(Pending, 0 + 1) /\ Len(Pending) = n /\ Pending[1] = elems[idx]
  BY <1>2, <1>3, <1>5, <1>6 DEF InOrder
<1> HIDE DEF n
<1> QED
  BY <1>0, <1>2, <1>3, <1>7
  DEF Queue!Take, Queue!RemoveAt, RemoveAt, Pending, InUse, Live

LEMMA PeekLooks ==
  ASSUME QueueInv, NEW offset \in 0 .. MaxOffset, queue_peek_offset(offset)
  PROVE  Queue!Look(offset) /\ offset \in 0 .. MaxSize
<1>0. /\ Live /\ idx + offset < size /\ returned' = elems[idx + offset]
      /\ UNCHANGED <<elems, size, owner, vectorLife, idx>> /\ owner = "queue" /\ vectorLife = "live"
  BY DEF queue_peek_offset, vector_get, Live, Answers, QueueInv, storage
<1>1. /\ size \in Nat /\ MaxSize \in Nat /\ idx \in Nat /\ size <= MaxSize
      /\ offset \in Nat
  BY <1>0, QueueUsable
<1>2. InOrder(Pending, From(elems, idx), size - idx, Values)
  BY <1>0, PendingIs
<1>3. Pending' = Pending
  BY <1>0 DEF Pending, InUse, Waiting, Live
<1>4. offset \in 0 .. MaxSize /\ offset + 1 \in 1 .. size - idx /\ offset < size - idx
  BY <1>0, <1>1
<1>5. Len(Pending) = size - idx /\ Pending[offset + 1] = From(elems, idx)[offset]
  BY <1>1, <1>2, <1>4 DEF InOrder
<1>6. Pending[offset + 1] = elems[idx + offset]
  BY <1>1, <1>5 DEF From
<1> QED
  BY <1>0, <1>1, <1>3, <1>4, <1>5, <1>6 DEF Queue!Look, Pending, InUse, Live

LEMMA PeekNullLooks ==
  ASSUME QueueInv, NEW offset \in 0 .. MaxOffset, queue_peek_null(offset)
  PROVE  \E position \in 0 .. MaxSize : Queue!Look(position)
<1>0. /\ Live /\ returned' = Unset /\ owner = "queue" /\ vectorLife = "live"
      /\ UNCHANGED <<elems, size, owner, vectorLife, idx>>
  BY DEF queue_peek_null, Live, Answers, QueueInv, storage
<1>1. InOrder(Pending, From(elems, idx), size - idx, Values) /\ size - idx \in 0 .. MaxSize
  BY <1>0, PendingIs
<1>2. Pending' = Pending
  BY <1>0 DEF Pending, InUse, Waiting, Live
<1>3. Len(Pending) = size - idx
  BY <1>1 DEF InOrder
<1>4. Queue!Look(size - idx)
  BY <1>0, <1>1, <1>2, <1>3 DEF Queue!Look, Pending, InUse, Live
<1> QED
  BY <1>1, <1>4

(* The vector and the index implement a queue: for every history of calls  *)
(* the parser takes each token once, in the order of the lexer.            *)
THEOREM TokensAreQueued == QueueSpec => ImplementsQueue
<1>1. QueueInit => Queue!Init
  BY DEF QueueInit, VectorInit, Queue!Init, InUse, Live, Waiting
<1>2. ASSUME QueueInv, [QueueNext]_queueVars
      PROVE  [Queue!FifoNext]_(Queue!contents)
  <2>1. ASSUME NEW token \in Values, queue_push(token)
        PROVE  Queue!FifoNext
    <3>1. Queue!Put(Len(Pending), token)
      BY <1>2, <2>1, PushPuts
    <3> QED
      BY <3>1 DEF Queue!FifoNext, Pending
  <2>2. CASE queue_pop
    BY <1>2, <2>2, PopTakes DEF Queue!FifoNext
  <2>3. ASSUME NEW offset \in 0 .. MaxOffset, queue_peek_offset(offset) \/ queue_peek_null(offset)
        PROVE  Queue!FifoNext
    BY <1>2, <2>3, PeekLooks, PeekNullLooks DEF Queue!FifoNext
  <2>4. CASE queue_push_null \/ queue_pop_empty \/ queue_push_fails
    <3>1. Live /\ owner = "queue" /\ owner' = owner /\ vectorLife' = "exited" /\ returned' = Unset
      BY <1>2, <2>4
      DEF QueueInv, queue_push_null, queue_pop_empty, queue_push_fails, GrowthFails, Ends
    <3>2. Queue!Refuse
      BY <3>1 DEF Queue!Refuse, Queue!End, InUse, Live
    <3> QED
      BY <3>2 DEF Queue!FifoNext
  <2>5. CASE destroy_queue
    <3>1. Queue!End("destroyed")
      BY <1>2, <2>5 DEF QueueInv, destroy_queue, Ends, Queue!End, InUse, Live
    <3> QED
      BY <3>1 DEF Queue!FifoNext
  <2>6. CASE UNCHANGED queueVars
    BY <2>6 DEF queueVars, vectorVars, storage, Queue!contents, InUse, Live, Waiting
  <2> QED
    BY <1>2, <2>1, <2>2, <2>3, <2>4, <2>5, <2>6 DEF QueueNext
<1> QED
  BY <1>1, <1>2, QueueIsSafe, PTL DEF QueueSpec, ImplementsQueue, Queue!FifoSpec
=============================================================================
