------------------------------- MODULE Recursion -------------------------------
(***************************************************************************)
(* What proofs about recursive functions rest on.  A function that is      *)
(* defined by recursion is the one that CHOOSE picks among those that      *)
(* satisfy its equation, so that nothing is known of it until one of them  *)
(* is shown to exist.                                                      *)
(*                                                                         *)
(* The domain is built level by level, and the equation, f[x] = Def(f, x), *)
(* looks from a level to the level below only.  Nothing here is about the  *)
(* compiler: module VisitorProofs takes an instance for each recursion of  *)
(* the model over syntax trees.                                            *)
(***************************************************************************)
EXTENDS Integers, Sequences, WellFoundedInduction, TLAPS

CONSTANTS Level(_), Def(_, _)

-----------------------------------------------------------------------------
(* Induction, for a set: its members are found one after the other.  It    *)
(* comes from the least number that is not a member.                       *)
THEOREM SetInduction ==
  ASSUME NEW T \in SUBSET Nat, 0 \in T, \A n \in T : n + 1 \in T
  PROVE  T = Nat
<1> SUFFICES ASSUME T # Nat PROVE FALSE
  OBVIOUS
<1> DEFINE U == Nat \ T
           R == OpToRel(<, Nat)
<1>1. U # {} /\ U \subseteq Nat
  OBVIOUS
<1>2. IsWellFoundedOn(R, Nat)
  BY NatLessThanWellFounded
<1>3. \A y, x \in Nat : y < x => <<y, x>> \in R
  BY DEF OpToRel
<1>4. PICK x \in U : \A y \in U : <<y, x>> \notin R
  <2> HIDE DEF R, U
  <2> QED
    BY <1>1, <1>2, WFMin
<1> HIDE DEF R
<1>5. x \in Nat /\ x # 0 /\ x - 1 \in Nat /\ x - 1 < x
  OBVIOUS
<1>6. x - 1 \notin U
  BY <1>3, <1>4, <1>5
<1> QED
  BY <1>5, <1>6

-----------------------------------------------------------------------------
Nested == \A n \in Nat : Level(n) \subseteq Level(n + 1)

LooksDown ==
  /\ \A f, g : \A x \in Level(0) : Def(f, x) = Def(g, x)
  /\ \A n \in Nat : \A f, g :
       (\A y \in Level(n) : f[y] = g[y]) => \A x \in Level(n + 1) : Def(f, x) = Def(g, x)

(* On every level there is a function that satisfies the equation.         *)
THEOREM FunctionExists ==
  ASSUME Nested, LooksDown
  PROVE  \A n \in Nat : \E f : f = [x \in Level(n) |-> Def(f, x)]
<1> DEFINE T == {n \in Nat : \E f : f = [x \in Level(n) |-> Def(f, x)]}
<1>1. 0 \in T
  <2> DEFINE f == [x \in Level(0) |-> Def(<<>>, x)]
  <2>1. \A x \in Level(0) : Def(f, x) = Def(<<>>, x)
    BY DEF LooksDown
  <2>2. f = [x \in Level(0) |-> Def(f, x)]
    BY <2>1
  <2> QED
    BY <2>2
<1>2. ASSUME NEW n \in T PROVE n + 1 \in T
  <2>1. PICK g : g = [x \in Level(n) |-> Def(g, x)]
    OBVIOUS
  <2> DEFINE f == [x \in Level(n + 1) |-> Def(g, x)]
  <2>2. \A y \in Level(n) : f[y] = g[y]
    BY <2>1 DEF Nested
  <2>3. \A x \in Level(n + 1) : Def(f, x) = Def(g, x)
    <3> HIDE DEF f
    <3> QED
      BY <2>2 DEF LooksDown
  <2>4. f = [x \in Level(n + 1) |-> Def(f, x)]
    BY <2>3
  <2>5. n \in Nat
    OBVIOUS
  <2> HIDE DEF f
  <2> QED
    BY <2>4, <2>5
<1>3. T = Nat
  <2> HIDE DEF T
  <2>1. T \in SUBSET Nat
    BY DEF T
  <2> QED
    BY <1>1, <1>2, <2>1, SetInduction
<1> QED
  BY <1>3

(* A level holds all the levels below it.                                  *)
THEOREM LevelsGrow ==
  ASSUME Nested, NEW n \in Nat, NEW k \in Nat
  PROVE  Level(n) \subseteq Level(n + k)
<1> DEFINE T == {j \in Nat : Level(n) \subseteq Level(n + j)}
<1>1. 0 \in T
  OBVIOUS
<1>2. ASSUME NEW j \in T PROVE j + 1 \in T
  <2>1. Level(n + j) \subseteq Level(n + j + 1)
    BY DEF Nested
  <2>2. n + j + 1 = n + (j + 1)
    OBVIOUS
  <2> QED
    BY <2>1, <2>2
<1>3. T = Nat
  <2> HIDE DEF T
  <2>1. T \in SUBSET Nat
    BY DEF T
  <2> QED
    BY <1>1, <1>2, <2>1, SetInduction
<1> QED
  BY <1>3

(* What holds of a level if it holds of the level below, holds on all of   *)
(* them.                                                                   *)
THEOREM LevelInduction ==
  ASSUME NEW Good, NEW n \in Nat, \A x \in Level(0) : x \in Good,
         \A m \in Nat : m < n /\ Level(m) \subseteq Good => Level(m + 1) \subseteq Good
  PROVE  Level(n) \subseteq Good
<1> DEFINE T == {m \in Nat : m <= n => Level(m) \subseteq Good}
<1>1. 0 \in T
  OBVIOUS
<1>2. \A m \in T : m + 1 \in T
  OBVIOUS
<1>3. T = Nat
  <2> HIDE DEF T
  <2>1. T \in SUBSET Nat
    BY DEF T
  <2> QED
    BY <1>1, <1>2, <2>1, SetInduction
<1> QED
  BY <1>3

-----------------------------------------------------------------------------
(* A fold over the positions of a sequence, from the first, lo, where it   *)
(* is a, to the last; step is a function so that it can be cited.          *)
Folded(f, lo, hi, a, step) ==
  f = [i \in lo .. hi |-> IF i = lo THEN a ELSE step[i][f[i - 1]]]

THEOREM FoldExists ==
  ASSUME NEW V, NEW a \in V, NEW lo \in Nat, NEW hi \in Nat,
         NEW step \in [Nat -> [V -> V]]
  PROVE  \E f : Folded(f, lo, hi, a, step)
<1> DEFINE T == {k \in Nat : \E f \in [lo .. lo + k -> V] : Folded(f, lo, lo + k, a, step)}
<1>1. 0 \in T
  <2> DEFINE f == [i \in lo .. lo + 0 |-> a]
  <2>1. f \in [lo .. lo + 0 -> V]
    OBVIOUS
  <2>2. \A i \in lo .. lo + 0 : i = lo
    OBVIOUS
  <2>3. f = [i \in lo .. lo + 0 |-> IF i = lo THEN a ELSE step[i][f[i - 1]]]
    BY <2>2
  <2> HIDE DEF f
  <2> QED
    BY <2>1, <2>3 DEF Folded
<1>2. ASSUME NEW k \in T PROVE k + 1 \in T
  <2>1. PICK g \in [lo .. lo + k -> V] : Folded(g, lo, lo + k, a, step)
    OBVIOUS
  <2>2. g[lo + k] \in V /\ lo + k + 1 \in Nat /\ step[lo + k + 1] \in [V -> V]
    OBVIOUS
  <2> DEFINE last == step[lo + k + 1][g[lo + k]]
             f == [i \in lo .. lo + (k + 1) |-> IF i <= lo + k THEN g[i] ELSE last]
  <2>3. last \in V
    BY <2>2
  <2>4. f \in [lo .. lo + (k + 1) -> V]
    BY <2>3
  <2>5. ASSUME NEW i \in lo .. lo + (k + 1)
        PROVE  f[i] = IF i = lo THEN a ELSE step[i][f[i - 1]]
    <3>1. CASE i <= lo + k
      <4>1. /\ i \in lo .. lo + k /\ f[i] = g[i]
            /\ i # lo => i - 1 \in lo .. lo + k /\ i - 1 \in lo .. lo + (k + 1) /\ i - 1 <= lo + k
        BY <3>1
      <4>2. i # lo => f[i - 1] = g[i - 1]
        BY <4>1
      <4> HIDE DEF f
      <4>3. g[i] = IF i = lo THEN a ELSE step[i][g[i - 1]]
        BY <2>1, <4>1 DEF Folded
      <4> QED
        BY <4>1, <4>2, <4>3
    <3>2. CASE ~(i <= lo + k)
      <4>1. i = lo + k + 1 /\ i # lo /\ i - 1 = lo + k /\ i - 1 \in lo .. lo + (k + 1)
        BY <3>2
      <4>2. f[i] = last
        BY <3>2
      <4>3. f[i - 1] = g[i - 1]
        BY <4>1
      <4> HIDE DEF f
      <4> QED
        BY <4>1, <4>2, <4>3
    <3> QED
      BY <3>1, <3>2
  <2>6. Folded(f, lo, lo + (k + 1), a, step)
    <3>1. f = [i \in lo .. lo + (k + 1) |-> f[i]]
      OBVIOUS
    <3> HIDE DEF f
    <3> QED
      BY <2>5, <3>1 DEF Folded
  <2> HIDE DEF f
  <2> QED
    BY <2>4, <2>6
<1>3. T = Nat
  <2> HIDE DEF T
  <2>1. T \in SUBSET Nat
    BY DEF T
  <2> QED
    BY <1>1, <1>2, <2>1, SetInduction
<1>4. CASE lo <= hi
  <2>1. hi - lo \in Nat /\ lo + (hi - lo) = hi
    BY <1>4
  <2>2. PICK f \in [lo .. lo + (hi - lo) -> V] : Folded(f, lo, lo + (hi - lo), a, step)
    BY <1>3, <2>1
  <2> QED
    BY <2>1, <2>2
<1>5. CASE ~(lo <= hi)
  <2> DEFINE f == [i \in lo .. hi |-> a]
  <2>1. \A i \in lo .. hi : FALSE
    BY <1>5
  <2>2. f = [i \in lo .. hi |-> IF i = lo THEN a ELSE step[i][f[i - 1]]]
    BY <2>1
  <2> HIDE DEF f
  <2> QED
    BY <2>2 DEF Folded
<1> QED
  BY <1>4, <1>5

(* What a fold preserves from one position to the next, all of it has.     *)
THEOREM FoldInvariant ==
  ASSUME NEW V, NEW lo \in Nat, NEW hi \in Nat, NEW f,
         f[lo] \in V,
         \A i \in lo + 1 .. hi : f[i - 1] \in V => f[i] \in V
  PROVE  \A i \in lo .. hi : f[i] \in V
<1> DEFINE T == {k \in Nat : lo + k <= hi => f[lo + k] \in V}
<1>1. 0 \in T
  OBVIOUS
<1>2. ASSUME NEW k \in T PROVE k + 1 \in T
  <2> SUFFICES ASSUME lo + (k + 1) <= hi PROVE f[lo + (k + 1)] \in V
    OBVIOUS
  <2>1. lo + (k + 1) \in lo + 1 .. hi /\ lo + (k + 1) - 1 = lo + k
    OBVIOUS
  <2> QED
    BY <2>1
<1>3. T = Nat
  <2> HIDE DEF T
  <2>1. T \in SUBSET Nat
    BY DEF T
  <2> QED
    BY <1>1, <1>2, <2>1, SetInduction
<1>4. ASSUME NEW i \in lo .. hi PROVE f[i] \in V
  <2>1. i - lo \in Nat /\ lo + (i - lo) = i /\ i <= hi
    OBVIOUS
  <2> QED
    BY <1>3, <2>1
<1> QED
  BY <1>4

(* The same, from 0, with the type of the partial results.                 *)
THEOREM FoldTyped ==
  ASSUME NEW V, NEW a \in V, NEW n \in Nat, NEW step \in [Nat -> [V -> V]]
  PROVE  \E f \in [0 .. n -> V] : Folded(f, 0, n, a, step)
<1>1. PICK f : Folded(f, 0, n, a, step)
  BY FoldExists
<1>2. \A i \in 0 .. n : f[i] = IF i = 0 THEN a ELSE step[i][f[i - 1]]
  BY <1>1 DEF Folded
<1>3. \A i \in 0 .. n : f[i] \in V
  <2>1. f[0] \in V
    BY <1>2
  <2>2. ASSUME NEW i \in 0 + 1 .. n, f[i - 1] \in V PROVE f[i] \in V
    <3>1. i \in 0 .. n /\ i # 0 /\ i \in Nat
      OBVIOUS
    <3> QED
      BY <1>2, <2>2, <3>1
  <2> QED
    BY <2>1, <2>2, FoldInvariant
<1> QED
  BY <1>1, <1>3 DEF Folded
=============================================================================
