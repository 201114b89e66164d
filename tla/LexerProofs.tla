----------------------------- MODULE LexerProofs -----------------------------
(***************************************************************************)
(* Proofs about process_input: for files of any length, over any alphabet, *)
(* the automaton slices its input within bounds, indexes its lines, counts *)
(* the lines of its tokens, and implements the lexical grammar.            *)
(***************************************************************************)
EXTENDS LexerChecks, SequenceTheorems, FiniteSetTheorems, TLAPS

(* The tokens that end at or before a position, and whose line is that of  *)
(* the first of the offsets that is not before their end.                  *)
Lexeme(p, starts) ==
  {t \in Token :
     /\ t.start + t.len <= p /\ t.line <= Len(starts)
     /\ \A k \in 1 .. Len(starts) : IF k > t.line
                                   THEN t.start + t.len <= starts[k]
                                   ELSE starts[k] <= t.start + t.len}

(* The offsets of newlines, after a character.                             *)
StartsAt(c) == IF c = "newline" THEN Append(line_starts, position)
               ELSE line_starts

(* The offsets of newlines found before a position.                        *)
Increasing(s) == \A i, j \in 1 .. Len(s) : i < j => s[i] < s[j]

(* A token in progress starts at or before the character looked at, and a  *)
(* string has at least its opening quote behind it: the lengths computed   *)
(* by subtraction do not wrap around.                                      *)
InProgress ==
  outcome = "lexing" =>
    /\ position = Len(input)
    /\ token_start <= position
    /\ state = "IN_STRING" => token_start < position
    /\ state # "IN_ERROR"

Offsets ==
  /\ Len(line_starts) = line
  /\ \A i \in 1 .. Len(line_starts) : line_starts[i] < Len(input)
  /\ Increasing(line_starts)

IInv ==
  /\ TypeOK
  /\ InProgress
  /\ Offsets
  /\ tokens \in Seq(Lexeme(position, line_starts))

-----------------------------------------------------------------------------
(* A CASE row of the transition table, expanded once for all.              *)
LEMMA Table ==
  ASSUME NEW s \in States, NEW cl \in Classes
  PROVE  /\ transition[s][cl] \in States
         /\ cl \in {"C_symbol", "C_star"} => transition[s][cl] # "IN_ERROR"
<1>1. RowOfStart \in [Classes -> States]
  BY DEF RowOfStart, Classes, States
<1>2. \A t \in States : Staying(t) \in [Classes -> States]
  BY DEF Staying, Classes, States
<1>3. Row(s) \in [Classes -> States]
  BY <1>1, <1>2 DEF Row, States, Comment
<1>4. \A c \in {"C_symbol", "C_star"} : RowOfStart[c] # "IN_ERROR"
  BY DEF RowOfStart
<1>5. \A c \in {"C_symbol", "C_star"} : \A t : Staying(t)[c] = t
  BY DEF Staying, Classes
<1>6. \A c \in {"C_symbol", "C_star"} : Row(s)[c] # "IN_ERROR"
  BY <1>1, <1>2, <1>4, <1>5 DEF Row, States, Comment, Classes
<1> QED
  BY <1>3, <1>6 DEF transition

LEMMA KindIsKind ==
  ASSUME NEW s, NEW first, NEW len
  PROVE  determine_token_type(s, first, len) \in Kinds
  BY DEF determine_token_type, Kinds

LEMMA ClassesOfChars ==
  ASSUME NEW c \in Readable PROVE ClassesOf(c) \subseteq Classes
<1>1. c \in Chars \union {EOF}
  BY ConstantsAssumption DEF Readable
<1> QED
  BY <1>1 DEF ClassesOf, eq_class, Classes, Chars, EOF

LEMMA OneOrNone ==
  ASSUME NEW S, NEW e, NEW B \in BOOLEAN, B => e \in S
  PROVE  (IF B THEN <<e>> ELSE <<>>) \in Seq(S)
  OBVIOUS

(* The offsets a step leaves: none is behind the character it reads.       *)
LEMMA StartsFacts ==
  ASSUME IInv, outcome = "lexing", NEW c
  PROVE  /\ StartsAt(c) \in Seq(Nat) /\ Len(StartsAt(c)) = LineAt(c)
         /\ Len(line_starts) \in Nat
         /\ \A k \in 1 .. Len(StartsAt(c)) :
              StartsAt(c)[k] \in Nat /\ StartsAt(c)[k] <= position
         /\ \A k \in 1 .. Len(StartsAt(c)) :
              \/ k \in 1 .. Len(line_starts) /\ StartsAt(c)[k] = line_starts[k]
              \/ k = Len(line_starts) + 1 /\ StartsAt(c)[k] = position
         /\ Len(line_starts) <= Len(StartsAt(c))
<1>1. /\ line_starts \in Seq(Nat) /\ position \in Nat /\ Len(input) = position
      /\ Len(line_starts) = line
      /\ \A i \in 1 .. Len(line_starts) : line_starts[i] < Len(input)
  BY DEF IInv, TypeOK, InProgress, Offsets
<1>2. /\ Len(line_starts) \in Nat
      /\ \A i \in 1 .. Len(line_starts) :
           line_starts[i] \in Nat /\ line_starts[i] <= position
  BY <1>1
<1>3. CASE c = "newline"
  <2>1. StartsAt(c) = Append(line_starts, position) /\ LineAt(c) = line + 1
    BY <1>3 DEF StartsAt, LineAt
  <2>2. /\ Append(line_starts, position) \in Seq(Nat)
        /\ Len(Append(line_starts, position)) = Len(line_starts) + 1
        /\ \A i \in 1 .. Len(line_starts) :
             Append(line_starts, position)[i] = line_starts[i]
        /\ Append(line_starts, position)[Len(line_starts) + 1] = position
    BY <1>1
  <2>3. \A k \in 1 .. Len(line_starts) + 1 :
          k \in 1 .. Len(line_starts) \/ k = Len(line_starts) + 1
    BY <1>2
  <2> QED
    BY <1>1, <1>2, <2>1, <2>2, <2>3
<1>4. CASE c # "newline"
  <2>1. StartsAt(c) = line_starts /\ LineAt(c) = line
    BY <1>4 DEF StartsAt, LineAt
  <2> QED
    BY <1>1, <1>2, <2>1
<1> QED
  BY <1>3, <1>4

(* A token that a step makes ends at its character or after it.            *)
LEMMA FreshLexeme ==
  ASSUME IInv, outcome = "lexing", NEW c, NEW p \in Nat,
         NEW t \in Token, t.line = LineAt(c),
         position <= t.start + t.len, t.start + t.len <= p
  PROVE  t \in Lexeme(p, StartsAt(c))
<1>1. /\ t.line \in Nat /\ t.start + t.len \in Nat /\ position \in Nat
  BY DEF Token, IInv, TypeOK
<1>2. /\ Len(StartsAt(c)) = LineAt(c) /\ Len(StartsAt(c)) \in Nat
      /\ \A k \in 1 .. Len(StartsAt(c)) :
           StartsAt(c)[k] \in Nat /\ StartsAt(c)[k] <= position
  BY <1>1, StartsFacts
<1>3. \A k \in 1 .. Len(StartsAt(c)) :
        ~(k > t.line) /\ StartsAt(c)[k] <= t.start + t.len
  BY <1>1, <1>2
<1>4. t.line <= Len(StartsAt(c))
  BY <1>1, <1>2
<1> QED
  BY <1>3, <1>4 DEF Lexeme

(* The tokens one step makes are well formed and lie behind it.            *)
LEMMA NewTokensFacts ==
  ASSUME IInv, outcome = "lexing", NEW c, NEW class \in Classes,
         NEW next, next = transition[state][class]
  PROVE  NewTokens(c, class, next)
           \in Seq(Lexeme(IF next = "IN_ERROR" THEN position ELSE position + 1,
                          StartsAt(c)))
<1> DEFINE p == IF next = "IN_ERROR" THEN position ELSE position + 1
<1> DEFINE L == Lexeme(p, StartsAt(c))
<1>1. /\ position \in Nat /\ token_start \in Nat /\ token_start <= position
      /\ state = "IN_STRING" => token_start < position
      /\ LineAt(c) \in Nat /\ p \in Nat /\ position <= p
  BY DEF IInv, TypeOK, InProgress, LineAt
<1>2. Ended(c, next) \in Seq(L)
  <2> DEFINE first == IF state = "IN_STRING" /\ next = "START"
                      THEN token_start + 1 ELSE token_start
             t == create_token(Append(input, c), state, first,
                               position - first, LineAt(c))
  <2>1. first \in Nat /\ position - first \in Nat
    BY <1>1
  <2>2. t \in L
    <3>1. /\ t \in Token /\ t.line = LineAt(c)
          /\ t.start = first /\ t.len = position - first
      BY <1>1, <2>1, KindIsKind DEF create_token, Token
    <3>2. t.start + t.len = position
      BY <1>1, <2>1, <3>1
    <3> HIDE DEF t, p
    <3>3. position <= t.start + t.len /\ t.start + t.len <= p
      BY <1>1, <3>2
    <3> QED
      BY <1>1, <3>1, <3>3, FreshLexeme
  <2> DEFINE B == Leaves(next) /\ state \notin {"START", "IN_SYMBOL"}
  <2>3. Ended(c, next) = IF B THEN <<t>> ELSE <<>>
    BY DEF Ended
  <2>4. B \in BOOLEAN
    BY DEF Leaves
  <2> HIDE DEF t, L, B
  <2> QED
    BY <2>2, <2>3, <2>4, OneOrNone
<1>3. Alone(c, class, next) \in Seq(L)
  <2> DEFINE t == create_token(Append(input, c), "IN_SYMBOL", position, 1,
                               LineAt(c))
  <2>1. IsSymbol(class, next) => p = position + 1
    BY Table DEF IsSymbol, IInv, TypeOK
  <2>2. IsSymbol(class, next) => t \in L
    <3>1. /\ t \in Token /\ t.line = LineAt(c) /\ t.start = position /\ t.len = 1
      BY <1>1, KindIsKind DEF create_token, Token
    <3> HIDE DEF t, p
    <3>2. position <= t.start + t.len /\ t.start + t.len = position + 1
      BY <1>1, <3>1
    <3>3. IsSymbol(class, next) => t.start + t.len <= p
      BY <1>1, <2>1, <3>2
    <3> QED
      BY <1>1, <3>1, <3>2, <3>3, FreshLexeme
  <2>3. Alone(c, class, next) = IF IsSymbol(class, next) THEN <<t>> ELSE <<>>
    BY DEF Alone
  <2>4. IsSymbol(class, next) \in BOOLEAN
    BY DEF IsSymbol
  <2> HIDE DEF t, L
  <2> QED
    BY <2>2, <2>3, <2>4, OneOrNone
<1> HIDE DEF L
<1> QED
  BY <1>2, <1>3, ConcatProperties DEF NewTokens, L

(* A newline read later is behind every token made so far.                 *)
LEMMA LexemesGrow ==
  ASSUME IInv, outcome = "lexing", NEW c, NEW q \in Nat, position <= q
  PROVE  Lexeme(position, line_starts) \subseteq Lexeme(q, StartsAt(c))
<1> SUFFICES ASSUME NEW t \in Lexeme(position, line_starts)
             PROVE  t \in Lexeme(q, StartsAt(c))
  OBVIOUS
<1>1. /\ t \in Token /\ t.start + t.len <= position
      /\ t.line <= Len(line_starts)
      /\ \A k \in 1 .. Len(line_starts) : IF k > t.line
                                   THEN t.start + t.len <= line_starts[k]
                                   ELSE line_starts[k] <= t.start + t.len
  BY DEF Lexeme
<1>2. /\ t.line \in Nat /\ t.start + t.len \in Nat /\ position \in Nat
  BY <1>1 DEF Token, IInv, TypeOK
<1>3. /\ Len(line_starts) \in Nat /\ Len(StartsAt(c)) \in Nat
      /\ Len(line_starts) <= Len(StartsAt(c))
      /\ \A k \in 1 .. Len(StartsAt(c)) :
           \/ k \in 1 .. Len(line_starts) /\ StartsAt(c)[k] = line_starts[k]
           \/ k = Len(line_starts) + 1 /\ StartsAt(c)[k] = position
  <2>1. StartsAt(c) \in Seq(Nat)
    BY StartsFacts
  <2>2. Len(StartsAt(c)) \in Nat
    BY <2>1
  <2> QED
    BY <2>2, StartsFacts
<1>4. \A k \in 1 .. Len(StartsAt(c)) : IF k > t.line
                                   THEN t.start + t.len <= StartsAt(c)[k]
                                   ELSE StartsAt(c)[k] <= t.start + t.len
  <2> SUFFICES ASSUME NEW k \in 1 .. Len(StartsAt(c))
               PROVE  IF k > t.line THEN t.start + t.len <= StartsAt(c)[k]
                                    ELSE StartsAt(c)[k] <= t.start + t.len
    OBVIOUS
  <2>1. CASE k \in 1 .. Len(line_starts) /\ StartsAt(c)[k] = line_starts[k]
    BY <1>1, <2>1
  <2>2. CASE k = Len(line_starts) + 1 /\ StartsAt(c)[k] = position
    BY <1>1, <1>2, <1>3, <2>2
  <2> QED
    BY <1>3, <2>1, <2>2
<1>5. t.start + t.len <= q /\ t.line <= Len(StartsAt(c))
  BY <1>1, <1>2, <1>3
<1> QED
  BY <1>1, <1>4, <1>5 DEF Lexeme

(* What both kinds of step do to tokens, lines and offsets.                *)
LEMMA ScanFacts ==
  ASSUME IInv, outcome = "lexing", NEW c \in Readable,
         NEW class \in Classes, NEW next, next = transition[state][class],
         Scan(c, class, next),
         position' = IF next = "IN_ERROR" THEN position ELSE position + 1
  PROVE  /\ input' \in Seq(Chars \union {EOF}) /\ position' \in Nat
         /\ Len(input') = Len(input) + 1
         /\ next \in States /\ line' \in Nat /\ token_start' \in Nat
         /\ tokens' \in Seq(Lexeme(position', line_starts'))
         /\ line_starts' \in Seq(Nat)
         /\ Offsets'
<1>1. c \in Chars \union {EOF}
  BY ConstantsAssumption DEF Readable
<1>2. /\ input \in Seq(Chars \union {EOF}) /\ position \in Nat /\ line \in Nat
      /\ token_start \in Nat /\ line_starts \in Seq(Nat) /\ state \in States
      /\ tokens \in Seq(Lexeme(position, line_starts))
      /\ position = Len(input)
  BY DEF IInv, TypeOK, InProgress
<1>3. input' \in Seq(Chars \union {EOF}) /\ Len(input') = Len(input) + 1
  BY <1>1, <1>2 DEF Scan
<1>4. next \in States
  BY <1>2, Table
<1>5. line' \in Nat /\ line <= line' /\ line' = LineAt(c)
  BY <1>2 DEF Scan, LineAt
<1>6. token_start' \in Nat
  BY <1>2 DEF Scan, StartAfter
<1>7. position' \in Nat /\ position <= position'
  BY <1>2
<1>8. tokens' \in Seq(Lexeme(position', line_starts'))
  <2> DEFINE L == Lexeme(position', line_starts')
  <2>1. line_starts' = StartsAt(c)
    BY DEF Scan, StartsAt
  <2>2. tokens \in Seq(L)
    BY <1>2, <1>7, <2>1, LexemesGrow, SeqMonotonic
  <2>3. NewTokens(c, class, next) \in Seq(L)
    BY <2>1, NewTokensFacts
  <2> HIDE DEF L
  <2>4. tokens \o NewTokens(c, class, next) \in Seq(L)
    BY <2>2, <2>3, ConcatProperties
  <2> QED
    BY <2>4 DEF Scan, L
<1>9. line_starts' \in Seq(Nat) /\ Offsets'
  <2>1. CASE c = "newline"
    <3>1. line_starts' = Append(line_starts, position) /\ line' = line + 1
      BY <2>1 DEF Scan, LineAt
    <3>2. /\ line_starts' \in Seq(Nat) /\ Len(line_starts') = Len(line_starts) + 1
          /\ \A i \in 1 .. Len(line_starts) : line_starts'[i] = line_starts[i]
          /\ line_starts'[Len(line_starts) + 1] = position
      BY <1>2, <3>1
    <3>3. /\ Len(line_starts) \in Nat
          /\ \A i \in 1 .. Len(line_starts) : line_starts[i] \in Nat
      BY <1>2
    <3>4. Offsets
      BY DEF IInv
    <3>5. Len(line_starts') = line' /\ Len(line_starts) \in Nat
      BY <3>1, <3>2, <3>3, <3>4 DEF Offsets
    <3>6. \A i \in 1 .. Len(line_starts') :
            i \in 1 .. Len(line_starts) \/ i = Len(line_starts) + 1
      BY <3>2, <3>3
    <3>7. /\ \A i \in 1 .. Len(line_starts) : line_starts[i] < position
          /\ Len(input') = position + 1
      BY <1>2, <1>3, <3>4 DEF Offsets
    <3>8. \A i \in 1 .. Len(line_starts') : line_starts'[i] < Len(input')
      <4>1. \A i \in 1 .. Len(line_starts) : line_starts[i] < position + 1
        BY <1>2, <3>3, <3>7
      <4>2. \A i \in 1 .. Len(line_starts) : line_starts'[i] < Len(input')
        BY <3>2, <3>7, <4>1
      <4>3. line_starts'[Len(line_starts) + 1] < Len(input')
        BY <1>2, <3>2, <3>7
      <4> QED
        BY <3>6, <4>2, <4>3
    <3>9. Increasing(line_starts)'
      <4> SUFFICES ASSUME NEW i \in 1 .. Len(line_starts'),
                          NEW j \in 1 .. Len(line_starts'), i < j
                   PROVE  line_starts'[i] < line_starts'[j]
        BY DEF Increasing
      <4>1. i \in 1 .. Len(line_starts)
        BY <3>2, <3>3
      <4>2. CASE j = Len(line_starts) + 1
        BY <3>2, <3>7, <4>1, <4>2
      <4>3. CASE j \in 1 .. Len(line_starts)
        BY <3>2, <3>4, <4>1, <4>3 DEF Offsets, Increasing
      <4> QED
        BY <3>6, <4>2, <4>3
    <3> QED
      BY <3>2, <3>5, <3>8, <3>9 DEF Offsets
  <2>2. CASE c # "newline"
    <3>1. line_starts' = line_starts /\ line' = line
      BY <2>2 DEF Scan, LineAt
    <3>2. \A i \in 1 .. Len(line_starts) : line_starts[i] \in Nat
      BY <1>2
    <3>3. /\ Len(line_starts) = line /\ Increasing(line_starts)
          /\ \A i \in 1 .. Len(line_starts) : line_starts[i] < Len(input)
      BY DEF IInv, Offsets
    <3>4. Len(line_starts') = line' /\ Increasing(line_starts)'
      BY <3>1, <3>3 DEF Increasing
    <3>5. \A i \in 1 .. Len(line_starts) : line_starts[i] < Len(input')
      <4>1. Len(input) \in Nat /\ Len(input') = Len(input) + 1
        BY <1>2, <1>3
      <4> QED
        BY <3>2, <3>3, <4>1
    <3>6. line_starts' \in Seq(Nat)
      BY <1>2, <3>1
    <3> QED
      BY <3>1, <3>4, <3>5, <3>6 DEF Offsets
  <2> QED
    BY <2>1, <2>2
<1> QED
  BY <1>3, <1>4, <1>5, <1>6, <1>7, <1>8, <1>9

(* tokens hold nothing but tokens.                                         *)
LEMMA LexemesAreTokens ==
  ASSUME NEW p, NEW starts, NEW s \in Seq(Lexeme(p, starts))
  PROVE  s \in Seq(Token)
<1>1. Lexeme(p, starts) \subseteq Token
  BY DEF Lexeme
<1> QED
  BY <1>1, SeqMonotonic

(* Where a token in progress starts, after a step that goes on.            *)
LEMMA StartFacts ==
  ASSUME IInv, outcome = "lexing", NEW class, NEW next
  PROVE  /\ StartAfter(class, next) <= position + 1
         /\ next = "IN_STRING" => StartAfter(class, next) < position + 1
<1>1. position \in Nat /\ token_start \in Nat /\ token_start <= position
  BY DEF IInv, TypeOK, InProgress
<1>2. next = "IN_STRING" => ~IsSymbol(class, next)
  BY DEF IsSymbol
<1> QED
  BY <1>1, <1>2 DEF StartAfter

LEMMA InitInvariant == Init => IInv
  BY DEF Init, IInv, TypeOK, InProgress, Offsets, Increasing, States, Outcomes

LEMMA AdvanceInvariant ==
  ASSUME IInv, NEW c \in Readable, NEW class \in Classes, Advance(c, class)
  PROVE  IInv'
<1> DEFINE next == transition[state][class]
<1>1. /\ outcome = "lexing" /\ next # "IN_ERROR" /\ Scan(c, class, next)
      /\ position' = position + 1 /\ outcome' \in {"lexing", "ERROR_NONE"}
  BY DEF Advance
<1>2. /\ input' \in Seq(Chars \union {EOF}) /\ position' \in Nat
      /\ Len(input') = Len(input) + 1
      /\ next \in States /\ line' \in Nat /\ token_start' \in Nat
      /\ tokens' \in Seq(Lexeme(position', line_starts'))
      /\ line_starts' \in Seq(Nat)
      /\ Offsets'
  <2> HIDE DEF next
  <2> QED
    BY <1>1, ScanFacts DEF next
<1>3. state' = next /\ token_start' = StartAfter(class, next)
  BY <1>1 DEF Scan
<1>4. InProgress'
  <2>1. position \in Nat /\ position = Len(input) /\ Len(input') = position'
    BY <1>1, <1>2 DEF IInv, TypeOK, InProgress
  <2>2. /\ StartAfter(class, next) <= position + 1
        /\ next = "IN_STRING" => StartAfter(class, next) < position + 1
    BY <1>1, StartFacts
  <2> HIDE DEF next
  <2> QED
    BY <1>1, <1>3, <2>1, <2>2 DEF InProgress
<1>5. TypeOK'
  <2> HIDE DEF next
  <2>1. tokens' \in Seq(Token)
    BY <1>2, LexemesAreTokens
  <2> QED
    BY <1>1, <1>2, <1>3, <2>1 DEF TypeOK, Outcomes
<1> QED
  BY <1>2, <1>4, <1>5 DEF IInv

LEMMA FailInvariant ==
  ASSUME IInv, NEW c \in Readable, NEW class \in Classes, Fail(c, class)
  PROVE  IInv'
<1> DEFINE next == transition[state][class]
<1>1. /\ outcome = "lexing" /\ next = "IN_ERROR" /\ Scan(c, class, next)
      /\ position' = position /\ outcome' = ErrorCode(c)
  BY DEF Fail
<1>2. /\ input' \in Seq(Chars \union {EOF}) /\ position' \in Nat
      /\ next \in States /\ line' \in Nat /\ token_start' \in Nat
      /\ tokens' \in Seq(Lexeme(position', line_starts'))
      /\ line_starts' \in Seq(Nat)
      /\ Offsets'
  <2> HIDE DEF next
  <2> QED
    BY <1>1, ScanFacts DEF next
<1>3. outcome' \in Outcomes \ {"lexing"}
  BY <1>1 DEF ErrorCode, Outcomes
<1>4. state' = next
  BY <1>1 DEF Scan
<1>5. tokens' \in Seq(Token)
  BY <1>2, LexemesAreTokens
<1> HIDE DEF next
<1> QED
  BY <1>2, <1>3, <1>4, <1>5 DEF IInv, TypeOK, InProgress

LEMMA StepInvariant == IInv /\ [Next]_vars => IInv'
<1> SUFFICES ASSUME IInv, [Next]_vars PROVE IInv'
  OBVIOUS
<1>1. ASSUME NEW c \in Readable, NEW class \in ClassesOf(c),
             Advance(c, class) \/ Fail(c, class)
      PROVE  IInv'
  BY <1>1, AdvanceInvariant, FailInvariant, ClassesOfChars
<1>2. ASSUME NEW c \in Readable, NEW class \in ClassesOf(c), Refused(c, class)
      PROVE  IInv'
  BY <1>2 DEF Refused, IInv, TypeOK, InProgress, Offsets, Increasing, Outcomes
<1>3. ASSUME NEW c \in Readable, Strays(c) PROVE IInv'
  BY <1>3 DEF Strays, IInv, TypeOK, InProgress, Offsets, Increasing, Outcomes
<1>4. CASE UNCHANGED vars
  BY <1>4 DEF vars, IInv, TypeOK, InProgress, Offsets, Increasing
<1> QED
  BY <1>1, <1>2, <1>3, <1>4 DEF Next

-----------------------------------------------------------------------------
(* The strengthened invariant of process_input.                            *)
THEOREM InductiveInvariant == Spec => []IInv
  BY InitInvariant, StepInvariant, PTL DEF Spec

(* Types hold, and no length wraps around below zero (lines 276-277).      *)
THEOREM TypeCorrect == Spec => []TypeOK
<1>1. IInv => TypeOK
  BY DEF IInv
<1> QED
  BY <1>1, InductiveInvariant, PTL

(* strndup never reads past the characters scanned (line 232).             *)
THEOREM LexemesAreInBounds == Spec => []LexemesInBounds
<1>1. IInv => LexemesInBounds
  <2> SUFFICES ASSUME IInv, NEW i \in 1 .. Len(tokens)
               PROVE  tokens[i].start + tokens[i].len <= position
    BY DEF LexemesInBounds
  <2>1. tokens[i] \in Lexeme(position, line_starts)
    BY ElementOfSeq DEF IInv
  <2> QED
    BY <2>1 DEF Lexeme
<1> QED
  BY <1>1, InductiveInvariant, PTL

(* There is one increasing offset per newline, and the entry that the line *)
(* of a token indexes, where there is one, is that of the first newline    *)
(* behind the token; the tokens behind the last newline, or ended by it,   *)
(* have none (lines 259-264).                                              *)
THEOREM LinesAreIndexed == Spec => []LinesIndexed
<1>1. IInv => LinesIndexed
  <2> SUFFICES ASSUME IInv PROVE LinesIndexed
    OBVIOUS
  <2>1. Len(line_starts) = line
    BY DEF IInv, Offsets
  <2>2. \A i \in 1 .. Len(line_starts) : line_starts[i] < Len(input)
    BY DEF IInv, Offsets
  <2>3. \A i, j \in 1 .. Len(line_starts) :
          i < j => line_starts[i] < line_starts[j]
    BY DEF IInv, Offsets, Increasing
  <2>4. \A i \in 1 .. Len(tokens) : tokens[i] \in Lexeme(position, line_starts)
    BY ElementOfSeq DEF IInv
  <2>5. \A i \in 1 .. Len(tokens) : tokens[i].line <= line
    BY <2>1, <2>4 DEF Lexeme
  <2>6. \A i \in 1 .. Len(tokens), k \in 1 .. Len(line_starts) :
          IF k > tokens[i].line
          THEN tokens[i].start + tokens[i].len <= line_starts[k]
          ELSE line_starts[k] <= tokens[i].start + tokens[i].len
    BY <2>4 DEF Lexeme
  <2> QED
    BY <2>1, <2>2, <2>3, <2>5, <2>6 DEF LinesIndexed
<1> QED
  BY <1>1, InductiveInvariant, PTL

-----------------------------------------------------------------------------
(* The lines of tokens.                                                    *)
Newlines(text, k) == {i \in 1 .. k : text[i] = "newline"}

Count(text, k) == Cardinality(Newlines(text, k))

LEMMA CountIsNat ==
  ASSUME NEW text, NEW k \in Nat
  PROVE  IsFiniteSet(Newlines(text, k)) /\ Count(text, k) \in Nat
<1>1. IsFiniteSet(1 .. k) /\ Newlines(text, k) \subseteq 1 .. k
  BY FS_Interval DEF Newlines
<1>2. IsFiniteSet(Newlines(text, k))
  BY <1>1, FS_Subset
<1> QED
  BY <1>2, FS_CardinalityType DEF Count

(* Texts that agree have the same newlines.                                *)
LEMMA CountAgrees ==
  ASSUME NEW s, NEW t, NEW j \in Nat, NEW k \in Nat, j <= k,
         \A i \in 1 .. j : s[i] = t[i],
         \A i \in j + 1 .. k : t[i] # "newline"
  PROVE  Count(s, j) = Count(t, k)
<1>1. Newlines(s, j) = Newlines(t, k)
  <2>1. \A i \in 1 .. k : i \in 1 .. j \/ i \in j + 1 .. k
    OBVIOUS
  <2>2. \A i \in 1 .. j : i \in 1 .. k
    OBVIOUS
  <2> QED
    BY <2>1, <2>2 DEF Newlines
<1> QED
  BY <1>1 DEF Count

LEMMA CountOfOther ==
  ASSUME NEW s, NEW t, NEW k \in Nat, \A i \in 1 .. k : s[i] = t[i], t[k + 1] # "newline"
  PROVE  Count(s, k) = Count(t, k + 1)
<1>1. PICK n \in Nat : n = k + 1 /\ k <= n
  OBVIOUS
<1>2. \A i \in k + 1 .. n : t[i] # "newline"
  <2>1. \A i \in k + 1 .. n : i = k + 1
    BY <1>1
  <2> QED
    BY <2>1
<1>3. Count(s, k) = Count(t, n)
  BY <1>1, <1>2, CountAgrees
<1> QED
  BY <1>1, <1>3

LEMMA CountOfNewline ==
  ASSUME NEW s, NEW t, NEW k \in Nat, \A i \in 1 .. k : s[i] = t[i], t[k + 1] = "newline"
  PROVE  Count(t, k + 1) = Count(s, k) + 1
<1>1. Newlines(t, k + 1) = Newlines(s, k) \union {k + 1} /\ k + 1 \notin Newlines(s, k)
  <2>1. \A i \in 1 .. k + 1 : i \in 1 .. k \/ i = k + 1
    OBVIOUS
  <2>2. \A i \in 1 .. k : i \in 1 .. k + 1 /\ i # k + 1
    OBVIOUS
  <2>3. k + 1 \in 1 .. k + 1
    OBVIOUS
  <2> QED
    BY <2>1, <2>2, <2>3 DEF Newlines
<1> QED
  BY <1>1, CountIsNat, FS_AddElement DEF Count

Words == {"IN_ID", "IN_NUM", "COMMENT_START", "IN_STRING"}

(* What is known of the word or string in progress: it has no newline in   *)
(* it.                                                                     *)
WordInProgress ==
  /\ \A i \in 1 .. Len(input) : input[i] # EOF
  /\ state \in Words =>
       /\ token_start < position
       /\ input[token_start + 1] # "!"
       /\ \A i \in token_start + 1 .. position : input[i] # "newline"
  /\ state = "COMMENT_START" => input[position] = "/"
  /\ state = "IN_SYMBOL" => token_start = position

(* A token that the character after it has ended.                          *)
LineOfEnded(t, text) ==
  /\ t.start + t.len < Len(text)
  /\ t.kind \in {"ID", "NUM", "STRING", "UNRECOGNISED"} \/ text[t.start + 1] = "/"
  /\ text[t.start + 1] # "!"
  /\ t.line = Count(text, t.start)
                + (IF text[t.start + t.len + 1] = "newline" THEN 1 ELSE 0)

(* A symbol that is a token by itself.                                     *)
LineOfAlone(t, text) ==
  /\ t.start < Len(text)
  /\ text[t.start + 1] = "!" \/ (t.kind = "SYMBOL" /\ text[t.start + 1] # "/")
  /\ t.line = Count(text, t.start)

(* A string that its quote has closed.                                     *)
LineOfClosed(t, text) ==
  /\ t.start + t.len < Len(text)
  /\ text[t.start + t.len + 1] = "quote"
  /\ t.line = Count(text, t.start)

OnLine(t, text) ==
  LineOfEnded(t, text) \/ LineOfAlone(t, text) \/ LineOfClosed(t, text)

LineInv ==
  Ascii =>
    /\ outcome = "lexing" => WordInProgress
    /\ line = Count(input, Len(input))
    /\ \A i \in 1 .. Len(tokens) : OnLine(tokens[i], input)


(* The classes of the characters that matter here.                         *)
LEMMA ClassOfAscii ==
  ASSUME NEW c \in Chars \union {EOF}, c # "wide", NEW class \in ClassesOf(c)
  PROVE  /\ class \in Classes
         /\ class = "C_newline" <=> c = "newline"
         /\ class = "C_slash" <=> c = "/"
         /\ class = "C_double_quote" => c = "quote"
         /\ class = "C_alpha" => c = "a"
         /\ class = "C_digit" => c = "1"
         /\ class = "C_star" => c = "*"
         /\ class = "C_symbol" => c \in {"(", "!"}
BY DEF ClassesOf, eq_class, Classes, Chars, EOF

(* The rows of the table, as far as words and symbols go.                  *)
LEMMA Rows ==
  ASSUME NEW s \in States, s # "IN_ERROR", NEW class \in Classes,
         NEW next, next = transition[s][class]
  PROVE  /\ next = "IN_ID" => class \in {"C_alpha", "C_digit"} /\ s \notin Comment \union {"IN_STRING"}
         /\ next = "IN_ID" /\ s # "IN_ID" => class = "C_alpha"
         /\ next = "IN_NUM" => class = "C_digit" /\ s \notin Comment \union {"IN_STRING", "IN_ID"}
         /\ next = "COMMENT_START" => class = "C_slash" /\ s \notin Comment \union {"IN_STRING", "COMMENT_START"}
         /\ next = "IN_SYMBOL" => class \in {"C_star", "C_symbol"}
         /\ next = "IN_STRING" => s \notin Comment /\ class # "C_newline"
         /\ next = "IN_STRING" /\ s # "IN_STRING" => class = "C_double_quote"
         /\ next = "START" /\ s = "IN_STRING" => class = "C_double_quote"
<1>1. next = Row(s)[class]
  BY DEF transition
<1>2. CASE s = "START" \/ s = "IN_SYMBOL"
  BY <1>1, <1>2 DEF Row, RowOfStart, Classes, Comment
<1>3. CASE s = "IN_ID"
  BY <1>1, <1>3 DEF Row, RowOfStart, Classes, Comment
<1>4. CASE s = "IN_NUM"
  BY <1>1, <1>4 DEF Row, RowOfStart, Classes, Comment
<1>5. CASE s = "COMMENT_START"
  BY <1>1, <1>5 DEF Row, RowOfStart, Classes, Comment
<1>6. CASE s \in Comment \union {"IN_STRING"}
  BY <1>1, <1>6 DEF Row, Staying, Classes, Comment
<1> QED
  BY <1>2, <1>3, <1>4, <1>5, <1>6 DEF States

(* One more character leaves what is known of the tokens there are.        *)
LEMMA OnLineStays ==
  ASSUME NEW text, NEW more, NEW t \in Token, OnLine(t, text),
         Len(text) \in Nat, Len(text) <= Len(more), Len(more) \in Nat,
         \A i \in 1 .. Len(text) : more[i] = text[i]
  PROVE  OnLine(t, more)
<1>1. t.start \in Nat /\ t.len \in Nat
  BY DEF Token
<1>2. t.start <= Len(text) => Count(text, t.start) = Count(more, t.start)
  <2> SUFFICES ASSUME t.start <= Len(text) PROVE Count(text, t.start) = Count(more, t.start)
    OBVIOUS
  <2>1. /\ \A i \in 1 .. t.start : text[i] = more[i]
        /\ \A i \in t.start + 1 .. t.start : more[i] # "newline"
    BY <1>1
  <2> QED
    BY <1>1, <2>1, CountAgrees
<1>3. CASE LineOfEnded(t, text)
  <2>1. t.start + 1 \in 1 .. Len(text) /\ t.start + t.len + 1 \in 1 .. Len(text)
        /\ t.start + t.len < Len(more)
    BY <1>1, <1>3 DEF LineOfEnded
  <2> QED
    BY <1>1, <1>2, <1>3, <2>1 DEF LineOfEnded, OnLine
<1>4. CASE LineOfAlone(t, text)
  <2>1. t.start + 1 \in 1 .. Len(text) /\ t.start < Len(more)
    BY <1>1, <1>4 DEF LineOfAlone
  <2> QED
    BY <1>1, <1>2, <1>4, <2>1 DEF LineOfAlone, OnLine
<1>5. CASE LineOfClosed(t, text)
  <2>1. /\ t.start <= Len(text) /\ t.start + t.len + 1 \in 1 .. Len(text)
        /\ t.start + t.len < Len(more)
    BY <1>1, <1>5 DEF LineOfClosed
  <2> QED
    BY <1>1, <1>2, <1>5, <2>1 DEF LineOfClosed, OnLine
<1> QED
  BY <1>3, <1>4, <1>5 DEF OnLine

(* The token that ends before a character.                                 *)
LEMMA LineOfTheEnded ==
  ASSUME IInv, WordInProgress, outcome = "lexing", NEW c, NEW next,
         line = Count(input, Len(input)), state \in Words
  PROVE  OnLine(create_token(Append(input, c), state, token_start,
                             position - token_start, LineAt(c)), Append(input, c))
<1> DEFINE more == Append(input, c)
           t == create_token(more, state, token_start, position - token_start, LineAt(c))
<1>1. /\ input \in Seq(Chars \union {EOF}) /\ position = Len(input) /\ position \in Nat
      /\ token_start \in Nat /\ token_start < position
  BY DEF IInv, TypeOK, InProgress, WordInProgress
<1>2. /\ Len(more) = position + 1 /\ more[position + 1] = c
      /\ \A i \in 1 .. position : more[i] = input[i]
  BY <1>1
<1>3. /\ t.start = token_start /\ t.len = position - token_start /\ t.line = LineAt(c)
      /\ t.kind = determine_token_type(state, more[token_start + 1], position - token_start)
  BY DEF create_token
<1> HIDE DEF more, t
<1>4. t.start + t.len = position /\ token_start + 1 \in 1 .. position
  BY <1>1, <1>3
<1>5. more[token_start + 1] # "!"
  BY <1>2, <1>4 DEF WordInProgress
<1>6. t.kind \in {"ID", "NUM", "STRING", "UNRECOGNISED"} \/ more[token_start + 1] = "/"
  <2>1. CASE state \in {"IN_ID", "IN_NUM", "IN_STRING"}
    BY <1>3, <2>1 DEF determine_token_type
  <2>2. CASE state = "COMMENT_START" /\ position - token_start = 1
    <3>1. token_start + 1 = position
      BY <1>1, <2>2
    <3> QED
      BY <1>2, <1>4, <2>2, <3>1 DEF WordInProgress
  <2>3. CASE state = "COMMENT_START" /\ position - token_start # 1
    BY <1>3, <2>3 DEF determine_token_type
  <2> QED
    BY <2>1, <2>2, <2>3 DEF Words
<1>7. Count(more, token_start) = Count(input, position)
  <2>1. /\ \A i \in 1 .. token_start : more[i] = input[i]
        /\ \A i \in token_start + 1 .. position : input[i] # "newline"
    BY <1>1, <1>2 DEF WordInProgress
  <2> QED
    BY <1>1, <2>1, CountAgrees
<1>8. t.line = Count(more, t.start) + (IF more[t.start + t.len + 1] = "newline" THEN 1 ELSE 0)
  BY <1>1, <1>2, <1>3, <1>4, <1>7, CountIsNat DEF LineAt
<1> QED
  BY <1>1, <1>2, <1>3, <1>4, <1>5, <1>6, <1>8 DEF OnLine, LineOfEnded, more, t

(* The string that a quote closes.                                         *)
LEMMA LineOfTheClosed ==
  ASSUME IInv, WordInProgress, outcome = "lexing", NEW c, c = "quote",
         line = Count(input, Len(input)), state = "IN_STRING"
  PROVE  OnLine(create_token(Append(input, c), state, token_start + 1,
                             position - (token_start + 1), LineAt(c)), Append(input, c))
<1> DEFINE more == Append(input, c)
           first == token_start + 1
           t == create_token(more, state, first, position - first, LineAt(c))
<1>1. /\ input \in Seq(Chars \union {EOF}) /\ position = Len(input) /\ position \in Nat
      /\ token_start \in Nat /\ token_start < position
  BY DEF IInv, TypeOK, InProgress, WordInProgress, Words
<1>2. /\ Len(more) = position + 1 /\ more[position + 1] = c
      /\ \A i \in 1 .. position : more[i] = input[i]
  BY <1>1
<1>3. t.start = first /\ t.len = position - first /\ t.line = LineAt(c)
  BY DEF create_token
<1>4. first \in Nat /\ first <= position /\ first = token_start + 1
  BY <1>1
<1> HIDE DEF more, t, first
<1>5. t.start + t.len = position
  BY <1>1, <1>3, <1>4
<1>6. Count(more, first) = Count(input, position)
  <2>1. \A i \in token_start + 1 .. position : input[i] # "newline"
    BY DEF WordInProgress, Words
  <2>2. /\ \A i \in 1 .. first : more[i] = input[i]
        /\ \A i \in first + 1 .. position : input[i] # "newline"
    BY <1>1, <1>2, <1>4, <2>1
  <2> QED
    BY <1>1, <1>4, <2>2, CountAgrees
<1>7. t.line = Count(more, t.start)
  BY <1>1, <1>3, <1>6 DEF LineAt
<1> QED
  BY <1>1, <1>2, <1>5, <1>7 DEF OnLine, LineOfClosed, more, t, first

LEMMA LineOfTheAlone ==
  ASSUME IInv, WordInProgress, outcome = "lexing", NEW c \in {"(", "!", "*"},
         line = Count(input, Len(input))
  PROVE  OnLine(create_token(Append(input, c), "IN_SYMBOL", position, 1, LineAt(c)),
                Append(input, c))
<1> DEFINE more == Append(input, c)
           t == create_token(more, "IN_SYMBOL", position, 1, LineAt(c))
<1>1. input \in Seq(Chars \union {EOF}) /\ position = Len(input) /\ position \in Nat
  BY DEF IInv, TypeOK, InProgress
<1>2. /\ Len(more) = position + 1 /\ more[position + 1] = c
      /\ \A i \in 1 .. position : more[i] = input[i]
  BY <1>1
<1>3. /\ t.start = position /\ t.line = LineAt(c)
      /\ t.kind = determine_token_type("IN_SYMBOL", more[position + 1], 1)
  BY DEF create_token
<1> HIDE DEF more, t
<1>4. c = "!" \/ (t.kind = "SYMBOL" /\ c # "/")
  BY <1>2, <1>3 DEF determine_token_type
<1>5. Count(more, position) = Count(input, position)
  <2>1. /\ \A i \in 1 .. position : more[i] = input[i]
        /\ \A i \in position + 1 .. position : input[i] # "newline"
    BY <1>1, <1>2
  <2> QED
    BY <1>1, <2>1, CountAgrees
<1>6. LineAt(c) = line
  BY DEF LineAt
<1> QED
  BY <1>1, <1>2, <1>3, <1>4, <1>5, <1>6 DEF OnLine, LineOfAlone, more, t

LEMMA ScanOnLine ==
  ASSUME IInv, LineInv, outcome = "lexing", Ascii', NEW c \in Readable,
         NEW class \in ClassesOf(c), NEW next, next = transition[state][class],
         Scan(c, class, next),
         position' = IF next = "IN_ERROR" THEN position ELSE position + 1
  PROVE  /\ WordInProgress /\ c # "wide" /\ c \in Chars \union {EOF}
         /\ line' = Count(input', Len(input'))
         /\ \A i \in 1 .. Len(tokens') : OnLine(tokens'[i], input')
<1>1. /\ input \in Seq(Chars \union {EOF}) /\ position = Len(input) /\ position \in Nat
      /\ tokens \in Seq(Token) /\ state \in States /\ state # "IN_ERROR"
  BY DEF IInv, TypeOK, InProgress
<1>2. c \in Chars \union {EOF}
  BY ConstantsAssumption DEF Readable
<1> DEFINE more == Append(input, c)
<1>3. /\ Len(more) = position + 1 /\ more[position + 1] = c
      /\ \A i \in 1 .. position : more[i] = input[i]
      /\ input' = more
  BY <1>1, <1>2 DEF Scan
<1> HIDE DEF more
<1>4. c # "wide" /\ Ascii
  <2>1. position + 1 \in 1 .. Len(input')
    BY <1>1, <1>3
  <2>2. \A i \in 1 .. Len(input) : i \in 1 .. Len(input')
    BY <1>1, <1>3
  <2> QED
    BY <1>1, <1>3, <2>1, <2>2 DEF Ascii
<1>5. /\ WordInProgress /\ line = Count(input, Len(input))
      /\ \A i \in 1 .. Len(tokens) : OnLine(tokens[i], input)
  BY <1>4 DEF LineInv
<1>6. line' = Count(input', Len(input'))
  <2>1. CASE c = "newline"
    <3>1. line' = line + 1
      BY <2>1 DEF Scan, LineAt
    <3>2. \A i \in 1 .. position : input[i] = more[i]
      BY <1>3
    <3>3. Count(more, position + 1) = Count(input, position) + 1
      BY <1>1, <1>3, <2>1, <3>2, CountOfNewline
    <3> QED
      BY <1>1, <1>3, <1>5, <3>1, <3>3
  <2>2. CASE c # "newline"
    <3>1. line' = line
      BY <2>2 DEF Scan, LineAt
    <3>2. (\A i \in 1 .. position : input[i] = more[i]) /\ more[position + 1] # "newline"
      BY <1>3, <2>2
    <3>3. Count(input, position) = Count(more, position + 1)
      BY <1>1, <3>2, CountOfOther
    <3> QED
      BY <1>1, <1>3, <1>5, <3>1, <3>3
  <2> QED
    BY <2>1, <2>2
<1> DEFINE T == {t \in Token : OnLine(t, more)}
<1>7. tokens \in Seq(T)
  <2>1. ASSUME NEW i \in 1 .. Len(tokens) PROVE tokens[i] \in T
    <3>1. tokens[i] \in Token /\ OnLine(tokens[i], input)
      BY <1>1, <1>5, ElementOfSeq
    <3>2. \A j \in 1 .. Len(input) : more[j] = input[j]
      BY <1>1, <1>3
    <3>3. Len(input) \in Nat /\ Len(input) <= Len(more) /\ Len(more) \in Nat
      BY <1>1, <1>3
    <3> QED
      BY <3>1, <3>2, <3>3, OnLineStays
  <2> HIDE DEF T
  <2> QED
    BY <1>1, <2>1, SeqDef
<1>8. Ended(c, next) \in Seq(T) /\ Alone(c, class, next) \in Seq(T)
  <2> DEFINE start == IF state = "IN_STRING" /\ next = "START"
                      THEN token_start + 1 ELSE token_start
             t == create_token(more, state, start, position - start, LineAt(c))
             u == create_token(more, "IN_SYMBOL", position, 1, LineAt(c))
             B == Leaves(next) /\ state \notin {"START", "IN_SYMBOL"}
  <2>1. /\ B => t \in Token
        /\ IsSymbol(class, next) => u \in Token
    <3>1. /\ token_start \in Nat /\ token_start <= position /\ LineAt(c) \in Nat
          /\ state = "IN_STRING" => token_start < position
      BY DEF IInv, TypeOK, InProgress, LineAt
    <3>2. start \in Nat /\ position - start \in Nat
      BY <1>1, <3>1
    <3> HIDE DEF start
    <3> QED
      BY <1>1, <3>1, <3>2, KindIsKind DEF create_token, Token
  <2>2. B => OnLine(t, more)
    <3> SUFFICES ASSUME B PROVE OnLine(t, more)
      OBVIOUS
    <3>1. state \in Words
      BY <1>1 DEF Leaves, States, Words
    <3>2. CASE state = "IN_STRING" /\ next = "START"
      <4>1. start = token_start + 1
        BY <3>2
      <4>2. class = "C_double_quote"
        BY <1>1, <1>2, <1>4, <3>2, Rows, ClassOfAscii
      <4>3. c = "quote"
        BY <1>2, <1>4, <4>2, ClassOfAscii
      <4>4. OnLine(create_token(more, state, token_start + 1, position - (token_start + 1), LineAt(c)), more)
        BY <1>5, <3>2, <4>3, LineOfTheClosed DEF more
      <4> HIDE DEF start
      <4> QED
        BY <4>1, <4>4
    <3>3. CASE ~(state = "IN_STRING" /\ next = "START")
      <4>1. start = token_start
        BY <3>3
      <4>2. OnLine(create_token(more, state, token_start, position - token_start, LineAt(c)), more)
        BY <1>5, <3>1, LineOfTheEnded DEF more
      <4> HIDE DEF start
      <4> QED
        BY <4>1, <4>2
    <3> QED
      BY <3>2, <3>3
  <2>3. IsSymbol(class, next) => OnLine(u, more)
    <3> SUFFICES ASSUME IsSymbol(class, next) PROVE OnLine(u, more)
      OBVIOUS
    <3>1. c \in {"(", "!", "*"}
      BY <1>2, <1>4, ClassOfAscii DEF IsSymbol
    <3> QED
      BY <1>5, <3>1, LineOfTheAlone DEF more
  <2>4. /\ Ended(c, next) = IF B THEN <<t>> ELSE <<>>
        /\ Alone(c, class, next) = IF IsSymbol(class, next) THEN <<u>> ELSE <<>>
    BY DEF Ended, Alone, more
  <2>5. B \in BOOLEAN /\ IsSymbol(class, next) \in BOOLEAN
    BY DEF Leaves, IsSymbol
  <2>6. (B => t \in T) /\ (IsSymbol(class, next) => u \in T)
    <3> HIDE DEF t, u, B
    <3> QED
      BY <2>1, <2>2, <2>3
  <2> HIDE DEF t, u, B, T
  <2> QED
    BY <2>4, <2>5, <2>6, OneOrNone
<1>9. \A i \in 1 .. Len(tokens') : tokens'[i] \in T
  <2>1. tokens' = tokens \o (Ended(c, next) \o Alone(c, class, next))
    BY DEF Scan, NewTokens
  <2> HIDE DEF T
  <2>2. tokens' \in Seq(T)
    BY <1>7, <1>8, <2>1, ConcatProperties
  <2> QED
    BY <2>2, ElementOfSeq
<1> QED
  BY <1>2, <1>3, <1>4, <1>5, <1>6, <1>9

LEMMA WordGoesOn ==
  ASSUME IInv, WordInProgress, outcome = "lexing", NEW c \in Chars, c # "wide",
         NEW class \in ClassesOf(c), Advance(c, class), position' = position + 1
  PROVE  WordInProgress'
<1> DEFINE more == Append(input, c)
           next == transition[state][class]
<1>1. /\ input \in Seq(Chars \union {EOF}) /\ position = Len(input) /\ position \in Nat
      /\ state \in States /\ state # "IN_ERROR" /\ token_start \in Nat /\ token_start <= position
  BY DEF IInv, TypeOK, InProgress
<1>2. /\ Len(more) = position + 1 /\ more[position + 1] = c
      /\ \A i \in 1 .. position : more[i] = input[i]
      /\ input' = more /\ state' = next /\ token_start' = StartAfter(class, next)
  BY <1>1 DEF Advance, Scan
<1> HIDE DEF more
<1>3. c # EOF
  BY DEF Chars, EOF
<1>4. \A i \in 1 .. position + 1 : i \in 1 .. position \/ i = position + 1
  BY <1>1
<1>5. \A i \in 1 .. Len(input') : input'[i] # EOF
  BY <1>1, <1>2, <1>3, <1>4 DEF WordInProgress
<1>6. /\ class \in Classes
      /\ next = "IN_ID" => class \in {"C_alpha", "C_digit"} /\ state \notin Comment \union {"IN_STRING"}
      /\ next = "IN_ID" /\ state # "IN_ID" => class = "C_alpha"
      /\ next = "IN_NUM" => class = "C_digit" /\ state \notin Comment \union {"IN_STRING", "IN_ID"}
      /\ next = "COMMENT_START" =>
           class = "C_slash" /\ state \notin Comment \union {"IN_STRING", "COMMENT_START"}
      /\ next = "IN_SYMBOL" => class \in {"C_star", "C_symbol"}
      /\ next = "IN_STRING" => state \notin Comment /\ class # "C_newline"
      /\ next = "IN_STRING" /\ state # "IN_STRING" => class = "C_double_quote"
      /\ class = "C_newline" <=> c = "newline"
      /\ class = "C_double_quote" => c = "quote"
      /\ class = "C_slash" => c = "/"
      /\ class = "C_alpha" => c = "a"
      /\ class = "C_digit" => c = "1"
  BY <1>1, Rows, ClassOfAscii
<1>7. next \in Words =>
        /\ token_start' < position'
        /\ input'[token_start' + 1] # "!"
        /\ \A i \in token_start' + 1 .. position' : input'[i] # "newline"
  <2> HIDE DEF next
  <2> SUFFICES ASSUME next \in Words
               PROVE  /\ token_start' < position'
                      /\ input'[token_start' + 1] # "!"
                      /\ \A i \in token_start' + 1 .. position' : input'[i] # "newline"
    OBVIOUS
  <2>1. c # "newline" /\ ~IsSymbol(class, next)
    BY <1>6 DEF Words, IsSymbol
  <2>2. CASE token_start' = position
    <3>1. CASE next = "IN_STRING" /\ state = "IN_STRING"
      <4>1. token_start' = token_start
        BY <1>2, <2>1, <3>1 DEF StartAfter, Leaves
      <4>2. token_start < position
        BY <3>1 DEF WordInProgress, Words
      <4> QED
        BY <1>1, <2>2, <4>1, <4>2
    <3>2. CASE ~(next = "IN_STRING" /\ state = "IN_STRING")
      <4>1. c # "!"
        BY <1>6, <3>2 DEF Words
      <4> QED
        BY <1>1, <1>2, <2>1, <2>2, <4>1
    <3> QED
      BY <3>1, <3>2
  <2>3. CASE token_start' # position
    <3>1. token_start' = token_start
      BY <1>2, <2>1, <2>3 DEF StartAfter
    <3>2. state \notin {"START", "COMMENT_START"}
      BY <1>2, <1>6, <2>1, <2>3 DEF StartAfter, Leaves, Words, Comment
    <3>3. state \in Words
      BY <1>1, <1>6, <2>3, <3>1, <3>2 DEF States, Words, WordInProgress
    <3>4. /\ token_start < position /\ input[token_start + 1] # "!"
          /\ \A i \in token_start + 1 .. position : input[i] # "newline"
      BY <3>3 DEF WordInProgress
    <3>5. token_start + 1 \in 1 .. position
      BY <1>1, <3>4
    <3>6. \A i \in token_start + 1 .. position + 1 :
            i = position + 1 \/ (i \in token_start + 1 .. position /\ i \in 1 .. position)
      BY <1>1
    <3> QED
      BY <1>1, <1>2, <2>1, <3>1, <3>4, <3>5, <3>6
  <2> QED
    BY <2>2, <2>3
<1>8. next = "COMMENT_START" => input'[position'] = "/"
  BY <1>2, <1>6
<1>9. next = "IN_SYMBOL" => token_start' = position'
  BY <1>1, <1>2, <1>6 DEF StartAfter, IsSymbol, Comment
<1> HIDE DEF next
<1> QED
  BY <1>2, <1>5, <1>7, <1>8, <1>9 DEF WordInProgress

LEMMA LineStep == IInv /\ LineInv /\ [Next]_vars => LineInv'
<1> SUFFICES ASSUME IInv, LineInv, [Next]_vars, Ascii'
             PROVE  /\ (outcome = "lexing" => WordInProgress)'
                    /\ line' = Count(input', Len(input'))
                    /\ \A i \in 1 .. Len(tokens') : OnLine(tokens'[i], input')
  BY DEF LineInv
<1>1. ASSUME NEW c \in Readable, NEW class \in ClassesOf(c),
             Advance(c, class) \/ Fail(c, class)
      PROVE  /\ (outcome = "lexing" => WordInProgress)'
             /\ line' = Count(input', Len(input'))
             /\ \A i \in 1 .. Len(tokens') : OnLine(tokens'[i], input')
  <2> DEFINE next == transition[state][class]
  <2>1. /\ outcome = "lexing" /\ Scan(c, class, next)
        /\ position' = IF next = "IN_ERROR" THEN position ELSE position + 1
    BY <1>1 DEF Advance, Fail
  <2>2. /\ WordInProgress /\ c # "wide" /\ c \in Chars \union {EOF}
        /\ line' = Count(input', Len(input'))
        /\ \A i \in 1 .. Len(tokens') : OnLine(tokens'[i], input')
    <3> HIDE DEF next
    <3> QED
      BY <2>1, ScanOnLine DEF next
  <2>3. outcome' = "lexing" => Advance(c, class) /\ position' = position + 1 /\ c # EOF
    BY <1>1 DEF Advance, Fail, ErrorCode
  <2>4. outcome' = "lexing" => WordInProgress'
    BY <2>1, <2>2, <2>3, WordGoesOn
  <2> QED
    BY <2>2, <2>4
<1>2. ASSUME NEW c \in Readable, NEW class \in ClassesOf(c), Refused(c, class)
      PROVE  /\ (outcome = "lexing" => WordInProgress)'
             /\ line' = Count(input', Len(input'))
             /\ \A i \in 1 .. Len(tokens') : OnLine(tokens'[i], input')
  <2>1. /\ outcome' # "lexing" /\ input' = input /\ line' = line /\ tokens' = tokens
    BY <1>2 DEF Refused
  <2>2. Ascii
    BY <2>1 DEF Ascii
  <2> QED
    BY <2>1, <2>2 DEF LineInv
<1>3. ASSUME NEW c \in Readable, Strays(c)
      PROVE  /\ (outcome = "lexing" => WordInProgress)'
             /\ line' = Count(input', Len(input'))
             /\ \A i \in 1 .. Len(tokens') : OnLine(tokens'[i], input')
  <2>1. /\ outcome' # "lexing" /\ input' = input /\ line' = line /\ tokens' = tokens
    BY <1>3 DEF Strays
  <2>2. Ascii
    BY <2>1 DEF Ascii
  <2> QED
    BY <2>1, <2>2 DEF LineInv
<1>4. CASE UNCHANGED vars
  <2>1. Ascii /\ input' = input /\ line' = line /\ tokens' = tokens /\ outcome' = outcome
        /\ (WordInProgress => WordInProgress')
    BY <1>4 DEF Ascii, vars, WordInProgress
  <2> QED
    BY <2>1 DEF LineInv
<1> QED
  BY <1>1, <1>2, <1>3, <1>4 DEF Next

LEMMA LineInit == Init => LineInv
<1> SUFFICES ASSUME Init PROVE LineInv
  OBVIOUS
<1>1. Count(<<>>, 0) = 0
  <2>1. Newlines(<<>>, 0) = {}
    BY DEF Newlines
  <2> QED
    BY <2>1, FS_EmptySet DEF Count
<1>2. /\ input = <<>> /\ Len(input) = 0 /\ line = 0 /\ tokens = <<>> /\ Len(tokens) = 0
      /\ state = "START" /\ \A i : i \notin 1 .. 0
  BY DEF Init
<1>3. WordInProgress
  BY <1>2 DEF WordInProgress, Words
<1> QED
  BY <1>1, <1>2, <1>3 DEF LineInv

(* How far the line of a token can be trusted, whatever the token and the  *)
(* ASCII file: it is the line the token is on, but the next one exactly    *)
(* when the newline right after the token is what ended it (lines 259-278).*)
THEOREM LinesOfTokens == Spec => []LineOfToken
<1>1. IInv /\ LineInv => LineOfToken
  <2> SUFFICES ASSUME IInv, LineInv, Ascii, NEW t \in TokenSet
               PROVE  t.line = LinesBefore(t.start) + (IF EndedByNewline(t) THEN 1 ELSE 0)
    BY DEF LineOfToken
  <2>1. t \in Token /\ OnLine(t, input) /\ t.start \in Nat /\ t.len \in Nat
    <3>1. PICK i \in 1 .. Len(tokens) : t = tokens[i]
      BY DEF TokenSet
    <3>2. tokens \in Seq(Token) /\ OnLine(tokens[i], input)
      BY DEF IInv, TypeOK, LineInv
    <3>3. t \in Token
      BY <3>1, <3>2, ElementOfSeq
    <3> QED
      BY <3>1, <3>2, <3>3 DEF Token
  <2>2. input \in Seq(Chars \union {EOF}) /\ Len(input) \in Nat
    BY DEF IInv, TypeOK
  <2>3. /\ Len(Text) \in Nat /\ Len(Text) <= Len(input)
        /\ \A i \in 1 .. Len(Text) : Text[i] = input[i]
        /\ \A i \in Len(Text) + 1 .. Len(input) : input[i] # "newline"
    <3>1. CASE input # <<>> /\ Last = EOF
      <4>1. Text = SubSeq(input, 1, Len(input) - 1) /\ Len(input) >= 1 /\ input[Len(input)] = EOF
        BY <2>2, <3>1 DEF Text, Last
      <4>2. Len(Text) = Len(input) - 1 /\ \A i \in 1 .. Len(input) - 1 : Text[i] = input[i]
        <5> DEFINE m == Len(input) - 1
        <5>1. m \in Nat /\ \A i \in 1 .. m : input[i] \in Chars \union {EOF}
          BY <2>2, <4>1
        <5> HIDE DEF m
        <5>2. /\ Len(SubSeq(input, 1, m)) = IF 1 <= m THEN m - 1 + 1 ELSE 0
              /\ \A i \in 1 .. m - 1 + 1 : SubSeq(input, 1, m)[i] = input[1 + i - 1]
          BY <5>1, SubSeqProperties
        <5>3. Len(SubSeq(input, 1, m)) = m /\ \A i \in 1 .. m : SubSeq(input, 1, m)[i] = input[i]
          BY <5>1, <5>2
        <5> QED
          BY <4>1, <5>3 DEF m
      <4>3. \A i \in Len(Text) + 1 .. Len(input) : i = Len(input)
        BY <2>2, <4>2
      <4> QED
        BY <2>2, <4>1, <4>2, <4>3 DEF EOF
    <3>2. CASE ~(input # <<>> /\ Last = EOF)
      <4>1. Text = input
        BY <3>2 DEF Text
      <4> QED
        BY <2>2, <4>1
    <3> QED
      BY <3>1, <3>2
  <2>4. t.start <= Len(input) => LinesBefore(t.start) = Count(input, t.start)
    <3> SUFFICES ASSUME t.start <= Len(input)
                 PROVE  LinesBefore(t.start) = Count(input, t.start)
      OBVIOUS
    <3>2. ASSUME NEW i \in 1 .. t.start
          PROVE  (i <= Len(Text) /\ Text[i] = "newline") <=> input[i] = "newline"
      <4>1. CASE i <= Len(Text)
        BY <2>3, <4>1
      <4>2. CASE ~(i <= Len(Text))
        <5>1. i \in Len(Text) + 1 .. Len(input)
          BY <2>1, <2>2, <2>3, <4>2
        <5> QED
          BY <2>3, <4>2, <5>1
      <4> QED
        BY <4>1, <4>2
    <3>3. {i \in 1 .. t.start : i <= Len(Text) /\ Text[i] = "newline"}
            = Newlines(input, t.start)
      BY <3>2 DEF Newlines
    <3> QED
      BY <3>3 DEF Count, LinesBefore
  <2>5. CASE LineOfEnded(t, input)
    <3>1. t.start <= Len(input) /\ t.start + t.len + 1 \in 1 .. Len(input)
      BY <2>1, <2>2, <2>5 DEF LineOfEnded
    <3>2. EndedByNewline(t) <=> input[t.start + t.len + 1] = "newline"
      <4>1. CASE t.start + t.len + 1 <= Len(Text)
        <5>1. t.start + 1 \in 1 .. Len(Text) /\ t.start + t.len + 1 \in 1 .. Len(Text)
          BY <2>1, <2>3, <4>1
        <5> QED
          BY <2>3, <2>5, <4>1, <5>1 DEF LineOfEnded, EndedByNewline
      <4>2. CASE ~(t.start + t.len + 1 <= Len(Text))
        <5>1. t.start + t.len + 1 \in Len(Text) + 1 .. Len(input)
          BY <2>1, <2>2, <2>3, <3>1, <4>2
        <5> QED
          BY <2>3, <4>2, <5>1 DEF EndedByNewline
      <4> QED
        BY <4>1, <4>2
    <3> QED
      BY <2>4, <2>5, <3>1, <3>2 DEF LineOfEnded
  <2>6. CASE LineOfAlone(t, input)
    <3>1. t.start <= Len(input) /\ t.start + 1 \in 1 .. Len(input)
      BY <2>1, <2>2, <2>6 DEF LineOfAlone
    <3>2. ~EndedByNewline(t)
      <4> SUFFICES ASSUME EndedByNewline(t) PROVE FALSE
        OBVIOUS
      <4>1. t.start + t.len + 1 <= Len(Text) /\ Text[t.start + 1] # "!"
            /\ (t.kind \in {"ID", "NUM", "STRING", "UNRECOGNISED"} \/ Text[t.start + 1] = "/")
        BY DEF EndedByNewline
      <4>2. t.start + 1 \in 1 .. Len(Text)
        BY <2>1, <2>3, <4>1
      <4> QED
        BY <2>3, <2>6, <4>1, <4>2 DEF LineOfAlone
    <3>3. Count(input, t.start) \in Nat
      BY <2>1, CountIsNat
    <3> QED
      BY <2>4, <2>6, <3>1, <3>2, <3>3 DEF LineOfAlone
  <2>7. CASE LineOfClosed(t, input)
    <3>1. t.start <= Len(input) /\ t.start + t.len + 1 \in 1 .. Len(input)
      BY <2>1, <2>2, <2>7 DEF LineOfClosed
    <3>2. ~EndedByNewline(t)
      <4> SUFFICES ASSUME EndedByNewline(t) PROVE FALSE
        OBVIOUS
      <4>1. t.start + t.len + 1 \in 1 .. Len(Text) /\ Text[t.start + t.len + 1] = "newline"
        BY <2>1, <2>3 DEF EndedByNewline
      <4> QED
        BY <2>3, <2>7, <4>1 DEF LineOfClosed
    <3>3. Count(input, t.start) \in Nat
      BY <2>1, CountIsNat
    <3> QED
      BY <2>4, <2>7, <3>1, <3>2, <3>3 DEF LineOfClosed
  <2> QED
    BY <2>1, <2>5, <2>6, <2>7 DEF OnLine
<1>2. IInv /\ LineInv /\ [Next]_vars => LineInv'
  BY LineStep
<1>3. Init => LineInv
  BY LineInit
<1> QED
  BY <1>1, <1>2, <1>3, InductiveInvariant, PTL DEF Spec

-----------------------------------------------------------------------------
(* The grammar: what is proved of it before any automaton.  Its loop over  *)
(* the positions of a text is a fold, which needs no levels.               *)
Positions(n) == 1 .. n

Same(f, i) == f[i]

Folds == INSTANCE Recursion WITH Level <- Positions, Def <- Same

LEMMA MinIs ==
  ASSUME NEW S \in SUBSET Int, NEW m \in S, \A i \in S : m <= i
  PROVE  Grammar!Min(S) = m
<1>1. \A x \in S : (\A y \in S : x <= y) => x = m
  OBVIOUS
<1> QED
  BY <1>1 DEF Grammar!Min

(* Where the items of a text begin.                                        *)
LEMMA StartsAreReached ==
  ASSUME NEW text, Len(text) \in Nat
  PROVE  /\ Grammar!Starts(text) \subseteq 1 .. Len(text) + 1
         /\ 1 \in Grammar!Starts(text)
         /\ \A i \in 2 .. Len(text) + 1 :
              i \in Grammar!Starts(text)
                <=> \E k \in Grammar!Starts(text) : k < i /\ Grammar!ItemAt(text, k).next = i
<1> DEFINE n == Len(text) + 1
           V == SUBSET Nat
           step == [i \in Nat |-> [S \in V |-> Grammar!AlsoStart(text, S, i)]]
<1>1. {1} \in V /\ n \in Nat /\ n >= 1
  OBVIOUS
<1>2. step \in [Nat -> [V -> V]] /\ \A i \in Nat : \A S \in V : step[i][S] = Grammar!AlsoStart(text, S, i)
  <2>1. \A i \in Nat : \A S \in V : Grammar!AlsoStart(text, S, i) \in V
    BY DEF Grammar!AlsoStart
  <2> HIDE DEF V
  <2> QED
    BY <2>1
<1> HIDE DEF step, V
<1>3. PICK f : Folds!Folded(f, 1, n, {1}, step)
  BY <1>1, <1>2, Folds!FoldExists
<1>4. \A i \in 1 .. n : f[i] = IF i = 1 THEN {1} ELSE step[i][f[i - 1]]
  BY <1>3 DEF Folds!Folded
<1>5. \A i \in 1 .. n : f[i] \in V
  <2>1. ASSUME NEW i \in 1 + 1 .. n, f[i - 1] \in V PROVE f[i] \in V
    <3>1. i \in 1 .. n /\ i # 1 /\ i \in Nat
      OBVIOUS
    <3> QED
      BY <1>2, <1>4, <2>1, <3>1
  <2>2. f[1] \in V
    BY <1>1, <1>4
  <2> QED
    BY <1>1, <2>1, <2>2, Folds!FoldInvariant
<1>6. \A i \in 2 .. n : f[i] = Grammar!AlsoStart(text, f[i - 1], i)
  <2> SUFFICES ASSUME NEW i \in 2 .. n PROVE f[i] = Grammar!AlsoStart(text, f[i - 1], i)
    OBVIOUS
  <2>1. i \in 1 .. n /\ i - 1 \in 1 .. n /\ i # 1 /\ i \in Nat
    OBVIOUS
  <2> QED
    BY <1>2, <1>4, <1>5, <2>1
<1>7. \E h : h = [i \in 1 .. Len(text) + 1 |->
                    IF i = 1 THEN {1} ELSE Grammar!AlsoStart(text, h[i - 1], i)]
  <2>1. \A i \in 1 .. n : i = 1 \/ i \in 2 .. n
    OBVIOUS
  <2>2. f = [i \in 1 .. n |-> f[i]]
    BY <1>3 DEF Folds!Folded
  <2>3. \A i \in 1 .. n : f[i] = IF i = 1 THEN {1} ELSE Grammar!AlsoStart(text, f[i - 1], i)
    BY <1>4, <1>6, <2>1
  <2>4. f = [i \in 1 .. n |-> IF i = 1 THEN {1} ELSE Grammar!AlsoStart(text, f[i - 1], i)]
    <3> HIDE DEF n
    <3> QED
      BY <2>2, <2>3
  <2> QED
    BY <2>4
<1>8. \E h : /\ h = [i \in 1 .. Len(text) + 1 |->
                       IF i = 1 THEN {1} ELSE Grammar!AlsoStart(text, h[i - 1], i)]
             /\ Grammar!Starts(text) = h[Len(text) + 1]
  BY <1>7 DEF Grammar!Starts
<1>14. PICK g : /\ g = [i \in 1 .. n |->
                          IF i = 1 THEN {1} ELSE Grammar!AlsoStart(text, g[i - 1], i)]
                /\ Grammar!Starts(text) = g[n]
  BY <1>8
<1> HIDE DEF n
<1>9. g[1] = {1} /\ \A i \in 2 .. n : g[i] = Grammar!AlsoStart(text, g[i - 1], i)
  <2>1. \A i \in 2 .. n : i \in 1 .. n /\ i # 1
    BY <1>1
  <2>2. 1 \in 1 .. n
    BY <1>1
  <2>3. \A i \in 1 .. n : g[i] = IF i = 1 THEN {1} ELSE Grammar!AlsoStart(text, g[i - 1], i)
    BY <1>14
  <2> QED
    BY <2>1, <2>2, <2>3
(* What is added at a position stays, and nothing else comes.              *)
<1>10. \A m \in 1 .. n : /\ g[m] \subseteq 1 .. m
                         /\ \A i \in 1 .. m : i \in g[m] <=> i \in g[i]
  <2> DEFINE T == {k \in Nat : k + 1 <= n => /\ g[k + 1] \subseteq 1 .. k + 1
                                             /\ \A i \in 1 .. k + 1 : i \in g[k + 1] <=> i \in g[i]}
  <2>1. 0 \in T
    BY <1>9
  <2>2. ASSUME NEW k \in T PROVE k + 1 \in T
    <3> SUFFICES ASSUME k + 2 <= n
                 PROVE  /\ g[k + 2] \subseteq 1 .. k + 2
                        /\ \A i \in 1 .. k + 2 : i \in g[k + 2] <=> i \in g[i]
      OBVIOUS
    <3>1. g[k + 1] \subseteq 1 .. k + 1 /\ \A i \in 1 .. k + 1 : i \in g[k + 1] <=> i \in g[i]
      BY <1>1
    <3>2. g[k + 2] = Grammar!AlsoStart(text, g[k + 1], k + 2)
      <4>1. k + 2 \in 2 .. n /\ k + 2 - 1 = k + 1
        BY <1>1
      <4> QED
        BY <1>9, <4>1
    <3>3. g[k + 2] \subseteq g[k + 1] \union {k + 2} /\ g[k + 1] \subseteq g[k + 2]
      BY <3>2 DEF Grammar!AlsoStart
    <3>4. \A i \in 1 .. k + 2 : i = k + 2 \/ (i \in 1 .. k + 1 /\ i # k + 2)
      OBVIOUS
    <3> QED
      BY <3>1, <3>3, <3>4
  <2>3. T = Nat
    <3> HIDE DEF T
    <3>1. T \in SUBSET Nat
      BY DEF T
    <3> QED
      BY <2>1, <2>2, <3>1, Folds!SetInduction
  <2>4. ASSUME NEW m \in 1 .. n
        PROVE  g[m] \subseteq 1 .. m /\ \A i \in 1 .. m : i \in g[m] <=> i \in g[i]
    <3> DEFINE k == m - 1
    <3>1. k \in Nat /\ k + 1 = m /\ m <= n
      BY <1>1
    <3>2. k \in T
      BY <2>3, <3>1
    <3> HIDE DEF k
    <3> QED
      BY <3>1, <3>2
  <2> QED
    BY <2>4
<1>11. /\ Grammar!Starts(text) \subseteq 1 .. n
       /\ \A i \in 1 .. n : i \in Grammar!Starts(text) <=> i \in g[i]
  <2>1. n \in 1 .. n
    BY <1>1
  <2> QED
    BY <1>10, <1>14, <2>1
<1>12. ASSUME NEW i \in 2 .. n
       PROVE  i \in Grammar!Starts(text)
                <=> \E k \in Grammar!Starts(text) : k < i /\ Grammar!ItemAt(text, k).next = i
  <2>1. i \in 1 .. n /\ i - 1 \in 1 .. n
    BY <1>1
  <2>2. g[i - 1] \subseteq 1 .. i - 1 /\ \A k \in 1 .. i - 1 : k \in g[i - 1] <=> k \in g[k]
    BY <1>10, <2>1
  <2>3. i \in g[i] <=> \E k \in g[i - 1] : Grammar!ItemAt(text, k).next = i
    <3>1. i \notin g[i - 1]
      BY <2>1, <2>2
    <3> QED
      BY <1>9, <3>1 DEF Grammar!AlsoStart
  <2>4. \A k : k \in g[i - 1] <=> (k \in Grammar!Starts(text) /\ k < i)
    <3>1. ASSUME NEW k \in g[i - 1] PROVE k \in Grammar!Starts(text) /\ k < i
      <4>1. k \in 1 .. i - 1 /\ k \in g[k]
        BY <2>2
      <4>2. k \in 1 .. n /\ k < i
        BY <1>1, <2>1, <4>1
      <4> QED
        BY <1>11, <4>1, <4>2
    <3>2. ASSUME NEW k \in Grammar!Starts(text), k < i PROVE k \in g[i - 1]
      <4>1. k \in 1 .. n /\ k \in g[k]
        BY <1>11
      <4>2. k \in 1 .. i - 1
        BY <2>1, <3>2, <4>1
      <4> QED
        BY <2>2, <4>1, <4>2
    <3> QED
      BY <3>1, <3>2
  <2> QED
    BY <1>11, <2>1, <2>3, <2>4
<1>13. 1 \in Grammar!Starts(text)
  BY <1>1, <1>9, <1>11
<1> QED
  BY <1>11, <1>12, <1>13 DEF n

LEMMA Smallest ==
  ASSUME NEW S \in SUBSET Nat, S # {}
  PROVE  \E m \in S : \A x \in S : m <= x
<1> DEFINE R == OpToRel(<, Nat)
<1>1. IsWellFoundedOn(R, Nat)
  BY NatLessThanWellFounded
<1>2. \A y, x \in Nat : y < x => <<y, x>> \in R
  BY DEF OpToRel
<1> HIDE DEF R
<1>3. PICK x \in S : \A y \in S : <<y, x>> \notin R
  BY <1>1, WFMin
<1>4. ASSUME NEW y \in S PROVE x <= y
  <2>1. x \in Nat /\ y \in Nat /\ ~(y < x)
    BY <1>2, <1>3
  <2> QED
    BY <2>1
<1> QED
  BY <1>4

LEMMA RunEndIs ==
  ASSUME NEW text, Len(text) \in Nat, NEW i \in Nat, NEW k \in i .. Len(text) + 1, NEW S,
         k = Len(text) + 1 \/ text[k] \notin S,
         \A j \in i .. k - 1 : text[j] \in S
  PROVE  Grammar!RunEnd(text, i, S) = k
<1> DEFINE P == {j \in i .. Len(text) + 1 : j = Len(text) + 1 \/ text[j] \notin S}
<1>1. P \in SUBSET Int /\ k \in P
  OBVIOUS
<1>2. \A j \in P : k <= j
  <2> SUFFICES ASSUME NEW j \in P, j < k PROVE FALSE
    OBVIOUS
  <2>1. j \in i .. k - 1 /\ j # Len(text) + 1
    OBVIOUS
  <2> QED
    BY <2>1
<1> HIDE DEF P
<1>3. Grammar!Min(P) = k
  BY <1>1, <1>2, MinIs
<1> QED
  BY <1>3 DEF Grammar!RunEnd, P

LEMMA FoundIs ==
  ASSUME NEW text, Len(text) \in Nat, NEW i \in Nat, NEW k \in i .. Len(text) + 1, NEW S,
         k = Len(text) + 1 \/ text[k] \in S,
         \A j \in i .. k - 1 : text[j] \notin S
  PROVE  Grammar!Found(text, i, S) = k
<1> DEFINE P == {j \in i .. Len(text) + 1 : j = Len(text) + 1 \/ text[j] \in S}
<1>1. P \in SUBSET Int /\ k \in P
  OBVIOUS
<1>2. \A j \in P : k <= j
  <2> SUFFICES ASSUME NEW j \in P, j < k PROVE FALSE
    OBVIOUS
  <2>1. j \in i .. k - 1 /\ j # Len(text) + 1
    OBVIOUS
  <2> QED
    BY <2>1
<1> HIDE DEF P
<1>3. Grammar!Min(P) = k
  BY <1>1, <1>2, MinIs
<1> QED
  BY <1>3 DEF Grammar!Found, P

(* The items, by their first characters.                                   *)
LEMMA WordItem ==
  ASSUME NEW text, Len(text) \in Nat, NEW p \in 1 .. Len(text), text[p] = "a",
         NEW k \in p .. Len(text) + 1,
         k = Len(text) + 1 \/ text[k] \notin {"a", "1"},
         \A j \in p .. k - 1 : text[j] \in {"a", "1"}
  PROVE  Grammar!ItemAt(text, p) = Grammar!Item("ID", p, k)
<1>1. Grammar!CharAt(text, p) = "a"
  BY DEF Grammar!CharAt
<1>2. Grammar!RunEnd(text, p, {"a", "1"}) = k
  BY RunEndIs
<1>3. Grammar!Letters \union Grammar!Digits = {"a", "1"}
  BY DEF Grammar!Letters, Grammar!Digits
<1>4. "a" \in Grammar!Letters /\ "a" \notin Grammar!Spaces
  BY DEF Grammar!Letters, Grammar!Spaces
<1>5. Grammar!ItemAt(text, p)
        = Grammar!Item("ID", p, Grammar!RunEnd(text, p, Grammar!Letters \union Grammar!Digits))
  BY <1>1, <1>4 DEF Grammar!ItemAt, Grammar!Digits, Grammar!Symbols
<1> QED
  BY <1>2, <1>3, <1>5

LEMMA NumberItem ==
  ASSUME NEW text, Len(text) \in Nat, NEW p \in 1 .. Len(text), text[p] = "1",
         NEW k \in p .. Len(text) + 1,
         k = Len(text) + 1 \/ text[k] # "1",
         \A j \in p .. k - 1 : text[j] = "1"
  PROVE  Grammar!ItemAt(text, p) = Grammar!Item("NUM", p, k)
<1>1. Grammar!CharAt(text, p) = "1"
  BY DEF Grammar!CharAt
<1>2. Grammar!RunEnd(text, p, {"1"}) = k
  BY RunEndIs
<1>3. Grammar!ItemAt(text, p) = Grammar!Item("NUM", p, Grammar!RunEnd(text, p, Grammar!Digits))
  BY <1>1 DEF Grammar!ItemAt, Grammar!Digits, Grammar!Symbols, Grammar!Letters, Grammar!Spaces
<1> QED
  BY <1>2, <1>3 DEF Grammar!Digits

LEMMA StringItem ==
  ASSUME NEW text, Len(text) \in Nat, NEW p \in 1 .. Len(text), text[p] = "quote",
         NEW k \in p + 1 .. Len(text) + 1,
         k = Len(text) + 1 \/ text[k] \in {"quote", "newline"},
         \A j \in p + 1 .. k - 1 : text[j] \notin {"quote", "newline"}
  PROVE  Grammar!ItemAt(text, p)
           = IF k # Len(text) + 1 /\ text[k] = "quote"
             THEN [kind |-> "STRING", start |-> p, len |-> k - p - 1, next |-> k + 1]
             ELSE Grammar!Error(text, p)
<1>1. Grammar!CharAt(text, p) = "quote"
  BY DEF Grammar!CharAt
<1>2. Grammar!Found(text, p + 1, {"quote", "newline"}) = k
  BY FoundIs
<1>3. Grammar!ItemAt(text, p) = Grammar!String(text, p)
  BY <1>1 DEF Grammar!ItemAt, Grammar!Digits, Grammar!Symbols, Grammar!Letters, Grammar!Spaces
<1>4. Grammar!CharAt(text, k) = "quote" <=> (k # Len(text) + 1 /\ text[k] = "quote")
  BY DEF Grammar!CharAt
<1>5. Grammar!String(text, p) =
        IF Grammar!CharAt(text, k) # "quote" THEN Grammar!Error(text, p)
        ELSE [Grammar!Item("STRING", p + 1, k) EXCEPT !.next = k + 1]
  BY <1>2 DEF Grammar!String
<1>6. [Grammar!Item("STRING", p + 1, k) EXCEPT !.next = k + 1]
        = [kind |-> "STRING", start |-> p, len |-> k - p - 1, next |-> k + 1]
  BY DEF Grammar!Item
<1> QED
  BY <1>3, <1>4, <1>5, <1>6

LEMMA LineCommentItem ==
  ASSUME NEW text, Len(text) \in Nat, NEW p \in 1 .. Len(text), p + 1 <= Len(text),
         text[p] = "/", text[p + 1] = "/",
         NEW k \in p .. Len(text) + 1,
         k = Len(text) + 1 \/ text[k] = "newline",
         \A j \in p .. k - 1 : text[j] # "newline"
  PROVE  Grammar!ItemAt(text, p) = Grammar!Item("COMMENT", p, k)
<1>1. Grammar!CharAt(text, p) = "/" /\ Grammar!CharAt(text, p + 1) = "/"
  BY DEF Grammar!CharAt
<1>2. Grammar!Found(text, p, {"newline"}) = k
  BY FoundIs
<1> QED
  BY <1>1, <1>2
  DEF Grammar!ItemAt, Grammar!Digits, Grammar!Symbols, Grammar!Letters, Grammar!Spaces

LEMMA LongCommentItem ==
  ASSUME NEW text, Len(text) \in Nat, NEW p \in 1 .. Len(text), p + 1 <= Len(text),
         text[p] = "/", text[p + 1] = "*"
  PROVE  /\ Grammar!CommentEnds(text, p) = {} =>
              Grammar!ItemAt(text, p) = Grammar!Error(text, p)
         /\ \A k \in Grammar!CommentEnds(text, p) :
              (\A j \in Grammar!CommentEnds(text, p) : k <= j) =>
                Grammar!ItemAt(text, p) = Grammar!Item("COMMENT", p, k)
<1>1. Grammar!CharAt(text, p) = "/" /\ Grammar!CharAt(text, p + 1) = "*"
  BY DEF Grammar!CharAt
<1>2. Grammar!ItemAt(text, p) = Grammar!LongComment(text, p)
  BY <1>1 DEF Grammar!ItemAt, Grammar!Digits, Grammar!Symbols, Grammar!Letters, Grammar!Spaces
<1>3. Grammar!CommentEnds(text, p) \in SUBSET Int
  BY DEF Grammar!CommentEnds
<1> HIDE DEF Grammar!CommentEnds
<1> QED
  BY <1>2, <1>3, MinIs DEF Grammar!LongComment

LEMMA ShortItems ==
  ASSUME NEW text, Len(text) \in Nat, NEW p \in 1 .. Len(text)
  PROVE  /\ text[p] \in {"blank", "newline"} =>
              Grammar!ItemAt(text, p) = Grammar!Item("SPACE", p, p + 1)
         /\ text[p] \in {"(", "*"} =>
              Grammar!ItemAt(text, p) = Grammar!Item("SYMBOL", p, p + 1)
         /\ text[p] = "!" =>
              Grammar!ItemAt(text, p) = Grammar!Item("UNRECOGNISED", p, p + 1)
         /\ text[p] = "/" /\ Grammar!CharAt(text, p + 1) \notin {"/", "*"} =>
              Grammar!ItemAt(text, p) = Grammar!Item("SYMBOL", p, p + 1)
         /\ text[p] = "#" => Grammar!ItemAt(text, p) = Grammar!Error(text, p)
<1>1. Grammar!CharAt(text, p) = text[p]
  BY DEF Grammar!CharAt
<1> QED
  BY <1>1
  DEF Grammar!ItemAt, Grammar!Digits, Grammar!Symbols, Grammar!Letters, Grammar!Spaces

(* An item that is over before position p, well formed, and does not run   *)
(* into the end of the text.                                               *)
Complete(text, item, p) ==
  /\ item.next \in Nat /\ item.next <= p
  /\ item.kind # "ERROR" /\ ~Grammar!RunsOut(text, item)

(* The items of a text that begin before position p, where the next one    *)
(* begins, are complete, and their tokens are those of the list, in order. *)
Kept(text, p, list) ==
  /\ p \in Grammar!Starts(text)
  /\ \A q \in Grammar!Starts(text) : q < p => Complete(text, Grammar!ItemAt(text, q), p)
  /\ \A i \in 1 .. Len(list) :
       \E q \in Grammar!Starts(text) :
         /\ q < p /\ Grammar!ItemAt(text, q).kind \in Kinds
         /\ Span(list[i]) = Span(Grammar!ItemAt(text, q))
  /\ \A q \in Grammar!Starts(text) :
       q < p /\ Grammar!ItemAt(text, q).kind \in Kinds =>
         \E i \in 1 .. Len(list) : Span(list[i]) = Span(Grammar!ItemAt(text, q))
  /\ \A i \in 1 .. Len(list) : list[i].start + 1 < p
  /\ \A i, j \in 1 .. Len(list) : i < j => list[i].start < list[j].start

(* No item begins inside an item.                                          *)
LEMMA NextStart ==
  ASSUME NEW text, Len(text) \in Nat, NEW p, NEW list, Kept(text, p, list),
         NEW next \in Nat, next = Grammar!ItemAt(text, p).next, p < next, next <= Len(text) + 1
  PROVE  /\ next \in Grammar!Starts(text)
         /\ \A q \in Grammar!Starts(text) : q < next => q < p \/ q = p
<1> DEFINE S == Grammar!Starts(text)
<1>1. /\ S \subseteq 1 .. Len(text) + 1
      /\ \A i \in 2 .. Len(text) + 1 :
           i \in S <=> \E k \in S : k < i /\ Grammar!ItemAt(text, k).next = i
  BY StartsAreReached
<1>2. p \in S /\ \A q \in S : q < p => Grammar!ItemAt(text, q).next <= p
  BY DEF Kept, Complete
<1> HIDE DEF S
<1>3. next \in S
  <2>1. next \in 2 .. Len(text) + 1
    BY <1>1, <1>2
  <2> QED
    BY <1>1, <1>2, <2>1
<1>4. \A q \in S : q < next => q < p \/ q = p
  <2> DEFINE B == {q \in S : p < q /\ q < next}
  <2> SUFFICES ASSUME B # {} PROVE FALSE
    <3>1. \A q \in S : q \in Nat
      BY <1>1
    <3> QED
      BY <1>2, <3>1
  <2>1. B \in SUBSET Nat
    <3>1. \A q \in S : q \in Nat
      BY <1>1
    <3> QED
      BY <3>1
  <2>2. PICK m \in B : \A q \in B : m <= q
    <3> HIDE DEF B
    <3> QED
      BY <2>1, Smallest
  <2>3. m \in 2 .. Len(text) + 1
    BY <1>1, <1>2
  <2>4. PICK k \in S : k < m /\ Grammar!ItemAt(text, k).next = m
    BY <1>1, <2>3
  <2>5. k \in Nat /\ p \in Nat /\ m \in Nat
    BY <1>1, <1>2
  <2>6. CASE k < p
    BY <1>2, <2>4, <2>5, <2>6
  <2>7. CASE k = p
    BY <2>4, <2>5, <2>7
  <2>8. CASE p < k
    BY <2>2, <2>4, <2>5, <2>8
  <2> QED
    BY <2>5, <2>6, <2>7, <2>8
<1> QED
  BY <1>3, <1>4 DEF S

LEMMA StartsOfTokens ==
  ASSUME NEW list \in Seq(Token), NEW i \in 1 .. Len(list)
  PROVE  list[i].start \in Nat
<1>1. list[i] \in Token
  BY ElementOfSeq
<1> QED
  BY <1>1 DEF Token

(* An item that is no token is passed over.                                *)
LEMMA KeepsOn ==
  ASSUME NEW text, Len(text) \in Nat, NEW p \in Nat, NEW list \in Seq(Token), Kept(text, p, list),
         NEW item, item = Grammar!ItemAt(text, p), item.kind \notin Kinds,
         NEW next \in Nat, next = item.next, p < next, next <= Len(text) + 1,
         Complete(text, item, next)
  PROVE  Kept(text, next, list)
<1>1. /\ next \in Grammar!Starts(text)
      /\ \A q \in Grammar!Starts(text) : q < next => q < p \/ q = p
  BY NextStart
<1>2. \A q \in Grammar!Starts(text) : q \in Nat
  BY StartsAreReached
<1>3. ASSUME NEW q \in Grammar!Starts(text), q < p
      PROVE  Complete(text, Grammar!ItemAt(text, q), next) /\ q < next
  <2>1. Complete(text, Grammar!ItemAt(text, q), p)
    BY <1>3 DEF Kept
  <2>2. \A r \in Nat : r <= p => r <= next
    OBVIOUS
  <2>3. q < next
    BY <1>2, <1>3
  <2> QED
    BY <2>1, <2>2, <2>3 DEF Complete
<1>4. \A i \in 1 .. Len(list) : list[i].start + 1 < next
  <2>1. \A i \in 1 .. Len(list) : list[i].start \in Nat
    BY StartsOfTokens
  <2>2. \A i \in 1 .. Len(list) : list[i].start + 1 < p
    BY DEF Kept
  <2> QED
    BY <2>1, <2>2
<1> QED
  BY <1>1, <1>3, <1>4 DEF Kept

(* A token is appended.                                                    *)
LEMMA KeepsToken ==
  ASSUME NEW text, Len(text) \in Nat, NEW p \in Nat, NEW list \in Seq(Token), Kept(text, p, list),
         NEW item, item = Grammar!ItemAt(text, p), item.kind \in Kinds,
         NEW next \in Nat, next = item.next, p < next, next <= Len(text) + 1,
         Complete(text, item, next),
         NEW t \in Token, Span(t) = Span(item), p <= t.start + 1, t.start + 1 < next
  PROVE  Kept(text, next, list \o <<t>>)
<1> DEFINE more == list \o <<t>>
<1>1. /\ next \in Grammar!Starts(text)
      /\ \A q \in Grammar!Starts(text) : q < next => q < p \/ q = p
  BY NextStart
<1>2. \A q \in Grammar!Starts(text) : q \in Nat
  BY StartsAreReached
<1>3. ASSUME NEW q \in Grammar!Starts(text), q < p
      PROVE  Complete(text, Grammar!ItemAt(text, q), next) /\ q < next
  <2>1. Complete(text, Grammar!ItemAt(text, q), p)
    BY <1>3 DEF Kept
  <2>2. \A r \in Nat : r <= p => r <= next
    OBVIOUS
  <2>3. q < next
    BY <1>2, <1>3
  <2> QED
    BY <2>1, <2>2, <2>3 DEF Complete
<1>4. /\ Len(more) = Len(list) + 1 /\ more[Len(list) + 1] = t /\ Len(list) \in Nat
      /\ \A i \in 1 .. Len(list) : more[i] = list[i]
  OBVIOUS
<1> HIDE DEF more
<1>5. \A i \in 1 .. Len(more) : i \in 1 .. Len(list) \/ i = Len(list) + 1
  BY <1>4
<1>6. \A i \in 1 .. Len(list) : i \in 1 .. Len(more)
  BY <1>4
<1>7. \A i \in 1 .. Len(more) : more[i].start + 1 < next
  <2>1. \A i \in 1 .. Len(list) : list[i].start \in Nat /\ list[i].start + 1 < p
    BY StartsOfTokens DEF Kept
  <2> SUFFICES ASSUME NEW i \in 1 .. Len(more)
               PROVE  more[i].start + 1 < next
    OBVIOUS
  <2>2. CASE i \in 1 .. Len(list)
    <3>1. list[i].start \in Nat /\ list[i].start + 1 < p /\ more[i] = list[i]
      BY <1>4, <2>1, <2>2
    <3> QED
      BY <3>1
  <2>3. CASE i = Len(list) + 1
    BY <1>4, <2>3
  <2> QED
    BY <1>5, <2>2, <2>3
<1>8. \A i, j \in 1 .. Len(more) : i < j => more[i].start < more[j].start
  <2> SUFFICES ASSUME NEW i \in 1 .. Len(more), NEW j \in 1 .. Len(more), i < j
               PROVE  more[i].start < more[j].start
    OBVIOUS
  <2>1. i \in 1 .. Len(list)
    BY <1>4, <1>5
  <2>2. list[i].start \in Nat /\ list[i].start + 1 < p
    BY <2>1, StartsOfTokens DEF Kept
  <2>5. t.start \in Nat
    BY DEF Token
  <2>3. CASE j = Len(list) + 1
    BY <1>4, <2>1, <2>2, <2>3, <2>5
  <2>4. CASE j \in 1 .. Len(list)
    BY <1>4, <2>1, <2>4 DEF Kept
  <2> QED
    BY <1>5, <2>3, <2>4
<1>9. \A i \in 1 .. Len(more) :
        \E q \in Grammar!Starts(text) :
          /\ q < next /\ Grammar!ItemAt(text, q).kind \in Kinds
          /\ Span(more[i]) = Span(Grammar!ItemAt(text, q))
  <2> SUFFICES ASSUME NEW i \in 1 .. Len(more)
               PROVE  \E q \in Grammar!Starts(text) :
                        /\ q < next /\ Grammar!ItemAt(text, q).kind \in Kinds
                        /\ Span(more[i]) = Span(Grammar!ItemAt(text, q))
    OBVIOUS
  <2>1. CASE i = Len(list) + 1
    <3>1. p \in Grammar!Starts(text)
      BY DEF Kept
    <3> QED
      BY <1>4, <2>1, <3>1
  <2>2. CASE i \in 1 .. Len(list)
    <3>1. PICK q \in Grammar!Starts(text) :
            /\ q < p /\ Grammar!ItemAt(text, q).kind \in Kinds
            /\ Span(list[i]) = Span(Grammar!ItemAt(text, q))
      BY <2>2 DEF Kept
    <3> QED
      BY <1>3, <1>4, <2>2, <3>1
  <2> QED
    BY <1>5, <2>1, <2>2
<1>10. \A q \in Grammar!Starts(text) :
         q < next /\ Grammar!ItemAt(text, q).kind \in Kinds =>
           \E i \in 1 .. Len(more) : Span(more[i]) = Span(Grammar!ItemAt(text, q))
  <2> SUFFICES ASSUME NEW q \in Grammar!Starts(text), q < next,
                      Grammar!ItemAt(text, q).kind \in Kinds
               PROVE  \E i \in 1 .. Len(more) : Span(more[i]) = Span(Grammar!ItemAt(text, q))
    OBVIOUS
  <2>1. CASE q = p
    <3>1. Len(list) + 1 \in 1 .. Len(more)
      BY <1>4
    <3> QED
      BY <1>4, <2>1, <3>1
  <2>2. CASE q < p
    <3>1. PICK i \in 1 .. Len(list) : Span(list[i]) = Span(Grammar!ItemAt(text, q))
      BY <2>2 DEF Kept
    <3> QED
      BY <1>4, <1>6, <3>1
  <2> QED
    BY <1>1, <2>1, <2>2
<1>11. \A q \in Grammar!Starts(text) : q < next => Complete(text, Grammar!ItemAt(text, q), next)
  BY <1>1, <1>3
<1> QED
  BY <1>1, <1>7, <1>8, <1>9, <1>10, <1>11 DEF Kept, more

(* Passing over the item at p.                                             *)
LEMMA Pass ==
  ASSUME NEW text, Len(text) \in Nat, NEW p \in Nat, NEW list \in Seq(Token), Kept(text, p, list),
         NEW kind \in {"SPACE", "COMMENT"}, NEW k \in Nat, p < k, k <= Len(text) + 1,
         Grammar!ItemAt(text, p) = Grammar!Item(kind, p, k),
         kind = "COMMENT" => k <= Len(text) \/ text[p + 1] # "/"
  PROVE  Kept(text, k, list)
<1> DEFINE item == Grammar!Item(kind, p, k)
<1>1. item.kind = kind /\ item.next = k /\ item.start = p - 1 /\ item.len = k - p
  BY DEF Grammar!Item
<1> HIDE DEF item
<1>2. item.kind \notin Kinds /\ item.kind # "ERROR"
  BY <1>1 DEF Kinds
<1>3. ~Grammar!RunsOut(text, item)
  <2>1. item.start + item.len = k - 1 /\ item.start + 2 = p + 1
    BY <1>1
  <2>2. k <= Len(text) => k - 1 # Len(text)
    OBVIOUS
  <2> QED
    BY <1>1, <2>1, <2>2 DEF Grammar!RunsOut
<1>4. Complete(text, item, k)
  BY <1>1, <1>2, <1>3 DEF Complete
<1>5. item = Grammar!ItemAt(text, p)
  BY DEF item
<1> QED
  BY <1>1, <1>2, <1>4, <1>5, KeepsOn

LEMMA PassToken ==
  ASSUME NEW text, Len(text) \in Nat, NEW p \in Nat, NEW list \in Seq(Token), Kept(text, p, list),
         NEW kind \in Kinds \ {"STRING"}, NEW k \in Nat, p < k, k <= Len(text) + 1,
         Grammar!ItemAt(text, p) = Grammar!Item(kind, p, k),
         k <= Len(text) \/ (kind \notin {"ID", "NUM"} /\ text[p] # "/"),
         NEW t \in Token, t.kind = kind, t.start = p - 1, t.len = k - p
  PROVE  Kept(text, k, list \o <<t>>)
<1> DEFINE item == Grammar!Item(kind, p, k)
<1>1. item.kind = kind /\ item.next = k /\ item.start = p - 1 /\ item.len = k - p
  BY DEF Grammar!Item
<1> HIDE DEF item
<1>2. item.kind \in Kinds /\ item.kind # "ERROR"
  BY <1>1 DEF Kinds
<1>3. ~Grammar!RunsOut(text, item)
  <2>1. item.start + item.len = k - 1 /\ item.start + 1 = p
    BY <1>1
  <2>2. k <= Len(text) => k - 1 # Len(text)
    OBVIOUS
  <2>3. item.kind # "COMMENT"
    BY <1>2 DEF Kinds
  <2> QED
    BY <1>1, <2>1, <2>2, <2>3 DEF Grammar!RunsOut
<1>4. Complete(text, item, k)
  BY <1>1, <1>2, <1>3 DEF Complete
<1>5. item = Grammar!ItemAt(text, p)
  BY DEF item
<1>6. Span(t) = Span(item)
  BY <1>1 DEF Span
<1>7. p <= t.start + 1 /\ t.start + 1 < k
  OBVIOUS
<1> QED
  BY <1>1, <1>2, <1>4, <1>5, <1>6, <1>7, KeepsToken

LEMMA PassString ==
  ASSUME NEW text, Len(text) \in Nat, NEW p \in Nat, p >= 1, NEW list \in Seq(Token), Kept(text, p, list),
         text[p] = "quote", NEW k \in Nat, p < k, k <= Len(text), text[k] = "quote",
         \A j \in p + 1 .. k - 1 : text[j] \notin {"quote", "newline"},
         NEW t \in Token, t.kind = "STRING", t.start = p, t.len = k - p - 1
  PROVE  Kept(text, k + 1, list \o <<t>>)
<1> DEFINE item == [kind |-> "STRING", start |-> p, len |-> k - p - 1, next |-> k + 1]
<1>1. item.kind = "STRING" /\ item.next = k + 1 /\ item.start = p /\ item.len = k - p - 1
  OBVIOUS
<1>5. item = Grammar!ItemAt(text, p)
  <2>1. p \in 1 .. Len(text) /\ k \in p + 1 .. Len(text) + 1 /\ k # Len(text) + 1
    OBVIOUS
  <2> QED
    BY <2>1, StringItem
<1> HIDE DEF item
<1>2. item.kind \in Kinds /\ item.kind # "ERROR"
  BY <1>1 DEF Kinds
<1>3. ~Grammar!RunsOut(text, item)
  BY <1>1 DEF Grammar!RunsOut
<1>4. Complete(text, item, k + 1)
  BY <1>1, <1>2, <1>3 DEF Complete
<1>6. Span(t) = Span(item)
  BY <1>1 DEF Span
<1>7. p <= t.start + 1 /\ t.start + 1 < k + 1 /\ k + 1 \in Nat /\ p < k + 1 /\ k + 1 <= Len(text) + 1
  OBVIOUS
<1> QED
  BY <1>1, <1>2, <1>4, <1>5, <1>6, <1>7, KeepsToken

-----------------------------------------------------------------------------
(* The character at position i begins an item.                             *)
LEMMA PassSpace ==
  ASSUME NEW text, Len(text) \in Nat, NEW i \in 1 .. Len(text), NEW list \in Seq(Token), Kept(text, i, list),
         text[i] \in {"blank", "newline"}
  PROVE  Kept(text, i + 1, list)
<1>1. Grammar!ItemAt(text, i) = Grammar!Item("SPACE", i, i + 1)
  BY ShortItems
<1>2. i \in Nat /\ i + 1 \in Nat /\ i < i + 1 /\ i + 1 <= Len(text) + 1
  OBVIOUS
<1> QED
  BY <1>1, <1>2, Pass

LEMMA PassSymbol ==
  ASSUME NEW text, Len(text) \in Nat, NEW i \in 1 .. Len(text), NEW list \in Seq(Token), Kept(text, i, list),
         text[i] \in {"(", "*", "!"},
         NEW t \in Token, t.kind = (IF text[i] = "!" THEN "UNRECOGNISED" ELSE "SYMBOL"),
         t.start = i - 1, t.len = 1
  PROVE  Kept(text, i + 1, list \o <<t>>)
<1>1. Grammar!ItemAt(text, i) = Grammar!Item(t.kind, i, i + 1)
  BY ShortItems
<1>2. i \in Nat /\ i + 1 \in Nat /\ i < i + 1 /\ i + 1 <= Len(text) + 1 /\ t.len = (i + 1) - i
  OBVIOUS
<1>3. t.kind \in Kinds \ {"STRING"} /\ t.kind \notin {"ID", "NUM"}
  BY DEF Kinds
<1> QED
  BY <1>1, <1>2, <1>3, PassToken

LEMMA PassSlash ==
  ASSUME NEW text, Len(text) \in Nat, NEW i \in 1 .. Len(text), NEW list \in Seq(Token), Kept(text, i, list),
         text[i] = "/", i + 1 <= Len(text), text[i + 1] \notin {"/", "*"},
         NEW t \in Token, t.kind = "SYMBOL", t.start = i - 1, t.len = 1
  PROVE  Kept(text, i + 1, list \o <<t>>)
<1>1. Grammar!ItemAt(text, i) = Grammar!Item("SYMBOL", i, i + 1)
  <2>1. Grammar!CharAt(text, i + 1) = text[i + 1]
    BY DEF Grammar!CharAt
  <2> QED
    BY <2>1, ShortItems
<1>2. i \in Nat /\ i + 1 \in Nat /\ i < i + 1 /\ i + 1 <= Len(text) + 1 /\ t.len = (i + 1) - i
  OBVIOUS
<1>3. "SYMBOL" \in Kinds \ {"STRING"}
  BY DEF Kinds
<1> QED
  BY <1>1, <1>2, <1>3, PassToken

LEMMA PassWord ==
  ASSUME NEW text, Len(text) \in Nat, NEW p \in 1 .. Len(text), NEW list \in Seq(Token), Kept(text, p, list),
         text[p] = "a", NEW k \in p + 1 .. Len(text), text[k] \notin {"a", "1"},
         \A j \in p .. k - 1 : text[j] \in {"a", "1"},
         NEW t \in Token, t.kind = "ID", t.start = p - 1, t.len = k - p
  PROVE  Kept(text, k, list \o <<t>>) /\ Grammar!ItemAt(text, p) = Grammar!Item("ID", p, k)
<1>2. p \in Nat /\ k \in Nat /\ p < k /\ k <= Len(text) + 1 /\ k \in p .. Len(text) + 1 /\ k <= Len(text)
  OBVIOUS
<1>1. Grammar!ItemAt(text, p) = Grammar!Item("ID", p, k)
  BY <1>2, WordItem
<1>3. "ID" \in Kinds \ {"STRING"}
  BY DEF Kinds
<1> QED
  BY <1>1, <1>2, <1>3, PassToken

LEMMA PassNumber ==
  ASSUME NEW text, Len(text) \in Nat, NEW p \in 1 .. Len(text), NEW list \in Seq(Token), Kept(text, p, list),
         text[p] = "1", NEW k \in p + 1 .. Len(text), text[k] # "1",
         \A j \in p .. k - 1 : text[j] = "1",
         NEW t \in Token, t.kind = "NUM", t.start = p - 1, t.len = k - p
  PROVE  Kept(text, k, list \o <<t>>)
<1>2. p \in Nat /\ k \in Nat /\ p < k /\ k <= Len(text) + 1 /\ k \in p .. Len(text) + 1 /\ k <= Len(text)
  OBVIOUS
<1>1. Grammar!ItemAt(text, p) = Grammar!Item("NUM", p, k)
  BY <1>2, NumberItem
<1>3. "NUM" \in Kinds \ {"STRING"}
  BY DEF Kinds
<1> QED
  BY <1>1, <1>2, <1>3, PassToken

LEMMA PassLine ==
  ASSUME NEW text, Len(text) \in Nat, NEW p \in 1 .. Len(text), NEW list \in Seq(Token), Kept(text, p, list),
         text[p] = "/", text[p + 1] = "/", NEW k \in p + 1 .. Len(text), text[k] = "newline",
         \A j \in p .. k - 1 : text[j] # "newline"
  PROVE  Kept(text, k, list)
<1>2. p \in Nat /\ k \in Nat /\ p < k /\ k <= Len(text) + 1 /\ k \in p .. Len(text) + 1
      /\ k <= Len(text) /\ p + 1 <= Len(text)
  OBVIOUS
<1>1. Grammar!ItemAt(text, p) = Grammar!Item("COMMENT", p, k)
  BY <1>2, LineCommentItem
<1> QED
  BY <1>1, <1>2, Pass

LEMMA PassLong ==
  ASSUME NEW text, Len(text) \in Nat, NEW p \in 1 .. Len(text), NEW list \in Seq(Token), Kept(text, p, list),
         text[p] = "/", text[p + 1] = "*", NEW k \in Grammar!CommentEnds(text, p),
         \A j \in Grammar!CommentEnds(text, p) : k <= j
  PROVE  Kept(text, k, list)
<1>2. p \in Nat /\ k \in Nat /\ p < k /\ k <= Len(text) + 1 /\ p + 1 <= Len(text)
  BY DEF Grammar!CommentEnds
<1>1. Grammar!ItemAt(text, p) = Grammar!Item("COMMENT", p, k)
  BY <1>2, LongCommentItem
<1> QED
  BY <1>1, <1>2, Pass

Plain == {"START", "IN_SYMBOL", "IN_ID", "IN_NUM", "COMMENT_START"}

(* The transition table, character by character.                           *)
LEMMA NextOf ==
  ASSUME NEW s \in States, NEW c \in Chars \union {EOF}, c # "wide", NEW class \in ClassesOf(c),
         NEW next, next = transition[s][class]
  PROVE  /\ s \in Plain =>
              /\ c \in {"blank", "newline"} => next = "START"
              /\ c = "a" => next = IF s = "IN_NUM" THEN "START" ELSE "IN_ID"
              /\ c = "1" => next = IF s = "IN_ID" THEN "IN_ID" ELSE "IN_NUM"
              /\ c = "quote" => next = "IN_STRING"
              /\ c = "/" => next = IF s = "COMMENT_START" THEN "IN_COMMENT_SINGLE" ELSE "COMMENT_START"
              /\ c = "*" => next = IF s = "COMMENT_START" THEN "IN_COMMENT_MULTI" ELSE "IN_SYMBOL"
              /\ c \in {"(", "!"} => next = IF s = "IN_ID" THEN "START" ELSE "IN_SYMBOL"
              /\ c = "#" => next = "IN_ERROR"
              /\ c = EOF => next = IF s \in {"START", "IN_SYMBOL"} THEN "START" ELSE "IN_ERROR"
         /\ s = "IN_STRING" =>
              next = IF c \in {"newline", EOF} THEN "IN_ERROR"
                     ELSE IF c = "quote" THEN "START" ELSE s
         /\ s = "IN_COMMENT_SINGLE" =>
              next = IF c = EOF THEN "IN_ERROR" ELSE IF c = "newline" THEN "START" ELSE s
         /\ s \in {"IN_COMMENT_MULTI", "SEEN_STAR_IN_COMMENT"} =>
              next = IF c = EOF THEN "IN_ERROR" ELSE IF c = "*" THEN "SEEN_STAR_IN_COMMENT"
                     ELSE IF c = "/" /\ s = "SEEN_STAR_IN_COMMENT" THEN "START"
                     ELSE "IN_COMMENT_MULTI"
         /\ class \in {"C_symbol", "C_star"} <=> c \in {"*", "(", "!"}
<1>1. next = Row(s)[class]
  BY DEF transition
<1>2. /\ c \in {"blank", "newline"} => class \in {"C_white", "C_newline", "C_other"}
      /\ c \in {"blank", "newline", "a", "1", "quote", "/", "*", "(", "!", "#", EOF}
  BY DEF ClassesOf, eq_class, Classes, Chars, EOF
<1>3. /\ c = "blank" <=> class = "C_white"
      /\ c = "newline" <=> class = "C_newline"
      /\ c = "a" <=> class = "C_alpha"
      /\ c = "1" <=> class = "C_digit"
      /\ c = "quote" <=> class = "C_double_quote"
      /\ c = "/" <=> class = "C_slash"
      /\ c = "*" <=> class = "C_star"
      /\ c \in {"(", "!"} <=> class = "C_symbol"
      /\ c = "#" <=> class = "C_other"
      /\ c = EOF <=> class = "C_eof"
      /\ class \in Classes
  BY DEF ClassesOf, eq_class, Classes, Chars, EOF
<1>4. s \in {"START", "IN_SYMBOL"} => Row(s) = RowOfStart
  BY DEF Row
<1>5. /\ RowOfStart["C_white"] = "START" /\ RowOfStart["C_newline"] = "START"
      /\ RowOfStart["C_alpha"] = "IN_ID" /\ RowOfStart["C_digit"] = "IN_NUM"
      /\ RowOfStart["C_double_quote"] = "IN_STRING" /\ RowOfStart["C_slash"] = "COMMENT_START"
      /\ RowOfStart["C_star"] = "IN_SYMBOL" /\ RowOfStart["C_symbol"] = "IN_SYMBOL"
      /\ RowOfStart["C_other"] = "IN_ERROR" /\ RowOfStart["C_eof"] = "START"
      /\ DOMAIN RowOfStart = Classes
  BY DEF RowOfStart, Classes
<1>6. s = "IN_ID" =>
        Row(s) = [RowOfStart EXCEPT !["C_digit"] = "IN_ID", !["C_symbol"] = "START",
                                    !["C_eof"] = "IN_ERROR"]
  BY DEF Row
<1>7. s = "IN_NUM" => Row(s) = [RowOfStart EXCEPT !["C_alpha"] = "START", !["C_eof"] = "IN_ERROR"]
  BY DEF Row
<1>8. s = "COMMENT_START" =>
        Row(s) = [RowOfStart EXCEPT !["C_slash"] = "IN_COMMENT_SINGLE",
                                    !["C_star"] = "IN_COMMENT_MULTI", !["C_eof"] = "IN_ERROR"]
  BY DEF Row
<1>9. CASE s \in {"START", "IN_SYMBOL"}
  BY <1>1, <1>2, <1>3, <1>4, <1>5, <1>9
<1>10. CASE s = "IN_ID"
  <2>1. /\ class \notin {"C_digit", "C_symbol", "C_eof"} => next = RowOfStart[class]
        /\ class = "C_digit" => next = "IN_ID"
        /\ class = "C_symbol" => next = "START"
        /\ class = "C_eof" => next = "IN_ERROR"
    BY <1>1, <1>3, <1>5, <1>6, <1>10
  <2> QED
    BY <1>2, <1>3, <1>5, <1>10, <2>1
<1>11. CASE s = "IN_NUM"
  <2>1. /\ class \notin {"C_alpha", "C_eof"} => next = RowOfStart[class]
        /\ class = "C_alpha" => next = "START"
        /\ class = "C_eof" => next = "IN_ERROR"
    BY <1>1, <1>3, <1>5, <1>7, <1>11
  <2> QED
    BY <1>2, <1>3, <1>5, <1>11, <2>1
<1>12. CASE s = "COMMENT_START"
  <2>1. /\ class \notin {"C_slash", "C_star", "C_eof"} => next = RowOfStart[class]
        /\ class = "C_slash" => next = "IN_COMMENT_SINGLE"
        /\ class = "C_star" => next = "IN_COMMENT_MULTI"
        /\ class = "C_eof" => next = "IN_ERROR"
    BY <1>1, <1>3, <1>5, <1>8, <1>12
  <2> QED
    BY <1>2, <1>3, <1>5, <1>12, <2>1
<1>13. CASE s \in Comment \union {"IN_STRING"}
  <2>1. s \notin Plain
    BY <1>13 DEF Comment, Plain
  <2>2. s = "IN_STRING" => next = [Staying("IN_STRING") EXCEPT !["C_newline"] = "IN_ERROR",
                                      !["C_double_quote"] = "START"][class]
    BY <1>1 DEF Row
  <2>3. s = "IN_COMMENT_SINGLE" =>
          next = [Staying("IN_COMMENT_SINGLE") EXCEPT !["C_newline"] = "START"][class]
    BY <1>1 DEF Row
  <2>4. s = "IN_COMMENT_MULTI" =>
          next = [Staying("IN_COMMENT_MULTI") EXCEPT !["C_star"] = "SEEN_STAR_IN_COMMENT"][class]
    BY <1>1 DEF Row
  <2>5. s = "SEEN_STAR_IN_COMMENT" =>
          next = [Staying("IN_COMMENT_MULTI") EXCEPT !["C_star"] = "SEEN_STAR_IN_COMMENT",
                                                     !["C_slash"] = "START"][class]
    BY <1>1 DEF Row
  <2>6. \A v : DOMAIN Staying(v) = Classes /\ \A x \in Classes : Staying(v)[x] = IF x = "C_eof" THEN "IN_ERROR" ELSE v
    BY DEF Staying, Classes
  <2> HIDE DEF Staying
  <2> QED
    BY <1>3, <1>13, <2>1, <2>2, <2>3, <2>4, <2>5, <2>6 DEF Comment
<1>14. CASE s = "IN_ERROR"
  BY <1>3, <1>14 DEF Plain
<1> QED
  BY <1>9, <1>10, <1>11, <1>12, <1>13, <1>14 DEF States

(* A word in progress at position i, which began at p.                     *)
InWord(text, p, i, start, first, S) ==
  p = start + 1 /\ p <= i /\ text[p] = first /\ \A j \in p + 1 .. i : text[j] \in S

(* What the state says of the item in progress at position i, which begins *)
(* at p.                                                                   *)
Fits(text, p, s, i, start) ==
  /\ s \in {"START", "IN_SYMBOL"} => p = i + 1
  /\ s = "IN_SYMBOL" => start = i
  /\ s = "IN_ID" => InWord(text, p, i, start, "a", {"a", "1"})
  /\ s = "IN_NUM" => InWord(text, p, i, start, "1", {"1"})
  /\ s = "IN_STRING" => InWord(text, p, i, start, "quote", Chars \ {"quote", "newline"})
  /\ s = "COMMENT_START" =>
       p = i /\ text[p] = "/" /\ (start + 1 = p \/ Grammar!CharAt(text, p + 1) \in {"/", "*"})
  /\ s = "IN_COMMENT_SINGLE" =>
       /\ p + 1 <= i /\ text[p] = "/" /\ text[p + 1] = "/"
       /\ \A j \in p .. i : text[j] # "newline"
  /\ s \in {"IN_COMMENT_MULTI", "SEEN_STAR_IN_COMMENT"} =>
       /\ p + 1 <= i /\ text[p] = "/" /\ text[p + 1] = "*"
       /\ \A j \in Grammar!CommentEnds(text, p) : i + 1 < j
       /\ s = "SEEN_STAR_IN_COMMENT" <=> (p + 2 <= i /\ text[i] = "*")

(* The character c ends the item in progress.                              *)
AtBoundary(c) ==
  \/ state \in {"START", "IN_SYMBOL"}
  \/ state = "IN_ID" /\ c \notin {"a", "1"}
  \/ state = "IN_NUM" /\ c # "1"
  \/ state = "COMMENT_START" /\ c \notin {"/", "*"}
  \/ state = "IN_COMMENT_SINGLE" /\ c = "newline"

LEMMA EndedIs ==
  ASSUME IInv, outcome = "lexing", NEW c, NEW next, Leaves(next),
         state \in {"IN_ID", "IN_NUM", "IN_STRING"}
  PROVE  \E t \in Token :
           /\ Ended(c, next) = <<t>>
           /\ t.start = IF state = "IN_STRING" /\ next = "START" THEN token_start + 1 ELSE token_start
           /\ t.len = position - t.start
           /\ state = "IN_ID" => t.kind = "ID"
           /\ state = "IN_NUM" => t.kind = "NUM"
           /\ state = "IN_STRING" => t.kind = "STRING"
<1> DEFINE first == IF state = "IN_STRING" /\ next = "START" THEN token_start + 1 ELSE token_start
           t == create_token(Append(input, c), state, first, position - first, LineAt(c))
<1>1. /\ position \in Nat /\ token_start \in Nat /\ token_start <= position
      /\ state = "IN_STRING" => token_start < position
      /\ LineAt(c) \in Nat
  BY DEF IInv, TypeOK, InProgress, LineAt
<1>2. first \in Nat /\ position - first \in Nat
  BY <1>1
<1>3. Ended(c, next) = <<t>>
  BY DEF Ended
<1> HIDE DEF first
<1>4. /\ t.kind = determine_token_type(state, Append(input, c)[first + 1], position - first)
      /\ t.start = first /\ t.len = position - first
  BY DEF create_token
<1>5. t \in Token
  BY <1>1, <1>2, KindIsKind DEF create_token, Token
<1>6. t.start = IF state = "IN_STRING" /\ next = "START" THEN token_start + 1 ELSE token_start
  BY <1>4 DEF first
<1> HIDE DEF t
<1>7. /\ state = "IN_ID" => t.kind = "ID"
      /\ state = "IN_NUM" => t.kind = "NUM"
      /\ state = "IN_STRING" => t.kind = "STRING"
  BY <1>4 DEF determine_token_type
<1> QED
  BY <1>3, <1>4, <1>5, <1>6, <1>7

LEMMA SlashEnded ==
  ASSUME IInv, outcome = "lexing", NEW c, NEW next, Leaves(next), state = "COMMENT_START",
         token_start + 1 = position, input[position] = "/"
  PROVE  \E t \in Token : /\ Ended(c, next) = <<t>> /\ t.start = token_start
                          /\ t.len = 1 /\ t.kind = "SYMBOL"
<1> DEFINE t == create_token(Append(input, c), state, token_start, position - token_start, LineAt(c))
<1>1. position - token_start = 1 /\ token_start \in Nat /\ LineAt(c) \in Nat
  BY DEF IInv, TypeOK, LineAt
<1>6. Append(input, c)[token_start + 1] = "/"
  BY <1>1 DEF IInv, TypeOK, InProgress
<1>2. Ended(c, next) = <<t>>
  BY DEF Ended
<1>3. t.kind = determine_token_type("COMMENT_START", "/", 1) /\ t.start = token_start /\ t.len = 1
  BY <1>1, <1>6 DEF create_token
<1>4. t \in Token
  BY <1>1, KindIsKind DEF create_token, Token
<1> HIDE DEF t
<1>5. t.kind = "SYMBOL"
  BY <1>3 DEF determine_token_type
<1> QED
  BY <1>2, <1>3, <1>4, <1>5

LEMMA AloneIs ==
  ASSUME IInv, outcome = "lexing", NEW c \in {"(", "*", "!"}, NEW class, NEW next, IsSymbol(class, next)
  PROVE  \E t \in Token :
           /\ Alone(c, class, next) = <<t>>
           /\ t.start = position /\ t.len = 1
           /\ t.kind = IF c = "!" THEN "UNRECOGNISED" ELSE "SYMBOL"
<1> DEFINE t == create_token(Append(input, c), "IN_SYMBOL", position, 1, LineAt(c))
<1>1. position \in Nat /\ LineAt(c) \in Nat /\ input \in Seq(Chars \union {EOF}) /\ position = Len(input)
  BY DEF IInv, TypeOK, InProgress, LineAt
<1>2. Append(input, c)[position + 1] = c
  BY <1>1
<1>3. Alone(c, class, next) = <<t>>
  BY DEF Alone
<1>4. t.kind = determine_token_type("IN_SYMBOL", c, 1) /\ t.start = position /\ t.len = 1
  BY <1>2 DEF create_token
<1>5. t \in Token
  BY <1>1, KindIsKind DEF create_token, Token
<1> HIDE DEF t
<1>6. t.kind = IF c = "!" THEN "UNRECOGNISED" ELSE "SYMBOL"
  BY <1>4 DEF determine_token_type
<1> QED
  BY <1>3, <1>4, <1>5, <1>6

(* What the character that ends an item makes of it.                       *)
LEMMA ItemEnds ==
  ASSUME IInv, outcome = "lexing",
         NEW c \in Chars, c # "wide", NEW class \in ClassesOf(c),
         NEW next, next = transition[state][class],
         NEW text \in Seq(Chars), position < Len(text), text[position + 1] = c,
         \A j \in 1 .. position : text[j] = input[j],
         Grammar!Separated(text),
         NEW p \in 1 .. position + 1, Kept(text, p, tokens),
         Fits(text, p, state, position, token_start), AtBoundary(c)
  PROVE  /\ Kept(text, position + 1, tokens \o Ended(c, next))
         /\ state = "IN_NUM" => c # "a"
         /\ state \in {"IN_ID", "IN_NUM"} =>
              c # "quote" /\ (c = "/" => Grammar!CharAt(text, position + 2) \in {"/", "*"})
<1>1. /\ input \in Seq(Chars \union {EOF}) /\ position = Len(input) /\ position \in Nat
      /\ state \in States /\ state # "IN_ERROR" /\ token_start \in Nat /\ token_start <= position
      /\ tokens \in Seq(Token)
  BY DEF IInv, TypeOK, InProgress
<1>2. Len(text) \in Nat /\ position + 1 \in 1 .. Len(text) /\ p \in 1 .. Len(text) /\ p \in Nat
  BY <1>1
<1>3. tokens \o <<>> = tokens
  BY <1>1
<1>4. \A item : item = Grammar!ItemAt(text, p) => Grammar!Apart(text, item)
  <2>1. p \in Grammar!Starts(text) \ {Len(text) + 1}
    BY <1>2 DEF Kept
  <2> QED
    BY <2>1 DEF Grammar!Separated, Grammar!Items
<1>5. Grammar!CharAt(text, position + 1) = c
  BY <1>2 DEF Grammar!CharAt
<1>6. CASE state \in {"START", "IN_SYMBOL"}
  BY <1>3, <1>6 DEF Fits, Ended
<1>7. CASE state = "IN_ID"
  <2>1. next # state /\ next \notin Comment /\ c \notin {"a", "1"} /\ state \notin Comment
    BY <1>1, <1>7, NextOf DEF Plain, AtBoundary, Comment, Chars
  <2>2. PICK t \in Token : /\ Ended(c, next) = <<t>> /\ t.start = token_start
                           /\ t.len = position - t.start /\ t.kind = "ID"
    BY <1>7, <2>1, EndedIs DEF Leaves
  <2>3. /\ p = token_start + 1 /\ p <= position /\ text[p] = "a"
        /\ \A j \in p + 1 .. position : text[j] \in {"a", "1"}
    BY <1>7 DEF Fits, InWord
  <2>4. /\ position + 1 \in p + 1 .. Len(text) /\ t.start = p - 1 /\ t.len = position + 1 - p
        /\ \A j \in p .. position + 1 - 1 : j = p \/ j \in p + 1 .. position
    BY <1>1, <1>2, <2>2, <2>3
  <2>5. Kept(text, position + 1, tokens \o <<t>>)
        /\ Grammar!ItemAt(text, p) = Grammar!Item("ID", p, position + 1)
    <3>1. \A j \in p .. position + 1 - 1 : text[j] \in {"a", "1"}
      BY <2>3, <2>4
    <3>2. PICK k \in p + 1 .. Len(text) : k = position + 1
      BY <2>4
    <3>3. /\ text[k] \notin {"a", "1"} /\ t.len = k - p
          /\ \A j \in p .. k - 1 : text[j] \in {"a", "1"}
      BY <1>1, <1>2, <2>1, <2>2, <2>4, <3>1, <3>2
    <3>4. Kept(text, k, tokens \o <<t>>) /\ Grammar!ItemAt(text, p) = Grammar!Item("ID", p, k)
      BY <1>1, <1>2, <2>2, <2>3, <2>4, <3>3, PassWord
    <3> QED
      BY <3>2, <3>4
  <2>6. Grammar!Apart(text, Grammar!Item("ID", p, position + 1))
    BY <1>4, <2>5
  <2>7. c # "quote" /\ (c = "/" => Grammar!CharAt(text, position + 2) \in {"/", "*"})
    <3>1. position + 1 + 1 = position + 2
      BY <1>1
    <3> QED
      BY <1>5, <2>6, <3>1 DEF Grammar!Apart, Grammar!Item
  <2> QED
    BY <1>7, <2>2, <2>5, <2>7
<1>8. CASE state = "IN_NUM"
  <2>1. next # state /\ next \notin Comment /\ c # "1" /\ state \notin Comment
    BY <1>1, <1>8, NextOf DEF Plain, AtBoundary, Comment, Chars
  <2>2. PICK t \in Token : /\ Ended(c, next) = <<t>> /\ t.start = token_start
                           /\ t.len = position - t.start /\ t.kind = "NUM"
    BY <1>8, <2>1, EndedIs DEF Leaves
  <2>3. /\ p = token_start + 1 /\ p <= position /\ text[p] = "1"
        /\ \A j \in p + 1 .. position : text[j] \in {"1"}
    BY <1>8 DEF Fits, InWord
  <2>4. /\ position + 1 \in p + 1 .. Len(text) /\ t.start = p - 1 /\ t.len = position + 1 - p
        /\ \A j \in p .. position + 1 - 1 : j = p \/ j \in p + 1 .. position
    BY <1>1, <1>2, <2>2, <2>3
  <2>8. \A j \in p .. position + 1 - 1 : text[j] = "1"
    BY <2>3, <2>4
  <2>5. Kept(text, position + 1, tokens \o <<t>>)
    BY <1>1, <1>2, <2>1, <2>2, <2>3, <2>4, <2>8, PassNumber
  <2>9. Grammar!ItemAt(text, p) = Grammar!Item("NUM", p, position + 1)
    <3>1. PICK k \in p .. Len(text) + 1 : k = position + 1
      BY <2>4
    <3>2. text[k] # "1" /\ \A j \in p .. k - 1 : text[j] = "1"
      BY <1>1, <1>2, <2>1, <2>8, <3>1
    <3>3. Grammar!ItemAt(text, p) = Grammar!Item("NUM", p, k)
      BY <1>2, <2>3, <3>2, NumberItem
    <3> QED
      BY <3>1, <3>3
  <2>6. Grammar!Apart(text, Grammar!Item("NUM", p, position + 1))
    BY <1>4, <2>9
  <2>7. c # "quote" /\ c # "a" /\ (c = "/" => Grammar!CharAt(text, position + 2) \in {"/", "*"})
    <3>1. position + 1 + 1 = position + 2
      BY <1>1
    <3> QED
      BY <1>5, <2>6, <3>1 DEF Grammar!Apart, Grammar!Item
  <2> QED
    BY <1>8, <2>2, <2>5, <2>7
<1>9. CASE state = "COMMENT_START"
  <2>1. next # state /\ next \notin Comment /\ c \notin {"/", "*"} /\ state \notin Comment
    BY <1>1, <1>9, NextOf DEF Plain, AtBoundary, Comment, Chars
  <2>2. /\ p = position /\ text[p] = "/"
        /\ token_start + 1 = p \/ Grammar!CharAt(text, p + 1) \in {"/", "*"}
    BY <1>9 DEF Fits
  <2>3. token_start + 1 = position /\ p + 1 = position + 1
    BY <1>5, <2>1, <2>2
  <2>4. input[position] = "/"
    BY <1>1, <1>2, <2>2, <2>3
  <2>5. PICK t \in Token : /\ Ended(c, next) = <<t>> /\ t.start = token_start
                           /\ t.len = 1 /\ t.kind = "SYMBOL"
    BY <1>9, <2>1, <2>3, <2>4, SlashEnded DEF Leaves
  <2>6. p + 1 <= Len(text) /\ text[p + 1] \notin {"/", "*"} /\ t.start = p - 1
    BY <1>1, <1>2, <2>1, <2>2, <2>3, <2>5
  <2>7. Kept(text, p + 1, tokens \o <<t>>)
    BY <1>1, <1>2, <2>2, <2>5, <2>6, PassSlash
  <2> QED
    BY <1>9, <2>3, <2>5, <2>7
<1>10. CASE state = "IN_COMMENT_SINGLE"
  <2>1. /\ c = "newline" /\ p + 1 <= position /\ text[p] = "/" /\ text[p + 1] = "/"
        /\ \A j \in p .. position : text[j] # "newline"
    BY <1>10 DEF AtBoundary, Fits
  <2>2. position + 1 \in p + 1 .. Len(text) /\ position + 1 - 1 = position
    BY <1>1, <1>2, <2>1
  <2>3. Kept(text, position + 1, tokens)
    BY <1>1, <1>2, <2>1, <2>2, PassLine
  <2>4. Ended(c, next) = <<>>
    BY <1>10 DEF Ended, Leaves, Comment
  <2> QED
    BY <1>3, <1>10, <2>3, <2>4
<1> QED
  BY <1>6, <1>7, <1>8, <1>9, <1>10 DEF AtBoundary

(* A character that is where an item begins.                               *)
LEMMA ItemBegins ==
  ASSUME IInv, outcome = "lexing",
         NEW c \in Chars, c # "wide", NEW class \in ClassesOf(c),
         NEW next, next = transition[state][class], next # "IN_ERROR",
         NEW text \in Seq(Chars), position < Len(text), text[position + 1] = c,
         NEW list \in Seq(Token), Kept(text, position + 1, list), AtBoundary(c),
         state = "IN_SYMBOL" => token_start = position,
         state = "IN_NUM" => c # "a",
         state \in {"IN_ID", "IN_NUM"} =>
           c # "quote" /\ (c = "/" => Grammar!CharAt(text, position + 2) \in {"/", "*"})
  PROVE  \E p \in 1 .. position + 2 :
           /\ Kept(text, p, list \o Alone(c, class, next))
           /\ Fits(text, p, next, position + 1, StartAfter(class, next))
<1>1. /\ position \in Nat /\ state \in States /\ state # "IN_ERROR"
      /\ state \in Plain \/ (state = "IN_COMMENT_SINGLE" /\ c = "newline")
  BY DEF IInv, TypeOK, InProgress, AtBoundary, Plain
<1>2. PICK i \in 1 .. Len(text) : i = position + 1
  BY <1>1
<1>3. /\ Len(text) \in Nat /\ text[i] = c /\ Kept(text, i, list) /\ list \o <<>> = list
      /\ i \in 1 .. position + 2 /\ i + 1 \in 1 .. position + 2
      /\ position # i /\ i + 1 = position + 2
  BY <1>1, <1>2
<1>4. /\ c \in {"blank", "newline", "a", "1", "quote", "/", "*", "(", "!", "#"}
      /\ c # EOF
  BY DEF Chars, EOF
<1>5. class \in {"C_symbol", "C_star"} <=> c \in {"*", "(", "!"}
  BY <1>1, NextOf
<1>6. CASE c \in {"blank", "newline"}
  <2>1. next = "START"
    BY <1>1, <1>4, <1>6, NextOf
  <2>2. Alone(c, class, next) = <<>>
    BY <1>5, <1>6 DEF Alone, IsSymbol
  <2>3. Kept(text, i + 1, list)
    BY <1>3, <1>6, PassSpace
  <2>4. Fits(text, i + 1, next, i, StartAfter(class, next))
    BY <2>1 DEF Fits
  <2> QED
    BY <1>2, <1>3, <2>2, <2>3, <2>4
<1>7. CASE c \in {"*", "(", "!"}
  <2>1. /\ next \in {"START", "IN_SYMBOL"}
        /\ IsSymbol(class, next)
    <3>1. next \in {"START", "IN_SYMBOL"}
      BY <1>1, <1>7, NextOf DEF AtBoundary
    <3> QED
      BY <1>5, <1>7, <3>1 DEF IsSymbol, Comment
  <2>2. PICK t \in Token : /\ Alone(c, class, next) = <<t>> /\ t.start = position /\ t.len = 1
                           /\ t.kind = IF c = "!" THEN "UNRECOGNISED" ELSE "SYMBOL"
    BY <1>7, <2>1, AloneIs
  <2>3. Kept(text, i + 1, list \o <<t>>)
    <3>1. t.start = i - 1
      BY <1>1, <1>2, <2>2
    <3> QED
      BY <1>3, <1>7, <2>2, <3>1, PassSymbol
  <2>4. StartAfter(class, next) = i
    BY <1>2, <2>1 DEF StartAfter
  <2>5. Fits(text, i + 1, next, i, i)
    BY <2>1 DEF Fits
  <2> QED
    BY <1>2, <1>3, <2>2, <2>3, <2>4, <2>5
<1>8. CASE c \in {"a", "1", "quote", "/"}
  <2>1. Alone(c, class, next) = <<>> /\ ~IsSymbol(class, next)
    BY <1>5, <1>8 DEF Alone, IsSymbol
  <2>2. /\ c = "a" => next = "IN_ID" /\ state \notin {"IN_ID", "IN_NUM"}
        /\ c = "1" => next = "IN_NUM" /\ state \notin {"IN_ID", "IN_NUM"}
        /\ c = "quote" => next = "IN_STRING" /\ state \notin {"IN_ID", "IN_NUM"}
        /\ c = "/" => next = "COMMENT_START" /\ state # "COMMENT_START"
    BY <1>1, <1>8, NextOf DEF AtBoundary
  <2>3. state \notin {"IN_ID", "IN_NUM"} => StartAfter(class, next) = position
    <3> SUFFICES ASSUME state \notin {"IN_ID", "IN_NUM"} PROVE StartAfter(class, next) = position
      OBVIOUS
    <3>1. state \in {"START", "IN_SYMBOL", "COMMENT_START"}
      BY <1>1, <1>8 DEF Plain
    <3>2. state \in {"START", "COMMENT_START"} => Leaves(next)
      BY <1>8, <2>2 DEF Leaves, Comment
    <3> QED
      BY <2>1, <3>1, <3>2 DEF StartAfter
  <2>4. Fits(text, i, next, i, StartAfter(class, next))
    <3>1. c # "/" => StartAfter(class, next) + 1 = i
      BY <1>2, <1>8, <2>2, <2>3
    <3>2. c = "/" => StartAfter(class, next) + 1 = i \/ Grammar!CharAt(text, i + 1) \in {"/", "*"}
      <4>1. CASE state \in {"IN_ID", "IN_NUM"}
        BY <1>3, <4>1
      <4>2. CASE state \notin {"IN_ID", "IN_NUM"}
        BY <1>2, <2>3, <4>2
      <4> QED
        BY <4>1, <4>2
    <3>3. \A j \in i + 1 .. i : FALSE
      BY <1>2
    <3>4. i <= i
      BY <1>2
    <3> HIDE <1>4
    <3>5. CASE c = "a"
      BY <1>3, <2>2, <3>1, <3>3, <3>4, <3>5 DEF Fits, InWord
    <3>6. CASE c = "1"
      BY <1>3, <2>2, <3>1, <3>3, <3>4, <3>6 DEF Fits, InWord
    <3>7. CASE c = "quote"
      BY <1>3, <2>2, <3>1, <3>3, <3>4, <3>7 DEF Fits, InWord
    <3>8. CASE c = "/"
      BY <1>3, <2>2, <3>2, <3>8 DEF Fits
    <3> QED
      BY <1>8, <3>5, <3>6, <3>7, <3>8
  <2> QED
    BY <1>2, <1>3, <2>1, <2>4
<1>9. CASE c = "#"
  BY <1>1, <1>9, NextOf
<1> QED
  BY <1>4, <1>6, <1>7, <1>8, <1>9

(* A character inside the item in progress, or its last.                   *)
LEMMA ItemGoesOn ==
  ASSUME IInv, outcome = "lexing",
         NEW c \in Chars, c # "wide", NEW class \in ClassesOf(c),
         NEW next, next = transition[state][class], next # "IN_ERROR",
         NEW text \in Seq(Chars), position < Len(text), text[position + 1] = c,
         NEW p \in 1 .. position + 1, Kept(text, p, tokens),
         Fits(text, p, state, position, token_start), ~AtBoundary(c)
  PROVE  /\ \E q \in 1 .. position + 2 :
              /\ Kept(text, q, tokens \o Ended(c, next))
              /\ Fits(text, q, next, position + 1, StartAfter(class, next))
         /\ Alone(c, class, next) = <<>>
<1>1. /\ position \in Nat /\ state \in States /\ state # "IN_ERROR" /\ token_start \in Nat
      /\ tokens \in Seq(Token) /\ state \notin {"START", "IN_SYMBOL"}
  BY DEF IInv, TypeOK, InProgress, AtBoundary
<1>2. PICK i \in 1 .. Len(text) : i = position + 1
  BY <1>1
<1>3. /\ Len(text) \in Nat /\ text[i] = c /\ tokens \o <<>> = tokens
      /\ p \in 1 .. position + 2 /\ i + 1 \in 1 .. position + 2 /\ i + 1 = position + 2 /\ p \in 1 .. Len(text)
  BY <1>1, <1>2
<1>4. /\ c \in Chars /\ c # EOF /\ c # "wide"
      /\ class \in {"C_symbol", "C_star"} <=> c \in {"*", "(", "!"}
  BY <1>1, NextOf DEF Chars, EOF
<1>5. \A a, b \in Nat : \A j \in a .. b + 1 : j \in a .. b \/ j = b + 1
  OBVIOUS
<1>6. CASE state \in {"IN_ID", "IN_NUM"}
  <2>1. /\ state = "IN_ID" => c \in {"a", "1"} /\ next = "IN_ID"
        /\ state = "IN_NUM" => c = "1" /\ next = "IN_NUM"
    BY <1>1, <1>4, <1>6, NextOf DEF AtBoundary, Plain
  <2>2. Alone(c, class, next) = <<>> /\ ~IsSymbol(class, next) /\ Ended(c, next) = <<>>
        /\ StartAfter(class, next) = token_start
    BY <1>4, <1>6, <2>1 DEF Alone, IsSymbol, Ended, StartAfter, Leaves
  <2>3. p + 1 \in Nat /\ \A j \in p + 1 .. i : j \in p + 1 .. position \/ j = i
    BY <1>1, <1>2
  <2>4. p <= position => p <= i
    BY <1>1, <1>2
  <2>5. CASE state = "IN_ID"
    <3>1. InWord(text, p, position, token_start, "a", {"a", "1"})
      BY <2>5 DEF Fits
    <3>2. InWord(text, p, i, token_start, "a", {"a", "1"})
      BY <1>3, <2>1, <2>3, <2>4, <2>5, <3>1 DEF InWord
    <3>3. Fits(text, p, next, i, token_start)
      BY <2>1, <2>5, <3>2 DEF Fits
    <3> QED
      BY <1>2, <1>3, <2>2, <3>3
  <2>6. CASE state = "IN_NUM"
    <3>1. InWord(text, p, position, token_start, "1", {"1"})
      BY <2>6 DEF Fits
    <3>2. InWord(text, p, i, token_start, "1", {"1"})
      BY <1>3, <2>1, <2>3, <2>4, <2>6, <3>1 DEF InWord
    <3>3. Fits(text, p, next, i, token_start)
      BY <2>1, <2>6, <3>2 DEF Fits
    <3> QED
      BY <1>2, <1>3, <2>2, <3>3
  <2> QED
    BY <1>6, <2>5, <2>6
<1>7. CASE state = "IN_STRING"
  <2>1. /\ c # "newline" /\ next = IF c = "quote" THEN "START" ELSE "IN_STRING"
    BY <1>1, <1>4, <1>7, NextOf
  <2>2. Alone(c, class, next) = <<>> /\ ~IsSymbol(class, next)
    BY <1>4, <2>1 DEF Alone, IsSymbol
  <2>3. /\ p = token_start + 1 /\ p <= position /\ text[p] = "quote"
        /\ \A j \in p + 1 .. position : text[j] \in Chars \ {"quote", "newline"}
    BY <1>7 DEF Fits, InWord
  <2>4. CASE c = "quote"
    <3>1. Leaves(next)
      BY <1>7, <2>1, <2>4 DEF Leaves, Comment
    <3>2. PICK t \in Token : /\ Ended(c, next) = <<t>> /\ t.start = token_start + 1
                             /\ t.len = position - t.start /\ t.kind = "STRING"
      BY <1>7, <2>1, <2>4, <3>1, EndedIs
    <3>3. t.start = p /\ t.len = i - p - 1 /\ p < i /\ i <= Len(text) /\ p \in Nat /\ p >= 1 /\ i \in Nat
          /\ \A j \in p + 1 .. i - 1 : text[j] \notin {"quote", "newline"}
      BY <1>1, <1>2, <2>3, <3>2
    <3>4. Kept(text, i + 1, tokens \o <<t>>)
      BY <1>1, <1>3, <2>3, <2>4, <3>2, <3>3, PassString
    <3>5. Fits(text, i + 1, next, i, StartAfter(class, next))
      BY <2>1, <2>4 DEF Fits
    <3> QED
      BY <1>2, <1>3, <2>2, <3>2, <3>4, <3>5
  <2>5. CASE c # "quote"
    <3>1. Ended(c, next) = <<>> /\ StartAfter(class, next) = token_start
      BY <1>7, <2>1, <2>2, <2>5 DEF Ended, StartAfter, Leaves
    <3>2. p <= i /\ \A j \in p + 1 .. i : j \in p + 1 .. position \/ j = i
      BY <1>1, <1>2, <2>3
    <3>3. InWord(text, p, i, token_start, "quote", Chars \ {"quote", "newline"})
      BY <1>3, <1>4, <2>1, <2>3, <2>5, <3>2 DEF InWord
    <3>4. Fits(text, p, next, i, token_start)
      BY <2>1, <2>5, <3>3 DEF Fits
    <3> QED
      BY <1>2, <1>3, <2>2, <3>1, <3>4
  <2> QED
    BY <2>4, <2>5
<1>8. CASE state = "COMMENT_START"
  <2>1. /\ (c = "/" /\ next = "IN_COMMENT_SINGLE") \/ (c = "*" /\ next = "IN_COMMENT_MULTI")
        /\ next \in Comment
    BY <1>1, <1>4, <1>8, NextOf DEF AtBoundary, Plain, Comment
  <2>2. Alone(c, class, next) = <<>> /\ Ended(c, next) = <<>>
    BY <2>1 DEF Alone, IsSymbol, Ended, Leaves
  <2>3. p = position /\ text[p] = "/" /\ p + 1 = i
    BY <1>2, <1>8 DEF Fits
  <2>4. CASE c = "/"
    <3>1. /\ p + 1 <= i /\ text[p + 1] = "/" /\ \A j \in p .. i : j = p \/ j = i
      BY <1>1, <1>2, <1>3, <2>3, <2>4
    <3>2. next = "IN_COMMENT_SINGLE"
      BY <2>1, <2>4
    <3>3. Fits(text, p, next, i, StartAfter(class, next))
      BY <1>3, <2>3, <2>4, <3>1, <3>2 DEF Fits
    <3> QED
      BY <1>2, <1>3, <2>2, <3>3
  <2>5. CASE c = "*"
    <3>1. /\ p + 1 <= i /\ text[p + 1] = "*" /\ ~(p + 2 <= i)
          /\ \A j \in Grammar!CommentEnds(text, p) : i + 1 < j
      BY <1>1, <1>2, <1>3, <2>3, <2>5 DEF Grammar!CommentEnds
    <3>2. next = "IN_COMMENT_MULTI"
      BY <2>1, <2>5
    <3>3. Fits(text, p, next, i, StartAfter(class, next))
      BY <2>3, <3>1, <3>2 DEF Fits
    <3> QED
      BY <1>2, <1>3, <2>2, <3>3
  <2> QED
    BY <2>1, <2>4, <2>5
<1>9. CASE state = "IN_COMMENT_SINGLE"
  <2>1. c # "newline" /\ next = "IN_COMMENT_SINGLE" /\ next \in Comment
    BY <1>1, <1>4, <1>9, NextOf DEF AtBoundary, Comment
  <2>2. Alone(c, class, next) = <<>> /\ Ended(c, next) = <<>>
    BY <2>1 DEF Alone, IsSymbol, Ended, Leaves
  <2>3. /\ p + 1 <= position /\ text[p] = "/" /\ text[p + 1] = "/"
        /\ \A j \in p .. position : text[j] # "newline"
    BY <1>9 DEF Fits
  <2>4. /\ p + 1 <= i /\ \A j \in p .. i : j \in p .. position \/ j = i
    BY <1>1, <1>2, <2>3
  <2>5. Fits(text, p, next, i, StartAfter(class, next))
    BY <1>3, <2>1, <2>3, <2>4 DEF Fits
  <2> QED
    BY <1>2, <1>3, <2>2, <2>5
<1>10. CASE state \in {"IN_COMMENT_MULTI", "SEEN_STAR_IN_COMMENT"}
  <2>1. /\ next = IF c = "*" THEN "SEEN_STAR_IN_COMMENT"
                  ELSE IF c = "/" /\ state = "SEEN_STAR_IN_COMMENT" THEN "START"
                  ELSE "IN_COMMENT_MULTI"
    BY <1>1, <1>4, <1>10, NextOf
  <2>2. Ended(c, next) = <<>>
    BY <1>10 DEF Ended, Leaves, Comment
  <2>3. Alone(c, class, next) = <<>>
    BY <1>4, <2>1 DEF Alone, IsSymbol, Comment
  <2>4. /\ p + 1 <= position /\ text[p] = "/" /\ text[p + 1] = "*"
        /\ \A j \in Grammar!CommentEnds(text, p) : position + 1 < j
        /\ state = "SEEN_STAR_IN_COMMENT" <=> (p + 2 <= position /\ text[position] = "*")
    BY <1>10 DEF Fits
  <2>5. i + 1 \in Grammar!CommentEnds(text, p)
          <=> c = "/" /\ state = "SEEN_STAR_IN_COMMENT"
    <3>1. i + 1 - 2 = position /\ i + 1 - 1 = i /\ i + 1 <= Len(text) + 1
      BY <1>1, <1>2
    <3>2. i + 1 \in p + 4 .. Len(text) + 1 <=> p + 2 <= position
      BY <1>1, <1>2, <3>1
    <3>3. i + 1 \in Grammar!CommentEnds(text, p)
            <=> p + 2 <= position /\ text[position] = "*" /\ text[i] = "/"
      BY <3>1, <3>2 DEF Grammar!CommentEnds
    <3> QED
      BY <1>3, <2>4, <3>3
  <2>6. \A j \in Grammar!CommentEnds(text, p) : j \in Nat /\ i < j
    BY <1>1, <1>2, <2>4 DEF Grammar!CommentEnds
  <2>7. CASE c = "/" /\ state = "SEEN_STAR_IN_COMMENT"
    <3>1. next = "START"
      BY <2>1, <2>7
    <3>2. \A j \in Grammar!CommentEnds(text, p) : i + 1 <= j
      BY <1>2, <2>6
    <3>3. PICK k \in Grammar!CommentEnds(text, p) : k = i + 1
      BY <2>5, <2>7
    <3>4. Kept(text, k, tokens)
      BY <1>1, <1>3, <2>4, <3>2, <3>3, PassLong
    <3>5. Fits(text, i + 1, next, i, StartAfter(class, next))
      BY <3>1 DEF Fits
    <3> QED
      BY <1>2, <1>3, <2>2, <2>3, <3>3, <3>4, <3>5
  <2>8. CASE ~(c = "/" /\ state = "SEEN_STAR_IN_COMMENT")
    <3>1. \A j \in Grammar!CommentEnds(text, p) : i + 1 < j
      BY <1>2, <2>5, <2>6, <2>8
    <3>2. p + 1 <= i /\ p + 2 <= i
      BY <1>1, <1>2, <2>4
    <3>3. next \in {"IN_COMMENT_MULTI", "SEEN_STAR_IN_COMMENT"}
          /\ (next = "SEEN_STAR_IN_COMMENT" <=> text[i] = "*")
      BY <1>3, <2>1, <2>8
    <3>4. Fits(text, p, next, i, StartAfter(class, next))
      BY <2>4, <3>1, <3>2, <3>3 DEF Fits
    <3> QED
      BY <1>2, <1>3, <2>2, <2>3, <3>4
  <2> QED
    BY <2>7, <2>8
<1> QED
  BY <1>1, <1>6, <1>7, <1>8, <1>9, <1>10 DEF States, Comment

(* The text begins with what has been read.                                *)
Extends(text) ==
  Len(input) <= Len(text) /\ \A j \in 1 .. Len(input) : text[j] = input[j]

(* The lexer has made the tokens of the items that are over, and is inside *)
(* the item that begins at p.                                              *)
InPlace(text) ==
  \E p \in 1 .. position + 1 :
    Kept(text, p, tokens) /\ Fits(text, p, state, position, token_start)

(* Whatever comes next: the items of a text depend on what follows them.   *)
GrammarInv ==
  /\ outcome = "lexing" /\ Ascii =>
       \A text \in Seq(Chars) : Extends(text) /\ Grammar!Separated(text) => InPlace(text)
  /\ LexesAsGrammar
  /\ AcceptsAsGrammar

LEMMA NewTokensAreTokens ==
  ASSUME IInv, outcome = "lexing", NEW c, NEW class \in Classes, NEW next, next = transition[state][class]
  PROVE  Ended(c, next) \in Seq(Token) /\ Alone(c, class, next) \in Seq(Token)
<1>1. /\ position \in Nat /\ token_start \in Nat /\ token_start <= position
      /\ state = "IN_STRING" => token_start < position
      /\ LineAt(c) \in Nat
  BY DEF IInv, TypeOK, InProgress, LineAt
<1>2. Ended(c, next) \in Seq(Token)
  <2> DEFINE first == IF state = "IN_STRING" /\ next = "START"
                      THEN token_start + 1 ELSE token_start
             t == create_token(Append(input, c), state, first,
                               position - first, LineAt(c))
             B == Leaves(next) /\ state \notin {"START", "IN_SYMBOL"}
  <2>1. first \in Nat /\ position - first \in Nat
    BY <1>1
  <2>2. t \in Token
    BY <1>1, <2>1, KindIsKind DEF create_token, Token
  <2>3. Ended(c, next) = IF B THEN <<t>> ELSE <<>>
    BY DEF Ended
  <2>4. B \in BOOLEAN
    BY DEF Leaves
  <2> HIDE DEF t, B
  <2> QED
    BY <2>2, <2>3, <2>4, OneOrNone
<1>3. Alone(c, class, next) \in Seq(Token)
  <2> DEFINE t == create_token(Append(input, c), "IN_SYMBOL", position, 1, LineAt(c))
  <2>2. t \in Token
    BY <1>1, KindIsKind DEF create_token, Token
  <2>3. Alone(c, class, next) = IF IsSymbol(class, next) THEN <<t>> ELSE <<>>
    BY DEF Alone
  <2>4. IsSymbol(class, next) \in BOOLEAN
    BY DEF IsSymbol
  <2> HIDE DEF t
  <2> QED
    BY <2>2, <2>3, <2>4, OneOrNone
<1> QED
  BY <1>2, <1>3

LEMMA Regrouped ==
  ASSUME NEW S, NEW a \in Seq(S), NEW b \in Seq(S), NEW c \in Seq(S)
  PROVE  a \o (b \o c) = (a \o b) \o c
BY ConcatAssociative

(* The lexer stays in place, one character further.                        *)
LEMMA StaysInPlace ==
  ASSUME IInv, WordInProgress, GrammarInv, Ascii, outcome = "lexing",
         NEW c \in Chars, c # "wide", NEW class \in ClassesOf(c), Advance(c, class),
         NEW text \in Seq(Chars), Extends(text)', Grammar!Separated(text)
  PROVE  InPlace(text)'
<1> DEFINE next == transition[state][class]
<1>1. /\ input \in Seq(Chars \union {EOF}) /\ position = Len(input) /\ position \in Nat
      /\ state \in States /\ state # "IN_ERROR" /\ tokens \in Seq(Token) /\ class \in Classes
  BY ClassOfAscii DEF IInv, TypeOK, InProgress
<1>2. /\ input' = Append(input, c) /\ position' = position + 1 /\ next # "IN_ERROR"
      /\ tokens' = tokens \o NewTokens(c, class, next) /\ state' = next
      /\ token_start' = StartAfter(class, next)
  BY DEF Advance, Scan
<1>3. /\ position < Len(text) /\ text[position + 1] = c
      /\ \A j \in 1 .. position : text[j] = input[j]
      /\ Extends(text)
  <2>1. Len(input') = position + 1 /\ input'[position + 1] = c
        /\ \A j \in 1 .. position : input'[j] = input[j]
    BY <1>1, <1>2
  <2>2. Len(text) \in Nat /\ position + 1 \in 1 .. position + 1
        /\ \A j \in 1 .. position : j \in 1 .. position + 1
    BY <1>1
  <2> QED
    BY <1>1, <2>1, <2>2 DEF Extends
<1>4. PICK p \in 1 .. position + 1 :
        Kept(text, p, tokens) /\ Fits(text, p, state, position, token_start)
  BY <1>3 DEF GrammarInv, InPlace
<1>5. Ended(c, next) \in Seq(Token) /\ Alone(c, class, next) \in Seq(Token)
  <2> HIDE DEF next
  <2> QED
    BY <1>1, NewTokensAreTokens DEF next
<1>6. PICK ended : ended = Ended(c, next)
  OBVIOUS
<1>7. PICK alone : alone = Alone(c, class, next)
  OBVIOUS
<1>8. ended \in Seq(Token) /\ alone \in Seq(Token) /\ tokens' = tokens \o (ended \o alone)
  BY <1>2, <1>5, <1>6, <1>7 DEF NewTokens
<1>9. tokens' = (tokens \o ended) \o alone /\ tokens \o ended \in Seq(Token)
  <2>1. tokens \o ended \in Seq(Token)
    BY <1>1, <1>8, ConcatProperties
  <2>2. PICK before \in Seq(Token) : before = tokens
    BY <1>1
  <2>3. before \o (ended \o alone) = (before \o ended) \o alone
    BY <1>8, Regrouped
  <2> QED
    BY <1>8, <2>1, <2>2, <2>3
<1>10. \E q \in 1 .. position + 2 :
         Kept(text, q, (tokens \o ended) \o alone) /\ Fits(text, q, next, position + 1, StartAfter(class, next))
  <2>1. CASE AtBoundary(c)
    <3>1. /\ Kept(text, position + 1, tokens \o ended)
          /\ state = "IN_NUM" => c # "a"
          /\ state \in {"IN_ID", "IN_NUM"} =>
              c # "quote" /\ (c = "/" => Grammar!CharAt(text, position + 2) \in {"/", "*"})
      BY <1>3, <1>4, <1>6, <2>1, ItemEnds
    <3>2. state = "IN_SYMBOL" => token_start = position
      BY DEF WordInProgress
    <3> QED
      BY <1>2, <1>3, <1>7, <1>9, <2>1, <3>1, <3>2, ItemBegins
  <2>2. CASE ~AtBoundary(c)
    <3>1. PICK q \in 1 .. position + 2 :
            /\ Kept(text, q, tokens \o ended)
            /\ Fits(text, q, next, position + 1, StartAfter(class, next))
      BY <1>2, <1>3, <1>4, <1>6, <2>2, ItemGoesOn
    <3>2. alone = <<>>
      BY <1>2, <1>3, <1>4, <1>7, <2>2, ItemGoesOn
    <3>3. (tokens \o ended) \o <<>> = tokens \o ended
      BY <1>9
    <3> QED
      BY <3>1, <3>2, <3>3
  <2> QED
    BY <2>1, <2>2
<1>11. position' + 1 = position + 2
  BY <1>1, <1>2
<1> HIDE DEF next
<1> QED
  BY <1>2, <1>9, <1>10, <1>11 DEF InPlace

-----------------------------------------------------------------------------
LEMMA KindsOfItems ==
  ASSUME NEW text, NEW q
  PROVE  Grammar!ItemAt(text, q).kind \in Kinds \union {"SPACE", "COMMENT", "ERROR"}
<1> DEFINE All == Kinds \union {"SPACE", "COMMENT", "ERROR"}
<1>1. \A kind \in All : \A i, j : Grammar!Item(kind, i, j).kind \in All
  BY DEF Grammar!Item
<1>2. /\ \A k \in {"SPACE", "COMMENT", "ERROR", "ID", "NUM", "STRING", "SYMBOL", "UNRECOGNISED"} : k \in All
  BY DEF Kinds
<1> HIDE DEF All
<1>3. Grammar!Error(text, q).kind \in All
  BY <1>1, <1>2 DEF Grammar!Error
<1>4. Grammar!LongComment(text, q).kind \in All
  BY <1>1, <1>2, <1>3 DEF Grammar!LongComment
<1>5. Grammar!String(text, q).kind \in All
  <2>1. \A i, j, k : [Grammar!Item("STRING", i, j) EXCEPT !.next = k].kind = "STRING"
    BY DEF Grammar!Item
  <2> QED
    BY <1>2, <1>3, <2>1 DEF Grammar!String
<1> QED
  BY <1>1, <1>2, <1>3, <1>4, <1>5 DEF Grammar!ItemAt, All

(* A text with an item that is no item, or runs out, is not accepted.      *)
Refutes(text) ==
  \E q \in Grammar!Starts(text) :
    /\ q # Len(text) + 1
    /\ Grammar!ItemAt(text, q).kind = "ERROR" \/ Grammar!RunsOut(text, Grammar!ItemAt(text, q))

LEMMA Refuted ==
  ASSUME NEW text, Refutes(text)
  PROVE  ~(Grammar!WellFormed(text) /\ ~Grammar!RunsIntoEnd(text))
BY DEF Refutes, Grammar!WellFormed, Grammar!RunsIntoEnd, Grammar!Items

(* The item in progress at the end of the text.                            *)
LEMMA EndRefutes ==
  ASSUME NEW text \in Seq(Chars), NEW s \in States \ {"START", "IN_SYMBOL", "IN_ERROR"},
         NEW start \in Nat, NEW p \in 1 .. Len(text) + 1, NEW list,
         Kept(text, p, list), Fits(text, p, s, Len(text), start)
  PROVE  Refutes(text)
<1> DEFINE n == Len(text)
<1>1. n \in Nat /\ p \in Nat
  OBVIOUS
<1>2. p <= n
  BY DEF Fits, InWord, States, Comment
<1>3. p \in 1 .. n /\ p # n + 1 /\ n + 1 \in p .. n + 1 /\ n + 1 - 1 = n /\ Len(text) \in Nat /\ p \in Grammar!Starts(text)
  BY <1>1, <1>2 DEF Kept
<1>4. \A kind : LET item == Grammar!Item(kind, p, n + 1) IN
        item.kind = kind /\ item.start + item.len = n /\ item.start + 1 = p /\ item.start + 2 = p + 1
  BY <1>1 DEF Grammar!Item
<1>5. \A kind : Grammar!RunsOut(text, Grammar!Item(kind, p, n + 1))
                  <=> \/ kind \in {"ID", "NUM"}
                      \/ kind = "SYMBOL" /\ text[p] = "/"
                      \/ kind = "COMMENT" /\ text[p + 1] = "/"
  BY <1>4 DEF Grammar!RunsOut
<1>6. Grammar!Error(text, p).kind = "ERROR"
  BY DEF Grammar!Error, Grammar!Item
<1>7. CASE s = "IN_ID"
  <2>1. /\ text[p] = "a" /\ \A j \in p .. n + 1 - 1 : text[j] \in {"a", "1"}
    <3>1. \A j \in p .. n : j = p \/ j \in p + 1 .. n
      BY <1>1
    <3> QED
      BY <1>3, <1>7, <3>1 DEF Fits, InWord
  <2>2. Grammar!ItemAt(text, p) = Grammar!Item("ID", p, n + 1)
    BY <1>3, <2>1, WordItem
  <2> QED
    BY <1>3, <1>5, <2>2 DEF Refutes
<1>8. CASE s = "IN_NUM"
  <2>1. /\ text[p] = "1" /\ \A j \in p .. n + 1 - 1 : text[j] = "1"
    <3>1. \A j \in p .. n : j = p \/ j \in p + 1 .. n
      BY <1>1
    <3> QED
      BY <1>3, <1>8, <3>1 DEF Fits, InWord
  <2>2. Grammar!ItemAt(text, p) = Grammar!Item("NUM", p, n + 1)
    BY <1>3, <2>1, NumberItem
  <2> QED
    BY <1>3, <1>5, <2>2 DEF Refutes
<1>9. CASE s = "COMMENT_START"
  <2>1. text[p] = "/" /\ p = n
    BY <1>9 DEF Fits
  <2>2. Grammar!CharAt(text, p + 1) = "NUL" /\ ~("NUL" \in {"/", "*"})
    BY <1>1, <2>1 DEF Grammar!CharAt
  <2>3. Grammar!ItemAt(text, p) = Grammar!Item("SYMBOL", p, n + 1)
    BY <1>3, <2>1, <2>2, ShortItems
  <2> QED
    BY <1>3, <1>5, <2>1, <2>3 DEF Refutes
<1>10. CASE s = "IN_COMMENT_SINGLE"
  <2>1. /\ p + 1 <= n /\ text[p] = "/" /\ text[p + 1] = "/"
        /\ \A j \in p .. n + 1 - 1 : text[j] # "newline"
    BY <1>3, <1>10 DEF Fits
  <2>2. Grammar!ItemAt(text, p) = Grammar!Item("COMMENT", p, n + 1)
    BY <1>3, <2>1, LineCommentItem
  <2> QED
    BY <1>3, <1>5, <2>1, <2>2 DEF Refutes
<1>11. CASE s \in {"IN_COMMENT_MULTI", "SEEN_STAR_IN_COMMENT"}
  <2>1. /\ p + 1 <= n /\ text[p] = "/" /\ text[p + 1] = "*"
        /\ \A j \in Grammar!CommentEnds(text, p) : n + 1 < j
    BY <1>11 DEF Fits
  <2>2. Grammar!CommentEnds(text, p) = {}
    BY <1>1, <2>1 DEF Grammar!CommentEnds
  <2>3. Grammar!ItemAt(text, p) = Grammar!Error(text, p)
    BY <1>3, <2>1, <2>2, LongCommentItem
  <2> QED
    BY <1>3, <1>6, <2>3 DEF Refutes
<1>12. CASE s = "IN_STRING"
  <2>1. text[p] = "quote" /\ \A j \in p + 1 .. n + 1 - 1 : text[j] \notin {"quote", "newline"}
    BY <1>3, <1>12 DEF Fits, InWord
  <2>2. n + 1 \in p + 1 .. n + 1
    BY <1>1, <1>2
  <2>3. Grammar!ItemAt(text, p) = Grammar!Error(text, p)
    <3>1. PICK k \in p + 1 .. n + 1 : k = n + 1
      BY <2>2
    <3> QED
      BY <1>3, <2>1, <3>1, StringItem
  <2> QED
    BY <1>3, <1>6, <2>3 DEF Refutes
<1> QED
  BY <1>7, <1>8, <1>9, <1>10, <1>11, <1>12 DEF States, Comment

LEMMA InputIsText ==
  ASSUME IInv, WordInProgress, outcome = "lexing"
  PROVE  input \in Seq(Chars) /\ Extends(input)
<1>1. input \in Seq(Chars \union {EOF}) /\ Len(input) \in Nat
  BY DEF IInv, TypeOK
<1>2. \A i \in 1 .. Len(input) : input[i] \in Chars
  <2> SUFFICES ASSUME NEW i \in 1 .. Len(input) PROVE input[i] \in Chars
    OBVIOUS
  <2>1. input[i] \in Chars \union {EOF}
    BY <1>1, ElementOfSeq
  <2> QED
    BY <2>1 DEF WordInProgress
<1>3. input \in Seq(Chars)
  BY <1>1, <1>2, IsASeq
<1> QED
  BY <1>1, <1>3 DEF Extends

(* The whole text read, after its last character.                          *)
LEMMA TextIs ==
  ASSUME IInv, WordInProgress, outcome = "lexing", NEW c \in Chars \union {EOF}, input' = Append(input, c)
  PROVE  /\ c = EOF => Text' = input
         /\ c # EOF => Text' = Append(input, c)
<1>1. input \in Seq(Chars \union {EOF})
  BY DEF IInv, TypeOK
<1>2. input' # <<>> /\ Last' = c /\ Len(input') - 1 = Len(input)
  BY <1>1 DEF Last
<1>3. c = EOF => Text' = SubSeq(Append(input, c), 1, Len(input))
  BY <1>2 DEF Text
<1>4. SubSeq(Append(input, c), 1, Len(input)) = input
  BY <1>1
<1>5. c # EOF => Text' = Append(input, c)
  BY <1>2 DEF Text
<1> QED
  BY <1>3, <1>4, <1>5

(* Every error is an error of the text.                                    *)
LEMMA FailRefutes ==
  ASSUME IInv, WordInProgress, GrammarInv, Ascii, outcome = "lexing",
         NEW c \in Chars \union {EOF}, c # "wide", NEW class \in ClassesOf(c), Fail(c, class),
         Grammar!Separated(Text')
  PROVE  Refutes(Text')
<1> DEFINE next == transition[state][class]
<1>1. /\ input \in Seq(Chars \union {EOF}) /\ position = Len(input) /\ position \in Nat
      /\ state \in States /\ state # "IN_ERROR" /\ tokens \in Seq(Token) /\ token_start \in Nat
      /\ input \in Seq(Chars)
  BY InputIsText DEF IInv, TypeOK, InProgress
<1>2. input' = Append(input, c) /\ next = "IN_ERROR"
  BY DEF Fail, Scan
<1>3. CASE c = EOF
  <2>1. Text' = input
    BY <1>2, <1>3, TextIs
  <2>2. PICK p \in 1 .. position + 1 :
          Kept(input, p, tokens) /\ Fits(input, p, state, position, token_start)
    BY <1>1, <2>1, InputIsText DEF GrammarInv, InPlace
  <2>3. state \in States \ {"START", "IN_SYMBOL", "IN_ERROR"}
    BY <1>1, <1>2, <1>3, NextOf DEF Plain
  <2>4. Refutes(input)
    BY <1>1, <2>2, <2>3, EndRefutes
  <2> QED
    BY <2>1, <2>4
<1>4. CASE c # EOF
  <2> DEFINE text == Append(input, c)
  <2>1. Text' = text
    BY <1>2, <1>4, TextIs
  <2>2. /\ text \in Seq(Chars) /\ Len(text) = position + 1 /\ text[position + 1] = c
        /\ \A j \in 1 .. position : text[j] = input[j]
        /\ Extends(text) /\ c \in Chars
    BY <1>1, <1>4 DEF Extends
  <2> HIDE DEF text
  <2>3. Grammar!Separated(text)
    BY <2>1
  <2>4. PICK p \in 1 .. position + 1 :
          Kept(text, p, tokens) /\ Fits(text, p, state, position, token_start)
    BY <2>2, <2>3 DEF GrammarInv, InPlace
  <2>5. PICK k \in 1 .. Len(text) : k = Len(text) /\ k = position + 1
    BY <1>1, <2>2
  <2>6. Grammar!Error(text, k).kind = "ERROR" /\ \A i : Grammar!Error(text, i).kind = "ERROR"
    BY DEF Grammar!Error, Grammar!Item
  <2>7. \/ c = "#" /\ state \in Plain
        \/ c = "newline" /\ state = "IN_STRING"
    <3>1. state \in Plain =>
            /\ c \in {"blank", "newline"} => next = "START"
            /\ c = "a" => next = IF state = "IN_NUM" THEN "START" ELSE "IN_ID"
            /\ c = "1" => next = IF state = "IN_ID" THEN "IN_ID" ELSE "IN_NUM"
            /\ c = "quote" => next = "IN_STRING"
            /\ c = "/" => next = IF state = "COMMENT_START" THEN "IN_COMMENT_SINGLE" ELSE "COMMENT_START"
            /\ c = "*" => next = IF state = "COMMENT_START" THEN "IN_COMMENT_MULTI" ELSE "IN_SYMBOL"
            /\ c \in {"(", "!"} => next = IF state = "IN_ID" THEN "START" ELSE "IN_SYMBOL"
      BY <1>1, NextOf
    <3>2. /\ state = "IN_STRING" =>
               next = IF c \in {"newline", EOF} THEN "IN_ERROR"
                      ELSE IF c = "quote" THEN "START" ELSE state
          /\ state = "IN_COMMENT_SINGLE" =>
               next = IF c = EOF THEN "IN_ERROR" ELSE IF c = "newline" THEN "START" ELSE state
          /\ state \in {"IN_COMMENT_MULTI", "SEEN_STAR_IN_COMMENT"} =>
               next = IF c = EOF THEN "IN_ERROR" ELSE IF c = "*" THEN "SEEN_STAR_IN_COMMENT"
                      ELSE IF c = "/" /\ state = "SEEN_STAR_IN_COMMENT" THEN "START"
                      ELSE "IN_COMMENT_MULTI"
      BY <1>1, NextOf
    <3>3. state \in Plain \union {"IN_STRING", "IN_COMMENT_SINGLE", "IN_COMMENT_MULTI",
                                  "SEEN_STAR_IN_COMMENT"}
      BY <1>1 DEF States, Comment, Plain
    <3>6. c \in {"blank", "newline", "a", "1", "quote", "/", "*", "(", "!", "#"}
      BY <2>2 DEF Chars
    <3> HIDE DEF next
    <3>4. CASE state \in Plain
      BY <1>2, <3>1, <3>4, <3>6
    <3>5. CASE state \notin Plain
      BY <1>2, <1>4, <3>2, <3>3, <3>5, <3>6
    <3> QED
      BY <3>4, <3>5
  <2>8. CASE c = "#" /\ state \in Plain
    <3>1. AtBoundary(c)
      BY <2>8 DEF AtBoundary, Plain
    <3>2. Kept(text, position + 1, tokens \o Ended(c, next)) /\ position < Len(text)
      <4>1. position < Len(text)
        BY <1>1, <2>2
      <4> QED
        BY <2>2, <2>3, <2>4, <3>1, <4>1, ItemEnds
    <3>3. k \in Grammar!Starts(text) /\ Len(text) \in Nat /\ text[k] = "#"
      BY <2>2, <2>5, <2>8, <3>2 DEF Kept
    <3>4. Grammar!ItemAt(text, k) = Grammar!Error(text, k)
      BY <3>3, ShortItems
    <3>5. k # Len(text) + 1
      BY <2>5
    <3> QED
      BY <2>1, <2>6, <3>3, <3>4, <3>5 DEF Refutes
  <2>9. CASE c = "newline" /\ state = "IN_STRING"
    <3>1. /\ p <= position /\ text[p] = "quote"
          /\ \A j \in p + 1 .. position : text[j] \notin {"quote", "newline"}
      BY <2>4, <2>9 DEF Fits, InWord
    <3>2. /\ p \in 1 .. Len(text) /\ Len(text) \in Nat /\ position + 1 \in p + 1 .. Len(text) + 1
          /\ position + 1 - 1 = position /\ p # Len(text) + 1
      BY <1>1, <2>2, <3>1
    <3>3. PICK i \in p + 1 .. Len(text) + 1 : i = position + 1
      BY <3>2
    <3>4. text[i] = "newline" /\ \A j \in p + 1 .. i - 1 : text[j] \notin {"quote", "newline"}
      BY <1>1, <2>2, <2>9, <3>1, <3>3
    <3>5. Grammar!ItemAt(text, p) = Grammar!Error(text, p)
      BY <3>1, <3>2, <3>4, StringItem
    <3> QED
      BY <2>1, <2>4, <2>6, <3>2, <3>5 DEF Refutes, Kept
  <2> QED
    BY <2>7, <2>8, <2>9
<1> QED
  BY <1>3, <1>4

(* A text that is read to its end is well formed, and its tokens are made. *)
LEMMA AcceptedIsRead ==
  ASSUME NEW text \in Seq(Chars), NEW list \in Seq(Token), Kept(text, Len(text) + 1, list)
  PROVE  /\ Grammar!WellFormed(text) /\ ~Grammar!RunsIntoEnd(text)
         /\ {Span(t) : t \in {list[i] : i \in 1 .. Len(list)}} = {Span(item) : item \in Grammar!Tokens(text)}
         /\ \A i, j \in 1 .. Len(list) : i < j => list[i].start < list[j].start
<1> DEFINE n == Len(text) + 1
<1>1. \A q \in Grammar!Starts(text) \ {n} : q < n
  <2>1. Grammar!Starts(text) \subseteq 1 .. Len(text) + 1
    BY StartsAreReached
  <2> QED
    BY <2>1
<1>2. \A q \in Grammar!Starts(text) : q < n => q # n
  BY StartsAreReached
<1>3. \A q \in Grammar!Starts(text) \ {n} : Complete(text, Grammar!ItemAt(text, q), n)
  BY <1>1 DEF Kept
<1>4. Grammar!WellFormed(text) /\ ~Grammar!RunsIntoEnd(text)
  BY <1>3 DEF Grammar!WellFormed, Grammar!RunsIntoEnd, Grammar!Items, Complete
<1>5. \A item \in Grammar!Items(text) : item \in Grammar!Tokens(text) <=> item.kind \in Kinds
  <2> SUFFICES ASSUME NEW item \in Grammar!Items(text)
               PROVE  item \in Grammar!Tokens(text) <=> item.kind \in Kinds
    OBVIOUS
  <2>1. item.kind \in Kinds \union {"SPACE", "COMMENT", "ERROR"}
    BY KindsOfItems DEF Grammar!Items
  <2> QED
    BY <2>1 DEF Grammar!Tokens, Kinds
<1>6. Grammar!Tokens(text) \subseteq Grammar!Items(text)
  BY DEF Grammar!Tokens
<1>7. ASSUME NEW i \in 1 .. Len(list)
      PROVE  \E item \in Grammar!Tokens(text) : Span(list[i]) = Span(item)
  <2>1. PICK q \in Grammar!Starts(text) :
          /\ q < n /\ Grammar!ItemAt(text, q).kind \in Kinds
          /\ Span(list[i]) = Span(Grammar!ItemAt(text, q))
    BY DEF Kept
  <2>2. Grammar!ItemAt(text, q) \in Grammar!Items(text)
    BY <1>2, <2>1 DEF Grammar!Items
  <2> QED
    BY <1>5, <2>1, <2>2
<1>8. ASSUME NEW item \in Grammar!Tokens(text)
      PROVE  \E i \in 1 .. Len(list) : Span(list[i]) = Span(item)
  <2>1. PICK q \in Grammar!Starts(text) \ {n} : item = Grammar!ItemAt(text, q)
    BY <1>6 DEF Grammar!Items
  <2>2. item.kind \in Kinds
    BY <1>5, <1>6
  <2> QED
    BY <1>1, <2>1, <2>2 DEF Kept
<1>9. {Span(t) : t \in {list[i] : i \in 1 .. Len(list)}} = {Span(item) : item \in Grammar!Tokens(text)}
  <2> DEFINE T == {list[i] : i \in 1 .. Len(list)}
             G == Grammar!Tokens(text)
  <2>1. \A t \in T : \E item \in G : Span(t) = Span(item)
    BY <1>7
  <2>2. \A item \in G : \E t \in T : Span(t) = Span(item)
    BY <1>8
  <2> HIDE DEF T, G
  <2>3. {Span(t) : t \in T} = {Span(item) : item \in G}
    BY <2>1, <2>2
  <2> QED
    BY <2>3 DEF T, G
<1>10. \A i, j \in 1 .. Len(list) : i < j => list[i].start < list[j].start
  BY DEF Kept
<1> QED
  BY <1>4, <1>9, <1>10

LEMMA EndAccepts ==
  ASSUME IInv, WordInProgress, GrammarInv, Ascii, outcome = "lexing",
         NEW class \in ClassesOf(EOF), Advance(EOF, class)
  PROVE  LexesAsGrammar' /\ AcceptsAsGrammar'
<1> DEFINE next == transition[state][class]
<1>1. /\ position = Len(input) /\ position \in Nat /\ state \in States /\ state # "IN_ERROR"
      /\ tokens \in Seq(Token) /\ input \in Seq(Chars) /\ Extends(input)
  BY InputIsText DEF IInv, TypeOK, InProgress
<1>2. /\ input' = Append(input, EOF) /\ next # "IN_ERROR" /\ tokens' = tokens \o NewTokens(EOF, class, next)
      /\ outcome' = "ERROR_NONE"
  BY DEF Advance, Scan
<1>3. EOF \in Chars \union {EOF} /\ EOF # "wide" /\ EOF \notin {"*", "(", "!", "#"}
  BY DEF EOF
<1>4. state \in {"START", "IN_SYMBOL"} /\ next = "START" /\ class \notin {"C_symbol", "C_star"}
  BY <1>1, <1>2, <1>3, NextOf DEF States, Comment, Plain
<1>5. tokens' = tokens
  <2>1. Ended(EOF, next) = <<>> /\ Alone(EOF, class, next) = <<>>
    BY <1>4 DEF Ended, Alone, IsSymbol
  <2> QED
    BY <1>1, <1>2, <2>1 DEF NewTokens
<1>6. Text' = input
  BY <1>2, <1>3, TextIs
<1>7. SUFFICES ASSUME Grammar!Separated(input)
               PROVE  LexesAsGrammar' /\ AcceptsAsGrammar'
  BY <1>6 DEF LexesAsGrammar, AcceptsAsGrammar
<1>8. Kept(input, Len(input) + 1, tokens)
  <2>1. PICK p \in 1 .. position + 1 :
          Kept(input, p, tokens) /\ Fits(input, p, state, position, token_start)
    BY <1>1, <1>7 DEF GrammarInv, InPlace
  <2> QED
    BY <1>1, <1>4, <2>1 DEF Fits
<1>9. /\ Grammar!WellFormed(input) /\ ~Grammar!RunsIntoEnd(input)
      /\ {Span(t) : t \in {tokens[i] : i \in 1 .. Len(tokens)}} = {Span(item) : item \in Grammar!Tokens(input)}
      /\ \A i, j \in 1 .. Len(tokens) : i < j => tokens[i].start < tokens[j].start
  BY <1>1, <1>8, AcceptedIsRead
<1>10. TokenSet' = {tokens[i] : i \in 1 .. Len(tokens)}
  BY <1>5 DEF TokenSet
<1>11. LexesAsGrammar'
  BY <1>5, <1>6, <1>9, <1>10 DEF LexesAsGrammar
<1>12. AcceptsAsGrammar'
  BY <1>2, <1>6, <1>9 DEF AcceptsAsGrammar
<1> QED
  BY <1>11, <1>12

LEMMA GrammarStep == IInv /\ LineInv /\ GrammarInv /\ [Next]_vars => GrammarInv'
<1> SUFFICES ASSUME IInv, LineInv, GrammarInv, [Next]_vars PROVE GrammarInv'
  OBVIOUS
<1>1. ASSUME NEW c \in Readable, NEW class \in ClassesOf(c), Advance(c, class) \/ Fail(c, class)
      PROVE  GrammarInv'
  <2>1. /\ outcome = "lexing" /\ input' = Append(input, c) /\ c \in Chars \union {EOF}
    BY <1>1, ConstantsAssumption DEF Advance, Fail, Scan, Readable
  <2>2. /\ input \in Seq(Chars \union {EOF})
        /\ Ascii' => Ascii /\ c # "wide"
    <3>1. input \in Seq(Chars \union {EOF})
      BY DEF IInv, TypeOK
    <3>2. /\ Len(input') = Len(input) + 1 /\ input'[Len(input) + 1] = c /\ Len(input) \in Nat
          /\ \A j \in 1 .. Len(input) : input'[j] = input[j] /\ j \in 1 .. Len(input) + 1
      BY <2>1, <3>1
    <3>3. Len(input) + 1 \in 1 .. Len(input')
      BY <3>2
    <3> QED
      BY <3>1, <3>2, <3>3 DEF Ascii
  <2>3. CASE ~Ascii'
    BY <2>3 DEF GrammarInv, LexesAsGrammar, AcceptsAsGrammar
  <2>4. CASE Ascii'
    <3>1. Ascii /\ c # "wide" /\ WordInProgress
      BY <2>1, <2>2, <2>4 DEF LineInv
    <3>2. CASE Fail(c, class)
      <4>1. outcome' \notin {"lexing", "ERROR_NONE"}
        BY <3>2 DEF Fail, ErrorCode
      <4>2. Grammar!Separated(Text') => Refutes(Text')
        BY <2>1, <3>1, <3>2, FailRefutes
      <4>3. Grammar!Separated(Text') =>
              ~(Grammar!WellFormed(Text') /\ ~Grammar!RunsIntoEnd(Text'))
        <5> DEFINE text == Text'
        <5>1. Refutes(text) => ~(Grammar!WellFormed(text) /\ ~Grammar!RunsIntoEnd(text))
          <6> HIDE DEF text
          <6> QED
            BY Refuted
        <5> QED
          BY <4>2, <5>1
      <4> QED
        BY <4>1, <4>3 DEF GrammarInv, LexesAsGrammar, AcceptsAsGrammar
    <3>3. CASE Advance(c, class) /\ c = EOF
      <4>1. LexesAsGrammar' /\ AcceptsAsGrammar'
        BY <2>1, <3>1, <3>3, EndAccepts
      <4>2. outcome' # "lexing"
        BY <3>3 DEF Advance
      <4> QED
        BY <4>1, <4>2 DEF GrammarInv
    <3>4. CASE Advance(c, class) /\ c # EOF
      <4>1. outcome' = "lexing"
        BY <3>4 DEF Advance
      <4>2. c \in Chars
        BY <2>1, <3>4
      <4>3. ASSUME NEW text \in Seq(Chars), Extends(text)', Grammar!Separated(text)
            PROVE  InPlace(text)'
        BY <2>1, <3>1, <3>4, <4>2, <4>3, StaysInPlace
      <4> QED
        BY <4>1, <4>3 DEF GrammarInv, LexesAsGrammar, AcceptsAsGrammar, Finished
    <3> QED
      BY <1>1, <3>2, <3>3, <3>4
  <2> QED
    BY <2>3, <2>4
<1>2. ASSUME NEW c \in Readable, NEW class \in ClassesOf(c), Refused(c, class) PROVE GrammarInv'
  BY <1>2 DEF Refused, GrammarInv, LexesAsGrammar, AcceptsAsGrammar, Finished
<1>3. ASSUME NEW c \in Readable, Strays(c) PROVE GrammarInv'
  BY <1>3 DEF Strays, GrammarInv, LexesAsGrammar, AcceptsAsGrammar, Finished
<1>4. CASE UNCHANGED vars
  BY <1>4 DEF vars, GrammarInv, LexesAsGrammar, AcceptsAsGrammar, Finished, Ascii, Text, Last,
             TokenSet, Extends, InPlace
<1> QED
  BY <1>1, <1>2, <1>3, <1>4 DEF Next

LEMMA GrammarInit == Init => GrammarInv
<1> SUFFICES ASSUME Init, NEW text \in Seq(Chars) PROVE InPlace(text)
  BY DEF Init, GrammarInv, LexesAsGrammar, AcceptsAsGrammar, Finished
<1>1. /\ position = 0 /\ state = "START" /\ tokens = <<>> /\ Len(tokens) = 0
      /\ \A i : i \notin 1 .. 0
  BY DEF Init
<1>2. 1 \in Grammar!Starts(text) /\ \A q \in Grammar!Starts(text) : ~(q < 1)
  BY StartsAreReached
<1>3. Kept(text, 1, tokens)
  BY <1>1, <1>2 DEF Kept
<1>4. Fits(text, 1, state, position, token_start)
  BY <1>1 DEF Fits
<1>5. 1 \in 1 .. position + 1
  BY <1>1
<1> QED
  BY <1>3, <1>4, <1>5 DEF InPlace

LEMMA LexerMeetsGrammar == Spec => []GrammarInv
<1>1. Init => IInv /\ LineInv /\ GrammarInv
  BY InitInvariant, LineInit, GrammarInit
<1>2. (IInv /\ LineInv /\ GrammarInv) /\ [Next]_vars => (IInv /\ LineInv /\ GrammarInv)'
  BY StepInvariant, LineStep, GrammarStep
<1> QED
  BY <1>1, <1>2, PTL DEF Spec

(* The queue of an accepted text holds exactly the tokens of the grammar,  *)
(* in order: refac_lexer.c:252-320 implements longest match.               *)
THEOREM QueueIsGrammars == Spec => []LexesAsGrammar
<1>1. GrammarInv => LexesAsGrammar
  BY DEF GrammarInv
<1> QED
  BY <1>1, LexerMeetsGrammar, PTL

(* The lexer reports an error for exactly the texts it should refuse.      *)
THEOREM AcceptanceIsGrammars == Spec => []AcceptsAsGrammar
<1>1. GrammarInv => AcceptsAsGrammar
  BY DEF GrammarInv
<1> QED
  BY <1>1, LexerMeetsGrammar, PTL
==============================================================================
