-------------------------------- MODULE Lexer --------------------------------
(***************************************************************************)
(* process_input of src/lexer/refac_lexer.c: the table-driven automaton    *)
(* that turns one source file into the token queue the parser reads.       *)
(*                                                                         *)
(* The file is read one character per step, so that the behaviours of the  *)
(* module cover every file of at most MaxLength characters.  A character   *)
(* stands for its equivalence class; "!" stands for the symbols of the     *)
(* class that charToTokenType does not know, "wide" for a byte that is not *)
(* ASCII.  A lexeme is the span of the input that strndup copies.          *)
(***************************************************************************)
EXTENDS Integers, Sequences

CONSTANTS
  Alphabet,     (* the characters files are made of                         *)
  MaxLength,    (* bound: characters before the terminating NUL             *)
  TokenRoom,    (* tokens the 16 pages of the lexer's arena hold            *)
  OffsetRoom    (* newline offsets the logger's arena holds                 *)

EOF == "NUL"

Chars == {"blank", "newline", "a", "1", "quote", "/", "*", "(", "!", "#", "wide"}

ASSUME ConstantsAssumption ==
  /\ Alphabet \subseteq Chars
  /\ MaxLength \in Nat /\ TokenRoom \in Nat /\ OffsetRoom \in Nat

Classes == {"C_white", "C_newline", "C_alpha", "C_digit", "C_double_quote",
            "C_slash", "C_star", "C_symbol", "C_other", "C_eof"}

Comment == {"IN_COMMENT_SINGLE", "IN_COMMENT_MULTI", "SEEN_STAR_IN_COMMENT"}

States == {"START", "IN_ID", "IN_NUM", "IN_STRING", "COMMENT_START",
           "IN_SYMBOL", "IN_ERROR"} \union Comment

Kinds == {"ID", "NUM", "STRING", "SYMBOL", "UNRECOGNISED"}

Outcomes == {"lexing", "ERROR_NONE", "ERROR_LEXER_NEWLINE_IN_STRING",
             "ERROR_LEXER_EOF_IN_STRING", "ERROR_LEXER_UNEXPECTED_EOF",
             "ERROR_LEXER_ILLEGAL_SYMBOL", "arena full", "logger full", "undefined"}

VARIABLES
  input,        (* the characters read so far                               *)
  position,     (* lexer->position                                          *)
  state, line, token_start,     (* the locals of process_input              *)
  tokens,       (* lexer->queue                                             *)
  line_starts,  (* lexer->line_starts                                       *)
  outcome       (* what process_input returned, or where the process died;
                   "undefined" after a read outside the transition table    *)

vars == <<input, position, state, line, token_start, tokens, line_starts,
          outcome>>

-----------------------------------------------------------------------------
(* eq_classes, and the transition table, each row given by what it differs *)
(* in from the row of START.                                               *)
eq_class ==
  [blank |-> "C_white", newline |-> "C_newline", a |-> "C_alpha",
   quote |-> "C_double_quote", NUL |-> "C_eof"]

(* The class of a byte that is not ASCII is read from outside the array:   *)
(* it can be anything, also no class at all (see Strays).                  *)
ClassesOf(c) ==
  CASE c \in DOMAIN eq_class -> {eq_class[c]}
    [] c = "1" -> {"C_digit"}
    [] c = "/" -> {"C_slash"}
    [] c = "*" -> {"C_star"}
    [] c \in {"(", "!"} -> {"C_symbol"}
    [] c = "#" -> {"C_other"}
    [] c = "wide" -> Classes

RowOfStart ==
  [C_white |-> "START", C_newline |-> "START", C_alpha |-> "IN_ID",
   C_digit |-> "IN_NUM", C_double_quote |-> "IN_STRING",
   C_slash |-> "COMMENT_START", C_star |-> "IN_SYMBOL",
   C_symbol |-> "IN_SYMBOL", C_other |-> "IN_ERROR", C_eof |-> "START"]

Staying(s) == [[cl \in Classes |-> s] EXCEPT !["C_eof"] = "IN_ERROR"]

(* Mutant: a second star forgets that the comment may be about to close.   *)
RowOfStarForgotten(s) ==
  CASE s = "IN_COMMENT_MULTI" ->
         [Staying(s) EXCEPT !["C_star"] = "SEEN_STAR_IN_COMMENT"]
    [] s = "SEEN_STAR_IN_COMMENT" ->
         [Staying("IN_COMMENT_MULTI") EXCEPT !["C_slash"] = "START"]
    [] s = "IN_COMMENT_SINGLE" -> [Staying(s) EXCEPT !["C_newline"] = "START"]
    [] s = "COMMENT_START" ->
         [RowOfStart EXCEPT !["C_slash"] = "IN_COMMENT_SINGLE",
                            !["C_star"] = "IN_COMMENT_MULTI"]
    [] OTHER -> RowOfStart

Row(s) ==
  CASE s = "IN_ID" ->
         [RowOfStart EXCEPT !["C_digit"] = "IN_ID", !["C_symbol"] = "START",
                            !["C_eof"] = "IN_ERROR"]
    [] s = "IN_NUM" ->
         [RowOfStart EXCEPT !["C_alpha"] = "START", !["C_eof"] = "IN_ERROR"]
    [] s = "IN_STRING" ->
         [Staying("IN_STRING") EXCEPT !["C_newline"] = "IN_ERROR",
                                      !["C_double_quote"] = "START"]
    [] s = "COMMENT_START" ->
         [RowOfStart EXCEPT !["C_slash"] = "IN_COMMENT_SINGLE",
                            !["C_star"] = "IN_COMMENT_MULTI",
                            !["C_eof"] = "IN_ERROR"]
    [] s = "IN_COMMENT_SINGLE" ->
         [Staying("IN_COMMENT_SINGLE") EXCEPT !["C_newline"] = "START"]
    [] s = "IN_COMMENT_MULTI" ->
         [Staying("IN_COMMENT_MULTI") EXCEPT !["C_star"] = "SEEN_STAR_IN_COMMENT"]
    [] s = "SEEN_STAR_IN_COMMENT" ->
         [Staying("IN_COMMENT_MULTI") EXCEPT !["C_star"] = "SEEN_STAR_IN_COMMENT",
                                             !["C_slash"] = "START"]
    [] OTHER -> RowOfStart

transition == [s \in States |-> Row(s)]

(* determine_token_type.  Keywords are identifiers here: which of them a   *)
(* lexeme is depends on nothing but its span.                              *)
determine_token_type(old_state, first, len) ==
  CASE old_state = "IN_ID" -> "ID"
    [] old_state = "IN_NUM" -> "NUM"
    [] old_state = "IN_STRING" -> "STRING"
    [] /\ old_state \in {"IN_SYMBOL", "COMMENT_START"}
       /\ len = 1 /\ first \in {"(", "*", "/"} -> "SYMBOL"
    [] OTHER -> "UNRECOGNISED"

(* create_token: the span [start, start + len) of the text read so far.    *)
create_token(text, old_state, start, len, ln) ==
  [kind  |-> determine_token_type(old_state, text[start + 1], len),
   start |-> start, len |-> len, line |-> ln]

-----------------------------------------------------------------------------
Init ==
  /\ input = <<>> /\ position = 0
  /\ state = "START" /\ line = 0 /\ token_start = 0
  /\ tokens = <<>> /\ line_starts = <<>>
  /\ outcome = "lexing"

(* The next character, while the file lasts; every file ends in a NUL.     *)
Readable == (IF position < MaxLength THEN Alphabet ELSE {}) \union {EOF}

(* Mutant: newlines inside comments are not counted.                       *)
LineOfCode(c) ==
  IF c = "newline" /\ state \notin Comment THEN line + 1 ELSE line

(* The line counter is advanced before any token of this step is made.     *)
LineAt(c) == IF c = "newline" THEN line + 1 ELSE line

(* A state other than a comment is left, for another that is no comment.   *)
Leaves(next) ==
  next # state /\ state \notin Comment /\ next \notin Comment

(* Mutant: the length counts the character that ends the token.            *)
EndedInclusive(c, next) ==
  IF Leaves(next) /\ state \notin {"START", "IN_SYMBOL"}
  THEN <<create_token(Append(input, c), state, token_start,
                      position - token_start + 1, LineAt(c))>>
  ELSE <<>>

(* The token that ends before this character, if one does.  The opening    *)
(* quote of a string is stepped over only when the string is closed.       *)
Ended(c, next) ==
  IF Leaves(next) /\ state \notin {"START", "IN_SYMBOL"}
  THEN LET start == IF state = "IN_STRING" /\ next = "START"
                    THEN token_start + 1 ELSE token_start
       IN <<create_token(Append(input, c), state, start, position - start,
                         LineAt(c))>>
  ELSE <<>>

(* The symbol this character is by itself.                                 *)
IsSymbol(class, next) ==
  class \in {"C_symbol", "C_star"} /\ next # "IN_STRING" /\ next \notin Comment

Alone(c, class, next) ==
  IF IsSymbol(class, next)
  THEN <<create_token(Append(input, c), "IN_SYMBOL", position, 1, LineAt(c))>>
  ELSE <<>>

(* Mutant: a slash that was no comment does not move it.                   *)
StartNotAfterSlash(class, next) ==
  IF IsSymbol(class, next) THEN position + 1
  ELSE IF Leaves(next) /\ state = "START" THEN position
  ELSE token_start

(* Where the token in progress starts after this character.                *)
StartAfter(class, next) ==
  IF IsSymbol(class, next) THEN position + 1
  ELSE IF Leaves(next) /\ state \in {"START", "COMMENT_START"} THEN position
  ELSE token_start

ErrorCode(c) ==
  CASE state = "IN_STRING" /\ c = "newline" -> "ERROR_LEXER_NEWLINE_IN_STRING"
    [] state = "IN_STRING" /\ c = EOF -> "ERROR_LEXER_EOF_IN_STRING"
    [] state # "IN_STRING" /\ c = EOF -> "ERROR_LEXER_UNEXPECTED_EOF"
    [] OTHER -> "ERROR_LEXER_ILLEGAL_SYMBOL"

NewTokens(c, class, next) == Ended(c, next) \o Alone(c, class, next)

OffsetFits(c) == c = "newline" => Len(line_starts) < OffsetRoom
TokensFit(c, class, next) ==
  Len(tokens) + Len(NewTokens(c, class, next)) <= TokenRoom

(* Mutant: only a newline that ends something is recorded.                 *)
ScanFewerOffsets(c, class, next) ==
  /\ OffsetFits(c) /\ TokensFit(c, class, next)
  /\ input' = Append(input, c)
  /\ line' = LineAt(c)
  /\ line_starts' = IF c = "newline" /\ next # state
                    THEN Append(line_starts, position) ELSE line_starts
  /\ tokens' = tokens \o NewTokens(c, class, next)
  /\ token_start' = StartAfter(class, next)
  /\ state' = next

(* What every iteration of the loop does, up to its test of IN_ERROR.      *)
Scan(c, class, next) ==
  /\ OffsetFits(c) /\ TokensFit(c, class, next)
  /\ input' = Append(input, c)
  /\ line' = LineAt(c)
  /\ line_starts' = IF c = "newline" THEN Append(line_starts, position)
                    ELSE line_starts
  /\ tokens' = tokens \o NewTokens(c, class, next)
  /\ token_start' = StartAfter(class, next)
  /\ state' = next

Advance(c, class) ==
  LET next == transition[state][class] IN
  /\ outcome = "lexing"
  /\ next # "IN_ERROR"
  /\ Scan(c, class, next)
  /\ position' = position + 1
  /\ outcome' = IF c = EOF THEN "ERROR_NONE" ELSE "lexing"

(* A lexer error is a warning: it is reported and process_input returns,   *)
(* with the tokens made so far in the queue.                               *)
Fail(c, class) ==
  LET next == transition[state][class] IN
  /\ outcome = "lexing"
  /\ next = "IN_ERROR"
  /\ Scan(c, class, next)
  /\ outcome' = ErrorCode(c)
  /\ UNCHANGED position

(* An allocation that is refused never comes back: an offset is allocated  *)
(* before the tokens of the same step.                                     *)
Refused(c, class) ==
  LET next == transition[state][class] IN
  /\ outcome = "lexing"
  /\ ~OffsetFits(c) \/ ~TokensFit(c, class, next)
  /\ outcome' = IF OffsetFits(c) THEN "arena full" ELSE "logger full"
  /\ UNCHANGED <<input, position, state, line, token_start, tokens, line_starts>>

(* What is read for the class of a byte that is not ASCII is no class: the *)
(* next state is then read outside the transition table, and nothing is    *)
(* known of what follows.                                                  *)
Strays(c) ==
  /\ outcome = "lexing"
  /\ c = "wide"
  /\ outcome' = "undefined"
  /\ UNCHANGED <<input, position, state, line, token_start, tokens, line_starts>>

Next ==
  \E c \in Readable :
    \/ Strays(c)
    \/ \E class \in ClassesOf(c) :
         Advance(c, class) \/ Fail(c, class) \/ Refused(c, class)

Spec == Init /\ [][Next]_vars

-----------------------------------------------------------------------------
Token == [kind : Kinds, start : Nat, len : Nat, line : Nat]

(* Types of the state; len is computed as a difference of two size_t, so   *)
(* that Nat says it does not wrap around.                                  *)
TypeOK ==
  /\ input \in Seq(Chars \union {EOF}) /\ position \in Nat
  /\ state \in States /\ line \in Nat /\ token_start \in Nat
  /\ tokens \in Seq(Token) /\ line_starts \in Seq(Nat)
  /\ outcome \in Outcomes

(* strndup copies only characters that were read: every lexeme ends before *)
(* the character the lexer looks at next.                                  *)
LexemesInBounds ==
  \A i \in 1 .. Len(tokens) : tokens[i].start + tokens[i].len <= position

(* line_starts has one increasing offset per newline read, and the entry   *)
(* that the line of a token indexes is the first newline behind the token: *)
(* refac_parser.c:68 takes it for the place of the token's line.  It exists*)
(* if and only if such a newline was read; the tokens behind the last      *)
(* newline, or ended by it, have no entry.                                 *)
LinesIndexed ==
  /\ Len(line_starts) = line
  /\ \A i \in 1 .. Len(line_starts) : line_starts[i] < Len(input)
  /\ \A i, j \in 1 .. Len(line_starts) : i < j => line_starts[i] < line_starts[j]
  /\ \A i \in 1 .. Len(tokens) : tokens[i].line <= line
  /\ \A i \in 1 .. Len(tokens), k \in 1 .. Len(line_starts) :
       IF k > tokens[i].line
       THEN tokens[i].start + tokens[i].len <= line_starts[k]
       ELSE line_starts[k] <= tokens[i].start + tokens[i].len
=============================================================================
