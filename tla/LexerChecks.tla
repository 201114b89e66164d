----------------------------- MODULE LexerChecks -----------------------------
(***************************************************************************)
(* What the lexer owes the parser and its users.                           *)
(***************************************************************************)
EXTENDS Lexer, FiniteSets

Grammar == INSTANCE LexicalGrammar

Finished == outcome \notin {"lexing", "arena full", "logger full", "undefined"}

Last == input[Len(input)]

(* The characters read, without the terminating NUL.                       *)
Text == IF input # <<>> /\ Last = EOF THEN SubSeq(input, 1, Len(input) - 1)
        ELSE input

Ascii == \A i \in 1 .. Len(input) : input[i] # "wide"

TokenSet == {tokens[i] : i \in 1 .. Len(tokens)}

Span(t) == [kind |-> t.kind, start |-> t.start, len |-> t.len]

(* The newlines before an offset.                                          *)
LinesBefore(offset) ==
  Cardinality({i \in 1 .. offset : i <= Len(Text) /\ Text[i] = "newline"})

-----------------------------------------------------------------------------
(* On every text whose words are kept apart from strings and slashes, the  *)
(* queue holds exactly the tokens of the Jack grammar, in order, with      *)
(* their spans, comments gone (refac_lexer.c:252-320 against the language).*)
LexesAsGrammar ==
  outcome = "ERROR_NONE" /\ Ascii /\ Grammar!Separated(Text) =>
    /\ {Span(t) : t \in TokenSet} = {Span(item) : item \in Grammar!Tokens(Text)}
    /\ \A i, j \in 1 .. Len(tokens) : i < j => tokens[i].start < tokens[j].start

(* On such texts the lexer reports an error for exactly the ill-formed     *)
(* ones and those that end inside a word, a slash or a line comment, which *)
(* it does not accept without a newline after them.                        *)
AcceptsAsGrammar ==
  Finished /\ Ascii /\ Grammar!Separated(Text) =>
    (outcome = "ERROR_NONE"
       <=> Grammar!WellFormed(Text) /\ ~Grammar!RunsIntoEnd(Text))

(* A token that the character after it ended, and that is a newline.       *)
EndedByNewline(t) ==
  /\ t.kind \in {"ID", "NUM", "STRING", "UNRECOGNISED"} \/ Text[t.start + 1] = "/"
  /\ t.start + t.len + 1 <= Len(Text)
  /\ Text[t.start + t.len + 1] = "newline"
  /\ Text[t.start + 1] # "!"

(* "The line number of the token" (refac_lexer.c:228) is the number of     *)
(* newlines before the token, comments included, only for some: those that *)
(* a newline ends, and no others, have the number of the next line, since  *)
(* line 260 counts before line 278 makes the token.                        *)
LineOfToken ==
  Ascii => \A t \in TokenSet :
    t.line = LinesBefore(t.start) + (IF EndedByNewline(t) THEN 1 ELSE 0)

(* "The start position of the token" (line 226): two tokens do not share a *)
(* character.  It does not hold: see the finding.                          *)
TokensApart ==
  \A i, j \in 1 .. Len(tokens) :
    i < j => tokens[i].start + tokens[i].len <= tokens[j].start
=============================================================================
