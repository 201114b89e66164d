--------------------------- MODULE LexicalGrammar ---------------------------
(***************************************************************************)
(* The lexical grammar of Jack, independently of any automaton: what the   *)
(* tokens of a text are, by longest match from left to right.  Module      *)
(* LexerChecks compares the lexer with it.  Characters are those of module *)
(* Lexer; an item is a token, a space, a comment or an error, with its     *)
(* span [start, start + len) counted from 0, and the position, counted     *)
(* from 1, where the next item begins.                                     *)
(***************************************************************************)
EXTENDS Integers, Sequences, FiniteSetsExt

Letters == {"a"}
Digits == {"1"}
Spaces == {"blank", "newline"}
Symbols == {"(", "!", "*"}

CharAt(text, i) == IF i <= Len(text) THEN text[i] ELSE "NUL"

(* The first position from i on whose character is not in S, or past the   *)
(* end of the text.                                                        *)
RunEnd(text, i, S) ==
  Min({j \in i .. Len(text) + 1 : j = Len(text) + 1 \/ text[j] \notin S})

(* The first position from i on whose character is in S, or past the end.  *)
Found(text, i, S) ==
  Min({j \in i .. Len(text) + 1 : j = Len(text) + 1 \/ text[j] \in S})

(* The positions after a closing star-slash of a comment opened at i.      *)
CommentEnds(text, i) ==
  {j \in i + 4 .. Len(text) + 1 : text[j - 2] = "*" /\ text[j - 1] = "/"}

Item(kind, i, j) == [kind |-> kind, start |-> i - 1, len |-> j - i, next |-> j]

(* Nothing is read after an error.                                         *)
Error(text, i) == Item("ERROR", i, Len(text) + 1)

LongComment(text, i) ==
  IF CommentEnds(text, i) = {} THEN Error(text, i)
  ELSE Item("COMMENT", i, Min(CommentEnds(text, i)))

(* The span of a string is what is between its quotes.                     *)
String(text, i) ==
  LET close == Found(text, i + 1, {"quote", "newline"}) IN
  IF CharAt(text, close) # "quote" THEN Error(text, i)
  ELSE [Item("STRING", i + 1, close) EXCEPT !.next = close + 1]

(* The item that begins at position i.                                     *)
ItemAt(text, i) ==
  LET c == CharAt(text, i)
      second == CharAt(text, i + 1)
  IN CASE c \in Spaces -> Item("SPACE", i, i + 1)
       [] c \in Letters -> Item("ID", i, RunEnd(text, i, Letters \union Digits))
       [] c \in Digits -> Item("NUM", i, RunEnd(text, i, Digits))
       [] c = "quote" -> String(text, i)
       [] c = "/" /\ second = "/" -> Item("COMMENT", i, Found(text, i, {"newline"}))
       [] c = "/" /\ second = "*" -> LongComment(text, i)
       [] c = "/" /\ second \notin {"/", "*"} -> Item("SYMBOL", i, i + 1)
       [] c \in Symbols ->
            Item(IF c = "!" THEN "UNRECOGNISED" ELSE "SYMBOL", i, i + 1)
       [] OTHER -> Error(text, i)

(* The positions where items begin, and the end of the text: the first,    *)
(* and where one ends that begins at such a position.                      *)
AlsoStart(text, S, i) ==
  IF \E k \in S : ItemAt(text, k).next = i THEN S \union {i} ELSE S

Starts(text) ==
  LET upTo[i \in 1 .. Len(text) + 1] ==
        IF i = 1 THEN {1} ELSE AlsoStart(text, upTo[i - 1], i)
  IN upTo[Len(text) + 1]

Items(text) == {ItemAt(text, i) : i \in Starts(text) \ {Len(text) + 1}}

Tokens(text) == {item \in Items(text) : item.kind \notin {"SPACE", "COMMENT", "ERROR"}}

WellFormed(text) == \A item \in Items(text) : item.kind # "ERROR"

(* A word, a slash or a line comment that runs into the end of the text.   *)
RunsOut(text, item) ==
  /\ item.start + item.len = Len(text)
  /\ \/ item.kind \in {"ID", "NUM"}
     \/ item.kind = "SYMBOL" /\ text[item.start + 1] = "/"
     \/ item.kind = "COMMENT" /\ text[item.start + 2] = "/"

RunsIntoEnd(text) == \E item \in Items(text) : RunsOut(text, item)

(* A word is followed by something other than a string or a slash that is  *)
(* a symbol, and a number by something other than a letter.                *)
Apart(text, item) ==
  LET next == CharAt(text, item.next)
      second == CharAt(text, item.next + 1)
  IN /\ item.kind \in {"ID", "NUM"} =>
          /\ next # "quote"
          /\ next = "/" => second \in {"/", "*"}
     /\ item.kind = "NUM" => next # "a"

Separated(text) == \A item \in Items(text) : Apart(text, item)
=============================================================================
