----------------------------- MODULE ParserChecks -----------------------------
(***************************************************************************)
(* What the parser makes of the queues of a few scenarios.                 *)
(***************************************************************************)
EXTENDS Parser

Grammar == INSTANCE JackGrammar

Parsed == status = "finished" /\ errors = 0

-----------------------------------------------------------------------------
(* The parser takes exactly the language it is meant for: what it parses   *)
(* without an error is a class, and where it logs an error, or dies, the   *)
(* tokens it has looked at are not the beginning of any.                   *)
AcceptsExactly ==
  status \in Ends /\ Spacious =>
    IF Parsed THEN Grammar!Derives(Grammar!Accepted, SubSeq(queue, 1, idx))
    ELSE IF ended THEN ~Grammar!Derives(Grammar!Accepted, queue)
    ELSE ~Grammar!Viable(Grammar!Accepted, queue)

(* README, "Implementation followed the grammar representation": a class   *)
(* of the grammar is parsed. It does not hold for a call without receiver  *)
(* inside an expression.                                                   *)
ParsesJack ==
  status \in Ends /\ Spacious /\ Grammar!Derives(Grammar!Jack, scenario.prefix)
    => Parsed
=============================================================================
