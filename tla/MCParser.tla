------------------------------- MODULE MCParser -------------------------------
(***************************************************************************)
(* The scenarios: how a class begins, and what may follow.  Each opens one *)
(* level of the grammar to all token sequences of a length that reaches    *)
(* the end of the class.                                                   *)
(***************************************************************************)
EXTENDS ParserChecks

LOCAL After(prefix, alphabet, extra) ==
  [prefix |-> prefix, alphabet |-> alphabet, extra |-> extra,
   header |-> 0, line |-> 2, newlines |-> 3]

LOCAL Lines(s, header, line, newlines) ==
  [s EXCEPT !.header = header, !.line = line, !.newlines = newlines]

LOCAL Head3 == <<"class", "ID", "{">>
LOCAL InHead == Head3 \o <<"function", "void", "ID", "(">>
LOCAL InBody == InHead \o <<")", "{">>
LOCAL InLet == InBody \o <<"let", "ID", "=">>
LOCAL InCall == InBody \o <<"do", "ID", "(">>

LOCAL Class == After(<<>>, {"class", "ID", "{", "static", "int", ";", "}"}, 7)
LOCAL Fields == After(Head3, {"static", "void", "ID", ",", ";", "}", "function"}, 7)
LOCAL Parameters == After(InHead, {"int", "ID", ",", ")", "{", "}"}, 9)
LOCAL Locals == After(InBody, {"var", "int", "ID", ",", ";", "}", "return"}, 7)
LOCAL Compound == After(InBody, {"if", "else", "while", "(", ")", "{", "}", "constant"}, 11)
LOCAL Operators == After(InLet, {"constant", "(", ")", "-", "~", "+", ";", "}"}, 6)
LOCAL Access == After(InLet, {"ID", "[", "]", ".", "(", ")", ";", "}"}, 7)
LOCAL Arguments == After(InCall, {"ID", ")", ",", ".", ";", "}", "unrecognised"}, 7)
LOCAL Calls == After(InBody, {"do", "ID", ".", "(", ")", ";", "}"}, 8)

MCScenarios ==
  {Class, Fields, Parameters, Locals, Compound, Operators, Access, Arguments, Calls,
   Lines(Fields, 99, 1, 1), Lines(Fields, 3, 1, 2), Lines(Parameters, 3, 2, 2)}

(* A call of a subroutine of the same class, inside an expression.         *)
MCBareCall == {After(InLet \o <<"ID", "(", ")", ";", "}", "}">>, {}, 0)}
=============================================================================
