----------------------------- MODULE JackGrammar -----------------------------
(***************************************************************************)
(* The grammar of Jack the README refers to, and the language the parser   *)
(* accepts, as rules over the tokens of module Parser: regular expressions *)
(* over tokens and rule names, with their meaning as sets of positions.    *)
(***************************************************************************)
EXTENDS Integers, SequencesExt

LOCAL Tok(set) == [op |-> "token", set |-> set]
LOCAL T(token) == Tok({token})
LOCAL R(name) == [op |-> "rule", name |-> name]
LOCAL Cat(parts) == [op |-> "cat", parts |-> parts]
LOCAL Alt(parts) == [op |-> "alt", parts |-> parts]
LOCAL Star(e) == [op |-> "star", of |-> e]
LOCAL Opt(e) == Alt(<<e, Cat(<<>>)>>)
LOCAL List(e) == Cat(<<e, Star(Cat(<<T(","), e>>))>>)

LOCAL Body(name) == Cat(<<T("{"), R(name), T("}")>>)
LOCAL Arguments == Cat(<<T("("), R("expressionList"), T(")")>>)

Jack ==
  [class          |-> Cat(<<T("class"), T("ID"), T("{"), R("members"), T("}")>>),
   members        |-> Cat(<<Star(R("classVarDec")), Star(R("subroutineDec"))>>),
   type           |-> Tok({"int", "ID"}),
   returnType     |-> Tok({"int", "ID", "void"}),
   classVarDec    |-> Cat(<<T("static"), R("type"), List(T("ID")), T(";")>>),
   subroutineDec  |-> Cat(<<T("function"), R("returnType"), T("ID"),
                            T("("), R("parameterList"), T(")"),
                            T("{"), Star(R("varDec")), R("statements"), T("}")>>),
   parameterList  |-> Opt(List(Cat(<<R("type"), T("ID")>>))),
   varDec         |-> Cat(<<T("var"), R("type"), List(T("ID")), T(";")>>),
   statements     |-> Star(Alt(<<R("let"), R("if"), R("while"), R("do"), R("return")>>)),
   let            |-> Cat(<<T("let"), T("ID"),
                            Opt(Cat(<<T("["), R("expression"), T("]")>>)),
                            T("="), R("expression"), T(";")>>),
   if             |-> Cat(<<T("if"), T("("), R("expression"), T(")"), Body("statements"),
                            Opt(Cat(<<T("else"), Body("statements")>>))>>),
   while          |-> Cat(<<T("while"), T("("), R("expression"), T(")"),
                            Body("statements")>>),
   do             |-> Cat(<<T("do"), R("doCall"), T(";")>>),
   return         |-> Cat(<<T("return"), Opt(R("expression")), T(";")>>),
   expression     |-> Cat(<<R("term"), Star(Cat(<<R("op"), R("term")>>))>>),
   op             |-> Tok({"+", "-", "="}),
   term           |-> Alt(<<T("constant"), T("ID"), R("termCall"),
                            Cat(<<T("ID"), T("["), R("expression"), T("]")>>),
                            Cat(<<T("("), R("expression"), T(")")>>),
                            Cat(<<Tok({"-", "~"}), R("term")>>)>>),
   doCall         |-> R("termCall"),
   termCall       |-> Cat(<<T("ID"), Opt(Cat(<<T("."), T("ID")>>)), Arguments>>),
   expressionList |-> Opt(List(R("expression")))]

(* What the parser makes of it: members in any order, void as a type, "~"  *)
(* between terms, arguments with or without commas, a call after do whose  *)
(* name or receiver may be missing; but no call without a receiver inside  *)
(* an expression, where a name with a receiver need not be called.         *)
Accepted ==
  [Jack EXCEPT
    !.members = Star(Alt(<<R("classVarDec"), R("subroutineDec")>>)),
    !.type = R("returnType"),
    !.op = Tok({"+", "-", "=", "~"}),
    !.expressionList = Star(Cat(<<R("expression"), Opt(T(","))>>)),
    !.doCall = Cat(<<Opt(T("ID")), Opt(Cat(<<T("."), T("ID")>>)), Arguments>>),
    !.termCall = Cat(<<T("ID"), T("."), T("ID"), Opt(Arguments)>>)]

(* The positions where a match of e that begins at i can end.  A match     *)
(* that runs out of text goes on in what may follow it: there every e      *)
(* matches, since every rule derives something.                            *)
RECURSIVE Ends(_, _, _, _)
Ends(rules, text, e, i) ==
  IF i > Len(text) + 1 THEN {i} ELSE
  CASE e.op = "token" ->
         IF i > Len(text) THEN {i + 1}
         ELSE IF text[i] \in e.set THEN {i + 1} ELSE {}
    [] e.op = "rule" -> Ends(rules, text, rules[e.name], i)
    [] e.op = "cat" ->
         FoldLeft(LAMBDA at, part : UNION {Ends(rules, text, part, j) : j \in at},
                  {i}, e.parts)
    [] e.op = "alt" ->
         UNION {Ends(rules, text, e.parts[k], i) : k \in 1 .. Len(e.parts)}
    [] e.op = "star" ->
         {i} \union UNION {Ends(rules, text, e, j) :
                             j \in Ends(rules, text, e.of, i) \ {i}}

(* A text is a class; it can be continued to one, or is one.               *)
Derives(rules, text) == Len(text) + 1 \in Ends(rules, text, rules["class"], 1)

Viable(rules, text) ==
  \E i \in Ends(rules, text, rules["class"], 1) : i > Len(text)
=============================================================================
