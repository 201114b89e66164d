------------------------------- MODULE Analyzer -------------------------------
(***************************************************************************)
(* The type rules of the analysis phase (src/ast/ast.c): what the analyze  *)
(* functions of terms, expressions and calls make of a tree, and what they *)
(* do on the way: log errors, or end the process.                          *)
(*                                                                         *)
(* Terms contain expressions and calls, which contain terms: the rules for *)
(* the latter two take as their first argument what the rules make of each *)
(* term.                                                                   *)
(***************************************************************************)
EXTENDS SyntaxTree

VARIABLES
  currentTable,      (* visitor->currentTable                               *)
  currentClassName   (* visitor->currentClassName                           *)

Basic == {"int", "char", "boolean", "String", "void", "null"}

Arithmetic == {"+", "-", "*", "/"}
Comparison == {"<", ">", "="}
Logic == {"&", "|"}

Lookup(name, depth) == symbol_table_lookup(tables, currentTable, name, depth)

Found(symbol) == symbol # NoSymbol

IsSubroutine(symbol) == Found(symbol) /\ symbol.kind \in SubroutineKinds

-----------------------------------------------------------------------------
(* The result of a rule: the type left in the node, the errors logged, and *)
(* how the process goes on.  The type of a node is that of zeroed memory   *)
(* (basicType TYPE_INT) until something is assigned to it.                 *)
Typed(type) == [type |-> type, errors |-> 0, fate |-> "running"]

Unset == "int"

Dead(how) == [type |-> Unset, errors |-> 0, fate |-> how]

Error(r) == [r EXCEPT !.errors = @ + 1]

(* s comes after r.                                                        *)
After(r, s) == IF r.fate # "running" THEN r ELSE [s EXCEPT !.errors = @ + r.errors]

(* An error whose message shows types: type_to_str dereferences them, and  *)
(* has no name for void, which is an INTERNAL error.                       *)
ErrorShowing(r, types) ==
  CASE Null \in types -> After(r, Dead("crashed"))
    [] Null \notin types /\ "void" \in types -> After(r, Dead("exited"))
    [] OTHER -> Error(r)

type_is_valid(type) == type \in Basic \/ Found(Lookup(type, "GLOBAL"))

types_are_equal(a, b) == a # Null /\ b # Null /\ a = b

-----------------------------------------------------------------------------
(* The table a call on this caller looks its subroutine up in; 0 if none.  *)
TargetTable(caller) ==
  IF caller.kind \in {"CLASS", "NONE"} THEN caller.childTable
  ELSE Lookup(caller.type, "GLOBAL").childTable

(* A caller of basic type has no userDefinedType to look up: strcmp reads  *)
(* through NULL.                                                           *)
HasNoClass(caller) == caller.kind \notin {"CLASS", "NONE"} /\ caller.type \in Basic

CallerCrashes(call) == call.caller # Null /\ HasNoClass(Lookup(call.caller, "GLOBAL"))

InTable(t, name) ==
  IF t = NullTable THEN NoSymbol ELSE symbol_table_lookup(tables, t, name, "LOCAL")

Callee(call) ==
  IF call.caller = Null THEN Lookup(call.name, "GLOBAL")
  ELSE InTable(TargetTable(Lookup(call.caller, "GLOBAL")), call.name)

Parameters(callee) ==
  get_symbols_of_kind(tables, callee.childTable, "ARG")

(* A member that is read with the name of its class is looked up twice.    *)
Member(term, symbol, class) ==
  CASE term.class = Null -> Typed(symbol.type)
    [] term.class # Null /\ ~Found(class) -> Dead("crashed")
    [] term.class # Null /\ Found(class) ->
         IF class.childTable = NullTable THEN Dead("exited")
         ELSE IF Found(InTable(class.childTable, term.name)) THEN Typed(symbol.type)
         ELSE Error(Typed(symbol.type))

VarTerm(term, symbol) ==
  IF Found(symbol) THEN Member(term, symbol, Lookup(term.class, "GLOBAL"))
  ELSE Error(Typed(Unset))

analyze_var_term_node(term) == VarTerm(term, Lookup(term.name, "CLASS"))

(* The types an operation takes on both sides, and the type it makes.      *)
Takes(op) ==
  CASE op \in Arithmetic -> {"int"}
    [] op \in Comparison -> {"int", "char"}
    [] op \in Logic -> {"boolean"}

Makes(op) == IF op \in Arithmetic THEN "int" ELSE "boolean"

(* Mutant: only the operand on the right is checked.                       *)
OperationOneSided(r, op, next) ==
  IF op \notin Arithmetic \union Comparison \union Logic THEN Error(Typed(r.type))
  ELSE IF next.type \in Takes(op) THEN Typed(Makes(op))
  ELSE ErrorShowing(Typed(Makes(op)), {r.type, next.type})

(* What an operation makes of the type so far and of the next term's.      *)
Operation(r, op, next) ==
  IF op \notin Arithmetic \union Comparison \union Logic THEN Error(Typed(r.type))
  ELSE IF {r.type, next.type} \subseteq Takes(op) THEN Typed(Makes(op))
  ELSE ErrorShowing(Typed(Makes(op)), {r.type, next.type})

AddOperation(r, op, next) == After(After(r, next), Operation(r, op, next))

(* The type of the first term is copied, through a pointer that may be NULL.*)
FirstTerm(r) == IF r.type = Null THEN After(r, Dead("crashed")) ELSE r

OperationsTyped(first, ops, operands) ==
  LET result[i \in 0 .. Len(ops)] ==
        IF i = 0 THEN FirstTerm(first)
        ELSE LET r == result[i - 1] IN
             IF r.fate = "running" THEN AddOperation(r, ops[i].op, operands[i]) ELSE r
  IN result[Len(ops)]

analyze_expression_node(terms, e) ==
  OperationsTyped(terms[e.term], e.ops,
                  [i \in 1 .. Len(e.ops) |-> terms[e.ops[i].term]])

UnaryOperation(inner, wanted) ==
  IF inner.fate # "running" \/ inner.type = wanted THEN inner
  ELSE ErrorShowing(inner, {inner.type})

analyze_unary_op_node(terms, term) ==
  UnaryOperation(terms[term.of], IF term.op = "~" THEN "boolean" ELSE "int")

(* The type of an undeclared array stays NULL; and for want of a break     *)
(* every array access is an invalid term as well (analyze_term_node).      *)
ArrayTerm(symbol) ==
  IF Found(symbol) THEN Error(Typed(symbol.type)) ELSE Error(Error(Typed(Null)))

analyze_array_access_node(terms, term) ==
  After(analyze_expression_node(terms, term.index), ArrayTerm(Lookup(term.name, "CLASS")))

(* The arguments are compared one by one with the parameters, as long as   *)
(* there are any (vector_get asserts); too few are not noticed.  What is   *)
(* compared is the type of an argument's first term.  The exception made   *)
(* for Memory.deAlloc compares a caller that may be NULL.                  *)
Argument(call, parameters, i, r, given) ==
  CASE r.fate # "running" -> r
    [] r.fate = "running" /\ i > Len(parameters) -> After(r, Dead("aborted"))
    [] OTHER ->
         IF call.name = "deAlloc" /\ call.caller = Null THEN After(r, Dead("crashed"))
         ELSE IF call.name = "deAlloc" /\ call.caller = "Memory" THEN r
         ELSE IF types_are_equal(parameters[i].type, given) THEN r
         ELSE ErrorShowing(r, {given, parameters[i].type})

AfterAll(r, results) ==
  LET upTo[i \in 0 .. Len(results)] ==
        IF i = 0 THEN r ELSE After(upTo[i - 1], results[i])
  IN upTo[Len(results)]

Arguments(terms, call, callee) ==
  AfterAll(Typed(callee.type),
           [i \in 1 .. Len(call.args) |->
              Argument(call, Parameters(callee), i,
                       analyze_expression_node(terms, call.args[i]),
                       terms[call.args[i].term].type)])

CalleeTyped(terms, call, callee) ==
  IF IsSubroutine(callee) THEN [Arguments(terms, call, callee) EXCEPT !.type = callee.type]
  ELSE Error(Typed(Unset))

analyze_subroutine_call_node(terms, call) ==
  IF CallerCrashes(call) THEN Dead("crashed") ELSE CalleeTyped(terms, call, Callee(call))

(* A NULL node is an INTERNAL error of ast_node_accept.                    *)
analyze_term_node[term \in Terms] ==
  CASE term.is = "none" -> Dead("exited")
    [] term.is = "incomplete" -> Error(Typed(Unset))
    [] term.is = "int" -> Typed("int")
    [] term.is = "string" -> Typed("String")
    [] term.is = "true" \/ term.is = "false" -> Typed("boolean")
    [] term.is = "null" -> Typed("null")
    [] term.is = "this" -> Typed(currentClassName)
    [] term.is = "var" -> analyze_var_term_node(term)
    [] term.is = "call" -> analyze_subroutine_call_node(analyze_term_node, term.call)
    [] term.is = "paren" -> analyze_expression_node(analyze_term_node, term.of)
    [] term.is = "unary" -> analyze_unary_op_node(analyze_term_node, term)
    [] term.is = "array" -> analyze_array_access_node(analyze_term_node, term)

Analyzed(e) == analyze_expression_node(analyze_term_node, e)

-----------------------------------------------------------------------------
(* Statements, up to the blocks inside them.                               *)
IndexTyped(r) == IF r.fate = "running" /\ r.type \notin Basic THEN Error(r) ELSE r

ValueTyped(r, type) ==
  IF r.fate = "running" /\ ~types_are_equal(r.type, type) THEN Error(r) ELSE r

LetTyped(s, symbol) ==
  IF ~Found(symbol) THEN Error(Typed(Unset))
  ELSE After(IF s.index = <<>> THEN Typed(Unset)
             ELSE IndexTyped(Analyzed(s.index[1])),
             ValueTyped(Analyzed(s.right), symbol.type))

analyze_let(s) == LetTyped(s, Lookup(s.name, "CLASS"))

analyze_condition(e) == ValueTyped(Analyzed(e), "boolean")

analyze_call(call) == analyze_subroutine_call_node(analyze_term_node, call)

(* The subroutine returned from is the symbol whose scope this is.         *)
OwnSymbol ==
  LET inParent == tables[tables[currentTable].parent].symbols
      own == SelectSeq(inParent, LAMBDA s : s.childTable = currentTable)
  IN own[Len(own)]

ReturnTyped(r, type) ==
  IF r.fate # "running" \/ types_are_equal(type, r.type) THEN r
  ELSE ErrorShowing(r, {r.type, type})

analyze_return(value) ==
  IF value # <<>> THEN ReturnTyped(Analyzed(value[1]), OwnSymbol.type)
  ELSE IF OwnSymbol.type = "void" THEN Typed(Unset)
  ELSE ErrorShowing(Typed(Unset), {OwnSymbol.type})
=============================================================================
