------------------------------- MODULE Generator -------------------------------
(***************************************************************************)
(* The code of terms, expressions and calls (src/ast/ast.c, generation     *)
(* phase), and the instructions that src/ast/ast_writer.c writes.          *)
(*                                                                         *)
(* An instruction is a record.  A label is its prefix and its number, the  *)
(* name of a function is the pair of class and subroutine.                 *)
(***************************************************************************)
EXTENDS Analyzer

kind_to_segment(kind) ==
  CASE kind = "STATIC" -> "static"
    [] kind = "FIELD" -> "this"
    [] kind = "ARG" -> "argument"
    [] kind = "VAR" -> "local"
    [] OTHER -> "NONE"

(* What a generate function writes, the errors it logs, and how the        *)
(* process goes on.                                                        *)
Written(instructions) == [code |-> instructions, errors |-> 0, fate |-> "running"]

Ends(how) == [code |-> <<>>, errors |-> 0, fate |-> how]

Crash == Ends("crashed")

Followed(a, b) ==
  IF a.fate # "running" THEN a
  ELSE [code |-> a.code \o b.code, errors |-> a.errors + b.errors, fate |-> b.fate]

All(parts) ==
  LET upTo[i \in 0 .. Len(parts)] ==
        IF i = 0 THEN Written(<<>>) ELSE Followed(upTo[i - 1], parts[i])
  IN upTo[Len(parts)]

write_arithmetic(command) == Written(<<[op |-> "arithmetic", command |-> command]>>)
write_label(label) == Written(<<[op |-> "label", label |-> label]>>)
write_goto(label) == Written(<<[op |-> "goto", label |-> label]>>)
write_if(label) == Written(<<[op |-> "if-goto", label |-> label]>>)
write_call(name, n) == Written(<<[op |-> "call", name |-> name, args |-> n]>>)
write_function(name, n) == Written(<<[op |-> "function", name |-> name, locals |-> n]>>)
write_return == Written(<<[op |-> "return"]>>)

(* SEG_NONE is an error, and written all the same.                         *)
Access(op, segment, index) ==
  [code |-> <<[op |-> op, segment |-> segment, index |-> index]>>,
   errors |-> IF segment = "NONE" THEN 1 ELSE 0, fate |-> "running"]

write_push(segment, index) == Access("push", segment, index)
write_pop(segment, index) == Access("pop", segment, index)

(* The variable behind a name; not to find it is to dereference NULL.      *)
AccessVariable(op, symbol) ==
  IF Found(symbol) THEN Access(op, kind_to_segment(symbol.kind), symbol.index) ELSE Crash

WithVariable(op, name) == AccessVariable(op, Lookup(name, "CLASS"))

-----------------------------------------------------------------------------
OperatorCode(op) ==
  CASE op = "+" -> write_arithmetic("add")
    [] op = "-" -> write_arithmetic("sub")
    [] op = "*" -> write_call(<<"Math", "multiply">>, 2)
    [] op = "/" -> write_call(<<"Math", "divide">>, 2)
    [] op = "&" -> write_arithmetic("and")
    [] op = "|" -> write_arithmetic("or")
    [] op = "<" -> write_arithmetic("lt")
    [] op = ">" -> write_arithmetic("gt")
    [] op = "=" -> write_arithmetic("eq")
    [] OTHER -> Written(<<>>)

(* Mutant: all terms come before all operators.                            *)
generate_expression_node_grouped(terms, e) ==
  All(<<terms[e.term]>>
      \o [i \in 1 .. Len(e.ops) |-> terms[e.ops[i].term]]
      \o [i \in 1 .. Len(e.ops) |-> OperatorCode(e.ops[i].op)])

(* The first argument is the code of each term.                            *)
generate_expression_node(terms, e) ==
  LET Operand(i) == Followed(terms[e.ops[i].term], OperatorCode(e.ops[i].op)) IN
  All(<<terms[e.term]>> \o [i \in 1 .. Len(e.ops) |-> Operand(i)])

(* A method is given the variable it is called on; not so a method of a    *)
(* static variable, nor one called without a caller.                       *)
Receives(call, caller, callee) ==
  /\ call.caller # Null
  /\ caller.kind \in {"VAR", "FIELD", "ARG"}
  /\ callee.kind = "METHOD"

ArgumentsCode(terms, call) ==
  All([i \in 1 .. Len(call.args) |-> generate_expression_node(terms, call.args[i])])

(* Mutant: the object is pushed, but not counted as an argument.           *)
CallCodeUncounted(terms, call, caller, callee) ==
  IF Receives(call, caller, callee)
  THEN All(<<write_push(kind_to_segment(caller.kind), caller.index), ArgumentsCode(terms, call),
             write_call(<<caller.type, call.name>>, Len(call.args))>>)
  ELSE Followed(ArgumentsCode(terms, call),
                write_call(<<IF call.caller = Null THEN currentClassName ELSE call.caller,
                             call.name>>, Len(call.args)))

(* Mutant: an object is counted, whether or not one is pushed.             *)
CallCodeOvercounted(terms, call, caller, callee) ==
  Followed(IF Receives(call, caller, callee)
           THEN Followed(write_push(kind_to_segment(caller.kind), caller.index),
                         ArgumentsCode(terms, call))
           ELSE ArgumentsCode(terms, call),
           write_call(<<IF Receives(call, caller, callee) THEN caller.type
                        ELSE IF call.caller = Null THEN currentClassName ELSE call.caller,
                        call.name>>, Len(call.args) + 1))

CallCode(terms, call, caller, callee) ==
  IF Receives(call, caller, callee)
  THEN All(<<write_push(kind_to_segment(caller.kind), caller.index), ArgumentsCode(terms, call),
             write_call(<<caller.type, call.name>>, Len(call.args) + 1)>>)
  ELSE Followed(ArgumentsCode(terms, call),
                write_call(<<IF call.caller = Null THEN currentClassName ELSE call.caller,
                             call.name>>, Len(call.args)))

generate_sub_call_node(terms, call) ==
  IF CallerCrashes(call) THEN Crash
  ELSE IF call.caller # Null /\ ~Found(Callee(call)) THEN Written(<<>>)
  ELSE CallCode(terms, call, Lookup(call.caller, "GLOBAL"), Callee(call))

(* A string is made at run time, character by character.                   *)
StringCode(length) ==
  LET Character == Followed(write_push("constant", 97),
                            write_call(<<"String", "appendChar">>, 2)) IN
  All(<<write_push("constant", length), write_call(<<"String", "new">>, 1)>>
      \o [i \in 1 .. length |-> Character])

UnaryCode(op) == write_arithmetic(IF op = "-" THEN "neg" ELSE "not")

generate_array_access(terms, term) ==
  All(<<generate_expression_node(terms, term.index), WithVariable("push", term.name),
        write_arithmetic("add"), write_pop("pointer", 1), write_push("that", 0)>>)

(* The first two cases are left to the analysis, which has errors for them.*)
generate_term_node[term \in Terms] ==
  CASE term.is = "none" -> Ends("exited")
    [] term.is = "incomplete" -> Written(<<>>)
    [] term.is = "int" -> write_push("constant", term.value)
    [] term.is = "string" -> StringCode(term.length)
    [] term.is = "true" -> write_push("constant", -1)
    [] term.is = "false" \/ term.is = "null" -> write_push("constant", 0)
    [] term.is = "this" -> Followed(write_push("constant", 0), write_pop("pointer", 0))
    [] term.is = "var" -> WithVariable("push", term.name)
    [] term.is = "call" -> generate_sub_call_node(generate_term_node, term.call)
    [] term.is = "paren" -> generate_expression_node(generate_term_node, term.of)
    [] term.is = "unary" -> Followed(generate_term_node[term.of], UnaryCode(term.op))
    [] term.is = "array" -> generate_array_access(generate_term_node, term)

Generated(e) == generate_expression_node(generate_term_node, e)

-----------------------------------------------------------------------------
(* The value of an element goes through temp 0, over the address.          *)
generate_let(s) ==
  IF s.index = <<>>
  THEN Followed(Generated(s.right), WithVariable("pop", s.name))
  ELSE All(<<Generated(s.right), Generated(s.index[1]),
             WithVariable("push", s.name), write_arithmetic("add"),
             write_pop("temp", 0), write_pop("pointer", 1),
             write_push("temp", 0), write_pop("that", 0)>>)

generate_do(s) ==
  Followed(generate_sub_call_node(generate_term_node, s.call), write_pop("temp", 0))

generate_return(value) ==
  Followed(IF value = <<>> THEN write_push("constant", 0)
           ELSE Generated(value[1]),
           write_return)

(* The function a subroutine starts with, and what sets the this pointer.  *)
generate_sub_head(kind, name, callee) ==
  LET locals == get_symbols_of_kind(tables, callee.childTable, "VAR")
      fields == get_symbols_of_kind(tables, callee.table, "FIELD") IN
  All(<<write_function(<<currentClassName, name>>, Len(locals))>>
      \o CASE kind = "CONSTRUCTOR" ->
                <<write_push("constant", Len(fields)), write_call(<<"Memory", "alloc">>, 1),
                  write_pop("pointer", 0)>>
           [] kind = "METHOD" -> <<write_push("argument", 0), write_pop("pointer", 0)>>
           [] kind = "FUNCTION" -> <<>>)
=============================================================================
