------------------------------ MODULE TreeMemory ------------------------------
(***************************************************************************)
(* The vectors of a syntax tree (src/ast/ast.c).  The nodes live in the    *)
(* arena, but the vectors in them come from malloc: init_ast_node makes    *)
(* them, node by node, for the parser, and destroy_ast_node has to find    *)
(* every one of them again by the pointers in the nodes.                   *)
(***************************************************************************)
EXTENDS SyntaxTree

(* The types of nodes that hold vectors, and how many they hold.           *)
VectorsIn ==
  [PROGRAM |-> 1, CLASS |-> 2, CLASS_VAR_DEC |-> 1, PARAMETER_LIST |-> 2,
   SUBROUTINE_BODY |-> 1, VAR_DEC |-> 1, STATEMENTS |-> 1, SUBROUTINE_CALL |-> 1,
   EXPRESSION |-> 1]

Holders == DOMAIN VectorsIn

-----------------------------------------------------------------------------
(* The vectors the parser has made for a tree, counted by the type of node *)
(* they are in.  A block that is missing has no node.                      *)
NoVectors == [type \in Holders |-> 0]

VectorsOf(holder) == [type \in Holders |-> IF type = holder THEN VectorsIn[type] ELSE 0]

Plus(f, g) == [type \in Holders |-> f[type] + g[type]]

Total(counts) ==
  LET upTo[i \in 0 .. Len(counts)] ==
        IF i = 0 THEN NoVectors ELSE Plus(upTo[i - 1], counts[i])
  IN upTo[Len(counts)]

(* The first argument is the count for each term, or for each statement.   *)
ExpressionVectors(terms, e) ==
  Total(<<VectorsOf("EXPRESSION"), terms[e.term],
          Total([i \in 1 .. Len(e.ops) |-> terms[e.ops[i].term]])>>)

CallVectors(terms, call) ==
  Plus(VectorsOf("SUBROUTINE_CALL"),
       Total([i \in 1 .. Len(call.args) |-> ExpressionVectors(terms, call.args[i])]))

TermVectors[term \in Terms] ==
  CASE term.is = "call" -> CallVectors(TermVectors, term.call)
    [] term.is = "paren" -> ExpressionVectors(TermVectors, term.of)
    [] term.is = "unary" -> TermVectors[term.of]
    [] term.is = "array" -> ExpressionVectors(TermVectors, term.index)
    [] OTHER -> NoVectors

Expression(e) == ExpressionVectors(TermVectors, e)

Parts(list) == Total([i \in 1 .. Len(list) |-> Expression(list[i])])

BlockVectors(statements, block) ==
  Plus(VectorsOf("STATEMENTS"), Total([i \in 1 .. Len(block) |-> statements[block[i]]]))

StatementVectors[s \in Statements] ==
  CASE s.is = "let" -> Plus(Parts(s.index), Expression(s.right))
    [] s.is = "if" -> Total(<<Expression(s.condition), BlockVectors(StatementVectors, s.then),
                              IF s.else = <<>> THEN NoVectors
                              ELSE BlockVectors(StatementVectors, s.else)>>)
    [] s.is = "while" -> Plus(Expression(s.condition), BlockVectors(StatementVectors, s.body))
    [] s.is = "do" -> CallVectors(TermVectors, s.call)
    [] s.is = "return" -> Parts(s.value)

Each(type, list) == Total([i \in 1 .. Len(list) |-> VectorsOf(type)])

SubroutineVectors(sub) ==
  Total(<<VectorsOf("PARAMETER_LIST"), VectorsOf("SUBROUTINE_BODY"),
          Each("VAR_DEC", sub.varDecs), BlockVectors(StatementVectors, sub.body)>>)

ClassVectors(class) ==
  Total(<<VectorsOf("CLASS"), Each("CLASS_VAR_DEC", class.vars),
          Total([i \in 1 .. Len(class.subs) |-> SubroutineVectors(class.subs[i])])>>)

VectorsMade(program) ==
  Plus(VectorsOf("PROGRAM"), Total([i \in 1 .. Len(program) |-> ClassVectors(program[i])]))

-----------------------------------------------------------------------------
(* destroy_ast_node, call by call.  A call is for an operation, by the     *)
(* kind of node, and a part of the tree; a statement and the let, if and   *)
(* so on in it are one.  These are the calls it makes, in their order; a   *)
(* NULL is passed over.                                                    *)
CallEach(op, nodes) == [i \in 1 .. Len(nodes) |-> [op |-> op, node |-> nodes[i]]]

CallOn(op, part) == CallEach(op, <<part>>)

IfPresent(block) == IF block = <<>> THEN <<>> ELSE <<block>>

(* Mutant: the branch after else is forgotten.                             *)
ChildrenOfStatementLess(s) ==
  CASE s.is = "let" -> CallEach("EXPRESSION", s.index) \o CallOn("EXPRESSION", s.right)
    [] s.is = "if" -> CallOn("EXPRESSION", s.condition) \o CallOn("STATEMENTS", s.then)
    [] s.is = "while" -> CallOn("EXPRESSION", s.condition) \o CallOn("STATEMENTS", s.body)
    [] s.is = "do" -> CallOn("SUBROUTINE_CALL", s.call)
    [] s.is = "return" -> CallEach("EXPRESSION", s.value)

ChildrenOfStatement(s) ==
  CASE s.is = "let" -> CallEach("EXPRESSION", s.index) \o CallOn("EXPRESSION", s.right)
    [] s.is = "if" -> CallOn("EXPRESSION", s.condition) \o CallOn("STATEMENTS", s.then)
                        \o CallEach("STATEMENTS", IfPresent(s.else))
    [] s.is = "while" -> CallOn("EXPRESSION", s.condition) \o CallOn("STATEMENTS", s.body)
    [] s.is = "do" -> CallOn("SUBROUTINE_CALL", s.call)
    [] s.is = "return" -> CallEach("EXPRESSION", s.value)

ChildrenOfTerm(term) ==
  CASE term.is = "call" -> CallOn("SUBROUTINE_CALL", term.call)
    [] term.is = "paren" -> CallOn("EXPRESSION", term.of)
    [] term.is = "unary" -> CallOn("TERM", term.of)
    [] term.is = "array" -> CallOn("EXPRESSION", term.index)
    [] OTHER -> <<>>

Children(op, part) ==
  CASE op = "PROGRAM" -> CallEach("CLASS", part)
    [] op = "CLASS" -> CallEach("CLASS_VAR_DEC", part.vars) \o CallEach("SUBROUTINE_DEC", part.subs)
    [] op = "SUBROUTINE_DEC" -> CallOn("PARAMETER_LIST", part.params) \o CallOn("SUBROUTINE_BODY", part)
    [] op = "SUBROUTINE_BODY" -> CallEach("VAR_DEC", part.varDecs) \o CallOn("STATEMENTS", part.body)
    [] op = "STATEMENTS" -> CallEach("STATEMENT", part)
    [] op = "STATEMENT" -> ChildrenOfStatement(part)
    [] op = "SUBROUTINE_CALL" -> CallEach("EXPRESSION", part.args)
    [] op = "EXPRESSION" ->
         CallOn("TERM", part.term) \o [i \in 1 .. Len(part.ops) |-> [op |-> "TERM", node |-> part.ops[i].term]]
    [] op = "TERM" -> ChildrenOfTerm(part)
    [] op \in {"CLASS_VAR_DEC", "PARAMETER_LIST", "VAR_DEC"} -> <<>>

(* What a call leaves of the vectors there are.                            *)
Freed(vectors, op) == [type \in Holders |-> vectors[type] - VectorsOf(op)[type]]
=============================================================================
