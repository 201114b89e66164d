------------------------------ MODULE SyntaxTree ------------------------------
(***************************************************************************)
(* The syntax trees of src/include/ast.h, as the parser makes them.  A     *)
(* node is a record of the fields of its struct, without the types that    *)
(* the analysis leaves in it; a vector is a sequence, and a pointer that   *)
(* may be NULL is a sequence of at most one node.                          *)
(*                                                                         *)
(* A tree is finite: the sets of terms and of statements are built level   *)
(* by level, up to the nesting that is a parameter.                        *)
(***************************************************************************)
EXTENDS SymbolTable

CONSTANT Nesting   (* bound: how deep terms, and statements, nest           *)

ASSUME NestingAssumption == Nesting \in Nat

Null == "NULL"

Optional(S) == {<<>>} \union [1 .. 1 -> S]

-----------------------------------------------------------------------------
Operators == {"+", "-", "*", "/", "&", "|", "<", ">", "=", "~"}

OperationNode(T) == [op : Operators, term : T]

ExpressionNode(T) == [term : T, ops : Seq(OperationNode(T))]

SubroutineCallNode(T) ==
  [caller : Names \union {Null}, name : Names, args : Seq(ExpressionNode(T))]

VarTermNode == [is : {"var"}, name : Names, class : Names \union {Null}]

(* A term "is" one of the term types, a keyword being one of its own;      *)
(* "none" is the NULL that parse_term returns for a token that starts no   *)
(* term, "incomplete" the node of type TRM_NONE it returns for a name and  *)
(* a period without a name after it.                                       *)
SimpleTerms ==
  [is : {"none", "incomplete", "true", "false", "null", "this"}]
    \union [is : {"int"}, value : Nat] \union [is : {"string"}, length : Nat]
    \union VarTermNode

CompoundTerms(T) ==
  [is : {"call"}, call : SubroutineCallNode(T)]
    \union [is : {"paren"}, of : ExpressionNode(T)]
    \union [is : {"unary"}, op : {"-", "~"}, of : T]
    \union [is : {"array"}, name : Names, index : ExpressionNode(T)]

TermNode[n \in 0 .. Nesting] ==
  IF n = 0 THEN SimpleTerms
  ELSE LET T == TermNode[n - 1] IN SimpleTerms \union CompoundTerms(T)

Terms == TermNode[Nesting]

Expressions == ExpressionNode(Terms)

SubroutineCalls == SubroutineCallNode(Terms)

-----------------------------------------------------------------------------
SimpleStatements ==
  [is : {"let"}, name : Names, index : Optional(Expressions), right : Expressions]
    \union [is : {"do"}, call : SubroutineCalls]
    \union [is : {"return"}, value : Optional(Expressions)]

CompoundStatements(S) ==
  [is : {"if"}, condition : Expressions, then : Seq(S), else : Seq(S)]
    \union [is : {"while"}, condition : Expressions, body : Seq(S)]

StatementNode[n \in 0 .. Nesting] ==
  IF n = 0 THEN SimpleStatements
  ELSE LET S == StatementNode[n - 1] IN SimpleStatements \union CompoundStatements(S)

Statements == StatementNode[Nesting]

VarDecNode == [type : Types, names : Seq(Names)]

ClassVarDecNode == [modifier : {"STATIC", "FIELD"}, type : Types, names : Seq(Names)]

ParameterListNode == [types : Seq(Types), names : Seq(Names)]

(* With the node of its body.                                              *)
SubroutineDecNode ==
  [kind : SubroutineKinds, type : Types, name : Names, params : ParameterListNode,
   varDecs : Seq(VarDecNode), body : Seq(Statements)]

ClassNode ==
  [name : Names \intersect Types, vars : Seq(ClassVarDecNode), subs : Seq(SubroutineDecNode)]

ProgramNode == Seq(ClassNode)
=============================================================================
