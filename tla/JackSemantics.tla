---------------------------- MODULE JackSemantics ----------------------------
(***************************************************************************)
(* What a Jack program means and when it is well typed, stated over its    *)
(* tree without symbol tables, machine code or phases: names are bound by  *)
(* functions, types are judged by signatures, and a subroutine is          *)
(* evaluated on values, which are integers and truth values.               *)
(***************************************************************************)
EXTENDS Integers, SequencesExt

LOCAL Basic == {"int", "char", "boolean", "String"}

LOCAL Numeric == {"int", "char"}

(* The later list hides the earlier ones.                                  *)
LOCAL Bind(names, values) ==
  [n \in ToSet(names) |-> values[CHOOSE i \in 1 .. Len(names) : names[i] = n]]

LOCAL Repeat(x, n) == [i \in 1 .. n |-> x]

LOCAL DeclaredNames(decs) == FlattenSeq([i \in 1 .. Len(decs) |-> decs[i].names])

LOCAL DeclaredTypes(decs) ==
  FlattenSeq([i \in 1 .. Len(decs) |-> Repeat(decs[i].type, Len(decs[i].names))])

LOCAL Named(list, name) == {i \in 1 .. Len(list) : list[i].name = name}

LOCAL The(list, name) == list[CHOOSE i \in Named(list, name) : TRUE]

-----------------------------------------------------------------------------
(* Types.  A context g: the variables in sight, the class, the kind of the *)
(* subroutine, the type to be returned, and the subroutines as signatures. *)
(*                                                                         *)
(* The judgement is that of Jack with its types checked (src/README.md:123)*)
(* where the language would let a number stand for an address: a value is  *)
(* used at the type it is declared with, a character is a number, null is  *)
(* of every class, and = compares any two values of one type.              *)
LOCAL Operators ==
  {<<op, l, r, "int">> : op \in {"+", "-", "*", "/"}, l \in Numeric, r \in Numeric}
    \union {<<op, l, r, "boolean">> : op \in {"<", ">"}, l \in Numeric, r \in Numeric}
    \union {<<op, "boolean", "boolean", "boolean">> : op \in {"&", "|"}}
    \union {<<"-", "int", "int">>, <<"~", "boolean", "boolean">>}

LOCAL IsClass(type) == type \notin Numeric \union {"boolean", "void"}

(* Whether a value that has one of these types may be used as of the type. *)
LOCAL Fits(type, types) ==
  \/ type \in types
  \/ type \in Numeric /\ types \intersect Numeric # {}
  \/ IsClass(type) /\ "null" \in types

LOCAL Comparable(l, r) == l # "void" /\ (Fits(l, {r}) \/ Fits(r, {l}))

LOCAL Signatures(program, library) ==
  {[class |-> c.name, name |-> s.name, params |-> s.params.types, type |-> s.type,
    method |-> s.kind = "METHOD"] :
     <<c, s>> \in UNION {{c} \X ToSet(c.subs) : c \in ToSet(program)}}
  \union
  {[class |-> c.name, name |-> f.name, type |-> f.return_type,
    method |-> f.kind = "KIND_METHOD",
    params |-> [i \in 1 .. Len(f.parameters) |-> f.parameters[i].type]] :
     <<c, f>> \in UNION {{c} \X ToSet(c.functions \o c.methods) : c \in ToSet(library)}}

LOCAL CallClass(call, g) ==
  IF call.caller = "NULL" THEN g.class
  ELSE IF call.caller \in DOMAIN g.vars THEN g.vars[call.caller] ELSE call.caller

(* Methods are called on an object, or on the current one if there is any; *)
(* functions and constructors on their class.                              *)
LOCAL OnObject(call, g) == call.caller = "NULL" \/ call.caller \in DOMAIN g.vars

(* The types an expression has: one, or none if it is ill typed.           *)
RECURSIVE TypesOf(_, _)

LOCAL CallTypes(call, g) ==
  {s.type : s \in {s \in g.signatures :
     /\ s.class = CallClass(call, g) /\ s.name = call.name
     /\ s.method = OnObject(call, g)
     /\ call.caller = "NULL" => g.kind # "FUNCTION"
     /\ Len(s.params) = Len(call.args)
     /\ \A i \in 1 .. Len(call.args) : Fits(s.params[i], TypesOf(call.args[i], g))}}

LOCAL TermTypes(t, g) ==
  CASE t.is = "int" -> {"int"}
    [] t.is = "string" -> {"String"}
    [] t.is \in {"true", "false"} -> {"boolean"}
    [] t.is = "null" -> {"null"}
    [] t.is = "this" -> IF g.kind = "FUNCTION" THEN {} ELSE {g.class}
    [] t.is = "var" -> IF t.name \in DOMAIN g.vars THEN {g.vars[t.name]} ELSE {}
    [] t.is = "call" -> CallTypes(t.call, g)
    [] t.is = "paren" -> TypesOf(t.of, g)
    [] t.is = "unary" -> {r \in Basic : \E a \in TypesOf([term |-> t.of, ops |-> <<>>], g) :
                                          <<t.op, a, r>> \in Operators}
    [] OTHER -> {}

TypesOf(e, g) ==
  LET Step(left, o) ==
        {r \in Basic : \E l \in left, x \in TermTypes(o.term, g) :
           \/ <<o.op, l, x, r>> \in Operators
           \/ o.op = "=" /\ r = "boolean" /\ Comparable(l, x)}
  IN FoldLeft(Step, TermTypes(e.term, g), e.ops)

RECURSIVE Typed(_, _)
LOCAL TypedStatement(s, g) ==
  CASE s.is = "let" -> /\ s.index = <<>>
                       /\ s.name \in DOMAIN g.vars
                       /\ Fits(g.vars[s.name], TypesOf(s.right, g))
    [] s.is = "if" -> /\ "boolean" \in TypesOf(s.condition, g)
                      /\ Typed(s.then, g) /\ Typed(s.else, g)
    [] s.is = "while" -> "boolean" \in TypesOf(s.condition, g) /\ Typed(s.body, g)
    [] s.is = "do" -> CallTypes(s.call, g) # {}
    [] s.is = "return" -> IF s.value = <<>> THEN g.returns = "void"
                          ELSE g.returns # "void" /\ Fits(g.returns, TypesOf(s.value[1], g))

Typed(statements, g) == \A i \in 1 .. Len(statements) : TypedStatement(statements[i], g)

LOCAL Context(program, library, c, s) ==
  LET seen == SelectSeq(c.vars, LAMBDA d : s.kind = "FUNCTION" => d.modifier = "STATIC") IN
  [class |-> c.name, kind |-> s.kind, returns |-> s.type,
   signatures |-> Signatures(program, library),
   vars |-> Bind(DeclaredNames(s.varDecs), DeclaredTypes(s.varDecs))
              @@ Bind(s.params.names, s.params.types)
              @@ Bind(DeclaredNames(seen), DeclaredTypes(seen))]

(* Names declared once in their scope, types that exist, typed bodies.     *)
(* A function has no object, and with it no fields.                        *)
WellTyped(program, library) ==
  LET exist == Basic \union {program[i].name : i \in 1 .. Len(program)}
                     \union {library[i].name : i \in 1 .. Len(library)} IN
  /\ IsInjective([i \in 1 .. Len(program) |-> program[i].name])
  /\ \A c \in ToSet(program) :
       /\ IsInjective(DeclaredNames(c.vars) \o [i \in 1 .. Len(c.subs) |-> c.subs[i].name])
       /\ ToSet(DeclaredTypes(c.vars)) \subseteq exist
       /\ \A s \in ToSet(c.subs) :
            /\ IsInjective(s.params.names \o DeclaredNames(s.varDecs))
            /\ ToSet(s.params.types \o DeclaredTypes(s.varDecs)) \subseteq exist
            /\ s.type \in exist \union {"void"}
            /\ Typed(s.body, Context(program, library, c, s))

-----------------------------------------------------------------------------
(* Meaning, of programs of functions.  The state holds the variables of    *)
(* the call and those of the classes; a call returns its value in it.      *)
LOCAL Initial(type) == IF type = "boolean" THEN FALSE ELSE 0

RECURSIVE Value(_, _), Effect(_, _), Called(_, _)

LOCAL With(s, v) == [s EXCEPT !.value = v]

LOCAL Visible(s, name) == IF name \in DOMAIN s.vars THEN s.vars[name] ELSE s.statics[s.class][name]

LOCAL Assign(s, name, v) ==
  IF name \in DOMAIN s.vars THEN [s EXCEPT !.vars[name] = v]
  ELSE [s EXCEPT !.statics[s.class][name] = v]

LOCAL Operate(op, x, y) ==
  CASE op = "+" -> x + y
    [] op = "-" -> x - y
    [] op = "*" -> x * y
    [] op = "/" -> x \div y
    [] op = "<" -> x < y
    [] op = ">" -> x > y
    [] op = "=" -> x = y
    [] op = "&" -> x /\ y
    [] op = "|" -> x \/ y

LOCAL TermValue(t, s) ==
  CASE t.is = "int" -> With(s, t.value)
    [] t.is = "true" -> With(s, TRUE)
    [] t.is = "false" -> With(s, FALSE)
    [] t.is = "null" -> With(s, 0)
    [] t.is = "var" -> With(s, Visible(s, t.name))
    [] t.is = "call" -> Called(t.call, s)
    [] t.is = "paren" -> Value(t.of, s)
    [] t.is = "unary" -> LET v == Value([term |-> t.of, ops |-> <<>>], s) IN
                         With(v, IF t.op = "-" THEN -v.value ELSE ~v.value)

(* From left to right, all operators being alike.                          *)
Value(e, s) ==
  LET Step(v, o) == LET w == TermValue(o.term, v) IN With(w, Operate(o.op, v.value, w.value))
  IN FoldLeft(Step, TermValue(e.term, s), e.ops)

Called(call, s) ==
  LET Step(r, arg) == LET v == Value(arg, r.s) IN [s |-> v, values |-> Append(r.values, v.value)]
      r == FoldLeft(Step, [s |-> s, values |-> <<>>], call.args)
      class == IF call.caller = "NULL" THEN s.class ELSE call.caller
      sub == The(The(s.program, class).subs, call.name)
      locals == DeclaredNames(sub.varDecs)
      inner == [r.s EXCEPT
                  !.class = class, !.returned = FALSE,
                  !.vars = Bind(locals, [i \in 1 .. Len(locals) |->
                                           Initial(DeclaredTypes(sub.varDecs)[i])])
                           @@ Bind(sub.params.names, r.values)]
      after == Effect(sub.body, inner)
  IN [r.s EXCEPT !.statics = after.statics, !.value = after.value]

LOCAL StatementEffect(s, statement) ==
  CASE statement.is = "let" ->
         LET v == Value(statement.right, s) IN Assign(v, statement.name, v.value)
    [] statement.is = "if" ->
         LET c == Value(statement.condition, s) IN
         Effect(IF c.value THEN statement.then ELSE statement.else, c)
    [] statement.is = "while" ->
         LET c == Value(statement.condition, s) IN
         IF c.value THEN Effect(statement.body \o <<statement>>, c) ELSE c
    [] statement.is = "do" -> Called(statement.call, s)
    [] statement.is = "return" ->
         LET v == IF statement.value = <<>> THEN With(s, 0) ELSE Value(statement.value[1], s)
         IN [v EXCEPT !.returned = TRUE]

(* Nothing is done after a return.                                         *)
Effect(statements, s) ==
  FoldLeft(LAMBDA r, statement : IF r.returned THEN r ELSE StatementEffect(r, statement),
           s, statements)

(* The value of a call of class.name() in a fresh program.                 *)
Meaning(program, class, name) ==
  LET Statics(c) == Bind(DeclaredNames(c.vars),
                         [i \in 1 .. Len(DeclaredNames(c.vars)) |-> Initial(DeclaredTypes(c.vars)[i])])
  IN Called([caller |-> class, name |-> name, args |-> <<>>],
            [program |-> program, class |-> class, vars |-> <<>>, returned |-> FALSE, value |-> 0,
             statics |-> [c \in {program[i].name : i \in 1 .. Len(program)} |->
                            Statics(The(program, c))]]).value
=============================================================================
