------------------------------ MODULE MCVisitor ------------------------------
(***************************************************************************)
(* The programs: trees as the parser makes them.  Runnable ones vary an    *)
(* expression or a statement of Main.main, Judged ones also declarations   *)
(* and calls.  On Misjudged ones the compiler and the language differ, and *)
(* of Miscompiled ones the code does not run; a set for each difference.   *)
(* Odd ones leave the rules of the analysis.                               *)
(***************************************************************************)
EXTENDS VisitorChecks

LOCAL Number(n) == [is |-> "int", value |-> n]
LOCAL Keyword(k) == [is |-> k]
LOCAL Var(name) == [is |-> "var", name |-> name, class |-> Null]
LOCAL Call(caller, name, args) == [caller |-> caller, name |-> name, args |-> args]
LOCAL CallOf(call) == [is |-> "call", call |-> call]
LOCAL Paren(e) == [is |-> "paren", of |-> e]
LOCAL Unary(op, t) == [is |-> "unary", op |-> op, of |-> t]
LOCAL Array(name, e) == [is |-> "array", name |-> name, index |-> e]
LOCAL Text(n) == [is |-> "string", length |-> n]
LOCAL Missing == [is |-> "none"]
LOCAL Incomplete == [is |-> "incomplete"]

LOCAL One(t) == [term |-> t, ops |-> <<>>]
LOCAL Two(t, op, u) == [term |-> t, ops |-> <<[op |-> op, term |-> u]>>]
LOCAL Three(t, op, u, p, v) ==
  [term |-> t, ops |-> <<[op |-> op, term |-> u], [op |-> p, term |-> v]>>]

LOCAL Let(name, e) == [is |-> "let", name |-> name, index |-> <<>>, right |-> e]
LOCAL LetAt(name, i, e) == [is |-> "let", name |-> name, index |-> <<i>>, right |-> e]
LOCAL If(c, then, else) == [is |-> "if", condition |-> c, then |-> then, else |-> else]
LOCAL While(c, body) == [is |-> "while", condition |-> c, body |-> body]
LOCAL Do(call) == [is |-> "do", call |-> call]
LOCAL Return(e) == [is |-> "return", value |-> <<e>>]
LOCAL ReturnNothing == [is |-> "return", value |-> <<>>]

LOCAL Dec(type, names) == [type |-> type, names |-> names]
LOCAL ClassDec(modifier, type, names) == [modifier |-> modifier, type |-> type, names |-> names]
LOCAL Params(types, names) == [types |-> types, names |-> names]
LOCAL Sub(kind, type, name, params, varDecs, body) ==
  [kind |-> kind, type |-> type, name |-> name, params |-> params,
   varDecs |-> varDecs, body |-> body]
LOCAL Function(type, name, params, varDecs, body) ==
  Sub("FUNCTION", type, name, params, varDecs, body)
LOCAL Class(name, variables, subs) == [name |-> name, vars |-> variables, subs |-> subs]

LOCAL Entry(kind, type, name, parameters) ==
  [name |-> name, kind |-> kind, return_type |-> type,
   parameters |-> [i \in 1 .. Len(parameters) |-> [name |-> parameters[i], type |-> "int"]]]

MCLibrary ==
  <<[name |-> "Math", methods |-> <<>>,
     functions |-> <<Entry("KIND_FUNCTION", "int", "multiply", <<"x", "y">>)>>],
    [name |-> "Memory", methods |-> <<>>,
     functions |-> <<Entry("KIND_FUNCTION", "void", "deAlloc", <<"o">>)>>],
    [name |-> "Array", methods |-> <<Entry("KIND_METHOD", "void", "dispose", <<>>)>>,
     functions |-> <<Entry("KIND_FUNCTION", "Array", "new", <<"size">>)>>]>>

MCNames == {"Math", "multiply", "x", "y", "Memory", "deAlloc", "o", "Array", "dispose", "new",
            "size", "Main", "Other", "main", "down", "test", "bump", "s", "b", "v", "w", "a", "Nope"}

MCTypes == {"int", "char", "boolean", "void", "Math", "Memory", "Array", "Main", "Other", "Nope"}

-----------------------------------------------------------------------------
LOCAL None == Params(<<>>, <<>>)

(* Main and its functions: one that recurses, one with two parameters and  *)
(* a local variable, one that changes the class variable s.                *)
LOCAL Down ==
  Function("int", "down", Params(<<"int">>, <<"a">>), <<>>,
    <<If(Two(Var("a"), "<", Number(1)), <<Return(One(Number(0)))>>, <<>>),
      Return(Two(CallOf(Call("Main", "down", <<Two(Var("a"), "-", Number(1))>>)), "+", Var("a")))>>)

LOCAL Test ==
  Function("boolean", "test", Params(<<"int", "boolean">>, <<"a", "b">>),
    <<Dec("boolean", <<"v">>)>>,
    <<Let("v", Two(Var("a"), ">", Number(1))), Return(Two(Var("v"), "|", Var("b")))>>)

LOCAL Bump ==
  Function("void", "bump", None, <<>>,
    <<Let("s", Two(Var("s"), "+", Number(1))), ReturnNothing>>)

LOCAL DoBump == Do(Call("Main", "bump", <<>>))

LOCAL Program(type, locals, body) ==
  <<Class("Main", <<ClassDec("STATIC", "int", <<"s">>), ClassDec("STATIC", "boolean", <<"b">>)>>,
          <<Function(type, "main", None, locals, body), Down, Test, Bump>>)>>

LOCAL Locals == <<Dec("int", <<"v", "w">>)>>

LOCAL Evaluate(type, e) ==
  Program(type, Locals, <<DoBump, Let("w", One(Number(3))), Return(e)>>)

LOCAL Numbers == {Number(2), Var("s"), Unary("-", Var("w")),
                  CallOf(Call("Main", "down", <<One(Number(2))>>)),
                  Paren(Two(Number(7), "-", Number(2)))}

LOCAL Truths == {Paren(Two(Number(1), "<", Number(2))), Keyword("false"), Var("b"),
                 Unary("~", Var("b")), Paren(Two(Var("w"), ">", Number(2))),
                 CallOf(Call("Main", "test", <<One(Var("w")), One(Keyword("false"))>>))}

LOCAL SomeTerms == Numbers \union Truths

LOCAL TypeFor(op) == IF op \in {"+", "-", "*", "/"} THEN "int" ELSE "boolean"

(* Two truth values are not compared here, but in MCEquality.              *)
LOCAL Evaluations ==
  {Evaluate(TypeFor(op), Two(t, op, u)) :
     t \in SomeTerms, op \in {"+", "-", "*", "<", ">", "&", "|"}, u \in SomeTerms}
  \union
  {Evaluate("boolean", Two(t, "=", u)) : t \in Numbers, u \in SomeTerms}
  \union
  {Evaluate("boolean", Two(t, "=", u)) : t \in Truths, u \in Numbers}
  \union
  {Evaluate(TypeFor(p), Three(t, op, u, p, v)) :
     t \in {Number(2), Var("b")}, op \in {"-", "<", "|"}, u \in {Number(5), Var("b")},
     p \in {"-", ">", "&", "/"}, v \in {Var("w"), Keyword("false")}}
  \union
  {Evaluate(type, One(t)) : type \in {"int", "boolean"}, t \in SomeTerms}

(* Statements: branches and loops, with returns and changes of s in them.  *)
LOCAL Conditions == {One(Var("b")), Two(Var("v"), "<", Number(1)), Two(Var("s"), ">", Var("v")),
                     Two(Unary("~", Var("b")), "&", Paren(Two(Var("v"), "=", Number(0)))),
                     One(Var("v"))}

LOCAL Count(name) == Let(name, Two(Var(name), "+", Number(1)))

LOCAL Blocks == {<<>>, <<DoBump, DoBump>>, <<Return(One(Number(9)))>>,
                 <<Count("v"), If(Two(Var("v"), "<", Number(2)), <<DoBump>>, <<Count("s")>>)>>,
                 <<If(Two(Var("v"), ">", Var("w")), <<>>, <<Return(One(Number(8)))>>), Count("v")>>}

LOCAL Result == Return(Three(Var("s"), "*", Number(10), "+", Var("v")))

LOCAL Flows ==
  {Program("int", Locals, <<If(c, then, else), Result>>) :
     c \in Conditions, then \in Blocks, else \in Blocks}
  \union
  {Program("int", Locals,
           <<Let("w", One(Number(0))),
             While(Three(Paren(Two(Var("w"), "<", Number(2))), "&", Paren(c), "|", Keyword("false")),
                   <<Count("w")>> \o body),
             While(Two(Var("v"), "<", Number(3)), <<Count("v")>>), Result>>) :
     c \in Conditions, body \in Blocks}

MCRunnable == Evaluations \union Flows

-----------------------------------------------------------------------------
(* Declarations of a class and of a subroutine.                            *)
LOCAL Plain(type, body) == Function(type, "main", None, <<>>, body)

LOCAL ReturnOne == <<Return(One(Number(1)))>>

LOCAL Other ==
  Class("Other", <<ClassDec("FIELD", "int", <<"v">>)>>,
        <<Sub("METHOD", "int", "test", None, <<>>, <<Return(One(Var("v")))>>)>>)

LOCAL ClassVariablesOf ==
  {<<Class("Main", <<ClassDec(modifier, type, names), ClassDec("STATIC", "int", <<"a">>)>>,
           <<Plain("int", ReturnOne)>>), Other>> :
     modifier \in {"STATIC", "FIELD"}, type \in {"int", "Other", "Nope"},
     names \in {<<"v">>, <<"v", "w">>, <<"v", "v">>, <<"a">>, <<"main">>}}

LOCAL SubroutineVariablesOf ==
  {<<Class("Main", <<>>,
       <<Plain("int", ReturnOne), Function("int", "down", params, locals, <<Let(name, e)>> \o ReturnOne)>>),
     Other>> :
     params \in {Params(<<"int">>, <<"a">>), Params(<<"Nope">>, <<"a">>),
                 Params(<<"Other", "int">>, <<"a", "b">>)},
     locals \in {<<>>, <<Dec("Nope", <<"v">>)>>, <<Dec("int", <<"v">>), Dec("Other", <<"w", "x">>)>>,
                 <<Dec("int", <<"v">>), Dec("Nope", <<"w", "x">>)>>},
     name \in {"v", "a", "x"}, e \in {One(Number(1)), One(Var("a"))}}

(* Calls: of a subroutine of the class, of a class, of a variable, of none;*)
(* with compound arguments, ill typed ones and too many.                   *)
LOCAL CallsOf ==
  {Call(caller, name[1], name[2]) :
     caller \in {"Main", "Math", "o", "v", "Nope"},
     name \in {<<"down", <<One(Number(1))>> >>, <<"down", <<One(Keyword("true"))>> >>,
               <<"test", <<>> >>, <<"bump", <<>> >>}}
  \union
  {Call(caller, "down", <<One(Number(1))>>) : caller \in {"Other", "Math"}}
  \union
  {Call("Main", "down", args) :
     args \in {<<Two(Number(1), "+", Var("v"))>>, <<Two(Var("v"), "-", Var("o"))>>,
               <<One(Paren(Two(Var("v"), ">", Number(1))))>>, <<One(Var("o"))>>,
               <<One(Unary("~", Var("v")))>>, <<One(Number(1)), One(Number(2))>>,
               <<One(CallOf(Call("Main", "down", <<Two(Var("v"), "*", Number(2))>>)))>>,
               <<One(CallOf(Call("Main", "bump", <<>>)))>>}}
  \union
  {Call(caller, "multiply", <<One(Number(1)), One(Var(name))>>) :
     caller \in {"Math", "Other", "v"}, name \in {"v", "o"}}
  \union
  {Call(Null, "test", <<>>), Call("Main", "bump", <<One(Number(1))>>),
   Call("Math", "multiply", <<One(Number(1)), One(Number(2)), One(Number(3))>>)}

LOCAL CallingWith(statements) ==
  <<Class("Main", <<ClassDec("STATIC", "int", <<"s">>)>>,
     <<Function("int", "main", Params(<<"Other">>, <<"o">>), <<Dec("int", <<"v">>)>>,
                statements \o ReturnOne), Down, Bump>>), Other>>

LOCAL Calling(calls) ==
  {CallingWith(<<Do(c)>>) : c \in calls} \union
  {CallingWith(<<Let("v", One(CallOf(c)))>>) : c \in calls}

(* An object of the library.                                               *)
LOCAL Using(type, make, dispose) ==
  <<Class("Main", <<>>,
     <<Function("int", "main", None, <<Dec(type, <<"v">>)>>, <<Let("v", make), Do(dispose)>> \o ReturnOne)>>)>>

LOCAL NewArray == One(CallOf(Call("Array", "new", <<One(Number(3))>>)))

LOCAL LibraryUses ==
  {Using(type, make, Call("v", "dispose", args)) :
     type \in {"Array", "int"}, args \in {<<>>, <<One(Number(1))>>}, make \in {NewArray, One(Number(3))}}

LOCAL Returning(kind, type, return) ==
  <<Class("Main", <<>>, <<Plain("int", ReturnOne),
       Sub(kind, type, "down", Params(<<"Other">>, <<"o">>), <<>>, <<return>>)>>), Other>>

LOCAL Returns ==
  {Returning("FUNCTION", type, return) :
     type \in {"int", "void", "Other", "Main"},
     return \in {ReturnNothing, Return(One(Number(1))), Return(One(Var("o"))), Return(One(Text(2)))}}
  \union
  {Returning("METHOD", type, Return(One(Keyword("this")))) : type \in {"int", "void", "Other", "Main"}}
  \union
  {Returning("FUNCTION", type, Return(One(Keyword("null")))) : type \in {"int", "void"}}

(* A method called on a variable of each kind, and on no object at all.    *)
LOCAL Method(name, params, locals, body) == Sub("METHOD", "int", name, params, locals, body)

LOCAL Receiving(variables, params, locals, call) ==
  <<Class("Main", variables,
          <<Method("main", params, locals, <<Let("v", One(CallOf(call)))>> \o ReturnOne),
            Method("test", None, <<>>, ReturnOne)>>), Other>>

LOCAL ReceivingField(modifier) ==
  Receiving(<<ClassDec(modifier, "Other", <<"o">>)>>, None, Locals, Call("o", "test", <<>>))

LOCAL IntV == <<ClassDec("STATIC", "int", <<"v">>)>>

LOCAL Receivers ==
  {ReceivingField("FIELD"),
   Receiving(IntV, Params(<<"Other">>, <<"o">>), <<>>, Call("o", "test", <<>>)),
   Receiving(IntV, None, <<Dec("Other", <<"o">>)>>, Call("o", "test", <<>>))}

(* Characters, which are compared like numbers.                            *)
LOCAL WithCharacter(type, e) ==
  <<Class("Main", <<ClassDec("STATIC", "char", <<"v">>)>>, <<Plain(type, <<Return(e)>>)>>)>>

LOCAL Characters ==
  {WithCharacter("boolean", Two(t, op, u)) :
     t \in {Var("v"), Number(2)}, op \in {"<", "=", "|"}, u \in {Var("v"), Keyword("null")}}

MCJudged == MCRunnable \union ClassVariablesOf \union SubroutineVariablesOf \union Calling(CallsOf)
              \union Returns \union Receivers \union LibraryUses \union Characters

-----------------------------------------------------------------------------
(* Programs whose verdict is not that of the language.                     *)

(* Two truth values compared.                                              *)
MCEquality == {Evaluate("boolean", Two(t, "=", u)) : t \in Truths, u \in Truths}

(* Characters as numbers.                                                  *)
MCCharacters ==
  {WithCharacter("int", One(Var("v"))), WithCharacter("int", Two(Var("v"), "+", Number(1)))}

(* null where an object is wanted.                                         *)
MCNull ==
  {Returning("FUNCTION", "Other", Return(One(Keyword("null")))),
   Using("Array", One(Keyword("null")), Call("v", "dispose", <<>>))}

(* Arguments whose first term has another type than the whole.             *)
MCArguments ==
  {Evaluate("boolean", One(CallOf(Call("Main", "test", <<One(Var("w")), Two(Var("w"), ">", Number(2))>>)))),
   Evaluate("int", One(CallOf(Call("Main", "down", <<Two(Number(1), "<", Number(2))>>))))}

(* Too few arguments.                                                      *)
MCArity ==
  Calling({Call("Main", "down", <<>>), Call("Math", "multiply", <<One(Number(1))>>)})

(* A method called as a function, a function as a method, and this in a    *)
(* function.                                                               *)
MCKinds ==
  Calling({Call("Other", "test", <<>>), Call(Null, "down", <<One(Number(1))>>)})
    \union {CallingWith(<<Do(Call(Null, "bump", <<>>))>>),
            Using("Array", NewArray, Call("v", "new", <<One(Number(1))>>)),
            Returning("FUNCTION", "Main", Return(One(Keyword("this"))))}

(* A name declared twice in a subroutine.                                  *)
MCTwice ==
  {<<Class("Main", <<>>, <<Function("int", "main", params, <<Dec("int", names)>>, ReturnOne)>>)>> :
     params \in {Params(<<"int">>, <<"a">>), Params(<<"int", "int">>, <<"a", "a">>)},
     names \in {<<"v", "v">>, <<"a">>}}

(* Two declarations of one local variable each.                            *)
MCTwoLocals ==
  {<<Class("Main", <<>>,
       <<Function("int", "main", None, <<Dec("int", <<"v">>), Dec("int", <<"w">>)>>, ReturnOne)>>)>>}

MCMisjudged ==
  UNION {MCEquality, MCCharacters, MCNull, MCArguments, MCArity, MCKinds, MCTwice, MCTwoLocals}

-----------------------------------------------------------------------------
(* Programs whose code does not run.                                       *)

(* The constant true.                                                      *)
MCTrue ==
  {Evaluate("boolean", e) :
     e \in {One(Keyword("true")), Two(Var("b"), "|", Keyword("true")), Two(Keyword("true"), "&", Var("b"))}}

LOCAL Point(locals, body) ==
  Class("Other", <<ClassDec("FIELD", "int", <<"v", "w">>)>>,
        <<Sub("CONSTRUCTOR", "Other", "down", None, locals, body),
          Sub("METHOD", "int", "test", None, <<>>, <<Return(One(Var("v")))>>)>>)

(* A constructor that returns its object, as all constructors do.          *)
MCConstructor ==
  {<<Class("Main", <<>>, <<Plain("int", <<Do(Call("Other", "down", <<>>))>> \o ReturnOne)>>),
     Point(<<>>, <<Return(One(Keyword("this")))>>)>>}

(* A method called on an object that a static variable holds.              *)
MCStatic ==
  {<<Class("Main", <<ClassDec("STATIC", "Other", <<"o">>)>>,
           <<Plain("int", <<Do(Call("o", "test", <<>>))>> \o ReturnOne)>>), Other>>}

(* A method called on the current object by another method of it.          *)
MCOwnMethod ==
  {<<Class("Main", <<ClassDec("FIELD", "int", <<"s">>)>>,
       <<Function("int", "main", None, <<Dec("Main", <<"o">>)>>,
                  <<Return(One(CallOf(Call("o", "down", <<>>))))>>),
         Method("down", None, <<>>, <<Return(One(CallOf(Call(Null, "test", <<>>))))>>),
         Method("test", None, <<>>, <<Return(One(Var("s")))>>)>>)>>}

MCMiscompiled == UNION {MCTrue, MCConstructor, MCStatic, MCOwnMethod}

-----------------------------------------------------------------------------
(* Programs that the rules of the analysis do not cover, or end it.        *)
LOCAL WithStatement(statement) == CallingWith(<<statement>>)

LOCAL OddStatements ==
  {Let("v", One(Missing)), Let("v", One(Incomplete)), Let("v", Two(Number(1), "+", Incomplete)),
   Let("v", One(Var("Nope"))), Let("v", Two(Number(1), "~", Number(2))),
   Let("v", One(Array("o", One(Number(1))))), Let("v", One(Array("Nope", One(Number(1))))),
   Let("v", Two(Number(1), "+", Array("Nope", One(Number(1))))),
   LetAt("s", One(Number(1)), One(Number(2))), LetAt("s", One(Var("o")), One(Number(2))),
   Let("down", One(Number(1))), Let("v", One([is |-> "var", name |-> "s", class |-> "Main"])),
   Let("v", One([is |-> "var", name |-> "s", class |-> "Other"])),
   Let("v", One([is |-> "var", name |-> "s", class |-> "Nope"])),
   Let("v", One([is |-> "var", name |-> "s", class |-> "v"])),
   Do(Call("Memory", "deAlloc", <<One(Var("o"))>>)), Do(Call(Null, "deAlloc", <<One(Var("o"))>>)),
   Do(Call(Null, "multiply", <<One(Number(1)), One(Number(1))>>))}

LOCAL Doubles ==
  {<<Class("Main", <<>>, <<Plain("int", ReturnOne)>>), Class("Main", variables, subs)>> :
     variables \in {<<>>, <<ClassDec("STATIC", "int", <<"v">>)>>},
     subs \in {<<>>, <<Plain("int", ReturnOne)>>, <<Plain("void", <<ReturnNothing>>)>>}}

MCOdd ==
  {WithStatement(s) : s \in OddStatements} \union Doubles
    \union {<<Class("Main", <<>>, <<Function("int", "main", Params(<<"int", "int">>, <<"a">>),
                                            <<>>, ReturnOne)>>)>>}

MCPrograms == MCJudged \union MCMisjudged \union MCMiscompiled \union MCOdd
=============================================================================
