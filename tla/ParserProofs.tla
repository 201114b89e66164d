----------------------------- MODULE ParserProofs -----------------------------
(***************************************************************************)
(* Proofs about the parser, for files of any length and any number of      *)
(* errors.  What the parse functions leave to be done is nested steps; the *)
(* sets of steps by depth of nesting say what they can be.                 *)
(***************************************************************************)
EXTENDS Parser, TLAPS

Functions ==
  {"parse_class_var_dec", "parse_subroutine_dec", "parse_parameter_list",
   "parse_subroutine_body", "parse_var_dec", "parse_statements", "parse_statement",
   "parse_let_statement", "parse_if_statement", "parse_while_statement",
   "parse_do_statement", "parse_return_statement", "parse_subroutine_call",
   "parse_expression", "parse_term", "parse_var_term"}

Leaf ==
  [op : {"node"}, back : {0, 1}]
    \union [op : {"pop", "error"}]
    \union [op : {"expect", "closing"}, set : SUBSET Tokens]
    \union [op : {"call"}, function : Functions]

Loops(S) == [op : {"while"}, set : SUBSET Tokens, then : Seq(S)]

(* One case of a choice: the tokens, and what is done.                     *)
Cases(S) == (SUBSET Tokens) \X Seq(S)

Choices(S) == [op : {"select"}, cases : Seq(Cases(S)), else : Seq(S)]

Peeks(S) ==
  [op : {"peek"}, ahead : Nat, set : SUBSET Tokens, then : Seq(S), else : Seq(S)]

Nested(S) == S \union Loops(S) \union Choices(S) \union Peeks(S)

Depth1 == Nested(Leaf)
Depth2 == Nested(Depth1)
Depth3 == Nested(Depth2)
Depth4 == Nested(Depth3)
Depth5 == Nested(Depth4)

-----------------------------------------------------------------------------
(* Whatever a step in todo leads to is steps again.                        *)
Bodied(s) ==
  /\ s.op \in {"node", "pop", "expect", "closing", "error", "call", "while", "select", "peek"}
  /\ s.op = "node" => s.back \in {0, 1}
  /\ s.op = "call" => s.function \in Functions
  /\ s.op = "while" => s.then \in Seq(Depth5)
  /\ s.op = "select" =>
       /\ s.else \in Seq(Depth5)
       /\ \A k \in 1 .. Len(s.cases) : s.cases[k][2] \in Seq(Depth5)
  /\ s.op = "peek" => s.then \in Seq(Depth5) /\ s.else \in Seq(Depth5)

LEMMA SeqGrows ==
  ASSUME NEW S, NEW T, S \subseteq T
  PROVE  Seq(S) \subseteq Seq(T)
<1> SUFFICES ASSUME NEW s \in Seq(S) PROVE s \in Seq(T)
  OBVIOUS
<1>1. Len(s) \in Nat /\ s = [i \in 1 .. Len(s) |-> s[i]] /\ \A i \in 1 .. Len(s) : s[i] \in S
  OBVIOUS
<1> QED
  BY <1>1

LEMMA BodiedNested ==
  ASSUME NEW S, S \subseteq Depth5, \A s \in S : Bodied(s)
  PROVE  \A s \in Nested(S) : Bodied(s)
<1>1. Seq(S) \subseteq Seq(Depth5)
  BY SeqGrows
<1>2. ASSUME NEW s \in Loops(S) PROVE Bodied(s)
  BY <1>1 DEF Loops, Bodied
<1>3. ASSUME NEW s \in Choices(S) PROVE Bodied(s)
  <2>1. s.op = "select" /\ s.else \in Seq(S) /\ s.cases \in Seq(Cases(S))
    BY DEF Choices
  <2>2. ASSUME NEW k \in 1 .. Len(s.cases) PROVE s.cases[k][2] \in Seq(S)
    <3>1. s.cases[k] \in Cases(S)
      BY <2>1
    <3> QED
      BY <3>1 DEF Cases
  <2> QED
    BY <1>1, <2>1, <2>2 DEF Bodied
<1>4. ASSUME NEW s \in Peeks(S) PROVE Bodied(s)
  BY <1>1 DEF Peeks, Bodied
<1> QED
  BY <1>2, <1>3, <1>4 DEF Nested

LEMMA Depths ==
  /\ Leaf \subseteq Depth1 /\ Depth1 \subseteq Depth2 /\ Depth2 \subseteq Depth3
  /\ Depth3 \subseteq Depth4 /\ Depth4 \subseteq Depth5
  BY Zenon DEF Nested, Depth1, Depth2, Depth3, Depth4, Depth5

LEMMA StepsBodied == \A s \in Depth5 : Bodied(s)
<1>1. \A s \in Leaf : Bodied(s)
  BY DEF Leaf, Bodied
<1>2. \A s \in Depth1 : Bodied(s)
  BY <1>1, Depths, BodiedNested, Zenon DEF Depth1
<1>3. \A s \in Depth2 : Bodied(s)
  BY <1>2, Depths, BodiedNested, Zenon DEF Depth2
<1>4. \A s \in Depth3 : Bodied(s)
  BY <1>3, Depths, BodiedNested, Zenon DEF Depth3
<1>5. \A s \in Depth4 : Bodied(s)
  BY <1>4, Depths, BodiedNested, Zenon DEF Depth4
<1> QED
  BY <1>5, Depths, BodiedNested, Zenon DEF Depth5
-----------------------------------------------------------------------------
(* The steps are built from steps.                                         *)
LEMMA Leaves ==
  /\ Node(0) \in Leaf /\ Node(1) \in Leaf /\ Pop \in Leaf /\ Error \in Leaf /\ Closing \in Leaf
  /\ \A set \in SUBSET Tokens : Expect(set) \in Leaf
  /\ \A function \in Functions : Call(function) \in Leaf
<1>1. {"}"} \in SUBSET Tokens
  BY DEF Tokens
<1> QED
  BY <1>1 DEF Leaf, Node, Pop, Error, Closing, Expect, Call

(* Every token of the rules is a token.                                    *)
LEMMA RuleTokens ==
  /\ {"ID"} \in SUBSET Tokens
  /\ {";"} \in SUBSET Tokens
  /\ {"("} \in SUBSET Tokens
  /\ {")"} \in SUBSET Tokens
  /\ {"{"} \in SUBSET Tokens
  /\ {"}"} \in SUBSET Tokens
  /\ {"["} \in SUBSET Tokens
  /\ {"]"} \in SUBSET Tokens
  /\ {"="} \in SUBSET Tokens
  /\ {"class"} \in SUBSET Tokens
  /\ {"var"} \in SUBSET Tokens
  /\ {"let"} \in SUBSET Tokens
  /\ {"do"} \in SUBSET Tokens
  /\ {"if"} \in SUBSET Tokens
  /\ {"else"} \in SUBSET Tokens
  /\ {"while"} \in SUBSET Tokens
  /\ {"return"} \in SUBSET Tokens
  /\ {","} \in SUBSET Tokens
  /\ {"."} \in SUBSET Tokens
  /\ {"constant"} \in SUBSET Tokens
  /\ {"-", "~"} \in SUBSET Tokens
  /\ ClassVar \in SUBSET Tokens /\ SubroutineDec \in SUBSET Tokens
  /\ ClassVar \union SubroutineDec \in SUBSET Tokens
  /\ Statement \in SUBSET Tokens /\ Type \in SUBSET Tokens /\ Operation \in SUBSET Tokens
  /\ Tokens \ {";"} \in SUBSET Tokens /\ Tokens \ {")"} \in SUBSET Tokens
  BY DEF Tokens, ClassVar, SubroutineDec, Statement, Type, Operation

LEMMA Expectations ==
  /\ Expect({"ID"}) \in Leaf
  /\ Expect({";"}) \in Leaf
  /\ Expect({"("}) \in Leaf
  /\ Expect({")"}) \in Leaf
  /\ Expect({"{"}) \in Leaf
  /\ Expect({"}"}) \in Leaf
  /\ Expect({"["}) \in Leaf
  /\ Expect({"]"}) \in Leaf
  /\ Expect({"="}) \in Leaf
  /\ Expect({"class"}) \in Leaf
  /\ Expect({"var"}) \in Leaf
  /\ Expect({"let"}) \in Leaf
  /\ Expect({"do"}) \in Leaf
  /\ Expect({"if"}) \in Leaf
  /\ Expect({"while"}) \in Leaf
  /\ Expect({"return"}) \in Leaf
  /\ Expect(ClassVar) \in Leaf /\ Expect(SubroutineDec) \in Leaf /\ Expect(Type) \in Leaf
<1>1. ASSUME NEW set \in SUBSET Tokens PROVE Expect(set) \in Leaf
  BY Leaves
<1> QED
  BY <1>1, RuleTokens

LEMMA Short ==
  ASSUME NEW S, NEW a \in S, NEW b \in S, NEW c \in S
  PROVE  /\ <<>> \in Seq(S) /\ <<a>> \in Seq(S) /\ <<a, b>> \in Seq(S) /\ <<a, b, c>> \in Seq(S)
  OBVIOUS

LEMMA Four ==
  ASSUME NEW S, NEW a \in S, NEW b \in S, NEW c \in S, NEW d \in S
  PROVE  <<a, b, c, d>> \in Seq(S)
  OBVIOUS

LEMMA Five ==
  ASSUME NEW S, NEW a \in S, NEW b \in S, NEW c \in S, NEW d \in S, NEW e \in S
  PROVE  <<a, b, c, d, e>> \in Seq(S)
  OBVIOUS

LEMMA Six ==
  ASSUME NEW S, NEW a \in S, NEW b \in S, NEW c \in S, NEW d \in S, NEW e \in S,
         NEW f \in S
  PROVE  <<a, b, c, d, e, f>> \in Seq(S)
  OBVIOUS

LEMMA Seven ==
  ASSUME NEW S, NEW a \in S, NEW b \in S, NEW c \in S, NEW d \in S, NEW e \in S,
         NEW f \in S, NEW g \in S
  PROVE  <<a, b, c, d, e, f, g>> \in Seq(S)
  OBVIOUS

LEMMA Joined ==
  ASSUME NEW S, NEW s \in Seq(S), NEW t \in Seq(S)
  PROVE  s \o t \in Seq(S)
  OBVIOUS

LEMMA Case ==
  ASSUME NEW S, NEW set \in SUBSET Tokens, NEW body \in Seq(S)
  PROVE  <<set, body>> \in Cases(S) /\ << <<set, body>> >> \in Seq(Cases(S))
  BY DEF Cases

LEMMA Composed ==
  ASSUME NEW S, NEW set \in SUBSET Tokens, NEW then \in Seq(S), NEW else \in Seq(S)
  PROVE  /\ While(set, then) \in Nested(S)
         /\ If(set, then) \in Nested(S)
         /\ \A ahead \in Nat : Peek(ahead, set, then, else) \in Nested(S)
         /\ \A cases \in Seq(Cases(S)) : Select(cases, else) \in Nested(S)
<1>1. While(set, then) \in Loops(S)
  BY DEF While, Loops
<1>2. \A cases \in Seq(Cases(S)) : Select(cases, else) \in Choices(S)
  BY DEF Select, Choices
<1>3. \A ahead \in Nat : Peek(ahead, set, then, else) \in Peeks(S)
  BY DEF Peek, Peeks
<1>4. If(set, then) \in Choices(S)
  <2>1. << <<set, then>> >> \in Seq(Cases(S))
    BY Case
  <2>2. <<>> \in Seq(S)
    OBVIOUS
  <2> QED
    BY <2>1, <2>2 DEF If, Select, Choices
<1> QED
  BY <1>1, <1>2, <1>3, <1>4 DEF Nested

LEMMA Deeper ==
  /\ Seq(Leaf) \subseteq Seq(Depth1) /\ Seq(Depth1) \subseteq Seq(Depth2)
  /\ Seq(Depth2) \subseteq Seq(Depth5) /\ Seq(Depth1) \subseteq Seq(Depth5)
  /\ Leaf \subseteq Depth2 /\ Leaf \subseteq Depth3 /\ Leaf \subseteq Depth5
  /\ Depth1 \subseteq Depth5 /\ Depth2 \subseteq Depth5
  BY Depths, SeqGrows

LEMMA NamesTyped == Names \in Seq(Depth1)
<1>1. <<Pop, Expect({"ID"})>> \in Seq(Leaf)
  BY Leaves, Expectations, Short
<1>2. While({","}, <<Pop, Expect({"ID"})>>) \in Depth1
  BY <1>1, RuleTokens, Composed DEF Depth1
<1>3. Expect({"ID"}) \in Depth1
  BY Leaves, RuleTokens, Depths
<1> QED
  BY <1>2, <1>3, Short DEF Names

LEMMA ClassTyped == parse_class \in Seq(Depth5)
<1> DEFINE variables == <<Call("parse_class_var_dec")>>
           cases == << <<ClassVar, variables>> >>
           choice == Select(cases, <<Call("parse_subroutine_dec")>>)
           loop == While(ClassVar \union SubroutineDec, <<choice>>)
<1>1. variables \in Seq(Leaf) /\ <<Call("parse_subroutine_dec")>> \in Seq(Leaf)
  BY Leaves, Short DEF Functions
<1> HIDE DEF variables
<1>2. cases \in Seq(Cases(Leaf))
  BY <1>1, RuleTokens, Case
<1> HIDE DEF cases
<1>3. choice \in Depth1
  BY <1>1, <1>2, RuleTokens, Composed DEF Depth1
<1> HIDE DEF choice
<1>4. loop \in Depth2
  BY <1>3, RuleTokens, Composed, Short DEF Depth2
<1>5. /\ Pop \in Depth5 /\ Node(0) \in Depth5 /\ Closing \in Depth5
      /\ Expect({"class"}) \in Depth5 /\ Expect({"ID"}) \in Depth5 /\ Expect({"{"}) \in Depth5
      /\ loop \in Depth5
  BY <1>4, Leaves, Expectations, Deeper
<1> HIDE DEF loop
<1>6. parse_class = <<Pop, Node(0), Expect({"class"}), Expect({"ID"}), Expect({"{"}), loop, Closing>>
  BY DEF parse_class, loop, choice, cases, variables
<1> QED
  BY <1>5, <1>6, Seven

LEMMA VariablesTyped == parse_class_var_dec \in Seq(Depth5) /\ parse_var_dec \in Seq(Depth5)
<1>1. /\ <<Node(1), Expect(ClassVar), Expect(Type)>> \in Seq(Depth5)
      /\ <<Node(1), Expect({"var"}), Expect(Type)>> \in Seq(Depth5)
      /\ <<Expect({";"})>> \in Seq(Depth5)
  BY Leaves, Expectations, Deeper, Short
<1>2. Names \in Seq(Depth5)
  BY NamesTyped, Deeper
<1> QED
  BY <1>1, <1>2, Joined DEF parse_class_var_dec, parse_var_dec

LEMMA SubroutineTyped == parse_subroutine_dec \in Seq(Depth5)
<1>1. /\ Node(1) \in Depth5 /\ Expect(SubroutineDec) \in Depth5 /\ Expect(Type) \in Depth5
      /\ Expect({"ID"}) \in Depth5 /\ Expect({"("}) \in Depth5 /\ Expect({")"}) \in Depth5
      /\ Call("parse_parameter_list") \in Depth5 /\ Call("parse_subroutine_body") \in Depth5
  BY Leaves, Expectations, Deeper DEF Functions
<1>2. /\ <<Node(1), Expect(SubroutineDec), Expect(Type), Expect({"ID"}), Expect({"("})>> \in Seq(Depth5)
      /\ <<Call("parse_parameter_list"), Expect({")"}), Call("parse_subroutine_body")>> \in Seq(Depth5)
  BY <1>1, Five, Short
<1>3. parse_subroutine_dec =
        <<Node(1), Expect(SubroutineDec), Expect(Type), Expect({"ID"}), Expect({"("})>>
          \o <<Call("parse_parameter_list"), Expect({")"}), Call("parse_subroutine_body")>>
  BY DEF parse_subroutine_dec
<1> QED
  BY <1>2, <1>3, Joined

LEMMA ParametersTyped == parse_parameter_list \in Seq(Depth5)
<1> DEFINE more == While({","}, <<Pop, Expect(Type), Expect({"ID"})>>)
           list == If(Type, <<Pop, Expect({"ID"}), more>>)
<1>1. <<Pop, Expect(Type), Expect({"ID"})>> \in Seq(Leaf)
  BY Leaves, Expectations, Short
<1>2. more \in Depth1
  BY <1>1, RuleTokens, Composed DEF Depth1
<1> HIDE DEF more
<1>3. <<Pop, Expect({"ID"}), more>> \in Seq(Depth1)
  BY <1>2, Leaves, Expectations, Depths, Short
<1>4. list \in Depth2
  BY <1>3, RuleTokens, Composed DEF Depth2
<1> HIDE DEF list
<1>5. <<Node(1), list>> \in Seq(Depth5)
  BY <1>4, Leaves, Deeper, Short
<1>6. parse_parameter_list = <<Node(1), list>>
  BY DEF parse_parameter_list, list, more
<1> QED
  BY <1>5, <1>6

LEMMA BodyTyped == parse_subroutine_body \in Seq(Depth5) /\ parse_statements \in Seq(Depth5)
<1>1. <<Call("parse_var_dec")>> \in Seq(Leaf) /\ <<Call("parse_statement")>> \in Seq(Leaf)
  BY Leaves, Short DEF Functions
<1>2. /\ While({"var"}, <<Call("parse_var_dec")>>) \in Depth5
      /\ While(Statement, <<Call("parse_statement")>>) \in Depth5
  <2>1. While({"var"}, <<Call("parse_var_dec")>>) \in Depth1
    BY <1>1, RuleTokens, Composed DEF Depth1
  <2>2. While(Statement, <<Call("parse_statement")>>) \in Depth1
    BY <1>1, RuleTokens, Composed DEF Depth1
  <2> QED
    BY <2>1, <2>2, Deeper
<1>3. /\ Node(1) \in Depth5 /\ Expect({"{"}) \in Depth5 /\ Expect({"}"}) \in Depth5
      /\ Call("parse_statements") \in Depth5
  BY Leaves, Expectations, Deeper DEF Functions
<1> QED
  BY <1>2, <1>3, Short, Five DEF parse_subroutine_body, parse_statements

LEMMA StatementTyped == parse_statement \in Seq(Depth5)
<1>1. /\ <<Call("parse_let_statement")>> \in Seq(Leaf) /\ <<Call("parse_do_statement")>> \in Seq(Leaf)
      /\ <<Call("parse_if_statement")>> \in Seq(Leaf) /\ <<Call("parse_while_statement")>> \in Seq(Leaf)
      /\ <<Call("parse_return_statement")>> \in Seq(Leaf) /\ <<Error>> \in Seq(Leaf)
  BY Leaves, Short DEF Functions
<1>2. /\ <<{"let"}, <<Call("parse_let_statement")>> >> \in Cases(Leaf)
      /\ <<{"do"}, <<Call("parse_do_statement")>> >> \in Cases(Leaf)
      /\ <<{"if"}, <<Call("parse_if_statement")>> >> \in Cases(Leaf)
      /\ <<{"while"}, <<Call("parse_while_statement")>> >> \in Cases(Leaf)
      /\ <<{"return"}, <<Call("parse_return_statement")>> >> \in Cases(Leaf)
  BY <1>1, RuleTokens, Case
<1>3. Statements \in Seq(Cases(Leaf))
  BY <1>2, Five DEF Statements
<1>4. Select(Statements, <<Error>>) \in Depth1
  BY <1>1, <1>3, RuleTokens, Composed DEF Depth1
<1>5. Node(1) \in Depth5 /\ Select(Statements, <<Error>>) \in Depth5
  BY <1>4, Leaves, Deeper
<1> QED
  BY <1>5, Short DEF parse_statement

LEMMA LetTyped == parse_let_statement \in Seq(Depth5)
<1> DEFINE access == If({"["}, <<Pop, Call("parse_expression"), Expect({"]"})>>)
<1>1. Call("parse_expression") \in Leaf
  BY Leaves DEF Functions
<1>2. <<Pop, Call("parse_expression"), Expect({"]"})>> \in Seq(Leaf)
  BY <1>1, Leaves, Expectations, Short
<1>3. access \in Depth1
  BY <1>2, RuleTokens, Composed DEF Depth1
<1> HIDE DEF access
<1>4. /\ Node(1) \in Depth5 /\ Expect({"let"}) \in Depth5 /\ Expect({"ID"}) \in Depth5
      /\ access \in Depth5 /\ Expect({"="}) \in Depth5 /\ Call("parse_expression") \in Depth5
      /\ Expect({";"}) \in Depth5
  BY <1>1, <1>3, Leaves, Expectations, Deeper
<1>5. parse_let_statement =
        <<Node(1), Expect({"let"}), Expect({"ID"}), access, Expect({"="}), Call("parse_expression"),
          Expect({";"})>>
  BY DEF parse_let_statement, access
<1> QED
  BY <1>4, <1>5, Seven

LEMMA BranchesTyped == parse_if_statement \in Seq(Depth5) /\ parse_while_statement \in Seq(Depth5)
<1>1. Call("parse_statements") \in Leaf /\ Call("parse_expression") \in Leaf
  BY Leaves DEF Functions
<1>2. Block \in Seq(Leaf) /\ Condition \in Seq(Leaf) /\ <<Pop>> \in Seq(Leaf)
  BY <1>1, Leaves, Expectations, Short DEF Block, Condition
<1>3. <<Pop>> \o Block \in Seq(Leaf)
  BY <1>2, Joined
<1>4. If({"else"}, <<Pop>> \o Block) \in Depth1
  BY <1>3, RuleTokens, Composed DEF Depth1
<1>5. <<If({"else"}, <<Pop>> \o Block)>> \in Seq(Depth5)
  BY <1>4, Deeper, Short
<1>6. /\ <<Node(1), Expect({"if"})>> \in Seq(Depth5) /\ <<Node(1), Expect({"while"})>> \in Seq(Depth5)
      /\ Block \in Seq(Depth5) /\ Condition \in Seq(Depth5)
  BY <1>2, Leaves, Expectations, Deeper, Short
<1> QED
  BY <1>5, <1>6, Joined DEF parse_if_statement, parse_while_statement

LEMMA EndsTyped == parse_do_statement \in Seq(Depth5) /\ parse_return_statement \in Seq(Depth5)
<1> DEFINE value == If(Tokens \ {";"}, <<Call("parse_expression")>>)
<1>1. Call("parse_expression") \in Leaf /\ Call("parse_subroutine_call") \in Leaf
  BY Leaves DEF Functions
<1>2. value \in Depth1
  BY <1>1, RuleTokens, Composed, Short DEF Depth1
<1> HIDE DEF value
<1>3. /\ Node(1) \in Depth5 /\ Expect({"do"}) \in Depth5 /\ Expect({"return"}) \in Depth5
      /\ Call("parse_subroutine_call") \in Depth5 /\ value \in Depth5 /\ Expect({";"}) \in Depth5
  BY <1>1, <1>2, Leaves, Expectations, Deeper
<1>4. /\ parse_do_statement = <<Node(1), Expect({"do"}), Call("parse_subroutine_call"), Expect({";"})>>
      /\ parse_return_statement = <<Node(1), Expect({"return"}), value, Expect({";"})>>
  BY DEF parse_do_statement, parse_return_statement, value
<1> QED
  BY <1>3, <1>4, Four

LEMMA CallTyped == parse_subroutine_call \in Seq(Depth5) /\ parse_var_term \in Seq(Depth5)
<1> DEFINE name == If({"ID"}, <<Pop>>)
           member == If({"."}, <<Pop, Expect({"ID"})>>)
           comma == If({","}, <<Pop>>)
           arguments == While(Tokens \ {")"}, <<Call("parse_expression"), comma>>)
<1>1. <<Pop>> \in Seq(Leaf) /\ <<Pop, Expect({"ID"})>> \in Seq(Leaf)
  BY Leaves, Expectations, Short
<1>2. name \in Depth1 /\ member \in Depth1 /\ comma \in Depth1
  BY <1>1, RuleTokens, Composed DEF Depth1
<1> HIDE DEF name, member, comma
<1>3. Call("parse_expression") \in Depth1
  BY Leaves, Depths DEF Functions
<1>4. arguments \in Depth2
  BY <1>2, <1>3, RuleTokens, Composed, Short DEF Depth2
<1> HIDE DEF arguments
<1>5. /\ Node(1) \in Depth5 /\ name \in Depth5 /\ member \in Depth5
      /\ Expect({"("}) \in Depth5 /\ arguments \in Depth5 /\ Expect({")"}) \in Depth5
  BY <1>2, <1>4, Leaves, Expectations, Deeper
<1>6. /\ parse_subroutine_call = <<Node(1), name, member, Expect({"("}), arguments, Expect({")"})>>
      /\ parse_var_term = <<Node(1), name, member>>
  BY DEF parse_subroutine_call, parse_var_term, name, member, comma, arguments
<1> QED
  BY <1>5, <1>6, Short, Six

LEMMA ExpressionTyped == parse_expression \in Seq(Depth5)
<1> DEFINE operations == While(Operation, <<Pop, Call("parse_term")>>)
<1>1. Call("parse_term") \in Leaf
  BY Leaves DEF Functions
<1>2. operations \in Depth1
  BY <1>1, Leaves, RuleTokens, Composed, Short DEF Depth1
<1> HIDE DEF operations
<1>3. <<Node(1), Call("parse_term"), operations>> \in Seq(Depth5)
  BY <1>1, <1>2, Leaves, Deeper, Short
<1>4. parse_expression = <<Node(1), Call("parse_term"), operations>>
  BY DEF parse_expression, operations
<1> QED
  BY <1>3, <1>4

LEMMA NameTermTyped == NameTerm \in Seq(Depth4)
<1> DEFINE call == <<Call("parse_subroutine_call")>>
           variable == <<Call("parse_var_term")>>
           element == <<Expect({"ID"}), Expect({"["}), Call("parse_expression"), Expect({"]"})>>
           third == Peek(3, {"("}, call, variable)
           second == Peek(2, {"ID"}, <<third>>, <<Error>>)
           first == Peek(1, {"."}, <<second>>, variable)
<1>1. call \in Seq(Leaf) /\ variable \in Seq(Leaf) /\ <<Error>> \in Seq(Leaf)
  BY Leaves, Short DEF Functions
<1>2. element \in Seq(Leaf)
  <2>1. Call("parse_expression") \in Leaf
    BY Leaves DEF Functions
  <2> QED
    BY <2>1, Expectations, Four
<1> HIDE DEF call, variable, element
<1>3. third \in Depth1
  BY <1>1, RuleTokens, Composed DEF Depth1
<1> HIDE DEF third
<1>4. second \in Depth2
  BY <1>1, <1>3, RuleTokens, Composed, Short, Deeper DEF Depth2
<1> HIDE DEF second
<1>5. variable \in Seq(Depth2) /\ element \in Seq(Depth3)
  BY <1>1, <1>2, Deeper, Depths, SeqGrows
<1>6. first \in Depth3
  BY <1>4, <1>5, RuleTokens, Composed, Short DEF Depth3
<1> HIDE DEF first
<1>7. Peek(1, {"["}, element, <<first>>) \in Depth4
  BY <1>5, <1>6, RuleTokens, Composed, Short DEF Depth4
<1>8. NameTerm = <<Peek(1, {"["}, element, <<first>>)>>
  BY DEF NameTerm, element, first, second, third, call, variable
<1> QED
  BY <1>7, <1>8, Short

LEMMA TermTyped == parse_term \in Seq(Depth5)
<1>1. Call("parse_expression") \in Leaf /\ Call("parse_term") \in Leaf
  BY Leaves DEF Functions
<1>2. /\ <<Pop>> \in Seq(Depth4) /\ <<Pop, Call("parse_expression"), Expect({")"})>> \in Seq(Depth4)
      /\ <<Pop, Call("parse_term")>> \in Seq(Depth4) /\ <<Error, Pop>> \in Seq(Depth4)
  BY <1>1, Leaves, Expectations, Depths, Short
<1>3. /\ <<{"constant"}, <<Pop>> >> \in Cases(Depth4)
      /\ <<{"ID"}, NameTerm>> \in Cases(Depth4)
      /\ <<{"("}, <<Pop, Call("parse_expression"), Expect({")"})>> >> \in Cases(Depth4)
      /\ <<{"-", "~"}, <<Pop, Call("parse_term")>> >> \in Cases(Depth4)
  BY <1>2, NameTermTyped, RuleTokens, Case
<1> DEFINE cases == << <<{"constant"}, <<Pop>> >>, <<{"ID"}, NameTerm>>,
                       <<{"("}, <<Pop, Call("parse_expression"), Expect({")"})>> >>,
                       <<{"-", "~"}, <<Pop, Call("parse_term")>> >> >>
<1>4. cases \in Seq(Cases(Depth4))
  BY <1>3, Four
<1> HIDE DEF cases
<1>5. Select(cases, <<Error, Pop>>) \in Depth5
  BY <1>2, <1>4, RuleTokens, Composed DEF Depth5
<1>6. <<Node(1), Select(cases, <<Error, Pop>>)>> \in Seq(Depth5)
  BY <1>5, Leaves, Deeper, Short
<1>7. parse_term = <<Node(1), Select(cases, <<Error, Pop>>)>>
  BY DEF parse_term, cases
<1> QED
  BY <1>6, <1>7

LEMMA FunctionsTyped == \A function \in Functions : Steps[function] \in Seq(Depth5)
  BY VariablesTyped, SubroutineTyped, ParametersTyped, BodyTyped, StatementTyped, LetTyped,
     BranchesTyped, EndsTyped, CallTyped, ExpressionTyped, TermTyped
     DEF Steps, Functions

-----------------------------------------------------------------------------
(* Before the first token is taken nothing has been done, so that there is *)
(* always a current token where one is read.                               *)
PInv ==
  /\ scenario \in Scenarios
  /\ queue \in Seq(Tokens) /\ ended \in BOOLEAN
  /\ idx \in 0 .. Len(queue)
  /\ todo \in Seq(Depth5)
  /\ errors \in 0 .. MaxErrors
  /\ status \in Ends \union {"parsing"}
  /\ idx = 0 => todo = parse_class
  /\ IndexSafe

LEMMA StepShape ==
  ASSUME todo \in Seq(Depth5), todo # <<>>
  PROVE  /\ Step \in Depth5 /\ Bodied(Step)
         /\ Tail(todo) \in Seq(Depth5)
  BY StepsBodied DEF Step

LEMMA FirstStep == parse_class # <<>> /\ Head(parse_class).op = "pop"
  BY DEF parse_class, Pop

LEMMA Becoming ==
  ASSUME todo \in Seq(Depth5), todo # <<>>, NEW steps \in Seq(Depth5), Become(steps)
  PROVE  todo' \in Seq(Depth5)
  BY StepShape, Joined DEF Become

LEMMA PInvInit == Init => PInv
<1> SUFFICES ASSUME Init PROVE PInv
  OBVIOUS
<1> USE DEF Init
<1>1. queue \in Seq(Tokens) /\ idx \in 0 .. Len(queue)
  OBVIOUS
<1>2. todo \in Seq(Depth5)
  BY ClassTyped
<1>3. errors \in 0 .. MaxErrors
  BY ConstantsAssumption
<1>4. status \in Ends \union {"parsing"}
  OBVIOUS
<1>5. IndexSafe
  BY SMT DEF IndexSafe
<1>6. scenario \in Scenarios /\ ended \in BOOLEAN /\ todo = parse_class
  OBVIOUS
<1> QED
  BY <1>1, <1>2, <1>3, <1>4, <1>5, <1>6, Zenon DEF PInv

LEMMA PInvNext == PInv /\ [Next]_vars => PInv'
<1> SUFFICES ASSUME PInv, [Next]_vars PROVE PInv'
  OBVIOUS
<1>0. ASSUME status = "parsing", todo # <<>>, Step.op # "pop" PROVE idx > 0
  BY <1>0, FirstStep DEF PInv, Step
<1>1. CASE UNCHANGED vars
  BY <1>1 DEF vars, PInv, IndexSafe, Spacious
<1>2. CASE Look
  <2>1. \/ \E token \in Following(Len(queue) + 1) : queue' = Append(queue, token)
        \/ queue' = queue
    BY <1>2 DEF Look
  <2>2. Following(Len(queue) + 1) \subseteq Tokens
    BY ConstantsAssumption DEF Following, PInv, Scenario
  <2>3. queue' \in Seq(Tokens) /\ Len(queue') >= Len(queue)
    BY <2>1, <2>2 DEF PInv
  <2>4. ended' \in BOOLEAN
    BY <1>2 DEF Look, PInv
  <2>5. UNCHANGED <<scenario, idx, todo, errors, status>>
    BY <1>2 DEF Look
  <2> QED
    BY <2>3, <2>4, <2>5 DEF PInv, IndexSafe, Spacious
<1>3. CASE queue_pop
  <2>1. /\ idx < Len(queue) /\ idx' = idx + 1 /\ todo' = Tail(todo) /\ todo # <<>>
        /\ UNCHANGED <<scenario, queue, ended, errors, status>>
    BY <1>3 DEF queue_pop, Consumes, At, Done
  <2>2. todo' \in Seq(Depth5)
    BY <2>1, StepShape DEF PInv
  <2> QED
    BY <2>1, <2>2 DEF PInv, IndexSafe, Spacious
<1>4. ASSUME NEW how \in Ends \ {"aborted"}, Stops(how) PROVE PInv'
  BY <1>4 DEF Stops, PInv, IndexSafe, Spacious, Ends
<1>5. CASE queue_pop_empty \/ queue_peek_null \/ ReportCrashes \/ ReportOverflows \/ Finish
  BY <1>4, <1>5 DEF queue_pop_empty, queue_peek_null, ReportCrashes, ReportOverflows, Finish, Ends
<1>6. CASE get_element_aborts
  <2>1. /\ status = "parsing" /\ todo # <<>> /\ Step.op # "pop" /\ Stops("aborted")
        /\ \/ Step.op = "node" /\ ~Indexable(Line - Step.back)
           \/ ~Indexable(Line - Back)
    BY <1>6 DEF get_element_aborts, Mismatch, At
  <2>2. idx > 0
    BY <2>1, <1>0
  <2>3. Step.op = "node" => Step.back \in {0, 1}
    BY <2>1, StepShape DEF PInv, Bodied
  <2>4. ~Spacious
    <3> SUFFICES ASSUME Spacious PROVE FALSE
      OBVIOUS
    <3>1. /\ scenario.newlines \in Nat /\ scenario.line \in 2 .. scenario.newlines - 1
          /\ scenario.header = 0
      BY ConstantsAssumption DEF PInv, Scenario, Spacious
    <3>2. Line = scenario.line
      BY <2>2, <3>1 DEF Line, PInv
    <3>3. Indexable(Line - Back)
      BY <3>1, <3>2 DEF Indexable, Back
    <3>4. Step.op = "node" => Indexable(Line - Step.back)
      BY <2>3, <3>1, <3>2 DEF Indexable
    <3> QED
      BY <2>1, <3>3, <3>4
  <2> QED
    BY <2>1, <2>4 DEF Stops, PInv, IndexSafe, Spacious, Ends
<1>7. ASSUME status = "parsing", todo # <<>>, Step.op # "pop", todo' \in Seq(Depth5),
             errors' \in 0 .. MaxErrors, UNCHANGED <<scenario, queue, ended, idx, status>>
      PROVE PInv'
  BY <1>0, <1>7 DEF PInv, IndexSafe, Spacious
<1>8. CASE init_ast_node
  <2>1. /\ status = "parsing" /\ todo # <<>> /\ Step.op = "node" /\ todo' = Tail(todo)
        /\ UNCHANGED <<scenario, queue, ended, idx, errors, status>>
    BY <1>8 DEF init_ast_node, At, Done
  <2> QED
    BY <2>1, <1>7, StepShape DEF PInv
<1>9. CASE ReportError
  <2>1. /\ status = "parsing" /\ todo # <<>> /\ Step.op # "pop" /\ todo' = Tail(todo)
        /\ errors < MaxErrors /\ errors' = errors + 1
        /\ UNCHANGED <<scenario, queue, ended, idx, status>>
    BY <1>9 DEF ReportError, Mismatch, At, Done
  <2> QED
    BY <2>1, <1>7, StepShape, ConstantsAssumption DEF PInv
<1>10. CASE parse
  <2>1. /\ status = "parsing" /\ todo # <<>> /\ Step.op = "call"
        /\ Become(Steps[Step.function])
        /\ UNCHANGED <<scenario, queue, ended, idx, errors, status>>
    BY <1>10 DEF parse, At
  <2>2. Steps[Step.function] \in Seq(Depth5)
    BY <2>1, StepShape, FunctionsTyped DEF PInv, Bodied
  <2> QED
    BY <2>1, <2>2, <1>7, Becoming DEF PInv
<1>11. CASE Branch
  <2>1. /\ status = "parsing" /\ todo # <<>> /\ Step.op # "pop"
        /\ UNCHANGED <<scenario, queue, ended, idx, errors, status>>
    BY <1>11 DEF Branch, At
  <2>2. Step \in Depth5 /\ Bodied(Step) /\ Tail(todo) \in Seq(Depth5)
    BY <2>1, StepShape DEF PInv
  <2>3. CASE Step.op = "select" /\ Become(Chosen)
    <3>1. Chosen \in Seq(Depth5)
      BY <2>2, <2>3 DEF Chosen, Bodied
    <3> QED
      BY <2>1, <2>3, <3>1, <1>7, Becoming DEF PInv
  <2>4. CASE Step.op = "while" /\ Become(Append(Step.then, Step))
    <3>1. Append(Step.then, Step) \in Seq(Depth5)
      BY <2>2, <2>4 DEF Bodied
    <3> QED
      BY <2>1, <2>4, <3>1, <1>7, Becoming DEF PInv
  <2>5. CASE Done
    BY <2>1, <2>2, <2>5, <1>7 DEF PInv, Done
  <2> QED
    BY <1>11, <2>3, <2>4, <2>5 DEF Branch, At
<1>12. CASE queue_peek
  <2>1. /\ status = "parsing" /\ todo # <<>> /\ Step.op = "peek"
        /\ Become(Step.then) \/ Become(Step.else)
        /\ UNCHANGED <<scenario, queue, ended, idx, errors, status>>
    BY <1>12 DEF queue_peek, At, Become
  <2>2. Step.then \in Seq(Depth5) /\ Step.else \in Seq(Depth5)
    BY <2>1, StepShape DEF PInv, Bodied
  <2>3. todo' \in Seq(Depth5)
    BY <2>1, <2>2, Becoming DEF PInv
  <2> QED
    BY <2>1, <2>3, <1>7 DEF PInv
<1> QED
  BY <1>1, <1>2, <1>3, <1>5, <1>6, <1>8, <1>9, <1>10, <1>11, <1>12 DEF Next

(* What the steps of the parser keep (refac_parser.c): the queue holds only *)
(* tokens, the index is in it, what is still to do are steps of the parse  *)
(* functions, and before the first token nothing has been done.            *)
THEOREM ParserInvariant == Spec => []PInv
  BY PInvInit, PInvNext, PTL DEF Spec

(* The parser's state has its types, and queue->idx never passes the end   *)
(* of the queue (token_queue.c:43-50), for any file.                       *)
THEOREM TypeCorrect == Spec => []TypeOK
<1>1. PInv => TypeOK
  <2> SUFFICES ASSUME PInv PROVE TypeOK
    OBVIOUS
  <2>1. ASSUME NEW i \in 1 .. Len(todo) PROVE Bodied(todo[i])
    BY StepsBodied DEF PInv
  <2> QED
    BY <2>1 DEF PInv, TypeOK, Bodied
<1> QED
  BY <1>1, ParserInvariant, PTL

(* With lines around the class, no index into line_offsets is out of       *)
(* bounds, for any file and any errors in it (refac_parser.c:47-766).      *)
THEOREM IndexIsSafe == Spec => []IndexSafe
<1>1. PInv => IndexSafe
  BY DEF PInv
<1> QED
  BY <1>1, ParserInvariant, PTL

(* A token is read (currentToken) only when one has been taken: the code   *)
(* dereferences parser->currentToken without a test.                       *)
TokenIsTaken ==
  \A op \in {"node", "expect", "closing", "error", "while", "select", "peek"} :
    At(op) => idx > 0

THEOREM TokensAreTaken == Spec => []TokenIsTaken
<1>1. PInv => TokenIsTaken
  BY FirstStep DEF PInv, TokenIsTaken, At, Step
<1> QED
  BY <1>1, ParserInvariant, PTL
=============================================================================
