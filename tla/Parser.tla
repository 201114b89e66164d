-------------------------------- MODULE Parser --------------------------------
(***************************************************************************)
(* The recursive descent of src/parser/refac_parser.c over the token queue *)
(* of src/token/token_queue.c.  The C stack is the sequence of what is     *)
(* still to be done: each parse function is a definition, the sequence of  *)
(* its steps, and a call puts the steps of the callee in front.            *)
(*                                                                         *)
(* A token is its type, types that the parser never tells apart being one: *)
(* "constant" stands for numbers, strings and keyword constants, "+" for   *)
(* the operators that are only binary, and so on.  The queue is extended   *)
(* when the parser first looks at a token, so that the behaviours cover    *)
(* every queue the scenarios allow.                                        *)
(***************************************************************************)
EXTENDS Integers, Sequences

CONSTANTS
  Scenarios,    (* what the queue may be, see Scenario                      *)
  MaxErrors     (* bound: errors the logger's arena holds                   *)

Tokens == {"ID", "constant", "int", "void", "class", "static", "function", "var",
           "let", "do", "if", "else", "while", "return", "(", ")", "{", "}", "[",
           "]", ",", ";", "=", ".", "+", "-", "~", "unrecognised"}

(* A queue begins with the prefix and goes on with at most extra tokens of *)
(* the alphabet.  Its first header tokens are on line 0, the others on the *)
(* given line; the file has so many newlines.                              *)
Scenario == [prefix : Seq(Tokens), alphabet : SUBSET Tokens, extra : Nat,
             header : Nat, line : Nat, newlines : Nat]

ASSUME ConstantsAssumption ==
  /\ Scenarios \subseteq Scenario
  /\ MaxErrors \in Nat

VARIABLES
  scenario,
  queue, ended,   (* the tokens looked at; whether these are all            *)
  idx,            (* queue->idx: currentToken is queue[idx]                 *)
  todo,           (* the steps to do, innermost call first                  *)
  errors,         (* errors logged                                          *)
  status          (* "parsing", "finished", or how the process ended        *)

vars == <<scenario, queue, ended, idx, todo, errors, status>>

-----------------------------------------------------------------------------
(* Token categories (token.c).                                             *)
ClassVar == {"static"}
SubroutineDec == {"function"}
Statement == {"var", "let", "if", "while", "do", "return"}
Type == {"ID", "int", "void"}
Operation == {"~", "-", "+", "="}

(* Steps.  Node indexes line_offsets with the line of the current token    *)
(* minus back.  Expect is expect_and_consume, and the inline tests like    *)
(* it: on a mismatch an error is logged and nothing is consumed.           *)
Node(back) == [op |-> "node", back |-> back]
Pop == [op |-> "pop"]
Expect(set) == [op |-> "expect", set |-> set]
Closing == [op |-> "closing", set |-> {"}"}]
Error == [op |-> "error"]
Call(function) == [op |-> "call", function |-> function]
While(set, body) == [op |-> "while", set |-> set, then |-> body]
Select(cases, else) == [op |-> "select", cases |-> cases, else |-> else]
If(set, then) == Select(<< <<set, then>> >>, <<>>)
Peek(ahead, set, then, else) ==
  [op |-> "peek", ahead |-> ahead, set |-> set, then |-> then, else |-> else]

Names == <<Expect({"ID"}), While({","}, <<Pop, Expect({"ID"})>>)>>

parse_class ==
  <<Pop, Node(0), Expect({"class"}), Expect({"ID"}), Expect({"{"}),
    While(ClassVar \union SubroutineDec,
      <<Select(<< <<ClassVar, <<Call("parse_class_var_dec")>> >> >>,
               <<Call("parse_subroutine_dec")>>)>>),
    Closing>>

parse_class_var_dec ==
  <<Node(1), Expect(ClassVar), Expect(Type)>> \o Names \o <<Expect({";"})>>

parse_subroutine_dec ==
  <<Node(1), Expect(SubroutineDec), Expect(Type), Expect({"ID"}), Expect({"("}),
    Call("parse_parameter_list"), Expect({")"}), Call("parse_subroutine_body")>>

(* Mutant: only the first parameter has a type.                            *)
parse_parameter_list_once ==
  <<Node(1), If(Type, <<Pop>> \o Names)>>

parse_parameter_list ==
  <<Node(1),
    If(Type, <<Pop, Expect({"ID"}),
               While({","}, <<Pop, Expect(Type), Expect({"ID"})>>)>>)>>

parse_subroutine_body ==
  <<Node(1), Expect({"{"}), While({"var"}, <<Call("parse_var_dec")>>),
    Call("parse_statements"), Expect({"}"})>>

parse_var_dec ==
  <<Node(1), Expect({"var"}), Expect(Type)>> \o Names \o <<Expect({";"})>>

parse_statements == <<Node(1), While(Statement, <<Call("parse_statement")>>)>>

Statements ==
  << <<{"let"}, <<Call("parse_let_statement")>> >>,
     <<{"do"}, <<Call("parse_do_statement")>> >>,
     <<{"if"}, <<Call("parse_if_statement")>> >>,
     <<{"while"}, <<Call("parse_while_statement")>> >>,
     <<{"return"}, <<Call("parse_return_statement")>> >> >>

(* Mutant: a statement that is none is passed over without an error.       *)
parse_statement_silent == <<Node(1), Select(Statements, <<>>)>>

parse_statement == <<Node(1), Select(Statements, <<Error>>)>>

parse_let_statement ==
  <<Node(1), Expect({"let"}), Expect({"ID"}),
    If({"["}, <<Pop, Call("parse_expression"), Expect({"]"})>>),
    Expect({"="}), Call("parse_expression"), Expect({";"})>>

Block == <<Expect({"{"}), Call("parse_statements"), Expect({"}"})>>

Condition == <<Expect({"("}), Call("parse_expression"), Expect({")"})>>

parse_if_statement ==
  <<Node(1), Expect({"if"})>> \o Condition \o Block
    \o <<If({"else"}, <<Pop>> \o Block)>>

parse_while_statement == <<Node(1), Expect({"while"})>> \o Condition \o Block

parse_do_statement ==
  <<Node(1), Expect({"do"}), Call("parse_subroutine_call"), Expect({";"})>>

parse_return_statement ==
  <<Node(1), Expect({"return"}),
    If(Tokens \ {";"}, <<Call("parse_expression")>>), Expect({";"})>>

parse_subroutine_call ==
  <<Node(1), If({"ID"}, <<Pop>>), If({"."}, <<Pop, Expect({"ID"})>>),
    Expect({"("}),
    While(Tokens \ {")"},
          <<Call("parse_expression"), If({","}, <<Pop>>)>>),
    Expect({")"})>>

parse_expression ==
  <<Node(1), Call("parse_term"), While(Operation, <<Pop, Call("parse_term")>>)>>

(* A term that begins with a name: an array access, a call, or a variable, *)
(* told apart by looking up to three tokens ahead.                         *)
NameTerm ==
  <<Peek(1, {"["},
      <<Expect({"ID"}), Expect({"["}), Call("parse_expression"), Expect({"]"})>>,
      <<Peek(1, {"."},
          <<Peek(2, {"ID"},
              <<Peek(3, {"("}, <<Call("parse_subroutine_call")>>,
                               <<Call("parse_var_term")>>)>>,
              <<Error>>)>>,
          <<Call("parse_var_term")>>)>>)>>

parse_term ==
  <<Node(1),
    Select(<< <<{"constant"}, <<Pop>> >>,
              <<{"ID"}, NameTerm>>,
              <<{"("}, <<Pop, Call("parse_expression"), Expect({")"})>> >>,
              <<{"-", "~"}, <<Pop, Call("parse_term")>> >> >>,
           <<Error, Pop>>)>>

parse_var_term ==
  <<Node(1), If({"ID"}, <<Pop>>), If({"."}, <<Pop, Expect({"ID"})>>)>>

Steps ==
  [parse_class_var_dec |-> parse_class_var_dec,
   parse_subroutine_dec |-> parse_subroutine_dec,
   parse_parameter_list |-> parse_parameter_list,
   parse_subroutine_body |-> parse_subroutine_body,
   parse_var_dec |-> parse_var_dec,
   parse_statements |-> parse_statements,
   parse_statement |-> parse_statement,
   parse_let_statement |-> parse_let_statement,
   parse_if_statement |-> parse_if_statement,
   parse_while_statement |-> parse_while_statement,
   parse_do_statement |-> parse_do_statement,
   parse_return_statement |-> parse_return_statement,
   parse_subroutine_call |-> parse_subroutine_call,
   parse_expression |-> parse_expression,
   parse_term |-> parse_term,
   parse_var_term |-> parse_var_term]

-----------------------------------------------------------------------------
Init ==
  /\ scenario \in Scenarios
  /\ queue = <<>> /\ ended = FALSE
  /\ idx = 0
  /\ todo = parse_class
  /\ errors = 0
  /\ status = "parsing"

Step == Head(todo)

At(op) == status = "parsing" /\ todo # <<>> /\ Step.op = op

currentToken == queue[idx]

Line == IF idx <= scenario.header THEN 0 ELSE scenario.line

(* vector_get(line_offsets, i) does not fail its assertion, in which a     *)
(* negative i is a large number.                                           *)
Indexable(i) == 0 <= i /\ i < scenario.newlines

Done == todo' = Tail(todo)

Become(steps) == todo' = steps \o Tail(todo)

(* The step at hand takes the next token.                                  *)
Consumes == At("pop") \/ (At("expect") /\ currentToken \in Step.set)

(* How far ahead of idx the step at hand looks into the queue.             *)
LooksAhead ==
  CASE Consumes -> 1
    [] At("peek") -> Step.ahead
    [] OTHER -> 0

Looked == idx + LooksAhead <= Len(queue) \/ ended

(* What the lexer put there next: a token, or nothing.                     *)
Following(n) ==
  IF n <= Len(scenario.prefix) THEN {scenario.prefix[n]}
  ELSE IF n <= Len(scenario.prefix) + scenario.extra THEN scenario.alphabet ELSE {}

Look ==
  /\ ~Looked
  /\ \/ /\ \E token \in Following(Len(queue) + 1) : queue' = Append(queue, token)
        /\ UNCHANGED ended
     \/ /\ Len(queue) >= Len(scenario.prefix)
        /\ ended' = TRUE
        /\ UNCHANGED queue
  /\ UNCHANGED <<scenario, idx, todo, errors, status>>

Stops(how) ==
  /\ status' = how
  /\ UNCHANGED <<scenario, queue, ended, idx, todo, errors>>

(* Mutant: the bound of the queue is off by one.                           *)
queue_pop_past_end ==
  /\ Consumes
  /\ idx < Len(queue) \/ (idx = Len(queue) /\ ended)
  /\ idx' = idx + 1
  /\ Done
  /\ UNCHANGED <<scenario, queue, ended, errors, status>>

queue_pop ==
  /\ Consumes
  /\ idx < Len(queue)
  /\ idx' = idx + 1
  /\ Done
  /\ UNCHANGED <<scenario, queue, ended, errors, status>>

(* Behind the end queue_pop reports an INTERNAL error.                     *)
queue_pop_empty ==
  /\ Consumes
  /\ idx = Len(queue) /\ ended
  /\ Stops("exited")

init_ast_node ==
  /\ At("node")
  /\ Indexable(Line - Step.back)
  /\ Done
  /\ UNCHANGED <<scenario, queue, ended, idx, errors, status>>

Mismatch ==
  \/ At("error")
  \/ (At("expect") \/ At("closing")) /\ currentToken \notin Step.set

(* Mutant: three lines.                                                    *)
BackThree == IF Step.op = "closing" THEN 3 ELSE 0

(* An error is logged with an offset of line_offsets; the one for a class  *)
(* that is not closed looks two lines up.                                  *)
Back == IF Step.op = "closing" THEN 2 ELSE 0

ReportError ==
  /\ Mismatch
  /\ Indexable(Line - Back)
  /\ errors < MaxErrors
  /\ errors' = errors + 1
  /\ Done
  /\ UNCHANGED <<scenario, queue, ended, idx, status>>

(* The message has one more %s than arguments: what is read instead may    *)
(* not be a string.                                                        *)
ReportCrashes ==
  /\ Mismatch
  /\ Indexable(Line - Back)
  /\ Stops("crashed")

(* The report does not fit in the logger's arena (module ErrorLog).        *)
ReportOverflows ==
  /\ Mismatch
  /\ Indexable(Line - Back)
  /\ errors = MaxErrors
  /\ Stops("overflowed")

(* The assertion of get_element in vector.c.                               *)
get_element_aborts ==
  /\ \/ At("node") /\ ~Indexable(Line - Step.back)
     \/ Mismatch /\ ~Indexable(Line - Back)
  /\ Stops("aborted")

parse ==
  /\ At("call")
  /\ Become(Steps[Step.function])
  /\ UNCHANGED <<scenario, queue, ended, idx, errors, status>>

Chosen ==
  LET matching == {k \in 1 .. Len(Step.cases) : currentToken \in Step.cases[k][1]} IN
  IF matching = {} THEN Step.else ELSE Step.cases[CHOOSE k \in matching : TRUE][2]

Branch ==
  /\ \/ At("select") /\ Become(Chosen)
     \/ At("while") /\ currentToken \in Step.set /\ Become(Append(Step.then, Step))
     \/ At("while") /\ currentToken \notin Step.set /\ Done
     \/ At("closing") /\ currentToken \in Step.set /\ Done
  /\ UNCHANGED <<scenario, queue, ended, idx, errors, status>>

queue_peek ==
  /\ At("peek")
  /\ idx + Step.ahead <= Len(queue)
  /\ Become(IF queue[idx + Step.ahead] \in Step.set THEN Step.then ELSE Step.else)
  /\ UNCHANGED <<scenario, queue, ended, idx, errors, status>>

(* Behind the end queue_peek returns NULL, whose type is read.             *)
queue_peek_null ==
  /\ At("peek")
  /\ idx + Step.ahead > Len(queue) /\ ended
  /\ Stops("crashed")

(* parse_class returns; the driver goes on whatever was logged.            *)
Finish ==
  /\ status = "parsing" /\ todo = <<>>
  /\ Stops("finished")

Next ==
  \/ Look
  \/ queue_pop \/ queue_pop_empty \/ queue_peek \/ queue_peek_null
  \/ init_ast_node \/ parse \/ Branch
  \/ ReportError \/ ReportCrashes \/ ReportOverflows \/ get_element_aborts
  \/ Finish

Spec == Init /\ [][Next]_vars /\ WF_vars(Next)

-----------------------------------------------------------------------------
Ends == {"finished", "exited", "aborted", "crashed", "overflowed"}

(* Types of the state; the queue is never read behind its end.             *)
TypeOK ==
  /\ scenario \in Scenarios
  /\ queue \in Seq(Tokens) /\ ended \in BOOLEAN
  /\ idx \in 0 .. Len(queue)
  /\ \A i \in 1 .. Len(todo) :
       todo[i].op \in {"node", "pop", "expect", "closing", "error", "call",
                      "while", "select", "peek"}
  /\ errors \in 0 .. MaxErrors
  /\ status \in Ends \union {"parsing"}

(* A comment of two lines before the class, and a newline at the end of    *)
(* the file.                                                               *)
Spacious ==
  /\ scenario.header = 0
  /\ scenario.line \in 2 .. scenario.newlines - 1

(* With these lines around the class, no queue makes the parser index      *)
(* line_offsets out of bounds, whatever errors it contains                 *)
(* (refac_parser.c:47-766).                                                *)
IndexSafe == Spacious => status # "aborted"

(* Every file is parsed in bounded time: a loop that consumes nothing logs *)
(* an error in every iteration, and the logger's arena ends that.          *)
ParserStops == <>(status \in Ends)
=============================================================================
