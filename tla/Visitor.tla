-------------------------------- MODULE Visitor --------------------------------
(***************************************************************************)
(* The walks over the tree of a program (src/ast/ast.c), between the       *)
(* parser and the end of compile(): the standard library and BUILD fill    *)
(* the symbol tables, ANALYZE logs errors, GENERATE writes code if there   *)
(* were none; and destroy_ast_node, the last one, when the errors have     *)
(* been printed and the log is closed.  The C stack is the sequence of     *)
(* what is still to be visited.                                            *)
(*                                                                         *)
(* An action is what the walk does between two declarations or statements; *)
(* expressions are visited within it, by the rules of Analyzer and         *)
(* Generator.                                                              *)
(***************************************************************************)
EXTENDS Generator, TreeMemory, SequencesExt

CONSTANTS
  Programs,   (* the trees: sequences of classes                            *)
  Library     (* stdlib.json: classes with their functions and methods      *)

VARIABLES
  program,        (* the tree                                               *)
  vectors,        (* the vectors in its nodes, by the type of the node      *)
  phase,          (* visitor->phase, or "DESTROY"                           *)
  todo,           (* the visits still to be made, innermost first           *)
  errors,         (* error_count()                                          *)
  outcome,        (* "running", or how the compilation ended                *)
  code,           (* the instructions written to all files                  *)
  labelCounters   (* labels made so far with a prefix                       *)

(* The kinds stdlib.json names; for another one string_to_kind ends the    *)
(* process before there is a tree.                                         *)
string_to_kind ==
  [KIND_FUNCTION |-> "FUNCTION", KIND_METHOD |-> "METHOD", KIND_CONSTRUCTOR |-> "CONSTRUCTOR"]

ASSUME ProgramsAssumption == Programs \subseteq ProgramNode

LibraryFunction ==
  [name : Names, kind : DOMAIN string_to_kind, return_type : Types,
   parameters : Seq([name : Names, type : Types])]

LibraryClass ==
  [name : Names \intersect Types, functions : Seq(LibraryFunction),
   methods : Seq(LibraryFunction)]

ASSUME LibraryAssumption == Library \in Seq(LibraryClass)

parse_function_from_json(f) == [f EXCEPT !.kind = string_to_kind[@]]

ClassFrom(class, subroutines) ==
  [name |-> class.name,
   functions |-> [i \in 1 .. Len(subroutines) |-> parse_function_from_json(subroutines[i])]]

(* Mutant: the methods of a class are left out.                            *)
parse_jack_stdlib_from_json_functions ==
  [i \in 1 .. Len(Library) |-> ClassFrom(Library[i], Library[i].functions)]

(* The methods of a class join its functions.                              *)
parse_jack_stdlib_from_json ==
  [i \in 1 .. Len(Library) |-> ClassFrom(Library[i], Library[i].functions \o Library[i].methods)]

vars == <<program, vectors, phase, todo, tables, currentTable, currentClassName,
          errors, outcome, code, labelCounters>>

tree == <<program, vectors>>

LabelPrefixes == {"IF_TRUE", "IF_FALSE", "IF_END", "WHILE_START", "WHILE_END"}

Visit(op, node) == [op |-> op, node |-> node]

Visits(op, nodes) == [i \in 1 .. Len(nodes) |-> Visit(op, nodes[i])]

Leave == Visit("leave", Null)

Doing(op, p) ==
  outcome = "running" /\ phase = p /\ todo # <<>> /\ Head(todo).op = op

node == Head(todo).node

(* A visit ends with these visits to make in its place, or it is the last  *)
(* thing the process does.                                                 *)
Go(r, visits) ==
  /\ todo' = visits \o Tail(todo)
  /\ errors' = errors + r.errors
  /\ outcome' = r.fate

Proceed(visits) == Go(Typed(Unset), visits)

Stay == UNCHANGED <<tree, phase, tables, currentTable, currentClassName,
                    code, labelCounters>>

(* vector_get(names, i) next to a list that may be longer asserts.         *)
NameAt(names, i) == IF i <= Len(names) THEN names[i] ELSE Null

Init ==
  /\ program \in Programs
  /\ vectors = VectorsMade(program)
  /\ phase = "BUILD"
  /\ todo = Visits("library class", parse_jack_stdlib_from_json) \o Visits("class", program)
  /\ TablesInit
  /\ currentTable = GlobalTable
  /\ currentClassName = Null
  /\ errors = 0
  /\ outcome = "running"
  /\ code = <<>>
  /\ labelCounters = [p \in LabelPrefixes |-> 0]

-----------------------------------------------------------------------------
(* add_stdlib_table: it writes to the tables it has made, not to the       *)
(* visitor's current one.                                                  *)
LibraryFunctions(class, t) ==
  [i \in 1 .. Len(class.functions) |->
     Visit("library function", [function |-> class.functions[i], table |-> t])]

LibraryParameters(function, t) ==
  [i \in 1 .. Len(function.parameters) |->
     Visit("library parameter",
           [name |-> function.parameters[i].name, type |-> function.parameters[i].type,
            table |-> t])]

AddLibraryClass ==
  /\ Doing("library class", "BUILD")
  /\ DeclareLibraryClass(node.name)
  /\ Proceed(LibraryFunctions(node, Len(tables')))
  /\ UNCHANGED <<tree, phase, currentTable, currentClassName, code, labelCounters>>

AddLibraryFunction ==
  /\ Doing("library function", "BUILD")
  /\ LET f == node.function IN
     /\ DeclareSubroutine(node.table, f.name, f.return_type, f.kind)
     /\ Proceed(LibraryParameters(f, Len(tables')))
  /\ UNCHANGED <<tree, phase, currentTable, currentClassName, code, labelCounters>>

AddLibraryParameter ==
  /\ Doing("library parameter", "BUILD")
  /\ DeclareVariable(node.table, node.name, node.type, "ARG")
  /\ Proceed(<<>>)
  /\ UNCHANGED <<tree, phase, currentTable, currentClassName, code, labelCounters>>

-----------------------------------------------------------------------------
(* Mutant: the current table is left as it is.                             *)
pop_table_forgotten == currentTable

pop_table == tables[currentTable].parent

(* The end of a class or subroutine: back to the enclosing scope; there    *)
(* being none is an INTERNAL error.                                        *)
LeaveScope ==
  /\ outcome = "running"
  /\ todo # <<>>
  /\ Head(todo).op = "leave"
  /\ IF pop_table = NullTable
     THEN Go(Dead("exited"), <<>>) /\ UNCHANGED <<currentTable, currentClassName>>
     ELSE /\ currentTable' = pop_table
          /\ currentClassName' = IF phase # "BUILD" /\ tables[currentTable].scope = "CLASS"
                                 THEN Null ELSE currentClassName
          /\ Proceed(<<>>)
  /\ UNCHANGED <<tree, phase, tables, code, labelCounters>>

ClassVariables(class) ==
  FlattenSeq([i \in 1 .. Len(class.vars) |->
    [j \in 1 .. Len(class.vars[i].names) |->
      Visit("class variable", [name |-> class.vars[i].names[j],
                               type |-> class.vars[i].type,
                               kind |-> class.vars[i].modifier])]])

build_class_node ==
  /\ Doing("class", "BUILD")
  /\ tables' = symbol_table_add(create_table(tables, "CLASS", currentTable),
                                currentTable, node.name, node.name, "CLASS",
                                Len(tables) + 1)
  /\ currentTable' = Len(tables) + 1
  /\ Proceed(ClassVariables(node) \o Visits("subroutine", node.subs) \o <<Leave>>)
  /\ UNCHANGED <<tree, phase, currentClassName, code, labelCounters>>

(* A variable that is declared already is an error, and added all the same.*)
build_class_var_dec_node ==
  /\ Doing("class variable", "BUILD")
  /\ tables' = symbol_table_add(tables, currentTable, node.name, node.type,
                                node.kind, NullTable)
  /\ Go(IF Found(Lookup(node.name, "LOCAL")) THEN Error(Typed(Unset)) ELSE Typed(Unset),
        <<>>)
  /\ UNCHANGED <<tree, phase, currentTable, currentClassName, code, labelCounters>>

Variables(kind, types, names) ==
  [i \in 1 .. Len(types) |->
     Visit("variable", [kind |-> kind, type |-> types[i], name |-> NameAt(names, i)])]

(* build_parameter_list_node and build_subroutine_body_node.               *)
SubroutineVariables(sub) ==
  Variables("ARG", sub.params.types, sub.params.names)
    \o FlattenSeq([i \in 1 .. Len(sub.varDecs) |->
         LET d == sub.varDecs[i] IN
         Variables("VAR", [j \in 1 .. Len(d.names) |-> d.type], d.names)])

build_subroutine_dec_node ==
  /\ Doing("subroutine", "BUILD")
  /\ tables' = symbol_table_add(create_table(tables, node.kind, currentTable),
                                currentTable, node.name, node.type, node.kind,
                                Len(tables) + 1)
  /\ currentTable' = Len(tables) + 1
  /\ Proceed(SubroutineVariables(node) \o <<Leave>>)
  /\ UNCHANGED <<tree, phase, currentClassName, code, labelCounters>>

(* One turn of the loop of build_parameter_list_node or build_var_dec_node.*)
build_variable ==
  /\ Doing("variable", "BUILD")
  /\ IF node.name = Null
     THEN Go(Dead("aborted"), <<>>) /\ UNCHANGED tables
     ELSE /\ tables' = symbol_table_add(tables, currentTable, node.name, node.type,
                                        node.kind, NullTable)
          /\ Proceed(<<>>)
  /\ UNCHANGED <<tree, phase, currentTable, currentClassName, code, labelCounters>>

BeginAnalysis ==
  /\ outcome = "running" /\ phase = "BUILD" /\ todo = <<>>
  /\ phase' = "ANALYZE"
  /\ todo' = Visits("class", program)
  /\ UNCHANGED <<tree, tables, currentTable, currentClassName, errors, outcome,
                 code, labelCounters>>

-----------------------------------------------------------------------------
OfKind(symbol, kinds) == Found(symbol) /\ symbol.kind \in kinds

(* What a declaration says of the type is read through the symbol that the *)
(* name is found to have, which may be another one, or NULL.               *)
Declared(name, depth) ==
  LET symbol == Lookup(name, depth) IN
  IF name = Null THEN Dead("aborted")
  ELSE IF ~Found(symbol) THEN Dead("crashed")
  ELSE IF type_is_valid(symbol.type) THEN Typed(Unset) ELSE Error(Typed(Unset))

Checked(depth, names) ==
  [i \in 1 .. Len(names) |-> Visit("declared", [name |-> names[i], depth |-> depth])]

ClassVariableNames(class) ==
  FlattenSeq([i \in 1 .. Len(class.vars) |-> class.vars[i].names])

(* analyze_parameter_list_node; and analyze_subroutine_body_node, which    *)
(* takes the i-th name of the i-th declaration.                            *)
SubroutineNames(sub) ==
  Checked("GLOBAL", [i \in 1 .. Len(sub.params.types) |-> NameAt(sub.params.names, i)])
    \o Checked("LOCAL", [i \in 1 .. Len(sub.varDecs) |-> NameAt(sub.varDecs[i].names, i)])

EnterClass(p, visits) ==
  LET symbol == Lookup(node.name, "LOCAL") IN
  /\ Doing("class", p)
  /\ currentClassName' = node.name
  /\ IF OfKind(symbol, {"CLASS"})
     THEN currentTable' = symbol.childTable /\ Proceed(visits \o <<Leave>>)
     ELSE Go(Error(Typed(Unset)), <<>>) /\ UNCHANGED currentTable
  /\ UNCHANGED <<tree, phase, tables, code, labelCounters>>

analyze_class_node ==
  EnterClass("ANALYZE", Checked("GLOBAL", ClassVariableNames(node))
                          \o Visits("subroutine", node.subs))

(* analyze_class_var_dec_node, and the two above: one turn of their loops. *)
analyze_declaration ==
  /\ Doing("declared", "ANALYZE")
  /\ Go(Declared(node.name, node.depth), <<>>)
  /\ Stay

(* The subroutine is looked up by its name: the second of two subroutines  *)
(* of a name is visited in the scope of the first.                         *)
analyze_subroutine_dec_node ==
  LET symbol == Lookup(node.name, "LOCAL") IN
  /\ Doing("subroutine", "ANALYZE")
  /\ IF OfKind(symbol, SubroutineKinds)
     THEN /\ currentTable' = symbol.childTable
          /\ Proceed(SubroutineNames(node) \o Visits("statement", node.body) \o <<Leave>>)
     ELSE Go(Error(Typed(Unset)), <<>>) /\ UNCHANGED currentTable
  /\ UNCHANGED <<tree, phase, tables, currentClassName, code, labelCounters>>

Statement(kind, p) == Doing("statement", p) /\ node.is = kind

analyze_let_statement_node ==
  Statement("let", "ANALYZE") /\ Go(analyze_let(node), <<>>) /\ Stay

analyze_if_statement_node ==
  /\ Statement("if", "ANALYZE")
  /\ Go(analyze_condition(node.condition),
        Visits("statement", node.then) \o Visits("statement", node.else))
  /\ Stay

analyze_while_statement_node ==
  /\ Statement("while", "ANALYZE")
  /\ Go(analyze_condition(node.condition), Visits("statement", node.body))
  /\ Stay

analyze_do_statement_node ==
  Statement("do", "ANALYZE") /\ Go(analyze_call(node.call), <<>>) /\ Stay

analyze_return_statement_node ==
  Statement("return", "ANALYZE") /\ Go(analyze_return(node.value), <<>>) /\ Stay

(* The end of compile(): the errors are printed, the log is closed, and    *)
(* the tree is destroyed.                                                  *)
Destroy(as) ==
  /\ phase' = "DESTROY"
  /\ todo' = <<Visit("PROGRAM", program), Visit("end", as)>>

(* Code is generated, class by class, from a program without errors only.  *)
EndAnalysis ==
  /\ outcome = "running" /\ phase = "ANALYZE" /\ todo = <<>>
  /\ IF errors = 0 THEN phase' = "GENERATE" /\ todo' = Visits("class", program)
                   ELSE Destroy("rejected")
  /\ UNCHANGED <<tree, tables, currentTable, currentClassName, errors, outcome, code,
                 labelCounters>>

-----------------------------------------------------------------------------
(* Instructions are written to the end of the file.                        *)
Write(w, visits) == code' = code \o w.code /\ Go(w, visits)

Later(w) == Visit("write", w)

write_later ==
  /\ Doing("write", "GENERATE")
  /\ Write(node, <<>>)
  /\ UNCHANGED <<tree, phase, tables, currentTable, currentClassName, labelCounters>>

generate_class_node == EnterClass("GENERATE", Visits("subroutine", node.subs))

generate_sub_dec_node ==
  LET symbol == Lookup(node.name, "LOCAL") IN
  /\ Doing("subroutine", "GENERATE")
  /\ IF OfKind(symbol, SubroutineKinds)
     THEN /\ Write(generate_sub_head(node.kind, node.name, symbol),
                   Visits("statement", node.body) \o <<Leave>>)
          /\ currentTable' = symbol.childTable
     ELSE Go(Error(Typed(Unset)), <<>>) /\ UNCHANGED <<currentTable, code>>
  /\ UNCHANGED <<tree, phase, tables, currentClassName, labelCounters>>

(* Mutant: the number is read before the counter is advanced.              *)
generate_unique_label_again(prefix) ==
  [prefix |-> prefix,
   number |-> IF labelCounters[prefix] = 0 THEN 0 ELSE labelCounters[prefix] - 1]

generate_unique_label(prefix) == [prefix |-> prefix, number |-> labelCounters[prefix]]

Labelled(prefixes) ==
  labelCounters' = [p \in LabelPrefixes |->
                      labelCounters[p] + IF p \in prefixes THEN 1 ELSE 0]

Unlabelled == UNCHANGED <<tree, phase, tables, currentTable, currentClassName>>

generate_stmt_node ==
  LET written == CASE node.is = "let" -> generate_let(node)
                   [] node.is = "do" -> generate_do(node)
                   [] node.is = "return" -> generate_return(node.value) IN
  /\ Doing("statement", "GENERATE")
  /\ node.is \in {"let", "do", "return"}
  /\ Write(written, <<>>)
  /\ Unlabelled /\ UNCHANGED labelCounters

generate_if_node ==
  LET true == generate_unique_label("IF_TRUE")
      false == generate_unique_label("IF_FALSE")
      end == generate_unique_label("IF_END") IN
  /\ Statement("if", "GENERATE")
  /\ Write(All(<<Generated(node.condition), write_arithmetic("not"),
                 write_if(false), write_label(true)>>),
           Visits("statement", node.then)
             \o <<Later(Followed(write_goto(end), write_label(false)))>>
             \o Visits("statement", node.else)
             \o <<Later(write_label(end))>>)
  /\ Labelled({"IF_TRUE", "IF_FALSE", "IF_END"})
  /\ Unlabelled

generate_while_node ==
  LET start == generate_unique_label("WHILE_START")
      end == generate_unique_label("WHILE_END") IN
  /\ Statement("while", "GENERATE")
  /\ Write(All(<<write_label(start), Generated(node.condition),
                 write_arithmetic("not"), write_if(end)>>),
           Visits("statement", node.body)
             \o <<Later(Followed(write_goto(start), write_label(end)))>>)
  /\ Labelled({"WHILE_START", "WHILE_END"})
  /\ Unlabelled

EndGeneration ==
  /\ outcome = "running" /\ phase = "GENERATE" /\ todo = <<>>
  /\ Destroy("done")
  /\ UNCHANGED <<tree, tables, currentTable, currentClassName, errors, outcome, code,
                 labelCounters>>

-----------------------------------------------------------------------------
Destroying ==
  outcome = "running" /\ phase = "DESTROY" /\ todo # <<>> /\ Head(todo).op # "end"

IsIncomplete == Head(todo).op = "TERM" /\ node.is = "incomplete"

(* One call.  A term of type TRM_NONE, which the parser has left after an  *)
(* error, is reported to the log, which has been closed: its arena is NULL.*)
destroy_ast_node ==
  /\ Destroying
  /\ IF IsIncomplete THEN Go(Dead("crashed"), <<>>) /\ UNCHANGED vectors
     ELSE /\ vectors' = Freed(vectors, Head(todo).op)
          /\ Proceed(Children(Head(todo).op, node))
  /\ UNCHANGED <<program, phase, tables, currentTable, currentClassName, code, labelCounters>>

Finish ==
  /\ Doing("end", "DESTROY")
  /\ todo' = <<>>
  /\ outcome' = node
  /\ UNCHANGED <<tree, phase, tables, currentTable, currentClassName, errors, code,
                 labelCounters>>

-----------------------------------------------------------------------------
Build ==
  \/ AddLibraryClass \/ AddLibraryFunction \/ AddLibraryParameter
  \/ build_class_node \/ build_class_var_dec_node \/ build_subroutine_dec_node
  \/ build_variable \/ BeginAnalysis

Analyze ==
  \/ analyze_class_node \/ analyze_declaration \/ analyze_subroutine_dec_node
  \/ analyze_let_statement_node \/ analyze_if_statement_node
  \/ analyze_while_statement_node \/ analyze_do_statement_node
  \/ analyze_return_statement_node \/ EndAnalysis

Generate ==
  \/ generate_class_node \/ generate_sub_dec_node \/ generate_stmt_node
  \/ generate_if_node \/ generate_while_node \/ write_later \/ EndGeneration

Clean == destroy_ast_node \/ Finish

(* The walks have ended; anywhere else a visit has a step to make.         *)
Ended == outcome # "running" /\ UNCHANGED vars

Next == LeaveScope \/ Build \/ Analyze \/ Generate \/ Clean \/ Ended

Spec == Init /\ [][Next]_vars

-----------------------------------------------------------------------------
(* The walks are a client of the symbol tables that keeps to their rules:  *)
(* a class is declared in the global table, a subroutine in a class, a     *)
(* variable where its kind belongs, whatever the order of the tree         *)
(* (ast.c:494-597).  This is TablesSpec; the steps that leave the tables   *)
(* alone are put aside first.                                              *)
BuildsTables == TablesInit /\ [][tables' # tables => TablesNext]_tables

(* Every vector of a tree is freed once by the time its compilation ends,  *)
(* whatever was accepted: destroy_ast_node finds by the pointers what      *)
(* init_ast_node made for the parser (ast.c:106-380).                      *)
DestroyFreesAll ==
  /\ \A type \in Holders : vectors[type] >= 0
  /\ outcome \in {"done", "rejected"} => \A type \in Holders : vectors[type] = 0

Jumps == {"goto", "if-goto"}

(* The values on the working stack before and after an instruction.        *)
Needs(i) ==
  CASE i.op = "pop" \/ i.op \in {"if-goto", "return"} -> 1
    [] i.op = "arithmetic" -> IF i.command \in {"neg", "not"} THEN 1 ELSE 2
    [] i.op = "call" -> i.args
    [] OTHER -> 0

Leaves(i) == IF i.op \in {"push", "arithmetic", "call"} THEN 1 ELSE 0

(* Where the stack holds what the instruction takes and no more.           *)
Settles(i) == i.op \in Jumps \union {"label", "function", "return"}

(* What "this" is written as: it clears a pointer, and stands for a value. *)
ClearThis == [op |-> "pop", segment |-> "pointer", index |-> 0]

IsThis(instructions, k) ==
  /\ k > 1
  /\ instructions[k] = ClearThis
  /\ instructions[k - 1] = [op |-> "push", segment |-> "constant", index |-> 0]

DepthAfter(instructions, k, before) ==
  LET i == instructions[k] IN
  CASE before < Needs(i) -> -1
    [] before >= Needs(i) /\ IsThis(instructions, k) -> before
    [] before >= Needs(i) /\ ~IsThis(instructions, k) /\ Settles(i) ->
         IF before = Needs(i) THEN 0 ELSE -1
    [] OTHER -> before - Needs(i) + Leaves(i)

(* The depth of the working stack after these instructions, read once from *)
(* the first to the last; -1 if an instruction does not find what it takes.*)
Depth(instructions, start) ==
  LET depth[k \in 0 .. Len(instructions)] ==
        IF k = 0 THEN start ELSE DepthAfter(instructions, k, depth[k - 1])
  IN depth[Len(instructions)]

(* In all code that is written, every statement leaves the working stack   *)
(* as it finds it, whichever way control goes: each term pushes one value, *)
(* each operator, call and assignment takes its own (ast.c:1137-1463).     *)
(* The term "this" is counted as the value it should be: see CodeRuns.     *)
StackBalanced == outcome = "done" => Depth(code, 0) = 0

(* These two places are in one function.                                   *)
Together(instructions, i, j) ==
  \A k \in 1 .. Len(instructions) : instructions[k].op = "function" => (k < i <=> k < j)

(* In all code that is written, a jump has one target, in its own          *)
(* function: no number is given twice, however statements are nested, and  *)
(* what a block comes before is written behind it (ast_writer.c:107-133,   *)
(* ast.c:1262-1299).                                                       *)
JumpsLand ==
  outcome = "done" =>
    \A i \in 1 .. Len(code) : code[i].op \in Jumps =>
      \E j \in 1 .. Len(code) :
        /\ {k \in 1 .. Len(code) : code[k].op = "label" /\ code[k].label = code[i].label} = {j}
        /\ Together(code, i, j)
=============================================================================
