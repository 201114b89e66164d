----------------------------- MODULE VisitorChecks -----------------------------
(***************************************************************************)
(* What the walks over the tree are for: programs are accepted as they are *)
(* typed, and their code does what they mean.                              *)
(***************************************************************************)
EXTENDS Visitor

CONSTANTS
  Judged,       (* programs of which the language and the compiler have the *)
                (* same view, for all that is checked here                  *)
  Misjudged,    (* those on which they differ, one being right to accept    *)
  Runnable,     (* programs of functions only, with a function Main.main    *)
  Miscompiled,  (* accepted ones whose code the machine cannot run          *)
  MaxSteps

Jack == INSTANCE JackSemantics

Machine == INSTANCE StackMachine

(* Code is generated from exactly the well typed programs: the lookups in  *)
(* three depths of scope, the types left in nodes and the count of errors  *)
(* agree with a judgement that knows none of them (ast.c:601-1132), as     *)
(* src/README.md:123 promises: "We support type-checking".  Of each of the *)
(* programs set apart the verdict is the opposite: see the findings.       *)
AcceptsWellTyped ==
  outcome # "running" /\ program \in Judged \union Misjudged =>
    ((outcome = "done" <=> Jack!WellTyped(program, Library)) <=> program \in Judged)

(* How a value is kept in a word of the machine.                           *)
Word(type, v) == IF type = "boolean" THEN Machine!Truth(v) ELSE Machine!Wrap(v)

TypeOfMain ==
  LET class == SelectSeq(program, LAMBDA c : c.name = "Main")[1]
  IN SelectSeq(class.subs, LAMBDA f : f.name = "main")[1].type

RunOfMain == Machine!Run(code, <<"Main", "main">>)

(* The code of a program, run, returns what the program means: every       *)
(* expression leaves its value and nothing else on the stack, variables    *)
(* are apart, and control goes where the statements say (ast.c:1137-1463). *)
(* That of each of the programs set apart cannot be run: see the findings. *)
CodeMeansProgram ==
  /\ outcome = "done" /\ program \in Runnable =>
       /\ RunOfMain.status = "halted"
       /\ RunOfMain.value = Word(TypeOfMain, Jack!Meaning(program, "Main", "main"))
  /\ outcome # "running" /\ program \in Miscompiled =>
       outcome = "done" /\ RunOfMain.status = "stuck"

Classes == {program[i].name : i \in 1 .. Len(program)}

(* What the code generator calls of the operating system by itself.        *)
SystemCalls ==
  {<<<<"Math", "multiply">>, 2>>, <<<<"Math", "divide">>, 2>>, <<<<"Memory", "alloc">>, 1>>,
   <<<<"String", "new">>, 1>>, <<<<"String", "appendChar">>, 2>>}

(* The subroutines there are, with the number of values each one takes: a  *)
(* method takes its object first.                                          *)
Callable ==
  UNION {{<<<<c.name, s.name>>, Len(s.params.types) + (IF s.kind = "METHOD" THEN 1 ELSE 0)>> :
            s \in ToSet(c.subs)} : c \in ToSet(program)}
  \union UNION {{<<<<c.name, f.name>>, Len(f.parameters)>> : f \in ToSet(c.functions)} : c \in ToSet(Library)}
  \union UNION {{<<<<c.name, f.name>>, Len(f.parameters) + 1>> : f \in ToSet(c.methods)} : c \in ToSet(Library)}
  \union SystemCalls

(* Every call in the code names a subroutine there is and passes exactly   *)
(* the values it takes, a method's object among them; and a subroutine of  *)
(* the program that is called has one entry (ast.c:1319-1378).             *)
CallsLink ==
  outcome = "done" /\ program \in Judged =>
    \A i \in 1 .. Len(code) :
      code[i].op = "call" =>
        /\ <<code[i].name, code[i].args>> \in Callable
        /\ code[i].name[1] \in Classes => Cardinality(Machine!EntriesOf(code, code[i].name)) = 1

-----------------------------------------------------------------------------
(* src/README.md:123: "We support type-checking".  The compiler accepts    *)
(* exactly the well typed programs.  It does not hold: see the findings.   *)
TypeChecks ==
  outcome # "running" => (outcome = "done" <=> Jack!WellTyped(program, Library))

(* src/README.md:147: the implementation follows the language              *)
(* specification: the code of an accepted program can be run.  It does not *)
(* hold: see the findings.                                                 *)
CodeRuns ==
  outcome = "done" => RunOfMain.status # "stuck"
=============================================================================
