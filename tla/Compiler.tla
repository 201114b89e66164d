------------------------------ MODULE Compiler ------------------------------
(***************************************************************************)
(* The driver, compile() of src/compiler/refac_compiler.c, composed with   *)
(* the error log.  It lexes and parses every .jack file, builds the symbol *)
(* tables, analyzes, and, if no error was logged, generates one .vm file   *)
(* per .jack file; then it reports and cleans up.                          *)
(*                                                                         *)
(* What the phases decide about a program is modelled by the modules of    *)
(* their own; here a phase may log any errors, abort in an assertion, or   *)
(* meet an error of the system, which the log turns into an exit.          *)
(***************************************************************************)
EXTENDS Integers, Sequences

CONSTANTS
  MaxFiles,                 (* bound: .jack files in the directory          *)
  Page, Align, Base, Pages, MessageSize, ErrorSize, OffsetSize, LineSizes,
  InitialCapacity, StackDepth   (* see module ErrorLog                      *)

ASSUME FilesAssumption == MaxFiles \in Nat

ASSUME LogAssumption ==
  /\ Page \in Nat \ {0} /\ Align \in Nat \ {0}
  /\ Base \in Nat /\ Pages \in Nat \ {0}
  /\ MessageSize \in Nat \ {0} /\ ErrorSize \in Nat \ {0}
  /\ OffsetSize \in Nat \ {0}
  /\ LineSizes \subseteq 1 .. MessageSize
  /\ InitialCapacity \in Nat \ {0, 1}
  /\ StackDepth \in Nat \ {0}

(* File names are owned by a literal (0), by the lexer of file f (f), or   *)
(* by the syntax tree, which copies them into the compiler's arena.        *)
Static == 0
LexerOf(f) == f
Ast == MaxFiles + 1
Owners == 0 .. MaxFiles + 1

VARIABLES
  current, committed_end, arena, frames, errors, capacity, printed, raised, status,
  pc,             (* the statement of compile() under way                   *)
  num_of_files,   (* state->num_of_files                                    *)
  file,           (* the loop variable, from 1                              *)
  error_code,     (* lexer->error_code, which nobody reads                  *)
  freed,          (* lexers destroyed, and their file names with them       *)
  vm              (* output files: "untouched", "open" or "complete"        *)

Log == INSTANCE ErrorLog

logVars ==
  <<current, committed_end, arena, frames, errors, capacity, printed, raised, status>>
ownVars == <<pc, num_of_files, file, error_code, freed, vm>>
vars == <<logVars, ownVars>>

Statements == {"init", "logger", "find", "lex", "lexed", "parse", "free", "build",
               "analyze", "gate", "open", "generate", "report", "close",
               "destroy", "done", "aborted", "crashed"}

-----------------------------------------------------------------------------
CInit ==
  /\ Log!Init
  /\ pc = "init"
  /\ num_of_files = 0 /\ file = 1
  /\ error_code = FALSE
  /\ freed = {}
  /\ vm = [f \in 1 .. MaxFiles |-> "untouched"]

At(statement) == pc = statement /\ Log!Idle

(* init_compiler allocates the compiler's arena before there is a log.     *)
InitCompiler ==
  /\ At("init")
  /\ pc' = "logger"
  /\ UNCHANGED <<logVars, num_of_files, file, error_code, freed, vm>>

InitLogger ==
  /\ At("logger")
  /\ Log!Initialize
  /\ pc' = "find"
  /\ UNCHANGED <<num_of_files, file, error_code, freed, vm>>

(* An error of the system (memory, a file, the JSON of the standard        *)
(* library, a null node) can be met in any of these statements; at the end *)
(* it is that an arena cannot be unmapped.                                 *)
SystemError ==
  /\ pc \in {"init", "find", "lex", "parse", "build", "analyze", "open", "generate",
              "destroy"}
  /\ Log!Raise("INTERNAL", Static)
  /\ UNCHANGED ownVars

FindJackFiles ==
  /\ At("find")
  /\ num_of_files' \in 0 .. MaxFiles
  /\ pc' = IF num_of_files' = 0 THEN "build" ELSE "lex"
  /\ UNCHANGED <<logVars, file, error_code, freed, vm>>

(* init_lexer: newlines take offsets from the logger's arena.              *)
LexNewline ==
  /\ At("lex")
  /\ Log!TakeOffset \/ Log!OffsetRefused
  /\ UNCHANGED ownVars

(* Mutant: the lexer is destroyed as soon as its queue is complete.        *)
LexFileFrees ==
  /\ At("lex")
  /\ pc' = "parse" /\ error_code' = FALSE
  /\ freed' = freed \union {LexerOf(file)}
  /\ UNCHANGED <<logVars, num_of_files, file, vm>>

LexFile ==
  /\ At("lex")
  /\ pc' = "parse" /\ error_code' = FALSE
  /\ UNCHANGED <<logVars, num_of_files, file, freed, vm>>

(* process_input logs at most one error, and returns its code.             *)
LexError ==
  /\ At("lex")
  /\ Log!Raise("SOURCE", LexerOf(file))
  /\ pc' = "lexed"
  /\ UNCHANGED <<num_of_files, file, error_code, freed, vm>>

LexErrorReturns ==
  /\ At("lexed")
  /\ pc' = "parse" /\ error_code' = TRUE
  /\ UNCHANGED <<logVars, num_of_files, file, freed, vm>>

ParseError ==
  /\ At("parse")
  /\ Log!Raise("SOURCE", LexerOf(file))
  /\ UNCHANGED ownVars

ParseClass ==
  /\ At("parse")
  /\ pc' = "free"
  /\ UNCHANGED <<logVars, num_of_files, file, error_code, freed, vm>>

(* An assertion of vector.c, or a null token.                              *)
Abort ==
  /\ At("parse") \/ At("analyze")
  /\ pc' = "aborted"
  /\ UNCHANGED <<logVars, num_of_files, file, error_code, freed, vm>>

(* Mutant: the loop does not advance.                                      *)
FreeLexerStays ==
  /\ At("free")
  /\ freed' = freed \union {LexerOf(file)}
  /\ pc' = IF file < num_of_files THEN "lex" ELSE "build"
  /\ UNCHANGED <<logVars, num_of_files, file, error_code, vm>>

(* destroy_lexer, destroy_arena(fileArena), destroy_parser.                *)
FreeLexer ==
  /\ At("free")
  /\ freed' = freed \union {LexerOf(file)}
  /\ IF file < num_of_files THEN file' = file + 1 /\ pc' = "lex"
                            ELSE file' = 1 /\ pc' = "build"
  /\ UNCHANGED <<logVars, num_of_files, error_code, vm>>

(* The file's arena cannot be unmapped, when the lexer is gone.             *)
FreeLexerFails ==
  /\ At("free")
  /\ freed' = freed \union {LexerOf(file)}
  /\ Log!Raise("INTERNAL", Static)
  /\ UNCHANGED <<pc, num_of_files, file, error_code, vm>>

SemanticError ==
  /\ At("build") \/ At("analyze")
  /\ Log!Raise("SOURCE", Ast)
  /\ UNCHANGED ownVars

Build ==
  /\ At("build")
  /\ pc' = "analyze"
  /\ UNCHANGED <<logVars, num_of_files, file, error_code, freed, vm>>

Analyze ==
  /\ At("analyze")
  /\ pc' = "gate"
  /\ UNCHANGED <<logVars, num_of_files, file, error_code, freed, vm>>

(* Mutant: only an error of the last phase keeps code from being made.     *)
GateOnLastError ==
  /\ At("gate")
  /\ pc' = IF /\ errors # <<>> => errors[Len(errors)].owner # Ast
              /\ num_of_files > 0
           THEN "open" ELSE "report"
  /\ UNCHANGED <<logVars, num_of_files, file, error_code, freed, vm>>

(* error_count() == 0                                                      *)
Gate ==
  /\ At("gate")
  /\ pc' = IF errors = <<>> /\ num_of_files > 0 THEN "open" ELSE "report"
  /\ UNCHANGED <<logVars, num_of_files, file, error_code, freed, vm>>

OpenVm ==
  /\ At("open")
  /\ vm' = [vm EXCEPT ![file] = "open"]
  /\ pc' = "generate"
  /\ UNCHANGED <<logVars, num_of_files, file, error_code, freed>>

CodegenError ==
  /\ At("generate")
  /\ Log!Raise("SOURCE", Ast)
  /\ UNCHANGED ownVars

(* Mutants: files are closed after the loop; the last one is not closed.   *)
GenerateClosesLast ==
  /\ At("generate")
  /\ IF file < num_of_files
     THEN vm' = vm /\ file' = file + 1 /\ pc' = "open"
     ELSE /\ vm' = [f \in 1 .. MaxFiles |->
                     IF vm[f] = "open" THEN "complete" ELSE vm[f]]
          /\ file' = 1 /\ pc' = "report"
  /\ UNCHANGED <<logVars, num_of_files, error_code, freed>>

GenerateLeavesOpen ==
  /\ At("generate")
  /\ IF file < num_of_files
     THEN /\ vm' = [vm EXCEPT ![file] = "complete"]
          /\ file' = file + 1 /\ pc' = "open"
     ELSE vm' = vm /\ file' = 1 /\ pc' = "report"
  /\ UNCHANGED <<logVars, num_of_files, error_code, freed>>

(* The class is written, and the file closed.                              *)
Generate ==
  /\ At("generate")
  /\ vm' = [vm EXCEPT ![file] = "complete"]
  /\ IF file < num_of_files THEN file' = file + 1 /\ pc' = "open"
                            ELSE file' = 1 /\ pc' = "report"
  /\ UNCHANGED <<logVars, num_of_files, error_code, freed>>

Report ==
  /\ At("report")
  /\ Log!Report
  /\ pc' = "close"
  /\ UNCHANGED <<num_of_files, file, error_code, freed, vm>>

Close ==
  /\ At("close")
  /\ Log!Close
  /\ pc' = "destroy"
  /\ UNCHANGED <<num_of_files, file, error_code, freed, vm>>

(* The logger's arena cannot be unmapped: that is logged in the vector that*)
(* is freed already, with any outcome.                                     *)
CloseFails ==
  /\ At("close")
  /\ pc' = "crashed"
  /\ UNCHANGED <<logVars, num_of_files, file, error_code, freed, vm>>

(* destroy_ast_node and destroy_arena; compile returns 1.                  *)
Destroy ==
  /\ At("destroy")
  /\ pc' = "done"
  /\ UNCHANGED <<logVars, num_of_files, file, error_code, freed, vm>>

(* A term that the parser left incomplete, after an error, is reported to  *)
(* the log, which is closed by now (ast.c:360).                            *)
SyntaxErrors == \E k \in 1 .. Len(errors) : errors[k].owner \notin {Static, Ast}

DestroyIncomplete ==
  /\ At("destroy")
  /\ SyntaxErrors
  /\ Log!Raise("INTERNAL", Static)
  /\ UNCHANGED ownVars

Reporting == Log!Reporting /\ UNCHANGED ownVars

CNext ==
  \/ DestroyIncomplete
  \/ InitCompiler \/ InitLogger \/ SystemError
  \/ FindJackFiles
  \/ LexNewline \/ LexFile \/ LexError \/ LexErrorReturns
  \/ ParseError \/ ParseClass \/ Abort
  \/ FreeLexer \/ FreeLexerFails
  \/ SemanticError \/ Build \/ Analyze \/ Gate
  \/ OpenVm \/ CodegenError \/ Generate
  \/ Report \/ Close \/ CloseFails \/ Destroy
  \/ Reporting

(* One sequential program: while it can take a step, it does.              *)
CSpec == CInit /\ [][CNext]_vars /\ WF_vars(CNext)

-----------------------------------------------------------------------------
FrontEnd == {"init", "logger", "find", "lex", "lexed", "parse", "free", "build",
             "analyze", "gate"}

Opened == {f \in 1 .. MaxFiles : vm[f] # "untouched"}

(* Types of the state, and where the loops are.                            *)
CTypeOK ==
  /\ Log!TypeOK
  /\ pc \in Statements
  /\ num_of_files \in 0 .. MaxFiles
  /\ file \in 1 .. (IF num_of_files = 0 THEN 1 ELSE num_of_files)
  /\ error_code \in BOOLEAN
  /\ freed \subseteq Owners \ {Static, Ast}
  /\ vm \in [1 .. MaxFiles -> {"untouched", "open", "complete"}]

(* Once an error of the source is logged before code generation, no output *)
(* file is ever touched: the .vm files of an earlier run survive (151).    *)
NoCodeFromErrors ==
  [](pc \in FrontEnd /\ errors # <<>> => [](Opened = {}))

(* When the errors have been printed, stderr has every error that any      *)
(* phase ever reported, in order, and keeps them through what the cleanup  *)
(* may still meet: only an error of the cleanup itself is lost.  Without   *)
(* errors every output file is complete (refac_compiler.c:151-173).        *)
DoneIsComplete ==
  pc \in {"close", "destroy", "done", "crashed"} =>
    /\ printed = errors
    /\ Log!Shows(printed, IF frames = <<>> THEN Len(raised) ELSE Len(raised) - 1)
    /\ errors = <<>> => \A f \in 1 .. num_of_files : vm[f] = "complete"

(* At most one output file is ever left half written, whatever ends the    *)
(* process, and those before it are complete.                              *)
OutputsInOrder ==
  \A f, g \in 1 .. MaxFiles :
    f < g /\ vm[g] # "untouched" => vm[f] = "complete"

(* A lexer's file name outlives the lexing and parsing of its file: what   *)
(* these log about it can be printed until the next file is begun.         *)
NamesLiveInFrontEnd ==
  pc \in {"lex", "lexed", "parse"} =>
    \A k \in 1 .. Len(frames) : frames[k].owner \notin freed

(* The compiler comes to an end, though the parser may log errors without  *)
(* consuming a token: the logger's arena does not last for ever.           *)
Terminates == <>(pc \in {"done", "aborted", "crashed"} \/ status # "running")

(* What the cleanup reports, to a log that is closed by then, is lost, and *)
(* the process with it: the report finds no arena, reports that, and so on *)
(* until the stack is used up, never to be shown, resumed or dropped       *)
(* (ast.c:360, arena.c:127).  The errors of the program were shown before. *)
ClosedLogOverflows ==
  (pc = "destroy" /\ frames # <<>>) ~> status = "overflowed"

(* README, Error Handling: "In file 'Ball.jack' , line 109".  The names of *)
(* the report at the end still exist.  It does not hold: see the finding.  *)
NamesLiveWhenPrinted ==
  pc = "close" => \A k \in 1 .. Len(printed) : printed[k].owner \notin freed
=============================================================================
