---------------------------- MODULE CompilerProofs ----------------------------
(***************************************************************************)
(* Proofs about the driver, for any number of files and every size of the  *)
(* logger's arena.  The driver is shown to be a client of the error log,   *)
(* so that what ErrorLogProofs proves of the log holds under it.           *)
(***************************************************************************)
EXTENDS Compiler, TLAPS

LogP == INSTANCE ErrorLogProofs

LEMMA LogSizes == LogP!SizeAssumption
  BY LogAssumption, FilesAssumption DEF LogP!SizeAssumption, Owners, Static

(* The log as the driver names it, and as its proofs do.                   *)
LEMMA SameInit == Log!Init <=> LogP!Init
  BY DEF Log!Init, LogP!Init

LEMMA SameTypes == Log!TypeOK <=> LogP!TypeOK
  BY DEF Log!TypeOK, LogP!TypeOK, Log!Frame, LogP!Frame, Log!Phases, LogP!Phases,
         Log!Points, LogP!Points, Log!ErrorRecord, LogP!ErrorRecord,
         Log!Cell, LogP!Cell, Log!Unwritten, LogP!Unwritten

LEMMA SameAllocation ==
  ASSUME NEW size
  PROVE  /\ Log!Granted(size) <=> LogP!Granted(size)
         /\ Log!Refused(size) <=> LogP!Refused(size)
  BY DEF Log!Granted, LogP!Granted, Log!Refused, LogP!Refused,
         Log!Store!Fits, LogP!Store!Fits, Log!Store!Cursor, LogP!Store!Cursor,
         Log!Store!CommitEnd, LogP!Store!CommitEnd, Log!Store!RoundUp, LogP!Store!RoundUp

LEMMA SameReporting == Log!Reporting <=> LogP!Reporting
<1>1. /\ Log!Top = LogP!Top /\ Log!Entry = LogP!Entry /\ Log!Wanted = LogP!Wanted
      /\ Log!GrownCapacity = LogP!GrownCapacity /\ (Log!MustGrow <=> LogP!MustGrow)
      /\ Log!Unwritten = LogP!Unwritten
  BY DEF Log!Top, LogP!Top, Log!Entry, LogP!Entry, Log!Wanted, LogP!Wanted,
         Log!GrownCapacity, LogP!GrownCapacity, Log!MustGrow, LogP!MustGrow,
         Log!Unwritten, LogP!Unwritten
<1>2. ASSUME NEW point
      PROVE (Log!At(point) <=> LogP!At(point)) /\ (Log!Goto(point) <=> LogP!Goto(point))
  BY <1>1 DEF Log!At, LogP!At, Log!Goto, LogP!Goto
<1>3. ASSUME NEW phase, NEW owner
      PROVE Log!Call(phase, owner) <=> LogP!Call(phase, owner)
  BY DEF Log!Call, LogP!Call
<1>4. Log!ReportInside("INTERNAL") <=> LogP!ReportInside("INTERNAL")
  BY <1>3 DEF Log!ReportInside, LogP!ReportInside
<1>5. /\ Log!AllocMessage <=> LogP!AllocMessage
      /\ Log!AllocError <=> LogP!AllocError
      /\ Log!NoLine <=> LogP!NoLine
      /\ \A size \in LineSizes : Log!AllocLine(size) <=> LogP!AllocLine(size)
  BY <1>1, <1>2, SameAllocation
     DEF Log!AllocMessage, LogP!AllocMessage, Log!AllocError, LogP!AllocError,
         Log!NoLine, LogP!NoLine, Log!AllocLine, LogP!AllocLine
<1>6. (Log!Nest <=> LogP!Nest) /\ (Log!GrowthFails <=> LogP!GrowthFails)
  BY <1>1, <1>2, <1>4, SameAllocation
     DEF Log!Nest, LogP!Nest, Log!GrowthFails, LogP!GrowthFails
<1>7. /\ Log!Push <=> LogP!Push
      /\ Log!PushAndExit <=> LogP!PushAndExit
      /\ Log!PushAndCrash <=> LogP!PushAndCrash
  BY <1>1, <1>2
     DEF Log!Push, LogP!Push, Log!PushAndExit, LogP!PushAndExit,
         Log!PushAndCrash, LogP!PushAndCrash
<1> QED
  BY <1>5, <1>6, <1>7 DEF Log!Reporting, LogP!Reporting

LEMMA SameNext == Log!Next <=> LogP!Next
<1>1. Log!Idle <=> LogP!Idle
  BY DEF Log!Idle, LogP!Idle
<1>2. ASSUME NEW phase, NEW owner
      PROVE Log!Call(phase, owner) <=> LogP!Call(phase, owner)
  BY DEF Log!Call, LogP!Call
<1>3. ASSUME NEW phase, NEW owner
      PROVE Log!Raise(phase, owner) <=> LogP!Raise(phase, owner)
  BY <1>1, <1>2 DEF Log!Raise, LogP!Raise
<1>4. (Log!TakeOffset <=> LogP!TakeOffset) /\ (Log!OffsetRefused <=> LogP!OffsetRefused)
  BY <1>1, <1>2, SameAllocation
     DEF Log!TakeOffset, LogP!TakeOffset, Log!OffsetRefused, LogP!OffsetRefused
<1>5. /\ Log!Initialize <=> LogP!Initialize
      /\ Log!Report <=> LogP!Report
      /\ Log!Close <=> LogP!Close
  BY <1>1 DEF Log!Initialize, LogP!Initialize, Log!Report, LogP!Report, Log!Close, LogP!Close
<1> QED
  BY <1>3, <1>4, <1>5, SameReporting DEF Log!Next, LogP!Next, Log!Phases, LogP!Phases

-----------------------------------------------------------------------------
OwnTypes ==
  /\ pc \in Statements
  /\ num_of_files \in 0 .. MaxFiles
  /\ file \in 1 .. (IF num_of_files = 0 THEN 1 ELSE num_of_files)
  /\ error_code \in BOOLEAN
  /\ vm \in [1 .. MaxFiles -> {"untouched", "open", "complete"}]

(* The lexers destroyed are those of the files before the current one, and *)
(* errors are reported of the current one only.                            *)
Front == {"lex", "lexed", "parse", "free"}

LexersInv ==
  /\ freed \subseteq 1 .. MaxFiles
  /\ pc \in {"init", "logger", "find"} => freed = {} /\ file = 1
  /\ pc \in Front => num_of_files > 0 /\ \A f \in freed : f <= file
  /\ pc \in Front \ {"free"} => file \notin freed
  /\ pc \in {"lex", "lexed", "parse"} =>
       \A k \in 1 .. Len(frames) : frames[k].owner \in {Static, LexerOf(file)}

(* The outputs before the current one are complete, those after it are     *)
(* untouched; there are none after an error of the front end.              *)
Untouched == \A f \in 1 .. MaxFiles : vm[f] = "untouched"

Written(n) ==
  \A f \in 1 .. MaxFiles : vm[f] = IF f <= n THEN "complete" ELSE "untouched"

After == {"report", "close", "destroy", "done", "crashed"}

OutputsInv ==
  /\ pc \in FrontEnd \union {"aborted"} => Untouched
  /\ pc \in {"build", "analyze", "gate"} => file = 1
  /\ pc = "open" => num_of_files > 0 /\ Written(file - 1)
  /\ pc = "generate" =>
       /\ num_of_files > 0
       /\ \A f \in 1 .. MaxFiles :
            vm[f] = IF f < file THEN "complete" ELSE IF f = file THEN "open" ELSE "untouched"
  /\ pc \in After =>
       \/ Written(num_of_files)
       \/ Untouched /\ (errors # <<>> \/ num_of_files = 0)

(* From the end of the loops on nothing is reported, except to the closed *)
(* log, where a report does not get beyond its message.  What was reported *)
(* until then has been printed.                                            *)
ShownInv ==
  /\ pc \in After \ {"destroy"} => frames = <<>> /\ status = "running"
  /\ pc = "destroy" =>
       /\ arena = "destroyed"
       /\ status \in {"running", "overflowed"}
       /\ frames # <<>> => LogP!Top.pc = "message"
  /\ pc \in After \ {"report"} => printed = errors

CInv == LogP!IInv /\ OwnTypes /\ LexersInv /\ OutputsInv /\ ShownInv

-----------------------------------------------------------------------------
(* The shape of the log's sequences.                                       *)
LEMMA LogShape ==
  ASSUME LogP!IInv
  PROVE  /\ frames \in Seq(LogP!Frame) /\ errors \in Seq(LogP!Cell)
         /\ Len(frames) \in Nat
  BY DEF LogP!IInv, LogP!TypeOK

(* A report keeps the names it has, or adds that of a literal; it keeps    *)
(* the errors that are logged.                                             *)
LEMMA ReportKeeps ==
  ASSUME LogP!IInv, LogP!Reporting
  PROVE  /\ frames # <<>>
         /\ errors # <<>> => errors' # <<>>
         /\ \A k \in 1 .. Len(frames') :
              \/ frames'[k].owner = Static
              \/ \E j \in 1 .. Len(frames) : frames'[k].owner = frames[j].owner
<1>1. /\ frames \in Seq(LogP!Frame) /\ errors \in Seq(LogP!Cell)
      /\ Len(frames) \in Nat
  BY LogShape
<1>2. frames # <<>>
  BY DEF LogP!Reporting, LogP!AllocMessage, LogP!AllocError, LogP!NoLine, LogP!Nest,
         LogP!GrowthFails, LogP!Push, LogP!PushAndExit, LogP!PushAndCrash, LogP!AllocLine,
         LogP!At
<1>3. ASSUME NEW point, LogP!Goto(point), UNCHANGED errors
      PROVE  /\ errors # <<>> => errors' # <<>>
             /\ \A k \in 1 .. Len(frames') :
                  \E j \in 1 .. Len(frames) : frames'[k].owner = frames[j].owner
  <2>1. /\ Len(frames') = Len(frames)
        /\ \A k \in 1 .. Len(frames) : frames'[k].owner = frames[k].owner
    BY <1>1, <1>3 DEF LogP!Goto, LogP!Frame
  <2> QED
    BY <1>3, <2>1
<1>4. CASE LogP!AllocMessage \/ LogP!AllocError \/ LogP!NoLine
           \/ \E size \in LineSizes : LogP!AllocLine(size)
  BY <1>2, <1>3, <1>4 DEF LogP!AllocMessage, LogP!AllocError, LogP!NoLine, LogP!AllocLine
<1>5. CASE LogP!Nest \/ LogP!GrowthFails
  <2>1. errors # <<>> => errors' # <<>>
    BY <1>1, <1>5 DEF LogP!Nest, LogP!GrowthFails
  <2>2. CASE UNCHANGED frames
    BY <1>2, <2>1, <2>2
  <2>3. CASE LogP!Call("INTERNAL", Static)
    <3>1. /\ Len(frames') = Len(frames) + 1
          /\ \A k \in 1 .. Len(frames) : frames'[k] = frames[k]
          /\ frames'[Len(frames) + 1].owner = Static
      BY <1>1, <2>3 DEF LogP!Call
    <3>2. \A k \in 1 .. Len(frames') : k \in 1 .. Len(frames) \/ k = Len(frames) + 1
      BY <1>1, <3>1
    <3> QED
      BY <1>2, <2>1, <3>1, <3>2
  <2> QED
    BY <1>5, <2>2, <2>3 DEF LogP!Nest, LogP!GrowthFails, LogP!ReportInside
<1>6. CASE LogP!Push
  <2>1. frames' = <<>>
    BY <1>6, LogSizes, LogP!PushPops DEF LogP!IInv
  <2>2. errors' # <<>>
    BY <1>1, <1>6 DEF LogP!Push
  <2> QED
    BY <1>2, <2>1, <2>2
<1>7. CASE LogP!PushAndExit \/ LogP!PushAndCrash
  BY <1>1, <1>2, <1>7 DEF LogP!PushAndExit, LogP!PushAndCrash
<1> QED
  BY <1>4, <1>5, <1>6, <1>7 DEF LogP!Reporting

(* What a client that raises an error puts on the empty stack.             *)
LEMMA RaiseOwner ==
  ASSUME LogP!IInv, NEW phase, NEW owner,
         frames = <<>>, LogP!Call(phase, owner)
  PROVE  \A k \in 1 .. Len(frames') : frames'[k].owner = owner
  BY DEF LogP!Call

-----------------------------------------------------------------------------
(* The kinds of steps the driver takes: its own, which leave the log alone;*)
(* those of a report under way; errors raised; and calls of the log.       *)
Raises(phase, owner) ==
  /\ LogP!Call(phase, owner) /\ frames = <<>>
  /\ UNCHANGED <<arena, errors, printed, status>>

LEMMA ReportingSame == Reporting <=> LogP!Reporting /\ UNCHANGED ownVars
  BY SameReporting DEF Reporting

LEMMA RaiseSame ==
  ASSUME NEW phase, NEW owner, Log!Raise(phase, owner)
  PROVE  Raises(phase, owner)
  BY DEF Log!Raise, Log!Idle, Log!Call, LogP!Call, Raises

(* Every step of the driver is one of a client of the log.                 *)
LEMMA StepIsLogs ==
  ASSUME OwnTypes, [CNext]_vars
  PROVE  [Log!Next]_(Log!logVars)
<1>1. LexerOf(file) \in Owners /\ Static \in Owners /\ Ast \in Owners
  BY FilesAssumption DEF OwnTypes, LexerOf, Static, Ast, Owners
<1>2. "INTERNAL" \in Log!Phases /\ "SOURCE" \in Log!Phases
  BY DEF Log!Phases
<1>3. CASE \/ SystemError \/ LexError \/ ParseError \/ SemanticError \/ CodegenError
           \/ FreeLexerFails \/ DestroyIncomplete
  BY <1>1, <1>2, <1>3
     DEF SystemError, LexError, ParseError, SemanticError, CodegenError, FreeLexerFails,
         DestroyIncomplete, Log!Next
<1>4. CASE InitLogger \/ LexNewline \/ Report \/ Close \/ Reporting
  BY <1>4 DEF InitLogger, LexNewline, Report, Close, Reporting, Log!Next
<1>5. CASE \/ InitCompiler \/ FindJackFiles \/ LexFile \/ LexErrorReturns \/ ParseClass
           \/ Abort \/ FreeLexer \/ Build \/ Analyze \/ Gate \/ OpenVm \/ Generate
           \/ Destroy \/ CloseFails \/ UNCHANGED vars
  BY <1>5
     DEF InitCompiler, FindJackFiles, LexFile, LexErrorReturns, ParseClass, Abort,
         FreeLexer, Build, Analyze, Gate, OpenVm, Generate, Destroy, CloseFails,
         vars, logVars, Log!logVars
<1> QED
  BY <1>3, <1>4, <1>5 DEF CNext

LEMMA LogInvariant ==
  ASSUME LogP!IInv, OwnTypes, [CNext]_vars
  PROVE  LogP!IInv'
<1>1. [LogP!Next]_(LogP!logVars)
  BY StepIsLogs, SameNext DEF Log!logVars, LogP!logVars
<1> QED
  BY <1>1, LogSizes, LogP!StepInvariant

-----------------------------------------------------------------------------
LEMMA TypesInvariant ==
  ASSUME CInv, [CNext]_vars
  PROVE  OwnTypes'
<1> USE FilesAssumption
<1>1. OwnTypes /\ LexersInv /\ OutputsInv
  BY DEF CInv
<1>2. CASE UNCHANGED ownVars
  BY <1>1, <1>2 DEF OwnTypes, ownVars
<1>3. CASE \/ SystemError \/ LexNewline \/ ParseError \/ SemanticError \/ CodegenError
           \/ DestroyIncomplete \/ Reporting
  BY <1>2, <1>3
     DEF SystemError, LexNewline, ParseError, SemanticError, CodegenError, DestroyIncomplete,
         Reporting
<1>4. CASE \/ InitCompiler \/ InitLogger \/ LexFile \/ LexError \/ LexErrorReturns \/ ParseClass
           \/ Abort \/ Build \/ Analyze \/ Gate \/ Report \/ Close \/ Destroy
           \/ CloseFails \/ FreeLexerFails
  BY <1>1, <1>4
     DEF OwnTypes, Statements, InitCompiler, InitLogger, LexFile, LexError, LexErrorReturns,
         ParseClass, Abort, Build, Analyze, Gate, Report, Close, Destroy, CloseFails,
         FreeLexerFails
<1>5. CASE FindJackFiles
  BY <1>1, <1>5 DEF OwnTypes, LexersInv, Statements, FindJackFiles, At
<1>6. CASE FreeLexer
  <2>1. file' \in 1 .. (IF num_of_files = 0 THEN 1 ELSE num_of_files)
    BY <1>1, <1>6 DEF OwnTypes, FreeLexer
  <2> QED
    BY <1>1, <1>6, <2>1 DEF OwnTypes, Statements, FreeLexer
<1>7. CASE OpenVm
  BY <1>1, <1>7 DEF OwnTypes, Statements, OpenVm
<1>8. CASE Generate
  <2>1. file' \in 1 .. (IF num_of_files = 0 THEN 1 ELSE num_of_files)
    BY <1>1, <1>8 DEF OwnTypes, Generate
  <2> QED
    BY <1>1, <1>8, <2>1 DEF OwnTypes, Statements, Generate
<1> QED
  BY <1>2, <1>3, <1>4, <1>5, <1>6, <1>7, <1>8 DEF CNext, vars, ownVars

LEMMA LexersInvariant ==
  ASSUME CInv, [CNext]_vars
  PROVE  LexersInv'
<1> USE FilesAssumption
<1>1. LogP!IInv /\ OwnTypes /\ LexersInv /\ OutputsInv
  BY DEF CInv
<1>2. CASE UNCHANGED vars
  BY <1>1, <1>2 DEF LexersInv, vars, logVars, ownVars
<1>3. CASE Reporting
  <2>1. LogP!Reporting /\ UNCHANGED ownVars
    BY <1>3, ReportingSame
  <2>2. \A k \in 1 .. Len(frames') :
          \/ frames'[k].owner = Static
          \/ \E j \in 1 .. Len(frames) : frames'[k].owner = frames[j].owner
    BY <1>1, <2>1, ReportKeeps
  <2> QED
    BY <1>1, <2>1, <2>2 DEF LexersInv, ownVars
<1>4. CASE SystemError \/ ParseError \/ SemanticError \/ CodegenError \/ DestroyIncomplete
  <2>1. /\ UNCHANGED ownVars
        /\ \E phase, owner : /\ Raises(phase, owner)
                             /\ pc \in {"lex", "lexed", "parse"} => owner \in {Static, LexerOf(file)}
    BY <1>4, RaiseSame
       DEF SystemError, ParseError, SemanticError, CodegenError, DestroyIncomplete, At
  <2> QED
    BY <1>1, <2>1, RaiseOwner DEF LexersInv, ownVars, Raises
<1>5. CASE LexError
  <2>1. \A k \in 1 .. Len(frames') : frames'[k].owner = LexerOf(file)
    BY <1>1, <1>5, RaiseSame, RaiseOwner DEF LexError, Raises
  <2> QED
    BY <1>1, <1>5, <2>1 DEF LexersInv, LexError, At, Front
<1>6. CASE LexNewline
  <2>1. CASE Log!TakeOffset
    BY <1>1, <1>6, <2>1 DEF LexersInv, LexNewline, At, Front, ownVars, Log!TakeOffset
  <2>2. CASE Log!OffsetRefused
    <3>1. LogP!Call("INTERNAL", Static) /\ frames = <<>>
      BY <2>2 DEF Log!OffsetRefused, Log!Idle, Log!Call, LogP!Call
    <3> QED
      BY <1>1, <1>6, <3>1, RaiseOwner DEF LexersInv, LexNewline, At, Front, ownVars
  <2> QED
    BY <1>6, <2>1, <2>2 DEF LexNewline
<1>7. CASE \/ InitCompiler \/ LexFile \/ LexErrorReturns \/ ParseClass
           \/ Abort \/ Build \/ Analyze \/ Gate \/ Destroy \/ CloseFails
           \/ OpenVm \/ Generate
  BY <1>1, <1>7
     DEF LexersInv, Front, InitCompiler, LexFile, LexErrorReturns,
         ParseClass, Abort, Build, Analyze, Gate, Destroy, CloseFails,
         OpenVm, Generate, At, logVars
<1>8. CASE InitLogger \/ Report \/ Close
  BY <1>1, <1>8 DEF LexersInv, Front, InitLogger, Report, Close, At
<1>9. CASE FindJackFiles
  <2>1. frames' = <<>> /\ freed' = {} /\ file' = 1 /\ num_of_files' \in Nat
    BY <1>1, <1>9 DEF LexersInv, FindJackFiles, At, Log!Idle, logVars
  <2> QED
    BY <1>9, <2>1 DEF LexersInv, Front, FindJackFiles
<1>10. CASE FreeLexer
  <2>1. /\ frames' = <<>> /\ freed' = freed \union {file} /\ pc' \in {"lex", "build"}
        /\ pc' = "lex" => file' = file + 1
        /\ num_of_files > 0 /\ UNCHANGED num_of_files /\ file \in 1 .. MaxFiles
        /\ \A f \in freed : f <= file
    BY <1>1, <1>10 DEF LexersInv, OwnTypes, Front, FreeLexer, At, Log!Idle, logVars, LexerOf
  <2>2. freed' \subseteq 1 .. MaxFiles
    BY <1>1, <2>1 DEF LexersInv
  <2>3. \A f \in freed' : f < file + 1
    BY <1>1, <2>1 DEF LexersInv
  <2>4. Len(frames') = 0
    BY <2>1
  <2>5. pc' = "lex" => /\ num_of_files' > 0 /\ file' \notin freed'
                       /\ \A f \in freed' : f <= file'
    BY <1>1, <2>1, <2>2, <2>3
  <2> QED
    BY <2>1, <2>2, <2>4, <2>5 DEF LexersInv, Front
<1>11. CASE FreeLexerFails
  <2>1. /\ freed' = freed \union {file} /\ pc = "free" /\ UNCHANGED <<pc, num_of_files, file>>
        /\ num_of_files > 0 /\ file \in 1 .. MaxFiles
    BY <1>1, <1>11 DEF LexersInv, OwnTypes, Front, FreeLexerFails, At, LexerOf
  <2> QED
    BY <1>1, <2>1 DEF LexersInv, Front
<1> QED
  BY <1>2, <1>3, <1>4, <1>5, <1>6, <1>7, <1>8, <1>9, <1>10, <1>11 DEF CNext

LEMMA OutputsInvariant ==
  ASSUME CInv, [CNext]_vars
  PROVE  OutputsInv'
<1> USE FilesAssumption
<1>1. LogP!IInv /\ OwnTypes /\ LexersInv /\ OutputsInv /\ ShownInv
  BY DEF CInv
<1>2. CASE UNCHANGED vars
  BY <1>1, <1>2 DEF OutputsInv, Untouched, Written, vars, logVars, ownVars
<1>3. CASE Reporting
  <2>1. UNCHANGED ownVars /\ (errors # <<>> => errors' # <<>>)
    BY <1>1, <1>3, ReportingSame, ReportKeeps
  <2> QED
    BY <1>1, <2>1 DEF OutputsInv, Untouched, Written, ownVars
<1>4. CASE \/ SystemError \/ ParseError \/ SemanticError \/ CodegenError \/ LexNewline
           \/ DestroyIncomplete
  <2>1. UNCHANGED ownVars /\ UNCHANGED errors
    BY <1>4
       DEF SystemError, ParseError, SemanticError, CodegenError, LexNewline, DestroyIncomplete,
           Log!Raise, Log!TakeOffset, Log!OffsetRefused
  <2> QED
    BY <1>1, <2>1 DEF OutputsInv, Untouched, Written, ownVars
<1>5. CASE \/ InitCompiler \/ InitLogger \/ LexFile \/ LexError \/ LexErrorReturns \/ ParseClass
           \/ Abort \/ FreeLexerFails \/ Build \/ Analyze
  BY <1>1, <1>5
     DEF OutputsInv, Untouched, FrontEnd, After, InitCompiler, InitLogger, LexFile, LexError,
         LexErrorReturns, ParseClass, Abort, FreeLexerFails, Build, Analyze, At
<1>6. CASE FindJackFiles \/ FreeLexer
  BY <1>1, <1>6
     DEF OutputsInv, LexersInv, Untouched, FrontEnd, After, FindJackFiles, FreeLexer, At
<1>7. CASE Report \/ Close \/ CloseFails \/ Destroy
  <2>1. /\ UNCHANGED <<errors, num_of_files, file, vm>>
        /\ pc \in After /\ pc' \in After
    BY <1>7
       DEF Report, Close, CloseFails, Destroy, At, After, Log!Report, Log!Close, logVars
  <2> QED
    BY <1>1, <2>1 DEF OutputsInv, Untouched, Written, FrontEnd, After
<1>8. CASE Gate
  <2>1. /\ Untouched /\ file = 1 /\ UNCHANGED <<errors, num_of_files, file, vm>>
        /\ pc' = IF errors = <<>> /\ num_of_files > 0 THEN "open" ELSE "report"
    BY <1>1, <1>8 DEF OutputsInv, FrontEnd, Gate, At, logVars
  <2>2. num_of_files \in Nat
    BY <1>1 DEF OwnTypes
  <2> QED
    BY <2>1, <2>2 DEF OutputsInv, Untouched, Written, FrontEnd, After
<1>9. CASE OpenVm
  <2>1. /\ num_of_files > 0 /\ Written(file - 1) /\ file \in 1 .. MaxFiles
        /\ vm' = [vm EXCEPT ![file] = "open"] /\ pc' = "generate"
        /\ UNCHANGED <<num_of_files, file>>
    BY <1>1, <1>9 DEF OutputsInv, OwnTypes, OpenVm, At
  <2>2. \A f \in 1 .. MaxFiles :
          vm'[f] = IF f < file THEN "complete" ELSE IF f = file THEN "open" ELSE "untouched"
    BY <1>1, <2>1 DEF OwnTypes, Written
  <2> QED
    BY <2>1, <2>2 DEF OutputsInv, FrontEnd, After
<1>10. CASE Generate
  <2>1. /\ num_of_files > 0 /\ file \in 1 .. num_of_files /\ num_of_files \in 0 .. MaxFiles
        /\ vm' = [vm EXCEPT ![file] = "complete"] /\ UNCHANGED num_of_files
        /\ \A f \in 1 .. MaxFiles :
             vm[f] = IF f < file THEN "complete" ELSE IF f = file THEN "open" ELSE "untouched"
    BY <1>1, <1>10 DEF OutputsInv, OwnTypes, Generate, At
  <2>2. \A f \in 1 .. MaxFiles : vm'[f] = IF f <= file THEN "complete" ELSE "untouched"
    BY <1>1, <2>1 DEF OwnTypes
  <2>3. CASE file < num_of_files
    <3>1. file' = file + 1 /\ pc' = "open"
      BY <1>10, <2>3 DEF Generate
    <3> QED
      BY <2>1, <2>2, <3>1 DEF OutputsInv, Written, FrontEnd, After
  <2>4. CASE ~(file < num_of_files)
    <3>1. file = num_of_files /\ pc' = "report"
      BY <1>10, <2>1, <2>4 DEF Generate
    <3> QED
      BY <2>1, <2>2, <3>1 DEF OutputsInv, Written, FrontEnd, After
  <2> QED
    BY <2>3, <2>4
<1> QED
  BY <1>2, <1>3, <1>4, <1>5, <1>6, <1>7, <1>8, <1>9, <1>10 DEF CNext

(* To the closed log nothing more happens than nested reports.             *)
LEMMA ClosedLogNests ==
  ASSUME CInv, Reporting, pc = "destroy"
  PROVE  /\ UNCHANGED <<arena, errors, printed>> /\ status' \in {"running", "overflowed"}
         /\ frames' # <<>> => LogP!Top'.pc = "message"
<1>1. /\ LogP!IInv /\ LogP!Reporting /\ arena = "destroyed"
      /\ status \in {"running", "overflowed"} /\ (frames # <<>> => LogP!Top.pc = "message")
  BY ReportingSame DEF CInv, ShownInv
<1>2. frames \in Seq(LogP!Frame) /\ Len(frames) \in Nat
  BY <1>1, LogShape
<1>3. LogP!Nest
  BY <1>1
     DEF LogP!Reporting, LogP!AllocMessage, LogP!AllocError, LogP!NoLine, LogP!AllocLine,
         LogP!Push, LogP!GrowthFails, LogP!PushAndExit, LogP!PushAndCrash, LogP!At, LogP!Granted
<1>4. UNCHANGED <<arena, errors, printed>> /\ LogP!ReportInside("INTERNAL")
      /\ status = "running"
  BY <1>3 DEF LogP!Nest
<1>5. CASE UNCHANGED frames /\ status' = "overflowed"
  BY <1>1, <1>4, <1>5 DEF LogP!Top
<1>6. CASE LogP!Call("INTERNAL", Static) /\ UNCHANGED status
  <2>1. frames' = Append(frames, [phase |-> "INTERNAL", owner |-> Static, pc |-> "message"])
    BY <1>6 DEF LogP!Call
  <2>2. frames'[Len(frames')].pc = "message"
    BY <1>2, <2>1
  <2> QED
    BY <1>1, <1>4, <1>6, <2>2 DEF LogP!Top
<1> QED
  BY <1>4, <1>5, <1>6 DEF LogP!ReportInside

LEMMA ShownInvariant ==
  ASSUME CInv, [CNext]_vars
  PROVE  ShownInv'
<1>1. LogP!IInv /\ ShownInv
  BY DEF CInv
<1>2. CASE UNCHANGED vars
  BY <1>1, <1>2 DEF ShownInv, LogP!Top, vars, logVars, ownVars
<1>3. CASE Reporting
  <2>1. UNCHANGED ownVars /\ frames # <<>>
    BY <1>1, <1>3, ReportingSame, ReportKeeps
  <2>2. CASE pc = "destroy"
    BY <1>1, <1>3, <2>1, <2>2, ClosedLogNests DEF ShownInv, ownVars, After
  <2>3. CASE pc # "destroy"
    BY <1>1, <2>1, <2>3 DEF ShownInv, ownVars, After
  <2> QED
    BY <2>2, <2>3
<1>4. CASE ParseError \/ SemanticError \/ CodegenError \/ LexNewline
  BY <1>4
     DEF ParseError, SemanticError, CodegenError, LexNewline, At, ShownInv, After, ownVars
<1>5. CASE \/ InitCompiler \/ InitLogger \/ FindJackFiles \/ LexFile \/ LexError
           \/ LexErrorReturns \/ ParseClass \/ FreeLexer \/ FreeLexerFails \/ Abort \/ Build
           \/ Analyze \/ OpenVm
  BY <1>5
     DEF ShownInv, After, InitCompiler, InitLogger, FindJackFiles, LexFile, LexError, At,
         LexErrorReturns, ParseClass, FreeLexer, FreeLexerFails, Abort, Build, Analyze, OpenVm
<1>6. CASE Gate \/ Generate
  BY <1>6 DEF ShownInv, After, Gate, Generate, At, Log!Idle, logVars
<1>7. CASE SystemError \/ DestroyIncomplete
  <2>1. CASE pc # "destroy"
    BY <1>7, <2>1 DEF SystemError, DestroyIncomplete, ShownInv, After, At, ownVars
  <2>2. CASE pc = "destroy"
    <3>1. Raises("INTERNAL", Static) /\ UNCHANGED ownVars
      BY <1>7, RaiseSame DEF SystemError, DestroyIncomplete
    <3>2. frames' = <<[phase |-> "INTERNAL", owner |-> Static, pc |-> "message"]>>
      BY <3>1 DEF Raises, LogP!Call
    <3>3. LogP!Top'.pc = "message"
      BY <3>2 DEF LogP!Top
    <3> QED
      BY <1>1, <2>2, <3>1, <3>3 DEF ShownInv, After, Raises, ownVars
  <2> QED
    BY <2>1, <2>2
<1>8. CASE Report \/ Close \/ CloseFails \/ Destroy
  <2>1. frames = <<>> /\ frames' = <<>> /\ status' = "running"
    BY <1>8 DEF Report, Close, CloseFails, Destroy, At, Log!Idle, Log!Report, Log!Close, logVars
  <2> QED
    BY <1>1, <1>8, <2>1
       DEF ShownInv, After, Report, Close, CloseFails, Destroy, At, Log!Report, Log!Close, logVars
<1> QED
  BY <1>2, <1>3, <1>4, <1>5, <1>6, <1>7, <1>8 DEF CNext

-----------------------------------------------------------------------------
LEMMA CInitInvariant == CInit => CInv
<1> SUFFICES ASSUME CInit PROVE CInv
  OBVIOUS
<1>1. LogP!IInv
  BY LogSizes, SameInit, LogP!InitInvariant DEF CInit
<1>2. /\ pc = "init" /\ num_of_files = 0 /\ file = 1 /\ error_code = FALSE
      /\ freed = {} /\ vm = [f \in 1 .. MaxFiles |-> "untouched"]
  BY DEF CInit
<1>3. OwnTypes
  <2>1. file \in 1 .. (IF num_of_files = 0 THEN 1 ELSE num_of_files)
    BY <1>2
  <2>2. num_of_files \in 0 .. MaxFiles
    BY <1>2, FilesAssumption
  <2>3. vm \in [1 .. MaxFiles -> {"untouched", "open", "complete"}]
    BY <1>2
  <2>4. pc \in Statements /\ error_code \in BOOLEAN
    BY <1>2 DEF Statements
  <2> QED
    BY <2>1, <2>2, <2>3, <2>4 DEF OwnTypes
<1>4. LexersInv
  BY <1>2 DEF LexersInv, Front
<1>5. OutputsInv
  BY <1>2 DEF OutputsInv, FrontEnd, Untouched, After
<1>6. ShownInv
  BY <1>2 DEF ShownInv, After
<1> QED
  BY <1>1, <1>3, <1>4, <1>5, <1>6 DEF CInv

LEMMA CStepInvariant == CInv /\ [CNext]_vars => CInv'
  BY LogInvariant, TypesInvariant, LexersInvariant, OutputsInvariant, ShownInvariant DEF CInv

(* The invariant of the driver.                                            *)
THEOREM DriverInvariant == CSpec => []CInv
  BY CInitInvariant, CStepInvariant, PTL DEF CSpec

(* Types of the driver and the log, for any number of files.               *)
THEOREM TypeCorrect == CSpec => []CTypeOK
<1>1. CInv => CTypeOK
  BY SameTypes, FilesAssumption
     DEF CInv, LogP!IInv, OwnTypes, LexersInv, CTypeOK, Owners, Static, Ast
<1> QED
  BY <1>1, DriverInvariant, PTL

(* Once printed, stderr has the errors of all phases, and keeps them in the*)
(* cleanup; without errors the outputs are complete                        *)
(* (refac_compiler.c:151-173).                                             *)
THEOREM EndsComplete == CSpec => []DoneIsComplete
<1>1. CInv => DoneIsComplete
  <2> SUFFICES ASSUME CInv, pc \in {"close", "destroy", "done", "crashed"}
               PROVE  /\ printed = errors
                      /\ Log!Shows(printed, IF frames = <<>> THEN Len(raised)
                                                            ELSE Len(raised) - 1)
                      /\ errors = <<>> => \A f \in 1 .. num_of_files : vm[f] = "complete"
    BY DEF DoneIsComplete
  <2>1. printed = errors /\ status \in {"running", "overflowed"}
    BY DEF CInv, ShownInv, After
  <2>3. Log!Shows(printed, IF frames = <<>> THEN Len(raised) ELSE Len(raised) - 1)
    <3>1. LogP!Logged /\ raised \in Seq(LogP!ErrorRecord)
      BY DEF CInv, LogP!IInv, LogP!TypeOK
    <3> QED
      BY <2>1, <3>1 DEF LogP!Logged, LogP!Shows, Log!Shows
  <2>2. ASSUME errors = <<>>, NEW f \in 1 .. num_of_files
        PROVE  vm[f] = "complete"
    <3>1. f \in 1 .. MaxFiles /\ f <= num_of_files /\ num_of_files # 0
      BY FilesAssumption, <2>2 DEF CInv, OwnTypes
    <3>2. Written(num_of_files)
      BY <2>2, <3>1 DEF CInv, OutputsInv, After
    <3> QED
      BY <3>1, <3>2 DEF Written
  <2> QED
    BY <2>1, <2>2, <2>3
<1> QED
  BY <1>1, DriverInvariant, PTL

(* At most one output is half written, and those before it are complete,   *)
(* whatever ends the process (refac_compiler.c:154-163).                   *)
THEOREM OutputsAreInOrder == CSpec => []OutputsInOrder
<1>1. CInv => OutputsInOrder
  <2> SUFFICES ASSUME CInv, NEW f \in 1 .. MaxFiles, NEW g \in 1 .. MaxFiles,
                      f < g, vm[g] # "untouched"
               PROVE  vm[f] = "complete"
    BY DEF OutputsInOrder
  <2>1. OutputsInv /\ pc \in Statements /\ num_of_files \in Nat /\ file \in Nat
    BY FilesAssumption DEF CInv, OwnTypes
  <2>2. ~Untouched
    BY DEF Untouched
  <2>3. pc \in {"open", "generate"} \union After
    BY <2>1, <2>2 DEF OutputsInv, Statements, FrontEnd, After
  <2>4. ASSUME NEW n \in Int, Written(n) PROVE vm[f] = "complete"
    BY <2>4, FilesAssumption DEF Written
  <2>5. CASE pc = "open"
    BY <2>1, <2>4, <2>5 DEF OutputsInv
  <2>6. CASE pc = "generate"
    BY <2>1, <2>6, FilesAssumption DEF OutputsInv
  <2>7. CASE pc \in After
    BY <2>1, <2>2, <2>4, <2>7 DEF OutputsInv
  <2> QED
    BY <2>3, <2>5, <2>6, <2>7
<1> QED
  BY <1>1, DriverInvariant, PTL

(* The name an error of the lexer or the parser is reported with is that   *)
(* of a lexer not yet destroyed (refac_lexer.c:191).                       *)
THEOREM NamesAreLive == CSpec => []NamesLiveInFrontEnd
<1>1. CInv => NamesLiveInFrontEnd
  <2> SUFFICES ASSUME CInv, pc \in {"lex", "lexed", "parse"}, NEW k \in 1 .. Len(frames)
               PROVE  frames[k].owner \notin freed
    BY DEF NamesLiveInFrontEnd
  <2>1. file \notin freed /\ 0 \notin freed
    BY FilesAssumption DEF CInv, OwnTypes, LexersInv, Front
  <2>2. frames[k].owner \in {0, file}
    BY DEF CInv, LexersInv, Static, LexerOf
  <2> QED
    BY <2>1, <2>2
<1> QED
  BY <1>1, DriverInvariant, PTL

(* No output is touched once an error of the front end is logged: the gate *)
(* of refac_compiler.c:151, by a count of all files and phases.            *)
THEOREM ErrorsKeepOutputs == CSpec => NoCodeFromErrors
<1> DEFINE Kept == errors # <<>> /\ Opened = {} /\ pc \notin {"open", "generate"}
<1>1. CInv /\ pc \in FrontEnd /\ errors # <<>> => Kept
  BY DEF CInv, OutputsInv, Untouched, Opened, FrontEnd
<1>2. Kept => Opened = {}
  OBVIOUS
<1>3. CInv /\ Kept /\ [CNext]_vars => Kept'
  <2> SUFFICES ASSUME CInv, Kept, [CNext]_vars PROVE Kept'
    OBVIOUS
  <2>1. errors' # <<>>
    <3>1. CASE Reporting
      BY <3>1, ReportingSame, ReportKeeps DEF CInv
    <3>2. CASE ~Reporting
      BY <3>2
         DEF CNext, vars, logVars, InitCompiler, InitLogger, SystemError, FindJackFiles,
             LexNewline, LexFile, LexError, LexErrorReturns, ParseError, ParseClass, Abort,
             FreeLexer, FreeLexerFails, SemanticError, Build, Analyze, Gate, OpenVm,
             CodegenError, Generate, Report, Close, CloseFails, Destroy, DestroyIncomplete,
             Log!Initialize, Log!Raise,
             Log!TakeOffset, Log!OffsetRefused, Log!Report, Log!Close
    <3> QED
      BY <3>1, <3>2
  <2>2. UNCHANGED vm /\ pc' \notin {"open", "generate"}
    BY DEF CNext, vars, ownVars, InitCompiler, InitLogger, SystemError, FindJackFiles,
           LexNewline, LexFile, LexError, LexErrorReturns, ParseError, ParseClass, Abort,
           FreeLexer, FreeLexerFails, SemanticError, Build, Analyze, Gate, OpenVm,
           CodegenError, Generate, Report, Close, CloseFails, Destroy, DestroyIncomplete,
           Reporting, At
  <2> QED
    BY <2>1, <2>2 DEF Opened
<1> QED
  BY <1>1, <1>2, <1>3, DriverInvariant, PTL DEF CSpec, NoCodeFromErrors

(* An exit from anywhere in the compiler has shown every error that any    *)
(* phase reported, but for the last one if its report was interrupted.     *)
THEOREM ExitsShowAll == CSpec => []Log!ExitShowsAll
<1>1. CInv => Log!ExitShowsAll
  BY DEF CInv, LogP!IInv, LogP!ExitShowsAll, Log!ExitShowsAll, LogP!Shows, Log!Shows
<1> QED
  BY <1>1, DriverInvariant, PTL
=============================================================================
