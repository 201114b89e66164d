------------------------------ MODULE ErrorLog ------------------------------
(***************************************************************************)
(* The error log of src/util/logger.c and src/util/error.c.  Everything an *)
(* error record needs is allocated from loggerArena, and a refused         *)
(* allocation is itself reported: arena_alloc calls log_error_internal,    *)
(* which allocates.  So is a failed growth of errorVector (vector.c:179),  *)
(* from inside the push.  A report is therefore a stack of activations of  *)
(* log_error_internal, each at its own program point.                      *)
(*                                                                         *)
(* An error is abstracted to what decides its fate, whether its phase is   *)
(* INTERNAL, and to the storage its file name lives in.                    *)
(***************************************************************************)
EXTENDS Integers, Sequences

CONSTANTS
  Page, Align, Base, Pages,   (* loggerArena, see module Arena              *)
  MessageSize,                (* 256, the room for a formatted message      *)
  ErrorSize,                  (* sizeof(PhasedError)                        *)
  OffsetSize,                 (* sizeof(size_t), what a newline takes       *)
  LineSizes,                  (* lengths of quoted source lines, plus 1     *)
  Owners,                     (* the storage classes of file names          *)
  Static,                     (* ... that of a __FILE__ literal             *)
  InitialCapacity,            (* of errorVector, 4 in the code              *)
  StackDepth                  (* bound: activations the C stack holds       *)

ASSUME SizeAssumption ==
  /\ Page \in Nat \ {0} /\ Align \in Nat \ {0}
  /\ Base \in Nat /\ Pages \in Nat \ {0}
  /\ MessageSize \in Nat \ {0} /\ ErrorSize \in Nat \ {0}
  /\ OffsetSize \in Nat \ {0}
  /\ LineSizes \subseteq 1 .. MessageSize
  /\ Static \in Owners
  /\ InitialCapacity \in Nat \ {0, 1}
  /\ StackDepth \in Nat \ {0}

VARIABLES
  current, committed_end,   (* the fields of loggerArena                    *)
  arena,      (* loggerArena: "none" until it is initialized, "null" if that
                 failed, "live", or "destroyed"                             *)
  frames,     (* activations of log_error_internal, innermost last          *)
  errors,     (* errorVector                                                *)
  capacity,   (* ... and its capacity                                       *)
  printed,    (* what print_all_errors wrote to stderr                      *)
  raised,     (* history: the errors that clients reported                  *)
  status      (* "running", "exited" by log_error_internal, "overflowed" by
                 the stack, "crashed" on what a failed growth leaves        *)

logVars ==
  <<current, committed_end, arena, frames, errors, capacity, printed, raised, status>>

Store == INSTANCE Arena WITH
  Sizes <- {MessageSize, ErrorSize, OffsetSize} \union LineSizes,
  start <- Base, reserved_end <- Base + Pages * Page, mapped <- TRUE,
  phase <- arena, blocks <- {}

Phases == {"INTERNAL", "SOURCE"}

(* The last cell of a block that did not grow: counted, never written.     *)
Unwritten == [phase |-> "UNWRITTEN", owner |-> Static]

-----------------------------------------------------------------------------
Init ==
  /\ current = Base /\ committed_end = Base
  /\ arena = "none"
  /\ frames = <<>> /\ errors = <<>> /\ printed = <<>> /\ raised = <<>>
  /\ capacity = InitialCapacity
  /\ status = "running"

Top == frames[Len(frames)]

At(point) == status = "running" /\ frames # <<>> /\ Top.pc = point

Idle == status = "running" /\ frames = <<>>

Goto(point) == frames' = [frames EXCEPT ![Len(frames)].pc = point]

(* A call of log_error_internal.                                           *)
Call(phase, owner) ==
  frames' = Append(frames, [phase |-> phase, owner |-> owner, pc |-> "message"])

(* arena_alloc(loggerArena, size): granted, or refused because the arena   *)
(* is NULL, is full, or the kernel does not commit.  The refusal has moved *)
(* the cursor in the last case.                                            *)
Granted(size) ==
  /\ arena = "live"
  /\ Store!Fits(size)
  /\ current' = Store!Cursor + size
  /\ committed_end' = Store!CommitEnd(size)

Refused(size) ==
  /\ UNCHANGED committed_end
  /\ \/ arena # "live" /\ UNCHANGED current
     \/ arena = "live" /\ ~Store!Fits(size) /\ UNCHANGED current
     \/ /\ arena = "live" /\ Store!Fits(size)
        /\ Store!CommitEnd(size) # committed_end
        /\ current' = Store!Cursor

-----------------------------------------------------------------------------
(* initialize_logger_arena; it does not look at what init_arena returned.  *)
Initialize ==
  /\ Idle /\ arena = "none"
  /\ arena' \in {"live", "null"}
  /\ UNCHANGED <<current, committed_end, frames, errors, capacity, printed, raised, status>>

(* log_error_with_offset or log_error_no_offset, called by a client.       *)
Raise(phase, owner) ==
  /\ Idle
  /\ Call(phase, owner)
  /\ raised' = Append(raised, [phase |-> phase, owner |-> owner])
  /\ UNCHANGED <<current, committed_end, arena, errors, capacity, printed, status>>

(* The lexer takes the offset of a newline from the same arena.            *)
TakeOffset ==
  /\ Idle /\ arena = "live"
  /\ Granted(OffsetSize)
  /\ UNCHANGED <<arena, frames, errors, capacity, printed, raised, status>>

OffsetRefused ==
  /\ Idle /\ arena \in {"live", "null"}
  /\ Refused(OffsetSize)
  /\ Call("INTERNAL", Static)
  /\ raised' = Append(raised, [phase |-> "INTERNAL", owner |-> Static])
  /\ UNCHANGED <<arena, errors, capacity, printed, status>>

(* The allocations of log_error_internal, in order.  A line is read only   *)
(* for an error of the source, if the file can be opened.                  *)
AllocMessage ==
  /\ At("message")
  /\ Granted(MessageSize)
  /\ Goto("error")
  /\ UNCHANGED <<arena, errors, capacity, printed, raised, status>>

AllocError ==
  /\ At("error")
  /\ Granted(ErrorSize)
  /\ Goto(IF Top.phase = "INTERNAL" THEN "push" ELSE "line")
  /\ UNCHANGED <<arena, errors, capacity, printed, raised, status>>

AllocLine(size) ==
  /\ At("line")
  /\ Granted(size)
  /\ Goto("push")
  /\ UNCHANGED <<arena, errors, capacity, printed, raised, status>>

NoLine ==
  /\ At("line")
  /\ Goto("push")
  /\ UNCHANGED <<current, committed_end, arena, errors, capacity, printed, raised, status>>

Wanted ==
  CASE Top.pc = "message" -> {MessageSize}
    [] Top.pc = "error" -> {ErrorSize}
    [] Top.pc = "line" -> LineSizes
    [] OTHER -> {}

(* Mutant: a refused allocation is tried again by the same activation.     *)
NestRetries ==
  /\ status = "running" /\ frames # <<>>
  /\ \E size \in Wanted : Refused(size)
  /\ Goto(Top.pc)
  /\ UNCHANGED <<arena, errors, capacity, printed, raised, status>>

(* An error is reported from inside the report, as long as the stack has   *)
(* room for one more activation.                                           *)
ReportInside(phase) ==
  IF Len(frames) < StackDepth
  THEN Call(phase, Static) /\ UNCHANGED status
  ELSE status' = "overflowed" /\ UNCHANGED frames

(* Mutant: a refused allocation is reported as an error of the source.     *)
NestAsSource ==
  /\ status = "running" /\ frames # <<>>
  /\ \E size \in Wanted : Refused(size)
  /\ ReportInside("SOURCE")
  /\ UNCHANGED <<arena, errors, capacity, printed, raised>>

(* A refused allocation.                                                   *)
Nest ==
  /\ status = "running" /\ frames # <<>>
  /\ \E size \in Wanted : Refused(size)
  /\ ReportInside("INTERNAL")
  /\ UNCHANGED <<arena, errors, capacity, printed, raised>>

Entry == [phase |-> Top.phase, owner |-> Top.owner]

(* extend_if_necessary, called when the size counts the new error already. *)
MustGrow == Len(errors) + 1 >= capacity

GrownCapacity == IF MustGrow THEN 2 * capacity ELSE capacity

(* push_error, for an error of the source: the report is over.             *)
Push ==
  /\ At("push")
  /\ Top.phase # "INTERNAL"
  /\ errors' = Append(errors, Entry) /\ capacity' = GrownCapacity
  /\ frames' = SubSeq(frames, 1, Len(frames) - 1)
  /\ UNCHANGED <<current, committed_end, arena, printed, raised, status>>

(* Mutants: an error that the vector has no room for is dropped; an error  *)
(* raised while reporting another only returns to it.                      *)
GrowthFailsSilently ==
  /\ At("push")
  /\ MustGrow
  /\ frames' = SubSeq(frames, 1, Len(frames) - 1)
  /\ UNCHANGED <<current, committed_end, arena, errors, capacity, printed, raised, status>>

PushAndExitAtTop ==
  /\ At("push")
  /\ Top.phase = "INTERNAL"
  /\ errors' = Append(errors, Entry) /\ capacity' = GrownCapacity
  /\ IF Len(frames) = 1
     THEN printed' = errors' /\ status' = "exited" /\ UNCHANGED frames
     ELSE /\ frames' = SubSeq(frames, 1, Len(frames) - 1)
          /\ UNCHANGED <<printed, status>>
  /\ UNCHANGED <<current, committed_end, arena, raised>>

(* realloc fails when size and capacity count the new error already; that  *)
(* is reported from inside the push, and the error never gets its cell.    *)
GrowthFails ==
  /\ At("push")
  /\ MustGrow
  /\ errors' = Append(errors, Unwritten) /\ capacity' = 2 * capacity
  /\ ReportInside("INTERNAL")
  /\ UNCHANGED <<current, committed_end, arena, printed, raised>>

(* An INTERNAL error prints everything logged so far and ends the process. *)
(* If a growth has failed, it is written one cell behind the block.        *)
PushAndExit ==
  /\ At("push")
  /\ Top.phase = "INTERNAL"
  /\ errors' = Append(errors, Entry) /\ capacity' = GrownCapacity
  /\ printed' = errors'
  /\ status' = "exited"
  /\ UNCHANGED <<current, committed_end, arena, frames, raised>>

(* That write, the reading of the cell never written, or the summary, which*)
(* reads it again, may also end the process at any point of the printing.  *)
PushAndCrash ==
  /\ At("push")
  /\ Top.phase = "INTERNAL"
  /\ \E i \in 1 .. Len(errors) : errors[i] = Unwritten
  /\ errors' = Append(errors, Entry) /\ capacity' = GrownCapacity
  /\ \E n \in 0 .. Len(errors') : printed' = SubSeq(errors', 1, n)
  /\ status' = "crashed"
  /\ UNCHANGED <<current, committed_end, arena, frames, raised>>

(* print_all_errors and print_error_summary at the end of a compilation.   *)
Report ==
  /\ Idle /\ arena \in {"live", "null"} /\ printed = <<>>
  /\ printed' = errors
  /\ UNCHANGED <<current, committed_end, arena, frames, errors, capacity, raised, status>>

(* Mutant: the arena is left for what may still be reported.               *)
CloseKeepsArena ==
  /\ Idle /\ arena \in {"live", "null"}
  /\ UNCHANGED logVars

(* close_log_file destroys the vector and the arena.                       *)
Close ==
  /\ Idle /\ arena \in {"live", "null"}
  /\ arena' = "destroyed"
  /\ UNCHANGED <<current, committed_end, frames, errors, capacity, printed, raised, status>>

(* A report under way.                                                     *)
Reporting ==
  \/ AllocMessage \/ AllocError \/ NoLine \/ Nest
  \/ Push \/ GrowthFails \/ PushAndExit \/ PushAndCrash
  \/ \E size \in LineSizes : AllocLine(size)

Next ==
  \/ Initialize
  \/ \E phase \in Phases, owner \in Owners : Raise(phase, owner)
  \/ TakeOffset \/ OffsetRefused
  \/ Reporting
  \/ Report \/ Close

Spec == Init /\ [][Next]_logVars /\ WF_logVars(Reporting)

-----------------------------------------------------------------------------
Points == {"message", "error", "line", "push"}
Frame == [phase : Phases, owner : Owners, pc : Points]
ErrorRecord == [phase : Phases, owner : Owners]
Cell == ErrorRecord \union {Unwritten}

(* Types of the state, and the shape of the stack: what is reported from   *)
(* inside a report is INTERNAL, and no line is read for an INTERNAL error. *)
TypeOK ==
  /\ current \in Nat /\ committed_end \in Nat
  /\ arena \in {"none", "null", "live", "destroyed"}
  /\ frames \in Seq(Frame) /\ Len(frames) <= StackDepth
  /\ \A i \in 1 .. Len(frames) :
       /\ i > 1 => frames[i].phase = "INTERNAL"
       /\ frames[i].phase = "INTERNAL" => frames[i].pc # "line"
  /\ errors \in Seq(Cell) /\ printed \in Seq(Cell) /\ raised \in Seq(ErrorRecord)
  /\ capacity \in Nat \ {0, 1}
  /\ status \in {"running", "exited", "overflowed", "crashed"}

(* Nothing is logged after an INTERNAL error: "panics" means the process   *)
(* is gone (logger.c:100-104), however deep the report was nested.         *)
InternalIsLast ==
  \A i \in 1 .. Len(errors) :
    errors[i].phase = "INTERNAL" => i = Len(errors) /\ status \in {"exited", "crashed"}

(* The first n errors that clients reported are the first of the list.     *)
Shows(list, n) ==
  n <= Len(list) /\ \A i \in 1 .. n : list[i] = raised[i]

(* A process ended by the log has shown, in order, every error that was    *)
(* ever reported to it, though reports be interrupted by refused           *)
(* allocations and failed growths (logger.c:69-104, vector.c:174-190): only*)
(* the last one is lost if its report was; and then, as always, an INTERNAL*)
(* error is what is shown last.                                            *)
ExitShowsAll ==
  status = "exited" =>
    /\ Shows(printed, IF Len(frames) = 1 THEN Len(raised) ELSE Len(raised) - 1)
    /\ printed # <<>> /\ printed[Len(printed)].phase = "INTERNAL"

(* An activation that was interrupted by a report of its own is never      *)
(* resumed: no caller of arena_alloc(loggerArena, ...) sees the NULL that  *)
(* the code would return, and none of them tests for it.                   *)
NeverResumed ==
  [][ Len(frames') < Len(frames) => Len(frames) = 1 ]_logVars

(* A report does not hang: it returns to its caller or ends the process,   *)
(* in the worst case by using up the stack.                                *)
ReportEnds == frames # <<>> ~> (frames = <<>> \/ status # "running")

(* README, Error Handling: "Errors are reported".  Whatever ends the       *)
(* process, the errors logged are on stderr.  It does not hold: a full     *)
(* loggerArena is reported through itself.                                 *)
ErrorsAreReported ==
  status # "running" => printed = errors
=============================================================================
