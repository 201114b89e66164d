--------------------------- MODULE ErrorLogProofs ---------------------------
(***************************************************************************)
(* Proofs about the error log, for every size of the arena, of the records *)
(* and of the stack.                                                       *)
(***************************************************************************)
EXTENDS ErrorLog, SequenceTheorems, TLAPS

(* What is in the vector while the process runs: the errors that clients   *)
(* reported, except the one whose report is under way; after a growth has  *)
(* failed also the cell of that one.                                       *)
Logged ==
  status \in {"running", "overflowed"} =>
    IF frames = <<>> THEN errors = raised
    ELSE /\ raised # <<>>
         /\ raised[Len(raised)] = [phase |-> frames[1].phase, owner |-> frames[1].owner]
         /\ Shows(errors, Len(raised) - 1)
         /\ Len(frames) = 1 /\ status = "running" => Len(errors) = Len(raised) - 1

IInv == TypeOK /\ InternalIsLast /\ ExitShowsAll /\ Logged

-----------------------------------------------------------------------------
LEMMA RoundUpIsNat ==
  ASSUME NEW n \in Nat, NEW a \in Nat \ {0}
  PROVE  Store!RoundUp(n, a) \in Nat
<1>1. (n + a - 1) \div a \in Nat
  OBVIOUS
<1> QED
  BY <1>1 DEF Store!RoundUp

(* An allocation, granted or not, keeps the cursor and the commit end      *)
(* natural numbers.                                                        *)
LEMMA AllocTypes ==
  ASSUME TypeOK, NEW size \in Nat, Granted(size) \/ Refused(size)
  PROVE  current' \in Nat /\ committed_end' \in Nat
<1>1. current \in Nat /\ committed_end \in Nat
  BY DEF TypeOK
<1>2. Store!Cursor \in Nat
  BY <1>1, RoundUpIsNat, SizeAssumption DEF Store!Cursor
<1>3. Store!CommitEnd(size) \in Nat
  <2>1. CASE Store!Cursor + size > committed_end
    <3>1. Store!Cursor + size - committed_end \in Nat
      BY <1>1, <1>2, <2>1
    <3>2. Store!RoundUp(Store!Cursor + size - committed_end, Page) \in Nat
      BY <3>1, RoundUpIsNat, SizeAssumption
    <3> QED
      BY <1>1, <2>1, <3>2 DEF Store!CommitEnd
  <2>2. CASE ~(Store!Cursor + size > committed_end)
    BY <1>1, <2>2 DEF Store!CommitEnd
  <2> QED
    BY <2>1, <2>2
<1> QED
  BY <1>1, <1>2, <1>3 DEF Granted, Refused

LEMMA Sizes ==
  /\ MessageSize \in Nat /\ ErrorSize \in Nat /\ OffsetSize \in Nat
  /\ LineSizes \subseteq Nat
  BY SizeAssumption

(* The innermost activation of a stack that is not empty.                  *)
LEMMA TopFacts ==
  ASSUME TypeOK, frames # <<>>
  PROVE  /\ Len(frames) \in Nat \ {0} /\ Len(frames) \in 1 .. Len(frames)
         /\ Top \in Frame
         /\ Len(frames) > 1 => Top.phase = "INTERNAL"
<1>1. frames \in Seq(Frame) /\ Len(frames) \in Nat \ {0}
  BY DEF TypeOK
<1>2. Len(frames) \in 1 .. Len(frames)
  BY <1>1
<1> QED
  BY <1>1, <1>2, ElementOfSeq DEF Top, TypeOK

(* A call adds an activation to a stack with room for it.                  *)
LEMMA CallTypes ==
  ASSUME TypeOK, NEW phase \in Phases, NEW owner \in Owners,
         Len(frames) < StackDepth, Call(phase, owner),
         frames = <<>> \/ phase = "INTERNAL"
  PROVE  /\ frames' \in Seq(Frame) /\ Len(frames') <= StackDepth
         /\ Len(frames') = Len(frames) + 1
         /\ \A i \in 1 .. Len(frames) : frames'[i] = frames[i]
         /\ frames'[Len(frames')].phase = phase /\ frames'[Len(frames')].owner = owner
         /\ \A i \in 1 .. Len(frames') :
              /\ i > 1 => frames'[i].phase = "INTERNAL"
              /\ frames'[i].phase = "INTERNAL" => frames'[i].pc # "line"
<1> DEFINE new == [phase |-> phase, owner |-> owner, pc |-> "message"]
<1>1. frames \in Seq(Frame) /\ Len(frames) \in Nat
  BY DEF TypeOK
<1>2. new \in Frame
  BY DEF Frame, Points
<1>3. frames' = Append(frames, new)
  BY DEF Call
<1>4. new.phase = phase /\ new.owner = owner /\ new.pc = "message"
  OBVIOUS
<1> HIDE DEF new
<1>5. /\ frames' \in Seq(Frame) /\ Len(frames') = Len(frames) + 1
      /\ \A i \in 1 .. Len(frames) : frames'[i] = frames[i]
      /\ frames'[Len(frames) + 1] = new
  BY <1>1, <1>2, <1>3
<1>6. Len(frames') <= StackDepth
  BY <1>1, <1>5, SizeAssumption
<1>7. ASSUME NEW i \in 1 .. Len(frames')
      PROVE  /\ i > 1 => frames'[i].phase = "INTERNAL"
             /\ frames'[i].phase = "INTERNAL" => frames'[i].pc # "line"
  <2>1. CASE i = Len(frames) + 1
    <3>1. i > 1 => frames # <<>>
      BY <2>1, <1>1
    <3> QED
      BY <1>1, <1>4, <1>5, <2>1, <3>1
  <2>2. CASE i \in 1 .. Len(frames)
    BY <1>5, <2>2 DEF TypeOK
  <2> QED
    BY <1>1, <1>5, <2>1, <2>2
<1> QED
  BY <1>4, <1>5, <1>6, <1>7

(* Moving the innermost activation to another point.                       *)
LEMMA GotoTypes ==
  ASSUME TypeOK, frames # <<>>, NEW point \in Points, Goto(point),
         point = "line" => Top.phase # "INTERNAL"
  PROVE  /\ frames' \in Seq(Frame) /\ Len(frames') = Len(frames) /\ frames' # <<>>
         /\ frames'[1].phase = frames[1].phase /\ frames'[1].owner = frames[1].owner
         /\ \A i \in 1 .. Len(frames') :
              /\ i > 1 => frames'[i].phase = "INTERNAL"
              /\ frames'[i].phase = "INTERNAL" => frames'[i].pc # "line"
<1> DEFINE n == Len(frames)
           new == [Top EXCEPT !.pc = point]
<1>1. n \in 1 .. n /\ 1 \in 1 .. n /\ Top \in Frame /\ frames \in Seq(Frame)
  BY TopFacts DEF TypeOK
<1>2. frames' = [frames EXCEPT ![n] = new]
  BY <1>1 DEF Goto, Top
<1>3. new \in Frame /\ new.phase = Top.phase /\ new.owner = Top.owner /\ new.pc = point
  BY <1>1 DEF Frame
<1> HIDE DEF new
<1>4. /\ frames' \in Seq(Frame) /\ Len(frames') = Len(frames)
      /\ \A i \in 1 .. n : frames'[i] = IF i = n THEN new ELSE frames[i]
  BY <1>1, <1>2, <1>3, ExceptSeq
<1>5. ASSUME NEW i \in 1 .. n
      PROVE  /\ i > 1 => frames'[i].phase = "INTERNAL"
             /\ frames'[i].phase = "INTERNAL" => frames'[i].pc # "line"
  BY <1>1, <1>3, <1>4 DEF TypeOK, Top
<1>6. frames'[1].phase = frames[1].phase /\ frames'[1].owner = frames[1].owner
  BY <1>1, <1>3, <1>4 DEF Top
<1>7. frames' # <<>>
  BY <1>1, <1>4
<1> QED
  BY <1>4, <1>5, <1>6, <1>7

(* A report from inside a report leaves the outermost activation.          *)
LEMMA InsideTypes ==
  ASSUME TypeOK, frames # <<>>, status = "running", ReportInside("INTERNAL")
  PROVE  /\ frames' \in Seq(Frame) /\ Len(frames') <= StackDepth /\ frames' # <<>>
         /\ frames'[1] = frames[1]
         /\ \A i \in 1 .. Len(frames') :
              /\ i > 1 => frames'[i].phase = "INTERNAL"
              /\ frames'[i].phase = "INTERNAL" => frames'[i].pc # "line"
         /\ \/ status' = "running" /\ Len(frames') = Len(frames) + 1
            \/ status' = "overflowed" /\ frames' = frames
<1>1. Len(frames) \in Nat \ {0} /\ 1 \in 1 .. Len(frames)
  BY TopFacts
<1>2. "INTERNAL" \in Phases /\ Static \in Owners
  BY SizeAssumption DEF Phases
<1>3. CASE Len(frames) < StackDepth
  <2>1. Call("INTERNAL", Static) /\ UNCHANGED status
    BY <1>3 DEF ReportInside
  <2>2. /\ frames' \in Seq(Frame) /\ Len(frames') <= StackDepth
        /\ Len(frames') = Len(frames) + 1
        /\ frames'[1] = frames[1]
        /\ \A i \in 1 .. Len(frames') :
              /\ i > 1 => frames'[i].phase = "INTERNAL"
              /\ frames'[i].phase = "INTERNAL" => frames'[i].pc # "line"
    BY <1>1, <1>2, <1>3, <2>1, CallTypes
  <2>3. frames' # <<>>
    BY <1>1, <2>2
  <2> QED
    BY <2>1, <2>2, <2>3
<1>4. CASE ~(Len(frames) < StackDepth)
  <2>1. frames' = frames /\ status' = "overflowed"
    BY <1>4 DEF ReportInside
  <2> QED
    BY <2>1 DEF TypeOK
<1> QED
  BY <1>3, <1>4

-----------------------------------------------------------------------------
LEMMA InitInvariant == Init => IInv
<1> SUFFICES ASSUME Init PROVE IInv
  OBVIOUS
<1>1. TypeOK
  BY SizeAssumption DEF Init, TypeOK, Frame, Cell, ErrorRecord
<1>2. InternalIsLast /\ ExitShowsAll /\ Logged
  BY DEF Init, InternalIsLast, ExitShowsAll, Logged
<1> QED
  BY <1>1, <1>2 DEF IInv

(* A client's report: the error is reported, and nothing yet done about it.*)
LEMMA RaiseInvariant ==
  ASSUME IInv, Idle, NEW phase \in Phases, NEW owner \in Owners, Call(phase, owner),
         raised' = Append(raised, [phase |-> phase, owner |-> owner]),
         UNCHANGED <<arena, errors, capacity, printed, status>>,
         current' \in Nat, committed_end' \in Nat
  PROVE  IInv'
<1>1. TypeOK /\ InternalIsLast /\ Logged /\ frames = <<>> /\ status = "running"
  BY DEF IInv, Idle
<1>2. Len(frames) = 0 /\ 0 < StackDepth
  BY <1>1, SizeAssumption
<1>3. /\ frames' \in Seq(Frame) /\ Len(frames') <= StackDepth /\ Len(frames') = 1
      /\ frames'[1].phase = phase /\ frames'[1].owner = owner
      /\ \A i \in 1 .. Len(frames') :
           /\ i > 1 => frames'[i].phase = "INTERNAL"
           /\ frames'[i].phase = "INTERNAL" => frames'[i].pc # "line"
  BY <1>1, <1>2, CallTypes
<1> DEFINE new == [phase |-> phase, owner |-> owner]
<1>4. new \in ErrorRecord
  BY DEF ErrorRecord
<1>5. errors = raised /\ raised \in Seq(ErrorRecord)
  BY <1>1 DEF Logged, TypeOK
<1>6. /\ raised' \in Seq(ErrorRecord) /\ raised' # <<>>
      /\ raised'[Len(raised')] = new /\ Len(raised') - 1 = Len(errors')
      /\ \A i \in 1 .. Len(raised') - 1 : errors'[i] = raised'[i]
  <2> HIDE DEF new
  <2>1. raised' = Append(raised, new) /\ errors' = raised
    BY <1>5 DEF new
  <2> QED
    BY <1>4, <1>5, <2>1
<1>7. TypeOK'
  BY <1>1, <1>3, <1>6 DEF TypeOK
<1>8. Logged'
  <2>1. frames' # <<>>
    <3>1. Len(frames') # 0
      BY <1>3
    <3>2. Len(<<>>) = 0
      OBVIOUS
    <3> QED
      BY <3>1, <3>2, Zenon
  <2>2. Shows(errors, Len(raised) - 1)'
    <3>1. Len(raised') - 1 <= Len(errors')
      BY <1>5, <1>6
    <3> QED
      BY <1>6, <3>1 DEF Shows
  <2> QED
    BY <1>3, <1>6, <2>1, <2>2 DEF Logged
<1>9. InternalIsLast' /\ ExitShowsAll'
  BY <1>1 DEF InternalIsLast, ExitShowsAll
<1> QED
  BY <1>7, <1>8, <1>9 DEF IInv

(* The calls a client makes, on an empty stack.                            *)
LEMMA ClientInvariant ==
  ASSUME IInv,
         \/ Initialize \/ TakeOffset \/ OffsetRefused
         \/ \E phase \in Phases, owner \in Owners : Raise(phase, owner)
         \/ Report \/ Close
  PROVE  IInv'
<1>1. TypeOK /\ InternalIsLast /\ Logged /\ Idle /\ frames = <<>> /\ status = "running"
  BY DEF IInv, Initialize, TakeOffset, OffsetRefused, Raise, Report, Close, Idle
<1>2. CASE OffsetRefused
  <2>1. current' \in Nat /\ committed_end' \in Nat
    BY <1>1, <1>2, AllocTypes, Sizes DEF OffsetRefused
  <2>2. "INTERNAL" \in Phases /\ Static \in Owners
    BY SizeAssumption DEF Phases
  <2> QED
    BY <1>2, <2>1, <2>2, RaiseInvariant DEF OffsetRefused
<1>3. CASE \E phase \in Phases, owner \in Owners : Raise(phase, owner)
  <2>1. PICK phase \in Phases, owner \in Owners : Raise(phase, owner)
    BY <1>3
  <2>2. current' \in Nat /\ committed_end' \in Nat
    BY <1>1, <2>1 DEF Raise, TypeOK
  <2> QED
    BY <2>1, <2>2, RaiseInvariant DEF Raise
<1>4. CASE Initialize \/ TakeOffset \/ Report \/ Close
  <2>1. /\ UNCHANGED <<frames, errors, capacity, raised, status>>
        /\ arena' \in {"none", "null", "live", "destroyed"}
        /\ printed' \in {printed, errors}
    BY <1>1, <1>4 DEF Initialize, TakeOffset, Report, Close, TypeOK
  <2>2. current' \in Nat /\ committed_end' \in Nat
    <3>1. CASE TakeOffset
      BY <1>1, <3>1, AllocTypes, Sizes DEF TakeOffset
    <3>2. CASE Initialize \/ Report \/ Close
      BY <1>1, <3>2 DEF Initialize, Report, Close, TypeOK
    <3> QED
      BY <1>4, <3>1, <3>2
  <2>3. TypeOK'
    BY <1>1, <2>1, <2>2 DEF TypeOK
  <2>4. InternalIsLast' /\ ExitShowsAll' /\ Logged'
    BY <1>1, <2>1 DEF InternalIsLast, ExitShowsAll, Logged, Shows
  <2> QED
    BY <2>3, <2>4 DEF IInv
<1> QED
  BY <1>2, <1>3, <1>4

(* The steps of a report that leave the errors alone.                      *)
LEMMA AllocInvariant ==
  ASSUME IInv,
         \/ AllocMessage \/ AllocError \/ NoLine
         \/ \E size \in LineSizes : AllocLine(size)
  PROVE  IInv'
<1>1. /\ TypeOK /\ InternalIsLast /\ Logged /\ frames # <<>> /\ status = "running"
      /\ UNCHANGED <<arena, errors, capacity, printed, raised, status>>
  BY DEF IInv, At, AllocMessage, AllocError, NoLine, AllocLine
<1>2. current' \in Nat /\ committed_end' \in Nat
  <2>1. CASE AllocMessage \/ AllocError
    BY <1>1, <2>1, AllocTypes, Sizes DEF AllocMessage, AllocError
  <2>2. CASE \E size \in LineSizes : AllocLine(size)
    BY <1>1, <2>2, AllocTypes, Sizes DEF AllocLine
  <2>3. CASE NoLine
    BY <1>1, <2>3 DEF NoLine, TypeOK
  <2> QED
    BY <2>1, <2>2, <2>3
<1>3. PICK point \in Points : /\ Goto(point)
                              /\ point = "line" => Top.phase # "INTERNAL"
  BY DEF AllocMessage, AllocError, NoLine, AllocLine, Points
<1>4. /\ frames' \in Seq(Frame) /\ Len(frames') = Len(frames) /\ frames' # <<>>
      /\ frames'[1].phase = frames[1].phase /\ frames'[1].owner = frames[1].owner
      /\ \A i \in 1 .. Len(frames') :
           /\ i > 1 => frames'[i].phase = "INTERNAL"
           /\ frames'[i].phase = "INTERNAL" => frames'[i].pc # "line"
  BY <1>1, <1>3, GotoTypes
<1>5. TypeOK'
  BY <1>1, <1>2, <1>4 DEF TypeOK
<1>6. Logged'
  BY <1>1, <1>4 DEF Logged, Shows
<1>7. InternalIsLast' /\ ExitShowsAll'
  BY <1>1 DEF InternalIsLast, ExitShowsAll
<1> QED
  BY <1>5, <1>6, <1>7 DEF IInv

LEMMA NestInvariant ==
  ASSUME IInv, Nest
  PROVE  IInv'
<1>1. /\ TypeOK /\ InternalIsLast /\ Logged /\ frames # <<>> /\ status = "running"
      /\ UNCHANGED <<arena, errors, capacity, printed, raised>>
  BY DEF IInv, Nest
<1>2. PICK size \in Wanted : Refused(size)
  BY DEF Nest
<1>3. size \in Nat
  BY <1>2, Sizes DEF Wanted
<1>4. current' \in Nat /\ committed_end' \in Nat
  BY <1>1, <1>2, <1>3, AllocTypes
<1>5. /\ frames' \in Seq(Frame) /\ Len(frames') <= StackDepth /\ frames' # <<>>
      /\ frames'[1] = frames[1]
      /\ \A i \in 1 .. Len(frames') :
           /\ i > 1 => frames'[i].phase = "INTERNAL"
           /\ frames'[i].phase = "INTERNAL" => frames'[i].pc # "line"
      /\ \/ status' = "running" /\ Len(frames') = Len(frames) + 1
         \/ status' = "overflowed" /\ frames' = frames
  BY <1>1, InsideTypes DEF Nest
<1>6. TypeOK'
  BY <1>1, <1>4, <1>5 DEF TypeOK
<1>7. Logged'
  <2>1. Len(frames) \in Nat \ {0}
    BY <1>1, TopFacts
  <2>2. status' = "running" => Len(frames') # 1
    BY <1>5, <2>1
  <2> QED
    BY <1>1, <1>5, <2>2 DEF Logged, Shows
<1>8. InternalIsLast' /\ ExitShowsAll'
  BY <1>1, <1>5 DEF InternalIsLast, ExitShowsAll
<1> QED
  BY <1>6, <1>7, <1>8 DEF IInv

(* Only a report on an empty stack is pushed without an exit.              *)
LEMMA PushPops ==
  ASSUME TypeOK, Push
  PROVE  Len(frames) = 1 /\ frames' = <<>>
<1>1. frames # <<>> /\ Top.phase # "INTERNAL"
  BY DEF Push, At
<1>2. Len(frames) = 1 /\ frames \in Seq(Frame)
  <2>1. Len(frames) \in Nat \ {0} /\ ~(Len(frames) > 1)
    BY <1>1, TopFacts
  <2>2. \A n \in Nat \ {0} : ~(n > 1) => n = 1
    OBVIOUS
  <2>3. Len(frames) = 1
    BY <2>1, <2>2, Zenon
  <2> QED
    BY <2>3 DEF TypeOK
<1>3. frames' = SubSeq(frames, 1, 0)
  BY <1>2 DEF Push
<1>4. SubSeq(frames, 1, 0) = <<>>
  BY <1>2
<1> QED
  BY <1>2, <1>3, <1>4

(* Whatever a push adds comes after the errors reported before.            *)
LEMMA AddedLast ==
  ASSUME IInv, frames # <<>>, status = "running", NEW cell \in Cell, errors' = Append(errors, cell)
  PROVE  /\ errors' \in Seq(Cell) /\ errors' # <<>> /\ Len(errors') = Len(errors) + 1
         /\ Len(errors) \in Nat /\ Len(raised) \in Nat /\ errors'[Len(errors')] = cell
         /\ \A i \in 1 .. Len(errors) : errors'[i] = errors[i]
         /\ \A i \in 1 .. Len(errors) : errors'[i].phase # "INTERNAL"
         /\ Shows(errors', Len(raised) - 1)
<1>1. /\ errors \in Seq(Cell) /\ Len(errors) \in Nat /\ Len(raised) \in Nat
      /\ Shows(errors, Len(raised) - 1)
  BY DEF IInv, TypeOK, Logged
<1>2. /\ errors' \in Seq(Cell) /\ errors' # <<>> /\ Len(errors') = Len(errors) + 1
      /\ errors'[Len(errors')] = cell
      /\ \A i \in 1 .. Len(errors) : errors'[i] = errors[i]
  BY <1>1
<1>3. \A i \in 1 .. Len(errors) : errors[i].phase # "INTERNAL"
  BY DEF IInv, InternalIsLast
<1>4. Shows(errors', Len(raised) - 1)
  BY <1>1, <1>2 DEF Shows
<1> QED
  BY <1>1, <1>2, <1>3, <1>4

(* The error of a report that nothing interrupted is the last reported.    *)
LEMMA EntryIsLast ==
  ASSUME IInv, At("push"), Len(frames) = 1, errors' = Append(errors, Entry)
  PROVE  errors' = raised
<1>1. /\ frames # <<>> /\ status = "running" /\ Top = frames[1]
  BY DEF At, Top
<1>2. Entry = raised[Len(raised)] /\ Len(errors) = Len(raised) - 1 /\ raised # <<>>
  BY <1>1 DEF IInv, Logged, Entry
<1>3. Entry \in Cell /\ raised \in Seq(ErrorRecord)
  BY <1>1, TopFacts DEF Entry, ErrorRecord, Cell, Frame, IInv, TypeOK
<1>4. /\ errors' \in Seq(Cell) /\ Len(errors') = Len(raised)
      /\ errors'[Len(errors')] = Entry /\ Shows(errors', Len(raised) - 1)
  BY <1>1, <1>2, <1>3, AddedLast
<1>5. \A i \in 1 .. Len(raised) : errors'[i] = raised[i]
  <2>1. ASSUME NEW i \in 1 .. Len(raised) PROVE errors'[i] = raised[i]
    <3>1. i \in 1 .. Len(raised) - 1 \/ i = Len(raised)
      BY <1>3
    <3> QED
      BY <1>2, <1>4, <3>1 DEF Shows
  <2> QED
    BY <2>1
<1> QED
  BY <1>3, <1>4, <1>5, SeqEqual

LEMMA PushInvariant ==
  ASSUME IInv, Push \/ PushAndExit \/ PushAndCrash
  PROVE  IInv'
<1>1. /\ TypeOK /\ frames # <<>> /\ status = "running" /\ At("push")
      /\ errors' = Append(errors, Entry) /\ capacity' = GrownCapacity
      /\ UNCHANGED <<current, committed_end, arena, raised>>
  BY DEF IInv, At, Push, PushAndExit, PushAndCrash
<1>2. Entry \in Cell /\ Entry.phase = Top.phase
  BY <1>1, TopFacts DEF Entry, ErrorRecord, Cell, Frame
<1>3. /\ errors' \in Seq(Cell) /\ errors' # <<>> /\ Len(errors') = Len(errors) + 1
      /\ Len(errors) \in Nat /\ Len(raised) \in Nat /\ errors'[Len(errors')] = Entry
      /\ \A i \in 1 .. Len(errors) : errors'[i].phase # "INTERNAL"
      /\ Shows(errors', Len(raised) - 1)
  BY <1>1, <1>2, AddedLast
<1>4. capacity' \in Nat \ {0, 1}
  BY <1>1 DEF GrownCapacity, TypeOK
<1>5. \A i \in 1 .. Len(errors') : errors'[i].phase = "INTERNAL" => i = Len(errors')
  BY <1>3
<1>6. CASE Push
  <2>1. frames' = <<>> /\ status' = "running" /\ Top.phase # "INTERNAL" /\ UNCHANGED printed
        /\ errors' = raised
    BY <1>1, <1>6, PushPops, EntryIsLast DEF Push
  <2>2. TypeOK'
    BY <1>1, <1>3, <1>4, <2>1, SizeAssumption DEF TypeOK
  <2>3. InternalIsLast' /\ ExitShowsAll' /\ Logged'
    BY <1>1, <1>2, <1>3, <1>5, <2>1 DEF InternalIsLast, ExitShowsAll, Logged
  <2> QED
    BY <2>2, <2>3 DEF IInv
<1>7. CASE PushAndExit
  <2>1. printed' = errors' /\ status' = "exited" /\ frames' = frames /\ Top.phase = "INTERNAL"
    BY <1>7 DEF PushAndExit
  <2>2. TypeOK'
    BY <1>1, <1>3, <1>4, <2>1 DEF TypeOK
  <2>3. Len(frames) = 1 => Shows(errors', Len(raised))
    BY <1>1, <1>3, EntryIsLast DEF Shows
  <2>4. ExitShowsAll'
    BY <1>1, <1>2, <1>3, <2>1, <2>3 DEF ExitShowsAll, Shows
  <2>5. InternalIsLast' /\ Logged'
    BY <1>5, <2>1 DEF InternalIsLast, Logged
  <2> QED
    BY <2>2, <2>4, <2>5 DEF IInv
<1>8. CASE PushAndCrash
  <2>1. PICK n \in 0 .. Len(errors') : printed' = SubSeq(errors', 1, n)
    BY <1>8 DEF PushAndCrash
  <2>2. printed' \in Seq(Cell)
    BY <1>3, <2>1
  <2>3. status' = "crashed" /\ frames' = frames
    BY <1>8 DEF PushAndCrash
  <2>4. TypeOK'
    BY <1>1, <1>3, <1>4, <2>2, <2>3 DEF TypeOK
  <2>5. InternalIsLast' /\ ExitShowsAll' /\ Logged'
    BY <1>5, <2>3 DEF InternalIsLast, ExitShowsAll, Logged
  <2> QED
    BY <2>4, <2>5 DEF IInv
<1> QED
  BY <1>6, <1>7, <1>8

LEMMA GrowthInvariant ==
  ASSUME IInv, GrowthFails
  PROVE  IInv'
<1>1. /\ TypeOK /\ InternalIsLast /\ Logged /\ frames # <<>> /\ status = "running"
      /\ errors' = Append(errors, Unwritten) /\ capacity' = 2 * capacity
      /\ UNCHANGED <<current, committed_end, arena, printed, raised>>
  BY DEF IInv, At, GrowthFails
<1>2. Unwritten \in Cell /\ Unwritten.phase = "UNWRITTEN"
  BY DEF Cell, Unwritten
<1>3. /\ errors' \in Seq(Cell) /\ errors' # <<>> /\ Len(errors') = Len(errors) + 1
      /\ Len(errors) \in Nat /\ errors'[Len(errors')] = Unwritten
      /\ \A i \in 1 .. Len(errors) : errors'[i].phase # "INTERNAL"
      /\ Shows(errors', Len(raised) - 1)
  BY <1>1, <1>2, AddedLast
<1>4. /\ frames' \in Seq(Frame) /\ Len(frames') <= StackDepth /\ frames' # <<>>
      /\ frames'[1] = frames[1]
      /\ \A i \in 1 .. Len(frames') :
           /\ i > 1 => frames'[i].phase = "INTERNAL"
           /\ frames'[i].phase = "INTERNAL" => frames'[i].pc # "line"
      /\ \/ status' = "running" /\ Len(frames') = Len(frames) + 1
         \/ status' = "overflowed" /\ frames' = frames
  BY <1>1, InsideTypes DEF GrowthFails
<1>5. capacity' \in Nat \ {0, 1}
  BY <1>1 DEF TypeOK
<1>6. TypeOK'
  BY <1>1, <1>3, <1>4, <1>5 DEF TypeOK
<1>7. Logged'
  <2>1. Len(frames) \in Nat \ {0}
    BY <1>1, TopFacts
  <2>2. status' = "running" => Len(frames') # 1
    BY <1>4, <2>1
  <2>3. Shows(errors, Len(raised) - 1)'
    BY <1>1, <1>3 DEF Shows
  <2> QED
    BY <1>1, <1>4, <2>2, <2>3 DEF Logged
<1>8. \A i \in 1 .. Len(errors') : errors'[i].phase # "INTERNAL"
  BY <1>2, <1>3
<1>9. InternalIsLast' /\ ExitShowsAll'
  BY <1>4, <1>8 DEF InternalIsLast, ExitShowsAll
<1> QED
  BY <1>6, <1>7, <1>9 DEF IInv

LEMMA StepInvariant == IInv /\ [Next]_logVars => IInv'
<1> SUFFICES ASSUME IInv, [Next]_logVars PROVE IInv'
  OBVIOUS
<1>1. CASE UNCHANGED logVars
  BY <1>1 DEF logVars, IInv, TypeOK, InternalIsLast, ExitShowsAll, Logged, Shows
<1>2. CASE Reporting
  BY <1>2, AllocInvariant, NestInvariant, PushInvariant, GrowthInvariant DEF Reporting
<1> QED
  BY <1>1, <1>2, ClientInvariant DEF Next

-----------------------------------------------------------------------------
(* The invariant of the error log.                                         *)
THEOREM InductiveInvariant == Spec => []IInv
  BY InitInvariant, StepInvariant, PTL DEF Spec

(* Types hold and the stack of reports has the shape TypeOK describes.     *)
THEOREM TypeCorrect == Spec => []TypeOK
<1>1. IInv => TypeOK
  BY DEF IInv
<1> QED
  BY <1>1, InductiveInvariant, PTL

(* Nothing is logged after an INTERNAL error (logger.c:100-104).           *)
THEOREM NothingAfterInternal == Spec => []InternalIsLast
<1>1. IInv => InternalIsLast
  BY DEF IInv
<1> QED
  BY <1>1, InductiveInvariant, PTL

(* An exit of the log has shown, in order, all errors that were reported   *)
(* to it, but for the last one if its report was interrupted by a refused  *)
(* allocation or a failed growth, and an INTERNAL error last, for any      *)
(* number of errors and interruptions at any depth (logger.c:69-104,       *)
(* vector.c:174-190).                                                      *)
THEOREM ExitsShowAll == Spec => []ExitShowsAll
<1>1. IInv => ExitShowsAll
  BY DEF IInv
<1> QED
  BY <1>1, InductiveInvariant, PTL

(* No activation resumes after a refused allocation (arena.c:77-81) or a   *)
(* failed growth (vector.c:182-186).                                       *)
THEOREM NoneResumes == Spec => NeverResumed
<1>1. ASSUME IInv, [Next]_logVars PROVE Len(frames') < Len(frames) => Len(frames) = 1
  <2>1. TypeOK /\ Len(frames) \in Nat
    BY <1>1 DEF IInv, TypeOK
  <2>2. CASE Push
    BY <2>1, <2>2, PushPops
  <2>3. ASSUME NEW phase, NEW owner, Call(phase, owner)
        PROVE  Len(frames') = Len(frames) + 1
    BY <2>1, <2>3 DEF Call, TypeOK
  <2>4. ASSUME NEW point, Goto(point) PROVE Len(frames') = Len(frames)
    BY <2>4, <2>1 DEF Goto, TypeOK
  <2>5. CASE AllocMessage \/ AllocError \/ NoLine \/ Nest \/ GrowthFails
             \/ PushAndExit \/ PushAndCrash \/ \E size \in LineSizes : AllocLine(size)
    <3>1. ReportInside("INTERNAL") => Len(frames') \in {Len(frames), Len(frames) + 1}
      BY <2>3 DEF ReportInside
    <3> QED
      BY <2>1, <2>4, <2>5, <3>1
         DEF AllocMessage, AllocError, NoLine, Nest, GrowthFails, PushAndExit, PushAndCrash,
             AllocLine
  <2>6. CASE \/ OffsetRefused
             \/ \E phase \in Phases, owner \in Owners : Raise(phase, owner)
    <3>1. PICK phase, owner : Call(phase, owner)
      BY <2>6 DEF OffsetRefused, Raise
    <3> QED
      BY <2>1, <2>3, <3>1
  <2>7. CASE Initialize \/ TakeOffset \/ Report \/ Close \/ UNCHANGED logVars
    <3>1. frames' = frames
      BY <2>7 DEF Initialize, TakeOffset, Report, Close, logVars
    <3> QED
      BY <2>1, <3>1
  <2> QED
    BY <1>1, <2>2, <2>5, <2>6, <2>7 DEF Next, Reporting
<1> QED
  BY <1>1, InductiveInvariant, PTL DEF Spec, NeverResumed
=============================================================================
