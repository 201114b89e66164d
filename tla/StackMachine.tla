----------------------------- MODULE StackMachine -----------------------------
(***************************************************************************)
(* The machine the generated code is for: the VM of the Nand2Tetris course *)
(* and the part of its operating system that the code generator calls.  It *)
(* is no part of the repository; this is what the instructions mean, as    *)
(* far as the generator uses them.                                         *)
(*                                                                         *)
(* What is not defined stops the machine as "stuck": a pop from an empty   *)
(* working stack, an index outside of a segment, a constant the machine    *)
(* does not have, a label or a function that does not exist once.          *)
(***************************************************************************)
EXTENDS Integers, SequencesExt

CONSTANT MaxSteps   (* bound: instructions a run may take                   *)

HeapBase == 2048

Words == 65536

(* Arithmetic is on 16 bits, in two's complement.                          *)
Wrap(n) == ((n + Words \div 2) % Words) - Words \div 2

Frame(name, args, locals, return) ==
  [class |-> name[1], argument |-> args, local |-> [i \in 1 .. locals |-> 0],
   pointer |-> <<0, 0>>, stack |-> <<>>, return |-> return]

(* The places of an instruction in the code.                               *)
PlacesOf(code, instruction) == {pc \in 1 .. Len(code) : code[pc] = instruction}

EntriesOf(code, name) ==
  {pc \in 1 .. Len(code) : code[pc].op = "function" /\ code[pc].name = name}

Only(set) == CHOOSE x \in set : TRUE

Stuck(m) == [m EXCEPT !.status = "stuck"]

Push(m, v) == [m EXCEPT !.frames[1].stack = <<v>> \o @, !.pc = @ + 1]

Drop(m, n) == [m EXCEPT !.frames[1].stack = SubSeq(@, n + 1, Len(@))]

Arg(m, i) == m.frames[1].stack[i]

Has(m, n) == Len(m.frames[1].stack) >= n

Below(n) == 0 .. n - 1

-----------------------------------------------------------------------------
(* The cell a segment and an index stand for; <<>> if there is none.       *)
Cell(m, segment, index) ==
  LET f == m.frames[1] IN
  CASE segment = "argument" /\ index \in Below(Len(f.argument)) -> <<"argument", index + 1>>
    [] segment = "local" /\ index \in Below(Len(f.local)) -> <<"local", index + 1>>
    [] segment = "pointer" /\ index \in {0, 1} -> <<"pointer", index + 1>>
    [] segment = "static" -> <<"memory", <<f.class, index>> >>
    [] segment = "temp" /\ index \in Below(8) -> <<"memory", <<"temp", index>> >>
    [] segment = "this" -> <<"memory", <<"RAM", f.pointer[1] + index>> >>
    [] segment = "that" -> <<"memory", <<"RAM", f.pointer[2] + index>> >>
    [] OTHER -> <<>>

(* Memory is zero where nothing has been written.                          *)
Load(m, cell) ==
  IF cell[1] # "memory" THEN m.frames[1][cell[1]][cell[2]]
  ELSE IF cell[2] \in DOMAIN m.memory THEN m.memory[cell[2]] ELSE 0

Store(m, cell, v) ==
  IF cell[1] # "memory" THEN [m EXCEPT !.frames[1][cell[1]][cell[2]] = v]
  ELSE [m EXCEPT !.memory = (cell[2] :> v) @@ @]

(* An instruction has 15 bits for a constant: there are no negative ones.  *)
DoPush(m, segment, index) ==
  IF segment = "constant" THEN IF index \in Below(Words \div 2) THEN Push(m, index) ELSE Stuck(m)
  ELSE LET cell == Cell(m, segment, index) IN
       IF cell = <<>> THEN Stuck(m) ELSE Push(m, Load(m, cell))

DoPop(m, segment, index) ==
  LET cell == Cell(m, segment, index) IN
  IF cell = <<>> \/ ~Has(m, 1) THEN Stuck(m)
  ELSE [Store(Drop(m, 1), cell, Arg(m, 1)) EXCEPT !.pc = @ + 1]

-----------------------------------------------------------------------------
Truth(b) == IF b THEN -1 ELSE 0

(* and, or: the operands are truth values.                                 *)
Apply(command, x, y) ==
  CASE command = "add" -> Wrap(x + y)
    [] command = "sub" -> Wrap(x - y)
    [] command = "eq" -> Truth(x = y)
    [] command = "lt" -> Truth(x < y)
    [] command = "gt" -> Truth(x > y)
    [] command = "and" -> IF x = 0 THEN 0 ELSE y
    [] command = "or" -> IF x = 0 THEN y ELSE x

DoArithmetic(m, command) ==
  CASE command \in {"neg", "not"} /\ Has(m, 1) ->
         Push(Drop(m, 1), Wrap(IF command = "neg" THEN -Arg(m, 1) ELSE -Arg(m, 1) - 1))
    [] command \notin {"neg", "not"} /\ Has(m, 2) ->
         Push(Drop(m, 2), Apply(command, Arg(m, 2), Arg(m, 1)))
    [] OTHER -> Stuck(m)

Jump(m, code, label) ==
  LET at == PlacesOf(code, [op |-> "label", label |-> label]) IN
  IF Cardinality(at) = 1 THEN [m EXCEPT !.pc = Only(at)] ELSE Stuck(m)

DoIf(m, code, label) ==
  IF ~Has(m, 1) THEN Stuck(m)
  ELSE IF Arg(m, 1) # 0 THEN Jump(Drop(m, 1), code, label)
  ELSE [Drop(m, 1) EXCEPT !.pc = @ + 1]

(* The operating system: what it returns, and the memory it takes.         *)
System == {<<"Math", "multiply">>, <<"Math", "divide">>, <<"Memory", "alloc">>}

DoSystem(m, name, args) ==
  CASE name = <<"Math", "multiply">> -> Push(m, Wrap(args[1] * args[2]))
    [] name = <<"Math", "divide">> -> IF args[2] = 0 THEN Stuck(m) ELSE Push(m, args[1] \div args[2])
    [] name = <<"Memory", "alloc">> -> [Push(m, m.free) EXCEPT !.free = @ + args[1]]

DoCall(m, code, name, n) ==
  LET args == Reverse(SubSeq(m.frames[1].stack, 1, n))
      at == EntriesOf(code, name) IN
  IF ~Has(m, n) THEN Stuck(m)
  ELSE IF name \in System /\ at = {} THEN DoSystem(Drop(m, n), name, args)
  ELSE IF Cardinality(at) # 1 THEN Stuck(m)
  ELSE [m EXCEPT !.frames = <<Frame(name, args, code[Only(at)].locals, m.pc + 1)>> \o Drop(m, n).frames,
                 !.pc = Only(at) + 1]

(* The this pointer is the caller's again after a return.                  *)
DoReturn(m) ==
  IF ~Has(m, 1) THEN Stuck(m)
  ELSE IF Len(m.frames) = 1 THEN [m EXCEPT !.status = "halted", !.value = Arg(m, 1)]
  ELSE [Push([m EXCEPT !.frames = Tail(@)], Arg(m, 1)) EXCEPT !.pc = m.frames[1].return]

Execute(m, code) ==
  LET i == code[m.pc] IN
  IF m.pc > Len(code) THEN Stuck(m)
  ELSE CASE i.op = "push" -> DoPush(m, i.segment, i.index)
         [] i.op = "pop" -> DoPop(m, i.segment, i.index)
         [] i.op = "arithmetic" -> DoArithmetic(m, i.command)
         [] i.op = "label" -> [m EXCEPT !.pc = @ + 1]
         [] i.op = "goto" -> Jump(m, code, i.label)
         [] i.op = "if-goto" -> DoIf(m, code, i.label)
         [] i.op = "call" -> DoCall(m, code, i.name, i.args)
         [] i.op = "return" -> DoReturn(m)
         [] i.op = "function" -> Stuck(m)

RECURSIVE Continue(_, _)
Continue(m, code) ==
  IF m.status # "running" \/ m.steps = MaxSteps THEN m
  ELSE Continue([Execute(m, code) EXCEPT !.steps = @ + 1], code)

(* The machine after a call of a function without arguments.               *)
Run(code, name) ==
  LET at == EntriesOf(code, name)
      m == [pc |-> 0, frames |-> <<>>, memory |-> <<>>, free |-> HeapBase,
            steps |-> 0, value |-> 0, status |-> "running"] IN
  IF Cardinality(at) # 1 THEN Stuck(m)
  ELSE Continue([m EXCEPT !.pc = Only(at) + 1,
                          !.frames = <<Frame(name, <<>>, code[Only(at)].locals, 0)>>],
                code)
=============================================================================
