----------------------------- MODULE VisitorProofs -----------------------------
(***************************************************************************)
(* Proofs about the walks over the tree, for every tree of any nesting and *)
(* every library.                                                          *)
(***************************************************************************)
EXTENDS Visitor, GeneratorProofs

(* A list of lists, joined.                                                *)
LEMMA Flattened ==
  ASSUME NEW S, NEW seqs \in Seq(Seq(S))
  PROVE  FlattenSeq(seqs) \in Seq(S)
<1> DEFINE n == Len(seqs)
<1>1. CASE n = 0
  <2>1. seqs = <<>>
    BY <1>1
  <2> QED
    BY <1>1, <2>1 DEF FlattenSeq
<1>2. CASE n # 0
  <2> DEFINE step == [i \in Nat |-> [v \in Seq(S) |-> IF i \in 1 .. n THEN v \o seqs[i] ELSE v]]
  <2>1. /\ n \in Nat /\ 1 \in Nat /\ seqs[1] \in Seq(S) /\ 1 \in 1 .. n
        /\ \A i \in 1 .. n : seqs[i] \in Seq(S)
    BY <1>2
  <2>2. /\ step \in [Nat -> [Seq(S) -> Seq(S)]]
        /\ \A i \in 1 .. n : \A v \in Seq(S) : step[i][v] = v \o seqs[i]
    <3>1. ASSUME NEW i \in Nat
          PROVE  /\ step[i] = [v \in Seq(S) |-> IF i \in 1 .. n THEN v \o seqs[i] ELSE v]
                 /\ step[i] \in [Seq(S) -> Seq(S)]
                 /\ i \in 1 .. n => \A v \in Seq(S) : step[i][v] = v \o seqs[i]
      <4>1. step[i] = [v \in Seq(S) |-> IF i \in 1 .. n THEN v \o seqs[i] ELSE v]
        OBVIOUS
      <4>2. ASSUME NEW v \in Seq(S) PROVE (IF i \in 1 .. n THEN v \o seqs[i] ELSE v) \in Seq(S)
        BY <2>1
      <4>3. step[i] \in [Seq(S) -> Seq(S)]
        BY <4>1, <4>2
      <4>4. i \in 1 .. n => \A v \in Seq(S) : step[i][v] = v \o seqs[i]
        BY <4>1
      <4> QED
        BY <4>1, <4>3, <4>4
    <3>2. DOMAIN step = Nat /\ step = [i \in Nat |-> step[i]]
      OBVIOUS
    <3> HIDE DEF step
    <3>3. \A i \in 1 .. n : i \in Nat
      BY <2>1
    <3>4. step \in [Nat -> [Seq(S) -> Seq(S)]]
      BY <3>1, <3>2
    <3> QED
      BY <3>1, <3>3, <3>4
  <2> HIDE DEF n, step
  <2>3. PICK f : Levels!Folded(f, 1, n, seqs[1], step)
    BY <2>1, <2>2, Levels!FoldExists
  <2>4. \A i \in 1 .. n : f[i] = IF i = 1 THEN seqs[1] ELSE step[i][f[i - 1]]
    BY <2>3 DEF Levels!Folded
  <2>5. \A i \in 1 .. n : f[i] \in Seq(S)
    <3>1. f[1] \in Seq(S)
      BY <2>1, <2>4
    <3>2. ASSUME NEW i \in 1 + 1 .. n, f[i - 1] \in Seq(S) PROVE f[i] \in Seq(S)
      <4>1. i \in 1 .. n /\ i # 1 /\ i \in Nat
        BY <2>1
      <4> QED
        BY <2>2, <2>4, <3>2, <4>1
    <3> QED
      BY <2>1, <3>1, <3>2, Levels!FoldInvariant
  <2>6. f = [i \in 1 .. n |-> IF i = 1 THEN seqs[i] ELSE f[i - 1] \o seqs[i]]
    <3>1. ASSUME NEW i \in 1 .. n
          PROVE  f[i] = IF i = 1 THEN seqs[i] ELSE f[i - 1] \o seqs[i]
      <4>1. i # 1 => i - 1 \in 1 .. n
        BY <2>1
      <4>2. i # 1 => step[i][f[i - 1]] = f[i - 1] \o seqs[i]
        BY <2>2, <2>5, <4>1
      <4> QED
        BY <2>4, <4>2
    <3>2. f = [i \in 1 .. n |-> f[i]]
      BY <2>3 DEF Levels!Folded
    <3> QED
      BY <3>1, <3>2
  <2>7. PICK g : /\ g = [i \in 1 .. n |-> IF i = 1 THEN seqs[i] ELSE g[i - 1] \o seqs[i]]
                 /\ FlattenSeq(seqs) = g[n]
    BY <1>2, <2>6 DEF FlattenSeq, n
  <2>8. \A i \in 1 .. n : g[i] = IF i = 1 THEN seqs[i] ELSE g[i - 1] \o seqs[i]
    BY <2>7
  <2>9. \A i \in 1 .. n : g[i] \in Seq(S)
    <3>1. g[1] \in Seq(S)
      BY <2>1, <2>8
    <3>2. ASSUME NEW i \in 1 + 1 .. n, g[i - 1] \in Seq(S) PROVE g[i] \in Seq(S)
      <4>1. i \in 1 .. n /\ i # 1 /\ seqs[i] \in Seq(S)
        BY <2>1
      <4>2. g[i] = g[i - 1] \o seqs[i]
        BY <2>8, <4>1
      <4> QED
        BY <3>2, <4>1, <4>2
    <3> QED
      BY <2>1, <3>1, <3>2, Levels!FoldInvariant
  <2> QED
    BY <1>2, <2>1, <2>7, <2>9
<1> QED
  BY <1>1, <1>2

-----------------------------------------------------------------------------
(* The visits of BUILD, by the scope they are made in.                     *)
VariableVisits ==
  [op : {"variable"}, node : [kind : {"ARG", "VAR"}, type : Types, name : Names \union {Null}]]

MemberVisits ==
  [op : {"class variable"}, node : [name : Names, type : Types, kind : {"STATIC", "FIELD"}]]
    \union [op : {"subroutine"}, node : SubroutineDecNode]

ParsedFunction ==
  [name : Names, kind : SubroutineKinds, return_type : Types,
   parameters : Seq([name : Names, type : Types])]

ParsedClass == [name : Names \intersect Types, functions : Seq(ParsedFunction)]

TablesOf(ts, scopes) == {t \in 1 .. Len(ts) : ts[t].scope \in scopes}

GlobalVisits(ts) ==
  [op : {"class"}, node : ClassNode]
    \union [op : {"library class"}, node : ParsedClass]
    \union [op : {"library function"},
            node : [function : ParsedFunction, table : TablesOf(ts, {"CLASS"})]]
    \union [op : {"library parameter"},
            node : [name : Names, type : Types, table : TablesOf(ts, SubroutineKinds)]]

(* What is left of a scope, up to where it is left.                        *)
Rest(V) == {<<>>} \union {visits \o <<Leave>> : visits \in Seq(V)}

(* What is left of a subroutine, of the class around it, and of the        *)
(* program, where the current table is the innermost of them.              *)
Position(ts, t, s, c, g) ==
  /\ s \in Rest(VariableVisits) /\ c \in Rest(MemberVisits) /\ g \in Seq(GlobalVisits(ts))
  /\ s # <<>> => c # <<>> /\ t \in TablesOf(ts, SubroutineKinds)
  /\ s = <<>> /\ c # <<>> => t \in TablesOf(ts, {"CLASS"})
  /\ s = <<>> /\ c = <<>> => t = GlobalTable

Within(ts, t, visits) ==
  \E s, c, g : Position(ts, t, s, c, g) /\ visits = s \o (c \o g)

BuildInv ==
  /\ Inv
  /\ program \in ProgramNode
  /\ phase = "BUILD" /\ outcome = "running" => Within(tables, currentTable, todo)

-----------------------------------------------------------------------------
LEMMA RestIsSeq ==
  ASSUME NEW V, NEW r \in Rest(V)
  PROVE  /\ r \in Seq(V \union {Leave})
         /\ \/ r = <<>>
            \/ Head(r) \in V /\ Tail(r) \in Rest(V) /\ Tail(r) # <<>>
            \/ Head(r) = Leave /\ Tail(r) = <<>>
<1>1. CASE r = <<>>
  BY <1>1
<1>2. CASE r # <<>>
  <2>1. PICK visits \in Seq(V) : r = visits \o <<Leave>>
    BY <1>2 DEF Rest
  <2>2. visits \in Seq(V \union {Leave}) /\ <<Leave>> \in Seq(V \union {Leave})
    <3> HIDE DEF Leave
    <3> QED
      OBVIOUS
  <2>3. r \in Seq(V \union {Leave})
    BY <2>1, <2>2, ConcatProperties
  <2>4. CASE visits = <<>>
    <3>1. r = <<Leave>>
      BY <2>1, <2>2, <2>4, ConcatEmptySeq
    <3> QED
      BY <2>3, <3>1
  <2>5. CASE visits # <<>>
    <3>1. Head(visits) \in V /\ Tail(visits) \in Seq(V)
      BY <2>5
    <3>2. Head(r) = Head(visits) /\ Tail(r) = Tail(visits) \o <<Leave>>
      BY <2>1, <2>2, <2>5, HeadOfConcat
    <3>3. Tail(r) \in Rest(V)
      BY <3>1, <3>2 DEF Rest
    <3>4. Tail(r) # <<>>
      <4>1. Tail(visits) \in Seq(V \union {Leave}) /\ <<Leave>> # <<>>
        BY <2>2, <3>1
      <4> QED
        BY <2>2, <3>2, <4>1, NotEmpty
    <3> QED
      BY <2>3, <3>1, <3>2, <3>3, <3>4
  <2> QED
    BY <2>4, <2>5
<1> QED
  BY <1>1, <1>2

(* The next visit, by where it is made; its kind tells which.              *)
FirstOf(ts, s, c, g, visits) ==
  /\ s # <<>> =>
       /\ Head(visits) = Head(s) /\ Tail(visits) = Tail(s) \o (c \o g)
       /\ \/ /\ Head(s) \in VariableVisits /\ Tail(s) \in Rest(VariableVisits)
             /\ Tail(s) # <<>>
          \/ Head(s) = Leave /\ Tail(s) = <<>>
  /\ s = <<>> /\ c # <<>> =>
       /\ Head(visits) = Head(c) /\ Tail(visits) = Tail(c) \o g
       /\ \/ Head(c) \in MemberVisits /\ Tail(c) \in Rest(MemberVisits) /\ Tail(c) # <<>>
          \/ Head(c) = Leave /\ Tail(c) = <<>>
  /\ s = <<>> /\ c = <<>> =>
       /\ Head(visits) \in GlobalVisits(ts)
       /\ Tail(visits) \in Seq(GlobalVisits(ts)) /\ Tail(visits) = Tail(g)

LEMMA NextVisit ==
  ASSUME NEW ts, NEW t, NEW s, NEW c, NEW g, Position(ts, t, s, c, g),
         NEW visits, visits = s \o (c \o g), visits # <<>>
  PROVE  FirstOf(ts, s, c, g, visits)
<1> DEFINE S == VariableVisits \union MemberVisits \union GlobalVisits(ts) \union {Leave}
<1>1. /\ s \in Seq(VariableVisits \union {Leave}) /\ c \in Seq(MemberVisits \union {Leave})
      /\ g \in Seq(GlobalVisits(ts))
  BY RestIsSeq DEF Position
<1>2. s \in Seq(S) /\ c \in Seq(S) /\ g \in Seq(S)
  <2>1. /\ VariableVisits \union {Leave} \subseteq S /\ MemberVisits \union {Leave} \subseteq S
        /\ GlobalVisits(ts) \subseteq S
    OBVIOUS
  <2> HIDE DEF S
  <2> QED
    BY <1>1, <2>1, SeqMonotonic
<1> HIDE DEF S
<1>3. c \o g \in Seq(S)
  BY <1>2, ConcatProperties
<1>4. CASE s # <<>>
  BY <1>2, <1>3, <1>4, HeadOfConcat, RestIsSeq DEF Position, FirstOf
<1>5. CASE s = <<>>
  <2>1. visits = c \o g
    BY <1>3, <1>5, ConcatEmptySeq
  <2>2. CASE c # <<>>
    BY <1>2, <1>5, <2>1, <2>2, HeadOfConcat, RestIsSeq DEF Position, FirstOf
  <2>3. CASE c = <<>>
    <3>1. visits = g
      BY <1>2, <2>1, <2>3, ConcatEmptySeq
    <3> QED
      BY <1>1, <1>5, <2>3, <3>1 DEF FirstOf
  <2> QED
    BY <2>2, <2>3
<1> QED
  BY <1>4, <1>5

-----------------------------------------------------------------------------
(* The visits that an action puts on the stack.                            *)
LEMMA VisitsOf ==
  ASSUME NEW S, NEW nodes \in Seq(S), NEW op
  PROVE  Visits(op, nodes) \in Seq([op : {op}, node : S])
<1>1. \A i \in 1 .. Len(nodes) : Visit(op, nodes[i]) \in [op : {op}, node : S]
  BY DEF Visit
<1> QED
  BY <1>1 DEF Visits

LEMMA ClassVisits ==
  ASSUME NEW class \in ClassNode
  PROVE  /\ ClassVariables(class) \o Visits("subroutine", class.subs) \o <<Leave>>
              \in Rest(MemberVisits)
         /\ ClassVariables(class) \o Visits("subroutine", class.subs) \o <<Leave>> # <<>>
<1> DEFINE Variable(i, j) ==
             Visit("class variable", [name |-> class.vars[i].names[j],
                                      type |-> class.vars[i].type,
                                      kind |-> class.vars[i].modifier])
           Of(i) == [j \in 1 .. Len(class.vars[i].names) |-> Variable(i, j)]
           subs == Visits("subroutine", class.subs)
<1>1. class.vars \in Seq(ClassVarDecNode) /\ class.subs \in Seq(SubroutineDecNode)
  BY DEF ClassNode
<1>2. ASSUME NEW i \in 1 .. Len(class.vars) PROVE Of(i) \in Seq(MemberVisits)
  <2>1. class.vars[i] \in ClassVarDecNode
    BY <1>1
  <2>2. /\ class.vars[i].names \in Seq(Names) /\ class.vars[i].type \in Types
        /\ class.vars[i].modifier \in {"STATIC", "FIELD"}
    BY <2>1 DEF ClassVarDecNode
  <2>3. \A j \in 1 .. Len(class.vars[i].names) : Variable(i, j) \in MemberVisits
    BY <2>2 DEF MemberVisits, Visit
  <2> HIDE DEF Variable
  <2> QED
    BY <2>2, <2>3
<1>3. ClassVariables(class) = FlattenSeq([i \in 1 .. Len(class.vars) |-> Of(i)])
  BY DEF ClassVariables
<1>4. subs \in Seq(MemberVisits)
  <2>1. subs \in Seq([op : {"subroutine"}, node : SubroutineDecNode])
    BY <1>1, VisitsOf
  <2>2. [op : {"subroutine"}, node : SubroutineDecNode] \subseteq MemberVisits
    BY DEF MemberVisits
  <2> QED
    BY <2>1, <2>2, SeqMonotonic
<1> HIDE DEF Of, subs
<1>5. [i \in 1 .. Len(class.vars) |-> Of(i)] \in Seq(Seq(MemberVisits))
  BY <1>1, <1>2
<1>6. ClassVariables(class) \in Seq(MemberVisits)
  BY <1>3, <1>5, Flattened
<1>7. ClassVariables(class) \o subs \in Seq(MemberVisits)
  BY <1>4, <1>6, ConcatProperties
<1>8. /\ ClassVariables(class) \o subs \in Seq(MemberVisits \union {Leave})
      /\ <<Leave>> \in Seq(MemberVisits \union {Leave}) /\ <<Leave>> # <<>>
  <2> HIDE DEF Leave
  <2> QED
    BY <1>7
<1> QED
  BY <1>7, <1>8, NotEmpty DEF Rest, subs

LEMMA VariablesTyped ==
  ASSUME NEW kind \in {"ARG", "VAR"}, NEW types \in Seq(Types), NEW names \in Seq(Names)
  PROVE  Variables(kind, types, names) \in Seq(VariableVisits)
<1>1. \A i \in 1 .. Len(types) : NameAt(names, i) \in Names \union {Null}
  BY DEF NameAt
<1>2. \A i \in 1 .. Len(types) :
        Visit("variable", [kind |-> kind, type |-> types[i], name |-> NameAt(names, i)])
          \in VariableVisits
  BY <1>1 DEF VariableVisits, Visit
<1> QED
  BY <1>2 DEF Variables

LEMMA SubroutineVisits ==
  ASSUME NEW sub \in SubroutineDecNode
  PROVE  /\ SubroutineVariables(sub) \o <<Leave>> \in Rest(VariableVisits)
         /\ SubroutineVariables(sub) \o <<Leave>> # <<>>
<1> DEFINE Of(i) == LET d == sub.varDecs[i] IN
                    Variables("VAR", [j \in 1 .. Len(d.names) |-> d.type], d.names)
           params == Variables("ARG", sub.params.types, sub.params.names)
<1>1. sub.params \in ParameterListNode /\ sub.varDecs \in Seq(VarDecNode)
  BY DEF SubroutineDecNode
<1>2. params \in Seq(VariableVisits)
  BY <1>1, VariablesTyped DEF ParameterListNode
<1>3. ASSUME NEW i \in 1 .. Len(sub.varDecs) PROVE Of(i) \in Seq(VariableVisits)
  <2>1. sub.varDecs[i] \in VarDecNode
    BY <1>1
  <2>2. sub.varDecs[i].names \in Seq(Names) /\ sub.varDecs[i].type \in Types
    BY <2>1 DEF VarDecNode
  <2>3. [j \in 1 .. Len(sub.varDecs[i].names) |-> sub.varDecs[i].type] \in Seq(Types)
    BY <2>2
  <2> QED
    BY <2>2, <2>3, VariablesTyped
<1>4. SubroutineVariables(sub) = params \o FlattenSeq([i \in 1 .. Len(sub.varDecs) |-> Of(i)])
  BY DEF SubroutineVariables
<1> HIDE DEF Of, params
<1>5. [i \in 1 .. Len(sub.varDecs) |-> Of(i)] \in Seq(Seq(VariableVisits))
  BY <1>1, <1>3
<1>6. FlattenSeq([i \in 1 .. Len(sub.varDecs) |-> Of(i)]) \in Seq(VariableVisits)
  BY <1>5, Flattened
<1>7. SubroutineVariables(sub) \in Seq(VariableVisits)
  BY <1>2, <1>4, <1>6, ConcatProperties
<1>8. /\ SubroutineVariables(sub) \in Seq(VariableVisits \union {Leave})
      /\ <<Leave>> \in Seq(VariableVisits \union {Leave}) /\ <<Leave>> # <<>>
  <2> HIDE DEF Leave
  <2> QED
    BY <1>7
<1> QED
  BY <1>7, <1>8, NotEmpty DEF Rest

LEMMA LibraryTyped == parse_jack_stdlib_from_json \in Seq(ParsedClass)
<1>1. Library \in Seq(LibraryClass)
  BY LibraryAssumption
<1>2. ASSUME NEW f \in LibraryFunction PROVE parse_function_from_json(f) \in ParsedFunction
  <2>1. string_to_kind[f.kind] \in SubroutineKinds
    BY DEF LibraryFunction, string_to_kind, SubroutineKinds
  <2> QED
    BY <2>1 DEF parse_function_from_json, LibraryFunction, ParsedFunction
<1>3. ASSUME NEW i \in 1 .. Len(Library)
      PROVE  ClassFrom(Library[i], Library[i].functions \o Library[i].methods) \in ParsedClass
  <2> DEFINE all == Library[i].functions \o Library[i].methods
  <2>1. Library[i] \in LibraryClass
    BY <1>1
  <2>2. Library[i].name \in Names \intersect Types
    BY <2>1 DEF LibraryClass
  <2>3. all \in Seq(LibraryFunction)
    BY <2>1, ConcatProperties DEF LibraryClass
  <2> HIDE DEF all
  <2>4. [k \in 1 .. Len(all) |-> parse_function_from_json(all[k])] \in Seq(ParsedFunction)
    <3>1. \A k \in 1 .. Len(all) : parse_function_from_json(all[k]) \in ParsedFunction
      BY <1>2, <2>3
    <3> QED
      BY <2>3, <3>1
  <2>5. ClassFrom(Library[i], all) \in ParsedClass
    BY <2>2, <2>4 DEF ClassFrom, ParsedClass
  <2> QED
    BY <2>5 DEF all
<1> QED
  BY <1>1, <1>3 DEF parse_jack_stdlib_from_json

-----------------------------------------------------------------------------
(* Tables only grow, and what is to be visited stays where it is.          *)
LEMMA GrownTables ==
  ASSUME NEW old \in Seq(Table), NEW new, NEW p, NEW symbol, Grows(old, new, p, symbol)
  PROVE  /\ \A scopes : TablesOf(old, scopes) \subseteq TablesOf(new, scopes)
         /\ GlobalVisits(old) \subseteq GlobalVisits(new)
<1>1. Len(old) \in Nat /\ Len(new) \in Nat /\ Len(old) <= Len(new)
  BY DEF Grows
<1>2. \A u \in 1 .. Len(old) : u \in 1 .. Len(new) /\ new[u].scope = old[u].scope
  BY <1>1 DEF Grows
<1>3. \A scopes : TablesOf(old, scopes) \subseteq TablesOf(new, scopes)
  BY <1>2 DEF TablesOf
<1>4. GlobalVisits(old) \subseteq GlobalVisits(new)
  <2>1. /\ TablesOf(old, {"CLASS"}) \subseteq TablesOf(new, {"CLASS"})
        /\ TablesOf(old, SubroutineKinds) \subseteq TablesOf(new, SubroutineKinds)
    BY <1>3
  <2> DEFINE F(ts) == [op : {"library function"},
                       node : [function : ParsedFunction, table : TablesOf(ts, {"CLASS"})]]
             P(ts) == [op : {"library parameter"},
                       node : [name : Names, type : Types, table : TablesOf(ts, SubroutineKinds)]]
  <2>2. F(old) \subseteq F(new)
    BY <2>1
  <2>3. P(old) \subseteq P(new)
    BY <2>1
  <2> QED
    BY <2>2, <2>3 DEF GlobalVisits
<1> QED
  BY <1>3, <1>4

LEMMA PositionStays ==
  ASSUME NEW old \in Seq(Table), NEW new, NEW p, NEW symbol, Grows(old, new, p, symbol),
         NEW t, NEW s, NEW c, NEW g, Position(old, t, s, c, g)
  PROVE  Position(new, t, s, c, g)
<1>1. g \in Seq(GlobalVisits(new))
  BY GrownTables, SeqMonotonic DEF Position
<1>2. \A scopes : t \in TablesOf(old, scopes) => t \in TablesOf(new, scopes)
  BY GrownTables
<1> QED
  BY <1>1, <1>2 DEF Position

(* A step that makes no visits of its own leaves what is left.             *)
LEMMA NothingBefore ==
  ASSUME NEW ts, NEW t, NEW visits, Within(ts, t, visits)
  PROVE  <<>> \o visits = visits
<1>1. PICK s, c, g : Position(ts, t, s, c, g) /\ visits = s \o (c \o g)
  BY DEF Within
<1> DEFINE S == VariableVisits \union MemberVisits \union GlobalVisits(ts) \union {Leave}
<1>2. s \in Seq(S) /\ c \in Seq(S) /\ g \in Seq(S)
  <2>1. /\ VariableVisits \union {Leave} \subseteq S /\ MemberVisits \union {Leave} \subseteq S
        /\ GlobalVisits(ts) \subseteq S
    OBVIOUS
  <2>2. /\ s \in Seq(VariableVisits \union {Leave}) /\ c \in Seq(MemberVisits \union {Leave})
        /\ g \in Seq(GlobalVisits(ts))
    BY <1>1, RestIsSeq DEF Position
  <2> HIDE DEF S
  <2> QED
    BY <2>1, <2>2, SeqMonotonic
<1> HIDE DEF S
<1> QED
  BY <1>1, <1>2, ConcatProperties, ConcatEmptySeq

(* What the next visit of BUILD can be, and what is left after it.         *)
NextIn(ts, t, visits) ==
  \/ /\ Head(visits) \in VariableVisits
     /\ t \in TablesOf(ts, SubroutineKinds)
     /\ Within(ts, t, Tail(visits))
  \/ /\ Head(visits) \in MemberVisits
     /\ t \in TablesOf(ts, {"CLASS"})
     /\ Within(ts, t, Tail(visits))
     /\ \E c \in Rest(MemberVisits), g \in Seq(GlobalVisits(ts)) :
          c # <<>> /\ Tail(visits) = c \o g
  \/ /\ Head(visits) = Leave
     /\ ts[t].parent # NullTable
     /\ Within(ts, ts[t].parent, Tail(visits))
  \/ /\ Head(visits) \in GlobalVisits(ts)
     /\ t = GlobalTable
     /\ Within(ts, t, Tail(visits))
     /\ Tail(visits) \in Seq(GlobalVisits(ts))

LEMMA WhatIsNext ==
  ASSUME Inv, Within(tables, currentTable, todo), todo # <<>>
  PROVE  NextIn(tables, currentTable, todo)
<1>1. PICK s, c, g : Position(tables, currentTable, s, c, g) /\ todo = s \o (c \o g)
  BY DEF Within
<1>2. /\ <<>> \in Rest(VariableVisits) /\ <<>> \in Rest(MemberVisits)
  BY DEF Rest
<1>3. /\ <<>> \o g = g
      /\ \A x \in Rest(MemberVisits) : <<>> \o (x \o g) = x \o g
  <2> DEFINE S == MemberVisits \union GlobalVisits(tables) \union {Leave}
  <2>1. ASSUME NEW x \in Rest(MemberVisits) PROVE <<>> \o (x \o g) = x \o g
    <3>1. MemberVisits \union {Leave} \subseteq S /\ GlobalVisits(tables) \subseteq S
      OBVIOUS
    <3> HIDE DEF S
    <3>2. x \in Seq(S) /\ g \in Seq(S)
      BY <1>1, <3>1, RestIsSeq, SeqMonotonic DEF Position
    <3> QED
      BY <3>2, ConcatProperties, ConcatEmptySeq
  <2>2. <<>> \o g = g
    BY <1>1, ConcatEmptySeq DEF Position
  <2> QED
    BY <1>1, <2>1, <2>2 DEF Position
<1>4. CASE /\ s # <<>> /\ Head(todo) = Head(s) /\ Tail(todo) = Tail(s) \o (c \o g)
           /\ Head(s) \in VariableVisits /\ Tail(s) \in Rest(VariableVisits) /\ Tail(s) # <<>>
  <2>1. Position(tables, currentTable, Tail(s), c, g)
    BY <1>1, <1>4 DEF Position
  <2>2. Within(tables, currentTable, Tail(todo))
    BY <1>4, <2>1 DEF Within
  <2> QED
    BY <1>1, <1>4, <2>2 DEF NextIn, Position
<1>5. CASE /\ s # <<>> /\ Head(todo) = Head(s) /\ Tail(todo) = Tail(s) \o (c \o g)
           /\ Head(s) = Leave /\ Tail(s) = <<>>
  <2>1. currentTable \in 1 .. Len(tables) /\ tables[currentTable].scope \in SubroutineKinds
    BY <1>1, <1>5 DEF Position, TablesOf
  <2>2. /\ tables[currentTable].parent \in 1 .. currentTable - 1
        /\ tables[tables[currentTable].parent].scope = "CLASS"
    BY <2>1 DEF Inv, ScopesNest, SubroutineKinds
  <2>3. tables[currentTable].parent \in TablesOf(tables, {"CLASS"})
    BY <2>1, <2>2 DEF TablesOf, Inv, TablesTypeOK
  <2>4. Position(tables, tables[currentTable].parent, Tail(s), c, g)
    BY <1>1, <1>2, <1>5, <2>3 DEF Position
  <2>5. Within(tables, tables[currentTable].parent, Tail(todo))
    BY <1>5, <2>4 DEF Within
  <2>6. tables[currentTable].parent # NullTable
    BY <2>2 DEF NullTable
  <2> QED
    BY <1>5, <2>5, <2>6 DEF NextIn
<1>6. CASE /\ s = <<>> /\ c # <<>> /\ Head(todo) = Head(c) /\ Tail(todo) = Tail(c) \o g
           /\ Head(c) \in MemberVisits /\ Tail(c) \in Rest(MemberVisits) /\ Tail(c) # <<>>
  <2>1. Position(tables, currentTable, <<>>, Tail(c), g) /\ Tail(todo) = <<>> \o (Tail(c) \o g)
    BY <1>1, <1>2, <1>3, <1>6 DEF Position
  <2>2. Within(tables, currentTable, Tail(todo))
    BY <2>1 DEF Within
  <2> QED
    BY <1>1, <1>6, <2>2 DEF NextIn, Position
<1>7. CASE /\ s = <<>> /\ c # <<>> /\ Head(todo) = Head(c) /\ Tail(todo) = Tail(c) \o g
           /\ Head(c) = Leave /\ Tail(c) = <<>>
  <2>1. currentTable \in 1 .. Len(tables) /\ tables[currentTable].scope = "CLASS"
    BY <1>1, <1>7 DEF Position, TablesOf
  <2>2. tables[currentTable].parent = GlobalTable
    BY <2>1 DEF Inv, ScopesNest
  <2>3. Position(tables, GlobalTable, <<>>, <<>>, g) /\ Tail(todo) = <<>> \o (<<>> \o g)
    BY <1>1, <1>2, <1>3, <1>7 DEF Position
  <2>4. Within(tables, GlobalTable, Tail(todo))
    BY <2>3 DEF Within
  <2> QED
    BY <1>7, <2>2, <2>4 DEF NextIn, GlobalTable, NullTable
<1>8. CASE /\ s = <<>> /\ c = <<>> /\ Head(todo) \in GlobalVisits(tables)
           /\ Tail(todo) \in Seq(GlobalVisits(tables)) /\ Tail(todo) = Tail(g)
  <2>1. Position(tables, GlobalTable, <<>>, <<>>, Tail(todo))
    BY <1>2, <1>8 DEF Position
  <2>2. Tail(todo) = <<>> \o (<<>> \o Tail(todo))
    BY <1>8, ConcatEmptySeq
  <2>3. Within(tables, GlobalTable, Tail(todo))
    BY <2>1, <2>2 DEF Within
  <2>4. currentTable = GlobalTable
    BY <1>1, <1>8 DEF Position
  <2> QED
    BY <1>8, <2>3, <2>4 DEF NextIn
<1> HIDE DEF NextIn
<1>9. FirstOf(tables, s, c, g, todo)
  BY <1>1, NextVisit
<1> QED
  BY <1>4, <1>5, <1>6, <1>7, <1>8, <1>9 DEF FirstOf

-----------------------------------------------------------------------------
(* A step of the tables keeps what the visits need of them.                *)
LEMMA TablesGrow ==
  ASSUME Inv, TablesNext
  PROVE  /\ Inv'
         /\ \A t, visits : Within(tables, t, visits) => Within(tables', t, visits)
         /\ \A scopes : TablesOf(tables, scopes) \subseteq TablesOf(tables', scopes)
         /\ GlobalVisits(tables) \subseteq GlobalVisits(tables')
<1>1. PICK p, symbol : Grows(tables, tables', p, symbol)
  BY StepDeclares DEF Inv
<1>2. tables \in Seq(Table)
  BY DEF Inv, TablesTypeOK
<1>3. ASSUME NEW t, NEW visits, Within(tables, t, visits) PROVE Within(tables', t, visits)
  <2>1. PICK s, c, g : Position(tables, t, s, c, g) /\ visits = s \o (c \o g)
    BY <1>3 DEF Within
  <2>2. Position(tables', t, s, c, g)
    BY <1>1, <1>2, <2>1, PositionStays
  <2> QED
    BY <2>1, <2>2 DEF Within
<1> QED
  BY <1>1, <1>2, <1>3, StepInv, GrownTables

(* The table of a new scope is the last one.                               *)
LEMMA NewScope ==
  ASSUME NEW ts \in Seq(Table), NEW p \in 1 .. Len(ts), NEW made, NEW scope,
         Made(ts, made, scope, p),
         NEW name \in Names, NEW type \in Types, NEW kind \in Kinds, NEW scopes, scope \in scopes
  PROVE  /\ Len(symbol_table_add(made, p, name, type, kind, Len(ts) + 1)) = Len(ts) + 1
         /\ Len(ts) + 1
              \in TablesOf(symbol_table_add(made, p, name, type, kind, Len(ts) + 1), scopes)
<1> DEFINE new == symbol_table_add(made, p, name, type, kind, Len(ts) + 1)
           symbol == NewSymbol(made, p, name, type, kind, Len(ts) + 1)
<1>1. /\ made \in Seq(Table) /\ Len(made) = Len(ts) + 1 /\ p \in 1 .. Len(made)
      /\ Len(ts) \in Nat /\ p # Len(made) /\ Len(ts) + 1 \in Nat
      /\ made[Len(ts) + 1].scope = scope
  BY DEF Made
<1>2. Extended(made, new, p, symbol)
  BY <1>1, AddSymbol
<1> HIDE DEF new, symbol
<1>3. Len(new) = Len(ts) + 1 /\ new[Len(ts) + 1] = made[Len(ts) + 1]
  BY <1>1, <1>2 DEF Extended
<1> QED
  BY <1>1, <1>3 DEF TablesOf, new

-----------------------------------------------------------------------------
(* What a step of BUILD may do.                                            *)
Builds ==
  /\ tables' # tables => TablesNext
  /\ Inv'
  /\ program' = program
  /\ phase' = "BUILD" /\ outcome' = "running" => Within(tables', currentTable', todo')

LEMMA Operations ==
  /\ \A v \in VariableVisits : v.op = "variable"
  /\ \A v \in MemberVisits : v.op \in {"class variable", "subroutine"}
  /\ \A ts : \A v \in GlobalVisits(ts) :
       v.op \in {"class", "library class", "library function", "library parameter"}
  /\ Leave.op = "leave"
BY DEF VariableVisits, MemberVisits, GlobalVisits, Leave, Visit

LEMMA InvStays == Inv /\ tables' = tables => Inv'
BY DEF Inv, TablesTypeOK, ScopesNest, IndicesCounted, IndicesUnique, ChildrenExist,
       ScopesOwned, ScopeHasOneSymbol, OnlyOwner

LEMMA BuildVariable == BuildInv /\ build_variable => Builds
<1> SUFFICES ASSUME BuildInv, build_variable PROVE Builds
  OBVIOUS
<1>1. /\ todo # <<>> /\ Head(todo).op = "variable" /\ phase = "BUILD" /\ outcome = "running"
      /\ program' = program /\ currentTable' = currentTable
  BY DEF build_variable, Doing, tree
<1>2. Inv /\ Within(tables, currentTable, todo)
  BY <1>1 DEF BuildInv
<1>3. /\ Head(todo) \in VariableVisits
      /\ currentTable \in TablesOf(tables, SubroutineKinds)
      /\ Within(tables, currentTable, Tail(todo))
  <2>1. NextIn(tables, currentTable, todo)
    BY <1>1, <1>2, WhatIsNext
  <2> QED
    BY <1>1, <2>1, Operations DEF NextIn
<1>4. CASE node.name = Null
  <2>1. tables' = tables /\ outcome' = "aborted"
    BY <1>4 DEF build_variable, Go, Dead
  <2>2. Inv'
    BY <1>2, <2>1, InvStays
  <2> QED
    BY <1>1, <2>1, <2>2 DEF Builds
<1>5. CASE node.name # Null
  <2>1. /\ tables' = symbol_table_add(tables, currentTable, node.name, node.type,
                                      node.kind, NullTable)
        /\ todo' = <<>> \o Tail(todo)
    BY <1>5 DEF build_variable, Proceed, Go
  <2>2. node.name \in Names /\ node.type \in Types /\ node.kind \in {"ARG", "VAR"}
    BY <1>3, <1>5 DEF VariableVisits, node
  <2>3. /\ currentTable \in 1 .. Len(tables)
        /\ tables[currentTable].scope \in SubroutineKinds
    BY <1>3 DEF TablesOf
  <2>4. DeclareVariable(currentTable, node.name, node.type, node.kind)
    BY <2>1, <2>2, <2>3 DEF DeclareVariable, SubroutineKinds
  <2> HIDE DEF node
  <2>5. TablesNext
    BY <2>2, <2>3, <2>4 DEF TablesNext
  <2>6. todo' = Tail(todo)
    BY <1>3, <2>1, NothingBefore
  <2> QED
    BY <1>1, <1>2, <1>3, <2>5, <2>6, TablesGrow DEF Builds
<1> QED
  BY <1>4, <1>5

LEMMA BuildClassVariable == BuildInv /\ build_class_var_dec_node => Builds
<1> SUFFICES ASSUME BuildInv, build_class_var_dec_node PROVE Builds
  OBVIOUS
<1>1. /\ todo # <<>> /\ Head(todo).op = "class variable" /\ phase = "BUILD"
      /\ outcome = "running" /\ program' = program /\ currentTable' = currentTable
  BY DEF build_class_var_dec_node, Doing, tree
<1>2. Inv /\ Within(tables, currentTable, todo)
  BY <1>1 DEF BuildInv
<1>3. /\ Head(todo) \in MemberVisits
      /\ currentTable \in TablesOf(tables, {"CLASS"})
      /\ Within(tables, currentTable, Tail(todo))
  <2>1. NextIn(tables, currentTable, todo)
    BY <1>1, <1>2, WhatIsNext
  <2> QED
    BY <1>1, <2>1, Operations DEF NextIn
<1>4. /\ tables' = symbol_table_add(tables, currentTable, node.name, node.type,
                                    node.kind, NullTable)
      /\ todo' = <<>> \o Tail(todo)
  BY DEF build_class_var_dec_node, Go
<1>5. node.name \in Names /\ node.type \in Types /\ node.kind \in {"STATIC", "FIELD"}
  BY <1>1, <1>3 DEF MemberVisits, node
<1>6. currentTable \in 1 .. Len(tables) /\ tables[currentTable].scope = "CLASS"
  BY <1>3 DEF TablesOf
<1>7. DeclareVariable(currentTable, node.name, node.type, node.kind)
  BY <1>4, <1>5, <1>6 DEF DeclareVariable, SubroutineKinds
<1> HIDE DEF node
<1>8. TablesNext
  BY <1>5, <1>6, <1>7 DEF TablesNext
<1>9. todo' = Tail(todo)
  BY <1>3, <1>4, NothingBefore
<1> QED
  BY <1>1, <1>2, <1>3, <1>8, <1>9, TablesGrow DEF Builds

LEMMA BuildSubroutine == BuildInv /\ build_subroutine_dec_node => Builds
<1> SUFFICES ASSUME BuildInv, build_subroutine_dec_node PROVE Builds
  OBVIOUS
<1>1. /\ todo # <<>> /\ Head(todo).op = "subroutine" /\ phase = "BUILD"
      /\ outcome = "running" /\ program' = program /\ currentTable' = Len(tables) + 1
  BY DEF build_subroutine_dec_node, Doing, tree
<1>2. Inv /\ Within(tables, currentTable, todo) /\ tables \in Seq(Table)
  BY <1>1 DEF BuildInv, Inv, TablesTypeOK
<1>3. /\ Head(todo) \in MemberVisits
      /\ currentTable \in TablesOf(tables, {"CLASS"})
      /\ \E c \in Rest(MemberVisits), g \in Seq(GlobalVisits(tables)) :
           c # <<>> /\ Tail(todo) = c \o g
  <2>1. NextIn(tables, currentTable, todo)
    BY <1>1, <1>2, WhatIsNext
  <2> QED
    BY <1>1, <2>1, Operations DEF NextIn
<1>4. PICK c \in Rest(MemberVisits), g \in Seq(GlobalVisits(tables)) :
        c # <<>> /\ Tail(todo) = c \o g
  BY <1>3
<1>5. node \in SubroutineDecNode
  BY <1>1, <1>3 DEF MemberVisits, node
<1>6. /\ tables' = symbol_table_add(create_table(tables, node.kind, currentTable),
                                    currentTable, node.name, node.type, node.kind,
                                    Len(tables) + 1)
      /\ todo' = (SubroutineVariables(node) \o <<Leave>>) \o Tail(todo)
  BY DEF build_subroutine_dec_node, Proceed, Go
<1> HIDE DEF node
<1>7. node.name \in Names /\ node.type \in Types /\ node.kind \in SubroutineKinds
  BY <1>5 DEF SubroutineDecNode
<1>8. currentTable \in 1 .. Len(tables) /\ tables[currentTable].scope = "CLASS"
  BY <1>3 DEF TablesOf
<1>9. TablesNext
  <2>1. DeclareSubroutine(currentTable, node.name, node.type, node.kind)
    BY <1>6, <1>8 DEF DeclareSubroutine
  <2> QED
    BY <1>7, <1>8, <2>1 DEF TablesNext
<1>10. Len(tables) + 1 \in TablesOf(tables', SubroutineKinds)
  <2>1. currentTable \in Nat /\ node.kind \in Scopes /\ node.kind \in Kinds
    BY <1>7, <1>8 DEF Scopes, SubroutineKinds, Kinds
  <2>2. Made(tables, create_table(tables, node.kind, currentTable), node.kind, currentTable)
    BY <1>2, <2>1, CreateTable
  <2> QED
    BY <1>2, <1>6, <1>7, <1>8, <2>1, <2>2, NewScope
<1>11. Within(tables', currentTable', todo')
  <2> DEFINE s == SubroutineVariables(node) \o <<Leave>>
  <2>1. s \in Rest(VariableVisits) /\ s # <<>>
    BY <1>5, SubroutineVisits
  <2>2. g \in Seq(GlobalVisits(tables'))
    BY <1>2, <1>9, TablesGrow, SeqMonotonic
  <2> HIDE DEF s
  <2>3. Position(tables', currentTable', s, c, g)
    BY <1>1, <1>4, <1>10, <2>1, <2>2 DEF Position
  <2>4. todo' = s \o (c \o g)
    BY <1>4, <1>6 DEF s
  <2> QED
    BY <2>3, <2>4 DEF Within
<1> QED
  BY <1>1, <1>2, <1>9, <1>11, TablesGrow DEF Builds

LEMMA BuildClass == BuildInv /\ build_class_node => Builds
<1> SUFFICES ASSUME BuildInv, build_class_node PROVE Builds
  OBVIOUS
<1>1. /\ todo # <<>> /\ Head(todo).op = "class" /\ phase = "BUILD"
      /\ outcome = "running" /\ program' = program /\ currentTable' = Len(tables) + 1
  BY DEF build_class_node, Doing, tree
<1>2. Inv /\ Within(tables, currentTable, todo) /\ tables \in Seq(Table) /\ Len(tables) >= 1
  BY <1>1 DEF BuildInv, Inv, TablesTypeOK
<1>3. /\ Head(todo) \in GlobalVisits(tables)
      /\ currentTable = GlobalTable
      /\ Tail(todo) \in Seq(GlobalVisits(tables))
  <2>1. NextIn(tables, currentTable, todo)
    BY <1>1, <1>2, WhatIsNext
  <2> QED
    BY <1>1, <2>1, Operations DEF NextIn
<1>4. node \in ClassNode
  BY <1>1, <1>3 DEF GlobalVisits, node
<1>5. /\ tables' = symbol_table_add(create_table(tables, "CLASS", GlobalTable),
                                    GlobalTable, node.name, node.name, "CLASS",
                                    Len(tables) + 1)
      /\ todo' = (ClassVariables(node) \o Visits("subroutine", node.subs) \o <<Leave>>)
                   \o Tail(todo)
  BY <1>3 DEF build_class_node, Proceed, Go
<1> HIDE DEF node
<1>6. node.name \in Names \intersect Types
  BY <1>4 DEF ClassNode
<1>7. TablesNext
  BY <1>5, <1>6 DEF TablesNext, DeclareClass
<1>8. Len(tables) + 1 \in TablesOf(tables', {"CLASS"})
  <2>1. /\ GlobalTable \in 1 .. Len(tables) /\ GlobalTable \in Nat
        /\ "CLASS" \in Scopes /\ "CLASS" \in Kinds /\ "CLASS" \in {"CLASS"}
    BY <1>2 DEF GlobalTable, Scopes, Kinds
  <2>2. Made(tables, create_table(tables, "CLASS", GlobalTable), "CLASS", GlobalTable)
    BY <1>2, <2>1, CreateTable
  <2> QED
    BY <1>2, <1>5, <1>6, <2>1, <2>2, NewScope
<1>9. Within(tables', currentTable', todo')
  <2> DEFINE c == ClassVariables(node) \o Visits("subroutine", node.subs) \o <<Leave>>
             S == MemberVisits \union GlobalVisits(tables') \union {Leave}
  <2>1. c \in Rest(MemberVisits) /\ c # <<>>
    BY <1>4, ClassVisits
  <2>2. Tail(todo) \in Seq(GlobalVisits(tables'))
    BY <1>2, <1>3, <1>7, TablesGrow, SeqMonotonic
  <2>3. MemberVisits \union {Leave} \subseteq S /\ GlobalVisits(tables') \subseteq S
    OBVIOUS
  <2> HIDE DEF c, S
  <2>4. Position(tables', currentTable', <<>>, c, Tail(todo))
    BY <1>1, <1>8, <2>1, <2>2 DEF Position, Rest
  <2>5. c \o Tail(todo) = <<>> \o (c \o Tail(todo))
    BY <2>1, <2>2, <2>3, RestIsSeq, SeqMonotonic, ConcatProperties, ConcatEmptySeq
  <2>6. todo' = <<>> \o (c \o Tail(todo))
    BY <1>5, <2>5 DEF c
  <2> QED
    BY <2>4, <2>6 DEF Within
<1> QED
  BY <1>1, <1>2, <1>7, <1>9, TablesGrow DEF Builds

(* Visits in the global table alone.                                       *)
LEMMA GlobalWithin ==
  ASSUME NEW ts, NEW a \in Seq(GlobalVisits(ts)), NEW b \in Seq(GlobalVisits(ts))
  PROVE  Within(ts, GlobalTable, a \o b)
<1>1. a \o b \in Seq(GlobalVisits(ts))
  BY ConcatProperties
<1>2. Position(ts, GlobalTable, <<>>, <<>>, a \o b)
  BY <1>1 DEF Position, Rest
<1>3. a \o b = <<>> \o (<<>> \o (a \o b))
  BY <1>1, ConcatEmptySeq
<1> QED
  BY <1>2, <1>3 DEF Within

LEMMA LibraryFunctionsTyped ==
  ASSUME NEW ts, NEW t \in TablesOf(ts, {"CLASS"}), NEW class \in ParsedClass
  PROVE  LibraryFunctions(class, t) \in Seq(GlobalVisits(ts))
<1> DEFINE list == class.functions
           Of(i) == Visit("library function", [function |-> list[i], table |-> t])
<1>1. list \in Seq(ParsedFunction)
  BY DEF ParsedClass
<1>2. LibraryFunctions(class, t) = [i \in 1 .. Len(list) |-> Of(i)]
  BY DEF LibraryFunctions
<1> HIDE DEF list
<1>3. \A i \in 1 .. Len(list) : Of(i) \in GlobalVisits(ts)
  BY <1>1 DEF GlobalVisits, Visit
<1> HIDE DEF Of
<1> QED
  BY <1>1, <1>2, <1>3

LEMMA LibraryParametersTyped ==
  ASSUME NEW ts, NEW t \in TablesOf(ts, SubroutineKinds), NEW f \in ParsedFunction
  PROVE  LibraryParameters(f, t) \in Seq(GlobalVisits(ts))
<1> DEFINE list == f.parameters
           Parameter == [name : Names, type : Types]
           Of(i) == Visit("library parameter",
                          [name |-> list[i].name, type |-> list[i].type, table |-> t])
<1>1. list \in Seq(Parameter)
  BY DEF ParsedFunction
<1>2. LibraryParameters(f, t) = [i \in 1 .. Len(list) |-> Of(i)]
  BY DEF LibraryParameters
<1> HIDE DEF list
<1>3. ASSUME NEW i \in 1 .. Len(list) PROVE Of(i) \in GlobalVisits(ts)
  <2>1. list[i] \in Parameter
    <3> HIDE DEF Parameter
    <3> QED
      BY <1>1
  <2>2. list[i].name \in Names /\ list[i].type \in Types
    BY <2>1
  <2> QED
    BY <2>2 DEF GlobalVisits, Visit
<1>4. Len(list) \in Nat
  <2> HIDE DEF Parameter
  <2> QED
    BY <1>1
<1> HIDE DEF Of
<1> QED
  BY <1>2, <1>3, <1>4

LEMMA LibraryParameterAdded == BuildInv /\ AddLibraryParameter => Builds
<1> SUFFICES ASSUME BuildInv, AddLibraryParameter PROVE Builds
  OBVIOUS
<1>1. /\ todo # <<>> /\ Head(todo).op = "library parameter" /\ phase = "BUILD"
      /\ outcome = "running" /\ program' = program /\ currentTable' = currentTable
  BY DEF AddLibraryParameter, Doing, tree
<1>2. Inv /\ Within(tables, currentTable, todo)
  BY <1>1 DEF BuildInv
<1>3. /\ Head(todo) \in GlobalVisits(tables)
      /\ Within(tables, currentTable, Tail(todo))
  <2>1. NextIn(tables, currentTable, todo)
    BY <1>1, <1>2, WhatIsNext
  <2> QED
    BY <1>1, <2>1, Operations DEF NextIn
<1>4. /\ DeclareVariable(node.table, node.name, node.type, "ARG")
      /\ todo' = <<>> \o Tail(todo)
  BY DEF AddLibraryParameter, Proceed, Go
<1>5. node.name \in Names /\ node.type \in Types /\ node.table \in 1 .. Len(tables)
  BY <1>1, <1>3 DEF GlobalVisits, TablesOf, node
<1> HIDE DEF node
<1>6. TablesNext
  BY <1>4, <1>5 DEF TablesNext
<1>7. todo' = Tail(todo)
  BY <1>3, <1>4, NothingBefore
<1> QED
  BY <1>1, <1>2, <1>3, <1>6, <1>7, TablesGrow DEF Builds

LEMMA LibraryFunctionAdded == BuildInv /\ AddLibraryFunction => Builds
<1> SUFFICES ASSUME BuildInv, AddLibraryFunction PROVE Builds
  OBVIOUS
<1> DEFINE f == node.function
           t == node.table
<1>1. /\ todo # <<>> /\ Head(todo).op = "library function" /\ phase = "BUILD"
      /\ outcome = "running" /\ program' = program /\ currentTable' = currentTable
  BY DEF AddLibraryFunction, Doing, tree
<1>2. Inv /\ Within(tables, currentTable, todo) /\ tables \in Seq(Table)
  BY <1>1 DEF BuildInv, Inv, TablesTypeOK
<1>3. /\ Head(todo) \in GlobalVisits(tables)
      /\ currentTable = GlobalTable
      /\ Tail(todo) \in Seq(GlobalVisits(tables))
  <2>1. NextIn(tables, currentTable, todo)
    BY <1>1, <1>2, WhatIsNext
  <2> QED
    BY <1>1, <2>1, Operations DEF NextIn
<1>4. /\ DeclareSubroutine(t, f.name, f.return_type, f.kind)
      /\ todo' = LibraryParameters(f, Len(tables')) \o Tail(todo)
  BY DEF AddLibraryFunction, Proceed, Go
<1>5. f \in ParsedFunction /\ t \in 1 .. Len(tables)
  BY <1>1, <1>3 DEF GlobalVisits, TablesOf, node
<1> HIDE DEF f, t
<1>6. /\ f.name \in Names /\ f.return_type \in Types /\ f.kind \in SubroutineKinds
      /\ f.parameters \in Seq([name : Names, type : Types])
  BY <1>5 DEF ParsedFunction
<1>7. TablesNext
  BY <1>4, <1>5, <1>6 DEF TablesNext
<1>8. Len(tables') \in TablesOf(tables', SubroutineKinds)
  <2>1. t \in Nat /\ f.kind \in Scopes /\ f.kind \in Kinds
    BY <1>5, <1>6 DEF Scopes, SubroutineKinds, Kinds
  <2>2. Made(tables, create_table(tables, f.kind, t), f.kind, t)
    BY <1>2, <2>1, CreateTable
  <2>3. tables' = symbol_table_add(create_table(tables, f.kind, t), t, f.name,
                                   f.return_type, f.kind, Len(tables) + 1)
    BY <1>4 DEF DeclareSubroutine
  <2> QED
    BY <1>2, <1>5, <1>6, <2>1, <2>2, <2>3, NewScope
<1>9. LibraryParameters(f, Len(tables')) \in Seq(GlobalVisits(tables'))
  BY <1>5, <1>8, LibraryParametersTyped
<1>10. Tail(todo) \in Seq(GlobalVisits(tables'))
  BY <1>2, <1>3, <1>7, TablesGrow, SeqMonotonic
<1>11. Within(tables', currentTable', todo')
  BY <1>1, <1>3, <1>4, <1>9, <1>10, GlobalWithin
<1> QED
  BY <1>1, <1>2, <1>7, <1>11, TablesGrow DEF Builds

LEMMA LibraryClassAdded == BuildInv /\ AddLibraryClass => Builds
<1> SUFFICES ASSUME BuildInv, AddLibraryClass PROVE Builds
  OBVIOUS
<1> DEFINE class == node
<1>1. /\ todo # <<>> /\ Head(todo).op = "library class" /\ phase = "BUILD"
      /\ outcome = "running" /\ program' = program /\ currentTable' = currentTable
  BY DEF AddLibraryClass, Doing, tree
<1>2. Inv /\ Within(tables, currentTable, todo) /\ tables \in Seq(Table) /\ Len(tables) >= 1
  BY <1>1 DEF BuildInv, Inv, TablesTypeOK
<1>3. /\ Head(todo) \in GlobalVisits(tables)
      /\ currentTable = GlobalTable
      /\ Tail(todo) \in Seq(GlobalVisits(tables))
  <2>1. NextIn(tables, currentTable, todo)
    BY <1>1, <1>2, WhatIsNext
  <2> QED
    BY <1>1, <2>1, Operations DEF NextIn
<1>4. /\ DeclareLibraryClass(class.name)
      /\ todo' = LibraryFunctions(class, Len(tables')) \o Tail(todo)
  BY DEF AddLibraryClass, Proceed, Go
<1>5. class \in ParsedClass
  BY <1>1, <1>3 DEF GlobalVisits, node
<1> HIDE DEF class
<1>6. class.name \in Names \intersect Types /\ class.functions \in Seq(ParsedFunction)
  BY <1>5 DEF ParsedClass
<1>7. TablesNext
  BY <1>4, <1>6 DEF TablesNext
<1>8. Len(tables') \in TablesOf(tables', {"CLASS"})
  <2>1. /\ GlobalTable \in 1 .. Len(tables)
        /\ "CLASS" \in Scopes /\ "CLASS" \in Kinds /\ "CLASS" \in {"CLASS"}
    BY <1>2 DEF GlobalTable, Scopes, Kinds
  <2>2. Made(tables, add_child_table(tables, GlobalTable, "CLASS"), "CLASS", GlobalTable)
    BY <1>2, <2>1, AddChild
  <2>3. tables' = symbol_table_add(add_child_table(tables, GlobalTable, "CLASS"),
                                   GlobalTable, class.name, class.name, "CLASS",
                                   Len(tables) + 1)
    BY <1>4 DEF DeclareLibraryClass
  <2>4. class.name \in Names /\ class.name \in Types
    BY <1>6
  <2>5. Len(tables') = Len(tables) + 1 /\ Len(tables) + 1 \in TablesOf(tables', {"CLASS"})
    BY <1>2, <2>1, <2>2, <2>3, <2>4, NewScope
  <2> QED
    BY <2>5
<1>9. LibraryFunctions(class, Len(tables')) \in Seq(GlobalVisits(tables'))
  BY <1>5, <1>8, LibraryFunctionsTyped
<1>10. Tail(todo) \in Seq(GlobalVisits(tables'))
  BY <1>2, <1>3, <1>7, TablesGrow, SeqMonotonic
<1>11. Within(tables', currentTable', todo')
  BY <1>1, <1>3, <1>4, <1>9, <1>10, GlobalWithin
<1> QED
  BY <1>1, <1>2, <1>7, <1>11, TablesGrow DEF Builds

LEMMA ScopeLeft == BuildInv /\ LeaveScope => Builds
<1> SUFFICES ASSUME BuildInv, LeaveScope PROVE Builds
  OBVIOUS
<1>1. /\ todo # <<>> /\ Head(todo) .op = "leave" /\ program' = program
      /\ outcome = "running" /\ tables' = tables /\ phase' = phase
  BY DEF LeaveScope, tree
<1>2. Inv /\ Inv'
  BY <1>1, InvStays DEF BuildInv
<1>3. CASE phase # "BUILD"
  BY <1>1, <1>2, <1>3 DEF Builds
<1>4. CASE phase = "BUILD"
  <2>1. Within(tables, currentTable, todo)
    BY <1>1, <1>4 DEF BuildInv
  <2>2. /\ tables[currentTable].parent # NullTable
        /\ Within(tables, tables[currentTable].parent, Tail(todo))
    <3>1. NextIn(tables, currentTable, todo)
      BY <1>1, <1>2, <2>1, WhatIsNext
    <3> QED
      BY <1>1, <3>1, Operations DEF NextIn
  <2>3. currentTable' = tables[currentTable].parent /\ todo' = <<>> \o Tail(todo)
    BY <2>2 DEF LeaveScope, pop_table, Proceed, Go
  <2>4. todo' = Tail(todo)
    BY <2>2, <2>3, NothingBefore
  <2> QED
    BY <1>1, <1>2, <2>2, <2>3, <2>4 DEF Builds
<1> QED
  BY <1>3, <1>4

(* After BUILD nothing is declared.                                        *)
LEMMA NothingDeclared ==
  BuildInv /\ (BeginAnalysis \/ Analyze \/ Generate \/ Clean \/ Ended) => Builds
<1> SUFFICES ASSUME BuildInv, BeginAnalysis \/ Analyze \/ Generate \/ Clean \/ Ended
             PROVE  Builds
  OBVIOUS
<1>1. CASE BeginAnalysis
  BY <1>1, InvStays DEF Builds, BuildInv, BeginAnalysis, tree
<1>2. CASE Analyze
  BY <1>2, InvStays
  DEF Builds, BuildInv, Analyze, analyze_class_node, analyze_declaration,
      analyze_subroutine_dec_node, analyze_let_statement_node, analyze_if_statement_node,
      analyze_while_statement_node, analyze_do_statement_node,
      analyze_return_statement_node, EndAnalysis, EnterClass, Statement, Doing, Stay,
      Destroy, tree
<1>3. CASE Generate
  BY <1>3, InvStays
  DEF Builds, BuildInv, Generate, generate_class_node, generate_sub_dec_node,
      generate_stmt_node, generate_if_node, generate_while_node, write_later,
      EndGeneration, EnterClass, Statement, Doing, Unlabelled, Destroy, tree
<1>4. CASE Clean
  BY <1>4, InvStays
  DEF Builds, BuildInv, Clean, destroy_ast_node, Finish, Destroying, Doing, tree
<1>5. CASE Ended
  BY <1>5, InvStays DEF Builds, BuildInv, Ended, vars
<1> QED
  BY <1>1, <1>2, <1>3, <1>4, <1>5

LEMMA NextBuilds == BuildInv /\ [Next]_vars => Builds
<1> SUFFICES ASSUME BuildInv, [Next]_vars PROVE Builds
  OBVIOUS
<1>1. CASE LeaveScope
  BY <1>1, ScopeLeft
<1>2. CASE Build
  BY <1>2, LibraryClassAdded, LibraryFunctionAdded, LibraryParameterAdded, BuildClass,
     BuildClassVariable, BuildSubroutine, BuildVariable, NothingDeclared DEF Build
<1>3. CASE Analyze \/ Generate \/ Clean \/ Ended
  BY <1>3, NothingDeclared
<1>4. CASE UNCHANGED vars
  BY <1>4, InvStays DEF Builds, BuildInv, vars
<1> QED
  BY <1>1, <1>2, <1>3, <1>4 DEF Next

LEMMA InitBuilds == Init => BuildInv
<1> SUFFICES ASSUME Init PROVE BuildInv
  OBVIOUS
<1>1. /\ Inv /\ program \in ProgramNode /\ currentTable = GlobalTable
      /\ todo = Visits("library class", parse_jack_stdlib_from_json) \o Visits("class", program)
  BY InitInv, ProgramsAssumption DEF Init
<1> DEFINE library == Visits("library class", parse_jack_stdlib_from_json)
           classes == Visits("class", program)
<1>2. library \in Seq(GlobalVisits(tables))
  <2>1. library \in Seq([op : {"library class"}, node : ParsedClass])
    BY LibraryTyped, VisitsOf
  <2>2. [op : {"library class"}, node : ParsedClass] \subseteq GlobalVisits(tables)
    BY DEF GlobalVisits
  <2> HIDE DEF library
  <2> QED
    BY <2>1, <2>2, SeqMonotonic
<1>3. classes \in Seq(GlobalVisits(tables))
  <2>1. program \in Seq(ClassNode)
    BY <1>1 DEF ProgramNode
  <2>2. classes \in Seq([op : {"class"}, node : ClassNode])
    BY <2>1, VisitsOf
  <2>3. [op : {"class"}, node : ClassNode] \subseteq GlobalVisits(tables)
    BY DEF GlobalVisits
  <2> HIDE DEF classes
  <2> QED
    BY <2>2, <2>3, SeqMonotonic
<1>4. Within(tables, currentTable, todo)
  BY <1>1, <1>2, <1>3, GlobalWithin
<1> QED
  BY <1>1, <1>4 DEF BuildInv

LEMMA BuildInvariance == Spec => []BuildInv
<1>1. Builds /\ BuildInv => BuildInv'
  BY DEF Builds, BuildInv
<1> QED
  BY <1>1, InitBuilds, NextBuilds, PTL DEF Spec

-----------------------------------------------------------------------------
(* The walks keep to the rules of the symbol tables: build_* and           *)
(* add_stdlib_table declare a class in the global table, a subroutine in a *)
(* class, and a variable where its kind belongs, for every tree.           *)
THEOREM TablesAreBuilt == Spec => BuildsTables
<1>1. Init => TablesInit
  BY DEF Init
<1>2. BuildInv /\ [Next]_vars => [tables' # tables => TablesNext]_tables
  BY NextBuilds DEF Builds
<1> QED
  BY <1>1, <1>2, BuildInvariance, PTL DEF Spec, BuildsTables

(* What is promised of the tables is so in every state of the walks: the   *)
(* recursion of symbol_table_lookup ends, two variables of a scope never   *)
(* share a place, and the search for the subroutine of a return statement  *)
(* finds it.                                                               *)
THEOREM TablesAreRight ==
  Spec => [](TablesTypeOK /\ ScopesNest /\ IndicesUnique /\ ScopeHasOneSymbol)
<1>1. BuildInv => TablesTypeOK /\ ScopesNest /\ IndicesUnique /\ ScopeHasOneSymbol
  BY DEF BuildInv, Inv
<1> QED
  BY <1>1, BuildInvariance, PTL

-----------------------------------------------------------------------------
(* The calls of destroy_ast_node, and the vectors each has to find in the  *)
(* part of the tree it is for.                                             *)
Calls ==
  [op : {"PROGRAM"}, node : ProgramNode]
    \union [op : {"CLASS"}, node : ClassNode]
    \union [op : {"SUBROUTINE_DEC", "SUBROUTINE_BODY"}, node : SubroutineDecNode]
    \union [op : {"STATEMENTS"}, node : Seq(Statements)]
    \union [op : {"STATEMENT"}, node : Statements]
    \union [op : {"SUBROUTINE_CALL"}, node : SubroutineCalls]
    \union [op : {"EXPRESSION"}, node : Expressions]
    \union [op : {"TERM"}, node : Terms]
    \union [op : {"CLASS_VAR_DEC"}, node : ClassVarDecNode]
    \union [op : {"PARAMETER_LIST"}, node : ParameterListNode]
    \union [op : {"VAR_DEC"}, node : VarDecNode]

CallCount(call) ==
  CASE call.op = "PROGRAM" -> VectorsMade(call.node)
    [] call.op = "CLASS" -> ClassVectors(call.node)
    [] call.op = "SUBROUTINE_DEC" -> SubroutineVectors(call.node)
    [] call.op = "SUBROUTINE_BODY" -> BodyVectors(call.node)
    [] call.op = "STATEMENTS" -> BlockVectors(StatementVectors, call.node)
    [] call.op = "STATEMENT" -> StatementVectors[call.node]
    [] call.op = "SUBROUTINE_CALL" -> CallVectors(TermVectors, call.node)
    [] call.op = "EXPRESSION" -> Expression(call.node)
    [] call.op = "TERM" -> TermVectors[call.node]
    [] OTHER -> VectorsOf(call.op)

SumOf(calls) == Total([i \in 1 .. Len(calls) |-> CallCount(calls[i])])

LEMMA ClassTyped ==
  ASSUME NEW class \in ClassNode
  PROVE  /\ class.vars \in Seq(ClassVarDecNode) /\ class.subs \in Seq(SubroutineDecNode)
         /\ Each("CLASS_VAR_DEC", class.vars) \in Counts
         /\ Total([i \in 1 .. Len(class.subs) |-> SubroutineVectors(class.subs[i])]) \in Counts
         /\ ClassVectors(class) \in Counts
<1>1. class.vars \in Seq(ClassVarDecNode) /\ class.subs \in Seq(SubroutineDecNode)
  BY DEF ClassNode
<1>2. Each("CLASS_VAR_DEC", class.vars) \in Counts
  BY <1>1, EachTyped
<1>3. Total([i \in 1 .. Len(class.subs) |-> SubroutineVectors(class.subs[i])]) \in Counts
  <2>1. \A i \in 1 .. Len(class.subs) : class.subs[i] \in SubroutineDecNode
    BY <1>1
  <2>2. \A i \in 1 .. Len(class.subs) : SubroutineVectors(class.subs[i]) \in Counts
    BY <2>1, SubroutineTyped
  <2>3. [i \in 1 .. Len(class.subs) |-> SubroutineVectors(class.subs[i])] \in Seq(Counts)
    BY <1>1, <2>2
  <2> QED
    BY <2>3, TotalTyped
<1>4. ClassVectors(class) \in Counts
  <2> DEFINE subs == Total([i \in 1 .. Len(class.subs) |-> SubroutineVectors(class.subs[i])])
  <2>1. VectorsOf("CLASS") \in Counts
    BY PlusLaws
  <2> HIDE DEF subs
  <2>2. <<VectorsOf("CLASS"), Each("CLASS_VAR_DEC", class.vars), subs>> \in Seq(Counts)
    BY <1>2, <1>3, <2>1 DEF subs
  <2> QED
    BY <2>2, TotalTyped DEF ClassVectors, subs
<1> QED
  BY <1>1, <1>2, <1>3, <1>4

LEMMA ProgramTyped == \A tree_ \in ProgramNode : VectorsMade(tree_) \in Counts
<1> SUFFICES ASSUME NEW p \in ProgramNode PROVE VectorsMade(p) \in Counts
  OBVIOUS
<1>1. p \in Seq(ClassNode)
  BY DEF ProgramNode
<1>2. \A i \in 1 .. Len(p) : ClassVectors(p[i]) \in Counts
  <2>1. \A i \in 1 .. Len(p) : p[i] \in ClassNode
    BY <1>1
  <2> QED
    BY <2>1, ClassTyped
<1>3. [i \in 1 .. Len(p) |-> ClassVectors(p[i])] \in Seq(Counts)
  BY <1>1, <1>2
<1> QED
  BY <1>3, TotalTyped, PlusLaws DEF VectorsMade

LEMMA CallTyped == \A call \in Calls : CallCount(call) \in Counts
<1> SUFFICES ASSUME NEW call \in Calls PROVE CallCount(call) \in Counts
  OBVIOUS
<1>1. CASE call.op \in {"PROGRAM", "CLASS", "SUBROUTINE_DEC", "SUBROUTINE_BODY"}
  BY <1>1, ProgramTyped, ClassTyped, SubroutineTyped DEF Calls, CallCount
<1>2. CASE call.op = "STATEMENTS"
  <2>1. call.node \in Seq(Statements)
    BY <1>2 DEF Calls
  <2> QED
    BY <1>2, <2>1, StatementCounts, BlockTyped DEF CallCount
<1>3. CASE call.op \in {"STATEMENT", "SUBROUTINE_CALL", "EXPRESSION", "TERM"}
  BY <1>3, StatementCounts, TermCounts DEF Calls, CallCount
<1>4. CASE call.op \in {"CLASS_VAR_DEC", "PARAMETER_LIST", "VAR_DEC"}
  BY <1>4, PlusLaws DEF CallCount
<1> QED
  BY <1>1, <1>2, <1>3, <1>4 DEF Calls

LEMMA SumTyped == ASSUME NEW calls \in Seq(Calls) PROVE SumOf(calls) \in Counts
<1>1. \A i \in 1 .. Len(calls) : calls[i] \in Calls
  <2> HIDE DEF Calls
  <2> QED
    OBVIOUS
<1>2. \A i \in 1 .. Len(calls) : CallCount(calls[i]) \in Counts
  BY <1>1, CallTyped
<1>3. [i \in 1 .. Len(calls) |-> CallCount(calls[i])] \in Seq(Counts)
  BY <1>2
<1> QED
  BY <1>3, TotalTyped DEF SumOf

LEMMA SumOfConcat ==
  ASSUME NEW a \in Seq(Calls), NEW b \in Seq(Calls)
  PROVE  SumOf(a \o b) = Plus(SumOf(a), SumOf(b))
<1> DEFINE of(s) == [i \in 1 .. Len(s) |-> CallCount(s[i])]
<1>1. /\ Len(a \o b) = Len(a) + Len(b) /\ Len(a) \in Nat /\ Len(b) \in Nat
      /\ \A i \in 1 .. Len(a) + Len(b) :
           (a \o b)[i] = IF i <= Len(a) THEN a[i] ELSE b[i - Len(a)]
  BY ConcatProperties
<1>2. \A s \in Seq(Calls) : of(s) \in Seq(Counts) /\ Len(of(s)) = Len(s)
  <2> SUFFICES ASSUME NEW s \in Seq(Calls) PROVE of(s) \in Seq(Counts) /\ Len(of(s)) = Len(s)
    OBVIOUS
  <2>1. Len(s) \in Nat /\ \A i \in 1 .. Len(s) : s[i] \in Calls
    OBVIOUS
  <2>2. \A i \in 1 .. Len(s) : CallCount(s[i]) \in Counts
    BY <2>1, CallTyped
  <2> QED
    BY <2>1, <2>2
<1>3. of(a \o b) = of(a) \o of(b)
  <2>1. /\ of(a) \in Seq(Counts) /\ of(b) \in Seq(Counts) /\ of(a \o b) \in Seq(Counts)
        /\ Len(of(a)) = Len(a) /\ Len(of(b)) = Len(b) /\ Len(of(a \o b)) = Len(a) + Len(b)
    BY <1>1, <1>2, ConcatProperties
  <2>2. /\ of(a) \o of(b) \in Seq(Counts) /\ Len(of(a) \o of(b)) = Len(a) + Len(b)
        /\ \A i \in 1 .. Len(a) + Len(b) :
             (of(a) \o of(b))[i] = IF i <= Len(a) THEN of(a)[i] ELSE of(b)[i - Len(a)]
    BY <2>1, ConcatProperties
  <2>3. ASSUME NEW i \in 1 .. Len(a) + Len(b)
        PROVE  of(a \o b)[i] = (of(a) \o of(b))[i]
    <3>1. of(a \o b)[i] = CallCount((a \o b)[i])
      BY <1>1
    <3>2. CASE i <= Len(a)
      <4>1. i \in 1 .. Len(a)
        BY <3>2
      <4> QED
        BY <1>1, <2>2, <3>1, <4>1
    <3>3. CASE ~(i <= Len(a))
      <4>1. i - Len(a) \in 1 .. Len(b)
        BY <1>1, <3>3
      <4> QED
        BY <1>1, <2>2, <3>1, <3>3, <4>1
    <3> QED
      BY <3>2, <3>3
  <2> HIDE DEF of
  <2> QED
    BY <2>1, <2>2, <2>3, SeqEqual
<1> HIDE DEF of
<1>4. SumOf(a) = Total(of(a)) /\ SumOf(b) = Total(of(b)) /\ SumOf(a \o b) = Total(of(a \o b))
  BY DEF SumOf, of
<1> QED
  BY <1>2, <1>3, <1>4, TotalOfConcat

(* The calls for the nodes of a list.                                      *)
LEMMA SumOfEach ==
  ASSUME NEW op, NEW S, NEW nodes \in Seq(S), [op : {op}, node : S] \subseteq Calls
  PROVE  /\ CallEach(op, nodes) \in Seq(Calls)
         /\ SumOf(CallEach(op, nodes))
              = Total([i \in 1 .. Len(nodes) |-> CallCount([op |-> op, node |-> nodes[i]])])
<1>1. Len(nodes) \in Nat /\ \A i \in 1 .. Len(nodes) : [op |-> op, node |-> nodes[i]] \in Calls
  <2>1. \A i \in 1 .. Len(nodes) : [op |-> op, node |-> nodes[i]] \in [op : {op}, node : S]
    OBVIOUS
  <2> HIDE DEF Calls
  <2> QED
    BY <2>1
<1>2. /\ CallEach(op, nodes) \in Seq(Calls) /\ Len(CallEach(op, nodes)) = Len(nodes)
      /\ \A i \in 1 .. Len(nodes) : CallEach(op, nodes)[i] = [op |-> op, node |-> nodes[i]]
  <2> HIDE DEF Calls
  <2> QED
    BY <1>1 DEF CallEach
<1>3. [i \in 1 .. Len(CallEach(op, nodes)) |-> CallCount(CallEach(op, nodes)[i])]
        = [i \in 1 .. Len(nodes) |-> CallCount([op |-> op, node |-> nodes[i]])]
  BY <1>2
<1> QED
  BY <1>2, <1>3 DEF SumOf

LEMMA SumOfOn ==
  ASSUME NEW op, NEW part, [op |-> op, node |-> part] \in Calls
  PROVE  /\ CallOn(op, part) \in Seq(Calls)
         /\ SumOf(CallOn(op, part)) = CallCount([op |-> op, node |-> part])
<1> DEFINE call == [op |-> op, node |-> part]
<1>1. CallOn(op, part) = <<call>>
  BY DEF CallOn, CallEach
<1>2. CallCount(call) \in Counts
  BY CallTyped
<1> HIDE DEF call
<1>3. [i \in 1 .. Len(<<call>>) |-> CallCount(<<call>>[i])] = <<CallCount(call)>>
  OBVIOUS
<1>4. SumOf(<<call>>) = CallCount(call)
  BY <1>2, <1>3, TotalOfOne DEF SumOf
<1>5. call \in Calls
  BY DEF call
<1>6. <<call>> \in Seq(Calls)
  BY <1>5
<1> QED
  BY <1>1, <1>4, <1>6 DEF call

LEMMA SumOfNone == SumOf(<<>>) = NoVectors /\ <<>> \in Seq(Calls)
<1>1. [i \in 1 .. Len(<<>>) |-> CallCount(<<>>[i])] = <<>>
  OBVIOUS
<1> QED
  BY <1>1, TotalOfNone DEF SumOf

(* A call frees the vectors of its node, and leaves the others to the      *)
(* calls it makes.                                                         *)
Divides(op, part) ==
  /\ Children(op, part) \in Seq(Calls)
  /\ CallCount([op |-> op, node |-> part]) = Plus(VectorsOf(op), SumOf(Children(op, part)))

LEMMA LeafDivides ==
  ASSUME NEW op \in {"CLASS_VAR_DEC", "PARAMETER_LIST", "VAR_DEC"}, NEW part
  PROVE  Divides(op, part)
<1>1. Children(op, part) = <<>>
  BY DEF Children
<1>2. CallCount([op |-> op, node |-> part]) = VectorsOf(op)
  BY DEF CallCount
<1> QED
  BY <1>1, <1>2, SumOfNone, PlusLaws DEF Divides

LEMMA ProgramDivides ==
  ASSUME NEW p \in ProgramNode
  PROVE  Divides("PROGRAM", p)
<1>1. p \in Seq(ClassNode) /\ [op : {"CLASS"}, node : ClassNode] \subseteq Calls
  BY DEF ProgramNode, Calls
<1>2. Children("PROGRAM", p) = CallEach("CLASS", p)
  BY DEF Children
<1>3. CallCount([op |-> "PROGRAM", node |-> p]) = VectorsMade(p)
  BY DEF CallCount
<1>4. [i \in 1 .. Len(p) |-> CallCount([op |-> "CLASS", node |-> p[i]])]
        = [i \in 1 .. Len(p) |-> ClassVectors(p[i])]
  BY DEF CallCount
<1> QED
  BY <1>1, <1>2, <1>3, <1>4, SumOfEach DEF Divides, VectorsMade

LEMMA ClassDivides ==
  ASSUME NEW class \in ClassNode
  PROVE  Divides("CLASS", class)
<1> DEFINE vars_ == CallEach("CLASS_VAR_DEC", class.vars)
           subs == CallEach("SUBROUTINE_DEC", class.subs)
           subVectors == Total([i \in 1 .. Len(class.subs) |-> SubroutineVectors(class.subs[i])])
<1>1. /\ class.vars \in Seq(ClassVarDecNode) /\ class.subs \in Seq(SubroutineDecNode)
      /\ Each("CLASS_VAR_DEC", class.vars) \in Counts /\ subVectors \in Counts
      /\ VectorsOf("CLASS") \in Counts
  BY ClassTyped, PlusLaws
<1>2. /\ [op : {"CLASS_VAR_DEC"}, node : ClassVarDecNode] \subseteq Calls
      /\ [op : {"SUBROUTINE_DEC"}, node : SubroutineDecNode] \subseteq Calls
  BY DEF Calls
<1>3. /\ vars_ \in Seq(Calls)
      /\ SumOf(vars_) = Each("CLASS_VAR_DEC", class.vars)
  <2>1. [i \in 1 .. Len(class.vars) |->
           CallCount([op |-> "CLASS_VAR_DEC", node |-> class.vars[i]])]
          = [i \in 1 .. Len(class.vars) |-> VectorsOf("CLASS_VAR_DEC")]
    BY DEF CallCount
  <2> QED
    BY <1>1, <1>2, <2>1, SumOfEach DEF Each
<1>4. subs \in Seq(Calls) /\ SumOf(subs) = subVectors
  <2>1. [i \in 1 .. Len(class.subs) |->
           CallCount([op |-> "SUBROUTINE_DEC", node |-> class.subs[i]])]
          = [i \in 1 .. Len(class.subs) |-> SubroutineVectors(class.subs[i])]
    BY DEF CallCount
  <2>2. /\ subs \in Seq(Calls)
        /\ SumOf(subs)
             = Total([i \in 1 .. Len(class.subs) |->
                        CallCount([op |-> "SUBROUTINE_DEC", node |-> class.subs[i]])])
    BY <1>1, <1>2, SumOfEach
  <2> HIDE DEF subs
  <2> QED
    BY <2>1, <2>2
<1>5. Children("CLASS", class) = vars_ \o subs
  BY DEF Children
<1>6. CallCount([op |-> "CLASS", node |-> class]) = ClassVectors(class)
  BY DEF CallCount
<1>7. ClassVectors(class)
        = Total(<<VectorsOf("CLASS"), Each("CLASS_VAR_DEC", class.vars), subVectors>>)
  BY DEF ClassVectors
<1> HIDE DEF vars_, subs, subVectors
<1>8. ClassVectors(class)
        = Plus(VectorsOf("CLASS"), Plus(Each("CLASS_VAR_DEC", class.vars), subVectors))
  BY <1>1, <1>7, TotalOfThree
<1> QED
  BY <1>3, <1>4, <1>5, <1>6, <1>8, SumOfConcat, ConcatProperties DEF Divides

LEMMA SubroutineDivides ==
  ASSUME NEW sub \in SubroutineDecNode
  PROVE  Divides("SUBROUTINE_DEC", sub)
<1> DEFINE params == CallOn("PARAMETER_LIST", sub.params)
           body == CallOn("SUBROUTINE_BODY", sub)
<1>1. sub.params \in ParameterListNode
      /\ SubroutineVectors(sub) = Plus(VectorsOf("PARAMETER_LIST"), BodyVectors(sub))
      /\ BodyVectors(sub) \in Counts
  BY SubroutineTyped
<1>2. /\ [op |-> "PARAMETER_LIST", node |-> sub.params] \in Calls
      /\ [op |-> "SUBROUTINE_BODY", node |-> sub] \in Calls
  BY <1>1 DEF Calls
<1>3. params \in Seq(Calls) /\ SumOf(params) = VectorsOf("PARAMETER_LIST")
  BY <1>2, SumOfOn DEF CallCount
<1>4. body \in Seq(Calls) /\ SumOf(body) = BodyVectors(sub)
  BY <1>2, SumOfOn DEF CallCount
<1>5. Children("SUBROUTINE_DEC", sub) = params \o body
  BY DEF Children
<1>6. CallCount([op |-> "SUBROUTINE_DEC", node |-> sub]) = SubroutineVectors(sub)
  BY DEF CallCount
<1>7. VectorsOf("SUBROUTINE_DEC") = NoVectors
  BY DEF VectorsOf, NoVectors, Holders, VectorsIn
<1> HIDE DEF params, body
<1>8. /\ params \o body \in Seq(Calls)
      /\ SumOf(params \o body) = Plus(VectorsOf("PARAMETER_LIST"), BodyVectors(sub))
  BY <1>3, <1>4, SumOfConcat, ConcatProperties
<1>9. SubroutineVectors(sub) = Plus(NoVectors, SubroutineVectors(sub))
  BY SubroutineTyped, PlusLaws
<1> QED
  BY <1>1, <1>5, <1>6, <1>7, <1>8, <1>9 DEF Divides

LEMMA BodyDivides ==
  ASSUME NEW sub \in SubroutineDecNode
  PROVE  Divides("SUBROUTINE_BODY", sub)
<1> DEFINE decs == CallEach("VAR_DEC", sub.varDecs)
           body == CallOn("STATEMENTS", sub.body)
<1>1. /\ sub.varDecs \in Seq(VarDecNode) /\ sub.body \in Seq(Statements)
  BY SubroutineTyped
<1>2. /\ [op : {"VAR_DEC"}, node : VarDecNode] \subseteq Calls
      /\ [op |-> "STATEMENTS", node |-> sub.body] \in Calls
  BY <1>1 DEF Calls
<1>3. decs \in Seq(Calls) /\ SumOf(decs) = Each("VAR_DEC", sub.varDecs)
  <2>1. [i \in 1 .. Len(sub.varDecs) |->
           CallCount([op |-> "VAR_DEC", node |-> sub.varDecs[i]])]
          = [i \in 1 .. Len(sub.varDecs) |-> VectorsOf("VAR_DEC")]
    BY DEF CallCount
  <2> QED
    BY <1>1, <1>2, <2>1, SumOfEach DEF Each
<1>4. body \in Seq(Calls) /\ SumOf(body) = BlockVectors(StatementVectors, sub.body)
  BY <1>2, SumOfOn DEF CallCount
<1>5. Children("SUBROUTINE_BODY", sub) = decs \o body
  BY DEF Children
<1>6. CallCount([op |-> "SUBROUTINE_BODY", node |-> sub]) = BodyVectors(sub)
  BY DEF CallCount
<1> HIDE DEF decs, body
<1> QED
  BY <1>3, <1>4, <1>5, <1>6, SumOfConcat, ConcatProperties DEF Divides, BodyVectors

LEMMA BlockDivides ==
  ASSUME NEW block \in Seq(Statements)
  PROVE  Divides("STATEMENTS", block)
<1>1. [op : {"STATEMENT"}, node : Statements] \subseteq Calls
  BY DEF Calls
<1>2. Children("STATEMENTS", block) = CallEach("STATEMENT", block)
  BY DEF Children
<1>3. CallCount([op |-> "STATEMENTS", node |-> block]) = BlockVectors(StatementVectors, block)
  BY DEF CallCount
<1>4. [i \in 1 .. Len(block) |-> CallCount([op |-> "STATEMENT", node |-> block[i]])]
        = [i \in 1 .. Len(block) |-> StatementVectors[block[i]]]
  BY DEF CallCount
<1> QED
  BY <1>1, <1>2, <1>3, <1>4, SumOfEach DEF Divides, BlockVectors

(* The calls on a list of expressions, and on an expression.               *)
LEMMA ExpressionCalls ==
  /\ \A list \in Seq(Expressions) :
       /\ CallEach("EXPRESSION", list) \in Seq(Calls)
       /\ SumOf(CallEach("EXPRESSION", list)) = Parts(list)
  /\ \A e \in Expressions : /\ CallOn("EXPRESSION", e) \in Seq(Calls)
                            /\ SumOf(CallOn("EXPRESSION", e)) = Expression(e)
<1>1. [op : {"EXPRESSION"}, node : Expressions] \subseteq Calls
  BY DEF Calls
<1>2. ASSUME NEW list \in Seq(Expressions)
      PROVE  /\ CallEach("EXPRESSION", list) \in Seq(Calls)
             /\ SumOf(CallEach("EXPRESSION", list)) = Parts(list)
  <2>1. [i \in 1 .. Len(list) |-> CallCount([op |-> "EXPRESSION", node |-> list[i]])]
          = [i \in 1 .. Len(list) |-> Expression(list[i])]
    BY DEF CallCount
  <2> QED
    BY <1>1, <2>1, SumOfEach DEF Parts
<1>3. ASSUME NEW e \in Expressions
      PROVE  /\ CallOn("EXPRESSION", e) \in Seq(Calls)
             /\ SumOf(CallOn("EXPRESSION", e)) = Expression(e)
  <2>1. [op |-> "EXPRESSION", node |-> e] \in Calls
    BY <1>1
  <2> QED
    BY <2>1, SumOfOn DEF CallCount
<1> QED
  BY <1>2, <1>3

LEMMA BlockCalls ==
  ASSUME NEW block \in Seq(Statements)
  PROVE  /\ CallOn("STATEMENTS", block) \in Seq(Calls)
         /\ SumOf(CallOn("STATEMENTS", block)) = BlockVectors(StatementVectors, block)
<1>1. [op |-> "STATEMENTS", node |-> block] \in Calls
  BY DEF Calls
<1> QED
  BY <1>1, SumOfOn DEF CallCount

LEMMA CallCalls ==
  ASSUME NEW call \in SubroutineCalls
  PROVE  /\ CallOn("SUBROUTINE_CALL", call) \in Seq(Calls)
         /\ SumOf(CallOn("SUBROUTINE_CALL", call)) = CallVectors(TermVectors, call)
<1>1. [op |-> "SUBROUTINE_CALL", node |-> call] \in Calls
  BY DEF Calls
<1> QED
  BY <1>1, SumOfOn DEF CallCount

LEMMA CallDivides ==
  ASSUME NEW call \in SubroutineCalls
  PROVE  Divides("SUBROUTINE_CALL", call)
<1>1. call.args \in Seq(Expressions)
  BY CallParts DEF SubroutineCalls, Expressions
<1>2. Children("SUBROUTINE_CALL", call) = CallEach("EXPRESSION", call.args)
  BY DEF Children
<1>3. CallCount([op |-> "SUBROUTINE_CALL", node |-> call])
        = Plus(VectorsOf("SUBROUTINE_CALL"), Parts(call.args))
  BY DEF CallCount, CallVectors, Parts, Expression
<1> QED
  BY <1>1, <1>2, <1>3, ExpressionCalls DEF Divides

LEMMA ExpressionDivides ==
  ASSUME NEW e \in Expressions
  PROVE  Divides("EXPRESSION", e)
<1> DEFINE first == CallOn("TERM", e.term)
           terms == [i \in 1 .. Len(e.ops) |-> e.ops[i].term]
           rest == [i \in 1 .. Len(e.ops) |-> [op |-> "TERM", node |-> e.ops[i].term]]
           counts == [i \in 1 .. Len(e.ops) |-> TermVectors[e.ops[i].term]]
<1>1. /\ e.term \in Terms /\ Len(e.ops) \in Nat
      /\ \A i \in 1 .. Len(e.ops) : e.ops[i].term \in Terms
  BY ExpressionParts DEF Expressions
<1>2. [op : {"TERM"}, node : Terms] \subseteq Calls
  BY DEF Calls
<1>3. first \in Seq(Calls) /\ SumOf(first) = TermVectors[e.term]
  <2>1. [op |-> "TERM", node |-> e.term] \in Calls
    BY <1>1, <1>2
  <2> QED
    BY <2>1, SumOfOn DEF CallCount
<1>4. rest \in Seq(Calls) /\ SumOf(rest) = Total(counts)
  <2>1. terms \in Seq(Terms) /\ Len(terms) = Len(e.ops)
        /\ \A i \in 1 .. Len(e.ops) : terms[i] = e.ops[i].term
    BY <1>1
  <2> HIDE DEF terms
  <2>2. CallEach("TERM", terms) = rest
    BY <2>1 DEF CallEach
  <2>3. [i \in 1 .. Len(terms) |-> CallCount([op |-> "TERM", node |-> terms[i]])] = counts
    BY <2>1 DEF CallCount
  <2>4. /\ CallEach("TERM", terms) \in Seq(Calls)
        /\ SumOf(CallEach("TERM", terms))
             = Total([i \in 1 .. Len(terms) |-> CallCount([op |-> "TERM", node |-> terms[i]])])
    BY <1>2, <2>1, SumOfEach
  <2> HIDE DEF rest, counts
  <2> QED
    BY <2>2, <2>3, <2>4
<1>5. Children("EXPRESSION", e) = first \o rest
  BY DEF Children
<1>6. CallCount([op |-> "EXPRESSION", node |-> e])
        = Total(<<VectorsOf("EXPRESSION"), TermVectors[e.term], Total(counts)>>)
  BY DEF CallCount, Expression, ExpressionVectors
<1>7. TermVectors[e.term] \in Counts /\ Total(counts) \in Counts
      /\ VectorsOf("EXPRESSION") \in Counts
  <2>1. counts \in Seq(Counts)
    BY <1>1, TermCounts
  <2> QED
    BY <1>1, <2>1, TermCounts, TotalTyped, PlusLaws
<1> HIDE DEF first, rest, counts
<1>8. CallCount([op |-> "EXPRESSION", node |-> e])
        = Plus(VectorsOf("EXPRESSION"), Plus(TermVectors[e.term], Total(counts)))
  BY <1>6, <1>7, TotalOfThree
<1> QED
  BY <1>3, <1>4, <1>5, <1>8, SumOfConcat, ConcatProperties DEF Divides

LEMMA TermDivides ==
  ASSUME NEW term \in Terms
  PROVE  Divides("TERM", term)
<1>1. CallCount([op |-> "TERM", node |-> term]) = TermVectorsAt(TermVectors, term)
  BY TermVectorsEquation DEF CallCount
<1>2. Children("TERM", term) = ChildrenOfTerm(term)
  BY DEF Children
<1>3. VectorsOf("TERM") = NoVectors
  BY DEF VectorsOf, NoVectors, Holders, VectorsIn
<1>4. /\ ChildrenOfTerm(term) \in Seq(Calls)
      /\ SumOf(ChildrenOfTerm(term)) = TermVectorsAt(TermVectors, term)
  <2>1. CASE term \in SimpleTerms
    <3>1. ChildrenOfTerm(term) = <<>> /\ TermVectorsAt(TermVectors, term) = NoVectors
      BY <2>1, SimpleTermKinds DEF ChildrenOfTerm, TermVectorsAt, CompoundKinds
    <3> QED
      BY <3>1, SumOfNone
  <2>2. CASE term \in CompoundTerms(Terms)
    <3>1. CASE term.is = "call" /\ term.call \in SubroutineCallNode(Terms)
      BY <3>1, CallCalls DEF ChildrenOfTerm, TermVectorsAt, SubroutineCalls
    <3>2. CASE term.is = "paren" /\ term.of \in ExpressionNode(Terms)
      BY <3>2, ExpressionCalls DEF ChildrenOfTerm, TermVectorsAt, Expressions, Expression
    <3>3. CASE term.is = "array" /\ term.index \in ExpressionNode(Terms)
      BY <3>3, ExpressionCalls DEF ChildrenOfTerm, TermVectorsAt, Expressions, Expression
    <3>4. CASE term.is = "unary" /\ term.of \in Terms
      <4>1. [op |-> "TERM", node |-> term.of] \in Calls
        BY <3>4 DEF Calls
      <4>2. CallCount([op |-> "TERM", node |-> term.of]) = TermVectors[term.of]
        BY DEF CallCount
      <4> QED
        BY <3>4, <4>1, <4>2, SumOfOn DEF ChildrenOfTerm, TermVectorsAt
    <3> QED
      BY <2>2, <3>1, <3>2, <3>3, <3>4, CompoundTermKinds
  <2> QED
    BY <2>1, <2>2, TermParts
<1>5. TermVectorsAt(TermVectors, term) \in Counts
  BY TermCounts, TermVectorsEquation
<1> QED
  BY <1>1, <1>2, <1>3, <1>4, <1>5, PlusLaws DEF Divides

LEMMA StatementDivides ==
  ASSUME NEW s \in Statements
  PROVE  Divides("STATEMENT", s)
<1>1. CallCount([op |-> "STATEMENT", node |-> s]) = StatementVectorsAt(StatementVectors, s)
  BY StatementVectorsEquation DEF CallCount
<1>2. Children("STATEMENT", s) = ChildrenOfStatement(s)
  BY DEF Children
<1>3. VectorsOf("STATEMENT") = NoVectors
  BY DEF VectorsOf, NoVectors, Holders, VectorsIn
<1>4. /\ ChildrenOfStatement(s) \in Seq(Calls)
      /\ SumOf(ChildrenOfStatement(s)) = StatementVectorsAt(StatementVectors, s)
  <2>1. CASE s.is = "let" /\ s.right \in Expressions /\ s.index \in Seq(Expressions)
    <3>1. /\ ChildrenOfStatement(s) = CallEach("EXPRESSION", s.index) \o CallOn("EXPRESSION", s.right)
          /\ StatementVectorsAt(StatementVectors, s) = Plus(Parts(s.index), Expression(s.right))
      BY <2>1 DEF ChildrenOfStatement, StatementVectorsAt
    <3> QED
      BY <2>1, <3>1, ExpressionCalls, SumOfConcat, ConcatProperties
  <2>2. CASE s.is = "do" /\ s.call \in SubroutineCalls
    BY <2>2, CallCalls DEF ChildrenOfStatement, StatementVectorsAt
  <2>3. CASE s.is = "return" /\ s.value \in Seq(Expressions)
    BY <2>3, ExpressionCalls DEF ChildrenOfStatement, StatementVectorsAt
  <2>4. CASE s.is = "while" /\ s.condition \in Expressions /\ s.body \in Seq(Statements)
    <3>1. /\ ChildrenOfStatement(s) = CallOn("EXPRESSION", s.condition) \o CallOn("STATEMENTS", s.body)
          /\ StatementVectorsAt(StatementVectors, s)
               = Plus(Expression(s.condition), BlockVectors(StatementVectors, s.body))
      BY <2>4 DEF ChildrenOfStatement, StatementVectorsAt
    <3> QED
      BY <2>4, <3>1, ExpressionCalls, BlockCalls, SumOfConcat, ConcatProperties
  <2>5. CASE /\ s.is = "if" /\ s.condition \in Expressions
             /\ s.then \in Seq(Statements) /\ s.else \in Seq(Statements)
    <3> DEFINE condition == CallOn("EXPRESSION", s.condition)
               then == CallOn("STATEMENTS", s.then)
               else == CallEach("STATEMENTS", IfPresent(s.else))
               c == Expression(s.condition)
               t == BlockVectors(StatementVectors, s.then)
               e == IF s.else = <<>> THEN NoVectors ELSE BlockVectors(StatementVectors, s.else)
    <3>1. /\ ChildrenOfStatement(s) = (condition \o then) \o else
          /\ StatementVectorsAt(StatementVectors, s) = Total(<<c, t, e>>)
      BY <2>5 DEF ChildrenOfStatement, StatementVectorsAt
    <3>2. condition \in Seq(Calls) /\ SumOf(condition) = c
      BY <2>5, ExpressionCalls
    <3>3. then \in Seq(Calls) /\ SumOf(then) = t
      BY <2>5, BlockCalls
    <3>4. else \in Seq(Calls) /\ SumOf(else) = e
      <4>1. CASE s.else = <<>>
        <5>1. else = <<>>
          BY <4>1 DEF CallEach, IfPresent
        <5> QED
          BY <4>1, <5>1, SumOfNone
      <4>2. CASE s.else # <<>>
        <5>1. else = CallOn("STATEMENTS", s.else)
          BY <4>2 DEF CallOn, IfPresent
        <5> QED
          BY <2>5, <4>2, <5>1, BlockCalls
      <4> QED
        BY <4>1, <4>2
    <3>5. c \in Counts /\ t \in Counts /\ e \in Counts
      BY <3>2, <3>3, <3>4, SumTyped
    <3> HIDE DEF condition, then, else, c, t, e
    <3>6. /\ (condition \o then) \o else \in Seq(Calls)
          /\ SumOf((condition \o then) \o else) = Plus(Plus(c, t), e)
      BY <3>2, <3>3, <3>4, SumOfConcat, ConcatProperties
    <3>7. Total(<<c, t, e>>) = Plus(c, Plus(t, e))
      BY <3>5, TotalOfThree
    <3>8. Plus(Plus(c, t), e) = Plus(c, Plus(t, e))
      BY <3>5, PlusLaws
    <3> QED
      BY <3>1, <3>6, <3>7, <3>8
  <2> QED
    BY <2>1, <2>2, <2>3, <2>4, <2>5, StatementParts, SimpleStatementKinds,
       CompoundStatementKinds
<1>5. StatementVectorsAt(StatementVectors, s) \in Counts
  BY StatementCounts, StatementVectorsEquation
<1> QED
  BY <1>1, <1>2, <1>3, <1>4, <1>5, PlusLaws DEF Divides

(* So it is for the calls destroy_ast_node makes for every part of every   *)
(* tree, by induction over the tree.                                       *)
THEOREM EveryCallDivides == \A call \in Calls : Divides(call.op, call.node)
<1> SUFFICES ASSUME NEW call \in Calls PROVE Divides(call.op, call.node)
  OBVIOUS
<1>1. \/ call.op = "PROGRAM" /\ call.node \in ProgramNode
      \/ call.op = "CLASS" /\ call.node \in ClassNode
      \/ call.op \in {"SUBROUTINE_DEC", "SUBROUTINE_BODY"} /\ call.node \in SubroutineDecNode
      \/ call.op = "STATEMENTS" /\ call.node \in Seq(Statements)
      \/ call.op = "STATEMENT" /\ call.node \in Statements
      \/ call.op = "SUBROUTINE_CALL" /\ call.node \in SubroutineCalls
      \/ call.op = "EXPRESSION" /\ call.node \in Expressions
      \/ call.op = "TERM" /\ call.node \in Terms
      \/ call.op \in {"CLASS_VAR_DEC", "PARAMETER_LIST", "VAR_DEC"}
  BY DEF Calls
<1> QED
  BY <1>1, ProgramDivides, ClassDivides, SubroutineDivides, BodyDivides, BlockDivides,
     StatementDivides, CallDivides, ExpressionDivides, TermDivides, LeafDivides

-----------------------------------------------------------------------------
(* The visits of ANALYZE and GENERATE.                                     *)
Labels == [prefix : LabelPrefixes, number : Nat]

Marks == [op : {"label", "goto"}, label : Labels]

WalkVisits ==
  [op : {"class"}, node : ClassNode]
    \union [op : {"subroutine"}, node : SubroutineDecNode]
    \union [op : {"statement"}, node : Statements]
    \union [op : {"declared"}, node : [name : Names \union {Null}, depth : {"GLOBAL", "LOCAL"}]]
    \union [op : {"write"}, node : Writings(Marks)]
    \union {Leave}

LEMMA StatementVisits ==
  ASSUME NEW block \in Seq(Statements)
  PROVE  Visits("statement", block) \in Seq(WalkVisits)
<1>1. Visits("statement", block) \in Seq([op : {"statement"}, node : Statements])
  BY VisitsOf
<1>2. [op : {"statement"}, node : Statements] \subseteq WalkVisits
  BY DEF WalkVisits
<1> HIDE DEF WalkVisits
<1> QED
  BY <1>1, <1>2, SeqMonotonic

LEMMA ProgramVisits ==
  ASSUME NEW p \in ProgramNode
  PROVE  Visits("class", p) \in Seq(WalkVisits)
<1>1. p \in Seq(ClassNode)
  BY DEF ProgramNode
<1>2. Visits("class", p) \in Seq([op : {"class"}, node : ClassNode])
  BY <1>1, VisitsOf
<1>3. [op : {"class"}, node : ClassNode] \subseteq WalkVisits
  BY DEF WalkVisits
<1> HIDE DEF WalkVisits
<1> QED
  BY <1>2, <1>3, SeqMonotonic

LEMMA SubroutineDecVisits ==
  ASSUME NEW subs \in Seq(SubroutineDecNode)
  PROVE  Visits("subroutine", subs) \in Seq(WalkVisits)
<1>1. Visits("subroutine", subs) \in Seq([op : {"subroutine"}, node : SubroutineDecNode])
  BY VisitsOf
<1>2. [op : {"subroutine"}, node : SubroutineDecNode] \subseteq WalkVisits
  BY DEF WalkVisits
<1> HIDE DEF WalkVisits
<1> QED
  BY <1>1, <1>2, SeqMonotonic

LEMMA CheckedVisits ==
  ASSUME NEW depth \in {"GLOBAL", "LOCAL"}, NEW names \in Seq(Names \union {Null})
  PROVE  Checked(depth, names) \in Seq(WalkVisits)
<1>1. \A i \in 1 .. Len(names) :
        Visit("declared", [name |-> names[i], depth |-> depth]) \in WalkVisits
  <2>1. \A i \in 1 .. Len(names) : names[i] \in Names \union {Null}
    OBVIOUS
  <2> QED
    BY <2>1 DEF WalkVisits, Visit
<1> HIDE DEF WalkVisits
<1> QED
  BY <1>1 DEF Checked

LEMMA LeaveVisit == <<Leave>> \in Seq(WalkVisits)
<1>1. Leave \in WalkVisits
  BY DEF WalkVisits
<1> HIDE DEF WalkVisits, Leave
<1> QED
  BY <1>1

LEMMA VariableNames ==
  ASSUME NEW class \in ClassNode
  PROVE  ClassVariableNames(class) \in Seq(Names \union {Null})
<1> DEFINE lists == [i \in 1 .. Len(class.vars) |-> class.vars[i].names]
<1>1. class.vars \in Seq(ClassVarDecNode)
  BY DEF ClassNode
<1>2. \A i \in 1 .. Len(class.vars) : class.vars[i].names \in Seq(Names)
  <2> HIDE DEF ClassVarDecNode
  <2>1. \A i \in 1 .. Len(class.vars) : class.vars[i] \in ClassVarDecNode
    BY <1>1
  <2> QED
    BY <2>1 DEF ClassVarDecNode
<1>3. lists \in Seq(Seq(Names))
  BY <1>1, <1>2
<1>4. FlattenSeq(lists) \in Seq(Names)
  <2> HIDE DEF lists
  <2> QED
    BY <1>3, Flattened
<1> QED
  BY <1>4 DEF ClassVariableNames

LEMMA NamesToCheck ==
  ASSUME NEW sub \in SubroutineDecNode
  PROVE  /\ [i \in 1 .. Len(sub.params.types) |-> NameAt(sub.params.names, i)] \in Seq(Names \union {Null})
         /\ [i \in 1 .. Len(sub.varDecs) |-> NameAt(sub.varDecs[i].names, i)] \in Seq(Names \union {Null})
         /\ SubroutineNames(sub) \in Seq(WalkVisits)
<1> DEFINE params == [i \in 1 .. Len(sub.params.types) |-> NameAt(sub.params.names, i)]
           locals == [i \in 1 .. Len(sub.varDecs) |-> NameAt(sub.varDecs[i].names, i)]
<1>1. sub.params \in ParameterListNode /\ sub.varDecs \in Seq(VarDecNode)
  BY SubroutineTyped
<1>2. /\ sub.params.types \in Seq(Types) /\ sub.params.names \in Seq(Names)
      /\ \A i \in 1 .. Len(sub.varDecs) : sub.varDecs[i].names \in Seq(Names)
  <2>1. \A i \in 1 .. Len(sub.varDecs) : sub.varDecs[i] \in VarDecNode
    <3> HIDE DEF VarDecNode
    <3> QED
      BY <1>1
  <2> QED
    BY <1>1, <2>1 DEF ParameterListNode, VarDecNode
<1>3. \A names \in Seq(Names) : \A i \in Nat \ {0} : NameAt(names, i) \in Names \union {Null}
  BY DEF NameAt
<1>4. params \in Seq(Names \union {Null})
  BY <1>2, <1>3
<1>5. locals \in Seq(Names \union {Null})
  BY <1>1, <1>2, <1>3
<1>6. SubroutineNames(sub) = Checked("GLOBAL", params) \o Checked("LOCAL", locals)
  BY DEF SubroutineNames
<1> HIDE DEF params, locals
<1>7. SubroutineNames(sub) \in Seq(WalkVisits)
  BY <1>4, <1>5, <1>6, CheckedVisits, ConcatProperties
<1> QED
  BY <1>4, <1>5, <1>7 DEF params, locals

(* A mark, a jump to one and a mark, to be written after a block.          *)
LEMMA MarksWritten ==
  ASSUME labelCounters \in [LabelPrefixes -> Nat],
         NEW here \in LabelPrefixes, NEW there \in LabelPrefixes
  PROVE  /\ write_label(generate_unique_label(here)) \in Writings(Marks)
         /\ Followed(write_goto(generate_unique_label(there)),
                     write_label(generate_unique_label(here))) \in Writings(Marks)
<1> DEFINE a == generate_unique_label(here)
           b == generate_unique_label(there)
<1>1. a \in Labels /\ b \in Labels
  BY DEF Labels, generate_unique_label
<1> HIDE DEF a, b
<1>2. [op |-> "label", label |-> a] \in Marks /\ [op |-> "goto", label |-> b] \in Marks
  BY <1>1 DEF Marks
<1>3. <<[op |-> "label", label |-> a]>> \in Seq(Marks) /\ <<[op |-> "goto", label |-> b]>> \in Seq(Marks)
  <2> HIDE DEF Marks
  <2> QED
    BY <1>2
<1>4. write_label(a) \in Writings(Marks) /\ write_goto(b) \in Writings(Marks)
  BY <1>3 DEF write_label, write_goto, Written, Writings, Fates
<1>5. Followed(write_goto(b), write_label(a)) \in Writings(Marks)
  BY <1>4, FollowedTyped
<1> QED
  BY <1>4, <1>5 DEF a, b

LEMMA LaterVisits ==
  ASSUME labelCounters \in [LabelPrefixes -> Nat],
         NEW here \in LabelPrefixes, NEW there \in LabelPrefixes
  PROVE  /\ <<Later(write_label(generate_unique_label(here)))>> \in Seq(WalkVisits)
         /\ <<Later(Followed(write_goto(generate_unique_label(there)),
                             write_label(generate_unique_label(here))))>> \in Seq(WalkVisits)
<1>1. \A w \in Writings(Marks) : Later(w) \in WalkVisits
  BY DEF Later, Visit, WalkVisits
<1> HIDE DEF WalkVisits
<1>2. \A w \in Writings(Marks) : <<Later(w)>> \in Seq(WalkVisits)
  BY <1>1
<1> QED
  BY <1>2, MarksWritten

-----------------------------------------------------------------------------
(* What the walks of ANALYZE and GENERATE keep.                            *)
WalkInv ==
  /\ labelCounters \in [LabelPrefixes -> Nat]
  /\ phase \in {"ANALYZE", "GENERATE"} /\ outcome = "running" => todo \in Seq(WalkVisits)

LEMMA NodeTyped ==
  ASSUME todo \in Seq(WalkVisits), todo # <<>>
  PROVE  /\ Head(todo).op = "class" => node \in ClassNode
         /\ Head(todo).op = "subroutine" => node \in SubroutineDecNode
         /\ Head(todo).op = "statement" => node \in Statements
         /\ Head(todo).op = "write" => node \in Writings(Marks)
         /\ Tail(todo) \in Seq(WalkVisits)
         /\ Head(todo).op # "end"
<1>1. Head(todo) \in WalkVisits /\ Tail(todo) \in Seq(WalkVisits)
  <2> HIDE DEF WalkVisits
  <2> QED
    OBVIOUS
<1>2. \/ Head(todo).op = "class" /\ node \in ClassNode
      \/ Head(todo).op = "subroutine" /\ node \in SubroutineDecNode
      \/ Head(todo).op = "statement" /\ node \in Statements
      \/ Head(todo).op = "declared"
      \/ Head(todo).op = "write" /\ node \in Writings(Marks)
      \/ Head(todo).op = "leave"
  BY <1>1 DEF WalkVisits, Leave, Visit, node
<1> QED
  BY <1>1, <1>2

(* How a step of a walk goes on.                                           *)
GoesOn == todo' \in Seq(WalkVisits) /\ outcome' \in Fates

LEMMA Goes ==
  ASSUME todo \in Seq(WalkVisits), todo # <<>>, NEW r, NEW visits \in Seq(WalkVisits),
         r.fate \in Fates, Go(r, visits)
  PROVE  GoesOn
<1>1. Tail(todo) \in Seq(WalkVisits)
  BY NodeTyped
<1>2. visits \o Tail(todo) \in Seq(WalkVisits)
  BY <1>1, ConcatProperties
<1> QED
  BY <1>2 DEF Go, GoesOn

LEMMA Proceeds ==
  ASSUME todo \in Seq(WalkVisits), todo # <<>>, NEW visits \in Seq(WalkVisits), Proceed(visits)
  PROVE  GoesOn
<1>1. Typed(Unset).fate \in Fates
  BY DEF Typed, Fates
<1> QED
  BY <1>1, Goes DEF Proceed

LEMMA NoVisits == <<>> \in Seq(WalkVisits)
OBVIOUS

LEMMA Fated ==
  /\ \A T : \A r \in Results(T) : r.fate \in Fates
  /\ \A w : IsWritten(w) => w.fate \in Fates
  /\ \A how \in Fates : Dead(how).fate \in Fates
  /\ \A type : Typed(type).fate \in Fates /\ Error(Typed(type)).fate \in Fates
<1>1. \A T : \A r \in Results(T) : r.fate \in Fates
  BY DEF Results
<1>2. \A w : IsWritten(w) => w.fate \in Fates
  BY DEF IsWritten, Writings
<1>3. \A how \in Fates : Dead(how).fate \in Fates
  BY DEF Dead
<1>4. \A type : Typed(type).fate \in Fates /\ Error(Typed(type)).fate \in Fates
  BY DEF Typed, Error, Fates
<1> QED
  BY <1>1, <1>2, <1>3, <1>4

LEMMA AnalysisGoesOn ==
  WalkInv /\ (\/ analyze_class_node \/ analyze_declaration \/ analyze_subroutine_dec_node
              \/ analyze_let_statement_node \/ analyze_if_statement_node
              \/ analyze_while_statement_node \/ analyze_do_statement_node
              \/ analyze_return_statement_node) => GoesOn
<1> SUFFICES ASSUME WalkInv,
                    \/ analyze_class_node \/ analyze_declaration \/ analyze_subroutine_dec_node
                    \/ analyze_let_statement_node \/ analyze_if_statement_node
                    \/ analyze_while_statement_node \/ analyze_do_statement_node
                    \/ analyze_return_statement_node
             PROVE  GoesOn
  OBVIOUS
<1> USE NodeTyped, NoVisits, Fated
<1>1. CASE analyze_class_node
  <2> DEFINE visits == Checked("GLOBAL", ClassVariableNames(node)) \o Visits("subroutine", node.subs)
  <2>1. todo \in Seq(WalkVisits) /\ todo # <<>> /\ node \in ClassNode
    BY <1>1 DEF WalkInv, analyze_class_node, EnterClass, Doing
  <2>2. node.subs \in Seq(SubroutineDecNode)
    BY <2>1 DEF ClassNode
  <2>3. visits \in Seq(WalkVisits)
    BY <2>1, <2>2, VariableNames, CheckedVisits, SubroutineDecVisits, ConcatProperties
  <2>4. visits \o <<Leave>> \in Seq(WalkVisits)
    <3> HIDE DEF visits
    <3> QED
      BY <2>3, LeaveVisit, ConcatProperties
  <2>5. Proceed(visits \o <<Leave>>) \/ Go(Error(Typed(Unset)), <<>>)
    BY <1>1 DEF analyze_class_node, EnterClass
  <2> QED
    BY <2>1, <2>4, <2>5, Proceeds, Goes
<1>2. CASE analyze_declaration
  <2>1. todo \in Seq(WalkVisits) /\ todo # <<>> /\ Go(Declared(node.name, node.depth), <<>>)
    BY <1>2 DEF WalkInv, analyze_declaration, Doing
  <2>2. \A name, depth : Declared(name, depth).fate \in Fates
    <3>1. "aborted" \in Fates /\ "crashed" \in Fates
      BY DEF Fates
    <3> QED
      BY <3>1 DEF Declared
  <2> QED
    BY <2>1, <2>2, Goes
<1>3. CASE analyze_subroutine_dec_node
  <2> DEFINE visits == SubroutineNames(node) \o Visits("statement", node.body)
  <2>1. todo \in Seq(WalkVisits) /\ todo # <<>> /\ node \in SubroutineDecNode
    BY <1>3 DEF WalkInv, analyze_subroutine_dec_node, Doing
  <2>2. node.body \in Seq(Statements)
    BY <2>1, SubroutineTyped
  <2>3. visits \in Seq(WalkVisits)
    BY <2>1, <2>2, NamesToCheck, StatementVisits, ConcatProperties
  <2>4. visits \o <<Leave>> \in Seq(WalkVisits)
    <3> HIDE DEF visits
    <3> QED
      BY <2>3, LeaveVisit, ConcatProperties
  <2>5. Proceed(visits \o <<Leave>>) \/ Go(Error(Typed(Unset)), <<>>)
    BY <1>3 DEF analyze_subroutine_dec_node
  <2> QED
    BY <2>1, <2>4, <2>5, Proceeds, Goes
<1>4. CASE analyze_let_statement_node
  <2>1. /\ todo \in Seq(WalkVisits) /\ todo # <<>> /\ node \in Statements /\ node.is = "let"
        /\ Go(analyze_let(node), <<>>)
    BY <1>4 DEF WalkInv, analyze_let_statement_node, Statement, Doing
  <2>2. analyze_let(node).fate \in Fates
    BY <2>1, StatementOutcomes
  <2> QED
    BY <2>1, <2>2, Goes
<1>5. CASE analyze_if_statement_node
  <2> DEFINE visits == Visits("statement", node.then) \o Visits("statement", node.else)
  <2>1. /\ todo \in Seq(WalkVisits) /\ todo # <<>> /\ node \in Statements /\ node.is = "if"
        /\ Go(analyze_condition(node.condition), visits)
    BY <1>5 DEF WalkInv, analyze_if_statement_node, Statement, Doing
  <2>2. analyze_condition(node.condition).fate \in Fates
    BY <2>1, StatementOutcomes
  <2>3. node.then \in Seq(Statements) /\ node.else \in Seq(Statements)
    BY <2>1, StatementParts, SimpleStatementKinds, CompoundStatementKinds
  <2>4. visits \in Seq(WalkVisits)
    BY <2>3, StatementVisits, ConcatProperties
  <2> QED
    BY <2>1, <2>2, <2>4, Goes
<1>6. CASE analyze_while_statement_node
  <2>1. /\ todo \in Seq(WalkVisits) /\ todo # <<>> /\ node \in Statements /\ node.is = "while"
        /\ Go(analyze_condition(node.condition), Visits("statement", node.body))
    BY <1>6 DEF WalkInv, analyze_while_statement_node, Statement, Doing
  <2>2. analyze_condition(node.condition).fate \in Fates
    BY <2>1, StatementOutcomes
  <2>3. node.body \in Seq(Statements)
    BY <2>1, StatementParts, SimpleStatementKinds, CompoundStatementKinds
  <2> QED
    BY <2>1, <2>2, <2>3, StatementVisits, Goes
<1>7. CASE analyze_do_statement_node
  <2>1. /\ todo \in Seq(WalkVisits) /\ todo # <<>> /\ node \in Statements /\ node.is = "do"
        /\ Go(analyze_call(node.call), <<>>)
    BY <1>7 DEF WalkInv, analyze_do_statement_node, Statement, Doing
  <2>2. analyze_call(node.call).fate \in Fates
    BY <2>1, StatementOutcomes
  <2> QED
    BY <2>1, <2>2, Goes
<1>8. CASE analyze_return_statement_node
  <2>1. /\ todo \in Seq(WalkVisits) /\ todo # <<>> /\ node \in Statements /\ node.is = "return"
        /\ Go(analyze_return(node.value), <<>>)
    BY <1>8 DEF WalkInv, analyze_return_statement_node, Statement, Doing
  <2>2. analyze_return(node.value).fate \in Fates
    BY <2>1, StatementOutcomes
  <2> QED
    BY <2>1, <2>2, Goes
<1> QED
  BY <1>1, <1>2, <1>3, <1>4, <1>5, <1>6, <1>7, <1>8

LEMMA GenerationGoesOn ==
  WalkInv /\ (\/ generate_class_node \/ generate_sub_dec_node \/ generate_stmt_node
              \/ generate_if_node \/ generate_while_node \/ write_later)
    => GoesOn /\ labelCounters' \in [LabelPrefixes -> Nat]
<1> SUFFICES ASSUME WalkInv,
                    \/ generate_class_node \/ generate_sub_dec_node \/ generate_stmt_node
                    \/ generate_if_node \/ generate_while_node \/ write_later
             PROVE  GoesOn /\ labelCounters' \in [LabelPrefixes -> Nat]
  OBVIOUS
<1> USE NodeTyped, NoVisits, Fated
<1>1. CASE generate_class_node
  <2>1. /\ todo \in Seq(WalkVisits) /\ todo # <<>> /\ node \in ClassNode
        /\ labelCounters' = labelCounters
    BY <1>1 DEF WalkInv, generate_class_node, EnterClass, Doing
  <2>2. node.subs \in Seq(SubroutineDecNode)
    BY <2>1 DEF ClassNode
  <2>3. Visits("subroutine", node.subs) \o <<Leave>> \in Seq(WalkVisits)
    BY <2>2, SubroutineDecVisits, LeaveVisit, ConcatProperties
  <2>4. Proceed(Visits("subroutine", node.subs) \o <<Leave>>) \/ Go(Error(Typed(Unset)), <<>>)
    BY <1>1 DEF generate_class_node, EnterClass
  <2> QED
    BY <2>1, <2>3, <2>4, Proceeds, Goes DEF WalkInv
<1>2. CASE generate_sub_dec_node
  <2> DEFINE symbol == Lookup(node.name, "LOCAL")
             head == generate_sub_head(node.kind, node.name, symbol)
             visits == Visits("statement", node.body) \o <<Leave>>
  <2>1. /\ todo \in Seq(WalkVisits) /\ todo # <<>> /\ node \in SubroutineDecNode
        /\ labelCounters' = labelCounters
    BY <1>2 DEF WalkInv, generate_sub_dec_node, Doing
  <2>2. node.body \in Seq(Statements) /\ node.kind \in SubroutineKinds
    BY <2>1, SubroutineTyped DEF SubroutineDecNode
  <2>3. visits \in Seq(WalkVisits)
    BY <2>2, StatementVisits, LeaveVisit, ConcatProperties
  <2>4. head.fate \in Fates
    BY <2>2, HeadsWritten
  <2>5. Go(head, visits) \/ Go(Error(Typed(Unset)), <<>>)
    BY <1>2 DEF generate_sub_dec_node, Write
  <2> HIDE DEF head, visits
  <2> QED
    BY <2>1, <2>3, <2>4, <2>5, Goes DEF WalkInv
<1>3. CASE generate_stmt_node
  <2>1. /\ todo \in Seq(WalkVisits) /\ todo # <<>> /\ node \in Statements
        /\ labelCounters' = labelCounters
    BY <1>3 DEF WalkInv, generate_stmt_node, Doing
  <2>2. \E w : IsWritten(w) /\ Go(w, <<>>)
    <3>1. CASE node.is = "let"
      <4>1. Go(generate_let(node), <<>>)
        BY <1>3, <3>1 DEF generate_stmt_node, Write
      <4> QED
        BY <2>1, <3>1, <4>1, StatementsWritten
    <3>2. CASE node.is = "do"
      <4>1. Go(generate_do(node), <<>>)
        BY <1>3, <3>2 DEF generate_stmt_node, Write
      <4> QED
        BY <2>1, <3>2, <4>1, StatementsWritten
    <3>3. CASE node.is = "return"
      <4>1. Go(generate_return(node.value), <<>>)
        BY <1>3, <3>3 DEF generate_stmt_node, Write
      <4> QED
        BY <2>1, <3>3, <4>1, StatementsWritten
    <3> QED
      BY <1>3, <3>1, <3>2, <3>3 DEF generate_stmt_node
  <2> QED
    BY <2>1, <2>2, Goes DEF WalkInv
<1>4. CASE generate_if_node
  <2> DEFINE true == generate_unique_label("IF_TRUE")
             false == generate_unique_label("IF_FALSE")
             end == generate_unique_label("IF_END")
             test == All(<<Generated(node.condition), write_arithmetic("not"),
                           write_if(false), write_label(true)>>)
             then == Visits("statement", node.then)
             skip == <<Later(Followed(write_goto(end), write_label(false)))>>
             else == Visits("statement", node.else)
             last == <<Later(write_label(end))>>
  <2>1. /\ todo \in Seq(WalkVisits) /\ todo # <<>> /\ node \in Statements /\ node.is = "if"
        /\ Labelled({"IF_TRUE", "IF_FALSE", "IF_END"})
    BY <1>4 DEF WalkInv, generate_if_node, Statement, Doing
  <2>2. Go(test, ((then \o skip) \o else) \o last)
    BY <1>4 DEF generate_if_node, Write
  <2>3. IsWritten(test)
    BY <2>1, StatementsWritten, InstructionsWritten, FourWritten, AllWritten
  <2>4. node.then \in Seq(Statements) /\ node.else \in Seq(Statements)
    BY <2>1, StatementParts, SimpleStatementKinds, CompoundStatementKinds
  <2>5. then \in Seq(WalkVisits) /\ else \in Seq(WalkVisits)
    BY <2>4, StatementVisits
  <2>6. skip \in Seq(WalkVisits) /\ last \in Seq(WalkVisits)
    <3>1. "IF_FALSE" \in LabelPrefixes /\ "IF_END" \in LabelPrefixes
      BY DEF LabelPrefixes
    <3> QED
      BY <3>1, LaterVisits DEF WalkInv
  <2>7. labelCounters' \in [LabelPrefixes -> Nat]
    BY <2>1 DEF Labelled, WalkInv
  <2> HIDE DEF test, then, skip, else, last
  <2>8. ((then \o skip) \o else) \o last \in Seq(WalkVisits)
    BY <2>5, <2>6, ConcatProperties
  <2> QED
    BY <2>1, <2>2, <2>3, <2>7, <2>8, Goes
<1>5. CASE generate_while_node
  <2> DEFINE start == generate_unique_label("WHILE_START")
             end == generate_unique_label("WHILE_END")
             test == All(<<write_label(start), Generated(node.condition),
                           write_arithmetic("not"), write_if(end)>>)
             body == Visits("statement", node.body)
             last == <<Later(Followed(write_goto(start), write_label(end)))>>
  <2>1. /\ todo \in Seq(WalkVisits) /\ todo # <<>> /\ node \in Statements /\ node.is = "while"
        /\ Labelled({"WHILE_START", "WHILE_END"})
    BY <1>5 DEF WalkInv, generate_while_node, Statement, Doing
  <2>2. Go(test, body \o last)
    BY <1>5 DEF generate_while_node, Write
  <2>3. IsWritten(test)
    BY <2>1, StatementsWritten, InstructionsWritten, FourWritten, AllWritten
  <2>4. node.body \in Seq(Statements)
    BY <2>1, StatementParts, SimpleStatementKinds, CompoundStatementKinds
  <2>5. body \in Seq(WalkVisits)
    BY <2>4, StatementVisits
  <2>6. last \in Seq(WalkVisits)
    <3>1. "WHILE_START" \in LabelPrefixes /\ "WHILE_END" \in LabelPrefixes
      BY DEF LabelPrefixes
    <3> QED
      BY <3>1, LaterVisits DEF WalkInv
  <2>7. labelCounters' \in [LabelPrefixes -> Nat]
    BY <2>1 DEF Labelled, WalkInv
  <2> HIDE DEF test, body, last
  <2>8. body \o last \in Seq(WalkVisits)
    BY <2>5, <2>6, ConcatProperties
  <2> QED
    BY <2>1, <2>2, <2>3, <2>7, <2>8, Goes
<1>6. CASE write_later
  <2>1. /\ todo \in Seq(WalkVisits) /\ todo # <<>> /\ node \in Writings(Marks)
        /\ Go(node, <<>>) /\ labelCounters' = labelCounters
    BY <1>6 DEF WalkInv, write_later, Doing, Write
  <2>2. node.fate \in Fates
    BY <2>1 DEF Writings
  <2> QED
    BY <2>1, <2>2, Goes DEF WalkInv
<1> QED
  BY <1>1, <1>2, <1>3, <1>4, <1>5, <1>6

-----------------------------------------------------------------------------
(* The vectors there are, are those that the calls still to be made have   *)
(* to find.                                                                *)
CallsLeft ==
  \E calls \in Seq(Calls), as \in {"done", "rejected"} :
    todo = calls \o <<Visit("end", as)>> /\ vectors = SumOf(calls)

FreeInv ==
  /\ WalkInv
  /\ program \in ProgramNode
  /\ phase \in {"BUILD", "ANALYZE", "GENERATE", "DESTROY"}
  /\ vectors \in Counts
  /\ phase # "DESTROY" => vectors = VectorsMade(program) /\ outcome \in Fates
  /\ phase = "DESTROY" /\ outcome = "running" => CallsLeft
  /\ outcome \in {"done", "rejected"} => vectors = NoVectors

(* A call that is made, and those it makes in turn.                        *)
LEMMA CallMade ==
  ASSUME NEW call \in Calls, NEW rest \in Seq(Calls)
  PROVE  /\ Children(call.op, call.node) \o rest \in Seq(Calls)
         /\ Freed(SumOf(<<call>> \o rest), call.op)
              = SumOf(Children(call.op, call.node) \o rest)
<1> DEFINE K == Children(call.op, call.node)
<1>1. /\ K \in Seq(Calls)
      /\ CallCount([op |-> call.op, node |-> call.node]) = Plus(VectorsOf(call.op), SumOf(K))
  BY EveryCallDivides DEF Divides
<1>2. call = [op |-> call.op, node |-> call.node]
  BY DEF Calls
<1> HIDE DEF K, Calls
<1>3. CallOn(call.op, call.node) = <<call>>
  BY <1>2 DEF CallOn, CallEach
<1>4. <<call>> \in Seq(Calls) /\ SumOf(<<call>>) = Plus(VectorsOf(call.op), SumOf(K))
  BY <1>1, <1>2, <1>3, SumOfOn
<1>5. /\ SumOf(<<call>> \o rest) = Plus(Plus(VectorsOf(call.op), SumOf(K)), SumOf(rest))
      /\ SumOf(K \o rest) = Plus(SumOf(K), SumOf(rest))
      /\ K \o rest \in Seq(Calls)
  BY <1>1, <1>4, SumOfConcat, ConcatProperties
<1>6. SumOf(K) \in Counts /\ SumOf(rest) \in Counts /\ VectorsOf(call.op) \in Counts
  BY <1>1, SumTyped, PlusLaws
<1>7. ASSUME NEW a \in Counts, NEW b \in Counts
      PROVE  Freed(Plus(Plus(VectorsOf(call.op), a), b), call.op) = Plus(a, b)
  <2> HIDE DEF Holders
  <2>1. \A type \in Holders : /\ a[type] \in Nat /\ b[type] \in Nat
                              /\ VectorsOf(call.op)[type] \in Nat
    BY <1>6 DEF Counts
  <2> QED
    BY <2>1 DEF Freed, Plus
<1> QED
  BY <1>5, <1>6, <1>7 DEF K

LEMMA NothingToFree ==
  ASSUME NEW calls \in Seq(Calls), NEW last, Head(calls \o <<last>>) \notin Calls
  PROVE  calls = <<>>
<1> SUFFICES ASSUME calls # <<>> PROVE FALSE
  OBVIOUS
<1> DEFINE S == Calls \union {last}
<1>1. calls \in Seq(S) /\ <<last>> \in Seq(S)
  <2>1. Calls \subseteq S /\ last \in S
    OBVIOUS
  <2> HIDE DEF S
  <2> QED
    BY <2>1, SeqMonotonic
<1>2. Head(calls) \in Calls
  <2> HIDE DEF Calls
  <2> QED
    OBVIOUS
<1> QED
  BY <1>1, <1>2, HeadOfConcat

LEMMA FirstCall ==
  ASSUME NEW calls \in Seq(Calls), NEW last, last \notin Calls, calls # <<>>
  PROVE  /\ Head(calls \o <<last>>) \in Calls
         /\ \E rest \in Seq(Calls) :
              /\ calls = <<Head(calls \o <<last>>)>> \o rest
              /\ \A new \in Seq(Calls) : new \o Tail(calls \o <<last>>) = (new \o rest) \o <<last>>
<1> DEFINE S == Calls \union {last}
<1>1. Calls \subseteq S /\ last \in S
  OBVIOUS
<1> HIDE DEF S, Calls
<1>2. calls \in Seq(S) /\ <<last>> \in Seq(S)
  BY <1>1, SeqMonotonic
<1>3. Head(calls \o <<last>>) = Head(calls) /\ Tail(calls \o <<last>>) = Tail(calls) \o <<last>>
  BY <1>2, HeadOfConcat
<1>4. calls = <<Head(calls)>> \o Tail(calls) /\ Head(calls) \in Calls /\ Tail(calls) \in Seq(Calls)
  BY HeadAndTail
<1>5. ASSUME NEW new \in Seq(Calls)
      PROVE  new \o Tail(calls \o <<last>>) = (new \o Tail(calls)) \o <<last>>
  <2>1. new \in Seq(S) /\ Tail(calls) \in Seq(S)
    BY <1>1, <1>4, SeqMonotonic
  <2> QED
    BY <1>2, <1>3, <2>1, ConcatAssociative
<1> QED
  BY <1>3, <1>4, <1>5

LEMMA EndIsNoCall == \A as : Visit("end", as) \notin Calls /\ Leave \notin Calls
BY DEF Visit, Leave, Calls

LEMMA StepsOfBuild ==
  FreeInv /\ (\/ AddLibraryClass \/ AddLibraryFunction \/ AddLibraryParameter
              \/ build_class_node \/ build_class_var_dec_node \/ build_subroutine_dec_node
              \/ build_variable)
    => phase' = "BUILD" /\ outcome' \in Fates /\ tree' = tree /\ labelCounters' = labelCounters
<1>1. Typed(Unset).fate \in Fates /\ Error(Typed(Unset)).fate \in Fates
      /\ Dead("aborted").fate \in Fates
  BY Fated DEF Fates
<1>2. phase = "BUILD" /\ AddLibraryClass =>
        phase' = "BUILD" /\ outcome' \in Fates /\ tree' = tree /\ labelCounters' = labelCounters
  BY <1>1 DEF AddLibraryClass, Proceed, Go
<1>3. phase = "BUILD" /\ AddLibraryFunction =>
        phase' = "BUILD" /\ outcome' \in Fates /\ tree' = tree /\ labelCounters' = labelCounters
  BY <1>1 DEF AddLibraryFunction, Proceed, Go
<1>4. phase = "BUILD" /\ AddLibraryParameter =>
        phase' = "BUILD" /\ outcome' \in Fates /\ tree' = tree /\ labelCounters' = labelCounters
  BY <1>1 DEF AddLibraryParameter, Proceed, Go
<1>5. phase = "BUILD" /\ build_class_node =>
        phase' = "BUILD" /\ outcome' \in Fates /\ tree' = tree /\ labelCounters' = labelCounters
  BY <1>1 DEF build_class_node, Proceed, Go
<1>6. phase = "BUILD" /\ build_class_var_dec_node =>
        phase' = "BUILD" /\ outcome' \in Fates /\ tree' = tree /\ labelCounters' = labelCounters
  BY <1>1 DEF build_class_var_dec_node, Go
<1>7. phase = "BUILD" /\ build_subroutine_dec_node =>
        phase' = "BUILD" /\ outcome' \in Fates /\ tree' = tree /\ labelCounters' = labelCounters
  BY <1>1 DEF build_subroutine_dec_node, Proceed, Go
<1>8. phase = "BUILD" /\ build_variable =>
        phase' = "BUILD" /\ outcome' \in Fates /\ tree' = tree /\ labelCounters' = labelCounters
  BY <1>1 DEF build_variable, Proceed, Go
<1>9. (\/ AddLibraryClass \/ AddLibraryFunction \/ AddLibraryParameter
       \/ build_class_node \/ build_class_var_dec_node \/ build_subroutine_dec_node
       \/ build_variable) => phase = "BUILD"
  BY DEF AddLibraryClass, AddLibraryFunction, AddLibraryParameter, build_class_node,
         build_class_var_dec_node, build_subroutine_dec_node, build_variable, Doing
<1> QED
  BY <1>2, <1>3, <1>4, <1>5, <1>6, <1>7, <1>8, <1>9

(* The first call, for the program.                                        *)
LEMMA DestroyBegins ==
  ASSUME FreeInv, phase # "DESTROY", NEW as \in {"done", "rejected"}, Destroy(as),
         tree' = tree, outcome' = outcome, labelCounters' = labelCounters
  PROVE  FreeInv'
<1> DEFINE call == [op |-> "PROGRAM", node |-> program]
<1>1. vectors' = VectorsMade(program) /\ phase' = "DESTROY" /\ outcome' \in Fates
      /\ program' = program /\ vectors' \in Counts
      /\ todo' = <<Visit("PROGRAM", program), Visit("end", as)>>
  BY DEF FreeInv, Destroy, tree
<1>2. call \in Calls
  BY DEF FreeInv, Calls
<1>3. CallOn("PROGRAM", program) = <<call>>
  BY DEF CallOn, CallEach
<1>4. <<call>> \in Seq(Calls) /\ SumOf(<<call>>) = VectorsMade(program)
  BY <1>2, <1>3, SumOfOn DEF CallCount
<1>5. Visit("PROGRAM", program) = call
  BY DEF Visit
<1> HIDE DEF call
<1>7. todo' = <<call>> \o <<Visit("end", as)>>
  BY <1>1, <1>5, OneAndOne
<1>6. CallsLeft'
  BY <1>1, <1>4, <1>7 DEF CallsLeft
<1> QED
  BY <1>1, <1>6 DEF FreeInv, WalkInv, Fates

LEMMA DestroyGoesOn == FreeInv /\ destroy_ast_node => FreeInv'
<1> SUFFICES ASSUME FreeInv, destroy_ast_node PROVE FreeInv'
  OBVIOUS
<1>1. phase = "DESTROY" /\ outcome = "running" /\ todo # <<>> /\ Head(todo).op # "end"
      /\ phase' = phase /\ program' = program /\ labelCounters' = labelCounters
  BY DEF destroy_ast_node, Destroying
<1>2. PICK calls \in Seq(Calls), as \in {"done", "rejected"} :
        todo = calls \o <<Visit("end", as)>> /\ vectors = SumOf(calls)
  BY <1>1 DEF FreeInv, CallsLeft
<1> DEFINE last == Visit("end", as)
<1>3. calls # <<>>
  <2> SUFFICES ASSUME calls = <<>> PROVE FALSE
    OBVIOUS
  <2>1. Head(todo) = last
    BY <1>2
  <2> QED
    BY <1>1, <2>1 DEF Visit
<1>4. last \notin Calls
  BY EndIsNoCall
<1>5. PICK rest \in Seq(Calls) :
        /\ Head(todo) \in Calls
        /\ calls = <<Head(todo)>> \o rest
        /\ \A new \in Seq(Calls) : new \o Tail(todo) = (new \o rest) \o <<last>>
  <2>1. todo = calls \o <<last>>
    BY <1>2
  <2> HIDE DEF last, Calls
  <2>2. /\ Head(calls \o <<last>>) \in Calls
        /\ \E rest \in Seq(Calls) :
             /\ calls = <<Head(calls \o <<last>>)>> \o rest
             /\ \A new \in Seq(Calls) :
                  new \o Tail(calls \o <<last>>) = (new \o rest) \o <<last>>
    BY <1>3, <1>4, FirstCall
  <2> QED
    BY <2>1, <2>2, Zenon
<1>6. CASE IsIncomplete
  <2>1. vectors' = vectors /\ outcome' = "crashed"
    BY <1>6 DEF destroy_ast_node, Go, Dead
  <2> QED
    BY <1>1, <2>1 DEF FreeInv, WalkInv, Fates
<1>7. CASE ~IsIncomplete
  <2> DEFINE new == Children(Head(todo).op, Head(todo).node)
  <2>1. /\ vectors' = Freed(vectors, Head(todo).op) /\ todo' = new \o Tail(todo)
        /\ outcome' = "running"
    BY <1>7 DEF destroy_ast_node, Proceed, Go, Typed, node
  <2>2. /\ new \o rest \in Seq(Calls) /\ vectors' = SumOf(new \o rest)
    BY <1>2, <1>5, <2>1, CallMade
  <2>3. new \in Seq(Calls)
    BY <1>5, EveryCallDivides DEF Divides
  <2>4. todo' = (new \o rest) \o <<last>>
    BY <1>5, <2>1, <2>3
  <2> HIDE DEF new
  <2>5. CallsLeft'
    BY <2>2, <2>4 DEF CallsLeft
  <2>6. vectors' \in Counts
    BY <2>2, SumTyped
  <2> QED
    BY <1>1, <2>1, <2>5, <2>6 DEF FreeInv, WalkInv
<1> QED
  BY <1>6, <1>7

LEMMA DestroyEnds == FreeInv /\ Finish => FreeInv'
<1> SUFFICES ASSUME FreeInv, Finish PROVE FreeInv'
  OBVIOUS
<1>1. phase = "DESTROY" /\ outcome = "running" /\ todo # <<>> /\ Head(todo).op = "end"
      /\ phase' = phase /\ tree' = tree /\ labelCounters' = labelCounters /\ outcome' = node
  BY DEF Finish, Doing
<1>2. PICK calls \in Seq(Calls), as \in {"done", "rejected"} :
        todo = calls \o <<Visit("end", as)>> /\ vectors = SumOf(calls)
  BY <1>1 DEF FreeInv, CallsLeft
<1>3. Head(todo) \notin Calls
  BY <1>1 DEF Calls
<1>4. calls = <<>>
  BY <1>2, <1>3, NothingToFree
<1>5. vectors = NoVectors
  BY <1>2, <1>4, SumOfNone
<1>6. outcome' \in {"done", "rejected"}
  <2>1. Head(todo) = Visit("end", as)
    BY <1>2, <1>4
  <2>2. Visit("end", as).node = as
    BY DEF Visit
  <2> QED
    BY <1>1, <2>1, <2>2 DEF node
<1> QED
  BY <1>1, <1>5, <1>6 DEF FreeInv, WalkInv, tree

LEMMA NextFrees == FreeInv /\ [Next]_vars => FreeInv'
<1> SUFFICES ASSUME FreeInv, [Next]_vars PROVE FreeInv'
  OBVIOUS
<1>1. CASE LeaveScope
  <2>1. /\ outcome = "running" /\ todo # <<>> /\ Head(todo).op = "leave" /\ tree' = tree
        /\ phase' = phase /\ labelCounters' = labelCounters
    BY <1>1 DEF LeaveScope
  <2>2. phase # "DESTROY"
    <3> SUFFICES ASSUME phase = "DESTROY" PROVE FALSE
      OBVIOUS
    <3>1. PICK calls \in Seq(Calls), as \in {"done", "rejected"} : todo = calls \o <<Visit("end", as)>>
      BY <2>1 DEF FreeInv, CallsLeft
    <3>2. Head(todo) \notin Calls
      BY <2>1 DEF Calls
    <3>3. calls = <<>>
      BY <3>1, <3>2, NothingToFree
    <3>4. Head(todo) = Visit("end", as)
      BY <3>1, <3>3
    <3> QED
      BY <2>1, <3>4 DEF Visit
  <2>3. Go(Dead("exited"), <<>>) \/ Proceed(<<>>)
    BY <1>1 DEF LeaveScope
  <2>4. outcome' \in Fates
    <3>1. Dead("exited").fate \in Fates /\ Typed(Unset).fate \in Fates
      BY Fated DEF Fates
    <3> QED
      BY <2>3, <3>1 DEF Proceed, Go
  <2>5. phase \in {"ANALYZE", "GENERATE"} => todo' \in Seq(WalkVisits)
    <3> SUFFICES ASSUME phase \in {"ANALYZE", "GENERATE"} PROVE todo' \in Seq(WalkVisits)
      OBVIOUS
    <3>1. todo \in Seq(WalkVisits)
      BY <2>1 DEF FreeInv, WalkInv
    <3>2. Dead("exited").fate \in Fates
      BY Fated DEF Fates
    <3> QED
      BY <2>1, <2>3, <3>1, <3>2, NoVisits, Goes, Proceeds DEF GoesOn
  <2> QED
    BY <2>1, <2>2, <2>4, <2>5 DEF FreeInv, WalkInv, tree, Fates
<1>2. CASE \/ AddLibraryClass \/ AddLibraryFunction \/ AddLibraryParameter
           \/ build_class_node \/ build_class_var_dec_node \/ build_subroutine_dec_node
           \/ build_variable
  <2>1. phase' = "BUILD" /\ outcome' \in Fates /\ tree' = tree /\ labelCounters' = labelCounters
    BY <1>2, StepsOfBuild
  <2>2. phase # "DESTROY"
    BY <1>2 DEF AddLibraryClass, AddLibraryFunction, AddLibraryParameter, build_class_node,
                build_class_var_dec_node, build_subroutine_dec_node, build_variable, Doing
  <2> QED
    BY <2>1, <2>2 DEF FreeInv, WalkInv, tree, Fates
<1>3. CASE BeginAnalysis
  <2>1. phase = "BUILD" /\ phase' = "ANALYZE" /\ todo' = Visits("class", program)
        /\ tree' = tree /\ labelCounters' = labelCounters /\ outcome' = outcome
    BY <1>3 DEF BeginAnalysis
  <2>2. todo' \in Seq(WalkVisits)
    BY <2>1, ProgramVisits DEF FreeInv
  <2> QED
    BY <2>1, <2>2 DEF FreeInv, WalkInv, tree, Fates
<1>4. CASE \/ analyze_class_node \/ analyze_declaration \/ analyze_subroutine_dec_node
           \/ analyze_let_statement_node \/ analyze_if_statement_node
           \/ analyze_while_statement_node \/ analyze_do_statement_node
           \/ analyze_return_statement_node
  <2>1. GoesOn
    BY <1>4, AnalysisGoesOn DEF FreeInv
  <2>2. phase = "ANALYZE" /\ phase' = phase /\ tree' = tree /\ labelCounters' = labelCounters
    BY <1>4 DEF analyze_class_node, EnterClass, analyze_declaration, analyze_subroutine_dec_node,
         analyze_let_statement_node, analyze_if_statement_node, analyze_while_statement_node,
         analyze_do_statement_node, analyze_return_statement_node, Statement, Doing, Stay
  <2> QED
    BY <2>1, <2>2 DEF FreeInv, WalkInv, GoesOn, tree, Fates
<1>5. CASE \/ generate_class_node \/ generate_sub_dec_node \/ generate_stmt_node
           \/ generate_if_node \/ generate_while_node \/ write_later
  <2>1. GoesOn /\ labelCounters' \in [LabelPrefixes -> Nat]
    BY <1>5, GenerationGoesOn DEF FreeInv
  <2>2. phase = "GENERATE" /\ phase' = phase /\ tree' = tree
    BY <1>5 DEF generate_class_node, EnterClass, generate_sub_dec_node, generate_stmt_node,
         generate_if_node, generate_while_node, write_later, Statement, Doing, Unlabelled
  <2> QED
    BY <2>1, <2>2 DEF FreeInv, WalkInv, GoesOn, tree, Fates
<1>6. CASE EndAnalysis
  <2>1. phase = "ANALYZE" /\ tree' = tree /\ labelCounters' = labelCounters /\ outcome' = outcome
        /\ \/ phase' = "GENERATE" /\ todo' = Visits("class", program)
           \/ Destroy("rejected")
    BY <1>6 DEF EndAnalysis
  <2>2. CASE Destroy("rejected")
    BY <2>1, <2>2, DestroyBegins
  <2>3. CASE phase' = "GENERATE" /\ todo' = Visits("class", program)
    <3>1. todo' \in Seq(WalkVisits)
      BY <2>3, ProgramVisits DEF FreeInv
    <3> QED
      BY <2>1, <2>3, <3>1 DEF FreeInv, WalkInv, tree, Fates
  <2> QED
    BY <2>1, <2>2, <2>3
<1>7. CASE EndGeneration
  <2>1. phase = "GENERATE" /\ tree' = tree /\ labelCounters' = labelCounters /\ outcome' = outcome
        /\ Destroy("done")
    BY <1>7 DEF EndGeneration
  <2> QED
    BY <2>1, DestroyBegins
<1>8. CASE destroy_ast_node
  BY <1>8, DestroyGoesOn
<1>9. CASE Finish
  BY <1>9, DestroyEnds
<1>10. CASE Ended \/ UNCHANGED vars
  BY <1>10 DEF Ended, vars, FreeInv, WalkInv, CallsLeft
<1> QED
  BY <1>1, <1>2, <1>3, <1>4, <1>5, <1>6, <1>7, <1>8, <1>9, <1>10
  DEF Next, Build, Analyze, Generate, Clean

LEMMA InitFrees == Init => FreeInv
<1> SUFFICES ASSUME Init PROVE FreeInv
  OBVIOUS
<1>1. program \in ProgramNode /\ vectors = VectorsMade(program) /\ phase = "BUILD"
      /\ outcome = "running" /\ labelCounters = [p \in LabelPrefixes |-> 0]
  BY ProgramsAssumption DEF Init
<1>2. vectors \in Counts
  BY <1>1, ProgramTyped
<1> QED
  BY <1>1, <1>2 DEF FreeInv, WalkInv, Fates

(* Every vector of every tree is freed, once, in every compilation that    *)
(* comes to its end: destroy_ast_node finds by the pointers what           *)
(* init_ast_node made for the parser.                                      *)
THEOREM TreesAreFreed == Spec => []DestroyFreesAll
<1>1. FreeInv => DestroyFreesAll
  BY DEF FreeInv, DestroyFreesAll, Counts, NoVectors
<1> QED
  BY <1>1, InitFrees, NextFrees, PTL DEF Spec

-----------------------------------------------------------------------------
(* What a lookup in one table finds.                                       *)
LEMMA LowestOf ==
  ASSUME NEW S \in SUBSET Nat, S # {}
  PROVE  Lowest(S) \in S
<1>1. ASSUME \A i \in S : \E j \in S : ~(i <= j) PROVE FALSE
  <2> DEFINE T == {k \in Nat : \A j \in S : k <= j}
  <2>1. 0 \in T
    OBVIOUS
  <2>2. ASSUME NEW k \in T PROVE k + 1 \in T
    <3>1. k \notin S
      BY <1>1
    <3> QED
      BY <3>1
  <2>3. T = Nat
    <3>1. T \in SUBSET Nat
      OBVIOUS
    <3> HIDE DEF T
    <3> QED
      BY <2>1, <2>2, <3>1, Levels!SetInduction
  <2>4. PICK j \in S : TRUE
    OBVIOUS
  <2>5. j + 1 \in T
    <3>1. j + 1 \in Nat
      BY <2>4
    <3> HIDE DEF T
    <3> QED
      BY <2>3, <3>1
  <2> QED
    BY <2>4, <2>5
<1> QED
  BY <1>1 DEF Lowest

LEMMA LocalSymbol ==
  ASSUME NEW ts \in Seq(Table), NEW t \in 1 .. Len(ts), NEW name,
         Found(symbol_table_lookup(ts, t, name, "LOCAL"))
  PROVE  \E i \in 1 .. Len(ts[t].symbols) :
           symbol_table_lookup(ts, t, name, "LOCAL") = ts[t].symbols[i]
<1> DEFINE path == <<t>>
           holding == {i \in 1 .. Len(path) : LookupLocal(ts, path[i], name) # NoSymbol}
           named == {i \in 1 .. Len(ts[t].symbols) : ts[t].symbols[i].name = name}
           symbol == symbol_table_lookup(ts, t, name, "LOCAL")
<1>1. symbol = IF holding = {} THEN NoSymbol ELSE LookupLocal(ts, path[Lowest(holding)], name)
  BY DEF symbol_table_lookup, FirstInPath, StaysLocal
<1>2. \A i \in 1 .. Len(path) : path[i] = t
  OBVIOUS
<1>3. Len(path) = 1 /\ holding \in SUBSET Nat /\ holding \subseteq 1 .. Len(path)
  OBVIOUS
<1> HIDE DEF path
<1>4. symbol = LookupLocal(ts, t, name)
  <2> HIDE DEF holding
  <2>1. holding # {}
    BY <1>1 DEF Found
  <2>2. Lowest(holding) \in 1 .. Len(path)
    BY <1>3, <2>1, LowestOf
  <2> QED
    BY <1>1, <1>2, <2>1, <2>2
<1>5. LookupLocal(ts, t, name) = IF named = {} THEN NoSymbol ELSE ts[t].symbols[Lowest(named)]
  BY DEF LookupLocal
<1>6. Len(ts[t].symbols) \in Nat
  BY Elements
<1>7. named \in SUBSET Nat /\ named \subseteq 1 .. Len(ts[t].symbols)
  BY <1>6
<1> HIDE DEF named, symbol
<1>8. named # {}
  BY <1>4, <1>5 DEF Found, symbol
<1>9. Lowest(named) \in 1 .. Len(ts[t].symbols)
  BY <1>7, <1>8, LowestOf
<1> QED
  BY <1>4, <1>5, <1>8, <1>9 DEF symbol

(* The scope of a class or a subroutine that is found is inside the table  *)
(* it is found in.                                                         *)
LEMMA ScopeFound ==
  ASSUME Inv, NEW t \in 1 .. Len(tables), NEW name, NEW kinds \in SUBSET OwningKinds,
         OfKind(symbol_table_lookup(tables, t, name, "LOCAL"), kinds)
  PROVE  /\ symbol_table_lookup(tables, t, name, "LOCAL").childTable \in 1 .. Len(tables)
         /\ tables[symbol_table_lookup(tables, t, name, "LOCAL").childTable].parent = t
<1> DEFINE symbol == symbol_table_lookup(tables, t, name, "LOCAL")
           child == symbol.childTable
<1>1. tables \in Seq(Table) /\ Found(symbol) /\ symbol.kind \in OwningKinds
  BY DEF Inv, TablesTypeOK, OfKind
<1>2. PICK i \in 1 .. Len(tables[t].symbols) : symbol = tables[t].symbols[i]
  BY <1>1, LocalSymbol
<1> HIDE DEF symbol
<1>3. symbol \in Symbol
  BY <1>1, <1>2, Elements
<1>4. child \in Nat /\ child > GlobalTable /\ child <= Len(tables)
  BY <1>1, <1>2, <1>3 DEF Symbol, Inv, ScopesOwned, ChildrenExist
<1>5. child \in 1 .. Len(tables) /\ child # GlobalTable
  BY <1>1, <1>4 DEF GlobalTable
<1>6. PICK j : OnlyOwner(tables, child, tables[child].parent, j)
  BY <1>5 DEF Inv, ScopeHasOneSymbol
<1>7. t = tables[child].parent
  BY <1>2, <1>6 DEF OnlyOwner
<1> QED
  BY <1>5, <1>7 DEF symbol

-----------------------------------------------------------------------------
(* What instructions make of the depth of the working stack.               *)
AreInstructions(instructions) ==
  \E C : instructions \in Seq(C) /\ \A i \in C : Needs(i) \in Nat

LEMMA DepthAfterTyped ==
  ASSUME NEW instructions, NEW k, Needs(instructions[k]) \in Nat, NEW before \in Int
  PROVE  DepthAfter(instructions, k, before) \in Int
<1>1. Leaves(instructions[k]) \in Int
  BY DEF Leaves
<1> HIDE DEF Leaves, Needs
<1> QED
  BY <1>1 DEF DepthAfter

LEMMA DepthSteps ==
  ASSUME NEW instructions, AreInstructions(instructions), NEW start \in Int
  PROVE  \E f \in [0 .. Len(instructions) -> Int] :
           /\ f[0] = start
           /\ \A k \in 1 .. Len(instructions) : f[k] = DepthAfter(instructions, k, f[k - 1])
           /\ Depth(instructions, start) = f[Len(instructions)]
<1> DEFINE n == Len(instructions)
           step == [k \in Nat |-> [b \in Int |-> IF k \in 1 .. n THEN DepthAfter(instructions, k, b)
                                                 ELSE b]]
<1>1. PICK C : instructions \in Seq(C) /\ \A i \in C : Needs(i) \in Nat
  BY DEF AreInstructions
<1>2. n \in Nat /\ \A k \in 1 .. n : Needs(instructions[k]) \in Nat
  BY <1>1
<1>3. \A k \in 1 .. n : \A b \in Int : DepthAfter(instructions, k, b) \in Int
  BY <1>2, DepthAfterTyped
<1> HIDE DEF n
<1>4. /\ step \in [Nat -> [Int -> Int]]
      /\ \A k \in 1 .. n : \A b \in Int : step[k][b] = DepthAfter(instructions, k, b)
  <2>1. ASSUME NEW k \in Nat
        PROVE  /\ step[k] = [b \in Int |-> IF k \in 1 .. n THEN DepthAfter(instructions, k, b) ELSE b]
               /\ step[k] \in [Int -> Int]
    BY <1>3
  <2>2. \A k \in 1 .. n : k \in Nat
    BY <1>2
  <2>3. step = [k \in Nat |-> step[k]]
    OBVIOUS
  <2> HIDE DEF step
  <2> QED
    BY <2>1, <2>2, <2>3
<1> HIDE DEF step
<1>5. PICK f \in [0 .. n -> Int] : Levels!Folded(f, 0, n, start, step)
  BY <1>2, <1>4, Levels!FoldTyped
<1>6. f = [k \in 0 .. n |-> IF k = 0 THEN start ELSE DepthAfter(instructions, k, f[k - 1])]
  <2>1. ASSUME NEW k \in 0 .. n
        PROVE  f[k] = IF k = 0 THEN start ELSE DepthAfter(instructions, k, f[k - 1])
    <3>1. k # 0 => k - 1 \in 0 .. n /\ k \in 1 .. n
      BY <1>2
    <3> QED
      BY <1>4, <1>5, <3>1 DEF Levels!Folded
  <2>2. f = [k \in 0 .. n |-> f[k]]
    BY <1>5
  <2> QED
    BY <2>1, <2>2
<1>7. PICK g : /\ g = [k \in 0 .. n |-> IF k = 0 THEN start
                                        ELSE DepthAfter(instructions, k, g[k - 1])]
               /\ Depth(instructions, start) = g[n]
  BY <1>6 DEF Depth, n
<1>8. \A k \in 0 .. n : g[k] \in Int
  <2>1. g[0] \in Int
    BY <1>2, <1>7
  <2>2. ASSUME NEW k \in 0 + 1 .. n, g[k - 1] \in Int PROVE g[k] \in Int
    <3>1. k \in 0 .. n /\ k # 0 /\ k \in 1 .. n
      BY <1>2
    <3> QED
      BY <1>3, <1>7, <2>2, <3>1
  <2> QED
    BY <1>2, <2>1, <2>2, Levels!FoldInvariant
<1>9. g \in [0 .. n -> Int] /\ g[0] = start
  BY <1>2, <1>7, <1>8
<1>10. \A k \in 1 .. n : g[k] = DepthAfter(instructions, k, g[k - 1])
  <2>1. \A k \in 1 .. n : k \in 0 .. n /\ k # 0
    BY <1>2
  <2> QED
    BY <1>7, <2>1
<1> QED
  BY <1>7, <1>9, <1>10 DEF n

(* What begins with the pop that belongs to "this" is not read alone.      *)
Begins(instructions) == instructions # <<>> => instructions[1] # ClearThis

LEMMA InstructionsJoined ==
  ASSUME NEW a, NEW b, AreInstructions(a), AreInstructions(b)
  PROVE  \E C : /\ a \in Seq(C) /\ b \in Seq(C) /\ a \o b \in Seq(C)
                /\ \A i \in C : Needs(i) \in Nat
<1>1. PICK A : a \in Seq(A) /\ \A i \in A : Needs(i) \in Nat
  BY DEF AreInstructions
<1>2. PICK B : b \in Seq(B) /\ \A i \in B : Needs(i) \in Nat
  BY DEF AreInstructions
<1> DEFINE C == A \union B
<1>3. \A i \in C : Needs(i) \in Nat
  BY <1>1, <1>2
<1>4. A \subseteq C /\ B \subseteq C
  OBVIOUS
<1> HIDE DEF C
<1>5. a \in Seq(C) /\ b \in Seq(C)
  BY <1>1, <1>2, <1>4, SeqMonotonic
<1> QED
  BY <1>3, <1>5, ConcatProperties

LEMMA DepthOfConcat ==
  ASSUME NEW a, NEW b, AreInstructions(a), AreInstructions(b), Begins(b), NEW start \in Int
  PROVE  Depth(a \o b, start) = Depth(b, Depth(a, start))
<1>1. PICK C : /\ a \in Seq(C) /\ b \in Seq(C) /\ a \o b \in Seq(C)
               /\ \A i \in C : Needs(i) \in Nat
  BY InstructionsJoined
<1> DEFINE ab == a \o b
           m == Len(a)
           n == Len(b)
<1>2. /\ m \in Nat /\ n \in Nat /\ Len(ab) = m + n
      /\ \A k \in 1 .. m : ab[k] = a[k]
      /\ \A k \in 1 .. n : ab[m + k] = b[k]
  <2>1. Len(ab) = m + n /\ m \in Nat /\ n \in Nat
    BY <1>1, ConcatProperties
  <2>2. \A k \in 1 .. m + n : ab[k] = IF k <= m THEN a[k] ELSE b[k - m]
    BY <1>1, ConcatProperties
  <2> HIDE DEF ab, m, n
  <2>3. \A k \in 1 .. m : ab[k] = a[k]
    BY <2>1, <2>2
  <2>4. ASSUME NEW k \in 1 .. n PROVE ab[m + k] = b[k]
    <3>1. m + k \in 1 .. m + n /\ ~(m + k <= m) /\ (m + k) - m = k
      BY <2>1
    <3> QED
      BY <2>2, <3>1
  <2> QED
    BY <2>1, <2>3, <2>4
<1>3. AreInstructions(ab)
  BY <1>1 DEF AreInstructions
<1>4a. PICK f \in [0 .. Len(a) -> Int] :
        /\ f[0] = start
        /\ \A k \in 1 .. Len(a) : f[k] = DepthAfter(a, k, f[k - 1])
        /\ Depth(a, start) = f[Len(a)]
  BY DepthSteps
<1>4. /\ f \in [0 .. m -> Int] /\ f[0] = start /\ Depth(a, start) = f[m]
      /\ \A k \in 1 .. m : f[k] = DepthAfter(a, k, f[k - 1])
  BY <1>4a
<1>5. Depth(a, start) \in Int
  BY <1>2, <1>4
<1>6a. PICK g \in [0 .. Len(b) -> Int] :
        /\ g[0] = f[m]
        /\ \A k \in 1 .. Len(b) : g[k] = DepthAfter(b, k, g[k - 1])
        /\ Depth(b, Depth(a, start)) = g[Len(b)]
  <2> DEFINE d == Depth(a, start)
  <2>1. d \in Int /\ d = f[m]
    BY <1>4, <1>5
  <2> HIDE DEF d
  <2> SUFFICES \E g \in [0 .. Len(b) -> Int] :
                 /\ g[0] = d
                 /\ \A k \in 1 .. Len(b) : g[k] = DepthAfter(b, k, g[k - 1])
                 /\ Depth(b, d) = g[Len(b)]
    BY <2>1 DEF d
  <2> QED
    BY <2>1, DepthSteps
<1>6. /\ g \in [0 .. n -> Int] /\ g[0] = f[m] /\ Depth(b, Depth(a, start)) = g[n]
      /\ \A k \in 1 .. n : g[k] = DepthAfter(b, k, g[k - 1])
  BY <1>6a
<1>7. PICK h \in [0 .. Len(ab) -> Int] :
        /\ h[0] = start
        /\ \A k \in 1 .. Len(ab) : h[k] = DepthAfter(ab, k, h[k - 1])
        /\ Depth(ab, start) = h[Len(ab)]
  BY <1>3, DepthSteps
<1>8. b # <<>> => b[1] # ClearThis
  BY DEF Begins
<1>9. n > 0 => b # <<>>
  BY <1>1
<1> HIDE DEF ab, m, n
<1>10. \A k \in 1 .. m : \A x : DepthAfter(ab, k, x) = DepthAfter(a, k, x)
  <2> SUFFICES ASSUME NEW k \in 1 .. m, NEW x PROVE DepthAfter(ab, k, x) = DepthAfter(a, k, x)
    OBVIOUS
  <2>1. ab[k] = a[k] /\ (k > 1 => ab[k - 1] = a[k - 1])
    BY <1>2
  <2> QED
    BY <2>1 DEF DepthAfter, IsThis
<1>11. \A k \in 1 .. n : \A x : DepthAfter(ab, m + k, x) = DepthAfter(b, k, x)
  <2> SUFFICES ASSUME NEW k \in 1 .. n, NEW x PROVE DepthAfter(ab, m + k, x) = DepthAfter(b, k, x)
    OBVIOUS
  <2>1. ab[m + k] = b[k]
    BY <1>2
  <2>2. IsThis(ab, m + k) <=> IsThis(b, k)
    <3>1. CASE k = 1
      <4>1. b[k] # ClearThis
        BY <1>2, <1>8, <1>9, <3>1
      <4> QED
        BY <2>1, <4>1 DEF IsThis
    <3>2. CASE k # 1
      <4>1. k > 1 /\ m + k > 1 /\ k - 1 \in 1 .. n /\ m + (k - 1) = m + k - 1
        BY <1>2, <3>2
      <4>2. ab[m + k - 1] = b[k - 1]
        BY <1>2, <4>1
      <4> DEFINE zero == [op |-> "push", segment |-> "constant", index |-> 0]
      <4>3. IsThis(ab, m + k) <=> ab[m + k] = ClearThis /\ ab[m + k - 1] = zero
        BY <1>2, <4>1 DEF IsThis
      <4>4. IsThis(b, k) <=> b[k] = ClearThis /\ b[k - 1] = zero
        BY <4>1 DEF IsThis
      <4> HIDE DEF zero
      <4> QED
        BY <2>1, <4>2, <4>3, <4>4
    <3> QED
      BY <3>1, <3>2
  <2> QED
    BY <2>1, <2>2 DEF DepthAfter
<1>12. h[m] = f[m]
  <2>1. \A k \in 1 .. m : k \in 1 .. Len(ab)
    BY <1>2
  <2>2. \A k \in 1 .. m : f[k - 1] = h[k - 1] => f[k] = h[k]
    BY <1>4, <1>7, <1>10, <2>1
  <2>3. f[0] = h[0]
    BY <1>4, <1>7
  <2> DEFINE T == {k \in 0 .. m : f[k] = h[k]}
  <2>4. 0 \in T /\ \A k \in 1 .. m : k - 1 \in T => k \in T
    BY <1>2, <2>2, <2>3
  <2>5. \A k \in 0 .. m : k \in T
    <3> HIDE DEF T
    <3> QED
      BY <1>2, <2>4, UpToInduction
  <2> QED
    BY <1>2, <2>5
<1> DEFINE later == [k \in 0 .. n |-> h[m + k]]
<1>13. later[n] = g[n]
  <2>1. ASSUME NEW k \in 1 .. n, g[k - 1] = later[k - 1] PROVE g[k] = later[k]
    <3>1. /\ k \in 0 .. n /\ k - 1 \in 0 .. n /\ m + k \in 1 .. Len(ab)
          /\ (m + k) - 1 = m + (k - 1)
      BY <1>2
    <3>2. later[k] = h[m + k] /\ later[k - 1] = h[(m + k) - 1]
      BY <3>1
    <3> HIDE DEF later
    <3> QED
      BY <1>6, <1>7, <1>11, <2>1, <3>1, <3>2
  <2>2. later[0] = g[0]
    <3>1. 0 \in 0 .. n /\ m + 0 = m
      BY <1>2
    <3> QED
      BY <1>6, <1>12, <3>1
  <2> HIDE DEF later
  <2> DEFINE T == {k \in 0 .. n : g[k] = later[k]}
  <2>4. 0 \in T /\ \A k \in 1 .. n : k - 1 \in T => k \in T
    BY <1>2, <2>1, <2>2
  <2>3. \A k \in 0 .. n : k \in T
    <3> HIDE DEF T
    <3> QED
      BY <1>2, <2>4, UpToInduction
  <2> QED
    BY <1>2, <2>3
<1>14. later[n] = h[Len(ab)]
  BY <1>2
<1> QED
  BY <1>6, <1>7, <1>13, <1>14, <1>4 DEF ab

-----------------------------------------------------------------------------
(* Instructions that lead from one depth to another.                       *)
Leads(instructions, before, after) ==
  AreInstructions(instructions) /\ Begins(instructions) /\ Depth(instructions, before) = after

LEMMA NothingLeads == \A x \in Int : Leads(<<>>, x, x)
<1>1. AreInstructions(<<>>)
  <2> DEFINE none == {}
  <2>1. <<>> \in Seq(none) /\ \A i \in none : Needs(i) \in Nat
    OBVIOUS
  <2> HIDE DEF none
  <2> QED
    BY <2>1 DEF AreInstructions
<1>2. ASSUME NEW x \in Int PROVE Depth(<<>>, x) = x
  <2>1. PICK f \in [0 .. Len(<<>>) -> Int] : f[0] = x /\ Depth(<<>>, x) = f[Len(<<>>)]
    BY <1>1, DepthSteps
  <2>2. Len(<<>>) = 0
    OBVIOUS
  <2> QED
    BY <2>1, <2>2
<1> QED
  BY <1>1, <1>2 DEF Leads, Begins

LEMMA LeadsOn ==
  ASSUME NEW a, NEW b, NEW x \in Int, NEW y \in Int, NEW z, Leads(a, x, y), Leads(b, y, z)
  PROVE  Leads(a \o b, x, z)
<1>1. /\ AreInstructions(a) /\ Begins(a) /\ Depth(a, x) = y
      /\ AreInstructions(b) /\ Begins(b) /\ Depth(b, y) = z
  BY DEF Leads
<1>2. PICK C : /\ a \in Seq(C) /\ b \in Seq(C) /\ a \o b \in Seq(C)
               /\ \A i \in C : Needs(i) \in Nat
  BY <1>1, InstructionsJoined
<1>3. AreInstructions(a \o b)
  BY <1>2 DEF AreInstructions
<1>4. Depth(a \o b, x) = z
  BY <1>1, DepthOfConcat
<1>5. Begins(a \o b)
  <2>1. CASE a = <<>>
    <3>1. a \o b = b
      BY <1>2, <2>1, ConcatEmptySeq
    <3> QED
      BY <1>1, <3>1
  <2>2. CASE a # <<>>
    <3>1. Len(a) \in Nat \ {0} /\ Len(b) \in Nat
      BY <1>2, <2>2
    <3>2. (a \o b)[1] = a[1]
      BY <1>2, <3>1, ConcatProperties
    <3> QED
      BY <1>1, <2>2, <3>2 DEF Begins
  <2> QED
    BY <2>1, <2>2
<1> QED
  BY <1>3, <1>4, <1>5 DEF Leads

LEMMA OneLeads ==
  ASSUME NEW i, i # ClearThis, NEW x \in Nat, Needs(i) \in Nat, x >= Needs(i)
  PROVE  /\ ~Settles(i) => Leads(<<i>>, x, (x - Needs(i)) + Leaves(i))
         /\ x = Needs(i) /\ Settles(i) => Leads(<<i>>, x, 0)
<1> DEFINE list == <<i>>
<1>1. list \in Seq({i}) /\ Len(list) = 1 /\ list[1] = i /\ list # <<>>
  OBVIOUS
<1> HIDE DEF list
<1>2. AreInstructions(list) /\ Begins(list)
  BY <1>1 DEF AreInstructions, Begins
<1>3. PICK f \in [0 .. 1 -> Int] :
        f[0] = x /\ f[1] = DepthAfter(list, 1, f[0]) /\ Depth(list, x) = f[1]
  <2>1. x \in Int
    OBVIOUS
  <2>2. PICK f \in [0 .. Len(list) -> Int] :
          /\ f[0] = x /\ Depth(list, x) = f[Len(list)]
          /\ \A k \in 1 .. Len(list) : f[k] = DepthAfter(list, k, f[k - 1])
    BY <1>2, <2>1, DepthSteps
  <2>3. 1 \in 1 .. Len(list) /\ 1 - 1 = 0
    BY <1>1
  <2> QED
    BY <1>1, <2>2, <2>3
<1>4. Depth(list, x) = DepthAfter(list, 1, x)
  BY <1>3
<1>5. ~IsThis(list, 1)
  BY DEF IsThis
<1> HIDE DEF Needs, Leaves, Settles
<1>6. ~Settles(i) => DepthAfter(list, 1, x) = (x - Needs(i)) + Leaves(i)
  BY <1>1, <1>5 DEF DepthAfter
<1>7. x = Needs(i) /\ Settles(i) => DepthAfter(list, 1, x) = 0
  BY <1>1, <1>5 DEF DepthAfter
<1> QED
  BY <1>2, <1>4, <1>6, <1>7 DEF Leads, list

(* An instruction and the pop that follows it.                             *)
LEMMA PairLeads ==
  ASSUME NEW i, i # ClearThis, NEW x \in Nat, Needs(i) \in Nat, x >= Needs(i), Leaves(i) = 1,
         ~Settles(i)
  PROVE  IF i = [op |-> "push", segment |-> "constant", index |-> 0]
         THEN Leads(<<i, ClearThis>>, x, x + 1)
         ELSE Leads(<<i, ClearThis>>, x, x - Needs(i))
<1> DEFINE zero == [op |-> "push", segment |-> "constant", index |-> 0]
           list == <<i, ClearThis>>
           C == {i, ClearThis}
<1>1. Needs(zero) = 0 /\ Needs(ClearThis) = 1 /\ Leaves(ClearThis) = 0 /\ ~Settles(ClearThis)
  BY DEF Needs, Leaves, Settles, Jumps, ClearThis
<1> HIDE DEF zero
<1>2. list \in Seq(C) /\ Len(list) = 2 /\ list[1] = i /\ list[2] = ClearThis /\ list # <<>>
  OBVIOUS
<1> HIDE DEF list
<1>3. AreInstructions(list) /\ Begins(list)
  BY <1>1, <1>2 DEF AreInstructions, Begins
<1>4. PICK f \in [0 .. 2 -> Int] :
        /\ f[0] = x /\ f[1] = DepthAfter(list, 1, f[0])
        /\ f[2] = DepthAfter(list, 2, f[1]) /\ Depth(list, x) = f[2]
  <2>1. x \in Int
    OBVIOUS
  <2>2. PICK f \in [0 .. Len(list) -> Int] :
          /\ f[0] = x /\ Depth(list, x) = f[Len(list)]
          /\ \A k \in 1 .. Len(list) : f[k] = DepthAfter(list, k, f[k - 1])
    BY <1>3, <2>1, DepthSteps
  <2>3. 1 \in 1 .. Len(list) /\ 1 - 1 = 0 /\ 2 \in 1 .. Len(list) /\ 2 - 1 = 1
    BY <1>2
  <2> QED
    BY <1>2, <2>2, <2>3
<1>5. ~IsThis(list, 1) /\ (IsThis(list, 2) <=> i = zero)
  BY <1>2 DEF IsThis, zero
<1> HIDE DEF Needs, Leaves, Settles
<1>6. DepthAfter(list, 1, x) = (x - Needs(i)) + 1
  BY <1>2, <1>5 DEF DepthAfter
<1>7. CASE i = zero
  <2>1. DepthAfter(list, 1, x) = x + 1 /\ x + 1 >= 1
    BY <1>1, <1>6, <1>7
  <2>2. DepthAfter(list, 2, x + 1) = x + 1
    BY <1>1, <1>2, <1>5, <1>7, <2>1 DEF DepthAfter
  <2> QED
    BY <1>3, <1>4, <1>7, <2>1, <2>2 DEF Leads, list, zero
<1>8. CASE i # zero
  <2> DEFINE y == (x - Needs(i)) + 1
  <2>1. y \in Int /\ y >= 1 /\ DepthAfter(list, 1, x) = y /\ y - 1 = x - Needs(i)
    BY <1>6
  <2> HIDE DEF y
  <2>2. DepthAfter(list, 2, y) = y - 1
    BY <1>1, <1>2, <1>5, <1>8, <2>1 DEF DepthAfter
  <2> QED
    BY <1>3, <1>4, <1>8, <2>1, <2>2 DEF Leads, list, zero
<1> QED
  BY <1>7, <1>8

-----------------------------------------------------------------------------
(* The same of what is written, if the generation goes on after it.        *)
Reaches(w, before, after) == w.fate = "running" => Leads(w.code, before, after)

LEMMA FollowedReaches ==
  ASSUME NEW a, NEW b, NEW x \in Int, NEW y \in Int, NEW z, Reaches(a, x, y), Reaches(b, y, z)
  PROVE  Reaches(Followed(a, b), x, z)
<1>1. CASE a.fate # "running"
  BY <1>1 DEF Followed, Reaches
<1>2. CASE a.fate = "running"
  <2>1. Followed(a, b).code = a.code \o b.code /\ Followed(a, b).fate = b.fate
    BY <1>2 DEF Followed
  <2>2. b.fate = "running" => Leads(a.code \o b.code, x, z)
    BY <1>2, LeadsOn DEF Reaches
  <2> QED
    BY <2>1, <2>2 DEF Reaches
<1> QED
  BY <1>1, <1>2

LEMMA FollowedAssociative ==
  ASSUME NEW a, NEW b, NEW c, IsWritten(a), IsWritten(b), IsWritten(c)
  PROVE  Followed(Followed(a, b), c) = Followed(a, Followed(b, c))
<1>1. PICK A : a \in Writings(A)
  BY DEF IsWritten
<1>2. PICK B : b \in Writings(B)
  BY DEF IsWritten
<1>3. PICK C : c \in Writings(C)
  BY DEF IsWritten
<1> DEFINE S == A \union B \union C
<1>4. a \in Writings(S) /\ b \in Writings(S) /\ c \in Writings(S)
  <2>1. A \subseteq S /\ B \subseteq S /\ C \subseteq S
    OBVIOUS
  <2> HIDE DEF S
  <2> QED
    BY <1>1, <1>2, <1>3, <2>1, WritingsGrow
<1> HIDE DEF S
<1>5. /\ a.code \in Seq(S) /\ b.code \in Seq(S) /\ c.code \in Seq(S)
      /\ a.errors \in Nat /\ b.errors \in Nat /\ c.errors \in Nat
  BY <1>4 DEF Writings
<1>6. (a.code \o b.code) \o c.code = a.code \o (b.code \o c.code)
  <2>1. \A p, q, r \in Seq(S) : (p \o q) \o r = p \o (q \o r)
    BY ConcatAssociative
  <2> QED
    BY <1>5, <2>1
<1>7. (a.errors + b.errors) + c.errors = a.errors + (b.errors + c.errors)
  BY <1>5
<1> QED
  BY <1>6, <1>7 DEF Followed

LEMMA AllReaches ==
  ASSUME NEW parts, AreWritten(parts), NEW d \in [0 .. Len(parts) -> Nat],
         \A i \in 1 .. Len(parts) : Reaches(parts[i], d[i - 1], d[i])
  PROVE  Reaches(All(parts), d[0], d[Len(parts)])
<1> DEFINE n == Len(parts)
<1>1. n \in Nat
  <2>1. PICK C : parts \in Seq(Writings(C))
    BY DEF AreWritten
  <2> DEFINE V == Writings(C)
  <2> HIDE DEF V
  <2> QED
    BY <2>1 DEF V
<1>2. PICK g : /\ g[0] = Written(<<>>) /\ All(parts) = g[n]
               /\ \A i \in 1 .. n : g[i] = Followed(g[i - 1], parts[i])
  BY AllSteps
<1> HIDE DEF n
<1> DEFINE T == {i \in 0 .. n : Reaches(g[i], d[0], d[i])}
<1>3. \A i \in 0 .. n : d[i] \in Int
  BY DEF n
<1>4. 0 \in T
  <2>1. d[0] \in Int
    BY <1>1, <1>3
  <2>2. Reaches(Written(<<>>), d[0], d[0])
    BY <2>1, NothingLeads DEF Reaches, Written
  <2> QED
    BY <1>1, <1>2, <2>2
<1>5. ASSUME NEW i \in 1 .. n, i - 1 \in T PROVE i \in T
  <2>1. i \in 0 .. n /\ d[0] \in Int /\ d[i - 1] \in Int /\ Reaches(g[i - 1], d[0], d[i - 1])
    BY <1>1, <1>3, <1>5
  <2>2. Reaches(parts[i], d[i - 1], d[i])
    BY DEF n
  <2>3. Reaches(Followed(g[i - 1], parts[i]), d[0], d[i])
    BY <2>1, <2>2, FollowedReaches
  <2> QED
    BY <1>2, <2>1, <2>3
<1>6. n \in T
  <2> HIDE DEF T
  <2> QED
    BY <1>1, <1>4, <1>5, UpToInduction
<1> QED
  BY <1>2, <1>6 DEF n

-----------------------------------------------------------------------------
(* The operators of an expression that is accepted.                        *)
BinaryOperators == Arithmetic \union Comparison \union Logic

LEMMA WrittenReaches ==
  ASSUME NEW i, i # ClearThis, NEW x \in Nat, Needs(i) \in Nat, x >= Needs(i), NEW w,
         w.fate = "running", w.code = <<i>>
  PROVE  /\ ~Settles(i) => Reaches(w, x, (x - Needs(i)) + Leaves(i))
         /\ x = Needs(i) /\ Settles(i) => Reaches(w, x, 0)
BY OneLeads DEF Reaches

LEMMA AccessReaches ==
  ASSUME NEW x \in Nat, NEW segment, NEW index
  PROVE  /\ Reaches(Access("push", segment, index), x, x + 1)
         /\ segment # "pointer" \/ index # 0 => Reaches(Access("pop", segment, index), x + 1, x)
<1>1. Reaches(Access("push", segment, index), x, x + 1)
  <2> DEFINE i == [op |-> "push", segment |-> segment, index |-> index]
             w == Access("push", segment, index)
  <2>1. i # ClearThis /\ Needs(i) = 0 /\ Leaves(i) = 1 /\ ~Settles(i)
    BY DEF ClearThis, Needs, Leaves, Settles, Jumps
  <2>2. w.fate = "running" /\ w.code = <<i>>
    BY DEF Access
  <2> HIDE DEF i, w
  <2>3. 0 \in Nat /\ x >= 0 /\ (x - 0) + 1 = x + 1
    OBVIOUS
  <2>4. Reaches(w, x, (x - Needs(i)) + Leaves(i))
    BY <2>1, <2>2, <2>3, WrittenReaches
  <2> QED
    BY <2>1, <2>3, <2>4 DEF w
<1>2. ASSUME segment # "pointer" \/ index # 0
      PROVE  Reaches(Access("pop", segment, index), x + 1, x)
  <2> DEFINE i == [op |-> "pop", segment |-> segment, index |-> index]
             w == Access("pop", segment, index)
             y == x + 1
  <2>1. Needs(i) = 1 /\ Leaves(i) = 0 /\ ~Settles(i)
    BY DEF Needs, Leaves, Settles, Jumps
  <2>2. w.fate = "running" /\ w.code = <<i>>
    BY DEF Access
  <2>3. i # ClearThis
    BY <1>2 DEF ClearThis
  <2> HIDE DEF i, w
  <2>4. 1 \in Nat /\ y \in Nat /\ y >= 1 /\ (y - 1) + 0 = x
    OBVIOUS
  <2> HIDE DEF y
  <2>5. Reaches(w, y, (y - Needs(i)) + Leaves(i))
    BY <2>1, <2>2, <2>3, <2>4, WrittenReaches
  <2> QED
    BY <2>1, <2>4, <2>5 DEF w, y
<1> QED
  BY <1>1, <1>2

LEMMA VariableReaches ==
  ASSUME NEW x \in Nat, NEW name
  PROVE  /\ Reaches(WithVariable("push", name), x, x + 1)
         /\ Reaches(WithVariable("pop", name), x + 1, x)
<1>1. \A kind : kind_to_segment(kind) # "pointer"
  BY DEF kind_to_segment
<1>2. ASSUME NEW symbol
      PROVE  /\ Reaches(AccessVariable("push", symbol), x, x + 1)
             /\ Reaches(AccessVariable("pop", symbol), x + 1, x)
  <2>1. CASE Found(symbol)
    BY <1>1, <2>1, AccessReaches DEF AccessVariable
  <2>2. CASE ~Found(symbol)
    BY <2>2 DEF AccessVariable, Crash, Ends, Reaches
  <2> QED
    BY <2>1, <2>2
<1> QED
  BY <1>2 DEF WithVariable

LEMMA ArithmeticReaches ==
  ASSUME NEW x \in Nat
  PROVE  /\ \A command \in {"neg", "not"} : Reaches(write_arithmetic(command), x + 1, x + 1)
         /\ \A command \in {"add", "sub", "and", "or", "lt", "gt", "eq"} :
              Reaches(write_arithmetic(command), x + 2, x + 1)
<1> SUFFICES ASSUME NEW command, NEW n \in Nat, n >= 1,
                    \/ command \in {"neg", "not"} /\ n = 1
                    \/ command \in {"add", "sub", "and", "or", "lt", "gt", "eq"} /\ n = 2
             PROVE  Reaches(write_arithmetic(command), x + n, x + 1)
  <2>1. 1 \in Nat /\ 2 \in Nat /\ 1 >= 1 /\ 2 >= 1
    OBVIOUS
  <2> QED
    BY <2>1
<1> DEFINE i == [op |-> "arithmetic", command |-> command]
           w == write_arithmetic(command)
           y == x + n
<1>1. Needs(i) = n /\ Leaves(i) = 1 /\ ~Settles(i) /\ i # ClearThis
  BY DEF Needs, Leaves, Settles, Jumps, ClearThis
<1>2. w.fate = "running" /\ w.code = <<i>>
  BY DEF write_arithmetic, Written
<1> HIDE DEF i, w
<1>3. y \in Nat /\ y >= n /\ (y - n) + 1 = x + 1
  OBVIOUS
<1> HIDE DEF y
<1>4. Reaches(w, y, (y - Needs(i)) + Leaves(i))
  BY <1>1, <1>2, <1>3, WrittenReaches
<1> QED
  BY <1>1, <1>3, <1>4 DEF w, y

LEMMA CallReaches ==
  ASSUME NEW x \in Nat, NEW name, NEW n \in Nat
  PROVE  Reaches(write_call(name, n), x + n, x + 1)
<1> DEFINE i == [op |-> "call", name |-> name, args |-> n]
           w == write_call(name, n)
           y == x + n
<1>1. Needs(i) = n /\ Leaves(i) = 1 /\ ~Settles(i) /\ i # ClearThis
  BY DEF Needs, Leaves, Settles, Jumps, ClearThis
<1>2. w.fate = "running" /\ w.code = <<i>>
  BY DEF write_call, Written
<1> HIDE DEF i, w
<1>3. y \in Nat /\ y >= n /\ (y - n) + 1 = x + 1
  OBVIOUS
<1> HIDE DEF y
<1>4. Reaches(w, y, (y - Needs(i)) + Leaves(i))
  BY <1>1, <1>2, <1>3, WrittenReaches
<1> QED
  BY <1>1, <1>3, <1>4 DEF w, y

(* The instructions at which the stack holds what they take and no more.   *)
LEMMA SettlingReaches ==
  /\ \A label : /\ Reaches(write_label(label), 0, 0) /\ Reaches(write_goto(label), 0, 0)
                /\ Reaches(write_if(label), 1, 0)
  /\ \A name, n : Reaches(write_function(name, n), 0, 0)
  /\ Reaches(write_return, 1, 0)
<1>1. ASSUME NEW i, i.op \in {"label", "goto", "function", "if-goto", "return"}
      PROVE  Reaches(Written(<<i>>), IF i.op \in {"if-goto", "return"} THEN 1 ELSE 0, 0)
  <2> DEFINE w == Written(<<i>>)
             x == IF i.op \in {"if-goto", "return"} THEN 1 ELSE 0
  <2>1. i # ClearThis /\ Needs(i) = x /\ Settles(i)
    BY <1>1 DEF Needs, Settles, Jumps, ClearThis
  <2>2. w.fate = "running" /\ w.code = <<i>>
    BY DEF Written
  <2>3. x \in Nat /\ x >= x
    OBVIOUS
  <2> HIDE DEF w, x
  <2>4. Reaches(w, x, 0)
    BY <2>1, <2>2, <2>3, WrittenReaches
  <2> QED
    BY <2>4 DEF w, x
<1>2. \A label : Reaches(write_label(label), 0, 0) /\ Reaches(write_goto(label), 0, 0)
  BY <1>1 DEF write_label, write_goto
<1>3. \A label : Reaches(write_if(label), 1, 0)
  BY <1>1 DEF write_if
<1>4. \A name, n : Reaches(write_function(name, n), 0, 0)
  BY <1>1 DEF write_function
<1>5. Reaches(write_return, 1, 0)
  BY <1>1 DEF write_return
<1> QED
  BY <1>2, <1>3, <1>4, <1>5

LEMMA OperatorReaches ==
  ASSUME NEW x \in Nat
  PROVE  /\ \A op \in BinaryOperators : Reaches(OperatorCode(op), x + 2, x + 1)
         /\ \A op : Reaches(UnaryCode(op), x + 1, x + 1)
<1>1. \A name : Reaches(write_call(name, 2), x + 2, x + 1)
  BY CallReaches
<1>2. ASSUME NEW op \in BinaryOperators PROVE Reaches(OperatorCode(op), x + 2, x + 1)
  BY <1>1, ArithmeticReaches DEF OperatorCode, BinaryOperators, Arithmetic, Comparison, Logic
<1>3. \A op : Reaches(UnaryCode(op), x + 1, x + 1)
  BY ArithmeticReaches DEF UnaryCode
<1> QED
  BY <1>2, <1>3

-----------------------------------------------------------------------------
(* Terms that leave one value, and what is made of them.                   *)
Values(f, S) ==
  \A y \in S : IsWritten(f[y]) /\ \A x \in Nat : Reaches(f[y], x, x + 1)

SoundExpression(S, e) ==
  /\ e.term \in S
  /\ \A i \in 1 .. Len(e.ops) : e.ops[i].term \in S /\ e.ops[i].op \in BinaryOperators

LEMMA ExpressionReaches ==
  ASSUME NEW S, NEW f, Values(f, S), NEW e, Len(e.ops) \in Nat, SoundExpression(S, e),
         NEW x \in Nat
  PROVE  /\ IsWritten(generate_expression_node(f, e))
         /\ Reaches(generate_expression_node(f, e), x, x + 1)
<1> DEFINE n == Len(e.ops)
           rest == [i \in 1 .. n |-> Followed(f[e.ops[i].term], OperatorCode(e.ops[i].op))]
           first == <<f[e.term]>>
           parts == first \o rest
           d == [i \in 0 .. Len(parts) |-> IF i = 0 THEN x ELSE x + 1]
<1>1. generate_expression_node(f, e) = All(parts)
  BY DEF generate_expression_node
<1>2. IsWritten(f[e.term]) /\ Reaches(f[e.term], x, x + 1)
  BY DEF Values, SoundExpression
<1>3. ASSUME NEW i \in 1 .. n
      PROVE  IsWritten(rest[i]) /\ Reaches(rest[i], x + 1, x + 1)
  <2> DEFINE a == f[e.ops[i].term]
             b == OperatorCode(e.ops[i].op)
             y == x + 1
  <2>1. IsWritten(a) /\ \A z \in Nat : Reaches(a, z, z + 1)
    BY DEF Values, SoundExpression
  <2>2. IsWritten(b)
    BY InstructionsWritten
  <2>3. Reaches(b, x + 2, x + 1)
    BY OperatorReaches DEF SoundExpression
  <2>4. rest[i] = Followed(a, b)
    OBVIOUS
  <2> HIDE DEF a, b, rest
  <2>5. y \in Nat /\ y \in Int /\ y + 1 = x + 2 /\ x + 2 \in Int
    OBVIOUS
  <2>6. Reaches(a, x + 1, x + 2)
    BY <2>1, <2>5
  <2> QED
    BY <2>1, <2>2, <2>3, <2>4, <2>5, <2>6, FollowedWritten, FollowedReaches
<1>4. rest = [i \in 1 .. n |-> rest[i]] /\ Len(rest) = n
  OBVIOUS
<1>5. Len(first) = 1 /\ first[1] = f[e.term] /\ AreWritten(first)
  BY <1>2, OneWritten
<1> HIDE DEF rest, first, n
<1>6. n \in Nat
  BY DEF n
<1>7. AreWritten(rest)
  BY <1>3, <1>4, <1>6, ListWritten
<1>8. /\ AreWritten(parts) /\ Len(parts) = 1 + n
      /\ \A i \in 1 .. 1 + n : parts[i] = IF i <= 1 THEN first[i] ELSE rest[i - 1]
  <2>1. AreWritten(parts)
    BY <1>5, <1>7, ListsWritten
  <2>2. /\ Len(parts) = Len(first) + Len(rest)
        /\ \A i \in 1 .. Len(first) + Len(rest) :
             parts[i] = IF i <= Len(first) THEN first[i] ELSE rest[i - Len(first)]
    BY <1>5, <1>7, PartsJoined
  <2> HIDE DEF parts
  <2> QED
    BY <1>4, <1>5, <2>1, <2>2
<1>9. d \in [0 .. Len(parts) -> Nat] /\ d[0] = x /\ d[Len(parts)] = x + 1
      /\ \A i \in 1 .. 1 + n : d[i] = x + 1
  BY <1>6, <1>8
<1> HIDE DEF parts, d
<1>10. ASSUME NEW i \in 1 .. Len(parts) PROVE Reaches(parts[i], d[i - 1], d[i])
  <2>1. CASE i = 1
    BY <1>2, <1>5, <1>6, <1>8, <1>9, <2>1
  <2>2. CASE i # 1
    <3>1. i - 1 \in 1 .. n /\ i - 1 \in 1 .. 1 + n /\ i \in 1 .. 1 + n /\ ~(i <= 1)
      BY <1>6, <1>8, <2>2
    <3> QED
      BY <1>3, <1>8, <1>9, <3>1
  <2> QED
    BY <2>1, <2>2
<1>11. Reaches(All(parts), x, x + 1)
  BY <1>8, <1>9, <1>10, AllReaches
<1> QED
  BY <1>1, <1>8, <1>11, AllWritten

LEMMA ArgumentsReach ==
  ASSUME NEW S, NEW f, Values(f, S), NEW call, Len(call.args) \in Nat,
         \A i \in 1 .. Len(call.args) :
           Len(call.args[i].ops) \in Nat /\ SoundExpression(S, call.args[i]),
         NEW x \in Nat
  PROVE  /\ IsWritten(ArgumentsCode(f, call))
         /\ Reaches(ArgumentsCode(f, call), x, x + Len(call.args))
<1> DEFINE n == Len(call.args)
           parts == [i \in 1 .. n |-> generate_expression_node(f, call.args[i])]
           d == [i \in 0 .. n |-> x + i]
<1>1. ArgumentsCode(f, call) = All(parts)
  BY DEF ArgumentsCode
<1>2. \A i \in 1 .. n : /\ IsWritten(parts[i])
                        /\ \A y \in Nat : Reaches(parts[i], y, y + 1)
  BY ExpressionReaches
<1>3. parts = [i \in 1 .. n |-> parts[i]] /\ Len(parts) = n
  OBVIOUS
<1>4. n \in Nat
  OBVIOUS
<1> HIDE DEF n, parts
<1>5. AreWritten(parts)
  BY <1>2, <1>3, <1>4, ListWritten
<1>6. d \in [0 .. n -> Nat] /\ d[0] = x + 0 /\ d[n] = x + n
  BY <1>4
<1>7. ASSUME NEW i \in 1 .. n PROVE Reaches(parts[i], d[i - 1], d[i])
  <2>1. /\ i - 1 \in 0 .. n /\ i \in 0 .. n /\ d[i - 1] = x + (i - 1) /\ d[i] = x + i
        /\ x + (i - 1) \in Nat /\ (x + (i - 1)) + 1 = x + i
    BY <1>4
  <2> HIDE DEF d
  <2> QED
    BY <1>2, <2>1
<1> HIDE DEF d
<1>8. Reaches(All(parts), x + 0, x + n)
  BY <1>3, <1>5, <1>6, <1>7, AllReaches
<1>9. x + 0 = x
  OBVIOUS
<1> QED
  BY <1>1, <1>5, <1>8, <1>9, AllWritten DEF n

LEMMA ThreeReach ==
  ASSUME NEW a, NEW b, NEW c,
         IsWritten(a), IsWritten(b), IsWritten(c),
         NEW p \in Nat, NEW q \in Nat, NEW r \in Nat, NEW s \in Nat,
         Reaches(a, p, q), Reaches(b, q, r), Reaches(c, r, s)
  PROVE  Reaches(All(<<a, b, c>>), p, s)
<1> DEFINE parts == <<a, b, c>>
           depths == <<p, q, r, s>>
           at == [i \in 0 .. 3 |-> depths[i + 1]]
<1>1. AreWritten(parts) /\ Len(parts) = 3
  BY ThreeWritten
<1>2. \A i \in 0 .. 3 : depths[i + 1] \in Nat
  OBVIOUS
<1>3. \A i \in 1 .. 3 : Reaches(parts[i], depths[i], depths[i + 1])
  OBVIOUS
<1>4. depths[1] = p /\ depths[4] = s
  OBVIOUS
<1> HIDE DEF parts, depths
<1>5. at \in [0 .. 3 -> Nat] /\ at[0] = p /\ at[3] = s
  BY <1>2, <1>4
<1>6. ASSUME NEW i \in 1 .. 3 PROVE Reaches(parts[i], at[i - 1], at[i])
  <2>1. i \in 0 .. 3 /\ i - 1 \in 0 .. 3 /\ (i - 1) + 1 = i
    OBVIOUS
  <2>2. at[i] = depths[i + 1] /\ at[i - 1] = depths[i]
    BY <2>1
  <2> HIDE DEF at
  <2> QED
    BY <1>3, <2>2
<1> HIDE DEF at
<1>7. Reaches(All(parts), p, s)
  BY <1>1, <1>5, <1>6, AllReaches
<1> QED
  BY <1>7 DEF parts

LEMMA FourReach ==
  ASSUME NEW a, NEW b, NEW c, NEW d,
         IsWritten(a), IsWritten(b), IsWritten(c), IsWritten(d),
         NEW p \in Nat, NEW q \in Nat, NEW r \in Nat, NEW s \in Nat, NEW t \in Nat,
         Reaches(a, p, q), Reaches(b, q, r), Reaches(c, r, s), Reaches(d, s, t)
  PROVE  Reaches(All(<<a, b, c, d>>), p, t)
<1> DEFINE parts == <<a, b, c, d>>
           depths == <<p, q, r, s, t>>
           at == [i \in 0 .. 4 |-> depths[i + 1]]
<1>1. AreWritten(parts) /\ Len(parts) = 4
  BY FourWritten
<1>2. \A i \in 0 .. 4 : depths[i + 1] \in Nat
  OBVIOUS
<1>3. \A i \in 1 .. 4 : Reaches(parts[i], depths[i], depths[i + 1])
  OBVIOUS
<1>4. depths[1] = p /\ depths[5] = t
  OBVIOUS
<1> HIDE DEF parts, depths
<1>5. at \in [0 .. 4 -> Nat] /\ at[0] = p /\ at[4] = t
  BY <1>2, <1>4
<1>6. ASSUME NEW i \in 1 .. 4 PROVE Reaches(parts[i], at[i - 1], at[i])
  <2>1. i \in 0 .. 4 /\ i - 1 \in 0 .. 4 /\ (i - 1) + 1 = i
    OBVIOUS
  <2>2. at[i] = depths[i + 1] /\ at[i - 1] = depths[i]
    BY <2>1
  <2> HIDE DEF at
  <2> QED
    BY <1>3, <2>2
<1> HIDE DEF at
<1>7. Reaches(All(parts), p, t)
  BY <1>1, <1>5, <1>6, AllReaches
<1> QED
  BY <1>7 DEF parts

LEMMA EightReach ==
  ASSUME NEW a, NEW b, NEW c, NEW d, NEW e, NEW f, NEW g, NEW h,
         IsWritten(a), IsWritten(b), IsWritten(c), IsWritten(d),
         IsWritten(e), IsWritten(f), IsWritten(g), IsWritten(h),
         NEW p \in Nat, NEW q \in Nat, NEW r \in Nat, NEW s \in Nat, NEW t \in Nat,
         NEW u \in Nat, NEW v \in Nat, NEW w \in Nat, NEW x \in Nat,
         Reaches(a, p, q), Reaches(b, q, r), Reaches(c, r, s), Reaches(d, s, t),
         Reaches(e, t, u), Reaches(f, u, v), Reaches(g, v, w), Reaches(h, w, x)
  PROVE  Reaches(All(<<a, b, c, d, e, f, g, h>>), p, x)
<1> DEFINE parts == <<a, b, c, d, e, f, g, h>>
           depths == <<p, q, r, s, t, u, v, w, x>>
           at == [i \in 0 .. 8 |-> depths[i + 1]]
<1>1. AreWritten(parts) /\ Len(parts) = 8
  BY EightWritten
<1>2. \A i \in 0 .. 8 : depths[i + 1] \in Nat
  OBVIOUS
<1>3. \A i \in 1 .. 8 : Reaches(parts[i], depths[i], depths[i + 1])
  OBVIOUS
<1>4. depths[1] = p /\ depths[9] = x
  OBVIOUS
<1> HIDE DEF parts, depths
<1>5. at \in [0 .. 8 -> Nat] /\ at[0] = p /\ at[8] = x
  BY <1>2, <1>4
<1>6. ASSUME NEW i \in 1 .. 8 PROVE Reaches(parts[i], at[i - 1], at[i])
  <2>1. i \in 0 .. 8 /\ i - 1 \in 0 .. 8 /\ (i - 1) + 1 = i
    OBVIOUS
  <2>2. at[i] = depths[i + 1] /\ at[i - 1] = depths[i]
    BY <2>1
  <2> HIDE DEF at
  <2> QED
    BY <1>3, <2>2
<1> HIDE DEF at
<1>7. Reaches(All(parts), p, x)
  BY <1>1, <1>5, <1>6, AllReaches
<1> QED
  BY <1>7 DEF parts

LEMMA CallCodeReaches ==
  ASSUME NEW S, NEW f, Values(f, S), NEW call, Len(call.args) \in Nat,
         \A i \in 1 .. Len(call.args) :
           Len(call.args[i].ops) \in Nat /\ SoundExpression(S, call.args[i]),
         NEW caller, NEW callee, NEW x \in Nat
  PROVE  /\ IsWritten(CallCode(f, call, caller, callee))
         /\ Reaches(CallCode(f, call, caller, callee), x, x + 1)
<1> DEFINE n == Len(call.args)
           arguments == ArgumentsCode(f, call)
<1>1. IsWritten(arguments) /\ \A y \in Nat : Reaches(arguments, y, y + n)
  BY ArgumentsReach
<1> HIDE DEF arguments
<1>2. n \in Nat
  OBVIOUS
<1>3. CASE Receives(call, caller, callee)
  <2> DEFINE push == write_push(kind_to_segment(caller.kind), caller.index)
             made == write_call(<<caller.type, call.name>>, n + 1)
             y == x + 1
             z == y + n
  <2>1. IsWritten(push) /\ IsWritten(made)
    BY InstructionsWritten
  <2>2. Reaches(push, x, y)
    BY AccessReaches DEF write_push
  <2>3. y \in Nat /\ z \in Nat /\ n + 1 \in Nat /\ x + (n + 1) = z
    <3> HIDE DEF n
    <3> QED
      BY <1>2
  <2>4. Reaches(made, x + (n + 1), y)
    BY <2>3, CallReaches
  <2>5. CallCode(f, call, caller, callee) = All(<<push, arguments, made>>)
    BY <1>3 DEF CallCode, arguments
  <2>6. Reaches(arguments, y, z)
    BY <1>1, <2>3
  <2>7. Reaches(made, z, y)
    BY <2>3, <2>4
  <2> HIDE DEF push, made, z
  <2>8. AreWritten(<<push, arguments, made>>)
    BY <1>1, <2>1, ThreeWritten
  <2>9. IsWritten(All(<<push, arguments, made>>))
    BY <2>8, AllWritten
  <2>10. Reaches(All(<<push, arguments, made>>), x, y)
    <3> HIDE DEF y
    <3> QED
      BY <1>1, <2>1, <2>2, <2>3, <2>6, <2>7, ThreeReach
  <2> QED
    BY <2>5, <2>9, <2>10
<1>4. CASE ~Receives(call, caller, callee)
  <2> DEFINE made == write_call(<<IF call.caller = Null THEN currentClassName ELSE call.caller,
                                  call.name>>, n)
             z == x + n
  <2>1. IsWritten(made)
    BY InstructionsWritten
  <2>2. Reaches(made, z, x + 1)
    BY <1>2, CallReaches
  <2>3. CallCode(f, call, caller, callee) = Followed(arguments, made)
    BY <1>4 DEF CallCode, arguments
  <2>4. Reaches(arguments, x, z)
    BY <1>1
  <2>5. x \in Int /\ z \in Int
    BY <1>2
  <2> HIDE DEF made, z
  <2> QED
    BY <1>1, <2>1, <2>2, <2>3, <2>4, <2>5, FollowedWritten, FollowedReaches
<1> QED
  BY <1>3, <1>4

LEMMA SubCallReaches ==
  ASSUME NEW S, NEW f, Values(f, S), NEW call, Len(call.args) \in Nat,
         \A i \in 1 .. Len(call.args) :
           Len(call.args[i].ops) \in Nat /\ SoundExpression(S, call.args[i]),
         call.caller # Null => Found(Callee(call)), NEW x \in Nat
  PROVE  Reaches(generate_sub_call_node(f, call), x, x + 1)
<1>1. Reaches(Crash, x, x + 1)
  BY DEF Crash, Ends, Reaches
<1>2. \A caller, callee : Reaches(CallCode(f, call, caller, callee), x, x + 1)
  BY CallCodeReaches
<1> QED
  BY <1>1, <1>2 DEF generate_sub_call_node

LEMMA StringReaches ==
  ASSUME NEW length \in Nat, NEW x \in Nat
  PROVE  Reaches(StringCode(length), x, x + 1)
<1> DEFINE character == Followed(write_push("constant", 97), write_call(<<"String", "appendChar">>, 2))
           rest == [i \in 1 .. length |-> character]
           new == write_push("constant", length)
           make == write_call(<<"String", "new">>, 1)
           head == <<new, make>>
           parts == head \o rest
           y == x + 1
           d == [i \in 0 .. Len(parts) |-> IF i = 0 THEN x ELSE y]
<1>1. StringCode(length) = All(parts)
  BY DEF StringCode
<1>2. IsWritten(character) /\ IsWritten(new) /\ IsWritten(make)
  BY InstructionsWritten, FollowedWritten
<1>3. y \in Nat /\ y \in Int /\ y + 1 = x + 2 /\ y + 1 \in Int
  OBVIOUS
<1>4. Reaches(new, x, y) /\ Reaches(write_push("constant", 97), y, y + 1)
  BY <1>3, AccessReaches DEF write_push
<1>5. Reaches(make, y, y) /\ Reaches(write_call(<<"String", "appendChar">>, 2), y + 1, y)
  <2>1. 1 \in Nat /\ 2 \in Nat
    OBVIOUS
  <2>2. Reaches(make, x + 1, x + 1)
    BY <2>1, CallReaches
  <2>3. Reaches(write_call(<<"String", "appendChar">>, 2), x + 2, x + 1)
    BY <2>1, CallReaches
  <2> QED
    BY <1>3, <2>2, <2>3
<1>6. Reaches(character, y, y)
  BY <1>3, <1>4, <1>5, FollowedReaches
<1>7. Len(head) = 2 /\ head[1] = new /\ head[2] = make /\ AreWritten(head)
  BY <1>2, TwoWritten
<1>8. /\ rest = [i \in 1 .. length |-> rest[i]] /\ Len(rest) = length
      /\ \A i \in 1 .. length : rest[i] = character
  OBVIOUS
<1> HIDE DEF rest, head, character, new, make, y
<1>9. AreWritten(rest)
  BY <1>2, <1>8, ListWritten
<1>10. /\ AreWritten(parts) /\ Len(parts) = 2 + length
       /\ \A i \in 1 .. 2 + length : parts[i] = IF i <= 2 THEN head[i] ELSE rest[i - 2]
  <2>1. AreWritten(parts)
    BY <1>7, <1>9, ListsWritten
  <2>2. /\ Len(parts) = Len(head) + Len(rest)
        /\ \A i \in 1 .. Len(head) + Len(rest) :
             parts[i] = IF i <= Len(head) THEN head[i] ELSE rest[i - Len(head)]
    BY <1>7, <1>9, PartsJoined
  <2> HIDE DEF parts
  <2> QED
    BY <1>7, <1>8, <2>1, <2>2
<1>11. d \in [0 .. Len(parts) -> Nat] /\ d[0] = x /\ d[Len(parts)] = y
       /\ \A i \in 1 .. 2 + length : d[i] = y
  BY <1>3, <1>10
<1> HIDE DEF parts, d
<1>12. ASSUME NEW i \in 1 .. Len(parts) PROVE Reaches(parts[i], d[i - 1], d[i])
  <2>1. CASE i = 1
    BY <1>4, <1>7, <1>10, <1>11, <2>1
  <2>2. CASE i = 2
    BY <1>5, <1>7, <1>10, <1>11, <2>2
  <2>3. CASE i # 1 /\ i # 2
    <3>1. i - 2 \in 1 .. length /\ i - 1 \in 1 .. 2 + length /\ i \in 1 .. 2 + length /\ ~(i <= 2)
      BY <1>10, <2>3
    <3> QED
      BY <1>6, <1>8, <1>10, <1>11, <3>1
  <2> QED
    BY <2>1, <2>2, <2>3
<1>13. Reaches(All(parts), x, y)
  BY <1>10, <1>11, <1>12, AllReaches
<1> QED
  BY <1>1, <1>13 DEF y

-----------------------------------------------------------------------------
(* What the analysis accepts.  A call on a caller must find its callee, in *)
(* the scope the call is in; to its calls, a term is sound if its parts    *)
(* are.  An array access is never accepted: see analyze_term_node.         *)
CalleeAt(ts, t, call) ==
  LET caller == symbol_table_lookup(ts, t, call.caller, "GLOBAL")
      target == IF caller.kind \in {"CLASS", "NONE"} THEN caller.childTable
                ELSE symbol_table_lookup(ts, t, caller.type, "GLOBAL").childTable
  IN IF target = NullTable THEN NoSymbol ELSE symbol_table_lookup(ts, target, call.name, "LOCAL")

CallsFound(ts, t) ==
  {call \in SubroutineCalls : call.caller # Null => Found(CalleeAt(ts, t, call))}

LEMMA CallsFoundHere ==
  \A call \in SubroutineCalls :
    call \in CallsFound(tables, currentTable) <=> (call.caller # Null => Found(Callee(call)))
<1>1. \A call : call.caller # Null => Callee(call) = CalleeAt(tables, currentTable, call)
  BY DEF Callee, CalleeAt, InTable, TargetTable, Lookup
<1> QED
  BY <1>1 DEF CallsFound

SoundCall(F, S, call) ==
  call \in F /\ \A i \in 1 .. Len(call.args) : SoundExpression(S, call.args[i])

SoundTerm(F, S, x) ==
  /\ x.is \notin {"incomplete", "array"}
  /\ x.is = "call" => SoundCall(F, S, x.call)
  /\ x.is = "paren" => SoundExpression(S, x.of)
  /\ x.is = "unary" => x.of \in S

SoundTerms(F) == UNION {S \in SUBSET Terms : \A x \in S : SoundTerm(F, S, x)}

LEMMA SoundPartsGrow ==
  ASSUME NEW F, NEW S, NEW R, S \subseteq R
  PROVE  /\ \A e : SoundExpression(S, e) => SoundExpression(R, e)
         /\ \A call : SoundCall(F, S, call) => SoundCall(F, R, call)
         /\ \A x : SoundTerm(F, S, x) => SoundTerm(F, R, x)
<1>1. \A e : SoundExpression(S, e) => SoundExpression(R, e)
  BY DEF SoundExpression
<1>2. \A call : SoundCall(F, S, call) => SoundCall(F, R, call)
  BY <1>1 DEF SoundCall
<1> QED
  BY <1>1, <1>2 DEF SoundTerm

LEMMA SoundTermsUnfold ==
  ASSUME NEW F
  PROVE  /\ SoundTerms(F) \subseteq Terms
         /\ \A x \in SoundTerms(F) : SoundTerm(F, SoundTerms(F), x)
         /\ \A S \in SUBSET Terms : (\A x \in S : SoundTerm(F, S, x)) => S \subseteq SoundTerms(F)
<1>1. SoundTerms(F) \subseteq Terms
  BY DEF SoundTerms
<1>2. \A S \in SUBSET Terms : (\A x \in S : SoundTerm(F, S, x)) => S \subseteq SoundTerms(F)
  BY DEF SoundTerms
<1>3. ASSUME NEW x \in SoundTerms(F) PROVE SoundTerm(F, SoundTerms(F), x)
  <2>1. PICK S \in SUBSET Terms : x \in S /\ \A y \in S : SoundTerm(F, S, y)
    BY DEF SoundTerms
  <2>2. S \subseteq SoundTerms(F)
    BY <1>2, <2>1
  <2> QED
    BY <2>1, <2>2, SoundPartsGrow
<1> QED
  BY <1>1, <1>2, <1>3

LEMMA ThisReaches ==
  ASSUME NEW x \in Nat
  PROVE  Reaches(Followed(write_push("constant", 0), write_pop("pointer", 0)), x, x + 1)
<1> DEFINE i == [op |-> "push", segment |-> "constant", index |-> 0]
           w == Followed(write_push("constant", 0), write_pop("pointer", 0))
<1>1. w.code = <<i>> \o <<ClearThis>>
  BY DEF Followed, write_push, write_pop, Access, ClearThis
<1>2. w.code = <<i, ClearThis>>
  BY <1>1, OneAndOne
<1>3. i # ClearThis /\ Needs(i) = 0 /\ Leaves(i) = 1 /\ ~Settles(i)
  BY DEF ClearThis, Needs, Leaves, Settles, Jumps
<1>4. 0 \in Nat /\ x >= 0
  OBVIOUS
<1>5. IF i = [op |-> "push", segment |-> "constant", index |-> 0]
      THEN Leads(<<i, ClearThis>>, x, x + 1)
      ELSE Leads(<<i, ClearThis>>, x, x - Needs(i))
  <2> HIDE DEF i
  <2> QED
    BY <1>3, <1>4, PairLeads
<1>6. Leads(<<i, ClearThis>>, x, x + 1)
  BY <1>5
<1> QED
  BY <1>2, <1>6 DEF Reaches

(* A term that is accepted leaves one value on the stack.                  *)
LEMMA TermReaches ==
  ASSUME NEW F, \A call \in F : call.caller # Null => Found(Callee(call))
  PROVE  Values(generate_term_node, SoundTerms(F))
<1> DEFINE Sound == SoundTerms(F)
           Good == {x \in Terms : x \in Sound =>
                      \A d \in Nat : Reaches(generate_term_node[x], d, d + 1)}
<1>1. Sound \subseteq Terms /\ \A x \in Sound : SoundTerm(F, Sound, x)
  BY SoundTermsUnfold
<1> HIDE DEF Sound
<1>2. SimpleTerms \subseteq Good
  <2> SUFFICES ASSUME NEW x \in SimpleTerms, x \in Sound, NEW d \in Nat
               PROVE  Reaches(GenerateAt(generate_term_node, x), d, d + 1)
    BY GenerationEquation, TermsNest
  <2>1. x.is # "incomplete"
    BY <1>1 DEF SoundTerm
  <2>2. x.is = "string" => x.length \in Nat
    BY SimpleTermKinds DEF SimpleTerms, VarTermNode
  <2>3. x.is = "string" => Reaches(StringCode(x.length), d, d + 1)
    BY <2>2, StringReaches
  <2>4. Reaches(Ends("exited"), d, d + 1)
    BY DEF Ends, Reaches
  <2>5. \A index : Reaches(write_push("constant", index), d, d + 1)
    BY AccessReaches DEF write_push
  <2>6. Reaches(WithVariable("push", x.name), d, d + 1)
    BY VariableReaches
  <2>7. Reaches(Followed(write_push("constant", 0), write_pop("pointer", 0)), d, d + 1)
    BY ThisReaches
  <2> QED
    BY <2>1, <2>3, <2>4, <2>5, <2>6, <2>7, SimpleTermKinds DEF GenerateAt
<1>3. ASSUME NEW x \in Terms, x \in CompoundTerms(Terms \intersect Good) PROVE x \in Good
  <2> SUFFICES ASSUME x \in Sound, NEW d \in Nat
               PROVE  Reaches(GenerateAt(generate_term_node, x), d, d + 1)
    BY GenerationEquation
  <2> DEFINE S == Terms \intersect Good
             R == S \intersect Sound
  <2>1. Values(generate_term_node, R)
    BY TermsWritten DEF Values
  <2>2. x \in CompoundTerms(S)
    BY <1>3
  <2> HIDE DEF Good, S
  <2>3. ASSUME NEW e \in ExpressionNode(S), SoundExpression(Sound, e)
        PROVE  Len(e.ops) \in Nat /\ SoundExpression(R, e)
    BY <2>3, ExpressionParts DEF SoundExpression
  <2>4. SoundTerm(F, Sound, x)
    BY <1>1
  <2> HIDE DEF R
  <2>5. CASE x.is = "call" /\ x.call \in SubroutineCallNode(S)
    <3>1. x.call \in F /\ \A i \in 1 .. Len(x.call.args) : SoundExpression(Sound, x.call.args[i])
      BY <2>4, <2>5 DEF SoundTerm, SoundCall
    <3>2. /\ Len(x.call.args) \in Nat
          /\ \A i \in 1 .. Len(x.call.args) : x.call.args[i] \in ExpressionNode(S)
      BY <2>5, CallParts
    <3>3. \A i \in 1 .. Len(x.call.args) :
            Len(x.call.args[i].ops) \in Nat /\ SoundExpression(R, x.call.args[i])
      BY <2>3, <3>1, <3>2
    <3>4. Reaches(generate_sub_call_node(generate_term_node, x.call), d, d + 1)
      BY <2>1, <3>1, <3>2, <3>3, SubCallReaches
    <3> QED
      BY <2>5, <3>4 DEF GenerateAt
  <2>6. CASE x.is = "paren" /\ x.of \in ExpressionNode(S)
    <3>1. Len(x.of.ops) \in Nat /\ SoundExpression(R, x.of)
      BY <2>3, <2>4, <2>6 DEF SoundTerm
    <3>2. Reaches(generate_expression_node(generate_term_node, x.of), d, d + 1)
      BY <2>1, <3>1, ExpressionReaches
    <3> QED
      BY <2>6, <3>2 DEF GenerateAt
  <2>7. CASE x.is = "unary" /\ x.of \in S
    <3> DEFINE a == generate_term_node[x.of]
               b == UnaryCode(x.op)
               y == d + 1
    <3>1. x.of \in R
      BY <2>4, <2>7 DEF SoundTerm, R
    <3>2. Reaches(a, d, y)
      BY <2>1, <3>1 DEF Values
    <3>3. Reaches(b, y, y)
      BY OperatorReaches
    <3>4. d \in Int /\ y \in Int
      OBVIOUS
    <3> HIDE DEF a, b, y
    <3>5. Reaches(Followed(a, b), d, y)
      BY <3>2, <3>3, <3>4, FollowedReaches
    <3> QED
      BY <2>7, <3>5 DEF GenerateAt, a, b, y
  <2>8. x.is # "array"
    BY <2>4 DEF SoundTerm
  <2> QED
    BY <2>2, <2>5, <2>6, <2>7, <2>8, CompoundTermKinds
<1>4. Terms \subseteq Good
  <2> HIDE DEF Good
  <2> QED
    BY <1>2, <1>3, TermInduction
<1>5. \A x \in Sound : IsWritten(generate_term_node[x])
  BY <1>1, TermsWritten
<1> QED
  BY <1>1, <1>4, <1>5 DEF Values, Sound

(* What is made of sound expressions and calls, where the stack is empty.  *)
LEMMA SoundReaches ==
  ASSUME NEW F, \A call \in F : call.caller # Null => Found(Callee(call)), NEW x \in Nat
  PROVE  /\ \A e \in Expressions : SoundExpression(SoundTerms(F), e) =>
              IsWritten(Generated(e)) /\ Reaches(Generated(e), x, x + 1)
         /\ \A call \in SubroutineCalls : SoundCall(F, SoundTerms(F), call) =>
              Reaches(generate_sub_call_node(generate_term_node, call), x, x + 1)
<1> DEFINE Sound == SoundTerms(F)
<1>1. Values(generate_term_node, Sound)
  BY TermReaches
<1> HIDE DEF Sound
<1>2. ASSUME NEW e \in Expressions, SoundExpression(Sound, e)
      PROVE  IsWritten(Generated(e)) /\ Reaches(Generated(e), x, x + 1)
  <2>1. Len(e.ops) \in Nat
    BY ExpressionParts DEF Expressions
  <2> QED
    BY <1>1, <1>2, <2>1, ExpressionReaches DEF Generated
<1>3. ASSUME NEW call \in SubroutineCalls, SoundCall(F, Sound, call)
      PROVE  Reaches(generate_sub_call_node(generate_term_node, call), x, x + 1)
  <2>1. /\ Len(call.args) \in Nat
        /\ \A i \in 1 .. Len(call.args) : call.args[i] \in ExpressionNode(Terms)
    BY CallParts DEF SubroutineCalls
  <2>2. \A i \in 1 .. Len(call.args) :
          Len(call.args[i].ops) \in Nat /\ SoundExpression(Sound, call.args[i])
    BY <1>3, <2>1, ExpressionParts DEF SoundCall
  <2>3. call.caller # Null => Found(Callee(call))
    BY <1>3 DEF SoundCall
  <2> QED
    BY <1>1, <2>1, <2>2, <2>3, SubCallReaches
<1> QED
  BY <1>2, <1>3 DEF Sound

-----------------------------------------------------------------------------
SoundStatement(F, S, s) ==
  /\ s.is = "let" => /\ SoundExpression(SoundTerms(F), s.right)
                     /\ s.index # <<>> => SoundExpression(SoundTerms(F), s.index[1])
  /\ s.is = "do" => SoundCall(F, SoundTerms(F), s.call)
  /\ s.is = "return" /\ s.value # <<>> => SoundExpression(SoundTerms(F), s.value[1])
  /\ s.is \in {"if", "while"} => SoundExpression(SoundTerms(F), s.condition)
  /\ s.is = "if" => /\ \A i \in 1 .. Len(s.then) : s.then[i] \in S
                    /\ \A i \in 1 .. Len(s.else) : s.else[i] \in S
  /\ s.is = "while" => \A i \in 1 .. Len(s.body) : s.body[i] \in S

SoundStatements(F) == UNION {S \in SUBSET Statements : \A s \in S : SoundStatement(F, S, s)}

LEMMA SoundStatementsUnfold ==
  ASSUME NEW F
  PROVE  /\ SoundStatements(F) \subseteq Statements
         /\ \A s \in Statements :
              s \in SoundStatements(F) <=> SoundStatement(F, SoundStatements(F), s)
<1> DEFINE Sound == SoundStatements(F)
<1>1. Sound \subseteq Statements
  BY DEF SoundStatements
<1>2. \A S \in SUBSET Statements : (\A s \in S : SoundStatement(F, S, s)) => S \subseteq Sound
  BY DEF SoundStatements
<1>3. \A S, R, s : S \subseteq R /\ SoundStatement(F, S, s) => SoundStatement(F, R, s)
  BY DEF SoundStatement
<1>4. ASSUME NEW s \in Sound PROVE SoundStatement(F, Sound, s)
  <2>1. PICK S \in SUBSET Statements : s \in S /\ \A y \in S : SoundStatement(F, S, y)
    BY DEF SoundStatements
  <2> HIDE DEF Sound
  <2>2. S \subseteq Sound
    BY <1>2, <2>1
  <2> QED
    BY <1>3, <2>1, <2>2
<1> HIDE DEF Sound
<1>5. ASSUME NEW s \in Statements, SoundStatement(F, Sound, s) PROVE s \in Sound
  <2> DEFINE S == Sound \union {s}
  <2>1. S \in SUBSET Statements /\ Sound \subseteq S /\ s \in S
    BY <1>1
  <2>2. \A y \in S : SoundStatement(F, Sound, y)
    BY <1>4, <1>5
  <2> HIDE DEF S
  <2>3. S \subseteq Sound
    BY <1>2, <1>3, <2>1, <2>2
  <2> QED
    BY <2>1, <2>3
<1> QED
  BY <1>1, <1>4, <1>5 DEF Sound

(* The code of a statement that is accepted, up to the blocks inside it,   *)
(* leaves the stack empty.                                                 *)
LEMMA StatementReaches ==
  ASSUME NEW F, \A call \in F : call.caller # Null => Found(Callee(call)),
         NEW s \in SoundStatements(F)
  PROVE  /\ s.is = "let" => Reaches(generate_let(s), 0, 0)
         /\ s.is = "do" => Reaches(generate_do(s), 0, 0)
         /\ s.is = "return" => Reaches(generate_return(s.value), 0, 0)
         /\ s.is \in {"if", "while"} =>
              IsWritten(Generated(s.condition)) /\ Reaches(Generated(s.condition), 0, 1)
<1>1. s \in Statements /\ SoundStatement(F, SoundStatements(F), s)
  BY SoundStatementsUnfold
<1> DEFINE Sound == SoundTerms(F)
<1>2. \A e \in Expressions : SoundExpression(Sound, e) =>
        /\ IsWritten(Generated(e)) /\ Reaches(Generated(e), 0, 1)
        /\ Reaches(Generated(e), 1, 2)
  <2>1. 0 \in Nat /\ 1 \in Nat /\ 0 + 1 = 1 /\ 1 + 1 = 2
    OBVIOUS
  <2> QED
    BY <2>1, SoundReaches
<1>3. \A call \in SubroutineCalls : SoundCall(F, Sound, call) =>
        Reaches(generate_sub_call_node(generate_term_node, call), 0, 1)
  <2>1. 0 \in Nat /\ 0 + 1 = 1
    OBVIOUS
  <2> QED
    BY <2>1, SoundReaches
<1> HIDE DEF Sound
<1>4. s \in SimpleStatements \/ s \in CompoundStatements(Statements)
  BY <1>1, StatementParts
<1>5. /\ 0 \in Nat /\ 1 \in Nat /\ 2 \in Nat /\ 3 \in Nat /\ 0 \in Int /\ 1 \in Int
      /\ 0 + 1 = 1 /\ 1 + 1 = 2 /\ 2 + 1 = 3 /\ 1 + 2 = 3
  OBVIOUS
<1>6. CASE s.is = "let"
  <2>1. s.right \in Expressions /\ s.index \in Optional(Expressions)
    BY <1>4, <1>6, SimpleStatementKinds, CompoundStatementKinds
  <2>2. /\ IsWritten(Generated(s.right)) /\ Reaches(Generated(s.right), 0, 1)
        /\ s.index # <<>> => /\ IsWritten(Generated(s.index[1]))
                             /\ Reaches(Generated(s.index[1]), 1, 2)
    BY <1>1, <1>2, <1>6, <2>1, OptionalValue DEF SoundStatement, Sound
  <2>3. CASE s.index = <<>>
    <3>1. Reaches(WithVariable("pop", s.name), 1, 0)
      BY <1>5, VariableReaches
    <3> QED
      BY <1>5, <1>6, <2>2, <2>3, <3>1, FollowedReaches DEF generate_let
  <2>4. CASE s.index # <<>>
    <3> DEFINE a == Generated(s.right)
               b == Generated(s.index[1])
               c == WithVariable("push", s.name)
               d == write_arithmetic("add")
               e == write_pop("temp", 0)
               f == write_pop("pointer", 1)
               g == write_push("temp", 0)
               h == write_pop("that", 0)
    <3>1. /\ IsWritten(a) /\ IsWritten(b) /\ IsWritten(c) /\ IsWritten(d)
          /\ IsWritten(e) /\ IsWritten(f) /\ IsWritten(g) /\ IsWritten(h)
      BY <2>2, <2>4, InstructionsWritten
    <3>2. Reaches(a, 0, 1) /\ Reaches(b, 1, 2)
      BY <2>2, <2>4
    <3>3. Reaches(c, 2, 3)
      BY <1>5, VariableReaches
    <3>4. Reaches(d, 3, 2)
      BY <1>5, ArithmeticReaches
    <3>5. Reaches(e, 2, 1) /\ Reaches(h, 1, 0)
      BY <1>5, AccessReaches DEF write_pop
    <3>6. Reaches(f, 1, 0)
      BY <1>5, AccessReaches DEF write_pop
    <3>7. Reaches(g, 0, 1)
      BY <1>5, AccessReaches DEF write_push
    <3>8. generate_let(s) = All(<<a, b, c, d, e, f, g, h>>)
      BY <1>6, <2>4 DEF generate_let
    <3> HIDE DEF a, b, c, d, e, f, g, h
    <3>9. Reaches(All(<<a, b, c, d, e, f, g, h>>), 0, 0)
      BY <1>5, <3>1, <3>2, <3>3, <3>4, <3>5, <3>6, <3>7, EightReach
    <3> QED
      BY <1>6, <3>8, <3>9
  <2> QED
    BY <1>6, <2>3, <2>4
<1>7. CASE s.is = "do"
  <2>1. s.call \in SubroutineCalls
    BY <1>4, <1>7, SimpleStatementKinds, CompoundStatementKinds
  <2>2. Reaches(generate_sub_call_node(generate_term_node, s.call), 0, 1)
    BY <1>1, <1>3, <1>7, <2>1 DEF SoundStatement, Sound
  <2>3. Reaches(write_pop("temp", 0), 1, 0)
    BY <1>5, AccessReaches DEF write_pop
  <2>4. Reaches(generate_do(s), 0, 0)
    BY <1>5, <2>2, <2>3, FollowedReaches DEF generate_do
  <2> QED
    BY <1>7, <2>4
<1>8. CASE s.is = "return"
  <2>1. s.value \in Optional(Expressions)
    BY <1>4, <1>8, SimpleStatementKinds, CompoundStatementKinds
  <2>2. s.value # <<>> => Reaches(Generated(s.value[1]), 0, 1)
    BY <1>1, <1>2, <1>8, <2>1, OptionalValue DEF SoundStatement, Sound
  <2>3. Reaches(write_push("constant", 0), 0, 1)
    BY <1>5, AccessReaches DEF write_push
  <2>4. Reaches(write_return, 1, 0)
    BY SettlingReaches
  <2>5. Reaches(generate_return(s.value), 0, 0)
    BY <1>5, <2>2, <2>3, <2>4, FollowedReaches DEF generate_return
  <2> QED
    BY <1>8, <2>5
<1>9. CASE s.is \in {"if", "while"}
  <2>1. s.condition \in Expressions
    BY <1>4, <1>9, SimpleStatementKinds, CompoundStatementKinds
  <2> QED
    BY <1>1, <1>2, <1>9, <2>1 DEF SoundStatement, Sound
<1> QED
  BY <1>6, <1>7, <1>8, <1>9

(* What is written around the blocks of a statement.                       *)
LEMMA MarksReach ==
  \A a, b : Reaches(write_label(a), 0, 0) /\ Reaches(Followed(write_goto(b), write_label(a)), 0, 0)
<1>1. \A label : Reaches(write_label(label), 0, 0) /\ Reaches(write_goto(label), 0, 0)
  BY SettlingReaches
<1>2. 0 \in Int
  OBVIOUS
<1> QED
  BY <1>1, <1>2, FollowedReaches

LEMMA TestsReach ==
  ASSUME NEW w, IsWritten(w), Reaches(w, 0, 1), NEW a, NEW b
  PROVE  /\ Reaches(All(<<w, write_arithmetic("not"), write_if(a), write_label(b)>>), 0, 0)
         /\ Reaches(All(<<write_label(a), w, write_arithmetic("not"), write_if(b)>>), 0, 0)
<1> DEFINE not == write_arithmetic("not")
<1>1. /\ IsWritten(not)
      /\ \A label : IsWritten(write_label(label)) /\ IsWritten(write_if(label))
  BY InstructionsWritten
<1>2. Reaches(not, 1, 1)
  <2>1. 0 \in Nat /\ 0 + 1 = 1
    OBVIOUS
  <2> QED
    BY <2>1, ArithmeticReaches
<1>3. /\ \A label : Reaches(write_label(label), 0, 0) /\ Reaches(write_goto(label), 0, 0)
                    /\ Reaches(write_if(label), 1, 0)
  BY SettlingReaches
<1>4. 0 \in Nat /\ 1 \in Nat /\ 0 \in Int
  OBVIOUS
<1> HIDE DEF not
<1>5. Reaches(All(<<w, not, write_if(a), write_label(b)>>), 0, 0)
  BY <1>1, <1>2, <1>3, <1>4, FourReach
<1>6. Reaches(All(<<write_label(a), w, not, write_if(b)>>), 0, 0)
  BY <1>1, <1>2, <1>3, <1>4, FourReach
<1> QED
  BY <1>5, <1>6 DEF not

LEMMA PairReaches ==
  ASSUME NEW i, i # ClearThis, i # [op |-> "push", segment |-> "constant", index |-> 0],
         NEW x \in Nat, Needs(i) \in Nat, x >= Needs(i), Leaves(i) = 1, ~Settles(i),
         NEW a, a.fate = "running", a.code = <<i>>
  PROVE  Reaches(Followed(a, write_pop("pointer", 0)), x, x - Needs(i))
<1> DEFINE b == write_pop("pointer", 0)
           n == Needs(i)
<1>1. Followed(a, b).code = <<i>> \o <<ClearThis>>
  BY DEF Followed, write_pop, Access, ClearThis
<1>2. Followed(a, b).code = <<i, ClearThis>>
  BY <1>1, OneAndOne
<1>3. Leads(<<i, ClearThis>>, x, x - n)
  BY PairLeads
<1> HIDE DEF b, n
<1> QED
  BY <1>2, <1>3 DEF Reaches, b, n

LEMMA HeadReaches ==
  ASSUME NEW kind \in SubroutineKinds, NEW name, NEW callee
  PROVE  Reaches(generate_sub_head(kind, name, callee), 0, 0)
<1> DEFINE locals == Len(get_symbols_of_kind(tables, callee.childTable, "VAR"))
           fields == Len(get_symbols_of_kind(tables, callee.table, "FIELD"))
           first == write_function(<<currentClassName, name>>, locals)
           size == write_push("constant", fields)
           alloc == write_call(<<"Memory", "alloc">>, 1)
           object == write_push("argument", 0)
           set == write_pop("pointer", 0)
<1>1. generate_sub_head(kind, name, callee)
        = All(<<first>> \o CASE kind = "CONSTRUCTOR" -> <<size, alloc, set>>
                             [] kind = "METHOD" -> <<object, set>>
                             [] kind = "FUNCTION" -> <<>>)
  BY DEF generate_sub_head
<1>2. IsWritten(first) /\ IsWritten(size) /\ IsWritten(alloc) /\ IsWritten(object) /\ IsWritten(set)
  BY InstructionsWritten
<1>3. Reaches(first, 0, 0)
  BY SettlingReaches
<1>4. /\ 0 \in Nat /\ 1 \in Nat /\ 0 \in Int /\ 1 \in Int /\ 0 + 1 = 1 /\ 1 - 1 = 0 /\ 0 - 0 = 0
      /\ 0 >= 0 /\ 1 >= 1
  OBVIOUS
<1>5. Reaches(size, 0, 1)
  BY <1>4, AccessReaches DEF write_push
<1>6. Reaches(Followed(alloc, set), 1, 0)
  <2> DEFINE i == [op |-> "call", name |-> <<"Memory", "alloc">>, args |-> 1]
  <2>1. /\ i # ClearThis /\ i # [op |-> "push", segment |-> "constant", index |-> 0]
        /\ Needs(i) = 1 /\ Leaves(i) = 1 /\ ~Settles(i)
    BY DEF ClearThis, Needs, Leaves, Settles, Jumps
  <2>2. alloc.fate = "running" /\ alloc.code = <<i>>
    BY DEF write_call, Written
  <2> HIDE DEF i, alloc
  <2>3. Reaches(Followed(alloc, set), 1, 1 - Needs(i))
    BY <1>4, <2>1, <2>2, PairReaches
  <2> QED
    BY <1>4, <2>1, <2>3
<1>7. Reaches(Followed(object, set), 0, 0)
  <2> DEFINE i == [op |-> "push", segment |-> "argument", index |-> 0]
  <2>1. /\ i # ClearThis /\ i # [op |-> "push", segment |-> "constant", index |-> 0]
        /\ Needs(i) = 0 /\ Leaves(i) = 1 /\ ~Settles(i)
    BY DEF ClearThis, Needs, Leaves, Settles, Jumps
  <2>2. object.fate = "running" /\ object.code = <<i>>
    BY DEF write_push, Access
  <2> HIDE DEF i, object
  <2>3. Reaches(Followed(object, set), 0, 0 - Needs(i))
    BY <1>4, <2>1, <2>2, PairReaches
  <2> QED
    BY <1>4, <2>1, <2>3
<1>8. Reaches(Written(<<>>), 0, 0) /\ IsWritten(Written(<<>>))
  BY <1>4, NothingLeads, SomeWritten DEF Reaches, Written
<1> HIDE DEF first, size, alloc, object, set
<1> DEFINE begin == Followed(Written(<<>>), first)
<1>9. Reaches(begin, 0, 0) /\ IsWritten(begin)
  BY <1>2, <1>3, <1>4, <1>8, FollowedReaches, FollowedWritten
<1>10. CASE kind = "CONSTRUCTOR"
  <2> DEFINE parts == <<first, size, alloc, set>>
  <2>1. <<first>> \o <<size, alloc, set>> = parts
    BY OneAndThree
  <2>2. AreWritten(parts) /\ Len(parts) = 4
    BY <1>2, FourWritten
  <2>3. parts[1] = first /\ parts[2] = size /\ parts[3] = alloc /\ parts[4] = set
    OBVIOUS
  <2> HIDE DEF parts
  <2>4. PICK g : /\ g[0] = Written(<<>>) /\ All(parts) = g[4]
                 /\ g[1] = Followed(g[0], first) /\ g[2] = Followed(g[1], size)
                 /\ g[3] = Followed(g[2], alloc) /\ g[4] = Followed(g[3], set)
    <3>1. PICK g : /\ g[0] = Written(<<>>) /\ All(parts) = g[Len(parts)]
                   /\ \A i \in 1 .. Len(parts) : g[i] = Followed(g[i - 1], parts[i])
      BY <2>2, AllSteps
    <3>2. /\ \A i \in 1 .. 4 : g[i] = Followed(g[i - 1], parts[i])
          /\ 1 \in 1 .. 4 /\ 2 \in 1 .. 4 /\ 3 \in 1 .. 4 /\ 4 \in 1 .. 4
          /\ 1 - 1 = 0 /\ 2 - 1 = 1 /\ 3 - 1 = 2 /\ 4 - 1 = 3
      BY <2>2, <3>1
    <3>3. /\ g[1] = Followed(g[0], first) /\ g[2] = Followed(g[1], size)
          /\ g[3] = Followed(g[2], alloc) /\ g[4] = Followed(g[3], set)
      BY <2>3, <3>2
    <3> QED
      BY <2>2, <3>1, <3>3
  <2> DEFINE made == Followed(begin, size)
  <2>5. Reaches(made, 0, 1) /\ IsWritten(made)
    BY <1>2, <1>4, <1>5, <1>9, FollowedReaches, FollowedWritten
  <2>6. All(parts) = Followed(Followed(made, alloc), set)
    BY <2>4
  <2> HIDE DEF made
  <2>7. All(parts) = Followed(made, Followed(alloc, set))
    BY <1>2, <2>5, <2>6, FollowedAssociative
  <2>8. Reaches(All(parts), 0, 0)
    BY <1>4, <1>6, <2>5, <2>7, FollowedReaches
  <2> QED
    BY <1>1, <1>10, <2>1, <2>8
<1>11. CASE kind = "METHOD"
  <2> DEFINE parts == <<first, object, set>>
  <2>1. <<first>> \o <<object, set>> = parts
    BY OneAndTwo
  <2>2. AreWritten(parts) /\ Len(parts) = 3
    BY <1>2, ThreeWritten
  <2>3. parts[1] = first /\ parts[2] = object /\ parts[3] = set
    OBVIOUS
  <2> HIDE DEF parts
  <2>4. PICK g : /\ g[0] = Written(<<>>) /\ All(parts) = g[3]
                 /\ g[1] = Followed(g[0], first) /\ g[2] = Followed(g[1], object)
                 /\ g[3] = Followed(g[2], set)
    <3>1. PICK g : /\ g[0] = Written(<<>>) /\ All(parts) = g[Len(parts)]
                   /\ \A i \in 1 .. Len(parts) : g[i] = Followed(g[i - 1], parts[i])
      BY <2>2, AllSteps
    <3>2. /\ \A i \in 1 .. 3 : g[i] = Followed(g[i - 1], parts[i])
          /\ 1 \in 1 .. 3 /\ 2 \in 1 .. 3 /\ 3 \in 1 .. 3
          /\ 1 - 1 = 0 /\ 2 - 1 = 1 /\ 3 - 1 = 2
      BY <2>2, <3>1
    <3>3. /\ g[1] = Followed(g[0], first) /\ g[2] = Followed(g[1], object)
          /\ g[3] = Followed(g[2], set)
      BY <2>3, <3>2
    <3> QED
      BY <2>2, <3>1, <3>3
  <2>5. All(parts) = Followed(Followed(begin, object), set)
    BY <2>4
  <2> HIDE DEF begin
  <2>6. All(parts) = Followed(begin, Followed(object, set))
    BY <1>2, <1>9, <2>5, FollowedAssociative
  <2>7. Reaches(All(parts), 0, 0)
    BY <1>4, <1>7, <1>9, <2>6, FollowedReaches
  <2> QED
    BY <1>1, <1>11, <2>1, <2>7
<1>12. CASE kind = "FUNCTION"
  <2> DEFINE parts == <<first>>
  <2>1. parts \o <<>> = parts
    BY ConcatEmptySeq
  <2>2. AreWritten(parts) /\ Len(parts) = 1 /\ parts[1] = first
    BY <1>2, OneWritten
  <2> HIDE DEF parts
  <2>3. PICK g : /\ g[0] = Written(<<>>) /\ All(parts) = g[Len(parts)]
                 /\ \A i \in 1 .. Len(parts) : g[i] = Followed(g[i - 1], parts[i])
    BY <2>2, AllSteps
  <2>4. 1 \in 1 .. 1 /\ 1 - 1 = 0
    OBVIOUS
  <2>5. All(parts) = begin
    BY <2>2, <2>3, <2>4
  <2> QED
    BY <1>1, <1>9, <1>12, <2>1, <2>5 DEF parts
<1> QED
  BY <1>10, <1>11, <1>12 DEF SubroutineKinds

-----------------------------------------------------------------------------
(* A result of the analysis without an error, after which it goes on.      *)
Passed(r) == r.errors = 0 /\ r.fate = "running"

LEMMA NotPassed ==
  ASSUME NEW T, "int" \in T
  PROVE  /\ \A r, s \in Results(T) : Passed(After(r, s)) => Passed(r) /\ Passed(s)
         /\ \A r \in Results(T) : ~Passed(Error(r))
         /\ \A r \in Results(T) : \A types : ~Passed(ErrorShowing(r, types))
         /\ \A how : how # "running" => ~Passed(Dead(how))
<1>1. \A r, s \in Results(T) : Passed(After(r, s)) => Passed(r) /\ Passed(s)
  BY DEF Passed, After, Results
<1>2. \A r \in Results(T) : ~Passed(Error(r))
  BY DEF Passed, Error, Results
<1>3. \A how : how # "running" => ~Passed(Dead(how))
  BY DEF Passed, Dead
<1>4. Dead("crashed") \in Results(T) /\ Dead("exited") \in Results(T)
  BY Outcomes DEF Fates
<1>5. \A r \in Results(T) : \A types : ~Passed(ErrorShowing(r, types))
  <2>1. \A r \in Results(T) : ~Passed(After(r, Dead("crashed"))) /\ ~Passed(After(r, Dead("exited")))
    BY <1>1, <1>3, <1>4
  <2> QED
    BY <1>2, <2>1 DEF ErrorShowing
<1> QED
  BY <1>1, <1>2, <1>3, <1>5

LEMMA OperationsPassed ==
  ASSUME NEW T, "int" \in T, "boolean" \in T, NEW first \in Results(T), NEW ops,
         Len(ops) \in Nat, NEW operands, \A i \in 1 .. Len(ops) : operands[i] \in Results(T),
         Passed(OperationsTyped(first, ops, operands))
  PROVE  /\ Passed(first)
         /\ \A i \in 1 .. Len(ops) : Passed(operands[i]) /\ ops[i].op \in BinaryOperators
<1> DEFINE n == Len(ops)
           V == Results(T)
<1>1. PICK g \in [0 .. n -> V] :
        /\ g[0] = FirstTerm(first)
        /\ \A i \in 1 .. n : g[i] = IF g[i - 1].fate = "running"
                                    THEN AddOperation(g[i - 1], ops[i].op, operands[i]) ELSE g[i - 1]
        /\ OperationsTyped(first, ops, operands) = g[n]
  BY OperationsSteps
<1>2. n \in Nat /\ first \in V /\ \A i \in 1 .. n : operands[i] \in V
  OBVIOUS
<1>3. \A r, next \in V : \A op :
        Passed(AddOperation(r, op, next)) => Passed(r) /\ Passed(next) /\ op \in BinaryOperators
  <2> SUFFICES ASSUME NEW r \in V, NEW next \in V, NEW op, Passed(AddOperation(r, op, next))
               PROVE  Passed(r) /\ Passed(next) /\ op \in BinaryOperators
    OBVIOUS
  <2>1. r.type \in T /\ Makes(op) \in T
    BY DEF Results, Makes
  <2>2. Operation(r, op, next) \in V /\ After(r, next) \in V
    BY <2>1, Outcomes DEF Operation
  <2>3. Passed(r) /\ Passed(next) /\ Passed(Operation(r, op, next))
    BY <2>2, NotPassed DEF AddOperation
  <2>4. Typed(r.type) \in V
    BY <2>1, Outcomes
  <2>5. ~Passed(Error(Typed(r.type)))
    BY <2>4, NotPassed
  <2>6. op \in BinaryOperators
    BY <2>3, <2>5 DEF Operation, BinaryOperators
  <2> QED
    BY <2>3, <2>6
<1>4. Passed(FirstTerm(first)) => Passed(first)
  <2>1. Dead("crashed") \in V /\ ~Passed(Dead("crashed"))
    BY Outcomes, NotPassed DEF Fates
  <2> QED
    BY <2>1, NotPassed DEF FirstTerm
<1> HIDE DEF n, V
<1>5. \A i \in 0 .. n : g[i] \in V
  BY <1>1
<1>6. ASSUME NEW i \in 1 .. n, Passed(g[i])
      PROVE  Passed(g[i - 1]) /\ Passed(operands[i]) /\ ops[i].op \in BinaryOperators
  <2>1. i - 1 \in 0 .. n
    BY <1>2
  <2>2. g[i - 1] \in V /\ operands[i] \in V
    BY <1>2, <1>5, <2>1
  <2>3. g[i - 1].fate = "running"
    BY <1>1, <1>6 DEF Passed
  <2>4. Passed(AddOperation(g[i - 1], ops[i].op, operands[i]))
    BY <1>1, <1>6, <2>3
  <2> QED
    BY <1>3, <2>2, <2>4
<1> DEFINE U == {i \in 0 .. n : Passed(g[i])}
<1>7. n \in U /\ \A i \in 1 .. n : i \in U => i - 1 \in U
  <2>1. n \in U
    BY <1>1, <1>2
  <2>2. ASSUME NEW i \in 1 .. n, i \in U PROVE i - 1 \in U
    <3>1. i - 1 \in 0 .. n
      BY <1>2
    <3> QED
      BY <1>6, <2>2, <3>1
  <2> QED
    BY <2>1, <2>2
<1>8. \A i \in 0 .. n : i \in U
  <2> HIDE DEF U
  <2> QED
    BY <1>2, <1>7, DownInduction
<1>9. Passed(first)
  BY <1>1, <1>2, <1>4, <1>8
<1>10. \A i \in 1 .. n : Passed(operands[i]) /\ ops[i].op \in BinaryOperators
  <2>1. \A i \in 1 .. n : i \in 0 .. n
    BY <1>2
  <2> QED
    BY <1>6, <1>8, <2>1
<1> QED
  BY <1>9, <1>10 DEF n

LEMMA SequencePassed ==
  ASSUME NEW T, "int" \in T, NEW r \in Results(T), NEW results, Len(results) \in Nat,
         \A i \in 1 .. Len(results) : results[i] \in Results(T), Passed(AfterAll(r, results))
  PROVE  \A i \in 1 .. Len(results) : Passed(results[i])
<1> DEFINE n == Len(results)
           V == Results(T)
<1>1. PICK g \in [0 .. n -> V] :
        /\ g[0] = r
        /\ \A i \in 1 .. n : g[i] = After(g[i - 1], results[i])
        /\ AfterAll(r, results) = g[n]
  BY SequenceSteps
<1>2. n \in Nat /\ \A i \in 1 .. n : results[i] \in V
  OBVIOUS
<1>3. \A a, b \in V : Passed(After(a, b)) => Passed(a) /\ Passed(b)
  BY NotPassed
<1> HIDE DEF n, V
<1>4. ASSUME NEW i \in 1 .. n, Passed(g[i]) PROVE Passed(g[i - 1]) /\ Passed(results[i])
  <2>1. i - 1 \in 0 .. n
    BY <1>2
  <2>2. g[i - 1] \in V /\ results[i] \in V
    BY <1>1, <1>2, <2>1
  <2> QED
    BY <1>1, <1>3, <1>4, <2>2
<1> DEFINE U == {i \in 0 .. n : Passed(g[i])}
<1>5. n \in U /\ \A i \in 1 .. n : i \in U => i - 1 \in U
  <2>1. n \in U
    BY <1>1, <1>2
  <2>2. ASSUME NEW i \in 1 .. n, i \in U PROVE i - 1 \in U
    <3>1. i - 1 \in 0 .. n
      BY <1>2
    <3> QED
      BY <1>4, <2>2, <3>1
  <2> QED
    BY <2>1, <2>2
<1>6. \A i \in 0 .. n : i \in U
  <2> HIDE DEF U
  <2> QED
    BY <1>2, <1>5, DownInduction
<1>7. \A i \in 1 .. n : Passed(results[i])
  <2>1. \A i \in 1 .. n : i \in 0 .. n
    BY <1>2
  <2> QED
    BY <1>4, <1>6, <2>1
<1> QED
  BY <1>7 DEF n

LEMMA ExpressionPassed ==
  ASSUME NEW T, "int" \in T, "boolean" \in T, NEW S, NEW f, \A y \in S : f[y] \in Results(T),
         NEW e \in ExpressionNode(S), Passed(analyze_expression_node(f, e))
  PROVE  SoundExpression({y \in S : Passed(f[y])}, e)
<1> DEFINE operands == [i \in 1 .. Len(e.ops) |-> f[e.ops[i].term]]
<1>1. f[e.term] \in Results(T) /\ e.term \in S /\ Len(e.ops) \in Nat
  BY ExpressionParts
<1>2. \A i \in 1 .. Len(e.ops) :
        /\ operands[i] \in Results(T) /\ operands[i] = f[e.ops[i].term] /\ e.ops[i].term \in S
  BY ExpressionParts
<1>3. Passed(OperationsTyped(f[e.term], e.ops, operands))
  BY DEF analyze_expression_node
<1> HIDE DEF operands
<1>4. /\ Passed(f[e.term])
      /\ \A i \in 1 .. Len(e.ops) : Passed(operands[i]) /\ e.ops[i].op \in BinaryOperators
  BY <1>1, <1>2, <1>3, OperationsPassed
<1> QED
  BY <1>1, <1>2, <1>4 DEF SoundExpression

LEMMA CallPassed ==
  ASSUME NEW T, "int" \in T, "boolean" \in T, NEW S, NEW f, \A y \in S : f[y] \in Results(T),
         NEW call \in SubroutineCallNode(S), Callee(call).type \in T,
         Passed(analyze_subroutine_call_node(f, call))
  PROVE  /\ Found(Callee(call))
         /\ \A i \in 1 .. Len(call.args) : SoundExpression({y \in S : Passed(f[y])}, call.args[i])
<1> DEFINE callee == Callee(call)
           given(i) == f[call.args[i].term].type
           value(i) == analyze_expression_node(f, call.args[i])
           found(i) == Argument(call, Parameters(callee), i, value(i), given(i))
           results == [i \in 1 .. Len(call.args) |-> found(i)]
<1>1. \A how \in {"crashed", "aborted"} : Dead(how) \in Results(T) /\ ~Passed(Dead(how))
  BY Outcomes, NotPassed DEF Fates
<1>2. Passed(CalleeTyped(f, call, callee))
  BY <1>1 DEF analyze_subroutine_call_node
<1>3. ~Passed(Error(Typed(Unset)))
  BY Outcomes, NotPassed DEF Unset
<1>4. IsSubroutine(callee) /\ Passed([Arguments(f, call, callee) EXCEPT !.type = callee.type])
  BY <1>2, <1>3 DEF CalleeTyped
<1>5. Len(call.args) \in Nat
  BY CallParts
<1>6. \A i \in 1 .. Len(call.args) :
        /\ call.args[i] \in ExpressionNode(S) /\ value(i) \in Results(T)
        /\ found(i) \in Results(T)
        /\ Passed(found(i)) => Passed(value(i))
  <2> SUFFICES ASSUME NEW i \in 1 .. Len(call.args)
               PROVE  /\ call.args[i] \in ExpressionNode(S) /\ value(i) \in Results(T)
                      /\ found(i) \in Results(T)
                      /\ Passed(found(i)) => Passed(value(i))
    OBVIOUS
  <2>1. call.args[i] \in ExpressionNode(S) /\ value(i) \in Results(T)
    BY CallParts, ExpressionOutcome
  <2> DEFINE r == value(i)
  <2>2. r \in Results(T)
    BY <2>1
  <2> HIDE DEF r
  <2>3. /\ \A types : ErrorShowing(r, types) \in Results(T) /\ ~Passed(ErrorShowing(r, types))
        /\ \A how \in {"crashed", "aborted"} :
             After(r, Dead(how)) \in Results(T) /\ ~Passed(After(r, Dead(how)))
    BY <1>1, <2>2, Outcomes, NotPassed
  <2>4. \A j, type : /\ Argument(call, Parameters(callee), j, r, type) \in Results(T)
                     /\ Passed(Argument(call, Parameters(callee), j, r, type)) => Passed(r)
    BY <2>2, <2>3 DEF Argument
  <2> QED
    BY <2>1, <2>4 DEF r
<1> HIDE DEF found
<1>7. /\ Len(results) = Len(call.args)
      /\ \A i \in 1 .. Len(results) : results[i] \in Results(T) /\ results[i] = found(i)
  BY <1>5, <1>6
<1> HIDE DEF results
<1>8. Arguments(f, call, callee) = AfterAll(Typed(callee.type), results)
  BY DEF Arguments, results, found
<1>9. Typed(callee.type) \in Results(T)
  BY Outcomes
<1>10. AfterAll(Typed(callee.type), results) \in Results(T)
  BY <1>5, <1>7, <1>9, SequenceOutcome
<1>11. Passed(AfterAll(Typed(callee.type), results))
  BY <1>4, <1>8, <1>10 DEF Passed, Results
<1>12. \A i \in 1 .. Len(results) : Passed(results[i])
  BY <1>5, <1>7, <1>9, <1>11, SequencePassed
<1>13. \A i \in 1 .. Len(call.args) : Passed(value(i))
  BY <1>6, <1>7, <1>12
<1>14. \A i \in 1 .. Len(call.args) : SoundExpression({y \in S : Passed(f[y])}, call.args[i])
  BY <1>6, <1>13, ExpressionPassed
<1> QED
  BY <1>4, <1>14 DEF IsSubroutine

(* What passes the analysis is sound in the scope it is analyzed in.       *)
LEMMA PassedIsSound ==
  /\ {x \in Terms : Passed(analyze_term_node[x])} \subseteq SoundTerms(CallsFound(tables, currentTable))
  /\ \A e \in Expressions :
       Passed(Analyzed(e)) => SoundExpression(SoundTerms(CallsFound(tables, currentTable)), e)
  /\ \A call \in SubroutineCalls :
       Passed(analyze_call(call)) =>
         SoundCall(CallsFound(tables, currentTable), SoundTerms(CallsFound(tables, currentTable)), call)
<1> DEFINE F == CallsFound(tables, currentTable)
           P == {x \in Terms : Passed(analyze_term_node[x])}
           T == TypesMet
<1>1. /\ "int" \in T /\ "boolean" \in T
      /\ \A call \in SubroutineCalls : Callee(call).type \in T
      /\ \A y \in Terms : analyze_term_node[y] \in Results(T)
  <2>1. \A y \in Terms : analyze_term_node[y] \in Results(T)
    BY TermOutcomes
  <2> QED
    BY <2>1 DEF TypesMet, Basic
<1> HIDE DEF T
<1>2. ASSUME NEW e \in ExpressionNode(Terms), Passed(analyze_expression_node(analyze_term_node, e))
      PROVE  SoundExpression(P, e)
  BY <1>1, <1>2, ExpressionPassed
<1>3. ASSUME NEW call \in SubroutineCalls,
             Passed(analyze_subroutine_call_node(analyze_term_node, call))
      PROVE  SoundCall(F, P, call)
  <2>1. call \in SubroutineCallNode(Terms) /\ Callee(call).type \in T
    BY <1>1 DEF SubroutineCalls
  <2>2. /\ Found(Callee(call))
        /\ \A i \in 1 .. Len(call.args) : SoundExpression(P, call.args[i])
    BY <1>1, <1>3, <2>1, CallPassed
  <2>3. call \in F
    BY <2>2, CallsFoundHere
  <2> QED
    BY <2>2, <2>3 DEF SoundCall
<1>4. ASSUME NEW x \in P PROVE SoundTerm(F, P, x)
  <2>1. x \in Terms /\ Passed(AnalyzeAt(analyze_term_node, x))
    BY AnalysisEquation
  <2>2. x \in SimpleTerms \/ x \in CompoundTerms(Terms)
    BY <2>1, TermParts
  <2>3. x.is # "incomplete"
    <3>1. Typed(Unset) \in Results(T)
      BY <1>1, Outcomes DEF Unset
    <3>2. ~Passed(Error(Typed(Unset)))
      BY <1>1, <3>1, NotPassed
    <3> QED
      BY <2>1, <3>2 DEF AnalyzeAt
  <2>4. x.is = "call" => SoundCall(F, P, x.call)
    <3> SUFFICES ASSUME x.is = "call" PROVE SoundCall(F, P, x.call)
      OBVIOUS
    <3>1. x.call \in SubroutineCalls
      BY <2>2, SimpleTermKinds, CompoundTermKinds DEF CompoundKinds, SubroutineCalls
    <3>2. Passed(analyze_subroutine_call_node(analyze_term_node, x.call))
      BY <2>1 DEF AnalyzeAt
    <3> QED
      BY <1>3, <3>1, <3>2
  <2>5. x.is = "paren" => SoundExpression(P, x.of)
    <3> SUFFICES ASSUME x.is = "paren" PROVE SoundExpression(P, x.of)
      OBVIOUS
    <3>1. x.of \in ExpressionNode(Terms)
      BY <2>2, SimpleTermKinds, CompoundTermKinds DEF CompoundKinds
    <3>2. Passed(analyze_expression_node(analyze_term_node, x.of))
      BY <2>1 DEF AnalyzeAt
    <3> QED
      BY <1>2, <3>1, <3>2
  <2>6. x.is = "unary" => x.of \in P
    <3> SUFFICES ASSUME x.is = "unary" PROVE x.of \in P
      OBVIOUS
    <3>1. x.of \in Terms
      BY <2>2, SimpleTermKinds, CompoundTermKinds DEF CompoundKinds
    <3> DEFINE inner == analyze_term_node[x.of]
    <3>2. inner \in Results(T)
      BY <1>1, <3>1
    <3>3. Passed(analyze_unary_op_node(analyze_term_node, x))
      BY <2>1 DEF AnalyzeAt
    <3>4. \E wanted : Passed(UnaryOperation(inner, wanted))
      BY <3>3 DEF analyze_unary_op_node
    <3> HIDE DEF inner
    <3>5. \A types : ~Passed(ErrorShowing(inner, types))
      BY <1>1, <3>2, NotPassed
    <3>6. Passed(inner)
      BY <3>4, <3>5 DEF UnaryOperation
    <3> QED
      BY <3>1, <3>6 DEF inner
  <2>7. x.is # "array"
    <3> SUFFICES ASSUME x.is = "array" PROVE FALSE
      OBVIOUS
    <3>1. x.index \in ExpressionNode(Terms) /\ x.name \in Names
      BY <2>2, SimpleTermKinds, CompoundTermKinds, ArrayName DEF CompoundKinds
    <3> DEFINE symbol == Lookup(x.name, "CLASS")
               value == analyze_expression_node(analyze_term_node, x.index)
    <3>2. Passed(After(value, ArrayTerm(symbol)))
      BY <2>1 DEF AnalyzeAt, analyze_array_access_node
    <3>3. value \in Results(T)
      BY <1>1, <3>1, ExpressionOutcome
    <3>4. symbol.type \in T /\ Null \in T
      BY <3>1 DEF TypesMet, T
    <3> HIDE DEF symbol, value
    <3>5. ArrayTerm(symbol) \in Results(T)
      BY <1>1, <3>4, ArrayOutcome
    <3>6. Passed(ArrayTerm(symbol))
      BY <1>1, <3>2, <3>3, <3>5, NotPassed
    <3>7. /\ Typed(symbol.type) \in Results(T) /\ Typed(Null) \in Results(T)
          /\ Error(Typed(Null)) \in Results(T)
      BY <1>1, <3>4, Outcomes
    <3>8. ~Passed(Error(Typed(symbol.type))) /\ ~Passed(Error(Error(Typed(Null))))
      BY <1>1, <3>7, NotPassed
    <3> QED
      BY <3>6, <3>8 DEF ArrayTerm
  <2> QED
    BY <2>3, <2>4, <2>5, <2>6, <2>7 DEF SoundTerm
<1>5. P \subseteq Terms
  OBVIOUS
<1> HIDE DEF P, F
<1>6. P \subseteq SoundTerms(F)
  BY <1>4, <1>5, SoundTermsUnfold
<1>7. \A e \in Expressions : Passed(Analyzed(e)) => SoundExpression(SoundTerms(F), e)
  BY <1>2, <1>6, SoundPartsGrow DEF Analyzed, Expressions
<1>8. \A call \in SubroutineCalls : Passed(analyze_call(call)) => SoundCall(F, SoundTerms(F), call)
  BY <1>3, <1>6, SoundPartsGrow DEF analyze_call
<1> QED
  BY <1>6, <1>7, <1>8 DEF P, F

(* Of a statement with blocks it is the condition that is analyzed first.  *)
LEMMA StatementPassed ==
  ASSUME NEW s \in Statements, NEW F, F = CallsFound(tables, currentTable)
  PROVE  /\ s.is = "let" /\ Passed(analyze_let(s)) => s \in SoundStatements(F)
         /\ s.is = "do" /\ Passed(analyze_call(s.call)) => s \in SoundStatements(F)
         /\ s.is = "return" /\ Passed(analyze_return(s.value)) => s \in SoundStatements(F)
         /\ /\ s.is = "if" /\ Passed(analyze_condition(s.condition))
            /\ \A i \in 1 .. Len(s.then) : s.then[i] \in SoundStatements(F)
            /\ \A i \in 1 .. Len(s.else) : s.else[i] \in SoundStatements(F)
            => s \in SoundStatements(F)
         /\ /\ s.is = "while" /\ Passed(analyze_condition(s.condition))
            /\ \A i \in 1 .. Len(s.body) : s.body[i] \in SoundStatements(F)
            => s \in SoundStatements(F)
<1> DEFINE S == SoundStatements(F)
           T == TypesMet
           Sound == SoundTerms(F)
<1>1. SoundStatement(F, S, s) => s \in S
  BY SoundStatementsUnfold
<1>2. /\ \A e \in Expressions : Passed(Analyzed(e)) => SoundExpression(Sound, e)
      /\ \A call \in SubroutineCalls : Passed(analyze_call(call)) => SoundCall(F, Sound, call)
  BY PassedIsSound
<1>3. "int" \in T /\ \A e \in Expressions : Analyzed(e) \in Results(T)
  BY ExpressionOutcomes DEF TypesMet, Basic
<1> HIDE DEF S, T
<1>4. /\ \A e \in Expressions : \A type : Passed(ValueTyped(Analyzed(e), type)) => Passed(Analyzed(e))
      /\ \A e \in Expressions : \A type : Passed(ReturnTyped(Analyzed(e), type)) => Passed(Analyzed(e))
      /\ \A e \in Expressions : Passed(IndexTyped(Analyzed(e))) => Passed(Analyzed(e))
  <2>1. \A e \in Expressions : /\ ~Passed(Error(Analyzed(e)))
                               /\ \A types : ~Passed(ErrorShowing(Analyzed(e), types))
    BY <1>3, NotPassed
  <2> QED
    BY <2>1 DEF ValueTyped, ReturnTyped, IndexTyped
<1>5. s \in SimpleStatements \/ s \in CompoundStatements(Statements)
  BY StatementParts
<1>6. ASSUME s.is = "let", Passed(analyze_let(s)) PROVE s \in S
  <2>1. s.right \in Expressions /\ s.index \in Optional(Expressions)
    BY <1>5, <1>6, SimpleStatementKinds, CompoundStatementKinds
  <2>2. s.index # <<>> => s.index[1] \in Expressions
    BY <2>1, OptionalValue
  <2> DEFINE first == IF s.index = <<>> THEN Typed(Unset) ELSE IndexTyped(Analyzed(s.index[1]))
  <2>3. first \in Results(T) /\ Typed(Unset) \in Results(T)
    BY <1>3, <2>2, CheckedOutcomes, Outcomes DEF Unset, T
  <2>4. PICK symbol : Passed(LetTyped(s, symbol))
    BY <1>6 DEF analyze_let
  <2>5. ~Passed(Error(Typed(Unset)))
    BY <1>3, <2>3, NotPassed
  <2>6. Passed(After(first, ValueTyped(Analyzed(s.right), symbol.type)))
    BY <2>4, <2>5 DEF LetTyped
  <2>7. ValueTyped(Analyzed(s.right), symbol.type) \in Results(T)
    BY <2>1, CheckedOutcomes DEF T
  <2> HIDE DEF first
  <2>8. Passed(first) /\ Passed(ValueTyped(Analyzed(s.right), symbol.type))
    BY <1>3, <2>3, <2>6, <2>7, NotPassed
  <2>9. Passed(Analyzed(s.right)) /\ (s.index # <<>> => Passed(Analyzed(s.index[1])))
    BY <1>4, <2>1, <2>2, <2>8 DEF first
  <2>10. SoundStatement(F, S, s)
    BY <1>2, <1>6, <2>1, <2>2, <2>9 DEF SoundStatement
  <2> QED
    BY <1>1, <2>10
<1>7. ASSUME s.is = "do", Passed(analyze_call(s.call)) PROVE s \in S
  <2>1. s.call \in SubroutineCalls
    BY <1>5, <1>7, SimpleStatementKinds, CompoundStatementKinds
  <2>2. SoundStatement(F, S, s)
    BY <1>2, <1>7, <2>1 DEF SoundStatement
  <2> QED
    BY <1>1, <2>2
<1>8. ASSUME s.is = "return", Passed(analyze_return(s.value)) PROVE s \in S
  <2>1. s.value \in Optional(Expressions)
    BY <1>5, <1>8, SimpleStatementKinds, CompoundStatementKinds
  <2>2. s.value # <<>> => s.value[1] \in Expressions
    BY <2>1, OptionalValue
  <2>3. s.value # <<>> => Passed(Analyzed(s.value[1]))
    BY <1>4, <1>8, <2>2 DEF analyze_return
  <2>4. SoundStatement(F, S, s)
    BY <1>2, <1>8, <2>2, <2>3 DEF SoundStatement
  <2> QED
    BY <1>1, <2>4
<1>9. s.is \in {"if", "while"} /\ Passed(analyze_condition(s.condition))
        => SoundExpression(Sound, s.condition)
  <2>1. s.is \in {"if", "while"} => s.condition \in Expressions
    BY <1>5, SimpleStatementKinds, CompoundStatementKinds
  <2> QED
    BY <1>2, <1>4, <2>1 DEF analyze_condition
<1> HIDE DEF Sound
<1>10. ASSUME s.is = "if", Passed(analyze_condition(s.condition)),
              \A i \in 1 .. Len(s.then) : s.then[i] \in S,
              \A i \in 1 .. Len(s.else) : s.else[i] \in S
       PROVE  s \in S
  BY <1>1, <1>9, <1>10 DEF SoundStatement, Sound
<1>11. ASSUME s.is = "while", Passed(analyze_condition(s.condition)),
              \A i \in 1 .. Len(s.body) : s.body[i] \in S
       PROVE  s \in S
  BY <1>1, <1>9, <1>11 DEF SoundStatement, Sound
<1> QED
  BY <1>6, <1>7, <1>8, <1>10, <1>11 DEF S

-----------------------------------------------------------------------------
(* What the analysis finds of a program is kept by its tables: subroutines *)
(* and classes are found again under their names.                          *)
SoundSub(ts, t, sub) ==
  LET symbol == symbol_table_lookup(ts, t, sub.name, "LOCAL") IN
  OfKind(symbol, SubroutineKinds) =>
    \A i \in 1 .. Len(sub.body) : sub.body[i] \in SoundStatements(CallsFound(ts, symbol.childTable))

SoundClass(ts, t, class) ==
  LET symbol == symbol_table_lookup(ts, t, class.name, "LOCAL") IN
  OfKind(symbol, {"CLASS"}) =>
    \A i \in 1 .. Len(class.subs) : SoundSub(ts, symbol.childTable, class.subs[i])

SoundProgram(ts, classes) == \A i \in 1 .. Len(classes) : SoundClass(ts, GlobalTable, classes[i])

SoundAt(ts, t, visit) ==
  /\ visit.op = "class" => SoundClass(ts, t, visit.node)
  /\ visit.op = "subroutine" => SoundSub(ts, t, visit.node)
  /\ visit.op = "statement" => visit.node \in SoundStatements(CallsFound(ts, t))
  /\ visit.op = "write" => Reaches(visit.node, 0, 0)

(* The scopes that visits are made in, the last one leading back to the    *)
(* global table.                                                           *)
Scoped(ts, scopes, t, visits) ==
  /\ scopes \in [1 .. Len(visits) + 1 -> 1 .. Len(ts)]
  /\ scopes[1] = t /\ scopes[Len(visits) + 1] = GlobalTable
  /\ \A i \in 1 .. Len(visits) :
       scopes[i + 1] = IF visits[i].op = "leave" THEN ts[scopes[i]].parent ELSE scopes[i]

AllSound(ts, scopes, visits) == \A i \in 1 .. Len(visits) : SoundAt(ts, scopes[i], visits[i])

Stays == {v \in WalkVisits : v.op # "leave"}

Sounds(ts, t) == {v \in Stays : SoundAt(ts, t, v)}

(* What the next visit leaves to make in its place.                        *)
Ending(ts, t, next, end) ==
  \/ end = <<>> /\ t = next
  \/ end = <<Leave>> /\ ts[t].parent = next

LEMMA Onward ==
  ASSUME NEW ts, Len(ts) \in Nat, NEW t, NEW visits \in Seq(WalkVisits), visits # <<>>,
         NEW scopes, Scoped(ts, scopes, t, visits),
         NEW w \in Seq(Stays), NEW u \in 1 .. Len(ts), NEW end, Ending(ts, u, scopes[2], end)
  PROVE  \E onward :
           /\ Scoped(ts, onward, u, (w \o end) \o Tail(visits))
           /\ AllSound(ts, onward, (w \o end) \o Tail(visits)) <=>
                /\ w \in Seq(Sounds(ts, u))
                /\ \A i \in 1 .. Len(visits) - 1 : SoundAt(ts, scopes[i + 1], visits[i + 1])
<1> DEFINE V == WalkVisits
           rest == Tail(visits)
           new == w \o end
           all == new \o rest
           k == Len(w)
           m == Len(new)
           n == Len(rest)
           onward == [i \in 1 .. m + n + 1 |-> IF i <= m THEN u ELSE scopes[(i - m) + 1]]
<1>1. end \in Seq(V) /\ Len(end) \in {0, 1} /\ (Len(end) = 0 => u = scopes[2])
      /\ (Len(end) = 1 => end[1] = Leave /\ ts[u].parent = scopes[2])
  <2>1. <<Leave>> \in Seq(V) /\ Len(<<Leave>>) = 1 /\ <<Leave>>[1] = Leave
    BY LeaveVisit
  <2>2. <<>> \in Seq(V) /\ Len(<<>>) = 0
    BY NoVisits
  <2>3. CASE end = <<>>
    BY <2>2, <2>3 DEF Ending
  <2>4. CASE end = <<Leave>>
    <3>1. ts[u].parent = scopes[2]
      BY <2>1, <2>4 DEF Ending
    <3> HIDE DEF V, Leave
    <3> QED
      BY <2>1, <2>4, <3>1
  <2> QED
    BY <2>3, <2>4 DEF Ending
<1>2. w \in Seq(V) /\ k \in Nat /\ \A i \in 1 .. k : w[i] \in Stays
  <2>1. Stays \subseteq V
    BY DEF Stays
  <2> HIDE DEF V, Stays
  <2> QED
    BY <2>1, SeqMonotonic
<1>3. rest \in Seq(V) /\ n \in Nat /\ Len(visits) = n + 1 /\ \A i \in 1 .. n : rest[i] = visits[i + 1]
  <2> HIDE DEF V
  <2> QED
    BY HeadAndTail DEF V
<1> HIDE DEF V
<1>4. /\ new \in Seq(V) /\ m = k + Len(end) /\ m \in Nat
      /\ \A i \in 1 .. k : new[i] = w[i]
      /\ m # k => new[m] = Leave /\ m = k + 1
  <2> DEFINE e == Len(end)
  <2>1. /\ new \in Seq(V) /\ m = k + e
        /\ \A i \in 1 .. k + e : new[i] = IF i <= k THEN w[i] ELSE end[i - k]
    BY <1>1, <1>2, ConcatProperties
  <2>2. k \in Nat /\ e \in {0, 1} /\ (e = 1 => end[1] = Leave)
    BY <1>1, <1>2
  <2> HIDE DEF new, k, m, e, Leave
  <2>3. m \in Nat /\ \A i \in 1 .. k : i \in 1 .. k + e /\ i <= k
    BY <2>1, <2>2
  <2>4. \A i \in 1 .. k : new[i] = w[i]
    BY <2>1, <2>3
  <2>5. ASSUME m # k PROVE new[m] = Leave /\ m = k + 1
    <3>1. e = 1 /\ m = k + 1 /\ m \in 1 .. k + e /\ ~(m <= k) /\ m - k = 1
      BY <2>1, <2>2, <2>5
    <3> QED
      BY <2>1, <2>2, <3>1
  <2>6. m = k + Len(end)
    BY <2>1 DEF e
  <2> QED
    BY <2>1, <2>3, <2>4, <2>5, <2>6
<1> HIDE DEF new, k
<1>5. /\ Len(all) = m + n
      /\ \A i \in 1 .. m + n : all[i] = IF i <= m THEN new[i] ELSE rest[i - m]
  <2>1. new \in Seq(V) /\ rest \in Seq(V)
    BY <1>3, <1>4
  <2> HIDE DEF rest
  <2>2. /\ Len(new \o rest) = Len(new) + Len(rest)
        /\ \A i \in 1 .. Len(new) + Len(rest) :
             (new \o rest)[i] = IF i <= Len(new) THEN new[i] ELSE rest[i - Len(new)]
    BY <2>1, ConcatProperties
  <2> QED
    BY <2>2
<1>a. k \in Nat /\ m \in Nat /\ n \in Nat
  BY <1>2, <1>3, <1>4 DEF k
<1> HIDE DEF all, rest, n, m
<1>6. /\ scopes \in [1 .. n + 2 -> 1 .. Len(ts)] /\ scopes[n + 2] = GlobalTable
      /\ \A i \in 1 .. n + 1 :
           scopes[i + 1] = IF visits[i].op = "leave" THEN ts[scopes[i]].parent ELSE scopes[i]
  <2>1. (n + 1) + 1 = n + 2
    BY <1>3
  <2> QED
    BY <1>3, <2>1 DEF Scoped
<1>7. /\ onward \in [1 .. m + n + 1 -> 1 .. Len(ts)]
      /\ \A i \in 1 .. m : onward[i] = u
      /\ \A i \in 1 .. n + 1 : onward[m + i] = scopes[i + 1]
  <2>1. \A i \in 1 .. m : i \in 1 .. m + n + 1 /\ i <= m
    BY <1>a
  <2>2. \A i \in 1 .. n + 1 : m + i \in 1 .. m + n + 1 /\ ~(m + i <= m) /\ (m + i) - m = i
    BY <1>a
  <2>3. \A i \in 1 .. m + n + 1 : ~(i <= m) => (i - m) + 1 \in 1 .. n + 2
    BY <1>a
  <2> QED
    BY <1>6, <2>1, <2>2, <2>3
<1> HIDE DEF onward
<1>8. \A v \in Stays : v.op # "leave"
  BY DEF Stays
<1>9. onward[1] = u
  <2>1. CASE m = 0
    <3>1. onward[0 + 1] = scopes[1 + 1] /\ 1 \in 1 .. n + 1
      BY <1>3, <1>7, <2>1
    <3>2. u = scopes[2]
      BY <1>1, <1>2, <1>4, <2>1 DEF k
    <3> QED
      BY <3>1, <3>2
  <2>2. CASE m # 0
    BY <1>4, <1>7, <2>2
  <2> QED
    BY <2>1, <2>2
<1>10. onward[Len(all) + 1] = GlobalTable
  <2>1. n + 1 \in 1 .. n + 1 /\ m + (n + 1) = (m + n) + 1 /\ (n + 1) + 1 = n + 2
    BY <1>3, <1>4
  <2> QED
    BY <1>5, <1>6, <1>7, <2>1
<1>11. ASSUME NEW i \in 1 .. Len(all)
       PROVE  onward[i + 1] = IF all[i].op = "leave" THEN ts[onward[i]].parent ELSE onward[i]
  <2>1. i \in 1 .. m + n
    BY <1>5
  <2>2. CASE i < m
    <3>1. i \in 1 .. m /\ i + 1 \in 1 .. m /\ i \in 1 .. k /\ i <= m
      BY <1>2, <1>4, <2>1, <2>2 DEF k
    <3>2. all[i] = w[i] /\ all[i].op # "leave"
      BY <1>2, <1>4, <1>5, <1>8, <2>1, <3>1 DEF k
    <3> QED
      BY <1>7, <3>1, <3>2
  <2>3. CASE i = m
    <3>1. i \in 1 .. m /\ i <= m /\ 1 \in 1 .. n + 1
      BY <1>3, <1>4, <2>1, <2>3
    <3>2. onward[i] = u /\ onward[m + 1] = scopes[1 + 1] /\ all[i] = new[m]
      BY <1>5, <1>7, <2>1, <2>3, <3>1
    <3>3. CASE m = k
      <4>1. all[i] = w[i] /\ all[i].op # "leave" /\ Len(end) = 0
        BY <1>1, <1>2, <1>4, <1>8, <2>3, <3>1, <3>2, <3>3 DEF k
      <4> QED
        BY <1>1, <2>3, <3>2, <4>1
    <3>4. CASE m # k
      <4>1. all[i] = Leave /\ Len(end) = 1
        BY <1>1, <1>2, <1>4, <3>2, <3>4 DEF k
      <4>2. all[i].op = "leave"
        BY <4>1 DEF Leave, Visit
      <4> QED
        BY <1>1, <2>3, <3>2, <4>1, <4>2
    <3> QED
      BY <3>3, <3>4
  <2>4. CASE i > m
    <3> DEFINE j == i - m
    <3>1. /\ j \in 1 .. n /\ j \in 1 .. n + 1 /\ j + 1 \in 1 .. n + 1 /\ m + j = i
          /\ m + (j + 1) = i + 1 /\ ~(i <= m)
      BY <1>a, <2>1, <2>4
    <3>2. all[i] = visits[j + 1]
      BY <1>3, <1>5, <2>1, <3>1
    <3> HIDE DEF j
    <3>3. onward[i] = scopes[j + 1] /\ onward[i + 1] = scopes[(j + 1) + 1]
      BY <1>7, <3>1
    <3> QED
      BY <1>6, <3>1, <3>2, <3>3
  <2> QED
    BY <1>4, <2>1, <2>2, <2>3, <2>4
<1>12. Scoped(ts, onward, u, all)
  <2>1. (m + n) + 1 = m + n + 1
    BY <1>3, <1>4
  <2> QED
    BY <1>5, <1>7, <1>9, <1>10, <1>11, <2>1 DEF Scoped
<1> DEFINE Others == \A i \in 1 .. Len(visits) - 1 : SoundAt(ts, scopes[i + 1], visits[i + 1])
<1>13. Len(visits) - 1 = n
  BY <1>3
<1> HIDE DEF SoundAt
<1>14. ASSUME AllSound(ts, onward, all) PROVE w \in Seq(Sounds(ts, u)) /\ Others
  <2>1. \A i \in 1 .. m + n : SoundAt(ts, onward[i], all[i])
    BY <1>5, <1>14 DEF AllSound
  <2>2. ASSUME NEW i \in 1 .. k PROVE w[i] \in Sounds(ts, u)
    <3>1. i \in 1 .. m /\ i \in 1 .. m + n /\ i <= m
      BY <1>1, <1>2, <1>3, <1>4 DEF k
    <3>2. all[i] = w[i] /\ onward[i] = u
      BY <1>4, <1>5, <1>7, <3>1
    <3> QED
      BY <1>2, <2>1, <3>1, <3>2 DEF Sounds, k
  <2>3. w \in Seq(Sounds(ts, u))
    <3> DEFINE S == Sounds(ts, u)
    <3> HIDE DEF S
    <3>1. \A i \in 1 .. Len(w) : w[i] \in S
      BY <2>2 DEF S, k
    <3>2. w = [i \in 1 .. Len(w) |-> w[i]] /\ Len(w) \in Nat
      BY <1>2
    <3>3. w \in Seq(S)
      BY <3>1, <3>2, SeqDef
    <3> QED
      BY <3>3 DEF S
  <2>4. ASSUME NEW i \in 1 .. n PROVE SoundAt(ts, scopes[i + 1], visits[i + 1])
    <3>1. m + i \in 1 .. m + n /\ i \in 1 .. n + 1 /\ ~(m + i <= m) /\ (m + i) - m = i
      BY <1>a
    <3>2. all[m + i] = visits[i + 1] /\ onward[m + i] = scopes[i + 1]
      BY <1>3, <1>5, <1>7, <3>1
    <3> QED
      BY <2>1, <3>1, <3>2
  <2> QED
    BY <1>13, <2>3, <2>4
<1>15. ASSUME w \in Seq(Sounds(ts, u)), Others PROVE AllSound(ts, onward, all)
  <2>1. \A i \in 1 .. k : SoundAt(ts, u, w[i])
    <3> DEFINE S == Sounds(ts, u)
    <3>1. \A v \in S : SoundAt(ts, u, v)
      BY DEF Sounds
    <3> HIDE DEF S
    <3>2. \A i \in 1 .. k : w[i] \in S
      BY <1>15 DEF S, k
    <3> QED
      BY <3>1, <3>2
  <2>2. SoundAt(ts, u, Leave)
    BY DEF SoundAt, Leave, Visit
  <2>3. ASSUME NEW i \in 1 .. Len(all) PROVE SoundAt(ts, onward[i], all[i])
    <3>1. i \in 1 .. m + n
      BY <1>5
    <3>2. CASE i \in 1 .. k
      <4>1. i \in 1 .. m /\ i <= m
        BY <1>1, <1>2, <1>4, <3>2 DEF k
      <4> QED
        BY <1>4, <1>5, <1>7, <2>1, <3>1, <3>2, <4>1
    <3>3. CASE i \in 1 .. m /\ i \notin 1 .. k
      <4>1. i = m /\ m # k /\ i <= m
        BY <1>1, <1>2, <1>4, <3>3 DEF k
      <4> QED
        BY <1>4, <1>5, <1>7, <2>2, <3>1, <3>3, <4>1
    <3>4. CASE i \notin 1 .. m
      <4> DEFINE j == i - m
      <4>1. j \in 1 .. n /\ j \in 1 .. n + 1 /\ m + j = i /\ ~(i <= m)
        BY <1>a, <3>1, <3>4
      <4>2. all[i] = visits[j + 1]
        BY <1>3, <1>5, <3>1, <4>1
      <4> HIDE DEF j
      <4>3. onward[i] = scopes[j + 1]
        BY <1>7, <4>1
      <4> QED
        BY <1>13, <1>15, <4>1, <4>2, <4>3
    <3> QED
      BY <3>2, <3>3, <3>4
  <2> QED
    BY <2>3 DEF AllSound
<1> QED
  BY <1>12, <1>14, <1>15 DEF all, new, rest

-----------------------------------------------------------------------------
LEMMA StepsOn ==
  ASSUME NEW ts, Len(ts) \in Nat, NEW t, NEW visits \in Seq(WalkVisits), visits # <<>>,
         NEW scopes, Scoped(ts, scopes, t, visits),
         NEW w \in Seq(Stays), NEW u \in 1 .. Len(ts), NEW end, Ending(ts, u, scopes[2], end),
         NEW onto, onto = (w \o end) \o Tail(visits)
  PROVE  \E onward :
           /\ Scoped(ts, onward, u, onto)
           /\ w \in Seq(Sounds(ts, u)) /\ AllSound(ts, scopes, visits) => AllSound(ts, onward, onto)
           /\ /\ w \in Seq(Sounds(ts, u)) => SoundAt(ts, t, Head(visits))
              /\ AllSound(ts, onward, onto)
              => AllSound(ts, scopes, visits)
<1> DEFINE Others == \A i \in 1 .. Len(visits) - 1 : SoundAt(ts, scopes[i + 1], visits[i + 1])
           Good == w \in Seq(Sounds(ts, u))
           n == Len(visits)
<1>1. PICK onward : /\ Scoped(ts, onward, u, onto)
                    /\ AllSound(ts, onward, onto) <=> Good /\ Others
  BY Onward
<1>2. AllSound(ts, scopes, visits) <=> SoundAt(ts, t, Head(visits)) /\ Others
  <2>1. n \in Nat /\ n # 0 /\ Head(visits) = visits[1]
    <3> HIDE DEF WalkVisits
    <3> QED
      OBVIOUS
  <2>2. scopes[1] = t
    BY DEF Scoped
  <2> HIDE DEF n, SoundAt
  <2>3. /\ 1 \in 1 .. n
        /\ \A i \in 1 .. n - 1 : i + 1 \in 1 .. n
        /\ \A i \in 1 .. n : i # 1 => i - 1 \in 1 .. n - 1 /\ (i - 1) + 1 = i
    BY <2>1
  <2>4. AllSound(ts, scopes, visits) => SoundAt(ts, t, Head(visits)) /\ Others
    BY <2>1, <2>2, <2>3 DEF AllSound, n
  <2>5. ASSUME SoundAt(ts, t, Head(visits)), Others PROVE AllSound(ts, scopes, visits)
    <3>1. ASSUME NEW i \in 1 .. n PROVE SoundAt(ts, scopes[i], visits[i])
      <4>1. CASE i = 1
        BY <2>1, <2>2, <2>5, <4>1
      <4>2. CASE i # 1
        <5> DEFINE j == i - 1
        <5>1. j \in 1 .. n - 1 /\ j + 1 = i
          BY <2>3, <4>2
        <5> HIDE DEF j
        <5>2. SoundAt(ts, scopes[j + 1], visits[j + 1])
          BY <2>5, <5>1 DEF n
        <5> QED
          BY <5>1, <5>2
      <4> QED
        BY <4>1, <4>2
    <3> QED
      BY <3>1 DEF AllSound, n
  <2> QED
    BY <2>4, <2>5
<1> HIDE DEF Others, Good
<1> QED
  BY <1>1, <1>2 DEF Good

LEMMA Halves ==
  ASSUME NEW W, NEW a \in Seq(W), NEW b \in Seq(W), NEW V
  PROVE  a \o b \in Seq(V) <=> a \in Seq(V) /\ b \in Seq(V)
<1>1. ASSUME a \o b \in Seq(V) PROVE a \in Seq(V) /\ b \in Seq(V)
  <2> DEFINE m == Len(a)
             n == Len(b)
             c == a \o b
  <2>1. /\ Len(c) = m + n /\ m \in Nat /\ n \in Nat
        /\ \A i \in 1 .. m + n : c[i] = IF i <= m THEN a[i] ELSE b[i - m]
    BY ConcatProperties
  <2>2. a = [i \in 1 .. m |-> a[i]] /\ b = [i \in 1 .. n |-> b[i]]
    OBVIOUS
  <2>3. \A i \in 1 .. Len(c) : c[i] \in V
    BY <1>1
  <2> HIDE DEF m, n, c
  <2>4. /\ \A i \in 1 .. m : i \in 1 .. m + n /\ i <= m
        /\ \A i \in 1 .. n : m + i \in 1 .. m + n /\ ~(m + i <= m) /\ (m + i) - m = i
    BY <2>1
  <2>5. (\A i \in 1 .. m : a[i] \in V) /\ (\A i \in 1 .. n : b[i] \in V)
    BY <2>1, <2>3, <2>4
  <2>6. a \in [1 .. m -> V]
    BY <2>2, <2>5
  <2>7. b \in [1 .. n -> V]
    BY <2>2, <2>5
  <2> QED
    BY <2>1, <2>6, <2>7, SeqDef
<1> QED
  BY <1>1, ConcatProperties

LEMMA VisitsIn ==
  ASSUME NEW op, NEW nodes, Len(nodes) \in Nat, NEW V
  PROVE  Visits(op, nodes) \in Seq(V) <=> \A i \in 1 .. Len(nodes) : Visit(op, nodes[i]) \in V
<1> DEFINE visits == Visits(op, nodes)
           n == Len(nodes)
<1>1. visits = [i \in 1 .. n |-> Visit(op, nodes[i])]
  BY DEF Visits
<1> HIDE DEF visits, Visit
<1>2. ASSUME \A i \in 1 .. n : Visit(op, nodes[i]) \in V PROVE visits \in Seq(V)
  BY <1>1, <1>2, SeqDef
<1>3. ASSUME visits \in Seq(V) PROVE \A i \in 1 .. n : Visit(op, nodes[i]) \in V
  <2>1. Len(visits) = n
    BY <1>1
  <2> QED
    BY <1>1, <1>3, <2>1
<1> QED
  BY <1>2, <1>3 DEF visits

(* The visits of statements, subroutines and what is to be written later.  *)
LEMMA BlockSound ==
  ASSUME NEW ts, NEW t, NEW block \in Seq(Statements)
  PROVE  /\ Visits("statement", block) \in Seq(Stays)
         /\ Visits("statement", block) \in Seq(Sounds(ts, t)) <=>
              \A i \in 1 .. Len(block) : block[i] \in SoundStatements(CallsFound(ts, t))
<1> DEFINE F == CallsFound(ts, t)
           n == Len(block)
<1>1. \A s \in Statements : Visit("statement", s) \in Stays
  BY DEF Stays, WalkVisits, Visit
<1>2. \A s \in Statements : SoundAt(ts, t, Visit("statement", s)) <=> s \in SoundStatements(F)
  BY DEF SoundAt, Visit
<1>3. n \in Nat /\ \A i \in 1 .. n : block[i] \in Statements
  OBVIOUS
<1> HIDE DEF F, n, Stays, Statements
<1>4. \A i \in 1 .. n : Visit("statement", block[i]) \in Sounds(ts, t) <=> block[i] \in SoundStatements(F)
  BY <1>1, <1>2, <1>3 DEF Sounds
<1> HIDE DEF Sounds, Visit
<1> QED
  BY <1>1, <1>3, <1>4, VisitsIn DEF F, n

LEMMA SubsSound ==
  ASSUME NEW ts, NEW t, NEW subs \in Seq(SubroutineDecNode)
  PROVE  /\ Visits("subroutine", subs) \in Seq(Stays)
         /\ Visits("subroutine", subs) \in Seq(Sounds(ts, t)) <=>
              \A i \in 1 .. Len(subs) : SoundSub(ts, t, subs[i])
<1> DEFINE n == Len(subs)
<1>1. \A s \in SubroutineDecNode : Visit("subroutine", s) \in Stays
  BY DEF Stays, WalkVisits, Visit
<1> HIDE DEF SoundSub, SubroutineDecNode
<1>2. \A s \in SubroutineDecNode : SoundAt(ts, t, Visit("subroutine", s)) <=> SoundSub(ts, t, s)
  BY DEF SoundAt, Visit
<1>3. n \in Nat /\ \A i \in 1 .. n : subs[i] \in SubroutineDecNode
  OBVIOUS
<1> HIDE DEF n, Stays
<1>4. \A i \in 1 .. n : Visit("subroutine", subs[i]) \in Sounds(ts, t) <=> SoundSub(ts, t, subs[i])
  BY <1>1, <1>2, <1>3 DEF Sounds
<1> HIDE DEF Sounds, Visit
<1> QED
  BY <1>1, <1>3, <1>4, VisitsIn DEF n

LEMMA ClassesSound ==
  ASSUME NEW ts, NEW t, NEW classes \in Seq(ClassNode)
  PROVE  Visits("class", classes) \in Seq(Stays)
<1> DEFINE n == Len(classes)
<1>1. \A s \in ClassNode : Visit("class", s) \in Stays
  BY DEF Stays, WalkVisits, Visit
<1>2. n \in Nat /\ \A i \in 1 .. n : classes[i] \in ClassNode
  <2> HIDE DEF ClassNode
  <2> QED
    OBVIOUS
<1> HIDE DEF n, Stays, ClassNode, Visit
<1> QED
  BY <1>1, <1>2, VisitsIn DEF n

LEMMA LaterSound ==
  ASSUME NEW ts, NEW t, NEW w \in Writings(Marks), Reaches(w, 0, 0)
  PROVE  <<Later(w)>> \in Seq(Stays) /\ <<Later(w)>> \in Seq(Sounds(ts, t))
<1>1. Later(w) \in Stays
  BY DEF Stays, WalkVisits, Later, Visit
<1>2. SoundAt(ts, t, Later(w))
  BY DEF SoundAt, Later, Visit
<1>3. Later(w) \in Sounds(ts, t)
  BY <1>1, <1>2 DEF Sounds
<1> HIDE DEF Stays, Sounds, Later
<1> QED
  BY <1>1, <1>3

(* A visit of a name leaves nothing to be found sound.                     *)
LEMMA NamesSound ==
  ASSUME NEW ts, NEW t, NEW depth, NEW names, Checked(depth, names) \in Seq(WalkVisits)
  PROVE  Checked(depth, names) \in Seq(Stays)
<1> DEFINE visits == Checked(depth, names)
<1>1. \A i \in 1 .. Len(visits) : visits[i] \in WalkVisits /\ visits[i].op # "leave"
  <2>1. Len(visits) = Len(names) \/ TRUE
    OBVIOUS
  <2> QED
    BY DEF Checked, Visit
<1> QED
  BY <1>1 DEF Stays

LEMMA NamesStay ==
  ASSUME NEW sub \in SubroutineDecNode
  PROVE  SubroutineNames(sub) \in Seq(Stays)
<1> DEFINE params == [i \in 1 .. Len(sub.params.types) |-> NameAt(sub.params.names, i)]
           locals == [i \in 1 .. Len(sub.varDecs) |-> NameAt(sub.varDecs[i].names, i)]
<1>1. params \in Seq(Names \union {Null}) /\ locals \in Seq(Names \union {Null})
  BY NamesToCheck
<1>2. SubroutineNames(sub) = Checked("GLOBAL", params) \o Checked("LOCAL", locals)
  BY DEF SubroutineNames
<1> HIDE DEF params, locals
<1>3. Checked("GLOBAL", params) \in Seq(Stays) /\ Checked("LOCAL", locals) \in Seq(Stays)
  BY <1>1, CheckedVisits, NamesSound
<1> HIDE DEF Stays, Checked
<1> QED
  BY <1>2, <1>3, ConcatProperties

-----------------------------------------------------------------------------
(* The analysis has left to find sound what has not been found so, until   *)
(* an error is counted; the generation goes by what has been found.        *)
AnalysisLeads ==
  \E scopes : /\ Scoped(tables, scopes, currentTable, todo)
              /\ AllSound(tables, scopes, todo) => SoundProgram(tables, program)

GenerationLeads ==
  \E scopes : Scoped(tables, scopes, currentTable, todo) /\ AllSound(tables, scopes, todo)

BalanceInv ==
  /\ outcome = "running" \/ phase = "DESTROY" => Leads(code, 0, 0)
  /\ phase \in {"BUILD", "ANALYZE"} => errors \in Nat
  /\ phase = "ANALYZE" /\ outcome = "running" /\ errors = 0 => AnalysisLeads
  /\ phase = "GENERATE" /\ outcome = "running" => GenerationLeads

(* How a visit moves: on in its scope or into one inside it, or back.      *)
Moved(u, end) ==
  currentTable \in 1 .. Len(tables) =>
    \/ Head(todo).op # "leave" /\ u \in 1 .. Len(tables) /\ Ending(tables, u, currentTable, end)
    \/ Head(todo).op = "leave" /\ u = tables[currentTable].parent /\ end = <<>>

LEMMA Advance ==
  ASSUME Inv, todo \in Seq(WalkVisits), todo # <<>>,
         NEW scopes, Scoped(tables, scopes, currentTable, todo),
         NEW w \in Seq(Stays), NEW u, NEW end, Moved(u, end), NEW onto, onto = (w \o end) \o Tail(todo)
  PROVE  \E onward :
           /\ Scoped(tables, onward, u, onto)
           /\ /\ w \in Seq(Sounds(tables, u)) /\ AllSound(tables, scopes, todo)
              => AllSound(tables, onward, onto)
           /\ /\ w \in Seq(Sounds(tables, u)) => SoundAt(tables, currentTable, Head(todo))
              /\ AllSound(tables, onward, onto)
              => AllSound(tables, scopes, todo)
<1>1. tables \in Seq(Table)
  BY DEF Inv, TablesTypeOK
<1>2. Len(tables) \in Nat
  BY <1>1
<1> DEFINE n == Len(todo)
<1>3. n \in Nat /\ n # 0 /\ Head(todo) = todo[1]
  <2> HIDE DEF WalkVisits
  <2> QED
    OBVIOUS
<1>4. /\ scopes \in [1 .. n + 1 -> 1 .. Len(tables)] /\ scopes[1] = currentTable
      /\ \A i \in 1 .. n :
           scopes[i + 1] = IF todo[i].op = "leave" THEN tables[scopes[i]].parent ELSE scopes[i]
  BY DEF Scoped
<1> HIDE DEF n
<1>5. 1 \in 1 .. n /\ 1 \in 1 .. n + 1 /\ 2 \in 1 .. n + 1 /\ 1 + 1 = 2
  BY <1>3
<1>6. /\ currentTable \in 1 .. Len(tables) /\ scopes[2] \in 1 .. Len(tables)
      /\ scopes[2] = IF Head(todo).op = "leave" THEN tables[currentTable].parent ELSE currentTable
  <2>1. scopes[1 + 1] = IF todo[1].op = "leave" THEN tables[scopes[1]].parent ELSE scopes[1]
    BY <1>4, <1>5
  <2> QED
    BY <1>3, <1>4, <1>5, <2>1
<1>7. u \in 1 .. Len(tables) /\ Ending(tables, u, scopes[2], end)
  BY <1>6 DEF Moved, Ending
<1> QED
  BY <1>2, <1>7, StepsOn

LEMMA AnalysisStep ==
  ASSUME Inv, FreeInv, BalanceInv, phase = "ANALYZE", outcome = "running", todo # <<>>,
         NEW r, r.errors \in Nat, NEW visits, Go(r, visits),
         tables' = tables, program' = program, phase' = phase, code' = code,
         Passed(r) => \E w \in Seq(Stays) : \E end :
                        /\ visits = w \o end
                        /\ Moved(currentTable', end)
                        /\ currentTable \in 1 .. Len(tables)
                           /\ w \in Seq(Sounds(tables, currentTable'))
                           => SoundAt(tables, currentTable, Head(todo))
  PROVE  BalanceInv'
<1>1. /\ errors \in Nat /\ errors' = errors + r.errors /\ outcome' = r.fate
      /\ todo' = visits \o Tail(todo) /\ Leads(code, 0, 0)
  BY DEF BalanceInv, Go
<1>2. errors' \in Nat
  BY <1>1
<1>3. ASSUME outcome' = "running", errors' = 0 PROVE AnalysisLeads'
  <2>1. errors = 0 /\ Passed(r)
    BY <1>1, <1>3 DEF Passed
  <2>2. PICK w, end :
               /\ w \in Seq(Stays)
               /\ visits = w \o end
               /\ Moved(currentTable', end)
               /\ currentTable \in 1 .. Len(tables)
                  /\ w \in Seq(Sounds(tables, currentTable'))
                  => SoundAt(tables, currentTable, Head(todo))
    BY <2>1
  <2>3. PICK scopes : /\ Scoped(tables, scopes, currentTable, todo)
                      /\ AllSound(tables, scopes, todo) => SoundProgram(tables, program)
    BY <2>1 DEF BalanceInv, AnalysisLeads
  <2>4. todo \in Seq(WalkVisits)
    BY DEF FreeInv, WalkInv
  <2>5. currentTable \in 1 .. Len(tables)
    <3>1. Len(todo) \in Nat
      BY <2>4
    <3>2. 1 \in 1 .. Len(todo) + 1
      BY <3>1
    <3> QED
      BY <2>3, <3>2 DEF Scoped
  <2>6. todo' = (w \o end) \o Tail(todo)
    BY <1>1, <2>2
  <2>7. PICK onward : /\ Scoped(tables, onward, currentTable', todo')
                      /\ AllSound(tables, onward, todo') => AllSound(tables, scopes, todo)
    BY <2>2, <2>3, <2>4, <2>5, <2>6, Advance
  <2> HIDE DEF Scoped, AllSound, SoundProgram
  <2> QED
    BY <2>3, <2>7 DEF AnalysisLeads
<1> QED
  BY <1>1, <1>2, <1>3 DEF BalanceInv

LEMMA GenerationStep ==
  ASSUME Inv, FreeInv, BalanceInv, phase = "GENERATE", outcome = "running", todo # <<>>,
         NEW r, NEW visits, Go(r, visits), tables' = tables, phase' = phase,
         r.fate = "running" => Leads(code', 0, 0),
         r.fate = "running" =>
           \E w \in Seq(Stays) : \E end :
              /\ visits = w \o end
              /\ Moved(currentTable', end)
              /\ SoundAt(tables, currentTable, Head(todo)) => w \in Seq(Sounds(tables, currentTable'))
  PROVE  BalanceInv'
<1>1. outcome' = r.fate /\ todo' = visits \o Tail(todo)
  BY DEF Go
<1>2. ASSUME outcome' = "running" PROVE GenerationLeads'
  <2>1. PICK w, end :
              /\ w \in Seq(Stays)
              /\ visits = w \o end
              /\ Moved(currentTable', end)
              /\ SoundAt(tables, currentTable, Head(todo)) => w \in Seq(Sounds(tables, currentTable'))
    BY <1>1, <1>2
  <2>2. PICK scopes : Scoped(tables, scopes, currentTable, todo) /\ AllSound(tables, scopes, todo)
    BY DEF BalanceInv, GenerationLeads
  <2>3. todo \in Seq(WalkVisits)
    BY DEF FreeInv, WalkInv
  <2>4. SoundAt(tables, currentTable, Head(todo))
    <3>1. Len(todo) \in Nat /\ Len(todo) # 0 /\ Head(todo) = todo[1]
      <4> HIDE DEF WalkVisits
      <4> QED
        BY <2>3
    <3>2. 1 \in 1 .. Len(todo) /\ scopes[1] = currentTable
      BY <2>2, <3>1 DEF Scoped
    <3> HIDE DEF SoundAt
    <3> QED
      BY <2>2, <3>1, <3>2 DEF AllSound
  <2>5. todo' = (w \o end) \o Tail(todo)
    BY <1>1, <2>1
  <2>6. PICK onward : /\ Scoped(tables, onward, currentTable', todo')
                      /\ AllSound(tables, onward, todo')
    BY <2>1, <2>2, <2>3, <2>4, <2>5, Advance
  <2> HIDE DEF Scoped, AllSound
  <2> QED
    BY <2>6 DEF GenerationLeads
<1> QED
  BY <1>1, <1>2 DEF BalanceInv

-----------------------------------------------------------------------------
LEMMA NothingSound == <<>> \in Seq(Stays) /\ \A V : <<>> \in Seq(V) /\ <<>> \o <<>> = <<>>
OBVIOUS

(* What there is of a class or subroutine that is found, is inside.        *)
LEMMA Entered ==
  ASSUME Inv, todo # <<>>, Head(todo).op # "leave", NEW name, NEW kinds \in SUBSET OwningKinds,
         OfKind(Lookup(name, "LOCAL"), kinds)
  PROVE  Moved(Lookup(name, "LOCAL").childTable, <<Leave>>)
<1> SUFFICES ASSUME currentTable \in 1 .. Len(tables)
             PROVE  Moved(Lookup(name, "LOCAL").childTable, <<Leave>>)
  BY DEF Moved
<1> DEFINE child == Lookup(name, "LOCAL").childTable
<1>1. child \in 1 .. Len(tables) /\ tables[child].parent = currentTable
  BY ScopeFound DEF Lookup
<1> HIDE DEF child, Leave
<1>2. Moved(child, <<Leave>>)
  BY <1>1 DEF Moved, Ending
<1> QED
  BY <1>2 DEF child

LEMMA Stayed ==
  ASSUME todo # <<>>, Head(todo).op # "leave"
  PROVE  Moved(currentTable, <<>>)
BY DEF Moved, Ending

LEMMA ScopesKept ==
  ASSUME Inv, FreeInv, BalanceInv, LeaveScope PROVE BalanceInv'
<1>1. /\ outcome = "running" /\ todo # <<>> /\ Head(todo).op = "leave"
      /\ tables' = tables /\ phase' = phase /\ code' = code /\ program' = program
  BY DEF LeaveScope, tree
<1>2. PICK r \in {Dead("exited"), Typed(Unset)} :
        /\ Go(r, <<>>)
        /\ Passed(r) \/ r.fate = "running" => currentTable' = pop_table
  BY DEF LeaveScope, Proceed, Dead, Passed
<1>3. r.errors = 0
  BY <1>2 DEF Dead, Typed
<1>4. r.fate = "running" => Moved(currentTable', <<>>)
  BY <1>1, <1>2 DEF Moved, pop_table
<1>5. SoundAt(tables, currentTable, Head(todo))
  BY <1>1 DEF SoundAt
<1>6. Leads(code', 0, 0)
  BY <1>1 DEF BalanceInv
<1>7. <<>> \in Seq(Stays) /\ <<>> \in Seq(Sounds(tables, currentTable')) /\ <<>> = <<>> \o <<>>
  BY NothingSound
<1> HIDE DEF Moved, SoundAt, Leads, Stays, Sounds
<1>8. CASE phase = "ANALYZE"
  <2>1. Passed(r) => \E w \in Seq(Stays) : \E end :
                       /\ <<>> = w \o end
                       /\ Moved(currentTable', end)
                       /\ currentTable \in 1 .. Len(tables)
                          /\ w \in Seq(Sounds(tables, currentTable'))
                          => SoundAt(tables, currentTable, Head(todo))
    BY <1>4, <1>5, <1>7 DEF Passed
  <2>2. r.errors \in Nat
    BY <1>3
  <2> QED
    BY <1>1, <1>2, <1>8, <2>1, <2>2, AnalysisStep
<1>9. CASE phase = "GENERATE"
  <2>1. r.fate = "running" =>
          \E w \in Seq(Stays) : \E end :
             /\ <<>> = w \o end
             /\ Moved(currentTable', end)
             /\ SoundAt(tables, currentTable, Head(todo)) => w \in Seq(Sounds(tables, currentTable'))
    BY <1>4, <1>7
  <2> QED
    BY <1>1, <1>2, <1>6, <1>9, <2>1, GenerationStep
<1>10. CASE phase \notin {"ANALYZE", "GENERATE"}
  <2>1. phase = "BUILD" => errors' \in Nat
    BY <1>2, <1>3 DEF BalanceInv, Go
  <2> QED
    BY <1>1, <1>6, <1>10, <2>1 DEF BalanceInv
<1> QED
  BY <1>8, <1>9, <1>10

-----------------------------------------------------------------------------
(* A visit of the analysis that stays where it is.                         *)
LEMMA AnalysisStays ==
  ASSUME Inv, FreeInv, BalanceInv, phase = "ANALYZE", outcome = "running", todo # <<>>,
         Head(todo).op # "leave", Stay,
         NEW r, r.errors \in Nat, NEW visits \in Seq(Stays), Go(r, visits),
         Passed(r) /\ visits \in Seq(Sounds(tables, currentTable))
           => SoundAt(tables, currentTable, Head(todo))
  PROVE  BalanceInv'
<1>1. /\ tables' = tables /\ program' = program /\ phase' = phase /\ code' = code
      /\ currentTable' = currentTable
  BY DEF Stay, tree
<1>2. visits = visits \o <<>>
  BY ConcatEmptySeq
<1>3. Moved(currentTable', <<>>)
  BY <1>1, Stayed
<1> HIDE DEF Moved, SoundAt, Stays, Sounds
<1>4. Passed(r) => \E w \in Seq(Stays) : \E end :
                     /\ visits = w \o end
                     /\ Moved(currentTable', end)
                     /\ currentTable \in 1 .. Len(tables)
                        /\ w \in Seq(Sounds(tables, currentTable'))
                        => SoundAt(tables, currentTable, Head(todo))
  BY <1>1, <1>2, <1>3
<1> QED
  BY <1>1, <1>4, AnalysisStep

LEMMA AnalysisEnters ==
  ASSUME Inv, FreeInv, BalanceInv, phase = "ANALYZE", outcome = "running", todo # <<>>,
         Head(todo).op # "leave",
         tables' = tables, program' = program, phase' = phase, code' = code,
         NEW kinds \in SUBSET OwningKinds, NEW name, NEW w \in Seq(Stays),
         IF OfKind(Lookup(name, "LOCAL"), kinds)
           THEN currentTable' = Lookup(name, "LOCAL").childTable /\ Proceed(w \o <<Leave>>)
           ELSE Go(Error(Typed(Unset)), <<>>),
         OfKind(Lookup(name, "LOCAL"), kinds)
           /\ w \in Seq(Sounds(tables, Lookup(name, "LOCAL").childTable))
           => SoundAt(tables, currentTable, Head(todo))
  PROVE  BalanceInv'
<1>1. CASE OfKind(Lookup(name, "LOCAL"), kinds)
  <2>1. Moved(currentTable', <<Leave>>)
    BY <1>1, Entered
  <2>2. Go(Typed(Unset), w \o <<Leave>>) /\ Typed(Unset).errors \in Nat
    BY <1>1 DEF Proceed, Typed
  <2>3. w \in Seq(Sounds(tables, currentTable')) => SoundAt(tables, currentTable, Head(todo))
    BY <1>1
  <2> HIDE DEF Moved, SoundAt, Stays, Sounds, Leave
  <2>4. Passed(Typed(Unset)) =>
          \E v \in Seq(Stays) : \E end :
             /\ w \o <<Leave>> = v \o end
             /\ Moved(currentTable', end)
             /\ currentTable \in 1 .. Len(tables) /\ v \in Seq(Sounds(tables, currentTable'))
                => SoundAt(tables, currentTable, Head(todo))
    BY <2>1, <2>3
  <2> QED
    BY <2>2, <2>4, AnalysisStep
<1>2. CASE ~OfKind(Lookup(name, "LOCAL"), kinds)
  <2> DEFINE r == Error(Typed(Unset))
  <2>1. Go(r, <<>>)
    BY <1>2
  <2>2. r.errors \in Nat /\ ~Passed(r)
    BY DEF Error, Typed, Passed
  <2> HIDE DEF r
  <2> QED
    BY <2>1, <2>2, AnalysisStep
<1> QED
  BY <1>1, <1>2

LEMMA Counted == \A T : \A r \in Results(T) : r.errors \in Nat
BY DEF Results

LEMMA AnalysisKeepsBalance ==
  ASSUME Inv, FreeInv, BalanceInv,
         \/ analyze_class_node \/ analyze_declaration \/ analyze_subroutine_dec_node
         \/ analyze_let_statement_node \/ analyze_if_statement_node
         \/ analyze_while_statement_node \/ analyze_do_statement_node
         \/ analyze_return_statement_node
  PROVE  BalanceInv'
<1> DEFINE F == CallsFound(tables, currentTable)
           S == SoundStatements(F)
<1>1. phase = "ANALYZE" /\ outcome = "running" /\ todo # <<>> /\ Head(todo).op # "leave"
      /\ todo \in Seq(WalkVisits)
  <2>1. phase = "ANALYZE" /\ outcome = "running" /\ todo # <<>>
        /\ Head(todo).op \in {"class", "declared", "subroutine", "statement"}
    BY DEF analyze_class_node, EnterClass, analyze_declaration, analyze_subroutine_dec_node,
         analyze_let_statement_node, analyze_if_statement_node, analyze_while_statement_node,
         analyze_do_statement_node, analyze_return_statement_node, Statement, Doing
  <2> QED
    BY <2>1 DEF FreeInv, WalkInv
<1> HIDE DEF SoundStatements, F
<1>2. Head(todo).op = "statement" =>
        node \in Statements /\ (node \in S => SoundAt(tables, currentTable, Head(todo)))
  BY <1>1, NodeTyped DEF SoundAt, node, F
<1>3. Head(todo).op = "declared" => SoundAt(tables, currentTable, Head(todo))
  BY DEF SoundAt
<1>4. <<>> \in Seq(Stays)
  BY NothingSound
<1>5. CASE analyze_let_statement_node
  <2>1. node \in Statements /\ node.is = "let" /\ Go(analyze_let(node), <<>>) /\ Stay
        /\ (node \in S => SoundAt(tables, currentTable, Head(todo)))
    BY <1>2, <1>5 DEF analyze_let_statement_node, Statement, Doing
  <2>2. analyze_let(node).errors \in Nat /\ (Passed(analyze_let(node)) => node \in S)
    BY <2>1, StatementOutcomes, Counted, StatementPassed DEF F
  <2> QED
    BY <1>1, <1>4, <2>1, <2>2, AnalysisStays
<1>6. CASE analyze_do_statement_node
  <2>1. node \in Statements /\ node.is = "do" /\ Go(analyze_call(node.call), <<>>) /\ Stay
        /\ (node \in S => SoundAt(tables, currentTable, Head(todo)))
    BY <1>2, <1>6 DEF analyze_do_statement_node, Statement, Doing
  <2>2. analyze_call(node.call).errors \in Nat /\ (Passed(analyze_call(node.call)) => node \in S)
    BY <2>1, StatementOutcomes, Counted, StatementPassed DEF F
  <2> QED
    BY <1>1, <1>4, <2>1, <2>2, AnalysisStays
<1>7. CASE analyze_return_statement_node
  <2>1. node \in Statements /\ node.is = "return" /\ Go(analyze_return(node.value), <<>>) /\ Stay
        /\ (node \in S => SoundAt(tables, currentTable, Head(todo)))
    BY <1>2, <1>7 DEF analyze_return_statement_node, Statement, Doing
  <2>2. analyze_return(node.value).errors \in Nat
        /\ (Passed(analyze_return(node.value)) => node \in S)
    BY <2>1, StatementOutcomes, Counted, StatementPassed DEF F
  <2> QED
    BY <1>1, <1>4, <2>1, <2>2, AnalysisStays
<1>8. CASE analyze_if_statement_node
  <2> DEFINE then == Visits("statement", node.then)
             else == Visits("statement", node.else)
             r == analyze_condition(node.condition)
  <2>1. node \in Statements /\ node.is = "if" /\ Go(r, then \o else) /\ Stay
        /\ (node \in S => SoundAt(tables, currentTable, Head(todo)))
    BY <1>2, <1>8 DEF analyze_if_statement_node, Statement, Doing
  <2>2. node.then \in Seq(Statements) /\ node.else \in Seq(Statements)
    BY <2>1, StatementParts, SimpleStatementKinds, CompoundStatementKinds
  <2>3. /\ then \in Seq(Stays) /\ else \in Seq(Stays)
        /\ then \in Seq(Sounds(tables, currentTable)) =>
             \A i \in 1 .. Len(node.then) : node.then[i] \in S
        /\ else \in Seq(Sounds(tables, currentTable)) =>
             \A i \in 1 .. Len(node.else) : node.else[i] \in S
    BY <2>2, BlockSound DEF F
  <2>4. r.errors \in Nat
    BY <2>1, StatementOutcomes, Counted
  <2> DEFINE V == Sounds(tables, currentTable)
             W == Stays
  <2> HIDE DEF then, else, r, V, W
  <2>5. then \o else \in Seq(W) /\ (then \o else \in Seq(V) => then \in Seq(V) /\ else \in Seq(V))
    <3>1. then \in Seq(W) /\ else \in Seq(W)
      BY <2>3 DEF W
    <3> QED
      BY <3>1, Halves, ConcatProperties
  <2>6. Passed(r) /\ then \o else \in Seq(V) => node \in S
    BY <2>1, <2>3, <2>5, StatementPassed DEF F, r, V
  <2> QED
    BY <1>1, <2>1, <2>4, <2>5, <2>6, AnalysisStays DEF V, W
<1>9. CASE analyze_while_statement_node
  <2> DEFINE body == Visits("statement", node.body)
             r == analyze_condition(node.condition)
  <2>1. node \in Statements /\ node.is = "while" /\ Go(r, body) /\ Stay
        /\ (node \in S => SoundAt(tables, currentTable, Head(todo)))
    BY <1>2, <1>9 DEF analyze_while_statement_node, Statement, Doing
  <2>2. node.body \in Seq(Statements)
    BY <2>1, StatementParts, SimpleStatementKinds, CompoundStatementKinds
  <2>3. /\ body \in Seq(Stays)
        /\ body \in Seq(Sounds(tables, currentTable)) =>
             \A i \in 1 .. Len(node.body) : node.body[i] \in S
    BY <2>2, BlockSound DEF F
  <2>4. r.errors \in Nat
    BY <2>1, StatementOutcomes, Counted
  <2>5. Passed(r) /\ body \in Seq(Sounds(tables, currentTable)) => node \in S
    BY <2>1, <2>3, StatementPassed DEF F
  <2> HIDE DEF body, r
  <2> QED
    BY <1>1, <2>1, <2>3, <2>4, <2>5, AnalysisStays
<1>10. CASE analyze_declaration
  <2> DEFINE r == Declared(node.name, node.depth)
  <2>1. Go(r, <<>>) /\ Stay /\ Head(todo).op = "declared"
    BY <1>10 DEF analyze_declaration, Doing
  <2>2. r.errors \in Nat
    BY DEF Declared, Dead, Typed, Error
  <2> HIDE DEF r
  <2> QED
    BY <1>1, <1>3, <1>4, <2>1, <2>2, AnalysisStays
<1>11. CASE analyze_class_node
  <2> DEFINE names == Checked("GLOBAL", ClassVariableNames(node))
             subs == Visits("subroutine", node.subs)
             symbol == Lookup(node.name, "LOCAL")
             kinds == {"CLASS"}
  <2>1. /\ tables' = tables /\ program' = program /\ phase' = phase /\ code' = code
        /\ IF OfKind(symbol, kinds)
           THEN currentTable' = symbol.childTable /\ Proceed((names \o subs) \o <<Leave>>)
           ELSE Go(Error(Typed(Unset)), <<>>)
        /\ Head(todo).op = "class"
    BY <1>11 DEF analyze_class_node, EnterClass, tree, Doing
  <2>2. node \in ClassNode
    BY <1>1, <2>1, NodeTyped
  <2>3. node.subs \in Seq(SubroutineDecNode)
    BY <2>2 DEF ClassNode
  <2>4. /\ subs \in Seq(Stays)
        /\ subs \in Seq(Sounds(tables, symbol.childTable)) =>
             \A i \in 1 .. Len(node.subs) : SoundSub(tables, symbol.childTable, node.subs[i])
    BY <2>3, SubsSound
  <2>5. names \in Seq(Stays)
    BY <2>2, VariableNames, CheckedVisits, NamesSound
  <2>6. OfKind(symbol, kinds) /\ subs \in Seq(Sounds(tables, symbol.childTable))
          => SoundAt(tables, currentTable, Head(todo))
    <3> SUFFICES ASSUME OfKind(symbol, kinds), subs \in Seq(Sounds(tables, symbol.childTable))
                 PROVE  SoundAt(tables, currentTable, Head(todo))
      OBVIOUS
    <3>1. \A i \in 1 .. Len(node.subs) : SoundSub(tables, symbol.childTable, node.subs[i])
      BY <2>4
    <3> HIDE DEF SoundSub
    <3>2. SoundClass(tables, currentTable, node)
      BY <3>1 DEF SoundClass, Lookup
    <3> QED
      BY <2>1, <3>2 DEF SoundAt, node
  <2>7. kinds \in SUBSET OwningKinds
    BY DEF OwningKinds
  <2> DEFINE V == Sounds(tables, symbol.childTable)
             W == Stays
  <2> HIDE DEF names, subs, kinds, V, W
  <2>8. names \o subs \in Seq(W) /\ (names \o subs \in Seq(V) => subs \in Seq(V))
    <3>1. names \in Seq(W) /\ subs \in Seq(W)
      BY <2>4, <2>5 DEF W
    <3> QED
      BY <3>1, Halves, ConcatProperties
  <2> QED
    BY <1>1, <2>1, <2>6, <2>7, <2>8, AnalysisEnters DEF V, W
<1>12. CASE analyze_subroutine_dec_node
  <2> DEFINE names == SubroutineNames(node)
             body == Visits("statement", node.body)
             symbol == Lookup(node.name, "LOCAL")
  <2>1. /\ tables' = tables /\ program' = program /\ phase' = phase /\ code' = code
        /\ IF OfKind(symbol, SubroutineKinds)
           THEN currentTable' = symbol.childTable /\ Proceed((names \o body) \o <<Leave>>)
           ELSE Go(Error(Typed(Unset)), <<>>)
        /\ Head(todo).op = "subroutine"
    BY <1>12 DEF analyze_subroutine_dec_node, tree, Doing
  <2>2. node \in SubroutineDecNode
    BY <1>1, <2>1, NodeTyped
  <2>3. node.body \in Seq(Statements)
    BY <2>2, SubroutineTyped
  <2>4. /\ body \in Seq(Stays)
        /\ body \in Seq(Sounds(tables, symbol.childTable)) =>
             \A i \in 1 .. Len(node.body) :
               node.body[i] \in SoundStatements(CallsFound(tables, symbol.childTable))
    BY <2>3, BlockSound
  <2>5. names \in Seq(Stays)
    BY <2>2, NamesStay
  <2>6. OfKind(symbol, SubroutineKinds) /\ body \in Seq(Sounds(tables, symbol.childTable))
          => SoundAt(tables, currentTable, Head(todo))
    <3> SUFFICES ASSUME OfKind(symbol, SubroutineKinds),
                        body \in Seq(Sounds(tables, symbol.childTable))
                 PROVE  SoundAt(tables, currentTable, Head(todo))
      OBVIOUS
    <3>1. SoundSub(tables, currentTable, node)
      BY <2>4 DEF SoundSub, Lookup
    <3> QED
      BY <2>1, <3>1 DEF SoundAt, node
  <2>7. SubroutineKinds \in SUBSET OwningKinds
    BY DEF OwningKinds
  <2> DEFINE V == Sounds(tables, symbol.childTable)
             W == Stays
  <2> HIDE DEF names, body, V, W
  <2>8. names \o body \in Seq(W) /\ (names \o body \in Seq(V) => body \in Seq(V))
    <3>1. names \in Seq(W) /\ body \in Seq(W)
      BY <2>4, <2>5 DEF W
    <3> QED
      BY <3>1, Halves, ConcatProperties
  <2> QED
    BY <1>1, <2>1, <2>6, <2>7, <2>8, AnalysisEnters DEF V, W
<1> QED
  BY <1>5, <1>6, <1>7, <1>8, <1>9, <1>10, <1>11, <1>12

-----------------------------------------------------------------------------
(* What is visited by the generation has been found sound.                 *)
LEMMA FoundSound ==
  ASSUME FreeInv, BalanceInv, phase = "GENERATE", outcome = "running", todo # <<>>
  PROVE  SoundAt(tables, currentTable, Head(todo)) /\ Leads(code, 0, 0)
<1>1. PICK scopes : Scoped(tables, scopes, currentTable, todo) /\ AllSound(tables, scopes, todo)
  BY DEF BalanceInv, GenerationLeads
<1>2. todo \in Seq(WalkVisits)
  BY DEF FreeInv, WalkInv
<1>3. Len(todo) \in Nat /\ Len(todo) # 0 /\ Head(todo) = todo[1]
  <2> HIDE DEF WalkVisits
  <2> QED
    BY <1>2
<1>4. 1 \in 1 .. Len(todo) /\ scopes[1] = currentTable
  BY <1>1, <1>3 DEF Scoped
<1>5. Leads(code, 0, 0)
  BY DEF BalanceInv
<1> HIDE DEF SoundAt
<1> QED
  BY <1>1, <1>3, <1>4, <1>5 DEF AllSound

LEMMA WritesOn ==
  ASSUME NEW w, NEW visits, Write(w, visits), Leads(code, 0, 0), Reaches(w, 0, 0)
  PROVE  Go(w, visits) /\ (w.fate = "running" => Leads(code', 0, 0))
<1>1. Go(w, visits) /\ code' = code \o w.code
  BY DEF Write
<1>2. ASSUME w.fate = "running" PROVE Leads(code', 0, 0)
  <2>1. Leads(w.code, 0, 0)
    BY <1>2 DEF Reaches
  <2>2. 0 \in Int
    OBVIOUS
  <2>3. Leads(code \o w.code, 0, 0)
    BY <2>1, <2>2, LeadsOn
  <2> QED
    BY <1>1, <2>3
<1> QED
  BY <1>1, <1>2

(* A visit of the generation that stays where it is.                       *)
LEMMA GenerationStays ==
  ASSUME Inv, FreeInv, BalanceInv, phase = "GENERATE", outcome = "running", todo # <<>>,
         Head(todo).op # "leave",
         tables' = tables, phase' = phase, currentTable' = currentTable,
         NEW r, NEW visits \in Seq(Stays), Write(r, visits), Reaches(r, 0, 0),
         visits \in Seq(Sounds(tables, currentTable))
  PROVE  BalanceInv'
<1>1. visits = visits \o <<>>
  BY ConcatEmptySeq
<1>2. Moved(currentTable', <<>>)
  BY Stayed
<1>3. Go(r, visits) /\ (r.fate = "running" => Leads(code', 0, 0))
  BY FoundSound, WritesOn
<1> HIDE DEF Moved, SoundAt, Stays, Sounds
<1>4. r.fate = "running" =>
        \E w \in Seq(Stays) : \E end :
           /\ visits = w \o end
           /\ Moved(currentTable', end)
           /\ SoundAt(tables, currentTable, Head(todo)) => w \in Seq(Sounds(tables, currentTable'))
  BY <1>1, <1>2
<1> QED
  BY <1>3, <1>4, GenerationStep

LEMMA GenerationEnters ==
  ASSUME Inv, FreeInv, BalanceInv, phase = "GENERATE", outcome = "running", todo # <<>>,
         Head(todo).op # "leave", tables' = tables, phase' = phase,
         NEW kinds \in SUBSET OwningKinds, NEW name, NEW w \in Seq(Stays), NEW r,
         r.fate = "running" => Leads(code', 0, 0),
         OfKind(Lookup(name, "LOCAL"), kinds) =>
           currentTable' = Lookup(name, "LOCAL").childTable /\ Go(r, w \o <<Leave>>),
         ~OfKind(Lookup(name, "LOCAL"), kinds) =>
           currentTable' = currentTable /\ Go(Error(Typed(Unset)), <<>>) /\ code' = code,
         OfKind(Lookup(name, "LOCAL"), kinds) =>
           w \in Seq(Sounds(tables, Lookup(name, "LOCAL").childTable))
  PROVE  BalanceInv'
<1>1. CASE OfKind(Lookup(name, "LOCAL"), kinds)
  <2>1. Moved(currentTable', <<Leave>>)
    BY <1>1, Entered
  <2>2. w \in Seq(Sounds(tables, currentTable'))
    BY <1>1
  <2> HIDE DEF Moved, SoundAt, Stays, Sounds, Leave
  <2>3. r.fate = "running" =>
          \E v \in Seq(Stays) : \E end :
             /\ w \o <<Leave>> = v \o end
             /\ Moved(currentTable', end)
             /\ SoundAt(tables, currentTable, Head(todo)) => v \in Seq(Sounds(tables, currentTable'))
    BY <2>1, <2>2
  <2> QED
    BY <1>1, <2>3, GenerationStep
<1>2. CASE ~OfKind(Lookup(name, "LOCAL"), kinds)
  <2>1. Moved(currentTable', <<>>)
    BY <1>2, Stayed
  <2>2. <<>> \in Seq(Stays) /\ <<>> \in Seq(Sounds(tables, currentTable')) /\ <<>> = <<>> \o <<>>
    BY NothingSound
  <2>3. Leads(code', 0, 0)
    BY <1>2, FoundSound
  <2> DEFINE e == Error(Typed(Unset))
  <2> HIDE DEF Moved, SoundAt, Stays, Sounds, e
  <2>4. e.fate = "running" =>
          \E v \in Seq(Stays) : \E end :
             /\ <<>> = v \o end
             /\ Moved(currentTable', end)
             /\ SoundAt(tables, currentTable, Head(todo)) => v \in Seq(Sounds(tables, currentTable'))
    BY <2>1, <2>2
  <2>5. Go(e, <<>>)
    BY <1>2 DEF e
  <2> QED
    BY <2>3, <2>4, <2>5, GenerationStep
<1> QED
  BY <1>1, <1>2

(* What is written after a block.                                          *)
LEMMA LaterReaches ==
  ASSUME labelCounters \in [LabelPrefixes -> Nat],
         NEW here \in LabelPrefixes, NEW there \in LabelPrefixes, NEW ts, NEW t
  PROVE  /\ <<Later(write_label(generate_unique_label(here)))>> \in Seq(Stays)
         /\ <<Later(write_label(generate_unique_label(here)))>> \in Seq(Sounds(ts, t))
         /\ <<Later(Followed(write_goto(generate_unique_label(there)),
                             write_label(generate_unique_label(here))))>> \in Seq(Stays)
         /\ <<Later(Followed(write_goto(generate_unique_label(there)),
                             write_label(generate_unique_label(here))))>> \in Seq(Sounds(ts, t))
<1> DEFINE a == generate_unique_label(here)
           b == generate_unique_label(there)
           mark == write_label(a)
           jump == Followed(write_goto(b), write_label(a))
<1>1. mark \in Writings(Marks) /\ jump \in Writings(Marks)
  BY MarksWritten
<1>2. Reaches(mark, 0, 0) /\ Reaches(jump, 0, 0)
  BY MarksReach
<1> HIDE DEF mark, jump
<1>3. /\ <<Later(mark)>> \in Seq(Stays) /\ <<Later(mark)>> \in Seq(Sounds(ts, t))
      /\ <<Later(jump)>> \in Seq(Stays) /\ <<Later(jump)>> \in Seq(Sounds(ts, t))
  BY <1>1, <1>2, LaterSound
<1> QED
  BY <1>3 DEF mark, jump

-----------------------------------------------------------------------------
LEMMA GenerationKeepsBalance ==
  ASSUME Inv, FreeInv, BalanceInv,
         \/ generate_class_node \/ generate_sub_dec_node \/ generate_stmt_node
         \/ generate_if_node \/ generate_while_node \/ write_later
  PROVE  BalanceInv'
<1> DEFINE F == CallsFound(tables, currentTable)
           S == SoundStatements(F)
<1>1. phase = "GENERATE" /\ outcome = "running" /\ todo # <<>> /\ Head(todo).op # "leave"
      /\ todo \in Seq(WalkVisits) /\ tables' = tables /\ phase' = phase
  <2>1. phase = "GENERATE" /\ outcome = "running" /\ todo # <<>>
        /\ Head(todo).op \in {"class", "write", "subroutine", "statement"}
        /\ tables' = tables /\ phase' = phase
    BY DEF generate_class_node, EnterClass, generate_sub_dec_node, generate_stmt_node,
         generate_if_node, generate_while_node, write_later, Statement, Doing, Unlabelled
  <2> QED
    BY <2>1 DEF FreeInv, WalkInv
<1>2. SoundAt(tables, currentTable, Head(todo)) /\ Leads(code, 0, 0)
  BY <1>1, FoundSound
<1>3. \A call \in F : call.caller # Null => Found(Callee(call))
  BY CallsFoundHere DEF CallsFound
<1> HIDE DEF SoundStatements, F
<1>4. Head(todo).op = "statement" => node \in Statements /\ node \in S
  BY <1>1, <1>2, NodeTyped DEF SoundAt, node, F
<1>5. <<>> \in Seq(Stays) /\ <<>> \in Seq(Sounds(tables, currentTable))
  BY NothingSound
<1>6. labelCounters \in [LabelPrefixes -> Nat]
  BY DEF FreeInv, WalkInv
<1>7. CASE generate_stmt_node
  <2>1. node \in S /\ currentTable' = currentTable /\ node.is \in {"let", "do", "return"}
    BY <1>4, <1>7 DEF generate_stmt_node, Doing, Unlabelled
  <2>2. PICK w : Write(w, <<>>) /\ Reaches(w, 0, 0)
    <3>1. CASE node.is = "let"
      <4>1. Write(generate_let(node), <<>>)
        BY <1>7, <3>1 DEF generate_stmt_node
      <4> QED
        BY <1>3, <2>1, <3>1, <4>1, StatementReaches
    <3>2. CASE node.is = "do"
      <4>1. Write(generate_do(node), <<>>)
        BY <1>7, <3>2 DEF generate_stmt_node
      <4> QED
        BY <1>3, <2>1, <3>2, <4>1, StatementReaches
    <3>3. CASE node.is = "return"
      <4>1. Write(generate_return(node.value), <<>>)
        BY <1>7, <3>3 DEF generate_stmt_node
      <4> QED
        BY <1>3, <2>1, <3>3, <4>1, StatementReaches
    <3> QED
      BY <2>1, <3>1, <3>2, <3>3
  <2> QED
    BY <1>1, <1>5, <2>1, <2>2, GenerationStays
<1>8. CASE write_later
  <2>1. Write(node, <<>>) /\ currentTable' = currentTable /\ Head(todo).op = "write"
    BY <1>8 DEF write_later, Doing
  <2>2. Reaches(node, 0, 0)
    BY <1>2, <2>1 DEF SoundAt, node
  <2> QED
    BY <1>1, <1>5, <2>1, <2>2, GenerationStays
<1>9. CASE generate_if_node
  <2> DEFINE true == generate_unique_label("IF_TRUE")
             false == generate_unique_label("IF_FALSE")
             end == generate_unique_label("IF_END")
             condition == Generated(node.condition)
             test == All(<<condition, write_arithmetic("not"), write_if(false), write_label(true)>>)
             then == Visits("statement", node.then)
             skip == <<Later(Followed(write_goto(end), write_label(false)))>>
             else == Visits("statement", node.else)
             last == <<Later(write_label(end))>>
             V == Sounds(tables, currentTable)
             W == Stays
  <2>1. /\ node \in Statements /\ node \in S /\ node.is = "if" /\ currentTable' = currentTable
        /\ Write(test, ((then \o skip) \o else) \o last)
    BY <1>4, <1>9 DEF generate_if_node, Statement, Doing, Unlabelled
  <2>2. IsWritten(condition) /\ Reaches(condition, 0, 1)
    BY <1>3, <2>1, StatementReaches
  <2>3. Reaches(test, 0, 0)
    <3> HIDE DEF condition
    <3> QED
      BY <2>2, TestsReach
  <2>4. node.then \in Seq(Statements) /\ node.else \in Seq(Statements)
    BY <2>1, StatementParts, SimpleStatementKinds, CompoundStatementKinds
  <2>5. /\ \A i \in 1 .. Len(node.then) : node.then[i] \in S
        /\ \A i \in 1 .. Len(node.else) : node.else[i] \in S
    BY <2>1, SoundStatementsUnfold DEF SoundStatement
  <2>6. then \in Seq(W) /\ then \in Seq(V) /\ else \in Seq(W) /\ else \in Seq(V)
    BY <2>4, <2>5, BlockSound DEF F
  <2>7. skip \in Seq(W) /\ skip \in Seq(V) /\ last \in Seq(W) /\ last \in Seq(V)
    <3>1. "IF_FALSE" \in LabelPrefixes /\ "IF_END" \in LabelPrefixes
      BY DEF LabelPrefixes
    <3> QED
      BY <1>6, <3>1, LaterReaches
  <2> HIDE DEF test, then, skip, else, last, V, W
  <2>8. /\ ((then \o skip) \o else) \o last \in Seq(W)
        /\ ((then \o skip) \o else) \o last \in Seq(V)
    BY <2>6, <2>7, ConcatProperties
  <2> QED
    BY <1>1, <2>1, <2>3, <2>8, GenerationStays DEF V, W
<1>10. CASE generate_while_node
  <2> DEFINE start == generate_unique_label("WHILE_START")
             end == generate_unique_label("WHILE_END")
             condition == Generated(node.condition)
             test == All(<<write_label(start), condition, write_arithmetic("not"), write_if(end)>>)
             body == Visits("statement", node.body)
             last == <<Later(Followed(write_goto(start), write_label(end)))>>
             V == Sounds(tables, currentTable)
             W == Stays
  <2>1. /\ node \in Statements /\ node \in S /\ node.is = "while" /\ currentTable' = currentTable
        /\ Write(test, body \o last)
    BY <1>4, <1>10 DEF generate_while_node, Statement, Doing, Unlabelled
  <2>2. IsWritten(condition) /\ Reaches(condition, 0, 1)
    BY <1>3, <2>1, StatementReaches
  <2>3. Reaches(test, 0, 0)
    <3> HIDE DEF condition
    <3> QED
      BY <2>2, TestsReach
  <2>4. node.body \in Seq(Statements)
    BY <2>1, StatementParts, SimpleStatementKinds, CompoundStatementKinds
  <2>5. \A i \in 1 .. Len(node.body) : node.body[i] \in S
    BY <2>1, SoundStatementsUnfold DEF SoundStatement
  <2>6. body \in Seq(W) /\ body \in Seq(V)
    BY <2>4, <2>5, BlockSound DEF F
  <2>7. last \in Seq(W) /\ last \in Seq(V)
    <3>1. "WHILE_START" \in LabelPrefixes /\ "WHILE_END" \in LabelPrefixes
      BY DEF LabelPrefixes
    <3> QED
      BY <1>6, <3>1, LaterReaches
  <2> HIDE DEF test, body, last, V, W
  <2>8. body \o last \in Seq(W) /\ body \o last \in Seq(V)
    BY <2>6, <2>7, ConcatProperties
  <2> QED
    BY <1>1, <2>1, <2>3, <2>8, GenerationStays DEF V, W
<1>11. CASE generate_class_node
  <2> DEFINE subs == Visits("subroutine", node.subs)
             symbol == Lookup(node.name, "LOCAL")
             kinds == {"CLASS"}
             r == Typed(Unset)
  <2>1. /\ code' = code /\ Head(todo).op = "class"
        /\ OfKind(symbol, kinds) => currentTable' = symbol.childTable /\ Go(r, subs \o <<Leave>>)
        /\ ~OfKind(symbol, kinds) => currentTable' = currentTable /\ Go(Error(Typed(Unset)), <<>>)
    BY <1>11 DEF generate_class_node, EnterClass, Doing, Proceed
  <2>2. node \in ClassNode
    BY <1>1, <2>1, NodeTyped
  <2>3. node.subs \in Seq(SubroutineDecNode)
    BY <2>2 DEF ClassNode
  <2>4. subs \in Seq(Stays)
    BY <2>3, SubsSound
  <2>5. OfKind(symbol, kinds) => subs \in Seq(Sounds(tables, symbol.childTable))
    <3> SUFFICES ASSUME OfKind(symbol, kinds) PROVE subs \in Seq(Sounds(tables, symbol.childTable))
      OBVIOUS
    <3>1. SoundClass(tables, currentTable, node)
      BY <1>2, <2>1 DEF SoundAt, node
    <3> HIDE DEF SoundSub
    <3>2. \A i \in 1 .. Len(node.subs) : SoundSub(tables, symbol.childTable, node.subs[i])
      BY <3>1 DEF SoundClass, Lookup
    <3> QED
      BY <2>3, <3>2, SubsSound
  <2>6. kinds \in SUBSET OwningKinds
    BY DEF OwningKinds
  <2>7. Leads(code', 0, 0)
    BY <1>2, <2>1
  <2> HIDE DEF subs, kinds, r
  <2> QED
    BY <1>1, <2>1, <2>4, <2>5, <2>6, <2>7, GenerationEnters
<1>12. CASE generate_sub_dec_node
  <2> DEFINE body == Visits("statement", node.body)
             symbol == Lookup(node.name, "LOCAL")
             r == generate_sub_head(node.kind, node.name, symbol)
  <2>1. /\ Head(todo).op = "subroutine"
        /\ OfKind(symbol, SubroutineKinds) =>
             currentTable' = symbol.childTable /\ Write(r, body \o <<Leave>>)
        /\ ~OfKind(symbol, SubroutineKinds) =>
             currentTable' = currentTable /\ Go(Error(Typed(Unset)), <<>>) /\ code' = code
    BY <1>12 DEF generate_sub_dec_node, Doing
  <2>2. node \in SubroutineDecNode
    BY <1>1, <2>1, NodeTyped
  <2>3. node.body \in Seq(Statements) /\ node.kind \in SubroutineKinds
    BY <2>2, SubroutineTyped DEF SubroutineDecNode
  <2>4. body \in Seq(Stays)
    BY <2>3, BlockSound
  <2>5. OfKind(symbol, SubroutineKinds) => body \in Seq(Sounds(tables, symbol.childTable))
    <3> SUFFICES ASSUME OfKind(symbol, SubroutineKinds)
                 PROVE  body \in Seq(Sounds(tables, symbol.childTable))
      OBVIOUS
    <3>1. SoundSub(tables, currentTable, node)
      BY <1>2, <2>1 DEF SoundAt, node
    <3>2. \A i \in 1 .. Len(node.body) :
            node.body[i] \in SoundStatements(CallsFound(tables, symbol.childTable))
      BY <3>1 DEF SoundSub, Lookup
    <3> QED
      BY <2>3, <3>2, BlockSound
  <2>6. SubroutineKinds \in SUBSET OwningKinds
    BY DEF OwningKinds
  <2>7. Reaches(r, 0, 0)
    BY <2>3, HeadReaches
  <2> HIDE DEF body, r
  <2>8. OfKind(symbol, SubroutineKinds) => Go(r, body \o <<Leave>>)
    BY <2>1 DEF Write
  <2>9. r.fate = "running" => Leads(code', 0, 0)
    BY <1>2, <2>1, <2>7, WritesOn
  <2> QED
    BY <1>1, <2>1, <2>4, <2>5, <2>6, <2>8, <2>9, GenerationEnters
<1> QED
  BY <1>7, <1>8, <1>9, <1>10, <1>11, <1>12

-----------------------------------------------------------------------------
(* A walk starts from the global table, and is back there in the end.      *)
LEMMA FromTheTop ==
  ASSUME NEW ts, 1 \in 1 .. Len(ts), NEW classes \in Seq(ClassNode)
  PROVE  \E scopes : /\ Scoped(ts, scopes, GlobalTable, Visits("class", classes))
                     /\ AllSound(ts, scopes, Visits("class", classes)) <=> SoundProgram(ts, classes)
<1> DEFINE visits == Visits("class", classes)
           n == Len(classes)
           scopes == [i \in 1 .. n + 1 |-> GlobalTable]
<1>1. n \in Nat /\ Len(visits) = n /\ GlobalTable = 1
  <2> HIDE DEF ClassNode
  <2>1. n \in Nat
    OBVIOUS
  <2> QED
    BY <2>1 DEF Visits, GlobalTable
<1>2. \A i \in 1 .. n : visits[i] = Visit("class", classes[i])
  BY DEF Visits
<1> HIDE DEF visits, n
<1>3. \A i \in 1 .. n : visits[i].op = "class" /\ visits[i].node = classes[i]
  <2>1. \A op, of : Visit(op, of).op = op /\ Visit(op, of).node = of
    BY DEF Visit
  <2> HIDE DEF Visit
  <2> QED
    BY <1>2, <2>1
<1>4. /\ 1 \in 1 .. n + 1 /\ n + 1 \in 1 .. n + 1
      /\ \A i \in 1 .. n : i \in 1 .. n + 1 /\ i + 1 \in 1 .. n + 1
  BY <1>1
<1>5. Scoped(ts, scopes, GlobalTable, visits)
  BY <1>1, <1>3, <1>4 DEF Scoped
<1>6. \A i \in 1 .. n : SoundAt(ts, GlobalTable, visits[i]) <=> SoundClass(ts, GlobalTable, classes[i])
  <2> HIDE DEF SoundClass
  <2> QED
    BY <1>3 DEF SoundAt
<1>7. AllSound(ts, scopes, visits) <=> SoundProgram(ts, classes)
  <2> HIDE DEF SoundClass, SoundAt
  <2>1. \A i \in 1 .. n : scopes[i] = GlobalTable
    BY <1>4
  <2> HIDE DEF scopes
  <2> QED
    BY <1>1, <1>6, <2>1 DEF AllSound, SoundProgram, n
<1> HIDE DEF Scoped, AllSound, SoundProgram
<1> QED
  BY <1>5, <1>7 DEF visits

LEMMA BackAtTheTop ==
  ASSUME NEW ts, NEW t, Within(ts, t, <<>>)
  PROVE  t = GlobalTable
<1>1. PICK s, c, g : Position(ts, t, s, c, g) /\ <<>> = s \o (c \o g)
  BY DEF Within
<1>2. \E A : s \in Seq(A) /\ c \in Seq(A) /\ g \in Seq(A)
  <2> DEFINE A == VariableVisits \union (MemberVisits \union (GlobalVisits(ts) \union {Leave}))
  <2>1. /\ VariableVisits \subseteq A /\ MemberVisits \subseteq A /\ GlobalVisits(ts) \subseteq A
        /\ Leave \in A
    OBVIOUS
  <2> HIDE DEF A, VariableVisits, MemberVisits, GlobalVisits, Leave
  <2>2. \A V : V \subseteq A => Rest(V) \subseteq Seq(A)
    <3> SUFFICES ASSUME NEW V, V \subseteq A, NEW r \in Rest(V) PROVE r \in Seq(A)
      OBVIOUS
    <3>1. r \in Seq(V \union {Leave}) /\ V \union {Leave} \subseteq A
      BY <2>1, RestIsSeq
    <3> QED
      BY <3>1, SeqMonotonic
  <2>3. s \in Seq(A) /\ c \in Seq(A) /\ g \in Seq(A)
    BY <1>1, <2>1, <2>2, SeqMonotonic DEF Position
  <2> QED
    BY <2>3
<1>3. s = <<>> /\ c = <<>>
  <2>1. PICK A : s \in Seq(A) /\ c \in Seq(A) /\ g \in Seq(A)
    BY <1>2
  <2>2. c \o g \in Seq(A) /\ Len(c \o g) = Len(c) + Len(g)
    BY <2>1, ConcatProperties
  <2>3. Len(s \o (c \o g)) = Len(s) + Len(c \o g)
    BY <2>1, <2>2, ConcatProperties
  <2>4. Len(<<>>) = 0
    OBVIOUS
  <2>5. Len(s) \in Nat /\ Len(c) \in Nat /\ Len(g) \in Nat
    BY <2>1
  <2>6. Len(s) = 0 /\ Len(c) = 0
    BY <1>1, <2>2, <2>3, <2>4, <2>5
  <2> QED
    BY <2>1, <2>6, EmptySeq
<1> QED
  BY <1>1, <1>3 DEF Position

LEMMA AnalysisBegins ==
  ASSUME BuildInv, FreeInv, BalanceInv, BeginAnalysis PROVE BalanceInv'
<1>1. /\ outcome = "running" /\ phase = "BUILD" /\ todo = <<>> /\ phase' = "ANALYZE"
      /\ todo' = Visits("class", program) /\ program' = program /\ tables' = tables
      /\ currentTable' = currentTable /\ errors' = errors /\ outcome' = outcome /\ code' = code
  BY DEF BeginAnalysis, tree
<1>2. currentTable = GlobalTable
  BY <1>1, BackAtTheTop DEF BuildInv
<1>3. 1 \in 1 .. Len(tables) /\ program \in Seq(ClassNode)
  BY DEF BuildInv, Inv, ProgramNode
<1>4. AnalysisLeads'
  <2>1. PICK scopes : /\ Scoped(tables, scopes, GlobalTable, Visits("class", program))
                      /\ AllSound(tables, scopes, Visits("class", program)) <=> SoundProgram(tables, program)
    BY <1>3, FromTheTop
  <2> HIDE DEF Scoped, AllSound, SoundProgram
  <2> QED
    BY <1>1, <1>2, <2>1 DEF AnalysisLeads
<1> QED
  BY <1>1, <1>4 DEF BalanceInv

LEMMA AnalysisEnds ==
  ASSUME BuildInv, FreeInv, BalanceInv, EndAnalysis PROVE BalanceInv'
<1>1. /\ outcome = "running" /\ phase = "ANALYZE" /\ todo = <<>>
      /\ program' = program /\ tables' = tables
      /\ currentTable' = currentTable /\ errors' = errors /\ outcome' = outcome /\ code' = code
  BY DEF EndAnalysis, tree
<1>2. CASE errors # 0
  BY <1>1, <1>2 DEF EndAnalysis, Destroy, BalanceInv
<1>3. CASE errors = 0
  <2>1. phase' = "GENERATE" /\ todo' = Visits("class", program)
    BY <1>3 DEF EndAnalysis
  <2>2. PICK scopes : /\ Scoped(tables, scopes, currentTable, <<>>)
                      /\ AllSound(tables, scopes, <<>>) => SoundProgram(tables, program)
    BY <1>1, <1>3 DEF BalanceInv, AnalysisLeads
  <2>3. currentTable = GlobalTable /\ SoundProgram(tables, program)
    <3>1. Len(<<>>) = 0 /\ \A i \in 1 .. 0 : FALSE
      OBVIOUS
    <3>2. currentTable = GlobalTable
      BY <2>2, <3>1 DEF Scoped
    <3> HIDE DEF SoundProgram, SoundAt
    <3> QED
      BY <2>2, <3>1, <3>2 DEF AllSound
  <2>4. 1 \in 1 .. Len(tables) /\ program \in Seq(ClassNode)
    BY DEF BuildInv, Inv, ProgramNode
  <2>5. GenerationLeads'
    <3>1. PICK onward : /\ Scoped(tables, onward, GlobalTable, Visits("class", program))
                        /\ AllSound(tables, onward, Visits("class", program)) <=> SoundProgram(tables, program)
      BY <2>4, FromTheTop
    <3> HIDE DEF Scoped, AllSound, SoundProgram
    <3> QED
      BY <1>1, <2>1, <2>3, <3>1 DEF GenerationLeads
  <2> QED
    BY <1>1, <2>1, <2>5 DEF BalanceInv
<1> QED
  BY <1>2, <1>3

(* The other steps: the tables are built, and the tree is destroyed.       *)
LEMMA OtherStepsKeepBalance ==
  ASSUME BalanceInv,
         \/ AddLibraryClass \/ AddLibraryFunction \/ AddLibraryParameter
         \/ build_class_node \/ build_class_var_dec_node \/ build_subroutine_dec_node
         \/ build_variable \/ EndGeneration \/ destroy_ast_node \/ Finish \/ Ended
         \/ UNCHANGED vars
  PROVE  BalanceInv'
<1>1. Typed(Unset).errors = 0 /\ Error(Typed(Unset)).errors = 1 /\ \A how : Dead(how).errors = 0
  BY DEF Typed, Error, Dead
<1> DEFINE Builds_ == outcome = "running" /\ phase = "BUILD" /\ phase' = phase /\ code' = code
                      /\ \E r, visits : Go(r, visits) /\ r.errors \in {0, 1}
<1>2. ASSUME Builds_ PROVE BalanceInv'
  <2>1. PICK r, visits : Go(r, visits) /\ r.errors \in {0, 1}
    BY <1>2
  <2>2. errors' \in Nat
    BY <1>2, <2>1 DEF BalanceInv, Go
  <2> QED
    BY <1>2, <2>2 DEF BalanceInv
<1> HIDE DEF Builds_
<1>3. CASE AddLibraryClass
  <2>1. Builds_
    BY <1>1, <1>3 DEF AddLibraryClass, Doing, Proceed, Builds_
  <2> QED
    BY <1>2, <2>1
<1>4. CASE AddLibraryFunction
  <2>1. Builds_
    BY <1>1, <1>4 DEF AddLibraryFunction, Doing, Proceed, Builds_
  <2> QED
    BY <1>2, <2>1
<1>5. CASE AddLibraryParameter
  <2>1. Builds_
    BY <1>1, <1>5 DEF AddLibraryParameter, Doing, Proceed, Builds_
  <2> QED
    BY <1>2, <2>1
<1>6. CASE build_class_node
  <2>1. Builds_
    BY <1>1, <1>6 DEF build_class_node, Doing, Proceed, Builds_
  <2> QED
    BY <1>2, <2>1
<1>7. CASE build_class_var_dec_node
  <2>1. Builds_
    BY <1>1, <1>7 DEF build_class_var_dec_node, Doing, Builds_
  <2> QED
    BY <1>2, <2>1
<1>8. CASE build_subroutine_dec_node
  <2>1. Builds_
    BY <1>1, <1>8 DEF build_subroutine_dec_node, Doing, Proceed, Builds_
  <2> QED
    BY <1>2, <2>1
<1>9. CASE build_variable
  <2>1. Builds_
    BY <1>1, <1>9 DEF build_variable, Doing, Proceed, Builds_
  <2> QED
    BY <1>2, <2>1
<1>10. CASE EndGeneration
  BY <1>10 DEF EndGeneration, Destroy, BalanceInv
<1>11. CASE destroy_ast_node \/ Finish
  <2>1. phase = "DESTROY" /\ phase' = phase /\ code' = code
    BY <1>11 DEF destroy_ast_node, Destroying, Finish, Doing
  <2> QED
    BY <2>1 DEF BalanceInv
<1>12. CASE Ended \/ UNCHANGED vars
  <2>1. UNCHANGED vars
    BY <1>12 DEF Ended
  <2>2. AnalysisLeads' <=> AnalysisLeads
    BY <2>1 DEF AnalysisLeads, vars
  <2>3. GenerationLeads' <=> GenerationLeads
    BY <2>1 DEF GenerationLeads, vars
  <2> QED
    BY <2>1, <2>2, <2>3 DEF BalanceInv, vars
<1> QED
  BY <1>3, <1>4, <1>5, <1>6, <1>7, <1>8, <1>9, <1>10, <1>11, <1>12

LEMMA NextKeepsBalance == BuildInv /\ FreeInv /\ BalanceInv /\ [Next]_vars => BalanceInv'
<1> SUFFICES ASSUME BuildInv, FreeInv, BalanceInv, [Next]_vars PROVE BalanceInv'
  OBVIOUS
<1>1. Inv
  BY DEF BuildInv
<1>2. CASE LeaveScope
  BY <1>1, <1>2, ScopesKept
<1>3. CASE Build
  BY <1>3, AnalysisBegins, OtherStepsKeepBalance DEF Build
<1>4. CASE Analyze
  BY <1>1, <1>4, AnalysisKeepsBalance, AnalysisEnds DEF Analyze
<1>5. CASE Generate
  BY <1>1, <1>5, GenerationKeepsBalance, OtherStepsKeepBalance DEF Generate
<1>6. CASE Clean \/ Ended \/ UNCHANGED vars
  BY <1>6, OtherStepsKeepBalance DEF Clean
<1> QED
  BY <1>2, <1>3, <1>4, <1>5, <1>6 DEF Next

LEMMA InitBalanced == Init => BalanceInv
<1> SUFFICES ASSUME Init PROVE BalanceInv
  OBVIOUS
<1>1. phase = "BUILD" /\ errors = 0 /\ code = <<>>
  BY DEF Init
<1>2. Leads(<<>>, 0, 0)
  BY NothingLeads
<1> QED
  BY <1>1, <1>2 DEF BalanceInv

(* In all code that is written for a program that compiles, a statement    *)
(* leaves the working stack as it finds it, whichever way control goes:    *)
(* each term pushes one value, and each operator, call and assignment      *)
(* takes its own.  It is the analysis that sees to it: a call whose        *)
(* subroutine is not found, for which nothing is written, is an error, and *)
(* GENERATE finds the scopes that ANALYZE has found.                       *)
THEOREM EveryStackIsBalanced == Spec => []StackBalanced
<1>1. FreeInv /\ BalanceInv => StackBalanced
  <2> SUFFICES ASSUME FreeInv, BalanceInv, outcome = "done" PROVE Depth(code, 0) = 0
    BY DEF StackBalanced
  <2>1. phase = "DESTROY"
    BY DEF FreeInv, Fates
  <2> QED
    BY <2>1 DEF BalanceInv, Leads
<1>2. Init => BuildInv /\ FreeInv /\ BalanceInv
  BY InitBuilds, InitFrees, InitBalanced
<1> QED
  BY <1>1, <1>2, BuildInvariance, NextFrees, NextKeepsBalance, PTL DEF Spec

-----------------------------------------------------------------------------
(* THE JUMPS                                                               *)

(* The labels, jumps and functions in instructions, and the writes among   *)
(* visits, with the label that each of them ends in.                       *)
PlacesOf(ops, instructions) == {i \in 1 .. Len(instructions) : instructions[i].op \in ops}

Awaits(visits) == PlacesOf({"write"}, visits)

Owed(visit) == visit.node.code[Len(visit.node.code)].label

(* A mark, or a jump to one and another mark.                              *)
Mark(label) == [op |-> "label", label |-> label]

Jump(label) == [op |-> "goto", label |-> label]

(* What is yet to be written.                                              *)
LaterMarks ==
  {Written(<<Mark(b)>>) : b \in Labels}
    \union {Written(<<Jump(a), Mark(b)>>) : a \in Labels, b \in Labels}

(* Numbers that have been given.                                           *)
Given(counters) == {l \in Labels : l.number < counters[l.prefix]}

(* A place in the function that is being written.                          *)
Here(instructions, i) == \A k \in PlacesOf({"function"}, instructions) : k < i

(* Where a jump from here can lead: back, or to what is yet to be written. *)
CanReach(instructions, visits, label) ==
  \/ \E j \in PlacesOf({"label"}, instructions) :
       instructions[j].label = label /\ Here(instructions, j)
  \/ \E k \in Awaits(visits) : Owed(visits[k]) = label

LabelsGiven(instructions, visits, given) ==
  /\ \A i \in PlacesOf({"label"}, instructions) : instructions[i].label \in given
  /\ \A k \in Awaits(visits) : Owed(visits[k]) \in given

LabelsOnce(instructions, visits) ==
  /\ \A i, j \in PlacesOf({"label"}, instructions) :
       instructions[i].label = instructions[j].label => i = j
  /\ \A k, m \in Awaits(visits) : Owed(visits[k]) = Owed(visits[m]) => k = m
  /\ \A i \in PlacesOf({"label"}, instructions), k \in Awaits(visits) :
       instructions[i].label # Owed(visits[k])

JumpsLinked(instructions, visits) ==
  \A i \in PlacesOf(Jumps, instructions) :
    \/ \E j \in PlacesOf({"label"}, instructions) :
         instructions[j].label = instructions[i].label /\ Together(instructions, i, j)
    \/ /\ Here(instructions, i)
       /\ \E k \in Awaits(visits) : Owed(visits[k]) = instructions[i].label

LatersLinked(instructions, visits) ==
  \A k \in Awaits(visits) :
    /\ visits[k].node \in LaterMarks
    /\ Len(visits[k].node.code) = 2 =>
         CanReach(instructions, visits, visits[k].node.code[1].label)

(* What is written later is written before the subroutine is left.         *)
LatersFirst(visits) ==
  \A k \in Awaits(visits) : \A j \in 1 .. k : visits[j].op \in {"statement", "write"}

Linked(instructions, visits, given) ==
  /\ LabelsGiven(instructions, visits, given)
  /\ LabelsOnce(instructions, visits)
  /\ JumpsLinked(instructions, visits)
  /\ LatersLinked(instructions, visits)
  /\ LatersFirst(visits)

LEMMA JoinedPlaces ==
  ASSUME NEW C, NEW c \in Seq(C), NEW d \in Seq(C), NEW ops
  PROVE  /\ Len(c) \in Nat
         /\ PlacesOf(ops, c) \subseteq 1 .. Len(c) /\ PlacesOf(ops, d) \subseteq 1 .. Len(d)
         /\ \A i \in PlacesOf(ops, c) : i \in PlacesOf(ops, c \o d)
         /\ \A i \in 1 .. Len(c) : (c \o d)[i] = c[i]
         /\ \A i \in PlacesOf(ops, d) : Len(c) + i \in PlacesOf(ops, c \o d)
         /\ \A i \in 1 .. Len(d) : (c \o d)[Len(c) + i] = d[i]
         /\ \A k \in PlacesOf(ops, c \o d) :
              k \in PlacesOf(ops, c) \/ \E i \in PlacesOf(ops, d) : k = Len(c) + i
<1> DEFINE m == Len(c)
           n == Len(d)
           cd == c \o d
<1>1. m \in Nat /\ n \in Nat /\ Len(cd) = m + n
  BY ConcatProperties
<1>2. \A i \in 1 .. m + n : cd[i] = IF i <= m THEN c[i] ELSE d[i - m]
  BY ConcatProperties
<1> HIDE DEF m, n, cd
<1>3. ASSUME NEW i \in 1 .. m PROVE i \in 1 .. m + n /\ cd[i] = c[i]
  BY <1>1, <1>2
<1>4. ASSUME NEW i \in 1 .. n PROVE m + i \in 1 .. m + n /\ cd[m + i] = d[i]
  <2>1. m + i \in 1 .. m + n /\ ~(m + i <= m) /\ (m + i) - m = i
    BY <1>1
  <2> QED
    BY <1>2, <2>1
<1>5. ASSUME NEW k \in 1 .. m + n PROVE k \in 1 .. m \/ \E i \in 1 .. n : k = m + i
  <2>1. CASE k <= m
    BY <1>1, <2>1
  <2>2. CASE ~(k <= m)
    <3>1. k - m \in 1 .. n /\ k = m + (k - m)
      BY <1>1, <2>2
    <3> QED
      BY <3>1
  <2> QED
    BY <2>1, <2>2
<1>6. \A i \in PlacesOf(ops, c) : i \in 1 .. m /\ c[i].op \in ops
  BY DEF PlacesOf, m
<1>7. \A i \in PlacesOf(ops, d) : i \in 1 .. n /\ d[i].op \in ops
  BY DEF PlacesOf, n
<1>8. \A k \in PlacesOf(ops, cd) : k \in 1 .. m + n /\ cd[k].op \in ops
  BY <1>1 DEF PlacesOf
<1>9. \A i \in PlacesOf(ops, c) : i \in PlacesOf(ops, cd)
  BY <1>1, <1>3, <1>6 DEF PlacesOf
<1>10. \A i \in PlacesOf(ops, d) : m + i \in PlacesOf(ops, cd)
  BY <1>1, <1>4, <1>7 DEF PlacesOf
<1>11. ASSUME NEW k \in PlacesOf(ops, cd)
       PROVE  k \in PlacesOf(ops, c) \/ \E i \in PlacesOf(ops, d) : k = m + i
  <2>1. CASE k \in 1 .. m
    <3>1. k \in PlacesOf(ops, c)
      BY <1>3, <1>8, <2>1 DEF PlacesOf, m
    <3> QED
      BY <3>1
  <2>2. CASE \E i \in 1 .. n : k = m + i
    <3>1. PICK i \in 1 .. n : k = m + i
      BY <2>2
    <3>2. i \in PlacesOf(ops, d)
      BY <1>4, <1>8, <3>1 DEF PlacesOf, n
    <3> QED
      BY <3>1, <3>2
  <2> QED
    BY <1>5, <1>8, <2>1, <2>2
<1>12. PlacesOf(ops, c) \subseteq 1 .. m /\ PlacesOf(ops, d) \subseteq 1 .. n
  BY <1>6, <1>7
<1> QED
  BY <1>1, <1>3, <1>4, <1>9, <1>10, <1>11, <1>12 DEF m, n, cd

(* A visit that writes nothing later is taken away.                        *)
LEMMA TailPlaces ==
  ASSUME NEW v \in Seq(WalkVisits), v # <<>>
  PROVE  /\ \A k \in Awaits(Tail(v)) : k + 1 \in Awaits(v) /\ v[k + 1] = Tail(v)[k] /\ k \in Nat
         /\ \A k \in Awaits(v) : k \in Nat /\ (k # 1 => k - 1 \in Awaits(Tail(v)) /\ Tail(v)[k - 1] = v[k])
         /\ 1 \in 1 .. Len(v) /\ v[1] = Head(v)
         /\ \A k \in Awaits(Tail(v)) : k \in 1 .. Len(Tail(v))
         /\ \A k \in Awaits(v) : k \in 1 .. Len(v)
<1> HIDE DEF WalkVisits
<1> DEFINE t == Tail(v)
           n == Len(v)
           m == Len(t)
<1>1. n \in Nat /\ n # 0 /\ m = n - 1 /\ \A k \in 1 .. m : t[k] = v[k + 1]
  OBVIOUS
<1>2. v[1] = Head(v)
  OBVIOUS
<1> HIDE DEF t, n, m
<1>3. \A k \in Awaits(t) : k \in 1 .. m /\ t[k].op = "write"
  BY DEF Awaits, PlacesOf, m
<1>4. \A k \in Awaits(v) : k \in 1 .. n /\ v[k].op = "write"
  BY DEF Awaits, PlacesOf, n
<1>5. ASSUME NEW k \in Awaits(t) PROVE k + 1 \in Awaits(v) /\ v[k + 1] = t[k] /\ k \in Nat
  <2>1. k \in Nat /\ k + 1 \in 1 .. n /\ v[k + 1] = t[k]
    BY <1>1, <1>3
  <2> QED
    BY <1>3, <2>1 DEF Awaits, PlacesOf, n
<1>6. ASSUME NEW k \in Awaits(v), k # 1 PROVE k - 1 \in Awaits(t) /\ t[k - 1] = v[k]
  <2>1. k - 1 \in 1 .. m /\ (k - 1) + 1 = k
    BY <1>1, <1>4, <1>6
  <2>2. t[k - 1] = v[k]
    BY <1>1, <2>1
  <2> QED
    BY <1>4, <2>1, <2>2 DEF Awaits, PlacesOf, m
<1>7. 1 \in 1 .. n /\ \A k \in Awaits(v) : k \in Nat
  BY <1>1, <1>4
<1> QED
  BY <1>2, <1>3, <1>4, <1>5, <1>6, <1>7 DEF t, n, m

LEMMA RestFirst ==
  ASSUME NEW v \in Seq(WalkVisits), v # <<>>, LatersFirst(v)
  PROVE  LatersFirst(Tail(v))
<1> DEFINE t == Tail(v)
<1>1. /\ \A k \in Awaits(t) : k + 1 \in Awaits(v) /\ v[k + 1] = t[k] /\ k \in Nat
      /\ \A k \in Awaits(v) : k \in Nat /\ (k # 1 => k - 1 \in Awaits(t) /\ t[k - 1] = v[k])
      /\ 1 \in 1 .. Len(v) /\ v[1] = Head(v)
      /\ \A k \in Awaits(t) : k \in 1 .. Len(t)
      /\ \A k \in Awaits(v) : k \in 1 .. Len(v)
  BY TailPlaces
<1> HIDE DEF t
<1>2. LatersFirst(t)
  <2> SUFFICES ASSUME NEW k \in Awaits(t), NEW j \in 1 .. k
               PROVE  t[j].op \in {"statement", "write"}
    BY DEF LatersFirst
  <2>1. j + 1 \in 1 .. k + 1 /\ k + 1 \in Awaits(v)
    BY <1>1
  <2>2. v[j + 1].op \in {"statement", "write"}
    BY <2>1 DEF LatersFirst
  <2>3. j \in 1 .. Len(t)
    BY <1>1
  <2>4. t[j] = v[j + 1]
    <3> HIDE DEF WalkVisits
    <3> QED
      BY <2>3 DEF t
  <2> QED
    BY <2>2, <2>4
<1> QED
  BY <1>2 DEF t

LEMMA RestLinked ==
  ASSUME NEW c, NEW v \in Seq(WalkVisits), v # <<>>, NEW g, Linked(c, v, g),
         Head(v).op # "write"
  PROVE  /\ Linked(c, Tail(v), g)
         /\ Head(v).op \notin {"statement", "write"} => Awaits(Tail(v)) = {}
<1> DEFINE t == Tail(v)
<1>1. /\ \A k \in Awaits(t) : k + 1 \in Awaits(v) /\ v[k + 1] = t[k] /\ k \in Nat
      /\ \A k \in Awaits(v) : k \in Nat /\ (k # 1 => k - 1 \in Awaits(t) /\ t[k - 1] = v[k])
      /\ 1 \in 1 .. Len(v) /\ v[1] = Head(v)
      /\ \A k \in Awaits(t) : k \in 1 .. Len(t)
      /\ \A k \in Awaits(v) : k \in 1 .. Len(v)
  BY TailPlaces
<1> HIDE DEF t
<1>2. \A k \in Awaits(v) : k # 1
  BY <1>1 DEF Awaits, PlacesOf
<1>3. \A label : (\E k \in Awaits(v) : Owed(v[k]) = label)
                   => \E k \in Awaits(t) : Owed(t[k]) = label
  BY <1>1, <1>2
<1>4. LabelsGiven(c, t, g)
  BY <1>1 DEF Linked, LabelsGiven
<1>5. LabelsOnce(c, t)
  <2>1. ASSUME NEW k \in Awaits(t), NEW m \in Awaits(t), Owed(t[k]) = Owed(t[m]) PROVE k = m
    <3>1. k + 1 = m + 1
      BY <1>1, <2>1 DEF Linked, LabelsOnce
    <3> QED
      BY <1>1, <3>1
  <2>2. \A i \in PlacesOf({"label"}, c), k \in Awaits(t) : c[i].label # Owed(t[k])
    BY <1>1 DEF Linked, LabelsOnce
  <2> QED
    BY <2>1, <2>2 DEF Linked, LabelsOnce
<1>6. JumpsLinked(c, t)
  BY <1>3 DEF Linked, JumpsLinked
<1>7. LatersLinked(c, t)
  <2>1. \A label : CanReach(c, v, label) => CanReach(c, t, label)
    BY <1>3 DEF CanReach
  <2> QED
    BY <1>1, <2>1 DEF Linked, LatersLinked
<1>8. LatersFirst(t)
  BY RestFirst DEF Linked, t
<1>9. Head(v).op \notin {"statement", "write"} => Awaits(t) = {}
  <2> SUFFICES ASSUME NEW k \in Awaits(t) PROVE Head(v).op \in {"statement", "write"}
    OBVIOUS
  <2>1. 1 \in 1 .. k + 1 /\ k + 1 \in Awaits(v)
    BY <1>1
  <2> QED
    BY <1>1, <2>1 DEF Linked, LatersFirst
<1> QED
  BY <1>4, <1>5, <1>6, <1>7, <1>8, <1>9 DEF Linked, t

(* What is written together with what is still to be written, after what   *)
(* there is.                                                               *)
LEMMA LinkedOn ==
  ASSUME NEW C, NEW c \in Seq(C), NEW d \in Seq(C),
         NEW w \in Seq(WalkVisits), NEW t \in Seq(WalkVisits), NEW g, NEW h, g \subseteq h,
         Linked(c, t, g), Linked(d, w, h \ g),
         \/ /\ PlacesOf({"function"}, d) = {}
            /\ \A k \in 1 .. Len(w) : w[k].op \in {"statement", "write"}
         \/ Awaits(t) = {} /\ Awaits(w) = {}
  PROVE  Linked(c \o d, w \o t, h)
<1> DEFINE m == Len(c)
           n == Len(w)
           cd == c \o d
           wt == w \o t
<1>1. ASSUME NEW ops
      PROVE  /\ m \in Nat
             /\ PlacesOf(ops, c) \subseteq 1 .. m /\ PlacesOf(ops, d) \subseteq 1 .. Len(d)
             /\ \A i \in PlacesOf(ops, c) : i \in PlacesOf(ops, cd) /\ cd[i] = c[i]
             /\ \A i \in PlacesOf(ops, d) : m + i \in PlacesOf(ops, cd) /\ cd[m + i] = d[i]
             /\ \A k \in PlacesOf(ops, cd) :
                  k \in PlacesOf(ops, c) \/ \E i \in PlacesOf(ops, d) : k = m + i
  BY JoinedPlaces
<1>2. /\ n \in Nat
      /\ Awaits(w) \subseteq 1 .. n /\ Awaits(t) \subseteq 1 .. Len(t)
      /\ \A i \in Awaits(w) : i \in Awaits(wt) /\ wt[i] = w[i]
      /\ \A i \in 1 .. n : wt[i] = w[i]
      /\ \A i \in Awaits(t) : n + i \in Awaits(wt)
      /\ \A i \in 1 .. Len(t) : wt[n + i] = t[i]
      /\ \A k \in Awaits(wt) : k \in Awaits(w) \/ \E i \in Awaits(t) : k = n + i
  <2> DEFINE V == WalkVisits
             ops == {"write"}
  <2> HIDE DEF V
  <2>1. w \in Seq(V) /\ t \in Seq(V)
    BY DEF V
  <2>2. /\ Len(w) \in Nat
        /\ PlacesOf(ops, w) \subseteq 1 .. Len(w) /\ PlacesOf(ops, t) \subseteq 1 .. Len(t)
        /\ \A i \in PlacesOf(ops, w) : i \in PlacesOf(ops, w \o t)
        /\ \A i \in 1 .. Len(w) : (w \o t)[i] = w[i]
        /\ \A i \in PlacesOf(ops, t) : Len(w) + i \in PlacesOf(ops, w \o t)
        /\ \A i \in 1 .. Len(t) : (w \o t)[Len(w) + i] = t[i]
        /\ \A k \in PlacesOf(ops, w \o t) :
             k \in PlacesOf(ops, w) \/ \E i \in PlacesOf(ops, t) : k = Len(w) + i
    BY <2>1, JoinedPlaces
  <2> QED
    BY <2>2 DEF Awaits
<1>3. \A i \in Awaits(t) : wt[n + i] = t[i]
  BY <1>2
<1> HIDE DEF cd, wt, n, m
<1>4. m \in Nat
  BY <1>1
<1> DEFINE L == {"label"}
           F == {"function"}
<1>5. /\ PlacesOf(L, c) \subseteq 1 .. m /\ PlacesOf(L, d) \subseteq 1 .. Len(d)
      /\ \A i \in PlacesOf(L, c) : i \in PlacesOf(L, cd) /\ cd[i] = c[i]
      /\ \A i \in PlacesOf(L, d) : m + i \in PlacesOf(L, cd) /\ cd[m + i] = d[i]
      /\ \A k \in PlacesOf(L, cd) :
           k \in PlacesOf(L, c) \/ \E i \in PlacesOf(L, d) : k = m + i
  BY <1>1
<1>6. /\ PlacesOf(F, c) \subseteq 1 .. m /\ PlacesOf(F, d) \subseteq 1 .. Len(d)
      /\ \A k \in PlacesOf(F, cd) :
           k \in PlacesOf(F, c) \/ \E i \in PlacesOf(F, d) : k = m + i
  BY <1>1
<1>7. /\ PlacesOf(Jumps, c) \subseteq 1 .. m /\ PlacesOf(Jumps, d) \subseteq 1 .. Len(d)
      /\ \A i \in PlacesOf(Jumps, c) : cd[i] = c[i]
      /\ \A i \in PlacesOf(Jumps, d) : cd[m + i] = d[i]
      /\ \A k \in PlacesOf(Jumps, cd) :
           k \in PlacesOf(Jumps, c) \/ \E i \in PlacesOf(Jumps, d) : k = m + i
  BY <1>1
<1>8. /\ \A s, i, j : Together(s, i, j) <=> \A k \in PlacesOf(F, s) : k < i <=> k < j
  BY DEF Together, PlacesOf
<1> HIDE DEF L, F
<1>9. /\ LabelsGiven(c, t, g) /\ LabelsGiven(d, w, h \ g)
      /\ LabelsOnce(c, t) /\ LabelsOnce(d, w)
      /\ JumpsLinked(c, t) /\ JumpsLinked(d, w)
      /\ LatersLinked(c, t) /\ LatersLinked(d, w)
      /\ LatersFirst(t)
  BY DEF Linked
<1>10. /\ \A i \in PlacesOf(L, c) : c[i].label \in g
       /\ \A i \in PlacesOf(L, d) : d[i].label \in h \ g
       /\ \A k \in Awaits(t) : Owed(t[k]) \in g
       /\ \A k \in Awaits(w) : Owed(w[k]) \in h \ g
  BY <1>9 DEF LabelsGiven, L
<1>11. LabelsGiven(cd, wt, h)
  <2>1. \A i \in PlacesOf(L, cd) : cd[i].label \in h
    BY <1>5, <1>10
  <2>2. \A k \in Awaits(wt) : Owed(wt[k]) \in h
    BY <1>2, <1>3, <1>10
  <2> QED
    BY <2>1, <2>2 DEF LabelsGiven, L
<1>12. LabelsOnce(cd, wt)
  <2>1. /\ \A i, j \in PlacesOf(L, c) : c[i].label = c[j].label => i = j
        /\ \A i, j \in PlacesOf(L, d) : d[i].label = d[j].label => i = j
        /\ \A k, j \in Awaits(t) : Owed(t[k]) = Owed(t[j]) => k = j
        /\ \A k, j \in Awaits(w) : Owed(w[k]) = Owed(w[j]) => k = j
        /\ \A i \in PlacesOf(L, c), k \in Awaits(t) : c[i].label # Owed(t[k])
        /\ \A i \in PlacesOf(L, d), k \in Awaits(w) : d[i].label # Owed(w[k])
    BY <1>9 DEF LabelsOnce, L
  <2>2. ASSUME NEW i \in PlacesOf(L, cd), NEW j \in PlacesOf(L, cd), cd[i].label = cd[j].label
        PROVE  i = j
    <3>1. CASE i \in PlacesOf(L, c) /\ j \in PlacesOf(L, c)
      BY <1>5, <2>1, <2>2, <3>1
    <3>2. ASSUME NEW a \in PlacesOf(L, d), i = m + a, NEW b \in PlacesOf(L, d), j = m + b
          PROVE  i = j
      BY <1>5, <2>1, <2>2, <3>2
    <3>3. ASSUME i \in PlacesOf(L, c), NEW b \in PlacesOf(L, d), j = m + b PROVE FALSE
      BY <1>5, <1>10, <2>2, <3>3
    <3>4. ASSUME NEW a \in PlacesOf(L, d), i = m + a, j \in PlacesOf(L, c) PROVE FALSE
      BY <1>5, <1>10, <2>2, <3>4
    <3> QED
      BY <1>5, <3>1, <3>2, <3>3, <3>4
  <2>3. ASSUME NEW i \in Awaits(wt), NEW j \in Awaits(wt), Owed(wt[i]) = Owed(wt[j])
        PROVE  i = j
    <3>1. CASE i \in Awaits(w) /\ j \in Awaits(w)
      BY <1>2, <2>1, <2>3, <3>1
    <3>2. ASSUME NEW a \in Awaits(t), i = n + a, NEW b \in Awaits(t), j = n + b
          PROVE  i = j
      BY <1>3, <2>1, <2>3, <3>2
    <3>3. ASSUME i \in Awaits(w), NEW b \in Awaits(t), j = n + b PROVE FALSE
      BY <1>2, <1>3, <1>10, <2>3, <3>3
    <3>4. ASSUME NEW a \in Awaits(t), i = n + a, j \in Awaits(w) PROVE FALSE
      BY <1>2, <1>3, <1>10, <2>3, <3>4
    <3> QED
      BY <1>2, <3>1, <3>2, <3>3, <3>4
  <2>4. ASSUME NEW i \in PlacesOf(L, cd), NEW k \in Awaits(wt) PROVE cd[i].label # Owed(wt[k])
    <3>1. CASE i \in PlacesOf(L, c) /\ k \in Awaits(w)
      BY <1>2, <1>5, <1>10, <3>1
    <3>2. ASSUME i \in PlacesOf(L, c), NEW b \in Awaits(t), k = n + b
          PROVE  cd[i].label # Owed(wt[k])
      BY <1>3, <1>5, <2>1, <3>2
    <3>3. ASSUME NEW a \in PlacesOf(L, d), i = m + a, k \in Awaits(w)
          PROVE  cd[i].label # Owed(wt[k])
      <4>1. cd[i] = d[a] /\ wt[k] = w[k]
        BY <1>2, <1>5, <3>3
      <4>2. d[a].label # Owed(w[k])
        BY <2>1, <3>3
      <4> QED
        BY <4>1, <4>2
    <3>4. ASSUME NEW a \in PlacesOf(L, d), i = m + a, NEW b \in Awaits(t), k = n + b
          PROVE  cd[i].label # Owed(wt[k])
      <4>1. cd[i] = d[a] /\ d[a].label \in h \ g
        BY <1>5, <1>10, <3>4
      <4>2. wt[k] = t[b] /\ Owed(t[b]) \in g
        BY <1>3, <1>10, <3>4
      <4> QED
        BY <4>1, <4>2
    <3> QED
      BY <1>2, <1>5, <3>1, <3>2, <3>3, <3>4
  <2> QED
    BY <2>2, <2>3, <2>4 DEF LabelsOnce, L
<1>13. /\ \A i \in 1 .. m : Here(c, i) /\ PlacesOf(F, d) = {} => Here(cd, i)
       /\ \A i \in 1 .. Len(d) : Here(d, i) => Here(cd, m + i)
  <2>1. ASSUME NEW i \in 1 .. m, Here(c, i), PlacesOf(F, d) = {} PROVE Here(cd, i)
    BY <1>6, <2>1 DEF Here, F
  <2>2. ASSUME NEW i \in 1 .. Len(d), Here(d, i), NEW k \in PlacesOf(F, cd) PROVE k < m + i
    <3>1. CASE k \in PlacesOf(F, c)
      BY <1>4, <1>6, <3>1
    <3>2. ASSUME NEW j \in PlacesOf(F, d), k = m + j PROVE k < m + i
      <4>1. j < i /\ j \in 1 .. Len(d)
        BY <1>6, <2>2 DEF Here, F
      <4> QED
        BY <1>4, <3>2, <4>1
    <3> QED
      BY <1>6, <3>1, <3>2
  <2> QED
    BY <2>1, <2>2 DEF Here, F
<1>14. /\ \A i, j \in 1 .. m : Together(c, i, j) => Together(cd, i, j)
       /\ \A i, j \in 1 .. Len(d) : Together(d, i, j) => Together(cd, m + i, m + j)
  <2>1. ASSUME NEW i \in 1 .. m, NEW j \in 1 .. m, Together(c, i, j), NEW k \in PlacesOf(F, cd)
        PROVE  k < i <=> k < j
    <3>1. CASE k \in PlacesOf(F, c)
      BY <1>8, <2>1, <3>1
    <3>2. ASSUME NEW a \in PlacesOf(F, d), k = m + a PROVE k < i <=> k < j
      <4>1. a \in 1 .. Len(d)
        BY <1>6
      <4> QED
        BY <1>4, <3>2, <4>1
    <3> QED
      BY <1>6, <3>1, <3>2
  <2>2. ASSUME NEW i \in 1 .. Len(d), NEW j \in 1 .. Len(d), Together(d, i, j),
               NEW k \in PlacesOf(F, cd)
        PROVE  k < m + i <=> k < m + j
    <3>1. CASE k \in PlacesOf(F, c)
      <4>1. k \in 1 .. m
        BY <1>6, <3>1
      <4> QED
        BY <1>4, <4>1
    <3>2. ASSUME NEW a \in PlacesOf(F, d), k = m + a PROVE k < m + i <=> k < m + j
      <4>1. a < i <=> a < j
        BY <1>8, <2>2
      <4>2. a \in 1 .. Len(d)
        BY <1>6
      <4> QED
        BY <1>4, <3>2, <4>1, <4>2
    <3> QED
      BY <1>6, <3>1, <3>2
  <2> QED
    BY <1>8, <2>1, <2>2
<1>15. PlacesOf(F, d) = {} \/ Awaits(t) = {}
  BY DEF F
<1>16. JumpsLinked(cd, wt)
  <2> SUFFICES ASSUME NEW i \in PlacesOf(Jumps, cd)
               PROVE  \/ \E j \in PlacesOf(L, cd) : cd[j].label = cd[i].label /\ Together(cd, i, j)
                      \/ /\ Here(cd, i)
                         /\ \E k \in Awaits(wt) : Owed(wt[k]) = cd[i].label
    BY DEF JumpsLinked, L
  <2>1. CASE i \in PlacesOf(Jumps, c)
    <3>1. i \in 1 .. m /\ cd[i] = c[i]
      BY <1>7, <2>1
    <3>2. \/ \E j \in PlacesOf(L, c) : c[j].label = c[i].label /\ Together(c, i, j)
          \/ Here(c, i) /\ \E k \in Awaits(t) : Owed(t[k]) = c[i].label
      BY <1>9, <2>1 DEF JumpsLinked, L
    <3>3. CASE \E j \in PlacesOf(L, c) : c[j].label = c[i].label /\ Together(c, i, j)
      BY <1>5, <1>14, <3>1, <3>3
    <3>4. CASE Here(c, i) /\ \E k \in Awaits(t) : Owed(t[k]) = c[i].label
      <4>1. Here(cd, i)
        BY <1>13, <1>15, <3>1, <3>4
      <4> QED
        BY <1>2, <1>3, <3>1, <3>4, <4>1
    <3> QED
      BY <3>2, <3>3, <3>4
  <2>2. ASSUME NEW a \in PlacesOf(Jumps, d), i = m + a
        PROVE  \/ \E j \in PlacesOf(L, cd) : cd[j].label = cd[i].label /\ Together(cd, i, j)
               \/ /\ Here(cd, i)
                  /\ \E k \in Awaits(wt) : Owed(wt[k]) = cd[i].label
    <3>1. a \in 1 .. Len(d) /\ cd[i] = d[a]
      BY <1>7, <2>2
    <3>2. \/ \E j \in PlacesOf(L, d) : d[j].label = d[a].label /\ Together(d, a, j)
          \/ Here(d, a) /\ \E k \in Awaits(w) : Owed(w[k]) = d[a].label
      BY <1>9 DEF JumpsLinked, L
    <3>3. CASE \E j \in PlacesOf(L, d) : d[j].label = d[a].label /\ Together(d, a, j)
      <4>1. PICK j \in PlacesOf(L, d) : d[j].label = d[a].label /\ Together(d, a, j)
        BY <3>3
      <4>2. m + j \in PlacesOf(L, cd) /\ cd[m + j] = d[j] /\ j \in 1 .. Len(d)
        BY <1>5
      <4>3. Together(cd, m + a, m + j)
        BY <1>14, <3>1, <4>1, <4>2
      <4> QED
        BY <2>2, <3>1, <4>1, <4>2, <4>3
    <3>4. CASE Here(d, a) /\ \E k \in Awaits(w) : Owed(w[k]) = d[a].label
      <4>1. Here(cd, i)
        BY <1>13, <2>2, <3>1, <3>4
      <4> QED
        BY <1>2, <3>1, <3>4, <4>1
    <3> QED
      BY <3>2, <3>3, <3>4
  <2> QED
    BY <1>7, <2>1, <2>2
<1>17. ASSUME NEW label
       PROVE  /\ CanReach(c, t, label) /\ PlacesOf(F, d) = {} => CanReach(cd, wt, label)
              /\ CanReach(d, w, label) => CanReach(cd, wt, label)
  <2>1. ASSUME NEW j \in PlacesOf(L, c), c[j].label = label, Here(c, j), PlacesOf(F, d) = {}
        PROVE  CanReach(cd, wt, label)
    <3>1. j \in PlacesOf(L, cd) /\ cd[j] = c[j] /\ j \in 1 .. m
      BY <1>5
    <3>2. Here(cd, j)
      BY <1>13, <2>1, <3>1
    <3> QED
      BY <2>1, <3>1, <3>2 DEF CanReach, L
  <2>2. ASSUME NEW j \in PlacesOf(L, d), d[j].label = label, Here(d, j)
        PROVE  CanReach(cd, wt, label)
    <3>1. m + j \in PlacesOf(L, cd) /\ cd[m + j] = d[j] /\ j \in 1 .. Len(d)
      BY <1>5
    <3>2. Here(cd, m + j)
      BY <1>13, <2>2, <3>1
    <3> QED
      BY <2>2, <3>1, <3>2 DEF CanReach, L
  <2>3. (\E k \in Awaits(t) : Owed(t[k]) = label) => \E k \in Awaits(wt) : Owed(wt[k]) = label
    BY <1>2, <1>3
  <2>4. (\E k \in Awaits(w) : Owed(w[k]) = label) => \E k \in Awaits(wt) : Owed(wt[k]) = label
    BY <1>2
  <2> QED
    BY <2>1, <2>2, <2>3, <2>4 DEF CanReach, L
<1>18. LatersLinked(cd, wt)
  <2> SUFFICES ASSUME NEW k \in Awaits(wt)
               PROVE  /\ wt[k].node \in LaterMarks
                      /\ Len(wt[k].node.code) = 2 => CanReach(cd, wt, wt[k].node.code[1].label)
    BY DEF LatersLinked
  <2>1. CASE k \in Awaits(w)
    BY <1>2, <1>9, <1>17, <2>1 DEF LatersLinked
  <2>2. ASSUME NEW i \in Awaits(t), k = n + i
        PROVE  /\ wt[k].node \in LaterMarks
               /\ Len(wt[k].node.code) = 2 => CanReach(cd, wt, wt[k].node.code[1].label)
    BY <1>3, <1>9, <1>15, <1>17, <2>2 DEF LatersLinked
  <2> QED
    BY <1>2, <2>1, <2>2
<1>19. LatersFirst(wt)
  <2>1. CASE Awaits(t) = {} /\ Awaits(w) = {}
    BY <1>2, <2>1 DEF LatersFirst
  <2>2. CASE \A k \in 1 .. n : w[k].op \in {"statement", "write"}
    <3> SUFFICES ASSUME NEW k \in Awaits(wt), NEW j \in 1 .. k
                 PROVE  wt[j].op \in {"statement", "write"}
      BY DEF LatersFirst
    <3>1. CASE k \in Awaits(w)
      <4>1. j \in 1 .. n
        BY <1>2, <3>1
      <4> QED
        BY <1>2, <2>2, <4>1
    <3>2. ASSUME NEW i \in Awaits(t), k = n + i PROVE wt[j].op \in {"statement", "write"}
      <4>1. i \in 1 .. Len(t) /\ i \in Nat
        BY <1>2
      <4>2. CASE j \in 1 .. n
        BY <1>2, <2>2, <4>2
      <4>3. CASE ~(j \in 1 .. n)
        <5>1. j - n \in 1 .. i /\ n + (j - n) = j
          BY <1>2, <3>2, <4>1, <4>3
        <5>2. j - n \in 1 .. Len(t)
          BY <4>1, <5>1
        <5>3. t[j - n].op \in {"statement", "write"}
          BY <1>9, <5>1 DEF LatersFirst
        <5>4. wt[n + (j - n)] = t[j - n]
          BY <1>2, <5>2
        <5> QED
          BY <5>1, <5>3, <5>4
      <4> QED
        BY <4>2, <4>3
    <3> QED
      BY <1>2, <3>1, <3>2
  <2> QED
    BY <2>1, <2>2 DEF n
<1> QED
  BY <1>11, <1>12, <1>16, <1>18, <1>19 DEF Linked, cd, wt

(* The code, and what is still to be written of the function at hand, hold *)
(* together; in the end there is only the code.                            *)
LinkInv ==
  /\ phase \in {"BUILD", "ANALYZE"} => code = <<>>
  /\ phase = "GENERATE" /\ outcome = "running" => Linked(code, todo, Given(labelCounters))
  /\ phase = "DESTROY" => Linked(code, <<>>, Given(labelCounters))

-----------------------------------------------------------------------------
(* There is one such place, and this is there.                             *)
Sole(ops, instructions, i) == \E k : PlacesOf(ops, instructions) = {k} /\ instructions[k] = i

Both(ops, instructions, i, j) ==
  \E k, m : /\ k # m /\ PlacesOf(ops, instructions) = {k, m}
            /\ instructions[k] = i /\ instructions[m] = j

None(ops, instructions) == PlacesOf(ops, instructions) = {}

LEMMA Single ==
  ASSUME NEW ops, NEW i
  PROVE  /\ i.op \in ops => Sole(ops, <<i>>, i)
         /\ i.op \notin ops => None(ops, <<i>>)
<1>1. Len(<<i>>) = 1 /\ <<i>>[1] = i /\ 1 .. 1 = {1}
  OBVIOUS
<1> DEFINE list == <<i>>
<1> HIDE DEF list
<1>2. Len(list) = 1 /\ list[1] = i
  BY <1>1 DEF list
<1>3. PlacesOf(ops, list) = {k \in {1} : list[k].op \in ops}
  BY <1>1, <1>2 DEF PlacesOf
<1>4. i.op \in ops => PlacesOf(ops, list) = {1}
  BY <1>2, <1>3
<1>5. i.op \notin ops => PlacesOf(ops, list) = {}
  BY <1>2, <1>3
<1> QED
  BY <1>2, <1>4, <1>5 DEF Sole, None, list

LEMMA Nowhere ==
  ASSUME NEW ops, NEW others, ops \intersect others = {}, NEW instructions, Only(ops, instructions)
  PROVE  None(others, instructions)
BY DEF Only, None, PlacesOf

LEMMA JoinedSole ==
  ASSUME NEW C, NEW c \in Seq(C), NEW d \in Seq(C), NEW ops
  PROVE  /\ None(ops, c) /\ None(ops, d) => None(ops, c \o d)
         /\ \A i : None(ops, c) /\ Sole(ops, d, i) => Sole(ops, c \o d, i)
         /\ \A i : Sole(ops, c, i) /\ None(ops, d) => Sole(ops, c \o d, i)
         /\ \A i, j : Sole(ops, c, i) /\ Sole(ops, d, j) => Both(ops, c \o d, i, j)
<1> DEFINE n == Len(c)
           cd == c \o d
<1>1. /\ n \in Nat
      /\ PlacesOf(ops, c) \subseteq 1 .. n /\ PlacesOf(ops, d) \subseteq 1 .. Len(d)
      /\ \A i \in PlacesOf(ops, c) : i \in PlacesOf(ops, cd)
      /\ \A i \in 1 .. n : cd[i] = c[i]
      /\ \A i \in PlacesOf(ops, d) : n + i \in PlacesOf(ops, cd)
      /\ \A i \in 1 .. Len(d) : cd[n + i] = d[i]
      /\ \A k \in PlacesOf(ops, cd) :
           k \in PlacesOf(ops, c) \/ \E i \in PlacesOf(ops, d) : k = n + i
  BY JoinedPlaces
<1> HIDE DEF n, cd
<1>2. None(ops, c) /\ None(ops, d) => None(ops, cd)
  BY <1>1 DEF None
<1>3. ASSUME NEW i, None(ops, c), Sole(ops, d, i) PROVE Sole(ops, cd, i)
  <2>1. PICK k : PlacesOf(ops, d) = {k} /\ d[k] = i
    BY <1>3 DEF Sole
  <2>2. PlacesOf(ops, cd) = {n + k} /\ cd[n + k] = i
    BY <1>1, <1>3, <2>1 DEF None
  <2> QED
    BY <2>2 DEF Sole
<1>4. ASSUME NEW i, Sole(ops, c, i), None(ops, d) PROVE Sole(ops, cd, i)
  <2>1. PICK k : PlacesOf(ops, c) = {k} /\ c[k] = i
    BY <1>4 DEF Sole
  <2>2. PlacesOf(ops, cd) = {k} /\ cd[k] = i
    BY <1>1, <1>4, <2>1 DEF None
  <2> QED
    BY <2>2 DEF Sole
<1>5. ASSUME NEW i, NEW j, Sole(ops, c, i), Sole(ops, d, j)
      PROVE  Both(ops, cd, i, j)
  <2>1. PICK k : PlacesOf(ops, c) = {k} /\ c[k] = i
    BY <1>5 DEF Sole
  <2>2. PICK m : PlacesOf(ops, d) = {m} /\ d[m] = j
    BY <1>5 DEF Sole
  <2>3. k \in 1 .. n /\ m \in 1 .. Len(d)
    BY <1>1, <2>1, <2>2
  <2>4. k # n + m
    BY <1>1, <2>3
  <2>5. PlacesOf(ops, cd) = {k, n + m}
    BY <1>1, <2>1, <2>2
  <2>6. cd[k] = i /\ cd[n + m] = j
    BY <1>1, <2>1, <2>2, <2>3
  <2> QED
    BY <2>4, <2>5, <2>6 DEF Both
<1>6. \A i : None(ops, c) /\ Sole(ops, d, i) => Sole(ops, cd, i)
  BY <1>3
<1>7. \A i : Sole(ops, c, i) /\ None(ops, d) => Sole(ops, cd, i)
  BY <1>4
<1>8. \A i, j : Sole(ops, c, i) /\ Sole(ops, d, j) => Both(ops, cd, i, j)
  BY <1>5
<1> QED
  BY <1>2, <1>6, <1>7, <1>8 DEF cd

(* Visits to blocks, and what is written between them.                     *)
BlockVisits == {v \in WalkVisits : v.op \in {"statement", "write"}}

LEMMA LaterMarksAre ==
  \A a, b \in Labels : Written(<<Mark(b)>>) \in LaterMarks
                       /\ Written(<<Jump(a), Mark(b)>>) \in LaterMarks
BY DEF LaterMarks

(* An if: it is skipped by a jump over the first block, which ends in a    *)
(* jump over the second.                                                   *)
LEMMA IfLinked ==
  ASSUME NEW T \in Labels, NEW F \in Labels, NEW E \in Labels, T # F, T # E, F # E,
         NEW G, T \in G, F \in G, E \in G,
         NEW d, NEW mark, NEW jump, None({"function"}, d),
         Sole({"label"}, d, mark), mark.label = T, Sole(Jumps, d, jump), jump.label = F,
         NEW w \in Seq(BlockVisits),
         Both({"write"}, w, Later(Written(<<Jump(E), Mark(F)>>)), Later(Written(<<Mark(E)>>)))
  PROVE  Linked(d, w, G)
<1>1. PICK a : PlacesOf({"label"}, d) = {a} /\ d[a].label = T
  BY DEF Sole
<1>2. \A i \in PlacesOf(Jumps, d) : d[i].label = F
  BY DEF Sole
<1>3. /\ Len(<<Jump(E), Mark(F)>>) = 2 /\ <<Jump(E), Mark(F)>>[2].label = F
      /\ <<Jump(E), Mark(F)>>[1].label = E
      /\ Len(<<Mark(E)>>) = 1 /\ <<Mark(E)>>[1].label = E
  BY DEF Jump, Mark
<1> DEFINE over == Written(<<Jump(E), Mark(F)>>)
           last == Written(<<Mark(E)>>)
<1>a. over \in LaterMarks /\ last \in LaterMarks
  BY LaterMarksAre
<1>b. over.code = <<Jump(E), Mark(F)>> /\ last.code = <<Mark(E)>>
  BY DEF Written
<1> HIDE DEF over, last
<1>c. PICK k, m : k # m /\ Awaits(w) = {k, m} /\ w[k] = Later(over) /\ w[m] = Later(last)
  BY DEF Both, Awaits, over, last
<1>d. w[k].node = over /\ w[m].node = last
  BY <1>c DEF Later, Visit
<1>4. Owed(w[k]) = F /\ Owed(w[m]) = E /\ w[k].node.code[1].label = E /\ Len(w[m].node.code) # 2
  <2>1. Owed(w[k]) = F /\ w[k].node.code[1].label = E
    BY <1>3, <1>b, <1>d DEF Owed
  <2>2. Owed(w[m]) = E
    BY <1>3, <1>b, <1>d DEF Owed
  <2>3. Len(w[m].node.code) # 2
    BY <1>3, <1>b, <1>d
  <2> QED
    BY <2>1, <2>2, <2>3
<1>5. LabelsGiven(d, w, G)
  BY <1>1, <1>4, <1>c DEF LabelsGiven
<1>6. LabelsOnce(d, w)
  BY <1>1, <1>4, <1>c DEF LabelsOnce
<1>7. JumpsLinked(d, w)
  BY <1>2, <1>4, <1>c DEF JumpsLinked, Here, None
<1>8. LatersLinked(d, w)
  <2>1. w[k].node \in LaterMarks /\ w[m].node \in LaterMarks
    BY <1>a, <1>d
  <2>2. CanReach(d, w, w[k].node.code[1].label)
    BY <1>4, <1>c DEF CanReach
  <2>3. Len(w[m].node.code) # 2
    BY <1>4
  <2>4. \A i \in Awaits(w) : i = k \/ i = m
    BY <1>c
  <2> QED
    BY <2>1, <2>2, <2>3, <2>4 DEF LatersLinked
<1>9. LatersFirst(w)
  <2> SUFFICES ASSUME NEW i \in Awaits(w), NEW j \in 1 .. i PROVE w[j].op \in {"statement", "write"}
    BY DEF LatersFirst
  <2> DEFINE V == BlockVisits
  <2>1. i \in 1 .. Len(w)
    BY DEF Awaits, PlacesOf
  <2>2. w \in Seq(V)
    OBVIOUS
  <2> HIDE DEF V
  <2>3. w[j] \in V
    BY <2>1, <2>2
  <2> QED
    BY <2>3 DEF V, BlockVisits
<1> QED
  BY <1>5, <1>6, <1>7, <1>8, <1>9 DEF Linked

(* A while: it is left by a jump over its body, which ends in one back.    *)
LEMMA WhileLinked ==
  ASSUME NEW S \in Labels, NEW E \in Labels, S # E, NEW G, S \in G, E \in G,
         NEW d, NEW mark, NEW jump, None({"function"}, d),
         Sole({"label"}, d, mark), mark.label = S, Sole(Jumps, d, jump), jump.label = E,
         NEW w \in Seq(BlockVisits),
         Sole({"write"}, w, Later(Written(<<Jump(S), Mark(E)>>)))
  PROVE  Linked(d, w, G)
<1>1. PICK a : PlacesOf({"label"}, d) = {a} /\ d[a].label = S
  BY DEF Sole
<1>2. \A i \in PlacesOf(Jumps, d) : d[i].label = E
  BY DEF Sole
<1>3. /\ Len(<<Jump(S), Mark(E)>>) = 2 /\ <<Jump(S), Mark(E)>>[2].label = E
      /\ <<Jump(S), Mark(E)>>[1].label = S
  BY DEF Jump, Mark
<1> DEFINE back == Written(<<Jump(S), Mark(E)>>)
<1>a. back \in LaterMarks
  BY LaterMarksAre
<1>b. back.code = <<Jump(S), Mark(E)>>
  BY DEF Written
<1> HIDE DEF back
<1>c. PICK k : Awaits(w) = {k} /\ w[k] = Later(back)
  BY DEF Sole, Awaits, back
<1>d. w[k].node = back
  BY <1>c DEF Later, Visit
<1>4. Owed(w[k]) = E /\ w[k].node.code[1].label = S
  BY <1>3, <1>b, <1>d DEF Owed
<1>5. LabelsGiven(d, w, G)
  BY <1>1, <1>4, <1>c DEF LabelsGiven
<1>6. LabelsOnce(d, w)
  BY <1>1, <1>4, <1>c DEF LabelsOnce
<1>7. JumpsLinked(d, w)
  BY <1>2, <1>4, <1>c DEF JumpsLinked, Here, None
<1>8. LatersLinked(d, w)
  <2>1. w[k].node \in LaterMarks
    BY <1>a, <1>d
  <2>2. CanReach(d, w, w[k].node.code[1].label)
    BY <1>1, <1>4 DEF CanReach, Here, None
  <2> QED
    BY <1>c, <2>1, <2>2 DEF LatersLinked
<1>9. LatersFirst(w)
  <2> SUFFICES ASSUME NEW i \in Awaits(w), NEW j \in 1 .. i PROVE w[j].op \in {"statement", "write"}
    BY DEF LatersFirst
  <2> DEFINE V == BlockVisits
  <2>1. i \in 1 .. Len(w)
    BY DEF Awaits, PlacesOf
  <2>2. w \in Seq(V)
    OBVIOUS
  <2> HIDE DEF V
  <2>3. w[j] \in V
    BY <2>1, <2>2
  <2> QED
    BY <2>3 DEF V, BlockVisits
<1> QED
  BY <1>5, <1>6, <1>7, <1>8, <1>9 DEF Linked

LEMMA FollowedRuns ==
  ASSUME NEW a, NEW b, NEW c, c = Followed(a, b), c.fate = "running"
  PROVE  a.fate = "running" /\ c.code = a.code \o b.code
BY DEF Followed

InOrder(C, a, b, c, d, code_) ==
  /\ a \in Seq(C) /\ b \in Seq(C) /\ c \in Seq(C) /\ d \in Seq(C)
  /\ code_ = ((a \o b) \o c) \o d

LEMMA FourInOrder ==
  ASSUME NEW a, NEW b, NEW c, NEW d, IsWritten(a), IsWritten(b), IsWritten(c), IsWritten(d),
         All(<<a, b, c, d>>).fate = "running"
  PROVE  \E C : InOrder(C, a.code, b.code, c.code, d.code, All(<<a, b, c, d>>).code)
<1> DEFINE parts == <<a, b, c, d>>
<1>1. AreWritten(parts)
  BY FourWritten
<1>2. Len(parts) = 4 /\ parts[1] = a /\ parts[2] = b /\ parts[3] = c /\ parts[4] = d
  OBVIOUS
<1> HIDE DEF parts
<1>3. PICK C : \E g \in [0 .. Len(parts) -> Writings(C)] :
        /\ parts \in Seq(Writings(C))
        /\ g[0] = Written(<<>>)
        /\ \A i \in 1 .. Len(parts) : g[i] = Followed(g[i - 1], parts[i])
        /\ All(parts) = g[Len(parts)]
  BY <1>1, AllSteps
<1> DEFINE V == Writings(C)
<1>4. PICK g \in [0 .. Len(parts) -> V] :
        /\ parts \in Seq(V)
        /\ g[0] = Written(<<>>)
        /\ \A i \in 1 .. Len(parts) : g[i] = Followed(g[i - 1], parts[i])
        /\ All(parts) = g[Len(parts)]
  BY <1>3
<1> HIDE DEF V
<1>5. a \in V /\ b \in V /\ c \in V /\ d \in V
  <2>1. parts \in Seq(V)
    BY <1>4
  <2>2. \A i \in 1 .. Len(parts) : parts[i] \in V
    BY <2>1
  <2>3. 1 \in 1 .. 4 /\ 2 \in 1 .. 4 /\ 3 \in 1 .. 4 /\ 4 \in 1 .. 4
    OBVIOUS
  <2> QED
    BY <1>2, <2>2, <2>3
<1>6. a.code \in Seq(C) /\ b.code \in Seq(C) /\ c.code \in Seq(C) /\ d.code \in Seq(C)
  BY <1>5 DEF V, Writings
<1>7. /\ 1 \in 1 .. 4 /\ 2 \in 1 .. 4 /\ 3 \in 1 .. 4 /\ 4 \in 1 .. 4
      /\ 1 - 1 = 0 /\ 2 - 1 = 1 /\ 3 - 1 = 2 /\ 4 - 1 = 3
  OBVIOUS
<1>8. /\ g[1] = Followed(g[0], a) /\ g[2] = Followed(g[1], b)
      /\ g[3] = Followed(g[2], c) /\ g[4] = Followed(g[3], d)
  BY <1>2, <1>4, <1>7
<1>9. g[4].fate = "running"
  BY <1>2, <1>4 DEF parts
<1>10. g[3].fate = "running" /\ g[4].code = g[3].code \o d.code
  BY <1>8, <1>9, FollowedRuns
<1>11. g[2].fate = "running" /\ g[3].code = g[2].code \o c.code
  BY <1>8, <1>10, FollowedRuns
<1>12. g[1].fate = "running" /\ g[2].code = g[1].code \o b.code
  BY <1>8, <1>11, FollowedRuns
<1>13. g[1].code = <<>> \o a.code
  <2>1. g[0].fate = "running" /\ g[0].code = <<>>
    BY <1>4 DEF Written
  <2>2. Followed(g[0], a).code = g[0].code \o a.code
    BY <2>1 DEF Followed
  <2> QED
    BY <1>8, <2>1, <2>2
<1>14. g[1].code = a.code
  BY <1>6, <1>13, ConcatEmptySeq
<1>15. All(parts).code = ((a.code \o b.code) \o c.code) \o d.code
  BY <1>2, <1>4, <1>10, <1>11, <1>12, <1>14
<1> QED
  BY <1>6, <1>15 DEF parts, InOrder

(* The code before the first block.                                        *)
LEMMA TestPlaces ==
  ASSUME NEW w, IsOnly(PlainOps, w), NEW T, NEW F, NEW d,
         \/ d = All(<<w, write_arithmetic("not"), write_if(F), write_label(T)>>)
         \/ d = All(<<write_label(T), w, write_arithmetic("not"), write_if(F)>>),
         d.fate = "running"
  PROVE  /\ None({"function"}, d.code)
         /\ Sole({"label"}, d.code, Mark(T))
         /\ Sole(Jumps, d.code, [op |-> "if-goto", label |-> F])
<1> DEFINE not == write_arithmetic("not")
           if == write_if(F)
           label == write_label(T)
           x == [op |-> "arithmetic", command |-> "not"]
           j == [op |-> "if-goto", label |-> F]
           l == Mark(T)
           p == w.code
<1>1. IsWritten(w) /\ IsWritten(not) /\ IsWritten(if) /\ IsWritten(label)
  BY InstructionsWritten DEF IsOnly
<1>2. not.code = <<x>> /\ if.code = <<j>> /\ label.code = <<l>>
  BY DEF write_arithmetic, write_if, write_label, Written, Mark
<1>3. x.op = "arithmetic" /\ j.op = "if-goto" /\ l.op = "label"
  BY DEF Mark

<1>4. /\ None({"function"}, p) /\ None({"function"}, <<x>>) /\ None({"function"}, <<j>>)
      /\ None({"function"}, <<l>>)
  <2>1. None({"function"}, p)
    <3>1. PlainOps \intersect {"function"} = {}
      BY DEF PlainOps
    <3> QED
      BY <3>1, Nowhere DEF IsOnly
  <2>2. None({"function"}, <<x>>) /\ None({"function"}, <<j>>) /\ None({"function"}, <<l>>)
    BY <1>3, Single
  <2> QED
    BY <2>1, <2>2
<1>5. /\ None({"label"}, p) /\ None({"label"}, <<x>>) /\ None({"label"}, <<j>>)
      /\ Sole({"label"}, <<l>>, l)
  <2>1. None({"label"}, p)
    <3>1. PlainOps \intersect {"label"} = {}
      BY DEF PlainOps
    <3> QED
      BY <3>1, Nowhere DEF IsOnly
  <2>2. None({"label"}, <<x>>) /\ None({"label"}, <<j>>) /\ Sole({"label"}, <<l>>, l)
    BY <1>3, Single
  <2> QED
    BY <2>1, <2>2
<1>6. /\ None(Jumps, p) /\ None(Jumps, <<x>>) /\ Sole(Jumps, <<j>>, j) /\ None(Jumps, <<l>>)
  <2>1. None(Jumps, p)
    <3>1. PlainOps \intersect Jumps = {}
      BY DEF PlainOps, Jumps
    <3> QED
      BY <3>1, Nowhere DEF IsOnly
  <2>2. x.op \notin Jumps /\ j.op \in Jumps /\ l.op \notin Jumps
    BY <1>3 DEF Jumps
  <2>3. None(Jumps, <<x>>) /\ Sole(Jumps, <<j>>, j) /\ None(Jumps, <<l>>)
    BY <2>2, Single
  <2> QED
    BY <2>1, <2>3
<1> HIDE DEF not, if, label, x, j, l, p
<1>7. CASE d = All(<<w, not, if, label>>)
  <2>1. PICK C : InOrder(C, w.code, not.code, if.code, label.code, d.code)
    BY <1>1, <1>7, FourInOrder
  <2>2. /\ p \in Seq(C) /\ <<x>> \in Seq(C) /\ <<j>> \in Seq(C) /\ <<l>> \in Seq(C)
        /\ d.code = ((p \o <<x>>) \o <<j>>) \o <<l>>
    BY <1>2, <2>1 DEF p, InOrder
  <2> DEFINE xs == <<x>>
             js == <<j>>
             ls == <<l>>
  <2> HIDE DEF xs, js, ls
  <2>3. /\ p \in Seq(C) /\ xs \in Seq(C) /\ js \in Seq(C) /\ ls \in Seq(C)
        /\ d.code = ((p \o xs) \o js) \o ls
    BY <2>2 DEF xs, js, ls
  <2>4. p \o xs \in Seq(C) /\ (p \o xs) \o js \in Seq(C)
    BY <2>3, ConcatProperties
  <2>5. None({"function"}, d.code)
    BY <1>4, <2>3, <2>4, JoinedSole DEF xs, js, ls
  <2>6. Sole({"label"}, d.code, l)
    BY <1>5, <2>3, <2>4, JoinedSole DEF xs, js, ls
  <2>7. Sole(Jumps, d.code, j)
    <3>1. None(Jumps, p \o xs)
      BY <1>6, <2>3, JoinedSole DEF xs
    <3>2. Sole(Jumps, (p \o xs) \o js, j)
      BY <1>6, <2>3, <2>4, <3>1, JoinedSole DEF js
    <3> QED
      BY <1>6, <2>3, <2>4, <3>2, JoinedSole DEF ls
  <2> QED
    BY <2>5, <2>6, <2>7 DEF j, l
<1>8. CASE d = All(<<label, w, not, if>>)
  <2>1. PICK C : InOrder(C, label.code, w.code, not.code, if.code, d.code)
    BY <1>1, <1>8, FourInOrder
  <2>2. /\ p \in Seq(C) /\ <<x>> \in Seq(C) /\ <<j>> \in Seq(C) /\ <<l>> \in Seq(C)
        /\ d.code = ((<<l>> \o p) \o <<x>>) \o <<j>>
    BY <1>2, <2>1 DEF p, InOrder
  <2> DEFINE xs == <<x>>
             js == <<j>>
             ls == <<l>>
  <2> HIDE DEF xs, js, ls
  <2>3. /\ p \in Seq(C) /\ xs \in Seq(C) /\ js \in Seq(C) /\ ls \in Seq(C)
        /\ d.code = ((ls \o p) \o xs) \o js
    BY <2>2 DEF xs, js, ls
  <2>4. ls \o p \in Seq(C) /\ (ls \o p) \o xs \in Seq(C)
    BY <2>3, ConcatProperties
  <2>5. None({"function"}, d.code)
    BY <1>4, <2>3, <2>4, JoinedSole DEF xs, js, ls
  <2>6. Sole({"label"}, d.code, l)
    <3>1. Sole({"label"}, ls \o p, l)
      BY <1>5, <2>3, JoinedSole DEF ls
    <3>2. Sole({"label"}, (ls \o p) \o xs, l)
      BY <1>5, <2>3, <2>4, <3>1, JoinedSole DEF xs
    <3> QED
      BY <1>5, <2>3, <2>4, <3>2, JoinedSole DEF js
  <2>7. Sole(Jumps, d.code, j)
    <3>1. None(Jumps, ls \o p)
      BY <1>6, <2>3, JoinedSole DEF ls
    <3>2. None(Jumps, (ls \o p) \o xs)
      BY <1>6, <2>3, <2>4, <3>1, JoinedSole DEF xs
    <3> QED
      BY <1>6, <2>3, <2>4, <3>2, JoinedSole DEF js
  <2> QED
    BY <2>5, <2>6, <2>7 DEF j, l
<1> QED
  BY <1>7, <1>8 DEF not, if, label

LEMMA HereTogether ==
  ASSUME NEW s, NEW i, NEW j, Here(s, i), Here(s, j)
  PROVE  Together(s, i, j)
<1>1. \A k \in 1 .. Len(s) : s[k].op = "function" => k \in PlacesOf({"function"}, s)
  BY DEF PlacesOf
<1> QED
  BY <1>1 DEF Here, Together

(* What was to be written after a block, is written.                       *)
LEMMA LaterLinked ==
  ASSUME NEW C, NEW c \in Seq(C), NEW v \in Seq(WalkVisits), v # <<>>, NEW g, Linked(c, v, g),
         Head(v).op = "write", NEW q \in Seq(C), q = Head(v).node.code
  PROVE  Linked(c \o q, Tail(v), g)
<1> DEFINE t == Tail(v)
           cd == c \o q
           n == Len(c)
           L == {"label"}
           F == {"function"}
<1>1. /\ \A k \in Awaits(t) : k + 1 \in Awaits(v) /\ v[k + 1] = t[k] /\ k \in Nat
      /\ \A k \in Awaits(v) : k \in Nat /\ (k # 1 => k - 1 \in Awaits(t) /\ t[k - 1] = v[k])
      /\ 1 \in 1 .. Len(v) /\ v[1] = Head(v)
  BY TailPlaces
<1>2. LatersFirst(t)
  BY RestFirst DEF Linked
<1>3. 1 \in Awaits(v)
  BY <1>1 DEF Awaits, PlacesOf
<1>4. /\ LabelsGiven(c, v, g) /\ LabelsOnce(c, v) /\ JumpsLinked(c, v) /\ LatersLinked(c, v)
  BY DEF Linked
<1>5. /\ v[1].node \in LaterMarks
      /\ Len(q) = 2 => CanReach(c, v, q[1].label)
  BY <1>1, <1>3, <1>4 DEF LatersLinked
<1> DEFINE b == Owed(v[1])
<1>6. /\ None(F, q) /\ \E k : PlacesOf(L, q) = {k} /\ q[k].label = b
      /\ \A i \in PlacesOf(Jumps, q) : CanReach(c, v, q[i].label)
  <2>1. CASE \E z \in Labels : v[1].node = Written(<<Mark(z)>>)
    <3>1. PICK z \in Labels : v[1].node = Written(<<Mark(z)>>)
      BY <2>1
    <3>2. q = <<Mark(z)>>
      BY <1>1, <3>1 DEF Written
    <3>3. Len(q) = 1 /\ q[1] = Mark(z)
      BY <3>2
    <3>4. Mark(z).op = "label" /\ Mark(z).label = z
      BY DEF Mark
    <3>5. b = z
      BY <1>1, <3>3, <3>4 DEF Owed
    <3>6. None(F, q) /\ Sole(L, q, Mark(z)) /\ None(Jumps, q)
      BY <3>2, <3>4, Single DEF Jumps
    <3> QED
      BY <3>4, <3>5, <3>6 DEF Sole, None
  <2>2. CASE \E y, z \in Labels : v[1].node = Written(<<Jump(y), Mark(z)>>)
    <3>1. PICK y \in Labels, z \in Labels : v[1].node = Written(<<Jump(y), Mark(z)>>)
      BY <2>2
    <3>2. q = <<Jump(y), Mark(z)>>
      BY <1>1, <3>1 DEF Written
    <3>3. Len(q) = 2 /\ q[1] = Jump(y) /\ q[2] = Mark(z) /\ 1 .. 2 = {1, 2}
      <4>1. \A i, j : Len(<<i, j>>) = 2 /\ <<i, j>>[1] = i /\ <<i, j>>[2] = j
        OBVIOUS
      <4>2. 1 .. 2 = {1, 2}
        OBVIOUS
      <4> QED
        BY <3>2, <4>1, <4>2
    <3>4. Mark(z).op = "label" /\ Mark(z).label = z /\ Jump(y).op = "goto" /\ Jump(y).label = y
      BY DEF Mark, Jump
    <3>5. b = z
      BY <1>1, <3>3, <3>4 DEF Owed
    <3>6. \A ops : \A i \in PlacesOf(ops, q) : (i = 1 \/ i = 2) /\ q[i].op \in ops
      BY <3>3 DEF PlacesOf
    <3>7. None(F, q) /\ \A i \in PlacesOf(Jumps, q) : i = 1
      BY <3>3, <3>4, <3>6 DEF None, Jumps
    <3>8. PlacesOf(L, q) = {2}
      BY <3>3, <3>4, <3>6 DEF PlacesOf
    <3>9. q[2].label = b /\ CanReach(c, v, q[1].label)
      BY <1>5, <3>3, <3>4, <3>5
    <3> QED
      BY <3>7, <3>8, <3>9
  <2> QED
    BY <1>5, <2>1, <2>2 DEF LaterMarks
<1> HIDE DEF b
<1>7. PICK e : PlacesOf(L, q) = {e} /\ q[e].label = b
  BY <1>6
<1>8. /\ n \in Nat
      /\ PlacesOf(L, c) \subseteq 1 .. n /\ PlacesOf(L, q) \subseteq 1 .. Len(q)
      /\ \A i \in PlacesOf(L, c) : i \in PlacesOf(L, cd)
      /\ \A i \in 1 .. n : cd[i] = c[i]
      /\ \A i \in PlacesOf(L, q) : n + i \in PlacesOf(L, cd)
      /\ \A i \in 1 .. Len(q) : cd[n + i] = q[i]
      /\ \A k \in PlacesOf(L, cd) :
           k \in PlacesOf(L, c) \/ \E i \in PlacesOf(L, q) : k = n + i
  BY JoinedPlaces
<1>9. /\ PlacesOf(F, c) \subseteq 1 .. n
      /\ \A k \in PlacesOf(F, cd) :
           k \in PlacesOf(F, c) \/ \E i \in PlacesOf(F, q) : k = n + i
  BY JoinedPlaces
<1>10. /\ PlacesOf(Jumps, c) \subseteq 1 .. n /\ PlacesOf(Jumps, q) \subseteq 1 .. Len(q)
       /\ \A k \in PlacesOf(Jumps, cd) :
            k \in PlacesOf(Jumps, c) \/ \E i \in PlacesOf(Jumps, q) : k = n + i
  BY JoinedPlaces
<1> HIDE DEF t, cd, n
<1>11. \A k \in PlacesOf(F, cd) : k \in PlacesOf(F, c)
  BY <1>6, <1>9 DEF None
<1> HIDE DEF F, L
<1>12. e \in 1 .. Len(q) /\ n + e \in PlacesOf(L, cd) /\ cd[n + e].label = b
  BY <1>7, <1>8
<1>13. /\ \A i : Here(c, i) => Here(cd, i)
       /\ \A i \in 1 .. Len(q) : Here(cd, n + i)
  <2>1. \A i : Here(c, i) => Here(cd, i)
    BY <1>11 DEF Here, F
  <2>2. ASSUME NEW i \in 1 .. Len(q), NEW k \in PlacesOf(F, cd) PROVE k < n + i
    <3>1. k \in 1 .. n
      BY <1>9, <1>11
    <3> QED
      BY <1>8, <3>1
  <2> QED
    BY <2>1, <2>2 DEF Here, F
<1>14. \A i, j : Together(c, i, j) => Together(cd, i, j)
  <2>1. \A s, i, j : Together(s, i, j) <=> \A k \in PlacesOf(F, s) : k < i <=> k < j
    BY DEF Together, PlacesOf, F
  <2> QED
    BY <1>11, <2>1
<1>15. ASSUME NEW label, CanReach(c, v, label) PROVE CanReach(cd, t, label)
  <2>1. ASSUME NEW j \in PlacesOf(L, c), c[j].label = label, Here(c, j)
        PROVE  CanReach(cd, t, label)
    <3>1. j \in PlacesOf(L, cd) /\ cd[j].label = label /\ Here(cd, j)
      BY <1>8, <1>13, <2>1
    <3> QED
      BY <3>1 DEF CanReach, L
  <2>2. ASSUME NEW k \in Awaits(v), Owed(v[k]) = label PROVE CanReach(cd, t, label)
    <3>1. CASE k = 1
      <4>1. n + e \in PlacesOf(L, cd) /\ cd[n + e].label = label /\ Here(cd, n + e)
        BY <1>12, <1>13, <2>2, <3>1 DEF b
      <4> QED
        BY <4>1 DEF CanReach, L
    <3>2. CASE k # 1
      BY <1>1, <2>2, <3>2 DEF CanReach
    <3> QED
      BY <3>1, <3>2
  <2> QED
    BY <1>15, <2>1, <2>2 DEF CanReach, L
<1>16. LabelsGiven(cd, t, g)
  <2>1. b \in g /\ \A i \in PlacesOf(L, c) : c[i].label \in g
    BY <1>3, <1>4 DEF LabelsGiven, b, L
  <2>2. \A i \in PlacesOf(L, cd) : cd[i].label \in g
    BY <1>7, <1>8, <1>12, <2>1
  <2>3. \A k \in Awaits(t) : Owed(t[k]) \in g
    BY <1>1, <1>4 DEF LabelsGiven
  <2> QED
    BY <2>2, <2>3 DEF LabelsGiven, L
<1>17. LabelsOnce(cd, t)
  <2>1. /\ \A i, j \in PlacesOf(L, c) : c[i].label = c[j].label => i = j
        /\ \A k, m \in Awaits(v) : Owed(v[k]) = Owed(v[m]) => k = m
        /\ \A i \in PlacesOf(L, c), k \in Awaits(v) : c[i].label # Owed(v[k])
    BY <1>4 DEF LabelsOnce, L
  <2>2. \A i \in PlacesOf(L, cd) : \/ i \in PlacesOf(L, c) /\ cd[i].label = c[i].label
                                   \/ i = n + e /\ cd[i].label = b
    BY <1>7, <1>8, <1>12
  <2>3. \A i \in PlacesOf(L, c) : c[i].label # b
    BY <1>3, <2>1 DEF b
  <2>4. \A i, j \in PlacesOf(L, cd) : cd[i].label = cd[j].label => i = j
    BY <2>1, <2>2, <2>3
  <2>5. \A k \in Awaits(t) : k + 1 # 1 /\ Owed(t[k]) # b
    <3> SUFFICES ASSUME NEW k \in Awaits(t) PROVE k + 1 # 1 /\ Owed(t[k]) # b
      OBVIOUS
    <3>1. k + 1 # 1
      <4>1. k \in 1 .. Len(t)
        BY DEF Awaits, PlacesOf
      <4> QED
        BY <4>1
    <3>2. k + 1 \in Awaits(v) /\ t[k] = v[k + 1]
      BY <1>1
    <3> QED
      BY <1>3, <2>1, <3>1, <3>2 DEF b
  <2>6. ASSUME NEW k \in Awaits(t), NEW m \in Awaits(t), Owed(t[k]) = Owed(t[m]) PROVE k = m
    <3>1. k + 1 = m + 1
      BY <1>1, <2>1, <2>6
    <3> QED
      BY <1>1, <3>1
  <2>7. ASSUME NEW i \in PlacesOf(L, cd), NEW k \in Awaits(t) PROVE cd[i].label # Owed(t[k])
    <3>1. k + 1 \in Awaits(v) /\ t[k] = v[k + 1]
      BY <1>1
    <3> QED
      BY <2>1, <2>2, <2>5, <3>1
  <2> QED
    BY <2>4, <2>6, <2>7 DEF LabelsOnce, L
<1>18. JumpsLinked(cd, t)
  <2> SUFFICES ASSUME NEW i \in PlacesOf(Jumps, cd)
               PROVE  \/ \E j \in PlacesOf(L, cd) : cd[j].label = cd[i].label /\ Together(cd, i, j)
                      \/ /\ Here(cd, i)
                         /\ \E k \in Awaits(t) : Owed(t[k]) = cd[i].label
    BY DEF JumpsLinked, L
  <2>1. ASSUME Here(cd, i), CanReach(cd, t, cd[i].label)
        PROVE  \/ \E j \in PlacesOf(L, cd) : cd[j].label = cd[i].label /\ Together(cd, i, j)
               \/ /\ Here(cd, i)
                  /\ \E k \in Awaits(t) : Owed(t[k]) = cd[i].label
    BY <2>1, HereTogether DEF CanReach, L
  <2>2. CASE i \in PlacesOf(Jumps, c)
    <3>1. cd[i] = c[i]
      BY <1>8, <1>10, <2>2
    <3>2. \/ \E j \in PlacesOf(L, c) : c[j].label = c[i].label /\ Together(c, i, j)
          \/ Here(c, i) /\ \E k \in Awaits(v) : Owed(v[k]) = c[i].label
      BY <1>4, <2>2 DEF JumpsLinked, L
    <3>3. CASE \E j \in PlacesOf(L, c) : c[j].label = c[i].label /\ Together(c, i, j)
      <4>1. PICK j \in PlacesOf(L, c) : c[j].label = c[i].label /\ Together(c, i, j)
        BY <3>3
      <4>2. j \in PlacesOf(L, cd) /\ cd[j] = c[j]
        BY <1>8
      <4> QED
        BY <1>14, <3>1, <4>1, <4>2
    <3>4. CASE Here(c, i) /\ \E k \in Awaits(v) : Owed(v[k]) = c[i].label
      <4>1. CanReach(c, v, c[i].label)
        BY <3>4 DEF CanReach
      <4>2. Here(cd, i) /\ CanReach(cd, t, cd[i].label)
        BY <1>13, <1>15, <3>1, <3>4, <4>1
      <4> QED
        BY <2>1, <4>2
    <3> QED
      BY <3>2, <3>3, <3>4
  <2>3. ASSUME NEW a \in PlacesOf(Jumps, q), i = n + a
        PROVE  Here(cd, i) /\ CanReach(cd, t, cd[i].label)
    <3>1. a \in 1 .. Len(q) /\ cd[i] = q[a]
      BY <1>8, <1>10, <2>3
    <3> QED
      BY <1>6, <1>13, <1>15, <2>3, <3>1
  <2> QED
    BY <1>10, <2>1, <2>2, <2>3
<1>19. LatersLinked(cd, t)
  <2> SUFFICES ASSUME NEW k \in Awaits(t)
               PROVE  /\ t[k].node \in LaterMarks
                      /\ Len(t[k].node.code) = 2 => CanReach(cd, t, t[k].node.code[1].label)
    BY DEF LatersLinked
  <2>1. k + 1 \in Awaits(v) /\ t[k] = v[k + 1]
    BY <1>1
  <2> QED
    BY <1>4, <1>15, <2>1 DEF LatersLinked
<1> QED
  BY <1>2, <1>16, <1>17, <1>18, <1>19 DEF Linked, t, cd

(* Code without labels and jumps.                                          *)
LEMMA StraightLinked ==
  ASSUME NEW d, None({"label"}, d), None(Jumps, d), NEW w, Awaits(w) = {}, NEW g
  PROVE  Linked(d, w, g)
<1>1. LabelsGiven(d, w, g) /\ LabelsOnce(d, w)
  BY DEF LabelsGiven, LabelsOnce, None
<1>2. JumpsLinked(d, w) /\ LatersLinked(d, w) /\ LatersFirst(w)
  BY DEF JumpsLinked, LatersLinked, LatersFirst, None
<1> QED
  BY <1>1, <1>2 DEF Linked

LEMMA OnlyLinked ==
  ASSUME NEW d, Only(PlainOps \union {"function"}, d), NEW w, Awaits(w) = {}, NEW g
  PROVE  Linked(d, w, g)
<1>1. /\ (PlainOps \union {"function"}) \intersect {"label"} = {}
      /\ (PlainOps \union {"function"}) \intersect Jumps = {}
  BY DEF PlainOps, Jumps
<1>2. None({"label"}, d) /\ None(Jumps, d)
  BY <1>1, Nowhere
<1> QED
  BY <1>2, StraightLinked

LEMMA NothingAwaited ==
  /\ Awaits(<<>>) = {}
  /\ \A op, nodes : op # "write" => Awaits(Visits(op, nodes)) = {}
  /\ \A op, nodes : op # "write" /\ Visits(op, nodes) \in Seq(WalkVisits)
                      => Awaits(Visits(op, nodes) \o <<Leave>>) = {}
<1>1. Awaits(<<>>) = {}
  BY DEF Awaits, PlacesOf
<1>2. ASSUME NEW op, NEW nodes, op # "write" PROVE Awaits(Visits(op, nodes)) = {}
  <2> DEFINE visits == Visits(op, nodes)
  <2>1. \A i \in 1 .. Len(nodes) : visits[i].op = op
    BY DEF Visits, Visit
  <2>2. \A i \in 1 .. Len(visits) : i \in 1 .. Len(nodes)
    <3>1. visits = [i \in 1 .. Len(nodes) |-> visits[i]]
      BY DEF Visits
    <3>2. DOMAIN visits = 1 .. Len(nodes)
      BY <3>1
    <3> QED
      BY <3>2 DEF Visits
  <2> HIDE DEF visits
  <2>3. Awaits(visits) = {}
    BY <1>2, <2>1, <2>2 DEF Awaits, PlacesOf
  <2> QED
    BY <2>3 DEF visits
<1>3. ASSUME NEW op, NEW nodes, op # "write", Visits(op, nodes) \in Seq(WalkVisits)
      PROVE  Awaits(Visits(op, nodes) \o <<Leave>>) = {}
  <2> DEFINE visits == Visits(op, nodes)
             last == <<Leave>>
             V == WalkVisits
  <2>1. None({"write"}, visits)
    BY <1>2, <1>3 DEF None, Awaits
  <2>2. None({"write"}, last)
    <3>1. Leave.op = "leave"
      BY DEF Leave, Visit
    <3> QED
      BY <3>1, Single
  <2>3. visits \in Seq(V) /\ last \in Seq(V)
    BY <1>3, LeaveVisit
  <2> HIDE DEF visits, last, V
  <2>4. None({"write"}, visits \o last)
    BY <2>1, <2>2, <2>3, JoinedSole
  <2> QED
    BY <2>4 DEF None, Awaits, visits, last
<1> QED
  BY <1>1, <1>2, <1>3

(* The numbers that a statement is given are new ones.                     *)
LEMMA FreshLabels ==
  ASSUME labelCounters \in [LabelPrefixes -> Nat],
         NEW prefixes \in SUBSET LabelPrefixes, Labelled(prefixes)
  PROVE  /\ Given(labelCounters) \subseteq Given(labelCounters')
         /\ \A p \in prefixes : generate_unique_label(p) \in Labels
         /\ \A p \in prefixes : generate_unique_label(p) \in Given(labelCounters') \ Given(labelCounters)
         /\ \A p, q \in prefixes : p # q => generate_unique_label(p) # generate_unique_label(q)
<1>1. \A p \in LabelPrefixes :
        /\ labelCounters[p] \in Nat /\ labelCounters'[p] \in Nat
        /\ labelCounters'[p] >= labelCounters[p]
        /\ p \in prefixes => labelCounters'[p] > labelCounters[p]
  BY DEF Labelled
<1>2. \A l \in Labels : l.prefix \in LabelPrefixes /\ l.number \in Nat
  BY DEF Labels
<1>3. ASSUME NEW l \in Given(labelCounters) PROVE l \in Given(labelCounters')
  <2>1. l \in Labels /\ l.number < labelCounters[l.prefix]
    BY DEF Given
  <2>2. l.number < labelCounters'[l.prefix]
    BY <1>1, <1>2, <2>1
  <2> QED
    BY <2>1, <2>2 DEF Given
<1>4. ASSUME NEW p \in prefixes
      PROVE  /\ generate_unique_label(p) \in Labels
             /\ generate_unique_label(p) \in Given(labelCounters') \ Given(labelCounters)
  <2> DEFINE l == generate_unique_label(p)
  <2>1. l.prefix = p /\ l.number = labelCounters[p] /\ p \in LabelPrefixes
    BY DEF generate_unique_label
  <2>2. l \in Labels
    BY <1>1, <2>1 DEF Labels, generate_unique_label
  <2> HIDE DEF l
  <2>3. l \in Given(labelCounters')
    BY <1>1, <2>1, <2>2 DEF Given
  <2>4. l \notin Given(labelCounters)
    <3>1. ~(labelCounters[p] < labelCounters[p])
      BY <1>1, <2>1
    <3> QED
      BY <2>1, <3>1 DEF Given
  <2> QED
    BY <2>2, <2>3, <2>4 DEF l
<1>5. \A p, q : p # q => generate_unique_label(p) # generate_unique_label(q)
  <2>1. \A p : generate_unique_label(p).prefix = p
    BY DEF generate_unique_label
  <2> QED
    BY <2>1
<1> QED
  BY <1>3, <1>4, <1>5

-----------------------------------------------------------------------------
(* A visit writes, and has more visits made in its place.                  *)
LEMMA WritesLinked ==
  ASSUME FreeInv, BalanceInv, LinkInv, phase = "GENERATE", outcome = "running",
         todo # <<>>, Head(todo).op # "write",
         NEW D, NEW d \in Seq(D), NEW visits \in Seq(WalkVisits),
         code' = code \o d, todo' = visits \o Tail(todo),
         Given(labelCounters) \subseteq Given(labelCounters'),
         Linked(d, visits, Given(labelCounters') \ Given(labelCounters)),
         \/ None({"function"}, d) /\ visits \in Seq(BlockVisits)
         \/ Head(todo).op # "statement" /\ Awaits(visits) = {}
  PROVE  Linked(code', todo', Given(labelCounters'))
<1> DEFINE g == Given(labelCounters)
           h == Given(labelCounters')
           t == Tail(todo)
<1>1. todo \in Seq(WalkVisits)
  BY DEF FreeInv, WalkInv
<1>2. t \in Seq(WalkVisits)
  BY <1>1, NodeTyped
<1>3. Linked(code, todo, g)
  BY DEF LinkInv
<1>4. Linked(code, t, g) /\ (Head(todo).op # "statement" => Awaits(t) = {})
  BY <1>1, <1>3, RestLinked
<1>5. PICK B : code \in Seq(B)
  BY DEF BalanceInv, Leads, AreInstructions
<1> DEFINE C == B \union D
<1>6. code \in Seq(C) /\ d \in Seq(C)
  <2>1. B \subseteq C /\ D \subseteq C
    OBVIOUS
  <2> HIDE DEF C
  <2> QED
    BY <1>5, <2>1, SeqMonotonic
<1>7. \/ /\ PlacesOf({"function"}, d) = {}
         /\ \A k \in 1 .. Len(visits) : visits[k].op \in {"statement", "write"}
      \/ Awaits(t) = {} /\ Awaits(visits) = {}
  <2>1. visits \in Seq(BlockVisits) => \A k \in 1 .. Len(visits) : visits[k].op \in {"statement", "write"}
    <3> SUFFICES ASSUME visits \in Seq(BlockVisits), NEW k \in 1 .. Len(visits)
                 PROVE  visits[k].op \in {"statement", "write"}
      OBVIOUS
    <3> HIDE DEF WalkVisits
    <3>1. visits[k] \in BlockVisits
      <4> HIDE DEF BlockVisits
      <4> QED
        OBVIOUS
    <3> QED
      BY <3>1 DEF BlockVisits
  <2> QED
    BY <1>4, <2>1 DEF None
<1> HIDE DEF g, h, t, C
<1>8. Linked(code \o d, visits \o t, h)
  <2>1. g \subseteq h /\ Linked(d, visits, h \ g)
    BY DEF g, h
  <2> QED
    BY <1>2, <1>4, <1>6, <1>7, <2>1, LinkedOn
<1> QED
  BY <1>8 DEF h, t

(* Code of statements, or nothing.                                         *)
LEMMA PlainOn ==
  ASSUME FreeInv, BalanceInv, LinkInv, phase = "GENERATE", outcome = "running",
         todo # <<>>, Head(todo).op # "write", labelCounters' = labelCounters,
         NEW w, IsOnly(PlainOps, w), code' = code \o w.code, todo' = <<>> \o Tail(todo)
  PROVE  Linked(code', todo', Given(labelCounters'))
<1>1. PICK D : w.code \in Seq(D)
  BY DEF IsOnly, IsWritten, Writings
<1>2. None({"function"}, w.code)
  <2>1. PlainOps \intersect {"function"} = {}
    BY DEF PlainOps
  <2> QED
    BY <2>1, Nowhere DEF IsOnly
<1>3. <<>> \in Seq(WalkVisits) /\ <<>> \in Seq(BlockVisits) /\ Awaits(<<>>) = {}
  BY NothingAwaited, NothingSound
<1>4. Only(PlainOps \union {"function"}, w.code)
  BY DEF IsOnly, Only
<1>5. Linked(w.code, <<>>, Given(labelCounters') \ Given(labelCounters))
  BY <1>3, <1>4, OnlyLinked
<1>6. Given(labelCounters) \subseteq Given(labelCounters')
  OBVIOUS
<1> HIDE DEF WalkVisits, BlockVisits
<1> QED
  BY <1>1, <1>2, <1>3, <1>5, <1>6, WritesLinked

LEMMA NothingOn ==
  ASSUME FreeInv, BalanceInv, LinkInv, phase = "GENERATE", outcome = "running",
         todo # <<>>, Head(todo).op \notin {"write", "statement"}, labelCounters' = labelCounters,
         code' = code, NEW visits \in Seq(WalkVisits), Awaits(visits) = {},
         todo' = visits \o Tail(todo)
  PROVE  Linked(code', todo', Given(labelCounters'))
<1>1. code' = code \o <<>>
  <2>1. PICK B : code \in Seq(B)
    BY DEF BalanceInv, Leads, AreInstructions
  <2> QED
    BY <2>1, ConcatEmptySeq
<1>2. Only(PlainOps \union {"function"}, <<>>) /\ <<>> \in Seq({})
  BY DEF Only
<1>3. Linked(<<>>, visits, Given(labelCounters') \ Given(labelCounters))
  BY <1>2, OnlyLinked
<1>4. Given(labelCounters) \subseteq Given(labelCounters')
  OBVIOUS
<1> HIDE DEF WalkVisits
<1> QED
  BY <1>1, <1>2, <1>3, <1>4, WritesLinked

LEMMA BlockVisited ==
  ASSUME NEW block \in Seq(Statements)
  PROVE  /\ Visits("statement", block) \in Seq(BlockVisits)
         /\ None({"write"}, Visits("statement", block))
<1>1. \A s \in Statements : Visit("statement", s) \in BlockVisits
  BY DEF BlockVisits, WalkVisits, Visit
<1>2. [op : {"statement"}, node : Statements] \subseteq BlockVisits
  BY DEF BlockVisits, WalkVisits
<1>3. Visits("statement", block) \in Seq([op : {"statement"}, node : Statements])
  BY VisitsOf
<1>4. Visits("statement", block) \in Seq(BlockVisits)
  <2> HIDE DEF BlockVisits
  <2> QED
    BY <1>2, <1>3, SeqMonotonic
<1> QED
  BY <1>4, NothingAwaited DEF None, Awaits

(* What is written after a block.                                          *)
LEMMA MarksAre ==
  ASSUME NEW a, NEW b
  PROVE  /\ write_label(b) = Written(<<Mark(b)>>)
         /\ Followed(write_goto(a), write_label(b)) = Written(<<Jump(a), Mark(b)>>)
<1>1. write_label(b) = Written(<<Mark(b)>>)
  BY DEF write_label, Mark
<1>2. Followed(write_goto(a), write_label(b)) = Written(<<Jump(a), Mark(b)>>)
  <2> DEFINE x == [op |-> "goto", label |-> a]
             y == [op |-> "label", label |-> b]
  <2>1. write_goto(a) = Written(<<x>>) /\ write_label(b) = Written(<<y>>)
    BY DEF write_goto, write_label
  <2>2. x = Jump(a) /\ y = Mark(b)
    BY DEF Jump, Mark
  <2> HIDE DEF x, y
  <2>3. <<x>> \o <<y>> = <<x, y>>
    BY OneAndOne
  <2>4. 0 + 0 = 0
    OBVIOUS
  <2>5. Followed(Written(<<x>>), Written(<<y>>)) = [code |-> <<x>> \o <<y>>, errors |-> 0 + 0, fate |-> "running"]
    BY DEF Followed, Written
  <2>6. Followed(Written(<<x>>), Written(<<y>>)) = Written(<<x, y>>)
    BY <2>3, <2>4, <2>5 DEF Written
  <2> QED
    BY <2>1, <2>2, <2>6
<1> QED
  BY <1>1, <1>2

LEMMA LaterWritten ==
  ASSUME labelCounters \in [LabelPrefixes -> Nat],
         NEW here \in LabelPrefixes, NEW there \in LabelPrefixes,
         NEW a, NEW b, a = generate_unique_label(there), b = generate_unique_label(here)
  PROVE  /\ <<Later(write_label(b))>> \in Seq(BlockVisits)
         /\ <<Later(Followed(write_goto(a), write_label(b)))>> \in Seq(BlockVisits)
<1>1. write_label(b) \in Writings(Marks) /\ Followed(write_goto(a), write_label(b)) \in Writings(Marks)
  BY MarksWritten
<1>2. \A w \in Writings(Marks) : <<Later(w)>> \in Seq(BlockVisits)
  <2>1. \A w \in Writings(Marks) : Later(w) \in BlockVisits
    BY DEF Later, Visit, WalkVisits, BlockVisits
  <2> HIDE DEF BlockVisits
  <2> QED
    BY <2>1
<1> QED
  BY <1>1, <1>2

LEMMA BlocksAreVisits == Seq(BlockVisits) \subseteq Seq(WalkVisits)
<1>1. BlockVisits \subseteq WalkVisits
  BY DEF BlockVisits
<1> HIDE DEF WalkVisits, BlockVisits
<1> QED
  BY <1>1, SeqMonotonic

(* Both blocks of an if, and what is written behind each.                  *)
LEMMA TwoBlocks ==
  ASSUME NEW then \in Seq(BlockVisits), None({"write"}, then),
         NEW else \in Seq(BlockVisits), None({"write"}, else),
         NEW x, <<Later(x)>> \in Seq(BlockVisits), NEW y, <<Later(y)>> \in Seq(BlockVisits)
  PROVE  /\ ((then \o <<Later(x)>>) \o else) \o <<Later(y)>> \in Seq(BlockVisits)
         /\ Both({"write"}, ((then \o <<Later(x)>>) \o else) \o <<Later(y)>>, Later(x), Later(y))
         /\ then \o <<Later(x)>> \in Seq(BlockVisits)
         /\ Sole({"write"}, then \o <<Later(x)>>, Later(x))
<1> DEFINE V == BlockVisits
           xs == <<Later(x)>>
           ys == <<Later(y)>>
<1>1. Sole({"write"}, xs, Later(x)) /\ Sole({"write"}, ys, Later(y))
  <2>1. Later(x).op = "write" /\ Later(y).op = "write"
    BY DEF Later, Visit
  <2> QED
    BY <2>1, Single
<1>2. then \in Seq(V) /\ else \in Seq(V) /\ xs \in Seq(V) /\ ys \in Seq(V)
  OBVIOUS
<1> HIDE DEF V, xs, ys
<1>3. /\ then \o xs \in Seq(V) /\ (then \o xs) \o else \in Seq(V)
      /\ ((then \o xs) \o else) \o ys \in Seq(V)
  BY <1>2, ConcatProperties
<1>4. Sole({"write"}, then \o xs, Later(x))
  BY <1>1, <1>2, JoinedSole
<1>5. Sole({"write"}, (then \o xs) \o else, Later(x))
  BY <1>2, <1>3, <1>4, JoinedSole
<1>6. Both({"write"}, ((then \o xs) \o else) \o ys, Later(x), Later(y))
  BY <1>1, <1>2, <1>3, <1>5, JoinedSole
<1> QED
  BY <1>3, <1>4, <1>6 DEF V, xs, ys

LEMMA IfWritten ==
  ASSUME FreeInv, BalanceInv, LinkInv, generate_if_node, outcome' = "running"
  PROVE  Linked(code', todo', Given(labelCounters'))
<1> DEFINE true == generate_unique_label("IF_TRUE")
           false == generate_unique_label("IF_FALSE")
           end == generate_unique_label("IF_END")
           condition == Generated(node.condition)
           test == All(<<condition, write_arithmetic("not"), write_if(false), write_label(true)>>)
           then == Visits("statement", node.then)
           skip == Followed(write_goto(end), write_label(false))
           else == Visits("statement", node.else)
           last == write_label(end)
           w == ((then \o <<Later(skip)>>) \o else) \o <<Later(last)>>
           prefixes == {"IF_TRUE", "IF_FALSE", "IF_END"}
           g == Given(labelCounters)
           h == Given(labelCounters')
<1>1. /\ phase = "GENERATE" /\ outcome = "running" /\ todo # <<>>
      /\ Head(todo).op = "statement" /\ node.is = "if"
      /\ Write(test, w) /\ Labelled(prefixes)
  BY DEF generate_if_node, Statement, Doing
<1>2. todo \in Seq(WalkVisits) /\ labelCounters \in [LabelPrefixes -> Nat]
  BY <1>1 DEF FreeInv, WalkInv
<1>3. node \in Statements
  BY <1>1, <1>2, NodeTyped
<1>4. prefixes \in SUBSET LabelPrefixes /\ "IF_FALSE" \in LabelPrefixes /\ "IF_END" \in LabelPrefixes
  BY DEF LabelPrefixes
<1>5. /\ g \subseteq h
      /\ \A p \in prefixes : generate_unique_label(p) \in Labels
      /\ \A p \in prefixes : generate_unique_label(p) \in h \ g
      /\ \A p, q \in prefixes : p # q => generate_unique_label(p) # generate_unique_label(q)
  BY <1>1, <1>2, <1>4, FreshLabels
<1>6. /\ true \in Labels /\ false \in Labels /\ end \in Labels
      /\ true \in h \ g /\ false \in h \ g /\ end \in h \ g
      /\ true # false /\ true # end /\ false # end
  <2>1. /\ "IF_TRUE" \in prefixes /\ "IF_FALSE" \in prefixes /\ "IF_END" \in prefixes
        /\ "IF_TRUE" # "IF_FALSE" /\ "IF_TRUE" # "IF_END" /\ "IF_FALSE" # "IF_END"
    OBVIOUS
  <2> HIDE DEF prefixes, g, h
  <2> QED
    BY <1>5, <2>1
<1>7. IsOnly(PlainOps, condition)
  BY <1>1, <1>3, StatementsPlain
<1>8. node.then \in Seq(Statements) /\ node.else \in Seq(Statements)
  BY <1>1, <1>3, StatementParts, SimpleStatementKinds, CompoundStatementKinds
<1>9. /\ then \in Seq(BlockVisits) /\ None({"write"}, then)
      /\ else \in Seq(BlockVisits) /\ None({"write"}, else)
  BY <1>8, BlockVisited
<1>10. /\ last = Written(<<Mark(end)>>) /\ skip = Written(<<Jump(end), Mark(false)>>)
       /\ <<Later(last)>> \in Seq(BlockVisits) /\ <<Later(skip)>> \in Seq(BlockVisits)
  <2>1. skip = Written(<<Jump(end), Mark(false)>>) /\ <<Later(skip)>> \in Seq(BlockVisits)
    <3>1. end = generate_unique_label("IF_END") /\ false = generate_unique_label("IF_FALSE")
      OBVIOUS
    <3> HIDE DEF end, false
    <3>2. labelCounters \in [LabelPrefixes -> Nat]
      BY <1>2
    <3>3. "IF_FALSE" \in LabelPrefixes /\ "IF_END" \in LabelPrefixes
      BY <1>4
    <3>4. Followed(write_goto(end), write_label(false)) = Written(<<Jump(end), Mark(false)>>)
      BY MarksAre
    <3>5. <<Later(Followed(write_goto(end), write_label(false)))>> \in Seq(BlockVisits)
      BY <3>1, <3>2, <3>3, LaterWritten
    <3> QED
      BY <3>4, <3>5
  <2>2. last = Written(<<Mark(end)>>)
    BY MarksAre
  <2>3. <<Later(last)>> \in Seq(BlockVisits)
    BY <1>2, <1>4, LaterWritten
  <2> QED
    BY <2>1, <2>2, <2>3
<1>11. code' = code \o test.code /\ todo' = w \o Tail(todo) /\ test.fate = "running"
  BY <1>1 DEF Write, Go
<1>12. IsWritten(test)
  BY <1>1, <1>3, StatementsWritten, InstructionsWritten, FourWritten, AllWritten
<1> HIDE DEF then, else, skip, last
<1>13. w \in Seq(BlockVisits) /\ Both({"write"}, w, Later(skip), Later(last))
  BY <1>9, <1>10, TwoBlocks
<1> HIDE DEF w, condition
<1>14. /\ None({"function"}, test.code)
       /\ Sole({"label"}, test.code, Mark(true))
       /\ Sole(Jumps, test.code, [op |-> "if-goto", label |-> false])
  BY <1>7, <1>11, TestPlaces
<1> HIDE DEF test, true, false, end, g, h, prefixes
<1> DEFINE jump == [op |-> "if-goto", label |-> false]
<1>15. Mark(true).label = true /\ jump.label = false
  BY DEF Mark
<1>16. Sole(Jumps, test.code, jump) /\ Both({"write"}, w, Later(Written(<<Jump(end), Mark(false)>>)), Later(Written(<<Mark(end)>>)))
  BY <1>10, <1>13, <1>14
<1> HIDE DEF jump
<1>17. Linked(test.code, w, h \ g)
  BY <1>6, <1>13, <1>14, <1>15, <1>16, IfLinked
<1>18. PICK D : test.code \in Seq(D)
  BY <1>12 DEF IsWritten, Writings
<1>19. w \in Seq(WalkVisits)
  BY <1>13, BlocksAreVisits
<1> HIDE DEF WalkVisits, BlockVisits
<1> QED
  BY <1>1, <1>5, <1>11, <1>13, <1>14, <1>17, <1>18, <1>19, WritesLinked DEF g, h

LEMMA WhileWritten ==
  ASSUME FreeInv, BalanceInv, LinkInv, generate_while_node, outcome' = "running"
  PROVE  Linked(code', todo', Given(labelCounters'))
<1> DEFINE start == generate_unique_label("WHILE_START")
           end == generate_unique_label("WHILE_END")
           condition == Generated(node.condition)
           test == All(<<write_label(start), condition, write_arithmetic("not"), write_if(end)>>)
           body == Visits("statement", node.body)
           last == Followed(write_goto(start), write_label(end))
           w == body \o <<Later(last)>>
           prefixes == {"WHILE_START", "WHILE_END"}
           g == Given(labelCounters)
           h == Given(labelCounters')
<1>1. /\ phase = "GENERATE" /\ outcome = "running" /\ todo # <<>>
      /\ Head(todo).op = "statement" /\ node.is = "while"
      /\ Write(test, w) /\ Labelled(prefixes)
  BY DEF generate_while_node, Statement, Doing
<1>2. todo \in Seq(WalkVisits) /\ labelCounters \in [LabelPrefixes -> Nat]
  BY <1>1 DEF FreeInv, WalkInv
<1>3. node \in Statements
  BY <1>1, <1>2, NodeTyped
<1>4. prefixes \in SUBSET LabelPrefixes /\ "WHILE_START" \in LabelPrefixes /\ "WHILE_END" \in LabelPrefixes
  BY DEF LabelPrefixes
<1>5. /\ g \subseteq h
      /\ \A p \in prefixes : generate_unique_label(p) \in Labels
      /\ \A p \in prefixes : generate_unique_label(p) \in h \ g
      /\ \A p, q \in prefixes : p # q => generate_unique_label(p) # generate_unique_label(q)
  BY <1>1, <1>2, <1>4, FreshLabels
<1>6. /\ start \in Labels /\ end \in Labels
      /\ start \in h \ g /\ end \in h \ g /\ start # end
  <2>1. "WHILE_START" \in prefixes /\ "WHILE_END" \in prefixes /\ "WHILE_START" # "WHILE_END"
    OBVIOUS
  <2> HIDE DEF prefixes, g, h
  <2> QED
    BY <1>5, <2>1
<1>7. IsOnly(PlainOps, condition)
  BY <1>1, <1>3, StatementsPlain
<1>8. node.body \in Seq(Statements)
  BY <1>1, <1>3, StatementParts, SimpleStatementKinds, CompoundStatementKinds
<1>9. body \in Seq(BlockVisits) /\ None({"write"}, body)
  BY <1>8, BlockVisited
<1>10. last = Written(<<Jump(start), Mark(end)>>) /\ <<Later(last)>> \in Seq(BlockVisits)
  <2>1. start = generate_unique_label("WHILE_START") /\ end = generate_unique_label("WHILE_END")
    OBVIOUS
  <2> HIDE DEF start, end
  <2>2. labelCounters \in [LabelPrefixes -> Nat]
    BY <1>2
  <2>3. "WHILE_START" \in LabelPrefixes /\ "WHILE_END" \in LabelPrefixes
    BY <1>4
  <2>4. Followed(write_goto(start), write_label(end)) = Written(<<Jump(start), Mark(end)>>)
    BY MarksAre
  <2>5. <<Later(Followed(write_goto(start), write_label(end)))>> \in Seq(BlockVisits)
    BY <2>1, <2>2, <2>3, LaterWritten
  <2> QED
    BY <2>4, <2>5
<1>11. code' = code \o test.code /\ todo' = w \o Tail(todo) /\ test.fate = "running"
  BY <1>1 DEF Write, Go
<1>12. IsWritten(test)
  BY <1>1, <1>3, StatementsWritten, InstructionsWritten, FourWritten, AllWritten
<1> HIDE DEF body, last
<1>13. w \in Seq(BlockVisits) /\ Sole({"write"}, w, Later(last))
  BY <1>9, <1>10, TwoBlocks
<1> HIDE DEF w, condition
<1>14. /\ None({"function"}, test.code)
       /\ Sole({"label"}, test.code, Mark(start))
       /\ Sole(Jumps, test.code, [op |-> "if-goto", label |-> end])
  BY <1>7, <1>11, TestPlaces
<1> HIDE DEF test, start, end, g, h, prefixes
<1> DEFINE jump == [op |-> "if-goto", label |-> end]
<1>15. Mark(start).label = start /\ jump.label = end
  BY DEF Mark
<1>16. Sole(Jumps, test.code, jump) /\ Sole({"write"}, w, Later(Written(<<Jump(start), Mark(end)>>)))
  BY <1>10, <1>13, <1>14
<1> HIDE DEF jump
<1>17. Linked(test.code, w, h \ g)
  BY <1>6, <1>13, <1>14, <1>15, <1>16, WhileLinked
<1>18. PICK D : test.code \in Seq(D)
  BY <1>12 DEF IsWritten, Writings
<1>19. w \in Seq(WalkVisits)
  BY <1>13, BlocksAreVisits
<1> HIDE DEF WalkVisits, BlockVisits
<1> QED
  BY <1>1, <1>5, <1>11, <1>13, <1>14, <1>17, <1>18, <1>19, WritesLinked DEF g, h

-----------------------------------------------------------------------------
LEMMA GenerationKeepsLinks ==
  ASSUME FreeInv, BalanceInv, LinkInv,
         \/ generate_class_node \/ generate_sub_dec_node \/ generate_stmt_node
         \/ generate_if_node \/ generate_while_node \/ write_later
  PROVE  LinkInv'
<1>1. phase = "GENERATE" /\ outcome = "running" /\ todo # <<>> /\ todo \in Seq(WalkVisits) /\ phase' = phase
  <2>1. phase = "GENERATE" /\ outcome = "running" /\ todo # <<>> /\ phase' = phase
    BY DEF generate_class_node, EnterClass, generate_sub_dec_node, generate_stmt_node,
         generate_if_node, generate_while_node, write_later, Statement, Doing, Unlabelled
  <2> QED
    BY <2>1 DEF FreeInv, WalkInv
<1> SUFFICES ASSUME outcome' = "running" PROVE Linked(code', todo', Given(labelCounters'))
  BY <1>1 DEF LinkInv
<1>2. <<>> \in Seq(WalkVisits) /\ Awaits(<<>>) = {}
  BY NoVisits, NothingAwaited
<1>3. CASE generate_stmt_node
  <2>1. /\ node \in Statements /\ node.is \in {"let", "do", "return"}
        /\ Head(todo).op = "statement" /\ labelCounters' = labelCounters
    <3>1. Head(todo).op = "statement" /\ node.is \in {"let", "do", "return"} /\ labelCounters' = labelCounters
      BY <1>3 DEF generate_stmt_node, Doing
    <3> QED
      BY <1>1, <3>1, NodeTyped
  <2>2. PICK w : Write(w, <<>>) /\ IsOnly(PlainOps, w)
    <3>1. CASE node.is = "let"
      <4>1. Write(generate_let(node), <<>>)
        BY <1>3, <3>1 DEF generate_stmt_node
      <4> QED
        BY <2>1, <3>1, <4>1, StatementsPlain
    <3>2. CASE node.is = "do"
      <4>1. Write(generate_do(node), <<>>)
        BY <1>3, <3>2 DEF generate_stmt_node
      <4> QED
        BY <2>1, <3>2, <4>1, StatementsPlain
    <3>3. CASE node.is = "return"
      <4>1. Write(generate_return(node.value), <<>>)
        BY <1>3, <3>3 DEF generate_stmt_node
      <4> QED
        BY <2>1, <3>3, <4>1, StatementsPlain
    <3> QED
      BY <2>1, <3>1, <3>2, <3>3
  <2>3. code' = code \o w.code /\ todo' = <<>> \o Tail(todo)
    BY <2>2 DEF Write, Go
  <2>4. Head(todo).op # "write"
    BY <2>1
  <2> QED
    BY <1>1, <2>1, <2>2, <2>3, <2>4, PlainOn
<1>4. CASE generate_if_node
  BY <1>4, IfWritten
<1>5. CASE generate_while_node
  BY <1>5, WhileWritten
<1>6. CASE write_later
  <2>1. /\ Head(todo).op = "write" /\ labelCounters' = labelCounters
        /\ code' = code \o node.code /\ todo' = <<>> \o Tail(todo)
    BY <1>6 DEF write_later, Doing, Write, Go
  <2>2. node.code \in Seq(Marks) /\ Tail(todo) \in Seq(WalkVisits)
    BY <1>1, <2>1, NodeTyped DEF Writings
  <2>3. todo' = Tail(todo)
    <3> HIDE DEF WalkVisits
    <3> QED
      BY <2>1, <2>2, ConcatEmptySeq
  <2>4. PICK B : code \in Seq(B)
    BY <1>1 DEF BalanceInv, Leads, AreInstructions
  <2> DEFINE C == B \union Marks
  <2>5. code \in Seq(C) /\ node.code \in Seq(C)
    <3>1. B \subseteq C /\ Marks \subseteq C
      OBVIOUS
    <3> HIDE DEF C, Marks
    <3> QED
      BY <2>2, <2>4, <3>1, SeqMonotonic
  <2>6. Linked(code, todo, Given(labelCounters))
    BY <1>1 DEF LinkInv
  <2>7. node.code = Head(todo).node.code
    BY DEF node
  <2> HIDE DEF C, WalkVisits
  <2>8. Linked(code \o node.code, Tail(todo), Given(labelCounters))
    BY <1>1, <2>1, <2>5, <2>6, <2>7, LaterLinked
  <2> QED
    BY <2>1, <2>3, <2>8
<1>7. CASE generate_class_node
  <2> DEFINE subs == Visits("subroutine", node.subs)
  <2>1. /\ code' = code /\ Head(todo).op = "class" /\ labelCounters' = labelCounters
        /\ Go(Typed(Unset), subs \o <<Leave>>) \/ Go(Error(Typed(Unset)), <<>>)
    BY <1>7 DEF generate_class_node, EnterClass, Doing, Proceed
  <2>2. Head(todo).op \notin {"write", "statement"}
    BY <2>1
  <2>3. node.subs \in Seq(SubroutineDecNode)
    BY <1>1, <2>1, NodeTyped DEF ClassNode
  <2>4. subs \in Seq(WalkVisits) /\ subs \o <<Leave>> \in Seq(WalkVisits)
    BY <2>3, SubroutineDecVisits, LeaveVisit, ConcatProperties
  <2>5. Awaits(subs \o <<Leave>>) = {}
    BY <2>4, NothingAwaited
  <2> HIDE DEF subs
  <2>6. \E visits \in Seq(WalkVisits) : Awaits(visits) = {} /\ todo' = visits \o Tail(todo)
    BY <1>2, <2>1, <2>4, <2>5 DEF Go
  <2> QED
    BY <1>1, <2>1, <2>2, <2>6, NothingOn
<1>8. CASE generate_sub_dec_node
  <2> DEFINE body == Visits("statement", node.body)
             symbol == Lookup(node.name, "LOCAL")
             head == generate_sub_head(node.kind, node.name, symbol)
             ops == PlainOps \union {"function"}
  <2>1. /\ Head(todo).op = "subroutine" /\ labelCounters' = labelCounters
        /\ \/ Write(head, body \o <<Leave>>)
           \/ Go(Error(Typed(Unset)), <<>>) /\ code' = code
    BY <1>8 DEF generate_sub_dec_node, Doing
  <2>2. Head(todo).op \notin {"write", "statement"} /\ Head(todo).op # "write" /\ Head(todo).op # "statement"
    BY <2>1
  <2>3. node \in SubroutineDecNode
    BY <1>1, <2>1, NodeTyped
  <2>4. node.body \in Seq(Statements) /\ node.kind \in SubroutineKinds
    BY <2>3, SubroutineTyped DEF SubroutineDecNode
  <2>5. body \in Seq(WalkVisits) /\ body \o <<Leave>> \in Seq(WalkVisits)
    BY <2>4, StatementVisits, LeaveVisit, ConcatProperties
  <2>6. Awaits(body \o <<Leave>>) = {}
    BY <2>5, NothingAwaited
  <2>7. IsOnly(ops, head)
    BY <2>4, HeadsOnly
  <2> HIDE DEF body, head, ops
  <2>8. CASE Write(head, body \o <<Leave>>)
    <3>1. code' = code \o head.code /\ todo' = (body \o <<Leave>>) \o Tail(todo)
      BY <2>8 DEF Write, Go
    <3>2. Only(ops, head.code) /\ \E D : head.code \in Seq(D)
      BY <2>7 DEF IsOnly, IsWritten, Writings
    <3>3. Linked(head.code, body \o <<Leave>>, Given(labelCounters') \ Given(labelCounters))
      BY <2>6, <3>2, OnlyLinked DEF ops
    <3>4. Given(labelCounters) \subseteq Given(labelCounters')
      BY <2>1
    <3>5. PICK D : head.code \in Seq(D)
      BY <3>2
    <3> HIDE DEF WalkVisits, BlockVisits
    <3> QED
      BY <1>1, <2>2, <2>5, <2>6, <3>1, <3>3, <3>4, <3>5, WritesLinked
  <2>9. CASE Go(Error(Typed(Unset)), <<>>) /\ code' = code
    <3>1. todo' = <<>> \o Tail(todo)
      BY <2>9 DEF Go
    <3> HIDE DEF WalkVisits
    <3> QED
      BY <1>1, <1>2, <2>1, <2>2, <2>9, <3>1, NothingOn
  <2> QED
    BY <2>1, <2>8, <2>9
<1> QED
  BY <1>3, <1>4, <1>5, <1>6, <1>7, <1>8

LEMMA LeavingKeepsLinks == ASSUME FreeInv, BalanceInv, LinkInv, LeaveScope PROVE LinkInv'
<1>1. /\ outcome = "running" /\ todo # <<>> /\ Head(todo).op = "leave"
      /\ phase' = phase /\ code' = code /\ labelCounters' = labelCounters
      /\ todo' = <<>> \o Tail(todo)
  BY DEF LeaveScope, Proceed, Go
<1>2. <<>> \in Seq(WalkVisits) /\ Awaits(<<>>) = {}
  BY NoVisits, NothingAwaited
<1>3. CASE phase = "GENERATE"
  <2>1. Head(todo).op \notin {"write", "statement"}
    BY <1>1
  <2> HIDE DEF WalkVisits
  <2>2. Linked(code', todo', Given(labelCounters'))
    BY <1>1, <1>2, <1>3, <2>1, NothingOn
  <2> QED
    BY <1>1, <1>3, <2>2 DEF LinkInv
<1>4. CASE phase # "GENERATE"
  BY <1>1, <1>4 DEF LinkInv
<1> QED
  BY <1>3, <1>4

LEMMA EndsKeepLinks ==
  ASSUME LinkInv, BeginAnalysis \/ EndAnalysis \/ EndGeneration PROVE LinkInv'
<1>1. code' = code /\ labelCounters' = labelCounters
  BY DEF BeginAnalysis, EndAnalysis, EndGeneration
<1>2. Awaits(<<>>) = {} /\ Awaits(Visits("class", program)) = {}
  BY NothingAwaited
<1>3. CASE BeginAnalysis
  BY <1>1, <1>3 DEF BeginAnalysis, LinkInv
<1>4. CASE EndAnalysis
  <2>1. code' = <<>> /\ phase' \in {"GENERATE", "DESTROY"}
        /\ (phase' = "GENERATE" => todo' = Visits("class", program))
    BY <1>1, <1>4 DEF EndAnalysis, Destroy, LinkInv
  <2>2. Only(PlainOps \union {"function"}, <<>>)
    BY DEF Only
  <2>3. \A g : Linked(<<>>, <<>>, g) /\ Linked(<<>>, Visits("class", program), g)
    BY <1>2, <2>2, OnlyLinked
  <2> QED
    BY <2>1, <2>3 DEF LinkInv
<1>5. CASE EndGeneration
  <2>1. Linked(code, <<>>, Given(labelCounters)) /\ phase' = "DESTROY"
    BY <1>5 DEF EndGeneration, Destroy, LinkInv
  <2> QED
    BY <1>1, <2>1 DEF LinkInv
<1> QED
  BY <1>3, <1>4, <1>5

(* The steps that neither write nor give numbers.                          *)
LEMMA OtherStepsKeepLinks ==
  ASSUME LinkInv,
         \/ AddLibraryClass \/ AddLibraryFunction \/ AddLibraryParameter
         \/ build_class_node \/ build_class_var_dec_node \/ build_subroutine_dec_node
         \/ build_variable
         \/ analyze_class_node \/ analyze_declaration \/ analyze_subroutine_dec_node
         \/ analyze_let_statement_node \/ analyze_if_statement_node
         \/ analyze_while_statement_node \/ analyze_do_statement_node
         \/ analyze_return_statement_node
         \/ destroy_ast_node \/ Finish \/ Ended \/ UNCHANGED vars
  PROVE  LinkInv'
<1>1. CASE \/ AddLibraryClass \/ AddLibraryFunction \/ AddLibraryParameter
           \/ build_class_node \/ build_class_var_dec_node \/ build_subroutine_dec_node
           \/ build_variable
  <2>1. phase = "BUILD" /\ phase' = phase /\ code' = code
    BY <1>1 DEF AddLibraryClass, AddLibraryFunction, AddLibraryParameter, build_class_node,
         build_class_var_dec_node, build_subroutine_dec_node, build_variable, Doing
  <2> QED
    BY <2>1 DEF LinkInv
<1>2. CASE \/ analyze_class_node \/ analyze_declaration \/ analyze_subroutine_dec_node
           \/ analyze_let_statement_node \/ analyze_if_statement_node
           \/ analyze_while_statement_node \/ analyze_do_statement_node
           \/ analyze_return_statement_node
  <2>1. phase = "ANALYZE" /\ phase' = phase /\ code' = code
    BY <1>2 DEF analyze_class_node, EnterClass, analyze_declaration, analyze_subroutine_dec_node,
         analyze_let_statement_node, analyze_if_statement_node, analyze_while_statement_node,
         analyze_do_statement_node, analyze_return_statement_node, Statement, Doing, Stay
  <2> QED
    BY <2>1 DEF LinkInv
<1>3. CASE destroy_ast_node \/ Finish
  <2>1. phase = "DESTROY" /\ phase' = phase /\ code' = code /\ labelCounters' = labelCounters
    BY <1>3 DEF destroy_ast_node, Destroying, Finish, Doing
  <2> QED
    BY <2>1 DEF LinkInv
<1>4. CASE Ended \/ UNCHANGED vars
  <2>1. /\ phase' = phase /\ outcome' = outcome /\ code' = code /\ todo' = todo
        /\ labelCounters' = labelCounters
    BY <1>4 DEF Ended, vars
  <2> QED
    BY <2>1 DEF LinkInv
<1> QED
  BY <1>1, <1>2, <1>3, <1>4

LEMMA NextKeepsLinks == FreeInv /\ BalanceInv /\ LinkInv /\ [Next]_vars => LinkInv'
<1> SUFFICES ASSUME FreeInv, BalanceInv, LinkInv, [Next]_vars PROVE LinkInv'
  OBVIOUS
<1>1. CASE LeaveScope
  BY <1>1, LeavingKeepsLinks
<1>2. CASE Build
  BY <1>2, EndsKeepLinks, OtherStepsKeepLinks DEF Build
<1>3. CASE Analyze
  BY <1>3, EndsKeepLinks, OtherStepsKeepLinks DEF Analyze
<1>4. CASE Generate
  BY <1>4, GenerationKeepsLinks, EndsKeepLinks DEF Generate
<1>5. CASE Clean \/ Ended \/ UNCHANGED vars
  BY <1>5, OtherStepsKeepLinks DEF Clean
<1> QED
  BY <1>1, <1>2, <1>3, <1>4, <1>5 DEF Next

(* When nothing is left to write, every jump has found its target.         *)
LEMMA LinkedLands ==
  ASSUME NEW given, Linked(code, <<>>, given), NEW i \in 1 .. Len(code), code[i].op \in Jumps
  PROVE  \E j \in 1 .. Len(code) :
           /\ {k \in 1 .. Len(code) : code[k].op = "label" /\ code[k].label = code[i].label} = {j}
           /\ Together(code, i, j)
<1>1. Awaits(<<>>) = {}
  BY NothingAwaited
<1>2. i \in PlacesOf(Jumps, code)
  BY DEF PlacesOf
<1>3. PICK j \in PlacesOf({"label"}, code) :
        code[j].label = code[i].label /\ Together(code, i, j)
  BY <1>1, <1>2 DEF Linked, JumpsLinked
<1>4. \A k \in PlacesOf({"label"}, code) : code[k].label = code[j].label => k = j
  BY DEF Linked, LabelsOnce
<1>5. j \in 1 .. Len(code) /\ code[j].op = "label"
  BY <1>3 DEF PlacesOf
<1>6. \A k \in 1 .. Len(code) : code[k].op = "label" /\ code[k].label = code[i].label => k = j
  BY <1>3, <1>4 DEF PlacesOf
<1> HIDE DEF Together
<1> QED
  BY <1>3, <1>5, <1>6

(* In all code that is written for a program that compiles, every jump has *)
(* one target, in the function it is in: no label is given twice, however  *)
(* statements are nested, and what a block comes before is written behind  *)
(* it, before the subroutine is left.                                      *)
THEOREM JumpsReachOneTarget == Spec => []JumpsLand
<1>1. FreeInv /\ LinkInv => JumpsLand
  <2> SUFFICES ASSUME FreeInv, LinkInv, outcome = "done" PROVE JumpsLand
    BY DEF JumpsLand
  <2>1. phase = "DESTROY"
    BY DEF FreeInv, Fates
  <2>2. Linked(code, <<>>, Given(labelCounters))
    BY <2>1 DEF LinkInv
  <2> QED
    BY <2>2, LinkedLands DEF JumpsLand
<1>2. Init => BuildInv /\ FreeInv /\ BalanceInv /\ LinkInv
  <2>1. Init => LinkInv
    BY DEF Init, LinkInv
  <2> QED
    BY <2>1, InitBuilds, InitFrees, InitBalanced
<1> QED
  BY <1>1, <1>2, BuildInvariance, NextFrees, NextKeepsBalance, NextKeepsLinks, PTL DEF Spec

=============================================================================
