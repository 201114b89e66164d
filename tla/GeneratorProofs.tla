---------------------------- MODULE GeneratorProofs ----------------------------
(***************************************************************************)
(* Proofs about what the visitor is built from.  The symbol tables of      *)
(* every client that keeps to TablesSpec: their type, the nesting of       *)
(* scopes, the uniqueness of indices, and the one owner of each scope.     *)
(* Terms and statements of any nesting: the vectors in them, and what      *)
(* their analysis and their code are.                                      *)
(***************************************************************************)
EXTENDS Generator, TreeMemory, SequenceTheorems, TLAPS

-----------------------------------------------------------------------------
(* Lemmas about the operators.                                             *)

(* create_table: one more table, empty, behind the others.                 *)
Made(old, new, scope, parent) ==
  /\ new \in Seq(Table)
  /\ Len(new) = Len(old) + 1
  /\ \A u \in 1 .. Len(old) :
       /\ new[u].scope = old[u].scope /\ new[u].parent = old[u].parent
       /\ new[u].symbols = old[u].symbols /\ new[u].counts = old[u].counts
  /\ new[Len(new)].scope = scope
  /\ new[Len(new)].parent = parent
  /\ new[Len(new)].symbols = <<>>

LEMMA CreateTable ==
  ASSUME NEW ts \in Seq(Table), NEW scope \in Scopes, NEW parent \in Nat
  PROVE  Made(ts, create_table(ts, scope, parent), scope, parent)
<1> DEFINE table == [scope |-> scope, parent |-> parent, symbols |-> <<>>,
                     counts |-> [k \in Kinds |-> 0], children |-> <<>>]
<1>1. table \in Table
  BY DEF Table
<1>2. table.scope = scope /\ table.parent = parent /\ table.symbols = <<>>
  OBVIOUS
<1>3. create_table(ts, scope, parent) = Append(ts, table)
  BY DEF create_table
<1> HIDE DEF table
<1> QED
  BY <1>1, <1>2, <1>3 DEF Made

(* The same for a table that its parent also lists.                        *)
LEMMA AddChild ==
  ASSUME NEW ts \in Seq(Table), NEW scope \in Scopes, NEW parent \in 1 .. Len(ts)
  PROVE  Made(ts, add_child_table(ts, parent, scope), scope, parent)
<1> DEFINE made == create_table(ts, scope, parent)
           table == [made[parent] EXCEPT !.children = Append(@, Len(made))]
<1>1. Made(ts, made, scope, parent)
  BY CreateTable
<1> HIDE DEF made
<1>2. /\ made \in Seq(Table) /\ parent \in 1 .. Len(made) /\ parent # Len(made)
      /\ Len(made) \in Nat /\ made[parent] \in Table
  BY <1>1 DEF Made
<1>3. Append(made[parent].children, Len(made)) \in Seq(Nat)
  <2>1. made[parent].children \in Seq(Nat)
    BY <1>2 DEF Table
  <2> QED
    BY <1>2, <2>1
<1>4. /\ table \in Table
      /\ table.scope = made[parent].scope /\ table.parent = made[parent].parent
      /\ table.symbols = made[parent].symbols /\ table.counts = made[parent].counts
  BY <1>2, <1>3 DEF Table
<1>5. add_child_table(ts, parent, scope) = [made EXCEPT ![parent] = table]
  BY DEF add_child_table, made
<1> HIDE DEF table
<1> QED
  BY <1>1, <1>2, <1>4, <1>5 DEF Made

(* symbol_table_add: one more symbol in one table.                         *)
Extended(old, new, t, symbol) ==
  /\ new \in Seq(Table)
  /\ Len(new) = Len(old)
  /\ \A u \in 1 .. Len(old) : u # t => new[u] = old[u]
  /\ new[t].scope = old[t].scope
  /\ new[t].parent = old[t].parent
  /\ new[t].symbols = Append(old[t].symbols, symbol)
  /\ new[t].counts = [old[t].counts EXCEPT ![symbol.kind] = @ + 1]
  /\ symbol \in Symbol

LEMMA AddSymbol ==
  ASSUME NEW ts \in Seq(Table), NEW t \in 1 .. Len(ts), NEW name \in Names,
         NEW type \in Types, NEW kind \in Kinds, NEW child \in Nat
  PROVE  Extended(ts, symbol_table_add(ts, t, name, type, kind, child), t,
                  NewSymbol(ts, t, name, type, kind, child))
<1> DEFINE symbol == NewSymbol(ts, t, name, type, kind, child)
           table == WithSymbol(ts[t], symbol)
<1>1. ts[t] \in Table
  OBVIOUS
<1>2. symbol \in Symbol
  BY <1>1 DEF Symbol, NewSymbol, Table
<1>3. /\ Append(ts[t].symbols, symbol) \in Seq(Symbol)
      /\ [ts[t].counts EXCEPT ![kind] = @ + 1] \in [Kinds -> Nat]
  <2>1. ts[t].symbols \in Seq(Symbol) /\ ts[t].counts \in [Kinds -> Nat]
    BY <1>1 DEF Table
  <2> HIDE DEF symbol
  <2> QED
    BY <1>2, <2>1
<1>4. table \in Table
  BY <1>1, <1>3 DEF Table, WithSymbol, NewSymbol
<1>5. /\ table.scope = ts[t].scope /\ table.parent = ts[t].parent
      /\ table.symbols = Append(ts[t].symbols, symbol)
      /\ table.counts = [ts[t].counts EXCEPT ![kind] = @ + 1]
  BY <1>1 DEF Table, WithSymbol, NewSymbol
<1>6. symbol_table_add(ts, t, name, type, kind, child) = [ts EXCEPT ![t] = table]
  BY DEF symbol_table_add
<1>7. symbol.kind = kind
  BY DEF NewSymbol
<1> HIDE DEF symbol, table
<1>8. Extended(ts, [ts EXCEPT ![t] = table], t, symbol)
  BY <1>2, <1>4, <1>5, <1>7 DEF Extended
<1> QED
  BY <1>6, <1>8 DEF symbol

-----------------------------------------------------------------------------
(* What a step does: one symbol more in one table, and for the name of a   *)
(* class or a subroutine the table of its scope, behind the others.        *)

(* The kinds of symbols that have a scope of their own.                    *)
OwningKinds == {"CLASS"} \union SubroutineKinds

Parented(ts, u, scope, parent) ==
  \/ scope = "CLASS" /\ parent = GlobalTable
  \/ scope \in SubroutineKinds /\ parent \in 1 .. u - 1 /\ ts[parent].scope = "CLASS"

Grows(old, new, p, symbol) ==
  /\ new \in Seq(Table)
  /\ p \in 1 .. Len(old)
  /\ symbol \in Symbol
  /\ symbol.index = old[p].counts[symbol.kind]
  /\ \/ /\ Len(new) = Len(old)
        /\ symbol.childTable = NullTable /\ symbol.kind \notin OwningKinds
     \/ /\ Len(new) = Len(old) + 1
        /\ symbol.childTable = Len(new)
        /\ new[Len(new)].symbols = <<>>
        /\ new[Len(new)].parent = p
        /\ Parented(old, Len(new), new[Len(new)].scope, p)
  /\ \A u \in 1 .. Len(old) :
       /\ new[u].scope = old[u].scope /\ new[u].parent = old[u].parent
       /\ u # p => new[u].symbols = old[u].symbols /\ new[u].counts = old[u].counts
  /\ new[p].symbols = Append(old[p].symbols, symbol)
  /\ new[p].counts = [old[p].counts EXCEPT ![symbol.kind] = @ + 1]

(* A table of a scope and the symbol that owns it.                         *)
LEMMA AddScope ==
  ASSUME NEW ts \in Seq(Table), NEW p \in 1 .. Len(ts), NEW made, NEW scope,
         Made(ts, made, scope, p), Parented(ts, Len(ts) + 1, scope, p),
         NEW name \in Names, NEW type \in Types, NEW kind \in Kinds
  PROVE  \E symbol : Grows(ts, symbol_table_add(made, p, name, type, kind, Len(ts) + 1),
                           p, symbol)
<1> DEFINE child == Len(ts) + 1
           symbol == NewSymbol(made, p, name, type, kind, child)
           new == symbol_table_add(made, p, name, type, kind, child)
<1>1. p \in 1 .. Len(made) /\ child \in Nat /\ made \in Seq(Table)
  BY DEF Made
<1>2. symbol.kind = kind /\ symbol.childTable = child
      /\ symbol.index = made[p].counts[kind]
  BY DEF NewSymbol
<1>3. Extended(made, new, p, symbol)
  <2> HIDE DEF child
  <2> QED
    BY <1>1, AddSymbol
<1> HIDE DEF symbol, new
<1>4. /\ Len(made) \in 1 .. Len(made) /\ Len(made) # p
      /\ Len(new) = Len(made) /\ Len(new) = child
      /\ new[Len(new)] = made[Len(made)]
  BY <1>1, <1>3 DEF Extended, Made
<1>5. /\ Len(new) = Len(ts) + 1 /\ symbol.childTable = Len(new)
      /\ new[Len(new)].symbols = <<>> /\ new[Len(new)].parent = p
      /\ Parented(ts, Len(new), new[Len(new)].scope, p)
  BY <1>2, <1>4 DEF Made
<1>6. ASSUME NEW u \in 1 .. Len(ts)
      PROVE  /\ new[u].scope = ts[u].scope /\ new[u].parent = ts[u].parent
             /\ u # p => new[u].symbols = ts[u].symbols /\ new[u].counts = ts[u].counts
  BY <1>1, <1>3 DEF Extended, Made
<1>7. /\ new[p].symbols = Append(ts[p].symbols, symbol)
      /\ new[p].counts = [ts[p].counts EXCEPT ![symbol.kind] = @ + 1]
      /\ new \in Seq(Table) /\ symbol \in Symbol
      /\ symbol.index = ts[p].counts[symbol.kind]
  BY <1>2, <1>3 DEF Extended, Made
<1>8. Grows(ts, new, p, symbol)
  BY <1>5, <1>6, <1>7 DEF Grows
<1> QED
  BY <1>8 DEF new

(* A variable.                                                             *)
LEMMA AddVariable ==
  ASSUME NEW ts \in Seq(Table), NEW p \in 1 .. Len(ts),
         NEW name \in Names, NEW type \in Types, NEW kind \in Kinds, kind \notin OwningKinds
  PROVE  \E symbol : Grows(ts, symbol_table_add(ts, p, name, type, kind, NullTable),
                           p, symbol)
<1> DEFINE symbol == NewSymbol(ts, p, name, type, kind, NullTable)
           new == symbol_table_add(ts, p, name, type, kind, NullTable)
<1>1. NullTable \in Nat
  BY DEF NullTable
<1>2. Extended(ts, new, p, symbol)
  BY <1>1, AddSymbol
<1>3. /\ symbol.index = ts[p].counts[kind] /\ symbol.kind = kind
      /\ symbol.childTable = NullTable
  BY DEF NewSymbol
<1> HIDE DEF symbol, new
<1>4. Grows(ts, new, p, symbol)
  BY <1>1, <1>2, <1>3 DEF Grows, Extended
<1> QED
  BY <1>4 DEF new

(* Every action declares one symbol.                                       *)
LEMMA StepDeclares ==
  ASSUME TablesTypeOK, Len(tables) >= 1, TablesNext
  PROVE  \E p, symbol : Grows(tables, tables', p, symbol)
<1> USE DEF TablesTypeOK
<1>1. ASSUME NEW name \in Names \intersect Types, DeclareClass(name)
      PROVE  \E p, symbol : Grows(tables, tables', p, symbol)
  <2> DEFINE made == create_table(tables, "CLASS", GlobalTable)
  <2>1. Made(tables, made, "CLASS", GlobalTable)
    BY CreateTable DEF Scopes, GlobalTable
  <2>2. Parented(tables, Len(tables) + 1, "CLASS", GlobalTable)
    BY DEF Parented
  <2>3. "CLASS" \in Kinds /\ GlobalTable \in 1 .. Len(tables)
    BY DEF Kinds, GlobalTable
  <2> HIDE DEF made
  <2>4. \E symbol : Grows(tables, symbol_table_add(made, GlobalTable, name, name, "CLASS",
                                                   Len(tables) + 1), GlobalTable, symbol)
    BY <2>1, <2>2, <2>3, AddScope
  <2> QED
    BY <1>1, <2>4 DEF DeclareClass, made
<1>2. ASSUME NEW name \in Names \intersect Types, DeclareLibraryClass(name)
      PROVE  \E p, symbol : Grows(tables, tables', p, symbol)
  <2> DEFINE made == add_child_table(tables, GlobalTable, "CLASS")
  <2>1. Made(tables, made, "CLASS", GlobalTable)
    BY AddChild DEF Scopes, GlobalTable
  <2>2. Parented(tables, Len(tables) + 1, "CLASS", GlobalTable)
    BY DEF Parented
  <2>3. "CLASS" \in Kinds /\ GlobalTable \in 1 .. Len(tables)
    BY DEF Kinds, GlobalTable
  <2> HIDE DEF made
  <2>4. \E symbol : Grows(tables, symbol_table_add(made, GlobalTable, name, name, "CLASS",
                                                   Len(tables) + 1), GlobalTable, symbol)
    BY <2>1, <2>2, <2>3, AddScope
  <2> QED
    BY <1>2, <2>4 DEF DeclareLibraryClass, made
<1>3. ASSUME NEW t \in 1 .. Len(tables), NEW name \in Names, NEW type \in Types,
             NEW kind \in SubroutineKinds, DeclareSubroutine(t, name, type, kind)
      PROVE  \E p, symbol : Grows(tables, tables', p, symbol)
  <2> DEFINE made == create_table(tables, kind, t)
  <2>1. Made(tables, made, kind, t)
    BY CreateTable DEF Scopes, SubroutineKinds
  <2>2. Parented(tables, Len(tables) + 1, kind, t)
    BY <1>3 DEF Parented, DeclareSubroutine
  <2>3. kind \in Kinds
    BY DEF Kinds, SubroutineKinds
  <2> HIDE DEF made
  <2>4. \E symbol : Grows(tables, symbol_table_add(made, t, name, type, kind,
                                                   Len(tables) + 1), t, symbol)
    BY <2>1, <2>2, <2>3, AddScope
  <2> QED
    BY <1>3, <2>4 DEF DeclareSubroutine, made
<1>4. ASSUME NEW t \in 1 .. Len(tables), NEW name \in Names, NEW type \in Types,
             NEW kind \in {"STATIC", "FIELD", "ARG", "VAR"},
             DeclareVariable(t, name, type, kind)
      PROVE  \E p, symbol : Grows(tables, tables', p, symbol)
  <2>1. kind \in Kinds /\ kind \notin OwningKinds
    BY DEF Kinds, OwningKinds, SubroutineKinds
  <2> QED
    BY <1>4, <2>1, AddVariable DEF DeclareVariable
<1> QED
  BY <1>1, <1>2, <1>3, <1>4 DEF TablesNext

-----------------------------------------------------------------------------
(* The inductive invariant: the properties, and that the counter of a kind *)
(* is past every index of that kind and no symbol owns a table to come.    *)

IndicesCounted ==
  \A t \in 1 .. Len(tables) : \A i \in 1 .. Len(tables[t].symbols) :
    tables[t].symbols[i].index < tables[t].counts[tables[t].symbols[i].kind]

ChildrenExist ==
  \A t \in 1 .. Len(tables) : \A i \in 1 .. Len(tables[t].symbols) :
    tables[t].symbols[i].childTable <= Len(tables)

(* A symbol of such a kind has its scope.                                  *)
ScopesOwned ==
  \A t \in 1 .. Len(tables) : \A i \in 1 .. Len(tables[t].symbols) :
    tables[t].symbols[i].kind \in OwningKinds => tables[t].symbols[i].childTable > GlobalTable

Inv ==
  /\ TablesTypeOK
  /\ Len(tables) >= 1
  /\ ScopesNest
  /\ IndicesCounted
  /\ IndicesUnique
  /\ ChildrenExist
  /\ ScopesOwned
  /\ ScopeHasOneSymbol

LEMMA InitInv == TablesInit => Inv
<1> SUFFICES ASSUME TablesInit PROVE Inv
  OBVIOUS
<1> DEFINE table == [scope |-> "GLOBAL", parent |-> NullTable, symbols |-> <<>>,
                     counts |-> [k \in Kinds |-> 0], children |-> <<>>]
<1>1. tables = <<table>>
  BY DEF TablesInit, create_table
<1>2. table \in Table
  BY DEF Table, Scopes, NullTable
<1>3. Len(tables) = 1 /\ tables[1] = table /\ table.symbols = <<>>
  BY <1>1
<1>4. table.scope = "GLOBAL" /\ table.parent = NullTable
  OBVIOUS
<1> HIDE DEF table
<1> QED
  BY <1>1, <1>2, <1>3, <1>4
  DEF Inv, TablesTypeOK, ScopesNest, IndicesCounted, IndicesUnique, ChildrenExist,
      ScopesOwned, ScopeHasOneSymbol, GlobalTable

(* The parent of every scope but the global one is a table.                *)
LEMMA ParentIsTable ==
  ASSUME Inv, NEW t \in 1 .. Len(tables), t # GlobalTable
  PROVE  tables[t].parent \in 1 .. Len(tables)
<1>1. CASE tables[t].scope = "CLASS"
  BY <1>1 DEF Inv, ScopesNest, GlobalTable
<1>2. CASE tables[t].scope \notin {"CLASS", "GLOBAL"}
  <2>1. tables[t].parent \in 1 .. t - 1
    BY <1>2 DEF Inv, ScopesNest
  <2> QED
    BY <2>1
<1> QED
  BY <1>1, <1>2 DEF Inv, ScopesNest

(* What is in the tables has its type.                                     *)
LEMMA Elements ==
  ASSUME NEW ts \in Seq(Table), NEW t \in 1 .. Len(ts)
  PROVE  /\ ts[t].symbols \in Seq(Symbol)
         /\ ts[t].counts \in [Kinds -> Nat]
<1>1. ts[t] \in Table
  OBVIOUS
<1> QED
  BY <1>1 DEF Table

(* The table that grows.                                                   *)
LEMMA GrownTable ==
  ASSUME Inv, NEW p, NEW symbol, Grows(tables, tables', p, symbol)
  PROVE  /\ p \in 1 .. Len(tables)
         /\ tables[p].symbols \in Seq(Symbol)
         /\ tables[p].counts \in [Kinds -> Nat]
         /\ symbol \in Symbol
         /\ tables'[p].symbols = Append(tables[p].symbols, symbol)
<1>1. tables \in Seq(Table) /\ p \in 1 .. Len(tables)
  BY DEF Inv, TablesTypeOK, Grows
<1> QED
  BY <1>1, Elements DEF Grows

(* The symbols after a step: the old ones, and the new one at the end of p. *)
LEMMA SymbolsAfter ==
  ASSUME Inv, NEW p, NEW symbol, Grows(tables, tables', p, symbol),
         NEW t \in 1 .. Len(tables'), NEW i \in 1 .. Len(tables'[t].symbols)
  PROVE  /\ t \in 1 .. Len(tables)
         /\ \/ /\ i \in 1 .. Len(tables[t].symbols)
               /\ tables'[t].symbols[i] = tables[t].symbols[i]
            \/ /\ t = p /\ i = Len(tables[p].symbols) + 1
               /\ tables'[t].symbols[i] = symbol
<1>1. t \in 1 .. Len(tables)
  BY DEF Grows, Inv, TablesTypeOK
<1>2. CASE t # p
  BY <1>1, <1>2 DEF Grows
<1>3. CASE t = p
  BY <1>1, <1>3, GrownTable
<1> QED
  BY <1>2, <1>3

(* What is in a table stays at its place.                                  *)
LEMMA SymbolsStay ==
  ASSUME Inv, NEW p, NEW symbol, Grows(tables, tables', p, symbol),
         NEW t \in 1 .. Len(tables), NEW i \in 1 .. Len(tables[t].symbols)
  PROVE  /\ i \in 1 .. Len(tables'[t].symbols)
         /\ tables'[t].symbols[i] = tables[t].symbols[i]
<1>1. CASE t # p
  BY <1>1 DEF Grows
<1>2. CASE t = p
  BY <1>2, GrownTable
<1> QED
  BY <1>1, <1>2

LEMMA StepInv ==
  ASSUME Inv, NEW p, NEW symbol, Grows(tables, tables', p, symbol)
  PROVE  Inv'
<1>1. /\ tables \in Seq(Table) /\ tables' \in Seq(Table)
      /\ Len(tables) \in Nat /\ Len(tables) >= 1
      /\ p \in 1 .. Len(tables) /\ symbol \in Symbol
      /\ Len(tables') \in {Len(tables), Len(tables) + 1}
  BY DEF Grows, Inv, TablesTypeOK
<1>2. ScopesNest'
  <2> SUFFICES ASSUME NEW t \in 1 .. Len(tables')
               PROVE  CASE tables'[t].scope = "GLOBAL" ->
                             t = GlobalTable /\ tables'[t].parent = NullTable
                        [] tables'[t].scope = "CLASS" -> tables'[t].parent = GlobalTable
                        [] OTHER -> /\ tables'[t].parent \in 1 .. t - 1
                                    /\ tables'[tables'[t].parent].scope = "CLASS"
    BY DEF ScopesNest
  <2>1. CASE t \in 1 .. Len(tables)
    <3>1. tables'[t].scope = tables[t].scope /\ tables'[t].parent = tables[t].parent
      BY <2>1 DEF Grows
    <3>2. CASE tables[t].scope \in {"GLOBAL", "CLASS"}
      BY <2>1, <3>1, <3>2 DEF Inv, ScopesNest
    <3>3. CASE tables[t].scope \notin {"GLOBAL", "CLASS"}
      <4>1. /\ tables[t].parent \in 1 .. t - 1
            /\ tables[tables[t].parent].scope = "CLASS"
        BY <2>1, <3>3 DEF Inv, ScopesNest
      <4>2. tables[t].parent \in 1 .. Len(tables)
        BY <1>1, <2>1, <4>1
      <4>3. tables'[tables[t].parent].scope = tables[tables[t].parent].scope
        BY <4>2 DEF Grows
      <4> QED
        BY <3>1, <3>3, <4>1, <4>3
    <3> QED
      BY <3>2, <3>3
  <2>2. CASE t \notin 1 .. Len(tables)
    <3>1. t = Len(tables') /\ Len(tables') = Len(tables) + 1
      BY <1>1, <2>2
    <3>2. /\ tables'[t].parent = p
          /\ Parented(tables, t, tables'[t].scope, p)
      BY <1>1, <3>1 DEF Grows
    <3>3. tables'[p].scope = tables[p].scope
      BY <1>1 DEF Grows
    <3> QED
      BY <3>2, <3>3 DEF Parented, SubroutineKinds
  <2> QED
    BY <2>1, <2>2
<1>3. /\ symbol.kind \in Kinds
      /\ \A k \in Kinds : /\ tables[p].counts[k] \in Nat
                          /\ tables'[p].counts[k]
                               = tables[p].counts[k] + (IF k = symbol.kind THEN 1 ELSE 0)
  <2>1. symbol.kind \in Kinds /\ tables[p].counts \in [Kinds -> Nat]
    BY GrownTable DEF Symbol
  <2>2. tables'[p].counts = [tables[p].counts EXCEPT ![symbol.kind] = @ + 1]
    BY DEF Grows
  <2> QED
    BY <2>1, <2>2
<1>4. IndicesCounted'
  <2> SUFFICES ASSUME NEW t \in 1 .. Len(tables'), NEW i \in 1 .. Len(tables'[t].symbols)
               PROVE  tables'[t].symbols[i].index
                        < tables'[t].counts[tables'[t].symbols[i].kind]
    BY DEF IndicesCounted
  <2> t \in 1 .. Len(tables)
    BY SymbolsAfter
  <2>1. CASE t # p
    <3>1. /\ tables'[t].symbols = tables[t].symbols
          /\ tables'[t].counts = tables[t].counts
      BY <2>1 DEF Grows
    <3> QED
      BY <3>1 DEF Inv, IndicesCounted
  <2>2. CASE t = p /\ i \in 1 .. Len(tables[p].symbols)
    <3>1. tables'[p].symbols[i] = tables[p].symbols[i]
      BY <1>1, <2>2, SymbolsStay
    <3>2. tables[p].symbols[i] \in Symbol
      BY <2>2, GrownTable
    <3>3. tables[p].symbols[i].index < tables[p].counts[tables[p].symbols[i].kind]
      BY <1>1, <2>2 DEF Inv, IndicesCounted
    <3> DEFINE k == tables[p].symbols[i].kind
    <3>4. k \in Kinds /\ tables[p].symbols[i].index \in Nat
      BY <3>2 DEF Symbol
    <3> HIDE DEF k
    <3>5. /\ tables[p].counts[k] \in Nat /\ tables'[p].counts[k] \in Nat
          /\ tables[p].counts[k] <= tables'[p].counts[k]
      BY <1>3, <3>4
    <3>6. tables[p].symbols[i].index < tables[p].counts[k]
      BY <3>3 DEF k
    <3>7. tables[p].symbols[i].index < tables'[p].counts[k]
      BY <3>4, <3>5, <3>6
    <3> QED
      BY <2>2, <3>1, <3>7 DEF k
  <2>3. CASE t = p /\ tables'[t].symbols[i] = symbol
    <3>1. /\ symbol.index = tables[p].counts[symbol.kind]
          /\ tables[p].counts[symbol.kind] \in Nat
          /\ tables'[p].counts[symbol.kind] = tables[p].counts[symbol.kind] + 1
      BY <1>3 DEF Grows
    <3>2. symbol.index < tables'[p].counts[symbol.kind]
      BY <3>1
    <3> QED
      BY <2>3, <3>2
  <2> QED
    BY <2>1, <2>2, <2>3, SymbolsAfter
<1>5. IndicesUnique'
  <2> SUFFICES ASSUME NEW t \in 1 .. Len(tables'),
                      NEW i \in 1 .. Len(tables'[t].symbols),
                      NEW j \in 1 .. Len(tables'[t].symbols), i < j,
                      tables'[t].symbols[i].kind = tables'[t].symbols[j].kind
               PROVE  tables'[t].symbols[i].index < tables'[t].symbols[j].index
    BY DEF IndicesUnique
  <2>1. /\ t \in 1 .. Len(tables)
        /\ j \in 1 .. Len(tables[t].symbols) \/ j = Len(tables[t].symbols) + 1
        /\ i \in 1 .. Len(tables[t].symbols) \/ i = Len(tables[t].symbols) + 1
    BY SymbolsAfter
  <2>2. tables[t].symbols \in Seq(Symbol)
    BY <1>1, <2>1, Elements
  <2>3. i \in 1 .. Len(tables[t].symbols)
    BY <2>1, <2>2
  <2>4. tables'[t].symbols[i] = tables[t].symbols[i]
    BY <2>1, <2>3, SymbolsStay
  <2>5. CASE j \in 1 .. Len(tables[t].symbols)
    <3>1. tables'[t].symbols[j] = tables[t].symbols[j]
      BY <2>1, <2>5, SymbolsStay
    <3> QED
      BY <2>1, <2>3, <2>4, <2>5, <3>1 DEF Inv, IndicesUnique
  <2>6. CASE t = p /\ tables'[t].symbols[j] = symbol
    <3>1. tables[p].symbols[i].index < tables[p].counts[tables[p].symbols[i].kind]
      BY <2>1, <2>3, <2>6 DEF Inv, IndicesCounted
    <3> QED
      BY <2>4, <2>6, <3>1 DEF Grows
  <2> QED
    BY <2>5, <2>6, SymbolsAfter
<1>6. ChildrenExist'
  <2> SUFFICES ASSUME NEW t \in 1 .. Len(tables'), NEW i \in 1 .. Len(tables'[t].symbols)
               PROVE  tables'[t].symbols[i].childTable <= Len(tables')
    BY DEF ChildrenExist
  <2>1. symbol.childTable <= Len(tables')
    BY <1>1 DEF Grows, NullTable
  <2>2. ASSUME t \in 1 .. Len(tables), i \in 1 .. Len(tables[t].symbols)
        PROVE  /\ tables[t].symbols[i].childTable <= Len(tables)
               /\ tables[t].symbols[i].childTable \in Nat
    <3>1. tables[t] \in Table
      BY <1>1, <2>2
    <3>2. tables[t].symbols[i] \in Symbol
      BY <2>2, <3>1 DEF Table
    <3> QED
      BY <2>2, <3>2 DEF Inv, ChildrenExist, Symbol
  <2> QED
    BY <1>1, <2>1, <2>2, SymbolsAfter
<1>7. ScopeHasOneSymbol'
  <2> SUFFICES ASSUME NEW t \in 1 .. Len(tables'), t # GlobalTable
               PROVE  \E i \in 1 .. Len(tables'[tables'[t].parent].symbols) :
                        OnlyOwner(tables', t, tables'[t].parent, i)
    BY DEF ScopeHasOneSymbol
  <2>1. CASE t \in 1 .. Len(tables)
    <3>1. PICK i \in 1 .. Len(tables[tables[t].parent].symbols) :
            OnlyOwner(tables, t, tables[t].parent, i)
      BY <2>1 DEF Inv, ScopeHasOneSymbol
    <3>2. /\ tables[t].parent \in 1 .. Len(tables)
          /\ tables'[t].parent = tables[t].parent
      BY <2>1, ParentIsTable DEF Grows
    <3>3. symbol.childTable # t
      BY <1>1, <2>1 DEF Grows, NullTable
    <3>4. /\ i \in 1 .. Len(tables'[tables'[t].parent].symbols)
          /\ tables'[tables[t].parent].symbols[i] = tables[tables[t].parent].symbols[i]
      BY <3>2, SymbolsStay
    <3>5. ASSUME NEW u \in 1 .. Len(tables'), NEW j \in 1 .. Len(tables'[u].symbols),
                 tables'[u].symbols[j].childTable = t
          PROVE  u = tables[t].parent /\ j = i
      <4>1. /\ u \in 1 .. Len(tables) /\ j \in 1 .. Len(tables[u].symbols)
            /\ tables'[u].symbols[j] = tables[u].symbols[j]
        BY <3>3, <3>5, SymbolsAfter
      <4> QED
        BY <3>1, <3>5, <4>1 DEF OnlyOwner
    <3>6. OnlyOwner(tables', t, tables'[t].parent, i)
      BY <3>1, <3>2, <3>4, <3>5 DEF OnlyOwner
    <3> QED
      BY <3>4, <3>6
  <2>2. CASE t \notin 1 .. Len(tables)
    <3> DEFINE last == Len(tables[p].symbols) + 1
    <3>1. t = Len(tables') /\ Len(tables') = Len(tables) + 1
      BY <1>1, <2>2
    <3>2. tables'[t].parent = p /\ symbol.childTable = t
      BY <1>1, <3>1 DEF Grows
    <3>3. last \in 1 .. Len(tables'[p].symbols) /\ tables'[p].symbols[last] = symbol
      BY GrownTable
    <3>4. ASSUME NEW u \in 1 .. Len(tables'), NEW j \in 1 .. Len(tables'[u].symbols),
                 tables'[u].symbols[j].childTable = t
          PROVE  u = p /\ j = last
      <4>1. ~ (u \in 1 .. Len(tables) /\ j \in 1 .. Len(tables[u].symbols)
                /\ tables'[u].symbols[j] = tables[u].symbols[j])
        BY <1>1, <3>1, <3>4 DEF Inv, ChildrenExist
      <4> QED
        BY <4>1, SymbolsAfter
    <3>5. OnlyOwner(tables', t, tables'[t].parent, last)
      BY <3>2, <3>3, <3>4 DEF OnlyOwner
    <3> QED
      BY <3>2, <3>3, <3>5
  <2> QED
    BY <2>1, <2>2
<1>8. ScopesOwned'
  <2> SUFFICES ASSUME NEW t \in 1 .. Len(tables'), NEW i \in 1 .. Len(tables'[t].symbols),
                      tables'[t].symbols[i].kind \in OwningKinds
               PROVE  tables'[t].symbols[i].childTable > GlobalTable
    BY DEF ScopesOwned
  <2>1. CASE tables'[t].symbols[i] = symbol
    <3>1. symbol.childTable = Len(tables) + 1
      BY <2>1 DEF Grows
    <3> QED
      BY <1>1, <2>1, <3>1 DEF GlobalTable
  <2>2. CASE /\ t \in 1 .. Len(tables) /\ i \in 1 .. Len(tables[t].symbols)
             /\ tables'[t].symbols[i] = tables[t].symbols[i]
    BY <2>2 DEF Inv, ScopesOwned
  <2> QED
    BY <2>1, <2>2, SymbolsAfter
<1> QED
  BY <1>1, <1>2, <1>4, <1>5, <1>6, <1>7, <1>8 DEF Inv, TablesTypeOK

-----------------------------------------------------------------------------
(* The theorems.                                                           *)

LEMMA Invariance == TablesSpec => []Inv
<1>1. Inv /\ [TablesNext]_tables => Inv'
  <2>1. ASSUME Inv, TablesNext PROVE Inv'
    <3>1. PICK p, symbol : Grows(tables, tables', p, symbol)
      BY <2>1, StepDeclares DEF Inv
    <3> QED
      BY <2>1, <3>1, StepInv
  <2>2. ASSUME Inv, UNCHANGED tables PROVE Inv'
    BY <2>2 DEF Inv, TablesTypeOK, ScopesNest, IndicesCounted, IndicesUnique,
                ChildrenExist, ScopesOwned, ScopeHasOneSymbol, OnlyOwner
  <2> QED
    BY <2>1, <2>2
<1> QED
  BY <1>1, InitInv, PTL DEF TablesSpec

(* The fields of tables and symbols have their types, for any names and    *)
(* types declared in any order.                                            *)
THEOREM TypeCorrect == TablesSpec => []TablesTypeOK
BY Invariance, PTL DEF Inv

(* Chains of parents end: symbol_table_lookup, which follows them by       *)
(* recursion, stops.                                                       *)
THEOREM ScopesAreNested == TablesSpec => []ScopesNest
BY Invariance, PTL DEF Inv

(* No two variables of a table share a place in a segment.                 *)
THEOREM IndicesAreUnique == TablesSpec => []IndicesUnique
BY Invariance, PTL DEF Inv

(* The search for the subroutine a return statement is in finds it, and    *)
(* only it (analyze_return_statement_node).                                *)
THEOREM ScopesHaveOneSymbol == TablesSpec => []ScopeHasOneSymbol
BY Invariance, PTL DEF Inv

-----------------------------------------------------------------------------
(* TERMS AND STATEMENTS                                                    *)

(* The recursion of TermNode.                                              *)
UpTo(n) == 0 .. n

TermsAt(f, n) ==
  IF n = 0 THEN SimpleTerms
  ELSE LET T == f[n - 1] IN SimpleTerms \union CompoundTerms(T)

Levels == INSTANCE Recursion WITH Level <- UpTo, Def <- TermsAt

-----------------------------------------------------------------------------
(* Sequences.                                                              *)
LEMMA HeadOfConcat ==
  ASSUME NEW S, NEW a \in Seq(S), NEW b \in Seq(S), a # <<>>
  PROVE  /\ a \o b # <<>> /\ Head(a \o b) = Head(a)
         /\ Tail(a \o b) = Tail(a) \o b
<1>1. /\ a \o b \in Seq(S) /\ Len(a \o b) = Len(a) + Len(b) /\ Len(a) > 0
      /\ \A i \in 1 .. Len(a) + Len(b) :
           (a \o b)[i] = IF i <= Len(a) THEN a[i] ELSE b[i - Len(a)]
  BY ConcatProperties
<1>2. a \o b # <<>> /\ Head(a \o b) = Head(a)
  BY <1>1
<1>3. /\ Tail(a) \in Seq(S) /\ Len(Tail(a)) = Len(a) - 1
      /\ \A i \in 1 .. Len(a) - 1 : Tail(a)[i] = a[i + 1]
  OBVIOUS
<1>4. /\ Tail(a \o b) \in Seq(S) /\ Len(Tail(a \o b)) = Len(a) + Len(b) - 1
      /\ \A i \in 1 .. Len(a) + Len(b) - 1 : Tail(a \o b)[i] = (a \o b)[i + 1]
  BY <1>1, <1>2
<1>5. /\ Tail(a) \o b \in Seq(S) /\ Len(Tail(a) \o b) = Len(a) - 1 + Len(b)
      /\ \A i \in 1 .. Len(a) - 1 + Len(b) :
           (Tail(a) \o b)[i] = IF i <= Len(a) - 1 THEN Tail(a)[i] ELSE b[i - (Len(a) - 1)]
  BY <1>3, ConcatProperties
<1>6. \A i \in 1 .. Len(a) + Len(b) - 1 : Tail(a \o b)[i] = (Tail(a) \o b)[i]
  BY <1>1, <1>3, <1>4, <1>5
<1>7. Tail(a \o b) = Tail(a) \o b
  BY <1>4, <1>5, <1>6, SeqEqual
<1> QED
  BY <1>2, <1>7

LEMMA NotEmpty ==
  ASSUME NEW S, NEW a \in Seq(S), NEW b \in Seq(S), a # <<>> \/ b # <<>>
  PROVE  a \o b # <<>>
<1>1. Len(a \o b) = Len(a) + Len(b) /\ Len(a) \in Nat /\ Len(b) \in Nat
  BY ConcatProperties
<1>2. Len(a) > 0 \/ Len(b) > 0
  OBVIOUS
<1>3. Len(<<>>) = 0
  OBVIOUS
<1> QED
  BY <1>1, <1>2, <1>3

LEMMA HeadAndTail ==
  ASSUME NEW S, NEW s \in Seq(S), s # <<>>
  PROVE  s = <<Head(s)>> \o Tail(s) /\ Head(s) \in S /\ Tail(s) \in Seq(S)
<1>1. Head(s) \in S /\ Tail(s) \in Seq(S) /\ Len(Tail(s)) = Len(s) - 1 /\ Len(s) \in Nat \ {0}
      /\ Head(s) = s[1]
  OBVIOUS
<1>2. \A i \in 1 .. Len(s) : s[i] = (<<Head(s)>> \o Tail(s))[i]
  BY <1>1
<1>3. <<Head(s)>> \o Tail(s) \in Seq(S) /\ Len(<<Head(s)>> \o Tail(s)) = Len(s)
  BY <1>1
<1> QED
  BY <1>1, <1>2, <1>3, SeqEqual

StatementsAt(f, n) ==
  IF n = 0 THEN SimpleStatements
  ELSE LET S == f[n - 1] IN SimpleStatements \union CompoundStatements(S)

Blocks == INSTANCE Recursion WITH Level <- UpTo, Def <- StatementsAt

(* The terms, and the statements, of the first levels.                     *)
TermsTo(n) == TermNode[IF n <= Nesting THEN n ELSE Nesting]

StatementsTo(n) == StatementNode[IF n <= Nesting THEN n ELSE Nesting]

(* The recursions of TermVectors and StatementVectors.                     *)
TermVectorsAt(f, term) ==
  CASE term.is = "call" -> CallVectors(f, term.call)
    [] term.is = "paren" -> ExpressionVectors(f, term.of)
    [] term.is = "unary" -> f[term.of]
    [] term.is = "array" -> ExpressionVectors(f, term.index)
    [] OTHER -> NoVectors

StatementVectorsAt(f, s) ==
  CASE s.is = "let" -> Plus(Parts(s.index), Expression(s.right))
    [] s.is = "if" -> Total(<<Expression(s.condition), BlockVectors(f, s.then),
                              IF s.else = <<>> THEN NoVectors ELSE BlockVectors(f, s.else)>>)
    [] s.is = "while" -> Plus(Expression(s.condition), BlockVectors(f, s.body))
    [] s.is = "do" -> CallVectors(TermVectors, s.call)
    [] s.is = "return" -> Parts(s.value)

TermsCounted == INSTANCE Recursion WITH Level <- TermsTo, Def <- TermVectorsAt

StatementsCounted ==
  INSTANCE Recursion WITH Level <- StatementsTo, Def <- StatementVectorsAt

LEMMA TermLevels ==
  /\ TermNode[0] = SimpleTerms
  /\ \A n \in 1 .. Nesting : TermNode[n] = SimpleTerms \union CompoundTerms(TermNode[n - 1])
<1>1. Levels!Nested
  BY DEF Levels!Nested, UpTo
<1>2. Levels!LooksDown
  <2>1. \A f, g : \A x \in UpTo(0) : TermsAt(f, x) = TermsAt(g, x)
    BY DEF UpTo, TermsAt
  <2>2. ASSUME NEW n \in Nat, NEW f, NEW g, \A y \in UpTo(n) : f[y] = g[y],
               NEW x \in UpTo(n + 1)
        PROVE  TermsAt(f, x) = TermsAt(g, x)
    <3>1. x = 0 \/ x - 1 \in UpTo(n)
      BY DEF UpTo
    <3> QED
      BY <2>2, <3>1 DEF TermsAt
  <2> QED
    BY <2>1, <2>2 DEF Levels!LooksDown
<1>3. PICK f : f = [n \in UpTo(Nesting) |-> TermsAt(f, n)]
  BY <1>1, <1>2, NestingAssumption, Levels!FunctionExists
<1>4. f = [n \in 0 .. Nesting |-> IF n = 0 THEN SimpleTerms
                                  ELSE LET T == f[n - 1] IN SimpleTerms \union CompoundTerms(T)]
  BY <1>3 DEF UpTo, TermsAt
<1>5. TermNode = [n \in 0 .. Nesting |->
                    IF n = 0 THEN SimpleTerms
                    ELSE LET T == TermNode[n - 1] IN SimpleTerms \union CompoundTerms(T)]
  BY <1>4 DEF TermNode
<1>6. 0 \in 0 .. Nesting /\ \A n \in 1 .. Nesting : n \in 0 .. Nesting /\ n # 0
  BY NestingAssumption
<1>7. TermNode[0] = SimpleTerms
  BY <1>5, <1>6
<1>8. \A n \in 1 .. Nesting : TermNode[n] = SimpleTerms \union CompoundTerms(TermNode[n - 1])
  BY <1>5, <1>6
<1> QED
  BY <1>7, <1>8

LEMMA StatementLevels ==
  /\ StatementNode[0] = SimpleStatements
  /\ \A n \in 1 .. Nesting :
       StatementNode[n] = SimpleStatements \union CompoundStatements(StatementNode[n - 1])
<1>1. Blocks!Nested
  BY DEF Blocks!Nested, UpTo
<1>2. Blocks!LooksDown
  <2>1. \A f, g : \A x \in UpTo(0) : StatementsAt(f, x) = StatementsAt(g, x)
    BY DEF UpTo, StatementsAt
  <2>2. ASSUME NEW n \in Nat, NEW f, NEW g, \A y \in UpTo(n) : f[y] = g[y],
               NEW x \in UpTo(n + 1)
        PROVE  StatementsAt(f, x) = StatementsAt(g, x)
    <3>1. x = 0 \/ x - 1 \in UpTo(n)
      BY DEF UpTo
    <3> QED
      BY <2>2, <3>1 DEF StatementsAt
  <2> QED
    BY <2>1, <2>2 DEF Blocks!LooksDown
<1>3. PICK f : f = [n \in UpTo(Nesting) |-> StatementsAt(f, n)]
  BY <1>1, <1>2, NestingAssumption, Blocks!FunctionExists
<1>4. f = [n \in 0 .. Nesting |->
             IF n = 0 THEN SimpleStatements
             ELSE LET S == f[n - 1] IN SimpleStatements \union CompoundStatements(S)]
  BY <1>3 DEF UpTo, StatementsAt
<1>5. StatementNode =
        [n \in 0 .. Nesting |->
           IF n = 0 THEN SimpleStatements
           ELSE LET S == StatementNode[n - 1] IN SimpleStatements \union CompoundStatements(S)]
  BY <1>4 DEF StatementNode
<1>6. 0 \in 0 .. Nesting /\ \A n \in 1 .. Nesting : n \in 0 .. Nesting /\ n # 0
  BY NestingAssumption
<1>7. StatementNode[0] = SimpleStatements
  BY <1>5, <1>6
<1>8. \A n \in 1 .. Nesting : StatementNode[n] = SimpleStatements \union CompoundStatements(StatementNode[n - 1])
  BY <1>5, <1>6
<1> QED
  BY <1>7, <1>8

(* More terms make more terms.                                             *)
LEMMA CompoundsGrow ==
  ASSUME NEW T, NEW U, T \subseteq U
  PROVE  CompoundTerms(T) \subseteq CompoundTerms(U)
<1>1. OperationNode(T) \subseteq OperationNode(U)
  BY DEF OperationNode
<1>2. Seq(OperationNode(T)) \subseteq Seq(OperationNode(U))
  BY <1>1, SeqMonotonic
<1>3. ExpressionNode(T) \subseteq ExpressionNode(U)
  BY <1>2 DEF ExpressionNode
<1>4. Seq(ExpressionNode(T)) \subseteq Seq(ExpressionNode(U))
  BY <1>3, SeqMonotonic
<1>5. SubroutineCallNode(T) \subseteq SubroutineCallNode(U)
  BY <1>4 DEF SubroutineCallNode
<1> QED
  BY <1>3, <1>5 DEF CompoundTerms

LEMMA BlocksGrow ==
  ASSUME NEW T, NEW U, T \subseteq U
  PROVE  CompoundStatements(T) \subseteq CompoundStatements(U)
<1>1. Seq(T) \subseteq Seq(U)
  BY SeqMonotonic
<1> QED
  BY <1>1 DEF CompoundStatements

LEMMA TermsNest ==
  /\ TermsTo(0) = SimpleTerms
  /\ TermsTo(Nesting) = Terms
  /\ \A n \in Nat : /\ TermsTo(n) \subseteq TermsTo(n + 1)
                    /\ TermsTo(n + 1) \subseteq SimpleTerms \union CompoundTerms(TermsTo(n))
                    /\ TermsTo(n) \subseteq Terms
<1> USE NestingAssumption
<1>1. \A n \in 0 .. Nesting : TermNode[n] \subseteq SimpleTerms \union CompoundTerms(TermNode[n])
  <2> DEFINE T == {n \in Nat : n <= Nesting =>
                     TermNode[n] \subseteq SimpleTerms \union CompoundTerms(TermNode[n])}
  <2>1. 0 \in T
    BY TermLevels
  <2>2. ASSUME NEW n \in T PROVE n + 1 \in T
    <3> SUFFICES ASSUME n + 1 <= Nesting
                 PROVE  TermNode[n + 1]
                          \subseteq SimpleTerms \union CompoundTerms(TermNode[n + 1])
      OBVIOUS
    <3>1. /\ n + 1 \in 1 .. Nesting /\ n + 1 - 1 = n
          /\ TermNode[n] \subseteq SimpleTerms \union CompoundTerms(TermNode[n])
      OBVIOUS
    <3>2. TermNode[n + 1] = SimpleTerms \union CompoundTerms(TermNode[n])
      BY <3>1, TermLevels
    <3>3. TermNode[n] \subseteq TermNode[n + 1]
      BY <3>1, <3>2
    <3>4. CompoundTerms(TermNode[n]) \subseteq CompoundTerms(TermNode[n + 1])
      BY <3>3, CompoundsGrow
    <3> QED
      BY <3>2, <3>4
  <2> HIDE DEF T
  <2>3. T = Nat
    <3>1. T \in SUBSET Nat
      BY DEF T
    <3> QED
      BY <2>1, <2>2, <3>1, Levels!SetInduction
  <2> QED
    BY <2>3 DEF T
<1>2. ASSUME NEW n \in Nat
      PROVE  /\ TermsTo(n) \subseteq TermsTo(n + 1)
             /\ TermsTo(n + 1) \subseteq SimpleTerms \union CompoundTerms(TermsTo(n))
  <2>1. CASE n < Nesting
    <3>1. n + 1 \in 1 .. Nesting /\ n + 1 - 1 = n /\ n \in 0 .. Nesting
      BY <2>1
    <3>2. TermNode[n + 1] = SimpleTerms \union CompoundTerms(TermNode[n])
      BY <3>1, TermLevels
    <3>3. TermsTo(n) = TermNode[n] /\ TermsTo(n + 1) = TermNode[n + 1]
      BY <3>1 DEF TermsTo
    <3> QED
      BY <1>1, <3>1, <3>2, <3>3
  <2>2. CASE n >= Nesting
    <3>1. TermsTo(n) = TermNode[Nesting] /\ TermsTo(n + 1) = TermNode[Nesting]
      BY <2>2 DEF TermsTo
    <3> QED
      BY <1>1, <3>1
  <2> QED
    BY <2>1, <2>2
<1>3. TermsTo(0) = SimpleTerms /\ TermsTo(Nesting) = Terms
  BY TermLevels DEF TermsTo, Terms
<1>4. ASSUME NEW n \in Nat PROVE TermsTo(n) \subseteq Terms
  <2>1. TermsTo(n) \subseteq TermsTo(n + Nesting)
    BY <1>2, TermsCounted!LevelsGrow DEF TermsCounted!Nested
  <2>2. TermsTo(n + Nesting) = Terms
    BY DEF TermsTo, Terms
  <2> QED
    BY <2>1, <2>2
<1> QED
  BY <1>2, <1>3, <1>4

LEMMA StatementsNest ==
  /\ StatementsTo(0) = SimpleStatements
  /\ StatementsTo(Nesting) = Statements
  /\ \A n \in Nat : /\ StatementsTo(n) \subseteq StatementsTo(n + 1)
                    /\ StatementsTo(n + 1) \subseteq SimpleStatements \union CompoundStatements(StatementsTo(n))
                    /\ StatementsTo(n) \subseteq Statements
<1> USE NestingAssumption
<1>1. \A n \in 0 .. Nesting : StatementNode[n] \subseteq SimpleStatements \union CompoundStatements(StatementNode[n])
  <2> DEFINE T == {n \in Nat : n <= Nesting =>
                     StatementNode[n] \subseteq SimpleStatements \union CompoundStatements(StatementNode[n])}
  <2>1. 0 \in T
    BY StatementLevels
  <2>2. ASSUME NEW n \in T PROVE n + 1 \in T
    <3> SUFFICES ASSUME n + 1 <= Nesting
                 PROVE  StatementNode[n + 1]
                          \subseteq SimpleStatements \union CompoundStatements(StatementNode[n + 1])
      OBVIOUS
    <3>1. /\ n + 1 \in 1 .. Nesting /\ n + 1 - 1 = n
          /\ StatementNode[n] \subseteq SimpleStatements \union CompoundStatements(StatementNode[n])
      OBVIOUS
    <3>2. StatementNode[n + 1] = SimpleStatements \union CompoundStatements(StatementNode[n])
      BY <3>1, StatementLevels
    <3>3. StatementNode[n] \subseteq StatementNode[n + 1]
      BY <3>1, <3>2
    <3>4. CompoundStatements(StatementNode[n]) \subseteq CompoundStatements(StatementNode[n + 1])
      BY <3>3, BlocksGrow
    <3> QED
      BY <3>2, <3>4
  <2> HIDE DEF T
  <2>3. T = Nat
    <3>1. T \in SUBSET Nat
      BY DEF T
    <3> QED
      BY <2>1, <2>2, <3>1, Levels!SetInduction
  <2> QED
    BY <2>3 DEF T
<1>2. ASSUME NEW n \in Nat
      PROVE  /\ StatementsTo(n) \subseteq StatementsTo(n + 1)
             /\ StatementsTo(n + 1) \subseteq SimpleStatements \union CompoundStatements(StatementsTo(n))
  <2>1. CASE n < Nesting
    <3>1. n + 1 \in 1 .. Nesting /\ n + 1 - 1 = n /\ n \in 0 .. Nesting
      BY <2>1
    <3>2. StatementNode[n + 1] = SimpleStatements \union CompoundStatements(StatementNode[n])
      BY <3>1, StatementLevels
    <3>3. StatementsTo(n) = StatementNode[n] /\ StatementsTo(n + 1) = StatementNode[n + 1]
      BY <3>1 DEF StatementsTo
    <3> QED
      BY <1>1, <3>1, <3>2, <3>3
  <2>2. CASE n >= Nesting
    <3>1. StatementsTo(n) = StatementNode[Nesting] /\ StatementsTo(n + 1) = StatementNode[Nesting]
      BY <2>2 DEF StatementsTo
    <3> QED
      BY <1>1, <3>1
  <2> QED
    BY <2>1, <2>2
<1>3. StatementsTo(0) = SimpleStatements /\ StatementsTo(Nesting) = Statements
  BY StatementLevels DEF StatementsTo, Statements
<1>4. ASSUME NEW n \in Nat PROVE StatementsTo(n) \subseteq Statements
  <2>1. StatementsTo(n) \subseteq StatementsTo(n + Nesting)
    BY <1>2, StatementsCounted!LevelsGrow DEF StatementsCounted!Nested
  <2>2. StatementsTo(n + Nesting) = Statements
    BY DEF StatementsTo, Statements
  <2> QED
    BY <2>1, <2>2
<1> QED
  BY <1>2, <1>3, <1>4

(* Induction over the terms, and over the statements, of any nesting.      *)
LEMMA TermInduction ==
  ASSUME NEW Good, SimpleTerms \subseteq Good,
         Terms \intersect CompoundTerms(Terms \intersect Good) \subseteq Good
  PROVE  Terms \subseteq Good
<1>1. ASSUME NEW m \in Nat, TermsTo(m) \subseteq Good PROVE TermsTo(m + 1) \subseteq Good
  <2>1. /\ TermsTo(m) \subseteq Terms \intersect Good /\ m + 1 \in Nat
        /\ TermsTo(m + 1) \subseteq Terms
        /\ TermsTo(m + 1) \subseteq SimpleTerms \union CompoundTerms(TermsTo(m))
    BY <1>1, TermsNest
  <2>2. CompoundTerms(TermsTo(m)) \subseteq CompoundTerms(Terms \intersect Good)
    BY <2>1, CompoundsGrow
  <2> QED
    BY <2>1, <2>2
<1>2. TermsTo(Nesting) \subseteq Good
  <2>1. \A x \in TermsTo(0) : x \in Good
    BY TermsNest
  <2> QED
    BY <1>1, <2>1, NestingAssumption, TermsCounted!LevelInduction
<1> QED
  BY <1>2, TermsNest

LEMMA StatementInduction ==
  ASSUME NEW Good, SimpleStatements \subseteq Good,
         Statements \intersect CompoundStatements(Statements \intersect Good) \subseteq Good
  PROVE  Statements \subseteq Good
<1>1. ASSUME NEW m \in Nat, StatementsTo(m) \subseteq Good
      PROVE  StatementsTo(m + 1) \subseteq Good
  <2>1. /\ StatementsTo(m) \subseteq Statements \intersect Good /\ m + 1 \in Nat
        /\ StatementsTo(m + 1) \subseteq Statements
        /\ StatementsTo(m + 1) \subseteq SimpleStatements \union CompoundStatements(StatementsTo(m))
    BY <1>1, StatementsNest
  <2>2. CompoundStatements(StatementsTo(m)) \subseteq CompoundStatements(Statements \intersect Good)
    BY <2>1, BlocksGrow
  <2> QED
    BY <2>1, <2>2
<1>2. StatementsTo(Nesting) \subseteq Good
  <2>1. \A x \in StatementsTo(0) : x \in Good
    BY StatementsNest
  <2> QED
    BY <1>1, <2>1, NestingAssumption, StatementsCounted!LevelInduction
<1> QED
  BY <1>2, StatementsNest

-----------------------------------------------------------------------------
(* Counts of vectors, and their sums.                                      *)
Counts == [Holders -> Nat]

LEMMA PlusLaws ==
  /\ NoVectors \in Counts
  /\ \A op : VectorsOf(op) \in Counts
  /\ \A f, g \in Counts : Plus(f, g) \in Counts
  /\ \A f \in Counts : Plus(NoVectors, f) = f /\ Plus(f, NoVectors) = f
  /\ \A f, g, h \in Counts : Plus(Plus(f, g), h) = Plus(f, Plus(g, h))
<1>1. \A type \in Holders : VectorsIn[type] \in Nat
  BY DEF Holders, VectorsIn
<1> HIDE DEF Holders
<1>2. NoVectors \in Counts /\ \A op : VectorsOf(op) \in Counts
  BY <1>1 DEF NoVectors, VectorsOf, Counts
<1>3. \A f, g \in Counts : Plus(f, g) \in Counts
  BY DEF Plus, Counts
<1>4. ASSUME NEW f \in Counts PROVE Plus(NoVectors, f) = f /\ Plus(f, NoVectors) = f
  <2>1. \A type \in Holders : f[type] \in Nat /\ NoVectors[type] = 0
    BY DEF Counts, NoVectors
  <2>2. f = [type \in Holders |-> f[type]]
    BY DEF Counts
  <2> QED
    BY <2>1, <2>2 DEF Plus
<1>5. ASSUME NEW f \in Counts, NEW g \in Counts, NEW h \in Counts
      PROVE  Plus(Plus(f, g), h) = Plus(f, Plus(g, h))
  <2>1. \A type \in Holders : f[type] \in Nat /\ g[type] \in Nat /\ h[type] \in Nat
    BY DEF Counts
  <2> QED
    BY <2>1 DEF Plus
<1> QED
  BY <1>2, <1>3, <1>4, <1>5

(* The partial sums of Total.                                              *)
Sums(u, counts) ==
  /\ \A i \in 0 .. Len(counts) : u[i] \in Counts
  /\ u[0] = NoVectors
  /\ \A i \in 1 .. Len(counts) : u[i] = Plus(u[i - 1], counts[i])

LEMMA Totals ==
  ASSUME NEW counts \in Seq(Counts)
  PROVE  \E u : Sums(u, counts) /\ Total(counts) = u[Len(counts)]
<1> DEFINE n == Len(counts)
           step == [i \in Nat |-> [v \in Counts |-> IF i \in 1 .. n THEN Plus(v, counts[i]) ELSE v]]
<1>1. n \in Nat /\ \A i \in 1 .. n : counts[i] \in Counts
  OBVIOUS
<1>2. /\ step \in [Nat -> [Counts -> Counts]]
      /\ \A i \in 1 .. n : \A v \in Counts : step[i][v] = Plus(v, counts[i])
  <2>1. ASSUME NEW i \in Nat
        PROVE  /\ step[i] = [v \in Counts |-> IF i \in 1 .. n THEN Plus(v, counts[i]) ELSE v]
               /\ step[i] \in [Counts -> Counts]
    <3>1. \A v \in Counts : (IF i \in 1 .. n THEN Plus(v, counts[i]) ELSE v) \in Counts
      BY <1>1, PlusLaws
    <3> QED
      BY <3>1
  <2>2. \A i \in 1 .. n : i \in Nat
    BY <1>1
  <2>3. step = [i \in Nat |-> step[i]]
    OBVIOUS
  <2> HIDE DEF step
  <2> QED
    BY <2>1, <2>2, <2>3
<1> HIDE DEF n, step
<1>3. PICK f : TermsCounted!Folded(f, 0, n, NoVectors, step)
  BY <1>1, <1>2, PlusLaws, TermsCounted!FoldExists
<1>4. \A i \in 0 .. n : f[i] = IF i = 0 THEN NoVectors ELSE step[i][f[i - 1]]
  BY <1>3 DEF TermsCounted!Folded
<1>5. \A i \in 0 .. n : f[i] \in Counts
  <2>1. f[0] \in Counts
    BY <1>1, <1>4, PlusLaws
  <2>2. ASSUME NEW i \in 0 + 1 .. n, f[i - 1] \in Counts PROVE f[i] \in Counts
    <3>1. i \in 0 .. n /\ i # 0 /\ i \in Nat
      BY <1>1
    <3> QED
      BY <1>2, <1>4, <2>2, <3>1
  <2> QED
    BY <1>1, <2>1, <2>2, TermsCounted!FoldInvariant
<1>6. f = [i \in 0 .. n |-> IF i = 0 THEN NoVectors ELSE Plus(f[i - 1], counts[i])]
  <2>1. ASSUME NEW i \in 0 .. n
        PROVE  f[i] = IF i = 0 THEN NoVectors ELSE Plus(f[i - 1], counts[i])
    <3>1. i # 0 => i - 1 \in 0 .. n /\ i \in 1 .. n
      BY <1>1
    <3>2. i # 0 => step[i][f[i - 1]] = Plus(f[i - 1], counts[i])
      BY <1>2, <1>5, <3>1
    <3> QED
      BY <1>4, <3>2
  <2>2. f = [i \in 0 .. n |-> f[i]]
    BY <1>3 DEF TermsCounted!Folded
  <2> QED
    BY <2>1, <2>2
<1>7. PICK g : /\ g = [i \in 0 .. n |-> IF i = 0 THEN NoVectors ELSE Plus(g[i - 1], counts[i])]
               /\ Total(counts) = g[n]
  BY <1>6 DEF Total, n
<1>8. \A i \in 0 .. n : g[i] = IF i = 0 THEN NoVectors ELSE Plus(g[i - 1], counts[i])
  BY <1>7
<1>9. \A i \in 0 .. n : g[i] \in Counts
  <2>1. g[0] \in Counts
    BY <1>1, <1>8, PlusLaws
  <2>2. ASSUME NEW i \in 0 + 1 .. n, g[i - 1] \in Counts PROVE g[i] \in Counts
    <3>1. i \in 0 .. n /\ i # 0 /\ i \in 1 .. n
      BY <1>1
    <3> QED
      BY <1>1, <1>8, <2>2, <3>1, PlusLaws
  <2> QED
    BY <1>1, <2>1, <2>2, TermsCounted!FoldInvariant
<1>10. g[0] = NoVectors /\ \A i \in 1 .. n : g[i] = Plus(g[i - 1], counts[i])
  BY <1>1, <1>8
<1> QED
  BY <1>7, <1>9, <1>10 DEF Sums, n

LEMMA TotalTyped == ASSUME NEW counts \in Seq(Counts) PROVE Total(counts) \in Counts
<1>1. Len(counts) \in 0 .. Len(counts)
  OBVIOUS
<1> QED
  BY <1>1, Totals DEF Sums

LEMMA TotalOfNone == Total(<<>>) = NoVectors
<1>1. <<>> \in Seq(Counts) /\ Len(<<>>) = 0
  OBVIOUS
<1> QED
  BY <1>1, Totals DEF Sums

LEMMA TotalOfOne == ASSUME NEW c \in Counts PROVE Total(<<c>>) = c
<1>1. <<c>> \in Seq(Counts) /\ Len(<<c>>) = 1 /\ <<c>>[1] = c
  OBVIOUS
<1>2. PICK u : Sums(u, <<c>>) /\ Total(<<c>>) = u[1]
  BY <1>1, Totals
<1>3. u[0] = NoVectors /\ u[1] = Plus(u[0], c)
  <2>1. 1 \in 1 .. 1 /\ 1 - 1 = 0
    OBVIOUS
  <2> QED
    BY <1>1, <1>2, <2>1 DEF Sums
<1> QED
  BY <1>2, <1>3, PlusLaws

LEMMA TotalOfConcat ==
  ASSUME NEW a \in Seq(Counts), NEW b \in Seq(Counts)
  PROVE  Total(a \o b) = Plus(Total(a), Total(b))
<1>1. /\ a \o b \in Seq(Counts) /\ Len(a \o b) = Len(a) + Len(b)
      /\ Len(a) \in Nat /\ Len(b) \in Nat
      /\ \A i \in 1 .. Len(a) : (a \o b)[i] = a[i]
      /\ \A i \in 1 .. Len(b) : (a \o b)[Len(a) + i] = b[i]
  BY ConcatProperties
<1> DEFINE n == Len(a)
           m == Len(b)
           ab == a \o b
<1>2. PICK u : Sums(u, a) /\ Total(a) = u[n]
  BY Totals
<1>3. PICK v : Sums(v, b) /\ Total(b) = v[m]
  BY Totals
<1>4. PICK w : Sums(w, ab) /\ Total(ab) = w[n + m]
  BY <1>1, Totals
<1> HIDE DEF n, m, ab
<1>5. \A i \in 0 .. n : w[i] = u[i]
  <2> DEFINE T == {i \in Nat : i <= n => w[i] = u[i]}
  <2>1. 0 \in T
    BY <1>2, <1>4 DEF Sums
  <2>2. ASSUME NEW i \in T PROVE i + 1 \in T
    <3> SUFFICES ASSUME i + 1 <= n PROVE w[i + 1] = u[i + 1]
      OBVIOUS
    <3>1. i + 1 \in 1 .. n /\ i + 1 \in 1 .. n + m /\ i + 1 - 1 = i /\ w[i] = u[i]
      BY <1>1 DEF n, m
    <3>2. w[i + 1] = Plus(w[i], ab[i + 1])
      BY <1>1, <1>4, <3>1 DEF Sums, n, m, ab
    <3>3. u[i + 1] = Plus(u[i], a[i + 1])
      BY <1>2, <3>1 DEF Sums, n
    <3>4. ab[i + 1] = a[i + 1]
      BY <1>1, <3>1 DEF ab, n
    <3> QED
      BY <3>1, <3>2, <3>3, <3>4
  <2> HIDE DEF T
  <2>3. T = Nat
    <3>1. T \in SUBSET Nat
      BY DEF T
    <3> QED
      BY <2>1, <2>2, <3>1, TermsCounted!SetInduction
  <2> QED
    BY <2>3 DEF T
<1>6. \A i \in 0 .. m : w[n + i] = Plus(u[n], v[i])
  <2> DEFINE T == {i \in Nat : i <= m => w[n + i] = Plus(u[n], v[i])}
  <2>1. 0 \in T
    <3>1. n \in 0 .. n /\ n + 0 = n /\ u[n] \in Counts
      BY <1>1, <1>2 DEF Sums, n
    <3> QED
      BY <1>3, <1>5, <3>1, PlusLaws DEF Sums
  <2>2. ASSUME NEW i \in T PROVE i + 1 \in T
    <3> SUFFICES ASSUME i + 1 <= m PROVE w[n + (i + 1)] = Plus(u[n], v[i + 1])
      OBVIOUS
    <3>1. /\ i + 1 \in 1 .. m /\ n + (i + 1) \in 1 .. n + m /\ i + 1 - 1 = i
          /\ n + (i + 1) - 1 = n + i /\ w[n + i] = Plus(u[n], v[i])
          /\ i \in 0 .. m /\ n \in 0 .. n
      BY <1>1 DEF n, m
    <3>2. w[n + (i + 1)] = Plus(w[n + i], ab[n + (i + 1)])
      BY <1>1, <1>4, <3>1 DEF Sums, n, m, ab
    <3>3. v[i + 1] = Plus(v[i], b[i + 1])
      BY <1>3, <3>1 DEF Sums, m
    <3>4. ab[n + (i + 1)] = b[i + 1]
      BY <1>1, <3>1 DEF ab, n, m
    <3>5. u[n] \in Counts /\ v[i] \in Counts /\ b[i + 1] \in Counts
      BY <1>2, <1>3, <3>1 DEF Sums, n, m
    <3>6. Plus(Plus(u[n], v[i]), b[i + 1]) = Plus(u[n], Plus(v[i], b[i + 1]))
      BY <3>5, PlusLaws
    <3> QED
      BY <3>1, <3>2, <3>3, <3>4, <3>6
  <2> HIDE DEF T
  <2>3. T = Nat
    <3>1. T \in SUBSET Nat
      BY DEF T
    <3> QED
      BY <2>1, <2>2, <3>1, TermsCounted!SetInduction
  <2> QED
    BY <2>3 DEF T
<1>7. w[n + m] = Plus(u[n], v[m])
  BY <1>1, <1>6 DEF n, m
<1> QED
  BY <1>2, <1>3, <1>4, <1>7 DEF ab

-----------------------------------------------------------------------------
(* The kinds of terms and statements, and the parts they have.             *)
CompoundKinds == {"call", "paren", "unary", "array"}

LEMMA SimpleTermKinds ==
  ASSUME NEW x \in SimpleTerms
  PROVE  /\ x.is \in {"none", "incomplete", "true", "false", "null", "this", "int",
                      "string", "var"}
         /\ x.is \notin CompoundKinds
BY DEF SimpleTerms, VarTermNode, CompoundKinds

LEMMA CompoundTermKinds ==
  ASSUME NEW T, NEW x \in CompoundTerms(T)
  PROVE  \/ x.is = "call" /\ x.call \in SubroutineCallNode(T)
         \/ x.is = "paren" /\ x.of \in ExpressionNode(T)
         \/ x.is = "unary" /\ x.of \in T
         \/ x.is = "array" /\ x.index \in ExpressionNode(T)
BY DEF CompoundTerms

LEMMA TermParts == Terms \subseteq SimpleTerms \union CompoundTerms(Terms)
<1>1. Nesting \in Nat /\ TermsTo(Nesting) \subseteq TermsTo(Nesting + 1)
  BY NestingAssumption, TermsNest
<1> QED
  BY <1>1, TermsNest

LEMMA StatementParts == Statements \subseteq SimpleStatements \union CompoundStatements(Statements)
<1>1. Nesting \in Nat /\ StatementsTo(Nesting) \subseteq StatementsTo(Nesting + 1)
  BY NestingAssumption, StatementsNest
<1> QED
  BY <1>1, StatementsNest

LEMMA ExpressionParts ==
  ASSUME NEW T, NEW e \in ExpressionNode(T)
  PROVE  /\ e.term \in T /\ Len(e.ops) \in Nat
         /\ \A i \in 1 .. Len(e.ops) : e.ops[i].term \in T /\ e.ops[i].op \in Operators
<1>1. e.term \in T /\ e.ops \in Seq(OperationNode(T))
  BY DEF ExpressionNode
<1>2. Len(e.ops) \in Nat /\ \A i \in 1 .. Len(e.ops) : e.ops[i] \in OperationNode(T)
  <2> HIDE DEF OperationNode
  <2> QED
    BY <1>1
<1> QED
  BY <1>1, <1>2 DEF OperationNode

LEMMA CallParts ==
  ASSUME NEW T, NEW call \in SubroutineCallNode(T)
  PROVE  /\ call.args \in Seq(ExpressionNode(T))
         /\ Len(call.args) \in Nat
         /\ \A i \in 1 .. Len(call.args) : call.args[i] \in ExpressionNode(T)
<1>1. call.args \in Seq(ExpressionNode(T))
  BY DEF SubroutineCallNode
<1> QED
  BY <1>1

LEMMA OptionalIsSeq ==
  ASSUME NEW S, NEW list \in Optional(S)
  PROVE  list \in Seq(S)
<1>1. \A s \in [1 .. 1 -> S] : s \in Seq(S)
  BY SeqDef
<1>2. list = <<>> \/ list \in [1 .. 1 -> S]
  BY DEF Optional
<1>3. <<>> \in Seq(S)
  OBVIOUS
<1> QED
  BY <1>1, <1>2, <1>3

-----------------------------------------------------------------------------
(* What is counted for the parts decides what is counted for the whole.    *)
LEMMA CountsAgree ==
  ASSUME NEW T, NEW f, NEW g, \A y \in T : f[y] = g[y]
  PROVE  /\ \A e \in ExpressionNode(T) : ExpressionVectors(f, e) = ExpressionVectors(g, e)
         /\ \A call \in SubroutineCallNode(T) : CallVectors(f, call) = CallVectors(g, call)
<1>1. ASSUME NEW e \in ExpressionNode(T) PROVE ExpressionVectors(f, e) = ExpressionVectors(g, e)
  <2>1. /\ [i \in 1 .. Len(e.ops) |-> f[e.ops[i].term]]
             = [i \in 1 .. Len(e.ops) |-> g[e.ops[i].term]]
        /\ f[e.term] = g[e.term]
    BY ExpressionParts
  <2> QED
    BY <2>1 DEF ExpressionVectors
<1>2. ASSUME NEW call \in SubroutineCallNode(T) PROVE CallVectors(f, call) = CallVectors(g, call)
  <2>1. [i \in 1 .. Len(call.args) |-> ExpressionVectors(f, call.args[i])]
          = [i \in 1 .. Len(call.args) |-> ExpressionVectors(g, call.args[i])]
    BY <1>1, CallParts
  <2> QED
    BY <2>1 DEF CallVectors
<1> QED
  BY <1>1, <1>2

LEMMA TermVectorsEquation ==
  /\ DOMAIN TermVectors = Terms
  /\ \A x \in Terms : TermVectors[x] = TermVectorsAt(TermVectors, x)
<1>1. TermsCounted!Nested
  BY TermsNest DEF TermsCounted!Nested
<1>2. ASSUME NEW x \in SimpleTerms, NEW f PROVE TermVectorsAt(f, x) = NoVectors
  BY SimpleTermKinds DEF TermVectorsAt, CompoundKinds
<1>3. ASSUME NEW T, NEW x \in CompoundTerms(T), NEW f, NEW g, \A y \in T : f[y] = g[y]
      PROVE  TermVectorsAt(f, x) = TermVectorsAt(g, x)
  BY <1>3, CompoundTermKinds, CountsAgree DEF TermVectorsAt
<1>4. TermsCounted!LooksDown
  <2>1. \A f, g : \A x \in TermsTo(0) : TermVectorsAt(f, x) = TermVectorsAt(g, x)
    BY <1>2, TermsNest
  <2>2. ASSUME NEW n \in Nat, NEW f, NEW g, \A y \in TermsTo(n) : f[y] = g[y],
               NEW x \in TermsTo(n + 1)
        PROVE  TermVectorsAt(f, x) = TermVectorsAt(g, x)
    <3>1. x \in SimpleTerms \/ x \in CompoundTerms(TermsTo(n))
      BY TermsNest
    <3> QED
      BY <1>2, <1>3, <2>2, <3>1
  <2> QED
    BY <2>1, <2>2 DEF TermsCounted!LooksDown
<1>5. \E f : f = [x \in TermsTo(Nesting) |-> TermVectorsAt(f, x)]
  BY <1>1, <1>4, NestingAssumption, TermsCounted!FunctionExists
<1>6. \E f : f = [x \in Terms |-> TermVectorsAt(f, x)]
  BY <1>5, TermsNest
<1>7. TermVectors = CHOOSE f : f = [x \in Terms |-> TermVectorsAt(f, x)]
  BY DEF TermVectors, TermVectorsAt
<1>8. TermVectors = [x \in Terms |-> TermVectorsAt(TermVectors, x)]
  BY <1>6, <1>7
<1> QED
  BY <1>8

LEMMA TermCounts ==
  /\ \A x \in Terms : TermVectors[x] \in Counts
  /\ \A e \in Expressions : Expression(e) \in Counts
  /\ \A call \in SubroutineCalls : CallVectors(TermVectors, call) \in Counts
<1>1. ASSUME NEW T, \A y \in T : TermVectors[y] \in Counts
      PROVE  /\ \A e \in ExpressionNode(T) : ExpressionVectors(TermVectors, e) \in Counts
             /\ \A call \in SubroutineCallNode(T) : CallVectors(TermVectors, call) \in Counts
  <2>1. ASSUME NEW e \in ExpressionNode(T) PROVE ExpressionVectors(TermVectors, e) \in Counts
    <3> DEFINE operands == [i \in 1 .. Len(e.ops) |-> TermVectors[e.ops[i].term]]
    <3>1. operands \in Seq(Counts)
      BY <1>1, ExpressionParts
    <3>2. Total(operands) \in Counts
      BY <3>1, TotalTyped
    <3>3. TermVectors[e.term] \in Counts /\ VectorsOf("EXPRESSION") \in Counts
      BY <1>1, ExpressionParts, PlusLaws
    <3> HIDE DEF operands
    <3>4. <<VectorsOf("EXPRESSION"), TermVectors[e.term], Total(operands)>> \in Seq(Counts)
      BY <3>2, <3>3
    <3> QED
      BY <3>4, TotalTyped DEF ExpressionVectors, operands
  <2>2. ASSUME NEW call \in SubroutineCallNode(T)
        PROVE  CallVectors(TermVectors, call) \in Counts
    <3> DEFINE args == [i \in 1 .. Len(call.args) |-> ExpressionVectors(TermVectors, call.args[i])]
    <3>1. args \in Seq(Counts)
      BY <2>1, CallParts
    <3>2. Total(args) \in Counts
      BY <3>1, TotalTyped
    <3> QED
      BY <3>2, PlusLaws DEF CallVectors
  <2> QED
    BY <2>1, <2>2
<1> DEFINE Good == {x \in Terms : TermVectors[x] \in Counts}
<1>2. SimpleTerms \subseteq Good
  <2>1. ASSUME NEW x \in SimpleTerms PROVE x \in Terms
    BY TermsNest, NestingAssumption, TermsCounted!LevelsGrow
  <2>2. ASSUME NEW x \in SimpleTerms PROVE TermVectors[x] \in Counts
    BY <2>1, SimpleTermKinds, TermVectorsEquation, PlusLaws DEF TermVectorsAt, CompoundKinds
  <2> QED
    BY <2>1, <2>2
<1>3. ASSUME NEW x \in Terms, x \in CompoundTerms(Terms \intersect Good)
      PROVE  x \in Good
  <2>1. \A y \in Terms \intersect Good : TermVectors[y] \in Counts
    OBVIOUS
  <2>2. TermVectors[x] = TermVectorsAt(TermVectors, x)
    BY TermVectorsEquation
  <2> DEFINE T == Terms \intersect Good
  <2> HIDE DEF Good, T
  <2>3. TermVectorsAt(TermVectors, x) \in Counts
    BY <1>1, <1>3, <2>1, CompoundTermKinds DEF TermVectorsAt, T
  <2> QED
    BY <2>2, <2>3 DEF Good
<1> HIDE DEF Good
<1>4. Terms \subseteq Good
  BY <1>2, <1>3, TermInduction
<1>5. \A x \in Terms : TermVectors[x] \in Counts
  BY <1>4 DEF Good
<1> QED
  BY <1>1, <1>5 DEF Expressions, SubroutineCalls, Expression

LEMMA SimpleStatementKinds ==
  ASSUME NEW s \in SimpleStatements
  PROVE  \/ /\ s.is = "let" /\ s.right \in Expressions /\ s.index \in Seq(Expressions)
            /\ s.index \in Optional(Expressions)
         \/ s.is = "do" /\ s.call \in SubroutineCalls
         \/ /\ s.is = "return" /\ s.value \in Seq(Expressions)
            /\ s.value \in Optional(Expressions)
<1>1. \/ s.is = "let" /\ s.right \in Expressions /\ s.index \in Optional(Expressions)
      \/ s.is = "do" /\ s.call \in SubroutineCalls
      \/ s.is = "return" /\ s.value \in Optional(Expressions)
  BY DEF SimpleStatements
<1> QED
  BY <1>1, OptionalIsSeq

LEMMA CompoundStatementKinds ==
  ASSUME NEW S, NEW s \in CompoundStatements(S)
  PROVE  \/ s.is = "if" /\ s.condition \in Expressions /\ s.then \in Seq(S) /\ s.else \in Seq(S)
         \/ s.is = "while" /\ s.condition \in Expressions /\ s.body \in Seq(S)
BY DEF CompoundStatements

LEMMA BlocksAgree ==
  ASSUME NEW S, NEW f, NEW g, \A y \in S : f[y] = g[y], NEW block \in Seq(S)
  PROVE  BlockVectors(f, block) = BlockVectors(g, block)
<1>1. [i \in 1 .. Len(block) |-> f[block[i]]] = [i \in 1 .. Len(block) |-> g[block[i]]]
  OBVIOUS
<1> QED
  BY <1>1 DEF BlockVectors

LEMMA BlockTyped ==
  ASSUME NEW S, NEW f, \A y \in S : f[y] \in Counts, NEW block \in Seq(S)
  PROVE  BlockVectors(f, block) \in Counts
<1> DEFINE counts == [i \in 1 .. Len(block) |-> f[block[i]]]
<1>1. counts \in Seq(Counts)
  OBVIOUS
<1>2. Total(counts) \in Counts
  BY <1>1, TotalTyped
<1> QED
  BY <1>2, PlusLaws DEF BlockVectors

LEMMA PartsTyped ==
  ASSUME NEW list \in Seq(Expressions)
  PROVE  Parts(list) \in Counts
<1> DEFINE counts == [i \in 1 .. Len(list) |-> Expression(list[i])]
<1>1. counts \in Seq(Counts)
  <2>1. \A i \in 1 .. Len(list) : list[i] \in Expressions /\ Len(list) \in Nat
    OBVIOUS
  <2>2. \A i \in 1 .. Len(list) : Expression(list[i]) \in Counts
    BY <2>1, TermCounts
  <2> QED
    BY <2>2
<1> QED
  BY <1>1, TotalTyped DEF Parts

LEMMA StatementVectorsEquation ==
  \A x \in Statements : StatementVectors[x] = StatementVectorsAt(StatementVectors, x)
<1>1. StatementsCounted!Nested
  BY StatementsNest DEF StatementsCounted!Nested
<1>2. ASSUME NEW x \in SimpleStatements, NEW f, NEW g
      PROVE  StatementVectorsAt(f, x) = StatementVectorsAt(g, x)
  BY SimpleStatementKinds DEF StatementVectorsAt
<1>3. ASSUME NEW S, NEW x \in CompoundStatements(S), NEW f, NEW g, \A y \in S : f[y] = g[y]
      PROVE  StatementVectorsAt(f, x) = StatementVectorsAt(g, x)
  <2>1. CASE x.is = "if"
    <3>1. x.then \in Seq(S) /\ x.else \in Seq(S)
      BY <2>1, CompoundStatementKinds
    <3>2. /\ BlockVectors(f, x.then) = BlockVectors(g, x.then)
          /\ BlockVectors(f, x.else) = BlockVectors(g, x.else)
      BY <1>3, <3>1, BlocksAgree
    <3> QED
      BY <2>1, <3>2 DEF StatementVectorsAt
  <2>2. CASE x.is = "while"
    <3>1. x.body \in Seq(S)
      BY <2>2, CompoundStatementKinds
    <3>2. BlockVectors(f, x.body) = BlockVectors(g, x.body)
      BY <1>3, <3>1, BlocksAgree
    <3> QED
      BY <2>2, <3>2 DEF StatementVectorsAt
  <2> QED
    BY <2>1, <2>2, CompoundStatementKinds
<1>4. StatementsCounted!LooksDown
  <2>1. \A f, g : \A x \in StatementsTo(0) : StatementVectorsAt(f, x) = StatementVectorsAt(g, x)
    BY <1>2, StatementsNest
  <2>2. ASSUME NEW n \in Nat, NEW f, NEW g, \A y \in StatementsTo(n) : f[y] = g[y],
               NEW x \in StatementsTo(n + 1)
        PROVE  StatementVectorsAt(f, x) = StatementVectorsAt(g, x)
    <3>1. x \in SimpleStatements \/ x \in CompoundStatements(StatementsTo(n))
      BY StatementsNest
    <3> QED
      BY <1>2, <1>3, <2>2, <3>1
  <2> QED
    BY <2>1, <2>2 DEF StatementsCounted!LooksDown
<1>5. \E f : f = [x \in StatementsTo(Nesting) |-> StatementVectorsAt(f, x)]
  BY <1>1, <1>4, NestingAssumption, StatementsCounted!FunctionExists
<1>6. \E f : f = [x \in Statements |-> StatementVectorsAt(f, x)]
  BY <1>5, StatementsNest
<1>7. \E f : f = [s \in Statements |->
            CASE s.is = "let" -> Plus(Parts(s.index), Expression(s.right))
              [] s.is = "if" ->
                   Total(<<Expression(s.condition), BlockVectors(f, s.then),
                           IF s.else = <<>> THEN NoVectors ELSE BlockVectors(f, s.else)>>)
              [] s.is = "while" -> Plus(Expression(s.condition), BlockVectors(f, s.body))
              [] s.is = "do" -> CallVectors(TermVectors, s.call)
              [] s.is = "return" -> Parts(s.value)]
  BY <1>6 DEF StatementVectorsAt
<1>8. StatementVectors = [s \in Statements |->
            CASE s.is = "let" -> Plus(Parts(s.index), Expression(s.right))
              [] s.is = "if" ->
                   Total(<<Expression(s.condition), BlockVectors(StatementVectors, s.then),
                           IF s.else = <<>> THEN NoVectors ELSE BlockVectors(StatementVectors, s.else)>>)
              [] s.is = "while" -> Plus(Expression(s.condition), BlockVectors(StatementVectors, s.body))
              [] s.is = "do" -> CallVectors(TermVectors, s.call)
              [] s.is = "return" -> Parts(s.value)]
  BY <1>7 DEF StatementVectors
<1>9. StatementVectors = [x \in Statements |-> StatementVectorsAt(StatementVectors, x)]
  BY <1>8 DEF StatementVectorsAt
<1> QED
  BY <1>9

LEMMA StatementCounts == \A x \in Statements : StatementVectors[x] \in Counts
<1> DEFINE Good == {x \in Statements : StatementVectors[x] \in Counts}
<1>1. SimpleStatements \subseteq Good
  <2>1. ASSUME NEW x \in SimpleStatements PROVE x \in Statements
    BY StatementsNest, NestingAssumption
  <2>2. ASSUME NEW x \in SimpleStatements PROVE StatementVectorsAt(StatementVectors, x) \in Counts
    BY SimpleStatementKinds, PartsTyped, TermCounts, PlusLaws DEF StatementVectorsAt
  <2> QED
    BY <2>1, <2>2, StatementVectorsEquation
<1>2. ASSUME NEW x \in Statements, x \in CompoundStatements(Statements \intersect Good)
      PROVE  x \in Good
  <2> DEFINE S == Statements \intersect Good
  <2>1. \A y \in S : StatementVectors[y] \in Counts
    OBVIOUS
  <2> HIDE DEF Good, S
  <2>2. CASE x.is = "if"
    <3>1. x.condition \in Expressions /\ x.then \in Seq(S) /\ x.else \in Seq(S)
      BY <1>2, <2>2, CompoundStatementKinds DEF S
    <3>2. /\ BlockVectors(StatementVectors, x.then) \in Counts
          /\ BlockVectors(StatementVectors, x.else) \in Counts
          /\ Expression(x.condition) \in Counts /\ NoVectors \in Counts
      BY <2>1, <3>1, BlockTyped, TermCounts, PlusLaws
    <3>3. <<Expression(x.condition), BlockVectors(StatementVectors, x.then),
            IF x.else = <<>> THEN NoVectors
            ELSE BlockVectors(StatementVectors, x.else)>> \in Seq(Counts)
      BY <3>2
    <3>4. StatementVectorsAt(StatementVectors, x) \in Counts
      BY <2>2, <3>3, TotalTyped DEF StatementVectorsAt
    <3> QED
      BY <3>4, StatementVectorsEquation DEF Good
  <2>3. CASE x.is = "while"
    <3>1. x.condition \in Expressions /\ x.body \in Seq(S)
      BY <1>2, <2>3, CompoundStatementKinds DEF S
    <3>2. /\ BlockVectors(StatementVectors, x.body) \in Counts
          /\ Expression(x.condition) \in Counts
      BY <2>1, <3>1, BlockTyped, TermCounts
    <3>3. StatementVectorsAt(StatementVectors, x) \in Counts
      BY <2>3, <3>2, PlusLaws DEF StatementVectorsAt
    <3> QED
      BY <3>3, StatementVectorsEquation DEF Good
  <2> QED
    BY <1>2, <2>2, <2>3, CompoundStatementKinds
<1> HIDE DEF Good
<1>3. Statements \subseteq Good
  BY <1>1, <1>2, StatementInduction
<1> QED
  BY <1>3 DEF Good

BodyVectors(sub) ==
  Plus(VectorsOf("SUBROUTINE_BODY"),
       Plus(Each("VAR_DEC", sub.varDecs), BlockVectors(StatementVectors, sub.body)))

LEMMA EachTyped ==
  ASSUME NEW type, NEW S, NEW list \in Seq(S)
  PROVE  Each(type, list) \in Counts
<1> DEFINE counts == [i \in 1 .. Len(list) |-> VectorsOf(type)]
<1>1. counts \in Seq(Counts)
  BY PlusLaws
<1> QED
  BY <1>1, TotalTyped DEF Each

LEMMA TotalOfFirst ==
  ASSUME NEW x \in Counts, NEW rest \in Seq(Counts)
  PROVE  Total(<<x>> \o rest) = Plus(x, Total(rest))
<1>1. <<x>> \in Seq(Counts)
  OBVIOUS
<1>2. Total(<<x>> \o rest) = Plus(Total(<<x>>), Total(rest))
  BY <1>1, TotalOfConcat
<1> QED
  BY <1>2, TotalOfOne

LEMMA TotalOfTwo ==
  ASSUME NEW x \in Counts, NEW y \in Counts
  PROVE  Total(<<x, y>>) = Plus(x, y)
<1>1. <<y>> \in Seq(Counts)
  OBVIOUS
<1>2. <<x, y>> = <<x>> \o <<y>>
  <2>1. <<x, y>> \in Seq(Counts) /\ Len(<<x, y>>) = 2
        /\ <<x, y>>[1] = x /\ <<x, y>>[2] = y
    OBVIOUS
  <2>2. <<x>> \o <<y>> \in Seq(Counts) /\ Len(<<x>> \o <<y>>) = 2
        /\ (<<x>> \o <<y>>)[1] = x /\ (<<x>> \o <<y>>)[2] = y
    OBVIOUS
  <2>3. \A i \in 1 .. 2 : i = 1 \/ i = 2
    OBVIOUS
  <2> QED
    BY <2>1, <2>2, <2>3, SeqEqual
<1>3. Total(<<x>> \o <<y>>) = Plus(x, Total(<<y>>))
  BY <1>1, TotalOfFirst
<1> QED
  BY <1>2, <1>3, TotalOfOne

LEMMA TotalOfThree ==
  ASSUME NEW x \in Counts, NEW y \in Counts, NEW z \in Counts
  PROVE  Total(<<x, y, z>>) = Plus(x, Plus(y, z))
<1>1. <<y, z>> \in Seq(Counts) /\ <<x, y, z>> = <<x>> \o <<y, z>>
  OBVIOUS
<1>2. Total(<<x>> \o <<y, z>>) = Plus(x, Total(<<y, z>>))
  BY <1>1, TotalOfFirst
<1> QED
  BY <1>1, <1>2, TotalOfTwo

LEMMA TotalOfFour ==
  ASSUME NEW w \in Counts, NEW x \in Counts, NEW y \in Counts, NEW z \in Counts
  PROVE  Total(<<w, x, y, z>>) = Plus(w, Plus(x, Plus(y, z)))
<1>1. <<x, y, z>> \in Seq(Counts) /\ <<w, x, y, z>> = <<w>> \o <<x, y, z>>
  OBVIOUS
<1>2. Total(<<w>> \o <<x, y, z>>) = Plus(w, Total(<<x, y, z>>))
  BY <1>1, TotalOfFirst
<1> QED
  BY <1>1, <1>2, TotalOfThree

LEMMA SubroutineTyped ==
  ASSUME NEW sub \in SubroutineDecNode
  PROVE  /\ sub.params \in ParameterListNode /\ sub.varDecs \in Seq(VarDecNode)
         /\ sub.body \in Seq(Statements)
         /\ Each("VAR_DEC", sub.varDecs) \in Counts
         /\ BlockVectors(StatementVectors, sub.body) \in Counts
         /\ BodyVectors(sub) \in Counts
         /\ SubroutineVectors(sub) = Plus(VectorsOf("PARAMETER_LIST"), BodyVectors(sub))
         /\ SubroutineVectors(sub) \in Counts
<1>1. /\ sub.params \in ParameterListNode /\ sub.varDecs \in Seq(VarDecNode)
      /\ sub.body \in Seq(Statements)
  BY DEF SubroutineDecNode
<1>2. /\ Each("VAR_DEC", sub.varDecs) \in Counts
      /\ BlockVectors(StatementVectors, sub.body) \in Counts
  BY <1>1, EachTyped, StatementCounts, BlockTyped
<1>3. BodyVectors(sub) \in Counts
  BY <1>2, PlusLaws DEF BodyVectors
<1>4. SubroutineVectors(sub) = Plus(VectorsOf("PARAMETER_LIST"), BodyVectors(sub))
  <2> DEFINE a == VectorsOf("PARAMETER_LIST")
             b == VectorsOf("SUBROUTINE_BODY")
             c == Each("VAR_DEC", sub.varDecs)
             d == BlockVectors(StatementVectors, sub.body)
  <2>1. a \in Counts /\ b \in Counts /\ c \in Counts /\ d \in Counts
    BY <1>2, PlusLaws
  <2> HIDE DEF a, b, c, d
  <2>2. Total(<<a, b, c, d>>) = Plus(a, Plus(b, Plus(c, d)))
    BY <2>1, TotalOfFour
  <2> QED
    BY <2>2 DEF SubroutineVectors, BodyVectors, a, b, c, d
<1> QED
  BY <1>1, <1>2, <1>3, <1>4, PlusLaws

-----------------------------------------------------------------------------
(* The recursions of the analysis and of the generation of terms.          *)
AnalyzeAt(f, term) ==
  CASE term.is = "none" -> Dead("exited")
    [] term.is = "incomplete" -> Error(Typed(Unset))
    [] term.is = "int" -> Typed("int")
    [] term.is = "string" -> Typed("String")
    [] term.is = "true" \/ term.is = "false" -> Typed("boolean")
    [] term.is = "null" -> Typed("null")
    [] term.is = "this" -> Typed(currentClassName)
    [] term.is = "var" -> analyze_var_term_node(term)
    [] term.is = "call" -> analyze_subroutine_call_node(f, term.call)
    [] term.is = "paren" -> analyze_expression_node(f, term.of)
    [] term.is = "unary" -> analyze_unary_op_node(f, term)
    [] term.is = "array" -> analyze_array_access_node(f, term)

GenerateAt(f, term) ==
  CASE term.is = "none" -> Ends("exited")
    [] term.is = "incomplete" -> Written(<<>>)
    [] term.is = "int" -> write_push("constant", term.value)
    [] term.is = "string" -> StringCode(term.length)
    [] term.is = "true" -> write_push("constant", -1)
    [] term.is = "false" \/ term.is = "null" -> write_push("constant", 0)
    [] term.is = "this" -> Followed(write_push("constant", 0), write_pop("pointer", 0))
    [] term.is = "var" -> WithVariable("push", term.name)
    [] term.is = "call" -> generate_sub_call_node(f, term.call)
    [] term.is = "paren" -> generate_expression_node(f, term.of)
    [] term.is = "unary" -> Followed(f[term.of], UnaryCode(term.op))
    [] term.is = "array" -> generate_array_access(f, term)

TermsAnalyzed == INSTANCE Recursion WITH Level <- TermsTo, Def <- AnalyzeAt

TermsGenerated == INSTANCE Recursion WITH Level <- TermsTo, Def <- GenerateAt

(* What the parts are found to be decides what the whole is.               *)
LEMMA AnalysesAgree ==
  ASSUME NEW T, NEW f, NEW g, \A y \in T : f[y] = g[y]
  PROVE  /\ \A e \in ExpressionNode(T) : analyze_expression_node(f, e) = analyze_expression_node(g, e)
         /\ \A call \in SubroutineCallNode(T) :
              analyze_subroutine_call_node(f, call) = analyze_subroutine_call_node(g, call)
<1>1. ASSUME NEW e \in ExpressionNode(T)
      PROVE  /\ analyze_expression_node(f, e) = analyze_expression_node(g, e)
             /\ f[e.term] = g[e.term]
  <2>1. /\ [i \in 1 .. Len(e.ops) |-> f[e.ops[i].term]]
             = [i \in 1 .. Len(e.ops) |-> g[e.ops[i].term]]
        /\ f[e.term] = g[e.term]
    BY ExpressionParts
  <2> QED
    BY <2>1 DEF analyze_expression_node
<1>2. ASSUME NEW call \in SubroutineCallNode(T)
      PROVE  analyze_subroutine_call_node(f, call) = analyze_subroutine_call_node(g, call)
  <2>1. ASSUME NEW callee PROVE Arguments(f, call, callee) = Arguments(g, call, callee)
    <3> DEFINE found(h, i) == Argument(call, Parameters(callee), i,
                                       analyze_expression_node(h, call.args[i]),
                                       h[call.args[i].term].type)
    <3>1. \A i \in 1 .. Len(call.args) : found(f, i) = found(g, i)
      BY <1>1, CallParts
    <3> HIDE DEF found
    <3>2. [i \in 1 .. Len(call.args) |-> found(f, i)] = [i \in 1 .. Len(call.args) |-> found(g, i)]
      BY <3>1
    <3> QED
      BY <3>2 DEF Arguments, found
  <2> QED
    BY <2>1 DEF analyze_subroutine_call_node, CalleeTyped
<1> QED
  BY <1>1, <1>2

LEMMA GenerationsAgree ==
  ASSUME NEW T, NEW f, NEW g, \A y \in T : f[y] = g[y]
  PROVE  /\ \A e \in ExpressionNode(T) : generate_expression_node(f, e) = generate_expression_node(g, e)
         /\ \A call \in SubroutineCallNode(T) :
              generate_sub_call_node(f, call) = generate_sub_call_node(g, call)
<1>1. ASSUME NEW e \in ExpressionNode(T)
      PROVE  generate_expression_node(f, e) = generate_expression_node(g, e)
  <2>1. /\ [i \in 1 .. Len(e.ops) |-> Followed(f[e.ops[i].term], OperatorCode(e.ops[i].op))]
             = [i \in 1 .. Len(e.ops) |-> Followed(g[e.ops[i].term], OperatorCode(e.ops[i].op))]
        /\ f[e.term] = g[e.term]
    BY ExpressionParts
  <2> QED
    BY <2>1 DEF generate_expression_node
<1>2. ASSUME NEW call \in SubroutineCallNode(T)
      PROVE  generate_sub_call_node(f, call) = generate_sub_call_node(g, call)
  <2>1. [i \in 1 .. Len(call.args) |-> generate_expression_node(f, call.args[i])]
          = [i \in 1 .. Len(call.args) |-> generate_expression_node(g, call.args[i])]
    BY <1>1, CallParts
  <2>2. ArgumentsCode(f, call) = ArgumentsCode(g, call)
    BY <2>1 DEF ArgumentsCode
  <2> QED
    BY <2>2 DEF generate_sub_call_node, CallCode
<1> QED
  BY <1>1, <1>2

LEMMA AnalysisEquation ==
  \A x \in Terms : analyze_term_node[x] = AnalyzeAt(analyze_term_node, x)
<1>1. TermsAnalyzed!Nested
  BY TermsNest DEF TermsAnalyzed!Nested
<1>2. ASSUME NEW x \in SimpleTerms, NEW f, NEW g PROVE AnalyzeAt(f, x) = AnalyzeAt(g, x)
  BY SimpleTermKinds DEF AnalyzeAt, CompoundKinds
<1>3. ASSUME NEW T, NEW x \in CompoundTerms(T), NEW f, NEW g, \A y \in T : f[y] = g[y]
      PROVE  AnalyzeAt(f, x) = AnalyzeAt(g, x)
  <2>1. CASE x.is = "call" /\ x.call \in SubroutineCallNode(T)
    BY <1>3, <2>1, AnalysesAgree DEF AnalyzeAt
  <2>2. CASE x.is = "paren" /\ x.of \in ExpressionNode(T)
    BY <1>3, <2>2, AnalysesAgree DEF AnalyzeAt
  <2>3. CASE x.is = "unary" /\ x.of \in T
    BY <1>3, <2>3 DEF AnalyzeAt, analyze_unary_op_node
  <2>4. CASE x.is = "array" /\ x.index \in ExpressionNode(T)
    <3>1. analyze_array_access_node(f, x) = analyze_array_access_node(g, x)
      BY <1>3, <2>4, AnalysesAgree DEF analyze_array_access_node
    <3> QED
      BY <2>4, <3>1 DEF AnalyzeAt
  <2> QED
    BY <2>1, <2>2, <2>3, <2>4, CompoundTermKinds
<1>4. TermsAnalyzed!LooksDown
  <2>1. \A f, g : \A x \in TermsTo(0) : AnalyzeAt(f, x) = AnalyzeAt(g, x)
    BY <1>2, TermsNest
  <2>2. ASSUME NEW n \in Nat, NEW f, NEW g, \A y \in TermsTo(n) : f[y] = g[y],
               NEW x \in TermsTo(n + 1)
        PROVE  AnalyzeAt(f, x) = AnalyzeAt(g, x)
    <3>1. x \in SimpleTerms \/ x \in CompoundTerms(TermsTo(n))
      BY TermsNest
    <3> QED
      BY <1>2, <1>3, <2>2, <3>1
  <2> QED
    BY <2>1, <2>2 DEF TermsAnalyzed!LooksDown
<1>5. \E f : f = [x \in TermsTo(Nesting) |-> AnalyzeAt(f, x)]
  BY <1>1, <1>4, NestingAssumption, TermsAnalyzed!FunctionExists
<1>6. \E f : f = [x \in Terms |-> AnalyzeAt(f, x)]
  BY <1>5, TermsNest
<1>7. \E f : f = [term \in Terms |->
         CASE term.is = "none" -> Dead("exited")
           [] term.is = "incomplete" -> Error(Typed(Unset))
           [] term.is = "int" -> Typed("int")
           [] term.is = "string" -> Typed("String")
           [] term.is = "true" \/ term.is = "false" -> Typed("boolean")
           [] term.is = "null" -> Typed("null")
           [] term.is = "this" -> Typed(currentClassName)
           [] term.is = "var" -> analyze_var_term_node(term)
           [] term.is = "call" -> analyze_subroutine_call_node(f, term.call)
           [] term.is = "paren" -> analyze_expression_node(f, term.of)
           [] term.is = "unary" -> analyze_unary_op_node(f, term)
           [] term.is = "array" -> analyze_array_access_node(f, term)]
  BY <1>6 DEF AnalyzeAt
<1>8. analyze_term_node = [x \in Terms |-> AnalyzeAt(analyze_term_node, x)]
  BY <1>7 DEF analyze_term_node, AnalyzeAt
<1> QED
  BY <1>8

LEMMA GenerationEquation ==
  \A x \in Terms : generate_term_node[x] = GenerateAt(generate_term_node, x)
<1>1. TermsGenerated!Nested
  BY TermsNest DEF TermsGenerated!Nested
<1>2. ASSUME NEW x \in SimpleTerms, NEW f, NEW g PROVE GenerateAt(f, x) = GenerateAt(g, x)
  BY SimpleTermKinds DEF GenerateAt, CompoundKinds
<1>3. ASSUME NEW T, NEW x \in CompoundTerms(T), NEW f, NEW g, \A y \in T : f[y] = g[y]
      PROVE  GenerateAt(f, x) = GenerateAt(g, x)
  <2>1. CASE x.is = "call" /\ x.call \in SubroutineCallNode(T)
    BY <1>3, <2>1, GenerationsAgree DEF GenerateAt
  <2>2. CASE x.is = "paren" /\ x.of \in ExpressionNode(T)
    BY <1>3, <2>2, GenerationsAgree DEF GenerateAt
  <2>3. CASE x.is = "unary" /\ x.of \in T
    BY <1>3, <2>3 DEF GenerateAt
  <2>4. CASE x.is = "array" /\ x.index \in ExpressionNode(T)
    <3>1. generate_array_access(f, x) = generate_array_access(g, x)
      BY <1>3, <2>4, GenerationsAgree DEF generate_array_access
    <3> QED
      BY <2>4, <3>1 DEF GenerateAt
  <2> QED
    BY <2>1, <2>2, <2>3, <2>4, CompoundTermKinds
<1>4. TermsGenerated!LooksDown
  <2>1. \A f, g : \A x \in TermsTo(0) : GenerateAt(f, x) = GenerateAt(g, x)
    BY <1>2, TermsNest
  <2>2. ASSUME NEW n \in Nat, NEW f, NEW g, \A y \in TermsTo(n) : f[y] = g[y],
               NEW x \in TermsTo(n + 1)
        PROVE  GenerateAt(f, x) = GenerateAt(g, x)
    <3>1. x \in SimpleTerms \/ x \in CompoundTerms(TermsTo(n))
      BY TermsNest
    <3> QED
      BY <1>2, <1>3, <2>2, <3>1
  <2> QED
    BY <2>1, <2>2 DEF TermsGenerated!LooksDown
<1>5. \E f : f = [x \in TermsTo(Nesting) |-> GenerateAt(f, x)]
  BY <1>1, <1>4, NestingAssumption, TermsGenerated!FunctionExists
<1>6. \E f : f = [x \in Terms |-> GenerateAt(f, x)]
  BY <1>5, TermsNest
<1>7. \E f : f = [term \in Terms |->
         CASE term.is = "none" -> Ends("exited")
           [] term.is = "incomplete" -> Written(<<>>)
           [] term.is = "int" -> write_push("constant", term.value)
           [] term.is = "string" -> StringCode(term.length)
           [] term.is = "true" -> write_push("constant", -1)
           [] term.is = "false" \/ term.is = "null" -> write_push("constant", 0)
           [] term.is = "this" -> Followed(write_push("constant", 0), write_pop("pointer", 0))
           [] term.is = "var" -> WithVariable("push", term.name)
           [] term.is = "call" -> generate_sub_call_node(f, term.call)
           [] term.is = "paren" -> generate_expression_node(f, term.of)
           [] term.is = "unary" -> Followed(f[term.of], UnaryCode(term.op))
           [] term.is = "array" -> generate_array_access(f, term)]
  BY <1>6 DEF GenerateAt
<1>8. generate_term_node = [x \in Terms |-> GenerateAt(generate_term_node, x)]
  BY <1>7 DEF generate_term_node, GenerateAt
<1> QED
  BY <1>8

-----------------------------------------------------------------------------
(* What the analysis and the generation can make of a term, whatever is in *)
(* the tables.                                                             *)
Fates == {"running", "crashed", "exited", "aborted"}

Results(T) == [type : T, errors : Nat, fate : Fates]

(* The types met in the analysis of an expression.                         *)
TypesMet ==
  Basic \union {Null, currentClassName}
    \union {Lookup(name, "CLASS").type : name \in Names}
    \union {Callee(call).type : call \in SubroutineCalls}

LEMMA Outcomes ==
  ASSUME NEW T, "int" \in T
  PROVE  /\ \A t \in T : Typed(t) \in Results(T) /\ Typed(t).type = t
         /\ \A how \in Fates : Dead(how) \in Results(T)
         /\ \A r \in Results(T) : Error(r) \in Results(T) /\ Error(r).type = r.type
         /\ \A r, s \in Results(T) : After(r, s) \in Results(T)
         /\ \A r \in Results(T) : \A types : ErrorShowing(r, types) \in Results(T)
<1>1. \A t \in T : Typed(t) \in Results(T) /\ Typed(t).type = t
  BY DEF Typed, Results, Fates
<1>2. \A how \in Fates : Dead(how) \in Results(T)
  BY DEF Dead, Results, Unset
<1>3. \A r \in Results(T) : Error(r) \in Results(T) /\ Error(r).type = r.type
  BY DEF Error, Results
<1>4. \A r, s \in Results(T) : After(r, s) \in Results(T)
  BY DEF After, Results
<1>5. "crashed" \in Fates /\ "exited" \in Fates
  BY DEF Fates
<1>6. \A r \in Results(T) : \A types : ErrorShowing(r, types) \in Results(T)
  BY <1>2, <1>3, <1>4, <1>5 DEF ErrorShowing
<1> QED
  BY <1>1, <1>2, <1>3, <1>4, <1>6

LEMMA OperationOutcome ==
  ASSUME NEW T, "int" \in T, "boolean" \in T, NEW r \in Results(T), NEW next \in Results(T), NEW op
  PROVE  AddOperation(r, op, next) \in Results(T)
<1>1. r.type \in T /\ Makes(op) \in T
  BY DEF Results, Makes
<1>2. Operation(r, op, next) \in Results(T)
  BY <1>1, Outcomes DEF Operation
<1> QED
  BY <1>2, Outcomes DEF AddOperation

LEMMA OperationsSteps ==
  ASSUME NEW T, "int" \in T, "boolean" \in T, NEW first \in Results(T), NEW ops,
         Len(ops) \in Nat, NEW operands, \A i \in 1 .. Len(ops) : operands[i] \in Results(T)
  PROVE  \E g \in [0 .. Len(ops) -> Results(T)] :
           /\ g[0] = FirstTerm(first)
           /\ \A i \in 1 .. Len(ops) :
                g[i] = IF g[i - 1].fate = "running"
                       THEN AddOperation(g[i - 1], ops[i].op, operands[i]) ELSE g[i - 1]
           /\ OperationsTyped(first, ops, operands) = g[Len(ops)]
<1> DEFINE n == Len(ops)
           V == Results(T)
           turn(i, r) == IF r.fate = "running" THEN AddOperation(r, ops[i].op, operands[i]) ELSE r
           step == [i \in Nat |-> [v \in V |-> IF i \in 1 .. n THEN turn(i, v) ELSE v]]
<1>1. FirstTerm(first) \in V
  <2>1. Dead("crashed") \in V
    BY Outcomes DEF Fates
  <2> QED
    BY <2>1, Outcomes DEF FirstTerm
<1>2. \A i \in 1 .. n : \A r \in V : turn(i, r) \in V
  <2> HIDE DEF V
  <2>1. \A i \in 1 .. n : \A r \in V : AddOperation(r, ops[i].op, operands[i]) \in V
    BY OperationOutcome DEF V
  <2> QED
    BY <2>1
<1> HIDE DEF turn, V
<1>3. /\ step \in [Nat -> [V -> V]]
      /\ \A i \in 1 .. n : \A v \in V : step[i][v] = turn(i, v)
  <2>1. ASSUME NEW i \in Nat
        PROVE  /\ step[i] = [v \in V |-> IF i \in 1 .. n THEN turn(i, v) ELSE v]
               /\ step[i] \in [V -> V]
    BY <1>2
  <2>2. \A i \in 1 .. n : i \in Nat
    OBVIOUS
  <2>3. step = [i \in Nat |-> step[i]]
    OBVIOUS
  <2> HIDE DEF step
  <2> QED
    BY <2>1, <2>2, <2>3
<1> HIDE DEF step, n
<1>4. n \in Nat
  BY DEF n
<1>5. PICK f \in [0 .. n -> V] : TermsAnalyzed!Folded(f, 0, n, FirstTerm(first), step)
  BY <1>1, <1>3, <1>4, TermsAnalyzed!FoldTyped
<1>6. f = [i \in 0 .. n |-> IF i = 0 THEN FirstTerm(first) ELSE turn(i, f[i - 1])]
  <2>1. ASSUME NEW i \in 0 .. n
        PROVE  f[i] = IF i = 0 THEN FirstTerm(first) ELSE turn(i, f[i - 1])
    <3>1. i # 0 => i - 1 \in 0 .. n /\ i \in 1 .. n
      BY <1>4
    <3> QED
      BY <1>3, <1>5, <3>1 DEF TermsAnalyzed!Folded
  <2>2. f = [i \in 0 .. n |-> f[i]]
    BY <1>5
  <2> QED
    BY <2>1, <2>2
<1>7. \E g : g = [i \in 0 .. Len(ops) |->
                    IF i = 0 THEN FirstTerm(first)
                    ELSE LET r == g[i - 1] IN
                         IF r.fate = "running" THEN AddOperation(r, ops[i].op, operands[i]) ELSE r]
  BY <1>6 DEF n, turn
<1>8. PICK g : /\ g = [i \in 0 .. n |-> IF i = 0 THEN FirstTerm(first) ELSE turn(i, g[i - 1])]
                /\ OperationsTyped(first, ops, operands) = g[n]
  BY <1>7 DEF OperationsTyped, n, turn
<1>9. \A i \in 0 .. n : g[i] \in V
  <2>1. g[0] \in V
    BY <1>1, <1>4, <1>8
  <2>2. ASSUME NEW i \in 0 + 1 .. n, g[i - 1] \in V PROVE g[i] \in V
    <3>1. i \in 0 .. n /\ i # 0 /\ i \in 1 .. n
      BY <1>4
    <3> QED
      BY <1>2, <1>8, <2>2, <3>1
  <2> QED
    BY <1>4, <2>1, <2>2, TermsAnalyzed!FoldInvariant
<1>10. g \in [0 .. n -> V] /\ g[0] = FirstTerm(first)
  BY <1>4, <1>8, <1>9
<1>11. \A i \in 1 .. n : g[i] = turn(i, g[i - 1])
  <2>1. \A i \in 1 .. n : i \in 0 .. n /\ i # 0
    BY <1>4
  <2> QED
    BY <1>8, <2>1
<1> QED
  BY <1>8, <1>10, <1>11 DEF V, n, turn

LEMMA OperationsOutcome ==
  ASSUME NEW T, "int" \in T, "boolean" \in T, NEW first \in Results(T), NEW ops,
         Len(ops) \in Nat, NEW operands, \A i \in 1 .. Len(ops) : operands[i] \in Results(T)
  PROVE  OperationsTyped(first, ops, operands) \in Results(T)
<1> DEFINE V == Results(T)
<1>1. PICK g \in [0 .. Len(ops) -> V] : OperationsTyped(first, ops, operands) = g[Len(ops)]
  BY OperationsSteps
<1> HIDE DEF V
<1> QED
  BY <1>1 DEF V

LEMMA SequenceSteps ==
  ASSUME NEW T, "int" \in T, NEW r \in Results(T), NEW results, Len(results) \in Nat,
         \A i \in 1 .. Len(results) : results[i] \in Results(T)
  PROVE  \E g \in [0 .. Len(results) -> Results(T)] :
           /\ g[0] = r
           /\ \A i \in 1 .. Len(results) : g[i] = After(g[i - 1], results[i])
           /\ AfterAll(r, results) = g[Len(results)]
<1> DEFINE n == Len(results)
           V == Results(T)
           step == [i \in Nat |-> [v \in V |-> IF i \in 1 .. n THEN After(v, results[i]) ELSE v]]
<1>1. \A i \in 1 .. n : \A v \in V : After(v, results[i]) \in V
  BY Outcomes
<1> HIDE DEF V
<1>2. /\ step \in [Nat -> [V -> V]]
      /\ \A i \in 1 .. n : \A v \in V : step[i][v] = After(v, results[i])
  <2>1. ASSUME NEW i \in Nat
        PROVE  /\ step[i] = [v \in V |-> IF i \in 1 .. n THEN After(v, results[i]) ELSE v]
               /\ step[i] \in [V -> V]
    BY <1>1
  <2>2. \A i \in 1 .. n : i \in Nat
    OBVIOUS
  <2>3. step = [i \in Nat |-> step[i]]
    OBVIOUS
  <2> HIDE DEF step
  <2> QED
    BY <2>1, <2>2, <2>3
<1> HIDE DEF step, n
<1>3. n \in Nat /\ r \in V
  BY DEF n, V
<1>4. PICK f \in [0 .. n -> V] : TermsAnalyzed!Folded(f, 0, n, r, step)
  BY <1>2, <1>3, TermsAnalyzed!FoldTyped
<1>5. f = [i \in 0 .. n |-> IF i = 0 THEN r ELSE After(f[i - 1], results[i])]
  <2>1. ASSUME NEW i \in 0 .. n
        PROVE  f[i] = IF i = 0 THEN r ELSE After(f[i - 1], results[i])
    <3>1. i # 0 => i - 1 \in 0 .. n /\ i \in 1 .. n
      BY <1>3
    <3> QED
      BY <1>2, <1>4, <3>1 DEF TermsAnalyzed!Folded
  <2>2. f = [i \in 0 .. n |-> f[i]]
    BY <1>4
  <2> QED
    BY <2>1, <2>2
<1>6. PICK g : /\ g = [i \in 0 .. n |-> IF i = 0 THEN r ELSE After(g[i - 1], results[i])]
               /\ AfterAll(r, results) = g[n]
  BY <1>5 DEF AfterAll, n
<1>7. \A i \in 0 .. n : g[i] \in V
  <2>1. g[0] \in V
    BY <1>3, <1>6
  <2>2. ASSUME NEW i \in 0 + 1 .. n, g[i - 1] \in V PROVE g[i] \in V
    <3>1. i \in 0 .. n /\ i # 0 /\ i \in 1 .. n
      BY <1>3
    <3> QED
      BY <1>1, <1>6, <2>2, <3>1
  <2> QED
    BY <1>3, <2>1, <2>2, TermsAnalyzed!FoldInvariant
<1>8. g \in [0 .. n -> V] /\ g[0] = r
  BY <1>3, <1>6, <1>7
<1>9. \A i \in 1 .. n : g[i] = After(g[i - 1], results[i])
  <2>1. \A i \in 1 .. n : i \in 0 .. n /\ i # 0
    BY <1>3
  <2> QED
    BY <1>6, <2>1
<1> QED
  BY <1>6, <1>8, <1>9 DEF V, n

LEMMA SequenceOutcome ==
  ASSUME NEW T, "int" \in T, NEW r \in Results(T), NEW results, Len(results) \in Nat,
         \A i \in 1 .. Len(results) : results[i] \in Results(T)
  PROVE  AfterAll(r, results) \in Results(T)
<1> DEFINE V == Results(T)
<1>1. PICK g \in [0 .. Len(results) -> V] : AfterAll(r, results) = g[Len(results)]
  BY SequenceSteps
<1> HIDE DEF V
<1> QED
  BY <1>1 DEF V

LEMMA ExpressionOutcome ==
  ASSUME NEW T, "int" \in T, "boolean" \in T, NEW S, NEW f, \A y \in S : f[y] \in Results(T),
         NEW e \in ExpressionNode(S)
  PROVE  analyze_expression_node(f, e) \in Results(T)
<1> DEFINE operands == [i \in 1 .. Len(e.ops) |-> f[e.ops[i].term]]
<1>1. f[e.term] \in Results(T) /\ Len(e.ops) \in Nat
  BY ExpressionParts
<1>2. \A i \in 1 .. Len(e.ops) : operands[i] \in Results(T)
  BY ExpressionParts
<1> HIDE DEF operands
<1>3. OperationsTyped(f[e.term], e.ops, operands) \in Results(T)
  BY <1>1, <1>2, OperationsOutcome
<1> QED
  BY <1>3 DEF analyze_expression_node, operands

LEMMA CallOutcome ==
  ASSUME NEW T, "int" \in T, "boolean" \in T, NEW S, NEW f, \A y \in S : f[y] \in Results(T),
         NEW call \in SubroutineCallNode(S), Callee(call).type \in T
  PROVE  analyze_subroutine_call_node(f, call) \in Results(T)
<1> DEFINE callee == Callee(call)
           found(i) == Argument(call, Parameters(callee), i, analyze_expression_node(f, call.args[i]),
                                f[call.args[i].term].type)
           results == [i \in 1 .. Len(call.args) |-> found(i)]
<1>1. \A how \in {"crashed", "aborted"} : Dead(how) \in Results(T)
  BY Outcomes DEF Fates
<1>2. \A i \in 1 .. Len(call.args) : found(i) \in Results(T)
  <2> SUFFICES ASSUME NEW i \in 1 .. Len(call.args) PROVE found(i) \in Results(T)
    OBVIOUS
  <2>1. analyze_expression_node(f, call.args[i]) \in Results(T)
    BY CallParts, ExpressionOutcome
  <2> QED
    BY <1>1, <2>1, Outcomes DEF Argument
<1> HIDE DEF found
<1>3. Len(call.args) \in Nat
  BY CallParts
<1>4. Len(results) = Len(call.args) /\ \A i \in 1 .. Len(results) : results[i] \in Results(T)
  BY <1>2, <1>3
<1> HIDE DEF results
<1>5. Typed(callee.type) \in Results(T)
  BY Outcomes
<1>6. AfterAll(Typed(callee.type), results) \in Results(T)
  BY <1>3, <1>4, <1>5, SequenceOutcome
<1>7. Arguments(f, call, callee) \in Results(T)
  BY <1>6 DEF Arguments, results, found
<1>8. [Arguments(f, call, callee) EXCEPT !.type = callee.type] \in Results(T)
  BY <1>7 DEF Results
<1>9. Error(Typed(Unset)) \in Results(T)
  BY Outcomes DEF Unset
<1> QED
  BY <1>1, <1>8, <1>9 DEF analyze_subroutine_call_node, CalleeTyped

LEMMA VariableOutcome ==
  ASSUME NEW T, "int" \in T, NEW term, NEW symbol, Found(symbol) => symbol.type \in T
  PROVE  VarTerm(term, symbol) \in Results(T)
<1>1. Dead("crashed") \in Results(T) /\ Dead("exited") \in Results(T)
  BY Outcomes DEF Fates
<1>2. Error(Typed(Unset)) \in Results(T)
  BY Outcomes DEF Unset
<1>3. Found(symbol) => Typed(symbol.type) \in Results(T) /\ Error(Typed(symbol.type)) \in Results(T)
  BY Outcomes
<1> QED
  BY <1>1, <1>2, <1>3 DEF VarTerm, Member

LEMMA ArrayOutcome ==
  ASSUME NEW T, "int" \in T, Null \in T, NEW symbol, Found(symbol) => symbol.type \in T
  PROVE  ArrayTerm(symbol) \in Results(T)
BY Outcomes DEF ArrayTerm

LEMMA ArrayName == ASSUME NEW T, NEW x \in CompoundTerms(T), x.is = "array" PROVE x.name \in Names
BY DEF CompoundTerms

(* The analysis of any term ends in one of these ways, and so does that of *)
(* an expression or a call.                                                *)
THEOREM TermOutcomes == \A x \in Terms : analyze_term_node[x] \in Results(TypesMet)
<1> DEFINE T == TypesMet
           Good == {x \in Terms : analyze_term_node[x] \in Results(T)}
<1>1. /\ "int" \in T /\ "boolean" \in T /\ "String" \in T /\ "null" \in T /\ Null \in T
      /\ currentClassName \in T
      /\ \A name \in Names : Lookup(name, "CLASS").type \in T
      /\ \A call \in SubroutineCalls : Callee(call).type \in T
  BY DEF TypesMet, Basic
<1> HIDE DEF T
<1>2. Dead("exited") \in Results(T) /\ Error(Typed(Unset)) \in Results(T)
  BY <1>1, Outcomes DEF Fates, Unset
<1>3. SimpleTerms \subseteq Good
  <2> SUFFICES ASSUME NEW x \in SimpleTerms
               PROVE  x \in Terms /\ AnalyzeAt(analyze_term_node, x) \in Results(T)
    BY AnalysisEquation
  <2>1. x \in Terms
    BY TermsNest
  <2>2. x.is = "var" => x.name \in Names
    BY SimpleTermKinds DEF SimpleTerms, VarTermNode
  <2>3. x.is = "var" => analyze_var_term_node(x) \in Results(T)
    BY <1>1, <2>2, VariableOutcome DEF analyze_var_term_node
  <2>4. \A t \in {"int", "String", "boolean", "null", currentClassName} : Typed(t) \in Results(T)
    BY <1>1, Outcomes
  <2> QED
    BY <1>2, <2>1, <2>3, <2>4, SimpleTermKinds DEF AnalyzeAt
<1>4. ASSUME NEW x \in Terms, x \in CompoundTerms(Terms \intersect Good) PROVE x \in Good
  <2> DEFINE S == Terms \intersect Good
  <2>1. \A y \in S : analyze_term_node[y] \in Results(T)
    OBVIOUS
  <2> HIDE DEF Good
  <2> SUFFICES AnalyzeAt(analyze_term_node, x) \in Results(T)
    BY AnalysisEquation DEF Good
  <2> HIDE DEF S
  <2>2. CASE x.is = "call" /\ x.call \in SubroutineCallNode(S)
    <3>1. x.call \in SubroutineCalls
      <4>1. x \in CompoundTerms(Terms)
        BY <2>2, SimpleTermKinds, TermParts DEF CompoundKinds
      <4> QED
        BY <2>2, <4>1, CompoundTermKinds DEF SubroutineCalls
    <3> QED
      BY <1>1, <2>1, <2>2, <3>1, CallOutcome DEF AnalyzeAt
  <2>3. CASE x.is = "paren" /\ x.of \in ExpressionNode(S)
    BY <1>1, <2>1, <2>3, ExpressionOutcome DEF AnalyzeAt
  <2>4. CASE x.is = "unary" /\ x.of \in S
    <3>1. analyze_unary_op_node(analyze_term_node, x) \in Results(T)
      BY <1>1, <2>1, <2>4, Outcomes DEF analyze_unary_op_node, UnaryOperation
    <3> QED
      BY <2>4, <3>1 DEF AnalyzeAt
  <2>5. CASE x.is = "array" /\ x.index \in ExpressionNode(S)
    <3>1. x.name \in Names
      BY <1>4, <2>5, ArrayName
    <3>2. ArrayTerm(Lookup(x.name, "CLASS")) \in Results(T)
      BY <1>1, <3>1, ArrayOutcome
    <3>3. analyze_expression_node(analyze_term_node, x.index) \in Results(T)
      BY <1>1, <2>1, <2>5, ExpressionOutcome
    <3>4. analyze_array_access_node(analyze_term_node, x) \in Results(T)
      BY <1>1, <3>2, <3>3, Outcomes DEF analyze_array_access_node
    <3> QED
      BY <2>5, <3>4 DEF AnalyzeAt
  <2>6. x \in CompoundTerms(S)
    BY <1>4 DEF S
  <2> QED
    BY <2>2, <2>3, <2>4, <2>5, <2>6, CompoundTermKinds
<1>5. Terms \subseteq Good
  <2> HIDE DEF Good
  <2> QED
    BY <1>3, <1>4, TermInduction
<1> QED
  BY <1>5 DEF T

(* What a generate function can write.                                     *)
Writings(C) == [code : Seq(C), errors : Nat, fate : Fates]

IsWritten(w) == \E C : w \in Writings(C)

AreWritten(list) == \E C : list \in Seq(Writings(C))

LEMMA WritingsGrow ==
  ASSUME NEW C, NEW D, C \subseteq D
  PROVE  Writings(C) \subseteq Writings(D) /\ Seq(Writings(C)) \subseteq Seq(Writings(D))
<1>1. Seq(C) \subseteq Seq(D)
  BY SeqMonotonic
<1>2. Writings(C) \subseteq Writings(D)
  BY <1>1 DEF Writings
<1> QED
  BY <1>2, SeqMonotonic

LEMMA SomeWritten ==
  /\ \A i : IsWritten(Written(<<i>>))
  /\ IsWritten(Written(<<>>))
  /\ \A how \in Fates : IsWritten(Ends(how))
  /\ \A op, segment, index : IsWritten(Access(op, segment, index))
<1>1. "running" \in Fates
  BY DEF Fates
<1>2. ASSUME NEW i PROVE IsWritten(Written(<<i>>))
  <2>1. <<i>> \in Seq({i})
    OBVIOUS
  <2>2. Written(<<i>>) \in Writings({i})
    BY <1>1, <2>1 DEF Written, Writings
  <2> QED
    BY <2>2 DEF IsWritten
<1>3. <<>> \in Seq({})
  OBVIOUS
<1>4. Written(<<>>) \in Writings({})
  BY <1>1, <1>3 DEF Written, Writings
<1>5. ASSUME NEW how \in Fates PROVE Ends(how) \in Writings({})
  BY <1>3 DEF Ends, Writings
<1>6. ASSUME NEW op, NEW segment, NEW index PROVE IsWritten(Access(op, segment, index))
  <2> DEFINE i == [op |-> op, segment |-> segment, index |-> index]
  <2>1. <<i>> \in Seq({i})
    OBVIOUS
  <2>2. Access(op, segment, index) = [code |-> <<i>>, errors |-> IF segment = "NONE" THEN 1 ELSE 0,
                                      fate |-> "running"]
    BY DEF Access
  <2> HIDE DEF i
  <2>3. Access(op, segment, index) \in Writings({i})
    BY <1>1, <2>1, <2>2 DEF Writings
  <2> QED
    BY <2>3 DEF IsWritten
<1> QED
  BY <1>2, <1>4, <1>5, <1>6 DEF IsWritten

LEMMA FollowedTyped ==
  ASSUME NEW C, NEW a \in Writings(C), NEW b \in Writings(C)
  PROVE  Followed(a, b) \in Writings(C)
<1>1. a.code \in Seq(C) /\ b.code \in Seq(C) /\ a.errors + b.errors \in Nat /\ b.fate \in Fates
  BY DEF Writings
<1>2. a.code \o b.code \in Seq(C)
  BY <1>1, ConcatProperties
<1> QED
  BY <1>1, <1>2 DEF Followed, Writings

LEMMA FollowedWritten ==
  ASSUME NEW a, NEW b, IsWritten(a), IsWritten(b)
  PROVE  IsWritten(Followed(a, b))
<1>1. PICK C : a \in Writings(C)
  BY DEF IsWritten
<1>2. PICK D : b \in Writings(D)
  BY DEF IsWritten
<1>3. a \in Writings(C \union D) /\ b \in Writings(C \union D)
  <2>1. C \subseteq C \union D /\ D \subseteq C \union D
    OBVIOUS
  <2> QED
    BY <1>1, <1>2, <2>1, WritingsGrow
<1> QED
  BY <1>3, FollowedTyped DEF IsWritten

LEMMA ListWritten ==
  ASSUME NEW n \in Nat, NEW list, list = [i \in 1 .. n |-> list[i]],
         \A i \in 1 .. n : IsWritten(list[i])
  PROVE  AreWritten(list)
<1> DEFINE of[i \in 1 .. n] == CHOOSE C : list[i] \in Writings(C)
           D == UNION {of[i] : i \in 1 .. n}
<1>1. ASSUME NEW i \in 1 .. n PROVE list[i] \in Writings(D)
  <2>1. list[i] \in Writings(of[i])
    BY DEF IsWritten
  <2>2. of[i] \subseteq D
    OBVIOUS
  <2> HIDE DEF of, D
  <2> QED
    BY <2>1, <2>2, WritingsGrow
<1> HIDE DEF D
<1>2. list \in Seq(Writings(D))
  <2> DEFINE W == Writings(D)
  <2>1. \A i \in 1 .. n : list[i] \in W
    BY <1>1
  <2> HIDE DEF W
  <2>2. list \in [1 .. n -> W]
    BY <2>1
  <2> QED
    BY <2>2, SeqDef DEF W
<1> QED
  BY <1>2 DEF AreWritten

LEMMA ListsWritten ==
  ASSUME NEW a, NEW b, AreWritten(a), AreWritten(b)
  PROVE  AreWritten(a \o b)
<1>1. PICK C : a \in Seq(Writings(C))
  BY DEF AreWritten
<1>2. PICK D : b \in Seq(Writings(D))
  BY DEF AreWritten
<1> DEFINE W == Writings(C \union D)
<1>3. a \in Seq(W) /\ b \in Seq(W)
  <2>1. C \subseteq C \union D /\ D \subseteq C \union D
    OBVIOUS
  <2> QED
    BY <1>1, <1>2, <2>1, WritingsGrow
<1>4. a \o b \in Seq(W)
  <2> HIDE DEF W
  <2> QED
    BY <1>3, ConcatProperties
<1> QED
  BY <1>4 DEF AreWritten

(* What is written of a list is written step by step.                      *)
LEMMA AllSteps ==
  ASSUME NEW parts, AreWritten(parts)
  PROVE  \E C : \E g \in [0 .. Len(parts) -> Writings(C)] :
           /\ parts \in Seq(Writings(C))
           /\ g[0] = Written(<<>>)
           /\ \A i \in 1 .. Len(parts) : g[i] = Followed(g[i - 1], parts[i])
           /\ All(parts) = g[Len(parts)]
<1>1. PICK C : parts \in Seq(Writings(C))
  BY DEF AreWritten
<1> DEFINE n == Len(parts)
           V == Writings(C)
           start == Written(<<>>)
           step == [i \in Nat |-> [v \in V |-> IF i \in 1 .. n THEN Followed(v, parts[i]) ELSE v]]
<1>2. \A i \in 1 .. n : \A v \in V : Followed(v, parts[i]) \in V
  <2>1. \A i \in 1 .. n : parts[i] \in V
    <3> HIDE DEF V
    <3> QED
      BY <1>1 DEF V
  <2> QED
    BY <2>1, FollowedTyped
<1>3. start \in V
  <2>1. <<>> \in Seq(C)
    OBVIOUS
  <2> QED
    BY <2>1 DEF Written, Writings, Fates
<1>4. n \in Nat
  <2> HIDE DEF V
  <2> QED
    BY <1>1 DEF V
<1> HIDE DEF V, start
<1>5. /\ step \in [Nat -> [V -> V]]
      /\ \A i \in 1 .. n : \A v \in V : step[i][v] = Followed(v, parts[i])
  <2>1. ASSUME NEW i \in Nat
        PROVE  /\ step[i] = [v \in V |-> IF i \in 1 .. n THEN Followed(v, parts[i]) ELSE v]
               /\ step[i] \in [V -> V]
    BY <1>2
  <2>2. \A i \in 1 .. n : i \in Nat
    OBVIOUS
  <2>3. step = [i \in Nat |-> step[i]]
    OBVIOUS
  <2> HIDE DEF step
  <2> QED
    BY <2>1, <2>2, <2>3
<1> HIDE DEF step, n
<1>6. PICK f \in [0 .. n -> V] : TermsAnalyzed!Folded(f, 0, n, start, step)
  BY <1>3, <1>4, <1>5, TermsAnalyzed!FoldTyped
<1>7. f = [i \in 0 .. n |-> IF i = 0 THEN start ELSE Followed(f[i - 1], parts[i])]
  <2>1. ASSUME NEW i \in 0 .. n
        PROVE  f[i] = IF i = 0 THEN start ELSE Followed(f[i - 1], parts[i])
    <3>1. i # 0 => i - 1 \in 0 .. n /\ i \in 1 .. n
      BY <1>4
    <3> QED
      BY <1>5, <1>6, <3>1 DEF TermsAnalyzed!Folded
  <2>2. f = [i \in 0 .. n |-> f[i]]
    BY <1>6
  <2> QED
    BY <2>1, <2>2
<1>8. PICK g : /\ g = [i \in 0 .. n |-> IF i = 0 THEN start ELSE Followed(g[i - 1], parts[i])]
               /\ All(parts) = g[n]
  BY <1>7 DEF All, n, start
<1>9. \A i \in 0 .. n : g[i] \in V
  <2>1. g[0] \in V
    BY <1>3, <1>4, <1>8
  <2>2. ASSUME NEW i \in 0 + 1 .. n, g[i - 1] \in V PROVE g[i] \in V
    <3>1. i \in 0 .. n /\ i # 0 /\ i \in 1 .. n
      BY <1>4
    <3> QED
      BY <1>2, <1>8, <2>2, <3>1
  <2> QED
    BY <1>4, <2>1, <2>2, TermsAnalyzed!FoldInvariant
<1>10. g \in [0 .. n -> V] /\ g[0] = start
  BY <1>4, <1>8, <1>9
<1>11. \A i \in 1 .. n : g[i] = Followed(g[i - 1], parts[i])
  <2>1. \A i \in 1 .. n : i \in 0 .. n /\ i # 0
    BY <1>4
  <2> QED
    BY <1>8, <2>1
<1> QED
  BY <1>1, <1>8, <1>10, <1>11 DEF V, n, start

LEMMA AllWritten ==
  ASSUME NEW parts, AreWritten(parts)
  PROVE  IsWritten(All(parts))
<1>1. PICK C : \E g \in [0 .. Len(parts) -> Writings(C)] :
        parts \in Seq(Writings(C)) /\ All(parts) = g[Len(parts)]
  BY AllSteps
<1>2. Len(parts) \in 0 .. Len(parts)
  <2> DEFINE V == Writings(C)
  <2>1. parts \in Seq(V)
    BY <1>1
  <2> HIDE DEF V
  <2> QED
    BY <2>1
<1> QED
  BY <1>1, <1>2 DEF IsWritten

LEMMA OneWritten ==
  ASSUME NEW a, IsWritten(a)
  PROVE  AreWritten(<<a>>)
<1> DEFINE list == <<a>>
<1>1. list = [i \in 1 .. 1 |-> list[i]]
  OBVIOUS
<1>2. \A i \in 1 .. 1 : IsWritten(list[i])
  OBVIOUS
<1> HIDE DEF list
<1>3. AreWritten(list)
  BY <1>1, <1>2, ListWritten
<1> QED
  BY <1>3 DEF list

LEMMA TwoWritten ==
  ASSUME NEW a, NEW b, IsWritten(a), IsWritten(b)
  PROVE  AreWritten(<<a, b>>)
<1> DEFINE list == <<a, b>>
<1>1. list = [i \in 1 .. 2 |-> list[i]]
  OBVIOUS
<1>2. \A i \in 1 .. 2 : IsWritten(list[i])
  OBVIOUS
<1> HIDE DEF list
<1>3. AreWritten(list)
  BY <1>1, <1>2, ListWritten
<1> QED
  BY <1>3 DEF list

LEMMA ThreeWritten ==
  ASSUME NEW a, NEW b, NEW c, IsWritten(a), IsWritten(b), IsWritten(c)
  PROVE  AreWritten(<<a, b, c>>)
<1> DEFINE list == <<a, b, c>>
<1>1. list = [i \in 1 .. 3 |-> list[i]]
  OBVIOUS
<1>2. \A i \in 1 .. 3 : IsWritten(list[i])
  OBVIOUS
<1> HIDE DEF list
<1>3. AreWritten(list)
  BY <1>1, <1>2, ListWritten
<1> QED
  BY <1>3 DEF list

LEMMA FourWritten ==
  ASSUME NEW a, NEW b, NEW c, NEW d, IsWritten(a), IsWritten(b), IsWritten(c), IsWritten(d)
  PROVE  AreWritten(<<a, b, c, d>>)
<1> DEFINE list == <<a, b, c, d>>
<1>1. list = [i \in 1 .. 4 |-> list[i]]
  OBVIOUS
<1>2. \A i \in 1 .. 4 : IsWritten(list[i])
  OBVIOUS
<1> HIDE DEF list
<1>3. AreWritten(list)
  BY <1>1, <1>2, ListWritten
<1> QED
  BY <1>3 DEF list

LEMMA FiveWritten ==
  ASSUME NEW a, NEW b, NEW c, NEW d, NEW e, IsWritten(a), IsWritten(b), IsWritten(c), IsWritten(d), IsWritten(e)
  PROVE  AreWritten(<<a, b, c, d, e>>)
<1> DEFINE list == <<a, b, c, d, e>>
<1>1. list = [i \in 1 .. 5 |-> list[i]]
  OBVIOUS
<1>2. \A i \in 1 .. 5 : IsWritten(list[i])
  OBVIOUS
<1> HIDE DEF list
<1>3. AreWritten(list)
  BY <1>1, <1>2, ListWritten
<1> QED
  BY <1>3 DEF list

LEMMA EightWritten ==
  ASSUME NEW a, NEW b, NEW c, NEW d, NEW e, NEW f, NEW g, NEW h, IsWritten(a), IsWritten(b), IsWritten(c), IsWritten(d), IsWritten(e), IsWritten(f), IsWritten(g), IsWritten(h)
  PROVE  AreWritten(<<a, b, c, d, e, f, g, h>>)
<1> DEFINE list == <<a, b, c, d, e, f, g, h>>
<1>1. list = [i \in 1 .. 8 |-> list[i]]
  OBVIOUS
<1>2. \A i \in 1 .. 8 : IsWritten(list[i])
  OBVIOUS
<1> HIDE DEF list
<1>3. AreWritten(list)
  BY <1>1, <1>2, ListWritten
<1> QED
  BY <1>3 DEF list

(* The instructions that are written one at a time.                        *)
LEMMA InstructionsWritten ==
  /\ \A command : IsWritten(write_arithmetic(command))
  /\ \A label : IsWritten(write_label(label)) /\ IsWritten(write_goto(label)) /\ IsWritten(write_if(label))
  /\ \A name, n : IsWritten(write_call(name, n)) /\ IsWritten(write_function(name, n))
  /\ IsWritten(write_return)
  /\ \A segment, index : IsWritten(write_push(segment, index)) /\ IsWritten(write_pop(segment, index))
  /\ \A op, symbol : IsWritten(AccessVariable(op, symbol))
  /\ \A op, name : IsWritten(WithVariable(op, name))
  /\ \A op : IsWritten(OperatorCode(op)) /\ IsWritten(UnaryCode(op))
<1>1. \A command : IsWritten(write_arithmetic(command))
  BY SomeWritten DEF write_arithmetic
<1>2. \A label : IsWritten(write_label(label)) /\ IsWritten(write_goto(label)) /\ IsWritten(write_if(label))
  BY SomeWritten DEF write_label, write_goto, write_if
<1>3. \A name, n : IsWritten(write_call(name, n)) /\ IsWritten(write_function(name, n))
  BY SomeWritten DEF write_call, write_function
<1>4. IsWritten(write_return)
  BY SomeWritten DEF write_return
<1>5. \A segment, index : IsWritten(write_push(segment, index)) /\ IsWritten(write_pop(segment, index))
  BY SomeWritten DEF write_push, write_pop
<1>6. IsWritten(Crash)
  BY SomeWritten DEF Crash, Fates
<1>7. \A op, symbol : IsWritten(AccessVariable(op, symbol))
  BY <1>6, SomeWritten DEF AccessVariable
<1>8. \A op, name : IsWritten(WithVariable(op, name))
  BY <1>7 DEF WithVariable
<1>9. \A op : IsWritten(OperatorCode(op)) /\ IsWritten(UnaryCode(op))
  BY <1>1, <1>3, SomeWritten DEF OperatorCode, UnaryCode
<1> QED
  BY <1>1, <1>2, <1>3, <1>4, <1>5, <1>7, <1>8, <1>9

LEMMA ExpressionWritten ==
  ASSUME NEW S, NEW f, \A y \in S : IsWritten(f[y]), NEW e \in ExpressionNode(S)
  PROVE  IsWritten(generate_expression_node(f, e))
<1> DEFINE rest == [i \in 1 .. Len(e.ops) |-> Followed(f[e.ops[i].term], OperatorCode(e.ops[i].op))]
<1>1. IsWritten(f[e.term]) /\ Len(e.ops) \in Nat
  BY ExpressionParts
<1>2. \A i \in 1 .. Len(e.ops) : IsWritten(rest[i])
  BY ExpressionParts, InstructionsWritten, FollowedWritten
<1>3. rest = [i \in 1 .. Len(e.ops) |-> rest[i]]
  OBVIOUS
<1>4. generate_expression_node(f, e) = All(<<f[e.term]>> \o rest)
  BY DEF generate_expression_node
<1> HIDE DEF rest
<1>5. AreWritten(rest)
  BY <1>1, <1>2, <1>3, ListWritten
<1> QED
  BY <1>1, <1>4, <1>5, OneWritten, ListsWritten, AllWritten

LEMMA CallWritten ==
  ASSUME NEW S, NEW f, \A y \in S : IsWritten(f[y]), NEW call \in SubroutineCallNode(S)
  PROVE  IsWritten(generate_sub_call_node(f, call))
<1> DEFINE list == [i \in 1 .. Len(call.args) |-> generate_expression_node(f, call.args[i])]
<1>1. Len(call.args) \in Nat
  BY CallParts
<1>2. \A i \in 1 .. Len(call.args) : IsWritten(list[i])
  BY CallParts, ExpressionWritten
<1>3. list = [i \in 1 .. Len(call.args) |-> list[i]]
  OBVIOUS
<1>4. ArgumentsCode(f, call) = All(list)
  BY DEF ArgumentsCode
<1> HIDE DEF list
<1>5. IsWritten(ArgumentsCode(f, call))
  BY <1>1, <1>2, <1>3, <1>4, ListWritten, AllWritten
<1>6. ASSUME NEW caller, NEW callee PROVE IsWritten(CallCode(f, call, caller, callee))
  <2>1. CASE Receives(call, caller, callee)
    BY <1>5, <2>1, InstructionsWritten, ThreeWritten, AllWritten DEF CallCode
  <2>2. CASE ~Receives(call, caller, callee)
    BY <1>5, <2>2, InstructionsWritten, FollowedWritten DEF CallCode
  <2> QED
    BY <2>1, <2>2
<1>7. IsWritten(Crash)
  BY SomeWritten DEF Crash, Fates
<1> QED
  BY <1>6, <1>7, SomeWritten DEF generate_sub_call_node

LEMMA StringWritten == ASSUME NEW length \in Nat PROVE IsWritten(StringCode(length))
<1> DEFINE character == Followed(write_push("constant", 97), write_call(<<"String", "appendChar">>, 2))
           list == [i \in 1 .. length |-> character]
           head == <<write_push("constant", length), write_call(<<"String", "new">>, 1)>>
<1>1. IsWritten(character)
  BY InstructionsWritten, FollowedWritten
<1>2. StringCode(length) = All(head \o list)
  BY DEF StringCode
<1> HIDE DEF character
<1>3. \A i \in 1 .. length : IsWritten(list[i])
  BY <1>1
<1>4. list = [i \in 1 .. length |-> list[i]]
  OBVIOUS
<1> HIDE DEF list
<1>5. AreWritten(list)
  BY <1>3, <1>4, ListWritten
<1>6. AreWritten(head)
  BY InstructionsWritten, TwoWritten
<1> HIDE DEF head
<1> QED
  BY <1>2, <1>5, <1>6, ListsWritten, AllWritten

LEMMA ArrayWritten ==
  ASSUME NEW S, NEW f, \A y \in S : IsWritten(f[y]), NEW term, term.index \in ExpressionNode(S)
  PROVE  IsWritten(generate_array_access(f, term))
<1>1. IsWritten(generate_expression_node(f, term.index))
  BY ExpressionWritten
<1> QED
  BY <1>1, InstructionsWritten, FiveWritten, AllWritten DEF generate_array_access

(* And so it is with the generation of any term: it writes instructions,   *)
(* and goes on, exits, crashes or aborts.                                  *)
LEMMA TermsWritten == \A x \in Terms : IsWritten(generate_term_node[x])
<1> DEFINE Good == {x \in Terms : IsWritten(generate_term_node[x])}
<1>1. SimpleTerms \subseteq Good
  <2> SUFFICES ASSUME NEW x \in SimpleTerms
               PROVE  x \in Terms /\ IsWritten(GenerateAt(generate_term_node, x))
    BY GenerationEquation
  <2>1. x \in Terms
    BY TermsNest
  <2>2. x.is = "string" => x.length \in Nat
    BY SimpleTermKinds DEF SimpleTerms, VarTermNode
  <2>3. x.is = "string" => IsWritten(StringCode(x.length))
    BY <2>2, StringWritten
  <2>4. IsWritten(Ends("exited")) /\ IsWritten(Written(<<>>))
    BY SomeWritten DEF Fates
  <2>5. IsWritten(Followed(write_push("constant", 0), write_pop("pointer", 0)))
    BY InstructionsWritten, FollowedWritten
  <2>6. IsWritten(write_push("constant", x.value)) /\ IsWritten(write_push("constant", -1))
        /\ IsWritten(write_push("constant", 0)) /\ IsWritten(WithVariable("push", x.name))
    BY InstructionsWritten
  <2> QED
    BY <2>1, <2>3, <2>4, <2>5, <2>6, SimpleTermKinds DEF GenerateAt
<1>2. ASSUME NEW x \in Terms, x \in CompoundTerms(Terms \intersect Good) PROVE x \in Good
  <2> DEFINE S == Terms \intersect Good
  <2>1. \A y \in S : IsWritten(generate_term_node[y])
    OBVIOUS
  <2>2. x \in CompoundTerms(S)
    BY <1>2
  <2> HIDE DEF Good
  <2> SUFFICES IsWritten(GenerateAt(generate_term_node, x))
    BY GenerationEquation DEF Good
  <2> HIDE DEF S
  <2>3. CASE x.is = "call" /\ x.call \in SubroutineCallNode(S)
    BY <2>1, <2>3, CallWritten DEF GenerateAt
  <2>4. CASE x.is = "paren" /\ x.of \in ExpressionNode(S)
    BY <2>1, <2>4, ExpressionWritten DEF GenerateAt
  <2>5. CASE x.is = "unary" /\ x.of \in S
    BY <2>1, <2>5, InstructionsWritten, FollowedWritten DEF GenerateAt
  <2>6. CASE x.is = "array" /\ x.index \in ExpressionNode(S)
    BY <2>1, <2>6, ArrayWritten DEF GenerateAt
  <2> QED
    BY <2>2, <2>3, <2>4, <2>5, <2>6, CompoundTermKinds
<1>3. Terms \subseteq Good
  <2> HIDE DEF Good
  <2> QED
    BY <1>1, <1>2, TermInduction
<1> QED
  BY <1>3

LEMMA ExpressionOutcomes ==
  /\ \A e \in Expressions : Analyzed(e) \in Results(TypesMet)
  /\ \A call \in SubroutineCalls : analyze_call(call) \in Results(TypesMet)
<1>1. /\ "int" \in TypesMet /\ "boolean" \in TypesMet
      /\ \A call \in SubroutineCalls : Callee(call).type \in TypesMet
  BY DEF TypesMet, Basic
<1> HIDE DEF TypesMet
<1>2. \A e \in Expressions : Analyzed(e) \in Results(TypesMet)
  BY <1>1, TermOutcomes, ExpressionOutcome DEF Expressions, Analyzed
<1>3. \A call \in SubroutineCalls : analyze_call(call) \in Results(TypesMet)
  <2> SUFFICES ASSUME NEW call \in SubroutineCalls PROVE analyze_call(call) \in Results(TypesMet)
    OBVIOUS
  <2>1. call \in SubroutineCallNode(Terms) /\ Callee(call).type \in TypesMet
    BY <1>1 DEF SubroutineCalls
  <2> QED
    BY <1>1, <2>1, TermOutcomes, CallOutcome DEF analyze_call
<1> QED
  BY <1>2, <1>3

(* What is checked of a value, after its analysis.                         *)
LEMMA CheckedOutcomes ==
  /\ \A e \in Expressions : \A type : ValueTyped(Analyzed(e), type) \in Results(TypesMet)
  /\ \A e \in Expressions : \A type : ReturnTyped(Analyzed(e), type) \in Results(TypesMet)
  /\ \A e \in Expressions : IndexTyped(Analyzed(e)) \in Results(TypesMet)
<1>1. "int" \in TypesMet
  BY DEF TypesMet, Basic
<1> HIDE DEF TypesMet
<1>2. \A e \in Expressions : /\ Analyzed(e) \in Results(TypesMet)
                             /\ Error(Analyzed(e)) \in Results(TypesMet)
                             /\ \A types : ErrorShowing(Analyzed(e), types) \in Results(TypesMet)
  BY <1>1, ExpressionOutcomes, Outcomes
<1> QED
  BY <1>2 DEF ValueTyped, ReturnTyped, IndexTyped

LEMMA OptionalValue ==
  ASSUME NEW S, NEW list \in Optional(S), list # <<>>
  PROVE  list[1] \in S
BY DEF Optional

LEMMA StatementOutcomes ==
  ASSUME NEW s \in Statements
  PROVE  /\ s.is = "let" => analyze_let(s) \in Results(TypesMet)
         /\ s.is \in {"if", "while"} => analyze_condition(s.condition) \in Results(TypesMet)
         /\ s.is = "do" => analyze_call(s.call) \in Results(TypesMet)
         /\ s.is = "return" => analyze_return(s.value) \in Results(TypesMet)
<1>1. "int" \in TypesMet
  BY DEF TypesMet, Basic
<1> HIDE DEF TypesMet
<1>2. Typed(Unset) \in Results(TypesMet) /\ Error(Typed(Unset)) \in Results(TypesMet)
      /\ \A types : ErrorShowing(Typed(Unset), types) \in Results(TypesMet)
  BY <1>1, Outcomes DEF Unset
<1>3. s \in SimpleStatements \/ s \in CompoundStatements(Statements)
  BY StatementParts
<1>4. CASE s.is = "let"
  <2>1. s.right \in Expressions /\ s.index \in Optional(Expressions)
    BY <1>3, <1>4, SimpleStatementKinds, CompoundStatementKinds
  <2>2. s.index # <<>> => IndexTyped(Analyzed(s.index[1])) \in Results(TypesMet)
    BY <2>1, OptionalValue, CheckedOutcomes
  <2>3. \A type : ValueTyped(Analyzed(s.right), type) \in Results(TypesMet)
    BY <2>1, CheckedOutcomes
  <2>4. ASSUME NEW symbol PROVE LetTyped(s, symbol) \in Results(TypesMet)
    BY <1>1, <1>2, <2>2, <2>3, Outcomes DEF LetTyped
  <2> QED
    BY <1>4, <2>4 DEF analyze_let
<1>5. CASE s.is \in {"if", "while"}
  <2>1. s.condition \in Expressions
    BY <1>3, <1>5, SimpleStatementKinds, CompoundStatementKinds
  <2> QED
    BY <1>5, <2>1, CheckedOutcomes DEF analyze_condition
<1>6. CASE s.is = "do"
  <2>1. s.call \in SubroutineCalls
    BY <1>3, <1>6, SimpleStatementKinds, CompoundStatementKinds
  <2> QED
    BY <1>6, <2>1, ExpressionOutcomes
<1>7. CASE s.is = "return"
  <2>1. s.value \in Optional(Expressions)
    BY <1>3, <1>7, SimpleStatementKinds, CompoundStatementKinds
  <2>2. s.value # <<>> => \A type : ReturnTyped(Analyzed(s.value[1]), type) \in Results(TypesMet)
    BY <2>1, OptionalValue, CheckedOutcomes
  <2> QED
    BY <1>2, <1>7, <2>2 DEF analyze_return
<1> QED
  BY <1>4, <1>5, <1>6, <1>7

LEMMA ExpressionsWritten ==
  /\ \A e \in Expressions : IsWritten(Generated(e))
  /\ \A call \in SubroutineCalls : IsWritten(generate_sub_call_node(generate_term_node, call))
BY TermsWritten, ExpressionWritten, CallWritten DEF Expressions, SubroutineCalls, Generated

LEMMA StatementsWritten ==
  ASSUME NEW s \in Statements
  PROVE  /\ s.is = "let" => IsWritten(generate_let(s))
         /\ s.is \in {"if", "while"} => IsWritten(Generated(s.condition))
         /\ s.is = "do" => IsWritten(generate_do(s))
         /\ s.is = "return" => IsWritten(generate_return(s.value))
<1>1. s \in SimpleStatements \/ s \in CompoundStatements(Statements)
  BY StatementParts
<1>2. CASE s.is = "let"
  <2>1. s.right \in Expressions /\ s.index \in Optional(Expressions)
    BY <1>1, <1>2, SimpleStatementKinds, CompoundStatementKinds
  <2>2. IsWritten(Generated(s.right)) /\ (s.index # <<>> => IsWritten(Generated(s.index[1])))
    BY <2>1, OptionalValue, ExpressionsWritten
  <2>3. CASE s.index = <<>>
    BY <1>2, <2>2, <2>3, InstructionsWritten, FollowedWritten DEF generate_let
  <2>4. CASE s.index # <<>>
    BY <1>2, <2>2, <2>4, InstructionsWritten, EightWritten, AllWritten DEF generate_let
  <2> QED
    BY <2>3, <2>4
<1>3. CASE s.is \in {"if", "while"}
  <2>1. s.condition \in Expressions
    BY <1>1, <1>3, SimpleStatementKinds, CompoundStatementKinds
  <2> QED
    BY <1>3, <2>1, ExpressionsWritten
<1>4. CASE s.is = "do"
  <2>1. s.call \in SubroutineCalls
    BY <1>1, <1>4, SimpleStatementKinds, CompoundStatementKinds
  <2> QED
    BY <1>4, <2>1, ExpressionsWritten, InstructionsWritten, FollowedWritten DEF generate_do
<1>5. CASE s.is = "return"
  <2>1. s.value \in Optional(Expressions)
    BY <1>1, <1>5, SimpleStatementKinds, CompoundStatementKinds
  <2>2. s.value # <<>> => IsWritten(Generated(s.value[1]))
    BY <2>1, OptionalValue, ExpressionsWritten
  <2> QED
    BY <1>5, <2>2, InstructionsWritten, FollowedWritten DEF generate_return
<1> QED
  BY <1>2, <1>3, <1>4, <1>5

LEMMA HeadsWritten ==
  ASSUME NEW kind \in SubroutineKinds, NEW name, NEW callee
  PROVE  IsWritten(generate_sub_head(kind, name, callee))
<1> DEFINE locals == Len(get_symbols_of_kind(tables, callee.childTable, "VAR"))
           fields == Len(get_symbols_of_kind(tables, callee.table, "FIELD"))
           first == write_function(<<currentClassName, name>>, locals)
           made == <<write_push("constant", fields), write_call(<<"Memory", "alloc">>, 1),
                     write_pop("pointer", 0)>>
           given == <<write_push("argument", 0), write_pop("pointer", 0)>>
<1>1. generate_sub_head(kind, name, callee)
        = All(<<first>> \o CASE kind = "CONSTRUCTOR" -> made
                             [] kind = "METHOD" -> given
                             [] kind = "FUNCTION" -> <<>>)
  BY DEF generate_sub_head
<1>2. AreWritten(<<first>>)
  BY InstructionsWritten, OneWritten
<1>3. AreWritten(made)
  BY InstructionsWritten, ThreeWritten
<1>4. AreWritten(given)
  BY InstructionsWritten, TwoWritten
<1>5. AreWritten(<<>>)
  <2>1. <<>> \in Seq(Writings({}))
    OBVIOUS
  <2> QED
    BY <2>1 DEF AreWritten
<1> HIDE DEF first, made, given
<1>6. \A rest \in {made, given, <<>>} : IsWritten(All(<<first>> \o rest))
  BY <1>2, <1>3, <1>4, <1>5, ListsWritten, AllWritten
<1>7. kind = "CONSTRUCTOR" \/ kind = "METHOD" \/ kind = "FUNCTION"
  BY DEF SubroutineKinds
<1> QED
  BY <1>1, <1>6, <1>7

LEMMA OneAndOne ==
  ASSUME NEW a, NEW b
  PROVE  <<a>> \o <<b>> = <<a, b>>
<1> DEFINE S == {a, b}
<1>1. a \in S /\ b \in S
  OBVIOUS
<1> HIDE DEF S
<1>2. <<a>> \in Seq(S) /\ <<b>> \in Seq(S) /\ <<a, b>> \in Seq(S)
  BY <1>1
<1>3. Len(<<a>> \o <<b>>) = 2 /\ <<a>> \o <<b>> \in Seq(S)
  BY <1>2
<1>4. (<<a>> \o <<b>>)[1] = a /\ (<<a>> \o <<b>>)[2] = b
  BY <1>2
<1>5. \A i \in 1..Len(<<a, b>>) : (<<a>> \o <<b>>)[i] = <<a, b>>[i]
  BY <1>2, <1>4
<1> QED
  BY <1>2, <1>3, <1>5, SeqEqual

LEMMA UpToInduction ==
  ASSUME NEW n \in Nat, NEW T, 0 \in T, \A k \in 1 .. n : k - 1 \in T => k \in T
  PROVE  \A k \in 0 .. n : k \in T
<1> DEFINE U == {k \in Nat : k <= n => k \in T}
<1>1. 0 \in U
  OBVIOUS
<1>2. ASSUME NEW k \in U PROVE k + 1 \in U
  <2> SUFFICES ASSUME k + 1 <= n PROVE k + 1 \in T
    OBVIOUS
  <2>1. k + 1 \in 1 .. n /\ k + 1 - 1 = k
    OBVIOUS
  <2> QED
    BY <2>1
<1>3. U = Nat
  <2>1. U \in SUBSET Nat
    OBVIOUS
  <2> HIDE DEF U
  <2> QED
    BY <1>1, <1>2, <2>1, Levels!SetInduction
<1> QED
  BY <1>3

LEMMA PartsJoined ==
  ASSUME NEW a, NEW b, AreWritten(a), AreWritten(b)
  PROVE  /\ Len(a) \in Nat /\ Len(b) \in Nat /\ Len(a \o b) = Len(a) + Len(b)
         /\ \A i \in 1 .. Len(a) + Len(b) :
              (a \o b)[i] = IF i <= Len(a) THEN a[i] ELSE b[i - Len(a)]
<1>1. PICK C : a \in Seq(Writings(C))
  BY DEF AreWritten
<1>2. PICK D : b \in Seq(Writings(D))
  BY DEF AreWritten
<1> DEFINE W == Writings(C \union D)
<1>3. a \in Seq(W) /\ b \in Seq(W)
  <2>1. C \subseteq C \union D /\ D \subseteq C \union D
    OBVIOUS
  <2> QED
    BY <1>1, <1>2, <2>1, WritingsGrow
<1> HIDE DEF W
<1> QED
  BY <1>3, ConcatProperties

LEMMA OneAndTwo ==
  ASSUME NEW a, NEW b, NEW c
  PROVE  <<a>> \o <<b, c>> = <<a, b, c>>
<1> DEFINE S == {a, b, c}
           p == <<a>>
           q == <<b, c>>
           r == <<a, b, c>>
<1>1. a \in S /\ b \in S /\ c \in S
  OBVIOUS
<1> HIDE DEF S
<1>2. p \in Seq(S) /\ q \in Seq(S) /\ r \in Seq(S)
  BY <1>1
<1>3. Len(p) = 1 /\ Len(q) = 2 /\ Len(r) = 3
  OBVIOUS
<1>4. p[1] = a /\ q[1] = b /\ q[2] = c
  OBVIOUS
<1>5. r[1] = a /\ r[2] = b /\ r[3] = c
  OBVIOUS
<1> HIDE DEF p, q, r
<1>6. /\ p \o q \in Seq(S) /\ Len(p \o q) = Len(p) + Len(q)
      /\ \A i \in 1 .. Len(p) + Len(q) :
           (p \o q)[i] = IF i <= Len(p) THEN p[i] ELSE q[i - Len(p)]
  BY <1>2, ConcatProperties
<1>7. Len(p \o q) = 3 /\ (p \o q)[1] = a /\ (p \o q)[2] = b /\ (p \o q)[3] = c
  BY <1>3, <1>4, <1>6
<1>8. \A i \in 1 .. Len(r) : (p \o q)[i] = r[i]
  <2>1. \A i \in 1 .. Len(r) : i = 1 \/ i = 2 \/ i = 3
    BY <1>3
  <2> QED
    BY <1>5, <1>7, <2>1
<1>9. p \o q = r
  BY <1>2, <1>3, <1>6, <1>8, SeqEqual
<1> QED
  BY <1>9 DEF p, q, r

LEMMA OneAndThree ==
  ASSUME NEW a, NEW b, NEW c, NEW d
  PROVE  <<a>> \o <<b, c, d>> = <<a, b, c, d>>
<1> DEFINE S == {a, b, c, d}
           p == <<a>>
           q == <<b, c, d>>
           r == <<a, b, c, d>>
<1>1. a \in S /\ b \in S /\ c \in S /\ d \in S
  OBVIOUS
<1> HIDE DEF S
<1>2. p \in Seq(S) /\ q \in Seq(S) /\ r \in Seq(S)
  BY <1>1
<1>3. Len(p) = 1 /\ Len(q) = 3 /\ Len(r) = 4
  OBVIOUS
<1>4. p[1] = a /\ q[1] = b /\ q[2] = c /\ q[3] = d
  OBVIOUS
<1>5. r[1] = a /\ r[2] = b /\ r[3] = c /\ r[4] = d
  OBVIOUS
<1> HIDE DEF p, q, r
<1>6. /\ p \o q \in Seq(S) /\ Len(p \o q) = Len(p) + Len(q)
      /\ \A i \in 1 .. Len(p) + Len(q) :
           (p \o q)[i] = IF i <= Len(p) THEN p[i] ELSE q[i - Len(p)]
  BY <1>2, ConcatProperties
<1>7. Len(p \o q) = 4 /\ (p \o q)[1] = a /\ (p \o q)[2] = b /\ (p \o q)[3] = c /\ (p \o q)[4] = d
  BY <1>3, <1>4, <1>6
<1>8. \A i \in 1 .. Len(r) : (p \o q)[i] = r[i]
  <2>1. \A i \in 1 .. Len(r) : i = 1 \/ i = 2 \/ i = 3 \/ i = 4
    BY <1>3
  <2> QED
    BY <1>5, <1>7, <2>1
<1>9. p \o q = r
  BY <1>2, <1>3, <1>6, <1>8, SeqEqual
<1> QED
  BY <1>9 DEF p, q, r

LEMMA DownInduction ==
  ASSUME NEW n \in Nat, NEW T, n \in T, \A k \in 1 .. n : k \in T => k - 1 \in T
  PROVE  \A k \in 0 .. n : k \in T
<1> DEFINE U == {k \in 0 .. n : n - k \in T}
<1>1. 0 \in U
  <2>1. n - 0 = n
    OBVIOUS
  <2> QED
    BY <2>1
<1>2. ASSUME NEW k \in 1 .. n, k - 1 \in U PROVE k \in U
  <2> DEFINE m == n - (k - 1)
  <2>1. m \in 1 .. n /\ m - 1 = n - k /\ m \in T
    BY <1>2
  <2> HIDE DEF m
  <2>2. n - k \in T
    BY <2>1
  <2> QED
    BY <2>2
<1>3. \A k \in 0 .. n : k \in U
  <2> HIDE DEF U
  <2> QED
    BY <1>1, <1>2, UpToInduction
<1>4. ASSUME NEW k \in 0 .. n PROVE k \in T
  <2> DEFINE m == n - k
  <2>1. m \in 0 .. n /\ n - m = k
    OBVIOUS
  <2> HIDE DEF m
  <2>2. n - m \in T
    BY <1>3, <2>1
  <2> QED
    BY <2>1, <2>2
<1> QED
  BY <1>4

-----------------------------------------------------------------------------
(* The code of a term has neither labels nor jumps nor functions.          *)
PlainOps == {"push", "pop", "arithmetic", "call", "return"}

Only(ops, instructions) == \A i \in 1 .. Len(instructions) : instructions[i].op \in ops

IsOnly(ops, w) == IsWritten(w) /\ Only(ops, w.code)

AreOnly(ops, list) == AreWritten(list) /\ \A i \in 1 .. Len(list) : Only(ops, list[i].code)

LEMMA CodeJoined ==
  ASSUME NEW a, NEW b, IsWritten(a), IsWritten(b)
  PROVE  /\ Len(a.code) \in Nat /\ Len(b.code) \in Nat
         /\ Len(a.code \o b.code) = Len(a.code) + Len(b.code)
         /\ \A i \in 1 .. Len(a.code) + Len(b.code) :
              (a.code \o b.code)[i] = IF i <= Len(a.code) THEN a.code[i]
                                      ELSE b.code[i - Len(a.code)]
<1>1. PICK A : a \in Writings(A)
  BY DEF IsWritten
<1>2. PICK B : b \in Writings(B)
  BY DEF IsWritten
<1> DEFINE S == A \union B
<1>3. a \in Writings(S) /\ b \in Writings(S)
  <2>1. A \subseteq S /\ B \subseteq S
    OBVIOUS
  <2> QED
    BY <1>1, <1>2, <2>1, WritingsGrow
<1> HIDE DEF S
<1> DEFINE p == a.code
           q == b.code
<1>4. p \in Seq(S) /\ q \in Seq(S)
  BY <1>3 DEF Writings
<1> HIDE DEF p, q
<1>5. /\ Len(p) \in Nat /\ Len(q) \in Nat /\ Len(p \o q) = Len(p) + Len(q)
      /\ \A i \in 1 .. Len(p) + Len(q) :
           (p \o q)[i] = IF i <= Len(p) THEN p[i] ELSE q[i - Len(p)]
  BY <1>4, ConcatProperties
<1> QED
  BY <1>5 DEF p, q

LEMMA FollowedOnly ==
  ASSUME NEW ops, NEW a, NEW b, IsOnly(ops, a), IsOnly(ops, b)
  PROVE  IsOnly(ops, Followed(a, b))
<1>1. IsWritten(a) /\ IsWritten(b) /\ Only(ops, a.code) /\ Only(ops, b.code)
  BY DEF IsOnly
<1>2. IsWritten(Followed(a, b))
  BY <1>1, FollowedWritten
<1>3. CASE a.fate # "running"
  BY <1>1, <1>2, <1>3 DEF Followed, IsOnly
<1>4. CASE a.fate = "running"
  <2> DEFINE p == a.code
             q == b.code
  <2>1. /\ Len(p) \in Nat /\ Len(q) \in Nat /\ Len(p \o q) = Len(p) + Len(q)
        /\ \A i \in 1 .. Len(p) + Len(q) :
             (p \o q)[i] = IF i <= Len(p) THEN p[i] ELSE q[i - Len(p)]
    BY <1>1, CodeJoined
  <2>2. Only(ops, p) /\ Only(ops, q)
    BY <1>1
  <2> HIDE DEF p, q
  <2>3. ASSUME NEW i \in 1 .. Len(p \o q) PROVE (p \o q)[i].op \in ops
    <3>1. i \in 1 .. Len(p) + Len(q)
      BY <2>1
    <3>2. CASE i <= Len(p)
      <4>1. i \in 1 .. Len(p)
        BY <2>1, <3>2
      <4> QED
        BY <2>1, <2>2, <3>1, <3>2, <4>1 DEF Only
    <3>3. CASE ~(i <= Len(p))
      <4>1. i - Len(p) \in 1 .. Len(q)
        BY <2>1, <3>1, <3>3
      <4> QED
        BY <2>1, <2>2, <3>1, <3>3, <4>1 DEF Only
    <3> QED
      BY <3>2, <3>3
  <2>4. Only(ops, p \o q)
    BY <2>3 DEF Only
  <2>5. Followed(a, b).code = p \o q
    BY <1>4 DEF Followed, p, q
  <2> QED
    BY <1>2, <2>4, <2>5 DEF IsOnly
<1> QED
  BY <1>3, <1>4

LEMMA ListOnly ==
  ASSUME NEW ops, NEW n \in Nat, NEW list, list = [i \in 1 .. n |-> list[i]],
         \A i \in 1 .. n : IsOnly(ops, list[i])
  PROVE  AreOnly(ops, list)
<1>1. AreWritten(list)
  BY ListWritten DEF IsOnly
<1>2. Len(list) = n
  <2>1. Len([i \in 1 .. n |-> list[i]]) = n
    OBVIOUS
  <2> QED
    BY <2>1
<1> QED
  BY <1>1, <1>2 DEF AreOnly, IsOnly

LEMMA ListsOnly ==
  ASSUME NEW ops, NEW a, NEW b, AreOnly(ops, a), AreOnly(ops, b)
  PROVE  AreOnly(ops, a \o b)
<1>1. AreWritten(a) /\ AreWritten(b)
  BY DEF AreOnly
<1>2. AreWritten(a \o b)
  BY <1>1, ListsWritten
<1>3. /\ Len(a) \in Nat /\ Len(b) \in Nat /\ Len(a \o b) = Len(a) + Len(b)
      /\ \A i \in 1 .. Len(a) + Len(b) :
           (a \o b)[i] = IF i <= Len(a) THEN a[i] ELSE b[i - Len(a)]
  BY <1>1, PartsJoined
<1>4. ASSUME NEW i \in 1 .. Len(a \o b) PROVE Only(ops, (a \o b)[i].code)
  <2>1. i \in 1 .. Len(a) + Len(b)
    BY <1>3
  <2>2. CASE i <= Len(a)
    <3>1. i \in 1 .. Len(a)
      BY <1>3, <2>2
    <3> QED
      BY <1>3, <2>1, <2>2, <3>1 DEF AreOnly
  <2>3. CASE ~(i <= Len(a))
    <3>1. i - Len(a) \in 1 .. Len(b)
      BY <1>3, <2>1, <2>3
    <3> QED
      BY <1>3, <2>1, <2>3, <3>1 DEF AreOnly
  <2> QED
    BY <2>2, <2>3
<1> QED
  BY <1>2, <1>4 DEF AreOnly

LEMMA AllOnly ==
  ASSUME NEW ops, NEW parts, AreOnly(ops, parts)
  PROVE  IsOnly(ops, All(parts))
<1> DEFINE n == Len(parts)
<1>1. AreWritten(parts) /\ \A i \in 1 .. n : Only(ops, parts[i].code)
  BY DEF AreOnly
<1>2. PICK C : \E g \in [0 .. n -> Writings(C)] :
        /\ parts \in Seq(Writings(C))
        /\ g[0] = Written(<<>>)
        /\ \A i \in 1 .. n : g[i] = Followed(g[i - 1], parts[i])
        /\ All(parts) = g[n]
  BY <1>1, AllSteps
<1> DEFINE V == Writings(C)
<1>3. PICK g \in [0 .. n -> V] :
        /\ g[0] = Written(<<>>)
        /\ \A i \in 1 .. n : g[i] = Followed(g[i - 1], parts[i])
        /\ All(parts) = g[n]
  BY <1>2
<1>4. \A w \in V : IsWritten(w)
  BY DEF IsWritten
<1>5. parts \in Seq(V)
  BY <1>2
<1> HIDE DEF V
<1>6. n \in Nat /\ \A i \in 1 .. n : parts[i] \in V
  BY <1>5
<1> HIDE DEF n
<1> DEFINE T == {i \in 0 .. n : IsOnly(ops, g[i])}
<1>7. 0 \in T
  <2>1. 0 \in 0 .. n
    BY <1>6
  <2>2. IsWritten(g[0])
    BY <1>4, <2>1
  <2>3. g[0].code = <<>>
    BY <1>3 DEF Written
  <2>4. Only(ops, <<>>)
    BY DEF Only
  <2> QED
    BY <2>1, <2>2, <2>3, <2>4 DEF IsOnly
<1>8. ASSUME NEW i \in 1 .. n, i - 1 \in T PROVE i \in T
  <2>1. i \in 0 .. n
    BY <1>6
  <2>2. IsOnly(ops, parts[i]) /\ IsOnly(ops, g[i - 1])
    BY <1>1, <1>4, <1>6, <1>8 DEF IsOnly
  <2> QED
    BY <1>3, <2>1, <2>2, FollowedOnly
<1>9. n \in T
  <2> HIDE DEF T
  <2> QED
    BY <1>6, <1>7, <1>8, UpToInduction
<1> QED
  BY <1>3, <1>9

LEMMA InstructionsPlain ==
  /\ \A command : IsOnly(PlainOps, write_arithmetic(command))
  /\ \A name, n : IsOnly(PlainOps, write_call(name, n))
  /\ IsOnly(PlainOps, write_return)
  /\ IsOnly(PlainOps, Written(<<>>))
  /\ \A how \in Fates : IsOnly(PlainOps, Ends(how))
  /\ \A segment, index : IsOnly(PlainOps, write_push(segment, index)) /\ IsOnly(PlainOps, write_pop(segment, index))
  /\ \A op \in {"push", "pop"} : \A symbol : IsOnly(PlainOps, AccessVariable(op, symbol))
  /\ \A op \in {"push", "pop"} : \A name : IsOnly(PlainOps, WithVariable(op, name))
  /\ \A op : IsOnly(PlainOps, OperatorCode(op)) /\ IsOnly(PlainOps, UnaryCode(op))
<1>1. ASSUME NEW i, i.op \in PlainOps PROVE Only(PlainOps, <<i>>)
  <2>1. Len(<<i>>) = 1 /\ <<i>>[1] = i
    OBVIOUS
  <2> QED
    BY <1>1, <2>1 DEF Only
<1>2. Only(PlainOps, <<>>)
  BY DEF Only
<1>3. ASSUME NEW i, i.op \in PlainOps PROVE IsOnly(PlainOps, Written(<<i>>))
  <2>1. Written(<<i>>).code = <<i>>
    BY DEF Written
  <2> QED
    BY <1>1, <1>3, <2>1, SomeWritten DEF IsOnly
<1>4. ASSUME NEW op \in {"push", "pop"}, NEW segment, NEW index
      PROVE  IsOnly(PlainOps, Access(op, segment, index))
  <2> DEFINE i == [op |-> op, segment |-> segment, index |-> index]
  <2>1. i.op \in PlainOps
    BY DEF PlainOps
  <2>2. Access(op, segment, index).code = <<i>>
    BY DEF Access
  <2> HIDE DEF i
  <2> QED
    BY <1>1, <2>1, <2>2, SomeWritten DEF IsOnly
<1>5. ASSUME NEW command PROVE IsOnly(PlainOps, write_arithmetic(command))
  <2>1. [op |-> "arithmetic", command |-> command].op \in PlainOps
    BY DEF PlainOps
  <2> QED
    BY <1>3, <2>1 DEF write_arithmetic
<1>6. ASSUME NEW name, NEW n PROVE IsOnly(PlainOps, write_call(name, n))
  <2>1. [op |-> "call", name |-> name, args |-> n].op \in PlainOps
    BY DEF PlainOps
  <2> QED
    BY <1>3, <2>1 DEF write_call
<1>7. IsOnly(PlainOps, write_return)
  <2>1. [op |-> "return"].op \in PlainOps
    BY DEF PlainOps
  <2> QED
    BY <1>3, <2>1 DEF write_return
<1>8. IsOnly(PlainOps, Written(<<>>))
  BY <1>2, SomeWritten DEF IsOnly, Written
<1>9. \A how \in Fates : IsOnly(PlainOps, Ends(how))
  BY <1>2, SomeWritten DEF IsOnly, Ends
<1>10. \A segment, index : IsOnly(PlainOps, write_push(segment, index)) /\ IsOnly(PlainOps, write_pop(segment, index))
  BY <1>4 DEF write_push, write_pop
<1>11. IsOnly(PlainOps, Crash)
  BY <1>9 DEF Crash, Fates
<1>12. \A op \in {"push", "pop"} : \A symbol : IsOnly(PlainOps, AccessVariable(op, symbol))
  BY <1>4, <1>11 DEF AccessVariable
<1>13. \A op \in {"push", "pop"} : \A name : IsOnly(PlainOps, WithVariable(op, name))
  BY <1>12 DEF WithVariable
<1>14. \A op : IsOnly(PlainOps, OperatorCode(op)) /\ IsOnly(PlainOps, UnaryCode(op))
  BY <1>5, <1>6, <1>8 DEF OperatorCode, UnaryCode
<1> QED
  BY <1>5, <1>6, <1>7, <1>8, <1>9, <1>10, <1>12, <1>13, <1>14

LEMMA FewPlain ==
  /\ \A a : IsOnly(PlainOps, a) => AreOnly(PlainOps, <<a>>)
  /\ \A a, b : IsOnly(PlainOps, a) /\ IsOnly(PlainOps, b) => AreOnly(PlainOps, <<a, b>>)
  /\ \A a, b, c : IsOnly(PlainOps, a) /\ IsOnly(PlainOps, b) /\ IsOnly(PlainOps, c) => AreOnly(PlainOps, <<a, b, c>>)
<1>1. ASSUME NEW a, IsOnly(PlainOps, a) PROVE AreOnly(PlainOps, <<a>>)
  <2> DEFINE list == <<a>>
  <2>1. list = [i \in 1 .. 1 |-> list[i]] /\ \A i \in 1 .. 1 : IsOnly(PlainOps, list[i])
    BY <1>1
  <2> HIDE DEF list
  <2>2. AreOnly(PlainOps, list)
    BY <2>1, ListOnly
  <2> QED
    BY <2>2 DEF list
<1>2. ASSUME NEW a, NEW b, IsOnly(PlainOps, a), IsOnly(PlainOps, b) PROVE AreOnly(PlainOps, <<a, b>>)
  <2>1. AreOnly(PlainOps, <<a>> \o <<b>>)
    BY <1>1, <1>2, ListsOnly
  <2> QED
    BY <2>1, OneAndOne
<1>3. ASSUME NEW a, NEW b, NEW c, IsOnly(PlainOps, a), IsOnly(PlainOps, b), IsOnly(PlainOps, c) PROVE AreOnly(PlainOps, <<a, b, c>>)
  <2>1. AreOnly(PlainOps, <<a>> \o <<b, c>>)
    BY <1>1, <1>2, <1>3, ListsOnly
  <2> QED
    BY <2>1, OneAndTwo
<1> QED
  BY <1>1, <1>2, <1>3

LEMMA ExpressionPlain ==
  ASSUME NEW S, NEW f, \A y \in S : IsOnly(PlainOps, f[y]), NEW e \in ExpressionNode(S)
  PROVE  IsOnly(PlainOps, generate_expression_node(f, e))
<1> DEFINE rest == [i \in 1 .. Len(e.ops) |-> Followed(f[e.ops[i].term], OperatorCode(e.ops[i].op))]
<1>1. IsOnly(PlainOps, f[e.term]) /\ Len(e.ops) \in Nat
  BY ExpressionParts
<1>2. \A i \in 1 .. Len(e.ops) : IsOnly(PlainOps, rest[i])
  BY ExpressionParts, InstructionsPlain, FollowedOnly
<1>3. rest = [i \in 1 .. Len(e.ops) |-> rest[i]]
  OBVIOUS
<1>4. generate_expression_node(f, e) = All(<<f[e.term]>> \o rest)
  BY DEF generate_expression_node
<1> HIDE DEF rest
<1>5. AreOnly(PlainOps, rest)
  BY <1>1, <1>2, <1>3, ListOnly
<1> QED
  BY <1>1, <1>4, <1>5, FewPlain, ListsOnly, AllOnly

LEMMA CallPlain ==
  ASSUME NEW S, NEW f, \A y \in S : IsOnly(PlainOps, f[y]), NEW call \in SubroutineCallNode(S)
  PROVE  IsOnly(PlainOps, generate_sub_call_node(f, call))
<1> DEFINE list == [i \in 1 .. Len(call.args) |-> generate_expression_node(f, call.args[i])]
<1>1. Len(call.args) \in Nat
  BY CallParts
<1>2. \A i \in 1 .. Len(call.args) : IsOnly(PlainOps, list[i])
  BY CallParts, ExpressionPlain
<1>3. list = [i \in 1 .. Len(call.args) |-> list[i]]
  OBVIOUS
<1>4. ArgumentsCode(f, call) = All(list)
  BY DEF ArgumentsCode
<1> HIDE DEF list
<1>5. IsOnly(PlainOps, ArgumentsCode(f, call))
  BY <1>1, <1>2, <1>3, <1>4, ListOnly, AllOnly
<1>6. ASSUME NEW caller, NEW callee PROVE IsOnly(PlainOps, CallCode(f, call, caller, callee))
  <2>1. CASE Receives(call, caller, callee)
    BY <1>5, <2>1, InstructionsPlain, FewPlain, AllOnly DEF CallCode
  <2>2. CASE ~Receives(call, caller, callee)
    BY <1>5, <2>2, InstructionsPlain, FollowedOnly DEF CallCode
  <2> QED
    BY <2>1, <2>2
<1>7. IsOnly(PlainOps, Crash)
  BY InstructionsPlain DEF Crash, Fates
<1> QED
  BY <1>6, <1>7, InstructionsPlain DEF generate_sub_call_node

LEMMA StringPlain == ASSUME NEW length \in Nat PROVE IsOnly(PlainOps, StringCode(length))
<1> DEFINE character == Followed(write_push("constant", 97), write_call(<<"String", "appendChar">>, 2))
           list == [i \in 1 .. length |-> character]
           head == <<write_push("constant", length), write_call(<<"String", "new">>, 1)>>
<1>1. IsOnly(PlainOps, character)
  BY InstructionsPlain, FollowedOnly
<1>2. StringCode(length) = All(head \o list)
  BY DEF StringCode
<1> HIDE DEF character
<1>3. \A i \in 1 .. length : IsOnly(PlainOps, list[i])
  BY <1>1
<1>4. list = [i \in 1 .. length |-> list[i]]
  OBVIOUS
<1> HIDE DEF list
<1>5. AreOnly(PlainOps, list)
  BY <1>3, <1>4, ListOnly
<1>6. AreOnly(PlainOps, head)
  BY InstructionsPlain, FewPlain
<1> HIDE DEF head
<1> QED
  BY <1>2, <1>5, <1>6, ListsOnly, AllOnly

LEMMA ArrayPlain ==
  ASSUME NEW S, NEW f, \A y \in S : IsOnly(PlainOps, f[y]), NEW term, term.index \in ExpressionNode(S)
  PROVE  IsOnly(PlainOps, generate_array_access(f, term))
<1> DEFINE list == <<generate_expression_node(f, term.index), WithVariable("push", term.name),
                     write_arithmetic("add"), write_pop("pointer", 1), write_push("that", 0)>>
<1>1. IsOnly(PlainOps, generate_expression_node(f, term.index))
  BY ExpressionPlain
<1>2. list = [i \in 1 .. 5 |-> list[i]] /\ \A i \in 1 .. 5 : IsOnly(PlainOps, list[i])
  BY <1>1, InstructionsPlain
<1>3. generate_array_access(f, term) = All(list)
  BY DEF generate_array_access
<1> HIDE DEF list
<1> QED
  BY <1>2, <1>3, ListOnly, AllOnly

LEMMA TermsPlain == \A x \in Terms : IsOnly(PlainOps, generate_term_node[x])
<1> DEFINE Good == {x \in Terms : IsOnly(PlainOps, generate_term_node[x])}
<1>1. SimpleTerms \subseteq Good
  <2> SUFFICES ASSUME NEW x \in SimpleTerms
               PROVE  x \in Terms /\ IsOnly(PlainOps, GenerateAt(generate_term_node, x))
    BY GenerationEquation
  <2>1. x \in Terms
    BY TermsNest
  <2>2. x.is = "string" => x.length \in Nat
    BY SimpleTermKinds DEF SimpleTerms, VarTermNode
  <2>3. x.is = "string" => IsOnly(PlainOps, StringCode(x.length))
    BY <2>2, StringPlain
  <2>4. IsOnly(PlainOps, Ends("exited")) /\ IsOnly(PlainOps, Written(<<>>))
    BY InstructionsPlain DEF Fates
  <2>5. IsOnly(PlainOps, Followed(write_push("constant", 0), write_pop("pointer", 0)))
    BY InstructionsPlain, FollowedOnly
  <2>6. IsOnly(PlainOps, write_push("constant", x.value)) /\ IsOnly(PlainOps, write_push("constant", -1))
        /\ IsOnly(PlainOps, write_push("constant", 0)) /\ IsOnly(PlainOps, WithVariable("push", x.name))
    BY InstructionsPlain
  <2> QED
    BY <2>1, <2>3, <2>4, <2>5, <2>6, SimpleTermKinds DEF GenerateAt
<1>2. ASSUME NEW x \in Terms, x \in CompoundTerms(Terms \intersect Good) PROVE x \in Good
  <2> DEFINE S == Terms \intersect Good
  <2>1. \A y \in S : IsOnly(PlainOps, generate_term_node[y])
    OBVIOUS
  <2>2. x \in CompoundTerms(S)
    BY <1>2
  <2> HIDE DEF Good
  <2> SUFFICES IsOnly(PlainOps, GenerateAt(generate_term_node, x))
    BY GenerationEquation DEF Good
  <2> HIDE DEF S
  <2>3. CASE x.is = "call" /\ x.call \in SubroutineCallNode(S)
    BY <2>1, <2>3, CallPlain DEF GenerateAt
  <2>4. CASE x.is = "paren" /\ x.of \in ExpressionNode(S)
    BY <2>1, <2>4, ExpressionPlain DEF GenerateAt
  <2>5. CASE x.is = "unary" /\ x.of \in S
    BY <2>1, <2>5, InstructionsPlain, FollowedOnly DEF GenerateAt
  <2>6. CASE x.is = "array" /\ x.index \in ExpressionNode(S)
    BY <2>1, <2>6, ArrayPlain DEF GenerateAt
  <2> QED
    BY <2>2, <2>3, <2>4, <2>5, <2>6, CompoundTermKinds
<1>3. Terms \subseteq Good
  <2> HIDE DEF Good
  <2> QED
    BY <1>1, <1>2, TermInduction
<1> QED
  BY <1>3

LEMMA StatementsPlain ==
  ASSUME NEW s \in Statements
  PROVE  /\ s.is = "let" => IsOnly(PlainOps, generate_let(s))
         /\ s.is \in {"if", "while"} => IsOnly(PlainOps, Generated(s.condition))
         /\ s.is = "do" => IsOnly(PlainOps, generate_do(s))
         /\ s.is = "return" => IsOnly(PlainOps, generate_return(s.value))
<1>1. s \in SimpleStatements \/ s \in CompoundStatements(Statements)
  BY StatementParts
<1>a. /\ \A e \in Expressions : IsOnly(PlainOps, Generated(e))
      /\ \A call \in SubroutineCalls : IsOnly(PlainOps, generate_sub_call_node(generate_term_node, call))
  BY TermsPlain, ExpressionPlain, CallPlain DEF Expressions, SubroutineCalls, Generated
<1>2. CASE s.is = "let"
  <2>1. s.right \in Expressions /\ s.index \in Optional(Expressions)
    BY <1>1, <1>2, SimpleStatementKinds, CompoundStatementKinds
  <2>2. IsOnly(PlainOps, Generated(s.right)) /\ (s.index # <<>> => IsOnly(PlainOps, Generated(s.index[1])))
    BY <1>a, <2>1, OptionalValue
  <2>3. CASE s.index = <<>>
    BY <1>2, <2>2, <2>3, InstructionsPlain, FollowedOnly DEF generate_let
  <2>4. CASE s.index # <<>>
    <3> DEFINE list == <<Generated(s.right), Generated(s.index[1]),
                         WithVariable("push", s.name), write_arithmetic("add"),
                         write_pop("temp", 0), write_pop("pointer", 1),
                         write_push("temp", 0), write_pop("that", 0)>>
    <3>1. list = [i \in 1 .. 8 |-> list[i]] /\ \A i \in 1 .. 8 : IsOnly(PlainOps, list[i])
      BY <2>2, <2>4, InstructionsPlain
    <3>2. generate_let(s) = All(list)
      BY <2>4 DEF generate_let
    <3> HIDE DEF list
    <3> QED
      BY <1>2, <3>1, <3>2, ListOnly, AllOnly
  <2> QED
    BY <2>3, <2>4
<1>3. CASE s.is \in {"if", "while"}
  <2>1. s.condition \in Expressions
    BY <1>1, <1>3, SimpleStatementKinds, CompoundStatementKinds
  <2> QED
    BY <1>a, <1>3, <2>1
<1>4. CASE s.is = "do"
  <2>1. s.call \in SubroutineCalls
    BY <1>1, <1>4, SimpleStatementKinds, CompoundStatementKinds
  <2> QED
    BY <1>a, <1>4, <2>1, InstructionsPlain, FollowedOnly DEF generate_do
<1>5. CASE s.is = "return"
  <2>1. s.value \in Optional(Expressions)
    BY <1>1, <1>5, SimpleStatementKinds, CompoundStatementKinds
  <2>2. s.value # <<>> => IsOnly(PlainOps, Generated(s.value[1]))
    BY <1>a, <2>1, OptionalValue
  <2> QED
    BY <1>5, <2>2, InstructionsPlain, FollowedOnly DEF generate_return
<1> QED
  BY <1>2, <1>3, <1>4, <1>5

(* A subroutine begins with its function.                                  *)
LEMMA HeadsOnly ==
  ASSUME NEW kind \in SubroutineKinds, NEW name, NEW callee
  PROVE  IsOnly(PlainOps \union {"function"}, generate_sub_head(kind, name, callee))
<1> DEFINE locals == Len(get_symbols_of_kind(tables, callee.childTable, "VAR"))
           fields == Len(get_symbols_of_kind(tables, callee.table, "FIELD"))
           first == write_function(<<currentClassName, name>>, locals)
           made == <<write_push("constant", fields), write_call(<<"Memory", "alloc">>, 1),
                     write_pop("pointer", 0)>>
           given == <<write_push("argument", 0), write_pop("pointer", 0)>>
           ops == PlainOps \union {"function"}
<1>1. generate_sub_head(kind, name, callee)
        = All(<<first>> \o CASE kind = "CONSTRUCTOR" -> made
                             [] kind = "METHOD" -> given
                             [] kind = "FUNCTION" -> <<>>)
  BY DEF generate_sub_head
<1>2. IsOnly(ops, first)
  <2> DEFINE i == [op |-> "function", name |-> <<currentClassName, name>>, locals |-> locals]
  <2>1. first = Written(<<i>>) /\ i.op \in ops
    BY DEF write_function
  <2> HIDE DEF i, ops, first
  <2>2. first.code = <<i>> /\ Len(<<i>>) = 1 /\ <<i>>[1] = i
    BY <2>1 DEF Written
  <2> QED
    BY <2>1, <2>2, SomeWritten DEF IsOnly, Only
<1>3. \A w : IsOnly(PlainOps, w) => IsOnly(ops, w)
  BY DEF IsOnly, Only
<1>4. \A segment, index : IsOnly(ops, write_push(segment, index)) /\ IsOnly(ops, write_pop(segment, index))
  BY <1>3, InstructionsPlain
<1>5. \A n, count : IsOnly(ops, write_call(n, count))
  BY <1>3, InstructionsPlain
<1>6. AreOnly(ops, <<first>>)
  <2> DEFINE list == <<first>>
  <2>1. list = [i \in 1 .. 1 |-> list[i]] /\ \A i \in 1 .. 1 : IsOnly(ops, list[i])
    BY <1>2
  <2> HIDE DEF list, ops
  <2> QED
    BY <2>1, ListOnly DEF list
<1>7. AreOnly(ops, made)
  <2> HIDE DEF ops
  <2>1. made = [i \in 1 .. 3 |-> made[i]]
    OBVIOUS
  <2>2. \A i \in 1 .. 3 : IsOnly(ops, made[i])
    <3>1. IsOnly(ops, made[1]) /\ IsOnly(ops, made[2]) /\ IsOnly(ops, made[3])
      BY <1>4, <1>5
    <3> HIDE DEF made
    <3> QED
      BY <3>1
  <2> HIDE DEF made
  <2> QED
    BY <2>1, <2>2, ListOnly
<1>8. AreOnly(ops, given)
  <2>1. given = [i \in 1 .. 2 |-> given[i]] /\ \A i \in 1 .. 2 : IsOnly(ops, given[i])
    BY <1>4
  <2> HIDE DEF given, ops
  <2> QED
    BY <2>1, ListOnly
<1>9. AreOnly(ops, <<>>)
  <2>1. <<>> \in Seq(Writings({})) /\ Len(<<>>) = 0
    OBVIOUS
  <2> QED
    BY <2>1 DEF AreWritten, AreOnly
<1> HIDE DEF first, made, given, ops
<1>10. \A rest \in {made, given, <<>>} : IsOnly(ops, All(<<first>> \o rest))
  BY <1>6, <1>7, <1>8, <1>9, ListsOnly, AllOnly
<1>11. kind = "CONSTRUCTOR" \/ kind = "METHOD" \/ kind = "FUNCTION"
  BY DEF SubroutineKinds
<1>12. IsOnly(ops, generate_sub_head(kind, name, callee))
  BY <1>1, <1>10, <1>11
<1> QED
  BY <1>12 DEF ops

=============================================================================
