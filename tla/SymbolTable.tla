----------------------------- MODULE SymbolTable -----------------------------
(***************************************************************************)
(* The symbol tables of src/symbol/symbol.c: the tree of scopes, and the   *)
(* rule by which a name is looked up in it.  A pointer to a table is its   *)
(* place in the order of creation, NULL is 0.  The operations on the tree  *)
(* are operators; the specification says in which order a client may call  *)
(* them, and module Visitor is shown to be such a client.                  *)
(*                                                                         *)
(* A type is its name: symbol_table_add turns the names of the basic types *)
(* into members of an enumeration and keeps any other as userDefinedType,  *)
(* so that different names remain different types.                         *)
(***************************************************************************)
EXTENDS Integers, Sequences

CONSTANTS Names,   (* names of variables, subroutines and classes           *)
          Types    (* names of types                                        *)

VARIABLE tables

Kinds == {"STATIC", "FIELD", "ARG", "VAR", "CLASS",
          "CONSTRUCTOR", "FUNCTION", "METHOD"}
SubroutineKinds == {"CONSTRUCTOR", "FUNCTION", "METHOD"}
Scopes == {"GLOBAL", "CLASS"} \union SubroutineKinds

GlobalTable == 1

NullTable == 0

Symbol == [name : Names, type : Types, kind : Kinds, index : Nat,
           table : Nat, childTable : Nat]

Table == [scope : Scopes, parent : Nat, symbols : Seq(Symbol),
          counts : [Kinds -> Nat], children : Seq(Nat)]

NoSymbol == [kind |-> "NONE", childTable |-> NullTable]

create_table(ts, scope, parent) ==
  Append(ts, [scope |-> scope, parent |-> parent, symbols |-> <<>>,
              counts |-> [k \in Kinds |-> 0], children |-> <<>>])

NewSymbol(ts, t, name, type, kind, child) ==
  [name |-> name, type |-> type, kind |-> kind, index |-> ts[t].counts[kind],
   table |-> t, childTable |-> child]

(* The table with one more symbol, and the next index of this kind used up. *)
WithSymbol(table, symbol) ==
  [scope |-> table.scope, parent |-> table.parent,
   symbols |-> Append(table.symbols, symbol),
   counts |-> [table.counts EXCEPT ![symbol.kind] = @ + 1],
   children |-> table.children]

(* Mutant: the counter of the kind is not advanced.                        *)
symbol_table_add_uncounted(ts, t, name, type, kind, child) ==
  [ts EXCEPT ![t].symbols = Append(@, NewSymbol(ts, t, name, type, kind, child))]

(* Mutant: the child table is not set.                                     *)
symbol_table_add_childless(ts, t, name, type, kind, child) ==
  [ts EXCEPT ![t] = WithSymbol(@, NewSymbol(ts, t, name, type, kind, NullTable))]

(* A new symbol; its callers set the child table, which is NULL otherwise. *)
symbol_table_add(ts, t, name, type, kind, child) ==
  [ts EXCEPT ![t] = WithSymbol(@, NewSymbol(ts, t, name, type, kind, child))]

add_child_table(ts, parent, scope) ==
  LET made == create_table(ts, scope, parent) IN
  [made EXCEPT ![parent].children = Append(@, Len(made))]

get_symbols_of_kind(ts, t, kind) ==
  SelectSeq(ts[t].symbols, LAMBDA s : s.kind = kind)

-----------------------------------------------------------------------------
(* Where a search from the first to the last stops.                        *)
Lowest(numbers) == CHOOSE i \in numbers : \A j \in numbers : i <= j

(* The first symbol of that name in one table.                             *)
LookupLocal(ts, t, name) ==
  LET named == {i \in 1 .. Len(ts[t].symbols) : ts[t].symbols[i].name = name} IN
  IF named = {} THEN NoSymbol ELSE ts[t].symbols[Lowest(named)]

(* The tables searched for a name from this one: the enclosing ones, and   *)
(* behind the global table its children, the library's classes.            *)
SearchPath(ts, from) ==
  LET path[t \in 1 .. Len(ts)] ==
        <<t>> \o IF ts[t].parent # NullTable THEN path[ts[t].parent] ELSE ts[t].children
  IN path[from]

FirstInPath(ts, path, name) ==
  LET holding == {i \in 1 .. Len(path) : LookupLocal(ts, path[i], name) # NoSymbol} IN
  IF holding = {} THEN NoSymbol
  ELSE LookupLocal(ts, path[Lowest(holding)], name)

(* Where a lookup of this depth from this table ends.                      *)
StaysLocal(ts, t, depth) ==
  depth = "LOCAL" \/ (depth = "CLASS" /\ ts[t].parent = NullTable)

(* LOOKUP_CLASS does not stop at the class: a subroutine hands it on to    *)
(* the class, which goes on to its parent with LOOKUP_GLOBAL.  Only in the *)
(* global table it leaves out the standard library.  (The search among the *)
(* siblings is behind a return whenever there is a parent.)                *)
symbol_table_lookup(ts, t, name, depth) ==
  FirstInPath(ts, IF StaysLocal(ts, t, depth) THEN <<t>> ELSE SearchPath(ts, t), name)

-----------------------------------------------------------------------------
TablesInit == tables = create_table(<<>>, "GLOBAL", NullTable)

DeclareClass(name) ==
  tables' = symbol_table_add(create_table(tables, "CLASS", GlobalTable),
                             GlobalTable, name, name, "CLASS", Len(tables) + 1)

DeclareLibraryClass(name) ==
  tables' = symbol_table_add(add_child_table(tables, GlobalTable, "CLASS"),
                             GlobalTable, name, name, "CLASS", Len(tables) + 1)

DeclareSubroutine(t, name, type, kind) ==
  /\ tables[t].scope = "CLASS"
  /\ tables' = symbol_table_add(create_table(tables, kind, t),
                                t, name, type, kind, Len(tables) + 1)

DeclareVariable(t, name, type, kind) ==
  /\ tables[t].scope = "CLASS" <=> kind \in {"STATIC", "FIELD"}
  /\ tables[t].scope \in SubroutineKinds <=> kind \in {"ARG", "VAR"}
  /\ tables' = symbol_table_add(tables, t, name, type, kind, NullTable)

TablesNext ==
  \/ \E name \in Names \intersect Types :
       DeclareClass(name) \/ DeclareLibraryClass(name)
  \/ \E t \in 1 .. Len(tables), name \in Names, type \in Types :
       \/ \E kind \in SubroutineKinds : DeclareSubroutine(t, name, type, kind)
       \/ \E kind \in {"STATIC", "FIELD", "ARG", "VAR"} :
            DeclareVariable(t, name, type, kind)

TablesSpec == TablesInit /\ [][TablesNext]_tables

-----------------------------------------------------------------------------
TablesTypeOK == tables \in Seq(Table)

(* Scopes nest three deep, and a chain of parents ends at the global table *)
(* (the recursion of symbol_table_lookup).                                 *)
ScopesNest ==
  \A t \in 1 .. Len(tables) :
    CASE tables[t].scope = "GLOBAL" -> t = GlobalTable /\ tables[t].parent = NullTable
      [] tables[t].scope = "CLASS" -> tables[t].parent = GlobalTable
      [] OTHER -> /\ tables[t].parent \in 1 .. t - 1
                  /\ tables[tables[t].parent].scope = "CLASS"

(* Two variables of a table never share a segment and an index, whatever   *)
(* their names: no assignment to one of them changes the other.            *)
IndicesUnique ==
  \A t \in 1 .. Len(tables) :
    \A i, j \in 1 .. Len(tables[t].symbols) :
      i < j /\ tables[t].symbols[i].kind = tables[t].symbols[j].kind
        => tables[t].symbols[i].index < tables[t].symbols[j].index

(* A scope belongs to exactly one symbol, which is in the parent's table:  *)
(* analyze_return_statement_node searches that table for the subroutine,   *)
(* and reads an unset pointer if it is not there.                          *)
OnlyOwner(ts, t, p, i) ==
  /\ ts[p].symbols[i].childTable = t
  /\ \A u \in 1 .. Len(ts) : \A j \in 1 .. Len(ts[u].symbols) :
       ts[u].symbols[j].childTable = t => u = p /\ j = i

ScopeHasOneSymbol ==
  \A t \in 1 .. Len(tables) :
    t # GlobalTable => \E i \in 1 .. Len(tables[tables[t].parent].symbols) :
                         OnlyOwner(tables, t, tables[t].parent, i)
=============================================================================
