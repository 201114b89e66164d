# A verification project for the Jack compiler

This directory holds TLA+ models of the Jack compiler in `src/`, the TLC
configurations that check them, and theorems about them that TLAPS checks.
It is read beside the code: every definition of a model names the lines it
stands for in `PROJECT.json` ("map").

## 1. The system

`compile()` (`src/src/compiler/refac_compiler.c`) reads every `.jack` file of
one directory and writes one `.vm` file for each. It is one thread; what makes
it hard is not concurrency but the resources all phases share and the way
errors travel.

| Component | State | Operations | Hard behaviour |
|---|---|---|---|
| arena allocator (`util/arena.c`) | `start`, `current`, `committed_end`, `reserved_end` | init, alloc, strdup, sprintf, reset, destroy | alignment and page rounding at the boundaries, refused commits, a long sequence of requests |
| error log (`util/logger.c`, `util/error.c`) | `loggerArena`, `errorVector`, the log file | raise, print, close | a report allocates and can fail, and is then itself reported; an INTERNAL error ends the process |
| lexer (`lexer/refac_lexer.c`) | `position`, `state`, `token_start`, `line`, the queue, `line_starts` | process_input | a table-driven automaton with a second variable (`token_start`) that must agree with it |
| token queue, tokens, vector (`token/*.c`, `util/vector.c`) | `list`, `idx`; `size`, `capacity`, the block of cells | push, pop, peek; get, set, insert, remove | reads behind the end, shifts, growth and its failure while an error is being logged |
| ring buffer, stack (`util/ringbuffer.c`, `util/stack.c`) | the cells, two cursors; the cells, `top` | push, pop, peek, reset, destroy | full and empty at a wrap |
| parser (`parser/refac_parser.c`) | `currentToken`, the queue index, the C stack | 18 parse functions | lookahead, errors without recovery, loops that may not consume, indexing of `line_starts` |
| symbol tables (`symbol/symbol.c`) | tables, symbols, `nextIndex` per kind | add, lookup, standard library | scope chains, indices |
| visitor: build, analyze, generate (`ast/ast.c`) | `currentTable`, `phase`, the tree | one function per node and phase | pushes and pops of tables over partial trees, type rules, freeing the tree |
| code writer (`ast/ast_writer.c`) | the `.vm` file, a label counter | write_* | stack discipline of the code, unique labels |
| driver (`compiler/refac_compiler.c`) | file list, loop variables | compile | what is done after an error, lifetimes of what the phases share |

They interact by calls and through shared state: the lexer takes newline
offsets from the *logger's* arena; tokens and error records point to a file
name that the lexer owns; the parser indexes the lexer's `line_starts` with
the lines of tokens; every phase raises errors in the log, which either
returns (a warning) or exits (INTERNAL), and only the count of errors decides
whether code is generated.

What makes each correct: the arena never hands out a byte twice, and what it
hands out is usable; the log shows what it was told and ends what cannot go
on; the lexer cuts a file into the tokens of the language with their lines;
the parser takes exactly the language, stops, and stays in bounds; a table
stack is balanced and a name means its innermost declaration; generated code
leaves one value per expression; the driver generates nothing from a program
with errors.

`PROJECT.json` lists the hazards of this code at their lines, with the
properties aimed at them.

## 2. The modules

    BlockStore  <--refines--  Arena  --used by-->  ErrorLog  --composed in-->  Compiler
    Containers  <--refine--  Vector <-- TokenQueue ;  RingBuffer ;  Stack
    MCStorage --> Arena, TokenQueue, RingBuffer, Stack

    LexicalGrammar <-- LexerChecks --> Lexer
    JackGrammar <-- ParserChecks --> Parser ;  MCParser --> ParserChecks

    SymbolTable <-- SyntaxTree <-- Analyzer <-- Generator <-- Visitor --> TreeMemory
    MCVisitor --> VisitorChecks --> Visitor, JackSemantics, StackMachine

The proofs are in modules of their own: `StorageProofs` (the arena and the
containers), `ErrorLogProofs`, cited by `CompilerProofs`, `LexerProofs` (it
extends `LexerChecks`), `ParserProofs`, `GeneratorProofs` (the symbol
tables, and what the analysis and the code of a term are), cited by `VisitorProofs`,
and `Recursion`, which knows nothing of the compiler: what the proofs about the lexer,
the terms and the tree need to reason about recursive functions.

**BlockStore** is what clients of an arena rely on: blocks, each granted apart
from the others, revoked all at once.

**Arena** has the four fields of `struct Arena` as variables, addresses being
integers. `Alloc`, `AllocCommitFails` and `AllocOutOfSpace` are the three ways
through `arena_alloc`, and `DestroyFails` is a kernel that does not unmap; `Fits`, `Cursor` and `CommitEnd` are its check, its
alignment and its commit, in the order of the code (the check *before* the
alignment). The kernel is the environment: it may refuse any commit, and
grants one behind the reservation only if something is mapped there. `blocks`
is a history variable.

**Containers** is what the containers promise: a sequence of items, at most
`Room` of them, and the answer of the last call. `FifoSpec`, `LifoSpec` and
`ListSpec` differ in where one may put and take. The code ends the process where
a call cannot be granted (an assertion, or an INTERNAL error), so a refusal is
the end of the container; only when full, when empty, or, if `Fallible`, when
memory runs out.

**Vector** is the block of cells, the capacity the code believes it has, and the
size. `accessed` is a history variable, the cells the last call touched:
`InsideAllocation` compares it with the cells there are, which a failed `realloc`
makes fewer than `capacity`. `owner` says whose vector it is, since the report of
that failure pushes to `errorVector`: `GrowthFails` for any other vector,
`LogGrowthFails` for that one. **TokenQueue** extends it by the index; its
abstract contents are the cells from `idx` on, though no cell is ever freed.
**RingBuffer** and **Stack** are blocks of fixed size with cursors. **MCStorage**
puts them and the arena side by side, one at a time, since they share nothing.

**ErrorLog** models `log_error_internal` as a stack of activations (`frames`),
each at one of its allocations, because a refused allocation is reported from
inside the report. So is a failed growth of `errorVector` inside the push
(`GrowthFails`): the vector then counts a cell it does not have (`Unwritten`), the
report of the failure is written behind the block, and the printing at the exit
either comes through (`PushAndExit`) or dies on one of these cells at any point
(`PushAndCrash`). It uses the arithmetic of `Arena` through `INSTANCE`. An
error is its phase (INTERNAL or not) and the owner of the memory its file name
is in. `raised` is a history variable, the errors that clients reported, with which
what is printed is compared. The depth of the C stack is the bound `StackDepth`.

**Lexer** reads one character per step, drawn when it is read, so that its
behaviours cover every file. `Row` is the transition table, written as what
each row changes of the row of `START`. `Ended`, `Alone` and `StartAfter` are
the three places that make tokens and move `token_start`. `wide` is a byte
that is not ASCII: the code indexes the class table with a negative number, and
what it finds there may be any class, or no class at all; the next state is then
read outside the transition table, and the model says nothing of what follows
(`Strays`, outcome "undefined"). **LexicalGrammar** says what the tokens of a text
are by longest match, without an automaton: an item begins where the text begins and
where an item ends, and its end is the least position with a property of its
kind; **LexerChecks** compares the two.

**Parser** models the recursive descent. Each parse function of the code is a
definition of the same name: the sequence of its steps (make a node, expect a
token, call, loop, branch, look ahead). The C stack is the sequence `todo` of
what is still to do. A step that needs a token the model has not chosen yet
first chooses it (`Look`), so that one behaviour stands for all files with
this beginning. Every way the process can end is a status: the assertion of
`get_element`, the INTERNAL error of `queue_pop`, the null token of a peek, a
report that does not fit in the logger's arena, and a report that crashes
because the format of every parser error has one `%s` more than arguments
(undefined behaviour, so the model allows both outcomes).
**JackGrammar** holds the grammar of Jack and the language the parser means to
take, as data, with the positions where a rule can match; **ParserChecks**
states the properties, and **MCParser** the scenarios.

**SymbolTable** is the tree of scopes. A pointer to a table is its place in the
order of creation. The operations of `symbol.c` are operators on the sequence
of tables; `TablesSpec` says in which order a client may use them, and what
every such client can rely on is proved. A type is its name: the enumeration
of basic types in `symbol_table_add` keeps different names different.
`symbol_table_lookup` is the path of tables it searches (`SearchPath`), which
depends on the depth far less than its parameter suggests: a lookup in the
class goes on to the global table.

**SyntaxTree** is the set of trees the parser can leave: a node is a record, a
term is a record whose parts are of a lower level of nesting, and `Nesting`, the
deepest level, is a constant that the proofs leave open.
**Analyzer**, **Generator** and **Visitor** are `ast.c` and `ast_writer.c`. What a function of a term, an expression or a call does
is one operator: it returns the type it leaves in the node, the errors it
logs, and the *fate* of the process, since several of them can end it (a null
pointer read, the assertion of `vector_get`, an INTERNAL error), and in the
generation phase the instructions it writes. What a function of a declaration
or statement does is an action of Visitor; the C stack is the sequence `todo`
of visits still to be made, and the end of a class or subroutine is an entry of
its own (`LeaveScope`, the call of `pop_table`). The three phases follow each
other as in `compile()`, and `destroy_ast_node` is a fourth walk at the end, one
action per call. The standard library is the tree of `stdlib.json`;
`parse_jack_stdlib_from_json` is what the code makes of it, with the methods of
a class joined to its functions.
**TreeMemory** counts the vectors that `init_ast_node` makes for a tree, and
lists the calls `destroy_ast_node` makes for each kind of node; the two are
written from the two functions, and only `DestroyFreesAll` relates them. Like the
rules of Analyzer and Generator, the count is a recursive function over the terms,
and not a recursive operator, so that it can be reasoned about.
**JackSemantics** is written from the language and not from the code: which
programs are well typed, and what a function returns, with environments
instead of tables and values instead of instructions. A value fits where its type is
declared; a character is a number and a number a character; null fits every class; `=`
compares any two values of one type; a call has as many arguments as there are
parameters, each judged as a whole expression; a method is called on an object, a
function on its class. Where the language itself is lenient (any word may stand for any
other, by convention), it is strict, because `src/README.md:123` promises type-checking.
**StackMachine** is the virtual machine of the course, which the code is for; it is no part
of the repository. Its constants are 0 to 32767: any other stops it. **VisitorChecks**
compares, **MCVisitor** lists the programs: `Judged`, of which the language
and the compiler have the same view; among them `Runnable`, programs of functions, which
are run; `Misjudged`, eight sets (`MCEquality` to `MCTwoLocals`) of programs of which one of the
two accepts what the other does not; `Miscompiled`, four sets (`MCTrue` to `MCOwnMethod`) of
accepted programs whose code does not run; and odd trees, which the rules of the analysis do
not cover or which end it.

**Compiler** is `compile()`, one action per statement or call that matters,
with the error log as its sub-module: while a report is under way, the driver
does not move. The phases are abstracted to the events they can cause: an
error of the source, an error of the system, an abort. Errors of the system include
arenas that cannot be unmapped: of a file (`FreeLexerFails`), of the log itself, whose
vector is freed by then (`CloseFails`), of the compiler (`SystemError` at the end).
`DestroyIncomplete` is `destroy_ast_node` over a term left incomplete by a parser
error: it reports to the log as any client does, but the log is closed by then, so
that the report is refused its memory, reports that, and so on down the stack.

## 3. The runs

| Run | Question | Bounds |
|---|---|---|
| `Storage.cfg` | Do the arena's blocks stay apart, backed and (nearly) inside, are commits minimal, is it a block store? Is a vector a list, the token queue and the ring a queue, the stack a stack, and is every cell accessed inside its block? | 3 pages of two alignment units, sizes below, at and above unit and page; vectors of up to 8 elements, two growths; a ring of 4 cells, a stack of 3 |
| `Lexer.cfg` | Are the tokens, lines and verdict those of the grammar? | every file of up to 5 characters over 11 classes of characters |
| `LexerTokenStart.cfg` | *violated*: tokens do not share characters | 4 characters |
| `ErrorLog.cfg` | Do nested reports end, exit properly, show everything that was reported, never resume, also when the vector cannot grow? | room for three reports, three activations, a vector that grows at the first and third error |
| `ErrorLogExhausted.cfg` | *violated*: errors are reported | room for one report |
| `Parser.cfg` | Does the parser take exactly its language, stop, stay in bounds? | nine scenarios, each a prefix and up to 11 free tokens; three layouts of lines |
| `ParserGrammar.cfg` | *violated*: a Jack class is parsed | one text, a call in an expression |
| `Compiler.cfg` | Is no code made from errors, are outputs whole, names alive, all errors shown and kept through the cleanup, does it end, and what becomes of an error of the cleanup? | two files |
| `CompilerNames.cfg` | *violated*: the name of an error exists when printed | two files |
| `Visitor.cfg` | Does exactly a well typed program become code, and does the code return what the program means? Is the verdict on every misjudged program the opposite, and does the code of every miscompiled one stop? Do jumps and calls find what they name, is the working stack balanced, do scopes nest, indices and owners stay unique, are the tables built as TablesSpec allows, and is every vector of the tree freed once? | 1512 programs, three library classes |
| `VisitorTyping.cfg` | *violated*: the compiler accepts exactly the well typed programs | the 58 programs of `Misjudged` |
| `VisitorCode.cfg` | *violated*: the code of an accepted program runs | the 6 programs of `Miscompiled` |

Why the bounds suffice. *Storage*: the arithmetic of the arena depends on a size only through
its position relative to unit and page, and every such position is among the
sizes. A vector starts with 4 cells as in the code, so that 8 elements make it
grow at 4 and at 8, the second time from a block that was copied; the ring goes
around with every distance of its cursors. The theorems hold for all values. *Lexer*: the automaton remembers one
state and one offset, and five characters pass through every pair of
transitions that makes a token, with a character before and after; all five properties
are proved for every length. *ErrorLog*: an error needs three
allocations, each of which can be the one refused, at every depth; safety is
proved for all sizes and depths. *Parser*: a scenario fixes the tokens up to a
level of the grammar and lets everything after it vary; since the steps of a
parse function depend on nothing but the tokens ahead, the levels can be
explored one at a time. `MaxErrors` is 1: the second error finds the arena
full. *Compiler*: two files are the least with a file before and a file after.
*Visitor*: rules of terms and operators depend on the types of their operands
only, so the programs have every pair of eleven terms with each operator, and
some triples for the order of operations; conditions and blocks are combined in
branches and loops, nested once, with returns inside them; declarations and
calls vary one at a time (the kind of a declaration, an undeclared type, a name
that is taken; a caller that is a class, an object, a basic variable, nothing).
On the programs of `Judged` the compiler and the language agree, accepted or not, and
their calls are exact. No program is left out because they do not: it is in `Misjudged` or
`Miscompiled`, and `AcceptsWellTyped` and `CodeMeansProgram` check of every single one that
verdict or code is indeed wrong, so that each set stands for a finding; `VisitorTyping.cfg` and
`VisitorCode.cfg`, which stop at the first, show that the statements of the repository are refuted.
The types of arguments are varied with compound expressions as well as terms: those whose first term
has the type of the whole are in `Judged`, the others in `MCArguments`. `Nesting` is 3,
what the programs need. `MaxSteps` stops the machine, and no run reaches it.
`StackBalanced`, `JumpsLand`, `DestroyFreesAll` and the properties of the tables are about
all programs, `CallsLink` about those of `Judged`, where it is exact: every call passes the
values its subroutine takes, the object of a method among them.

Every property of a passing run has a mutant, a definition next to the one of
the code that errs as the code could have (named `Mutant:` in the modules),
and that run finds the property violated by it.

### Fairness

The compiler is one sequential process that never waits. `WF(Next)` (Parser,
Compiler) says only that it takes its next step while it has one; in ErrorLog
fairness is on `Reporting`, the steps of a report, and not on its callers, who
need not report anything. No fairness is assumed of the kernel: it may refuse
every commit, and malloc and realloc may fail. No fairness is assumed of the
visitor, and no liveness checked: TLC evaluates the condition of fairness (is a
step enabled?) for each of some 180,000 states by evaluating the whole step, which does
not end in reasonable time. That a walk ends follows from its shape: each action
takes a visit off `todo` and puts back visits of parts of the tree only.

## 4. What is proved

Theorems hold for every value of the constants that satisfies the named
assumptions (sizes and lengths are natural numbers, a page is a whole number
of alignment units, the arena begins on a page boundary).

**StorageProofs**, the arena. The inductive invariant adds to the properties that the
cursor is between start and the committed end, that the committed end is a
whole number of pages after the start, and that every block ends at or before
the cursor; without the last, nothing keeps the next block apart from the
others. From it: `TypeCorrect`, `NoOverlap`, `NoFault`, `OvershootIsBounded`
(this needs that the cursor passes the reservation by less than a unit, and
that no request fits once it has), `LazyCommit`, and `ImplementsStore`, step by
step: an allocation maps to a grant, reset and destroy to a revocation, all
else to a stutter. The lemmas on `RoundUp` come first; the invariant uses
nothing else about division.

**LexerProofs**. The invariant relates the second variable to the first:
`token_start` never passes `position`, and in `IN_STRING`, where one is added
to it, it is strictly smaller. From it: the lengths of tokens do not wrap
around, lexemes end at or before the current character, and `line_starts` has
one increasing offset for each newline read. `LinesIndexed` relates these offsets to the
tokens: the entry number `line` of a token, where there is one, is the first newline
behind the token, so the invariant keeps for every token that the offsets up to its line
are not behind its end and the others not before (`Lexeme`); a newline read later is behind
every token made. It says when there is an entry, and when there is none, though the parser
indexes it without a look (section 5).
For `LineOfToken`, a second invariant (`LineInv`) adds that `line` is the number of
newlines read, that a word or a string in progress has none in it, and which of three kinds each
token is of: ended by the character after it (which may be the newline that has
been counted already), a string closed by its quote, or a symbol by itself. The work is to
count a set that grows by one. The property says exactly which tokens carry the
number of the next line; that any do contradicts the comments (section 5).

For the grammar, the difficulty is that an item is decided by what follows it:
whether a slash begins a comment, and whether a text has its words apart, is not
known when the slash is read. The invariant (`GrammarInv`) therefore speaks of
*every* text that begins with what has been read: if its words are apart, there is
a position `p` where one of its items begins, such that the queue holds
exactly the tokens of the items before `p` (`Kept`), and the state, `token_start`
and the characters since `p` agree (`Fits`: in `IN_NUM` they are digits, in
`SEEN_STAR_IN_COMMENT` the last one is a star and no comment has ended, in
`COMMENT_START` `token_start` is the slash *or* a comment follows). One step
first ends the item in progress (`ItemEnds`), then begins the next (`ItemBegins`),
or goes on (`ItemGoesOn`). What an item is, is proved before of the grammar
alone (`WordItem` to `ShortItems`, and `StartsAreReached`). From it:
`QueueIsGrammars` and, since at the end of a text the item in progress is one
that the grammar refuses (`EndRefutes`, `FailRefutes`), `AcceptanceIsGrammars`.

**ErrorLogProofs**. The invariant is the shape of the stack (every activation
above the first is INTERNAL; only the innermost can be at its push), that the vector
holds no INTERNAL error while the process runs, and what the vector has to do with what
clients reported (`Logged`): between reports it *is* the list of the errors reported; during
one, the outermost activation is the report of the last of them, and those before it are
the first of the vector, whatever interrupted reports and failed growths have put
behind them. From it: nothing is logged after an INTERNAL error
(`NothingAfterInternal`); an exit has shown every error ever reported, but for the last
one if its own report was interrupted (`ExitsShowAll`); and no interrupted
activation resumes, which is why the unchecked results of `arena_alloc` are
never NULL in a caller (`NoneResumes`).

**GeneratorProofs**, the symbol tables, for any client that keeps to `TablesSpec`, any names and
any number of declarations. Every action comes down to one fact, `Grows`: one
symbol at the end of one table, and perhaps one empty table behind the others
which that symbol owns. The invariant adds to the properties that a counter is
past every index of its kind (or the next index could repeat one) and that no
symbol owns a table that does not exist yet (or the next table would have two
owners). `ScopesOwned`, one of its parts, says that every class and every
subroutine has a scope, which the proof about the stack needs.
From it: `ScopesAreNested` (the recursion of a lookup ends),
`IndicesAreUnique` (no two variables share a word), `ScopesHaveOneSymbol` (the
pointer that `analyze_return_statement_node` leaves unset before its search is
set when it is read). That the visitor is such a client is proved in
`VisitorProofs`.

**StorageProofs**, vector and queue, for any initial capacity above one (with one, the report of a
failed growth would have to grow the log's vector again) and any history. The invariant is that a vector in use
has as many cells as `capacity` says, at least one more than elements, and that
the cells below the size hold what was stored; `capacity` alone is not enough,
because it is doubled before the block is. From it: `AccessesStayInside`;
`VectorIsList`, where the work is in the two shifts (lemmas on what `MovedUp` and
`MovedDown` leave in each cell, next to `InsertAt` and `RemoveAt`);
`TokensAreQueued`, with `idx` at most the size.

**StorageProofs**, ring and stack: the cells between the cursors of a ring, counted modulo its
size, and the cells below the top of a stack hold what was pushed; from it
`RingIsFifo` and `StackIsLifo`. The arithmetic of the wrap is stated in lemmas of its own, and
the refinement uses those only.

**CompilerProofs**. The driver uses the log through `INSTANCE`, and so do its proofs
with the theorems of `ErrorLogProofs`; lemmas identify the two
copies of each definition, and show that every step of the driver is one of the log or leaves
it alone. The invariant is that of the log together with where
the loops of `compile()` are (which lexers are freed, which outputs are whole
at each statement) and with what has been printed once the log is closed. From it:
`EndsComplete` (what was printed at the end is every error that any phase reported, and
stays so when the cleanup reports to the closed log),
`OutputsAreInOrder`, `NamesAreLive`, `ErrorsKeepOutputs` (the log
only grows, and the statement that opens a file is reached with an empty one
only), and `ExitsShowAll`: an exit from any statement of the driver has shown the errors of
all phases before it.

**ParserProofs**, for any file, any bound on its errors and any lines around the
class. The steps of a parse function nest (a branch holds steps, which hold
branches); since the nesting is of bounded depth, their sets are written out level
by level (`Depth1` to `Depth5`) and each parse function is shown to have its
place in them. The invariant is that `todo` is a sequence of such steps, that
`idx` stays within the queue, and that before the first token is taken nothing of
the class has been done. From it: `TypeCorrect`; `IndexIsSafe`; and
`TokensAreTaken`, that whatever reads `currentToken`, which the code never
tests, comes after a token has been taken.

**Recursion** has two constants, a growing sequence of sets and the body of a
recursive definition, and proves by the well-foundedness of the naturals (a
set of naturals that has 0 and with each number the next is all of them) that the
function exists and satisfies its equation (`FunctionExists`), that what holds on
each level if it holds below holds everywhere (`LevelInduction`), and the same
for the loops `upTo[i]` over a sequence (`FoldExists`, `FoldTyped`). A client
instantiates it with its own levels and body: this is induction over terms
without a theorem that takes an operator. These are lemmas of the method and say nothing about
the compiler by themselves.

**VisitorProofs**, for all programs of any nesting, any library.
`TablesAreBuilt`: the visitor keeps to `TablesSpec`. The invariant (`BuildInv`) says
what `todo` is: the rest of a subroutine up to its `leave`, the rest of
a class up to its `leave`, the rest of the program, with the current table the
one of the innermost of these (`Position`); so that a subroutine is declared in a class
and nowhere else. With `GeneratorProofs` it gives `TablesAreRight`.
`TreesAreFreed`: from the moment the tree is built to the end of the destruction,
the vectors that are left are those of the calls still to be made (`FreeInv`,
`CallsLeft`). The heart of it is `EveryCallDivides`: what a call has to free is what
it frees itself and what the calls it makes have to free, by cases on the kinds of
nodes, sums of counts being taken apart and put together on the way. That the
phases before do not end in the middle needs the types of what they leave in
`todo` (`WalkInv`), which needs that the analysis and the code of every term are
what results are (`TermOutcomes`, `TermsWritten` in `GeneratorProofs`), by induction
over terms.

`EveryStackIsBalanced` is about two walks that know nothing of each other: code is
written without a look at the types, and is right because the analysis has been there
before. `SoundTerms` and `SoundStatements` are what the generation needs of the
analysis: no term is incomplete, and the subroutine of every call is found (for a call
whose subroutine is not, nothing is written at all); an analysis that counts no error
has established it. By induction over terms, the code of a sound term leaves one value
more, and that of a sound statement none (`Leads`, `Reaches`). But the
generation finds the same subroutine only from the same scope. The
invariant (`BalanceInv`) therefore gives each visit in `todo` the scope it will be made
in (`Scoped`). During the analysis, as long as no error is counted, it says that if what
is still to be visited is sound there, the program is sound; during the generation, that the
code so far leaves nothing and what is still to be visited is sound there. That both
walks go through the same scopes is `ScopeFound` with `ScopesOwned`: a scope is
entered by a lookup of its name in the table around it, and left for that table.

`JumpsReachOneTarget`: an `if` writes a jump long before its target, which waits in
`todo` behind the visits of a block; in between, statements of any
nesting write labels and jumps of their own. The invariant (`LinkInv`) is that the code
and what is yet to be written hold together (`Linked`): all labels of both have been
given (`Given`: their number is below the counter of their prefix), and none is there
twice; a jump in the code has its target in the code and in its function, or else it is in
the function at hand and its target is yet to be written; and all that is yet to be
written comes before the `leave` of the subroutine. One lemma (`LinkedOn`) adds a piece
of code and what it defers, linked among themselves and with new numbers only, to what
there is; another (`LaterLinked`) writes what was deferred. It remains to show for each
kind of statement that its own piece is linked, and that the code of expressions has
neither labels nor jumps (`StatementsPlain`).

Only model-checked: the agreement of the parser with its grammar
(`AcceptsExactly`; `JackGrammar` is written with RECURSIVE operators, about which TLAPS
proves nothing); the visitor's agreement with the language (`AcceptsWellTyped`,
`CodeMeansProgram`), which compare two recursive definitions of different
shape, and the machine that runs the code; `CallsLink`, for which each call would
have to be followed to the function it names (section 6); and all liveness (`ReportEnds`,
`ParserStops`, `Terminates`, `ClosedLogOverflows`), since TLAPS proves nothing about fairness.

## 5. Findings

Each violation run refutes a statement of the repository; `PROJECT.json`
quotes it. Three findings (the lines of tokens, the offsets of lines, the report to the closed
log) rest on a property of a passing run instead, which says exactly where the code
departs from what is quoted: `LineOfToken`, `LinesIndexed`, `ClosedLogOverflows`. In short:

- Lexer: `a/b` is not lexed as a division. The last word of a line carries the number of
  the next line. A file without a newline behind its first token aborts the compiler,
  because `line_starts` has entries for newlines and not for lines.
- Error log: a full logger's arena ends in stack overflow with nothing shown. Errors print a
  freed file name. After a syntax error, `destroy_ast_node` may report a term without type (a
  name and a period that no name follows) to the log that has been closed, whose arena is NULL,
  and the report recurses until the stack overflows; everything before has been shown by then
  (`DoneIsComplete`, `ClosedLogOverflows`).
- Parser: `let x = f();` is rejected.
- Analysis: two declarations of one local variable each abort the compiler. Truth values and
  objects cannot be compared by `=`, characters are not numbers, null is of no class. An
  argument is judged by its first term; too few arguments, methods called without an object,
  functions called on one, `this` in a function, and locals or parameters
  declared twice are accepted.
- Code: `true` becomes `push constant -1`, which the machine does not have. `return this`
  returns from an empty stack. A method called on an object in a static variable becomes a
  call of a function that does not exist, one called on the current object is passed none.

Met on the way and visible in the models, without a run of their own. In the
arena, the space check (`arena.c:77`) is made before the cursor is aligned, so a
block may end behind the reservation by less than a unit (`OvershootBounded`).
In the lexer, `log_with_offset` does not "panic" (`refac_lexer.c:313`): the
function returns, and the parser runs on what there is. In the parser, all
errors pass fewer arguments than their format has `%s`, and pass the
pointer kept in `line_offsets` where the offset it points to is meant (the
source line quoted is then empty); `do (x);`, `f(a b)` and `x ~ y` are
accepted; a declaration on the first line of a file indexes `line_offsets` with
-1, which aborts (the files of `Parser.cfg` have lines to spare); `var` after a statement and `f(a.1)` make the parser log errors
without consuming until the logger's arena is full.

In the vector, the failed growth of `errorVector` is reported into `errorVector`:
the capacity is doubled already (`vector.c:179`), so that the report is written one cell
behind the block that could not grow, and the printing at the exit reads it and a cell
before it that was never written (`LogGrowthFails`, the exception of `InsideAllocation`). Its
comment at line 37 says "capacity 1 to start" for a capacity of four, and that at line 172
has the vector grow when the size "becomes greater than its `capacity`", where it
does when they are equal. The ring buffer, the stack,
`vector_set` and inserting or removing in the middle of a vector are used by no
other part; they are modelled as a client could use them.

In the analysis: every array access in a term logs an error for want of a
`break` (`ast.c:877`), and the code of `let a[i] = e` keeps the address in `temp 0`
where it should keep the value, so that the two are exchanged (`ast.c:1252`);
a method called on a variable of a basic type (String included)
compares a null name (`ast.c:1016`); too many arguments abort; a call of
`deAlloc` without caller reads a null pointer; an error about a value of type
void, as `return x;` in a void subroutine, ends the process, because
`type_to_str` has no name for it; a binary `~` is an invalid operation; a missing
return and a use of a subroutine's name as a variable are not noticed; a second class or subroutine
of a name is analysed in the scope of the first; `LOOKUP_CLASS` finds library
functions by their bare names. In the code: parameters of a method are
numbered from 0, which is the object's place.

## 6. Plan

Done: every component below except those of section 7, and the proofs of section
4. What would come next:

1. Objects and arrays in `JackSemantics`, so that `CodeMeansProgram` covers their
   values, with what the code does differently stated as findings; it is a
   comparison of heaps, and most of it would be findings of section 5.
2. Trees with declarations that parser errors left incomplete (a class without
   a name); terms left incomplete are there.
3. A proof of `CallsLink` for programs in which no name is taken twice: each function
   is written once, and has the parameters its table has.
4. `JackGrammar` as a function of positions, for a proof of `AcceptsExactly`.

## 7. Not modelled

`cJSON.c` is vendored; the tree it returns is the constant `Library`, and a text it
rejects is an error of the system in the driver. `print_ast.c` prints a tree, keeps no state and is not
called by the compiler. `safer.c` and the search for files are pure I/O, and
appear as errors of the system. Windows branches of the arena have the same
control. Formatting of messages, hints and the log file carries no property.
Field `offending_code` is not set for an INTERNAL error; it lies in fresh
pages of the arena, which are zero, so that nothing is printed for it.
