# A verification of froglang in TLA+

froglang (`src/`) is a statically typed language with mutable value semantics,
compiled by Cranelift in the process that embeds it, over a mark-sweep heap.
Its program logic lives in `src/froglang-core/src`; file names below are
relative to that directory. This project models the parts in which a mistake is
silent: a value that is freed while it is used, a list that changes under a
second name, a dict that loses a key, a session whose checker and code disagree,
a variable moved before its last use, a union read as another member, a name
linked to another file's, a token that vanishes, a text read back as something
it does not say.

Contents: 1 the system, 2 the plan, 3 the modules and the code, 4 the runs,
5 fairness, 6 the proofs, 7 where the code departs from its documentation,
8 what is not modelled.

## 1. The system

There are no threads in the language or the runtime, so nothing here is about
data races. What is concurrent is subtler: the collector runs at any
allocation of a program that holds pointers in registers; a right-hand side,
a loop body or a callee runs in the middle of an assignment, a loop or a call
that has already looked at the heap; a panic leaves the compiler half way
through an entry; the host calls in and out of the language.

| component | source | state | operations | what makes it correct |
|---|---|---|---|---|
| collected heap | `runtime/gc.rs` | objects, intrusive object list, byte count and threshold, explicit roots, scanned spans | four allocators, growth, slot stores, root push and pop, collect (mark, sweep) | nothing reachable is freed, nothing unreachable stays, the list, the marks and the byte count are exact afterwards |
| block allocator | `runtime/gc.rs` | free lists by size class | `alloc_bytes`, `free_bytes` | a block is in one place at a time and is returned with the size it was taken with |
| stack maps, active heap | `runtime/gc.rs`, `state.rs`, `runtime/host.rs` | registered code ranges, the published frame, `ACTIVE_HEAP`, `ACTIVE_CTX` | guards, frame walk, nested calls | every live pointer of every frame of this heap is found, and restored state is the caller's |
| dict runtime | `runtime/dict.rs` | entries, cached hashes, index, capacity | insert, find, remove, grow, copy, compare; `FrogCtx::alloc_dict` | an insertion-ordered map under the language's `==` |
| copy-on-write values | `codegen/mod.rs`, `runtime/gc.rs` | the `shared` bit, places, loop cursors | mark on read, unshare along a place, deep copy, mut arguments, loops | no write is visible through another name |
| session | `state.rs`, `codegen/mod.rs`, `frontend/typeck.rs` | checker tables, function ids, source map, builder, JIT module, `env`, roots | `eval`: check, compile, run, save; roll back | a failed entry leaves no trace, a good one leaves its bindings |
| liveness, linear values | `frontend/liveness.rs`, `frontend/linear.rs` | last-use marks | backward analysis with a loop fixpoint; consumption check | a Move is really the last use on every path |
| types | `frontend/typeck.rs` | scopes, substitutions, definitions, impls, instances | normalise, widen, join, unify; infer; monomorphise; lift closures | joins and widenings are lossless, the worklists end |
| unions | `codegen/mod.rs`, `frontend/typeck.rs`, `froglang-macros` | columns, tags, boxes | build, widen, narrow, match, print, compare, marshal | every reader finds the member every writer put there; the collector follows objects only |
| module loader | `frontend/modules.rs` | cache, modules in progress, order | resolve, rename | every module once, dependencies first, cycles reported; a name keeps its meaning |
| other code generation | `codegen/mod.rs` | variables of a function | expressions | a name's variable is the binding in scope |
| runtime functions | `runtime/ffi.rs` | none of their own | strings, indexing, slices, ranges, lists | clamping and overflow as documented |
| host embedding | `host.rs`, `runtime/host.rs`, `froglang-macros` | registered functions and declarations | build with a layout audit; marshalling | both sides flatten a type to the same columns |
| notation and JSON | `frontend/typeck.rs`, `runtime/read.rs`, `runtime/json/` | one document per thread, first error, entry cursor | print, open, navigate, close | what is read is what was written, or what the text says |
| lexer and parser | `frontend/lexer.rs`, `parser.rs`, `grammar.rs`, `tokens.rs`, `expression.rs` | lexer position, current token, errors | one function per rule; look ahead and back; synchronise | what is accepted is what was written, grouped by precedence; every source is parsed to its end |
| diagnostics, command line, standard library, playground, benchmarks | the rest | none kept between calls | | |

How they interact. `FrogState::eval` calls the parser, `TypeChecker`
(`check_and_lower_entry`, the linear check, monomorphisation), then
`Codegen::compile_entry`, which asks the liveness analysis about every variable
read and emits calls of runtime functions; `call_jit` publishes the heap and a
context in thread-local cells, registers the entry's out buffer as a scanned
span and runs the code; runtime functions publish the caller's frame pointer
before they may collect, so that the collector can walk the compiled frames.
Host functions get the context and call back into the heap or, through another
`FrogState`, into everything.

Hard behaviours, with the line each bites at, are the `hazards` of
`PROJECT.json`; section 3 says which property answers which.

## 2. The plan

Order: what every program depends on first. Done:

1. `HeapSpec`, `GcHeap`, `GcHeapProofs`: the collector, checked and proved.
2. `DictSpec`, `FrogDict`, `FrogDictProofs`: the hash index and its callers,
   checked and proved.
3. `ValueSpec`, `CowValues`, `CowValuesProofs`, `CowValuesRefinement`: value
   semantics implemented by sharing, checked and proved.
4. `FrogState`, `FrogStateProofs`: the session, with code generation that can
   panic, checked and proved.
5. `Liveness`, `LinearUse`, `BodyRun`, `BodyRunProofs`: the analysis CowValues
   takes for sound, and the rules that rest on it, beside the code they are about;
   that answers which satisfy its equations are sound is proved.
6. `LinkOrder`, `ModuleLoader`, `ModuleLoaderProofs`, `ModuleNames`, `ModuleLink`:
   files and names, the order of the files proved.
7. `Grammar`, `Parser`, `Syntax`: from tokens to nodes.
8. `UnionLayout`, `UnionLayoutProofs`, `UnionTypes`, `UnionValues`: unions in
   memory, the packing of one proved.
9. `TaggedValues`, `Notation`, `JsonText`, `ReadBack`: values and text.

The passes of 5, the rest of 7 to 9, and ModuleNames, recurse over trees and
stay with TLC.

Not begun: `FrogRoots` (JIT frames, frame guards, `JIT_CODE`, the active heap and
context, two states nested through a host function), which would replace
GcHeap's one set of stack-map words by the walk that computes it; `Scopes`
(source scopes against one Cranelift variable per name, and the name table of
functions); `GcBlocks`; unification and generic types; monomorphisation;
`Indexing`.

Abstract specifications: HeapSpec, DictSpec, ValueSpec, LinkOrder.

## 3. The modules and the code

`PROJECT.json` maps each definition to its lines.

### HeapSpec and GcHeap (`runtime/gc.rs`)

A word is a tag (the low three bits) and the rest, so `is_heap_ptr` is what it
is in the code: not an immediate, and not zero once the tag is masked off. An
object has its kind, the stride of its elements, the mask of columns the
collector scans, its capacity and contents, and the `marked` and `shared` bits.
One action per operation: `AllocStr`, `AllocList`, `AllocVariant`,
`AllocDict`, `ListPush` (with growth), `DictAppend`, `DictDelete`, `SetSlot`,
`SetShared`, the root table's `PushRoot`, `PopRoots`, `ClearRoots`, the span
table's `PushScannedSpan`, `WriteSpan`, `PopScannedSpan`, and `JitStep`, by
which the values live at the next safepoint change. A collection is
`StartCollect`, then `MarkRoot` and `MarkPop` (one turn of the loop of
`mark_from`), `StartSweep`, `SweepFree` and `SweepKeep` (one turn of `sweep`)
and `FinishCollect`. The mutator is any that obeys the one rule codegen keeps:
a scanned column never holds the address of something already swept. It may
hold any unswept object, since a register may.

An element of a list is pushed with all its columns, because codegen emits the
pushes of one element back to back with no safepoint between them; a collection
therefore never sees part of an element.

Properties: `NoDangling` (reachable objects exist, in every phase),
`CollectExact` (a collection leaves exactly the reachable ones), `MarksClear`
(no mark outlives a collection: only proved, as what `CollectExact` needs),
`ListExact` (list against objects, also half way through a sweep), `BytesExact`
(the bytes counted are the words allocated), `CollectorInvisible` (no collector
step changes a live object apart from its mark, `shared` included), `CollectionEnds`, and
`ImplementsHeapSpec`: forgetting words and marks, the heap is HeapSpec, in
which the only thing that ever happens to an object by itself is that it
disappears when unreachable.

### DictSpec and FrogDict (`runtime/dict.rs`, and its callers)

A dict is the entries in use, the cached hashes beside them, a capacity and the
set of <<hash, entry>> pairs the index holds. `Hits` is `frog_dict_find`: the
entries at the key's hash that the equality closure accepts. `d[k] = v` is two
actions, `BeginAssign` (`frog_dict_insert`, before the right-hand side) and
`FinishAssign` (`frog_dict_set_slot` at the entry number found then), because
arbitrary code runs between them. `RemoveKey` compacts both buffers and rebuilds
the index from the cached hashes; `Clone` is `clone_obj`; `HostAllocDict` is
`FrogCtx::alloc_dict`, which leaves the cached hashes unwritten: they are a
nondeterministic choice.

Keys are floats: two zeros that are equal and hash alike, a NaN equal to
nothing, and a key that collides. Everything else a key can be is a simpler
case of these.

Properties: `KeysReachable`, `IndexExact`, `EqIsContent` (`eq_dict` is equality
of contents), `AssignReachesKey` and `ImplementsDictSpec`, the
insertion-ordered map.

### ValueSpec and CowValues (`codegen/mod.rs`)

Rows are lists of cells, grids lists of rows: with them a place is a variable,
an element, or an element of an element. `ReadVar` is a read as codegen emits
it: a Copy marks the list shared, a Move forgets the variable. `ReadElem` and
`LoopStep` are `mark_shared_extracted`. `WalkTo` is `emit_place_ref` with
`emit_unshare` at each list on the way, `CloneObj` the deep copy. An assignment
to a place is two actions around its right-hand side; a call with a `mut`
argument is `CallBegin` and `CallEnd` with anything the callee may do in
between; a loop is `LoopBegin`, `LoopStep`, `LoopEnd` with any body in
between. Every action ends with the collection of what is no longer used
(`Collected`), so an address that something still needs but nothing keeps shows
up at once.

Whether a read is the last one is the liveness analysis's answer. The model
accepts any answer that is sound: a Move only where the variable is gone
afterwards, never for a variable `Pinned` by an assignment, a `mut` parameter
or the loop around it. That the analysis gives such an answer is what BodyRun checks.

Properties: `SharedWhenAliased` (a list with two readable paths has its bit
set), `StoresUnaliased` (whatever changes in place is read by one path only),
`ImplementsValueSpec` (every step changes the values of the variables as if
bindings were copies).

### FrogState (`state.rs`, `emit_entry` and `compile_entry` of `codegen/mod.rs`)

An entry is up to two functions (a name, a type, the function it calls) and
statements (`let x = [..]`, `let x = y`, a write through x, an assignment inside
a block), together with the point, if any, at which code generation panics.
`Submit` is the check of the entry, `Reject` a type error in that check or in
one of the passes after it, `Pass1` to `Pass3` the passes of `emit_entry`, `Finalize`
`finalize_definitions` and the numbering of the entry, `Recover` the
`catch_unwind` arm. Then the statements run one by one, `Collect` may happen
between any two, `Finish` saves the out buffer, rebuilds the roots and perhaps
collects, and `Answer` reads the result. The Cranelift module is not in `src/`
and is modelled from how the code uses it: declaring a symbol twice is the same
function, defining it twice is refused.

Properties: `CheckerMatchesCode` (between entries the checker's type of each
name is the type of the finished function the name table leads to, and the
source map and `entry_sources` agree), `CallsMatchChecker`,
`GoodEntriesCompile`, `VariablesPersist`, `NothingLost` (whatever a variable or
the pending result names is in the heap whenever it can be asked for), and in
`TypeOK` that the source map and name table mention compiled entries only.

### Liveness, LinearUse and BodyRun (`frontend/liveness.rs`, `frontend/linear.rs`)

A body is a tree of the node kinds the pass tells apart. `Liveness` is the pass:
`Number` gives nodes their numbers, `Transfer` goes backwards through a node
with what is read after it (a `mut` argument of a call is a child of kind
`place`, whose index steps `Subexprs` takes in evaluation order, as the code
does), with `Header` the loop's fixpoint (fresh marks for
the converged answer only), and `AnalyzeBody` and `AnalyzeEntry` are its two entry points.
`LinearUse` is the walk of the linear rules over its answers. `BodyRun` runs the
body in the order code generation emits it, every branch, short circuit, early
return and number of iterations being a free choice, and keeps the names whose
value a Move took or a mark let die. It does not call the passes: a run starts
from a record of a body and of what they answered (`Starts`; `FunctionStart` and
`EntryStart` make one from a tree). Part of the record is `marks`: the names live
before and after each node, which the passes have in hand but do not keep, and
which `seen` of Liveness holds on to for this purpose.

Properties: `AnswersSolve` (the answers satisfy one equation for each node, such as
that what is live at a loop's header is live at the end of its body: what a
fixpoint cut short would not), `NoUseAfterDeath` (no name in that set is looked at again before it
has a new value: what CowValues assumes), `LinearReadOnce` and
`ConsumedOnEveryPath` (of bodies the rules accept).

### LinkOrder, ModuleLoader, ModuleNames and ModuleLink (`frontend/modules.rs`)

`ModuleLoader` is the resolver as the recursion it is: a stack of files in
progress, a cache, the order in which files were finished. `Begin`, `Enter`
(`resolve`: the cache, a cycle, a missing or a broken file), `Bind` (the imports'
names and their clashes), `Finish` (rename, cache, append) and `FinishEntry`.
`LinkOrder` is what it promises, and `Implements` the refinement, liveness
included. `ModuleNames` is the rewriting of one file's statements
(`RewriteTop`, `Rewrite`, `RewriteFunc` with their shadowing), and, beside it, the scopes of
the checker; `ModuleLink` composes the two. `LinkKeepsMeaning`: in the flat
program every name stands for the declaration it stood for in its own file.

### Grammar, Parser and Syntax (`frontend/grammar.rs`, `frontend/parser.rs`)

Each function of `grammar.rs` is a sequence of steps in `Grammar`: what it
consumes, where it skips newlines, looks ahead, goes back, and what it calls.
`Parser` runs the steps on a stack, one token at a time, with the lexer's
refusals, `colon_suppressed`, snapshots and the way an error unwinds to a list
or a statement. `Syntax` holds the properties: `NothingElseLost` (the names and
literals of an accepted program are those of the source), `BindsByRank`
(operators group as `tokens.rs` ranks them), `StatementPerLine`,
`StatementsStartAfresh` (an error leaves nothing half done), `AlwaysEnds`.

### UnionLayout, UnionTypes and UnionValues (`codegen/mod.rs`, `frontend/typeck.rs`)

`UnionLayout` is the packing of members into columns (a leaf's column follows from
its `Rank` among the pointer or the scalar leaves), `UnionTypes` the normal
form of a type and the columns of each. `UnionValues` is a program with
variables of one union type: `Construct`, `Place` and `PlaceNarrowed` make
values (constructor calls, widening of a variant or a narrowed value),
`HostReturns` takes one from a derived Rust enum, `Copy` copies, `Collect`
frees. The readers are operators: `Holds` (`is`), `Entered` (match, with trait
arms, guards and the last arm, which is not tested), `Try`, `Truthy`, `Common`,
`FromFrog`, and `Value` and `Equal` for print and `==`, which unpack for themselves.

Properties: `ReadingsAgree` (all the readers find the value that was put in),
`PrintAndEqualityAgree`, `CollectorFollowsObjects` (the words the collector
follows are addresses of objects, and none it needs is missing),
`OneFormPerUnion` (a union's spelling does not change its tags).

### TaggedValues, Notation, JsonText and ReadBack (`frontend/typeck.rs`, `runtime/read.rs`, `runtime/json`)

A text is the tree the parser, or the JSON library, makes of it. `Repr` and
`ToJson` are the expansions of `repr` and `json.to_str` by type; `Read` and
`ReadJson` those of `read` and `json.parse` over the accessors, each of which
answers with a placeholder and a mark where the tree is not what it expects;
`Entry`, `Walked` and `Advanced` are the entry cursor of `runtime/json/dom.rs`.
`ReadBack` is a program: `Write`, `Edit` (someone changes the text), `Open`,
`Build`, `Decide`, `Close`, as `lower_read` and `lower_json_parse` order them,
again and again on the same thread. `Says` and `JsonSays` state of a value that
a text says it, without the accessors.

`ReadIsExact`: an unchanged text gives the value back, tags included; a changed
one gives what it says, and the error only if it says no value of the type.

## 4. The runs

| run | bounds | shows |
|---|---|---|
| `gc_graph` | 3 blocks with one slot, tags 0 and 7, one root of any of the three kinds | all chains, cycles and sharing; immediates whose upper bits are an address; collection at every moment |
| `gc_layout` | 2 blocks; strings, lists and dicts of up to 2 words; raw columns | byte counts through growth, invisibility, termination |
| `dict_map` | 2 dicts, 4 keys, at most 3 entries in one and 4 in all | the map, from literals, the host and copies |
| `dict_rhs` | the same, one precondition lifted | section 7 |
| `cow_values` | 2 row and 2 grid variables (one the `mut` parameter), rows of 1 cell and grids of 2, 4 lists, two nested constructs | value semantics |
| `session` | 2 entries that compile and any number that fail, 2 functions, 2 types, 2 variables, entries of 2 declarations and statements | rollback, naming, roots |
| `body_run` | one statement that may hold a branch or a loop (and one nested in it) between simple ones; 2 names, one Linear, and a loop variable; entries of 2 statements | moves and deaths on every path |
| `link` | an entry and up to 3 files importing each other in every way, one missing or broken; one file and its importer with every small shadowing of 3 names | order, cycles, clashes, meaning of names |
| `syntax` | 26 programs that use every rule, each with each token dropped, replaced or followed by one of 9, and all chains of 2 and many of 3 operators | the parser, in and after errors |
| `unions` | 12 spellings of 8 unions, 2 variables, 4 objects, at most 3 members inline | every writer against every reader |
| `read_back` | 16 types, 1 change to a text, any number of documents in turn at 2 addresses | reading back |
| `json_cursor` | the same, unchanged texts, an address may be used again | section 7 |

Why these are enough. Three blocks are the smallest heap with a cycle beside an
object reachable two ways and garbage at once; one root suffices because what
several roots add (their union is closed the same way) is covered by the
proof, which has no bound. Three entries of a dict are needed to remove in the
middle of two that must move; a fourth adds another that moves. Four lists
allow a grid with both slots aliased, a second grid and one copy in flight; a
copy makes at most three, for which `MaxObjs` leaves room, and `MaxLists` bounds
only what is in use after a step. Two entries that compile are what a
redefinition needs, and the failed ones between them are not bounded.

For liveness a second iteration of a loop and one loop inside another are
what tell the fixpoint from a single round. Three files beside the entry are a
cycle that the entry is not part of, and a file imported along two paths. One damaged
token puts an error into every construct at every place; what two errors do is
what one does after `synchronize`. With `MaxInline` at 3 unions of three and
four members are on both sides of the code's own limit. One change to a text
reaches every accessor of every type with every kind of node; the documents
read before it matter through the cursor alone, of which the state keeps every value.

`MaxNested` allows an assignment inside a call, a call inside a loop and a loop
inside an assignment, but not all three. Symmetry is used for blocks, dicts,
functions, types and variables, which no action orders, and never in a run with
a liveness property; in `cow_values` a VIEW identifies states that differ by a
renaming of addresses, since an address is observed only through the paths
that reach it.

`session`, `body_run` and `unions` turn deadlock checking off: a session whose
entries are used up, or whose heap is full, a body that has been left, and a
program whose heap is full, just stop.

Preconditions of the passing runs. Each is a constant, and section 7 has the
counterexample that lifts it: `RhsTouchesDict` (the right-hand side of
`d[k] = v` uses d), `MovesHostDict` (a dict from the host is removed from or
copied), `RhsTouchesRoot` (the right-hand side of `g[..] = v` uses g),
`BodyWritesIterable` (a loop's body writes in place to the list it iterates over),
`RetriesDefinitions` (a failed entry's function is declared again at once),
`CallsThenRedefines`, `UnsavedWrites` (an entry ends with a variable whose value
only it knows), `Recycles` (a document is put where the cursor's one was). In
`syntax` and `unions` it is part of the property: `Unseen`, `renumbered` and
`ReadsItsBox` name the cases. In `read_back`, `Keeps` leaves out values whose
notation does not say which they are (section 7). In `link`, `LinkKeepsMeaning`
speaks only of programs without a local the rewriting loses track of (`Lost`)
that has a name the rewriting replaces (`Replaced`). In `body_run` three kinds of body are left out of `MCStarts`,
and `MCMisjudged` has examples: the right side of `and` or `or` leaves the body or gives a new
value to a name that is read later; what follows the place in an assignment or
a call gives the place's root a new value or leaves; a name read in the index steps of
a `mut` argument with two or more steps is neither read later nor the root of a `mut`
argument. A passing run says that its properties hold under these preconditions,
within its bounds; it says nothing of the programs they leave out, of which section 7
shows those found to break a property.

Definitions marked "Mutant" or "Seeded fault" are the same operation with a
plausible mistake in it; substituted for the operation they make the property
named in `PROJECT.json` fail, which shows that the property depends on it.

## 5. Fairness

Three liveness properties are checked. `CollectionEnds` under weak fairness of
`CollectorStep`: a collection is one loop inside one runtime call on one thread,
so once it has begun nothing else runs and it keeps taking steps. Nothing is
assumed of the mutator, which may stop at any time. `AlwaysEnds` under weak
fairness of `Parse`, and `Implements` (whose abstract side says that every
program gets its answer) under weak fairness of the loader's `Next`: each is
one call that runs to its return. The loader's fairness is written out as
`[]<><<Next>>_vars \/ <>[](verdict # "open")`, which is WF_vars(Next), since a
step is possible exactly as long as the verdict is open.

## 6. The proofs

Each is for all values of the constants: any number of blocks, keys, functions
or variables, any hash function, any bounds. What the constants must satisfy is
assumed by name in the module that declares them, and TLC evaluates it in the
runs. Where a theorem has a hypothesis, that is one of the preconditions of
section 4, and section 7 has the configuration in which TLC breaks the property
without it; `WellFormed` only says what a program is, and `AnswersSolve` is
checked by the run itself.

| module | theorem | hypothesis |
|---|---|---|
| `GcHeapProofs` | `TypeCorrect`, `NothingDangles`, `MarksAreCleared`, `ListIsExact`, `BytesAreExact`, `CollectionIsExact`, `CollectionIsInvisible`, `Implementation` (of HeapSpec) | |
| `FrogDictProofs` | `TypeCorrect` | |
| | `TheIndexIsExact`, `KeysStayReachable`, `EqualityIsOfContent` | `~MovesHostDict` |
| | `AssignmentReachesKey`, `Implementation` (of DictSpec) | `~MovesHostDict`, `~RhsTouchesDict` |
| `CowValuesProofs` | `TypeCorrect`, `AliasesAreShared` | |
| | `StoresArePrivate` | `~RhsTouchesRoot`, `~BodyWritesIterable` |
| `CowValuesRefinement` | `SharingIsInvisible` (CowValues implements ValueSpec) | `~RhsTouchesRoot`, `~BodyWritesIterable` |
| `ModuleLoaderProofs` | `LinksInOrder` (LinkOrder's safety) | `WellFormed` |
| `FrogStateProofs` | `TypeCorrect`, `NothingIsLost`, `TheCheckerMatchesTheCode` | |
| | `CallsMatchTheChecker` | `~CallsThenRedefines` |
| | `EveryGoodEntryCompiles` | `~CallsThenRedefines`, `~RetriesDefinitions` |
| | `VariablesPersistAcrossEvals` | `~UnsavedWrites` |
| `BodyRunProofs` | `DeadNamesStayUnused`, `LinearValuesAreReadOnce`, `PathsConsumeAlike` | `AnswersSolve` at the start |
| `UnionLayoutProofs` | `UnpackReadsPack`, `ColumnsLeadToPointers` | a tag below that of an immediate |
| | `TagTellsMembers` | at most six members |

### GcHeap

No block is the zero address, `Free` is not an object, the tags are three-bit
patterns that include 0, a layout's mask is within its stride, the numeric
bounds are naturals.

None of the properties is inductive: that no reachable object is
freed depends on marking having been complete, which depends on the state of the
worklist. `IndInv` adds, while marking (`MarkInv`), that everything marked or
queued is reachable, that every root is marked or queued, and that a marked
object refers only to marked or queued ones. When roots and worklist are used
up the marked objects are closed under reference, so they contain the
reachable ones (`MarkingDone`); by the first part they contain no more. While
sweeping (`SweepInv`), what is still marked and what has been kept are together
the reachable objects, which is what makes freeing an unmarked one safe.
`ListExact` goes along, because sweep walks the list and not the heap.

Reachability is defined as the intersection of all closed sets, in the models
as in the proofs. This needs no induction: `ReachLeast` and `ReachClosed` are
its two halves, and `ReachStable` says that a step which leaves the reachable
objects' references alone leaves reachability alone, which covers every
collector step at once.

Two lemmas carry the step from `Next` to the phases: `MutateRuns` and
`ChangeRootsRuns` say that the mutator's actions happen in the phase "mutator"
only, so that any other step is the collector's.

The bytes are a sum over the heap, stated as the number of words allocated, each
with the block it is in, so that no induction is needed either: a step changes
the words of one block, and `WordsUpdate` counts what that adds or takes away.

### FrogDict

Equality of keys is any symmetric and transitive relation, the hash function
any under which equal keys hash alike.
`IndexInv` is that of every dict the index is `Exact`: the set of <<hash, entry>>
pairs of the entries in use. It is inductive once `TypeInv` says that hashes
and entries are as long as each other. Lookups follow: the hits of a key are the
entries with an equal key (`HitsExact`), of which there is one at most, as
insertion looks before it appends (`OneHit`). A dict from the host is the
exception: its cached hashes are what was in the memory. Its index is right all
the same, and stays so until a removal rebuilds it from them or a copy inherits them, which
is what `MovesHostDict` allows.

`EqualityIsOfContent` is a counting argument. `eq_dict` looks up every key of
one dict in the other, in one direction only. What the lookups find is a
function from the entries of the first to those of the second; it is injective,
since the keys of a dict are distinct, and both have equally many entries, so
it is onto. Keys that differ from themselves (NaN) need the other direction of
the definition of content: such a dict is equal to nothing, itself included.

`AssignInv` adds that the entry number a pending assignment has taken is still
its key's (`PendingExact`), which is what `RhsTouchesDict` would undo; with it
each step of FrogDict is one of DictSpec's, or none.

### CowValues

A list marked shared is never written, so what must be shown is that a list not
marked has one name. `Single` says so of names: variables and grid slots, with
the place that is out on loan left out. It is stronger than `SharedWhenAliased`,
whose paths start from a variable, because a row of a grid no longer reachable
may be adopted by another. `Good` adds the shape of heap, environment and
loan, and `Inv` that the place assigned to and the list looped over exist.
The barrier is treated once: `WalkGood` says that walking a path yields a
heap with the invariant, in which the list arrived at is unmarked and the rest
of the program's names are as they were (`Walked`). Likewise expressions
(`Evaluated`) and the collection at the end of each action (`CollectGood`). One
lemma per action then says that `Inv` holds of what it makes.

For stores `PrivateInv` adds that the list an open assignment will write to is
still its root's and still unmarked, and not looped over (`PlaceKept`), and that
no row of a list looped over is out on loan (`LoopApart`). Both hypotheses are
needed: an expression on the right may mark or move the list the store goes to,
and a loop step in the right-hand side does so when it binds the row written.

`SharingIsInvisible` takes the value of a variable to be the tree its list spans,
and shows of each action that it does to these values what ValueSpec's action of
the same name does. Three facts carry it. Marking and copying change no value
(`SameValues`, `WalkValues`), so the barrier and every read are steps on values
already. Collecting changes none either, since what has a name is kept
(`CommitViews`). A store changes exactly one: the list stored to is unmarked,
so by `Single` one variable or slot names it, and by `PrivateInv` it is
neither out on loan nor looped over (`RowStoreOthers`, `GridStoreOthers`). What
a pending assignment or loop remembers is abstracted too: a place to its root
and path, a call to these and the grid around the row it was lent, a loop to the
values it runs over and how far it has come.
`ViewAssumption` says that the two markers, `Unbound` and `None`, are no values.

### FrogState

Three invariants, one on top of the other. `CodeInv`: whatever an entry adds, it
adds to symbols of its own number, so what `eval` takes down before it starts
(checker, name table, length of the source map) still agrees with the code
whenever it is put back (`Linked`); while an entry is compiled `NamesInv`
says how far it has come. Beside it `HeapInv`: what the environment and the
running entry name is in the heap, and roots are not behind the environment. `CallsInv`: whatever has code calls only
what has code, of the type it was checked against; pass 3 defines functions in
order, so the call's target must not be one that is defined again below.
`BuilderInv`: the builder is dirty only until `eval` recovers, and an entry's
symbols are untouched before it declares them, which a retry would not find.

`VariablesPersist` is about values: a write must reach the variable it names and
no other. `ValuesInv` says that two variables whose values will still be asked
for (`Kept`: they will be read, or their saved slot is theirs) share a
list only if it is marked, and that the rest of the entry keeps it so whatever
the liveness answers (`RestSafe`), which is a statement about all its
statements to come, since a mark is placed only at a read that is not the last.

### ModuleLoader

`LinksInOrder` is the safety of LinkOrder; that every program is answered, the
rest of `Implements`, is liveness. `WellFormed`, its hypothesis, says of the
programs that they have an entry and that imports are of paths; ModuleLink
assumes it and TLC evaluates it.

What a file reaches is the least set closed under imports, so no induction on the
length of a chain is needed. `LoaderInv` has three parts. The stack is a path
from the entry (`PathOK`): a file met again on it reaches itself, which is what
makes "cycle" right, and whatever is refused is something the entry needs. The
files done come after their imports, each once (`OrderOK`): they are closed
under imports, so what a finished file reaches is done (`DoneClosed`), and the
files before one of them are closed as well, so it does not reach itself
(`DoneAcyclic`). Of each file on the stack, the imports before the current one are
of files that are done, ask for what these export, and have bound exactly the
names in its tables (`FrameOK`): a clash with the tables is a clash between two
imports, and if none has come up by the end the file is in order.
That the loader does not know the entry for a file in progress, and resolves it
a second time if something imports it, needs an argument of its own
(`FinishedIsOther`): that second time never ends, since above it lies a file it
imports.

### UnionLayout

These are about one inline union, not about a program: any members, of any
leaves, any words in them. A leaf whose word the tag may join has its low three bits
free, as an address has (`LeafWords`); of the others nothing is assumed.
`UnpackReadsPack` says that the leaves are read as they were written,
`TagTellsMembers` that of all members only the one written passes the tag test,
`ColumnsLeadToPointers` that what the collector follows in the columns it scans
are the pointers in the member's pointer leaves: no scalar is taken for an
address, no pointer is left out, and the tag beside one changes nothing.

The layout is made for the members together and used for one of them. What this
asks of it is `Fits`: it has a column for each leaf of that member, and no
column of its own for the tag only if the member's first pointer leaf is one the tag
may join (`MemberFits`). Within a member two leaves never share a column (`SlotsApart`), since
a rank is strictly monotonic (`RankStrict`). `UnionValues` uses the same
operators in every writer and reader of an inline union.

### BodyRun

The passes are recursive and outside the proofs; their answers are not. A solution of
the equations is right on every path of any body, whoever found it: this is what is
proved, and what is left to TLC is that the passes find solutions
(`AnswersSolve`). The equations are local, and their violation is the usual way for such an
analysis to be wrong.

The state has no position in the tree, only the stack of work to do, in which parts of
nodes already begun lie under those not begun. `Carries` says that live sets can
be laid between its tasks so that each task finds before it what it needs and
leaves behind no more than its node has after it (`Serves`). A task that unfolds
is replaced by tasks between the same two sets: `UnfoldCarries` shows it for each
kind of node, from its equation; a turn of a loop goes from header to header
(`TurnCarries`), which is where the fixpoint is used. `LiveInv` says in addition that
the first of these sets has none of the names that are gone. A Move and a
mark add only names that are not live after them, and so keep it.

For Linear variables `SpentInv` says that what was read is gone, since a body
that passes has no read of one but a last one. In straight code `MovedInv` adds
up: what has been consumed, and what the walk says of the nodes still to do, make what it said of
the body, because both branches of an `if` were found to move the same.

### What stays with TLC

The liveness properties: that a collection, a parse and the loading of a program
end. That `Liveness` and `LinearUse` give answers which satisfy BodyRun's equations. All
of ModuleLink, Syntax, UnionValues and ReadBack: they compute over trees
by recursion, in RECURSIVE operators, which tlapm's SMT backend does not accept, and what
such an operator computes for every tree is an induction the prover cannot
instantiate.

## 7. Where the code departs from what it says

Two are among the runs, with their quotations under `findings`:

- `dict_rhs`: `compile_place_assign` (`codegen/mod.rs:2694`) resolves the place
  before it evaluates the right-hand side, which can move the entry behind its back.
- `json_cursor`: `ENTRY_CURSOR` (`runtime/json/dom.rs:162`) knows an object by
  its address and is not cleared when the document is closed; a new object at
  that address, first asked for the index the cursor stands on, is answered
  with an entry of the closed document.

The others are to be run by hand
(`tlc -config <configuration> <module>`), some with one line of a passing run's
configuration changed; TLC finds the named property violated in
seconds. Where two rows name one configuration, `-continue` reports both.

| configuration | property | what the code does, and what is said of it |
|---|---|---|
| `MCFrogDict_host.cfg` | `KeysReachable` | `FrogCtx::alloc_dict` (`runtime/host.rs:222`) never writes the cached hashes; `runtime/dict.rs:323` has "Every surviving entry's hash was cached at insert" |
| `MCCowValues_rhs.cfg` | `StoresUnaliased` | the barrier of `g[0] = { h = g; [] }` looks at the shared bit before the right-hand side sets it (`codegen/mod.rs:2694`); `plans/MUTABILITY.md:71` says of aliasing "Not expressible" |
| `MCCowValues_values.cfg`, with `BodyWritesIterable = TRUE` | `ImplementsValueSpec` | a loop reads its list without marking it (`codegen/mod.rs:4353`), so whether it sees the body's writes depends on whether the list was shared; `plans/MUTABILITY.md:72`: "neither changes program meaning" |
| `MCBodyRun.cfg`, with `Starts <- MCMisjudged` and only `NoUseAfterDeath` as invariant | `NoUseAfterDeath` | `and` and `or` count as evaluating both sides (`frontend/liveness.rs:421`), although the right one may give x a new value, or return, and be skipped: an earlier read of x is taken for the last, and x is read after it. The comment at 418: "sound (never marks a name dead that a taken path still needs)" |
| the same | `NoUseAfterDeath` | `x[..] = v` takes x to be needed only after v (`frontend/liveness.rs:519`), while the place is resolved before it (`codegen/mod.rs:2694`): if v gives x a new value, the place is one of a value thought dead. So it is of `f(mut x, v)` (`frontend/liveness.rs:597` and `codegen/mod.rs:3668`) |
| the same | `NoUseAfterDeath` | the arguments of a call are analysed last to first, but the index steps of one `mut` place first to last (`frontend/liveness.rs:599`; the assignment at 521 reverses them): of `f(mut g[first(x)][len(x)])` the first read of x is taken for the last, and x is read again. `frontend/typed_ast.rs:153`: "Every subexpression this argument evaluates, in evaluation order" |
| `MCFrogState_free.cfg` | `GoodEntriesCompile` | the JIT module keeps the symbols of a failed entry and the next has its number (`state.rs:418`); `state.rs:286`: "so a failed `eval` never leaves the `FrogState` unusable" |
| `MCFrogState_free.cfg` | `VariablesPersist` | only a top-level assignment reaches the buffer that becomes the session's environment (`codegen/mod.rs:5587`); the repository's `README.md:386`: "The REPL maintains full state across entries" |
| `MCFrogState_free.cfg` | `CallsMatchChecker` | a call is compiled against the newest function of its name in the entry, but checked against the one above it (`codegen/mod.rs:5662`); the comment at 5652 speaks of a "subsequent call" |
| `MCModuleLink.cfg`, with `LinkKeepsEveryMeaning` for `LinkKeepsMeaning` | `LinkKeepsEveryMeaning` | a function inside a function starts with its own parameters only (`frontend/modules.rs:659`), and an `if .. is` binds its name unseen: a local there that has the name of an import is replaced by it. The comment at 569: the set "tracks names currently locally bound" |
| `MCSyntax_strict.cfg` | `NothingLost` | `skip_newlines` (`frontend/parser.rs:425`) drops the error of the token after a newline, and of two `else` arms of a match the first is dropped |
| `MCSyntax_strict.cfg` | `NeverPanics` | `conditional` (`frontend/grammar.rs:329`) unwraps the step past an `else` ("just checked it"), which fails when the lexer refuses the next token |
| `MCUnionValues_strict.cfg` | `EveryReadingAgrees` | a constructor call placed where its own boxed union is expected gets a `Widen` (`frontend/typeck.rs:2319`) and so another tag than its readers test; `frontend/typed_ast.rs:352` says a nominal union "never needs this node" |
| `MCUnionValues_strict.cfg` | `PrintReadsAsMatch` | print and `==` take the address of a boxed number for the number (`codegen/mod.rs:1890`); the comment at 1872: "the same unboxing `TypedExprKind::Narrow` does, inline or boxed" |

Of `read(repr(x)) == x` (`plans/DATA.md:95`, "modulo NaN"), `Keeps` leaves out
two more cases in which it does not hold: the smallest Int, whose notation is a
minus sign and a literal the lexer refuses, and unions of two lists, two dicts
or two ranges, which are always read as the first (`check_union_readable`
refuses only two records). `Says` takes over two liberties of the reader: for
a plain None any text will do, and a plain record's name is not compared.

Others, met while reading and not modelled, are listed as hazards with a
note: `call_jit` clears the active heap instead of restoring it, nested states
share one frame walk, `JIT_CODE` entries outlive their state, an inner `let`
shares its outer namesake's variable, type parameters survive a failed
declaration, a function named like a runtime primitive replaces it, `frog_range`
truncates lengths.

## 8. What is not modelled

Characters: scanning, string interpolation, formatting, diagnostics and the
wording of errors. Input and output: files, the terminal, the linker, the
playground's process. Instruction selection and everything inside Cranelift.
Floating-point arithmetic, beyond the equality of keys and which Floats JSON has
no text for. Inference, unification, generics, traits and monomorphisation: the
largest part of `typeck.rs`. The frame walk and nested states. The rest of the
list in section 2.

Within the modelled parts: the collector's `count_refs` (a debugging check) and
free lists, the alternative dict index backends (all implement one trait,
modelled as a set of pairs), dicts and structs inside places, comprehensions and
loops over ranges and user iterators, variables captured by closures, the
second JSON backend, error offsets, and allocation failure, on which the runtime
aborts.
