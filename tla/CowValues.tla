------------------------------ MODULE CowValues ------------------------------
(***************************************************************************)
(* How compiled code implements value semantics by sharing: reading a      *)
(* variable that is still needed, or an element of a container, sets the   *)
(* `shared` bit of the list it names; writing through a place walks from   *)
(* its root to its leaf and replaces every shared list on the way by a     *)
(* deep copy (codegen/mod.rs: mark_shared_if_aliased,                      *)
(* mark_shared_extracted, emit_place_ref, emit_unshare, and clone_obj of   *)
(* runtime/gc.rs).                                                         *)
(*                                                                         *)
(* A list is a row (of cells) or a grid (of rows), so that a place can be  *)
(* a variable, an element or an element of an element.  Whether a read is  *)
(* its variable's last use is liveness.rs's answer: here a read may be     *)
(* taken as the last one only if the variable is gone afterwards.          *)
(***************************************************************************)
EXTENDS Integers, Sequences, SequencesExt, FiniteSets

CONSTANTS
  RowVars, GridVars, Param, Cell, Unbound, None,
  MaxObjs,  \* bound: addresses, enough for the copies one step makes
  MaxLists, \* bound: lists in use after a step
  MaxNested, \* bound: assignments, calls and loops in progress together
  MaxRow,   \* bound: cells of a row
  MaxGrid,  \* bound: rows of a grid
  RhsTouchesRoot,     \* the right side of root[..] = v may use root itself
  BodyWritesIterable  \* the body of `for x in xs` may write into xs

ASSUME VarsAssumption == Param \in RowVars /\ RowVars \cap GridVars = {}
ASSUME CowBoundsAssumption ==
  /\ MaxObjs \in Nat /\ MaxLists \in Nat /\ MaxNested \in Nat /\ MaxRow \in Nat /\ MaxGrid \in Nat
  /\ RhsTouchesRoot \in BOOLEAN /\ BodyWritesIterable \in BOOLEAN

VARIABLES
  heap,  \* the list at each address, or None
  loc,   \* the address each variable's Cranelift variable holds, or Unbound
  place, \* emit_place_ref's answer while the right side runs: [root, path, list]
  call,  \* the places of the `mut` argument of the call in progress
  loop   \* compile_for_loop's list_val, len_val and index

vars == <<heap, loc, place, call, loop>>

Vars == RowVars \cup GridVars
Addr == 1..MaxObjs

Row == [grid : {FALSE}, data : Seq(Cell), shared : BOOLEAN]
Grid == [grid : {TRUE}, data : Seq(Addr), shared : BOOLEAN]

Place == [root : Vars, path : Seq(Nat), list : Addr]
Call == [root : Vars, path : Seq(Nat), list : Addr \cup {0}]
Loop == [list : Addr, len : Nat, next : Nat]

ASSUME NoneAssumption == None \notin Row \cup Grid \cup Place \cup Call \cup Loop
ASSUME UnboundAssumption == Unbound \notin Addr

-----------------------------------------------------------------------------
(* Lists in a heap h.  What nothing names any more is collected. *)

Items(h, a) == IF h[a].grid THEN ToSet(h[a].data) ELSE {}

(* Mutant: the list a loop runs over is not in the stack map. *)
InUseNoLoop(env, pl, cl, lp) ==
  ({env[x] : x \in Vars} \ {Unbound})
  \cup (IF pl = None THEN {} ELSE {pl.list})
  \cup (IF cl = None \/ cl.path = <<>> THEN {} ELSE {cl.list})

InUse(env, pl, cl, lp) ==
  ({env[x] : x \in Vars} \ {Unbound})
  \cup (IF pl = None THEN {} ELSE {pl.list})
  \cup (IF cl = None \/ cl.path = <<>> THEN {} ELSE {cl.list})
  \cup (IF lp = None THEN {} ELSE {lp.list})

Collected(h, roots) ==
  LET live == roots \cup UNION {Items(h, a) : a \in roots}
  IN [a \in Addr |-> IF a \in live THEN h[a] ELSE None]

(* Allocation takes any free address: which one is irrelevant. *)
FreeAddrs(h) == {a \in Addr : h[a] = None}
Fresh(h) == CHOOSE a \in Addr : h[a] = None
Room(h, n) == Cardinality(FreeAddrs(h)) >= n

Put(h, a, list) == [h EXCEPT ![a] = list]
Mark(h, a) == Put(h, a, [h[a] EXCEPT !.shared = TRUE])
Store(h, a, data) == Put(h, a, [h[a] EXCEPT !.data = data])
SetItem(h, a, i, v) == Store(h, a, [h[a].data EXCEPT ![i] = v])

NewRow(data) == [grid |-> FALSE, data |-> data, shared |-> FALSE]
NewGrid(data) == [grid |-> TRUE, data |-> data, shared |-> FALSE]

(* Mutant: the copy shares its elements. *)
CloneShallow(h, a) ==
  [at |-> Fresh(h), heap |-> Put(h, Fresh(h), [h[a] EXCEPT !.shared = FALSE])]

(* The addresses of the copies of a grid's rows, one for each slot. *)
FreshRows(h, at, data) ==
  CHOOSE f \in [DOMAIN data -> FreeAddrs(h) \ {at}] : IsInjective(f)

(* The heap with a deep copy of grid a at `at`, its rows copied to `rows`.  *)
CopiedGrid(h, a, at, rows) ==
  [b \in Addr |->
     IF b = at THEN NewGrid(rows)
     ELSE IF \E j \in DOMAIN rows : rows[j] = b
       THEN NewRow(h[h[a].data[CHOOSE j \in DOMAIN rows : rows[j] = b]].data)
     ELSE h[b]]

(* frog_clone: a deep copy, each slot copied on its own, nothing shared. *)
CloneObj(h, a) ==
  [at |-> Fresh(h),
   heap |-> IF h[a].grid
              THEN CopiedGrid(h, a, Fresh(h), FreshRows(h, Fresh(h), h[a].data))
              ELSE Put(h, Fresh(h), NewRow(h[a].data))]

(* emit_unshare: where the write may go, and the heap it goes to. *)
Unshare(h, a) == IF h[a].shared THEN CloneObj(h, a) ELSE [at |-> a, heap |-> h]

(* Mutant: only the innermost list is made private. *)
WalkInnermost(h, a, path) ==
  IF path = <<>>
    THEN LET u == Unshare(h, a) IN [heap |-> u.heap, root |-> u.at, list |-> u.at]
    ELSE LET u == Unshare(h, h[a].data[path[1]])
         IN [heap |-> SetItem(u.heap, a, path[1], u.at), root |-> a, list |-> u.at]

(* emit_place_ref's walk to the list at `path` of the value at address a:   *)
(* the outer list first, then the inner one, written back into its slot.   *)
WalkTo(h, a, path) ==
  LET outer == Unshare(h, a) IN
  IF path = <<>> THEN [heap |-> outer.heap, root |-> outer.at, list |-> outer.at]
  ELSE LET i == path[1]
           inner == Unshare(outer.heap, outer.heap[outer.at].data[i])
       IN [heap |-> SetItem(inner.heap, outer.at, i, inner.at),
           root |-> outer.at, list |-> inner.at]

(* Enough for any walk: it copies one list, since below a fresh copy nothing *)
(* is shared.                                                              *)
WalkRoom == Room(heap, 1 + MaxGrid)

-----------------------------------------------------------------------------
(* What the program may name. *)

(* A `mut` argument's root is the callee's for the length of the call.  In  *)
(* the right side of an assignment the assigned root may be used only if   *)
(* RhsTouchesRoot.                                                         *)
Busy(x) ==
  \/ call # None /\ call.root = x
  \/ place # None /\ place.root = x /\ ~RhsTouchesRoot

Usable(S) == {x \in S : loc[x] # Unbound /\ ~Busy(x)}
Targets(S) == {x \in S : ~Busy(x) /\ (x = Param => call # None)}

(* Liveness keeps alive the root of an assignment or of a `mut` argument,   *)
(* and a `mut` parameter; not what a loop runs over.                       *)
Pinned(x) == x = Param \/ (place # None /\ place.root = x)

(* A write that the barrier would let through to the list a loop runs over. *)
Iterated(x) ==
  /\ loop # None /\ loop.list = loc[x] /\ ~heap[loc[x]].shared
  /\ ~BodyWritesIterable
Writable(S) == {x \in Usable(S) : ~Iterated(x)}

-----------------------------------------------------------------------------
(* Expressions: the heap and variables after evaluating one, and the        *)
(* address of its value.                                                   *)

(* A read of a variable: a Copy marks the list, a Move forgets the name. *)
ReadVar(h, env, x) ==
  {[heap |-> Mark(h, env[x]), loc |-> env, at |-> env[x]]}
  \cup (IF Pinned(x) THEN {}
        ELSE {[heap |-> h, loc |-> [env EXCEPT ![x] = Unbound], at |-> env[x]]})

(* Mutant: an element is not a variable, so nothing is marked. *)
ReadElemUnmarked(h, env, g, i) == [heap |-> h, loc |-> env, at |-> h[env[g]].data[i]]

(* g[i] as a value: the grid keeps its own path to the row, so it is marked.*)
ReadElem(h, env, g, i) ==
  LET a == h[env[g]].data[i] IN [heap |-> Mark(h, a), loc |-> env, at |-> a]

Literal(h, env, list) ==
  IF Room(h, 1)
    THEN {[heap |-> Put(h, Fresh(h), list), loc |-> env, at |-> Fresh(h)]}
    ELSE {}

(* The right side of root[i] = g[j] may read the grid it assigns into. *)
Readable(S) ==
  Usable(S) \cup
  {g \in S \cap GridVars : place # None /\ place.root = g /\ Len(place.path) = 1
                           /\ loc[g] # Unbound /\ ~(call # None /\ call.root = g)}

RowExprs(h, env) ==
  Literal(h, env, NewRow(<<>>))
  \cup (UNION {ReadVar(h, env, x) : x \in Usable(RowVars)})
  \cup (UNION {{ReadElem(h, env, g, i) : i \in DOMAIN h[env[g]].data} : g \in Readable(GridVars)})

GridExprs(h, env) ==
  Literal(h, env, NewGrid(<<>>)) \cup UNION {ReadVar(h, env, g) : g \in Usable(GridVars)}

(* Every action ends here: new variables, and whatever is now garbage gone. *)
Commit(h, env, pl, cl, lp) ==
  /\ heap' = Collected(h, InUse(env, pl, cl, lp))
  /\ Cardinality({a \in Addr : heap'[a] # None}) <= MaxLists
  /\ Cardinality({n \in 1..3 : <<pl, cl, lp>>[n] # None}) <= MaxNested
  /\ loc' = env /\ place' = pl /\ call' = cl /\ loop' = lp

-----------------------------------------------------------------------------
Init ==
  /\ heap = [a \in Addr |-> None]
  /\ loc = [x \in Vars |-> Unbound]
  /\ place = None /\ call = None /\ loop = None

(* x = e *)
Assign(x, exprs) ==
  \E e \in exprs : Commit(e.heap, [e.loc EXCEPT ![x] = e.at], place, call, loop)

(* push(mut x.., c): the receiver's path is unshared to the end, the value  *)
(* is evaluated, the list grows in place.                                  *)
PushCell(x, path, c) ==
  LET w == WalkTo(heap, loc[x], path) IN
  /\ WalkRoom /\ Len(w.heap[w.list].data) < MaxRow
  /\ Commit(Store(w.heap, w.list, Append(w.heap[w.list].data, c)),
            [loc EXCEPT ![x] = w.root], place, call, loop)

(* The value pushed is a row: fresh, a variable's or an element's. *)
PushRow(g) ==
  LET w == WalkTo(heap, loc[g], <<>>) IN
  /\ WalkRoom /\ Len(w.heap[w.list].data) < MaxGrid
  /\ \E e \in RowExprs(w.heap, [loc EXCEPT ![g] = w.root]) :
       Commit(Store(e.heap, w.list, Append(e.heap[w.list].data, e.at)), e.loc, place, call, loop)

(* root[path] = ..: every list above the leaf is private before the right  *)
(* side is evaluated.                                                      *)
PlaceBegin(x, path) ==
  LET w == WalkTo(heap, loc[x], Front(path)) IN
  /\ place = None /\ WalkRoom
  /\ Last(path) \in DOMAIN w.heap[w.list].data
  /\ Commit(w.heap, [loc EXCEPT ![x] = w.root],
            [root |-> x, path |-> path, list |-> w.list], call, loop)

IsRowPlace == place.root \in GridVars /\ Len(place.path) = 1

(* The store: into the list found then, at the index found then. *)
PlaceEndCell(c) ==
  /\ place # None /\ ~IsRowPlace
  /\ Commit(SetItem(heap, place.list, Last(place.path), c), loc, None, call, loop)

PlaceEndRow ==
  /\ place # None /\ IsRowPlace
  /\ \E e \in RowExprs(heap, loc) :
       Commit(SetItem(e.heap, place.list, Last(place.path), e.at), e.loc, None, call, loop)

(* f(mut x) hands the variable's list over as it is; f(mut g[i]) makes the  *)
(* grid private first.  The callee's own barrier looks after the leaf.     *)
CallBegin(x, path) ==
  /\ call = None
  /\ \/ /\ path = <<>>
        /\ Commit(heap, [loc EXCEPT ![Param] = loc[x]], place,
                  [root |-> x, path |-> path, list |-> 0], loop)
     \/ /\ path # <<>> /\ WalkRoom
        /\ LET w == WalkTo(heap, loc[x], <<>>) IN
           Commit(w.heap, [loc EXCEPT ![x] = w.root, ![Param] = w.heap[w.list].data[path[1]]],
                  place, [root |-> x, path |-> path, list |-> w.list], loop)

(* The callee returns its parameter's last value, stored where the argument *)
(* came from.                                                              *)
CallEnd ==
  /\ call # None /\ loc[Param] # Unbound
  /\ (place # None => place.root # Param)
  /\ \/ /\ call.path = <<>>
        /\ Commit(heap, [loc EXCEPT ![call.root] = loc[Param], ![Param] = Unbound],
                  place, None, loop)
     \/ /\ call.path # <<>>
        /\ Commit(SetItem(heap, call.list, call.path[1], loc[Param]),
                  [loc EXCEPT ![Param] = Unbound], place, None, loop)

(* for x in g: the list and its length are read once and nothing is marked; *)
(* each element is read from the list when its turn comes.                 *)
LoopBegin(g) ==
  /\ loop = None
  /\ Commit(heap, loc, place, call,
            [list |-> loc[g], len |-> Len(heap[loc[g]].data), next |-> 1])

LoopStep(x) ==
  /\ loop # None /\ loop.next <= loop.len
  /\ LET a == heap[loop.list].data[loop.next] IN
     Commit(Mark(heap, a), [loc EXCEPT ![x] = a], place, call, [loop EXCEPT !.next = loop.next + 1])

LoopEnd ==
  /\ loop # None /\ loop.next > loop.len
  /\ Commit(heap, loc, place, call, None)

Containers(x) ==
  {<<>>} \cup (IF x \in GridVars THEN {<<i>> : i \in DOMAIN heap[loc[x]].data} ELSE {})
RowPlaces(x) == IF x \in GridVars THEN Containers(x) \ {<<>>} ELSE Containers(x)

Next ==
  \/ \E x \in Targets(RowVars) : Assign(x, RowExprs(heap, loc)) \/ LoopStep(x)
  \/ \E g \in Targets(GridVars) : Assign(g, GridExprs(heap, loc))
  \/ \E g \in Writable(GridVars) : PushRow(g)
  \/ \E g \in Usable(GridVars) : LoopBegin(g)
  \/ \E x \in Writable(Vars) :
       \/ \E path \in RowPlaces(x) :
            CallBegin(x, path) \/ \E c \in Cell : PushCell(x, path, c)
       \/ \E path \in Containers(x) : \E i \in 1..(MaxRow + MaxGrid) :
            PlaceBegin(x, Append(path, i))
  \/ \E c \in Cell : PlaceEndCell(c)
  \/ PlaceEndRow \/ CallEnd \/ LoopEnd

Spec == Init /\ [][Next]_vars

-----------------------------------------------------------------------------
(* Type correctness: variables, slots, the place being assigned and the list *)
(* a loop runs over all name lists of their type that are still there.      *)
TypeOK ==
  /\ DOMAIN heap = Addr
  /\ \A a \in Addr : heap[a] = None \/ heap[a] \in Row \/ heap[a] \in Grid
  /\ loc \in [Vars -> Addr \cup {Unbound}]
  /\ \A x \in Vars : loc[x] # Unbound =>
       heap[loc[x]] \in (IF x \in GridVars THEN Grid ELSE Row)
  /\ place # None => heap[place.list] # None
  /\ loop # None => heap[loop.list] \in Grid
  /\ \A a \in Addr : heap[a] # None => \A b \in Items(heap, a) : heap[b] \in Row

(* The paths by which a list can be read: variables and grid slots.  While  *)
(* a `mut` argument is out on loan its own place is not one.               *)
VarPath(a, x) == loc[x] = a /\ ~(call # None /\ call.root = x /\ call.path = <<>>)
SlotPath(a, b, i) ==
  /\ heap[b] # None /\ heap[b].grid /\ i \in DOMAIN heap[b].data
  /\ heap[b].data[i] = a
  /\ \E x \in Vars : loc[x] = b
  /\ ~(call # None /\ call.list = b /\ call.path = <<i>>)

Paths(a) ==
  {<<x, 0>> : x \in {y \in Vars : VarPath(a, y)}}
  \cup {s \in Addr \X (1..MaxGrid) : SlotPath(a, s[1], s[2])}

(* A list with two paths that can still be read has its shared bit set: the *)
(* invariant copy-on-write rests on.                                       *)
SharedWhenAliased ==
  \A a \in Addr : heap[a] # None /\ Cardinality(Paths(a)) > 1 => heap[a].shared

(* The meaning of what each address holds. *)
Value(a) ==
  IF heap[a].grid
    THEN [i \in DOMAIN heap[a].data |-> heap[heap[a].data[i]].data]
    ELSE heap[a].data

(* What each variable lets the program read: a list directly, or as a row   *)
(* of its grid.                                                            *)
Reads(x, i, a) ==
  /\ loc[x] # Unbound
  /\ ~(call # None /\ call.root = x /\ call.path = IF i = 0 THEN <<>> ELSE <<i>>)
  /\ IF i = 0 THEN loc[x] = a
     ELSE /\ x \in GridVars /\ i \in DOMAIN heap[loc[x]].data
          /\ heap[loc[x]].data[i] = a

Readers(a) == {s \in Vars \X (0..MaxGrid) : Reads(s[1], s[2], a)}

(* Aliasing is not expressible: a list whose elements change in place is    *)
(* one that a single path of a single variable reads.                      *)
StoresUnaliased ==
  [][\A a \in Addr : heap[a] # None /\ heap'[a] # None /\ heap'[a].data # heap[a].data
       => Cardinality(Readers(a)) <= 1]_vars

AbstractEnv ==
  [x \in Vars |-> IF loc[x] = Unbound \/ (call # None /\ call.root = x)
                    THEN Unbound ELSE Value(loc[x])]
AbstractCall ==
  IF call = None THEN None
  ELSE [root |-> call.root, path |-> call.path,
        rest |-> IF call.path = <<>> THEN Unbound
                 ELSE [Value(call.list) EXCEPT ![call.path[1]] = Unbound]]

AbstractPlace == IF place = None THEN None ELSE [root |-> place.root, path |-> place.path]
AbstractLoop ==
  IF loop = None THEN None
  ELSE [items |-> SubSeq(Value(loop.list), 1, loop.len), next |-> loop.next]

Abstract == INSTANCE ValueSpec WITH
  env <- AbstractEnv, place <- AbstractPlace, call <- AbstractCall, loop <- AbstractLoop

(* What has no value is told from what has one. *)
ASSUME ViewAssumption ==
  /\ Unbound \notin Seq(Cell) \cup Seq(Seq(Cell))
  /\ None \notin [root : Vars, path : Seq(Nat)]
  /\ None \notin [root : Vars, path : Seq(Nat),
                 rest : {Unbound} \cup Seq({Unbound} \cup Seq(Cell))]
  /\ None \notin [items : Seq(Seq(Cell)), next : Nat]

(* Sharing is never visible: every assignment, push, call and loop changes  *)
(* the variables' values as it would if every binding were a copy.         *)
ImplementsValueSpec == Abstract!Spec
=============================================================================
