--------------------------- MODULE CowValuesProofs ---------------------------
(***************************************************************************)
(* Why sharing is never visible, for any variables, cells and bounds.      *)
(*                                                                         *)
(* A list whose `shared` bit is clear has at most one name: a variable or  *)
(* a slot of a grid.  Reads mark what they name twice, the write barrier   *)
(* copies what is marked, and a copy starts with the one name it is stored *)
(* under.  A list written in place is unmarked and so is everything on the *)
(* way to it, so its one name is the place the program wrote.              *)
(***************************************************************************)
EXTENDS CowValues, TLAPS, FiniteSetTheorems, SequenceTheorems

-----------------------------------------------------------------------------
(* What the heap, the variables, the assignment, the call and the loop in   *)
(* progress look like, as predicates of a heap h and variables env so that  *)
(* they can be said of the states inside a step.                            *)

IsRow(h, a) == a \in Addr /\ h[a] \in Row
IsGrid(h, a) == a \in Addr /\ h[a] \in Grid
Is(h, x, a) == IF x \in GridVars THEN IsGrid(h, a) ELSE IsRow(h, a)

HeapOK(h) ==
  /\ h \in [Addr -> Row \cup Grid \cup {None}]
  /\ \A a \in Addr : h[a] \in Grid =>
       /\ Len(h[a].data) <= MaxGrid
       /\ \A i \in DOMAIN h[a].data : IsRow(h, h[a].data[i])

EnvOK(h, env) ==
  /\ env \in [Vars -> Addr \cup {Unbound}]
  /\ \A x \in Vars : env[x] # Unbound => Is(h, x, env[x])

(* The `mut` argument out on loan: a row variable, or a row of a grid that  *)
(* nothing else names and whose root still holds it.                        *)
CallOK(h, env, cl) ==
  \/ cl = None /\ env[Param] = Unbound
  \/ /\ cl \in Call /\ cl.root # Param /\ env[Param] # Unbound /\ env[cl.root] # Unbound
     /\ cl.path = <<>> => cl.root \in RowVars
     /\ cl.path # <<>> =>
          /\ cl.root \in GridVars /\ Len(cl.path) = 1
          /\ env[cl.root] = cl.list /\ cl.path[1] \in DOMAIN h[cl.list].data
          /\ ~h[cl.list].shared

PlaceOK(h, pl) ==
  \/ pl = None
  \/ /\ pl \in Place /\ Len(pl.path) \in 1..2
     /\ pl.path[Len(pl.path)] \in DOMAIN h[pl.list].data
     /\ IF pl.root \in GridVars /\ Len(pl.path) = 1 THEN IsGrid(h, pl.list) ELSE IsRow(h, pl.list)
     /\ pl.root \in RowVars => Len(pl.path) = 1

LoopOK(h, lp) ==
  \/ lp = None
  \/ /\ lp \in Loop /\ IsGrid(h, lp.list)
     /\ lp.len <= Len(h[lp.list].data) /\ lp.next \in 1..(lp.len + 1)

(* The names of the list at a: variables and slots, except the one on loan. *)
LentVar(cl, x) == cl # None /\ cl.path = <<>> /\ cl.root = x
LentSlot(cl, b, i) == cl # None /\ cl.path = <<i>> /\ cl.list = b

VarName(env, cl, a, x) == x \in Vars /\ env[x] = a /\ ~LentVar(cl, x)
SlotName(h, cl, a, b, i) ==
  /\ b \in Addr /\ h[b] \in Grid /\ i \in DOMAIN h[b].data /\ h[b].data[i] = a
  /\ ~LentSlot(cl, b, i)

(* At most one name. *)
OneName(h, env, cl, a) ==
  /\ \A x, y : VarName(env, cl, a, x) /\ VarName(env, cl, a, y) => x = y
  /\ \A x, b, i : ~(VarName(env, cl, a, x) /\ SlotName(h, cl, a, b, i))
  /\ \A b, i, c, j : SlotName(h, cl, a, b, i) /\ SlotName(h, cl, a, c, j) => b = c /\ i = j

NoName(h, env, cl, a) ==
  /\ \A x : ~VarName(env, cl, a, x)
  /\ \A b, i : ~SlotName(h, cl, a, b, i)

(* The invariant copy-on-write rests on, and what a value about to be bound *)
(* or stored must satisfy to keep it.                                       *)
Single(h, env, cl) ==
  \A a \in Addr : h[a] # None /\ ~h[a].shared => OneName(h, env, cl, a)
Detached(h, env, cl, a) == h[a].shared \/ NoName(h, env, cl, a)

Good(h, env, cl) == HeapOK(h) /\ EnvOK(h, env) /\ CallOK(h, env, cl) /\ Single(h, env, cl)

-----------------------------------------------------------------------------
(* Lists. *)

LEMMA VarsApart == \A x \in Vars : (x \in RowVars <=> x \notin GridVars)
BY VarsAssumption DEF Vars

LEMMA RowFields ==
  ASSUME NEW o \in Row
  PROVE  /\ o.grid = FALSE /\ o.data \in Seq(Cell) /\ o.shared \in BOOLEAN
         /\ o \notin Grid /\ o # None
<1>1. o.grid = FALSE /\ o.data \in Seq(Cell) /\ o.shared \in BOOLEAN
  BY DEF Row
<1>2. o \notin Grid
  BY <1>1 DEF Grid
<1> QED BY <1>1, <1>2, NoneAssumption

LEMMA GridFields ==
  ASSUME NEW o \in Grid
  PROVE  /\ o.grid = TRUE /\ o.data \in Seq(Addr) /\ o.shared \in BOOLEAN
         /\ o \notin Row /\ o # None
<1>1. o.grid = TRUE /\ o.data \in Seq(Addr) /\ o.shared \in BOOLEAN
  BY DEF Grid
<1>2. o \notin Row
  BY <1>1 DEF Row
<1> QED BY <1>1, <1>2, NoneAssumption

(* A list with another `shared` bit. *)
LEMMA WithShared ==
  ASSUME NEW o \in Row \cup Grid, NEW p, p = [o EXCEPT !.shared = TRUE]
  PROVE  /\ o \in Row => p \in Row
         /\ o \in Grid => p \in Grid
         /\ p.grid = o.grid /\ p.data = o.data /\ p.shared
<1>1. CASE o \in Row
  BY <1>1 DEF Row, Grid
<1>2. CASE o \in Grid
  BY <1>2 DEF Row, Grid
<1> QED BY <1>1, <1>2

(* A list with other items. *)
LEMMA RowWithData ==
  ASSUME NEW o \in Row, NEW d \in Seq(Cell), NEW p, p = [o EXCEPT !.data = d]
  PROVE  p \in Row /\ p.grid = o.grid /\ p.data = d /\ p.shared = o.shared
BY DEF Row

LEMMA GridWithData ==
  ASSUME NEW o \in Grid, NEW d \in Seq(Addr), NEW p, p = [o EXCEPT !.data = d]
  PROVE  p \in Grid /\ p.grid = o.grid /\ p.data = d /\ p.shared = o.shared
BY DEF Grid

(* And with its own it is the same list. *)
LEMMA SameData ==
  ASSUME NEW o \in Row \cup Grid
  PROVE  [o EXCEPT !.data = o.data] = o
<1>1. CASE o \in Row
  BY <1>1 DEF Row
<1>2. CASE o \in Grid
  BY <1>2 DEF Grid
<1> QED BY <1>1, <1>2

LEMMA NewRowOK ==
  ASSUME NEW d \in Seq(Cell)
  PROVE  NewRow(d) \in Row /\ NewRow(d).data = d /\ NewRow(d).shared = FALSE
BY DEF NewRow, Row

LEMMA NewGridOK ==
  ASSUME NEW d \in Seq(Addr)
  PROVE  NewGrid(d) \in Grid /\ NewGrid(d).data = d /\ NewGrid(d).shared = FALSE
BY DEF NewGrid, Grid

LEMMA PutValue ==
  ASSUME NEW h, DOMAIN h = Addr, NEW a \in Addr, NEW o
  PROVE  /\ DOMAIN Put(h, a, o) = Addr
         /\ Put(h, a, o)[a] = o
         /\ \A b \in Addr : b # a => Put(h, a, o)[b] = h[b]
BY DEF Put

(* What a list is tells what the heap holds. *)
LEMMA HeapCases ==
  ASSUME NEW h, HeapOK(h), NEW a \in Addr
  PROVE  /\ h[a] # None => h[a] \in Row \/ h[a] \in Grid
         /\ IsRow(h, a) \/ IsGrid(h, a) => h[a] # None
         /\ ~(IsRow(h, a) /\ IsGrid(h, a))
BY RowFields, GridFields DEF HeapOK, IsRow, IsGrid

-----------------------------------------------------------------------------
(* Allocation. *)

LEMMA FreeFinite ==
  ASSUME NEW h
  PROVE  IsFiniteSet(FreeAddrs(h)) /\ Cardinality(FreeAddrs(h)) \in Nat
<1>1. IsFiniteSet(Addr)
  BY CowBoundsAssumption, FS_Interval DEF Addr
<1>2. FreeAddrs(h) \in SUBSET Addr
  BY DEF FreeAddrs
<1> QED BY <1>1, <1>2, FS_Subset, FS_CardinalityType

LEMMA FreshIsFree ==
  ASSUME NEW h, NEW n \in Nat \ {0}, Room(h, n)
  PROVE  Fresh(h) \in Addr /\ h[Fresh(h)] = None
<1>1. FreeAddrs(h) # {}
  <2>1. Cardinality({}) = 0
    BY FS_EmptySet
  <2> QED BY <2>1, FreeFinite DEF Room
<1> QED BY <1>1 DEF Fresh, FreeAddrs

LEMMA FreshRowsFree ==
  ASSUME NEW h, Room(h, 1 + MaxGrid), NEW data \in Seq(Addr), Len(data) <= MaxGrid
  PROVE  LET rows == FreshRows(h, Fresh(h), data)
         IN /\ rows \in [DOMAIN data -> FreeAddrs(h) \ {Fresh(h)}]
            /\ \A i, j \in DOMAIN data : rows[i] = rows[j] => i = j
<1> DEFINE at == Fresh(h)
           F == FreeAddrs(h) \ {at}
           n == Len(data)
<1>1. MaxGrid \in Nat /\ 1 + MaxGrid \in Nat \ {0}
  BY CowBoundsAssumption
<1>2. at \in FreeAddrs(h)
  BY <1>1, FreshIsFree DEF FreeAddrs
<1>3. IsFiniteSet(F) /\ Cardinality(F) = Cardinality(FreeAddrs(h)) - 1
  BY <1>2, FreeFinite, FS_RemoveElement
<1> HIDE DEF at, F
<1>4. Cardinality(F) \in Nat /\ Cardinality(F) >= MaxGrid
  BY <1>1, <1>3, FreeFinite, FS_CardinalityType DEF Room
<1>5. ExistsBijection(1..Cardinality(F), F)
  BY <1>3, FS_CardinalityType
<1>6. PICK f : f \in Bijection(1..Cardinality(F), F)
  BY <1>5 DEF ExistsBijection
<1>7. /\ f \in [1..Cardinality(F) -> F]
      /\ \A i, j \in 1..Cardinality(F) : f[i] = f[j] => i = j
  BY <1>6 DEF Bijection, Injection, Surjection, IsInjective
<1>8. n \in Nat /\ DOMAIN data = 1..n /\ n <= Cardinality(F)
  BY <1>1, <1>4
<1> HIDE DEF n
<1>9. \A i \in 1..n : i \in 1..Cardinality(F)
  BY <1>4, <1>8
<1> DEFINE s == [i \in 1..n |-> f[i]]
<1>10. s \in [1..n -> F] /\ \A i, j \in 1..n : s[i] = s[j] => i = j
  BY <1>7, <1>9
<1>11. s \in [1..n -> F] /\ IsInjective(s)
  BY <1>10 DEF IsInjective
<1>12. \E t \in [1..n -> F] : IsInjective(t)
  BY <1>11
<1> HIDE DEF s
<1>13. FreshRows(h, at, data) \in [1..n -> F] /\ IsInjective(FreshRows(h, at, data))
  BY <1>8, <1>12 DEF FreshRows, F
<1> QED BY <1>8, <1>13 DEF IsInjective, F, at

-----------------------------------------------------------------------------
(* The steps evaluation and the write barrier are made of. *)

(* Every list is still there with the items it had. *)
Extends(h, g) ==
  \A a \in Addr : /\ h[a] \in Row => g[a] \in Row
                  /\ h[a] \in Grid => g[a] \in Grid
                  /\ h[a] # None => g[a].data = h[a].data

LEMMA ExtendsTrans ==
  ASSUME NEW h, NEW g, NEW k, HeapOK(h), Extends(h, g), Extends(g, k)
  PROVE  Extends(h, k)
BY RowFields, GridFields DEF Extends, HeapOK

LEMMA EnvExtends ==
  ASSUME NEW h, NEW g, NEW env, EnvOK(h, env),
         \A a \in Addr : (h[a] \in Row => g[a] \in Row) /\ (h[a] \in Grid => g[a] \in Grid)
  PROVE  EnvOK(g, env)
BY DEF EnvOK, Is, IsRow, IsGrid

(* A list is marked when it gets a second name. *)
LEMMA MarkGood ==
  ASSUME NEW h, NEW env, NEW cl, Good(h, env, cl), NEW a \in Addr, h[a] # None,
         cl # None /\ cl.path # <<>> => a # cl.list
  PROVE  /\ Good(Mark(h, a), env, cl) /\ Extends(h, Mark(h, a))
         /\ Mark(h, a)[a].shared
         /\ \A b \in Addr : b # a => Mark(h, a)[b] = h[b]
<1> DEFINE g == Mark(h, a)
           p == [h[a] EXCEPT !.shared = TRUE]
<1>1. HeapOK(h) /\ EnvOK(h, env) /\ CallOK(h, env, cl) /\ Single(h, env, cl)
  BY DEF Good
<1>2. h[a] \in Row \cup Grid /\ DOMAIN h = Addr
  BY <1>1 DEF HeapOK
<1>3. /\ h[a] \in Row => p \in Row
      /\ h[a] \in Grid => p \in Grid
      /\ p.grid = h[a].grid /\ p.data = h[a].data /\ p.shared
  BY <1>2, WithShared
<1>4. DOMAIN g = Addr /\ g[a] = p /\ \A b \in Addr : b # a => g[b] = h[b]
  BY <1>2, PutValue DEF Mark
<1>4a. g = [h EXCEPT ![a] = p]
  BY DEF Mark, Put
<1> HIDE DEF g, p
<1>5. Extends(h, g)
  BY <1>2, <1>3, <1>4, RowFields, GridFields DEF Extends
<1>6. \A b \in Addr : /\ (g[b] \in Row <=> h[b] \in Row) /\ (g[b] \in Grid <=> h[b] \in Grid)
                      /\ h[b] # None => g[b].data = h[b].data
                      /\ (g[b] = None <=> h[b] = None)
  BY <1>2, <1>3, <1>4, RowFields, GridFields DEF HeapOK
<1>7. HeapOK(g)
  <2>1. g \in [Addr -> Row \cup Grid \cup {None}]
    BY <1>1, <1>2, <1>3, <1>4a DEF HeapOK
  <2> QED BY <1>1, <1>6, <2>1, GridFields DEF HeapOK, IsRow
<1>8. EnvOK(g, env)
  BY <1>1, <1>6, EnvExtends
<1>9. CallOK(g, env, cl)
  <2>1. CASE cl = None
    BY <1>1, <2>1, NoneAssumption DEF CallOK
  <2>2. CASE cl # None /\ cl.path = <<>>
    BY <1>1, <2>2 DEF CallOK
  <2>3. CASE cl # None /\ cl.path # <<>>
    <3>1. cl.list # a /\ env[cl.root] = cl.list /\ cl.root \in Vars /\ env[cl.root] # Unbound
      BY <1>1, <2>3 DEF CallOK, Call
    <3>2. cl.list \in Addr
      BY <1>1, <3>1 DEF EnvOK, Is, IsRow, IsGrid
    <3> QED BY <1>1, <1>4, <2>3, <3>1, <3>2 DEF CallOK
  <2> QED BY <2>1, <2>2, <2>3
<1>10. \A c, b, i : SlotName(g, cl, c, b, i) <=> SlotName(h, cl, c, b, i)
  BY <1>6, GridFields DEF SlotName
<1>11. Single(g, env, cl)
  BY <1>1, <1>3, <1>4, <1>6, <1>10 DEF Single, OneName
<1> QED BY <1>3, <1>4, <1>5, <1>7, <1>8, <1>9, <1>11 DEF Good, g

(* A name that goes away. *)
LEMMA UnbindGood ==
  ASSUME NEW h, NEW env, NEW cl, Good(h, env, cl), NEW x \in Vars, env[x] # Unbound,
         x # Param, cl # None => cl.root # x
  PROVE  /\ Good(h, [env EXCEPT ![x] = Unbound], cl)
         /\ Detached(h, [env EXCEPT ![x] = Unbound], cl, env[x])
<1> DEFINE new == [env EXCEPT ![x] = Unbound]
<1>1. HeapOK(h) /\ EnvOK(h, env) /\ CallOK(h, env, cl) /\ Single(h, env, cl)
  BY DEF Good
<1>2. /\ new \in [Vars -> Addr \cup {Unbound}] /\ new[x] = Unbound
      /\ \A y \in Vars : y # x => new[y] = env[y]
  BY <1>1 DEF EnvOK
<1> HIDE DEF new
<1>3. EnvOK(h, new)
  BY <1>1, <1>2 DEF EnvOK
<1>4. CallOK(h, new, cl)
  <2>1. Param \in Vars
    BY VarsAssumption DEF Vars
  <2>2. CASE cl = None
    BY <1>1, <1>2, <2>1, <2>2, NoneAssumption DEF CallOK
  <2>3. CASE cl # None
    <3>1. cl.root \in Vars /\ cl.root # x
      BY <1>1, <2>3 DEF CallOK, Call
    <3> QED BY <1>1, <1>2, <2>1, <2>3, <3>1 DEF CallOK
  <2> QED BY <2>2, <2>3
<1>5. \A c \in Addr : \A y : VarName(new, cl, c, y) => VarName(env, cl, c, y) /\ y # x
  BY <1>2, UnboundAssumption DEF VarName
<1>6. Single(h, new, cl)
  BY <1>1, <1>5 DEF Single, OneName
<1>7. Detached(h, new, cl, env[x])
  <2>1. env[x] \in Addr /\ h[env[x]] # None
    BY <1>1, HeapCases DEF EnvOK, Is, IsRow, IsGrid
  <2>2. VarName(env, cl, env[x], x)
    BY DEF VarName, LentVar
  <2> QED BY <1>1, <1>5, <2>1, <2>2 DEF Single, OneName, Detached, NoName
<1> QED BY <1>1, <1>3, <1>4, <1>6, <1>7 DEF Good, new

(* A detached list gets a variable for its name. *)
LEMMA BindGood ==
  ASSUME NEW h, NEW env, NEW cl, Good(h, env, cl), NEW x \in Vars, NEW a,
         Is(h, x, a), Detached(h, env, cl, a), x = Param => cl # None,
         cl # None => cl.root # x
  PROVE  Good(h, [env EXCEPT ![x] = a], cl)
<1> DEFINE new == [env EXCEPT ![x] = a]
<1>1. HeapOK(h) /\ EnvOK(h, env) /\ CallOK(h, env, cl) /\ Single(h, env, cl)
  BY DEF Good
<1>2. a \in Addr /\ a # Unbound /\ h[a] # None
  BY <1>1, HeapCases, UnboundAssumption DEF Is, IsRow, IsGrid
<1>3. /\ new \in [Vars -> Addr \cup {Unbound}] /\ new[x] = a
      /\ \A y \in Vars : y # x => new[y] = env[y]
  BY <1>1, <1>2 DEF EnvOK
<1> HIDE DEF new
<1>4. EnvOK(h, new)
  BY <1>1, <1>3 DEF EnvOK
<1>5. CallOK(h, new, cl)
  <2>1. Param \in Vars
    BY VarsAssumption DEF Vars
  <2>2. CASE cl = None
    BY <1>1, <1>3, <2>1, <2>2, NoneAssumption DEF CallOK
  <2>3. CASE cl # None
    <3>1. cl.root \in Vars /\ cl.root # x
      BY <1>1, <2>3 DEF CallOK, Call
    <3> QED BY <1>1, <1>2, <1>3, <2>1, <2>3, <3>1 DEF CallOK
  <2> QED BY <2>2, <2>3
<1>6. \A c, y : VarName(new, cl, c, y) => VarName(env, cl, c, y) \/ (y = x /\ c = a)
  BY <1>3 DEF VarName
<1>7. Single(h, new, cl)
  BY <1>1, <1>6 DEF Single, OneName, Detached, NoName
<1> QED BY <1>1, <1>4, <1>5, <1>7 DEF Good, new

(* Nothing names a free address. *)
LEMMA FreeNameless ==
  ASSUME NEW h, NEW env, NEW cl, HeapOK(h), EnvOK(h, env), NEW f \in Addr, h[f] = None
  PROVE  NoName(h, env, cl, f)
<1>1. \A x \in Vars : env[x] # f
  BY HeapCases, UnboundAssumption DEF EnvOK, Is, IsRow, IsGrid
<1>2. \A b \in Addr : h[b] \in Grid => \A i \in DOMAIN h[b].data : h[b].data[i] # f
  BY HeapCases DEF HeapOK, IsRow
<1> QED BY <1>1, <1>2 DEF NoName, VarName, SlotName

(* A list without items of its own is put at a free address. *)
LEMMA AllocGood ==
  ASSUME NEW h, NEW env, NEW cl, Good(h, env, cl), NEW f \in Addr, h[f] = None,
         NEW o, o \in Row \/ (o \in Grid /\ o.data = <<>>)
  PROVE  /\ Good(Put(h, f, o), env, cl) /\ Extends(h, Put(h, f, o))
         /\ NoName(Put(h, f, o), env, cl, f)
         /\ Put(h, f, o)[f] = o
         /\ \A b \in Addr : b # f => Put(h, f, o)[b] = h[b]
<1> DEFINE g == Put(h, f, o)
<1>1. HeapOK(h) /\ EnvOK(h, env) /\ CallOK(h, env, cl) /\ Single(h, env, cl)
  BY DEF Good
<1>2. o \in Row \cup Grid /\ o # None /\ DOMAIN h = Addr
  BY <1>1, RowFields, GridFields DEF HeapOK
<1>3. DOMAIN g = Addr /\ g[f] = o /\ \A b \in Addr : b # f => g[b] = h[b]
  BY <1>2, PutValue
<1>4. g = [h EXCEPT ![f] = o]
  BY DEF Put
<1> HIDE DEF g
<1>5. Extends(h, g)
  BY <1>2, <1>3, RowFields, GridFields DEF Extends
<1>6. \A b \in Addr : (h[b] \in Row => g[b] \in Row) /\ (h[b] \in Grid => g[b] \in Grid)
  BY <1>5 DEF Extends
<1>7. \A b \in Addr : IsRow(h, b) => IsRow(g, b)
  BY <1>6 DEF IsRow
<1>8. HeapOK(g)
  <2>1. g \in [Addr -> Row \cup Grid \cup {None}]
    BY <1>1, <1>2, <1>4 DEF HeapOK
  <2>2. ASSUME NEW b \in Addr, g[b] \in Grid
        PROVE  /\ Len(g[b].data) <= MaxGrid
               /\ \A i \in DOMAIN g[b].data : IsRow(g, g[b].data[i])
    <3>1. CASE b = f
      <4>1. g[b].data = <<>>
        BY <1>3, <2>2, <3>1, RowFields
      <4>2. Len(g[b].data) = 0 /\ DOMAIN g[b].data = {}
        BY <4>1
      <4> QED BY <4>2, CowBoundsAssumption
    <3>2. CASE b # f
      BY <1>1, <1>3, <1>7, <2>2, <3>2 DEF HeapOK, IsRow
    <3> QED BY <3>1, <3>2
  <2> QED BY <2>1, <2>2 DEF HeapOK
<1>9. EnvOK(g, env)
  BY <1>1, <1>6, EnvExtends
<1>10. \A c, b, i : SlotName(g, cl, c, b, i) => SlotName(h, cl, c, b, i)
  <2> SUFFICES ASSUME NEW c, NEW b, NEW i, SlotName(g, cl, c, b, i)
               PROVE  SlotName(h, cl, c, b, i)
    OBVIOUS
  <2>1. b \in Addr /\ g[b] \in Grid /\ i \in DOMAIN g[b].data
    BY DEF SlotName
  <2>2. b # f
    <3> SUFFICES ASSUME b = f PROVE FALSE
      OBVIOUS
    <3>1. g[b].data = <<>>
      BY <1>3, <2>1, RowFields
    <3>2. DOMAIN g[b].data = {}
      BY <3>1
    <3> QED BY <2>1, <3>2
  <2> QED BY <1>3, <2>1, <2>2 DEF SlotName
<1>11. CallOK(g, env, cl)
  <2>1. CASE cl = None
    BY <1>1, <2>1, NoneAssumption DEF CallOK
  <2>2. CASE cl # None /\ cl.path = <<>>
    BY <1>1, <2>2 DEF CallOK
  <2>3. CASE cl # None /\ cl.path # <<>>
    <3>1. env[cl.root] = cl.list /\ cl.root \in Vars /\ env[cl.root] # Unbound
      BY <1>1, <2>3 DEF CallOK, Call
    <3>2. cl.list \in Addr /\ h[cl.list] # None
      BY <1>1, <3>1, HeapCases DEF EnvOK, Is, IsRow, IsGrid
    <3> QED BY <1>1, <1>3, <2>3, <3>1, <3>2 DEF CallOK
  <2> QED BY <2>1, <2>2, <2>3
<1>12. NoName(h, env, cl, f)
  BY <1>1, FreeNameless
<1>13. NoName(g, env, cl, f)
  BY <1>10, <1>12 DEF NoName
<1>14. Single(g, env, cl)
  BY <1>1, <1>3, <1>10, <1>13 DEF Single, OneName, NoName
<1> QED BY <1>3, <1>5, <1>8, <1>9, <1>11, <1>13, <1>14 DEF Good, g

(* A row's cells are written in place: no name changes. *)
LEMMA StoreRowGood ==
  ASSUME NEW h, NEW env, NEW cl, Good(h, env, cl), NEW b, IsRow(h, b), NEW d \in Seq(Cell)
  PROVE  /\ Good(Store(h, b, d), env, cl)
         /\ IsRow(Store(h, b, d), b) /\ Store(h, b, d)[b].data = d
         /\ Store(h, b, d)[b].shared = h[b].shared
         /\ \A c \in Addr : c # b => Store(h, b, d)[c] = h[c]
<1> DEFINE g == Store(h, b, d)
           o == [h[b] EXCEPT !.data = d]
<1>1. HeapOK(h) /\ EnvOK(h, env) /\ CallOK(h, env, cl) /\ Single(h, env, cl)
  BY DEF Good
<1>2. b \in Addr /\ h[b] \in Row /\ DOMAIN h = Addr
  BY <1>1 DEF HeapOK, IsRow
<1>3. o \in Row /\ o.data = d /\ o.shared = h[b].shared
  BY <1>2, RowWithData
<1>4. DOMAIN g = Addr /\ g[b] = o /\ \A c \in Addr : c # b => g[c] = h[c]
  BY <1>2, PutValue DEF Store
<1>5. g = [h EXCEPT ![b] = o]
  BY DEF Store, Put
<1> HIDE DEF g, o
<1>6. \A c \in Addr : /\ (g[c] \in Row <=> h[c] \in Row) /\ (g[c] \in Grid <=> h[c] \in Grid)
                      /\ h[c] \in Grid => g[c].data = h[c].data
                      /\ (g[c] = None <=> h[c] = None)
                      /\ g[c].shared = h[c].shared
  BY <1>2, <1>3, <1>4, RowFields, GridFields
<1>7. HeapOK(g)
  <2>1. g \in [Addr -> Row \cup Grid \cup {None}]
    BY <1>1, <1>2, <1>3, <1>5 DEF HeapOK
  <2> QED BY <1>1, <1>6, <2>1 DEF HeapOK, IsRow
<1>8. EnvOK(g, env)
  BY <1>1, <1>6, EnvExtends
<1>9. CallOK(g, env, cl)
  <2>1. CASE cl = None
    BY <1>1, <2>1, NoneAssumption DEF CallOK
  <2>2. CASE cl # None /\ cl.path = <<>>
    BY <1>1, <2>2 DEF CallOK
  <2>3. CASE cl # None /\ cl.path # <<>>
    <3>1. env[cl.root] = cl.list /\ cl.root \in GridVars /\ env[cl.root] # Unbound
      BY <1>1, <2>3 DEF CallOK, Call
    <3>2. cl.list \in Addr /\ h[cl.list] \in Grid
      BY <1>1, <3>1 DEF EnvOK, Is, IsRow, IsGrid, Vars
    <3> QED BY <1>1, <1>6, <2>3, <3>1, <3>2 DEF CallOK
  <2> QED BY <2>1, <2>2, <2>3
<1>10. \A c, e, i : SlotName(g, cl, c, e, i) <=> SlotName(h, cl, c, e, i)
  BY <1>6 DEF SlotName
<1>11. Single(g, env, cl)
  BY <1>1, <1>6, <1>10 DEF Single, OneName
<1> QED BY <1>2, <1>3, <1>4, <1>7, <1>8, <1>9, <1>11 DEF Good, g, IsRow

(* Slot k of a grid gets a detached row, the other slots are as they were. *)
LEMMA StoreGridGood ==
  ASSUME NEW h, NEW env, NEW cl, Good(h, env, cl), NEW b, IsGrid(h, b),
         NEW a, IsRow(h, a), Detached(h, env, cl, a),
         NEW d \in Seq(Addr), Len(d) <= MaxGrid, NEW k \in DOMAIN d, d[k] = a,
         \A i \in DOMAIN d : i # k => i \in DOMAIN h[b].data /\ d[i] = h[b].data[i],
         \A i \in DOMAIN h[b].data : i \in DOMAIN d
  PROVE  /\ Good(Store(h, b, d), env, cl)
         /\ IsGrid(Store(h, b, d), b) /\ Store(h, b, d)[b].data = d
         /\ Store(h, b, d)[b].shared = h[b].shared
         /\ \A c \in Addr : c # b => Store(h, b, d)[c] = h[c]
<1> DEFINE g == Store(h, b, d)
           o == [h[b] EXCEPT !.data = d]
<1>1. HeapOK(h) /\ EnvOK(h, env) /\ CallOK(h, env, cl) /\ Single(h, env, cl)
  BY DEF Good
<1>2. b \in Addr /\ h[b] \in Grid /\ DOMAIN h = Addr
  BY <1>1 DEF HeapOK, IsGrid
<1>3. o \in Grid /\ o.data = d /\ o.shared = h[b].shared
  BY <1>2, GridWithData
<1>4. DOMAIN g = Addr /\ g[b] = o /\ \A c \in Addr : c # b => g[c] = h[c]
  BY <1>2, PutValue DEF Store
<1>5. g = [h EXCEPT ![b] = o]
  BY DEF Store, Put
<1> HIDE DEF g, o
<1>6. \A c \in Addr : /\ (g[c] \in Row <=> h[c] \in Row) /\ (g[c] \in Grid <=> h[c] \in Grid)
                      /\ c # b => g[c].data = h[c].data
                      /\ (g[c] = None <=> h[c] = None)
                      /\ g[c].shared = h[c].shared
  BY <1>2, <1>3, <1>4, RowFields, GridFields
<1>7. \A i \in DOMAIN d : IsRow(h, d[i])
  BY <1>1, <1>2 DEF HeapOK
<1>8. HeapOK(g)
  <2>1. g \in [Addr -> Row \cup Grid \cup {None}]
    BY <1>1, <1>2, <1>3, <1>5 DEF HeapOK
  <2>2. ASSUME NEW c \in Addr, g[c] \in Grid
        PROVE  Len(g[c].data) <= MaxGrid /\ \A i \in DOMAIN g[c].data : IsRow(g, g[c].data[i])
    <3>1. CASE c = b
      BY <1>3, <1>4, <1>6, <1>7, <3>1 DEF IsRow
    <3>2. CASE c # b
      BY <1>1, <1>4, <1>6, <2>2, <3>2 DEF HeapOK, IsRow
    <3> QED BY <3>1, <3>2
  <2> QED BY <2>1, <2>2 DEF HeapOK
<1>9. EnvOK(g, env)
  BY <1>1, <1>6, EnvExtends
<1>10. CallOK(g, env, cl)
  <2>1. CASE cl = None
    BY <1>1, <2>1, NoneAssumption DEF CallOK
  <2>2. CASE cl # None /\ cl.path = <<>>
    BY <1>1, <2>2 DEF CallOK
  <2>3. CASE cl # None /\ cl.path # <<>>
    <3>1. /\ env[cl.root] = cl.list /\ cl.root \in GridVars /\ env[cl.root] # Unbound
          /\ cl.path[1] \in DOMAIN h[cl.list].data /\ ~h[cl.list].shared
      BY <1>1, <2>3 DEF CallOK, Call
    <3>2. cl.list \in Addr /\ h[cl.list] \in Grid
      BY <1>1, <3>1 DEF EnvOK, Is, IsRow, IsGrid, Vars
    <3>3. cl.path[1] \in DOMAIN g[cl.list].data /\ ~g[cl.list].shared
      BY <1>3, <1>4, <1>6, <3>1, <3>2
    <3> QED BY <1>1, <2>3, <3>1, <3>3 DEF CallOK
  <2> QED BY <2>1, <2>2, <2>3
<1>11. \A c, e, i : SlotName(g, cl, c, e, i) =>
         SlotName(h, cl, c, e, i) \/ (c = a /\ e = b /\ i = k)
  BY <1>2, <1>3, <1>4, <1>6 DEF SlotName
<1>12. Single(g, env, cl)
  BY <1>1, <1>6, <1>11 DEF Single, OneName, Detached, NoName
<1> QED BY <1>2, <1>3, <1>4, <1>8, <1>9, <1>10, <1>12 DEF Good, g, IsGrid

(* A deep copy has no name yet, and its rows have one slot each. *)
LEMMA CopyGridGood ==
  ASSUME NEW h, NEW env, NEW cl, Good(h, env, cl), NEW a, IsGrid(h, a),
         Room(h, 1 + MaxGrid), NEW at, at = Fresh(h),
         NEW rows, rows = FreshRows(h, at, h[a].data),
         NEW g, g = CopiedGrid(h, a, at, rows)
  PROVE  /\ Good(g, env, cl) /\ Extends(h, g)
         /\ at \in Addr /\ h[at] = None /\ NoName(g, env, cl, at)
         /\ IsGrid(g, at) /\ g[at].data = rows /\ ~g[at].shared
         /\ \A b \in Addr : h[b] # None => g[b] = h[b]
         /\ DOMAIN rows = DOMAIN h[a].data /\ rows \in Seq(Addr)
         /\ \A i \in DOMAIN rows :
              /\ h[rows[i]] = None /\ IsRow(g, rows[i]) /\ ~g[rows[i]].shared
              /\ g[rows[i]].data = h[h[a].data[i]].data
<1> DEFINE data == h[a].data
<1>1. HeapOK(h) /\ EnvOK(h, env) /\ CallOK(h, env, cl) /\ Single(h, env, cl)
  BY DEF Good
<1>2. a \in Addr /\ h[a] \in Grid /\ data \in Seq(Addr) /\ Len(data) <= MaxGrid
  BY <1>1, GridFields DEF IsGrid, HeapOK
<1>3. /\ rows \in [DOMAIN data -> FreeAddrs(h) \ {at}]
      /\ \A i, j \in DOMAIN data : rows[i] = rows[j] => i = j
  BY <1>2, FreshRowsFree
<1>4. at \in Addr /\ h[at] = None
  BY CowBoundsAssumption, FreshIsFree
<1>5. /\ DOMAIN rows = DOMAIN data
      /\ \A i \in DOMAIN data : rows[i] \in Addr /\ h[rows[i]] = None /\ rows[i] # at
  BY <1>3 DEF FreeAddrs
<1>6. rows \in Seq(Addr) /\ Len(rows) = Len(data)
  <2>1. Len(data) \in Nat /\ DOMAIN data = 1..Len(data)
    BY <1>2
  <2> HIDE DEF data
  <2>2. rows = [i \in 1..Len(data) |-> rows[i]] /\ \A i \in 1..Len(data) : rows[i] \in Addr
    BY <1>3, <1>5, <2>1
  <2> QED BY <2>1, <2>2, IsASeq
<1>7. \A i \in DOMAIN data : IsRow(h, data[i]) /\ h[data[i]].data \in Seq(Cell)
  BY <1>1, <1>2, RowFields DEF HeapOK, IsRow
<1> HIDE DEF data
<1> DEFINE Which(b) == CHOOSE j \in DOMAIN rows : rows[j] = b
<1>8. DOMAIN g = Addr /\ g[at] = NewGrid(rows)
  BY <1>4 DEF CopiedGrid
<1>9. \A b \in Addr : h[b] # None => g[b] = h[b]
  BY <1>4, <1>5 DEF CopiedGrid
<1>10. \A i \in DOMAIN data : g[rows[i]] = NewRow(h[data[i]].data)
  <2> SUFFICES ASSUME NEW i \in DOMAIN data PROVE g[rows[i]] = NewRow(h[data[i]].data)
    OBVIOUS
  <2>1. i \in DOMAIN rows /\ rows[i] \in Addr /\ rows[i] # at
    BY <1>5
  <2>2. Which(rows[i]) \in DOMAIN rows /\ rows[Which(rows[i])] = rows[i]
    BY <2>1
  <2>3. Which(rows[i]) = i
    BY <1>3, <1>5, <2>1, <2>2
  <2>4. g[rows[i]] = NewRow(h[data[Which(rows[i])]].data)
    BY <2>1 DEF CopiedGrid, data
  <2> QED BY <2>3, <2>4
<1>11. \A b \in Addr : h[b] = None /\ b # at /\ (\A i \in DOMAIN data : rows[i] # b) => g[b] = None
  BY <1>5 DEF CopiedGrid
<1> HIDE DEF Which
<1>12. g[at] \in Grid /\ g[at].data = rows /\ g[at].shared = FALSE
  BY <1>6, <1>8, NewGridOK
<1>13. \A i \in DOMAIN data : /\ g[rows[i]] \in Row /\ g[rows[i]].shared = FALSE
                              /\ g[rows[i]].data = h[data[i]].data
  BY <1>7, <1>10, NewRowOK
<1>14. \A b \in Addr : /\ (h[b] \in Row => g[b] \in Row) /\ (h[b] \in Grid => g[b] \in Grid)
                       /\ (g[b] \in Grid => b = at \/ h[b] \in Grid)
                       /\ (g[b] # None => \/ h[b] # None \/ b = at
                                          \/ \E i \in DOMAIN data : rows[i] = b)
  <2> SUFFICES ASSUME NEW b \in Addr
               PROVE  /\ (h[b] \in Row => g[b] \in Row) /\ (h[b] \in Grid => g[b] \in Grid)
                      /\ (g[b] \in Grid => b = at \/ h[b] \in Grid)
                      /\ (g[b] # None => \/ h[b] # None \/ b = at
                                         \/ \E i \in DOMAIN data : rows[i] = b)
    OBVIOUS
  <2>1. CASE h[b] # None
    BY <1>9, <2>1, RowFields, GridFields
  <2>2. CASE h[b] = None
    <3>1. h[b] \notin Row /\ h[b] \notin Grid
      BY <2>2, RowFields, GridFields
    <3>2. CASE b # at /\ \A i \in DOMAIN data : rows[i] # b
      BY <1>11, <2>2, <3>1, <3>2, GridFields
    <3>3. CASE \E i \in DOMAIN data : rows[i] = b
      BY <1>13, <3>1, <3>3, RowFields
    <3> QED BY <3>1, <3>2, <3>3
  <2> QED BY <2>1, <2>2
<1>15. Extends(h, g)
  BY <1>9, <1>14 DEF Extends
<1>16. HeapOK(g)
  <2>1. ASSUME NEW b \in Addr PROVE g[b] \in Row \cup Grid \cup {None}
    <3>1. CASE h[b] # None
      BY <1>1, <1>9, <3>1 DEF HeapOK
    <3>2. CASE h[b] = None /\ b # at
      BY <1>11, <1>13, <3>2
    <3> QED BY <1>12, <3>1, <3>2
  <2>2. g \in [Addr -> Row \cup Grid \cup {None}]
    <3>1. g = [b \in Addr |-> g[b]]
      BY <1>8 DEF CopiedGrid
    <3> QED BY <2>1, <3>1
  <2>3. ASSUME NEW b \in Addr, g[b] \in Grid
        PROVE  Len(g[b].data) <= MaxGrid /\ \A i \in DOMAIN g[b].data : IsRow(g, g[b].data[i])
    <3>1. CASE b = at
      <4>1. Len(rows) <= MaxGrid /\ DOMAIN rows = DOMAIN data
        BY <1>2, <1>5, <1>6 DEF data
      <4>2. \A i \in DOMAIN rows : rows[i] \in Addr /\ g[rows[i]] \in Row
        BY <1>5, <1>13, <4>1
      <4> QED BY <1>12, <3>1, <4>1, <4>2 DEF IsRow
    <3>2. CASE b # at
      <4>1. h[b] \in Grid
        BY <1>14, <2>3, <3>2
      <4>2. g[b] = h[b]
        BY <1>9, <4>1, GridFields
      <4> QED BY <1>1, <1>14, <4>1, <4>2 DEF HeapOK, IsRow
    <3> QED BY <3>1, <3>2
  <2> QED BY <2>2, <2>3 DEF HeapOK
<1>17. EnvOK(g, env)
  BY <1>1, <1>14, EnvExtends
<1>18. CallOK(g, env, cl)
  <2>1. CASE cl = None
    BY <1>1, <2>1, NoneAssumption DEF CallOK
  <2>2. CASE cl # None /\ cl.path = <<>>
    BY <1>1, <2>2 DEF CallOK
  <2>3. CASE cl # None /\ cl.path # <<>>
    <3>1. env[cl.root] = cl.list /\ cl.root \in Vars /\ env[cl.root] # Unbound
      BY <1>1, <2>3 DEF CallOK, Call
    <3>2. cl.list \in Addr /\ h[cl.list] # None
      BY <1>1, <3>1, HeapCases DEF EnvOK, Is, IsRow, IsGrid
    <3> QED BY <1>1, <1>9, <2>3, <3>1, <3>2 DEF CallOK
  <2> QED BY <2>1, <2>2, <2>3
<1>19. \A c, b, i : SlotName(g, cl, c, b, i) =>
         SlotName(h, cl, c, b, i) \/ (b = at /\ i \in DOMAIN data /\ c = rows[i])
  <2> SUFFICES ASSUME NEW c, NEW b, NEW i, SlotName(g, cl, c, b, i)
               PROVE  SlotName(h, cl, c, b, i) \/ (b = at /\ i \in DOMAIN data /\ c = rows[i])
    OBVIOUS
  <2>1. b \in Addr /\ g[b] \in Grid
    BY DEF SlotName
  <2>2. CASE b = at
    BY <1>5, <1>12, <2>2 DEF SlotName
  <2>3. CASE b # at
    <3>1. h[b] \in Grid
      BY <1>14, <2>1, <2>3
    <3>2. g[b] = h[b]
      BY <1>9, <2>1, <3>1, GridFields
    <3> QED BY <2>1, <3>1, <3>2 DEF SlotName
  <2> QED BY <2>2, <2>3
<1>20. NoName(g, env, cl, at)
  <2>1. NoName(h, env, cl, at)
    BY <1>1, <1>4, FreeNameless
  <2> QED BY <1>5, <1>19, <2>1 DEF NoName
<1>21. Single(g, env, cl)
  <2> SUFFICES ASSUME NEW c \in Addr, g[c] # None, ~g[c].shared PROVE OneName(g, env, cl, c)
    BY DEF Single
  <2>1. CASE h[c] # None
    <3>1. OneName(h, env, cl, c)
      BY <1>1, <1>9, <2>1 DEF Single
    <3>2. \A b, i : SlotName(g, cl, c, b, i) => SlotName(h, cl, c, b, i)
      BY <1>5, <1>19, <2>1
    <3> QED BY <3>1, <3>2 DEF OneName
  <2>2. CASE h[c] = None
    <3>1. NoName(h, env, cl, c)
      BY <1>1, <2>2, FreeNameless
    <3>2. \A b, i : SlotName(g, cl, c, b, i) => b = at /\ i \in DOMAIN data /\ c = rows[i]
      BY <1>19, <3>1 DEF NoName
    <3> QED BY <1>3, <3>1, <3>2 DEF OneName, NoName
  <2> QED BY <2>1, <2>2
<1>22. \A i \in DOMAIN rows : /\ h[rows[i]] = None /\ IsRow(g, rows[i]) /\ ~g[rows[i]].shared
                              /\ g[rows[i]].data = h[h[a].data[i]].data
  BY <1>5, <1>13 DEF IsRow, data
<1> QED BY <1>4, <1>5, <1>6, <1>9, <1>12, <1>15, <1>16, <1>17, <1>18, <1>20, <1>21, <1>22
        DEF Good, IsGrid, data

-----------------------------------------------------------------------------
(* The write barrier. *)

(* The meaning of what an address holds in heap h. *)
ValueIn(h, a) ==
  IF h[a].grid THEN [i \in DOMAIN h[a].data |-> h[h[a].data[i]].data] ELSE h[a].data

(* A place the barrier can be asked for: a variable that is not out on loan *)
(* or a slot of a grid variable.                                            *)
Reachable(h, env, cl, x, path) ==
  /\ x \in Vars /\ env[x] # Unbound /\ (cl # None => cl.root # x) /\ (x = Param => cl # None)
  /\ path # <<>> => /\ x \in GridVars /\ Len(path) = 1
                    /\ path[1] \in DOMAIN h[env[x]].data

(* What the barrier answers: the list at the place, private together with   *)
(* its root, in a heap where everything else and every value is as it was. *)
Walked(h, env, cl, x, path, w) ==
  /\ Good(w.heap, [env EXCEPT ![x] = w.root], cl)
  /\ Is(w.heap, x, w.root) /\ ~w.heap[w.root].shared
  /\ w.list \in Addr /\ ~w.heap[w.list].shared
  /\ path = <<>> => w.list = w.root
  /\ path # <<>> => /\ path[1] \in DOMAIN w.heap[w.root].data
                    /\ w.list = w.heap[w.root].data[path[1]]
  /\ h[w.list] # None => w.heap = h /\ w.root = env[x]
  /\ w.root = env[x] \/ h[w.root] = None
  /\ \A a \in Addr : h[a] # None =>
       \/ w.heap[a] = h[a]
       \/ /\ a = env[x] /\ a = w.root /\ ~h[a].shared /\ path # <<>>
          /\ h[a] \in Grid /\ w.heap[a] \in Grid
  /\ ValueIn(w.heap, w.root) = ValueIn(h, env[x])

(* Nothing on the way is shared: the place is written as it is. *)
LEMMA WalkPrivate ==
  ASSUME NEW h, NEW env, NEW cl, Good(h, env, cl), NEW x, NEW path,
         Reachable(h, env, cl, x, path), ~h[env[x]].shared,
         path # <<>> => ~h[h[env[x]].data[path[1]]].shared
  PROVE  Walked(h, env, cl, x, path, WalkTo(h, env[x], path))
<1> DEFINE a == env[x]
           w == WalkTo(h, a, path)
<1>1. HeapOK(h) /\ EnvOK(h, env)
  BY DEF Good
<1>2. x \in Vars /\ a \in Addr /\ Is(h, x, a) /\ h[a] # None /\ a # Unbound
  BY <1>1, HeapCases, UnboundAssumption DEF Reachable, EnvOK, Is, IsRow, IsGrid
<1>3. [env EXCEPT ![x] = a] = env
  BY <1>1, <1>2 DEF EnvOK
<1>4. w.heap = h /\ w.root = a /\ w.list = IF path = <<>> THEN a ELSE h[a].data[path[1]]
  <2>1. Unshare(h, a) = [at |-> a, heap |-> h]
    BY DEF Unshare
  <2>2. CASE path = <<>>
    BY <2>1, <2>2 DEF WalkTo
  <2>3. CASE path # <<>>
    <3>1. Unshare(h, h[a].data[path[1]]) = [at |-> h[a].data[path[1]], heap |-> h]
      BY <2>3 DEF Unshare
    <3>2. SetItem(h, a, path[1], h[a].data[path[1]]) = h
      <4>1. [h[a].data EXCEPT ![path[1]] = h[a].data[path[1]]] = h[a].data
        <5>1. h[a] \in Grid
          BY <1>2, <2>3 DEF Reachable, Is, IsGrid
        <5>2. h[a].data \in Seq(Addr)
          BY <5>1, GridFields
        <5> QED BY <5>2
      <4>2. [h[a] EXCEPT !.data = h[a].data] = h[a]
        BY <1>1, <1>2, SameData DEF HeapOK
      <4>3. [h EXCEPT ![a] = h[a]] = h
        BY <1>1 DEF HeapOK
      <4> QED BY <4>1, <4>2, <4>3 DEF SetItem, Store, Put
    <3> QED BY <2>1, <2>3, <3>1, <3>2 DEF WalkTo
  <2> QED BY <2>2, <2>3
<1> HIDE DEF w
<1>5. w.list \in Addr /\ ~h[w.list].shared
  <2>1. CASE path = <<>>
    BY <1>2, <1>4, <2>1
  <2>2. CASE path # <<>>
    <3>1. h[a] \in Grid /\ path[1] \in DOMAIN h[a].data
      BY <1>2, <2>2 DEF Reachable, Is, IsGrid
    <3>2. h[a].data[path[1]] \in Addr
      BY <1>1, <1>2, <3>1 DEF HeapOK, IsRow
    <3> QED BY <1>4, <2>2, <3>2
  <2> QED BY <2>1, <2>2
<1>6. path # <<>> => path[1] \in DOMAIN h[a].data
  BY DEF Reachable
<1>7. Walked(h, env, cl, x, path, w)
  BY <1>2, <1>3, <1>4, <1>5, <1>6 DEF Walked
<1> QED BY <1>7 DEF w

(* The row a slot holds is shared: the slot gets a copy of it. *)
LEMMA WalkCopiesRow ==
  ASSUME NEW h, NEW env, NEW cl, Good(h, env, cl), NEW x, NEW path,
         Reachable(h, env, cl, x, path), ~h[env[x]].shared, Room(h, 1 + MaxGrid),
         path # <<>>, h[h[env[x]].data[path[1]]].shared
  PROVE  Walked(h, env, cl, x, path, WalkTo(h, env[x], path))
<1> DEFINE a == env[x]
           i == path[1]
           row == h[a].data[i]
           f == Fresh(h)
           o == NewRow(h[row].data)
           g == Put(h, f, o)
           d == [h[a].data EXCEPT ![i] = f]
           k == Store(g, a, d)
           w == WalkTo(h, a, path)
<1>1. HeapOK(h) /\ EnvOK(h, env)
  BY DEF Good
<1>2. x \in Vars /\ x \in GridVars /\ a \in Addr /\ h[a] \in Grid /\ h[a] # None /\ a # Unbound
  BY <1>1, GridFields, UnboundAssumption DEF Reachable, EnvOK, Is, IsGrid
<1>3. i \in DOMAIN h[a].data /\ h[a].data \in Seq(Addr) /\ Len(h[a].data) <= MaxGrid
  BY <1>1, <1>2, GridFields DEF Reachable, HeapOK
<1>4. row \in Addr /\ h[row] \in Row /\ h[row].grid = FALSE /\ h[row].data \in Seq(Cell)
  BY <1>1, <1>2, <1>3, RowFields DEF HeapOK, IsRow
<1>5. f \in Addr /\ h[f] = None
  BY CowBoundsAssumption, FreshIsFree
<1>6. o \in Row /\ o.data = h[row].data /\ o.shared = FALSE
  BY <1>4, NewRowOK
<1>7. /\ w.heap = k /\ w.root = a /\ w.list = f
  <2>1. Unshare(h, a) = [at |-> a, heap |-> h]
    BY DEF Unshare
  <2>2. Unshare(h, row) = [at |-> f, heap |-> g]
    BY <1>4 DEF Unshare, CloneObj
  <2>3. SetItem(g, a, i, f) = k
    <3>1. g[a] = h[a]
      BY <1>1, <1>2, <1>5 DEF Put, HeapOK
    <3> QED BY <3>1 DEF SetItem
  <2>4. path # <<>>
    BY DEF Reachable
  <2> HIDE DEF g, k, f, row
  <2> QED BY <2>1, <2>2, <2>3, <2>4 DEF WalkTo, row
<1> HIDE DEF w, o, f, row
<1>8. /\ Good(g, env, cl) /\ Extends(h, g) /\ NoName(g, env, cl, f) /\ g[f] = o
      /\ \A b \in Addr : b # f => g[b] = h[b]
  BY <1>5, <1>6, AllocGood
<1>9. IsGrid(g, a) /\ IsRow(g, f) /\ g[a] = h[a]
  BY <1>2, <1>5, <1>6, <1>8 DEF IsGrid, IsRow
<1>10. /\ d \in Seq(Addr) /\ Len(d) = Len(h[a].data) /\ DOMAIN d = DOMAIN h[a].data
       /\ d[i] = f /\ \A j \in DOMAIN d : j # i => d[j] = h[a].data[j]
  BY <1>3, <1>5
<1> HIDE DEF d, g
<1>11. /\ Good(k, env, cl) /\ IsGrid(k, a) /\ k[a].data = d /\ k[a].shared = g[a].shared
       /\ \A c \in Addr : c # a => k[c] = g[c]
  <2>1. Detached(g, env, cl, f)
    BY <1>8 DEF Detached
  <2> HIDE DEF i, a
  <2> QED BY <1>3, <1>8, <1>9, <1>10, <2>1, StoreGridGood
<1> HIDE DEF k
<1>12. [env EXCEPT ![x] = a] = env
  BY <1>1, <1>2 DEF EnvOK
<1>13. k[f] = o /\ f # a
  BY <1>2, <1>5, <1>8, <1>11
<1>14. ValueIn(k, a) = ValueIn(h, a)
  <2>1. k[a].grid = TRUE /\ h[a].grid = TRUE
    BY <1>2, <1>11, GridFields DEF IsGrid
  <2>2. \A j \in DOMAIN d : k[d[j]].data = h[h[a].data[j]].data
    <3> SUFFICES ASSUME NEW j \in DOMAIN d PROVE k[d[j]].data = h[h[a].data[j]].data
      OBVIOUS
    <3>1. CASE j = i
      BY <1>6, <1>10, <1>13, <3>1 DEF row
    <3>2. CASE j # i
      <4>1. h[a].data[j] \in Addr /\ h[h[a].data[j]] \in Row
        BY <1>1, <1>2, <1>10 DEF HeapOK, IsRow
      <4>2. h[a].data[j] # a /\ h[a].data[j] # f
        BY <1>2, <1>5, <4>1, RowFields, GridFields
      <4> QED BY <1>8, <1>10, <1>11, <3>2, <4>1, <4>2
    <3> QED BY <3>1, <3>2
  <2> QED BY <1>10, <1>11, <2>1, <2>2 DEF ValueIn
<1>15. \A c \in Addr : h[c] # None =>
         k[c] = h[c] \/ (c = a /\ ~h[c].shared /\ path # <<>> /\ h[c] \in Grid /\ k[c] \in Grid)
  BY <1>2, <1>5, <1>8, <1>11 DEF IsGrid
<1>16. Walked(h, env, cl, x, path, w)
  <2>1. Is(k, x, a)
    BY <1>2, <1>11 DEF Is
  <2>2. ~k[a].shared /\ ~k[f].shared
    BY <1>6, <1>9, <1>11, <1>13
  <2>3. path[1] \in DOMAIN k[a].data /\ f = k[a].data[path[1]]
    BY <1>3, <1>10, <1>11
  <2> HIDE DEF a
  <2> QED BY <1>5, <1>7, <1>11, <1>12, <1>14, <1>15, <2>1, <2>2, <2>3 DEF Walked, a
<1> QED BY <1>16 DEF w

(* The value itself is shared: the variable gets a copy of it, nothing below *)
(* which is shared.                                                         *)
LEMMA WalkCopiesVar ==
  ASSUME NEW h, NEW env, NEW cl, Good(h, env, cl), NEW x, NEW path,
         Reachable(h, env, cl, x, path), h[env[x]].shared, Room(h, 1 + MaxGrid)
  PROVE  Walked(h, env, cl, x, path, WalkTo(h, env[x], path))
<1> DEFINE a == env[x]
           f == Fresh(h)
           w == WalkTo(h, a, path)
<1>1. HeapOK(h) /\ EnvOK(h, env)
  BY DEF Good
<1>2. x \in Vars /\ a \in Addr /\ Is(h, x, a) /\ h[a] # None
  BY <1>1, HeapCases DEF Reachable, EnvOK, Is, IsRow, IsGrid
<1>3. f \in Addr /\ h[f] = None
  BY CowBoundsAssumption, FreshIsFree
<1>4. CASE x \notin GridVars
  <2> DEFINE o == NewRow(h[a].data)
             g == Put(h, f, o)
  <2>1. h[a] \in Row /\ h[a].grid = FALSE /\ h[a].data \in Seq(Cell) /\ path = <<>>
    BY <1>2, <1>4, RowFields DEF Is, IsRow, Reachable
  <2>2. o \in Row /\ o.data = h[a].data /\ o.shared = FALSE
    BY <2>1, NewRowOK
  <2>3. w.heap = g /\ w.root = f /\ w.list = f
    BY <2>1 DEF WalkTo, Unshare, CloneObj
  <2> HIDE DEF w, o, f
  <2>4. /\ Good(g, env, cl) /\ Extends(h, g) /\ NoName(g, env, cl, f) /\ g[f] = o
        /\ \A b \in Addr : b # f => g[b] = h[b]
    BY <1>3, <2>2, AllocGood
  <2> HIDE DEF g
  <2>5. Is(g, x, f)
    BY <1>3, <1>4, <2>2, <2>4 DEF Is, IsRow
  <2>6. Good(g, [env EXCEPT ![x] = f], cl)
    BY <1>2, <2>4, <2>5, BindGood DEF Detached, Reachable
  <2>7. ValueIn(g, f) = ValueIn(h, a)
    BY <2>1, <2>2, <2>4, RowFields DEF ValueIn
  <2>8. \A b \in Addr : h[b] # None => g[b] = h[b]
    BY <1>3, <2>4
  <2>9. Walked(h, env, cl, x, path, w)
    <3> HIDE DEF a
    <3> QED BY <1>3, <2>1, <2>2, <2>3, <2>4, <2>5, <2>6, <2>7, <2>8 DEF Walked, a
  <2> QED BY <2>9 DEF w
<1>5. CASE x \in GridVars
  <2> DEFINE rows == FreshRows(h, f, h[a].data)
             g == CopiedGrid(h, a, f, rows)
  <2>1. h[a] \in Grid /\ h[a].grid = TRUE /\ IsGrid(h, a) /\ h[a].data \in Seq(Addr)
    BY <1>2, <1>5, GridFields DEF Is, IsGrid
  <2>2. /\ Good(g, env, cl) /\ Extends(h, g) /\ NoName(g, env, cl, f)
        /\ IsGrid(g, f) /\ g[f].data = rows /\ ~g[f].shared
        /\ \A b \in Addr : h[b] # None => g[b] = h[b]
        /\ DOMAIN rows = DOMAIN h[a].data /\ rows \in Seq(Addr)
        /\ \A i \in DOMAIN rows :
             /\ h[rows[i]] = None /\ IsRow(g, rows[i]) /\ ~g[rows[i]].shared
             /\ g[rows[i]].data = h[h[a].data[i]].data
    <3> HIDE DEF a
    <3> QED BY <2>1, CopyGridGood
  <2>3. Unshare(h, a) = [at |-> f, heap |-> g]
    BY <2>1 DEF Unshare, CloneObj
  <2> HIDE DEF g, rows, f
  <2>4. w.heap = g /\ w.root = f /\ w.list = IF path = <<>> THEN f ELSE rows[path[1]]
    <3>1. CASE path = <<>>
      BY <2>3, <3>1 DEF WalkTo
    <3>2. CASE path # <<>>
      <4>1. path[1] \in DOMAIN rows
        BY <2>2, <3>2 DEF Reachable
      <4>2. Unshare(g, g[f].data[path[1]]) = [at |-> rows[path[1]], heap |-> g]
        BY <2>2, <4>1 DEF Unshare
      <4>3. SetItem(g, f, path[1], rows[path[1]]) = g
        <5>1. [rows EXCEPT ![path[1]] = rows[path[1]]] = rows
          BY <2>2
        <5>2. g[f] \in Grid /\ [g[f] EXCEPT !.data = g[f].data] = g[f]
          BY <2>2, SameData DEF IsGrid
        <5>3. [g EXCEPT ![f] = g[f]] = g
          BY <2>2 DEF Good, HeapOK
        <5> QED BY <2>2, <5>1, <5>2, <5>3 DEF SetItem, Store, Put
      <4> QED BY <2>3, <3>2, <4>2, <4>3 DEF WalkTo
    <3> QED BY <3>1, <3>2
  <2> HIDE DEF w
  <2>5. Is(g, x, f)
    BY <1>5, <2>2 DEF Is
  <2>6. Good(g, [env EXCEPT ![x] = f], cl)
    BY <1>2, <2>2, <2>5, BindGood DEF Detached, Reachable
  <2>7. ValueIn(g, f) = ValueIn(h, a)
    <3>1. g[f].grid = TRUE
      BY <2>2, GridFields DEF IsGrid
    <3> QED BY <2>1, <2>2, <3>1 DEF ValueIn
  <2>8. path # <<>> => path[1] \in DOMAIN rows
    BY <2>2 DEF Reachable
  <2>9. w.list \in Addr /\ h[w.list] = None /\ ~g[w.list].shared
    BY <1>3, <2>2, <2>4, <2>8 DEF IsRow
  <2>10. Walked(h, env, cl, x, path, w)
    <3> HIDE DEF a
    <3> QED BY <1>3, <2>2, <2>4, <2>5, <2>6, <2>7, <2>8, <2>9 DEF Walked, a
  <2> QED BY <2>10 DEF w
<1> QED BY <1>4, <1>5

(* The barrier as compiled code uses it, whatever is shared on the way. *)
LEMMA WalkGood ==
  ASSUME NEW h, NEW env, NEW cl, Good(h, env, cl), NEW x, NEW path,
         Reachable(h, env, cl, x, path), Room(h, 1 + MaxGrid)
  PROVE  Walked(h, env, cl, x, path, WalkTo(h, env[x], path))
BY WalkPrivate, WalkCopiesRow, WalkCopiesVar

-----------------------------------------------------------------------------
(* Evaluating an expression. *)

(* A grid with a row out on loan has one name, its root. *)
LEMMA NotLent ==
  ASSUME NEW h, NEW env, NEW cl, Good(h, env, cl), cl # None, cl.path # <<>>,
         NEW x \in Vars, x # cl.root, env[x] # Unbound
  PROVE  env[x] # cl.list
<1>1. HeapOK(h) /\ EnvOK(h, env) /\ CallOK(h, env, cl) /\ Single(h, env, cl)
  BY DEF Good
<1>2. /\ env[cl.root] = cl.list /\ cl.root \in Vars /\ env[cl.root] # Unbound
      /\ ~h[cl.list].shared
  BY <1>1 DEF CallOK, Call
<1>3. cl.list \in Addr /\ h[cl.list] # None
  BY <1>1, <1>2, HeapCases DEF EnvOK, Is, IsRow, IsGrid
<1>4. VarName(env, cl, cl.list, cl.root)
  BY <1>2 DEF VarName, LentVar
<1>5. env[x] = cl.list => VarName(env, cl, cl.list, x)
  BY DEF VarName, LentVar
<1> QED BY <1>1, <1>2, <1>3, <1>4, <1>5 DEF Single, OneName

(* Where the value of an expression came from. *)
IsNew(h, env, e) == h[e.at] = None /\ e.loc = env /\ ValueIn(e.heap, e.at) = <<>>
IsVar(env, e, x) ==
  /\ ~Busy(x) /\ env[x] # Unbound /\ e.at = env[x]
  /\ e.loc = env \/ (e.loc = [env EXCEPT ![x] = Unbound] /\ ~Pinned(x))
IsElem(h, env, e, g, i) ==
  /\ env[g] # Unbound /\ i \in DOMAIN h[env[g]].data
  /\ e.at = h[env[g]].data[i] /\ e.loc = env

(* What evaluation leaves: a value free to be bound or stored, and a heap in *)
(* which it alone may have been marked.                                     *)
Evaluated(h, env, e) ==
  /\ Good(e.heap, e.loc, call) /\ Extends(h, e.heap) /\ e.at \in Addr
  /\ Detached(e.heap, e.loc, call, e.at)
  /\ \A a \in Addr : h[a] # None /\ a # e.at => e.heap[a] = h[a]

LEMMA LiteralGood ==
  ASSUME NEW h, NEW env, Good(h, env, call), NEW o \in {NewRow(<<>>), NewGrid(<<>>)},
         NEW e \in Literal(h, env, o)
  PROVE  /\ Evaluated(h, env, e) /\ IsNew(h, env, e)
         /\ o = NewRow(<<>>) => IsRow(e.heap, e.at)
         /\ o = NewGrid(<<>>) => IsGrid(e.heap, e.at)
<1> DEFINE f == Fresh(h)
           g == Put(h, f, o)
<1>1. Room(h, 1) /\ e = [heap |-> g, loc |-> env, at |-> f]
  BY DEF Literal
<1>2. f \in Addr /\ h[f] = None
  BY <1>1, FreshIsFree
<1>3. <<>> \in Seq(Cell) /\ <<>> \in Seq(Addr)
  OBVIOUS
<1>4. /\ o = NewRow(<<>>) => o \in Row
      /\ o = NewGrid(<<>>) => o \in Grid
      /\ o.data = <<>>
  BY <1>3, NewRowOK, NewGridOK
<1> HIDE DEF f
<1>5. o \in Row \/ (o \in Grid /\ o.data = <<>>)
  BY <1>4
<1>6. /\ Good(g, env, call) /\ Extends(h, g) /\ NoName(g, env, call, f) /\ g[f] = o
      /\ \A b \in Addr : b # f => g[b] = h[b]
  BY <1>2, <1>5, AllocGood
<1> HIDE DEF g
<1>7. ValueIn(g, f) = <<>>
  <2>1. DOMAIN g[f].data = {}
    BY <1>4, <1>6
  <2>2. [i \in DOMAIN g[f].data |-> g[g[f].data[i]].data] = <<>>
    BY <2>1
  <2> QED BY <1>4, <1>6, <2>2 DEF ValueIn
<1> QED BY <1>1, <1>2, <1>4, <1>6, <1>7 DEF Evaluated, IsNew, IsRow, IsGrid, Detached

LEMMA ReadVarGood ==
  ASSUME NEW h, NEW env, Good(h, env, call), NEW x \in Vars, ~Busy(x), env[x] # Unbound,
         NEW e \in ReadVar(h, env, x)
  PROVE  Evaluated(h, env, e) /\ IsVar(env, e, x) /\ Is(e.heap, x, e.at)
<1> DEFINE a == env[x]
           g == Mark(h, a)
<1>1. HeapOK(h) /\ EnvOK(h, env)
  BY DEF Good
<1>2. a \in Addr /\ Is(h, x, a) /\ h[a] # None
  BY <1>1, HeapCases DEF EnvOK, Is, IsRow, IsGrid
<1>3. call # None => call.root # x
  BY DEF Busy
<1>4. CASE e = [heap |-> g, loc |-> env, at |-> a]
  <2>1. call # None /\ call.path # <<>> => a # call.list
    BY <1>3, NotLent
  <2>2. /\ Good(g, env, call) /\ Extends(h, g) /\ g[a].shared
        /\ \A b \in Addr : b # a => g[b] = h[b]
    BY <1>2, <2>1, MarkGood
  <2> HIDE DEF g
  <2>3. Is(g, x, a)
    BY <1>2, <2>2 DEF Is, IsRow, IsGrid, Extends
  <2>4. Evaluated(h, env, e)
    BY <1>2, <1>4, <2>2 DEF Evaluated, Detached
  <2>5. IsVar(env, e, x)
    BY <1>4 DEF IsVar
  <2> QED BY <1>4, <2>3, <2>4, <2>5
<1>5. CASE e = [heap |-> h, loc |-> [env EXCEPT ![x] = Unbound], at |-> a] /\ ~Pinned(x)
  <2>1. x # Param
    BY <1>5 DEF Pinned
  <2>2. /\ Good(h, [env EXCEPT ![x] = Unbound], call)
        /\ Detached(h, [env EXCEPT ![x] = Unbound], call, a)
    BY <1>3, <2>1, UnbindGood
  <2>3. Extends(h, h)
    BY DEF Extends
  <2>4. Evaluated(h, env, e)
    BY <1>2, <1>5, <2>2, <2>3 DEF Evaluated
  <2>5. IsVar(env, e, x)
    BY <1>5 DEF IsVar
  <2> QED BY <1>2, <1>5, <2>4, <2>5
<1> QED BY <1>4, <1>5 DEF ReadVar

LEMMA ReadElemGood ==
  ASSUME NEW h, NEW env, Good(h, env, call), NEW x \in GridVars, env[x] # Unbound,
         NEW i \in DOMAIN h[env[x]].data, NEW e, e = ReadElem(h, env, x, i)
  PROVE  Evaluated(h, env, e) /\ IsElem(h, env, e, x, i) /\ IsRow(e.heap, e.at)
<1> DEFINE a == h[env[x]].data[i]
           g == Mark(h, a)
<1>1. HeapOK(h) /\ EnvOK(h, env) /\ CallOK(h, env, call)
  BY DEF Good
<1>2. env[x] \in Addr /\ h[env[x]] \in Grid
  BY <1>1 DEF EnvOK, Is, IsGrid, Vars
<1>3. a \in Addr /\ h[a] \in Row /\ h[a] # None
  BY <1>1, <1>2, RowFields DEF HeapOK, IsRow
<1>4. e = [heap |-> g, loc |-> env, at |-> a]
  BY DEF ReadElem
<1> HIDE DEF a
<1>5. call # None /\ call.path # <<>> => a # call.list
  <2> SUFFICES ASSUME call # None, call.path # <<>> PROVE a # call.list
    OBVIOUS
  <2>1. /\ env[call.root] = call.list /\ call.root \in GridVars /\ call.root \in Vars
        /\ env[call.root] # Unbound
    BY <1>1 DEF CallOK, Call
  <2>2. h[call.list] \in Grid
    BY <1>1, <2>1 DEF EnvOK, Is, IsGrid
  <2> QED BY <1>3, <2>2, RowFields
<1>6. /\ Good(g, env, call) /\ Extends(h, g) /\ g[a].shared
      /\ \A b \in Addr : b # a => g[b] = h[b]
  BY <1>3, <1>5, MarkGood
<1> HIDE DEF g
<1>7. IsRow(g, a)
  BY <1>3, <1>6 DEF IsRow, Extends
<1>8. Evaluated(h, env, e)
  BY <1>3, <1>4, <1>6 DEF Evaluated, Detached
<1>9. IsElem(h, env, e, x, i)
  BY <1>4 DEF IsElem, a
<1> QED BY <1>4, <1>7, <1>8, <1>9

(* The variables of a step that has begun are bound where they were. *)
Ready(h, env) ==
  /\ Good(h, env, call)
  /\ \A x \in Vars : loc[x] # Unbound => env[x] # Unbound

RowFrom(h, env, e) ==
  \/ IsNew(h, env, e)
  \/ \E x \in RowVars : IsVar(env, e, x)
  \/ \E g \in Readable(GridVars) : \E i \in DOMAIN h[env[g]].data : IsElem(h, env, e, g, i)

GridFrom(h, env, e) ==
  IsNew(h, env, e) \/ \E x \in GridVars : IsVar(env, e, x)

LEMMA RowExprsGood ==
  ASSUME NEW h, NEW env, Ready(h, env), NEW e \in RowExprs(h, env)
  PROVE  Evaluated(h, env, e) /\ RowFrom(h, env, e) /\ IsRow(e.heap, e.at)
<1>1. Good(h, env, call)
  BY DEF Ready
<1>2. CASE e \in Literal(h, env, NewRow(<<>>))
  BY <1>1, <1>2, LiteralGood DEF RowFrom
<1>3. ASSUME NEW x \in Usable(RowVars), e \in ReadVar(h, env, x)
      PROVE  Evaluated(h, env, e) /\ RowFrom(h, env, e) /\ IsRow(e.heap, e.at)
  <2>1. x \in RowVars /\ x \in Vars /\ x \notin GridVars /\ ~Busy(x) /\ env[x] # Unbound
    BY VarsAssumption DEF Usable, Ready, Vars
  <2>2. Evaluated(h, env, e) /\ IsVar(env, e, x) /\ Is(e.heap, x, e.at)
    BY <1>1, <1>3, <2>1, ReadVarGood
  <2> QED BY <2>1, <2>2 DEF RowFrom, Is
<1>4. ASSUME NEW g \in Readable(GridVars), NEW i \in DOMAIN h[env[g]].data,
             e = ReadElem(h, env, g, i)
      PROVE  Evaluated(h, env, e) /\ RowFrom(h, env, e) /\ IsRow(e.heap, e.at)
  <2>1. g \in GridVars /\ env[g] # Unbound
    BY DEF Readable, Usable, Ready, Vars
  <2>2. Evaluated(h, env, e) /\ IsElem(h, env, e, g, i) /\ IsRow(e.heap, e.at)
    BY <1>1, <1>4, <2>1, ReadElemGood
  <2> QED BY <2>2 DEF RowFrom
<1>5. \/ e \in Literal(h, env, NewRow(<<>>))
      \/ \E x \in Usable(RowVars) : e \in ReadVar(h, env, x)
      \/ \E g \in Readable(GridVars) : \E i \in DOMAIN h[env[g]].data : e = ReadElem(h, env, g, i)
  <2> DEFINE V == UNION {ReadVar(h, env, x) : x \in Usable(RowVars)}
             R(g) == {ReadElem(h, env, g, i) : i \in DOMAIN h[env[g]].data}
             E == UNION {R(g) : g \in Readable(GridVars)}
  <2>1. RowExprs(h, env) = Literal(h, env, NewRow(<<>>)) \cup V \cup E
    BY DEF RowExprs
  <2>2. e \in V => \E x \in Usable(RowVars) : e \in ReadVar(h, env, x)
    OBVIOUS
  <2>3. e \in E => \E g \in Readable(GridVars) : e \in R(g)
    <3> HIDE DEF R
    <3> QED OBVIOUS
  <2>4. \A g : e \in R(g) => \E i \in DOMAIN h[env[g]].data : e = ReadElem(h, env, g, i)
    OBVIOUS
  <2> HIDE DEF V, E, R
  <2> QED BY <2>1, <2>2, <2>3, <2>4
<1> QED BY <1>2, <1>3, <1>4, <1>5

LEMMA GridExprsGood ==
  ASSUME NEW h, NEW env, Ready(h, env), NEW e \in GridExprs(h, env)
  PROVE  Evaluated(h, env, e) /\ GridFrom(h, env, e) /\ IsGrid(e.heap, e.at)
<1>1. Good(h, env, call)
  BY DEF Ready
<1>2. CASE e \in Literal(h, env, NewGrid(<<>>))
  BY <1>1, <1>2, LiteralGood DEF GridFrom
<1>3. ASSUME NEW x \in Usable(GridVars), e \in ReadVar(h, env, x)
      PROVE  Evaluated(h, env, e) /\ GridFrom(h, env, e) /\ IsGrid(e.heap, e.at)
  <2>1. x \in GridVars /\ x \in Vars /\ ~Busy(x) /\ env[x] # Unbound
    BY DEF Usable, Ready, Vars
  <2>2. Evaluated(h, env, e) /\ IsVar(env, e, x) /\ Is(e.heap, x, e.at)
    BY <1>1, <1>3, <2>1, ReadVarGood
  <2> QED BY <2>1, <2>2 DEF GridFrom, Is
<1> QED BY <1>2, <1>3 DEF GridExprs

-----------------------------------------------------------------------------
(* The end of a step: what nothing names is collected. *)

(* g is h without some of what is not in use. *)
Kept(h, g, roots) ==
  /\ \A a \in Addr : g[a] = h[a] \/ g[a] = None
  /\ \A a \in roots \cap Addr :
       /\ g[a] = h[a]
       /\ h[a] \in Grid => \A i \in DOMAIN h[a].data : g[h[a].data[i]] = h[h[a].data[i]]

LEMMA CollectGood ==
  ASSUME NEW h, NEW env, NEW cl, NEW pl, NEW lp,
         Good(h, env, cl), PlaceOK(h, pl), LoopOK(h, lp),
         NEW g, g = Collected(h, InUse(env, pl, cl, lp))
  PROVE  /\ Good(g, env, cl) /\ PlaceOK(g, pl) /\ LoopOK(g, lp)
         /\ Kept(h, g, InUse(env, pl, cl, lp))
<1> DEFINE roots == InUse(env, pl, cl, lp)
           live == roots \cup UNION {Items(h, a) : a \in roots}
<1>1. HeapOK(h) /\ EnvOK(h, env) /\ CallOK(h, env, cl) /\ Single(h, env, cl)
  BY DEF Good
<1>2. g = [a \in Addr |-> IF a \in live THEN h[a] ELSE None]
  BY DEF Collected
<1>3. /\ \A x \in Vars : env[x] # Unbound => env[x] \in roots
      /\ pl # None => pl.list \in roots
      /\ lp # None => lp.list \in roots
  BY DEF InUse
<1>4. \A a \in roots : h[a] \in Grid => \A i \in DOMAIN h[a].data : h[a].data[i] \in live
  <2> SUFFICES ASSUME NEW a \in roots, h[a] \in Grid, NEW i \in DOMAIN h[a].data
               PROVE  h[a].data[i] \in live
    OBVIOUS
  <2>1. h[a].data[i] \in Items(h, a)
    BY GridFields DEF Items, ToSet
  <2> HIDE DEF roots
  <2> QED BY <2>1
<1>5. \A b \in live : b \in roots \/ (b \in Addr => h[b] \notin Grid)
  <2> SUFFICES ASSUME NEW a \in roots, NEW b \in Items(h, a), b \in Addr, h[b] \in Grid
               PROVE  b \in roots
    OBVIOUS
  <2>1. a \in Addr
    <3>1. \A x \in Vars : env[x] # Unbound => env[x] \in Addr
      BY <1>1 DEF EnvOK
    <3>2. pl # None => pl.list \in Addr
      BY DEF PlaceOK, Place
    <3>3. lp # None => lp.list \in Addr
      BY DEF LoopOK, Loop
    <3>4. cl # None /\ cl.path # <<>> => cl.list \in Addr
      BY <1>1, <3>1 DEF CallOK, Call
    <3> QED BY <3>1, <3>2, <3>3, <3>4 DEF InUse
  <2>2. h[a].grid /\ b \in ToSet(h[a].data)
    BY DEF Items
  <2>3. CASE h[a] \in Grid
    BY <1>1, <2>1, <2>2, <2>3, RowFields DEF HeapOK, IsRow, ToSet
  <2>4. CASE h[a] \in Row
    BY <2>2, <2>4, RowFields
  <2>5. CASE h[a] = None
    <3>1. \A x \in Vars : env[x] # Unbound => h[env[x]] # None
      BY <1>1, HeapCases DEF EnvOK, Is, IsRow, IsGrid
    <3>2. pl # None => h[pl.list] # None
      BY <1>1, HeapCases DEF PlaceOK, IsRow, IsGrid
    <3>3. lp # None => h[lp.list] # None
      BY <1>1, HeapCases DEF LoopOK, IsGrid
    <3>4. cl # None /\ cl.path # <<>> => h[cl.list] # None
      BY <1>1, <3>1 DEF CallOK, Call
    <3> QED BY <2>5, <3>1, <3>2, <3>3, <3>4 DEF InUse
  <2> QED BY <1>1, <2>1, <2>3, <2>4, <2>5 DEF HeapOK
<1> HIDE DEF roots, live
<1>6. \A a \in Addr : (a \in live => g[a] = h[a]) /\ (a \notin live => g[a] = None)
  BY <1>2
<1>7. \A a \in roots : a \in live
  BY DEF live
<1>8. \A a \in Addr : g[a] # None => g[a] = h[a]
  BY <1>6
<1>9. Kept(h, g, roots)
  <2>1. \A a \in Addr : h[a] \in Grid => \A i \in DOMAIN h[a].data : h[a].data[i] \in Addr
    BY <1>1 DEF HeapOK, IsRow
  <2> QED BY <1>4, <1>6, <1>7, <2>1 DEF Kept
<1>10. \A a \in Addr : a \in roots => /\ IsRow(h, a) => IsRow(g, a)
                                      /\ IsGrid(h, a) => IsGrid(g, a)
                                      /\ g[a] = h[a]
  BY <1>6, <1>7 DEF IsRow, IsGrid
<1>11. HeapOK(g)
  <2>1. g \in [Addr -> Row \cup Grid \cup {None}]
    <3>1. \A a \in Addr : g[a] \in Row \cup Grid \cup {None}
      BY <1>1, <1>6 DEF HeapOK
    <3>2. g = [a \in Addr |-> g[a]]
      BY <1>2
    <3> QED BY <3>1, <3>2
  <2>2. ASSUME NEW a \in Addr, g[a] \in Grid
        PROVE  Len(g[a].data) <= MaxGrid /\ \A i \in DOMAIN g[a].data : IsRow(g, g[a].data[i])
    <3>1. g[a] = h[a] /\ a \in roots /\ h[a] \in Grid
      BY <1>5, <1>6, <2>2, GridFields
    <3>2. Len(h[a].data) <= MaxGrid /\ \A i \in DOMAIN h[a].data : IsRow(h, h[a].data[i])
      BY <1>1, <3>1 DEF HeapOK
    <3> QED BY <1>4, <1>6, <3>1, <3>2 DEF IsRow
  <2> QED BY <2>1, <2>2 DEF HeapOK
<1>12. EnvOK(g, env)
  <2>1. \A x \in Vars : env[x] # Unbound => env[x] \in Addr /\ env[x] \in roots
    BY <1>1, <1>3 DEF EnvOK
  <2> QED BY <1>1, <1>10, <2>1 DEF EnvOK, Is
<1>13. CallOK(g, env, cl)
  <2>1. CASE cl = None
    BY <1>1, <2>1, NoneAssumption DEF CallOK
  <2>2. CASE cl # None /\ cl.path = <<>>
    BY <1>1, <2>2 DEF CallOK
  <2>3. CASE cl # None /\ cl.path # <<>>
    <3>1. env[cl.root] = cl.list /\ cl.root \in Vars /\ env[cl.root] # Unbound
      BY <1>1, <2>3 DEF CallOK, Call
    <3>2. cl.list \in Addr /\ cl.list \in roots
      BY <1>1, <1>3, <3>1 DEF EnvOK
    <3> QED BY <1>1, <1>10, <2>3, <3>1, <3>2 DEF CallOK
  <2> QED BY <2>1, <2>2, <2>3
<1>14. \A c, b, i : SlotName(g, cl, c, b, i) => SlotName(h, cl, c, b, i)
  BY <1>6, GridFields DEF SlotName
<1>15. Single(g, env, cl)
  BY <1>1, <1>8, <1>14 DEF Single, OneName
<1>16. PlaceOK(g, pl)
  <2>1. CASE pl = None
    BY <2>1 DEF PlaceOK
  <2>2. CASE pl # None
    <3>1. pl.list \in Addr /\ pl.list \in roots
      BY <1>3, <2>2 DEF PlaceOK, Place
    <3> QED BY <1>10, <2>2, <3>1 DEF PlaceOK
  <2> QED BY <2>1, <2>2
<1>17. LoopOK(g, lp)
  <2>1. CASE lp = None
    BY <2>1 DEF LoopOK
  <2>2. CASE lp # None
    <3>1. lp.list \in Addr /\ lp.list \in roots
      BY <1>3, <2>2 DEF LoopOK, Loop
    <3> QED BY <1>10, <2>2, <3>1 DEF LoopOK
  <2> QED BY <2>1, <2>2
<1> QED BY <1>9, <1>11, <1>12, <1>13, <1>15, <1>16, <1>17 DEF Good, roots

(* What a step must have made for the invariant to hold after it. *)
Inv == Good(heap, loc, call) /\ PlaceOK(heap, place) /\ LoopOK(heap, loop)

LEMMA CommitInv ==
  ASSUME NEW h, NEW env, NEW pl, NEW cl, NEW lp, Commit(h, env, pl, cl, lp),
         Good(h, env, cl), PlaceOK(h, pl), LoopOK(h, lp)
  PROVE  Inv' /\ Kept(h, heap', InUse(env, pl, cl, lp))
<1>1. /\ heap' = Collected(h, InUse(env, pl, cl, lp))
      /\ loc' = env /\ place' = pl /\ call' = cl /\ loop' = lp
  BY DEF Commit
<1>2. /\ Good(heap', env, cl) /\ PlaceOK(heap', pl) /\ LoopOK(heap', lp)
      /\ Kept(h, heap', InUse(env, pl, cl, lp))
  BY <1>1, CollectGood
<1> QED BY <1>1, <1>2 DEF Inv

-----------------------------------------------------------------------------
(* Every step of the program, up to its Commit. *)

Made(h, env, pl, cl, lp) == Good(h, env, cl) /\ PlaceOK(h, pl) /\ LoopOK(h, lp)

(* Lists stay of their kind and lose no slots: what a place or a loop in    *)
(* progress needs.                                                          *)
Grows(h, g) ==
  \A a \in Addr : /\ h[a] \in Row => g[a] \in Row
                  /\ h[a] \in Grid => g[a] \in Grid
                  /\ h[a] # None => Len(h[a].data) <= Len(g[a].data)

LEMMA DataLength ==
  ASSUME NEW o \in Row \cup Grid
  PROVE  Len(o.data) \in Nat /\ DOMAIN o.data = 1..Len(o.data)
<1>1. o.data \in Seq(Cell) \/ o.data \in Seq(Addr)
  BY RowFields, GridFields
<1> QED BY <1>1

LEMMA ExtendsGrows ==
  ASSUME NEW h, NEW g, HeapOK(h), Extends(h, g)
  PROVE  Grows(h, g)
<1>1. \A a \in Addr : h[a] # None => Len(h[a].data) <= Len(h[a].data)
  BY DataLength DEF HeapOK
<1> QED BY <1>1 DEF Extends, Grows

LEMMA GrowsTrans ==
  ASSUME NEW h, NEW g, NEW k, HeapOK(h), HeapOK(g), HeapOK(k), Grows(h, g), Grows(g, k)
  PROVE  Grows(h, k)
<1> SUFFICES ASSUME NEW a \in Addr, h[a] # None
             PROVE  /\ h[a] \in Row => k[a] \in Row
                    /\ h[a] \in Grid => k[a] \in Grid
                    /\ Len(h[a].data) <= Len(k[a].data)
  BY RowFields, GridFields DEF Grows
<1>1. h[a] \in Row \cup Grid /\ g[a] \in Row \cup Grid /\ k[a] \in Row \cup Grid /\ g[a] # None
  BY RowFields, GridFields DEF HeapOK, Grows
<1>2. Len(h[a].data) <= Len(g[a].data) /\ Len(g[a].data) <= Len(k[a].data)
  BY <1>1 DEF Grows
<1>3. Len(h[a].data) \in Nat /\ Len(g[a].data) \in Nat /\ Len(k[a].data) \in Nat
  BY <1>1, DataLength
<1>4. Len(h[a].data) <= Len(k[a].data)
  <2> DEFINE x == Len(h[a].data)
             y == Len(g[a].data)
             z == Len(k[a].data)
  <2> HIDE DEF x, y, z
  <2>1. x \in Nat /\ y \in Nat /\ z \in Nat /\ x <= y /\ y <= z
    BY <1>2, <1>3 DEF x, y, z
  <2>2. x <= z
    BY <2>1
  <2> QED BY <2>2 DEF x, z
<1> QED BY <1>4 DEF Grows

LEMMA Carry ==
  ASSUME NEW h, NEW g, NEW pl, NEW lp, HeapOK(h), HeapOK(g), Grows(h, g),
         PlaceOK(h, pl), LoopOK(h, lp)
  PROVE  PlaceOK(g, pl) /\ LoopOK(g, lp)
<1>1. \A a \in Addr : h[a] # None =>
        /\ IsRow(h, a) => IsRow(g, a)
        /\ IsGrid(h, a) => IsGrid(g, a)
        /\ Len(h[a].data) \in Nat /\ Len(g[a].data) \in Nat
        /\ DOMAIN h[a].data = 1..Len(h[a].data)
        /\ DOMAIN g[a].data = 1..Len(g[a].data)
        /\ Len(h[a].data) <= Len(g[a].data)
  <2> SUFFICES ASSUME NEW a \in Addr, h[a] # None
               PROVE  /\ IsRow(h, a) => IsRow(g, a)
                      /\ IsGrid(h, a) => IsGrid(g, a)
                      /\ Len(h[a].data) \in Nat /\ Len(g[a].data) \in Nat
                      /\ DOMAIN h[a].data = 1..Len(h[a].data)
                      /\ DOMAIN g[a].data = 1..Len(g[a].data)
                      /\ Len(h[a].data) <= Len(g[a].data)
    OBVIOUS
  <2>1. h[a] \in Row \cup Grid /\ g[a] \in Row \cup Grid
    BY DEF HeapOK, Grows
  <2> QED BY <2>1, DataLength DEF Grows, IsRow, IsGrid
<1>2. PlaceOK(g, pl)
  <2>1. CASE pl = None
    BY <2>1 DEF PlaceOK
  <2>2. CASE pl # None
    <3>1. pl.list \in Addr /\ h[pl.list] # None
      BY <2>2, HeapCases DEF PlaceOK, Place
    <3> QED BY <1>1, <2>2, <3>1 DEF PlaceOK
  <2> QED BY <2>1, <2>2
<1>3. LoopOK(g, lp)
  <2>1. CASE lp = None
    BY <2>1 DEF LoopOK
  <2>2. CASE lp # None
    <3>1. lp.list \in Addr /\ h[lp.list] # None /\ lp \in Loop
      BY <2>2, HeapCases DEF LoopOK, Loop
    <3>2. lp.len \in Nat
      BY <3>1 DEF Loop
    <3>3. lp.len <= Len(g[lp.list].data)
      BY <1>1, <2>2, <3>1, <3>2 DEF LoopOK
    <3> QED BY <1>1, <2>2, <3>1, <3>3 DEF LoopOK
  <2> QED BY <2>1, <2>2
<1> QED BY <1>2, <1>3

(* The barrier replaces no list by a shorter one. *)
LEMMA WalkGrows ==
  ASSUME NEW h, NEW env, NEW cl, Good(h, env, cl), NEW x, NEW path,
         Reachable(h, env, cl, x, path), NEW w, Walked(h, env, cl, x, path, w)
  PROVE  Grows(h, w.heap)
<1>1. HeapOK(h) /\ EnvOK(h, env) /\ HeapOK(w.heap)
  BY DEF Good, Walked
<1>2. env[x] \in Addr
  BY <1>1 DEF Reachable, EnvOK
<1> SUFFICES ASSUME NEW a \in Addr, h[a] # None
             PROVE  /\ h[a] \in Row => w.heap[a] \in Row
                    /\ h[a] \in Grid => w.heap[a] \in Grid
                    /\ Len(h[a].data) <= Len(w.heap[a].data)
  BY RowFields, GridFields DEF Grows
<1>3. h[a] \in Row \cup Grid
  BY <1>1 DEF HeapOK
<1>4. CASE w.heap[a] = h[a]
  BY <1>3, <1>4, DataLength
<1>5. CASE a = env[x] /\ a = w.root /\ h[a] \in Grid /\ w.heap[a] \in Grid
  <2>1. w.root = a
    BY <1>5
  <2>2. ValueIn(w.heap, a) = ValueIn(h, a)
    BY <1>5, <2>1 DEF Walked
  <2>3. h[a].grid /\ w.heap[a].grid
    BY <1>5, GridFields
  <2>4. DOMAIN h[a].data = DOMAIN w.heap[a].data
    BY <2>2, <2>3 DEF ValueIn
  <2>5. /\ Len(h[a].data) \in Nat /\ DOMAIN h[a].data = 1..Len(h[a].data)
        /\ Len(w.heap[a].data) \in Nat /\ DOMAIN w.heap[a].data = 1..Len(w.heap[a].data)
    BY <1>5, DataLength
  <2>6. Len(h[a].data) = Len(w.heap[a].data)
    <3> DEFINE m == Len(h[a].data)
               n == Len(w.heap[a].data)
    <3>1. m \in Nat /\ n \in Nat /\ 1..m = 1..n
      BY <2>4, <2>5
    <3> HIDE DEF m, n
    <3>2. m = n
      BY <3>1
    <3> QED BY <3>2 DEF m, n
  <2>7. h[a] \notin Row
    BY <1>5, GridFields
  <2>8. Len(h[a].data) <= Len(w.heap[a].data)
    BY <2>5, <2>6
  <2> QED BY <1>5, <2>7, <2>8
<1> QED BY <1>4, <1>5 DEF Walked

LEMMA ReadyNow ==
  ASSUME Inv
  PROVE  Ready(heap, loc)
BY DEF Inv, Ready

LEMMA ReachableNow ==
  ASSUME Inv, NEW x \in Usable(Vars), NEW path \in Containers(x)
  PROVE  Reachable(heap, loc, call, x, path)
<1>1. CallOK(heap, loc, call)
  BY DEF Inv, Good
<1>2. x \in Vars /\ loc[x] # Unbound /\ (call # None => call.root # x)
  BY DEF Usable, Busy
<1>3. x = Param => call # None
  BY <1>1, <1>2, NoneAssumption DEF CallOK
<1>4. path # <<>> => x \in GridVars /\ Len(path) = 1 /\ path[1] \in DOMAIN heap[loc[x]].data
  BY DEF Containers
<1> QED BY <1>2, <1>3, <1>4 DEF Reachable

(* The barrier keeps what is in progress. *)
LEMMA WalkMade ==
  ASSUME Inv, NEW x, NEW path, Reachable(heap, loc, call, x, path), WalkRoom,
         NEW w, w = WalkTo(heap, loc[x], path)
  PROVE  /\ Walked(heap, loc, call, x, path, w)
         /\ Made(w.heap, [loc EXCEPT ![x] = w.root], place, call, loop)
<1>1. Good(heap, loc, call) /\ PlaceOK(heap, place) /\ LoopOK(heap, loop)
  BY DEF Inv
<1>2. Walked(heap, loc, call, x, path, w)
  BY <1>1, WalkGood DEF WalkRoom
<1>3. Grows(heap, w.heap)
  BY <1>1, <1>2, WalkGrows
<1>4. Good(w.heap, [loc EXCEPT ![x] = w.root], call)
  BY <1>2 DEF Walked
<1>5. PlaceOK(w.heap, place) /\ LoopOK(w.heap, loop)
  BY <1>1, <1>3, <1>4, Carry DEF Good
<1> QED BY <1>2, <1>4, <1>5 DEF Made

LEMMA EvaluatedMade ==
  ASSUME NEW h, NEW env, NEW pl, NEW lp, Made(h, env, pl, call, lp), NEW e, Evaluated(h, env, e)
  PROVE  Made(e.heap, e.loc, pl, call, lp)
BY ExtendsGrows, Carry DEF Made, Good, Evaluated

(* The list the barrier answers is of the kind the place is. *)
LEMMA ListKind ==
  ASSUME NEW h, NEW env, NEW cl, NEW x, NEW path, Reachable(h, env, cl, x, path),
         NEW w, Walked(h, env, cl, x, path, w)
  PROVE  /\ path = <<>> => Is(w.heap, x, w.list)
         /\ path # <<>> => IsRow(w.heap, w.list) /\ IsGrid(w.heap, w.root)
<1>1. HeapOK(w.heap) /\ Is(w.heap, x, w.root)
  BY DEF Walked, Good
<1>2. path # <<>> => IsGrid(w.heap, w.root)
  BY <1>1 DEF Reachable, Is
<1> QED BY <1>1, <1>2 DEF Walked, HeapOK, IsGrid

LEMMA AssignMade ==
  ASSUME Inv, NEW x \in Vars, ~Busy(x), x = Param => call # None,
         NEW e, Evaluated(heap, loc, e), Is(e.heap, x, e.at)
  PROVE  Made(e.heap, [e.loc EXCEPT ![x] = e.at], place, call, loop)
<1>1. Made(e.heap, e.loc, place, call, loop)
  BY EvaluatedMade DEF Inv, Made
<1>2. Good(e.heap, [e.loc EXCEPT ![x] = e.at], call)
  <2>1. call # None => call.root # x
    BY DEF Busy
  <2> QED BY <1>1, <2>1, BindGood DEF Made, Evaluated
<1> QED BY <1>1, <1>2 DEF Made

(* A store of cells or of a row keeps what is in progress. *)
LEMMA StoreCellsMade ==
  ASSUME NEW h, NEW env, NEW pl, NEW cl, NEW lp, Made(h, env, pl, cl, lp),
         NEW b, IsRow(h, b), NEW d \in Seq(Cell), Len(h[b].data) <= Len(d)
  PROVE  Made(Store(h, b, d), env, pl, cl, lp)
<1> DEFINE g == Store(h, b, d)
<1>1. Good(h, env, cl) /\ PlaceOK(h, pl) /\ LoopOK(h, lp) /\ HeapOK(h)
  BY DEF Made, Good
<1>2. /\ Good(g, env, cl) /\ IsRow(g, b) /\ g[b].data = d
      /\ \A c \in Addr : c # b => g[c] = h[c]
  BY <1>1, StoreRowGood
<1> HIDE DEF g
<1>3. Grows(h, g)
  <2> SUFFICES ASSUME NEW a \in Addr
               PROVE  /\ h[a] \in Row => g[a] \in Row
                      /\ h[a] \in Grid => g[a] \in Grid
                      /\ h[a] # None => Len(h[a].data) <= Len(g[a].data)
    BY DEF Grows
  <2>1. CASE a = b
    BY <1>2, <2>1, RowFields DEF IsRow
  <2>2. CASE a # b
    <3>1. h[a] # None => Len(h[a].data) \in Nat
      BY <1>1, DataLength DEF HeapOK
    <3> QED BY <1>2, <2>2, <3>1
  <2> QED BY <2>1, <2>2
<1>4. PlaceOK(g, pl) /\ LoopOK(g, lp)
  BY <1>1, <1>2, <1>3, Carry DEF Good
<1> QED BY <1>2, <1>4 DEF Made, g

LEMMA StoreRowMade ==
  ASSUME NEW h, NEW env, NEW pl, NEW cl, NEW lp, Made(h, env, pl, cl, lp),
         NEW b, IsGrid(h, b), NEW a, IsRow(h, a), Detached(h, env, cl, a),
         NEW d \in Seq(Addr), Len(d) <= MaxGrid, NEW k \in DOMAIN d, d[k] = a,
         \A i \in DOMAIN d : i # k => i \in DOMAIN h[b].data /\ d[i] = h[b].data[i],
         \A i \in DOMAIN h[b].data : i \in DOMAIN d
  PROVE  Made(Store(h, b, d), env, pl, cl, lp)
<1> DEFINE g == Store(h, b, d)
<1>1. Good(h, env, cl) /\ PlaceOK(h, pl) /\ LoopOK(h, lp) /\ HeapOK(h)
  BY DEF Made, Good
<1>2. /\ Good(g, env, cl) /\ IsGrid(g, b) /\ g[b].data = d
      /\ \A c \in Addr : c # b => g[c] = h[c]
  BY <1>1, StoreGridGood
<1>3. Len(h[b].data) <= Len(d)
  <2>1. Len(h[b].data) \in Nat /\ DOMAIN h[b].data = 1..Len(h[b].data)
    BY DataLength DEF IsGrid
  <2>2. Len(d) \in Nat /\ DOMAIN d = 1..Len(d)
    OBVIOUS
  <2>3. \A i \in 1..Len(h[b].data) : i \in 1..Len(d)
    BY <2>1, <2>2
  <2> DEFINE m == Len(h[b].data)
             n == Len(d)
  <2>4. m \in Nat /\ n \in Nat /\ \A i \in 1..m : i \in 1..n
    BY <2>1, <2>2, <2>3
  <2> HIDE DEF m, n
  <2>5. m <= n
    BY <2>4
  <2> QED BY <2>5 DEF m, n
<1> HIDE DEF g
<1>4. Grows(h, g)
  <2> SUFFICES ASSUME NEW c \in Addr
               PROVE  /\ h[c] \in Row => g[c] \in Row
                      /\ h[c] \in Grid => g[c] \in Grid
                      /\ h[c] # None => Len(h[c].data) <= Len(g[c].data)
    BY DEF Grows
  <2>1. CASE c = b
    BY <1>2, <1>3, <2>1, GridFields DEF IsGrid
  <2>2. CASE c # b
    <3>1. h[c] # None => Len(h[c].data) \in Nat
      BY <1>1, DataLength DEF HeapOK
    <3> QED BY <1>2, <2>2, <3>1
  <2> QED BY <2>1, <2>2
<1>5. PlaceOK(g, pl) /\ LoopOK(g, lp)
  BY <1>1, <1>2, <1>4, Carry DEF Good
<1> QED BY <1>2, <1>5 DEF Made, g

(* A `mut` argument changes hands: its one name is the parameter for the    *)
(* length of the call, and its own place again afterwards.                  *)
LEMMA LendVarGood ==
  ASSUME NEW h, NEW env, Good(h, env, None), NEW x \in RowVars, env[x] # Unbound,
         NEW cl, cl = [root |-> x, path |-> <<>>, list |-> 0]
  PROVE  Good(h, [env EXCEPT ![Param] = env[x]], cl)
<1> DEFINE new == [env EXCEPT ![Param] = env[x]]
<1>1. HeapOK(h) /\ EnvOK(h, env) /\ CallOK(h, env, None) /\ Single(h, env, None)
  BY DEF Good
<1>2. Param \in Vars /\ Param \in RowVars /\ x \in Vars /\ x \notin GridVars /\ Param \notin GridVars
  BY VarsAssumption DEF Vars
<1>3. env[Param] = Unbound /\ x # Param
  BY <1>1, NoneAssumption DEF CallOK
<1>4. cl \in Call /\ cl # None /\ cl.root = x /\ cl.path = <<>>
  <2>1. <<>> \in Seq(Nat)
    OBVIOUS
  <2>2. cl \in Call
    BY <1>2, <2>1 DEF Call
  <2> QED BY <2>2, NoneAssumption
<1>5. /\ new \in [Vars -> Addr \cup {Unbound}] /\ new[Param] = env[x]
      /\ \A y \in Vars : y # Param => new[y] = env[y]
  BY <1>1, <1>2 DEF EnvOK
<1> HIDE DEF new
<1>6. EnvOK(h, new)
  BY <1>1, <1>2, <1>5 DEF EnvOK, Is
<1>7. CallOK(h, new, cl)
  BY <1>2, <1>3, <1>4, <1>5 DEF CallOK
<1>8. \A a, y : VarName(new, cl, a, y) =>
        /\ y # x
        /\ (y = Param /\ VarName(env, None, a, x)) \/ (y # Param /\ VarName(env, None, a, y))
  BY <1>2, <1>4, <1>5 DEF VarName, LentVar
<1>9. \A a, b, i : SlotName(h, cl, a, b, i) => SlotName(h, None, a, b, i)
  BY DEF SlotName, LentSlot
<1>10. Single(h, new, cl)
  <2> SUFFICES ASSUME NEW a \in Addr, h[a] # None, ~h[a].shared
               PROVE  OneName(h, new, cl, a)
    BY DEF Single
  <2>1. OneName(h, env, None, a)
    BY <1>1 DEF Single
  <2> QED BY <1>8, <1>9, <2>1 DEF OneName
<1> QED BY <1>1, <1>6, <1>7, <1>10 DEF Good, new

LEMMA LendSlotGood ==
  ASSUME NEW h, NEW env, Good(h, env, None), NEW x \in GridVars, env[x] # Unbound,
         ~h[env[x]].shared, NEW i \in DOMAIN h[env[x]].data,
         NEW cl, cl = [root |-> x, path |-> <<i>>, list |-> env[x]]
  PROVE  Good(h, [env EXCEPT ![Param] = h[env[x]].data[i]], cl)
<1> DEFINE r == h[env[x]].data[i]
           new == [env EXCEPT ![Param] = r]
<1>1. HeapOK(h) /\ EnvOK(h, env) /\ CallOK(h, env, None) /\ Single(h, env, None)
  BY DEF Good
<1>2. Param \in Vars /\ Param \in RowVars /\ x \in Vars /\ x # Param /\ Param \notin GridVars
  BY VarsAssumption DEF Vars
<1>3. env[x] \in Addr /\ h[env[x]] \in Grid /\ IsRow(h, r) /\ r # Unbound
  BY <1>1, <1>2, UnboundAssumption DEF EnvOK, Is, IsGrid, HeapOK, IsRow
<1>4. i \in Nat
  <2>1. DOMAIN h[env[x]].data = 1..Len(h[env[x]].data) /\ Len(h[env[x]].data) \in Nat
    BY <1>3, DataLength
  <2> QED BY <2>1
<1>5. cl \in Call /\ cl # None /\ cl.root = x /\ cl.path = <<i>> /\ cl.list = env[x]
  <2>1. <<i>> \in Seq(Nat)
    BY <1>4
  <2>2. cl \in Call
    BY <1>2, <1>3, <2>1 DEF Call
  <2> QED BY <2>2, NoneAssumption
<1>6. env[Param] = Unbound
  BY <1>1, NoneAssumption DEF CallOK
<1> HIDE DEF r
<1>7. /\ new \in [Vars -> Addr \cup {Unbound}] /\ new[Param] = r
      /\ \A y \in Vars : y # Param => new[y] = env[y]
  BY <1>1, <1>2, <1>3 DEF EnvOK, IsRow
<1> HIDE DEF new
<1>8. EnvOK(h, new)
  BY <1>1, <1>2, <1>3, <1>7 DEF EnvOK, Is
<1>9. CallOK(h, new, cl)
  <2>1. cl.path # <<>> /\ Len(cl.path) = 1 /\ cl.path[1] = i
    BY <1>5
  <2> QED BY <1>2, <1>3, <1>5, <1>7, <2>1 DEF CallOK
<1>10. SlotName(h, None, r, env[x], i)
  BY <1>3 DEF SlotName, LentSlot, r
<1>11. \A a, y : VarName(new, cl, a, y) =>
         (y = Param /\ a = r) \/ (y # Param /\ VarName(env, None, a, y))
  BY <1>2, <1>7 DEF VarName, LentVar
<1>12. \A a, b, j : SlotName(h, cl, a, b, j) =>
         SlotName(h, None, a, b, j) /\ ~(b = env[x] /\ j = i)
  BY <1>5 DEF SlotName, LentSlot
<1>13. Single(h, new, cl)
  <2> SUFFICES ASSUME NEW a \in Addr, h[a] # None, ~h[a].shared
               PROVE  OneName(h, new, cl, a)
    BY DEF Single
  <2>1. OneName(h, env, None, a)
    BY <1>1 DEF Single
  <2>2. CASE a = r
    <3>1. \A y : ~VarName(env, None, a, y)
      BY <1>10, <2>1, <2>2 DEF OneName
    <3>2. \A b, j : ~SlotName(h, cl, a, b, j)
      BY <1>10, <1>12, <2>1, <2>2 DEF OneName
    <3> QED BY <1>11, <3>1, <3>2 DEF OneName
  <2>3. CASE a # r
    BY <1>11, <1>12, <2>1, <2>3 DEF OneName
  <2> QED BY <2>2, <2>3
<1> QED BY <1>1, <1>8, <1>9, <1>13 DEF Good, new, r

LEMMA ReturnVarGood ==
  ASSUME NEW h, NEW env, NEW cl, Good(h, env, cl), cl # None, cl.path = <<>>
  PROVE  Good(h, [env EXCEPT ![cl.root] = env[Param], ![Param] = Unbound], None)
<1> DEFINE new == [env EXCEPT ![cl.root] = env[Param], ![Param] = Unbound]
           x == cl.root
<1>1. HeapOK(h) /\ EnvOK(h, env) /\ CallOK(h, env, cl) /\ Single(h, env, cl)
  BY DEF Good
<1>2. /\ Param \in Vars /\ Param \notin GridVars /\ x \in RowVars /\ x \in Vars /\ x \notin GridVars
      /\ x # Param /\ env[Param] # Unbound
  BY <1>1, VarsAssumption DEF CallOK, Vars
<1>3. /\ new \in [Vars -> Addr \cup {Unbound}] /\ new[x] = env[Param] /\ new[Param] = Unbound
      /\ \A y \in Vars : y # Param /\ y # x => new[y] = env[y]
  BY <1>1, <1>2 DEF EnvOK
<1> HIDE DEF new
<1>4. EnvOK(h, new)
  BY <1>1, <1>2, <1>3 DEF EnvOK, Is
<1>5. CallOK(h, new, None)
  BY <1>3 DEF CallOK
<1>6. \A a \in Addr : \A y : VarName(new, None, a, y) =>
        \/ y = x /\ VarName(env, cl, a, Param)
        \/ y # x /\ y # Param /\ VarName(env, cl, a, y)
  BY <1>2, <1>3, UnboundAssumption DEF VarName, LentVar
<1>7. \A a, b, i : SlotName(h, None, a, b, i) => SlotName(h, cl, a, b, i)
  BY DEF SlotName, LentSlot
<1>8. Single(h, new, None)
  <2> SUFFICES ASSUME NEW a \in Addr, h[a] # None, ~h[a].shared
               PROVE  OneName(h, new, None, a)
    BY DEF Single
  <2>1. OneName(h, env, cl, a)
    BY <1>1 DEF Single
  <2> QED BY <1>6, <1>7, <2>1 DEF OneName
<1> QED BY <1>1, <1>4, <1>5, <1>8 DEF Good, new

Returned(h, env, cl, g) ==
  /\ Good(g, [env EXCEPT ![Param] = Unbound], None)
  /\ IsGrid(h, cl.list) /\ IsGrid(g, cl.list)
  /\ DOMAIN g[cl.list].data = DOMAIN h[cl.list].data
  /\ g[cl.list].shared = h[cl.list].shared
  /\ \A c \in Addr : c # cl.list => g[c] = h[c]

LEMMA ReturnSlotGood ==
  ASSUME NEW h, NEW env, NEW cl, Good(h, env, cl), cl # None, cl.path # <<>>,
         NEW g, g = SetItem(h, cl.list, cl.path[1], env[Param])
  PROVE  Returned(h, env, cl, g)
<1> DEFINE new == [env EXCEPT ![Param] = Unbound]
           b == cl.list
           k == cl.path[1]
           r == env[Param]
           d == [h[b].data EXCEPT ![k] = r]
           o == [h[b] EXCEPT !.data = d]
<1>1. HeapOK(h) /\ EnvOK(h, env) /\ CallOK(h, env, cl) /\ Single(h, env, cl)
  BY DEF Good
<1>2. Param \in Vars /\ Param \notin GridVars
  BY VarsAssumption DEF Vars
<1>3. /\ cl \in Call /\ cl.root # Param /\ cl.root \in GridVars /\ cl.root \in Vars /\ Len(cl.path) = 1
      /\ env[cl.root] = b /\ b # Unbound /\ k \in DOMAIN h[b].data /\ r # Unbound
  BY <1>1 DEF CallOK, Vars
<1>4. b \in Addr /\ h[b] \in Grid /\ IsGrid(h, b) /\ IsRow(h, r) /\ DOMAIN h = Addr
  BY <1>1, <1>2, <1>3 DEF EnvOK, Is, IsGrid, HeapOK
<1>4a. cl.path = <<k>>
  BY <1>3 DEF Call
<1>5. h[b].data \in Seq(Addr)
  BY <1>4, GridFields
<1> HIDE DEF r, k, b
<1>6. /\ d \in Seq(Addr) /\ Len(d) = Len(h[b].data) /\ DOMAIN d = DOMAIN h[b].data
      /\ d[k] = r /\ \A i \in DOMAIN d : i # k => d[i] = h[b].data[i]
  BY <1>3, <1>4, <1>5 DEF IsRow
<1> HIDE DEF d
<1>7. o \in Grid /\ o.data = d /\ o.shared = h[b].shared
  BY <1>4, <1>6, GridWithData
<1>8. g = [h EXCEPT ![b] = o]
  BY DEF SetItem, Store, Put, d, b, k, r
<1> HIDE DEF o
<1>9. DOMAIN g = Addr /\ g[b] = o /\ \A c \in Addr : c # b => g[c] = h[c]
  BY <1>4, <1>8
<1>10. \A c \in Addr : /\ (g[c] \in Row <=> h[c] \in Row) /\ (g[c] \in Grid <=> h[c] \in Grid)
                       /\ (g[c] = None <=> h[c] = None)
                       /\ g[c].shared = h[c].shared
  BY <1>4, <1>7, <1>9, RowFields, GridFields
<1>11. HeapOK(g)
  <2>1. g \in [Addr -> Row \cup Grid \cup {None}]
    BY <1>1, <1>4, <1>7, <1>8 DEF HeapOK
  <2>2. ASSUME NEW c \in Addr, g[c] \in Grid
        PROVE  Len(g[c].data) <= MaxGrid /\ \A i \in DOMAIN g[c].data : IsRow(g, g[c].data[i])
    <3>1. \A e : IsRow(h, e) => IsRow(g, e)
      BY <1>10 DEF IsRow
    <3>2. CASE c = b
      <4>1. Len(h[b].data) <= MaxGrid /\ \A i \in DOMAIN h[b].data : IsRow(h, h[b].data[i])
        BY <1>1, <1>4 DEF HeapOK
      <4>2. \A i \in DOMAIN d : IsRow(h, d[i])
        BY <1>4, <1>6, <4>1
      <4> QED BY <1>6, <1>7, <1>9, <3>1, <3>2, <4>1, <4>2
    <3>3. CASE c # b
      <4>1. g[c] = h[c] /\ h[c] \in Grid
        BY <1>9, <2>2, <3>3
      <4> QED BY <1>1, <3>1, <4>1 DEF HeapOK
    <3> QED BY <3>2, <3>3
  <2> QED BY <2>1, <2>2 DEF HeapOK
<1>12. /\ new \in [Vars -> Addr \cup {Unbound}] /\ new[Param] = Unbound
       /\ \A y \in Vars : y # Param => new[y] = env[y]
  BY <1>1, <1>2 DEF EnvOK
<1> HIDE DEF new
<1>13. EnvOK(g, new)
  <2>1. EnvOK(h, new)
    BY <1>1, <1>2, <1>12 DEF EnvOK
  <2> QED BY <1>10, <2>1, EnvExtends
<1>14. CallOK(g, new, None)
  BY <1>12 DEF CallOK
<1>15. \A a \in Addr : \A y : VarName(new, None, a, y) => y # Param /\ VarName(env, cl, a, y)
  <2>1. \A y : ~LentVar(cl, y)
    BY DEF LentVar
  <2> QED BY <1>12, <2>1, UnboundAssumption DEF VarName
<1>16. VarName(env, cl, r, Param)
  BY <1>2, <1>3, <1>4a DEF VarName, LentVar, r
<1>17. \A a, c, i : SlotName(g, None, a, c, i) =>
         (c = b /\ i = k /\ a = r) \/ (~(c = b /\ i = k) /\ SlotName(h, cl, a, c, i))
  <2> SUFFICES ASSUME NEW a, NEW c, NEW i, SlotName(g, None, a, c, i)
               PROVE  (c = b /\ i = k /\ a = r) \/ (~(c = b /\ i = k) /\ SlotName(h, cl, a, c, i))
    OBVIOUS
  <2>1. c \in Addr /\ h[c] \in Grid /\ i \in DOMAIN g[c].data /\ g[c].data[i] = a
    BY <1>10 DEF SlotName
  <2>2. LentSlot(cl, c, i) => c = b /\ i = k
    BY <1>4a DEF LentSlot, b
  <2>3. CASE c = b
    BY <1>6, <1>7, <1>9, <2>1, <2>2, <2>3 DEF SlotName
  <2>4. CASE c # b
    BY <1>9, <2>1, <2>2, <2>4 DEF SlotName
  <2> QED BY <2>3, <2>4
<1>18. Single(g, new, None)
  <2> SUFFICES ASSUME NEW a \in Addr, g[a] # None, ~g[a].shared
               PROVE  OneName(g, new, None, a)
    BY DEF Single
  <2>1. OneName(h, env, cl, a)
    BY <1>1, <1>10 DEF Single
  <2>2. CASE a = r
    <3>1. \A y : VarName(env, cl, a, y) => y = Param
      BY <1>16, <2>1, <2>2 DEF OneName
    <3>2. \A c, i : ~SlotName(h, cl, a, c, i)
      BY <1>16, <2>1, <2>2 DEF OneName
    <3> QED BY <1>15, <1>17, <3>1, <3>2 DEF OneName
  <2>3. CASE a # r
    BY <1>15, <1>17, <2>1, <2>3 DEF OneName
  <2> QED BY <2>2, <2>3
<1>19. DOMAIN g[b].data = DOMAIN h[b].data
  BY <1>6, <1>7, <1>9
<1> QED BY <1>4, <1>7, <1>9, <1>11, <1>13, <1>14, <1>18, <1>19 DEF Returned, Good, new, IsGrid, b

(* push(mut x.., c) *)
LEMMA PushCellMade ==
  ASSUME Inv, NEW x \in Writable(Vars), NEW path \in RowPlaces(x), NEW c \in Cell, WalkRoom,
         NEW w, w = WalkTo(heap, loc[x], path)
  PROVE  /\ Walked(heap, loc, call, x, path, w) /\ IsRow(w.heap, w.list)
         /\ Made(Store(w.heap, w.list, Append(w.heap[w.list].data, c)),
                 [loc EXCEPT ![x] = w.root], place, call, loop)
<1>1. x \in Usable(Vars) /\ path \in Containers(x)
  BY DEF Writable, RowPlaces
<1>2. Reachable(heap, loc, call, x, path)
  BY <1>1, ReachableNow
<1>3. /\ Walked(heap, loc, call, x, path, w)
      /\ Made(w.heap, [loc EXCEPT ![x] = w.root], place, call, loop)
  BY <1>2, WalkMade
<1>4. IsRow(w.heap, w.list)
  BY <1>2, <1>3, ListKind DEF Is, RowPlaces
<1> DEFINE data == w.heap[w.list].data
<1>5. data \in Seq(Cell)
  BY <1>4, RowFields DEF IsRow
<1> HIDE DEF data
<1>6. Append(data, c) \in Seq(Cell) /\ Len(data) <= Len(Append(data, c))
  BY <1>5
<1>7. Made(Store(w.heap, w.list, Append(data, c)), [loc EXCEPT ![x] = w.root], place, call, loop)
  BY <1>3, <1>4, <1>6, StoreCellsMade DEF data
<1> QED BY <1>3, <1>4, <1>7 DEF data

(* push(mut g, row) *)
LEMMA PushRowMade ==
  ASSUME Inv, NEW g \in Writable(GridVars), WalkRoom,
         NEW w, w = WalkTo(heap, loc[g], <<>>), Len(w.heap[w.list].data) < MaxGrid,
         NEW env, env = [loc EXCEPT ![g] = w.root], NEW e \in RowExprs(w.heap, env)
  PROVE  /\ Walked(heap, loc, call, g, <<>>, w) /\ Ready(w.heap, env)
         /\ Made(w.heap, env, place, call, loop)
         /\ Evaluated(w.heap, env, e) /\ RowFrom(w.heap, env, e)
         /\ IsGrid(e.heap, w.list)
         /\ Made(Store(e.heap, w.list, Append(e.heap[w.list].data, e.at)), e.loc, place, call, loop)
<1>1. g \in Usable(Vars) /\ <<>> \in Containers(g) /\ g \in Vars /\ g \in GridVars
  BY DEF Writable, Usable, Containers, Vars
<1>2. Reachable(heap, loc, call, g, <<>>)
  BY <1>1, ReachableNow
<1>3. Walked(heap, loc, call, g, <<>>, w) /\ Made(w.heap, env, place, call, loop)
  BY <1>2, WalkMade
<1>4. IsGrid(w.heap, w.list) /\ w.list = w.root
  BY <1>1, <1>2, <1>3, ListKind DEF Is, Walked
<1>5. Ready(w.heap, env)
  <2>1. Good(w.heap, env, call)
    BY <1>3 DEF Made
  <2>2. loc \in [Vars -> Addr \cup {Unbound}]
    BY DEF Inv, Good, EnvOK
  <2>3. \A x \in Vars : loc[x] # Unbound => env[x] # Unbound
    BY <1>1, <1>4, <2>2, UnboundAssumption DEF IsGrid
  <2> QED BY <2>1, <2>3 DEF Ready
<1>6. Evaluated(w.heap, env, e) /\ RowFrom(w.heap, env, e) /\ IsRow(e.heap, e.at)
  BY <1>5, RowExprsGood
<1>7. Made(e.heap, e.loc, place, call, loop)
  BY <1>3, <1>6, EvaluatedMade
<1>8. IsGrid(e.heap, w.list) /\ e.heap[w.list].data = w.heap[w.list].data
  BY <1>4, <1>6, GridFields DEF Evaluated, Extends, IsGrid
<1> DEFINE data == e.heap[w.list].data
           d == Append(data, e.at)
<1>9. data \in Seq(Addr) /\ e.at \in Addr
  BY <1>6, <1>8, GridFields DEF IsGrid, IsRow
<1>10. Len(data) < MaxGrid
  BY <1>8
<1> HIDE DEF data
<1>11. /\ d \in Seq(Addr) /\ Len(d) = Len(data) + 1 /\ d[Len(data) + 1] = e.at
       /\ \A i \in 1..Len(data) : d[i] = data[i]
       /\ DOMAIN d = 1..(Len(data) + 1) /\ DOMAIN data = 1..Len(data) /\ Len(data) \in Nat
  BY <1>9
<1> HIDE DEF d
<1>12. Len(d) <= MaxGrid
  BY <1>10, <1>11, CowBoundsAssumption
<1>13. /\ Len(data) + 1 \in DOMAIN d
       /\ \A i \in DOMAIN d : i # Len(data) + 1 => i \in DOMAIN data /\ d[i] = data[i]
       /\ \A i \in DOMAIN data : i \in DOMAIN d
  BY <1>11
<1>14. Made(Store(e.heap, w.list, d), e.loc, place, call, loop)
  <2>1. Detached(e.heap, e.loc, call, e.at)
    BY <1>6 DEF Evaluated
  <2> QED BY <1>6, <1>7, <1>8, <1>11, <1>12, <1>13, <2>1, StoreRowMade DEF data
<1> QED BY <1>3, <1>5, <1>6, <1>8, <1>14 DEF d, data

(* root[path] = .. begins *)
LEMMA PlaceBeginMade ==
  ASSUME Inv, NEW x \in Writable(Vars), NEW p \in Containers(x), NEW i \in 1..(MaxRow + MaxGrid),
         WalkRoom, NEW w, w = WalkTo(heap, loc[x], p), i \in DOMAIN w.heap[w.list].data,
         NEW pl, pl = [root |-> x, path |-> Append(p, i), list |-> w.list]
  PROVE  /\ Walked(heap, loc, call, x, p, w)
         /\ Made(w.heap, [loc EXCEPT ![x] = w.root], pl, call, loop)
<1>1. x \in Usable(Vars) /\ x \in Vars
  BY DEF Writable, Usable
<1>2. Reachable(heap, loc, call, x, p)
  BY <1>1, ReachableNow
<1>3. /\ Walked(heap, loc, call, x, p, w)
      /\ Made(w.heap, [loc EXCEPT ![x] = w.root], place, call, loop)
  BY <1>2, WalkMade
<1>4. /\ p = <<>> => Is(w.heap, x, w.list)
      /\ p # <<>> => IsRow(w.heap, w.list)
  BY <1>2, <1>3, ListKind
<1>5. p \in Seq(Nat) /\ Len(p) \in 0..1 /\ (Len(p) = 0 <=> p = <<>>) /\ (p # <<>> => x \in GridVars)
  <2>1. CASE p = <<>>
    BY <2>1
  <2>2. CASE x \in GridVars /\ p \in {<<j>> : j \in DOMAIN heap[loc[x]].data}
    <3>1. PICK j \in DOMAIN heap[loc[x]].data : p = <<j>>
      BY <2>2
    <3>2. heap[loc[x]] \in Grid
      BY <1>1, <2>2 DEF Inv, Good, EnvOK, Is, IsGrid, Usable
    <3>3. DOMAIN heap[loc[x]].data = 1..Len(heap[loc[x]].data) /\ Len(heap[loc[x]].data) \in Nat
      BY <3>2, DataLength
    <3>4. j \in Nat
      BY <3>3
    <3> QED BY <2>2, <3>1, <3>4
  <2> QED BY <2>1, <2>2 DEF Containers
<1>6. i \in Nat
  BY CowBoundsAssumption
<1>7. /\ Append(p, i) \in Seq(Nat) /\ Len(Append(p, i)) = Len(p) + 1
      /\ Append(p, i)[Len(p) + 1] = i
  BY <1>5, <1>6
<1>8. PlaceOK(w.heap, pl)
  <2>1. w.list \in Addr
    BY <1>3 DEF Walked
  <2>2. pl \in Place
    BY <1>1, <1>7, <2>1 DEF Place
  <2>3. pl.root = x /\ pl.list = w.list /\ Len(pl.path) = Len(p) + 1 /\ pl.path[Len(pl.path)] = i
    BY <1>7
  <2>4. IF pl.root \in GridVars /\ Len(pl.path) = 1 THEN IsGrid(w.heap, pl.list) ELSE IsRow(w.heap, pl.list)
    BY <1>4, <1>5, <2>3 DEF Is
  <2>5. pl.root \in RowVars => Len(pl.path) = 1
    BY <1>5, <2>3, VarsAssumption
  <2>6. Len(pl.path) \in 1..2 /\ pl.path[Len(pl.path)] \in DOMAIN w.heap[pl.list].data
    BY <1>5, <2>3
  <2> QED BY <2>2, <2>4, <2>5, <2>6 DEF PlaceOK
<1> QED BY <1>3, <1>8 DEF Made

LEMMA AppendFrontLast ==
  ASSUME NEW x, Inv, x \in Usable(Vars), NEW p \in Containers(x), NEW i
  PROVE  Front(Append(p, i)) = p /\ Last(Append(p, i)) = i
<1>1. p = <<>> \/ \E j : p = <<j>>
  BY DEF Containers
<1>2. CASE p = <<>>
  <2>1. Append(p, i) = <<i>> /\ Len(<<i>>) = 1
    BY <1>2
  <2>2. SubSeq(<<i>>, 1, 0) = <<>>
    BY SubSeqEmpty
  <2> QED BY <1>2, <2>1, <2>2 DEF Front, Last
<1>3. ASSUME NEW j, p = <<j>>
      PROVE  Front(Append(p, i)) = p /\ Last(Append(p, i)) = i
  <2> DEFINE s == <<j, i>>
             f == SubSeq(s, 1, 1)
  <2>1. Append(p, i) = s /\ Len(s) = 2 /\ s[1] = j /\ s[2] = i
    <3>1. <<j>> \in Seq({j, i}) /\ Len(<<j>>) = 1 /\ <<j>>[1] = j
      OBVIOUS
    <3> DEFINE t == Append(<<j>>, i)
    <3>2. t \in Seq({j, i}) /\ Len(t) = 2 /\ t[1] = j /\ t[2] = i
      BY <3>1, AppendProperties
    <3> HIDE DEF t
    <3>3. t = <<j, i>>
      BY <3>2
    <3> QED BY <1>3, <3>3 DEF t
  <2>2. s[1] \in {j}
    BY <2>1
  <2> HIDE DEF s
  <2>3. f \in Seq({j}) /\ Len(f) = 1
    <3>1. \A k \in 1..1 : s[k] \in {j}
      BY <2>2
    <3> QED BY <3>1, SubSeqProperties
  <2> HIDE DEF f
  <2>4. f = <<j>>
    BY <2>3
  <2>5. Front(s) = f /\ Last(s) = i
    BY <2>1 DEF Front, Last, f
  <2> QED BY <1>3, <2>1, <2>4, <2>5
<1> QED BY <1>1, <1>2, <1>3

(* root[path] = .. ends: the place is where it was. *)
LEMMA PlaceEndCellMade ==
  ASSUME Inv, place # None, ~IsRowPlace, NEW c \in Cell
  PROVE  /\ IsRow(heap, place.list)
         /\ Made(SetItem(heap, place.list, Last(place.path), c), loc, None, call, loop)
<1> DEFINE b == place.list
           k == Last(place.path)
           data == heap[b].data
           d == [data EXCEPT ![k] = c]
<1>1. Made(heap, loc, place, call, loop) /\ Made(heap, loc, None, call, loop)
  BY DEF Inv, Made, PlaceOK
<1>2. IsRow(heap, b) /\ k \in DOMAIN data
  BY DEF Inv, PlaceOK, IsRowPlace, Last
<1>3. data \in Seq(Cell)
  BY <1>2, RowFields DEF IsRow
<1>4. SetItem(heap, b, k, c) = Store(heap, b, d)
  BY DEF SetItem
<1> HIDE DEF b, k, data
<1>5. d \in Seq(Cell) /\ Len(data) <= Len(d)
  BY <1>2, <1>3
<1> HIDE DEF d
<1>6. Made(Store(heap, b, d), loc, None, call, loop)
  BY <1>1, <1>2, <1>5, StoreCellsMade DEF data
<1> QED BY <1>2, <1>4, <1>6 DEF b, k

LEMMA PlaceEndRowMade ==
  ASSUME Inv, place # None, IsRowPlace, NEW e \in RowExprs(heap, loc)
  PROVE  /\ Evaluated(heap, loc, e) /\ RowFrom(heap, loc, e)
         /\ IsGrid(heap, place.list) /\ IsGrid(e.heap, place.list)
         /\ Made(e.heap, e.loc, place, call, loop)
         /\ Made(SetItem(e.heap, place.list, Last(place.path), e.at), e.loc, None, call, loop)
<1> DEFINE b == place.list
           k == Last(place.path)
           data == e.heap[b].data
           d == [data EXCEPT ![k] = e.at]
<1>1. Evaluated(heap, loc, e) /\ RowFrom(heap, loc, e) /\ IsRow(e.heap, e.at)
  BY ReadyNow, RowExprsGood
<1>2. Made(e.heap, e.loc, place, call, loop)
  BY <1>1, EvaluatedMade DEF Inv, Made
<1>3. Made(e.heap, e.loc, None, call, loop)
  BY <1>2 DEF Made, PlaceOK
<1>4. IsGrid(e.heap, b) /\ k \in DOMAIN data
  BY <1>2 DEF Made, PlaceOK, IsRowPlace, Last
<1>5. IsGrid(heap, b)
  BY DEF Inv, PlaceOK, IsRowPlace
<1>6. data \in Seq(Addr) /\ Len(data) <= MaxGrid /\ e.at \in Addr
  BY <1>1, <1>2, <1>4, GridFields DEF IsGrid, IsRow, Made, Good, HeapOK
<1>7. SetItem(e.heap, b, k, e.at) = Store(e.heap, b, d)
  BY DEF SetItem
<1> HIDE DEF b, k, data
<1>8. /\ d \in Seq(Addr) /\ Len(d) = Len(data) /\ DOMAIN d = DOMAIN data /\ d[k] = e.at
      /\ \A i \in DOMAIN d : i # k => d[i] = data[i]
  BY <1>4, <1>6
<1> HIDE DEF d
<1>9. Made(Store(e.heap, b, d), e.loc, None, call, loop)
  <2>1. Detached(e.heap, e.loc, call, e.at) /\ Len(d) <= MaxGrid /\ k \in DOMAIN d
    BY <1>1, <1>4, <1>6, <1>8 DEF Evaluated
  <2>2. /\ \A i \in DOMAIN d : i # k => i \in DOMAIN data /\ d[i] = data[i]
        /\ \A i \in DOMAIN data : i \in DOMAIN d
    BY <1>8
  <2> QED BY <1>1, <1>3, <1>4, <1>8, <2>1, <2>2, StoreRowMade DEF data
<1> QED BY <1>1, <1>2, <1>4, <1>5, <1>7, <1>9 DEF b, k

(* f(mut ..) begins and ends. *)
LEMMA CallVarMade ==
  ASSUME Inv, call = None, NEW x \in Writable(Vars), <<>> \in RowPlaces(x),
         NEW cl, cl = [root |-> x, path |-> <<>>, list |-> 0]
  PROVE  Made(heap, [loc EXCEPT ![Param] = loc[x]], place, cl, loop)
<1>1. x \in RowVars /\ loc[x] # Unbound
  BY VarsAssumption DEF Writable, Usable, RowPlaces, Vars
<1>2. Good(heap, loc, None)
  BY DEF Inv
<1> QED BY <1>1, <1>2, LendVarGood DEF Inv, Made

LEMMA CallSlotMade ==
  ASSUME Inv, call = None, NEW x \in Writable(Vars), NEW path \in RowPlaces(x), path # <<>>,
         WalkRoom, NEW w, w = WalkTo(heap, loc[x], <<>>),
         NEW cl, cl = [root |-> x, path |-> path, list |-> w.list]
  PROVE  /\ Walked(heap, loc, None, x, <<>>, w)
         /\ Made(w.heap, [loc EXCEPT ![x] = w.root], place, None, loop)
         /\ path[1] \in DOMAIN w.heap[w.root].data /\ cl # None
         /\ Made(w.heap, [loc EXCEPT ![x] = w.root, ![Param] = w.heap[w.list].data[path[1]]],
                 place, cl, loop)
<1>1. x \in Usable(Vars) /\ x \in GridVars /\ x \in Vars /\ <<>> \in Containers(x) /\ path \in Containers(x)
  BY DEF Writable, Usable, RowPlaces, Containers
<1>2. Reachable(heap, loc, call, x, <<>>) /\ Reachable(heap, loc, call, x, path)
  BY <1>1, ReachableNow
<1> DEFINE env == [loc EXCEPT ![x] = w.root]
           i == path[1]
           r == w.heap[w.root].data[i]
<1>3. /\ Walked(heap, loc, None, x, <<>>, w)
      /\ Made(w.heap, env, place, None, loop)
  BY <1>2, WalkMade
<1>4. PICK j : path = <<j>>
  BY <1>1 DEF Containers
<1>5. path = <<i>> /\ i \in DOMAIN heap[loc[x]].data
  BY <1>2, <1>4 DEF Reachable
<1>6. w.list = w.root /\ IsGrid(w.heap, w.root) /\ ~w.heap[w.root].shared
  BY <1>1, <1>3 DEF Walked, Is
<1>7. i \in DOMAIN w.heap[w.root].data
  <2>1. heap[loc[x]] \in Grid
    BY <1>1 DEF Inv, Good, EnvOK, Is, IsGrid, Usable
  <2>2. heap[loc[x]].grid /\ w.heap[w.root].grid
    BY <1>6, <2>1, GridFields DEF IsGrid
  <2>3. ValueIn(w.heap, w.root) = ValueIn(heap, loc[x])
    BY <1>3 DEF Walked
  <2>4. DOMAIN w.heap[w.root].data = DOMAIN heap[loc[x]].data
    BY <2>2, <2>3 DEF ValueIn
  <2> QED BY <1>5, <2>4
<1>8. Good(w.heap, env, None) /\ loc \in [Vars -> Addr \cup {Unbound}]
  BY <1>3 DEF Made, Inv, Good, EnvOK
<1>9. env[x] = w.root /\ env[x] # Unbound
  BY <1>1, <1>6, <1>8, UnboundAssumption DEF IsGrid
<1>10. cl = [root |-> x, path |-> <<i>>, list |-> env[x]]
  BY <1>5, <1>6, <1>9
<1>10a. cl # None
  <2>1. w.heap[w.root] \in Grid /\ w.root \in Addr
    BY <1>6 DEF IsGrid
  <2>2. /\ DOMAIN w.heap[w.root].data = 1..Len(w.heap[w.root].data)
        /\ Len(w.heap[w.root].data) \in Nat
    BY <2>1, DataLength
  <2>3. <<i>> \in Seq(Nat)
    BY <1>7, <2>2
  <2>4. cl \in Call
    BY <1>1, <1>5, <1>6, <2>1, <2>3 DEF Call
  <2> QED BY <2>4, NoneAssumption
<1> HIDE DEF env, i
<1>11. Good(w.heap, [env EXCEPT ![Param] = r], cl)
  BY <1>1, <1>6, <1>7, <1>8, <1>9, <1>10, LendSlotGood
<1>12. [env EXCEPT ![Param] = r] = [loc EXCEPT ![x] = w.root, ![Param] = w.heap[w.list].data[i]]
  BY <1>6 DEF env
<1>13. PlaceOK(w.heap, place) /\ LoopOK(w.heap, loop)
  BY <1>3 DEF Made
<1>14. Made(w.heap, [env EXCEPT ![Param] = r], place, cl, loop)
  BY <1>11, <1>13 DEF Made
<1> HIDE DEF r
<1> QED BY <1>3, <1>7, <1>10a, <1>12, <1>14 DEF i, env, r

LEMMA ReturnVarMade ==
  ASSUME Inv, call # None, call.path = <<>>
  PROVE  Made(heap, [loc EXCEPT ![call.root] = loc[Param], ![Param] = Unbound], place, None, loop)
BY ReturnVarGood DEF Inv, Made

LEMMA ReturnSlotMade ==
  ASSUME Inv, call # None, call.path # <<>>,
         NEW g, g = SetItem(heap, call.list, call.path[1], loc[Param])
  PROVE  Made(g, [loc EXCEPT ![Param] = Unbound], place, None, loop)
<1>1. Good(heap, loc, call) /\ HeapOK(heap) /\ PlaceOK(heap, place) /\ LoopOK(heap, loop)
  BY DEF Inv, Good
<1>2. /\ Good(g, [loc EXCEPT ![Param] = Unbound], None)
      /\ IsGrid(heap, call.list) /\ IsGrid(g, call.list)
      /\ DOMAIN g[call.list].data = DOMAIN heap[call.list].data
      /\ \A c \in Addr : c # call.list => g[c] = heap[c]
  <2>1. Returned(heap, loc, call, g)
    BY <1>1, ReturnSlotGood
  <2> QED BY <2>1 DEF Returned
<1>3. Grows(heap, g)
  <2> SUFFICES ASSUME NEW a \in Addr, heap[a] # None
               PROVE  /\ heap[a] \in Row => g[a] \in Row
                      /\ heap[a] \in Grid => g[a] \in Grid
                      /\ Len(heap[a].data) <= Len(g[a].data)
    BY RowFields, GridFields DEF Grows
  <2>1. CASE a = call.list
    <3> DEFINE m == heap[call.list].data
               n == g[call.list].data
    <3>1. DOMAIN m = DOMAIN n
      BY <1>2
    <3>2. /\ DOMAIN m = 1..Len(m) /\ Len(m) \in Nat
          /\ DOMAIN n = 1..Len(n) /\ Len(n) \in Nat
      BY <1>2, DataLength DEF IsGrid
    <3> DEFINE lm == Len(m)
               ln == Len(n)
    <3>3. lm \in Nat /\ ln \in Nat /\ 1..lm = 1..ln
      BY <3>1, <3>2
    <3> HIDE DEF lm, ln
    <3>3a. lm <= ln
      BY <3>3
    <3> HIDE DEF m, n
    <3>4. heap[a] \notin Row /\ g[a] \in Grid
      BY <1>2, <2>1, GridFields DEF IsGrid
    <3> QED BY <2>1, <3>3a, <3>4 DEF m, n, lm, ln
  <2>2. CASE a # call.list
    <3>1. Len(heap[a].data) \in Nat
      BY <1>1, DataLength DEF HeapOK
    <3> QED BY <1>2, <2>2, <3>1
  <2> QED BY <2>1, <2>2
<1>4. PlaceOK(g, place) /\ LoopOK(g, loop)
  BY <1>1, <1>2, <1>3, Carry DEF Good
<1> QED BY <1>2, <1>4 DEF Made

(* for x in g *)
LEMMA LoopBeginMade ==
  ASSUME Inv, NEW g \in Usable(GridVars),
         NEW lp, lp = [list |-> loc[g], len |-> Len(heap[loc[g]].data), next |-> 1]
  PROVE  Made(heap, loc, place, call, lp)
<1>1. IsGrid(heap, loc[g])
  BY DEF Usable, Inv, Good, EnvOK, Is, Vars
<1> DEFINE n == Len(heap[loc[g]].data)
<1>2. n \in Nat /\ loc[g] \in Addr
  BY <1>1, DataLength DEF IsGrid
<1> HIDE DEF n
<1>3. lp \in Loop /\ lp.list = loc[g] /\ lp.len = n /\ lp.next = 1
  BY <1>2 DEF Loop, n
<1>4. 1 \in 1..(n + 1) /\ n <= n
  BY <1>2
<1>5. LoopOK(heap, lp)
  BY <1>1, <1>3, <1>4 DEF LoopOK, n
<1> QED BY <1>5 DEF Made, Inv

LEMMA LoopStepMade ==
  ASSUME Inv, NEW x \in Targets(RowVars), loop # None, loop.next <= loop.len,
         NEW a, a = heap[loop.list].data[loop.next],
         NEW lp, lp = [loop EXCEPT !.next = loop.next + 1]
  PROVE  /\ IsRow(heap, a) /\ loop.next \in DOMAIN heap[loop.list].data
         /\ Good(Mark(heap, a), loc, call) /\ Extends(heap, Mark(heap, a))
         /\ \A b \in Addr : b # a => Mark(heap, a)[b] = heap[b]
         /\ lp # None /\ lp.list = loop.list
         /\ Made(Mark(heap, a), [loc EXCEPT ![x] = a], place, call, lp)
<1> DEFINE h == Mark(heap, a)
<1>1. Good(heap, loc, call) /\ HeapOK(heap) /\ EnvOK(heap, loc) /\ CallOK(heap, loc, call)
  BY DEF Inv, Good
<1>2. /\ loop \in Loop /\ IsGrid(heap, loop.list)
      /\ loop.len <= Len(heap[loop.list].data) /\ loop.next \in 1..(loop.len + 1)
  BY DEF Inv, LoopOK
<1>3. loop.len \in Nat /\ loop.next \in Nat
  BY <1>2 DEF Loop
<1>4. loop.next \in DOMAIN heap[loop.list].data
  <2>1. /\ DOMAIN heap[loop.list].data = 1..Len(heap[loop.list].data)
        /\ Len(heap[loop.list].data) \in Nat
    BY <1>2, DataLength DEF IsGrid
  <2> QED BY <1>2, <1>3, <2>1
<1>5. IsRow(heap, a)
  BY <1>1, <1>2, <1>4 DEF HeapOK, IsGrid
<1>6. call # None /\ call.path # <<>> => a # call.list
  <2> SUFFICES ASSUME call # None, call.path # <<>> PROVE a # call.list
    OBVIOUS
  <2>1. /\ loc[call.root] = call.list /\ call.root \in GridVars /\ call.root \in Vars
        /\ loc[call.root] # Unbound
    BY <1>1 DEF CallOK, Call
  <2>2. heap[call.list] \in Grid
    BY <1>1, <2>1 DEF EnvOK, Is, IsGrid
  <2> QED BY <1>5, <2>2, RowFields DEF IsRow
<1>7. /\ Good(h, loc, call) /\ Extends(heap, h) /\ h[a].shared
      /\ \A b \in Addr : b # a => h[b] = heap[b]
  <2>1. a \in Addr /\ heap[a] # None
    BY <1>5, RowFields DEF IsRow
  <2> HIDE DEF h
  <2> QED BY <1>1, <1>6, <2>1, MarkGood DEF h
<1> HIDE DEF h
<1>8. x \in Vars /\ x \notin GridVars /\ (x = Param => call # None) /\ (call # None => call.root # x)
  BY VarsAssumption DEF Targets, Busy, Vars
<1>9. IsRow(h, a)
  BY <1>5, <1>7 DEF Extends, IsRow
<1>10. Good(h, [loc EXCEPT ![x] = a], call)
  BY <1>7, <1>8, <1>9, BindGood DEF Is, Detached
<1>11. lp \in Loop /\ lp # None /\ lp.list = loop.list /\ lp.len = loop.len /\ lp.next = loop.next + 1
  BY <1>2, <1>3, NoneAssumption DEF Loop
<1>12. PlaceOK(h, place) /\ LoopOK(h, loop)
  BY <1>1, <1>7, ExtendsGrows, Carry DEF Inv, Good
<1>13. LoopOK(h, lp)
  <2>1. loop.next + 1 \in 1..(loop.len + 1)
    BY <1>3, <1>2
  <2> QED BY <1>11, <1>12, <2>1 DEF LoopOK
<1> QED BY <1>4, <1>5, <1>7, <1>10, <1>11, <1>12, <1>13 DEF Made, h

LEMMA LoopEndMade ==
  ASSUME Inv
  PROVE  Made(heap, loc, place, call, None)
BY DEF Inv, Made, LoopOK

-----------------------------------------------------------------------------
(* The invariant, and what it says of every state.                          *)

LEMMA InitInv ==
  ASSUME Init
  PROVE  Inv
<1>1. /\ \A a \in Addr : heap[a] = None
      /\ \A x \in Vars : loc[x] = Unbound
      /\ place = None /\ call = None /\ loop = None
      /\ heap \in [Addr -> {None}] /\ loc \in [Vars -> {Unbound}]
  BY DEF Init
<1>2. HeapOK(heap)
  BY <1>1, GridFields DEF HeapOK
<1>3. EnvOK(heap, loc)
  BY <1>1 DEF EnvOK
<1>4. CallOK(heap, loc, call)
  BY <1>1, VarsAssumption DEF CallOK, Vars
<1>5. Single(heap, loc, call)
  BY <1>1 DEF Single
<1> QED BY <1>1, <1>2, <1>3, <1>4, <1>5 DEF Inv, Good, PlaceOK, LoopOK

LEMMA StepInv ==
  ASSUME NEW h, NEW env, NEW pl, NEW cl, NEW lp, Commit(h, env, pl, cl, lp),
         Made(h, env, pl, cl, lp)
  PROVE  Inv'
BY CommitInv DEF Made

LEMMA NextInv ==
  ASSUME Inv, [Next]_vars
  PROVE  Inv'
<1>1. CASE UNCHANGED vars
  <2>1. heap' = heap /\ loc' = loc /\ place' = place /\ call' = call /\ loop' = loop
    BY <1>1 DEF vars
  <2> QED BY <2>1, Zenon DEF Inv
<1>2. ASSUME NEW x \in Targets(RowVars), Assign(x, RowExprs(heap, loc))
      PROVE  Inv'
  <2>1. PICK e \in RowExprs(heap, loc) :
          Commit(e.heap, [e.loc EXCEPT ![x] = e.at], place, call, loop)
    BY <1>2 DEF Assign
  <2>2. x \in Vars /\ x \notin GridVars /\ ~Busy(x) /\ (x = Param => call # None)
    BY VarsAssumption DEF Targets, Vars
  <2>3. Evaluated(heap, loc, e) /\ Is(e.heap, x, e.at)
    BY <2>2, ReadyNow, RowExprsGood DEF Is
  <2> QED BY <2>1, <2>2, <2>3, AssignMade, StepInv
<1>3. ASSUME NEW g \in Targets(GridVars), Assign(g, GridExprs(heap, loc))
      PROVE  Inv'
  <2>1. PICK e \in GridExprs(heap, loc) :
          Commit(e.heap, [e.loc EXCEPT ![g] = e.at], place, call, loop)
    BY <1>3 DEF Assign
  <2>2. g \in Vars /\ g \in GridVars /\ ~Busy(g) /\ (g = Param => call # None)
    BY DEF Targets, Vars
  <2>3. Evaluated(heap, loc, e) /\ Is(e.heap, g, e.at)
    BY <2>2, ReadyNow, GridExprsGood DEF Is
  <2> QED BY <2>1, <2>2, <2>3, AssignMade, StepInv
<1>4. ASSUME NEW x \in Targets(RowVars), LoopStep(x)
      PROVE  Inv'
  BY <1>4, LoopStepMade, StepInv DEF LoopStep
<1>5. ASSUME NEW g \in Writable(GridVars), PushRow(g)
      PROVE  Inv'
  BY <1>5, PushRowMade, StepInv DEF PushRow
<1>6. ASSUME NEW g \in Usable(GridVars), LoopBegin(g)
      PROVE  Inv'
  BY <1>6, LoopBeginMade, StepInv DEF LoopBegin
<1>7. ASSUME NEW x \in Writable(Vars), NEW path \in RowPlaces(x), CallBegin(x, path)
      PROVE  Inv'
  <2>1. CASE path = <<>>
    BY <1>7, <2>1, CallVarMade, StepInv DEF CallBegin
  <2>2. CASE path # <<>>
    <3> DEFINE w == WalkTo(heap, loc[x], <<>>)
               env == [loc EXCEPT ![x] = w.root, ![Param] = w.heap[w.list].data[path[1]]]
               cl == [root |-> x, path |-> path, list |-> w.list]
    <3>1. call = None /\ WalkRoom /\ Commit(w.heap, env, place, cl, loop)
      BY <1>7, <2>2 DEF CallBegin
    <3>2. Made(w.heap, env, place, cl, loop)
      <4> HIDE DEF w
      <4> QED BY <2>2, <3>1, CallSlotMade DEF w
    <3> HIDE DEF w, env, cl
    <3> QED BY <3>1, <3>2, StepInv
  <2> QED BY <2>1, <2>2
<1>8. ASSUME NEW x \in Writable(Vars), NEW path \in RowPlaces(x), NEW c \in Cell,
             PushCell(x, path, c)
      PROVE  Inv'
  BY <1>8, PushCellMade, StepInv DEF PushCell
<1>9. ASSUME NEW x \in Writable(Vars), NEW p \in Containers(x), NEW i \in 1..(MaxRow + MaxGrid),
             PlaceBegin(x, Append(p, i))
      PROVE  Inv'
  <2>1. Front(Append(p, i)) = p /\ Last(Append(p, i)) = i
    BY AppendFrontLast DEF Writable
  <2> QED BY <1>9, <2>1, PlaceBeginMade, StepInv DEF PlaceBegin
<1>10. ASSUME NEW c \in Cell, PlaceEndCell(c)
       PROVE  Inv'
  BY <1>10, PlaceEndCellMade, StepInv DEF PlaceEndCell
<1>11. CASE PlaceEndRow
  BY <1>11, PlaceEndRowMade, StepInv DEF PlaceEndRow
<1>12. CASE CallEnd
  <2>1. CASE call.path = <<>>
    BY <1>12, <2>1, ReturnVarMade, StepInv DEF CallEnd
  <2>2. CASE call.path # <<>>
    BY <1>12, <2>2, ReturnSlotMade, StepInv DEF CallEnd
  <2> QED BY <2>1, <2>2
<1>13. CASE LoopEnd
  BY <1>13, LoopEndMade, StepInv DEF LoopEnd
<1> QED
  BY <1>1, <1>2, <1>3, <1>4, <1>5, <1>6, <1>7, <1>8, <1>9, <1>10, <1>11, <1>12, <1>13 DEF Next

LEMMA InvTypeOK ==
  ASSUME Inv
  PROVE  TypeOK
<1>1. HeapOK(heap) /\ EnvOK(heap, loc)
  BY DEF Inv, Good
<1>2. \A a \in Addr : heap[a] # None => \A b \in Items(heap, a) : heap[b] \in Row
  <2> SUFFICES ASSUME NEW a \in Addr, heap[a] # None, NEW b \in Items(heap, a)
               PROVE  heap[b] \in Row
    OBVIOUS
  <2>1. heap[a].grid /\ b \in ToSet(heap[a].data)
    BY DEF Items
  <2>2. heap[a] \in Grid
    BY <1>1, <2>1, RowFields DEF HeapOK
  <2> QED BY <1>1, <2>1, <2>2 DEF HeapOK, IsRow, ToSet
<1>3. place # None => heap[place.list] # None
  BY <1>1, HeapCases DEF Inv, PlaceOK, IsRow, IsGrid
<1>4. loop # None => heap[loop.list] \in Grid
  BY DEF Inv, LoopOK, IsGrid
<1> QED BY <1>1, <1>2, <1>3, <1>4 DEF TypeOK, HeapOK, EnvOK, Is, IsRow, IsGrid

(* A set without two elements. *)
LEMMA AtMostOne ==
  ASSUME NEW S, \A s, t \in S : s = t
  PROVE  Cardinality(S) \in {0, 1}
<1>1. CASE S = {}
  BY <1>1, FS_EmptySet
<1>2. CASE S # {}
  <2>1. PICK s \in S : TRUE
    BY <1>2
  <2>2. S = {s}
    BY <2>1
  <2> QED BY <2>2, FS_Singleton
<1> QED BY <1>1, <1>2

LEMMA InvShared ==
  ASSUME Inv
  PROVE  SharedWhenAliased
<1> SUFFICES ASSUME NEW a \in Addr, heap[a] # None, ~heap[a].shared
             PROVE  ~(Cardinality(Paths(a)) > 1)
  BY DEF SharedWhenAliased
<1>1. HeapOK(heap) /\ OneName(heap, loc, call, a)
  BY DEF Inv, Good, Single
<1>2. \A x \in Vars : VarPath(a, x) => VarName(loc, call, a, x)
  BY DEF VarPath, VarName, LentVar
<1>3. \A b \in Addr : \A i : SlotPath(a, b, i) => SlotName(heap, call, a, b, i)
  BY <1>1, RowFields DEF SlotPath, SlotName, LentSlot, HeapOK
<1>4. ASSUME NEW s \in Paths(a)
      PROVE  \/ \E x \in Vars : VarName(loc, call, a, x) /\ s = <<x, 0>>
             \/ \E b \in Addr, i \in 1..MaxGrid : SlotName(heap, call, a, b, i) /\ s = <<b, i>>
  <2>1. CASE s \in {<<x, 0>> : x \in {y \in Vars : VarPath(a, y)}}
    BY <1>2, <2>1
  <2>2. CASE s \in {t \in Addr \X (1..MaxGrid) : SlotPath(a, t[1], t[2])}
    BY <1>3, <2>2
  <2> QED BY <2>1, <2>2 DEF Paths
<1>5. \A s, t \in Paths(a) : s = t
  BY <1>1, <1>4 DEF OneName
<1> DEFINE n == Cardinality(Paths(a))
<1>6. n \in {0, 1}
  <2> HIDE DEF n
  <2> QED BY <1>5, AtMostOne DEF n
<1> HIDE DEF n
<1>7. ~(n > 1)
  BY <1>6
<1> QED BY <1>7 DEF n

(* Variables, slots, the place being assigned and the list a loop runs over *)
(* name lists of their type that have not been collected.                   *)
THEOREM TypeCorrect == Spec => []TypeOK
<1>1. Init => Inv
  BY InitInv
<1>2. Inv /\ [Next]_vars => Inv'
  BY NextInv
<1>3. Inv => TypeOK
  BY InvTypeOK
<1> QED BY <1>1, <1>2, <1>3, PTL DEF Spec

(* A list that two paths read has its `shared` bit set, whatever the        *)
(* program reads, binds, pushes, lends or loops over, and in what order.    *)
THEOREM AliasesAreShared == Spec => []SharedWhenAliased
<1>1. Init => Inv
  BY InitInv
<1>2. Inv /\ [Next]_vars => Inv'
  BY NextInv
<1>3. Inv => SharedWhenAliased
  BY InvShared
<1> QED BY <1>1, <1>2, <1>3, PTL DEF Spec

-----------------------------------------------------------------------------
(* Stores are not seen through another path.  The barrier has made the list *)
(* being written and the one it is in private; here is why they still are   *)
(* when the right side has been evaluated.                                  *)

(* The place an assignment in progress found is the root's still, private,  *)
(* and not what a call or a loop in progress works on.                      *)
PlaceKept(h, env, pl, cl, lp) ==
  pl # None =>
    /\ env[pl.root] # Unbound
    /\ cl # None => cl.root # pl.root
    /\ cl = None => pl.root # Param
    /\ ~h[env[pl.root]].shared /\ ~h[pl.list].shared
    /\ Len(pl.path) = 1 => pl.list = env[pl.root]
    /\ Len(pl.path) = 2 => /\ pl.path[1] \in DOMAIN h[env[pl.root]].data
                           /\ pl.list = h[env[pl.root]].data[pl.path[1]]
    /\ lp # None => lp.list # env[pl.root]

(* The list a loop runs over has no row out on loan. *)
LoopApart(cl, lp) == lp # None /\ cl # None /\ cl.path # <<>> => lp.list # cl.list

(* What another variable names is not on the way to the place. *)
Apart(h, env, pl, a) == a # env[pl.root] /\ a # pl.list

LEMMA LentPath ==
  ASSUME NEW cl, NEW b, NEW i, LentSlot(cl, b, i)
  PROVE  cl # None /\ cl.path # <<>> /\ cl.list = b
<1>1. <<i>> # <<>>
  OBVIOUS
<1> QED BY <1>1 DEF LentSlot

LEMMA PlaceLists ==
  ASSUME NEW h, NEW env, NEW pl, NEW cl, NEW lp, Made(h, env, pl, cl, lp),
         PlaceKept(h, env, pl, cl, lp), pl # None
  PROVE  /\ pl.root \in Vars /\ env[pl.root] \in Addr /\ h[env[pl.root]] # None
         /\ Is(h, pl.root, env[pl.root])
         /\ pl.list \in Addr /\ h[pl.list] # None
         /\ VarName(env, cl, env[pl.root], pl.root)
         /\ OneName(h, env, cl, env[pl.root]) /\ OneName(h, env, cl, pl.list)
         /\ \/ pl.list = env[pl.root]
            \/ \E i : SlotName(h, cl, pl.list, env[pl.root], i)
<1>1. HeapOK(h) /\ EnvOK(h, env) /\ CallOK(h, env, cl) /\ Single(h, env, cl) /\ PlaceOK(h, pl)
  BY DEF Made, Good
<1>2. pl.root \in Vars /\ pl.list \in Addr /\ Len(pl.path) \in 1..2 /\ (pl.root \in RowVars => Len(pl.path) = 1)
  BY <1>1 DEF PlaceOK, Place
<1>3. /\ env[pl.root] \in Addr /\ h[env[pl.root]] # None /\ Is(h, pl.root, env[pl.root])
      /\ h[pl.list] # None
  BY <1>1, <1>2, HeapCases DEF PlaceKept, EnvOK, Is, IsRow, IsGrid, PlaceOK
<1>4. VarName(env, cl, env[pl.root], pl.root)
  BY <1>2 DEF PlaceKept, VarName, LentVar
<1>5. OneName(h, env, cl, env[pl.root]) /\ OneName(h, env, cl, pl.list)
  BY <1>1, <1>2, <1>3 DEF PlaceKept, Single
<1>6. CASE Len(pl.path) = 1
  BY <1>2, <1>3, <1>4, <1>5, <1>6 DEF PlaceKept
<1>7. CASE Len(pl.path) = 2
  <2>1. pl.root \in GridVars
    BY <1>2, <1>7 DEF Vars
  <2>2. h[env[pl.root]] \in Grid
    BY <1>3, <2>1 DEF Is, IsGrid
  <2>3. cl # None /\ cl.path # <<>> => env[pl.root] # cl.list
    BY <1>1, <1>2, NotLent DEF PlaceKept, Good
  <2>4. ~LentSlot(cl, env[pl.root], pl.path[1])
    BY <2>3, LentPath
  <2>5. SlotName(h, cl, pl.list, env[pl.root], pl.path[1])
    BY <1>3, <1>7, <2>2, <2>4 DEF SlotName, PlaceKept
  <2> QED BY <1>2, <1>3, <1>4, <1>5, <2>5
<1> QED BY <1>2, <1>6, <1>7

LEMMA OthersApart ==
  ASSUME NEW h, NEW env, NEW pl, NEW cl, NEW lp, Made(h, env, pl, cl, lp),
         PlaceKept(h, env, pl, cl, lp), pl # None,
         NEW x \in Vars, x # pl.root, env[x] # Unbound, cl # None => cl.root # x
  PROVE  /\ Apart(h, env, pl, env[x])
         /\ x \in GridVars => \A i \in DOMAIN h[env[x]].data : Apart(h, env, pl, h[env[x]].data[i])
<1> DEFINE r == pl.root
<1>1. HeapOK(h) /\ EnvOK(h, env) /\ Good(h, env, cl)
  BY DEF Made, Good
<1>2. /\ VarName(env, cl, env[r], r)
      /\ OneName(h, env, cl, env[r]) /\ OneName(h, env, cl, pl.list)
      /\ pl.list = env[r] \/ \E i : SlotName(h, cl, pl.list, env[r], i)
  BY PlaceLists
<1> HIDE DEF r
<1>3. VarName(env, cl, env[x], x)
  BY DEF VarName, LentVar
<1>4. env[x] # env[r]
  BY <1>2, <1>3 DEF OneName, r
<1>5. env[x] # pl.list
  BY <1>2, <1>3, <1>4 DEF OneName
<1>6. ASSUME x \in GridVars, NEW i \in DOMAIN h[env[x]].data
      PROVE  h[env[x]].data[i] # env[r] /\ h[env[x]].data[i] # pl.list
  <2>1. env[x] \in Addr /\ h[env[x]] \in Grid
    BY <1>1, <1>6 DEF EnvOK, Is, IsGrid
  <2>2. ~LentSlot(cl, env[x], i)
    <3>1. cl # None /\ cl.path # <<>> => env[x] # cl.list
      BY <1>1, NotLent
    <3> QED BY <3>1, LentPath
  <2>3. SlotName(h, cl, h[env[x]].data[i], env[x], i)
    BY <2>1, <2>2 DEF SlotName
  <2>4. h[env[x]].data[i] # env[r]
    BY <1>2, <2>3 DEF OneName
  <2>5. h[env[x]].data[i] # pl.list
    BY <1>2, <1>4, <2>3, <2>4 DEF OneName
  <2> QED BY <2>4, <2>5
<1> QED BY <1>4, <1>5, <1>6 DEF Apart, r

(* What keeps the place: its root stays bound where it is, the list there   *)
(* is as it was, the leaf is not marked.                                    *)
LEMMA FrameKept ==
  ASSUME NEW h, NEW env, NEW pl, NEW cl, NEW lp, PlaceKept(h, env, pl, cl, lp),
         NEW h1, NEW env1, NEW cl1, NEW lp1,
         pl # None => /\ env1[pl.root] = env[pl.root]
                      /\ h1[env[pl.root]] = h[env[pl.root]]
                      /\ h1[pl.list].shared = h[pl.list].shared
                      /\ cl1 # None => cl1.root # pl.root
                      /\ cl1 = None => pl.root # Param
                      /\ lp1 # None => lp1.list # env[pl.root]
  PROVE  PlaceKept(h1, env1, pl, cl1, lp1)
BY DEF PlaceKept

(* The right side may name the root only to read a row of the grid that the *)
(* row is stored in.                                                        *)
LEMMA EvalKept ==
  ASSUME ~RhsTouchesRoot,
         NEW h, NEW env, Made(h, env, place, call, loop), PlaceKept(h, env, place, call, loop),
         NEW e, Evaluated(h, env, e), RowFrom(h, env, e) \/ GridFrom(h, env, e)
  PROVE  PlaceKept(e.heap, e.loc, place, call, loop)
<1> SUFFICES ASSUME place # None
             PROVE  PlaceKept(e.heap, e.loc, place, call, loop)
  BY DEF PlaceKept
<1> DEFINE r == place.root
           a == env[r]
<1>1. /\ r \in Vars /\ a \in Addr /\ h[a] # None /\ Is(h, r, a)
      /\ place.list \in Addr /\ h[place.list] # None
  BY PlaceLists
<1>2. HeapOK(h) /\ EnvOK(h, env)
  BY DEF Made, Good
<1> HIDE DEF r, a
<1>3. \A x : ~Busy(x) => x # r /\ (call # None => call.root # x)
  BY DEF Busy, r
<1>4. e.loc[r] = env[r] /\ e.at # a /\ e.at # place.list
  <2>1. CASE IsNew(h, env, e)
    BY <1>1, <2>1 DEF IsNew
  <2>2. ASSUME NEW x \in Vars, IsVar(env, e, x)
        PROVE  e.loc[r] = env[r] /\ e.at # a /\ e.at # place.list
    <3>1. x # r /\ env[x] # Unbound /\ e.at = env[x] /\ (call # None => call.root # x)
      BY <1>3, <2>2 DEF IsVar
    <3>2. Apart(h, env, place, env[x])
      BY <3>1, OthersApart DEF r
    <3>3. e.loc = env \/ e.loc = [env EXCEPT ![x] = Unbound]
      BY <2>2 DEF IsVar
    <3>4. e.loc[r] = env[r]
      BY <1>1, <1>2, <3>1, <3>3 DEF EnvOK
    <3> QED BY <3>1, <3>2, <3>4 DEF Apart, a, r
  <2>3. ASSUME NEW g \in Readable(GridVars), NEW i \in DOMAIN h[env[g]].data, IsElem(h, env, e, g, i)
        PROVE  e.loc[r] = env[r] /\ e.at # a /\ e.at # place.list
    <3>1. g \in GridVars /\ g \in Vars /\ env[g] # Unbound /\ e.at = h[env[g]].data[i] /\ e.loc = env
      BY <2>3 DEF Readable, Usable, IsElem, Vars
    <3>2. CASE ~Busy(g)
      <4>1. g # r /\ (call # None => call.root # g)
        BY <1>3, <3>2
      <4>2. Apart(h, env, place, e.at)
        BY <3>1, <4>1, OthersApart DEF r
      <4> QED BY <3>1, <4>2 DEF Apart, a, r
    <3>3. CASE g = r /\ Len(place.path) = 1
      <4>1. h[a] \in Grid
        BY <1>1, <3>1, <3>3 DEF Is, IsGrid
      <4>2. h[e.at] \in Row
        BY <1>1, <1>2, <3>1, <3>3, <4>1 DEF HeapOK, IsRow, a
      <4>3. place.list = a
        BY <3>3 DEF PlaceKept, a, r
      <4> QED BY <3>1, <4>1, <4>2, <4>3, RowFields
    <3>4. ~Busy(g) \/ (g = r /\ Len(place.path) = 1)
      BY DEF Readable, Usable, r
    <3> QED BY <3>2, <3>3, <3>4
  <2> QED BY <2>1, <2>2, <2>3 DEF RowFrom, GridFrom, Vars
<1>5. \A b \in Addr : h[b] # None /\ b # e.at => e.heap[b] = h[b]
  BY DEF Evaluated
<1>6. e.heap[a] = h[a] /\ e.heap[place.list] = h[place.list]
  BY <1>1, <1>4, <1>5
<1> QED BY <1>4, <1>6 DEF PlaceKept, a, r

(* The barrier, asked for another variable, stays away from the place; and  *)
(* the list it answers is another one.                                      *)
LEMMA WalkKept ==
  ASSUME Inv, PlaceKept(heap, loc, place, call, loop), NEW x, NEW path,
         Reachable(heap, loc, call, x, path), place # None => x # place.root,
         NEW w, Walked(heap, loc, call, x, path, w),
         NEW env, env = [loc EXCEPT ![x] = w.root], Made(w.heap, env, place, call, loop)
  PROVE  /\ PlaceKept(w.heap, env, place, call, loop)
         /\ place # None => Apart(w.heap, env, place, w.list)
<1> SUFFICES ASSUME place # None
             PROVE  /\ PlaceKept(w.heap, env, place, call, loop)
                    /\ Apart(w.heap, env, place, w.list)
  BY DEF PlaceKept
<1> DEFINE r == place.root
<1>1. Made(heap, loc, place, call, loop) /\ EnvOK(heap, loc)
  BY DEF Inv, Made, Good
<1>2. /\ r \in Vars /\ loc[r] \in Addr /\ heap[loc[r]] # None
      /\ place.list \in Addr /\ heap[place.list] # None
  BY <1>1, PlaceLists
<1> HIDE DEF r
<1>3. x \in Vars /\ x # r /\ loc[x] # Unbound /\ (call # None => call.root # x)
  BY DEF Reachable, r
<1>4. Apart(heap, loc, place, loc[x])
  BY <1>1, <1>3, OthersApart DEF r
<1>5. w.heap[loc[r]] = heap[loc[r]] /\ w.heap[place.list] = heap[place.list]
  BY <1>2, <1>4 DEF Walked, Apart, r
<1>6. env[r] = loc[r] /\ env[x] = w.root
  BY <1>1, <1>2, <1>3 DEF EnvOK
<1>7. PlaceKept(w.heap, env, place, call, loop)
  BY <1>5, <1>6 DEF PlaceKept, r
<1>8. w.root # Unbound
  BY UnboundAssumption DEF Walked, Is, IsRow, IsGrid
<1>9. /\ Apart(w.heap, env, place, w.root)
      /\ x \in GridVars => \A i \in DOMAIN w.heap[w.root].data :
                             Apart(w.heap, env, place, w.heap[w.root].data[i])
  <2>1. env[x] # Unbound
    BY <1>6, <1>8
  <2>2. /\ Apart(w.heap, env, place, env[x])
        /\ x \in GridVars => \A i \in DOMAIN w.heap[env[x]].data :
                               Apart(w.heap, env, place, w.heap[env[x]].data[i])
    BY <1>3, <1>7, <2>1, OthersApart DEF r
  <2> QED BY <1>6, <2>2, Zenon
<1>10. Apart(w.heap, env, place, w.list)
  <2>1. CASE path = <<>>
    BY <1>9, <2>1 DEF Walked
  <2>2. CASE path # <<>>
    BY <1>9, <2>2 DEF Walked, Reachable
  <2> QED BY <2>1, <2>2
<1> QED BY <1>7, <1>10

LEMMA StoreKept ==
  ASSUME NEW h, NEW env, Made(h, env, place, call, loop), PlaceKept(h, env, place, call, loop),
         NEW b \in Addr, h[b] # None, place # None => b # env[place.root], NEW d
  PROVE  PlaceKept(Store(h, b, d), env, place, call, loop)
<1> SUFFICES ASSUME place # None
             PROVE  PlaceKept(Store(h, b, d), env, place, call, loop)
  BY DEF PlaceKept
<1>1. DOMAIN h = Addr /\ h[b] \in Row \cup Grid
  BY DEF Made, Good, HeapOK
<1>2. env[place.root] \in Addr /\ place.list \in Addr
  BY PlaceLists
<1> DEFINE o == [h[b] EXCEPT !.data = d]
           g == Store(h, b, d)
<1>3. o.shared = h[b].shared
  BY <1>1 DEF Row, Grid
<1>4. g[b] = o /\ \A c \in Addr : c # b => g[c] = h[c]
  BY <1>1, PutValue DEF Store
<1> HIDE DEF g, o
<1>5. g[env[place.root]] = h[env[place.root]] /\ g[place.list].shared = h[place.list].shared
  BY <1>2, <1>3, <1>4
<1>6. PlaceKept(g, env, place, call, loop)
  BY <1>5, FrameKept DEF PlaceKept
<1> QED BY <1>6 DEF g

LEMMA BindKept ==
  ASSUME NEW h, NEW env, Made(h, env, place, call, loop), PlaceKept(h, env, place, call, loop),
         NEW x, place # None => x # place.root, NEW a
  PROVE  PlaceKept(h, [env EXCEPT ![x] = a], place, call, loop)
<1> SUFFICES ASSUME place # None
             PROVE  PlaceKept(h, [env EXCEPT ![x] = a], place, call, loop)
  BY DEF PlaceKept
<1>1. place.root \in Vars /\ DOMAIN env = Vars
  BY PlaceLists DEF Made, Good, EnvOK
<1> DEFINE new == [env EXCEPT ![x] = a]
<1>2. new[place.root] = env[place.root]
  BY <1>1
<1> HIDE DEF new
<1>3. PlaceKept(h, new, place, call, loop)
  BY <1>2, FrameKept DEF PlaceKept
<1> QED BY <1>3 DEF new

LEMMA CommitKept ==
  ASSUME NEW h, NEW env, NEW pl, NEW cl, NEW lp, Commit(h, env, pl, cl, lp),
         Made(h, env, pl, cl, lp), PlaceKept(h, env, pl, cl, lp)
  PROVE  PlaceKept(heap, loc, place, call, loop)'
<1>1. loc' = env /\ place' = pl /\ call' = cl /\ loop' = lp
  BY DEF Commit
<1>2. Kept(h, heap', InUse(env, pl, cl, lp))
  BY CommitInv DEF Made
<1>3. PlaceKept(heap', env, pl, cl, lp)
  <2>1. CASE pl = None
    BY <2>1 DEF PlaceKept
  <2>2. CASE pl # None
    <3>1. /\ pl.root \in Vars /\ env[pl.root] \in Addr /\ pl.list \in Addr
      BY <2>2, PlaceLists
    <3>2. env[pl.root] # Unbound
      BY <2>2 DEF PlaceKept
    <3>3. env[pl.root] \in InUse(env, pl, cl, lp) /\ pl.list \in InUse(env, pl, cl, lp)
      BY <2>2, <3>1, <3>2 DEF InUse
    <3>4. heap'[env[pl.root]] = h[env[pl.root]] /\ heap'[pl.list] = h[pl.list]
      BY <1>2, <3>1, <3>3 DEF Kept
    <3> QED BY <2>2, <3>4 DEF PlaceKept
  <2> QED BY <2>1, <2>2
<1> QED BY <1>1, <1>3, Zenon

(* A list only one path of one variable reads.                              *)
Sole(a) ==
  /\ heap[a] # None /\ ~heap[a].shared
  /\ \A b, i : SlotName(heap, call, a, b, i) => ~heap[b].shared

(* A heap in which no other list has new items. *)
Stores(h) ==
  \A a \in Addr : heap[a] # None /\ h[a] # None /\ h[a].data # heap[a].data => Sole(a)

LEMMA SoleReaders ==
  ASSUME Inv, NEW a \in Addr, Sole(a)
  PROVE  Cardinality(Readers(a)) <= 1
<1>1. /\ Good(heap, loc, call) /\ EnvOK(heap, loc) /\ CallOK(heap, loc, call)
      /\ Single(heap, loc, call) /\ OneName(heap, loc, call, a)
  BY DEF Inv, Good, Single, Sole
<1>2. \A x \in Vars : Reads(x, 0, a) => VarName(loc, call, a, x)
  BY DEF Reads, VarName, LentVar
<1>3. ASSUME NEW x \in Vars, NEW i \in 0..MaxGrid, i # 0, Reads(x, i, a)
      PROVE  /\ SlotName(heap, call, a, loc[x], i) /\ loc[x] \in Addr
             /\ VarName(loc, call, loc[x], x) /\ heap[loc[x]] # None
  <2>1. /\ x \in GridVars /\ loc[x] # Unbound /\ i \in DOMAIN heap[loc[x]].data
        /\ heap[loc[x]].data[i] = a /\ ~(call # None /\ call.root = x /\ call.path = <<i>>)
    BY <1>3 DEF Reads
  <2>2. loc[x] \in Addr /\ heap[loc[x]] \in Grid /\ heap[loc[x]] # None
    BY <1>1, <2>1, GridFields DEF EnvOK, Is, IsGrid
  <2>3. ~LentSlot(call, loc[x], i)
    <3> SUFFICES ASSUME LentSlot(call, loc[x], i) PROVE FALSE
      OBVIOUS
    <3>1. call # None /\ call.path # <<>> /\ call.list = loc[x] /\ call.path = <<i>>
      BY LentPath DEF LentSlot
    <3>2. call.root = x
      BY <1>1, <2>1, <3>1, NotLent
    <3> QED BY <2>1, <3>1, <3>2
  <2>4. ~LentVar(call, x)
    BY <1>1, <2>1, VarsAssumption DEF LentVar, CallOK
  <2> QED BY <2>1, <2>2, <2>3, <2>4 DEF SlotName, VarName
<1>4. ASSUME NEW s \in Readers(a), NEW t \in Readers(a)
      PROVE  s = t
  <2>1. /\ s \in Vars \X (0..MaxGrid) /\ Reads(s[1], s[2], a)
        /\ t \in Vars \X (0..MaxGrid) /\ Reads(t[1], t[2], a)
    BY DEF Readers
  <2> DEFINE x == s[1]
             i == s[2]
             y == t[1]
             j == t[2]
  <2>2. /\ x \in Vars /\ y \in Vars /\ i \in 0..MaxGrid /\ j \in 0..MaxGrid
        /\ s = <<x, i>> /\ t = <<y, j>> /\ Reads(x, i, a) /\ Reads(y, j, a)
    BY <2>1
  <2> HIDE DEF x, y, i, j
  <2>3. x = y /\ i = j
    <3>1. CASE i = 0 /\ j = 0
      BY <1>1, <1>2, <2>2, <3>1 DEF OneName
    <3>2. CASE i = 0 /\ j # 0
      BY <1>1, <1>2, <1>3, <2>2, <3>2 DEF OneName
    <3>3. CASE i # 0 /\ j = 0
      BY <1>1, <1>2, <1>3, <2>2, <3>3 DEF OneName
    <3>4. CASE i # 0 /\ j # 0
      <4>1. /\ SlotName(heap, call, a, loc[x], i) /\ VarName(loc, call, loc[x], x)
            /\ SlotName(heap, call, a, loc[y], j) /\ VarName(loc, call, loc[y], y)
            /\ loc[x] \in Addr /\ heap[loc[x]] # None
        BY <1>3, <2>2, <3>4
      <4>2. loc[x] = loc[y] /\ i = j
        BY <1>1, <4>1 DEF OneName
      <4>3. ~heap[loc[x]].shared
        BY <4>1 DEF Sole
      <4>4. OneName(heap, loc, call, loc[x])
        BY <1>1, <4>1, <4>3 DEF Single
      <4> QED BY <4>1, <4>2, <4>4 DEF OneName
    <3> QED BY <3>1, <3>2, <3>3, <3>4
  <2> QED BY <2>2, <2>3
<1> DEFINE n == Cardinality(Readers(a))
<1>5. n \in {0, 1}
  <2> HIDE DEF n
  <2> QED BY <1>4, AtMostOne DEF n
<1> HIDE DEF n
<1>6. n <= 1
  BY <1>5
<1> QED BY <1>6 DEF n

LEMMA SoleVar ==
  ASSUME Inv, NEW a \in Addr, heap[a] # None, ~heap[a].shared, NEW x, VarName(loc, call, a, x)
  PROVE  Sole(a)
BY DEF Inv, Good, Single, OneName, Sole

LEMMA SoleSlot ==
  ASSUME Inv, NEW a \in Addr, heap[a] # None, ~heap[a].shared,
         NEW b, NEW i, SlotName(heap, call, a, b, i), ~heap[b].shared
  PROVE  Sole(a)
BY DEF Inv, Good, Single, OneName, Sole

LEMMA PlaceSole ==
  ASSUME Inv, PlaceKept(heap, loc, place, call, loop), place # None
  PROVE  Sole(place.list)
<1>1. Made(heap, loc, place, call, loop)
  BY DEF Inv, Made
<1>2. /\ place.list \in Addr /\ heap[place.list] # None
      /\ VarName(loc, call, loc[place.root], place.root)
      /\ \/ place.list = loc[place.root]
         \/ \E i : SlotName(heap, call, place.list, loc[place.root], i)
  BY <1>1, PlaceLists
<1>3. ~heap[loc[place.root]].shared /\ ~heap[place.list].shared
  BY DEF PlaceKept
<1> QED BY <1>2, <1>3, SoleVar, SoleSlot

(* What the barrier rewrites and what it answers.                           *)
LEMMA WalkStores ==
  ASSUME Inv, NEW x, NEW path, Reachable(heap, loc, call, x, path),
         NEW w, Walked(heap, loc, call, x, path, w)
  PROVE  Stores(w.heap) /\ (heap[w.list] # None => Sole(w.list))
<1>1. Good(heap, loc, call) /\ EnvOK(heap, loc) /\ HeapOK(heap)
  BY DEF Inv, Good
<1>2. x \in Vars /\ loc[x] # Unbound /\ (call # None => call.root # x)
  BY DEF Reachable
<1>3. VarName(loc, call, loc[x], x) /\ loc[x] \in Addr /\ heap[loc[x]] # None
  BY <1>1, <1>2, HeapCases DEF VarName, LentVar, EnvOK, Is, IsRow, IsGrid
<1>4. Stores(w.heap)
  <2> SUFFICES ASSUME NEW a \in Addr, heap[a] # None, w.heap[a].data # heap[a].data
               PROVE  Sole(a)
    BY DEF Stores
  <2>1. a = loc[x] /\ ~heap[a].shared
    BY DEF Walked
  <2> QED BY <1>3, <2>1, SoleVar
<1>5. ASSUME heap[w.list] # None
      PROVE  Sole(w.list)
  <2>1. /\ w.heap = heap /\ w.root = loc[x] /\ w.list \in Addr
        /\ ~heap[loc[x]].shared /\ ~heap[w.list].shared
    BY <1>5 DEF Walked
  <2>2. CASE path = <<>>
    <3>1. w.list = loc[x]
      BY <2>1, <2>2 DEF Walked
    <3> QED BY <1>3, <2>1, <3>1, SoleVar
  <2>3. CASE path # <<>>
    <3>1. /\ x \in GridVars /\ path[1] \in DOMAIN heap[loc[x]].data
          /\ w.list = heap[loc[x]].data[path[1]]
      BY <2>1, <2>3 DEF Walked, Reachable
    <3>2. heap[loc[x]] \in Grid
      BY <1>1, <1>2, <3>1 DEF EnvOK, Is, IsGrid
    <3>3. call # None /\ call.path # <<>> => loc[x] # call.list
      BY <1>1, <1>2, NotLent
    <3>4. SlotName(heap, call, w.list, loc[x], path[1])
      BY <1>3, <3>1, <3>2, <3>3, LentPath DEF SlotName
    <3> QED BY <1>5, <2>1, <3>4, SoleSlot
  <2> QED BY <2>2, <2>3
<1> QED BY <1>4, <1>5

LEMMA StoreStores ==
  ASSUME NEW h, DOMAIN h = Addr, Stores(h), NEW b \in Addr, heap[b] # None => Sole(b), NEW d
  PROVE  Stores(Store(h, b, d))
<1>1. \A c \in Addr : c # b => Store(h, b, d)[c] = h[c]
  BY PutValue DEF Store
<1> QED BY <1>1 DEF Stores

LEMMA ExtendStores ==
  ASSUME NEW h, NEW g, Stores(h), Extends(h, g), \A a \in Addr : heap[a] # None => h[a] # None
  PROVE  Stores(g)
BY DEF Stores, Extends

LEMMA SameStores ==
  ASSUME NEW h, Extends(heap, h)
  PROVE  Stores(h)
BY DEF Stores, Extends

(* The invariant under which stores are private, and a step that keeps it.  *)
PrivateInv == Inv /\ PlaceKept(heap, loc, place, call, loop) /\ LoopApart(call, loop)

StoresSole ==
  \A a \in Addr : heap[a] # None /\ heap'[a] # None /\ heap'[a].data # heap[a].data
    => Cardinality(Readers(a)) <= 1

LEMMA StepPrivate ==
  ASSUME Inv, NEW h, NEW env, NEW pl, NEW cl, NEW lp, Commit(h, env, pl, cl, lp),
         Made(h, env, pl, cl, lp), PlaceKept(h, env, pl, cl, lp), LoopApart(cl, lp), Stores(h)
  PROVE  PrivateInv' /\ StoresSole
<1>1. Inv' /\ Kept(h, heap', InUse(env, pl, cl, lp))
  BY CommitInv DEF Made
<1>2. PlaceKept(heap, loc, place, call, loop)'
  BY CommitKept
<1>3. LoopApart(call, loop)'
  BY DEF Commit, LoopApart
<1>4. StoresSole
  <2>1. \A a \in Addr : heap'[a] = h[a] \/ heap'[a] = None
    BY <1>1 DEF Kept
  <2> QED BY <2>1, SoleReaders DEF StoresSole, Stores
<1> QED BY <1>1, <1>2, <1>3, <1>4 DEF PrivateInv

LEMMA AssignPrivate ==
  ASSUME PrivateInv, ~RhsTouchesRoot, NEW x \in Vars, ~Busy(x), x = Param => call # None,
         NEW e, Evaluated(heap, loc, e), Is(e.heap, x, e.at),
         RowFrom(heap, loc, e) \/ GridFrom(heap, loc, e),
         Commit(e.heap, [e.loc EXCEPT ![x] = e.at], place, call, loop)
  PROVE  PrivateInv' /\ StoresSole
<1>1. Inv /\ PlaceKept(heap, loc, place, call, loop) /\ LoopApart(call, loop)
      /\ Made(heap, loc, place, call, loop)
  BY DEF PrivateInv, Inv, Made
<1>2. Made(e.heap, e.loc, place, call, loop)
  BY <1>1, EvaluatedMade
<1>3. PlaceKept(e.heap, e.loc, place, call, loop)
  BY <1>1, EvalKept
<1>4. place # None => x # place.root
  BY DEF Busy
<1>5. PlaceKept(e.heap, [e.loc EXCEPT ![x] = e.at], place, call, loop)
  BY <1>2, <1>3, <1>4, BindKept
<1>6. Made(e.heap, [e.loc EXCEPT ![x] = e.at], place, call, loop)
  BY <1>1, AssignMade
<1>7. Stores(e.heap)
  BY SameStores DEF Evaluated
<1> QED BY <1>1, <1>5, <1>6, <1>7, StepPrivate

LEMMA UsableApart ==
  ASSUME PrivateInv, ~RhsTouchesRoot, NEW S, NEW x \in Usable(S)
  PROVE  /\ loc[x] # Unbound /\ (place # None => x # place.root) /\ (call # None => call.root # x)
BY DEF Usable, Busy

LEMMA PushCellPrivate ==
  ASSUME PrivateInv, ~RhsTouchesRoot, NEW x \in Writable(Vars), NEW path \in RowPlaces(x),
         NEW c \in Cell, PushCell(x, path, c)
  PROVE  PrivateInv' /\ StoresSole
<1>1. Inv /\ PlaceKept(heap, loc, place, call, loop) /\ LoopApart(call, loop)
  BY DEF PrivateInv
<1> DEFINE w == WalkTo(heap, loc[x], path)
           env == [loc EXCEPT ![x] = w.root]
           d == Append(w.heap[w.list].data, c)
<1>2. WalkRoom /\ Commit(Store(w.heap, w.list, d), env, place, call, loop)
  BY DEF PushCell
<1> HIDE DEF w
<1>3. x \in Usable(Vars) /\ path \in Containers(x)
  BY DEF Writable, RowPlaces
<1>4. Reachable(heap, loc, call, x, path)
  BY <1>1, <1>3, ReachableNow
<1>5. /\ Walked(heap, loc, call, x, path, w) /\ IsRow(w.heap, w.list)
      /\ Made(Store(w.heap, w.list, d), env, place, call, loop)
  BY <1>1, <1>2, PushCellMade DEF w
<1>6. Made(w.heap, env, place, call, loop)
  BY <1>1, <1>2, <1>4, WalkMade DEF w
<1> HIDE DEF env, d
<1>7. /\ PlaceKept(w.heap, env, place, call, loop)
      /\ place # None => Apart(w.heap, env, place, w.list)
  BY <1>1, <1>3, <1>4, <1>5, <1>6, UsableApart, WalkKept DEF env
<1>8. w.list \in Addr /\ w.heap[w.list] # None /\ DOMAIN w.heap = Addr
  BY <1>5, <1>6, RowFields DEF IsRow, Made, Good, HeapOK
<1>9. PlaceKept(Store(w.heap, w.list, d), env, place, call, loop)
  BY <1>6, <1>7, <1>8, StoreKept DEF Apart
<1>10. Stores(Store(w.heap, w.list, d))
  BY <1>1, <1>4, <1>5, <1>8, WalkStores, StoreStores
<1> QED BY <1>1, <1>2, <1>5, <1>9, <1>10, StepPrivate

LEMMA PushRowPrivate ==
  ASSUME PrivateInv, ~RhsTouchesRoot, NEW g \in Writable(GridVars), PushRow(g)
  PROVE  PrivateInv' /\ StoresSole
<1>1. Inv /\ PlaceKept(heap, loc, place, call, loop) /\ LoopApart(call, loop)
  BY DEF PrivateInv
<1> DEFINE w == WalkTo(heap, loc[g], <<>>)
           env == [loc EXCEPT ![g] = w.root]
<1>2. /\ WalkRoom /\ Len(w.heap[w.list].data) < MaxGrid
      /\ \E e \in RowExprs(w.heap, env) :
           Commit(Store(e.heap, w.list, Append(e.heap[w.list].data, e.at)), e.loc, place, call, loop)
  BY DEF PushRow
<1>3. PICK e \in RowExprs(w.heap, env) :
        Commit(Store(e.heap, w.list, Append(e.heap[w.list].data, e.at)), e.loc, place, call, loop)
  BY <1>2
<1> DEFINE d == Append(e.heap[w.list].data, e.at)
<1>4. /\ Walked(heap, loc, call, g, <<>>, w)
      /\ Made(w.heap, env, place, call, loop)
      /\ Evaluated(w.heap, env, e) /\ RowFrom(w.heap, env, e)
      /\ IsGrid(e.heap, w.list)
      /\ Made(Store(e.heap, w.list, d), e.loc, place, call, loop)
  <2> HIDE DEF w
  <2> QED BY <1>1, <1>2, <1>3, PushRowMade DEF w
<1> HIDE DEF w, d
<1>5. g \in Usable(Vars) /\ <<>> \in Containers(g)
  BY DEF Writable, Usable, Containers, Vars
<1>6. Reachable(heap, loc, call, g, <<>>)
  BY <1>1, <1>5, ReachableNow
<1>7. /\ PlaceKept(w.heap, env, place, call, loop)
      /\ place # None => Apart(w.heap, env, place, w.list)
  BY <1>1, <1>4, <1>5, <1>6, UsableApart, WalkKept
<1> HIDE DEF env
<1>8. PlaceKept(e.heap, e.loc, place, call, loop) /\ Made(e.heap, e.loc, place, call, loop)
  BY <1>4, <1>7, EvalKept, EvaluatedMade
<1>9. w.list \in Addr /\ e.heap[w.list] # None /\ DOMAIN e.heap = Addr
  BY <1>4, <1>8, GridFields DEF IsGrid, Made, Good, HeapOK
<1>10. place # None => w.list # e.loc[place.root]
  <2> SUFFICES ASSUME place # None PROVE w.list # e.loc[place.root]
    OBVIOUS
  <2>1. \A x : ~Busy(x) => x # place.root
    BY DEF Busy
  <2>2. place.root \in Vars /\ DOMAIN env = Vars
    BY <1>4, <1>7, PlaceLists DEF Made, Good, EnvOK
  <2>3. e.loc = env \/ \E x : x # place.root /\ e.loc = [env EXCEPT ![x] = Unbound]
    BY <1>4, <2>1 DEF RowFrom, IsNew, IsVar, IsElem
  <2>4. e.loc[place.root] = env[place.root]
    BY <2>2, <2>3
  <2> QED BY <1>7, <2>4 DEF Apart
<1>11. PlaceKept(Store(e.heap, w.list, d), e.loc, place, call, loop)
  BY <1>8, <1>9, <1>10, StoreKept
<1>12. Stores(e.heap)
  <2>1. \A a \in Addr : heap[a] # None => w.heap[a] # None
    BY <1>4, GridFields DEF Walked
  <2> QED BY <1>1, <1>4, <1>6, <2>1, WalkStores, ExtendStores DEF Evaluated
<1>13. Stores(Store(e.heap, w.list, d))
  BY <1>1, <1>4, <1>6, <1>9, <1>12, WalkStores, StoreStores
<1> QED BY <1>1, <1>3, <1>4, <1>11, <1>13, StepPrivate DEF d

(* A loop in progress runs over another list than the one made private.     *)
LEMMA LoopElsewhere ==
  ASSUME Inv, ~BodyWritesIterable, NEW S, NEW x \in Writable(S), NEW path, NEW w,
         Walked(heap, loc, call, x, path, w), loop # None
  PROVE  loop.list # w.root
<1>1. heap[loop.list] # None
  BY GridFields DEF Inv, LoopOK, IsGrid
<1>2. loop.list # loc[x] \/ heap[loc[x]].shared
  BY DEF Writable, Iterated
<1>3. w.root # loc[x] => w.root # loop.list
  BY <1>1 DEF Walked
<1>4. w.root = loc[x] /\ w.root = loop.list => ~heap[loc[x]].shared
  BY <1>1 DEF Walked, Inv, LoopOK, IsGrid
<1> QED BY <1>2, <1>3, <1>4

LEMMA PlaceBeginPrivate ==
  ASSUME PrivateInv, ~RhsTouchesRoot, ~BodyWritesIterable,
         NEW x \in Writable(Vars), NEW p \in Containers(x), NEW i \in 1..(MaxRow + MaxGrid),
         PlaceBegin(x, Append(p, i))
  PROVE  PrivateInv' /\ StoresSole
<1>1. Inv /\ PlaceKept(heap, loc, place, call, loop) /\ LoopApart(call, loop)
  BY DEF PrivateInv
<1> DEFINE w == WalkTo(heap, loc[x], p)
           env == [loc EXCEPT ![x] = w.root]
           pl == [root |-> x, path |-> Append(p, i), list |-> w.list]
<1>2. Front(Append(p, i)) = p /\ Last(Append(p, i)) = i
  BY <1>1, AppendFrontLast DEF Writable
<1>3. WalkRoom /\ i \in DOMAIN w.heap[w.list].data /\ Commit(w.heap, env, pl, call, loop)
  BY <1>2 DEF PlaceBegin
<1>4. x \in Usable(Vars) /\ x \in Vars
  BY DEF Writable, Usable
<1>5. Reachable(heap, loc, call, x, p)
  BY <1>1, <1>4, ReachableNow
<1>6. Walked(heap, loc, call, x, p, w) /\ Made(w.heap, env, pl, call, loop)
  <2> HIDE DEF w
  <2> QED BY <1>1, <1>3, PlaceBeginMade DEF w
<1> HIDE DEF w
<1>7. env[x] = w.root /\ w.root # Unbound
  BY <1>1, <1>4, <1>6, UnboundAssumption DEF Inv, Good, EnvOK, Walked, Is, IsRow, IsGrid
<1>8. /\ Len(Append(p, i)) = 1 => p = <<>>
      /\ Len(Append(p, i)) = 2 => p # <<>> /\ Append(p, i)[1] = p[1]
  <2>1. p = <<>> \/ \E j : p = <<j>>
    BY DEF Containers
  <2>2. CASE p = <<>>
    BY <2>2
  <2>3. ASSUME NEW j, p = <<j>>
        PROVE  Len(Append(p, i)) = 2 /\ p # <<>> /\ Append(p, i)[1] = p[1]
    <3>1. <<j>> \in Seq({j, i}) /\ Len(<<j>>) = 1 /\ <<j>>[1] = j
      OBVIOUS
    <3> DEFINE t == Append(<<j>>, i)
    <3>2. Len(t) = 2 /\ t[1] = j
      BY <3>1, AppendProperties
    <3> QED BY <2>3, <3>1, <3>2
  <2> QED BY <2>1, <2>2, <2>3
<1>9. pl.root = x /\ pl.path = Append(p, i) /\ pl.list = w.list
  OBVIOUS
<1> HIDE DEF pl, env
<1>10. loop # None => loop.list # w.root
  BY <1>1, <1>6, LoopElsewhere
<1>11. PlaceKept(w.heap, env, pl, call, loop)
  BY <1>5, <1>6, <1>7, <1>8, <1>9, <1>10 DEF PlaceKept, Walked, Reachable
<1>12. Stores(w.heap)
  BY <1>1, <1>5, <1>6, WalkStores
<1> QED BY <1>1, <1>3, <1>6, <1>11, <1>12, StepPrivate

LEMMA PlaceEndCellPrivate ==
  ASSUME PrivateInv, NEW c \in Cell, PlaceEndCell(c)
  PROVE  PrivateInv' /\ StoresSole
<1>1. Inv /\ PlaceKept(heap, loc, place, call, loop) /\ LoopApart(call, loop)
  BY DEF PrivateInv
<1> DEFINE h == SetItem(heap, place.list, Last(place.path), c)
<1>2. place # None /\ ~IsRowPlace /\ Commit(h, loc, None, call, loop)
  BY DEF PlaceEndCell
<1>3. IsRow(heap, place.list) /\ Made(h, loc, None, call, loop)
  BY <1>1, <1>2, PlaceEndCellMade
<1>4. Sole(place.list) /\ place.list \in Addr /\ DOMAIN heap = Addr
  BY <1>1, <1>2, <1>3, PlaceSole DEF IsRow, Inv, Good, HeapOK
<1>5. Stores(heap)
  BY DEF Stores
<1>6. Stores(h)
  BY <1>4, <1>5, StoreStores DEF SetItem
<1> HIDE DEF h
<1>7. PlaceKept(h, loc, None, call, loop)
  BY DEF PlaceKept
<1> QED BY <1>1, <1>2, <1>3, <1>6, <1>7, StepPrivate

LEMMA PlaceEndRowPrivate ==
  ASSUME PrivateInv, PlaceEndRow
  PROVE  PrivateInv' /\ StoresSole
<1>1. Inv /\ PlaceKept(heap, loc, place, call, loop) /\ LoopApart(call, loop)
  BY DEF PrivateInv
<1>2. place # None /\ IsRowPlace
  BY DEF PlaceEndRow
<1>3. PICK e \in RowExprs(heap, loc) :
        Commit(SetItem(e.heap, place.list, Last(place.path), e.at), e.loc, None, call, loop)
  BY DEF PlaceEndRow
<1> DEFINE h == SetItem(e.heap, place.list, Last(place.path), e.at)
<1>4. /\ Evaluated(heap, loc, e) /\ IsGrid(e.heap, place.list)
      /\ Made(e.heap, e.loc, place, call, loop) /\ Made(h, e.loc, None, call, loop)
  BY <1>1, <1>2, PlaceEndRowMade
<1>5. Sole(place.list) /\ place.list \in Addr /\ DOMAIN e.heap = Addr
  BY <1>1, <1>2, <1>4, PlaceSole DEF IsGrid, Made, Good, HeapOK
<1>6. Stores(e.heap)
  BY <1>4, SameStores DEF Evaluated
<1>7. Stores(h)
  BY <1>5, <1>6, StoreStores DEF SetItem
<1> HIDE DEF h
<1>8. PlaceKept(h, e.loc, None, call, loop)
  BY DEF PlaceKept
<1>9. Commit(h, e.loc, None, call, loop)
  BY <1>3 DEF h
<1> QED BY <1>1, <1>4, <1>7, <1>8, <1>9, StepPrivate

LEMMA CallBeginPrivate ==
  ASSUME PrivateInv, ~RhsTouchesRoot, ~BodyWritesIterable,
         NEW x \in Writable(Vars), NEW path \in RowPlaces(x), CallBegin(x, path)
  PROVE  PrivateInv' /\ StoresSole
<1>1. /\ Inv /\ PlaceKept(heap, loc, place, call, loop) /\ LoopApart(call, loop)
      /\ Made(heap, loc, place, call, loop) /\ call = None
  BY DEF PrivateInv, Inv, Made, CallBegin
<1>2. x \in Usable(Vars) /\ x \in Vars /\ (place # None => x # place.root /\ place.root # Param)
  BY <1>1, UsableApart DEF Writable, Usable, PlaceKept
<1>3. CASE path = <<>>
  <2> DEFINE env == [loc EXCEPT ![Param] = loc[x]]
             cl == [root |-> x, path |-> path, list |-> 0]
  <2>1. Commit(heap, env, place, cl, loop)
    BY <1>3 DEF CallBegin
  <2>2. Made(heap, env, place, cl, loop)
    BY <1>1, <1>3, CallVarMade
  <2>3. PlaceKept(heap, env, place, call, loop)
    BY <1>1, <1>2, BindKept
  <2>4. cl.root = x /\ cl # None /\ LoopApart(cl, loop)
    <3>1. cl \in Call
      <4>1. <<>> \in Seq(Nat)
        OBVIOUS
      <4> QED BY <1>2, <1>3, <4>1 DEF Call
    <3> QED BY <1>3, <3>1, NoneAssumption DEF LoopApart
  <2> HIDE DEF env, cl
  <2>5. PlaceKept(heap, env, place, cl, loop)
    BY <1>2, <2>3, <2>4, FrameKept DEF PlaceKept
  <2>6. Stores(heap)
    BY DEF Stores
  <2> QED BY <1>1, <2>1, <2>2, <2>4, <2>5, <2>6, StepPrivate
<1>4. CASE path # <<>>
  <2> DEFINE w == WalkTo(heap, loc[x], <<>>)
             mid == [loc EXCEPT ![x] = w.root]
             a == w.heap[w.list].data[path[1]]
             env == [loc EXCEPT ![x] = w.root, ![Param] = a]
             cl == [root |-> x, path |-> path, list |-> w.list]
  <2>1. WalkRoom /\ Commit(w.heap, env, place, cl, loop)
    BY <1>4 DEF CallBegin
  <2>2. /\ Walked(heap, loc, call, x, <<>>, w) /\ Made(w.heap, mid, place, call, loop)
        /\ Made(w.heap, env, place, cl, loop) /\ cl # None
    <3> HIDE DEF w
    <3> QED BY <1>1, <1>4, <2>1, CallSlotMade DEF w
  <2>3. Reachable(heap, loc, call, x, <<>>)
    BY <1>1, <1>2, ReachableNow DEF Containers
  <2> HIDE DEF w
  <2>4. PlaceKept(w.heap, mid, place, call, loop)
    BY <1>1, <1>2, <2>2, <2>3, WalkKept
  <2> HIDE DEF a
  <2>5. PlaceKept(w.heap, env, place, call, loop)
    <3>1. PlaceKept(w.heap, [mid EXCEPT ![Param] = a], place, call, loop)
      BY <1>2, <2>2, <2>4, BindKept
    <3> QED BY <3>1
  <2>6. cl.root = x /\ cl.list = w.list
    OBVIOUS
  <2> HIDE DEF env, mid, cl
  <2>7. LoopApart(cl, loop)
    BY <1>1, <2>2, <2>6, LoopElsewhere DEF LoopApart, Walked
  <2>8. cl # None
    BY <2>2 DEF cl
  <2>9. PlaceKept(w.heap, env, place, cl, loop)
    BY <1>2, <2>5, <2>6, <2>8, FrameKept DEF PlaceKept
  <2>10. Stores(w.heap)
    BY <1>1, <2>2, <2>3, WalkStores
  <2> QED BY <1>1, <2>1, <2>2, <2>7, <2>9, <2>10, StepPrivate
<1> QED BY <1>3, <1>4

LEMMA CallEndPrivate ==
  ASSUME PrivateInv, CallEnd
  PROVE  PrivateInv' /\ StoresSole
<1>1. /\ Inv /\ PlaceKept(heap, loc, place, call, loop)
      /\ Made(heap, loc, place, call, loop)
      /\ call # None /\ (place # None => place.root # Param)
  BY DEF PrivateInv, Inv, Made, CallEnd
<1>2. Good(heap, loc, call) /\ CallOK(heap, loc, call) /\ loc \in [Vars -> Addr \cup {Unbound}]
  BY <1>1 DEF Made, Good, EnvOK
<1>3. place # None => place.root \in Vars /\ loc[place.root] # Unbound /\ call.root # place.root
  BY <1>1, PlaceLists DEF PlaceKept
<1>4. LoopApart(None, loop)
  BY DEF LoopApart
<1>5. CASE call.path = <<>>
  <2> DEFINE env == [loc EXCEPT ![call.root] = loc[Param], ![Param] = Unbound]
  <2>1. Commit(heap, env, place, None, loop)
    BY <1>5 DEF CallEnd
  <2>2. Made(heap, env, place, None, loop)
    BY <1>1, <1>5, ReturnVarMade
  <2>3. place # None => env[place.root] = loc[place.root]
    BY <1>1, <1>2, <1>3
  <2> HIDE DEF env
  <2>4. PlaceKept(heap, env, place, None, loop)
    BY <1>1, <2>3, FrameKept DEF PlaceKept
  <2>5. Stores(heap)
    BY DEF Stores
  <2> QED BY <1>1, <1>4, <2>1, <2>2, <2>4, <2>5, StepPrivate
<1>6. CASE call.path # <<>>
  <2> DEFINE g == SetItem(heap, call.list, call.path[1], loc[Param])
             env == [loc EXCEPT ![Param] = Unbound]
  <2>1. Commit(g, env, place, None, loop)
    BY <1>6 DEF CallEnd
  <2>2. Made(g, env, place, None, loop)
    BY <1>1, <1>6, ReturnSlotMade
  <2>3. /\ IsGrid(heap, call.list) /\ call.list \in Addr /\ heap[call.list] # None
        /\ ~heap[call.list].shared
        /\ VarName(loc, call, call.list, call.root)
    <3>1. Returned(heap, loc, call, g)
      BY <1>1, <1>2, <1>6, ReturnSlotGood
    <3>2. IsGrid(heap, call.list)
      BY <3>1 DEF Returned
    <3> QED BY <1>1, <1>2, <1>6, <3>2, GridFields DEF IsGrid, CallOK, Call, VarName, LentVar
  <2>4. place # None => call.list # loc[place.root]
    BY <1>1, <1>2, <1>3, <1>6, NotLent
  <2>5. place # None => env[place.root] = loc[place.root]
    BY <1>1, <1>2, <1>3
  <2>6. PlaceKept(g, loc, place, call, loop)
    BY <1>1, <2>3, <2>4, StoreKept DEF SetItem
  <2>7. Stores(g)
    <3>1. Stores(heap) /\ DOMAIN heap = Addr /\ Sole(call.list)
      BY <1>1, <2>3, SoleVar DEF Stores, Made, Good, HeapOK
    <3> QED BY <2>3, <3>1, StoreStores DEF SetItem
  <2> HIDE DEF g, env
  <2>8. PlaceKept(g, env, place, None, loop)
    BY <1>1, <2>5, <2>6, FrameKept DEF PlaceKept
  <2> QED BY <1>1, <1>4, <2>1, <2>2, <2>7, <2>8, StepPrivate
<1> QED BY <1>5, <1>6

LEMMA LoopBeginPrivate ==
  ASSUME PrivateInv, ~RhsTouchesRoot, NEW g \in Usable(GridVars), LoopBegin(g)
  PROVE  PrivateInv' /\ StoresSole
<1>1. /\ Inv /\ PlaceKept(heap, loc, place, call, loop)
      /\ Made(heap, loc, place, call, loop) /\ Good(heap, loc, call)
  BY DEF PrivateInv, Inv, Made
<1> DEFINE lp == [list |-> loc[g], len |-> Len(heap[loc[g]].data), next |-> 1]
<1>2. Commit(heap, loc, place, call, lp) /\ Made(heap, loc, place, call, lp)
  BY <1>1, LoopBeginMade DEF LoopBegin
<1>3. g \in Vars /\ loc[g] # Unbound /\ (place # None => g # place.root) /\ (call # None => call.root # g)
  BY UsableApart DEF Usable, Vars
<1>4. place # None => Apart(heap, loc, place, loc[g])
  BY <1>1, <1>3, OthersApart
<1>5. call # None /\ call.path # <<>> => loc[g] # call.list
  BY <1>1, <1>3, NotLent
<1>6. lp.list = loc[g]
  OBVIOUS
<1> HIDE DEF lp
<1>7. PlaceKept(heap, loc, place, call, lp)
  BY <1>1, <1>4, <1>6, FrameKept DEF PlaceKept, Apart
<1>8. LoopApart(call, lp)
  BY <1>5, <1>6 DEF LoopApart
<1>9. Stores(heap)
  BY DEF Stores
<1> QED BY <1>1, <1>2, <1>7, <1>8, <1>9, StepPrivate

LEMMA LoopStepPrivate ==
  ASSUME PrivateInv, NEW x \in Targets(RowVars), ~RhsTouchesRoot, LoopStep(x)
  PROVE  PrivateInv' /\ StoresSole
<1>1. /\ Inv /\ PlaceKept(heap, loc, place, call, loop) /\ LoopApart(call, loop)
      /\ Made(heap, loc, place, call, loop) /\ HeapOK(heap)
  BY DEF PrivateInv, Inv, Made, Good
<1> DEFINE a == heap[loop.list].data[loop.next]
           h == Mark(heap, a)
           env == [loc EXCEPT ![x] = a]
           lp == [loop EXCEPT !.next = loop.next + 1]
<1>2. loop # None /\ loop.next <= loop.len /\ Commit(h, env, place, call, lp)
  BY DEF LoopStep
<1>3. /\ IsRow(heap, a) /\ loop.next \in DOMAIN heap[loop.list].data
      /\ Good(h, loc, call) /\ Extends(heap, h)
      /\ \A b \in Addr : b # a => h[b] = heap[b]
      /\ lp # None /\ lp.list = loop.list
      /\ Made(h, env, place, call, lp)
  <2> HIDE DEF a
  <2> QED BY <1>1, <1>2, LoopStepMade DEF a
<1> HIDE DEF lp
<1>4. SlotName(heap, call, a, loop.list, loop.next)
  <2>1. IsGrid(heap, loop.list)
    BY <1>1, <1>2 DEF Made, LoopOK
  <2>2. ~LentSlot(call, loop.list, loop.next)
    BY <1>1, <1>2, LentPath DEF LoopApart
  <2> QED BY <1>3, <2>1, <2>2 DEF SlotName, IsGrid
<1> HIDE DEF a, h
<1>5. ASSUME place # None
      PROVE  /\ a # loc[place.root] /\ a # place.list
             /\ place.root \in Vars /\ loc[place.root] \in Addr /\ place.list \in Addr
             /\ x # place.root
  <2>1. /\ place.root \in Vars /\ loc[place.root] \in Addr /\ place.list \in Addr
        /\ VarName(loc, call, loc[place.root], place.root)
        /\ OneName(heap, loc, call, loc[place.root]) /\ OneName(heap, loc, call, place.list)
        /\ \/ place.list = loc[place.root]
           \/ \E i : SlotName(heap, call, place.list, loc[place.root], i)
    BY <1>1, <1>5, PlaceLists
  <2>2. loop.list # loc[place.root]
    BY <1>1, <1>2, <1>5 DEF PlaceKept
  <2>3. a # loc[place.root]
    BY <1>4, <2>1 DEF OneName
  <2>4. a # place.list
    BY <1>4, <2>1, <2>2, <2>3 DEF OneName
  <2>5. x # place.root
    BY <1>5 DEF Targets, Busy
  <2> QED BY <2>1, <2>3, <2>4, <2>5
<1>6. PlaceKept(h, env, place, call, lp)
  <2> SUFFICES ASSUME place # None PROVE PlaceKept(h, env, place, call, lp)
    BY DEF PlaceKept
  <2>1. env[place.root] = loc[place.root]
    BY <1>1, <1>5 DEF Made, Good, EnvOK
  <2>2. h[loc[place.root]] = heap[loc[place.root]] /\ h[place.list] = heap[place.list]
    BY <1>3, <1>5
  <2> HIDE DEF env
  <2> QED BY <1>1, <1>2, <1>3, <2>1, <2>2 DEF PlaceKept
<1>7. LoopApart(call, lp)
  BY <1>1, <1>2, <1>3 DEF LoopApart
<1>8. Stores(h)
  BY <1>3, SameStores
<1> HIDE DEF env
<1> QED BY <1>1, <1>2, <1>3, <1>6, <1>7, <1>8, StepPrivate

LEMMA LoopEndPrivate ==
  ASSUME PrivateInv, LoopEnd
  PROVE  PrivateInv' /\ StoresSole
<1>1. Inv /\ PlaceKept(heap, loc, place, call, loop)
  BY DEF PrivateInv
<1>2. Commit(heap, loc, place, call, None) /\ Made(heap, loc, place, call, None)
  BY <1>1, LoopEndMade DEF LoopEnd
<1>3. PlaceKept(heap, loc, place, call, None) /\ LoopApart(call, None) /\ Stores(heap)
  BY <1>1 DEF PlaceKept, LoopApart, Stores
<1> QED BY <1>1, <1>2, <1>3, StepPrivate

LEMMA NextPrivate ==
  ASSUME PrivateInv, [Next]_vars, ~RhsTouchesRoot, ~BodyWritesIterable
  PROVE  PrivateInv' /\ [StoresSole]_vars
<1>0. Inv
  BY DEF PrivateInv
<1>1. CASE UNCHANGED vars
  <2>1. heap' = heap /\ loc' = loc /\ place' = place /\ call' = call /\ loop' = loop
    BY <1>1 DEF vars
  <2>2. Inv'
    BY <1>0, <1>1, NextInv
  <2>3. PlaceKept(heap, loc, place, call, loop)' /\ LoopApart(call, loop)'
    BY <2>1, Zenon DEF PrivateInv
  <2> QED BY <1>1, <2>2, <2>3 DEF PrivateInv
<1>2. ASSUME NEW x \in Targets(RowVars), Assign(x, RowExprs(heap, loc))
      PROVE  PrivateInv' /\ StoresSole
  <2>1. PICK e \in RowExprs(heap, loc) :
          Commit(e.heap, [e.loc EXCEPT ![x] = e.at], place, call, loop)
    BY <1>2 DEF Assign
  <2>2. x \in Vars /\ x \notin GridVars /\ ~Busy(x) /\ (x = Param => call # None)
    BY VarsAssumption DEF Targets, Vars
  <2>3. Evaluated(heap, loc, e) /\ RowFrom(heap, loc, e) /\ Is(e.heap, x, e.at)
    BY <1>0, <2>2, ReadyNow, RowExprsGood DEF Is
  <2> QED BY <2>1, <2>2, <2>3, AssignPrivate
<1>3. ASSUME NEW g \in Targets(GridVars), Assign(g, GridExprs(heap, loc))
      PROVE  PrivateInv' /\ StoresSole
  <2>1. PICK e \in GridExprs(heap, loc) :
          Commit(e.heap, [e.loc EXCEPT ![g] = e.at], place, call, loop)
    BY <1>3 DEF Assign
  <2>2. g \in Vars /\ g \in GridVars /\ ~Busy(g) /\ (g = Param => call # None)
    BY DEF Targets, Vars
  <2>3. Evaluated(heap, loc, e) /\ GridFrom(heap, loc, e) /\ Is(e.heap, g, e.at)
    BY <1>0, <2>2, ReadyNow, GridExprsGood DEF Is
  <2> QED BY <2>1, <2>2, <2>3, AssignPrivate
<1>4. CASE Next
  BY <1>2, <1>3, <1>4, LoopStepPrivate, PushRowPrivate, LoopBeginPrivate, CallBeginPrivate,
     PushCellPrivate, PlaceBeginPrivate, PlaceEndCellPrivate, PlaceEndRowPrivate,
     CallEndPrivate, LoopEndPrivate DEF Next
<1> QED BY <1>1, <1>4

(* Aliasing is not expressible: a list is only ever written where one path  *)
(* of one variable reads it.  The right side of root[..] = v must leave     *)
(* root alone, or it may mark or move the list the store goes to.  The body *)
(* of a loop must leave what the loop runs over alone: the model lets a     *)
(* loop step while an assignment begun in its body is open, and the step    *)
(* marks the row it reads.                                                  *)
THEOREM StoresArePrivate ==
  ASSUME ~RhsTouchesRoot, ~BodyWritesIterable
  PROVE  Spec => StoresUnaliased
<1>1. Init => PrivateInv
  <2> SUFFICES ASSUME Init PROVE PrivateInv
    OBVIOUS
  <2>1. Inv
    BY InitInv
  <2> QED BY <2>1 DEF PrivateInv, Init, PlaceKept, LoopApart
<1>2. PrivateInv /\ [Next]_vars => PrivateInv' /\ [StoresSole]_vars
  BY NextPrivate
<1>3. [StoresSole]_vars =>
        [\A a \in Addr : heap[a] # None /\ heap'[a] # None /\ heap'[a].data # heap[a].data
           => Cardinality(Readers(a)) <= 1]_vars
  BY DEF StoresSole
<1> QED BY <1>1, <1>2, <1>3, PTL DEF Spec, StoresUnaliased
=============================================================================
