------------------------- MODULE CowValuesRefinement -------------------------
(***************************************************************************)
(* Sharing means copying: CowValues implements ValueSpec, for any           *)
(* variables, cells and bounds, if the right side of an assignment leaves   *)
(* its root alone and the body of a loop the list it runs over.             *)
(*                                                                         *)
(* A step marks lists, copies lists and stores into one.  Marks and copies  *)
(* change no value.  A list stored into is unmarked, and so is the grid it  *)
(* is in, so by the invariant of CowValuesProofs it is part of the value of *)
(* one variable, of no loop in progress, and of no grid waiting for a row   *)
(* to come back from a call.                                                *)
(***************************************************************************)
EXTENDS CowValuesProofs

-----------------------------------------------------------------------------
(* What ValueSpec sees of a heap h, variables env, and the rest.            *)

EnvView(h, env, cl) ==
  [x \in Vars |-> IF env[x] = Unbound \/ (cl # None /\ cl.root = x)
                    THEN Unbound ELSE ValueIn(h, env[x])]

PlaceView(pl) == IF pl = None THEN None ELSE [root |-> pl.root, path |-> pl.path]

RestView(h, cl) ==
  IF cl.path = <<>> THEN Unbound ELSE [ValueIn(h, cl.list) EXCEPT ![cl.path[1]] = Unbound]

CallView(h, cl) ==
  IF cl = None THEN None ELSE [root |-> cl.root, path |-> cl.path, rest |-> RestView(h, cl)]

ItemsView(h, lp) == SubSeq(ValueIn(h, lp.list), 1, lp.len)

LoopView(h, lp) == IF lp = None THEN None ELSE [items |-> ItemsView(h, lp), next |-> lp.next]

(* A variable ValueSpec says is bound. *)
Seen(env, cl, x) == x \in Vars /\ env[x] # Unbound /\ ~(cl # None /\ cl.root = x)

(* Every list h has is in g, with the value it had. *)
SameValues(h, g) ==
  \A a \in Addr : h[a] # None => g[a] # None /\ ValueIn(g, a) = ValueIn(h, a)

Seqs == Seq(Seq(Cell))

-----------------------------------------------------------------------------
(* Values. *)

LEMMA RowValue ==
  ASSUME NEW h, NEW a, IsRow(h, a)
  PROVE  ValueIn(h, a) = h[a].data /\ ValueIn(h, a) \in Seq(Cell)
BY RowFields DEF ValueIn, IsRow

LEMMA GridValue ==
  ASSUME NEW h, HeapOK(h), NEW a, IsGrid(h, a)
  PROVE  /\ ValueIn(h, a) = [i \in DOMAIN h[a].data |-> h[h[a].data[i]].data]
         /\ ValueIn(h, a) \in Seqs
         /\ Len(ValueIn(h, a)) = Len(h[a].data)
         /\ DOMAIN h[a].data = 1..Len(h[a].data) /\ Len(h[a].data) \in Nat
<1> DEFINE d == h[a].data
           n == Len(h[a].data)
           v == [i \in 1..n |-> h[h[a].data[i]].data]
<1>1. h[a].grid /\ h[a] \in Grid /\ h[a] \in Row \cup Grid
  BY GridFields DEF IsGrid
<1>2. DOMAIN d = 1..n /\ n \in Nat
  BY <1>1, DataLength
<1>3. \A i \in 1..n : h[d[i]].data \in Seq(Cell)
  BY <1>1, <1>2, RowFields DEF HeapOK, IsRow, IsGrid
<1>4. ValueIn(h, a) = v
  BY <1>1, <1>2 DEF ValueIn
<1> HIDE DEF n
<1>5. v \in Seqs /\ Len(v) = n
  <2>1. v \in [1..n -> Seq(Cell)]
    BY <1>3
  <2> HIDE DEF v
  <2> QED BY <1>2, <2>1 DEF Seqs
<1> HIDE DEF v
<1> QED BY <1>1, <1>2, <1>4, <1>5 DEF ValueIn, n

LEMMA SeenValue ==
  ASSUME NEW h, NEW env, NEW cl, HeapOK(h), EnvOK(h, env), NEW x, Seen(env, cl, x)
  PROVE  /\ EnvView(h, env, cl)[x] = ValueIn(h, env[x])
         /\ EnvView(h, env, cl)[x] # Unbound
         /\ env[x] \in Addr /\ h[env[x]] # None /\ Is(h, x, env[x])
         /\ x \in GridVars => EnvView(h, env, cl)[x] \in Seqs
         /\ x \notin GridVars => EnvView(h, env, cl)[x] \in Seq(Cell)
<1>1. Is(h, x, env[x]) /\ x \in Vars
  BY DEF EnvOK, Seen
<1>2. EnvView(h, env, cl)[x] = ValueIn(h, env[x])
  BY DEF EnvView, Seen
<1>3. /\ x \in GridVars => ValueIn(h, env[x]) \in Seqs
      /\ x \notin GridVars => ValueIn(h, env[x]) \in Seq(Cell)
  BY <1>1, RowValue, GridValue DEF Is
<1>4. ValueIn(h, env[x]) # Unbound
  BY <1>3, ViewAssumption DEF Seqs
<1>5. env[x] \in Addr /\ h[env[x]] # None
  BY <1>1, RowFields, GridFields DEF Is, IsRow, IsGrid
<1> QED BY <1>1, <1>2, <1>3, <1>4, <1>5

LEMMA UnseenValue ==
  ASSUME NEW h, NEW env, NEW cl, NEW x \in Vars, ~Seen(env, cl, x)
  PROVE  EnvView(h, env, cl)[x] = Unbound
BY DEF Seen, EnvView

-----------------------------------------------------------------------------
(* Marks, new lists and copies change no value. *)

LEMMA RowsOf ==
  ASSUME NEW h, HeapOK(h), NEW a, IsGrid(h, a), NEW i \in DOMAIN h[a].data
  PROVE  IsRow(h, h[a].data[i]) /\ h[h[a].data[i]] # None
<1>1. IsRow(h, h[a].data[i])
  BY DEF HeapOK, IsGrid
<1> QED BY <1>1, RowFields DEF IsRow

LEMMA ExtendsValues ==
  ASSUME NEW h, NEW g, HeapOK(h), HeapOK(g), Extends(h, g)
  PROVE  SameValues(h, g)
<1> SUFFICES ASSUME NEW a \in Addr, h[a] # None
             PROVE  g[a] # None /\ ValueIn(g, a) = ValueIn(h, a)
  BY DEF SameValues
<1>1. CASE h[a] \in Row
  BY <1>1, RowFields DEF Extends, ValueIn
<1>2. CASE h[a] \in Grid
  <2>1. g[a] \in Grid /\ g[a].data = h[a].data /\ IsGrid(h, a) /\ g[a] # None
    BY <1>2, GridFields DEF Extends, IsGrid
  <2>2. g[a].grid /\ h[a].grid
    BY <1>2, <2>1, GridFields
  <2>3. \A i \in DOMAIN h[a].data : g[h[a].data[i]].data = h[h[a].data[i]].data
    BY <2>1, RowsOf DEF Extends, IsRow
  <2> QED BY <2>1, <2>2, <2>3 DEF ValueIn
<1> QED BY <1>1, <1>2 DEF HeapOK

LEMMA WalkValues ==
  ASSUME NEW h, NEW env, NEW cl, Good(h, env, cl), NEW x, NEW path,
         NEW w, Walked(h, env, cl, x, path, w)
  PROVE  SameValues(h, w.heap)
<1>1. HeapOK(h) /\ HeapOK(w.heap)
  BY DEF Good, Walked
<1> SUFFICES ASSUME NEW a \in Addr, h[a] # None
             PROVE  w.heap[a] # None /\ ValueIn(w.heap, a) = ValueIn(h, a)
  BY DEF SameValues
<1>2. CASE w.heap[a] = h[a]
  <2>1. CASE h[a] \in Row
    BY <1>2, <2>1, RowFields DEF ValueIn
  <2>2. CASE h[a] \in Grid
    <3>1. IsGrid(h, a) /\ h[a].grid
      BY <2>2, GridFields DEF IsGrid
    <3>2. \A i \in DOMAIN h[a].data : w.heap[h[a].data[i]] = h[h[a].data[i]]
      <4> SUFFICES ASSUME NEW i \in DOMAIN h[a].data
                   PROVE  w.heap[h[a].data[i]] = h[h[a].data[i]]
        OBVIOUS
      <4>1. IsRow(h, h[a].data[i]) /\ h[h[a].data[i]] # None
        BY <1>1, <3>1, RowsOf
      <4>2. h[h[a].data[i]] \notin Grid
        BY <4>1, RowFields DEF IsRow
      <4> QED BY <4>1, <4>2 DEF Walked, IsRow
    <3> QED BY <1>2, <3>1, <3>2 DEF ValueIn
  <2> QED BY <1>1, <2>1, <2>2 DEF HeapOK
<1>3. CASE a = env[x] /\ a = w.root /\ w.heap[a] \in Grid
  BY <1>3, GridFields DEF Walked
<1> QED BY <1>2, <1>3 DEF Walked

LEMMA SameTrans ==
  ASSUME NEW h, NEW g, NEW k, SameValues(h, g), SameValues(g, k)
  PROVE  SameValues(h, k)
BY DEF SameValues

LEMMA SameEnv ==
  ASSUME NEW h, NEW g, NEW env, NEW cl, HeapOK(h), EnvOK(h, env), SameValues(h, g)
  PROVE  EnvView(g, env, cl) = EnvView(h, env, cl)
<1>1. \A x \in Vars : env[x] # Unbound => ValueIn(g, env[x]) = ValueIn(h, env[x])
  <2> SUFFICES ASSUME NEW x \in Vars, env[x] # Unbound
               PROVE  ValueIn(g, env[x]) = ValueIn(h, env[x])
    OBVIOUS
  <2>1. env[x] \in Addr /\ h[env[x]] # None
    BY RowFields, GridFields DEF EnvOK, Is, IsRow, IsGrid
  <2> QED BY <2>1 DEF SameValues
<1> QED BY <1>1 DEF EnvView

LEMMA SameCall ==
  ASSUME NEW h, NEW g, NEW env, NEW cl, Good(h, env, cl), SameValues(h, g)
  PROVE  CallView(g, cl) = CallView(h, cl)
<1>1. EnvOK(h, env) /\ CallOK(h, env, cl)
  BY DEF Good
<1>2. CASE cl # None /\ cl.path # <<>>
  <2>1. cl.root \in Vars /\ env[cl.root] = cl.list /\ env[cl.root] # Unbound
    BY <1>1, <1>2 DEF CallOK, Call
  <2>2. cl.list \in Addr /\ h[cl.list] # None
    BY <1>1, <2>1, RowFields, GridFields DEF EnvOK, Is, IsRow, IsGrid
  <2>3. ValueIn(g, cl.list) = ValueIn(h, cl.list)
    BY <2>2 DEF SameValues
  <2> QED BY <2>3 DEF CallView, RestView
<1>3. CASE cl = None \/ cl.path = <<>>
  BY <1>3 DEF CallView, RestView
<1> QED BY <1>2, <1>3

LEMMA SameLoop ==
  ASSUME NEW h, NEW g, NEW lp, LoopOK(h, lp), SameValues(h, g)
  PROVE  LoopView(g, lp) = LoopView(h, lp)
<1>1. CASE lp # None
  <2>1. lp.list \in Addr /\ h[lp.list] # None
    BY <1>1, GridFields DEF LoopOK, IsGrid
  <2>2. ValueIn(g, lp.list) = ValueIn(h, lp.list)
    BY <2>1 DEF SameValues
  <2> QED BY <2>2 DEF LoopView, ItemsView
<1>2. CASE lp = None
  BY <1>2 DEF LoopView
<1> QED BY <1>1, <1>2

LEMMA WalkEnv ==
  ASSUME NEW h, NEW env, NEW cl, Good(h, env, cl), NEW x, NEW path,
         Reachable(h, env, cl, x, path), NEW w, Walked(h, env, cl, x, path, w)
  PROVE  EnvView(w.heap, [env EXCEPT ![x] = w.root], cl) = EnvView(h, env, cl)
<1>1. HeapOK(h) /\ EnvOK(h, env) /\ HeapOK(w.heap)
  BY DEF Good, Walked
<1>2. EnvView(w.heap, env, cl) = EnvView(h, env, cl)
  BY <1>1, WalkValues, SameEnv
<1>3. x \in Vars /\ env[x] # Unbound /\ env[x] \in Addr /\ h[env[x]] # None
  <2>1. x \in Vars /\ env[x] # Unbound
    BY DEF Reachable
  <2> QED BY <1>1, <2>1, RowFields, GridFields DEF EnvOK, Is, IsRow, IsGrid
<1>4. ValueIn(w.heap, w.root) = ValueIn(w.heap, env[x])
  <2>1. SameValues(h, w.heap)
    BY WalkValues
  <2>2. ValueIn(w.heap, env[x]) = ValueIn(h, env[x])
    BY <1>3, <2>1 DEF SameValues
  <2>3. ValueIn(w.heap, w.root) = ValueIn(h, env[x])
    BY DEF Walked
  <2> QED BY <2>2, <2>3
<1>5. w.root # Unbound
  BY UnboundAssumption DEF Walked, Is, IsRow, IsGrid
<1> DEFINE new == [env EXCEPT ![x] = w.root]
<1>6. DOMAIN env = Vars
  BY <1>1 DEF EnvOK
<1>7. new[x] = w.root /\ \A y \in Vars : y # x => new[y] = env[y]
  BY <1>3, <1>6
<1> HIDE DEF new
<1>8. EnvView(w.heap, new, cl) = EnvView(w.heap, env, cl)
  BY <1>3, <1>4, <1>5, <1>7 DEF EnvView
<1> QED BY <1>2, <1>8 DEF new

-----------------------------------------------------------------------------
(* Neither does the collection a step ends with. *)

LEMMA KeptValue ==
  ASSUME NEW h, NEW g, NEW roots, HeapOK(h), Kept(h, g, roots), NEW a \in roots \cap Addr,
         h[a] # None
  PROVE  ValueIn(g, a) = ValueIn(h, a)
<1>1. CASE h[a] \in Row
  BY <1>1, RowFields DEF Kept, ValueIn
<1>2. CASE h[a] \in Grid
  <2>1. h[a].grid /\ g[a] = h[a] /\ \A i \in DOMAIN h[a].data : g[h[a].data[i]] = h[h[a].data[i]]
    BY <1>2, GridFields DEF Kept
  <2> QED BY <2>1 DEF ValueIn
<1> QED BY <1>1, <1>2 DEF HeapOK

LEMMA CommitViews ==
  ASSUME NEW h, NEW env, NEW pl, NEW cl, NEW lp, Commit(h, env, pl, cl, lp),
         Made(h, env, pl, cl, lp)
  PROVE  /\ AbstractEnv' = EnvView(h, env, cl)
         /\ AbstractPlace' = PlaceView(pl)
         /\ AbstractCall' = CallView(h, cl)
         /\ AbstractLoop' = LoopView(h, lp)
<1> DEFINE roots == InUse(env, pl, cl, lp)
           g == heap'
<1>1. HeapOK(h) /\ EnvOK(h, env) /\ CallOK(h, env, cl) /\ LoopOK(h, lp)
  BY DEF Made, Good
<1>2. loc' = env /\ place' = pl /\ call' = cl /\ loop' = lp
  BY DEF Commit
<1>3. Kept(h, g, roots)
  BY CommitInv DEF Made
<1>4. /\ \A x \in Vars : env[x] # Unbound => env[x] \in roots
      /\ lp # None => lp.list \in roots
  BY DEF InUse, InUseNoLoop
<1> HIDE DEF roots, g
<1>5. \A x \in Vars : env[x] # Unbound => ValueIn(g, env[x]) = ValueIn(h, env[x])
  <2> SUFFICES ASSUME NEW x \in Vars, env[x] # Unbound
               PROVE  ValueIn(g, env[x]) = ValueIn(h, env[x])
    OBVIOUS
  <2>1. env[x] \in roots \cap Addr /\ h[env[x]] # None
    BY <1>1, <1>4, RowFields, GridFields DEF EnvOK, Is, IsRow, IsGrid
  <2> QED BY <1>1, <1>3, <2>1, KeptValue
<1>6. EnvView(g, env, cl) = EnvView(h, env, cl)
  BY <1>5 DEF EnvView
<1>7. CallView(g, cl) = CallView(h, cl)
  <2>1. CASE cl # None /\ cl.path # <<>>
    <3>1. cl.root \in Vars /\ env[cl.root] = cl.list /\ env[cl.root] # Unbound
      BY <1>1, <2>1 DEF CallOK, Call
    <3> QED BY <1>5, <3>1 DEF CallView, RestView
  <2>2. CASE cl = None \/ cl.path = <<>>
    BY <2>2 DEF CallView, RestView
  <2> QED BY <2>1, <2>2
<1>8. LoopView(g, lp) = LoopView(h, lp)
  <2>1. CASE lp # None
    <3>1. lp.list \in roots \cap Addr /\ h[lp.list] # None
      BY <1>1, <1>4, <2>1, GridFields DEF LoopOK, IsGrid
    <3>2. ValueIn(g, lp.list) = ValueIn(h, lp.list)
      BY <1>1, <1>3, <3>1, KeptValue
    <3> QED BY <3>2 DEF LoopView, ItemsView
  <2>2. CASE lp = None
    BY <2>2 DEF LoopView
  <2> QED BY <2>1, <2>2
<1>9. /\ AbstractEnv' = EnvView(g, env, cl) /\ AbstractPlace' = PlaceView(pl)
      /\ AbstractCall' = CallView(g, cl) /\ AbstractLoop' = LoopView(g, lp)
  <2>1. /\ AbstractEnv' = EnvView(heap', loc', call')
        /\ AbstractPlace' = PlaceView(place')
        /\ AbstractCall' = CallView(heap', call')
        /\ AbstractLoop' = LoopView(heap', loop')
    BY DEF AbstractEnv, AbstractPlace, AbstractCall, AbstractLoop, EnvView, PlaceView,
           CallView, RestView, LoopView, ItemsView, Value, ValueIn
  <2> QED BY <1>2, <2>1 DEF g
<1> QED BY <1>6, <1>7, <1>8, <1>9

LEMMA ViewsNow ==
  /\ AbstractEnv = EnvView(heap, loc, call) /\ AbstractPlace = PlaceView(place)
  /\ AbstractCall = CallView(heap, call) /\ AbstractLoop = LoopView(heap, loop)
BY DEF AbstractEnv, AbstractPlace, AbstractCall, AbstractLoop, EnvView, PlaceView,
       CallView, RestView, LoopView, ItemsView, Value, ValueIn

-----------------------------------------------------------------------------
(* Bindings and expressions. *)

Rebind(f, x, v) == [f EXCEPT ![x] = v]

LEMMA BindView ==
  ASSUME NEW h, NEW env, NEW cl, env \in [Vars -> Addr \cup {Unbound}], NEW x \in Vars,
         cl # None => cl.root # x, NEW a \in Addr
  PROVE  EnvView(h, Rebind(env, x, a), cl) = Rebind(EnvView(h, env, cl), x, ValueIn(h, a))
<1> DEFINE new == [env EXCEPT ![x] = a]
<1>1. new[x] = a /\ \A y \in Vars : y # x => new[y] = env[y]
  OBVIOUS
<1> HIDE DEF new
<1>2. EnvView(h, new, cl) = [EnvView(h, env, cl) EXCEPT ![x] = ValueIn(h, a)]
  BY <1>1, UnboundAssumption DEF EnvView
<1> QED BY <1>2 DEF new, Rebind

LEMMA ForgetView ==
  ASSUME NEW h, NEW env, NEW cl, env \in [Vars -> Addr \cup {Unbound}], NEW x \in Vars
  PROVE  EnvView(h, Rebind(env, x, Unbound), cl) = Rebind(EnvView(h, env, cl), x, Unbound)
<1> DEFINE new == [env EXCEPT ![x] = Unbound]
<1>1. new[x] = Unbound /\ \A y \in Vars : y # x => new[y] = env[y]
  OBVIOUS
<1> HIDE DEF new
<1>2. EnvView(h, new, cl) = [EnvView(h, env, cl) EXCEPT ![x] = Unbound]
  BY <1>1 DEF EnvView
<1> QED BY <1>2 DEF new, Rebind

(* The value of an expression and the variables after it, as ValueSpec has  *)
(* them.                                                                    *)
ExprView(e) == <<ValueIn(e.heap, e.at), EnvView(e.heap, e.loc, call)>>

LEMMA EvaluatedEnv ==
  ASSUME NEW h, NEW env, Good(h, env, call), NEW e, Evaluated(h, env, e)
  PROVE  SameValues(h, e.heap) /\ EnvView(e.heap, env, call) = EnvView(h, env, call)
<1>1. HeapOK(h) /\ EnvOK(h, env) /\ HeapOK(e.heap) /\ Extends(h, e.heap)
  BY DEF Good, Evaluated
<1> QED BY <1>1, ExtendsValues, SameEnv

LEMMA NewView ==
  ASSUME NEW h, NEW env, Good(h, env, call), NEW e, Evaluated(h, env, e), IsNew(h, env, e)
  PROVE  ExprView(e) = << <<>>, EnvView(h, env, call)>>
BY EvaluatedEnv DEF IsNew, ExprView

LEMMA VarView ==
  ASSUME NEW h, NEW env, Good(h, env, call), NEW e, Evaluated(h, env, e),
         NEW x \in Vars, IsVar(env, e, x)
  PROVE  LET view == EnvView(h, env, call) IN
         /\ Seen(env, call, x)
         /\ ExprView(e) \in {<<view[x], view>>, <<view[x], [view EXCEPT ![x] = Unbound]>>}
<1> DEFINE view == EnvView(h, env, call)
<1>1. HeapOK(h) /\ EnvOK(h, env) /\ env \in [Vars -> Addr \cup {Unbound}]
  BY DEF Good, EnvOK
<1>2. Seen(env, call, x)
  BY DEF IsVar, Busy, Seen
<1>3. view[x] = ValueIn(h, env[x]) /\ env[x] \in Addr /\ h[env[x]] # None
  BY <1>1, <1>2, SeenValue
<1>4. SameValues(h, e.heap) /\ EnvView(e.heap, env, call) = view
  BY EvaluatedEnv
<1>5. ValueIn(e.heap, e.at) = view[x]
  BY <1>3, <1>4 DEF IsVar, SameValues
<1>6. CASE e.loc = env
  BY <1>2, <1>4, <1>5, <1>6 DEF ExprView
<1>7. CASE e.loc = [env EXCEPT ![x] = Unbound]
  <2>1. e.loc = Rebind(env, x, Unbound)
    BY <1>7 DEF Rebind
  <2>2. EnvView(e.heap, e.loc, call) = Rebind(EnvView(e.heap, env, call), x, Unbound)
    BY <1>1, <2>1, ForgetView
  <2>3. EnvView(e.heap, e.loc, call) = Rebind(view, x, Unbound)
    BY <1>4, <2>2
  <2> QED BY <1>2, <1>5, <2>3 DEF ExprView, Rebind
<1> QED BY <1>6, <1>7 DEF IsVar

LEMMA ElemView ==
  ASSUME NEW h, NEW env, Good(h, env, call), NEW e, Evaluated(h, env, e),
         NEW g \in Readable(GridVars), NEW i, IsElem(h, env, e, g, i)
  PROVE  LET view == EnvView(h, env, call) IN
         /\ Seen(env, call, g) /\ i \in DOMAIN view[g]
         /\ ExprView(e) = <<view[g][i], view>>
<1> DEFINE view == EnvView(h, env, call)
<1>1. HeapOK(h) /\ EnvOK(h, env)
  BY DEF Good
<1>2. Seen(env, call, g) /\ g \in GridVars
  BY DEF IsElem, Readable, Usable, Busy, Seen, Vars
<1>3. view[g] = ValueIn(h, env[g]) /\ IsGrid(h, env[g])
  BY <1>1, <1>2, SeenValue DEF Is
<1>4. i \in DOMAIN h[env[g]].data /\ e.at = h[env[g]].data[i] /\ e.loc = env
  BY DEF IsElem
<1>5. IsRow(h, e.at) /\ h[e.at] # None /\ e.at \in Addr
  BY <1>1, <1>3, <1>4, RowsOf DEF IsRow
<1>6. i \in DOMAIN view[g] /\ view[g][i] = h[e.at].data
  BY <1>1, <1>3, <1>4, GridValue
<1>7. SameValues(h, e.heap) /\ EnvView(e.heap, env, call) = view
  BY EvaluatedEnv
<1>8. ValueIn(e.heap, e.at) = h[e.at].data
  BY <1>5, <1>7, RowValue DEF SameValues
<1> QED BY <1>2, <1>4, <1>6, <1>7, <1>8 DEF ExprView

LEMMA RowExprView ==
  ASSUME NEW h, NEW env, Good(h, env, call), EnvView(h, env, call) = AbstractEnv,
         NEW e, Evaluated(h, env, e), RowFrom(h, env, e)
  PROVE  ExprView(e) \in Abstract!RowExprs
<1>1. HeapOK(h) /\ EnvOK(h, env)
  BY DEF Good
<1>2. CASE IsNew(h, env, e)
  BY <1>2, NewView DEF Abstract!RowExprs
<1>3. ASSUME NEW x \in RowVars, IsVar(env, e, x)
      PROVE  ExprView(e) \in Abstract!RowExprs
  <2>1. /\ Seen(env, call, x)
        /\ ExprView(e) \in {<<AbstractEnv[x], AbstractEnv>>,
                            <<AbstractEnv[x], [AbstractEnv EXCEPT ![x] = Unbound]>>}
    BY <1>3, VarView DEF Vars
  <2>2. AbstractEnv[x] # Unbound
    BY <1>1, <2>1, SeenValue
  <2>3. x \in Abstract!Bound(RowVars) /\ ExprView(e) \in Abstract!Reads(x)
    BY <1>3, <2>1, <2>2 DEF Abstract!Bound, Abstract!Reads
  <2> QED BY <2>3 DEF Abstract!RowExprs
<1>4. ASSUME NEW g \in Readable(GridVars), NEW i, IsElem(h, env, e, g, i)
      PROVE  ExprView(e) \in Abstract!RowExprs
  <2>1. /\ Seen(env, call, g) /\ i \in DOMAIN AbstractEnv[g]
        /\ ExprView(e) = <<AbstractEnv[g][i], AbstractEnv>>
    BY <1>4, ElemView
  <2>2. AbstractEnv[g] # Unbound /\ g \in GridVars
    BY <1>1, <2>1, SeenValue DEF Readable, Usable
  <2>3. g \in Abstract!Bound(GridVars)
    BY <2>2 DEF Abstract!Bound
  <2> QED BY <2>1, <2>3 DEF Abstract!RowExprs
<1> QED BY <1>2, <1>3, <1>4 DEF RowFrom

LEMMA GridExprView ==
  ASSUME NEW h, NEW env, Good(h, env, call), EnvView(h, env, call) = AbstractEnv,
         NEW e, Evaluated(h, env, e), GridFrom(h, env, e)
  PROVE  ExprView(e) \in Abstract!GridExprs
<1>1. HeapOK(h) /\ EnvOK(h, env)
  BY DEF Good
<1>2. CASE IsNew(h, env, e)
  BY <1>2, NewView DEF Abstract!GridExprs
<1>3. ASSUME NEW x \in GridVars, IsVar(env, e, x)
      PROVE  ExprView(e) \in Abstract!GridExprs
  <2>1. /\ Seen(env, call, x)
        /\ ExprView(e) \in {<<AbstractEnv[x], AbstractEnv>>,
                            <<AbstractEnv[x], [AbstractEnv EXCEPT ![x] = Unbound]>>}
    BY <1>3, VarView DEF Vars
  <2>2. AbstractEnv[x] # Unbound
    BY <1>1, <2>1, SeenValue
  <2>3. x \in Abstract!Bound(GridVars) /\ ExprView(e) \in Abstract!Reads(x)
    BY <1>3, <2>1, <2>2 DEF Abstract!Bound, Abstract!Reads
  <2> QED BY <2>3 DEF Abstract!GridExprs
<1> QED BY <1>2, <1>3 DEF GridFrom

LEMMA EvaluatedRest ==
  ASSUME NEW h, NEW env, NEW pl, NEW lp, Made(h, env, pl, call, lp), NEW e, Evaluated(h, env, e)
  PROVE  CallView(e.heap, call) = CallView(h, call) /\ LoopView(e.heap, lp) = LoopView(h, lp)
BY EvaluatedEnv, SameCall, SameLoop DEF Made

-----------------------------------------------------------------------------
(* Assignments to variables. *)

LEMMA AssignView ==
  ASSUME Inv, NEW x \in Vars, ~Busy(x), x = Param => call # None,
         NEW e, Evaluated(heap, loc, e), Is(e.heap, x, e.at),
         Commit(e.heap, [e.loc EXCEPT ![x] = e.at], place, call, loop)
  PROVE  /\ AbstractEnv' = [ExprView(e)[2] EXCEPT ![x] = ExprView(e)[1]]
         /\ UNCHANGED <<AbstractPlace, AbstractCall, AbstractLoop>>
<1>1. Made(e.heap, [e.loc EXCEPT ![x] = e.at], place, call, loop) /\ Made(heap, loc, place, call, loop)
  BY AssignMade DEF Inv, Made
<1>2. /\ AbstractEnv' = EnvView(e.heap, [e.loc EXCEPT ![x] = e.at], call)
      /\ AbstractPlace' = PlaceView(place)
      /\ AbstractCall' = CallView(e.heap, call)
      /\ AbstractLoop' = LoopView(e.heap, loop)
  BY <1>1, CommitViews
<1>3. e.loc \in [Vars -> Addr \cup {Unbound}] /\ (call # None => call.root # x) /\ e.at \in Addr
  BY DEF Evaluated, Good, EnvOK, Busy
<1>4. AbstractEnv' = Rebind(EnvView(e.heap, e.loc, call), x, ValueIn(e.heap, e.at))
  <2>1. AbstractEnv' = EnvView(e.heap, Rebind(e.loc, x, e.at), call)
    BY <1>2 DEF Rebind
  <2> QED BY <1>3, <2>1, BindView
<1>5. UNCHANGED <<AbstractPlace, AbstractCall, AbstractLoop>>
  BY <1>1, <1>2, EvaluatedRest, ViewsNow
<1> QED BY <1>4, <1>5 DEF ExprView, Rebind

LEMMA AssignRowView ==
  ASSUME Inv, NEW x \in Targets(RowVars), Assign(x, RowExprs(heap, loc))
  PROVE  Abstract!BindRow(x)
<1>1. PICK e \in RowExprs(heap, loc) :
        Commit(e.heap, [e.loc EXCEPT ![x] = e.at], place, call, loop)
  BY DEF Assign
<1>2. x \in Vars /\ x \notin GridVars /\ ~Busy(x) /\ (x = Param => call # None)
  BY VarsAssumption DEF Targets, Vars
<1>3. Evaluated(heap, loc, e) /\ RowFrom(heap, loc, e) /\ Is(e.heap, x, e.at)
  BY <1>2, ReadyNow, RowExprsGood DEF Is
<1>4. ExprView(e) \in Abstract!RowExprs
  BY <1>3, RowExprView, ViewsNow DEF Inv
<1> QED BY <1>1, <1>2, <1>3, <1>4, AssignView DEF Abstract!BindRow

LEMMA AssignGridView ==
  ASSUME Inv, NEW g \in Targets(GridVars), Assign(g, GridExprs(heap, loc))
  PROVE  Abstract!BindGrid(g)
<1>1. PICK e \in GridExprs(heap, loc) :
        Commit(e.heap, [e.loc EXCEPT ![g] = e.at], place, call, loop)
  BY DEF Assign
<1>2. g \in Vars /\ g \in GridVars /\ ~Busy(g) /\ (g = Param => call # None)
  BY DEF Targets, Vars
<1>3. Evaluated(heap, loc, e) /\ GridFrom(heap, loc, e) /\ Is(e.heap, g, e.at)
  BY <1>2, ReadyNow, GridExprsGood DEF Is
<1>4. ExprView(e) \in Abstract!GridExprs
  BY <1>3, GridExprView, ViewsNow DEF Inv
<1> QED BY <1>1, <1>2, <1>3, <1>4, AssignView DEF Abstract!BindGrid

-----------------------------------------------------------------------------
(* Loops. *)

LEMMA LoopBeginView ==
  ASSUME Inv, NEW g \in Usable(GridVars), LoopBegin(g)
  PROVE  g \in Abstract!Bound(GridVars) /\ Abstract!LoopBegin(g)
<1> DEFINE n == Len(heap[loc[g]].data)
           lp == [list |-> loc[g], len |-> n, next |-> 1]
           v == ValueIn(heap, loc[g])
<1>1. loop = None /\ Commit(heap, loc, place, call, lp)
  BY DEF LoopBegin
<1>2. HeapOK(heap) /\ EnvOK(heap, loc)
  BY DEF Inv, Good
<1>3. Seen(loc, call, g) /\ g \in GridVars
  BY DEF Usable, Busy, Seen, Vars
<1>4. AbstractEnv[g] = v /\ AbstractEnv[g] # Unbound /\ IsGrid(heap, loc[g])
  BY <1>2, <1>3, SeenValue, ViewsNow DEF Is
<1>5. v \in Seqs /\ Len(v) = n /\ n \in Nat
  BY <1>2, <1>4, GridValue
<1>6. Made(heap, loc, place, call, lp)
  BY <1>1, LoopBeginMade
<1>7. /\ AbstractEnv' = AbstractEnv /\ AbstractPlace' = AbstractPlace
      /\ AbstractCall' = AbstractCall /\ AbstractLoop' = LoopView(heap, lp)
  <2> HIDE DEF lp
  <2> QED BY <1>1, <1>6, CommitViews, ViewsNow
<1>8. lp # None
  BY <1>4, <1>5, NoneAssumption DEF Loop, IsGrid
<1>9. LoopView(heap, lp) = [items |-> v, next |-> 1]
  <2>1. LoopView(heap, lp) = [items |-> SubSeq(v, 1, n), next |-> 1]
    BY <1>8 DEF LoopView, ItemsView
  <2> HIDE DEF v, n
  <2>2. SubSeq(v, 1, n) = v
    BY <1>5 DEF Seqs
  <2> QED BY <2>1, <2>2
<1>10. AbstractLoop = None
  BY <1>1 DEF AbstractLoop
<1> QED BY <1>3, <1>4, <1>7, <1>9, <1>10 DEF Abstract!LoopBegin, Abstract!Bound

LEMMA ItemsProperties ==
  ASSUME Inv, loop # None
  PROVE  /\ AbstractLoop = [items |-> ItemsView(heap, loop), next |-> loop.next]
         /\ AbstractLoop # None
         /\ ItemsView(heap, loop) \in Seqs
         /\ Len(ItemsView(heap, loop)) = loop.len
         /\ DOMAIN ItemsView(heap, loop) = 1..loop.len
         /\ \A i \in 1..loop.len :
              /\ i \in DOMAIN heap[loop.list].data
              /\ ItemsView(heap, loop)[i] = heap[heap[loop.list].data[i]].data
<1> DEFINE v == ValueIn(heap, loop.list)
           s == SubSeq(v, 1, loop.len)
<1>1. HeapOK(heap) /\ loop \in Loop /\ IsGrid(heap, loop.list) /\ loop.len <= Len(heap[loop.list].data)
  BY DEF Inv, Good, LoopOK
<1>2. loop.len \in Nat /\ loop.next \in Nat
  BY <1>1 DEF Loop
<1>3. /\ v = [i \in DOMAIN heap[loop.list].data |-> heap[heap[loop.list].data[i]].data]
      /\ v \in Seqs /\ Len(v) = Len(heap[loop.list].data) /\ Len(v) \in Nat
      /\ DOMAIN heap[loop.list].data = 1..Len(v)
  BY <1>1, GridValue
<1>4. \A i \in 1..loop.len :
        /\ i \in DOMAIN heap[loop.list].data
        /\ v[i] = heap[heap[loop.list].data[i]].data
  <2> SUFFICES ASSUME NEW i \in 1..loop.len
               PROVE  /\ i \in DOMAIN heap[loop.list].data
                      /\ v[i] = heap[heap[loop.list].data[i]].data
    OBVIOUS
  <2>1. loop.len <= Len(v)
    BY <1>1, <1>3
  <2> HIDE DEF v
  <2>2. i \in DOMAIN heap[loop.list].data
    BY <1>2, <1>3, <2>1
  <2> QED BY <1>3, <2>2
<1>5. loop.len <= Len(v)
  BY <1>1, <1>3
<1> HIDE DEF v
<1>6. /\ s \in Seqs /\ Len(s) = loop.len
      /\ \A i \in 1..loop.len : s[i] = v[i]
  <2> DEFINE n == loop.len
             S == Seq(Cell)
  <2>1. n \in Nat /\ v \in Seq(S) /\ Len(v) \in Nat /\ n <= Len(v) /\ s = SubSeq(v, 1, n)
    BY <1>2, <1>3, <1>5 DEF Seqs
  <2> HIDE DEF n, S, s
  <2>2. s \in Seq(S) /\ Len(s) = n /\ \A i \in 1..n : s[i] = v[i]
    BY <2>1
  <2> QED BY <2>2 DEF n, S, Seqs
<1>7. DOMAIN s = 1..loop.len
  BY <1>6 DEF Seqs
<1>8. ItemsView(heap, loop) = s
  BY DEF ItemsView, v
<1> HIDE DEF s
<1>9. AbstractLoop = [items |-> s, next |-> loop.next]
  BY <1>8, ViewsNow DEF LoopView
<1>10. AbstractLoop # None
  BY <1>2, <1>6, <1>9, ViewAssumption DEF Seqs
<1> QED BY <1>4, <1>6, <1>7, <1>8, <1>9, <1>10

LEMMA LoopStepView ==
  ASSUME Inv, NEW x \in Targets(RowVars), LoopStep(x)
  PROVE  Abstract!LoopStep(x)
<1> DEFINE a == heap[loop.list].data[loop.next]
           h == Mark(heap, a)
           lp == [loop EXCEPT !.next = loop.next + 1]
           s == ItemsView(heap, loop)
<1>1. loop # None /\ loop.next <= loop.len /\ Commit(h, [loc EXCEPT ![x] = a], place, call, lp)
  BY DEF LoopStep
<1>2. /\ IsRow(heap, a) /\ Good(h, loc, call) /\ Extends(heap, h)
      /\ lp # None /\ Made(h, [loc EXCEPT ![x] = a], place, call, lp)
  <2> HIDE DEF a
  <2> QED BY <1>1, LoopStepMade DEF a
<1>3. /\ HeapOK(heap) /\ HeapOK(h) /\ EnvOK(heap, loc) /\ Good(heap, loc, call)
      /\ LoopOK(heap, loop) /\ loop \in Loop /\ loop.next \in 1..loop.len
  <2> HIDE DEF h, a, lp
  <2>1. Good(heap, loc, call) /\ LoopOK(heap, loop)
    BY DEF Inv
  <2>2. HeapOK(heap) /\ EnvOK(heap, loc) /\ HeapOK(h)
    BY <1>2, <2>1 DEF Good
  <2>3. loop \in Loop /\ loop.next \in 1..loop.len
    BY <1>1, <2>1 DEF LoopOK, Loop
  <2> QED BY <2>1, <2>2, <2>3
<1>4. lp.list = loop.list /\ lp.len = loop.len /\ lp.next = loop.next + 1
  BY <1>3 DEF Loop
<1>5. SameValues(heap, h) /\ EnvView(h, loc, call) = AbstractEnv
  <2> HIDE DEF h, a, lp
  <2>1. SameValues(heap, h)
    BY <1>2, <1>3, ExtendsValues
  <2> QED BY <1>3, <2>1, SameEnv, ViewsNow
<1>6. CallView(h, call) = AbstractCall /\ LoopView(h, loop) = AbstractLoop
  <2> HIDE DEF h, a, lp
  <2> QED BY <1>3, <1>5, SameCall, SameLoop, ViewsNow
<1>7. /\ AbstractLoop = [items |-> s, next |-> loop.next] /\ AbstractLoop # None
      /\ DOMAIN s = 1..loop.len /\ s[loop.next] = heap[a].data
  BY <1>1, <1>3, ItemsProperties
<1>8. ValueIn(h, a) = s[loop.next] /\ a \in Addr
  BY <1>2, <1>5, <1>7, RowValue, RowFields DEF SameValues, IsRow
<1> HIDE DEF a, h, lp, s
<1>9. /\ AbstractEnv' = EnvView(h, [loc EXCEPT ![x] = a], call)
      /\ AbstractPlace' = AbstractPlace
      /\ AbstractCall' = CallView(h, call) /\ AbstractLoop' = LoopView(h, lp)
  BY <1>1, <1>2, CommitViews, ViewsNow
<1>10. AbstractEnv' = Rebind(AbstractEnv, x, s[loop.next])
  <2>1. x \in Vars /\ (call # None => call.root # x) /\ loc \in [Vars -> Addr \cup {Unbound}]
    BY <1>3 DEF Targets, Busy, EnvOK, Vars
  <2>2. AbstractEnv' = EnvView(h, Rebind(loc, x, a), call)
    BY <1>9 DEF Rebind
  <2>3. AbstractEnv' = Rebind(EnvView(h, loc, call), x, ValueIn(h, a))
    BY <1>8, <2>1, <2>2, BindView
  <2> QED BY <1>5, <1>8, <2>3
<1>11. LoopView(h, lp) = [items |-> s, next |-> loop.next + 1]
  <2>1. LoopView(h, lp) = [items |-> ItemsView(h, loop), next |-> loop.next + 1]
    BY <1>2, <1>4 DEF LoopView, ItemsView
  <2>2. loop.list \in Addr /\ heap[loop.list] # None
    BY <1>1, <1>3, GridFields DEF LoopOK, IsGrid
  <2>3. ItemsView(h, loop) = s
    BY <1>5, <2>2 DEF ItemsView, SameValues, s
  <2> QED BY <2>1, <2>3
<1>12. AbstractLoop.items = s /\ AbstractLoop.next = loop.next
  BY <1>7
<1>13. AbstractLoop.next \in DOMAIN AbstractLoop.items
  BY <1>3, <1>7, <1>12
<1>14. AbstractEnv' = [AbstractEnv EXCEPT ![x] = AbstractLoop.items[AbstractLoop.next]]
  BY <1>10, <1>12 DEF Rebind
<1>15. AbstractLoop' = [items |-> AbstractLoop.items, next |-> AbstractLoop.next + 1]
  BY <1>9, <1>11, <1>12
<1> QED BY <1>6, <1>7, <1>9, <1>13, <1>14, <1>15 DEF Abstract!LoopStep

LEMMA LoopEndView ==
  ASSUME Inv, LoopEnd
  PROVE  Abstract!LoopEnd
<1>1. loop # None /\ loop.next > loop.len /\ Commit(heap, loc, place, call, None)
  BY DEF LoopEnd
<1>2. Made(heap, loc, place, call, None)
  BY LoopEndMade
<1>3. /\ AbstractEnv' = AbstractEnv /\ AbstractPlace' = AbstractPlace
      /\ AbstractCall' = AbstractCall /\ AbstractLoop' = None
  BY <1>1, <1>2, CommitViews, ViewsNow DEF LoopView
<1>4. /\ AbstractLoop # None /\ AbstractLoop.next = loop.next
      /\ Len(AbstractLoop.items) = loop.len
  BY <1>1, ItemsProperties
<1> QED BY <1>1, <1>3, <1>4 DEF Abstract!LoopEnd

-----------------------------------------------------------------------------
(* Places. *)

(* The value at a path and the value with what is there replaced, for the   *)
(* paths of containers.                                                     *)
LEMMA PathValues ==
  ASSUME NEW v, NEW w, NEW i
  PROVE  /\ Abstract!ValueAt(v, <<>>) = v /\ Abstract!With(v, <<>>, w) = w
         /\ Abstract!ValueAt(v, <<i>>) = v[i] /\ Abstract!With(v, <<i>>, w) = [v EXCEPT ![i] = w]
<1>1. <<i>> # <<>> /\ Len(<<i>>) = 1 /\ <<i>>[1] = i
  OBVIOUS
<1> QED BY <1>1 DEF Abstract!ValueAt, Abstract!With

LEMMA PathForm ==
  ASSUME NEW x, NEW path \in Containers(x)
  PROVE  path = <<>> \/ (path # <<>> /\ path = <<path[1]>> /\ x \in GridVars
                         /\ path[1] \in DOMAIN heap[loc[x]].data)
<1>1. CASE path = <<>>
  BY <1>1
<1>2. ASSUME x \in GridVars, NEW i \in DOMAIN heap[loc[x]].data, path = <<i>>
      PROVE  path # <<>> /\ path = <<path[1]>> /\ path[1] \in DOMAIN heap[loc[x]].data
  BY <1>2
<1> QED BY <1>1, <1>2 DEF Containers

LEMMA ContainerView ==
  ASSUME Inv, NEW x \in Usable(Vars), NEW path \in Containers(x)
  PROVE  /\ Seen(loc, call, x) /\ x \in Abstract!Bound(Vars)
         /\ AbstractEnv[x] = ValueIn(heap, loc[x])
         /\ path \in Abstract!Containers(x)
<1>1. HeapOK(heap) /\ EnvOK(heap, loc)
  BY DEF Inv, Good
<1>2. Seen(loc, call, x)
  BY DEF Usable, Busy, Seen
<1>3. /\ AbstractEnv[x] = ValueIn(heap, loc[x]) /\ AbstractEnv[x] # Unbound
      /\ Is(heap, x, loc[x]) /\ x \in Vars
  BY <1>1, <1>2, SeenValue, ViewsNow DEF Seen
<1>4. x \in Abstract!Bound(Vars)
  BY <1>3 DEF Abstract!Bound, Abstract!Vars, Vars
<1>5. path \in Abstract!Containers(x)
  <2>1. CASE path = <<>>
    BY <2>1 DEF Abstract!Containers
  <2>2. CASE path # <<>>
    <3>1. x \in GridVars /\ path = <<path[1]>> /\ path[1] \in DOMAIN heap[loc[x]].data
      BY <2>2, PathForm
    <3>2. DOMAIN AbstractEnv[x] = DOMAIN heap[loc[x]].data
      BY <1>1, <1>3, <3>1, GridValue DEF Is
    <3>3. path[1] \in Abstract!IndexOf(x)
      BY <1>3, <3>1, <3>2 DEF Abstract!IndexOf
    <3> QED BY <3>1, <3>3 DEF Abstract!Containers
  <2> QED BY <2>1, <2>2
<1> QED BY <1>2, <1>3, <1>4, <1>5

(* The list a walk ends at has the value that was at the path. *)
LEMMA WalkList ==
  ASSUME NEW h, NEW env, NEW cl, NEW x, NEW path, path = <<>> \/ path = <<path[1]>>,
         Reachable(h, env, cl, x, path), NEW w, Walked(h, env, cl, x, path, w)
  PROVE  /\ ValueIn(w.heap, w.list) = Abstract!ValueAt(ValueIn(h, env[x]), path)
         /\ DOMAIN w.heap[w.list].data = DOMAIN ValueIn(w.heap, w.list)
         /\ IsRow(w.heap, w.list) \/ IsGrid(w.heap, w.list)
<1>1. HeapOK(w.heap) /\ ValueIn(w.heap, w.root) = ValueIn(h, env[x])
  BY DEF Walked, Good
<1>2. CASE path = <<>>
  <2>1. w.list = w.root /\ Is(w.heap, x, w.root)
    BY <1>2 DEF Walked
  <2>2. DOMAIN w.heap[w.list].data = DOMAIN ValueIn(w.heap, w.list)
    BY DEF ValueIn
  <2> QED BY <1>1, <1>2, <2>1, <2>2, PathValues DEF Is
<1>3. CASE path # <<>>
  <2>1. IsRow(w.heap, w.list) /\ IsGrid(w.heap, w.root)
    BY <1>3, ListKind
  <2>2. w.list = w.heap[w.root].data[path[1]] /\ path[1] \in DOMAIN w.heap[w.root].data
    BY <1>3 DEF Walked
  <2>3. ValueIn(w.heap, w.list) = w.heap[w.list].data
    BY <2>1, RowValue
  <2>4. ValueIn(w.heap, w.root)[path[1]] = w.heap[w.list].data
    BY <1>1, <2>1, <2>2, GridValue
  <2>5. Abstract!ValueAt(ValueIn(h, env[x]), path) = ValueIn(h, env[x])[path[1]]
    <3>1. Len(path) = 1
      BY <1>3
    <3> QED BY <1>3, <3>1 DEF Abstract!ValueAt
  <2> QED BY <1>1, <2>1, <2>3, <2>4, <2>5
<1> QED BY <1>2, <1>3

LEMMA PlaceBeginView ==
  ASSUME Inv, NEW x \in Writable(Vars), NEW p \in Containers(x), NEW i \in 1..(MaxRow + MaxGrid),
         PlaceBegin(x, Append(p, i))
  PROVE  /\ x \in Abstract!Bound(Vars) /\ p \in Abstract!Containers(x)
         /\ i \in DOMAIN Abstract!ValueAt(AbstractEnv[x], p)
         /\ Abstract!PlaceBegin(x, Append(p, i))
<1> DEFINE w == WalkTo(heap, loc[x], p)
           pl == [root |-> x, path |-> Append(p, i), list |-> w.list]
<1>1. x \in Usable(Vars)
  BY DEF Writable
<1>2. Front(Append(p, i)) = p /\ Last(Append(p, i)) = i
  BY <1>1, AppendFrontLast
<1>3. /\ place = None /\ WalkRoom /\ i \in DOMAIN w.heap[w.list].data
      /\ Commit(w.heap, [loc EXCEPT ![x] = w.root], pl, call, loop)
  BY <1>2 DEF PlaceBegin
<1> HIDE DEF w
<1>4. /\ Walked(heap, loc, call, x, p, w)
      /\ Made(w.heap, [loc EXCEPT ![x] = w.root], pl, call, loop)
  BY <1>3, PlaceBeginMade DEF w
<1>5. Reachable(heap, loc, call, x, p)
  BY <1>1, ReachableNow
<1>6. /\ x \in Abstract!Bound(Vars) /\ p \in Abstract!Containers(x)
      /\ AbstractEnv[x] = ValueIn(heap, loc[x])
  BY <1>1, ContainerView
<1>7. i \in DOMAIN Abstract!ValueAt(AbstractEnv[x], p)
  BY <1>3, <1>4, <1>5, <1>6, PathForm, WalkList
<1>8. pl \in Place /\ pl # None /\ pl.root = x /\ pl.path = Append(p, i)
  <2>1. pl.list = w.list
    OBVIOUS
  <2>2. x \in Vars /\ w.list \in Addr
    BY <1>1, <1>4 DEF Usable, Walked
  <2>3. Append(p, i) \in Seq(Nat)
    <3>1. i \in Nat
      BY CowBoundsAssumption
    <3>2. p \in Seq(Nat)
      <4>1. CASE p = <<>>
        BY <4>1
      <4>2. CASE p # <<>>
        <5>1. x \in GridVars /\ p = <<p[1]>> /\ p[1] \in DOMAIN heap[loc[x]].data
          BY <4>2, PathForm
        <5>2. heap[loc[x]] \in Row \cup Grid
          BY <1>1, <5>1, VarsAssumption DEF Inv, Good, EnvOK, Is, IsGrid, Usable
        <5>3. p[1] \in Nat
          BY <5>1, <5>2, DataLength
        <5>4. <<p[1]>> \in Seq(Nat)
          BY <5>3
        <5> QED BY <5>1, <5>4, Zenon
      <4> QED BY <4>1, <4>2
    <3> QED BY <3>1, <3>2
  <2>4. pl \in Place
    <3> DEFINE q == Append(p, i)
    <3> HIDE DEF q
    <3> QED BY <2>2, <2>3 DEF Place, q
  <2> QED BY <2>4, NoneAssumption
<1>9. /\ SameValues(heap, w.heap) /\ EnvView(w.heap, [loc EXCEPT ![x] = w.root], call) = AbstractEnv
      /\ CallView(w.heap, call) = AbstractCall /\ LoopView(w.heap, loop) = AbstractLoop
  BY <1>4, <1>5, WalkValues, WalkEnv, SameCall, SameLoop, ViewsNow DEF Inv
<1>10. PlaceView(pl) = [root |-> x, path |-> Append(p, i)]
  BY <1>8 DEF PlaceView
<1> HIDE DEF pl
<1>11. /\ AbstractEnv' = AbstractEnv /\ AbstractPlace' = PlaceView(pl)
       /\ AbstractCall' = AbstractCall /\ AbstractLoop' = AbstractLoop
  BY <1>3, <1>4, <1>9, CommitViews
<1>12. AbstractPlace = None
  BY <1>3 DEF AbstractPlace
<1> QED BY <1>6, <1>7, <1>10, <1>11, <1>12 DEF Abstract!PlaceBegin

-----------------------------------------------------------------------------
(* Storing cells into a row. *)

LEMMA UntouchedValue ==
  ASSUME NEW h, HeapOK(h), NEW a, IsRow(h, a), NEW g, \A c \in Addr : c # a => g[c] = h[c],
         NEW b, IsRow(h, b) \/ IsGrid(h, b), b # a,
         h[b] \in Grid => \A j \in DOMAIN h[b].data : h[b].data[j] # a
  PROVE  ValueIn(g, b) = ValueIn(h, b)
<1>1. b \in Addr /\ g[b] = h[b]
  BY DEF IsRow, IsGrid
<1>2. CASE IsRow(h, b)
  BY <1>1, <1>2, RowFields DEF IsRow, ValueIn
<1>3. CASE IsGrid(h, b)
  <2>1. \A j \in DOMAIN h[b].data : g[h[b].data[j]] = h[h[b].data[j]]
    BY <1>3, RowsOf DEF IsGrid, IsRow
  <2>2. h[b].grid
    BY <1>3, GridFields DEF IsGrid
  <2> QED BY <1>1, <2>1, <2>2 DEF ValueIn
<1> QED BY <1>2, <1>3

(* Row a is where `path` leads in what variable x names. *)
At(h, env, x, path, a) ==
  \/ path = <<>> /\ a = env[x]
  \/ \E i : /\ path = <<i>> /\ x \in GridVars /\ i \in DOMAIN h[env[x]].data
            /\ a = h[env[x]].data[i]

LEMMA NamedSlot ==
  ASSUME NEW h, NEW env, NEW cl, Good(h, env, cl), NEW x \in GridVars, Seen(env, cl, x),
         NEW i \in DOMAIN h[env[x]].data
  PROVE  IsGrid(h, env[x]) /\ SlotName(h, cl, h[env[x]].data[i], env[x], i)
<1>1. IsGrid(h, env[x])
  BY DEF Good, EnvOK, Is, Seen
<1>2. cl # None /\ cl.path # <<>> => env[x] # cl.list
  BY NotLent DEF Seen
<1>3. ~LentSlot(cl, env[x], i)
  BY <1>2, LentPath
<1> QED BY <1>1, <1>3 DEF SlotName, IsGrid

LEMMA RowStoreOthers ==
  ASSUME NEW h, NEW env, NEW cl, Good(h, env, cl), NEW x, Seen(env, cl, x), ~h[env[x]].shared,
         NEW path, NEW a, At(h, env, x, path, a), IsRow(h, a), ~h[a].shared,
         NEW g, \A c \in Addr : c # a => g[c] = h[c]
  PROVE  /\ \A y : y # x /\ Seen(env, cl, y) => ValueIn(g, env[y]) = ValueIn(h, env[y])
         /\ CallView(g, cl) = CallView(h, cl)
         /\ \A b : IsGrid(h, b) /\ b # env[x] /\ (cl # None /\ cl.path # <<>> => b # cl.list)
              => ValueIn(g, b) = ValueIn(h, b)
<1>1. /\ HeapOK(h) /\ EnvOK(h, env) /\ CallOK(h, env, cl) /\ Single(h, env, cl)
      /\ x \in Vars /\ env[x] \in Addr /\ h[env[x]] # None
  <2>1. HeapOK(h) /\ EnvOK(h, env) /\ CallOK(h, env, cl) /\ Single(h, env, cl)
    BY DEF Good
  <2>2. env[x] \in Addr /\ h[env[x]] # None
    BY <2>1, RowFields, GridFields DEF Seen, EnvOK, Is, IsRow, IsGrid
  <2> QED BY <2>1, <2>2 DEF Seen
<1>2. OneName(h, env, cl, a) /\ OneName(h, env, cl, env[x])
  BY <1>1, RowFields DEF Single, IsRow
<1>3. VarName(env, cl, env[x], x)
  BY <1>1 DEF VarName, LentVar, Seen
<1>4. VarName(env, cl, a, x) \/ \E i : SlotName(h, cl, a, env[x], i)
  BY <1>3, NamedSlot DEF At
<1>5. ASSUME NEW b, NEW j, SlotName(h, cl, a, b, j)
      PROVE  b = env[x]
  BY <1>2, <1>4, <1>5 DEF OneName
<1>6. ASSUME NEW y, y # x, Seen(env, cl, y)
      PROVE  ValueIn(g, env[y]) = ValueIn(h, env[y])
  <2>1. VarName(env, cl, env[y], y)
    BY <1>6 DEF VarName, LentVar, Seen
  <2>2. env[y] # a /\ env[y] # env[x]
    BY <1>2, <1>3, <1>4, <1>6, <2>1 DEF OneName
  <2>3. Is(h, y, env[y])
    BY <1>1, <1>6 DEF EnvOK, Seen
  <2>4. ASSUME h[env[y]] \in Grid, NEW j \in DOMAIN h[env[y]].data
        PROVE  h[env[y]].data[j] # a
    <3>1. y \in GridVars
      BY <2>3, <2>4, RowFields DEF Is, IsRow
    <3> QED BY <1>5, <1>6, <2>2, <2>4, <3>1, NamedSlot
  <2> QED BY <1>1, <2>2, <2>3, <2>4, UntouchedValue DEF Is
<1>7. ASSUME NEW b, IsGrid(h, b), b # env[x], cl # None /\ cl.path # <<>> => b # cl.list
      PROVE  ValueIn(g, b) = ValueIn(h, b)
  <2>1. b # a
    BY <1>7, RowFields DEF IsRow, IsGrid
  <2>2. \A j \in DOMAIN h[b].data : h[b].data[j] # a
    <3> SUFFICES ASSUME NEW j \in DOMAIN h[b].data, h[b].data[j] = a
                 PROVE  FALSE
      OBVIOUS
    <3>1. ~LentSlot(cl, b, j)
      BY <1>7, LentPath
    <3>2. SlotName(h, cl, a, b, j)
      BY <1>7, <3>1 DEF SlotName, IsGrid
    <3> QED BY <1>5, <1>7, <3>2
  <2> QED BY <1>1, <1>7, <2>1, <2>2, UntouchedValue
<1>8. CallView(g, cl) = CallView(h, cl)
  <2>1. CASE cl = None \/ cl.path = <<>>
    BY <2>1 DEF CallView, RestView
  <2>2. CASE cl # None /\ cl.path # <<>>
    <3> DEFINE b == cl.list
               k == cl.path[1]
    <3>1. /\ cl.root \in GridVars /\ cl.root \in Vars /\ env[cl.root] = b /\ env[cl.root] # Unbound
          /\ x # cl.root
      BY <1>1, <2>2 DEF CallOK, Call, Seen
    <3>2. IsGrid(h, b) /\ b # env[x]
      <4>1. IsGrid(h, b)
        BY <1>1, <3>1 DEF EnvOK, Is
      <4> QED BY <1>1, <2>2, <3>1, <4>1, NotLent DEF Seen
    <3>3. ASSUME NEW j \in DOMAIN h[b].data, j # k
          PROVE  h[b].data[j] # a
      <4> SUFFICES ASSUME h[b].data[j] = a
                   PROVE  FALSE
        OBVIOUS
      <4>1. ~LentSlot(cl, b, j)
        BY <3>3 DEF LentSlot
      <4>2. SlotName(h, cl, a, b, j)
        BY <3>2, <3>3, <4>1 DEF SlotName, IsGrid
      <4> QED BY <1>5, <3>2, <4>2
    <3>4. b # a /\ g[b] = h[b] /\ h[b].grid
      BY <3>2, RowFields, GridFields DEF IsRow, IsGrid
    <3>5. \A j \in DOMAIN h[b].data : h[b].data[j] \in Addr
      BY <1>1, <3>2, RowsOf DEF IsRow
    <3> HIDE DEF k
    <3>6. [ValueIn(g, b) EXCEPT ![k] = Unbound] = [ValueIn(h, b) EXCEPT ![k] = Unbound]
      <4>1. /\ ValueIn(g, b) = [j \in DOMAIN h[b].data |-> g[h[b].data[j]].data]
            /\ ValueIn(h, b) = [j \in DOMAIN h[b].data |-> h[h[b].data[j]].data]
        BY <3>4 DEF ValueIn
      <4>2. \A j \in DOMAIN h[b].data : j # k => g[h[b].data[j]] = h[h[b].data[j]]
        BY <3>3, <3>5
      <4> HIDE DEF b
      <4> QED BY <4>1, <4>2
    <3>7. RestView(g, cl) = RestView(h, cl)
      BY <2>2, <3>6 DEF RestView, k
    <3> QED BY <3>7 DEF CallView
  <2> QED BY <2>1, <2>2
<1> QED BY <1>6, <1>7, <1>8

LEMMA RowStoreView ==
  ASSUME NEW h, NEW env, NEW pl, NEW cl, NEW lp, Made(h, env, pl, cl, lp), LoopApart(cl, lp),
         NEW x, Seen(env, cl, x), ~h[env[x]].shared, lp # None => lp.list # env[x],
         NEW path, NEW a, At(h, env, x, path, a), IsRow(h, a), ~h[a].shared, NEW d \in Seq(Cell)
  PROVE  LET view == EnvView(h, env, cl)
             g == Store(h, a, d)
         IN /\ EnvView(g, env, cl) = Rebind(view, x, Abstract!With(view[x], path, d))
            /\ CallView(g, cl) = CallView(h, cl) /\ LoopView(g, lp) = LoopView(h, lp)
<1> DEFINE view == EnvView(h, env, cl)
           g == Store(h, a, d)
           v == Abstract!With(view[x], path, d)
<1>1. Good(h, env, cl) /\ HeapOK(h) /\ EnvOK(h, env) /\ CallOK(h, env, cl) /\ Single(h, env, cl) /\ LoopOK(h, lp)
  BY DEF Made, Good
<1>2. g[a].data = d /\ (\A c \in Addr : c # a => g[c] = h[c]) /\ IsRow(g, a)
  BY <1>1, StoreRowGood
<1> HIDE DEF g
<1>3. /\ \A y : y # x /\ Seen(env, cl, y) => ValueIn(g, env[y]) = ValueIn(h, env[y])
      /\ CallView(g, cl) = CallView(h, cl)
      /\ \A b : IsGrid(h, b) /\ b # env[x] /\ (cl # None /\ cl.path # <<>> => b # cl.list)
           => ValueIn(g, b) = ValueIn(h, b)
  BY <1>1, <1>2, RowStoreOthers
<1>4. LoopView(g, lp) = LoopView(h, lp)
  <2>1. lp # None => ValueIn(g, lp.list) = ValueIn(h, lp.list)
    BY <1>1, <1>3 DEF LoopOK, LoopApart
  <2> QED BY <2>1 DEF LoopView, ItemsView
<1>5. view[x] = ValueIn(h, env[x]) /\ Is(h, x, env[x]) /\ x \in Vars /\ env[x] # Unbound
  BY <1>1, SeenValue DEF Seen
<1>6. ValueIn(g, a) = d
  BY <1>2, RowValue
<1>7. ValueIn(g, env[x]) = v
  <2>1. CASE path = <<>> /\ a = env[x]
    BY <1>6, <2>1, PathValues
  <2>2. ASSUME NEW i, path = <<i>>, x \in GridVars, i \in DOMAIN h[env[x]].data, a = h[env[x]].data[i]
        PROVE  ValueIn(g, env[x]) = v
    <3> DEFINE b == env[x]
    <3>1. IsGrid(h, b) /\ h[b].grid /\ b # a /\ g[b] = h[b]
      BY <1>2, <1>5, <2>2, RowFields, GridFields DEF Is, IsGrid, IsRow
    <3>2. \A j \in DOMAIN h[b].data : SlotName(h, cl, h[b].data[j], b, j) /\ h[b].data[j] \in Addr
      BY <1>1, <2>2, <3>1, NamedSlot, RowsOf DEF IsRow
    <3>3. OneName(h, env, cl, a)
      BY <1>1, RowFields DEF Single, IsRow
    <3>4. \A j \in DOMAIN h[b].data : j # i => h[b].data[j] # a
      BY <2>2, <3>2, <3>3 DEF OneName
    <3>5. /\ ValueIn(g, b) = [j \in DOMAIN h[b].data |-> g[h[b].data[j]].data]
          /\ ValueIn(h, b) = [j \in DOMAIN h[b].data |-> h[h[b].data[j]].data]
      BY <3>1 DEF ValueIn
    <3>6. \A j \in DOMAIN h[b].data : j # i => g[h[b].data[j]] = h[h[b].data[j]]
      BY <1>2, <3>2, <3>4
    <3>7. g[h[b].data[i]].data = d
      BY <1>2, <2>2
    <3> HIDE DEF b
    <3>8. ValueIn(g, b) = [ValueIn(h, b) EXCEPT ![i] = d]
      BY <3>5, <3>6, <3>7
    <3>9. v = [view[x] EXCEPT ![i] = d]
      BY <2>2, PathValues
    <3> QED BY <1>5, <3>8, <3>9 DEF b
  <2> QED BY <2>1, <2>2 DEF At
<1> HIDE DEF v
<1>8. EnvView(g, env, cl) = Rebind(view, x, v)
  <2>1. \A y \in Vars : EnvView(g, env, cl)[y] = IF y = x THEN v ELSE view[y]
    <3> SUFFICES ASSUME NEW y \in Vars
                 PROVE  EnvView(g, env, cl)[y] = IF y = x THEN v ELSE view[y]
      OBVIOUS
    <3>1. CASE y = x
      BY <1>7, <3>1 DEF EnvView, Seen
    <3>2. CASE y # x /\ Seen(env, cl, y)
      BY <1>3, <3>2 DEF EnvView, Seen
    <3>3. CASE y # x /\ ~Seen(env, cl, y)
      BY <3>3, UnseenValue
    <3> QED BY <3>1, <3>2, <3>3
  <2>2. EnvView(g, env, cl) = [y \in Vars |-> EnvView(g, env, cl)[y]] /\ view = [y \in Vars |-> view[y]]
    BY DEF EnvView
  <2> DEFINE e == EnvView(g, env, cl)
  <2> HIDE DEF view, e
  <2> QED BY <2>1, <2>2 DEF Rebind, e
<1> QED BY <1>3, <1>4, <1>8 DEF g, v

LEMMA PushCellView ==
  ASSUME PrivateInv, ~BodyWritesIterable, NEW x \in Writable(Vars), NEW path \in RowPlaces(x),
         NEW c \in Cell, PushCell(x, path, c)
  PROVE  /\ x \in Abstract!Bound(Vars) /\ path \in Abstract!Containers(x)
         /\ x \in RowVars \/ path # <<>>
         /\ Abstract!PushCell(x, path, c)
<1> DEFINE w == WalkTo(heap, loc[x], path)
           env == [loc EXCEPT ![x] = w.root]
           d == Append(w.heap[w.list].data, c)
<1>1. WalkRoom /\ Commit(Store(w.heap, w.list, d), env, place, call, loop) /\ Inv
      /\ LoopApart(call, loop)
  BY DEF PushCell, PrivateInv
<1>2. x \in Usable(Vars) /\ path \in Containers(x) /\ x \in Vars
      /\ (x \in GridVars => path # <<>>) /\ (x \notin GridVars => path = <<>>)
  BY DEF Writable, Usable, RowPlaces, Containers
<1> HIDE DEF w
<1>3. /\ Walked(heap, loc, call, x, path, w) /\ IsRow(w.heap, w.list)
      /\ Made(Store(w.heap, w.list, d), env, place, call, loop)
  BY <1>1, PushCellMade DEF w
<1>4. Reachable(heap, loc, call, x, path)
  BY <1>1, <1>2, ReachableNow
<1>5. Made(w.heap, env, place, call, loop)
  BY <1>1, <1>4, WalkMade DEF w
<1>6. /\ Seen(loc, call, x) /\ x \in Abstract!Bound(Vars) /\ path \in Abstract!Containers(x)
      /\ AbstractEnv[x] = ValueIn(heap, loc[x])
  BY <1>1, <1>2, ContainerView
<1>7. /\ EnvView(w.heap, env, call) = AbstractEnv
      /\ CallView(w.heap, call) = AbstractCall /\ LoopView(w.heap, loop) = AbstractLoop
  BY <1>1, <1>3, <1>4, WalkValues, WalkEnv, SameCall, SameLoop, ViewsNow DEF Inv
<1>8. env[x] = w.root /\ w.root \in Addr /\ Seen(env, call, x)
  <2>1. env[x] = w.root /\ w.root \in Addr
    BY <1>1, <1>2, <1>3 DEF Inv, Good, EnvOK, Walked, Is, IsRow, IsGrid
  <2> QED BY <1>6, <2>1, UnboundAssumption DEF Seen
<1>9. /\ ~w.heap[w.root].shared /\ ~w.heap[w.list].shared
      /\ loop # None => loop.list # w.root
  BY <1>1, <1>3, LoopElsewhere DEF Walked
<1>10. path = <<>> \/ path = <<path[1]>>
  BY <1>2, PathForm
<1>11. At(w.heap, env, x, path, w.list)
  <2>1. CASE path = <<>>
    BY <1>3, <1>8, <2>1 DEF At, Walked
  <2>2. CASE path # <<>>
    <3>1. x \in GridVars /\ path[1] \in DOMAIN w.heap[w.root].data /\ w.list = w.heap[w.root].data[path[1]]
      BY <1>2, <1>3, <2>2 DEF Walked
    <3> QED BY <1>8, <1>10, <2>2, <3>1 DEF At
  <2> QED BY <2>1, <2>2
<1>12. ValueIn(w.heap, w.list) = Abstract!ValueAt(AbstractEnv[x], path)
  BY <1>3, <1>4, <1>6, <1>10, WalkList
<1>13. d = Append(Abstract!ValueAt(AbstractEnv[x], path), c) /\ d \in Seq(Cell)
  <2>1. ValueIn(w.heap, w.list) = w.heap[w.list].data /\ w.heap[w.list].data \in Seq(Cell)
    BY <1>3, RowValue
  <2> QED BY <1>12, <2>1
<1> HIDE DEF env, d
<1>14. /\ EnvView(Store(w.heap, w.list, d), env, call)
            = Rebind(AbstractEnv, x, Abstract!With(AbstractEnv[x], path, d))
       /\ CallView(Store(w.heap, w.list, d), call) = AbstractCall
       /\ LoopView(Store(w.heap, w.list, d), loop) = AbstractLoop
  <2> DEFINE h == w.heap
             a == w.list
  <2> HIDE DEF h, a
  <2>1. /\ Made(h, env, place, call, loop) /\ LoopApart(call, loop) /\ Seen(env, call, x)
        /\ ~h[env[x]].shared /\ (loop # None => loop.list # env[x])
        /\ At(h, env, x, path, a) /\ IsRow(h, a) /\ ~h[a].shared /\ d \in Seq(Cell)
    BY <1>1, <1>3, <1>5, <1>8, <1>9, <1>11, <1>13 DEF h, a
  <2>2. /\ EnvView(Store(h, a, d), env, call)
             = Rebind(EnvView(h, env, call), x, Abstract!With(EnvView(h, env, call)[x], path, d))
        /\ CallView(Store(h, a, d), call) = CallView(h, call)
        /\ LoopView(Store(h, a, d), loop) = LoopView(h, loop)
    BY <2>1, RowStoreView
  <2> QED BY <1>7, <2>2 DEF h, a
<1>15. /\ AbstractEnv' = Rebind(AbstractEnv, x, Abstract!With(AbstractEnv[x], path, d))
       /\ UNCHANGED <<AbstractPlace, AbstractCall, AbstractLoop>>
  BY <1>1, <1>3, <1>14, CommitViews, ViewsNow
<1> QED BY <1>2, <1>6, <1>13, <1>15, VarsApart DEF Abstract!PushCell, Rebind

LEMMA PlaceEndCellView ==
  ASSUME PrivateInv, NEW c \in Cell, PlaceEndCell(c)
  PROVE  Abstract!PlaceEndCell(c)
<1> DEFINE r == place.root
           a == place.list
           k == Last(place.path)
           path == IF Len(place.path) = 1 THEN <<>> ELSE <<place.path[1]>>
           d == [heap[a].data EXCEPT ![k] = c]
<1>1. /\ place # None /\ ~IsRowPlace /\ Inv
      /\ Commit(SetItem(heap, a, k, c), loc, None, call, loop)
  BY DEF PlaceEndCell, PrivateInv
<1>2. IsRow(heap, a) /\ Made(SetItem(heap, a, k, c), loc, None, call, loop)
  BY <1>1, PlaceEndCellMade
<1>3. /\ Made(heap, loc, place, call, loop) /\ PlaceKept(heap, loc, place, call, loop)
      /\ LoopApart(call, loop) /\ Good(heap, loc, call) /\ PlaceOK(heap, place)
  BY DEF PrivateInv, Inv, Made
<1>4. /\ place \in Place /\ r \in Vars /\ Len(place.path) \in 1..2
      /\ place.path[Len(place.path)] \in DOMAIN heap[a].data
      /\ r \in GridVars => Len(place.path) = 2
      /\ r \in RowVars => Len(place.path) = 1
  BY <1>1, <1>3 DEF PlaceOK, Place, IsRowPlace
<1>5. k = place.path[Len(place.path)]
  BY DEF Last
<1>6. /\ Seen(loc, call, r) /\ ~heap[loc[r]].shared /\ ~heap[a].shared
      /\ loop # None => loop.list # loc[r]
  BY <1>1, <1>3, <1>4 DEF PlaceKept, Seen
<1>7. At(heap, loc, r, path, a)
  <2>1. CASE Len(place.path) = 1
    BY <1>1, <1>3, <2>1 DEF PlaceKept, At
  <2>2. CASE Len(place.path) = 2
    <3>1. r \in GridVars /\ path = <<place.path[1]>>
      BY <1>4, <2>2 DEF Vars
    <3>2. place.path[1] \in DOMAIN heap[loc[r]].data /\ a = heap[loc[r]].data[place.path[1]]
      BY <1>1, <1>3, <2>2 DEF PlaceKept
    <3> QED BY <3>1, <3>2 DEF At
  <2> QED BY <1>4, <2>1, <2>2
<1>8. d \in Seq(Cell) /\ SetItem(heap, a, k, c) = Store(heap, a, d)
  <2> DEFINE s == heap[a].data
  <2>1. s \in Seq(Cell) /\ k \in DOMAIN s
    BY <1>2, <1>4, <1>5, RowFields DEF IsRow
  <2> HIDE DEF s, k
  <2>2. [s EXCEPT ![k] = c] \in Seq(Cell)
    BY <2>1
  <2> QED BY <2>2 DEF SetItem, s
<1>9. AbstractEnv[r] = ValueIn(heap, loc[r]) /\ Is(heap, r, loc[r])
  BY <1>3, <1>6, SeenValue, ViewsNow DEF Good
<1>10. Abstract!With(AbstractEnv[r], path, d) = Abstract!With(AbstractEnv[r], place.path, c)
  <2>1. CASE Len(place.path) = 1
    <3>1. a = loc[r] /\ path = <<>> /\ place.path # <<>> /\ k = place.path[1]
      BY <1>1, <1>3, <1>5, <2>1 DEF PlaceKept
    <3> HIDE DEF path
    <3>2. AbstractEnv[r] = heap[a].data
      BY <1>2, <1>9, <3>1, RowValue
    <3>3. Abstract!With(AbstractEnv[r], place.path, c) = [AbstractEnv[r] EXCEPT ![k] = c]
      BY <2>1, <3>1 DEF Abstract!With
    <3> HIDE DEF d
    <3>4. Abstract!With(AbstractEnv[r], path, d) = d
      BY <3>1, PathValues
    <3> QED BY <3>2, <3>3, <3>4 DEF d
  <2>2. CASE Len(place.path) = 2
    <3> DEFINE i == place.path[1]
               v == AbstractEnv[r]
    <3>1. /\ r \in GridVars /\ path = <<i>> /\ place.path # <<>> /\ k = place.path[2]
          /\ i \in DOMAIN heap[loc[r]].data /\ a = heap[loc[r]].data[i]
      BY <1>1, <1>3, <1>4, <1>5, <2>2 DEF PlaceKept, Vars
    <3>2. IsGrid(heap, loc[r])
      BY <1>9, <3>1 DEF Is
    <3>3. v[i] = heap[a].data
      <4> DEFINE g == loc[r]
      <4>1. v = ValueIn(heap, g) /\ IsGrid(heap, g) /\ HeapOK(heap) /\ i \in DOMAIN heap[g].data
        BY <1>3, <1>9, <3>1, <3>2 DEF Good
      <4>2. a = heap[g].data[i]
        BY <3>1
      <4> HIDE DEF v, g, i, d, path
      <4>3. ValueIn(heap, g) = [j \in DOMAIN heap[g].data |-> heap[heap[g].data[j]].data]
        BY <4>1, GridValue
      <4> QED BY <4>1, <4>2, <4>3
    <3> HIDE DEF v, i, d, path
    <3>4. Abstract!With(v, path, d) = [v EXCEPT ![i] = d]
      BY <3>1, PathValues
    <3>5. Abstract!With(v, place.path, c) = [v EXCEPT ![i] = [v[i] EXCEPT ![k] = c]]
      BY <2>2, <3>1 DEF Abstract!With, i
    <3> QED BY <3>3, <3>4, <3>5 DEF v, d
  <2> QED BY <1>4, <2>1, <2>2
<1> HIDE DEF path, d
<1>11. /\ EnvView(Store(heap, a, d), loc, call)
            = Rebind(EnvView(heap, loc, call), r, Abstract!With(EnvView(heap, loc, call)[r], path, d))
       /\ CallView(Store(heap, a, d), call) = CallView(heap, call)
       /\ LoopView(Store(heap, a, d), loop) = LoopView(heap, loop)
  <2> HIDE DEF r, a
  <2> QED BY <1>2, <1>3, <1>6, <1>7, <1>8, RowStoreView
<1>12. /\ AbstractEnv' = Rebind(AbstractEnv, r, Abstract!With(AbstractEnv[r], place.path, c))
       /\ AbstractPlace' = None /\ UNCHANGED <<AbstractCall, AbstractLoop>>
  <2>1. PlaceView(None) = None
    BY DEF PlaceView
  <2>2. /\ AbstractEnv' = EnvView(Store(heap, a, d), loc, call) /\ AbstractPlace' = None
        /\ AbstractCall' = CallView(Store(heap, a, d), call)
        /\ AbstractLoop' = LoopView(Store(heap, a, d), loop)
    BY <1>1, <1>2, <1>8, <2>1, CommitViews
  <2> QED BY <1>10, <1>11, <2>2, ViewsNow
<1>13. AbstractPlace # None /\ AbstractPlace.root = r /\ AbstractPlace.path = place.path
  <2>1. AbstractPlace = [root |-> r, path |-> place.path]
    BY <1>1 DEF AbstractPlace
  <2>2. AbstractPlace \in [root : Vars, path : Seq(Nat)]
    BY <1>4, <2>1 DEF Place
  <2> QED BY <2>1, <2>2, ViewAssumption
<1>14. ~Abstract!IsRowPlace
  BY <1>1, <1>13 DEF Abstract!IsRowPlace, IsRowPlace
<1> QED BY <1>12, <1>13, <1>14 DEF Abstract!PlaceEndCell, Rebind

-----------------------------------------------------------------------------
(* Storing rows into a grid. *)

(* The value of a grid with the rows d. *)
RowsIn(h, d) == [j \in DOMAIN d |-> h[d[j]].data]

LEMMA AppendRow ==
  ASSUME NEW h, NEW d \in Seq(Addr), \A j \in DOMAIN d : IsRow(h, d[j]), NEW a, IsRow(h, a)
  PROVE  RowsIn(h, Append(d, a)) = Append(RowsIn(h, d), h[a].data)
<1> DEFINE n == Len(d)
           e == Append(d, a)
           v == RowsIn(h, d)
<1>1. n \in Nat /\ DOMAIN d = 1..n /\ a \in Addr
  BY DEF IsRow
<1>2. /\ DOMAIN e = 1..(n + 1) /\ e[n + 1] = a
      /\ \A j \in 1..n : e[j] = d[j]
  BY <1>1
<1>3. h[a].data \in Seq(Cell) /\ \A j \in 1..n : h[d[j]].data \in Seq(Cell)
  BY <1>1, RowFields DEF IsRow
<1>4. v = [j \in 1..n |-> h[d[j]].data]
  BY <1>1 DEF RowsIn
<1>5. RowsIn(h, e) = [j \in 1..(n + 1) |-> h[e[j]].data]
  BY <1>2 DEF RowsIn
<1> HIDE DEF n, e
<1>6. v \in Seqs /\ Len(v) = n /\ DOMAIN v = 1..n
  <2>1. v \in [1..n -> Seq(Cell)]
    BY <1>3, <1>4
  <2> HIDE DEF v
  <2> QED BY <1>1, <2>1 DEF Seqs
<1>7. \A j \in 1..n : v[j] = h[d[j]].data
  BY <1>4
<1> HIDE DEF v
<1> DEFINE u == Append(v, h[a].data)
<1>8. /\ u = [j \in 1..(n + 1) |-> u[j]] /\ u[n + 1] = h[a].data
      /\ \A j \in 1..n : u[j] = v[j]
  BY <1>1, <1>3, <1>6 DEF Seqs
<1> HIDE DEF u
<1>9. \A j \in 1..(n + 1) : u[j] = h[e[j]].data
  <2> SUFFICES ASSUME NEW j \in 1..(n + 1)
               PROVE  u[j] = h[e[j]].data
    OBVIOUS
  <2>1. j \in 1..n \/ j = n + 1
    BY <1>1
  <2> QED BY <1>2, <1>7, <1>8, <2>1
<1>10. RowsIn(h, e) = u
  BY <1>5, <1>8, <1>9
<1> QED BY <1>10 DEF e, u, v

LEMMA SetRow ==
  ASSUME NEW h, NEW d, NEW k \in DOMAIN d, NEW a
  PROVE  RowsIn(h, [d EXCEPT ![k] = a]) = [RowsIn(h, d) EXCEPT ![k] = h[a].data]
BY DEF RowsIn

LEMMA GridStoreOthers ==
  ASSUME NEW h, HeapOK(h), NEW b, IsGrid(h, b), NEW g, \A c \in Addr : c # b => g[c] = h[c],
         NEW c, IsRow(h, c) \/ IsGrid(h, c), c # b
  PROVE  ValueIn(g, c) = ValueIn(h, c)
<1>1. c \in Addr /\ g[c] = h[c]
  BY DEF IsRow, IsGrid
<1>2. CASE IsRow(h, c)
  BY <1>1, <1>2, RowFields DEF IsRow, ValueIn
<1>3. CASE IsGrid(h, c)
  <2>1. \A j \in DOMAIN h[c].data : h[c].data[j] \in Addr /\ h[c].data[j] # b
    <3>1. \A j \in DOMAIN h[c].data : IsRow(h, h[c].data[j])
      BY <1>3, RowsOf
    <3> QED BY <3>1, RowFields DEF IsRow, IsGrid
  <2>2. \A j \in DOMAIN h[c].data : g[h[c].data[j]] = h[h[c].data[j]]
    BY <2>1
  <2>3. h[c].grid
    BY <1>3, GridFields DEF IsGrid
  <2> QED BY <1>1, <2>2, <2>3 DEF ValueIn
<1> QED BY <1>2, <1>3

LEMMA GridStoreSelf ==
  ASSUME NEW h, HeapOK(h), NEW b, IsGrid(h, b),
         NEW d \in Seq(Addr), \A j \in DOMAIN d : IsRow(h, d[j])
  PROVE  /\ ValueIn(Store(h, b, d), b) = RowsIn(h, d)
         /\ \A c \in Addr : c # b => Store(h, b, d)[c] = h[c]
<1> DEFINE o == [h[b] EXCEPT !.data = d]
           g == Store(h, b, d)
<1>1. o \in Grid /\ o.data = d
  BY GridWithData DEF IsGrid
<1>2. g[b] = o /\ \A c \in Addr : c # b => g[c] = h[c]
  <2>1. DOMAIN h = Addr /\ b \in Addr
    BY DEF HeapOK, IsGrid
  <2> HIDE DEF o
  <2>2. Put(h, b, o)[b] = o /\ \A c \in Addr : c # b => Put(h, b, o)[c] = h[c]
    BY <2>1, PutValue
  <2> QED BY <2>2 DEF Store, o
<1> HIDE DEF g, o
<1>3. g[b].grid /\ g[b].data = d
  BY <1>1, <1>2, GridFields
<1>4. \A j \in DOMAIN d : g[d[j]] = h[d[j]]
  BY <1>2, RowFields DEF IsRow, IsGrid
<1>5. ValueIn(g, b) = RowsIn(h, d)
  BY <1>3, <1>4 DEF ValueIn, RowsIn
<1> QED BY <1>2, <1>5 DEF g

LEMMA GridStoreView ==
  ASSUME NEW h, NEW env, NEW pl, NEW cl, NEW lp, Made(h, env, pl, cl, lp),
         NEW x \in GridVars, Seen(env, cl, x), ~h[env[x]].shared, lp # None => lp.list # env[x],
         NEW d \in Seq(Addr), \A j \in DOMAIN d : IsRow(h, d[j])
  PROVE  LET g == Store(h, env[x], d)
         IN /\ EnvView(g, env, cl) = Rebind(EnvView(h, env, cl), x, RowsIn(h, d))
            /\ CallView(g, cl) = CallView(h, cl) /\ LoopView(g, lp) = LoopView(h, lp)
<1> DEFINE b == env[x]
           g == Store(h, b, d)
           view == EnvView(h, env, cl)
           v == RowsIn(h, d)
<1>1. /\ Good(h, env, cl) /\ HeapOK(h) /\ EnvOK(h, env) /\ CallOK(h, env, cl)
      /\ Single(h, env, cl) /\ LoopOK(h, lp)
  BY DEF Made, Good
<1>2. IsGrid(h, b) /\ b \in Addr /\ h[b] # None
  BY <1>1, GridFields DEF EnvOK, Is, IsGrid, Seen
<1>3. ValueIn(g, b) = v /\ \A c \in Addr : c # b => g[c] = h[c]
  BY <1>1, <1>2, GridStoreSelf
<1> HIDE DEF g, v
<1>4. \A c : (IsRow(h, c) \/ IsGrid(h, c)) /\ c # b => ValueIn(g, c) = ValueIn(h, c)
  BY <1>1, <1>2, <1>3, GridStoreOthers
<1>5. OneName(h, env, cl, b) /\ VarName(env, cl, b, x)
  BY <1>1, <1>2 DEF Single, VarName, LentVar, Seen
<1>6. ASSUME NEW y \in Vars, y # x, Seen(env, cl, y)
      PROVE  ValueIn(g, env[y]) = ValueIn(h, env[y])
  <2>1. VarName(env, cl, env[y], y)
    BY <1>6 DEF VarName, LentVar, Seen
  <2>2. env[y] # b
    BY <1>5, <1>6, <2>1 DEF OneName
  <2> QED BY <1>1, <1>4, <1>6, <2>2 DEF EnvOK, Is, Seen
<1>7. CallView(g, cl) = CallView(h, cl)
  <2>1. CASE cl = None \/ cl.path = <<>>
    BY <2>1 DEF CallView, RestView
  <2>2. CASE cl # None /\ cl.path # <<>>
    <3>1. /\ cl.root \in GridVars /\ cl.root \in Vars /\ env[cl.root] = cl.list
          /\ env[cl.root] # Unbound
      BY <1>1, <2>2 DEF CallOK, Call
    <3>2. IsGrid(h, cl.list) /\ b # cl.list
      BY <1>1, <2>2, <3>1, NotLent DEF EnvOK, Is, Seen
    <3>3. ValueIn(g, cl.list) = ValueIn(h, cl.list)
      BY <1>4, <3>2
    <3> QED BY <3>3 DEF CallView, RestView
  <2> QED BY <2>1, <2>2
<1>8. LoopView(g, lp) = LoopView(h, lp)
  <2>1. lp # None => ValueIn(g, lp.list) = ValueIn(h, lp.list)
    BY <1>1, <1>4 DEF LoopOK
  <2> QED BY <2>1 DEF LoopView, ItemsView
<1>9. EnvView(g, env, cl) = Rebind(view, x, v)
  <2>1. \A y \in Vars : EnvView(g, env, cl)[y] = IF y = x THEN v ELSE view[y]
    <3> SUFFICES ASSUME NEW y \in Vars
                 PROVE  EnvView(g, env, cl)[y] = IF y = x THEN v ELSE view[y]
      OBVIOUS
    <3>1. CASE y = x
      BY <1>3, <3>1 DEF EnvView, Seen
    <3>2. CASE y # x /\ Seen(env, cl, y)
      BY <1>6, <3>2 DEF EnvView, Seen
    <3>3. CASE y # x /\ ~Seen(env, cl, y)
      BY <3>3, UnseenValue
    <3> QED BY <3>1, <3>2, <3>3
  <2>2. EnvView(g, env, cl) = [y \in Vars |-> EnvView(g, env, cl)[y]] /\ view = [y \in Vars |-> view[y]]
    BY DEF EnvView
  <2> DEFINE e == EnvView(g, env, cl)
  <2> HIDE DEF view, e
  <2> QED BY <2>1, <2>2 DEF Rebind, e
<1> QED BY <1>7, <1>8, <1>9 DEF g, v

LEMMA PushRowView ==
  ASSUME PrivateInv, ~BodyWritesIterable, NEW g \in Writable(GridVars), PushRow(g)
  PROVE  g \in Abstract!Bound(GridVars) /\ Abstract!PushRow(g)
<1> DEFINE w == WalkTo(heap, loc[g], <<>>)
           env == [loc EXCEPT ![g] = w.root]
<1>1. /\ WalkRoom /\ Len(w.heap[w.list].data) < MaxGrid
      /\ \E e \in RowExprs(w.heap, env) :
           Commit(Store(e.heap, w.list, Append(e.heap[w.list].data, e.at)), e.loc, place, call, loop)
      /\ Inv /\ LoopApart(call, loop)
  BY DEF PushRow, PrivateInv
<1>2. PICK e \in RowExprs(w.heap, env) :
        Commit(Store(e.heap, w.list, Append(e.heap[w.list].data, e.at)), e.loc, place, call, loop)
  BY <1>1
<1> DEFINE d == Append(e.heap[w.list].data, e.at)
<1>3. /\ Walked(heap, loc, call, g, <<>>, w) /\ Ready(w.heap, env)
      /\ Made(w.heap, env, place, call, loop)
      /\ Evaluated(w.heap, env, e) /\ RowFrom(w.heap, env, e)
      /\ IsGrid(e.heap, w.list)
      /\ Made(Store(e.heap, w.list, d), e.loc, place, call, loop)
  <2> HIDE DEF w
  <2> QED BY <1>1, <1>2, PushRowMade DEF w
<1> HIDE DEF w
<1>4. IsRow(e.heap, e.at)
  <2> HIDE DEF env
  <2> QED BY <1>2, <1>3, RowExprsGood
<1>5. g \in Usable(Vars) /\ <<>> \in Containers(g) /\ g \in GridVars /\ g \in Vars
  BY DEF Writable, Usable, Containers, Vars
<1>6. Reachable(heap, loc, call, g, <<>>)
  BY <1>1, <1>5, ReachableNow
<1>7. /\ Seen(loc, call, g) /\ g \in Abstract!Bound(Vars)
  BY <1>1, <1>5, ContainerView
<1>8. /\ EnvView(w.heap, env, call) = AbstractEnv
      /\ CallView(w.heap, call) = AbstractCall /\ LoopView(w.heap, loop) = AbstractLoop
  BY <1>1, <1>3, <1>6, WalkValues, WalkEnv, SameCall, SameLoop, ViewsNow DEF Inv
<1>9. env[g] = w.root /\ w.list = w.root /\ ~w.heap[w.root].shared
  BY <1>1, <1>3, <1>5 DEF Inv, Good, EnvOK, Walked
<1> HIDE DEF env
<1>10. ExprView(e) \in Abstract!RowExprs
  <2> DEFINE h == w.heap
  <2>1. Good(h, env, call) /\ EnvView(h, env, call) = AbstractEnv /\ Evaluated(h, env, e) /\ RowFrom(h, env, e)
    BY <1>3, <1>8 DEF Ready
  <2> HIDE DEF h
  <2> QED BY <2>1, RowExprView
<1>11. CallView(e.heap, call) = AbstractCall /\ LoopView(e.heap, loop) = AbstractLoop
  BY <1>3, <1>8, EvaluatedRest
<1>12. e.loc[g] = w.list
  <2>1. env \in [Vars -> Addr \cup {Unbound}]
    BY <1>3 DEF Ready, Good, EnvOK
  <2>2. \A x \in RowVars : x # g
    BY <1>5, VarsAssumption
  <2> QED BY <1>3, <1>5, <1>9, <2>1, <2>2 DEF RowFrom, IsNew, IsVar, IsElem
<1>13. e.heap[w.list] = w.heap[w.list] /\ w.list \in Addr
  <2>1. w.list \in Addr /\ w.heap[w.list] # None /\ e.at # w.list
    BY <1>3, <1>4, <1>5, <1>9, RowFields, GridFields DEF Walked, Is, IsRow, IsGrid
  <2> QED BY <1>3, <2>1 DEF Evaluated
<1>14. loop # None => loop.list # w.list
  BY <1>1, <1>3, <1>9, LoopElsewhere
<1>15. Made(e.heap, e.loc, place, call, loop) /\ HeapOK(e.heap) /\ EnvOK(e.heap, e.loc)
  BY <1>3, EvaluatedMade DEF Made, Good
<1>16. Seen(e.loc, call, g)
  BY <1>5, <1>7, <1>12, <1>13, UnboundAssumption DEF Seen
<1> DEFINE rows == e.heap[w.list].data
<1>17. /\ rows \in Seq(Addr) /\ (\A j \in DOMAIN rows : IsRow(e.heap, rows[j]))
       /\ ValueIn(e.heap, w.list) = RowsIn(e.heap, rows)
  <2>1. \A j \in DOMAIN rows : IsRow(e.heap, rows[j])
    BY <1>3, <1>15, RowsOf
  <2>2. rows \in Seq(Addr) /\ e.heap[w.list].grid
    BY <1>3, GridFields DEF IsGrid
  <2> QED BY <2>1, <2>2 DEF ValueIn, RowsIn
<1> HIDE DEF rows
<1>18. d \in Seq(Addr) /\ (\A j \in DOMAIN d : IsRow(e.heap, d[j]))
       /\ RowsIn(e.heap, d) = Append(RowsIn(e.heap, rows), e.heap[e.at].data)
  <2>1. d = Append(rows, e.at)
    BY DEF rows
  <2>2. e.at \in Addr
    BY <1>4 DEF IsRow
  <2> HIDE DEF d
  <2>3. d \in Seq(Addr) /\ DOMAIN d = 1..(Len(rows) + 1) /\ DOMAIN rows = 1..Len(rows)
        /\ d[Len(rows) + 1] = e.at /\ (\A j \in 1..Len(rows) : d[j] = rows[j]) /\ Len(rows) \in Nat
    BY <1>17, <2>1, <2>2
  <2>4. \A j \in DOMAIN d : IsRow(e.heap, d[j])
    <3> DEFINE n == Len(rows)
    <3> HIDE DEF n
    <3>1. n \in Nat /\ DOMAIN d = 1..(n + 1) /\ DOMAIN rows = 1..n
          /\ d[n + 1] = e.at /\ (\A j \in 1..n : d[j] = rows[j])
      BY <2>3 DEF n
    <3>2. \A j \in 1..(n + 1) : j \in 1..n \/ j = n + 1
      BY <3>1
    <3> QED BY <1>4, <1>17, <3>1, <3>2
  <2> QED BY <1>4, <1>17, <2>1, <2>3, <2>4, AppendRow
<1> HIDE DEF d
<1>19. /\ EnvView(Store(e.heap, w.list, d), e.loc, call)
            = Rebind(EnvView(e.heap, e.loc, call), g, RowsIn(e.heap, d))
       /\ CallView(Store(e.heap, w.list, d), call) = CallView(e.heap, call)
       /\ LoopView(Store(e.heap, w.list, d), loop) = LoopView(e.heap, loop)
  <2> DEFINE h == e.heap
             new == e.loc
             b == w.list
  <2>1. /\ Made(h, new, place, call, loop) /\ g \in GridVars /\ Seen(new, call, g)
        /\ ~h[new[g]].shared /\ (loop # None => loop.list # new[g])
        /\ new[g] = b
    BY <1>5, <1>9, <1>12, <1>13, <1>14, <1>15, <1>16
  <2>2. d \in Seq(Addr) /\ \A j \in DOMAIN d : IsRow(h, d[j])
    BY <1>18
  <2> HIDE DEF h, new, b
  <2>3. /\ EnvView(Store(h, b, d), new, call) = Rebind(EnvView(h, new, call), g, RowsIn(h, d))
        /\ CallView(Store(h, b, d), call) = CallView(h, call)
        /\ LoopView(Store(h, b, d), loop) = LoopView(h, loop)
    BY <2>1, <2>2, GridStoreView
  <2> QED BY <2>3 DEF h, new, b
<1>20. /\ AbstractEnv' = Rebind(EnvView(e.heap, e.loc, call), g, RowsIn(e.heap, d))
       /\ UNCHANGED <<AbstractPlace, AbstractCall, AbstractLoop>>
  <2>1. Commit(Store(e.heap, w.list, d), e.loc, place, call, loop)
    BY <1>2 DEF d
  <2> QED BY <1>3, <1>11, <1>19, <2>1, CommitViews, ViewsNow DEF d
<1>21. EnvView(e.heap, e.loc, call)[g] = RowsIn(e.heap, rows)
  BY <1>12, <1>15, <1>16, <1>17, SeenValue
<1>22. ValueIn(e.heap, e.at) = e.heap[e.at].data
  BY <1>4, RowValue
<1>23. g \in Abstract!Bound(GridVars)
  BY <1>5, <1>7 DEF Abstract!Bound
<1>24. AbstractEnv' = [ExprView(e)[2] EXCEPT ![g] = Append(ExprView(e)[2][g], ExprView(e)[1])]
  BY <1>18, <1>20, <1>21, <1>22 DEF ExprView, Rebind
<1> QED BY <1>10, <1>20, <1>23, <1>24 DEF Abstract!PushRow

LEMMA PlaceEndRowView ==
  ASSUME PrivateInv, ~RhsTouchesRoot, PlaceEndRow
  PROVE  Abstract!PlaceEndRow
<1> DEFINE r == place.root
           b == place.list
           k == Last(place.path)
<1>1. /\ place # None /\ IsRowPlace /\ Inv /\ LoopApart(call, loop)
      /\ Made(heap, loc, place, call, loop) /\ PlaceKept(heap, loc, place, call, loop)
      /\ \E e \in RowExprs(heap, loc) : Commit(SetItem(e.heap, b, k, e.at), e.loc, None, call, loop)
  BY DEF PlaceEndRow, PrivateInv, Inv, Made
<1>2. PICK e \in RowExprs(heap, loc) : Commit(SetItem(e.heap, b, k, e.at), e.loc, None, call, loop)
  BY <1>1
<1>3. /\ Evaluated(heap, loc, e) /\ RowFrom(heap, loc, e) /\ IsGrid(e.heap, b)
      /\ Made(e.heap, e.loc, place, call, loop)
      /\ Made(SetItem(e.heap, b, k, e.at), e.loc, None, call, loop)
  BY <1>1, PlaceEndRowMade
<1>4. IsRow(e.heap, e.at)
  BY <1>1, ReadyNow, RowExprsGood
<1>5. PlaceKept(e.heap, e.loc, place, call, loop)
  BY <1>1, <1>3, EvalKept
<1>6. /\ HeapOK(e.heap) /\ EnvOK(e.heap, e.loc) /\ PlaceOK(e.heap, place)
      /\ Good(heap, loc, call)
  BY <1>1, <1>3 DEF Made, Good
<1>7. /\ r \in GridVars /\ Len(place.path) = 1 /\ place.path # <<>> /\ k = place.path[1]
      /\ k \in DOMAIN e.heap[b].data /\ place \in Place /\ r \in Vars
  BY <1>1, <1>6 DEF PlaceOK, Place, IsRowPlace, Last
<1>8. /\ e.loc[r] = b /\ Seen(e.loc, call, r) /\ ~e.heap[b].shared
      /\ loop # None => loop.list # b
  BY <1>1, <1>5, <1>7 DEF PlaceKept, Seen
<1>9. ExprView(e) \in Abstract!RowExprs
  BY <1>3, <1>6, RowExprView, ViewsNow
<1>10. CallView(e.heap, call) = AbstractCall /\ LoopView(e.heap, loop) = AbstractLoop
  BY <1>1, <1>3, EvaluatedRest, ViewsNow
<1> DEFINE rows == e.heap[b].data
           d == [rows EXCEPT ![k] = e.at]
<1>11. /\ rows \in Seq(Addr) /\ (\A j \in DOMAIN rows : IsRow(e.heap, rows[j]))
       /\ ValueIn(e.heap, b) = RowsIn(e.heap, rows)
  <2>1. \A j \in DOMAIN rows : IsRow(e.heap, rows[j])
    BY <1>3, <1>6, RowsOf
  <2>2. rows \in Seq(Addr) /\ e.heap[b].grid
    BY <1>3, GridFields DEF IsGrid
  <2> QED BY <2>1, <2>2 DEF ValueIn, RowsIn
<1>12. SetItem(e.heap, b, k, e.at) = Store(e.heap, b, d)
  BY DEF SetItem
<1> HIDE DEF k
<1>13. k \in DOMAIN rows
  BY <1>7
<1> HIDE DEF rows
<1>14. /\ d \in Seq(Addr) /\ (\A j \in DOMAIN d : IsRow(e.heap, d[j]))
       /\ RowsIn(e.heap, d) = [RowsIn(e.heap, rows) EXCEPT ![k] = e.heap[e.at].data]
  <2>1. e.at \in Addr
    BY <1>4 DEF IsRow
  <2>2. d \in Seq(Addr)
    BY <1>11, <1>13, <2>1
  <2>3. \A j \in DOMAIN d : IsRow(e.heap, d[j])
    BY <1>4, <1>11, <1>13
  <2> QED BY <1>13, <2>2, <2>3, SetRow
<1> HIDE DEF d
<1>15. /\ EnvView(Store(e.heap, b, d), e.loc, call)
            = Rebind(EnvView(e.heap, e.loc, call), r, RowsIn(e.heap, d))
       /\ CallView(Store(e.heap, b, d), call) = CallView(e.heap, call)
       /\ LoopView(Store(e.heap, b, d), loop) = LoopView(e.heap, loop)
  <2> DEFINE h == e.heap
             new == e.loc
  <2>1. /\ Made(h, new, place, call, loop) /\ r \in GridVars /\ Seen(new, call, r)
        /\ ~h[new[r]].shared /\ (loop # None => loop.list # new[r])
        /\ new[r] = b
    BY <1>3, <1>7, <1>8
  <2>2. d \in Seq(Addr) /\ \A j \in DOMAIN d : IsRow(h, d[j])
    BY <1>14
  <2> HIDE DEF h, new, r, b
  <2>3. /\ EnvView(Store(h, b, d), new, call) = Rebind(EnvView(h, new, call), r, RowsIn(h, d))
        /\ CallView(Store(h, b, d), call) = CallView(h, call)
        /\ LoopView(Store(h, b, d), loop) = LoopView(h, loop)
    BY <2>1, <2>2, GridStoreView
  <2> QED BY <2>3 DEF h, new
<1>16. /\ AbstractEnv' = Rebind(EnvView(e.heap, e.loc, call), r, RowsIn(e.heap, d))
       /\ AbstractPlace' = None /\ UNCHANGED <<AbstractCall, AbstractLoop>>
  <2>1. PlaceView(None) = None
    BY DEF PlaceView
  <2>2. /\ Commit(Store(e.heap, b, d), e.loc, None, call, loop)
        /\ Made(Store(e.heap, b, d), e.loc, None, call, loop)
    BY <1>2, <1>3, <1>12
  <2> QED BY <1>10, <1>15, <2>1, <2>2, CommitViews, ViewsNow
<1>17. EnvView(e.heap, e.loc, call)[r] = RowsIn(e.heap, rows)
  BY <1>6, <1>8, <1>11, SeenValue
<1>18. ValueIn(e.heap, e.at) = e.heap[e.at].data
  BY <1>4, RowValue
<1>19. AbstractPlace # None /\ AbstractPlace.root = r /\ AbstractPlace.path = place.path
  <2>1. AbstractPlace = [root |-> r, path |-> place.path]
    BY <1>1 DEF AbstractPlace
  <2>2. AbstractPlace \in [root : Vars, path : Seq(Nat)]
    BY <1>7, <2>1 DEF Place
  <2> QED BY <2>1, <2>2, ViewAssumption
<1>20. Abstract!IsRowPlace
  BY <1>7, <1>19 DEF Abstract!IsRowPlace
<1>21. \A v, u : Abstract!With(v, place.path, u) = [v EXCEPT ![k] = u]
  BY <1>7 DEF Abstract!With
<1>22. AbstractEnv' = [ExprView(e)[2] EXCEPT ![r] = Abstract!With(ExprView(e)[2][r], place.path, ExprView(e)[1])]
  BY <1>14, <1>16, <1>17, <1>18, <1>21 DEF ExprView, Rebind
<1> QED BY <1>9, <1>16, <1>19, <1>20, <1>22 DEF Abstract!PlaceEndRow

-----------------------------------------------------------------------------
(* Calls. *)

LEMMA CallBeginVarView ==
  ASSUME Inv, NEW x \in Writable(Vars), <<>> \in RowPlaces(x), CallBegin(x, <<>>)
  PROVE  /\ x \in Abstract!Bound(Vars) /\ <<>> \in Abstract!Containers(x) /\ x \in RowVars
         /\ Abstract!CallBegin(x, <<>>)
<1> DEFINE cl == [root |-> x, path |-> <<>>, list |-> 0]
           env == [loc EXCEPT ![Param] = loc[x]]
<1>1. call = None /\ Commit(heap, env, place, cl, loop)
  BY DEF CallBegin
<1>2. x \in Usable(Vars) /\ <<>> \in Containers(x) /\ x \in Vars /\ loc[x] # Unbound
      /\ x \notin GridVars
  BY DEF Writable, Usable, RowPlaces, Containers
<1>3. Made(heap, env, place, cl, loop)
  BY <1>1, CallVarMade
<1>4. /\ x \in Abstract!Bound(Vars) /\ <<>> \in Abstract!Containers(x)
      /\ AbstractEnv[x] = ValueIn(heap, loc[x]) /\ x \in RowVars
  BY <1>2, ContainerView, VarsApart
<1>5. loc[Param] = Unbound /\ x # Param /\ Param \in Vars /\ loc \in [Vars -> Addr \cup {Unbound}]
  BY <1>1, <1>2, VarsAssumption, NoneAssumption DEF Inv, Good, CallOK, EnvOK, Vars
<1>6. cl # None /\ cl.root = x /\ cl.path = <<>>
  <2>1. <<>> \in Seq(Nat)
    OBVIOUS
  <2>2. cl \in Call
    BY <1>2, <2>1 DEF Call
  <2> QED BY <2>2, NoneAssumption
<1>7. env[Param] = loc[x] /\ (\A y \in Vars : y # Param => env[y] = loc[y])
  BY <1>5
<1> HIDE DEF cl, env
<1>8. EnvView(heap, env, cl) = [AbstractEnv EXCEPT ![Param] = AbstractEnv[x], ![x] = Unbound]
  <2>1. \A y \in Vars : EnvView(heap, env, cl)[y]
          = IF y = x THEN Unbound ELSE IF y = Param THEN AbstractEnv[x] ELSE AbstractEnv[y]
    BY <1>1, <1>2, <1>4, <1>5, <1>6, <1>7 DEF EnvView, AbstractEnv, Value, ValueIn
  <2>2. EnvView(heap, env, cl) = [y \in Vars |-> EnvView(heap, env, cl)[y]]
    BY DEF EnvView
  <2>3. AbstractEnv = [y \in Vars |-> AbstractEnv[y]]
    BY DEF AbstractEnv
  <2> DEFINE f == EnvView(heap, env, cl)
  <2> HIDE DEF f
  <2>4. f = [AbstractEnv EXCEPT ![Param] = AbstractEnv[x], ![x] = Unbound]
    BY <1>2, <1>5, <2>1, <2>2, <2>3 DEF f
  <2> QED BY <2>4 DEF f
<1>9. CallView(heap, cl) = [root |-> x, path |-> <<>>, rest |-> Unbound]
  BY <1>6 DEF CallView, RestView
<1>10. /\ AbstractEnv' = EnvView(heap, env, cl) /\ AbstractPlace' = AbstractPlace
       /\ AbstractCall' = CallView(heap, cl) /\ AbstractLoop' = AbstractLoop
  BY <1>1, <1>3, CommitViews, ViewsNow
<1>11. AbstractCall = None
  BY <1>1 DEF AbstractCall
<1>12. \A v, u : Abstract!ValueAt(v, <<>>) = v /\ Abstract!With(v, <<>>, u) = u
  BY DEF Abstract!ValueAt, Abstract!With
<1> QED BY <1>4, <1>8, <1>9, <1>10, <1>11, <1>12 DEF Abstract!CallBegin

LEMMA CallBeginSlotView ==
  ASSUME Inv, NEW x \in Writable(Vars), NEW path \in RowPlaces(x), path # <<>>, CallBegin(x, path)
  PROVE  /\ x \in Abstract!Bound(Vars) /\ path \in Abstract!Containers(x)
         /\ Abstract!CallBegin(x, path)
<1> DEFINE w == WalkTo(heap, loc[x], <<>>)
           k == path[1]
           a == w.heap[w.list].data[k]
           env == [loc EXCEPT ![x] = w.root, ![Param] = a]
           cl == [root |-> x, path |-> path, list |-> w.list]
<1>1. call = None /\ WalkRoom /\ Commit(w.heap, env, place, cl, loop)
  BY DEF CallBegin
<1>2. x \in Usable(Vars) /\ path \in Containers(x) /\ <<>> \in Containers(x)
  BY DEF Writable, RowPlaces, Containers
<1>3. path = <<k>> /\ x \in GridVars /\ x \in Vars
  BY <1>2, PathForm DEF Usable
<1>4. /\ Walked(heap, loc, None, x, <<>>, w) /\ k \in DOMAIN w.heap[w.root].data /\ cl # None
      /\ Made(w.heap, env, place, cl, loop)
  <2> HIDE DEF w
  <2> QED BY <1>1, CallSlotMade DEF w
<1>5. Good(heap, loc, None) /\ LoopOK(heap, loop) /\ Reachable(heap, loc, None, x, <<>>)
  BY <1>1, <1>2, ReachableNow DEF Inv
<1> HIDE DEF w
<1>6. /\ x \in Abstract!Bound(Vars) /\ path \in Abstract!Containers(x)
      /\ AbstractEnv[x] = ValueIn(heap, loc[x])
  BY <1>2, ContainerView
<1>7. SameValues(heap, w.heap) /\ LoopView(w.heap, loop) = AbstractLoop
      /\ EnvView(w.heap, loc, None) = AbstractEnv
  <2>1. SameValues(heap, w.heap)
    BY <1>4, <1>5, WalkValues
  <2> QED BY <1>1, <1>5, <2>1, SameEnv, SameLoop, ViewsNow DEF Good
<1>8. /\ w.list = w.root /\ IsGrid(w.heap, w.list) /\ HeapOK(w.heap)
      /\ ValueIn(w.heap, w.list) = AbstractEnv[x]
  BY <1>3, <1>4, <1>6 DEF Walked, Good, Is
<1>9. IsRow(w.heap, a) /\ AbstractEnv[x][k] = w.heap[a].data
  <2> DEFINE h == w.heap
             g == w.list
  <2>1. HeapOK(h) /\ IsGrid(h, g) /\ k \in DOMAIN h[g].data /\ a = h[g].data[k]
    BY <1>4, <1>8
  <2>2. ValueIn(h, g) = AbstractEnv[x]
    BY <1>8
  <2> HIDE DEF h, g, k, a
  <2>3. ValueIn(h, g) = [j \in DOMAIN h[g].data |-> h[h[g].data[j]].data]
    BY <2>1, GridValue
  <2>4. IsRow(h, a)
    BY <2>1, RowsOf
  <2> QED BY <2>1, <2>2, <2>3, <2>4 DEF h
<1>10. ValueIn(w.heap, a) = AbstractEnv[x][k] /\ a \in Addr
  BY <1>9, RowValue DEF IsRow
<1>11. x # Param /\ Param \in Vars /\ DOMAIN loc = Vars
  BY <1>3, <1>5, VarsAssumption DEF Vars, Good, EnvOK
<1>12. cl.root = x /\ cl.path = path /\ cl.list = w.list
  OBVIOUS
<1> HIDE DEF k, a
<1>13. env[Param] = a /\ (\A y \in Vars : y # x /\ y # Param => env[y] = loc[y])
  BY <1>11
<1> HIDE DEF cl, env
<1>14. EnvView(w.heap, env, cl) = [AbstractEnv EXCEPT ![Param] = AbstractEnv[x][k], ![x] = Unbound]
  <2>1. \A y \in Vars : EnvView(w.heap, env, cl)[y]
          = IF y = x THEN Unbound ELSE IF y = Param THEN AbstractEnv[x][k] ELSE AbstractEnv[y]
    <3> SUFFICES ASSUME NEW y \in Vars
                 PROVE  EnvView(w.heap, env, cl)[y]
                        = IF y = x THEN Unbound ELSE IF y = Param THEN AbstractEnv[x][k] ELSE AbstractEnv[y]
      OBVIOUS
    <3>1. CASE y = x
      BY <1>4, <1>12, <3>1 DEF EnvView
    <3>2. CASE y = Param
      BY <1>10, <1>11, <1>12, <1>13, <3>2, UnboundAssumption DEF EnvView
    <3>3. CASE y # x /\ y # Param
      <4>1. EnvView(w.heap, env, cl)[y] = EnvView(w.heap, loc, None)[y]
        BY <1>12, <1>13, <3>3 DEF EnvView
      <4> QED BY <1>7, <3>3, <4>1
    <3> QED BY <3>1, <3>2, <3>3
  <2>2. EnvView(w.heap, env, cl) = [y \in Vars |-> EnvView(w.heap, env, cl)[y]]
    BY DEF EnvView
  <2>3. AbstractEnv = [y \in Vars |-> AbstractEnv[y]]
    BY DEF AbstractEnv
  <2> DEFINE f == EnvView(w.heap, env, cl)
             v == AbstractEnv[x][k]
  <2> HIDE DEF f, v
  <2>4. f = [AbstractEnv EXCEPT ![Param] = v, ![x] = Unbound]
    BY <1>3, <1>11, <2>1, <2>2, <2>3 DEF f, v
  <2> QED BY <2>4 DEF f, v
<1>15. Abstract!ValueAt(AbstractEnv[x], path) = AbstractEnv[x][k]
       /\ Abstract!With(AbstractEnv[x], path, Unbound) = [AbstractEnv[x] EXCEPT ![k] = Unbound]
  BY <1>3, PathValues
<1>16. CallView(w.heap, cl) = [root |-> x, path |-> path, rest |-> [AbstractEnv[x] EXCEPT ![k] = Unbound]]
  BY <1>4, <1>8, <1>12 DEF CallView, RestView, k
<1>17. /\ AbstractEnv' = EnvView(w.heap, env, cl) /\ AbstractPlace' = AbstractPlace
       /\ AbstractCall' = CallView(w.heap, cl) /\ AbstractLoop' = AbstractLoop
  BY <1>1, <1>4, <1>7, CommitViews, ViewsNow
<1>18. AbstractCall = None
  BY <1>1 DEF AbstractCall
<1> QED BY <1>6, <1>14, <1>15, <1>16, <1>17, <1>18 DEF Abstract!CallBegin

(* What a call in progress looks like. *)
LEMMA CallProperties ==
  ASSUME Inv, call # None
  PROVE  /\ AbstractCall # None /\ AbstractCall.root = call.root /\ AbstractCall.path = call.path
         /\ AbstractCall.rest = RestView(heap, call)
         /\ call.root \in Vars /\ call.root # Param /\ Param \in Vars
         /\ loc[call.root] # Unbound /\ loc[Param] # Unbound
         /\ AbstractEnv[Param] = ValueIn(heap, loc[Param]) /\ IsRow(heap, loc[Param])
         /\ AbstractEnv[call.root] = Unbound
<1>1. /\ call \in Call /\ call.root # Param /\ loc[Param] # Unbound /\ loc[call.root] # Unbound
      /\ EnvOK(heap, loc)
  BY DEF Inv, Good, CallOK
<1>2. AbstractCall = [root |-> call.root, path |-> call.path, rest |-> RestView(heap, call)]
  BY ViewsNow DEF CallView
<1>3. call.root \in Vars /\ Param \in Vars /\ Param \notin GridVars
  BY <1>1, VarsAssumption DEF Call, Vars
<1>4. AbstractEnv[Param] = ValueIn(heap, loc[Param]) /\ AbstractEnv[call.root] = Unbound
  BY <1>1, <1>3, ViewsNow DEF EnvView
<1>5. IsRow(heap, loc[Param])
  BY <1>1, <1>3 DEF EnvOK, Is
<1>6. RestView(heap, call) \in {Unbound} \cup Seq({Unbound} \cup Seq(Cell))
  <2>1. CASE call.path = <<>>
    BY <2>1 DEF RestView
  <2>2. CASE call.path # <<>>
    <3> DEFINE v == ValueIn(heap, call.list)
               k == call.path[1]
    <3>1. call.root \in GridVars /\ loc[call.root] = call.list /\ k \in DOMAIN heap[call.list].data
      BY <2>2 DEF Inv, Good, CallOK
    <3>2. IsGrid(heap, call.list) /\ HeapOK(heap)
      BY <1>1, <1>3, <3>1 DEF EnvOK, Is, Inv, Good
    <3>3. v \in Seqs /\ k \in DOMAIN v
      BY <3>1, <3>2, GridValue
    <3>4. RestView(heap, call) = [v EXCEPT ![k] = Unbound]
      BY <2>2 DEF RestView
    <3> DEFINE S == {Unbound} \cup Seq(Cell)
    <3> HIDE DEF v, k
    <3>5. v \in Seq(S) /\ Unbound \in S
      BY <3>3 DEF Seqs
    <3> HIDE DEF S
    <3>6. [v EXCEPT ![k] = Unbound] \in Seq(S)
      BY <3>3, <3>5
    <3> QED BY <3>4, <3>6 DEF S
  <2> QED BY <2>1, <2>2
<1>7. AbstractCall # None
  BY <1>1, <1>2, <1>3, <1>6, ViewAssumption DEF Call
<1> QED BY <1>1, <1>2, <1>3, <1>4, <1>5, <1>7

LEMMA CallEndVarView ==
  ASSUME Inv, CallEnd, call.path = <<>>
  PROVE  Abstract!CallEnd
<1> DEFINE r == call.root
           env == [loc EXCEPT ![r] = loc[Param], ![Param] = Unbound]
<1>1. call # None /\ Commit(heap, env, place, None, loop)
  BY DEF CallEnd
<1>2. Made(heap, env, place, None, loop)
  BY <1>1, ReturnVarMade
<1>3. /\ AbstractCall # None /\ AbstractCall.root = r /\ AbstractCall.path = <<>>
      /\ r \in Vars /\ r # Param /\ Param \in Vars /\ loc[Param] # Unbound
      /\ AbstractEnv[Param] = ValueIn(heap, loc[Param])
  BY <1>1, CallProperties
<1>4. env[r] = loc[Param] /\ env[Param] = Unbound /\ (\A y \in Vars : y # r /\ y # Param => env[y] = loc[y])
  BY <1>3 DEF Inv, Good, EnvOK
<1> HIDE DEF env
<1>5. EnvView(heap, env, None) = [AbstractEnv EXCEPT ![r] = AbstractEnv[Param], ![Param] = Unbound]
  <2>1. \A y \in Vars : EnvView(heap, env, None)[y]
          = IF y = Param THEN Unbound ELSE IF y = r THEN AbstractEnv[Param] ELSE AbstractEnv[y]
    <3> SUFFICES ASSUME NEW y \in Vars
                 PROVE  EnvView(heap, env, None)[y]
                        = IF y = Param THEN Unbound ELSE IF y = r THEN AbstractEnv[Param] ELSE AbstractEnv[y]
      OBVIOUS
    <3>1. CASE y = Param
      BY <1>4, <3>1 DEF EnvView
    <3>2. CASE y = r
      BY <1>3, <1>4, <3>2 DEF EnvView
    <3>3. CASE y # r /\ y # Param
      BY <1>1, <1>4, <3>3, ViewsNow DEF EnvView
    <3> QED BY <3>1, <3>2, <3>3
  <2>2. EnvView(heap, env, None) = [y \in Vars |-> EnvView(heap, env, None)[y]]
    BY DEF EnvView
  <2>3. AbstractEnv = [y \in Vars |-> AbstractEnv[y]]
    BY DEF AbstractEnv
  <2> DEFINE f == EnvView(heap, env, None)
             v == AbstractEnv[Param]
  <2> HIDE DEF f, v, r
  <2>4. f = [AbstractEnv EXCEPT ![r] = v, ![Param] = Unbound]
    BY <1>3, <2>1, <2>2, <2>3 DEF f, v
  <2> QED BY <2>4 DEF f, v
<1>6. /\ AbstractEnv' = EnvView(heap, env, None) /\ AbstractPlace' = AbstractPlace
      /\ AbstractCall' = None /\ AbstractLoop' = AbstractLoop
  BY <1>1, <1>2, CommitViews, ViewsNow DEF CallView
<1>7. \A v, u : Abstract!With(v, <<>>, u) = u
  BY DEF Abstract!With
<1>8. Abstract!With(AbstractCall.rest, AbstractCall.path, AbstractEnv[Param]) = AbstractEnv[Param]
  BY <1>3, <1>7
<1>9. AbstractEnv' = [AbstractEnv EXCEPT
        ![AbstractCall.root] = Abstract!With(AbstractCall.rest, AbstractCall.path, AbstractEnv[Param]),
        ![Param] = Unbound]
  BY <1>3, <1>5, <1>6, <1>8
<1> QED BY <1>3, <1>6, <1>9 DEF Abstract!CallEnd

LEMMA CallEndSlotView ==
  ASSUME Inv, LoopApart(call, loop), CallEnd, call.path # <<>>
  PROVE  Abstract!CallEnd
<1> DEFINE r == call.root
           b == call.list
           k == call.path[1]
           a == loc[Param]
           rows == heap[b].data
           d == [rows EXCEPT ![k] = a]
           g == SetItem(heap, b, k, a)
           env == [loc EXCEPT ![Param] = Unbound]
<1>1. call # None /\ Commit(g, env, place, None, loop)
  BY DEF CallEnd
<1>2. Made(g, env, place, None, loop)
  BY <1>1, ReturnSlotMade
<1>3. /\ AbstractCall # None /\ AbstractCall.root = r /\ AbstractCall.path = call.path
      /\ AbstractCall.rest = RestView(heap, call)
      /\ r \in Vars /\ r # Param /\ Param \in Vars /\ loc[r] # Unbound /\ a # Unbound
      /\ AbstractEnv[Param] = ValueIn(heap, a) /\ IsRow(heap, a)
  BY <1>1, CallProperties
<1>4. /\ Good(heap, loc, call) /\ HeapOK(heap) /\ EnvOK(heap, loc) /\ LoopOK(heap, loop)
      /\ r \in GridVars /\ Len(call.path) = 1 /\ loc[r] = b /\ k \in DOMAIN rows
  BY <1>1 DEF Inv, Good, CallOK
<1>5. IsGrid(heap, b) /\ heap[b].grid /\ rows \in Seq(Addr)
  <2>1. IsGrid(heap, b)
    BY <1>3, <1>4 DEF EnvOK, Is
  <2> QED BY <2>1, GridFields DEF IsGrid
<1>6. g = Store(heap, b, d)
  BY DEF SetItem
<1>7. (\A j \in DOMAIN rows : IsRow(heap, rows[j])) /\ ValueIn(heap, b) = RowsIn(heap, rows)
  <2>1. \A j \in DOMAIN rows : IsRow(heap, rows[j])
    BY <1>4, <1>5, RowsOf
  <2> QED BY <1>5, <2>1 DEF ValueIn, RowsIn
<1> HIDE DEF rows, a, k, g
<1>8. d \in Seq(Addr) /\ (\A j \in DOMAIN d : IsRow(heap, d[j]))
      /\ RowsIn(heap, d) = [ValueIn(heap, b) EXCEPT ![k] = heap[a].data]
  <2>1. a \in Addr
    BY <1>3 DEF IsRow
  <2>2. d \in Seq(Addr)
    BY <1>4, <1>5, <2>1
  <2>3. \A j \in DOMAIN d : IsRow(heap, d[j])
    BY <1>3, <1>4, <1>7
  <2> QED BY <1>4, <1>7, <2>2, <2>3, SetRow
<1> HIDE DEF d
<1>9. ValueIn(g, b) = RowsIn(heap, d) /\ \A c \in Addr : c # b => g[c] = heap[c]
  BY <1>4, <1>5, <1>6, <1>8, GridStoreSelf
<1>10. \A c : (IsRow(heap, c) \/ IsGrid(heap, c)) /\ c # b => ValueIn(g, c) = ValueIn(heap, c)
  BY <1>4, <1>5, <1>9, GridStoreOthers
<1>11. LoopView(g, loop) = AbstractLoop
  <2>1. loop # None => ValueIn(g, loop.list) = ValueIn(heap, loop.list)
    BY <1>1, <1>4, <1>10 DEF LoopOK, LoopApart
  <2> QED BY <2>1, ViewsNow DEF LoopView, ItemsView
<1>12. env[Param] = Unbound /\ (\A y \in Vars : y # Param => env[y] = loc[y])
  BY <1>3, <1>4 DEF EnvOK
<1> HIDE DEF env
<1> DEFINE v == RowsIn(heap, d)
<1>13. EnvView(g, env, None) = [AbstractEnv EXCEPT ![r] = v, ![Param] = Unbound]
  <2>1. \A y \in Vars : EnvView(g, env, None)[y]
          = IF y = Param THEN Unbound ELSE IF y = r THEN v ELSE AbstractEnv[y]
    <3> SUFFICES ASSUME NEW y \in Vars
                 PROVE  EnvView(g, env, None)[y]
                        = IF y = Param THEN Unbound ELSE IF y = r THEN v ELSE AbstractEnv[y]
      OBVIOUS
    <3>1. CASE y = Param
      BY <1>12, <3>1 DEF EnvView
    <3>2. CASE y = r
      BY <1>3, <1>4, <1>9, <1>12, <3>2 DEF EnvView
    <3>3. CASE y # r /\ y # Param /\ loc[y] # Unbound
      <4>1. loc[y] # b
        BY <1>1, <1>4, <3>3, NotLent
      <4>2. ValueIn(g, loc[y]) = ValueIn(heap, loc[y])
        BY <1>4, <1>10, <3>3, <4>1 DEF EnvOK, Is
      <4> QED BY <1>12, <3>3, <4>2, ViewsNow DEF EnvView
    <3>4. CASE y # r /\ y # Param /\ loc[y] = Unbound
      BY <1>12, <3>4, ViewsNow DEF EnvView
    <3> QED BY <3>1, <3>2, <3>3, <3>4
  <2>2. EnvView(g, env, None) = [y \in Vars |-> EnvView(g, env, None)[y]]
    BY DEF EnvView
  <2>3. AbstractEnv = [y \in Vars |-> AbstractEnv[y]]
    BY DEF AbstractEnv
  <2> DEFINE f == EnvView(g, env, None)
  <2> HIDE DEF f, v, r
  <2>4. f = [AbstractEnv EXCEPT ![r] = v, ![Param] = Unbound]
    BY <1>3, <2>1, <2>2, <2>3 DEF f
  <2> QED BY <2>4 DEF f
<1>14. /\ AbstractEnv' = EnvView(g, env, None) /\ AbstractPlace' = AbstractPlace
       /\ AbstractCall' = None /\ AbstractLoop' = AbstractLoop
  BY <1>1, <1>2, <1>11, CommitViews, ViewsNow DEF CallView
<1>15. v = Abstract!With(AbstractCall.rest, AbstractCall.path, AbstractEnv[Param])
  <2> DEFINE u == ValueIn(heap, b)
             p == AbstractEnv[Param]
  <2>1. p = heap[a].data
    BY <1>3, RowValue
  <2>2. AbstractCall.rest = [u EXCEPT ![k] = Unbound]
    BY <1>3 DEF RestView, k
  <2> HIDE DEF p
  <2>3. \A q : Abstract!With(q, call.path, p) = [q EXCEPT ![k] = p]
    BY <1>4 DEF Abstract!With, k
  <2> HIDE DEF u
  <2>4. [[u EXCEPT ![k] = Unbound] EXCEPT ![k] = p] = [u EXCEPT ![k] = p]
    OBVIOUS
  <2>5. Abstract!With(AbstractCall.rest, AbstractCall.path, p) = [u EXCEPT ![k] = p]
    BY <1>3, <2>2, <2>3, <2>4
  <2> QED BY <1>8, <2>1, <2>5 DEF u, p
<1> QED BY <1>3, <1>13, <1>14, <1>15 DEF Abstract!CallEnd

-----------------------------------------------------------------------------
(* The first state, and every step. *)

LEMMA AbstractInit ==
  ASSUME Init
  PROVE  Abstract!Init
BY DEF Init, Abstract!Init, Abstract!Vars, Vars, AbstractEnv, AbstractPlace, AbstractCall, AbstractLoop

LEMMA AbstractStep ==
  ASSUME PrivateInv, [Next]_vars, ~RhsTouchesRoot, ~BodyWritesIterable
  PROVE  [Abstract!Next]_(Abstract!vars)
<1>0. Inv /\ LoopApart(call, loop)
  BY DEF PrivateInv
<1>1. CASE UNCHANGED vars
  <2>1. heap' = heap /\ loc' = loc /\ place' = place /\ call' = call /\ loop' = loop
    BY <1>1 DEF vars
  <2>2. /\ AbstractEnv' = AbstractEnv /\ AbstractPlace' = AbstractPlace
        /\ AbstractCall' = AbstractCall /\ AbstractLoop' = AbstractLoop
    BY <2>1 DEF AbstractEnv, AbstractPlace, AbstractCall, AbstractLoop, Value
  <2> QED BY <2>2 DEF Abstract!vars
<1>2. ASSUME NEW x \in Targets(RowVars), Assign(x, RowExprs(heap, loc))
      PROVE  Abstract!Next
  <2>1. Abstract!BindRow(x) /\ x \in RowVars
    BY <1>0, <1>2, AssignRowView DEF Targets
  <2> QED BY <2>1 DEF Abstract!Next
<1>3. ASSUME NEW x \in Targets(RowVars), LoopStep(x)
      PROVE  Abstract!Next
  <2>1. Abstract!LoopStep(x) /\ x \in RowVars
    BY <1>0, <1>3, LoopStepView DEF Targets
  <2> QED BY <2>1 DEF Abstract!Next
<1>4. ASSUME NEW g \in Targets(GridVars), Assign(g, GridExprs(heap, loc))
      PROVE  Abstract!Next
  <2>1. Abstract!BindGrid(g) /\ g \in GridVars
    BY <1>0, <1>4, AssignGridView DEF Targets
  <2> QED BY <2>1 DEF Abstract!Next
<1>5. ASSUME NEW g \in Writable(GridVars), PushRow(g)
      PROVE  Abstract!Next
  BY <1>5, PushRowView DEF Abstract!Next
<1>6. ASSUME NEW g \in Usable(GridVars), LoopBegin(g)
      PROVE  Abstract!Next
  BY <1>0, <1>6, LoopBeginView DEF Abstract!Next
<1>7. ASSUME NEW x \in Writable(Vars), NEW path \in RowPlaces(x), CallBegin(x, path)
      PROVE  Abstract!Next
  <2>1. CASE path = <<>>
    <3>1. /\ x \in Abstract!Bound(Vars) /\ path \in Abstract!Containers(x) /\ x \in RowVars
          /\ Abstract!CallBegin(x, path)
      BY <1>0, <1>7, <2>1, CallBeginVarView
    <3> QED BY <3>1 DEF Abstract!Next, Abstract!Vars, Vars
  <2>2. CASE path # <<>>
    <3>1. /\ x \in Abstract!Bound(Vars) /\ path \in Abstract!Containers(x)
          /\ Abstract!CallBegin(x, path)
      BY <1>0, <1>7, <2>2, CallBeginSlotView
    <3> QED BY <2>2, <3>1 DEF Abstract!Next, Abstract!Vars, Vars
  <2> QED BY <2>1, <2>2
<1>8. ASSUME NEW x \in Writable(Vars), NEW path \in RowPlaces(x), NEW c \in Cell,
             PushCell(x, path, c)
      PROVE  Abstract!Next
  <2>1. /\ x \in Abstract!Bound(Vars) /\ path \in Abstract!Containers(x)
        /\ x \in RowVars \/ path # <<>>
        /\ Abstract!PushCell(x, path, c)
    BY <1>8, PushCellView
  <2> QED BY <2>1 DEF Abstract!Next, Abstract!Vars, Vars
<1>9. ASSUME NEW x \in Writable(Vars), NEW p \in Containers(x), NEW i \in 1..(MaxRow + MaxGrid),
             PlaceBegin(x, Append(p, i))
      PROVE  Abstract!Next
  <2>1. /\ x \in Abstract!Bound(Vars) /\ p \in Abstract!Containers(x)
        /\ i \in DOMAIN Abstract!ValueAt(AbstractEnv[x], p)
        /\ Abstract!PlaceBegin(x, Append(p, i))
    BY <1>0, <1>9, PlaceBeginView
  <2> QED BY <2>1 DEF Abstract!Next, Abstract!Vars, Vars
<1>10. ASSUME NEW c \in Cell, PlaceEndCell(c)
       PROVE  Abstract!Next
  BY <1>10, PlaceEndCellView DEF Abstract!Next
<1>11. CASE PlaceEndRow
  BY <1>11, PlaceEndRowView DEF Abstract!Next
<1>12. CASE CallEnd
  BY <1>0, <1>12, CallEndVarView, CallEndSlotView DEF Abstract!Next
<1>13. CASE LoopEnd
  BY <1>0, <1>13, LoopEndView DEF Abstract!Next
<1> QED
  BY <1>1, <1>2, <1>3, <1>4, <1>5, <1>6, <1>7, <1>8, <1>9, <1>10, <1>11, <1>12, <1>13 DEF Next

(* Sharing is never visible: whatever the compiled code shares, copies and  *)
(* collects, every binding, push, assignment, call and loop changes the     *)
(* variables' values as if every binding were a copy.  The right side of    *)
(* root[..] = v must leave root alone, and a loop's body the list the loop  *)
(* runs over; the code gives neither promise by itself.                     *)
THEOREM SharingIsInvisible ==
  ASSUME ~RhsTouchesRoot, ~BodyWritesIterable
  PROVE  Spec => ImplementsValueSpec
<1>1. Init => PrivateInv /\ Abstract!Init
  <2> SUFFICES ASSUME Init PROVE PrivateInv /\ Abstract!Init
    OBVIOUS
  <2>1. Inv
    BY InitInv
  <2> QED BY <2>1, AbstractInit DEF PrivateInv, Init, PlaceKept, LoopApart
<1>2. PrivateInv /\ [Next]_vars => PrivateInv'
  BY NextPrivate
<1>3. PrivateInv /\ [Next]_vars => [Abstract!Next]_(Abstract!vars)
  BY AbstractStep
<1> QED BY <1>1, <1>2, <1>3, PTL DEF Spec, ImplementsValueSpec, Abstract!Spec
=============================================================================
