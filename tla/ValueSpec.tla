------------------------------ MODULE ValueSpec ------------------------------
(***************************************************************************)
(* Value semantics, the meaning every froglang program has whatever the    *)
(* compiler shares or copies: a variable holds a value, binding it copies  *)
(* that value, and writing into one variable changes no other.             *)
(*                                                                         *)
(* Rows are lists of cells and grids are lists of rows, the two depths a   *)
(* place can have.  CowValues, the model of what codegen emits, is shown   *)
(* to implement this specification.                                        *)
(***************************************************************************)
EXTENDS Integers, Sequences

CONSTANTS
  RowVars,  \* variables of type List<Int>
  GridVars, \* variables of type List<List<Int>>
  Param,    \* the row variable that is the `mut` parameter of a callee
  Cell,     \* the cell values
  Unbound,  \* what a variable holds before it is bound and after it is moved
  None      \* no assignment, call or loop in progress

VARIABLES
  env,   \* the value of each variable
  place, \* the [root, path] of a `root[..] = v` whose v is being computed
  call,  \* the [root, path, rest] of the `mut` argument of a call in progress
  loop   \* the [items, next] of a `for` loop in progress

vars == <<env, place, call, loop>>

Vars == RowVars \cup GridVars

ValueAt(v, path) ==
  IF path = <<>> THEN v ELSE IF Len(path) = 1 THEN v[path[1]] ELSE v[path[1]][path[2]]

With(v, path, w) ==
  IF path = <<>> THEN w
  ELSE IF Len(path) = 1 THEN [v EXCEPT ![path[1]] = w]
  ELSE [v EXCEPT ![path[1]] = [v[path[1]] EXCEPT ![path[2]] = w]]

IndexOf(x) == IF env[x] = Unbound THEN {} ELSE DOMAIN env[x]

(* The places of lists: a variable, or a row of a grid. *)
Containers(x) == {<<>>} \cup (IF x \in GridVars THEN {<<i>> : i \in IndexOf(x)} ELSE {})

(* Evaluating a row or a grid: its value and the environment afterwards, in *)
(* which a variable read for the last time is gone.                        *)
Reads(x) == {<<env[x], env>>, <<env[x], [env EXCEPT ![x] = Unbound]>>}
Bound(S) == {x \in S : env[x] # Unbound}

RowExprs ==
  {<< <<>>, env>>}
  \cup (UNION {Reads(x) : x \in Bound(RowVars)})
  \cup (UNION {{<<env[g][i], env>> : i \in DOMAIN env[g]} : g \in Bound(GridVars)})

GridExprs == {<< <<>>, env>>} \cup (UNION {Reads(x) : x \in Bound(GridVars)})

Init ==
  /\ env = [x \in Vars |-> Unbound]
  /\ place = None /\ call = None /\ loop = None

BindRow(x) ==
  /\ \E e \in RowExprs : env' = [e[2] EXCEPT ![x] = e[1]]
  /\ UNCHANGED <<place, call, loop>>

BindGrid(x) ==
  /\ \E e \in GridExprs : env' = [e[2] EXCEPT ![x] = e[1]]
  /\ UNCHANGED <<place, call, loop>>

PushCell(x, path, c) ==
  /\ env' = [env EXCEPT ![x] = With(env[x], path, Append(ValueAt(env[x], path), c))]
  /\ UNCHANGED <<place, call, loop>>

PushRow(g) ==
  /\ \E e \in RowExprs : env' = [e[2] EXCEPT ![g] = Append(e[2][g], e[1])]
  /\ UNCHANGED <<place, call, loop>>

(* An assignment names its place, computes, and only then writes there. *)
PlaceBegin(x, path) ==
  /\ place = None
  /\ place' = [root |-> x, path |-> path]
  /\ UNCHANGED <<env, call, loop>>

IsRowPlace == place.root \in GridVars /\ Len(place.path) = 1

PlaceEndCell(c) ==
  /\ place # None /\ ~IsRowPlace
  /\ env' = [env EXCEPT ![place.root] = With(env[place.root], place.path, c)]
  /\ place' = None
  /\ UNCHANGED <<call, loop>>

PlaceEndRow ==
  /\ place # None /\ IsRowPlace
  /\ \E e \in RowExprs :
       env' = [e[2] EXCEPT ![place.root] = With(e[2][place.root], place.path, e[1])]
  /\ place' = None
  /\ UNCHANGED <<call, loop>>

(* A `mut` argument is lent: its value moves to the parameter, its root is  *)
(* not there while the callee runs (`rest` is the root without what was    *)
(* lent), and it comes back with the parameter's last value in place.      *)
CallBegin(x, path) ==
  /\ call = None
  /\ env' = [env EXCEPT ![Param] = ValueAt(env[x], path), ![x] = Unbound]
  /\ call' = [root |-> x, path |-> path, rest |-> With(env[x], path, Unbound)]
  /\ UNCHANGED <<place, loop>>

CallEnd ==
  /\ call # None
  /\ env' = [env EXCEPT ![call.root] = With(call.rest, call.path, env[Param]),
                        ![Param] = Unbound]
  /\ call' = None
  /\ UNCHANGED <<place, loop>>

(* A loop runs over the items its iterable had when it was evaluated. *)
LoopBegin(g) ==
  /\ loop = None
  /\ loop' = [items |-> env[g], next |-> 1]
  /\ UNCHANGED <<env, place, call>>

LoopStep(x) ==
  /\ loop # None /\ loop.next \in DOMAIN loop.items
  /\ env' = [env EXCEPT ![x] = loop.items[loop.next]]
  /\ loop' = [items |-> loop.items, next |-> loop.next + 1]
  /\ UNCHANGED <<place, call>>

LoopEnd ==
  /\ loop # None /\ loop.next > Len(loop.items)
  /\ loop' = None
  /\ UNCHANGED <<env, place, call>>

Next ==
  \/ \E x \in RowVars : BindRow(x) \/ LoopStep(x)
  \/ \E g \in GridVars : BindGrid(g)
  \/ \E g \in Bound(GridVars) : PushRow(g) \/ LoopBegin(g)
  \/ \E x \in Bound(Vars) : \E path \in Containers(x) :
       \/ (x \in RowVars \/ path # <<>>) /\
          \/ \E c \in Cell : PushCell(x, path, c)
          \/ CallBegin(x, path)
       \/ \E i \in DOMAIN ValueAt(env[x], path) : PlaceBegin(x, Append(path, i))
  \/ \E c \in Cell : PlaceEndCell(c)
  \/ PlaceEndRow \/ CallEnd \/ LoopEnd

Spec == Init /\ [][Next]_vars
=============================================================================
