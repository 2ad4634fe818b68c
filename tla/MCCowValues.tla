----------------------------- MODULE MCCowValues -----------------------------
(* Two row variables, one of them a callee's `mut` parameter, and two grid   *)
(* variables: enough for a list to be aliased by another variable, by a     *)
(* second slot of its grid, by a slot of another grid and by a parameter.   *)
EXTENDS CowValues, TLC

CONSTANTS r, p, g, h

(* Which address a list has is irrelevant.  A list is known by the paths    *)
(* that reach it, so states that differ by a renaming of addresses have the *)
(* same view.                                                              *)
Starts ==
  {<<x, loc[x]>> : x \in {y \in Vars : loc[y] # Unbound}}
  \cup (IF place = None THEN {} ELSE {<<"place", place.list>>})
  \cup (IF call = None \/ call.path = <<>> THEN {} ELSE {<<"call", call.list>>})
  \cup (IF loop = None THEN {} ELSE {<<"loop", loop.list>>})

PathsTo(a) ==
  {<<s[1], 0>> : s \in {t \in Starts : t[2] = a}}
  \cup UNION {{<<s[1], i>> : i \in {j \in DOMAIN heap[s[2]].data : heap[s[2]].data[j] = a}} :
              s \in {t \in Starts : heap[t[2]] # None /\ heap[t[2]].grid}}

ListView(a) ==
  <<PathsTo(a), heap[a].shared, IF heap[a].grid THEN Len(heap[a].data) ELSE heap[a].data>>

(* (Comparing the heap with itself makes TLC evaluate the functions in it,  *)
(* which a view would otherwise leave unevaluated.)                        *)
AddressFree ==
  <<heap = heap,
    {ListView(a) : a \in {b \in Addr : heap[b] # None}},
    IF place = None THEN <<>> ELSE <<place.root, place.path>>,
    IF call = None THEN <<>> ELSE <<call.root, call.path>>,
    IF loop = None THEN <<>> ELSE <<loop.len, loop.next>> >>
=============================================================================
