------------------------------ MODULE HeapSpec ------------------------------
(***************************************************************************)
(* What a garbage-collected heap promises the program that runs on it,     *)
(* stated without marks, sweeps or words: objects refer to objects, roots  *)
(* name objects, and the only thing that may ever be taken away is an      *)
(* object no root reaches.  GcHeap, the model of runtime/gc.rs, is shown   *)
(* to implement this specification.                                        *)
(***************************************************************************)
EXTENDS FiniteSets

CONSTANTS
  Addr,    \* the addresses an object can be given
  Free     \* what `store` holds at an address with no object; not a set of addresses

VARIABLES
  store,   \* the addresses each object refers to, or Free
  rootSet  \* the addresses the program holds directly

vars == <<store, rootSet>>

Allocated == {a \in Addr : store[a] # Free}

(* S contains the roots and everything its objects refer to. *)
ClosedUnder(S) ==
  /\ rootSet \subseteq S
  /\ \A b \in S : store[b] # Free => store[b] \subseteq S

(* The least such set, written as an intersection so that no induction is   *)
(* needed to reason about it.                                              *)
Live == {a \in Addr : \A S \in SUBSET Addr : ClosedUnder(S) => a \in S}

TypeOK ==
  /\ store \in [Addr -> SUBSET Addr \cup {Free}]
  /\ rootSet \in SUBSET Addr

Init ==
  /\ store = [a \in Addr |-> Free]
  /\ rootSet = {}

(* The program receives a new object that refers to existing ones. *)
New(a) ==
  /\ store[a] = Free
  /\ \E refs \in SUBSET Allocated : store' = [store EXCEPT ![a] = refs]
  /\ UNCHANGED rootSet

(* The program changes what an object refers to. *)
Write(a) ==
  /\ store[a] # Free
  /\ \E refs \in SUBSET Allocated : store' = [store EXCEPT ![a] = refs]
  /\ UNCHANGED rootSet

(* The program changes which objects it holds. *)
SetRoots ==
  /\ rootSet' \in SUBSET Allocated
  /\ UNCHANGED store

(* The collector takes back an object the program cannot reach. *)
Reclaim(a) ==
  /\ store[a] # Free
  /\ a \notin Live
  /\ store' = [store EXCEPT ![a] = Free]
  /\ UNCHANGED rootSet

Next ==
  \/ \E a \in Addr : New(a) \/ Write(a) \/ Reclaim(a)
  \/ SetRoots

Spec == Init /\ [][Next]_vars

(* Whatever the program can reach is still an object. *)
NoDangling == Live \subseteq Allocated
=============================================================================
