------------------------------ MODULE DictSpec ------------------------------
(***************************************************************************)
(* What a Dict<K, V> promises a froglang program: a finite map that keeps  *)
(* the order its keys were first inserted in.  Nothing is said of hashes,  *)
(* buffers or an index.  FrogDict, the model of runtime/dict.rs, is shown  *)
(* to implement this specification.                                        *)
(*                                                                         *)
(* Key equality is the language's `==` on keys, a partial equivalence: a   *)
(* NaN key is equal to no key, itself included, so nothing ever finds it   *)
(* and a dict may hold several.                                            *)
(***************************************************************************)
EXTENDS Sequences, SequencesExt

CONSTANTS
  Ref,    \* the dicts a program holds
  Key,    \* key values
  Same,   \* the pairs of keys that are `==`
  Value,  \* values an entry can have
  Zero,   \* the value an entry has until it is assigned
  NoDict, \* what `contents` holds for a dict that does not exist
  NoKey   \* what `assigning` holds when no assignment is in progress

VARIABLES
  contents,  \* the <<key, value>> pairs of each dict, oldest key first
  assigning, \* the key whose d[k] = v has named its entry but not stored v
  answer     \* the values the last lookup or removal gave: one, or none

vars == <<contents, assigning, answer>>

Dicts == {d \in Ref : contents[d] # NoDict}

(* Where key k is: at most one position in a dict built by these operations.*)
Positions(m, k) == {i \in DOMAIN m : <<m[i][1], k>> \in Same}

Values(m, k) == {m[i][2] : i \in Positions(m, k)}

(* m with k naming v: the old entry keeps its key and place, a new one goes *)
(* last.                                                                   *)
Put(m, k, v) ==
  IF Positions(m, k) = {} THEN Append(m, <<k, v>>)
  ELSE [i \in DOMAIN m |-> IF i \in Positions(m, k) THEN <<m[i][1], v>> ELSE m[i]]

Delete(m, k) == {RemoveAt(m, i) : i \in Positions(m, k)}

Init ==
  /\ contents = [d \in Ref |-> NoDict]
  /\ assigning = [d \in Ref |-> NoKey]
  /\ answer = {}

(* The program starts a dict literal, empty, or is handed a map by the host,*)
(* no two of whose keys are equal.                                         *)
Make(d) ==
  /\ contents[d] = NoDict
  /\ contents'[d] \in Seq(Key \X Value)
  /\ \A i, j \in DOMAIN contents'[d] :
       i # j => <<contents'[d][i][1], contents'[d][j][1]>> \notin Same
  /\ contents' = [contents EXCEPT ![d] = contents'[d]]
  /\ UNCHANGED <<assigning, answer>>

Copy(d, e) ==
  /\ d \in Dicts /\ contents[e] = NoDict
  /\ contents' = [contents EXCEPT ![e] = contents[d]]
  /\ UNCHANGED <<assigning, answer>>

Drop(d) ==
  /\ d \in Dicts /\ assigning[d] = NoKey
  /\ contents' = [contents EXCEPT ![d] = NoDict]
  /\ UNCHANGED <<assigning, answer>>

(* d[k] = v in two steps: naming the entry makes it exist, storing gives it *)
(* its value.                                                              *)
Name(d, k) ==
  /\ d \in Dicts /\ assigning[d] = NoKey
  /\ contents' = [contents EXCEPT ![d] = IF Positions(contents[d], k) = {}
                                          THEN Append(contents[d], <<k, Zero>>)
                                          ELSE contents[d]]
  /\ assigning' = [assigning EXCEPT ![d] = k]
  /\ UNCHANGED answer

(* The store reaches the entry the assignment named, wherever it is now.   *)
(* Of several NaN entries it reaches the one just made, the last.          *)
Store(d, v) ==
  /\ assigning[d] # NoKey
  /\ contents' = [contents EXCEPT ![d] =
       IF <<assigning[d], assigning[d]>> \in Same
         THEN Put(contents[d], assigning[d], v)
         ELSE ReplaceAt(contents[d], Len(contents[d]), <<assigning[d], v>>)]
  /\ assigning' = [assigning EXCEPT ![d] = NoKey]
  /\ UNCHANGED answer

Get(d, k) ==
  /\ d \in Dicts
  /\ answer' = Values(contents[d], k)
  /\ UNCHANGED <<contents, assigning>>

RemoveKey(d, k) ==
  /\ d \in Dicts
  /\ answer' = Values(contents[d], k)
  /\ IF Positions(contents[d], k) = {}
       THEN UNCHANGED contents
       ELSE \E m \in Delete(contents[d], k) : contents' = [contents EXCEPT ![d] = m]
  /\ UNCHANGED assigning

Next ==
  \E d \in Ref :
    \/ Make(d) \/ Drop(d)
    \/ \E e \in Ref : Copy(d, e)
    \/ \E k \in Key : Name(d, k) \/ Get(d, k) \/ RemoveKey(d, k)
    \/ \E v \in Value : Store(d, v)

Spec == Init /\ [][Next]_vars
=============================================================================
