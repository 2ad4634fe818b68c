------------------------------ MODULE FrogDict ------------------------------
(***************************************************************************)
(* Dict<K, V> as runtime/dict.rs implements it: an entries buffer with no  *)
(* tombstones, a cached hash beside every entry, and an index of           *)
(* <<hash, entry>> pairs that is searched by hash and key equality, and    *)
(* rebuilt from the cached hashes whenever entries move.  Around it, the   *)
(* two ways compiled code and an embedder drive it: d[k] = v, whose entry  *)
(* is found before its right-hand side runs (codegen's                     *)
(* compile_place_assign), and FrogCtx::alloc_dict, which fills a dict from *)
(* a Rust HashMap.                                                         *)
(*                                                                         *)
(* Entries are numbered from 1.  Only the first `len` slots of the two     *)
(* buffers are kept: what lies beyond is never read before it is written.  *)
(***************************************************************************)
EXTENDS Integers, Sequences, SequencesExt, FiniteSets, FiniteSetsExt

CONSTANTS
  Ref, Key, Value, Zero, NoDict, NoKey,
  Same,          \* the pairs of keys key_eq accepts
  HashVal,       \* the hashes hash_key produces
  HashOf,        \* hash_key, a function of the key
  MaxCap,        \* the largest capacity: u32::MAX, a small bound here
  LiteralCaps,   \* bound: the capacities literals are allocated with
  MaxLen,        \* bound: entries of one dict
  MaxTotal,      \* bound: entries of all dicts together
  MaxPending,    \* bound: assignments in progress at once
  MaxHostLen,    \* bound: entries of a dict the embedder builds
  RhsTouchesDict,  \* the right-hand side of d[k] = v may use d itself
  MovesHostDict    \* a dict from the embedder may be removed from or copied

(* Equality is symmetric and transitive but not reflexive (NaN), and equal  *)
(* keys hash alike (-0.0 is normalised).                                   *)
ASSUME SameAssumption ==
  /\ Same \subseteq Key \X Key
  /\ \A j, k \in Key : <<j, k>> \in Same => <<k, j>> \in Same
  /\ \A j, k, l \in Key : <<j, k>> \in Same /\ <<k, l>> \in Same => <<j, l>> \in Same
ASSUME HashAssumption ==
  /\ HashOf \in [Key -> HashVal]
  /\ \A j, k \in Key : <<j, k>> \in Same => HashOf[j] = HashOf[k]
ASSUME NoneAssumption ==
  /\ NoKey \notin Key /\ Zero \in Value
ASSUME BoundsAssumption ==
  /\ LiteralCaps \subseteq Nat
  /\ MaxCap \in Nat /\ MaxLen \in Nat /\ MaxHostLen \in Nat
  /\ MaxTotal \in Nat /\ MaxPending \in Nat
  /\ RhsTouchesDict \in BOOLEAN /\ MovesHostDict \in BOOLEAN

VARIABLES
  dicts,   \* the FrogDict each reference names, or NoDict
  hosted,  \* the references whose dict FrogCtx::alloc_dict built
  pending, \* per dict, the <<key, entry>> of a d[k] = v still without its v
  answer   \* the value the last lookup or removal read, as a set

vars == <<dicts, hosted, pending, answer>>

Entry == Key \X Value

(* len is Len(entries). *)
Dict == {d \in [entries : Seq(Entry), hashes : Seq(HashVal), cap : Nat,
                index : SUBSET (HashVal \X Nat)] :
           /\ Len(d.hashes) = Len(d.entries)
           /\ Len(d.entries) <= d.cap}

ASSUME NoDictAssumption == NoDict \notin Dict /\ NoDict \notin Seq(Entry)

NoAssign == <<NoKey, 0>>

Made == {d \in Ref : dicts[d] # NoDict}

(* Room, under the bounds, for n more entries. *)
RoomFor(n) ==
  n + MapThenSumSet(LAMBDA d : Len(dicts[d].entries), Made) <= MaxTotal

-----------------------------------------------------------------------------
(* The index. *)

(* Mutant: the closure is never asked, so a hash is taken for a key. *)
HitsByHash(dict, k) ==
  {e \in DOMAIN dict.entries : <<HashOf[k], e>> \in dict.index}

(* What DictIndex::find may return: the entries stored at k's hash that the *)
(* equality closure accepts.                                               *)
Hits(dict, k) ==
  {e \in DOMAIN dict.entries :
     <<HashOf[k], e>> \in dict.index /\ <<k, dict.entries[e][1]>> \in Same}

ValuesAt(dict, hits) == {dict.entries[e][2] : e \in hits}

(* DictIndex::rebuild, from the hashes cached beside the entries. *)
Rebuild(hashes) == {<<hashes[i], i>> : i \in DOMAIN hashes}

(* Mutant: the capacity test is off by one. *)
GrownCapLate(dict) ==
  IF Len(dict.entries) <= dict.cap THEN dict.cap
  ELSE IF dict.cap = 0 THEN 4 ELSE 2 * dict.cap

(* grow_if_full: nothing until the buffers are full, then 4 or double.      *)
GrownCap(dict) ==
  IF Len(dict.entries) < dict.cap THEN dict.cap
  ELSE IF dict.cap = 0 THEN 4 ELSE 2 * dict.cap

(* frog_dict_insert on a miss: the key, a zeroed value, its hash and its   *)
(* index pair, all at position len.                                        *)
Appended(dict, k) ==
  [entries |-> Append(dict.entries, <<k, Zero>>),
   hashes |-> Append(dict.hashes, HashOf[k]),
   cap |-> GrownCap(dict),
   index |-> dict.index \cup {<<HashOf[k], Len(dict.entries) + 1>>}]

(* Mutants: the index is not rebuilt; the hashes are not moved with the     *)
(* entries; the last entry is moved into the gap.                          *)
WithoutRebuild(dict, e) ==
  [dict EXCEPT !.entries = RemoveAt(@, e), !.hashes = RemoveAt(@, e),
               !.index = {p \in @ : p[2] # e}]
WithoutMovingHashes(dict, e) ==
  [dict EXCEPT !.entries = RemoveAt(@, e), !.hashes = Front(@),
               !.index = Rebuild(Front(dict.hashes))]
WithoutBySwap(dict, e) ==
  LET swap(s) == Front([s EXCEPT ![e] = Last(s)])
      hashes == swap(dict.hashes)
  IN [dict EXCEPT !.entries = swap(@), !.hashes = hashes, !.index = Rebuild(hashes)]

(* frog_dict_remove of the entry found: both buffers close the gap. *)
Without(dict, e) ==
  LET hashes == RemoveAt(dict.hashes, e) IN
  [entries |-> RemoveAt(dict.entries, e), hashes |-> hashes,
   cap |-> dict.cap, index |-> Rebuild(hashes)]

(* frog_dict_set_slot.  There is no check that the entry is still in use:   *)
(* past len the store is to a slot nothing reads.                          *)
Stored(entries, e, v) ==
  [i \in DOMAIN entries |-> IF i = e THEN <<entries[i][1], v>> ELSE entries[i]]

(* clone_obj: exactly `len` slots, the cached hashes carried over, the     *)
(* index rebuilt from them.                                                *)
Cloned(dict) ==
  [entries |-> dict.entries, hashes |-> dict.hashes, cap |-> Len(dict.entries),
   index |-> Rebuild(dict.hashes)]

(* Mutant: only inclusion is compared. *)
EqDictSubset(a, b) ==
  \A i \in DOMAIN a.entries :
    \E e \in Hits(b, a.entries[i][1]) : a.entries[i][2] = b.entries[e][2]

(* eq_dict: as many entries, and each of a's keys found in b with an equal  *)
(* value (values are compared for identity here).                          *)
EqDict(a, b) ==
  /\ Len(a.entries) = Len(b.entries)
  /\ \A i \in DOMAIN a.entries :
       \E e \in Hits(b, a.entries[i][1]) : a.entries[i][2] = b.entries[e][2]

-----------------------------------------------------------------------------
Init ==
  /\ dicts = [d \in Ref |-> NoDict]
  /\ hosted = {}
  /\ pending = [d \in Ref |-> NoAssign]
  /\ answer = {}

(* frog_alloc_dict: room for the pairs of a literal, none of them inserted. *)
AllocDict(d) ==
  /\ dicts[d] = NoDict
  /\ \E cap \in LiteralCaps :
       dicts' = [dicts EXCEPT ![d] =
         [entries |-> <<>>, hashes |-> <<>>, cap |-> cap, index |-> {}]]
  /\ UNCHANGED <<hosted, pending, answer>>

(* FrogCtx::alloc_dict: entries are copied in and the index is built from  *)
(* hashes computed on the way; the `hashes` buffer is never written, so it *)
(* holds whatever its block held before.                                   *)
HostAllocDict(d) ==
  /\ dicts[d] = NoDict
  /\ \E n \in {m \in 0..MaxHostLen : RoomFor(m)} :
     \E entries \in [1..n -> Entry], hashes \in [1..n -> HashVal] :
       /\ \A i, j \in 1..n : i # j => <<entries[i][1], entries[j][1]>> \notin Same
       /\ dicts' = [dicts EXCEPT ![d] =
            [entries |-> entries, hashes |-> hashes, cap |-> n,
             index |-> {<<HashOf[entries[i][1]], i>> : i \in 1..n}]]
  /\ hosted' = hosted \cup {d}
  /\ UNCHANGED <<pending, answer>>

(* The program forgets a dict and the collector frees it. *)
Drop(d) ==
  /\ d \in Made /\ pending[d] = NoAssign
  /\ dicts' = [dicts EXCEPT ![d] = NoDict]
  /\ hosted' = hosted \ {d}
  /\ UNCHANGED <<pending, answer>>

-----------------------------------------------------------------------------
(* d[k] = v and the pairs of a literal: the entry first, its value later.  *)

Quiet(d) == pending[d] = NoAssign \/ RhsTouchesDict

(* frog_dict_insert for the place of an assignment. *)
BeginAssign(d, k) ==
  /\ d \in Made /\ pending[d] = NoAssign
  /\ Cardinality({r \in Ref : pending[r] # NoAssign}) < MaxPending
  /\ \/ \E e \in Hits(dicts[d], k) :
          /\ pending' = [pending EXCEPT ![d] = <<k, e>>]
          /\ UNCHANGED dicts
     \/ /\ Hits(dicts[d], k) = {}
        /\ Len(dicts[d].entries) < MaxLen /\ RoomFor(1) /\ GrownCap(dicts[d]) <= MaxCap
        /\ dicts' = [dicts EXCEPT ![d] = Appended(@, k)]
        /\ pending' = [pending EXCEPT ![d] = <<k, Len(dicts[d].entries) + 1>>]
  /\ UNCHANGED <<hosted, answer>>

(* frog_dict_set_slot at the entry found before the right-hand side ran.   *)
FinishAssign(d, v) ==
  /\ pending[d] # NoAssign
  /\ dicts' = [dicts EXCEPT ![d].entries = Stored(@, pending[d][2], v)]
  /\ pending' = [pending EXCEPT ![d] = NoAssign]
  /\ UNCHANGED <<hosted, answer>>

-----------------------------------------------------------------------------
(* Lookup, removal, copy. *)

(* frog_dict_find and the slot read that follows it: k in d, d[k], d.get.   *)
Get(d, k) ==
  /\ d \in Made /\ Quiet(d)
  /\ \/ \E e \in Hits(dicts[d], k) : answer' = ValuesAt(dicts[d], {e})
     \/ Hits(dicts[d], k) = {} /\ answer' = {}
  /\ UNCHANGED <<dicts, hosted, pending>>

(* finish_remove: the value is read out, then frog_dict_remove. *)
RemoveKey(d, k) ==
  /\ d \in Made /\ Quiet(d) /\ (d \in hosted => MovesHostDict)
  /\ \/ \E e \in Hits(dicts[d], k) :
          /\ answer' = ValuesAt(dicts[d], {e})
          /\ dicts' = [dicts EXCEPT ![d] = Without(@, e)]
     \/ /\ Hits(dicts[d], k) = {}
        /\ answer' = {}
        /\ UNCHANGED dicts
  /\ UNCHANGED <<hosted, pending>>

(* A copied dict: clone_obj. *)
Clone(d, c) ==
  /\ d \in Made /\ Quiet(d) /\ (d \in hosted => MovesHostDict)
  /\ dicts[c] = NoDict /\ RoomFor(Len(dicts[d].entries))
  /\ dicts' = [dicts EXCEPT ![c] = Cloned(dicts[d])]
  /\ UNCHANGED <<hosted, pending, answer>>

Next ==
  \E d \in Ref :
    \/ AllocDict(d) \/ HostAllocDict(d) \/ Drop(d)
    \/ \E k \in Key : BeginAssign(d, k) \/ Get(d, k) \/ RemoveKey(d, k)
    \/ \E v \in Value : FinishAssign(d, v)
    \/ \E c \in Ref : Clone(d, c)

Spec == Init /\ [][Next]_vars

-----------------------------------------------------------------------------
(* Type correctness: buffers stay within their capacity, hashes beside      *)
(* entries.                                                                *)
TypeOK ==
  /\ dicts \in [Ref -> Dict \cup {NoDict}]
  /\ hosted \subseteq Ref
  /\ pending \in [Ref -> (Key \X (Nat \ {0})) \cup {NoAssign}]
  /\ answer \subseteq Value

(* Every entry whose key is equal to itself is the one and only entry a    *)
(* lookup of that key can return, through every growth, removal, copy and  *)
(* collision: frog_dict_find agrees with reading the entries in order.     *)
KeysReachable ==
  \A d \in Made : \A e \in DOMAIN dicts[d].entries :
    LET k == dicts[d].entries[e][1] IN
    Hits(dicts[d], k) = IF <<k, k>> \in Same THEN {e} ELSE {}

(* The index holds one pair for every entry in use, at the hash of that     *)
(* entry's key, and none for an entry that is gone; except in a dict the    *)
(* embedder built, the cached hashes are those hashes.                     *)
IndexExact ==
  \A d \in Made :
    LET D == dicts[d] IN
    /\ D.index = {<<HashOf[D.entries[i][1]], i>> : i \in DOMAIN D.entries}
    /\ d \notin hosted => \A i \in DOMAIN D.entries : D.hashes[i] = HashOf[D.entries[i][1]]

(* eq_dict is equality of contents: two dicts compare equal exactly when    *)
(* they map the same keys to the same values, in whatever order they were  *)
(* inserted, and a dict with a NaN key equals none, as `==` has it.        *)
Pairs(dict) ==
  {<<{k \in Key : <<k, p[1]>> \in Same}, p[2]>> : p \in ToSet(dict.entries)}
EqIsContent ==
  \A d, c \in Made :
    EqDict(dicts[d], dicts[c]) <=>
      /\ Pairs(dicts[d]) = Pairs(dicts[c])
      /\ \A p \in Pairs(dicts[d]) \cup Pairs(dicts[c]) : p[1] # {}

(* d[k] = v gives v to k: when the assignment is done the value just stored *)
(* is what the dict has for the key the program named, whatever its        *)
(* right-hand side did in between, and no other key's value has changed.   *)
AssignReachesKey ==
  [][\A d \in Ref : \A v \in Value :
       FinishAssign(d, v) =>
         LET k == pending[d][1]
             old == dicts[d].entries
             new == dicts'[d].entries
         IN /\ <<k, k>> \in Same =>
                 \E i \in DOMAIN new : <<new[i][1], k>> \in Same /\ new[i][2] = v
            /\ \A i \in DOMAIN old :
                 <<old[i][1], k>> \notin Same /\ <<k, k>> \in Same => new[i] = old[i]]_vars

Contents == [d \in Ref |-> IF dicts[d] = NoDict THEN NoDict ELSE dicts[d].entries]

Abstract == INSTANCE DictSpec WITH
  contents <- Contents,
  assigning <- [d \in Ref |-> pending[d][1]]

(* The dict is the map of DictSpec: every operation does to the insertion-  *)
(* ordered contents, and answers, what the map operation does.             *)
ImplementsDictSpec == Abstract!Spec
=============================================================================
