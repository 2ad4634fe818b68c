--------------------------- MODULE FrogDictProofs ---------------------------
(***************************************************************************)
(* What runtime/dict.rs guarantees for any keys, any key equality that is   *)
(* a partial equivalence, any hash consistent with it and any bounds.  The *)
(* argument: every operation keeps the index exact for the entries it      *)
(* leaves, and never lets two entries have equal keys, so the index finds  *)
(* an entry exactly when the key is there, and there is one to find.       *)
(*                                                                         *)
(* The index is exact only while a dict the embedder built is not removed  *)
(* from or copied (its cached hashes are garbage), and an assignment       *)
(* reaches its key only if its right-hand side leaves the dict alone; the  *)
(* theorems that need it say so as hypotheses on the two constants.        *)
(***************************************************************************)
EXTENDS FrogDict, TLAPS, SequenceTheorems, FiniteSetTheorems

-----------------------------------------------------------------------------
(* The inductive invariant. *)

KeyAt(D, i) == D.entries[i][1]

Indexed(D) == D.index = {<<HashOf[KeyAt(D, i)], i>> : i \in DOMAIN D.entries}

HashesExact(D) == \A i \in DOMAIN D.entries : D.hashes[i] = HashOf[KeyAt(D, i)]

KeysDistinct(D) ==
  \A i, j \in DOMAIN D.entries : i # j => <<KeyAt(D, i), KeyAt(D, j)>> \notin Same

(* A dict whose index and cached hashes are as its entries say, those of a  *)
(* dict the host built excepted.                                           *)
Exact(D, host) == Indexed(D) /\ KeysDistinct(D) /\ (~host => HashesExact(D))

DictsExact == \A d \in Made : Exact(dicts[d], d \in hosted)

PendingMade == \A d \in Ref : pending[d] # NoAssign => d \in Made

(* The entry an assignment in progress holds is still the one its key       *)
(* named: an equal key, or the NaN just put at the end.                    *)
PendingFound(D, k, e) ==
  /\ e \in DOMAIN D.entries
  /\ IF <<k, k>> \in Same THEN <<k, KeyAt(D, e)>> \in Same
     ELSE e = Len(D.entries) /\ KeyAt(D, e) = k

PendingExact ==
  \A d \in Ref : pending[d] # NoAssign =>
    PendingFound(dicts[d], pending[d][1], pending[d][2])

TypeInv == TypeOK /\ PendingMade

IndexInv == TypeInv /\ DictsExact

AssignInv == IndexInv /\ PendingExact

-----------------------------------------------------------------------------
(* Sequences and records. *)

(* RemoveAt closes the gap. *)
LEMMA RemoveAtProperties ==
  ASSUME NEW S, NEW s \in Seq(S), NEW e \in 1..Len(s)
  PROVE  /\ RemoveAt(s, e) \in Seq(S)
         /\ Len(RemoveAt(s, e)) = Len(s) - 1
         /\ \A i \in 1..(Len(s) - 1) :
              RemoveAt(s, e)[i] = IF i < e THEN s[i] ELSE s[i + 1]
<1> DEFINE a == SubSeq(s, 1, e - 1)
           b == SubSeq(s, e + 1, Len(s))
<1>1. Len(s) \in Nat /\ e \in Int /\ \A i \in 1..Len(s) : s[i] \in S
  BY LenProperties, ElementOfSeq
<1>2. /\ a \in Seq(S) /\ Len(a) = e - 1
      /\ \A i \in 1..(e - 1) : a[i] = s[i]
  <2>1. 1 \in Int /\ e - 1 \in Int /\ \A i \in 1..(e - 1) : s[i] \in S
    BY <1>1
  <2>2. /\ a \in Seq(S)
        /\ Len(a) = IF 1 <= e - 1 THEN e - 1 - 1 + 1 ELSE 0
        /\ \A i \in 1..(e - 1 - 1 + 1) : a[i] = s[1 + i - 1]
    BY <2>1, SubSeqProperties
  <2> QED BY <1>1, <2>2
<1>3. /\ b \in Seq(S) /\ Len(b) = Len(s) - e
      /\ \A i \in 1..(Len(s) - e) : b[i] = s[e + i]
  <2>1. e + 1 \in Int /\ Len(s) \in Int /\ \A i \in (e + 1)..Len(s) : s[i] \in S
    BY <1>1
  <2>2. /\ b \in Seq(S)
        /\ Len(b) = IF e + 1 <= Len(s) THEN Len(s) - (e + 1) + 1 ELSE 0
        /\ \A i \in 1..(Len(s) - (e + 1) + 1) : b[i] = s[e + 1 + i - 1]
    BY <2>1, SubSeqProperties
  <2> QED BY <1>1, <2>2
<1>4. /\ a \o b \in Seq(S)
      /\ Len(a \o b) = Len(a) + Len(b)
      /\ \A i \in 1..(Len(a) + Len(b)) : (a \o b)[i] =
           IF i <= Len(a) THEN a[i] ELSE b[i - Len(a)]
  BY <1>2, <1>3, ConcatProperties
<1>5. RemoveAt(s, e) = a \o b
  BY DEF RemoveAt
<1> HIDE DEF a, b
<1>6. Len(a) + Len(b) = Len(s) - 1
  BY <1>1, <1>2, <1>3
<1>7. ASSUME NEW i \in 1..(Len(s) - 1)
      PROVE  (a \o b)[i] = IF i < e THEN s[i] ELSE s[i + 1]
  <2>1. (a \o b)[i] = IF i <= e - 1 THEN a[i] ELSE b[i - (e - 1)]
    BY <1>2, <1>4, <1>6
  <2>2. CASE i < e
    BY <1>1, <1>2, <2>1, <2>2
  <2>3. CASE ~(i < e)
    <3>1. i - (e - 1) \in 1..(Len(s) - e) /\ e + (i - (e - 1)) = i + 1
      BY <1>1, <2>3
    <3>2. b[i - (e - 1)] = s[i + 1]
      BY <1>3, <3>1
    <3> QED BY <1>1, <2>1, <2>3, <3>2
  <2> QED BY <2>2, <2>3
<1> QED BY <1>4, <1>5, <1>6, <1>7

(* What membership in Dict says of the fields, and what makes a dict. *)
LEMMA DictFields ==
  ASSUME NEW D \in Dict
  PROVE  /\ D.entries \in Seq(Entry) /\ D.hashes \in Seq(HashVal)
         /\ Len(D.entries) \in Nat /\ DOMAIN D.entries = 1..Len(D.entries)
         /\ Len(D.hashes) = Len(D.entries) /\ DOMAIN D.hashes = 1..Len(D.entries)
         /\ D.cap \in Nat /\ Len(D.entries) <= D.cap
         /\ D.index \in SUBSET (HashVal \X Nat)
         /\ \A i \in 1..Len(D.entries) : /\ D.entries[i] \in Entry
                                         /\ KeyAt(D, i) \in Key /\ D.entries[i][2] \in Value
                                         /\ D.hashes[i] \in HashVal
<1>1. /\ D.entries \in Seq(Entry) /\ D.hashes \in Seq(HashVal)
      /\ Len(D.hashes) = Len(D.entries) 
      /\ D.cap \in Nat /\ Len(D.entries) <= D.cap
      /\ D.index \in SUBSET (HashVal \X Nat)
  BY DEF Dict
<1>2. /\ Len(D.entries) \in Nat /\ DOMAIN D.entries = 1..Len(D.entries)
      /\ DOMAIN D.hashes = 1..Len(D.entries)
  BY <1>1, LenProperties
<1>3. \A i \in 1..Len(D.entries) : D.entries[i] \in Entry /\ D.hashes[i] \in HashVal
  BY <1>1, ElementOfSeq
<1> QED BY <1>1, <1>2, <1>3 DEF Entry, KeyAt

LEMMA MakesDict ==
  ASSUME NEW es \in Seq(Entry), NEW hs \in Seq(HashVal), NEW c \in Nat,
         NEW x \in SUBSET (HashVal \X Nat),
         Len(hs) = Len(es), Len(es) <= c
  PROVE  [entries |-> es, hashes |-> hs, cap |-> c, index |-> x] \in Dict
BY DEF Dict

(* What replacing the entries of a dict makes of it. *)
LEMMA DictExcept ==
  ASSUME NEW D \in Dict, NEW es
  PROVE  [D EXCEPT !.entries = es] =
           [entries |-> es, hashes |-> D.hashes, cap |-> D.cap, index |-> D.index]
BY DEF Dict

(* The index a rebuild makes has one pair of a hash and a position each. *)
LEMMA RebuildType ==
  ASSUME NEW hs \in Seq(HashVal)
  PROVE  Rebuild(hs) \in SUBSET (HashVal \X Nat)
<1>1. DOMAIN hs = 1..Len(hs) /\ Len(hs) \in Nat /\ \A i \in 1..Len(hs) : hs[i] \in HashVal
  BY LenProperties, ElementOfSeq
<1> QED BY <1>1 DEF Rebuild

-----------------------------------------------------------------------------
(* Lookups. *)

(* With an exact index, a lookup finds the entries whose key is equal: the *)
(* hash it searches by never hides one.                                    *)
LEMMA HitsExact ==
  ASSUME NEW D \in Dict, Indexed(D), NEW k \in Key
  PROVE  Hits(D, k) = {e \in DOMAIN D.entries : <<k, KeyAt(D, e)>> \in Same}
<1>1. \A e \in DOMAIN D.entries : KeyAt(D, e) \in Key
  BY DictFields
<1>2. ASSUME NEW e \in DOMAIN D.entries, <<k, KeyAt(D, e)>> \in Same
      PROVE  <<HashOf[k], e>> \in D.index
  <2>1. HashOf[k] = HashOf[KeyAt(D, e)]
    BY <1>1, <1>2, HashAssumption
  <2> QED BY <2>1 DEF Indexed
<1> QED BY <1>2 DEF Hits, KeyAt

(* And at most one. *)
LEMMA OneHit ==
  ASSUME NEW D \in Dict, KeysDistinct(D), NEW k \in Key,
         NEW e \in Hits(D, k), NEW f \in Hits(D, k)
  PROVE  e = f
<1>1. /\ e \in DOMAIN D.entries /\ f \in DOMAIN D.entries
      /\ <<k, KeyAt(D, e)>> \in Same /\ <<k, KeyAt(D, f)>> \in Same
  BY DEF Hits, KeyAt
<1>2. KeyAt(D, e) \in Key /\ KeyAt(D, f) \in Key
  BY <1>1, DictFields
<1>3. <<KeyAt(D, e), KeyAt(D, f)>> \in Same
  BY <1>1, <1>2, SameAssumption
<1> QED BY <1>1, <1>3 DEF KeysDistinct

-----------------------------------------------------------------------------
(* What each operation makes of one dict. *)

LEMMA GrownCapRoom ==
  ASSUME NEW D \in Dict
  PROVE  GrownCap(D) \in Nat /\ Len(D.entries) + 1 <= GrownCap(D)
BY DictFields DEF GrownCap

LEMMA AppendedOK ==
  ASSUME NEW D \in Dict, NEW k \in Key
  PROVE  LET A == Appended(D, k) IN
         /\ A \in Dict /\ DOMAIN A.entries = 1..(Len(D.entries) + 1)
         /\ A.entries = Append(D.entries, <<k, Zero>>)
         /\ \A i \in 1..Len(D.entries) : A.entries[i] = D.entries[i] /\ A.hashes[i] = D.hashes[i]
         /\ A.entries[Len(D.entries) + 1] = <<k, Zero>>
         /\ A.hashes[Len(D.entries) + 1] = HashOf[k]
         /\ A.index = D.index \cup {<<HashOf[k], Len(D.entries) + 1>>}
<1> DEFINE es == Append(D.entries, <<k, Zero>>)
           hs == Append(D.hashes, HashOf[k])
           n == Len(D.entries)
           x == D.index \cup {<<HashOf[k], n + 1>>}
<1>1. /\ D.entries \in Seq(Entry) /\ D.hashes \in Seq(HashVal) /\ n \in Nat
      /\ Len(D.hashes) = n /\ D.index \in SUBSET (HashVal \X Nat)
  BY DictFields
<1>2. <<k, Zero>> \in Entry /\ HashOf[k] \in HashVal
  BY HashAssumption, NoneAssumption DEF Entry
<1>3. /\ es \in Seq(Entry) /\ Len(es) = n + 1 /\ es[n + 1] = <<k, Zero>>
      /\ \A i \in 1..n : es[i] = D.entries[i]
  BY <1>1, <1>2, AppendProperties
<1>4. /\ hs \in Seq(HashVal) /\ Len(hs) = n + 1 /\ hs[n + 1] = HashOf[k]
      /\ \A i \in 1..n : hs[i] = D.hashes[i]
  <2> HIDE DEF n
  <2>1. /\ hs \in Seq(HashVal) /\ Len(hs) = Len(D.hashes) + 1 /\ hs[Len(D.hashes) + 1] = HashOf[k]
        /\ \A i \in 1..Len(D.hashes) : hs[i] = D.hashes[i]
    BY <1>1, <1>2, AppendProperties
  <2> QED BY <1>1, <2>1
<1>5. x \in SUBSET (HashVal \X Nat)
  BY <1>1, <1>2
<1>6. DOMAIN es = 1..(n + 1)
  BY <1>3, LenProperties
<1>7. Appended(D, k) = [entries |-> es, hashes |-> hs, cap |-> GrownCap(D), index |-> x]
  BY DEF Appended
<1> HIDE DEF es, hs, x, n
<1>8. Appended(D, k) \in Dict
  BY <1>3, <1>4, <1>5, <1>7, GrownCapRoom, MakesDict DEF n
<1> QED BY <1>3, <1>4, <1>6, <1>7, <1>8 DEF es, hs, x, n

(* A key that is not there is added without disturbing the index: its own   *)
(* pair is the only new one, and it collides with no equal key.            *)
LEMMA AppendedExact ==
  ASSUME NEW D \in Dict, NEW k \in Key, Hits(D, k) = {}, Exact(D, TRUE)
  PROVE  Exact(Appended(D, k), TRUE) /\ (HashesExact(D) => HashesExact(Appended(D, k)))
<1> DEFINE A == Appended(D, k)
           n == Len(D.entries)
<1>1. /\ A \in Dict /\ DOMAIN A.entries = 1..(n + 1)
      /\ \A i \in 1..n : A.entries[i] = D.entries[i] /\ A.hashes[i] = D.hashes[i]
      /\ A.entries[n + 1] = <<k, Zero>> /\ A.hashes[n + 1] = HashOf[k]
      /\ A.index = D.index \cup {<<HashOf[k], n + 1>>}
  BY AppendedOK
<1>2. n \in Nat /\ DOMAIN D.entries = 1..n /\ \A i \in 1..n : KeyAt(D, i) \in Key
  BY DictFields
<1> HIDE DEF A, n
<1>3. KeyAt(A, n + 1) = k /\ \A i \in 1..n : KeyAt(A, i) = KeyAt(D, i)
  BY <1>1 DEF KeyAt
<1>4. 1..(n + 1) = 1..n \cup {n + 1}
  BY <1>2
<1>5. Indexed(A)
  <2>1. D.index = {<<HashOf[KeyAt(D, i)], i>> : i \in 1..n}
    BY <1>2 DEF Exact, Indexed
  <2>2. {<<HashOf[KeyAt(A, i)], i>> : i \in 1..(n + 1)}
          = {<<HashOf[KeyAt(D, i)], i>> : i \in 1..n} \cup {<<HashOf[k], n + 1>>}
    BY <1>3, <1>4
  <2> QED BY <1>1, <2>1, <2>2 DEF Indexed
<1>6. \A i \in 1..n : <<k, KeyAt(D, i)>> \notin Same /\ <<KeyAt(D, i), k>> \notin Same
  <2>1. \A i \in 1..n : <<k, KeyAt(D, i)>> \notin Same
    BY <1>2, HitsExact DEF Exact
  <2> QED BY <1>2, <2>1, SameAssumption
<1>7. KeysDistinct(A)
  <2>1. \A i, j \in 1..n : i # j => <<KeyAt(D, i), KeyAt(D, j)>> \notin Same
    BY <1>2 DEF Exact, KeysDistinct
  <2>2. \A i, j \in 1..(n + 1) : i # j => <<KeyAt(A, i), KeyAt(A, j)>> \notin Same
    BY <1>3, <1>4, <1>6, <2>1
  <2> QED BY <1>1, <2>2 DEF KeysDistinct
<1>8. HashesExact(D) => HashesExact(A)
  BY <1>1, <1>2, <1>3, <1>4 DEF HashesExact
<1> QED BY <1>5, <1>7, <1>8 DEF A, Exact

LEMMA WithoutOK ==
  ASSUME NEW D \in Dict, NEW e \in DOMAIN D.entries
  PROVE  LET W == Without(D, e)
             n == Len(D.entries) - 1
         IN
         /\ W \in Dict /\ n \in Nat /\ DOMAIN W.entries = 1..n
         /\ W.entries = RemoveAt(D.entries, e)
         /\ \A i \in 1..n : LET old == IF i < e THEN i ELSE i + 1 IN
              /\ old \in DOMAIN D.entries /\ W.entries[i] = D.entries[old]
              /\ W.hashes[i] = D.hashes[old]
         /\ W.index = {<<W.hashes[i], i>> : i \in 1..n}
<1> DEFINE es == RemoveAt(D.entries, e)
           hs == RemoveAt(D.hashes, e)
           n == Len(D.entries) - 1
<1>1. /\ D.entries \in Seq(Entry) /\ D.hashes \in Seq(HashVal) /\ Len(D.entries) \in Nat
      /\ Len(D.hashes) = Len(D.entries) /\ D.cap \in Nat /\ Len(D.entries) <= D.cap
      /\ DOMAIN D.entries = 1..Len(D.entries) /\ e \in 1..Len(D.entries)
  BY DictFields
<1>2. /\ es \in Seq(Entry) /\ Len(es) = n
      /\ \A i \in 1..n : es[i] = IF i < e THEN D.entries[i] ELSE D.entries[i + 1]
  BY <1>1, RemoveAtProperties
<1>3. /\ hs \in Seq(HashVal) /\ Len(hs) = n
      /\ \A i \in 1..n : hs[i] = IF i < e THEN D.hashes[i] ELSE D.hashes[i + 1]
  <2>1. /\ hs \in Seq(HashVal) /\ Len(hs) = Len(D.hashes) - 1
        /\ \A i \in 1..(Len(D.hashes) - 1) :
             hs[i] = IF i < e THEN D.hashes[i] ELSE D.hashes[i + 1]
    <3> DEFINE s == D.hashes
    <3> HIDE DEF s
    <3>1. s \in Seq(HashVal) /\ e \in 1..Len(s)
      BY <1>1 DEF s
    <3>2. /\ RemoveAt(s, e) \in Seq(HashVal) /\ Len(RemoveAt(s, e)) = Len(s) - 1
          /\ \A i \in 1..(Len(s) - 1) : RemoveAt(s, e)[i] = IF i < e THEN s[i] ELSE s[i + 1]
      BY <3>1, RemoveAtProperties
    <3> QED BY <3>2 DEF s
  <2> QED BY <1>1, <2>1
<1>4. n \in Nat /\ n <= D.cap
  BY <1>1
<1>5. DOMAIN es = 1..n /\ DOMAIN hs = 1..n
  BY <1>2, <1>3, LenProperties
<1>6. Without(D, e) = [entries |-> es, hashes |-> hs, cap |-> D.cap, index |-> Rebuild(hs)]
  BY DEF Without
<1>7. \A i \in 1..n : (IF i < e THEN i ELSE i + 1) \in DOMAIN D.entries
  BY <1>1
<1> HIDE DEF es, hs, n
<1>8. Without(D, e) \in Dict
  BY <1>1, <1>2, <1>3, <1>4, <1>6, RebuildType, MakesDict
<1>9. Rebuild(hs) = {<<hs[i], i>> : i \in 1..n}
  BY <1>5 DEF Rebuild
<1> QED BY <1>2, <1>3, <1>4, <1>5, <1>6, <1>7, <1>8, <1>9 DEF es, n

(* Removing an entry rebuilds the index from cached hashes, which is exact  *)
(* because those are the hashes of the keys they move with.                *)
LEMMA WithoutExact ==
  ASSUME NEW D \in Dict, NEW e \in DOMAIN D.entries, Exact(D, FALSE)
  PROVE  Exact(Without(D, e), FALSE)
<1> DEFINE W == Without(D, e)
           n == Len(D.entries) - 1
           old(i) == IF i < e THEN i ELSE i + 1
<1>1. /\ n \in Nat /\ DOMAIN W.entries = 1..n
      /\ \A i \in 1..n : /\ old(i) \in DOMAIN D.entries
                         /\ W.entries[i] = D.entries[old(i)] /\ W.hashes[i] = D.hashes[old(i)]
      /\ W.index = {<<W.hashes[i], i>> : i \in 1..n}
  BY WithoutOK
<1>2. \A i, j \in 1..n : i # j => old(i) # old(j)
  BY <1>1, DictFields
<1> HIDE DEF W, n, old
<1>3. \A i \in 1..n : KeyAt(W, i) = KeyAt(D, old(i))
  BY <1>1 DEF KeyAt
<1>4. HashesExact(W)
  BY <1>1, <1>3 DEF Exact, HashesExact
<1>5. Indexed(W)
  BY <1>1, <1>4 DEF Indexed, HashesExact
<1>6. KeysDistinct(W)
  BY <1>1, <1>2, <1>3 DEF Exact, KeysDistinct
<1> QED BY <1>4, <1>5, <1>6 DEF W, Exact

LEMMA ClonedOK ==
  ASSUME NEW D \in Dict
  PROVE  /\ Cloned(D) \in Dict
         /\ Cloned(D).entries = D.entries /\ Cloned(D).hashes = D.hashes
         /\ Cloned(D).index = {<<D.hashes[i], i>> : i \in DOMAIN D.entries}
<1>1. Cloned(D) \in Dict
  BY DictFields, RebuildType, MakesDict DEF Cloned
<1> QED BY <1>1, DictFields DEF Cloned, Rebuild

LEMMA ClonedExact ==
  ASSUME NEW D \in Dict, Exact(D, FALSE)
  PROVE  Exact(Cloned(D), FALSE)
<1> DEFINE C == Cloned(D)
<1>1. /\ C.entries = D.entries /\ C.hashes = D.hashes
      /\ C.index = {<<D.hashes[i], i>> : i \in DOMAIN D.entries}
  BY ClonedOK
<1> HIDE DEF C
<1>2. \A i \in DOMAIN D.entries : D.hashes[i] = HashOf[KeyAt(C, i)] /\ KeyAt(C, i) = KeyAt(D, i)
  BY <1>1 DEF Exact, HashesExact, KeyAt
<1>3. Indexed(C)
  BY <1>1, <1>2 DEF Indexed
<1> QED BY <1>1, <1>2, <1>3 DEF C, Exact, HashesExact, KeysDistinct

(* frog_dict_set_slot's dict. *)
WithStored(D, e, v) == [D EXCEPT !.entries = Stored(D.entries, e, v)]

LEMMA StoredOK ==
  ASSUME NEW D \in Dict, NEW e \in Nat, NEW v \in Value
  PROVE  LET T == WithStored(D, e, v) IN
         /\ T \in Dict /\ T.entries = Stored(D.entries, e, v)
         /\ T.hashes = D.hashes /\ T.index = D.index
         /\ DOMAIN T.entries = DOMAIN D.entries /\ Len(T.entries) = Len(D.entries)
         /\ \A i \in DOMAIN D.entries :
              /\ KeyAt(T, i) = KeyAt(D, i)
              /\ T.entries[i] = IF i = e THEN <<KeyAt(D, i), v>> ELSE D.entries[i]
<1> DEFINE es == Stored(D.entries, e, v)
           n == Len(D.entries)
<1>1. /\ n \in Nat /\ DOMAIN D.entries = 1..n
      /\ \A i \in 1..n : D.entries[i] \in Entry /\ KeyAt(D, i) \in Key
  BY DictFields
<1>2. \A i \in 1..n : es[i] = IF i = e THEN <<KeyAt(D, i), v>> ELSE D.entries[i]
  BY <1>1 DEF Stored, KeyAt
<1>3. es \in [1..n -> Entry]
  BY <1>1, <1>2 DEF Stored, Entry
<1> HIDE DEF n
<1>4. es \in Seq(Entry) /\ Len(es) = n /\ DOMAIN es = 1..n
  <2>1. es \in Seq(Entry)
    BY <1>1, <1>3, SeqDef
  <2> QED BY <1>1, <1>3, <2>1, LenProperties
<1> HIDE DEF es
<1>5. WithStored(D, e, v) = [entries |-> es, hashes |-> D.hashes, cap |-> D.cap, index |-> D.index]
  BY DictExcept DEF WithStored, es
<1>6. WithStored(D, e, v) \in Dict
  BY <1>4, <1>5, DictFields, MakesDict DEF n
<1>7. ASSUME NEW i \in 1..n PROVE es[i][1] = KeyAt(D, i)
  <2>1. CASE i = e
    <3>1. es[i] = <<KeyAt(D, i), v>>
      BY <1>2, <2>1
    <3> QED BY <3>1
  <2>2. CASE i # e
    BY <1>2, <2>2 DEF KeyAt
  <2> QED BY <2>1, <2>2
<1> QED BY <1>1, <1>2, <1>4, <1>5, <1>6, <1>7 DEF KeyAt, es, n

(* What stays of a dict an entry of which is stored into. *)
LEMMA StoredKeys ==
  ASSUME NEW D \in Dict, NEW e \in Nat, NEW v \in Value, NEW T, T = WithStored(D, e, v)
  PROVE  /\ DOMAIN T.entries = DOMAIN D.entries /\ T.hashes = D.hashes /\ T.index = D.index
         /\ \A i \in DOMAIN D.entries : KeyAt(T, i) = KeyAt(D, i)
         /\ \A i \in DOMAIN D.entries : T.entries[i] = IF i = e THEN <<KeyAt(D, i), v>> ELSE D.entries[i]
<1> DEFINE U == WithStored(D, e, v)
<1>1. /\ U.hashes = D.hashes /\ U.index = D.index
      /\ DOMAIN U.entries = DOMAIN D.entries
      /\ \A i \in DOMAIN D.entries :
           /\ KeyAt(U, i) = KeyAt(D, i)
           /\ U.entries[i] = IF i = e THEN <<KeyAt(D, i), v>> ELSE D.entries[i]
  BY StoredOK
<1>2. T = U
  OBVIOUS
<1> HIDE DEF U
<1> QED BY <1>1, <1>2

LEMMA StoredExact ==
  ASSUME NEW D \in Dict, NEW e \in Nat, NEW v \in Value, Exact(D, TRUE)
  PROVE  LET T == WithStored(D, e, v) IN
         Exact(T, TRUE) /\ (HashesExact(D) => HashesExact(T))
<1> DEFINE T == WithStored(D, e, v)
<1>1. /\ DOMAIN T.entries = DOMAIN D.entries /\ T.hashes = D.hashes /\ T.index = D.index
      /\ \A i \in DOMAIN D.entries : KeyAt(T, i) = KeyAt(D, i)
  <2> HIDE DEF T
  <2>1. T = WithStored(D, e, v)
    BY DEF T
  <2> QED BY <2>1, StoredKeys
<1> HIDE DEF T
<1> QED BY <1>1 DEF T, Exact, Indexed, HashesExact, KeysDistinct

(* What FrogCtx::alloc_dict makes of a map's pairs and whatever its hashes  *)
(* buffer holds.                                                           *)
LEMMA HostDictOK ==
  ASSUME NEW n \in Nat, NEW es \in [1..n -> Entry], NEW hs \in [1..n -> HashVal],
         \A i, j \in 1..n : i # j => <<es[i][1], es[j][1]>> \notin Same
  PROVE  LET D == [entries |-> es, hashes |-> hs, cap |-> n,
                   index |-> {<<HashOf[es[i][1]], i>> : i \in 1..n}]
         IN D \in Dict /\ Exact(D, TRUE)
<1> DEFINE x == {<<HashOf[es[i][1]], i>> : i \in 1..n}
           D == [entries |-> es, hashes |-> hs, cap |-> n, index |-> x]
<1>1. es \in Seq(Entry) /\ hs \in Seq(HashVal)
  BY SeqDef
<1>2. Len(es) = n /\ Len(hs) = n /\ DOMAIN es = 1..n
  BY <1>1, LenProperties
<1>3. x \in SUBSET (HashVal \X Nat)
  <2>1. \A i \in 1..n : es[i][1] \in Key /\ i \in Nat
    BY DEF Entry
  <2> QED BY <2>1, HashAssumption
<1>4. D \in Dict
  <2> HIDE DEF x
  <2>1. Len(hs) = Len(es) /\ Len(es) <= n
    BY <1>2
  <2> QED BY <1>1, <1>3, <2>1, MakesDict
<1>5. Indexed(D) /\ KeysDistinct(D)
  BY <1>2 DEF Indexed, KeysDistinct, KeyAt
<1> QED BY <1>4, <1>5 DEF Exact

LEMMA EmptyDictOK ==
  ASSUME NEW cap \in Nat
  PROVE  LET D == [entries |-> <<>>, hashes |-> <<>>, cap |-> cap, index |-> {}]
         IN D \in Dict /\ Exact(D, FALSE)
<1> DEFINE D == [entries |-> <<>>, hashes |-> <<>>, cap |-> cap, index |-> {}]
<1>1. D \in Dict
  <2>1. /\ <<>> \in Seq(Entry) /\ <<>> \in Seq(HashVal) /\ Len(<<>>) = 0
        /\ {} \in SUBSET (HashVal \X Nat) /\ 0 <= cap
    BY EmptySeq
  <2> QED BY <2>1, MakesDict
<1>2. DOMAIN D.entries = {}
  OBVIOUS
<1> QED BY <1>1, <1>2 DEF Exact, Indexed, KeysDistinct, HashesExact

-----------------------------------------------------------------------------
(* Steps.  Every one of them changes at most one dict. *)

LEMMA MadeDict ==
  ASSUME TypeOK, NEW d \in Made
  PROVE  d \in Ref /\ dicts[d] \in Dict
BY NoDictAssumption DEF TypeOK, Made

LEMMA OneDictChanges ==
  ASSUME TypeOK, NEW d \in Ref, NEW D \in Dict, dicts' = [dicts EXCEPT ![d] = D]
  PROVE  /\ dicts' \in [Ref -> Dict \cup {NoDict}]
         /\ Made' = Made \cup {d}
         /\ dicts'[d] = D /\ \A c \in Ref \ {d} : dicts'[c] = dicts[c]
BY NoDictAssumption DEF TypeOK, Made

(* What a step may do to the dicts: make or change one, free one, or none.  *)
Changed(d, D) == d \in Ref /\ D \in Dict /\ dicts' = [dicts EXCEPT ![d] = D]
Freed(d) == d \in Made /\ dicts' = [dicts EXCEPT ![d] = NoDict]

LEMMA AllocDictStep ==
  ASSUME TypeOK, NEW d \in Ref, AllocDict(d)
  PROVE  \E D \in Dict : Changed(d, D) /\ Exact(D, FALSE) /\ D.entries = <<>>
<1>1. PICK cap \in LiteralCaps : dicts' = [dicts EXCEPT ![d] =
         [entries |-> <<>>, hashes |-> <<>>, cap |-> cap, index |-> {}]]
  BY DEF AllocDict
<1>2. cap \in Nat
  BY BoundsAssumption
<1> QED BY <1>1, <1>2, EmptyDictOK DEF Changed

LEMMA HostAllocDictStep ==
  ASSUME TypeOK, NEW d \in Ref, HostAllocDict(d)
  PROVE  \E D \in Dict : Changed(d, D) /\ Exact(D, TRUE)
<1>1. PICK n \in 0..MaxHostLen :
        \E entries \in [1..n -> Entry], hashes \in [1..n -> HashVal] :
          /\ \A i, j \in 1..n : i # j => <<entries[i][1], entries[j][1]>> \notin Same
          /\ dicts' = [dicts EXCEPT ![d] =
               [entries |-> entries, hashes |-> hashes, cap |-> n,
                index |-> {<<HashOf[entries[i][1]], i>> : i \in 1..n}]]
  BY DEF HostAllocDict
<1>2. PICK es \in [1..n -> Entry], hs \in [1..n -> HashVal] :
          /\ \A i, j \in 1..n : i # j => <<es[i][1], es[j][1]>> \notin Same
          /\ dicts' = [dicts EXCEPT ![d] =
               [entries |-> es, hashes |-> hs, cap |-> n,
                index |-> {<<HashOf[es[i][1]], i>> : i \in 1..n}]]
  BY <1>1
<1>3. n \in Nat
  BY BoundsAssumption
<1> DEFINE D == [entries |-> es, hashes |-> hs, cap |-> n,
                 index |-> {<<HashOf[es[i][1]], i>> : i \in 1..n}]
<1>4. D \in Dict /\ Exact(D, TRUE)
  BY <1>2, <1>3, HostDictOK
<1>5. dicts' = [dicts EXCEPT ![d] = D]
  BY <1>2
<1> HIDE DEF D
<1> QED BY <1>4, <1>5 DEF Changed

(* frog_dict_insert finds the key's entry, or puts one at the end; either   *)
(* way the entry it answers is the key's.                                  *)
LEMMA BeginAssignStep ==
  ASSUME TypeOK, NEW d \in Ref, NEW k \in Key, BeginAssign(d, k)
  PROVE  /\ d \in Made /\ dicts[d] \in Dict
         /\ \/ \E e \in Hits(dicts[d], k) :
                 dicts' = dicts /\ pending' = [pending EXCEPT ![d] = <<k, e>>]
            \/ /\ Hits(dicts[d], k) = {}
               /\ Changed(d, Appended(dicts[d], k))
               /\ pending' = [pending EXCEPT ![d] = <<k, Len(dicts[d].entries) + 1>>]
<1>1. d \in Made /\ dicts[d] \in Dict
  BY MadeDict DEF BeginAssign
<1>2. Appended(dicts[d], k) \in Dict
  BY <1>1, AppendedOK
<1> QED BY <1>1, <1>2 DEF BeginAssign, Changed

LEMMA FinishAssignStep ==
  ASSUME TypeInv, NEW d \in Ref, NEW v \in Value, FinishAssign(d, v)
  PROVE  /\ pending[d] \in Key \X (Nat \ {0})
         /\ d \in Made /\ dicts[d] \in Dict
         /\ Changed(d, WithStored(dicts[d], pending[d][2], v))
         /\ pending' = [pending EXCEPT ![d] = NoAssign]
<1>1. d \in Made /\ pending[d] \in Key \X (Nat \ {0}) /\ pending[d][2] \in Nat
  BY DEF FinishAssign, TypeInv, TypeOK, PendingMade
<1>2. dicts[d] \in Dict
  BY <1>1, MadeDict DEF TypeInv
<1>3. dicts' = [dicts EXCEPT ![d] = WithStored(dicts[d], pending[d][2], v)]
  BY DEF FinishAssign, WithStored
<1>4. WithStored(dicts[d], pending[d][2], v) \in Dict
  BY <1>1, <1>2, StoredOK
<1> QED BY <1>1, <1>2, <1>3, <1>4 DEF FinishAssign, Changed

LEMMA RemoveKeyStep ==
  ASSUME TypeOK, NEW d \in Ref, NEW k \in Key, RemoveKey(d, k)
  PROVE  /\ d \in Made /\ dicts[d] \in Dict
         /\ \/ \E e \in Hits(dicts[d], k) :
                 /\ Changed(d, Without(dicts[d], e))
                 /\ answer' = {dicts[d].entries[e][2]}
            \/ Hits(dicts[d], k) = {} /\ answer' = {} /\ dicts' = dicts
<1>1. d \in Made /\ dicts[d] \in Dict
  BY MadeDict DEF RemoveKey
<1>2. ASSUME NEW e \in Hits(dicts[d], k)
      PROVE  /\ Without(dicts[d], e) \in Dict
             /\ ValuesAt(dicts[d], {e}) = {dicts[d].entries[e][2]}
  BY <1>1, WithoutOK DEF Hits, ValuesAt
<1> QED BY <1>1, <1>2 DEF RemoveKey, Changed

LEMMA CloneStep ==
  ASSUME TypeOK, NEW d \in Ref, NEW c \in Ref, Clone(d, c)
  PROVE  /\ d \in Made /\ c \in Ref \ Made /\ dicts[d] \in Dict
         /\ Changed(c, Cloned(dicts[d]))
<1>1. d \in Made /\ dicts[d] \in Dict
  BY MadeDict DEF Clone
<1> QED BY <1>1, ClonedOK DEF Clone, Changed, Made

LEMMA FoundValue ==
  ASSUME NEW D \in Dict, NEW k, NEW e \in Hits(D, k)
  PROVE  /\ e \in DOMAIN D.entries /\ e \in Nat \ {0}
         /\ D.entries[e][2] \in Value /\ ValuesAt(D, {e}) = {D.entries[e][2]}
BY DictFields DEF Hits, ValuesAt

-----------------------------------------------------------------------------
(* Types. *)

LEMMA ChangedType ==
  ASSUME TypeInv, NEW d, NEW D, Changed(d, D)
  PROVE  dicts' \in [Ref -> Dict \cup {NoDict}] /\ Made \subseteq Made' /\ d \in Made'
BY OneDictChanges DEF Changed, TypeInv

LEMMA InitType == Init => TypeInv
BY DEF Init, TypeInv, TypeOK, PendingMade

LEMMA TypeStep == TypeInv /\ [Next]_vars => TypeInv'
<1> SUFFICES ASSUME TypeInv, [Next]_vars PROVE TypeInv'
  OBVIOUS
<1>1. /\ TypeOK /\ PendingMade
      /\ dicts \in [Ref -> Dict \cup {NoDict}] /\ hosted \subseteq Ref
      /\ pending \in [Ref -> (Key \X (Nat \ {0})) \cup {NoAssign}]
      /\ answer \subseteq Value
  BY DEF TypeInv, TypeOK
<1>2. ASSUME NEW d, NEW D, Changed(d, D), hosted' \subseteq Ref, pending' = pending,
             answer' \subseteq Value
      PROVE  TypeInv'
  BY <1>1, <1>2, ChangedType DEF TypeInv, TypeOK, PendingMade
<1>3. ASSUME NEW d \in Ref, AllocDict(d) PROVE TypeInv'
  BY <1>1, <1>2, <1>3, AllocDictStep DEF AllocDict
<1>4. ASSUME NEW d \in Ref, HostAllocDict(d) PROVE TypeInv'
  BY <1>1, <1>2, <1>4, HostAllocDictStep DEF HostAllocDict
<1>5. ASSUME NEW d \in Ref, Drop(d) PROVE TypeInv'
  BY <1>1, <1>5 DEF Drop, TypeInv, TypeOK, PendingMade, Made
<1>6. ASSUME NEW d \in Ref, NEW k \in Key, BeginAssign(d, k) PROVE TypeInv'
  <2>1. /\ d \in Made /\ dicts[d] \in Dict
        /\ \/ \E e \in Hits(dicts[d], k) :
                dicts' = dicts /\ pending' = [pending EXCEPT ![d] = <<k, e>>]
           \/ /\ Hits(dicts[d], k) = {}
              /\ Changed(d, Appended(dicts[d], k))
              /\ pending' = [pending EXCEPT ![d] = <<k, Len(dicts[d].entries) + 1>>]
    BY <1>1, <1>6, BeginAssignStep
  <2>2. dicts' \in [Ref -> Dict \cup {NoDict}] /\ Made \subseteq Made'
    BY <1>1, <2>1, ChangedType DEF Made
  <2>3. \E n \in Nat \ {0} : pending' = [pending EXCEPT ![d] = <<k, n>>]
    <3>1. \A e \in Hits(dicts[d], k) : e \in Nat \ {0}
      BY <2>1, FoundValue
    <3>2. Len(dicts[d].entries) + 1 \in Nat \ {0}
      BY <2>1, DictFields
    <3> QED BY <2>1, <3>1, <3>2
  <2> QED BY <1>1, <1>6, <2>1, <2>2, <2>3 DEF BeginAssign, TypeInv, TypeOK, PendingMade
<1>7. ASSUME NEW d \in Ref, NEW k \in Key, Get(d, k) PROVE TypeInv'
  <2>1. dicts[d] \in Dict
    BY <1>1, <1>7, MadeDict DEF Get
  <2>2. answer' \subseteq Value
    <3>1. \A e \in Hits(dicts[d], k) : ValuesAt(dicts[d], {e}) \subseteq Value
      BY <2>1, FoundValue
    <3> QED BY <1>7, <3>1 DEF Get
  <2> QED BY <1>1, <1>7, <2>2 DEF Get, TypeInv, TypeOK, PendingMade, Made
<1>8. ASSUME NEW d \in Ref, NEW k \in Key, RemoveKey(d, k) PROVE TypeInv'
  <2>1. /\ dicts[d] \in Dict
        /\ \/ \E e \in Hits(dicts[d], k) :
                /\ Changed(d, Without(dicts[d], e))
                /\ answer' = {dicts[d].entries[e][2]}
           \/ Hits(dicts[d], k) = {} /\ answer' = {} /\ dicts' = dicts
    BY <1>1, <1>8, RemoveKeyStep
  <2>2. hosted' = hosted /\ pending' = pending
    BY <1>8 DEF RemoveKey
  <2>3. CASE dicts' = dicts /\ answer' = {}
    BY <1>1, <2>2, <2>3 DEF TypeInv, TypeOK, PendingMade, Made
  <2>4. ASSUME NEW e \in Hits(dicts[d], k), Changed(d, Without(dicts[d], e)),
               answer' = {dicts[d].entries[e][2]}
        PROVE  TypeInv'
    <3>1. answer' \subseteq Value
      BY <2>1, <2>4, FoundValue
    <3> QED BY <1>1, <1>2, <2>2, <2>4, <3>1
  <2> QED BY <2>1, <2>3, <2>4
<1>9. ASSUME NEW d \in Ref, NEW v \in Value, FinishAssign(d, v) PROVE TypeInv'
  <2>1. /\ d \in Made /\ Changed(d, WithStored(dicts[d], pending[d][2], v))
        /\ pending' = [pending EXCEPT ![d] = NoAssign]
    BY <1>9, FinishAssignStep
  <2>2. dicts' \in [Ref -> Dict \cup {NoDict}] /\ Made \subseteq Made'
    BY <2>1, ChangedType
  <2> QED BY <1>1, <1>9, <2>1, <2>2 DEF FinishAssign, TypeInv, TypeOK, PendingMade
<1>10. ASSUME NEW d \in Ref, NEW c \in Ref, Clone(d, c) PROVE TypeInv'
  BY <1>1, <1>2, <1>10, CloneStep DEF Clone
<1>11. CASE UNCHANGED vars
  BY <1>1, <1>11 DEF vars, TypeInv, TypeOK, PendingMade, Made
<1> QED BY <1>3, <1>4, <1>5, <1>6, <1>7, <1>8, <1>9, <1>10, <1>11 DEF Next

(* The two buffers stay within their capacity and the hashes beside the     *)
(* entries, whatever the host built and whatever a right-hand side does.   *)
THEOREM TypeCorrect == Spec => []TypeOK
<1>1. Spec => []TypeInv
  BY InitType, TypeStep, PTL DEF Spec
<1>2. TypeInv => TypeOK
  BY DEF TypeInv
<1> QED BY <1>1, <1>2, PTL

-----------------------------------------------------------------------------
(* The index. *)

LEMMA ChangedExact ==
  ASSUME IndexInv, NEW d, NEW D, Changed(d, D), Exact(D, d \in hosted'),
         \A c \in Ref \ {d} : c \in hosted' <=> c \in hosted
  PROVE  DictsExact'
<1>1. /\ d \in Ref /\ Made' = Made \cup {d} /\ dicts'[d] = D
      /\ \A c \in Ref \ {d} : dicts'[c] = dicts[c]
  BY OneDictChanges DEF Changed, IndexInv, TypeInv
<1>2. ASSUME NEW c \in Made' PROVE Exact(dicts'[c], c \in hosted')
  <2>1. CASE c = d
    BY <1>1, <2>1
  <2>2. CASE c # d
    <3>1. c \in Made /\ c \in Ref \ {d}
      BY <1>1, <2>2 DEF Made
    <3>2. Exact(dicts[c], c \in hosted)
      BY <3>1 DEF IndexInv, DictsExact
    <3> QED BY <1>1, <3>1, <3>2 DEF Exact
  <2> QED BY <2>1, <2>2
<1> QED BY <1>2 DEF DictsExact

LEMMA SameDictsExact ==
  ASSUME IndexInv, dicts' = dicts, hosted' = hosted
  PROVE  DictsExact'
BY DEF IndexInv, DictsExact, Made

LEMMA InitIndex == Init => IndexInv
BY InitType DEF Init, IndexInv, DictsExact, Made

LEMMA IndexStep == ~MovesHostDict /\ IndexInv /\ [Next]_vars => IndexInv'
<1> SUFFICES ASSUME ~MovesHostDict, IndexInv, [Next]_vars PROVE DictsExact'
  BY TypeStep DEF IndexInv
<1>1. TypeInv /\ TypeOK /\ hosted \subseteq Ref
  BY DEF IndexInv, TypeInv, TypeOK
<1>2. ASSUME NEW d \in Made PROVE Exact(dicts[d], d \in hosted) /\ dicts[d] \in Dict
  BY <1>1, <1>2, MadeDict DEF IndexInv, DictsExact
<1>3. ASSUME NEW d \in Ref, AllocDict(d) PROVE DictsExact'
  <2>1. PICK D \in Dict : Changed(d, D) /\ Exact(D, FALSE)
    BY <1>1, <1>3, AllocDictStep
  <2>2. Exact(D, d \in hosted') /\ hosted' = hosted
    BY <1>3, <2>1 DEF AllocDict, Exact
  <2> QED BY <2>1, <2>2, ChangedExact
<1>4. ASSUME NEW d \in Ref, HostAllocDict(d) PROVE DictsExact'
  <2>1. PICK D \in Dict : Changed(d, D) /\ Exact(D, TRUE)
    BY <1>1, <1>4, HostAllocDictStep
  <2>2. Exact(D, d \in hosted') /\ hosted' = hosted \cup {d}
    BY <1>4, <2>1 DEF HostAllocDict, Exact
  <2> QED BY <2>1, <2>2, ChangedExact
<1>5. ASSUME NEW d \in Ref, Drop(d) PROVE DictsExact'
  <2>1. /\ Made' = Made \ {d} /\ hosted' = hosted \ {d}
        /\ \A c \in Made \ {d} : dicts'[c] = dicts[c]
    BY <1>1, <1>5 DEF Drop, Made, TypeOK
  <2>2. \A c \in Made' : c \in Made /\ Exact(dicts'[c], c \in hosted')
    BY <1>2, <2>1 DEF Exact
  <2> QED BY <2>2 DEF DictsExact
<1>6. ASSUME NEW d \in Ref, NEW k \in Key, BeginAssign(d, k) PROVE DictsExact'
  <2>1. /\ d \in Made /\ dicts[d] \in Dict
        /\ \/ dicts' = dicts
           \/ Hits(dicts[d], k) = {} /\ Changed(d, Appended(dicts[d], k))
    BY <1>1, <1>6, BeginAssignStep
  <2>2. hosted' = hosted
    BY <1>6 DEF BeginAssign
  <2>3. Hits(dicts[d], k) = {} => Exact(Appended(dicts[d], k), d \in hosted)
    BY <1>2, <2>1, AppendedExact DEF Exact
  <2> QED BY <2>1, <2>2, <2>3, ChangedExact, SameDictsExact
<1>7. ASSUME NEW d \in Ref, NEW k \in Key, Get(d, k) PROVE DictsExact'
  BY <1>7, SameDictsExact DEF Get
<1>8. ASSUME NEW d \in Ref, NEW k \in Key, RemoveKey(d, k) PROVE DictsExact'
  <2>1. /\ d \in Made /\ dicts[d] \in Dict
        /\ \/ \E e \in Hits(dicts[d], k) : Changed(d, Without(dicts[d], e))
           \/ dicts' = dicts
    BY <1>1, <1>8, RemoveKeyStep
  <2>2. hosted' = hosted /\ d \notin hosted
    BY <1>8 DEF RemoveKey
  <2>3. ASSUME NEW e \in Hits(dicts[d], k), Changed(d, Without(dicts[d], e)) PROVE DictsExact'
    <3>1. e \in DOMAIN dicts[d].entries /\ Exact(dicts[d], FALSE)
      BY <1>2, <2>1, <2>2 DEF Hits, Exact
    <3>2. Exact(Without(dicts[d], e), d \in hosted')
      BY <2>1, <3>1, WithoutExact DEF Exact
    <3> QED BY <2>2, <2>3, <3>2, ChangedExact
  <2> QED BY <2>1, <2>2, <2>3, SameDictsExact
<1>9. ASSUME NEW d \in Ref, NEW v \in Value, FinishAssign(d, v) PROVE DictsExact'
  <2>1. /\ d \in Made /\ pending[d][2] \in Nat
        /\ Changed(d, WithStored(dicts[d], pending[d][2], v))
    BY <1>1, <1>9, FinishAssignStep
  <2>2. hosted' = hosted
    BY <1>9 DEF FinishAssign
  <2>3. Exact(WithStored(dicts[d], pending[d][2], v), d \in hosted)
    BY <1>2, <2>1, StoredExact DEF Exact
  <2> QED BY <2>1, <2>2, <2>3, ChangedExact
<1>10. ASSUME NEW d \in Ref, NEW c \in Ref, Clone(d, c) PROVE DictsExact'
  <2>1. d \in Made /\ dicts[d] \in Dict /\ Changed(c, Cloned(dicts[d]))
    BY <1>1, <1>10, CloneStep
  <2>2. hosted' = hosted /\ d \notin hosted
    BY <1>10 DEF Clone
  <2>3. Exact(Cloned(dicts[d]), FALSE)
    BY <1>2, <2>1, <2>2, ClonedExact DEF Exact
  <2>4. Exact(Cloned(dicts[d]), c \in hosted')
    BY <2>3 DEF Exact
  <2> QED BY <2>1, <2>2, <2>4, ChangedExact
<1>11. CASE UNCHANGED vars
  BY <1>11, SameDictsExact DEF vars
<1> QED BY <1>3, <1>4, <1>5, <1>6, <1>7, <1>8, <1>9, <1>10, <1>11 DEF Next

LEMMA IndexInvariance == ~MovesHostDict => (Spec => []IndexInv)
<1> SUFFICES ASSUME ~MovesHostDict PROVE Spec => []IndexInv
  OBVIOUS
<1>1. IndexInv /\ [Next]_vars => IndexInv'
  BY IndexStep
<1> QED BY <1>1, InitIndex, PTL DEF Spec

LEMMA InvariantIndexExact == IndexInv => IndexExact
BY DEF IndexInv, DictsExact, Exact, Indexed, HashesExact, KeyAt, IndexExact

LEMMA InvariantKeysReachable == IndexInv => KeysReachable
<1> SUFFICES ASSUME IndexInv, NEW d \in Made, NEW e \in DOMAIN dicts[d].entries
             PROVE  LET k == dicts[d].entries[e][1] IN
                    Hits(dicts[d], k) = IF <<k, k>> \in Same THEN {e} ELSE {}
  BY DEF KeysReachable
<1> DEFINE D == dicts[d]
           k == dicts[d].entries[e][1]
<1>1. D \in Dict /\ Indexed(D) /\ KeysDistinct(D)
  BY MadeDict DEF IndexInv, TypeInv, DictsExact, Exact
<1>2. k \in Key /\ k = KeyAt(D, e)
  BY <1>1, DictFields DEF KeyAt
<1> HIDE DEF k, D
<1>3. Hits(D, k) = {f \in DOMAIN D.entries : <<k, KeyAt(D, f)>> \in Same}
  BY <1>1, <1>2, HitsExact
<1>4. CASE <<k, k>> \in Same
  <2>1. e \in Hits(D, k)
    BY <1>2, <1>3, <1>4 DEF D
  <2>2. \A f \in Hits(D, k) : f = e
    BY <1>1, <1>2, <2>1, OneHit
  <2> QED BY <1>4, <2>1, <2>2 DEF k, D
<1>5. CASE <<k, k>> \notin Same
  <2>1. ASSUME NEW f \in Hits(D, k) PROVE FALSE
    <3>1. f \in DOMAIN D.entries /\ <<k, KeyAt(D, f)>> \in Same /\ KeyAt(D, f) \in Key
      BY <1>1, <1>3, DictFields
    <3>2. <<KeyAt(D, f), k>> \in Same
      BY <1>2, <3>1, SameAssumption
    <3>3. <<k, k>> \in Same
      BY <1>2, <3>1, <3>2, SameAssumption
    <3> QED BY <1>5, <3>3
  <2> QED BY <1>5, <2>1 DEF k, D
<1> QED BY <1>4, <1>5

(* The index of a dict has exactly one pair for each entry, at the hash of  *)
(* its key, through every growth, removal and copy.                        *)
THEOREM TheIndexIsExact == ~MovesHostDict => (Spec => []IndexExact)
<1> SUFFICES ASSUME ~MovesHostDict PROVE Spec => []IndexExact
  OBVIOUS
<1> QED BY IndexInvariance, InvariantIndexExact, PTL

(* So a lookup finds every key that equals itself, once and where it is.    *)
THEOREM KeysStayReachable == ~MovesHostDict => (Spec => []KeysReachable)
<1> SUFFICES ASSUME ~MovesHostDict PROVE Spec => []KeysReachable
  OBVIOUS
<1> QED BY IndexInvariance, InvariantKeysReachable, PTL

-----------------------------------------------------------------------------
(* Equality of dicts. *)

(* Entry i of a and entry j of b have equal keys and the same value. *)
SameEntry(a, i, b, j) ==
  <<KeyAt(a, i), KeyAt(b, j)>> \in Same /\ a.entries[i][2] = b.entries[j][2]

(* Every entry of a has such an entry in b. *)
Matched(a, b) ==
  \A i \in DOMAIN a.entries : \E j \in DOMAIN b.entries : SameEntry(a, i, b, j)

LEMMA EqDictMatches ==
  ASSUME NEW a \in Dict, NEW b \in Dict, Indexed(b)
  PROVE  EqDict(a, b) <=> Len(a.entries) = Len(b.entries) /\ Matched(a, b)
<1>1. ASSUME NEW i \in DOMAIN a.entries
      PROVE  Hits(b, a.entries[i][1]) = {j \in DOMAIN b.entries : <<KeyAt(a, i), KeyAt(b, j)>> \in Same}
  <2>1. a.entries[i][1] = KeyAt(a, i) /\ KeyAt(a, i) \in Key
    BY DictFields DEF KeyAt
  <2> QED BY <2>1, HitsExact
<1>2. ASSUME NEW i \in DOMAIN a.entries
      PROVE  (\E j \in Hits(b, a.entries[i][1]) : a.entries[i][2] = b.entries[j][2])
               <=> \E j \in DOMAIN b.entries : SameEntry(a, i, b, j)
  BY <1>1 DEF SameEntry
<1> QED BY <1>2 DEF EqDict, Matched

(* Two entries of a dict are not matched by one entry: their keys would be  *)
(* equal.                                                                  *)
LEMMA MatchIsInjective ==
  ASSUME NEW a \in Dict, NEW b \in Dict, KeysDistinct(a),
         NEW i \in DOMAIN a.entries, NEW j \in DOMAIN a.entries, NEW m \in DOMAIN b.entries,
         SameEntry(a, i, b, m), SameEntry(a, j, b, m)
  PROVE  i = j
<1>1. KeyAt(a, i) \in Key /\ KeyAt(a, j) \in Key /\ KeyAt(b, m) \in Key
  BY DictFields
<1>2. <<KeyAt(a, i), KeyAt(b, m)>> \in Same /\ <<KeyAt(b, m), KeyAt(a, j)>> \in Same
  BY <1>1, SameAssumption DEF SameEntry
<1>3. <<KeyAt(a, i), KeyAt(a, j)>> \in Same
  BY <1>1, <1>2, SameAssumption
<1> QED BY <1>3 DEF KeysDistinct

(* So a dict whose entries are all matched is no longer than the other, and *)
(* when it is as long every entry of the other is matched too.             *)
LEMMA MatchCounts ==
  ASSUME NEW a \in Dict, NEW b \in Dict, KeysDistinct(a), Matched(a, b)
  PROVE  /\ Len(a.entries) <= Len(b.entries)
         /\ Len(a.entries) = Len(b.entries) =>
              \A j \in DOMAIN b.entries : \E i \in DOMAIN a.entries : SameEntry(a, i, b, j)
<1> DEFINE A == DOMAIN a.entries
           B == DOMAIN b.entries
           f == [i \in A |-> CHOOSE j \in B : SameEntry(a, i, b, j)]
<1>1. \A i \in A : f[i] \in B /\ SameEntry(a, i, b, f[i])
  BY DEF Matched
<1>2. f \in [A -> B]
  BY <1>1
<1> HIDE DEF f
<1>3. \A i, j \in A : f[i] = f[j] => i = j
  BY <1>1, MatchIsInjective
<1>4. f \in Injection(A, B)
  BY <1>2, <1>3 DEF Injection, IsInjective
<1>5. /\ IsFiniteSet(B) /\ Cardinality(B) = Len(b.entries)
      /\ Cardinality(A) = Len(a.entries)
  <2>1. /\ A = 1..Len(a.entries) /\ Len(a.entries) \in Nat
        /\ B = 1..Len(b.entries) /\ Len(b.entries) \in Nat
    BY DictFields
  <2>2. ASSUME NEW n \in Nat PROVE IsFiniteSet(1..n) /\ Cardinality(1..n) = n
    <3>1. IsFiniteSet(1..n) /\ Cardinality(1..n) = IF 1 > n THEN 0 ELSE n - 1 + 1
      BY FS_Interval
    <3> QED BY <3>1
  <2> QED BY <2>1, <2>2
<1>6. /\ Cardinality(A) <= Cardinality(B)
      /\ Cardinality(A) = Cardinality(B) <=> f \in Surjection(A, B)
  BY <1>4, <1>5, FS_Injection
<1>7. f \in Surjection(A, B) => \A j \in B : \E i \in A : SameEntry(a, i, b, j)
  BY <1>1 DEF Surjection
<1> QED BY <1>5, <1>6, <1>7

(* The keys equal to k; none when k is a NaN. *)
Class(k) == {j \in Key : <<j, k>> \in Same}

LEMMA SameClass ==
  ASSUME NEW k \in Key, NEW j \in Key
  PROVE  <<k, j>> \in Same <=> Class(k) = Class(j) /\ Class(k) # {}
<1>1. ASSUME <<k, j>> \in Same PROVE Class(k) = Class(j) /\ Class(k) # {}
  <2>1. <<j, k>> \in Same
    BY <1>1, SameAssumption
  <2>2. \A x \in Key : <<x, k>> \in Same <=> <<x, j>> \in Same
    BY <1>1, <2>1, SameAssumption
  <2> QED BY <2>1, <2>2 DEF Class
<1>2. ASSUME Class(k) = Class(j), Class(k) # {} PROVE <<k, j>> \in Same
  <2>1. PICK x \in Key : <<x, k>> \in Same /\ <<x, j>> \in Same
    BY <1>2 DEF Class
  <2>2. <<k, x>> \in Same
    BY <2>1, SameAssumption
  <2> QED BY <2>1, <2>2, SameAssumption
<1> QED BY <1>1, <1>2

LEMMA PairsOf ==
  ASSUME NEW D \in Dict
  PROVE  Pairs(D) = {<<Class(KeyAt(D, i)), D.entries[i][2]>> : i \in DOMAIN D.entries}
BY DEF Pairs, ToSet, Class, KeyAt

LEMMA EqDictIsContent ==
  ASSUME NEW a \in Dict, NEW b \in Dict, Indexed(b), KeysDistinct(a), KeysDistinct(b)
  PROVE  EqDict(a, b) <=> /\ Pairs(a) = Pairs(b)
                          /\ \A p \in Pairs(a) \cup Pairs(b) : p[1] # {}
<1> DEFINE pa(i) == <<Class(KeyAt(a, i)), a.entries[i][2]>>
           pb(j) == <<Class(KeyAt(b, j)), b.entries[j][2]>>
<1>1. /\ Pairs(a) = {pa(i) : i \in DOMAIN a.entries}
      /\ Pairs(b) = {pb(j) : j \in DOMAIN b.entries}
  BY PairsOf
<1>2. ASSUME NEW i \in DOMAIN a.entries, NEW j \in DOMAIN b.entries
      PROVE  /\ SameEntry(a, i, b, j) <=> pa(i) = pb(j) /\ pa(i)[1] # {}
             /\ SameEntry(b, j, a, i) <=> pa(i) = pb(j) /\ pa(i)[1] # {}
  <2>1. KeyAt(a, i) \in Key /\ KeyAt(b, j) \in Key
    BY DictFields
  <2> QED BY <2>1, SameClass DEF SameEntry
<1> HIDE DEF pa, pb
<1>3. ASSUME EqDict(a, b)
      PROVE  Pairs(a) = Pairs(b) /\ \A p \in Pairs(a) \cup Pairs(b) : p[1] # {}
  <2>1. \A i \in DOMAIN a.entries : \E j \in DOMAIN b.entries : pa(i) = pb(j) /\ pa(i)[1] # {}
    BY <1>2, <1>3, EqDictMatches DEF Matched
  <2>2. \A j \in DOMAIN b.entries : \E i \in DOMAIN a.entries : pa(i) = pb(j) /\ pa(i)[1] # {}
    BY <1>2, <1>3, EqDictMatches, MatchCounts
  <2> QED BY <1>1, <2>1, <2>2
<1>4. ASSUME Pairs(a) = Pairs(b), \A p \in Pairs(a) \cup Pairs(b) : p[1] # {}
      PROVE  EqDict(a, b)
  <2>1. ASSUME NEW i \in DOMAIN a.entries
        PROVE  pa(i)[1] # {} /\ \E j \in DOMAIN b.entries : pa(i) = pb(j)
    <3>1. pa(i) \in Pairs(a)
      BY <1>1
    <3> QED BY <1>1, <1>4, <3>1
  <2>2. ASSUME NEW j \in DOMAIN b.entries
        PROVE  \E i \in DOMAIN a.entries : pa(i) = pb(j)
    <3>1. pb(j) \in Pairs(a)
      BY <1>1, <1>4
    <3> QED BY <1>1, <3>1
  <2>3. Matched(a, b)
    BY <1>2, <2>1 DEF Matched
  <2>4. Matched(b, a)
    BY <1>2, <2>1, <2>2 DEF Matched
  <2>5. Len(a.entries) = Len(b.entries)
    BY <2>3, <2>4, MatchCounts, DictFields
  <2> QED BY <2>3, <2>5, EqDictMatches
<1> QED BY <1>3, <1>4

LEMMA InvariantEqIsContent == IndexInv => EqIsContent
<1> SUFFICES ASSUME IndexInv, NEW d \in Made, NEW c \in Made
             PROVE  EqDict(dicts[d], dicts[c]) <=>
                      /\ Pairs(dicts[d]) = Pairs(dicts[c])
                      /\ \A p \in Pairs(dicts[d]) \cup Pairs(dicts[c]) : p[1] # {}
  BY DEF EqIsContent
<1>1. /\ dicts[d] \in Dict /\ dicts[c] \in Dict
      /\ Exact(dicts[d], d \in hosted) /\ Exact(dicts[c], c \in hosted)
  BY MadeDict DEF IndexInv, TypeInv, DictsExact
<1> QED BY <1>1, EqDictIsContent DEF Exact

(* `==` of two dicts, which compares lengths and looks up each key of one   *)
(* in the other, is equality of the maps.                                  *)
THEOREM EqualityIsOfContent == ~MovesHostDict => (Spec => []EqIsContent)
<1> SUFFICES ASSUME ~MovesHostDict PROVE Spec => []EqIsContent
  OBVIOUS
<1> QED BY IndexInvariance, InvariantEqIsContent, PTL

-----------------------------------------------------------------------------
(* Assignments in progress. *)

LEMMA PendingElsewhere ==
  ASSUME AssignInv, NEW d \in Ref, pending'[d] = NoAssign,
         \A c \in Ref \ {d} : dicts'[c] = dicts[c] /\ pending'[c] = pending[c]
  PROVE  PendingExact'
BY DEF AssignInv, PendingExact

LEMMA ChangedElsewhere ==
  ASSUME AssignInv, NEW d, NEW D, Changed(d, D), pending' = pending, pending[d] = NoAssign
  PROVE  PendingExact'
<1>1. d \in Ref /\ \A c \in Ref \ {d} : dicts'[c] = dicts[c]
  BY OneDictChanges DEF Changed, AssignInv, IndexInv, TypeInv
<1> QED BY <1>1, PendingElsewhere

LEMMA IdlePending ==
  ASSUME TypeInv, NEW d \in Ref, dicts[d] = NoDict
  PROVE  pending[d] = NoAssign
BY DEF TypeInv, PendingMade, Made

LEMMA InitAssign == Init => AssignInv
BY InitIndex DEF Init, AssignInv, PendingExact

LEMMA AssignStep ==
  ~MovesHostDict /\ ~RhsTouchesDict /\ AssignInv /\ [Next]_vars => AssignInv'
<1> SUFFICES ASSUME ~MovesHostDict, ~RhsTouchesDict, AssignInv, [Next]_vars PROVE PendingExact'
  BY IndexStep DEF AssignInv
<1>1. IndexInv /\ TypeInv /\ TypeOK /\ PendingExact
  BY DEF AssignInv, IndexInv, TypeInv
<1>2. ASSUME NEW d \in Ref, AllocDict(d) PROVE PendingExact'
  <2>1. pending[d] = NoAssign /\ pending' = pending
    BY <1>1, <1>2, IdlePending DEF AllocDict
  <2> QED BY <1>1, <1>2, <2>1, AllocDictStep, ChangedElsewhere
<1>3. ASSUME NEW d \in Ref, HostAllocDict(d) PROVE PendingExact'
  <2>1. pending[d] = NoAssign /\ pending' = pending
    BY <1>1, <1>3, IdlePending DEF HostAllocDict
  <2> QED BY <1>1, <1>3, <2>1, HostAllocDictStep, ChangedElsewhere
<1>4. ASSUME NEW d \in Ref, Drop(d) PROVE PendingExact'
  <2>1. \A c \in Ref \ {d} : dicts'[c] = dicts[c]
    BY <1>1, <1>4 DEF Drop, TypeOK
  <2> QED BY <1>4, <2>1, PendingElsewhere DEF Drop
<1>5. ASSUME NEW d \in Ref, NEW k \in Key, BeginAssign(d, k) PROVE PendingExact'
  <2>1. /\ d \in Made /\ dicts[d] \in Dict
        /\ \/ \E e \in Hits(dicts[d], k) :
                dicts' = dicts /\ pending' = [pending EXCEPT ![d] = <<k, e>>]
           \/ /\ Hits(dicts[d], k) = {}
              /\ Changed(d, Appended(dicts[d], k))
              /\ pending' = [pending EXCEPT ![d] = <<k, Len(dicts[d].entries) + 1>>]
    BY <1>1, <1>5, BeginAssignStep
  <2>2. /\ \A c \in Ref \ {d} : dicts'[c] = dicts[c] /\ pending'[c] = pending[c]
        /\ \A e : pending' = [pending EXCEPT ![d] = <<k, e>>] => pending'[d] = <<k, e>>
    BY <1>1, <2>1, OneDictChanges DEF Changed, TypeOK
  <2>3. ASSUME NEW e, pending'[d] = <<k, e>>, PendingFound(dicts'[d], k, e) PROVE PendingExact'
    BY <1>1, <2>2, <2>3 DEF PendingExact
  <2>4. ASSUME NEW e \in Hits(dicts[d], k), dicts' = dicts PROVE PendingFound(dicts'[d], k, e)
    <3>1. /\ e \in DOMAIN dicts[d].entries /\ <<k, KeyAt(dicts[d], e)>> \in Same
          /\ KeyAt(dicts[d], e) \in Key
      BY <2>1, DictFields DEF Hits, KeyAt
    <3>2. <<k, k>> \in Same
      BY <3>1, SameAssumption
    <3> QED BY <2>4, <3>1, <3>2 DEF PendingFound
  <2>5. ASSUME Changed(d, Appended(dicts[d], k))
        PROVE  PendingFound(dicts'[d], k, Len(dicts[d].entries) + 1)
    <3> DEFINE A == Appended(dicts[d], k)
               n == Len(dicts[d].entries) + 1
    <3>1. A \in Dict /\ DOMAIN A.entries = 1..n /\ A.entries[n] = <<k, Zero>> /\ n \in Nat \ {0}
      BY <2>1, AppendedOK, DictFields
    <3>2. Len(A.entries) = n /\ n \in DOMAIN A.entries /\ KeyAt(A, n) = k
      BY <3>1, DictFields DEF KeyAt
    <3>3. dicts'[d] = A
      BY <1>1, <2>5, OneDictChanges DEF Changed
    <3> HIDE DEF A
    <3> QED BY <3>2, <3>3 DEF PendingFound
  <2> QED BY <2>1, <2>2, <2>3, <2>4, <2>5
<1>6. ASSUME NEW d \in Ref, NEW k \in Key, Get(d, k) PROVE PendingExact'
  BY <1>1, <1>6 DEF Get, PendingExact
<1>7. ASSUME NEW d \in Ref, NEW k \in Key, RemoveKey(d, k) PROVE PendingExact'
  <2>1. pending[d] = NoAssign /\ pending' = pending
    BY <1>7 DEF RemoveKey, Quiet
  <2>2. (\E e : Changed(d, Without(dicts[d], e))) \/ dicts' = dicts
    BY <1>1, <1>7, RemoveKeyStep
  <2>3. CASE dicts' = dicts
    BY <1>1, <2>1, <2>3 DEF PendingExact
  <2> QED BY <2>1, <2>2, <2>3, ChangedElsewhere
<1>8. ASSUME NEW d \in Ref, NEW v \in Value, FinishAssign(d, v) PROVE PendingExact'
  <2>1. /\ Changed(d, WithStored(dicts[d], pending[d][2], v))
        /\ pending' = [pending EXCEPT ![d] = NoAssign]
    BY <1>1, <1>8, FinishAssignStep
  <2>2. /\ pending'[d] = NoAssign
        /\ \A c \in Ref \ {d} : dicts'[c] = dicts[c] /\ pending'[c] = pending[c]
    BY <1>1, <2>1, OneDictChanges DEF Changed, TypeOK
  <2> QED BY <2>2, PendingElsewhere
<1>9. ASSUME NEW d \in Ref, NEW c \in Ref, Clone(d, c) PROVE PendingExact'
  <2>1. pending[c] = NoAssign /\ pending' = pending
    BY <1>1, <1>9, IdlePending DEF Clone
  <2>2. Changed(c, Cloned(dicts[d]))
    BY <1>1, <1>9, CloneStep
  <2> QED BY <2>1, <2>2, ChangedElsewhere
<1>10. CASE UNCHANGED vars
  BY <1>1, <1>10 DEF vars, PendingExact
<1> QED BY <1>2, <1>3, <1>4, <1>5, <1>6, <1>7, <1>8, <1>9, <1>10 DEF Next

LEMMA AssignInvariance == ~MovesHostDict /\ ~RhsTouchesDict => (Spec => []AssignInv)
<1> SUFFICES ASSUME ~MovesHostDict, ~RhsTouchesDict PROVE Spec => []AssignInv
  OBVIOUS
<1>1. AssignInv /\ [Next]_vars => AssignInv'
  BY AssignStep
<1> QED BY <1>1, InitAssign, PTL DEF Spec

(* The entry the value goes to is the key's, and it is no other key's.      *)
LEMMA StoreReachesKey ==
  ASSUME AssignInv, NEW d \in Ref, NEW v \in Value, FinishAssign(d, v)
  PROVE  LET k == pending[d][1]
             old == dicts[d].entries
             new == dicts'[d].entries
         IN /\ <<k, k>> \in Same =>
                 \E i \in DOMAIN new : <<new[i][1], k>> \in Same /\ new[i][2] = v
            /\ \A i \in DOMAIN old :
                 <<old[i][1], k>> \notin Same /\ <<k, k>> \in Same => new[i] = old[i]
<1> DEFINE k == pending[d][1]
           e == pending[d][2]
           D == dicts[d]
           T == WithStored(D, e, v)
<1>1. D \in Dict /\ k \in Key /\ e \in Nat /\ Changed(d, T)
  BY FinishAssignStep DEF AssignInv, IndexInv
<1>2. PendingFound(D, k, e)
  BY DEF AssignInv, PendingExact, FinishAssign
<1>3. dicts'[d] = T
  BY <1>1, OneDictChanges DEF Changed, AssignInv, IndexInv, TypeInv
<1>4. /\ DOMAIN T.entries = DOMAIN D.entries
      /\ \A i \in DOMAIN D.entries :
           /\ KeyAt(T, i) = KeyAt(D, i)
           /\ T.entries[i] = IF i = e THEN <<KeyAt(D, i), v>> ELSE D.entries[i]
  <2> HIDE DEF D, T
  <2>1. T = WithStored(D, e, v)
    BY DEF T
  <2> HIDE DEF e
  <2> QED BY <1>1, <2>1, StoredKeys
<1>5. \A i \in DOMAIN D.entries : KeyAt(D, i) \in Key /\ KeyAt(D, i) = D.entries[i][1]
  BY <1>1, DictFields DEF KeyAt
<1> HIDE DEF k, e, D, T
<1>6. ASSUME <<k, k>> \in Same
      PROVE  /\ e \in DOMAIN D.entries /\ <<KeyAt(D, e), k>> \in Same
             /\ T.entries[e] = <<KeyAt(D, e), v>>
  <2>1. e \in DOMAIN D.entries /\ <<k, KeyAt(D, e)>> \in Same
    BY <1>2, <1>6 DEF PendingFound
  <2>2. <<KeyAt(D, e), k>> \in Same
    BY <1>1, <1>5, <2>1, SameAssumption
  <2> QED BY <1>4, <2>1, <2>2
<1>7. ASSUME <<k, k>> \in Same
      PROVE  \E i \in DOMAIN T.entries : <<T.entries[i][1], k>> \in Same /\ T.entries[i][2] = v
  BY <1>4, <1>6, <1>7
<1>8. ASSUME NEW i \in DOMAIN D.entries, <<D.entries[i][1], k>> \notin Same, <<k, k>> \in Same
      PROVE  T.entries[i] = D.entries[i]
  BY <1>4, <1>5, <1>6, <1>8
<1> QED BY <1>3, <1>7, <1>8 DEF k, e, D

(* d[k] = v gives v to k and to no other key, as long as the right-hand     *)
(* side leaves d alone.                                                    *)
THEOREM AssignmentReachesKey ==
  ~MovesHostDict /\ ~RhsTouchesDict => (Spec => AssignReachesKey)
<1> SUFFICES ASSUME ~MovesHostDict, ~RhsTouchesDict PROVE Spec => AssignReachesKey
  OBVIOUS
<1> DEFINE reaches ==
      \A d \in Ref : \A v \in Value :
        FinishAssign(d, v) =>
          LET k == pending[d][1]
              old == dicts[d].entries
              new == dicts'[d].entries
          IN /\ <<k, k>> \in Same =>
                  \E i \in DOMAIN new : <<new[i][1], k>> \in Same /\ new[i][2] = v
             /\ \A i \in DOMAIN old :
                  <<old[i][1], k>> \notin Same /\ <<k, k>> \in Same => new[i] = old[i]
<1>1. AssignInv => reaches
  BY StoreReachesKey
<1>2. AssignReachesKey <=> [][reaches]_vars
  BY DEF AssignReachesKey
<1> HIDE DEF reaches
<1>3. AssignInv /\ [Next]_vars => [reaches]_vars
  BY <1>1
<1> QED BY <1>2, <1>3, AssignInvariance, PTL DEF Spec

-----------------------------------------------------------------------------
(* The map of DictSpec: forget the hashes, the index and the capacity. *)

Assigning == [d \in Ref |-> pending[d][1]]

LEMMA AbstractViews ==
  ASSUME TypeInv
  PROVE  /\ Abstract!Dicts = Made
         /\ \A d \in Made : Contents[d] = dicts[d].entries /\ dicts[d] \in Dict
         /\ \A d \in Ref \ Made : Contents[d] = NoDict
         /\ \A d \in Ref : /\ (Assigning[d] = NoKey) <=> (pending[d] = NoAssign)
                           /\ pending[d] # NoAssign => pending[d][1] \in Key
<1>1. \A d \in Made : d \in Ref /\ dicts[d] \in Dict
  BY MadeDict DEF TypeInv
<1>2. \A d \in Made : dicts[d].entries # NoDict
  BY <1>1, DictFields, NoDictAssumption
<1>3. /\ \A d \in Made : Contents[d] = dicts[d].entries
      /\ \A d \in Ref \ Made : Contents[d] = NoDict
  BY <1>1 DEF Contents, Made
<1>4. Abstract!Dicts = Made
  BY <1>1, <1>2, <1>3 DEF Abstract!Dicts, Contents, Made
<1>5. ASSUME NEW d \in Ref
      PROVE  /\ (Assigning[d] = NoKey) <=> (pending[d] = NoAssign)
             /\ pending[d] # NoAssign => pending[d][1] \in Key
  BY NoneAssumption DEF TypeInv, TypeOK, Assigning, NoAssign
<1> QED BY <1>1, <1>3, <1>4, <1>5

LEMMA ContentsChange ==
  ASSUME TypeOK, NEW d, NEW D, Changed(d, D)
  PROVE  Contents' = [Contents EXCEPT ![d] = D.entries]
<1>1. /\ d \in Ref /\ D \in Dict /\ D # NoDict /\ dicts'[d] = D
      /\ \A c \in Ref \ {d} : dicts'[c] = dicts[c]
  BY OneDictChanges, NoDictAssumption DEF Changed
<1>2. Contents'[d] = D.entries /\ \A c \in Ref \ {d} : Contents'[c] = Contents[c]
  BY <1>1 DEF Contents
<1>3. /\ Contents = [c \in Ref |-> Contents[c]]
      /\ Contents' = [c \in Ref |-> Contents'[c]]
  BY DEF Contents
<1> HIDE DEF Contents
<1> QED BY <1>1, <1>2, <1>3

(* Reading the entries in order finds what the index finds. *)
LEMMA PositionsAreHits ==
  ASSUME NEW D \in Dict, Indexed(D), NEW k \in Key
  PROVE  Abstract!Positions(D.entries, k) = Hits(D, k)
<1>1. \A i \in DOMAIN D.entries : KeyAt(D, i) \in Key /\ D.entries[i][1] = KeyAt(D, i)
  BY DictFields DEF KeyAt
<1>2. \A i \in DOMAIN D.entries : <<KeyAt(D, i), k>> \in Same <=> <<k, KeyAt(D, i)>> \in Same
  BY <1>1, SameAssumption
<1>3. Abstract!Positions(D.entries, k) = {i \in DOMAIN D.entries : <<D.entries[i][1], k>> \in Same}
  BY DEF Abstract!Positions
<1>4. Hits(D, k) = {i \in DOMAIN D.entries : <<k, KeyAt(D, i)>> \in Same}
  BY HitsExact
<1> QED BY <1>1, <1>2, <1>3, <1>4

LEMMA ValuesAreHits ==
  ASSUME NEW D \in Dict, Indexed(D), KeysDistinct(D), NEW k \in Key
  PROVE  /\ Hits(D, k) = {} => Abstract!Values(D.entries, k) = {}
         /\ \A e \in Hits(D, k) : /\ Abstract!Positions(D.entries, k) = {e}
                                  /\ Abstract!Values(D.entries, k) = {D.entries[e][2]}
<1>1. Abstract!Positions(D.entries, k) = Hits(D, k)
  BY PositionsAreHits
<1>2. ASSUME NEW e \in Hits(D, k) PROVE Abstract!Positions(D.entries, k) = {e}
  BY <1>1, OneHit
<1> QED BY <1>1, <1>2 DEF Abstract!Values

(* The store at the entry number is the store at the key. *)
LEMMA StoredIsPut ==
  ASSUME NEW D \in Dict, Indexed(D), KeysDistinct(D), NEW k \in Key, NEW e \in Nat,
         NEW v \in Value, PendingFound(D, k, e)
  PROVE  Stored(D.entries, e, v) =
           IF <<k, k>> \in Same THEN Abstract!Put(D.entries, k, v)
           ELSE ReplaceAt(D.entries, Len(D.entries), <<k, v>>)
<1> DEFINE m == D.entries
<1>1. CASE <<k, k>> \in Same
  <2>1. e \in Hits(D, k)
    BY <1>1, HitsExact DEF PendingFound
  <2>2. Abstract!Positions(m, k) = {e}
    BY <2>1, ValuesAreHits
  <2>3. Abstract!Put(m, k, v) = [i \in DOMAIN m |-> IF i \in {e} THEN <<m[i][1], v>> ELSE m[i]]
    BY <2>2 DEF Abstract!Put
  <2>4. Stored(m, e, v) = [i \in DOMAIN m |-> IF i \in {e} THEN <<m[i][1], v>> ELSE m[i]]
    BY DEF Stored
  <2> QED BY <1>1, <2>3, <2>4
<1>2. CASE <<k, k>> \notin Same
  <2>1. e = Len(m) /\ e \in DOMAIN m /\ m[e][1] = k
    BY <1>2 DEF PendingFound, KeyAt
  <2>2. ReplaceAt(m, e, <<k, v>>) = [i \in DOMAIN m |-> IF i = e THEN <<k, v>> ELSE m[i]]
    BY DEF ReplaceAt
  <2> QED BY <1>2, <2>1, <2>2 DEF Stored
<1> QED BY <1>1, <1>2

LEMMA AbstractInit == Init => Abstract!Init
<1> SUFFICES ASSUME Init PROVE Abstract!Init
  OBVIOUS
<1>1. Contents = [d \in Ref |-> NoDict]
  BY DEF Init, Contents
<1>2. [d \in Ref |-> pending[d][1]] = [d \in Ref |-> NoKey]
  BY DEF Init, NoAssign
<1> QED BY <1>1, <1>2 DEF Abstract!Init, Init

LEMMA AbstractStep == AssignInv /\ [Next]_vars => [Abstract!Next]_(Abstract!vars)
<1> SUFFICES ASSUME AssignInv, [Next]_vars
             PROVE  Abstract!Next \/ (Contents' = Contents /\ Assigning' = Assigning /\ answer' = answer)
  BY DEF Abstract!vars, Assigning
<1>1. /\ IndexInv /\ TypeInv /\ TypeOK /\ PendingExact
      /\ \A d \in Made : Indexed(dicts[d]) /\ KeysDistinct(dicts[d])
  BY DEF AssignInv, IndexInv, TypeInv, DictsExact, Exact
<1>2. /\ Abstract!Dicts = Made
      /\ \A d \in Made : d \in Ref /\ Contents[d] = dicts[d].entries /\ dicts[d] \in Dict
      /\ \A d \in Ref \ Made : Contents[d] = NoDict
      /\ \A d \in Ref : (Assigning[d] = NoKey) <=> (pending[d] = NoAssign)
  BY <1>1, AbstractViews DEF Made
<1>3. pending' = pending => Assigning' = Assigning
  BY DEF Assigning
<1>4. dicts' = dicts => Contents' = Contents
  BY DEF Contents
<1>5. ASSUME NEW d \in Ref \ Made, NEW D \in Dict, Changed(d, D), KeysDistinct(D),
             pending' = pending, answer' = answer
      PROVE  Abstract!Make(d)
  <2>1. Contents' = [Contents EXCEPT ![d] = D.entries]
    BY <1>1, <1>5, ContentsChange
  <2>2. Contents'[d] = D.entries
    BY <2>1 DEF Contents
  <2>3. D.entries \in Seq(Key \X Value)
    BY DictFields DEF Entry
  <2>4. \A i, j \in DOMAIN D.entries : i # j => <<D.entries[i][1], D.entries[j][1]>> \notin Same
    BY <1>5 DEF KeysDistinct, KeyAt
  <2>5. Contents[d] = NoDict /\ Assigning' = Assigning
    BY <1>2, <1>3, <1>5
  <2> HIDE DEF Contents
  <2> QED BY <1>5, <2>1, <2>2, <2>3, <2>4, <2>5 DEF Abstract!Make, Assigning
<1>6. ASSUME NEW d \in Ref, AllocDict(d) PROVE Abstract!Next
  <2>1. PICK D \in Dict : Changed(d, D) /\ Exact(D, FALSE)
    BY <1>1, <1>6, AllocDictStep
  <2>2. Abstract!Make(d)
    BY <1>5, <1>6, <2>1 DEF AllocDict, Made, Exact
  <2> QED BY <2>2 DEF Abstract!Next
<1>7. ASSUME NEW d \in Ref, HostAllocDict(d) PROVE Abstract!Next
  <2>1. PICK D \in Dict : Changed(d, D) /\ Exact(D, TRUE)
    BY <1>1, <1>7, HostAllocDictStep
  <2>2. Abstract!Make(d)
    BY <1>5, <1>7, <2>1 DEF HostAllocDict, Made, Exact
  <2> QED BY <2>2 DEF Abstract!Next
<1>8. ASSUME NEW d \in Ref, Drop(d) PROVE Abstract!Next
  <2>1. Contents' = [Contents EXCEPT ![d] = NoDict]
    BY <1>1, <1>8 DEF Drop, Contents, TypeOK
  <2>2. d \in Made /\ Assigning[d] = NoKey /\ Assigning' = Assigning /\ answer' = answer
    BY <1>2, <1>3, <1>8 DEF Drop
  <2>3. Abstract!Drop(d)
    BY <1>2, <2>1, <2>2 DEF Abstract!Drop, Assigning
  <2> QED BY <2>3 DEF Abstract!Next
<1>9. ASSUME NEW d \in Ref, NEW k \in Key, BeginAssign(d, k) PROVE Abstract!Next
  <2> DEFINE D == dicts[d]
  <2>1. /\ d \in Made /\ D \in Dict
        /\ \/ \E e \in Hits(D, k) :
                dicts' = dicts /\ pending' = [pending EXCEPT ![d] = <<k, e>>]
           \/ /\ Hits(D, k) = {}
              /\ Changed(d, Appended(D, k))
              /\ pending' = [pending EXCEPT ![d] = <<k, Len(D.entries) + 1>>]
    BY <1>1, <1>9, BeginAssignStep
  <2>2. /\ Contents[d] = D.entries /\ Assigning[d] = NoKey /\ answer' = answer
        /\ Abstract!Positions(D.entries, k) = Hits(D, k)
    BY <1>1, <1>2, <1>9, <2>1, PositionsAreHits DEF BeginAssign
  <2>3. Assigning' = [Assigning EXCEPT ![d] = k]
    <3>1. PICK e : pending' = [pending EXCEPT ![d] = <<k, e>>]
      BY <2>1
    <3>2. pending'[d] = <<k, e>> /\ \A c \in Ref \ {d} : pending'[c] = pending[c]
      BY <1>1, <3>1 DEF TypeOK
    <3>3. Assigning'[d] = k /\ \A c \in Ref \ {d} : Assigning'[c] = Assigning[c]
      BY <3>2 DEF Assigning
    <3>4. Assigning = [c \in Ref |-> Assigning[c]] /\ Assigning' = [c \in Ref |-> Assigning'[c]]
      BY DEF Assigning
    <3> HIDE DEF Assigning
    <3> QED BY <3>3, <3>4
  <2>4. CASE Hits(D, k) = {}
    <3>1. Contents' = [Contents EXCEPT ![d] = Append(D.entries, <<k, Zero>>)]
      BY <1>1, <2>1, <2>4, ContentsChange, AppendedOK
    <3>2. Contents' = [Contents EXCEPT ![d] = IF Abstract!Positions(Contents[d], k) = {}
                                             THEN Append(Contents[d], <<k, Zero>>) ELSE Contents[d]]
      BY <2>2, <2>4, <3>1
    <3> HIDE DEF D
    <3>3. Abstract!Name(d, k)
      BY <1>2, <2>1, <2>2, <2>3, <3>2 DEF Abstract!Name, Assigning
    <3> QED BY <3>3 DEF Abstract!Next
  <2>5. CASE Hits(D, k) # {}
    <3>1. Contents' = Contents
      BY <1>4, <2>1, <2>5
    <3>2. Contents = [Contents EXCEPT ![d] = Contents[d]]
      BY DEF Contents
    <3>3. Contents' = [Contents EXCEPT ![d] = IF Abstract!Positions(Contents[d], k) = {}
                                             THEN Append(Contents[d], <<k, Zero>>) ELSE Contents[d]]
      BY <2>2, <2>5, <3>1, <3>2
    <3> HIDE DEF D
    <3>4. Abstract!Name(d, k)
      BY <1>2, <2>1, <2>2, <2>3, <3>3 DEF Abstract!Name, Assigning
    <3> QED BY <3>4 DEF Abstract!Next
  <2> QED BY <2>4, <2>5
<1>10. ASSUME NEW d \in Ref, NEW k \in Key, Get(d, k) PROVE Abstract!Next
  <2> DEFINE D == dicts[d]
  <2>1. d \in Made /\ D \in Dict /\ Contents[d] = D.entries /\ Indexed(D) /\ KeysDistinct(D)
    BY <1>1, <1>2, <1>10 DEF Get
  <2>2. answer' = Abstract!Values(D.entries, k)
    <3>1. CASE Hits(D, k) = {} /\ answer' = {}
      BY <2>1, <3>1, ValuesAreHits
    <3>2. ASSUME NEW e \in Hits(D, k), answer' = ValuesAt(D, {e})
          PROVE  answer' = Abstract!Values(D.entries, k)
      <4> HIDE DEF D
      <4>1. Abstract!Values(D.entries, k) = {D.entries[e][2]}
        BY <2>1, <3>2, ValuesAreHits
      <4>2. ValuesAt(D, {e}) = {D.entries[e][2]}
        BY <2>1, <3>2, FoundValue
      <4> QED BY <3>2, <4>1, <4>2
    <3> QED BY <1>10, <3>1, <3>2 DEF Get
  <2>3. Contents' = Contents /\ Assigning' = Assigning
    BY <1>3, <1>4, <1>10 DEF Get
  <2>4. Abstract!Get(d, k)
    BY <1>2, <2>1, <2>2, <2>3 DEF Abstract!Get, Assigning
  <2> QED BY <2>4 DEF Abstract!Next
<1>11. ASSUME NEW d \in Ref, NEW k \in Key, RemoveKey(d, k) PROVE Abstract!Next
  <2> DEFINE D == dicts[d]
  <2>1. d \in Made /\ D \in Dict /\ Contents[d] = D.entries /\ Indexed(D) /\ KeysDistinct(D)
    BY <1>1, <1>2, <1>11 DEF RemoveKey
  <2>2. \/ \E e \in Hits(D, k) :
             Changed(d, Without(D, e)) /\ answer' = {D.entries[e][2]}
        \/ Hits(D, k) = {} /\ answer' = {} /\ dicts' = dicts
    BY <1>1, <1>11, RemoveKeyStep
  <2>3. Assigning' = Assigning
    BY <1>3, <1>11 DEF RemoveKey
  <2>4. CASE Hits(D, k) = {} /\ answer' = {} /\ dicts' = dicts
    <3>1. Abstract!Positions(D.entries, k) = {} /\ Abstract!Values(D.entries, k) = {}
      BY <2>1, <2>4, ValuesAreHits, PositionsAreHits
    <3>2. Contents' = Contents
      BY <1>4, <2>4
    <3>3. Abstract!RemoveKey(d, k)
      BY <1>2, <2>1, <2>3, <2>4, <3>1, <3>2 DEF Abstract!RemoveKey, Assigning
    <3> QED BY <3>3 DEF Abstract!Next
  <2>5. ASSUME NEW e \in Hits(D, k), Changed(d, Without(D, e)), answer' = {D.entries[e][2]}
        PROVE  Abstract!Next
    <3>1. /\ Abstract!Positions(D.entries, k) = {e}
          /\ Abstract!Values(D.entries, k) = {D.entries[e][2]}
      BY <2>1, ValuesAreHits
    <3>2. Without(D, e).entries = RemoveAt(D.entries, e)
      BY <2>1, FoundValue, WithoutOK
    <3>3. Contents' = [Contents EXCEPT ![d] = RemoveAt(D.entries, e)]
      BY <1>1, <2>5, <3>2, ContentsChange
    <3>4. RemoveAt(D.entries, e) \in Abstract!Delete(D.entries, k)
      <4>1. Abstract!Delete(D.entries, k) =
              {RemoveAt(D.entries, i) : i \in Abstract!Positions(D.entries, k)}
        BY DEF Abstract!Delete, Abstract!RemoveAt, RemoveAt
      <4> QED BY <3>1, <4>1
    <3>5. Abstract!RemoveKey(d, k)
      BY <1>2, <2>1, <2>3, <2>5, <3>1, <3>3, <3>4 DEF Abstract!RemoveKey, Assigning
    <3> QED BY <3>5 DEF Abstract!Next
  <2> QED BY <2>2, <2>4, <2>5
<1>12. ASSUME NEW d \in Ref, NEW v \in Value, FinishAssign(d, v) PROVE Abstract!Next
  <2> DEFINE D == dicts[d]
             k == pending[d][1]
             e == pending[d][2]
  <2>1. /\ d \in Made /\ D \in Dict /\ k \in Key /\ e \in Nat
        /\ Changed(d, WithStored(D, e, v))
        /\ pending' = [pending EXCEPT ![d] = NoAssign]
    BY <1>1, <1>12, FinishAssignStep
  <2>2. /\ Contents[d] = D.entries /\ PendingFound(D, k, e)
        /\ Assigning[d] = k /\ Assigning[d] # NoKey /\ answer' = answer
    BY <1>1, <1>2, <1>12, <2>1 DEF FinishAssign, PendingExact, Assigning
  <2>3. Contents' = [Contents EXCEPT ![d] = Stored(D.entries, e, v)]
    BY <1>1, <2>1, ContentsChange, StoredOK
  <2>4. Stored(D.entries, e, v) =
          IF <<k, k>> \in Same THEN Abstract!Put(D.entries, k, v)
          ELSE ReplaceAt(D.entries, Len(D.entries), <<k, v>>)
    BY <1>1, <2>1, <2>2, StoredIsPut
  <2>5. Assigning' = [Assigning EXCEPT ![d] = NoKey]
    BY <1>1, <2>1 DEF Assigning, TypeOK, NoAssign
  <2> HIDE DEF k, e, D
  <2>6. Abstract!Store(d, v)
    <3>1. Contents' = [Contents EXCEPT ![d] =
            IF <<Assigning[d], Assigning[d]>> \in Same
              THEN Abstract!Put(Contents[d], Assigning[d], v)
              ELSE ReplaceAt(Contents[d], Len(Contents[d]), <<Assigning[d], v>>)]
      BY <2>2, <2>3, <2>4
    <3> QED BY <2>2, <2>5, <3>1 DEF Abstract!Store, Assigning, Abstract!ReplaceAt, ReplaceAt
  <2> QED BY <2>6 DEF Abstract!Next
<1>13. ASSUME NEW d \in Ref, NEW c \in Ref, Clone(d, c) PROVE Abstract!Next
  <2>1. /\ d \in Made /\ c \in Ref \ Made /\ dicts[d] \in Dict
        /\ Changed(c, Cloned(dicts[d]))
    BY <1>1, <1>13, CloneStep
  <2>2. Contents' = [Contents EXCEPT ![c] = Contents[d]]
    BY <1>1, <1>2, <2>1, ContentsChange, ClonedOK
  <2>3. Assigning' = Assigning /\ answer' = answer
    BY <1>3, <1>13 DEF Clone
  <2>4. Abstract!Copy(d, c)
    BY <1>2, <2>1, <2>2, <2>3 DEF Abstract!Copy, Assigning
  <2> QED BY <2>1, <2>4 DEF Abstract!Next
<1>14. CASE UNCHANGED vars
  BY <1>3, <1>4, <1>14 DEF vars
<1> QED BY <1>6, <1>7, <1>8, <1>9, <1>10, <1>11, <1>12, <1>13, <1>14 DEF Next

(* runtime/dict.rs implements DictSpec: an insertion-ordered map, whatever  *)
(* the hash function, as long as it agrees with key equality.              *)
THEOREM Implementation == ~MovesHostDict /\ ~RhsTouchesDict => (Spec => ImplementsDictSpec)
<1> SUFFICES ASSUME ~MovesHostDict, ~RhsTouchesDict PROVE Spec => ImplementsDictSpec
  OBVIOUS
<1> QED BY AbstractStep, AbstractInit, AssignInvariance, PTL
        DEF Spec, ImplementsDictSpec, Abstract!Spec
=============================================================================
