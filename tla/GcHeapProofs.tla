---------------------------- MODULE GcHeapProofs ----------------------------
(***************************************************************************)
(* What GcHeap guarantees for any set of blocks, any object layouts and    *)
(* any bounds.  The argument is the tri-colour one: while marking, every   *)
(* pointer out of a marked object is to a marked object or one on the      *)
(* worklist, so once the worklist and the roots are used up the marked     *)
(* objects are closed under pointers and therefore are the reachable ones. *)
(***************************************************************************)
EXTENDS GcHeap, TLAPS, SequenceTheorems, FiniteSetTheorems

-----------------------------------------------------------------------------
(* Reachability as a function of the roots and the heap, so that it can be  *)
(* compared between the two states of a step.                              *)

Closed(R, h, S) ==
  /\ R \subseteq S
  /\ \A b \in S : h[b] # Free => Children(h[b]) \subseteq S

Reach(R, h) == {a \in Addr : \A S \in SUBSET Addr : Closed(R, h, S) => a \in S}

LEMMA LiveIsReach ==
  Live = Reach(RootPtrs, heap) /\ Live' = Reach(RootPtrs', heap')
BY DEF Live, ClosedUnder, Reach, Closed

(* The reachable objects are within every set that contains the roots and   *)
(* what its own objects refer to.                                           *)
LEMMA ReachLeast ==
  ASSUME NEW R, NEW h, NEW S \in SUBSET Addr, Closed(R, h, S)
  PROVE  Reach(R, h) \subseteq S
BY DEF Reach

(* And they are such a set. *)
LEMMA ReachClosed ==
  ASSUME NEW R \in SUBSET Addr, NEW h,
         \A a \in Addr : h[a] # Free => Children(h[a]) \subseteq Addr
  PROVE  Closed(R, h, Reach(R, h))
BY DEF Reach, Closed

(* A step that leaves the roots and the contents of reachable objects alone *)
(* leaves reachability alone, whatever it does to other objects.            *)
LEMMA ReachStable ==
  ASSUME NEW R \in SUBSET Addr, NEW h, NEW g,
         \A a \in Addr : h[a] # Free => Children(h[a]) \subseteq Addr,
         \A a \in Addr : g[a] # Free => Children(g[a]) \subseteq Addr,
         \A a \in Reach(R, h) : /\ h[a] # Free /\ g[a] # Free
                                /\ Children(g[a]) = Children(h[a])
  PROVE  Reach(R, g) = Reach(R, h)
<1> DEFINE L == Reach(R, h)
<1>1. Closed(R, h, L)
  BY ReachClosed
<1>2. L \in SUBSET Addr
  BY DEF Reach
<1>3. Closed(R, g, L)
  BY <1>1 DEF Closed
<1>4. Reach(R, g) \subseteq L
  BY <1>2, <1>3, ReachLeast
<1>5. ASSUME NEW S \in SUBSET Addr, Closed(R, g, S) PROVE L \subseteq S
  <2>1. Closed(R, h, S \cap L)
    BY <1>1, <1>5 DEF Closed
  <2>2. S \cap L \in SUBSET Addr
    BY <1>2
  <2> HIDE DEF L
  <2>3. Reach(R, h) \subseteq S \cap L
    BY <2>1, <2>2, ReachLeast
  <2> QED BY <2>3 DEF L
<1>6. L \subseteq Reach(R, g)
  BY <1>2, <1>5 DEF Reach
<1> QED BY <1>4, <1>6

-----------------------------------------------------------------------------
(* Words and objects. *)

LEMMA PointersAreAddresses ==
  ASSUME NEW W \in SUBSET Word
  PROVE  PointersIn(W) \subseteq Addr
BY DEF PointersIn, HeapPtr, IsHeapPtr, Word

LEMMA ChildrenAreAddresses ==
  ASSUME NEW o \in Object
  PROVE  Children(o) \subseteq Addr
<1>1. ScannedWords(o) \subseteq Word
  <2> SUFFICES ASSUME NEW i \in DOMAIN o.data, NEW c \in o.mask
              PROVE  o.data[i][c] \in Word
    BY DEF ScannedWords
  <2>1. o.data \in Seq(Seq(Word)) /\ Len(o.data[i]) = o.stride /\ c \in 1..o.stride
    BY DEF Object
  <2>2. o.data[i] \in Seq(Word)
    BY <2>1, ElementOfSeq
  <2> QED BY <2>1, <2>2, ElementOfSeq
<1> QED BY <1>1, PointersAreAddresses DEF Children

(* The header bits do not matter to the scan. *)
LEMMA SameChildren ==
  ASSUME NEW o, NEW p, p.kind = o.kind, p.data = o.data, p.mask = o.mask
  PROVE  Children(p) = Children(o)
BY DEF Children, ScannedWords

(* What the mutator may put in a scanned column names an object. *)
LEMMA StorablePointers ==
  ASSUME NEW W, \A w \in W : w \in Storable(TRUE)
  PROVE  PointersIn(W) \subseteq Allocated /\ W \subseteq Word
BY DEF PointersIn, Storable

(* The scanned words of an object, one at a time. *)
LEMMA ScannedMember ==
  ASSUME NEW o, o.kind # "Str", NEW i \in DOMAIN o.data, NEW c \in o.mask
  PROVE  o.data[i][c] \in ScannedWords(o)
<1>1. ScannedWords(o) = {o.data[j][d] : j \in DOMAIN o.data, d \in o.mask}
  BY DEF ScannedWords
<1>2. o.data[i][c] \in {o.data[j][d] : j \in DOMAIN o.data, d \in o.mask}
  OBVIOUS
<1> QED BY <1>1, <1>2

LEMMA ScannedWithin ==
  ASSUME NEW o, NEW W,
         o.kind # "Str" => \A i \in DOMAIN o.data, c \in o.mask : o.data[i][c] \in W
  PROVE  ScannedWords(o) \subseteq W
<1>1. CASE o.kind = "Str"
  BY <1>1 DEF ScannedWords
<1>2. CASE o.kind # "Str"
  <2>1. ScannedWords(o) = {o.data[j][d] : j \in DOMAIN o.data, d \in o.mask}
    BY <1>2 DEF ScannedWords
  <2> QED BY <1>2, <2>1
<1> QED BY <1>1, <1>2

LEMMA NullStorable == Null \in Storable(TRUE)
BY TagsAssumption DEF Null, Storable, Word, IsHeapPtr

(* Storing storable words into an object leaves it pointing at objects. *)
LEMMA StoreKeepsValid ==
  ASSUME NEW o, Children(o) \subseteq Allocated,
         NEW p, ScannedWords(p) \subseteq ScannedWords(o) \cup Storable(TRUE)
  PROVE  Children(p) \subseteq Allocated
BY DEF Children, PointersIn, Storable

LEMMA NewObjectOK ==
  ASSUME NEW shape \in Shapes, NEW cap \in Nat, NEW data \in Seq(Seq(Word)),
         \A i \in DOMAIN data : Len(data[i]) = shape.stride
  PROVE  NewObject(shape, cap, data) \in Object
BY ShapesAssumption DEF NewObject, Object

(* An empty object, and one of zeroed columns, point nowhere. *)
LEMMA FreshPointsNowhere ==
  ASSUME NEW shape \in Shapes, NEW cap \in Nat
  PROVE  /\ NewObject(shape, cap, <<>>) \in Object
         /\ Children(NewObject(shape, cap, <<>>)) = {}
         /\ NewObject(shape, 1, <<Zeros(shape.stride)>>) \in Object
         /\ Children(NewObject(shape, 1, <<Zeros(shape.stride)>>)) = {}
<1>1. NewObject(shape, cap, <<>>) \in Object
  <2>1. <<>> \in Seq(Seq(Word)) /\ \A i \in DOMAIN <<>> : Len(<<>>[i]) = shape.stride
    OBVIOUS
  <2> QED BY <2>1, NewObjectOK
<1>2. Children(NewObject(shape, cap, <<>>)) = {}
  BY DEF Children, ScannedWords, NewObject, PointersIn
<1>3. shape.stride \in Nat /\ shape.mask \subseteq 1..shape.stride
  BY ShapesAssumption
<1>4. /\ Zeros(shape.stride) \in Seq(Word)
      /\ Len(Zeros(shape.stride)) = shape.stride
  BY <1>3, NullStorable DEF Zeros, Storable
<1>5. NewObject(shape, 1, <<Zeros(shape.stride)>>) \in Object
  <2> DEFINE data == <<Zeros(shape.stride)>>
  <2>1. data \in Seq(Seq(Word)) /\ \A i \in DOMAIN data : Len(data[i]) = shape.stride
    BY <1>4
  <2> HIDE DEF data
  <2>2. NewObject(shape, 1, data) \in Object
    BY <2>1, NewObjectOK
  <2> QED BY <2>2 DEF data
<1>6. Children(NewObject(shape, 1, <<Zeros(shape.stride)>>)) = {}
  <2>1. ScannedWords(NewObject(shape, 1, <<Zeros(shape.stride)>>)) \subseteq {Null}
    BY <1>3 DEF ScannedWords, NewObject, Zeros
  <2> QED BY <2>1 DEF Children, PointersIn, IsHeapPtr, Null
<1> QED BY <1>1, <1>2, <1>5, <1>6

(* Replacing the elements of an object by as wide ones keeps its type. *)
LEMMA NewDataOK ==
  ASSUME NEW o \in Object, NEW data \in Seq(Seq(Word)), NEW cap \in Nat,
         \A i \in DOMAIN data : Len(data[i]) = o.stride
  PROVE  [o EXCEPT !.data = data, !.cap = cap] \in Object
BY DEF Object

(* What a mutator action that replaces one object makes of it. *)
LEMMA ListPushOK ==
  ASSUME NEW o \in Object, o.kind = "List", Children(o) \subseteq Allocated,
         NEW elem \in Seq(Word), Len(elem) = o.stride, NEW cap \in Nat,
         \A c \in 1..o.stride : elem[c] \in Storable(c \in o.mask)
  PROVE  LET p == [o EXCEPT !.data = Append(@, elem), !.cap = cap]
         IN p \in Object /\ Children(p) \subseteq Allocated
<1> DEFINE data == Append(o.data, elem)
           p == [o EXCEPT !.data = data, !.cap = cap]
<1>1. o.data \in Seq(Seq(Word)) /\ o.mask \subseteq 1..o.stride
      /\ \A i \in DOMAIN o.data : Len(o.data[i]) = o.stride
  BY DEF Object
<1>2. /\ data \in Seq(Seq(Word))
      /\ \A i \in DOMAIN data : data[i] = elem \/ (i \in DOMAIN o.data /\ data[i] = o.data[i])
  BY <1>1, AppendProperties
<1>3. p \in Object
  <2>1. \A i \in DOMAIN data : Len(data[i]) = o.stride
    BY <1>1, <1>2
  <2> HIDE DEF data
  <2> QED BY <1>2, <2>1, NewDataOK
<1>4. ScannedWords(p) \subseteq ScannedWords(o) \cup Storable(TRUE)
  <2>1. p.data = data /\ p.mask = o.mask /\ p.kind = o.kind
    BY DEF Object
  <2> HIDE DEF data, p
  <2>2. \A c \in o.mask : elem[c] \in Storable(TRUE)
    BY <1>1
  <2>3. SUFFICES ASSUME NEW i \in DOMAIN data, NEW c \in o.mask, o.kind # "Str"
                PROVE  data[i][c] \in ScannedWords(o) \cup Storable(TRUE)
    BY <2>1, ScannedWithin
  <2> QED BY <1>2, <2>2, <2>3, ScannedMember
<1>5. Children(p) \subseteq Allocated
  <2> HIDE DEF p
  <2> QED BY <1>4, StoreKeepsValid
<1> QED BY <1>3, <1>5

LEMMA DictAppendOK ==
  ASSUME NEW o \in Object, o.kind = "Dict", Children(o) \subseteq Allocated,
         NEW key \in Storable(1 \in o.mask), NEW cap \in Nat
  PROVE  LET p == [o EXCEPT !.data = Append(@, [Zeros(o.stride) EXCEPT ![1] = key]),
                            !.cap = cap]
         IN p \in Object /\ Children(p) \subseteq Allocated
<1> DEFINE elem == [Zeros(o.stride) EXCEPT ![1] = key]
           data == Append(o.data, elem)
           p == [o EXCEPT !.data = data, !.cap = cap]
<1>1. o.data \in Seq(Seq(Word)) /\ o.mask \subseteq 1..o.stride /\ o.stride \in Nat \ {0}
      /\ \A i \in DOMAIN o.data : Len(o.data[i]) = o.stride
  BY DEF Object
<1>2. key \in Word /\ Null \in Word
  BY NullStorable DEF Storable
<1>3. /\ elem \in Seq(Word) /\ Len(elem) = o.stride
      /\ \A c \in o.mask : elem[c] \in Storable(TRUE)
  <2>1. elem = [c \in 1..o.stride |-> IF c = 1 THEN key ELSE Null]
    BY DEF Zeros
  <2> HIDE DEF elem
  <2>2. elem \in Seq(Word) /\ Len(elem) = o.stride
    BY <1>1, <1>2, <2>1
  <2>3. \A c \in o.mask : elem[c] \in Storable(TRUE)
    BY <1>1, <2>1, NullStorable
  <2> QED BY <2>2, <2>3
<1> HIDE DEF elem
<1>4. /\ data \in Seq(Seq(Word))
      /\ \A i \in DOMAIN data : data[i] = elem \/ (i \in DOMAIN o.data /\ data[i] = o.data[i])
  BY <1>1, <1>3, AppendProperties
<1>5. p \in Object
  <2>1. \A i \in DOMAIN data : Len(data[i]) = o.stride
    BY <1>1, <1>3, <1>4
  <2> HIDE DEF data
  <2> QED BY <1>4, <2>1, NewDataOK
<1>6. ScannedWords(p) \subseteq ScannedWords(o) \cup Storable(TRUE)
  <2>1. p.data = data /\ p.mask = o.mask /\ p.kind = o.kind
    BY DEF Object
  <2> HIDE DEF data, p
  <2>2. SUFFICES ASSUME NEW i \in DOMAIN data, NEW c \in o.mask, o.kind # "Str"
                PROVE  data[i][c] \in ScannedWords(o) \cup Storable(TRUE)
    BY <2>1, ScannedWithin
  <2> QED BY <1>3, <1>4, <2>2, ScannedMember
<1>7. Children(p) \subseteq Allocated
  <2> HIDE DEF p
  <2> QED BY <1>6, StoreKeepsValid
<1> QED BY <1>5, <1>7 DEF elem

LEMMA DictDeleteOK ==
  ASSUME NEW o \in Object, o.kind = "Dict", Children(o) \subseteq Allocated,
         NEW e \in DOMAIN o.data
  PROVE  LET p == [o EXCEPT !.data = RemoveAt(@, e)]
         IN p \in Object /\ Children(p) \subseteq Allocated
<1> DEFINE data == RemoveAt(o.data, e)
           p == [o EXCEPT !.data = data]
<1>1. o.data \in Seq(Seq(Word)) /\ o.cap \in Nat
      /\ \A i \in DOMAIN o.data : Len(o.data[i]) = o.stride
  BY DEF Object
<1>2. /\ data \in Seq(Seq(Word))
      /\ \A i \in DOMAIN data : \E j \in DOMAIN o.data : data[i] = o.data[j]
  <2> DEFINE front == SubSeq(o.data, 1, e - 1)
             back == SubSeq(o.data, e + 1, Len(o.data))
  <2>1. e \in 1..Len(o.data)
    BY <1>1
  <2>2. /\ front \in Seq(Seq(Word)) /\ Len(front) = e - 1
        /\ \A i \in 1..(e - 1) : front[i] = o.data[i]
    BY <1>1, <2>1
  <2>3. /\ back \in Seq(Seq(Word)) /\ Len(back) = Len(o.data) - e
        /\ \A i \in 1..(Len(o.data) - e) : back[i] = o.data[e + i]
    <3>1. Len(o.data) \in Nat /\ e \in Nat
      BY <1>1, <2>1
    <3>2. /\ e + 1 \in Int /\ Len(o.data) \in Int
          /\ \A i \in (e + 1)..Len(o.data) : o.data[i] \in Seq(Word)
      BY <1>1, <2>1, <3>1, ElementOfSeq
    <3>3. /\ back \in Seq(Seq(Word))
          /\ Len(back) = IF e + 1 <= Len(o.data) THEN Len(o.data) - (e + 1) + 1 ELSE 0
          /\ \A i \in 1..(Len(o.data) - (e + 1) + 1) : back[i] = o.data[e + 1 + i - 1]
      <4> DEFINE S == Seq(Word)
                 s == o.data
                 m == e + 1
                 n == Len(o.data)
      <4>1. m \in Int /\ n \in Int /\ \A i \in m..n : s[i] \in S
        BY <3>2
      <4>2. /\ SubSeq(s, m, n) \in Seq(S)
            /\ Len(SubSeq(s, m, n)) = IF m <= n THEN n - m + 1 ELSE 0
            /\ \A i \in 1..(n - m + 1) : SubSeq(s, m, n)[i] = s[m + i - 1]
        <5> HIDE DEF S, s, m, n
        <5> QED BY <4>1, SubSeqProperties
      <4> QED BY <4>2
    <3> DEFINE n == Len(o.data)
    <3> HIDE DEF back, n
    <3>4. /\ n \in Nat /\ e \in 1..n /\ back \in Seq(Seq(Word))
          /\ Len(back) = IF e + 1 <= n THEN n - (e + 1) + 1 ELSE 0
          /\ \A i \in 1..(n - (e + 1) + 1) : back[i] = o.data[e + 1 + i - 1]
      BY <2>1, <3>1, <3>3 DEF n
    <3>5. n - (e + 1) + 1 = n - e /\ (~(e + 1 <= n) => n - e = 0)
      BY <3>4
    <3>6. \A i \in 1..(n - e) : e + 1 + i - 1 = e + i
      BY <3>4
    <3> QED BY <3>4, <3>5, <3>6 DEF n
  <2> HIDE DEF front, back
  <2>4. /\ front \o back \in Seq(Seq(Word))
        /\ \A i \in DOMAIN (front \o back) : \E j \in DOMAIN o.data : (front \o back)[i] = o.data[j]
    <3>1. /\ front \o back \in Seq(Seq(Word))
          /\ Len(front \o back) = Len(front) + Len(back)
          /\ \A i \in 1..(Len(front) + Len(back)) :
               (front \o back)[i] = IF i <= Len(front) THEN front[i] ELSE back[i - Len(front)]
      BY <2>2, <2>3, ConcatProperties
    <3>2. DOMAIN o.data = 1..Len(o.data) /\ Len(o.data) \in Nat /\ e \in Nat
      BY <1>1, <2>1
    <3>3. ASSUME NEW i \in 1..(Len(front) + Len(back))
          PROVE  \E j \in DOMAIN o.data : (front \o back)[i] = o.data[j]
      <4>1. i \in 1..(Len(o.data) - 1) /\ i \in Int
        BY <2>1, <2>2, <2>3, <3>2
      <4>2. CASE i < e
        <5>1. (front \o back)[i] = front[i]
          BY <2>2, <3>1, <3>2, <4>1, <4>2
        <5>2. front[i] = o.data[i] /\ i \in DOMAIN o.data
          BY <2>2, <3>2, <4>1, <4>2
        <5> QED BY <5>1, <5>2
      <4>3. CASE i >= e
        <5> DEFINE k == i - (e - 1)
        <5>1. (front \o back)[i] = back[k]
          BY <2>2, <3>1, <3>2, <4>1, <4>3
        <5>2. k \in 1..(Len(o.data) - e) /\ e + k = i + 1 /\ i + 1 \in DOMAIN o.data
          BY <2>1, <3>2, <4>1, <4>3
        <5> HIDE DEF k
        <5>3. back[k] = o.data[e + k]
          BY <2>3, <5>2
        <5> QED BY <5>1, <5>2, <5>3
      <4> QED BY <3>2, <4>1, <4>2, <4>3
    <3>4. DOMAIN (front \o back) = 1..(Len(front) + Len(back))
      BY <3>1
    <3> QED BY <3>1, <3>3, <3>4
  <2> QED BY <2>4 DEF RemoveAt, front, back
<1>3. p \in Object
  <2>1. \A i \in DOMAIN data : Len(data[i]) = o.stride
    BY <1>1, <1>2
  <2> HIDE DEF data
  <2> QED BY <1>2, <2>1 DEF Object
<1>4. ScannedWords(p) \subseteq ScannedWords(o)
  <2>1. p.data = data /\ p.mask = o.mask /\ p.kind = o.kind
    BY DEF Object
  <2> HIDE DEF data, p
  <2> QED BY <1>2, <2>1 DEF ScannedWords
<1>5. Children(p) \subseteq Allocated
  <2> HIDE DEF p
  <2> QED BY <1>4, StoreKeepsValid
<1> QED BY <1>3, <1>5

LEMMA SetSlotOK ==
  ASSUME NEW o \in Object, o.kind # "Str", Children(o) \subseteq Allocated,
         NEW i \in DOMAIN o.data, NEW c \in 1..o.stride,
         NEW w \in Storable(c \in o.mask)
  PROVE  LET p == [o EXCEPT !.data[i][c] = w]
         IN p \in Object /\ Children(p) \subseteq Allocated
<1> DEFINE elem == [o.data[i] EXCEPT ![c] = w]
           data == [o.data EXCEPT ![i] = elem]
           p == [o EXCEPT !.data = data]
<1>1. /\ o.data \in Seq(Seq(Word)) /\ o.mask \subseteq 1..o.stride
      /\ \A j \in DOMAIN o.data : Len(o.data[j]) = o.stride
  BY DEF Object
<1>2. w \in Word
  BY DEF Storable
<1>3. o.data[i] \in Seq(Word) /\ Len(o.data[i]) = o.stride
  BY <1>1, ElementOfSeq
<1>4. /\ elem \in Seq(Word) /\ Len(elem) = o.stride
      /\ \A d \in 1..o.stride : elem[d] = IF d = c THEN w ELSE o.data[i][d]
  BY <1>2, <1>3, ExceptSeq
<1> HIDE DEF elem
<1>5. /\ data \in Seq(Seq(Word)) /\ DOMAIN data = DOMAIN o.data
      /\ \A j \in DOMAIN o.data : data[j] = IF j = i THEN elem ELSE o.data[j]
  BY <1>1, <1>4, ExceptSeq
<1>6. p \in Object
  <2>1. \A j \in DOMAIN data : Len(data[j]) = o.stride
    BY <1>1, <1>4, <1>5
  <2> HIDE DEF data
  <2> QED BY <1>5, <2>1 DEF Object
<1>7. ScannedWords(p) \subseteq ScannedWords(o) \cup Storable(TRUE)
  <2>1. p.data = data /\ p.mask = o.mask /\ p.kind = o.kind
    BY DEF Object
  <2> HIDE DEF data, p
  <2>2. \A d \in o.mask : elem[d] = o.data[i][d] \/ elem[d] \in Storable(TRUE)
    BY <1>1, <1>4
  <2>3. SUFFICES ASSUME NEW j \in DOMAIN data, NEW d \in o.mask
                PROVE  data[j][d] \in ScannedWords(o) \cup Storable(TRUE)
    BY <2>1, ScannedWithin
  <2> QED BY <1>5, <2>2, <2>3, ScannedMember
<1>8. Children(p) \subseteq Allocated
  <2> HIDE DEF p
  <2> QED BY <1>7, StoreKeepsValid
<1>9. p = [o EXCEPT !.data[i][c] = w]
  BY DEF Object, elem
<1> QED BY <1>6, <1>8, <1>9

-----------------------------------------------------------------------------
(* The object list. *)

(* Prepending a new address. *)
LEMMA ConsExact ==
  ASSUME NEW S, NEW s \in Seq(S), IsInjective(s), NEW a \in S, a \notin ToSet(s)
  PROVE  /\ Cons(a, s) \in Seq(S)
         /\ ToSet(Cons(a, s)) = ToSet(s) \cup {a}
         /\ IsInjective(Cons(a, s))
<1> DEFINE t == Cons(a, s)
<1>1. /\ t \in Seq(S) /\ Len(t) = Len(s) + 1
      /\ t[1] = a /\ \A i \in 1..Len(s) : t[i + 1] = s[i]
  BY DEF Cons
<1>2. /\ Len(s) \in Nat /\ DOMAIN s = 1..Len(s) /\ DOMAIN t = 1..(Len(s) + 1)
  BY <1>1
<1> HIDE DEF t
<1>3. \A i \in DOMAIN t : i = 1 \/ (i - 1 \in DOMAIN s /\ t[i] = s[i - 1])
  BY <1>1, <1>2
<1>4. \A i \in DOMAIN s : i + 1 \in DOMAIN t /\ t[i + 1] = s[i]
  BY <1>1, <1>2
<1>5. ToSet(t) = ToSet(s) \cup {a}
  <2>1. 1 \in DOMAIN t
    BY <1>2
  <2>2. ToSet(t) \subseteq ToSet(s) \cup {a}
    BY <1>1, <1>3 DEF ToSet
  <2>3. ToSet(s) \subseteq ToSet(t)
    BY <1>4 DEF ToSet
  <2>4. a \in ToSet(t)
    BY <1>1, <2>1 DEF ToSet
  <2> QED BY <2>2, <2>3, <2>4
<1>6. ASSUME NEW i \in DOMAIN t, NEW j \in DOMAIN t, t[i] = t[j] PROVE i = j
  <2>1. CASE i = 1 \/ j = 1
    BY <1>1, <1>3, <1>6, <2>1 DEF ToSet
  <2>2. CASE i # 1 /\ j # 1
    <3>1. i - 1 = j - 1
      BY <1>3, <1>6, <2>2 DEF IsInjective
    <3> QED BY <1>2, <3>1
  <2> QED BY <2>1, <2>2
<1> QED BY <1>1, <1>5, <1>6 DEF IsInjective, t

(* Sweep's two lists, one behind the other, are the object list.  Moving an  *)
(* object from the one to the other changes nothing.                       *)
LEMMA MoveExact ==
  ASSUME NEW S, NEW k \in Seq(S), NEW u \in Seq(S), u # <<>>
  PROVE  /\ Append(k, Head(u)) \o Tail(u) = k \o u
         /\ ToSet(Append(k, Head(u))) = ToSet(k) \cup {Head(u)}
<1>1. /\ Len(u) \in Nat \ {0} /\ Len(k) \in Nat
      /\ Head(u) = u[1] /\ u[1] \in S
      /\ Tail(u) \in Seq(S) /\ Len(Tail(u)) = Len(u) - 1
      /\ \A i \in 1..(Len(u) - 1) : Tail(u)[i] = u[i + 1]
  <2>1. Len(u) \in Nat \ {0} /\ Len(k) \in Nat /\ Head(u) = u[1]
    BY EmptySeq
  <2> QED BY <2>1, HeadTailProperties, ElementOfSeq
<1> DEFINE l == Append(k, Head(u))
<1>2. /\ l \in Seq(S) /\ Len(l) = Len(k) + 1
      /\ l[Len(k) + 1] = u[1] /\ \A i \in 1..Len(k) : l[i] = k[i]
  BY <1>1, AppendProperties
<1> HIDE DEF l
<1> DEFINE r == Tail(u)
<1>3. /\ r \in Seq(S) /\ Len(r) = Len(u) - 1 /\ \A i \in 1..(Len(u) - 1) : r[i] = u[i + 1]
  BY <1>1
<1> HIDE DEF r
<1>4. /\ l \o r \in Seq(S) /\ Len(l \o r) = Len(l) + Len(r)
      /\ \A i \in 1..(Len(l) + Len(r)) :
           (l \o r)[i] = IF i <= Len(l) THEN l[i] ELSE r[i - Len(l)]
  BY <1>2, <1>3, ConcatProperties
<1>5. /\ k \o u \in Seq(S) /\ Len(k \o u) = Len(k) + Len(u)
      /\ \A i \in 1..(Len(k) + Len(u)) :
           (k \o u)[i] = IF i <= Len(k) THEN k[i] ELSE u[i - Len(k)]
  BY ConcatProperties
<1>6. ASSUME NEW i \in 1..(Len(k) + Len(u)) PROVE (l \o r)[i] = (k \o u)[i]
  <2>1. CASE i <= Len(k)
    <3>1. i \in 1..Len(k) /\ i \in 1..(Len(l) + Len(r)) /\ i <= Len(l)
      BY <1>1, <1>2, <1>3, <2>1
    <3>2. (l \o r)[i] = l[i] /\ (k \o u)[i] = k[i]
      BY <1>4, <1>5, <2>1, <3>1
    <3> QED BY <1>2, <3>1, <3>2
  <2>2. CASE i = Len(k) + 1
    <3>1. (l \o r)[i] = l[i] /\ (k \o u)[i] = u[1]
      BY <1>1, <1>2, <1>3, <1>4, <1>5, <2>2
    <3> QED BY <1>2, <2>2, <3>1
  <2>3. CASE i > Len(k) + 1
    <3> DEFINE j == i - Len(k) - 1
    <3>1. j \in 1..(Len(u) - 1) /\ i - Len(l) = j /\ i - Len(k) = j + 1
      BY <1>1, <1>2, <2>3
    <3>2. (l \o r)[i] = r[j]
      BY <1>1, <1>2, <1>3, <1>4, <2>3, <3>1
    <3>3. (k \o u)[i] = u[j + 1]
      BY <1>1, <1>5, <2>3, <3>1
    <3> HIDE DEF j
    <3> QED BY <1>3, <3>1, <3>2, <3>3
  <2>4. i <= Len(k) \/ i = Len(k) + 1 \/ i > Len(k) + 1
    BY <1>1
  <2> QED BY <2>1, <2>2, <2>3, <2>4
<1>7. l \o r = k \o u
  <2>1. Len(l) + Len(r) = Len(k) + Len(u)
    BY <1>1, <1>2, <1>3
  <2> QED BY <1>4, <1>5, <1>6, <2>1, SeqEqual
<1>8. ToSet(l) = ToSet(k) \cup {u[1]}
  <2>1. DOMAIN l = 1..(Len(k) + 1) /\ DOMAIN k = 1..Len(k)
    BY <1>2
  <2>2. \A i \in DOMAIN l : i \in DOMAIN k \/ i = Len(k) + 1
    BY <1>1, <2>1
  <2>3. Len(k) + 1 \in DOMAIN l /\ DOMAIN k \subseteq DOMAIN l
    BY <1>1, <2>1
  <2> QED BY <1>2, <2>1, <2>2, <2>3 DEF ToSet
<1> QED BY <1>1, <1>7, <1>8 DEF l, r

(* The object sweep is at is not a survivor yet. *)
LEMMA HeadNotKept ==
  ASSUME NEW S, NEW k \in Seq(S), NEW u \in Seq(S), u # <<>>, IsInjective(k \o u)
  PROVE  Head(u) \notin ToSet(k) /\ Head(u) \in ToSet(k \o u)
<1>1. Len(u) \in Nat \ {0} /\ Len(k) \in Nat /\ Head(u) = u[1] /\ DOMAIN k = 1..Len(k)
  BY EmptySeq
<1>2. /\ DOMAIN (k \o u) = 1..(Len(k) + Len(u))
      /\ \A i \in 1..(Len(k) + Len(u)) :
           (k \o u)[i] = IF i <= Len(k) THEN k[i] ELSE u[i - Len(k)]
  BY ConcatProperties, LenProperties
<1>3. Len(k) + 1 \in DOMAIN (k \o u) /\ (k \o u)[Len(k) + 1] = u[1]
  BY <1>1, <1>2
<1>4. \A i \in DOMAIN k : i \in DOMAIN (k \o u) /\ (k \o u)[i] = k[i] /\ i # Len(k) + 1
  BY <1>1, <1>2
<1>5. \A i \in DOMAIN k : k[i] # u[1]
  BY <1>3, <1>4 DEF IsInjective
<1> QED BY <1>1, <1>3, <1>5 DEF ToSet

(* Dropping it leaves a list of the other objects, each once. *)
LEMMA DropExact ==
  ASSUME NEW S, NEW k \in Seq(S), NEW u \in Seq(S), u # <<>>, IsInjective(k \o u)
  PROVE  /\ ToSet(k \o Tail(u)) = ToSet(k \o u) \ {Head(u)}
         /\ IsInjective(k \o Tail(u))
<1> DEFINE r == Tail(u)  n == Len(k)  m == Len(u)
<1>1. /\ n \in Nat /\ m \in Nat \ {0} /\ Head(u) = u[1]
      /\ r \in Seq(S) /\ Len(r) = m - 1 /\ \A i \in 1..(m - 1) : r[i] = u[i + 1]
  BY EmptySeq, HeadTailProperties
<1>2. /\ DOMAIN (k \o u) = 1..(n + m)
      /\ \A i \in 1..(n + m) : (k \o u)[i] = IF i <= n THEN k[i] ELSE u[i - n]
  BY ConcatProperties, LenProperties
<1> HIDE DEF r
<1>3. /\ DOMAIN (k \o r) = 1..(n + Len(r))
      /\ \A i \in 1..(n + Len(r)) : (k \o r)[i] = IF i <= n THEN k[i] ELSE r[i - n]
  <2>1. r \in Seq(S)
    BY <1>1
  <2>2. /\ k \o r \in Seq(S) /\ Len(k \o r) = Len(k) + Len(r)
        /\ \A i \in 1..(Len(k) + Len(r)) :
             (k \o r)[i] = IF i <= Len(k) THEN k[i] ELSE r[i - Len(k)]
    BY <2>1, ConcatProperties
  <2>3. DOMAIN (k \o r) = 1..Len(k \o r)
    BY <2>2, LenProperties
  <2> QED BY <2>2, <2>3
<1> HIDE DEF n, m
<1> DEFINE skip(i) == IF i <= n THEN i ELSE i + 1
<1>4. ASSUME NEW i \in 1..(n + m - 1)
      PROVE  /\ skip(i) \in 1..(n + m) /\ skip(i) # n + 1
             /\ (k \o r)[i] = (k \o u)[skip(i)]
  <2>1. CASE i <= n
    <3>1. i \in 1..(n + m) /\ i \in 1..(n + Len(r)) /\ i # n + 1
      BY <1>1, <2>1
    <3>2. (k \o r)[i] = k[i] /\ (k \o u)[i] = k[i]
      BY <1>2, <1>3, <2>1, <3>1
    <3> QED BY <2>1, <3>1, <3>2
  <2>2. CASE i > n
    <3> DEFINE j == i - n
    <3>1. j \in 1..(m - 1) /\ i + 1 - n = j + 1 /\ i + 1 \in 1..(n + m) /\ i + 1 > n
          /\ i \in 1..(n + Len(r)) /\ i + 1 # n + 1
      BY <1>1, <2>2
    <3>2. (k \o r)[i] = r[j] /\ (k \o u)[i + 1] = u[j + 1]
      BY <1>1, <1>2, <1>3, <2>2, <3>1
    <3> HIDE DEF j
    <3>3. r[j] = u[j + 1]
      BY <1>1, <3>1
    <3>4. ~(i <= n)
      BY <1>1, <2>2
    <3> QED BY <3>1, <3>2, <3>3, <3>4
  <2>3. i <= n \/ i > n
    BY <1>1
  <2> QED BY <2>1, <2>2, <2>3
<1>5. ASSUME NEW i \in 1..(n + m), i # n + 1
      PROVE  \E j \in 1..(n + m - 1) : i = skip(j)
  <2>1. CASE i <= n
    <3>1. i \in 1..(n + m - 1) /\ i = skip(i)
      BY <1>1, <2>1
    <3> QED BY <3>1
  <2>2. CASE i > n
    <3>1. i - 1 \in 1..(n + m - 1) /\ i = skip(i - 1)
      BY <1>1, <1>5, <2>2
    <3> QED BY <3>1
  <2> QED BY <1>1, <2>1, <2>2
<1>6. \A i, j \in 1..(n + m - 1) : skip(i) = skip(j) => i = j
  BY <1>1
<1>7. n + 1 \in 1..(n + m) /\ (k \o u)[n + 1] = u[1]
  BY <1>1, <1>2
<1>8. DOMAIN (k \o r) = 1..(n + m - 1)
  BY <1>1, <1>3
<1> HIDE DEF skip
<1>9. IsInjective(k \o r)
  <2> SUFFICES ASSUME NEW i \in 1..(n + m - 1), NEW j \in 1..(n + m - 1),
                      (k \o r)[i] = (k \o r)[j]
              PROVE  i = j
    BY <1>8 DEF IsInjective
  <2>1. (k \o u)[skip(i)] = (k \o u)[skip(j)]
    BY <1>4
  <2>2. skip(i) = skip(j)
    BY <1>2, <1>4, <2>1 DEF IsInjective
  <2> QED BY <1>6, <2>2
<1>10. ASSUME NEW x PROVE x \in ToSet(k \o r) <=> x \in ToSet(k \o u) \ {u[1]}
  <2>1. x \in ToSet(k \o r) <=> \E i \in 1..(n + m - 1) : x = (k \o r)[i]
    BY <1>8 DEF ToSet
  <2>2. x \in ToSet(k \o u) <=> \E i \in 1..(n + m) : x = (k \o u)[i]
    BY <1>2 DEF ToSet
  <2>3. ASSUME NEW i \in 1..(n + m - 1), x = (k \o r)[i] PROVE x \in ToSet(k \o u) /\ x # u[1]
    <3>1. skip(i) \in 1..(n + m) /\ skip(i) # n + 1 /\ x = (k \o u)[skip(i)]
      BY <1>4, <2>3
    <3>2. (k \o u)[skip(i)] # (k \o u)[n + 1]
      BY <1>2, <1>7, <3>1 DEF IsInjective
    <3> QED BY <1>7, <2>2, <3>1, <3>2
  <2>4. ASSUME NEW i \in 1..(n + m), x = (k \o u)[i], x # u[1] PROVE x \in ToSet(k \o r)
    BY <1>4, <1>5, <1>7, <2>1, <2>4
  <2> QED BY <2>1, <2>2, <2>3, <2>4
<1>11. ToSet(k \o r) = ToSet(k \o u) \ {u[1]}
  BY <1>10
<1> QED BY <1>1, <1>9, <1>11 DEF r

-----------------------------------------------------------------------------
(* The inductive invariant. *)

Marked == {a \in Allocated : heap[a].marked}

(* Outside a sweep no object refers to a swept block. *)
Pointing == \A a \in Allocated : Children(heap[a]) \subseteq Allocated

(* Everything found so far is reachable, and everything reachable is found  *)
(* or still to be found from the roots, the worklist or a marked object.    *)
MarkInv ==
  /\ pending \cup worklist \cup Marked \subseteq Live
  /\ RootPtrs \subseteq pending \cup worklist \cup Marked
  /\ \A a \in Marked : Children(heap[a]) \subseteq worklist \cup Marked

(* The reachable objects are the ones kept and the marked ones not yet seen. *)
SweepInv ==
  /\ Marked \cup ToSet(kept) = Live
  /\ Marked \cap ToSet(kept) = {}
  /\ Live \subseteq Allocated

IndInv ==
  /\ TypeOK
  /\ ListExact
  /\ RootPtrs \subseteq Allocated
  /\ phase # "sweep" => Pointing /\ kept = <<>> /\ unswept = <<>>
  /\ phase # "mark" => pending = {} /\ worklist = {}
  /\ phase = "mutator" => Marked = {}
  /\ phase = "mark" => MarkInv
  /\ phase = "sweep" => SweepInv

(* The facts every proof below starts from. *)
LEMMA RootsAreAddresses == TypeOK => RootPtrs \subseteq Addr
<1> SUFFICES ASSUME TypeOK PROVE RootWords \subseteq Word
  BY PointersAreAddresses DEF RootPtrs
<1> DEFINE R == {roots[i][1] : i \in {j \in DOMAIN roots : roots[j][2]}}
           U == UNION {{spans[n][1][i] : i \in spans[n][2]} : n \in DOMAIN spans}
<1>1. R \subseteq Word
  BY DEF TypeOK
<1>2. ASSUME NEW n \in DOMAIN spans PROVE {spans[n][1][i] : i \in spans[n][2]} \subseteq Word
  <2>1. spans[n] \in SpanWords \X SUBSET (1..SpanLen)
    BY DEF TypeOK
  <2> QED BY <2>1 DEF SpanWords
<1>3. U \subseteq Word
  BY <1>2
<1>4. RootWords = R \cup U \cup jit
  BY DEF RootWords
<1> QED BY <1>1, <1>3, <1>4 DEF TypeOK

LEMMA HeapChildren ==
  TypeOK => \A a \in Addr : heap[a] # Free => heap[a] \in Object /\ Children(heap[a]) \subseteq Addr
BY ChildrenAreAddresses DEF TypeOK

LEMMA LiveClosed ==
  ASSUME TypeOK
  PROVE  /\ Live \subseteq Addr
         /\ RootPtrs \subseteq Live
         /\ \A a \in Live : heap[a] # Free => Children(heap[a]) \subseteq Live
<1>1. Closed(RootPtrs, heap, Reach(RootPtrs, heap))
  BY RootsAreAddresses, HeapChildren, ReachClosed
<1> QED BY <1>1, LiveIsReach DEF Closed, Live

(* When no object refers to a swept block, no reachable one has been swept. *)
LEMMA PointingLive ==
  ASSUME TypeOK, Pointing, RootPtrs \subseteq Allocated
  PROVE  Live \subseteq Allocated
<1>1. Closed(RootPtrs, heap, Allocated)
  BY DEF Closed, Pointing, Allocated
<1> QED BY <1>1, ReachLeast, LiveIsReach DEF Allocated

(* The invariant implies it: in a sweep what is reachable is still there,   *)
(* outside one nothing refers to a swept block.                            *)
THEOREM InvariantNoDangling == IndInv => NoDangling
<1> SUFFICES ASSUME IndInv PROVE Live \subseteq Allocated
  BY DEF NoDangling
<1>1. CASE phase = "sweep"
  BY <1>1 DEF IndInv, SweepInv
<1>2. CASE phase # "sweep"
  BY <1>2, PointingLive DEF IndInv
<1> QED BY <1>1, <1>2

LEMMA InitInd == Init => IndInv
<1> SUFFICES ASSUME Init PROVE IndInv
  OBVIOUS
<1>1. TypeOK
  BY BoundsAssumption DEF Init, TypeOK
<1>2. Allocated = {}
  BY DEF Init, Allocated
<1>3. RootPtrs = {}
  BY DEF Init, RootPtrs, RootWords, PointersIn
<1>4. ListExact
  BY <1>2 DEF Init, ListExact, ToSet, IsInjective
<1> QED BY <1>1, <1>2, <1>3, <1>4 DEF Init, IndInv, Pointing, Marked

-----------------------------------------------------------------------------
(* Mutator steps. *)

LEMMA SizeIsInt == ASSUME NEW o \in Object PROVE SizeOf(o) \in Int
<1>1. o.cap \in Nat /\ o.stride \in Nat
  BY DEF Object
<1>2. o.cap * o.stride \in Nat
  BY <1>1
<1> QED BY <1>1, <1>2, BoundsAssumption DEF SizeOf

LEMMA AllocateInd ==
  ASSUME IndInv, NEW a \in Addr, NEW o \in Object, Children(o) = {}, ~o.marked,
         Allocate(a, o)
  PROVE  IndInv'
<1> USE DEF Running
<1>1. /\ phase = "mutator" /\ a \notin Allocated
      /\ heap' = [heap EXCEPT ![a] = o] /\ head' = Cons(a, head)
      /\ UNCHANGED <<roots, spans, jit, phase, pending, worklist, unswept, kept>>
  BY DEF Allocate, Allocated, gcVars, mutatorVars
<1>2. heap \in [Addr -> Object \cup {Free}] /\ head \in Seq(Addr)
  BY DEF IndInv, TypeOK
<1>3. /\ Allocated' = Allocated \cup {a}
      /\ heap'[a] = o /\ \A b \in Addr : b # a => heap'[b] = heap[b]
  BY <1>1, <1>2, FreeAssumption DEF Allocated
<1>4. ToSet(head) = Allocated /\ IsInjective(head)
  BY <1>1 DEF IndInv, ListExact
<1>5. /\ head' \in Seq(Addr) /\ ToSet(head') = Allocated' /\ IsInjective(head')
  BY <1>1, <1>2, <1>3, <1>4, ConsExact
<1>6. TypeOK'
  <2>1. bytes' \in Int /\ threshold' = threshold
    BY SizeIsInt DEF Allocate, IndInv, TypeOK
  <2>2. heap' \in [Addr -> Object \cup {Free}]
    BY <1>1, <1>2
  <2> QED BY <1>1, <1>5, <2>1, <2>2 DEF IndInv, TypeOK
<1>7. ListExact'
  BY <1>1, <1>5 DEF ListExact
<1>8. RootPtrs' = RootPtrs
  BY <1>1 DEF RootPtrs, RootWords
<1>9. Pointing'
  BY <1>1, <1>3 DEF IndInv, Pointing, Allocated
<1>10. Marked' = {}
  BY <1>1, <1>3 DEF IndInv, Marked, Allocated
<1> QED BY <1>1, <1>3, <1>6, <1>7, <1>8, <1>9, <1>10 DEF IndInv

LEMMA ReplaceInd ==
  ASSUME IndInv, Running, NEW a \in Allocated, NEW o \in Object,
         Children(o) \subseteq Allocated, o.marked = heap[a].marked, Replace(a, o)
  PROVE  IndInv'
<1> USE DEF Running
<1>1. /\ phase = "mutator" /\ a \in Addr
      /\ heap' = [heap EXCEPT ![a] = o]
      /\ UNCHANGED <<head, threshold, roots, spans, jit, phase, pending, worklist, unswept, kept>>
  BY DEF Replace, Allocated, gcVars, mutatorVars
<1>2. heap \in [Addr -> Object \cup {Free}]
  BY DEF IndInv, TypeOK
<1>3. /\ Allocated' = Allocated
      /\ heap'[a] = o /\ \A b \in Addr : b # a => heap'[b] = heap[b]
  BY <1>1, <1>2, FreeAssumption DEF Allocated
<1>4. TypeOK'
  <2>1. heap[a] \in Object
    BY <1>2 DEF Allocated
  <2>2. bytes' \in Int
    BY <2>1, SizeIsInt DEF Replace, IndInv, TypeOK
  <2>3. heap' \in [Addr -> Object \cup {Free}]
    BY <1>1, <1>2
  <2> QED BY <1>1, <2>2, <2>3 DEF IndInv, TypeOK
<1>5. ListExact'
  BY <1>1, <1>3 DEF IndInv, ListExact
<1>6. RootPtrs' = RootPtrs
  BY <1>1 DEF RootPtrs, RootWords
<1>7. Pointing'
  BY <1>1, <1>3 DEF IndInv, Pointing, Allocated
<1>8. Marked' = {}
  BY <1>1, <1>3 DEF IndInv, Marked, Allocated
<1> QED BY <1>1, <1>3, <1>4, <1>5, <1>6, <1>7, <1>8 DEF IndInv

(* Every mutator step creates an object that refers to nothing or replaces  *)
(* one by an object that refers to objects.                                *)
Creates(a, o) == Children(o) = {} /\ ~o.marked /\ Allocate(a, o)

Changes(a, o) ==
  /\ Running /\ a \in Allocated
  /\ Children(o) \subseteq Allocated /\ o.marked = heap[a].marked
  /\ Replace(a, o)

MutatorStep == \E a \in Addr, o \in Object : Creates(a, o) \/ Changes(a, o)

LEMMA MutateCases == IndInv /\ Mutate => MutatorStep
<1> SUFFICES ASSUME IndInv, Mutate PROVE MutatorStep
  OBVIOUS
<1> USE DEF Running
<1>1. \A a \in Allocated : heap[a] \in Object
  BY DEF IndInv, TypeOK, Allocated
<1>2. Running => \A a \in Allocated : Children(heap[a]) \subseteq Allocated
  BY DEF IndInv, Pointing
<1>3. ASSUME NEW a \in Addr, NEW s \in Shapes, AllocStr(a, s) PROVE MutatorStep
  <2> DEFINE o == NewObject(s, 1, <<>>)
  <2>1. o \in Object /\ Children(o) = {} /\ ~o.marked
    BY FreshPointsNowhere DEF NewObject
  <2>2. Allocate(a, o)
    BY <1>3 DEF AllocStr
  <2> HIDE DEF o
  <2> QED BY <2>1, <2>2 DEF MutatorStep, Creates
<1>4. ASSUME NEW a \in Addr, NEW s \in Shapes, AllocVariant(a, s) PROVE MutatorStep
  <2> DEFINE o == NewObject(s, 1, <<Zeros(s.stride)>>)
  <2>1. o \in Object /\ Children(o) = {} /\ ~o.marked
    BY FreshPointsNowhere DEF NewObject
  <2>2. Allocate(a, o)
    BY <1>4 DEF AllocVariant
  <2> HIDE DEF o
  <2> QED BY <2>1, <2>2 DEF MutatorStep, Creates
<1>5. ASSUME NEW a \in Addr, NEW s \in Shapes, NEW n \in 0..1,
             AllocList(a, s, n) \/ AllocDict(a, s, n)
      PROVE  MutatorStep
  <2> DEFINE o(cap) == NewObject(s, cap, <<>>)
  <2>1. PICK cap \in Nat : Allocate(a, o(cap))
    BY <1>5 DEF AllocList, AllocDict
  <2>2. o(cap) \in Object /\ Children(o(cap)) = {} /\ ~o(cap).marked
    BY FreshPointsNowhere DEF NewObject
  <2> HIDE DEF o
  <2> QED BY <2>1, <2>2 DEF MutatorStep, Creates
<1>6. ASSUME NEW a \in Addr, NEW s \in Shapes, NEW elem \in [1..s.stride -> Word],
             ListPush(a, elem)
      PROVE  MutatorStep
  <2> DEFINE o == heap[a]
             cap == IF Len(o.data) = o.cap THEN 2 * o.cap ELSE o.cap
             p == [o EXCEPT !.data = Append(@, elem), !.cap = cap]
  <2>1. /\ Running /\ a \in Allocated /\ o.kind = "List"
        /\ Len(elem) = o.stride /\ Replace(a, p)
        /\ \A c \in 1..o.stride : elem[c] \in Storable(c \in o.mask)
    BY <1>6 DEF ListPush, Allocated
  <2>2. elem \in Seq(Word)
    BY ShapesAssumption
  <2>3. o \in Object /\ Children(o) \subseteq Allocated
    BY <1>1, <1>2, <2>1
  <2>4. cap \in Nat /\ p.marked = o.marked
    BY <2>3 DEF Object
  <2> HIDE DEF cap
  <2>5. p \in Object /\ Children(p) \subseteq Allocated
    <3> HIDE DEF o
    <3> QED BY <2>1, <2>2, <2>3, <2>4, ListPushOK
  <2> HIDE DEF p
  <2> QED BY <2>1, <2>4, <2>5 DEF MutatorStep, Changes, Allocated
<1>7. ASSUME NEW a \in Addr, NEW i \in 1..MaxLen, NEW c \in Nat, NEW w \in Word,
             SetSlot(a, i, c, w)
      PROVE  MutatorStep
  <2> DEFINE o == heap[a]
             p == [o EXCEPT !.data[i][c] = w]
  <2>1. /\ Running /\ a \in Allocated /\ o.kind # "Str"
        /\ i \in DOMAIN o.data /\ c \in 1..o.stride /\ w \in Storable(c \in o.mask)
        /\ Replace(a, p)
    BY <1>7 DEF SetSlot, Allocated
  <2>2. o \in Object /\ Children(o) \subseteq Allocated
    BY <1>1, <1>2, <2>1
  <2>3. p.marked = o.marked
    BY <2>2 DEF Object
  <2>4. p \in Object /\ Children(p) \subseteq Allocated
    <3> HIDE DEF o
    <3> QED BY <2>1, <2>2, SetSlotOK
  <2> HIDE DEF p
  <2> QED BY <2>1, <2>3, <2>4 DEF MutatorStep, Changes, Allocated
<1>8. ASSUME NEW a \in Addr, NEW w \in Word, DictAppend(a, w) PROVE MutatorStep
  <2> DEFINE o == heap[a]
             grown == IF o.cap = 0 THEN 4 ELSE 2 * o.cap
             cap == IF Len(o.data) < o.cap THEN o.cap ELSE grown
             p == [o EXCEPT !.data = Append(@, [Zeros(o.stride) EXCEPT ![1] = w]),
                            !.cap = cap]
  <2>1. /\ Running /\ a \in Allocated /\ o.kind = "Dict"
        /\ w \in Storable(1 \in o.mask) /\ Replace(a, p)
    BY <1>8 DEF DictAppend, Allocated
  <2>2. o \in Object /\ Children(o) \subseteq Allocated
    BY <1>1, <1>2, <2>1
  <2>3. cap \in Nat /\ p.marked = o.marked
    BY <2>2 DEF Object
  <2> HIDE DEF cap
  <2>4. p \in Object /\ Children(p) \subseteq Allocated
    <3> HIDE DEF o
    <3> QED BY <2>1, <2>2, <2>3, DictAppendOK
  <2> HIDE DEF p
  <2> QED BY <2>1, <2>3, <2>4 DEF MutatorStep, Changes, Allocated
<1>9. ASSUME NEW a \in Addr, SetShared(a) PROVE MutatorStep
  <2> DEFINE o == heap[a]
             p == [o EXCEPT !.shared = TRUE]
  <2>1. Running /\ a \in Allocated /\ Replace(a, p)
    BY <1>9 DEF SetShared, Allocated
  <2>2. o \in Object /\ Children(o) \subseteq Allocated
    BY <1>1, <1>2, <2>1
  <2>3. /\ p.marked = o.marked /\ p \in Object
        /\ p.kind = o.kind /\ p.data = o.data /\ p.mask = o.mask
    BY <2>2 DEF Object
  <2> HIDE DEF p
  <2>4. Children(p) = Children(o)
    BY <2>3, SameChildren
  <2> QED BY <2>1, <2>2, <2>3, <2>4 DEF MutatorStep, Changes, Allocated
<1>10. ASSUME NEW a \in Addr, NEW e \in 1..MaxLen, DictDelete(a, e) PROVE MutatorStep
  <2> DEFINE o == heap[a]
             p == [o EXCEPT !.data = RemoveAt(@, e)]
  <2>1. Running /\ a \in Allocated /\ o.kind = "Dict" /\ e \in DOMAIN o.data /\ Replace(a, p)
    BY <1>10 DEF DictDelete, Allocated
  <2>2. o \in Object /\ Children(o) \subseteq Allocated
    BY <1>1, <1>2, <2>1
  <2>3. p.marked = o.marked
    BY <2>2 DEF Object
  <2>4. p \in Object /\ Children(p) \subseteq Allocated
    <3> HIDE DEF o
    <3> QED BY <2>1, <2>2, DictDeleteOK
  <2> HIDE DEF p
  <2> QED BY <2>1, <2>3, <2>4 DEF MutatorStep, Changes, Allocated
<1>11. \A s \in Shapes : 1..s.stride \subseteq Nat
  BY ShapesAssumption
<1> QED BY <1>3, <1>4, <1>5, <1>6, <1>7, <1>8, <1>9, <1>10, <1>11 DEF Mutate

LEMMA MutateInd == IndInv /\ Mutate => IndInv'
BY MutateCases, AllocateInd, ReplaceInd DEF MutatorStep, Creates, Changes

-----------------------------------------------------------------------------
(* Steps that change the roots. *)

LEMMA RootWordCases ==
  /\ \A w : w \in RootWords <=>
       \/ \E i \in DOMAIN roots : roots[i][2] /\ w = roots[i][1]
       \/ \E n \in DOMAIN spans : \E i \in spans[n][2] : w = spans[n][1][i]
       \/ w \in jit
  /\ \A w : w \in RootWords' <=>
       \/ \E i \in DOMAIN roots' : roots'[i][2] /\ w = roots'[i][1]
       \/ \E n \in DOMAIN spans' : \E i \in spans'[n][2] : w = spans'[n][1][i]
       \/ w \in jit'
BY DEF RootWords

(* It is enough that every root word is an old one or a storable one. *)
LEMMA RootStepInd ==
  ASSUME IndInv, RootStep,
         roots' \in Seq(Word \X BOOLEAN),
         spans' \in Seq(SpanWords \X SUBSET (1..SpanLen)),
         jit' \in SUBSET Word,
         \A w : w \in RootWords' => w \in RootWords \/ w \in Storable(TRUE)
  PROVE  IndInv'
<1>1. phase = "mutator" /\ UNCHANGED <<heap, head, bytes, threshold, gcVars>>
  BY DEF RootStep, Running
<1>2. TypeOK'
  BY <1>1 DEF IndInv, TypeOK, gcVars
<1>3. Allocated' = Allocated /\ Pointing' = Pointing /\ Marked' = Marked /\ ListExact' = ListExact
  BY <1>1 DEF Allocated, Pointing, Marked, ListExact, gcVars
<1>4. RootPtrs' \subseteq Allocated
  <2> SUFFICES ASSUME NEW w \in RootWords', IsHeapPtr(w) PROVE HeapPtr(w) \in Allocated
    BY DEF RootPtrs, PointersIn
  <2>1. CASE w \in RootWords
    <3>1. HeapPtr(w) \in RootPtrs
      BY <2>1 DEF RootPtrs, PointersIn
    <3> QED BY <3>1 DEF IndInv
  <2>2. CASE w \in Storable(TRUE)
    BY <2>2 DEF Storable
  <2> QED BY <2>1, <2>2
<1> QED BY <1>1, <1>2, <1>3, <1>4 DEF IndInv, gcVars

(* The two sources a step may leave alone. *)
LEMMA SpanWordsStorable ==
  ASSUME roots' = roots, jit' = jit,
         \A k \in DOMAIN spans' : \A j \in spans'[k][2] :
           spans'[k][1][j] \in RootWords \/ spans'[k][1][j] \in Storable(TRUE)
  PROVE  \A v : v \in RootWords' => v \in RootWords \/ v \in Storable(TRUE)
<1> SUFFICES ASSUME NEW v \in RootWords'
            PROVE  v \in RootWords \/ v \in Storable(TRUE)
  OBVIOUS
<1>1. CASE \E n \in DOMAIN spans' : \E i \in spans'[n][2] : v = spans'[n][1][i]
  BY <1>1
<1>2. CASE ~ \E n \in DOMAIN spans' : \E i \in spans'[n][2] : v = spans'[n][1][i]
  BY <1>2, RootWordCases
<1> QED BY <1>1, <1>2

LEMMA RootWordsStorable ==
  ASSUME spans' = spans, jit' = jit,
         \A i \in DOMAIN roots' : roots'[i][2] =>
           roots'[i][1] \in RootWords \/ roots'[i][1] \in Storable(TRUE)
  PROVE  \A v : v \in RootWords' => v \in RootWords \/ v \in Storable(TRUE)
<1> SUFFICES ASSUME NEW v \in RootWords'
            PROVE  v \in RootWords \/ v \in Storable(TRUE)
  OBVIOUS
<1>1. CASE \E i \in DOMAIN roots' : roots'[i][2] /\ v = roots'[i][1]
  BY <1>1
<1>2. CASE ~ \E i \in DOMAIN roots' : roots'[i][2] /\ v = roots'[i][1]
  BY <1>2, RootWordCases
<1> QED BY <1>1, <1>2

LEMMA ChangeRootsInd == IndInv /\ ChangeRoots => IndInv'
<1> SUFFICES ASSUME IndInv, ChangeRoots PROVE IndInv'
  OBVIOUS
<1>1. /\ roots \in Seq(Word \X BOOLEAN)
      /\ spans \in Seq(SpanWords \X SUBSET (1..SpanLen))
      /\ jit \in SUBSET Word
  BY DEF IndInv, TypeOK
<1>2. ASSUME NEW w \in Word, NEW isPtr \in BOOLEAN, PushRoot(w, isPtr) PROVE IndInv'
  <2>1. /\ RootStep /\ w \in Storable(isPtr) /\ roots' = Append(roots, <<w, isPtr>>)
        /\ spans' = spans /\ jit' = jit
    BY <1>2 DEF PushRoot
  <2>2. /\ roots' \in Seq(Word \X BOOLEAN)
        /\ \A i \in DOMAIN roots' :
             \/ i \in DOMAIN roots /\ roots'[i] = roots[i]
             \/ roots'[i] = <<w, isPtr>>
    BY <1>1, <2>1, AppendProperties
  <2>3. ASSUME NEW i \in DOMAIN roots', roots'[i][2]
        PROVE  roots'[i][1] \in RootWords \/ roots'[i][1] \in Storable(TRUE)
    <3>1. CASE i \in DOMAIN roots /\ roots'[i] = roots[i]
      BY <2>3, <3>1, RootWordCases
    <3>2. CASE roots'[i] = <<w, isPtr>>
      BY <2>1, <2>3, <3>2 DEF Storable
    <3> QED BY <2>2, <3>1, <3>2
  <2>4. \A v : v \in RootWords' => v \in RootWords \/ v \in Storable(TRUE)
    BY <2>1, <2>3, RootWordsStorable
  <2> QED BY <1>1, <2>1, <2>2, <2>4, RootStepInd
<1>3. ASSUME NEW n \in 1..MaxRoots, PopRoots(n) PROVE IndInv'
  <2> DEFINE m == IF n > Len(roots) THEN 0 ELSE Len(roots) - n
  <2>1. RootStep /\ roots' = SubSeq(roots, 1, m) /\ spans' = spans /\ jit' = jit
    BY <1>3 DEF PopRoots
  <2>2. m \in 0..Len(roots) /\ Len(roots) \in Nat
    BY <1>1, BoundsAssumption
  <2> HIDE DEF m
  <2>3. \A i \in 1..m : roots[i] \in Word \X BOOLEAN /\ i \in DOMAIN roots
    BY <1>1, <2>2
  <2>4. /\ roots' \in Seq(Word \X BOOLEAN)
        /\ \A i \in DOMAIN roots' : i \in DOMAIN roots /\ roots'[i] = roots[i]
    BY <1>1, <2>1, <2>2, <2>3
  <2>5. \A v : v \in RootWords' => v \in RootWords
    BY <2>1, <2>4, RootWordCases
  <2> QED BY <1>1, <2>1, <2>4, <2>5, RootStepInd
<1>4. CASE ClearRoots
  <2>1. RootStep /\ roots' = <<>> /\ spans' = spans /\ jit' = jit
    BY <1>4 DEF ClearRoots
  <2>2. roots' \in Seq(Word \X BOOLEAN) /\ DOMAIN roots' = {}
    BY <2>1
  <2>3. \A v : v \in RootWords' => v \in RootWords
    BY <2>1, <2>2, RootWordCases
  <2> QED BY <1>1, <2>1, <2>2, <2>3, RootStepInd
<1>5. ASSUME NEW slots \in SUBSET (1..SpanLen), PushScannedSpan(slots) PROVE IndInv'
  <2> DEFINE span == <<Zeros(SpanLen), slots>>
  <2>1. RootStep /\ spans' = Append(spans, span) /\ roots' = roots /\ jit' = jit
    BY <1>5 DEF PushScannedSpan
  <2>2. Null \in Word /\ Null \in Storable(TRUE)
    BY NullStorable DEF Storable
  <2>3. /\ span \in SpanWords \X SUBSET (1..SpanLen)
        /\ span[2] = slots /\ \A i \in slots : span[1][i] = Null
    BY <2>2 DEF Zeros, SpanWords
  <2> HIDE DEF span
  <2>4. /\ spans' \in Seq(SpanWords \X SUBSET (1..SpanLen))
        /\ \A k \in DOMAIN spans' :
             \/ k \in DOMAIN spans /\ spans'[k] = spans[k]
             \/ spans'[k] = span
    BY <1>1, <2>1, <2>3, AppendProperties
  <2>5. ASSUME NEW k \in DOMAIN spans', NEW j \in spans'[k][2]
        PROVE  spans'[k][1][j] \in RootWords \/ spans'[k][1][j] \in Storable(TRUE)
    <3>1. CASE k \in DOMAIN spans /\ spans'[k] = spans[k]
      BY <2>5, <3>1, RootWordCases
    <3>2. CASE spans'[k] = span
      BY <2>2, <2>3, <2>5, <3>2
    <3> QED BY <2>4, <3>1, <3>2
  <2>6. \A v : v \in RootWords' => v \in RootWords \/ v \in Storable(TRUE)
    BY <2>1, <2>5, SpanWordsStorable
  <2> QED BY <1>1, <2>1, <2>4, <2>6, RootStepInd
<1>6. ASSUME NEW n \in DOMAIN spans, NEW i \in 1..SpanLen, NEW w \in Word,
             WriteSpan(n, i, w)
      PROVE  IndInv'
  <2> DEFINE span == <<[spans[n][1] EXCEPT ![i] = w], spans[n][2]>>
  <2>1. /\ RootStep /\ spans' = [spans EXCEPT ![n] = span] /\ roots' = roots /\ jit' = jit
        /\ w \in Storable(i \in spans[n][2])
    BY <1>6 DEF WriteSpan
  <2>2. spans[n] \in SpanWords \X SUBSET (1..SpanLen)
    BY <1>1
  <2>3. /\ span \in SpanWords \X SUBSET (1..SpanLen)
        /\ span[2] = spans[n][2]
        /\ \A j \in spans[n][2] : span[1][j] = IF j = i THEN w ELSE spans[n][1][j]
    BY <2>2 DEF SpanWords
  <2> HIDE DEF span
  <2>4. /\ spans' \in Seq(SpanWords \X SUBSET (1..SpanLen))
        /\ DOMAIN spans' = DOMAIN spans
        /\ \A k \in DOMAIN spans : spans'[k] = IF k = n THEN span ELSE spans[k]
    BY <1>1, <2>1, <2>3, ExceptSeq
  <2>5. ASSUME NEW k \in DOMAIN spans', NEW j \in spans'[k][2]
        PROVE  spans'[k][1][j] \in RootWords \/ spans'[k][1][j] \in Storable(TRUE)
    <3>1. CASE k # n
      BY <2>4, <2>5, <3>1, RootWordCases
    <3>2. CASE k = n /\ j # i
      <4>1. j \in spans[n][2] /\ spans'[k][1][j] = spans[n][1][j]
        BY <2>3, <2>4, <2>5, <3>2
      <4> QED BY <4>1, RootWordCases
    <3>3. CASE k = n /\ j = i
      <4>1. i \in spans[n][2] /\ spans'[k][1][j] = w
        BY <2>3, <2>4, <2>5, <3>3
      <4> QED BY <2>1, <4>1
    <3> QED BY <3>1, <3>2, <3>3
  <2>6. \A v : v \in RootWords' => v \in RootWords \/ v \in Storable(TRUE)
    BY <2>1, <2>5, SpanWordsStorable
  <2> QED BY <1>1, <2>1, <2>4, <2>6, RootStepInd
<1>7. CASE PopScannedSpan
  <2> DEFINE m == Len(spans) - 1
  <2>1. /\ RootStep /\ spans # <<>> /\ spans' = SubSeq(spans, 1, m)
        /\ roots' = roots /\ jit' = jit
    BY <1>7 DEF PopScannedSpan, Front
  <2>2. m \in 0..Len(spans) /\ Len(spans) \in Nat
    BY <1>1, <2>1, EmptySeq
  <2> HIDE DEF m
  <2>3. /\ spans' \in Seq(SpanWords \X SUBSET (1..SpanLen))
        /\ \A k \in DOMAIN spans' : k \in DOMAIN spans /\ spans'[k] = spans[k]
    BY <1>1, <2>1, <2>2
  <2>4. \A v : v \in RootWords' => v \in RootWords
    BY <2>1, <2>3, RootWordCases
  <2> QED BY <1>1, <2>1, <2>3, <2>4, RootStepInd
<1>8. ASSUME NEW W \in SUBSET Word, JitStep(W) PROVE IndInv'
  <2>1. RootStep /\ jit' = W /\ W \subseteq Storable(TRUE) /\ roots' = roots /\ spans' = spans
    BY <1>8 DEF JitStep
  <2>2. \A v : v \in RootWords' => v \in RootWords \/ v \in Storable(TRUE)
    BY <2>1, RootWordCases
  <2> QED BY <1>1, <2>1, <2>2, RootStepInd
<1> QED BY <1>2, <1>3, <1>4, <1>5, <1>6, <1>7, <1>8 DEF ChangeRoots

-----------------------------------------------------------------------------
(* Collector steps.  None of them changes the roots, and none changes what  *)
(* a reachable object refers to, so none changes which objects are reachable.*)

LEMMA LiveStable ==
  ASSUME TypeOK, heap' \in [Addr -> Object \cup {Free}],
         UNCHANGED <<roots, spans, jit>>,
         \A a \in Live : /\ heap[a] # Free /\ heap'[a] # Free
                         /\ Children(heap'[a]) = Children(heap[a])
  PROVE  RootPtrs' = RootPtrs /\ Live' = Live
<1>1. RootPtrs' = RootPtrs
  BY DEF RootPtrs, RootWords
<1>2. \A a \in Addr : heap'[a] # Free => Children(heap'[a]) \subseteq Addr
  BY ChildrenAreAddresses
<1>3. Reach(RootPtrs, heap') = Reach(RootPtrs, heap)
  BY <1>2, HeapChildren, RootsAreAddresses, LiveIsReach, ReachStable
<1> QED BY <1>1, <1>3, LiveIsReach

LEMMA StartCollectInd ==
  ASSUME IndInv, NEW force, StartCollect(force)
  PROVE  IndInv'
<1>1. /\ phase = "mutator" /\ phase' = "mark" /\ pending' = RootPtrs
      /\ UNCHANGED <<heap, head, bytes, threshold, roots, spans, jit, worklist, unswept, kept>>
  BY DEF StartCollect, Running, mutatorVars
<1>2. TypeOK /\ Marked = {} /\ worklist = {} /\ Pointing /\ kept = <<>> /\ unswept = <<>>
  BY <1>1 DEF IndInv
<1>3. /\ Allocated' = Allocated /\ Marked' = Marked /\ Pointing' = Pointing
      /\ RootPtrs' = RootPtrs /\ Live' = Live
  BY <1>1 DEF Allocated, Marked, Pointing, RootPtrs, RootWords, Live, ClosedUnder
<1>4. TypeOK'
  BY <1>1, <1>2, RootsAreAddresses DEF TypeOK
<1>5. ListExact'
  BY <1>1, <1>3 DEF IndInv, ListExact
<1>6. MarkInv'
  BY <1>1, <1>2, <1>3, LiveClosed DEF MarkInv
<1> QED BY <1>1, <1>2, <1>3, <1>4, <1>5, <1>6 DEF IndInv

LEMMA MarkRootInd ==
  ASSUME IndInv, NEW a \in Addr, MarkRoot(a)
  PROVE  IndInv'
<1>1. /\ phase = "mark" /\ worklist = {} /\ a \in pending
      /\ pending' = pending \ {a} /\ worklist' = {a}
      /\ UNCHANGED <<heap, head, bytes, threshold, roots, spans, jit, phase, unswept, kept>>
  BY DEF MarkRoot, mutatorVars
<1>2. TypeOK /\ Pointing /\ MarkInv /\ kept = <<>> /\ unswept = <<>>
  BY <1>1 DEF IndInv
<1>3. /\ Allocated' = Allocated /\ Marked' = Marked /\ Pointing' = Pointing
      /\ RootPtrs' = RootPtrs /\ Live' = Live
  BY <1>1 DEF Allocated, Marked, Pointing, RootPtrs, RootWords, Live, ClosedUnder
<1>4. TypeOK'
  BY <1>1, <1>2 DEF TypeOK
<1>5. ListExact'
  BY <1>1, <1>3 DEF IndInv, ListExact
<1>6. MarkInv'
  BY <1>1, <1>2, <1>3 DEF MarkInv
<1> QED BY <1>1, <1>2, <1>3, <1>4, <1>5, <1>6 DEF IndInv

(* What setting or clearing a reachable object's mark does. *)
LEMMA RemarkOK ==
  ASSUME IndInv, NEW a \in Allocated, NEW b \in BOOLEAN,
         heap' = [heap EXCEPT ![a].marked = b]
  PROVE  /\ heap' \in [Addr -> Object \cup {Free}]
         /\ Allocated' = Allocated
         /\ \A c \in Allocated : Children(heap'[c]) = Children(heap[c])
         /\ Marked' = IF b THEN Marked \cup {a} ELSE Marked \ {a}
<1> DEFINE o == [heap[a] EXCEPT !.marked = b]
<1>1. heap \in [Addr -> Object \cup {Free}] /\ heap[a] \in Object /\ a \in Addr
  BY DEF IndInv, TypeOK, Allocated
<1>2. /\ o \in Object /\ o.marked = b
      /\ o.kind = heap[a].kind /\ o.data = heap[a].data /\ o.mask = heap[a].mask
  BY <1>1 DEF Object
<1>3. heap' = [heap EXCEPT ![a] = o]
  BY <1>1
<1> HIDE DEF o
<1>4. heap'[a] = o /\ \A c \in Addr : c # a => heap'[c] = heap[c]
  BY <1>1, <1>3
<1>5. Children(o) = Children(heap[a])
  BY <1>2, SameChildren
<1>6. Allocated' = Allocated
  BY <1>1, <1>2, <1>4, FreeAssumption DEF Allocated
<1>7. Marked' = IF b THEN Marked \cup {a} ELSE Marked \ {a}
  BY <1>2, <1>4, <1>6 DEF Marked, Allocated
<1>8. heap' \in [Addr -> Object \cup {Free}]
  BY <1>1, <1>2, <1>3
<1> QED BY <1>4, <1>5, <1>6, <1>7, <1>8 DEF Allocated

LEMMA MarkPopInd ==
  ASSUME IndInv, NEW a \in Addr, MarkPop(a)
  PROVE  IndInv'
<1>1. /\ phase = "mark" /\ a \in worklist
      /\ UNCHANGED <<head, bytes, threshold, roots, spans, jit, phase, pending, unswept, kept>>
  BY DEF MarkPop, mutatorVars
<1>2. TypeOK /\ Pointing /\ MarkInv /\ RootPtrs \subseteq Allocated
      /\ kept = <<>> /\ unswept = <<>>
  BY <1>1 DEF IndInv
<1>3. Live \subseteq Allocated /\ a \in Live /\ a \in Allocated
  BY <1>1, <1>2, PointingLive DEF MarkInv
<1>4. CASE heap[a].marked
  <2>1. heap' = heap /\ worklist' = worklist \ {a} /\ a \in Marked
    BY <1>3, <1>4 DEF MarkPop, Marked
  <2>2. /\ Allocated' = Allocated /\ Marked' = Marked /\ Pointing' = Pointing
        /\ RootPtrs' = RootPtrs /\ Live' = Live
    BY <1>1, <2>1 DEF Allocated, Marked, Pointing, RootPtrs, RootWords, Live, ClosedUnder
  <2>3. TypeOK'
    BY <1>1, <1>2, <2>1 DEF TypeOK
  <2>4. ListExact'
    BY <1>1, <2>2 DEF IndInv, ListExact
  <2>5. MarkInv'
    BY <1>1, <1>2, <2>1, <2>2 DEF MarkInv
  <2> QED BY <1>1, <1>2, <2>2, <2>3, <2>4, <2>5 DEF IndInv
<1>5. CASE ~heap[a].marked
  <2>1. heap' = [heap EXCEPT ![a].marked = TRUE]
        /\ worklist' = (worklist \ {a}) \cup Children(heap[a])
    BY <1>5 DEF MarkPop
  <2>2. /\ heap' \in [Addr -> Object \cup {Free}]
        /\ Allocated' = Allocated
        /\ \A c \in Allocated : Children(heap'[c]) = Children(heap[c])
        /\ Marked' = Marked \cup {a}
    BY <1>3, <2>1, RemarkOK
  <2>3. RootPtrs' = RootPtrs /\ Live' = Live
    BY <1>1, <1>2, <1>3, <2>2, LiveStable DEF Allocated
  <2>4. Children(heap[a]) \subseteq Live
    BY <1>2, <1>3, LiveClosed DEF Allocated
  <2>5. TypeOK'
    <3>1. worklist' \in SUBSET Addr
      BY <1>2, <2>1, <2>4, LiveClosed DEF TypeOK
    <3> QED BY <1>1, <1>2, <2>2, <3>1 DEF TypeOK
  <2>6. ListExact'
    BY <1>1, <2>2 DEF IndInv, ListExact
  <2>7. Pointing'
    BY <1>2, <2>2 DEF Pointing
  <2>8. MarkInv'
    <3>1. \A c \in Marked \cup {a} : Children(heap'[c]) = Children(heap[c])
      BY <1>3, <2>2 DEF Marked
    <3>2. pending' \cup worklist' \cup Marked' \subseteq Live
      BY <1>1, <1>2, <1>3, <2>1, <2>2, <2>4 DEF MarkInv
    <3>3. RootPtrs \subseteq pending' \cup worklist' \cup Marked'
      BY <1>1, <1>2, <2>1, <2>2 DEF MarkInv
    <3>4. \A c \in Marked' : Children(heap'[c]) \subseteq worklist' \cup Marked'
      BY <1>2, <2>1, <2>2, <3>1 DEF MarkInv
    <3> QED BY <2>3, <3>2, <3>3, <3>4 DEF MarkInv
  <2> QED BY <1>1, <1>2, <2>2, <2>3, <2>5, <2>6, <2>7, <2>8 DEF IndInv
<1> QED BY <1>4, <1>5

(* With nothing left to mark, the marked objects are the reachable ones. *)
LEMMA MarkingDone ==
  ASSUME IndInv, phase = "mark", pending = {}, worklist = {}
  PROVE  Marked = Live
<1>1. TypeOK /\ MarkInv
  BY DEF IndInv
<1>2. Closed(RootPtrs, heap, Marked)
  BY <1>1 DEF Closed, MarkInv
<1>3. Live \subseteq Marked
  BY <1>2, ReachLeast, LiveIsReach DEF Marked, Allocated
<1> QED BY <1>1, <1>3 DEF MarkInv

LEMMA StartSweepInd ==
  ASSUME IndInv, StartSweep
  PROVE  IndInv'
<1>1. /\ phase = "mark" /\ pending = {} /\ worklist = {}
      /\ phase' = "sweep" /\ unswept' = head /\ kept' = <<>>
      /\ UNCHANGED <<heap, head, bytes, threshold, roots, spans, jit, pending, worklist>>
  BY DEF StartSweep, mutatorVars
<1>2. TypeOK /\ RootPtrs \subseteq Allocated /\ Marked = Live
  BY <1>1, MarkingDone DEF IndInv
<1>3. /\ Allocated' = Allocated /\ Marked' = Marked /\ RootPtrs' = RootPtrs /\ Live' = Live
  BY <1>1 DEF Allocated, Marked, RootPtrs, RootWords, Live, ClosedUnder
<1>4. TypeOK'
  BY <1>1, <1>2 DEF TypeOK
<1>5. ListExact'
  <2>1. kept' \o unswept' = head
    BY <1>1, <1>2, ConcatEmptySeq DEF TypeOK
  <2> QED BY <1>1, <1>3, <2>1 DEF IndInv, ListExact
<1>6. SweepInv'
  BY <1>1, <1>2, <1>3 DEF SweepInv, ToSet, Marked
<1> QED BY <1>1, <1>2, <1>3, <1>4, <1>5, <1>6 DEF IndInv

(* The object sweep is at. *)
LEMMA SweepHead ==
  ASSUME IndInv, phase = "sweep", unswept # <<>>
  PROVE  /\ Head(unswept) \in Allocated /\ Head(unswept) \notin ToSet(kept)
         /\ ToSet(kept \o unswept) = Allocated /\ IsInjective(kept \o unswept)
         /\ kept \in Seq(Addr) /\ unswept \in Seq(Addr) /\ Tail(unswept) \in Seq(Addr)
<1>1. kept \in Seq(Addr) /\ unswept \in Seq(Addr)
  BY DEF IndInv, TypeOK
<1>2. ToSet(kept \o unswept) = Allocated /\ IsInjective(kept \o unswept)
  BY DEF IndInv, ListExact
<1> QED BY <1>1, <1>2, HeadNotKept, HeadTailProperties

LEMMA SweepFreeInd ==
  ASSUME IndInv, SweepFree
  PROVE  /\ IndInv' /\ RootPtrs' = RootPtrs /\ Live' = Live
         /\ \E a \in Allocated \ Live : heap' = [heap EXCEPT ![a] = Free]
<1> DEFINE a == Head(unswept)
<1>1. /\ phase = "sweep" /\ unswept # <<>> /\ ~heap[a].marked
      /\ heap' = [heap EXCEPT ![a] = Free] /\ bytes' = bytes - SizeOf(heap[a])
      /\ unswept' = Tail(unswept)
      /\ UNCHANGED <<head, threshold, roots, spans, jit, phase, pending, worklist, kept>>
  BY DEF SweepFree, mutatorVars
<1>2. TypeOK /\ SweepInv /\ RootPtrs \subseteq Allocated /\ pending = {} /\ worklist = {}
  BY <1>1 DEF IndInv
<1>3. /\ a \in Allocated /\ a \notin ToSet(kept)
      /\ ToSet(kept \o unswept) = Allocated /\ IsInjective(kept \o unswept)
      /\ kept \in Seq(Addr) /\ unswept \in Seq(Addr) /\ Tail(unswept) \in Seq(Addr)
  BY <1>1, SweepHead
<1>4. ToSet(kept' \o unswept') = Allocated \ {a} /\ IsInjective(kept' \o unswept')
  BY <1>1, <1>3, DropExact
<1> HIDE DEF a
<1>5. /\ a \in Addr /\ heap \in [Addr -> Object \cup {Free}]
      /\ heap'[a] = Free /\ \A c \in Addr : c # a => heap'[c] = heap[c]
  BY <1>1, <1>2, <1>3 DEF TypeOK, Allocated
<1>6. Allocated' = Allocated \ {a}
  BY <1>5 DEF Allocated
<1>7. a \notin Live
  BY <1>1, <1>2, <1>3 DEF SweepInv, Marked
<1>8. heap' \in [Addr -> Object \cup {Free}]
  BY <1>1, <1>5
<1>9. RootPtrs' = RootPtrs /\ Live' = Live
  <2>1. \A c \in Live : /\ heap[c] # Free /\ heap'[c] # Free
                        /\ Children(heap'[c]) = Children(heap[c])
    BY <1>2, <1>5, <1>7 DEF SweepInv, Allocated
  <2> QED BY <1>1, <1>2, <1>8, <2>1, LiveStable
<1>10. Marked' = Marked
  BY <1>1, <1>5, <1>6 DEF Marked, Allocated
<1>11. TypeOK'
  <2>1. heap[a] \in Object
    BY <1>3, <1>5 DEF Allocated
  <2>2. bytes' \in Int
    BY <1>1, <1>2, <2>1, SizeIsInt DEF TypeOK
  <2> QED BY <1>1, <1>2, <1>3, <1>8, <2>2 DEF TypeOK
<1>12. ListExact'
  BY <1>1, <1>4, <1>6 DEF ListExact
<1>13. SweepInv'
  BY <1>1, <1>2, <1>6, <1>7, <1>9, <1>10 DEF SweepInv
<1>14. RootPtrs' \subseteq Allocated'
  BY <1>2, <1>6, <1>7, <1>9, LiveClosed
<1>15. IndInv'
  BY <1>1, <1>2, <1>11, <1>12, <1>13, <1>14 DEF IndInv
<1> QED BY <1>1, <1>3, <1>7, <1>9, <1>15

LEMMA SweepKeepInd ==
  ASSUME IndInv, SweepKeep
  PROVE  /\ IndInv' /\ RootPtrs' = RootPtrs /\ Live' = Live
         /\ \E a \in Allocated : heap' = [heap EXCEPT ![a].marked = FALSE]
<1> DEFINE a == Head(unswept)
<1>1. /\ phase = "sweep" /\ unswept # <<>> /\ heap[a].marked
      /\ heap' = [heap EXCEPT ![a].marked = FALSE] /\ kept' = Append(kept, a)
      /\ unswept' = Tail(unswept)
      /\ UNCHANGED <<head, bytes, threshold, roots, spans, jit, phase, pending, worklist>>
  BY DEF SweepKeep, mutatorVars
<1>2. TypeOK /\ SweepInv /\ RootPtrs \subseteq Allocated /\ pending = {} /\ worklist = {}
  BY <1>1 DEF IndInv
<1>3. /\ a \in Allocated /\ a \notin ToSet(kept)
      /\ ToSet(kept \o unswept) = Allocated /\ IsInjective(kept \o unswept)
      /\ kept \in Seq(Addr) /\ unswept \in Seq(Addr) /\ Tail(unswept) \in Seq(Addr)
  BY <1>1, SweepHead
<1>4. kept' \o unswept' = kept \o unswept /\ ToSet(kept') = ToSet(kept) \cup {a}
  BY <1>1, <1>3, MoveExact
<1> HIDE DEF a
<1>5. /\ heap' \in [Addr -> Object \cup {Free}]
      /\ Allocated' = Allocated
      /\ \A c \in Allocated : Children(heap'[c]) = Children(heap[c])
      /\ Marked' = Marked \ {a}
  BY <1>1, <1>3, RemarkOK
<1>6. RootPtrs' = RootPtrs /\ Live' = Live
  BY <1>1, <1>2, <1>5, LiveStable DEF SweepInv, Allocated
<1>7. a \in Marked /\ a \in Addr
  BY <1>1, <1>3 DEF Marked, Allocated
<1>8. TypeOK'
  <2>1. kept' \in Seq(Addr)
    BY <1>1, <1>3, <1>7, AppendProperties
  <2> QED BY <1>1, <1>2, <1>3, <1>5, <2>1 DEF TypeOK
<1>9. ListExact'
  BY <1>1, <1>3, <1>4, <1>5 DEF ListExact
<1>10. SweepInv'
  BY <1>2, <1>3, <1>4, <1>5, <1>6, <1>7 DEF SweepInv
<1>11. IndInv'
  BY <1>1, <1>2, <1>5, <1>6, <1>8, <1>9, <1>10 DEF IndInv
<1> QED BY <1>1, <1>3, <1>6, <1>11

(* At the end of a sweep what is left is exactly what was reachable. *)
LEMMA FinishCollectInd ==
  ASSUME IndInv, FinishCollect
  PROVE  IndInv' /\ Allocated' = Live'
<1>1. /\ phase = "sweep" /\ unswept = <<>> /\ head' = kept /\ kept' = <<>>
      /\ threshold' = IF 2 * bytes > MinThreshold THEN 2 * bytes ELSE MinThreshold
      /\ phase' = "mutator"
      /\ UNCHANGED <<heap, bytes, roots, spans, jit, pending, worklist, unswept>>
  BY DEF FinishCollect, mutatorVars
<1>2. TypeOK /\ SweepInv /\ RootPtrs \subseteq Allocated /\ pending = {} /\ worklist = {}
  BY <1>1 DEF IndInv
<1>3. /\ Allocated' = Allocated /\ Marked' = Marked /\ Pointing' = Pointing
      /\ RootPtrs' = RootPtrs /\ Live' = Live
  BY <1>1 DEF Allocated, Marked, Pointing, RootPtrs, RootWords, Live, ClosedUnder
<1>4. ToSet(kept) = Allocated /\ IsInjective(kept)
  <2>1. kept \o unswept = kept
    BY <1>1, <1>2, ConcatEmptySeq DEF TypeOK
  <2> QED BY <1>1, <2>1 DEF IndInv, ListExact
<1>5. Marked = {} /\ Live = Allocated
  BY <1>2, <1>4 DEF SweepInv, Marked
<1>6. Pointing
  BY <1>2, <1>5, LiveClosed DEF Pointing, Allocated
<1>7. TypeOK'
  BY <1>1, <1>2, BoundsAssumption DEF TypeOK
<1>8. ListExact'
  BY <1>1, <1>3, <1>4 DEF ListExact
<1> QED BY <1>1, <1>2, <1>3, <1>5, <1>6, <1>7, <1>8 DEF IndInv

-----------------------------------------------------------------------------
(* The invariant holds, and with it what it was found for. *)

LEMMA CollectorInd == IndInv /\ CollectorStep => IndInv'
BY MarkRootInd, MarkPopInd, StartSweepInd, SweepFreeInd, SweepKeepInd, FinishCollectInd
   DEF CollectorStep

LEMMA NextInd == IndInv /\ [Next]_vars => IndInv'
<1> SUFFICES ASSUME IndInv, [Next]_vars PROVE IndInv'
  OBVIOUS
<1>1. CASE Mutate
  BY <1>1, MutateInd
<1>2. CASE ChangeRoots
  BY <1>2, ChangeRootsInd
<1>3. CASE \E force \in BOOLEAN : StartCollect(force)
  BY <1>3, StartCollectInd
<1>4. CASE CollectorStep
  BY <1>4, CollectorInd
<1>5. CASE UNCHANGED vars
  <2>1. /\ Allocated' = Allocated /\ Marked' = Marked /\ Pointing' = Pointing
        /\ RootPtrs' = RootPtrs /\ Live' = Live
    BY <1>5 DEF Allocated, Marked, Pointing, RootPtrs, RootWords, Live, ClosedUnder,
                vars, mutatorVars, gcVars
  <2>2. TypeOK' /\ ListExact'
    BY <1>5, <2>1 DEF IndInv, TypeOK, ListExact, vars, mutatorVars, gcVars
  <2>3. MarkInv' = MarkInv /\ SweepInv' = SweepInv
    BY <1>5, <2>1 DEF MarkInv, SweepInv, vars, mutatorVars, gcVars
  <2> QED BY <1>5, <2>1, <2>2, <2>3 DEF IndInv, vars, mutatorVars, gcVars
<1> QED BY <1>1, <1>2, <1>3, <1>4, <1>5 DEF Next

(* The invariant of the collector: the tri-colour argument. *)
THEOREM Invariance == Spec => []IndInv
BY InitInd, NextInd, PTL DEF Spec

(* Every word, object and list has the shape runtime/gc.rs declares. *)
THEOREM TypeCorrect == Spec => []TypeOK
<1>1. IndInv => TypeOK
  BY DEF IndInv
<1> QED BY <1>1, Invariance, PTL

(* No collection frees an object the program can still reach, and no       *)
(* reachable object refers to a swept block.                               *)
THEOREM NothingDangles == Spec => []NoDangling
BY InvariantNoDangling, Invariance, PTL

(* A collection leaves no mark behind for the next one to stumble on. *)
THEOREM MarksAreCleared == Spec => []MarksClear
<1>1. IndInv => MarksClear
  BY DEF IndInv, MarksClear, Running, Marked
<1> QED BY <1>1, Invariance, PTL

(* The intrusive object list holds every object exactly once. *)
THEOREM ListIsExact == Spec => []ListExact
<1>1. IndInv => ListExact
  BY DEF IndInv
<1> QED BY <1>1, Invariance, PTL

(* Every allocation and every change of an object is the running mutator's. *)
LEMMA MutateRuns == Mutate => Running
<1>1. ASSUME NEW a, NEW s, AllocStr(a, s) PROVE Running
  BY <1>1 DEF AllocStr, Allocate
<1>2. ASSUME NEW a, NEW s, AllocVariant(a, s) PROVE Running
  BY <1>2 DEF AllocVariant, Allocate
<1>3. ASSUME NEW a, NEW s, NEW n, AllocList(a, s, n) PROVE Running
  BY <1>3 DEF AllocList, Allocate
<1>4. ASSUME NEW a, NEW s, NEW n, AllocDict(a, s, n) PROVE Running
  BY <1>4 DEF AllocDict, Allocate
<1>5. ASSUME NEW a, NEW elem, ListPush(a, elem) PROVE Running
  BY <1>5 DEF ListPush
<1>6. ASSUME NEW a, NEW w, DictAppend(a, w) PROVE Running
  BY <1>6 DEF DictAppend
<1>7. ASSUME NEW a, NEW e, DictDelete(a, e) PROVE Running
  BY <1>7 DEF DictDelete
<1>8. ASSUME NEW a, NEW i, NEW c, NEW w, SetSlot(a, i, c, w) PROVE Running
  BY <1>8 DEF SetSlot
<1>9. ASSUME NEW a, SetShared(a) PROVE Running
  BY <1>9 DEF SetShared
<1> QED BY <1>1, <1>2, <1>3, <1>4, <1>5, <1>6, <1>7, <1>8, <1>9 DEF Mutate

(* Every change of the roots is the running mutator's. *)
LEMMA ChangeRootsRuns == ChangeRoots => Running
<1>1. RootStep => Running
  BY DEF RootStep
<1>2. ASSUME NEW w, NEW p, PushRoot(w, p) PROVE RootStep
  BY <1>2 DEF PushRoot
<1>3. ASSUME NEW n, PopRoots(n) PROVE RootStep
  BY <1>3 DEF PopRoots
<1>4. ClearRoots => RootStep
  BY DEF ClearRoots
<1>5. ASSUME NEW slots, PushScannedSpan(slots) PROVE RootStep
  BY <1>5 DEF PushScannedSpan
<1>6. ASSUME NEW n, NEW i, NEW w, WriteSpan(n, i, w) PROVE RootStep
  BY <1>6 DEF WriteSpan
<1>7. PopScannedSpan => RootStep
  BY DEF PopScannedSpan
<1>8. ASSUME NEW W, JitStep(W) PROVE RootStep
  BY <1>8 DEF JitStep
<1>9. ChangeRoots => RootStep
  BY <1>2, <1>3, <1>4, <1>5, <1>6, <1>7, <1>8 DEF ChangeRoots
<1> QED BY <1>1, <1>9

(* Of the steps, only FinishCollect ends a collection. *)
LEMMA CollectorOnly ==
  ASSUME [Next]_vars, phase # "mutator"
  PROVE  CollectorStep \/ UNCHANGED vars
<1>1. ~Running
  BY DEF Running
<1>2. ~Mutate /\ ~ChangeRoots
  BY <1>1, MutateRuns, ChangeRootsRuns
<1>3. ASSUME NEW force, StartCollect(force) PROVE Running
  BY <1>3 DEF StartCollect
<1> QED BY <1>1, <1>2, <1>3 DEF Next

(* A collection leaves exactly the reachable objects: it loses none, and    *)
(* none that was garbage when it began survives it.                        *)
THEOREM CollectionIsExact == Spec => CollectExact
<1>1. ASSUME IndInv, [Next]_vars, phase = "sweep", phase' = "mutator"
      PROVE  Allocated' = Live'
  <2>1. CollectorStep
    BY <1>1, CollectorOnly DEF vars, gcVars
  <2>2. FinishCollect
    BY <1>1, <2>1 DEF CollectorStep, MarkRoot, MarkPop, StartSweep, SweepFree, SweepKeep
  <2> QED BY <1>1, <2>2, FinishCollectInd
<1>2. IndInv /\ [Next]_vars => [phase = "sweep" /\ phase' = "mutator" => Allocated' = Live']_vars
  BY <1>1
<1> QED BY <1>2, Invariance, PTL DEF Spec, CollectExact

(* No step of a collection changes what the program sees of an object it    *)
(* can reach; a survivor's `shared` bit in particular is kept.             *)
THEOREM CollectionIsInvisible == Spec => CollectorInvisible
<1> DEFINE bare(o) == [o EXCEPT !.marked = FALSE]
           same == \A a \in Live : bare(heap'[a]) = bare(heap[a])
<1>1. ASSUME IndInv, [Next]_vars, phase # "mutator" PROVE same
  <2>1. IndInv /\ heap \in [Addr -> Object \cup {Free}] /\ Live \subseteq Addr
    BY <1>1, LiveClosed DEF IndInv, TypeOK
  <2>2. ASSUME NEW a \in Allocated, NEW b \in BOOLEAN,
               heap' = [heap EXCEPT ![a].marked = b]
        PROVE  same
    <3>1. a \in Addr /\ heap[a] \in Object
      BY <2>1 DEF Allocated
    <3>2. bare(heap'[a]) = bare(heap[a])
      <4>1. heap'[a] = [heap[a] EXCEPT !.marked = b]
        BY <2>1, <2>2, <3>1
      <4> QED BY <3>1, <4>1 DEF Object
    <3>3. \A c \in Addr : c # a => heap'[c] = heap[c]
      BY <2>1, <2>2
    <3> QED BY <2>1, <3>2, <3>3
  <2>3. CASE heap' = heap
    BY <2>3
  <2>4. ASSUME NEW a \in Addr, MarkPop(a) PROVE same
    <3>1. a \in Allocated
      BY <1>1, <2>4, PointingLive DEF IndInv, MarkPop, MarkInv
    <3>2. heap' = heap \/ heap' = [heap EXCEPT ![a].marked = TRUE]
      BY <2>4 DEF MarkPop
    <3> HIDE DEF same
    <3> QED BY <2>2, <2>3, <3>1, <3>2
  <2>5. CASE SweepKeep
    <3> HIDE DEF same
    <3> QED BY <1>1, <2>2, <2>5, SweepKeepInd
  <2>6. CASE SweepFree
    <3>1. PICK a \in Allocated \ Live : heap' = [heap EXCEPT ![a] = Free]
      BY <1>1, <2>6, SweepFreeInd
    <3> QED BY <2>1, <3>1 DEF Allocated
  <2>7. CASE UNCHANGED vars
    BY <2>7 DEF vars
  <2>8. CASE StartSweep \/ FinishCollect \/ \E a \in Addr : MarkRoot(a)
    BY <2>8 DEF StartSweep, FinishCollect, MarkRoot
  <2> HIDE DEF same
  <2> QED BY <1>1, <2>4, <2>5, <2>6, <2>7, <2>8, CollectorOnly DEF CollectorStep
<1>2. IndInv /\ [Next]_vars => [phase # "mutator" => same]_vars
  BY <1>1
<1> QED BY <1>2, Invariance, PTL DEF Spec, CollectorInvisible

-----------------------------------------------------------------------------
(* The heap implements HeapSpec. *)

AbstractStore == [a \in Addr |-> IF heap[a] = Free THEN Free ELSE Children(heap[a])]

(* The mapped state has the same objects and the same reachable ones. *)
LEMMA AbstractViews ==
  ASSUME IndInv
  PROVE  /\ Abstract!Allocated = Allocated
         /\ Abstract!Live = Live
<1>1. \A a \in Addr : AbstractStore[a] = Free <=> heap[a] = Free
  BY HeapChildren, FreeAssumption DEF AbstractStore, IndInv
<1>2. \A a \in Addr : heap[a] # Free => AbstractStore[a] = Children(heap[a])
  BY DEF AbstractStore
<1>3. Abstract!Allocated = Allocated
  BY <1>1 DEF Abstract!Allocated, Allocated, AbstractStore
<1>4. \A S \in SUBSET Addr : Abstract!ClosedUnder(S) <=> ClosedUnder(S)
  BY <1>1, <1>2 DEF Abstract!ClosedUnder, ClosedUnder, AbstractStore
<1> QED BY <1>3, <1>4 DEF Abstract!Live, Live

LEMMA AbstractInit == Init => Abstract!Init
<1> SUFFICES ASSUME Init PROVE Abstract!Init
  OBVIOUS
<1>1. AbstractStore = [a \in Addr |-> Free]
  BY DEF Init, AbstractStore
<1>2. RootPtrs = {}
  BY DEF Init, RootPtrs, RootWords, PointersIn
<1> QED BY <1>1, <1>2 DEF Abstract!Init, AbstractStore

(* Replacing or creating one object changes one entry of the mapped store. *)
LEMMA AbstractUpdate ==
  ASSUME IndInv, NEW a \in Addr, NEW o \in Object, heap' = [heap EXCEPT ![a] = o]
  PROVE  AbstractStore' = [AbstractStore EXCEPT ![a] = Children(o)]
<1>1. heap \in [Addr -> Object \cup {Free}]
  BY DEF IndInv, TypeOK
<1>2. heap'[a] = o /\ o # Free /\ \A b \in Addr : b # a => heap'[b] = heap[b]
  BY <1>1, FreeAssumption
<1>3. AbstractStore'[a] = Children(o)
  BY <1>2 DEF AbstractStore
<1>4. \A b \in Addr : b # a => AbstractStore'[b] = AbstractStore[b]
  BY <1>2 DEF AbstractStore
<1>5. /\ AbstractStore = [b \in Addr |-> AbstractStore[b]]
      /\ AbstractStore' = [b \in Addr |-> AbstractStore'[b]]
  BY DEF AbstractStore
<1> HIDE DEF AbstractStore
<1> QED BY <1>3, <1>4, <1>5

LEMMA AbstractStep == IndInv /\ IndInv' /\ [Next]_vars => [Abstract!Next]_(Abstract!vars)
<1> SUFFICES ASSUME IndInv, IndInv', [Next]_vars
            PROVE  Abstract!Next \/ (AbstractStore' = AbstractStore /\ RootPtrs' = RootPtrs)
  BY DEF Abstract!vars, AbstractStore
<1> DEFINE stutter == AbstractStore' = AbstractStore /\ RootPtrs' = RootPtrs
<1>1. /\ Abstract!Allocated = Allocated /\ Abstract!Live = Live
      /\ heap \in [Addr -> Object \cup {Free}]
  BY AbstractViews DEF IndInv, TypeOK
<1>2. CASE Mutate
  <2>1. PICK a \in Addr, o \in Object : Creates(a, o) \/ Changes(a, o)
    BY <1>2, MutateCases DEF MutatorStep
  <2>2. heap' = [heap EXCEPT ![a] = o] /\ RootPtrs' = RootPtrs
    BY <2>1 DEF Creates, Changes, Allocate, Replace, RootPtrs, RootWords, mutatorVars
  <2>3. Children(o) \in SUBSET Abstract!Allocated
    BY <1>1, <2>1 DEF Creates, Changes
  <2>4. AbstractStore' = [AbstractStore EXCEPT ![a] = Children(o)]
    BY <2>2, AbstractUpdate
  <2>5. Abstract!New(a) \/ Abstract!Write(a)
    BY <2>2, <2>3, <2>4 DEF Abstract!New, Abstract!Write, AbstractStore
  <2> QED BY <2>5 DEF Abstract!Next
<1>3. CASE ChangeRoots
  <2>1. heap' = heap
    BY <1>3 DEF ChangeRoots, RootStep, PushRoot, PopRoots, ClearRoots,
                PushScannedSpan, WriteSpan, PopScannedSpan, JitStep
  <2>2. AbstractStore' = AbstractStore /\ Allocated' = Allocated
    BY <2>1 DEF AbstractStore, Allocated
  <2>3. RootPtrs' \in SUBSET Abstract!Allocated
    BY <1>1, <2>2 DEF IndInv
  <2>4. Abstract!SetRoots
    BY <2>2, <2>3 DEF Abstract!SetRoots, AbstractStore
  <2> QED BY <2>4 DEF Abstract!Next
<1>4. ASSUME heap' = heap, UNCHANGED <<roots, spans, jit>> PROVE stutter
  BY <1>4 DEF AbstractStore, RootPtrs, RootWords
<1>5. CASE \E force \in BOOLEAN : StartCollect(force)
  BY <1>4, <1>5 DEF StartCollect, mutatorVars
<1>6. CASE UNCHANGED vars
  BY <1>4, <1>6 DEF vars, mutatorVars
<1>7. CASE StartSweep \/ FinishCollect \/ \E a \in Addr : MarkRoot(a)
  BY <1>4, <1>7 DEF StartSweep, FinishCollect, MarkRoot, mutatorVars
<1>8. ASSUME NEW a \in Allocated, NEW b \in BOOLEAN,
             heap' = [heap EXCEPT ![a].marked = b], UNCHANGED <<roots, spans, jit>>
      PROVE  stutter
  <2>1. /\ Allocated' = Allocated
        /\ \A c \in Allocated : Children(heap'[c]) = Children(heap[c])
    BY <1>8, RemarkOK
  <2>2. RootPtrs' = RootPtrs
    BY <1>8 DEF RootPtrs, RootWords
  <2>3. AbstractStore' = AbstractStore
    BY <2>1 DEF AbstractStore, Allocated
  <2> QED BY <2>2, <2>3
<1>9. ASSUME NEW a \in Addr, MarkPop(a) PROVE stutter
  <2>1. a \in Allocated
    BY <1>9, PointingLive DEF IndInv, MarkPop, MarkInv
  <2>2. /\ heap' = heap \/ heap' = [heap EXCEPT ![a].marked = TRUE]
        /\ UNCHANGED <<roots, spans, jit>>
    BY <1>9 DEF MarkPop, mutatorVars
  <2> HIDE DEF stutter
  <2> QED BY <1>4, <1>8, <2>1, <2>2
<1>10. CASE SweepKeep
  <2>1. PICK a \in Allocated : heap' = [heap EXCEPT ![a].marked = FALSE]
    BY <1>10, SweepKeepInd
  <2>2. UNCHANGED <<roots, spans, jit>>
    BY <1>10 DEF SweepKeep, mutatorVars
  <2>3. stutter
    <3> HIDE DEF stutter
    <3> QED BY <1>8, <2>1, <2>2
  <2> QED BY <2>3
<1>11. CASE SweepFree
  <2>1. /\ RootPtrs' = RootPtrs
        /\ \E a \in Allocated \ Live : heap' = [heap EXCEPT ![a] = Free]
    BY <1>11, SweepFreeInd
  <2>2. PICK a \in Allocated \ Live : heap' = [heap EXCEPT ![a] = Free]
    BY <2>1
  <2>3. AbstractStore' = [AbstractStore EXCEPT ![a] = Free]
    BY <1>1, <2>2 DEF AbstractStore
  <2>4. a \in Addr /\ AbstractStore[a] # Free /\ a \notin Abstract!Live
    BY <1>1, <2>2, HeapChildren, FreeAssumption DEF AbstractStore, Allocated, IndInv
  <2>5. Abstract!Reclaim(a)
    BY <2>1, <2>3, <2>4 DEF Abstract!Reclaim, AbstractStore
  <2> QED BY <2>4, <2>5 DEF Abstract!Next
<1> HIDE DEF stutter
<1>12. CASE CollectorStep
  BY <1>7, <1>9, <1>10, <1>11, <1>12 DEF CollectorStep, stutter
<1> QED BY <1>2, <1>3, <1>5, <1>6, <1>12 DEF Next, stutter

(* runtime/gc.rs implements the heap a program is promised: it only ever    *)
(* takes back an object no root reaches.                                   *)
THEOREM Implementation == Spec => ImplementsHeapSpec
<1>1. IndInv /\ [Next]_vars => [Abstract!Next]_(Abstract!vars)
  BY AbstractStep, NextInd
<1> QED BY <1>1, AbstractInit, Invariance, PTL DEF Spec, ImplementsHeapSpec, Abstract!Spec

-----------------------------------------------------------------------------
(* The accounting.  Putting v at a moves the words of one block only, so    *)
(* the words allocated are counted one update at a time.                    *)

Footprint(v) == IF v = Free THEN 0 ELSE SizeOf(v)
Block(a, v) == {a} \X (1..Footprint(v))
WordsOf(h) == UNION {{a} \X (1..SizeOf(h[a])) : a \in {b \in Addr : h[b] # Free}}

(* The count is inductive together with the finiteness it needs. *)
BytesInv == IsFiniteSet(WordsOf(heap)) /\ bytes = Cardinality(WordsOf(heap))

LEMMA FootprintIsNat ==
  ASSUME NEW v \in Object \cup {Free}
  PROVE  Footprint(v) \in Nat
<1>1. CASE v = Free
  BY <1>1 DEF Footprint
<1>2. CASE v \in Object /\ v # Free
  <2>1. v.cap \in Nat /\ v.stride \in Nat
    BY <1>2 DEF Object
  <2>2. v.cap * v.stride \in Nat
    BY <2>1
  <2> QED BY <1>2, <2>1, <2>2, BoundsAssumption DEF Footprint, SizeOf
<1> QED BY <1>1, <1>2

LEMMA BlockCount ==
  ASSUME NEW a, NEW v \in Object \cup {Free}
  PROVE  IsFiniteSet(Block(a, v)) /\ Cardinality(Block(a, v)) = Footprint(v)
<1> DEFINE n == Footprint(v)
<1>1. n \in Nat
  BY FootprintIsNat
<1> HIDE DEF n
<1>2. IsFiniteSet(1..n) /\ Cardinality(1..n) = n
  BY <1>1, FS_Interval
<1>3. IsFiniteSet({a}) /\ Cardinality({a}) = 1
  BY FS_Singleton
<1>4. IsFiniteSet({a} \X (1..n)) /\ Cardinality({a} \X (1..n)) = 1 * n
  <2> DEFINE S == {a}
             T == 1..n
  <2>1. IsFiniteSet(S) /\ Cardinality(S) = 1 /\ IsFiniteSet(T) /\ Cardinality(T) = n
    BY <1>2, <1>3
  <2> HIDE DEF S, T
  <2>2. IsFiniteSet(S \X T) /\ Cardinality(S \X T) = Cardinality(S) * Cardinality(T)
    BY <2>1, FS_Product
  <2> QED BY <2>1, <2>2 DEF S, T
<1> QED BY <1>1, <1>4 DEF Block, n

LEMMA WordsMember ==
  ASSUME NEW h \in [Addr -> Object \cup {Free}]
  PROVE  \A x : x \in WordsOf(h) <=> \E b \in Addr : x \in Block(b, h[b])
<1>1. \A b \in Addr : h[b] = Free => Block(b, h[b]) = {}
  BY DEF Block, Footprint
<1>2. \A b \in Addr : h[b] # Free => Block(b, h[b]) = {b} \X (1..SizeOf(h[b]))
  BY DEF Block, Footprint
<1> QED BY <1>1, <1>2 DEF WordsOf

LEMMA WordsUpdate ==
  ASSUME NEW h \in [Addr -> Object \cup {Free}], IsFiniteSet(WordsOf(h)),
         NEW a \in Addr, NEW v \in Object \cup {Free},
         NEW g, g = [h EXCEPT ![a] = v]
  PROVE  /\ IsFiniteSet(WordsOf(g))
         /\ Cardinality(WordsOf(g)) =
              Cardinality(WordsOf(h)) - Footprint(h[a]) + Footprint(v)
<1> DEFINE old == Block(a, h[a])
           new == Block(a, v)
           rest == WordsOf(h) \ old
<1>1. g \in [Addr -> Object \cup {Free}] /\ g[a] = v /\ \A b \in Addr : b # a => g[b] = h[b]
  OBVIOUS
<1>2. \A b \in Addr : \A x : b # a /\ x \in Block(b, h[b]) => x \notin old /\ x \notin new
  BY DEF Block
<1>3. old \subseteq WordsOf(h)
  BY WordsMember
<1>4. WordsOf(g) = rest \cup new
  <2>1. \A x : x \in WordsOf(h) <=> \E b \in Addr : x \in Block(b, h[b])
    BY WordsMember
  <2>2. \A x : x \in WordsOf(g) <=> \E b \in Addr : x \in Block(b, g[b])
    BY <1>1, WordsMember
  <2>3. \A x : x \in WordsOf(g) <=> x \in new \/ \E b \in Addr : b # a /\ x \in Block(b, h[b])
    BY <1>1, <2>2
  <2>4. \A x : x \in rest <=> \E b \in Addr : b # a /\ x \in Block(b, h[b])
    BY <1>2, <2>1
  <2> QED BY <2>3, <2>4
<1>5. rest \cap new = {}
  <2>1. \A x \in rest : \E b \in Addr : b # a /\ x \in Block(b, h[b])
    BY WordsMember
  <2> QED BY <1>2, <2>1
<1>6. /\ IsFiniteSet(old) /\ Cardinality(old) = Footprint(h[a])
      /\ IsFiniteSet(new) /\ Cardinality(new) = Footprint(v)
  BY BlockCount
<1>7. /\ Footprint(h[a]) \in Nat /\ Footprint(v) \in Nat
      /\ Cardinality(WordsOf(h)) \in Nat
  BY FootprintIsNat, FS_CardinalityType
<1> HIDE DEF old, new
<1>8. WordsOf(h) \cap old = old
  BY <1>3
<1>9. IsFiniteSet(rest) /\ Cardinality(rest) = Cardinality(WordsOf(h)) - Cardinality(old)
  <2> DEFINE W == WordsOf(h)
  <2> HIDE DEF W
  <2>1. IsFiniteSet(W) /\ W \cap old = old
    BY <1>8 DEF W
  <2>2. IsFiniteSet(W \ old) /\ Cardinality(W \ old) = Cardinality(W) - Cardinality(W \cap old)
    BY <2>1, FS_Difference
  <2> QED BY <2>1, <2>2 DEF W
<1> HIDE DEF rest
<1>10. /\ IsFiniteSet(rest \cup new)
       /\ Cardinality(rest \cup new) = Cardinality(rest) + Cardinality(new) - Cardinality({})
  BY <1>5, <1>6, <1>9, FS_Union
<1>11. Cardinality({}) = 0
  BY FS_EmptySet
<1>12. Cardinality(rest \cup new) = Cardinality(WordsOf(h)) - Footprint(h[a]) + Footprint(v)
  BY <1>6, <1>7, <1>9, <1>10, <1>11
<1> QED BY <1>4, <1>10, <1>12

(* What a step does to the heap and to the count. *)
Puts(a, v) ==
  /\ heap' = [heap EXCEPT ![a] = v]
  /\ bytes' = bytes - Footprint(heap[a]) + Footprint(v)

Accounted ==
  \/ heap' = heap /\ bytes' = bytes
  \/ \E a \in Addr, v \in Object \cup {Free} : Puts(a, v)

LEMMA AccountedBytes == TypeOK /\ BytesInv /\ Accounted => BytesInv'
<1> SUFFICES ASSUME TypeOK, BytesInv, Accounted PROVE BytesInv'
  OBVIOUS
<1>1. heap \in [Addr -> Object \cup {Free}]
  BY DEF TypeOK
<1>2. CASE heap' = heap /\ bytes' = bytes
  BY <1>2 DEF BytesInv
<1>3. ASSUME NEW a \in Addr, NEW v \in Object \cup {Free}, Puts(a, v) PROVE BytesInv'
  <2>1. /\ IsFiniteSet(WordsOf(heap'))
        /\ Cardinality(WordsOf(heap')) =
             Cardinality(WordsOf(heap)) - Footprint(heap[a]) + Footprint(v)
    BY <1>1, <1>3, WordsUpdate DEF BytesInv, Puts
  <2> QED BY <1>3, <2>1 DEF BytesInv, Puts
<1> QED BY <1>2, <1>3 DEF Accounted

(* The mutator counts what it allocates and by how much an object grows. *)
LEMMA MutateAccounted == IndInv /\ Mutate => Accounted
<1> SUFFICES ASSUME IndInv, Mutate PROVE Accounted
  OBVIOUS
<1>1. PICK a \in Addr, o \in Object : Creates(a, o) \/ Changes(a, o)
  BY MutateCases DEF MutatorStep
<1>2. bytes \in Int /\ heap[a] \in Object \cup {Free} /\ o \in Object \cup {Free}
  BY DEF IndInv, TypeOK
<1>3. Footprint(o) = SizeOf(o) /\ Footprint(o) \in Nat /\ Footprint(heap[a]) \in Nat
  BY <1>2, FreeAssumption, FootprintIsNat DEF Footprint
<1>4. CASE Creates(a, o)
  <2>1. heap' = [heap EXCEPT ![a] = o] /\ bytes' = bytes + SizeOf(o) /\ heap[a] = Free
    BY <1>4 DEF Creates, Allocate
  <2>2. Footprint(heap[a]) = 0
    BY <2>1 DEF Footprint
  <2>3. Puts(a, o)
    BY <1>2, <1>3, <2>1, <2>2 DEF Puts
  <2> QED BY <1>2, <2>3 DEF Accounted
<1>5. CASE Changes(a, o)
  <2>1. /\ heap' = [heap EXCEPT ![a] = o] /\ heap[a] # Free
        /\ bytes' = bytes + SizeOf(o) - SizeOf(heap[a])
    BY <1>5 DEF Changes, Replace, Allocated
  <2>2. Footprint(heap[a]) = SizeOf(heap[a])
    BY <2>1 DEF Footprint
  <2>3. Puts(a, o)
    BY <1>2, <1>3, <2>1, <2>2 DEF Puts
  <2> QED BY <1>2, <2>3 DEF Accounted
<1> QED BY <1>1, <1>4, <1>5

(* A mark bit takes no room. *)
LEMMA RemarkAccounted ==
  ASSUME IndInv, NEW a \in Allocated, NEW m \in BOOLEAN,
         heap' = [heap EXCEPT ![a].marked = m], bytes' = bytes
  PROVE  Accounted
<1> DEFINE o == [heap[a] EXCEPT !.marked = m]
<1>1. heap[a] \in Object /\ a \in Addr /\ heap[a] # Free /\ bytes \in Int
  BY DEF IndInv, TypeOK, Allocated
<1>2. /\ o \in Object
      /\ o.cap = heap[a].cap /\ o.stride = heap[a].stride /\ o.kind = heap[a].kind
  BY <1>1 DEF Object
<1>3. heap' = [heap EXCEPT ![a] = o]
  OBVIOUS
<1> HIDE DEF o
<1>4. SizeOf(o) = SizeOf(heap[a])
  BY <1>2 DEF SizeOf
<1>5. /\ Footprint(o) = Footprint(heap[a]) /\ Footprint(o) \in Nat
  BY <1>1, <1>2, <1>4, FreeAssumption, FootprintIsNat DEF Footprint
<1>6. \A n \in Nat : bytes = bytes - n + n
  BY <1>1
<1>7. bytes' = bytes - Footprint(heap[a]) + Footprint(o)
  BY <1>5, <1>6
<1>8. Puts(a, o)
  BY <1>3, <1>7 DEF Puts
<1> QED BY <1>1, <1>2, <1>8 DEF Accounted

LEMMA CollectorAccounted == IndInv /\ CollectorStep => Accounted
<1> SUFFICES ASSUME IndInv, CollectorStep PROVE Accounted
  OBVIOUS
<1>1. ASSUME NEW a \in Addr, MarkRoot(a) PROVE Accounted
  BY <1>1 DEF MarkRoot, Accounted
<1>2. ASSUME NEW a \in Addr, MarkPop(a) PROVE Accounted
  <2>1. bytes' = bytes
    BY <1>2 DEF MarkPop
  <2>2. CASE heap' = heap
    BY <2>1, <2>2 DEF Accounted
  <2>3. CASE heap' = [heap EXCEPT ![a].marked = TRUE]
    <3>1. phase = "mark" /\ a \in worklist
      BY <1>2 DEF MarkPop
    <3>2. a \in Live
      BY <3>1 DEF IndInv, MarkInv
    <3>3. a \in Allocated
      BY <3>2, InvariantNoDangling DEF NoDangling
    <3> QED BY <2>1, <2>3, <3>3, RemarkAccounted
  <2> QED BY <1>2, <2>2, <2>3 DEF MarkPop
<1>3. CASE StartSweep
  BY <1>3 DEF StartSweep, Accounted
<1>4. CASE SweepFree
  <2> DEFINE a == Head(unswept)
  <2>1. /\ phase = "sweep" /\ unswept # <<>>
        /\ heap' = [heap EXCEPT ![a] = Free] /\ bytes' = bytes - SizeOf(heap[a])
    BY <1>4 DEF SweepFree
  <2>2. a \in Allocated
    BY <2>1, SweepHead
  <2> HIDE DEF a
  <2>3. a \in Addr /\ heap[a] \in Object /\ heap[a] # Free /\ bytes \in Int
    BY <2>2 DEF IndInv, TypeOK, Allocated
  <2>4. /\ Footprint(heap[a]) = SizeOf(heap[a]) /\ Footprint(heap[a]) \in Nat
        /\ Footprint(Free) = 0
    BY <2>3, FootprintIsNat DEF Footprint
  <2>5. Puts(a, Free)
    BY <2>1, <2>3, <2>4 DEF Puts
  <2> QED BY <2>3, <2>5 DEF Accounted
<1>5. CASE SweepKeep
  <2>1. /\ phase = "sweep" /\ unswept # <<>> /\ bytes' = bytes
        /\ heap' = [heap EXCEPT ![Head(unswept)].marked = FALSE]
    BY <1>5 DEF SweepKeep
  <2>2. Head(unswept) \in Allocated
    BY <2>1, SweepHead
  <2> QED BY <2>1, <2>2, RemarkAccounted
<1>6. CASE FinishCollect
  BY <1>6 DEF FinishCollect, Accounted
<1> QED BY <1>1, <1>2, <1>3, <1>4, <1>5, <1>6 DEF CollectorStep

LEMMA NextAccounted == IndInv /\ [Next]_vars => Accounted
<1> SUFFICES ASSUME IndInv, [Next]_vars PROVE Accounted
  OBVIOUS
<1>1. CASE ChangeRoots
  <2>1. RootStep
    BY <1>1 DEF ChangeRoots, PushRoot, PopRoots, ClearRoots, PushScannedSpan, WriteSpan,
                PopScannedSpan, JitStep
  <2> QED BY <2>1 DEF RootStep, Accounted
<1>2. CASE \E force \in BOOLEAN : StartCollect(force)
  BY <1>2 DEF StartCollect, Accounted
<1>3. CASE UNCHANGED vars
  BY <1>3 DEF vars, Accounted
<1> QED BY <1>1, <1>2, <1>3, MutateAccounted, CollectorAccounted DEF Next

LEMMA InitBytes == Init => BytesInv
<1> SUFFICES ASSUME Init PROVE BytesInv
  OBVIOUS
<1>1. WordsOf(heap) = {}
  BY DEF Init, WordsOf
<1> QED BY <1>1, FS_EmptySet DEF Init, BytesInv

(* bytes_allocated is the number of words the live blocks hold, whatever   *)
(* sequence of allocations, growths and sweeps led there, so the unsigned  *)
(* subtraction of free_obj never underflows.                               *)
THEOREM BytesAreExact == Spec => []BytesExact
<1>1. IndInv => TypeOK
  BY DEF IndInv
<1>2. IndInv /\ BytesInv /\ [Next]_vars => BytesInv'
  BY <1>1, NextAccounted, AccountedBytes
<1>3. BytesInv => BytesExact
  BY DEF BytesInv, BytesExact, AllocatedWords, WordsOf, Allocated
<1> QED BY <1>2, <1>3, InitBytes, Invariance, PTL DEF Spec
=============================================================================
