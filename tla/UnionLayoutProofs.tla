------------------------- MODULE UnionLayoutProofs -------------------------
(***************************************************************************)
(* What an inline union promises, whatever its members flatten to: the     *)
(* leaves of a member never share a column, the words written are the      *)
(* words read, the first column says which member it is, and the collector *)
(* is led to the member's pointers and to nothing else.                    *)
(*                                                                         *)
(* The layout is the widest member's, so everything about it follows from  *)
(* two facts: a member's pointer (scalar) leaves are at most as many as    *)
(* the layout has columns for, and the rank of a leaf among its kind       *)
(* numbers them without repetition.  Fits states the first of a layout and *)
(* one member; RankStrict is the second.                                   *)
(***************************************************************************)
EXTENDS UnionLayout, TLAPS, FiniteSetTheorems, WellFoundedInduction

(* A finite set of numbers that is not empty has a greatest one: Max. *)
LEMMA MaxIs ==
  ASSUME NEW S \in SUBSET Nat, IsFiniteSet(S), S # {}
  PROVE  Max(S) \in S /\ \A n \in S : n <= Max(S)
<1> DEFINE Greatest(A, m) == m \in A /\ \A n \in A : n <= m
           R == StrictSubsetOrdering(S)
           U == {A \in SUBSET S : A # {} /\ ~\E m \in A : Greatest(A, m)}
<1>1. ASSUME U # {} PROVE FALSE
  <2>1. IsWellFoundedOn(R, SUBSET S)
    BY FS_StrictSubsetOrderingWellFounded, FS_FiniteSubsetsOfFinite
  <2>2. PICK A \in U : \A B \in U : <<B, A>> \notin R
    <3>1. U \subseteq SUBSET S
      OBVIOUS
    <3> HIDE DEF U, R
    <3> QED BY <1>1, <2>1, <3>1, WFMin
  <2>3. PICK a \in A : TRUE
    BY <2>2
  <2> DEFINE B == A \ {a}
  <2>4. <<B, A>> \in R
    BY <2>2, <2>3 DEF StrictSubsetOrdering
  <2>5. B \in SUBSET S /\ A \in SUBSET S /\ A = B \cup {a} /\ a \in Nat
    BY <2>2, <2>3
  <2>6. B = {} => Greatest(A, a)
    BY <2>5
  <2>7. \A b \in B : Greatest(B, b) => Greatest(A, b) \/ Greatest(A, a)
    BY <2>5
  <2>8. \E m \in A : Greatest(A, m)
    BY <2>2, <2>4, <2>5, <2>6, <2>7
  <2> QED BY <2>2, <2>8
<1>2. \E m \in S : Greatest(S, m)
  BY <1>1
<1> QED BY <1>2 DEF Max

(***************************************************************************)
(* The rank of an element of a set of positions.                           *)
(***************************************************************************)
LEMMA RankType ==
  ASSUME NEW n \in Nat, NEW S \in SUBSET (1..n), NEW i \in S
  PROVE  /\ Rank(S, i) \in Nat \ {0}
         /\ Rank(S, i) <= Cardinality(S)
         /\ IsFiniteSet(S) /\ Cardinality(S) \in Nat
<1> DEFINE below == S \cap (1..i)
<1>1. IsFiniteSet(S)
  <2>1. IsFiniteSet(1..n)
    BY FS_Interval
  <2> QED BY <2>1, FS_Subset
<1>2. below \in SUBSET S /\ i \in below
  OBVIOUS
<1>3. IsFiniteSet(below) /\ Cardinality(below) <= Cardinality(S)
  BY <1>1, <1>2, FS_Subset
<1>4. Cardinality(S) \in Nat /\ Cardinality(below) \in Nat
  BY <1>1, <1>3, FS_CardinalityType
<1>5. Cardinality(below) # 0
  BY <1>2, <1>3, FS_EmptySet
<1> QED BY <1>1, <1>3, <1>4, <1>5 DEF Rank

LEMMA RankStrict ==
  ASSUME NEW n \in Nat, NEW S \in SUBSET (1..n), NEW i \in S, NEW j \in S, i < j
  PROVE  Rank(S, i) < Rank(S, j)
<1> DEFINE low == S \cap (1..i)
           high == S \cap (1..j)
<1>1. IsFiniteSet(high) /\ IsFiniteSet(low)
  <2>1. IsFiniteSet(1..n)
    BY FS_Interval
  <2> QED BY <2>1, FS_Subset
<1>2. low \in SUBSET high /\ low # high
  <2>1. j \in high /\ j \notin low
    OBVIOUS
  <2> QED BY <2>1
<1>3. Cardinality(low) <= Cardinality(high) /\ Cardinality(low) # Cardinality(high)
  BY <1>1, <1>2, FS_Subset
<1>4. Cardinality(low) \in Nat /\ Cardinality(high) \in Nat
  BY <1>1, FS_CardinalityType
<1> QED BY <1>3, <1>4 DEF Rank

(* Two elements have two ranks, and only the first has rank 1. *)
LEMMA RankInjective ==
  ASSUME NEW n \in Nat, NEW S \in SUBSET (1..n), NEW i \in S, NEW j \in S
  PROVE  /\ Rank(S, i) = Rank(S, j) => i = j
         /\ Rank(S, i) = 1 => i <= j
<1>1. i \in Nat /\ j \in Nat
  OBVIOUS
<1>2. Rank(S, i) \in Nat \ {0}
  BY RankType
<1>3. Rank(S, j) \in Nat \ {0}
  BY RankType
<1>4. i < j => Rank(S, i) < Rank(S, j)
  BY RankStrict
<1>5. j < i => Rank(S, j) < Rank(S, i)
  BY RankStrict
<1> QED BY <1>1, <1>2, <1>3, <1>4, <1>5

(***************************************************************************)
(* A layout fits a member: it has the columns, and where the tag shares    *)
(* the first one the member's first pointer leaf allows it.                *)
(***************************************************************************)
IsLayout(l) ==
    /\ l.ptrs \in Nat /\ l.ptrsUsed \in Nat /\ l.scalars \in Nat /\ l.dedicatedTag \in BOOLEAN
    /\ l.ptrs = IF ~l.dedicatedTag /\ l.ptrsUsed = 0 THEN 1 ELSE l.ptrsUsed

Fits(l, leaves) ==
    /\ Cardinality(PtrLeaves(leaves)) <= l.ptrsUsed
    /\ Cardinality(ScalarLeaves(leaves)) <= l.scalars
    /\ ~l.dedicatedTag => \A first \in PtrLeaves(leaves) :
          (\A i \in PtrLeaves(leaves) : first <= i) => OverlaySafe(leaves[first])

LEMMA LeafSets ==
  ASSUME NEW T, NEW leaves \in Seq(T)
  PROVE  /\ PtrLeaves(leaves) \in SUBSET (1..Len(leaves))
         /\ ScalarLeaves(leaves) \in SUBSET (1..Len(leaves))
         /\ IsFiniteSet(PtrLeaves(leaves)) /\ Cardinality(PtrLeaves(leaves)) \in Nat
         /\ IsFiniteSet(ScalarLeaves(leaves)) /\ Cardinality(ScalarLeaves(leaves)) \in Nat
<1>1. DOMAIN leaves = 1..Len(leaves) /\ Len(leaves) \in Nat
  OBVIOUS
<1>2. PtrLeaves(leaves) \in SUBSET (1..Len(leaves)) /\ ScalarLeaves(leaves) \in SUBSET (1..Len(leaves))
  BY <1>1 DEF PtrLeaves, ScalarLeaves
<1>3. IsFiniteSet(1..Len(leaves))
  BY <1>1, FS_Interval
<1>4. IsFiniteSet(PtrLeaves(leaves)) /\ IsFiniteSet(ScalarLeaves(leaves))
  BY <1>2, <1>3, FS_Subset
<1> QED BY <1>2, <1>4, FS_CardinalityType

(* The most elements any of the sets has. *)
LEMMA MostIs ==
  ASSUME NEW n \in Nat \ {0}, NEW f, \A m \in 1..n : IsFiniteSet(f[m])
  PROVE  /\ Most({f[m] : m \in 1..n}) \in Nat
         /\ \A m \in 1..n : Cardinality(f[m]) <= Most({f[m2] : m2 \in 1..n})
<1> DEFINE sets == {f[m] : m \in 1..n}
           sizes == {Cardinality(S) : S \in sets}
<1>1. sizes = {Cardinality(f[m]) : m \in 1..n}
  OBVIOUS
<1>2. sizes \in SUBSET Nat
  BY <1>1, FS_CardinalityType
<1>3. IsFiniteSet(sizes)
  <2>1. IsFiniteSet(1..n)
    <3>1. n \in Int
      OBVIOUS
    <3> QED BY <3>1, FS_Interval
  <2> DEFINE g == [m \in 1..n |-> Cardinality(f[m])]
  <2>2. g \in Surjection(1..n, sizes)
    BY <1>1 DEF Surjection
  <2> HIDE DEF g, sizes
  <2> QED BY <2>1, <2>2, FS_Surjection
<1>4. sizes # {}
  BY <1>1
<1>5. Most(sets) = Max(sizes)
  BY DEF Most
<1> HIDE DEF sizes, sets
<1>6. Max(sizes) \in sizes /\ \A k \in sizes : k <= Max(sizes)
  BY <1>2, <1>3, <1>4, MaxIs
<1>7. Most(sets) \in Nat /\ \A m \in 1..n : Cardinality(f[m]) <= Most(sets)
  BY <1>1, <1>2, <1>5, <1>6
<1> QED BY <1>7 DEF sets

(***************************************************************************)
(* The layout of a union fits every member of it.                          *)
(***************************************************************************)
LEMMA LayoutFits ==
  ASSUME NEW T, NEW memberLeaves \in Seq(Seq(T)), memberLeaves # <<>>
  PROVE  /\ IsLayout(LayoutOf(memberLeaves))
         /\ \A m \in DOMAIN memberLeaves : Fits(LayoutOf(memberLeaves), memberLeaves[m])
<1> DEFINE n == Len(memberLeaves)
           ptrs == [m \in 1..n |-> PtrLeaves(memberLeaves[m])]
           scalars == [m \in 1..n |-> ScalarLeaves(memberLeaves[m])]
           used == Most({ptrs[m] : m \in 1..n})
           plain == Most({scalars[m] : m \in 1..n})
           own == NeedsOwnTag(memberLeaves)
<1>1. n \in Nat \ {0} /\ DOMAIN memberLeaves = 1..n /\ \A m \in 1..n : memberLeaves[m] \in Seq(T)
  OBVIOUS
<1>2. \A m \in 1..n : IsFiniteSet(ptrs[m]) /\ IsFiniteSet(scalars[m])
  BY <1>1, LeafSets
<1>3. LayoutOf(memberLeaves) = Layout(used, plain, own)
  BY <1>1 DEF LayoutOf
<1>4. used \in Nat /\ \A m \in 1..n : Cardinality(ptrs[m]) <= used
  <2> HIDE DEF ptrs, n
  <2> QED BY <1>1, <1>2, MostIs
<1>5. plain \in Nat /\ \A m \in 1..n : Cardinality(scalars[m]) <= plain
  <2> HIDE DEF scalars, n
  <2> QED BY <1>1, <1>2, MostIs
<1>6. own \in BOOLEAN
  BY DEF NeedsOwnTag
<1>7. ~own => \A m \in 1..n : \A first \in PtrLeaves(memberLeaves[m]) :
                (\A i \in PtrLeaves(memberLeaves[m]) : first <= i)
                   => OverlaySafe(memberLeaves[m][first])
  BY <1>1 DEF NeedsOwnTag
<1>8. \A m \in 1..n : ptrs[m] = PtrLeaves(memberLeaves[m]) /\ scalars[m] = ScalarLeaves(memberLeaves[m])
  OBVIOUS
<1> HIDE DEF used, plain, own, ptrs, scalars, n
<1>9. IsLayout(Layout(used, plain, own))
  BY <1>4, <1>5, <1>6 DEF IsLayout, Layout
<1>10. ASSUME NEW m \in 1..n PROVE Fits(Layout(used, plain, own), memberLeaves[m])
  BY <1>4, <1>5, <1>7, <1>8 DEF Fits, Layout
<1> QED BY <1>1, <1>3, <1>9, <1>10

(***************************************************************************)
(* Where the leaves of one member go.                                      *)
(***************************************************************************)
(* The tag shares a leaf's word just when that word is the first one, and  *)
(* then the leaf is a pointer with no tag bits of its own.  A pointer leaf *)
(* has a column the collector reads, a scalar leaf one it does not.        *)
LEMMA LeafSlot ==
  ASSUME NEW T, NEW leaves \in Seq(T), NEW l, IsLayout(l), Fits(l, leaves),
         NEW i \in DOMAIN leaves, NEW slot, slot = SlotMap(leaves, l)[i]
  PROVE  /\ slot.slot \in 1..Width(l)
         /\ slot.shares <=> slot.slot = 1
         /\ slot.shares \in BOOLEAN
         /\ slot.shares => OverlaySafe(leaves[i]) /\ i \in PtrLeaves(leaves)
         /\ SlotIsScannable(l, slot.slot) <=> i \in PtrLeaves(leaves)
         /\ i \in PtrLeaves(leaves) => slot.slot = PtrSlot(l, Rank(PtrLeaves(leaves), i))
         /\ i \notin PtrLeaves(leaves) => slot.slot = ScalarSlot(l, Rank(ScalarLeaves(leaves), i))
<1> DEFINE P == PtrLeaves(leaves)
           S == ScalarLeaves(leaves)
<1>1. P \in SUBSET (1..Len(leaves)) /\ S \in SUBSET (1..Len(leaves)) /\ Len(leaves) \in Nat
  BY LeafSets
<1>2. Cardinality(P) <= l.ptrsUsed /\ Cardinality(S) <= l.scalars
  BY DEF Fits
<1>3. CASE i \in P
  <2> DEFINE rank == Rank(P, i)
  <2>1. rank \in Nat \ {0} /\ rank <= Cardinality(P) /\ Cardinality(P) \in Nat
    <3> HIDE DEF P
    <3> QED BY <1>1, <1>3, RankType
  <2>2. slot = [slot |-> PtrSlot(l, rank), shares |-> PtrSlot(l, rank) = 1 /\ ~l.dedicatedTag]
    BY <1>3 DEF SlotMap
  <2>3. rank = 1 => \A j \in P : i <= j
    <3> HIDE DEF P
    <3> QED BY <1>1, <1>3, RankInjective
  <2>4. ~l.dedicatedTag /\ rank = 1 => OverlaySafe(leaves[i])
    BY <1>3, <2>3 DEF Fits
  <2> HIDE DEF rank, P, S
  <2>5. rank \in Nat \ {0} /\ rank <= l.ptrsUsed /\ l.ptrsUsed \in Nat
    BY <1>2, <2>1 DEF IsLayout
  <2>6. /\ l.dedicatedTag => PtrSlot(l, rank) = rank + 1 /\ PtrEnd(l) = l.ptrsUsed + 1
        /\ ~l.dedicatedTag => PtrSlot(l, rank) = rank /\ PtrEnd(l) = l.ptrsUsed
    BY <2>5 DEF IsLayout, PtrSlot, PtrEnd
  <2>7. PtrSlot(l, rank) \in 1..PtrEnd(l) /\ PtrSlot(l, rank) \in 1..Width(l)
    BY <2>5, <2>6 DEF IsLayout, Width
  <2>8. SlotIsScannable(l, PtrSlot(l, rank))
    BY <2>5, <2>6, <2>7 DEF SlotIsScannable
  <2>9. PtrSlot(l, rank) = 1 => ~l.dedicatedTag /\ rank = 1
    BY <2>5, <2>6
  <2> DEFINE at == PtrSlot(l, rank)
  <2> HIDE DEF at
  <2>10. slot.slot = at /\ (slot.shares <=> at = 1 /\ ~l.dedicatedTag) /\ slot.shares \in BOOLEAN
    <3> DEFINE alone == at = 1 /\ ~l.dedicatedTag
    <3>1. slot = [slot |-> at, shares |-> alone]
      BY <2>2 DEF at
    <3>2. alone \in BOOLEAN
      OBVIOUS
    <3> HIDE DEF alone
    <3>3. slot.slot = at /\ slot.shares = alone
      BY <3>1
    <3> QED BY <3>2, <3>3 DEF alone
  <2>11. slot.shares <=> at = 1
    BY <2>9, <2>10 DEF at
  <2>12. slot.shares => OverlaySafe(leaves[i])
    BY <2>4, <2>9, <2>10 DEF at
  <2> QED BY <1>3, <2>7, <2>8, <2>10, <2>11, <2>12 DEF P, rank, at
<1>4. CASE i \notin P
  <2> DEFINE rank == Rank(S, i)
  <2>1. i \in S
    BY <1>4 DEF ScalarLeaves
  <2>2. rank \in Nat \ {0} /\ rank <= Cardinality(S) /\ Cardinality(S) \in Nat
    <3> HIDE DEF S
    <3> QED BY <1>1, <2>1, RankType
  <2>3. slot = [slot |-> ScalarSlot(l, rank), shares |-> FALSE]
    BY <1>4 DEF SlotMap
  <2> HIDE DEF rank, P, S
  <2>4. rank \in Nat \ {0} /\ rank <= l.scalars /\ l.scalars \in Nat
    BY <1>2, <2>2 DEF IsLayout
  <2>5. PtrEnd(l) \in Nat \ {0}
    BY DEF IsLayout, PtrEnd
  <2>6. ScalarSlot(l, rank) \in 1..Width(l) /\ ScalarSlot(l, rank) > PtrEnd(l)
    BY <2>4, <2>5 DEF ScalarSlot, Width
  <2>7. ScalarSlot(l, rank) # 1 /\ ~SlotIsScannable(l, ScalarSlot(l, rank))
    BY <2>5, <2>6 DEF SlotIsScannable
  <2> QED BY <1>4, <2>3, <2>6, <2>7 DEF P, rank, S
<1> QED BY <1>3, <1>4

(* Two leaves of a member never share a column. *)
LEMMA SlotsApart ==
  ASSUME NEW T, NEW leaves \in Seq(T), NEW l, IsLayout(l), Fits(l, leaves),
         NEW i \in DOMAIN leaves, NEW j \in DOMAIN leaves,
         SlotMap(leaves, l)[i].slot = SlotMap(leaves, l)[j].slot
  PROVE  i = j
<1> DEFINE P == PtrLeaves(leaves)
           S == ScalarLeaves(leaves)
<1>1. P \in SUBSET (1..Len(leaves)) /\ S \in SUBSET (1..Len(leaves)) /\ Len(leaves) \in Nat
  BY LeafSets
<1> DEFINE here == SlotMap(leaves, l)[i]
           there == SlotMap(leaves, l)[j]
<1> HIDE DEF here, there
<1>2. /\ SlotIsScannable(l, here.slot) <=> i \in P
      /\ i \in P => here.slot = PtrSlot(l, Rank(P, i))
      /\ i \notin P => here.slot = ScalarSlot(l, Rank(S, i))
  BY LeafSlot DEF here
<1>3. /\ SlotIsScannable(l, there.slot) <=> j \in P
      /\ j \in P => there.slot = PtrSlot(l, Rank(P, j))
      /\ j \notin P => there.slot = ScalarSlot(l, Rank(S, j))
  BY LeafSlot DEF there
<1>4. here.slot = there.slot
  BY DEF here, there
<1>5. i \in P <=> j \in P
  BY <1>2, <1>3, <1>4
<1>6. CASE i \in P
  <2>1. PtrSlot(l, Rank(P, i)) = PtrSlot(l, Rank(P, j))
    BY <1>2, <1>3, <1>4, <1>5, <1>6
  <2> HIDE DEF P
  <2>2. Rank(P, i) \in Nat
    BY <1>1, <1>6, RankType
  <2>3. Rank(P, j) \in Nat
    BY <1>1, <1>5, <1>6, RankType
  <2>4. Rank(P, i) = Rank(P, j)
    BY <2>1, <2>2, <2>3 DEF PtrSlot
  <2> QED BY <1>1, <1>5, <1>6, <2>4, RankInjective
<1>7. CASE i \notin P
  <2>1. ScalarSlot(l, Rank(S, i)) = ScalarSlot(l, Rank(S, j))
    BY <1>2, <1>3, <1>4, <1>5, <1>7
  <2>2. i \in S /\ j \in S
    BY <1>5, <1>7 DEF ScalarLeaves
  <2> HIDE DEF P, S
  <2>3. Rank(S, i) \in Nat
    BY <1>1, <2>2, RankType
  <2>4. Rank(S, j) \in Nat
    BY <1>1, <2>2, RankType
  <2>5. PtrEnd(l) \in Nat
    BY DEF IsLayout, PtrEnd
  <2>6. Rank(S, i) = Rank(S, j)
    BY <2>1, <2>3, <2>4, <2>5 DEF ScalarSlot
  <2> QED BY <1>1, <2>2, <2>6, RankInjective
<1> QED BY <1>6, <1>7

(***************************************************************************)
(* What packing writes.                                                    *)
(***************************************************************************)
(* A leaf's column holds its word, with the tag in it where it is shared;  *)
(* a column no leaf of the member has holds 0, or the tag if it is the     *)
(* first.                                                                  *)
LEMMA PackedLeaf ==
  ASSUME NEW T, NEW leaves \in Seq(T), NEW l, IsLayout(l), Fits(l, leaves),
         NEW i \in DOMAIN leaves, NEW slot, slot = SlotMap(leaves, l)[i],
         NEW tag, NEW vals, NEW ws, ws = PackInto(l, leaves, tag, vals)
  PROVE  /\ slot.shares => ws[slot.slot] = Overlay(vals[i], tag)
         /\ ~slot.shares => ws[slot.slot] = vals[i]
<1> DEFINE map == SlotMap(leaves, l)
           At(s) == {k \in DOMAIN map : map[k].slot = s}
           Word(k) == IF map[k].shares THEN Overlay(vals[k], tag) ELSE vals[k]
<1>1. DOMAIN map = DOMAIN leaves
  BY DEF SlotMap
<1>2. slot.slot \in 1..Width(l)
  BY LeafSlot
<1>3. map[i] = slot
  OBVIOUS
<1>4. \A k \in DOMAIN leaves : map[k].slot = map[i].slot => k = i
  BY SlotsApart
<1>5. ws = [s \in 1..Width(l) |-> IF At(s) # {} THEN Word(CHOOSE k \in At(s) : TRUE)
                               ELSE IF s = 1 THEN tag ELSE 0]
  BY DEF PackInto, Filled
<1> HIDE DEF map
<1>6. At(slot.slot) = {i}
  BY <1>1, <1>3, <1>4
<1>7. (CHOOSE k \in At(slot.slot) : TRUE) = i
  BY <1>6
<1>8. ws[slot.slot] = Word(i)
  BY <1>2, <1>5, <1>6, <1>7
<1> QED BY <1>3, <1>8

LEMMA PackedFree ==
  ASSUME NEW leaves, NEW l, NEW tag, NEW vals, NEW s \in 1..Width(l),
         \A i \in DOMAIN leaves : SlotMap(leaves, l)[i].slot # s
  PROVE  PackInto(l, leaves, tag, vals)[s] = IF s = 1 THEN tag ELSE 0
<1> DEFINE map == SlotMap(leaves, l)
           At(c) == {k \in DOMAIN map : map[k].slot = c}
           Word(k) == IF map[k].shares THEN Overlay(vals[k], tag) ELSE vals[k]
<1>1. DOMAIN map = DOMAIN leaves
  BY DEF SlotMap
<1>2. PackInto(l, leaves, tag, vals)
        = [c \in 1..Width(l) |-> IF At(c) # {} THEN Word(CHOOSE k \in At(c) : TRUE)
                                 ELSE IF c = 1 THEN tag ELSE 0]
  BY DEF PackInto, Filled
<1>3. \A k \in DOMAIN map : map[k].slot # s
  BY <1>1
<1> HIDE DEF map
<1>4. At(s) = {}
  BY <1>3
<1> QED BY <1>2, <1>4

(***************************************************************************)
(* The words of a member's leaves: numbers, and a pointer that has no tag  *)
(* bits of its own has its low bits zero.                                  *)
(***************************************************************************)
LeafWords(leaves) ==
    {vals \in [DOMAIN leaves -> Nat] :
        \A i \in DOMAIN leaves : OverlaySafe(leaves[i]) => Low(vals[i]) = 0}
InlineTags == 1..(TagImmediate - 1)

(* The tag rides in the spare bits: it is read back, and so is the word.   *)
LEMMA OverlaidWord ==
  ASSUME NEW w \in Nat, Low(w) = 0, NEW tag \in InlineTags
  PROVE  /\ Low(Overlay(w, tag)) = tag
         /\ Masked(Overlay(w, tag)) = w /\ Masked(w) = w
         /\ IsHeapPtr(Overlay(w, tag)) <=> IsHeapPtr(w)
<1>1. tag \in 1..6
  BY DEF InlineTags, TagImmediate
<1>2. Low(Overlay(w, tag)) = tag /\ Masked(Overlay(w, tag)) = w /\ Masked(w) = w
  BY <1>1 DEF Low, Masked, TagBits, Overlay
<1> QED BY <1>1, <1>2 DEF IsHeapPtr, TagImmediate

(* A bare tag, like an empty column, is not followed. *)
LEMMA BareTag ==
  ASSUME NEW tag \in InlineTags
  PROVE  Low(tag) = tag /\ ~IsHeapPtr(tag) /\ ~IsHeapPtr(0)
<1>1. tag \in 1..6
  BY DEF InlineTags, TagImmediate
<1>2. Low(tag) = tag /\ Masked(tag) = 0 /\ Masked(0) = 0
  BY <1>1 DEF Low, Masked, TagBits
<1> QED BY <1>2 DEF IsHeapPtr

(* The member's own layout: what the lemmas above need of it. *)
LEMMA MemberFits ==
  ASSUME NEW T, NEW memberLeaves \in Seq(Seq(T)), NEW m \in DOMAIN memberLeaves
  PROVE  /\ memberLeaves[m] \in Seq(T)
         /\ IsLayout(LayoutOf(memberLeaves))
         /\ Fits(LayoutOf(memberLeaves), memberLeaves[m])
<1>1. memberLeaves # <<>> /\ memberLeaves[m] \in Seq(T)
  OBVIOUS
<1> QED BY <1>1, LayoutFits

(***************************************************************************)
(* Whatever the members of an inline union flatten to, unpacking a member  *)
(* gives back exactly the words it was packed from: no leaf overwrites     *)
(* another and the tag is taken off the one word it shares                 *)
(* (pack_union_member, unpack_union_member and their runtime analogs).     *)
(***************************************************************************)
THEOREM UnpackReadsPack ==
  ASSUME NEW T, NEW memberLeaves \in Seq(Seq(T)), NEW m \in DOMAIN memberLeaves,
         NEW tag \in InlineTags, NEW vals \in LeafWords(memberLeaves[m])
  PROVE  Unpack(memberLeaves, m, Pack(memberLeaves, m, tag, vals)) = vals
<1> DEFINE l == LayoutOf(memberLeaves)
           leaves == memberLeaves[m]
           map == SlotMap(leaves, l)
           ws == PackInto(l, leaves, tag, vals)
<1>1. leaves \in Seq(T) /\ IsLayout(l) /\ Fits(l, leaves)
  BY MemberFits
<1>2. Unpack(memberLeaves, m, Pack(memberLeaves, m, tag, vals))
        = [i \in DOMAIN map |-> IF map[i].shares THEN Masked(ws[map[i].slot]) ELSE ws[map[i].slot]]
  BY DEF Unpack, Pack, ReadColumns
<1>3. DOMAIN map = DOMAIN leaves
  BY DEF SlotMap
<1>4. vals \in [DOMAIN leaves -> Nat]
      /\ \A i \in DOMAIN leaves : OverlaySafe(leaves[i]) => Low(vals[i]) = 0
  BY DEF LeafWords
<1> HIDE DEF l, leaves
<1>5. ASSUME NEW i \in DOMAIN leaves
      PROVE  (IF map[i].shares THEN Masked(ws[map[i].slot]) ELSE ws[map[i].slot]) = vals[i]
  <2> DEFINE slot == map[i]
  <2>1. slot.shares => OverlaySafe(leaves[i])
    BY <1>1, LeafSlot
  <2>2. /\ slot.shares => ws[slot.slot] = Overlay(vals[i], tag)
        /\ ~slot.shares => ws[slot.slot] = vals[i]
    <3> HIDE DEF slot, ws
    <3>1. slot = SlotMap(leaves, l)[i] /\ ws = PackInto(l, leaves, tag, vals)
      BY DEF slot, ws
    <3> QED BY <1>1, <3>1, PackedLeaf
  <2>3. vals[i] \in Nat /\ (slot.shares => Low(vals[i]) = 0)
    BY <1>4, <2>1
  <2> HIDE DEF slot, ws, map
  <2>4. slot.shares => Masked(Overlay(vals[i], tag)) = vals[i]
    <3> SUFFICES ASSUME slot.shares PROVE Masked(Overlay(vals[i], tag)) = vals[i]
      OBVIOUS
    <3>1. vals[i] \in Nat /\ Low(vals[i]) = 0
      BY <2>3
    <3> QED BY <3>1, OverlaidWord
  <2> QED BY <2>2, <2>4 DEF slot
<1> HIDE DEF map, ws
<1>6. [i \in DOMAIN map |-> IF map[i].shares THEN Masked(ws[map[i].slot]) ELSE ws[map[i].slot]] = vals
  BY <1>3, <1>4, <1>5
<1> QED BY <1>2, <1>6

(* The first word has the tag in its low bits. *)
LEMMA FirstWord ==
  ASSUME NEW T, NEW leaves \in Seq(T), NEW l, IsLayout(l), Fits(l, leaves),
         NEW tag \in InlineTags, NEW vals \in LeafWords(leaves)
  PROVE  /\ 1 \in 1..Width(l)
         /\ Low(PackInto(l, leaves, tag, vals)[1]) = tag
<1> DEFINE map == SlotMap(leaves, l)
<1>1. 1 \in 1..Width(l)
  <2>1. PtrEnd(l) \in Nat \ {0} /\ l.scalars \in Nat
    BY DEF IsLayout, PtrEnd
  <2> QED BY <2>1 DEF Width
<1>2. CASE \E i \in DOMAIN leaves : map[i].slot = 1
  <2>1. PICK i \in DOMAIN leaves : map[i].slot = 1
    BY <1>2
  <2> DEFINE slot == map[i]
  <2>2. slot.shares /\ OverlaySafe(leaves[i])
    BY <2>1, LeafSlot
  <2> DEFINE ws == PackInto(l, leaves, tag, vals)
  <2>3. ws[slot.slot] = Overlay(vals[i], tag)
    <3> HIDE DEF slot, ws
    <3>1. slot = SlotMap(leaves, l)[i] /\ ws = PackInto(l, leaves, tag, vals)
      BY DEF slot, ws
    <3> QED BY <2>2, <3>1, PackedLeaf
  <2>4. vals[i] \in Nat /\ Low(vals[i]) = 0
    BY <2>2 DEF LeafWords
  <2>5. Low(Overlay(vals[i], tag)) = tag
    BY <2>4, OverlaidWord
  <2> QED BY <1>1, <2>1, <2>3, <2>5
<1>3. CASE \A i \in DOMAIN leaves : map[i].slot # 1
  <2>1. PackInto(l, leaves, tag, vals)[1] = tag
    BY <1>1, <1>3, PackedFree
  <2>2. Low(tag) = tag
    BY BareTag
  <2> QED BY <1>1, <2>1, <2>2
<1> QED BY <1>2, <1>3

(***************************************************************************)
(* A test of the first word tells the members of an inline union apart:    *)
(* it holds of the member that was packed and of no other                  *)
(* (emit_inline_tag_test), for as many members as there are tags.          *)
(***************************************************************************)
THEOREM TagTellsMembers ==
  ASSUME NEW T, NEW memberLeaves \in Seq(Seq(T)), Len(memberLeaves) <= TagImmediate - 1,
         NEW m \in DOMAIN memberLeaves, NEW other \in DOMAIN memberLeaves,
         NEW vals \in LeafWords(memberLeaves[m])
  PROVE  InlineTagTest(Pack(memberLeaves, m, MemberTag(m), vals), other) <=> other = m
<1> DEFINE n == Len(memberLeaves)
<1>1. m \in InlineTags /\ m \in Nat /\ other \in Nat
  <2>1. n \in Nat /\ DOMAIN memberLeaves = 1..n /\ n <= 6
    BY DEF TagImmediate
  <2>2. m \in 1..n /\ other \in 1..n
    BY <2>1
  <2>3. InlineTags = 1..6
    BY DEF InlineTags, TagImmediate
  <2> HIDE DEF n
  <2>4. \A k \in 1..n : k \in 1..6 /\ k \in Nat
    BY <2>1
  <2> QED BY <2>2, <2>3, <2>4
<1>2. memberLeaves[m] \in Seq(T) /\ IsLayout(LayoutOf(memberLeaves))
      /\ Fits(LayoutOf(memberLeaves), memberLeaves[m])
  BY MemberFits
<1>3. Low(PackInto(LayoutOf(memberLeaves), memberLeaves[m], m, vals)[1]) = m
  BY <1>1, <1>2, FirstWord
<1> QED BY <1>3 DEF InlineTagTest, Pack, MemberTag

(* The collector sees a pointer leaf in its column as it is. *)
LEMMA LeafSeen ==
  ASSUME NEW T, NEW leaves \in Seq(T), NEW l, IsLayout(l), Fits(l, leaves),
         NEW tag \in InlineTags, NEW vals \in LeafWords(leaves), NEW i \in DOMAIN leaves
  PROVE  LET s == SlotMap(leaves, l)[i].slot
             ws == PackInto(l, leaves, tag, vals)
         IN  /\ s \in 1..Width(l)
             /\ SlotIsScannable(l, s) <=> i \in PtrLeaves(leaves)
             /\ IsHeapPtr(ws[s]) <=> IsHeapPtr(vals[i])
             /\ Masked(ws[s]) = Masked(vals[i])
<1> DEFINE slot == SlotMap(leaves, l)[i]
           ws == PackInto(l, leaves, tag, vals)
<1>1. slot = SlotMap(leaves, l)[i] /\ ws = PackInto(l, leaves, tag, vals)
  OBVIOUS
<1> HIDE DEF slot, ws
<1>2. /\ slot.slot \in 1..Width(l)
      /\ SlotIsScannable(l, slot.slot) <=> i \in PtrLeaves(leaves)
      /\ slot.shares => OverlaySafe(leaves[i])
  BY <1>1, LeafSlot
<1>3. /\ slot.shares => ws[slot.slot] = Overlay(vals[i], tag)
      /\ ~slot.shares => ws[slot.slot] = vals[i]
  BY <1>1, PackedLeaf
<1>4. vals[i] \in Nat /\ (slot.shares => Low(vals[i]) = 0)
  BY <1>2 DEF LeafWords
<1>5. CASE slot.shares
  <2>1. /\ Masked(Overlay(vals[i], tag)) = Masked(vals[i])
        /\ IsHeapPtr(Overlay(vals[i], tag)) <=> IsHeapPtr(vals[i])
    BY <1>4, <1>5, OverlaidWord
  <2> QED BY <1>1, <1>2, <1>3, <1>5, <2>1
<1>6. CASE ~slot.shares
  BY <1>1, <1>2, <1>3, <1>6
<1> QED BY <1>5, <1>6

(***************************************************************************)
(* Through the columns an inline union flattens to, the collector follows  *)
(* exactly what it would have followed through the member's own pointer    *)
(* leaves: the shared tag hides no object, no number or bare tag is taken  *)
(* for one, and no pointer is in a column that is not scanned              *)
(* (union_columns, slot_is_scannable, gc::is_heap_ptr).                    *)
(***************************************************************************)
THEOREM ColumnsLeadToPointers ==
  ASSUME NEW T, NEW memberLeaves \in Seq(Seq(T)), NEW m \in DOMAIN memberLeaves,
         NEW tag \in InlineTags, NEW vals \in LeafWords(memberLeaves[m]),
         NEW unionTy, IsUnion(unionTy)
  PROVE  LET columns == UnionColumns(LayoutOf(memberLeaves), unionTy)
             ws == Pack(memberLeaves, m, tag, vals)
             leaves == memberLeaves[m]
         IN  {Masked(ws[s]) : s \in {c \in DOMAIN columns : IsHeapTy(columns[c]) /\ IsHeapPtr(ws[c])}}
               = {Masked(vals[i]) : i \in {k \in PtrLeaves(leaves) : IsHeapPtr(vals[k])}}
<1> DEFINE l == LayoutOf(memberLeaves)
           leaves == memberLeaves[m]
           columns == UnionColumns(l, unionTy)
           map == SlotMap(leaves, l)
           ws == PackInto(l, leaves, tag, vals)
           scanned == {c \in DOMAIN columns : IsHeapTy(columns[c]) /\ IsHeapPtr(ws[c])}
           pointers == {k \in PtrLeaves(leaves) : IsHeapPtr(vals[k])}
<1>1. leaves \in Seq(T) /\ IsLayout(l) /\ Fits(l, leaves)
  BY MemberFits
<1>2. Pack(memberLeaves, m, tag, vals) = ws
  BY DEF Pack
<1>3. /\ DOMAIN columns = 1..Width(l)
      /\ \A c \in 1..Width(l) : IsHeapTy(columns[c]) <=> SlotIsScannable(l, c)
  <2>1. IsHeapTy(unionTy) /\ ~IsHeapTy(IntTy)
    BY DEF IsHeapTy, IntTy, StrTy, Prim, IsUnion, IsList, IsDict
  <2> HIDE DEF l
  <2> QED BY <2>1 DEF UnionColumns
<1>4. vals \in LeafWords(leaves)
  OBVIOUS
<1>5. PtrLeaves(leaves) \subseteq DOMAIN leaves
  BY DEF PtrLeaves
<1> HIDE DEF l, leaves, columns, map, ws
<1>6. ASSUME NEW i \in DOMAIN leaves
      PROVE  /\ map[i].slot \in 1..Width(l)
             /\ SlotIsScannable(l, map[i].slot) <=> i \in PtrLeaves(leaves)
             /\ IsHeapPtr(ws[map[i].slot]) <=> IsHeapPtr(vals[i])
             /\ Masked(ws[map[i].slot]) = Masked(vals[i])
  BY <1>1, <1>4, LeafSeen DEF map, ws
<1>7. ASSUME NEW c \in 1..Width(l), \A i \in DOMAIN leaves : map[i].slot # c
      PROVE  ~IsHeapPtr(ws[c])
  <2>1. ws[c] = IF c = 1 THEN tag ELSE 0
    BY <1>7, PackedFree DEF ws, map
  <2>2. ~IsHeapPtr(tag) /\ ~IsHeapPtr(0)
    BY BareTag
  <2> QED BY <2>1, <2>2
<1>8. ASSUME NEW c \in scanned PROVE \E i \in pointers : Masked(ws[c]) = Masked(vals[i])
  <2>1. c \in 1..Width(l) /\ SlotIsScannable(l, c) /\ IsHeapPtr(ws[c])
    BY <1>3
  <2>2. PICK i \in DOMAIN leaves : map[i].slot = c
    BY <1>7, <2>1
  <2> QED BY <1>6, <2>1, <2>2
<1>9. ASSUME NEW i \in pointers PROVE \E c \in scanned : Masked(ws[c]) = Masked(vals[i])
  <2>1. i \in DOMAIN leaves /\ i \in PtrLeaves(leaves) /\ IsHeapPtr(vals[i])
    BY <1>5
  <2>2. map[i].slot \in scanned
    BY <1>3, <1>6, <2>1
  <2> QED BY <1>6, <2>1, <2>2
<1>10. {Masked(ws[s]) : s \in scanned} = {Masked(vals[i]) : i \in pointers}
  <2> HIDE DEF scanned, pointers
  <2> QED BY <1>8, <1>9
<1> QED BY <1>2, <1>10 DEF l, leaves, columns
=============================================================================
