---------------------------- MODULE UnionLayout ----------------------------
(***************************************************************************)
(* The column layout of an inline union (codegen/mod.rs, UnionLayout and   *)
(* the functions over flattened leaf lists).  A member of the union        *)
(* contributes a list of leaves; every leaf is a pointer leaf or a scalar  *)
(* leaf by its static type.  The columns are                               *)
(*                                                                         *)
(*     tag+ptr_0 | ptr_1 .. ptr_{P-1} | scalar_0 .. scalar_{S-1}           *)
(*                                                                         *)
(* and the tag gets a column of its own, in front, when it could not share *)
(* the word of some member's first pointer leaf.                           *)
(*                                                                         *)
(* A machine word is a natural number; its low three bits are the tag      *)
(* bits, and an object's address has them zero.  Columns are numbered from *)
(* 1 here and from 0 in the code.                                          *)
(***************************************************************************)
EXTENDS Naturals, Sequences, FiniteSets, FiniteSetsExt

(***************************************************************************)
(* A type is a record [kind, name, args]: a primitive has only its kind, a *)
(* Named type its name and arguments, a union its members in args.         *)
(***************************************************************************)
Prim(k) == [kind |-> k, name |-> "", args |-> <<>>]
Named(n) == [kind |-> "Named", name |-> n, args |-> <<>>]
ListOf(t) == [kind |-> "Named", name |-> "List", args |-> <<t>>]
RangeOf(t) == [kind |-> "Named", name |-> "Range", args |-> <<t>>]
DictOf(k, v) == [kind |-> "Named", name |-> "Dict", args |-> <<k, v>>]
UnionOf(ms) == [kind |-> "Union", name |-> "", args |-> ms]

IntTy == Prim("Int")
FloatTy == Prim("Float")
BoolTy == Prim("Bool")
StrTy == Prim("Str")
NoneTy == Prim("None")
NeverTy == Prim("Never")

IsUnion(t) == t.kind = "Union"
IsList(t) == t.name = "List"
IsDict(t) == t.name = "Dict"
IsRange(t) == t.name = "Range"      \* a struct of two fields in every other respect
IsStruct(t) == t.kind = "Named" /\ ~IsList(t) /\ ~IsDict(t)

(***************************************************************************)
(* A word of this type is a column the collector reads; and a word of this *)
(* type has no tag bits of its own, so a union may put its tag there.      *)
(***************************************************************************)
IsHeapTy(t) == t = StrTy \/ IsUnion(t) \/ IsList(t) \/ IsDict(t)
OverlaySafe(t) == t = StrTy \/ IsList(t) \/ IsDict(t)

-----------------------------------------------------------------------------
TagBits == 8
TagImmediate == 7
Low(w) == w % TagBits
Masked(w) == w - Low(w)
Overlay(w, tag) == w + tag          \* bor: the word's own tag bits are zero

(* The collector follows a word unless it is null, a bare tag or an immediate. *)
IsHeapPtr(w) == Masked(w) # 0 /\ Low(w) # TagImmediate

MemberTag(index) == index           \* index 1.. here is index + 1 of the code
ImmediateVariant(tag) == tag * TagBits + TagImmediate

-----------------------------------------------------------------------------
(* The positions of a member's pointer leaves and of its scalar leaves. *)
PtrLeaves(leaves) == {i \in DOMAIN leaves : IsHeapTy(leaves[i])}
ScalarLeaves(leaves) == DOMAIN leaves \ PtrLeaves(leaves)
Rank(S, i) == Cardinality(S \cap (1..i))    \* i is the how-manieth of S

(* memberLeaves[m] is the list of leaf types member m flattens to. *)
NeedsOwnTag(memberLeaves) ==
    \E m \in DOMAIN memberLeaves : \E first \in PtrLeaves(memberLeaves[m]) :
        /\ \A i \in PtrLeaves(memberLeaves[m]) : first <= i
        /\ ~OverlaySafe(memberLeaves[m][first])
Most(sets) == Max({Cardinality(S) : S \in sets})
Layout(used, scalars, dedicated) ==
    [ptrs |-> IF ~dedicated /\ used = 0 THEN 1 ELSE used,
     ptrsUsed |-> used,
     scalars |-> scalars,
     dedicatedTag |-> dedicated]

LayoutOf(memberLeaves) ==
    LET members == DOMAIN memberLeaves
    IN  Layout(Most({PtrLeaves(memberLeaves[m]) : m \in members}),
               Most({ScalarLeaves(memberLeaves[m]) : m \in members}),
               NeedsOwnTag(memberLeaves))

PtrEnd(l) == IF l.dedicatedTag THEN l.ptrs + 1 ELSE l.ptrs
Width(l) == PtrEnd(l) + l.scalars
PtrSlot(l, i) == IF l.dedicatedTag THEN i + 1 ELSE i
ScalarSlot(l, i) == PtrEnd(l) + i

SlotIsScannable(l, s) ==
    /\ s <= PtrEnd(l)
    /\ IF l.dedicatedTag THEN s > 1 ELSE l.ptrsUsed > 0

(* Mutant: every column of the union is one the collector reads. *)
UnionColumnsAllScanned(l, unionTy) == [s \in 1..Width(l) |-> unionTy]

(* The column types the union flattens to inside a struct, a list or a frame. *)
UnionColumns(l, unionTy) ==
    [s \in 1..Width(l) |-> IF SlotIsScannable(l, s) THEN unionTy ELSE IntTy]

(* For each leaf of a member its column, and whether the tag is in that word. *)
SlotMap(leaves, l) ==
    [i \in DOMAIN leaves |->
        IF i \in PtrLeaves(leaves)
        THEN LET slot == PtrSlot(l, Rank(PtrLeaves(leaves), i))
             IN  [slot |-> slot, shares |-> slot = 1 /\ ~l.dedicatedTag]
        ELSE [slot |-> ScalarSlot(l, Rank(ScalarLeaves(leaves), i)), shares |-> FALSE]]

(* Write a member's leaf words into the columns; a free column is 0. *)
Filled(width, map, tag, vals) ==
    LET At(s) == {i \in DOMAIN map : map[i].slot = s}
        Word(i) == IF map[i].shares THEN Overlay(vals[i], tag) ELSE vals[i]
    IN  [s \in 1..width |->
            IF At(s) # {} THEN Word(CHOOSE i \in At(s) : TRUE)
            ELSE IF s = 1 THEN tag ELSE 0]

PackInto(l, leaves, tag, vals) == Filled(Width(l), SlotMap(leaves, l), tag, vals)
Pack(memberLeaves, index, tag, vals) ==
    PackInto(LayoutOf(memberLeaves), memberLeaves[index], tag, vals)

(* Read them back, the tag masked off where it shared the word. *)
ReadColumns(map, slots) ==
    [i \in DOMAIN map |->
        IF map[i].shares THEN Masked(slots[map[i].slot]) ELSE slots[map[i].slot]]
Unpack(memberLeaves, index, slots) ==
    ReadColumns(SlotMap(memberLeaves[index], LayoutOf(memberLeaves)), slots)

InlineTagTest(slots, index) == Low(slots[1]) = MemberTag(index)
=============================================================================
