----------------------------- MODULE UnionTypes -----------------------------
(***************************************************************************)
(* Types as the checker and the code generator see them: the canonical     *)
(* form of a union (Type::normalize), which gives every member its number, *)
(* and the flat columns a value of a type occupies (struct_fields).        *)
(***************************************************************************)
EXTENDS Naturals, Sequences, FiniteSets, UnionLayout
LOCAL INSTANCE SequencesExt

CONSTANTS
    Structs,        \* name -> its fields' types, in declared order
    Unions,         \* name -> [common, variants]: how many leading fields
                    \* all its variants share, and the variants' struct
                    \* names in declared order
    NameRank,       \* name -> its place in alphabetical order
    MaxInline       \* MAX_INLINE_UNION_MEMBERS

ASSUME UnionTypesAssumption ==
    /\ MaxInline \in 1..(TagImmediate - 1)      \* tags 1..6 fit under 7
    /\ \A u \in DOMAIN Unions : \A i \in DOMAIN Unions[u].variants :
          Unions[u].variants[i] \in DOMAIN Structs
    /\ DOMAIN Structs \subseteq DOMAIN NameRank

-----------------------------------------------------------------------------
(* Ord for Type: the numbered kinds, then a Named type's name and arguments. *)
KindRank(t) ==
    CASE t.kind = "Int" -> 0 [] t.kind = "Float" -> 1 [] t.kind = "Bool" -> 2 [] t.kind = "Str" -> 3
      [] t.kind = "None" -> 4 [] t.kind = "Never" -> 5 [] t.kind = "Named" -> 6
      [] t.kind = "Union" -> 7

RECURSIVE Before(_, _), BeforeSeq(_, _)
Before(s, t) ==
    \/ KindRank(s) < KindRank(t)
    \/ /\ s.kind = t.kind /\ s.kind = "Named"
       /\ \/ NameRank[s.name] < NameRank[t.name]
          \/ s.name = t.name /\ BeforeSeq(s.args, t.args)
    \/ s.kind = t.kind /\ s.kind = "Union" /\ BeforeSeq(s.args, t.args)

BeforeSeq(ss, ts) ==
    /\ ts # <<>>
    /\ \/ ss = <<>>
       \/ Before(Head(ss), Head(ts))
       \/ Head(ss) = Head(ts) /\ BeforeSeq(Tail(ss), Tail(ts))

Sorted(S) == [i \in 1..Cardinality(S) |->
                 CHOOSE t \in S : Cardinality({u \in S : Before(u, t)}) = i - 1]

(* Mutant: a union written as a member of another is kept as one member. *)
NormalizeShallow(t) == IF ~IsUnion(t) THEN t ELSE UnionOf(Sorted(ToSet(t.args)))

Flattened(t) == IF IsUnion(t) THEN ToSet(t.args) ELSE {t}
WithoutNever(S) == IF Cardinality(S) > 1 THEN S \ {NeverTy} ELSE S
UnionOfMembers(members) ==
    CASE members = <<>> -> NoneTy
      [] Len(members) = 1 -> Head(members)
      [] OTHER -> UnionOf(members)

RECURSIVE Normalize(_)
Normalize(t) ==
    IF ~IsUnion(t) THEN t
    ELSE UnionOfMembers(Sorted(WithoutNever(
             UNION {Flattened(Normalize(t.args[i])) : i \in DOMAIN t.args})))

IndexIn(members, t) == CHOOSE i \in DOMAIN members : members[i] = t

-----------------------------------------------------------------------------
(* A nominal union's type, the union a type is the name of, its variants'  *)
(* declared numbers.                                                       *)
NominalTy == [u \in DOMAIN Unions |->
    Normalize(UnionOf([i \in DOMAIN Unions[u].variants |-> Named(Unions[u].variants[i])]))]

IsNominal(t) == \E u \in DOMAIN Unions : t = NominalTy[u]
ResolveUnion(t) == CHOOSE u \in DOMAIN Unions : t = NominalTy[u]

IsVariantTy(t) == \E u \in DOMAIN Unions : t.name \in ToSet(Unions[u].variants)
OwnerOf(t) == CHOOSE u \in DOMAIN Unions : t.name \in ToSet(Unions[u].variants)

DeclIndex(u, t) == IndexIn(Unions[u].variants, t.name) - 1     \* from 0, as in the code

HasNoFields(t) == IsStruct(t) /\ Structs[t.name] = <<>>

-----------------------------------------------------------------------------
(* Does a union contain itself other than behind a list or a boxed union? *)
RECURSIVE Reaches(_, _, _)
Reaches(target, t, seen) ==
    \/ /\ IsStruct(t) /\ t \notin seen
       /\ \E i \in DOMAIN Structs[t.name] :
             Reaches(target, Structs[t.name][i], seen \cup {t})
    \/ /\ IsUnion(t)
       /\ \/ t.args = target
          \/ \E i \in DOMAIN t.args : Reaches(target, t.args[i], seen)

UnionIsRecursive(members) ==
    \E i \in DOMAIN members : Reaches(members, members[i], {})

UnionIsInline(t) == Len(t.args) <= MaxInline /\ ~UnionIsRecursive(t.args)

(* struct_fields, member_leaf_types and union_layout. *)
RECURSIVE StructFields(_)
MemberLeafTypes(m) == IF m \in {NoneTy, NeverTy} THEN <<>> ELSE StructFields(m)
MemberLeaves(t) == [i \in DOMAIN t.args |-> MemberLeafTypes(t.args[i])]

StructFields(t) ==
    IF IsStruct(t)
    THEN FlattenSeq([i \in DOMAIN Structs[t.name] |-> StructFields(Structs[t.name][i])])
    ELSE IF IsUnion(t) /\ UnionIsInline(t)
    THEN UnionColumns(LayoutOf(MemberLeaves(t)), t)
    ELSE <<t>>

(* The slots of a flattened value the collector reads (gc_mask, and the same *)
(* filter in gc_slots_of_bindings and heap_roots_in_leaves).                 *)
GcMask(leaves) == {i \in DOMAIN leaves : IsHeapTy(leaves[i])}
=============================================================================
