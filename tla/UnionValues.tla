---------------------------- MODULE UnionValues ----------------------------
(***************************************************************************)
(* Values of a union type at run time: how a member becomes a union value  *)
(* (a constructor call, a value placed where the union is expected, a host *)
(* function's result), what a collection does to it, and how `is`, match,  *)
(* `?`, a condition, a common field, the host, print and == read it back.  *)
(*                                                                         *)
(* A union is inline (its member's words in the columns of UnionLayout) or *)
(* boxed (one word: an immediate or the address of a tagged object); the   *)
(* code that writes and the code that reads each decide that again, from   *)
(* the type alone, and each numbers the members again.                     *)
(***************************************************************************)
EXTENDS UnionTypes
LOCAL INSTANCE SequencesExt
LOCAL INSTANCE FiniteSetsExt
LOCAL INSTANCE TLC

CONSTANTS
    Vars,           \* the program's variables, all of one union type
    Spellings,      \* the type expressions it may be declared with
    ErrorTypes,     \* the types that provide Error
    MaxObjects,     \* bound: objects on the heap
    Members(_),     \* the values of a type a constructor is called with
    ArmLists(_)     \* the arms of the match expressions over a union

VARIABLES
    raw, ty,        \* the spelling chosen and the type it normalizes to
    slots,          \* variable -> its words; assigned variables only
    heap,           \* object number -> object
    held,           \* history: variable -> the value it was given
    renumbered      \* history: variables placed under another number than
                    \* the one their union's readers use
vars == <<raw, ty, slots, heap, held, renumbered>>

Live == DOMAIN held

(***************************************************************************)
(* A value: its member type, a number (of a string: 0 is the empty one)    *)
(* and the values of its fields or elements.                               *)
(***************************************************************************)
Scalar(t, n) == [ty |-> t, n |-> n, sub |-> <<>>]
Compound(t, vals) == [ty |-> t, n |-> 0, sub |-> vals]

FreeObject == [kind |-> "free", tag |-> 99, slots |-> <<>>, mask |-> {}]
Address(o) == TagBits * (o + TagBits)
IsAddress(h, w) == \E o \in DOMAIN h : w = Address(o) /\ h[o] # FreeObject
Object(h, w) == IF \E o \in DOMAIN h : w = Address(o)
                THEN h[CHOOSE o \in DOMAIN h : w = Address(o)] ELSE FreeObject

-----------------------------------------------------------------------------
(* Writing: a result is [words, heap]. *)
Room(h) == {o \in DOMAIN h : h[o] = FreeObject}
Words(ws, h) == [words |-> ws, heap |-> h]
Allocated(h, kind, tag, ws, mask) ==
    LET o == Min(Room(h))
    IN  Words(<<Address(o)>>,
              [h EXCEPT ![o] = [kind |-> kind, tag |-> tag, slots |-> ws, mask |-> mask]])

(* A member's words as a union value.  direct: by the union's own constructor *)
(* (VariantInit); otherwise by Widen.                                         *)
Wrapped(t, m, ws, h, direct) ==
    LET i == IndexIn(t.args, m)
        tag == IF direct THEN DeclIndex(OwnerOf(m), m) ELSE i - 1
        unit == IF direct THEN HasNoFields(m) ELSE m = NoneTy
    IN  CASE UnionIsInline(t) ->
               Words(Pack(MemberLeaves(t), i, MemberTag(i), IF m = NoneTy THEN <<>> ELSE ws), h)
          [] ~UnionIsInline(t) /\ unit -> Words(<<ImmediateVariant(tag)>>, h)
          [] OTHER -> Allocated(h, "variant", tag, ws, GcMask(StructFields(m)))

RECURSIVE Stored(_, _, _), StoredAll(_, _, _)
StoredAll(types, vals, h) ==
    IF types = <<>> THEN Words(<<>>, h)
    ELSE LET first == Stored(Head(types), Head(vals), h)
             rest == StoredAll(Tail(types), Tail(vals), first.heap)
         IN  Words(first.words \o rest.words, rest.heap)

Stored(t, v, h) ==
    CASE IsUnion(t) ->
           LET body == Stored(v.ty, v, h)
           IN  Wrapped(t, v.ty, body.words, body.heap, IsNominal(t))
      [] IsStruct(t) -> StoredAll(Structs[t.name], v.sub, h)
      [] IsList(t) ->
           LET elem == t.args[1]
               leaves == StructFields(elem)
               body == StoredAll([i \in DOMAIN v.sub |-> elem], v.sub, h)
           IN  Allocated(body.heap, "list", 0, body.words,
                         {s \in DOMAIN body.words :
                             ((s - 1) % Len(leaves)) + 1 \in GcMask(leaves)})
      [] t = StrTy -> Allocated(h, "str", v.n, <<>>, {})
      [] t = NoneTy -> Words(<<TagImmediate>>, h)
      [] OTHER -> Words(<<v.n>>, h)

(* FrogUnion::to_frog: the same packing, from the field leaves in declared *)
(* order, put in the union's order by marker.                              *)
HostLeaves(u) == LET decl == Unions[u].variants
                 IN  [i \in DOMAIN decl |-> StructFields(Named(decl[i]))]
ReorderByMarker(t, u) == [i \in DOMAIN t.args |-> HostLeaves(u)[DeclIndex(u, t.args[i]) + 1]]

ToFrog(t, v, h) ==
    LET i == IndexIn(t.args, v.ty)
        body == StoredAll(Structs[v.ty.name], v.sub, h)
    IN  Words(Pack(ReorderByMarker(t, ResolveUnion(t)), i, MemberTag(i), body.words), body.heap)

-----------------------------------------------------------------------------
(* Which member does a union value hold?  Inline the tag is in the first   *)
(* word.  Boxed, one that is always an immediate is compared; before any   *)
(* other's tag is loaded an immediate is ruled out, where there can be one. *)
TagTest(w, h, immediate, anyImmediate, tag) ==
    IF immediate THEN w = ImmediateVariant(tag)
    ELSE (anyImmediate => Low(w) # TagImmediate) /\ Object(h, w).tag = tag

IsVariantTest(u, m, w, h) ==
    TagTest(w, h, HasNoFields(m),
            \E i \in DOMAIN Unions[u].variants : HasNoFields(Named(Unions[u].variants[i])),
            DeclIndex(u, m))

TypeTagTest(t, m, w, h) ==
    TagTest(w, h, m = NoneTy, \E i \in DOMAIN t.args : t.args[i] = NoneTy,
            IndexIn(t.args, m) - 1)

(* Mutant: a nominal union's inline tag is taken for the declaration index. *)
HoldsByDeclaration(t, m, ws, h) ==
    IF UnionIsInline(t)
    THEN InlineTagTest(ws, IF IsNominal(t) THEN DeclIndex(ResolveUnion(t), m) + 1
                           ELSE IndexIn(t.args, m))
    ELSE IF IsNominal(t) THEN IsVariantTest(ResolveUnion(t), m, ws[1], h)
    ELSE TypeTagTest(t, m, ws[1], h)

Holds(t, m, ws, h) ==
    IF UnionIsInline(t) THEN InlineTagTest(ws, IndexIn(t.args, m))
    ELSE IF IsNominal(t) THEN IsVariantTest(ResolveUnion(t), m, ws[1], h)
    ELSE TypeTagTest(t, m, ws[1], h)

(* A chain of tests in this order; the last member is not tested. *)
Chosen(t, order, ws, h) ==
    LET hits == {i \in 1..(Len(order) - 1) : Holds(t, order[i], ws, h)}
    IN  order[IF hits = {} THEN Len(order) ELSE Min(hits)]

Declared(t) == LET decl == Unions[ResolveUnion(t)].variants
               IN  [i \in DOMAIN decl |-> Named(decl[i])]
DeclaredOrder(t) == IF IsNominal(t) THEN Declared(t) ELSE t.args
UnionCases(t) == IF UnionIsInline(t) THEN t.args ELSE DeclaredOrder(t)

(* The words of the member a value was found to hold (Narrow; VariantField *)
(* of every field). Reading past an object's slots yields 0 here.          *)
ReadSlots(o, n) == [i \in 1..n |-> IF i \in DOMAIN o.slots THEN o.slots[i] ELSE 0]
Narrow(t, m, ws, h) ==
    CASE m = NoneTy -> <<0>>
      [] m # NoneTy /\ UnionIsInline(t) -> Unpack(MemberLeaves(t), IndexIn(t.args, m), ws)
      [] OTHER -> ReadSlots(Object(h, ws[1]), Len(StructFields(m)))

(* Mutant: a boxed string is taken for the string. *)
UnpackStrAsScalar(t, m, ws, h) ==
    IF ~UnionIsInline(t) /\ m \in {IntTy, BoolTy, StrTy} THEN <<ws[1]>> ELSE Narrow(t, m, ws, h)

(* What print and == do for the same purpose. *)
UnpackUnionSlots(t, m, ws, h) ==
    IF ~UnionIsInline(t) /\ m \in {IntTy, BoolTy} THEN <<ws[1]>> ELSE Narrow(t, m, ws, h)

(* The words of each field; a list's words by element. *)
Parts(types, ws) ==
    LET len == [i \in DOMAIN types |-> Len(StructFields(types[i]))]
        start[i \in DOMAIN types] == IF i = 1 THEN 0 ELSE start[i - 1] + len[i - 1]
    IN  [i \in DOMAIN types |-> SubSeq(ws, start[i] + 1, start[i] + len[i])]

ListTypes(t, w, h) ==
    [i \in 1..(Len(Object(h, w).slots) \div Len(StructFields(t.args[1]))) |-> t.args[1]]

(* The value these words are, to code that matches (printing = FALSE) and to print. *)
RECURSIVE Value(_, _, _, _)
Value(t, ws, h, printing) ==
    LET Whole(types, words) ==
            LET part == Parts(types, words)
            IN  Compound(t, [i \in DOMAIN types |-> Value(types[i], part[i], h, printing)])
    IN  CASE IsUnion(t) ->
               LET m == Chosen(t, IF printing THEN UnionCases(t) ELSE t.args, ws, h)
                   leaves == IF printing THEN UnpackUnionSlots(t, m, ws, h)
                             ELSE Narrow(t, m, ws, h)
               IN  Value(m, leaves, h, printing)
          [] IsStruct(t) -> Whole(Structs[t.name], ws)
          [] IsList(t) -> Whole(ListTypes(t, ws[1], h), Object(h, ws[1]).slots)
          [] t = StrTy -> Scalar(t, Object(h, ws[1]).tag)
          [] t = NoneTy -> Scalar(t, 0)
          [] OTHER -> Scalar(t, ws[1])

-----------------------------------------------------------------------------
(* The other readers.  Equality of unions: find the left value's member, ask *)
(* whether the right one holds it too, compare the two payloads.  Of lists:  *)
(* the lengths, then the elements.                                           *)
RECURSIVE Equal(_, _, _, _), UnionEqual(_, _, _, _), ListEqual(_, _, _, _)
AllEqual(types, l, r, h) ==
    \A i \in DOMAIN types : Equal(types[i], Parts(types, l)[i], Parts(types, r)[i], h)

UnionEqual(t, l, r, h) ==
    LET m == Chosen(t, UnionCases(t), l, h)
    IN  /\ Holds(t, m, r, h)
        /\ Equal(m, UnpackUnionSlots(t, m, l, h), UnpackUnionSlots(t, m, r, h), h)

ListEqual(t, l, r, h) ==
    LET ls == Object(h, l).slots
        rs == Object(h, r).slots
    IN  Len(ls) = Len(rs) /\ AllEqual(ListTypes(t, l, h), ls, rs, h)

Equal(t, l, r, h) ==
    CASE IsUnion(t) -> UnionEqual(t, l, r, h)
      [] IsStruct(t) -> AllEqual(Structs[t.name], l, r, h)
      [] IsList(t) -> ListEqual(t, l[1], r[1], h)
      [] t = StrTy -> Object(h, l[1]).tag = Object(h, r[1]).tag
      [] t = NoneTy -> TRUE
      [] OTHER -> l[1] = r[1]

(* print and == unroll a type into code, so neither takes a union inside itself. *)
RECURSIVE Unrollable(_, _)
Unrollable(t, open) ==
    CASE IsUnion(t) -> t \notin open /\ \A i \in DOMAIN t.args : Unrollable(t.args[i], open \cup {t})
      [] IsList(t) -> Unrollable(t.args[1], open)
      [] IsStruct(t) -> \A i \in DOMAIN Structs[t.name] : Unrollable(Structs[t.name][i], open)
      [] OTHER -> TRUE

TruthyTypes == {IntTy, BoolTy, StrTy, NoneTy}
CanBeCondition(t) == \A i \in DOMAIN t.args : t.args[i] \in TruthyTypes
MemberTruthy(m, w, h) ==
    CASE m = NoneTy -> FALSE
      [] m = StrTy -> Object(h, w).tag # 0        \* its length
      [] OTHER -> w # 0
Truthy(t, ws, h) ==
    LET m == Chosen(t, t.args, ws, h) IN MemberTruthy(m, Narrow(t, m, ws, h)[1], h)

IsErrorType(m) == m \in ErrorTypes

(* match: an arm is [member, guarded, holds]; `is Error` stands for one arm *)
(* per member that provides it.  The arms must cover the union, guarded     *)
(* ones not counting; the rightmost is entered without a test when it has   *)
(* no guard and no else follows.                                            *)
AnyError == Named("Error")
Arm(m, guarded, holds) == [member |-> m, guarded |-> guarded, holds |-> holds]
ExpandTraitArms(t, arms) ==
    FlattenSeq([i \in DOMAIN arms |->
        LET ms == IF arms[i].member = AnyError THEN SelectSeq(DeclaredOrder(t), IsErrorType)
                  ELSE <<arms[i].member>>
        IN  [j \in DOMAIN ms |-> [arm |-> i, member |-> ms[j]]]])

Covers(t, arms, else) ==
    LET tried == ExpandTraitArms(t, arms)
    IN  else \/ \A i \in DOMAIN t.args : \E j \in DOMAIN tried :
                   tried[j].member = t.args[i] /\ ~arms[tried[j].arm].guarded

(* The arm entered (0: the else). *)
Entered(t, arms, else, ws, h) ==
    LET tried == ExpandTraitArms(t, arms)
        untested(j) == j = Len(tried) /\ ~else /\ ~arms[tried[j].arm].guarded
        takes == {j \in DOMAIN tried :
                     /\ untested(j) \/ Holds(t, tried[j].member, ws, h)
                     /\ arms[tried[j].arm].guarded => arms[tried[j].arm].holds}
    IN  IF takes = {} THEN 0 ELSE tried[Min(takes)].arm

(* `?`: one arm per member; an Error is returned, any other passes through. *)
(* Some member must provide Error, and the arms of a nominal union rebuild  *)
(* its variants from their own fields, which does where none are common.    *)
CanTry(t) == /\ \E i \in DOMAIN t.args : IsErrorType(t.args[i])
             /\ IsNominal(t) => Unions[ResolveUnion(t)].common = 0
Try(t, ws, h) ==
    LET m == Chosen(t, DeclaredOrder(t), ws, h)
    IN  [returns |-> IsErrorType(m), value |-> Value(m, Narrow(t, m, ws, h), h, FALSE)]

(* A field all variants share is read without asking which one it is. *)
CommonFields(t) == SubSeq(Structs[t.args[1].name], 1, Unions[ResolveUnion(t)].common)
Common(t, ws, h) ==
    LET types == CommonFields(t)
        leaves == Narrow(t, t.args[1], ws, h)
    IN  [i \in DOMAIN types |-> Value(types[i], Parts(Structs[t.args[1].name], leaves)[i], h, FALSE)]

CanCrossHost(t) == IsNominal(t) /\ UnionIsInline(t)
FromFrog(t, ws, h) ==
    LET i == Low(ws[1])
    IN  Value(t.args[i], Unpack(ReorderByMarker(t, ResolveUnion(t)), i, ws), h, FALSE)

-----------------------------------------------------------------------------
(* The program. *)
Init ==
    /\ raw \in Spellings /\ ty = Normalize(raw)
    /\ slots = <<>> /\ held = <<>>
    /\ heap = [o \in 1..MaxObjects |-> FreeObject]
    /\ renumbered = {}

Assign(x, result, v, odd) ==
    /\ slots' = (x :> result.words) @@ slots
    /\ heap' = result.heap
    /\ held' = (x :> v) @@ held
    /\ renumbered' = IF odd THEN renumbered \cup {x} ELSE renumbered \ {x}
    /\ UNCHANGED <<raw, ty>>

MembersOf(t) == UNION {Members(t.args[i]) : i \in DOMAIN t.args}
(* bound: the objects a member value takes, and its box *)
RECURSIVE Size(_)
Size(v) == (IF v.ty \in {IntTy, BoolTy, NoneTy} THEN 0 ELSE 1)
             + FoldSeq(LAMBDA e, n : n + Size(e), 0, v.sub)
RoomFor(v) == Cardinality(Room(heap)) > Size(v)

(* x = Union.Variant(..), the constructor's own type *)
Construct(x, v) ==
    /\ IsNominal(ty) /\ RoomFor(v)
    /\ Assign(x, Stored(ty, v, heap), v, FALSE)

Renumbers(t, m) == /\ ~UnionIsInline(t) /\ IsNominal(t)
                   /\ HasNoFields(m) \/ DeclIndex(OwnerOf(m), m) # IndexIn(t.args, m) - 1

(* let x: Union = member: a declared type, an argument, an element.  A *)
(* constructor call here is first retyped to its own variant.          *)
Place(x, v) ==
    /\ RoomFor(v)
    /\ LET body == Stored(v.ty, v, heap)
       IN  Assign(x, Wrapped(ty, v.ty, body.words, body.heap, FALSE), v, Renumbers(ty, v.ty))

(* match y is M -> x = y: the narrowed value back into its own union. *)
PlaceNarrowed(x, y) ==
    /\ y \in Live \ renumbered /\ Room(heap) # {}
    /\ LET m == Chosen(ty, ty.args, slots[y], heap)
       IN  Assign(x, Wrapped(ty, m, Narrow(ty, m, slots[y], heap), heap, FALSE),
                  held[y], Renumbers(ty, m))

Copy(x, y) ==
    /\ y \in Live
    /\ Assign(x, Words(slots[y], heap), held[y], y \in renumbered)

HostReturns(x, v) ==
    /\ CanCrossHost(ty) /\ RoomFor(v)
    /\ Assign(x, ToFrog(ty, v, heap), v, FALSE)

(* A collection: what the frames' columns and the objects' masks lead to stays. *)
Followed(h, ws, mask) == {Masked(ws[s]) : s \in {i \in mask : IsHeapPtr(ws[i])}}
Roots == UNION {Followed(heap, slots[x], GcMask(StructFields(ty))) : x \in Live}
RECURSIVE Closure(_)
Closure(A) ==
    LET next == A \cup UNION {Followed(heap, Object(heap, w).slots, Object(heap, w).mask) : w \in A}
    IN  IF next = A THEN A ELSE Closure(next)

Collect ==
    /\ heap' = [o \in DOMAIN heap |-> IF Address(o) \in Closure(Roots) THEN heap[o] ELSE FreeObject]
    /\ heap' # heap
    /\ UNCHANGED <<raw, ty, slots, held, renumbered>>

Next ==
    \/ \E x \in Vars, v \in MembersOf(ty) : Construct(x, v) \/ Place(x, v) \/ HostReturns(x, v)
    \/ \E x, y \in Vars : Copy(x, y) \/ PlaceNarrowed(x, y)
    \/ Collect

Spec == Init /\ [][Next]_vars

-----------------------------------------------------------------------------
AgreesByMatch(x) ==
    LET v == held[x]
        ws == slots[x]
        Wanted(arm) == arm.member = v.ty \/ (arm.member = AnyError /\ IsErrorType(v.ty))
        Opens(arm) == Wanted(arm) /\ (arm.guarded => arm.holds)
    IN  /\ \A i \in DOMAIN ty.args : Holds(ty, ty.args[i], ws, heap) <=> ty.args[i] = v.ty
        /\ Value(ty, ws, heap, FALSE) = v
        /\ CanTry(ty) => Try(ty, ws, heap) = [returns |-> IsErrorType(v.ty), value |-> v]
        /\ \A arms \in ArmLists(ty), else \in BOOLEAN : Covers(ty, arms, else) =>
              Entered(ty, arms, else, ws, heap)
                = Min({i \in DOMAIN arms : Opens(arms[i])}
                        \cup IF else /\ ~\E i \in DOMAIN arms : Opens(arms[i]) THEN {0} ELSE {})

TruthOf(v) == v.ty # NoneTy /\ v.n # 0

(* Whatever made the value and whatever was collected since, every place    *)
(* that reads it finds the member and the fields it was given: `is`, every  *)
(* match that covers the union (trait arms, failed guards, the untested     *)
(* last arm), `?`, a condition, a common field, the host.  Excepted is a    *)
(* variant placed where a boxed union of its own is expected, under another *)
(* number than its readers use (EveryReadingAgrees).                        *)
ReadingsAgree ==
    \A x \in Live \ renumbered :
        /\ AgreesByMatch(x)
        /\ CanBeCondition(ty) => (Truthy(ty, slots[x], heap) <=> TruthOf(held[x]))
        /\ IsNominal(ty) =>
              LET n == Unions[ResolveUnion(ty)].common
              IN  Common(ty, slots[x], heap) = SubSeq(held[x].sub, 1, n)
        /\ CanCrossHost(ty) => FromFrog(ty, slots[x], heap) = held[x]

(* print writes the value held, and two values are == exactly when they are *)
(* the same value.  Excepted is a number or a boolean in a union of more    *)
(* members than can be inline: print and == take the box's address for it.  *)
ReadsItsBox(v) == ~UnionIsInline(ty) /\ v.ty \in {IntTy, BoolTy}
PrintAndEqualityAgree ==
    Unrollable(ty, {}) =>
        \A x \in Live \ renumbered : ~ReadsItsBox(held[x]) =>
            /\ Value(ty, slots[x], heap, TRUE) = held[x]
            /\ \A y \in Live \ renumbered : ~ReadsItsBox(held[y]) =>
                  (Equal(ty, slots[x], slots[y], heap) <=> held[x] = held[y])

(* The collector follows only addresses of objects: no number, tag or       *)
(* immediate in a column it reads is mistaken for one, and no object that a *)
(* live value leads to has been freed.                                      *)
CollectorFollowsObjects ==
    renumbered = {} => \A w \in Closure(Roots) : IsAddress(heap, w)

(* A union is the same type however it is spelled: order, repetition and *)
(* nesting do not change a member's number.                              *)
RECURSIVE Leaves(_)
Leaves(t) == IF IsUnion(t) THEN UNION {Leaves(t.args[i]) : i \in DOMAIN t.args} ELSE {t} \ {NeverTy}
OneFormPerUnion ==
    \A s \in Spellings : Leaves(s) = Leaves(raw) <=> Normalize(s) = ty

(* tc lower_expected: "ordinary subtyping/widening below then handles every *)
(* shape": a variant placed where its own union is expected reads back as   *)
(* that variant.                                                            *)
EveryReadingAgrees == \A x \in Live : Value(ty, slots[x], heap, FALSE) = held[x]

(* cg unpack_union_slots: "the same unboxing `TypedExprKind::Narrow` does, *)
(* inline or boxed": print shows the value that match reads.               *)
PrintReadsAsMatch ==
    Unrollable(ty, {}) => \A x \in Live \ renumbered :
        Value(ty, slots[x], heap, TRUE) = Value(ty, slots[x], heap, FALSE)
=============================================================================
