---------------------------- MODULE TaggedValues ----------------------------
(***************************************************************************)
(* Values as repr, read, json.to_str and json.parse handle them, whole:    *)
(* what a union's slots hold is in UnionValues, here a union value is its  *)
(* tag and what it holds.  The tag is the part two pieces of code can      *)
(* disagree about: a nominal union that is boxed is tagged with the        *)
(* variant's declared number, every other union with the member's place in *)
(* the normalized list.                                                    *)
(*                                                                         *)
(* A value is a record with one field named for its kind: [int |-> 3],     *)
(* [float |-> 1], [bool |-> TRUE], [str |-> s], [none |-> TRUE],           *)
(* [list |-> seq], [dict |-> function], [struct |-> name, fields |-> seq]; *)
(* a union value is [tag |-> n, holds |-> value].  The order of a dict's   *)
(* entries is left out: == does not see it.                                *)
(***************************************************************************)
EXTENDS Integers, UnionTypes, TLC
LOCAL INSTANCE SequencesExt

CONSTANTS
    FieldNames,     \* struct name -> its fields' names ("0", "1".. if it has none)
    MaxInt          \* i64::MAX; the smallest Int is one further from zero

ASSUME TaggedValuesAssumption ==
    /\ MaxInt \in Nat \ {0}
    /\ DOMAIN FieldNames = DOMAIN Structs
    /\ \A s \in DOMAIN Structs : Len(FieldNames[s]) = Len(Structs[s])

Has(x, k) == k \in DOMAIN x
NoneV == [none |-> TRUE]
Zero(t) == CASE t = IntTy -> [int |-> 0] [] t = FloatTy -> [float |-> 0]
             [] t = BoolTy -> [bool |-> FALSE] [] t = StrTy -> [str |-> ""]
Record(t, fields) == [struct |-> t.name, fields |-> fields]

IsPositional(t) == \A i \in DOMAIN FieldNames[t.name] : FieldNames[t.name][i] = ToString(i - 1)

-----------------------------------------------------------------------------
(* The members of a union in the order its branches are tried. *)
Arms(t) == IF IsNominal(t)
           THEN [i \in DOMAIN t.args |-> Named(Unions[ResolveUnion(t)].variants[i])]
           ELSE t.args

Position(t, m) == IndexIn(t.args, m) - 1
TagOf(t, m) == IF IsNominal(t) /\ ~UnionIsInline(t)
               THEN DeclIndex(ResolveUnion(t), m) ELSE Position(t, m)

FirstOr(S, otherwise) == IF S = {} THEN otherwise ELSE CHOOSE i \in S : \A j \in S : i <= j

(* A printing branch tree tests every member but the last. *)
MemberOf(t, u) ==
    LET arms == Arms(t)
    IN  arms[FirstOr({i \in DOMAIN arms : TagOf(t, arms[i]) = u.tag}, Len(arms))]

Widen(target, m, v) == [tag |-> Position(target, m), holds |-> v]

(* Mutant: a variant is built for the wider union as for its own, which tags *)
(* it with its declared number when that union is boxed.                     *)
VariantInto(t, target, m, v) ==
    IF IsNominal(t) /\ ~UnionIsInline(target)
    THEN [tag |-> DeclIndex(ResolveUnion(t), m), holds |-> v]
    ELSE Widen(target, m, v)

(* A reader's construction: the variant itself at its own nominal union, and *)
(* otherwise the variant's struct widened into the union that is wanted.     *)
Construct(t, target, m, v) ==
    IF IsNominal(t) /\ target = t
    THEN [tag |-> TagOf(t, m), holds |-> v]
    ELSE Widen(target, m, v)

-----------------------------------------------------------------------------
(* check_no_recursive_union: no type is met again inside itself. *)
RECURSIVE Unrolls(_, _)
Unrolls(t, open) ==
    IF IsList(t) \/ IsDict(t) THEN \A i \in DOMAIN t.args : Unrolls(t.args[i], open)
    ELSE IF IsUnion(t)
    THEN t \notin open /\ \A i \in DOMAIN t.args : Unrolls(t.args[i], open \cup {t})
    ELSE IF IsStruct(t)
    THEN t \notin open /\ \A i \in DOMAIN Structs[t.name] :
                             Unrolls(Structs[t.name][i], open \cup {t})
    ELSE TRUE

(* The unions met on the way down a type. *)
RECURSIVE UnionsIn(_)
UnionsIn(t) ==
    IF IsUnion(t) THEN {t} \cup UNION {UnionsIn(t.args[i]) : i \in DOMAIN t.args}
    ELSE IF IsStruct(t) THEN UNION {UnionsIn(Structs[t.name][i]) : i \in DOMAIN Structs[t.name]}
    ELSE UNION {UnionsIn(t.args[i]) : i \in DOMAIN t.args}
=============================================================================
