------------------------------ MODULE JsonText ------------------------------
(***************************************************************************)
(* json.to_str and json.parse.  A text is the document the JSON library    *)
(* makes of it: [int |-> n] and [float |-> n] for a number without and     *)
(* with a point, [bool |-> b], [str |-> s], [none |-> ..] for null,        *)
(* [items |-> seq] an array, [object |-> seq] an object's members, as      *)
(* <<key, node>>.  In an open document an object also has an address, at:  *)
(* the entry cursor of runtime/json/dom.rs knows an object by it.          *)
(*                                                                         *)
(* A reading of the document is the value, whether no accessor marked a    *)
(* failure, and the cursor it leaves.                                      *)
(***************************************************************************)
EXTENDS TaggedValues
LOCAL INSTANCE SequencesExt
LOCAL INSTANCE FiniteSetsExt

CONSTANTS
    VariantName,        \* a variant's struct name -> its name in its union
    Infinite            \* the Floats that are not finite

IsArrayShape(t) == \/ IsList(t)
                   \/ IsStruct(t) /\ Structs[t.name] # <<>> /\ IsPositional(t)

MembersOf(f) == LET ks == SetToSeq(DOMAIN f) IN [i \in DOMAIN ks |-> <<ks[i].str, f[ks[i]]>>]

(* A variant is an object with one key, another union's member is itself. *)
Tagged(t, m, payload) ==
    IF IsNominal(t) THEN [object |-> <<<<VariantName[m.name], payload>>>>] ELSE payload

RECURSIVE ToJson(_, _)
JsonFields(t, v) ==
    LET ts == Structs[t.name]
        payload == [i \in DOMAIN ts |-> ToJson(ts[i], v.fields[i])]
    IN  IF IsArrayShape(t) THEN [items |-> payload]
        ELSE [object |-> [i \in DOMAIN ts |-> <<FieldNames[t.name][i], payload[i]>>]]

ToJson(t, v) ==
    CASE IsStruct(t) -> JsonFields(t, v)
      [] IsList(t) -> [items |-> [i \in DOMAIN v.list |-> ToJson(t.args[1], v.list[i])]]
      [] IsDict(t) ->
            LET ms == MembersOf(v.dict)
            IN  [object |-> [i \in DOMAIN ms |-> <<ms[i][1], ToJson(t.args[2], ms[i][2])>>]]
      [] IsUnion(t) ->
            LET m == MemberOf(t, v) IN Tagged(t, m, ToJson(m, v.holds))
      [] t = FloatTy /\ v.float \in Infinite -> NoneV
      [] OTHER -> v

-----------------------------------------------------------------------------
(* The parsed document: of two members with one key the later stays, and     *)
(* every object has an address of its own (here: the document's, and the way *)
(* to the object).                                                           *)
LastOf(ms) == SelectSeq([i \in DOMAIN ms |-> <<ms[i][1], ms[i][2], i>>],
                        LAMBDA m : \A i \in DOMAIN ms : i > m[3] => ms[i][1] # m[1])

RECURSIVE Placed(_, _, _)
Placed(n, base, way) ==
    CASE Has(n, "items") ->
            [items |-> [i \in DOMAIN n.items |-> Placed(n.items[i], base, Append(way, i))]]
      [] Has(n, "object") ->
            LET ms == LastOf(n.object)
            IN  [object |-> [i \in DOMAIN ms |-> <<ms[i][1], Placed(ms[i][2], base, Append(way, i))>>],
                 at |-> <<base, way>>]
      [] OTHER -> n

KindOf(n) ==
    CASE Has(n, "int") -> IF n.int \in (0 - MaxInt - 1)..MaxInt THEN "int" ELSE "float"
      [] Has(n, "items") -> "array"
      [] Has(n, "object") -> "object"
      [] OTHER -> CHOOSE k \in DOMAIN n : TRUE

KeysOf(n) == IF Has(n, "object") THEN {n.object[i][1] : i \in DOMAIN n.object} ELSE {}
MemberAt(n, key) == LET ms == n.object
                    IN  ms[CHOOSE i \in DOMAIN ms : ms[i][1] = key][2]

(* json_kind_predicate, and the key check_json_union_readable groups by. *)
JsonKinds(m) ==
    CASE m = IntTy -> {"int"} [] m = FloatTy -> {"int", "float"} [] m = BoolTy -> {"bool"}
      [] m = StrTy -> {"str"} [] m = NoneTy -> {"none"}
      [] OTHER -> IF IsArrayShape(m) THEN {"array"} ELSE {"object"}
DispatchKey(m) == IF m \in {IntTy, FloatTy} THEN {"int", "float"} ELSE JsonKinds(m)

JsonUnionReadable(t) ==
    \/ IsNominal(t)
    \/ \A i, j \in DOMAIN t.args : i # j => DispatchKey(t.args[i]) # DispatchKey(t.args[j])

RECURSIVE KeysAreStr(_)
KeysAreStr(t) ==
    /\ IsDict(t) => t.args[1] = StrTy
    /\ IsStruct(t) => \A i \in DOMAIN Structs[t.name] : KeysAreStr(Structs[t.name][i])
    /\ \A i \in DOMAIN t.args : KeysAreStr(t.args[i])

JsonReadable(t) == Unrolls(t, {}) /\ KeysAreStr(t) /\ \A u \in UnionsIn(t) : JsonUnionReadable(u)

-----------------------------------------------------------------------------
(***************************************************************************)
(* entry_at.  The cursor stands on the entry it last answered with, and    *)
(* goes on through the members (of) of the object it was started on; it is *)
(* started anew for another object, or another index than the same or the  *)
(* next one.  Nothing ends it when the document is closed.                 *)
(***************************************************************************)
NoCursor == [obj |-> <<0, <<>>>>, idx |-> 0, of |-> <<>>]

(* Mutant: an index is looked up in whatever object the cursor is on. *)
WalkedByIndex(cur, n, i) == IF i \in {cur.idx, cur.idx + 1} THEN cur.of ELSE n.object

Walked(cur, n, i) ==
    IF cur.obj = n.at /\ i \in {cur.idx, cur.idx + 1} THEN cur.of ELSE n.object
Entry(cur, n, i) == IF i \in DOMAIN Walked(cur, n, i) THEN Walked(cur, n, i)[i] ELSE <<>>
Advanced(cur, n, i) ==
    IF Entry(cur, n, i) = <<>> THEN [obj |-> n.at, idx |-> cur.idx, of |-> <<>>]
    ELSE [obj |-> n.at, idx |-> i, of |-> Walked(cur, n, i)]

Reading(v, ok, cur) == [val |-> v, ok |-> ok, cur |-> cur]

JsonScalar(t, n, cur) ==
    IF t = NoneTy THEN Reading(NoneV, TRUE, cur)
    ELSE IF KindOf(n) \notin JsonKinds(t) THEN Reading(Zero(t), FALSE, cur)
    ELSE Reading(IF t = FloatTy THEN [float |-> IF Has(n, "int") THEN n.int ELSE n.float] ELSE n,
                 TRUE, cur)

AdmitsNone(t) == IsUnion(t) /\ NoneTy \in ToSet(t.args)

(* One field: its node by place or by name (the node the search started from *)
(* when there is none); a name that is missing is none where none is allowed. *)
JsonFieldNode(t, n, i) ==
    LET key == FieldNames[t.name][i]
    IN  IF IsArrayShape(t)
        THEN IF Has(n, "items") /\ i \in DOMAIN n.items
             THEN [val |-> n.items[i], ok |-> TRUE] ELSE [val |-> n, ok |-> FALSE]
        ELSE IF key \in KeysOf(n)
             THEN [val |-> MemberAt(n, key), ok |-> TRUE] ELSE [val |-> n, ok |-> FALSE]

Absent(t, n, i) == /\ ~IsArrayShape(t) /\ AdmitsNone(Structs[t.name][i])
                   /\ FieldNames[t.name][i] \notin KeysOf(n)

(* One more element, a struct's field or a dict's entry after the readings so far. *)
AndThen(acc, r) == Reading(Append(acc.val, r.val), acc.ok /\ r.ok, r.cur)
AndEntry(acc, k, found, r) ==
    Reading([x \in DOMAIN acc.val \cup {k} |-> IF x = k THEN r.val ELSE acc.val[x]],
            acc.ok /\ found /\ r.ok, r.cur)

RECURSIVE ReadJson(_, _, _), ReadJsonUnionAs(_, _, _, _)

JsonStruct(t, n, cur) ==
    LET ts == Structs[t.name]
        Field(acc, i) ==
            LET at == JsonFieldNode(t, n, i)
            IN  AndThen(acc, IF Absent(t, n, i)
                             THEN Reading(Widen(ts[i], NoneTy, NoneV), TRUE, acc.cur)
                             ELSE [ReadJson(ts[i], at.val, acc.cur) EXCEPT !.ok = @ /\ at.ok])
        all == FoldLeft(Field, Reading(<<>>, TRUE, cur), [i \in DOMAIN ts |-> i])
    IN  [all EXCEPT !.val = Record(t, @)]

JsonList(t, n, cur) ==
    LET Item(acc, x) == AndThen(acc, ReadJson(t.args[1], x, acc.cur))
        all == FoldLeft(Item, Reading(<<>>, TRUE, cur), n.items)
    IN  IF Has(n, "items") THEN [all EXCEPT !.val = [list |-> @]]
        ELSE Reading([list |-> <<>>], FALSE, cur)

(* Each turn asks for the entry's key and then, again, for its value; where *)
(* there is no entry the key is empty and the node is the object itself.    *)
KeyAt(cur, n, i) == IF Entry(cur, n, i) = <<>> THEN "" ELSE Entry(cur, n, i)[1]
ValAt(cur, n, i) == IF Entry(cur, n, i) = <<>> THEN n ELSE Entry(cur, n, i)[2]

JsonDict(t, n, cur) ==
    LET Turn(acc, i) ==
            LET after == Advanced(acc.cur, n, i)
            IN  AndEntry(acc, [str |-> KeyAt(acc.cur, n, i)], Entry(acc.cur, n, i) # <<>>,
                         ReadJson(t.args[2], ValAt(after, n, i), after))
        all == FoldLeft(Turn, Reading(<<>>, TRUE, cur), [i \in DOMAIN n.object |-> i])
    IN  IF Has(n, "object") THEN [all EXCEPT !.val = [dict |-> @]]
        ELSE Reading([dict |-> <<>>], FALSE, cur)

ReadJsonArm(t, m, found, n, target, cur) ==
    LET payload == IF IsNominal(t) /\ found THEN MemberAt(n, VariantName[m.name]) ELSE n
        Built(r) == Reading(Construct(t, target, m, r.val), found /\ r.ok, r.cur)
    IN  Built(ReadJson(m, payload, cur))

ReadJsonUnionAs(t, n, target, cur) ==
    LET arms == Arms(t)
        Answers(m) == IF IsNominal(t) THEN VariantName[m.name] \in KeysOf(n)
                      ELSE KindOf(n) \in JsonKinds(m)
        hits == {i \in DOMAIN arms : Answers(arms[i])}
    IN  ReadJsonArm(t, arms[FirstOr(hits, Len(arms))], hits # {}, n, target, cur)

ReadJson(t, n, cur) ==
    CASE IsStruct(t) -> JsonStruct(t, n, cur)
      [] IsList(t) -> JsonList(t, n, cur)
      [] IsDict(t) -> JsonDict(t, n, cur)
      [] IsUnion(t) -> ReadJsonUnionAs(t, n, t, cur)
      [] OTHER -> JsonScalar(t, n, cur)

-----------------------------------------------------------------------------
(* What a document says at type t, stated of the value; and the values       *)
(* json.to_str loses nothing of.                                             *)
RECURSIVE JsonSays(_, _, _)
JsonSays(t, n, v) ==
    CASE t = NoneTy -> v = NoneV
      [] t = FloatTy -> KindOf(n) \in {"int", "float"} /\ v.float \in {n[k] : k \in DOMAIN n}
      [] t \in {IntTy, BoolTy, StrTy} -> KindOf(n) \in JsonKinds(t) /\ n = v
      [] IsStruct(t) ->
            \A i \in DOMAIN Structs[t.name] :
               \/ Absent(t, n, i) /\ v.fields[i].holds = NoneV
               \/ /\ IF IsArrayShape(t) THEN Has(n, "items") /\ i \in DOMAIN n.items
                     ELSE FieldNames[t.name][i] \in KeysOf(n)
                  /\ JsonSays(Structs[t.name][i], JsonFieldNode(t, n, i).val, v.fields[i])
      [] IsList(t) -> /\ Has(n, "items") /\ DOMAIN n.items = DOMAIN v.list
                      /\ \A i \in DOMAIN n.items : JsonSays(t.args[1], n.items[i], v.list[i])
      [] IsDict(t) -> /\ Has(n, "object")
                      /\ KeysOf(n) = {k.str : k \in DOMAIN v.dict}
                      /\ \A k \in DOMAIN v.dict : JsonSays(t.args[2], MemberAt(n, k.str), v.dict[k])
      [] IsUnion(t) ->
            LET arms == Arms(t) IN
            \E i \in DOMAIN arms :
               /\ v.tag = TagOf(t, arms[i])
               /\ IF IsNominal(t)
                  THEN /\ VariantName[arms[i].name] \in KeysOf(n)
                       /\ \A j \in 1..(i - 1) : VariantName[arms[j].name] \notin KeysOf(n)
                       /\ JsonSays(arms[i], MemberAt(n, VariantName[arms[i].name]), v.holds)
                  ELSE KindOf(n) \in JsonKinds(arms[i]) /\ JsonSays(arms[i], n, v.holds)

RECURSIVE Lossless(_, _)
Lossless(t, v) ==
    CASE t = FloatTy -> v.float \notin Infinite
      [] IsStruct(t) -> \A i \in DOMAIN Structs[t.name] : Lossless(Structs[t.name][i], v.fields[i])
      [] IsList(t) -> \A i \in DOMAIN v.list : Lossless(t.args[1], v.list[i])
      [] IsDict(t) -> \A k \in DOMAIN v.dict : Lossless(t.args[2], v.dict[k])
      [] IsUnion(t) -> Lossless(MemberOf(t, v), v.holds)
      [] OTHER -> TRUE
=============================================================================
