------------------------------ MODULE Notation ------------------------------
(***************************************************************************)
(* repr and read.  repr's text is frog source, so it is taken here as the  *)
(* tree the parser makes of it (Syntax models that step): a literal is     *)
(* [int |-> n], [float |-> n], [bool |-> b], [str |-> s] or [none |-> ..]; *)
(* [neg |-> x] a minus sign; [items |-> seq] and [pairs |-> seq] a list    *)
(* and a dict; [from |-> x, to |-> y] a range; [call |-> name,             *)
(* args |-> seq] a call, with [label |-> f, arg |-> x] for a named         *)
(* argument; [path |-> name] a qualified name without parentheses.         *)
(*                                                                         *)
(* Every accessor of runtime/read.rs answers with a placeholder where the  *)
(* tree is not what it expects, and marks the read as failed: a reading is *)
(* its value and whether no accessor marked it.                            *)
(***************************************************************************)
EXTENDS TaggedValues
LOCAL INSTANCE SequencesExt
LOCAL INSTANCE FiniteSetsExt

CONSTANT ShortName      \* a name as written, qualified or not -> its last part

Signed(k, n) == IF n < 0 THEN [neg |-> [x \in {k} |-> 0 - n]] ELSE [x \in {k} |-> n]
Entries(f) == LET ks == SetToSeq(DOMAIN f) IN [i \in DOMAIN ks |-> <<ks[i], f[ks[i]]>>]

RECURSIVE Repr(_, _)
ReprFields(t, v) ==
    LET labels == FieldNames[t.name]
        arg(i) == Repr(Structs[t.name][i], v.fields[i])
    IN  [i \in DOMAIN labels |->
            IF IsPositional(t) THEN arg(i) ELSE [label |-> labels[i], arg |-> arg(i)]]

Repr(t, v) ==
    CASE IsRange(t) -> [from |-> Repr(t.args[1], v.fields[1]), to |-> Repr(t.args[1], v.fields[2])]
      [] IsStruct(t) /\ ~IsRange(t) -> [call |-> t.name, args |-> ReprFields(t, v)]
      [] IsList(t) -> [items |-> [i \in DOMAIN v.list |-> Repr(t.args[1], v.list[i])]]
      [] IsDict(t) ->
            LET es == Entries(v.dict)
            IN  [pairs |-> [i \in DOMAIN es |->
                    <<Repr(t.args[1], es[i][1]), Repr(t.args[2], es[i][2])>>]]
      [] IsUnion(t) -> Repr(MemberOf(t, v), v.holds)
      [] t = IntTy -> Signed("int", v.int)
      [] t = FloatTy -> Signed("float", v.float)
      [] OTHER -> v

-----------------------------------------------------------------------------
(* parse_data: a literal that does not fit an Int is refused by the lexer. *)
RECURSIVE Parses(_)
Parses(n) ==
    CASE Has(n, "broken") -> FALSE
      [] Has(n, "int") -> n.int <= MaxInt
      [] Has(n, "neg") -> Parses(n.neg)
      [] Has(n, "arg") -> Parses(n.arg)
      [] Has(n, "from") -> Parses(n.from) /\ Parses(n.to)
      [] Has(n, "items") -> \A i \in DOMAIN n.items : Parses(n.items[i])
      [] Has(n, "pairs") -> \A i \in DOMAIN n.pairs : Parses(n.pairs[i][1]) /\ Parses(n.pairs[i][2])
      [] Has(n, "args") -> \A i \in DOMAIN n.args : Parses(n.args[i])
      [] OTHER -> TRUE

RECURSIVE ExpressionKind(_)
ExpressionKind(n) ==
    CASE Has(n, "neg") -> ExpressionKind(n.neg)
      [] Has(n, "call") \/ Has(n, "path") -> "struct"
      [] Has(n, "items") -> "list"
      [] Has(n, "pairs") -> "dict"
      [] Has(n, "from") -> "range"
      [] Has(n, "label") -> "other"
      [] OTHER -> CHOOSE k \in DOMAIN n : TRUE

(* The predicate an anonymous union's branch for this member asks. *)
MemberKind(m) ==
    CASE m = IntTy -> "int" [] m = FloatTy -> "float" [] m = BoolTy -> "bool"
      [] m = StrTy -> "str" [] m = NoneTy -> "none"
      [] IsList(m) -> "list" [] IsDict(m) -> "dict" [] IsRange(m) -> "range"
      [] OTHER -> "struct"

IsCallTo(n, m) == Has(n, "call") /\ ShortName[n.call] = ShortName[m.name]

UnionReadable(t) ==
    IsNominal(t) \/ Cardinality({i \in DOMAIN t.args : MemberKind(t.args[i]) = "struct"}) <= 1
Readable(t) == Unrolls(t, {}) /\ \A u \in UnionsIn(t) : UnionReadable(u)

-----------------------------------------------------------------------------
Got(v) == [val |-> v, ok |-> TRUE]
Marked(v) == [val |-> v, ok |-> FALSE]

RECURSIVE ReadNumber(_, _)
ReadNumber(k, n) ==
    IF Has(n, k) THEN Got(n)
    ELSE IF Has(n, "neg")
    THEN LET r == ReadNumber(k, n.neg) IN [r EXCEPT !.val = [x \in {k} |-> 0 - r.val[k]]]
    ELSE Marked([x \in {k} |-> 0])

ReadScalar(t, n) ==
    IF t = NoneTy THEN Got(NoneV)                   \* the node is not looked at
    ELSE IF t \in {IntTy, FloatTy} THEN ReadNumber(MemberKind(t), n)
    ELSE IF Has(n, MemberKind(t)) THEN Got(n) ELSE Marked(Zero(t))

(* A field's node: by place, or the first argument of its name; the node the *)
(* search started from when there is none.                                   *)
FieldNode(t, n, i) ==
    LET label == FieldNames[t.name][i]
        named == {j \in DOMAIN n.args : Has(n.args[j], "label") /\ n.args[j].label = label}
    IN  IF ~Has(n, "call") THEN Marked(n)
        ELSE IF IsPositional(t)
        THEN IF i \in DOMAIN n.args THEN Got(n.args[i]) ELSE Marked(n)
        ELSE IF named # {} THEN Got(n.args[Min(named)].arg) ELSE Marked(n)

RangeEnd(n, end) == IF Has(n, end) THEN Got(n[end]) ELSE Marked(n)

(* As if by d[k] = v, so a later pair replaces an earlier one. *)
DictWith(f, k, v) == [x \in DOMAIN f \cup {k} |-> IF x = k THEN v ELSE f[x]]

RECURSIVE Read(_, _), ReadUnionAs(_, _, _)

Together(rs) == [val |-> [i \in DOMAIN rs |-> rs[i].val], ok |-> \A i \in DOMAIN rs : rs[i].ok]
ReadAll(ts, nodes) ==       \* nodes: one [val |-> node, ok] for each type
    Together([i \in DOMAIN ts |-> [Read(ts[i], nodes[i].val) EXCEPT !.ok = @ /\ nodes[i].ok]])

ReadStruct(t, n) ==
    LET ts == Structs[t.name]
        r == ReadAll(ts, [i \in DOMAIN ts |->
                IF IsRange(t) THEN RangeEnd(n, <<"from", "to">>[i]) ELSE FieldNode(t, n, i)])
    IN  [r EXCEPT !.val = Record(t, @)]

ReadList(t, n) ==
    IF ~Has(n, "items") THEN Marked([list |-> <<>>])
    ELSE LET r == ReadAll([i \in DOMAIN n.items |-> t.args[1]],
                          [i \in DOMAIN n.items |-> Got(n.items[i])])
         IN  [r EXCEPT !.val = [list |-> @]]

ReadDict(t, n) ==
    IF ~Has(n, "pairs") THEN Marked([dict |-> <<>>])
    ELSE LET Put(acc, k, v) == [val |-> DictWith(acc.val, k.val, v.val), ok |-> acc.ok /\ k.ok /\ v.ok]
             Insert(acc, p) == Put(acc, Read(t.args[1], p[1]), Read(t.args[2], p[2]))
             r == FoldLeft(Insert, Got(<<>>), n.pairs)
         IN  [r EXCEPT !.val = [dict |-> @]]

(* Every member is tested; when none answers, the last is read all the same, *)
(* to have a value of the type, and the read is marked.  target is the union *)
(* the value is for: t itself, or the wider one read was annotated with.     *)
ReadUnionAs(t, n, target) ==
    LET arms == Arms(t)
        Answers(m) == IF IsNominal(t) THEN IsCallTo(n, m) ELSE ExpressionKind(n) = MemberKind(m)
        hits == {i \in DOMAIN arms : Answers(arms[i])}
        Built(m, r) == [val |-> Construct(t, target, m, r.val), ok |-> hits # {} /\ r.ok]
        m == arms[FirstOr(hits, Len(arms))]
    IN  Built(m, Read(m, n))

Read(t, n) ==
    CASE IsStruct(t) -> ReadStruct(t, n)
      [] IsList(t) -> ReadList(t, n)
      [] IsDict(t) -> ReadDict(t, n)
      [] IsUnion(t) -> ReadUnionAs(t, n, t)
      [] OTHER -> ReadScalar(t, n)

-----------------------------------------------------------------------------
(***************************************************************************)
(* What a text says, stated of the value: v is what n says at type t.  A   *)
(* plain None and the callee of a plain struct are not looked at, named    *)
(* arguments stand in any order, more of them may be there.                *)
(***************************************************************************)
RECURSIVE Amount(_, _)
Amount(k, n) == IF Has(n, "neg") THEN 0 - Amount(k, n.neg) ELSE n[k]

(* Of two members that look alike, two lists, the first is meant. *)
FirstOfKind(t, k) ==
    LET same == {i \in DOMAIN t.args : MemberKind(t.args[i]) = k}
    IN  IF same = {} THEN NeverTy ELSE t.args[Min(same)]
LooksDiffer(t) == IsNominal(t) \/ \A m \in ToSet(t.args) : m = FirstOfKind(t, MemberKind(m))

RECURSIVE Says(_, _, _)
Says(t, n, v) ==
    CASE t = NoneTy -> v = NoneV
      [] t \in {IntTy, FloatTy} ->
            LET k == MemberKind(t) IN ExpressionKind(n) = k /\ Amount(k, n) = v[k]
      [] t \in {BoolTy, StrTy} -> n = v
      [] IsRange(t) -> /\ Has(n, "from")
                       /\ Says(t.args[1], n.from, v.fields[1]) /\ Says(t.args[1], n.to, v.fields[2])
      [] IsStruct(t) /\ ~IsRange(t) ->
            \A i \in DOMAIN Structs[t.name] :
               /\ Has(n, "call")
               /\ IF IsPositional(t)
                  THEN i \in DOMAIN n.args /\ Says(Structs[t.name][i], n.args[i], v.fields[i])
                  ELSE \E j \in DOMAIN n.args :
                          /\ Has(n.args[j], "label") /\ n.args[j].label = FieldNames[t.name][i]
                          /\ \A h \in 1..(j - 1) : Has(n.args[h], "label") =>
                                                      n.args[h].label # FieldNames[t.name][i]
                          /\ Says(Structs[t.name][i], n.args[j].arg, v.fields[i])
      [] IsList(t) -> /\ Has(n, "items") /\ DOMAIN n.items = DOMAIN v.list
                      /\ \A i \in DOMAIN n.items : Says(t.args[1], n.items[i], v.list[i])
      [] IsDict(t) ->
            /\ Has(n, "pairs")
            /\ \A i \in DOMAIN n.pairs : \E k \in DOMAIN v.dict : Says(t.args[1], n.pairs[i][1], k)
            /\ \A k \in DOMAIN v.dict :
                  LET at == {i \in DOMAIN n.pairs : Says(t.args[1], n.pairs[i][1], k)}
                  IN  at # {} /\ Says(t.args[2], n.pairs[Max(at)][2], v.dict[k])
      [] IsUnion(t) ->
            \E m \in ToSet(t.args) :
               /\ v.tag = TagOf(t, m)
               /\ IF IsNominal(t) THEN IsCallTo(n, m) ELSE m = FirstOfKind(t, ExpressionKind(n))
               /\ Says(m, n, v.holds)
=============================================================================
