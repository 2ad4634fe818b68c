----------------------------- MODULE MCReadBack -----------------------------
(***************************************************************************)
(* Records with named, positional and no fields, a field that may be none, *)
(* an inline nominal union with a common field and a boxed one declared    *)
(* out of alphabetical order, anonymous unions inline and boxed, a union   *)
(* read cannot take apart, a list, a dict and dicts inside lists, a range. *)
(* More than three members are too many to be inline here.                 *)
(***************************************************************************)
EXTENDS ReadBack
LOCAL INSTANCE SequencesExt

MaybeInt == UnionOf(<<IntTy, NoneTy>>)
ShapeTy == UnionOf(<<Named("Shape.Circle"), Named("Shape.Rect")>>)
WideTy == UnionOf([i \in 1..4 |-> Named(<<"Wide.A", "Wide.B", "Wide.C", "Wide.D">>[i])])

MCStructs == [n \in {"Box", "Pair", "Range", "Shape.Rect", "Shape.Circle", "Wide.D", "Wide.C",
                     "Wide.A", "Wide.B", "Loop", "ReadError", "JsonError"} |->
    CASE n = "Box" -> <<StrTy, MaybeInt>>
      [] n \in {"Pair", "Range"} -> <<IntTy, IntTy>>
      [] n = "Shape.Rect" -> <<IntTy, IntTy>>
      [] n \in {"Shape.Circle", "Wide.B"} -> <<IntTy>>
      [] n = "Wide.C" -> <<IntTy>>
      [] n \in {"Wide.A", "Wide.D"} -> <<>>
      [] n = "Loop" -> <<ListOf(Named("Loop"))>>
      [] OTHER -> <<StrTy, IntTy>>]
MCFieldNames == [n \in DOMAIN MCStructs |->
    CASE n = "Box" -> <<"s", "n">> [] n = "Pair" -> <<"0", "1">> [] n = "Range" -> <<"start", "end">>
      [] n = "Shape.Rect" -> <<"x", "w">> [] n = "Shape.Circle" -> <<"x">>
      [] n = "Wide.B" -> <<"b">> [] n = "Wide.C" -> <<"0">>
      [] n \in {"Wide.A", "Wide.D"} -> <<>> [] n = "Loop" -> <<"kids">>
      [] OTHER -> <<"msg", "offset">>]
MCUnions == [u \in {"Shape", "Wide"} |->
    IF u = "Shape" THEN [common |-> 1, variants |-> <<"Shape.Rect", "Shape.Circle">>]
    ELSE [common |-> 0, variants |-> <<"Wide.D", "Wide.C", "Wide.A", "Wide.B">>]]

Alphabet == <<"Box", "Dict", "JsonError", "List", "Loop", "Pair", "Range", "ReadError", "Shape.Circle",
              "Shape.Rect", "Wide.A", "Wide.B", "Wide.C", "Wide.D">>
MCNameRank == [n \in ToSet(Alphabet) |-> CHOOSE i \in DOMAIN Alphabet : Alphabet[i] = n]

MCVariantName == [n \in {"Shape.Rect", "Shape.Circle", "Wide.A", "Wide.B", "Wide.C", "Wide.D"} |->
    CASE n = "Shape.Rect" -> "Rect" [] n = "Shape.Circle" -> "Circle" [] n = "Wide.A" -> "A"
      [] n = "Wide.B" -> "B" [] n = "Wide.C" -> "C" [] n = "Wide.D" -> "D"]
MCOther == {"Circle", "C", "x", "n"}
MCShortName == [n \in DOMAIN MCStructs \cup MCOther \cup {MCVariantName[v] : v \in DOMAIN MCVariantName} |->
    IF n \in DOMAIN MCVariantName THEN MCVariantName[n] ELSE n]

I(n) == [int |-> n]
F(n) == [float |-> n]
S(s) == [str |-> s]
R(name, fs) == [struct |-> name, fields |-> fs]
Maybe(n) == Widen(MaybeInt, IntTy, I(n))
Nothing == Widen(MaybeInt, NoneTy, NoneV)
StrDict == DictOf(StrTy, IntTy)
D(k, n) == [dict |-> [x \in {S(k)} |-> I(n)]]
DD(n, m) == [dict |-> [x \in {S("a"), S("b")} |-> IF x = S("a") THEN I(n) ELSE I(m)]]
Anon(ms) == UnionOf(ms)
FloatStrNone == Anon(<<FloatTy, StrTy, NoneTy>>)
Many == Anon(<<IntTy, BoolTy, NoneTy, ListOf(IntTy), Named("Pair")>>)
TwoLists == Anon(<<ListOf(IntTy), ListOf(StrTy)>>)
InUnion(t, m, v) == Widen(t, m, v)

MCTypes == {IntTy, NoneTy, Named("Box"), Named("Pair"), RangeOf(IntTy), ShapeTy, WideTy, StrDict,
            ListOf(StrDict), DictOf(IntTy, BoolTy), FloatStrNone, Many, TwoLists, ListOf(WideTy),
            Named("Loop"), Anon(<<Named("Box"), Named("Pair")>>)}

Wide(name, fs) == [tag |-> TagOf(WideTy, Named(name)), holds |-> R(name, fs)]
Shape(name, fs) == [tag |-> TagOf(ShapeTy, Named(name)), holds |-> R(name, fs)]
Wides == {Wide("Wide.A", <<>>), Wide("Wide.B", <<I(1)>>), Wide("Wide.C", <<I(-1)>>), Wide("Wide.D", <<>>)}

MCValues == [t \in MCTypes |->
    CASE t = IntTy -> {I(-4), I(0), I(3)}
      [] t = NoneTy -> {NoneV}
      [] t = Named("Box") -> {R("Box", <<S("a"), Maybe(-1)>>), R("Box", <<S("a"), Nothing>>)}
      [] t = Named("Pair") -> {R("Pair", <<I(1), I(-1)>>)}
      [] t = RangeOf(IntTy) -> {R("Range", <<I(-1), I(1)>>)}
      [] t = ShapeTy -> {Shape("Shape.Rect", <<I(1), I(2)>>), Shape("Shape.Circle", <<I(2)>>)}
      [] t = WideTy -> Wides
      [] t = StrDict -> {D("b", 2), DD(1, 2)}
      [] t = ListOf(StrDict) -> {[list |-> <<>>], [list |-> <<D("a", 1), D("b", 2)>>]}
      [] t = DictOf(IntTy, BoolTy) -> {[dict |-> [x \in {I(-1), I(1)} |-> [bool |-> x = I(1)]]]}
      [] t = FloatStrNone -> {InUnion(t, FloatTy, F(1)), InUnion(t, FloatTy, F(-9)),
                              InUnion(t, StrTy, S("a")), InUnion(t, NoneTy, NoneV)}
      [] t = Many -> {InUnion(t, IntTy, I(-1)), InUnion(t, BoolTy, [bool |-> TRUE]),
                      InUnion(t, NoneTy, NoneV), InUnion(t, ListOf(IntTy), [list |-> <<I(1)>>]),
                      InUnion(t, Named("Pair"), R("Pair", <<I(1), I(2)>>))}
      [] t = TwoLists -> {InUnion(t, ListOf(IntTy), [list |-> <<I(1)>>]),
                          InUnion(t, ListOf(StrTy), [list |-> <<S("a")>>])}
      [] t = ListOf(WideTy) -> {[list |-> <<Wide("Wide.C", <<I(1)>>), Wide("Wide.D", <<>>)>>]}
      [] OTHER -> {}]

MCInfinite == {9, -9}

MCLeaves == [f \in {"notation", "json"} |->
    {I(1), S("a"), [bool |-> TRUE], NoneV, F(1), [items |-> <<>>]}
    \cup (IF f = "json" THEN {[object |-> <<>>], I(4)} ELSE {[pairs |-> <<>>], I(4), [neg |-> I(1)]})]
=============================================================================
