--------------------------- MODULE MCUnionValues ---------------------------
(***************************************************************************)
(* A program with a plain record whose field is itself a union, an inline  *)
(* nominal union with a common field, a recursive one and a wide one, both *)
(* declared out of alphabetical order, and the union types built from them. *)
(* Here more than three members are too many to be inline.  72 is an Int    *)
(* that looks like the address of the heap's first object.                  *)
(***************************************************************************)
EXTENDS UnionValues
LOCAL INSTANCE SequencesExt

IntOrStr == UnionOf(<<IntTy, StrTy>>)
TreeTy == UnionOf(<<Named("Tree.Leaf"), Named("Tree.Node"), Named("Tree.Twig")>>)
ShapeTy == UnionOf(<<Named("Shape.Circle"), Named("Shape.Dot"), Named("Shape.Rect")>>)

MCStructs == [n \in {"Box", "Shape.Rect", "Shape.Circle", "Shape.Dot",
                     "Tree.Node", "Tree.Leaf", "Tree.Twig", "Wide.D", "Wide.C", "Wide.A", "Wide.B"} |->
    CASE n = "Box" -> <<IntOrStr, IntTy>>
      [] n = "Shape.Rect" -> <<StrTy, IntTy>>
      [] n = "Shape.Circle" -> <<StrTy, StrTy>>
      [] n = "Shape.Dot" -> <<StrTy>>
      [] n = "Tree.Node" -> <<IntTy, TreeTy>>
      [] n \in {"Tree.Leaf", "Wide.A", "Wide.D"} -> <<>>
      [] n \in {"Tree.Twig", "Wide.C"} -> <<IntTy>>
      [] n = "Wide.B" -> <<StrTy>>]
MCUnions == [u \in {"Shape", "Tree", "Wide"} |->
    CASE u = "Shape" -> [common |-> 1, variants |-> <<"Shape.Rect", "Shape.Circle", "Shape.Dot">>]
      [] u = "Tree" -> [common |-> 0, variants |-> <<"Tree.Node", "Tree.Leaf", "Tree.Twig">>]
      [] u = "Wide" -> [common |-> 0, variants |-> <<"Wide.D", "Wide.C", "Wide.A", "Wide.B">>]]
MCNameRank == [n \in DOMAIN MCStructs \cup {"List", "Error"} |->
    CHOOSE i \in 1..13 : <<"Box", "Error", "List", "Shape.Circle", "Shape.Dot", "Shape.Rect",
                          "Tree.Leaf", "Tree.Node", "Tree.Twig",
                          "Wide.A", "Wide.B", "Wide.C", "Wide.D">>[i] = n]

MCSpellings == {
    UnionOf(<<StrTy, IntTy>>), UnionOf(<<IntTy, StrTy, IntTy>>),
    UnionOf(<<StrTy, NoneTy, Named("Box")>>),
    ShapeTy, UnionOf(<<Named("Shape.Dot"), UnionOf(<<Named("Shape.Rect"), Named("Shape.Circle")>>)>>),
    TreeTy,
    UnionOf([i \in 1..4 |-> Named(MCUnions["Wide"].variants[i])]),
    UnionOf(<<BoolTy, StrTy, NoneTy, IntTy>>),
    UnionOf(<<NoneTy, ShapeTy>>),
    UnionOf(<<Named("Tree.Node"), NoneTy>>),
    UnionOf(<<NoneTy, ListOf(IntOrStr)>>),
    UnionOf(<<NeverTy, StrTy, Named("Shape.Rect")>>)}

Strs == {Scalar(StrTy, 0), Scalar(StrTy, 1)}
Ints == {Scalar(IntTy, 0), Scalar(IntTy, 72)}
Leaf == Compound(Named("Tree.Leaf"), <<>>)
Twig == Compound(Named("Tree.Twig"), <<Scalar(IntTy, 72)>>)
Node(n, t) == Compound(Named("Tree.Node"), <<Scalar(IntTy, n), t>>)
MCMembers(t) ==
    CASE t = IntTy -> Ints
      [] t = BoolTy -> {Scalar(BoolTy, 0), Scalar(BoolTy, 1)}
      [] t = StrTy -> Strs
      [] t = NoneTy -> {Scalar(NoneTy, 0)}
      [] IsList(t) -> {Compound(t, <<>>), Compound(t, <<Scalar(IntTy, 72), Scalar(StrTy, 1)>>)}
      [] t.name = "Box" -> {Compound(t, <<Scalar(IntTy, 72), Scalar(IntTy, 0)>>),
                            Compound(t, <<Scalar(StrTy, 1), Scalar(IntTy, 72)>>)}
      [] t.name = "Shape.Rect" -> {Compound(t, <<Scalar(StrTy, 1), Scalar(IntTy, 72)>>)}
      [] t.name = "Shape.Circle" -> {Compound(t, <<Scalar(StrTy, 1), Scalar(StrTy, 0)>>)}
      [] t.name = "Shape.Dot" -> {Compound(t, <<s>>) : s \in Strs}
      [] t.name \in {"Wide.A", "Wide.D"} -> {Compound(t, <<>>)}
      [] t.name = "Wide.C" -> {Compound(t, <<Scalar(IntTy, 72)>>)}
      [] t.name = "Wide.B" -> {Compound(t, <<Scalar(StrTy, 1)>>)}
      [] t.name = "Tree.Leaf" -> {Leaf}
      [] t.name = "Tree.Twig" -> {Twig}
      [] t.name = "Tree.Node" -> {Node(72, Leaf), Node(0, Node(72, Twig))}

MCErrors == {Named("Shape.Circle"), Named("Tree.Node"), Named("Box"), Named("Wide.D"), StrTy}

(* The members forwards and backwards, with a guarded arm first or last, or *)
(* the trait arm in place of the members that provide it; and a partial     *)
(* list, which only an else completes.                                      *)
MCArmLists(t) ==
    LET plain == [i \in DOMAIN t.args |-> Arm(t.args[i], FALSE, FALSE)]
        trait == Arm(AnyError, FALSE, FALSE)
        guards == {Arm(m, TRUE, b) : m \in {t.args[1], AnyError}, b \in BOOLEAN}
    IN  UNION {{p, <<trait>> \o p, Append(p, trait), Append(Front(p), trait), <<p[1]>>}
                 \cup {<<g>> \o p : g \in guards} \cup {Append(p, g) : g \in guards} :
               p \in {plain, Reverse(plain)}}
=============================================================================
