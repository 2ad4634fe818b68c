---------------------------- MODULE MCModuleLink ----------------------------
(* Two families of programs.  Graphs: an entry and up to three files that    *)
(* import each other in every way, or a file that is not there.  Names: an   *)
(* entry and one file, with every small use of a few names in either.        *)
EXTENDS ModuleLink, TLC

CONSTANTS e, fa, fb, fc, gone, f, x, y, q

MCPath == {e, fa, fb, fc, gone}
F == Plain(f)
X == Plain(x)
Y == Plain(y)
Q == Plain(q)

Take(p, names) == [to |-> p, names |-> names, alias |-> None]
As(p, alias) == [to |-> p, names |-> <<>>, alias |-> alias]
File(imports, stmts) == [imports |-> imports, stmts |-> stmts, bad |-> FALSE]
Let(n, v) == Node("let", n, <<v>>)
Func(n, body) == Node("func", n, <<body>>)
Block(es) == Node("block", None, es)
Both(l, r) == Node("op", None, <<l, r>>)
Lit == Node("op", None, <<>>)
Small == <<Let(F, Func(Y, Ref(Y)))>>

Lists(P) ==
  {<<>>} \cup {<<Take(p, <<F>>)>> : p \in P}
  \cup {<<As(p, Q), As(r, X)>> : p, r \in P}
Broken == {[File(<<>>, Small) EXCEPT !.bad = TRUE],
           File(<<As(fa, Q)>>, <<Let(F, Func(Y, Node("import", None, <<>>)))>>)}
Graphs ==
  {[p \in {e, fa, fb, fc} |-> CASE p = e -> [ie EXCEPT !.stmts = <<Ref(F)>>]
                            [] p = fa -> ia [] p = fb -> ib [] OTHER -> ic]
     : ie \in {File(i, Small) : i \in {<<Take(fa, <<F>>), As(fb, Q)>>, <<As(fa, Q)>>, <<As(e, Q), As(fa, X)>>}},
       ia \in {File(i, Small) : i \in Lists({fa, fb, fc, e})},
       ib \in {File(i, Small) : i \in Lists({fa, fb, fc})} \cup Broken,
       ic \in {File(i, Small) : i \in {<<>>, <<As(gone, Q)>>, <<As(fa, Q)>>, <<As(fb, Y), Take(fa, <<F, X>>)>>}}}
  \cup {[p \in {e, fa} |-> IF p = e THEN [File(i, <<Ref(F)>>) EXCEPT !.bad = (i = <<>>)] ELSE File(<<>>, Small)]
          : i \in {<<>>, <<Take(fa, <<F, F>>)>>, <<Take(fa, <<F, X>>)>>, <<Take(fa, <<F>>), As(fa, F)>>,
                   <<As(fa, Q), As(fa, Q)>>, <<As(fa, Q), Take(fa, <<F>>)>>}}

-----------------------------------------------------------------------------
Names3 == {F, X, Y}
Uses == {Ref(F), Ref(X), Both(Ref(X), Ref(Y))}
Hiding(S) ==
  {Block(<<Let(n, u), t>>) : n \in {X, Y}, u \in {Lit, Ref(X)}, t \in S}
  \cup {Node("for", n, <<u, t>>) : n \in {X, Y}, u \in {Lit, Ref(X)}, t \in S}
  \cup {Node("match", X, <<Ref(X), t>>) : t \in S}
  \cup {Node("if", None, <<Ref(X), t, Ref(X)>>) : t \in S}
Odd == {Node("ifis", n, <<Ref(X), Ref(X)>>) : n \in {X, Y}}
Funcs(S) == {Func(n, s) : n \in Names3 \cup {None}, s \in S}
Inner == Uses \cup Hiding(Uses) \cup Odd
Deep == Hiding(Inner) \cup {Both(s, Ref(X)) : s \in Inner}
Values == Inner \cup Funcs(Uses \cup Hiding(Uses) \cup Odd) \cup {Func(Y, s) : s \in Deep}
          \cup {Func(n, Func(m, Both(Ref(X), Ref(Y)))) : n, m \in {X, Y}}
          \cup {Func(Y, Both(Block(<<Let(X, Lit), Ref(X)>>), Ref(F)))}

Dot(n, m) == Node("dot", m, <<Ref(n)>>)
Callers == {<<Func(n, Both(Dot(Q, F), Ref(m)))>> : n \in {Q, F, Y}, m \in {Q, F, Y}}
           \cup {<<Let(Y, v), Both(Dot(Q, X), Ref(Y))>> : v \in Inner}
Naming ==
  {[p \in {e, fa} |-> IF p = e THEN File(<<Take(fa, <<F, X>>)>>, <<Both(Ref(F), Ref(X)), Func(X, Ref(X))>>)
                     ELSE File(<<>>, <<Let(X, Lit), Let(F, v), Let(X, Ref(X))>>)] : v \in Values}
  \cup {[p \in {e, fa} |-> IF p = e THEN File(<<Take(fa, <<X>>)>>, <<Let(F, v), Ref(X)>>)
                          ELSE File(<<>>, <<Let(X, Lit)>>)] : v \in Values}
  \cup {[p \in {e, fa} |-> IF p = e THEN File(<<As(fa, Q)>>, s)
                          ELSE File(<<>>, <<Let(X, Lit), Let(F, Func(Y, Ref(X)))>>)] : s \in Callers}
MCDisks == Graphs \cup Naming
=============================================================================
