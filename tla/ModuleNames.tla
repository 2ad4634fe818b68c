---------------------------- MODULE ModuleNames ----------------------------
(***************************************************************************)
(* Names across files (frontend/modules.rs): what a file declares, how the  *)
(* names in it are rewritten when its statements are merged into one flat   *)
(* program, and, to hold this against, which declaration a name stands for  *)
(* under the scopes of frontend/typeck.rs.                                  *)
(*                                                                         *)
(* A name is <<p, n>>: n as written, with the prefix `__modK__` for p = K+1 *)
(* and no prefix for p = 0.  A node is [k, n, es]:                          *)
(*   ref    a use of name n                                                *)
(*   dot    es[1].n                                                        *)
(*   let    n = es[1], also the name of a function declaration             *)
(*   func   a function of parameter n (or None) and body es[1]             *)
(*   block  statements                                                     *)
(*   if     es = <<condition, branch...>>                                  *)
(*   ifis   if es[1] is P(n) then es[2]                                    *)
(*   match  match es[1] { is P(n) then es[2] }                             *)
(*   for    for n in es[1] { es[2] }                                       *)
(*   op     anything that evaluates its children in order                  *)
(*   import an import that is not a statement of the file                  *)
(***************************************************************************)
EXTENDS Naturals, Sequences, SequencesExt, FiniteSets

CONSTANT None

Node(k, n, es) == [k |-> k, n |-> n, es |-> es]
Plain(n) == <<0, n>>
Mangled(p, n) == <<p, n>>
Ref(n) == Node("ref", n, <<>>)

(* A use of `alias.field` or a name, in a substitution. *)
Lookup(s, n) == IF n \in DOMAIN s THEN s[n] ELSE n

-----------------------------------------------------------------------------
(* collect_names_in: every declaration outside function bodies, patterns and *)
(* call arguments, at whatever depth.                                       *)
RECURSIVE Collect(_)
Collect(e) ==
  CASE e.k = "let" -> {e.n} \cup Collect(e.es[1])
    [] e.k \in {"block", "if", "for"} -> UNION {Collect(c) : c \in ToSet(e.es)}
    [] e.k = "ifis" -> Collect(e.es[2])
    [] OTHER -> {}

CollectTop(stmts) == UNION {Collect(s) : s \in ToSet(stmts)}

(* check_no_nested_imports: an import anywhere else than among the statements. *)
RECURSIVE HasImport(_)
HasImport(e) == e.k = "import" \/ \E c \in ToSet(e.es) : HasImport(c)

Misplaced(stmts) == \E s \in ToSet(stmts) : HasImport(s)

-----------------------------------------------------------------------------
(* rewrite: the node and the set of hidden names after it.  The set grows at *)
(* each `let` inside a function and shrinks only where a loop or an arm ends. *)
Rewritten(e, hidden) == [e |-> e, hidden |-> hidden]

RECURSIVE Rewrite(_, _, _, _, _)

RewriteAll(es, subst, qual, hidden, inside) ==
  LET step(acc, c) ==
        LET r == Rewrite(c, subst, qual, acc.hidden, inside)
        IN [es |-> Append(acc.es, r.e), hidden |-> r.hidden]
  IN FoldLeft(step, [es |-> <<>>, hidden |-> hidden], es)

RewriteDot(e, subst, qual, hidden, inside) ==
  LET base == e.es[1]
      viaAlias == /\ base.k = "ref" /\ base.n \notin hidden
                  /\ base.n \in DOMAIN qual /\ e.n \in DOMAIN qual[base.n]
      r == Rewrite(base, subst, qual, hidden, inside)
  IN IF viaAlias THEN Rewritten(Ref(qual[base.n][e.n]), hidden)
     ELSE Rewritten([e EXCEPT !.es = <<r.e>>], r.hidden)

RewriteLet(e, subst, qual, hidden, inside) ==
  LET r == Rewrite(e.es[1], subst, qual, hidden, inside)
  IN IF inside THEN Rewritten([e EXCEPT !.es = <<r.e>>], r.hidden \cup {e.n})
     ELSE Rewritten([e EXCEPT !.es = <<r.e>>, !.n = Lookup(subst, e.n)], r.hidden)

(* Mutant: a function's own names hide nothing. *)
RewriteFuncOpen(e, subst, qual, hidden) ==
  LET r == Rewrite(e.es[1], subst, qual, {}, TRUE)
  IN Rewritten([e EXCEPT !.es = <<r.e>>], hidden)

RewriteFunc(e, subst, qual, hidden) ==
  LET r == Rewrite(e.es[1], subst, qual, {e.n}, TRUE)
  IN Rewritten([e EXCEPT !.es = <<r.e>>], hidden)

(* A loop's variable and an arm's bind are hidden in the second child. *)
RewriteBinder(e, subst, qual, hidden, inside) ==
  LET first == Rewrite(e.es[1], subst, qual, hidden, inside)
      second == Rewrite(e.es[2], subst, qual, first.hidden \cup {e.n}, inside)
  IN Rewritten([e EXCEPT !.es = <<first.e, second.e>>],
               IF e.n \in first.hidden THEN second.hidden ELSE second.hidden \ {e.n})

Rewrite(e, subst, qual, hidden, inside) ==
  CASE e.k = "ref" ->
         Rewritten(IF e.n \in hidden THEN e ELSE [e EXCEPT !.n = Lookup(subst, e.n)], hidden)
    [] e.k = "dot" -> RewriteDot(e, subst, qual, hidden, inside)
    [] e.k = "let" -> RewriteLet(e, subst, qual, hidden, inside)
    [] e.k = "func" -> RewriteFunc(e, subst, qual, hidden)
    [] e.k \in {"for", "match"} -> RewriteBinder(e, subst, qual, hidden, inside)
    [] OTHER -> LET r == RewriteAll(e.es, subst, qual, hidden, inside)
                IN Rewritten([e EXCEPT !.es = r.es], r.hidden)

(* rewrite_top, for every statement: nothing is hidden at first. *)
RewriteTop(stmts, subst, qual) ==
  [i \in DOMAIN stmts |-> Rewrite(stmts[i], subst, qual, {}, FALSE).e]

-----------------------------------------------------------------------------
(* The scopes of typeck.rs.  env maps a name to where it was declared, and   *)
(* an import's alias to where its fields were.  `at` is where a node stands. *)
(* The result holds the uses, as <<where, declaration or None>>, and the     *)
(* environment after.                                                      *)
Declared(at) == [at |-> at, fields |-> <<>>]
Alias(fields) == [at |-> None, fields |-> fields]
Bound(env, n, at) == [m \in DOMAIN env \cup {n} |-> IF m = n THEN Declared(at) ELSE env[m]]
Resolved(uses, env) == [uses |-> uses, env |-> env]
Scoped(r, env) == Resolved(r.uses, env)

RECURSIVE Resolve(_, _, _)

ResolveAll(es, env, at) ==
  LET step(acc, i) == LET r == Resolve(es[i], acc.env, Append(at, i))
                      IN Resolved(acc.uses \cup r.uses, r.env)
  IN FoldLeft(step, Resolved({}, env), [i \in DOMAIN es |-> i])

(* A function sees its own name. *)
ResolveLet(e, env, at) ==
  LET inner == IF e.es[1].k = "func" THEN Bound(env, e.n, at) ELSE env
      r == Resolve(e.es[1], inner, Append(at, 1))
  IN Resolved(r.uses, Bound(r.env, e.n, at))

(* The condition is evaluated in the scope outside, each branch in its own. *)
ResolveIf(e, env, at) ==
  LET c == Resolve(e.es[1], env, Append(at, 1))
  IN Resolved(c.uses \cup UNION {Resolve(e.es[i], c.env, Append(at, i)).uses
                                 : i \in 2..Len(e.es)}, c.env)

ResolveBinder(e, env, at) ==
  LET first == Resolve(e.es[1], env, Append(at, 1))
      second == Resolve(e.es[2], Bound(first.env, e.n, at), Append(at, 2))
  IN Resolved(first.uses \cup second.uses, first.env)

ResolveDot(e, env, at) ==
  LET base == e.es[1]
      viaAlias == /\ base.k = "ref" /\ base.n \in DOMAIN env
                  /\ e.n \in DOMAIN env[base.n].fields
  IN IF viaAlias THEN Resolved({<<at, env[base.n].fields[e.n]>>}, env)
     ELSE Resolve(base, env, Append(at, 1))

Resolve(e, env, at) ==
  CASE e.k = "ref" -> Resolved({<<at, IF e.n \in DOMAIN env THEN env[e.n].at ELSE None>>}, env)
    [] e.k = "dot" -> ResolveDot(e, env, at)
    [] e.k = "let" -> ResolveLet(e, env, at)
    [] e.k = "func" -> Scoped(Resolve(e.es[1], Bound(env, e.n, at), Append(at, 1)), env)
    [] e.k = "block" -> Scoped(ResolveAll(e.es, env, at), env)
    [] e.k = "if" -> ResolveIf(e, env, at)
    [] e.k \in {"ifis", "for", "match"} -> ResolveBinder(e, env, at)
    [] OTHER -> ResolveAll(e.es, env, at)
=============================================================================
