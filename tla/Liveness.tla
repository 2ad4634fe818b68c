------------------------------ MODULE Liveness ------------------------------
(***************************************************************************)
(* Which read of a variable is its last one: the backward analysis of      *)
(* frontend/liveness.rs over the typed tree, and the numbering of the tree *)
(* that its answers are keyed by.                                          *)
(*                                                                         *)
(* A node is [k, n, es, id]: its kind, the name it is about, its children  *)
(* in the order they are evaluated, its number.  Kinds:                    *)
(*   lit          a literal, or a nested function: no child is visited     *)
(*   var          a read of variable n                                     *)
(*   op           any node that evaluates every child in order: operators, *)
(*                indexing, slices, ranges, literals of lists, dicts and   *)
(*                structs, widening and narrowing, field access            *)
(*   and          `and` / `or`: the second child may not be evaluated      *)
(*   block        statements                                               *)
(*   let          n = es[1]                                                *)
(*   put          n[es[1]].. = es[Len(es)]: an assignment through a place  *)
(*   call         a call, its arguments                                    *)
(*   place        a `mut` argument of a call: the place n[es[1]]..         *)
(*   if           es = <<cond, then>> or <<cond, then, else>>              *)
(*   for          es = <<iterable, body>> or <<iterable, guard, body>>     *)
(*   ret          return, with a value or none                             *)
(***************************************************************************)
EXTENDS Integers, Sequences, SequencesExt, FiniteSets

CONSTANT None

Node(k, n, es) == [k |-> k, n |-> n, es |-> es, id |-> 0]

-----------------------------------------------------------------------------
(* number_nodes: every node, before its children, gets the next number.  A  *)
(* call's callee is a node of its own, which nothing here looks at.  Nothing *)
(* depends on the numbers but what they name; a place, which is no node in   *)
(* the code and has none there, gets one for the equations of BodyRun.      *)
RECURSIVE Number(_, _)
Number(e, next) ==
  LET first == IF e.k = "call" THEN next + 2 ELSE next + 1
      child(acc, c) == LET r == Number(c, acc.next)
                       IN [es |-> Append(acc.es, r.e), next |-> r.next]
      r == FoldLeft(child, [es |-> <<>>, next |-> first], e.es)
  IN [e |-> [e EXCEPT !.id = next, !.es = r.es], next |-> r.next]

-----------------------------------------------------------------------------
(* An answer: the names live before the node, the reads that are last uses, *)
(* and the names dead after a statement, as <<statement, name>>.  Beside it, *)
(* for the equations of BodyRun, the live sets around each node visited.    *)
Answer(live, last, dead) == [live |-> live, last |-> last, dead |-> dead, seen |-> {}]

(* The live set x, and the facts of two answers. *)
With(live, a, b) ==
  [Answer(live, a.last \cup b.last, a.dead \cup b.dead) EXCEPT !.seen = a.seen \cup b.seen]
Seen(e, r, after) == [r EXCEPT !.seen = @ \cup {<<e.id, r.live, after>>}]

(* record_dead_after: what statement s needed and nothing after it does. *)
DeadAfter(s, before, after) == {<<s.id, n>> : n \in before \ after}

(* Each round of a loop: through the body, through the guard (which goes    *)
(* on to the body or back to the header), without the loop's own variable. *)
Guard(e) == IF Len(e.es) = 3 THEN e.es[2] ELSE None
Body(e) == Last(e.es)

RECURSIVE Transfer(_, _, _)

(* The children of a node, the last one first. *)
Backward(es, live, exit) ==
  LET step(e, acc) == LET r == Transfer(e, acc.live, exit) IN With(r.live, r, acc)
  IN FoldRight(step, es, Answer(live, {}, {}))

(* The index steps of a `mut` argument (Arg::subexprs), the first one first. *)
Subexprs(es, live, exit) ==
  LET step(acc, e) == LET r == Transfer(e, acc.live, exit) IN With(r.live, r, acc)
  IN FoldLeft(step, Answer(live, {}, {}), es)

(* The roots of a call's `mut` arguments. *)
MutRoots(es) == {a.n : a \in {b \in ToSet(es) : b.k = "place"}}

Statements(es, live, exit) ==
  LET step(s, acc) ==
        LET r == Transfer(s, acc.live, exit)
        IN [With(r.live, r, acc) EXCEPT !.dead = @ \cup DeadAfter(s, r.live, acc.live)]
  IN FoldRight(step, es, Answer(live, {}, {}))

Round(e, b, live, exit) ==
  LET body == Transfer(Body(e), b, exit)
      all == IF Guard(e) = None THEN body
             ELSE LET g == Transfer(Guard(e), body.live \cup b, exit) IN With(g.live, g, body)
  IN [all EXCEPT !.live = (@ \ {e.n}) \cup live]

(* Mutant: the back edge is not followed. *)
HeaderOnePass(e, b, live, exit) == b

(* The header's live set: rounds until it stops growing, their facts thrown *)
(* away.                                                                   *)
RECURSIVE Header(_, _, _, _)
Header(e, b, live, exit) ==
  LET next == Round(e, b, live, exit).live
  IN IF next = b THEN b ELSE Header(e, next, live, exit)

TransferLoop(e, live, exit) ==
  LET b == Header(e, live, live, exit)
      confirmed == Round(e, b, live, exit)
      it == Transfer(e.es[1], b, exit)
  IN With(it.live, it, confirmed)

TransferIf(e, live, exit) ==
  LET yes == Transfer(e.es[2], live, exit)
      no == IF Len(e.es) = 3 THEN Transfer(e.es[3], live, exit) ELSE Answer(live, {}, {})
      cond == Transfer(e.es[1], yes.live \cup no.live, exit)
  IN With(cond.live, cond, With(live, yes, no))

Transfer(e, live, exit) == Seen(e,
  CASE e.k = "lit" -> Answer(live, {}, {})
    [] e.k = "var" -> Answer(live \cup {e.n}, IF e.n \in live THEN {} ELSE {e.id}, {})
    [] e.k \in {"op", "and"} -> Backward(e.es, live, exit)
    [] e.k = "block" -> Statements(e.es, live, exit)
    [] e.k = "let" -> Backward(e.es, live \ {e.n}, exit)
    [] e.k = "put" -> Backward(e.es, live \cup {e.n}, exit)
    [] e.k = "call" -> Backward(e.es, live \cup MutRoots(e.es), exit)
    [] e.k = "place" -> Subexprs(e.es, live, exit)
    [] e.k = "if" -> TransferIf(e, live, exit)
    [] e.k = "for" -> TransferLoop(e, live, exit)
    [] e.k = "ret" -> Backward(e.es, exit, exit),
  live)

(* analyze_body: a function's body, at whose exits its `mut` parameters are *)
(* read back.                                                              *)
AnalyzeBody(body, exit) == Transfer(body, exit, exit)

(* build_main_body: after an entry every variable of earlier entries and    *)
(* every variable the entry assigns at top level can still be read.         *)
EntryExit(stmts, prior) == prior \cup {s.n : s \in {t \in ToSet(stmts) : t.k = "let"}}

(* analyze_entry: an entry's statements, which no block node holds. *)
AnalyzeEntry(stmts, exit) == Statements(stmts, exit, exit)
=============================================================================
