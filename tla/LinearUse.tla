------------------------------ MODULE LinearUse ------------------------------
(***************************************************************************)
(* The rules for Linear values (frontend/linear.rs): a Linear variable is   *)
(* never read while it is still needed, and the two branches of an `if`     *)
(* consume the same Linear variables.  The pass rides on liveness: a read   *)
(* is a Copy unless the analysis says it is the last one.                   *)
(***************************************************************************)
EXTENDS Liveness

CONSTANT LinearNames   \* the variables whose type provides Linear

(* The outcome of walking a node: whether a rule is broken, and the Linear  *)
(* variables its reads moved.                                              *)
Walked(ok, moved) == [ok |-> ok, moved |-> moved]
Union(a, b) == Walked(a.ok /\ b.ok, a.moved \cup b.moved)

(* Mutant: a Copy of a Linear value passes for a move. *)
WalkVarLax(e, last, exempt) ==
  IF e.n \in exempt \/ e.n \notin LinearNames THEN Walked(TRUE, {})
  ELSE Walked(TRUE, {e.n})

(* Rule 1. *)
WalkVar(e, last, exempt) ==
  IF e.n \in exempt \/ e.n \notin LinearNames THEN Walked(TRUE, {})
  ELSE Walked(e.id \in last, {e.n})

(* Mutant: rule 2 is forgotten. *)
JoinBranchesLax(yes, no) == Union(yes, no)

(* Rule 2. *)
JoinBranches(yes, no) == Union(Union(yes, no), Walked(yes.moved = no.moved, {}))

(* exempt: the function's `mut` parameters, and inside an assignment through *)
(* a place (`suppress`) the place's own root, which the write gives back.   *)
RECURSIVE Walk(_, _, _, _)
Walk(e, last, params, suppress) ==
  LET inner == IF e.k = "put" THEN {e.n} ELSE suppress
      child(c) == Walk(c, last, params, inner)
      all(acc, c) == Union(acc, child(c))
  IN CASE e.k = "var" -> WalkVar(e, last, params \cup suppress)
       [] e.k = "if" ->
            Union(child(e.es[1]),
                  JoinBranches(child(e.es[2]),
                               IF Len(e.es) = 3 THEN child(e.es[3]) ELSE Walked(TRUE, {})))
       [] OTHER -> FoldLeft(all, Walked(TRUE, {}), e.es)

(* check, for one function body. *)
CheckBody(body, params) == Walk(body, AnalyzeBody(body, params).last, params, {})

(* check, for the statements of an entry. *)
CheckEntry(stmts, prior) ==
  LET last == AnalyzeEntry(stmts, EntryExit(stmts, prior)).last
      all(acc, s) == Union(acc, Walk(s, last, {}, {}))
  IN FoldLeft(all, Walked(TRUE, {}), stmts)

-----------------------------------------------------------------------------
(* What a body is run with: BodyRun's record of it. *)
RECURSIVE NodesOf(_)
NodesOf(es) == ToSet(es) \cup UNION {NodesOf(e.es) : e \in ToSet(es)}

(* The reads of a place's own root inside an assignment to that place. *)
RECURSIVE OwnReads(_, _)
OwnReads(e, root) ==
  IF e.k = "var" THEN (IF e.n = root THEN {e.id} ELSE {})
  ELSE UNION {OwnReads(c, IF e.k = "put" THEN e.n ELSE root) : c \in ToSet(e.es)}

RECURSIVE MovedBelow(_, _, _, _)
MovedBelow(e, last, params, suppress) ==
  {<<e.id, Walk(e, last, params, suppress).moved>>}
    \cup UNION {MovedBelow(c, last, params, IF e.k = "put" THEN {e.n} ELSE suppress) : c \in ToSet(e.es)}

StartOf(stmts, exit, fact, check, params) ==
  LET moved == UNION {MovedBelow(s, fact.last, params, {}) : s \in ToSet(stmts)}
  IN [code |-> stmts, nodes |-> NodesOf(stmts), exit |-> exit,
      own |-> UNION {OwnReads(s, None) : s \in ToSet(stmts)},
      live |-> fact.live, last |-> fact.last, dead |-> fact.dead,
      ok |-> check.ok, moved |-> check.moved,
      marks |-> [id \in {m[1] : m \in moved} |->
                  LET around == CHOOSE s \in fact.seen : s[1] = id
                  IN [before |-> around[2], after |-> around[3],
                      moved |-> (CHOOSE m \in moved : m[1] = id)[2]]]]

(* A function body, with its `mut` parameters; an entry, after earlier ones  *)
(* that bound the names of prior.                                          *)
FunctionStart(block, params) ==
  LET body == Number(block, 1).e
  IN StartOf(body.es, params, AnalyzeBody(body, params), CheckBody(body, params), params)

EntryStart(statements, prior) ==
  LET stmts == Number(Node("block", None, statements), 0).e.es
      exit == EntryExit(stmts, prior)
  IN StartOf(stmts, exit, AnalyzeEntry(stmts, exit), CheckEntry(stmts, prior), {})
=============================================================================
