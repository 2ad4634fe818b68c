------------------------------- MODULE BodyRun -------------------------------
(***************************************************************************)
(* Compiled bodies run in the order codegen/mod.rs emits their parts, next  *)
(* to what liveness.rs and linear.rs said of them.  The state is a body and *)
(* the work still to do on it as a stack; branches, short circuits and the  *)
(* number of iterations are free choices.  A body is a tree of Liveness'    *)
(* nodes, with the answers that Liveness and LinearUse give about it.       *)
(***************************************************************************)
EXTENDS Integers, Sequences

CONSTANTS
  None,
  LinearNames,   \* the variables whose type provides Linear
  Starts         \* the bodies and entries explored: a set of records of
                 \*   code    its statements
                 \*   nodes   all their nodes
                 \*   exit    the names read when the body is left
                 \*   own     the reads of a place's root in an assignment to it
                 \* and of what the passes say:
                 \*   live    the names live before the first statement
                 \*   last    the reads that are last uses
                 \*   dead    the names dead after a statement, as <<id, name>>
                 \*   ok      whether the linear rules accept it
                 \*   moved   the Linear names it consumes
                 \*   marks   by id: the names live before and after a node,
                 \*           and the Linear names its reads move

(* Trees: every kind of node has the children Liveness gives it. *)
IsTree(r) ==
  /\ r.code \in Seq(r.nodes)
  /\ \A e \in r.nodes :
       /\ e.k \in {"lit", "var", "op", "and", "block", "let", "put", "call", "place", "if", "for", "ret"}
       /\ e.es \in Seq(r.nodes)
       /\ e.k = "lit" => e.es = <<>>
       /\ e.k = "and" => Len(e.es) = 2
       /\ e.k \in {"if", "for"} => Len(e.es) \in {2, 3}

ASSUME StartsAssumption == \A r \in Starts : IsTree(r)

VARIABLES
  run,    \* the one of Starts that runs
  todo,   \* tasks, the next one first
  gone,   \* names whose value was moved or has died
  spent   \* Linear names whose present value was read, outside assignments to it

vars == <<run, todo, gone, spent>>

-----------------------------------------------------------------------------
(* Tasks: evaluate a node, give a name a new value, use the values of some   *)
(* names without a read of them, end a statement, go round a loop, leave.   *)
Eval(e) == [t |-> "eval", e |-> e, n |-> None]
Def(n) == [t |-> "def", e |-> None, n |-> n]
Touch(ns) == [t |-> "touch", e |-> None, n |-> ns]
Ended(e) == [t |-> "ended", e |-> e, n |-> None]
Head0(e) == [t |-> "header", e |-> e, n |-> None]
Leave == [t |-> "leave", e |-> None, n |-> None]

Evals(es) == [i \in DOMAIN es |-> Eval(es[i])]
Stmts(es) ==
  [i \in 1..2 * Len(es) |-> IF i % 2 = 1 THEN Eval(es[(i + 1) \div 2]) ELSE Ended(es[i \div 2])]

(* The work a node stands for, as a set of choices.  `and` and `or` may stop *)
(* at their left side; a place is resolved from its root and along its      *)
(* steps, and then stored into, after the right side, or loaded; a call     *)
(* stores into its `mut` arguments once it is done.                         *)
CompileBinary(e) == {Evals(e.es), <<Eval(e.es[1])>>}

CompilePlaceAssign(e) == {<<Touch({e.n})>> \o Evals(e.es) \o <<Touch({e.n})>>}

ArgPlaces(e) == {e.es[i].n : i \in {j \in DOMAIN e.es : e.es[j].k = "place"}}
CompileCall(e) == {Append(Evals(e.es), Touch(ArgPlaces(e)))}

CompileConditional(e) ==
  {<<Eval(e.es[1]), Eval(e.es[2])>>,
   IF Len(e.es) = 3 THEN <<Eval(e.es[1]), Eval(e.es[3])>> ELSE <<Eval(e.es[1])>>}

Unfold(e) ==
  CASE e.k = "lit" -> {<<>>}
    [] e.k = "op" -> {Evals(e.es)}
    [] e.k = "and" -> CompileBinary(e)
    [] e.k = "block" -> {Stmts(e.es)}
    [] e.k = "let" -> {Append(Evals(e.es), Def(e.n))}
    [] e.k \in {"put", "place"} -> CompilePlaceAssign(e)
    [] e.k = "call" -> CompileCall(e)
    [] e.k = "if" -> CompileConditional(e)
    [] e.k = "for" -> {<<Eval(e.es[1]), Head0(e)>>}

(* One turn of a loop: the variable is bound, the guard may skip the body. *)
Turns(e) ==
  IF Len(e.es) = 3
  THEN {<<Def(e.n), Eval(e.es[2]), Eval(e.es[3]), Head0(e)>>,
        <<Def(e.n), Eval(e.es[2]), Head0(e)>>}
  ELSE {<<Def(e.n), Eval(e.es[2]), Head0(e)>>}

-----------------------------------------------------------------------------
Init ==
  /\ run \in Starts
  /\ todo = Append(Stmts(run.code), Leave)
  /\ gone = {} /\ spent = {}

task == Head(todo)

(* A read: what the analysis calls the last use moves the value out. *)
Read ==
  /\ todo # <<>> /\ task.t = "eval" /\ task.e.k = "var"
  /\ gone' = IF task.e.id \in run.last THEN gone \cup {task.e.n} ELSE gone
  /\ spent' = IF task.e.id \in run.own THEN spent ELSE spent \cup ({task.e.n} \cap LinearNames)
  /\ todo' = Tail(todo)
  /\ UNCHANGED run

Work ==
  /\ todo # <<>> /\ task.t = "eval" /\ task.e.k \notin {"var", "ret"}
  /\ \E w \in Unfold(task.e) : todo' = w \o Tail(todo)
  /\ UNCHANGED <<run, gone, spent>>

(* compile_return: the value, then straight out of the body. *)
Return ==
  /\ todo # <<>> /\ task.t = "eval" /\ task.e.k = "ret"
  /\ todo' = Append(Evals(task.e.es), Leave)
  /\ UNCHANGED <<run, gone, spent>>

Loop ==
  /\ todo # <<>> /\ task.t = "header"
  /\ \E w \in Turns(task.e) \cup {<<>>} : todo' = w \o Tail(todo)
  /\ UNCHANGED <<run, gone, spent>>

Define ==
  /\ todo # <<>> /\ task.t = "def"
  /\ gone' = gone \ {task.n} /\ spent' = spent \ {task.n}
  /\ todo' = Tail(todo)
  /\ UNCHANGED run

Use ==
  /\ todo # <<>> /\ task.t = "touch"
  /\ todo' = Tail(todo)
  /\ UNCHANGED <<run, gone, spent>>

EndStatement ==
  /\ todo # <<>> /\ task.t = "ended"
  /\ gone' = gone \cup {d[2] : d \in {f \in run.dead : f[1] = task.e.id}}
  /\ todo' = Tail(todo)
  /\ UNCHANGED <<run, spent>>

Exit ==
  /\ todo # <<>> /\ task.t = "leave"
  /\ todo' = <<>>
  /\ UNCHANGED <<run, gone, spent>>

Next == Read \/ Work \/ Return \/ Loop \/ Define \/ Use \/ EndStatement \/ Exit

Spec == Init /\ [][Next]_vars

-----------------------------------------------------------------------------
Needed ==
  IF todo = <<>> THEN {}
  ELSE CASE task.t = "eval" /\ task.e.k = "var" -> {task.e.n}
         [] task.t = "touch" -> task.n
         [] task.t = "leave" -> run.exit
         [] OTHER -> {}

(* A name whose value the analysis says was moved or has died is not looked *)
(* at again before it gets a new one, on any path: what a move on last use,  *)
(* and the sharing mark a Copy gets, both rest on.                          *)
NoUseAfterDeath == Needed \cap gone = {}

(* In a body that passes the linear rules every value of a Linear variable   *)
(* is read at most once, whatever branches and loops do: it has no second   *)
(* path.                                                                   *)
LinearReadOnce ==
  (run.ok /\ todo # <<>> /\ task.t = "eval" /\ task.e.k = "var"
     /\ task.e.n \in LinearNames \ run.exit /\ task.e.id \notin run.own)
  => task.e.n \notin spent

(* Straight code has no loop, short circuit or early return and gives no    *)
(* Linear variable a second value.                                         *)
Straight(r) ==
  \A e \in r.nodes :
    /\ e.k \notin {"for", "and", "ret"}
    /\ e.k \in {"let", "put"} => e.n \notin LinearNames

(* In straight code that passes, the Linear variables consumed by the time   *)
(* the end is reached are the same on every path: those the walk found.     *)
ConsumedOnEveryPath ==
  (run.ok /\ todo = <<Leave>> /\ Straight(run)) => spent \ run.exit = run.moved

-----------------------------------------------------------------------------
(* What the answers about a body satisfy: an equation for each kind of node. *)
Before(r, e) == r.marks[e.id].before
After(r, e) == r.marks[e.id].after
Moved(r, e) == r.marks[e.id].moved

(* What is live around nodes evaluated in order. *)
Linked(r, es, before, after) ==
  IF es = <<>> THEN after \subseteq before
  ELSE /\ Before(r, es[1]) \subseteq before
       /\ \A i \in 1..Len(es) - 1 : Before(r, es[i + 1]) \subseteq After(r, es[i])
       /\ after \subseteq After(r, es[Len(es)])

BranchesLinked(r, e) ==
  /\ Before(r, e.es[1]) \subseteq Before(r, e)
  /\ \A i \in 2..Len(e.es) : Before(r, e.es[i]) \subseteq After(r, e.es[1]) /\ After(r, e) \subseteq After(r, e.es[i])
  /\ Len(e.es) = 2 => After(r, e) \subseteq After(r, e.es[1])

(* Round and round: what is live at the header is live after the iterable,   *)
(* before the loop variable is bound and wherever the header comes next.    *)
LoopLinked(r, e) ==
  LET header == After(r, e.es[1])
  IN  /\ Before(r, e.es[1]) \subseteq Before(r, e)
      /\ After(r, e) \subseteq header
      /\ Before(r, e.es[2]) \ {e.n} \subseteq header
      /\ \A i \in 2..Len(e.es) : header \subseteq After(r, e.es[i])
      /\ Len(e.es) = 3 => Before(r, e.es[3]) \subseteq After(r, e.es[2])

NodeLinked(r, e) ==
  CASE e.k = "lit" -> After(r, e) \subseteq Before(r, e)
    [] e.k = "var" -> After(r, e) \cup {e.n} \subseteq Before(r, e)
    [] e.k \in {"op", "block"} -> Linked(r, e.es, Before(r, e), After(r, e))
    [] e.k = "and" -> Linked(r, e.es, Before(r, e), After(r, e)) /\ After(r, e) \subseteq After(r, e.es[1])
    [] e.k = "let" -> Linked(r, e.es, Before(r, e), After(r, e) \ {e.n})
    [] e.k \in {"put", "place"} ->
         Linked(r, e.es, Before(r, e), After(r, e) \cup {e.n}) /\ e.n \in Before(r, e)
    [] e.k = "call" -> Linked(r, e.es, Before(r, e), After(r, e) \cup ArgPlaces(e))
    [] e.k = "if" -> BranchesLinked(r, e)
    [] e.k = "for" -> LoopLinked(r, e)
    [] e.k = "ret" -> Linked(r, e.es, Before(r, e), r.exit)

LiveSolved(r) ==
  /\ Linked(r, r.code, r.live, r.exit)
  /\ \A e \in r.nodes :
       /\ NodeLinked(r, e)
       /\ e.id \in r.last => e.n \notin After(r, e)
       /\ \A d \in r.dead : d[1] = e.id => d[2] \notin After(r, e)

(* The linear rules accept a body only if every read they look at is a last  *)
(* use, and if the branches of an `if` move the same names.                 *)
MovedBy(r, es) == UNION {Moved(r, es[i]) : i \in DOMAIN es}

LinearSolved(r) ==
  /\ \A e \in r.nodes :
       (e.k = "var" /\ e.n \in LinearNames \ r.exit /\ e.id \notin r.own) => e.id \in r.last
  /\ Straight(r) =>
       /\ r.moved = MovedBy(r, r.code)
       /\ \A e \in r.nodes :
            CASE e.k = "var" -> Moved(r, e) = IF e.id \in r.own THEN {} ELSE {e.n} \cap (LinearNames \ r.exit)
              [] e.k = "if" -> /\ Moved(r, e) = Moved(r, e.es[1]) \cup Moved(r, e.es[2])
                               /\ Moved(r, e.es[2]) = IF Len(e.es) = 3 THEN Moved(r, e.es[3]) ELSE {}
              [] OTHER -> Moved(r, e) = MovedBy(r, e.es)

(* The answers the passes give about a body satisfy the equations. *)
AnswersSolve == LiveSolved(run) /\ (run.ok => LinearSolved(run))
=============================================================================
