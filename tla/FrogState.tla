------------------------------ MODULE FrogState ------------------------------
(***************************************************************************)
(* A session of FrogState::eval (state.rs): every entry is checked against  *)
(* what earlier entries declared, compiled into the one JIT module, run,    *)
(* and its top-level bindings are kept for the entries to come.  A type     *)
(* error or a panic of the code generator abandons the entry, and the       *)
(* checker, the name table, the source map and the builder are each put     *)
(* back by a mechanism of their own.                                       *)
(*                                                                         *)
(* An entry declares functions of one parameter, whose types are all one    *)
(* machine word, each calling at most one other, and then runs statements   *)
(* on variables that hold lists.  Functions and variables are named apart.  *)
(* A list is one bit of contents and its shared bit.                       *)
(***************************************************************************)
EXTENDS Integers, Sequences, SequencesExt, FiniteSets

CONSTANTS
  Funcs, Types, Vars, Main, None,
  MaxEntries, \* bound: entries that compile
  MaxSize,    \* bound: functions and statements of an entry
  MaxAddr,    \* bound: addresses of lists
  RetriesDefinitions, \* a name a failed entry declared may be declared again at once
  CallsThenRedefines, \* an entry may call a function and redefine it further down
  UnsavedWrites       \* an entry may leave a variable with a value that neither
                      \* a top-level assignment nor a write in place gave it

ASSUME NamesAssumption == Main \notin Funcs /\ None \notin Funcs \cup Types
ASSUME SessionBoundsAssumption ==
  /\ MaxEntries \in Nat /\ MaxSize \in Nat /\ MaxAddr \in Nat
  /\ {RetriesDefinitions, CallsThenRedefines, UnsavedWrites} \subseteq BOOLEAN

VARIABLES
  checker,   \* tc: the type each function is declared at, the variables declared
  ids,       \* codegen.func_ids: the symbol each function name stands for
  sourceMap, \* codegen.source_map: what was declared, by which entry
  builder,   \* codegen.builder_ctx: "clean", or "dirty" after a panic while building
  module,    \* codegen.module: each declared symbol's type, state and calls
  entries,   \* entry_sources: the entries compiled so far
  count,     \* entry_count
  env,       \* env: the list each variable is bound to
  heap,      \* the lists allocated
  roots,     \* heap.roots
  eval       \* the eval in progress, or None

session == <<entries, count, env, heap, roots>>
vars == <<checker, ids, sourceMap, builder, module, session, eval>>

Addr == 1..MaxAddr
(* The function f with x mapped to v, whether or not it was in its domain. *)
With(f, x, v) == [y \in DOMAIN f \cup {x} |-> IF y = x THEN v ELSE f[y]]

Symbol == (Funcs \cup {Main}) \X (0..MaxEntries)

(* let x = [..], let x = y, push(x, ..) or x[0] = .., and { x = [..] }      *)
Stmts ==
  {<<"new", x, x>> : x \in Vars} \cup {<<"copy", x, y>> : x, y \in Vars}
  \cup {<<"write", x, x>> : x \in Vars} \cup {<<"block", x, x>> : x \in Vars}

Defs == [name : Funcs, type : Types, calls : Funcs \cup {None}]

(* panics: the function (or, after the last, the main body) whose code      *)
(* generation panics; 0 if none does.                                      *)
Entries ==
  UNION {UNION {
    [defs : {d \in [1..n -> Defs] : \A i, j \in 1..n : i # j => d[i].name # d[j].name},
     stmts : [1..m -> Stmts], panics : 0..(n + 1)] : m \in 0..(MaxSize - n)} : n \in 0..MaxSize}

Binds(s) == s[1] \in {"new", "copy"}

(* What the variables range over. *)
Checkers == [funcs : [Funcs -> Types \cup {None}], vars : SUBSET Vars]
Names == [Funcs -> Symbol \cup {None}]
Envs == [Vars -> Addr \cup {None}]
Bits == [Vars -> {0, 1, None}]
Cell == [bit : {0, 1}, shared : BOOLEAN]
Code == [type : Types \cup {None}, state : {"declared", "defined", "final", "lost"},
         calls : SUBSET [to : Symbol, type : Types]]
Evals ==
  [step : {"checked", "compiling", "panicked"}, entry : Entries, checker : Checkers,
   ids : Names, mapped : Nat, next : Nat \ {0}]
  \cup [step : {"running"}, entry : Entries, next : Nat \ {0}, local : Envs,
        out : Seq([name : Vars, list : Addr]), result : Addr \cup {None}, means : Bits]
  \cup [step : {"done"}, result : Addr \cup {None}, means : Bits]

ASSUME NoneAssumption == None \notin Addr \cup Symbol \cup Evals

-----------------------------------------------------------------------------
(* Type checking. *)

(* The type of f where definition i of e is checked: its latest declaration *)
(* above, or what earlier entries left.                                    *)
TypeAt(e, i, known, f) ==
  LET above == {j \in 1..(i - 1) : e.defs[j].name = f}
  IN IF above = {} THEN known.funcs[f] ELSE e.defs[CHOOSE j \in above : TRUE].type

Checked(e, known) ==
  [funcs |-> [f \in Funcs |-> TypeAt(e, Len(e.defs) + 1, known, f)],
   vars |-> known.vars \cup {s[2] : s \in {t \in ToSet(e.stmts) : Binds(t)}}]

WellTyped(e, known) ==
  /\ \A i \in DOMAIN e.defs : LET d == e.defs[i] IN
       d.calls # None => d.calls # d.name /\ TypeAt(e, i, known, d.calls) # None
  /\ \A i \in DOMAIN e.stmts :
       (e.stmts[i][1] # "new") =>
         e.stmts[i][3] \in known.vars \cup {e.stmts[j][2] : j \in {k \in 1..(i - 1) : Binds(e.stmts[k])}}

(* x's list is shared before statement i: since the variable got it, an      *)
(* earlier entry or a copy has shared it.                                  *)
SharedBefore(e, i, x) ==
  \E j \in 0..(i - 1) :
    /\ IF j = 0 THEN env[x] # None /\ heap[env[x]].shared
       ELSE e.stmts[j][1] = "copy" /\ x \in {e.stmts[j][2], e.stmts[j][3]}
    /\ \A k \in (j + 1)..(i - 1) :
         e.stmts[k][2] = x => e.stmts[k][1] \notin {"new", "block"}

(* Statement i leaves its variable with a value that is in no saved slot.  *)
Unsaves(e, i) ==
  \/ e.stmts[i][1] = "block"
  \/ e.stmts[i][1] = "write" /\ SharedBefore(e, i, e.stmts[i][2])

Permitted(e) ==
  /\ RetriesDefinitions \/ \A i \in DOMAIN e.defs : <<e.defs[i].name, count>> \notin DOMAIN module
  /\ CallsThenRedefines \/
       \A i, j \in DOMAIN e.defs : i < j => e.defs[i].calls # e.defs[j].name
  /\ UnsavedWrites \/
       \A i \in DOMAIN e.stmts : Unsaves(e, i) =>
         \E j \in DOMAIN e.stmts : j > i /\ Binds(e.stmts[j]) /\ e.stmts[j][2] = e.stmts[i][2]

Submit(e) ==
  /\ eval = None /\ count < MaxEntries
  /\ WellTyped(e, checker) /\ Permitted(e)
  /\ checker' = Checked(e, checker)
  /\ eval' = [step |-> "checked", entry |-> e, checker |-> checker, ids |-> ids,
              mapped |-> Len(sourceMap), next |-> 1]
  /\ UNCHANGED <<ids, sourceMap, builder, module, session>>

RejectTo(known) ==
  /\ eval # None /\ eval.step = "checked"
  /\ checker' = known
  /\ eval' = None
  /\ UNCHANGED <<ids, sourceMap, builder, module, session>>

(* Mutant: one of the passes returns its error without tc.restore. *)
RejectUnrestored == RejectTo(checker)

(* A type error, in check_and_lower_entry or in one of the passes after it. *)
Reject == RejectTo(eval.checker)

-----------------------------------------------------------------------------
(* Code generation: compile_entry under catch_unwind. *)

(* Module::declare_function: a symbol declared before is the same function. *)
Declare(m, s, type) ==
  IF s \in DOMAIN m THEN m
  ELSE With(m, s, [type |-> type, state |-> "declared", calls |-> {}])

DeclareAll(m, defs) ==
  [s \in DOMAIN m \cup {<<defs[i].name, count>> : i \in DOMAIN defs} |->
     IF s \in DOMAIN m THEN m[s]
     ELSE Declare(m, s, defs[CHOOSE i \in DOMAIN defs : defs[i].name = s[1]].type)[s]]

Pass1 ==
  LET defs == eval.entry.defs IN
  /\ eval # None /\ eval.step = "checked"
  /\ module' = DeclareAll(module, defs)
  /\ ids' = [f \in Funcs |-> IF \E i \in DOMAIN defs : defs[i].name = f THEN <<f, count>> ELSE ids[f]]
  /\ sourceMap' = sourceMap \o [i \in DOMAIN defs |-> [name |-> defs[i].name, entry |-> count]]
  /\ eval' = [eval EXCEPT !.step = "compiling"]
  /\ UNCHANGED <<checker, builder, session>>

Defines(s, m, type, calls) ==
  /\ m[s].state = "declared"
  /\ module' = [m EXCEPT ![s] = [type |-> type, state |-> "defined", calls |-> calls]]

(* Building a function asserts that the builder is empty, may panic half way *)
(* and is followed by define_function, which refuses a second definition.  *)
Build(s, m, type, calls) ==
  \/ /\ builder = "clean" /\ eval.entry.panics # eval.next
     /\ Defines(s, m, type, calls)
     /\ eval' = [eval EXCEPT !.next = @ + 1]
     /\ UNCHANGED builder
  \/ /\ ~(builder = "clean" /\ eval.entry.panics # eval.next /\ m[s].state = "declared")
     /\ eval' = [eval EXCEPT !.step = "panicked"]
     /\ builder' = IF eval.entry.panics = eval.next THEN "dirty" ELSE builder
     /\ module' = m

Pass2 ==
  LET d == eval.entry.defs[eval.next] IN
  /\ eval # None /\ eval.step = "compiling" /\ eval.next <= Len(eval.entry.defs)
  /\ Build(<<d.name, count>>, module, d.type,
           IF d.calls = None THEN {}
           ELSE {[to |-> ids[d.calls], type |-> TypeAt(eval.entry, eval.next, eval.checker, d.calls)]})
  /\ UNCHANGED <<checker, ids, sourceMap, session>>

Pass3 ==
  /\ eval # None /\ eval.step = "compiling" /\ eval.next = Len(eval.entry.defs) + 1
  /\ Build(<<Main, count>>, Declare(module, <<Main, count>>, None), None, {})
  /\ UNCHANGED <<checker, ids, sourceMap, session>>

Compiled == {s \in DOMAIN module : module[s].state # "declared"}
Pending == {s \in DOMAIN module : module[s].state = "defined"}

(* finalize_definitions links what was defined since it last ran, and panics *)
(* at a call of something without code.  Only a fully compiled entry gets a *)
(* number and a source.                                                    *)
Finalize ==
  LET linked == \A s \in Pending : \A c \in module[s].calls : c.to \in Compiled IN
  /\ eval # None /\ eval.step = "compiling" /\ eval.next = Len(eval.entry.defs) + 2
  /\ module' = [s \in DOMAIN module |->
                  IF s \in Pending THEN [module[s] EXCEPT !.state = IF linked THEN "final" ELSE "lost"]
                  ELSE module[s]]
  /\ IF linked
       THEN /\ entries' = Append(entries, eval.entry)
            /\ count' = count + 1
            /\ eval' = [step |-> "running", entry |-> eval.entry, next |-> 1, local |-> env,
                        out |-> <<>>, result |-> None,
                        means |-> [x \in Vars |-> IF env[x] = None THEN None ELSE heap[env[x]].bit]]
       ELSE /\ eval' = [eval EXCEPT !.step = "panicked"]
            /\ UNCHANGED <<entries, count>>
  /\ UNCHANGED <<checker, ids, sourceMap, builder, env, heap, roots>>

RecoverTo(known, names, mapped, builderCtx) ==
  /\ eval # None /\ eval.step = "panicked"
  /\ checker' = known /\ ids' = names
  /\ sourceMap' = SubSeq(sourceMap, 1, mapped)
  /\ builder' = builderCtx
  /\ eval' = None
  /\ UNCHANGED <<module, session>>

(* Mutants: one of the four rollbacks is forgotten. *)
RecoverNotIds == RecoverTo(eval.checker, ids, eval.mapped, "clean")
RecoverNotSourceMap == RecoverTo(eval.checker, eval.ids, Len(sourceMap), "clean")
RecoverNotBuilder == RecoverTo(eval.checker, eval.ids, eval.mapped, builder)

(* eval's catch_unwind arm: everything is put back but the module. *)
Recover == RecoverTo(eval.checker, eval.ids, eval.mapped, "clean")

-----------------------------------------------------------------------------
(* Running the entry. *)

Fresh(h) == CHOOSE a \in Addr \ DOMAIN h : TRUE
Room(h) == Addr \ DOMAIN h # {}

EnvAddrs(e) == {e[x] : x \in Vars} \ {None}

(* Mutant: the out buffer is not a scanned span. *)
InUseNoSpan(ev) == {ev.local[s[3]] : s \in ToSet(SubSeq(ev.entry.stmts, ev.next, Len(ev.entry.stmts)))} \ {None}

(* What the running entry keeps: its out buffer, and in the stack map the   *)
(* variables it has still to read.                                         *)
InUse(ev) ==
  ({ev.out[i].list : i \in DOMAIN ev.out}
   \cup {ev.local[s[3]] : s \in ToSet(SubSeq(ev.entry.stmts, ev.next, Len(ev.entry.stmts)))})
  \ {None}

Surviving(h, used) == [a \in DOMAIN h \cap used |-> h[a]]

(* Mutant: a top-level variable's last mention in its entry is a move.      *)
CopyMoves(h, a) == h

(* Every variable of the session is live at the end of its entry, so        *)
(* reading one is a copy and marks the list.                               *)
CopyMarks(h, a) == [h EXCEPT ![a].shared = TRUE]

Running(op) ==
  /\ eval # None /\ eval.step = "running" /\ eval.next <= Len(eval.entry.stmts)
  /\ eval.entry.stmts[eval.next][1] = op

(* A step of the program: x is now the list at a of heap h, meaning bit.    *)
Step(x, a, h, bit, out, result) ==
  /\ heap' = h
  /\ eval' = [step |-> "running", entry |-> eval.entry, next |-> eval.next + 1, out |-> out,
              result |-> result, local |-> [eval.local EXCEPT ![x] = a],
              means |-> [eval.means EXCEPT ![x] = bit]]
  /\ UNCHANGED <<checker, ids, sourceMap, builder, module, entries, count, env, roots>>

(* A top-level assignment also stores into the out buffer. *)
Bind(x, a, h, bit) == Step(x, a, h, bit, Append(eval.out, [name |-> x, list |-> a]), a)

NewStmt == LET x == eval.entry.stmts[eval.next][2] IN
  /\ Running("new") /\ Room(heap)
  /\ Bind(x, Fresh(heap), With(heap, Fresh(heap), [bit |-> 0, shared |-> FALSE]), 0)

CopyStmt == LET s == eval.entry.stmts[eval.next]
                a == eval.local[s[3]] IN
  /\ Running("copy")
  /\ Bind(s[2], a, CopyMarks(heap, a), eval.means[s[3]])

(* A write goes to a private list; if it had to be copied, only the local   *)
(* variable learns of it.                                                  *)
WriteStmt == LET x == eval.entry.stmts[eval.next][2]
                 a == eval.local[x]
                 at == IF heap[a].shared THEN Fresh(heap) ELSE a IN
  /\ Running("write") /\ Room(heap)
  /\ Step(x, at, With(heap, at, [bit |-> 1 - heap[a].bit, shared |-> FALSE]),
          1 - eval.means[x], eval.out, None)

(* An assignment inside a block, a branch or a loop. *)
BlockStmt == LET x == eval.entry.stmts[eval.next][2] IN
  /\ Running("block") /\ Room(heap)
  /\ Step(x, Fresh(heap), With(heap, Fresh(heap), [bit |-> 0, shared |-> FALSE]), 0, eval.out, None)

(* An allocation may collect at any time. *)
Collect ==
  /\ eval # None /\ eval.step = "running"
  /\ heap' = Surviving(heap, roots \cup InUse(eval))
  /\ UNCHANGED <<checker, ids, sourceMap, builder, module, entries, count, env, roots, eval>>

(* The bindings enter env in order; the roots are rebuilt from env and the  *)
(* result; then the collector may run, before the result is read.          *)
Saved(out) ==
  [x \in Vars |->
     LET slots == {i \in DOMAIN out : out[i].name = x}
     IN IF slots = {} THEN env[x]
        ELSE out[CHOOSE i \in slots : \A j \in slots : j <= i].list]

Finish ==
  /\ eval # None /\ eval.step = "running" /\ eval.next = Len(eval.entry.stmts) + 1
  /\ env' = Saved(eval.out)
  /\ roots' = EnvAddrs(env') \cup ({eval.result} \ {None})
  /\ heap' \in {heap, Surviving(heap, roots')}
  /\ eval' = [step |-> "done", result |-> eval.result, means |-> eval.means]
  /\ UNCHANGED <<checker, ids, sourceMap, builder, module, entries, count>>

Answer ==
  /\ eval # None /\ eval.step = "done"
  /\ eval' = None
  /\ UNCHANGED <<checker, ids, sourceMap, builder, module, session>>

-----------------------------------------------------------------------------
Init ==
  /\ checker = [funcs |-> [f \in Funcs |-> None], vars |-> {}]
  /\ ids = [f \in Funcs |-> None]
  /\ sourceMap = <<>> /\ builder = "clean" /\ module = << >>
  /\ entries = <<>> /\ count = 0
  /\ env = [x \in Vars |-> None] /\ heap = << >> /\ roots = {}
  /\ eval = None

Next ==
  \/ \E e \in Entries : Submit(e)
  \/ Reject \/ Pass1 \/ Pass2 \/ Pass3 \/ Finalize \/ Recover
  \/ NewStmt \/ CopyStmt \/ WriteStmt \/ BlockStmt
  \/ Collect \/ Finish \/ Answer

Spec == Init /\ [][Next]_vars

-----------------------------------------------------------------------------
(* Type correctness, and: entry_count numbers the compiled entries, and     *)
(* what the source map and the name table mention was declared by one of    *)
(* them or by the entry in progress.                                       *)
TypeOK ==
  /\ checker \in Checkers /\ ids \in Names /\ builder \in {"clean", "dirty"}
  /\ DOMAIN module \subseteq Symbol /\ module \in [DOMAIN module -> Code]
  /\ sourceMap \in Seq([name : Funcs, entry : Nat])
  /\ entries \in Seq(Entries) /\ count = Len(entries) /\ count <= MaxEntries
  /\ env \in Envs /\ roots \subseteq Addr
  /\ DOMAIN heap \subseteq Addr /\ heap \in [DOMAIN heap -> Cell]
  /\ eval \in Evals \cup {None}
  /\ \A i \in DOMAIN sourceMap :
       sourceMap[i].entry < count + (IF eval # None /\ eval.step \in {"compiling", "panicked"} THEN 1 ELSE 0)
  /\ \A f \in Funcs : ids[f] # None => ids[f] \in DOMAIN module

(* Every list that can still be asked for is allocated: what the session's  *)
(* variables are bound to, what the running entry has bound or has still to *)
(* read, and the result eval is about to decode.                           *)
NothingLost ==
  /\ EnvAddrs(env) \subseteq DOMAIN heap
  /\ eval # None /\ eval.step = "running" => InUse(eval) \subseteq DOMAIN heap
  /\ eval # None /\ eval.step = "done" /\ eval.result # None => eval.result \in DOMAIN heap

(* The checker, the code generator and the source map are rolled back by    *)
(* three mechanisms and never disagree between evals: a function the        *)
(* checker knows has finished code of that type, from a compiled entry      *)
(* that declares it so, and the source map says which.                     *)
CheckerMatchesCode ==
  eval = None =>
    \A f \in Funcs :
      /\ checker.funcs[f] = None <=> ids[f] = None
      /\ ids[f] # None =>
           LET s == ids[f] IN
           /\ module[s].state = "final" /\ module[s].type = checker.funcs[f]
           /\ \E i \in DOMAIN sourceMap : sourceMap[i] = [name |-> f, entry |-> s[2]]
           /\ \E d \in ToSet(entries[s[2] + 1].defs) : d.name = f /\ d.type = checker.funcs[f]

(* A compiled call reaches a function of the type the checker checked the   *)
(* call against, with code behind it.                                      *)
CallsMatchChecker ==
  \A s \in DOMAIN module : module[s].state = "final" =>
    \A c \in module[s].calls : module[c.to].type = c.type /\ module[c.to].state = "final"

(* A failed eval never leaves the session unusable: an entry whose code     *)
(* generation does not itself panic compiles, whatever failed before it.   *)
GoodEntriesCompile ==
  eval # None /\ eval.step = "panicked" => eval.entry.panics # 0

(* The session keeps its state across entries: after an eval each variable  *)
(* has the value the program last gave it.                                 *)
VariablesPersist ==
  eval # None /\ eval.step = "done" =>
    \A x \in Vars : env[x] # None => heap[env[x]].bit = eval.means[x]
=============================================================================
