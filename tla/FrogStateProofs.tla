--------------------------- MODULE FrogStateProofs ---------------------------
(***************************************************************************)
(* What a session of FrogState::eval guarantees for any functions, types,   *)
(* variables and bounds.  Three arguments, one on top of the other:         *)
(*   - what a failed eval puts back (the checker, the name table, the       *)
(*     source map) agrees with the code of the entries that compiled,       *)
(*     because nothing an entry declares touches a symbol of an earlier one;*)
(*   - a call is compiled after the function it reaches, unless that        *)
(*     function is redefined further down, so its type and code are there;  *)
(*   - a variable that will be read again, or whose list is in its saved    *)
(*     slot, shares its list with another such variable only if the list is *)
(*     marked shared, so a write in place is seen by no other variable.     *)
(* The second needs CallsThenRedefines to be FALSE, the third               *)
(* UnsavedWrites, and that every good entry compiles RetriesDefinitions:    *)
(* the theorems say so as hypotheses on those constants.                    *)
(***************************************************************************)
EXTENDS FrogState, TLAPS, SequenceTheorems, FiniteSetTheorems, WellFoundedInduction

-----------------------------------------------------------------------------
(* The inductive invariants. *)

At(steps) == eval # None /\ eval.step \in steps

Building == At({"checked", "compiling", "panicked"})

Bound(l) == {x \in Vars : l[x] # None}

NamesOf(defs) == {defs[i].name : i \in DOMAIN defs}

(* A statement after i binds x. *)
BoundLater(e, i, x) ==
  \E j \in DOMAIN e.stmts : j > i /\ Binds(e.stmts[j]) /\ e.stmts[j][2] = x

(* What eval took before it checked the entry is still what to go back to. *)
BuildInv == Building =>
  /\ checker = Checked(eval.entry, eval.checker) /\ WellTyped(eval.entry, eval.checker)
  /\ eval.mapped <= Len(sourceMap) /\ count < MaxEntries
  /\ \A i \in 1..eval.mapped : sourceMap[i].entry < count
  /\ \A f \in Funcs : eval.ids[f] # None => eval.ids[f] \in DOMAIN module
  /\ eval.step = "checked" => ids = eval.ids /\ eval.mapped = Len(sourceMap) /\ eval.next = 1
  /\ eval.step = "compiling" => eval.next <= Len(eval.entry.defs) + 2

(* Every variable the checker knows is bound, or the running entry binds it; *)
(* what it reads is bound by then.                                         *)
DeclInv ==
  /\ Building => eval.checker.vars \subseteq Bound(env)
  /\ ~Building /\ ~At({"running"}) => checker.vars \subseteq Bound(env)
  /\ At({"running"}) =>
       /\ \A x \in checker.vars :
            \/ x \in Bound(env)
            \/ \E i \in DOMAIN eval.out : eval.out[i].name = x
            \/ BoundLater(eval.entry, eval.next - 1, x)
       /\ \A i \in eval.next..Len(eval.entry.stmts) : eval.entry.stmts[i][1] # "new" =>
            \/ eval.entry.stmts[i][3] \in Bound(eval.local)
            \/ \E j \in eval.next..(i - 1) :
                 Binds(eval.entry.stmts[j]) /\ eval.entry.stmts[j][2] = eval.entry.stmts[i][3]

HeapInv ==
  /\ EnvAddrs(env) \subseteq roots /\ roots \subseteq DOMAIN heap
  /\ At({"running"}) =>
       /\ InUse(eval) \subseteq DOMAIN heap
       /\ eval.result # None => \E i \in DOMAIN eval.out : eval.out[i].list = eval.result
       /\ \A x \in Vars : eval.local[x] # None => eval.means[x] \in {0, 1}
       /\ eval.next <= Len(eval.entry.stmts) + 1
  /\ At({"done"}) /\ eval.result # None => eval.result \in roots

TypeInv == TypeOK /\ BuildInv /\ DeclInv /\ HeapInv

(* known and names, a checker and a name table, agree with the code m, the  *)
(* first n rows of the source map and the compiled entries.                *)
Linked(known, names, n, m, rows, compiled) ==
  \A f \in Funcs :
    /\ known.funcs[f] = None <=> names[f] = None
    /\ names[f] # None =>
         LET s == names[f] IN
         /\ s[1] = f /\ s[2] < Len(compiled) /\ s \in DOMAIN m
         /\ m[s].state = "final" /\ m[s].type = known.funcs[f]
         /\ \E i \in 1..n : rows[i] = [name |-> f, entry |-> s[2]]
         /\ \E d \in ToSet(compiled[s[2] + 1].defs) : d.name = f /\ d.type = known.funcs[f]

(* What there is to go back to agrees, and what the entry being compiled    *)
(* adds to it is ready to.                                                 *)
NamesInv ==
  /\ Building => Linked(eval.checker, eval.ids, eval.mapped, module, sourceMap, entries)
  /\ ~Building => Linked(checker, ids, Len(sourceMap), module, sourceMap, entries)
  /\ At({"compiling"}) =>
       LET defs == eval.entry.defs IN
       /\ ids = [f \in Funcs |-> IF f \in NamesOf(defs) THEN <<f, count>> ELSE eval.ids[f]]
       /\ \A i \in DOMAIN defs :
            LET s == <<defs[i].name, count>> IN
            /\ s \in DOMAIN module
            /\ \E j \in DOMAIN sourceMap : sourceMap[j] = [name |-> defs[i].name, entry |-> count]
            /\ i < eval.next => module[s].state = "defined" /\ module[s].type = defs[i].type

CodeInv == TypeInv /\ NamesInv

(* What has code calls only what has code too, of the type it was checked   *)
(* against; and the entry in progress calls nothing it redefines below.    *)
CallsInv ==
  /\ \A s \in DOMAIN module :
       /\ module[s].state = "declared" => module[s].calls = {}
       /\ module[s].state # "lost"
       /\ \A c \in module[s].calls :
            /\ c.to \in DOMAIN module /\ module[c.to].state # "declared" /\ module[c.to].type = c.type
            /\ module[s].state = "final" => module[c.to].state = "final"
  /\ Building => \A i, j \in DOMAIN eval.entry.defs :
                   i < j => eval.entry.defs[i].calls # eval.entry.defs[j].name

(* The builder is left dirty only until eval recovers, and what the entry   *)
(* has still to define is declared and no more.                            *)
BuilderInv ==
  /\ \A s \in DOMAIN module : s[2] <= count
  /\ builder = "dirty" => At({"panicked"})
  /\ At({"panicked"}) => eval.entry.panics # 0
  /\ At({"checked"}) =>
       \A i \in DOMAIN eval.entry.defs : <<eval.entry.defs[i].name, count>> \notin DOMAIN module
  /\ At({"compiling"}) =>
       \A i \in DOMAIN eval.entry.defs : i >= eval.next =>
         module[<<eval.entry.defs[i].name, count>>].state = "declared"
  /\ <<Main, count>> \in DOMAIN module =>
       \/ module[<<Main, count>>].state = "declared"
       \/ At({"compiling"}) /\ eval.next = Len(eval.entry.defs) + 2

(* x's list is shared before statement i, if those of K are before n. *)
SharedFrom(e, n, K, i, x) ==
  \E j \in (n - 1)..(i - 1) :
    /\ IF j = n - 1 THEN x \in K
       ELSE e.stmts[j][1] = "copy" /\ x \in {e.stmts[j][2], e.stmts[j][3]}
    /\ \A k \in (j + 1)..(i - 1) : e.stmts[k][2] = x => e.stmts[k][1] \notin {"new", "block"}

(* From n on, with the lists of K shared and the values of U in no slot,    *)
(* every variable left with a value in no slot is bound again.             *)
RestSafe(e, n, K, U) ==
  /\ \A x \in U : BoundLater(e, n - 1, x)
  /\ \A i \in n..Len(e.stmts) :
       \/ e.stmts[i][1] = "block"
       \/ e.stmts[i][1] = "write" /\ SharedFrom(e, n, K, i, e.stmts[i][2])
       => BoundLater(e, i, e.stmts[i][2])

(* The running entry has still to read x. *)
Reads(ev, x) == \E i \in ev.next..Len(ev.entry.stmts) : ev.entry.stmts[i][3] = x

(* The variables whose lists matter: they will be read, or saved as they are. *)
Kept ==
  {x \in Vars : eval.local[x] # None /\ (Reads(eval, x) \/ Saved(eval.out)[x] = eval.local[x])}

KeptShared == {x \in Kept : heap[eval.local[x]].shared}

Unsaved == {x \in Vars : Saved(eval.out)[x] # eval.local[x]}

EnvShared == {x \in Bound(env) : heap[env[x]].shared}

(* No two variables share a list unless it is marked, what a kept variable  *)
(* holds is what the program means, and what is not saved will be.         *)
ValuesInv ==
  /\ ~At({"running"}) => \A x, y \in Bound(env) : x # y /\ env[x] = env[y] => heap[env[x]].shared
  /\ At({"checked", "compiling"}) => RestSafe(eval.entry, 1, EnvShared, {})
  /\ At({"running"}) =>
       /\ \A x \in Kept : heap[eval.local[x]].bit = eval.means[x]
       /\ \A x, y \in Kept : x # y /\ eval.local[x] = eval.local[y] => heap[eval.local[x]].shared
       /\ RestSafe(eval.entry, eval.next, KeptShared, Unsaved)
  /\ VariablesPersist

-----------------------------------------------------------------------------
(* Sequences, entries and forms of an eval. *)

(* What an entry is made of. *)
LEMMA EntryFields ==
  ASSUME NEW e \in Entries
  PROVE  /\ e.defs \in Seq(Defs) /\ e.stmts \in Seq(Stmts) /\ e.panics \in Nat
         /\ Len(e.defs) \in Nat /\ DOMAIN e.defs = 1..Len(e.defs)
         /\ Len(e.stmts) \in Nat /\ DOMAIN e.stmts = 1..Len(e.stmts)
         /\ \A i \in 1..Len(e.defs) : /\ e.defs[i] \in Defs /\ e.defs[i].name \in Funcs
                                      /\ e.defs[i].type \in Types
                                      /\ e.defs[i].calls \in Funcs \cup {None}
         /\ \A i, j \in 1..Len(e.defs) : i # j => e.defs[i].name # e.defs[j].name
<1> DEFINE Made(n, m) ==
             [defs : {d \in [1..n -> Defs] : \A i, j \in 1..n : i # j => d[i].name # d[j].name},
              stmts : [1..m -> Stmts], panics : 0..(n + 1)]
<1>0. PICK n \in 0..MaxSize : e \in UNION {Made(n, m) : m \in 0..(MaxSize - n)}
  BY DEF Entries
<1>1. PICK m \in 0..(MaxSize - n) : e \in Made(n, m)
  BY <1>0
<1>2. n \in Nat /\ m \in Nat
  BY <1>0, <1>1, SessionBoundsAssumption
<1>3. e.defs \in [1..n -> Defs] /\ e.stmts \in [1..m -> Stmts] /\ e.panics \in Nat
  BY <1>1, <1>2
<1>4. e.defs \in Seq(Defs) /\ e.stmts \in Seq(Stmts)
  BY <1>2, <1>3, SeqDef
<1>5. Len(e.defs) = n /\ Len(e.stmts) = m
  BY <1>2, <1>3, <1>4, LenProperties
<1>6. \A i \in 1..Len(e.defs) : e.defs[i] \in Defs
  BY <1>3, <1>5
<1>7. \A i, j \in 1..Len(e.defs) : i # j => e.defs[i].name # e.defs[j].name
  BY <1>1, <1>5
<1> QED BY <1>2, <1>3, <1>4, <1>5, <1>6, <1>7 DEF Defs

(* What a statement is made of: only a copy names two variables. *)
LEMMA StmtFields ==
  ASSUME NEW s \in Stmts
  PROVE  /\ s[1] \in {"new", "copy", "write", "block"} /\ s[2] \in Vars /\ s[3] \in Vars
         /\ s[1] # "copy" => s[3] = s[2]
  BY DEF Stmts

(* Each statement of an entry is one of them. *)
LEMMA EntryStmt ==
  ASSUME NEW e \in Entries, NEW i \in 1..Len(e.stmts)
  PROVE  /\ e.stmts[i] \in Stmts
         /\ e.stmts[i][1] \in {"new", "copy", "write", "block"}
         /\ e.stmts[i][2] \in Vars /\ e.stmts[i][3] \in Vars
         /\ e.stmts[i][1] # "copy" => e.stmts[i][3] = e.stmts[i][2]
<1>1. e.stmts[i] \in Stmts
  BY EntryFields, ElementOfSeq
<1> QED BY <1>1, StmtFields

(* What eval's fields are while an entry is built, runs, or has run. *)
LEMMA EvalForms ==
  ASSUME TypeOK, eval # None
  PROVE  /\ eval.step \in {"checked", "compiling", "panicked"} =>
              eval \in [step : {"checked", "compiling", "panicked"}, entry : Entries,
                        checker : Checkers, ids : Names, mapped : Nat, next : Nat \ {0}]
         /\ eval.step = "running" =>
              eval \in [step : {"running"}, entry : Entries, next : Nat \ {0}, local : Envs,
                        out : Seq([name : Vars, list : Addr]), result : Addr \cup {None}, means : Bits]
         /\ eval.step = "done" =>
              eval \in [step : {"done"}, result : Addr \cup {None}, means : Bits]
         /\ eval.step \in {"checked", "compiling", "panicked", "running", "done"}
  BY DEF TypeOK, Evals

(* The type of a function at a place of an entry is that of the definition  *)
(* above it, which is the only one, or what was known before.              *)
LEMMA TypeAtIs ==
  ASSUME NEW e \in Entries, NEW n \in 1..(Len(e.defs) + 1), NEW known, NEW f \in Funcs
  PROVE  /\ \A j \in 1..(n - 1) : e.defs[j].name = f => TypeAt(e, n, known, f) = e.defs[j].type
         /\ (\A j \in 1..(n - 1) : e.defs[j].name # f) => TypeAt(e, n, known, f) = known.funcs[f]
<1> DEFINE above == {j \in 1..(n - 1) : e.defs[j].name = f}
<1>1. TypeAt(e, n, known, f) =
        IF above = {} THEN known.funcs[f] ELSE e.defs[CHOOSE j \in above : TRUE].type
  BY DEF TypeAt
<1>2. \A i, j \in above : i = j
  BY EntryFields
<1>3. ASSUME NEW j \in 1..(n - 1), e.defs[j].name = f
      PROVE  TypeAt(e, n, known, f) = e.defs[j].type
  <2>1. j \in above
    BY <1>3
  <2> HIDE DEF above
  <2> QED BY <1>1, <1>2, <2>1
<1>4. (\A j \in 1..(n - 1) : e.defs[j].name # f) => above = {}
  OBVIOUS
<1> HIDE DEF above
<1> QED BY <1>1, <1>3, <1>4

(* It is a type or unknown. *)
LEMMA TypeAtType ==
  ASSUME NEW e \in Entries, NEW n \in 1..(Len(e.defs) + 1), NEW known \in Checkers, NEW f \in Funcs
  PROVE  TypeAt(e, n, known, f) \in Types \cup {None}
<1>1. \A j \in 1..(n - 1) : e.defs[j].type \in Types
  <2>1. Len(e.defs) \in Nat
    BY EntryFields
  <2> QED BY <2>1, EntryFields
<1>2. known.funcs[f] \in Types \cup {None}
  BY DEF Checkers
<1>3. CASE \E j \in 1..(n - 1) : e.defs[j].name = f
  BY <1>1, <1>3, TypeAtIs
<1>4. CASE \A j \in 1..(n - 1) : e.defs[j].name # f
  BY <1>2, <1>4, TypeAtIs
<1> QED BY <1>3, <1>4

(* What the checker knows after an entry is well typed. *)
LEMMA CheckedOK ==
  ASSUME NEW e \in Entries, NEW known \in Checkers
  PROVE  Checked(e, known) \in Checkers
<1>1. ASSUME NEW f \in Funcs
      PROVE  TypeAt(e, Len(e.defs) + 1, known, f) \in Types \cup {None}
  <2>1. Len(e.defs) + 1 \in 1..(Len(e.defs) + 1)
    BY EntryFields
  <2> QED BY <2>1, TypeAtType
<1>2. \A s \in ToSet(e.stmts) : s[2] \in Vars
  <2>1. \A i \in DOMAIN e.stmts : e.stmts[i][2] \in Vars
    BY EntryFields, EntryStmt
  <2> QED BY <2>1 DEF ToSet
<1>3. known.vars \subseteq Vars
  BY DEF Checkers
<1> QED BY <1>1, <1>2, <1>3 DEF Checked, Checkers

(* What the running entry keeps, without sequences. *)
LEMMA InUseIs ==
  ASSUME NEW ev, ev.entry \in Entries, ev.next \in Nat \ {0}
  PROVE  InUse(ev) = ({ev.out[i].list : i \in DOMAIN ev.out}
                      \cup {ev.local[ev.entry.stmts[i][3]] : i \in ev.next..Len(ev.entry.stmts)})
                     \ {None}
<1> DEFINE e == ev.entry
           n == ev.next
           rest == SubSeq(e.stmts, n, Len(e.stmts))
<1>1. Len(e.stmts) \in Nat /\ n \in Nat \ {0} /\ \A i \in n..Len(e.stmts) : e.stmts[i] \in Stmts
  BY EntryFields, EntryStmt
<1>2. /\ rest \in Seq(Stmts)
      /\ Len(rest) = IF n <= Len(e.stmts) THEN Len(e.stmts) - n + 1 ELSE 0
      /\ \A i \in 1..(Len(e.stmts) - n + 1) : rest[i] = e.stmts[n + i - 1]
  <2> HIDE DEF e, n
  <2> QED BY <1>1, SubSeqProperties
<1> HIDE DEF e, n, rest
<1>3. DOMAIN rest = 1..(Len(e.stmts) - n + 1)
  BY <1>1, <1>2, LenProperties
<1>4. ToSet(rest) = {e.stmts[i] : i \in n..Len(e.stmts)}
  <2>1. ASSUME NEW i \in n..Len(e.stmts) PROVE e.stmts[i] \in ToSet(rest)
    <3> DEFINE len == Len(e.stmts)
               j == i - n + 1
    <3>1. len \in Nat /\ n \in Nat \ {0} /\ i \in n..len
      BY <1>1
    <3>2. DOMAIN rest = 1..(len - n + 1) /\ \A k \in 1..(len - n + 1) : rest[k] = e.stmts[n + k - 1]
      BY <1>2, <1>3
    <3> HIDE DEF len
    <3>3. j \in 1..(len - n + 1) /\ n + j - 1 = i
      BY <3>1
    <3> HIDE DEF j
    <3>4. j \in DOMAIN rest /\ rest[j] = e.stmts[i]
      BY <3>2, <3>3
    <3> QED BY <3>4 DEF ToSet
  <2>2. ASSUME NEW i \in 1..(Len(e.stmts) - n + 1)
        PROVE  rest[i] \in {e.stmts[j] : j \in n..Len(e.stmts)}
    <3>1. n + i - 1 \in n..Len(e.stmts) /\ rest[i] = e.stmts[n + i - 1]
      BY <1>1, <1>2, <1>3
    <3> QED BY <3>1
  <2> QED BY <1>3, <2>1, <2>2 DEF ToSet
<1> QED BY <1>4 DEF InUse, e, n, rest

-----------------------------------------------------------------------------
(* TypeInv, one lemma per action. *)

(* Submit. *)
LEMMA SubmitType ==
  ASSUME TypeInv, NEW e \in Entries, Submit(e) PROVE TypeInv' /\ At({"checked"})'
<1>1. /\ eval = None /\ count < MaxEntries /\ WellTyped(e, checker)
      /\ checker' = Checked(e, checker)
      /\ eval' = [step |-> "checked", entry |-> e, checker |-> checker, ids |-> ids,
                  mapped |-> Len(sourceMap), next |-> 1]
      /\ UNCHANGED <<ids, sourceMap, builder, module, entries, count, env, heap, roots>>
  BY DEF Submit, session
<1>2. TypeOK /\ Len(sourceMap) \in Nat /\ DOMAIN sourceMap = 1..Len(sourceMap)
  BY LenProperties DEF TypeInv, TypeOK
<1>3. eval' \in Evals /\ eval' # None
  <2>1. eval' \in Evals
    BY <1>1, <1>2 DEF Evals, TypeOK
  <2> QED BY <2>1, NoneAssumption
<1>4. checker' \in Checkers
  BY <1>1, <1>2, CheckedOK DEF TypeOK
<1>5. TypeOK'
  <2>1. \A i \in DOMAIN sourceMap : sourceMap[i].entry < count
    BY <1>1, <1>2 DEF TypeOK
  <2>2. ~(eval' # None /\ eval'.step \in {"compiling", "panicked"})
    BY <1>1
  <2>3. \A i \in DOMAIN sourceMap' : sourceMap'[i].entry <
          count' + (IF eval' # None /\ eval'.step \in {"compiling", "panicked"} THEN 1 ELSE 0)
    <3>1. count \in Nat
      BY <1>2, LenProperties DEF TypeOK
    <3>2. sourceMap' = sourceMap /\ count' = count
      BY <1>1
    <3> QED BY <2>1, <2>2, <3>1, <3>2
  <2> QED BY <1>1, <1>2, <1>3, <1>4, <2>3 DEF TypeOK
<1>6. BuildInv'
  <2>1. \A i \in 1..Len(sourceMap) : sourceMap[i].entry < count
    <3>1. count \in Nat
      BY <1>2, LenProperties DEF TypeOK
    <3> QED BY <1>1, <1>2, <3>1 DEF TypeOK
  <2> QED BY <1>1, <1>2, <2>1 DEF BuildInv, TypeOK, At, Building
<1>7. DeclInv'
  BY <1>1, <1>3 DEF TypeInv, DeclInv, At, Building
<1>8. HeapInv'
  BY <1>1, <1>3 DEF TypeInv, HeapInv, At, EnvAddrs
<1> QED BY <1>1, <1>3, <1>5, <1>6, <1>7, <1>8 DEF TypeInv, At

(* Reject. *)
LEMMA RejectType ==
  ASSUME TypeInv, Reject PROVE TypeInv'
<1>1. /\ eval # None /\ eval.step = "checked" /\ checker' = eval.checker /\ eval' = None
      /\ UNCHANGED <<ids, sourceMap, builder, module, entries, count, env, heap, roots>>
  BY DEF Reject, RejectTo, session
<1>2. eval.checker \in Checkers
  BY <1>1, EvalForms DEF TypeInv
<1>3. TypeOK'
  BY <1>1, <1>2 DEF TypeInv, TypeOK
<1>4. BuildInv' /\ DeclInv' /\ HeapInv'
  BY <1>1 DEF TypeInv, BuildInv, DeclInv, HeapInv, At, Building, EnvAddrs
<1> QED BY <1>3, <1>4 DEF TypeInv

(* Declaring the functions of an entry adds their symbols and changes none. *)
LEMMA DeclareAllIs ==
  ASSUME TypeOK, count <= MaxEntries, NEW e \in Entries
  PROVE  /\ DOMAIN DeclareAll(module, e.defs) =
              DOMAIN module \cup {<<e.defs[i].name, count>> : i \in DOMAIN e.defs}
         /\ DOMAIN DeclareAll(module, e.defs) \subseteq Symbol
         /\ DeclareAll(module, e.defs) \in [DOMAIN DeclareAll(module, e.defs) -> Code]
         /\ \A s \in DOMAIN module : DeclareAll(module, e.defs)[s] = module[s]
         /\ \A i \in DOMAIN e.defs : LET s == <<e.defs[i].name, count>> IN
              s \notin DOMAIN module =>
                /\ DeclareAll(module, e.defs)[s].state = "declared"
                /\ DeclareAll(module, e.defs)[s].calls = {}
<1> DEFINE new == {<<e.defs[i].name, count>> : i \in DOMAIN e.defs}
           m == DeclareAll(module, e.defs)
           typeOf(s) == e.defs[CHOOSE i \in DOMAIN e.defs : e.defs[i].name = s[1]].type
<1>1. DOMAIN m = DOMAIN module \cup new /\ \A s \in DOMAIN module : m[s] = module[s]
  BY DEF DeclareAll
<1>2. new \subseteq Symbol
  <2>1. count \in 0..MaxEntries
    BY LenProperties DEF TypeOK
  <2> QED BY <2>1, EntryFields DEF Symbol
<1>3. ASSUME NEW i \in DOMAIN e.defs, <<e.defs[i].name, count>> \notin DOMAIN module
      PROVE  LET s == <<e.defs[i].name, count>> IN
             m[s] = [type |-> typeOf(s), state |-> "declared", calls |-> {}] /\ typeOf(s) \in Types
  <2> DEFINE s == <<e.defs[i].name, count>>
  <2>1. s \in new /\ s[1] = e.defs[i].name
    OBVIOUS
  <2>2. m[s] = Declare(module, s, typeOf(s))[s]
    BY <1>3, <2>1 DEF DeclareAll
  <2>3. Declare(module, s, typeOf(s)) = With(module, s, [type |-> typeOf(s), state |-> "declared", calls |-> {}])
    BY <1>3 DEF Declare
  <2>4. typeOf(s) \in Types
    <3>1. (CHOOSE j \in DOMAIN e.defs : e.defs[j].name = s[1]) \in DOMAIN e.defs
      BY <2>1
    <3> QED BY <3>1, EntryFields
  <2> HIDE DEF s, typeOf, m
  <2>5. m[s] = [type |-> typeOf(s), state |-> "declared", calls |-> {}]
    BY <2>2, <2>3 DEF With
  <2> QED BY <2>4, <2>5 DEF s
<1>4. ASSUME NEW s \in DOMAIN m PROVE m[s] \in Code
  <2>1. CASE s \in DOMAIN module
    BY <1>1, <2>1 DEF TypeOK
  <2>2. CASE s \notin DOMAIN module
    <3>1. PICK i \in DOMAIN e.defs : s = <<e.defs[i].name, count>>
      BY <1>1, <2>2
    <3>2. m[s] = [type |-> typeOf(s), state |-> "declared", calls |-> {}] /\ typeOf(s) \in Types
      BY <1>3, <2>2, <3>1
    <3> HIDE DEF typeOf, m
    <3> QED BY <3>2 DEF Code
  <2> QED BY <2>1, <2>2
<1>5. m = [s \in DOMAIN m |-> m[s]]
  BY DEF DeclareAll
<1>6. DOMAIN m \subseteq Symbol
  BY <1>1, <1>2 DEF TypeOK
<1>7. ASSUME NEW i \in DOMAIN e.defs, <<e.defs[i].name, count>> \notin DOMAIN module
      PROVE  m[<<e.defs[i].name, count>>].state = "declared" /\ m[<<e.defs[i].name, count>>].calls = {}
  <2> DEFINE s == <<e.defs[i].name, count>>
  <2>1. m[s] = [type |-> typeOf(s), state |-> "declared", calls |-> {}]
    BY <1>3, <1>7
  <2> HIDE DEF typeOf, m, s
  <2>2. m[s].state = "declared" /\ m[s].calls = {}
    BY <2>1
  <2> QED BY <2>2 DEF s
<1> HIDE DEF m
<1>8. m \in [DOMAIN m -> Code]
  BY <1>4, <1>5
<1> QED BY <1>1, <1>6, <1>7, <1>8 DEF m

(* Pass1 and the source map, as plain facts. *)
LEMMA Pass1Step ==
  ASSUME TypeInv, Pass1
  PROVE  /\ eval # None /\ eval.step = "checked" /\ eval.entry \in Entries
         /\ module' = DeclareAll(module, eval.entry.defs)
         /\ ids' = [f \in Funcs |-> IF f \in NamesOf(eval.entry.defs) THEN <<f, count>> ELSE ids[f]]
         /\ eval' = [eval EXCEPT !.step = "compiling"]
         /\ sourceMap' \in Seq([name : Funcs, entry : Nat])
         /\ Len(sourceMap') = Len(sourceMap) + Len(eval.entry.defs)
         /\ \A i \in 1..Len(sourceMap) : sourceMap'[i] = sourceMap[i]
         /\ \A i \in 1..Len(eval.entry.defs) :
              sourceMap'[Len(sourceMap) + i] = [name |-> eval.entry.defs[i].name, entry |-> count]
         /\ UNCHANGED <<checker, builder, entries, count, env, heap, roots>>
<1> DEFINE defs == eval.entry.defs
           rows == [i \in DOMAIN defs |-> [name |-> defs[i].name, entry |-> count]]
           Row == [name : Funcs, entry : Nat]
<1>1. /\ eval # None /\ eval.step = "checked"
      /\ module' = DeclareAll(module, defs)
      /\ ids' = [f \in Funcs |-> IF \E i \in DOMAIN defs : defs[i].name = f THEN <<f, count>> ELSE ids[f]]
      /\ sourceMap' = sourceMap \o rows
      /\ eval' = [eval EXCEPT !.step = "compiling"]
      /\ UNCHANGED <<checker, builder, entries, count, env, heap, roots>>
  BY DEF Pass1, session
<1>2. eval.entry \in Entries
  BY <1>1, EvalForms DEF TypeInv
<1>3. Len(defs) \in Nat /\ DOMAIN defs = 1..Len(defs) /\ \A i \in 1..Len(defs) : defs[i].name \in Funcs
  BY <1>2, EntryFields
<1>4. count \in Nat /\ sourceMap \in Seq(Row) /\ Len(sourceMap) \in Nat
  BY LenProperties DEF TypeInv, TypeOK
<1> HIDE DEF defs
<1>5. rows \in [1..Len(defs) -> Row]
  BY <1>3, <1>4
<1>6. rows \in Seq(Row) /\ Len(rows) = Len(defs)
  <2>1. rows \in Seq(Row)
    BY <1>3, <1>5, SeqDef
  <2> HIDE DEF rows
  <2> QED BY <1>3, <1>5, <2>1, LenProperties
<1>7. /\ sourceMap' \in Seq(Row) /\ Len(sourceMap') = Len(sourceMap) + Len(defs)
      /\ \A i \in 1..Len(sourceMap) + Len(defs) :
           sourceMap'[i] = IF i <= Len(sourceMap) THEN sourceMap[i] ELSE rows[i - Len(sourceMap)]
  <2> HIDE DEF rows, Row
  <2> QED BY <1>1, <1>4, <1>6, ConcatProperties
<1>8. \A i \in 1..Len(defs) : sourceMap'[Len(sourceMap) + i] = rows[i]
  <2> HIDE DEF rows, Row
  <2> QED BY <1>3, <1>4, <1>7
<1>9. \A i \in 1..Len(defs) : sourceMap'[Len(sourceMap) + i] = [name |-> defs[i].name, entry |-> count]
  BY <1>3, <1>8
<1>10. \A i \in 1..Len(sourceMap) : sourceMap'[i] = sourceMap[i]
  <2> HIDE DEF rows, Row
  <2> QED BY <1>3, <1>4, <1>7
<1>11. ids' = [f \in Funcs |-> IF f \in NamesOf(defs) THEN <<f, count>> ELSE ids[f]]
  BY <1>1 DEF NamesOf
<1> QED BY <1>1, <1>2, <1>7, <1>9, <1>10, <1>11 DEF defs

(* Pass1. *)
LEMMA Pass1Type ==
  ASSUME TypeInv, Pass1 PROVE TypeInv' /\ At({"compiling"})'
<1> DEFINE defs == eval.entry.defs
<1>1. /\ eval # None /\ eval.step = "checked" /\ eval.entry \in Entries
      /\ module' = DeclareAll(module, defs)
      /\ ids' = [f \in Funcs |-> IF f \in NamesOf(defs) THEN <<f, count>> ELSE ids[f]]
      /\ eval' = [eval EXCEPT !.step = "compiling"]
      /\ sourceMap' \in Seq([name : Funcs, entry : Nat])
      /\ Len(sourceMap') = Len(sourceMap) + Len(defs)
      /\ \A i \in 1..Len(sourceMap) : sourceMap'[i] = sourceMap[i]
      /\ \A i \in 1..Len(defs) :
           sourceMap'[Len(sourceMap) + i] = [name |-> defs[i].name, entry |-> count]
      /\ UNCHANGED <<checker, builder, entries, count, env, heap, roots>>
  BY Pass1Step
<1>2. /\ eval \in [step : {"checked", "compiling", "panicked"}, entry : Entries,
                   checker : Checkers, ids : Names, mapped : Nat, next : Nat \ {0}]
      /\ count \in Nat /\ count <= MaxEntries /\ Len(sourceMap) \in Nat
      /\ DOMAIN sourceMap = 1..Len(sourceMap) /\ TypeOK /\ Building
  BY <1>1, EvalForms, LenProperties DEF TypeInv, TypeOK, Building, At
<1>3. /\ checker = Checked(eval.entry, eval.checker) /\ WellTyped(eval.entry, eval.checker)
      /\ count < MaxEntries /\ eval.mapped = Len(sourceMap) /\ eval.next = 1 /\ ids = eval.ids
      /\ \A i \in 1..eval.mapped : sourceMap[i].entry < count
      /\ \A f \in Funcs : eval.ids[f] # None => eval.ids[f] \in DOMAIN module
  BY <1>1, <1>2 DEF TypeInv, BuildInv
<1>4. /\ eval' \in [step : {"checked", "compiling", "panicked"}, entry : Entries,
                    checker : Checkers, ids : Names, mapped : Nat, next : Nat \ {0}]
      /\ eval'.step = "compiling" /\ eval'.entry = eval.entry /\ eval'.checker = eval.checker
      /\ eval'.ids = eval.ids /\ eval'.mapped = eval.mapped /\ eval'.next = 1
  BY <1>1, <1>2, <1>3
<1>5. eval' \in Evals /\ eval' # None
  BY <1>4, NoneAssumption DEF Evals
<1>6. /\ DOMAIN module' = DOMAIN module \cup {<<defs[i].name, count>> : i \in DOMAIN defs}
      /\ DOMAIN module' \subseteq Symbol /\ module' \in [DOMAIN module' -> Code]
  BY <1>1, <1>2, DeclareAllIs
<1>7. Len(defs) \in Nat /\ DOMAIN defs = 1..Len(defs) /\ \A i \in 1..Len(defs) : defs[i].name \in Funcs
  BY <1>1, EntryFields
<1> HIDE DEF defs
<1>8. ids' \in Names
  <2>1. \A f \in Funcs : <<f, count>> \in Symbol
    BY <1>2 DEF Symbol
  <2> QED BY <1>1, <1>2, <2>1 DEF Names, TypeOK
<1>9. \A f \in Funcs : ids'[f] # None => ids'[f] \in DOMAIN module'
  BY <1>1, <1>2, <1>6 DEF TypeOK, NamesOf
<1>10. \A i \in 1..Len(sourceMap') : sourceMap'[i].entry < count + 1
  <2> SUFFICES ASSUME NEW i \in 1..Len(sourceMap') PROVE sourceMap'[i].entry < count + 1
    OBVIOUS
  <2>1. CASE i <= Len(sourceMap)
    <3>1. i \in 1..Len(sourceMap) /\ sourceMap'[i] = sourceMap[i] /\ sourceMap[i].entry < count
      BY <1>1, <1>2, <1>3, <2>1
    <3>2. sourceMap[i].entry \in Nat
      <4>1. sourceMap[i] \in [name : Funcs, entry : Nat]
        BY <1>2, <3>1, ElementOfSeq DEF TypeOK
      <4> QED BY <4>1
    <3> QED BY <1>2, <3>1, <3>2
  <2>2. CASE ~(i <= Len(sourceMap))
    <3>1. PICK j \in 1..Len(defs) : i = Len(sourceMap) + j
      <4>1. i - Len(sourceMap) \in 1..Len(defs) /\ i = Len(sourceMap) + (i - Len(sourceMap))
        BY <1>1, <1>2, <1>7, <2>2
      <4> QED BY <4>1
    <3>2. sourceMap'[i].entry = count
      <4>1. sourceMap'[Len(sourceMap) + j] = [name |-> defs[j].name, entry |-> count]
        BY <1>1
      <4> QED BY <3>1, <4>1
    <3> QED BY <1>2, <3>2
  <2> QED BY <2>1, <2>2
<1>11. TypeOK'
  <2>1. DOMAIN sourceMap' = 1..Len(sourceMap')
    BY <1>1, LenProperties
  <2>2. \A i \in DOMAIN sourceMap' : sourceMap'[i].entry <
          count' + (IF eval' # None /\ eval'.step \in {"compiling", "panicked"} THEN 1 ELSE 0)
    BY <1>1, <1>4, <1>5, <1>10, <2>1
  <2> QED BY <1>1, <1>2, <1>5, <1>6, <1>8, <1>9, <2>2 DEF TypeOK
<1>12. BuildInv'
  <2>1. \A i \in 1..eval'.mapped : sourceMap'[i].entry < count
    BY <1>1, <1>3, <1>4
  <2>2. eval'.mapped <= Len(sourceMap') /\ eval'.next <= Len(defs) + 2
    BY <1>1, <1>2, <1>3, <1>4, <1>7
  <2> QED BY <1>1, <1>3, <1>4, <1>5, <1>6, <2>1, <2>2 DEF BuildInv, defs
<1>13. DeclInv' /\ HeapInv'
  BY <1>1, <1>2, <1>4, <1>5 DEF TypeInv, DeclInv, HeapInv, At, Building, EnvAddrs
<1> QED BY <1>4, <1>5, <1>11, <1>12, <1>13 DEF TypeInv, At

(* What building s, with the code m and the calls given, leaves behind.     *)
Built(s, m, type, calls) ==
  /\ \/ /\ builder = "clean" /\ eval.entry.panics # eval.next
        /\ At({"compiling"})' /\ eval'.next = eval.next + 1 /\ builder' = builder
        /\ m[s].state = "declared"
        /\ module' = [m EXCEPT ![s] = [type |-> type, state |-> "defined", calls |-> calls]]
     \/ /\ ~(builder = "clean" /\ eval.entry.panics # eval.next /\ m[s].state = "declared")
        /\ At({"panicked"})' /\ module' = m
  /\ eval'.entry = eval.entry /\ eval'.checker = eval.checker
  /\ eval'.ids = eval.ids /\ eval'.mapped = eval.mapped
  /\ UNCHANGED <<checker, ids, sourceMap, entries, count, env, heap, roots>>

(* The calls in the definition being built. *)
CallsBuilt ==
  LET d == eval.entry.defs[eval.next]
  IN IF d.calls = None THEN {}
     ELSE {[to |-> ids[d.calls], type |-> TypeAt(eval.entry, eval.next, eval.checker, d.calls)]}

(* A function of the entry, or its main body, is built or panics. *)
LEMMA BuildType ==
  ASSUME TypeInv, At({"compiling"}), eval.next <= Len(eval.entry.defs) + 1,
         NEW s \in Symbol, NEW m, NEW type \in Types \cup {None},
         NEW calls \in SUBSET [to : Symbol, type : Types],
         DOMAIN module \subseteq DOMAIN m, DOMAIN m \subseteq Symbol, m \in [DOMAIN m -> Code],
         Build(s, m, type, calls), UNCHANGED <<checker, ids, sourceMap, session>>
  PROVE  TypeInv' /\ Built(s, m, type, calls)
<1>1. /\ eval # None /\ eval.step = "compiling" /\ TypeOK /\ Building
      /\ eval \in [step : {"checked", "compiling", "panicked"}, entry : Entries,
                   checker : Checkers, ids : Names, mapped : Nat, next : Nat \ {0}]
      /\ UNCHANGED <<checker, ids, sourceMap, entries, count, env, heap, roots>>
  BY EvalForms DEF TypeInv, At, Building, session
<1>2. /\ module' \in [DOMAIN m -> Code] /\ DOMAIN module' = DOMAIN m
      /\ builder' \in {"clean", "dirty"}
      /\ eval' = [eval EXCEPT !.next = @ + 1] \/ eval' = [eval EXCEPT !.step = "panicked"]
  <2>1. CASE /\ Defines(s, m, type, calls) /\ builder' = builder
             /\ eval' = [eval EXCEPT !.next = @ + 1]
    <3>1. [type |-> type, state |-> "defined", calls |-> calls] \in Code
      BY DEF Code
    <3>2. module' = [m EXCEPT ![s] = [type |-> type, state |-> "defined", calls |-> calls]]
      BY <2>1 DEF Defines
    <3> QED BY <1>1, <2>1, <3>1, <3>2 DEF TypeOK
  <2>2. CASE /\ eval' = [eval EXCEPT !.step = "panicked"] /\ module' = m
             /\ builder' = IF eval.entry.panics = eval.next THEN "dirty" ELSE builder
    BY <1>1, <2>2 DEF TypeOK
  <2> QED BY <2>1, <2>2 DEF Build
<1>3. /\ eval' \in [step : {"checked", "compiling", "panicked"}, entry : Entries,
                    checker : Checkers, ids : Names, mapped : Nat, next : Nat \ {0}]
      /\ eval'.step \in {"compiling", "panicked"} /\ eval'.entry = eval.entry
      /\ eval'.checker = eval.checker /\ eval'.ids = eval.ids /\ eval'.mapped = eval.mapped
      /\ eval'.step = "compiling" => eval'.next <= Len(eval.entry.defs) + 2
  <2>1. Len(eval.entry.defs) \in Nat
    BY <1>1, EntryFields
  <2> QED BY <1>1, <1>2, <2>1
<1>4. eval' \in Evals /\ eval' # None
  BY <1>3, NoneAssumption DEF Evals
<1>5. TypeOK'
  BY <1>1, <1>2, <1>3, <1>4 DEF TypeOK
<1>6. BuildInv'
  BY <1>1, <1>2, <1>3, <1>4 DEF TypeInv, BuildInv
<1>7. DeclInv' /\ HeapInv'
  BY <1>1, <1>3, <1>4 DEF TypeInv, DeclInv, HeapInv, At, Building, EnvAddrs
<1>8. CASE /\ builder = "clean" /\ eval.entry.panics # eval.next
           /\ Defines(s, m, type, calls) /\ builder' = builder
           /\ eval' = [eval EXCEPT !.next = @ + 1]
  BY <1>1, <1>3, <1>4, <1>5, <1>6, <1>7, <1>8 DEF TypeInv, At, Defines, Built
<1>9. CASE /\ ~(builder = "clean" /\ eval.entry.panics # eval.next /\ m[s].state = "declared")
           /\ eval' = [eval EXCEPT !.step = "panicked"] /\ module' = m
  BY <1>1, <1>3, <1>4, <1>5, <1>6, <1>7, <1>9 DEF TypeInv, At, Built
<1> QED BY <1>8, <1>9 DEF Build

(* Where the callee of the definition being built is declared above it, or  *)
(* nowhere in the entry, ids says where it is and it has a type.           *)
LEMMA CalleeKnown ==
  ASSUME CodeInv, At({"compiling"}), eval.next \in 1..Len(eval.entry.defs),
         eval.entry.defs[eval.next].calls # None
  PROVE  LET f == eval.entry.defs[eval.next].calls
             type == TypeAt(eval.entry, eval.next, eval.checker, f)
         IN /\ f \in Funcs /\ ids[f] \in Symbol /\ type \in Types
            /\ f # eval.entry.defs[eval.next].name
            /\ f \notin NamesOf(eval.entry.defs) => ids[f] = eval.ids[f] /\ type = eval.checker.funcs[f]
<1> DEFINE e == eval.entry
           f == e.defs[eval.next].calls
           type == TypeAt(e, eval.next, eval.checker, f)
<1>1. /\ e \in Entries /\ eval.checker \in Checkers /\ eval.ids \in Names /\ Building
      /\ WellTyped(e, eval.checker) /\ ids \in Names
      /\ count < MaxEntries /\ count \in Nat
  BY EvalForms, LenProperties DEF CodeInv, TypeInv, TypeOK, BuildInv, At, Building
<1>2. f \in Funcs /\ f # e.defs[eval.next].name /\ type # None
  BY <1>1, EntryFields DEF WellTyped
<1>3. Linked(eval.checker, eval.ids, eval.mapped, module, sourceMap, entries)
      /\ ids = [g \in Funcs |-> IF g \in NamesOf(e.defs) THEN <<g, count>> ELSE eval.ids[g]]
  BY <1>1 DEF CodeInv, NamesInv
<1>4. eval.next \in 1..(Len(e.defs) + 1)
  BY <1>1, EntryFields
<1>5. type \in Types
  BY <1>1, <1>2, <1>4, TypeAtType
<1> HIDE DEF f, e
<1>6. CASE f \in NamesOf(e.defs)
  <2>1. ids[f] = <<f, count>> /\ <<f, count>> \in Symbol
    BY <1>1, <1>2, <1>3, <1>6, SessionBoundsAssumption DEF Symbol
  <2> HIDE DEF type
  <2> QED BY <1>2, <1>5, <1>6, <2>1 DEF type, f, e
<1>7. CASE f \notin NamesOf(e.defs)
  <2>1. \A j \in 1..(eval.next - 1) : e.defs[j].name # f
    BY <1>1, <1>4, <1>7, EntryFields DEF NamesOf
  <2>2. type = eval.checker.funcs[f]
    BY <1>1, <1>2, <1>4, <2>1, TypeAtIs
  <2> HIDE DEF type
  <2>3. eval.ids[f] # None
    BY <1>2, <1>3, <2>2 DEF Linked
  <2>4. eval.ids[f] \in Symbol
    BY <1>1, <1>2, <2>3 DEF Names
  <2>5. ids[f] = eval.ids[f]
    BY <1>2, <1>3, <1>7
  <2> QED BY <1>2, <1>5, <1>7, <2>2, <2>4, <2>5 DEF type, f, e
<1> QED BY <1>6, <1>7

(* Pass2. *)
LEMMA Pass2Type ==
  ASSUME CodeInv, Pass2
  PROVE  /\ TypeInv'
         /\ At({"compiling"}) /\ eval.entry \in Entries /\ eval.next \in 1..Len(eval.entry.defs)
         /\ Built(<<eval.entry.defs[eval.next].name, count>>, module,
                  eval.entry.defs[eval.next].type, CallsBuilt)
<1> DEFINE e == eval.entry
           d == e.defs[eval.next]
<1>1. /\ At({"compiling"}) /\ eval.next <= Len(e.defs)
      /\ Build(<<d.name, count>>, module, d.type, CallsBuilt)
      /\ UNCHANGED <<checker, ids, sourceMap, session>>
  BY DEF Pass2, At, CallsBuilt
<1>2. /\ e \in Entries /\ eval.next \in Nat \ {0} /\ TypeOK /\ TypeInv
      /\ count \in Nat /\ count <= MaxEntries
  BY <1>1, EvalForms, LenProperties DEF CodeInv, TypeInv, TypeOK, At
<1>3. Len(e.defs) \in Nat
  BY <1>2, EntryFields
<1>4. eval.next \in 1..Len(e.defs)
  BY <1>1, <1>2, <1>3
<1>5. d.name \in Funcs /\ d.type \in Types
  BY <1>2, <1>4, EntryFields
<1>6. <<d.name, count>> \in Symbol
  BY <1>2, <1>5 DEF Symbol
<1>7. CallsBuilt \in SUBSET [to : Symbol, type : Types]
  <2> DEFINE to == ids[d.calls]
             type == TypeAt(e, eval.next, eval.checker, d.calls)
  <2>1. CallsBuilt = IF d.calls = None THEN {} ELSE {[to |-> to, type |-> type]}
    BY DEF CallsBuilt
  <2>2. d.calls # None => to \in Symbol /\ type \in Types
    BY <1>1, <1>4, CalleeKnown
  <2> HIDE DEF d, to, type
  <2> QED BY <2>1, <2>2
<1>8. eval.next <= Len(e.defs) + 1
  BY <1>3, <1>4
<1> HIDE DEF d
<1>9. TypeInv' /\ Built(<<d.name, count>>, module, d.type, CallsBuilt)
  BY <1>1, <1>2, <1>5, <1>6, <1>7, <1>8, BuildType DEF TypeOK
<1> QED BY <1>1, <1>2, <1>4, <1>9 DEF d

(* Pass3. *)
LEMMA Pass3Type ==
  ASSUME TypeInv, Pass3
  PROVE  /\ TypeInv'
         /\ At({"compiling"}) /\ eval.entry \in Entries /\ eval.next = Len(eval.entry.defs) + 1
         /\ Built(<<Main, count>>, Declare(module, <<Main, count>>, None), None, {})
         /\ <<Main, count>> \in Symbol /\ <<Main, count>> \in DOMAIN Declare(module, <<Main, count>>, None)
         /\ DOMAIN Declare(module, <<Main, count>>, None) = DOMAIN module \cup {<<Main, count>>}
         /\ \A s \in DOMAIN module : Declare(module, <<Main, count>>, None)[s] = module[s]
         /\ <<Main, count>> \notin DOMAIN module =>
              Declare(module, <<Main, count>>, None)[<<Main, count>>] =
                [type |-> None, state |-> "declared", calls |-> {}]
<1> DEFINE main == <<Main, count>>
           m == Declare(module, main, None)
<1>1. /\ At({"compiling"}) /\ eval.next = Len(eval.entry.defs) + 1
      /\ Build(main, m, None, {})
      /\ UNCHANGED <<checker, ids, sourceMap, session>>
  BY DEF Pass3, At
<1>2. /\ eval.entry \in Entries /\ eval.next \in Nat \ {0} /\ TypeOK
      /\ count \in Nat /\ count <= MaxEntries
  BY <1>1, EvalForms, LenProperties DEF TypeInv, TypeOK, At
<1>3. main \in Symbol
  BY <1>2 DEF Symbol
<1>4. /\ DOMAIN module \subseteq DOMAIN m /\ DOMAIN m \subseteq Symbol /\ m \in [DOMAIN m -> Code]
      /\ DOMAIN m = DOMAIN module \cup {main} /\ \A s \in DOMAIN module : m[s] = module[s]
      /\ main \notin DOMAIN module => m[main] = [type |-> None, state |-> "declared", calls |-> {}]
  <2> HIDE DEF main
  <2>1. [type |-> None, state |-> "declared", calls |-> {}] \in Code
    BY DEF Code
  <2> QED BY <1>2, <1>3, <2>1 DEF Declare, With, TypeOK
<1>5. /\ eval.next <= Len(eval.entry.defs) + 1
      /\ None \in Types \cup {None} /\ {} \in SUBSET [to : Symbol, type : Types]
  BY <1>1, <1>2, EntryFields
<1> HIDE DEF main, m
<1>6. TypeInv' /\ Built(main, m, None, {})
  BY <1>1, <1>2, <1>3, <1>4, <1>5, BuildType
<1> QED BY <1>1, <1>2, <1>3, <1>4, <1>6 DEF main, m

(* The entry gets its number and its source, and its code is called. *)
StartsRunning ==
  /\ entries' = Append(entries, eval.entry) /\ count' = count + 1
  /\ eval' = [step |-> "running", entry |-> eval.entry, next |-> 1, local |-> env,
              out |-> <<>>, result |-> None,
              means |-> [x \in Vars |-> IF env[x] = None THEN None ELSE heap[env[x]].bit]]

(* finalize_definitions changes the state of what is pending, and only that. *)
LEMMA FinalizeIs ==
  ASSUME TypeInv, Finalize
  PROVE  /\ At({"compiling"}) /\ eval.entry \in Entries /\ eval.next = Len(eval.entry.defs) + 2
         /\ DOMAIN module' = DOMAIN module /\ module' \in [DOMAIN module -> Code]
         /\ \A s \in DOMAIN module :
              /\ module'[s].type = module[s].type /\ module'[s].calls = module[s].calls
              /\ s \notin Pending => module'[s] = module[s]
         /\ \/ /\ \A s \in Pending : \A c \in module[s].calls : c.to \in Compiled
               /\ \A s \in Pending : module'[s].state = "final"
               /\ StartsRunning
            \/ /\ ~\A s \in Pending : \A c \in module[s].calls : c.to \in Compiled
               /\ eval' = [eval EXCEPT !.step = "panicked"]
               /\ UNCHANGED <<entries, count>>
         /\ UNCHANGED <<checker, ids, sourceMap, builder, env, heap, roots>>
<1> DEFINE linked == \A s \in Pending : \A c \in module[s].calls : c.to \in Compiled
<1>1. /\ At({"compiling"}) /\ eval.next = Len(eval.entry.defs) + 2
      /\ module' = [s \in DOMAIN module |->
                      IF s \in Pending THEN [module[s] EXCEPT !.state = IF linked THEN "final" ELSE "lost"]
                      ELSE module[s]]
      /\ UNCHANGED <<checker, ids, sourceMap, builder, env, heap, roots>>
  BY DEF Finalize, At
<1>2. eval.entry \in Entries /\ module \in [DOMAIN module -> Code]
  BY <1>1, EvalForms DEF TypeInv, TypeOK, At
<1>3. CASE linked
  <2>1. StartsRunning
    BY <1>3 DEF Finalize, StartsRunning
  <2>2. module' = [s \in DOMAIN module |->
                      IF s \in Pending THEN [module[s] EXCEPT !.state = "final"] ELSE module[s]]
    BY <1>1, <1>3
  <2>3. module' \in [DOMAIN module -> Code]
    BY <1>2, <2>2 DEF Code
  <2>4. \A s \in DOMAIN module :
              /\ module'[s].type = module[s].type /\ module'[s].calls = module[s].calls
              /\ s \notin Pending => module'[s] = module[s]
              /\ s \in Pending => module'[s].state = "final"
    BY <1>2, <2>2 DEF Code
  <2>5. Pending \subseteq DOMAIN module
    BY DEF Pending
  <2> HIDE DEF linked
  <2>6. linked /\ \A s \in Pending : module'[s].state = "final"
    BY <1>3, <2>4, <2>5
  <2>7. DOMAIN module' = DOMAIN module
    BY <2>2
  <2> QED BY <1>1, <1>2, <2>1, <2>3, <2>4, <2>6, <2>7 DEF linked
<1>4. CASE ~linked
  <2>1. eval' = [eval EXCEPT !.step = "panicked"] /\ UNCHANGED <<entries, count>>
    BY <1>4 DEF Finalize
  <2>2. module' = [s \in DOMAIN module |->
                      IF s \in Pending THEN [module[s] EXCEPT !.state = "lost"] ELSE module[s]]
    BY <1>1, <1>4
  <2>3. module' \in [DOMAIN module -> Code]
    BY <1>2, <2>2 DEF Code
  <2>4. \A s \in DOMAIN module :
              /\ module'[s].type = module[s].type /\ module'[s].calls = module[s].calls
              /\ s \notin Pending => module'[s] = module[s]
    BY <1>2, <2>2 DEF Code
  <2> QED BY <1>1, <1>2, <1>4, <2>1, <2>2, <2>3, <2>4
<1> QED BY <1>3, <1>4

(* Finalize, when everything is linked: the entry gets its number and runs. *)
LEMMA RunType ==
  ASSUME TypeInv, Finalize, StartsRunning
  PROVE  /\ TypeInv' /\ At({"running"})'
         /\ eval'.entry = eval.entry /\ eval'.next = 1 /\ eval'.local = env /\ eval'.out = <<>>
         /\ eval'.means = [x \in Vars |-> IF env[x] = None THEN None ELSE heap[env[x]].bit]
<1> DEFINE e == eval.entry
<1>1. /\ At({"compiling"}) /\ e \in Entries
      /\ DOMAIN module' = DOMAIN module /\ module' \in [DOMAIN module -> Code]
      /\ UNCHANGED <<checker, ids, sourceMap, builder, env, heap, roots>>
  BY FinalizeIs
<1>2. /\ TypeOK /\ Building /\ eval # None /\ eval.step = "compiling" /\ eval.checker \in Checkers
      /\ count \in Nat /\ count < MaxEntries /\ DOMAIN sourceMap = 1..Len(sourceMap)
      /\ MaxEntries \in Nat /\ env \in Envs /\ heap \in [DOMAIN heap -> Cell]
      /\ checker = Checked(e, eval.checker) /\ WellTyped(e, eval.checker)
      /\ eval.checker.vars \subseteq Bound(env)
      /\ EnvAddrs(env) \subseteq roots /\ roots \subseteq DOMAIN heap
  BY <1>1, EvalForms, LenProperties, SessionBoundsAssumption
     DEF TypeInv, TypeOK, BuildInv, DeclInv, HeapInv, At, Building
<1>3. /\ Len(e.stmts) \in Nat /\ DOMAIN e.stmts = 1..Len(e.stmts)
      /\ \A i \in 1..Len(e.stmts) : e.stmts[i][2] \in Vars /\ e.stmts[i][3] \in Vars
  BY <1>1, EntryFields, EntryStmt
<1>4. \A x \in Vars : env[x] # None => heap[env[x]].bit \in {0, 1} /\ env[x] \in DOMAIN heap
  BY <1>2 DEF EnvAddrs, Envs, Cell
<1>5. /\ eval'.step = "running" /\ eval'.entry = e /\ eval'.next = 1 /\ eval'.local = env
      /\ eval'.out = <<>> /\ eval'.result = None
      /\ eval'.means = [x \in Vars |-> IF env[x] = None THEN None ELSE heap[env[x]].bit]
      /\ entries' = Append(entries, e) /\ count' = count + 1
  BY DEF StartsRunning
<1> HIDE DEF e
<1>6. eval' \in Evals /\ eval' # None
  <2>1. <<>> \in Seq([name : Vars, list : Addr])
    BY EmptySeq
  <2>2. [x \in Vars |-> IF env[x] = None THEN None ELSE heap[env[x]].bit] \in Bits
    BY <1>4 DEF Bits
  <2>3. eval' \in Evals
    BY <1>1, <1>2, <2>1, <2>2 DEF Evals, StartsRunning, e
  <2> QED BY <2>3, NoneAssumption
<1>7. TypeOK'
  <2>1. entries' \in Seq(Entries) /\ Len(entries') = count'
    BY <1>1, <1>2, <1>5, AppendProperties DEF TypeOK
  <2>2. \A i \in DOMAIN sourceMap' : sourceMap'[i].entry <
          count' + (IF eval' # None /\ eval'.step \in {"compiling", "panicked"} THEN 1 ELSE 0)
    <3>1. \A i \in DOMAIN sourceMap : sourceMap[i].entry < count + 1
      BY <1>2 DEF TypeOK
    <3> QED BY <1>1, <1>2, <1>5, <3>1
  <2>3. count' <= MaxEntries
    BY <1>2, <1>5
  <2> QED BY <1>1, <1>2, <1>6, <2>1, <2>2, <2>3 DEF TypeOK
<1>8. BuildInv'
  BY <1>5, <1>6 DEF BuildInv, Building, At
<1>9. DeclInv'
  <2>1. ASSUME NEW x \in checker.vars
        PROVE  x \in Bound(env) \/ BoundLater(e, 1 - 1, x)
    <3>1. checker.vars = eval.checker.vars \cup {s[2] : s \in {t \in ToSet(e.stmts) : Binds(t)}}
      BY <1>2 DEF Checked
    <3>2. CASE x \in eval.checker.vars
      BY <1>2, <3>2
    <3>3. CASE x \in {s[2] : s \in {t \in ToSet(e.stmts) : Binds(t)}}
      <4>1. PICK j \in DOMAIN e.stmts : Binds(e.stmts[j]) /\ e.stmts[j][2] = x
        BY <3>3 DEF ToSet
      <4> QED BY <1>3, <4>1 DEF BoundLater
    <3> QED BY <2>1, <3>1, <3>2, <3>3
  <2>2. ASSUME NEW i \in 1..Len(e.stmts), e.stmts[i][1] # "new"
        PROVE  \/ e.stmts[i][3] \in Bound(env)
               \/ \E j \in 1..(i - 1) : Binds(e.stmts[j]) /\ e.stmts[j][2] = e.stmts[i][3]
    <3>1. e.stmts[i][3] \in eval.checker.vars \cup {e.stmts[j][2] : j \in {k \in 1..(i - 1) : Binds(e.stmts[k])}}
      BY <1>2, <1>3, <2>2 DEF WellTyped
    <3> QED BY <1>2, <3>1
  <2>3. At({"running"})' /\ ~Building'
    BY <1>5, <1>6 DEF At, Building
  <2> QED BY <1>1, <1>5, <2>1, <2>2, <2>3 DEF DeclInv
<1>10. HeapInv'
  <2>1. InUse(eval') \subseteq DOMAIN heap
    <3>1. InUse(eval') = ({eval'.out[i].list : i \in DOMAIN eval'.out}
                      \cup {eval'.local[eval'.entry.stmts[i][3]] : i \in eval'.next..Len(eval'.entry.stmts)})
                     \ {None}
      <4>1. eval'.entry \in Entries /\ eval'.next \in Nat \ {0}
        BY <1>1, <1>5
      <4> QED BY <4>1, InUseIs
    <3>2. DOMAIN eval'.out = {}
      BY <1>5
    <3>3. \A i \in 1..Len(e.stmts) : env[e.stmts[i][3]] # None => env[e.stmts[i][3]] \in DOMAIN heap
      BY <1>3, <1>4
    <3> QED BY <1>5, <3>1, <3>2, <3>3
  <2>2. At({"running"})' /\ ~At({"done"})'
    BY <1>5, <1>6 DEF At
  <2>3. \A x \in Vars : eval'.local[x] # None => eval'.means[x] \in {0, 1}
    BY <1>4, <1>5
  <2>4. eval'.next <= Len(eval'.entry.stmts) + 1
    BY <1>3, <1>5
  <2> QED BY <1>1, <1>2, <1>5, <2>1, <2>2, <2>3, <2>4 DEF HeapInv, EnvAddrs
<1> QED BY <1>5, <1>6, <1>7, <1>8, <1>9, <1>10 DEF TypeInv, At, e

(* Finalize. *)
LEMMA FinalizeType ==
  ASSUME TypeInv, Finalize PROVE TypeInv'
<1>1. /\ At({"compiling"})
      /\ DOMAIN module' = DOMAIN module /\ module' \in [DOMAIN module -> Code]
      /\ UNCHANGED <<checker, ids, sourceMap, builder, env, heap, roots>>
  BY FinalizeIs
<1>2. CASE eval' = [eval EXCEPT !.step = "panicked"] /\ UNCHANGED <<entries, count>>
  <2>1. /\ eval # None /\ eval.step = "compiling" /\ TypeOK /\ Building
        /\ eval \in [step : {"checked", "compiling", "panicked"}, entry : Entries,
                     checker : Checkers, ids : Names, mapped : Nat, next : Nat \ {0}]
    BY <1>1, EvalForms DEF TypeInv, At, Building
  <2>2. /\ eval' \in [step : {"checked", "compiling", "panicked"}, entry : Entries,
                    checker : Checkers, ids : Names, mapped : Nat, next : Nat \ {0}]
        /\ eval'.step = "panicked" /\ eval'.entry = eval.entry
        /\ eval'.checker = eval.checker /\ eval'.ids = eval.ids /\ eval'.mapped = eval.mapped
    BY <1>2, <2>1
  <2>3. eval' \in Evals /\ eval' # None
    BY <2>2, NoneAssumption DEF Evals
  <2>4. TypeOK'
    BY <1>1, <1>2, <2>1, <2>2, <2>3 DEF TypeOK
  <2>5. BuildInv'
    BY <1>1, <1>2, <2>1, <2>2, <2>3 DEF TypeInv, BuildInv
  <2>6. DeclInv' /\ HeapInv'
    BY <1>1, <1>2, <2>1, <2>2, <2>3 DEF TypeInv, DeclInv, HeapInv, At, Building, EnvAddrs
  <2> QED BY <2>4, <2>5, <2>6 DEF TypeInv
<1> QED BY <1>2, FinalizeIs, RunType

(* Recover. *)
LEMMA RecoverType ==
  ASSUME TypeInv, Recover
  PROVE  /\ TypeInv' /\ At({"panicked"}) /\ eval' = None /\ checker' = eval.checker /\ ids' = eval.ids
         /\ builder' = "clean" /\ UNCHANGED <<module, entries, count, env, heap, roots>>
         /\ Len(sourceMap') = eval.mapped
         /\ \A i \in 1..eval.mapped : sourceMap'[i] = sourceMap[i]
<1>1. /\ At({"panicked"}) /\ checker' = eval.checker /\ ids' = eval.ids
      /\ sourceMap' = SubSeq(sourceMap, 1, eval.mapped) /\ builder' = "clean" /\ eval' = None
      /\ UNCHANGED <<module, entries, count, env, heap, roots>>
  BY DEF Recover, RecoverTo, session, At
<1>2. /\ eval \in [step : {"checked", "compiling", "panicked"}, entry : Entries,
                   checker : Checkers, ids : Names, mapped : Nat, next : Nat \ {0}]
      /\ TypeOK /\ Building /\ sourceMap \in Seq([name : Funcs, entry : Nat])
      /\ count \in Nat /\ Len(sourceMap) \in Nat /\ eval.mapped <= Len(sourceMap)
      /\ \A i \in 1..eval.mapped : sourceMap[i].entry < count
      /\ \A f \in Funcs : eval.ids[f] # None => eval.ids[f] \in DOMAIN module
      /\ eval.checker.vars \subseteq Bound(env)
  BY <1>1, EvalForms, LenProperties DEF TypeInv, TypeOK, BuildInv, DeclInv, At, Building
<1>3. /\ sourceMap' \in Seq([name : Funcs, entry : Nat]) /\ Len(sourceMap') = eval.mapped
      /\ \A i \in 1..eval.mapped : sourceMap'[i] = sourceMap[i]
  <2>1. \A i \in 1..eval.mapped : sourceMap[i] \in [name : Funcs, entry : Nat]
    <3>1. eval.mapped \in Nat /\ \A i \in 1..eval.mapped : i \in 1..Len(sourceMap)
      BY <1>2
    <3> QED BY <1>2, <3>1, ElementOfSeq
  <2>2. /\ SubSeq(sourceMap, 1, eval.mapped) \in Seq([name : Funcs, entry : Nat])
        /\ Len(SubSeq(sourceMap, 1, eval.mapped)) = IF 1 <= eval.mapped THEN eval.mapped - 1 + 1 ELSE 0
        /\ \A i \in 1..(eval.mapped - 1 + 1) : SubSeq(sourceMap, 1, eval.mapped)[i] = sourceMap[1 + i - 1]
    BY <1>2, <2>1, SubSeqProperties
  <2>3. eval.mapped \in Nat
    BY <1>2
  <2> QED BY <1>1, <2>2, <2>3
<1>4. DOMAIN sourceMap' = 1..eval.mapped
  BY <1>3, LenProperties
<1>5. TypeOK'
  <2>1. \A i \in DOMAIN sourceMap' : sourceMap'[i].entry < count
    BY <1>2, <1>3, <1>4
  <2> QED BY <1>1, <1>2, <1>3, <2>1 DEF TypeOK
<1>6. BuildInv' /\ DeclInv' /\ HeapInv'
  BY <1>1, <1>2 DEF TypeInv, BuildInv, DeclInv, HeapInv, At, Building, EnvAddrs
<1> QED BY <1>1, <1>3, <1>5, <1>6 DEF TypeInv

(* What a step of the program at x leaves behind, field by field. *)
Stepped(x, a, h, bit, out, result) ==
  /\ eval \in [step : {"running"}, entry : Entries, next : Nat \ {0}, local : Envs,
               out : Seq([name : Vars, list : Addr]), result : Addr \cup {None}, means : Bits]
  /\ heap' = h
  /\ eval'.step = "running" /\ eval'.entry = eval.entry /\ eval'.next = eval.next + 1
  /\ eval'.out = out /\ eval'.result = result
  /\ eval'.local = [eval.local EXCEPT ![x] = a] /\ eval'.means = [eval.means EXCEPT ![x] = bit]
  /\ UNCHANGED <<checker, ids, sourceMap, builder, module, entries, count, env, roots>>

(* That is what Step leaves behind, and it is an eval again. *)
LEMMA StepIs ==
  ASSUME TypeInv, At({"running"}), NEW x \in Vars, NEW a, NEW h, NEW bit, NEW out, NEW result,
         Step(x, a, h, bit, out, result)
  PROVE  /\ Stepped(x, a, h, bit, out, result)
         /\ a \in Addr /\ bit \in {0, 1} /\ result \in Addr \cup {None}
              /\ out \in Seq([name : Vars, list : Addr])
              => eval' \in Evals /\ eval' # None
<1>1. eval \in [step : {"running"}, entry : Entries, next : Nat \ {0}, local : Envs,
                out : Seq([name : Vars, list : Addr]), result : Addr \cup {None}, means : Bits]
  BY EvalForms DEF TypeInv, At
<1>2. a \in Addr => [eval.local EXCEPT ![x] = a] \in Envs
  BY <1>1 DEF Envs
<1>3. bit \in {0, 1} => [eval.means EXCEPT ![x] = bit] \in Bits
  BY <1>1 DEF Bits
<1>4. /\ heap' = h
      /\ eval'.step = "running" /\ eval'.entry = eval.entry /\ eval'.next = eval.next + 1
      /\ eval'.out = out /\ eval'.result = result
      /\ eval'.local = [eval.local EXCEPT ![x] = a] /\ eval'.means = [eval.means EXCEPT ![x] = bit]
      /\ UNCHANGED <<checker, ids, sourceMap, builder, module, entries, count, env, roots>>
  BY DEF Step
<1>5. ASSUME a \in Addr, bit \in {0, 1}, result \in Addr \cup {None},
             out \in Seq([name : Vars, list : Addr])
      PROVE  eval' \in Evals /\ eval' # None
  <2>1. eval' = [step |-> "running", entry |-> eval.entry, next |-> eval.next + 1, out |-> out,
              result |-> result, local |-> [eval.local EXCEPT ![x] = a],
              means |-> [eval.means EXCEPT ![x] = bit]]
    BY DEF Step
  <2>2. eval.next + 1 \in Nat \ {0}
    BY <1>1
  <2>3. eval' \in Evals
    BY <1>1, <1>2, <1>3, <1>5, <2>1, <2>2 DEF Evals
  <2> QED BY <2>3, NoneAssumption
<1> QED BY <1>1, <1>4, <1>5 DEF Stepped

(* A statement that puts the list at a, allocated, into its variable x. *)
LEMMA StepType ==
  ASSUME TypeInv, At({"running"}), eval.next <= Len(eval.entry.stmts),
         NEW x \in Vars, x = eval.entry.stmts[eval.next][2],
         NEW a \in Addr, NEW h, NEW bit \in {0, 1}, NEW out, NEW result,
         DOMAIN heap \subseteq DOMAIN h, a \in DOMAIN h, DOMAIN h \subseteq Addr, h \in [DOMAIN h -> Cell],
         \/ out = Append(eval.out, [name |-> x, list |-> a]) /\ result = a
         \/ out = eval.out /\ result = None /\ ~Binds(eval.entry.stmts[eval.next]),
         Step(x, a, h, bit, out, result)
  PROVE  TypeInv'
<1> DEFINE e == eval.entry
           Slot == [name : Vars, list : Addr]
<1>1. /\ eval \in [step : {"running"}, entry : Entries, next : Nat \ {0}, local : Envs,
                   out : Seq(Slot), result : Addr \cup {None}, means : Bits]
      /\ heap' = h
      /\ eval'.step = "running" /\ eval'.entry = e /\ eval'.next = eval.next + 1
      /\ eval'.out = out /\ eval'.result = result
      /\ eval'.local = [eval.local EXCEPT ![x] = a] /\ eval'.means = [eval.means EXCEPT ![x] = bit]
      /\ UNCHANGED <<checker, ids, sourceMap, builder, module, entries, count, env, roots>>
  <2>1. Stepped(x, a, h, bit, out, result)
    BY StepIs
  <2> QED BY <2>1 DEF Stepped
<1>2. /\ e \in Entries /\ Len(e.stmts) \in Nat /\ DOMAIN e.stmts = 1..Len(e.stmts)
      /\ \A i \in 1..Len(e.stmts) : e.stmts[i][2] \in Vars /\ e.stmts[i][3] \in Vars
  BY <1>1, EntryFields, EntryStmt
<1>3. /\ TypeOK /\ eval # None /\ eval.step = "running" /\ ~Building
      /\ eval.next \in Nat \ {0} /\ InUse(eval) \subseteq DOMAIN heap
      /\ EnvAddrs(env) \subseteq roots /\ roots \subseteq DOMAIN heap
  BY <1>1 DEF TypeInv, HeapInv, At, Building
<1>4. /\ out \in Seq(Slot)
      /\ \A i \in DOMAIN eval.out : i \in DOMAIN out /\ out[i] = eval.out[i]
      /\ \A i \in DOMAIN out : out[i].list = a \/ (i \in DOMAIN eval.out /\ out[i] = eval.out[i])
      /\ result # None => result = a /\ \E i \in DOMAIN out : out[i].list = a
      /\ Binds(e.stmts[eval.next]) => \E i \in DOMAIN out : out[i].name = x
      /\ result \in Addr \cup {None}
  <2>1. /\ eval.out \in Seq(Slot) /\ Len(eval.out) \in Nat /\ DOMAIN eval.out = 1..Len(eval.out)
    BY <1>1, LenProperties
  <2>2. CASE out = eval.out /\ result = None /\ ~Binds(eval.entry.stmts[eval.next])
    BY <2>1, <2>2
  <2>3. CASE out = Append(eval.out, [name |-> x, list |-> a]) /\ result = a
    <3>1. /\ out \in Seq(Slot) /\ Len(out) = Len(eval.out) + 1
          /\ \A i \in 1..Len(eval.out) : out[i] = eval.out[i]
          /\ out[Len(eval.out) + 1] = [name |-> x, list |-> a]
      BY <2>1, <2>3, AppendProperties
    <3>2. DOMAIN out = 1..(Len(eval.out) + 1)
      BY <3>1, LenProperties
    <3>3. Len(eval.out) + 1 \in DOMAIN out /\ out[Len(eval.out) + 1].name = x
            /\ out[Len(eval.out) + 1].list = a
      BY <2>1, <3>1, <3>2
    <3>4. \A i \in DOMAIN out : out[i].list = a \/ (i \in DOMAIN eval.out /\ out[i] = eval.out[i])
      <4> SUFFICES ASSUME NEW i \in DOMAIN out PROVE out[i].list = a \/ (i \in DOMAIN eval.out /\ out[i] = eval.out[i])
        OBVIOUS
      <4>1. i = Len(eval.out) + 1 \/ i \in 1..Len(eval.out)
        BY <2>1, <3>2
      <4> QED BY <2>1, <3>1, <3>3, <4>1
    <3>5. \A i \in DOMAIN eval.out : i \in DOMAIN out /\ out[i] = eval.out[i]
      BY <2>1, <3>1, <3>2
    <3>6. (\E i \in DOMAIN out : out[i].list = a) /\ (\E i \in DOMAIN out : out[i].name = x)
      BY <3>3
    <3> HIDE DEF e
    <3> QED BY <2>3, <3>1, <3>4, <3>5, <3>6
  <2> QED BY <2>2, <2>3
<1>5. eval' \in Evals /\ eval' # None
  BY <1>4, StepIs
<1> HIDE DEF e
<1>6. TypeOK'
  <2>1. \A i \in DOMAIN sourceMap : sourceMap[i].entry < count
    <3>1. count \in Nat /\ ~(eval # None /\ eval.step \in {"compiling", "panicked"})
      BY <1>3, LenProperties DEF TypeOK
    <3> QED BY <1>3, <3>1 DEF TypeOK
  <2>2. \A i \in DOMAIN sourceMap' : sourceMap'[i].entry <
          count' + (IF eval' # None /\ eval'.step \in {"compiling", "panicked"} THEN 1 ELSE 0)
    <3>1. count \in Nat
      BY <1>3, LenProperties DEF TypeOK
    <3> QED BY <1>1, <2>1, <3>1
  <2> QED BY <1>1, <1>3, <1>5, <2>2 DEF TypeOK
<1>7. BuildInv'
  BY <1>1 DEF BuildInv, Building, At
<1>8. At({"running"})' /\ ~Building' /\ ~At({"done"})'
  BY <1>1, <1>5 DEF At, Building
<1>9. /\ \A y \in checker.vars :
            \/ y \in Bound(env)
            \/ \E i \in DOMAIN eval.out : eval.out[i].name = y
            \/ BoundLater(e, eval.next - 1, y)
      /\ \A i \in eval.next..Len(e.stmts) : e.stmts[i][1] # "new" =>
            \/ e.stmts[i][3] \in Bound(eval.local)
            \/ \E j \in eval.next..(i - 1) : Binds(e.stmts[j]) /\ e.stmts[j][2] = e.stmts[i][3]
  BY DEF TypeInv, DeclInv, e
<1>10. a # None /\ Bound(eval'.local) = Bound(eval.local) \cup {x}
  <2>1. a # None /\ eval.local \in [Vars -> Addr \cup {None}]
    BY <1>1, NoneAssumption DEF Envs
  <2> QED BY <1>1, <2>1 DEF Bound
<1>11. DeclInv'
  <2>1. ASSUME NEW y \in checker.vars
        PROVE  \/ y \in Bound(env)
               \/ \E i \in DOMAIN out : out[i].name = y
               \/ BoundLater(e, eval.next, y)
    <3>1. CASE BoundLater(e, eval.next - 1, y)
      <4>1. PICK j \in DOMAIN e.stmts : j > eval.next - 1 /\ Binds(e.stmts[j]) /\ e.stmts[j][2] = y
        BY <3>1 DEF BoundLater
      <4>2. CASE j = eval.next
        BY <1>4, <4>1, <4>2 DEF e
      <4>3. CASE j # eval.next
        <5>1. j > eval.next
          BY <1>2, <1>3, <4>1, <4>3
        <5> QED BY <4>1, <5>1 DEF BoundLater
      <4> QED BY <4>2, <4>3
    <3>2. CASE \E i \in DOMAIN eval.out : eval.out[i].name = y
      BY <1>4, <3>2
    <3> QED BY <1>9, <3>1, <3>2
  <2>2. ASSUME NEW i \in (eval.next + 1)..Len(e.stmts), e.stmts[i][1] # "new"
        PROVE  \/ e.stmts[i][3] \in Bound(eval'.local)
               \/ \E j \in (eval.next + 1)..(i - 1) : Binds(e.stmts[j]) /\ e.stmts[j][2] = e.stmts[i][3]
    <3>1. i \in eval.next..Len(e.stmts)
      BY <1>2, <1>3
    <3>2. CASE e.stmts[i][3] \in Bound(eval.local)
      BY <1>10, <3>2
    <3>3. ASSUME NEW j \in eval.next..(i - 1), Binds(e.stmts[j]), e.stmts[j][2] = e.stmts[i][3]
          PROVE  \/ e.stmts[i][3] \in Bound(eval'.local)
                 \/ \E k \in (eval.next + 1)..(i - 1) : Binds(e.stmts[k]) /\ e.stmts[k][2] = e.stmts[i][3]
      <4>1. CASE j = eval.next
        BY <1>10, <3>3, <4>1 DEF e
      <4>2. CASE j # eval.next
        <5>1. j \in (eval.next + 1)..(i - 1)
          BY <1>3, <3>1, <4>2
        <5> QED BY <3>3, <5>1
      <4> QED BY <4>1, <4>2
    <3> QED BY <1>9, <2>2, <3>1, <3>2, <3>3
  <2>3. /\ eval'.next - 1 = eval.next /\ eval'.next = eval.next + 1 /\ eval'.out = out /\ eval'.entry = e
        /\ checker' = checker /\ env' = env
    BY <1>1, <1>3
  <2> HIDE DEF e
  <2>4. /\ \A y \in checker'.vars :
              \/ y \in Bound(env')
              \/ \E i \in DOMAIN eval'.out : eval'.out[i].name = y
              \/ BoundLater(eval'.entry, eval'.next - 1, y)
        /\ \A i \in eval'.next..Len(eval'.entry.stmts) : eval'.entry.stmts[i][1] # "new" =>
              \/ eval'.entry.stmts[i][3] \in Bound(eval'.local)
              \/ \E j \in eval'.next..(i - 1) :
                    Binds(eval'.entry.stmts[j]) /\ eval'.entry.stmts[j][2] = eval'.entry.stmts[i][3]
    BY <2>1, <2>2, <2>3
  <2> QED BY <1>8, <2>4 DEF DeclInv
<1>12. HeapInv'
  <2>1. InUse(eval) = ({eval.out[i].list : i \in DOMAIN eval.out}
                      \cup {eval.local[eval.entry.stmts[i][3]] : i \in eval.next..Len(eval.entry.stmts)})
                     \ {None}
    BY <1>1, InUseIs
  <2>2. InUse(eval') = ({eval'.out[i].list : i \in DOMAIN eval'.out}
                      \cup {eval'.local[eval'.entry.stmts[i][3]] : i \in eval'.next..Len(eval'.entry.stmts)})
                     \ {None}
    <3>1. eval'.entry \in Entries /\ eval'.next \in Nat \ {0}
      BY <1>1, <1>2, <1>3
    <3> QED BY <3>1, InUseIs
  <2>3. \A i \in (eval.next + 1)..Len(e.stmts) :
          eval'.local[e.stmts[i][3]] \in {a, eval.local[e.stmts[i][3]]} /\ i \in eval.next..Len(e.stmts)
    <3> SUFFICES ASSUME NEW i \in (eval.next + 1)..Len(e.stmts)
                 PROVE  eval'.local[e.stmts[i][3]] \in {a, eval.local[e.stmts[i][3]]} /\ i \in eval.next..Len(e.stmts)
      OBVIOUS
    <3>1. i \in 1..Len(e.stmts) /\ i \in eval.next..Len(e.stmts)
      BY <1>2, <1>3
    <3>2. e.stmts[i][3] \in Vars
      BY <1>2, <3>1
    <3> QED BY <1>1, <3>1, <3>2 DEF Envs
  <2>4. InUse(eval') \subseteq InUse(eval) \cup {a}
    <3> SUFFICES ASSUME NEW b \in InUse(eval'), b # a PROVE b \in InUse(eval)
      OBVIOUS
    <3>1. b # None
      BY <2>2
    <3>2. CASE \E i \in DOMAIN eval'.out : eval'.out[i].list = b
      <4>1. \E i \in DOMAIN eval.out : eval.out[i].list = b
        BY <1>1, <1>4, <3>2
      <4> QED BY <2>1, <3>1, <4>1
    <3>3. CASE \E i \in eval'.next..Len(eval'.entry.stmts) : eval'.local[eval'.entry.stmts[i][3]] = b
      <4>0. eval'.next = eval.next + 1 /\ eval'.entry = e
        BY <1>1
      <4> HIDE DEF e
      <4>1. PICK i \in (eval.next + 1)..Len(e.stmts) : eval'.local[e.stmts[i][3]] = b
        BY <3>3, <4>0
      <4>2. i \in eval.next..Len(e.stmts) /\ eval.local[e.stmts[i][3]] = b
        BY <2>3, <4>1
      <4> QED BY <2>1, <3>1, <4>2 DEF e
    <3> QED BY <2>2, <3>2, <3>3
  <2>5. \A y \in Vars : eval.local[y] # None => eval.means[y] \in {0, 1}
    BY <1>3 DEF TypeInv, HeapInv, At
  <2>6. \A y \in Vars : eval'.local[y] # None => eval'.means[y] \in {0, 1}
    BY <1>1, <2>5 DEF Envs, Bits
  <2>7. eval'.next <= Len(eval'.entry.stmts) + 1
    BY <1>1, <1>2, <1>3 DEF e
  <2>8. InUse(eval') \subseteq DOMAIN heap'
    BY <1>1, <1>3, <2>4
  <2>9. EnvAddrs(env') \subseteq roots' /\ roots' \subseteq DOMAIN heap'
    BY <1>1, <1>3 DEF EnvAddrs
  <2>10. eval'.result # None => \E i \in DOMAIN eval'.out : eval'.out[i].list = eval'.result
    BY <1>1, <1>4
  <2> QED BY <1>8, <2>6, <2>7, <2>8, <2>9, <2>10 DEF HeapInv
<1> QED BY <1>6, <1>7, <1>11, <1>12 DEF TypeInv

(* There is an address to be had when there is room. *)
LEMMA FreshIs == Room(heap) => Fresh(heap) \in Addr /\ Fresh(heap) \notin DOMAIN heap
BY DEF Room, Fresh

(* A statement that runs: its variables, and that the one it reads is bound *)
(* to an allocated list.                                                   *)
LEMMA RunningIs ==
  ASSUME TypeInv, NEW op, Running(op)
  PROVE  LET s == eval.entry.stmts[eval.next] IN
         /\ At({"running"}) /\ eval.next <= Len(eval.entry.stmts) /\ eval.entry \in Entries
         /\ eval.next \in 1..Len(eval.entry.stmts)
         /\ s[1] = op /\ s[2] \in Vars /\ s[3] \in Vars /\ (op # "copy" => s[3] = s[2])
         /\ op # "new" => eval.local[s[3]] # None
         /\ eval.local[s[3]] # None =>
              /\ eval.local[s[3]] \in DOMAIN heap /\ eval.local[s[3]] \in Addr
              /\ heap[eval.local[s[3]]] \in Cell /\ eval.means[s[3]] \in {0, 1}
<1> DEFINE e == eval.entry
           s == e.stmts[eval.next]
           a == eval.local[s[3]]
<1>1. At({"running"}) /\ eval.next <= Len(e.stmts) /\ s[1] = op
  BY DEF Running, At
<1>2. /\ eval \in [step : {"running"}, entry : Entries, next : Nat \ {0}, local : Envs,
                   out : Seq([name : Vars, list : Addr]), result : Addr \cup {None}, means : Bits]
      /\ Len(e.stmts) \in Nat
  BY <1>1, EvalForms, EntryFields DEF TypeInv, At
<1>3. eval.next \in 1..Len(e.stmts)
  BY <1>1, <1>2
<1>4. s[2] \in Vars /\ s[3] \in Vars /\ (op # "copy" => s[3] = s[2])
  BY <1>1, <1>2, <1>3, EntryStmt
<1>5. op # "new" => a # None
  <2>1. eval.next \in eval.next..Len(e.stmts) /\ ~\E j \in eval.next..(eval.next - 1) : TRUE
    BY <1>3
  <2>2. \A i \in eval.next..Len(eval.entry.stmts) : eval.entry.stmts[i][1] # "new" =>
            \/ eval.entry.stmts[i][3] \in Bound(eval.local)
            \/ \E j \in eval.next..(i - 1) :
                 Binds(eval.entry.stmts[j]) /\ eval.entry.stmts[j][2] = eval.entry.stmts[i][3]
    BY <1>1 DEF TypeInv, DeclInv
  <2> QED BY <1>1, <2>1, <2>2 DEF Bound
<1>6. ASSUME a # None
      PROVE  a \in DOMAIN heap /\ a \in Addr /\ heap[a] \in Cell /\ eval.means[s[3]] \in {0, 1}
  <2>1. InUse(eval) = ({eval.out[i].list : i \in DOMAIN eval.out}
                      \cup {eval.local[eval.entry.stmts[i][3]] : i \in eval.next..Len(eval.entry.stmts)})
                     \ {None}
    BY <1>2, InUseIs
  <2>2. eval.next \in eval.next..Len(e.stmts)
    BY <1>3
  <2>3. a \in InUse(eval)
    BY <1>6, <2>1, <2>2
  <2> QED BY <1>1, <1>4, <1>6, <2>3 DEF TypeInv, TypeOK, HeapInv
<1> QED BY <1>1, <1>2, <1>3, <1>4, <1>5, <1>6

(* The same in the pieces the steps need: where the entry stands and what   *)
(* it is about to run; its variables; and the list it reads.               *)
LEMMA RunningRow ==
  ASSUME TypeInv, NEW op, Running(op)
  PROVE  /\ At({"running"}) /\ eval.next <= Len(eval.entry.stmts)
         /\ eval.entry.stmts[eval.next][1] = op
BY DEF Running, At

LEMMA RunningVars ==
  ASSUME TypeInv, NEW op, Running(op)
  PROVE  LET s == eval.entry.stmts[eval.next] IN
         s[2] \in Vars /\ s[3] \in Vars /\ (op # "copy" => s[3] = s[2])
BY RunningIs

LEMMA RunningReads ==
  ASSUME TypeInv, NEW op, Running(op), op # "new"
  PROVE  LET y == eval.entry.stmts[eval.next][3]
             a == eval.local[y]
         IN  a # None /\ a \in DOMAIN heap /\ a \in Addr /\ heap[a] \in Cell /\ eval.means[y] \in {0, 1}
BY RunningIs

(* A cell put at an address of the heap. *)
LEMMA WithIs ==
  ASSUME TypeOK, NEW a \in Addr, NEW cell \in Cell
  PROVE  LET h == With(heap, a, cell) IN
         /\ DOMAIN h = DOMAIN heap \cup {a} /\ DOMAIN h \subseteq Addr /\ h \in [DOMAIN h -> Cell]
         /\ h[a] = cell /\ \A b \in DOMAIN heap : b # a => h[b] = heap[b]
BY DEF With, TypeOK

(* let x = [..], field by field. *)
LEMMA NewIs ==
  ASSUME TypeInv, NewStmt
  PROVE  LET x == eval.entry.stmts[eval.next][2]
             a == Fresh(heap)
             cell == [bit |-> 0, shared |-> FALSE]
         IN /\ Running("new") /\ x \in Vars /\ a \in Addr /\ a \notin DOMAIN heap /\ cell \in Cell
            /\ Step(x, a, With(heap, a, cell), 0, Append(eval.out, [name |-> x, list |-> a]), a)
<1>1. Running("new") /\ Room(heap)
  BY DEF NewStmt
<1>2. eval.entry.stmts[eval.next][2] \in Vars
  BY <1>1, RunningIs
<1> QED BY <1>1, <1>2, FreshIs DEF NewStmt, Bind, Cell

(* { x = [..] }, field by field. *)
LEMMA BlockIs ==
  ASSUME TypeInv, BlockStmt
  PROVE  LET x == eval.entry.stmts[eval.next][2]
             a == Fresh(heap)
             cell == [bit |-> 0, shared |-> FALSE]
         IN /\ Running("block") /\ x \in Vars /\ a \in Addr /\ a \notin DOMAIN heap /\ cell \in Cell
            /\ Step(x, a, With(heap, a, cell), 0, eval.out, None)
<1>1. Running("block") /\ Room(heap)
  BY DEF BlockStmt
<1>2. eval.entry.stmts[eval.next][2] \in Vars
  BY <1>1, RunningIs
<1> QED BY <1>1, <1>2, FreshIs DEF BlockStmt, Cell

(* let x = y, field by field. *)
LEMMA CopyIs ==
  ASSUME TypeInv, CopyStmt
  PROVE  LET s == eval.entry.stmts[eval.next]
             a == eval.local[s[3]]
             h == CopyMarks(heap, a)
         IN /\ Running("copy") /\ s[2] \in Vars /\ s[3] \in Vars
            /\ a \in Addr /\ a \in DOMAIN heap /\ a # None
            /\ eval.means[s[3]] \in {0, 1}
            /\ Step(s[2], a, h, eval.means[s[3]], Append(eval.out, [name |-> s[2], list |-> a]), a)
            /\ DOMAIN h = DOMAIN heap /\ h \in [DOMAIN heap -> Cell]
            /\ h[a].shared /\ \A b \in DOMAIN heap : h[b].bit = heap[b].bit /\ (heap[b].shared => h[b].shared)
<1> DEFINE s == eval.entry.stmts[eval.next]
           a == eval.local[s[3]]
           h == CopyMarks(heap, a)
<1>1. Running("copy")
  BY DEF CopyStmt
<1>2. /\ s[2] \in Vars /\ s[3] \in Vars /\ a # None
      /\ a \in Addr /\ a \in DOMAIN heap /\ eval.means[s[3]] \in {0, 1}
  <2>1. s[2] \in Vars /\ s[3] \in Vars
    BY <1>1, RunningVars
  <2>2. a # None /\ a \in Addr /\ a \in DOMAIN heap /\ eval.means[s[3]] \in {0, 1}
    BY <1>1, RunningReads
  <2> QED BY <2>1, <2>2
<1>3. Step(s[2], a, h, eval.means[s[3]], Append(eval.out, [name |-> s[2], list |-> a]), a)
  BY DEF CopyStmt, Bind
<1> HIDE DEF s, a
<1>4. heap \in [DOMAIN heap -> Cell]
  BY DEF TypeInv, TypeOK
<1>5. DOMAIN h = DOMAIN heap /\ \A b \in DOMAIN heap : h[b] = IF b = a THEN [heap[a] EXCEPT !.shared = TRUE] ELSE heap[b]
  BY <1>4 DEF CopyMarks
<1>6. h = [b \in DOMAIN heap |-> h[b]]
  BY DEF CopyMarks
<1> HIDE DEF h
<1>7. ASSUME NEW b \in DOMAIN heap
      PROVE  h[b] \in Cell /\ h[b].bit = heap[b].bit /\ (heap[b].shared => h[b].shared) /\ (b = a => h[b].shared)
  <2>1. heap[b] \in Cell
    BY <1>4
  <2>2. [heap[b] EXCEPT !.shared = TRUE] \in Cell
        /\ [heap[b] EXCEPT !.shared = TRUE].bit = heap[b].bit /\ [heap[b] EXCEPT !.shared = TRUE].shared
    BY <2>1 DEF Cell
  <2> QED BY <1>5, <2>1, <2>2
<1>8. h \in [DOMAIN heap -> Cell]
  BY <1>6, <1>7
<1> QED BY <1>1, <1>2, <1>3, <1>5, <1>7, <1>8 DEF s, a, h

(* push(x, ..) or x[0] = .., field by field. *)
LEMMA WriteIs ==
  ASSUME TypeInv, WriteStmt
  PROVE  LET x == eval.entry.stmts[eval.next][2]
             a == eval.local[x]
             at == IF heap[a].shared THEN Fresh(heap) ELSE a
             cell == [bit |-> 1 - heap[a].bit, shared |-> FALSE]
         IN /\ Running("write") /\ x \in Vars /\ at \in Addr /\ cell \in Cell
            /\ a \in DOMAIN heap /\ a # None /\ eval.means[x] \in {0, 1} /\ 1 - eval.means[x] \in {0, 1}
            /\ heap[a].bit \in {0, 1}
            /\ heap[a].shared => at \notin DOMAIN heap
            /\ ~heap[a].shared => at = a
            /\ Step(x, at, With(heap, at, cell), 1 - eval.means[x], eval.out, None)
<1> DEFINE x == eval.entry.stmts[eval.next][2]
           a == eval.local[x]
           at == IF heap[a].shared THEN Fresh(heap) ELSE a
           cell == [bit |-> 1 - heap[a].bit, shared |-> FALSE]
<1>1. Running("write") /\ Room(heap)
  BY DEF WriteStmt
<1>2. x \in Vars /\ a # None /\ a \in DOMAIN heap /\ a \in Addr /\ heap[a] \in Cell /\ eval.means[x] \in {0, 1}
  <2> DEFINE y == eval.entry.stmts[eval.next][3]
  <2>1. x \in Vars /\ y = x
    BY <1>1, RunningVars
  <2>2. /\ eval.local[y] # None /\ eval.local[y] \in DOMAIN heap /\ eval.local[y] \in Addr
        /\ heap[eval.local[y]] \in Cell /\ eval.means[y] \in {0, 1}
    BY <1>1, RunningReads
  <2> HIDE DEF x, y
  <2> QED BY <2>1, <2>2
<1>3. Step(x, at, With(heap, at, cell), 1 - eval.means[x], eval.out, None)
  BY DEF WriteStmt
<1> HIDE DEF x, a
<1>4. heap[a].bit \in {0, 1} /\ 1 - heap[a].bit \in {0, 1} /\ 1 - eval.means[x] \in {0, 1}
  BY <1>2 DEF Cell
<1>5. cell \in Cell
  BY <1>4 DEF Cell
<1>6. /\ at \in Addr
      /\ heap[a].shared => at \notin DOMAIN heap
      /\ ~heap[a].shared => at = a
  BY <1>1, <1>2, FreshIs
<1> HIDE DEF at, cell
<1> QED BY <1>1, <1>2, <1>3, <1>4, <1>5, <1>6 DEF x, a, at, cell

(* The four kinds of statement. *)
LEMMA StatementType ==
  ASSUME TypeInv, NewStmt \/ CopyStmt \/ WriteStmt \/ BlockStmt PROVE TypeInv'
<1> DEFINE s == eval.entry.stmts[eval.next]
           x == s[2]
<1>1. TypeOK
  BY DEF TypeInv
<1>2. CASE NewStmt
  <2> DEFINE a == Fresh(heap)
             h == With(heap, a, [bit |-> 0, shared |-> FALSE])
  <2>1. /\ Running("new") /\ x \in Vars /\ a \in Addr /\ [bit |-> 0, shared |-> FALSE] \in Cell
        /\ Step(x, a, h, 0, Append(eval.out, [name |-> x, list |-> a]), a)
    BY <1>2, NewIs
  <2>2. At({"running"}) /\ eval.next <= Len(eval.entry.stmts)
    BY <2>1, RunningIs
  <2>3. /\ DOMAIN heap \subseteq DOMAIN h /\ a \in DOMAIN h /\ DOMAIN h \subseteq Addr /\ h \in [DOMAIN h -> Cell]
    BY <1>1, <2>1, WithIs
  <2> HIDE DEF a, h
  <2> QED BY <2>1, <2>2, <2>3, StepType
<1>3. CASE CopyStmt
  <2> DEFINE a == eval.local[s[3]]
             h == CopyMarks(heap, a)
             bit == eval.means[s[3]]
  <2>1. /\ Running("copy") /\ x \in Vars /\ a \in Addr /\ a \in DOMAIN heap /\ bit \in {0, 1}
        /\ Step(x, a, h, bit, Append(eval.out, [name |-> x, list |-> a]), a)
        /\ DOMAIN h = DOMAIN heap /\ h \in [DOMAIN heap -> Cell]
    BY <1>3, CopyIs
  <2>2. At({"running"}) /\ eval.next <= Len(eval.entry.stmts)
    BY <2>1, RunningIs
  <2>3. /\ DOMAIN heap \subseteq DOMAIN h /\ a \in DOMAIN h /\ DOMAIN h \subseteq Addr /\ h \in [DOMAIN h -> Cell]
    BY <1>1, <2>1 DEF TypeOK
  <2> HIDE DEF a, h, bit
  <2> QED BY <2>1, <2>2, <2>3, StepType
<1>4. CASE WriteStmt
  <2> DEFINE a == eval.local[x]
             at == IF heap[a].shared THEN Fresh(heap) ELSE a
             cell == [bit |-> 1 - heap[a].bit, shared |-> FALSE]
             h == With(heap, at, cell)
             bit == 1 - eval.means[x]
  <2>1. /\ Running("write") /\ x \in Vars /\ at \in Addr /\ bit \in {0, 1} /\ cell \in Cell
        /\ Step(x, at, h, bit, eval.out, None)
    BY <1>4, WriteIs
  <2> HIDE DEF cell, at, bit, h
  <2>2. At({"running"}) /\ eval.next <= Len(eval.entry.stmts) /\ ~Binds(s)
    BY <2>1, RunningRow DEF Binds
  <2>3. /\ DOMAIN heap \subseteq DOMAIN h /\ at \in DOMAIN h /\ DOMAIN h \subseteq Addr /\ h \in [DOMAIN h -> Cell]
    BY <1>1, <2>1, WithIs DEF h
  <2> HIDE DEF h
  <2> QED BY <2>1, <2>2, <2>3, StepType
<1>5. CASE BlockStmt
  <2> DEFINE a == Fresh(heap)
             h == With(heap, a, [bit |-> 0, shared |-> FALSE])
  <2>1. /\ Running("block") /\ x \in Vars /\ a \in Addr /\ [bit |-> 0, shared |-> FALSE] \in Cell
        /\ Step(x, a, h, 0, eval.out, None)
    BY <1>5, BlockIs
  <2>2. At({"running"}) /\ eval.next <= Len(eval.entry.stmts) /\ ~Binds(s)
    BY <2>1, RunningRow DEF Binds
  <2>3. /\ DOMAIN heap \subseteq DOMAIN h /\ a \in DOMAIN h /\ DOMAIN h \subseteq Addr /\ h \in [DOMAIN h -> Cell]
    BY <1>1, <2>1, WithIs
  <2> HIDE DEF a, h
  <2> QED BY <2>1, <2>2, <2>3, StepType
<1> QED BY <1>2, <1>3, <1>4, <1>5

(* Collect. *)
LEMMA CollectType ==
  ASSUME TypeInv, Collect
  PROVE  /\ TypeInv' /\ At({"running"}) /\ At({"running"})'
         /\ DOMAIN heap' = DOMAIN heap \cap (roots \cup InUse(eval))
         /\ \A a \in DOMAIN heap' : heap'[a] = heap[a]
         /\ UNCHANGED <<checker, ids, sourceMap, builder, module, entries, count, env, roots, eval>>
<1>1. /\ At({"running"}) /\ heap' = Surviving(heap, roots \cup InUse(eval))
      /\ UNCHANGED <<checker, ids, sourceMap, builder, module, entries, count, env, roots, eval>>
  BY DEF Collect, At
<1>2. At({"running"})' /\ Building' = Building
  BY <1>1 DEF At, Building
<1>3. /\ DOMAIN heap' = DOMAIN heap \cap (roots \cup InUse(eval))
      /\ \A a \in DOMAIN heap' : heap'[a] = heap[a]
      /\ heap' = [a \in DOMAIN heap' |-> heap[a]]
  BY <1>1 DEF Surviving
<1>4. TypeOK'
  <2>1. heap' \in [DOMAIN heap' -> Cell] /\ DOMAIN heap' \subseteq Addr
    BY <1>3 DEF TypeInv, TypeOK
  <2> QED BY <1>1, <2>1 DEF TypeInv, TypeOK
<1>5. BuildInv' /\ DeclInv'
  BY <1>1 DEF TypeInv, BuildInv, DeclInv, Building, At
<1>6. HeapInv'
  BY <1>1, <1>2, <1>3 DEF TypeInv, HeapInv, At, EnvAddrs
<1> QED BY <1>1, <1>2, <1>3, <1>4, <1>5, <1>6 DEF TypeInv

(* A set of numbers that is not empty has a least one. *)
LEMMA Least ==
  ASSUME NEW T \in SUBSET Nat, T # {} PROVE \E m \in T : \A n \in T : m <= n
<1>1. PICK t \in T : TRUE
  OBVIOUS
<1> DEFINE S == 0..t
           R == StrictSubsetOrdering(S)
           U == {0..k : k \in T \cap S}
<1>2. IsFiniteSet(S)
  BY FS_Interval
<1>3. IsWellFoundedOn(R, SUBSET S)
  BY <1>2, FS_StrictSubsetOrderingWellFounded, FS_FiniteSubsetsOfFinite
<1>4. U \subseteq SUBSET S /\ U # {}
  BY <1>1
<1>5. PICK u \in U : \A w \in U : <<w, u>> \notin R
  <2> HIDE DEF U, R, S
  <2> QED BY <1>3, <1>4, WFMin
<1>6. PICK m \in T \cap S : u = 0..m
  OBVIOUS
<1>7. ASSUME NEW n \in T, n < m PROVE FALSE
  <2>1. 0..n \in U
    BY <1>7
  <2>2. <<0..n, 0..m>> \in R
    <3>1. 0..n \subseteq 0..m /\ m \notin 0..n /\ m \in 0..m
      BY <1>7
    <3>2. 0..n \in SUBSET S /\ 0..m \in SUBSET S
      BY <1>7
    <3> QED BY <3>1, <3>2 DEF StrictSubsetOrdering
  <2> QED BY <1>5, <1>6, <2>1, <2>2
<1> QED BY <1>7

(* A set of indices that is not empty has a greatest one. *)
LEMMA Greatest ==
  ASSUME NEW n \in Nat, NEW T \in SUBSET (1..n), T # {} PROVE \E m \in T : \A k \in T : k <= m
<1> DEFINE B == {n - k : k \in T}
<1>1. B \in SUBSET Nat /\ B # {}
  OBVIOUS
<1>2. PICK b \in B : \A c \in B : b <= c
  <2> HIDE DEF B
  <2> QED BY <1>1, Least
<1>3. PICK m \in T : b = n - m
  OBVIOUS
<1>4. \A k \in T : k <= m
  <2> SUFFICES ASSUME NEW k \in T PROVE k <= m
    OBVIOUS
  <2>1. n - m <= n - k
    BY <1>2, <1>3
  <2> QED BY <2>1
<1> QED BY <1>4

(* Saved gives a variable the list of its last slot, or leaves it. *)
LEMMA SavedIs ==
  ASSUME NEW out \in Seq([name : Vars, list : Addr]), NEW x \in Vars
  PROVE  /\ (\A i \in 1..Len(out) : out[i].name # x) => Saved(out)[x] = env[x]
         /\ \A i \in 1..Len(out) :
              /\ out[i].name = x
              /\ \A j \in 1..Len(out) : out[j].name = x => j <= i
              => Saved(out)[x] = out[i].list
         /\ (\E i \in 1..Len(out) : out[i].name = x) =>
              \E i \in 1..Len(out) : /\ out[i].name = x /\ Saved(out)[x] = out[i].list
                                     /\ \A j \in 1..Len(out) : out[j].name = x => j <= i
<1> DEFINE slots == {i \in DOMAIN out : out[i].name = x}
           last == CHOOSE i \in slots : \A j \in slots : j <= i
<1>1. Saved(out)[x] = IF slots = {} THEN env[x] ELSE out[last].list
  BY DEF Saved
<1>2. Len(out) \in Nat /\ DOMAIN out = 1..Len(out)
  BY LenProperties
<1>3. (\A i \in 1..Len(out) : out[i].name # x) => Saved(out)[x] = env[x]
  BY <1>1, <1>2
<1>4. slots # {} => last \in slots /\ \A j \in slots : j <= last
  <2>1. slots \in SUBSET (1..Len(out))
    BY <1>2
  <2> HIDE DEF slots
  <2>2. slots # {} => \E m \in slots : \A k \in slots : k <= m
    BY <1>2, <2>1, Greatest
  <2> QED BY <2>2
<1>5. ASSUME NEW i \in 1..Len(out), out[i].name = x,
             \A j \in 1..Len(out) : out[j].name = x => j <= i
      PROVE  Saved(out)[x] = out[i].list
  <2>1. i \in slots /\ slots # {}
    BY <1>2, <1>5
  <2> HIDE DEF last
  <2>2. last \in 1..Len(out) /\ i <= last /\ last <= i
    BY <1>2, <1>4, <1>5, <2>1
  <2>3. last = i
    BY <1>2, <2>2
  <2> QED BY <1>1, <2>1, <2>3
<1>6. ASSUME NEW i \in 1..Len(out), out[i].name = x
      PROVE  \E k \in 1..Len(out) : /\ out[k].name = x /\ Saved(out)[x] = out[k].list
                                    /\ \A j \in 1..Len(out) : out[j].name = x => j <= k
  <2>1. i \in slots
    BY <1>2, <1>6
  <2> HIDE DEF last
  <2>2. last \in 1..Len(out) /\ out[last].name = x /\ \A j \in 1..Len(out) : out[j].name = x => j <= last
    BY <1>2, <1>4, <2>1
  <2> QED BY <1>1, <2>1, <2>2
<1> QED BY <1>3, <1>5, <1>6

(* The last slot of a saved variable. *)
LEMMA SavedLast ==
  ASSUME NEW out \in Seq([name : Vars, list : Addr]), NEW x \in Vars,
         \E i \in 1..Len(out) : out[i].name = x
  PROVE  \E i \in 1..Len(out) : /\ out[i].name = x /\ Saved(out)[x] = out[i].list
                                /\ \A j \in 1..Len(out) : out[j].name = x => j <= i
BY SavedIs

(* Finish: env is what Saved says, and what it and the result name is       *)
(* still allocated.                                                        *)
LEMMA FinishType ==
  ASSUME TypeInv, Finish
  PROVE  /\ TypeInv'
         /\ At({"running"}) /\ At({"done"})' /\ ~At({"running"})' /\ ~Building'
         /\ eval.next = Len(eval.entry.stmts) + 1
         /\ env' = Saved(eval.out) /\ env' \in Envs /\ EnvAddrs(env') \subseteq DOMAIN heap'
         /\ \A a \in DOMAIN heap' : a \in DOMAIN heap /\ heap'[a] = heap[a]
         /\ eval'.means = eval.means
         /\ UNCHANGED <<checker, ids, sourceMap, builder, module, entries, count>>
<1> DEFINE Slot == [name : Vars, list : Addr]
<1>1. /\ At({"running"}) /\ eval.next = Len(eval.entry.stmts) + 1
      /\ env' = Saved(eval.out)
      /\ roots' = EnvAddrs(env') \cup ({eval.result} \ {None})
      /\ heap' \in {heap, Surviving(heap, roots')}
      /\ eval' = [step |-> "done", result |-> eval.result, means |-> eval.means]
      /\ UNCHANGED <<checker, ids, sourceMap, builder, module, entries, count>>
  BY DEF Finish, At
<1>2. /\ eval \in [step : {"running"}, entry : Entries, next : Nat \ {0}, local : Envs,
                   out : Seq(Slot), result : Addr \cup {None}, means : Bits]
      /\ TypeOK /\ eval.step = "running" /\ eval # None
  BY <1>1, EvalForms DEF TypeInv, At
<1>3. /\ eval.out \in Seq(Slot) /\ Len(eval.out) \in Nat /\ DOMAIN eval.out = 1..Len(eval.out)
      /\ \A i \in 1..Len(eval.out) : eval.out[i] \in Slot
      /\ env \in Envs /\ None \notin Addr
  BY <1>2, LenProperties, ElementOfSeq, NoneAssumption DEF TypeOK
<1>4. /\ InUse(eval) \subseteq DOMAIN heap /\ EnvAddrs(env) \subseteq DOMAIN heap
      /\ eval.result # None => \E i \in DOMAIN eval.out : eval.out[i].list = eval.result
      /\ \A x \in checker.vars :
            \/ x \in Bound(env)
            \/ \E i \in DOMAIN eval.out : eval.out[i].name = x
            \/ BoundLater(eval.entry, eval.next - 1, x)
  BY <1>1 DEF TypeInv, HeapInv, DeclInv
<1>5. InUse(eval) = ({eval.out[i].list : i \in DOMAIN eval.out}
                      \cup {eval.local[eval.entry.stmts[i][3]] : i \in eval.next..Len(eval.entry.stmts)})
                     \ {None}
  BY <1>2, InUseIs
<1>6. \A i \in 1..Len(eval.out) : eval.out[i].list \in DOMAIN heap /\ eval.out[i].list \in Addr
  BY <1>3, <1>4, <1>5
<1>7. ASSUME NEW x \in Vars
      PROVE  /\ env'[x] = env[x] \/ env'[x] \in DOMAIN heap \cap Addr
             /\ (env[x] # None \/ \E i \in DOMAIN eval.out : eval.out[i].name = x) => env'[x] # None
  <2>1. CASE \A i \in 1..Len(eval.out) : eval.out[i].name # x
    <3>1. Saved(eval.out)[x] = env[x]
      BY <1>3, <2>1, SavedIs
    <3> QED BY <1>1, <2>1, <3>1
  <2>2. CASE \E i \in 1..Len(eval.out) : eval.out[i].name = x
    <3>1. PICK i \in 1..Len(eval.out) :
                 /\ eval.out[i].name = x /\ Saved(eval.out)[x] = eval.out[i].list
                 /\ \A j \in 1..Len(eval.out) : eval.out[j].name = x => j <= i
      BY <1>3, <2>2, SavedLast
    <3> QED BY <1>1, <1>3, <1>6, <3>1
  <2> QED BY <2>1, <2>2
<1>8. env' \in Envs
  <2>1. env' = [x \in Vars |-> env'[x]]
    BY <1>1 DEF Saved
  <2>2. \A x \in Vars : env'[x] \in Addr \cup {None}
    BY <1>3, <1>7 DEF Envs
  <2> QED BY <2>1, <2>2 DEF Envs
<1>9. EnvAddrs(env') \subseteq DOMAIN heap
  <2>1. \A x \in Vars : env[x] # None => env[x] \in DOMAIN heap
    BY <1>4 DEF EnvAddrs
  <2> QED BY <1>7, <2>1 DEF EnvAddrs
<1>10. roots' \subseteq DOMAIN heap
  BY <1>1, <1>3, <1>4, <1>6, <1>9
<1>11. /\ roots' \subseteq DOMAIN heap' /\ DOMAIN heap' \subseteq DOMAIN heap
       /\ \A a \in DOMAIN heap' : heap'[a] = heap[a]
       /\ heap' \in [DOMAIN heap' -> Cell] /\ DOMAIN heap' \subseteq Addr
  <2>1. heap \in [DOMAIN heap -> Cell] /\ DOMAIN heap \subseteq Addr
    BY <1>2 DEF TypeOK
  <2>2. CASE heap' = heap
    BY <1>10, <2>1, <2>2
  <2>3. CASE heap' = [a \in DOMAIN heap \cap roots' |-> heap[a]]
    BY <1>10, <2>1, <2>3
  <2> QED BY <1>1, <2>2, <2>3 DEF Surviving
<1>12. eval' \in Evals /\ eval' # None
  <2>1. eval' \in Evals
    BY <1>1, <1>2 DEF Evals
  <2> QED BY <2>1, NoneAssumption
<1>13. At({"done"})' /\ ~At({"running"})' /\ ~Building' /\ eval'.result = eval.result /\ eval'.means = eval.means
       /\ eval'.step = "done"
  BY <1>1, <1>12 DEF At, Building
<1>14. TypeOK'
  <2>1. \A i \in DOMAIN sourceMap' : sourceMap'[i].entry <
          count' + (IF eval' # None /\ eval'.step \in {"compiling", "panicked"} THEN 1 ELSE 0)
    BY <1>1, <1>2, <1>13 DEF TypeOK
  <2>2. roots' \subseteq Addr
    BY <1>11
  <2> QED BY <1>1, <1>2, <1>8, <1>11, <1>12, <2>1, <2>2 DEF TypeOK
<1>15. BuildInv'
  BY <1>13 DEF BuildInv
<1>16. DeclInv'
  <2>1. ASSUME NEW x \in checker.vars PROVE x \in Bound(env')
    <3>1. x \in Vars
      BY <1>2 DEF TypeOK, Checkers
    <3>2. ~BoundLater(eval.entry, eval.next - 1, x)
      <4>1. Len(eval.entry.stmts) \in Nat /\ DOMAIN eval.entry.stmts = 1..Len(eval.entry.stmts)
        BY <1>2, EntryFields
      <4>2. \A j \in DOMAIN eval.entry.stmts : ~(j > eval.next - 1)
        BY <1>1, <4>1
      <4> QED BY <4>2 DEF BoundLater
    <3> QED BY <1>4, <1>7, <3>1, <3>2 DEF Bound
  <2> QED BY <1>1, <1>13, <2>1 DEF DeclInv
<1>17. HeapInv'
  BY <1>1, <1>11, <1>13 DEF HeapInv
<1> QED BY <1>1, <1>8, <1>9, <1>11, <1>13, <1>14, <1>15, <1>16, <1>17 DEF TypeInv

(* Answer. *)
LEMMA AnswerType ==
  ASSUME TypeInv, Answer
  PROVE  /\ TypeInv' /\ At({"done"}) /\ eval' = None
         /\ UNCHANGED <<checker, ids, sourceMap, builder, module, entries, count, env, heap, roots>>
<1>1. /\ At({"done"}) /\ eval' = None
      /\ UNCHANGED <<checker, ids, sourceMap, builder, module, entries, count, env, heap, roots>>
  BY DEF Answer, At, session
<1>2. TypeOK'
  BY <1>1 DEF TypeInv, TypeOK, At
<1>3. BuildInv' /\ DeclInv' /\ HeapInv'
  BY <1>1 DEF TypeInv, BuildInv, DeclInv, HeapInv, At, Building, EnvAddrs
<1> QED BY <1>1, <1>2, <1>3 DEF TypeInv

-----------------------------------------------------------------------------
(* NamesInv.  Nothing an eval changes is what Linked speaks of, except when  *)
(* an entry has compiled and what it declared joins it.                    *)

(* Linked survives whatever keeps the rows and the finished code it names. *)
LEMMA StillLinked ==
  ASSUME NEW known, NEW names \in Names, NEW n, NEW m, NEW m2, NEW rows, NEW rows2,
         NEW compiled \in Seq(Entries), NEW compiled2,
         Linked(known, names, n, m, rows, compiled),
         DOMAIN m \subseteq DOMAIN m2,
         \A s \in DOMAIN m : m[s].state = "final" /\ s[2] < Len(compiled) =>
           m2[s].state = "final" /\ m2[s].type = m[s].type,
         \A i \in 1..n : rows2[i] = rows[i],
         compiled2 = compiled \/ \E e \in Entries : compiled2 = Append(compiled, e)
  PROVE  Linked(known, names, n, m2, rows2, compiled2)
<1> SUFFICES ASSUME NEW f \in Funcs
             PROVE /\ known.funcs[f] = None <=> names[f] = None
                   /\ names[f] # None =>
                        LET s == names[f] IN
                        /\ s[1] = f /\ s[2] < Len(compiled2) /\ s \in DOMAIN m2
                        /\ m2[s].state = "final" /\ m2[s].type = known.funcs[f]
                        /\ \E i \in 1..n : rows2[i] = [name |-> f, entry |-> s[2]]
                        /\ \E d \in ToSet(compiled2[s[2] + 1].defs) : d.name = f /\ d.type = known.funcs[f]
  BY DEF Linked
<1> DEFINE s == names[f]
<1>1. /\ known.funcs[f] = None <=> names[f] = None
      /\ s # None =>
           /\ s[1] = f /\ s[2] < Len(compiled) /\ s \in DOMAIN m
           /\ m[s].state = "final" /\ m[s].type = known.funcs[f]
           /\ \E i \in 1..n : rows[i] = [name |-> f, entry |-> s[2]]
           /\ \E d \in ToSet(compiled[s[2] + 1].defs) : d.name = f /\ d.type = known.funcs[f]
  BY DEF Linked
<1>2. Len(compiled) \in Nat
  BY LenProperties
<1>3. s # None => s[2] \in Nat
  BY DEF Names, Symbol
<1>4. s # None => s[2] < Len(compiled2) /\ compiled2[s[2] + 1] = compiled[s[2] + 1]
  <2> HIDE DEF s
  <2>1. CASE compiled2 = compiled
    BY <1>1, <2>1
  <2>2. ASSUME NEW e \in Entries, compiled2 = Append(compiled, e), s # None
        PROVE  s[2] < Len(compiled2) /\ compiled2[s[2] + 1] = compiled[s[2] + 1]
    <3>1. s[2] + 1 \in 1..Len(compiled)
      BY <1>1, <1>2, <1>3, <2>2
    <3>2. compiled2[s[2] + 1] = compiled[s[2] + 1] /\ Len(compiled2) = Len(compiled) + 1
      BY <1>2, <2>2, <3>1, AppendProperties
    <3> QED BY <1>1, <1>2, <1>3, <2>2, <3>2
  <2> QED BY <2>1, <2>2
<1> HIDE DEF s
<1>5. s # None => /\ s \in DOMAIN m2 /\ m2[s].state = "final" /\ m2[s].type = known.funcs[f]
                  /\ \E i \in 1..n : rows2[i] = [name |-> f, entry |-> s[2]]
  BY <1>1
<1>6. s # None => \E d \in ToSet(compiled2[s[2] + 1].defs) : d.name = f /\ d.type = known.funcs[f]
  BY <1>1, <1>4
<1> QED BY <1>1, <1>4, <1>5, <1>6 DEF s

(* Submit, Reject and Recover: what there is to go back to was linked. *)
LEMMA SubmitNames ==
  ASSUME CodeInv, NEW e \in Entries, Submit(e) PROVE NamesInv'
<1>1. /\ eval = None
      /\ eval' = [step |-> "checked", entry |-> e, checker |-> checker, ids |-> ids,
                  mapped |-> Len(sourceMap), next |-> 1]
      /\ UNCHANGED <<ids, sourceMap, module, entries, count>>
  BY DEF Submit, session
<1>2. /\ eval'.step = "checked" /\ eval'.checker = checker /\ eval'.ids = ids
      /\ eval'.mapped = Len(sourceMap)
  BY <1>1
<1>3. At({"checked"})'
  BY SubmitType DEF CodeInv
<1>4. Building' /\ ~At({"compiling"})'
  BY <1>2, <1>3 DEF Building, At
<1>5. Linked(checker, ids, Len(sourceMap), module, sourceMap, entries)
  BY <1>1 DEF CodeInv, NamesInv, Building, At
<1> QED BY <1>1, <1>2, <1>4, <1>5 DEF NamesInv

(* Reject: the checker goes back, the name table was not touched yet. *)
LEMMA RejectNames ==
  ASSUME CodeInv, Reject PROVE NamesInv'
<1>1. /\ At({"checked"}) /\ checker' = eval.checker /\ eval' = None
      /\ UNCHANGED <<ids, sourceMap, module, entries, count>>
  BY DEF Reject, RejectTo, session, At
<1>2. /\ Building /\ Linked(eval.checker, eval.ids, eval.mapped, module, sourceMap, entries)
      /\ ids = eval.ids /\ eval.mapped = Len(sourceMap)
  BY <1>1 DEF CodeInv, TypeInv, BuildInv, NamesInv, Building, At
<1> QED BY <1>1, <1>2 DEF NamesInv, Building, At

(* Recover: the checker, the name table and the source map go back. *)
LEMMA RecoverNames ==
  ASSUME CodeInv, Recover PROVE NamesInv'
<1>1. /\ At({"panicked"}) /\ eval' = None /\ checker' = eval.checker /\ ids' = eval.ids
      /\ UNCHANGED <<module, entries, count>>
      /\ Len(sourceMap') = eval.mapped /\ \A i \in 1..eval.mapped : sourceMap'[i] = sourceMap[i]
  BY RecoverType DEF CodeInv
<1>2. /\ Linked(eval.checker, eval.ids, eval.mapped, module, sourceMap, entries)
      /\ eval.ids \in Names /\ entries \in Seq(Entries)
  BY <1>1, EvalForms DEF CodeInv, TypeInv, TypeOK, NamesInv, Building, At
<1>3. Linked(eval.checker, eval.ids, eval.mapped, module, sourceMap', entries)
  BY <1>1, <1>2, StillLinked
<1> QED BY <1>1, <1>3 DEF NamesInv, Building, At

(* Pass1 declares the entry's functions; their symbols carry its number. *)
LEMMA Pass1Names ==
  ASSUME CodeInv, Pass1 PROVE NamesInv'
<1> DEFINE defs == eval.entry.defs
<1>1. /\ eval # None /\ eval.step = "checked" /\ eval.entry \in Entries
      /\ module' = DeclareAll(module, defs)
      /\ ids' = [f \in Funcs |-> IF f \in NamesOf(defs) THEN <<f, count>> ELSE ids[f]]
      /\ eval' = [eval EXCEPT !.step = "compiling"]
      /\ sourceMap' \in Seq([name : Funcs, entry : Nat])
      /\ Len(sourceMap') = Len(sourceMap) + Len(defs)
      /\ \A i \in 1..Len(sourceMap) : sourceMap'[i] = sourceMap[i]
      /\ \A i \in 1..Len(defs) :
           sourceMap'[Len(sourceMap) + i] = [name |-> defs[i].name, entry |-> count]
      /\ UNCHANGED <<entries, count>>
  BY Pass1Step DEF CodeInv
<1>2. /\ eval \in [step : {"checked", "compiling", "panicked"}, entry : Entries,
                   checker : Checkers, ids : Names, mapped : Nat, next : Nat \ {0}]
      /\ TypeOK /\ count <= MaxEntries /\ Len(sourceMap) \in Nat /\ Building /\ entries \in Seq(Entries)
      /\ eval.mapped = Len(sourceMap) /\ eval.next = 1 /\ ids = eval.ids
  BY <1>1, EvalForms, LenProperties DEF CodeInv, TypeInv, TypeOK, BuildInv, Building, At
<1>3. /\ eval'.step = "compiling" /\ eval'.entry = eval.entry /\ eval'.checker = eval.checker
      /\ eval'.ids = eval.ids /\ eval'.mapped = eval.mapped /\ eval'.next = 1
  BY <1>1, <1>2
<1>4. /\ DOMAIN module' = DOMAIN module \cup {<<defs[i].name, count>> : i \in DOMAIN defs}
      /\ \A s \in DOMAIN module : module'[s] = module[s]
  BY <1>1, <1>2, DeclareAllIs
<1>5. Linked(eval.checker, eval.ids, eval.mapped, module, sourceMap, entries)
  BY <1>2 DEF CodeInv, NamesInv
<1>6. Linked(eval.checker, eval.ids, eval.mapped, module', sourceMap', entries')
  <2>1. \A i \in 1..eval.mapped : sourceMap'[i] = sourceMap[i]
    BY <1>1, <1>2
  <2> QED BY <1>1, <1>2, <1>4, <1>5, <2>1, StillLinked
<1>7. Len(defs) \in Nat /\ DOMAIN defs = 1..Len(defs)
  BY <1>1, EntryFields
<1> HIDE DEF defs
<1>8. ASSUME NEW i \in DOMAIN defs
      PROVE  LET s == <<defs[i].name, count>> IN
            /\ s \in DOMAIN module'
            /\ \E j \in DOMAIN sourceMap' : sourceMap'[j] = [name |-> defs[i].name, entry |-> count]
            /\ ~(i < 1)
  <2>1. Len(sourceMap) + i \in DOMAIN sourceMap'
    <3>1. DOMAIN sourceMap' = 1..Len(sourceMap')
      BY <1>1, LenProperties
    <3> QED BY <1>1, <1>2, <1>7, <3>1
  <2>2. sourceMap'[Len(sourceMap) + i] = [name |-> defs[i].name, entry |-> count]
    BY <1>1, <1>7
  <2>3. <<defs[i].name, count>> \in DOMAIN module' /\ ~(i < 1)
    BY <1>4, <1>7
  <2> QED BY <2>1, <2>2, <2>3
<1>9. Building'
  BY Pass1Type DEF Building, At, CodeInv
<1> QED BY <1>1, <1>2, <1>3, <1>6, <1>8, <1>9 DEF NamesInv, defs

(* Building a symbol of this entry, declared and not yet defined, disturbs   *)
(* nothing that was linked.                                                *)
LEMMA BuiltLinked ==
  ASSUME CodeInv, At({"compiling"}), NEW s, s[2] = count, NEW m, NEW type, NEW calls,
         DOMAIN module \subseteq DOMAIN m, \A k \in DOMAIN module : m[k] = module[k],
         Built(s, m, type, calls)
  PROVE  Building' /\ Linked(eval'.checker, eval'.ids, eval'.mapped, module', sourceMap', entries')
<1>1. /\ Linked(eval.checker, eval.ids, eval.mapped, module, sourceMap, entries)
      /\ eval.ids \in Names /\ entries \in Seq(Entries) /\ Len(entries) = count /\ count \in Nat
  BY EvalForms, LenProperties DEF CodeInv, TypeInv, TypeOK, NamesInv, Building, At
<1>2. /\ eval'.checker = eval.checker /\ eval'.ids = eval.ids /\ eval'.mapped = eval.mapped
      /\ sourceMap' = sourceMap /\ entries' = entries /\ Building'
      /\ DOMAIN module' = DOMAIN m
      /\ \A k \in DOMAIN m : k # s => module'[k] = m[k]
  BY DEF Built, Building, At
<1>3. ASSUME NEW k \in DOMAIN module, module[k].state = "final", k[2] < Len(entries)
      PROVE  module'[k].state = "final" /\ module'[k].type = module[k].type
  <2>1. k # s
    BY <1>1, <1>3
  <2> QED BY <1>2, <1>3, <2>1
<1> QED BY <1>1, <1>2, <1>3, StillLinked

(* Pass2 defines the next function of the entry. *)
LEMMA Pass2Names ==
  ASSUME CodeInv, Pass2 PROVE NamesInv'
<1> DEFINE defs == eval.entry.defs
           n == eval.next
           s == <<defs[n].name, count>>
<1>1. /\ At({"compiling"}) /\ eval.entry \in Entries /\ n \in 1..Len(defs)
      /\ Built(s, module, defs[n].type, CallsBuilt)
  BY Pass2Type
<1>2. Building' /\ Linked(eval'.checker, eval'.ids, eval'.mapped, module', sourceMap', entries')
  <2>1. s[2] = count
    OBVIOUS
  <2> HIDE DEF s, defs
  <2> QED BY <1>1, <2>1, BuiltLinked
<1>3. /\ ids = [f \in Funcs |-> IF f \in NamesOf(defs) THEN <<f, count>> ELSE eval.ids[f]]
      /\ \A i \in DOMAIN defs :
            LET k == <<defs[i].name, count>> IN
            /\ k \in DOMAIN module
            /\ \E j \in DOMAIN sourceMap : sourceMap[j] = [name |-> defs[i].name, entry |-> count]
            /\ i < n => module[k].state = "defined" /\ module[k].type = defs[i].type
  BY <1>1 DEF CodeInv, NamesInv
<1>4. /\ eval'.entry = eval.entry /\ eval'.ids = eval.ids
      /\ UNCHANGED <<ids, sourceMap, count>>
  BY <1>1 DEF Built
<1>5. /\ Len(defs) \in Nat /\ DOMAIN defs = 1..Len(defs)
      /\ \A i, j \in 1..Len(defs) : i # j => defs[i].name # defs[j].name
  BY <1>1, EntryFields
<1> HIDE DEF defs
<1>6. ASSUME At({"compiling"})', NEW i \in DOMAIN defs
      PROVE  LET k == <<defs[i].name, count>> IN
             /\ k \in DOMAIN module'
             /\ i < eval'.next => module'[k].state = "defined" /\ module'[k].type = defs[i].type
  <2> DEFINE k == <<defs[i].name, count>>
             code == [type |-> defs[n].type, state |-> "defined", calls |-> CallsBuilt]
  <2>1. /\ eval'.next = n + 1
        /\ module' = [module EXCEPT ![s] = code]
    BY <1>1, <1>6 DEF Built, At
  <2>2. k \in DOMAIN module /\ (i < n => module[k].state = "defined" /\ module[k].type = defs[i].type)
    BY <1>3
  <2>3. CASE i = n
    BY <2>1, <2>2, <2>3
  <2>4. CASE i # n
    <3>1. k # s
      BY <1>1, <1>5, <2>4
    <3>2. i < n + 1 => i < n
      BY <1>1, <1>5, <2>4
    <3> HIDE DEF k, s, code
    <3>3. DOMAIN module' = DOMAIN module /\ module'[k] = module[k]
      BY <2>1, <2>2, <3>1
    <3> QED BY <2>1, <2>2, <3>2, <3>3 DEF k
  <2> QED BY <2>3, <2>4
<1>7. ASSUME At({"compiling"})', NEW i \in DOMAIN defs
      PROVE  LET k == <<defs[i].name, count>> IN
             /\ k \in DOMAIN module'
             /\ \E j \in DOMAIN sourceMap : sourceMap[j] = [name |-> defs[i].name, entry |-> count]
             /\ i < eval'.next => module'[k].state = "defined" /\ module'[k].type = defs[i].type
  BY <1>3, <1>6, <1>7
<1> QED BY <1>2, <1>3, <1>4, <1>7 DEF NamesInv, defs

(* Pass3 declares and defines the entry's main body, which is no function. *)
LEMMA Pass3Names ==
  ASSUME CodeInv, Pass3 PROVE NamesInv'
<1> DEFINE defs == eval.entry.defs
           n == eval.next
           s == <<Main, count>>
           m == Declare(module, s, None)
<1>1. /\ At({"compiling"}) /\ eval.entry \in Entries /\ n = Len(defs) + 1
      /\ Built(s, m, None, {})
      /\ DOMAIN m = DOMAIN module \cup {s} /\ \A k \in DOMAIN module : m[k] = module[k]
  BY Pass3Type DEF CodeInv
<1>2. Building' /\ Linked(eval'.checker, eval'.ids, eval'.mapped, module', sourceMap', entries')
  <2>1. s[2] = count
    OBVIOUS
  <2> HIDE DEF s, m
  <2> QED BY <1>1, <2>1, BuiltLinked
<1>3. /\ ids = [f \in Funcs |-> IF f \in NamesOf(defs) THEN <<f, count>> ELSE eval.ids[f]]
      /\ \A i \in DOMAIN defs :
            LET k == <<defs[i].name, count>> IN
            /\ k \in DOMAIN module
            /\ \E j \in DOMAIN sourceMap : sourceMap[j] = [name |-> defs[i].name, entry |-> count]
            /\ i < n => module[k].state = "defined" /\ module[k].type = defs[i].type
  BY <1>1 DEF CodeInv, NamesInv
<1>4. /\ eval'.entry = eval.entry /\ eval'.ids = eval.ids
      /\ UNCHANGED <<ids, sourceMap, count>>
      /\ DOMAIN module' = DOMAIN m /\ \A k \in DOMAIN m : k # s => module'[k] = m[k]
  <2> HIDE DEF s, m
  <2> QED BY <1>1 DEF Built
<1>5. /\ Len(defs) \in Nat /\ DOMAIN defs = 1..Len(defs)
      /\ \A i \in 1..Len(defs) : defs[i].name \in Funcs
  BY <1>1, EntryFields
<1> HIDE DEF defs
<1>6. ASSUME NEW i \in DOMAIN defs
      PROVE  LET k == <<defs[i].name, count>> IN
             /\ k \in DOMAIN module'
             /\ \E j \in DOMAIN sourceMap : sourceMap[j] = [name |-> defs[i].name, entry |-> count]
             /\ module'[k].state = "defined" /\ module'[k].type = defs[i].type
  <2> DEFINE k == <<defs[i].name, count>>
  <2>1. k # s /\ i < n
    BY <1>1, <1>5, NamesAssumption
  <2>2. /\ k \in DOMAIN module
        /\ \E j \in DOMAIN sourceMap : sourceMap[j] = [name |-> defs[i].name, entry |-> count]
        /\ module[k].state = "defined" /\ module[k].type = defs[i].type
    BY <1>3, <2>1
  <2> HIDE DEF k, s, m
  <2>3. k \in DOMAIN module' /\ module'[k] = module[k]
    BY <1>1, <1>4, <2>1, <2>2
  <2> QED BY <2>2, <2>3 DEF k
<1> QED BY <1>2, <1>3, <1>4, <1>6 DEF NamesInv, defs

(* Finalize: an entry that compiled joins what is linked; one that did not   *)
(* link leaves what was.                                                   *)
LEMMA FinalizeNames ==
  ASSUME CodeInv, Finalize PROVE NamesInv'
<1> DEFINE e == eval.entry
           known == eval.checker
<1>1. /\ At({"compiling"}) /\ e \in Entries /\ eval.next = Len(e.defs) + 2
      /\ DOMAIN module' = DOMAIN module
      /\ \A s \in DOMAIN module :
              /\ module'[s].type = module[s].type
              /\ s \notin Pending => module'[s] = module[s]
      /\ UNCHANGED <<checker, ids, sourceMap>>
  BY FinalizeIs DEF CodeInv
<1>2. /\ Linked(known, eval.ids, eval.mapped, module, sourceMap, entries)
      /\ eval.ids \in Names /\ known \in Checkers /\ entries \in Seq(Entries)
      /\ Len(entries) = count /\ count \in Nat
      /\ eval.mapped \in Nat /\ Len(sourceMap) \in Nat /\ eval.mapped <= Len(sourceMap)
      /\ DOMAIN sourceMap = 1..Len(sourceMap) /\ checker = Checked(e, known)
  BY <1>1, EvalForms, LenProperties
     DEF CodeInv, TypeInv, TypeOK, BuildInv, NamesInv, Building, At
<1>3. \A s \in DOMAIN module : module[s].state = "final" /\ s[2] < Len(entries) =>
        module'[s].state = "final" /\ module'[s].type = module[s].type
  BY <1>1 DEF Pending
<1>4. CASE eval' = [eval EXCEPT !.step = "panicked"] /\ UNCHANGED <<entries, count>>
  <2>1. /\ eval' \in [step : {"checked", "compiling", "panicked"}, entry : Entries,
                     checker : Checkers, ids : Names, mapped : Nat, next : Nat \ {0}]
        /\ eval'.step = "panicked" /\ eval'.checker = known /\ eval'.ids = eval.ids
        /\ eval'.mapped = eval.mapped
    BY <1>1, <1>4, EvalForms DEF CodeInv, TypeInv, At
  <2>2. eval' # None
    <3>1. eval' \in Evals
      BY <2>1 DEF Evals
    <3> QED BY <3>1, NoneAssumption
  <2>3. Linked(known, eval.ids, eval.mapped, module', sourceMap, entries)
    BY <1>1, <1>2, <1>3, StillLinked
  <2> QED BY <1>1, <1>4, <2>1, <2>2, <2>3 DEF NamesInv, Building, At
<1>5. CASE StartsRunning /\ \A s \in Pending : module'[s].state = "final"
  <2>1. At({"running"})' /\ ~Building' /\ ~At({"compiling"})'
    <3>1. At({"running"})'
      BY <1>5, RunType DEF CodeInv
    <3> QED BY <3>1 DEF At, Building
  <2>2. entries' = Append(entries, e)
    BY <1>5 DEF StartsRunning
  <2>3. Linked(known, eval.ids, eval.mapped, module', sourceMap, entries')
    BY <1>1, <1>2, <1>3, <2>2, StillLinked
  <2>4. /\ Len(entries') = count + 1 /\ entries'[count + 1] = e
    BY <1>1, <1>2, <2>2, AppendProperties
  <2>5. /\ Len(e.defs) \in Nat /\ DOMAIN e.defs = 1..Len(e.defs)
        /\ Len(e.defs) + 1 \in 1..(Len(e.defs) + 1) /\ Len(e.defs) + 1 - 1 = Len(e.defs)
    BY <1>1, EntryFields
  <2>6. /\ ids = [f \in Funcs |-> IF f \in NamesOf(e.defs) THEN <<f, count>> ELSE eval.ids[f]]
        /\ \A i \in DOMAIN e.defs :
             LET s == <<e.defs[i].name, count>> IN
             /\ s \in DOMAIN module
             /\ \E j \in DOMAIN sourceMap : sourceMap[j] = [name |-> e.defs[i].name, entry |-> count]
             /\ i < eval.next => module[s].state = "defined" /\ module[s].type = e.defs[i].type
    BY <1>1 DEF CodeInv, NamesInv
  <2> HIDE DEF e, known
  <2>7. ASSUME NEW f \in Funcs
        PROVE  /\ checker.funcs[f] = None <=> ids[f] = None
               /\ ids[f] # None =>
                    LET s == ids[f] IN
                    /\ s[1] = f /\ s[2] < Len(entries') /\ s \in DOMAIN module'
                    /\ module'[s].state = "final" /\ module'[s].type = checker.funcs[f]
                    /\ \E i \in 1..Len(sourceMap) : sourceMap[i] = [name |-> f, entry |-> s[2]]
                    /\ \E d \in ToSet(entries'[s[2] + 1].defs) : d.name = f /\ d.type = checker.funcs[f]
    <3>1. checker.funcs[f] = TypeAt(e, Len(e.defs) + 1, known, f)
      BY <1>2 DEF Checked
    <3>2. CASE f \notin NamesOf(e.defs)
      <4>1. ids[f] = eval.ids[f]
        BY <2>6, <3>2
      <4>2. checker.funcs[f] = known.funcs[f]
        <5>1. \A j \in 1..Len(e.defs) : e.defs[j].name # f
          BY <2>5, <3>2 DEF NamesOf
        <5>2. e \in Entries /\ Len(e.defs) + 1 \in 1..(Len(e.defs) + 1)
          BY <1>1, <2>5 DEF e
        <5>3. TypeAt(e, Len(e.defs) + 1, known, f) = known.funcs[f]
          BY <2>5, <5>1, <5>2, TypeAtIs
        <5> QED BY <3>1, <5>3
      <4>3. 1..eval.mapped \subseteq 1..Len(sourceMap)
        BY <1>2
      <4> QED BY <2>3, <4>1, <4>2, <4>3 DEF Linked
    <3>3. ASSUME NEW i \in 1..Len(e.defs), e.defs[i].name = f
          PROVE  LET s == <<f, count>> IN
                 /\ ids[f] = s /\ s \in DOMAIN module'
                 /\ module'[s].state = "final" /\ module'[s].type = e.defs[i].type
                 /\ checker.funcs[f] = e.defs[i].type /\ e.defs[i].type \in Types
                 /\ \E j \in 1..Len(sourceMap) : sourceMap[j] = [name |-> f, entry |-> count]
                 /\ e.defs[i] \in ToSet(e.defs)
      <4> DEFINE s == <<f, count>>
      <4>1. f \in NamesOf(e.defs) /\ e.defs[i] \in ToSet(e.defs)
        BY <2>5, <3>3 DEF NamesOf, ToSet
      <4>2. ids[f] = s
        BY <2>6, <4>1
      <4>3. i < eval.next
        BY <1>1, <2>5 DEF e
      <4>4. /\ s \in DOMAIN module /\ module[s].state = "defined" /\ module[s].type = e.defs[i].type
            /\ \E j \in DOMAIN sourceMap : sourceMap[j] = [name |-> f, entry |-> count]
        BY <2>5, <2>6, <3>3, <4>3
      <4>5. s \in Pending
        BY <4>4 DEF Pending
      <4>6. checker.funcs[f] = e.defs[i].type /\ e.defs[i].type \in Types
        <5>1. e \in Entries
          BY <1>1 DEF e
        <5>2. TypeAt(e, Len(e.defs) + 1, known, f) = e.defs[i].type
          BY <2>5, <3>3, <5>1, TypeAtIs
        <5> QED BY <3>1, <5>1, <5>2, EntryFields
      <4> HIDE DEF s
      <4>7. s \in DOMAIN module' /\ module'[s].state = "final" /\ module'[s].type = e.defs[i].type
        BY <1>1, <1>5, <4>4, <4>5
      <4> QED BY <1>2, <4>1, <4>2, <4>4, <4>6, <4>7 DEF s
    <3>4. ASSUME NEW i \in 1..Len(e.defs), e.defs[i].name = f
          PROVE  /\ ids[f] # None /\ checker.funcs[f] # None
                 /\ LET s == ids[f] IN
                    /\ s[1] = f /\ s[2] < Len(entries') /\ s \in DOMAIN module'
                    /\ module'[s].state = "final" /\ module'[s].type = checker.funcs[f]
                    /\ \E j \in 1..Len(sourceMap) : sourceMap[j] = [name |-> f, entry |-> s[2]]
                    /\ \E d \in ToSet(entries'[s[2] + 1].defs) : d.name = f /\ d.type = checker.funcs[f]
      <4> DEFINE s == <<f, count>>
      <4>1. /\ ids[f] = s /\ s \in DOMAIN module'
            /\ module'[s].state = "final" /\ module'[s].type = e.defs[i].type
            /\ checker.funcs[f] = e.defs[i].type /\ e.defs[i].type \in Types
            /\ \E j \in 1..Len(sourceMap) : sourceMap[j] = [name |-> f, entry |-> count]
            /\ e.defs[i] \in ToSet(e.defs)
        BY <3>3, <3>4
      <4>2. s[1] = f /\ s[2] = count /\ count < Len(entries')
        BY <1>2, <2>4
      <4>3. s \in Symbol
        BY <4>1, FinalizeType DEF CodeInv, TypeInv, TypeOK
      <4>4. s # None /\ checker.funcs[f] # None
        BY <4>1, <4>3, NoneAssumption, NamesAssumption
      <4> HIDE DEF s
      <4> QED BY <2>4, <3>4, <4>1, <4>2, <4>4
    <3>5. f \in NamesOf(e.defs) => \E i \in 1..Len(e.defs) : e.defs[i].name = f
      BY <2>5 DEF NamesOf
    <3> QED BY <3>2, <3>4, <3>5
  <2>8. Linked(checker, ids, Len(sourceMap), module', sourceMap, entries')
    BY <2>7 DEF Linked
  <2> QED BY <1>1, <2>1, <2>8 DEF NamesInv
<1> QED BY <1>4, <1>5, FinalizeIs DEF CodeInv

(* A statement leaves the code and its tables alone, and the entry runs on. *)
LEMMA StatementRuns ==
  ASSUME NewStmt \/ CopyStmt \/ WriteStmt \/ BlockStmt
  PROVE  /\ UNCHANGED <<checker, ids, sourceMap, builder, module, entries, count, env, roots>>
         /\ eval # None /\ eval.step = "running" /\ eval'.step = "running"
<1>1. CASE NewStmt
  BY <1>1 DEF NewStmt, Bind, Step, Running
<1>2. CASE CopyStmt
  BY <1>2 DEF CopyStmt, Bind, Step, Running
<1>3. CASE WriteStmt
  <2> DEFINE x == eval.entry.stmts[eval.next][2]
             a == eval.local[x]
             at == IF heap[a].shared THEN Fresh(heap) ELSE a
             h == With(heap, at, [bit |-> 1 - heap[a].bit, shared |-> FALSE])
  <2>1. Running("write") /\ Step(x, at, h, 1 - eval.means[x], eval.out, None)
    BY <1>3 DEF WriteStmt
  <2> HIDE DEF x, at, h
  <2> QED BY <2>1 DEF Step, Running
<1>4. CASE BlockStmt
  BY <1>4 DEF BlockStmt, Step, Running
<1> QED BY <1>1, <1>2, <1>3, <1>4

(* Once the entry runs, its names are no longer touched. *)
LEMMA RunningNames ==
  ASSUME NamesInv, ~Building, ~Building', UNCHANGED <<checker, ids, sourceMap, module, entries>>
  PROVE  NamesInv'
<1>1. ~At({"compiling"})'
  BY DEF Building, At
<1> QED BY <1>1 DEF NamesInv

(* Nothing happens. *)
LEMMA StutterCode ==
  ASSUME CodeInv, UNCHANGED vars PROVE CodeInv'
<1>1. UNCHANGED <<checker, ids, sourceMap, builder, module, entries, count, env, heap, roots, eval>>
  BY DEF vars, session
<1>2. TypeOK'
  BY <1>1 DEF CodeInv, TypeInv, TypeOK
<1>3. BuildInv' /\ DeclInv' /\ HeapInv' /\ NamesInv'
  BY <1>1 DEF CodeInv, TypeInv, BuildInv, DeclInv, HeapInv, NamesInv, Building, At, EnvAddrs
<1> QED BY <1>2, <1>3 DEF CodeInv, TypeInv

(* Nothing is declared at first. *)
LEMMA CodeInit == Init => CodeInv
<1> SUFFICES ASSUME Init PROVE CodeInv
  OBVIOUS
<1>1. ~Building /\ ~At({"running"}) /\ ~At({"done"}) /\ ~At({"compiling"})
  BY DEF Init, Building, At
<1>2. checker \in Checkers /\ ids \in Names /\ env \in Envs
  BY DEF Init, Checkers, Names, Envs
<1>3. /\ sourceMap \in Seq([name : Funcs, entry : Nat]) /\ Len(sourceMap) = 0 /\ DOMAIN sourceMap = {}
      /\ entries \in Seq(Entries) /\ Len(entries) = 0
  BY EmptySeq DEF Init
<1>4. DOMAIN module = {} /\ module \in [DOMAIN module -> Code]
      /\ DOMAIN heap = {} /\ heap \in [DOMAIN heap -> Cell]
  BY DEF Init
<1>5. TypeOK
  BY <1>2, <1>3, <1>4, SessionBoundsAssumption DEF Init, TypeOK
<1>6. EnvAddrs(env) = {}
  BY DEF Init, EnvAddrs
<1>7. BuildInv /\ DeclInv /\ HeapInv
  BY <1>1, <1>6 DEF Init, BuildInv, DeclInv, HeapInv
<1>8. NamesInv
  BY <1>1 DEF Init, NamesInv, Linked
<1> QED BY <1>5, <1>7, <1>8 DEF CodeInv, TypeInv

(* CodeInv is inductive, with or without the entries the three flags allow. *)
LEMMA CodeStep ==
  ASSUME CodeInv, [Next]_vars PROVE CodeInv'
<1>1. TypeInv /\ NamesInv
  BY DEF CodeInv
<1>2. ASSUME NEW e \in Entries, Submit(e) PROVE CodeInv'
  BY <1>1, <1>2, SubmitType, SubmitNames DEF CodeInv
<1>3. CASE Reject
  BY <1>1, <1>3, RejectType, RejectNames DEF CodeInv
<1>4. CASE Pass1
  BY <1>1, <1>4, Pass1Type, Pass1Names DEF CodeInv
<1>5. CASE Pass2
  BY <1>1, <1>5, Pass2Type, Pass2Names DEF CodeInv
<1>6. CASE Pass3
  BY <1>1, <1>6, Pass3Type, Pass3Names DEF CodeInv
<1>7. CASE Finalize
  BY <1>1, <1>7, FinalizeType, FinalizeNames DEF CodeInv
<1>8. CASE Recover
  BY <1>1, <1>8, RecoverType, RecoverNames DEF CodeInv
<1>9. CASE NewStmt \/ CopyStmt \/ WriteStmt \/ BlockStmt
  <2>1. /\ UNCHANGED <<checker, ids, sourceMap, module, entries>>
        /\ eval.step = "running" /\ eval'.step = "running"
    BY <1>9, StatementRuns
  <2>2. ~Building /\ ~Building'
    BY <2>1 DEF Building, At
  <2> QED BY <1>1, <1>9, <2>1, <2>2, StatementType, RunningNames DEF CodeInv
<1>10. CASE Collect
  <2>1. TypeInv' /\ ~Building /\ ~Building' /\ UNCHANGED <<checker, ids, sourceMap, module, entries>>
    BY <1>1, <1>10, CollectType DEF Building, At
  <2> QED BY <1>1, <2>1, RunningNames DEF CodeInv
<1>11. CASE Finish
  <2>1. TypeInv' /\ ~Building /\ ~Building' /\ UNCHANGED <<checker, ids, sourceMap, module, entries>>
    BY <1>1, <1>11, FinishType DEF Building, At
  <2> QED BY <1>1, <2>1, RunningNames DEF CodeInv
<1>12. CASE Answer
  <2>1. TypeInv' /\ ~Building /\ ~Building' /\ UNCHANGED <<checker, ids, sourceMap, module, entries>>
    BY <1>1, <1>12, AnswerType DEF Building, At
  <2> QED BY <1>1, <2>1, RunningNames DEF CodeInv
<1>13. CASE UNCHANGED vars
  BY <1>13, StutterCode
<1> QED BY <1>2, <1>3, <1>4, <1>5, <1>6, <1>7, <1>8, <1>9, <1>10, <1>11, <1>12, <1>13 DEF Next

(* So the names and the code agree from the first eval on. *)
LEMMA CodeInvariance == Spec => []CodeInv
BY CodeInit, CodeStep, PTL DEF Spec

(* FrogState's components keep their types, entry_count numbers the entries  *)
(* that compiled, and the name table and the source map mention nothing    *)
(* that was not declared, whatever the entries do.                         *)
THEOREM TypeCorrect == Spec => []TypeOK
<1>1. CodeInv => TypeOK
  BY DEF CodeInv, TypeInv
<1> QED BY <1>1, CodeInvariance, PTL

(* Whatever is collected and whenever, no list is freed that a variable of   *)
(* the session, the running entry or the result eval decodes still names.  *)
THEOREM NothingIsLost == Spec => []NothingLost
<1>1. CodeInv => NothingLost
  BY DEF CodeInv, TypeInv, HeapInv, NothingLost, At
<1> QED BY <1>1, CodeInvariance, PTL

(* After any sequence of evals, failed ones among them, the checker, the     *)
(* name table and the source map agree about every function, and it has    *)
(* finished code of the type the checker knows.                            *)
THEOREM TheCheckerMatchesTheCode == Spec => []CheckerMatchesCode
<1>1. ASSUME CodeInv PROVE CheckerMatchesCode
  <2> SUFFICES ASSUME eval = None PROVE CheckerMatchesCode
    BY DEF CheckerMatchesCode
  <2>1. Linked(checker, ids, Len(sourceMap), module, sourceMap, entries)
    BY <1>1 DEF CodeInv, NamesInv, Building, At
  <2>2. DOMAIN sourceMap = 1..Len(sourceMap)
    BY <1>1, LenProperties DEF CodeInv, TypeInv, TypeOK
  <2> QED BY <2>1, <2>2 DEF Linked, CheckerMatchesCode
<1> QED BY <1>1, CodeInvariance, PTL

-----------------------------------------------------------------------------
(* CallsInv: a call is compiled once what it reaches is, provided no entry   *)
(* redefines further down what it calls.                                   *)

(* Steps that leave the module alone and build nothing afterwards. *)
LEMMA QuietCalls ==
  ASSUME CallsInv, module' = module, ~Building' PROVE CallsInv'
BY DEF CallsInv

(* Submit: the entry calls nothing it redefines below. *)
LEMMA SubmitCalls ==
  ASSUME ~CallsThenRedefines, CallsInv, NEW e \in Entries, Submit(e) PROVE CallsInv'
<1>1. \A i, j \in DOMAIN e.defs : i < j => e.defs[i].calls # e.defs[j].name
  BY DEF Submit, Permitted
<1>2. eval'.entry = e /\ module' = module
  BY DEF Submit
<1> QED BY <1>1, <1>2 DEF CallsInv

(* Pass1: what is declared calls nothing yet. *)
LEMMA Pass1Calls ==
  ASSUME CodeInv, CallsInv, Pass1 PROVE CallsInv'
<1> DEFINE defs == eval.entry.defs
<1>1. /\ eval # None /\ eval.step = "checked" /\ eval.entry \in Entries
      /\ module' = DeclareAll(module, defs)
      /\ eval' = [eval EXCEPT !.step = "compiling"]
  BY Pass1Step DEF CodeInv
<1>2. /\ eval \in [step : {"checked", "compiling", "panicked"}, entry : Entries,
                   checker : Checkers, ids : Names, mapped : Nat, next : Nat \ {0}]
      /\ TypeOK /\ count <= MaxEntries /\ Building
  BY <1>1, EvalForms DEF CodeInv, TypeInv, TypeOK, Building, At
<1>3. /\ DOMAIN module' = DOMAIN module \cup {<<defs[i].name, count>> : i \in DOMAIN defs}
      /\ \A s \in DOMAIN module : module'[s] = module[s]
      /\ \A i \in DOMAIN defs : <<defs[i].name, count>> \notin DOMAIN module =>
           /\ module'[<<defs[i].name, count>>].state = "declared"
           /\ module'[<<defs[i].name, count>>].calls = {}
  BY <1>1, <1>2, DeclareAllIs
<1>4. \A s \in DOMAIN module' : s \notin DOMAIN module =>
        module'[s].state = "declared" /\ module'[s].calls = {}
  BY <1>3
<1>5. eval'.entry = eval.entry
  BY <1>1, <1>2
<1> HIDE DEF defs
<1>6. \A s \in DOMAIN module' :
       /\ module'[s].state = "declared" => module'[s].calls = {}
       /\ module'[s].state # "lost"
       /\ \A c \in module'[s].calls :
            /\ c.to \in DOMAIN module' /\ module'[c.to].state # "declared" /\ module'[c.to].type = c.type
            /\ module'[s].state = "final" => module'[c.to].state = "final"
  BY <1>3, <1>4 DEF CallsInv
<1> QED BY <1>2, <1>5, <1>6 DEF CallsInv

(* What the function being built calls has code of the type it was checked  *)
(* against: it was defined above, or an earlier entry compiled it.         *)
LEMMA CalleeReady ==
  ASSUME CodeInv, CallsInv, At({"compiling"}), eval.next \in 1..Len(eval.entry.defs)
  PROVE  \A c \in CallsBuilt :
           c.to \in DOMAIN module /\ module[c.to].state # "declared" /\ module[c.to].type = c.type
<1> DEFINE e == eval.entry
           n == eval.next
           f == e.defs[n].calls
           type == TypeAt(e, n, eval.checker, f)
<1> SUFFICES ASSUME f # None
             PROVE  ids[f] \in DOMAIN module /\ module[ids[f]].state # "declared" /\ module[ids[f]].type = type
  <2>1. CallsBuilt = IF f = None THEN {} ELSE {[to |-> ids[f], type |-> type]}
    BY DEF CallsBuilt
  <2> HIDE DEF f, type
  <2> QED BY <2>1
<1>1. /\ e \in Entries /\ eval.checker \in Checkers /\ Building
      /\ \A i, j \in DOMAIN e.defs : i < j => e.defs[i].calls # e.defs[j].name
  BY EvalForms DEF CodeInv, TypeInv, CallsInv, At, Building
<1>2. /\ f \in Funcs /\ type \in Types /\ f # e.defs[n].name
      /\ f \notin NamesOf(e.defs) => ids[f] = eval.ids[f] /\ type = eval.checker.funcs[f]
  BY CalleeKnown
<1>3. /\ Linked(eval.checker, eval.ids, eval.mapped, module, sourceMap, entries)
      /\ ids = [g \in Funcs |-> IF g \in NamesOf(e.defs) THEN <<g, count>> ELSE eval.ids[g]]
      /\ \A i \in DOMAIN e.defs :
            LET s == <<e.defs[i].name, count>> IN
            /\ s \in DOMAIN module
            /\ i < n => module[s].state = "defined" /\ module[s].type = e.defs[i].type
  BY <1>1 DEF CodeInv, NamesInv
<1>4. Len(e.defs) \in Nat /\ DOMAIN e.defs = 1..Len(e.defs) /\ n \in 1..(Len(e.defs) + 1)
  BY <1>1, EntryFields
<1>5. ASSUME NEW j \in 1..Len(e.defs), e.defs[j].name = f
      PROVE  ids[f] \in DOMAIN module /\ module[ids[f]].state # "declared" /\ module[ids[f]].type = type
  <2>1. j # n /\ ~(n < j)
    BY <1>1, <1>2, <1>4, <1>5
  <2>2. j < n
    BY <1>4, <2>1
  <2>3. type = e.defs[j].type
    BY <1>1, <1>2, <1>4, <1>5, <2>2, TypeAtIs
  <2>4. ids[f] = <<f, count>>
    BY <1>2, <1>3, <1>4, <1>5 DEF NamesOf
  <2> HIDE DEF type, f
  <2> QED BY <1>3, <1>4, <1>5, <2>2, <2>3, <2>4
<1>6. CASE f \notin NamesOf(e.defs)
  <2> HIDE DEF f, type
  <2>1. ids[f] = eval.ids[f] /\ type = eval.checker.funcs[f] /\ type # None
    BY <1>2, <1>6, NamesAssumption
  <2>2. Linked(eval.checker, eval.ids, eval.mapped, module, sourceMap, entries) /\ f \in Funcs
    BY <1>2, <1>3
  <2> QED BY <2>1, <2>2 DEF Linked
<1>7. f \in NamesOf(e.defs) => \E j \in 1..Len(e.defs) : e.defs[j].name = f
  BY <1>4 DEF NamesOf
<1> QED BY <1>5, <1>6, <1>7

(* Building a symbol that has only been declared: nothing calls it yet. *)
LEMMA BuiltCalls ==
  ASSUME CodeInv, CallsInv, At({"compiling"}), NEW s, NEW m, NEW type, NEW calls,
         DOMAIN m = DOMAIN module \cup {s}, \A k \in DOMAIN module : m[k] = module[k],
         s \notin DOMAIN module => m[s].state = "declared" /\ m[s].calls = {},
         \A c \in calls :
           c.to \in DOMAIN module /\ module[c.to].state # "declared" /\ module[c.to].type = c.type,
         Built(s, m, type, calls)
  PROVE  CallsInv'
<1>1. /\ \A k \in DOMAIN module :
           /\ module[k].state = "declared" => module[k].calls = {}
           /\ module[k].state # "lost"
           /\ \A c \in module[k].calls :
                /\ c.to \in DOMAIN module /\ module[c.to].state # "declared" /\ module[c.to].type = c.type
                /\ module[k].state = "final" => module[c.to].state = "final"
      /\ \A i, j \in DOMAIN eval.entry.defs : i < j => eval.entry.defs[i].calls # eval.entry.defs[j].name
  BY DEF CallsInv, Building, At
<1>2. eval'.entry = eval.entry
  BY DEF Built
<1>3. CASE /\ m[s].state = "declared"
           /\ module' = [m EXCEPT ![s] = [type |-> type, state |-> "defined", calls |-> calls]]
  <2>1. /\ DOMAIN module' = DOMAIN module \cup {s}
        /\ \A k \in DOMAIN module : k # s => module'[k] = module[k]
        /\ module'[s].state = "defined" /\ module'[s].calls = calls
    BY <1>3
  <2>2. \A k \in DOMAIN module : module[k].state # "declared" => k # s
    BY <1>3
  <2>3. ASSUME NEW k \in DOMAIN module'
        PROVE  /\ module'[k].state = "declared" => module'[k].calls = {}
               /\ module'[k].state # "lost"
               /\ \A c \in module'[k].calls :
                    /\ c.to \in DOMAIN module' /\ module'[c.to].state # "declared" /\ module'[c.to].type = c.type
                    /\ module'[k].state = "final" => module'[c.to].state = "final"
    <3>1. CASE k = s
      BY <2>1, <2>2, <3>1
    <3>2. CASE k # s
      BY <1>1, <2>1, <2>2, <3>2
    <3> QED BY <3>1, <3>2
  <2> QED BY <1>1, <1>2, <2>3 DEF CallsInv
<1>4. CASE module' = m
  <2>1. ASSUME NEW k \in DOMAIN module'
        PROVE  /\ module'[k].state = "declared" => module'[k].calls = {}
               /\ module'[k].state # "lost"
               /\ \A c \in module'[k].calls :
                    /\ c.to \in DOMAIN module' /\ module'[c.to].state # "declared" /\ module'[c.to].type = c.type
                    /\ module'[k].state = "final" => module'[c.to].state = "final"
    <3>1. CASE k \in DOMAIN module
      BY <1>1, <1>4, <3>1
    <3>2. CASE k \notin DOMAIN module
      BY <1>4, <2>1, <3>2
    <3> QED BY <3>1, <3>2
  <2> QED BY <1>1, <1>2, <2>1 DEF CallsInv
<1> QED BY <1>3, <1>4 DEF Built

(* Pass2: the callee has code, or is an earlier function of this entry. *)
LEMMA Pass2Calls ==
  ASSUME CodeInv, CallsInv, Pass2 PROVE CallsInv'
<1> DEFINE defs == eval.entry.defs
           s == <<defs[eval.next].name, count>>
<1>1. /\ At({"compiling"}) /\ eval.entry \in Entries /\ eval.next \in 1..Len(defs)
      /\ Built(s, module, defs[eval.next].type, CallsBuilt)
  BY Pass2Type
<1>2. s \in DOMAIN module
  BY <1>1, EntryFields DEF CodeInv, NamesInv
<1>3. \A c \in CallsBuilt :
        c.to \in DOMAIN module /\ module[c.to].state # "declared" /\ module[c.to].type = c.type
  BY <1>1, CalleeReady
<1> HIDE DEF s, defs
<1> QED BY <1>1, <1>2, <1>3, BuiltCalls

(* Pass3: the main body calls nothing. *)
LEMMA Pass3Calls ==
  ASSUME CodeInv, CallsInv, Pass3 PROVE CallsInv'
<1> DEFINE s == <<Main, count>>
           m == Declare(module, s, None)
<1>1. /\ At({"compiling"})
      /\ Built(s, m, None, {})
      /\ DOMAIN m = DOMAIN module \cup {s} /\ \A k \in DOMAIN module : m[k] = module[k]
      /\ s \notin DOMAIN module => m[s] = [type |-> None, state |-> "declared", calls |-> {}]
  BY Pass3Type DEF CodeInv
<1> HIDE DEF s, m
<1>2. s \notin DOMAIN module => m[s].state = "declared" /\ m[s].calls = {}
  BY <1>1
<1> QED BY <1>1, <1>2, BuiltCalls

(* Everything pending links. *)
LEMMA FinalizeLinks ==
  ASSUME CodeInv, CallsInv, Finalize
  PROVE  /\ StartsRunning /\ DOMAIN module' = DOMAIN module
         /\ \A s \in DOMAIN module :
              /\ module'[s].type = module[s].type /\ module'[s].calls = module[s].calls
              /\ module'[s].state = IF module[s].state = "defined" THEN "final" ELSE module[s].state
<1>1. /\ DOMAIN module' = DOMAIN module
      /\ \A s \in DOMAIN module :
              /\ module'[s].type = module[s].type /\ module'[s].calls = module[s].calls
              /\ s \notin Pending => module'[s] = module[s]
  BY FinalizeIs DEF CodeInv
<1>2. \A s \in Pending : \A c \in module[s].calls : c.to \in Compiled
  BY DEF CallsInv, Pending, Compiled
<1>3. StartsRunning /\ \A s \in Pending : module'[s].state = "final"
  BY <1>2, FinalizeIs DEF CodeInv
<1> QED BY <1>1, <1>3 DEF Pending

(* Finalize: what is linked calls what is linked with it or was before. *)
LEMMA FinalizeCalls ==
  ASSUME CodeInv, CallsInv, Finalize PROVE CallsInv'
<1>1. /\ StartsRunning /\ DOMAIN module' = DOMAIN module
      /\ \A s \in DOMAIN module :
              /\ module'[s].type = module[s].type /\ module'[s].calls = module[s].calls
              /\ module'[s].state = IF module[s].state = "defined" THEN "final" ELSE module[s].state
  BY FinalizeLinks
<1>2. ~Building'
  <2>1. At({"running"})'
    BY <1>1, RunType DEF CodeInv
  <2> QED BY <2>1 DEF At, Building
<1>3. \A s \in DOMAIN module : module[s].state \in {"declared", "defined", "final", "lost"}
  BY DEF CodeInv, TypeInv, TypeOK, Code
<1>4. ASSUME NEW s \in DOMAIN module'
      PROVE  /\ module'[s].state = "declared" => module'[s].calls = {}
             /\ module'[s].state # "lost"
             /\ \A c \in module'[s].calls :
                  /\ c.to \in DOMAIN module' /\ module'[c.to].state # "declared" /\ module'[c.to].type = c.type
                  /\ module'[s].state = "final" => module'[c.to].state = "final"
  <2>1. /\ s \in DOMAIN module
        /\ module[s].state = "declared" => module[s].calls = {}
        /\ module[s].state # "lost"
    BY <1>1 DEF CallsInv
  <2>2. ASSUME NEW c \in module'[s].calls
        PROVE  c.to \in DOMAIN module' /\ module'[c.to].state = "final" /\ module'[c.to].type = c.type
    <3>1. /\ c.to \in DOMAIN module /\ module[c.to].state # "declared" /\ module[c.to].type = c.type
          /\ module[c.to].state # "lost"
      BY <1>1, <2>1 DEF CallsInv
    <3> QED BY <1>1, <1>3, <3>1
  <2> QED BY <1>1, <2>1, <2>2
<1> QED BY <1>2, <1>4 DEF CallsInv

(* There is no code at first. *)
LEMMA CallsInit == Init => CallsInv
<1> SUFFICES ASSUME Init PROVE CallsInv
  OBVIOUS
<1>1. DOMAIN module = {} /\ ~Building
  BY DEF Init, Building, At
<1> QED BY <1>1 DEF CallsInv

(* Every step of the session. *)
LEMMA CallsStep ==
  ASSUME ~CallsThenRedefines, CodeInv, CallsInv, [Next]_vars PROVE CallsInv'
<1>1. ASSUME NEW e \in Entries, Submit(e) PROVE CallsInv'
  BY <1>1, SubmitCalls
<1>2. CASE Reject
  <2>1. module' = module /\ ~Building'
    BY <1>2 DEF Reject, RejectTo, Building, At
  <2> QED BY <2>1, QuietCalls
<1>3. CASE Recover
  <2>1. module' = module /\ ~Building'
    BY <1>3 DEF Recover, RecoverTo, Building, At
  <2> QED BY <2>1, QuietCalls
<1>4. CASE NewStmt \/ CopyStmt \/ WriteStmt \/ BlockStmt
  <2>1. module' = module /\ eval.step = "running" /\ eval'.step = "running"
    BY <1>4, StatementRuns
  <2> QED BY <2>1, QuietCalls DEF Building, At
<1>5. CASE Collect
  <2>1. module' = module /\ ~Building'
    BY <1>5, CollectType DEF CodeInv, Building, At
  <2> QED BY <2>1, QuietCalls
<1>6. CASE Finish
  <2>1. module' = module /\ ~Building'
    BY <1>6, FinishType DEF CodeInv
  <2> QED BY <2>1, QuietCalls
<1>7. CASE Answer
  <2>1. module' = module /\ ~Building'
    BY <1>7, AnswerType DEF CodeInv, Building, At
  <2> QED BY <2>1, QuietCalls
<1>8. CASE UNCHANGED vars
  BY <1>8 DEF vars, CallsInv, Building, At
<1> QED BY <1>1, <1>2, <1>3, <1>4, <1>5, <1>6, <1>7, <1>8,
           Pass1Calls, Pass2Calls, Pass3Calls, FinalizeCalls DEF Next

(* So every call reaches code of its type, if entries do not call and      *)
(* redefine.                                                               *)
LEMMA CallsInvariance == ~CallsThenRedefines => (Spec => [](CodeInv /\ CallsInv))
<1> SUFFICES ASSUME ~CallsThenRedefines PROVE Spec => [](CodeInv /\ CallsInv)
  OBVIOUS
<1>1. Init => CodeInv /\ CallsInv
  BY CodeInit, CallsInit
<1>2. CodeInv /\ CallsInv /\ [Next]_vars => (CodeInv /\ CallsInv)'
  BY CodeStep, CallsStep
<1> QED BY <1>1, <1>2, PTL DEF Spec

(* If no entry calls a function and redefines it further down, a compiled    *)
(* call reaches finished code of the type the checker checked it against,  *)
(* whatever entries failed in between.                                     *)
THEOREM CallsMatchTheChecker == ~CallsThenRedefines => (Spec => []CallsMatchChecker)
<1> SUFFICES ASSUME ~CallsThenRedefines PROVE Spec => []CallsMatchChecker
  OBVIOUS
<1>1. CodeInv /\ CallsInv => CallsMatchChecker
  BY DEF CallsInv, CallsMatchChecker
<1> QED BY <1>1, CallsInvariance, PTL

-----------------------------------------------------------------------------
(* BuilderInv: whatever fails, the builder is clean and the symbols are free  *)
(* when the next entry is built, provided no entry redeclares what a failed *)
(* one left declared.                                                      *)

(* Steps that leave the module alone and end outside code generation. *)
LEMMA QuietBuilder ==
  ASSUME BuilderInv, UNCHANGED <<module, count>>, ~Building', ~At({"compiling"}),
         builder' = "clean" \/ (builder' = builder /\ ~At({"panicked"}))
  PROVE  BuilderInv'
<1>1. ~At({"panicked"})' /\ ~At({"checked"})' /\ ~At({"compiling"})'
  BY DEF Building, At
<1> QED BY <1>1 DEF BuilderInv

(* Submit: the entry redeclares nothing that is still declared. *)
LEMMA SubmitBuilder ==
  ASSUME ~RetriesDefinitions, TypeInv, BuilderInv, NEW e \in Entries, Submit(e) PROVE BuilderInv'
<1>1. /\ eval = None /\ eval'.entry = e /\ eval'.step = "checked"
      /\ UNCHANGED <<module, builder, count>>
      /\ \A i \in DOMAIN e.defs : <<e.defs[i].name, count>> \notin DOMAIN module
  BY DEF Submit, Permitted, session
<1>2. ~At({"panicked"})' /\ ~At({"compiling"})' /\ ~At({"panicked"}) /\ ~At({"compiling"})
  BY <1>1 DEF At
<1> QED BY <1>1, <1>2 DEF BuilderInv

(* Pass1: the symbols of this entry are new, so they are declared only. *)
LEMMA Pass1Builder ==
  ASSUME TypeInv, BuilderInv, Pass1 PROVE BuilderInv'
<1> DEFINE defs == eval.entry.defs
<1>1. /\ eval # None /\ eval.step = "checked" /\ eval.entry \in Entries
      /\ module' = DeclareAll(module, defs)
      /\ eval' = [eval EXCEPT !.step = "compiling"]
      /\ UNCHANGED <<builder, count>>
  BY Pass1Step
<1>2. /\ eval \in [step : {"checked", "compiling", "panicked"}, entry : Entries,
                   checker : Checkers, ids : Names, mapped : Nat, next : Nat \ {0}]
      /\ TypeOK /\ count <= MaxEntries /\ count \in Nat
  BY <1>1, EvalForms, LenProperties DEF TypeInv, TypeOK
<1>3. /\ DOMAIN module' = DOMAIN module \cup {<<defs[i].name, count>> : i \in DOMAIN defs}
      /\ \A s \in DOMAIN module : module'[s] = module[s]
      /\ \A i \in DOMAIN defs : <<defs[i].name, count>> \notin DOMAIN module =>
           module'[<<defs[i].name, count>>].state = "declared"
  BY <1>1, <1>2, DeclareAllIs
<1>4. eval'.entry = eval.entry /\ eval'.step = "compiling"
  BY <1>1, <1>2
<1>5. \A i \in DOMAIN defs : defs[i].name \in Funcs
  BY <1>1, EntryFields
<1>6. At({"checked"}) /\ ~At({"panicked"}) /\ ~At({"compiling"}) /\ ~At({"panicked"})' /\ ~At({"checked"})'
  BY <1>1, <1>4 DEF At
<1> HIDE DEF defs
<1>7. \A s \in DOMAIN module' : s[2] <= count
  BY <1>2, <1>3 DEF BuilderInv
<1>8. <<Main, count>> \in DOMAIN module' => module'[<<Main, count>>].state = "declared"
  <2>1. \A i \in DOMAIN defs : <<Main, count>> # <<defs[i].name, count>>
    BY <1>5, NamesAssumption
  <2>2. <<Main, count>> \in DOMAIN module' => <<Main, count>> \in DOMAIN module
    BY <1>3, <2>1
  <2> QED BY <1>3, <1>6, <2>2 DEF BuilderInv
<1>9. \A i \in DOMAIN defs : module'[<<defs[i].name, count>>].state = "declared"
  BY <1>3, <1>6 DEF BuilderInv, defs
<1> QED BY <1>1, <1>4, <1>6, <1>7, <1>8, <1>9 DEF BuilderInv, defs

(* Pass2: the panic leaves the builder dirty, the rest leaves it clean. *)
LEMMA Pass2Builder ==
  ASSUME CodeInv, BuilderInv, Pass2 PROVE BuilderInv'
<1> DEFINE defs == eval.entry.defs
           n == eval.next
           s == <<defs[n].name, count>>
           code == [type |-> defs[n].type, state |-> "defined", calls |-> CallsBuilt]
           main == <<Main, count>>
<1>1. /\ At({"compiling"}) /\ eval.entry \in Entries /\ n \in 1..Len(defs)
      /\ Built(s, module, defs[n].type, CallsBuilt)
  BY Pass2Type
<1>2. /\ Len(defs) \in Nat /\ DOMAIN defs = 1..Len(defs)
      /\ \A i \in 1..Len(defs) : defs[i].name \in Funcs
      /\ \A i, j \in 1..Len(defs) : i # j => defs[i].name # defs[j].name
  BY <1>1, EntryFields
<1>3. /\ eval'.entry = eval.entry /\ count' = count
  BY <1>1 DEF Built
<1>4. /\ ~At({"panicked"}) /\ ~At({"checked"})' /\ builder # "dirty"
      /\ \A k \in DOMAIN module : k[2] <= count
      /\ \A i \in DOMAIN defs : i >= n => module[<<defs[i].name, count>>].state = "declared"
  BY <1>1 DEF BuilderInv, At, Built
<1>5. builder = "clean" /\ module[s].state = "declared"
  BY <1>1, <1>2, <1>4 DEF CodeInv, TypeInv, TypeOK
<1>6. main \in DOMAIN module => module[main].state = "declared"
  <2>1. n # Len(defs) + 2
    BY <1>1, <1>2
  <2> QED BY <2>1 DEF BuilderInv
<1>7. main # s
  BY <1>1, <1>2, NamesAssumption
<1> HIDE DEF code, s, main, defs
<1>8. CASE /\ At({"compiling"})' /\ eval'.next = n + 1 /\ builder' = builder
           /\ module' = [module EXCEPT ![s] = code]
  <2>1. DOMAIN module' = DOMAIN module /\ \A k \in DOMAIN module : k # s => module'[k] = module[k]
    BY <1>8
  <2>2. ASSUME NEW i \in DOMAIN defs, i >= n + 1
        PROVE  module'[<<defs[i].name, count>>].state = "declared"
    <3>1. <<defs[i].name, count>> # s
      BY <1>1, <1>2, <2>2 DEF s
    <3>2. i >= n
      BY <1>1, <1>2, <2>2
    <3>3. <<defs[i].name, count>> \in DOMAIN module
      BY <1>1 DEF CodeInv, NamesInv, defs
    <3> QED BY <1>4, <2>1, <3>1, <3>2, <3>3
  <2>3. ~At({"panicked"})' /\ builder' # "dirty"
    BY <1>5, <1>8 DEF At
  <2>4. main \in DOMAIN module' => module'[main].state = "declared"
    BY <1>6, <1>7, <2>1
  <2> QED BY <1>3, <1>4, <1>8, <2>1, <2>2, <2>3, <2>4 DEF BuilderInv, defs, main
<1>9. CASE /\ eval.entry.panics = n /\ At({"panicked"})' /\ module' = module
  <2>1. eval'.entry.panics # 0 /\ ~At({"compiling"})'
    BY <1>1, <1>2, <1>3, <1>9 DEF At
  <2> QED BY <1>3, <1>4, <1>6, <1>9, <2>1 DEF BuilderInv, main
<1> QED BY <1>1, <1>5, <1>8, <1>9 DEF Built, code

(* Pass3: likewise for the main body, whose symbol no function has. *)
LEMMA Pass3Builder ==
  ASSUME CodeInv, BuilderInv, Pass3 PROVE BuilderInv'
<1> DEFINE n == eval.next
           main == <<Main, count>>
           m == Declare(module, main, None)
           code == [type |-> None, state |-> "defined", calls |-> {}]
<1>1. /\ At({"compiling"}) /\ eval.entry \in Entries /\ n = Len(eval.entry.defs) + 1
      /\ Built(main, m, None, {})
      /\ DOMAIN m = DOMAIN module \cup {main} /\ \A k \in DOMAIN module : m[k] = module[k]
      /\ main \notin DOMAIN module => m[main] = [type |-> None, state |-> "declared", calls |-> {}]
  BY Pass3Type DEF CodeInv
<1>2. /\ Len(eval.entry.defs) \in Nat /\ DOMAIN eval.entry.defs = 1..Len(eval.entry.defs)
      /\ count \in Nat
  BY <1>1, EntryFields, LenProperties DEF CodeInv, TypeInv, TypeOK
<1>3. /\ eval'.entry = eval.entry /\ count' = count
  BY <1>1 DEF Built
<1>4. /\ ~At({"panicked"}) /\ ~At({"checked"})' /\ builder # "dirty"
      /\ \A k \in DOMAIN module : k[2] <= count
  BY <1>1 DEF BuilderInv, At, Built
<1>5. builder = "clean"
  BY <1>4 DEF CodeInv, TypeInv, TypeOK
<1>6. m[main].state = "declared"
  <2>1. n # Len(eval.entry.defs) + 2
    BY <1>1, <1>2
  <2>2. main \in DOMAIN module => module[main].state = "declared"
    BY <2>1 DEF BuilderInv
  <2> HIDE DEF main, m
  <2> QED BY <1>1, <2>2
<1>7. \A k \in DOMAIN m : k[2] <= count
  <2>1. main[2] = count
    OBVIOUS
  <2> HIDE DEF main, m
  <2> QED BY <1>1, <1>2, <1>4, <2>1
<1> HIDE DEF code, main, m
<1>8. CASE /\ At({"compiling"})' /\ eval'.next = n + 1 /\ builder' = builder
           /\ module' = [m EXCEPT ![main] = code]
  <2>1. DOMAIN module' = DOMAIN m /\ eval'.next = Len(eval'.entry.defs) + 2
    BY <1>1, <1>2, <1>3, <1>8
  <2>2. \A i \in DOMAIN eval.entry.defs : ~(i >= eval'.next)
    BY <1>1, <1>2, <1>8
  <2>3. ~At({"panicked"})' /\ builder' # "dirty"
    BY <1>5, <1>8 DEF At
  <2> QED BY <1>3, <1>4, <1>7, <1>8, <2>1, <2>2, <2>3 DEF BuilderInv
<1>9. CASE /\ eval.entry.panics = n /\ At({"panicked"})' /\ module' = m
  <2>1. eval'.entry.panics # 0 /\ ~At({"compiling"})'
    BY <1>1, <1>2, <1>3, <1>9 DEF At
  <2> QED BY <1>3, <1>4, <1>6, <1>7, <1>9, <2>1 DEF BuilderInv, main
<1> QED BY <1>1, <1>5, <1>6, <1>8, <1>9 DEF Built, code

(* Finalize: the next entry has the next number, which no symbol has. *)
LEMMA FinalizeBuilder ==
  ASSUME CodeInv, CallsInv, BuilderInv, Finalize PROVE BuilderInv'
<1>1. /\ At({"compiling"}) /\ DOMAIN module' = DOMAIN module /\ UNCHANGED builder
      /\ StartsRunning
  BY FinalizeIs, FinalizeLinks DEF CodeInv
<1>2. At({"running"})' /\ count' = count + 1 /\ count \in Nat
  BY <1>1, RunType, LenProperties DEF CodeInv, TypeInv, TypeOK, StartsRunning
<1>3. /\ ~At({"panicked"})' /\ ~At({"checked"})' /\ ~At({"compiling"})' /\ ~At({"panicked"})
  BY <1>1, <1>2 DEF At
<1>4. \A s \in DOMAIN module : s[2] <= count /\ s[2] \in Nat
  BY <1>2 DEF BuilderInv, CodeInv, TypeInv, TypeOK, Symbol
<1>5. \A s \in DOMAIN module' : s[2] <= count'
  BY <1>1, <1>2, <1>4
<1>6. <<Main, count'>> \notin DOMAIN module'
  <2>1. \A s \in DOMAIN module : s[2] # count + 1
    BY <1>2, <1>4
  <2>2. <<Main, count + 1>>[2] = count + 1
    OBVIOUS
  <2> QED BY <1>1, <1>2, <2>1, <2>2
<1> QED BY <1>1, <1>3, <1>5, <1>6 DEF BuilderInv

(* The builder is clean at first. *)
LEMMA BuilderInit == Init => BuilderInv
<1> SUFFICES ASSUME Init PROVE BuilderInv
  OBVIOUS
<1>1. /\ DOMAIN module = {} /\ builder = "clean"
      /\ ~At({"panicked"}) /\ ~At({"checked"}) /\ ~At({"compiling"})
  BY DEF Init, At
<1> QED BY <1>1 DEF BuilderInv

(* Every step of the session. *)
LEMMA BuilderStep ==
  ASSUME ~RetriesDefinitions, CodeInv, CallsInv, BuilderInv, [Next]_vars PROVE BuilderInv'
<1>1. TypeInv
  BY DEF CodeInv
<1>2. ASSUME NEW e \in Entries, Submit(e) PROVE BuilderInv'
  BY <1>1, <1>2, SubmitBuilder
<1>3. CASE Reject
  <2>1. /\ UNCHANGED <<module, count, builder>> /\ ~Building'
        /\ ~At({"compiling"}) /\ ~At({"panicked"})
    BY <1>3 DEF Reject, RejectTo, session, Building, At
  <2> QED BY <2>1, QuietBuilder
<1>4. CASE Pass1
  BY <1>1, <1>4, Pass1Builder
<1>5. CASE Recover
  <2>1. /\ UNCHANGED <<module, count>> /\ ~Building' /\ ~At({"compiling"}) /\ builder' = "clean"
    BY <1>5 DEF Recover, RecoverTo, session, Building, At
  <2>2. builder' = "clean" \/ (builder' = builder /\ ~At({"panicked"}))
    BY <2>1
  <2> QED BY <2>1, <2>2, QuietBuilder
<1>6. CASE NewStmt \/ CopyStmt \/ WriteStmt \/ BlockStmt
  <2>1. /\ UNCHANGED <<module, builder, count>>
        /\ eval.step = "running" /\ eval'.step = "running"
    BY <1>6, StatementRuns
  <2> QED BY <2>1, QuietBuilder DEF Building, At
<1>7. CASE Collect
  <2>1. /\ UNCHANGED <<module, builder, count>> /\ ~Building' /\ ~At({"compiling"}) /\ ~At({"panicked"})
    BY <1>1, <1>7, CollectType DEF Building, At
  <2> QED BY <2>1, QuietBuilder
<1>8. CASE Finish
  <2>1. /\ UNCHANGED <<module, builder, count>> /\ ~Building' /\ ~At({"compiling"}) /\ ~At({"panicked"})
    BY <1>1, <1>8, FinishType DEF At
  <2> QED BY <2>1, QuietBuilder
<1>9. CASE Answer
  <2>1. /\ UNCHANGED <<module, builder, count>> /\ ~Building' /\ ~At({"compiling"}) /\ ~At({"panicked"})
    BY <1>1, <1>9, AnswerType DEF Building, At
  <2> QED BY <2>1, QuietBuilder
<1>10. CASE UNCHANGED vars
  <2>1. UNCHANGED <<module, builder, count, eval>>
    BY <1>10 DEF vars, session
  <2> QED BY <2>1 DEF BuilderInv, At
<1> QED BY <1>2, <1>3, <1>4, <1>5, <1>6, <1>7, <1>8, <1>9, <1>10,
           Pass2Builder, Pass3Builder, FinalizeBuilder DEF Next

(* No failed eval leaves the session unusable: if entries do not redeclare   *)
(* what a failed one declared, an entry that does not itself make the code *)
(* generator panic compiles.                                               *)
THEOREM EveryGoodEntryCompiles ==
  ~CallsThenRedefines /\ ~RetriesDefinitions => (Spec => []GoodEntriesCompile)
<1> SUFFICES ASSUME ~CallsThenRedefines, ~RetriesDefinitions PROVE Spec => []GoodEntriesCompile
  OBVIOUS
<1> DEFINE Inv == CodeInv /\ CallsInv /\ BuilderInv
<1>1. Init => Inv
  BY CodeInit, CallsInit, BuilderInit
<1>2. Inv /\ [Next]_vars => Inv'
  BY CodeStep, CallsStep, BuilderStep
<1>3. Inv => GoodEntriesCompile
  BY DEF BuilderInv, GoodEntriesCompile, At
<1> QED BY <1>1, <1>2, <1>3, PTL DEF Spec

-----------------------------------------------------------------------------
(* ValuesInv: a write in place is seen by one variable only, provided an     *)
(* entry saves every value it leaves in a variable by another route.       *)

(* What a slot of the out buffer adds to what will be saved. *)
LEMMA SavedAppend ==
  ASSUME NEW out \in Seq([name : Vars, list : Addr]),
         NEW app \in Seq([name : Vars, list : Addr]), Len(app) = Len(out) + 1,
         \A i \in 1..Len(out) : app[i] = out[i], NEW y \in Vars
  PROVE  Saved(app)[y] = IF y = app[Len(out) + 1].name THEN app[Len(out) + 1].list ELSE Saved(out)[y]
<1> DEFINE n == Len(out)
           x == app[n + 1].name
           a == app[n + 1].list
<1>1. /\ app \in Seq([name : Vars, list : Addr]) /\ Len(app) = n + 1 /\ n \in Nat
      /\ \A i \in 1..n : app[i] = out[i]
      /\ app[n + 1].name = x /\ app[n + 1].list = a
  BY LenProperties
<1> SUFFICES Saved(app)[y] = IF y = x THEN a ELSE Saved(out)[y]
  OBVIOUS
<1> HIDE DEF n, x, a
<1>2. CASE y = x
  <2>1. n + 1 \in 1..Len(app) /\ app[n + 1].name = y /\ app[n + 1].list = a
    BY <1>1, <1>2
  <2>2. \A j \in 1..Len(app) : j <= n + 1
    BY <1>1
  <2>3. Saved(app)[y] = app[n + 1].list
    BY <1>1, <2>1, <2>2, SavedIs
  <2> QED BY <1>2, <2>1, <2>3
<1>3. CASE y # x
  <2>1. app[n + 1].name # y
    BY <1>1, <1>3
  <2>2. \A j \in 1..Len(app) : j \in 1..n \/ j = n + 1
    BY <1>1
  <2>3. CASE \A i \in 1..n : out[i].name # y
    <3>1. \A i \in 1..Len(app) : app[i].name # y
      BY <1>1, <2>1, <2>2, <2>3
    <3>2. Saved(app)[y] = env[y]
      BY <1>1, <3>1, SavedIs
    <3>3. Saved(out)[y] = env[y]
      BY <2>3, SavedIs DEF n
    <3> QED BY <1>3, <3>2, <3>3
  <2>4. CASE \E i \in 1..n : out[i].name = y
    <3>1. PICK i \in 1..n : /\ out[i].name = y /\ Saved(out)[y] = out[i].list
                            /\ \A j \in 1..n : out[j].name = y => j <= i
      BY <2>4, SavedIs DEF n
    <3>2. i \in 1..Len(app) /\ app[i].name = y /\ app[i].list = out[i].list
      BY <1>1, <3>1
    <3>3. \A j \in 1..Len(app) : app[j].name = y => j <= i
      BY <1>1, <2>1, <2>2, <3>1
    <3>4. Saved(app)[y] = app[i].list
      BY <1>1, <3>2, <3>3, SavedIs
    <3> QED BY <1>3, <3>1, <3>2, <3>4
  <2> QED BY <2>3, <2>4
<1> QED BY <1>2, <1>3

(* What will be saved is allocated and survives a collection. *)
LEMMA SavedAllocated ==
  ASSUME TypeInv, At({"running"}), NEW x \in Vars, Saved(eval.out)[x] # None
  PROVE  Saved(eval.out)[x] \in DOMAIN heap \cap Addr \cap (roots \cup InUse(eval))
<1>1. /\ eval.entry \in Entries /\ eval.next \in Nat \ {0}
      /\ eval.out \in Seq([name : Vars, list : Addr])
      /\ DOMAIN eval.out = 1..Len(eval.out)
  BY EvalForms, LenProperties DEF TypeInv, At
<1>2. /\ InUse(eval) \subseteq DOMAIN heap /\ EnvAddrs(env) \subseteq roots /\ roots \subseteq DOMAIN heap
      /\ DOMAIN heap \subseteq Addr
  BY DEF TypeInv, TypeOK, HeapInv
<1>3. InUse(eval) = ({eval.out[i].list : i \in DOMAIN eval.out}
                      \cup {eval.local[eval.entry.stmts[i][3]] : i \in eval.next..Len(eval.entry.stmts)})
                     \ {None}
  BY <1>1, InUseIs
<1>4. CASE \A i \in 1..Len(eval.out) : eval.out[i].name # x
  <2>1. Saved(eval.out)[x] = env[x]
    BY <1>1, <1>4, SavedIs
  <2> QED BY <1>2, <2>1 DEF EnvAddrs
<1>5. CASE \E i \in 1..Len(eval.out) : eval.out[i].name = x
  <2>1. PICK i \in 1..Len(eval.out) :
               /\ eval.out[i].name = x /\ Saved(eval.out)[x] = eval.out[i].list
               /\ \A j \in 1..Len(eval.out) : eval.out[j].name = x => j <= i
    BY <1>1, <1>5, SavedLast
  <2> QED BY <1>1, <1>2, <1>3, <2>1
<1> QED BY <1>4, <1>5

(* So is what a kept variable holds. *)
LEMMA KeptAllocated ==
  ASSUME TypeInv, At({"running"}), NEW x \in Kept
  PROVE  /\ x \in Vars /\ eval.local[x] # None
         /\ eval.local[x] \in DOMAIN heap \cap Addr \cap (roots \cup InUse(eval))
<1>1. x \in Vars /\ eval.local[x] # None
  BY DEF Kept
<1>2. CASE Saved(eval.out)[x] = eval.local[x]
  BY <1>1, <1>2, SavedAllocated
<1>3. ASSUME NEW i \in eval.next..Len(eval.entry.stmts), eval.entry.stmts[i][3] = x
      PROVE  eval.local[x] \in DOMAIN heap \cap Addr \cap (roots \cup InUse(eval))
  <2>1. eval.entry \in Entries /\ eval.next \in Nat \ {0}
    BY EvalForms DEF TypeInv, At
  <2>2. InUse(eval) \subseteq DOMAIN heap /\ DOMAIN heap \subseteq Addr
    BY DEF TypeInv, TypeOK, HeapInv
  <2>3. InUse(eval) = ({eval.out[j].list : j \in DOMAIN eval.out}
                      \cup {eval.local[eval.entry.stmts[j][3]] : j \in eval.next..Len(eval.entry.stmts)})
                     \ {None}
    BY <2>1, InUseIs
  <2> QED BY <1>1, <1>3, <2>2, <2>3
<1> QED BY <1>1, <1>2, <1>3 DEF Kept, Reads

(* From one statement to the next: what is shared or unsaved then was so     *)
(* before, or the statement made it so.                                    *)
LEMMA RestStep ==
  ASSUME NEW e \in Entries, NEW n \in 1..Len(e.stmts), NEW K, NEW U, RestSafe(e, n, K, U),
         NEW K2, NEW U2,
         \A z \in K2 : \/ z \in K /\ z # e.stmts[n][2]
                       \/ e.stmts[n][1] = "copy" /\ z \in {e.stmts[n][2], e.stmts[n][3]},
         \A z \in U2 : \/ z \in U /\ (Binds(e.stmts[n]) => z # e.stmts[n][2])
                       \/ BoundLater(e, n, z)
  PROVE  RestSafe(e, n + 1, K2, U2)
<1>1. Len(e.stmts) \in Nat /\ DOMAIN e.stmts = 1..Len(e.stmts) /\ n \in Nat /\ n + 1 - 1 = n
  BY EntryFields
<1>2. ASSUME NEW z \in U2 PROVE BoundLater(e, n + 1 - 1, z)
  <2>1. CASE z \in U /\ (Binds(e.stmts[n]) => z # e.stmts[n][2])
    <3>1. PICK j \in DOMAIN e.stmts : j > n - 1 /\ Binds(e.stmts[j]) /\ e.stmts[j][2] = z
      BY <2>1 DEF RestSafe, BoundLater
    <3>2. j # n
      BY <2>1, <3>1
    <3>3. j > n
      BY <1>1, <3>1, <3>2
    <3> QED BY <1>1, <3>1, <3>3 DEF BoundLater
  <2> QED BY <1>1, <2>1
<1>3. ASSUME NEW i \in (n + 1)..Len(e.stmts), NEW z, SharedFrom(e, n + 1, K2, i, z)
      PROVE  SharedFrom(e, n, K, i, z)
  <2>1. PICK j \in n..(i - 1) :
          /\ IF j = n THEN z \in K2
             ELSE e.stmts[j][1] = "copy" /\ z \in {e.stmts[j][2], e.stmts[j][3]}
          /\ \A k \in (j + 1)..(i - 1) : e.stmts[k][2] = z => e.stmts[k][1] \notin {"new", "block"}
    BY <1>1, <1>3 DEF SharedFrom
  <2>2. CASE j # n \/ (e.stmts[n][1] = "copy" /\ z \in {e.stmts[n][2], e.stmts[n][3]})
    <3>1. j \in (n - 1)..(i - 1) /\ j # n - 1
      BY <1>1, <2>1
    <3> QED BY <2>1, <2>2, <3>1 DEF SharedFrom
  <2>3. CASE j = n /\ z \in K /\ z # e.stmts[n][2]
    <3>1. \A k \in (n - 1 + 1)..(i - 1) : k = n \/ k \in (n + 1)..(i - 1)
      BY <1>1
    <3>2. \A k \in (n - 1 + 1)..(i - 1) : e.stmts[k][2] = z => e.stmts[k][1] \notin {"new", "block"}
      BY <2>1, <2>3, <3>1
    <3>3. n - 1 \in (n - 1)..(i - 1)
      BY <1>1, <2>1
    <3> QED BY <2>3, <3>2, <3>3 DEF SharedFrom
  <2> QED BY <2>1, <2>2, <2>3
<1>4. ASSUME NEW i \in (n + 1)..Len(e.stmts),
             \/ e.stmts[i][1] = "block"
             \/ e.stmts[i][1] = "write" /\ SharedFrom(e, n + 1, K2, i, e.stmts[i][2])
      PROVE  BoundLater(e, i, e.stmts[i][2])
  <2>1. i \in n..Len(e.stmts)
    BY <1>1
  <2> QED BY <1>3, <1>4, <2>1 DEF RestSafe
<1> QED BY <1>2, <1>4 DEF RestSafe

(* Steps that leave the values alone, outside a running entry. *)
LEMMA QuietValues ==
  ASSUME ValuesInv, UNCHANGED <<env, heap>>, ~At({"running"}), ~At({"running"})', ~At({"done"})',
         At({"checked", "compiling"})' => At({"checked", "compiling"}) /\ eval'.entry = eval.entry
  PROVE  ValuesInv'
<1>1. EnvShared' = EnvShared /\ Bound(env)' = Bound(env)
  BY DEF EnvShared, Bound
<1>2. VariablesPersist'
  BY DEF VariablesPersist, At
<1> QED BY <1>1, <1>2 DEF ValuesInv

(* Submit: the entry saves what it changes. *)
LEMMA SubmitValues ==
  ASSUME ~UnsavedWrites, ValuesInv, TypeInv, NEW e \in Entries, Submit(e) PROVE ValuesInv'
<1>1. /\ eval = None /\ eval'.step = "checked" /\ eval'.entry = e /\ UNCHANGED <<env, heap>>
      /\ \A i \in DOMAIN e.stmts : Unsaves(e, i) => BoundLater(e, i, e.stmts[i][2])
  BY DEF Submit, Permitted, session, BoundLater
<1>2. ~At({"running"}) /\ ~At({"running"})' /\ VariablesPersist'
  BY <1>1 DEF At, VariablesPersist
<1>3. EnvShared' = EnvShared /\ Bound(env)' = Bound(env)
  BY <1>1 DEF EnvShared, Bound
<1>4. Len(e.stmts) \in Nat /\ DOMAIN e.stmts = 1..Len(e.stmts)
  BY EntryFields
<1>5. RestSafe(e, 1, EnvShared, {})
  <2> SUFFICES ASSUME NEW i \in 1..Len(e.stmts),
                      \/ e.stmts[i][1] = "block"
                      \/ e.stmts[i][1] = "write" /\ SharedFrom(e, 1, EnvShared, i, e.stmts[i][2])
               PROVE  Unsaves(e, i)
    BY <1>1, <1>4 DEF RestSafe
  <2>1. ASSUME SharedFrom(e, 1, EnvShared, i, e.stmts[i][2]) PROVE SharedBefore(e, i, e.stmts[i][2])
    <3>1. PICK j \in (1 - 1)..(i - 1) :
            /\ IF j = 1 - 1 THEN e.stmts[i][2] \in EnvShared
               ELSE e.stmts[j][1] = "copy" /\ e.stmts[i][2] \in {e.stmts[j][2], e.stmts[j][3]}
            /\ \A k \in (j + 1)..(i - 1) :
                 e.stmts[k][2] = e.stmts[i][2] => e.stmts[k][1] \notin {"new", "block"}
      BY <2>1 DEF SharedFrom
    <3>2. j \in 0..(i - 1)
      BY <3>1
    <3> QED BY <3>1, <3>2 DEF SharedBefore, EnvShared, Bound
  <2> QED BY <2>1 DEF Unsaves
<1> QED BY <1>1, <1>2, <1>3, <1>5 DEF ValuesInv

(* Finalize: the entry starts from what the session holds. *)
LEMMA FinalizeValues ==
  ASSUME ValuesInv, TypeInv, Finalize PROVE ValuesInv'
<1>1. /\ At({"compiling"}) /\ UNCHANGED <<env, heap>>
      /\ StartsRunning \/ eval' = [eval EXCEPT !.step = "panicked"]
  BY FinalizeIs
<1>2. ~At({"running"}) /\ At({"checked", "compiling"})
  BY <1>1 DEF At
<1>3. CASE StartsRunning
  <2>1. /\ At({"running"})' /\ eval'.entry = eval.entry /\ eval'.next = 1 /\ eval'.local = env
        /\ eval'.out = <<>>
        /\ eval'.means = [x \in Vars |-> IF env[x] = None THEN None ELSE heap[env[x]].bit]
    BY <1>3, RunType
  <2>2. \A x \in Vars : Saved(<<>>)[x] = env[x]
    <3>1. /\ << >> \in Seq([name : Vars, list : Addr])
          /\ \A x \in Vars : \A i \in 1..Len(<< >>) : << >>[i].name # x
      OBVIOUS
    <3> QED BY <3>1, SavedIs
  <2>3. \A x \in Vars : Saved(eval.out)'[x] = eval'.local[x]
    <3>1. Saved(eval.out)' = Saved(<<>>)
      BY <1>1, <2>1 DEF Saved
    <3> QED BY <2>1, <2>2, <3>1
  <2>4. Kept' = Bound(env) /\ Unsaved' = {}
    BY <2>1, <2>3 DEF Kept, Unsaved, Bound
  <2>5. KeptShared' = EnvShared
    BY <1>1, <2>1, <2>4 DEF KeptShared, EnvShared
  <2>6. VariablesPersist'
    BY <2>1 DEF At, VariablesPersist
  <2>7. \A x \in Kept' : heap'[eval'.local[x]].bit = eval'.means[x]
    BY <1>1, <2>1, <2>4 DEF Bound
  <2>8. \A x, y \in Kept' : x # y /\ eval'.local[x] = eval'.local[y] => heap'[eval'.local[x]].shared
    BY <1>1, <1>2, <2>1, <2>4 DEF ValuesInv
  <2>9. RestSafe(eval'.entry, eval'.next, KeptShared', Unsaved')
    BY <1>2, <2>1, <2>4, <2>5 DEF ValuesInv
  <2>10. ~At({"checked", "compiling"})'
    BY <2>1 DEF At
  <2> QED BY <2>1, <2>6, <2>7, <2>8, <2>9, <2>10 DEF ValuesInv
<1>4. CASE eval' = [eval EXCEPT !.step = "panicked"]
  <2>1. ~At({"running"})' /\ ~At({"done"})' /\ ~At({"checked", "compiling"})'
    <3>1. eval'.step = "panicked"
      BY <1>1, <1>4, EvalForms DEF TypeInv, At
    <3> QED BY <3>1 DEF At
  <2> QED BY <1>1, <1>2, <2>1, QuietValues
<1> QED BY <1>1, <1>3, <1>4

(* A statement that reads x keeps it. *)
LEMMA ReadIsKept ==
  ASSUME TypeInv, NEW op, Running(op), op # "new"
  PROVE  eval.entry.stmts[eval.next][3] \in Kept
<1>1. /\ eval.next \in 1..Len(eval.entry.stmts) /\ eval.entry.stmts[eval.next][3] \in Vars
      /\ eval.local[eval.entry.stmts[eval.next][3]] # None
  BY RunningIs
<1>2. eval.next \in eval.next..Len(eval.entry.stmts)
  BY <1>1
<1> QED BY <1>1, <1>2 DEF Kept, Reads

(* What a statement that puts the list at a of heap h into x keeps of the    *)
(* other lists; z is the variable it reads, out the slots after it.        *)
KeepsOthers(x, z, a, h, bit, out) ==
  LET s == eval.entry.stmts[eval.next] IN
  /\ \/ Binds(s) /\ out = Append(eval.out, [name |-> x, list |-> a])
     \/ /\ ~Binds(s) /\ out = eval.out
        /\ a = eval.local[x] \/ BoundLater(eval.entry, eval.next, x)
  /\ h[a].bit = bit /\ (h[a].shared => s[1] = "copy")
  /\ \A y \in Kept : y # x =>
       /\ h[eval.local[y]].bit = heap[eval.local[y]].bit
       /\ heap[eval.local[y]].shared => h[eval.local[y]].shared
       /\ h[eval.local[y]].shared => heap[eval.local[y]].shared \/ (s[1] = "copy" /\ y = z)
       /\ eval.local[y] = a => h[a].shared

(* That is all it takes for the values to be kept. *)
LEMMA StepValues ==
  ASSUME TypeInv, ValuesInv, At({"running"}), eval.next \in 1..Len(eval.entry.stmts),
         NEW x \in Vars, x = eval.entry.stmts[eval.next][2],
         NEW z \in Vars, z = eval.entry.stmts[eval.next][3],
         NEW a \in Addr, NEW h, NEW bit \in {0, 1}, NEW out, NEW result \in Addr \cup {None},
         Step(x, a, h, bit, out, result), KeepsOthers(x, z, a, h, bit, out)
  PROVE  ValuesInv'
<1> DEFINE e == eval.entry
           n == eval.next
           op == e.stmts[n][1]
           Slot == [name : Vars, list : Addr]
<1>0. /\ \/ Binds(e.stmts[n]) /\ out = Append(eval.out, [name |-> x, list |-> a])
         \/ /\ ~Binds(e.stmts[n]) /\ out = eval.out
            /\ a = eval.local[x] \/ BoundLater(e, n, x)
      /\ h[a].bit = bit /\ (h[a].shared => op = "copy")
      /\ \A y \in Kept : y # x =>
           /\ h[eval.local[y]].bit = heap[eval.local[y]].bit
           /\ heap[eval.local[y]].shared => h[eval.local[y]].shared
           /\ h[eval.local[y]].shared => heap[eval.local[y]].shared \/ (op = "copy" /\ y = z)
           /\ eval.local[y] = a => h[a].shared
  BY DEF KeepsOthers
<1>1. /\ At({"running"}) /\ n \in 1..Len(e.stmts) /\ e.stmts[n][1] = op /\ e \in Entries
  BY EvalForms DEF TypeInv, At
<1>2. Len(e.stmts) \in Nat /\ n \in Nat
  BY <1>1, EntryFields
<1>3. Stepped(x, a, h, bit, out, result)
  BY <1>1, StepIs
<1>4. /\ eval.out \in Seq(Slot) /\ eval.local \in [Vars -> Addr \cup {None}]
      /\ eval.means \in [Vars -> {0, 1, None}]
      /\ heap' = h /\ env' = env
      /\ eval'.step = "running" /\ eval'.entry = e /\ eval'.next = n + 1 /\ eval'.out = out
      /\ eval'.local = [eval.local EXCEPT ![x] = a] /\ eval'.means = [eval.means EXCEPT ![x] = bit]
  BY <1>3 DEF Stepped, Envs, Bits
<1>5. out \in Seq(Slot)
  <2>1. [name |-> x, list |-> a] \in Slot
    OBVIOUS
  <2> HIDE DEF Slot
  <2>2. Append(eval.out, [name |-> x, list |-> a]) \in Seq(Slot)
    BY <1>4, <2>1, AppendProperties
  <2> QED BY <1>0, <1>4, <2>2
<1>6. At({"running"})' /\ ~At({"done"})' /\ ~At({"checked", "compiling"})'
  <2>1. eval' # None
    BY <1>1, <1>5, StepIs
  <2> QED BY <1>4, <2>1 DEF At
<1>7. /\ eval'.local[x] = a /\ eval'.means[x] = bit
      /\ \A y \in Vars : y # x => eval'.local[y] = eval.local[y] /\ eval'.means[y] = eval.means[y]
  BY <1>4
<1>8. /\ \A y \in Vars : y # x => Saved(eval.out)'[y] = Saved(eval.out)[y]
      /\ Binds(e.stmts[n]) => Saved(eval.out)'[x] = a
      /\ ~Binds(e.stmts[n]) => Saved(eval.out)'[x] = Saved(eval.out)[x]
  <2>1. Saved(eval.out)' = Saved(out)
    BY <1>4 DEF Saved
  <2>2. CASE Binds(e.stmts[n])
    <3>1. out = Append(eval.out, [name |-> x, list |-> a])
      BY <1>0, <2>2
    <3>2. eval.out \in Seq([name : Vars, list : Addr])
      BY <1>4
    <3>3. /\ Len(out) = Len(eval.out) + 1 /\ \A i \in 1..Len(eval.out) : out[i] = eval.out[i]
          /\ out[Len(eval.out) + 1].name = x /\ out[Len(eval.out) + 1].list = a
      <4> DEFINE slot == [name |-> x, list |-> a]
      <4>1. slot \in Slot /\ slot.name = x /\ slot.list = a
        OBVIOUS
      <4> HIDE DEF slot, Slot
      <4>2. eval.out \in Seq(Slot) /\ out = Append(eval.out, slot)
        BY <1>4, <3>1 DEF slot
      <4> QED BY <4>1, <4>2, AppendProperties
    <3>4. ASSUME NEW y \in Vars
          PROVE  Saved(out)[y] = IF y = out[Len(eval.out) + 1].name THEN out[Len(eval.out) + 1].list
                                 ELSE Saved(eval.out)[y]
      BY <1>5, <3>2, <3>3, SavedAppend, Zenon
    <3> QED BY <2>1, <2>2, <3>3, <3>4
  <2>3. CASE ~Binds(e.stmts[n])
    BY <1>0, <2>1, <2>3
  <2> QED BY <2>2, <2>3
<1>9. \A y \in Kept' : y \in Vars /\ (y = x \/ y \in Kept)
  <2> SUFFICES ASSUME NEW y \in Kept', y # x PROVE y \in Kept
    BY DEF Kept
  <2>1. y \in Vars /\ eval.local[y] # None /\ (Reads(eval', y) \/ Saved(eval.out)[y] = eval.local[y])
    BY <1>7, <1>8 DEF Kept
  <2>2. ASSUME Reads(eval', y) PROVE Reads(eval, y)
    <3>1. PICK i \in (n + 1)..Len(e.stmts) : e.stmts[i][3] = y
      BY <1>4, <2>2 DEF Reads
    <3>2. i \in n..Len(e.stmts)
      BY <1>2
    <3> QED BY <3>1, <3>2 DEF Reads
  <2> QED BY <2>1, <2>2 DEF Kept
<1> HIDE DEF e, n, op
<1>10. \A y \in Kept' : heap'[eval'.local[y]].bit = eval'.means[y]
  <2> SUFFICES ASSUME NEW y \in Kept' PROVE heap'[eval'.local[y]].bit = eval'.means[y]
    OBVIOUS
  <2>1. CASE y = x
    BY <1>0, <1>4, <1>7, <2>1
  <2>2. CASE y # x
    <3>1. y \in Vars /\ y \in Kept /\ heap[eval.local[y]].bit = eval.means[y]
      BY <1>1, <1>9, <2>2 DEF ValuesInv
    <3>2. h[eval.local[y]].bit = heap[eval.local[y]].bit
      BY <1>0, <2>2, <3>1
    <3>3. eval'.local[y] = eval.local[y] /\ eval'.means[y] = eval.means[y]
      BY <1>7, <2>2, <3>1
    <3> QED BY <1>4, <3>1, <3>2, <3>3
  <2> QED BY <2>1, <2>2
<1>11. \A y, w \in Kept' : y # w /\ eval'.local[y] = eval'.local[w] => heap'[eval'.local[y]].shared
  <2> SUFFICES ASSUME NEW y \in Kept', NEW w \in Kept', y # w, eval'.local[y] = eval'.local[w]
               PROVE  heap'[eval'.local[y]].shared
    OBVIOUS
  <2>1. CASE y = x
    <3>1. w \in Kept /\ w # x /\ eval.local[w] = a
      BY <1>7, <1>9, <2>1
    <3> QED BY <1>0, <1>4, <1>7, <2>1, <3>1
  <2>2. CASE w = x
    <3>1. y \in Kept /\ y # x /\ eval.local[y] = a
      BY <1>7, <1>9, <2>2
    <3> QED BY <1>0, <1>4, <1>7, <2>2, <3>1
  <2>3. CASE y # x /\ w # x
    <3>1. /\ y \in Kept /\ w \in Kept /\ eval.local[y] = eval.local[w]
          /\ eval'.local[y] = eval.local[y]
      BY <1>7, <1>9, <2>3
    <3>2. heap[eval.local[y]].shared
      BY <1>1, <3>1 DEF ValuesInv
    <3> QED BY <1>0, <1>4, <2>3, <3>1, <3>2
  <2> QED BY <2>1, <2>2, <2>3
<1>12. \A w \in KeptShared' : \/ w \in KeptShared /\ w # e.stmts[n][2]
                              \/ e.stmts[n][1] = "copy" /\ w \in {e.stmts[n][2], e.stmts[n][3]}
  <2> SUFFICES ASSUME NEW w \in KeptShared'
               PROVE  \/ w \in KeptShared /\ w # e.stmts[n][2]
                      \/ e.stmts[n][1] = "copy" /\ w \in {e.stmts[n][2], e.stmts[n][3]}
    OBVIOUS
  <2>1. w \in Kept' /\ heap'[eval'.local[w]].shared
    BY DEF KeptShared
  <2>2. CASE w = x
    BY <1>0, <1>1, <1>4, <1>7, <2>1, <2>2 DEF e, n
  <2>3. CASE w # x
    <3>1. w \in Kept /\ h[eval.local[w]].shared
      BY <1>4, <1>7, <1>9, <2>1, <2>3
    <3>2. heap[eval.local[w]].shared \/ (op = "copy" /\ w = z)
      BY <1>0, <2>3, <3>1
    <3> QED BY <1>1, <2>3, <3>1, <3>2 DEF KeptShared, e, n
  <2> QED BY <2>2, <2>3
<1>13. \A w \in Unsaved' : \/ w \in Unsaved /\ (Binds(e.stmts[n]) => w # e.stmts[n][2])
                           \/ BoundLater(e, n, w)
  <2> SUFFICES ASSUME NEW w \in Unsaved'
               PROVE  \/ w \in Unsaved /\ (Binds(e.stmts[n]) => w # e.stmts[n][2])
                      \/ BoundLater(e, n, w)
    OBVIOUS
  <2>1. w \in Vars /\ Saved(eval.out)'[w] # eval'.local[w]
    BY DEF Unsaved
  <2>2. CASE w = x
    BY <1>0, <1>7, <1>8, <2>1, <2>2 DEF Unsaved, e, n
  <2>3. CASE w # x
    BY <1>7, <1>8, <2>1, <2>3 DEF Unsaved, e, n
  <2> QED BY <2>2, <2>3
<1>14. RestSafe(eval'.entry, eval'.next, KeptShared', Unsaved')
  <2>1. RestSafe(e, n, KeptShared, Unsaved)
    BY <1>1 DEF ValuesInv, e, n
  <2>2. RestSafe(e, n + 1, KeptShared', Unsaved')
    BY <1>1, <1>12, <1>13, <2>1, RestStep
  <2> QED BY <1>4, <2>2
<1>15. VariablesPersist'
  BY <1>6 DEF VariablesPersist, At
<1> QED BY <1>6, <1>10, <1>11, <1>14, <1>15 DEF ValuesInv

(* let x = [..]: nothing kept is at the new address. *)
LEMMA NewValues ==
  ASSUME TypeInv, ValuesInv, NewStmt PROVE ValuesInv'
<1> DEFINE s == eval.entry.stmts[eval.next]
           a == Fresh(heap)
           cell == [bit |-> 0, shared |-> FALSE]
           h == With(heap, a, cell)
<1>1. /\ Running("new") /\ s[2] \in Vars /\ a \in Addr /\ a \notin DOMAIN heap /\ cell \in Cell
      /\ Step(s[2], a, h, 0, Append(eval.out, [name |-> s[2], list |-> a]), a)
  BY NewIs
<1>2. At({"running"}) /\ s[3] \in Vars /\ Binds(s) /\ eval.next \in 1..Len(eval.entry.stmts)
  BY <1>1, RunningIs DEF Binds
<1>3. h[a] = cell /\ \A b \in DOMAIN heap : b # a => h[b] = heap[b]
  BY <1>1, WithIs DEF TypeInv
<1>4. cell.bit = 0 /\ ~cell.shared
  OBVIOUS
<1> HIDE DEF a, cell, h, s
<1>5. \A y \in Kept : eval.local[y] # a /\ h[eval.local[y]] = heap[eval.local[y]]
  BY <1>1, <1>2, <1>3, KeptAllocated
<1>6. KeepsOthers(s[2], s[3], a, h, 0, Append(eval.out, [name |-> s[2], list |-> a]))
  BY <1>2, <1>3, <1>4, <1>5 DEF KeepsOthers, s
<1> QED BY <1>1, <1>2, <1>6, StepValues DEF s

(* { x = [..] }: x is bound again later, so its slot does not matter. *)
LEMMA BlockValues ==
  ASSUME TypeInv, ValuesInv, BlockStmt PROVE ValuesInv'
<1> DEFINE s == eval.entry.stmts[eval.next]
           a == Fresh(heap)
           cell == [bit |-> 0, shared |-> FALSE]
           h == With(heap, a, cell)
<1>1. /\ Running("block") /\ s[2] \in Vars /\ a \in Addr /\ a \notin DOMAIN heap /\ cell \in Cell
      /\ Step(s[2], a, h, 0, eval.out, None)
  BY BlockIs
<1>2. /\ At({"running"}) /\ s[1] = "block" /\ s[3] \in Vars /\ ~Binds(s)
      /\ eval.next \in 1..Len(eval.entry.stmts)
  <2>1. Running("block")
    BY <1>1
  <2>2. At({"running"}) /\ s[1] = "block" /\ eval.next \in 1..Len(eval.entry.stmts)
    BY <2>1, RunningIs
  <2>3. s[3] \in Vars
    BY <2>1, RunningVars
  <2> QED BY <2>2, <2>3 DEF Binds
<1>3. h[a] = cell /\ \A b \in DOMAIN heap : b # a => h[b] = heap[b]
  BY <1>1, WithIs DEF TypeInv
<1>4. cell.bit = 0 /\ ~cell.shared
  OBVIOUS
<1>5. BoundLater(eval.entry, eval.next, s[2])
  <2>1. eval.next \in eval.next..Len(eval.entry.stmts)
    BY <1>2
  <2> QED BY <1>2, <2>1 DEF ValuesInv, RestSafe
<1> HIDE DEF a, cell, h, s
<1>6. \A y \in Kept : eval.local[y] # a /\ h[eval.local[y]] = heap[eval.local[y]]
  BY <1>1, <1>2, <1>3, KeptAllocated
<1>7. KeepsOthers(s[2], s[3], a, h, 0, eval.out)
  BY <1>2, <1>3, <1>4, <1>5, <1>6 DEF KeepsOthers, s
<1> QED BY <1>1, <1>2, <1>7, StepValues DEF s

(* let x = y: every other variable with the list of y had it marked. *)
LEMMA CopyValues ==
  ASSUME TypeInv, ValuesInv, CopyStmt PROVE ValuesInv'
<1> DEFINE s == eval.entry.stmts[eval.next]
           a == eval.local[s[3]]
           h == CopyMarks(heap, a)
           bit == eval.means[s[3]]
<1>1. /\ Running("copy") /\ s[2] \in Vars /\ s[3] \in Vars /\ a \in Addr /\ a \in DOMAIN heap
      /\ bit \in {0, 1}
      /\ Step(s[2], a, h, bit, Append(eval.out, [name |-> s[2], list |-> a]), a)
      /\ h[a].shared /\ \A b \in DOMAIN heap : h[b].bit = heap[b].bit /\ (heap[b].shared => h[b].shared)
  BY CopyIs
<1>2. At({"running"}) /\ Binds(s) /\ s[1] = "copy" /\ eval.next \in 1..Len(eval.entry.stmts)
  BY <1>1, RunningIs DEF Binds
<1>3. s[3] \in Kept /\ heap[a].bit = bit
  BY <1>1, <1>2, ReadIsKept DEF ValuesInv
<1> HIDE DEF s
<1>4. \A b \in DOMAIN heap : b # a => h[b] = heap[b]
  BY DEF TypeInv, TypeOK, CopyMarks
<1>5. \A y \in Kept : y # s[3] /\ eval.local[y] = a => heap[a].shared
  BY <1>2, <1>3 DEF ValuesInv
<1> HIDE DEF h, bit
<1>6. ASSUME NEW y \in Kept
      PROVE  /\ h[eval.local[y]].bit = heap[eval.local[y]].bit
             /\ heap[eval.local[y]].shared => h[eval.local[y]].shared
             /\ h[eval.local[y]].shared => heap[eval.local[y]].shared \/ y = s[3]
  <2>1. eval.local[y] \in DOMAIN heap
    BY <1>2, KeptAllocated
  <2> QED BY <1>1, <1>4, <1>5, <2>1
<1> HIDE DEF a
<1>7. h[a].bit = bit
  BY <1>1, <1>3
<1>8. KeepsOthers(s[2], s[3], a, h, bit, Append(eval.out, [name |-> s[2], list |-> a]))
  BY <1>1, <1>2, <1>6, <1>7 DEF KeepsOthers, s
<1> QED BY <1>1, <1>2, <1>8, StepValues DEF s

(* push(x, ..): unmarked, no other kept variable has the list; marked, x   *)
(* is bound again.                                                         *)
LEMMA WriteValues ==
  ASSUME TypeInv, ValuesInv, WriteStmt PROVE ValuesInv'
<1> DEFINE s == eval.entry.stmts[eval.next]
           x == s[2]
           a == eval.local[x]
           at == IF heap[a].shared THEN Fresh(heap) ELSE a
           cell == [bit |-> 1 - heap[a].bit, shared |-> FALSE]
           h == With(heap, at, cell)
           bit == 1 - eval.means[x]
<1>1. /\ Running("write") /\ x \in Vars /\ at \in Addr /\ cell \in Cell /\ bit \in {0, 1}
      /\ a \in DOMAIN heap
      /\ heap[a].shared => at \notin DOMAIN heap
      /\ ~heap[a].shared => at = a
      /\ Step(x, at, h, bit, eval.out, None)
  BY WriteIs
<1>2. /\ At({"running"}) /\ s[1] = "write" /\ s[3] \in Vars /\ s[3] = x /\ ~Binds(s)
      /\ eval.next \in 1..Len(eval.entry.stmts)
  <2>1. Running("write")
    BY <1>1
  <2>2. "write" # "copy" /\ "write" \notin {"new", "copy"}
    OBVIOUS
  <2> HIDE DEF at, cell, h, bit
  <2> QED BY <2>1, <2>2, RunningIs DEF Binds
<1>3. h[at] = cell /\ \A b \in DOMAIN heap : b # at => h[b] = heap[b]
  <2> HIDE DEF at, cell
  <2> QED BY <1>1, WithIs DEF TypeInv
<1>4. x \in Kept
  <2>1. s[3] \in Kept
    BY <1>1, ReadIsKept
  <2> QED BY <1>2, <2>1
<1>5. cell.bit = bit /\ ~cell.shared
  <2>1. heap[a].bit = eval.means[x]
    BY <1>2, <1>4 DEF ValuesInv
  <2> QED BY <2>1
<1>6. \A y \in Kept : y # x /\ eval.local[y] = a => heap[a].shared
  BY <1>2, <1>4 DEF ValuesInv
<1> HIDE DEF s, x, cell, bit, h
<1>7. heap[a].shared => BoundLater(eval.entry, eval.next, x)
  <2> SUFFICES ASSUME heap[a].shared PROVE BoundLater(eval.entry, eval.next, x)
    OBVIOUS
  <2>1. x \in KeptShared
    BY <1>4 DEF KeptShared
  <2>2. SharedFrom(eval.entry, eval.next, KeptShared, eval.next, x)
    <3>1. /\ eval.next - 1 \in (eval.next - 1)..(eval.next - 1)
          /\ \A k \in (eval.next - 1 + 1)..(eval.next - 1) : FALSE
      BY <1>2
    <3> QED BY <2>1, <3>1 DEF SharedFrom
  <2>3. eval.next \in eval.next..Len(eval.entry.stmts)
    BY <1>2
  <2> QED BY <1>2, <2>2, <2>3 DEF ValuesInv, RestSafe, s, x
<1>8. ASSUME NEW y \in Kept, y # x
      PROVE  eval.local[y] # at /\ h[eval.local[y]] = heap[eval.local[y]]
  <2>1. eval.local[y] \in DOMAIN heap
    BY <1>2, KeptAllocated
  <2>2. eval.local[y] # at
    BY <1>1, <1>6, <1>8, <2>1
  <2> QED BY <1>3, <2>1, <2>2
<1>9. at = a \/ BoundLater(eval.entry, eval.next, x)
  BY <1>1, <1>7
<1> HIDE DEF at
<1>10. KeepsOthers(s[2], s[3], at, h, bit, eval.out)
  BY <1>2, <1>3, <1>5, <1>8, <1>9 DEF KeepsOthers, s, x, a
<1> QED BY <1>1, <1>2, <1>10, StepValues DEF s, x

(* Collect: what is kept survives. *)
LEMMA CollectValues ==
  ASSUME TypeInv, ValuesInv, Collect PROVE ValuesInv'
<1>1. /\ At({"running"}) /\ At({"running"})' /\ UNCHANGED <<env, eval>>
      /\ DOMAIN heap' = DOMAIN heap \cap (roots \cup InUse(eval))
      /\ \A a \in DOMAIN heap' : heap'[a] = heap[a]
  BY CollectType
<1>2. Kept' = Kept /\ Unsaved' = Unsaved
  BY <1>1 DEF Kept, Unsaved, Saved
<1>3. \A x \in Kept : heap'[eval.local[x]] = heap[eval.local[x]]
  BY <1>1, KeptAllocated
<1>4. KeptShared' = KeptShared
  BY <1>1, <1>2, <1>3 DEF KeptShared
<1>5. VariablesPersist' /\ ~At({"checked", "compiling"})'
  BY <1>1 DEF VariablesPersist, At
<1>6. RestSafe(eval'.entry, eval'.next, KeptShared', Unsaved')
  BY <1>1, <1>2, <1>4 DEF ValuesInv
<1>7. /\ \A x \in Kept' : heap'[eval'.local[x]].bit = eval'.means[x]
      /\ \A x, y \in Kept' : x # y /\ eval'.local[x] = eval'.local[y] => heap'[eval'.local[x]].shared
  BY <1>1, <1>2, <1>3 DEF ValuesInv
<1> QED BY <1>1, <1>5, <1>6, <1>7 DEF ValuesInv

(* Finish: nothing is left to be saved, so what is saved is what is held. *)
LEMMA FinishValues ==
  ASSUME TypeInv, ValuesInv, Finish PROVE ValuesInv'
<1>1. /\ At({"running"}) /\ At({"done"})' /\ ~At({"running"})' /\ ~Building'
      /\ eval.next = Len(eval.entry.stmts) + 1
      /\ env' = Saved(eval.out) /\ env' \in Envs /\ EnvAddrs(env') \subseteq DOMAIN heap'
      /\ \A a \in DOMAIN heap' : a \in DOMAIN heap /\ heap'[a] = heap[a]
      /\ eval'.means = eval.means
  BY FinishType
<1>2. eval.entry \in Entries
  BY <1>1, EvalForms DEF TypeInv, At
<1>3. Len(eval.entry.stmts) \in Nat /\ DOMAIN eval.entry.stmts = 1..Len(eval.entry.stmts)
  BY <1>2, EntryFields
<1>4. \A x : ~BoundLater(eval.entry, eval.next - 1, x)
  <2>1. \A j \in DOMAIN eval.entry.stmts : ~(j > eval.next - 1)
    BY <1>1, <1>3
  <2> QED BY <2>1 DEF BoundLater
<1>5. \A x \in Vars : env'[x] = eval.local[x]
  BY <1>1, <1>4 DEF ValuesInv, RestSafe, Unsaved
<1>6. \A x \in Bound(env') : /\ x \in Vars /\ x \in Kept /\ env'[x] = eval.local[x]
                             /\ heap'[env'[x]] = heap[eval.local[x]]
  <2> SUFFICES ASSUME NEW x \in Bound(env')
               PROVE  /\ x \in Vars /\ x \in Kept /\ env'[x] = eval.local[x]
                      /\ heap'[env'[x]] = heap[eval.local[x]]
    OBVIOUS
  <2>1. x \in Vars /\ env'[x] # None /\ env'[x] = eval.local[x]
    BY <1>5 DEF Bound
  <2>2. env'[x] \in DOMAIN heap'
    BY <1>1, <2>1 DEF EnvAddrs
  <2> QED BY <1>1, <2>1, <2>2 DEF Kept
<1>7. \A x, y \in Bound(env') : x # y /\ env'[x] = env'[y] => heap'[env'[x]].shared
  BY <1>1, <1>6 DEF ValuesInv
<1>8. \A x \in Vars : env'[x] # None => heap'[env'[x]].bit = eval'.means[x]
  BY <1>1, <1>6 DEF ValuesInv, Bound
<1>9. ~At({"checked", "compiling"})'
  BY <1>1 DEF At
<1> QED BY <1>1, <1>7, <1>8, <1>9 DEF ValuesInv, VariablesPersist

(* No variable is bound at first. *)
LEMMA ValuesInit == Init => ValuesInv
BY DEF Init, ValuesInv, VariablesPersist, At, Bound

(* Every step of the session. *)
LEMMA ValuesStep ==
  ASSUME ~UnsavedWrites, CodeInv, ValuesInv, [Next]_vars PROVE ValuesInv'
<1>1. TypeInv
  BY DEF CodeInv
<1>2. ASSUME NEW e \in Entries, Submit(e) PROVE ValuesInv'
  BY <1>1, <1>2, SubmitValues
<1>3. CASE Reject
  <2>1. UNCHANGED <<env, heap>> /\ eval' = None /\ ~At({"running"})
    BY <1>3 DEF Reject, RejectTo, session, At
  <2> QED BY <2>1, QuietValues DEF At
<1>4. CASE Pass1
  <2>1. /\ UNCHANGED <<env, heap>> /\ At({"checked"}) /\ eval.step = "checked"
        /\ eval' = [eval EXCEPT !.step = "compiling"]
    BY <1>4 DEF Pass1, session, At
  <2>2. eval'.step = "compiling" /\ eval'.entry = eval.entry
    BY <1>1, <2>1, EvalForms DEF TypeInv, At
  <2> QED BY <2>1, <2>2, QuietValues DEF At
<1>5. ASSUME NEW s, NEW m, NEW type, NEW calls, At({"compiling"}), Built(s, m, type, calls)
      PROVE  ValuesInv'
  <2>1. /\ UNCHANGED <<env, heap>> /\ eval'.entry = eval.entry
        /\ At({"compiling"})' \/ At({"panicked"})'
    BY <1>5 DEF Built
  <2> QED BY <1>5, <2>1, QuietValues DEF At
<1>6. CASE Pass2
  BY <1>5, <1>6, Pass2Type
<1>7. CASE Pass3
  BY <1>1, <1>5, <1>7, Pass3Type
<1>8. CASE Recover
  <2>1. UNCHANGED <<env, heap>> /\ eval' = None /\ ~At({"running"})
    BY <1>8 DEF Recover, RecoverTo, session, At
  <2> QED BY <2>1, QuietValues DEF At
<1>9. CASE Answer
  <2>1. UNCHANGED <<env, heap>> /\ eval' = None /\ ~At({"running"})
    BY <1>9 DEF Answer, session, At
  <2> QED BY <2>1, QuietValues DEF At
<1>10. CASE UNCHANGED vars
  <2>1. UNCHANGED <<env, heap, eval>>
    BY <1>10 DEF vars, session
  <2>2. /\ Kept' = Kept /\ Unsaved' = Unsaved /\ EnvShared' = EnvShared /\ Bound(env)' = Bound(env)
        /\ KeptShared' = KeptShared
    BY <2>1 DEF Kept, Unsaved, Saved, EnvShared, Bound, KeptShared
  <2>3. VariablesPersist' = VariablesPersist /\ \A steps : At(steps)' = At(steps)
    BY <2>1 DEF VariablesPersist, At
  <2> QED BY <2>1, <2>2, <2>3 DEF ValuesInv
<1> QED BY <1>1, <1>2, <1>3, <1>4, <1>6, <1>7, <1>8, <1>9, <1>10, FinalizeValues,
           NewValues, CopyValues, WriteValues, BlockValues, CollectValues, FinishValues DEF Next

(* The session keeps its state across entries: if an entry saves every value *)
(* a block or a write to a shared list leaves in a variable, each variable *)
(* has after it the value the program last gave it.                        *)
THEOREM VariablesPersistAcrossEvals ==
  ~UnsavedWrites => (Spec => []VariablesPersist)
<1> SUFFICES ASSUME ~UnsavedWrites PROVE Spec => []VariablesPersist
  OBVIOUS
<1> DEFINE Inv == CodeInv /\ ValuesInv
<1>1. Init => Inv
  BY CodeInit, ValuesInit
<1>2. Inv /\ [Next]_vars => Inv'
  BY CodeStep, ValuesStep
<1>3. Inv => VariablesPersist
  BY DEF ValuesInv
<1> QED BY <1>1, <1>2, <1>3, PTL DEF Spec
=============================================================================
