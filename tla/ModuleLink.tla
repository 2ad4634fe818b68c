----------------------------- MODULE ModuleLink -----------------------------
(***************************************************************************)
(* The loader with the rewriting of names: what the names of the flat       *)
(* program stand for, next to what they stood for in their files.          *)
(***************************************************************************)
EXTENDS ModuleNames

CONSTANTS Path, Entry, Disks
VARIABLES disk, stack, cache, order, counter, verdict, merged

INSTANCE ModuleLoader WITH
  DeclaredNames <- CollectTop, MisplacedImport <- Misplaced, RewriteStmts <- RewriteTop,
  Renamed <- LAMBDA p, n : Mangled(p, n[2])

ASSUME DisksAssumption == WellFormed

-----------------------------------------------------------------------------
Files == Append(order, Entry)

(* A file's statements at the places they have in the flat program. *)
Nothing == Node("op", None, <<>>)
Before(p) ==
  LET k == CHOOSE i \in DOMAIN Files : Files[i] = p
  IN FoldLeft(LAMBDA n, q : n + Len(disk[q].stmts), 0, SubSeq(Files, 1, k - 1))
Placed(p) == [i \in 1..Before(p) |-> Nothing] \o disk[p].stmts

(* The names a file's imports bring in, from the files resolved so far. *)
FieldOf(done, q, n) ==
  LET env == done[q].env IN IF n \in DOMAIN env THEN env[n].at ELSE None
FieldsOf(done, q) == [n \in CollectTop(disk[q].stmts) |-> FieldOf(done, q, n)]
Imported(done, p) ==
  LET step(env, i) ==
        IF i.alias = None
        THEN FoldLeft(LAMBDA v, n : Put(v, n, Declared(FieldOf(done, i.to, n))), env, i.names)
        ELSE Put(env, i.alias, Alias(FieldsOf(done, i.to)))
  IN FoldLeft(step, <<>>, disk[p].imports)

InFiles ==
  LET step(done, p) == Put(done, p, ResolveAll(Placed(p), Imported(done, p), <<>>))
      done == FoldLeft(step, <<>>, Files)
  IN UNION {done[p].uses : p \in DOMAIN done}

InProgram == ResolveAll(merged, <<>>, <<>>).uses

(* Every name in the flat program stands for what it stood for in its file. *)
LinkKeepsEveryMeaning == verdict = "ok" => InProgram = InFiles

-----------------------------------------------------------------------------
(* The local names the rewriting loses track of: those of a function that    *)
(* has a function inside, those of a `let` below the statements of a         *)
(* function, the bind of an `if .. is`, a `let` of the variable of a loop or *)
(* an arm around it.                                                       *)
RECURSIVE Lets(_), Binds(_), HasFunc(_), Lost(_)
Lets(e) == (IF e.k = "let" THEN {e.n} ELSE {}) \cup UNION {Lets(c) : c \in ToSet(e.es)}
Binds(e) ==
  (IF e.k \in {"let", "func", "for", "match", "ifis"} THEN {e.n} ELSE {})
  \cup UNION {Binds(c) : c \in ToSet(e.es)}
HasFunc(e) == e.k = "func" \/ \E c \in ToSet(e.es) : HasFunc(c)
LetsBelow(body) ==
  IF body.k # "block" THEN Lets(body)
  ELSE UNION {IF s.k = "let" THEN Lets(s.es[1]) ELSE Lets(s) : s \in ToSet(body.es)}
Lost(e) ==
  (CASE e.k = "func" -> LetsBelow(e.es[1]) \cup (IF HasFunc(e.es[1]) THEN Binds(e) ELSE {})
     [] e.k = "ifis" -> {e.n}
     [] e.k \in {"for", "match"} -> {e.n} \cap Lets(e.es[2])
     [] OTHER -> {})
  \cup UNION {Lost(c) : c \in ToSet(e.es)}

(* The names a file's rewriting replaces. *)
Replaced(p) ==
  UNION {Named(i) : i \in ToSet(disk[p].imports)}
  \cup (IF p = Entry THEN {} ELSE CollectTop(disk[p].stmts))

(* As long as no such local has the name of a declaration of its file or of  *)
(* an import, linking keeps what every name stands for: whatever a local     *)
(* hides elsewhere, in the file or in the files that import it.             *)
LinkKeepsMeaning ==
  (verdict = "ok"
     /\ \A p \in ToSet(Files) :
          \A s \in ToSet(disk[p].stmts) : Lost(s) \cap Replaced(p) = {})
  => InProgram = InFiles
=============================================================================
