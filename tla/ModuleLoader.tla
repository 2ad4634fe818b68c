--------------------------- MODULE ModuleLoader ---------------------------
(***************************************************************************)
(* The module resolver of frontend/modules.rs, as the recursion it is: a    *)
(* stack of the files being resolved, the entry at the bottom, a cache of   *)
(* the files done, in the order they were done.                            *)
(***************************************************************************)
EXTENDS Naturals, Sequences, SequencesExt, FiniteSets

CONSTANTS
  Path, Entry, None,
  Disks,                \* the programs explored: a function from paths to files
  DeclaredNames(_),       \* what statements declare
  MisplacedImport(_),     \* whether statements hold an import
  RewriteStmts(_, _, _),  \* statements under a substitution and aliases
  Renamed(_, _)           \* a prefix and a name

(* A file is [imports, stmts, bad]: its imports in order, its other          *)
(* statements, whether it does not parse.  An import is [to, names, alias]:  *)
(* names for `{ a, b }`, or an alias (and None where there is none).        *)

VARIABLES
  disk,
  stack,     \* frames [path, left, named, qual], the innermost last
  cache,     \* path -> [stmts, exports]
  order,
  counter,
  verdict,   \* "open", "ok" or the error
  merged     \* the flat program, once there is one

vars == <<disk, stack, cache, order, counter, verdict, merged>>

Frame(p) == [path |-> p, left |-> disk[p].imports, named |-> <<>>, qual |-> <<>>]
top == Last(stack)
importing == Head(top.left)
inProgress == {stack[i].path : i \in 2..Len(stack)}

(* parse_block and check_no_nested_imports, for the file p. *)
FileError(p) ==
  IF disk[p].bad THEN "parse error"
  ELSE IF MisplacedImport(disk[p].stmts) THEN "misplaced import" ELSE "open"

Put(f, k, x) == [i \in DOMAIN f \cup {k} |-> IF i = k THEN x ELSE f[i]]
Fail(error) ==
  /\ verdict' = error
  /\ UNCHANGED <<disk, stack, cache, order, counter, merged>>

Init ==
  /\ disk \in Disks
  /\ stack = <<>>
  /\ verdict = "open"
  /\ cache = <<>> /\ order = <<>> /\ counter = 0 /\ merged = <<>>

(* resolve_source, up to the entry's imports. *)
Begin ==
  /\ verdict = "open" /\ stack = <<>>
  /\ IF FileError(Entry) # "open" THEN Fail(FileError(Entry))
     ELSE /\ stack' = <<Frame(Entry)>>
          /\ UNCHANGED <<disk, cache, order, counter, verdict, merged>>

Resolving == verdict = "open" /\ stack # <<>> /\ top.left # <<>> /\ importing.to \notin DOMAIN cache

(* resolve_module, from the top: in_progress, the file, parse, nested imports. *)
Enter ==
  /\ Resolving
  /\ LET p == importing.to
     IN IF p \in inProgress THEN Fail("cycle")
        ELSE IF p \notin DOMAIN disk THEN Fail("io")
        ELSE IF FileError(p) # "open" THEN Fail(FileError(p))
        ELSE /\ stack' = Append(stack, Frame(p))
             /\ UNCHANGED <<disk, cache, order, counter, verdict, merged>>

(* resolve_imports: the names of an import whose file is in the cache, one    *)
(* after the other; the first that is not exported or already bound is an    *)
(* error.                                                                  *)
Taken(n) == n \in DOMAIN top.named \cup DOMAIN top.qual
Wrong(names, exports) ==
  {k \in DOMAIN names : \/ names[k] \notin DOMAIN exports \/ Taken(names[k])
                        \/ \E j \in 1..(k - 1) : names[j] = names[k]}
NameError(names, exports) ==
  IF names[Min(Wrong(names, exports))] \notin DOMAIN exports
    THEN "unknown export" ELSE "duplicate import"
BindNames(names, exports) ==
  [n \in DOMAIN top.named \cup ToSet(names) |->
     IF n \in ToSet(names) THEN exports[n] ELSE top.named[n]]

Advance(named, qual) ==
  /\ stack' = [stack EXCEPT ![Len(stack)] =
                 [path |-> top.path, left |-> Tail(top.left), named |-> named, qual |-> qual]]
  /\ UNCHANGED <<disk, cache, order, counter, verdict, merged>>

Bind ==
  /\ verdict = "open" /\ stack # <<>> /\ top.left # <<>>
  /\ importing.to \in DOMAIN cache
  /\ LET exports == cache[importing.to].exports
         names == importing.names
     IN IF importing.alias = None
        THEN IF Wrong(names, exports) # {} THEN Fail(NameError(names, exports))
             ELSE Advance(BindNames(names, exports), top.qual)
        ELSE IF Taken(importing.alias) THEN Fail("duplicate import")
             ELSE Advance(top.named, Put(top.qual, importing.alias, exports))

-----------------------------------------------------------------------------
declared == DeclaredNames(disk[top.path].stmts)
Conflict == \E n \in declared : Taken(n)

(* The substitution of a file: its own names with its prefix, its imports' *)
(* names as their files renamed them.                                      *)
Exports == [n \in declared |-> Renamed(counter + 1, n)]
Subst(own) == [n \in DOMAIN own \cup DOMAIN top.named |->
                 IF n \in DOMAIN top.named THEN top.named[n] ELSE own[n]]

(* Mutant: the dependencies of a module are put after it. *)
OrderFirst(p) == <<p>> \o order

Ordered(p) == Append(order, p)

(* resolve_module, to its end. *)
Finish ==
  /\ verdict = "open" /\ Len(stack) > 1 /\ top.left = <<>>
  /\ IF Conflict THEN Fail("name conflict")
     ELSE /\ cache' = Put(cache, top.path,
                          [stmts |-> RewriteStmts(disk[top.path].stmts, Subst(Exports), top.qual),
                           exports |-> Exports])
          /\ counter' = counter + 1
          /\ order' = Ordered(top.path)
          /\ stack' = Front(stack)
          /\ UNCHANGED <<disk, verdict, merged>>

(* process_entry: its own names stay as they are. *)
FinishEntry ==
  /\ verdict = "open" /\ Len(stack) = 1 /\ top.left = <<>>
  /\ IF Conflict THEN Fail("name conflict")
     ELSE /\ merged' = FlattenSeq([i \in DOMAIN order |-> cache[order[i]].stmts])
                         \o RewriteStmts(disk[Entry].stmts, top.named, top.qual)
          /\ verdict' = "ok"
          /\ UNCHANGED <<disk, stack, cache, order, counter>>

(* The answer is given. *)
Done == verdict # "open" /\ UNCHANGED vars

Next == Begin \/ Enter \/ Bind \/ Finish \/ FinishEntry \/ Done

(* The resolver is one call that runs to its end: WF_vars(Next), a step being *)
(* possible as long as the verdict is open.                                *)
Fairness == []<><<Next>>_vars \/ <>[](verdict # "open")

Spec == Init /\ [][Next]_vars /\ Fairness

-----------------------------------------------------------------------------
(* What a file asks of the others: the paths, and whether it and its imports *)
(* are in order.                                                           *)
ImportsOf(p) == disk[p].imports
Named(i) == IF i.alias = None THEN ToSet(i.names) ELSE {i.alias}
Good(p) ==
  /\ FileError(p) = "open"
  /\ \A k \in DOMAIN ImportsOf(p) :
       LET i == ImportsOf(p)[k]
       IN /\ i.to \in DOMAIN disk
          /\ i.alias = None => /\ \A n \in ToSet(i.names) : n \in DeclaredNames(disk[i.to].stmts)
                               /\ IsInjective(i.names)
          /\ Named(i) \cap DeclaredNames(disk[p].stmts) = {}
          /\ \A l \in DOMAIN ImportsOf(p) \ {k} : Named(i) \cap Named(ImportsOf(p)[l]) = {}

Needs == [p \in DOMAIN disk |-> {i.to : i \in ToSet(ImportsOf(p))}]
GoodFiles == {p \in DOMAIN disk : Good(p)}
Answer == IF verdict \in {"open", "ok"} THEN verdict ELSE "refused"

Abs == INSTANCE LinkOrder WITH
  needs <- Needs, good <- GoodFiles, linked <- order, verdict <- Answer

(* The programs explored have an entry, and imports of paths. *)
WellFormed ==
  \A d \in Disks :
    /\ Entry \in DOMAIN d /\ DOMAIN d \subseteq Path
    /\ \A p \in DOMAIN d :
         /\ d[p].imports \in Seq(ToSet(d[p].imports))
         /\ \A i \in ToSet(d[p].imports) : i.to \in Path /\ i.names \in Seq(ToSet(i.names))

(* The loader implements LinkOrder: every file is linked once and after what *)
(* it imports, however the imports branch and meet; a program is refused     *)
(* exactly when it has an import cycle, a file that is missing or does not   *)
(* parse, or an import that clashes or is not exported; and every program,   *)
(* cyclic ones too, is answered.                                           *)
Implements == Abs!Spec
=============================================================================
