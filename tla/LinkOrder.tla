----------------------------- MODULE LinkOrder -----------------------------
(***************************************************************************)
(* What the module loader promises: every file the entry needs is linked    *)
(* once, after the files it imports; a program in which this cannot be done, *)
(* or in which a file or an import is wrong, is refused; one of the two     *)
(* happens.                                                                *)
(***************************************************************************)
EXTENDS Naturals, Sequences

CONSTANTS Path, Entry

VARIABLES
  needs,    \* the files each file imports, for the files that can be read
  good,     \* the files with nothing wrong in them or in their imports
  linked,
  verdict   \* "open", "ok", "refused"

vars == <<needs, good, linked, verdict>>

Deps(p) == IF p \in DOMAIN needs THEN needs[p] ELSE {}

(* What p imports, what that imports, and so on. *)
Closed(S) == \A q \in S : Deps(q) \subseteq S
Reach(p) == {q \in Path : \A S \in SUBSET Path : Deps(p) \subseteq S /\ Closed(S) => q \in S}

Needed == {Entry} \cup Reach(Entry)
Acyclic == \A p \in Needed : p \notin Reach(p)
Linkable == Acyclic /\ Needed \subseteq good

InSeq(s) == {s[i] : i \in DOMAIN s}

Init ==
  /\ \E readable \in SUBSET Path :
       Entry \in readable /\ needs \in [readable -> SUBSET Path]
  /\ good \in SUBSET DOMAIN needs
  /\ linked = <<>>
  /\ verdict = "open"

Link(p) ==
  /\ verdict = "open"
  /\ p \in Needed \ {Entry} /\ p \in good /\ p \notin Reach(p)
  /\ p \notin InSeq(linked) /\ Deps(p) \subseteq InSeq(linked)
  /\ linked' = Append(linked, p)
  /\ UNCHANGED <<needs, good, verdict>>

Accept ==
  /\ verdict = "open" /\ Linkable
  /\ InSeq(linked) = Needed \ {Entry}
  /\ verdict' = "ok"
  /\ UNCHANGED <<needs, good, linked>>

Refuse ==
  /\ verdict = "open" /\ ~Linkable
  /\ verdict' = "refused"
  /\ UNCHANGED <<needs, good, linked>>

Next == (\E p \in Path : Link(p)) \/ Accept \/ Refuse

Safety == Init /\ [][Next]_vars

(* Every program gets its answer. *)
Spec == Safety /\ <>(verdict # "open")
=============================================================================
