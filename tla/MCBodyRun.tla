----------------------------- MODULE MCBodyRun -----------------------------
(* Every body of one statement that may hold a branch or a loop, between two *)
(* simple ones, over two names and a loop variable.                         *)
EXTENDS BodyRun, SequencesExt, TLC

INSTANCE LinearUse

CONSTANTS x, y, v

Lit == Node("lit", None, <<>>)
Var(n) == Node("var", n, <<>>)
Place(n, es) == Node("place", n, es)
Call(args) == Node("call", None, args)
Use1(n) == Node("call", None, <<Var(n)>>)
XY == {x, y}

Simple ==
  {Use1(n) : n \in XY}
  \cup {Node("let", n, <<Lit>>) : n \in XY}
  \cup {Node("let", x, <<Node("op", None, <<Var(x), Var(y)>>)>>), Node("let", x, <<Var(y)>>)}
  \cup {Node("put", x, <<Lit, Var(n)>>) : n \in XY}
  \cup {Call(<<Place(x, <<>>), Var(y)>>), Call(<<Var(x), Place(y, <<Var(x)>>)>>),
         Call(<<Place(x, <<Var(y)>>), Place(y, <<Lit, Use1(x)>>)>>), Node("and", None, <<Var(y), Use1(x)>>)}
Leaving == {Node("ret", None, <<>>), Node("ret", None, <<Var(x)>>)}

Block(es) == Node("block", None, es)
Some == {Use1(x), Use1(y), Node("let", x, <<Lit>>), Node("put", x, <<Lit, Var(x)>>)}
Ends == {Use1(x), Use1(y), Node("let", x, <<Var(y)>>), Node("ret", None, <<Var(x)>>)}
Ifs(S, T) ==
  {Node("if", None, <<Var(x), Block(<<a>>)>>) : a \in S}
  \cup {Node("if", None, <<Lit, Block(<<a>>), Block(<<b>>)>>) : a \in S, b \in T}
Fors(S, T) ==
  {Node("for", n, <<it, Block(<<a, b>>)>>) : n \in {v, x}, it \in {Lit, Var(x)}, a \in S, b \in T}
  \cup {Node("for", v, <<Lit, Var(y), Block(<<a>>)>>) : a \in S}

Nested == Ifs(Simple \cup Leaving, Some \cup Leaving)
          \cup Fors(Simple \cup Ifs({Use1(y), Node("let", x, <<Lit>>)} \cup Leaving, {Use1(x)}), {Use1(x), Use1(y)})
          \cup Fors(Fors(Some, {Use1(y)}), {Use1(y)})
MCBodies == {Block(<<a, b>>) : a \in Nested, b \in Ends}
            \cup {Block(<<a, b, c>>) : a \in Some, b \in Ifs(Some, Some), c \in Some}
MCEntries == {<<a, b>> : a \in Simple \cup Ifs(Some, Some), b \in Simple}

MCStarts ==
  {FunctionStart(b, params) : b \in MCBodies, params \in {{}, {x}, {y}}}
  \cup {EntryStart(s, XY) : s \in MCEntries}

(* Bodies the analysis is wrong about, which MCStarts leaves out: the right  *)
(* side of `and` gives x a new value or leaves; what follows the place in an *)
(* assignment or a call gives its root a new value; the place of a call has  *)
(* two steps that read x, which is not read again.                         *)
Rebind == Block(<<Node("let", x, <<Lit>>), Lit>>)
After1(s) == Block(<<Node("let", y, <<Var(x)>>), s, Use1(x)>>)
MCMisjudged ==
  {FunctionStart(After1(s), {}) : s \in {Node("and", None, <<Lit, Rebind>>),
                                         Node("and", None, <<Lit, Node("ret", None, <<>>)>>),
                                         Node("put", x, <<Lit, Rebind>>),
                                         Call(<<Place(x, <<>>), Rebind>>)}}
  \cup {FunctionStart(Block(<<Call(<<Place(y, <<Use1(x), Use1(x)>>)>>), Use1(y)>>), {})}
=============================================================================
