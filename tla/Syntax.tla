------------------------------- MODULE Syntax -------------------------------
(* What the parser promises of a program it accepts.                         *)
EXTENDS Parser

Accepted == todo = <<>> /\ ~panicked /\ ~errors
Program == nodes[1]

RECURSIVE Words(_)
Words(v) == IF v[1] = "leaf" THEN <<v[2]>>
            ELSE FoldLeft(LAMBDA ws, w : ws \o Words(w), <<>>, Tail(v))
Written == LET words == SelectSeq(source, LAMBDA t : t.is \in Literals)
           IN [i \in DOMAIN words |-> words[i].as]

(* A program that is accepted is the one that was written: its names and     *)
(* literals are those of the source, in order, and no token of it was one    *)
(* the lexer refused (parser.rs advance, skip_newlines, expression_list;     *)
(* grammar.rs field_list's and peek_past_newlines_is's way back).            *)
NothingLost ==
  Accepted => Words(Program) = Written /\ \A i \in DOMAIN source : ~Bad(source[i])

(* The cases the parser does not see: a bad token it reaches while it skips  *)
(* separators, and the first of two defaults of a match.                     *)
Unseen == \/ \E i \in 2..Len(source) :
               Bad(source[i]) /\ source[i - 1].is \in {"newline", ";", "bad"}
          \/ Cardinality({i \in DOMAIN source : source[i].is = "else"}) > 1
NothingElseLost == ~Unseen => NothingLost

(* However a program goes wrong, the parser answers: an error value, never   *)
(* a panic (parser.rs from_lexer, advance; grammar.rs conditional).          *)
NeverPanics == ~panicked

-----------------------------------------------------------------------------
RECURSIVE Nodes(_)
Nodes(v) == IF v[1] = "leaf" THEN {v} ELSE UNION {Nodes(v[i]) : i \in 2..Len(v)} \cup {v}
Operators == {"or", "and", "==", "!=", "<", ">", "<=", ">=", "in", "not in", "..", "+", "-", "*", "/"}
RankOf(v) == IF v[1] \notin Operators THEN Rank["Primary"]
             ELSE IF Len(v) = 2 THEN Rank["Unary"]
             ELSE Rank[IF v[1] = "not in" THEN "Comparison" ELSE InfixOf(v[1])]

(* Without parentheses an operand binds tighter than its operator, or as     *)
(* tight when it stands on the left: every operator of tokens.rs groups as   *)
(* its precedence says, and equals group to the left (grammar.rs binary,     *)
(* unary, not_in; parser.rs continue_expression).                            *)
BindsByRank ==
  Accepted /\ (\A i \in DOMAIN source : source[i].is \notin {"(", "{"}) =>
    \A v \in UNION {Nodes(Program[i]) : i \in 2..Len(Program)} :
      v[1] \in Operators \cup {"not"} =>
        IF Len(v) = 2 THEN RankOf(v[2]) >= Rank["Unary"]
        ELSE RankOf(v[2]) >= RankOf(v) /\ RankOf(v[3]) > RankOf(v)

-----------------------------------------------------------------------------
(* The lines of a source: a separator outside brackets, with something       *)
(* complete before it and nothing after it that goes on.                     *)
Depth(i) == Cardinality({j \in 1..i : source[j].is \in {"(", "[", "{"}})
            - Cardinality({j \in 1..i : source[j].is \in {")", "]", "}"}})
Separators == {"newline", ";"}
Incomplete == {"=", ">=", "if", "then", "else", "->", "do", "in", "catch", "provides", "is", "|"}
GoesOn == {"then", "else", "do", "|"} \cup (IF \E i \in DOMAIN source : source[i].is = "match" THEN {"{"} ELSE {})
After(i) == SelectSeq(SubSeq(source, i + 1, Len(source)), LAMBDA t : t.is \notin Separators)
Ends(i) == /\ source[i].is \in Separators
           /\ i > 1 /\ source[i - 1].is \notin Separators \cup Incomplete
           /\ Depth(i) = 0
           /\ After(i) # <<>> /\ After(i)[1].is \notin GoesOn
Lines == IF Written = <<>> THEN 0 ELSE 1 + Cardinality({i \in DOMAIN source : Ends(i)})
Attached == \E i \in DOMAIN source : source[i].is \in {"#", "bad"}

(* A newline ends a statement unless something is left open before it or the *)
(* next line goes on with it: an accepted program has a statement for every  *)
(* such line (grammar.rs conditional, data_decl_body; parser.rs statement).  *)
StatementPerLine == Accepted /\ ~Attached => Len(Program) - 1 = Lines

(* A statement starts afresh, also after an error in the middle of a list or *)
(* a dict: no node is left half built and colons are ascriptions again       *)
(* (parser.rs with_colon_suppressed, synchronize).                           *)
StatementsStartAfresh == Do("block") => ~colon /\ Len(nodes) = 1

(* Every source, right or wrong, is parsed to its end: no list or block goes *)
(* round without moving on (parser.rs, all the loops).                       *)
AlwaysEnds == <>Ended
=============================================================================
