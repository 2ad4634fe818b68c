------------------------------- MODULE Parser -------------------------------
(* Parser of parser.rs, running the steps of module Grammar.                 *)
(*                                                                           *)
(* The parser holds one token, cur, and a lexer; reading a token may fail,   *)
(* and then the lexer has moved past the bad token while cur is still the    *)
(* one before it.  The Rust call stack is todo, the steps still to be run,   *)
(* and nodes, the expressions being built.  An error unwinds todo to the     *)
(* list or the statement that goes on after it.                              *)
EXTENDS Grammar, SequencesExt

CONSTANT Sources       \* the token sequences that are parsed

VARIABLES source,      \* the tokens of the program
          pos,         \* how many the lexer has handed out
          cur,         \* Parser.current_token
          errors,      \* Parser.errors is not empty
          colon,       \* Parser.colon_suppressed
          todo, nodes,
          panicked     \* an unwrap met an error
vars == <<source, pos, cur, errors, colon, todo, nodes, panicked>>

EndOfInput == [is |-> "eof"]
NextToken == IF pos < Len(source) THEN source[pos + 1] ELSE EndOfInput
Bad(t) == t.is = "bad"
At(ts) == cur.is \in ts
Leaf == <<"leaf", cur.as, cur.is>>

Top == Last(nodes)
Below == Front(nodes)
WithTop(node) == Append(Below, node)

(* What a demand asks of the value just parsed, or of the node so far.       *)
RECURSIVE IsPlace(_)
IsName(v) == v[1] = "leaf" /\ v[3] = "name"
IsPlace(v) == IF v[1] \in {".", "index"} THEN IsPlace(v[2]) ELSE v[1] = "leaf" /\ v[3] = "name"
Holds(tag) == \E i \in 2..Len(Top) : Top[i][1] = tag
Named(field) == \E i \in 2..Len(field) : field[i][1] = "field name"
Met(what) ==
  CASE what = "no arrow" -> ~At({"->"})
    [] what = "arrow" -> At({"->"})
    [] what = "separator" -> At({"newline", ";"})
    [] what = "place" -> IsPlace(Last(Top))
    [] what = "parameters" ->
         LET left == Last(Top)
         IN IF left[1] = "list" THEN \A i \in 2..Len(left) : IsName(left[i]) ELSE IsName(left)
    [] what = "only one" -> Len(Top) = 2
    [] what \in {"a statement", "a name"} -> Len(Top) > (IF what = "a name" THEN 2 ELSE 1)
    [] what = "named" -> Named(Top)
    [] what = "all named or none" ->
         \A i, j \in 2..Len(Top) : Named(Top[i]) = Named(Top[j])
    [] what = "no binders" -> ~Holds("binders")
    [] what = "traits" -> Holds("traits")
    [] OTHER -> FALSE

-----------------------------------------------------------------------------
(* Reading, and giving up.  A run of newlines is one token; two of them in a *)
(* row stand for a line with nothing but blanks or a comment between.        *)
Step == todo[1]
Rest == Tail(todo)
Do(kind) == todo # <<>> /\ ~panicked /\ Step.do = kind
Then(steps) == todo' = steps \o Rest
Keep == UNCHANGED <<source, panicked>>
Still == UNCHANGED <<pos, cur>>

(* Drop todo to its first handler; the colon flags on the way are restored.  *)
Handlers == {i \in DOMAIN todo : todo[i].do = "recover"}
(* Mutant: the colon flags are left as they are.                             *)
RaiseEarly ==
  LET h == CHOOSE i \in Handlers : \A j \in Handlers : i <= j
  IN /\ errors' = TRUE
     /\ nodes' = SubSeq(nodes, 1, todo[h].depth)
     /\ todo' = todo[h].then \o SubSeq(todo, h + 1, Len(todo))
     /\ Keep /\ UNCHANGED colon
Raise ==
  LET h == CHOOSE i \in Handlers : \A j \in Handlers : i <= j
      passed == {i \in 1..(h - 1) : todo[i].do = "restore"}
  IN /\ errors' = TRUE
     /\ colon' = IF passed = {} THEN colon
                 ELSE todo[CHOOSE i \in passed : \A j \in passed : j <= i].to
     /\ nodes' = SubSeq(nodes, 1, todo[h].depth)
     /\ todo' = todo[h].then \o SubSeq(todo, h + 1, Len(todo))
     /\ Keep

(* Parser::advance: move to the next token, or fail where one is bad.        *)
Moved == pos' = IF pos < Len(source) THEN pos + 1 ELSE pos
Advance == Moved /\ cur' = IF Bad(NextToken) THEN cur ELSE NextToken
Fails == Bad(NextToken)
(* Advance, then go on with these steps and nodes; or raise.                 *)
AdvanceTo(steps, ns) ==
  /\ Advance
  /\ IF Fails THEN Raise
     ELSE Then(steps) /\ nodes' = ns /\ Keep /\ UNCHANGED <<errors, colon>>
AdvanceAndRaise == Advance /\ Raise
(* Go on without reading.                                                    *)
GoTo(steps, ns) == Then(steps) /\ nodes' = ns /\ Keep /\ Still /\ UNCHANGED <<errors, colon>>

-----------------------------------------------------------------------------
(* Parser::expression and continue_expression.                               *)
Expression ==
  /\ Do("expr")
  /\ IF ~At(Starts) THEN AdvanceAndRaise
     ELSE AdvanceTo(Prefix(cur.is) \o <<Infix(Step.at)>>,
                    IF At(Literals) THEN WithTop(Append(Top, Leaf)) ELSE nodes)
ContinueExpression ==
  /\ Do("infix")
  /\ IF (colon /\ At({":"})) \/ Rank[Step.at] > Rank[InfixOf(cur.is)] THEN GoTo(<<>>, nodes)
     ELSE AdvanceTo(InfixRule(cur.is) \o <<Step>>, nodes)

Consume ==
  /\ Do("take")
  /\ IF At({Step.is}) THEN AdvanceTo(<<>>, nodes) ELSE AdvanceAndRaise
Identifier ==
  /\ Do("name")
  /\ IF At({"name"}) THEN AdvanceTo(<<>>, WithTop(Append(Top, Leaf)))
     ELSE AdvanceAndRaise
Path ==
  /\ Do("path")
  /\ IF At({"string"}) THEN AdvanceTo(<<>>, WithTop(Append(Top, Leaf)))
     ELSE AdvanceAndRaise

(* skip_newlines, and the dropped advance of a list: a failed read is not    *)
(* reported.                                                                 *)
SkipNewlines ==
  /\ Do("skip")
  /\ IF At(Step.is) THEN Advance /\ UNCHANGED todo ELSE Still /\ Then(<<>>)
  /\ Keep /\ UNCHANGED <<errors, colon, nodes>>
DropToken == Do("drop") /\ Advance /\ Then(<<>>) /\ Keep /\ UNCHANGED <<errors, colon, nodes>>

Branch ==
  \/ /\ Do("if")
     /\ IF At({Step.is}) THEN AdvanceTo(Step.yes, nodes) ELSE GoTo(Step.no, nodes)
  \/ /\ Do("when")
     /\ GoTo(IF At(Step.is) THEN Step.yes ELSE Step.no, nodes)
Repeat ==
  \/ /\ Do("loop")
     /\ GoTo(IF At({Step.is, "eof"}) THEN <<>> ELSE Step.body \o <<Step>>, nodes)
  \/ /\ Do("while")
     /\ IF At({Step.is}) THEN AdvanceTo(Step.body \o <<Step>>, nodes) ELSE GoTo(<<>>, nodes)

(* peek_past_newlines_is: remember the place, skip, and go back unless the   *)
(* token is there.  The else of a conditional is taken with an unwrap.       *)
Peek ==
  /\ Do("past")
  /\ GoTo(<<[do |-> "skip", is |-> {"newline"}],
            [do |-> "settle", is |-> Step.is, yes |-> Step.yes, pos |-> pos, cur |-> cur]>>, nodes)
Settle ==
  /\ Do("settle")
  /\ UNCHANGED source
  /\ \/ /\ ~At({Step.is})
        /\ pos' = Step.pos /\ cur' = Step.cur
        /\ Then(<<>>) /\ UNCHANGED <<errors, colon, nodes, panicked>>
     \/ /\ At({Step.is}) /\ (Step.is = "else" => ~Fails)
        /\ AdvanceTo(Step.yes, nodes)
     \/ /\ At({Step.is}) /\ Step.is = "else" /\ Fails
        /\ panicked' = TRUE
        /\ UNCHANGED <<pos, cur, errors, colon, todo, nodes>>

(* Grammar::field_list: a name is a field's name when a colon follows it.    *)
(* Mutant: a name that is not a field's name is not given back.              *)
FieldNameTaken ==
  /\ Do("field name")
  /\ IF ~At({"name"}) THEN GoTo(<<>>, nodes)
     ELSE AdvanceTo(IF NextToken.is = ":" THEN <<Take(":")>> ELSE <<>>,
                    IF NextToken.is = ":" THEN WithTop(Append(Top, <<"field name", Leaf>>)) ELSE nodes)
FieldName ==
  /\ Do("field name")
  /\ IF ~At({"name"}) THEN GoTo(<<>>, nodes)
     ELSE IF Fails THEN AdvanceAndRaise
     ELSE IF NextToken.is = ":"
          THEN AdvanceTo(<<Take(":")>>, WithTop(Append(Top, <<"field name", Leaf>>)))
          ELSE GoTo(<<>>, nodes)
(* expect_close_angle splits >= into the bracket and an equals sign.         *)
CloseAngle ==
  /\ Do("close angle")
  /\ IF At({">="})
     THEN /\ cur' = [is |-> "="] /\ Then(<<>>)
          /\ Keep /\ UNCHANGED <<pos, errors, colon, nodes>>
     ELSE GoTo(<<Take(">")>>, nodes)

ColonSuppressed ==
  \/ /\ Do("colon")
     /\ colon' = Step.to
     /\ Then(Step.body \o <<[do |-> "restore", to |-> colon]>>)
     /\ Keep /\ Still /\ UNCHANGED <<errors, nodes>>
  \/ /\ Do("restore")
     /\ colon' = Step.to
     /\ Then(<<>>)
     /\ Keep /\ Still /\ UNCHANGED <<errors, nodes>>

(* Parser::expression_list, whose elements may fail one by one; More is also *)
(* continue_expression_list, which starts after the first element.           *)
More(t) == [do |-> "more", is |-> t]
ExpressionList ==
  \/ /\ Do("list")
     /\ GoTo(<<Skip, [do |-> "element", is |-> Step.is]>>, nodes)
  \/ /\ Do("element")
     /\ GoTo(IF At({Step.is, "eof"}) THEN <<>>
             ELSE <<Expr("Assign"), [do |-> "recover", depth |-> Len(nodes), then |-> <<>>],
                    More(Step.is)>>, nodes)
  \/ /\ Do("more")
     /\ GoTo(<<Skip, [do |-> "separator", is |-> Step.is]>>, nodes)
  \/ /\ Do("separator")
     /\ \/ At({Step.is}) /\ GoTo(<<>>, nodes)
        \/ At({","}) /\ GoTo(<<[do |-> "drop"], [do |-> "list", is |-> Step.is]>>, nodes)
        \/ /\ ~At({Step.is, ","})
           /\ errors' = TRUE /\ Then(<<>>) /\ Keep /\ Still /\ UNCHANGED <<colon, nodes>>

-----------------------------------------------------------------------------
(* Building the expressions.                                                 *)
Fold == Append(Front(Below), Append(Last(Below), Top))
Unwrapped == Append(Front(Below), Last(Below) \o Tail(Top))
Build ==
  \/ Do("open") /\ GoTo(<<>>, Append(nodes, <<Step.tag>>))
  \/ Do("adopt") /\ GoTo(<<>>, Append(WithTop(Front(Top)), <<Step.tag, Last(Top)>>))
  \/ Do("retag") /\ GoTo(<<>>, WithTop(<<Step.tag>> \o Tail(Top)))
  \/ Do("close") /\ GoTo(<<>>, Fold)
  \/ Do("spread") /\ GoTo(<<>>, Unwrapped)
  \/ Do("collapse") /\ GoTo(<<>>, IF Len(Top) = 2 /\ Top[2][1] # "decorated" THEN Unwrapped ELSE Fold)
(* A match keeps one default: a second one replaces the first.               *)
OneDefault ==
  /\ Do("drop default")
  /\ GoTo(<<>>, WithTop(<<Top[1]>> \o SelectSeq(Tail(Top), LAMBDA v : v[1] # "default")))
Check ==
  /\ Do("demand")
  /\ IF Met(Step.that) THEN GoTo(<<>>, nodes) ELSE Raise /\ Still
Descend == Do("use") /\ GoTo(Rule(Step.of), nodes)

-----------------------------------------------------------------------------
(* Parser::block: statements to the end of the input.  After an error the    *)
(* parser resumes behind the next newline or comma the lexer hands out.      *)
Resume == <<[do |-> "synchronize"], [do |-> "drop"], [do |-> "block"]>>
Block ==
  /\ Do("block")
  /\ GoTo(IF At({"eof"}) THEN <<>> ELSE <<SkipSeparators, [do |-> "statement"]>>, nodes)
StatementStep ==
  /\ Do("statement")
  /\ GoTo(IF At({"eof"}) THEN <<>>
          ELSE <<Use("statement"), [do |-> "terminator"],
                 [do |-> "recover", depth |-> 1, then |-> Resume], [do |-> "block"]>>, nodes)
Terminator ==
  /\ Do("terminator")
  /\ \/ At({"eof"}) /\ GoTo(<<>>, nodes)
     \/ At({";"}) /\ AdvanceTo(<<>>, nodes)
     \/ ~At({"eof", ";"}) /\ GoTo(<<Take("newline")>>, nodes)
Recovered == Do("recover") /\ GoTo(<<>>, nodes)
(* Mutant: the end of the input is skipped as well.                          *)
SynchronizeOn ==
  /\ Do("synchronize")
  /\ Moved
  /\ IF NextToken.is \in {"newline", ","} THEN cur' = NextToken /\ Then(<<>>)
     ELSE UNCHANGED <<cur, todo>>
  /\ errors' = (errors \/ Fails)
  /\ Keep /\ UNCHANGED <<colon, nodes>>
Synchronize ==
  /\ Do("synchronize")
  /\ Moved
  /\ IF NextToken.is \in {"eof", "newline", ","} THEN cur' = NextToken /\ Then(<<>>)
     ELSE UNCHANGED <<cur, todo>>
  /\ errors' = (errors \/ Fails)
  /\ Keep /\ UNCHANGED <<colon, nodes>>

-----------------------------------------------------------------------------
Init ==
  /\ source \in Sources
  /\ pos = IF source = <<>> THEN 0 ELSE 1
  /\ LET first == IF source = <<>> THEN EndOfInput ELSE source[1]
     IN /\ errors = Bad(first)
        /\ cur = IF Bad(first) THEN EndOfInput ELSE first
  /\ colon = FALSE
  /\ todo = <<[do |-> "block"]>>
  /\ nodes = <<<<"program">>>>
  /\ panicked = FALSE

Ended == todo = <<>> \/ panicked
Done == Ended /\ UNCHANGED vars
Parse ==
  \/ Expression \/ ContinueExpression \/ Consume \/ Identifier \/ Path
  \/ SkipNewlines \/ DropToken \/ Branch \/ Repeat \/ Peek \/ Settle
  \/ FieldName \/ CloseAngle \/ ColonSuppressed \/ ExpressionList
  \/ Build \/ OneDefault \/ Check \/ Descend
  \/ Block \/ StatementStep \/ Terminator \/ Recovered \/ Synchronize
Next == Parse \/ Done
Spec == Init /\ [][Next]_vars /\ WF_vars(Parse)
=============================================================================
