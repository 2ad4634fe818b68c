------------------------------ MODULE Grammar ------------------------------
(* The grammar of froglang as data.  Each function of grammar.rs is a        *)
(* sequence of steps: what it consumes, where it skips newlines, where it    *)
(* looks ahead and what it hands on, in the order the function does it.      *)
(* Module Parser runs them.  The nodes they build keep the names and their   *)
(* order; spans and messages are left out.                                   *)
EXTENDS Sequences, Integers

Precedence == <<"None", "Assign", "TypeAnnotation", "Catch", "Or", "And", "Equality",
                "Comparison", "Range", "Term", "Factor", "Unary", "Call", "Primary">>
Rank == [p \in {Precedence[i] : i \in DOMAIN Precedence} |->
           CHOOSE i \in DOMAIN Precedence : Precedence[i] = p]
Tighter(p) == Precedence[IF p = "Primary" THEN Rank[p] ELSE Rank[p] + 1]

Literals == {"name", "number", "string", "true", "none"}
(* The infix precedence of every token, "None" for those without a rule.     *)
InfixOf(is) ==
  CASE is \in {"=", "->", ":"} -> "Assign"
    [] is = "catch" -> "Catch"
    [] is = "or" -> "Or"
    [] is = "and" -> "And"
    [] is \in {"==", "!="} -> "Equality"
    [] is \in {"<", ">", "<=", ">=", "in", "not", "is"} -> "Comparison"
    [] is = ".." -> "Range"
    [] is \in {"+", "-"} -> "Term"
    [] is \in {"*", "/"} -> "Factor"
    [] is \in {"(", "[", ".", "?", "!"} -> "Call"
    [] is \in Literals -> "Unary"    \* no rule: a second operand is an error
    [] OTHER -> "None"

Starts == Literals \cup {"-", "not", "let", "mut", "if", "func", "return", "for", "data", "annotation",
                         "error", "trait", "provides", "match", "import", "(", "[", "{"}

(* The steps.  Take t: the token must be t.  If, When and Unless look at the *)
(* current token, and If moves past it.  Loop runs its body until t or the   *)
(* end of input, While as long as t is there to be taken.  Past is a look    *)
(* beyond newlines that is taken back when t is not there.                   *)
Take(t) == [do |-> "take", is |-> t]
Expr(p) == [do |-> "expr", at |-> p]
Infix(p) == [do |-> "infix", at |-> p]
Either(t, yes, no) == [do |-> "if", is |-> t, yes |-> yes, no |-> no]
If(t, yes) == Either(t, yes, <<>>)
When(ts, yes, no) == [do |-> "when", is |-> ts, yes |-> yes, no |-> no]
Unless(ts, body) == When(ts, <<>>, body)
Loop(t, body) == [do |-> "loop", is |-> t, body |-> body]
While(t, body) == [do |-> "while", is |-> t, body |-> body]
Past(t, yes) == [do |-> "past", is |-> t, yes |-> yes]
Within(colon, body) == [do |-> "colon", to |-> colon, body |-> body]
Use(rule) == [do |-> "use", of |-> rule]
List(t) == [do |-> "list", is |-> t]
Name == [do |-> "name"]
Skip == [do |-> "skip", is |-> {"newline"}]
SkipSeparators == [do |-> "skip", is |-> {"newline", ";"}]
Open(tag) == [do |-> "open", tag |-> tag]      \* a new node
Adopt(tag) == [do |-> "adopt", tag |-> tag]    \* a new node around the last value
Retag(tag) == [do |-> "retag", tag |-> tag]
Close == [do |-> "close"]
Spread == [do |-> "spread"]                    \* the node's parts, without the node
Demand(what) == [do |-> "demand", that |-> what]

-----------------------------------------------------------------------------
(* Types.                                                                    *)
TypeExpr == <<Use("union"), Demand("no arrow")>>
TypeUnion == <<Open("union"), Use("postfix"), While("|", <<Skip, Use("postfix")>>), [do |-> "collapse"]>>
TypePostfix == <<Use("atom"), While("?", <<Adopt("optional"), Close>>)>>
TypeArrowTail == <<Open("arrow"), Use("union"), Either("->", <<Use("tail"), Close>>, <<Spread>>)>>
Types == <<Use("union"), While(",", <<Use("union")>>)>>
TypeAtom ==
  <<Either("(",
      <<Open("arrow")>> \o Types
        \o <<Either("->", <<Use("tail"), Take(")"), Close>>,
                          <<Take(")"), Demand("only one"), Spread>>)>>,
      <<Open("type"), Name, While(".", <<Name>>),
        If("<", Types \o <<[do |-> "close angle"]>>), Close>>)>>
TypeParamList ==
  <<Open("binders"), Name, If(":", <<Name, While("+", <<Name>>)>>),
    While(",", <<Name, If(":", <<Name, While("+", <<Name>>)>>)>>),
    [do |-> "close angle"], Close>>

(* Annotations and the lists of fields.                                      *)
DottedName == <<Name, While(".", <<Name>>)>>
AnnotationUse == <<Take("#"), Open("#")>> \o DottedName \o <<If("(", <<List(")"), Take(")")>>), Close>>
LeadingAnnotations == <<Skip, When({"#"}, AnnotationUse \o <<Use("leading")>>, <<>>)>>
TrailingAnnotations == <<When({"#"}, AnnotationUse \o <<Use("trailing")>>, <<>>)>>
FieldList ==
  <<Take("("), Open("fields"), Skip,
    Loop(")", <<Open("field"), Use("leading"), [do |-> "field name"], Use("type"),
                When({"="}, <<Demand("named"), Take("="), Expr("Assign")>>, <<>>),
                Use("trailing"), Close, Skip, If(",", <<Skip>>)>>),
    Take(")"), Demand("all named or none"), Close>>

(* Declarations.                                                             *)
Declaration == <<If(":", <<Use("type")>>), Take("="), Skip, Expr("Assign"), Close>>
LetBinding == <<Open("let"), Name>> \o Declaration
MutPrefix == <<Open("mut"), Name,
               When({":", "="}, Declaration, <<Infix("Call"), Demand("place"), Close>>)>>
FuncSignature ==
  <<Name, If("<", <<Use("binders")>>), Take("("), Skip,
    Loop(")", <<If("mut", <<>>), Name, If(":", <<Use("type")>>), Skip, If(",", <<Skip>>)>>),
    Take(")"), If(":", <<Use("type")>>)>>
FuncDecl == <<Open("func"), Use("signature"), Take("="), Skip, Expr("Assign"), Close>>
TraitDecl ==
  <<Open("trait"), Name, If("<", <<Use("binders")>>),
    If("{", <<SkipSeparators,
              Loop("}", <<Take("func"), Open("member"), Use("signature"), Demand("no binders"),
                          If("=", <<Skip, Expr("Assign")>>), Close, SkipSeparators>>),
              Take("}")>>), Close>>
ImplBody ==
  <<Take("{"), SkipSeparators,
    Loop("}", <<Take("func"), Use("func"), SkipSeparators>>), Take("}")>>
ImplDecl ==
  <<Open("provides"), Name, While(",", <<Name>>), Take("for"), Use("type"), Use("impl"), Close>>
Variant ==
  <<Open("variant"), Name, When({"("}, <<Use("fields")>>, <<>>), Close, Past("|", <<Skip, Use("variant")>>)>>
DataDeclBody(implicit) ==
  <<Open("data"), Name, If("<", <<Use("binders")>>), When({"("}, <<Use("fields")>>, <<>>),
    If("is", <<Skip, Use("variant")>>),
    If("provides", <<Skip, Open("traits"), Name, While(",", <<Name>>), Close>>)>>
  \o (IF implicit THEN <<Open("traits"), Close>> ELSE <<>>)
  \o <<When({"{"}, <<Demand("traits"), Use("impl")>>, <<>>), Close>>
AnnotationDecl ==
  <<Open("annotation")>> \o DottedName \o <<When({"("}, <<Use("fields")>>, <<>>), Close>>
ImportNames == <<Unless({"}"}, <<Name, Unless({"}"}, <<Take(","), Use("imports")>>)>>)>>
ImportDecl ==
  <<Open("import"), [do |-> "path"],
    Either("as", <<Name>>, <<Take("{"), Use("imports"), Demand("a name"), Take("}")>>), Close>>

-----------------------------------------------------------------------------
(* Expressions that start with a token of their own.                         *)
Unary(op) == <<Open(op), Expr("Unary"), Close>>
ParamsTo == <<Demand("arrow"), Close>>
Grouping ==
  <<Within(FALSE,
      <<Open("list"), Skip,
        Either(")", ParamsTo,
          <<Expr("Assign"), Skip,
            When({","},
              <<While(",", <<Skip, Unless({")"}, <<Expr("Assign"), Skip>>)>>), Take(")")>> \o ParamsTo,
              <<Take(")"), Spread>>)>>)>>)>>
Statement ==
  <<Open("decorated"), Use("leading"), Expr("Assign"), Use("trailing"), [do |-> "collapse"]>>
BlockBody ==
  <<Unless({"}", "eof"},
     <<Use("statement"),
       Unless({"}", "eof"}, <<Demand("separator"), SkipSeparators, Use("body")>>)>>)>>
BlockExpr ==
  <<Within(FALSE, <<Open("block"), SkipSeparators, Use("body"), Take("}"),
                    Demand("a statement"), [do |-> "collapse"]>>)>>
(* Mutant: the newlines before a missing else are kept.                      *)
ConditionalGreedy ==
  <<Open("if"), Expr("Assign"), Skip, Take("then"), Skip, Expr("Assign"),
    Skip, If("else", <<Skip, Expr("Assign")>>), Close>>
Conditional ==
  <<Open("if"), Expr("Assign"), Skip, Take("then"), Skip, Expr("Assign"),
    Past("else", <<Skip, Expr("Assign")>>), Close>>
ReturnExpr == <<Open("return"), When(Starts, <<Expr("Assign")>>, <<>>), Close>>
DictRest ==
  <<Retag("dict"), Skip, Expr("Assign"), Skip,
    While(",", <<Skip, Unless({"]"}, <<Expr("Assign"), Skip, Take(":"), Skip, Expr("Assign"), Skip>>)>>),
    Take("]")>>
Tuple ==
  <<Within(TRUE,
      <<Open("list"), Skip,
        Either("for", <<Retag("comprehension"), Use("for"), Skip, Take("]")>>,
         <<Either(":", <<Retag("dict"), Skip, Take("]")>>,
          <<Either("]", <<>>,
           <<Expr("Assign"), Skip, Either(":", DictRest, <<[do |-> "more", is |-> "]"], Take("]")>>)>>)>>)>>),
        Close>>)>>
ForExpr ==
  <<Open("for"), Name, Take("in"), Skip, Expr("Assign"), If("if", <<Skip, Expr("Assign")>>),
    Skip, Take("do"), Skip, Expr("Assign"), Close>>
Pattern ==
  <<Open("pattern"), Name, If(".", <<Name>>),
    If("(", <<Loop(")", <<Name, If(",", <<>>)>>), Take(")")>>), Close>>
MatchArms ==
  Loop("}", <<Either("else", <<Skip, [do |-> "drop default"], Open("default"), Expr("Assign"), Close>>,
                <<Open("arm"), Take("is"), Use("pattern"), If("and", <<Expr("Assign")>>), Skip,
                  Take("then"), Skip, Expr("Assign"), Close>>), Skip>>)
MatchExpr ==
  <<Open("match"), Expr("Assign"), Skip, Take("{"), Skip, MatchArms, Take("}"), Close>>

(* Expressions that continue one that is already there.                      *)
(* Mutant: the right operand may bind as loosely as its operator.            *)
BinaryRight(op) == <<Adopt(op), Expr(InfixOf(op)), Close>>
Binary(op) == <<Adopt(op), Expr(Tighter(InfixOf(op))), Close>>
NotIn == <<Adopt("not in"), Take("in"), Skip, Expr(Tighter("Comparison")), Close>>
Assign == <<Demand("place"), Adopt("="), Expr("Assign"), Close>>
ArrowFunc == <<Demand("parameters"), Adopt("->"), Skip, Expr("Assign"), Close>>
TypeAnnotation == <<Adopt(":"), Use("type"), Close>>
CatchExpr == <<Adopt("catch"), Skip, Expr("Assign"), Close>>
Call == <<Adopt("call"), Within(FALSE, <<List(")"), Take(")")>>), Close>>
Bound == Expr(Tighter("Range"))
Slice == <<Retag("slice"), Unless({"]"}, <<Bound>>), Take("]")>>
Index == <<Adopt("index"), Either("..", Slice, <<Bound, Either("..", Slice, <<Take("]")>>)>>), Close>>
IsPattern == <<Adopt("is"), Use("pattern"), Close>>
FieldAccess == <<Adopt("."), Name, Close>>

-----------------------------------------------------------------------------
Prefix(is) ==
  CASE is \in {"-", "not"} -> Unary(is)
    [] is = "let" -> LetBinding
    [] is = "mut" -> MutPrefix
    [] is = "if" -> Conditional
    [] is = "func" -> FuncDecl
    [] is = "return" -> ReturnExpr
    [] is = "for" -> ForExpr
    [] is = "data" -> DataDeclBody(FALSE)
    [] is = "error" -> DataDeclBody(TRUE)
    [] is = "annotation" -> AnnotationDecl
    [] is = "trait" -> TraitDecl
    [] is = "provides" -> ImplDecl
    [] is = "match" -> MatchExpr
    [] is = "import" -> ImportDecl
    [] is = "(" -> Grouping
    [] is = "[" -> Tuple
    [] is = "{" -> BlockExpr
    [] OTHER -> <<>>
InfixRule(is) ==
  CASE is = "=" -> Assign
    [] is = "->" -> ArrowFunc
    [] is = ":" -> TypeAnnotation
    [] is = "catch" -> CatchExpr
    [] is = "not" -> NotIn
    [] is = "is" -> IsPattern
    [] is = "(" -> Call
    [] is = "[" -> Index
    [] is = "." -> FieldAccess
    [] is \in {"?", "!"} -> <<Adopt(is), Close>>
    [] is \in Literals -> <<Demand("operator")>>
    [] OTHER -> Binary(is)
Rule(of) ==
  CASE of = "type" -> TypeExpr [] of = "union" -> TypeUnion [] of = "postfix" -> TypePostfix
    [] of = "atom" -> TypeAtom [] of = "tail" -> TypeArrowTail [] of = "binders" -> TypeParamList
    [] of = "leading" -> LeadingAnnotations [] of = "trailing" -> TrailingAnnotations
    [] of = "fields" -> FieldList [] of = "signature" -> FuncSignature [] of = "func" -> FuncDecl
    [] of = "impl" -> ImplBody [] of = "variant" -> Variant [] of = "imports" -> ImportNames
    [] of = "statement" -> Statement [] of = "body" -> BlockBody [] of = "for" -> ForExpr
    [] of = "pattern" -> Pattern
=============================================================================
