------------------------------ MODULE MCSyntax ------------------------------
(* Programs that use every rule of the grammar, each with one token missing, *)
(* replaced or added, and every way three operators can follow each other.   *)
EXTENDS Syntax, TLC

Names == {"a", "b", "f", "T", "Self"}
Tok(w) == [is |-> CASE w \in Names -> "name" [] w = "1" -> "number" [] w = "s" -> "string" [] OTHER -> w,
           as |-> w]
Toks(ws) == [i \in DOMAIN ws |-> Tok(ws[i])]

Texts == {
  <<"let", "a", "=", "newline", "1", "newline", "a", "=", "b", ";", "f">>,
  <<"mut", "a", ":", "T", "=", "f", "(", "mut", "b", ".", "a", "[", "1", "]", ",", "newline", "1", ")">>,
  <<"if", "a", "newline", "then", "b", "newline", "else", "f", "newline", "a">>,
  <<"if", "a", "then", "b", "newline", "newline", "f">>,
  <<"func", "f", "<", "T", ":", "a", "+", "b", ",", "a", ">", "(", "mut", "a", ":", "T", ",", "b", ")", ":", "T", "=", "a">>,
  <<"f", "=", "(", "a", ",", "b", ")", "->", "newline", "return", "a">>,
  <<"[", "a", "]", "->", "b", "newline", "(", ")", "->", "return">>,
  <<"[", "s", ":", "newline", "(", "a", ":", "T", ")", ",", "b", ":", "1", "]">>,
  <<"[", ":", "]", ";", "[", "]", ";", "[", "newline", "for", "a", "in", "b", "do", "1", "]">>,
  <<"for", "a", "in", "f", "(", "b", ")", "if", "a", "newline", "do", "{", "a", "newline", "b", "}">>,
  <<"a", "[", "1", "..", "]", "newline", "a", "[", "..", "b", "]", "newline", "{", "a", "}">>,
  <<"data", "T", "<", "a", ">", "(", "a", ":", "T", "=", "1", "#", "f", ",", "newline", "b", ":", "T", ")">>,
  <<"data", "T", "is", "a", "(", "T", ",", "b", "?", ")", "newline", "|", "b", "newline", "f">>,
  <<"error", "T", "{", "func", "f", "(", ")", "=", "1", "newline", "}", "newline", "a">>,
  <<"data", "T", "provides", "a", ",", "b", "{", "func", "f", "(", ")", "=", "1", ";", "}">>,
  <<"trait", "T", "<", "a", ">", "{", "func", "f", "(", "a", ":", "Self", ")", ":", "T", ";", "func", "b", "(", ")", "=", "1", "}">>,
  <<"provides", "T", "for", "a", ".", "b", "{", "newline", "func", "f", "(", ")", "=", "newline", "a", "}">>,
  <<"match", "a", "{", "is", "T", ".", "a", "(", "b", ")", "and", "b", "then", "1", "newline", "else", "newline", "f", "}">>,
  <<"import", "s", "as", "a", "newline", "import", "s", "{", "a", ",", "b", "}">>,
  <<"#", "f", "(", "a", "=", "1", ")", "newline", "let", "a", "=", "1", "#", "b", ".", "a">>,
  <<"annotation", "f", ".", "a", "(", "a", ":", "T", ")", "newline", "{", "#", "f", "newline", "a", "}">>,
  <<"let", "a", ":", "(", "T", ",", "T", "->", "T", "->", "T", ")", "|", "newline", "a", "?", "=", "1">>,
  <<"let", "a", ":", "T", "<", "T", ",", "a", "<", "T", ">", ">=", "1">>,
  <<"a", "catch", "newline", "b", "->", "f", "(", "b", ")", "!", "newline", "a", "?", ".", "b">>,
  <<"a", "is", "T", "and", "b", "newline", "(", "a", "newline", ")", "(", "a", ":", "T", ")">>,
  <<"1", "not", "in", "newline", "a", "newline", "-", "a", "..", "b", "newline", "true">>
}
Kit == {"a", "newline", "bad", ",", ")", "]", "}", ":", "else"}
Damaged(p) ==
  UNION {{RemoveAt(p, i)} \cup {ReplaceAt(p, i, w) : w \in Kit} \cup {InsertAt(p, i + 1, w) : w \in Kit}
           : i \in DOMAIN p}

Infixes == {"=", "catch", "or", "and", "==", "<", "in", "..", "+", "*", "/"}
Chains == {<<"a", o, "b", p, "a">> : o, p \in Infixes} 
          \cup {<<"a", o, "b", p, "a", q, "1">> : o, p, q \in {"and", "==", "in", "..", "+", "-", "*"}}
          \cup {<<o, "b", p, "a", q, "1">> : o \in {"-", "not"}, p, q \in Infixes}
          \cup {<<"a", o, u, "b", p, "a">> : u \in {"-", "not"}, o, p \in Infixes}
          \cup {<<"a", o, "b", "not", "in", "a", p, "1">> : o, p \in Infixes}

MCSources == {Toks(p) : p \in Texts \cup UNION {Damaged(t) : t \in Texts} \cup Chains}
=============================================================================
