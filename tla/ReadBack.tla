------------------------------ MODULE ReadBack ------------------------------
(***************************************************************************)
(* A program that prints a value with repr or json.to_str, has the text    *)
(* changed by hand, and reads it with read(s): T | ReadError or            *)
(* json.parse(s): T | JsonError.  One read is the block the checker makes  *)
(* of the call (lower_read, lower_json_parse): open, build the whole value *)
(* however badly it goes, look whether it failed, close.  The document is  *)
(* a thread's (READ_STATE, JSON_STATE), and so is the JSON entry cursor,   *)
(* which outlives it.                                                      *)
(***************************************************************************)
EXTENDS Notation, JsonText
LOCAL INSTANCE SequencesExt

CONSTANTS
    Types,          \* the types T
    Values,         \* a type -> the values printed
    Leaves,         \* format -> what a hand may write in the place of a node
    OtherNames,     \* names a hand may write in the place of a label or a key
    MaxEdits,       \* the most changes made to a text
    Bases,          \* where the allocator may put a document (0: nowhere)
    Recycles        \* may a document be put where the cursor's one was?

VARIABLES
    format, ty, value,  \* what was printed
    text, edits,        \* what is to be read, and how many changes it has seen
    doc,                \* the open document's root node and whether it is marked
    happy,              \* the value built from it, of the annotated union
    result,             \* what the call gives
    cursor,             \* ENTRY_CURSOR
    pc

vars == <<format, ty, value, text, edits, doc, happy, result, cursor, pc>>
printed == <<format, ty, value>>

Formats == {"notation", "json"}
ErrorTy == [f \in Formats |-> Named(IF f = "json" THEN "JsonError" ELSE "ReadError")]
Expected == [f \in Formats |-> [t \in Types |-> Normalize(UnionOf(<<t, ErrorTy[f]>>))]]
Accepted == [f \in Formats |-> {t \in Types : IF f = "json" THEN JsonReadable(t) ELSE Readable(t)}]
Closed == [node |-> NoneV, failed |-> FALSE]

-----------------------------------------------------------------------------
(* The changes a hand makes: a node replaced, an element dropped, added or   *)
(* exchanged with its neighbour, a name shortened, changed or given twice.   *)
Exchanged(s) == [i \in DOMAIN s |-> CASE i = 1 -> s[2] [] i = 2 -> s[1] [] OTHER -> s[i]]
SeqEdits(s, extra) ==
    {SubSeq(s, 1, i - 1) \o SubSeq(s, i + 1, Len(s)) : i \in DOMAIN s}
    \cup {Append(s, x) : x \in extra}
    \cup {Exchanged(s) : i \in {1} \cap 1..(Len(s) - 1)}

RECURSIVE Edited(_, _)
ItemEdits(f, s) == UNION {{[s EXCEPT ![i] = x] : x \in Edited(f, s[i])} : i \in DOMAIN s}
                   \cup SeqEdits(s, Leaves[f])
PairEdits(f, s) ==
    UNION {{[s EXCEPT ![i] = <<s[i][1], x>>] : x \in Edited(f, s[i][2])} : i \in DOMAIN s}
    \cup SeqEdits(s, {<<s[i][1], x>> : i \in DOMAIN s, x \in Leaves[f]})

Edited(f, n) ==
    (Leaves[f] \ {n}) \cup
    CASE Has(n, "items") -> {[items |-> s] : s \in ItemEdits(f, n.items)}
      [] Has(n, "pairs") ->
            {[pairs |-> s] : s \in PairEdits(f, n.pairs)}
            \cup {[pairs |-> [n.pairs EXCEPT ![i] = <<x, @[2]>>]] : i \in DOMAIN n.pairs, x \in Leaves[f]}
      [] Has(n, "object") ->
            {[object |-> s] : s \in PairEdits(f, n.object)}
            \cup {[object |-> [n.object EXCEPT ![i] = <<x, @[2]>>]] : i \in DOMAIN n.object, x \in OtherNames}
      [] Has(n, "from") -> {[n EXCEPT !.from = x] : x \in Edited(f, n.from)}
                           \cup {[n EXCEPT !.to = x] : x \in Edited(f, n.to)}
      [] Has(n, "label") -> {[n EXCEPT !.arg = x] : x \in Edited(f, n.arg)}
                            \cup {[n EXCEPT !.label = x] : x \in OtherNames} \cup {n.arg}
      [] Has(n, "call") -> {[n EXCEPT !.args = s] : s \in ItemEdits(f, n.args)}
                           \cup {[n EXCEPT !.call = ShortName[@]], [path |-> n.call]}
                           \cup {[n EXCEPT !.call = x] : x \in OtherNames}
      [] Has(n, "neg") -> {n.neg, [neg |-> n]}
      [] OTHER -> {}

-----------------------------------------------------------------------------
Init ==
    /\ format = "notation" /\ ty = NoneTy /\ value = NoneV
    /\ text = NoneV /\ edits = 0
    /\ doc = Closed /\ happy = NoneV /\ result = NoneV
    /\ cursor = NoCursor
    /\ pc = "start"

Write ==
    /\ pc \in {"start", "closed"}
    /\ \E f \in Formats : \E t \in Accepted[f] : \E v \in Values[t] :
          /\ format' = f /\ ty' = t /\ value' = v
          /\ text' = IF f = "json" THEN ToJson(t, v) ELSE Repr(t, v)
    /\ edits' = 0 /\ result' = NoneV
    /\ pc' = "printed"
    /\ UNCHANGED <<doc, happy, cursor>>

Edit ==
    /\ pc = "printed" /\ edits < MaxEdits
    /\ text' \in Edited(format, text) \cup {[broken |-> TRUE]}
    /\ edits' = edits + 1
    /\ UNCHANGED <<printed, doc, happy, result, cursor, pc>>

(* A text that does not parse leaves a none (null) node, and is marked. *)
Open ==
    /\ pc = "printed"
    /\ IF format = "json"
       THEN IF Has(text, "broken") THEN doc' = [node |-> NoneV, failed |-> TRUE]
            ELSE \E base \in Bases :
                    /\ Recycles \/ cursor.obj[1] # base
                    /\ doc' = [node |-> Placed(text, base, <<>>), failed |-> FALSE]
       ELSE doc' = IF Parses(text) THEN [node |-> text, failed |-> FALSE]
                   ELSE [node |-> NoneV, failed |-> TRUE]
    /\ pc' = "open"
    /\ UNCHANGED <<printed, text, edits, happy, result, cursor>>

(* The value is built for the annotated union from the start when T is a     *)
(* union itself, and widened into it when it is not.                         *)
Built(r) ==
    /\ happy' = IF IsUnion(ty) THEN r.val ELSE Widen(Expected[format][ty], ty, r.val)
    /\ doc' = [doc EXCEPT !.failed = @ \/ ~r.ok]
    /\ cursor' = IF format = "json" THEN r.cur ELSE cursor

Build ==
    LET target == Expected[format][ty]
        r == IF format = "json"
             THEN IF IsUnion(ty) THEN ReadJsonUnionAs(ty, doc.node, target, cursor)
                  ELSE ReadJson(ty, doc.node, cursor)
             ELSE IF IsUnion(ty) THEN ReadUnionAs(ty, doc.node, target) ELSE Read(ty, doc.node)
    IN  /\ pc = "open"
        /\ Built(r)
        /\ pc' = "built"
        /\ UNCHANGED <<printed, text, edits, result>>

Decide ==
    /\ pc = "built"
    /\ result' = IF doc.failed THEN Widen(Expected[format][ty], ErrorTy[format], NoneV) ELSE happy
    /\ pc' = "decided"
    /\ UNCHANGED <<printed, text, edits, doc, happy, cursor>>

Close ==
    /\ pc = "decided"
    /\ doc' = Closed /\ happy' = NoneV
    /\ pc' = "closed"
    /\ UNCHANGED <<printed, text, edits, result, cursor>>

Next == Write \/ Edit \/ Open \/ Build \/ Decide \/ Close
Spec == Init /\ [][Next]_vars

-----------------------------------------------------------------------------
(* What a match on the result finds: the error, or a value of T. *)
Member == Expected[format][ty].args[result.tag + 1]
IsError == Member = ErrorTy[format]
Answer == IF IsUnion(ty) THEN [tag |-> TagOf(ty, Member), holds |-> result.holds]
          ELSE result.holds

SaysHere(v) == IF format = "json"
               THEN ~Has(text, "broken") /\ JsonSays(ty, Placed(text, 0, <<>>), v)
               ELSE Parses(text) /\ Says(ty, text, v)

Keeps == IF format = "json" THEN Lossless(ty, value)
         ELSE Parses(text) /\ \A u \in UnionsIn(ty) : LooksDiffer(u)

(***************************************************************************)
(* A read gives back the value that was printed (when its notation tells   *)
(* it from every other: no Int whose magnitude is not an Int, no union of  *)
(* two lists, no infinite Float in JSON).  Whatever was done to the text,  *)
(* a value that is given is what the text says, and an error is given only *)
(* when it says no value of the type (typeck.rs build_repr, build_read,    *)
(* build_json, build_read_json; the accessors of runtime/read.rs and json).*)
(***************************************************************************)
ReadIsExact ==
    pc = "closed" =>
        /\ edits = 0 /\ Keeps => ~IsError /\ Answer = value
        /\ ~IsError => SaysHere(Answer)
        /\ IsError => \A v \in Values[ty] : ~SaysHere(v)

(***************************************************************************)
(* json.parse gives back what json.to_str wrote, and so tells nothing of   *)
(* a document that was closed before (runtime/json/dom.rs entry_at).       *)
(***************************************************************************)
ParseInvertsToStr ==
    pc = "closed" /\ format = "json" /\ edits = 0 /\ Keeps => ~IsError /\ Answer = value
=============================================================================
