---- MODULE JsonRpc ----
(***************************************************************************)
(* lsp_jsonrpc.c: the language server's reader and writer of JSON.  A      *)
(* message is a sequence of units: the marks of JSON, the words between    *)
(* them, numbers, and, within a string, "NL" for a line feed and "CTL" for *)
(* another control character.  A value is [type, val], the val of an       *)
(* object a sequence of [key, val]; white space is left out.               *)
(***************************************************************************)
EXTENDS Integers, Sequences, TLC, SequencesExt

(* Numbers that occur in a message, and their units. *)
Known == (0..120) \cup {32601}
NumberUnit == [n \in Known |-> ToString(n)]
IsNumber(u) == \E n \in Known : NumberUnit[n] = u
NumberOf(u) == CHOOSE n \in Known : NumberUnit[n] = u
Number(n) == IF n < 0 THEN <<"-", NumberUnit[-n]>> ELSE <<NumberUnit[n]>>

Escape(u) == CASE u \in {"\"", "\\"} -> <<"\\", u>>
               [] u = "NL" -> <<"\\", "n">>
               [] u = "CTL" -> <<"\\", "u0001">>
               [] OTHER -> <<u>>
(* Mutant: a quote within a string is written as it is. *)
EscapeNothing(s) == <<"\"">> \o s \o <<"\"">>
EscapeString(s) == <<"\"">> \o FlattenSeq([i \in DOMAIN s |-> Escape(s[i])]) \o <<"\"">>

Listed(items) ==
    FlattenSeq([i \in DOMAIN items |-> IF i = 1 THEN items[i] ELSE <<",">> \o items[i]])
Member(key, units) == EscapeString(<<key>>) \o <<":">> \o units
Object(members) == <<"{">> \o Listed(members) \o <<"}">>
Array(items) == <<"[">> \o Listed(items) \o <<"]">>

Response(id, result) ==
    Object(<<Member("jsonrpc", EscapeString(<<"2.0">>)), Member("id", Number(id)), Member("result", result)>>)
Notification(method, params) ==
    Object(<<Member("jsonrpc", EscapeString(<<"2.0">>)), Member("method", EscapeString(<<method>>)),
             Member("params", params)>>)
----
Type(v) == v[1]
Val(v) == v[2]
(* Outcome of a parse: whether it was right, the position after it, the value. *)
Right(type, v, p) == [ok |-> TRUE, pos |-> p, val |-> <<type, v>>]
Wrong == [ok |-> FALSE, pos |-> 0, val |-> <<"null", <<>>>>]
At(c, p) == IF p <= Len(c) THEN c[p] ELSE ""

RECURSIVE ParseString(_, _, _)
Unescaped == [u \in {"\"", "\\", "n", "u0001"} |-> CASE u = "n" -> "NL" [] u = "u0001" -> "CTL" [] OTHER -> u]
ParseString(c, p, s) ==
    CASE At(c, p) = "" -> Wrong
      [] At(c, p) = "\"" -> Right("string", s, p + 1)
      [] At(c, p) = "\\" -> IF At(c, p + 1) \in DOMAIN Unescaped
                            THEN ParseString(c, p + 2, Append(s, Unescaped[At(c, p + 1)])) ELSE Wrong
      [] OTHER -> ParseString(c, p + 1, Append(s, c[p]))

(* A minus alone is a number too. *)
ParseNumber(c, p) ==
    LET sign == IF c[p] = "-" THEN 1 ELSE 0
        digits == IsNumber(At(c, p + sign))
        n == IF digits THEN NumberOf(At(c, p + sign)) ELSE 0
    IN  Right("number", IF sign = 1 THEN -n ELSE n, p + sign + (IF digits THEN 1 ELSE 0))

RECURSIVE ParseValue(_, _), ParseItems(_, _, _), ParseMembers(_, _, _)
ParseItems(c, p, items) ==
    LET v == ParseValue(c, p)
        more == Append(items, v.val)
    IN  IF ~v.ok THEN Wrong
        ELSE CASE At(c, v.pos) = "," -> ParseItems(c, v.pos + 1, more)
               [] At(c, v.pos) = "]" -> Right("array", more, v.pos + 1)
               [] OTHER -> Wrong
ParseMembers(c, p, members) ==
    LET k == IF At(c, p) = "\"" THEN ParseString(c, p + 1, <<>>) ELSE Wrong
        v == ParseValue(c, k.pos + 1)
        more == Append(members, [key |-> Val(k.val), val |-> v.val])
    IN  IF ~k.ok \/ At(c, k.pos) # ":" \/ ~v.ok THEN Wrong
        ELSE CASE At(c, v.pos) = "," -> ParseMembers(c, v.pos + 1, more)
               [] At(c, v.pos) = "}" -> Right("object", more, v.pos + 1)
               [] OTHER -> Wrong
ParseValue(c, p) ==
    CASE At(c, p) = "\"" -> ParseString(c, p + 1, <<>>)
      [] At(c, p) = "{" -> IF At(c, p + 1) = "}" THEN Right("object", <<>>, p + 2) ELSE ParseMembers(c, p + 1, <<>>)
      [] At(c, p) = "[" -> IF At(c, p + 1) = "]" THEN Right("array", <<>>, p + 2) ELSE ParseItems(c, p + 1, <<>>)
      [] At(c, p) = "-" \/ IsNumber(At(c, p)) -> ParseNumber(c, p)
      [] At(c, p) \in {"true", "false"} -> Right("bool", At(c, p) = "true", p + 1)
      [] At(c, p) = "null" -> Right("null", <<>>, p + 1)
      [] OTHER -> Wrong
(* What follows the first value is not looked at. *)
Parse(c) == ParseValue(c, 1)
----
(* Of a repeated key the first counts; Absent stands for a null pointer. *)
Absent == <<"absent", <<>>>>
Get(v, key) ==
    LET at == IF Type(v) = "object" THEN {i \in DOMAIN Val(v) : Val(v)[i].key = <<key>>} ELSE {}
    IN  IF at = {} THEN Absent ELSE Val(v)[CHOOSE i \in at : \A j \in at : i <= j].val
Missing(v) == Type(v) = "absent"
IsString(v) == Type(v) = "string"
LongOf(v) == IF Type(v) = "number" THEN Val(v) ELSE 0
----
(* Framing: a header line is its units and "EOL", an empty one ends the    *)
(* headers.  LineEnd is where the first line of a stream ends.             *)
Frame(n, body) == <<"Content-Length:", NumberUnit[n], "EOL", "EOL">> \o body
HasLine(s) == \E i \in DOMAIN s : s[i] = "EOL"
LineEnd(s) == CHOOSE i \in DOMAIN s : s[i] = "EOL" /\ \A j \in 1..(i - 1) : s[j] # "EOL"
IsLength(line) == line # <<>> /\ line[1] = "Content-Length:"
LengthIn(line) == IF Len(line) > 1 /\ IsNumber(line[2]) THEN NumberOf(line[2])
                  ELSE IF Len(line) > 2 /\ line[2] = "-" /\ IsNumber(line[3]) THEN -NumberOf(line[3]) ELSE 0
====
