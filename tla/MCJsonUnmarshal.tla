--------------------------- MODULE MCJsonUnmarshal ---------------------------
(***************************************************************************)
(* Schemas, masks and documents to run JsonUnmarshal on.  The generator    *)
(* refuses schemas whose structs contain each other in a circle, so the    *)
(* nesting a schema allows is finite.                                      *)
(***************************************************************************)
EXTENDS JsonUnmarshal

F(k, elt) == [k |-> k, elt |-> elt, null |-> FALSE]
Nullable(k, elt) == [k |-> k, elt |-> elt, null |-> TRUE]
Doc(root, mask, form, tokens, max) ==
    [root |-> root, mask |-> mask, form |-> form, tokens |-> tokens, max |-> max]

Wide ==         \* every kind of field, one level deep
    [i |-> F("one", "int"), e |-> F("one", "enum"), n |-> Nullable("one", "L"),
     o |-> F("one", "O"), a |-> F("array", "L"), as |-> F("array", "str"),
     ae |-> F("array", "enum"), ao |-> F("array", "O"), f |-> F("fixed", "float"),
     fl |-> F("fixed", "L"), fo |-> F("fixed", "O"), m |-> F("map", "int"),
     ml |-> F("map", "L"), ms |-> Nullable("maps", "int")]
Leaf == [i |-> F("one", "int")]
Flat ==         \* scalars only
    [i |-> F("one", "int"), s |-> F("one", "str"),
     e |-> Nullable("one", "enum"), d |-> F("one", "float")]

\* D, N, M, K, J nest in structs, arrays, maps and oneofs, deeper than MaxDepth.
AllSchema ==
    [T |-> Wide, L |-> Leaf, S |-> Flat,
     D |-> [a |-> F("array", "N"), n |-> F("one", "N"), ms |-> F("maps", "N"),
            ao |-> F("array", "Q")],
     N |-> [a |-> F("array", "M"), n |-> F("one", "M"), ms |-> F("maps", "M"),
            o |-> F("one", "P")],
     M |-> [a |-> F("array", "K"), n |-> F("one", "K"), f |-> F("fixed", "L")],
     K |-> [a |-> F("array", "J"), n |-> F("one", "J")], J |-> [a |-> F("array", "L"), n |-> F("one", "L")]]
AllLenKey ==   \* of the arrays whose lengths occur as keys, and of the others
    [k \in {"as", "a", "ae", "ao", "ms"} |-> IF k = "as" THEN "as_len" ELSE "len"]
AllVariants == [O |-> [v |-> "L"], P |-> [v |-> "M"], Q |-> [v |-> "N"]]
AllMask == [some |-> [sel |-> {"i", "n", "a"}, sub |-> [n |-> "none"]],
            none |-> [sel |-> {}, sub |-> <<>>]]

Punctuation == {"{", "}", "[", "]", ":", ","}
WideToken == Punctuation \cup DOMAIN Wide
               \cup {"int", "float", "null", "red", "k", "v", "type", "", "as_len"}
DeepToken == Punctuation \cup {"int", "v", "type", "a", "n", "ms", "ao", "o", "k", ""}
NestTokens ==   \* fewer keys, to nest deeper
    {Punctuation \cup keys : keys \in {{"a", "n"}, {"n", "ms", "k"}, {"n", "o", "type", "v"}, {"ao", "n", "type", "v"}}}
FlatToken == Punctuation \cup DOMAIN Flat
               \cup {"int", "big", "float", "true", "null", "red", "k", ""}
AnyToken == Punctuation \cup {"int", "word", "stuck", "null", "k", "v", "type", "", "as_len"}
              \cup (DOMAIN Wide \ {"i", "m", "n"})
AllDocuments ==
    {Doc("T", mask, "typed", WideToken, 12) : mask \in {"all", "some"}}
      \cup {Doc("D", "all", "deep", DeepToken, 14),
            Doc("S", "all", "json", FlatToken, 14), Doc("T", "all", "tokens", AnyToken, 8)}
      \cup {Doc("D", "all", "deep", tokens, 16) : tokens \in NestTokens}
      \cup {Doc("D", "all", "deep", {"{", "[", ":", "a"}, 21)}   \* and never close
=============================================================================
