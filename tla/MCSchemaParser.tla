--------------------------- MODULE MCSchemaParser ---------------------------
(***************************************************************************)
(* Schema files to run SchemaParser on.  A set at a place of a file stands *)
(* for every token of it; a file that may be read twice has no choice.     *)
(***************************************************************************)
EXTENDS SchemaParser

AllNames == {"A", "B", "x", "y"}
S(f, d, v) == [file |-> f, dots |-> d, value |-> v]
AllStrings == [main |-> S("main", 0, ""), a |-> S("a", 0, ""), dot |-> S("main", 1, ""),
               none |-> S("none", 0, ""), ints |-> S("", 0, "int"), As |-> S("", 0, "A")]

One(tokens) == [main |-> [i \in DOMAIN tokens |-> {tokens[i]}]]
Free(before, set, n, after) ==
    [main |-> [i \in DOMAIN before |-> {before[i]}] \o [i \in 1..n |-> set]
                \o [i \in DOMAIN after |-> {after[i]}]]
Each(tokens) == [i \in DOMAIN tokens |-> {tokens[i]}]

EnumA == <<"enum", "A", "{", "x", ",", "y", "}">>
StructB == <<"struct", "B", "{", "int", "x", ";", "}">>
OneofA == <<"oneof", "A", "{", "B", "x", ";", "}">>

AllDocuments ==
    \* a file of anything
    {Free(<<>>, {"struct", "enum", "A", "{", "}", ";", "int", "#", "error"}, 6, <<>>)}
    \* fields: their notes and types
    \cup {Free(d \o <<"struct", "B", "{">>,
               {"@", "json", "deprecated", "optional", "a", "int", "A", "map", "As", "ints", ";"},
               5, <<";", "}">>) : d \in {EnumA, <<>>}}
    \* their sizes and defaults
    \cup {Free(d \o <<"struct", "B", "{", t, "y">>, {"[", "3", "]", "=", "0", "x", ";", "}", "error"},
               5, <<";", "}">>) : d \in {EnumA}, t \in {"A", "int", "B"}}
    \cup {Free(StructB \o OneofA \o <<"struct", "x">>, {"{", "A", "B", "y", "=", "1.5", ";"}, 4,
               <<";", "A", "x", ";", "}">>)}
    \* two fields
    \cup {Free(<<"struct", "A", "{">>, {"int", "A", "x", "y", ";", "struct"}, 6, <<"}">>)}
    \* enums and oneofs, with what they need
    \cup {Free(<<"enum", "A", "{">>, {"x", "y", ",", ";", "@", "deprecated", "}", "[", "error"}, 6, <<"}">>)}
    \cup {Free(StructB \o <<"oneof", "A", "{">>,
               {"B", "x", ";", "@", "tag", "deprecated", "a", "}"}, 6, <<"}">>)}
    \cup {Free(StructB \o <<"oneof", "A", "{", "B", "x", ";">>, {"B", "x", "y", ";", ","}, 4, <<"}">>)}
    \* an enum behind a struct, and one with the name of a primitive type
    \cup {Free(StructB \o <<"enum">>, {"A", "int", "{"}, 2,
               <<"x", "}", "struct", "y", "{", "int", "y", "=", v, ";", "}">>) : v \in {"0", "x"}}
    \* names that are taken
    \cup {Free(<<>>, {k}, 1, <<"A", "{">> \o b \o <<"}">>
                 \o <<l, "A", "{">> \o c \o <<"}">> \o StructB) :
             k \in Kind, l \in Kind, b \in {<<"B", "x", ";">>}, c \in {<<"B", "x", ";">>}}
    \* files that include each other
    \cup {[main |-> Each(<<"#", "include", s>> \o StructB \o <<"#", "include", t>>), a |-> Each(b)] :
             s \in DOMAIN AllStrings \cup {"A", ";"}, t \in {"a", "main", "none", "ints"},
             b \in {<<"#", "include", "main">>, <<"#", "include", "dot">>, EnumA,
                    <<"enum", "A">>, <<"struct">>, <<"#", "include", "a">>}}
=============================================================================
