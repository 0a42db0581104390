---------------------------- MODULE MCFieldIndex ----------------------------
(***************************************************************************)
(* Small schemas for FieldIndex: an array with its length row, two members *)
(* with one JSON key, several structs, and structs without any field.      *)
(***************************************************************************)
EXTENDS FieldIndex, FieldTables

Fld(key, dynamic) == [key |-> <<key>>, dynamic |-> dynamic]
St(name, fields) == [name |-> name, fields |-> fields]

FilledSchemas ==
    {<<St("A", <<Fld("x", TRUE)>>), St("B", <<Fld("x", FALSE)>>)>>,
     <<St("A", <<Fld("x", FALSE), Fld("x", FALSE)>>)>>,
     <<St("B", <<Fld("x", FALSE)>>), St("A", <<Fld("x", FALSE)>>)>>}
FilledTables == {TableOf(s) : s \in FilledSchemas}

Keys == {<<"x">>, <<"x", "_len">>, <<>>}
Names == {"A", "B"} \X Keys

\* Residues 0, 1 and 4 in a table of five slots, 0, 4 and 6 in one of seven.
HashValues == {0, 4, 6}
AllHashes == [Names -> HashValues]
=============================================================================
