-------------------------- MODULE MCDependencyOrder --------------------------
(***************************************************************************)
(* Every schema of three items, in every order of the hash maps, with and  *)
(* without circles.                                                        *)
(***************************************************************************)
EXTENDS DependencyOrder, SequencesExt

CONSTANTS a, b, c

Three == {a, b, c}
SchemasOf(items) ==
    [order : {q \in SetToAllKPermutations(items) : Len(q) = Cardinality(items)},
     deps : [items -> SUBSET items]]
ThreeSchemas == UNION {SchemasOf(items) : items \in {{}, {a}, {a, b}, Three}}
=============================================================================
