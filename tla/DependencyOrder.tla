--------------------------- MODULE DependencyOrder ---------------------------
(***************************************************************************)
(* In which order the C generator writes the types of a schema             *)
(* (gencode_source, do_each_struct_gen_code and do_each_oneof_gen_code in  *)
(* src/src/gencode/gencode.c).  C wants a struct complete before it is a   *)
(* member, so an item is written once everything it contains has been; the *)
(* generator goes through the hash maps again and again, in their order,   *)
(* as many times as there are items.                                       *)
(***************************************************************************)
EXTENDS Integers, Sequences, FiniteSets

CONSTANTS
    Item,           \* names of structs and oneofs
    Schemas         \* [order, deps]: see SchemaOK

\* order is how hash_map_for_each goes through the structs and then the oneofs,
\* deps what each contains: a struct its fields' structs and oneofs and the structs
\* its maps hold, a oneof its variants.  Validation has checked that they exist.
SchemaOK(s) ==
    LET items == {s.order[i] : i \in 1 .. Len(s.order)}
    IN  /\ s.order \in Seq(Item)
        /\ \A i, j \in 1 .. Len(s.order) : s.order[i] = s.order[j] => i = j
        /\ s.deps \in [items -> SUBSET items]

ASSUME OrderAssumption == \A s \in Schemas : SchemaOK(s)

VARIABLES
    order, deps,
    known,      \* dependency_map: the names inserted so far
    written,    \* the types in the order they are written
    pass,       \* i, the number of passes begun before this one
    at,         \* where hash_map_for_each is
    result,     \* "running", or what gencode_source returned
    lost        \* ghost: the types that were written and could not be inserted

vars == <<order, deps, known, written, pass, at, result, lost>>

Total == Len(order)
Items == {order[i] : i \in 1 .. Total}

Init ==
    /\ \E s \in Schemas : order = s.order /\ deps = s.deps
    /\ known = {} /\ written = <<>>
    /\ pass = 0 /\ at = 1 /\ result = "running" /\ lost = {}

InPass == result = "running" /\ pass < Total /\ at <= Total

\* Mutant: it is enough that some of what the item contains has been written.
ReadyPartly(x) == deps[x] \cap known # {} \/ deps[x] = {}
Ready(x) == deps[x] \subseteq known

\* Already written, or something it contains is not written yet.
Skip ==
    /\ InPass
    /\ order[at] \in known \/ ~Ready(order[at])
    /\ at' = at + 1
    /\ UNCHANGED <<order, deps, known, written, pass, result, lost>>

\* Mutant: what is known already is not passed over.
WriteAgain ==
    /\ InPass /\ Ready(order[at])
    /\ written' = Append(written, order[at]) /\ at' = at + 1
    /\ known' = known \cup {order[at]}
    /\ UNCHANGED <<order, deps, pass, result, lost>>

Write ==
    /\ InPass /\ order[at] \notin known /\ Ready(order[at])
    /\ written' = Append(written, order[at]) /\ at' = at + 1
    /\ \/ known' = known \cup {order[at]} /\ UNCHANGED lost
       \/ lost' = lost \cup {order[at]} /\ UNCHANGED known   \* what hash_map_insert returns is not looked at
    /\ UNCHANGED <<order, deps, pass, result>>

\* Mutant: one pass too few.
LastPassEarly == pass + 2 >= Total
LastPass == pass + 1 >= Total

\* The end of a pass: once everything is known, or after Total passes, the loop ends.
EndOfPass ==
    /\ result = "running" /\ pass < Total /\ at > Total
    /\ pass' = IF Cardinality(known) >= Total \/ LastPass THEN Total ELSE pass + 1
    /\ at' = 1
    /\ UNCHANGED <<order, deps, known, written, result, lost>>

Finish ==
    /\ result = "running" /\ pass >= Total
    /\ result' = IF Cardinality(known) < Total THEN "circle" ELSE "done"
    /\ UNCHANGED <<order, deps, known, written, pass, at, lost>>

Next == Skip \/ Write \/ EndOfPass \/ Finish

Spec == Init /\ [][Next]_vars

-----------------------------------------------------------------------------
TypeOK ==
    /\ SchemaOK([order |-> order, deps |-> deps])
    /\ known \subseteq Items /\ written \in Seq(Items)
    /\ pass \in 0 .. Total /\ at \in 1 .. Total + 1
    /\ result \in {"running", "circle", "done"} /\ lost \subseteq Items

\* The header compiles: no type is written before one it contains.
DependenciesFirst ==
    \A i \in 1 .. Len(written) :
        deps[written[i]] \subseteq {written[j] : j \in 1 .. i - 1}

\* No type is defined twice unless its insertion has failed, and after success none is
\* missing.
Written == {written[i] : i \in 1 .. Len(written)}
WrittenOnce ==
    /\ \A i, j \in 1 .. Len(written) :
         written[i] = written[j] => i = j \/ written[i] \in lost
    /\ result = "done" => Written = Items

\* Items that contain one another: none of them can be the first.
Circle(S) == S # {} /\ \A x \in S : deps[x] \cap S # {}

\* "struct/oneof dependency circle detected" is said exactly of a schema with one (or
\* after a failed insertion): as many passes as there are items are enough, whatever
\* order the maps are in.
RefusesOnlyCircles ==
    /\ result = "circle" => lost # {} \/ \E S \in SUBSET Items : Circle(S)
    /\ result = "done" => \A S \in SUBSET Items : ~Circle(S)
=============================================================================
