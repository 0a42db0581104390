---- MODULE MCJsonMarshal ----
(* Structs of up to three fields of every kind, with every presence of     *)
(* their optional and nullable fields and collections of up to two.        *)
EXTENDS JsonRoundTrip

Plain(name, kind) == [name |-> name, kind |-> kind, optional |-> FALSE, nullable |-> FALSE,
                      fields |-> <<>>, variants |-> <<>>]
Inner == <<[Plain("x", "scalar") EXCEPT !.optional = TRUE], [Plain("y", "scalar") EXCEPT !.optional = TRUE]>>
Mapped == <<Plain("m", "map"), Plain("y", "scalar")>>
Variants == <<[name |-> "one", fields |-> Inner], [name |-> "two", fields |-> <<Plain("z", "scalar")>>],
              [name |-> "none", fields |-> <<>>]>>

Collections == {"scalars", "enums", "map", "maps", "structs", "oneofs"}
Kinds == {"scalar", "enum", "struct", "oneof"} \cup Collections
Leaf(b) == [has |-> b, value |-> [scalar |-> "int"]]
InnerObjs == {<<Leaf(b), Leaf(c)>> : b, c \in BOOLEAN}
EnumValues == {[known |-> b, name |-> "red", number |-> "int"] : b \in BOOLEAN}
OneofValues == [tag : {1}, obj : InnerObjs] \cup {[tag |-> 2, obj |-> <<Leaf(TRUE)>>],
                [tag |-> 3, obj |-> <<>>], [tag |-> 0, obj |-> <<>>]}
Upto(S, n) == UNION {[1..i -> S] : i \in 0..n}
MapValues == Upto({[key |-> "key", value |-> "v"]}, 2)
StructMaps == Upto([key : {"key"}, value : InnerObjs], 1)

Values(kind) ==
    CASE kind = "scalar" -> {"int"} [] kind = "enum" -> EnumValues [] kind = "struct" -> InnerObjs
      [] kind = "oneof" -> OneofValues [] kind = "scalars" -> Upto({"int"}, 2)
      [] kind = "enums" -> Upto(EnumValues, 1) [] kind = "map" -> MapValues
      [] kind = "maps" -> Upto(MapValues, 2) [] kind = "structs" -> Upto(InnerObjs, 1)
      [] kind = "oneofs" -> Upto(OneofValues, 1)

Fields(name) ==
    LET of(kind, o, n) == [Plain(name, kind) EXCEPT !.optional = o, !.nullable = n, !.variants = Variants,
                              !.fields = IF kind \in {"struct", "structs"} \/ (kind = "map" /\ o) THEN Inner ELSE <<>>]
    IN  {of(kind, FALSE, FALSE) : kind \in Kinds}
        \cup {of(kind, o, ~o) : kind \in {"scalar", "map", "oneof"}, o \in BOOLEAN}
Member(f) == {[has |-> b, value |-> [x \in {f.kind} |-> v]] : b \in IF f.optional \/ f.nullable THEN BOOLEAN ELSE {TRUE},
                                         v \in IF f.kind = "map" /\ f.fields # <<>> THEN StructMaps ELSE Values(f.kind)}

AllObjects(fs) ==
    CASE fs = <<>> -> {<<>>}
      [] Len(fs) = 1 -> {<<a>> : a \in Member(fs[1])}
      [] Len(fs) = 2 -> {<<a, b>> : a \in Member(fs[1]), b \in Member(fs[2])}
      [] Len(fs) = 3 -> {<<a, b, c>> : a \in Member(fs[1]), b \in Member(fs[2]), c \in Member(fs[3])}
Pairs == {<<f, g>> : f \in Fields("a"), g \in Fields("b")}
Threes == {<<f, g, h>> : f, g \in {e \in Fields("a") : e.kind \in {"scalar", "map"}},
                         h \in {e \in Fields("c") : e.kind \in {"scalar", "struct"}}}
AllSchemas == {<<>>} \cup {<<f>> : f \in Fields("a")} \cup Pairs \cup Threes
----
(* A name for every struct, and for the oneof.                             *)
NameOf(fs) ==
    LET flag(b, s) == IF b THEN s ELSE ""
        text(f) == f.name \o ":" \o f.kind \o flag(f.optional, "?") \o flag(f.nullable, "!")
                          \o flag(f.fields # <<>>, " of struct")
    IN  FoldLeft(LAMBDA s, f : s \o " " \o text(f), "struct", fs)
Few == {<<>>} \cup {<<f>> : f \in Fields("a")}
              \cup {<<f, g>> : f \in Fields("a"), g \in {e \in Fields("b") : e.kind \in {"scalar", "map"} /\ ~e.nullable}}
Every == Few \cup {Inner} \cup {Variants[j].fields : j \in DOMAIN Variants}
AllStructs == FoldSet(LAMBDA fs, names : (NameOf(fs) :> fs) @@ names, <<>>, Every)
AllOneofs == [O |-> Variants]
====
