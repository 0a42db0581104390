---- MODULE MCObjectMemory ----
(* Two objects of structs of two fields, of every kind of field. *)
EXTENDS ObjectMemory

Field(kind, nullable, default) == [kind |-> kind, nullable |-> nullable, default |-> default]
Struct(one, two) == [f \in {"one", "two"} |-> IF f = "one" THEN one ELSE two]

One(field) == [f \in {"one"} |-> field]
AllSchemas == {
    One(Field("structs", FALSE, FALSE)), One(Field("map", TRUE, FALSE)), One(Field("fixed", TRUE, FALSE)),
    One(Field("oneofs", FALSE, FALSE)), One(Field("structmap", TRUE, FALSE)), One(Field("maps", FALSE, FALSE)),
    Struct(Field("string", FALSE, TRUE), Field("oneof", FALSE, FALSE)),
    Struct(Field("struct", TRUE, FALSE), Field("oneof", FALSE, FALSE)),
    One(Field("strings", FALSE, FALSE))}

Symmetry == Permutations(Objects)
====
