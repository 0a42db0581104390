---- MODULE MCSchemaEvolution ----
(* A root of two members, "a" of every kind and shape and a number "z"     *)
(* after it, and every way to change "a", its type or what is around it.   *)
EXTENDS SchemaEvolution

Word(n) == WordOf(n)
Minus(n) == SignExt(<<256 - n>>)
K(b) == <<b>> \* a key, or another name, of one letter

Plain(name, key, kind) ==
    [name |-> name, key |-> K(key), kind |-> kind, type |-> "", shape |-> "one", size |-> 0,
     optional |-> FALSE, nullable |-> FALSE, default |-> <<>>, value |-> ""]
Typed(f, type) == [f EXCEPT !.type = type]
Array(f) == [f EXCEPT !.shape = "array"]
Fixed(f, n) == [f EXCEPT !.shape = "fixed", !.size = n]
Optional(f) == [f EXCEPT !.optional = TRUE]
Nullable(f) == [f EXCEPT !.nullable = TRUE]
Default(f, v) == [f EXCEPT !.default = v]
MapOf(kind, type) == [Plain("a", 97, "map") EXCEPT !.value = kind, !.type = type]
A(kind) == Plain("a", 97, kind)

Firsts == {A("int32"), Default(A("uint64"), Word(7)), Default(A("str"), K(100)), Optional(A("bool")),
           Nullable(A("double")), Typed(A("enum"), "E"), Typed(A("struct"), "S"), Optional(Typed(A("struct"), "S")),
           Typed(A("oneof"), "O"), Array(A("int32")), Fixed(A("str"), 2), Array(Typed(A("struct"), "S")),
           Fixed(Typed(A("oneof"), "O"), 1), Array(Typed(A("enum"), "E")), MapOf("int64", ""), MapOf("struct", "S"), MapOf("struct", "T"),
           Array(MapOf("int64", ""))}
Zed == Plain("z", 122, "int32")
SchemaWith(f) ==
    [structs |-> [root |-> <<f, Zed>>,
                  S |-> <<Plain("x", 120, "int32"), Default(Plain("s", 115, "str"), K(100))>>,
                  T |-> <<Plain("y", 121, "int64")>>],
     enums |-> [E |-> <<K(114), K(98)>>],
     oneofs |-> [O |-> [tag |-> K(116), variants |-> <<[name |-> K(49), type |-> "S"], [name |-> K(50), type |-> "T"]>>]],
     deprecated |-> {}]

(* Changes of "a" and around it. *)
Root2(s, fs) == [s EXCEPT !.structs.root = fs]
FieldEdits(s, f) ==
    {Root2(s, fs) : fs \in
        {<<f>>, <<Zed>>, <<Zed, f>>, <<f, Zed, Default(Plain("n", 110, "str"), K(100))>>, <<Optional(Plain("n", 110, "uint32")), f, Zed>>}}
    \cup {Root2(s, <<g, Zed>>) : g \in
            {[f EXCEPT !.name = "b"], [f EXCEPT !.key = K(98)], Optional(f), Nullable(f), Typed(A("struct"), "T"), A("str"),
             IF f.shape = "one" THEN Array(f) ELSE [f EXCEPT !.shape = "one", !.size = 0]}}
    \cup (IF f.shape = "fixed" THEN {Root2(s, <<Fixed(f, f.size + 1), Zed>>)} ELSE {})
    \cup (IF f.kind = "map" THEN {Root2(s, <<[f EXCEPT !.value = "str", !.type = ""], Zed>>)} ELSE {})
    \cup {[s EXCEPT !.deprecated = {<<"root", "a">>}]}
(* Changes of the types it may have. *)
EnumEdits(s) == {[s EXCEPT !.enums.E = e] : e \in {<<K(98), K(114)>>, <<K(114), K(103), K(98)>>, <<K(114)>>}}
OneofEdits(s) ==
    {[s EXCEPT !.oneofs.O = o] : o \in
        {[s.oneofs.O EXCEPT !.tag = K(117)], [s.oneofs.O EXCEPT !.variants[2].type = "S"],
         [s.oneofs.O EXCEPT !.variants = <<@[2], @[1]>>], [s.oneofs.O EXCEPT !.variants = <<@[1]>>],
         [s.oneofs.O EXCEPT !.variants = Append(@, [name |-> K(51), type |-> "T"])]}}
StructEdits(s) ==
    {[s EXCEPT !.structs.S = fs] : fs \in
        {<<s.structs.S[2]>>, <<s.structs.S[1]>>, Append(s.structs.S, Plain("y", 121, "bool")), <<Nullable(s.structs.S[1]), s.structs.S[2]>>, <<>>}}
    \cup {[s EXCEPT !.structs.T = fs] : fs \in {Append(s.structs.T, Default(Plain("w", 119, "int32"), Word(7))), <<>>}}
Uses(f, kind) == kind \in {f.kind, f.value}
Edits(f) ==
    LET s == SchemaWith(f)
    IN  {s} \cup FieldEdits(s, f)
            \cup (IF Uses(f, "enum") THEN EnumEdits(s) ELSE {})
            \cup (IF Uses(f, "oneof") THEN OneofEdits(s) \cup StructEdits(s) ELSE {})
            \cup (IF Uses(f, "struct") THEN StructEdits(s) ELSE {})
AllVersions == UNION {{[old |-> SchemaWith(f), new |-> s] : s \in Edits(f)} : f \in Firsts}
----
(* Two values of every kind; for a struct, two values of every member in turn. *)
RECURSIVE Low2(_, _), High2(_, _), Scalar(_, _, _, _)
Struct2(s, name, high) ==
    LET fs == s.structs[name]
    IN  [n \in Names(fs) |-> LET f == The(fs, n) IN
            [has |-> high /\ (f.optional \/ f.nullable), val |-> IF high THEN High2(s, f) ELSE Low2(s, f), set |-> TRUE]]
Scalar(s, kind, type, high) ==
    CASE kind \in {"int32", "int64"} -> IF high THEN Word(200) ELSE Minus(1)
      [] kind \in {"uint32", "uint64"} -> IF high THEN Word(70000) ELSE Word(1)
      [] kind = "bool" -> high
      [] kind = "double" -> <<"float", ZeroExt(IF high THEN <<64, 9>> ELSE <<>>)>>
      [] kind = "str" -> IF high THEN <<104, 105>> ELSE <<>>
      [] kind = "enum" -> Word(IF high THEN Len(s.enums[type]) - 1 ELSE 200)
      [] kind = "struct" -> Struct2(s, type, high)
      [] kind = "oneof" -> LET t == IF high THEN Len(s.oneofs[type].variants) - 1 ELSE 0
                           IN  [tag |-> t, obj |-> Struct2(s, s.oneofs[type].variants[t + 1].type, high)]
Value2(s, f, high) ==
    LET one(h) == IF f.kind # "map" THEN Scalar(s, f.kind, f.type, h)
                  ELSE [i \in 1..(IF h THEN 2 ELSE 1) |->
                           [key |-> <<96 + i>>, val |-> Scalar(s, f.value, f.type, i = 1), set |-> TRUE]]
    IN  CASE f.shape = "one" -> one(high)
          [] f.shape = "array" -> IF high THEN <<one(TRUE), one(FALSE)>> ELSE <<>>
          [] f.shape = "fixed" -> [i \in 1..f.size |-> one(high)]
High2(s, f) == Value2(s, f, TRUE)
Low2(s, f) == Value2(s, f, FALSE)
BothOf(s) == {Struct2(s, Root, high) : high \in BOOLEAN}
====
