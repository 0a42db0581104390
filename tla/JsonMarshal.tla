---- MODULE JsonMarshal ----
(***************************************************************************)
(* The JSON writer gencode.c generates for a struct, json_marshal_indent_T *)
(* and json_marshal_array_indent_T, and for a oneof.  Output is a sequence *)
(* of tokens; "ws" stands for the line ends and the indentation that only  *)
(* appear when indent is not 0 (where an object begins is left out).       *)
(*                                                                         *)
(* A struct's fields are a sequence of [name, kind, optional, nullable,    *)
(* fields, variants]; an object is the sequence of their [has, value], the *)
(* value being a record with the kind as its one field.  A scalar's value  *)
(* is its token, an array's or a map's the sequence of its elements, a     *)
(* nested struct's its object, and a oneof's its tag (0 when out of range) *)
(* and the variant's object.                                               *)
(***************************************************************************)
EXTENDS Naturals, Sequences, SequencesExt

CONSTANTS Schemas,     \* the structs to write: sequences of fields
          ObjectsOf(_) \* the objects of a struct

ASSUME MarshalInputs == \A fs \in Schemas : \A o \in ObjectsOf(fs) : DOMAIN o = DOMAIN fs

VARIABLES record,  \* the struct and the object being written
          indent,  \* whether the output is indented
          out,     \* what was written
          k,       \* the next field
          first    \* the generated code's _first
vars == <<record, indent, out, k, first>>

Ws(in) == IF in THEN <<"ws">> ELSE <<>>
Maps == {"map", "maps"}

(* With an optional or nullable field the comma is decided at run time,    *)
(* otherwise when the code is generated.                                   *)
HasOptional(fields) == \E i \in DOMAIN fields : fields[i].optional \/ fields[i].nullable
LastField(fields, i) == i = Len(fields)
Key(f) == <<f.name, ":">>

Opening(fields, in) == <<"{">> \o IF HasOptional(fields) THEN <<>> ELSE Ws(in)
Closing(fields, in) == (IF HasOptional(fields) THEN Ws(in) ELSE <<>>) \o Ws(in) \o <<"}">>

(* Mutant: the comma goes by the field's place, not by what was written. *)
BeforeByPlace(fields, i, isFirst, in) ==
    (IF i = 1 THEN <<>> ELSE <<",">>) \o Ws(in) \o Key(fields[i])
Before(fields, i, isFirst, in) ==
    IF HasOptional(fields) THEN (IF isFirst THEN <<>> ELSE <<",">>) \o Ws(in) \o Key(fields[i])
    ELSE IF i = 1 THEN Ws(in) \o Key(fields[i])
    ELSE <<",">> \o Ws(in) \o Key(fields[i])

(* A map field writes the comma for the field after it. *)
After(fields, i, in) ==
    IF HasOptional(fields) THEN <<>>
    ELSE IF fields[i].kind \in Maps THEN (IF LastField(fields, i) THEN <<>> ELSE <<",">>) \o Ws(in)
    ELSE IF LastField(fields, i) THEN Ws(in) ELSE <<>>

(* Elements with their separators, each on a line of its own. *)
Listed(open, texts, close, in) ==
    LET item(i) == texts[i] \o (IF i < Len(texts) THEN <<",">> ELSE <<>>) \o Ws(in)
    IN  <<open>> \o Ws(in) \o FlattenSeq([i \in DOMAIN texts |-> item(i)]) \o Ws(in) \o <<close>>

(* An enum in range is written as a string, else as its number. *)
EnumText(v) == IF v.known THEN <<v.name>> ELSE <<v.number>>

(* The variant's text without the braces around it. *)
Between(text) ==
    LET from == CHOOSE i \in DOMAIN text : text[i] = "{" /\ \A j \in 1..(i - 1) : text[j] # "{"
        to == CHOOSE i \in DOMAIN text : text[i] = "}" /\ \A j \in (i + 1)..Len(text) : text[j] # "}"
    IN  SubSeq(text, from + 1, to - 1)

RECURSIVE Struct(_, _, _), Value(_, _, _)

(* What one field appends, and _first after it. *)
Step(fields, obj, i, s, in) ==
    LET f == fields[i]
        v == obj[i]
    IN  IF f.optional /\ ~v.has THEN s
        ELSE [out |-> s.out \o Before(fields, i, s.first, in)
                        \o (IF f.nullable /\ ~f.optional /\ ~v.has THEN <<"null">>
                            ELSE Value(f, v.value, in))
                        \o After(fields, i, in),
              first |-> FALSE]

Struct(fields, obj, in) ==
    LET s[i \in 0..Len(fields)] == IF i = 0 THEN [out |-> Opening(fields, in), first |-> TRUE]
                                   ELSE Step(fields, obj, i, s[i - 1], in)
    IN  s[Len(fields)].out \o Closing(fields, in)

(* Mutant: the comma after the tag does not depend on what follows. *)
OneofComma(f, v, in) ==
    LET text == IF v.tag = 0 THEN <<>> ELSE Between(Struct(f.variants[v.tag].fields, v.obj, in))
    IN  <<"{">> \o <<"type", ":", IF v.tag = 0 THEN "empty" ELSE f.variants[v.tag].name, ",">>
        \o text \o <<"}">>
Oneof(f, v, in) ==
    LET text == IF v.tag = 0 THEN <<>> ELSE Between(Struct(f.variants[v.tag].fields, v.obj, in))
    IN  <<"{">> \o Ws(in) \o Ws(in)
        \o <<"type", ":", IF v.tag = 0 THEN "empty" ELSE f.variants[v.tag].name>>
        \o (IF text = <<>> THEN <<>> ELSE <<",">> \o text) \o Ws(in) \o Ws(in) \o <<"}">>

(* A map's value: of a struct type when the field has fields. *)
EntryValue(f, v, in) == IF f.fields = <<>> THEN <<v>> ELSE Struct(f.fields, v, in)
Entries(f, v, in) ==
    LET text(e) == Ws(in) \o <<e.key, ":">> \o EntryValue(f, e.value, in)
    IN  Listed("{", [i \in DOMAIN v |-> text(v[i])], "}", in)
Scalars(v, in) == Listed("[", [i \in DOMAIN v |-> Ws(in) \o <<v[i]>>], "]", in)
Enums(v, in) == Listed("[", [i \in DOMAIN v |-> Ws(in) \o EnumText(v[i])], "]", in)
Structs(f, v, in) == Listed("[", [i \in DOMAIN v |-> Ws(in) \o Struct(f.fields, v[i], in)], "]", in)
Oneofs(f, v, in) == Listed("[", [i \in DOMAIN v |-> Ws(in) \o Oneof(f, v[i], in)], "]", in)

Value(f, value, in) ==
    LET v == value[f.kind]
    IN
    CASE f.kind = "scalar" -> <<v>>
      [] f.kind = "enum" -> EnumText(v)
      [] f.kind = "struct" -> Struct(f.fields, v, in)
      [] f.kind = "oneof" -> Oneof(f, v, in)
      [] f.kind = "map" -> Entries(f, v, in)
      [] f.kind = "maps" -> Listed("[", [i \in DOMAIN v |-> Ws(in) \o Entries(f, v[i], in)], "]", in)
      [] f.kind = "scalars" -> Scalars(v, in)
      [] f.kind = "enums" -> Enums(v, in)
      [] f.kind = "structs" -> Structs(f, v, in)
      [] f.kind = "oneofs" -> Oneofs(f, v, in)
----
Init ==
    /\ indent \in BOOLEAN
    /\ \E fs \in Schemas : \E o \in ObjectsOf(fs) : record = [fields |-> fs, obj |-> o]
    /\ out = <<>> /\ k = 0 /\ first = TRUE

Open ==
    /\ k = 0
    /\ out' = Opening(record.fields, indent)
    /\ k' = 1
    /\ UNCHANGED <<record, indent, first>>

Field ==
    /\ k \in DOMAIN record.fields
    /\ LET s == Step(record.fields, record.obj, k, [out |-> out, first |-> first], indent)
       IN  out' = s.out /\ first' = s.first
    /\ k' = k + 1
    /\ UNCHANGED <<record, indent>>

Close ==
    /\ k = Len(record.fields) + 1
    /\ out' = out \o Closing(record.fields, indent)
    /\ k' = k + 1
    /\ UNCHANGED <<record, indent, first>>

Next == Open \/ Field \/ Close
Spec == Init /\ [][Next]_vars
----
(* What the output should be: the JSON text of the object, without white   *)
(* space.                                                                  *)
Joined(texts) == FlattenSeq([i \in DOMAIN texts |->
                     texts[i] \o IF i < Len(texts) THEN <<",">> ELSE <<>>])
Braced(texts) == <<"{">> \o Joined(texts) \o <<"}">>
Bracketed(texts) == <<"[">> \o Joined(texts) \o <<"]">>

RECURSIVE JsonOf(_, _)
Present(fields, obj) == SelectSeq([i \in DOMAIN fields |-> i],
                                  LAMBDA i : ~fields[i].optional \/ obj[i].has)
Members(fields, obj) ==
    LET ks == Present(fields, obj)
        member(i) == <<fields[i].name, ":">> \o IF fields[i].nullable /\ ~obj[i].has THEN <<"null">>
                                                ELSE JsonOf(fields[i], obj[i].value)
    IN  [j \in DOMAIN ks |-> member(ks[j])]
OneofMembers(f, v) ==
    IF v.tag = 0 THEN <<<<"type", ":", "empty">>>>
    ELSE <<<<"type", ":", f.variants[v.tag].name>>>> \o Members(f.variants[v.tag].fields, v.obj)
EntryMembers(f, v) ==
    LET value(e) == IF f.fields = <<>> THEN <<e.value>> ELSE Braced(Members(f.fields, e.value))
    IN  [i \in DOMAIN v |-> <<v[i].key, ":">> \o value(v[i])]

JsonOf(f, value) ==
    LET v == value[f.kind]
    IN
    CASE f.kind = "scalar" -> <<v>>
      [] f.kind = "enum" -> EnumText(v)
      [] f.kind = "struct" -> Braced(Members(f.fields, v))
      [] f.kind = "oneof" -> Braced(OneofMembers(f, v))
      [] f.kind = "map" -> Braced(EntryMembers(f, v))
      [] f.kind = "maps" -> Bracketed([i \in DOMAIN v |-> Braced(EntryMembers(f, v[i]))])
      [] f.kind = "scalars" -> Bracketed([i \in DOMAIN v |-> <<v[i]>>])
      [] f.kind = "enums" -> Bracketed([i \in DOMAIN v |-> EnumText(v[i])])
      [] f.kind = "structs" -> Bracketed([i \in DOMAIN v |-> Braced(Members(f.fields, v[i]))])
      [] f.kind = "oneofs" -> Bracketed([i \in DOMAIN v |-> Braced(OneofMembers(f, v[i]))])

Expected == Braced(Members(record.fields, record.obj))
Written == SelectSeq(out, LAMBDA t : t # "ws")
Ended == k = Len(record.fields) + 2

(* The two places where the generated code writes a comma too many: after  *)
(* a map that is followed by a field, when no field is optional, and, when *)
(* indenting, after the tag of a oneof none of whose variant's fields is   *)
(* present.                                                                *)
RECURSIVE MapThenField(_), OneofsIn(_, _)
MapThenField(fields) ==
    \/ ~HasOptional(fields) /\ \E i \in DOMAIN fields : fields[i].kind \in Maps /\ ~LastField(fields, i)
    \/ \E i \in DOMAIN fields :
          \/ MapThenField(fields[i].fields)
          \/ \E j \in DOMAIN fields[i].variants : MapThenField(fields[i].variants[j].fields)

(* The oneofs written for an object, with their fields.                    *)
OneofsAt(f, v) == {<<f, v>>} \cup IF v.tag = 0 THEN {} ELSE OneofsIn(f.variants[v.tag].fields, v.obj)
OneofsOf(f, v) ==
    CASE f.kind = "oneof" -> OneofsAt(f, v)
      [] f.kind = "oneofs" -> UNION {OneofsAt(f, v[j]) : j \in DOMAIN v}
      [] f.kind = "struct" -> OneofsIn(f.fields, v)
      [] f.kind = "structs" -> UNION {OneofsIn(f.fields, v[j]) : j \in DOMAIN v}
      [] f.kind = "map" /\ f.fields # <<>> -> UNION {OneofsIn(f.fields, v[j].value) : j \in DOMAIN v}
      [] OTHER -> {}
OneofsIn(fields, obj) ==
    UNION {OneofsOf(fields[i], obj[i].value[fields[i].kind]) :
             i \in {j \in DOMAIN fields : obj[j].has \/ ~(fields[j].optional \/ fields[j].nullable)}}

Bare(f, v) == v.tag # 0 /\ Members(f.variants[v.tag].fields, v.obj) = <<>>
BareVariant == \E x \in OneofsIn(record.fields, record.obj) : Bare(x[1], x[2])
NoVariant == \E x \in OneofsIn(record.fields, record.obj) : x[2].tag = 0

(* Whichever optional and nullable fields are present, indented or not,    *)
(* the output is the JSON text of the object, but for the two places.      *)
WritesJson ==
    Ended /\ ~MapThenField(record.fields) /\ ~(indent /\ BareVariant) => Written = Expected
====
