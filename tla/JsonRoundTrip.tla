---- MODULE JsonRoundTrip ----
(***************************************************************************)
(* The generated parser reads what the generated writer wrote: JsonMarshal *)
(* followed by JsonUnmarshal on its output, both for one schema.  Values   *)
(* are the tokens of JsonTokens.  The parser's model keeps no values, so   *)
(* this says what is accepted and where it ends, not what is stored.       *)
(***************************************************************************)
EXTENDS JsonMarshal

CONSTANTS StructTypes, \* struct name -> its fields; what is written of others is not read
          OneofTypes,  \* oneof name -> its variants
          MaxDepth

VARIABLES stack, ret, ahead, left, goal
parser == <<stack, ret, ahead, left, goal>>

(* The parser's view of a field: how its elements occur, and of what type. *)
NamesFor(types, x) == {n \in DOMAIN types : types[n] = x}
NamedFor(types, x) == CHOOSE n \in NamesFor(types, x) : TRUE
RowFor(f) ==
    [k |-> CASE f.kind \in Maps -> f.kind
             [] f.kind \in {"scalars", "enums", "structs", "oneofs"} -> "array"
             [] OTHER -> "one",
     elt |-> CASE f.kind \in {"enum", "enums"} -> "enum"
               [] f.kind \in {"oneof", "oneofs"} -> NamedFor(OneofTypes, f.variants)
               [] f.fields # <<>> -> NamedFor(StructTypes, f.fields)
               [] OTHER -> "int",
     null |-> f.nullable]
RowsFor(fields) ==
    [key \in {fields[i].name : i \in DOMAIN fields} |->
        RowFor(fields[CHOOSE i \in DOMAIN fields : fields[i].name = key])]
ParserSchema == [n \in DOMAIN StructTypes |-> RowsFor(StructTypes[n])]
VariantsOf(variants) ==
    [name \in {variants[j].name : j \in DOMAIN variants} |->
        NamedFor(StructTypes, variants[CHOOSE j \in DOMAIN variants : variants[j].name = name].fields)]
ParserVariants == [o \in DOMAIN OneofTypes |-> VariantsOf(OneofTypes[o])]

FieldNames == UNION {DOMAIN ParserSchema[n] : n \in DOMAIN StructTypes}
Tokens == {"{", "}", "[", "]", ":", ",", "int", "red", "null", "key", "type", "empty"}
            \cup FieldNames \cup UNION {DOMAIN ParserVariants[o] : o \in DOMAIN OneofTypes}

Parser == INSTANCE JsonUnmarshal WITH
    Schema <- ParserSchema, Variants <- ParserVariants, TagKey <- "type",
    LenKey <- [key \in FieldNames |-> "len"], FixedSize <- 0, Stray <- "stray",
    Mask <- <<>>, Documents <- {[tokens |-> Tokens]}, MaxTokens <- 0
----
RoundTripInit == Init /\ stack = <<>> /\ ret = <<>> /\ ahead = <<>> /\ left = 0 /\ goal = <<>>

Write == Next /\ UNCHANGED parser

(* The whole output is there from the start, behind the parser's cursor.   *)
Read ==
    /\ Ended /\ stack = <<>> /\ ret = <<>>
    /\ \E n \in NamesFor(StructTypes, record.fields) : stack' = <<Parser!Frame("struct", n, 0)>>
    /\ ahead' = Written
    /\ goal' = Parser!Document("tokens", "", Tokens)
    /\ UNCHANGED <<vars, ret, left>>

Parse == stack # <<>> /\ Parser!Next /\ UNCHANGED vars

RoundTripNext == Write \/ Read \/ Parse
RoundTrip == RoundTripInit /\ [][RoundTripNext]_<<vars, parser>>
----
(* The generated parser accepts what the generated writer wrote, the two   *)
(* commas in a row after a map included, and reads it to its end; it       *)
(* refuses exactly a oneof whose tag is none of its variants, written with *)
(* an empty discriminator, and an indented one with a comma before its     *)
(* closing brace.                                                          *)
ReadsBack ==
    Ended /\ stack = <<>> /\ ret # <<>> =>
        IF NoVariant \/ (indent /\ BareVariant) THEN ret[1] # 0 ELSE ret[1] = 0 /\ ahead = <<>>
====
