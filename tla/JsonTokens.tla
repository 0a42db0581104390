----------------------------- MODULE JsonTokens -----------------------------
(***************************************************************************)
(* The vocabulary shared by the generated JSON parser and the documents it *)
(* is given: the schema a parser was generated from, with the index of     *)
(* JSON keys made of it, the tokens of the lexer with the numbers          *)
(* codes/json_parse.h gives them, and what each scalar parser answers to a *)
(* token.                                                                  *)
(***************************************************************************)
EXTENDS Integers

CONSTANTS
    Schema,     \* struct name -> (JSON key -> field type)
    Variants,   \* oneof name -> (value of the discriminator -> struct name)
    LenKey,     \* JSON key of an array -> that of the row for its length, <key>_len
    TagKey      \* the discriminator's key, "type" unless @tag changes it

(***************************************************************************)
(* A field type is a record [k, elt, null]: k says how elements occur (one *)
(* value, a dynamic array, a fixed-size array, a map, an array of maps),   *)
(* elt names the element type: a scalar, a struct or a oneof.              *)
(***************************************************************************)
Scalar == {"int", "float", "str", "enum"}
Header == ""        \* the key of a struct's own row
NoStruct == ""      \* the type that row names, which has no rows
Lengths(s) == {LenKey[k] : k \in {j \in DOMAIN Schema[s] : Schema[s][j].k \in {"array", "maps"}}}

ASSUME SchemaAssumption ==
    /\ \A s \in DOMAIN Schema : \A k \in DOMAIN Schema[s] :
         LET f == Schema[s][k] IN
           /\ f.k \in {"one", "array", "fixed", "map", "maps"}
           /\ f.null \in BOOLEAN
           /\ f.elt \in Scalar \cup DOMAIN Schema \cup DOMAIN Variants
           /\ f.k \in {"map", "maps"} => f.elt \notin DOMAIN Variants
           /\ f.k \in {"array", "maps"} => k \in DOMAIN LenKey
    /\ \A s \in DOMAIN Schema : DOMAIN Schema[s] \cap ({Header} \cup Lengths(s)) = {}
    /\ NoStruct \notin DOMAIN Schema \cup DOMAIN Variants
    /\ \A o \in DOMAIN Variants : \A v \in DOMAIN Variants[o] :
         Variants[o][v] \in DOMAIN Schema
    /\ DOMAIN Schema \cap DOMAIN Variants = {}
    /\ Scalar \cap (DOMAIN Schema \cup DOMAIN Variants) = {}

(***************************************************************************)
(* What a key of a struct is found as (json_field_offset_item_find_ph):    *)
(* the generated index has a row for each member, and two kinds of row     *)
(* that are no members.  The struct's own has an empty key and is a struct *)
(* without a name, so that each of its members is unknown; and the length  *)
(* of an array without a fixed size is an int.  (That the first row of the *)
(* name is found is LookupExact of FieldIndex; no two have one name here.) *)
(***************************************************************************)
Row(k, elt) == [k |-> k, elt |-> elt, null |-> FALSE]
RowOf(s, key) ==
    IF key \in DOMAIN Schema[s] THEN Schema[s][key]
    ELSE IF key = Header THEN Row("one", NoStruct) ELSE Row("one", "int")
Keys(s) == IF s = NoStruct THEN {} ELSE DOMAIN Schema[s] \cup {Header} \cup Lengths(s)

Index == [s \in DOMAIN Schema \cup {NoStruct} |-> [key \in Keys(s) |-> RowOf(s, key)]]

IsStruct(elt) == elt \in DOMAIN Index
IsOneof(elt) == elt \in DOMAIN Variants

(***************************************************************************)
(* Tokens other than strings.  "word" is an unknown bare word: the lexer   *)
(* skips it and reports JSON_ERROR.  "stuck" is input it reports as an     *)
(* error without moving: a stray character, or a string it cannot read.    *)
(* "big" is an integer literal outside the range of the field's C type.    *)
(* Every other token is a string and stands for its own contents.          *)
(***************************************************************************)
Literal == {"int", "big", "float", "true", "null"}
Punct == {"{", "}", "[", "]", ":", ","}
LexError == {"word", "stuck"}
IsString(t) == t \notin Literal \cup Punct \cup LexError \cup {"eof"}

\* enum json_token and the characters that are their own codes.
Code(t) ==
    CASE t = "eof" -> 0
      [] t \in LexError -> -1
      [] t \in {"int", "big"} -> 2
      [] t = "float" -> 3
      [] t = "true" -> 4
      [] t = "null" -> 6
      [] t = "," -> 44
      [] t = ":" -> 58
      [] t = "[" -> 91
      [] t = "]" -> 93
      [] t = "{" -> 123
      [] t = "}" -> 125
      [] OTHER -> 1

Enumerator == "red"     \* the one string the modelled enum knows

\* json_unmarshal_scalar_<type>: 0, JSON_ERROR, or the offending token's code.
ScalarCode(elt, t) ==
    IF \/ elt = "int" /\ t \in {"int", "true"}
       \/ elt = "float" /\ t \in {"int", "big", "float"}
       \/ elt = "str" /\ (IsString(t) \/ t = "null")
       \/ elt = "enum" /\ t \in {"int", Enumerator}
      THEN 0
    ELSE IF (elt \in {"int", "enum"} /\ t = "big") \/ (elt = "enum" /\ IsString(t))
      THEN -1
    ELSE Code(t)
=============================================================================
