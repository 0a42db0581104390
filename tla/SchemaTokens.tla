---------------------------- MODULE SchemaTokens ----------------------------
(***************************************************************************)
(* The tokens of a schema file, as struct_parse.c tells them apart.        *)
(*                                                                         *)
(* A quoted or bracketed text is one TOKEN_STRING; what it means depends   *)
(* on where it stands.  Strings says, for each one used, which file it     *)
(* names as an include (dots is the number of "./" before it) and, as the  *)
(* parameters of a map, which value type it gives ("" when it is not       *)
(* "sstr_t, <type>").                                                      *)
(***************************************************************************)
EXTENDS Integers, Sequences

CONSTANTS Names,    \* identifiers without a meaning of their own
          Strings   \* string token -> [file, dots, value]

Primitive == {"int", "bool"}
Modifier == {"optional", "nullable"}
Word == Names \cup Primitive \cup Modifier
        \cup {"struct", "enum", "oneof", "include", "json", "deprecated", "tag", "map"}
String == DOMAIN Strings
Positive == {"3"}
Integer == Positive \cup {"0"}
Literal == Integer \cup {"1.5"} \cup Word \cup String
Separator == {";", ","}
Sign == Separator \cup {"{", "}", "[", "]", "#", "@", "="}

\* "error" is TOKEN_ERROR: an unclosed string or a character of no token.
Token == Word \cup String \cup Literal \cup Sign \cup {"error", "eof"}

Kind == {"struct", "enum", "oneof"}

TokensAssumption ==
    /\ \A s \in String : /\ Strings[s].dots \in Nat
                         /\ Strings[s].value \in Word \cup {""}
    /\ String \cap Word = {}
    /\ (Word \cup String) \cap (Sign \cup {"error", "eof"}) = {}
=============================================================================
