---------------------------- MODULE JsonDocument ----------------------------
(***************************************************************************)
(* The documents handed to the parser, as a pushdown generator: a goal is  *)
(* a sequence of grammar symbols still to be produced, and Expand gives    *)
(* what a symbol leaves behind when the document continues with token t.   *)
(* "val any" generates every JSON value; "val one S" only the values that  *)
(* match struct S of the schema, plus members its index has no row for.    *)
(* Nothing here looks at the parser: it is the reference it is held to.    *)
(***************************************************************************)
EXTENDS JsonTokens, Sequences

CONSTANTS
    FixedSize,  \* elements of a fixed-size array field
    Stray       \* a key no struct has a row for

\* "any" names no type. The values of a discriminator are strings, and the struct of a
\* variant has no member of the discriminator's name: its parser is to skip it.
ASSUME DocumentAssumption ==
    /\ "any" \notin DOMAIN Schema \cup DOMAIN Variants
    /\ IsString(TagKey) /\ IsString(Stray) /\ Stray # TagKey
    /\ \A s \in DOMAIN Index : Stray \notin DOMAIN Index[s]
    /\ \A o \in DOMAIN Variants : \A v \in DOMAIN Variants[o] :
         IsString(v) /\ TagKey \notin DOMAIN Index[Variants[o][v]]

Sym(s, c, e) == <<s, c, e>>
Tok(t) == Sym("tok", "", t)

\* The members of an object: of struct e, of a map to e, or anything.
MemberValue(c, e, key) ==
    IF c = "map" THEN Sym("val", "one", e)
    ELSE IF c = "struct" /\ key \in DOMAIN Index[e]
      THEN LET f == Index[e][key]
           IN  Sym(IF f.null THEN "nullable" ELSE "val", f.k, f.elt)
    ELSE Sym("val", "any", "any")

Member(c, e, key) == <<Tok(":"), MemberValue(c, e, key), Sym("more", c, e)>>

\* A oneof object, its discriminator first or behind a member to be skipped.
Tagged(o, v) ==
    LET tagged == <<Tok(TagKey), Tok(":"), Tok(v), Sym("more", "struct", Variants[o][v])>>
    IN  {tagged, <<Tok(Stray), Tok(":"), Sym("val", "any", "any"), Tok(",")>> \o tagged}

\* n elements between brackets, the opening one already produced.
FixedArray(e, n) ==
    [i \in 1..2 * n |-> IF i % 2 = 1 THEN Sym("val", "one", e)
                        ELSE Tok(IF i = 2 * n THEN "]" ELSE ",")]

OneValue(e, t) ==
    IF e \in Scalar THEN IF ScalarCode(e, t) = 0 THEN {<<>>} ELSE {}
    ELSE IF e = "any" THEN
      IF t \in Literal \/ IsString(t) THEN {<<>>}
      ELSE IF t = "{" THEN {<<Sym("open", "any", e)>>}
      ELSE IF t = "[" THEN {<<Sym("first", "any", e)>>}
      ELSE {}
    ELSE IF t # "{" THEN {}
    ELSE IF IsStruct(e) THEN {<<Sym("open", "struct", e)>>}
    ELSE UNION {Tagged(e, v) : v \in DOMAIN Variants[e]}

Value(k, e, t) ==
    CASE k \in {"one", "any"} -> OneValue(e, t)
      [] k = "map" -> IF t = "{" THEN {<<Sym("open", "map", e)>>} ELSE {}
      [] k = "array" -> IF t = "[" THEN {<<Sym("first", "one", e)>>} ELSE {}
      [] k = "maps" -> IF t = "[" THEN {<<Sym("first", "map", e)>>} ELSE {}
      [] k = "fixed" ->
           IF t = "[" THEN {<<Tok("]")>>} \cup {FixedArray(e, n) : n \in 1..FixedSize}
           ELSE {}

Expand(sym, t) ==
    LET c == sym[2]
        e == sym[3]
    IN CASE sym[1] = "tok" -> IF t = e THEN {<<>>} ELSE {}
         [] sym[1] = "val" -> Value(c, e, t)
         [] sym[1] = "anything" -> {<<sym>>}
         [] sym[1] \in {"cut", "end"} -> {}
         [] sym[1] = "nullable" -> Value(c, e, t) \cup (IF t = "null" THEN {<<>>} ELSE {})
         [] sym[1] = "open" ->
              IF t = "}" THEN {<<>>} ELSE IF IsString(t) THEN {Member(c, e, t)} ELSE {}
         [] sym[1] = "more" ->
              IF t = "}" THEN {<<>>}
              ELSE IF t = "," THEN {<<Sym("key", c, e)>>} ELSE {}
         [] sym[1] = "key" -> IF IsString(t) THEN {Member(c, e, t)} ELSE {}
         [] sym[1] = "first" ->
              IF t = "]" THEN {<<>>}
              ELSE {s \o <<Sym("rest", c, e)>> : s \in Value(c, e, t)}
         [] sym[1] = "rest" ->
              IF t = "]" THEN {<<>>}
              ELSE IF t = "," THEN {<<Sym("val", c, e), Sym("rest", c, e)>>} ELSE {}

\* The goal a document starts from.  "typed" documents fit the struct, "deep" ones
\* too but may be nested deeper than the parser goes, "json" ones are any value,
\* "tokens" any sequence of tokens.  The form and the tokens stay behind at the end.
Document(form, root, tokens) ==
    <<CASE form \in {"typed", "deep"} -> Sym("val", "one", root)
        [] form = "json" -> Sym("val", "any", "any")
        [] OTHER -> Sym("anything", "", ""),
      Sym("end", form, tokens)>>

\* What is left of a goal when the document ends.
Cut == Sym("cut", "", "")
CutShort(g) == IF Len(g) = 1 THEN g ELSE <<Cut, g[Len(g)]>>
IsCutShort(g) == Head(g) = Cut
=============================================================================
