---------------------------- MODULE SchemaGrammar ---------------------------
(***************************************************************************)
(* What a schema file may look like, independently of the parser: the      *)
(* grammar as the transitions of an automaton, with what each definition   *)
(* declares collected on the way.  The model of the parser runs it beside  *)
(* the code, token by token, so that "the file was legal" and "this is     *)
(* what it declares" do not depend on what the parser did.                 *)
(***************************************************************************)
EXTENDS SchemaTokens

Type == Word \ (Modifier \cup {"struct", "map"})
MapText == {s \in String : Strings[s].value # ""}

\* Where a token t leads from state s; the names of states say what has been read.
Goes(s, t) ==
    CASE s = "top" /\ t \in Separator -> "top"
      [] s = "top" /\ t \in Kind \cup {"#"} -> t
      [] s = "#" /\ t = "include" -> "include"
      [] s = "include" /\ t \in String -> "top"
      [] s = "struct" /\ t \in Word -> "struct name"
      [] s = "struct name" /\ t = "{" -> "fields"
      [] s = "fields" /\ t = ";" -> "fields"
      [] s = "fields" /\ t = "}" -> "top"
      [] s \in {"fields", "noted"} /\ t = "@" -> "field @"
      [] s = "field @" /\ t = "json" -> "alias"
      [] s = "field @" /\ t = "deprecated" -> "noted"
      [] s = "alias" /\ t \in String -> "noted"
      [] s \in {"fields", "noted", "modified"} /\ t \in Modifier -> "modified"
      [] s \in {"fields", "noted", "modified"} /\ t = "map" -> "map"
      [] s \in {"fields", "noted", "modified"} /\ t \in Type -> "type"
      [] s = "map" /\ t \in MapText -> "type"
      [] s = "type" /\ t \in Word -> "field"
      [] s = "field" /\ t \in {"[", "="} -> t
      [] s = "[" /\ t \in Positive -> "size"
      [] s = "[" /\ t = "]" -> "array"
      [] s = "size" /\ t = "]" -> "array"
      [] s = "=" /\ t \in Literal -> "default"
      [] s \in {"field", "array", "default"} /\ t = ";" -> "fields"
      [] s = "enum" /\ t \in Word -> "enum name"
      [] s = "enum name" /\ t = "{" -> "values"
      [] s = "values" /\ t = "@" -> "value @"
      [] s = "value @" /\ t = "deprecated" -> "old value"
      [] s \in {"values", "old value"} /\ t \in Word -> "value"
      [] s \in {"values", "value"} /\ t \in Separator -> "values"
      [] s \in {"values", "value"} /\ t = "}" -> "top"
      [] s = "oneof" /\ t \in Word -> "oneof name"
      [] s = "oneof name" /\ t = "{" -> "no variants"
      [] s = "no variants" /\ t \in Separator -> "no variants"
      [] s = "no variants" /\ t = "@" -> "first @"
      [] s = "first @" /\ t = "tag" -> "first tag"
      [] s = "first tag" /\ t \in String -> "no variants"
      [] s = "variants" /\ t \in Separator -> "variants"
      [] s = "variants" /\ t = "}" -> "top"
      [] s = "variants" /\ t = "@" -> "variant @"
      [] s = "variant @" /\ t = "tag" -> "tag"
      [] s = "tag" /\ t \in String -> "variants"
      [] s \in {"first @", "variant @"} /\ t = "deprecated" -> "old variant"
      [] s \in {"no variants", "variants", "old variant"} /\ t \in Word -> "variant type"
      [] s = "variant type" /\ t \in Word -> "variant"
      [] s = "variant" /\ t = ";" -> "variants"
      [] OTHER -> "bad"

\* A file may end between definitions, and, as it happens, after "struct".
Final == {"top", "struct"}

\* Where a file is, and the definition it is in the middle of.
Grammar == [state |-> "top", kind |-> "", name |-> "", type |-> <<"", "">>, members |-> <<>>]

\* A default is for values, not for structs, maps and arrays.
MayDefault(g, seen) ==
    /\ g.type[1] = ""
    /\ \/ g.type[2] \in Primitive
       \/ \E i \in DOMAIN seen :
             seen[i].kind \in {"enum", "oneof"} /\ seen[i].name = g.type[2]

After(g, t, seen) ==
    IF g.state = "field" /\ t = "=" /\ ~MayDefault(g, seen) THEN "bad" ELSE Goes(g.state, t)

Noticed(g, t, seen) ==
    LET s == After(g, t, seen)
    IN  [g EXCEPT !.state = s,
          !.kind = IF g.state = "top" /\ s \in Kind THEN s ELSE @,
          !.name = IF s \in {"struct name", "enum name", "oneof name"} THEN t ELSE @,
          !.type = CASE s = "type" /\ g.state = "map" -> <<"map", Strings[t].value>>
                     [] s \in {"type", "variant type"} /\ g.state # "map" -> <<"", t>>
                     [] OTHER -> @,
          !.members = CASE s \in {"field", "variant"} ->
                                Append(@, [name |-> t, type |-> g.type, value |-> ""])
                        [] s = "value" -> Append(@, [name |-> t, type |-> <<"", "">>, value |-> ""])
                        [] s = "default" -> [@ EXCEPT ![Len(@)].value = t]
                        [] g.state = "top" -> <<>>
                        [] OTHER -> @]

\* The token that completes a definition.
Completes(g, t, seen) == t = "}" /\ After(g, t, seen) = "top"

(***************************************************************************)
(* Whether the definitions of a legal file, in order, make sense: a field  *)
(* has the type of a struct anywhere, or of an enum or oneof above it; a   *)
(* value of a map may not be a oneof.  A definition with the name of a     *)
(* primitive type is not that type.                                        *)
(***************************************************************************)
Above(seen, i, kinds, name) == \E j \in 1..(i - 1) : seen[j].kind \in kinds /\ seen[j].name = name
IsStruct(seen, name) == \E j \in DOMAIN seen : seen[j].kind = "struct" /\ seen[j].name = name

SoundField(seen, i, f) ==
    /\ \/ f.type[2] \in Primitive \/ IsStruct(seen, f.type[2])
       \/ Above(seen, i, IF f.type[1] = "map" THEN {"enum"} ELSE {"enum", "oneof"}, f.type[2])
    /\ \A j \in 1..(i - 1) :
          seen[j].kind = "enum" /\ seen[j].name = f.type[2] /\ f.type[2] \notin Primitive /\ f.value # ""
            => \E v \in DOMAIN seen[j].members : seen[j].members[v].name = f.value

Sound(seen) ==
    \A i \in DOMAIN seen :
        LET members == seen[i].members
        IN  /\ \A m, n \in DOMAIN members : m # n => members[m].name # members[n].name
            /\ seen[i].kind = "struct" => \A m \in DOMAIN members : SoundField(seen, i, members[m])
            /\ seen[i].kind = "oneof" => \A m \in DOMAIN members : IsStruct(seen, members[m].type[2])
=============================================================================
