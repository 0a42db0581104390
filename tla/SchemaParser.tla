---------------------------- MODULE SchemaParser ----------------------------
(***************************************************************************)
(* The schema parser (src/struct/struct_parse.c): recursive descent over   *)
(* the tokens of a file and the files it includes, with recovery after an  *)
(* error, the three maps of definitions, and the validation that follows.  *)
(*                                                                         *)
(* A step is one call of next_token.  `at` is the place in the code that   *)
(* asked for it; `item` and `field` are the definition and the field being *)
(* read, `defs` the three hash maps.  The variables of the parser of one   *)
(* file (file, had, errs, gram) are saved in `callers` while a file it     *)
(* includes is read by a parser of its own.                                *)
(*                                                                         *)
(* gram, seen and legal are history: the grammar run beside the code, the  *)
(* definitions it has completed, and whether every file followed it.  lost *)
(* holds the names of definitions that did not get into their map.         *)
(***************************************************************************)
EXTENDS SchemaGrammar

CONSTANTS Documents,  \* what a run starts from: file name -> sequence of sets of tokens
          Root,       \* the file given on the command line
          PathMax     \* bound on "./" in a path: the length of a path is limited

VARIABLES text, at, file, had, errs, callers, item, field, defs, lost, result,
          gram, seen, legal

here == <<file, had, errs>>
history == <<gram, seen, legal>>
vars == <<text, at, file, had, errs, callers, item, field, defs, lost, result, gram, seen, legal>>

\* A file of a document that some token of it names, and which may thus be read
\* more than once, is the same each time.
Named(d, f) == \E g \in DOMAIN d : \E i \in DOMAIN d[g] : \E s \in String \cap d[g][i] : Strings[s].file = f
IsDocument(d) ==
    \A f \in DOMAIN d :
        /\ d[f] \in Seq(SUBSET (Token \ {"eof"}))
        /\ Named(d, f) => \A i \in DOMAIN d[f] : \E t \in d[f][i] : d[f][i] = {t}

ASSUME SchemaAssumption ==
    /\ TokensAssumption
    /\ PathMax \in Nat
    /\ \A d \in Documents : Root \in DOMAIN d /\ IsDocument(d)

NoItem == [kind |-> "", name |-> "", members |-> <<>>, had |-> 0]
\* struct_field_new
NewField == [name |-> "", kind |-> "", type |-> <<"", "">>, value |-> ""]

Init ==
    /\ text \in Documents
    /\ at = "top" /\ file = [path |-> [file |-> Root, dots |-> 0], pos |-> 1]
    /\ had = 0 /\ errs = 0 /\ callers = <<>>
    /\ item = NoItem /\ field = NewField
    /\ defs = [k \in Kind |-> << >>] /\ lost = {}
    /\ result = 1
    /\ gram = Grammar /\ seen = <<>> /\ legal = TRUE

-----------------------------------------------------------------------------
(***************************************************************************)
(* Tokens and errors.                                                      *)
(***************************************************************************)
Here == text[file.path.file]

\* next_token_: what the file goes on with.
Coming == IF file.pos > Len(Here) THEN {"eof"} ELSE Here[file.pos]

Declared(name) == \E i \in DOMAIN seen : seen[i].name = name

\* The grammar beside the code.
Watch(t) ==
    IF t = "eof" THEN UNCHANGED history
    ELSE /\ gram' = Noticed(gram, t, seen)
         /\ IF Completes(gram, t, seen)
              THEN /\ seen' = Append(seen, [kind |-> gram.kind, name |-> gram.name,
                                            members |-> gram.members])
                   /\ legal' = (legal /\ ~Declared(gram.name))
              ELSE UNCHANGED <<seen, legal>>

\* next_token at a place of the code.
NextToken(place, t) ==
    /\ at = place /\ t \in Coming
    /\ file' = [file EXCEPT !.pos = IF t = "eof" THEN Len(Here) + 1 ELSE @ + 1]
    /\ UNCHANGED <<text, callers, result>>

\* PERROR and ptoken: a diagnostic is dropped when there is no memory for it.
Reported(e) == {e, 1}
Report == errs' \in Reported(errs)
Read(t) == IF t = "error" THEN Reported(errs) ELSE {errs}

\* A token the code takes, going on at p.
Take(place, t, p) ==
    /\ NextToken(place, t) /\ Watch(t) /\ at' = p /\ errs' \in Read(t)
    /\ UNCHANGED <<had, defs, lost>>

\* The loop of struct_parser_parse goes on after an item, whatever it returned.
Return(r) ==
    at' = "top" /\ had' = (IF r = 0 THEN had ELSE 1) /\ item' = NoItem /\ field' = NewField

\* A token that ends an item with an error.
Refuse(place, t) ==
    NextToken(place, t) /\ Watch(t) /\ Report /\ Return(-1) /\ UNCHANGED <<defs, lost>>

-----------------------------------------------------------------------------
(***************************************************************************)
(* One name space for three maps.                                          *)
(***************************************************************************)
\* Mutant: only the map of its own kind is searched.
AvailableOfKind(name) == name \notin DOMAIN defs[item.kind]
\* check_top_level_name_available
Available(name) == \A k \in Kind : name \notin DOMAIN defs[k]

\* Mutant: the new entry takes the place of the chain it should be put before.
InsertedAlone == [defs EXCEPT ![item.kind] = [n \in {item.name} |-> item.members]]
\* hash_map_insert of the item into the map of its kind.
Inserted ==
    [defs EXCEPT ![item.kind] =
        [n \in DOMAIN @ \cup {item.name} |-> IF n = item.name THEN item.members ELSE @[n]]]

\* register_top_level_item, after the errors e and before the return of r: the
\* result of hash_map_insert is not looked at.
Register(e, r) ==
    \/ /\ ~Available(item.name)
       /\ errs' \in Reported(e) /\ Return(-1) /\ UNCHANGED <<defs, lost>>
    \/ /\ Available(item.name)
       /\ \/ defs' = Inserted /\ UNCHANGED lost
          \/ lost' = lost \cup {item.name} /\ UNCHANGED defs
       /\ Return(r) /\ errs' = e

-----------------------------------------------------------------------------
(***************************************************************************)
(* Files: struct_parser_parse, skip_to_top_level, parse_include_directive. *)
(***************************************************************************)
\* parse_top_level_item: the keyword of an item, met between items or while skipping.
Opens(place) ==
    \E t \in Kind \cup {"#"} :
        /\ Take(place, t, t)
        /\ item' = IF t = "#" THEN item ELSE [NoItem EXCEPT !.kind = t]
        /\ UNCHANGED field

Item ==
    \/ Opens("top")
    \/ \E t \in Separator : Take("top", t, "top") /\ UNCHANGED <<item, field>>

\* Nothing that starts an item: skip to the next one.
Unexpected ==
    \E t \in Coming \ (Kind \cup Separator \cup {"#", "eof"}) :
        /\ NextToken("top", t) /\ Watch(t) /\ Report
        /\ at' = "skip" /\ had' = 1 /\ UNCHANGED <<item, field, defs, lost>>

Skip ==
    \/ Opens("skip")
    \/ \E t \in Coming \ (Kind \cup {"#", "eof"}) :
          Take("skip", t, "skip") /\ UNCHANGED <<item, field>>

Failed == had = 1 \/ errs = 1

\* The end of the main file, or of an included one, whose parser returns.
EndOfFile ==
    /\ at \in {"top", "skip"} /\ "eof" \in Coming
    /\ legal' = (legal /\ gram.state \in Final)
    /\ IF callers = <<>>
         THEN /\ at' = "parsed" /\ result' = IF Failed THEN -1 ELSE 0
              /\ UNCHANGED <<here, gram, callers>>
         ELSE LET caller == callers[Len(callers)]
              IN  /\ at' = "top" /\ UNCHANGED result
                  /\ had' = IF Failed THEN 1 ELSE caller.had
                  /\ file' = caller.file /\ errs' = caller.errs /\ gram' = caller.gram
                  /\ callers' = SubSeq(callers, 1, Len(callers) - 1)
    /\ UNCHANGED <<text, item, field, defs, lost, seen>>

Include ==
    \/ Take("#", "include", "include") /\ UNCHANGED <<item, field>>
    \/ \E t \in Coming \ {"include"} : Refuse("#", t)
    \/ \E t \in Coming \ String : Refuse("include", t)

\* include_stack: the files being read, the current one last.
Open == {callers[i].file.path : i \in DOMAIN callers} \cup {file.path}

\* Mutant: only the file that includes is compared with.
CircularDirect(path) == path = file.path
\* Paths are compared as text.
Circular(path) == path \in Open

Missing(path) == path.file \notin DOMAIN text \/ path.dots > PathMax

\* The path of a file is relative to the file that includes it.
PathOf(t) == [file |-> Strings[t].file, dots |-> file.path.dots + Strings[t].dots]

\* Which the grammar does not know: an include has to lead to a file, and not back.
Includable(path) == ~Missing(path) /\ path.file \notin {p.file : p \in Open}

NotIncluded ==
    \E t \in String \cap Coming :
        /\ Circular(PathOf(t)) \/ Missing(PathOf(t))
        /\ NextToken("include", t) /\ Report /\ Return(-1)
        /\ gram' = Noticed(gram, t, seen) /\ legal' = FALSE /\ UNCHANGED <<seen, defs, lost>>

Included ==
    \E t \in String \cap Coming :
        LET path == PathOf(t)
        IN  /\ at = "include" /\ ~Circular(path) /\ ~Missing(path)
            /\ callers' = Append(callers,
                 [file |-> [file EXCEPT !.pos = @ + 1], had |-> had, errs |-> errs,
                  gram |-> Noticed(gram, t, seen)])
            /\ file' = [path |-> path, pos |-> 1] /\ had' = 0 /\ errs' = 0
            /\ gram' = Grammar /\ legal' = (legal /\ Includable(path))
            /\ at' = "top" /\ UNCHANGED <<text, item, field, defs, lost, result, seen>>

-----------------------------------------------------------------------------
(***************************************************************************)
(* A struct: parse_struct_definition, parse_struct_body,                   *)
(* struct_parse_field.                                                     *)
(***************************************************************************)
\* The tokens the code goes on with at each place of a field.
FieldToken(place) ==
    CASE place = "field"    -> {";", "}", "@"} \cup (Word \ {"struct"})
      [] place = "noted"    -> {"@"} \cup (Word \ {"struct"})
      [] place = "modified" -> Word \ {"struct"}
      [] place = "field @"  -> {"json", "deprecated"}
      [] place = "alias"    -> String
      [] place = "map"      -> MapText
      [] place = "name"     -> Word
      [] place = "named"    -> {";", "["} \cup (IF field.kind \in {"value", "enum", "oneof"}
                                                THEN {"="} ELSE {})
      [] place = "["        -> {"]"} \cup Positive
      [] place = "size"     -> {"]"}
      [] place = "array"    -> {";"}
      [] place = "="        -> Literal
      [] place = "default"  -> {";"}
FieldPlace == {"field", "noted", "modified", "field @", "alias", "map", "name", "named",
               "[", "size", "array", "=", "default"}

StructName ==
    \/ \E t \in Word : Take("struct", t, "struct {") /\ item' = [item EXCEPT !.name = t]
                       /\ UNCHANGED field
    \/ NextToken("struct", "eof") /\ Watch("eof") /\ Return(0) /\ UNCHANGED <<errs, defs, lost>>
    \/ \E t \in Coming \ (Word \cup {"eof"}) : Refuse("struct", t)
    \/ Take("struct {", "{", "field") /\ UNCHANGED <<item, field>>
    \/ \E t \in Coming \ {"{"} : Refuse("struct {", t)

\* Which of the maps a type name is found in, at this point of the file.
Resolved(name, maps) ==
    IF name \in Primitive THEN "value"
    ELSE IF \E k \in maps : name \in DOMAIN defs[k]
      THEN CHOOSE k \in maps : name \in DOMAIN defs[k]
      ELSE "struct"

FieldNote ==
    \/ Take("field", ";", "field") /\ UNCHANGED <<item, field>>
    \/ \E p \in {"field", "noted"} : Take(p, "@", "field @") /\ UNCHANGED <<item, field>>
    \/ /\ Take("field @", "json", "alias") \/ Take("field @", "deprecated", "noted")
       /\ UNCHANGED <<item, field>>
    \/ \E t \in String : Take("alias", t, "noted") /\ UNCHANGED <<item, field>>

FieldType ==
    \E p \in {"field", "noted", "modified"} :
        \/ \E t \in Modifier : Take(p, t, "modified") /\ UNCHANGED <<item, field>>
        \/ Take(p, "map", "map") /\ UNCHANGED <<item, field>>
        \/ \E t \in Type :
              /\ Take(p, t, "name") /\ UNCHANGED item
              /\ field' = [field EXCEPT !.type = <<"", t>>,
                                        !.kind = Resolved(t, {"enum", "oneof"})]

\* parse_map_field
MapKind == [value |-> "map value", enum |-> "map enum", struct |-> "map struct"]
MapType ==
    \E t \in MapText :
        /\ Take("map", t, "name") /\ UNCHANGED item
        /\ field' = [field EXCEPT !.type = <<"map", Strings[t].value>>,
                                  !.kind = MapKind[Resolved(Strings[t].value, {"enum"})]]

FieldName ==
    \/ \E t \in Word : Take("name", t, "named") /\ field' = [field EXCEPT !.name = t]
    \/ /\ \/ Take("named", "[", "[") \/ Take("size", "]", "array") \/ Take("[", "]", "array")
          \/ \E t \in Positive : Take("[", t, "size")
          \/ "=" \in FieldToken("named") /\ Take("named", "=", "=")
       /\ UNCHANGED field
    \/ \E t \in Literal : Take("=", t, "default") /\ field' = [field EXCEPT !.value = t]

\* Mutant: struct_field_reverse is forgotten.
FieldEndReversed ==
    \E p \in {"named", "array", "default"} :
        /\ Take(p, ";", "field")
        /\ item' = [item EXCEPT !.members = <<field>> \o @] /\ field' = NewField

FieldEnd ==
    \E p \in {"named", "array", "default"} :
        /\ Take(p, ";", "field")
        /\ item' = [item EXCEPT !.members = Append(@, field)] /\ field' = NewField

StructEnd ==
    /\ NextToken("field", "}") /\ Watch("}")
    /\ IF item.had = 1 THEN Return(-1) /\ UNCHANGED <<errs, defs, lost>>
                       ELSE Register(errs, 0)

\* Mutant: the end of the file is skipped too.
ResyncPastEnd(t) ==
    IF t = "}" THEN Return(-1)
    ELSE /\ at' = IF t = ";" THEN "field" ELSE "skip field"
         /\ item' = [item EXCEPT !.had = 1] /\ field' = NewField /\ UNCHANGED had

\* skip_to_semicolon, and what the loop over the fields does where it ends.
Resync(t) ==
    IF t \in {"}", "eof"} THEN Return(-1)
    ELSE /\ at' = IF t = ";" THEN "field" ELSE "skip field"
         /\ item' = [item EXCEPT !.had = 1] /\ field' = NewField /\ UNCHANGED had

FieldError ==
    \E p \in FieldPlace : \E t \in Coming \ FieldToken(p) :
        NextToken(p, t) /\ Watch(t) /\ Report /\ Resync(t) /\ UNCHANGED <<defs, lost>>

SkipField ==
    \E t \in Coming :
        /\ NextToken("skip field", t) /\ Watch(t) /\ Resync(t) /\ errs' \in Read(t)
        /\ UNCHANGED <<defs, lost>>

Struct ==
    \/ StructName \/ FieldNote \/ FieldType \/ MapType \/ FieldEnd \/ StructEnd
    \/ FieldName /\ UNCHANGED item
    \/ FieldError \/ SkipField

-----------------------------------------------------------------------------
(***************************************************************************)
(* An enum or a oneof: parse_enum_body, parse_oneof_body.                  *)
(***************************************************************************)
BodyOpen == [enum |-> "enum {", oneof |-> "oneof {"]
Body == [enum |-> "value", oneof |-> "variant"]
Stops == [enum |-> {",", ";", "eof"}, oneof |-> {";", "eof"}]

ItemName ==
    \E k \in {"enum", "oneof"} :
        LET open == BodyOpen[k] IN
        \/ \E t \in Word : Take(k, t, open) /\ item' = [item EXCEPT !.name = t]
                           /\ UNCHANGED field
        \/ \E t \in Coming \ Word : Refuse(k, t)
        \/ Take(open, "{", Body[k]) /\ UNCHANGED <<item, field>>
        \/ \E t \in Coming \ {"{"} : Refuse(open, t)

\* The closing brace, after the errors e: an enum or a oneof is registered even
\* when it had errors.
Closed(e, r) ==
    IF item.kind = "oneof" /\ item.members = <<>>
      THEN errs' \in Reported(e) /\ Return(-1) /\ UNCHANGED <<defs, lost>>
      ELSE Register(e, r)

ItemEnd ==
    \E p \in {"value", "after value", "variant"} :
        NextToken(p, "}") /\ Watch("}") /\ Closed(errs, -item.had)

Value(place, t) ==
    /\ Take(place, t, "after value") /\ UNCHANGED field
    /\ item' = [item EXCEPT !.members = Append(@, [NewField EXCEPT !.name = t, !.kind = "enum"])]

Enum ==
    \/ \E t \in Separator : \E p \in {"value", "after value"} :
          Take(p, t, "value") /\ UNCHANGED <<item, field>>
    \/ Take("value", "@", "value @") /\ UNCHANGED <<item, field>>
    \/ Take("value @", "deprecated", "old value") /\ UNCHANGED <<item, field>>
    \/ \E t \in Word : \E p \in {"value", "old value"} : Value(p, t)

Variant ==
    \/ \E t \in Separator : Take("variant", t, "variant") /\ UNCHANGED <<item, field>>
    \/ Take("variant", "@", "variant @") /\ UNCHANGED <<item, field>>
    \/ Take("variant @", "tag", "tag") /\ UNCHANGED <<item, field>>
    \/ Take("variant @", "deprecated", "old variant") /\ UNCHANGED <<item, field>>
    \/ \E t \in String : Take("tag", t, "variant") /\ UNCHANGED <<item, field>>
    \/ \E t \in Word : \E p \in {"variant", "old variant"} :
          Take(p, t, "variant name") /\ field' = [field EXCEPT !.type = <<"", t>>] /\ UNCHANGED item
    \/ \E t \in Word :
          Take("variant name", t, "variant ;") /\ field' = [field EXCEPT !.name = t] /\ UNCHANGED item
    \/ /\ Take("variant ;", ";", "variant") /\ field' = NewField
       /\ item' = [item EXCEPT !.members = Append(@, [field EXCEPT !.kind = "struct"])]

MemberToken(place) ==
    CASE place = "value"        -> {",", ";", "}", "@", "eof"} \cup Word
      [] place = "value @"      -> {"deprecated"}
      [] place = "old value"    -> Word
      [] place = "after value"  -> {",", ";", "}"}
      [] place = "variant"      -> {",", ";", "}", "@", "eof"} \cup Word
      [] place = "old variant"  -> Word
      [] place = "variant name" -> Word
      [] place = "variant ;"    -> {";"}
MemberPlace == {"value", "value @", "old value", "after value",
                "variant", "old variant", "variant name", "variant ;"}

\* Where the loops that skip to the next member end, after the errors e.
ResyncMember(t, e) ==
    IF t = "}" THEN Closed(e, -1)
    ELSE /\ at' = IF t \in Stops[item.kind] THEN Body[item.kind] ELSE "skip member"
         /\ item' = [item EXCEPT !.had = 1] /\ field' = NewField /\ errs' = e
         /\ UNCHANGED <<had, defs, lost>>

MemberError ==
    \E p \in MemberPlace : \E t \in Coming \ MemberToken(p) : \E e \in Reported(errs) :
        NextToken(p, t) /\ Watch(t) /\ ResyncMember(t, e)

SkipMember ==
    \E t \in Coming : \E e \in Read(t) :
        NextToken("skip member", t) /\ Watch(t) /\ ResyncMember(t, e)

\* A bad annotation of a variant is an error, and its token is gone.
BadNote ==
    \E p \in {"variant @", "tag"} :
        \E t \in Coming \ (IF p = "tag" THEN String ELSE {"tag", "deprecated"}) :
            /\ NextToken(p, t) /\ Watch(t) /\ Report /\ at' = "variant"
            /\ item' = [item EXCEPT !.had = 1] /\ UNCHANGED <<had, field, defs, lost>>

\* The file ends inside: the definition is dropped.
Unclosed == \E p \in {"value", "variant"} : Refuse(p, "eof")


Member ==
    \/ ItemName \/ Enum \/ Variant \/ ItemEnd
    \/ MemberError \/ SkipMember \/ BadNote \/ Unclosed

-----------------------------------------------------------------------------
(***************************************************************************)
(* Validation: struct_parser_validate_to.                                  *)
(***************************************************************************)
Repeated(members) ==
    \E i, j \in DOMAIN members : i < j /\ members[i].name = members[j].name

\* Mutant: the value type of a map is not looked up.
BadFieldNotMap(f) ==
    \/ f.kind = "struct" /\ f.type[2] \notin DOMAIN defs["struct"]
    \/ f.kind = "oneof" /\ f.type[2] \notin DOMAIN defs["oneof"]

\* validate_struct_fields
BadField(f) ==
    \/ f.kind \in {"struct", "map struct"} /\ f.type[2] \notin DOMAIN defs["struct"]
    \/ f.kind = "oneof" /\ f.type[2] \notin DOMAIN defs["oneof"]
    \/ /\ f.kind = "enum" /\ f.value # "" /\ f.type[2] \in DOMAIN defs["enum"]
       /\ LET values == defs["enum"][f.type[2]]
          IN  \A i \in DOMAIN values : values[i].name # f.value

\* validate_oneof_variants
BadVariant(v) == v.type[2] \notin DOMAIN defs["struct"]

Invalid ==
    \/ \E k \in Kind : \E n \in DOMAIN defs[k] : Repeated(defs[k][n])
    \/ \E n \in DOMAIN defs["struct"] : \E i \in DOMAIN defs["struct"][n] :
          BadField(defs["struct"][n][i])
    \/ \E n \in DOMAIN defs["oneof"] : \E i \in DOMAIN defs["oneof"][n] :
          BadVariant(defs["oneof"][n][i])

\* Only the count of diagnostics says that there were errors.
Validate ==
    /\ at = "parsed" /\ at' = "done"
    /\ \/ (result # 0 \/ ~Invalid) /\ UNCHANGED <<result, lost>>
       \/ result = 0 /\ Invalid /\ result' = -1 /\ UNCHANGED lost
       \/ result = 0 /\ Invalid /\ lost' = lost \cup {"errors"} /\ UNCHANGED result
    /\ UNCHANGED <<text, here, callers, item, field, defs, history>>

Done == at = "done" /\ UNCHANGED vars

Next ==
    \/ Item \/ Unexpected \/ Skip \/ EndOfFile \/ Include \/ NotIncluded \/ Included
    \/ Struct \/ Member \/ Validate \/ Done

Spec == Init /\ [][Next]_vars
FairSpec == Spec /\ WF_vars(Next)

-----------------------------------------------------------------------------
(***************************************************************************)
(* Properties.                                                             *)
(***************************************************************************)

\* No name is defined twice, whatever the two kinds of definition and the files
\* they stand in: the generated C has one name space.
OneDefinition ==
    \A k, l \in Kind : k # l => DOMAIN defs[k] \cap DOMAIN defs[l] = {}

\* A definition in a map is never replaced or dropped by what follows in the
\* file, in the files it includes, or in the recovery from an error.
Kept ==
    [][\A k \in Kind : \A n \in DOMAIN defs[k] :
          n \in DOMAIN defs'[k] /\ defs'[k][n] = defs[k][n]]_vars

\* No file is being read twice under one spelling of its path, at any depth.
NoCircle ==
    /\ \A i \in DOMAIN callers : callers[i].file.path # file.path
    /\ \A i, j \in DOMAIN callers : callers[i].file.path = callers[j].file.path => i = j

\* The parser and the validation accept exactly the schemas that follow the
\* grammar and make sense, through every recovery and with every diagnostic lost
\* for lack of memory (as long as no definition is).
AcceptsExactly == at = "done" /\ lost = {} => (result = 0 <=> legal /\ Sound(seen))

Written(m) == [name |-> m.name, type |-> m.type, value |-> m.value]

\* What is accepted is what was written: every definition of every file, under
\* its kind and name, with its members in the order of the file.
ReadsWhatIsWritten ==
    at = "done" /\ lost = {} /\ result = 0 =>
        /\ \A k \in Kind : DOMAIN defs[k] = {seen[i].name : i \in {j \in DOMAIN seen : seen[j].kind = k}}
        /\ \A i \in DOMAIN seen :
              LET members == defs[seen[i].kind][seen[i].name]
              IN  [m \in DOMAIN members |-> Written(members[m])] = seen[i].members

\* Every file is read to its end, through every recovery and circle of includes.
Terminates == <>(at = "done")
=============================================================================
