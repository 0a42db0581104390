----------------------- MODULE SchemaAcceptanceProofs -----------------------
(***************************************************************************)
(* For every set of documents: no name is defined twice, no definition is  *)
(* replaced, and no file is read twice at a time.  Each is shown from what *)
(* a step does to the maps (MapStep) or to the files being read            *)
(* (FileStep), whatever else it does.                                      *)
(*                                                                         *)
(* And for every set of documents, the parser and the validation accept a  *)
(* schema exactly if it follows the grammar and makes sense, and what is   *)
(* accepted is what was written.                                           *)
(*                                                                         *)
(* As long as no definition is lost, a state is one of three: the code is  *)
(* in step with the grammar and has kept what it read (Good); a file has   *)
(* broken the grammar and an error is on record (Ruined); or a file leads  *)
(* back to itself by includes and will be refused before it ends (Doomed). *)
(***************************************************************************)
EXTENDS SchemaParser, TLAPS

IsMaps == DOMAIN defs = Kind /\ defs = [k \in Kind |-> defs[k]]

\* What a step can do to the maps.
MapStep == defs' = defs \/ (Available(item.name) /\ defs' = Inserted)

LEMMA TakeMap == ASSUME NEW p, NEW t, NEW q, Take(p, t, q) PROVE defs' = defs
  BY DEF Take

LEMMA RefuseMap == ASSUME NEW p, NEW t, Refuse(p, t) PROVE defs' = defs
  BY DEF Refuse

LEMMA RegisterMap == ASSUME NEW e, NEW r, Register(e, r) PROVE MapStep
  BY DEF Register, MapStep

LEMMA ClosedMap == ASSUME NEW e, NEW r, Closed(e, r) PROVE MapStep
  <1>1. CASE item.kind = "oneof" /\ item.members = <<>>  BY <1>1 DEF Closed, MapStep
  <1>2. CASE ~(item.kind = "oneof" /\ item.members = <<>>)  BY <1>2, RegisterMap DEF Closed
  <1> QED  BY <1>1, <1>2

LEMMA FileActions ==
    Item \/ Unexpected \/ Skip \/ EndOfFile \/ Include \/ NotIncluded \/ Included \/ Validate
      => defs' = defs
  BY TakeMap, RefuseMap
  DEF Item, Opens, Unexpected, Skip, EndOfFile, Include, NotIncluded, Included, Validate

LEMMA StructActions == Struct => MapStep
  <1>1. StructName => defs' = defs  BY TakeMap, RefuseMap DEF StructName
  <1>2. FieldNote \/ FieldType \/ MapType => defs' = defs
    BY TakeMap DEF FieldNote, FieldType, MapType
  <1>3. FieldName \/ FieldEnd => defs' = defs  BY TakeMap DEF FieldName, FieldEnd
  <1>4. StructEnd => MapStep  BY RegisterMap DEF StructEnd, MapStep
  <1>5. FieldError \/ SkipField => defs' = defs  BY DEF FieldError, SkipField
  <1> QED  BY <1>1, <1>2, <1>3, <1>4, <1>5 DEF Struct, MapStep

LEMMA MemberActions == Member => MapStep
  <1>1. ItemName \/ Enum \/ Unclosed => defs' = defs
    BY TakeMap, RefuseMap DEF ItemName, Enum, Value, Unclosed
  <1>2. Variant => defs' = defs  BY TakeMap DEF Variant
  <1>3. ItemEnd => MapStep  BY ClosedMap DEF ItemEnd
  <1>4. ASSUME NEW t, NEW e, ResyncMember(t, e)  PROVE MapStep
    BY <1>4, ClosedMap DEF ResyncMember, MapStep
  <1>5. MemberError \/ SkipMember => MapStep  BY <1>4 DEF MemberError, SkipMember
  <1>6. BadNote => defs' = defs  BY DEF BadNote
  <1> QED  BY <1>1, <1>2, <1>3, <1>5, <1>6 DEF Member, MapStep

LEMMA NextMap == [Next]_vars => MapStep
  <1>1. vars' = vars => defs' = defs  BY DEF vars
  <1>2. Done => defs' = defs  BY DEF Done, vars
  <1> QED  BY <1>1, <1>2, FileActions, StructActions, MemberActions DEF Next, MapStep

\* What is inserted takes a free name and leaves every other alone.
Grows ==
    /\ IsMaps'
    /\ \A k \in Kind : /\ DOMAIN defs'[k] \subseteq DOMAIN defs[k] \cup {item.name}
                      /\ (k # item.kind => DOMAIN defs'[k] = DOMAIN defs[k])
    /\ \A k \in Kind : \A n \in DOMAIN defs[k] : n \in DOMAIN defs'[k] /\ defs'[k][n] = defs[k][n]

LEMMA InsertedMap == IsMaps /\ Available(item.name) /\ defs' = Inserted => Grows
  <1> SUFFICES ASSUME IsMaps, Available(item.name), defs' = Inserted  PROVE Grows
    OBVIOUS
  <1>1. IsMaps'  BY DEF IsMaps, Inserted
  <1>2. ASSUME NEW k \in Kind, k # item.kind  PROVE defs'[k] = defs[k]
    BY <1>2 DEF IsMaps, Inserted
  <1>3. ASSUME NEW k \in Kind, k = item.kind
        PROVE  defs'[k] = [n \in DOMAIN defs[k] \cup {item.name} |->
                              IF n = item.name THEN item.members ELSE defs[k][n]]
    BY <1>3 DEF IsMaps, Inserted
  <1>4. ASSUME NEW k \in Kind
        PROVE  /\ DOMAIN defs'[k] \subseteq DOMAIN defs[k] \cup {item.name}
               /\ (k # item.kind => DOMAIN defs'[k] = DOMAIN defs[k])
    BY <1>2, <1>3
  <1>5. ASSUME NEW k \in Kind, NEW n \in DOMAIN defs[k]
        PROVE  n \in DOMAIN defs'[k] /\ defs'[k][n] = defs[k][n]
    <2>1. CASE k # item.kind  BY <1>2, <1>5, <2>1
    <2>2. CASE k = item.kind
      <3>1. n # item.name  BY <1>5, <2>2 DEF Available
      <3>2. n \in DOMAIN defs[k] \cup {item.name}  BY <1>5
      <3> DEFINE g == [m \in DOMAIN defs[k] \cup {item.name} |->
                         IF m = item.name THEN item.members ELSE defs[k][m]]
      <3>3. n \in DOMAIN g /\ g[n] = defs[k][n]  BY <3>1, <3>2
      <3> HIDE DEF g
      <3>4. defs'[k] = g  BY <1>3, <2>2 DEF g
      <3> QED  BY <3>3, <3>4
    <2> QED  BY <2>1, <2>2
  <1> QED  BY <1>1, <1>4, <1>5 DEF Grows

-----------------------------------------------------------------------------
(***************************************************************************)
(* The maps.                                                               *)
(***************************************************************************)
LEMMA MapsStep == IsMaps /\ OneDefinition /\ [Next]_vars => IsMaps' /\ OneDefinition'
  <1> SUFFICES ASSUME IsMaps, OneDefinition, [Next]_vars  PROVE IsMaps' /\ OneDefinition'
    OBVIOUS
  <1>1. MapStep  BY NextMap
  <1>2. CASE defs' = defs  BY <1>2 DEF IsMaps, OneDefinition
  <1>3. CASE Available(item.name) /\ defs' = Inserted
    <2>1. Grows  BY <1>3, InsertedMap
    <2>2. ASSUME NEW k \in Kind, NEW l \in Kind, k # l
          PROVE  DOMAIN defs'[k] \cap DOMAIN defs'[l] = {}
      <3>1. DOMAIN defs[k] \cap DOMAIN defs[l] = {}  BY <2>2 DEF OneDefinition
      <3>2. /\ DOMAIN defs'[k] \subseteq DOMAIN defs[k] \cup {item.name}
            /\ k # item.kind => DOMAIN defs'[k] = DOMAIN defs[k]
            /\ DOMAIN defs'[l] \subseteq DOMAIN defs[l] \cup {item.name}
            /\ l # item.kind => DOMAIN defs'[l] = DOMAIN defs[l]
        BY <2>1 DEF Grows
      <3>3. item.name \notin DOMAIN defs[k] /\ item.name \notin DOMAIN defs[l]
        BY <1>3 DEF Available
      <3> QED  BY <2>2, <3>1, <3>2, <3>3
    <2> QED  BY <2>1, <2>2 DEF OneDefinition, Grows
  <1> QED  BY <1>1, <1>2, <1>3 DEF MapStep

LEMMA MapsInit == Init => IsMaps /\ OneDefinition
  BY DEF Init, IsMaps, OneDefinition

LEMMA Maps == Spec => [](IsMaps /\ OneDefinition)
  BY MapsInit, MapsStep, PTL DEF Spec

\* No name is ever in two of the three maps (check_top_level_name_available,
\* register_top_level_item), whatever the files hold.
THEOREM UniqueNames == Spec => []OneDefinition
  BY Maps, PTL

\* A definition stays in its map as it was parsed: nothing later in any file
\* replaces or drops it.
THEOREM DefinitionsKept == Spec => Kept
  <1> DEFINE Same == \A k \in Kind : \A n \in DOMAIN defs[k] :
                        n \in DOMAIN defs'[k] /\ defs'[k][n] = defs[k][n]
  <1>1. IsMaps /\ [Next]_vars => [Same]_vars
    <2> SUFFICES ASSUME IsMaps, [Next]_vars  PROVE Same
      OBVIOUS
    <2>1. MapStep  BY NextMap
    <2>2. CASE defs' = defs  BY <2>2
    <2>3. CASE Available(item.name) /\ defs' = Inserted
      <3>1. Grows  BY <2>3, InsertedMap
      <3> QED  BY <3>1 DEF Grows
    <2> QED  BY <2>1, <2>2, <2>3 DEF MapStep
  <1> HIDE DEF Same
  <1>2. Spec => [][Same]_vars  BY <1>1, Maps, PTL DEF Spec
  <1> QED  BY <1>2 DEF Kept, Same

-----------------------------------------------------------------------------
(***************************************************************************)
(* The files being read.                                                   *)
(***************************************************************************)
IsFile(f) == \E path, pos : f = [path |-> path, pos |-> pos]
IsStack ==
    /\ IsFile(file) /\ \E S : callers \in Seq(S)
    /\ \A i \in 1..Len(callers) : IsFile(callers[i].file)

Begins(c) == /\ IsFile(file') /\ c.file.path = file.path /\ IsFile(c.file)
             /\ ~Circular(file'.path) /\ callers' = Append(callers, c)
Ends == /\ callers # <<>> /\ file' = callers[Len(callers)].file
        /\ callers' = SubSeq(callers, 1, Len(callers) - 1)

\* What a step can do to them: go on, begin a new one, or end the current one.
FileStep ==
    \/ callers' = callers /\ file'.path = file.path /\ IsFile(file')
    \/ \E c : Begins(c)
    \/ Ends

LEMMA NextTokenFile ==
    ASSUME IsFile(file), NEW p, NEW t, NextToken(p, t)
    PROVE  callers' = callers /\ file'.path = file.path /\ IsFile(file')
  <1>1. PICK path, pos : file = [path |-> path, pos |-> pos]  BY DEF IsFile
  <1>2. PICK q : file' = [file EXCEPT !.pos = q]  BY DEF NextToken
  <1>3. file' = [path |-> path, pos |-> q]  BY <1>1, <1>2
  <1> QED  BY <1>1, <1>3 DEF NextToken, IsFile

LEMMA TakeFile == ASSUME IsFile(file), NEW p, NEW t, NEW q, Take(p, t, q) PROVE FileStep
  BY NextTokenFile DEF Take, FileStep

LEMMA RefuseFile == ASSUME IsFile(file), NEW p, NEW t, Refuse(p, t) PROVE FileStep
  BY NextTokenFile DEF Refuse, FileStep

LEMMA IncludedFile == ASSUME IsFile(file), Included PROVE FileStep
  <1>1. PICK t \in String \cap Coming :
          /\ ~Circular(PathOf(t))
          /\ callers' = Append(callers,
               [file |-> [file EXCEPT !.pos = @ + 1], had |-> had, errs |-> errs,
                gram |-> Noticed(gram, t, seen)])
          /\ file' = [path |-> PathOf(t), pos |-> 1]
    BY DEF Included
  <1> DEFINE c == [file |-> [file EXCEPT !.pos = @ + 1], had |-> had, errs |-> errs,
                   gram |-> Noticed(gram, t, seen)]
  <1>2. PICK path, pos : file = [path |-> path, pos |-> pos]  BY DEF IsFile
  <1>3. c.file = [path |-> path, pos |-> pos + 1]  BY <1>2
  <1>4. IsFile(c.file) /\ c.file.path = file.path  BY <1>2, <1>3 DEF IsFile
  <1>5. IsFile(file') /\ file'.path = PathOf(t)  BY <1>1 DEF IsFile
  <1>6. callers' = Append(callers, c)  BY <1>1
  <1> HIDE DEF c
  <1>7. Begins(c)  BY <1>1, <1>4, <1>5, <1>6 DEF Begins
  <1> QED  BY <1>7 DEF FileStep

LEMMA EndOfFileFile == ASSUME IsFile(file), EndOfFile PROVE FileStep
  BY DEF EndOfFile, FileStep, Ends, here

LEMMA NextFile == ASSUME IsFile(file), [Next]_vars PROVE FileStep
  <1>1. Item \/ Skip \/ Include => FileStep
    BY TakeFile, RefuseFile DEF Item, Opens, Skip, Include
  <1>2. Unexpected \/ NotIncluded => FileStep
    BY NextTokenFile DEF Unexpected, NotIncluded, FileStep
  <1>3. StructName \/ FieldNote \/ FieldType \/ MapType => FileStep
    <2>1. StructName => FileStep
      BY TakeFile, RefuseFile, NextTokenFile DEF StructName, FileStep
    <2>2. FieldNote \/ FieldType \/ MapType => FileStep
      BY TakeFile DEF FieldNote, FieldType, MapType
    <2> QED  BY <2>1, <2>2
  <1>4. FieldName \/ FieldEnd => FileStep  BY TakeFile DEF FieldName, FieldEnd
  <1>5. StructEnd \/ FieldError \/ SkipField => FileStep
    BY NextTokenFile DEF StructEnd, FieldError, SkipField, FileStep
  <1>6. ItemName \/ Enum \/ Unclosed => FileStep
    BY TakeFile, RefuseFile DEF ItemName, Enum, Value, Unclosed
  <1>7. Variant => FileStep  BY TakeFile DEF Variant
  <1>8. ItemEnd \/ MemberError \/ SkipMember \/ BadNote => FileStep
    BY NextTokenFile DEF ItemEnd, MemberError, SkipMember, BadNote, FileStep
  <1>9. Validate \/ Done \/ vars' = vars => FileStep
    BY DEF Validate, Done, vars, here, FileStep
  <1> QED
    BY <1>1, <1>2, <1>3, <1>4, <1>5, <1>6, <1>7, <1>8, <1>9, IncludedFile, EndOfFileFile
    DEF Next, Struct, Member

LEMMA StackInit == Init => IsStack /\ NoCircle
  <1> SUFFICES ASSUME Init  PROVE IsStack /\ NoCircle
    OBVIOUS
  <1>1. callers = <<>> /\ callers \in Seq({}) /\ Len(callers) = 0  BY DEF Init
  <1>2. IsFile(file)  BY DEF Init, IsFile
  <1> QED  BY <1>1, <1>2 DEF IsStack, NoCircle

LEMMA BeginsStep ==
    ASSUME IsStack, NoCircle, NEW c, Begins(c) PROVE IsStack' /\ NoCircle'
  <1>1. PICK S : callers \in Seq(S)  BY DEF IsStack
  <1>2. callers \in Seq(S \cup {c})  BY <1>1
  <1>3. callers' = Append(callers, c)  BY DEF Begins
  <1>4. callers' \in Seq(S \cup {c})  BY <1>2, <1>3
  <1>5. /\ Len(callers) \in Nat /\ Len(callers') = Len(callers) + 1
        /\ \A i \in 1..Len(callers) : callers'[i] = callers[i]
        /\ callers'[Len(callers) + 1] = c
    BY <1>2, <1>3
  <1>6. DOMAIN callers = 1..Len(callers) /\ DOMAIN callers' = 1..Len(callers')
    BY <1>1, <1>4
  <1>7. \A i \in 1..Len(callers') : IsFile(callers'[i].file)
    BY <1>5 DEF IsStack, Begins
  <1>8. IsStack'  BY <1>4, <1>7 DEF IsStack, Begins
  <1>9. file'.path # file.path /\ \A i \in DOMAIN callers : callers[i].file.path # file'.path
    BY DEF Begins, Circular, Open
  <1>10. \A i \in DOMAIN callers' : callers'[i].file.path # file'.path
    BY <1>5, <1>6, <1>9 DEF Begins
  <1>11. ASSUME NEW i \in DOMAIN callers', NEW j \in DOMAIN callers',
                callers'[i].file.path = callers'[j].file.path
         PROVE  i = j
    <2>1. \A k \in DOMAIN callers : callers[k].file.path # c.file.path
      BY DEF NoCircle, Begins
    <2>2. CASE i \in DOMAIN callers /\ j \in DOMAIN callers
      BY <2>2, <1>5, <1>6, <1>11 DEF NoCircle
    <2>3. CASE i \in DOMAIN callers /\ j = Len(callers) + 1
      BY <2>1, <2>3, <1>5, <1>6, <1>11
    <2>4. CASE i = Len(callers) + 1 /\ j \in DOMAIN callers
      BY <2>1, <2>4, <1>5, <1>6, <1>11
    <2> QED  BY <2>2, <2>3, <2>4, <1>5, <1>6
  <1>12. NoCircle'  BY <1>10, <1>11 DEF NoCircle
  <1> QED  BY <1>8, <1>12

LEMMA EndsStep == ASSUME IsStack, NoCircle, Ends PROVE IsStack' /\ NoCircle'
  <1>1. PICK S : callers \in Seq(S)  BY DEF IsStack
  <1>2. Len(callers) \in Nat \ {0} /\ DOMAIN callers = 1..Len(callers)  BY <1>1 DEF Ends
  <1>3. callers' = SubSeq(callers, 1, Len(callers) - 1)  BY DEF Ends
  <1>4. /\ callers' \in Seq(S) /\ Len(callers') = Len(callers) - 1
        /\ \A i \in 1..(Len(callers) - 1) : callers'[i] = callers[i]
    BY <1>1, <1>2, <1>3
  <1>5. DOMAIN callers' = 1..(Len(callers) - 1)  BY <1>4
  <1>6. IsFile(file')  BY <1>2 DEF Ends, IsStack
  <1>7. IsStack'  BY <1>2, <1>4, <1>6 DEF IsStack
  <1>8. NoCircle'  BY <1>2, <1>4, <1>5 DEF Ends, NoCircle
  <1> QED  BY <1>7, <1>8

LEMMA StackStep == IsStack /\ NoCircle /\ [Next]_vars => IsStack' /\ NoCircle'
  <1> SUFFICES ASSUME IsStack, NoCircle, [Next]_vars  PROVE IsStack' /\ NoCircle'
    OBVIOUS
  <1>1. FileStep  BY NextFile DEF IsStack
  <1>2. CASE callers' = callers /\ file'.path = file.path /\ IsFile(file')
    BY <1>2 DEF IsStack, NoCircle
  <1>3. CASE \E c : Begins(c)  BY <1>3, BeginsStep
  <1>4. CASE Ends  BY <1>4, EndsStep
  <1> QED  BY <1>1, <1>2, <1>3, <1>4 DEF FileStep

\* No file is opened while it is being read, at any depth of includes
\* (parse_include_directive walks the whole include_stack): the recursion of the
\* parser is as deep as there are spellings of paths.
THEOREM NoCircularInclude == Spec => []NoCircle
  <1>1. Spec => [](IsStack /\ NoCircle)  BY StackInit, StackStep, PTL DEF Spec
  <1> QED  BY <1>1, PTL

-----------------------------------------------------------------------------
(***************************************************************************)
(* The shape of the state.                                                 *)
(***************************************************************************)
Bit == {0, 1}
ItemLike(i) == DOMAIN i = {"kind", "name", "members", "had"} /\ i.had \in Bit
FieldLike(f) == DOMAIN f = {"name", "kind", "type", "value"}
GramLike(g) == DOMAIN g = {"state", "kind", "name", "type", "members"}
InText(d, f) == DOMAIN f = {"path", "pos"} /\ f.path.file \in DOMAIN d /\ f.pos \in Nat \ {0}
CallerLike(d, c) == /\ InText(d, c.file) /\ c.had \in Bit /\ c.errs \in Bit /\ GramLike(c.gram)

Shape == /\ text \in Documents /\ had \in Bit /\ errs \in Bit
         /\ ItemLike(item) /\ FieldLike(field) /\ GramLike(gram) /\ InText(text, file)
         /\ \E S : callers \in Seq(S)
         /\ \A i \in 1..Len(callers) : CallerLike(text, callers[i])
         /\ \E S : seen \in Seq(S)

LEMMA NoticedLike == ASSUME NEW g, GramLike(g), NEW t, NEW known PROVE GramLike(Noticed(g, t, known))
  <1>1. DOMAIN g = {"state", "kind", "name", "type", "members"}  BY DEF GramLike
  <1>2. DOMAIN Noticed(g, t, known) = DOMAIN g  BY <1>1 DEF Noticed
  <1> QED  BY <1>1, <1>2 DEF GramLike

LEMMA HereIs == ASSUME Shape PROVE Here \in Seq(SUBSET (Token \ {"eof"})) /\ Len(Here) \in Nat
  <1>1. IsDocument(text) /\ file.path.file \in DOMAIN text
    BY SchemaAssumption DEF SchemaAssumption, Shape, InText
  <1> QED  BY <1>1 DEF IsDocument, Here

\* What comes next in a file.
LEMMA ComingIs ==
    ASSUME Shape, NEW t \in Coming
    PROVE  /\ t = "eof" <=> file.pos > Len(Here)
           /\ t # "eof" => file.pos \in 1..Len(Here) /\ t \in Here[file.pos]
  <1>1. file.pos \in Nat \ {0}  BY DEF Shape, InText
  <1>2. CASE file.pos > Len(Here)  BY <1>1, <1>2, HereIs DEF Coming
  <1>3. CASE ~(file.pos > Len(Here))
    <2>1. file.pos \in 1..Len(Here) /\ t \in Here[file.pos]  BY <1>1, <1>3, HereIs DEF Coming
    <2>2. Here[file.pos] \in SUBSET (Token \ {"eof"})  BY <2>1, HereIs
    <2> QED  BY <1>3, <2>1, <2>2
  <1> QED  BY <1>2, <1>3

LEMMA NewLike == ItemLike(NoItem) /\ FieldLike(NewField) /\ GramLike(Grammar)
  <1>1. ItemLike(NoItem)  BY DEF ItemLike, NoItem, Bit
  <1>2. FieldLike(NewField)  BY DEF FieldLike, NewField
  <1>3. GramLike(Grammar)  BY DEF GramLike, Grammar
  <1> QED  BY <1>1, <1>2, <1>3

\* A token step in the file being read.
Moved(t) == /\ InText(text', file') /\ file'.path = file.path /\ callers' = callers /\ text' = text
            /\ file'.pos = IF t = "eof" THEN Len(Here) + 1 ELSE file.pos + 1

LEMMA NextTokenMoves ==
    ASSUME Shape, NEW p, NEW t, NextToken(p, t)
    PROVE  Moved(t) /\ at = p /\ t \in Coming /\ result' = result
  <1>1. DOMAIN file = {"path", "pos"} /\ file.pos \in Nat \ {0}  BY DEF Shape, InText
  <1>2. file' = [file EXCEPT !.pos = IF t = "eof" THEN Len(Here) + 1 ELSE @ + 1]
    BY DEF NextToken
  <1>3. /\ DOMAIN file' = {"path", "pos"} /\ file'.path = file.path
        /\ file'.pos = IF t = "eof" THEN Len(Here) + 1 ELSE file.pos + 1
    BY <1>1, <1>2
  <1>4. file'.pos \in Nat \ {0}  BY <1>1, <1>3, HereIs
  <1> QED  BY <1>3, <1>4 DEF NextToken, Moved, InText, Shape

-----------------------------------------------------------------------------
(***************************************************************************)
(* What a step that reads a token does, whatever the mode: the errors on   *)
(* record stay, and an include directive is followed or refused.           *)
(***************************************************************************)
InBody == at \in FieldPlace \cup MemberPlace \cup {"skip field", "variant @", "tag", "skip member"}
Broken == had = 1 \/ errs = 1 \/ (InBody /\ item.had = 1)
MemberLike == MemberPlace \cup {"variant @", "tag", "skip member", "enum", "enum {", "oneof", "oneof {"}
Skipping == /\ at = "skip" => had = 1
            /\ at \in {"skip field", "skip member"} => item.had = 1
            /\ at \in MemberLike => item.kind \in {"enum", "oneof"}

Likes == ItemLike(item') /\ FieldLike(field')
Counts == had' \in {had, 1} /\ errs' \in {errs, 1} /\ lost \subseteq lost'
Stays == InBody /\ item.had = 1 => Broken'
Ways(t) == /\ at' \notin {"parsed", "done"}
           /\ t = "#" => at' = "#" \/ Broken'
           /\ at = "#" => (t = "include" /\ at' = "include") \/ Broken'
           /\ at = "include" => Broken'
           /\ at' = "#" => t = "#"
           /\ at' = "include" => at = "#" /\ t = "include"
Seen(t) == \/ Watch(t)
           \/ gram' = Noticed(gram, t, seen) /\ ~legal' /\ seen' = seen
TokenStep(t) == /\ Moved(t) /\ t \in Coming /\ result' = result /\ Seen(t)
                /\ Likes /\ Counts /\ Stays /\ Ways(t) /\ Skipping'

LEMMA Signs ==
    /\ Sign \cap (Word \cup String \cup {"eof", "error"}) = {}
    /\ "eof" \notin Word \cup String /\ "error" \notin Word \cup String
  BY SchemaAssumption DEF SchemaAssumption, TokensAssumption, Sign, Separator

\* The error tokens go on record.
LEMMA TakeIs ==
    ASSUME Shape, NEW p, NEW t, NEW q, Take(p, t, q)
    PROVE  /\ Moved(t) /\ at = p /\ t \in Coming /\ result' = result /\ Watch(t)
           /\ at' = q /\ had' = had /\ defs' = defs /\ lost' = lost
           /\ errs' \in {errs, 1} /\ (t # "error" => errs' = errs)
  BY NextTokenMoves DEF Take, Read, Reported

LEMMA RefuseIs ==
    ASSUME Shape, NEW p, NEW t, Refuse(p, t)
    PROVE  /\ Moved(t) /\ at = p /\ t \in Coming /\ result' = result /\ Watch(t)
           /\ at' = "top" /\ had' = 1 /\ defs' = defs /\ lost' = lost
           /\ errs' \in {errs, 1} /\ item' = NoItem /\ field' = NewField
  BY NextTokenMoves DEF Refuse, Report, Reported, Return

LEMMA RefuseStep == ASSUME Shape, NEW p, NEW t, Refuse(p, t) PROVE TokenStep(t)
  <1>1. Broken' /\ at' = "top"  BY RefuseIs DEF Broken
  <1>2. Likes  BY RefuseIs, NewLike DEF Likes
  <1>3. Counts /\ Seen(t)  BY RefuseIs DEF Counts, Seen
  <1>4. Stays /\ Ways(t) /\ Skipping'  BY <1>1 DEF Stays, Ways, Skipping, MemberLike, MemberPlace
  <1> QED  BY RefuseIs, <1>2, <1>3, <1>4 DEF TokenStep

\* A token that is taken, from a place that is not "#" or "include".
BodyPlace == FieldPlace \cup MemberPlace \cup {"variant @", "tag"}
Fits(p, t, q) ==
    /\ q \notin {"parsed", "done", "include", "skip field", "skip member"}
    /\ p \notin {"#", "include", "skip field", "skip member"}
    /\ t = "#" <=> q = "#"
    /\ q = "skip" => p = "skip"
    /\ p \in BodyPlace => q \in BodyPlace /\ item'.had = item.had
    /\ q \in MemberLike => item'.kind \in {"enum", "oneof"}
LEMMA TakeStep ==
    ASSUME Shape, Skipping, Likes, NEW p, NEW t, NEW q, Take(p, t, q), Fits(p, t, q)
    PROVE  TokenStep(t)
  <1>1. Counts /\ Seen(t) /\ Moved(t) /\ t \in Coming /\ result' = result
    BY TakeIs DEF Counts, Seen
  <1>2. at = p /\ at' = q /\ had' = had  BY TakeIs
  <1>3. Stays  BY <1>2 DEF Stays, InBody, BodyPlace, Broken, Fits
  <1>4. Ways(t)  BY <1>2 DEF Ways, Fits
  <1>5. Skipping'  BY <1>2 DEF Skipping, Fits
  <1> QED  BY <1>1, <1>3, <1>4, <1>5 DEF TokenStep

LEMMA SameLike == Shape /\ UNCHANGED <<item, field>> => Likes
  BY DEF Shape, Likes, ItemLike, FieldLike

LEMMA OpensStep ==
    ASSUME Shape, Skipping, NEW p \in {"top", "skip"}, Opens(p) PROVE \E t : TokenStep(t)
  <1>1. PICK t \in Kind \cup {"#"} :
          /\ Take(p, t, t) /\ item' = IF t = "#" THEN item ELSE [NoItem EXCEPT !.kind = t]
          /\ field' = field
    BY DEF Opens
  <1>2. ItemLike([NoItem EXCEPT !.kind = t])  BY NewLike DEF ItemLike
  <1>3. Likes  BY <1>1, <1>2 DEF Likes, Shape, ItemLike, FieldLike
  <1>4. t # "#" => item'.kind = t  BY <1>1 DEF NoItem
  <1>5. Fits(p, t, t)  BY <1>4 DEF Fits, Kind, BodyPlace, FieldPlace, MemberPlace, MemberLike
  <1>6. TokenStep(t)  BY <1>1, <1>3, <1>5, TakeStep
  <1> QED  BY <1>6

LEMMA FileSteps ==
    ASSUME Shape, Skipping, Item \/ Unexpected \/ Skip \/ Include \/ NotIncluded
    PROVE  \E t : TokenStep(t)
  <1>1. CASE Item
    <2>1. ASSUME NEW t \in Separator, Take("top", t, "top"), UNCHANGED <<item, field>>
          PROVE  TokenStep(t)
      <3>1. Fits("top", t, "top")  BY DEF Fits, Separator, BodyPlace, FieldPlace, MemberPlace, MemberLike
      <3> QED  BY <2>1, <3>1, SameLike, TakeStep
    <2> QED  BY <1>1, <2>1, OpensStep DEF Item
  <1>2. CASE Unexpected
    <2>1. PICK t \in Coming \ (Kind \cup Separator \cup {"#", "eof"}) :
            /\ NextToken("top", t) /\ Watch(t) /\ Report
            /\ at' = "skip" /\ had' = 1 /\ UNCHANGED <<item, field, defs, lost>>
      BY <1>2 DEF Unexpected
    <2>2. Counts /\ Seen(t) /\ Broken'  BY <2>1 DEF Counts, Seen, Report, Reported, Broken
    <2>3. Stays /\ Ways(t) /\ Skipping'  BY <2>1, <2>2, NextTokenMoves DEF Stays, Ways, Skipping, MemberLike, MemberPlace
    <2> QED  BY <2>1, <2>2, <2>3, SameLike, NextTokenMoves DEF TokenStep
  <1>3. CASE Skip
    <2>1. ASSUME NEW t \in Coming \ (Kind \cup {"#", "eof"}), Take("skip", t, "skip"),
                 UNCHANGED <<item, field>>
          PROVE  TokenStep(t)
      <3>1. Fits("skip", t, "skip")  BY <2>1 DEF Fits, BodyPlace, FieldPlace, MemberPlace, MemberLike
      <3> QED  BY <2>1, <3>1, SameLike, TakeStep
    <2> QED  BY <1>3, <2>1, OpensStep DEF Skip
  <1>4. CASE Include
    <2>1. ASSUME Take("#", "include", "include"), UNCHANGED <<item, field>>
          PROVE  TokenStep("include")
      <3>1. Counts /\ Seen("include")  BY <2>1, TakeIs DEF Counts, Seen
      <3>2. at = "#" /\ at' = "include"  BY <2>1, TakeIs
      <3>3. Stays  BY <3>2 DEF Stays, InBody, FieldPlace, MemberPlace
      <3>4. Ways("include") /\ Skipping'  BY <3>2 DEF Ways, Skipping, MemberLike, MemberPlace
      <3> QED  BY <2>1, <3>1, <3>3, <3>4, SameLike, TakeIs DEF TokenStep
    <2> QED  BY <1>4, <2>1, RefuseStep DEF Include
  <1>5. CASE NotIncluded
    <2>1. PICK t \in String \cap Coming :
            /\ NextToken("include", t) /\ Report /\ Return(-1)
            /\ gram' = Noticed(gram, t, seen) /\ legal' = FALSE /\ UNCHANGED <<seen, defs, lost>>
      BY <1>5 DEF NotIncluded
    <2>2. Counts /\ Seen(t) /\ Broken' /\ at' = "top" /\ Likes
      BY <2>1, NewLike DEF Counts, Seen, Report, Reported, Return, Broken, Likes
    <2>3. Stays /\ Ways(t) /\ Skipping'  BY <2>2 DEF Stays, Ways, Skipping, MemberLike, MemberPlace
    <2> QED  BY <2>1, <2>2, <2>3, NextTokenMoves DEF TokenStep
  <1> QED  BY <1>1, <1>2, <1>3, <1>4, <1>5

\* A step from a place within a definition to another.
LEMMA BodyTakeStep ==
    ASSUME Shape, Skipping, Likes, NEW p \in BodyPlace, NEW t, NEW q \in BodyPlace, Take(p, t, q),
           t # "#", item'.had = item.had, item'.kind = item.kind, q \in MemberLike => p \in MemberLike
    PROVE  TokenStep(t)
  <1>1. \A r \in BodyPlace :
          r \notin {"parsed", "done", "include", "#", "skip", "skip field", "skip member"}
    BY DEF BodyPlace, FieldPlace, MemberPlace, MemberLike
  <1>2. at = p  BY TakeIs
  <1>3. Fits(p, t, q)  BY <1>1, <1>2 DEF Fits, Skipping
  <1> QED  BY <1>3, TakeStep

\* Where an item ends with r: Return.
Ending(p, t, r) ==
    /\ NextToken(p, t) /\ Watch(t)
    /\ InBody /\ item.had = 1 => r # 0
    /\ t = "#" \/ p \in {"#", "include"} => r # 0

LEMMA EndsBadly == ASSUME NEW p, NEW t, NextToken(p, t), Watch(t) PROVE Ending(p, t, -1)
  <1>1. PICK r : r = -1 /\ r # 0  OBVIOUS
  <1>2. Ending(p, t, r)  BY <1>1 DEF Ending
  <1> QED  BY <1>1, <1>2

LEMMA ReturnStep ==
    ASSUME Shape, NEW p, NEW t, NEW r, Ending(p, t, r), Return(r), errs' \in {errs, 1}, lost \subseteq lost'
    PROVE  TokenStep(t)
  <1>1. Likes /\ at' = "top"  BY NewLike DEF Return, Likes
  <1>2. Counts /\ Seen(t)  BY DEF Counts, Seen, Return, Ending
  <1>3. r # 0 => Broken'  BY DEF Return, Broken
  <1>4. Stays /\ Ways(t) /\ Skipping'
    BY <1>1, <1>3, NextTokenMoves DEF Stays, Ways, Skipping, MemberLike, MemberPlace, Ending
  <1> QED  BY <1>1, <1>2, <1>4, NextTokenMoves DEF TokenStep, Ending

LEMMA RegisterStep ==
    ASSUME Shape, NEW p, NEW t, NEW r, Ending(p, t, r), Ending(p, t, -1), NEW e \in {errs, 1}, Register(e, r)
    PROVE  TokenStep(t)
  <1>1. CASE ~Available(item.name)
    BY <1>1, ReturnStep DEF Register, Reported
  <1>2. CASE Available(item.name)
    BY <1>2, ReturnStep DEF Register
  <1> QED  BY <1>1, <1>2

LEMMA ClosedStep ==
    ASSUME Shape, NEW p, NEW t, NEW r, Ending(p, t, r), Ending(p, t, -1), NEW e \in {errs, 1}, Closed(e, r)
    PROVE  TokenStep(t)
  <1>1. CASE item.kind = "oneof" /\ item.members = <<>>
    BY <1>1, ReturnStep DEF Closed, Reported
  <1>2. CASE ~(item.kind = "oneof" /\ item.members = <<>>)
    BY <1>2, RegisterStep DEF Closed
  <1> QED  BY <1>1, <1>2

\* A step to a place where an error is on record already.
LEMMA ResyncStep ==
    ASSUME Shape, NEW p, NEW t, NextToken(p, t), Watch(t), p \notin {"#", "include"},
           at' \in FieldPlace \cup MemberPlace \cup {"skip field", "skip member"},
           item' = [item EXCEPT !.had = 1], FieldLike(field'), had' = had, errs' \in {errs, 1}, lost' = lost,
           at' \in MemberLike => item.kind \in {"enum", "oneof"}
    PROVE  TokenStep(t)
  <1>1. ItemLike(item') /\ item'.had = 1 /\ item'.kind = item.kind  BY DEF Shape, ItemLike, Bit
  <1>2. Likes /\ Counts /\ Seen(t)  BY <1>1 DEF Likes, Counts, Seen, ItemLike
  <1>3. Broken'  BY <1>1 DEF Broken, InBody
  <1>4. at' \notin {"parsed", "done", "#", "include", "skip"}  BY DEF FieldPlace, MemberPlace
  <1>5. Stays /\ Ways(t)  BY <1>3, <1>4, NextTokenMoves DEF Stays, Ways
  <1>6. Skipping'  BY <1>1, <1>4 DEF Skipping
  <1> QED  BY <1>2, <1>5, <1>6, NextTokenMoves DEF TokenStep

LEMMA EditLike ==
    ASSUME Shape
    PROVE  /\ \A v : /\ ItemLike([item EXCEPT !.name = v]) /\ [item EXCEPT !.name = v].had = item.had
                     /\ [item EXCEPT !.name = v].kind = item.kind
                     /\ ItemLike([item EXCEPT !.members = v]) /\ [item EXCEPT !.members = v].had = item.had
                     /\ [item EXCEPT !.members = v].kind = item.kind
           /\ \A v : FieldLike([field EXCEPT !.name = v]) /\ FieldLike([field EXCEPT !.value = v])
           /\ \A v : FieldLike([field EXCEPT !.type = v])
           /\ \A v, w : FieldLike([field EXCEPT !.type = v, !.kind = w])
  BY DEF Shape, ItemLike, FieldLike

LEMMA FieldPlaces == \A p \in FieldPlace : p \in BodyPlace /\ p \notin MemberLike
  BY DEF BodyPlace, FieldPlace, MemberLike, MemberPlace

LEMMA FieldSteps ==
    ASSUME Shape, Skipping, FieldNote \/ FieldType \/ MapType \/ (FieldName /\ UNCHANGED item) \/ FieldEnd
    PROVE  \E t : TokenStep(t)
  <1> USE Signs DEF Sign, Separator, Word, Primitive, Modifier, Positive, Integer, Literal, MapText, Type
  <1>1. CASE FieldNote
    <2>1. PICK p, q, t :
            /\ p \in FieldPlace /\ q \in FieldPlace
            /\ Take(p, t, q) /\ t # "#" /\ UNCHANGED <<item, field>>
      BY <1>1 DEF FieldNote, FieldPlace
    <2> QED  BY <2>1, SameLike, FieldPlaces, BodyTakeStep
  <1>2. CASE FieldType
    <2>1. ASSUME NEW p \in {"field", "noted", "modified"}, NEW q \in {"modified", "map", "name"},
                 NEW t, Take(p, t, q), t # "#", item' = item, FieldLike(field')
          PROVE  TokenStep(t)
      <3>1. p \in FieldPlace /\ q \in FieldPlace  BY DEF FieldPlace
      <3>2. Likes  BY <2>1 DEF Likes, Shape
      <3> QED  BY <2>1, <3>1, <3>2, FieldPlaces, BodyTakeStep
    <2>2. \A t \in Modifier \cup Type \cup {"map"} : t # "#"  OBVIOUS
    <2>3. FieldLike(field) /\ \A v, w : FieldLike([field EXCEPT !.type = v, !.kind = w])
      BY EditLike DEF Shape
    <2>4. PICK p \in {"field", "noted", "modified"} :
            \/ \E t \in Modifier : Take(p, t, "modified") /\ UNCHANGED <<item, field>>
            \/ Take(p, "map", "map") /\ UNCHANGED <<item, field>>
            \/ \E t \in Type :
                  /\ Take(p, t, "name") /\ item' = item
                  /\ field' = [field EXCEPT !.type = <<"", t>>, !.kind = Resolved(t, {"enum", "oneof"})]
      BY <1>2 DEF FieldType
    <2> HIDE DEF Modifier, Type, Word, Primitive
    <2>5. CASE \E t \in Modifier : Take(p, t, "modified") /\ UNCHANGED <<item, field>>
      BY <2>1, <2>2, <2>3, <2>5
    <2>6. CASE Take(p, "map", "map") /\ UNCHANGED <<item, field>>
      BY <2>1, <2>2, <2>3, <2>6
    <2>7. CASE \E t \in Type :
                  /\ Take(p, t, "name") /\ item' = item
                  /\ field' = [field EXCEPT !.type = <<"", t>>, !.kind = Resolved(t, {"enum", "oneof"})]
      <3>1. PICK t \in Type :
              /\ Take(p, t, "name") /\ item' = item
              /\ field' = [field EXCEPT !.type = <<"", t>>, !.kind = Resolved(t, {"enum", "oneof"})]
        BY <2>7
      <3>2. FieldLike(field') /\ t # "#"  BY <2>2, <2>3, <3>1
      <3>3. TokenStep(t)  BY <2>1, <3>1, <3>2
      <3> QED  BY <3>3
    <2> QED  BY <2>4, <2>5, <2>6, <2>7
  <1>3. CASE MapType
    <2>1. PICK t : /\ Take("map", t, "name") /\ t # "#" /\ item' = item
                   /\ \E v, w : field' = [field EXCEPT !.type = v, !.kind = w]
      BY <1>3 DEF MapType
    <2>2. Likes
      <3>1. ItemLike(item')  BY <2>1 DEF Shape
      <3>2. FieldLike(field')  BY <2>1 DEF Shape, FieldLike
      <3> QED  BY <3>1, <3>2 DEF Likes
    <2> QED  BY <2>1, <2>2, FieldPlaces, BodyTakeStep DEF FieldPlace
  <1>4. CASE FieldName /\ UNCHANGED item
    <2>1. PICK p, q, t :
            /\ p \in FieldPlace /\ q \in FieldPlace
            /\ Take(p, t, q) /\ t # "#" /\ item' = item
            /\ \/ field' = field
               \/ \E v : field' = [field EXCEPT !.name = v] \/ field' = [field EXCEPT !.value = v]
      BY <1>4 DEF FieldName, FieldPlace
    <2>2. Likes  BY <2>1, EditLike DEF Likes, Shape, ItemLike, FieldLike
    <2> QED  BY <2>1, <2>2, FieldPlaces, BodyTakeStep
  <1>5. CASE FieldEnd
    <2>1. PICK p \in FieldPlace :
            /\ Take(p, ";", "field") /\ item' = [item EXCEPT !.members = Append(@, field)]
            /\ field' = NewField
      BY <1>5 DEF FieldEnd, FieldPlace
    <2>2. \E v : item' = [item EXCEPT !.members = v]
      BY <2>1
    <2>3. Likes /\ item'.had = item.had /\ item'.kind = item.kind  BY <2>1, <2>2, EditLike, NewLike DEF Likes
    <2> QED  BY <2>1, <2>3, FieldPlaces, BodyTakeStep DEF FieldPlace
  <1> QED  BY <1>1, <1>2, <1>3, <1>4, <1>5

LEMMA StructSteps == ASSUME Shape, Skipping, Struct PROVE \E t : TokenStep(t)
  <1>1. CASE StructName
    <2>1. ASSUME NEW t \in Word, Take("struct", t, "struct {"), item' = [item EXCEPT !.name = t], field' = field
          PROVE  TokenStep(t)
      <3>1. Likes  BY <2>1, EditLike DEF Likes, Shape, FieldLike
      <3>2. t # "#"  BY Signs DEF Sign
      <3>3. Fits("struct", t, "struct {")  BY <3>2 DEF Fits, BodyPlace, FieldPlace, MemberPlace, MemberLike
      <3> QED  BY <2>1, <3>1, <3>3, TakeStep
    <2>2. ASSUME NextToken("struct", "eof"), Watch("eof"), Return(0), UNCHANGED <<errs, defs, lost>>
          PROVE  TokenStep("eof")
      <3>1. at = "struct"  BY <2>2, NextTokenMoves
      <3>2. ~InBody  BY <3>1 DEF InBody, FieldPlace, MemberPlace
      <3>3. Ending("struct", "eof", 0)  BY <2>2, <3>2 DEF Ending
      <3> QED  BY <2>2, <3>3, ReturnStep
    <2>3. ASSUME Take("struct {", "{", "field"), UNCHANGED <<item, field>>  PROVE TokenStep("{")
      <3>1. Fits("struct {", "{", "field")  BY DEF Fits, BodyPlace, FieldPlace, MemberPlace, MemberLike
      <3> QED  BY <2>3, <3>1, SameLike, TakeStep
    <2> QED  BY <1>1, <2>1, <2>2, <2>3, RefuseStep DEF StructName
  <1>2. CASE StructEnd
    <2>1. NextToken("field", "}") /\ Watch("}")  BY <1>2 DEF StructEnd
    <2>2. Ending("field", "}", -1)  BY <2>1, EndsBadly
    <2>3. item.had # 1 => Ending("field", "}", 0)  BY <2>1 DEF Ending
    <2>4. CASE item.had = 1  BY <1>2, <2>2, <2>4, ReturnStep DEF StructEnd
    <2>5. CASE item.had # 1  BY <1>2, <2>2, <2>3, <2>5, RegisterStep DEF StructEnd
    <2> QED  BY <2>4, <2>5
  <1>3. ASSUME NEW p \in FieldPlace \cup {"skip field"}, NEW t, NextToken(p, t), Watch(t), Resync(t),
               errs' \in {errs, 1}, lost' = lost
        PROVE  TokenStep(t)
    <2>1. p \notin {"#", "include"}  BY DEF FieldPlace
    <2>2. CASE t \in {"}", "eof"}
      <3>1. Ending(p, t, -1) /\ Return(-1)  BY <1>3, <2>2, EndsBadly DEF Resync
      <3> QED  BY <1>3, <3>1, ReturnStep
    <2>3. CASE t \notin {"}", "eof"}
      <3>4. at' \in {"field", "skip field"}  BY <1>3, <2>3 DEF Resync
      <3>1. at' \in FieldPlace \cup {"skip field"} /\ at' \notin MemberLike
        BY <3>4 DEF FieldPlace, MemberLike, MemberPlace
      <3> QED  BY <1>3, <2>1, <2>3, <3>1, ResyncStep, NewLike DEF Resync
    <2> QED  BY <2>2, <2>3
  <1>4. CASE FieldError \/ SkipField
    BY <1>3, <1>4 DEF FieldError, SkipField, Report, Reported, Read
  <1> QED  BY <1>1, <1>2, <1>4, FieldSteps DEF Struct

LEMMA MemberPlaces ==
    \A p \in MemberPlace \cup {"variant @", "tag"} : p \in BodyPlace /\ p \in MemberLike
  BY DEF BodyPlace, MemberLike

LEMMA Bodies ==
    ASSUME NEW k \in {"enum", "oneof"}
    PROVE  BodyOpen[k] \in {"enum {", "oneof {"} /\ Body[k] \in {"value", "variant"}
  <1>1. CASE k = "enum"  BY <1>1 DEF BodyOpen, Body
  <1>2. CASE k = "oneof"  BY <1>2 DEF BodyOpen, Body
  <1> QED  BY <1>1, <1>2

LEMMA Minus == \A n \in {0, 1} : (n = 1 => -n # 0) /\ (n = 0 => -n = 0)
  OBVIOUS

LEMMA MemberSteps == ASSUME Shape, Skipping, Member PROVE \E t : TokenStep(t)
  <1> DEFINE Places == MemberPlace \cup {"variant @", "tag"}
  <1>1. CASE ItemName
    <2> PICK k \in {"enum", "oneof"} :
          \/ \E t \in Word : Take(k, t, BodyOpen[k]) /\ item' = [item EXCEPT !.name = t] /\ field' = field
          \/ \E t \in Coming \ Word : Refuse(k, t)
          \/ Take(BodyOpen[k], "{", Body[k]) /\ UNCHANGED <<item, field>>
          \/ \E t \in Coming \ {"{"} : Refuse(BodyOpen[k], t)
      BY <1>1 DEF ItemName
    <2>1. BodyOpen[k] \in {"enum {", "oneof {"} /\ Body[k] \in {"value", "variant"}  BY Bodies
    <2>2. ASSUME NEW t \in Word, Take(k, t, BodyOpen[k]), item' = [item EXCEPT !.name = t], field' = field
          PROVE  TokenStep(t)
      <3>1. Likes  BY <2>2, EditLike DEF Likes, Shape, FieldLike
      <3>2. t # "#"  BY Signs DEF Sign
      <3>4. at = k /\ item'.kind = item.kind  BY <2>2, TakeIs, EditLike
      <3>5. item'.kind \in {"enum", "oneof"}  BY <3>4 DEF Skipping, MemberLike
      <3>3. Fits(k, t, BodyOpen[k])  BY <2>1, <3>2, <3>5 DEF Fits, BodyPlace, FieldPlace, MemberPlace, MemberLike
      <3> QED  BY <2>2, <3>1, <3>3, TakeStep
    <2>3. ASSUME Take(BodyOpen[k], "{", Body[k]), UNCHANGED <<item, field>>  PROVE TokenStep("{")
      <3>4. at = BodyOpen[k] /\ item' = item  BY <2>3, TakeIs
      <3>5. item'.kind \in {"enum", "oneof"}  BY <2>1, <3>4 DEF Skipping, MemberLike
      <3>1. Fits(BodyOpen[k], "{", Body[k])  BY <2>1, <3>5 DEF Fits, BodyPlace, FieldPlace, MemberPlace, MemberLike
      <3> QED  BY <2>3, <3>1, SameLike, TakeStep
    <2> QED  BY <2>2, <2>3, RefuseStep
  <1>2. CASE Enum \/ Variant
    <2> USE Signs DEF Sign, Separator, Word, Primitive, Modifier
    <2>1. PICK p, q, t :
            /\ p \in Places /\ q \in Places
            /\ Take(p, t, q) /\ t # "#"
            /\ item' = item \/ \E v : item' = [item EXCEPT !.members = v]
            /\ \/ field' = field \/ field' = NewField
               \/ \E v : field' = [field EXCEPT !.name = v] \/ field' = [field EXCEPT !.type = v]
      <3>1. CASE Enum  BY <3>1 DEF Enum, Value, MemberPlace
      <3>2. CASE Variant  BY <3>2 DEF Variant, MemberPlace
      <3> QED  BY <1>2, <3>1, <3>2
    <2>2. Likes /\ item'.had = item.had /\ item'.kind = item.kind
      <3>1. ItemLike(item') /\ item'.had = item.had /\ item'.kind = item.kind  BY <2>1, EditLike DEF Shape, ItemLike
      <3>2. FieldLike(field')  BY <2>1, EditLike, NewLike DEF Shape, FieldLike
      <3> QED  BY <3>1, <3>2 DEF Likes
    <2> QED  BY <2>1, <2>2, MemberPlaces, BodyTakeStep
  <1>3. CASE ItemEnd
    <2>1. PICK p \in {"value", "after value", "variant"} :
            NextToken(p, "}") /\ Watch("}") /\ Closed(errs, -item.had)
      BY <1>3 DEF ItemEnd
    <2>2. PICK n \in {0, 1} : n = item.had  BY DEF Shape, ItemLike, Bit
    <2>3. n = 1 => -n # 0  BY Minus
    <2> DEFINE r == -n
    <2> HIDE DEF r
    <2>6. r = -n  BY DEF r
    <2>7. item.had = 1 => r # 0  BY <2>2, <2>3, <2>6
    <2>4. Ending(p, "}", r)  BY <2>1, <2>7 DEF Ending
    <2>5. Ending(p, "}", -1)  BY <2>1, EndsBadly
    <2> QED  BY <2>1, <2>2, <2>4, <2>5, <2>6, ClosedStep
  <1>4. ASSUME NEW p \in MemberPlace \cup {"skip member"}, NEW t, NEW e \in {errs, 1},
               NextToken(p, t), Watch(t), ResyncMember(t, e)
        PROVE  TokenStep(t)
    <2>0. item.kind \in {"enum", "oneof"}
      <3>1. at = p  BY <1>4, NextTokenMoves
      <3> QED  BY <3>1 DEF Skipping, MemberLike
    <2>1. p \notin {"#", "include"}  BY DEF MemberPlace
    <2>2. CASE t = "}"
      <3>1. Ending(p, t, -1) /\ Closed(e, -1)  BY <1>4, <2>2, EndsBadly DEF ResyncMember
      <3> QED  BY <1>4, <3>1, ClosedStep
    <2>3. CASE t # "}"
      <3>1. at' = "skip member" \/ at' = Body[item.kind]  BY <1>4, <2>3 DEF ResyncMember
      <3>2. at' \in MemberPlace \cup {"skip member"}  BY <2>0, <3>1, Bodies DEF MemberPlace
      <3> QED  BY <1>4, <2>0, <2>1, <2>3, <3>2, ResyncStep, NewLike DEF ResyncMember
    <2> QED  BY <2>2, <2>3
  <1>5. CASE MemberError \/ SkipMember
    BY <1>4, <1>5 DEF MemberError, SkipMember, Reported, Read
  <1>6. CASE BadNote
    <2>1. PICK p \in {"variant @", "tag"}, t \in Coming :
            /\ NextToken(p, t) /\ Watch(t) /\ Report /\ at' = "variant"
            /\ item' = [item EXCEPT !.had = 1] /\ UNCHANGED <<had, field, defs, lost>>
      BY <1>6 DEF BadNote
    <2>2. FieldLike(field')  BY <2>1 DEF Shape
    <2>3. at = p  BY <2>1, NextTokenMoves
    <2>4. item.kind \in {"enum", "oneof"}  BY <2>3 DEF Skipping, MemberLike
    <2> QED  BY <2>1, <2>2, <2>4, ResyncStep DEF Report, Reported, MemberPlace
  <1>7. CASE Unclosed  BY <1>7, RefuseStep DEF Unclosed
  <1> QED  BY <1>1, <1>2, <1>3, <1>5, <1>6, <1>7 DEF Member

\* Every step reads a token, opens or closes a file, or comes after the files.
LEMMA StepIs ==
    ASSUME Shape, Skipping, [Next]_vars
    PROVE  (\E t : TokenStep(t)) \/ EndOfFile \/ Included \/ Validate \/ vars' = vars
  BY FileSteps, StructSteps, MemberSteps DEF Next, Done

-----------------------------------------------------------------------------
(***************************************************************************)
(* The shape is kept.                                                      *)
(***************************************************************************)
LEMMA ShapeInit == Init => Shape /\ Skipping
  <1> SUFFICES ASSUME Init  PROVE Shape /\ Skipping
    OBVIOUS
  <1>1. callers = <<>> /\ callers \in Seq({}) /\ Len(callers) = 0 /\ seen \in Seq({})
    BY DEF Init
  <1>2. text \in Documents /\ Root \in DOMAIN text
    BY SchemaAssumption DEF Init, SchemaAssumption
  <1>3. InText(text, file)  BY <1>2 DEF Init, InText
  <1>4. had \in Bit /\ errs \in Bit /\ at = "top"  BY DEF Init, Bit
  <1>5. ItemLike(item) /\ FieldLike(field) /\ GramLike(gram)  BY NewLike DEF Init
  <1>6. Skipping  BY <1>4 DEF Skipping, MemberLike, MemberPlace
  <1> QED  BY <1>1, <1>2, <1>3, <1>4, <1>5, <1>6 DEF Shape

LEMMA WatchShape ==
    ASSUME Shape, NEW t, Seen(t)
    PROVE  GramLike(gram') /\ \E S : seen' \in Seq(S)
  <1>1. PICK S : seen \in Seq(S)  BY DEF Shape
  <1>2. GramLike(gram) /\ GramLike(Noticed(gram, t, seen))  BY NoticedLike DEF Shape
  <1>3. GramLike(gram')  BY <1>2 DEF Seen, Watch, history
  <1>4. seen' = seen \/ \E d : seen' = Append(seen, d)  BY DEF Seen, Watch, history
  <1>5. ASSUME NEW d, seen' = Append(seen, d)  PROVE seen' \in Seq(S \cup {d})
    <2>1. seen \in Seq(S \cup {d})  BY <1>1
    <2> QED  BY <1>5, <2>1
  <1> QED  BY <1>1, <1>3, <1>4, <1>5

LEMMA TokenShape == ASSUME Shape, NEW t, TokenStep(t) PROVE Shape'
  <1>1. text' = text /\ callers' = callers /\ InText(text', file')  BY DEF TokenStep, Moved
  <1>2. GramLike(gram') /\ \E S : seen' \in Seq(S)  BY WatchShape DEF TokenStep
  <1>3. had' \in Bit /\ errs' \in Bit  BY DEF TokenStep, Counts, Shape, Bit
  <1>4. \A i \in 1..Len(callers') : CallerLike(text', callers'[i])
    BY <1>1 DEF Shape, CallerLike, InText
  <1> QED  BY <1>1, <1>2, <1>3, <1>4 DEF Shape, TokenStep, Likes

\* The end of an included file: its caller goes on.
Returned == LET c == callers[Len(callers)]
            IN  /\ callers # <<>> /\ at' = "top" /\ result' = result
                /\ had' = (IF Failed THEN 1 ELSE c.had)
                /\ file' = c.file /\ errs' = c.errs /\ gram' = c.gram
                /\ callers' = SubSeq(callers, 1, Len(callers) - 1)
\* The end of the main file.
Over == /\ callers = <<>> /\ at' = "parsed" /\ result' = (IF Failed THEN -1 ELSE 0)
        /\ UNCHANGED <<file, had, errs, gram, callers>>
EofIs == /\ at \in {"top", "skip"} /\ "eof" \in Coming /\ legal' = (legal /\ gram.state \in Final)
         /\ Over \/ Returned
         /\ UNCHANGED <<text, item, field, defs, lost, seen>>

LEMMA EndOfFileIs == EndOfFile => EofIs
  BY DEF EndOfFile, EofIs, Over, Returned, here

LEMMA CallersPop ==
    ASSUME Shape, Returned
    PROVE  /\ Len(callers) \in Nat \ {0} /\ Len(callers') = Len(callers) - 1 /\ \E S : callers' \in Seq(S)
           /\ \A i \in 1..(Len(callers) - 1) : callers'[i] = callers[i]
  <1>1. PICK S : callers \in Seq(S)  BY DEF Shape
  <1>2. Len(callers) \in Nat \ {0} /\ DOMAIN callers = 1..Len(callers)  BY <1>1 DEF Returned
  <1>3. callers' = SubSeq(callers, 1, Len(callers) - 1)  BY DEF Returned
  <1>4. /\ callers' \in Seq(S) /\ Len(callers') = Len(callers) - 1
        /\ \A i \in 1..(Len(callers) - 1) : callers'[i] = callers[i]
    BY <1>1, <1>2, <1>3
  <1> QED  BY <1>2, <1>4

LEMMA EofShape == ASSUME Shape, EofIs PROVE Shape' /\ Skipping'
  <1>1. Skipping'  BY DEF Skipping, EofIs, Over, Returned, MemberLike, MemberPlace
  <1>2. CASE Over
    <2>1. \A i \in 1..Len(callers') : CallerLike(text', callers'[i])
      BY <1>2 DEF Shape, CallerLike, InText, EofIs, Over
    <2> QED  BY <1>1, <1>2, <2>1 DEF Shape, EofIs, Over, InText
  <1>3. CASE Returned
    <2> DEFINE n == Len(callers)
               c == callers[n]
    <2>1. /\ n \in Nat \ {0} /\ Len(callers') = n - 1 /\ \E S : callers' \in Seq(S)
          /\ \A i \in 1..(n - 1) : callers'[i] = callers[i]
      BY <1>3, CallersPop
    <2>2. text' = text  BY DEF EofIs
    <2>3. CallerLike(text, c) /\ \A i \in 1..(n - 1) : CallerLike(text, callers[i])
      BY <2>1 DEF Shape
    <2>4. InText(text', file')  BY <1>3, <2>2, <2>3 DEF CallerLike, InText, Returned
    <2>5. had' \in Bit /\ errs' \in Bit /\ GramLike(gram')  BY <1>3, <2>3 DEF CallerLike, Returned, Bit
    <2>6. \A i \in 1..Len(callers') : CallerLike(text', callers'[i])
      BY <2>1, <2>2, <2>3 DEF CallerLike, InText
    <2> QED  BY <1>1, <2>1, <2>2, <2>4, <2>5, <2>6 DEF Shape, EofIs
  <1> QED  BY <1>2, <1>3 DEF EofIs

\* An included file, by the token t, and the caller c it returns to.
Enters(t, c) ==
    /\ at = "include" /\ t \in String \cap Coming /\ ~Circular(PathOf(t)) /\ ~Missing(PathOf(t))
    /\ callers' = Append(callers, c) /\ Len(callers') = Len(callers) + 1
    /\ callers'[Len(callers) + 1] = c /\ \A i \in 1..Len(callers) : callers'[i] = callers[i]
    /\ DOMAIN c.file = {"path", "pos"} /\ c.file.path = file.path /\ c.file.pos = file.pos + 1
    /\ c.had = had /\ c.errs = errs /\ c.gram = Noticed(gram, t, seen)
    /\ file' = [path |-> PathOf(t), pos |-> 1] /\ had' = 0 /\ errs' = 0
    /\ gram' = Grammar /\ legal' = (legal /\ Includable(PathOf(t)))
    /\ at' = "top" /\ UNCHANGED <<text, item, field, defs, lost, result, seen>>

LEMMA IncludedIs == ASSUME Shape, Included PROVE \E t, c : Enters(t, c)
  <1>1. PICK t \in String \cap Coming :
          /\ at = "include" /\ ~Circular(PathOf(t)) /\ ~Missing(PathOf(t))
          /\ callers' = Append(callers,
               [file |-> [file EXCEPT !.pos = @ + 1], had |-> had, errs |-> errs,
                gram |-> Noticed(gram, t, seen)])
          /\ file' = [path |-> PathOf(t), pos |-> 1] /\ had' = 0 /\ errs' = 0
          /\ gram' = Grammar /\ legal' = (legal /\ Includable(PathOf(t)))
          /\ at' = "top" /\ UNCHANGED <<text, item, field, defs, lost, result, seen>>
    BY DEF Included
  <1>2. DOMAIN file = {"path", "pos"}  BY DEF Shape, InText
  <1> DEFINE f == [file EXCEPT !.pos = @ + 1]
             c == [file |-> f, had |-> had, errs |-> errs, gram |-> Noticed(gram, t, seen)]
  <1>3. DOMAIN f = {"path", "pos"} /\ f.path = file.path /\ f.pos = file.pos + 1  BY <1>2
  <1>4. c.file = f /\ c.had = had /\ c.errs = errs /\ c.gram = Noticed(gram, t, seen)  OBVIOUS
  <1>5. callers' = Append(callers, c)  BY <1>1
  <1> HIDE DEF f, c
  <1>6. PICK S : callers \in Seq(S)  BY DEF Shape
  <1>7. callers \in Seq(S \cup {c})  BY <1>6
  <1>8. /\ Len(callers') = Len(callers) + 1 /\ callers'[Len(callers) + 1] = c
        /\ \A i \in 1..Len(callers) : callers'[i] = callers[i]
    BY <1>5, <1>7
  <1>9. Enters(t, c)  BY <1>1, <1>3, <1>4, <1>5, <1>8 DEF Enters
  <1> QED  BY <1>9

LEMMA EntersShape == ASSUME Shape, NEW t, NEW c, Enters(t, c) PROVE Shape' /\ Skipping'
  <1>1. Skipping'  BY DEF Skipping, Enters, MemberLike, MemberPlace
  <1>2. PICK S : callers \in Seq(S)  BY DEF Shape
  <1>3. callers \in Seq(S \cup {c})  BY <1>2
  <1>4. callers' \in Seq(S \cup {c})  BY <1>3 DEF Enters
  <1>5. Len(callers) \in Nat  BY <1>2
  <1>6. text' = text  BY DEF Enters
  <1>7. InText(text', c.file) /\ GramLike(c.gram)
    <2>1. InText(text, c.file)  BY DEF Enters, Shape, InText
    <2>2. GramLike(c.gram)
      <3>1. GramLike(gram) /\ c.gram = Noticed(gram, t, seen)  BY DEF Enters, Shape
      <3> QED  BY <3>1, NoticedLike
    <2> QED  BY <1>6, <2>1, <2>2 DEF InText
  <1>8. CallerLike(text', c)  BY <1>7 DEF CallerLike, Enters, Shape
  <1>9. \A i \in 1..Len(callers') : CallerLike(text', callers'[i])
    <2> TAKE i \in 1..Len(callers')
    <2>1. CASE i = Len(callers) + 1  BY <1>8, <2>1 DEF Enters
    <2>2. CASE i # Len(callers) + 1
      <3>1. i \in 1..Len(callers) /\ callers'[i] = callers[i]  BY <1>5, <2>2 DEF Enters
      <3>2. CallerLike(text, callers[i])  BY <3>1 DEF Shape
      <3> QED  BY <1>6, <3>1, <3>2 DEF CallerLike, InText
    <2> QED  BY <2>1, <2>2
  <1>10. InText(text', file')
    <2>1. PathOf(t).file \in DOMAIN text  BY DEF Enters, Missing
    <2> QED  BY <1>6, <2>1 DEF Enters, InText
  <1> QED  BY <1>1, <1>4, <1>6, <1>9, <1>10, NewLike DEF Shape, Enters, Bit

LEMMA ShapeStep == Shape /\ Skipping /\ [Next]_vars => Shape' /\ Skipping'
  <1> SUFFICES ASSUME Shape, Skipping, [Next]_vars  PROVE Shape' /\ Skipping'
    OBVIOUS
  <1>1. CASE \E t : TokenStep(t)  BY <1>1, TokenShape DEF TokenStep
  <1>2. CASE EndOfFile  BY <1>2, EndOfFileIs, EofShape
  <1>3. CASE Included  BY <1>3, IncludedIs, EntersShape
  <1>4. CASE Validate \/ vars' = vars
    <2>1. UNCHANGED <<text, file, had, errs, callers, item, field, gram, seen>>
      BY <1>4 DEF Validate, vars, here, history
    <2>2. Skipping'  BY <1>4, <2>1 DEF Validate, vars, Skipping, MemberLike, MemberPlace
    <2>3. Shape'  BY <2>1 DEF Shape, CallerLike, InText
    <2> QED  BY <2>2, <2>3
  <1> QED  BY <1>1, <1>2, <1>3, <1>4, StepIs

-----------------------------------------------------------------------------
(***************************************************************************)
(* How the files that are open lead to each other.                         *)
(***************************************************************************)
\* An include directive of the file f at q, among the choices there, to the file g.
Directive(d, f, q, g) ==
    /\ q \in 1..(Len(d[f]) - 2) /\ "#" \in d[f][q] /\ "include" \in d[f][q + 1]
    /\ \E s \in String \cap d[f][q + 2] : Strings[s].file = g

\* The file at a depth of includes, the current one last.
Level(i) == IF i \in 1..Len(callers) THEN callers[i].file.path.file ELSE file.path.file

Links ==
    /\ \A i \in 1..Len(callers) : Directive(text, Level(i), callers[i].file.pos - 3, Level(i + 1))
    /\ at \in {"#", "include"} => file.pos - 1 \in 1..Len(Here)
    /\ at = "#" => "#" \in Here[file.pos - 1]
    /\ at = "include" => /\ file.pos - 2 \in 1..Len(Here)
                         /\ "#" \in Here[file.pos - 2] /\ "include" \in Here[file.pos - 1]

LEMMA LinksInit == Init => Links
  BY DEF Init, Links

LEMMA TokenLinks == ASSUME Shape, Links, NEW t, TokenStep(t) PROVE Links'
  <1>1. /\ text' = text /\ callers' = callers /\ file'.path = file.path /\ Here' = Here
        /\ file'.pos = IF t = "eof" THEN Len(Here) + 1 ELSE file.pos + 1
        /\ t \in Coming /\ file.pos \in Nat /\ Ways(t)
    BY DEF TokenStep, Moved, Here, Shape, InText
  <1>2. \A i \in 1..Len(callers') : Directive(text', Level(i)', callers'[i].file.pos - 3, Level(i + 1)')
    BY <1>1 DEF Links, Level
  <1>3. t # "eof" => file.pos \in 1..Len(Here) /\ t \in Here[file.pos] /\ file'.pos - 1 = file.pos
    BY <1>1, ComingIs
  <1>4. at' = "#" => file'.pos - 1 \in 1..Len(Here') /\ "#" \in Here'[file'.pos - 1]
    BY <1>1, <1>3 DEF Ways
  <1>5. at' = "include" => /\ file'.pos - 1 \in 1..Len(Here') /\ file'.pos - 2 \in 1..Len(Here')
                           /\ "#" \in Here'[file'.pos - 2] /\ "include" \in Here'[file'.pos - 1]
    <2> SUFFICES ASSUME at' = "include"
                 PROVE  /\ file'.pos - 1 \in 1..Len(Here) /\ file'.pos - 2 \in 1..Len(Here)
                        /\ "#" \in Here[file'.pos - 2] /\ "include" \in Here[file'.pos - 1]
      BY <1>1
    <2>1. at = "#" /\ t = "include"  BY <1>1 DEF Ways
    <2>2. file'.pos - 1 = file.pos /\ file'.pos - 2 = file.pos - 1  BY <1>1, <2>1
    <2>3. file.pos - 1 \in 1..Len(Here) /\ "#" \in Here[file.pos - 1]  BY <2>1 DEF Links
    <2> QED  BY <1>3, <2>1, <2>2, <2>3
  <1> QED  BY <1>2, <1>4, <1>5 DEF Links

LEMMA EofLinks == ASSUME Shape, Links, EofIs PROVE Links'
  <1>1. at' \notin {"#", "include"} /\ text' = text  BY DEF EofIs, Over, Returned
  <1>2. CASE Over  BY <1>1, <1>2 DEF Links, Over, Level
  <1>3. CASE Returned
    <2>1. /\ Len(callers) \in Nat \ {0} /\ Len(callers') = Len(callers) - 1
          /\ \A i \in 1..(Len(callers) - 1) : callers'[i] = callers[i]
          /\ file' = callers[Len(callers)].file
      BY <1>3, CallersPop DEF Returned
    <2>2. \A i \in 1..Len(callers) : Level(i)' = Level(i)  BY <2>1 DEF Level
    <2>3. \A i \in 1..Len(callers') : Directive(text', Level(i)', callers'[i].file.pos - 3, Level(i + 1)')
      BY <1>1, <2>1, <2>2 DEF Links
    <2> QED  BY <1>1, <2>3 DEF Links
  <1> QED  BY <1>2, <1>3 DEF EofIs

LEMMA EntersDirective ==
    ASSUME Shape, Links, NEW t, NEW c, Enters(t, c)
    PROVE  Directive(text, file.path.file, file.pos - 2, Strings[t].file)
  <1>1. file.pos - 1 \in 1..Len(Here) /\ file.pos - 2 \in 1..Len(Here)
    BY DEF Enters, Links
  <1>2. "#" \in Here[file.pos - 2] /\ "include" \in Here[file.pos - 1]  BY DEF Enters, Links
  <1>3. t # "eof" /\ t \in Coming  BY Signs DEF Enters
  <1>4. file.pos \in 1..Len(Here) /\ t \in Here[file.pos]  BY <1>3, ComingIs
  <1>5. /\ Len(Here) \in Nat /\ file.pos - 2 + 1 = file.pos - 1 /\ file.pos - 2 + 2 = file.pos
        /\ file.pos - 2 \in 1..(Len(Here) - 2)
    BY <1>1, <1>4, HereIs
  <1> QED  BY <1>2, <1>4, <1>5 DEF Enters, Directive, Here

LEMMA EntersLinks == ASSUME Shape, Links, NEW t, NEW c, Enters(t, c) PROVE Links'
  <1>1. Len(callers) \in Nat  BY DEF Shape
  <1>2. /\ text' = text /\ at' = "top" /\ file'.path.file = Strings[t].file
        /\ Len(callers') = Len(callers) + 1 /\ callers'[Len(callers) + 1] = c
        /\ \A i \in 1..Len(callers) : callers'[i] = callers[i]
        /\ c.file.path = file.path /\ c.file.pos = file.pos + 1
    BY DEF Enters, PathOf
  <1>3. \A i \in 1..(Len(callers) + 1) : Level(i)' = Level(i)  BY <1>1, <1>2 DEF Level
  <1>5. ASSUME NEW i \in 1..Len(callers')
        PROVE  Directive(text', Level(i)', callers'[i].file.pos - 3, Level(i + 1)')
    <2>1. CASE i \in 1..Len(callers)  BY <1>1, <1>2, <1>3, <2>1 DEF Links
    <2>2. CASE i = Len(callers) + 1
      <3>1. Level(i)' = file.path.file  BY <1>1, <1>2, <2>2 DEF Level
      <3>2. Level(i + 1)' = Strings[t].file  BY <1>1, <1>2, <2>2 DEF Level
      <3>3. callers'[i].file.pos - 3 = file.pos - 2  BY <1>2, <2>2 DEF Shape, InText
      <3> QED  BY <1>2, <3>1, <3>2, <3>3, EntersDirective
    <2> QED  BY <1>1, <1>2, <2>1, <2>2
  <1> QED  BY <1>2, <1>5 DEF Links

LEMMA LinksStep == Shape /\ Skipping /\ Links /\ [Next]_vars => Links'
  <1> SUFFICES ASSUME Shape, Skipping, Links, [Next]_vars  PROVE Links'
    OBVIOUS
  <1>1. CASE \E t : TokenStep(t)  BY <1>1, TokenLinks
  <1>2. CASE EndOfFile  BY <1>2, EndOfFileIs, EofLinks
  <1>3. CASE Included  BY <1>3, IncludedIs, EntersLinks
  <1>4. CASE Validate \/ vars' = vars
    <2>1. UNCHANGED <<text, file, callers>> /\ (at' = "done" \/ at' = at)
      BY <1>4 DEF Validate, vars, here
    <2> QED  BY <2>1 DEF Links, Level, Here
  <1> QED  BY <1>1, <1>2, <1>3, <1>4, StepIs

-----------------------------------------------------------------------------
(***************************************************************************)
(* An error on record stays on record, and a broken rule broken.           *)
(***************************************************************************)
AtEnd == file.pos > Len(Here)
Failing == Broken \/ \E i \in 1..Len(callers) : callers[i].had = 1 \/ callers[i].errs = 1
Illegal == \/ ~legal \/ gram.state = "bad" \/ (AtEnd /\ gram.state \notin Final)
           \/ \E i \in 1..Len(callers) : callers[i].gram.state = "bad"
Ruined == Illegal /\ Failing

LEMMA TokenFailing == ASSUME Shape, Failing, NEW t, TokenStep(t) PROVE Failing'
  <1>1. Broken => Broken'  BY DEF Broken, TokenStep, Counts, Stays
  <1>2. callers' = callers  BY DEF TokenStep, Moved
  <1> QED  BY <1>1, <1>2 DEF Failing

LEMMA StateIs == ASSUME NEW g, GramLike(g), NEW t, NEW known PROVE Noticed(g, t, known).state = After(g, t, known)
  <1>1. DOMAIN g = {"state", "kind", "name", "type", "members"}  BY DEF GramLike
  <1> QED  BY <1>1 DEF Noticed

LEMMA BadStays == ASSUME Shape, gram.state = "bad", NEW t PROVE Noticed(gram, t, seen).state = "bad"
  <1>1. Goes("bad", t) = "bad"  BY DEF Goes, Kind
  <1>2. After(gram, t, seen) = "bad"  BY <1>1 DEF After
  <1> QED  BY <1>2, StateIs DEF Shape

LEMMA TokenIllegal == ASSUME Shape, Illegal, NEW t, TokenStep(t) PROVE Illegal'
  <1>1. callers' = callers /\ text' = text /\ file'.path = file.path /\ Here' = Here /\ Seen(t) /\ t \in Coming
    BY DEF TokenStep, Moved, Here
  <1>2. ~legal => ~legal'  BY <1>1 DEF Seen, Watch, history
  <1>3. CASE gram.state = "bad"
    <2>1. Noticed(gram, t, seen).state = "bad"  BY <1>3, BadStays
    <2>2. gram'.state = "bad"  BY <1>1, <1>3, <2>1 DEF Seen, Watch, history
    <2> QED  BY <2>2 DEF Illegal
  <1>4. CASE AtEnd /\ gram.state \notin Final
    <2>1. t = "eof"  BY <1>1, <1>4, ComingIs DEF AtEnd
    <2>2. gram' = gram \/ ~legal'  BY <1>1, <2>1 DEF Seen, Watch, history
    <2>3. file'.pos > Len(Here')  BY <1>1, <2>1, HereIs DEF TokenStep, Moved
    <2> QED  BY <1>4, <2>2, <2>3 DEF Illegal, AtEnd
  <1> QED  BY <1>1, <1>2, <1>3, <1>4 DEF Illegal

LEMMA TokenRuined == ASSUME Shape, Ruined, NEW t, TokenStep(t) PROVE Ruined'
  BY TokenFailing, TokenIllegal DEF Ruined

LEMMA NotInBody == at \in {"top", "skip", "include"} => ~InBody
  BY DEF InBody, FieldPlace, MemberPlace

LEMMA ReturnedRuined == ASSUME Shape, Ruined, EofIs, Returned PROVE Ruined'
  <1>1. /\ Len(callers) \in Nat \ {0} /\ Len(callers') = Len(callers) - 1
        /\ \A i \in 1..(Len(callers) - 1) : callers'[i] = callers[i]
    BY CallersPop
  <1>2. Failing'
    <2>1. CASE Failed  BY <2>1 DEF Returned, Failing, Broken
    <2>2. CASE ~Failed
      <3>1. ~Broken  BY <2>2, NotInBody DEF EofIs, Broken, Failed
      <3>2. PICK i \in 1..Len(callers) : callers[i].had = 1 \/ callers[i].errs = 1
        BY <3>1 DEF Ruined, Failing
      <3>3. CASE i = Len(callers)  BY <3>2, <3>3 DEF Returned, Failing, Broken
      <3>4. CASE i # Len(callers)  BY <1>1, <3>2, <3>4 DEF Failing
      <3> QED  BY <3>3, <3>4
    <2> QED  BY <2>1, <2>2
  <1>3. Illegal'
    <2>1. CASE \E i \in 1..Len(callers) : callers[i].gram.state = "bad"
      <3>1. PICK i \in 1..Len(callers) : callers[i].gram.state = "bad"  BY <2>1
      <3>2. CASE i = Len(callers)  BY <3>1, <3>2 DEF Returned, Illegal
      <3>3. CASE i # Len(callers)  BY <1>1, <3>1, <3>3 DEF Illegal
      <3> QED  BY <3>2, <3>3
    <2>2. CASE ~legal \/ gram.state \notin Final  BY <2>2 DEF EofIs, Illegal
    <2> QED  BY <2>1, <2>2 DEF Ruined, Illegal, Final
  <1> QED  BY <1>2, <1>3 DEF Ruined

LEMMA EntersRuined == ASSUME Shape, Ruined, NEW t, NEW c, Enters(t, c) PROVE Ruined'
  <1>1. Len(callers) \in Nat  BY DEF Shape
  <1>2. /\ Len(callers') = Len(callers) + 1 /\ callers'[Len(callers) + 1] = c
        /\ \A i \in 1..Len(callers) : callers'[i] = callers[i]
    BY DEF Enters
  <1>3. Failing'
    <2>1. CASE Broken
      <3>1. c.had = 1 \/ c.errs = 1  BY <2>1, NotInBody DEF Broken, Enters
      <3> QED  BY <1>1, <1>2, <3>1 DEF Failing
    <2>2. CASE ~Broken  BY <1>1, <1>2, <2>2 DEF Ruined, Failing
    <2> QED  BY <2>1, <2>2
  <1>4. Illegal'
    <2>1. CASE \E i \in 1..Len(callers) : callers[i].gram.state = "bad"
      BY <1>1, <1>2, <2>1 DEF Illegal
    <2>2. CASE ~legal  BY <2>2 DEF Enters, Illegal
    <2>3. CASE gram.state = "bad"
      <3>1. c.gram.state = "bad"  BY <2>3, BadStays DEF Enters
      <3> QED  BY <1>1, <1>2, <3>1 DEF Illegal
    <2>4. ~AtEnd
      <3>1. t # "eof" /\ t \in Coming  BY Signs DEF Enters
      <3> QED  BY <3>1, ComingIs DEF AtEnd
    <2> QED  BY <2>1, <2>2, <2>3, <2>4 DEF Ruined, Illegal
  <1> QED  BY <1>3, <1>4 DEF Ruined

-----------------------------------------------------------------------------
(***************************************************************************)
(* A circle of files.                                                      *)
(***************************************************************************)
\* At q the file f includes a file of C, whatever is chosen in it.
Leads(d, f, q, C) ==
    /\ q \in 1..(Len(d[f]) - 2) /\ d[f][q] = {"#"} /\ d[f][q + 1] = {"include"}
    /\ \E s \in String : d[f][q + 2] = {s} /\ Strings[s].file \in C
Circle(d, C) == C \subseteq DOMAIN d /\ \A f \in C : \E q : Leads(d, f, q, C)

\* A caller that will come to it, and the file being read on the way to it.
Before(d, C, f) == f.path.file \in C /\ \E q : Leads(d, f.path.file, q, C) /\ f.pos <= q
Amid(C) == /\ file.path.file \in C
           /\ \E q : /\ Leads(text, file.path.file, q, C)
                     /\ \/ file.pos <= q
                        \/ at = "#" /\ file.pos = q + 1
                        \/ at = "include" /\ file.pos = q + 2
Around(C) == Amid(C) \/ \E i \in 1..Len(callers) : Before(text, C, callers[i].file)
Doomed == ~legal /\ \E C : Circle(text, C) /\ Around(C)

LEMMA TokenDoomed == ASSUME Shape, Doomed, NEW t, TokenStep(t) PROVE Doomed' \/ Ruined'
  <1>1. PICK C : Circle(text, C) /\ Around(C)  BY DEF Doomed
  <1>2. /\ callers' = callers /\ text' = text /\ file'.path = file.path /\ t \in Coming
        /\ file'.pos = IF t = "eof" THEN Len(Here) + 1 ELSE file.pos + 1
        /\ Ways(t) /\ Seen(t) /\ file.pos \in Nat
    BY DEF TokenStep, Moved, Shape, InText
  <1>3. ~legal'  BY <1>2 DEF Doomed, Seen, Watch, history
  <1>4. Broken' => Ruined'  BY <1>3 DEF Ruined, Illegal, Failing
  <1>5. CASE \E i \in 1..Len(callers) : Before(text, C, callers[i].file)
    BY <1>1, <1>2, <1>3, <1>5 DEF Doomed, Around
  <1>6. CASE Amid(C)
    <2>1. PICK q : /\ Leads(text, file.path.file, q, C)
                   /\ \/ file.pos <= q
                      \/ at = "#" /\ file.pos = q + 1
                      \/ at = "include" /\ file.pos = q + 2
      BY <1>6 DEF Amid
    <2>2. q \in Nat /\ q + 2 <= Len(Here) /\ Here[q] = {"#"} /\ Here[q + 1] = {"include"}
      BY <2>1, HereIs DEF Leads, Here
    <2>3. file.pos \in 1..Len(Here) /\ t \in Here[file.pos] /\ file'.pos = file.pos + 1
      <3>1. ~(file.pos > Len(Here))  BY <1>2, <2>1, <2>2, HereIs
      <3> QED  BY <1>2, <3>1, ComingIs
    <2>4. ASSUME file'.pos <= q \/ (at' = "#" /\ file'.pos = q + 1)
                 \/ (at' = "include" /\ file'.pos = q + 2)
          PROVE  Doomed'
      <3>1. Amid(C)'  BY <1>2, <1>6, <2>1, <2>4 DEF Amid
      <3> QED  BY <1>1, <1>2, <1>3, <3>1 DEF Doomed, Around
    <2>5. CASE file.pos < q  BY <2>2, <2>3, <2>4, <2>5
    <2>6. CASE file.pos = q
      <3>1. t = "#"  BY <2>2, <2>3, <2>6
      <3> QED  BY <1>2, <1>4, <2>3, <2>4, <2>6, <3>1 DEF Ways
    <2>7. CASE at = "#" /\ file.pos = q + 1  BY <1>2, <1>4, <2>2, <2>3, <2>4, <2>7 DEF Ways
    <2>8. CASE at = "include"  BY <1>2, <1>4, <2>8 DEF Ways
    <2> QED  BY <1>2, <2>1, <2>2, <2>5, <2>6, <2>7, <2>8
  <1> QED  BY <1>1, <1>5, <1>6 DEF Around

\* The end of a file is not the end of one that leads back to itself.
LEMMA AmidGoesOn == ASSUME Shape, EofIs, NEW C PROVE ~Amid(C)
  <1> SUFFICES ASSUME Amid(C)  PROVE FALSE
    OBVIOUS
  <1>1. PICK q : Leads(text, file.path.file, q, C) /\ file.pos <= q  BY DEF Amid, EofIs
  <1>2. q \in Nat /\ q + 2 <= Len(Here)  BY <1>1, HereIs DEF Leads, Here
  <1>3. file.pos > Len(Here)  BY ComingIs DEF EofIs
  <1> QED  BY <1>1, <1>2, <1>3, HereIs DEF Shape, InText

LEMMA OverNotDoomed == ASSUME Shape, EofIs, Over PROVE ~Doomed
  BY AmidGoesOn DEF Doomed, Around, Over

LEMMA ReturnedDoomed == ASSUME Shape, Doomed, EofIs, Returned PROVE Doomed'
  <1>1. PICK C : Circle(text, C) /\ Around(C)  BY DEF Doomed
  <1>2. PICK i \in 1..Len(callers) : Before(text, C, callers[i].file)
    BY <1>1, AmidGoesOn DEF Around
  <1>3. /\ Len(callers) \in Nat \ {0} /\ Len(callers') = Len(callers) - 1
        /\ \A j \in 1..(Len(callers) - 1) : callers'[j] = callers[j]
        /\ text' = text /\ file' = callers[Len(callers)].file /\ ~legal'
    BY CallersPop DEF Returned, EofIs, Doomed
  <1>4. CASE i = Len(callers)
    <2>1. Amid(C)'  BY <1>2, <1>3, <1>4 DEF Before, Amid
    <2> QED  BY <1>1, <1>3, <2>1 DEF Doomed, Around
  <1>5. CASE i # Len(callers)
    <2>1. i \in 1..Len(callers') /\ callers'[i] = callers[i]  BY <1>3, <1>5
    <2> QED  BY <1>1, <1>2, <1>3, <2>1 DEF Doomed, Around
  <1> QED  BY <1>4, <1>5

LEMMA EntersDoomed == ASSUME Shape, Doomed, NEW t, NEW c, Enters(t, c) PROVE Doomed'
  <1>1. PICK C : Circle(text, C) /\ Around(C)  BY DEF Doomed
  <1>2. Len(callers) \in Nat  BY DEF Shape
  <1>3. /\ Len(callers') = Len(callers) + 1 /\ callers'[Len(callers) + 1] = c
        /\ \A i \in 1..Len(callers) : callers'[i] = callers[i]
        /\ text' = text /\ ~legal' /\ at = "include" /\ c.file.path = file.path /\ c.file.pos = file.pos + 1
        /\ file'.path.file = Strings[t].file /\ file'.pos = 1
    BY DEF Enters, Doomed, PathOf
  <1>4. CASE \E i \in 1..Len(callers) : Before(text, C, callers[i].file)
    <2>1. PICK i \in 1..Len(callers) : Before(text, C, callers[i].file)  BY <1>4
    <2>2. i \in 1..Len(callers') /\ callers'[i] = callers[i]  BY <1>2, <1>3
    <2> QED  BY <1>1, <1>3, <2>1, <2>2 DEF Doomed, Around
  <1>5. CASE Amid(C)
    <2>1. t \in Coming /\ t # "eof" /\ t # "#"  BY Signs DEF Enters, Sign
    <2>2. file.pos \in 1..Len(Here) /\ t \in Here[file.pos]  BY <2>1, ComingIs
    <2>3. PICK q : /\ Leads(text, file.path.file, q, C)
                   /\ file.pos <= q \/ file.pos = q + 2
      BY <1>3, <1>5 DEF Amid
    <2>4. q \in Nat /\ Here[q] = {"#"}  BY <2>3, HereIs DEF Leads, Here
    <2>5. CASE file.pos <= q
      <3>1. file.pos + 1 <= q  BY <2>1, <2>2, <2>4, <2>5
      <3>2. Before(text, C, c.file)  BY <1>3, <1>5, <2>3, <3>1 DEF Before, Amid
      <3>3. Len(callers) + 1 \in 1..Len(callers')  BY <1>2, <1>3
      <3> QED  BY <1>1, <1>3, <3>2, <3>3 DEF Doomed, Around
    <2>6. CASE file.pos = q + 2
      <3>1. Strings[t].file \in C  BY <2>2, <2>3, <2>6 DEF Leads, Here
      <3>2. PICK r : Leads(text, Strings[t].file, r, C)  BY <1>1, <3>1 DEF Circle
      <3>3. 1 <= r  BY <3>2 DEF Leads
      <3>4. Amid(C)'  BY <1>3, <3>1, <3>2, <3>3 DEF Amid
      <3> QED  BY <1>1, <1>3, <3>4 DEF Doomed, Around
    <2> QED  BY <2>3, <2>5, <2>6
  <1> QED  BY <1>1, <1>4, <1>5 DEF Around

LEMMA DirectiveNames ==
    ASSUME Shape, NEW f \in DOMAIN text, NEW q, NEW g, Directive(text, f, q, g)
    PROVE  Named(text, g)
  <1>1. text[f] \in Seq(SUBSET (Token \ {"eof"}))
    BY SchemaAssumption DEF SchemaAssumption, IsDocument, Shape
  <1>2. q + 2 \in DOMAIN text[f]  BY <1>1 DEF Directive
  <1> QED  BY <1>2 DEF Directive, Named

LEMMA DirectiveAlone ==
    ASSUME Shape, NEW f \in DOMAIN text, Named(text, f), NEW q, NEW g, Directive(text, f, q, g),
           NEW C, g \in C
    PROVE  Leads(text, f, q, C)
  <1>1. /\ text[f] \in Seq(SUBSET (Token \ {"eof"}))
        /\ \A i \in DOMAIN text[f] : \E t \in text[f][i] : text[f][i] = {t}
    BY SchemaAssumption DEF SchemaAssumption, IsDocument, Shape
  <1>2. q \in DOMAIN text[f] /\ q + 1 \in DOMAIN text[f] /\ q + 2 \in DOMAIN text[f]
    BY <1>1 DEF Directive
  <1>3. PICK s \in String \cap text[f][q + 2] : Strings[s].file = g  BY DEF Directive
  <1>4. text[f][q] = {"#"} /\ text[f][q + 1] = {"include"}  BY <1>1, <1>2 DEF Directive
  <1>5. text[f][q + 2] = {s}  BY <1>1, <1>2
  <1> QED  BY <1>3, <1>4, <1>5 DEF Leads, Directive

\* An include directive that leads back to a file being read, under another path.
LEMMA CircleMade ==
    ASSUME Shape, Links, NEW t, NEW c, Enters(t, c), ~Includable(PathOf(t))
    PROVE  Doomed'
  <1> DEFINE n == Len(callers)
             g == Strings[t].file
  <1>1. n \in Nat /\ DOMAIN callers = 1..n  BY DEF Shape
  <1>2. PathOf(t).file = g /\ ~Missing(PathOf(t))  BY DEF Enters, PathOf
  <1>3. PICK k \in 1..(n + 1) : Level(k) = g
    <2>1. g \in {p.file : p \in Open}  BY <1>2 DEF Includable
    <2>2. PICK p \in Open : p.file = g  BY <2>1
    <2>3. CASE \E i \in DOMAIN callers : p = callers[i].file.path
      <3>1. PICK i \in 1..n : p = callers[i].file.path  BY <1>1, <2>3
      <3>2. Level(i) = g  BY <2>2, <3>1 DEF Level
      <3> QED  BY <1>1, <3>1, <3>2
    <2>4. CASE p = file.path
      <3>1. Level(n + 1) = g  BY <1>1, <2>2, <2>4 DEF Level
      <3> QED  BY <1>1, <3>1
    <2> QED  BY <2>2, <2>3, <2>4 DEF Open
  <1> DEFINE C == {Level(i) : i \in k..(n + 1)}
  <1>4. \A i \in 1..(n + 1) : Level(i) \in DOMAIN text
    BY <1>1 DEF Level, Shape, CallerLike, InText
  <1>5. g \in C /\ Level(n + 1) = file.path.file
    BY <1>1, <1>3 DEF Level
  <1>6. \A i \in 1..n : Directive(text, Level(i), callers[i].file.pos - 3, Level(i + 1))  BY DEF Links
  <1>7. Directive(text, Level(n + 1), file.pos - 2, g)  BY <1>5, EntersDirective
  <1>8. ASSUME NEW i \in k..(n + 1)  PROVE Named(text, Level(i))
    <2>1. CASE i = k  BY <1>1, <1>3, <1>4, <1>7, <2>1, DirectiveNames
    <2>2. CASE i # k
      <3>1. i - 1 \in 1..n /\ (i - 1) + 1 = i  BY <1>1, <1>3, <2>2
      <3> DEFINE j == i - 1
      <3>2. j \in 1..n /\ j + 1 = i  BY <3>1
      <3> HIDE DEF j
      <3>3. Directive(text, Level(j), callers[j].file.pos - 3, Level(i)) /\ Level(j) \in DOMAIN text
        BY <1>1, <1>4, <1>6, <3>2
      <3> QED  BY <3>3, DirectiveNames
    <2> QED  BY <2>1, <2>2
  <1>9. ASSUME NEW i \in k..(n + 1)  PROVE \E q : Leads(text, Level(i), q, C)
    <2>1. Named(text, Level(i)) /\ Level(i) \in DOMAIN text  BY <1>1, <1>3, <1>4, <1>8
    <2>2. CASE i = n + 1  BY <1>5, <1>7, <2>1, <2>2, DirectiveAlone
    <2>3. CASE i # n + 1
      <3>1. i \in 1..n /\ Level(i + 1) \in C  BY <1>1, <1>3, <2>3
      <3> HIDE DEF C
      <3> QED  BY <1>6, <2>1, <3>1, DirectiveAlone
    <2> QED  BY <2>2, <2>3
  <1>10. Circle(text, C)
    <2>1. C \subseteq DOMAIN text  BY <1>1, <1>3, <1>4
    <2>2. \A f \in C : \E q : Leads(text, f, q, C)  BY <1>9
    <2> QED  BY <2>1, <2>2 DEF Circle
  <1> HIDE DEF C
  <1>11. PICK D : Circle(text, D) /\ g \in D  BY <1>5, <1>10
  <1>12. PICK r : Leads(text, g, r, D)  BY <1>11 DEF Circle
  <1>13. 1 <= r  BY <1>12 DEF Leads
  <1>14. file'.path.file = g /\ file'.pos = 1 /\ text' = text /\ ~legal'  BY <1>2 DEF Enters
  <1> HIDE DEF g
  <1>15. Amid(D)'  BY <1>11, <1>12, <1>13, <1>14 DEF Amid
  <1> QED  BY <1>11, <1>14, <1>15 DEF Doomed, Around

-----------------------------------------------------------------------------
(***************************************************************************)
(* In step with the grammar.                                               *)
(***************************************************************************)
Wrote(members) == [m \in DOMAIN members |-> Written(members[m])]

\* What a type is found to be, after the first n definitions.
Known(known, n, k, name) == \E j \in 1..n : known[j].kind = k /\ known[j].name = name
KindAt(known, n, type) ==
    IF type[1] = "map"
      THEN IF type[2] \in Primitive THEN "map value"
           ELSE IF Known(known, n, "enum", type[2]) THEN "map enum" ELSE "map struct"
      ELSE IF type[2] \in Primitive THEN "value"
           ELSE IF Known(known, n, "enum", type[2]) THEN "enum"
           ELSE IF Known(known, n, "oneof", type[2]) THEN "oneof" ELSE "struct"
\* The kinds of field that may have a default.
Valued == {"value", "enum", "oneof"}
Apt(known, n, f) == f.kind = KindAt(known, n, f.type) /\ (f.value # "" => f.kind \in Valued)
Resolves(known, n, members) == \A m \in DOMAIN members : Apt(known, n, members[m])

\* The maps hold what the grammar has completed.
Same ==
    /\ \A i \in 1..Len(seen) : seen[i].kind \in Kind
    /\ \A k \in Kind : \A name : name \in DOMAIN defs[k] <=> Known(seen, Len(seen), k, name)
    /\ \A i, j \in 1..Len(seen) : seen[i].name = seen[j].name => i = j
    /\ \A i \in 1..Len(seen) : \E S : defs[seen[i].kind][seen[i].name] \in Seq(S)
    /\ \A i \in 1..Len(seen) : Wrote(defs[seen[i].kind][seen[i].name]) = seen[i].members
    /\ \A i \in 1..Len(seen) : seen[i].kind = "struct" =>
          Resolves(seen, i - 1, defs["struct"][seen[i].name])

\* The states the grammar can be in at a place of the code.
StateAt(p) ==
    CASE p = "struct {" -> {"struct name"}
      [] p = "field" -> {"fields"}
      [] p = "name" -> {"type"}
      [] p = "named" -> {"field"}
      [] p = "enum {" -> {"enum name"}
      [] p = "value" -> {"values"}
      [] p = "after value" -> {"value"}
      [] p = "oneof {" -> {"oneof name"}
      [] p = "variant" -> {"no variants", "variants"}
      [] p = "variant @" -> {"first @", "variant @"}
      [] p = "tag" -> {"first tag", "tag"}
      [] p = "variant name" -> {"variant type"}
      [] p = "variant ;" -> {"variant"}
      [] p \in {"top", "#", "include", "struct", "noted", "modified", "field @", "alias", "map",
                "[", "size", "array", "=", "default",
                "enum", "value @", "old value", "oneof", "old variant"} -> {p}
      [] OTHER -> {}

OfStruct == FieldPlace \cup {"struct", "struct {"}
OfEnum == {"enum", "enum {", "value", "value @", "old value", "after value"}
OfOneof == {"oneof", "oneof {", "variant", "variant @", "tag", "old variant", "variant name", "variant ;"}
InItem(p) == p \in OfStruct \cup OfEnum \cup OfOneof

\* Where the type, and the name too, of the field being read is known.
Typed == {"name", "named", "[", "size", "array", "=", "default"}
Titled == (Typed \ {"name"}) \cup {"variant ;"}

\* The states before the first variant, and the states after one.
Without == {"oneof", "oneof name", "no variants", "first @", "first tag"}
With == {"variants", "variant @", "tag"}

\* The definition being read, at a place in it, is what the grammar has collected.
ItemIs(p, i, g, known) ==
    /\ i.had = 0 /\ i.kind = g.kind /\ \E S : i.members \in Seq(S)
    /\ p \in OfStruct => i.kind = "struct" /\ Resolves(known, Len(known), i.members)
    /\ p \in OfEnum => i.kind = "enum"
    /\ p \in OfOneof => i.kind = "oneof"
    /\ p \notin Kind => i.name = g.name
    /\ g.state \in Without => i.members = <<>>
    /\ g.state \in With => i.members # <<>>
FieldIs(p, f, g, known) ==
    /\ p \notin Typed \cup {"variant name", "variant ;"} => f = NewField
    /\ p \in {"name", "named", "variant name"} => g.type = f.type
    /\ p # "default" => f.value = ""
    /\ p \in {"=", "default"} => f.kind \in Valued
    /\ p \in Typed => f.kind = KindAt(known, Len(known), f.type) /\ f.type[1] \in {"", "map"}
MembersAre(p, i, f, g) ==
    g.members = IF p \in Titled THEN Append(Wrote(i.members), Written(f)) ELSE Wrote(i.members)
Content(p, i, f, g, known) ==
    ItemIs(p, i, g, known) /\ FieldIs(p, f, g, known) /\ MembersAre(p, i, f, g)

Quiet == /\ legal /\ had = 0 /\ errs = 0
         /\ \A i \in 1..Len(callers) : callers[i].had = 0 /\ callers[i].errs = 0 /\ callers[i].gram.state = "top"
InStep == gram.state \in StateAt(at) \/ (at = "top" /\ gram.state = "struct" /\ AtEnd)
Between == {"top", "#", "include"}
Good == /\ Quiet /\ Same /\ InStep
        /\ InItem(at) => Content(at, item, field, gram, seen)
        /\ at \in Between => field = NewField

LEMMA WroteEmpty == Wrote(<<>>) = <<>>
  BY DEF Wrote

LEMMA AppendIs ==
    ASSUME NEW S, NEW s \in Seq(S), NEW x
    PROVE  /\ \E T : Append(s, x) \in Seq(T)
           /\ Len(s) \in Nat /\ Len(Append(s, x)) = Len(s) + 1
           /\ DOMAIN s = 1..Len(s) /\ DOMAIN Append(s, x) = 1..(Len(s) + 1)
           /\ Append(s, x)[Len(s) + 1] = x /\ \A m \in 1..Len(s) : Append(s, x)[m] = s[m]
           /\ Append(s, x) = [m \in 1..(Len(s) + 1) |-> Append(s, x)[m]]
  <1>1. s \in Seq(S \cup {x})  OBVIOUS
  <1>2. Append(s, x) \in Seq(S \cup {x})  BY <1>1
  <1>3. Len(s) \in Nat /\ DOMAIN s = 1..Len(s) /\ Len(Append(s, x)) = Len(s) + 1  BY <1>1
  <1>4. Append(s, x)[Len(s) + 1] = x /\ \A m \in 1..Len(s) : Append(s, x)[m] = s[m]  BY <1>1
  <1>5. DOMAIN Append(s, x) = 1..(Len(s) + 1)  BY <1>2, <1>3
  <1>6. Append(s, x) = [m \in 1..(Len(s) + 1) |-> Append(s, x)[m]]
    <2>1. ASSUME NEW z, z \in Seq(S \cup {x}), DOMAIN z = 1..(Len(s) + 1)
          PROVE  z = [m \in 1..(Len(s) + 1) |-> z[m]]
      BY <2>1
    <2> QED  BY <1>2, <1>5, <2>1
  <1> QED  BY <1>2, <1>3, <1>4, <1>5, <1>6

LEMMA WroteSeq ==
    ASSUME NEW S, NEW members \in Seq(S)
    PROVE  (\E T : Wrote(members) \in Seq(T)) /\ Len(Wrote(members)) = Len(members)
  <1> DEFINE T == {Written(members[m]) : m \in 1..Len(members)}
  <1>1. Len(members) \in Nat /\ DOMAIN members = 1..Len(members)  OBVIOUS
  <1>2. Wrote(members) \in [1..Len(members) -> T]  BY <1>1 DEF Wrote
  <1>3. Wrote(members) \in Seq(T) /\ Len(Wrote(members)) = Len(members)  BY <1>1, <1>2
  <1> QED  BY <1>3

LEMMA WroteAppend ==
    ASSUME NEW S, NEW members \in Seq(S), NEW f
    PROVE  Wrote(Append(members, f)) = Append(Wrote(members), Written(f))
  <1> DEFINE n == Len(members)
             long == Append(members, f)
             w == Wrote(members)
             x == Written(f)
  <1>1. n \in Nat /\ DOMAIN members = 1..n  OBVIOUS
  <1>2. DOMAIN long = 1..(n + 1) /\ long[n + 1] = f /\ \A m \in 1..n : long[m] = members[m]
    BY AppendIs
  <1>3. PICK T : w \in Seq(T) /\ Len(w) = n  BY WroteSeq
  <1>4. \A m \in 1..n : w[m] = Written(members[m])  BY <1>1 DEF Wrote
  <1>5. Wrote(long) = [m \in 1..(n + 1) |-> Written(long[m])]  BY <1>2 DEF Wrote
  <1> HIDE DEF long, w, x
  <1>6. /\ Append(w, x)[n + 1] = x /\ \A m \in 1..n : Append(w, x)[m] = w[m]
        /\ Append(w, x) = [m \in 1..(n + 1) |-> Append(w, x)[m]]
    BY <1>3, AppendIs
  <1>7. \A m \in 1..(n + 1) : Written(long[m]) = Append(w, x)[m]
    BY <1>1, <1>2, <1>4, <1>6 DEF x
  <1>8. Wrote(long) = Append(w, x)  BY <1>5, <1>6, <1>7
  <1> QED  BY <1>8 DEF long, w, x

LEMMA KnownMore ==
    ASSUME NEW S, NEW known \in Seq(S), NEW d, NEW n \in 0..Len(known), NEW type
    PROVE  KindAt(Append(known, d), n, type) = KindAt(known, n, type)
  <1>1. known \in Seq(S \cup {d})  OBVIOUS
  <1>2. \A j \in 1..n : Append(known, d)[j] = known[j]  BY <1>1
  <1>3. \A k, name : Known(Append(known, d), n, k, name) <=> Known(known, n, k, name)
    BY <1>2 DEF Known
  <1> QED  BY <1>3 DEF KindAt

-----------------------------------------------------------------------------
(***************************************************************************)
(* What the grammar does with a token.                                     *)
(***************************************************************************)
LEMMA GoesFile ==
    \A t : /\ Goes("top", t) = IF t \in Separator THEN "top" ELSE IF t \in Kind \cup {"#"} THEN t ELSE "bad"
           /\ Goes("#", t) = IF t = "include" THEN "include" ELSE "bad"
           /\ Goes("include", t) = IF t \in String THEN "top" ELSE "bad"
  <1> TAKE t
  <1>1. Goes("top", t) = IF t \in Separator THEN "top" ELSE IF t \in Kind \cup {"#"} THEN t ELSE "bad"
    BY Signs DEF Goes, Kind, Sign, Separator, Positive
  <1>2. Goes("#", t) = IF t = "include" THEN "include" ELSE "bad"
    BY Signs DEF Goes, Kind, Sign, Separator, Positive
  <1>3. Goes("include", t) = IF t \in String THEN "top" ELSE "bad"
    BY Signs DEF Goes, Kind, Sign, Separator, Positive
  <1> QED  BY <1>1, <1>2, <1>3

LEMMA GoesStruct ==
    \A t : /\ Goes("struct", t) = IF t \in Word THEN "struct name" ELSE "bad"
           /\ Goes("struct name", t) = IF t = "{" THEN "fields" ELSE "bad"
  <1> TAKE t
  <1>1. Goes("struct", t) = IF t \in Word THEN "struct name" ELSE "bad"
    BY Signs DEF Goes, Kind, Sign, Separator, Positive
  <1>2. Goes("struct name", t) = IF t = "{" THEN "fields" ELSE "bad"
    BY Signs DEF Goes, Kind, Sign, Separator, Positive
  <1> QED  BY <1>1, <1>2

\* What starts a field, in the three states it can start in.
Start(t) == IF t \in Modifier THEN "modified" ELSE IF t = "map" THEN "map"
            ELSE IF t \in Type THEN "type" ELSE "bad"
LEMMA GoesType ==
    \A t : /\ Goes("fields", t) = IF t = ";" THEN "fields" ELSE IF t = "}" THEN "top"
                                  ELSE IF t = "@" THEN "field @" ELSE Start(t)
           /\ Goes("noted", t) = IF t = "@" THEN "field @" ELSE Start(t)
           /\ Goes("modified", t) = Start(t)
           /\ Goes("field @", t) = IF t = "json" THEN "alias" ELSE IF t = "deprecated" THEN "noted" ELSE "bad"
           /\ Goes("alias", t) = IF t \in String THEN "noted" ELSE "bad"
           /\ Goes("map", t) = IF t \in MapText THEN "type" ELSE "bad"
  <1> TAKE t
  <1>1. Goes("fields", t) = IF t = ";" THEN "fields" ELSE IF t = "}" THEN "top" ELSE IF t = "@" THEN "field @" ELSE Start(t)
    BY Signs DEF Goes, Kind, Start, Sign, Separator, Type, Modifier
  <1>2. Goes("noted", t) = IF t = "@" THEN "field @" ELSE Start(t)
    BY Signs DEF Goes, Kind, Start, Sign, Separator, Type, Modifier
  <1>3. Goes("modified", t) = Start(t)
    BY Signs DEF Goes, Kind, Start, Sign, Separator, Type, Modifier
  <1>4. Goes("field @", t) = IF t = "json" THEN "alias" ELSE IF t = "deprecated" THEN "noted" ELSE "bad"
    BY Signs DEF Goes, Kind, Start, Sign, Separator, Type, Modifier
  <1>5. Goes("alias", t) = IF t \in String THEN "noted" ELSE "bad"
    BY Signs DEF Goes, Kind, Start, Sign, Separator, Type, Modifier
  <1>6. Goes("map", t) = IF t \in MapText THEN "type" ELSE "bad"
    BY Signs DEF Goes, Kind, Start, Sign, Separator, Type, Modifier
  <1> QED  BY <1>1, <1>2, <1>3, <1>4, <1>5, <1>6

LEMMA GoesField ==
    \A t : /\ Goes("type", t) = IF t \in Word THEN "field" ELSE "bad"
           /\ Goes("field", t) = IF t \in {"[", "="} THEN t ELSE IF t = ";" THEN "fields" ELSE "bad"
           /\ Goes("[", t) = IF t \in Positive THEN "size" ELSE IF t = "]" THEN "array" ELSE "bad"
           /\ Goes("size", t) = IF t = "]" THEN "array" ELSE "bad"
           /\ Goes("array", t) = IF t = ";" THEN "fields" ELSE "bad"
           /\ Goes("=", t) = IF t \in Literal THEN "default" ELSE "bad"
           /\ Goes("default", t) = IF t = ";" THEN "fields" ELSE "bad"
  <1> TAKE t
  <1>1. Goes("type", t) = IF t \in Word THEN "field" ELSE "bad"
    BY Signs DEF Goes, Kind, Sign, Separator, Positive
  <1>2. Goes("field", t) = IF t \in {"[", "="} THEN t ELSE IF t = ";" THEN "fields" ELSE "bad"
    BY Signs DEF Goes, Kind, Sign, Separator, Positive
  <1>3. Goes("[", t) = IF t \in Positive THEN "size" ELSE IF t = "]" THEN "array" ELSE "bad"
    BY Signs DEF Goes, Kind, Sign, Separator, Positive
  <1>4. Goes("size", t) = IF t = "]" THEN "array" ELSE "bad"
    BY Signs DEF Goes, Kind, Sign, Separator, Positive
  <1>5. Goes("array", t) = IF t = ";" THEN "fields" ELSE "bad"
    BY Signs DEF Goes, Kind, Sign, Separator, Positive
  <1>6. Goes("=", t) = IF t \in Literal THEN "default" ELSE "bad"
    BY Signs DEF Goes, Kind, Sign, Separator, Positive
  <1>7. Goes("default", t) = IF t = ";" THEN "fields" ELSE "bad"
    BY Signs DEF Goes, Kind, Sign, Separator, Positive
  <1> QED  BY <1>1, <1>2, <1>3, <1>4, <1>5, <1>6, <1>7

LEMMA GoesEnum ==
    \A t : /\ Goes("enum", t) = IF t \in Word THEN "enum name" ELSE "bad"
           /\ Goes("enum name", t) = IF t = "{" THEN "values" ELSE "bad"
           /\ Goes("values", t) = IF t = "@" THEN "value @" ELSE IF t \in Word THEN "value"
                                  ELSE IF t \in Separator THEN "values" ELSE IF t = "}" THEN "top" ELSE "bad"
           /\ Goes("value @", t) = IF t = "deprecated" THEN "old value" ELSE "bad"
           /\ Goes("old value", t) = IF t \in Word THEN "value" ELSE "bad"
           /\ Goes("value", t) = IF t \in Separator THEN "values" ELSE IF t = "}" THEN "top" ELSE "bad"
  <1> TAKE t
  <1>1. Goes("enum", t) = IF t \in Word THEN "enum name" ELSE "bad"
    BY Signs DEF Goes, Kind, Sign, Separator, Positive
  <1>2. Goes("enum name", t) = IF t = "{" THEN "values" ELSE "bad"
    BY Signs DEF Goes, Kind, Sign, Separator, Positive
  <1>3. Goes("values", t) = IF t = "@" THEN "value @" ELSE IF t \in Word THEN "value" ELSE IF t \in Separator THEN "values" ELSE IF t = "}" THEN "top" ELSE "bad"
    BY Signs DEF Goes, Kind, Sign, Separator, Positive
  <1>4. Goes("value @", t) = IF t = "deprecated" THEN "old value" ELSE "bad"
    BY Signs DEF Goes, Kind, Sign, Separator, Positive
  <1>5. Goes("old value", t) = IF t \in Word THEN "value" ELSE "bad"
    BY Signs DEF Goes, Kind, Sign, Separator, Positive
  <1>6. Goes("value", t) = IF t \in Separator THEN "values" ELSE IF t = "}" THEN "top" ELSE "bad"
    BY Signs DEF Goes, Kind, Sign, Separator, Positive
  <1> QED  BY <1>1, <1>2, <1>3, <1>4, <1>5, <1>6

LEMMA GoesOneof ==
    \A t : /\ Goes("oneof", t) = IF t \in Word THEN "oneof name" ELSE "bad"
           /\ Goes("oneof name", t) = IF t = "{" THEN "no variants" ELSE "bad"
           /\ Goes("no variants", t) = IF t \in Separator THEN "no variants" ELSE IF t = "@" THEN "first @"
                                       ELSE IF t \in Word THEN "variant type" ELSE "bad"
           /\ Goes("first @", t) = IF t = "tag" THEN "first tag"
                                   ELSE IF t = "deprecated" THEN "old variant" ELSE "bad"
           /\ Goes("first tag", t) = IF t \in String THEN "no variants" ELSE "bad"
           /\ Goes("variants", t) = IF t \in Separator THEN "variants" ELSE IF t = "}" THEN "top"
                                    ELSE IF t = "@" THEN "variant @"
                                    ELSE IF t \in Word THEN "variant type" ELSE "bad"
           /\ Goes("variant @", t) = IF t = "tag" THEN "tag"
                                     ELSE IF t = "deprecated" THEN "old variant" ELSE "bad"
           /\ Goes("tag", t) = IF t \in String THEN "variants" ELSE "bad"
           /\ Goes("old variant", t) = IF t \in Word THEN "variant type" ELSE "bad"
           /\ Goes("variant type", t) = IF t \in Word THEN "variant" ELSE "bad"
           /\ Goes("variant", t) = IF t = ";" THEN "variants" ELSE "bad"
  <1> TAKE t
  <1>1. Goes("oneof", t) = IF t \in Word THEN "oneof name" ELSE "bad"
    BY Signs DEF Goes, Kind, Sign, Separator, Positive
  <1>2. Goes("oneof name", t) = IF t = "{" THEN "no variants" ELSE "bad"
    BY Signs DEF Goes, Kind, Sign, Separator, Positive
  <1>3. Goes("no variants", t) = IF t \in Separator THEN "no variants" ELSE IF t = "@" THEN "first @" ELSE IF t \in Word THEN "variant type" ELSE "bad"
    BY Signs DEF Goes, Kind, Sign, Separator, Positive
  <1>4. Goes("first @", t) = IF t = "tag" THEN "first tag" ELSE IF t = "deprecated" THEN "old variant" ELSE "bad"
    BY Signs DEF Goes, Kind, Sign, Separator, Positive
  <1>5. Goes("first tag", t) = IF t \in String THEN "no variants" ELSE "bad"
    BY Signs DEF Goes, Kind, Sign, Separator, Positive
  <1>6. Goes("variants", t) = IF t \in Separator THEN "variants" ELSE IF t = "}" THEN "top" ELSE IF t = "@" THEN "variant @" ELSE IF t \in Word THEN "variant type" ELSE "bad"
    BY Signs DEF Goes, Kind, Sign, Separator, Positive
  <1>7. Goes("variant @", t) = IF t = "tag" THEN "tag" ELSE IF t = "deprecated" THEN "old variant" ELSE "bad"
    BY Signs DEF Goes, Kind, Sign, Separator, Positive
  <1>8. Goes("tag", t) = IF t \in String THEN "variants" ELSE "bad"
    BY Signs DEF Goes, Kind, Sign, Separator, Positive
  <1>9. Goes("old variant", t) = IF t \in Word THEN "variant type" ELSE "bad"
    BY Signs DEF Goes, Kind, Sign, Separator, Positive
  <1>10. Goes("variant type", t) = IF t \in Word THEN "variant" ELSE "bad"
    BY Signs DEF Goes, Kind, Sign, Separator, Positive
  <1>11. Goes("variant", t) = IF t = ";" THEN "variants" ELSE "bad"
    BY Signs DEF Goes, Kind, Sign, Separator, Positive
  <1> QED  BY <1>1, <1>2, <1>3, <1>4, <1>5, <1>6, <1>7, <1>8, <1>9, <1>10, <1>11

LEMMA NoticedAs ==
    ASSUME Shape, NEW t, NEW s, After(gram, t, seen) = s, gram' = Noticed(gram, t, seen)
    PROVE  /\ gram'.state = s
           /\ gram'.kind = IF gram.state = "top" /\ s \in Kind THEN s ELSE gram.kind
           /\ gram'.name = IF s \in {"struct name", "enum name", "oneof name"} THEN t ELSE gram.name
           /\ s \notin {"type", "variant type"} => gram'.type = gram.type
           /\ s \in {"type", "variant type"} /\ gram.state # "map" => gram'.type = <<"", t>>
           /\ s = "type" /\ gram.state = "map" => gram'.type = <<"map", Strings[t].value>>
           /\ s \in {"field", "variant"} =>
                gram'.members = Append(gram.members, [name |-> t, type |-> gram.type, value |-> ""])
           /\ s = "value" =>
                gram'.members = Append(gram.members, [name |-> t, type |-> <<"", "">>, value |-> ""])
           /\ s = "default" => gram'.members = [gram.members EXCEPT ![Len(gram.members)].value = t]
           /\ s \notin {"field", "variant", "value", "default"} =>
                gram'.members = IF gram.state = "top" THEN <<>> ELSE gram.members
  <1>1. DOMAIN gram = {"state", "kind", "name", "type", "members"}  BY DEF Shape, GramLike
  <1>2. /\ gram'.state = s
        /\ gram'.kind = IF gram.state = "top" /\ s \in Kind THEN s ELSE gram.kind
        /\ gram'.name = IF s \in {"struct name", "enum name", "oneof name"} THEN t ELSE gram.name
    BY <1>1 DEF Noticed
  <1>3. gram'.type = CASE s = "type" /\ gram.state = "map" -> <<"map", Strings[t].value>>
                      [] s \in {"type", "variant type"} /\ gram.state # "map" -> <<"", t>>
                      [] OTHER -> gram.type
    BY <1>1 DEF Noticed
  <1>4. gram'.members = CASE s \in {"field", "variant"} ->
                                Append(gram.members, [name |-> t, type |-> gram.type, value |-> ""])
                        [] s = "value" -> Append(gram.members, [name |-> t, type |-> <<"", "">>, value |-> ""])
                        [] s = "default" -> [gram.members EXCEPT ![Len(gram.members)].value = t]
                        [] gram.state = "top" -> <<>>
                        [] OTHER -> gram.members
    BY <1>1 DEF Noticed
  <1>5. gram.state = "top" => s \notin {"field", "variant", "value", "default"}
    <2> SUFFICES ASSUME gram.state = "top"  PROVE s \notin {"field", "variant", "value", "default"}
      OBVIOUS
    <2>1. s = Goes("top", t)  BY DEF After
    <2> QED  BY <2>1, GoesFile DEF Kind
  <1> QED  BY <1>2, <1>3, <1>4, <1>5

LEMMA AfterIs == ASSUME NEW t, gram.state # "field" \/ t # "=" PROVE After(gram, t, seen) = Goes(gram.state, t)
  BY DEF After

\* A token the grammar refuses, and an error on record.
LEMMA Ruins ==
    ASSUME Shape, NEW t, t \in Coming, Moved(t), Watch(t), Broken',
           t = "eof" => gram.state \notin Final, t # "eof" => After(gram, t, seen) = "bad"
    PROVE  Ruined'
  <1>1. Here' = Here /\ Failing'  BY DEF Moved, Here, Failing
  <1>2. CASE t = "eof"
    <2>1. gram' = gram  BY <1>2 DEF Watch, history
    <2>2. AtEnd'  BY <1>1, <1>2, HereIs DEF Moved, AtEnd
    <2> QED  BY <1>1, <1>2, <2>1, <2>2 DEF Ruined, Illegal
  <1>3. CASE t # "eof"
    <2>1. gram' = Noticed(gram, t, seen)  BY <1>3 DEF Watch
    <2>2. gram'.state = "bad"  BY <1>3, <2>1, NoticedAs
    <2> QED  BY <1>1, <2>2 DEF Ruined, Illegal
  <1> QED  BY <1>2, <1>3

\* A token that is taken from p to q, which is not one that closes a definition.
Plain(t) == t \notin {"eof", "error", "}"}
LEMMA TakeGood ==
    ASSUME Shape, Good, NEW p, NEW t, NEW q, Take(p, t, q), Plain(t), NEW s, After(gram, t, seen) = s,
           s \in StateAt(q), InItem(q) => Content(q, item', field', gram', seen),
           q \in Between => field' = NewField
    PROVE  Good'
  <1>1. /\ at' = q /\ had' = had /\ errs' = errs /\ defs' = defs /\ callers' = callers
    BY TakeIs DEF Plain, Moved
  <1>2. gram' = Noticed(gram, t, seen) /\ seen' = seen /\ legal' = legal
    BY TakeIs DEF Plain, Watch, Completes
  <1>3. gram'.state = s  BY <1>2, NoticedAs
  <1>4. Quiet'  BY <1>1, <1>2 DEF Good, Quiet
  <1>5. Same'  BY <1>1, <1>2 DEF Good, Same
  <1>6. InStep'  BY <1>1, <1>3 DEF InStep
  <1> QED  BY <1>1, <1>2, <1>4, <1>5, <1>6 DEF Good

LEMMA TakeGram ==
    ASSUME Shape, NEW p, NEW t, NEW q, Take(p, t, q), Plain(t)
    PROVE  gram' = Noticed(gram, t, seen) /\ at = p
  BY TakeIs DEF Plain, Watch

LEMMA StateAtIs ==
    /\ StateAt("struct {") = {"struct name"} /\ StateAt("field") = {"fields"}
    /\ StateAt("name") = {"type"} /\ StateAt("named") = {"field"}
    /\ StateAt("enum {") = {"enum name"} /\ StateAt("value") = {"values"}
    /\ StateAt("after value") = {"value"} /\ StateAt("oneof {") = {"oneof name"}
    /\ StateAt("variant") = {"no variants", "variants"}
    /\ StateAt("variant @") = {"first @", "variant @"} /\ StateAt("tag") = {"first tag", "tag"}
    /\ StateAt("variant name") = {"variant type"} /\ StateAt("variant ;") = {"variant"}
    /\ StateAt("top") = {"top"} /\ StateAt("#") = {"#"} /\ StateAt("include") = {"include"}
    /\ StateAt("struct") = {"struct"} /\ StateAt("enum") = {"enum"} /\ StateAt("oneof") = {"oneof"}
    /\ StateAt("noted") = {"noted"} /\ StateAt("modified") = {"modified"} /\ StateAt("map") = {"map"}
    /\ StateAt("field @") = {"field @"} /\ StateAt("alias") = {"alias"}
    /\ StateAt("[") = {"["} /\ StateAt("size") = {"size"} /\ StateAt("array") = {"array"}
    /\ StateAt("=") = {"="} /\ StateAt("default") = {"default"}
    /\ StateAt("value @") = {"value @"} /\ StateAt("old value") = {"old value"}
    /\ StateAt("old variant") = {"old variant"}
    /\ StateAt("skip") = {} /\ StateAt("skip field") = {} /\ StateAt("skip member") = {}
  BY DEF StateAt

LEMMA PlainWord == \A t \in Word \cup String \cup Literal : Plain(t)
  BY Signs DEF Plain, Literal, Integer, Positive, Sign

\* The same definition and field, further on.
Special == {"struct name", "enum name", "oneof name", "type", "variant type",
            "field", "variant", "value", "default"}
Glides(p, q, r, s) ==
    /\ InItem(p) /\ p \notin Kind /\ q \notin Kind /\ p # "default" /\ q # "default"
    /\ p \in OfStruct <=> q \in OfStruct
    /\ p \in OfEnum <=> q \in OfEnum
    /\ p \in OfOneof <=> q \in OfOneof
    /\ p \in Titled <=> q \in Titled
    /\ p \in Typed <=> q \in Typed
    /\ p \notin {"variant name", "variant ;"} /\ q \notin {"name", "named", "variant name", "variant ;"}
    /\ r # "top" /\ s \notin Special
    /\ s \in Without => r \in Without
    /\ s \in With => r \in With

LEMMA Glide ==
    ASSUME Shape, Good, NEW p, NEW t, NEW q, Take(p, t, q), UNCHANGED <<item, field>>, Plain(t),
           NEW s, After(gram, t, seen) = s, s \in StateAt(q), Glides(p, q, gram.state, s),
           q = "=" => field.kind \in Valued
    PROVE  Good'
  <1>1. gram' = Noticed(gram, t, seen) /\ at = p  BY TakeGram
  <1>2. /\ gram'.state = s /\ gram'.kind = gram.kind /\ gram'.name = gram.name
        /\ gram'.type = gram.type /\ gram'.members = gram.members
    BY <1>1, NoticedAs DEF Glides, Special
  <1>3. Content(p, item, field, gram, seen)  BY <1>1 DEF Good, Glides
  <1>4. ItemIs(q, item', gram', seen)  BY <1>2, <1>3 DEF Content, ItemIs, Glides
  <1>5. FieldIs(q, field', gram', seen)  BY <1>2, <1>3 DEF Content, FieldIs, Glides
  <1>6. MembersAre(q, item', field', gram')  BY <1>2, <1>3 DEF Content, MembersAre, Glides
  <1>7. q \notin Between
    <2>1. q \in OfStruct \cup OfEnum \cup OfOneof  BY DEF Glides, InItem
    <2> QED  BY <2>1 DEF Between, OfStruct, OfEnum, OfOneof, FieldPlace
  <1> QED  BY <1>4, <1>5, <1>6, <1>7, TakeGood DEF Content

LEMMA InPlace == ASSUME Good, NEW p, at = p, p # "top" PROVE gram.state \in StateAt(p)
  BY DEF Good, InStep

\* The places of a struct before a field has a type, and those after its name.
Untyped == {"struct {", "field", "noted", "modified", "field @", "alias", "map"}
Sized == {"named", "[", "size", "array", "="}
LEMMA GlidesStruct ==
    /\ \A p, q \in Untyped : \A r \in Untyped \cup {"struct name", "fields"} :
          \A s \in (Untyped \cup {"fields"}) \ {"struct {"} : s # "field" => Glides(p, q, r, s)
    /\ \A p \in Sized, q \in Sized \ {"named"}, r \in Sized \cup {"field"}, s \in Sized : Glides(p, q, r, s)
  <1>1. \A p \in Untyped \cup Sized : p \in OfStruct /\ p \notin Kind \cup {"default", "variant name", "variant ;"}
    BY DEF Untyped, Sized, OfStruct, FieldPlace, Kind
  <1>2. \A p \in Untyped \cup Sized : p \notin OfEnum /\ p \notin OfOneof
    BY DEF Untyped, Sized, OfEnum, OfOneof
  <1>3. \A p \in Untyped : p \notin Typed /\ p \notin Titled /\ p \notin {"name", "named"}
    BY DEF Untyped, Typed, Titled
  <1>4. \A p \in Sized : p \in Typed /\ p \in Titled
    BY DEF Sized, Typed, Titled
  <1>5. \A s \in Untyped \cup Sized \cup {"fields"} : s \notin Without /\ s \notin With
    BY DEF Untyped, Sized, With, Without
  <1>6. \A s \in Untyped \cup Sized \cup {"fields"} : s # "field" => s \notin Special
    BY DEF Untyped, Sized, Special
  <1>7. \A r \in Untyped \cup Sized \cup {"struct name", "fields", "field"} : r # "top"
    BY DEF Untyped, Sized
  <1>8. Untyped \cap Sized = {} /\ "name" \notin Sized /\ "field" \notin Sized
    BY DEF Untyped, Sized
  <1>9. \A p, q \in Untyped : \A r \in Untyped \cup {"struct name", "fields"} :
          \A s \in (Untyped \cup {"fields"}) \ {"struct {"} : s # "field" => Glides(p, q, r, s)
    <2> TAKE p, q \in Untyped
    <2> TAKE r \in Untyped \cup {"struct name", "fields"}
    <2> TAKE s \in (Untyped \cup {"fields"}) \ {"struct {"}
    <2> QED  BY <1>1, <1>2, <1>3, <1>5, <1>6, <1>7 DEF Glides, InItem
  <1>10. \A p \in Sized, q \in Sized \ {"named"}, r \in Sized \cup {"field"}, s \in Sized : Glides(p, q, r, s)
    <2> TAKE p \in Sized, q \in Sized \ {"named"}, r \in Sized \cup {"field"}, s \in Sized
    <2> QED  BY <1>1, <1>2, <1>4, <1>5, <1>6, <1>7, <1>8 DEF Glides, InItem
  <1> QED  BY <1>9, <1>10

GlidesTo(p, t, q, r, s) ==
    Plain(t) /\ q # "=" /\ (r # "field" \/ t # "=") /\ Goes(r, t) = s /\ s \in StateAt(q) /\ Glides(p, q, r, s)
LEMMA GlideFrom ==
    ASSUME Shape, Good, NEW p, NEW t, NEW q, Take(p, t, q), UNCHANGED <<item, field>>,
           NEW s, GlidesTo(p, t, q, gram.state, s)
    PROVE  Good'
  <1>1. After(gram, t, seen) = s  BY AfterIs DEF GlidesTo
  <1> QED  BY <1>1, Glide DEF GlidesTo

GlidesAt(p, t, q, r, s) == p # "top" /\ StateAt(p) = {r} /\ GlidesTo(p, t, q, r, s)
LEMMA GlideAt ==
    ASSUME Shape, Good, NEW p, NEW t, NEW q, Take(p, t, q), UNCHANGED <<item, field>>,
           NEW r, NEW s, GlidesAt(p, t, q, r, s)
    PROVE  Good'
  <1>1. at = p  BY TakeIs
  <1>2. gram.state = r  BY <1>1, InPlace DEF GlidesAt
  <1> QED  BY <1>2, GlideFrom DEF GlidesAt

LEMMA FieldNoteGood == ASSUME Shape, Good, FieldNote PROVE Good'
  <1> USE DEF Untyped, Plain, GlidesAt, GlidesTo
  <1>1. GlidesAt("field", ";", "field", "fields", "fields")  BY GlidesStruct, StateAtIs, GoesType
  <1>2. GlidesAt("field", "@", "field @", "fields", "field @")  BY GlidesStruct, StateAtIs, GoesType
  <1>3. GlidesAt("noted", "@", "field @", "noted", "field @")  BY GlidesStruct, StateAtIs, GoesType
  <1>4. GlidesAt("field @", "json", "alias", "field @", "alias")  BY GlidesStruct, StateAtIs, GoesType
  <1>5. GlidesAt("field @", "deprecated", "noted", "field @", "noted")
    BY GlidesStruct, StateAtIs, GoesType
  <1>6. \A t \in String : GlidesAt("alias", t, "noted", "alias", "noted")
    BY GlidesStruct, StateAtIs, GoesType, PlainWord
  <1> HIDE DEF GlidesAt
  <1> QED  BY <1>1, <1>2, <1>3, <1>4, <1>5, <1>6, GlideAt DEF FieldNote

LEMMA StartIs ==
    \A t : /\ t \in Modifier => Start(t) = "modified" /\ t \in Word
           /\ t = "map" => Start(t) = "map" /\ t \in Word
           /\ t \in Type => Start(t) = "type" /\ t \in Word
           /\ t \in Word => t \notin {";", "}", "@", "{", "[", "]", "=", "#", ",", "eof", "error"}
  BY Signs DEF Start, Modifier, Type, Word, Sign, Separator

LEMMA FieldStart ==
    ASSUME Good, NEW p \in {"field", "noted", "modified"}, at = p
    PROVE  gram.state \in {"fields", "noted", "modified"}
  <1>1. gram.state \in StateAt(p)  BY InPlace
  <1>2. StateAt("field") = {"fields"} /\ StateAt("noted") = {"noted"} /\ StateAt("modified") = {"modified"}
    BY StateAtIs
  <1> QED  BY <1>1, <1>2

LEMMA FieldStartGood ==
    ASSUME Shape, Good, NEW p \in {"field", "noted", "modified"}, NEW t, NEW q, Take(p, t, q),
           UNCHANGED <<item, field>>, (t \in Modifier /\ q = "modified") \/ (t = "map" /\ q = "map")
    PROVE  Good'
  <1>1. t \in Word /\ Start(t) = q /\ t \notin {";", "}", "@"}  BY StartIs
  <1>2. q \in StateAt(q) /\ Plain(t)  BY <1>1, StateAtIs, PlainWord
  <1>3. at = p  BY TakeIs
  <1>4. gram.state \in {"fields", "noted", "modified"}  BY <1>3, FieldStart
  <1>5. Goes(gram.state, t) = q  BY <1>1, <1>4, GoesType
  <1>6. Glides(p, q, gram.state, q)  BY <1>4, GlidesStruct DEF Untyped
  <1>7. GlidesTo(p, t, q, gram.state, q)  BY <1>2, <1>4, <1>5, <1>6 DEF GlidesTo
  <1> QED  BY <1>7, GlideFrom

LEMMA ResolvedIs ==
    ASSUME Same, OneDefinition, NEW name
    PROVE  /\ Resolved(name, {"enum", "oneof"}) = KindAt(seen, Len(seen), <<"", name>>)
           /\ MapKind[Resolved(name, {"enum"})] = KindAt(seen, Len(seen), <<"map", name>>)
  <1>1. \A k \in Kind : name \in DOMAIN defs[k] <=> Known(seen, Len(seen), k, name)  BY DEF Same
  <1>2. ~(name \in DOMAIN defs["enum"] /\ name \in DOMAIN defs["oneof"])  BY DEF OneDefinition, Kind
  <1>3. "enum" \in Kind /\ "oneof" \in Kind  BY DEF Kind
  <1>4. CASE name \in Primitive
    <2>1. Resolved(name, {"enum", "oneof"}) = "value" /\ Resolved(name, {"enum"}) = "value"
      BY <1>4 DEF Resolved
    <2>2. MapKind["value"] = "map value"  BY DEF MapKind
    <2>3. /\ KindAt(seen, Len(seen), <<"", name>>) = "value"
          /\ KindAt(seen, Len(seen), <<"map", name>>) = "map value"
      BY <1>4 DEF KindAt
    <2> QED  BY <2>1, <2>2, <2>3
  <1>5. CASE name \notin Primitive
    <2>1. Resolved(name, {"enum"}) = IF name \in DOMAIN defs["enum"] THEN "enum" ELSE "struct"
      BY <1>5 DEF Resolved
    <2>2. Resolved(name, {"enum", "oneof"}) =
            IF name \in DOMAIN defs["enum"] THEN "enum"
            ELSE IF name \in DOMAIN defs["oneof"] THEN "oneof" ELSE "struct"
      <3>1. CASE name \in DOMAIN defs["enum"]  BY <1>2, <1>5, <3>1 DEF Resolved
      <3>2. CASE name \in DOMAIN defs["oneof"]  BY <1>2, <1>5, <3>2 DEF Resolved
      <3>3. CASE name \notin DOMAIN defs["enum"] /\ name \notin DOMAIN defs["oneof"]
        BY <1>5, <3>3 DEF Resolved
      <3> QED  BY <3>1, <3>2, <3>3
    <2>3. MapKind["enum"] = "map enum" /\ MapKind["struct"] = "map struct"  BY DEF MapKind
    <2>4. KindAt(seen, Len(seen), <<"", name>>) = Resolved(name, {"enum", "oneof"})
      BY <1>1, <1>3, <1>5, <2>2 DEF KindAt
    <2>5. KindAt(seen, Len(seen), <<"map", name>>) = MapKind[Resolved(name, {"enum"})]
      BY <1>1, <1>3, <1>5, <2>1, <2>3 DEF KindAt
    <2> QED  BY <2>4, <2>5
  <1> QED  BY <1>4, <1>5

\* The places that stand in a struct, an enum or a oneof.
LEMMA PlacesOf ==
    /\ \A p \in Untyped \cup Typed :
          p \in OfStruct /\ p \notin OfEnum /\ p \notin OfOneof /\ p \notin Kind /\ InItem(p)
    /\ \A p \in OfEnum : p \notin OfStruct /\ p \notin OfOneof /\ p \notin Typed /\ p \notin Titled /\ InItem(p)
    /\ \A p \in OfOneof : p \notin OfStruct /\ p \notin OfEnum /\ p \notin Typed /\ InItem(p)
    /\ \A p \in Untyped : p \notin Typed /\ p \notin Titled
  <1>1. \A p \in Untyped \cup Typed : p \in OfStruct /\ p \notin Kind
    BY DEF Untyped, Typed, OfStruct, FieldPlace, Kind
  <1>2. \A p \in Untyped \cup Typed : p \notin OfEnum /\ p \notin OfOneof
    BY DEF Untyped, Typed, OfEnum, OfOneof
  <1>3. \A p \in OfEnum \cup OfOneof : p \notin OfStruct /\ p \notin Typed
    BY DEF OfEnum, OfOneof, OfStruct, FieldPlace, Typed
  <1>4. \A p \in OfEnum : p \notin OfOneof /\ p \notin Titled  BY DEF OfEnum, OfOneof, Titled, Typed
  <1>5. \A p \in Untyped : p \notin Typed /\ p \notin Titled  BY DEF Untyped, Typed, Titled
  <1> QED  BY <1>1, <1>2, <1>3, <1>4, <1>5 DEF InItem

GivesType(t, type, kind) ==
    /\ Plain(t) /\ Goes(gram.state, t) = "type"
    /\ type = IF gram.state = "map" THEN <<"map", Strings[t].value>> ELSE <<"", t>>
    /\ kind = KindAt(seen, Len(seen), type)
LEMMA TypeGood ==
    ASSUME Shape, Good, NEW p \in Untyped, NEW t, NEW type, NEW kind, Take(p, t, "name"), item' = item,
           field' = [field EXCEPT !.type = type, !.kind = kind], GivesType(t, type, kind)
    PROVE  Good'
  <1> USE DEF GivesType
  <1>1. at = p /\ p # "top" /\ gram' = Noticed(gram, t, seen)  BY TakeGram DEF Untyped
  <1>2. type[1] \in {"", "map"}  OBVIOUS
  <1>3. gram.state # "top" /\ gram.state # "field"
    <2>1. Goes("top", t) # "type" /\ Goes("field", t) # "type"  BY GoesFile, GoesField DEF Kind
    <2> QED  BY <2>1
  <1>4. After(gram, t, seen) = "type"  BY <1>3, AfterIs
  <1>5. /\ gram'.state = "type" /\ gram'.kind = gram.kind /\ gram'.name = gram.name
        /\ gram'.type = type /\ gram'.members = gram.members
    BY <1>1, <1>3, <1>4, NoticedAs DEF Kind
  <1>6. Content(p, item, field, gram, seen)  BY <1>1, PlacesOf DEF Good
  <1>7. field = NewField /\ p \notin Titled /\ "name" \notin Titled /\ "name" \in Typed
    BY <1>6, PlacesOf DEF Content, FieldIs, Untyped, Titled, Typed
  <1>8. field'.type = type /\ field'.kind = kind /\ field'.value = ""  BY <1>7 DEF NewField
  <1>9. ItemIs("name", item', gram', seen)
    <2>1. "type" \notin Without /\ "type" \notin With  BY DEF With, Without
    <2> QED  BY <1>5, <1>6, <1>7, <2>1, PlacesOf DEF Content, ItemIs
  <1>10. FieldIs("name", field', gram', seen)  BY <1>2, <1>5, <1>7, <1>8 DEF FieldIs
  <1>11. MembersAre("name", item', field', gram')  BY <1>5, <1>6, <1>7 DEF Content, MembersAre
  <1>12. "type" \in StateAt("name")  BY StateAtIs
  <1> QED  BY <1>4, <1>9, <1>10, <1>11, <1>12, TakeGood DEF Content, Between

LEMMA FieldTypeGood == ASSUME Shape, Good, OneDefinition, FieldType \/ MapType PROVE Good'
  <1>1. ASSUME NEW p \in {"field", "noted", "modified"}, NEW t \in Type, Take(p, t, "name"), item' = item,
               field' = [field EXCEPT !.type = <<"", t>>, !.kind = Resolved(t, {"enum", "oneof"})]
        PROVE  Good'
    <2>1. at = p  BY <1>1, TakeIs
    <2>2. gram.state \in {"fields", "noted", "modified"}  BY <2>1, FieldStart
    <2>3. t \in Word /\ Start(t) = "type" /\ t \notin {";", "}", "@"}  BY StartIs
    <2>4. Goes(gram.state, t) = "type"  BY <2>2, <2>3, GoesType
    <2>5. Resolved(t, {"enum", "oneof"}) = KindAt(seen, Len(seen), <<"", t>>)
      BY ResolvedIs DEF Good
    <2>6. GivesType(t, <<"", t>>, Resolved(t, {"enum", "oneof"}))
      BY <2>2, <2>3, <2>4, <2>5, PlainWord DEF GivesType
    <2>7. p \in Untyped  BY DEF Untyped
    <2> QED  BY <1>1, <2>6, <2>7, TypeGood
  <1>2. CASE FieldType
    <2>1. ASSUME NEW p \in {"field", "noted", "modified"}, NEW t \in Modifier, Take(p, t, "modified"),
                 UNCHANGED <<item, field>>
          PROVE  Good'
      BY <2>1, FieldStartGood
    <2>2. ASSUME NEW p \in {"field", "noted", "modified"}, Take(p, "map", "map"), UNCHANGED <<item, field>>
          PROVE  Good'
      BY <2>2, FieldStartGood
    <2> QED  BY <1>1, <1>2, <2>1, <2>2 DEF FieldType
  <1>3. CASE MapType
    <2>1. PICK t \in MapText :
            /\ Take("map", t, "name") /\ item' = item
            /\ field' = [field EXCEPT !.type = <<"map", Strings[t].value>>,
                                      !.kind = MapKind[Resolved(Strings[t].value, {"enum"})]]
      BY <1>3 DEF MapType
    <2>2. at = "map"  BY <2>1, TakeIs
    <2>3. gram.state = "map"  BY <2>2, InPlace, StateAtIs
    <2>4. t \in String /\ Goes(gram.state, t) = "type"  BY <2>3, GoesType DEF MapText
    <2>5. MapKind[Resolved(Strings[t].value, {"enum"})] = KindAt(seen, Len(seen), <<"map", Strings[t].value>>)
      BY ResolvedIs DEF Good
    <2>6. GivesType(t, <<"map", Strings[t].value>>, MapKind[Resolved(Strings[t].value, {"enum"})])
      BY <2>3, <2>4, <2>5, PlainWord DEF GivesType
    <2>7. "map" \in Untyped  BY DEF Untyped
    <2> QED  BY <2>1, <2>6, <2>7, TypeGood
  <1> QED  BY <1>2, <1>3

\* A default is allowed by the code where it is by the grammar.
LEMMA MayIs ==
    ASSUME Shape, Good, at = "named"
    PROVE  field.kind \in {"value", "enum", "oneof"} <=> MayDefault(gram, seen)
  <1>1. Content("named", item, field, gram, seen)  BY PlacesOf DEF Good, Typed
  <1>2. gram.type = field.type /\ field.kind = KindAt(seen, Len(seen), field.type) /\ field.type[1] \in {"", "map"}
    BY <1>1 DEF Content, FieldIs, Typed
  <1>3. MayDefault(gram, seen) <=>
          /\ gram.type[1] = ""
          /\ gram.type[2] \in Primitive \/ Known(seen, Len(seen), "enum", gram.type[2])
                                        \/ Known(seen, Len(seen), "oneof", gram.type[2])
    <2>1. DOMAIN seen = 1..Len(seen)  BY DEF Shape
    <2> QED  BY <2>1 DEF MayDefault, Known
  <1> QED  BY <1>2, <1>3 DEF KindAt

LEMMA NameGood ==
    ASSUME Shape, Good, NEW t \in Word, Take("name", t, "named"), item' = item,
           field' = [field EXCEPT !.name = t]
    PROVE  Good'
  <1>1. Plain(t)  BY PlainWord
  <1>2. at = "name" /\ gram' = Noticed(gram, t, seen)  BY <1>1, TakeGram
  <1>3. gram.state = "type"
    <2>1. gram.state \in StateAt("name")  BY <1>2, InPlace
    <2> QED  BY <2>1, StateAtIs
  <1>4. After(gram, t, seen) = "field"  BY <1>3, AfterIs, GoesField
  <1>5. /\ gram'.state = "field" /\ gram'.kind = gram.kind /\ gram'.name = gram.name
        /\ gram'.type = gram.type
        /\ gram'.members = Append(gram.members, [name |-> t, type |-> gram.type, value |-> ""])
    BY <1>2, <1>3, <1>4, NoticedAs
  <1>6. Content("name", item, field, gram, seen)  BY <1>2, PlacesOf DEF Good, Typed
  <1>7. /\ field'.name = t /\ field'.type = field.type /\ field'.kind = field.kind /\ field'.value = field.value
    BY DEF Shape, FieldLike
  <1>8. field.value = "" /\ gram.type = field.type  BY <1>6 DEF Content, FieldIs
  <1>9. "named" \in Titled /\ "named" \in Typed /\ "name" \in Typed /\ "name" \notin Titled
    BY DEF Titled, Typed
  <1>10. ItemIs("named", item', gram', seen)
    <2>1. "field" \notin Without /\ "field" \notin With  BY DEF With, Without
    <2> QED  BY <1>5, <1>6, <1>9, <2>1, PlacesOf DEF Content, ItemIs
  <1>11. FieldIs("named", field', gram', seen)  BY <1>5, <1>6, <1>7, <1>8, <1>9 DEF Content, FieldIs
  <1>12. MembersAre("named", item', field', gram')
    <2>1. gram.members = Wrote(item.members)  BY <1>6, <1>9 DEF Content, MembersAre
    <2>2. Written(field') = [name |-> t, type |-> gram.type, value |-> ""]  BY <1>7, <1>8 DEF Written
    <2> QED  BY <1>5, <1>9, <2>1, <2>2 DEF MembersAre
  <1>13. "field" \in StateAt("named")  BY StateAtIs
  <1> QED  BY <1>1, <1>4, <1>10, <1>11, <1>12, <1>13, TakeGood DEF Content, Between

LastGets(s, t) == [s EXCEPT ![Len(s)].value = t]
LEMMA LastIs ==
    ASSUME NEW S, NEW s \in Seq(S), NEW r, NEW q, NEW t, [r EXCEPT !.value = t] = q
    PROVE  LastGets(Append(s, r), t) = Append(s, q)
  <1> DEFINE long == Append(s, r)
             new == Append(s, q)
             u == [r EXCEPT !.value = t]
  <1>1. u = q  OBVIOUS
  <1> HIDE DEF u
  <1>2. /\ Len(s) \in Nat /\ Len(long) = Len(s) + 1 /\ DOMAIN long = 1..(Len(s) + 1)
        /\ long[Len(s) + 1] = r /\ \A m \in 1..Len(s) : long[m] = s[m]
    BY AppendIs
  <1>3. /\ new[Len(s) + 1] = q /\ \A m \in 1..Len(s) : new[m] = s[m]
        /\ new = [m \in 1..(Len(s) + 1) |-> new[m]]
    BY AppendIs
  <1> HIDE DEF long, new
  <1>4. [long EXCEPT ![Len(long)].value = t] =
          [m \in 1..(Len(s) + 1) |-> IF m = Len(s) + 1 THEN u ELSE long[m]]
    BY <1>2 DEF u
  <1>5. \A m \in 1..(Len(s) + 1) : (IF m = Len(s) + 1 THEN u ELSE long[m]) = new[m]
    <2> TAKE m \in 1..(Len(s) + 1)
    <2>1. CASE m = Len(s) + 1  BY <1>1, <1>3, <2>1
    <2>2. CASE m # Len(s) + 1
      <3>1. m \in 1..Len(s)  BY <1>2, <2>2
      <3>2. long[m] = s[m] /\ new[m] = s[m]  BY <1>2, <1>3, <3>1
      <3> QED  BY <2>2, <3>2
    <2> QED  BY <2>1, <2>2
  <1>6. [long EXCEPT ![Len(long)].value = t] = new  BY <1>3, <1>4, <1>5
  <1> QED  BY <1>6 DEF long, new, LastGets

LEMMA DefaultGood ==
    ASSUME Shape, Good, NEW t \in Literal, Take("=", t, "default"), item' = item,
           field' = [field EXCEPT !.value = t]
    PROVE  Good'
  <1>1. Plain(t)  BY PlainWord
  <1>2. at = "=" /\ gram' = Noticed(gram, t, seen)  BY <1>1, TakeGram
  <1>3. gram.state = "="  BY <1>2, InPlace, StateAtIs
  <1>4. After(gram, t, seen) = "default"  BY <1>3, AfterIs, GoesField
  <1>5. /\ gram'.state = "default" /\ gram'.kind = gram.kind /\ gram'.name = gram.name
        /\ gram'.members = [gram.members EXCEPT ![Len(gram.members)].value = t]
    BY <1>2, <1>3, <1>4, NoticedAs
  <1>6. Content("=", item, field, gram, seen)  BY <1>2, PlacesOf DEF Good, Typed
  <1>7. /\ field'.name = field.name /\ field'.type = field.type /\ field'.kind = field.kind /\ field'.value = t
    BY DEF Shape, FieldLike
  <1>8. "=" \in Titled /\ "=" \in Typed /\ "default" \in Typed /\ "default" \in Titled
    BY DEF Titled, Typed
  <1>9. ItemIs("default", item', gram', seen)
    <2>1. "default" \notin Without /\ "default" \notin With  BY DEF With, Without
    <2> QED  BY <1>5, <1>6, <1>8, <2>1, PlacesOf DEF Content, ItemIs
  <1>10. FieldIs("default", field', gram', seen)  BY <1>5, <1>6, <1>7, <1>8 DEF Content, FieldIs
  <1>11. MembersAre("default", item', field', gram')
    <2>1. PICK T : Wrote(item.members) \in Seq(T)  BY <1>6, WroteSeq DEF Content, ItemIs
    <2>2. gram.members = Append(Wrote(item.members), Written(field))  BY <1>6, <1>8 DEF Content, MembersAre
    <2>3. Written(field') = [name |-> field.name, type |-> field.type, value |-> t]
      BY <1>7 DEF Written
    <2>4. Written(field) = [name |-> field.name, type |-> field.type, value |-> field.value]
      BY DEF Written
    <2>5. [Written(field) EXCEPT !.value = t] = Written(field')  BY <2>3, <2>4
    <2> DEFINE old == Wrote(item.members)
               last == Written(field)
               next == Written(field')
    <2>6. /\ old \in Seq(T) /\ [last EXCEPT !.value = t] = next
          /\ gram.members = Append(old, last)
      BY <2>1, <2>2, <2>5
    <2> HIDE DEF old, last, next
    <2>7. LastGets(Append(old, last), t) = Append(old, next)  BY <2>6, LastIs
    <2>8. gram'.members = LastGets(gram.members, t)  BY <1>5 DEF LastGets
    <2>9. gram'.members = Append(Wrote(item.members), Written(field'))  BY <2>6, <2>7, <2>8 DEF old, next
    <2> QED  BY <1>8, <2>9 DEF MembersAre
  <1>12. "default" \in StateAt("default")  BY StateAtIs
  <1> QED  BY <1>1, <1>4, <1>9, <1>10, <1>11, <1>12, TakeGood DEF Content, Between

LEMMA FieldNameGood == ASSUME Shape, Good, FieldName, item' = item PROVE Good'
  <1> USE DEF Sized, Plain, GlidesAt, GlidesTo
  <1>1. GlidesAt("named", "[", "[", "field", "[")  BY GlidesStruct, StateAtIs, GoesField
  <1>2. GlidesAt("size", "]", "array", "size", "array")  BY GlidesStruct, StateAtIs, GoesField
  <1>3. GlidesAt("[", "]", "array", "[", "array")  BY GlidesStruct, StateAtIs, GoesField DEF Positive
  <1>4. ASSUME NEW t \in Positive  PROVE GlidesAt("[", t, "size", "[", "size")
    <2>1. Goes("[", t) = "size"  BY GoesField DEF Positive
    <2>2. StateAt("[") = {"["} /\ StateAt("size") = {"size"} /\ Glides("[", "size", "[", "size")
      BY GlidesStruct, StateAtIs
    <2>3. Plain(t)  BY DEF Positive
    <2> QED  BY <2>1, <2>2, <2>3
  <1> HIDE DEF GlidesAt
  <1>5. ASSUME "=" \in FieldToken("named"), Take("named", "=", "="), field' = field  PROVE Good'
    <2>1. at = "named"  BY <1>5, TakeIs
    <2>2. gram.state = "field"  BY <2>1, InPlace, StateAtIs
    <2>3. field.kind \in {"value", "enum", "oneof"}  BY <1>5 DEF FieldToken
    <2>8. field.kind \in Valued  BY <2>3 DEF Valued
    <2>4. MayDefault(gram, seen)  BY <2>1, <2>3, MayIs
    <2>5. After(gram, "=", seen) = "="  BY <2>2, <2>4, GoesField DEF After
    <2>6. Glides("named", "=", "field", "=")  BY GlidesStruct
    <2>7. "=" \in StateAt("=") /\ Plain("=")  BY StateAtIs
    <2> QED  BY <1>5, <2>2, <2>5, <2>6, <2>7, <2>8, Glide
  <1> QED  BY <1>1, <1>2, <1>3, <1>4, <1>5, NameGood, DefaultGood, GlideAt DEF FieldName

\* A member goes behind those before it.
LEMMA MemberAdded ==
    ASSUME NEW S, NEW members \in Seq(S), NEW f, NEW known, NEW n, Resolves(known, n, members),
           Apt(known, n, f)
    PROVE  Resolves(known, n, Append(members, f))
  <1>1. /\ DOMAIN members = 1..Len(members) /\ DOMAIN Append(members, f) = 1..(Len(members) + 1)
        /\ Append(members, f)[Len(members) + 1] = f
        /\ \A m \in 1..Len(members) : Append(members, f)[m] = members[m]
        /\ Len(members) \in Nat
    BY AppendIs
  <1>2. ASSUME NEW m \in 1..(Len(members) + 1)  PROVE Apt(known, n, Append(members, f)[m])
    <2>1. CASE m = Len(members) + 1  BY <1>1, <2>1
    <2>2. CASE m # Len(members) + 1
      <3>1. m \in 1..Len(members)  BY <1>1, <2>2
      <3> QED  BY <1>1, <3>1 DEF Resolves
    <2> QED  BY <2>1, <2>2
  <1> QED  BY <1>1, <1>2 DEF Resolves

LEMMA FieldEndGood == ASSUME Shape, Good, FieldEnd PROVE Good'
  <1>1. PICK p \in {"named", "array", "default"} :
          /\ Take(p, ";", "field") /\ item' = [item EXCEPT !.members = Append(@, field)]
          /\ field' = NewField
    BY DEF FieldEnd
  <1>2. Plain(";")  BY DEF Plain
  <1>3. at = p /\ gram' = Noticed(gram, ";", seen)  BY <1>1, <1>2, TakeGram
  <1>4. gram.state \in {"field", "array", "default"}  BY <1>3, InPlace, StateAtIs
  <1>5. After(gram, ";", seen) = "fields"
    <2>1. After(gram, ";", seen) = Goes(gram.state, ";")  BY AfterIs
    <2>2. Goes("field", ";") = "fields" /\ Goes("array", ";") = "fields" /\ Goes("default", ";") = "fields"
      BY GoesField
    <2> QED  BY <1>4, <2>1, <2>2
  <1>6. gram'.state = "fields" /\ gram'.kind = gram.kind /\ gram'.name = gram.name /\ gram'.members = gram.members
    BY <1>3, <1>4, <1>5, NoticedAs
  <1>7. p \in Titled /\ p \in Typed /\ "field" \notin Titled \cup Typed /\ "field" \in OfStruct
    BY DEF Titled, Typed, OfStruct, FieldPlace
  <1>8. Content(p, item, field, gram, seen)  BY <1>3, <1>7, PlacesOf DEF Good
  <1>9. PICK S : item.members \in Seq(S)  BY <1>8 DEF Content, ItemIs
  <1>10. /\ item'.had = item.had /\ item'.kind = item.kind /\ item'.name = item.name
         /\ item'.members = Append(item.members, field)
    BY <1>1 DEF Shape, ItemLike
  <1>11. ItemIs("field", item', gram', seen)
    <2>1. "fields" \notin Without /\ "fields" \notin With /\ "field" \notin Kind  BY DEF With, Without, Kind
    <2>2. Resolves(seen, Len(seen), item'.members)
      <3>1. Resolves(seen, Len(seen), item.members) /\ Apt(seen, Len(seen), field)
        BY <1>7, <1>8, PlacesOf DEF Content, ItemIs, FieldIs, Apt
      <3>2. Resolves(seen, Len(seen), Append(item.members, field))  BY <1>9, <3>1, MemberAdded
      <3> QED  BY <1>10, <3>2
    <2>3. \E T : item'.members \in Seq(T)
      <3>1. \E T : Append(item.members, field) \in Seq(T)  BY <1>9, AppendIs
      <3> QED  BY <1>10, <3>1
    <2>4. "field" \notin OfEnum /\ "field" \notin OfOneof  BY PlacesOf DEF Untyped
    <2> QED  BY <1>6, <1>7, <1>8, <1>10, <2>1, <2>2, <2>3, <2>4, PlacesOf DEF Content, ItemIs
  <1>12. FieldIs("field", field', gram', seen)  BY <1>1, <1>7 DEF FieldIs, NewField
  <1>13. MembersAre("field", item', field', gram')
    <2>1. gram.members = Append(Wrote(item.members), Written(field))  BY <1>7, <1>8 DEF Content, MembersAre
    <2>2. Wrote(item'.members) = gram.members  BY <1>9, <1>10, <2>1, WroteAppend
    <2> QED  BY <1>6, <1>7, <2>2 DEF MembersAre
  <1>14. "fields" \in StateAt("field")  BY StateAtIs
  <1> QED  BY <1>1, <1>2, <1>5, <1>11, <1>12, <1>13, <1>14, TakeGood DEF Content, Between

\* The name of a definition, from a place p to q, of the state s.
LEMMA ItemNamed ==
    ASSUME Shape, Good, NEW t \in Word, NEW p \in Kind, NEW q, NEW s,
           Take(p, t, q), item' = [item EXCEPT !.name = t], field' = field,
           p = "struct" => q = "struct {" /\ s = "struct name",
           p = "enum" => q = "enum {" /\ s = "enum name",
           p = "oneof" => q = "oneof {" /\ s = "oneof name"
    PROVE  Good'
  <1>1. Plain(t)  BY PlainWord
  <1>2. at = p /\ gram' = Noticed(gram, t, seen) /\ p # "top"  BY <1>1, TakeGram DEF Kind
  <1>3. gram.state = p  BY <1>2, InPlace, StateAtIs DEF Kind
  <1>4. After(gram, t, seen) = s /\ s \in StateAt(q)
    <2>1. After(gram, t, seen) = Goes(p, t)  BY <1>3, AfterIs DEF Kind
    <2>2. /\ Goes("struct", t) = "struct name" /\ Goes("enum", t) = "enum name"
          /\ Goes("oneof", t) = "oneof name"
      BY GoesStruct, GoesEnum, GoesOneof
    <2>3. /\ "struct name" \in StateAt("struct {") /\ "enum name" \in StateAt("enum {")
          /\ "oneof name" \in StateAt("oneof {")
      BY StateAtIs
    <2> QED  BY <2>1, <2>2, <2>3 DEF Kind
  <1>5. s \in {"struct name", "enum name", "oneof name"} /\ q \in {"struct {", "enum {", "oneof {"}
    BY DEF Kind
  <1>6. /\ gram'.state = s /\ gram'.kind = gram.kind /\ gram'.name = t /\ gram'.members = gram.members
    BY <1>2, <1>3, <1>4, <1>5, NoticedAs DEF Kind
  <1>7. /\ InItem(p) /\ InItem(q) /\ (p \in OfStruct <=> q \in OfStruct) /\ (p \in OfEnum <=> q \in OfEnum)
        /\ (p \in OfOneof <=> q \in OfOneof) /\ p \notin Titled /\ p \notin Typed /\ q \notin Titled
        /\ q \notin Typed /\ q \notin Kind /\ (s \in Without <=> p \in Without) /\ s \notin With
    <2>1. CASE p = "struct"
      BY <2>1 DEF InItem, OfStruct, OfEnum, OfOneof, FieldPlace, Titled, Typed, Kind, With, Without
    <2>2. CASE p = "enum"
      BY <2>2 DEF InItem, OfStruct, OfEnum, OfOneof, FieldPlace, Titled, Typed, Kind, With, Without
    <2>3. CASE p = "oneof"
      BY <2>3 DEF InItem, OfStruct, OfEnum, OfOneof, FieldPlace, Titled, Typed, Kind, With, Without
    <2> QED  BY <2>1, <2>2, <2>3 DEF Kind
  <1>8. Content(p, item, field, gram, seen)  BY <1>2, <1>7 DEF Good
  <1>9. /\ item'.had = item.had /\ item'.kind = item.kind /\ item'.name = t /\ item'.members = item.members
    BY DEF Shape, ItemLike
  <1>10. ItemIs(q, item', gram', seen)  BY <1>3, <1>6, <1>7, <1>8, <1>9 DEF Content, ItemIs
  <1>11. FieldIs(q, field', gram', seen)  BY <1>5, <1>7, <1>8 DEF Content, FieldIs, NewField, Kind
  <1>12. MembersAre(q, item', field', gram')  BY <1>6, <1>7, <1>8, <1>9 DEF Content, MembersAre
  <1>13. q \notin Between  BY <1>5 DEF Between
  <1> QED  BY <1>1, <1>4, <1>10, <1>11, <1>12, <1>13, TakeGood DEF Content

LEMMA RefuseRuins ==
    ASSUME Shape, NEW p, NEW t, Refuse(p, t), t = "eof" => gram.state \notin Final,
           t # "eof" => After(gram, t, seen) = "bad"
    PROVE  Ruined'
  <1>1. Moved(t) /\ t \in Coming /\ Watch(t) /\ Broken'  BY RefuseIs DEF Broken
  <1> QED  BY <1>1, Ruins

LEMMA StructNameGood == ASSUME Shape, Good, StructName PROVE Good' \/ Ruined'
  <1>1. ASSUME NEW t \in Word, Take("struct", t, "struct {"), item' = [item EXCEPT !.name = t], field' = field
        PROVE  Good'
    BY <1>1, ItemNamed DEF Kind
  <1>2. ASSUME NextToken("struct", "eof"), Watch("eof"), Return(0), UNCHANGED <<errs, defs, lost>>
        PROVE  Good'
    <2>1. at = "struct" /\ Moved("eof")  BY <1>2, NextTokenMoves
    <2>2. gram.state = "struct"  BY <2>1, InPlace, StateAtIs
    <2>3. /\ gram' = gram /\ seen' = seen /\ legal' = legal /\ had' = had /\ at' = "top"
          /\ callers' = callers /\ errs' = errs /\ defs' = defs
      BY <1>2, <2>1 DEF Watch, history, Return, Moved
    <2>4. AtEnd'
      <3>1. file'.pos = Len(Here) + 1 /\ Here' = Here  BY <2>1 DEF Moved, Here
      <3> QED  BY <3>1, HereIs DEF AtEnd
    <2>5. ~InItem("top")  BY DEF InItem, OfStruct, OfEnum, OfOneof, FieldPlace
    <2>6. field' = NewField  BY <1>2 DEF Return
    <2> QED  BY <2>2, <2>3, <2>4, <2>5, <2>6 DEF Good, Quiet, Same, InStep
  <1>3. ASSUME NEW t \in Coming \ (Word \cup {"eof"}), Refuse("struct", t)  PROVE Ruined'
    <2>1. at = "struct"  BY <1>3, RefuseIs
    <2>2. gram.state = "struct"  BY <2>1, InPlace, StateAtIs
    <2>3. After(gram, t, seen) = "bad"  BY <1>3, <2>2, AfterIs, GoesStruct
    <2> QED  BY <1>3, <2>3, RefuseRuins
  <1>4. ASSUME Take("struct {", "{", "field"), UNCHANGED <<item, field>>  PROVE Good'
    <2>1. Glides("struct {", "field", "struct name", "fields")  BY GlidesStruct DEF Untyped
    <2>2. GlidesAt("struct {", "{", "field", "struct name", "fields")
      BY <2>1, StateAtIs, GoesStruct DEF GlidesAt, GlidesTo, Plain
    <2> QED  BY <1>4, <2>2, GlideAt
  <1>5. ASSUME NEW t \in Coming \ {"{"}, Refuse("struct {", t)  PROVE Ruined'
    <2>1. at = "struct {"  BY <1>5, RefuseIs
    <2>2. gram.state = "struct name"  BY <2>1, InPlace, StateAtIs
    <2>3. Goes("struct name", t) = "bad" /\ "struct name" \notin Final  BY <1>5, GoesStruct DEF Final
    <2>4. After(gram, t, seen) = "bad" /\ gram.state \notin Final  BY <2>2, <2>3, AfterIs
    <2> QED  BY <1>5, <2>4, RefuseRuins
  <1> QED  BY <1>1, <1>2, <1>3, <1>4, <1>5 DEF StructName

-----------------------------------------------------------------------------
(***************************************************************************)
(* What the code refuses in a field, the grammar refuses.                  *)
(***************************************************************************)
LEMMA FieldRefused ==
    ASSUME Shape, Good, NEW p \in FieldPlace, at = p, NEW t, t \notin FieldToken(p)
    PROVE  After(gram, t, seen) = "bad" /\ gram.state \notin Final
  <1>1. gram.state \in StateAt(p)  BY InPlace DEF FieldPlace
  <1>2. CASE p \in {"field", "noted", "modified"}
    <2>2. t \notin Word \ {"struct"}  BY <1>2 DEF FieldToken
    <2>3. Start(t) = "bad"  BY <2>2 DEF Start, Modifier, Type, Word
    <2>4. CASE p = "field"
      <3>1. t \notin {";", "}", "@"} /\ gram.state = "fields"  BY <1>1, <2>4, StateAtIs DEF FieldToken
      <3>2. Goes(gram.state, t) = "bad"  BY <2>3, <3>1, GoesType
      <3> QED  BY <3>1, <3>2, AfterIs DEF Final
    <2>5. CASE p = "noted"
      <3>1. t # "@" /\ gram.state = "noted"  BY <1>1, <2>5, StateAtIs DEF FieldToken
      <3>2. Goes(gram.state, t) = "bad"  BY <2>3, <3>1, GoesType
      <3> QED  BY <3>1, <3>2, AfterIs DEF Final
    <2>6. CASE p = "modified"
      <3>1. gram.state = "modified"  BY <1>1, <2>6, StateAtIs
      <3>2. Goes(gram.state, t) = "bad"  BY <2>3, <3>1, GoesType
      <3> QED  BY <3>1, <3>2, AfterIs DEF Final
    <2> QED  BY <1>2, <2>4, <2>5, <2>6
  <1>3. CASE p = "field @"
    <2>1. t \notin {"json", "deprecated"} /\ gram.state = "field @"  BY <1>1, <1>3, StateAtIs DEF FieldToken
    <2>2. Goes("field @", t) = "bad"  BY <2>1, GoesType
    <2> QED  BY <2>1, <2>2, AfterIs DEF Final
  <1>4. CASE p = "alias"
    <2>1. t \notin String /\ gram.state = "alias"  BY <1>1, <1>4, StateAtIs DEF FieldToken
    <2>2. Goes("alias", t) = "bad"  BY <2>1, GoesType
    <2> QED  BY <2>1, <2>2, AfterIs DEF Final
  <1>5. CASE p = "map"
    <2>1. t \notin MapText /\ gram.state = "map"  BY <1>1, <1>5, StateAtIs DEF FieldToken
    <2>2. Goes("map", t) = "bad"  BY <2>1, GoesType
    <2> QED  BY <2>1, <2>2, AfterIs DEF Final
  <1>6. CASE p = "name"
    <2>1. t \notin Word /\ gram.state = "type"  BY <1>1, <1>6, StateAtIs DEF FieldToken
    <2>2. Goes("type", t) = "bad"  BY <2>1, GoesField
    <2> QED  BY <2>1, <2>2, AfterIs DEF Final
  <1>7. CASE p = "named"
    <2>1. t \notin {";", "["} /\ gram.state = "field"  BY <1>1, <1>7, StateAtIs DEF FieldToken
    <2>2. CASE t = "="
      <3>1. field.kind \notin {"value", "enum", "oneof"}  BY <1>7, <2>2 DEF FieldToken
      <3>2. ~MayDefault(gram, seen)  BY <1>7, <3>1, MayIs
      <3> QED  BY <2>1, <2>2, <3>2 DEF After, Final
    <2>3. CASE t # "="
      <3>1. Goes("field", t) = "bad"  BY <2>1, <2>3, GoesField
      <3> QED  BY <2>1, <2>3, <3>1, AfterIs DEF Final
    <2> QED  BY <2>2, <2>3
  <1>8. CASE p = "["
    <2>1. t \notin {"]"} \cup Positive /\ gram.state = "["  BY <1>1, <1>8, StateAtIs DEF FieldToken
    <2>2. Goes("[", t) = "bad"  BY <2>1, GoesField
    <2> QED  BY <2>1, <2>2, AfterIs DEF Final
  <1>9. CASE p = "size"
    <2>1. t # "]" /\ gram.state = "size"  BY <1>1, <1>9, StateAtIs DEF FieldToken
    <2>2. Goes("size", t) = "bad"  BY <2>1, GoesField
    <2> QED  BY <2>1, <2>2, AfterIs DEF Final
  <1>10. CASE p = "array"
    <2>1. t # ";" /\ gram.state = "array"  BY <1>1, <1>10, StateAtIs DEF FieldToken
    <2>2. Goes("array", t) = "bad"  BY <2>1, GoesField
    <2> QED  BY <2>1, <2>2, AfterIs DEF Final
  <1>11. CASE p = "="
    <2>1. t \notin Literal /\ gram.state = "="  BY <1>1, <1>11, StateAtIs DEF FieldToken
    <2>2. Goes("=", t) = "bad"  BY <2>1, GoesField
    <2> QED  BY <2>1, <2>2, AfterIs DEF Final
  <1>12. CASE p = "default"
    <2>1. t # ";" /\ gram.state = "default"  BY <1>1, <1>12, StateAtIs DEF FieldToken
    <2>2. Goes("default", t) = "bad"  BY <2>1, GoesField
    <2> QED  BY <2>1, <2>2, AfterIs DEF Final
  <1> QED  BY <1>2, <1>3, <1>4, <1>5, <1>6, <1>7, <1>8, <1>9, <1>10, <1>11, <1>12 DEF FieldPlace

LEMMA FieldErrorRuins == ASSUME Shape, Good, FieldError PROVE Ruined'
  <1>1. PICK p \in FieldPlace, t \in Coming :
          t \notin FieldToken(p) /\ NextToken(p, t) /\ Watch(t) /\ Report /\ Resync(t)
    BY DEF FieldError
  <1>2. at = p /\ Moved(t)  BY <1>1, NextTokenMoves
  <1>3. After(gram, t, seen) = "bad" /\ gram.state \notin Final  BY <1>1, <1>2, FieldRefused
  <1>4. Broken'
    <2>1. CASE t \in {"}", "eof"}
      <3>1. Return(-1)  BY <1>1, <2>1 DEF Resync
      <3> QED  BY <3>1 DEF Return, Broken
    <2>2. CASE t \notin {"}", "eof"}
      <3>1. at' \in {"field", "skip field"} /\ item' = [item EXCEPT !.had = 1]
        BY <1>1, <2>2 DEF Resync
      <3>2. item'.had = 1  BY <3>1 DEF Shape, ItemLike
      <3> QED  BY <3>1, <3>2 DEF Broken, InBody, FieldPlace
    <2> QED  BY <2>1, <2>2
  <1> QED  BY <1>1, <1>2, <1>3, <1>4, Ruins

\* No place of the code where tokens are skipped is reached in step.
LEMMA NoSkip == Good => at \notin {"skip", "skip field", "skip member"}
  <1> SUFFICES ASSUME Good, at \in {"skip", "skip field", "skip member"}  PROVE FALSE
    OBVIOUS
  <1>1. gram.state \in StateAt(at)  BY DEF Good, InStep
  <1> QED  BY <1>1, StateAtIs

-----------------------------------------------------------------------------
(***************************************************************************)
(* The end of a definition.                                                *)
(***************************************************************************)
LEMMA InsertedIs ==
    ASSUME IsMaps, item.kind \in Kind, defs' = Inserted
    PROVE  /\ \A k \in Kind : k # item.kind => defs'[k] = defs[k]
           /\ DOMAIN defs'[item.kind] = DOMAIN defs[item.kind] \cup {item.name}
           /\ defs'[item.kind][item.name] = item.members
           /\ \A n \in DOMAIN defs[item.kind] : n # item.name => defs'[item.kind][n] = defs[item.kind][n]
  <1>1. ASSUME NEW k \in Kind, k # item.kind  PROVE defs'[k] = defs[k]
    BY <1>1 DEF IsMaps, Inserted
  <1>2. defs'[item.kind] = [n \in DOMAIN defs[item.kind] \cup {item.name} |->
                              IF n = item.name THEN item.members ELSE defs[item.kind][n]]
    BY DEF IsMaps, Inserted
  <1> QED  BY <1>1, <1>2

LEMMA AvailableIs ==
    ASSUME Shape, Same, NEW name
    PROVE  Available(name) <=> ~Declared(name)
  <1>1. DOMAIN seen = 1..Len(seen)  BY DEF Shape
  <1>2. ASSUME NEW k \in Kind, name \in DOMAIN defs[k]  PROVE Declared(name)
    <2>1. Known(seen, Len(seen), k, name)  BY <1>2 DEF Same
    <2> QED  BY <1>1, <2>1 DEF Known, Declared
  <1>3. ASSUME NEW i \in 1..Len(seen), seen[i].name = name  PROVE ~Available(name)
    <2>1. seen[i].kind \in Kind  BY DEF Same
    <2>2. Known(seen, Len(seen), seen[i].kind, name)  BY <1>3 DEF Known
    <2>3. name \in DOMAIN defs[seen[i].kind]  BY <2>1, <2>2 DEF Same
    <2> QED  BY <2>1, <2>3 DEF Available
  <1> QED  BY <1>1, <1>2, <1>3 DEF Available, Declared

\* A definition under a new name, put into its map and among those completed.
LEMMA SameInserted ==
    ASSUME Shape, Same, IsMaps, Available(item.name), item.kind \in Kind, defs' = Inserted,
           NEW d, d.kind = item.kind, d.name = item.name, d.members = Wrote(item.members),
           \E T : item.members \in Seq(T),
           d.kind = "struct" => Resolves(seen, Len(seen), item.members),
           seen' = Append(seen, d)
    PROVE  Same'
  <1> DEFINE n == Len(seen)
             K == item.kind
             N == item.name
  <1>1. PICK S : seen \in Seq(S)  BY DEF Shape
  <1>2. /\ n \in Nat /\ Len(seen') = n + 1 /\ seen'[n + 1] = d /\ \A i \in 1..n : seen'[i] = seen[i]
    BY <1>1, AppendIs
  <1>3. /\ \A k \in Kind : k # K => defs'[k] = defs[k]
        /\ DOMAIN defs'[K] = DOMAIN defs[K] \cup {N} /\ defs'[K][N] = item.members
        /\ \A m \in DOMAIN defs[K] : m # N => defs'[K][m] = defs[K][m]
    BY InsertedIs
  <1>4. \A k \in Kind : N \notin DOMAIN defs[k]  BY DEF Available
  <1>5. \A i \in 1..n : seen[i].name # N
    <2>1. ~Declared(N)  BY AvailableIs
    <2> QED  BY <1>1, <2>1 DEF Declared
  <1>6. \A i \in 1..(n + 1) : i = n + 1 \/ i \in 1..n  BY <1>2
  <1>7. \A k, name : Known(seen', n + 1, k, name) <=> Known(seen, n, k, name) \/ (k = K /\ name = N)
    BY <1>2, <1>6 DEF Known
  <1>8. \A i \in 1..(n + 1) : seen'[i].kind \in Kind
    BY <1>2, <1>6 DEF Same
  <1>9. ASSUME NEW k \in Kind, NEW name
        PROVE  name \in DOMAIN defs'[k] <=> Known(seen', n + 1, k, name)
    <2>1. name \in DOMAIN defs[k] <=> Known(seen, n, k, name)  BY DEF Same
    <2>2. CASE k = K  BY <1>3, <1>7, <2>1, <2>2
    <2>3. CASE k # K  BY <1>3, <1>7, <2>1, <2>3
    <2> QED  BY <2>2, <2>3
  <1>10. \A i, j \in 1..(n + 1) : seen'[i].name = seen'[j].name => i = j
    <2> TAKE i, j \in 1..(n + 1)
    <2> HAVE seen'[i].name = seen'[j].name
    <2>1. \A a, b \in 1..n : seen[a].name = seen[b].name => a = b  BY DEF Same
    <2>2. CASE i \in 1..n /\ j \in 1..n  BY <1>2, <2>1, <2>2
    <2>3. CASE i = n + 1 /\ j \in 1..n  BY <1>2, <1>5, <2>3
    <2>4. CASE j = n + 1 /\ i \in 1..n  BY <1>2, <1>5, <2>4
    <2> QED  BY <1>6, <2>2, <2>3, <2>4
  <1>11. ASSUME NEW i \in 1..n
         PROVE  defs'[seen[i].kind][seen[i].name] = defs[seen[i].kind][seen[i].name]
    <2>1. seen[i].kind \in Kind /\ seen[i].name # N  BY <1>5 DEF Same
    <2>2. seen[i].name \in DOMAIN defs[seen[i].kind]
      <3>1. Known(seen, n, seen[i].kind, seen[i].name)  BY DEF Known
      <3> QED  BY <2>1, <3>1 DEF Same
    <2> QED  BY <1>3, <2>1, <2>2
  <1>12. \A i \in 1..(n + 1) : Wrote(defs'[seen'[i].kind][seen'[i].name]) = seen'[i].members
    <2> TAKE i \in 1..(n + 1)
    <2>1. CASE i = n + 1  BY <1>2, <1>3, <2>1
    <2>2. CASE i \in 1..n
      <3>1. Wrote(defs[seen[i].kind][seen[i].name]) = seen[i].members  BY <2>2 DEF Same
      <3> QED  BY <1>2, <1>11, <2>2, <3>1
    <2> QED  BY <1>6, <2>1, <2>2
  <1>15. \A i \in 1..(n + 1) : \E T : defs'[seen'[i].kind][seen'[i].name] \in Seq(T)
    <2> TAKE i \in 1..(n + 1)
    <2>1. CASE i = n + 1  BY <1>2, <1>3, <2>1
    <2>2. CASE i \in 1..n
      <3>1. \E T : defs[seen[i].kind][seen[i].name] \in Seq(T)  BY <2>2 DEF Same
      <3> QED  BY <1>2, <1>11, <2>2, <3>1
    <2> QED  BY <1>6, <2>1, <2>2
  <1>13. ASSUME NEW m \in 0..n, NEW members, Resolves(seen, m, members)  PROVE Resolves(seen', m, members)
    <2>1. \A type : KindAt(seen', m, type) = KindAt(seen, m, type)  BY <1>1, KnownMore
    <2> QED  BY <1>13, <2>1 DEF Resolves, Apt
  <1>14. \A i \in 1..(n + 1) : seen'[i].kind = "struct" => Resolves(seen', i - 1, defs'["struct"][seen'[i].name])
    <2> TAKE i \in 1..(n + 1)
    <2> HAVE seen'[i].kind = "struct"
    <2>1. CASE i = n + 1
      <3>1. i - 1 = n /\ n \in 0..n  BY <1>2, <2>1
      <3>2. seen'[i] = d /\ defs'["struct"][seen'[i].name] = item.members  BY <1>2, <1>3, <2>1
      <3>3. Resolves(seen, n, item.members)  BY <3>2
      <3> QED  BY <1>13, <3>1, <3>2, <3>3
    <2>2. CASE i \in 1..n
      <3>1. seen'[i] = seen[i] /\ i - 1 \in 0..n  BY <1>2, <2>2
      <3>2. Resolves(seen, i - 1, defs["struct"][seen[i].name])  BY <2>2, <3>1 DEF Same
      <3>3. defs'["struct"][seen[i].name] = defs["struct"][seen[i].name]  BY <1>11, <2>2, <3>1
      <3> QED  BY <1>13, <3>1, <3>2, <3>3
    <2> QED  BY <1>6, <2>1, <2>2
  <1> QED  BY <1>2, <1>8, <1>9, <1>10, <1>12, <1>14, <1>15 DEF Same

LEMMA ReturnBadly == Return(-1) => had' = 1
  <1>1. \A r : r # 0 /\ Return(r) => had' = 1  BY DEF Return
  <1>2. PICK r : r = -1 /\ r # 0  OBVIOUS
  <1> QED  BY <1>1, <1>2

\* A definition is complete: a place p before its closing brace.
LEMMA Finished ==
    ASSUME Shape, Good, IsMaps, NEW p \in {"field", "value", "after value", "variant"},
           NextToken(p, "}"), Watch("}"), After(gram, "}", seen) = "top",
           NEW r, r = 0, Register(errs, r)
    PROVE  Good' \/ Ruined' \/ lost' # {}
  <1> DEFINE d == [kind |-> gram.kind, name |-> gram.name, members |-> gram.members]
  <1>1. at = p /\ Moved("}")  BY NextTokenMoves
  <1>2. /\ gram' = Noticed(gram, "}", seen) /\ seen' = Append(seen, d)
        /\ legal' = (legal /\ ~Declared(gram.name))
    BY DEF Watch, Completes
  <1>3. gram'.state = "top"  BY <1>2, NoticedAs
  <1>4. p \in {"field"} \cup OfEnum \cup OfOneof /\ InItem(p) /\ p \notin Titled /\ p \notin Kind
    BY DEF InItem, OfStruct, OfEnum, OfOneof, FieldPlace, Titled, Typed, Kind
  <1>5. Content(p, item, field, gram, seen)  BY <1>1, <1>4 DEF Good
  <1>6. /\ item.kind \in Kind /\ d.kind = item.kind /\ d.name = item.name /\ d.members = Wrote(item.members)
        /\ d.kind = "struct" => Resolves(seen, Len(seen), item.members)
        /\ \E T : item.members \in Seq(T)
    <2>1. item.kind = gram.kind /\ item.name = gram.name  BY <1>4, <1>5 DEF Content, ItemIs
    <2>2. gram.members = Wrote(item.members)  BY <1>4, <1>5 DEF Content, MembersAre
    <2>3. CASE p = "field"
      <3>1. p \in OfStruct  BY <2>3 DEF OfStruct, FieldPlace
      <3> QED  BY <1>5, <2>1, <2>2, <3>1 DEF Content, ItemIs, Kind
    <2>4. CASE p \in OfEnum  BY <1>5, <2>1, <2>2, <2>4 DEF Content, ItemIs, Kind
    <2>5. CASE p \in OfOneof  BY <1>5, <2>1, <2>2, <2>5 DEF Content, ItemIs, Kind
    <2> QED  BY <1>4, <2>3, <2>4, <2>5
  <1>7. Available(item.name) <=> ~Declared(gram.name)
    <2>1. item.name = gram.name  BY <1>4, <1>5 DEF Content, ItemIs
    <2>2. Available(gram.name) <=> ~Declared(gram.name)  BY AvailableIs DEF Good
    <2> QED  BY <2>1, <2>2
  <1>8. CASE ~Available(item.name)
    <2>1. Return(-1)  BY <1>8 DEF Register
    <2>2. had' = 1  BY <2>1, ReturnBadly
    <2> QED  BY <1>2, <1>7, <1>8, <2>2 DEF Ruined, Illegal, Failing, Broken
  <1>9. CASE Available(item.name) /\ lost' = lost \cup {item.name}  BY <1>9
  <1>10. CASE Available(item.name) /\ defs' = Inserted /\ lost' = lost
    <2>1. Same'
      <3> HIDE DEF d
      <3> QED  BY <1>2, <1>6, <1>10, SameInserted DEF Good
    <2>2. had' = had /\ errs' = errs /\ at' = "top" /\ callers' = callers /\ legal'
      BY <1>1, <1>2, <1>7, <1>10 DEF Register, Return, Moved, Good, Quiet
    <2>3. Quiet'  BY <2>2 DEF Good, Quiet
    <2>4. InStep'  BY <1>3, <2>2, StateAtIs DEF InStep
    <2>5. ~InItem("top")  BY DEF InItem, OfStruct, OfEnum, OfOneof, FieldPlace
    <2>6. field' = NewField  BY <1>10 DEF Register, Return
    <2> QED  BY <2>1, <2>2, <2>3, <2>4, <2>5, <2>6 DEF Good
  <1> QED  BY <1>8, <1>9, <1>10 DEF Register

LEMMA StructEndGood == ASSUME Shape, Good, IsMaps, StructEnd PROVE Good' \/ Ruined' \/ lost' # {}
  <1>1. at = "field"  BY NextTokenMoves DEF StructEnd
  <1>2. gram.state = "fields"
    <2>1. gram.state \in StateAt("field")  BY <1>1, InPlace
    <2> QED  BY <2>1, StateAtIs
  <1>3. Goes("fields", "}") = "top"  BY GoesType
  <1>4. After(gram, "}", seen) = "top"  BY <1>2, <1>3, AfterIs
  <1>5. item.had = 0
    <2>1. InItem("field")  BY DEF InItem, OfStruct, FieldPlace
    <2> QED  BY <1>1, <2>1 DEF Good, Content, ItemIs
  <1>6. NextToken("field", "}") /\ Watch("}") /\ Register(errs, 0)
    <2>1. item.had # 1  BY <1>5
    <2> QED  BY <2>1 DEF StructEnd
  <1>7. PICK r : r = 0 /\ Register(errs, r)  BY <1>6
  <1> QED  BY <1>4, <1>6, <1>7, Finished

LEMMA ItemEndGood == ASSUME Shape, Good, IsMaps, ItemEnd PROVE Good' \/ Ruined' \/ lost' # {}
  <1>1. PICK p \in {"value", "after value", "variant"} :
          NextToken(p, "}") /\ Watch("}") /\ Closed(errs, -item.had)
    BY DEF ItemEnd
  <1>2. at = p /\ Moved("}") /\ "}" \in Coming  BY <1>1, NextTokenMoves
  <1>3. gram.state \in StateAt(p)  BY <1>2, InPlace
  <1>4. InItem(p) /\ (p = "variant" <=> p \in OfOneof) /\ (p # "variant" <=> p \in OfEnum)
    BY DEF InItem, OfEnum, OfOneof
  <1>5. Content(p, item, field, gram, seen)  BY <1>2, <1>4 DEF Good
  <1>6. item.had = 0 /\ (item.kind = "oneof" <=> p = "variant")  BY <1>4, <1>5 DEF Content, ItemIs
  <1> DEFINE r == -item.had
  <1>7. r = 0
    <2>1. PICK n \in {0, 1} : n = item.had /\ n = 0  BY <1>6
    <2>2. r = -n  BY <2>1 DEF r
    <2> HIDE DEF r
    <2> QED  BY <2>1, <2>2, Minus
  <1> HIDE DEF r
  <1>8. CASE item.kind = "oneof" /\ item.members = <<>>
    <2>1. gram.state \in {"no variants", "variants"}  BY <1>3, <1>6, <1>8, StateAtIs
    <2>2. "variants" \in With  BY DEF With
    <2>3. gram.state = "no variants"  BY <1>5, <1>8, <2>1, <2>2 DEF Content, ItemIs
    <2>4. Goes("no variants", "}") = "bad"  BY GoesOneof, Signs DEF Sign, Separator
    <2>5. After(gram, "}", seen) = "bad"  BY <2>3, <2>4, AfterIs
    <2>6. had' = 1
      <3>1. Return(-1)  BY <1>1, <1>8 DEF Closed
      <3> QED  BY <3>1, ReturnBadly
    <2> QED  BY <1>1, <1>2, <2>5, <2>6, Ruins DEF Broken
  <1>9. CASE ~(item.kind = "oneof" /\ item.members = <<>>)
    <2>1. Register(errs, r)  BY <1>1, <1>9 DEF Closed, r
    <2>2. gram.state \in {"value", "values", "variants"}
      <3>1. CASE p = "value"  BY <1>3, <3>1, StateAtIs
      <3>3. CASE p = "after value"  BY <1>3, <3>3, StateAtIs
      <3>2. CASE p = "variant"
        <4>1. gram.state \in {"no variants", "variants"}  BY <1>3, <3>2, StateAtIs
        <4>2. "no variants" \in Without  BY DEF Without
        <4> QED  BY <1>5, <1>6, <1>9, <3>2, <4>1, <4>2 DEF Content, ItemIs
      <3> QED  BY <3>1, <3>2, <3>3
    <2>3. Goes("value", "}") = "top" /\ Goes("values", "}") = "top" /\ Goes("variants", "}") = "top"
      <3>1. "}" \notin Word /\ "}" \notin Separator  BY Signs DEF Sign, Separator
      <3> QED  BY <3>1, GoesEnum, GoesOneof
    <2>4. After(gram, "}", seen) = Goes(gram.state, "}")  BY AfterIs
    <2>5. After(gram, "}", seen) = "top"  BY <2>2, <2>3, <2>4
    <2> QED  BY <1>1, <1>7, <2>1, <2>5, Finished
  <1> QED  BY <1>8, <1>9

-----------------------------------------------------------------------------
(***************************************************************************)
(* The values of an enum and the variants of a oneof.                      *)
(***************************************************************************)
EnumPlace == {"enum {", "value", "value @", "old value", "after value"}
EnumState == {"enum name", "values", "value @", "old value", "value"}
EnumLike(p) ==
    /\ InItem(p) /\ p \in OfEnum /\ p \notin OfStruct /\ p \notin OfOneof
    /\ p \notin Typed /\ p \notin Titled
    /\ p \notin Kind \cup {"default", "variant name", "variant ;", "name", "named"}
LEMMA GlidesEnum ==
    \A p \in EnumPlace, q \in EnumPlace, r \in EnumState, s \in EnumState \ {"enum name", "value"} :
        Glides(p, q, r, s)
  <1>1. \A p \in EnumPlace : /\ p \in OfEnum
                             /\ p \notin Kind \cup {"default", "variant name", "variant ;", "name", "named"}
    BY DEF EnumPlace, OfEnum, Kind
  <1>2. \A s \in EnumState \ {"enum name", "value"} : s \notin Without /\ s \notin With /\ s \notin Special
    BY DEF EnumState, Without, With, Special
  <1>3. \A r \in EnumState : r # "top"  BY DEF EnumState
  <1>4. \A p \in OfEnum : InItem(p) /\ p \notin OfStruct /\ p \notin OfOneof /\ p \notin Typed /\ p \notin Titled
    BY PlacesOf
  <1>5. \A p \in EnumPlace : EnumLike(p)  BY <1>1, <1>4 DEF EnumLike
  <1> TAKE p \in EnumPlace, q \in EnumPlace, r \in EnumState, s \in EnumState \ {"enum name", "value"}
  <1>6. EnumLike(p) /\ EnumLike(q)  BY <1>5
  <1>7. r # "top" /\ s \notin Special /\ s \notin Without /\ s \notin With  BY <1>2, <1>3
  <1> QED  BY <1>6, <1>7 DEF Glides, EnumLike

OneofPlace == {"oneof {", "variant", "variant @", "tag", "old variant"}
FirstState == {"oneof name", "no variants", "first @", "first tag"}
LaterState == {"variants", "variant @", "tag"}
OneofLike(p) ==
    /\ InItem(p) /\ p \in OfOneof /\ p \notin OfStruct /\ p \notin OfEnum
    /\ p \notin Typed /\ p \notin Titled
    /\ p \notin Kind \cup {"default", "variant name", "variant ;", "name", "named"}
LEMMA GlidesOneof ==
    /\ \A p \in OneofPlace, q \in OneofPlace, r \in FirstState, s \in FirstState \ {"oneof name"} :
          Glides(p, q, r, s)
    /\ \A p \in OneofPlace, q \in OneofPlace, r \in LaterState, s \in LaterState : Glides(p, q, r, s)
    /\ \A p \in OneofPlace, q \in OneofPlace, r \in FirstState \cup LaterState :
          Glides(p, q, r, "old variant")
  <1>1. \A p \in OneofPlace : /\ p \in OfOneof
                              /\ p \notin Kind \cup {"default", "variant name", "variant ;", "name", "named"}
    BY DEF OneofPlace, OfOneof, Kind
  <1>2. \A p \in OneofPlace : p \notin Titled  BY DEF OneofPlace, Titled, Typed
  <1>3. \A s \in FirstState : s \in Without /\ s \notin With /\ s # "top"
    BY DEF FirstState, Without, With
  <1>4. \A s \in LaterState : s \notin Without /\ s \in With /\ s # "top" /\ s \notin Special
    BY DEF LaterState, Without, With, Special
  <1>5. \A s \in FirstState \ {"oneof name"} : s \notin Special  BY DEF FirstState, Special
  <1>6. "old variant" \notin Without /\ "old variant" \notin With /\ "old variant" \notin Special
    BY DEF Without, With, Special
  <1>10. \A p \in OneofPlace : OneofLike(p)  BY <1>1, <1>2, PlacesOf DEF OneofLike
  <1>7. \A p \in OneofPlace, q \in OneofPlace, r \in FirstState, s \in FirstState \ {"oneof name"} :
          Glides(p, q, r, s)
    <2> TAKE p \in OneofPlace, q \in OneofPlace, r \in FirstState, s \in FirstState \ {"oneof name"}
    <2>1. OneofLike(p) /\ OneofLike(q)  BY <1>10
    <2>2. r # "top" /\ r \in Without /\ s \notin Special /\ s \notin With  BY <1>3, <1>5
    <2> QED  BY <2>1, <2>2 DEF Glides, OneofLike
  <1>8. \A p \in OneofPlace, q \in OneofPlace, r \in LaterState, s \in LaterState : Glides(p, q, r, s)
    <2> TAKE p \in OneofPlace, q \in OneofPlace, r \in LaterState, s \in LaterState
    <2>1. OneofLike(p) /\ OneofLike(q)  BY <1>10
    <2>2. r # "top" /\ r \in With /\ s \notin Special /\ s \notin Without  BY <1>4
    <2> QED  BY <2>1, <2>2 DEF Glides, OneofLike
  <1>9. \A p \in OneofPlace, q \in OneofPlace, r \in FirstState \cup LaterState :
          Glides(p, q, r, "old variant")
    <2> TAKE p \in OneofPlace, q \in OneofPlace, r \in FirstState \cup LaterState
    <2>1. OneofLike(p) /\ OneofLike(q)  BY <1>10
    <2>2. r # "top"  BY <1>3, <1>4
    <2> QED  BY <1>6, <2>1, <2>2 DEF Glides, OneofLike
  <1> QED  BY <1>7, <1>8, <1>9

\* A member put behind those of the definition.
LEMMA ItemAppended ==
    ASSUME Shape, NEW S, item.members \in Seq(S), NEW f, item' = [item EXCEPT !.members = Append(@, f)]
    PROVE  /\ item'.had = item.had /\ item'.kind = item.kind /\ item'.name = item.name
           /\ (\E T : item'.members \in Seq(T)) /\ item'.members # <<>>
           /\ Wrote(item'.members) = Append(Wrote(item.members), Written(f))
  <1>1. /\ item'.had = item.had /\ item'.kind = item.kind /\ item'.name = item.name
        /\ item'.members = Append(item.members, f)
    BY DEF Shape, ItemLike
  <1>2. (\E T : Append(item.members, f) \in Seq(T)) /\ Len(item.members) \in Nat
        /\ Len(Append(item.members, f)) = Len(item.members) + 1
    BY AppendIs
  <1>3. Append(item.members, f) # <<>>  BY <1>2
  <1>4. Wrote(Append(item.members, f)) = Append(Wrote(item.members), Written(f))  BY WroteAppend
  <1> QED  BY <1>1, <1>2, <1>3, <1>4

LEMMA ValueGood ==
    ASSUME Shape, Good, NEW p \in {"value", "old value"}, NEW t \in Word, Value(p, t)
    PROVE  Good'
  <1> DEFINE f == [NewField EXCEPT !.name = t, !.kind = "enum"]
  <1>1. Plain(t) /\ Take(p, t, "after value") /\ field' = field
        /\ item' = [item EXCEPT !.members = Append(@, f)]
    BY PlainWord DEF Value
  <1>2. at = p /\ gram' = Noticed(gram, t, seen)  BY <1>1, TakeGram
  <1>3. gram.state \in {"values", "old value"}
    <2>1. gram.state \in StateAt(p)  BY <1>2, InPlace
    <2>2. CASE p = "value"  BY <2>1, <2>2, StateAtIs
    <2>3. CASE p = "old value"  BY <2>1, <2>3, StateAtIs
    <2> QED  BY <2>2, <2>3
  <1>4. After(gram, t, seen) = "value"
    <2>1. After(gram, t, seen) = Goes(gram.state, t)  BY <1>3, AfterIs
    <2>2. Goes("values", t) = "value" /\ Goes("old value", t) = "value"  BY GoesEnum, Signs DEF Sign
    <2> QED  BY <1>3, <2>1, <2>2
  <1>5. /\ gram'.state = "value" /\ gram'.kind = gram.kind /\ gram'.name = gram.name /\ gram'.type = gram.type
        /\ gram'.members = Append(gram.members, [name |-> t, type |-> <<"", "">>, value |-> ""])
    BY <1>2, <1>3, <1>4, NoticedAs
  <1>6. /\ p \in OfEnum /\ "after value" \in OfEnum /\ p \notin Kind /\ "after value" \notin Kind
        /\ p \notin {"name", "named", "variant name", "variant ;"}
    BY DEF OfEnum, Kind
  <1>7. Content(p, item, field, gram, seen)  BY <1>2, <1>6, PlacesOf DEF Good
  <1>8. PICK S : item.members \in Seq(S)  BY <1>7 DEF Content, ItemIs
  <1>9. Written(f) = [name |-> t, type |-> <<"", "">>, value |-> ""]  BY DEF Written, NewField
  <1> HIDE DEF f
  <1>10. /\ item'.had = item.had /\ item'.kind = item.kind /\ item'.name = item.name
         /\ (\E T : item'.members \in Seq(T))
         /\ Wrote(item'.members) = Append(Wrote(item.members), Written(f))
    BY <1>1, <1>8, ItemAppended
  <1>11. ItemIs("after value", item', gram', seen)
    <2>1. "value" \notin Without /\ "value" \notin With  BY DEF With, Without
    <2> QED  BY <1>5, <1>6, <1>7, <1>10, <2>1, PlacesOf DEF Content, ItemIs
  <1>12. FieldIs("after value", field', gram', seen)
    <2>1. field = NewField  BY <1>6, <1>7, PlacesOf DEF Content, FieldIs
    <2> QED  BY <1>1, <1>6, <2>1, PlacesOf DEF FieldIs, NewField
  <1>13. MembersAre("after value", item', field', gram')
    <2>1. gram.members = Wrote(item.members)  BY <1>6, <1>7, PlacesOf DEF Content, MembersAre
    <2> QED  BY <1>5, <1>6, <1>9, <1>10, <2>1, PlacesOf DEF MembersAre
  <1>14. "value" \in StateAt("after value")  BY StateAtIs
  <1> QED  BY <1>1, <1>4, <1>11, <1>12, <1>13, <1>14, TakeGood DEF Content, Between

LEMMA EnumGood == ASSUME Shape, Good, Enum PROVE Good'
  <1> USE DEF EnumPlace, EnumState, GlidesAt, GlidesTo
  <1>1. \A t \in Separator : Plain(t) /\ t \notin Word /\ t # "@" /\ t # "="
    BY Signs DEF Plain, Sign, Separator
  <1>2. \A t \in Separator : GlidesAt("value", t, "value", "values", "values")
    BY <1>1, GlidesEnum, StateAtIs, GoesEnum
  <1>3. \A t \in Separator : GlidesAt("after value", t, "value", "value", "values")
    BY <1>1, GlidesEnum, StateAtIs, GoesEnum
  <1>4. GlidesAt("value", "@", "value @", "values", "value @")
    BY GlidesEnum, StateAtIs, GoesEnum DEF Plain
  <1>5. GlidesAt("value @", "deprecated", "old value", "value @", "old value")
    BY GlidesEnum, StateAtIs, GoesEnum DEF Plain
  <1> HIDE DEF GlidesAt
  <1> QED  BY <1>2, <1>3, <1>4, <1>5, GlideAt, ValueGood DEF Enum

\* A step between two states of the grammar at each of two places.
GlidesBoth(p, t, q, a, c, b, d) ==
    p # "top" /\ StateAt(p) = {a, b} /\ GlidesTo(p, t, q, a, c) /\ GlidesTo(p, t, q, b, d)
LEMMA GlideBoth ==
    ASSUME Shape, Good, NEW p, NEW t, NEW q, Take(p, t, q), UNCHANGED <<item, field>>,
           NEW a, NEW b, NEW c, NEW d, GlidesBoth(p, t, q, a, c, b, d)
    PROVE  Good'
  <1> USE DEF GlidesBoth
  <1>1. at = p  BY TakeIs
  <1>2. gram.state \in {a, b}  BY <1>1, InPlace
  <1>3. CASE gram.state = a  BY <1>3, GlideFrom
  <1>4. CASE gram.state = b  BY <1>4, GlideFrom
  <1> QED  BY <1>2, <1>3, <1>4

LEMMA VariantTypeGood ==
    ASSUME Shape, Good, NEW p \in {"variant", "old variant"}, NEW t \in Word, Take(p, t, "variant name"),
           field' = [field EXCEPT !.type = <<"", t>>], item' = item
    PROVE  Good'
  <1>1. Plain(t)  BY PlainWord
  <1>2. at = p /\ gram' = Noticed(gram, t, seen)  BY <1>1, TakeGram
  <1>3. gram.state \in {"no variants", "variants", "old variant"}  BY <1>2, InPlace, StateAtIs
  <1>4. After(gram, t, seen) = "variant type"
    <2>1. After(gram, t, seen) = Goes(gram.state, t)  BY <1>3, AfterIs
    <2>2. t \notin Separator \cup {"@", "}"}  BY Signs DEF Sign
    <2>3. /\ Goes("no variants", t) = "variant type" /\ Goes("variants", t) = "variant type"
          /\ Goes("old variant", t) = "variant type"
      BY <2>2, GoesOneof
    <2> QED  BY <1>3, <2>1, <2>3
  <1>5. /\ gram'.state = "variant type" /\ gram'.kind = gram.kind /\ gram'.name = gram.name
        /\ gram'.type = <<"", t>> /\ gram'.members = gram.members
    BY <1>2, <1>3, <1>4, NoticedAs DEF Kind
  <1>6. /\ p \in OfOneof /\ "variant name" \in OfOneof /\ p \notin Kind /\ "variant name" \notin Kind
        /\ p \notin {"name", "named", "variant name", "variant ;"} /\ p \notin Titled
        /\ "variant name" \notin Titled
    BY DEF OfOneof, Kind, Titled, Typed
  <1>7. Content(p, item, field, gram, seen)  BY <1>2, <1>6, PlacesOf DEF Good
  <1>8. ItemIs("variant name", item', gram', seen)
    <2>1. "variant type" \notin Without /\ "variant type" \notin With  BY DEF With, Without
    <2> QED  BY <1>5, <1>6, <1>7, <2>1, PlacesOf DEF Content, ItemIs
  <1>9. FieldIs("variant name", field', gram', seen)
    <2>1. field = NewField  BY <1>6, <1>7, PlacesOf DEF Content, FieldIs
    <2>2. field'.type = <<"", t>> /\ field'.value = ""  BY <2>1 DEF NewField
    <2> QED  BY <1>5, <1>6, <2>2, PlacesOf DEF FieldIs
  <1>10. MembersAre("variant name", item', field', gram')
    BY <1>5, <1>6, <1>7 DEF Content, MembersAre
  <1>11. "variant type" \in StateAt("variant name")  BY StateAtIs
  <1> QED  BY <1>1, <1>4, <1>8, <1>9, <1>10, <1>11, TakeGood DEF Content, Between

LEMMA VariantNameGood ==
    ASSUME Shape, Good, NEW t \in Word, Take("variant name", t, "variant ;"),
           field' = [field EXCEPT !.name = t], item' = item
    PROVE  Good'
  <1>1. Plain(t)  BY PlainWord
  <1>2. at = "variant name" /\ gram' = Noticed(gram, t, seen)  BY <1>1, TakeGram
  <1>3. gram.state = "variant type"  BY <1>2, InPlace, StateAtIs
  <1>4. After(gram, t, seen) = "variant"  BY <1>3, AfterIs, GoesOneof
  <1>5. /\ gram'.state = "variant" /\ gram'.kind = gram.kind /\ gram'.name = gram.name
        /\ gram'.type = gram.type
        /\ gram'.members = Append(gram.members, [name |-> t, type |-> gram.type, value |-> ""])
    BY <1>2, <1>3, <1>4, NoticedAs
  <1>6. /\ "variant name" \in OfOneof /\ "variant name" \notin Kind /\ "variant name" \notin Titled
        /\ "variant ;" \in OfOneof /\ "variant ;" \notin Kind /\ "variant ;" \in Titled
    BY DEF OfOneof, Kind, Titled, Typed
  <1>7. Content("variant name", item, field, gram, seen)  BY <1>2, <1>6, PlacesOf DEF Good
  <1>8. /\ field'.name = t /\ field'.type = field.type /\ field'.value = field.value
    BY DEF Shape, FieldLike
  <1>9. field.value = "" /\ gram.type = field.type  BY <1>7 DEF Content, FieldIs
  <1>10. ItemIs("variant ;", item', gram', seen)
    <2>1. "variant" \notin Without /\ "variant" \notin With  BY DEF With, Without
    <2> QED  BY <1>5, <1>6, <1>7, <2>1, PlacesOf DEF Content, ItemIs
  <1>11. FieldIs("variant ;", field', gram', seen)  BY <1>6, <1>8, <1>9, PlacesOf DEF FieldIs
  <1>12. MembersAre("variant ;", item', field', gram')
    <2>1. gram.members = Wrote(item.members)  BY <1>6, <1>7 DEF Content, MembersAre
    <2>2. Written(field') = [name |-> t, type |-> gram.type, value |-> ""]  BY <1>8, <1>9 DEF Written
    <2> QED  BY <1>5, <1>6, <2>1, <2>2 DEF MembersAre
  <1>13. "variant" \in StateAt("variant ;")  BY StateAtIs
  <1> QED  BY <1>1, <1>4, <1>10, <1>11, <1>12, <1>13, TakeGood DEF Content, Between

LEMMA VariantEndGood ==
    ASSUME Shape, Good, Take("variant ;", ";", "variant"), field' = NewField,
           item' = [item EXCEPT !.members = Append(@, [field EXCEPT !.kind = "struct"])]
    PROVE  Good'
  <1> DEFINE f == [field EXCEPT !.kind = "struct"]
  <1>1. Plain(";")  BY DEF Plain
  <1>2. at = "variant ;" /\ gram' = Noticed(gram, ";", seen)  BY <1>1, TakeGram
  <1>3. gram.state = "variant"  BY <1>2, InPlace, StateAtIs
  <1>4. After(gram, ";", seen) = "variants"
    <2>1. After(gram, ";", seen) = Goes("variant", ";")  BY <1>3, AfterIs
    <2> QED  BY <2>1, GoesOneof
  <1>5. /\ gram'.state = "variants" /\ gram'.kind = gram.kind /\ gram'.name = gram.name
        /\ gram'.members = gram.members
    BY <1>2, <1>3, <1>4, NoticedAs
  <1>6. /\ "variant ;" \in OfOneof /\ "variant ;" \notin Kind /\ "variant ;" \in Titled
        /\ "variant" \in OfOneof /\ "variant" \notin Kind /\ "variant" \notin Titled
    BY DEF OfOneof, Kind, Titled, Typed
  <1>7. Content("variant ;", item, field, gram, seen)  BY <1>2, <1>6, PlacesOf DEF Good
  <1>8. PICK S : item.members \in Seq(S)  BY <1>7 DEF Content, ItemIs
  <1>9. Written(f) = Written(field)  BY DEF Written, Shape, FieldLike
  <1> HIDE DEF f
  <1>10. item' = [item EXCEPT !.members = Append(@, f)]  BY DEF f
  <1>11. /\ item'.had = item.had /\ item'.kind = item.kind /\ item'.name = item.name
         /\ (\E T : item'.members \in Seq(T)) /\ item'.members # <<>>
         /\ Wrote(item'.members) = Append(Wrote(item.members), Written(f))
    BY <1>8, <1>10, ItemAppended
  <1>12. ItemIs("variant", item', gram', seen)
    <2>1. "variants" \notin Without  BY DEF Without
    <2> QED  BY <1>5, <1>6, <1>7, <1>11, <2>1, PlacesOf DEF Content, ItemIs
  <1>13. FieldIs("variant", field', gram', seen)  BY <1>6, PlacesOf DEF FieldIs, NewField
  <1>14. MembersAre("variant", item', field', gram')
    <2>1. gram.members = Append(Wrote(item.members), Written(field))
      BY <1>6, <1>7 DEF Content, MembersAre
    <2> QED  BY <1>5, <1>6, <1>9, <1>11, <2>1 DEF MembersAre
  <1>15. "variants" \in StateAt("variant")  BY StateAtIs
  <1> QED  BY <1>1, <1>4, <1>12, <1>13, <1>14, <1>15, TakeGood DEF Content, Between

LEMMA VariantGood == ASSUME Shape, Good, Variant PROVE Good'
  <1> USE DEF OneofPlace, FirstState, LaterState, GlidesTo, GlidesBoth
  <1>1. \A t \in Separator : Plain(t) /\ t \notin Word /\ t # "@" /\ t # "="
    BY Signs DEF Plain, Sign, Separator
  <1>2. \A t \in Separator : GlidesBoth("variant", t, "variant", "no variants", "no variants", "variants", "variants")
    BY <1>1, GlidesOneof, StateAtIs, GoesOneof
  <1>3. Plain("@") /\ "@" \notin Separator /\ "@" \notin Word  BY Signs DEF Plain, Sign, Separator
  <1>4. GlidesBoth("variant", "@", "variant @", "no variants", "first @", "variants", "variant @")
    BY <1>3, GlidesOneof, StateAtIs, GoesOneof
  <1>5. GlidesBoth("variant @", "tag", "tag", "first @", "first tag", "variant @", "tag")
    BY GlidesOneof, StateAtIs, GoesOneof DEF Plain
  <1>6. GlidesBoth("variant @", "deprecated", "old variant", "first @", "old variant", "variant @", "old variant")
    BY GlidesOneof, StateAtIs, GoesOneof DEF Plain
  <1>7. \A t \in String : GlidesBoth("tag", t, "variant", "first tag", "no variants", "tag", "variants")
    BY GlidesOneof, StateAtIs, GoesOneof, PlainWord
  <1> HIDE DEF GlidesTo, GlidesBoth
  <1>8. ASSUME NEW t \in Separator, Take("variant", t, "variant"), UNCHANGED <<item, field>>  PROVE Good'
    BY <1>2, <1>8, GlideBoth
  <1>9. ASSUME Take("variant", "@", "variant @"), UNCHANGED <<item, field>>  PROVE Good'
    BY <1>4, <1>9, GlideBoth
  <1>10. ASSUME Take("variant @", "tag", "tag"), UNCHANGED <<item, field>>  PROVE Good'
    BY <1>5, <1>10, GlideBoth
  <1>11. ASSUME Take("variant @", "deprecated", "old variant"), UNCHANGED <<item, field>>  PROVE Good'
    BY <1>6, <1>11, GlideBoth
  <1>12. ASSUME NEW t \in String, Take("tag", t, "variant"), UNCHANGED <<item, field>>  PROVE Good'
    BY <1>7, <1>12, GlideBoth
  <1> QED  BY <1>8, <1>9, <1>10, <1>11, <1>12, VariantTypeGood, VariantNameGood, VariantEndGood DEF Variant

LEMMA ItemNameGood == ASSUME Shape, Good, ItemName PROVE Good' \/ Ruined'
  <1>1. ASSUME NEW t \in Word, item' = [item EXCEPT !.name = t], field' = field,
               Take("enum", t, "enum {") \/ Take("oneof", t, "oneof {")
        PROVE  Good'
    <2>1. CASE Take("enum", t, "enum {")  BY <1>1, <2>1, ItemNamed DEF Kind
    <2>2. CASE Take("oneof", t, "oneof {")  BY <1>1, <2>2, ItemNamed DEF Kind
    <2> QED  BY <1>1, <2>1, <2>2
  <1>2. ASSUME NEW k \in {"enum", "oneof"}, NEW t, t \notin Word, Refuse(k, t)  PROVE Ruined'
    <2>1. at = k  BY <1>2, RefuseIs
    <2>2. gram.state = k
      <3>1. StateAt(k) = {k} /\ k # "top"  BY StateAtIs
      <3> QED  BY <2>1, <3>1, InPlace
    <2>3. After(gram, t, seen) = Goes(k, t)  BY <2>2, AfterIs
    <2>4. Goes("enum", t) = "bad" /\ Goes("oneof", t) = "bad"  BY <1>2, GoesEnum, GoesOneof
    <2>5. After(gram, t, seen) = "bad" /\ gram.state \notin Final  BY <2>2, <2>3, <2>4 DEF Final
    <2> QED  BY <1>2, <2>5, RefuseRuins
  <1>3. ASSUME UNCHANGED <<item, field>>, Take("enum {", "{", "value") \/ Take("oneof {", "{", "variant")
        PROVE  Good'
    <2>1. GlidesAt("enum {", "{", "value", "enum name", "values")
      BY GlidesEnum, StateAtIs, GoesEnum DEF GlidesAt, GlidesTo, EnumPlace, EnumState, Plain
    <2>2. GlidesAt("oneof {", "{", "variant", "oneof name", "no variants")
      BY GlidesOneof, StateAtIs, GoesOneof DEF GlidesAt, GlidesTo, OneofPlace, FirstState, Plain
    <2> QED  BY <1>3, <2>1, <2>2, GlideAt
  <1>4. ASSUME NEW p \in {"enum {", "oneof {"}, NEW t, t # "{", Refuse(p, t)  PROVE Ruined'
    <2>1. at = p  BY <1>4, RefuseIs
    <2>2. gram.state \in {"enum name", "oneof name"}
      <3>1. gram.state \in StateAt(at)  BY <2>1, InPlace
      <3>2. CASE p = "enum {"  BY <2>1, <3>1, <3>2, StateAtIs
      <3>3. CASE p = "oneof {"  BY <2>1, <3>1, <3>3, StateAtIs
      <3> QED  BY <3>2, <3>3
    <2>3. After(gram, t, seen) = Goes(gram.state, t)  BY <2>2, AfterIs
    <2>4. Goes("enum name", t) = "bad" /\ Goes("oneof name", t) = "bad"  BY <1>4, GoesEnum, GoesOneof
    <2>5. After(gram, t, seen) = "bad" /\ gram.state \notin Final  BY <2>2, <2>3, <2>4 DEF Final
    <2> QED  BY <1>4, <2>5, RefuseRuins
  <1> PICK k \in {"enum", "oneof"} :
        \/ \E t \in Word : Take(k, t, BodyOpen[k]) /\ item' = [item EXCEPT !.name = t] /\ field' = field
        \/ \E t \in Coming \ Word : Refuse(k, t)
        \/ Take(BodyOpen[k], "{", Body[k]) /\ UNCHANGED <<item, field>>
        \/ \E t \in Coming \ {"{"} : Refuse(BodyOpen[k], t)
    BY DEF ItemName
  <1>5. CASE k = "enum"
    <2>1. BodyOpen[k] = "enum {" /\ Body[k] = "value"  BY <1>5 DEF BodyOpen, Body
    <2> QED  BY <1>1, <1>2, <1>3, <1>4, <1>5, <2>1
  <1>6. CASE k = "oneof"
    <2>1. BodyOpen[k] = "oneof {" /\ Body[k] = "variant"  BY <1>6 DEF BodyOpen, Body
    <2> QED  BY <1>1, <1>2, <1>3, <1>4, <1>6, <2>1
  <1> QED  BY <1>5, <1>6

\* What the code refuses in a body, the grammar refuses.
LEMMA MemberRefused ==
    ASSUME Shape, Good, NEW p \in MemberPlace, at = p, NEW t, t \notin MemberToken(p)
    PROVE  After(gram, t, seen) = "bad" /\ gram.state \notin Final
  <1>1. gram.state \in StateAt(p)  BY InPlace DEF MemberPlace
  <1>2. CASE p = "value"
    <2>1. t \notin {",", ";", "}", "@"} \cup Word /\ gram.state = "values"
      BY <1>1, <1>2, StateAtIs DEF MemberToken
    <2>2. Goes("values", t) = "bad"  BY <2>1, GoesEnum DEF Separator
    <2> QED  BY <2>1, <2>2, AfterIs DEF Final
  <1>3. CASE p = "value @"
    <2>1. t # "deprecated" /\ gram.state = "value @"  BY <1>1, <1>3, StateAtIs DEF MemberToken
    <2>2. Goes("value @", t) = "bad"  BY <2>1, GoesEnum
    <2> QED  BY <2>1, <2>2, AfterIs DEF Final
  <1>4. CASE p = "old value"
    <2>1. t \notin Word /\ gram.state = "old value"  BY <1>1, <1>4, StateAtIs DEF MemberToken
    <2>2. Goes("old value", t) = "bad"  BY <2>1, GoesEnum
    <2> QED  BY <2>1, <2>2, AfterIs DEF Final
  <1>5. CASE p = "after value"
    <2>1. t \notin {",", ";", "}"} /\ gram.state = "value"  BY <1>1, <1>5, StateAtIs DEF MemberToken
    <2>2. Goes("value", t) = "bad"  BY <2>1, GoesEnum DEF Separator
    <2> QED  BY <2>1, <2>2, AfterIs DEF Final
  <1>6. CASE p = "variant"
    <2>1. t \notin {",", ";", "}", "@"} \cup Word /\ gram.state \in {"no variants", "variants"}
      BY <1>1, <1>6, StateAtIs DEF MemberToken
    <2>2. Goes("no variants", t) = "bad" /\ Goes("variants", t) = "bad"  BY <2>1, GoesOneof DEF Separator
    <2> QED  BY <2>1, <2>2, AfterIs DEF Final
  <1>7. CASE p = "old variant"
    <2>1. t \notin Word /\ gram.state = "old variant"  BY <1>1, <1>7, StateAtIs DEF MemberToken
    <2>2. Goes("old variant", t) = "bad"  BY <2>1, GoesOneof
    <2> QED  BY <2>1, <2>2, AfterIs DEF Final
  <1>8. CASE p = "variant name"
    <2>1. t \notin Word /\ gram.state = "variant type"  BY <1>1, <1>8, StateAtIs DEF MemberToken
    <2>2. Goes("variant type", t) = "bad"  BY <2>1, GoesOneof
    <2> QED  BY <2>1, <2>2, AfterIs DEF Final
  <1>9. CASE p = "variant ;"
    <2>1. t # ";" /\ gram.state = "variant"  BY <1>1, <1>9, StateAtIs DEF MemberToken
    <2>2. Goes("variant", t) = "bad"  BY <2>1, GoesOneof
    <2> QED  BY <2>1, <2>2, AfterIs DEF Final
  <1> QED  BY <1>2, <1>3, <1>4, <1>5, <1>6, <1>7, <1>8, <1>9 DEF MemberPlace

LEMMA MemberErrorRuins == ASSUME Shape, Skipping, Good, MemberError PROVE Ruined'
  <1>1. PICK p \in MemberPlace, t \in Coming, e \in Reported(errs) :
          t \notin MemberToken(p) /\ NextToken(p, t) /\ Watch(t) /\ ResyncMember(t, e)
    BY DEF MemberError
  <1>2. at = p /\ Moved(t)  BY <1>1, NextTokenMoves
  <1>3. After(gram, t, seen) = "bad" /\ gram.state \notin Final  BY <1>1, <1>2, MemberRefused
  <1>4. Broken'
    <2>1. CASE t = "}"
      <3>1. Closed(e, -1)  BY <1>1, <2>1 DEF ResyncMember
      <3>2. Return(-1)
        <4>1. CASE item.kind = "oneof" /\ item.members = <<>>  BY <3>1, <4>1 DEF Closed
        <4>2. CASE ~(item.kind = "oneof" /\ item.members = <<>>)
          <5>1. Register(e, -1)  BY <3>1, <4>2 DEF Closed
          <5> QED  BY <5>1 DEF Register
        <4> QED  BY <4>1, <4>2
      <3> QED  BY <3>2, ReturnBadly DEF Broken
    <2>2. CASE t # "}"
      <3>1. item.kind \in {"enum", "oneof"}  BY <1>2 DEF Skipping, MemberLike
      <3>2. at' = Body[item.kind] \/ at' = "skip member"  BY <1>1, <2>2 DEF ResyncMember
      <3>3. at' \in {"value", "variant", "skip member"}  BY <3>1, <3>2, Bodies
      <3>4. item' = [item EXCEPT !.had = 1]  BY <1>1, <2>2 DEF ResyncMember
      <3>5. item'.had = 1  BY <3>4 DEF Shape, ItemLike
      <3> QED  BY <3>3, <3>5 DEF Broken, InBody, MemberPlace
    <2> QED  BY <2>1, <2>2
  <1> QED  BY <1>1, <1>2, <1>3, <1>4, Ruins

LEMMA BadNoteRuins == ASSUME Shape, Good, BadNote PROVE Ruined'
  <1>1. PICK p \in {"variant @", "tag"}, t \in Coming :
          /\ t \notin (IF p = "tag" THEN String ELSE {"tag", "deprecated"})
          /\ NextToken(p, t) /\ Watch(t) /\ at' = "variant" /\ item' = [item EXCEPT !.had = 1]
    BY DEF BadNote
  <1>2. at = p /\ Moved(t)  BY <1>1, NextTokenMoves
  <1>3. gram.state \in StateAt(p)  BY <1>2, InPlace
  <1>4. After(gram, t, seen) = "bad" /\ gram.state \notin Final
    <2>1. CASE p = "tag"
      <3>1. t \notin String /\ gram.state \in {"first tag", "tag"}  BY <1>1, <1>3, <2>1, StateAtIs
      <3>2. Goes("first tag", t) = "bad" /\ Goes("tag", t) = "bad"  BY <3>1, GoesOneof
      <3> QED  BY <3>1, <3>2, AfterIs DEF Final
    <2>2. CASE p = "variant @"
      <3>1. t \notin {"tag", "deprecated"} /\ gram.state \in {"first @", "variant @"}
        BY <1>1, <1>3, <2>2, StateAtIs
      <3>2. Goes("first @", t) = "bad" /\ Goes("variant @", t) = "bad"  BY <3>1, GoesOneof
      <3> QED  BY <3>1, <3>2, AfterIs DEF Final
    <2> QED  BY <2>1, <2>2
  <1>5. Broken'
    <2>1. item'.had = 1  BY <1>1 DEF Shape, ItemLike
    <2> QED  BY <1>1, <2>1 DEF Broken, InBody, MemberPlace
  <1> QED  BY <1>1, <1>2, <1>4, <1>5, Ruins

LEMMA UnclosedRuins == ASSUME Shape, Good, Unclosed PROVE Ruined'
  <1>1. PICK p \in {"value", "variant"} : Refuse(p, "eof")  BY DEF Unclosed
  <1>2. at = p  BY <1>1, RefuseIs
  <1>3. gram.state \in {"values", "no variants", "variants"}
    <2>1. gram.state \in StateAt(p)  BY <1>2, InPlace
    <2>2. CASE p = "value"  BY <2>1, <2>2, StateAtIs
    <2>3. CASE p = "variant"  BY <2>1, <2>3, StateAtIs
    <2> QED  BY <2>2, <2>3
  <1>4. gram.state \notin Final  BY <1>3 DEF Final
  <1> QED  BY <1>1, <1>4, RefuseRuins

LEMMA MemberGood ==
    ASSUME Shape, Skipping, Good, IsMaps, Member
    PROVE  Good' \/ Ruined' \/ lost' # {}
  <1>1. ~SkipMember
    <2>1. SkipMember => at = "skip member"  BY NextTokenMoves DEF SkipMember
    <2> QED  BY <2>1, NoSkip
  <1> QED  BY <1>1, ItemNameGood, EnumGood, VariantGood, ItemEndGood, MemberErrorRuins, BadNoteRuins,
              UnclosedRuins DEF Member

LEMMA StructGood ==
    ASSUME Shape, Good, IsMaps, OneDefinition, Struct
    PROVE  Good' \/ Ruined' \/ lost' # {}
  <1>1. ~SkipField
    <2>1. SkipField => at = "skip field"  BY NextTokenMoves DEF SkipField
    <2> QED  BY <2>1, NoSkip
  <1> QED  BY <1>1, StructNameGood, FieldNoteGood, FieldTypeGood, FieldEndGood, StructEndGood,
              FieldNameGood, FieldErrorRuins DEF Struct

-----------------------------------------------------------------------------
(***************************************************************************)
(* Between definitions.                                                    *)
(***************************************************************************)
LEMMA TopState == ASSUME Shape, Good, at = "top", NEW t \in Coming, t # "eof" PROVE gram.state = "top"
  <1>1. ~AtEnd  BY ComingIs DEF AtEnd
  <1>2. StateAt("top") = {"top"}  BY StateAtIs
  <1> QED  BY <1>1, <1>2 DEF Good, InStep

LEMMA NotInItem == \A p \in Between : ~InItem(p)
  BY DEF Between, InItem, OfStruct, OfEnum, OfOneof, FieldPlace

LEMMA OpensGood == ASSUME Shape, Good, Opens("top") PROVE Good'
  <1>1. PICK t \in Kind \cup {"#"} :
          /\ Take("top", t, t) /\ item' = IF t = "#" THEN item ELSE [NoItem EXCEPT !.kind = t]
          /\ field' = field
    BY DEF Opens
  <1>2. Plain(t) /\ t # "eof"  BY DEF Plain, Kind
  <1>3. at = "top" /\ gram' = Noticed(gram, t, seen) /\ t \in Coming  BY <1>1, <1>2, TakeGram, TakeIs
  <1>4. gram.state = "top"  BY <1>2, <1>3, TopState
  <1>5. After(gram, t, seen) = t
    <2>1. After(gram, t, seen) = Goes("top", t)  BY <1>4, AfterIs
    <2>2. t \notin Separator  BY DEF Separator, Kind
    <2>3. Goes("top", t) = t  BY <2>2, GoesFile
    <2> QED  BY <2>1, <2>3
  <1>6. field = NewField  BY <1>3 DEF Good, Between
  <1>7. t \in StateAt(t)
    <2>1. t \in {"#", "struct", "enum", "oneof"}  BY DEF Kind
    <2>2. StateAt(t) = {t}  BY <2>1, StateAtIs
    <2> QED  BY <2>2
  <1>8. CASE t = "#"
    <2>1. ~InItem(t)  BY <1>8, NotInItem DEF Between
    <2> QED  BY <1>1, <1>2, <1>5, <1>6, <1>7, <2>1, TakeGood
  <1>9. CASE t \in Kind
    <2>1. t # "#"  BY <1>9 DEF Kind
    <2>2. item'.kind = t /\ item'.had = 0 /\ item'.members = <<>>  BY <1>1, <2>1 DEF NoItem
    <2>3. gram'.state = t /\ gram'.kind = t /\ gram'.members = <<>>
      <3>1. t \notin {"field", "variant", "value", "default"}  BY <1>9 DEF Kind
      <3> QED  BY <1>3, <1>4, <1>5, <1>9, <3>1, NoticedAs
    <2>4. /\ t \in OfStruct => t = "struct"
          /\ t \in OfEnum => t = "enum"
          /\ t \in OfOneof => t = "oneof"
      BY <1>9 DEF Kind, OfStruct, OfEnum, OfOneof, FieldPlace
    <2>5. t \notin Titled /\ t \notin Typed
          /\ t \notin {"name", "named", "variant name", "variant ;", "=", "default"}
          /\ t \notin With /\ t \notin Between
      BY <1>9 DEF Kind, Titled, Typed, With, Between
    <2>6. <<>> \in Seq({})  OBVIOUS
    <2>7. ItemIs(t, item', gram', seen)
      <3>1. DOMAIN <<>> = {} /\ Resolves(seen, Len(seen), item'.members)
        <4>1. DOMAIN <<>> = {}  OBVIOUS
        <4>2. DOMAIN item'.members = {}  BY <2>2, <4>1
        <4> QED  BY <4>1, <4>2 DEF Resolves
      <3>2. \E S : item'.members \in Seq(S)  BY <2>2, <2>6
      <3> QED  BY <1>9, <2>2, <2>3, <2>4, <2>5, <3>1, <3>2 DEF ItemIs
    <2>8. FieldIs(t, field', gram', seen)  BY <1>1, <1>6, <2>5 DEF FieldIs, NewField
    <2>9. MembersAre(t, item', field', gram')  BY <2>2, <2>3, <2>5, WroteEmpty DEF MembersAre
    <2> QED  BY <1>1, <1>2, <1>5, <1>7, <2>5, <2>7, <2>8, <2>9, TakeGood DEF Content
  <1> QED  BY <1>8, <1>9

LEMMA ItemGood == ASSUME Shape, Good, Item PROVE Good'
  <1>1. ASSUME NEW t \in Separator, Take("top", t, "top"), UNCHANGED <<item, field>>  PROVE Good'
    <2>1. Plain(t) /\ t # "eof"  BY DEF Plain, Separator
    <2>2. at = "top" /\ t \in Coming  BY <1>1, TakeIs
    <2>3. gram.state = "top"  BY <2>1, <2>2, TopState
    <2>4. After(gram, t, seen) = "top"
      <3>1. After(gram, t, seen) = Goes("top", t)  BY <2>3, AfterIs
      <3> QED  BY <3>1, GoesFile
    <2>5. field' = NewField  BY <1>1, <2>2 DEF Good, Between
    <2>6. ~InItem("top") /\ "top" \in StateAt("top")  BY NotInItem, StateAtIs DEF Between
    <2> QED  BY <1>1, <2>1, <2>4, <2>5, <2>6, TakeGood
  <1> QED  BY <1>1, OpensGood DEF Item

LEMMA UnexpectedRuins == ASSUME Shape, Good, Unexpected PROVE Ruined'
  <1>1. PICK t \in Coming \ (Kind \cup Separator \cup {"#", "eof"}) :
          NextToken("top", t) /\ Watch(t) /\ had' = 1
    BY DEF Unexpected
  <1>2. at = "top" /\ Moved(t)  BY <1>1, NextTokenMoves
  <1>3. gram.state = "top"  BY <1>1, <1>2, TopState
  <1>4. Goes("top", t) = "bad"  BY <1>1, GoesFile
  <1>5. After(gram, t, seen) = "bad"  BY <1>3, <1>4, AfterIs
  <1> QED  BY <1>1, <1>2, <1>5, Ruins DEF Broken

LEMMA IncludeGood == ASSUME Shape, Good, Include PROVE Good' \/ Ruined'
  <1>1. ASSUME Take("#", "include", "include"), UNCHANGED <<item, field>>  PROVE Good'
    <2>1. Plain("include")  BY DEF Plain
    <2>2. at = "#"  BY <1>1, TakeIs
    <2>3. gram.state = "#" /\ field = NewField  BY <2>2, InPlace, StateAtIs DEF Good, Between
    <2>4. After(gram, "include", seen) = "include"
      <3>1. After(gram, "include", seen) = Goes("#", "include")  BY <2>3, AfterIs
      <3> QED  BY <3>1, GoesFile
    <2>5. ~InItem("include") /\ "include" \in StateAt("include")  BY NotInItem, StateAtIs DEF Between
    <2> QED  BY <1>1, <2>1, <2>3, <2>4, <2>5, TakeGood
  <1>2. ASSUME NEW t, t # "include", Refuse("#", t)  PROVE Ruined'
    <2>1. at = "#"  BY <1>2, RefuseIs
    <2>2. gram.state = "#"  BY <2>1, InPlace, StateAtIs
    <2>3. Goes("#", t) = "bad"  BY <1>2, GoesFile
    <2>4. After(gram, t, seen) = "bad" /\ gram.state \notin Final  BY <2>2, <2>3, AfterIs DEF Final
    <2> QED  BY <1>2, <2>4, RefuseRuins
  <1>3. ASSUME NEW t, t \notin String, Refuse("include", t)  PROVE Ruined'
    <2>1. at = "include"  BY <1>3, RefuseIs
    <2>2. gram.state = "include"  BY <2>1, InPlace, StateAtIs
    <2>3. Goes("include", t) = "bad"  BY <1>3, GoesFile
    <2>4. After(gram, t, seen) = "bad" /\ gram.state \notin Final  BY <2>2, <2>3, AfterIs DEF Final
    <2> QED  BY <1>3, <2>4, RefuseRuins
  <1> QED  BY <1>1, <1>2, <1>3 DEF Include

LEMMA NotIncludedRuins == ASSUME Shape, NotIncluded PROVE Ruined'
  <1>1. Return(-1) /\ legal' = FALSE  BY DEF NotIncluded
  <1>2. had' = 1  BY <1>1, ReturnBadly
  <1> QED  BY <1>1, <1>2 DEF Ruined, Illegal, Failing, Broken

LEMMA EntersGood ==
    ASSUME Shape, Links, Good, NEW t, NEW c, Enters(t, c)
    PROVE  Good' \/ Doomed'
  <1>1. CASE ~Includable(PathOf(t))  BY <1>1, CircleMade
  <1>2. CASE Includable(PathOf(t))
    <2>1. at = "include" /\ t \in String  BY DEF Enters
    <2>2. gram.state = "include" /\ field = NewField  BY <2>1, InPlace, StateAtIs DEF Good, Between
    <2>3. After(gram, t, seen) = "top"
      <3>1. After(gram, t, seen) = Goes("include", t)  BY <2>2, AfterIs
      <3> QED  BY <2>1, <3>1, GoesFile
    <2>4. c.gram.state = "top"
      <3>1. GramLike(gram) /\ c.gram = Noticed(gram, t, seen)  BY DEF Shape, Enters
      <3> QED  BY <2>3, <3>1, StateIs
    <2>5. Len(callers) \in Nat  BY DEF Shape
    <2>6. \A i \in 1..Len(callers') :
            callers'[i].had = 0 /\ callers'[i].errs = 0 /\ callers'[i].gram.state = "top"
      <3> TAKE i \in 1..Len(callers')
      <3>1. CASE i = Len(callers) + 1  BY <2>4, <3>1 DEF Enters, Good, Quiet
      <3>2. CASE i # Len(callers) + 1
        <4>1. i \in 1..Len(callers)  BY <2>5, <3>2 DEF Enters
        <4> QED  BY <4>1 DEF Enters, Good, Quiet
      <3> QED  BY <3>1, <3>2
    <2>7. Quiet'  BY <1>2, <2>6 DEF Enters, Good, Quiet
    <2>8. Same'  BY DEF Enters, Good, Same
    <2>9. InStep'
      <3>1. at' = "top" /\ gram'.state = "top"  BY DEF Enters, Grammar
      <3> QED  BY <3>1, StateAtIs DEF InStep
    <2>10. at' = "top" /\ field' = NewField  BY <2>2 DEF Enters
    <2>11. ~InItem("top")  BY NotInItem DEF Between
    <2> QED  BY <2>7, <2>8, <2>9, <2>10, <2>11 DEF Good
  <1> QED  BY <1>1, <1>2

\* Nothing is on record in a state in step, and a file may end there.
LEMMA GoodEnds == ASSUME Shape, Good, EofIs PROVE ~Failed /\ gram.state \in Final /\ legal'
  <1>1. at = "top"  BY NoSkip DEF EofIs
  <1>2. StateAt("top") = {"top"}  BY StateAtIs
  <1>3. gram.state \in Final  BY <1>1, <1>2 DEF Good, InStep, Final
  <1>4. had = 0 /\ errs = 0 /\ legal  BY DEF Good, Quiet
  <1>5. ~Failed  BY <1>4 DEF Failed
  <1>6. legal'  BY <1>3, <1>4 DEF EofIs
  <1> QED  BY <1>3, <1>5, <1>6

LEMMA ReturnedGood == ASSUME Shape, Good, EofIs, Returned PROVE Good'
  <1> DEFINE n == Len(callers)
  <1>1. n \in Nat \ {0} /\ Len(callers') = n - 1 /\ \A i \in 1..(n - 1) : callers'[i] = callers[i]
    BY CallersPop
  <1>2. callers[n].had = 0 /\ callers[n].errs = 0 /\ callers[n].gram.state = "top"
    BY <1>1 DEF Good, Quiet
  <1>3. had' = 0 /\ errs' = 0 /\ gram'.state = "top" /\ legal' /\ at' = "top"
    BY <1>2, GoodEnds DEF Returned
  <1>4. \A i \in 1..Len(callers') :
          callers'[i].had = 0 /\ callers'[i].errs = 0 /\ callers'[i].gram.state = "top"
    BY <1>1 DEF Good, Quiet
  <1>5. Quiet'  BY <1>3, <1>4 DEF Quiet
  <1>6. Same'  BY DEF EofIs, Good, Same
  <1>7. InStep'  BY <1>3, StateAtIs DEF InStep
  <1>8. field' = NewField
    <2>1. at = "top"  BY NoSkip DEF EofIs
    <2> QED  BY <2>1 DEF EofIs, Good, Between
  <1>9. ~InItem("top")  BY NotInItem DEF Between
  <1> QED  BY <1>3, <1>5, <1>6, <1>7, <1>8, <1>9 DEF Good

-----------------------------------------------------------------------------
(***************************************************************************)
(* What the validation refuses does not make sense.                        *)
(***************************************************************************)
\* The members of the i-th definition, as the code has them.
MembersOf(i) == defs[seen[i].kind][seen[i].name]

LEMMA DefinitionIs ==
    ASSUME Shape, Same, NEW i \in 1..Len(seen)
    PROVE  /\ seen[i].kind \in Kind /\ seen[i].name \in DOMAIN defs[seen[i].kind]
           /\ DOMAIN seen[i].members = DOMAIN MembersOf(i)
           /\ \E n \in Nat : DOMAIN MembersOf(i) = 1..n
           /\ \A m \in DOMAIN MembersOf(i) :
                 /\ seen[i].members[m].name = MembersOf(i)[m].name
                 /\ seen[i].members[m].type = MembersOf(i)[m].type
                 /\ seen[i].members[m].value = MembersOf(i)[m].value
           /\ seen[i].kind = "struct" => Resolves(seen, i - 1, MembersOf(i))
  <1>1. seen[i].kind \in Kind /\ Known(seen, Len(seen), seen[i].kind, seen[i].name)
    BY DEF Same, Known
  <1>2. seen[i].name \in DOMAIN defs[seen[i].kind]  BY <1>1 DEF Same
  <1>3. PICK S : MembersOf(i) \in Seq(S)  BY DEF Same, MembersOf
  <1>4. seen[i].members = Wrote(MembersOf(i))  BY DEF Same, MembersOf
  <1>5. seen[i].kind = "struct" => Resolves(seen, i - 1, MembersOf(i))  BY DEF Same, MembersOf
  <1> DEFINE members == MembersOf(i)
  <1>6. members \in Seq(S) /\ seen[i].members = Wrote(members)  BY <1>3, <1>4
  <1> HIDE DEF members
  <1>7. DOMAIN members = 1..Len(members) /\ Len(members) \in Nat  BY <1>6
  <1>8. /\ DOMAIN Wrote(members) = DOMAIN members
        /\ \A m \in DOMAIN members : /\ Wrote(members)[m].name = members[m].name
                                     /\ Wrote(members)[m].type = members[m].type
                                     /\ Wrote(members)[m].value = members[m].value
    BY DEF Wrote, Written
  <1>9. members = MembersOf(i)  BY DEF members
  <1> QED  BY <1>1, <1>2, <1>5, <1>6, <1>7, <1>8, <1>9

LEMMA StructIs ==
    ASSUME Shape, Same, NEW name
    PROVE  IsStruct(seen, name) <=> name \in DOMAIN defs["struct"]
  <1>1. DOMAIN seen = 1..Len(seen)  BY DEF Shape
  <1>2. name \in DOMAIN defs["struct"] <=> Known(seen, Len(seen), "struct", name)  BY DEF Same, Kind
  <1> QED  BY <1>1, <1>2 DEF Known, IsStruct

\* An enum, found above a definition by its name.
LEMMA EnumIs ==
    ASSUME Shape, Same, NEW j \in 1..Len(seen), seen[j].kind = "enum", NEW value
    PROVE  (\E v \in DOMAIN seen[j].members : seen[j].members[v].name = value)
             <=> ~(\A v \in DOMAIN defs["enum"][seen[j].name] : defs["enum"][seen[j].name][v].name # value)
  <1> DEFINE members == MembersOf(j)
             written == seen[j].members
  <1>3. members = defs["enum"][seen[j].name]  BY DEF MembersOf
  <1>4. DOMAIN written = DOMAIN members /\ \A v \in DOMAIN members : written[v].name = members[v].name
    BY DefinitionIs
  <1> HIDE DEF members, written
  <1>5. (\E v \in DOMAIN written : written[v].name = value)
          <=> ~(\A v \in DOMAIN members : members[v].name # value)
    BY <1>4
  <1> QED  BY <1>3, <1>5 DEF written

\* A field of a struct, as the code has it (f) and as the grammar has it (w).
LEMMA FieldSound ==
    ASSUME Shape, Same, NEW i \in 1..Len(seen), NEW f, Apt(seen, i - 1, f),
           NEW w, w.type = f.type, w.value = f.value
    PROVE  BadField(f) <=> ~SoundField(seen, i, w)
  <1> DEFINE n == i - 1
             T == f.type[2]
             Old == {j \in 1..n : seen[j].kind = "enum" /\ seen[j].name = T}
  <1>1. Len(seen) \in Nat /\ n \in 0..Len(seen) /\ \A j \in 1..n : j \in 1..Len(seen)  BY DEF Shape
  <1>2. /\ f.kind = KindAt(seen, n, f.type) /\ (f.value # "" => f.kind \in Valued)
    BY DEF Apt
  <1>3. IsStruct(seen, T) <=> T \in DOMAIN defs["struct"]  BY StructIs
  <1>4. /\ Above(seen, i, {"enum"}, T) <=> Known(seen, n, "enum", T)
        /\ Above(seen, i, {"enum", "oneof"}, T) <=> Known(seen, n, "enum", T) \/ Known(seen, n, "oneof", T)
    BY DEF Above, Known
  <1>5. Known(seen, n, "enum", T) <=> Old # {}  BY DEF Known
  <1>6. SoundField(seen, i, w) <=>
          /\ \/ T \in Primitive \/ T \in DOMAIN defs["struct"] \/ Known(seen, n, "enum", T)
             \/ f.type[1] # "map" /\ Known(seen, n, "oneof", T)
          /\ \A j \in Old : T \notin Primitive /\ f.value # ""
               => \E v \in DOMAIN seen[j].members : seen[j].members[v].name = f.value
    <2>1. CASE f.type[1] = "map"  BY <1>3, <1>4, <2>1 DEF SoundField
    <2>2. CASE f.type[1] # "map"  BY <1>3, <1>4, <2>2 DEF SoundField
    <2> QED  BY <2>1, <2>2
  <1>7. BadField(f) <=>
          \/ f.kind \in {"struct", "map struct"} /\ T \notin DOMAIN defs["struct"]
          \/ f.kind = "oneof" /\ T \notin DOMAIN defs["oneof"]
          \/ /\ f.kind = "enum" /\ f.value # "" /\ T \in DOMAIN defs["enum"]
             /\ \A v \in DOMAIN defs["enum"][T] : defs["enum"][T][v].name # f.value
    BY DEF BadField
  <1>8. ASSUME NEW j \in Old
        PROVE  (\E v \in DOMAIN seen[j].members : seen[j].members[v].name = f.value)
                 <=> ~(\A v \in DOMAIN defs["enum"][T] : defs["enum"][T][v].name # f.value)
    <2>1. j \in 1..n /\ seen[j].kind = "enum" /\ seen[j].name = T  OBVIOUS
    <2> HIDE DEF n, T, Old
    <2>2. j \in 1..Len(seen)  BY <1>1, <2>1
    <2>3. (\E v \in DOMAIN seen[j].members : seen[j].members[v].name = f.value)
            <=> ~(\A v \in DOMAIN defs["enum"][seen[j].name] : defs["enum"][seen[j].name][v].name # f.value)
      BY <2>1, <2>2, EnumIs
    <2> QED  BY <2>1, <2>3
  <1>9. ASSUME NEW k \in Kind, Known(seen, n, k, T)  PROVE T \in DOMAIN defs[k]
    <2>1. Known(seen, Len(seen), k, T)  BY <1>1, <1>9 DEF Known
    <2> QED  BY <2>1 DEF Same
  <1>10. "enum" \in Kind /\ "oneof" \in Kind  BY DEF Kind
  <1> HIDE DEF n, T, Old
  <1>11. f.kind = IF f.type[1] = "map"
                    THEN IF T \in Primitive THEN "map value"
                         ELSE IF Known(seen, n, "enum", T) THEN "map enum" ELSE "map struct"
                    ELSE IF T \in Primitive THEN "value"
                         ELSE IF Known(seen, n, "enum", T) THEN "enum"
                         ELSE IF Known(seen, n, "oneof", T) THEN "oneof" ELSE "struct"
    BY <1>2 DEF KindAt, T
  <1>12. CASE T \in Primitive  BY <1>6, <1>7, <1>11, <1>12
  <1>13. CASE T \notin Primitive /\ Known(seen, n, "enum", T)
    <2>1. T \in DOMAIN defs["enum"] /\ f.kind \in {"enum", "map enum"}  BY <1>9, <1>10, <1>11, <1>13
    <2>2. CASE f.kind = "map enum"
      <3>1. f.value = ""  BY <1>2, <2>2 DEF Valued
      <3> QED  BY <1>6, <1>7, <1>13, <2>2, <3>1
    <2>3. CASE f.kind = "enum"  BY <1>5, <1>6, <1>7, <1>8, <1>13, <2>1, <2>3
    <2> QED  BY <2>1, <2>2, <2>3
  <1>14. CASE T \notin Primitive /\ ~Known(seen, n, "enum", T)
    <2>1. Old = {}  BY <1>5, <1>14
    <2>2. CASE f.kind = "oneof"
      <3>1. f.type[1] # "map" /\ Known(seen, n, "oneof", T)  BY <1>11, <1>14, <2>2
      <3>2. T \in DOMAIN defs["oneof"]  BY <1>9, <1>10, <3>1
      <3> QED  BY <1>6, <1>7, <2>1, <2>2, <3>1, <3>2
    <2>3. CASE f.kind # "oneof"
      <3>1. f.kind \in {"struct", "map struct"} /\ ~(f.type[1] # "map" /\ Known(seen, n, "oneof", T))
        BY <1>11, <1>14, <2>3
      <3> QED  BY <1>6, <1>7, <1>14, <2>1, <3>1
    <2> QED  BY <2>2, <2>3
  <1> QED  BY <1>12, <1>13, <1>14

\* Two members of one name.
LEMMA RepeatedIs ==
    ASSUME Shape, Same, NEW i \in 1..Len(seen)
    PROVE  Repeated(MembersOf(i)) <=>
             ~(\A m, n \in DOMAIN seen[i].members : m # n => seen[i].members[m].name # seen[i].members[n].name)
  <1> DEFINE members == MembersOf(i)
  <1>1. PICK l \in Nat : DOMAIN members = 1..l  BY DefinitionIs
  <1>2. /\ DOMAIN seen[i].members = DOMAIN members
        /\ \A m \in DOMAIN members : seen[i].members[m].name = members[m].name
    BY DefinitionIs
  <1> HIDE DEF members
  <1>3. \A m, n \in DOMAIN members : m # n <=> m < n \/ n < m  BY <1>1
  <1>4. Repeated(members) <=> \E m, n \in DOMAIN members : m # n /\ members[m].name = members[n].name
    BY <1>3 DEF Repeated
  <1> QED  BY <1>2, <1>4 DEF members

LEMMA InvalidIs == ASSUME Shape, Same PROVE Invalid <=> ~Sound(seen)
  <1>1. DOMAIN seen = 1..Len(seen)  BY DEF Shape
  <1>2. ASSUME NEW k \in Kind, NEW name \in DOMAIN defs[k]
        PROVE  \E i \in 1..Len(seen) : seen[i].kind = k /\ seen[i].name = name /\ MembersOf(i) = defs[k][name]
    <2>1. Known(seen, Len(seen), k, name)  BY DEF Same
    <2> QED  BY <2>1 DEF Known, MembersOf
  <1>3. Kind = {"struct", "enum", "oneof"}  BY DEF Kind
  <1> DEFINE Unique(i) == \A m, n \in DOMAIN seen[i].members :
                            m # n => seen[i].members[m].name # seen[i].members[n].name
             Fields(i) == seen[i].kind = "struct" =>
                            \A m \in DOMAIN seen[i].members : SoundField(seen, i, seen[i].members[m])
             Variants(i) == seen[i].kind = "oneof" =>
                              \A m \in DOMAIN seen[i].members : IsStruct(seen, seen[i].members[m].type[2])
  <1>4. Sound(seen) <=> \A i \in 1..Len(seen) : Unique(i) /\ Fields(i) /\ Variants(i)
    BY <1>1 DEF Sound
  <1>5. \A i \in 1..Len(seen) : Repeated(MembersOf(i)) <=> ~Unique(i)  BY RepeatedIs
  <1>6. ASSUME NEW i \in 1..Len(seen), seen[i].kind = "struct"
        PROVE  (\E m \in DOMAIN MembersOf(i) : BadField(MembersOf(i)[m])) <=> ~Fields(i)
    <2>1. ASSUME NEW m \in DOMAIN MembersOf(i)
          PROVE  BadField(MembersOf(i)[m]) <=> ~SoundField(seen, i, seen[i].members[m])
      <3>1. Apt(seen, i - 1, MembersOf(i)[m])  BY <1>6, DefinitionIs DEF Resolves
      <3>2. /\ seen[i].members[m].type = MembersOf(i)[m].type
            /\ seen[i].members[m].value = MembersOf(i)[m].value
        BY DefinitionIs
      <3> QED  BY <3>1, <3>2, FieldSound
    <2>2. DOMAIN seen[i].members = DOMAIN MembersOf(i)  BY DefinitionIs
    <2> QED  BY <1>6, <2>1, <2>2
  <1>7. ASSUME NEW i \in 1..Len(seen), seen[i].kind = "oneof"
        PROVE  (\E m \in DOMAIN MembersOf(i) : BadVariant(MembersOf(i)[m])) <=> ~Variants(i)
    <2>1. ASSUME NEW m \in DOMAIN MembersOf(i)
          PROVE  BadVariant(MembersOf(i)[m]) <=> ~IsStruct(seen, seen[i].members[m].type[2])
      <3>1. seen[i].members[m].type = MembersOf(i)[m].type  BY DefinitionIs
      <3> QED  BY <3>1, StructIs DEF BadVariant
    <2>2. DOMAIN seen[i].members = DOMAIN MembersOf(i)  BY DefinitionIs
    <2> QED  BY <1>7, <2>1, <2>2
  <1> HIDE DEF Unique, Fields, Variants
  <1>8. ASSUME NEW i \in 1..Len(seen)
        PROVE  seen[i].kind \in Kind /\ seen[i].name \in DOMAIN defs[seen[i].kind]
    BY DefinitionIs
  <1>9. ASSUME Invalid  PROVE ~Sound(seen)
    <2>1. CASE \E k \in Kind : \E n \in DOMAIN defs[k] : Repeated(defs[k][n])
      BY <1>2, <1>4, <1>5, <2>1
    <2>2. CASE \E n \in DOMAIN defs["struct"] : \E i \in DOMAIN defs["struct"][n] : BadField(defs["struct"][n][i])
      <3>1. PICK n \in DOMAIN defs["struct"] : \E m \in DOMAIN defs["struct"][n] : BadField(defs["struct"][n][m])
        BY <2>2
      <3>2. PICK i \in 1..Len(seen) : seen[i].kind = "struct" /\ MembersOf(i) = defs["struct"][n]
        BY <1>2, <1>3
      <3>3. ~Fields(i)  BY <1>6, <3>1, <3>2
      <3> QED  BY <1>4, <3>3
    <2>3. CASE \E n \in DOMAIN defs["oneof"] : \E i \in DOMAIN defs["oneof"][n] : BadVariant(defs["oneof"][n][i])
      <3>1. PICK n \in DOMAIN defs["oneof"] : \E m \in DOMAIN defs["oneof"][n] : BadVariant(defs["oneof"][n][m])
        BY <2>3
      <3>2. PICK i \in 1..Len(seen) : seen[i].kind = "oneof" /\ MembersOf(i) = defs["oneof"][n]
        BY <1>2, <1>3
      <3>3. ~Variants(i)  BY <1>7, <3>1, <3>2
      <3> QED  BY <1>4, <3>3
    <2> QED  BY <1>9, <2>1, <2>2, <2>3 DEF Invalid
  <1>10. ASSUME ~Sound(seen)  PROVE Invalid
    <2>1. PICK i \in 1..Len(seen) : ~Unique(i) \/ ~Fields(i) \/ ~Variants(i)  BY <1>4, <1>10
    <2>2. CASE ~Unique(i)
      <3>1. Repeated(MembersOf(i))  BY <1>5, <2>2
      <3> QED  BY <1>8, <3>1 DEF Invalid, MembersOf
    <2>3. CASE ~Fields(i)
      <3>1. seen[i].kind = "struct"  BY <2>3 DEF Fields
      <3>2. \E m \in DOMAIN MembersOf(i) : BadField(MembersOf(i)[m])  BY <1>6, <2>3, <3>1
      <3> QED  BY <1>8, <3>1, <3>2 DEF Invalid, MembersOf
    <2>4. CASE ~Variants(i)
      <3>1. seen[i].kind = "oneof"  BY <2>4 DEF Variants
      <3>2. \E m \in DOMAIN MembersOf(i) : BadVariant(MembersOf(i)[m])  BY <1>7, <2>4, <3>1
      <3> QED  BY <1>8, <3>1, <3>2 DEF Invalid, MembersOf
    <2> QED  BY <2>1, <2>2, <2>3, <2>4
  <1> QED  BY <1>9, <1>10

-----------------------------------------------------------------------------
(***************************************************************************)
(* Every step.                                                             *)
(***************************************************************************)
Rest == {"parsed", "done"}

\* Once the files are read, only the validation moves.
LEMMA AtRest == ASSUME at \in Rest, [Next]_vars PROVE Validate \/ vars' = vars
  <1>1. \A p, t : p \notin Rest => ~NextToken(p, t)  BY DEF NextToken
  <1>2. \A p, t, q : p \notin Rest => ~Take(p, t, q)  BY <1>1 DEF Take
  <1>3. \A p, t : p \notin Rest => ~Refuse(p, t)  BY <1>1 DEF Refuse
  <1>4. \A p \in FieldPlace \cup MemberPlace \cup {"top", "skip", "#", "include", "struct", "struct {",
                  "skip field", "skip member", "enum", "oneof", "enum {", "oneof {", "variant @", "tag"} :
            p \notin Rest
    BY DEF FieldPlace, MemberPlace, Rest
  <1> USE <1>1, <1>2, <1>3, <1>4
  <1>5. ~Item /\ ~Skip /\ ~Unexpected  BY DEF Item, Skip, Unexpected, Opens
  <1>6. ~EndOfFile /\ ~Included  BY DEF EndOfFile, Included, Rest
  <1>7. ~Include /\ ~NotIncluded  BY DEF Include, NotIncluded
  <1>8. ~Struct
    <2>1. ~StructName /\ ~FieldNote  BY DEF StructName, FieldNote, FieldPlace
    <2>2. ~FieldType /\ ~MapType  BY DEF FieldType, MapType, FieldPlace
    <2>3. ~FieldName /\ ~FieldEnd  BY DEF FieldName, FieldEnd, FieldPlace
    <2>4. ~StructEnd /\ ~FieldError /\ ~SkipField
      BY DEF FieldPlace, StructEnd, FieldError, SkipField
    <2> QED  BY <2>1, <2>2, <2>3, <2>4 DEF Struct
  <1>9. ~Member
    <2>1. ~ItemName
      <3>1. \A k \in {"enum", "oneof"} : BodyOpen[k] \notin Rest /\ k \notin Rest
        BY Bodies
      <3> QED  BY <3>1 DEF ItemName
    <2>2. ~Enum  BY DEF Enum, Value, MemberPlace
    <2>3. ~Variant  BY DEF Variant, MemberPlace
    <2>4. ~ItemEnd /\ ~MemberError /\ ~SkipMember
      BY DEF MemberPlace, ItemEnd, MemberError, SkipMember
    <2>5. ~BadNote /\ ~Unclosed  BY DEF BadNote, Unclosed, MemberPlace
    <2> QED  BY <2>1, <2>2, <2>3, <2>4, <2>5 DEF Member
  <1> QED  BY <1>5, <1>6, <1>7, <1>8, <1>9 DEF Next, Done

\* A state in step stays so, unless a token of the file or a lost definition ends it.
LEMMA GoodStep ==
    ASSUME Shape, Skipping, Links, IsMaps, OneDefinition, Good, [Next]_vars, vars' # vars, ~EndOfFile, at \notin Rest
    PROVE  Good' \/ Ruined' \/ Doomed' \/ lost' # {}
  <1>1. CASE Item  BY <1>1, ItemGood
  <1>2. CASE Unexpected  BY <1>2, UnexpectedRuins
  <1>3. ~Skip
    <2>1. at # "skip"  BY NoSkip
    <2> QED  BY <2>1 DEF Skip, Opens, Take, NextToken
  <1>4. CASE Include  BY <1>4, IncludeGood
  <1>5. CASE NotIncluded  BY <1>5, NotIncludedRuins
  <1>6. CASE Included
    <2>1. PICK t, c : Enters(t, c)  BY <1>6, IncludedIs
    <2> QED  BY <2>1, EntersGood
  <1>7. CASE Struct  BY <1>7, StructGood
  <1>8. CASE Member  BY <1>8, MemberGood
  <1>9. ~Validate /\ ~Done  BY DEF Validate, Done, Rest
  <1> QED  BY <1>1, <1>2, <1>3, <1>4, <1>5, <1>6, <1>7, <1>8, <1>9 DEF Next

\* Nor does a state leave the other two.
LEMMA BadStep ==
    ASSUME Shape, Skipping, [Next]_vars, Ruined \/ Doomed, vars' # vars, ~EndOfFile, at \notin Rest
    PROVE  Ruined' \/ Doomed'
  <1>1. CASE \E t : TokenStep(t)  BY <1>1, TokenRuined, TokenDoomed
  <1>2. CASE Included  BY <1>2, IncludedIs, EntersRuined, EntersDoomed
  <1>3. ~Validate  BY DEF Validate, Rest
  <1> QED  BY <1>1, <1>2, <1>3, StepIs

LEMMA OverGood == ASSUME Shape, Good, EofIs, Over PROVE result' = 0 /\ legal' /\ Same'
  <1>1. ~Failed /\ legal'  BY GoodEnds
  <1>2. Same'  BY DEF EofIs, Good, Same
  <1> QED  BY <1>1, <1>2 DEF Over

LEMMA OverRuined == ASSUME Shape, Ruined, EofIs, Over PROVE result' # 0 /\ ~legal'
  <1>1. Len(callers) = 0  BY DEF Over
  <1>2. Broken /\ ~InBody  BY <1>1, NotInBody DEF Ruined, Failing, EofIs
  <1>3. Failed  BY <1>2 DEF Broken, Failed
  <1>4. ~legal \/ gram.state \notin Final  BY <1>1 DEF Ruined, Illegal, Final
  <1>5. result' = -1  BY <1>3 DEF Over
  <1>6. ~legal'  BY <1>4 DEF EofIs
  <1>7. \A r : r = -1 => r # 0  OBVIOUS
  <1> QED  BY <1>5, <1>6, <1>7

-----------------------------------------------------------------------------
(***************************************************************************)
(* The inductive invariant.                                                *)
(***************************************************************************)
Reading == lost = {} /\ at \notin Rest => Good \/ Ruined \/ Doomed
Ended == lost = {} /\ at = "parsed" => IF result = 0 THEN legal /\ Same ELSE ~legal
Complete == lost = {} /\ at = "done" /\ result = 0 => Same
Judged == Reading /\ Ended /\ Complete /\ AcceptsExactly

LEMMA JudgedInit == Init => Judged
  <1> SUFFICES ASSUME Init  PROVE Judged
    OBVIOUS
  <1>1. at = "top" /\ gram = Grammar /\ seen = <<>> /\ callers = <<>> /\ Len(seen) = 0 /\ Len(callers) = 0
    BY DEF Init
  <1>2. Quiet  BY <1>1 DEF Init, Quiet
  <1>3. Same  BY <1>1 DEF Init, Same, Known
  <1>4. InStep  BY <1>1, StateAtIs DEF InStep, Grammar
  <1>5. ~InItem("top")  BY NotInItem DEF Between
  <1>6. Good  BY <1>1, <1>2, <1>3, <1>4, <1>5 DEF Good, Init
  <1> QED  BY <1>1, <1>6 DEF Judged, Reading, Ended, Complete, AcceptsExactly, Rest

LEMMA SameStutter == ASSUME UNCHANGED <<defs, seen>>, Same PROVE Same'
  BY DEF Same

LEMMA Stutter == ASSUME vars' = vars, Judged PROVE Judged'
  <1>1. UNCHANGED <<text, at, file, had, errs, callers, item, field, defs, lost, result>>
        /\ UNCHANGED <<gram, seen, legal>>
    BY DEF vars
  <1>2. Good => Good'
    <2>1. Good => Quiet' /\ Same' /\ InStep'
      BY <1>1, SameStutter DEF Good, Quiet, InStep, AtEnd, Here
    <2> QED  BY <1>1, <2>1 DEF Good
  <1>3. Ruined => Ruined'
    BY <1>1 DEF Ruined, Illegal, Failing, Broken, InBody, AtEnd, Here
  <1>4. Doomed => Doomed'
    <2>1. ASSUME NEW C, Around(C)  PROVE Around(C)'
      BY <1>1, <2>1 DEF Around, Amid
    <2> QED  BY <1>1, <2>1 DEF Doomed
  <1>5. Same => Same'  BY <1>1, SameStutter
  <1> QED  BY <1>1, <1>2, <1>3, <1>4, <1>5 DEF Judged, Reading, Ended, Complete, AcceptsExactly

LEMMA JudgedValidate == ASSUME Shape, Judged, Validate PROVE Judged'
  <1>1. at = "parsed" /\ at' = "done" /\ UNCHANGED <<defs, seen, legal>>
    BY DEF Validate, history
  <1>2. Same => Same'  BY <1>1, SameStutter
  <1>3. lost \subseteq lost'  BY DEF Validate
  <1>4. ASSUME lost' = {}
        PROVE  (result' = 0 <=> legal' /\ Sound(seen)') /\ (result' = 0 => Same')
    <2>1. lost = {} /\ IF result = 0 THEN legal /\ Same ELSE ~legal
      BY <1>1, <1>3, <1>4 DEF Judged, Ended
    <2>2. Sound(seen)' <=> Sound(seen)  BY <1>1
    <2>3. CASE result # 0
      <3>1. result' = result  BY <2>3 DEF Validate
      <3> QED  BY <1>1, <2>1, <2>3, <3>1
    <2>4. CASE result = 0
      <3>1. Invalid <=> ~Sound(seen)  BY <2>1, <2>4, InvalidIs
      <3>2. (~Invalid /\ result' = result) \/ (Invalid /\ result' = -1)
        BY <1>4, <2>4 DEF Validate
      <3> QED  BY <1>1, <1>2, <2>1, <2>2, <2>4, <3>1, <3>2
    <2> QED  BY <2>3, <2>4
  <1> QED  BY <1>1, <1>4 DEF Judged, Reading, Ended, Complete, AcceptsExactly, Rest

LEMMA JudgedStep ==
    Shape /\ Skipping /\ Links /\ IsMaps /\ OneDefinition /\ Judged /\ [Next]_vars => Judged'
  <1> SUFFICES ASSUME Shape, Skipping, Links, IsMaps, OneDefinition, Judged, [Next]_vars  PROVE Judged'
    OBVIOUS
  <1>1. CASE vars' = vars  BY <1>1, Stutter
  <1>2. CASE Validate  BY <1>2, JudgedValidate
  <1>3. CASE vars' # vars /\ ~Validate
    <2>1. at \notin Rest  BY <1>3, AtRest
    <2>2. lost \subseteq lost'
      <3>1. CASE EndOfFile  BY <3>1 DEF EndOfFile
      <3>2. CASE Included  BY <3>2 DEF Included
      <3>3. CASE \E t : TokenStep(t)  BY <3>3 DEF TokenStep, Counts
      <3> QED  BY <1>3, <3>1, <3>2, <3>3, StepIs
    <2>3. lost' = {} => Good \/ Ruined \/ Doomed  BY <2>1, <2>2 DEF Judged, Reading
    <2>4. CASE EndOfFile
      <3>1. EofIs  BY <2>4, EndOfFileIs
      <3>2. CASE Over
        <4>1. at' = "parsed"  BY <3>2 DEF Over
        <4>2. lost' = {} => IF result' = 0 THEN legal' /\ Same' ELSE ~legal'
          BY <2>3, <3>1, <3>2, OverGood, OverRuined, OverNotDoomed
        <4> QED  BY <4>1, <4>2 DEF Judged, Reading, Ended, Complete, AcceptsExactly, Rest
      <3>3. CASE Returned
        <4>1. at' = "top"  BY <3>3 DEF Returned
        <4>2. lost' = {} => Good' \/ Ruined' \/ Doomed'
          BY <2>3, <3>1, <3>3, ReturnedGood, ReturnedRuined, ReturnedDoomed
        <4> QED  BY <4>1, <4>2 DEF Judged, Reading, Ended, Complete, AcceptsExactly, Rest
      <3> QED  BY <3>1, <3>2, <3>3 DEF EofIs
    <2>5. CASE ~EndOfFile
      <3>1. lost' = {} => Good' \/ Ruined' \/ Doomed'  BY <1>3, <2>1, <2>3, <2>5, GoodStep, BadStep
      <3>2. at' \notin Rest
        <4>1. CASE \E t : TokenStep(t)  BY <4>1 DEF TokenStep, Ways, Rest
        <4>2. CASE Included  BY <4>2 DEF Included, Rest
        <4> QED  BY <1>3, <2>5, <4>1, <4>2, StepIs
      <3> QED  BY <3>1, <3>2 DEF Judged, Reading, Ended, Complete, AcceptsExactly, Rest
    <2> QED  BY <2>4, <2>5
  <1> QED  BY <1>1, <1>2, <1>3

LEMMA ReadIs == ASSUME Shape, Judged PROVE ReadsWhatIsWritten
  <1> SUFFICES ASSUME at = "done", lost = {}, result = 0  PROVE ReadsWhatIsWritten
    BY DEF ReadsWhatIsWritten
  <1>1. Same  BY DEF Judged, Complete
  <1>2. DOMAIN seen = 1..Len(seen)  BY DEF Shape
  <1>3. ASSUME NEW k \in Kind
        PROVE  DOMAIN defs[k] = {seen[i].name : i \in {j \in DOMAIN seen : seen[j].kind = k}}
    <2>1. \A name : name \in DOMAIN defs[k] <=> \E j \in 1..Len(seen) : seen[j].kind = k /\ seen[j].name = name
      BY <1>1 DEF Same, Known
    <2> QED  BY <1>2, <2>1
  <1>4. \A i \in DOMAIN seen : [m \in DOMAIN MembersOf(i) |-> Written(MembersOf(i)[m])] = seen[i].members
    BY <1>1, <1>2 DEF Same, Wrote, MembersOf
  <1> QED  BY <1>3, <1>4 DEF ReadsWhatIsWritten, MembersOf

LEMMA Acceptance == Spec => [](Judged /\ Shape)
  BY MapsInit, MapsStep, ShapeInit, ShapeStep, LinksInit, LinksStep, JudgedInit, JudgedStep, PTL DEF Spec

\* The parser and the validation accept exactly the schemas that follow the
\* grammar and make sense (struct_parser_parse, struct_parser_validate_to), for
\* every document and through every include, recovery and lost diagnostic.
THEOREM Accepting == Spec => []AcceptsExactly
  <1>1. Judged => AcceptsExactly  BY DEF Judged
  <1> QED  BY <1>1, Acceptance, PTL

\* The maps of an accepted schema hold every definition of every file, with its
\* members as they were written and in their order (struct_field_reverse,
\* register_top_level_item).
THEOREM ReadingWhatIsWritten == Spec => []ReadsWhatIsWritten
  <1>1. Judged /\ Shape => ReadsWhatIsWritten  BY ReadIs
  <1> QED  BY <1>1, Acceptance, PTL
=============================================================================
