---- MODULE SchemaEvolution ----
(***************************************************************************)
(* A schema is changed, --check-compat compares the two versions, and a    *)
(* message packed by code generated from one of them is unpacked by code   *)
(* generated from the other; it may be cut short on the way.               *)
(***************************************************************************)
EXTENDS BinaryMessage, CompatCheck

CONSTANTS Versions,     \* pairs [old, new] of schemas
          ObjectsOf(_), \* objects of the root struct of a schema
          Cuts,         \* lengths a message may be cut to
          Beyond        \* bytes that may follow a message in memory

ASSUME CutsAreLengths == Cuts \subseteq Nat /\ Beyond \subseteq 0..255

Root == "root"

VARIABLES format, versions, back, \* back: the new code writes and the old one reads
          summary,  \* what the checker printed
          sent,     \* the object packed
          buf,      \* the message
          k,        \* fields packed
          got,      \* the object unpacked into
          pos,      \* the reader's cursor
          left,     \* entries still to read
          phase     \* "check", "pack", "read", "done", "failed" or "undefined"
vars == <<format, versions, back, summary, sent, buf, k, got, pos, left, phase>>

Writer == IF back THEN versions.new ELSE versions.old
Reader == IF back THEN versions.old ELSE versions.new
Packing == Fields(Writer, Root)
----
Init ==
    /\ format \in Formats /\ back \in BOOLEAN /\ versions \in Versions
    /\ summary = "none" /\ phase = "check"
    /\ sent \in ObjectsOf(Writer)
    /\ \E b \in Beyond : buf = [bytes |-> <<>>, len |-> 0, beyond |-> b]
    /\ k = 0 /\ pos = 0 /\ left = 0
    /\ got = Fresh(Reader, Root, "init")

Check ==
    /\ phase = "check" /\ phase' = "pack"
    /\ summary' = Summary(versions.old, versions.new)
    /\ UNCHANGED <<format, versions, back, sent, buf, k, got, pos, left>>

Appended(bytes) == buf' = [buf EXCEPT !.bytes = @ \o bytes, !.len = @ + Len(bytes)]

PackHead ==
    /\ phase = "pack" /\ k = 0 /\ buf.len = 0
    /\ Appended(Pack(format, "map", Counted(Packing, sent)))
    /\ UNCHANGED <<format, versions, back, summary, sent, k, got, pos, left, phase>>

PackNext ==
    /\ phase = "pack" /\ buf.len > 0 /\ k < Len(Packing)
    /\ LET f == Packing[k + 1] IN Appended(PackField(format, Writer, f, sent[f.name]))
    /\ k' = k + 1
    /\ UNCHANGED <<format, versions, back, summary, sent, got, pos, left, phase>>

(* The message arrives, whole or not, and the reader takes its head. *)
Arrive(n) ==
    /\ phase = "pack" /\ buf.len > 0 /\ k = Len(Packing)
    /\ n <= buf.len
    /\ buf' = [buf EXCEPT !.len = n]
    /\ \E h \in {Read(format, "map", buf', 0)} :
           /\ phase' = IF h.ok THEN "read" ELSE "failed"
           /\ pos' = h.pos
           /\ left' = IF h.ok THEN h.val ELSE 0
    /\ UNCHANGED <<format, versions, back, summary, sent, k, got>>

UnpackEntry ==
    /\ phase = "read" /\ left > 0
    /\ \E r \in {ReadEntry(format, Reader, Root, buf, pos, got)} :
           /\ got' = r.val /\ pos' = r.pos
           /\ phase' = IF r.ok THEN "read" ELSE IF r.pos = Wild THEN "undefined" ELSE "failed"
    /\ left' = left - 1
    /\ UNCHANGED <<format, versions, back, summary, sent, buf, k>>

Finish ==
    /\ phase = "read" /\ left = 0 /\ phase' = "done"
    /\ UNCHANGED <<format, versions, back, summary, sent, buf, k, got, pos, left>>

Next == Check \/ PackHead \/ PackNext \/ (\E n \in Cuts \cup {buf.len} : Arrive(n)) \/ UnpackEntry \/ Finish
Spec == Init /\ [][Next]_vars
----
Ended == phase \in {"done", "failed"}
Arrived == buf.len = Len(buf.bytes)

(* What the reader should have made of a value that its schema and the     *)
(* writer's both have.                                                     *)
(* A field only the reader's schema has is as the reader left it, how says *)
(* which: T_init's default in the root, the structs in it and the variants *)
(* of oneofs, zeros in an array's elements, and whatever malloc gave in the*)
(* entries of a map.                                                       *)
RECURSIVE SameStruct(_, _, _, _), SameValue(_, _, _, _)
EnumMeaning(sch, type, w) == IF EnumName(sch.enums[type], w) = <<>> THEN w ELSE EnumName(sch.enums[type], w)
SameScalar(kind, type, v, u, how) ==
    CASE kind = "enum" -> EnumMeaning(Writer, type, v) = EnumMeaning(Reader, type, u)
      [] kind = "struct" -> SameStruct(type, v, u, how)
      [] kind = "oneof" -> LET o == Writer.oneofs[type].variants[v.tag + 1]
                               q == Reader.oneofs[type].variants[u.tag + 1]
                           IN  o.name = q.name /\ SameStruct(o.type, v.obj, u.obj, "init")
      [] OTHER -> v = u
InElements(f, how) == IF f.shape = "fixed" /\ how = "none" THEN how ELSE "zero"
SameValue(f, v, u, how) ==
    IF f.kind = "map"
    THEN /\ Len(v) = Len(u)
         /\ \A i \in DOMAIN v : v[i].key = u[i].key /\ SameScalar(f.value, f.type, v[i].val, u[i].val, "none")
    ELSE IF f.shape # "one"
    THEN Len(v) = Len(u) /\ \A i \in DOMAIN v : SameScalar(f.kind, f.type, v[i], u[i], InElements(f, how))
    ELSE SameScalar(f.kind, f.type, v, u, how)
SameMember(f, g, m, u, how) ==
    IF f.optional /\ ~m.has THEN how # "none" => ~u.has
    ELSE IF f.nullable /\ ~m.has THEN ~u.has
    ELSE SameValue(f, m.val, u.val, how) /\ (g.optional \/ g.nullable => u.has)
SameStruct(name, obj, seen, how) ==
    LET both == Names(Fields(Writer, name)) \cap Names(Fields(Reader, name))
    IN  /\ \A n \in both : SameMember(The(Fields(Writer, name), n), The(Fields(Reader, name), n), obj[n], seen[n], how)
        /\ \A n \in DOMAIN seen \ both : seen[n] = Fresh(Reader, name, how)[n]
Same == SameStruct(Root, sent, got, "init")

(* What the checker does not look at: keys, the types' names, the values of*)
(* a map, whether null may come, and what is behind a oneof's names.       *)
SameField(f, g) ==
    /\ f.key = g.key /\ f.type = g.type /\ f.value = g.value
    /\ f.nullable => g.nullable
SameOneof(o, q) ==
    /\ o.tag = q.tag
    /\ \A n \in Names(o.variants) \cap Names(q.variants) : The(o.variants, n).type = The(q.variants, n).type
Unmoved ==
    /\ \A s \in Kept(Writer.structs, Reader.structs) :
          \A n \in Names(Fields(Writer, s)) \cap Names(Fields(Reader, s)) :
              SameField(The(Fields(Writer, s), n), The(Fields(Reader, s), n))
    /\ \A o \in Kept(Writer.oneofs, Reader.oneofs) : SameOneof(Writer.oneofs[o], Reader.oneofs[o])

(* The reader knows every name of an enum's value and of a variant. *)
KnowsNames ==
    /\ \A e \in DOMAIN Writer.enums : EnumValues(Writer.enums[e]) \subseteq EnumValues(Reader.enums[e])
    /\ \A o \in DOMAIN Writer.oneofs : Variants(Writer.oneofs[o]) \subseteq Variants(Reader.oneofs[o])

(* An array of maps is written as an array with none of its elements, and  *)
(* a number outside an enum may name one of the reader's new values.       *)
HasMaps == \E i \in DOMAIN Packing : Packing[i].kind = "map" /\ Packing[i].shape # "one"
                                       /\ sent[Packing[i].name].val # <<>>

(* What the code does is undefined where a string is read into the struct  *)
(* value of a map's entry, whose pointer was never set.                    *)
RECURSIVE HoldsString(_)
HoldsString(name) ==
    \E i \in DOMAIN Fields(Reader, name) :
        LET f == Fields(Reader, name)[i]
        IN  (f.kind = "str" /\ f.shape = "one") \/ (f.kind = "struct" /\ f.shape # "array" /\ HoldsString(f.type))
StringsInMap ==
    \E i \in DOMAIN Fields(Reader, Root) :
        LET f == Fields(Reader, Root)[i]
        IN  f.kind = "map" /\ f.value = "struct" /\ HoldsString(f.type)

(* When the checker finds nothing breaking and the two versions agree in   *)
(* what it does not look at, the reader takes the whole message, every     *)
(* field both versions have arrives with its meaning and every other, of   *)
(* the root and of each struct in it, is as the place it is in was left    *)
(* (Same), whichever version is the writer's; and only where a map's       *)
(* structs hold strings may the reader do something undefined instead.     *)
SafeReads ==
    Arrived /\ summary # "breaking" /\ Unmoved /\ KnowsNames /\ ~HasMaps
        => /\ Ended => phase = "done" /\ pos = buf.len /\ Same
           /\ phase = "undefined" => StringsInMap

(* A cut message is taken for whole only when all that is missing is a     *)
(* value the reader does not know and the writer wrote last (or after      *)
(* something undefined).                                                   *)
LastKnown == LET present == {i \in DOMAIN Packing : ~(Packing[i].optional /\ ~sent[Packing[i].name].has)}
             IN  \E i \in present : /\ \A j \in present : j <= i
                                    /\ \E g \in DOMAIN Fields(Reader, Root) :
                                          Fields(Reader, Root)[g].key = Packing[i].key
CutRejected == ~Arrived /\ LastKnown /\ ~HasMaps => phase # "done"

(* Unpacking leaves memory uninitialised only in a map: its entries after  *)
(* one that failed, or the structs that are its values.                    *)
RECURSIVE AllSet(_, _)
AllSet(name, obj) ==
    \A i \in DOMAIN Fields(Reader, name) :
        LET f == Fields(Reader, name)[i]
            v == obj[f.name].val
        IN  /\ obj[f.name].set
            /\ f.kind = "struct" /\ f.shape = "one" => AllSet(f.type, v)
            /\ f.kind = "struct" /\ f.shape # "one" => \A j \in DOMAIN v : AllSet(f.type, v[j])
            /\ f.kind = "map" /\ f.shape = "one" /\ phase = "done" => \A j \in DOMAIN v : v[j].set
Initialised == Ended => AllSet(Root, got)

(* doc/schema-evolution.md: what the checker finds safe can be read. *)
SafeAlone ==
    ~back /\ Ended /\ Arrived /\ summary # "breaking" /\ ~HasMaps => phase = "done" /\ Same
====
