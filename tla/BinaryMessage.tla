---- MODULE BinaryMessage ----
(***************************************************************************)
(* The functions gencode_msgpack.c, and gencode_cbor.c after it, generate  *)
(* for a schema sch = [structs, enums, oneofs]:                            *)
(*   structs  name |-> sequence of fields [name, key, kind, type, shape,   *)
(*            size, optional, nullable, default, value], where shape is    *)
(*            "one", "array" or "fixed" and value the kind of a map's      *)
(*            values;                                                      *)
(*   enums    name |-> sequence of its values' names;                      *)
(*   oneofs   name |-> [tag, variants], variants being [name, type].       *)
(* An object is a function of its fields' names to [has, val, set], set    *)
(* being false in memory that was never initialised.  A number is a word,  *)
(* a string its bytes, an array a sequence, a map a sequence of            *)
(* [key, val, set], a oneof [tag, obj].                                    *)
(***************************************************************************)
EXTENDS BinaryFormats, SequencesExt

Fields(sch, name) == sch.structs[name]
Set(v) == [has |-> FALSE, val |-> v, set |-> TRUE]
ZeroOf(kind) == CASE kind \in {"int32", "int64", "uint32", "uint64", "enum"} -> WordOf(0)
                  [] kind = "bool" -> FALSE
                  [] kind = "double" -> <<"float", ZeroExt(<<>>)>>
                  [] OTHER -> <<>>

(* How a T_init leaves an object (ini), what memset leaves, and what malloc*)
(* leaves.                                                                 *)
RECURSIVE Fresh(_, _, _), FreshValue(_, _, _)
FreshValue(sch, f, how) ==
    IF f.shape = "array" \/ (f.shape = "one" /\ f.kind = "map") THEN <<>>
    ELSE IF f.shape = "fixed"
         THEN [i \in 1..f.size |-> FreshValue(sch, [f EXCEPT !.shape = "one"], IF how = "none" THEN how ELSE "zero")]
    ELSE CASE f.kind = "struct" -> Fresh(sch, f.type, how)
           [] f.kind = "oneof" -> [tag |-> 0, obj |-> Fresh(sch, sch.oneofs[f.type].variants[1].type, "zero")]
           [] OTHER -> IF how = "init" /\ f.default # <<>> THEN f.default ELSE ZeroOf(f.kind)
Fresh(sch, name, how) ==
    LET fs == Fields(sch, name)
        of(n) == fs[CHOOSE i \in DOMAIN fs : fs[i].name = n]
    IN  [n \in {fs[i].name : i \in DOMAIN fs} |->
            [has |-> FALSE, val |-> FreshValue(sch, of(n), how), set |-> how # "none"]]
----
(* An enum in range is packed as its name, else as its number.             *)
EnumName(names, w) == IF ZeroExt(<<w[8]>>) = w /\ w[8] < Len(names) THEN names[w[8] + 1] ELSE <<>>
PackEnum(fmt, names, w) ==
    IF EnumName(names, w) # <<>> THEN PackedStr(fmt, EnumName(names, w)) ELSE Pack(fmt, "int", w)

RECURSIVE PackStruct(_, _, _, _), PackValue(_, _, _, _)

(* The tag goes in front of the variant's own entries, whose head is read  *)
(* back for their number.                                                  *)
Tagged(fmt, o, one, body, head) ==
    Pack(fmt, "map", 1 + head.val) \o PackedStr(fmt, o.tag) \o PackedStr(fmt, one.name)
        \o SubSeq(body, head.pos + 1, Len(body))
PackVariant(fmt, o, one, body) ==
    Tagged(fmt, o, one, body, Read(fmt, "map", [bytes |-> body, len |-> Len(body), beyond |-> 0], 0))
PackOneof(fmt, sch, type, v) ==
    LET o == sch.oneofs[type]
        one == o.variants[v.tag + 1]
    IN  IF v.tag < Len(o.variants) THEN PackVariant(fmt, o, one, PackStruct(fmt, sch, one.type, v.obj))
        ELSE Pack(fmt, "map", 1) \o PackedStr(fmt, o.tag) \o Pack(fmt, "int", WordOf(v.tag))

PackScalar(fmt, sch, kind, type, v) ==
    CASE kind \in {"int32", "int64"} -> Pack(fmt, "int", v)
      [] kind \in {"uint32", "uint64"} -> Pack(fmt, "uint", v)
      [] kind = "double" -> Pack(fmt, "double", v[2])
      [] kind = "bool" -> Pack(fmt, "bool", v)
      [] kind = "str" -> PackedStr(fmt, v)
      [] kind = "enum" -> PackEnum(fmt, sch.enums[type], v)
      [] kind = "struct" -> PackStruct(fmt, sch, type, v)
      [] kind = "oneof" -> PackOneof(fmt, sch, type, v)
      [] kind = "map" -> <<>>

(* The elements of an array of maps are not packed at all.                 *)
PackValue(fmt, sch, f, v) ==
    IF f.shape # "one"
    THEN Pack(fmt, "array", Len(v))
           \o FlattenSeq([i \in DOMAIN v |-> PackScalar(fmt, sch, f.kind, f.type, v[i])])
    ELSE IF f.kind = "map"
    THEN Pack(fmt, "map", Len(v))
           \o FlattenSeq([i \in DOMAIN v |-> PackedStr(fmt, v[i].key)
                              \o PackScalar(fmt, sch, f.value, f.type, v[i].val)])
    ELSE PackScalar(fmt, sch, f.kind, f.type, v)

(* Mutant: the head counts the absent fields too. *)
CountedAll(fs, obj) == Len(fs)
Counted(fs, obj) == Cardinality({i \in DOMAIN fs : ~fs[i].optional \/ obj[fs[i].name].has})
PackField(fmt, sch, f, v) ==
    IF f.optional /\ ~v.has THEN <<>>
    ELSE PackedStr(fmt, f.key)
           \o IF f.nullable /\ ~v.has THEN Pack(fmt, "nil", <<>>) ELSE PackValue(fmt, sch, f, v.val)
PackStruct(fmt, sch, name, obj) ==
    LET fs == Fields(sch, name)
    IN  Pack(fmt, "map", Counted(fs, obj))
          \o FlattenSeq([i \in DOMAIN fs |-> PackField(fmt, sch, fs[i], obj[fs[i].name])])
----
(* A read that fails has still filled in part of v.  Wild is the position  *)
(* of a reader that has written through a pointer nobody had set.          *)
Broken(v, p) == [ok |-> FALSE, pos |-> p, val |-> v]
Wild == -1
SeesNil(fmt, d, p) == p < d.len /\ IsNil(fmt, Byte(d, p))

(* The byte is looked at before it is known to be there. *)
SeesInteger(fmt, d, p) ==
    IF fmt = "msgpack" THEN Byte(d, p) \in (0..127) \cup (224..255) \cup (204..211)
    ELSE Byte(d, p) \div 32 \in {0, 1}
IndexOf(names, s) == {i \in DOMAIN names : names[i] = s}
Indexed(r, old) == IF r.ok THEN Got(SignExt(Low(r.val, 4)), r.pos) ELSE Broken(old, r.pos)
(* Mutant: a name that is unknown or cannot be read stands for the first value. *)
NamedLoosely(names, s, old) ==
    Got(WordOf(IF IndexOf(names, s.val) = {} THEN 0 ELSE Least(IndexOf(names, s.val)) - 1), s.pos)
NamedValue(names, s, old) ==
    IF ~s.ok \/ IndexOf(names, s.val) = {} THEN Broken(old, s.pos)
    ELSE Got(WordOf(Least(IndexOf(names, s.val)) - 1), s.pos)
ReadEnum(fmt, names, d, p, old) ==
    IF SeesNil(fmt, d, p) THEN Got(WordOf(0), p + 1)
    ELSE IF SeesInteger(fmt, d, p) THEN Indexed(Read(fmt, "asint", d, p), old)
    ELSE NamedValue(names, Read(fmt, "str", d, p), old)

RECURSIVE ReadStruct(_, _, _, _, _, _), ReadEntries(_, _, _, _, _, _, _), ReadField(_, _, _, _, _, _)

(* The oneof's tag: the entries after the n-th from the end are looked     *)
(* through, whatever cannot be skipped included.                           *)
RECURSIVE FindTag(_, _, _, _, _, _), TagEntry(_, _, _, _, _, _), TagNamed(_, _, _, _, _, _)
TagNamed(fmt, o, d, t, n, tag) ==
    LET named == {i \in DOMAIN o.variants : o.variants[i].name = t.val}
    IN  IF t.ok THEN FindTag(fmt, o, d, t.pos, n, IF named = {} THEN tag ELSE Least(named) - 1) ELSE t
TagEntry(fmt, o, d, k, n, tag) ==
    IF ~k.ok THEN k
    ELSE IF k.val = o.tag THEN TagNamed(fmt, o, d, Read(fmt, "str", d, k.pos), n, tag)
    ELSE FindTag(fmt, o, d, Read(fmt, "skip", d, k.pos).pos, n, tag)
FindTag(fmt, o, d, p, n, tag) ==
    IF n = 0 THEN Got(tag, p) ELSE TagEntry(fmt, o, d, Read(fmt, "str", d, p), n - 1, tag)

TagIn(fmt, o, d, h) == IF h.ok THEN FindTag(fmt, o, d, h.pos, h.val, -1) ELSE h
ReadVariant(fmt, sch, o, d, p, t, old) ==
    LET one == o.variants[t.val + 1].type
    IN  IF ~t.ok \/ t.val < 0 THEN Broken(old, t.pos)
        ELSE [ReadStruct(fmt, sch, one, d, p, Fresh(sch, one, "init")) EXCEPT !.val = [tag |-> t.val, obj |-> @]]
ReadOneof(fmt, sch, type, d, p, old) ==
    LET o == sch.oneofs[type]
    IN  ReadVariant(fmt, sch, o, d, p, TagIn(fmt, o, d, Read(fmt, "map", d, p)), old)

(* A nested value is read, then skipped to find out where it ended. *)
EndedBy(r, s) == IF ~r.ok THEN r ELSE IF s.ok THEN Got(r.val, s.pos) ELSE Broken(r.val, s.pos)
Nested(fmt, d, p, r) == EndedBy(r, Read(fmt, "skip", d, p))

Narrow(kind, w) ==
    IF Len(w) = 2 THEN w
    ELSE CASE kind = "int32" -> SignExt(Low(w, 4)) [] kind = "uint32" -> ZeroExt(Low(w, 4)) [] OTHER -> w
ReaderOf(kind) == CASE kind = "int32" -> "asint" [] kind = "uint32" -> "asuint" [] kind = "int64" -> "int"
                    [] kind = "uint64" -> "uint" [] OTHER -> kind
Converted(kind, r, old) ==
    IF ~r.ok THEN Broken(old, r.pos)
    ELSE IF kind \in {"int32", "uint32", "int64", "uint64"} THEN Got(Narrow(kind, r.val), r.pos)
    ELSE r
ReadScalar(fmt, sch, kind, type, d, p, old) ==
    CASE kind = "enum" -> ReadEnum(fmt, sch.enums[type], d, p, old)
      [] kind = "struct" -> Nested(fmt, d, p, ReadStruct(fmt, sch, type, d, p, old))
      [] kind = "oneof" -> Nested(fmt, d, p, ReadOneof(fmt, sch, type, d, p, old))
      [] kind = "map" -> Got(old, Read(fmt, "skip", d, p).pos)
      [] OTHER -> Converted(kind, Read(fmt, ReaderOf(kind), d, p), old)

(* Elements i..n of an array that is there already. *)
RECURSIVE ReadElements(_, _, _, _, _, _, _, _), AfterElement(_, _, _, _, _, _, _, _)
AfterElement(fmt, sch, f, d, r, i, n, v) ==
    LET w == [v EXCEPT ![i] = r.val]
    IN  IF r.ok THEN ReadElements(fmt, sch, f, d, r.pos, i + 1, n, w) ELSE Broken(w, r.pos)
ReadElements(fmt, sch, f, d, p, i, n, v) ==
    IF i > n THEN Got(v, p)
    ELSE AfterElement(fmt, sch, f, d, ReadScalar(fmt, sch, f.kind, f.type, d, p, v[i]), i, n, v)
RECURSIVE SkipMore(_, _, _, _)
SkipMore(fmt, d, p, n) == IF n <= 0 THEN p ELSE SkipMore(fmt, d, Read(fmt, "skip", d, p).pos, n - 1)

(* A map's entries are as many as its head says before any of them is read,*)
(* in memory nobody has cleared; a string value gets an empty string first.*)
RECURSIVE ReadMap(_, _, _, _, _, _, _), AfterKey(_, _, _, _, _, _, _), AfterValue(_, _, _, _, _, _, _, _)
AfterValue(fmt, sch, f, d, key, r, i, v) ==
    LET w == [v EXCEPT ![i] = [key |-> key, val |-> r.val, set |-> r.ok]]
    IN  IF r.ok THEN ReadMap(fmt, sch, f, d, r.pos, i + 1, w) ELSE Broken(w, r.pos)
AfterKey(fmt, sch, f, d, k, i, v) ==
    IF ~k.ok THEN Broken(v, k.pos)
    ELSE AfterValue(fmt, sch, f, d, k.val, ReadScalar(fmt, sch, f.value, f.type, d, k.pos, v[i].val), i, v)
ReadMap(fmt, sch, f, d, p, i, v) ==
    IF i > Len(v) THEN Got(v, p) ELSE AfterKey(fmt, sch, f, d, Read(fmt, "str", d, p), i, v)

(* Mutant: an array's new elements are not zeroed. *)
GarbageElement(sch, f) == FreshValue(sch, [f EXCEPT !.shape = "one"], "none")
NewElement(sch, f) == FreshValue(sch, [f EXCEPT !.shape = "one"], "zero")
MapElement(sch, f) == IF f.value = "struct" THEN Fresh(sch, f.type, "none") ELSE ZeroOf(f.value)

(* Memory is taken for as many elements as the head says; MaxHeld stands   *)
(* for what can be had of it.                                              *)
MaxHeld == 64
HeldMap(fmt, sch, f, d, m, old) ==
    IF ~m.ok \/ m.val > MaxHeld THEN Broken(old, m.pos)
    ELSE ReadMap(fmt, sch, f, d, m.pos, 1,
                 [i \in 1..m.val |-> [key |-> <<>>, val |-> MapElement(sch, f), set |-> FALSE]])
SkipRest(fmt, d, r, n) == IF r.ok THEN Got(r.val, SkipMore(fmt, d, r.pos, n)) ELSE r
HeldArray(fmt, sch, f, d, a, old) ==
    IF ~a.ok \/ a.val > MaxHeld THEN Broken(old, a.pos)
    ELSE IF f.shape = "array"
         THEN ReadElements(fmt, sch, f, d, a.pos, 1, a.val, [i \in 1..a.val |-> NewElement(sch, f)])
         ELSE SkipRest(fmt, d, ReadElements(fmt, sch, f, d, a.pos, 1, Least({a.val, f.size}), old), a.val - f.size)
ReadField(fmt, sch, f, d, p, old) ==
    IF f.shape # "one" THEN HeldArray(fmt, sch, f, d, Read(fmt, "array", d, p), old)
    ELSE IF f.kind = "map" THEN HeldMap(fmt, sch, f, d, Read(fmt, "map", d, p), old)
    ELSE ReadScalar(fmt, sch, f.kind, f.type, d, p, old)

(* One entry of a message: the field with its key, or, when there is none, *)
(* a value to skip; a skip that fails is not noticed.                      *)
Member(f, m, r, there) == [has |-> IF f.optional \/ f.nullable THEN there ELSE m.has,
                           val |-> r.val, set |-> IF f.kind = "str" /\ f.shape = "one" THEN m.set ELSE TRUE]
Stored(obj, f, r) == [r EXCEPT !.val = [obj EXCEPT ![f.name] = Member(f, obj[f.name], r, TRUE)]]
(* A string is emptied and appended to through the pointer in the object,  *)
(* which is looked at for NULL only.                                       *)
AppendedTo(f, m, r) == IF f.kind = "str" /\ f.shape = "one" /\ r.ok /\ ~m.set THEN Broken(r.val, Wild) ELSE r
KnownEntry(fmt, sch, f, d, p, obj) ==
    IF f.nullable /\ SeesNil(fmt, d, p) THEN Got([obj EXCEPT ![f.name].has = FALSE], p + 1)
    ELSE Stored(obj, f, AppendedTo(f, obj[f.name], ReadField(fmt, sch, f, d, p, obj[f.name].val)))
EntryOf(fmt, sch, fs, d, k, obj) ==
    LET known == {i \in DOMAIN fs : fs[i].key = k.val}
    IN  IF ~k.ok THEN Broken(obj, k.pos)
        ELSE IF fs = <<>> THEN Got(obj, k.pos)
        ELSE IF known = {} THEN Got(obj, Read(fmt, "skip", d, k.pos).pos)
        ELSE KnownEntry(fmt, sch, fs[Least(known)], d, k.pos, obj)
ReadEntry(fmt, sch, name, d, p, obj) ==
    EntryOf(fmt, sch, Fields(sch, name), d, Read(fmt, "str", d, p), obj)

RECURSIVE AfterEntry(_, _, _, _, _, _)
AfterEntry(fmt, sch, name, d, n, r) ==
    IF r.ok THEN ReadEntries(fmt, sch, name, d, r.pos, n, r.val) ELSE r
ReadEntries(fmt, sch, name, d, p, n, obj) ==
    IF n = 0 THEN Got(obj, p)
    ELSE AfterEntry(fmt, sch, name, d, n - 1, ReadEntry(fmt, sch, name, d, p, obj))
AfterHead(fmt, sch, name, d, h, obj) ==
    IF h.ok THEN ReadEntries(fmt, sch, name, d, h.pos, h.val, obj) ELSE Broken(obj, h.pos)
ReadStruct(fmt, sch, name, d, p, obj) == AfterHead(fmt, sch, name, d, Read(fmt, "map", d, p), obj)
====
