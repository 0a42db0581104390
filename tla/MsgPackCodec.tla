---- MODULE MsgPackCodec ----
(***************************************************************************)
(* The MessagePack runtime that is embedded in the generated code: what    *)
(* each mp_pack_ function appends and what each mp_unpack_ function makes  *)
(* of a buffer d from position p.  A float is its tag and its raw bytes.   *)
(***************************************************************************)
EXTENDS ByteWords

Tag(first, n) == first + (CASE n = 1 -> 0 [] n = 2 -> 1 [] n = 4 -> 2 [] n = 8 -> 3)
Nil == 192
IsNil(b) == b = Nil
PackNil == <<Nil>>
PackBool(b) == <<IF b THEN 195 ELSE 194>>

PackUint(w) == LET n == UintWidth(w)
               IN  IF n = 1 /\ w[8] < 128 THEN <<w[8]>> ELSE <<Tag(204, n)>> \o Low(w, n)

(* Mutant: the fixint test takes a two's complement byte for a small one. *)
PackIntSmall(w) == LET n == IntWidth(w)
                   IN  IF w[1] < 128 THEN PackUint(w)
                       ELSE IF n = 1 THEN <<w[8]>> ELSE <<Tag(208, n)>> \o Low(w, n)
PackInt(w) == LET n == IntWidth(w)
              IN  IF w[1] < 128 THEN PackUint(w)
                  ELSE IF n = 1 /\ w[8] >= 224 THEN <<w[8]>>
                  ELSE <<Tag(208, n)>> \o Low(w, n)

PackFloat(b) == <<202>> \o b
PackDouble(b) == <<203>> \o b

(* A length or a count: in the tag when small, else in its fewest bytes. *)
FormHead(n, small, fix, tags) ==
    LET k == Least({m \in DOMAIN tags : UintWidth(WordOf(n)) <= m})
    IN  IF n <= small THEN <<fix + n>> ELSE <<tags[k]>> \o Low(WordOf(n), k)
StrHead(n) == FormHead(n, 31, 160, [k \in {1, 2, 4} |-> Tag(217, k)])
ArrayHead(n) == FormHead(n, 15, 144, [k \in {2, 4} |-> Tag(219, k)])
MapHead(n) == FormHead(n, 15, 128, [k \in {2, 4} |-> Tag(221, k)])
----
(* An integer in any of the forms that follow a tag b. *)
Integer(d, p, b) ==
    IF b \in 204..211 THEN Extended(Take(d, p, 2 ^ ((b - 204) % 4)), b > 207) ELSE Failed(p)

UnpackInt64(d, p) ==
    LET b == Byte(d, p)
    IN  IF p >= d.len THEN Failed(p)
        ELSE IF b <= 127 THEN Got(ZeroExt(<<b>>), p + 1)
        ELSE IF b >= 224 THEN Got(SignExt(<<b>>), p + 1)
        ELSE Integer(d, p + 1, b)

(* The signed forms are accepted and cast, the negative fixint is not. *)
UnpackUint64(d, p) ==
    LET b == Byte(d, p)
    IN  IF p >= d.len THEN Failed(p)
        ELSE IF b <= 127 THEN Got(ZeroExt(<<b>>), p + 1)
        ELSE Integer(d, p + 1, b)

UnpackBool(d, p) ==
    LET b == Byte(d, p)
    IN  IF p >= d.len THEN Failed(p)
        ELSE IF b \in {194, 195} THEN Got(b = 195, p + 1) ELSE Failed(p + 1)
UnpackNil(d, p) ==
    IF p >= d.len THEN Failed(p) ELSE IF IsNil(Byte(d, p)) THEN Got(<<>>, p + 1) ELSE Failed(p + 1)

(* A double is read from either float form, or from an integer by way of   *)
(* int64; the value names the form it comes from.                          *)
FromInteger(i) == IF i.ok THEN Got(<<IF i.val[1] >= 128 THEN "negative" ELSE "natural", i.val>>, i.pos) ELSE i
UnpackDouble(d, p) ==
    LET b == Byte(d, p)
    IN  IF p >= d.len THEN Failed(p)
        ELSE IF b \in {202, 203} THEN Float(Take(d, p + 1, IF b = 202 THEN 4 ELSE 8))
        ELSE FromInteger(UnpackInt64(d, p))

(* Integer readers that take a float too, converting it.  They look at the *)
(* tag before they look at the length.                                     *)
AsNumber(d, p, Unpack(_, _)) ==
    IF Byte(d, p) \in {202, 203} THEN UnpackDouble(d, p) ELSE Unpack(d, p)
NumberAsInt64(d, p) == AsNumber(d, p, UnpackInt64)
NumberAsUint64(d, p) == AsNumber(d, p, UnpackUint64)

LengthOf(t) == IF t.ok THEN Got(Count(ZeroExt(t.val)), t.pos) ELSE t
Length(d, p, n) == LengthOf(Take(d, p, n))
StrBody(d, l) ==
    IF ~l.ok THEN l
    ELSE IF l.pos + l.val > d.len THEN Failed(l.pos)
    ELSE Got([i \in 1..l.val |-> Byte(d, l.pos + i - 1)], l.pos + l.val)
UnpackStr(d, p) ==
    LET b == Byte(d, p)
    IN  IF p >= d.len THEN Failed(p)
        ELSE IF b \in 160..191 THEN StrBody(d, Got(b - 160, p + 1))
        ELSE IF b \in 217..219 THEN StrBody(d, Length(d, p + 1, 2 ^ (b - 217)))
        ELSE Failed(p + 1)

(* The head of an array or a map: fix..fix+15, or one of two tags. *)
UnpackHead(d, p, fix, tag) ==
    LET b == Byte(d, p)
    IN  IF p >= d.len THEN Failed(p)
        ELSE IF b \in fix..(fix + 15) THEN Got(b - fix, p + 1)
        ELSE IF b \in {tag, tag + 1} THEN Length(d, p + 1, 2 ^ (1 + b - tag))
        ELSE Failed(p + 1)
UnpackArrayHead(d, p) == UnpackHead(d, p, 144, 220)
UnpackMapHead(d, p) == UnpackHead(d, p, 128, 222)
----
(* Bytes after the tag of a value that is no container and has no length.  *)
(* Mutant: both floats have four bytes.                                    *)
FixedFloats(b) == CASE b \in (0..127) \cup (224..255) \cup {192, 194, 195} -> 0
                    [] b \in {202, 203} -> 4
                    [] b \in 204..211 -> 2 ^ ((b - 204) % 4)
                    [] OTHER -> -1
Fixed(b) == CASE b \in (0..127) \cup (224..255) \cup {192, 194, 195} -> 0
              [] b = 202 -> 4 [] b = 203 -> 8
              [] b \in 204..211 -> 2 ^ ((b - 204) % 4)
              [] OTHER -> -1

RECURSIVE Skip(_, _), SkipAll(_, _, _), SkipRest(_, _, _)
SkipRest(d, s, n) == IF s.ok THEN SkipAll(d, s.pos, n) ELSE s
SkipAll(d, p, n) == IF n = 0 THEN Got(<<>>, p) ELSE SkipRest(d, Skip(d, p), n - 1)

SkipBody(d, l) == IF l.ok THEN Pass(d, l.pos, l.val) ELSE l
(* Mutant: a map is skipped as if it had one item per entry. *)
SkipItemsOnce(d, h, each) == IF h.ok THEN SkipAll(d, h.pos, h.val) ELSE h
SkipItems(d, h, each) == IF h.ok THEN SkipAll(d, h.pos, each * h.val) ELSE h
Skip(d, p) ==
    LET b == Byte(d, p)
    IN  IF p >= d.len THEN Failed(p)
        ELSE IF Fixed(b) >= 0 THEN Pass(d, p + 1, Fixed(b))
        ELSE IF b \in 160..191 THEN Pass(d, p + 1, b - 160)
        ELSE IF b \in 217..219 THEN SkipBody(d, Length(d, p + 1, 2 ^ (b - 217)))
        ELSE IF b \in (144..159) \cup {220, 221} THEN SkipItems(d, UnpackArrayHead(d, p), 1)
        ELSE IF b \in (128..143) \cup {222, 223} THEN SkipItems(d, UnpackMapHead(d, p), 2)
        ELSE Failed(p + 1)
====
