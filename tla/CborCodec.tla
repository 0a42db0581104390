---- MODULE CborCodec ----
(***************************************************************************)
(* The CBOR runtime that is embedded in the generated code.  Every item    *)
(* starts with a major type and an argument, which one pair of functions   *)
(* writes and reads.                                                       *)
(***************************************************************************)
EXTENDS ByteWords

(* Argument widths follow their code in the low five bits: 24 to 27. *)
EncodeHead(major, w) ==
    LET n == UintWidth(w)
        code == CASE n = 1 -> 24 [] n = 2 -> 25 [] n = 4 -> 26 [] n = 8 -> 27
    IN  IF n = 1 /\ w[8] <= 23 THEN <<32 * major + w[8]>>
        ELSE <<32 * major + code>> \o Low(w, n)

Null == 246
IsNil(b) == b = Null
PackNil == <<Null>>
PackBool(b) == <<IF b THEN 245 ELSE 244>>
PackUint(w) == EncodeHead(0, w)
(* A negative number v is stored as -(v + 1), its complement.              *)
PackInt(w) == IF w[1] < 128 THEN EncodeHead(0, w) ELSE EncodeHead(1, Complement(w))
PackFloat(b) == <<250>> \o b
PackDouble(b) == <<251>> \o b
StrHead(n) == EncodeHead(3, WordOf(n))
ArrayHead(n) == EncodeHead(4, WordOf(n))
MapHead(n) == EncodeHead(5, WordOf(n))
----
(* The major type and the argument, as [major, arg]. *)
HeadOf(major, t) == IF t.ok THEN Got([major |-> major, arg |-> ZeroExt(t.val)], t.pos) ELSE t
DecodeHead(d, p) ==
    LET ai == Byte(d, p) % 32
    IN  IF p >= d.len THEN Failed(p)
        ELSE IF ai > 27 THEN Failed(p + 1)
        ELSE HeadOf(Byte(d, p) \div 32, IF ai <= 23 THEN Got(<<ai>>, p + 1) ELSE Take(d, p + 1, 2 ^ (ai - 24)))

UnpackBool(d, p) ==
    IF p < d.len /\ Byte(d, p) \in {244, 245} THEN Got(Byte(d, p) = 245, p + 1) ELSE Failed(p)
UnpackNil(d, p) == IF p < d.len /\ IsNil(Byte(d, p)) THEN Got(<<>>, p + 1) ELSE Failed(p)

(* A wrong type leaves the cursor where it was, a short head does not. *)
UintIn(h, p) ==
    IF ~h.ok THEN h ELSE IF h.val.major = 0 THEN Got(h.val.arg, h.pos) ELSE Failed(p)
UnpackUint64(d, p) == UintIn(DecodeHead(d, p), p)

(* Mutant: the range of the argument is not checked. *)
IntInWide(h, p) ==
    IF ~h.ok THEN h
    ELSE IF h.val.major \notin {0, 1} THEN Failed(p)
    ELSE Got(IF h.val.major = 0 THEN h.val.arg ELSE Complement(h.val.arg), h.pos)
IntIn(h, p) ==
    IF ~h.ok THEN h
    ELSE IF h.val.major \notin {0, 1} \/ h.val.arg[1] >= 128 THEN Failed(p)
    ELSE Got(IF h.val.major = 0 THEN h.val.arg ELSE Complement(h.val.arg), h.pos)
UnpackInt64(d, p) == IntIn(DecodeHead(d, p), p)

FromInteger(h, p) ==
    IF ~h.ok THEN h
    ELSE CASE h.val.major = 0 -> Got(<<"natural", h.val.arg>>, h.pos)
           [] h.val.major = 1 -> Got(<<"negative", Complement(h.val.arg)>>, h.pos)
           [] OTHER -> Failed(p)
UnpackDouble(d, p) ==
    LET b == Byte(d, p)
    IN  IF p >= d.len THEN Failed(p)
        ELSE IF b \in {250, 251} THEN Float(Take(d, p + 1, IF b = 250 THEN 4 ELSE 8))
        ELSE FromInteger(DecodeHead(d, p), p)

AsNumber(d, p, Unpack(_, _)) ==
    IF p < d.len /\ Byte(d, p) \in {250, 251} THEN UnpackDouble(d, p) ELSE Unpack(d, p)
NumberAsInt64(d, p) == AsNumber(d, p, UnpackInt64)
NumberAsUint64(d, p) == AsNumber(d, p, UnpackUint64)

StrIn(d, h, p) ==
    LET n == Count(h.val.arg)
    IN  IF ~h.ok THEN h
        ELSE IF h.val.major # 3 THEN Failed(p)
        ELSE IF n < 0 \/ n > d.len - h.pos THEN Failed(p)
        ELSE Got([i \in 1..n |-> Byte(d, h.pos + i - 1)], h.pos + n)
UnpackStr(d, p) == StrIn(d, DecodeHead(d, p), p)

(* The count is cut to 32 bits. *)
CountIn(h, p, major) ==
    IF ~h.ok THEN h
    ELSE IF h.val.major # major THEN Failed(p)
    ELSE Got(Count(ZeroExt(Low(h.val.arg, 4))), h.pos)
UnpackHead(d, p, major) == CountIn(DecodeHead(d, p), p, major)
UnpackArrayHead(d, p) == UnpackHead(d, p, 4)
UnpackMapHead(d, p) == UnpackHead(d, p, 5)
----
RECURSIVE Skip(_, _), SkipIn(_, _), SkipAll(_, _, _), SkipRest(_, _, _)
SkipRest(d, s, n) == IF s.ok THEN SkipAll(d, s.pos, n) ELSE s
SkipAll(d, p, n) == IF n = 0 THEN Got(<<>>, p) ELSE SkipRest(d, Skip(d, p), n - 1)

(* Adding a string's length to the position wraps around near 2^64. *)
SkipIn(d, h) ==
    LET n == Count(h.val.arg)
    IN  IF ~h.ok THEN h
        ELSE CASE h.val.major \in {0, 1, 7} -> Got(<<>>, h.pos)
               [] h.val.major \in {2, 3} -> IF h.pos + n < 0 THEN Failed(h.pos) ELSE Pass(d, h.pos, n)
               [] h.val.major = 4 -> SkipAll(d, h.pos, n)
               [] h.val.major = 5 -> SkipAll(d, h.pos, 2 * n)
               [] h.val.major = 6 -> Skip(d, h.pos)
Skip(d, p) == SkipIn(d, DecodeHead(d, p))
====
