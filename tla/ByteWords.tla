---- MODULE ByteWords ----
(***************************************************************************)
(* Bytes and buffers of the two binary formats.  A 64-bit integer is its   *)
(* eight bytes, most significant first; a conversion to a narrower type    *)
(* keeps the low bytes, one to a wider type extends with zeros or with the *)
(* sign.  A buffer is [bytes, len, beyond]: the first bytes, the number of *)
(* bytes the reader may read (bytes that are not listed are text), and the *)
(* byte that happens to follow in memory.                                  *)
(***************************************************************************)
EXTENDS Integers, Sequences

Widths == {1, 2, 4, 8}
Low(w, n) == SubSeq(w, 9 - n, 8)
ZeroExt(b) == [i \in 1..(8 - Len(b)) |-> 0] \o b
SignExt(b) == [i \in 1..(8 - Len(b)) |-> IF b[1] >= 128 THEN 255 ELSE 0] \o b
Complement(w) == [i \in 1..8 |-> 255 - w[i]]

(* How many bytes an integer needs, unsigned and signed. *)
Least(S) == CHOOSE n \in S : \A m \in S : n <= m
UintWidth(w) == Least({n \in Widths : ZeroExt(Low(w, n)) = w})
IntWidth(w) == Least({n \in Widths : SignExt(Low(w, n)) = w})

(* A count or a length up to Huge as a number; above that only whether it  *)
(* is within 2^24 of 2^64 matters, where adding to it wraps around.        *)
Huge == 16777216
Low24(w) == w[6] * 65536 + w[7] * 256 + w[8]
WordOf(n) == ZeroExt(<<n \div 65536, (n \div 256) % 256, n % 256>>)
Count(w) == IF ZeroExt(Low(w, 2)) = w \/ ZeroExt(<<w[6], w[7], w[8]>>) = w THEN Low24(w)
            ELSE IF \A i \in 1..5 : w[i] = 255 THEN Low24(w) - Huge
            ELSE Huge

Text == 97 \* a byte of a string's body
Byte(d, p) == IF p >= d.len THEN d.beyond
              ELSE IF p < Len(d.bytes) THEN d.bytes[p + 1] ELSE Text

(* Outcome of a read: whether it was right, where the cursor is, the value.*)
Got(v, p) == [ok |-> TRUE, pos |-> p, val |-> v]
Failed(p) == [ok |-> FALSE, pos |-> p, val |-> <<>>]
Take(d, p, n) == IF p + n > d.len THEN Failed(p)
                 ELSE Got([i \in 1..n |-> Byte(d, p + i - 1)], p + n)
Extended(t, signed) == IF t.ok THEN Got(IF signed THEN SignExt(t.val) ELSE ZeroExt(t.val), t.pos) ELSE t
Float(t) == IF t.ok THEN Got(<<"float", t.val>>, t.pos) ELSE t
(* Mutant: a body that ends beyond the buffer is taken as ending with it. *)
PassSome(d, p, n) == IF p + n > d.len THEN Got(<<>>, d.len) ELSE Got(<<>>, p + n)
Pass(d, p, n) == IF p + n > d.len THEN Failed(p) ELSE Got(<<>>, p + n)
====
