---- MODULE BinaryItems ----
(***************************************************************************)
(* A writer packs items into a buffer, the buffer may arrive cut short, and*)
(* a reader takes it apart with whichever function it likes, in either     *)
(* binary format.  Some buffers come from somewhere else altogether.       *)
(*                                                                         *)
(* An item is [kind, val]: an integer's val is its word, a float's its raw *)
(* bytes, a string's, an array's and a map's its length; an array of nils  *)
(* and a map of nils stand for all of them.                                *)
(***************************************************************************)
EXTENDS BinaryFormats, SequencesExt

CONSTANTS Items,    \* what may be written first
          Later,    \* what may be written after it
          Foreign,  \* the bytes of buffers nobody here wrote
          Beyond,   \* bytes that may follow a buffer in memory
          MaxItems, \* items a buffer is written with
          MaxReads, \* reads of one buffer
          Listed    \* a longer body is left out of the buffer's bytes

ASSUME ItemsBound == MaxItems \in Nat /\ MaxReads \in Nat /\ Listed \in Nat

VARIABLES format,  \* which of the two runtimes
          items,   \* what was written
          ends,    \* where each item ends
          buf,     \* the buffer
          pos,     \* the reader's cursor
          last,    \* what the reader did last: [how, at, ok, val]
          reads    \* how often it read
vars == <<format, items, ends, buf, pos, last, reads>>

Nils(fmt, n) == FlattenSeq([i \in 1..n |-> Pack(fmt, "nil", <<>>)])
Pairs(fmt, n) ==
    FlattenSeq([i \in 1..n |-> PackedStr(fmt, <<Text>>) \o Pack(fmt, "nil", <<>>)])
Body(fmt, kind, n) ==
    IF n > Listed THEN <<>>
    ELSE CASE kind = "str" -> [i \in 1..n |-> Text]
           [] kind = "array" -> Nils(fmt, n)
           [] kind = "map" -> Pairs(fmt, n)

Packed(fmt, kind, v) ==
    Pack(fmt, kind, v) \o IF kind \in {"str", "array", "map"} THEN Body(fmt, kind, v) ELSE <<>>

Numbers == {"int", "uint", "asint", "asuint", "double"}
Values == Numbers \cup {"bool", "nil", "str"}
Hows == Values \cup {"array", "map", "skip"}
Unread == [how |-> "none", at |-> 0, ok |-> TRUE, val |-> <<>>]
----
Init ==
    /\ format \in Formats
    /\ items = <<>> /\ ends = <<>> /\ pos = 0 /\ last = Unread /\ reads = 0
    /\ \E bytes \in Foreign \cup {<<>>}, b \in Beyond :
          buf = [bytes |-> bytes, len |-> Len(bytes), beyond |-> b]

Write(item) ==
    LET bytes == Packed(format, item.kind, item.val)
        rest == IF item.kind \in {"str"} /\ item.val > Listed THEN item.val ELSE 0
    IN  /\ reads = 0 /\ Len(items) < MaxItems
        /\ buf.len = IF ends = <<>> THEN 0 ELSE Last(ends)
        /\ Len(buf.bytes) = buf.len
        /\ items' = Append(items, item)
        /\ buf' = [buf EXCEPT !.bytes = @ \o bytes, !.len = @ + Len(bytes) + rest]
        /\ ends' = Append(ends, buf'.len)
        /\ UNCHANGED <<format, pos, last, reads>>

(* Only part of the buffer arrives. *)
Cut ==
    /\ reads = 0 /\ ends # <<>> /\ buf.len = Last(ends)
    /\ \E n \in {0, 1, 2, 3, 4, 5, 8, buf.len \div 2, buf.len - 1} :
          n < buf.len /\ buf' = [buf EXCEPT !.len = n]
    /\ UNCHANGED <<format, items, ends, pos, last, reads>>

Unpack(how) ==
    /\ last.ok /\ reads < MaxReads
    /\ reads' = reads + 1
    /\ LET r == Read(format, how, buf, pos)
       IN  /\ last' = [how |-> how, at |-> pos, ok |-> r.ok, val |-> r.val]
           /\ pos' = r.pos
    /\ UNCHANGED <<format, items, ends, buf>>

Next == (\E item \in IF items = <<>> THEN Items ELSE Later : Write(item)) \/ Cut \/ \E how \in Hows : Unpack(how)
Spec == Init /\ [][Next]_vars
----
(* The item that starts where the reader last read, when there is one.     *)
StartOf(i) == IF i = 1 THEN 0 ELSE ends[i - 1]
ReadHere(i) == last.how # "none" /\ last.at = StartOf(i)
Container(item) == item.kind \in {"array", "map"}
(* The item and everything it holds was packed and has arrived. *)
Whole(i) == ends[i] <= buf.len /\ ~(Container(items[i]) /\ items[i].val > Listed)
HowOf(kind) == CASE kind = "float" -> "double" [] OTHER -> kind
ValueOf(item) == CASE item.kind \in {"float", "double"} -> <<"float", item.val>>
                   [] item.kind = "str" -> [j \in 1..item.val |-> Text]
                   [] item.kind = "nil" -> <<>>
                   [] OTHER -> item.val

(* A string whose length is so near 2^64 that adding it to the position    *)
(* wraps around: the CBOR skip has no check against that, at any depth.    *)
Wraps == \E p \in 0..(buf.len - 1) :
            LET h == CB!DecodeHead(buf, p)
            IN  h.ok /\ h.val.major \in {2, 3} /\ Count(h.val.arg) < 0

(* Reading an item with the function for its type gives back the value     *)
(* that was packed and leaves the cursor at the next item, also where the  *)
(* packed form changes its size.                                           *)
RoundTrip ==
    \A i \in DOMAIN items : ReadHere(i) /\ Whole(i) /\ last.how = HowOf(items[i].kind)
        => /\ last.ok /\ last.val = ValueOf(items[i])
           /\ Container(items[i]) \/ pos = ends[i]

(* Of an item that did not arrive whole nothing can be read, and nothing   *)
(* skips it; what follows the buffer in memory makes no difference.        *)
CutRejected ==
    \A i \in DOMAIN items :
        ReadHere(i) /\ ends[i] > buf.len /\ ~(Container(items[i]) /\ last.how = items[i].kind)
            => ~last.ok

(* Skipping and reading agree on where a value ends: the generated code    *)
(* reads a nested struct and then skips over it to find where it ended.    *)
SkipAgrees ==
    last.how \in Values /\ last.ok
        => LET s == Read(format, "skip", buf, last.at) IN s.ok /\ s.pos = pos

(* A skip gets ahead and never out of the buffer, and from one item exactly *)
(* to the next.                                                             *)
SkipsOne ==
    last.how = "skip" /\ last.ok =>
        /\ pos <= buf.len
        /\ pos > last.at \/ (format = "cbor" /\ Wraps)
        /\ \A i \in DOMAIN items : ReadHere(i) /\ Whole(i) => pos = ends[i]

(* A number that does not fit the type it is read as is refused by CBOR;   *)
(* MessagePack converts it: an unsigned one from 2^63 on becomes negative, *)
(* and a negative one is read as unsigned unless its tag is its value.     *)
Negative(item) == item.kind = "int" /\ item.val[1] >= 128
TooBig(item) == item.kind = "uint" /\ item.val[1] >= 128
Sign(item) == IF Negative(item) THEN "negative" ELSE "natural"
Fits(item, how) == CASE how \in {"uint", "asuint"} -> ~Negative(item)
                     [] how \in {"int", "asint"} -> ~TooBig(item)
                     [] OTHER -> format = "cbor" \/ ~TooBig(item)
SameNumber ==
    \A i \in DOMAIN items :
        ReadHere(i) /\ Whole(i) /\ items[i].kind \in {"int", "uint"} /\ last.how \in Numbers =>
        IF Fits(items[i], last.how)
        THEN last.ok /\ last.val = IF last.how = "double" THEN <<Sign(items[i]), items[i].val>>
                                   ELSE items[i].val
        ELSE IF format = "cbor" THEN ~last.ok
        ELSE last.ok <=> ~(Negative(items[i]) /\ Byte(buf, last.at) >= 224)
====
