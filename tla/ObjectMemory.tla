---- MODULE ObjectMemory ----
(***************************************************************************)
(* Who owns which heap block of a generated object: the init, clear, copy  *)
(* and move functions gencode.c writes for a struct, and the JSON parser   *)
(* (json_parse.c) that fills the object, with and without a field mask.    *)
(*                                                                         *)
(* A field's value is its buffer, the pointers in it (a map entry is two   *)
(* of them, its key and its value; a map in an array is three, its entries *)
(* and the key and value of the one entry it may have; a string, a nested  *)
(* struct, a fixed array and a oneof have theirs in the object itself),    *)
(* the tag of a oneof and the presence flag.  A nested struct, a struct    *)
(* element, the struct value of a map and the text variant of a oneof hold *)
(* one string each; the number variant holds Junk where the text variant   *)
(* has its pointer.  A map grows without clearing its entries, so the      *)
(* string of a struct value is Wild, memory nobody wrote, unless the       *)
(* document gives it; a call that frees or copies it is undefined.         *)
(*   The environment does what the documentation shows: a document gives a *)
(* key once and no key but the fields' own (the index also has a row for   *)
(* the length of an array), and an object is cleared before it is parsed   *)
(* into again, unless a mask selects what is parsed.  Allocations of the   *)
(* parser succeed; those of a copy may fail.                               *)
(***************************************************************************)
EXTENDS Integers, SequencesExt

CONSTANTS Objects,    \* the objects the program works with
          Schemas,    \* functions from field names to [kind, nullable, default]
          MaxLen,     \* bound: elements or entries read of one array or map
          FixedSize,  \* elements of a fixed-size array
          MaxBlocks   \* bound: blocks allocated at once, the lost ones included

ASSUME MemoryBounds == MaxLen \in Nat /\ FixedSize \in Nat \ {0} /\ MaxBlocks \in Nat

VARIABLES schema,   \* the struct's fields
          objs,     \* object -> field -> value
          live,     \* the allocated blocks
          orphans,  \* ghost: the blocks the parser lost hold of
          fresh,    \* ghost: the objects nothing was stored in since init or clear
          op        \* the call in progress, or the result of the last one
vars == <<schema, objs, live, orphans, fresh, op>>

Null == 0
Junk == -1
Wild == -2
Blocks == 1..MaxBlocks
Fields == DOMAIN schema
Kind(f) == schema[f].kind
InPlace == {"string", "struct", "fixed", "oneof"}
Kinds == InPlace \cup {"strings", "structs", "map", "structmap", "maps", "oneofs"}

(* Structs as the schema parser passes them on; only a string may have a   *)
(* default of its own to allocate.                                         *)
ASSUME SchemasAssumption ==
    \A s \in Schemas :
        /\ IsFiniteSet(DOMAIN s)
        /\ \A f \in DOMAIN s : /\ s[f].kind \in Kinds /\ s[f].nullable \in BOOLEAN
                               /\ s[f].default => s[f].kind = "string"

(* What n allocations return: the first n free blocks. *)
Free(i, used) == {b \in Blocks \ used : Cardinality({c \in Blocks \ used : c < b}) = i - 1}
Enough(n, used) == \A i \in 1..n : Free(i, used) # {}
New(n, used) == [i \in 1..n |-> CHOOSE b \in Free(i, used) : TRUE]

Cleared(kind) ==
    LET slots == IF kind = "fixed" THEN FixedSize ELSE IF kind \in InPlace THEN 1 ELSE 0
    IN  [buf |-> Null, cells |-> [i \in 1..slots |-> Null], tag |-> "text", has |-> FALSE]
Empty == [f \in Fields |-> Cleared(Kind(f))]

(* What clearing a value frees; a oneof is cleared by its tag. *)
Pointers(v) == IF v.tag = "text" THEN Range(v.cells) ELSE {}
Freed(v) == ({v.buf} \cup Pointers(v)) \ {Null, Wild}
Owned(o) == UNION {Freed(o[f]) : f \in DOMAIN o}

(* A value that can be cleared or copied: every pointer in it was written. *)
Written(v) == Wild \notin Pointers(v)
WrittenAll(o) == \A f \in DOMAIN o : Written(o[f])

(* The runtime's clearing of one selected field before it is parsed. *)
Reset(kind, v) == [value |-> Cleared(kind), freed |-> Freed(v)]

Idle == [call |-> "none"]
Return(r) == op' = [call |-> "done", of |-> op, result |-> r]
Undefined == [call |-> "undefined"]
Calling == op.call \in {"parse", "copy", "undefined"}

Init ==
    /\ schema \in Schemas
    /\ objs = [x \in Objects |-> Empty]
    /\ live = {} /\ orphans = {} /\ fresh = {} /\ op = Idle

(* T_init on storage that owns nothing: default strings are allocated. *)
InitObject(x) ==
    /\ ~Calling /\ Owned(objs[x]) = {} /\ WrittenAll(objs[x])
    /\ LET defaults == SetToSeq({f \in Fields : schema[f].default})
       IN  /\ Enough(Len(defaults), live)
           /\ LET new == New(Len(defaults), live)
                  value(f) == IF schema[f].default
                              THEN [Cleared("string") EXCEPT !.cells =
                                        <<new[CHOOSE i \in DOMAIN defaults : defaults[i] = f]>>]
                              ELSE Cleared(Kind(f))
              IN  /\ objs' = [objs EXCEPT ![x] = [f \in Fields |-> value(f)]]
                  /\ live' = live \cup Range(new)
    /\ fresh' = fresh \cup {x} /\ op' = Idle
    /\ UNCHANGED <<schema, orphans>>

(* T_clear. *)
Clear(x) ==
    /\ ~Calling /\ WrittenAll(objs[x])
    /\ objs' = [objs EXCEPT ![x] = Empty]
    /\ live' = live \ Owned(objs[x])
    /\ fresh' = fresh \cup {x} /\ op' = Idle
    /\ UNCHANGED <<schema, orphans>>

(* Mutant: the source keeps what it held. *)
MoveKeeps(dest, src) ==
    /\ ~Calling /\ dest # src /\ WrittenAll(objs[dest])
    /\ objs' = [objs EXCEPT ![dest] = objs[src]]
    /\ live' = live \ Owned(objs[dest])
    /\ fresh' = {src} \cup IF src \in fresh THEN fresh \cup {dest} ELSE fresh \ {dest}
    /\ op' = Idle
    /\ UNCHANGED <<schema, orphans>>
(* T_move: the source is left as if cleared. *)
Move(dest, src) ==
    /\ ~Calling /\ dest # src /\ WrittenAll(objs[dest])
    /\ objs' = [objs EXCEPT ![dest] = objs[src], ![src] = Empty]
    /\ live' = live \ Owned(objs[dest])
    /\ fresh' = {src} \cup IF src \in fresh THEN fresh \cup {dest} ELSE fresh \ {dest}
    /\ op' = Idle
    /\ UNCHANGED <<schema, orphans>>
----
(* Parsing.  What a document gives for a field: which of its pointers are  *)
(* strings (the others are null or missing), and how its value ends: in    *)
(* order, with a code below zero (a map before an entry or in its value),  *)
(* or, for a string, with the code of the token found in its place.        *)
Given(kind) ==
    LET seqs(n) == UNION {[1..i -> BOOLEAN] : i \in 0..n}
        ends(parts, ways) == [parts : parts, end : ways]
    IN  CASE kind = "string" -> ends([1..1 -> BOOLEAN], {"ok"}) \cup ends({<<FALSE>>}, {"bad", "odd"})
          [] kind \in {"struct", "oneof"} -> ends([1..1 -> BOOLEAN], {"ok", "bad"})
          [] kind = "fixed" -> ends(seqs(FixedSize), {"ok", "bad"})
          [] kind = "strings" -> ends(seqs(MaxLen), {"ok"})
          [] kind \in {"structs", "oneofs"} -> ends(seqs(MaxLen), {"ok", "bad"})
          [] kind \in {"map", "structmap"} ->
                LET entries == {s \in seqs(2 * MaxLen) : /\ Len(s) % 2 = 0
                                                        /\ \A i \in DOMAIN s : i % 2 = 1 => s[i]}
                IN  ends(entries, {"ok", "cut"})
                    \cup ends({s \in entries : /\ s # <<>>
                                               /\ s[Len(s)] => kind = "structmap"}, {"bad"})
          [] kind = "maps" ->
                ends({s \in seqs(3 * MaxLen) :
                          /\ Len(s) % 3 = 0
                          /\ \A i \in DOMAIN s : /\ i % 3 = 2 => s[i] = s[i - 1]
                                                 /\ i % 3 = 0 /\ s[i] => s[i - 1]}, {"ok", "bad"})

Strings(parts) == Cardinality({i \in DOMAIN parts : parts[i]})
Missing(kind) == IF kind = "structmap" THEN Wild ELSE Null
Placed(kind, parts, new) ==
    [i \in DOMAIN parts |-> IF parts[i] THEN new[Strings(SubSeq(parts, 1, i))] ELSE Missing(kind)]

(* How much of what was read the field's length counts: an array that      *)
(* fails counts nothing, a map not the entry that failed.                  *)
Counted(kind, g) == IF g.end \in {"ok", "cut"} THEN Len(g.parts)
                    ELSE IF kind \in {"map", "structmap"} THEN Len(g.parts) - 2 ELSE 0

(* Whether the array or the map has a buffer afterwards: a struct array    *)
(* grows after its element is read, an array of oneofs is freed.           *)
Grows(kind, g) == IF g.end = "ok" \/ kind \in {"map", "structmap", "maps"} THEN g.parts # <<>>
                  ELSE kind = "structs" /\ Len(g.parts) > 1

Stored(f, old, g, tag, buf, ptrs) ==
    [buf   |-> IF Kind(f) \in InPlace THEN Null ELSE buf,
     cells |-> IF tag = "number" THEN <<Junk>>
               ELSE IF Kind(f) \in InPlace
                    THEN ptrs \o SubSeq(old.cells, Len(ptrs) + 1, Len(old.cells))
                    ELSE SubSeq(ptrs, 1, Counted(Kind(f), g)),
     tag   |-> tag,
     has   |-> old.has \/ (schema[f].nullable /\ g.end = "ok"
                                /\ ~(Kind(f) = "fixed" /\ g.parts = <<>>))]

(* json_unmarshal_T, or json_unmarshal_selected_T with a mask, is called. *)
StartParse(x, selected, masked) ==
    /\ ~Calling /\ (masked \/ x \in fresh)
    /\ masked \/ selected = Fields
    /\ op' = [call |-> "parse", dest |-> x, left |-> selected, masked |-> masked]
    /\ fresh' = fresh \ {x}
    /\ UNCHANGED <<schema, objs, live, orphans>>

(* After an error the selective function clears the object, the plain one  *)
(* leaves it to the caller.                                                *)
ParseFails(o, allocated) ==
    LET x == op.dest
    IN  IF op.masked /\ WrittenAll(o)
        THEN /\ objs' = [objs EXCEPT ![x] = Empty]
             /\ live' = allocated \ Owned(o)
             /\ Return(-1)
        ELSE /\ objs' = [objs EXCEPT ![x] = o]
             /\ live' = allocated
             /\ IF op.masked THEN op' = Undefined ELSE Return(-1)

(* The value of a field is read; a selected one is cleared before that,    *)
(* and may be given again.                                                 *)
ParseField(f) ==
    /\ op.call = "parse" /\ f \in op.left
    /\ op.masked => Written(objs[op.dest][f])
    /\ \E g \in Given(Kind(f)), tag \in {"text", "number"} :
          /\ tag = "number" => Kind(f) = "oneof" /\ Strings(g.parts) = 0
          /\ LET x == op.dest
                 old == IF op.masked THEN Reset(Kind(f), objs[x][f])
                                     ELSE [value |-> objs[x][f], freed |-> {}]
                 base == live \ old.freed
                 grown == IF Kind(f) \notin InPlace /\ Grows(Kind(f), g) THEN 1 ELSE 0
                 n == grown + Strings(g.parts)
             IN  /\ Enough(n, base)
                 /\ LET new == New(n, base)
                        ptrs == Placed(Kind(f), g.parts, SubSeq(new, grown + 1, n))
                        value == Stored(f, old.value, g, tag,
                                        IF grown = 1 THEN new[1] ELSE Null, ptrs)
                        o == [objs[x] EXCEPT ![f] = value]
                        held == base \cup Range(new)
                    IN  /\ orphans' = orphans \cup ((Freed(old.value) \cup Range(new)) \ Freed(value))
                        /\ CASE g.end = "ok" -> /\ objs' = [objs EXCEPT ![x] = o]
                                                /\ live' = held
                                                /\ op' = IF op.masked THEN op
                                                         ELSE [op EXCEPT !.left = @ \ {f}]
                             [] g.end = "odd" -> /\ objs' = [objs EXCEPT ![x] = o]
                                                 /\ live' = held
                                                 /\ Return(1)
                             [] OTHER -> ParseFails(o, held)
    /\ UNCHANGED <<schema, fresh>>

(* A null for a nullable field is only skipped. *)
ParseNull(f) ==
    /\ op.call = "parse" /\ f \in op.left /\ schema[f].nullable
    /\ op.masked => Written(objs[op.dest][f])
    /\ LET x == op.dest
           old == Reset(Kind(f), objs[x][f])
       IN  IF op.masked THEN /\ objs' = [objs EXCEPT ![x][f] = old.value]
                             /\ live' = live \ old.freed
                        ELSE UNCHANGED <<objs, live>>
    /\ op' = IF op.masked THEN op ELSE [op EXCEPT !.left = @ \ {f}]
    /\ UNCHANGED <<schema, orphans, fresh>>

(* The object's closing brace, or an error outside the fields' values. *)
EndParse(r) ==
    /\ op.call = "parse"
    /\ IF r = 0 THEN Return(0) /\ UNCHANGED <<objs, live>>
                ELSE ParseFails(objs[op.dest], live)
    /\ UNCHANGED <<schema, orphans, fresh>>
----
(* T_copy clears its destination and copies field by field. *)
StartCopy(dest, src) ==
    /\ ~Calling /\ dest # src /\ WrittenAll(objs[dest])
    /\ objs' = [objs EXCEPT ![dest] = Empty]
    /\ live' = live \ Owned(objs[dest])
    /\ op' = [call |-> "copy", dest |-> dest, src |-> src, left |-> Fields]
    /\ fresh' = fresh \ {dest}
    /\ UNCHANGED <<schema, orphans>>

(* A string copied by the allocation of that rank, if it is among the first n. *)
CopiedCell(cell, rank, n, new) ==
    IF cell \in {Null, Junk} THEN cell ELSE IF rank <= n THEN new[rank] ELSE Null

(* Mutant: the length is set after the elements are copied. *)
CopiedLengthLast(kind, v, n, new) ==
    LET buffered == kind \notin InPlace /\ v.cells # <<>>
        off == IF buffered THEN 1 ELSE 0
        rank(i) == off + Cardinality({j \in 1..i : v.cells[j] # Null})
        cell(i) == CopiedCell(v.cells[i], rank(i), n, new)
    IN  [buf   |-> IF buffered /\ n > 0 THEN new[1] ELSE Null,
         cells |-> IF buffered /\ n < rank(Len(v.cells)) THEN <<>>
                   ELSE [i \in DOMAIN v.cells |-> cell(i)],
         tag   |-> v.tag,
         has   |-> FALSE]
(* A value after the first n of the allocations its copy makes: the array  *)
(* or map first, zeroed and with its length, then the strings in order.    *)
Copied(kind, v, n, new) ==
    LET buffered == kind \notin InPlace /\ v.cells # <<>>
        rank(i) == (IF buffered THEN 1 ELSE 0)
                   + Cardinality({j \in 1..i : v.cells[j] # Null})
        cell(i) == CopiedCell(v.cells[i], rank(i), n, new)
    IN  [buf   |-> IF buffered /\ n > 0 THEN new[1] ELSE Null,
         cells |-> IF buffered /\ n = 0 THEN <<>> ELSE [i \in DOMAIN v.cells |-> cell(i)],
         tag   |-> v.tag,
         has   |-> FALSE]

Allocations(kind, v) ==
    (IF kind \notin InPlace /\ v.cells # <<>> THEN 1 ELSE 0)
    + IF v.tag = "text" THEN Strings([i \in DOMAIN v.cells |-> v.cells[i] # Null]) ELSE 0

(* An absent optional or nullable field is not copied. *)
NeverAbsent(f, v) == FALSE
Absent(f, v) == schema[f].nullable /\ ~v.has

(* One field: an absent nullable field is left cleared; when an allocation *)
(* fails the whole destination is cleared.                                 *)
CopyField(f) ==
    /\ op.call = "copy" /\ f \in op.left
    /\ LET v == objs[op.src][f]
           all == Allocations(Kind(f), v)
       IN  IF Absent(f, v)
           THEN /\ op' = [op EXCEPT !.left = @ \ {f}]
                /\ UNCHANGED <<objs, live, fresh>>
           ELSE \E n \in 0..all :
                  /\ Written(v) /\ Enough(n, live)
                  /\ LET new == New(n, live)
                         value == Copied(Kind(f), v, n, new)
                     IN  IF n = all
                         THEN /\ objs' = [objs EXCEPT ![op.dest][f] = [value EXCEPT !.has = schema[f].nullable]]
                              /\ live' = live \cup Range(new)
                              /\ op' = [op EXCEPT !.left = @ \ {f}]
                              /\ UNCHANGED fresh
                         ELSE /\ objs' = [objs EXCEPT ![op.dest] = Empty]
                              /\ live' = (live \cup Range(new))
                                             \ Owned([objs[op.dest] EXCEPT ![f] = value])
                              /\ Return(-1)
                              /\ fresh' = fresh \cup {op.dest}
    /\ UNCHANGED <<schema, orphans>>

EndCopy ==
    /\ op.call = "copy" /\ op.left = {}
    /\ Return(0)
    /\ UNCHANGED <<schema, objs, live, orphans, fresh>>

(* An object is cleared (before a move, a copy or a selective parse, too)  *)
(* or copied whose memory was not all written: nothing is known after that.*)
UseUnwritten(x) ==
    /\ \/ ~Calling /\ ~WrittenAll(objs[x])
       \/ /\ op.call = "parse" /\ op.masked /\ op.dest = x
          /\ \E f \in op.left : ~Written(objs[x][f])
       \/ /\ op.call = "copy" /\ op.src = x
          /\ \E f \in op.left : ~Absent(f, objs[x][f]) /\ ~Written(objs[x][f])
    /\ op' = Undefined
    /\ UNCHANGED <<schema, objs, live, orphans, fresh>>

Next ==
    \/ \E x \in Objects : InitObject(x) \/ Clear(x) \/ UseUnwritten(x)
    \/ \E x, y \in Objects : Move(x, y) \/ StartCopy(x, y)
    \/ \E x \in Objects, selected \in SUBSET Fields, masked \in BOOLEAN :
          StartParse(x, selected, masked)
    \/ \E f \in Fields : ParseField(f) \/ ParseNull(f) \/ CopyField(f)
    \/ \E r \in {0, -1} : EndParse(r)
    \/ EndCopy

Spec == Init /\ [][Next]_vars
----

(* Every place of every object that clearing will free: the buffer is 0.   *)
Places == {p \in Objects \X Fields \X (0..(3 * MaxLen + FixedSize)) :
              \/ p[3] = 0
              \/ /\ p[3] \in DOMAIN objs[p[1]][p[2]].cells
                 /\ objs[p[1]][p[2]].tag = "text"}
At(p) == IF p[3] = 0 THEN objs[p[1]][p[2]].buf ELSE objs[p[1]][p[2]].cells[p[3]]

(* The string of a struct that is the value of a map entry. *)
InMapValue(p) == Kind(p[2]) = "structmap" /\ p[3] # 0 /\ p[3] % 2 = 0

(* What clearing an object would free is allocated and held nowhere else:  *)
(* no block is freed twice, none used after it was freed, no number of a   *)
(* oneof is taken for a pointer, and no pointer is memory nobody wrote,    *)
(* but in the struct values of maps; whatever was parsed, copied, moved or *)
(* cleared before and wherever it failed.                                  *)
NoDangling ==
    /\ \A p \in Places : At(p) \notin {Null, Wild} => At(p) \in live \ orphans
    /\ \A p, q \in Places : p # q /\ At(p) = At(q) => At(p) \in {Null, Wild}
    /\ \A p \in Places : At(p) = Wild => InMapValue(p)
    /\ \A x \in Objects, f \in Fields :
          objs[x][f].tag = "number" <=> Junk \in Range(objs[x][f].cells)

(* Nothing leaks but what the parser itself loses hold of: every other     *)
(* block is held by an object, so clearing all objects frees it.           *)
NoLeak == live = orphans \cup UNION {Owned(objs[x]) : x \in Objects}

Alike(v, w) ==
    /\ v.tag = w.tag /\ v.has = w.has /\ Len(v.cells) = Len(w.cells)
    /\ \A i \in DOMAIN v.cells : v.cells[i] \in {Null, Junk} \/ w.cells[i] \in {Null, Junk}
                                 => v.cells[i] = w.cells[i]

(* A copy is the whole source or nothing: after result 0 every field that  *)
(* is present has the source's shape (and, with NoDangling, blocks of its  *)
(* own), after -1 the destination owns nothing.                            *)
CopyExact ==
    op.call = "done" /\ op.of.call = "copy" =>
        IF op.result = 0
        THEN \A f \in Fields : Alike(objs[op.of.dest][f],
                 IF schema[f].nullable /\ ~objs[op.of.src][f].has THEN Cleared(Kind(f))
                                                                 ELSE objs[op.of.src][f])
        ELSE objs[op.of.dest] = Empty
====
