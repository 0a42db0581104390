----------------------------- MODULE FieldIndex -----------------------------
(***************************************************************************)
(* The field index: the open-addressing hash table from (struct, JSON key) *)
(* to a row of json_field_offset_item.  The generator fills it once, when  *)
(* it writes the code (gen_hash_arr, src/src/gencode/gencode.c); the       *)
(* parser it generates probes it for every member of every object          *)
(* (json_field_offset_item_find_ph, src/src/gencode/codes/json_parse.c).   *)
(* Both loops probe linearly and neither counts its steps.                 *)
(***************************************************************************)
EXTENDS Integers, Sequences

CONSTANTS
    Name,       \* (struct, key) pairs, the two strings that are hashed
    Tables,     \* what the generator emits: [rows, size], see FieldTables
    Hashes      \* the hash functions, from Name to unsigned int

ASSUME IndexAssumption ==
    /\ \A t \in Tables : /\ t.size \in Nat \ {0}
                         /\ t.rows \in Seq([name : Name, kind : {"struct", "field", "len"}])
    /\ Hashes \subseteq [Name -> Nat]

VARIABLES
    rows,       \* json_field_offset_item: row number id is rows[id + 1]
    size,       \* json_entry_hash_size
    hash,       \* hash_2s
    table,      \* json_entry_hash: a row number, or Empty
    cnt,        \* param->f_cnt: rows placed so far
    at,         \* "place": generating; "idle"; "probe": a lookup is running
    slot,       \* hash_i, h: where the running loop looks next
    want,       \* what is looked up, or was last
    found       \* what the last lookup returned: a row number, or None

vars == <<rows, size, hash, table, cnt, at, slot, want, found>>

Empty == -1
None == -1      \* the parser's NULL
Slot == 0 .. size - 1

Home(n) == hash[n] % size
After(s) == IF s + 1 >= size THEN 0 ELSE s + 1
NameOf(id) == rows[id + 1].name

Init ==
    /\ \E t \in Tables : rows = t.rows /\ size = t.size
    /\ hash \in Hashes
    /\ table = [s \in Slot |-> Empty] /\ cnt = 0
    /\ at = "place" /\ want \in Name /\ found = None
    /\ slot = IF rows = <<>> THEN 0 ELSE Home(NameOf(0))

-----------------------------------------------------------------------------
(***************************************************************************)
(* gen_hash_arr, one iteration of its loop at a time, for row after row.   *)
(***************************************************************************)
Taken ==
    /\ at = "place" /\ cnt < Len(rows) /\ table[slot] # Empty
    /\ slot' = After(slot)
    /\ UNCHANGED <<rows, size, hash, table, cnt, at, want, found>>

\* Mutant: the next row goes behind this one, whatever its hash.
PlaceBehind ==
    /\ at = "place" /\ cnt < Len(rows) /\ table[slot] = Empty
    /\ table' = [table EXCEPT ![slot] = cnt] /\ cnt' = cnt + 1
    /\ slot' = After(slot)
    /\ UNCHANGED <<rows, size, hash, at, want, found>>

Place ==
    /\ at = "place" /\ cnt < Len(rows) /\ table[slot] = Empty
    /\ table' = [table EXCEPT ![slot] = cnt] /\ cnt' = cnt + 1
    /\ slot' = IF cnt + 1 < Len(rows) THEN Home(NameOf(cnt + 1)) ELSE slot
    /\ UNCHANGED <<rows, size, hash, at, want, found>>

Generated ==
    /\ at = "place" /\ cnt = Len(rows)
    /\ at' = "idle"
    /\ UNCHANGED <<rows, size, hash, table, cnt, slot, want, found>>

(***************************************************************************)
(* json_field_offset_item_find_ph.                                         *)
(***************************************************************************)
Find(n) ==
    /\ at = "idle"
    /\ at' = "probe" /\ want' = n /\ slot' = Home(n) /\ found' = None
    /\ UNCHANGED <<rows, size, hash, table, cnt>>

Miss ==
    /\ at = "probe" /\ table[slot] = Empty
    /\ at' = "idle" /\ found' = None
    /\ UNCHANGED <<rows, size, hash, table, cnt, slot, want>>

Hit ==
    /\ at = "probe" /\ table[slot] # Empty /\ NameOf(table[slot]) = want
    /\ at' = "idle" /\ found' = table[slot]
    /\ UNCHANGED <<rows, size, hash, table, cnt, slot, want>>

Advance ==
    /\ at = "probe" /\ table[slot] # Empty /\ NameOf(table[slot]) # want
    /\ slot' = After(slot)
    /\ UNCHANGED <<rows, size, hash, table, cnt, at, want, found>>

Next ==
    \/ Taken \/ Place \/ Generated
    \/ \E n \in Name : Find(n)
    \/ Miss \/ Hit \/ Advance

Spec == Init /\ [][Next]_vars

\* Both loops run on one thread without waiting for anything.
FairSpec ==
    Spec /\ WF_vars(Taken \/ Place \/ Generated) /\ WF_vars(Miss \/ Hit \/ Advance)

-----------------------------------------------------------------------------
TypeOK ==
    /\ size \in Nat \ {0} /\ rows \in Seq([name : Name, kind : {"struct", "field", "len"}])
    /\ hash \in [Name -> Nat] /\ table \in [Slot -> {Empty} \cup 0 .. cnt - 1]
    /\ cnt \in 0 .. Len(rows) /\ at \in {"place", "idle", "probe"}
    /\ slot \in Slot /\ want \in Name /\ found \in {None} \cup 0 .. Len(rows) - 1

\* The row a lookup must find: the first the generator emitted under that name.
RowsNamed(n) == {id \in 0 .. Len(rows) - 1 : NameOf(id) = n}
IsFirst(id, n) == id \in RowsNamed(n) /\ \A other \in RowsNamed(n) : id <= other

\* Whatever the hash function makes collide, json_field_offset_item_find_ph finds
\* the row of the name it is given (of two members that share a JSON key the one
\* declared first), and meets an empty slot only when there is no such row.
LookupExact ==
    /\ at = "idle" /\ found # None => IsFirst(found, want)
    /\ at = "probe" /\ table[slot] = Empty => RowsNamed(want) = {}

\* gen_hash_arr finds a free slot for every row.
GeneratorEnds == at = "place" ~> at # "place"

\* Looking a name up comes to an end, in particular for a name nobody declared.
LookupEnds == at = "probe" ~> at = "idle"
=============================================================================
