------------------------------- MODULE HashMap -------------------------------
(***************************************************************************)
(* hash_map (src/src/utils/hash_map.c): the chained hash map that holds    *)
(* the structs, enums and oneofs of a schema and the dependency sets of    *)
(* the generators.  Everything that allocates may fail.                    *)
(***************************************************************************)
EXTENDS Integers, SequencesExt

CONSTANTS
    Key, Value,
    Hashes,         \* the hash functions, from Key to unsigned int
    BucketCounts    \* what hash_map_new is called with

ASSUME HashMapAssumption ==
    Hashes \subseteq [Key -> Nat] /\ BucketCounts \subseteq Nat \ {0}

VARIABLES
    hash,       \* map->hash_func
    buckets,    \* map->buckets: the chain of each bucket, its head first
    size,       \* map->size
    reply       \* the call last made, its code and what it stored through pointers

vars == <<hash, buckets, size, reply>>

OK == 0
DUPLICATE_KEY == 1
ERROR == -1
MEMORY == -2

Count == Cardinality(DOMAIN buckets)
Keys(chain) == {e.key : e \in ToSet(chain)}
Bucket(k) == hash[k] % Count

\* The loop that looks for a key in its chain: the place of the entry, or 0.
At(k) == SelectInSeq(buckets[Bucket(k)], LAMBDA e : e.key = k)

\* hash_map_resize_if_needed.
NeedsResize == 4 * size >= 3 * Count

\* Mutant: an entry that moves keeps its place in the chain of its old bucket.
ResizedInPlace ==
    [b \in 0 .. 2 * Count - 1 |-> IF b < Count THEN buckets[b] ELSE <<>>]

\* Each entry in turn goes to the head of its new chain; a new bucket b is filled
\* from one old bucket only, b % Count.
NewChain(b) ==
    LET old == buckets[b % Count]
        moved[n \in 0 .. Len(old)] ==
            IF n = 0 THEN <<>>
            ELSE IF hash[old[n].key] % (2 * Count) = b THEN <<old[n]>> \o moved[n - 1]
            ELSE moved[n - 1]
    IN  moved[Len(old)]

Resized == [b \in 0 .. 2 * Count - 1 |-> NewChain(b)]

Init ==
    /\ hash \in Hashes
    /\ \E n \in BucketCounts : buckets = [b \in 0 .. n - 1 |-> <<>>]
    /\ size = 0 /\ reply = [op |-> "new", code |-> OK, out |-> <<>>]

Replied(op, code, out) == reply' = [op |-> op, code |-> code, out |-> out]

-----------------------------------------------------------------------------
(***************************************************************************)
(* hash_map_insert: the table grows first, whatever becomes of the call.   *)
(***************************************************************************)
Grown == IF NeedsResize THEN Resized ELSE buckets

Linked(table, k, v) ==
    [table EXCEPT ![hash[k] % Cardinality(DOMAIN table)] = <<[key |-> k, value |-> v]>> \o @]

Known(table, k) == k \in Keys(table[hash[k] % Cardinality(DOMAIN table)])

\* Mutant: the table never grows.
InsertUngrown(k, v) ==
    /\ IF Known(buckets, k)
       THEN /\ Replied("insert", DUPLICATE_KEY, <<>>)
            /\ UNCHANGED <<buckets, size>>
       ELSE /\ buckets' = Linked(buckets, k, v) /\ size' = size + 1
            /\ Replied("insert", OK, <<>>)
    /\ UNCHANGED hash

Insert(k, v) ==
    /\ \/ /\ NeedsResize                                  \* malloc of new_buckets fails
          /\ Replied("insert", MEMORY, <<>>)
          /\ UNCHANGED <<buckets, size>>
       \/ /\ Known(Grown, k)
          /\ buckets' = Grown /\ size' = size
          /\ Replied("insert", DUPLICATE_KEY, <<>>)
       \/ /\ ~Known(Grown, k)                             \* hash_map_entry_new fails
          /\ buckets' = Grown /\ size' = size
          /\ Replied("insert", MEMORY, <<>>)
       \/ /\ ~Known(Grown, k)
          /\ buckets' = Linked(Grown, k, v) /\ size' = size + 1
          /\ Replied("insert", OK, <<>>)
    /\ UNCHANGED hash

Find(k) ==
    /\ \/ At(k) # 0 /\ Replied("find", OK, <<buckets[Bucket(k)][At(k)].value>>)
       \/ At(k) = 0 /\ Replied("find", ERROR, <<>>)
    /\ UNCHANGED <<hash, buckets, size>>

Delete(k) ==
    /\ \/ /\ At(k) # 0
          /\ buckets' = [buckets EXCEPT ![Bucket(k)] = RemoveAt(@, At(k))]
          /\ size' = size - 1
          /\ Replied("delete", OK, <<>>)
       \/ /\ At(k) = 0
          /\ Replied("delete", ERROR, <<>>)
          /\ UNCHANGED <<buckets, size>>
    /\ UNCHANGED hash

\* hash_map_for_each: the pairs in the order fn is called with them.
ForEach ==
    /\ Replied("for_each", OK, FlattenSeq([b \in 1 .. Count |-> buckets[b - 1]]))
    /\ UNCHANGED <<hash, buckets, size>>

Next ==
    \/ \E k \in Key : Find(k) \/ Delete(k) \/ \E v \in Value : Insert(k, v)
    \/ ForEach

Spec == Init /\ [][Next]_vars

-----------------------------------------------------------------------------
Links == UNION {{b} \X DOMAIN buckets[b] : b \in DOMAIN buckets}

\* size counts the entries that are linked, and the table never gets fuller than
\* hash_map_insert lets it: at most one entry past three quarters of the buckets.
LoadBounded ==
    /\ size = Cardinality(Links)
    /\ size = 0 \/ 4 * (size - 1) < 3 * Count

Contents == UNION {ToSet(buckets[b]) : b \in DOMAIN buckets}

DictOf(entries) ==
    [k \in {e.key : e \in entries} |-> (CHOOSE e \in entries : e.key = k).value]

\* What a caller makes of a reply.
Answer ==
    CASE reply.op = "new" -> <<"new">>
      [] reply.op = "insert" ->
           (CASE reply.code = OK -> <<"ok">>
              [] reply.code = DUPLICATE_KEY -> <<"duplicate">>
              [] OTHER -> <<"failed">>)
      [] reply.op = "for_each" ->
           <<"visited", [i \in DOMAIN reply.out |-> <<reply.out[i].key, reply.out[i].value>>]>>
      [] OTHER -> IF reply.code = OK THEN <<"ok">> \o reply.out ELSE <<"missing">>

Dict == INSTANCE Dictionary WITH dict <- DictOf(Contents), reply <- Answer

\* hash_map is the dictionary its header describes: growing the table, a duplicate
\* key or a failed allocation loses no pair, makes none appear and moves none out of
\* the reach of hash_map_find, hash_map_delete and hash_map_for_each.
ImplementsDictionary == Dict!Spec
=============================================================================
