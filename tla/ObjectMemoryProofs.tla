------------------------- MODULE ObjectMemoryProofs -------------------------
(***************************************************************************)
(* Proofs about module ObjectMemory, for every set of structs, every       *)
(* number of objects and every bound of their lengths: one owner per block.*)
(* The invariant Sound speaks of a store (objects, allocated and lost      *)
(* blocks) rather than of the variables, so that a step of the code that   *)
(* resets a field, fills it and may then clear the object is proved as     *)
(* three changes of a store, one after the other.  Its last part proves    *)
(* that a copy is of all of its source or of nothing.                      *)
(***************************************************************************)
EXTENDS ObjectMemory, FunctionTheorems, FiniteSetTheorems, SequenceTheorems, TLAPS

Cells == Seq(Blocks \cup {Null, Junk, Wild})
Values == [buf : Blocks \cup {Null}, cells : Cells, tag : {"text", "number"}, has : BOOLEAN]
Slots(kind) == IF kind = "fixed" THEN FixedSize ELSE 1

\* No pointer is in two places of the value.
Apart(v) ==
    \A i \in DOMAIN v.cells :
        /\ v.cells[i] \notin {Null, Wild} => v.cells[i] # v.buf
        /\ \A j \in DOMAIN v.cells :
              i # j /\ v.cells[i] = v.cells[j] => v.cells[i] \in {Null, Junk, Wild}

\* What a field of its kind may hold.
ValueOK(kind, v) ==
    /\ v \in Values
    /\ v.tag = "text" => \A i \in DOMAIN v.cells : v.cells[i] # Junk
    /\ v.tag = "number" => kind = "oneof" /\ v.cells = <<Junk>>
    /\ \A i \in DOMAIN v.cells : v.cells[i] = Wild => kind = "structmap" /\ i % 2 = 0
    /\ kind \in InPlace => v.buf = Null /\ Len(v.cells) = Slots(kind)
    /\ Apart(v)

\* A store in which every block has one owner: objects, allocated and lost blocks.
Sound(O, L, R) ==
    /\ O \in [Objects -> [Fields -> Values]]
    /\ \A x \in Objects, f \in Fields : ValueOK(Kind(f), O[x][f])
    /\ L \subseteq Blocks /\ R \subseteq L
    /\ \A x \in Objects, f \in Fields : Freed(O[x][f]) \subseteq L \ R
    /\ \A x, y \in Objects, f, g \in Fields :
          x # y \/ f # g => Freed(O[x][f]) \cap Freed(O[y][g]) = {}
    /\ \A b \in L : b \in R \/ \E x \in Objects, f \in Fields : b \in Freed(O[x][f])

CallOK ==
    /\ op.call \in {"none", "parse", "copy", "done", "undefined"}
    /\ op.call = "parse" =>
         op \in [call : {"parse"}, dest : Objects, left : SUBSET Fields, masked : BOOLEAN]
    /\ op.call = "copy" =>
         /\ op \in [call : {"copy"}, dest : Objects, src : Objects, left : SUBSET Fields]
         /\ op.dest # op.src
         /\ \A f \in op.left : objs[op.dest][f] = Cleared(Kind(f))

IInv == schema \in Schemas /\ Sound(objs, live, orphans) /\ CallOK

-----------------------------------------------------------------------------
(***************************************************************************)
(* Blocks and values.                                                      *)
(***************************************************************************)
LEMMA KindType == ASSUME schema \in Schemas, NEW f \in Fields PROVE Kind(f) \in Kinds
BY SchemasAssumption DEF Fields, Kind

LEMMA NullJunk ==
    /\ Null \notin Blocks /\ Junk \notin Blocks /\ Wild \notin Blocks
    /\ Null # Junk /\ Null # Wild /\ Junk # Wild
BY DEF Null, Junk, Wild, Blocks

\* What clearing a value frees, place by place.
LEMMA FreedIs ==
    ASSUME NEW v \in Values, NEW b
    PROVE  b \in Freed(v) <=>
             /\ b # Null /\ b # Wild
             /\ (b = v.buf \/ (v.tag = "text" /\ \E i \in DOMAIN v.cells : b = v.cells[i]))
BY DEF Freed, Pointers, Range

LEMMA FreedBlocks ==
    ASSUME NEW kind, NEW v, ValueOK(kind, v) PROVE Freed(v) \subseteq Blocks
<1> SUFFICES ASSUME NEW b \in Freed(v) PROVE b \in Blocks  OBVIOUS
<1>1. v \in Values  BY DEF ValueOK
<1>2. CASE b = v.buf  BY <1>1, <1>2, FreedIs DEF Values
<1>3. ASSUME v.tag = "text", NEW i \in DOMAIN v.cells, b = v.cells[i] PROVE b \in Blocks
  <2>1. v.cells \in Cells  BY <1>1 DEF Values
  <2>2. v.cells[i] \in Blocks \cup {Null, Junk, Wild}  BY <2>1 DEF Cells
  <2>3. b # Null /\ b # Wild  BY <1>1, FreedIs
  <2> QED  BY <1>3, <2>2, <2>3 DEF ValueOK
<1> QED  BY <1>1, <1>2, <1>3, FreedIs

LEMMA ClearedOK ==
    ASSUME NEW kind \in Kinds
    PROVE  Cleared(kind) \in Values /\ ValueOK(kind, Cleared(kind)) /\ Freed(Cleared(kind)) = {}
<1> DEFINE n == IF kind = "fixed" THEN FixedSize ELSE IF kind \in InPlace THEN 1 ELSE 0
           c == [i \in 1..n |-> Null]
<1>1. Cleared(kind) = [buf |-> Null, cells |-> c, tag |-> "text", has |-> FALSE]  BY DEF Cleared
<1>2. n \in Nat  BY MemoryBounds
<1>3. c \in Cells /\ Len(c) = n /\ DOMAIN c = 1..n /\ \A i \in 1..n : c[i] = Null
  <2>1. c \in [1..n -> Blocks \cup {Null, Junk, Wild}]  OBVIOUS
  <2> QED  BY <1>2, <2>1 DEF Cells
<1> HIDE DEF c
<1>4. Cleared(kind) \in Values  BY <1>1, <1>3 DEF Values
<1>5. Null # Junk /\ Null # Wild  BY DEF Null, Junk, Wild
<1>6. Apart(Cleared(kind))  BY <1>1, <1>3 DEF Apart
<1>7. kind \in InPlace => n = Slots(kind)  BY DEF Slots
<1>8. ValueOK(kind, Cleared(kind))  BY <1>1, <1>3, <1>4, <1>5, <1>6, <1>7 DEF ValueOK
<1>9. Freed(Cleared(kind)) = {}  BY <1>1, <1>3, <1>4, FreedIs
<1> QED  BY <1>4, <1>8, <1>9

\* The presence flag owns nothing.
LEMMA FlagIrrelevant ==
    ASSUME NEW kind, NEW v, ValueOK(kind, v), NEW b \in BOOLEAN
    PROVE  ValueOK(kind, [v EXCEPT !.has = b]) /\ Freed([v EXCEPT !.has = b]) = Freed(v)
<1> DEFINE w == [v EXCEPT !.has = b]
<1>1. w \in Values /\ w.buf = v.buf /\ w.cells = v.cells /\ w.tag = v.tag  BY DEF ValueOK, Values
<1> HIDE DEF w
<1>2. ValueOK(kind, w)  BY <1>1 DEF ValueOK, Apart
<1>3. Freed(w) = Freed(v)  BY <1>1 DEF Freed, Pointers
<1> QED  BY <1>2, <1>3 DEF w

\* What n allocations return: n different free blocks.
LEMMA NewOK ==
    ASSUME NEW n \in Nat, NEW used, Enough(n, used)
    PROVE  /\ New(n, used) \in [1..n -> Blocks \ used]
           /\ \A i, j \in 1..n : New(n, used)[i] = New(n, used)[j] => i = j
<1>1. ASSUME NEW i \in 1..n PROVE New(n, used)[i] \in Free(i, used)
  <2>1. \E b : b \in Free(i, used)  BY DEF Enough
  <2> QED  BY <2>1 DEF New
<1>2. New(n, used) \in [1..n -> Blocks \ used]  BY <1>1 DEF New, Free
<1>3. ASSUME NEW i \in 1..n, NEW j \in 1..n, New(n, used)[i] = New(n, used)[j] PROVE i = j
  <2> DEFINE b == New(n, used)[i]
             r == Cardinality({c \in Blocks \ used : c < b})
  <2>1. r = i - 1 /\ r = j - 1  BY <1>1, <1>3 DEF Free
  <2> QED  BY <2>1
<1> QED  BY <1>2, <1>3

\* What an unchanged schema makes of a sound store in the next state.
LEMMA SoundLater ==
    ASSUME schema' = schema, Sound(objs', live', orphans') PROVE Sound(objs, live, orphans)'
<1>1. Fields' = Fields  BY DEF Fields
<1>2. \A f : Kind(f)' = Kind(f)  BY DEF Kind
<1>3. (objs \in [Objects -> [Fields -> Values]])'  BY <1>1 DEF Sound
<1>4. (\A x \in Objects, f \in Fields : ValueOK(Kind(f), objs[x][f]))'  BY <1>1, <1>2 DEF Sound
<1>5. (live \subseteq Blocks /\ orphans \subseteq live)'  BY DEF Sound
<1>6. (\A x \in Objects, f \in Fields : Freed(objs[x][f]) \subseteq live \ orphans)'
  BY <1>1 DEF Sound
<1>7. (\A x, y \in Objects, f, g \in Fields :
          x # y \/ f # g => Freed(objs[x][f]) \cap Freed(objs[y][g]) = {})'
  BY <1>1 DEF Sound
<1>8. (\A b \in live : b \in orphans \/ \E x \in Objects, f \in Fields : b \in Freed(objs[x][f]))'
  BY <1>1 DEF Sound
<1> QED  BY <1>3, <1>4, <1>5, <1>6, <1>7, <1>8 DEF Sound

-----------------------------------------------------------------------------
(***************************************************************************)
(* Changes of a store.                                                     *)
(***************************************************************************)
\* A field is given another value: D is freed, N allocated; what the new
\* value does not hold of the rest is lost.
LEMMA Replaced ==
    ASSUME NEW O, NEW L, NEW R, Sound(O, L, R), NEW x \in Objects, NEW f \in Fields,
           NEW v, ValueOK(Kind(f), v), NEW D, D \subseteq Freed(O[x][f]),
           NEW N, N \subseteq Blocks \ L, Freed(v) \subseteq (Freed(O[x][f]) \ D) \cup N
    PROVE  Sound([O EXCEPT ![x][f] = v], (L \ D) \cup N,
                 R \cup (((Freed(O[x][f]) \ D) \cup N) \ Freed(v)))
<1> DEFINE P == [O EXCEPT ![x][f] = v]
           M == (L \ D) \cup N
           Q == R \cup (((Freed(O[x][f]) \ D) \cup N) \ Freed(v))
<1>1. O \in [Objects -> [Fields -> Values]]  BY DEF Sound
<1>2. v \in Values  BY DEF ValueOK
<1>3. P \in [Objects -> [Fields -> Values]]  BY <1>1, <1>2
<1>4. P[x][f] = v  BY <1>1
<1>5. ASSUME NEW y \in Objects, NEW g \in Fields, y # x \/ g # f PROVE P[y][g] = O[y][g]
  BY <1>1, <1>5
<1> HIDE DEF P
<1>6. \A y \in Objects, g \in Fields : ValueOK(Kind(g), P[y][g])  BY <1>4, <1>5 DEF Sound
<1>7. M \subseteq Blocks /\ Q \subseteq M  BY DEF Sound
<1>8. ASSUME NEW y \in Objects, NEW g \in Fields, y # x \/ g # f
      PROVE  Freed(O[y][g]) \cap Freed(O[x][f]) = {} /\ Freed(O[y][g]) \subseteq L \ R
  BY <1>8 DEF Sound
<1>9. ASSUME NEW y \in Objects, NEW g \in Fields PROVE Freed(P[y][g]) \subseteq M \ Q
  <2>1. CASE y = x /\ g = f
    <3>1. Freed(O[x][f]) \subseteq L \ R  BY DEF Sound
    <3> QED  BY <1>4, <2>1, <3>1 DEF Sound
  <2>2. CASE y # x \/ g # f  BY <1>5, <1>8, <2>2
  <2> QED  BY <2>1, <2>2
<1>10. ASSUME NEW y \in Objects, NEW z \in Objects, NEW g \in Fields, NEW h \in Fields, y # z \/ g # h
       PROVE  Freed(P[y][g]) \cap Freed(P[z][h]) = {}
  <2>1. CASE y = x /\ g = f
    <3>1. z # x \/ h # f  BY <1>10, <2>1
    <3>2. P[z][h] = O[z][h]  BY <1>5, <3>1
    <3> QED  BY <1>4, <1>8, <2>1, <3>1, <3>2
  <2>2. CASE z = x /\ h = f
    <3>1. y # x \/ g # f  BY <1>10, <2>2
    <3>2. P[y][g] = O[y][g]  BY <1>5, <3>1
    <3> QED  BY <1>4, <1>8, <2>2, <3>1, <3>2
  <2>3. CASE (y # x \/ g # f) /\ (z # x \/ h # f)
    <3>1. P[y][g] = O[y][g] /\ P[z][h] = O[z][h]  BY <1>5, <2>3
    <3> QED  BY <1>10, <3>1 DEF Sound
  <2> QED  BY <2>1, <2>2, <2>3
<1>11. ASSUME NEW b \in M, b \notin Q PROVE \E y \in Objects, g \in Fields : b \in Freed(P[y][g])
  <2>1. CASE b \in Freed(v)  BY <1>4, <2>1
  <2>2. CASE b \notin Freed(v)
    <3>1. b \in L /\ b \notin R /\ b \notin Freed(O[x][f])  BY <1>11, <2>2
    <3>2. PICK y \in Objects, g \in Fields : b \in Freed(O[y][g])  BY <3>1 DEF Sound
    <3>3. y # x \/ g # f  BY <3>1, <3>2
    <3> QED  BY <1>5, <3>2, <3>3
  <2> QED  BY <2>1, <2>2
<1> HIDE DEF M, Q
<1>12. Sound(P, M, Q)  BY <1>3, <1>6, <1>7, <1>9, <1>10, <1>11 DEF Sound
<1> QED  BY <1>12 DEF P, M, Q

LEMMA EmptyIs ==
    ASSUME schema \in Schemas
    PROVE  /\ Empty \in [Fields -> Values]
           /\ \A f \in Fields : /\ Empty[f] = Cleared(Kind(f)) /\ ValueOK(Kind(f), Empty[f])
                                /\ Freed(Empty[f]) = {}
BY KindType, ClearedOK DEF Empty

LEMMA OwnedIs ==
    ASSUME NEW o, DOMAIN o = Fields, NEW b
    PROVE  b \in Owned(o) <=> \E f \in Fields : b \in Freed(o[f])
BY DEF Owned

\* An object that owns nothing is given values of new blocks.
LEMMA Furnished ==
    ASSUME NEW O, NEW L, NEW R, Sound(O, L, R), NEW x \in Objects, Owned(O[x]) = {},
           NEW o \in [Fields -> Values], \A f \in Fields : ValueOK(Kind(f), o[f]),
           NEW N, N \subseteq Blocks \ L, N = Owned(o),
           \A f, g \in Fields : f # g => Freed(o[f]) \cap Freed(o[g]) = {}
    PROVE  Sound([O EXCEPT ![x] = o], L \cup N, R)
<1> DEFINE P == [O EXCEPT ![x] = o]
<1>1. O \in [Objects -> [Fields -> Values]]  BY DEF Sound
<1>2. P \in [Objects -> [Fields -> Values]]  BY <1>1
<1>3. P[x] = o /\ \A y \in Objects : y # x => P[y] = O[y]  BY <1>1
<1> HIDE DEF P
<1>4. \A y \in Objects, f \in Fields : ValueOK(Kind(f), P[y][f])  BY <1>3 DEF Sound
<1>5. \A f \in Fields : Freed(o[f]) \subseteq N  BY OwnedIs
<1>6. L \cup N \subseteq Blocks /\ R \subseteq L \cup N  BY DEF Sound
<1>7. ASSUME NEW y \in Objects, NEW f \in Fields PROVE Freed(P[y][f]) \subseteq (L \cup N) \ R
  <2>1. CASE y = x  BY <1>3, <1>5, <2>1 DEF Sound
  <2>2. CASE y # x  BY <1>3, <2>2 DEF Sound
  <2> QED  BY <2>1, <2>2
<1>8. ASSUME NEW y \in Objects, y # x, NEW f \in Fields, NEW g \in Fields
      PROVE  Freed(P[y][f]) \cap Freed(o[g]) = {}
  <2>1. Freed(P[y][f]) \subseteq L  BY <1>3, <1>8 DEF Sound
  <2> QED  BY <1>5, <2>1
<1>9. ASSUME NEW y \in Objects, NEW z \in Objects, NEW f \in Fields, NEW g \in Fields, y # z \/ f # g
      PROVE  Freed(P[y][f]) \cap Freed(P[z][g]) = {}
  <2>1. CASE y = x /\ z = x  BY <1>3, <1>9, <2>1
  <2>2. CASE y = x /\ z # x  BY <1>3, <1>8, <2>2
  <2>3. CASE y # x /\ z = x  BY <1>3, <1>8, <2>3
  <2>4. CASE y # x /\ z # x
    <3>1. P[y] = O[y] /\ P[z] = O[z]  BY <1>3, <2>4
    <3> QED  BY <1>9, <3>1 DEF Sound
  <2> QED  BY <2>1, <2>2, <2>3, <2>4
<1>10. ASSUME NEW b \in L \cup N, b \notin R PROVE \E y \in Objects, f \in Fields : b \in Freed(P[y][f])
  <2>1. CASE b \in N  BY <1>3, <2>1, OwnedIs
  <2>2. CASE b \in L
    <3>1. PICK y \in Objects, f \in Fields : b \in Freed(O[y][f])  BY <1>10, <2>2 DEF Sound
    <3>2. y # x
      <4>1. DOMAIN O[x] = Fields  BY <1>1
      <4> QED  BY <3>1, <4>1, OwnedIs
    <3> QED  BY <1>3, <3>1, <3>2
  <2> QED  BY <2>1, <2>2
<1>11. Sound(P, L \cup N, R)  BY <1>2, <1>4, <1>6, <1>7, <1>9, <1>10 DEF Sound
<1> QED  BY <1>11 DEF P

\* An object is cleared.
LEMMA Emptied ==
    ASSUME schema \in Schemas, NEW O, NEW L, NEW R, Sound(O, L, R), NEW x \in Objects
    PROVE  Sound([O EXCEPT ![x] = Empty], L \ Owned(O[x]), R)
<1> DEFINE P == [O EXCEPT ![x] = Empty]
           M == L \ Owned(O[x])
<1>1. O \in [Objects -> [Fields -> Values]]  BY DEF Sound
<1>2. P \in [Objects -> [Fields -> Values]]  BY <1>1, EmptyIs
<1>3. P[x] = Empty /\ \A y \in Objects : y # x => P[y] = O[y]  BY <1>1
<1> HIDE DEF P
<1>4. \A y \in Objects, f \in Fields : ValueOK(Kind(f), P[y][f])  BY <1>3, EmptyIs DEF Sound
<1>5. ASSUME NEW b PROVE b \in Owned(O[x]) <=> \E f \in Fields : b \in Freed(O[x][f])
  <2>1. DOMAIN O[x] = Fields  BY <1>1
  <2> QED  BY <2>1, OwnedIs
<1>6. M \subseteq Blocks /\ R \subseteq M  BY <1>5 DEF Sound
<1>7. ASSUME NEW y \in Objects, NEW f \in Fields PROVE Freed(P[y][f]) \subseteq M \ R
  <2>1. CASE y = x  BY <1>3, <2>1, EmptyIs
  <2>2. CASE y # x
    <3>1. \A g \in Fields : Freed(O[y][f]) \cap Freed(O[x][g]) = {}  BY <2>2 DEF Sound
    <3>2. Freed(O[y][f]) \cap Owned(O[x]) = {}  BY <3>1, <1>5
    <3> QED  BY <1>3, <2>2, <3>2 DEF Sound
  <2> QED  BY <2>1, <2>2
<1>8. ASSUME NEW y \in Objects, NEW z \in Objects, NEW f \in Fields, NEW g \in Fields, y # z \/ f # g
      PROVE  Freed(P[y][f]) \cap Freed(P[z][g]) = {}
  <2>1. CASE y = x \/ z = x  BY <1>3, <2>1, EmptyIs
  <2>2. CASE y # x /\ z # x
    <3>1. P[y] = O[y] /\ P[z] = O[z]  BY <1>3, <2>2
    <3> QED  BY <1>8, <3>1 DEF Sound
  <2> QED  BY <2>1, <2>2
<1>9. ASSUME NEW b \in M, b \notin R PROVE \E y \in Objects, f \in Fields : b \in Freed(P[y][f])
  <2>1. PICK y \in Objects, f \in Fields : b \in Freed(O[y][f])  BY <1>9 DEF Sound
  <2>2. y # x  BY <1>9, <1>5, <2>1
  <2> QED  BY <1>3, <2>1, <2>2
<1> HIDE DEF M
<1>10. Sound(P, M, R)  BY <1>2, <1>4, <1>6, <1>7, <1>8, <1>9 DEF Sound
<1> QED  BY <1>10 DEF P, M

\* Two objects change places.
LEMMA Swapped ==
    ASSUME NEW O, NEW L, NEW R, Sound(O, L, R), NEW x \in Objects, NEW y \in Objects
    PROVE  Sound([O EXCEPT ![x] = O[y], ![y] = O[x]], L, R)
<1> DEFINE pi(z) == IF z = x THEN y ELSE IF z = y THEN x ELSE z
           P == [O EXCEPT ![x] = O[y], ![y] = O[x]]
<1>1. O \in [Objects -> [Fields -> Values]]  BY DEF Sound
<1>2. P \in [Objects -> [Fields -> Values]]  BY <1>1
<1>3. \A z \in Objects : pi(z) \in Objects /\ P[z] = O[pi(z)] /\ pi(pi(z)) = z  BY <1>1
<1>4. \A z, w \in Objects : z # w => pi(z) # pi(w)  OBVIOUS
<1> HIDE DEF P, pi
<1>5. \A z \in Objects, f \in Fields : /\ ValueOK(Kind(f), P[z][f])
                                      /\ Freed(P[z][f]) \subseteq L \ R  BY <1>3 DEF Sound
<1>6. ASSUME NEW z \in Objects, NEW w \in Objects, NEW f \in Fields, NEW g \in Fields, z # w \/ f # g
      PROVE  Freed(P[z][f]) \cap Freed(P[w][g]) = {}
  <2>1. pi(z) # pi(w) \/ f # g  BY <1>4, <1>6
  <2>2. pi(z) \in Objects /\ pi(w) \in Objects  BY <1>3
  <2>3. Freed(O[pi(z)][f]) \cap Freed(O[pi(w)][g]) = {}  BY <2>1, <2>2 DEF Sound
  <2> QED  BY <1>3, <2>3
<1>7. ASSUME NEW b \in L, b \notin R PROVE \E z \in Objects, f \in Fields : b \in Freed(P[z][f])
  <2>1. PICK z \in Objects, f \in Fields : b \in Freed(O[z][f])  BY <1>7 DEF Sound
  <2>2. pi(z) \in Objects /\ P[pi(z)] = O[z]  BY <1>3
  <2> QED  BY <2>1, <2>2
<1>8. L \subseteq Blocks /\ R \subseteq L  BY DEF Sound
<1>9. Sound(P, L, R)  BY <1>2, <1>5, <1>6, <1>7, <1>8 DEF Sound
<1> QED  BY <1>9 DEF P

-----------------------------------------------------------------------------
(***************************************************************************)
(* The allocations of a value: the strings of an array take the blocks one *)
(* after the other, so its i-th string takes the block of its rank.        *)
(***************************************************************************)
Rank(T, i) == Cardinality({j \in 1..i : j \in T})

LEMMA RankFacts ==
    ASSUME NEW m \in Nat, NEW T, T \subseteq 1..m
    PROVE  /\ IsFiniteSet(T) /\ Cardinality(T) \in 0..m
           /\ \A i \in 1..m : Rank(T, i) \in 0..Cardinality(T)
           /\ \A i \in T : Rank(T, i) \in 1..Cardinality(T)
           /\ \A i, j \in T : Rank(T, i) = Rank(T, j) => i = j
           /\ \A r \in 1..Cardinality(T) : \E i \in T : Rank(T, i) = r
<1> DEFINE Up(i) == {j \in 1..i : j \in T}
<1>1. IsFiniteSet(1..m) /\ Cardinality(1..m) = m  BY FS_Interval
<1>2. IsFiniteSet(T) /\ Cardinality(T) \in Nat /\ Cardinality(T) <= m
  <2>1. IsFiniteSet(T) /\ Cardinality(T) <= Cardinality(1..m)  BY <1>1, FS_Subset
  <2> QED  BY <1>1, <2>1, FS_CardinalityType
<1>3. ASSUME NEW i PROVE IsFiniteSet(Up(i)) /\ Cardinality(Up(i)) \in Nat /\ Cardinality(Up(i)) <= Cardinality(T)
  <2>1. Up(i) \in SUBSET T  OBVIOUS
  <2>2. IsFiniteSet(Up(i)) /\ Cardinality(Up(i)) <= Cardinality(T)  BY <1>2, <2>1, FS_Subset
  <2> QED  BY <2>2, FS_CardinalityType
<1>4. ASSUME NEW i \in T PROVE Cardinality(Up(i)) >= 1
  <2>1. i \in Up(i)  OBVIOUS
  <2>2. Cardinality(Up(i)) # 0  BY <1>3, <2>1, FS_EmptySet
  <2> QED  BY <1>3, <2>2
<1>5. ASSUME NEW i \in T, NEW j \in T, i < j PROVE Cardinality(Up(i)) < Cardinality(Up(j))
  <2>1. Up(i) \in SUBSET Up(j)  BY <1>5
  <2>2. j \in Up(j) /\ j \notin Up(i)  BY <1>5
  <2>3. Cardinality(Up(i)) <= Cardinality(Up(j)) /\ Cardinality(Up(i)) # Cardinality(Up(j))
    BY <1>3, <2>1, <2>2, FS_Subset
  <2> QED  BY <1>3, <2>3
<1>6. \A i : Rank(T, i) = Cardinality(Up(i))  BY DEF Rank
<1> HIDE DEF Up
<1>7. \A i, j \in T : Rank(T, i) = Rank(T, j) => i = j
  <2> SUFFICES ASSUME NEW i \in T, NEW j \in T, Rank(T, i) = Rank(T, j) PROVE i = j  OBVIOUS
  <2>1. i \in Int /\ j \in Int  OBVIOUS
  <2>2. Cardinality(Up(i)) = Cardinality(Up(j)) /\ Cardinality(Up(i)) \in Nat  BY <1>3, <1>6
  <2>3. ~(i < j) /\ ~(j < i)  BY <1>5, <2>2
  <2> QED  BY <2>1, <2>3
<1>8. ASSUME NEW i \in T PROVE Rank(T, i) \in 1..Cardinality(T)  BY <1>2, <1>3, <1>4, <1>6
<1>9. \A r \in 1..Cardinality(T) : \E i \in T : Rank(T, i) = r
  <2> DEFINE c == Cardinality(T)
             g == [i \in T |-> Rank(T, i)]
  <2>1. g \in [T -> 1..c]  BY <1>8
  <2>2. \A i, j \in T : g[i] = g[j] => i = j  BY <1>7
  <2>3. g \in Injection(T, 1..c)  BY <2>1, <2>2, Fun_IsInj
  <2>4. IsFiniteSet(1..c) /\ Cardinality(1..c) = c  BY <1>2, FS_Interval
  <2>5. g \in Surjection(T, 1..c)  BY <2>3, <2>4, FS_Injection
  <2>6. \A r \in 1..c : \E i \in T : g[i] = r  BY <2>5 DEF Surjection
  <2> QED  BY <2>6
<1> QED  BY <1>2, <1>3, <1>6, <1>7, <1>8, <1>9

LEMMA StringsIs ==
    ASSUME NEW parts \in Seq(BOOLEAN)
    PROVE  LET T == {i \in 1..Len(parts) : parts[i]}
           IN  /\ T \subseteq 1..Len(parts) /\ Strings(parts) = Cardinality(T)
               /\ \A i \in 1..Len(parts) : Strings(SubSeq(parts, 1, i)) = Rank(T, i)
<1> DEFINE T == {i \in 1..Len(parts) : parts[i]}
<1>1. Strings(parts) = Cardinality(T)
  <2>1. DOMAIN parts = 1..Len(parts)  OBVIOUS
  <2> QED  BY <2>1 DEF Strings
<1>2. ASSUME NEW i \in 1..Len(parts) PROVE Strings(SubSeq(parts, 1, i)) = Rank(T, i)
  <2> DEFINE s == SubSeq(parts, 1, i)
  <2>1. DOMAIN s = 1..i /\ \A j \in 1..i : s[j] = parts[j]  BY <1>2
  <2> HIDE DEF s
  <2>2. {j \in DOMAIN s : s[j]} = {j \in 1..i : j \in T}  BY <2>1
  <2>3. Strings(s) = Rank(T, i)  BY <2>2 DEF Strings, Rank
  <2> QED  BY <2>3 DEF s
<1> QED  BY <1>1, <1>2

\* Each string of what is read gets a block of its own.
LEMMA PlacedOK ==
    ASSUME NEW kind, NEW parts \in Seq(BOOLEAN), NEW new, NEW off \in Nat, NEW n, n = off + Strings(parts),
           new \in [1..n -> Blocks], \A i, j \in 1..n : new[i] = new[j] => i = j
    PROVE  LET ptrs == Placed(kind, parts, SubSeq(new, off + 1, n))
           IN  /\ ptrs \in Seq(Blocks \cup {Null, Wild}) /\ Len(ptrs) = Len(parts)
               /\ DOMAIN ptrs = 1..Len(parts)
               /\ \A i \in DOMAIN ptrs :
                     ptrs[i] \notin {Null, Wild} => \E k \in (off + 1)..n : ptrs[i] = new[k]
               /\ \A i, j \in DOMAIN ptrs : ptrs[i] = ptrs[j] /\ ptrs[i] \notin {Null, Wild} => i = j
               /\ \A i \in DOMAIN ptrs : ptrs[i] = Wild => kind = "structmap" /\ ~parts[i]
<1> DEFINE T == {i \in 1..Len(parts) : parts[i]}
           m == Len(parts)
           s == SubSeq(new, off + 1, n)
           ptrs == Placed(kind, parts, s)
<1>1. m \in Nat /\ DOMAIN parts = 1..m  OBVIOUS
<1>2. T \subseteq 1..m /\ Strings(parts) = Cardinality(T)
      /\ \A i \in 1..m : Strings(SubSeq(parts, 1, i)) = Rank(T, i)  BY StringsIs
<1>3. ASSUME NEW i \in 1..m PROVE i \in T <=> parts[i]
  <2>1. i \in 1..Len(parts)  OBVIOUS
  <2> QED  BY <2>1, Zenon
<1> HIDE DEF T, m
<1>4. Cardinality(T) \in Nat /\ \A i \in T : Rank(T, i) \in 1..Cardinality(T)
  <2>1. Cardinality(T) \in 0..m  BY <1>1, <1>2, RankFacts
  <2>2. \A i \in T : Rank(T, i) \in 1..Cardinality(T)  BY <1>1, <1>2, RankFacts
  <2> QED  BY <1>1, <2>1, <2>2
<1>5. \A i, j \in T : Rank(T, i) = Rank(T, j) => i = j  BY <1>1, <1>2, RankFacts
<1>6. \A r \in 1..Cardinality(T) : s[r] = new[off + r] /\ off + r \in (off + 1)..n /\ off + r \in 1..n
  <2>1. n = off + Cardinality(T) /\ n \in Nat  BY <1>2, <1>4
  <2>2. new \in Seq(Blocks) /\ Len(new) = n  BY <2>1
  <2> QED  BY <1>4, <2>1, <2>2
<1> HIDE DEF s
<1>7. ptrs = [i \in 1..m |-> IF i \in T THEN s[Rank(T, i)] ELSE Missing(kind)]
  <2> QED  BY <1>1, <1>2, <1>3 DEF Placed
<1> HIDE DEF ptrs
<1>8. ASSUME NEW i \in T PROVE ptrs[i] = new[off + Rank(T, i)] /\ off + Rank(T, i) \in (off + 1)..n
                              /\ off + Rank(T, i) \in 1..n /\ ptrs[i] \in Blocks
  BY <1>2, <1>4, <1>6, <1>7
<1>9. Missing(kind) \in {Null, Wild} /\ (Missing(kind) = Wild => kind = "structmap")
  BY NullJunk DEF Missing
<1>10. ptrs \in [1..m -> Blocks \cup {Null, Wild}]  BY <1>7, <1>8, <1>9
<1>11. ptrs \in Seq(Blocks \cup {Null, Wild}) /\ Len(ptrs) = m /\ DOMAIN ptrs = 1..m  BY <1>1, <1>10
<1>12. ASSUME NEW i \in 1..m, ptrs[i] \notin {Null, Wild} PROVE i \in T  BY <1>7, <1>9, <1>12
<1>13. ASSUME NEW i \in 1..m, NEW j \in 1..m, ptrs[i] = ptrs[j], ptrs[i] \notin {Null, Wild} PROVE i = j
  <2>1. i \in T /\ j \in T  BY <1>12, <1>13
  <2>2. off + Rank(T, i) = off + Rank(T, j)  BY <1>8, <1>13, <2>1
  <2>3. Rank(T, i) \in Int /\ Rank(T, j) \in Int  BY <1>4, <2>1
  <2> QED  BY <1>5, <2>1, <2>2, <2>3
<1>14. ASSUME NEW i \in 1..m, ptrs[i] \notin {Null, Wild} PROVE \E k \in (off + 1)..n : ptrs[i] = new[k]
  BY <1>8, <1>12, <1>14
<1>15. ASSUME NEW i \in 1..m, ptrs[i] = Wild PROVE kind = "structmap" /\ ~parts[i]
  <2>1. i \notin T  BY <1>8, <1>15, NullJunk
  <2>2. ptrs[i] = Missing(kind)  BY <1>7, <2>1
  <2> QED  BY <1>3, <1>9, <1>15, <2>1, <2>2
<1> QED  BY <1>11, <1>13, <1>14, <1>15 DEF ptrs, s, m

\* What a document may give for a field.
LEMMA GivenType ==
    ASSUME NEW kind \in Kinds, NEW g \in Given(kind)
    PROVE  /\ g.parts \in Seq(BOOLEAN)
           /\ kind \in InPlace => Len(g.parts) <= Slots(kind)
           /\ kind = "oneof" => Len(g.parts) = 1
           /\ kind = "structmap" => \A i \in 1..Len(g.parts) : ~g.parts[i] => i % 2 = 0
           /\ Counted(kind, g) \in 0..Len(g.parts)
<1> DEFINE seqs(n) == UNION {[1..i -> BOOLEAN] : i \in 0..n}
<1>1. ASSUME NEW n \in Nat, NEW s \in seqs(n) PROVE s \in Seq(BOOLEAN) /\ Len(s) \in 0..n
  <2>1. PICK i \in 0..n : s \in [1..i -> BOOLEAN]  OBVIOUS
  <2> HIDE DEF seqs
  <2>2. i \in Nat /\ i \in 0..n  BY <1>1
  <2>3. s \in Seq(BOOLEAN) /\ Len(s) = i  BY <2>1, <2>2
  <2> QED  BY <2>2, <2>3
<1>2. ASSUME NEW s \in [1..1 -> BOOLEAN] PROVE s \in Seq(BOOLEAN) /\ Len(s) = 1
  <2>1. 1 \in Nat  OBVIOUS
  <2>2. s \in Seq(BOOLEAN)  BY <2>1, SeqDef
  <2>3. DOMAIN s = 1..1  OBVIOUS
  <2> QED  BY <2>1, <2>2, <2>3, LenProperties
<1>3. <<FALSE>> \in Seq(BOOLEAN) /\ Len(<<FALSE>>) = 1  OBVIOUS
<1>4. /\ FixedSize \in Nat /\ FixedSize >= 1 /\ MaxLen \in Nat
      /\ 2 * MaxLen \in Nat /\ 3 * MaxLen \in Nat
  BY MemoryBounds
<1>5. CASE kind = "string"
  <2>1. g.parts \in [1..1 -> BOOLEAN] \cup {<<FALSE>>} /\ g.end \in {"ok", "bad", "odd"}  BY <1>5 DEF Given
  <2>2. g.parts \in Seq(BOOLEAN) /\ Len(g.parts) = 1  BY <1>2, <1>3, <2>1
  <2> QED  BY <1>5, <2>1, <2>2 DEF Slots, Counted
<1>6. CASE kind \in {"struct", "oneof"}
  <2>1. g.parts \in [1..1 -> BOOLEAN] /\ g.end \in {"ok", "bad"}  BY <1>6 DEF Given
  <2>2. g.parts \in Seq(BOOLEAN) /\ Len(g.parts) = 1  BY <1>2, <2>1
  <2> QED  BY <1>6, <2>1, <2>2 DEF Slots, Counted
<1>7. CASE kind = "fixed"
  <2>1. g.parts \in seqs(FixedSize) /\ g.end \in {"ok", "bad"}  BY <1>7 DEF Given
  <2> HIDE DEF seqs
  <2>2. g.parts \in Seq(BOOLEAN) /\ Len(g.parts) \in 0..FixedSize  BY <1>1, <1>4, <2>1
  <2> QED  BY <1>7, <2>1, <2>2 DEF Slots, Counted
<1>8. CASE kind \in {"strings", "structs", "oneofs"}
  <2>1. g.parts \in seqs(MaxLen) /\ g.end \in {"ok", "bad"}  BY <1>8 DEF Given
  <2> HIDE DEF seqs
  <2>2. g.parts \in Seq(BOOLEAN) /\ Len(g.parts) \in 0..MaxLen  BY <1>1, <1>4, <2>1
  <2> QED  BY <1>8, <2>1, <2>2 DEF InPlace, Counted
<1>9. CASE kind \in {"map", "structmap"}
  <2> DEFINE entries == {s \in seqs(2 * MaxLen) : /\ Len(s) % 2 = 0
                                                 /\ \A i \in DOMAIN s : i % 2 = 1 => s[i]}
  <2>1. \/ g.parts \in entries /\ g.end \in {"ok", "cut"}
        \/ g.parts \in entries /\ g.parts # <<>> /\ g.end = "bad"  BY <1>9 DEF Given
  <2>2. g.parts \in seqs(2 * MaxLen) /\ Len(g.parts) % 2 = 0  BY <2>1
  <2>8. \A i \in DOMAIN g.parts : i % 2 = 1 => g.parts[i]  BY <2>1
  <2> HIDE DEF seqs, entries
  <2> DEFINE l == Len(g.parts)
  <2>3. g.parts \in Seq(BOOLEAN) /\ l \in Nat
    <3>1. g.parts \in Seq(BOOLEAN) /\ l \in 0..(2 * MaxLen)  BY <1>1, <1>4, <2>2
    <3> QED  BY <3>1
  <2>4. ASSUME g.parts # <<>> PROVE l >= 2
    <3>1. l # 0  BY <2>3, <2>4
    <3>2. l % 2 = 0  BY <2>2
    <3> HIDE DEF l
    <3> QED  BY <2>3, <3>1, <3>2
  <2>5. l \in 0..l /\ (l >= 2 => l - 2 \in 0..l)  BY <2>3
  <2>6. /\ g.end \in {"ok", "cut"} => Counted(kind, g) = l
        /\ g.end = "bad" => Counted(kind, g) = l - 2  BY <1>9 DEF Counted
  <2>7. Counted(kind, g) \in 0..l  BY <2>1, <2>4, <2>5, <2>6
  <2>9. ASSUME NEW i \in 1..l, ~g.parts[i] PROVE i % 2 = 0
    <3>1. i \in DOMAIN g.parts /\ i \in Nat  BY <2>3
    <3>2. i % 2 # 1  BY <2>8, <2>9, <3>1
    <3> HIDE DEF l
    <3> QED  BY <3>1, <3>2
  <2> QED  BY <1>9, <2>3, <2>7, <2>9 DEF InPlace
<1>10. CASE kind = "maps"
  <2>1. g.parts \in seqs(3 * MaxLen) /\ g.end \in {"ok", "bad"}  BY <1>10 DEF Given
  <2> HIDE DEF seqs
  <2>2. g.parts \in Seq(BOOLEAN) /\ Len(g.parts) \in 0..(3 * MaxLen)  BY <1>1, <1>4, <2>1
  <2> QED  BY <1>10, <2>1, <2>2 DEF InPlace, Counted
<1> QED  BY <1>5, <1>6, <1>7, <1>8, <1>9, <1>10 DEF Kinds, InPlace

\* A value read into a field holds what the field held and what it was
\* given, each block once.
LEMMA StoredOK ==
    ASSUME schema \in Schemas, NEW f \in Fields, NEW old, ValueOK(Kind(f), old),
           NEW g \in Given(Kind(f)), NEW tag \in {"text", "number"},
           tag = "number" => Kind(f) = "oneof",
           NEW grown \in {0, 1}, grown = 1 => Kind(f) \notin InPlace,
           NEW n, n = grown + Strings(g.parts), NEW new \in [1..n -> Blocks],
           \A i, j \in 1..n : new[i] = new[j] => i = j,
           \A i \in 1..n : new[i] \notin Freed(old),
           n \in Nat
    PROVE  LET v == Stored(f, old, g, tag, IF grown = 1 THEN new[1] ELSE Null,
                           Placed(Kind(f), g.parts, SubSeq(new, grown + 1, n)))
           IN  ValueOK(Kind(f), v) /\ Freed(v) \subseteq Freed(old) \cup Range(new)
<1> DEFINE kind == Kind(f)
           ptrs == Placed(kind, g.parts, SubSeq(new, grown + 1, n))
           buf == IF grown = 1 THEN new[1] ELSE Null
           v == Stored(f, old, g, tag, buf, ptrs)
           p == Len(g.parts)
           c == Counted(kind, g)
           q == Len(old.cells)
<1>1. kind \in Kinds  BY KindType
<1>2. /\ g.parts \in Seq(BOOLEAN) /\ p \in Nat
      /\ kind \in InPlace => p <= Slots(kind)
      /\ kind = "oneof" => p = 1
      /\ kind = "structmap" => \A i \in 1..p : ~g.parts[i] => i % 2 = 0
      /\ c \in 0..p
  BY <1>1, GivenType
<1>3. grown \in Nat  OBVIOUS
<1>4. /\ ptrs \in Seq(Blocks \cup {Null, Wild}) /\ Len(ptrs) = p /\ DOMAIN ptrs = 1..p
      /\ \A i \in DOMAIN ptrs : ptrs[i] \notin {Null, Wild} => \E k \in (grown + 1)..n : ptrs[i] = new[k]
      /\ \A i, j \in DOMAIN ptrs : ptrs[i] = ptrs[j] /\ ptrs[i] \notin {Null, Wild} => i = j
      /\ \A i \in DOMAIN ptrs : ptrs[i] = Wild => kind = "structmap" /\ ~g.parts[i]
  <2> HIDE DEF p, kind
  <2>1. g.parts \in Seq(BOOLEAN) /\ Len(g.parts) = p  BY <1>2 DEF p
  <2>2. grown \in Nat /\ n = grown + Strings(g.parts)  BY <1>3
  <2>4. \A i, j \in 1..n : new[i] = new[j] => i = j  OBVIOUS
  <2>3. /\ ptrs \in Seq(Blocks \cup {Null, Wild}) /\ Len(ptrs) = Len(g.parts)
        /\ DOMAIN ptrs = 1..Len(g.parts)
        /\ \A i \in DOMAIN ptrs : ptrs[i] \notin {Null, Wild} => \E k \in (grown + 1)..n : ptrs[i] = new[k]
        /\ \A i, j \in DOMAIN ptrs : ptrs[i] = ptrs[j] /\ ptrs[i] \notin {Null, Wild} => i = j
        /\ \A i \in DOMAIN ptrs : ptrs[i] = Wild => kind = "structmap" /\ ~g.parts[i]
    BY <2>1, <2>2, <2>4, PlacedOK, Zenon
  <2> HIDE DEF ptrs
  <2> QED  BY <2>1, <2>3
<1>5. grown = 1 => 1 \in 1..n
  <2>1. Strings(g.parts) \in Nat
    <3> DEFINE T == {i \in 1..p : g.parts[i]}
    <3>1. T \subseteq 1..p /\ Strings(g.parts) = Cardinality(T)  BY <1>2, StringsIs
    <3> HIDE DEF T, p
    <3>2. Cardinality(T) \in 0..p  BY <1>2, <3>1, RankFacts
    <3> QED  BY <1>2, <3>1, <3>2
  <2> QED  BY <2>1
<1>6. buf \in Blocks \cup {Null} /\ (buf # Null => grown = 1 /\ buf = new[1] /\ 1 \in 1..n)  BY <1>5
<1>7. /\ v.buf = (IF kind \in InPlace THEN Null ELSE buf)
      /\ v.cells = (IF tag = "number" THEN <<Junk>>
                    ELSE IF kind \in InPlace THEN ptrs \o SubSeq(old.cells, p + 1, q)
                         ELSE SubSeq(ptrs, 1, c))
      /\ v.tag = tag
      /\ v.has = (old.has \/ (schema[f].nullable /\ g.end = "ok"
                                /\ ~(kind = "fixed" /\ g.parts = <<>>)))
  BY <1>4 DEF Stored
<1>8. v.has \in BOOLEAN  BY <1>7, Zenon
<1>9. v = [buf |-> v.buf, cells |-> v.cells, tag |-> v.tag, has |-> v.has]
  BY DEF Stored
<1> HIDE DEF v, ptrs, buf, p, c, q
<1>15. \A i \in DOMAIN ptrs : ptrs[i] = Wild => kind = "structmap" /\ i % 2 = 0  BY <1>2, <1>4
<1>10. ASSUME NEW i \in DOMAIN ptrs, ptrs[i] \notin {Null, Wild}
       PROVE  ptrs[i] \in Range(new) /\ ptrs[i] \in Blocks /\ ptrs[i] # buf /\ ptrs[i] \notin Freed(old)
  <2>1. PICK k \in (grown + 1)..n : ptrs[i] = new[k]  BY <1>4, <1>10
  <2>2. k \in 1..n /\ (k # 1 \/ grown = 0)  BY <1>3, <2>1
  <2>3. ptrs[i] \in Range(new) /\ ptrs[i] \in Blocks /\ ptrs[i] \notin Freed(old)  BY <2>1, <2>2 DEF Range
  <2>4. ptrs[i] # buf  BY <1>6, <1>10, <2>1, <2>2
  <2> QED  BY <2>3, <2>4
<1>11. old \in Values /\ old.cells \in Seq(Blocks \cup {Null, Junk, Wild}) /\ q \in Nat /\ DOMAIN old.cells = 1..q
  BY DEF ValueOK, Values, Cells, q
<1>12. CASE tag = "number"
  <2>1. v.cells = <<Junk>> /\ v.buf = Null /\ v.tag = "number"  BY <1>7, <1>12 DEF InPlace
  <2>2. v.cells \in Cells /\ DOMAIN v.cells = 1..1 /\ Len(v.cells) = 1  BY <2>1 DEF Cells
  <2>3. v \in Values  BY <1>8, <1>9, <2>1, <2>2 DEF Values
  <2>4. Apart(v)  BY <2>1, <2>2, NullJunk DEF Apart
  <2>5. ValueOK(kind, v)  BY <1>12, <2>1, <2>2, <2>3, <2>4, NullJunk DEF ValueOK, Slots
  <2>6. Freed(v) = {}  BY <2>1 DEF Freed, Pointers
  <2> QED  BY <2>5, <2>6 DEF v, buf, ptrs
<1>13. CASE tag = "text" /\ kind \in InPlace
  <2> DEFINE tail == SubSeq(old.cells, p + 1, q)
  <2>1. q = Slots(kind) /\ p <= q  BY <1>2, <1>13 DEF ValueOK, q
  <2>2. v.cells = ptrs \o tail /\ v.buf = Null /\ v.tag = "text"  BY <1>7, <1>13
  <2>3. tail \in Seq(Blocks \cup {Null, Junk, Wild}) /\ Len(tail) = q - p
        /\ \A i \in 1..(q - p) : tail[i] = old.cells[p + i]
    BY <1>2, <1>11, <2>1 DEF q
  <2> HIDE DEF tail
  <2>4. ptrs \in Seq(Blocks \cup {Null, Junk, Wild})  BY <1>4
  <2>5. /\ v.cells \in Seq(Blocks \cup {Null, Junk, Wild}) /\ Len(v.cells) = q /\ DOMAIN v.cells = 1..q
        /\ \A i \in 1..q : v.cells[i] = IF i <= p THEN ptrs[i] ELSE tail[i - p]
    <3>1. v.cells \in Seq(Blocks \cup {Null, Junk, Wild})  BY <2>2, <2>3, <2>4, ConcatProperties
    <3>2. Len(v.cells) = q  BY <1>2, <1>4, <1>11, <2>1, <2>2, <2>3, <2>4, ConcatProperties
    <3>3. p + (q - p) = q  BY <1>2, <1>11
    <3>4. \A i \in 1..q : v.cells[i] = IF i <= p THEN ptrs[i] ELSE tail[i - p]
      <4>1. \A i \in 1..(Len(ptrs) + Len(tail)) :
               (ptrs \o tail)[i] = IF i <= Len(ptrs) THEN ptrs[i] ELSE tail[i - Len(ptrs)]
        BY <2>3, <2>4, ConcatProperties
      <4>2. Len(ptrs) = p /\ Len(tail) = q - p  BY <1>4, <2>3
      <4> QED  BY <2>2, <3>3, <4>1, <4>2
    <3> QED  BY <3>1, <3>2, <3>4, LenProperties
  <2>6. ASSUME NEW i \in 1..q PROVE v.cells[i] = IF i <= p THEN ptrs[i] ELSE old.cells[i]
    <3>1. CASE i <= p  BY <2>5, <3>1
    <3>2. CASE ~(i <= p)
      <4>1. i - p \in 1..(q - p) /\ p + (i - p) = i  BY <1>2, <1>11, <3>2
      <4>2. tail[i - p] = old.cells[i]  BY <2>3, <4>1
      <4> QED  BY <2>5, <3>2, <4>2
    <3> QED  BY <3>1, <3>2
  <2>7. p < q => old.tag = "text"
    BY <1>2, <1>11, <2>1 DEF ValueOK, Values, Slots
  <2>8. \A i \in 1..q : i > p => old.cells[i] # Junk
                              /\ (old.cells[i] # Null => old.cells[i] \in Freed(old))
    <3>1. \A i \in 1..q : old.cells[i] # Wild  BY <1>11, <1>13 DEF ValueOK, InPlace
    <3> QED  BY <1>2, <1>11, <2>7, <3>1, FreedIs DEF ValueOK
  <2>9. \A i \in 1..p : i \in DOMAIN ptrs /\ ptrs[i] # Junk /\ ptrs[i] # Wild
    BY <1>4, <1>13, NullJunk DEF InPlace
  <2>10. \A i \in 1..q : v.cells[i] # Junk
    BY <1>2, <2>6, <2>8, <2>9
  <2>16. \A i \in 1..q : v.cells[i] # Wild
    <3>1. \A i \in 1..q : old.cells[i] # Wild  BY <1>11, <1>13 DEF ValueOK, InPlace
    <3> QED  BY <1>2, <2>6, <2>9, <3>1
  <2>11. v \in Values  BY <1>8, <1>9, <2>2, <2>5 DEF Values, Cells
  <2>12. ASSUME NEW i \in 1..q, NEW j \in 1..q, i # j, v.cells[i] = v.cells[j]
         PROVE  v.cells[i] = Null
    <3>1. CASE i <= p /\ j <= p
      <4>1. v.cells[i] = ptrs[i] /\ v.cells[j] = ptrs[j]  BY <2>6, <3>1
      <4>2. i \in DOMAIN ptrs /\ j \in DOMAIN ptrs  BY <1>2, <2>9, <3>1
      <4>3. v.cells[i] # Wild  BY <2>16
      <4> QED  BY <1>4, <2>12, <4>1, <4>2, <4>3
    <3>2. CASE i <= p /\ ~(j <= p)
      <4>1. v.cells[i] = ptrs[i] /\ i \in DOMAIN ptrs  BY <1>2, <2>6, <2>9, <3>2
      <4>2. v.cells[j] = old.cells[j] /\ j > p  BY <1>2, <2>6, <3>2
      <4> QED  BY <1>10, <2>8, <2>12, <2>16, <4>1, <4>2
    <3>3. CASE ~(i <= p) /\ j <= p
      <4>1. v.cells[j] = ptrs[j] /\ j \in DOMAIN ptrs  BY <1>2, <2>6, <2>9, <3>3
      <4>2. v.cells[i] = old.cells[i] /\ i > p  BY <1>2, <2>6, <3>3
      <4> QED  BY <1>10, <2>8, <2>12, <2>16, <4>1, <4>2
    <3>4. CASE ~(i <= p) /\ ~(j <= p)
      <4>1. v.cells[i] = old.cells[i] /\ v.cells[j] = old.cells[j] /\ i > p  BY <1>2, <2>6, <3>4
      <4>2. old.cells[i] \in {Null, Junk, Wild}  BY <1>11, <2>12, <4>1 DEF ValueOK, Apart
      <4> QED  BY <2>8, <2>16, <4>1, <4>2
    <3> QED  BY <3>1, <3>2, <3>3, <3>4
  <2>13. Apart(v)  BY <2>2, <2>5, <2>12 DEF Apart
  <2>14. ValueOK(kind, v)  BY <1>13, <2>1, <2>2, <2>5, <2>10, <2>11, <2>13, <2>16 DEF ValueOK
  <2>15. Freed(v) \subseteq Freed(old) \cup Range(new)
    <3> SUFFICES ASSUME NEW b \in Freed(v) PROVE b \in Freed(old) \cup Range(new)  OBVIOUS
    <3>1. PICK i \in 1..q : b = v.cells[i] /\ b # Null /\ b # Wild  BY <2>2, <2>5, <2>11, FreedIs
    <3>2. CASE i <= p
      <4>1. i \in DOMAIN ptrs /\ b = ptrs[i]  BY <1>2, <2>6, <2>9, <3>1, <3>2
      <4> QED  BY <1>10, <3>1, <4>1
    <3>3. CASE ~(i <= p)
      <4>1. b = old.cells[i] /\ i > p  BY <1>2, <2>6, <3>1, <3>3
      <4> QED  BY <2>8, <3>1, <4>1
    <3> QED  BY <3>2, <3>3
  <2> QED  BY <2>14, <2>15 DEF v, buf, ptrs
<1>14. CASE tag = "text" /\ kind \notin InPlace
  <2>1. v.cells = SubSeq(ptrs, 1, c) /\ v.buf = buf /\ v.tag = "text"  BY <1>7, <1>14
  <2>2. /\ v.cells \in Seq(Blocks \cup {Null, Wild}) /\ DOMAIN v.cells = 1..c
        /\ \A i \in 1..c : v.cells[i] = ptrs[i] /\ i \in DOMAIN ptrs
    BY <1>2, <1>4, <2>1
  <2>3. v.cells \in Cells  BY <2>2 DEF Cells
  <2>4. v \in Values  BY <1>6, <1>8, <1>9, <2>1, <2>3 DEF Values
  <2>5. \A i \in 1..c : v.cells[i] # Junk  BY <1>4, <2>2, NullJunk
  <2>6. Apart(v)  BY <1>4, <1>10, <2>1, <2>2 DEF Apart
  <2>7. ValueOK(kind, v)  BY <1>14, <1>15, <2>1, <2>2, <2>4, <2>5, <2>6 DEF ValueOK
  <2>8. Freed(v) \subseteq Range(new)
    <3> SUFFICES ASSUME NEW b \in Freed(v) PROVE b \in Range(new)  OBVIOUS
    <3>0. b # Null /\ b # Wild /\ (b = v.buf \/ \E i \in DOMAIN v.cells : b = v.cells[i])  BY <2>4, FreedIs
    <3>1. b # Null /\ b # Wild /\ (b = buf \/ \E i \in 1..c : b = v.cells[i])  BY <2>1, <2>2, <3>0
    <3>2. CASE b = buf  BY <1>6, <3>1, <3>2 DEF Range
    <3>3. CASE \E i \in 1..c : b = v.cells[i]  BY <1>10, <2>2, <3>1, <3>3
    <3> QED  BY <3>1, <3>2, <3>3
  <2> QED  BY <2>7, <2>8 DEF v, buf, ptrs
<1> QED  BY <1>12, <1>13, <1>14

\* A value all of which was written.
LEMMA WrittenIs ==
    ASSUME NEW kind, NEW v, ValueOK(kind, v), Written(v)
    PROVE  \A i \in 1..Len(v.cells) : v.cells[i] # Wild
<1>1. v \in Values /\ DOMAIN v.cells = 1..Len(v.cells)  BY DEF ValueOK, Values, Cells
<1>2. CASE v.tag = "text"  BY <1>1, <1>2 DEF Written, Pointers, Range
<1>3. CASE v.tag = "number"  BY <1>1, <1>3 DEF ValueOK
<1> QED  BY <1>1, <1>2, <1>3 DEF Values

\* A copy made with the first n of its allocations holds these n blocks.
LEMMA CopiedOK ==
    ASSUME NEW kind \in Kinds, NEW v, ValueOK(kind, v), Written(v), NEW n \in 0..Allocations(kind, v),
           NEW new \in [1..n -> Blocks], \A i, j \in 1..n : new[i] = new[j] => i = j
    PROVE  /\ ValueOK(kind, Copied(kind, v, n, new))
           /\ Freed(Copied(kind, v, n, new)) = Range(new)
<1> DEFINE w == Copied(kind, v, n, new)
           q == Len(v.cells)
           T == {i \in 1..q : v.cells[i] # Null}
           buffered == kind \notin InPlace /\ v.cells # <<>>
           off == IF buffered THEN 1 ELSE 0
           rank(i) == off + Cardinality({j \in 1..i : v.cells[j] # Null})
           parts == [i \in DOMAIN v.cells |-> v.cells[i] # Null]
<1>1. v \in Values /\ v.cells \in Cells /\ q \in Nat /\ DOMAIN v.cells = 1..q
  BY DEF ValueOK, Values, Cells
<1>14. \A i \in 1..q : v.cells[i] # Wild  BY <1>1, WrittenIs
<1>2. T \subseteq 1..q /\ \A i \in 1..q : i \in T <=> v.cells[i] # Null  OBVIOUS
<1>3. \A i \in 1..q : rank(i) = off + Rank(T, i)
  <2> SUFFICES ASSUME NEW i \in 1..q PROVE rank(i) = off + Rank(T, i)  OBVIOUS
  <2>1. {j \in 1..i : v.cells[j] # Null} = {j \in 1..i : j \in T}  BY <1>1
  <2> QED  BY <2>1 DEF Rank
<1>4. /\ w.buf = (IF buffered /\ n > 0 THEN new[1] ELSE Null)
      /\ w.cells = (IF buffered /\ n = 0 THEN <<>>
                    ELSE [i \in 1..q |-> CopiedCell(v.cells[i], rank(i), n, new)])
      /\ w.tag = v.tag /\ w.has = FALSE
      /\ w = [buf |-> w.buf, cells |-> w.cells, tag |-> w.tag, has |-> w.has]
  BY <1>1 DEF Copied
<1>5. Allocations(kind, v) = off + (IF v.tag = "text" THEN Cardinality(T) ELSE 0)
  <2>1. {i \in DOMAIN parts : parts[i]} = T  BY <1>1
  <2>2. Strings(parts) = Cardinality(T)  BY <2>1 DEF Strings
  <2> QED  BY <2>2 DEF Allocations
<1>6. buffered <=> kind \notin InPlace /\ q # 0
  <2>1. v.cells = <<>> <=> q = 0  BY <1>1 DEF Cells
  <2> QED  BY <2>1
<1> HIDE DEF w, q, T, rank, buffered
<1>7. Cardinality(T) \in Nat /\ \A i \in T : Rank(T, i) \in 1..Cardinality(T)
  <2>1. Cardinality(T) \in 0..q /\ \A i \in T : Rank(T, i) \in 1..Cardinality(T)  BY <1>1, <1>2, RankFacts
  <2> QED  BY <1>1, <2>1
<1>8. \A i, j \in T : Rank(T, i) = Rank(T, j) => i = j  BY <1>1, <1>2, RankFacts
<1>9. \A r \in 1..Cardinality(T) : \E i \in T : Rank(T, i) = r  BY <1>1, <1>2, RankFacts
<1>10. n \in Nat /\ n <= Allocations(kind, v)  BY <1>5, <1>7
<1>11. CASE v.tag = "number"
  <2>1. kind = "oneof" /\ v.cells = <<Junk>> /\ v.buf = Null  BY <1>11 DEF ValueOK, InPlace
  <2>2. ~buffered /\ n = 0 /\ q = 1  BY <1>5, <1>6, <1>10, <1>11, <2>1 DEF InPlace, q
  <2>3. w.buf = Null /\ w.tag = "number" /\ w.cells = [i \in 1..1 |-> CopiedCell(v.cells[i], rank(i), n, new)]
    BY <1>4, <1>11, <2>2
  <2>4. CopiedCell(v.cells[1], rank(1), n, new) = Junk  BY <2>1 DEF CopiedCell
  <2>5. w.cells = <<Junk>>
    <3>1. w.cells = [i \in 1..1 |-> Junk]  BY <2>3, <2>4
    <3> QED  BY <3>1
  <2>6. w.cells \in Cells /\ Len(w.cells) = 1 /\ DOMAIN w.cells = 1..1  BY <2>5 DEF Cells
  <2>7. w \in Values  BY <1>4, <2>3, <2>6 DEF Values
  <2>8. Apart(w)  BY <2>3, <2>5, <2>6, NullJunk DEF Apart
  <2>9. ValueOK(kind, w)  BY <2>1, <2>3, <2>5, <2>6, <2>7, <2>8 DEF ValueOK, Slots
  <2>10. Freed(w) = {} /\ Range(new) = {}
    <3>1. 1..n = {}  BY <2>2
    <3> QED  BY <2>3, <3>1 DEF Freed, Pointers, Range
  <2> QED  BY <2>9, <2>10 DEF w
<1>12. CASE v.tag = "text" /\ buffered /\ n = 0
  <2>1. w.buf = Null /\ w.cells = <<>> /\ w.tag = "text"  BY <1>4, <1>12
  <2>2. w.cells \in Cells /\ DOMAIN w.cells = {}  BY <2>1 DEF Cells
  <2>3. w \in Values  BY <1>4, <2>1, <2>2 DEF Values
  <2>4. ValueOK(kind, w)  BY <1>6, <1>12, <2>1, <2>2, <2>3 DEF ValueOK, Apart
  <2>5. Freed(w) = {}  BY <2>1, <2>2 DEF Freed, Pointers, Range
  <2>6. Range(new) = {}  BY <1>12 DEF Range
  <2> QED  BY <2>4, <2>5, <2>6 DEF w
<1>13. CASE v.tag = "text" /\ ~(buffered /\ n = 0)
  <2>1. n <= off + Cardinality(T) /\ off \in {0, 1}  BY <1>5, <1>10, <1>13
  <2>2. w.cells = [i \in 1..q |-> CopiedCell(v.cells[i], rank(i), n, new)] /\ w.tag = "text"
    BY <1>4, <1>13
  <2>3. /\ buffered => w.buf = new[1] /\ off = 1 /\ 1 \in 1..n
        /\ ~buffered => w.buf = Null /\ off = 0  BY <1>4, <1>10, <1>13
  <2> HIDE DEF off
  <2>4. ASSUME NEW i \in 1..q
        PROVE  \/ w.cells[i] = Null
               \/ /\ i \in T /\ off + Rank(T, i) \in 1..n
                  /\ w.cells[i] = new[off + Rank(T, i)] /\ w.cells[i] \in Blocks
    <3>1. v.cells[i] # Junk  BY <1>1, <1>13 DEF ValueOK
    <3>2. w.cells[i] = CopiedCell(v.cells[i], off + Rank(T, i), n, new)  BY <1>3, <2>2
    <3>3. CASE v.cells[i] = Null  BY <3>2, <3>3 DEF CopiedCell
    <3>4. CASE v.cells[i] # Null
      <4>1. i \in T /\ Rank(T, i) \in 1..Cardinality(T)  BY <1>2, <1>7, <3>4
      <4>2. w.cells[i] = IF off + Rank(T, i) <= n THEN new[off + Rank(T, i)] ELSE Null
        BY <3>1, <3>2, <3>4 DEF CopiedCell
      <4>3. CASE off + Rank(T, i) <= n
        <5>1. off + Rank(T, i) \in 1..n  BY <1>7, <1>10, <2>1, <4>1, <4>3
        <5> QED  BY <4>1, <4>2, <4>3, <5>1
      <4>4. CASE ~(off + Rank(T, i) <= n)  BY <4>2, <4>4
      <4> QED  BY <4>3, <4>4
    <3> QED  BY <3>3, <3>4
  <2>5. ASSUME NEW k \in 1..n
        PROVE  (buffered /\ new[k] = w.buf) \/ \E i \in 1..q : w.cells[i] = new[k]
    <3>1. CASE buffered /\ k = 1  BY <2>3, <3>1
    <3>2. CASE ~(buffered /\ k = 1)
      <4>1. k - off \in 1..Cardinality(T)  BY <1>7, <1>10, <2>1, <2>3, <3>2
      <4>2. PICK i \in T : Rank(T, i) = k - off  BY <1>9, <4>1
      <4>3. i \in 1..q /\ v.cells[i] # Null /\ off + Rank(T, i) = k  BY <1>2, <2>1, <4>2
      <4>4. v.cells[i] # Junk  BY <1>1, <1>13, <4>3 DEF ValueOK
      <4>5. w.cells[i] = CopiedCell(v.cells[i], k, n, new)  BY <1>3, <2>2, <4>3
      <4>6. w.cells[i] = new[k]  BY <1>10, <4>3, <4>4, <4>5 DEF CopiedCell
      <4> QED  BY <4>3, <4>6
    <3> QED  BY <3>1, <3>2
  <2>6. w.cells \in Cells /\ Len(w.cells) = q /\ DOMAIN w.cells = 1..q
    <3>1. w.cells \in [1..q -> Blocks \cup {Null, Junk, Wild}]  BY <2>2, <2>4
    <3> QED  BY <1>1, <3>1 DEF Cells
  <2>7. w.buf \in Blocks \cup {Null}  BY <2>3
  <2>8. w \in Values  BY <1>4, <2>2, <2>6, <2>7 DEF Values
  <2>9. \A i \in 1..q : w.cells[i] # Junk /\ w.cells[i] # Wild  BY <2>4, NullJunk
  <2>10. ASSUME NEW i \in 1..q, w.cells[i] # Null PROVE w.cells[i] # w.buf
    <3>1. i \in T /\ off + Rank(T, i) \in 1..n /\ w.cells[i] = new[off + Rank(T, i)]  BY <2>4, <2>10
    <3>2. CASE buffered
      <4>1. off + Rank(T, i) # 1  BY <1>7, <2>3, <3>1, <3>2
      <4> QED  BY <2>3, <3>1, <3>2, <4>1
    <3>3. CASE ~buffered  BY <2>3, <2>10, <3>3
    <3> QED  BY <3>2, <3>3
  <2>11. ASSUME NEW i \in 1..q, NEW j \in 1..q, i # j, w.cells[i] = w.cells[j] PROVE w.cells[i] = Null
    <3> SUFFICES ASSUME w.cells[i] # Null PROVE FALSE  OBVIOUS
    <3>1. i \in T /\ off + Rank(T, i) \in 1..n /\ w.cells[i] = new[off + Rank(T, i)]  BY <2>4
    <3>2. j \in T /\ off + Rank(T, j) \in 1..n /\ w.cells[j] = new[off + Rank(T, j)]  BY <2>4, <2>11
    <3>3. off + Rank(T, i) = off + Rank(T, j)  BY <2>11, <3>1, <3>2
    <3>4. Rank(T, i) \in Int /\ Rank(T, j) \in Int /\ off \in Int  BY <1>7, <2>1, <3>1, <3>2
    <3> QED  BY <1>8, <2>11, <3>1, <3>2, <3>3, <3>4
  <2>12. Apart(w)  BY <2>6, <2>10, <2>11 DEF Apart
  <2>13. kind \in InPlace => w.buf = Null /\ q = Slots(kind)  BY <1>6, <2>3 DEF ValueOK, q
  <2>14. ValueOK(kind, w)  BY <2>2, <2>6, <2>8, <2>9, <2>12, <2>13 DEF ValueOK
  <2>15. Freed(w) = Range(new)
    <3>1. ASSUME NEW b \in Freed(w) PROVE b \in Range(new)
      <4>1. b # Null /\ b # Wild /\ (b = w.buf \/ \E i \in DOMAIN w.cells : b = w.cells[i])  BY <2>8, <3>1, FreedIs
      <4>2. CASE b = w.buf  BY <2>3, <4>1, <4>2 DEF Range
      <4>3. CASE \E i \in 1..q : b = w.cells[i]  BY <2>4, <4>1, <4>3 DEF Range
      <4> QED  BY <2>6, <4>1, <4>2, <4>3
    <3>2. ASSUME NEW k \in 1..n PROVE new[k] \in Freed(w)
      <4>1. new[k] \in Blocks /\ new[k] # Null /\ new[k] # Wild  BY NullJunk
      <4> QED  BY <2>2, <2>5, <2>6, <2>8, <4>1, FreedIs
    <3> QED  BY <3>1, <3>2 DEF Range
  <2> QED  BY <2>14, <2>15 DEF w
<1> QED  BY <1>1, <1>11, <1>12, <1>13 DEF Values

-----------------------------------------------------------------------------
(***************************************************************************)
(* The actions.                                                            *)
(***************************************************************************)
LEMMA StepInv ==
    ASSUME IInv, schema' = schema, Sound(objs', live', orphans'),
           op'.call \in {"none", "done", "undefined"}
    PROVE  IInv'
<1>1. (schema \in Schemas)'  BY DEF IInv
<1>2. Sound(objs, live, orphans)'  BY SoundLater
<1>3. CallOK'  BY DEF CallOK
<1> QED  BY <1>1, <1>2, <1>3 DEF IInv

LEMMA InitInv == Init => IInv
<1> SUFFICES ASSUME Init PROVE IInv  OBVIOUS
<1>1. schema \in Schemas  BY DEF Init
<1>2. objs = [x \in Objects |-> Empty] /\ live = {} /\ orphans = {}  BY DEF Init
<1>3. objs \in [Objects -> [Fields -> Values]]  BY <1>1, <1>2, EmptyIs
<1>4. \A x \in Objects, f \in Fields : ValueOK(Kind(f), objs[x][f]) /\ Freed(objs[x][f]) = {}
  BY <1>1, <1>2, EmptyIs
<1>5. Sound(objs, live, orphans)  BY <1>2, <1>3, <1>4 DEF Sound
<1>6. CallOK  BY DEF Init, Idle, CallOK
<1> QED  BY <1>1, <1>5, <1>6 DEF IInv

LEMMA ClearStep == ASSUME IInv, NEW x \in Objects, Clear(x) PROVE IInv'
<1>1. schema' = schema /\ orphans' = orphans /\ op'.call = "none"  BY DEF Clear, Idle
<1>2. objs' = [objs EXCEPT ![x] = Empty] /\ live' = live \ Owned(objs[x])  BY DEF Clear
<1>3. Sound(objs', live', orphans')  BY <1>1, <1>2, Emptied DEF IInv
<1> QED  BY <1>1, <1>3, StepInv

LEMMA MoveStep == ASSUME IInv, NEW x \in Objects, NEW y \in Objects, Move(x, y) PROVE IInv'
<1> DEFINE E == [objs EXCEPT ![x] = Empty]
<1>1. schema' = schema /\ orphans' = orphans /\ op'.call = "none" /\ x # y  BY DEF Move, Idle
<1>2. objs' = [objs EXCEPT ![x] = objs[y], ![y] = Empty] /\ live' = live \ Owned(objs[x])  BY DEF Move
<1>3. Sound(E, live', orphans')  BY <1>1, <1>2, Emptied DEF IInv
<1>4. Sound([E EXCEPT ![x] = E[y], ![y] = E[x]], live', orphans')
  <2> HIDE DEF E
  <2> QED  BY <1>3, Swapped
<1>5. [E EXCEPT ![x] = E[y], ![y] = E[x]] = objs'
  <2>1. objs \in [Objects -> [Fields -> Values]]  BY DEF IInv, Sound
  <2> QED  BY <1>1, <1>2, <2>1
<1>6. Sound(objs', live', orphans')  BY <1>4, <1>5
<1> QED  BY <1>1, <1>6, StepInv

\* The default strings of an initialised object, one block each.
LEMMA InitObjectStep == ASSUME IInv, NEW x \in Objects, InitObject(x) PROVE IInv'
<1> DEFINE D == {f \in Fields : schema[f].default}
           d == SetToSeq(D)
           k == Cardinality(D)
           new == New(Len(d), live)
           at(f) == CHOOSE i \in DOMAIN d : d[i] = f
           value(f) == IF schema[f].default
                       THEN [Cleared("string") EXCEPT !.cells = <<new[at(f)]>>]
                       ELSE Cleared(Kind(f))
           o == [f \in Fields |-> value(f)]
<1>1. /\ schema' = schema /\ orphans' = orphans /\ op'.call = "none"
      /\ Owned(objs[x]) = {} /\ Enough(Len(d), live)
      /\ objs' = [objs EXCEPT ![x] = o] /\ live' = live \cup Range(new)
  BY DEF InitObject, Idle
<1>2. schema \in Schemas /\ Sound(objs, live, orphans)  BY DEF IInv
<1>3. IsFiniteSet(D) /\ k \in Nat /\ \A f \in D : Kind(f) = "string" /\ f \in Fields
  <2>1. IsFiniteSet(Fields)  BY <1>2, SchemasAssumption DEF Fields
  <2>2. IsFiniteSet(D)  BY <2>1, FS_Subset
  <2>3. \A f \in D : Kind(f) = "string"  BY <1>2, SchemasAssumption DEF Fields, Kind
  <2> QED  BY <2>2, <2>3, FS_CardinalityType
<1>4. \A f \in Fields : f \in D <=> schema[f].default  OBVIOUS
<1> HIDE DEF D
<1>5. d \in [1..k -> D] /\ \A i, j \in 1..k : d[i] = d[j] => i = j
  <2>1. ExistsBijection(1..k, D)  BY <1>3, FS_CardinalityType
  <2>2. PICK b : b \in Bijection(1..k, D)  BY <2>1 DEF ExistsBijection
  <2>3. b \in [1..k -> D] /\ IsInjective(b)
    <3>1. b \in [1..k -> D] /\ \A i, j \in 1..k : b[i] = b[j] => i = j  BY <2>2, Fun_BijectionProperties
    <3> QED  BY <3>1 DEF IsInjective
  <2>4. d \in [1..k -> D] /\ IsInjective(d)  BY <2>3 DEF SetToSeq
  <2> QED  BY <2>4 DEF IsInjective
<1>6. Len(d) = k /\ DOMAIN d = 1..k
  <2>1. d \in Seq(D)  BY <1>3, <1>5
  <2> QED  BY <1>3, <1>5, <2>1
<1>7. \A f \in D : \E i \in 1..k : d[i] = f
  <2>1. d \in Injection(1..k, D)  BY <1>5, Fun_IsInj
  <2>2. Cardinality(1..k) = k  BY <1>3, FS_Interval
  <2>3. d \in Surjection(1..k, D)  BY <1>3, <2>1, <2>2, FS_Injection
  <2> QED  BY <2>3 DEF Surjection
<1> HIDE DEF d, k
<1>8. new \in [1..k -> Blocks \ live] /\ \A i, j \in 1..k : new[i] = new[j] => i = j
  BY <1>1, <1>3, <1>6, NewOK
<1> HIDE DEF new
<1>9. ASSUME NEW f \in D PROVE at(f) \in 1..k /\ d[at(f)] = f
  BY <1>6, <1>7
<1>10. \A i \in 1..k : d[i] \in D /\ at(d[i]) = i  BY <1>5, <1>9
<1> HIDE DEF at
<1>11. ASSUME NEW f \in D
       PROVE  ValueOK("string", value(f)) /\ Freed(value(f)) = {new[at(f)]}
  <2> DEFINE b == new[at(f)]
  <2>1. b \in Blocks /\ b # Null /\ b # Junk /\ b # Wild  BY <1>8, <1>9, NullJunk
  <2>2. value(f) = [buf |-> Null, cells |-> <<b>>, tag |-> "text", has |-> FALSE]
    BY <1>3, <1>4 DEF Cleared
  <2> HIDE DEF value, b
  <2>3. <<b>> \in Cells /\ Len(<<b>>) = 1 /\ DOMAIN <<b>> = 1..1  BY <2>1 DEF Cells
  <2>4. value(f) \in Values  BY <2>2, <2>3 DEF Values
  <2>5. Apart(value(f))  BY <2>1, <2>2, <2>3 DEF Apart
  <2>6. ValueOK("string", value(f))  BY <2>1, <2>2, <2>3, <2>4, <2>5 DEF ValueOK, Slots
  <2>7. Freed(value(f)) = {b}  BY <2>1, <2>2, <2>3, <2>4, FreedIs
  <2> QED  BY <2>6, <2>7 DEF b
<1>12. ASSUME NEW f \in Fields, f \notin D PROVE ValueOK(Kind(f), value(f)) /\ Freed(value(f)) = {}
  BY <1>2, <1>4, <1>12, KindType, ClearedOK
<1> HIDE DEF value
<1>13. \A f \in Fields : ValueOK(Kind(f), o[f])  BY <1>3, <1>11, <1>12
<1>14. o \in [Fields -> Values]  BY <1>13 DEF ValueOK
<1>15. Owned(o) = Range(new)
  <2>1. ASSUME NEW b \in Owned(o) PROVE b \in Range(new)
    <3>1. PICK f \in Fields : b \in Freed(o[f])  BY <2>1, OwnedIs
    <3>2. f \in D /\ b = new[at(f)]  BY <1>11, <1>12, <3>1
    <3> QED  BY <1>8, <1>9, <3>2 DEF Range
  <2>2. ASSUME NEW i \in 1..k PROVE new[i] \in Owned(o)
    <3>1. new[i] \in Freed(o[d[i]]) /\ d[i] \in Fields  BY <1>3, <1>10, <1>11
    <3> QED  BY <3>1, OwnedIs
  <2> QED  BY <1>8, <2>1, <2>2 DEF Range
<1>16. ASSUME NEW f \in Fields, NEW g \in Fields, f # g PROVE Freed(o[f]) \cap Freed(o[g]) = {}
  <2>1. CASE f \in D /\ g \in D
    <3>1. Freed(o[f]) = {new[at(f)]} /\ Freed(o[g]) = {new[at(g)]}  BY <1>11, <2>1
    <3>2. at(f) # at(g)  BY <1>9, <1>16, <2>1
    <3>3. new[at(f)] # new[at(g)]  BY <1>8, <1>9, <2>1, <3>2
    <3> QED  BY <3>1, <3>3
  <2>2. CASE f \notin D \/ g \notin D  BY <1>12, <2>2
  <2> QED  BY <2>1, <2>2
<1>17. Range(new) \subseteq Blocks \ live  BY <1>8 DEF Range
<1> HIDE DEF o
<1>18. Sound([objs EXCEPT ![x] = o], live \cup Range(new), orphans)
  BY <1>1, <1>2, <1>13, <1>14, <1>15, <1>16, <1>17, Furnished
<1> QED  BY <1>1, <1>18, StepInv

LEMMA StartParseStep ==
    ASSUME IInv, NEW x \in Objects, NEW selected \in SUBSET Fields, NEW masked \in BOOLEAN,
           StartParse(x, selected, masked)
    PROVE  IInv'
<1>1. /\ schema' = schema /\ objs' = objs /\ live' = live /\ orphans' = orphans
      /\ op' = [call |-> "parse", dest |-> x, left |-> selected, masked |-> masked]
  BY DEF StartParse
<1>2. schema' \in Schemas  BY <1>1 DEF IInv
<1>3. Sound(objs, live, orphans)'  BY <1>1, SoundLater DEF IInv
<1>4. CallOK'  BY <1>1 DEF CallOK, Fields
<1> QED  BY <1>2, <1>3, <1>4 DEF IInv

\* The parser goes on with its object, or with fewer fields to read.
LEMMA ParseGoesOn ==
    ASSUME IInv, op.call = "parse", schema' = schema, Sound(objs', live', orphans'),
           NEW f \in Fields, op' = op \/ op' = [op EXCEPT !.left = @ \ {f}]
    PROVE  IInv'
<1>1. op \in [call : {"parse"}, dest : Objects, left : SUBSET Fields, masked : BOOLEAN]
  BY DEF IInv, CallOK
<1>2. op' \in [call : {"parse"}, dest : Objects, left : SUBSET Fields, masked : BOOLEAN]
  BY <1>1
<1>3. op'.call = "parse"  BY <1>2
<1>4. schema' \in Schemas  BY DEF IInv
<1>5. Sound(objs, live, orphans)'  BY SoundLater
<1>6. CallOK'  BY <1>2, <1>3 DEF CallOK, Fields
<1> QED  BY <1>4, <1>5, <1>6 DEF IInv

LEMMA ParsingType ==
    ASSUME IInv, op.call = "parse"
    PROVE  op.dest \in Objects /\ op.masked \in BOOLEAN /\ op.left \subseteq Fields
BY DEF IInv, CallOK

\* A selected field is cleared before it is read.
LEMMA ResetOK ==
    ASSUME IInv, NEW x \in Objects, NEW f \in Fields
    PROVE  Sound([objs EXCEPT ![x][f] = Reset(Kind(f), objs[x][f]).value],
                 live \ Reset(Kind(f), objs[x][f]).freed, orphans)
<1> DEFINE c == Cleared(Kind(f))
           D == Freed(objs[x][f])
<1>1. Reset(Kind(f), objs[x][f]).value = c /\ Reset(Kind(f), objs[x][f]).freed = D  BY DEF Reset
<1>2. ValueOK(Kind(f), c) /\ Freed(c) = {}  BY KindType, ClearedOK DEF IInv
<1> HIDE DEF c
<1>3. Sound([objs EXCEPT ![x][f] = c], (live \ D) \cup {},
            orphans \cup (((D \ D) \cup {}) \ Freed(c)))
  <2>1. Freed(c) \subseteq (D \ D) \cup {} /\ {} \subseteq Blocks \ live /\ D \subseteq D  BY <1>2
  <2>2. Sound(objs, live, orphans)  BY DEF IInv
  <2> QED  BY <1>2, <2>1, <2>2, Replaced
<1>4. (live \ D) \cup {} = live \ D /\ orphans \cup (((D \ D) \cup {}) \ Freed(c)) = orphans
  OBVIOUS
<1> QED  BY <1>1, <1>3, <1>4

LEMMA ParseNullStep == ASSUME IInv, NEW f \in Fields, ParseNull(f) PROVE IInv'
<1> DEFINE x == op.dest
<1>1. /\ op.call = "parse" /\ schema' = schema /\ orphans' = orphans
      /\ op' = op \/ op' = [op EXCEPT !.left = @ \ {f}]
      /\ \/ /\ objs' = [objs EXCEPT ![x][f] = Reset(Kind(f), objs[x][f]).value]
            /\ live' = live \ Reset(Kind(f), objs[x][f]).freed
         \/ objs' = objs /\ live' = live
  BY DEF ParseNull
<1>2. x \in Objects  BY <1>1, ParsingType
<1>3. Sound(objs', live', orphans')  BY <1>1, <1>2, ResetOK DEF IInv
<1> QED  BY <1>1, <1>3, ParseGoesOn

LEMMA EndParseStep == ASSUME IInv, NEW r, EndParse(r) PROVE IInv'
<1> DEFINE x == op.dest
<1>1. /\ op.call = "parse" /\ schema' = schema /\ orphans' = orphans
      /\ op'.call \in {"done", "undefined"}
  BY DEF EndParse, ParseFails, Return, Undefined
<1>2. x \in Objects  BY <1>1, ParsingType
<1>3. \/ objs' = objs /\ live' = live
      \/ objs' = [objs EXCEPT ![x] = Empty] /\ live' = live \ Owned(objs[x])
      \/ objs' = [objs EXCEPT ![x] = objs[x]] /\ live' = live
  BY DEF EndParse, ParseFails
<1>4. objs \in [Objects -> [Fields -> Values]]  BY DEF IInv, Sound
<1>5. [objs EXCEPT ![x] = objs[x]] = objs  BY <1>2, <1>4
<1>6. Sound(objs', live', orphans')  BY <1>1, <1>2, <1>3, <1>5, Emptied DEF IInv
<1> QED  BY <1>1, <1>6, StepInv

LEMMA StringsType == ASSUME NEW parts \in Seq(BOOLEAN) PROVE Strings(parts) \in Nat
<1> DEFINE T == {i \in 1..Len(parts) : parts[i]}
<1>1. T \subseteq 1..Len(parts) /\ Strings(parts) = Cardinality(T)  BY StringsIs
<1>2. Len(parts) \in Nat  OBVIOUS
<1> HIDE DEF T
<1>3. Cardinality(T) \in 0..Len(parts)  BY <1>1, <1>2, RankFacts
<1> QED  BY <1>1, <1>3

\* A field is reset if it is selected, filled, and the object cleared if
\* the selective function fails.
LEMMA ParseFieldStep == ASSUME IInv, NEW f \in Fields, ParseField(f) PROVE IInv'
<1> DEFINE x == op.dest
           kind == Kind(f)
           old == IF op.masked THEN Reset(kind, objs[x][f]) ELSE [value |-> objs[x][f], freed |-> {}]
           base == live \ old.freed
<1>1. PICK g \in Given(kind), tag \in {"text", "number"} :
        /\ tag = "number" => kind = "oneof" /\ Strings(g.parts) = 0
        /\ LET grown == IF kind \notin InPlace /\ Grows(kind, g) THEN 1 ELSE 0
               n == grown + Strings(g.parts)
           IN  /\ Enough(n, base)
               /\ LET new == New(n, base)
                      ptrs == Placed(kind, g.parts, SubSeq(new, grown + 1, n))
                      value == Stored(f, old.value, g, tag,
                                      IF grown = 1 THEN new[1] ELSE Null, ptrs)
                      o == [objs[x] EXCEPT ![f] = value]
                      held == base \cup Range(new)
                  IN  /\ orphans' = orphans \cup ((Freed(old.value) \cup Range(new)) \ Freed(value))
                      /\ CASE g.end = "ok" -> /\ objs' = [objs EXCEPT ![x] = o]
                                              /\ live' = held
                                              /\ op' = IF op.masked THEN op
                                                       ELSE [op EXCEPT !.left = @ \ {f}]
                           [] g.end = "odd" -> /\ objs' = [objs EXCEPT ![x] = o]
                                               /\ live' = held
                                               /\ Return(1)
                           [] OTHER -> ParseFails(o, held)
  BY DEF ParseField
<1>2. op.call = "parse" /\ schema' = schema  BY DEF ParseField
<1>3. x \in Objects /\ op.masked \in BOOLEAN  BY <1>2, ParsingType
<1>4. schema \in Schemas /\ objs \in [Objects -> [Fields -> Values]] /\ kind \in Kinds
      /\ ValueOK(kind, objs[x][f])
  BY <1>3, KindType DEF IInv, Sound
<1> DEFINE grown == IF kind \notin InPlace /\ Grows(kind, g) THEN 1 ELSE 0
           n == grown + Strings(g.parts)
           new == New(n, base)
           value == Stored(f, old.value, g, tag, IF grown = 1 THEN new[1] ELSE Null,
                           Placed(kind, g.parts, SubSeq(new, grown + 1, n)))
           o == [objs[x] EXCEPT ![f] = value]
           held == base \cup Range(new)
           O1 == [objs EXCEPT ![x][f] = old.value]
           O2 == [objs EXCEPT ![x] = o]
<1>5. Sound(O1, base, orphans) /\ O1[x][f] = old.value /\ ValueOK(kind, old.value)
  <2>1. CASE op.masked
    <3>1. old = Reset(kind, objs[x][f])  BY <2>1
    <3>2. Sound(O1, base, orphans)  BY <1>3, <3>1, ResetOK
    <3>3. O1[x][f] = old.value  BY <1>3, <1>4
    <3>4. O1[x][f] \in Values /\ ValueOK(kind, O1[x][f])  BY <1>3, <3>2 DEF Sound
    <3> QED  BY <3>2, <3>3, <3>4
  <2>2. CASE ~op.masked
    <3>1. old.value = objs[x][f] /\ old.freed = {}  BY <2>2
    <3>2. O1 = objs  BY <1>3, <1>4, <3>1
    <3>3. base = live  BY <3>1
    <3> HIDE DEF O1, base, old
    <3>4. Sound(O1, base, orphans)  BY <3>2, <3>3 DEF IInv
    <3> QED  BY <1>4, <3>1, <3>2, <3>4
  <2> QED  BY <1>3, <2>1, <2>2
<1>6. [O1 EXCEPT ![x][f] = value] = O2
  <2> HIDE DEF value, old
  <2> QED  BY <1>3, <1>4
<1>7. Enough(n, base) /\ orphans' = orphans \cup ((Freed(old.value) \cup Range(new)) \ Freed(value))
  BY <1>1
<1>8. n \in Nat /\ grown \in {0, 1} /\ (grown = 1 => kind \notin InPlace)
  BY <1>4, GivenType, StringsType
<1> HIDE DEF old, base
<1>9. new \in [1..n -> Blocks \ base] /\ \A i, j \in 1..n : new[i] = new[j] => i = j
  BY <1>7, <1>8, NewOK
<1>10. Freed(old.value) \subseteq base  BY <1>3, <1>5 DEF Sound
<1>11. ValueOK(kind, value) /\ Freed(value) \subseteq Freed(old.value) \cup Range(new)
  <2>1. new \in [1..n -> Blocks] /\ \A i \in 1..n : new[i] \notin Freed(old.value)  BY <1>9, <1>10
  <2> HIDE DEF new, grown
  <2>2. n = grown + Strings(g.parts)  OBVIOUS
  <2>3. \A i, j \in 1..n : new[i] = new[j] => i = j  BY <1>9
  <2>4. g \in Given(kind) /\ tag \in {"text", "number"} /\ (tag = "number" => kind = "oneof")  BY <1>1
  <2>5. schema \in Schemas /\ ValueOK(kind, old.value)  BY <1>4, <1>5
  <2> HIDE DEF n
  <2> QED  BY <1>8, <2>1, <2>2, <2>3, <2>4, <2>5, StoredOK
<1>12. Range(new) \subseteq Blocks \ base  BY <1>9 DEF Range
<1> HIDE DEF value, new, O1
<1>13. Sound(O2, held, orphans')
  <2>1. Freed(value) \subseteq (Freed(O1[x][f]) \ {}) \cup Range(new) /\ {} \subseteq Freed(O1[x][f])
    BY <1>5, <1>11
  <2>2. Sound([O1 EXCEPT ![x][f] = value], (base \ {}) \cup Range(new),
              orphans \cup (((Freed(O1[x][f]) \ {}) \cup Range(new)) \ Freed(value)))
    BY <1>3, <1>5, <1>11, <1>12, <2>1, Replaced
  <2>3. (base \ {}) \cup Range(new) = held
        /\ orphans \cup (((Freed(O1[x][f]) \ {}) \cup Range(new)) \ Freed(value)) = orphans'
    BY <1>5, <1>7
  <2> QED  BY <1>6, <2>2, <2>3
<1>14. O2[x] = o /\ [O2 EXCEPT ![x] = Empty] = [objs EXCEPT ![x] = Empty]  BY <1>3, <1>4
<1>15. Sound([objs EXCEPT ![x] = Empty], held \ Owned(o), orphans')
  <2> HIDE DEF O2, o, held
  <2> QED  BY <1>3, <1>4, <1>13, <1>14, Emptied
<1>16. \/ /\ objs' = O2 /\ live' = held
          /\ op' = op \/ op' = [op EXCEPT !.left = @ \ {f}] \/ op'.call \in {"done", "undefined"}
       \/ /\ objs' = [objs EXCEPT ![x] = Empty] /\ live' = held \ Owned(o)
          /\ op'.call = "done"
  <2>1. CASE g.end = "ok"
    <3>1. objs' = O2 /\ live' = held /\ op' = IF op.masked THEN op ELSE [op EXCEPT !.left = @ \ {f}]
      BY <1>1, <2>1 DEF old, base, new, value
    <3> QED  BY <1>3, <3>1
  <2>2. CASE g.end = "odd"
    <3>1. objs' = O2 /\ live' = held /\ Return(1)
      BY <1>1, <2>2 DEF old, base, new, value
    <3> QED  BY <3>1 DEF Return
  <2>3. CASE g.end \notin {"ok", "odd"}
    <3>1. ParseFails(o, held)
      BY <1>1, <2>3 DEF old, base, new, value
    <3> HIDE DEF o, held
    <3> QED  BY <1>3, <3>1 DEF ParseFails, Return, Undefined
  <2> QED  BY <2>1, <2>2, <2>3
<1>17. Sound(objs', live', orphans')  BY <1>13, <1>15, <1>16
<1> QED  BY <1>2, <1>16, <1>17, StepInv, ParseGoesOn

LEMMA StartCopyStep ==
    ASSUME IInv, NEW x \in Objects, NEW y \in Objects, StartCopy(x, y) PROVE IInv'
<1>1. /\ schema' = schema /\ orphans' = orphans /\ x # y
      /\ objs' = [objs EXCEPT ![x] = Empty] /\ live' = live \ Owned(objs[x])
      /\ op' = [call |-> "copy", dest |-> x, src |-> y, left |-> Fields]
  BY DEF StartCopy
<1>2. schema \in Schemas /\ schema' \in Schemas /\ objs \in [Objects -> [Fields -> Values]]
  BY <1>1 DEF IInv, Sound
<1>3. Sound(objs', live', orphans')  BY <1>1, Emptied DEF IInv
<1>4. Sound(objs, live, orphans)'  BY <1>1, <1>3, SoundLater
<1>5. ASSUME NEW f \in Fields PROVE objs'[x][f] = Cleared(Kind(f))
  BY <1>1, <1>2, EmptyIs
<1>6. CallOK'
  <2>1. op'.call = "copy" /\ op'.dest = x /\ op'.src = y /\ op'.left = Fields  BY <1>1
  <2>2. op' \in [call : {"copy"}, dest : Objects, src : Objects, left : SUBSET Fields]  BY <1>1
  <2> QED  BY <1>1, <1>5, <2>1, <2>2 DEF CallOK, Fields, Kind
<1> QED  BY <1>2, <1>4, <1>6 DEF IInv

LEMMA CopyGoesOn ==
    ASSUME IInv, op.call = "copy", schema' = schema, Sound(objs', live', orphans'),
           NEW f \in Fields, op' = [op EXCEPT !.left = @ \ {f}],
           \A g \in Fields : g # f => objs'[op.dest][g] = objs[op.dest][g]
    PROVE  IInv'
<1>1. /\ op \in [call : {"copy"}, dest : Objects, src : Objects, left : SUBSET Fields]
      /\ op.dest # op.src /\ \A g \in op.left : objs[op.dest][g] = Cleared(Kind(g))
  BY DEF IInv, CallOK
<1>2. /\ op' \in [call : {"copy"}, dest : Objects, src : Objects, left : SUBSET Fields]
      /\ op'.dest = op.dest /\ op'.src = op.src /\ op'.left = op.left \ {f}
  BY <1>1
<1>3. op'.call = "copy"  BY <1>2
<1>4. \A g \in op'.left : objs'[op'.dest][g] = Cleared(Kind(g))
  BY <1>1, <1>2
<1>5. schema' \in Schemas  BY DEF IInv
<1>6. Sound(objs, live, orphans)'  BY SoundLater
<1>7. CallOK'  BY <1>1, <1>2, <1>3, <1>4 DEF CallOK, Fields, Kind
<1> QED  BY <1>5, <1>6, <1>7 DEF IInv

LEMMA AllocationsType ==
    ASSUME NEW kind, NEW v, ValueOK(kind, v) PROVE Allocations(kind, v) \in Nat
<1> DEFINE parts == [i \in DOMAIN v.cells |-> v.cells[i] # Null]
<1>1. v.cells \in Seq(Blocks \cup {Null, Junk, Wild})  BY DEF ValueOK, Values, Cells
<1>2. parts \in Seq(BOOLEAN)
  <2>1. DOMAIN v.cells = 1..Len(v.cells) /\ Len(v.cells) \in Nat  BY <1>1
  <2>2. parts \in [1..Len(v.cells) -> BOOLEAN]  BY <2>1
  <2> QED  BY <2>1, <2>2, SeqDef
<1> HIDE DEF parts
<1>3. Strings(parts) \in Nat  BY <1>2, StringsType
<1> QED  BY <1>3 DEF Allocations, parts

\* A field is copied, or, an allocation having failed, what the copy had
\* allocated for it is cleared with the object.
LEMMA CopyFieldStep == ASSUME IInv, NEW f \in Fields, CopyField(f) PROVE IInv'
<1> DEFINE x == op.dest
           kind == Kind(f)
           v == objs[op.src][f]
           all == Allocations(kind, v)
<1>1. op.call = "copy" /\ f \in op.left /\ schema' = schema /\ orphans' = orphans  BY DEF CopyField
<1>2. /\ op \in [call : {"copy"}, dest : Objects, src : Objects, left : SUBSET Fields]
      /\ op.dest # op.src /\ \A g \in op.left : objs[op.dest][g] = Cleared(Kind(g))
  BY <1>1 DEF IInv, CallOK
<1>3. x \in Objects /\ op.src \in Objects  BY <1>2
<1>4. schema \in Schemas /\ objs \in [Objects -> [Fields -> Values]] /\ kind \in Kinds
      /\ ValueOK(kind, v) /\ Sound(objs, live, orphans)
  BY <1>3, KindType DEF IInv, Sound
<1>5. Freed(objs[x][f]) = {}  BY <1>1, <1>2, <1>4, ClearedOK
<1>6. CASE Absent(f, v)
  <2>1. op' = [op EXCEPT !.left = @ \ {f}] /\ objs' = objs /\ live' = live  BY <1>6 DEF CopyField
  <2> QED  BY <1>1, <1>4, <2>1, CopyGoesOn
<1>7. CASE ~Absent(f, v)
  <2>1. PICK n \in 0..all :
          /\ Written(v) /\ Enough(n, live)
          /\ LET new == New(n, live)
                 value == Copied(kind, v, n, new)
             IN  IF n = all
                 THEN /\ objs' = [objs EXCEPT ![x][f] = [value EXCEPT !.has = schema[f].nullable]]
                      /\ live' = live \cup Range(new)
                      /\ op' = [op EXCEPT !.left = @ \ {f}]
                 ELSE /\ objs' = [objs EXCEPT ![x] = Empty]
                      /\ live' = (live \cup Range(new)) \ Owned([objs[x] EXCEPT ![f] = value])
                      /\ Return(-1)
    BY <1>7 DEF CopyField
  <2> DEFINE new == New(n, live)
             value == Copied(kind, v, n, new)
             w == [value EXCEPT !.has = schema[f].nullable]
  <2>2. n \in Nat  BY <1>4, AllocationsType
  <2>3. new \in [1..n -> Blocks \ live] /\ \A i, j \in 1..n : new[i] = new[j] => i = j
    BY <2>1, <2>2, NewOK
  <2>4. ValueOK(kind, value) /\ Freed(value) = Range(new)
    <3>1. new \in [1..n -> Blocks]  BY <2>3
    <3> HIDE DEF new
    <3> QED  BY <1>4, <2>1, <2>3, <3>1, CopiedOK
  <2>5. Range(new) \subseteq Blocks \ live  BY <2>3 DEF Range
  <2> HIDE DEF new
  <2>6. ASSUME NEW u, ValueOK(kind, u), Freed(u) = Range(new)
        PROVE  Sound([objs EXCEPT ![x][f] = u], live \cup Range(new), orphans)
    <3>1. Freed(u) \subseteq (Freed(objs[x][f]) \ {}) \cup Range(new) /\ {} \subseteq Freed(objs[x][f])
      BY <2>6
    <3>2. Sound([objs EXCEPT ![x][f] = u], (live \ {}) \cup Range(new),
                orphans \cup (((Freed(objs[x][f]) \ {}) \cup Range(new)) \ Freed(u)))
      BY <1>3, <1>4, <2>5, <2>6, <3>1, Replaced
    <3>3. live \ {} = live
          /\ orphans \cup (((Freed(objs[x][f]) \ {}) \cup Range(new)) \ Freed(u)) = orphans
      BY <1>5, <2>6
    <3> QED  BY <3>2, <3>3
  <2>7. CASE n = all
    <3>1. objs' = [objs EXCEPT ![x][f] = w] /\ live' = live \cup Range(new)
          /\ op' = [op EXCEPT !.left = @ \ {f}]
      BY <2>1, <2>7 DEF new
    <3> HIDE DEF value
    <3>2. schema[f].nullable \in BOOLEAN  BY <1>4, SchemasAssumption DEF Fields
    <3>3. ValueOK(kind, w) /\ Freed(w) = Range(new)  BY <2>4, <3>2, FlagIrrelevant
    <3> HIDE DEF w
    <3>4. Sound(objs', live', orphans')  BY <1>1, <2>6, <3>1, <3>3
    <3>5. \A g \in Fields : g # f => objs'[x][g] = objs[x][g]  BY <1>3, <1>4, <3>1
    <3> QED  BY <1>1, <3>1, <3>4, <3>5, CopyGoesOn
  <2>8. CASE n # all
    <3> DEFINE P == [objs EXCEPT ![x][f] = value]
    <3>1. objs' = [objs EXCEPT ![x] = Empty] /\ Return(-1)
          /\ live' = (live \cup Range(new)) \ Owned([objs[x] EXCEPT ![f] = value])
      BY <2>1, <2>8 DEF new
    <3> HIDE DEF value
    <3>2. Sound(P, live \cup Range(new), orphans)  BY <2>4, <2>6
    <3>3. P[x] = [objs[x] EXCEPT ![f] = value] /\ [P EXCEPT ![x] = Empty] = [objs EXCEPT ![x] = Empty]
      BY <1>3, <1>4
    <3> HIDE DEF P
    <3>4. Sound([P EXCEPT ![x] = Empty], (live \cup Range(new)) \ Owned(P[x]), orphans)
      BY <1>3, <1>4, <3>2, Emptied
    <3>5. Sound(objs', live', orphans')  BY <1>1, <3>1, <3>3, <3>4
    <3>6. op'.call = "done"  BY <3>1 DEF Return
    <3> QED  BY <1>1, <3>5, <3>6, StepInv
  <2> QED  BY <2>7, <2>8
<1> QED  BY <1>6, <1>7

LEMMA EndCopyStep == ASSUME IInv, EndCopy PROVE IInv'
<1>1. /\ schema' = schema /\ objs' = objs /\ live' = live /\ orphans' = orphans
      /\ op'.call = "done"
  BY DEF EndCopy, Return
<1>2. Sound(objs', live', orphans')  BY <1>1 DEF IInv
<1> QED  BY <1>1, <1>2, StepInv

LEMMA UseUnwrittenStep == ASSUME IInv, NEW x \in Objects, UseUnwritten(x) PROVE IInv'
<1>1. /\ schema' = schema /\ objs' = objs /\ live' = live /\ orphans' = orphans
      /\ op'.call = "undefined"
  BY DEF UseUnwritten, Undefined
<1>2. Sound(objs', live', orphans')  BY <1>1 DEF IInv
<1> QED  BY <1>1, <1>2, StepInv

LEMMA StepsInv == IInv /\ [Next]_vars => IInv'
<1> SUFFICES ASSUME IInv, [Next]_vars PROVE IInv'  OBVIOUS
<1>1. ASSUME NEW x \in Objects, InitObject(x) PROVE IInv'  BY <1>1, InitObjectStep
<1>2. ASSUME NEW x \in Objects, Clear(x) PROVE IInv'  BY <1>2, ClearStep
<1>3. ASSUME NEW x \in Objects, NEW y \in Objects, Move(x, y) PROVE IInv'  BY <1>3, MoveStep
<1>4. ASSUME NEW x \in Objects, NEW y \in Objects, StartCopy(x, y) PROVE IInv'  BY <1>4, StartCopyStep
<1>5. ASSUME NEW x \in Objects, NEW selected \in SUBSET Fields, NEW masked \in BOOLEAN,
             StartParse(x, selected, masked) PROVE IInv'  BY <1>5, StartParseStep
<1>6. ASSUME NEW f \in Fields, ParseField(f) PROVE IInv'  BY <1>6, ParseFieldStep
<1>7. ASSUME NEW f \in Fields, ParseNull(f) PROVE IInv'  BY <1>7, ParseNullStep
<1>8. ASSUME NEW f \in Fields, CopyField(f) PROVE IInv'  BY <1>8, CopyFieldStep
<1>9. ASSUME NEW r \in {0, -1}, EndParse(r) PROVE IInv'  BY <1>9, EndParseStep
<1>10. ASSUME EndCopy PROVE IInv'  BY <1>10, EndCopyStep
<1>11. ASSUME UNCHANGED vars PROVE IInv'
  <2>1. schema' = schema /\ objs' = objs /\ live' = live /\ orphans' = orphans /\ op' = op
    BY <1>11 DEF vars
  <2>2. schema' \in Schemas  BY <2>1 DEF IInv
  <2>4. Sound(objs', live', orphans')  BY <2>1 DEF IInv
  <2>5. Sound(objs, live, orphans)'  BY <2>1, <2>4, SoundLater
  <2>3. CallOK'  BY <2>1 DEF IInv, CallOK, Fields, Kind
  <2> QED  BY <2>2, <2>3, <2>5 DEF IInv
<1>12. ASSUME NEW x \in Objects, UseUnwritten(x) PROVE IInv'  BY <1>12, UseUnwrittenStep
<1> QED  BY <1>1, <1>2, <1>3, <1>4, <1>5, <1>6, <1>7, <1>8, <1>9, <1>10, <1>11, <1>12 DEF Next

LEMMA Ownership == Spec => []IInv
<1> QED  BY InitInv, StepsInv, PTL DEF Spec

-----------------------------------------------------------------------------
LEMMA PlaceFreed ==
    ASSUME IInv, NEW p \in Places, At(p) \notin {Null, Wild}
    PROVE  /\ p[1] \in Objects /\ p[2] \in Fields /\ p[3] \in Nat
           /\ At(p) \in Freed(objs[p[1]][p[2]])
<1>1. /\ p \in Objects \X Fields \X (0..(3 * MaxLen + FixedSize))
      /\ p[3] = 0 \/ (p[3] \in DOMAIN objs[p[1]][p[2]].cells /\ objs[p[1]][p[2]].tag = "text")
  BY DEF Places
<1>2. p[1] \in Objects /\ p[2] \in Fields /\ p[3] \in 0..(3 * MaxLen + FixedSize)  BY <1>1
<1>3. 3 * MaxLen + FixedSize \in Nat  BY MemoryBounds
<1>4. objs[p[1]][p[2]] \in Values  BY <1>2 DEF IInv, Sound
<1>5. At(p) = IF p[3] = 0 THEN objs[p[1]][p[2]].buf ELSE objs[p[1]][p[2]].cells[p[3]]  BY DEF At
<1>6. At(p) \in Freed(objs[p[1]][p[2]])  BY <1>1, <1>4, <1>5, FreedIs
<1> QED  BY <1>2, <1>3, <1>6

LEMMA Owners == IInv => NoDangling /\ NoLeak
<1> SUFFICES ASSUME IInv PROVE NoDangling /\ NoLeak  OBVIOUS
<1>1. Sound(objs, live, orphans)  BY DEF IInv
<1>2. ASSUME NEW p \in Places, At(p) \notin {Null, Wild} PROVE At(p) \in live \ orphans
  BY <1>1, <1>2, PlaceFreed DEF Sound
<1>3. ASSUME NEW p \in Places, NEW q \in Places, p # q, At(p) = At(q) PROVE At(p) \in {Null, Wild}
  <2> SUFFICES ASSUME At(p) \notin {Null, Wild} PROVE FALSE  OBVIOUS
  <2>1. /\ p[1] \in Objects /\ p[2] \in Fields /\ At(p) \in Freed(objs[p[1]][p[2]])
        /\ q[1] \in Objects /\ q[2] \in Fields /\ At(p) \in Freed(objs[q[1]][q[2]])
    BY <1>3, PlaceFreed
  <2>2. p[1] = q[1] /\ p[2] = q[2]
    <3>1. \A x, y \in Objects, f, g \in Fields :
             x # y \/ f # g => Freed(objs[x][f]) \cap Freed(objs[y][g]) = {}
      BY <1>1 DEF Sound
    <3> QED  BY <2>1, <3>1
  <2> DEFINE v == objs[p[1]][p[2]]
  <2>3. p[3] # q[3]
    <3>1. p = <<p[1], p[2], p[3]>> /\ q = <<q[1], q[2], q[3]>>  BY DEF Places
    <3> QED  BY <1>3, <2>2, <3>1
  <2>4. Apart(v) /\ v \in Values /\ (v.tag = "text" => \A i \in DOMAIN v.cells : v.cells[i] # Junk)
    BY <1>1, <2>1 DEF Sound, ValueOK
  <2>5. /\ p[3] = 0 \/ (p[3] \in DOMAIN v.cells /\ v.tag = "text")
        /\ q[3] = 0 \/ (q[3] \in DOMAIN v.cells /\ v.tag = "text")
    BY <2>2 DEF Places
  <2>6. /\ At(p) = IF p[3] = 0 THEN v.buf ELSE v.cells[p[3]]
        /\ At(q) = IF q[3] = 0 THEN v.buf ELSE v.cells[q[3]]
    BY <2>2 DEF At
  <2> HIDE DEF v
  <2>7. CASE p[3] = 0  BY <1>3, <2>3, <2>4, <2>5, <2>6, <2>7 DEF Apart
  <2>8. CASE q[3] = 0  BY <1>3, <2>3, <2>4, <2>5, <2>6, <2>8 DEF Apart
  <2>9. CASE p[3] # 0 /\ q[3] # 0
    <3>1. v.cells[p[3]] = v.cells[q[3]]  BY <1>3, <2>6, <2>9
    <3>2. v.cells[p[3]] \in {Null, Junk, Wild}  BY <2>3, <2>4, <2>5, <2>9, <3>1 DEF Apart
    <3> QED  BY <2>4, <2>5, <2>6, <2>9, <3>2
  <2> QED  BY <2>7, <2>8, <2>9
<1>4. ASSUME NEW x \in Objects, NEW f \in Fields
      PROVE  objs[x][f].tag = "number" <=> Junk \in Range(objs[x][f].cells)
  <2> DEFINE v == objs[x][f]
  <2>1. ValueOK(Kind(f), v)  BY <1>1 DEF Sound
  <2> HIDE DEF v
  <2>2. v.tag \in {"text", "number"}  BY <2>1 DEF ValueOK, Values
  <2>3. ASSUME v.tag = "number" PROVE Junk \in Range(v.cells)
    <3>1. v.cells = <<Junk>>  BY <2>1, <2>3 DEF ValueOK
    <3>2. 1 \in DOMAIN v.cells /\ v.cells[1] = Junk  BY <3>1
    <3> QED  BY <3>2 DEF Range
  <2>4. ASSUME v.tag = "text" PROVE Junk \notin Range(v.cells)
    <3>1. \A i \in DOMAIN v.cells : v.cells[i] # Junk  BY <2>1, <2>4 DEF ValueOK
    <3> QED  BY <3>1 DEF Range
  <2>5. v.tag = "number" <=> Junk \in Range(v.cells)  BY <2>2, <2>3, <2>4
  <2> QED  BY <2>5 DEF v
<1>8. ASSUME NEW p \in Places, At(p) = Wild PROVE InMapValue(p)
  <2> DEFINE v == objs[p[1]][p[2]]
  <2>1. /\ p[1] \in Objects /\ p[2] \in Fields
        /\ p[3] = 0 \/ (p[3] \in DOMAIN v.cells /\ v.tag = "text")
    BY DEF Places
  <2>2. ValueOK(Kind(p[2]), v) /\ v.buf # Wild
    <3>1. ValueOK(Kind(p[2]), v)  BY <1>1, <2>1 DEF Sound
    <3> HIDE DEF v
    <3> QED  BY <3>1, NullJunk DEF ValueOK, Values
  <2>3. p[3] # 0 /\ v.cells[p[3]] = Wild  BY <1>8, <2>2 DEF At
  <2> HIDE DEF v
  <2> QED  BY <2>1, <2>2, <2>3 DEF ValueOK, InMapValue
<1>5. NoDangling  BY <1>2, <1>3, <1>4, <1>8 DEF NoDangling
<1>6. ASSUME NEW x \in Objects, NEW b PROVE b \in Owned(objs[x]) <=> \E f \in Fields : b \in Freed(objs[x][f])
  <2>1. DOMAIN objs[x] = Fields  BY <1>1 DEF Sound
  <2> QED  BY <2>1, OwnedIs
<1>7. NoLeak
  <2>1. ASSUME NEW b \in live PROVE b \in orphans \/ \E x \in Objects : b \in Owned(objs[x])
    BY <1>1, <1>6 DEF Sound
  <2>2. orphans \subseteq live  BY <1>1 DEF Sound
  <2>3. ASSUME NEW x \in Objects PROVE Owned(objs[x]) \subseteq live  BY <1>1, <1>6 DEF Sound
  <2> QED  BY <2>1, <2>2, <2>3 DEF NoLeak
<1> QED  BY <1>5, <1>7

\* For every struct, every number of objects and every length: what
\* clearing an object frees is allocated, held in no other place and not
\* lost, a oneof's number is never taken for a pointer, and memory nobody
\* wrote only in the struct values of maps, whatever was
\* initialised, parsed, copied, moved and cleared before (gencode.c's
\* memory functions and json_parse.c's selected clearing).
THEOREM OneOwner == Spec => []NoDangling
<1> QED  BY Ownership, Owners, PTL

\* And nothing leaks but what the parser loses hold of itself: the copy,
\* move and clear functions lose no block, not even when an allocation of
\* a copy fails half way.
THEOREM NothingElseLost == Spec => []NoLeak
<1> QED  BY Ownership, Owners, PTL

-----------------------------------------------------------------------------
(***************************************************************************)
(* A copy is the whole source or nothing.  While it runs, the fields it    *)
(* has done with are copies of the source's; that the copy's flag is the   *)
(* source's takes that only nullable fields have one.                      *)
(***************************************************************************)
Flags == \A x \in Objects, f \in Fields : objs[x][f].has => schema[f].nullable

CopyOf(f, w, v) == Alike(w, IF schema[f].nullable /\ ~v.has THEN Cleared(Kind(f)) ELSE v)

Copying == op.call = "copy" =>
    \A f \in Fields : f \notin op.left => CopyOf(f, objs[op.dest][f], objs[op.src][f])

LEMMA ClearedFlag ==
    ASSUME NEW kind PROVE Cleared(kind).has = FALSE /\ Alike(Cleared(kind), Cleared(kind))
BY DEF Cleared, Alike

\* With all its allocations a copy has strings where the value has strings.
LEMMA CopiedAlike ==
    ASSUME NEW kind \in Kinds, NEW v, ValueOK(kind, v), Written(v), NEW n, n = Allocations(kind, v),
           NEW new \in [1..n -> Blocks],
           NEW w, w.buf = Copied(kind, v, n, new).buf, w.cells = Copied(kind, v, n, new).cells,
           w.tag = Copied(kind, v, n, new).tag, w.has = v.has
    PROVE  Alike(w, v)
<1> DEFINE q == Len(v.cells)
           T == {i \in 1..q : v.cells[i] # Null}
           buffered == kind \notin InPlace /\ v.cells # <<>>
           off == IF buffered THEN 1 ELSE 0
           rank(i) == off + Cardinality({j \in 1..i : v.cells[j] # Null})
           parts == [i \in DOMAIN v.cells |-> v.cells[i] # Null]
<1>1. v \in Values /\ v.cells \in Cells /\ q \in Nat /\ DOMAIN v.cells = 1..q
  BY DEF ValueOK, Values, Cells
<1>10. \A i \in 1..q : v.cells[i] # Wild  BY <1>1, WrittenIs
<1>2. T \subseteq 1..q /\ \A i \in 1..q : i \in T <=> v.cells[i] # Null  OBVIOUS
<1>3. \A i \in 1..q : rank(i) = off + Rank(T, i)
  <2> SUFFICES ASSUME NEW i \in 1..q PROVE rank(i) = off + Rank(T, i)  OBVIOUS
  <2>1. {j \in 1..i : v.cells[j] # Null} = {j \in 1..i : j \in T}  BY <1>1
  <2> QED  BY <2>1 DEF Rank
<1>4. /\ w.cells = (IF buffered /\ n = 0 THEN <<>>
                    ELSE [i \in 1..q |-> CopiedCell(v.cells[i], rank(i), n, new)])
      /\ w.tag = v.tag
  BY <1>1 DEF Copied
<1>5. n = off + (IF v.tag = "text" THEN Cardinality(T) ELSE 0)
  <2>1. {i \in DOMAIN parts : parts[i]} = T  BY <1>1
  <2>2. Strings(parts) = Cardinality(T)  BY <2>1 DEF Strings
  <2> QED  BY <2>2 DEF Allocations
<1> HIDE DEF q, T, rank, buffered
<1>6. Cardinality(T) \in Nat /\ \A i \in T : Rank(T, i) \in 1..Cardinality(T)
  <2>1. Cardinality(T) \in 0..q /\ \A i \in T : Rank(T, i) \in 1..Cardinality(T)  BY <1>1, <1>2, RankFacts
  <2> QED  BY <1>1, <2>1
<1>7. w.cells = [i \in 1..q |-> CopiedCell(v.cells[i], rank(i), n, new)]
  <2>1. ~(buffered /\ n = 0)  BY <1>5, <1>6
  <2> QED  BY <1>4, <2>1
<1>8. ASSUME NEW i \in 1..q
      PROVE  w.cells[i] \in {Null, Junk} \/ v.cells[i] \in {Null, Junk} => w.cells[i] = v.cells[i]
  <2>1. w.cells[i] = CopiedCell(v.cells[i], off + Rank(T, i), n, new)  BY <1>3, <1>7
  <2>2. CASE v.cells[i] \in {Null, Junk}  BY <2>1, <2>2 DEF CopiedCell
  <2>3. CASE v.cells[i] \notin {Null, Junk}
    <3>1. v.tag = "text"
      <4>1. v.tag \in {"text", "number"}  BY <1>1 DEF Values
      <4>2. v.tag = "number" => v.cells = <<Junk>>  BY DEF ValueOK
      <4>3. v.cells = <<Junk>> => q = 1 /\ v.cells[1] = Junk  BY DEF q
      <4> QED  BY <2>3, <4>1, <4>2, <4>3
    <3>2. Rank(T, i) \in 1..Cardinality(T)  BY <1>2, <1>6, <2>3
    <3>3. off + Rank(T, i) \in 1..n  BY <1>5, <1>6, <3>1, <3>2
    <3>4. w.cells[i] = new[off + Rank(T, i)]  BY <2>1, <2>3, <3>3 DEF CopiedCell
    <3>5. w.cells[i] \in Blocks  BY <3>3, <3>4
    <3> QED  BY <2>3, <3>5, NullJunk
  <2> QED  BY <2>2, <2>3
<1>9. Len(w.cells) = q /\ DOMAIN w.cells = 1..q  BY <1>1, <1>7
<1> QED  BY <1>1, <1>4, <1>8, <1>9 DEF Alike, q

\* A step that gives every field a flag it may have.
LEMMA FlagsStep ==
    ASSUME schema' = schema, \A x \in Objects, f \in Fields : objs'[x][f].has => schema[f].nullable
    PROVE  Flags'
BY DEF Flags, Fields

LEMMA MemoryFlags ==
    ASSUME IInv, Flags, NEW x \in Objects,
           schema' = schema, objs' = [objs EXCEPT ![x] = Empty]
    PROVE  Flags'
<1>1. objs \in [Objects -> [Fields -> Values]] /\ schema \in Schemas  BY DEF IInv, Sound
<1>2. ASSUME NEW y \in Objects, NEW f \in Fields PROVE objs'[y][f].has => schema[f].nullable
  <2>1. CASE y = x
    <3>1. objs'[y][f] = Cleared(Kind(f))  BY <1>1, <2>1, EmptyIs
    <3> QED  BY <3>1, ClearedFlag
  <2>2. CASE y # x
    <3>1. objs'[y] = objs[y]  BY <1>1, <2>2
    <3> QED  BY <3>1 DEF Flags
  <2> QED  BY <2>1, <2>2
<1> QED  BY <1>2, FlagsStep

LEMMA FieldFlags ==
    ASSUME IInv, Flags, NEW x \in Objects, NEW f \in Fields, NEW v, v.has => schema[f].nullable,
           schema' = schema, objs' = [objs EXCEPT ![x][f] = v]
    PROVE  Flags'
<1>1. objs \in [Objects -> [Fields -> Values]]  BY DEF IInv, Sound
<1>2. ASSUME NEW y \in Objects, NEW g \in Fields PROVE objs'[y][g].has => schema[g].nullable
  <2>1. CASE y = x /\ g = f
    <3>1. objs'[y][g] = v  BY <1>1, <2>1
    <3> QED  BY <2>1, <3>1
  <2>2. CASE y # x \/ g # f
    <3>1. objs'[y][g] = objs[y][g]  BY <1>1, <2>2
    <3> QED  BY <3>1 DEF Flags
  <2> QED  BY <2>1, <2>2
<1> QED  BY <1>2, FlagsStep

\* What reading a field does to the objects, its value's blocks aside.
LEMMA ParsedField ==
    ASSUME IInv, Flags, NEW f \in Fields, ParseField(f)
    PROVE  /\ op.dest \in Objects
           /\ \/ objs' = [objs EXCEPT ![op.dest] = Empty]
              \/ \E v : (v.has => schema[f].nullable) /\ objs' = [objs EXCEPT ![op.dest][f] = v]
           /\ schema' = schema
           /\ op' = op \/ op'.call \in {"parse", "undefined"} \/ (op'.call = "done" /\ op'.of = op)
<1> DEFINE x == op.dest
           kind == Kind(f)
           old == IF op.masked THEN Reset(kind, objs[x][f]) ELSE [value |-> objs[x][f], freed |-> {}]
           base == live \ old.freed
<1>1. op.call = "parse" /\ schema' = schema  BY DEF ParseField
<1>2. x \in Objects /\ op.masked \in BOOLEAN  BY <1>1, ParsingType
<1>3. op \in [call : {"parse"}, dest : Objects, left : SUBSET Fields, masked : BOOLEAN]
  BY <1>1 DEF IInv, CallOK
<1>4. objs \in [Objects -> [Fields -> Values]]  BY DEF IInv, Sound
<1>5. PICK g \in Given(kind), tag \in {"text", "number"} :
        /\ tag = "number" => kind = "oneof" /\ Strings(g.parts) = 0
        /\ LET grown == IF kind \notin InPlace /\ Grows(kind, g) THEN 1 ELSE 0
               n == grown + Strings(g.parts)
           IN  /\ Enough(n, base)
               /\ LET new == New(n, base)
                      ptrs == Placed(kind, g.parts, SubSeq(new, grown + 1, n))
                      value == Stored(f, old.value, g, tag,
                                      IF grown = 1 THEN new[1] ELSE Null, ptrs)
                      o == [objs[x] EXCEPT ![f] = value]
                      held == base \cup Range(new)
                  IN  /\ orphans' = orphans \cup ((Freed(old.value) \cup Range(new)) \ Freed(value))
                      /\ CASE g.end = "ok" -> /\ objs' = [objs EXCEPT ![x] = o]
                                              /\ live' = held
                                              /\ op' = IF op.masked THEN op
                                                       ELSE [op EXCEPT !.left = @ \ {f}]
                           [] g.end = "odd" -> /\ objs' = [objs EXCEPT ![x] = o]
                                               /\ live' = held
                                               /\ Return(1)
                           [] OTHER -> ParseFails(o, held)
  BY DEF ParseField
<1> DEFINE grown == IF kind \notin InPlace /\ Grows(kind, g) THEN 1 ELSE 0
           n == grown + Strings(g.parts)
           new == New(n, base)
           ptrs == Placed(kind, g.parts, SubSeq(new, grown + 1, n))
           value == Stored(f, old.value, g, tag, IF grown = 1 THEN new[1] ELSE Null, ptrs)
           o == [objs[x] EXCEPT ![f] = value]
           held == base \cup Range(new)
<1>6. value.has => schema[f].nullable
  <2>1. old.value.has => schema[f].nullable
    <3>1. objs[x][f].has => schema[f].nullable  BY <1>2 DEF Flags
    <3>2. Reset(kind, objs[x][f]).value.has = FALSE  BY ClearedFlag DEF Reset
    <3>3. CASE op.masked  BY <3>2, <3>3
    <3>4. CASE ~op.masked  BY <3>1, <3>4
    <3> QED  BY <3>3, <3>4
  <2>2. value.has = (old.value.has \/ (schema[f].nullable /\ g.end = "ok"
                                         /\ ~(kind = "fixed" /\ g.parts = <<>>)))
    BY DEF Stored
  <2> HIDE DEF value, old
  <2> QED  BY <2>1, <2>2, Zenon
<1>7. [objs EXCEPT ![x] = o] = [objs EXCEPT ![x][f] = value]
  <2> HIDE DEF value
  <2> QED  BY <1>2, <1>4
<1>8. CASE g.end = "ok"
  <2>1. objs' = [objs EXCEPT ![x] = o] /\ op' = IF op.masked THEN op ELSE [op EXCEPT !.left = @ \ {f}]
    BY <1>5, <1>8
  <2>2. op' = op \/ op'.call = "parse"
    <3>1. CASE op.masked  BY <2>1, <3>1
    <3>2. CASE ~op.masked
      <4>1. op' = [op EXCEPT !.left = @ \ {f}]  BY <2>1, <3>2
      <4> QED  BY <1>3, <4>1
    <3> QED  BY <3>1, <3>2
  <2> HIDE DEF value, o
  <2> QED  BY <1>1, <1>2, <1>6, <1>7, <2>1, <2>2
<1>9. CASE g.end = "odd"
  <2>1. objs' = [objs EXCEPT ![x] = o] /\ Return(1)  BY <1>5, <1>9
  <2>2. op'.call = "done" /\ op'.of = op  BY <2>1 DEF Return
  <2> HIDE DEF value, o
  <2> QED  BY <1>1, <1>2, <1>6, <1>7, <2>1, <2>2
<1>10. CASE g.end \notin {"ok", "odd"}
  <2>1. ParseFails(o, held)  BY <1>5, <1>10
  <2> HIDE DEF value, o, held
  <2>2. (op'.call = "done" /\ op'.of = op) \/ op'.call = "undefined"
    BY <2>1 DEF ParseFails, Return, Undefined
  <2>3. objs' = [objs EXCEPT ![x] = Empty] \/ objs' = [objs EXCEPT ![x] = o]
    BY <1>2, <2>1 DEF ParseFails
  <2> QED  BY <1>1, <1>2, <1>6, <1>7, <2>2, <2>3
<1> QED  BY <1>8, <1>9, <1>10

\* What CopyExact says of the call in progress or of its result.
Exact == Copying /\ CopyExact

\* Only the steps of a copy have to do with it.
LEMMA ExactElsewhere ==
    ASSUME op'.call \in {"none", "parse", "undefined"} \/ (op'.call = "done" /\ op'.of.call # "copy")
    PROVE  Exact'
BY DEF Exact, Copying, CopyExact

LEMMA ExactKept ==
    ASSUME Exact, schema' = schema, objs' = objs, op' = op PROVE Exact'
BY DEF Exact, Copying, CopyExact, CopyOf, Fields, Kind, Empty

LEMMA StartCopyExact ==
    ASSUME IInv, NEW x \in Objects, NEW y \in Objects, StartCopy(x, y) PROVE Exact'
<1>1. op' = [call |-> "copy", dest |-> x, src |-> y, left |-> Fields] /\ schema' = schema
  BY DEF StartCopy
<1>2. op'.call = "copy" /\ op'.left = Fields  BY <1>1
<1> QED  BY <1>1, <1>2 DEF Exact, Copying, CopyExact, Fields

LEMMA EndCopyExact == ASSUME Exact, EndCopy PROVE Exact'
<1>1. /\ op.call = "copy" /\ op.left = {} /\ schema' = schema /\ objs' = objs
      /\ op' = [call |-> "done", of |-> op, result |-> 0]
  BY DEF EndCopy, Return
<1>2. \A f \in Fields : CopyOf(f, objs[op.dest][f], objs[op.src][f])  BY <1>1 DEF Exact, Copying
<1>3. op'.call = "done" /\ op'.of = op /\ op'.result = 0  BY <1>1
<1> QED  BY <1>1, <1>2, <1>3 DEF Exact, Copying, CopyExact, CopyOf, Fields, Kind

LEMMA CopyFieldExact ==
    ASSUME IInv, Flags, Exact, NEW f \in Fields, CopyField(f) PROVE Flags' /\ Exact'
<1> DEFINE x == op.dest
           y == op.src
           kind == Kind(f)
           v == objs[y][f]
           all == Allocations(kind, v)
<1>1. op.call = "copy" /\ f \in op.left /\ schema' = schema  BY DEF CopyField
<1>2. /\ op \in [call : {"copy"}, dest : Objects, src : Objects, left : SUBSET Fields]
      /\ x # y /\ \A g \in op.left : objs[x][g] = Cleared(Kind(g))
  BY <1>1 DEF IInv, CallOK
<1>3. x \in Objects /\ y \in Objects  BY <1>2
<1>4. schema \in Schemas /\ objs \in [Objects -> [Fields -> Values]] /\ kind \in Kinds /\ ValueOK(kind, v)
  BY <1>3, KindType DEF IInv, Sound
<1>5. schema[f].nullable \in BOOLEAN  BY <1>4, SchemasAssumption DEF Fields
<1>6. v.has \in BOOLEAN /\ (v.has => schema[f].nullable)  BY <1>3, <1>4 DEF ValueOK, Values, Flags
\* The field is done with: one more to compare.
<1>7. ASSUME op' = [op EXCEPT !.left = @ \ {f}], CopyOf(f, objs'[x][f], v),
             \A g \in Fields : g # f => objs'[x][g] = objs[x][g], objs'[y] = objs[y]
      PROVE  Exact'
  <2>1. op'.call = "copy" /\ op'.dest = x /\ op'.src = y /\ op'.left = op.left \ {f}  BY <1>2, <1>7
  <2>2. ASSUME NEW g \in Fields, g \notin op'.left PROVE CopyOf(g, objs'[x][g], objs'[y][g])
    <3>1. CASE g = f  BY <1>7, <3>1
    <3>2. CASE g # f
      <4>1. g \notin op.left  BY <2>1, <2>2, <3>2
      <4> QED  BY <1>1, <1>7, <3>2, <4>1 DEF Exact, Copying
    <3> QED  BY <3>1, <3>2
  <2> QED  BY <1>1, <2>1, <2>2 DEF Exact, Copying, CopyExact, CopyOf, Fields, Kind
<1>8. CASE Absent(f, v)
  <2>1. op' = [op EXCEPT !.left = @ \ {f}] /\ objs' = objs  BY <1>8 DEF CopyField
  <2>2. CopyOf(f, objs[x][f], v)
    <3>1. objs[x][f] = Cleared(kind)  BY <1>1, <1>2
    <3> QED  BY <1>8, <3>1, ClearedFlag DEF Absent, CopyOf
  <2>3. Exact'  BY <1>7, <2>1, <2>2
  <2>4. Flags'  BY <1>1, <2>1, FlagsStep DEF Flags
  <2> QED  BY <2>3, <2>4
<1>9. CASE ~Absent(f, v)
  <2>1. PICK n \in 0..all :
          /\ Written(v) /\ Enough(n, live)
          /\ LET new == New(n, live)
                 value == Copied(kind, v, n, new)
             IN  IF n = all
                 THEN /\ objs' = [objs EXCEPT ![x][f] = [value EXCEPT !.has = schema[f].nullable]]
                      /\ op' = [op EXCEPT !.left = @ \ {f}]
                 ELSE objs' = [objs EXCEPT ![x] = Empty] /\ Return(-1)
    BY <1>9 DEF CopyField
  <2> DEFINE new == New(n, live)
             value == Copied(kind, v, n, new)
             w == [value EXCEPT !.has = schema[f].nullable]
  <2>2. CASE n = all
    <3>1. n \in Nat  BY <1>4, AllocationsType
    <3>2. new \in [1..n -> Blocks]  BY <2>1, <3>1, NewOK
    <3>3. objs' = [objs EXCEPT ![x][f] = w] /\ op' = [op EXCEPT !.left = @ \ {f}]  BY <2>1, <2>2
    <3>4. schema[f].nullable = v.has  BY <1>5, <1>6, <1>9 DEF Absent
    <3>5. w.buf = value.buf /\ w.cells = value.cells /\ w.tag = value.tag /\ w.has = schema[f].nullable
      BY DEF Copied
    <3> HIDE DEF w, new
    <3>6. Alike(w, v)  BY <1>4, <2>1, <2>2, <3>2, <3>4, <3>5, CopiedAlike
    <3> HIDE DEF value
    <3>7. CopyOf(f, w, v)  BY <1>9, <3>6 DEF CopyOf, Absent
    <3>8. objs'[x][f] = w /\ objs'[y] = objs[y] /\ \A g \in Fields : g # f => objs'[x][g] = objs[x][g]
      BY <1>2, <1>3, <1>4, <3>3
    <3>9. Exact'  BY <1>7, <3>3, <3>7, <3>8
    <3>10. Flags'  BY <1>1, <1>3, <3>3, <3>5, FieldFlags
    <3> QED  BY <3>9, <3>10
  <2>3. CASE n # all
    <3>1. objs' = [objs EXCEPT ![x] = Empty] /\ Return(-1)  BY <2>1, <2>3
    <3>2. op'.call = "done" /\ op'.of = op /\ op'.result = -1  BY <3>1 DEF Return
    <3>3. objs'[x] = Empty  BY <1>3, <1>4, <3>1
    <3>4. Empty' = Empty  BY <1>1 DEF Empty, Fields, Kind
    <3>5. Exact'  BY <3>2, <3>3, <3>4 DEF Exact, Copying, CopyExact
    <3>6. Flags'  BY <1>1, <1>3, <3>1, MemoryFlags
    <3> QED  BY <3>5, <3>6
  <2> QED  BY <2>2, <2>3
<1> QED  BY <1>8, <1>9

LEMMA ExactStep == IInv /\ Flags /\ Exact /\ [Next]_vars => Flags' /\ Exact'
<1> SUFFICES ASSUME IInv, Flags, Exact, [Next]_vars PROVE Flags' /\ Exact'  OBVIOUS
<1>1. objs \in [Objects -> [Fields -> Values]] /\ schema \in Schemas  BY DEF IInv, Sound
<1>2. ASSUME NEW x \in Objects, InitObject(x) PROVE Flags' /\ Exact'
  <2>1. schema' = schema /\ op'.call = "none"  BY <1>2 DEF InitObject, Idle
  <2>2. \E o : (\A f \in Fields : o[f].has = FALSE) /\ objs' = [objs EXCEPT ![x] = o]
    <3> DEFINE d == SetToSeq({f \in Fields : schema[f].default})
               new == New(Len(d), live)
               value(f) == IF schema[f].default
                           THEN [Cleared("string") EXCEPT !.cells =
                                     <<new[CHOOSE i \in DOMAIN d : d[i] = f]>>]
                           ELSE Cleared(Kind(f))
               o == [f \in Fields |-> value(f)]
    <3>1. objs' = [objs EXCEPT ![x] = o]  BY <1>2 DEF InitObject
    <3>2. ASSUME NEW f \in Fields PROVE o[f].has = FALSE
      <4>1. o[f] = value(f)  OBVIOUS
      <4>2. value(f).has = FALSE  BY DEF Cleared
      <4> QED  BY <4>1, <4>2
    <3> HIDE DEF o
    <3> QED  BY <3>1, <3>2
  <2>3. PICK o : (\A f \in Fields : o[f].has = FALSE) /\ objs' = [objs EXCEPT ![x] = o]  BY <2>2
  <2>4. ASSUME NEW y \in Objects, NEW f \in Fields PROVE objs'[y][f].has => schema[f].nullable
    <3>1. CASE y = x  BY <1>1, <2>3, <3>1
    <3>2. CASE y # x
      <4>1. objs'[y] = objs[y]  BY <1>1, <2>3, <3>2
      <4> QED  BY <4>1 DEF Flags
    <3> QED  BY <3>1, <3>2
  <2>5. Flags'  BY <2>1, <2>4, FlagsStep
  <2> QED  BY <2>1, <2>5, ExactElsewhere
<1>3. ASSUME NEW x \in Objects, Clear(x) PROVE Flags' /\ Exact'
  <2>1. schema' = schema /\ op'.call = "none" /\ objs' = [objs EXCEPT ![x] = Empty]
    BY <1>3 DEF Clear, Idle
  <2> QED  BY <2>1, MemoryFlags, ExactElsewhere
<1>4. ASSUME NEW x \in Objects, NEW y \in Objects, Move(x, y) PROVE Flags' /\ Exact'
  <2>1. schema' = schema /\ op'.call = "none" /\ objs' = [objs EXCEPT ![x] = objs[y], ![y] = Empty]
    BY <1>4 DEF Move, Idle
  <2>2. ASSUME NEW z \in Objects, NEW f \in Fields PROVE objs'[z][f].has => schema[f].nullable
    <3>1. objs'[z] = Empty \/ \E u \in Objects : objs'[z] = objs[u]  BY <1>1, <2>1
    <3>2. CASE objs'[z] = Empty
      <4>1. objs'[z][f] = Cleared(Kind(f))  BY <1>1, <3>2, EmptyIs
      <4> QED  BY <4>1, ClearedFlag
    <3>3. ASSUME NEW u \in Objects, objs'[z] = objs[u] PROVE objs'[z][f].has => schema[f].nullable
      BY <3>3 DEF Flags
    <3> QED  BY <3>1, <3>2, <3>3
  <2>3. Flags'  BY <2>1, <2>2, FlagsStep
  <2> QED  BY <2>1, <2>3, ExactElsewhere
<1>5. ASSUME NEW x \in Objects, NEW y \in Objects, StartCopy(x, y) PROVE Flags' /\ Exact'
  <2>1. schema' = schema /\ objs' = [objs EXCEPT ![x] = Empty]  BY <1>5 DEF StartCopy
  <2> QED  BY <1>5, <2>1, MemoryFlags, StartCopyExact
<1>6. ASSUME NEW x \in Objects, NEW selected \in SUBSET Fields, NEW masked \in BOOLEAN,
             StartParse(x, selected, masked) PROVE Flags' /\ Exact'
  <2>1. schema' = schema /\ objs' = objs /\ op'.call = "parse"  BY <1>6 DEF StartParse
  <2>2. Flags'  BY <2>1, FlagsStep DEF Flags
  <2> QED  BY <2>1, <2>2, ExactElsewhere
<1>7. ASSUME NEW f \in Fields, ParseField(f) PROVE Flags' /\ Exact'
  <2>1. op.call = "parse"  BY <1>7 DEF ParseField
  <2>2. Exact'  BY <1>7, <2>1, ParsedField, ExactElsewhere
  <2>3. CASE objs' = [objs EXCEPT ![op.dest] = Empty]  BY <1>7, <2>2, <2>3, ParsedField, MemoryFlags
  <2>4. ASSUME NEW v, v.has => schema[f].nullable, objs' = [objs EXCEPT ![op.dest][f] = v]
        PROVE  Flags'
    BY <1>7, <2>4, ParsedField, FieldFlags
  <2> QED  BY <1>7, <2>2, <2>3, <2>4, ParsedField
<1>8. ASSUME NEW f \in Fields, ParseNull(f) PROVE Flags' /\ Exact'
  <2> DEFINE x == op.dest
             v == Reset(Kind(f), objs[x][f]).value
  <2>1. /\ op.call = "parse" /\ schema' = schema
        /\ objs' = [objs EXCEPT ![x][f] = v] \/ objs' = objs
        /\ op' = op \/ op' = [op EXCEPT !.left = @ \ {f}]
    BY <1>8 DEF ParseNull
  <2>2. op \in [call : {"parse"}, dest : Objects, left : SUBSET Fields, masked : BOOLEAN]
    BY <2>1 DEF IInv, CallOK
  <2>3. op'.call = "parse"  BY <2>1, <2>2
  <2>4. x \in Objects  BY <2>2
  <2>5. v.has = FALSE  BY ClearedFlag DEF Reset
  <2> HIDE DEF v
  <2>6. Flags'
    <3>1. CASE objs' = [objs EXCEPT ![x][f] = v]  BY <2>1, <2>4, <2>5, <3>1, FieldFlags
    <3>2. CASE objs' = objs  BY <2>1, <3>2, FlagsStep DEF Flags
    <3> QED  BY <2>1, <3>1, <3>2
  <2> QED  BY <2>3, <2>6, ExactElsewhere
<1>9. ASSUME NEW f \in Fields, CopyField(f) PROVE Flags' /\ Exact'  BY <1>9, CopyFieldExact
<1>10. ASSUME NEW r \in {0, -1}, EndParse(r) PROVE Flags' /\ Exact'
  <2> DEFINE x == op.dest
  <2>1. /\ op.call = "parse" /\ schema' = schema
        /\ (op'.call = "done" /\ op'.of = op) \/ op'.call = "undefined"
    BY <1>10 DEF EndParse, ParseFails, Return, Undefined
  <2>2. x \in Objects  BY <2>1, ParsingType
  <2>3. objs' = objs \/ objs' = [objs EXCEPT ![x] = Empty] \/ objs' = [objs EXCEPT ![x] = objs[x]]
    BY <1>10 DEF EndParse, ParseFails
  <2>4. [objs EXCEPT ![x] = objs[x]] = objs  BY <1>1, <2>2
  <2>5. Flags'
    <3>1. CASE objs' = objs  BY <2>1, <3>1, FlagsStep DEF Flags
    <3>2. CASE objs' = [objs EXCEPT ![x] = Empty]  BY <2>1, <2>2, <3>2, MemoryFlags
    <3> QED  BY <2>3, <2>4, <3>1, <3>2
  <2> QED  BY <2>1, <2>5, ExactElsewhere
<1>11. ASSUME EndCopy PROVE Flags' /\ Exact'
  <2>1. schema' = schema /\ objs' = objs  BY <1>11 DEF EndCopy
  <2>2. Flags'  BY <2>1, FlagsStep DEF Flags
  <2> QED  BY <1>11, <2>2, EndCopyExact
<1>12. ASSUME UNCHANGED vars PROVE Flags' /\ Exact'
  <2>1. schema' = schema /\ objs' = objs /\ op' = op  BY <1>12 DEF vars
  <2>2. Flags'  BY <2>1, FlagsStep DEF Flags
  <2> QED  BY <2>1, <2>2, ExactKept
<1>13. ASSUME NEW x \in Objects, UseUnwritten(x) PROVE Flags' /\ Exact'
  <2>1. schema' = schema /\ objs' = objs /\ op'.call = "undefined"
    BY <1>13 DEF UseUnwritten, Undefined
  <2>2. Flags'  BY <2>1, FlagsStep DEF Flags
  <2> QED  BY <2>1, <2>2, ExactElsewhere
<1> QED  BY <1>2, <1>3, <1>4, <1>5, <1>6, <1>7, <1>8, <1>9, <1>10, <1>11, <1>12, <1>13 DEF Next

LEMMA ExactInit == Init => Flags /\ Exact
<1> SUFFICES ASSUME Init PROVE Flags /\ Exact  OBVIOUS
<1>1. schema \in Schemas /\ objs = [x \in Objects |-> Empty] /\ op.call = "none"  BY DEF Init, Idle
<1>2. ASSUME NEW x \in Objects, NEW f \in Fields PROVE objs[x][f].has = FALSE
  <2>1. objs[x][f] = Cleared(Kind(f))  BY <1>1, EmptyIs
  <2> QED  BY <2>1, ClearedFlag
<1> QED  BY <1>1, <1>2 DEF Flags, Exact, Copying, CopyExact

\* A copy (T_copy) of any struct that returns 0 has of every field what the
\* source has, one that returns -1 has left nothing in its destination,
\* whichever of its allocations failed.
THEOREM WholeCopyOrNone == Spec => []CopyExact
<1>1. Init => IInv /\ Flags /\ Exact  BY InitInv, ExactInit
<1>2. IInv /\ Flags /\ Exact /\ [Next]_vars => (IInv /\ Flags /\ Exact)'  BY StepsInv, ExactStep
<1>3. Exact => CopyExact  BY DEF Exact
<1> QED  BY <1>1, <1>2, <1>3, PTL DEF Spec
=============================================================================
