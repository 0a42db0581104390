---------------------------- MODULE HashMapProofs ----------------------------
(***************************************************************************)
(* Proofs about module HashMap, for every set of keys and values, every    *)
(* hash function and any number of buckets to start from: the table is     *)
(* the dictionary, and its load is bounded.                                *)
(*                                                                         *)
(* Two definitions are recursive: the chain a bucket gets when the table   *)
(* grows, and the sequence hash_map_for_each visits.  What is proved of    *)
(* them is proved by the least-number principle, as a property of sets.    *)
(***************************************************************************)
EXTENDS HashMap, FunctionTheorems, FiniteSetTheorems, SequenceTheorems,
        WellFoundedInduction, TLAPS

Entry == [key : Key, value : Value]
Chain == Seq(Entry)

\* No key twice in a chain.
Distinct(s) == \A i, j \in DOMAIN s : s[i].key = s[j].key => i = j

\* A table: as many chains as buckets, each key in the chain of its hash, once.
IsTable(t, n) ==
    /\ n \in Nat \ {0} /\ t \in [0 .. n - 1 -> Chain]
    /\ \A b \in 0 .. n - 1 : Distinct(t[b])
    /\ \A b \in 0 .. n - 1 : \A i \in DOMAIN t[b] : hash[t[b][i].key] % n = b

Entries(t) == UNION {ToSet(t[b]) : b \in DOMAIN t}
KeysOf(set) == {e.key : e \in set}

\* The inductive invariant.
IInv ==
    /\ hash \in Hashes
    /\ IsTable(buckets, Count)
    /\ IsFiniteSet(KeysOf(Contents)) /\ size = Cardinality(KeysOf(Contents))
    /\ size = 0 \/ 4 * (size - 1) < 3 * Count

-----------------------------------------------------------------------------
(***************************************************************************)
(* Induction.                                                              *)
(***************************************************************************)
LEMMA LeastNumber ==
    ASSUME NEW T \in SUBSET Nat, T # {} PROVE \E m \in T : \A n \in T : m <= n
<1>1. \E m \in T : \A n \in T : <<n, m>> \notin OpToRel(<, Nat)
  BY WFMin, NatLessThanWellFounded
<1>2. \A m, n \in Nat : n < m => <<n, m>> \in OpToRel(<, Nat)  BY DEF OpToRel
<1>3. \E m \in T : \A n \in T : ~(n < m)  BY <1>1, <1>2
<1> QED  BY <1>3

LEMMA Induction ==
    ASSUME NEW n \in Nat, NEW T, 0 \in T, \A m \in 1 .. n : m - 1 \in T => m \in T
    PROVE  0 .. n \subseteq T
<1> SUFFICES ASSUME ~(0 .. n \subseteq T) PROVE FALSE  OBVIOUS
<1> DEFINE U == (0 .. n) \ T
<1>1. U # {} /\ U \in SUBSET Nat  OBVIOUS
<1>2. PICK d \in U : \A e \in U : d <= e  BY <1>1, LeastNumber
<1>3. d # 0  BY <1>2
<1>4. d - 1 \notin U /\ d - 1 \in 0 .. n  BY <1>2, <1>3
<1>5. d - 1 \in T /\ d \in 1 .. n  BY <1>2, <1>3, <1>4
<1> QED  BY <1>2, <1>5

LEMMA UpTo == \A n \in Nat \ {0} : 1 .. n = (1 .. n - 1) \cup {n}
OBVIOUS

\* What is defined from one number to the next is defined.
IsStep(F, S, n) == \A i \in 1 .. n : \A v \in S : F[i][v] \in S
IsRecursion(g, S, base, F, n) ==
    g \in [0 .. n -> S] /\ g[0] = base /\ \A i \in 1 .. n : g[i] = F[i][g[i - 1]]

LEMMA Recursion ==
    ASSUME NEW S, NEW n \in Nat, NEW base \in S, NEW F, IsStep(F, S, n)
    PROVE  \E g : IsRecursion(g, S, base, F, n)
<1> DEFINE T == {m \in 0 .. n : \E g : IsRecursion(g, S, base, F, m)}
<1>1. 0 \in T
  <2>1. IsRecursion([i \in 0 .. 0 |-> base], S, base, F, 0)  BY DEF IsRecursion
  <2> QED  BY <2>1
<1>2. ASSUME NEW m \in 1 .. n, m - 1 \in T PROVE m \in T
  <2>1. PICK g : IsRecursion(g, S, base, F, m - 1)  BY <1>2
  <2> DEFINE h == [i \in 0 .. m |-> IF i = m THEN F[m][g[m - 1]] ELSE g[i]]
  <2>2. g[m - 1] \in S /\ F[m][g[m - 1]] \in S  BY <2>1 DEF IsRecursion, IsStep
  <2>3. h \in [0 .. m -> S]  BY <2>1, <2>2 DEF IsRecursion
  <2>4. h[0] = base  BY <2>1 DEF IsRecursion
  <2>5. ASSUME NEW i \in 1 .. m PROVE h[i] = F[i][h[i - 1]]
    <3>1. CASE i = m  BY <3>1
    <3>2. CASE i # m
      <4>1. i \in 1 .. m - 1 /\ h[i] = g[i] /\ h[i - 1] = g[i - 1]  BY <3>2
      <4> QED  BY <4>1, <2>1 DEF IsRecursion
    <3> QED  BY <3>1, <3>2
  <2> HIDE DEF h
  <2>6. IsRecursion(h, S, base, F, m)  BY <2>3, <2>4, <2>5 DEF IsRecursion
  <2> QED  BY <2>6
<1>3. n \in T
  <2> HIDE DEF T
  <2>1. 0 .. n \subseteq T  BY <1>1, <1>2, Induction
  <2> QED  BY <2>1
<1> QED  BY <1>3

-----------------------------------------------------------------------------
(***************************************************************************)
(* Arithmetic: the new bucket of a key tells its old one.                  *)
(***************************************************************************)
LEMMA MulMono == ASSUME NEW c \in Nat, NEW a \in Int, NEW b \in Int, a <= b PROVE c * a <= c * b
<1>1. c * (b - a) \in Nat  OBVIOUS
<1>2. c * (b - a) = c * b - c * a  OBVIOUS
<1> QED  BY <1>1, <1>2

LEMMA DivMod ==
    ASSUME NEW x \in Nat, NEW n \in Nat \ {0}
    PROVE  \E q \in Nat, r \in 0 .. n - 1 : x = n * q + r /\ x % n = r
<1> DEFINE q == x \div n
           r == x % n
<1>1. x = q * n + r /\ q \in Int /\ r \in 0 .. n - 1  OBVIOUS
<1>2. r = x % n  OBVIOUS
<1> HIDE DEF q, r
<1>3. x = n * q + r  BY <1>1
<1>4. q >= 0
  <2> SUFFICES ASSUME q <= -1 PROVE FALSE  BY <1>1
  <2>1. n * q <= n * (-1)  BY <1>1, MulMono
  <2>2. n * (-1) = -n  OBVIOUS
  <2> DEFINE p == n * q
  <2>3. p \in Int /\ p <= -n /\ x = p + r  BY <1>1, <1>3, <2>1, <2>2
  <2> HIDE DEF p
  <2>4. r \in 0 .. n - 1  BY <1>1
  <2> QED  BY <2>3, <2>4
<1>5. q \in Nat /\ r \in 0 .. n - 1 /\ x = n * q + r /\ x % n = r  BY <1>1, <1>2, <1>3, <1>4
<1> QED  BY <1>5, Zenon

LEMMA ModUnique == ASSUME NEW c \in Nat \ {0}, NEW q \in Nat, NEW r \in 0..c-1 PROVE (c * q + r) % c = r
<1> DEFINE x == c * q + r
<1>1. x \in Nat  OBVIOUS
<1>2. x = c * q + r  OBVIOUS
<1> HIDE DEF x
<1>3. PICK p \in Nat, s \in 0 .. c - 1 : x = c * p + s /\ x % c = s  BY <1>1, DivMod
<1>4. CASE p >= q + 1
  <2>1. c * (q + 1) <= c * p  BY <1>4, MulMono
  <2>2. c * (q + 1) = c * q + c  OBVIOUS
  <2> QED  BY <1>2, <1>3, <2>1, <2>2
<1>5. CASE q >= p + 1
  <2>1. c * (p + 1) <= c * q  BY <1>5, MulMono
  <2>2. c * (p + 1) = c * p + c  OBVIOUS
  <2> QED  BY <1>2, <1>3, <2>1, <2>2
<1>6. CASE p = q  BY <1>2, <1>3, <1>6 DEF x
<1> QED  BY <1>4, <1>5, <1>6

\* A number modulo twice as many buckets tells it modulo as many.

LEMMA ModTwice == ASSUME NEW x \in Nat, NEW c \in Nat \ {0} PROVE (x % (2 * c)) % c = x % c
<1> DEFINE d == 2 * c
<1>1. d \in Nat \ {0} /\ d = 2 * c  OBVIOUS
<1> HIDE DEF d
<1>2. PICK q \in Nat, r \in 0 .. d - 1 : x = d * q + r /\ x % d = r  BY <1>1, DivMod
<1>3. CASE r < c
  <2>1. x = c * (2 * q) + r  BY <1>1, <1>2
  <2>2. c * 0 + r = r /\ r \in 0 .. c - 1  BY <1>3
  <2>3. x % c = r  BY <2>1, <2>2, ModUnique
  <2>4. (c * 0 + r) % c = r  BY <2>2, ModUnique
  <2> QED  BY <1>2, <2>2, <2>3, <2>4 DEF d
<1>4. CASE r >= c
  <2>1. x = c * (2 * q + 1) + (r - c)  BY <1>1, <1>2
  <2>2. c * 1 + (r - c) = r /\ r - c \in 0 .. c - 1 /\ 2 * q + 1 \in Nat  BY <1>1, <1>4
  <2>3. x % c = r - c  BY <2>1, <2>2, ModUnique
  <2>4. (c * 1 + (r - c)) % c = r - c  BY <2>2, ModUnique
  <2> QED  BY <1>2, <2>2, <2>3, <2>4 DEF d
<1> QED  BY <1>3, <1>4

-----------------------------------------------------------------------------
(***************************************************************************)
(* Chains.                                                                 *)
(***************************************************************************)
\* What an append of two chains without a key in common is.
LEMMA Joined ==
    ASSUME NEW s \in Chain, NEW t \in Chain, Distinct(s), Distinct(t),
           \A i \in DOMAIN s, j \in DOMAIN t : s[i].key # t[j].key
    PROVE  s \o t \in Chain /\ Distinct(s \o t) /\ ToSet(s \o t) = ToSet(s) \cup ToSet(t)
<1> DEFINE m == Len(s)
           n == Len(t)
           u == s \o t
<1>1. /\ u \in Chain /\ Len(u) = m + n /\ m \in Nat /\ n \in Nat
      /\ \A i \in 1 .. m + n : u[i] = IF i <= m THEN s[i] ELSE t[i - m]
      /\ DOMAIN s = 1 .. m /\ DOMAIN t = 1 .. n /\ DOMAIN u = 1 .. m + n
  BY ConcatProperties, LenProperties DEF Chain
<1> HIDE DEF m, n, u
<1>2. ASSUME NEW i \in 1 .. m + n, NEW j \in 1 .. m + n, u[i].key = u[j].key PROVE i = j
  <2>1. CASE i <= m /\ j <= m  BY <1>1, <1>2, <2>1 DEF Distinct
  <2>2. CASE i > m /\ j > m
    <3>1. i - m \in 1 .. n /\ j - m \in 1 .. n /\ t[i - m].key = t[j - m].key  BY <1>1, <1>2, <2>2
    <3>2. i - m = j - m  BY <1>1, <3>1 DEF Distinct
    <3> QED  BY <1>1, <3>2
  <2>3. CASE i <= m /\ j > m
    <3>1. i \in 1 .. m /\ j - m \in 1 .. n /\ s[i].key = t[j - m].key  BY <1>1, <1>2, <2>3
    <3> QED  BY <1>1, <3>1
  <2>4. CASE i > m /\ j <= m
    <3>1. j \in 1 .. m /\ i - m \in 1 .. n /\ s[j].key = t[i - m].key  BY <1>1, <1>2, <2>4
    <3> QED  BY <1>1, <3>1
  <2> QED  BY <1>1, <2>1, <2>2, <2>3, <2>4
<1>3. \A i \in 1 .. m : i \in 1 .. m + n /\ u[i] = s[i]  BY <1>1
<1>4. \A j \in 1 .. n : m + j \in 1 .. m + n /\ u[m + j] = t[j]  BY <1>1
<1>5. \A k \in 1 .. m + n : (k \in 1 .. m /\ u[k] = s[k]) \/ (k - m \in 1 .. n /\ u[k] = t[k - m])
  BY <1>1
<1>6. ToSet(u) = ToSet(s) \cup ToSet(t)
  <2>1. ToSet(s) = {s[i] : i \in 1 .. m} /\ ToSet(t) = {t[i] : i \in 1 .. n}
        /\ ToSet(u) = {u[i] : i \in 1 .. m + n}
    BY <1>1 DEF ToSet
  <2>2. ToSet(u) \subseteq ToSet(s) \cup ToSet(t)  BY <1>5, <2>1
  <2>3. ToSet(s) \subseteq ToSet(u)  BY <1>3, <2>1
  <2>4. ToSet(t) \subseteq ToSet(u)  BY <1>4, <2>1
  <2> QED  BY <2>2, <2>3, <2>4
<1> QED  BY <1>1, <1>2, <1>6 DEF Distinct, u

LEMMA Single == ASSUME NEW e \in Entry PROVE <<e>> \in Chain /\ Distinct(<<e>>) /\ ToSet(<<e>>) = {e}
BY DEF Chain, Distinct, ToSet

\* A chain with one more entry at its head.
LEMMA Headed ==
    ASSUME NEW e \in Entry, NEW s \in Chain, Distinct(s), \A f \in ToSet(s) : f.key # e.key
    PROVE  <<e>> \o s \in Chain /\ Distinct(<<e>> \o s) /\ ToSet(<<e>> \o s) = {e} \cup ToSet(s)
<1>1. \A i \in DOMAIN <<e>>, j \in DOMAIN s : <<e>>[i].key # s[j].key  BY DEF ToSet
<1> QED  BY <1>1, Single, Joined

LEMMA EntryFacts ==
    ASSUME IInv
    PROVE  /\ Count \in Nat \ {0} /\ DOMAIN buckets = 0 .. Count - 1
           /\ \A b \in 0 .. Count - 1 : buckets[b] \in Chain
           /\ hash \in [Key -> Nat]
           /\ \A e \in Entry, n \in Nat \ {0} : hash[e.key] % n \in 0 .. n - 1
<1>1. hash \in [Key -> Nat]  BY HashMapAssumption DEF IInv
<1>2. \A e \in Entry, n \in Nat \ {0} : hash[e.key] % n \in 0 .. n - 1  BY <1>1 DEF Entry
<1> QED  BY <1>1, <1>2 DEF IInv, IsTable

\* What hash_map_resize_if_needed moves to bucket b of the larger table.
LEMMA NewChainExact ==
    ASSUME IInv, NEW b \in 0 .. 2 * Count - 1
    PROVE  /\ NewChain(b) \in Chain /\ Distinct(NewChain(b))
           /\ ToSet(NewChain(b)) = {e \in ToSet(buckets[b % Count]) : hash[e.key] % (2 * Count) = b}
<1> DEFINE old == buckets[b % Count]
           here(e) == hash[e.key] % (2 * Count) = b
           step == [i \in 1 .. Len(old) |-> [v \in Chain |->
                      IF here(old[i]) THEN <<old[i]>> \o v ELSE v]]
           moved[n \in 0 .. Len(old)] ==
             IF n = 0 THEN <<>>
             ELSE IF hash[old[n].key] % (2 * Count) = b THEN <<old[n]>> \o moved[n - 1]
             ELSE moved[n - 1]
<1>1. Count \in Nat \ {0} /\ b % Count \in 0 .. Count - 1 /\ old \in Chain /\ Distinct(old)
  <2>1. Count \in Nat \ {0}  BY EntryFacts
  <2>2. b % Count \in 0 .. Count - 1  BY <2>1
  <2> QED  BY <2>1, <2>2, EntryFacts DEF IInv, IsTable
<1>2. Len(old) \in Nat /\ DOMAIN old = 1 .. Len(old) /\ \A i \in 1 .. Len(old) : old[i] \in Entry
  BY <1>1 DEF Chain
<1>3. NewChain(b) = moved[Len(old)]  BY DEF NewChain
<1>4. moved = [n \in 0 .. Len(old) |->
                 IF n = 0 THEN <<>>
                 ELSE IF hash[old[n].key] % (2 * Count) = b THEN <<old[n]>> \o moved[n - 1]
                 ELSE moved[n - 1]]
  <2> HIDE DEF old
  <2>1. <<>> \in Chain  BY DEF Chain
  <2>2. ASSUME NEW i \in 1 .. Len(old), NEW v \in Chain PROVE step[i][v] \in Chain
    <3>1. <<old[i]>> \in Chain  BY <1>2 DEF Chain
    <3> QED  BY <3>1 DEF Chain
  <2>3. IsStep(step, Chain, Len(old))
    <3> HIDE DEF step
    <3> QED  BY <2>2 DEF IsStep
  <2>4. PICK g : IsRecursion(g, Chain, <<>>, step, Len(old))
    <3> HIDE DEF step
    <3> QED  BY <1>2, <2>1, <2>3, Recursion
  <2>5. \A n \in 0 .. Len(old) :
            g[n] = IF n = 0 THEN <<>>
                   ELSE IF hash[old[n].key] % (2 * Count) = b THEN <<old[n]>> \o g[n - 1]
                   ELSE g[n - 1]
    <3> TAKE n \in 0 .. Len(old)
    <3>1. CASE n = 0  BY <2>4, <3>1 DEF IsRecursion
    <3>2. CASE n # 0
      <4>1. n \in 1 .. Len(old) /\ n - 1 \in 0 .. Len(old) /\ g[n - 1] \in Chain
        BY <1>2, <2>4, <3>2 DEF IsRecursion
      <4>2. g[n] = step[n][g[n - 1]]
        <5> HIDE DEF step
        <5> QED  BY <2>4, <4>1 DEF IsRecursion
      <4> QED  BY <3>2, <4>1, <4>2
    <3> QED  BY <3>1, <3>2
  <2>6. g = [n \in 0 .. Len(old) |->
                 IF n = 0 THEN <<>>
                 ELSE IF hash[old[n].key] % (2 * Count) = b THEN <<old[n]>> \o g[n - 1]
                 ELSE g[n - 1]]
    <3>1. g \in [0 .. Len(old) -> Chain]  BY <2>4 DEF IsRecursion
    <3> QED  BY <2>5, <3>1
  <2> QED  BY <2>6
<1> HIDE DEF moved, old
<1> DEFINE sofar(n) == {old[i] : i \in {j \in 1 .. n : here(old[j])}}
           T == {n \in 0 .. Len(old) :
                   moved[n] \in Chain /\ Distinct(moved[n]) /\ ToSet(moved[n]) = sofar(n)}
<1>5. 0 \in T
  <2>1. moved[0] = <<>> /\ sofar(0) = {}  BY <1>2, <1>4
  <2>2. <<>> \in Chain /\ Distinct(<<>>) /\ ToSet(<<>>) = {}  BY DEF Chain, Distinct, ToSet
  <2> QED  BY <1>2, <2>1, <2>2
<1>6. ASSUME NEW n \in 1 .. Len(old), n - 1 \in T PROVE n \in T
  <2>1. n \in 1 .. Len(old) /\ n - 1 \in 0 .. Len(old) /\ n \in 0 .. Len(old) /\ n \in Nat \ {0}  BY <1>2
  <2>2. 1 .. n = (1 .. n - 1) \cup {n}  BY <2>1, UpTo
  <2>3. CASE here(old[n])
    <3>1. moved[n] = <<old[n]>> \o moved[n - 1]  BY <1>4, <2>1, <2>3
    <3>2. sofar(n) = {old[n]} \cup sofar(n - 1)  BY <2>2, <2>3
    <3>3. \A f \in ToSet(moved[n - 1]) : f.key # old[n].key
      <4>1. \A i \in 1 .. n - 1 : old[i].key # old[n].key  BY <1>1, <1>2, <2>1 DEF Distinct
      <4>2. ToSet(moved[n - 1]) = sofar(n - 1)  BY <1>6
      <4> QED  BY <4>1, <4>2
    <3>4. old[n] \in Entry /\ moved[n - 1] \in Chain /\ Distinct(moved[n - 1])  BY <1>2, <1>6, <2>1
    <3>5. moved[n] \in Chain /\ Distinct(moved[n]) /\ ToSet(moved[n]) = {old[n]} \cup ToSet(moved[n - 1])
      BY <3>1, <3>3, <3>4, Headed
    <3>6. ToSet(moved[n - 1]) = sofar(n - 1)  BY <1>6
    <3>7. ToSet(moved[n]) = sofar(n)  BY <3>2, <3>5, <3>6
    <3> QED  BY <2>1, <3>5, <3>7
  <2>4. CASE ~here(old[n])
    <3>1. moved[n] = moved[n - 1]  BY <1>4, <2>1, <2>4
    <3>2. sofar(n) = sofar(n - 1)  BY <2>2, <2>4
    <3> QED  BY <1>6, <2>1, <3>1, <3>2
  <2> QED  BY <2>3, <2>4
<1>7. Len(old) \in T
  <2> HIDE DEF T
  <2>1. Len(old) \in 0 .. Len(old)  BY <1>2
  <2>2. 0 .. Len(old) \subseteq T  BY <1>2, <1>5, <1>6, Induction
  <2> QED  BY <2>1, <2>2
<1>8. sofar(Len(old)) = {e \in ToSet(old) : here(e)}  BY <1>2 DEF ToSet
<1> QED  BY <1>3, <1>7, <1>8 DEF old

\* What hash_map_for_each visits.
LEMMA FlattenExact ==
    ASSUME NEW m \in Nat \ {0}, NEW seqs \in [1 .. m -> Chain],
           \A i \in 1 .. m : Distinct(seqs[i]),
           \A i, j \in 1 .. m : i # j => \A e \in ToSet(seqs[i]), f \in ToSet(seqs[j]) : e.key # f.key
    PROVE  /\ FlattenSeq(seqs) \in Chain /\ Distinct(FlattenSeq(seqs))
           /\ ToSet(FlattenSeq(seqs)) = UNION {ToSet(seqs[i]) : i \in 1 .. m}
<1> DEFINE flatten[i \in 1 .. Len(seqs)] == IF i = 1 THEN seqs[i] ELSE flatten[i - 1] \o seqs[i]
           step == [i \in 1 .. m |-> [v \in Chain |-> IF i = 1 THEN seqs[i] ELSE v \o seqs[i]]]
<1>1. seqs \in Seq(Chain) /\ Len(seqs) = m /\ m \in 1 .. m /\ m \in Nat  OBVIOUS
<1>2. FlattenSeq(seqs) = flatten[m]
  <2>1. FlattenSeq(seqs) = flatten[Len(seqs)]  BY <1>1 DEF FlattenSeq
  <2> QED  BY <1>1, <2>1
<1>3. flatten = [i \in 1 .. m |-> IF i = 1 THEN seqs[i] ELSE flatten[i - 1] \o seqs[i]]
  <2>1. <<>> \in Chain  BY DEF Chain
  <2>2. ASSUME NEW i \in 1 .. m, NEW v \in Chain PROVE step[i][v] \in Chain  BY DEF Chain
  <2>3. IsStep(step, Chain, m)
    <3> HIDE DEF step
    <3> QED  BY <2>2 DEF IsStep
  <2>4. PICK g : IsRecursion(g, Chain, <<>>, step, m)
    <3> HIDE DEF step
    <3> QED  BY <1>1, <2>1, <2>3, Recursion
  <2> DEFINE h == [i \in 1 .. m |-> g[i]]
  <2>5. \A i \in 1 .. m : h[i] = IF i = 1 THEN seqs[i] ELSE h[i - 1] \o seqs[i]
    <3> TAKE i \in 1 .. m
    <3>1. i - 1 \in 0 .. m /\ g[i - 1] \in Chain  BY <2>4 DEF IsRecursion
    <3>2. g[i] = step[i][g[i - 1]]
      <4> HIDE DEF step
      <4> QED  BY <2>4 DEF IsRecursion
    <3>3. g[i] = IF i = 1 THEN seqs[i] ELSE g[i - 1] \o seqs[i]  BY <3>1, <3>2
    <3>4. i # 1 => h[i - 1] = g[i - 1]  OBVIOUS
    <3> QED  BY <3>3, <3>4
  <2>6. h = [i \in 1 .. m |-> IF i = 1 THEN seqs[i] ELSE h[i - 1] \o seqs[i]]  BY <2>5
  <2> HIDE DEF h
  <2>7. \E f : f = [i \in 1 .. Len(seqs) |-> IF i = 1 THEN seqs[i] ELSE f[i - 1] \o seqs[i]]  BY <1>1, <2>6
  <2>8. flatten = [i \in 1 .. Len(seqs) |-> IF i = 1 THEN seqs[i] ELSE flatten[i - 1] \o seqs[i]]
    BY <2>7
  <2> QED  BY <1>1, <2>8
<1> HIDE DEF flatten
<1> DEFINE upTo(n) == UNION {ToSet(seqs[i]) : i \in 1 .. n}
           T == {n \in 0 .. m : n # 0 => /\ flatten[n] \in Chain /\ Distinct(flatten[n])
                                         /\ ToSet(flatten[n]) = upTo(n)}
<1>4. 0 \in T  OBVIOUS
<1>5. ASSUME NEW n \in 1 .. m, n - 1 \in T PROVE n \in T
  <2>1. n \in Nat \ {0} /\ n \in 1 .. m /\ n \in 0 .. m /\ (n # 1 => n - 1 \in 1 .. m)  OBVIOUS
  <2>2. CASE n = 1
    <3>1. flatten[1] = seqs[1]  BY <1>3, <2>1, <2>2
    <3>2. upTo(1) = ToSet(seqs[1])  OBVIOUS
    <3> QED  BY <2>2, <3>1, <3>2
  <2>3. CASE n # 1
    <3>1. flatten[n] = flatten[n - 1] \o seqs[n]  BY <1>3, <2>1, <2>3
    <3>2. 1 .. n = (1 .. n - 1) \cup {n}  BY <2>1, UpTo
    <3>3. flatten[n - 1] \in Chain /\ Distinct(flatten[n - 1]) /\ ToSet(flatten[n - 1]) = upTo(n - 1)
      BY <1>5, <2>3
    <3>4. \A e \in upTo(n - 1), f \in ToSet(seqs[n]) : e.key # f.key
      <4>1. \A i \in 1 .. n - 1 : i # n /\ i \in 1 .. m  BY <2>1
      <4> QED  BY <2>1, <4>1
    <3>5. \A i \in DOMAIN flatten[n - 1], j \in DOMAIN seqs[n] : flatten[n - 1][i].key # seqs[n][j].key
      <4>1. \A i \in DOMAIN flatten[n - 1] : flatten[n - 1][i] \in upTo(n - 1)  BY <3>3 DEF ToSet
      <4>2. \A j \in DOMAIN seqs[n] : seqs[n][j] \in ToSet(seqs[n])  BY DEF ToSet
      <4> QED  BY <3>4, <4>1, <4>2
    <3>6. /\ flatten[n] \in Chain /\ Distinct(flatten[n])
          /\ ToSet(flatten[n]) = ToSet(flatten[n - 1]) \cup ToSet(seqs[n])
      <4>1. seqs[n] \in Chain /\ Distinct(seqs[n])  BY <2>1
      <4> QED  BY <3>1, <3>3, <3>5, <4>1, Joined
    <3>7. upTo(n) = upTo(n - 1) \cup ToSet(seqs[n])  BY <3>2
    <3>8. ToSet(flatten[n]) = upTo(n)  BY <3>3, <3>6, <3>7
    <3> QED  BY <2>1, <3>6, <3>8
  <2> QED  BY <2>2, <2>3
<1>6. m \in T
  <2> HIDE DEF T
  <2>1. 0 .. m \subseteq T  BY <1>1, <1>4, <1>5, Induction
  <2> QED  BY <1>1, <2>1
<1> QED  BY <1>1, <1>2, <1>6

\* A chain without the entry at place p.
LEMMA Unlinked ==
    ASSUME NEW s \in Chain, Distinct(s), NEW p \in DOMAIN s
    PROVE  /\ RemoveAt(s, p) \in Chain /\ Distinct(RemoveAt(s, p))
           /\ ToSet(RemoveAt(s, p)) = {e \in ToSet(s) : e.key # s[p].key}
<1> DEFINE a == SubSeq(s, 1, p - 1)
           b == SubSeq(s, p + 1, Len(s))
<1>1. Len(s) \in Nat /\ DOMAIN s = 1 .. Len(s) /\ p \in 1 .. Len(s) /\ \A i \in 1 .. Len(s) : s[i] \in Entry
  BY DEF Chain
<1>2. /\ a \in Chain /\ Len(a) = p - 1 /\ \A i \in 1 .. p - 1 : a[i] = s[i]
      /\ b \in Chain /\ Len(b) = Len(s) - p /\ \A i \in 1 .. Len(s) - p : b[i] = s[p + i]
  <2>1. s \in Seq(Entry)  BY DEF Chain
  <2>2. a \in Seq(Entry) /\ Len(a) = p - 1 /\ \A i \in 1 .. p - 1 : a[i] = s[i]  BY <1>1, <2>1
  <2>3. b \in Seq(Entry) /\ Len(b) = Len(s) - p  BY <1>1, <2>1
  <2>4. \A i \in 1 .. Len(s) - p : b[i] = s[p + i]  BY <1>1, <2>1
  <2> QED  BY <2>2, <2>3, <2>4 DEF Chain
<1> HIDE DEF a, b
<1>3. DOMAIN a = 1 .. p - 1 /\ DOMAIN b = 1 .. Len(s) - p  BY <1>2 DEF Chain
<1>4. Distinct(a) /\ Distinct(b)
  <2>1. Distinct(a)  BY <1>1, <1>2, <1>3 DEF Distinct
  <2>2. ASSUME NEW i \in 1 .. Len(s) - p, NEW j \in 1 .. Len(s) - p, b[i].key = b[j].key PROVE i = j
    <3>1. p + i \in DOMAIN s /\ p + j \in DOMAIN s /\ s[p + i].key = s[p + j].key  BY <1>1, <1>2, <2>2
    <3>2. p + i = p + j  BY <3>1 DEF Distinct
    <3> QED  BY <1>1, <3>2
  <2> QED  BY <1>3, <2>1, <2>2 DEF Distinct
<1>5. ASSUME NEW i \in DOMAIN a, NEW j \in DOMAIN b PROVE a[i].key # b[j].key
  <2>1. i \in DOMAIN s /\ p + j \in DOMAIN s /\ i # p + j /\ a[i] = s[i] /\ b[j] = s[p + j]
    BY <1>1, <1>2, <1>3
  <2> QED  BY <2>1 DEF Distinct
<1>6. RemoveAt(s, p) = a \o b  BY DEF RemoveAt, a, b
<1>7. a \o b \in Chain /\ Distinct(a \o b) /\ ToSet(a \o b) = ToSet(a) \cup ToSet(b)
  BY <1>2, <1>4, <1>5, Joined
<1>8. ToSet(a) \cup ToSet(b) = {e \in ToSet(s) : e.key # s[p].key}
  <2>1. \A i \in DOMAIN a : i \in DOMAIN s /\ i # p /\ a[i] = s[i]  BY <1>1, <1>2, <1>3
  <2>2. \A i \in DOMAIN b : p + i \in DOMAIN s /\ p + i # p /\ b[i] = s[p + i]  BY <1>1, <1>2, <1>3
  <2>3. \A i \in DOMAIN s : i # p => s[i].key # s[p].key  BY DEF Distinct
  <2>4. \A i \in DOMAIN s : i # p => (i \in DOMAIN a /\ a[i] = s[i]) \/ (i - p \in DOMAIN b /\ b[i - p] = s[i])
    BY <1>1, <1>2, <1>3
  <2>5. \A e \in ToSet(a) \cup ToSet(b) : e \in ToSet(s) /\ e.key # s[p].key
    BY <2>1, <2>2, <2>3 DEF ToSet
  <2>6. \A e \in ToSet(s) : e.key # s[p].key => e \in ToSet(a) \cup ToSet(b)  BY <2>4 DEF ToSet
  <2> QED  BY <2>5, <2>6
<1> QED  BY <1>6, <1>7, <1>8

-----------------------------------------------------------------------------
(***************************************************************************)
(* Tables.                                                                 *)
(***************************************************************************)
LEMMA TableFacts ==
    ASSUME IInv, NEW t, NEW n, IsTable(t, n)
    PROVE  /\ n \in Nat \ {0} /\ DOMAIN t = 0 .. n - 1 /\ Cardinality(DOMAIN t) = n
           /\ \A b \in 0 .. n - 1 : t[b] \in Chain /\ Distinct(t[b])
           /\ \A b \in 0 .. n - 1 : \A e \in ToSet(t[b]) : e \in Entry /\ hash[e.key] % n = b
           /\ \A k \in Key : hash[k] % n \in 0 .. n - 1
<1>1. n \in Nat \ {0} /\ DOMAIN t = 0 .. n - 1  BY DEF IsTable
<1>2. Cardinality(0 .. n - 1) = n  BY <1>1, FS_Interval
<1>3. ASSUME NEW b \in 0 .. n - 1, NEW e \in ToSet(t[b]) PROVE e \in Entry /\ hash[e.key] % n = b
  <2>1. PICK i \in DOMAIN t[b] : e = t[b][i]  BY DEF ToSet
  <2>2. t[b] \in Seq(Entry)  BY DEF IsTable, Chain
  <2>3. t[b][i] \in Entry  BY <2>1, <2>2
  <2> QED  BY <2>1, <2>3 DEF IsTable
<1>4. \A k \in Key : hash[k] % n \in 0 .. n - 1  BY <1>1, EntryFacts
<1> QED  BY <1>1, <1>2, <1>3, <1>4 DEF IsTable

\* The entry of a key is in the chain of its hash, and nowhere else.
LEMMA EntryOf ==
    ASSUME IInv, NEW t, NEW n, IsTable(t, n), NEW e \in Entries(t)
    PROVE  /\ e \in Entry /\ e \in ToSet(t[hash[e.key] % n])
           /\ \A f \in Entries(t) : f.key = e.key => f = e
<1>1. \A f \in Entries(t) : f \in Entry /\ f \in ToSet(t[hash[f.key] % n])
  BY TableFacts DEF Entries
<1>2. ASSUME NEW f \in Entries(t), f.key = e.key PROVE f = e
  <2> DEFINE s == t[hash[e.key] % n]
  <2>1. e \in ToSet(s) /\ f \in ToSet(s)  BY <1>1, <1>2
  <2>2. PICK i \in DOMAIN s, j \in DOMAIN s : e = s[i] /\ f = s[j]  BY <2>1 DEF ToSet
  <2>3. Distinct(s)  BY <1>1, TableFacts DEF Entry
  <2>4. i = j  BY <1>2, <2>2, <2>3 DEF Distinct
  <2> QED  BY <2>2, <2>4
<1> QED  BY <1>1, <1>2

\* A key is in a chain exactly when it is in the table.
LEMMA KnownExact ==
    ASSUME IInv, NEW t, NEW n, IsTable(t, n), NEW k \in Key
    PROVE  /\ Known(t, k) <=> k \in KeysOf(Entries(t))
           /\ \A e \in ToSet(t[hash[k] % n]) : e \in Entries(t)
<1>1. Cardinality(DOMAIN t) = n /\ hash[k] % n \in DOMAIN t  BY TableFacts
<1>2. \A e \in ToSet(t[hash[k] % n]) : e \in Entries(t)  BY <1>1 DEF Entries
<1>3. Known(t, k) => k \in KeysOf(Entries(t))  BY <1>1, <1>2 DEF Known, Keys, KeysOf
<1>4. ASSUME NEW e \in Entries(t), e.key = k PROVE Known(t, k)
  <2>1. e \in ToSet(t[hash[k] % n])  BY <1>4, EntryOf
  <2> QED  BY <1>1, <1>4, <2>1 DEF Known, Keys
<1>5. k \in KeysOf(Entries(t)) => Known(t, k)  BY <1>4 DEF KeysOf
<1> QED  BY <1>2, <1>3, <1>5

\* The larger table has the same entries.
LEMMA ResizedExact == ASSUME IInv PROVE IsTable(Resized, 2 * Count) /\ Entries(Resized) = Contents
<1> DEFINE n == 2 * Count
<1>1. IsTable(buckets, Count) /\ Count \in Nat \ {0} /\ n \in Nat \ {0}  BY EntryFacts DEF IInv
<1>2. DOMAIN Resized = 0 .. n - 1 /\ \A b \in 0 .. n - 1 : Resized[b] = NewChain(b)  BY DEF Resized
<1>3. \A b \in 0 .. n - 1 :
        /\ Resized[b] \in Chain /\ Distinct(Resized[b])
        /\ ToSet(Resized[b]) = {e \in ToSet(buckets[b % Count]) : hash[e.key] % n = b}
  BY <1>2, NewChainExact
<1>4. Resized \in [0 .. n - 1 -> Chain]
  <2>1. Resized = [b \in 0 .. n - 1 |-> NewChain(b)]  BY DEF Resized
  <2> HIDE DEF n
  <2> QED  BY <1>2, <1>3, <2>1
<1>5. \A b \in 0 .. n - 1 : \A i \in DOMAIN Resized[b] : hash[Resized[b][i].key] % n = b
  BY <1>3 DEF ToSet
<1>6. IsTable(Resized, n)  BY <1>1, <1>3, <1>4, <1>5 DEF IsTable
<1> HIDE DEF n
<1>7. \A b \in 0 .. n - 1 : b % Count \in 0 .. Count - 1  BY <1>1
<1>8. Entries(Resized) \subseteq Contents
  <2>1. \A b \in 0 .. n - 1 : ToSet(Resized[b]) \subseteq ToSet(buckets[b % Count])  BY <1>3
  <2>2. DOMAIN buckets = 0 .. Count - 1  BY EntryFacts
  <2> QED  BY <1>2, <1>7, <2>1, <2>2 DEF Entries, Contents
<1>9. ASSUME NEW e \in Contents PROVE e \in Entries(Resized)
  <2>1. e \in Entry /\ e \in ToSet(buckets[hash[e.key] % Count])
    <3>1. e \in Entries(buckets)  BY DEF Contents, Entries
    <3> QED  BY <1>1, <3>1, EntryOf
  <2> DEFINE b == hash[e.key] % n
  <2>2. hash[e.key] \in Nat /\ b \in 0 .. n - 1  BY <1>1, <2>1, EntryFacts DEF Entry
  <2>3. b % Count = hash[e.key] % Count  BY <1>1, <2>2, ModTwice DEF n
  <2>4. e \in ToSet(Resized[b])  BY <1>3, <2>1, <2>2, <2>3
  <2> QED  BY <1>2, <2>2, <2>4 DEF Entries
<1> QED  BY <1>6, <1>8, <1>9 DEF n

\* Whether it grows or not, the table has room for one more when it is inserted to.
LEMMA GrownExact ==
    ASSUME IInv
    PROVE  \E n \in Nat : /\ IsTable(Grown, n) /\ Entries(Grown) = Contents
                          /\ n >= Count /\ 4 * size < 3 * n
<1>1. IsTable(buckets, Count) /\ Count \in Nat \ {0} /\ Entries(buckets) = Contents
  BY EntryFacts DEF IInv, Entries, Contents
<1>2. size \in Nat  BY FS_CardinalityType DEF IInv
<1>3. CASE NeedsResize
  <2>1. Grown = Resized /\ 2 * Count \in Nat /\ 2 * Count >= Count  BY <1>1, <1>3 DEF Grown
  <2>2. size = 0 \/ 4 * (size - 1) < 3 * Count  BY DEF IInv
  <2>3. 4 * size < 3 * (2 * Count)  BY <1>1, <1>2, <2>2
  <2> QED  BY <2>1, <2>3, ResizedExact
<1>4. CASE ~NeedsResize
  <2>1. Grown = buckets /\ 4 * size < 3 * Count  BY <1>1, <1>2, <1>4 DEF Grown, NeedsResize
  <2> QED  BY <1>1, <2>1
<1> QED  BY <1>3, <1>4

\* One more entry.
LEMMA LinkedExact ==
    ASSUME IInv, NEW t, NEW n, IsTable(t, n), NEW k \in Key, NEW v \in Value, ~Known(t, k)
    PROVE  /\ IsTable(Linked(t, k, v), n)
           /\ Entries(Linked(t, k, v)) = Entries(t) \cup {[key |-> k, value |-> v]}
<1> DEFINE e == [key |-> k, value |-> v]
           b == hash[k] % n
           u == Linked(t, k, v)
<1>1. /\ n \in Nat \ {0} /\ DOMAIN t = 0 .. n - 1 /\ Cardinality(DOMAIN t) = n
      /\ t[b] \in Chain /\ Distinct(t[b]) /\ b \in 0 .. n - 1
  BY TableFacts
<1>2. u = [t EXCEPT ![b] = <<e>> \o @]  BY <1>1 DEF Linked
<1>3. e \in Entry /\ e.key = k  BY DEF Entry
<1>4. \A f \in ToSet(t[b]) : f.key # k  BY <1>1 DEF Known, Keys
<1> HIDE DEF e, b, u
<1>5. <<e>> \o t[b] \in Chain /\ Distinct(<<e>> \o t[b]) /\ ToSet(<<e>> \o t[b]) = {e} \cup ToSet(t[b])
  BY <1>1, <1>3, <1>4, Headed
<1>6. /\ DOMAIN u = 0 .. n - 1 /\ u[b] = <<e>> \o t[b]
      /\ \A c \in 0 .. n - 1 : c # b => u[c] = t[c]
  BY <1>1, <1>2
<1>7. u \in [0 .. n - 1 -> Chain]  BY <1>1, <1>2, <1>5 DEF IsTable
<1>8. \A c \in 0 .. n - 1 : Distinct(u[c])  BY <1>5, <1>6 DEF IsTable
<1>9. \A c \in 0 .. n - 1 : \A f \in ToSet(u[c]) : hash[f.key] % n = c
  <2>1. \A c \in 0 .. n - 1 : \A f \in ToSet(t[c]) : hash[f.key] % n = c  BY TableFacts
  <2>2. hash[e.key] % n = b  BY <1>3 DEF b
  <2> QED  BY <1>5, <1>6, <2>1, <2>2
<1>10. IsTable(u, n)  BY <1>1, <1>7, <1>8, <1>9 DEF IsTable, ToSet
<1>11. Entries(u) = Entries(t) \cup {e}  BY <1>1, <1>5, <1>6 DEF Entries
<1> QED  BY <1>10, <1>11 DEF u, e

\* Where hash_map_find and hash_map_delete stop.
LEMMA AtExact ==
    ASSUME IInv, NEW k \in Key
    PROVE  /\ At(k) # 0 <=> k \in KeysOf(Contents)
           /\ Bucket(k) \in 0 .. Count - 1
           /\ At(k) # 0 => /\ At(k) \in DOMAIN buckets[Bucket(k)]
                           /\ buckets[Bucket(k)][At(k)].key = k
                           /\ buckets[Bucket(k)][At(k)] \in Contents
<1> DEFINE chain == buckets[Bucket(k)]
           places == {i \in 1 .. Len(chain) : chain[i].key = k}
<1>1. IsTable(buckets, Count) /\ Entries(buckets) = Contents  BY DEF IInv, Entries, Contents
<1>2. Bucket(k) \in 0 .. Count - 1 /\ chain \in Chain /\ Distinct(chain)
  BY <1>1, TableFacts DEF Bucket
<1>3. Len(chain) \in Nat /\ DOMAIN chain = 1 .. Len(chain)  BY <1>2 DEF Chain
<1>4. At(k) = IF places # {} THEN Min(places) ELSE 0  BY DEF At, SelectInSeq
<1>5. places # {} <=> k \in KeysOf(Contents)
  <2>1. places # {} <=> k \in Keys(chain)  BY <1>3 DEF Keys, ToSet
  <2>2. Cardinality(DOMAIN buckets) = Count  BY DEF Count
  <2>3. Known(buckets, k) <=> k \in Keys(chain)  BY <2>2 DEF Known, Bucket
  <2> QED  BY <1>1, <2>1, <2>3, KnownExact
<1>6. ASSUME places # {} PROVE Min(places) \in places
  <2>1. \A i, j \in places : i = j  BY <1>2, <1>3 DEF Distinct
  <2>2. PICK i \in places : TRUE  BY <1>6
  <2>3. \A j \in places : i <= j  BY <1>3, <2>1, <2>2
  <2> HIDE DEF places
  <2> QED  BY <2>2, <2>3 DEF Min
<1>7. ASSUME places # {} PROVE At(k) \in DOMAIN chain /\ chain[At(k)].key = k /\ At(k) # 0
  BY <1>3, <1>4, <1>6, <1>7
<1>8. ASSUME At(k) # 0 PROVE chain[At(k)] \in Contents
  <2>1. places # {}  BY <1>4, <1>8
  <2>2. chain[At(k)] \in ToSet(chain)  BY <1>7, <2>1 DEF ToSet
  <2>3. \A e \in ToSet(buckets[hash[k] % Count]) : e \in Contents  BY <1>1, KnownExact
  <2> QED  BY <2>2, <2>3 DEF Bucket
<1> HIDE DEF places
<1> QED  BY <1>2, <1>4, <1>5, <1>7, <1>8

\* One entry less.
LEMMA UnlinkedExact ==
    ASSUME IInv, NEW k \in Key, At(k) # 0
    PROVE  LET t == [buckets EXCEPT ![Bucket(k)] = RemoveAt(@, At(k))]
           IN  IsTable(t, Count) /\ Entries(t) = {e \in Contents : e.key # k}
<1> DEFINE b == Bucket(k)
           t == [buckets EXCEPT ![b] = RemoveAt(@, At(k))]
           chain == RemoveAt(buckets[b], At(k))
<1>1. IsTable(buckets, Count) /\ Entries(buckets) = Contents /\ DOMAIN buckets = 0 .. Count - 1
  BY EntryFacts DEF IInv, Entries, Contents
<1>2. /\ b \in 0 .. Count - 1 /\ At(k) \in DOMAIN buckets[b] /\ buckets[b][At(k)].key = k
      /\ buckets[b] \in Chain /\ Distinct(buckets[b]) /\ b = hash[k] % Count
  BY <1>1, AtExact, TableFacts DEF Bucket
<1> HIDE DEF b
<1>3. /\ chain \in Chain /\ Distinct(chain)
      /\ ToSet(chain) = {e \in ToSet(buckets[b]) : e.key # k}
  BY <1>2, Unlinked
<1> HIDE DEF chain
<1>4. DOMAIN t = 0 .. Count - 1 /\ t[b] = chain /\ \A c \in 0 .. Count - 1 : c # b => t[c] = buckets[c]
  BY <1>1, <1>2 DEF chain
<1>5. t \in [0 .. Count - 1 -> Chain]  BY <1>1, <1>3 DEF IsTable, chain
<1> HIDE DEF t
<1>6. \A c \in 0 .. Count - 1 : Distinct(t[c])  BY <1>1, <1>3, <1>4 DEF IsTable
<1>7. \A c \in 0 .. Count - 1 : \A e \in ToSet(t[c]) : hash[e.key] % Count = c
  <2>1. \A c \in 0 .. Count - 1 : \A e \in ToSet(buckets[c]) : hash[e.key] % Count = c
    BY <1>1, TableFacts
  <2> QED  BY <1>2, <1>3, <1>4, <2>1
<1>8. IsTable(t, Count)  BY <1>1, <1>5, <1>6, <1>7 DEF IsTable, ToSet
<1>9. ASSUME NEW e \in Contents PROVE e \in Entries(t) <=> e.key # k
  <2>1. e \in Entry /\ e \in ToSet(buckets[hash[e.key] % Count])  BY <1>1, EntryOf
  <2>2. e \in Entries(t) <=> \E c \in 0 .. Count - 1 : e \in ToSet(t[c])  BY <1>4 DEF Entries
  <2>3. e.key # k => e \in Entries(t)
    <3>1. hash[e.key] % Count \in 0 .. Count - 1  BY <1>1, <2>1, TableFacts DEF Entry
    <3> QED  BY <1>3, <1>4, <2>1, <2>2, <3>1
  <2>4. ASSUME NEW c \in 0 .. Count - 1, e \in ToSet(t[c]) PROVE e.key # k
    <3>1. hash[e.key] % Count = c  BY <1>7, <2>4
    <3>2. c = b => e.key # k  BY <1>3, <1>4, <2>4
    <3> QED  BY <1>2, <3>1, <3>2
  <2> QED  BY <2>2, <2>3, <2>4
<1>10. Entries(t) \subseteq Contents  BY <1>1, <1>3, <1>4 DEF Entries
<1>11. Entries(t) = {e \in Contents : e.key # k}  BY <1>9, <1>10
<1> QED  BY <1>8, <1>11 DEF t, b

-----------------------------------------------------------------------------
(***************************************************************************)
(* The invariant.                                                          *)
(***************************************************************************)
LEMMA InitInv == Init => IInv
<1> SUFFICES ASSUME Init PROVE IInv  OBVIOUS
<1>1. PICK n \in BucketCounts : buckets = [b \in 0 .. n - 1 |-> <<>>]  BY DEF Init
<1>2. n \in Nat \ {0}  BY HashMapAssumption
<1>3. <<>> \in Chain /\ Distinct(<<>>) /\ ToSet(<<>>) = {} /\ DOMAIN <<>> = {}  BY DEF Chain, Distinct, ToSet
<1>4. DOMAIN buckets = 0 .. n - 1 /\ \A b \in 0 .. n - 1 : buckets[b] = <<>>  BY <1>1
<1>5. buckets \in [0 .. n - 1 -> Chain]  BY <1>1, <1>3
<1>6. Count = n  BY <1>2, <1>4, FS_Interval DEF Count
<1>7. IsTable(buckets, n)  BY <1>2, <1>3, <1>4, <1>5 DEF IsTable
<1>8. Contents = {} /\ KeysOf(Contents) = {}  BY <1>3, <1>4 DEF Contents, KeysOf
<1> QED  BY <1>6, <1>7, <1>8, FS_EmptySet DEF Init, IInv

\* What has to be shown of a new table.
LEMMA Kept ==
    ASSUME IInv, hash' = hash, NEW n, IsTable(buckets', n),
           IsFiniteSet(KeysOf(Entries(buckets'))), size' = Cardinality(KeysOf(Entries(buckets'))),
           size' = 0 \/ 4 * (size' - 1) < 3 * n
    PROVE  IInv'
<1>1. Count' = n  BY TableFacts DEF Count
<1> QED  BY <1>1 DEF IInv, IsTable, Entries, Contents

LEMMA InsertInv ==
    ASSUME IInv, NEW k \in Key, NEW v \in Value, Insert(k, v)
    PROVE  IInv'
<1> DEFINE e == [key |-> k, value |-> v]
<1>1. hash' = hash  BY DEF Insert
<1>2. IsTable(buckets, Count) /\ Entries(buckets) = Contents  BY DEF IInv, Entries, Contents
<1>3. size \in Nat /\ IsFiniteSet(KeysOf(Contents)) /\ size = Cardinality(KeysOf(Contents))
  BY FS_CardinalityType DEF IInv
<1>4. PICK n \in Nat : IsTable(Grown, n) /\ Entries(Grown) = Contents /\ n >= Count /\ 4 * size < 3 * n
  BY GrownExact
<1>5. CASE buckets' = buckets /\ size' = size
  <2>1. size = 0 \/ 4 * (size - 1) < 3 * Count  BY DEF IInv
  <2> QED  BY <1>1, <1>2, <1>3, <1>5, <2>1, Kept
<1>6. CASE buckets' = Grown /\ size' = size
  <2>1. 4 * (size - 1) < 3 * n  BY <1>3, <1>4
  <2> QED  BY <1>1, <1>3, <1>4, <1>6, <2>1, Kept
<1>7. CASE ~Known(Grown, k) /\ buckets' = Linked(Grown, k, v) /\ size' = size + 1
  <2>1. IsTable(buckets', n) /\ Entries(buckets') = Contents \cup {e}  BY <1>4, <1>7, LinkedExact
  <2>2. k \notin KeysOf(Contents)  BY <1>4, <1>7, KnownExact
  <2>3. KeysOf(Entries(buckets')) = KeysOf(Contents) \cup {k}
    <3>1. e.key = k  OBVIOUS
    <3> HIDE DEF e
    <3> QED  BY <2>1, <3>1 DEF KeysOf
  <2>4. /\ IsFiniteSet(KeysOf(Contents) \cup {k})
        /\ Cardinality(KeysOf(Contents) \cup {k}) = size + 1
    BY <1>3, <2>2, FS_AddElement
  <2>5. 4 * (size' - 1) < 3 * n  BY <1>3, <1>4, <1>7
  <2> QED  BY <1>1, <1>7, <2>1, <2>3, <2>4, <2>5, Kept
<1> QED  BY <1>5, <1>6, <1>7 DEF Insert

LEMMA DeleteInv == ASSUME IInv, NEW k \in Key, Delete(k) PROVE IInv'
<1>1. hash' = hash  BY DEF Delete
<1>2. IsTable(buckets, Count) /\ Entries(buckets) = Contents /\ Count \in Nat
  BY EntryFacts DEF IInv, Entries, Contents
<1>3. size \in Nat /\ IsFiniteSet(KeysOf(Contents)) /\ size = Cardinality(KeysOf(Contents))
  BY FS_CardinalityType DEF IInv
<1>4. size = 0 \/ 4 * (size - 1) < 3 * Count  BY DEF IInv
<1>5. CASE At(k) # 0
  <2>1. buckets' = [buckets EXCEPT ![Bucket(k)] = RemoveAt(@, At(k))] /\ size' = size - 1
    BY <1>5 DEF Delete
  <2>2. IsTable(buckets', Count) /\ Entries(buckets') = {e \in Contents : e.key # k}
    BY <1>5, <2>1, UnlinkedExact
  <2>3. k \in KeysOf(Contents)  BY <1>5, AtExact
  <2>4. KeysOf(Entries(buckets')) = KeysOf(Contents) \ {k}  BY <2>2 DEF KeysOf
  <2>5. /\ IsFiniteSet(KeysOf(Contents) \ {k})
        /\ Cardinality(KeysOf(Contents) \ {k}) = size - 1
    BY <1>3, <2>3, FS_RemoveElement
  <2>6. size - 1 \in Nat
    <3>1. Cardinality(KeysOf(Contents) \ {k}) \in Nat  BY <2>5, FS_CardinalityType
    <3> QED  BY <2>5, <3>1
  <2>7. 4 * (size' - 1) < 3 * Count  BY <1>2, <1>3, <1>4, <2>1, <2>6
  <2> QED  BY <1>1, <2>1, <2>2, <2>4, <2>5, <2>7, Kept
<1>6. CASE At(k) = 0
  <2>1. buckets' = buckets /\ size' = size  BY <1>6 DEF Delete
  <2> QED  BY <1>1, <1>2, <1>3, <1>4, <2>1, Kept
<1> QED  BY <1>5, <1>6

LEMMA StepInv == IInv /\ [Next]_vars => IInv'
<1> SUFFICES ASSUME IInv, [Next]_vars PROVE IInv'  OBVIOUS
<1>1. CASE UNCHANGED <<hash, buckets, size>>
  <2>1. hash' = hash /\ buckets' = buckets /\ size' = size  BY <1>1
  <2>2. Contents' = Contents /\ Count' = Count  BY <2>1 DEF Contents, Count
  <2> QED  BY <2>1, <2>2 DEF IInv, IsTable
<1>2. ASSUME NEW k \in Key, Find(k) PROVE IInv'  BY <1>1, <1>2 DEF Find
<1>3. CASE ForEach  BY <1>1, <1>3 DEF ForEach
<1>4. CASE UNCHANGED vars  BY <1>1, <1>4 DEF vars
<1> QED  BY <1>2, <1>3, <1>4, InsertInv, DeleteInv DEF Next

\* The places of the table and the keys in it are as many.
LEMMA OnePlaceEach == IInv => Cardinality(Links) = Cardinality(KeysOf(Contents))
<1> SUFFICES ASSUME IInv PROVE Cardinality(Links) = Cardinality(KeysOf(Contents))  OBVIOUS
<1> DEFINE K == KeysOf(Contents)
           entry(l) == buckets[l[1]][l[2]]
           f == [l \in Links |-> entry(l).key]
<1>1. IsTable(buckets, Count) /\ Entries(buckets) = Contents /\ DOMAIN buckets = 0 .. Count - 1
  BY EntryFacts DEF IInv, Entries, Contents
<1>2. \A l \in Links : /\ l[1] \in 0 .. Count - 1 /\ l[2] \in DOMAIN buckets[l[1]]
                       /\ l = <<l[1], l[2]>> /\ entry(l) \in ToSet(buckets[l[1]])
  BY <1>1 DEF Links, ToSet
<1>3. \A l \in Links : entry(l) \in Contents /\ hash[entry(l).key] % Count = l[1]
  BY <1>1, <1>2, TableFacts DEF Contents
<1>4. \A l, m \in Links : f[l] = f[m] => l = m
  <2> SUFFICES ASSUME NEW l \in Links, NEW m \in Links, entry(l).key = entry(m).key PROVE l = m  OBVIOUS
  <2>1. l[1] = m[1]  BY <1>3
  <2>2. Distinct(buckets[l[1]])  BY <1>1, <1>2, TableFacts
  <2>3. l[2] = m[2]  BY <1>2, <2>1, <2>2 DEF Distinct
  <2> QED  BY <1>2, <2>1, <2>3
<1>5. \A k \in K : \E l \in Links : f[l] = k
  <2> SUFFICES ASSUME NEW e \in Contents PROVE \E l \in Links : f[l] = e.key  BY DEF KeysOf
  <2>1. PICK b \in DOMAIN buckets : e \in ToSet(buckets[b])  BY DEF Contents
  <2>2. PICK i \in DOMAIN buckets[b] : e = buckets[b][i]  BY <2>1 DEF ToSet
  <2>3. <<b, i>> \in Links  BY DEF Links
  <2> QED  BY <2>2, <2>3
<1>6. f \in [Links -> K]  BY <1>3 DEF KeysOf
<1> HIDE DEF f
<1>7. f \in Bijection(Links, K)  BY <1>4, <1>5, <1>6, Fun_IsBij
<1>8. ExistsBijection(Links, K)  BY <1>7 DEF ExistsBijection
<1>9. ExistsBijection(K, Links)  BY <1>8, Fun_ExistsBijSymmetric
<1> QED  BY <1>9, FS_Bijection DEF IInv

\* hash_map_insert's check of the load keeps the chains short: size counts the
\* linked entries exactly, and they are never more than three quarters of the
\* buckets and one.
THEOREM Load == Spec => []LoadBounded
<1>1. IInv => LoadBounded  BY OnePlaceEach DEF IInv, LoadBounded
<1> QED  BY <1>1, InitInv, StepInv, PTL DEF Spec

-----------------------------------------------------------------------------
(***************************************************************************)
(* The refinement.                                                         *)
(***************************************************************************)
LEMMA DictFacts ==
    ASSUME NEW set, \A e, f \in set : e.key = f.key => e = f
    PROVE  /\ DOMAIN DictOf(set) = KeysOf(set)
           /\ DictOf(set) = [k \in KeysOf(set) |-> DictOf(set)[k]]
           /\ \A e \in set : DictOf(set)[e.key] = e.value
<1>1. DictOf(set) = [k \in KeysOf(set) |-> (CHOOSE e \in set : e.key = k).value]
  BY DEF DictOf, KeysOf
<1>2. ASSUME NEW e \in set PROVE DictOf(set)[e.key] = e.value
  <2>1. (CHOOSE f \in set : f.key = e.key) = e  OBVIOUS
  <2>2. e.key \in KeysOf(set)  BY DEF KeysOf
  <2> QED  BY <1>1, <2>1, <2>2
<1> QED  BY <1>1, <1>2

LEMMA Pair == ASSUME NEW a, NEW b PROVE <<a>> \o <<b>> = <<a, b>>
<1> DEFINE S == {a, b}
           s == <<a>>
           t == <<b>>
           u == <<a, b>>
<1>1. s \in Seq(S) /\ t \in Seq(S) /\ u \in Seq(S) /\ Len(s) = 1 /\ Len(t) = 1 /\ Len(u) = 2  OBVIOUS
<1>2. s[1] = a /\ t[1] = b /\ u[1] = a /\ u[2] = b  OBVIOUS
<1> HIDE DEF S, s, t, u
<1>3. s \o t \in Seq(S) /\ Len(s \o t) = 2 /\ (s \o t)[1] = a /\ (s \o t)[2] = b
  BY <1>1, <1>2, ConcatProperties
<1>4. s \o t = u
  <2>1. \A i \in 1 .. Len(u) : (s \o t)[i] = u[i]
    <3>1. 1 .. Len(u) = {1, 2}  BY <1>1
    <3> QED  BY <1>2, <1>3, <3>1
  <2> QED  BY <1>1, <1>3, <2>1, SeqEqual
<1> QED  BY <1>4 DEF s, t, u

LEMMA Answers ==
    /\ Replied("insert", OK, <<>>) => Answer' = <<"ok">>
    /\ Replied("delete", OK, <<>>) => Answer' = <<"ok">>
    /\ \A v : Replied("find", OK, <<v>>) => Answer' = <<"ok", v>>
<1>1. ASSUME Replied("insert", OK, <<>>) PROVE Answer' = <<"ok">>
  <2>1. reply'.op = "insert" /\ reply'.code = OK  BY <1>1 DEF Replied
  <2> QED  BY <2>1 DEF Answer, OK, DUPLICATE_KEY
<1>2. ASSUME Replied("delete", OK, <<>>) PROVE Answer' = <<"ok">>
  <2>1. reply'.op = "delete" /\ reply'.code = OK /\ reply'.out = <<>>  BY <1>2 DEF Replied
  <2>2. Answer' = <<"ok">> \o <<>>  BY <2>1 DEF Answer
  <2> QED  BY <2>2
<1>3. ASSUME NEW v, Replied("find", OK, <<v>>) PROVE Answer' = <<"ok", v>>
  <2>1. reply'.op = "find" /\ reply'.code = OK /\ reply'.out = <<v>>  BY <1>3 DEF Replied
  <2>2. Answer' = <<"ok">> \o <<v>>  BY <2>1 DEF Answer
  <2> QED  BY <2>2, Pair
<1> QED  BY <1>1, <1>2, <1>3

LEMMA OneEntryEach ==
    ASSUME IInv PROVE \A e, f \in Contents : e.key = f.key => e = f
<1>1. IsTable(buckets, Count) /\ Entries(buckets) = Contents  BY DEF IInv, Entries, Contents
<1> QED  BY <1>1, EntryOf

LEMMA InitRefines == Init => Dict!Init
<1> SUFFICES ASSUME Init PROVE Dict!Init  OBVIOUS
<1>1. \A b \in DOMAIN buckets : buckets[b] = <<>>  BY DEF Init
<1>2. Contents = {}  BY <1>1 DEF Contents, ToSet
<1>3. DictOf(Contents) = <<>>  BY <1>2 DEF DictOf
<1>4. Answer = <<"new">>  BY DEF Init, Answer
<1> QED  BY <1>3, <1>4 DEF Dict!Init

LEMMA InsertRefines ==
    ASSUME IInv, NEW k \in Key, NEW v \in Value, Insert(k, v) PROVE Dict!Put(k, v)
<1> DEFINE e == [key |-> k, value |-> v]
           d == DictOf(Contents)
<1>1. Contents' = Entries(buckets') /\ Contents = Entries(buckets)  BY DEF Contents, Entries
<1>2. PICK n \in Nat : IsTable(Grown, n) /\ Entries(Grown) = Contents  BY GrownExact
<1>3. Known(Grown, k) <=> k \in DOMAIN d  BY <1>2, KnownExact, OneEntryEach, DictFacts
<1>4. CASE Contents' = Contents /\ Replied("insert", MEMORY, <<>>)
  <2>1. Answer' = <<"failed">>  BY <1>4 DEF Answer, Replied, MEMORY, OK, DUPLICATE_KEY
  <2> QED  BY <1>4, <2>1 DEF Dict!Put
<1>5. CASE Known(Grown, k) /\ Contents' = Contents /\ Replied("insert", DUPLICATE_KEY, <<>>)
  <2>1. Answer' = <<"duplicate">>  BY <1>5 DEF Answer, Replied, OK, DUPLICATE_KEY
  <2> QED  BY <1>3, <1>5, <2>1 DEF Dict!Put
<1>6. CASE ~Known(Grown, k) /\ buckets' = Linked(Grown, k, v) /\ Replied("insert", OK, <<>>)
  <2>1. Answer' = <<"ok">>  BY <1>6, Answers
  <2>2. Contents' = Contents \cup {e}  BY <1>1, <1>2, <1>6, LinkedExact
  <2>3. e.key = k /\ e.value = v  OBVIOUS
  <2> HIDE DEF e
  <2>4. k \notin KeysOf(Contents)  BY <1>2, <1>6, KnownExact
  <2>5. \A f, g \in Contents' : f.key = g.key => f = g
    BY <2>2, <2>3, <2>4, OneEntryEach DEF KeysOf
  <2>6. KeysOf(Contents') = KeysOf(Contents) \cup {k}  BY <2>2, <2>3 DEF KeysOf
  <2> DEFINE u == DictOf(Contents')
  <2>7. DOMAIN u = KeysOf(Contents) \cup {k} /\ u = [j \in KeysOf(Contents) \cup {k} |-> u[j]]
    BY <2>5, <2>6, DictFacts
  <2>8. u[k] = v  BY <2>2, <2>3, <2>5, DictFacts
  <2>9. ASSUME NEW j \in KeysOf(Contents) PROVE u[j] = d[j]
    <3>1. PICK f \in Contents : f.key = j  BY DEF KeysOf
    <3>2. d[j] = f.value  BY <3>1, OneEntryEach, DictFacts
    <3>3. u[j] = f.value  BY <2>2, <2>5, <3>1, DictFacts
    <3> QED  BY <3>2, <3>3
  <2>10. DOMAIN d = KeysOf(Contents)  BY OneEntryEach, DictFacts
  <2> HIDE DEF u, d
  <2>11. u = [j \in DOMAIN d \cup {k} |-> IF j = k THEN v ELSE d[j]]
    BY <2>4, <2>7, <2>8, <2>9, <2>10
  <2> QED  BY <2>1, <2>4, <2>10, <2>11 DEF Dict!Put, u, d
<1>7. buckets' = buckets \/ buckets' = Grown => Contents' = Contents  BY <1>1, <1>2
<1> QED  BY <1>4, <1>5, <1>6, <1>7 DEF Insert

LEMMA FindRefines == ASSUME IInv, NEW k \in Key, Find(k) PROVE Dict!Get(k)
<1> DEFINE d == DictOf(Contents)
           e == buckets[Bucket(k)][At(k)]
<1>1. Contents' = Contents  BY DEF Find, Contents
<1>2. DOMAIN d = KeysOf(Contents) /\ \A f \in Contents : d[f.key] = f.value
  BY OneEntryEach, DictFacts
<1>3. At(k) # 0 => e \in Contents /\ e.key = k  BY AtExact
<1>4. At(k) # 0 <=> k \in DOMAIN d  BY <1>2, AtExact
<1>5. CASE At(k) # 0
  <2>1. Replied("find", OK, <<e.value>>)  BY <1>5 DEF Find
  <2> HIDE DEF e
  <2>2. Answer' = <<"ok", e.value>>  BY <2>1, Answers
  <2>3. Answer' = <<"ok", d[k]>>  BY <1>2, <1>3, <1>5, <2>2
  <2> QED  BY <1>1, <1>4, <1>5, <2>3 DEF Dict!Get
<1>6. CASE At(k) = 0
  <2>1. Answer' = <<"missing">>  BY <1>6 DEF Find, Answer, Replied, OK, ERROR
  <2> QED  BY <1>1, <1>4, <1>6, <2>1 DEF Dict!Get
<1> QED  BY <1>5, <1>6

LEMMA DeleteRefines == ASSUME IInv, NEW k \in Key, Delete(k) PROVE Dict!Remove(k)
<1> DEFINE d == DictOf(Contents)
           u == DictOf(Contents')
<1>1. Contents' = Entries(buckets') /\ Contents = Entries(buckets)  BY DEF Contents, Entries
<1>2. /\ DOMAIN d = KeysOf(Contents) /\ d = [j \in KeysOf(Contents) |-> d[j]]
      /\ \A f \in Contents : d[f.key] = f.value
  BY OneEntryEach, DictFacts
<1>3. At(k) # 0 <=> k \in DOMAIN d  BY <1>2, AtExact
<1>4. CASE At(k) # 0
  <2>1. Replied("delete", OK, <<>>)  BY <1>4 DEF Delete
  <2>2. Contents' = {f \in Contents : f.key # k}  BY <1>1, <1>4, UnlinkedExact DEF Delete
  <2>3. \A f, g \in Contents' : f.key = g.key => f = g  BY <2>2, OneEntryEach
  <2>4. KeysOf(Contents') = KeysOf(Contents) \ {k}  BY <2>2 DEF KeysOf
  <2>5. DOMAIN u = KeysOf(Contents) \ {k} /\ u = [j \in KeysOf(Contents) \ {k} |-> u[j]]
    BY <2>3, <2>4, DictFacts
  <2>6. ASSUME NEW j \in KeysOf(Contents) \ {k} PROVE u[j] = d[j]
    <3>1. PICK f \in Contents : f.key = j  BY DEF KeysOf
    <3>2. d[j] = f.value  BY <1>2, <3>1
    <3>3. u[j] = f.value  BY <2>2, <2>3, <3>1, DictFacts
    <3> QED  BY <3>2, <3>3
  <2> HIDE DEF u, d
  <2>7. u = Dict!Restrict(d, DOMAIN d \ {k})  BY <1>2, <2>5, <2>6 DEF Dict!Restrict
  <2>8. Answer' = <<"ok">>  BY <2>1, Answers
  <2> QED  BY <1>3, <1>4, <2>7, <2>8 DEF Dict!Remove, u, d
<1>5. CASE At(k) = 0
  <2>1. Answer' = <<"missing">> /\ buckets' = buckets
    BY <1>5 DEF Delete, Answer, Replied, OK, ERROR
  <2>2. u = d  BY <1>1, <2>1
  <2> HIDE DEF u, d
  <2>3. d = Dict!Restrict(d, DOMAIN d \ {k})  BY <1>2, <1>3, <1>5 DEF Dict!Restrict
  <2> QED  BY <1>3, <1>5, <2>1, <2>2, <2>3 DEF Dict!Remove, u, d
<1> QED  BY <1>4, <1>5

LEMMA ForEachRefines == ASSUME IInv, ForEach PROVE Dict!Visit
<1> DEFINE d == DictOf(Contents)
           seqs == [b \in 1 .. Count |-> buckets[b - 1]]
           out == FlattenSeq(seqs)
           pairs == [i \in DOMAIN out |-> <<out[i].key, out[i].value>>]
<1>1. Contents' = Contents  BY DEF ForEach, Contents
<1>2. IsTable(buckets, Count) /\ Count \in Nat \ {0} /\ DOMAIN buckets = 0 .. Count - 1
  BY EntryFacts DEF IInv
<1>3. \A b \in 1 .. Count : b - 1 \in 0 .. Count - 1 /\ seqs[b] = buckets[b - 1]  BY <1>2
<1>4. seqs \in [1 .. Count -> Chain] /\ \A b \in 1 .. Count : Distinct(seqs[b])
  BY <1>2, <1>3, TableFacts
<1>5. ASSUME NEW i \in 1 .. Count, NEW j \in 1 .. Count, i # j,
             NEW e \in ToSet(seqs[i]), NEW f \in ToSet(seqs[j])
      PROVE  e.key # f.key
  <2>1. hash[e.key] % Count = i - 1 /\ hash[f.key] % Count = j - 1  BY <1>2, <1>3, TableFacts
  <2> QED  BY <1>5, <2>1
<1>6. UNION {ToSet(seqs[b]) : b \in 1 .. Count} = Contents
  <2>1. \A b \in 0 .. Count - 1 : b + 1 \in 1 .. Count /\ seqs[b + 1] = buckets[b]  BY <1>2
  <2> HIDE DEF seqs
  <2> QED  BY <1>2, <1>3, <2>1 DEF Contents
<1>7. out \in Chain /\ Distinct(out) /\ ToSet(out) = Contents
  <2> HIDE DEF seqs
  <2> QED  BY <1>2, <1>4, <1>5, <1>6, FlattenExact
<1>8. Replied("for_each", OK, out)  BY DEF ForEach
<1> HIDE DEF seqs, out
<1>9. Answer' = <<"visited", pairs>>  BY <1>8 DEF Answer, Replied
<1>10. DOMAIN d = KeysOf(Contents) /\ \A f \in Contents : d[f.key] = f.value
  BY OneEntryEach, DictFacts
<1>11. DOMAIN pairs = 1 .. Len(out) /\ Len(out) \in Nat /\ DOMAIN out = 1 .. Len(out)
  BY <1>7 DEF Chain
<1>12. \A i, j \in DOMAIN pairs : pairs[i] = pairs[j] => i = j  BY <1>7, <1>11 DEF Distinct
<1>13. Dict!Range(pairs) = {<<k, d[k]>> : k \in DOMAIN d}
  <2>1. \A i \in DOMAIN out : out[i] \in Contents  BY <1>7 DEF ToSet
  <2>2. \A e \in Contents : \E i \in DOMAIN out : out[i] = e  BY <1>7 DEF ToSet
  <2>3. ASSUME NEW i \in DOMAIN out
        PROVE  out[i].key \in DOMAIN d /\ pairs[i] = <<out[i].key, d[out[i].key]>>
    BY <1>10, <2>1 DEF KeysOf
  <2>4. ASSUME NEW k \in DOMAIN d PROVE \E i \in DOMAIN out : pairs[i] = <<k, d[k]>>
    <3>1. PICK e \in Contents : e.key = k  BY <1>10 DEF KeysOf
    <3> QED  BY <1>10, <2>2, <3>1
  <2>5. DOMAIN pairs = DOMAIN out  OBVIOUS
  <2> HIDE DEF pairs, d
  <2>6. Dict!Range(pairs) = {pairs[i] : i \in DOMAIN out}  BY <2>5 DEF Dict!Range
  <2>7. \A i \in DOMAIN out : pairs[i] \in {<<k, d[k]>> : k \in DOMAIN d}  BY <2>3
  <2>8. \A k \in DOMAIN d : <<k, d[k]>> \in {pairs[i] : i \in DOMAIN out}  BY <2>4
  <2> QED  BY <2>6, <2>7, <2>8
<1> HIDE DEF pairs
<1> QED  BY <1>1, <1>9, <1>12, <1>13 DEF Dict!Visit, Dict!IsInjective

\* hash_map implements the dictionary of its header: through growth, duplicate keys
\* and failed allocations every call changes one key or nothing, and says which.
THEOREM Refinement == Spec => ImplementsDictionary
<1>1. ASSUME IInv, [Next]_vars PROVE [Dict!Next]_<<DictOf(Contents), Answer>>
  <2>1. ASSUME NEW k \in Key, Find(k) PROVE Dict!Next  BY <1>1, <2>1, FindRefines DEF Dict!Next
  <2>2. ASSUME NEW k \in Key, Delete(k) PROVE Dict!Next  BY <1>1, <2>2, DeleteRefines DEF Dict!Next
  <2>3. ASSUME NEW k \in Key, NEW v \in Value, Insert(k, v) PROVE Dict!Next
    BY <1>1, <2>3, InsertRefines DEF Dict!Next
  <2>4. CASE ForEach  BY <1>1, <2>4, ForEachRefines DEF Dict!Next
  <2>5. CASE UNCHANGED vars  BY <2>5 DEF vars, Contents, Answer
  <2> QED  BY <1>1, <2>1, <2>2, <2>3, <2>4, <2>5 DEF Next
<1> QED  BY <1>1, InitRefines, InitInv, StepInv, PTL
         DEF Spec, ImplementsDictionary, Dict!Spec, Dict!vars
=============================================================================
