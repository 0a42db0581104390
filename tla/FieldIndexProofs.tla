-------------------------- MODULE FieldIndexProofs --------------------------
(***************************************************************************)
(* Proofs about module FieldIndex, for every set of rows, size of the      *)
(* table and hash function.  What makes a linear probe exact is how the    *)
(* table was filled: between the home of a placed row and its slot lie     *)
(* only rows that were placed before it.                                   *)
(***************************************************************************)
EXTENDS FieldIndex, TLAPS

RowSet == [name : Name, kind : {"struct", "field", "len"}]

\* How many steps a probe that starts at h needs to get to s.
Dist(h, s) == IF s >= h THEN s - h ELSE s - h + size

HomeOf(id) == Home(NameOf(id))

\* The slots a probe from h has passed when it looks at s.
Passed(h, s) == {j \in Slot : Dist(h, j) < Dist(h, s)}

Chained ==
    \A s \in Slot : table[s] # Empty =>
        \A j \in Passed(HomeOf(table[s]), s) : table[j] # Empty /\ table[j] < table[s]

Placed == \A id \in 0 .. cnt - 1 : \E s \in Slot : table[s] = id

Placing ==
    at = "place" /\ cnt < Len(rows) =>
        \A j \in Passed(HomeOf(cnt), slot) : table[j] # Empty

Probing ==
    at = "probe" =>
        \A j \in Passed(Home(want), slot) : table[j] # Empty /\ NameOf(table[j]) # want

IInv ==
    /\ TypeOK /\ Chained /\ Placed /\ Placing /\ Probing
    /\ at # "place" => cnt = Len(rows)
    /\ at = "place" => found = None
    /\ at = "idle" /\ found # None => IsFirst(found, want)

-----------------------------------------------------------------------------
LEMMA HomeOK ==
    ASSUME TypeOK, NEW n \in Name
    PROVE  Home(n) \in Slot /\ Passed(Home(n), Home(n)) = {}
<1>1. hash[n] \in Nat /\ size \in Nat \ {0}
  BY DEF TypeOK
<1>2. Home(n) \in Slot
  BY <1>1 DEF Home, Slot
<1>3. \A j \in Slot : Dist(Home(n), j) >= 0 /\ Dist(Home(n), Home(n)) = 0
  BY <1>1, <1>2 DEF Slot, Dist
<1>4. \A j \in Slot : ~(Dist(Home(n), j) < Dist(Home(n), Home(n)))
  BY <1>1, <1>2 DEF Slot, Dist
<1> QED BY <1>2, <1>4 DEF Passed

LEMMA NameOK ==
    ASSUME TypeOK, NEW id \in 0 .. Len(rows) - 1
    PROVE  NameOf(id) \in Name
<1>1. id + 1 \in 1 .. Len(rows) /\ rows \in Seq(RowSet)
  BY DEF TypeOK, RowSet
<1>2. rows[id + 1] \in RowSet
  BY <1>1
<1> QED BY <1>2 DEF NameOf, RowSet

\* One step of a probe passes the slot it was at, or starts over.
LEMMA AfterOK ==
    ASSUME TypeOK, NEW h \in Slot, NEW s \in Slot
    PROVE  After(s) \in Slot /\ Passed(h, After(s)) \subseteq Passed(h, s) \cup {s}
<1>1. size \in Nat \ {0}
  BY DEF TypeOK
<1>2. After(s) \in Slot
  BY <1>1 DEF Slot, After
<1>3. \A j \in Slot : Dist(h, j) < Dist(h, After(s)) => Dist(h, j) < Dist(h, s) \/ j = s
  BY <1>1 DEF Slot, After, Dist
<1> QED BY <1>2, <1>3 DEF Passed

\* A slot that is not passed and is another one is still ahead.
LEMMA Ahead ==
    ASSUME TypeOK, NEW h \in Slot, NEW s \in Slot, NEW j \in Slot,
           j \notin Passed(h, s), j # s
    PROVE  s \in Passed(h, j)
<1>1. size \in Nat \ {0}
  BY DEF TypeOK
<1>2. ~(Dist(h, j) < Dist(h, s))
  BY DEF Passed
<1>3. Dist(h, s) < Dist(h, j)
  BY <1>1, <1>2 DEF Slot, Dist
<1> QED BY <1>3 DEF Passed

LEMMA EntryOK ==
    ASSUME TypeOK, NEW s \in Slot, table[s] # Empty
    PROVE  table[s] \in 0 .. cnt - 1 /\ table[s] \in 0 .. Len(rows) - 1
<1>1. table[s] \in {Empty} \cup 0 .. cnt - 1 /\ cnt \in 0 .. Len(rows) /\ Len(rows) \in Nat
  BY DEF TypeOK
<1> QED BY <1>1 DEF Empty

-----------------------------------------------------------------------------
(***************************************************************************)
(* The heart: what a probe that ends may conclude.                         *)
(***************************************************************************)
\* A row under the name sought is not behind the probe, and not where it is.
LEMMA HitFirst ==
    ASSUME IInv, at = "probe", table[slot] # Empty, NameOf(table[slot]) = want
    PROVE  IsFirst(table[slot], want)
<1>1. slot \in Slot /\ want \in Name /\ Home(want) \in Slot /\ cnt = Len(rows)
  BY HomeOK DEF IInv, TypeOK
<1>2. table[slot] \in 0 .. Len(rows) - 1
  BY <1>1, EntryOK DEF IInv
<1>3. ASSUME NEW id \in RowsNamed(want), id < table[slot] PROVE FALSE
  <2>1. id \in 0 .. cnt - 1 /\ NameOf(id) = want /\ Len(rows) \in Nat
    BY <1>1, <1>3 DEF RowsNamed, IInv, TypeOK
  <2>2. PICK s \in Slot : table[s] = id
    BY <2>1 DEF IInv, Placed
  <2>3. s \notin Passed(Home(want), slot) /\ s # slot
    BY <1>2, <1>3, <2>1, <2>2 DEF IInv, Probing
  <2>4. slot \in Passed(Home(want), s)
    BY <1>1, <2>3, Ahead DEF IInv
  <2>5. table[s] # Empty /\ HomeOf(table[s]) = Home(want)
    BY <2>1, <2>2 DEF Empty, HomeOf
  <2>6. table[slot] < table[s]
    BY <2>4, <2>5 DEF IInv, Chained
  <2> QED BY <1>2, <1>3, <2>1, <2>2, <2>6
<1>4. \A id \in RowsNamed(want) : table[slot] <= id
  BY <1>2, <1>3 DEF RowsNamed
<1> QED BY <1>2, <1>4 DEF IsFirst, RowsNamed

\* An empty slot ends the search: nothing was ever pushed past it.
LEMMA MissNone ==
    ASSUME IInv, at = "probe", table[slot] = Empty
    PROVE  RowsNamed(want) = {}
<1>1. slot \in Slot /\ want \in Name /\ Home(want) \in Slot /\ cnt = Len(rows)
  BY HomeOK DEF IInv, TypeOK
<1>2. ASSUME NEW id \in RowsNamed(want) PROVE FALSE
  <2>1. id \in 0 .. cnt - 1 /\ NameOf(id) = want /\ Len(rows) \in Nat
    BY <1>1, <1>2 DEF RowsNamed, IInv, TypeOK
  <2>2. PICK s \in Slot : table[s] = id
    BY <2>1 DEF IInv, Placed
  <2>3. s \notin Passed(Home(want), slot) /\ s # slot
    BY <2>1, <2>2 DEF IInv, Probing, Empty
  <2>4. slot \in Passed(Home(want), s)
    BY <1>1, <2>3, Ahead DEF IInv
  <2>5. table[s] # Empty /\ HomeOf(table[s]) = Home(want)
    BY <2>1, <2>2 DEF Empty, HomeOf
  <2>6. table[slot] # Empty
    BY <2>4, <2>5 DEF IInv, Chained
  <2> QED BY <2>6
<1> QED BY <1>2

-----------------------------------------------------------------------------
LEMMA Initially == Init => IInv
<1> SUFFICES ASSUME Init PROVE IInv
  OBVIOUS
<1>1. PICK t \in Tables : rows = t.rows /\ size = t.size
  BY DEF Init
<1>2. size \in Nat \ {0} /\ rows \in Seq(RowSet) /\ hash \in [Name -> Nat] /\ Len(rows) \in Nat
  <2>1. t.size \in Nat \ {0} /\ t.rows \in Seq(RowSet)
    BY IndexAssumption DEF RowSet
  <2>2. hash \in Hashes /\ Hashes \subseteq [Name -> Nat]
    BY IndexAssumption DEF Init
  <2>3. size \in Nat \ {0} /\ rows \in Seq(RowSet)
    BY <1>1, <2>1
  <2>4. Len(rows) \in Nat
    BY <2>3
  <2> QED BY <2>2, <2>3, <2>4
<1>3. table = [s \in Slot |-> Empty] /\ cnt = 0 /\ at = "place" /\ want \in Name /\ found = None
  BY DEF Init
<1>4. slot \in Slot
  <2>1. CASE rows = <<>>
    BY <1>2, <2>1 DEF Init, Slot
  <2>2. CASE rows # <<>>
    <3>1. 1 \in 1 .. Len(rows)
      BY <1>2, <2>2
    <3>2. rows[1] \in RowSet
      BY <1>2, <3>1
    <3>3. NameOf(0) \in Name /\ slot = Home(NameOf(0))
      BY <2>2, <3>2 DEF Init, NameOf, RowSet
    <3> QED BY <1>2, <3>3 DEF Home, Slot
  <2> QED BY <2>1, <2>2
<1>5. TypeOK
  BY <1>2, <1>3, <1>4 DEF TypeOK, RowSet
<1>6. Placing
  <2> SUFFICES ASSUME cnt < Len(rows) PROVE \A j \in Passed(HomeOf(cnt), slot) : table[j] # Empty
    BY DEF Placing
  <2>1. slot = HomeOf(0) /\ NameOf(0) \in Name
    BY <1>2, <1>3, <1>5, NameOK DEF Init, HomeOf
  <2> QED BY <1>3, <1>5, <2>1, HomeOK DEF HomeOf
<1>7. Chained /\ Placed /\ Probing
  BY <1>2, <1>3 DEF Chained, Placed, Probing
<1> QED BY <1>3, <1>5, <1>6, <1>7 DEF IInv

LEMMA PlaceOK == ASSUME IInv, Place PROVE IInv'
<1>1. /\ at = "place" /\ cnt < Len(rows) /\ slot \in Slot /\ table[slot] = Empty
      /\ table' = [table EXCEPT ![slot] = cnt] /\ cnt' = cnt + 1 /\ at' = at
      /\ rows' = rows /\ size' = size /\ hash' = hash /\ want' = want /\ found' = found
  BY DEF Place, IInv, TypeOK
<1>2. cnt \in Nat /\ Len(rows) \in Nat /\ cnt \in 0 .. Len(rows) - 1
  BY <1>1 DEF IInv, TypeOK
<1>3. Slot' = Slot /\ \A h, s : Passed(h, s)' = Passed(h, s)
  BY <1>1 DEF Slot, Passed, Dist
<1>4. \A id : HomeOf(id)' = HomeOf(id) /\ NameOf(id)' = NameOf(id)
  BY <1>1 DEF HomeOf, Home, NameOf
<1>5. TypeOK'
  <2>1. table' \in [Slot -> {Empty} \cup 0 .. cnt' - 1]
    BY <1>1, <1>2 DEF IInv, TypeOK
  <2>2. slot' \in Slot
    <3>1. CASE cnt + 1 < Len(rows)
      <4>1. NameOf(cnt + 1) \in Name /\ slot' = Home(NameOf(cnt + 1))
        BY <1>2, <3>1, NameOK DEF IInv, Place
      <4> QED BY <4>1, HomeOK DEF IInv
    <3>2. CASE ~(cnt + 1 < Len(rows))
      BY <1>1, <3>2 DEF Place
    <3> QED BY <3>1, <3>2
  <2> QED BY <1>1, <1>2, <1>3, <2>1, <2>2 DEF IInv, TypeOK
<1>6. /\ table'[slot] = cnt
      /\ \A s \in Slot \ {slot} : table'[s] = table[s]
  BY <1>1 DEF IInv, TypeOK
<1>7. Chained'
  <2> SUFFICES ASSUME NEW s \in Slot, table'[s] # Empty,
                      NEW j \in Passed(HomeOf(table'[s]), s)
               PROVE  table'[j] # Empty /\ table'[j] < table'[s]
    BY <1>3, <1>4 DEF Chained
  <2>1. j \in Slot
    BY DEF Passed
  <2>2. CASE s = slot
    <3>1. table'[s] = cnt /\ table[j] # Empty
      BY <1>1, <1>6, <2>2 DEF IInv, Placing
    <3>2. j # slot
      BY <1>1, <3>1
    <3>3. table'[j] = table[j] /\ table[j] \in 0 .. cnt - 1
      BY <1>6, <2>1, <3>1, <3>2, EntryOK DEF IInv
    <3> QED BY <1>2, <3>1, <3>3
  <2>3. CASE s # slot
    <3>1. table'[s] = table[s] /\ table[j] # Empty /\ table[j] < table[s]
      BY <1>6, <2>3 DEF IInv, Chained
    <3>2. j # slot
      BY <1>1, <3>1
    <3> QED BY <1>6, <2>1, <3>1, <3>2
  <2> QED BY <2>2, <2>3
<1>8. Placed'
  <2> SUFFICES ASSUME NEW id \in 0 .. cnt PROVE \E s \in Slot : table'[s] = id
    BY <1>1, <1>2, <1>3 DEF Placed
  <2>1. CASE id = cnt
    BY <1>1, <1>6, <2>1
  <2>2. CASE id # cnt
    <3>1. id \in 0 .. cnt - 1
      BY <1>2, <2>2
    <3>2. PICK s \in Slot : table[s] = id
      BY <3>1 DEF IInv, Placed
    <3>3. s # slot
      BY <1>1, <3>1, <3>2 DEF Empty
    <3> QED BY <1>6, <3>2, <3>3
  <2> QED BY <2>1, <2>2
<1>9. Placing'
  <2> SUFFICES ASSUME cnt + 1 < Len(rows)
               PROVE  \A j \in Passed(HomeOf(cnt + 1), slot') : table'[j] # Empty
    BY <1>1, <1>3, <1>4 DEF Placing
  <2>1. NameOf(cnt + 1) \in Name /\ slot' = HomeOf(cnt + 1)
    BY <1>2, NameOK DEF IInv, Place, HomeOf
  <2> QED BY <2>1, HomeOK DEF IInv, HomeOf
<1> QED BY <1>1, <1>5, <1>7, <1>8, <1>9 DEF IInv, Probing

LEMMA TakenOK == ASSUME IInv, Taken PROVE IInv'
<1>1. /\ at = "place" /\ cnt < Len(rows) /\ slot \in Slot /\ table[slot] # Empty
      /\ slot' = After(slot) /\ UNCHANGED <<rows, size, hash, table, cnt, at, want, found>>
  BY DEF Taken, IInv, TypeOK
<1>2. cnt \in 0 .. Len(rows) - 1
  BY <1>1 DEF IInv, TypeOK
<1>3. HomeOf(cnt) \in Slot
  BY <1>2, NameOK, HomeOK DEF IInv, HomeOf
<1>4. /\ After(slot) \in Slot
      /\ Passed(HomeOf(cnt), After(slot)) \subseteq Passed(HomeOf(cnt), slot) \cup {slot}
  BY <1>1, <1>3, AfterOK DEF IInv
<1>5. Slot' = Slot /\ \A h, s : Passed(h, s)' = Passed(h, s)
  BY <1>1 DEF Slot, Passed, Dist
<1>6. \A id : HomeOf(id)' = HomeOf(id) /\ NameOf(id)' = NameOf(id)
  BY <1>1 DEF HomeOf, Home, NameOf
<1>7. TypeOK'
  BY <1>1, <1>4, <1>5 DEF IInv, TypeOK
<1>8. Placing'
  <2> SUFFICES ASSUME NEW j \in Passed(HomeOf(cnt), After(slot)) PROVE table[j] # Empty
    BY <1>1, <1>5, <1>6 DEF Placing
  <2> QED BY <1>1, <1>4 DEF IInv, Placing
<1>9. Chained' /\ Placed'
  BY <1>1, <1>5, <1>6 DEF IInv, Chained, Placed
<1> QED BY <1>1, <1>7, <1>8, <1>9 DEF IInv, Probing

LEMMA ProbeOK ==
    ASSUME IInv, Generated \/ (\E n \in Name : Find(n)) \/ Miss \/ Hit \/ Advance
    PROVE  IInv'
<1>1. UNCHANGED <<rows, size, hash, table, cnt>> /\ at' # "place" /\ cnt = Len(rows)
  BY DEF Generated, Find, Miss, Hit, Advance, IInv
<1>2. Slot' = Slot /\ \A h, s : Passed(h, s)' = Passed(h, s)
  BY <1>1 DEF Slot, Passed, Dist
<1>3. \A n : Home(n)' = Home(n) /\ NameOf(n)' = NameOf(n) /\ HomeOf(n)' = HomeOf(n)
  BY <1>1 DEF HomeOf, Home, NameOf
<1>4. Chained' /\ Placed' /\ Placing'
  BY <1>1, <1>2, <1>3 DEF IInv, Chained, Placed, Placing
<1>5. CASE Generated
  <2>1. at' = "idle" /\ UNCHANGED <<slot, want, found>> /\ at = "place"
    BY <1>5 DEF Generated
  <2>2. found' = None
    BY <2>1 DEF IInv
  <2> QED BY <1>1, <1>2, <1>4, <2>1, <2>2 DEF IInv, TypeOK, Probing
<1>6. ASSUME NEW n \in Name, Find(n) PROVE IInv'
  <2>1. at' = "probe" /\ want' = n /\ slot' = Home(n) /\ found' = None
    BY <1>6 DEF Find
  <2>2. Home(n) \in Slot /\ Passed(Home(n), Home(n)) = {}
    BY HomeOK DEF IInv
  <2>3. Probing'
    BY <1>2, <1>3, <2>1, <2>2 DEF Probing
  <2>4. TypeOK'
    BY <1>1, <1>2, <2>1, <2>2 DEF IInv, TypeOK
  <2> QED BY <1>1, <1>4, <2>1, <2>3, <2>4 DEF IInv
<1>7. CASE Miss
  <2>1. at' = "idle" /\ found' = None /\ UNCHANGED <<slot, want>>
    BY <1>7 DEF Miss
  <2> QED BY <1>1, <1>2, <1>4, <2>1 DEF IInv, TypeOK, Probing
<1>8. CASE Hit
  <2>1. /\ at = "probe" /\ table[slot] # Empty /\ NameOf(table[slot]) = want
        /\ at' = "idle" /\ found' = table[slot] /\ UNCHANGED <<slot, want>>
    BY <1>8 DEF Hit
  <2>2. IsFirst(table[slot], want)
    BY <2>1, HitFirst
  <2>3. IsFirst(found, want)'
    BY <1>1, <1>3, <2>1, <2>2 DEF IsFirst, RowsNamed
  <2>4. table[slot] \in 0 .. Len(rows) - 1
    BY <2>1, EntryOK DEF IInv, TypeOK
  <2>5. TypeOK'
    BY <1>1, <1>2, <2>1, <2>4 DEF IInv, TypeOK
  <2> QED BY <1>1, <1>4, <2>1, <2>3, <2>5 DEF IInv, Probing
<1>9. CASE Advance
  <2>1. /\ at = "probe" /\ table[slot] # Empty /\ NameOf(table[slot]) # want
        /\ slot' = After(slot) /\ UNCHANGED <<at, want, found>>
    BY <1>9 DEF Advance
  <2>2. slot \in Slot /\ want \in Name /\ Home(want) \in Slot
    BY HomeOK DEF IInv, TypeOK
  <2>3. /\ After(slot) \in Slot
        /\ Passed(Home(want), After(slot)) \subseteq Passed(Home(want), slot) \cup {slot}
    BY <2>2, AfterOK DEF IInv
  <2>4. Probing'
    <3> SUFFICES ASSUME NEW j \in Passed(Home(want), After(slot))
                 PROVE  table[j] # Empty /\ NameOf(table[j]) # want
      BY <1>1, <1>2, <1>3, <2>1 DEF Probing
    <3> QED BY <2>1, <2>3 DEF IInv, Probing
  <2>5. TypeOK'
    BY <1>1, <1>2, <2>1, <2>3 DEF IInv, TypeOK
  <2> QED BY <1>1, <1>4, <2>1, <2>4, <2>5 DEF IInv
<1> QED BY <1>5, <1>6, <1>7, <1>8, <1>9

LEMMA Preserved == IInv /\ [Next]_vars => IInv'
<1> SUFFICES ASSUME IInv, [Next]_vars PROVE IInv'
  OBVIOUS
<1>1. CASE Next
  BY <1>1, TakenOK, PlaceOK, ProbeOK DEF Next
<1>2. CASE UNCHANGED vars
  <2>1. /\ rows' = rows /\ size' = size /\ hash' = hash /\ table' = table /\ cnt' = cnt
        /\ at' = at /\ slot' = slot /\ want' = want /\ found' = found
    BY <1>2 DEF vars
  <2>2. TypeOK'
    BY <2>1 DEF IInv, TypeOK, Slot
  <2>3. Chained'
    <3>1. Slot' = Slot
      BY <2>1 DEF Slot
    <3>2. \A s \in Slot : Passed(HomeOf(table[s]), s)' = Passed(HomeOf(table[s]), s)
      BY <2>1 DEF Slot, Passed, Dist, HomeOf, Home, NameOf
    <3> QED BY <2>1, <3>1, <3>2 DEF IInv, Chained
  <2>4. Placed'
    BY <2>1 DEF IInv, Placed, Slot
  <2>5. Placing'
    BY <2>1 DEF IInv, Placing, Slot, Passed, Dist, HomeOf, Home, NameOf
  <2>6. Probing'
    BY <2>1 DEF IInv, Probing, Slot, Passed, Dist, Home, NameOf
  <2>7. (at = "idle" /\ found # None => IsFirst(found, want))'
    BY <2>1 DEF IInv, IsFirst, RowsNamed, NameOf
  <2> QED BY <2>1, <2>2, <2>3, <2>4, <2>5, <2>6, <2>7 DEF IInv
<1> QED BY <1>1, <1>2

THEOREM Invariance == Spec => []IInv
<1> QED BY Initially, Preserved, PTL DEF Spec

\* json_field_offset_item_find_ph is exact for every schema, hash function and size
\* of the table: it returns the first row emitted under the name it is given, and
\* stops at an empty slot only when no row has that name.
THEOREM LookupIsExact == Spec => []LookupExact
<1>1. IInv => LookupExact
  BY MissNone DEF IInv, LookupExact
<1> QED BY <1>1, Invariance, PTL
=============================================================================
