----------------------- MODULE DependencyOrderProofs -----------------------
(***************************************************************************)
(* Proofs about module DependencyOrder, for every schema and every order   *)
(* of the hash maps.  The hard part is that Total passes are enough: a     *)
(* pass that writes nothing has found every item left over waiting for     *)
(* another one left over, and those form a circle.                         *)
(***************************************************************************)
EXTENDS DependencyOrder, FiniteSetTheorems, FunctionTheorems, TLAPS

Left == Items \ known

Noted ==
    /\ known \subseteq Written /\ Written \subseteq known \cup lost
    /\ \A i, j \in 1 .. Len(written) :
         written[i] = written[j] => i = j \/ written[i] \in lost

Closed == \A x \in known : deps[x] \subseteq known
NoCircleKnown == \A S \in SUBSET known : ~Circle(S)

\* A pass that is under way has written something, or is hopeless, or has found
\* nothing ready so far.
Progress ==
    pass < Total =>
        \/ Cardinality(known) >= pass + 1
        \/ Circle(Left)
        \/ /\ Cardinality(known) >= pass
           /\ \A j \in 1 .. at - 1 : order[j] \in known \/ ~Ready(order[j])

AllPassed == pass = Total => Cardinality(known) >= Total \/ Circle(Left)

Ended ==
    /\ result = "circle" => Cardinality(known) < Total /\ pass = Total
    /\ result = "done" => Cardinality(known) >= Total

OrderInv == TypeOK /\ DependenciesFirst /\ Noted /\ Closed /\ NoCircleKnown /\ Ended

ExactInv == OrderInv /\ Progress /\ AllPassed
IInv == OrderInv /\ (lost = {} => ExactInv)

-----------------------------------------------------------------------------
LEMMA Shape ==
    ASSUME TypeOK
    PROVE  /\ order \in Seq(Item) /\ Total \in Nat
           /\ \A i, j \in 1 .. Total : order[i] = order[j] => i = j
           /\ \A x \in Items : deps[x] \subseteq Items
BY DEF TypeOK, SchemaOK, Items, Total

LEMMA Counts ==
    ASSUME TypeOK
    PROVE  /\ IsFiniteSet(Items) /\ Cardinality(Items) = Total
           /\ IsFiniteSet(known) /\ Cardinality(known) \in 0 .. Total
           /\ Cardinality(known) = Total => known = Items
<1>1. Total \in Nat /\ \A i, j \in 1 .. Total : order[i] = order[j] => i = j
  BY Shape
<1> DEFINE f == [i \in 1 .. Total |-> order[i]]
<1>2. f \in Bijection(1 .. Total, Items)
  <2>1. f \in [1 .. Total -> Items] /\ \A i \in 1 .. Total : f[i] = order[i]
    BY DEF Items
  <2>2. \A i, j \in 1 .. Total : f[i] = f[j] => i = j
    BY <1>1, <2>1
  <2>3. \A x \in Items : \E i \in 1 .. Total : f[i] = x
    BY <2>1 DEF Items
  <2> HIDE DEF f
  <2>4. f \in Injection(1 .. Total, Items) /\ f \in Surjection(1 .. Total, Items)
    BY <2>1, <2>2, <2>3, Fun_IsInj, Fun_IsSurj
  <2> QED BY <2>4 DEF Bijection
<1>3. ExistsBijection(1 .. Total, Items)
  BY <1>2 DEF ExistsBijection
<1> HIDE DEF f
<1>4. IsFiniteSet(Items) /\ Cardinality(Items) = Total
  BY <1>1, <1>3, FS_NatBijection, FS_CountingElements
<1>5. known \in SUBSET Items
  BY DEF TypeOK
<1>6. /\ IsFiniteSet(known) /\ Cardinality(known) <= Cardinality(Items)
      /\ Cardinality(Items) = Cardinality(known) => Items = known
  BY <1>4, <1>5, FS_Subset
<1>7. Cardinality(known) \in Nat
  BY <1>6, FS_CardinalityType
<1> QED BY <1>1, <1>4, <1>6, <1>7

LEMMA InItems == ASSUME TypeOK, InPass PROVE order[at] \in Items /\ at \in 1 .. Total
<1>1. at \in 1 .. Total
  BY Shape DEF TypeOK, InPass
<1> QED BY <1>1 DEF Items

-----------------------------------------------------------------------------
LEMMA Initially == Init => ExactInv
<1> SUFFICES ASSUME Init PROVE ExactInv
  OBVIOUS
<1>1. PICK s \in Schemas : order = s.order /\ deps = s.deps
  BY DEF Init
<1>2. SchemaOK([order |-> order, deps |-> deps])
  <2>1. SchemaOK(s)
    BY OrderAssumption
  <2> QED BY <1>1, <2>1 DEF SchemaOK
<1>3. Len(order) \in Nat
  BY <1>2 DEF SchemaOK
<1>4. /\ known = {} /\ written = <<>> /\ pass = 0 /\ at = 1 /\ result = "running"
      /\ Total \in Nat /\ lost = {}
  BY <1>3 DEF Init, Total
<1>5. TypeOK
  BY <1>2, <1>4 DEF TypeOK
<1>6. Cardinality(known) = 0
  BY <1>4, FS_EmptySet
<1>7. DependenciesFirst /\ Noted /\ Closed /\ NoCircleKnown /\ Ended
  BY <1>4 DEF DependenciesFirst, Noted, Written, Closed, NoCircleKnown, Circle, Ended
<1>8. Progress /\ AllPassed
  BY <1>4, <1>6 DEF Progress, AllPassed
<1> QED BY <1>5, <1>7, <1>8 DEF ExactInv, OrderInv

\* The same schema: what is said of order and deps alone does not change.
LEMMA Fixed ==
    ASSUME UNCHANGED <<order, deps>>
    PROVE  /\ Items' = Items /\ Total' = Total
           /\ \A S : Circle(S)' = Circle(S)
BY DEF Items, Total, Circle

LEMMA WriteOrder == ASSUME OrderInv, Write PROVE OrderInv'
<1> DEFINE x == order[at]
<1>1. /\ UNCHANGED <<order, deps, pass, result>> /\ at' = at + 1 /\ result = "running"
      /\ written' = Append(written, x) /\ x \notin known /\ deps[x] \subseteq known
      /\ \/ known' = known \cup {x} /\ lost' = lost
         \/ known' = known /\ lost' = lost \cup {x}
  BY DEF Write, InPass, Ready
<1>2. x \in Items /\ at \in 1 .. Total
  BY InItems DEF OrderInv, Write
<1>3. Items' = Items /\ Total' = Total /\ Total \in Nat /\ \A S : Circle(S)' = Circle(S)
  BY <1>1, Fixed, Shape DEF OrderInv
<1> HIDE DEF x
<1>4. known \subseteq Items /\ written \in Seq(Items) /\ known \subseteq Written
  BY DEF OrderInv, TypeOK, Noted
<1>5. /\ written' \in Seq(Items) /\ Len(written') = Len(written) + 1 /\ Len(written) \in Nat
      /\ \A i \in 1 .. Len(written) : written'[i] = written[i]
      /\ written'[Len(written) + 1] = x
  BY <1>1, <1>2, <1>4
<1>6. Written' = Written \cup {x}
  BY <1>5 DEF Written
<1>7. TypeOK'
  <2>1. SchemaOK([order |-> order, deps |-> deps])'
    BY <1>1 DEF OrderInv, TypeOK
  <2>2. known' \subseteq Items'
    BY <1>1, <1>2, <1>3, <1>4
  <2>3. pass' \in 0 .. Total' /\ at' \in 1 .. Total' + 1 /\ result' = "running" /\ lost' \subseteq Items'
    BY <1>1, <1>2, <1>3 DEF OrderInv, TypeOK
  <2> QED BY <1>3, <1>5, <2>1, <2>2, <2>3 DEF TypeOK
<1>8. DependenciesFirst'
  <2> SUFFICES ASSUME NEW i \in 1 .. Len(written) + 1
               PROVE  deps[written'[i]] \subseteq {written'[j] : j \in 1 .. i - 1}
    BY <1>1, <1>5 DEF DependenciesFirst
  <2>1. CASE i = Len(written) + 1
    <3>1. {written'[j] : j \in 1 .. i - 1} = Written
      BY <1>5, <2>1 DEF Written
    <3> QED BY <1>1, <1>4, <1>5, <2>1, <3>1
  <2>2. CASE i # Len(written) + 1
    <3>1. i \in 1 .. Len(written)
      BY <1>5, <2>2
    <3>2. {written'[j] : j \in 1 .. i - 1} = {written[j] : j \in 1 .. i - 1}
      BY <1>5, <3>1
    <3> QED BY <1>5, <3>1, <3>2 DEF OrderInv, DependenciesFirst
  <2> QED BY <2>1, <2>2
<1>9. Noted'
  <2>1. known' \subseteq Written'
    BY <1>1, <1>4, <1>6
  <2>2. Written' \subseteq known' \cup lost'
    BY <1>1, <1>6 DEF OrderInv, Noted
  <2>3. \A i, j \in 1 .. Len(written) :
          written[i] = written[j] => i = j \/ written[i] \in lost'
    BY <1>1 DEF OrderInv, Noted
  <2>4. \A i \in 1 .. Len(written) : written[i] = x => x \in lost'
    <3>1. x \in Written => x \in lost
      BY <1>1 DEF OrderInv, Noted
    <3> QED BY <1>1, <3>1 DEF Written
  <2>5. \A i, j \in 1 .. Len(written') :
          written'[i] = written'[j] => i = j \/ written'[i] \in lost'
    BY <1>5, <2>3, <2>4
  <2> QED BY <2>1, <2>2, <2>5 DEF Noted
<1>10. Closed'
  BY <1>1 DEF OrderInv, Closed
<1>11. NoCircleKnown'
  <2> SUFFICES ASSUME NEW S \in SUBSET known', Circle(S) PROVE FALSE
    BY <1>3 DEF NoCircleKnown
  <2>1. S \ {x} \in SUBSET known
    BY <1>1
  <2>2. \A y \in S \ {x} : deps[y] \subseteq known /\ deps[y] \cap S # {}
    BY <2>1 DEF OrderInv, Closed, Circle
  <2>3. \A y \in S \ {x} : deps[y] \cap (S \ {x}) # {}
    BY <1>1, <2>2
  <2>4. S \ {x} = {}
    BY <2>1, <2>3 DEF OrderInv, NoCircleKnown, Circle
  <2>5. S = {x}
    BY <2>4 DEF Circle
  <2> QED BY <1>1, <2>5 DEF Circle
<1>12. Ended'
  BY <1>1 DEF Ended
<1> QED BY <1>7, <1>8, <1>9, <1>10, <1>11, <1>12 DEF OrderInv

LEMMA SkipOrder == ASSUME OrderInv, Skip PROVE OrderInv'
<1>1. /\ UNCHANGED <<order, deps, known, written, pass, result, lost>> /\ at' = at + 1
      /\ result = "running"
  BY DEF Skip, InPass
<1>2. at \in 1 .. Total /\ Total \in Nat
  BY InItems, Shape DEF OrderInv, Skip
<1>3. TypeOK'
  BY <1>1, <1>2 DEF OrderInv, TypeOK, SchemaOK, Items, Total
<1>4. \A S : Circle(S)' = Circle(S)
  BY <1>1, Fixed
<1>5. NoCircleKnown' /\ Ended'
  BY <1>1, <1>4 DEF OrderInv, NoCircleKnown, Ended
<1> QED BY <1>1, <1>3, <1>5 DEF OrderInv, DependenciesFirst, Noted, Written, Closed

LEMMA EndOrder == ASSUME OrderInv, EndOfPass \/ Finish PROVE OrderInv'
<1>1. /\ UNCHANGED <<order, deps, known, written, lost>> /\ result = "running"
  BY DEF EndOfPass, Finish
<1>2. Total \in Nat /\ Total' = Total /\ Items' = Items
  BY <1>1, Shape, Fixed DEF OrderInv
<1>3. pass \in 0 .. Total /\ at \in 1 .. Total + 1 /\ Cardinality(known) \in 0 .. Total
  BY Counts DEF OrderInv, TypeOK
<1>4. /\ pass' \in 0 .. Total /\ at' \in 1 .. Total + 1
      /\ result' \in {"running", "circle", "done"}
  BY <1>2, <1>3 DEF EndOfPass, Finish, LastPass
<1>5. TypeOK'
  BY <1>1, <1>2, <1>4 DEF OrderInv, TypeOK, SchemaOK
<1>6. Ended'
  BY <1>1, <1>2, <1>3 DEF EndOfPass, Finish, Ended
<1>7. \A S : Circle(S)' = Circle(S)
  BY <1>1, Fixed
<1>8. NoCircleKnown'
  BY <1>1, <1>7 DEF OrderInv, NoCircleKnown
<1>9. DependenciesFirst'
  BY <1>1 DEF OrderInv, DependenciesFirst
<1>10. Noted'
  BY <1>1 DEF OrderInv, Noted, Written
<1>11. Closed'
  BY <1>1 DEF OrderInv, Closed
<1> QED BY <1>5, <1>6, <1>8, <1>9, <1>10, <1>11 DEF OrderInv

LEMMA OrderPreserved == OrderInv /\ [Next]_vars => OrderInv'
<1> SUFFICES ASSUME OrderInv, [Next]_vars PROVE OrderInv'
  OBVIOUS
<1>1. CASE Next
  BY <1>1, SkipOrder, WriteOrder, EndOrder DEF Next
<1>2. CASE UNCHANGED vars
  <2>1. \A S : Circle(S)' = Circle(S)
    BY <1>2, Fixed DEF vars
  <2>2. NoCircleKnown'
    BY <1>2, <2>1 DEF vars, OrderInv, NoCircleKnown
  <2>5. TypeOK'
    <3>1. Items' = Items /\ Total' = Total
      BY <1>2, Fixed DEF vars
    <3> QED BY <1>2, <3>1 DEF vars, OrderInv, TypeOK
  <2>3. DependenciesFirst' /\ Closed' /\ Ended'
    BY <1>2 DEF vars, OrderInv, DependenciesFirst, Closed, Ended, Total
  <2>4. Noted'
    BY <1>2 DEF vars, OrderInv, Noted, Written
  <2> QED BY <2>2, <2>3, <2>4, <2>5 DEF OrderInv
<1> QED BY <1>1, <1>2

\* For every schema and every order of the hash maps, even when hash_map_insert
\* fails: gencode_source never writes a type in front of one it contains.
THEOREM Ordered == Spec => []DependenciesFirst
<1>1. Init => OrderInv
  BY Initially DEF ExactInv
<1>2. OrderInv => DependenciesFirst
  BY DEF OrderInv
<1> QED BY <1>1, <1>2, OrderPreserved, PTL DEF Spec

-----------------------------------------------------------------------------
\* While nothing fails, a pass either writes or proves that there is a circle.
LEMMA SkipExact ==
    ASSUME ExactInv, Skip
    PROVE  (Progress /\ AllPassed)'
<1>1. /\ UNCHANGED <<order, deps, known, written, pass, result, lost>> /\ at' = at + 1
      /\ order[at] \in known \/ ~Ready(order[at])
  BY DEF Skip
<1>2. at \in 1 .. Total /\ Total \in Nat
  BY InItems, Shape DEF ExactInv, OrderInv, Skip
<1>3. Total' = Total /\ Circle(Left)' = Circle(Left) /\ \A y : Ready(y)' = Ready(y)
  BY <1>1 DEF Total, Left, Items, Circle, Ready
<1>4. \A j \in 1 .. at' - 1 : j \in 1 .. at - 1 \/ j = at
  BY <1>1, <1>2
<1> QED BY <1>1, <1>3, <1>4 DEF ExactInv, Progress, AllPassed

LEMMA WriteExact ==
    ASSUME ExactInv, Write, lost' = {}
    PROVE  (Progress /\ AllPassed)'
<1>1. /\ UNCHANGED <<order, deps, pass, result>> /\ pass < Total
      /\ order[at] \notin known /\ deps[order[at]] \subseteq known
      /\ known' = known \cup {order[at]}
  BY DEF Write, InPass, Ready
<1>2. order[at] \in Items /\ Total \in Nat /\ pass \in 0 .. Total /\ Total' = Total
  BY <1>1, InItems, Shape, Fixed DEF ExactInv, OrderInv, Write, TypeOK
<1>3. ~Circle(Left)
  BY <1>1, <1>2 DEF Circle, Left
<1>4. IsFiniteSet(known) /\ Cardinality(known) \in Nat
  BY Counts DEF ExactInv, OrderInv
<1>5. Cardinality(known') = Cardinality(known) + 1
  BY <1>1, <1>4, FS_AddElement
<1>6. Cardinality(known) >= pass
  BY <1>1, <1>2, <1>3, <1>4 DEF ExactInv, Progress
<1> QED BY <1>1, <1>2, <1>4, <1>5, <1>6 DEF Progress, AllPassed

LEMMA EndExact ==
    ASSUME ExactInv, EndOfPass
    PROVE  (Progress /\ AllPassed)'
<1>1. /\ UNCHANGED <<order, deps, known, written, result>> /\ pass < Total /\ at > Total
      /\ pass' = IF Cardinality(known) >= Total \/ LastPass THEN Total ELSE pass + 1
      /\ at' = 1
  BY DEF EndOfPass
<1>2. /\ Total \in Nat /\ pass \in 0 .. Total /\ at = Total + 1
      /\ Cardinality(known) \in 0 .. Total /\ (Cardinality(known) = Total => known = Items)
  <2>1. TypeOK
    BY DEF ExactInv, OrderInv
  <2>2. /\ Cardinality(known) \in 0 .. Total /\ (Cardinality(known) = Total => known = Items)
        /\ Total \in Nat
    BY <2>1, Shape, Counts
  <2>3. pass \in 0 .. Total /\ at \in 1 .. Total + 1
    BY <2>1 DEF TypeOK
  <2> QED BY <1>1, <2>2, <2>3
<1>3. Total' = Total /\ Circle(Left)' = Circle(Left)
  BY <1>1 DEF Total, Left, Items, Circle
<1>4. Cardinality(known) >= pass + 1 \/ Circle(Left)
  <2> SUFFICES ASSUME Cardinality(known) < pass + 1, ~Circle(Left) PROVE FALSE
    BY <1>2
  <2>1. \A j \in 1 .. Total : order[j] \in known \/ ~Ready(order[j])
    BY <1>1, <1>2 DEF ExactInv, Progress
  <2>2. \A y \in Left : ~(deps[y] \subseteq known)
    BY <2>1 DEF Left, Items, Ready
  <2>3. \A y \in Left : deps[y] \cap Left # {}
    BY <2>2, Shape DEF Left, ExactInv, OrderInv
  <2>4. Left = {}
    BY <2>3 DEF Circle
  <2>5. known = Items
    BY <2>4 DEF Left, ExactInv, OrderInv, TypeOK
  <2>6. Cardinality(known) = Total
    BY <2>5, Counts DEF ExactInv, OrderInv
  <2> QED BY <1>1, <1>2, <2>6
<1>5. CASE Cardinality(known) >= Total \/ LastPass
  BY <1>1, <1>2, <1>3, <1>4, <1>5 DEF Progress, AllPassed, LastPass
<1>6. CASE ~(Cardinality(known) >= Total \/ LastPass)
  <2>1. pass' = pass + 1 /\ pass + 1 < Total
    BY <1>1, <1>2, <1>6 DEF LastPass
  <2> QED BY <1>1, <1>2, <1>3, <1>4, <2>1 DEF Progress, AllPassed
<1> QED BY <1>5, <1>6

LEMMA Preserved == IInv /\ [Next]_vars => IInv'
<1> SUFFICES ASSUME IInv, [Next]_vars, lost' = {} PROVE (Progress /\ AllPassed)'
  BY OrderPreserved DEF IInv, ExactInv
<1>1. lost = {}
  BY DEF Next, Skip, Write, EndOfPass, Finish, vars
<1>2. ExactInv
  BY <1>1 DEF IInv
<1>3. CASE Skip \/ Write \/ EndOfPass
  BY <1>2, <1>3, SkipExact, WriteExact, EndExact
<1>4. CASE Finish \/ UNCHANGED vars
  BY <1>2, <1>4
     DEF Finish, vars, ExactInv, Progress, AllPassed, Total, Left, Items, Circle, Ready
<1> QED BY <1>3, <1>4 DEF Next

LEMMA Implies == IInv => WrittenOnce /\ RefusesOnlyCircles
<1> SUFFICES ASSUME IInv PROVE WrittenOnce /\ RefusesOnlyCircles
  OBVIOUS
<1>1. /\ Cardinality(known) \in 0 .. Total /\ (Cardinality(known) = Total => known = Items)
      /\ Total \in Nat
  BY Counts, Shape DEF IInv, OrderInv
<1>2. result = "done" => known = Items
  BY <1>1 DEF IInv, OrderInv, Ended
<1>3. result = "circle" /\ lost = {} => Circle(Left) /\ Left \in SUBSET Items
  BY <1>1 DEF IInv, ExactInv, OrderInv, Ended, AllPassed, Left
<1>4. Written \subseteq Items /\ known \subseteq Written
  BY DEF IInv, OrderInv, TypeOK, Noted, Written
<1>5. WrittenOnce
  BY <1>2, <1>4 DEF WrittenOnce, IInv, OrderInv, Noted
<1>6. result = "done" => \A S \in SUBSET Items : ~Circle(S)
  BY <1>2 DEF IInv, OrderInv, NoCircleKnown
<1> QED BY <1>3, <1>5, <1>6 DEF RefusesOnlyCircles

\* For every schema and every order of the hash maps: unless an insertion fails, every
\* type is written once, and the generator reports a dependency circle exactly for the
\* schemas that have one; and what it says is done is complete in any case.
THEOREM Exact == Spec => [](WrittenOnce /\ RefusesOnlyCircles)
<1>1. Init => IInv
  BY Initially DEF IInv, ExactInv
<1> QED BY <1>1, Preserved, Implies, PTL DEF Spec
=============================================================================
