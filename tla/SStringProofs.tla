--------------------------- MODULE SStringProofs ---------------------------
(***************************************************************************)
(* Proofs about module SString, for every short capacity, growth step and  *)
(* length.  The invariant StorageOK relates the kind of storage, the       *)
(* recorded capacity and the real size of the block; NoOverrun and         *)
(* Terminated are not inductive without it.                                *)
(***************************************************************************)
EXTENDS SString, SequenceTheorems, TLAPS

\* The recorded capacity never exceeds the block and never falls below length.
StorageOK ==
    /\ type = "SHORT" => Len(block) = ShortCap + 1 /\ length <= ShortCap
    /\ type = "LONG" =>
         \/ block = <<>> /\ length = 0 /\ capacity = 0
         \/ length <= capacity /\ capacity <= Len(block) /\ length < Len(block)
    /\ type = "REF" => Len(block) = length

\* TypeOK without the part about who uses the string.
MemoryOK ==
    /\ type \in {"SHORT", "LONG", "REF"}
    /\ length \in Nat /\ capacity \in Nat /\ reach \in Nat
    /\ block \in Seq(Char \cup {Junk})
    /\ arg \in Seq(Char)

StringInv == MemoryOK /\ StorageOK /\ NoOverrun /\ Terminated

\* The parser's token buffer owns memory between tokens: its data pointer is valid.
Owned == type # "REF" /\ block # <<>>

IInv ==
    /\ StringInv
    /\ use \in {"any", "token", "error"}
    /\ use = "token" => Owned
    /\ use = "error" => type # "REF"

-----------------------------------------------------------------------------
\* What a caller may append is a sequence of bytes of the string's alphabet.
LEMMA DataType == ASSUME NEW d \in Data PROVE d \in Seq(Char) /\ Len(d) \in Nat
BY SStringAssumption DEF Data, Char

LEMMA RunType ==
    ASSUME NEW n \in Nat, NEW c \in Char
    PROVE  Run(c, n) \in Seq(Char) /\ Len(Run(c, n)) = n
BY DEF Run

\* A store keeps the size of the block and puts d where it was asked to.
LEMMA StoreProps ==
    ASSUME NEW S, NEW m \in Seq(S), NEW d \in Seq(S), NEW off \in Nat
    PROVE  /\ Store(m, off, d) \in Seq(S)
           /\ Len(Store(m, off, d)) = Len(m)
           /\ \A i \in 1..Len(m) :
                Store(m, off, d)[i] = IF i > off /\ i <= off + Len(d)
                                        THEN d[i - off] ELSE m[i]
BY DEF Store

LEMMA StoreAtStart ==
    ASSUME NEW m \in Seq(Char \cup {Junk}), NEW d \in Seq(Char \cup {Junk})
    PROVE  /\ Store(m, 0, d) \in Seq(Char \cup {Junk})
           /\ Len(Store(m, 0, d)) = Len(m)
           /\ \A i \in 1..Len(m) :
                Store(m, 0, d)[i] = IF i <= Len(d) THEN d[i] ELSE m[i]
BY DEF Store

LEMMA ResizedProps ==
    ASSUME NEW m \in Seq(Char \cup {Junk}), NEW n \in Nat
    PROVE  /\ Resized(m, n) \in Seq(Char \cup {Junk})
           /\ Len(Resized(m, n)) = n
           /\ \A i \in 1..n : i <= Len(m) => Resized(m, n)[i] = m[i]
BY DEF Resized

(***************************************************************************)
(* Appending into a memory that has room and starts with the string leaves *)
(* a terminated string one d longer, whatever lies behind it.              *)
(***************************************************************************)
LEMMA WriteEndProps ==
    ASSUME StringInv, NEW d \in Seq(Char), NEW m \in Seq(Char \cup {Junk}),
           length + Len(d) + 1 <= Len(m),
           \A i \in 1..length : m[i] = block[i],
           type # "REF",
           \A i \in 1..length : block[i] # Junk,
           WriteEnd(m, d)
    PROVE  /\ block' \in Seq(Char \cup {Junk}) /\ Len(block') = Len(m)
           /\ length' = length + Len(d) /\ reach' = length' + 1
           /\ length' \in Nat /\ reach' \in Nat
           /\ arg' = d
           /\ block'[length' + 1] = NUL
           /\ \A i \in 1..length' : block'[i] # Junk
           /\ \A i \in 1..length' :
                block'[i] = IF i <= length THEN block[i] ELSE d[i - length]
<1> DEFINE t == Append(d, NUL)
<1>1. /\ t \in Seq(Char \cup {Junk}) /\ Len(t) = Len(d) + 1 /\ Len(d) \in Nat
      /\ t[Len(d) + 1] = NUL /\ \A i \in 1..Len(d) : t[i] = d[i]
  BY DEF Char
<1>2. length \in Nat
  BY DEF StringInv, MemoryOK
<1>3. /\ block' = Store(m, length, t) /\ length' = length + Len(d)
      /\ reach' = length + Len(d) + 1 /\ arg' = d
  BY DEF WriteEnd
<1>4. /\ block' \in Seq(Char \cup {Junk}) /\ Len(block') = Len(m)
      /\ \A i \in 1..Len(m) :
           block'[i] = IF i > length /\ i <= length + Len(t)
                         THEN t[i - length] ELSE m[i]
  <2> HIDE DEF t
  <2>1. length + Len(t) <= Len(m) /\ Len(t) \in Nat
    BY <1>1, <1>2
  <2> QED BY <1>1, <1>2, <1>3, <2>1, StoreProps
<1>5. block'[length' + 1] = NUL
  BY <1>1, <1>2, <1>3, <1>4
<1>6. \A i \in 1..length' :
         block'[i] = IF i <= length THEN block[i] ELSE d[i - length]
  BY <1>1, <1>2, <1>3, <1>4
<1>7. \A i \in 1..Len(d) : d[i] # Junk
  BY SStringAssumption DEF Char
<1>8. \A i \in 1..length' : block'[i] # Junk
  <2> SUFFICES ASSUME NEW i \in 1..length' PROVE block'[i] # Junk
    OBVIOUS
  <2>1. CASE i <= length
    <3>1. i \in 1..length /\ block'[i] = block[i]
      BY <1>2, <1>6, <2>1
    <3> QED BY <3>1
  <2>2. CASE i > length
    <3>1. i - length \in 1..Len(d)
      BY <1>1, <1>2, <1>3, <2>2
    <3>2. block'[i] = d[i - length]
      BY <1>2, <1>6, <2>2
    <3> QED BY <1>7, <3>1, <3>2, Zenon
  <2> QED BY <1>2, <2>1, <2>2
<1> QED BY <1>1, <1>2, <1>3, <1>4, <1>5, <1>6, <1>8

(***************************************************************************)
(* The three ways Extend stores data all find room for it, so they agree   *)
(* on the resulting bytes and differ only in the storage they leave.       *)
(***************************************************************************)
LEMMA ExtendStep ==
    ASSUME StringInv, NEW d \in Seq(Char), type # "REF",
           InPlace(d) \/ Promote(d) \/ Regrow(d)
    PROVE  /\ StringInv'
           /\ block' # <<>> /\ type' # "REF"
           /\ arg' = d /\ length' = length + Len(d)
           /\ \A i \in 1..length' :
                block'[i] = IF i <= length THEN block[i] ELSE d[i - length]
<1>1. /\ length \in Nat /\ capacity \in Nat /\ Len(d) \in Nat /\ Len(block) \in Nat
      /\ block \in Seq(Char \cup {Junk}) /\ \A i \in 1..length : block[i] # Junk
      /\ length <= Len(block)
  BY SStringAssumption DEF StringInv, MemoryOK, StorageOK, Terminated
<1>2. CASE InPlace(d)
  <2>1. length + Len(d) + 1 <= Len(block)
    BY <1>1, <1>2, SStringAssumption DEF StringInv, StorageOK, InPlace, FitsShort, FitsLong, SizeSub
  <2>2. WriteEnd(block, d) /\ UNCHANGED <<type, capacity>>
    BY <1>2 DEF InPlace
  <2>3. /\ block' \in Seq(Char \cup {Junk}) /\ Len(block') = Len(block)
        /\ length' = length + Len(d) /\ reach' = length' + 1
        /\ length' \in Nat /\ reach' \in Nat
        /\ arg' = d /\ block'[length' + 1] = NUL
        /\ \A i \in 1..length' : block'[i] # Junk
        /\ \A i \in 1..length' :
             block'[i] = IF i <= length THEN block[i] ELSE d[i - length]
    BY <1>1, <2>1, <2>2, WriteEndProps
  <2>4. MemoryOK' /\ NoOverrun' /\ Terminated'
    BY <1>1, <2>1, <2>2, <2>3 DEF StringInv, MemoryOK, NoOverrun, Terminated
  <2>5. StorageOK' /\ block' # <<>>
    BY <1>1, <1>2, <2>1, <2>2, <2>3, SStringAssumption
       DEF StringInv, MemoryOK, StorageOK, InPlace, FitsShort, FitsLong, SizeSub
  <2> QED BY <2>2, <2>3, <2>4, <2>5 DEF StringInv
<1>3. CASE Promote(d)
  <2> DEFINE m == Resized(Value, length + Len(d) + CapDelta + 1)
  <2>1. /\ type = "SHORT" /\ WriteEnd(m, d) /\ type' = "LONG"
        /\ capacity' = length + Len(d) + CapDelta
    BY <1>3 DEF Promote
  <2>2. Value \in Seq(Char \cup {Junk}) /\ Len(Value) = length
    BY <1>1 DEF Value
  <2>3. /\ m \in Seq(Char \cup {Junk})
        /\ Len(m) = length + Len(d) + CapDelta + 1
        /\ \A i \in 1..length : m[i] = block[i]
    <3>1. \A i \in 1..length : Value[i] = block[i]
      BY <1>1 DEF Value
    <3> DEFINE n == length + Len(d) + CapDelta + 1
    <3>2. n \in Nat /\ length <= n
      BY <1>1, SStringAssumption
    <3> HIDE DEF n
    <3>3. /\ Resized(Value, n) \in Seq(Char \cup {Junk})
          /\ Len(Resized(Value, n)) = n
          /\ \A i \in 1..n : i <= Len(Value) => Resized(Value, n)[i] = Value[i]
      BY <2>2, <3>2, ResizedProps
    <3>4. \A i \in 1..length : Resized(Value, n)[i] = block[i]
      BY <1>1, <2>2, <3>1, <3>2, <3>3
    <3> QED BY <3>3, <3>4 DEF n
  <2>4. length + Len(d) + 1 <= Len(m)
    BY <1>1, <2>3, SStringAssumption
  <2> HIDE DEF m
  <2>5. /\ block' \in Seq(Char \cup {Junk}) /\ Len(block') = Len(m)
        /\ length' = length + Len(d) /\ reach' = length' + 1
        /\ length' \in Nat /\ reach' \in Nat
        /\ arg' = d /\ block'[length' + 1] = NUL
        /\ \A i \in 1..length' : block'[i] # Junk
        /\ \A i \in 1..length' :
             block'[i] = IF i <= length THEN block[i] ELSE d[i - length]
    BY <1>1, <2>1, <2>3, <2>4, WriteEndProps
  <2>6. MemoryOK' /\ NoOverrun' /\ Terminated'
    BY <1>1, <2>1, <2>4, <2>5, SStringAssumption DEF MemoryOK, NoOverrun, Terminated
  <2>7. StorageOK' /\ block' # <<>>
    BY <1>1, <2>1, <2>3, <2>5, SStringAssumption DEF StorageOK
  <2> QED BY <2>1, <2>5, <2>6, <2>7 DEF StringInv
<1>4. CASE Regrow(d)
  <2> DEFINE m == Resized(block, length + Len(d) + CapDelta + 1)
  <2>1. /\ type = "LONG" /\ WriteEnd(m, d) /\ type' = type
        /\ capacity' = length + Len(d) + CapDelta + 1
    BY <1>4 DEF Regrow
  <2>2. /\ m \in Seq(Char \cup {Junk})
        /\ Len(m) = length + Len(d) + CapDelta + 1
        /\ \A i \in 1..length : m[i] = block[i]
    <3> DEFINE n == length + Len(d) + CapDelta + 1
    <3>1. n \in Nat /\ length <= n
      BY <1>1, SStringAssumption
    <3> HIDE DEF n
    <3>2. /\ Resized(block, n) \in Seq(Char \cup {Junk})
          /\ Len(Resized(block, n)) = n
          /\ \A i \in 1..n : i <= Len(block) => Resized(block, n)[i] = block[i]
      BY <1>1, <3>1, ResizedProps
    <3>3. \A i \in 1..length : Resized(block, n)[i] = block[i]
      BY <1>1, <3>1, <3>2
    <3> QED BY <3>2, <3>3 DEF n
  <2>3. length + Len(d) + 1 <= Len(m)
    BY <1>1, <2>2, SStringAssumption
  <2> HIDE DEF m
  <2>4. /\ block' \in Seq(Char \cup {Junk}) /\ Len(block') = Len(m)
        /\ length' = length + Len(d) /\ reach' = length' + 1
        /\ length' \in Nat /\ reach' \in Nat
        /\ arg' = d /\ block'[length' + 1] = NUL
        /\ \A i \in 1..length' : block'[i] # Junk
        /\ \A i \in 1..length' :
             block'[i] = IF i <= length THEN block[i] ELSE d[i - length]
    BY <1>1, <2>1, <2>2, <2>3, WriteEndProps
  <2>5. MemoryOK' /\ NoOverrun' /\ Terminated'
    BY <1>1, <2>1, <2>3, <2>4, SStringAssumption DEF MemoryOK, NoOverrun, Terminated
  <2>6. StorageOK' /\ block' # <<>>
    BY <1>1, <2>1, <2>2, <2>4, SStringAssumption DEF StorageOK
  <2> QED BY <2>1, <2>4, <2>5, <2>6 DEF StringInv
<1> QED BY <1>2, <1>3, <1>4

LEMMA InitOK == Init => StringInv
<1> SUFFICES ASSUME Init PROVE StringInv
  OBVIOUS
<1>1. CASE New
  BY <1>1, SStringAssumption
     DEF Init, New, Run, StringInv, MemoryOK, StorageOK, NoOverrun, Terminated, Char
<1>2. ASSUME NEW d \in Data, Of(d) PROVE StringInv
  <2>1. /\ d \in Seq(Char) /\ Len(d) \in Nat
        /\ \A i \in 1..Len(d) : d[i] # Junk
    BY DataType, SStringAssumption DEF Char
  <2> DEFINE t == Append(d, NUL)
  <2>2. /\ t \in Seq(Char \cup {Junk}) /\ Len(t) = Len(d) + 1
        /\ t[Len(d) + 1] = NUL /\ \A i \in 1..Len(d) : t[i] = d[i]
    BY <2>1 DEF Char
  <2>3. length = Len(d) /\ reach = Len(d) + 1 /\ arg = <<>>
    BY <1>2 DEF Init, Of
  <2>4. CASE Len(d) <= ShortCap
    <3> DEFINE z == Run(NUL, ShortCap + 1)
    <3>1. /\ z \in Seq(Char \cup {Junk}) /\ Len(z) = ShortCap + 1
      BY SStringAssumption DEF Run, Char
    <3>2. type = "SHORT" /\ capacity = 0 /\ block = Store(z, 0, t)
      BY <1>2, <2>4 DEF Of
    <3> HIDE DEF z, t
    <3>3. /\ block \in Seq(Char \cup {Junk}) /\ Len(block) = ShortCap + 1
          /\ \A i \in 1..Len(z) :
               block[i] = IF i <= Len(t) THEN t[i] ELSE z[i]
      BY <2>2, <3>1, <3>2, StoreAtStart
    <3>4. \A i \in 1..Len(d) + 1 : block[i] = t[i]
      BY <2>1, <2>2, <2>4, <3>1, <3>3, SStringAssumption
    <3> QED BY <2>1, <2>2, <2>3, <2>4, <3>2, <3>3, <3>4, SStringAssumption
            DEF StringInv, MemoryOK, StorageOK, NoOverrun, Terminated
  <2>5. CASE ~(Len(d) <= ShortCap)
    BY <1>2, <2>1, <2>2, <2>3, <2>5, SStringAssumption
       DEF Of, StringInv, MemoryOK, StorageOK, NoOverrun, Terminated
  <2> QED BY <2>4, <2>5
<1>3. ASSUME NEW d \in Data, Ref(d) PROVE StringInv
  <2>1. d \in Seq(Char) /\ \A i \in 1..Len(d) : d[i] # Junk
    BY DataType, SStringAssumption DEF Char
  <2> QED BY <1>3, <2>1
          DEF Init, Ref, StringInv, MemoryOK, StorageOK, NoOverrun, Terminated
<1> QED BY <1>1, <1>2, <1>3 DEF Init

LEMMA ClearStep == ASSUME StringInv, Clear PROVE StringInv' /\ length' = 0 /\ arg' = <<>>
<1> USE DEF StringInv, MemoryOK, StorageOK, NoOverrun, Terminated
<1>1. length' = 0 /\ arg' = <<>> /\ type' = type
  BY DEF Clear
<1>2. CASE type = "SHORT"
  <2>1. block' = Store(block, 0, <<NUL>>) /\ reach' = 1 /\ capacity' = capacity
    BY <1>2 DEF Clear
  <2>2. /\ block' \in Seq(Char \cup {Junk}) /\ Len(block') = Len(block)
        /\ \A i \in 1..Len(block) :
             block'[i] = IF i <= 1 THEN NUL ELSE block[i]
    <3> DEFINE t == <<NUL>>
    <3>1. t \in Seq(Char \cup {Junk}) /\ Len(t) = 1 /\ t[1] = NUL
      BY DEF Char
    <3> HIDE DEF t
    <3>2. block \in Seq(Char \cup {Junk}) /\ Len(block) \in Nat /\ block' = Store(block, 0, t)
      BY <2>1 DEF t
    <3>3. /\ Store(block, 0, t) \in Seq(Char \cup {Junk})
          /\ Len(Store(block, 0, t)) = Len(block)
          /\ \A i \in 1..Len(block) :
               Store(block, 0, t)[i] = IF i <= Len(t) THEN t[i] ELSE block[i]
      BY <3>1, <3>2, StoreAtStart
    <3> QED BY <3>1, <3>2, <3>3
  <2>3. block'[1] = NUL
    BY <1>2, <2>2, SStringAssumption
  <2> QED BY <1>1, <1>2, <2>1, <2>2, <2>3, SStringAssumption
<1>3. CASE type # "SHORT"
  <2>1. block' = <<>> /\ reach' = 0 /\ capacity' \in {0, capacity}
    BY <1>3 DEF Clear
  <2>2. block' \in Seq(Char \cup {Junk}) /\ Len(block') = 0
    BY <2>1
  <2>3. type = "LONG" => capacity' = 0
    BY DEF Clear
  <2> QED BY <1>1, <1>3, <2>1, <2>2, <2>3
<1> QED BY <1>2, <1>3

\* Each entry point that extends a string is an Extend with some bytes.
LEMMA ExtendData ==
    ASSUME AppendOf \/ AppendZero \/ AppendIndent
    PROVE  \E d \in Seq(Char) : Extend(d)
<1>1. ASSUME NEW d \in Data, Extend(d) PROVE \E e \in Seq(Char) : Extend(e)
  BY <1>1, DataType
<1>2. ASSUME NEW n \in 0..MaxData, NEW c \in Char, Extend(Run(c, n))
      PROVE  \E e \in Seq(Char) : Extend(e)
  BY <1>2, RunType, SStringAssumption
<1>3. NUL \in Char /\ Space \in Char
  BY DEF Char
<1> QED BY <1>1, <1>2, <1>3, SStringAssumption DEF AppendOf, AppendZero, AppendIndent

\* A REF has no room: the appending entry points are not taken on it.
LEMMA ExtendOwned == ASSUME NEW d, Extend(d) PROVE type # "REF"
BY DEF Extend, InPlace, Promote, Regrow, FitsShort, FitsLong

LEMMA ClearFastStep == ASSUME StringInv, Owned, ClearFast
    PROVE  StringInv' /\ Owned' /\ length' = 0 /\ arg' = <<>>
<1> DEFINE t == <<NUL>>
<1>1. t \in Seq(Char \cup {Junk}) /\ Len(t) = 1 /\ t[1] = NUL
  BY DEF Char
<1>2. /\ block' = Store(block, 0, t) /\ reach' = 1 /\ length' = 0
      /\ arg' = <<>> /\ type' = type /\ capacity' = capacity
  BY DEF ClearFast
<1> HIDE DEF t
<1>3. block \in Seq(Char \cup {Junk}) /\ Len(block) \in Nat /\ Len(block) > 0
  BY DEF Owned, StringInv, MemoryOK
<1>4. /\ Store(block, 0, t) \in Seq(Char \cup {Junk})
      /\ Len(Store(block, 0, t)) = Len(block)
      /\ \A i \in 1..Len(block) :
           Store(block, 0, t)[i] = IF i <= Len(t) THEN t[i] ELSE block[i]
  BY <1>1, <1>3, StoreAtStart
<1>5. /\ block' \in Seq(Char \cup {Junk}) /\ Len(block') = Len(block)
      /\ block'[1] = NUL
  BY <1>1, <1>2, <1>3, <1>4
<1> QED BY <1>2, <1>3, <1>5, SStringAssumption
        DEF Owned, StringInv, MemoryOK, StorageOK, NoOverrun, Terminated

LEMMA StringInit == Init => IInv
BY InitOK, SStringAssumption DEF Init, IInv, Owned, New, Run

LEMMA NextStep == ASSUME IInv, [Next]_vars PROVE IInv'
<1>1. CASE StringCall
  <2>1. CASE AppendOf \/ AppendZero \/ AppendIndent
    <3>1. PICK d \in Seq(Char) : Extend(d)
      BY <2>1, ExtendData
    <3> QED BY <1>1, <3>1, ExtendOwned, ExtendStep DEF Extend, IInv, StringCall
  <2>2. CASE Clear
    BY <1>1, <2>2, ClearStep DEF IInv, StringCall
  <2> QED BY <1>1, <2>1, <2>2 DEF StringCall
<1>2. CASE TokenCall
  <2>1. CASE AppendOfFast
    <3>1. PICK d \in Seq(Char) : Extend(d)
      BY <2>1, ExtendData DEF AppendOfFast
    <3> QED BY <1>2, <3>1, ExtendOwned, ExtendStep DEF Extend, IInv, TokenCall, Owned
  <2>2. CASE ClearFast
    BY <1>2, <2>2, ClearFastStep DEF IInv, TokenCall
  <2> QED BY <1>2, <2>1, <2>2 DEF TokenCall
<1>3. CASE ErrorText
  BY <1>3, ClearStep DEF IInv, ErrorText, Clear, Owned
<1>4. CASE ErrorMessage
  <2>1. PICK d \in Seq(Char) : Extend(d)
    BY <1>4, ExtendData DEF ErrorMessage
  <2> QED BY <1>4, <2>1, ExtendOwned, ExtendStep DEF Extend, IInv, ErrorMessage, Owned
<1>5. CASE UNCHANGED vars
  BY <1>5 DEF vars, IInv, StringInv, Owned, MemoryOK, StorageOK, NoOverrun, Terminated
<1> QED BY <1>1, <1>2, <1>3, <1>4, <1>5 DEF Next

(***************************************************************************)
(* Every reachable string is well-typed, never written outside its memory, *)
(* and terminated, for every size: sstr_append_of and the parser's copy of *)
(* it, sstr_clear and sstr_clear_fast_, which stores through a pointer no  *)
(* order of tokens and error messages makes NULL.                          *)
(***************************************************************************)
THEOREM Safety == Spec => [](TypeOK /\ NoOverrun /\ Terminated)
<1>1. IInv => TypeOK /\ NoOverrun /\ Terminated
  BY DEF IInv, StringInv, MemoryOK, TypeOK
<1> QED BY <1>1, StringInit, NextStep, PTL DEF Spec

(***************************************************************************)
(* The representation implements the byte string a caller thinks of: every *)
(* call either extends the visible bytes by its argument or empties them,  *)
(* through promotion and reallocation alike.                               *)
(***************************************************************************)
THEOREM Refinement == Spec => ImplementsByteString
<1>1. ASSUME StringInv PROVE Value \in Seq(Char) /\ Len(Value) = length
  <2>1. \A i \in 1..length : block[i] \in Char
    <3>1. length <= Len(block)
      BY <1>1, SStringAssumption DEF StringInv, MemoryOK, StorageOK
    <3> QED BY <1>1, <3>1 DEF StringInv, MemoryOK, Terminated
  <2> QED BY <1>1, <2>1 DEF Value, StringInv, MemoryOK
<1>2. Init => Bytes!Init
  BY <1>1, InitOK DEF Init, Bytes!Init
<1>3. ASSUME IInv, [Next]_vars PROVE [Bytes!Extend \/ Bytes!Empty]_<<Value, arg>>
  <2> StringInv
    BY <1>3 DEF IInv
  <2>1. CASE AppendOf \/ AppendZero \/ AppendIndent
    <3>1. PICK d \in Seq(Char) : Extend(d)
      BY <2>1, ExtendData
    <3>2. /\ arg' = d /\ length' = length + Len(d)
          /\ \A i \in 1..length' :
               block'[i] = IF i <= length THEN block[i] ELSE d[i - length]
      BY <1>3, <3>1, ExtendOwned, ExtendStep DEF Extend
    <3>3. Value' = [i \in 1..length' |-> block'[i]]
      BY DEF Value
    <3>4. length \in Nat /\ Len(d) \in Nat
      BY DEF StringInv, MemoryOK
    <3>5. Value' = [i \in 1..(length + Len(d)) |->
                      IF i <= length THEN Value[i] ELSE d[i - length]]
      BY <3>2, <3>3, <3>4 DEF Value
    <3>6. Value' = Value \o d
      <4>1. Value \in Seq(Char) /\ Len(Value) = length
        BY <1>1
      <4> DEFINE r == [i \in 1..(length + Len(d)) |->
                         IF i <= length THEN Value[i] ELSE d[i - length]]
      <4>2. /\ Value \o d \in Seq(Char)
            /\ Len(Value \o d) = length + Len(d)
            /\ \A i \in 1..(length + Len(d)) :
                 (Value \o d)[i] = IF i <= length THEN Value[i] ELSE d[i - length]
        BY <4>1, ConcatProperties
      <4>3. r \in Seq(Char) /\ Len(r) = length + Len(d)
        <5>1. length + Len(d) \in Nat
          BY <3>4
        <5>2. \A i \in 1..(length + Len(d)) : i <= length => Value[i] \in Char
          BY <3>4, <4>1
        <5>3. \A i \in 1..(length + Len(d)) : ~(i <= length) => d[i - length] \in Char
          BY <3>4
        <5>4. r \in [1..(length + Len(d)) -> Char]
          BY <5>2, <5>3
        <5> HIDE DEF r
        <5> QED BY <5>1, <5>4
      <4>4. \A i \in 1..Len(r) : r[i] = (Value \o d)[i]
        <5>1. \A i \in 1..(length + Len(d)) : r[i] = IF i <= length THEN Value[i] ELSE d[i - length]
          OBVIOUS
        <5> HIDE DEF r
        <5> QED BY <4>2, <4>3, <5>1
      <4> HIDE DEF r
      <4>5. r = Value \o d
        <5> DEFINE w == Value \o d
        <5>1. w \in Seq(Char) /\ Len(r) = Len(w) /\ \A i \in 1..Len(r) : r[i] = w[i]
          BY <4>2, <4>3, <4>4
        <5> HIDE DEF w
        <5>2. r = w
          BY <4>3, <5>1, SeqEqual
        <5> QED BY <5>2 DEF w
      <4> QED BY <3>5, <4>5 DEF r
    <3> QED BY <3>2, <3>6 DEF Bytes!Extend
  <2>2. CASE Clear
    BY <1>3, <2>2, ClearStep DEF Value, Bytes!Empty
  <2>3. CASE ClearFast /\ use = "token"
    BY <1>3, <2>3, ClearFastStep DEF IInv, Value, Bytes!Empty
  <2>4. CASE UNCHANGED vars
    BY <2>4 DEF vars, Value
  <2> QED BY <1>3, <2>1, <2>2, <2>3, <2>4
          DEF Next, StringCall, TokenCall, ErrorText, ErrorMessage, AppendOfFast
<1> QED BY <1>2, <1>3, StringInit, NextStep, PTL DEF Spec, ImplementsByteString, Bytes!Spec
=============================================================================
