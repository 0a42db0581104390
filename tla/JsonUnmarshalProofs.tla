------------------------ MODULE JsonUnmarshalProofs ------------------------
(***************************************************************************)
(* Proofs about module JsonUnmarshal, for every schema, mask, document and *)
(* depth limit.  StackBounded is not inductive: what is, is a bound on the *)
(* position of each frame by its own depth, sharper for a struct that has  *)
(* passed the depth check than for one that has not yet made it.           *)
(***************************************************************************)
EXTENDS JsonUnmarshal, SequenceTheorems, TLAPS

\* What SchemaAssumption says of the members holds of every row of the index.
LEMMA IndexFacts ==
    /\ \A s \in DOMAIN Index : \A k \in DOMAIN Index[s] :
         LET f == Index[s][k] IN
           /\ f.k \in {"one", "array", "fixed", "map", "maps"}
           /\ f.null \in BOOLEAN
           /\ f.elt \in Scalar \cup DOMAIN Index \cup DOMAIN Variants
           /\ f.k \in {"map", "maps"} => f.elt \notin DOMAIN Variants
    /\ \A o \in DOMAIN Variants : \A v \in DOMAIN Variants[o] :
         Variants[o][v] \in DOMAIN Index
    /\ DOMAIN Index \cap DOMAIN Variants = {}
    /\ Scalar \cap (DOMAIN Index \cup DOMAIN Variants) = {}
<1>1. DOMAIN Index = DOMAIN Schema \cup {NoStruct}
  BY DEF Index
<1>2. ASSUME NEW s \in DOMAIN Index, NEW k \in DOMAIN Index[s]
      PROVE  LET f == Index[s][k] IN
           /\ f.k \in {"one", "array", "fixed", "map", "maps"}
           /\ f.null \in BOOLEAN
           /\ f.elt \in Scalar \cup DOMAIN Index \cup DOMAIN Variants
           /\ f.k \in {"map", "maps"} => f.elt \notin DOMAIN Variants
  <2>1. Index[s][k] = RowOf(s, k) /\ k \in Keys(s) /\ s \in DOMAIN Schema
    BY <1>1, <1>2 DEF Index, Keys
  <2>2. CASE k \in DOMAIN Schema[s]
    BY <1>1, <2>1, <2>2, SchemaAssumption DEF RowOf
  <2>3. CASE k \notin DOMAIN Schema[s]
    <3>1. Index[s][k] = Row("one", NoStruct) \/ Index[s][k] = Row("one", "int")
      BY <2>1, <2>3 DEF RowOf
    <3> DEFINE f == Index[s][k]
    <3>2. f.k = "one" /\ f.null = FALSE /\ (f.elt = NoStruct \/ f.elt = "int")
      BY <3>1 DEF Row
    <3>3. NoStruct \in DOMAIN Index /\ "int" \in Scalar
      BY <1>1 DEF Scalar
    <3> QED BY <3>2, <3>3
  <2> QED BY <2>2, <2>3
<1>3. NoStruct \notin Scalar
  BY DEF NoStruct, Scalar
<1> QED BY <1>1, <1>2, <1>3, SchemaAssumption

\* How high frame f may stand: two positions for each level of depth, the
\* last of which no struct that fails the check goes beyond.
Height(i, f) ==
    CASE f.fn = "struct" /\ f.at = "open" -> i <= 2 * f.depth + 1 /\ i <= 2 * MaxDepth + 4
      [] f.fn = "struct" /\ f.at # "open" -> i <= 2 * f.depth + 1 /\ f.depth <= MaxDepth
      [] f.fn \in {"map", "oneof"} -> i <= 2 * f.depth + 1 /\ f.depth <= MaxDepth + 1
      [] f.fn = "oneofs" -> i <= 2 * f.depth /\ f.depth <= MaxDepth + 1
      [] OTHER -> i <= 2 * f.depth + 2 /\ f.depth <= MaxDepth

Stands(i, f) == FrameOK(f) /\ Height(i, f)

InputOK == ahead \in Seq(Input) /\ left \in Nat /\ Len(ahead) + left <= MaxTokens

ControlOK ==
    /\ stack \in Seq(FrameSet)
    /\ \A i \in 1..Len(stack) : Stands(i, stack[i])
    /\ \A i \in 1..Len(stack) - 1 : stack[i].at \in Waiting
    /\ ret \in {<<>>} \cup [1..1 -> Int]
    /\ IF Done \/ Top.at \in Waiting THEN ret # <<>> ELSE ret = <<>>

IInv == ControlOK /\ InputOK

-----------------------------------------------------------------------------
(***************************************************************************)
(* Reading.                                                                *)
(***************************************************************************)
LEMMA BoundsOK == MaxDepth \in Nat /\ MaxTokens \in Nat
BY UnmarshalAssumption

LEMMA LexOK ==
    ASSUME InputOK, NEW t \in Input, Lex(t)
    PROVE  InputOK'
<1>1. CASE t = "eof"
  <2>1. left' = 0 /\ ahead' = ahead
    BY <1>1 DEF Lex
  <2> QED BY <2>1, BoundsOK DEF InputOK
<1>2. CASE t # "eof"
  <2>1. left > 0 /\ left' = left - 1 /\ ahead' = Append(ahead, t)
    BY <1>2 DEF Lex
  <2> QED BY <2>1, BoundsOK DEF InputOK
<1> QED BY <1>1, <1>2

LEMMA PeekOK ==
    ASSUME InputOK, NEW t \in Input, NEW n, Peek(n, t)
    PROVE  InputOK'
BY LexOK DEF Peek, InputOK

LEMMA TakeOK ==
    ASSUME InputOK, NEW t \in Input, Take(t)
    PROVE  InputOK'
<1>1. CASE ahead # <<>>
  <2>1. ahead' = ahead \/ ahead' = Tail(ahead)
    BY <1>1 DEF Take
  <2>2. Tail(ahead) \in Seq(Input) /\ Len(Tail(ahead)) = Len(ahead) - 1
    BY <1>1, HeadTailProperties DEF InputOK
  <2>3. left' = left
    BY <1>1 DEF Take
  <2>4. CASE ahead' = ahead
    BY <2>3, <2>4 DEF InputOK
  <2>5. CASE ahead' = Tail(ahead)
    <3>1. Len(ahead') + left' <= MaxTokens
      BY <2>2, <2>3, <2>5, UnmarshalAssumption DEF InputOK
    <3> QED BY <2>2, <2>3, <2>5, <3>1 DEF InputOK
  <2> QED BY <2>1, <2>4, <2>5
<1>2. CASE ahead = <<>> /\ t \in {"eof", "stuck"}
  BY <1>2, LexOK DEF Take
<1>3. CASE ahead = <<>> /\ t \notin {"eof", "stuck"}
  <2>1. ahead' = ahead /\ left > 0 /\ left' = left - 1
    BY <1>3 DEF Take
  <2>2. left' \in Nat /\ Len(ahead) + left' <= MaxTokens
    BY <1>3, <2>1, UnmarshalAssumption DEF InputOK
  <2> QED BY <2>1, <2>2 DEF InputOK
<1> QED BY <1>1, <1>2, <1>3

LEMMA NoInputOK == ASSUME InputOK, NoInput PROVE InputOK'
BY DEF InputOK, NoInput

-----------------------------------------------------------------------------
(***************************************************************************)
(* The four ways control moves keep the stack in order.                    *)
(***************************************************************************)
LEMMA TopFacts ==
    ASSUME ControlOK, ~Done
    PROVE  /\ Len(stack) \in Nat \ {0}
           /\ Top = stack[Len(stack)]
           /\ Stands(Len(stack), Top)
           /\ Top \in FrameSet
           /\ Top.depth \in Nat /\ Top.n \in Nat
           /\ Below \in Seq(FrameSet)
           /\ Len(Below) = Len(stack) - 1
           /\ \A i \in 1..Len(Below) : Below[i] = stack[i]
<1>1. Len(stack) \in Nat \ {0}
  BY DEF ControlOK, Done
<1>2. Stands(Len(stack), Top)
  BY <1>1 DEF ControlOK, Top
<1>3. Top \in FrameSet
  BY <1>2 DEF Stands, FrameOK
<1>4. Top.depth \in Nat /\ Top.n \in Nat
  BY <1>3 DEF FrameSet
<1>5. /\ Below \in Seq(FrameSet)
      /\ Len(Below) = Len(stack) - 1
      /\ \A i \in 1..Len(Below) : Below[i] = stack[i]
  <2> DEFINE n == Len(stack) - 1
  <2>1. n \in Nat /\ n <= Len(stack)
    BY <1>1
  <2>2. stack \in Seq(FrameSet)
    BY DEF ControlOK
  <2>3. \A i \in 1..n : stack[i] \in FrameSet
    BY <2>1, <2>2
  <2>4. Below = [i \in 1..n |-> stack[i]]
    BY <2>1, <2>2 DEF Below
  <2> HIDE DEF n
  <2>5. Below \in Seq(FrameSet) /\ Len(Below) = n
    BY <2>1, <2>3, <2>4
  <2> QED BY <2>1, <2>4, <2>5 DEF n
<1> QED BY <1>1, <1>2, <1>3, <1>4, <1>5 DEF Top

LEMMA BecomeOK ==
    ASSUME ControlOK, ~Done, NEW f, Stands(Len(stack), f), f.at \notin Waiting, Become(f)
    PROVE  ControlOK'
<1>1. stack' = Append(Below, f) /\ ret' = <<>>
  BY DEF Become
<1>2. f \in FrameSet
  BY DEF Stands, FrameOK
<1>3. /\ stack' \in Seq(FrameSet) /\ Len(stack') = Len(stack)
      /\ stack'[Len(stack)] = f
      /\ \A i \in 1..Len(stack) - 1 : stack'[i] = stack[i]
  BY <1>1, <1>2, TopFacts
<1>4. \A i \in 1..Len(stack') : Stands(i, stack'[i])
  BY <1>3, TopFacts DEF ControlOK
<1>5. \A i \in 1..Len(stack') - 1 : stack'[i].at \in Waiting
  BY <1>3, TopFacts DEF ControlOK
<1>6. ~Done' /\ Top' = f
  BY <1>3, TopFacts DEF Done, Top
<1> QED BY <1>1, <1>3, <1>4, <1>5, <1>6 DEF ControlOK, Stands, FrameOK, Height

LEMMA CallOK ==
    ASSUME ControlOK, ~Done, NEW at \in Waiting, NEW g,
           Stands(Len(stack), [Top EXCEPT !.at = at]),
           Stands(Len(stack) + 1, g), g.at \notin Waiting, Call(at, g)
    PROVE  ControlOK'
<1> DEFINE f == [Top EXCEPT !.at = at]
<1>1. stack' = Append(Append(Below, f), g) /\ ret' = <<>>
  BY DEF Call
<1>2. f \in FrameSet /\ g \in FrameSet
  BY DEF Stands, FrameOK
<1>a. f.at = at
  BY TopFacts DEF FrameSet
<1> HIDE DEF f
<1>3. /\ stack' \in Seq(FrameSet) /\ Len(stack') = Len(stack) + 1
      /\ stack'[Len(stack) + 1] = g /\ stack'[Len(stack)] = f
      /\ \A i \in 1..Len(stack) - 1 : stack'[i] = stack[i]
  BY <1>1, <1>2, TopFacts
<1>4. \A i \in 1..Len(stack') : Stands(i, stack'[i])
  <2>1. Stands(Len(stack), f)
    BY DEF f
  <2> QED BY <1>3, <2>1, TopFacts DEF ControlOK
<1>5. \A i \in 1..Len(stack') - 1 : stack'[i].at \in Waiting
  BY <1>3, <1>a, TopFacts DEF ControlOK
<1>6. ~Done' /\ Top' = g
  BY <1>3, TopFacts DEF Done, Top
<1> QED BY <1>1, <1>3, <1>4, <1>5, <1>6 DEF ControlOK, Stands, FrameOK, Height

LEMMA ReturnOK ==
    ASSUME ControlOK, ~Done, NEW r \in Int, Return(r)
    PROVE  ControlOK'
<1>1. stack' = Below /\ ret' = <<r>>
  BY DEF Return
<1>2. /\ stack' \in Seq(FrameSet) /\ Len(stack') = Len(stack) - 1
      /\ \A i \in 1..Len(stack') : stack'[i] = stack[i]
  BY <1>1, TopFacts
<1>3. \A i \in 1..Len(stack') : Stands(i, stack'[i])
  BY <1>2, TopFacts DEF ControlOK
<1>4. \A i \in 1..Len(stack') - 1 : stack'[i].at \in Waiting
  BY <1>2, TopFacts DEF ControlOK
<1>5. Done' \/ Top'.at \in Waiting
  BY <1>2, TopFacts DEF ControlOK, Done, Top
<1>6. ret' \in [1..1 -> Int] /\ ret' # <<>>
  BY <1>1
<1> QED BY <1>2, <1>3, <1>4, <1>5, <1>6 DEF ControlOK, Stands, FrameOK, Height

\* Where a call may go on: anywhere in its function, but past the depth check
\* of a struct only when that has been passed.
LEMMA StaysOK ==
    ASSUME ControlOK, ~Done, NEW f \in FrameSet,
           f.fn = Top.fn, f.elt = Top.elt, f.depth = Top.depth, f.at \in Places[f.fn],
           f.fn = "struct" =>
             /\ f.at # "open"
             /\ f.at \in {"nullable", "value", "called"} => f.key \in DOMAIN Index[f.elt]
             /\ f.at = "colon" => f.key \in DOMAIN Index[f.elt] \cup {NoKey}
             /\ Top.at = "open" => Top.depth <= MaxDepth
    PROVE  Stands(Len(stack), f)
<1>1. FrameOK(f)
  BY TopFacts DEF Stands, FrameOK
<1>2. Height(Len(stack), f)
  BY TopFacts DEF Stands, Height
<1> QED BY <1>1, <1>2 DEF Stands

\* A frame with its place, key and counters replaced is a frame of the same call.
Moved(f, at, key, n, brace, bracket) ==
    [fn |-> f.fn, at |-> at, elt |-> f.elt, depth |-> f.depth, mask |-> f.mask, key |-> key, n |-> n, brace |-> brace, bracket |-> bracket]

LEMMA MovedOK ==
    ASSUME NEW f \in FrameSet, NEW at \in Places[f.fn], NEW key \in Input \cup {NoKey},
           NEW n \in Nat, NEW brace \in Int, NEW bracket \in Int
    PROVE  LET m == Moved(f, at, key, n, brace, bracket)
           IN  /\ m \in FrameSet /\ m.at = at /\ m.key = key
               /\ m.fn = f.fn /\ m.elt = f.elt /\ m.depth = f.depth
<1>1. f.fn \in Function
  BY DEF FrameSet
<1>2. at \in Place
  BY <1>1 DEF Place
<1>3. /\ f.elt \in ElementType /\ f.depth \in Nat /\ f.mask \in {"all"} \cup DOMAIN Mask
  BY DEF FrameSet
<1> QED BY <1>1, <1>2, <1>3 DEF FrameSet, Moved

\* A place is a name that frames can carry.
LEMMA PlaceOK ==
    ASSUME NEW f \in FrameSet, NEW at \in Places[f.fn]
    PROVE  LET m == [f EXCEPT !.at = at]
           IN  /\ m \in FrameSet /\ m.at = at /\ m.key = f.key
               /\ m.fn = f.fn /\ m.elt = f.elt /\ m.depth = f.depth
<1>1. /\ f.key \in Input \cup {NoKey} /\ f.n \in Nat
      /\ f.brace \in Int /\ f.bracket \in Int
  BY DEF FrameSet
<1>2. [f EXCEPT !.at = at] = Moved(f, at, f.key, f.n, f.brace, f.bracket)
  BY DEF FrameSet, Moved
<1> QED BY <1>1, <1>2, MovedOK

LEMMA GotoOK ==
    ASSUME ControlOK, ~Done, Top.fn # "struct",
           NEW at \in Places[Top.fn], at \notin Waiting, Goto(at)
    PROVE  ControlOK'
<1> DEFINE f == [Top EXCEPT !.at = at]
<1>1. f \in FrameSet /\ f.at = at /\ f.fn = Top.fn /\ f.elt = Top.elt /\ f.depth = Top.depth
  BY TopFacts, PlaceOK
<1>2. Become(f)
  BY DEF Goto
<1> HIDE DEF f
<1>3. Stands(Len(stack), f)
  BY <1>1, StaysOK
<1> QED BY <1>1, <1>2, <1>3, BecomeOK

LEMMA StoredOK ==
    ASSUME ControlOK, ~Done, Top.fn # "struct",
           NEW at \in Places[Top.fn], at \notin Waiting, Stored(at)
    PROVE  ControlOK'
<1> DEFINE f == [Top EXCEPT !.at = at, !.n = IF @ > MaxTokens THEN @ ELSE @ + 1]
<1> DEFINE n == IF Top.n > MaxTokens THEN Top.n ELSE Top.n + 1
<1>1. Top \in FrameSet /\ Top.n \in Nat
  BY TopFacts
<1>c. n \in Nat
  BY <1>1
<1>a. /\ Top.key \in Input \cup {NoKey}
      /\ Top.brace \in Int /\ Top.bracket \in Int
  BY <1>1 DEF FrameSet
<1>b. f = Moved(Top, at, Top.key, n, Top.brace, Top.bracket)
  <2> DEFINE g == [Top EXCEPT !.at = at]
  <2>1. g.n = Top.n
    BY <1>1 DEF FrameSet
  <2>2. f = [g EXCEPT !.n = n]
    BY <2>1
  <2> HIDE DEF f, n
  <2> QED BY <1>1, <2>2 DEF FrameSet, Moved
<1> HIDE DEF n
<1>2. f \in FrameSet /\ f.at = at /\ f.fn = Top.fn /\ f.elt = Top.elt /\ f.depth = Top.depth
  BY <1>1, <1>a, <1>b, <1>c, MovedOK
<1>3. Become(f)
  BY DEF Stored
<1> HIDE DEF f
<1>4. Stands(Len(stack), f)
  BY <1>2, StaysOK
<1> QED BY <1>2, <1>3, <1>4, BecomeOK

\* A step inside a call that is no struct: its place, key and counters move.
LEMMA MovesOK ==
    ASSUME ControlOK, ~Done, Top.fn # "struct", NEW at \in Places[Top.fn], at \notin Waiting,
           NEW key \in Input \cup {NoKey}, NEW n \in Nat,
           NEW brace \in Int, NEW bracket \in Int,
           Become(Moved(Top, at, key, n, brace, bracket))
    PROVE  ControlOK'
<1> DEFINE f == Moved(Top, at, key, n, brace, bracket)
<1>1. Top \in FrameSet
  BY TopFacts
<1>2. f \in FrameSet /\ f.at = at /\ f.fn = Top.fn /\ f.elt = Top.elt /\ f.depth = Top.depth
  <2> HIDE DEF f
  <2>1. f = Moved(Top, at, key, n, brace, bracket)
    BY DEF f
  <2> QED BY <1>1, <2>1, MovedOK
<1>3. Become(f)
  OBVIOUS
<1> HIDE DEF f
<1>4. Stands(Len(stack), f)
  BY <1>2, StaysOK
<1> QED BY <1>2, <1>3, <1>4, BecomeOK

\* Skipping a token changes nothing of a frame but its two counters.
LEMMA LevelOK ==
    ASSUME NEW f \in FrameSet, NEW t
    PROVE  LET g == Level(f, t)
           IN  /\ g = Moved(f, f.at, f.key, f.n, g.brace, g.bracket)
               /\ g.brace \in Int /\ g.bracket \in Int
<1> DEFINE b == CASE t = "{" -> 1 [] t = "}" -> -1 [] OTHER -> 0
           c == CASE t = "[" -> 1 [] t = "]" -> -1 [] OTHER -> 0
           brace == f.brace + b
           bracket == f.bracket + c
           g == Level(f, t)
           h == [f EXCEPT !.brace = brace]
<1>1. f.brace \in Int /\ f.bracket \in Int
  BY DEF FrameSet
<1>2. brace \in Int /\ bracket \in Int
  <2>1. b \in Int /\ c \in Int
    OBVIOUS
  <2> HIDE DEF b, c
  <2> QED BY <1>1, <2>1
<1>3. h.bracket = f.bracket
  BY DEF FrameSet
<1>4. g = [h EXCEPT !.bracket = bracket]
  BY <1>3 DEF Level
<1> HIDE DEF brace, bracket, g
<1>5. g = Moved(f, f.at, f.key, f.n, brace, bracket)
  BY <1>4 DEF FrameSet, Moved
<1>6. g.brace = brace /\ g.bracket = bracket
  BY <1>5 DEF Moved
<1> QED BY <1>2, <1>5, <1>6 DEF g

\* How high the callee of a caller that is no struct and no loop over oneofs stands.
LEMMA CalleeHeight ==
    ASSUME ControlOK, ~Done, Top.fn \in {"array", "fixed", "map", "maps", "oneof"},
           NEW g, g.fn \in {"struct", "map", "oneof"}, g.fn = "struct" => g.at = "open",
           g.fn = "oneof" => Top.fn = "fixed", g.fn = "map" => Top.fn = "maps",
           g.depth = Top.depth + 1
    PROVE  Height(Len(stack) + 1, g)
<1> DEFINE n == Len(stack)
           d == Top.depth
<1>1. n \in Nat \ {0} /\ d \in Nat /\ MaxDepth \in Nat /\ Height(n, Top)
  BY TopFacts, BoundsOK DEF Stands
<1>2. CASE Top.fn \in {"array", "fixed", "maps"}
  <2>1. n <= 2 * d + 2 /\ d <= MaxDepth
    BY <1>1, <1>2 DEF Height
  <2> HIDE DEF n, d
  <2> QED BY <1>1, <2>1 DEF Height, d, n
<1>3. CASE Top.fn \in {"map", "oneof"}
  <2>1. n <= 2 * d + 1 /\ d <= MaxDepth + 1
    BY <1>1, <1>3 DEF Height
  <2> HIDE DEF n, d
  <2> QED BY <1>1, <1>3, <2>1 DEF Height, d, n
<1> QED BY <1>2, <1>3

\* A call whose callee fits on top of a caller that is no struct.
LEMMA CallsOK ==
    ASSUME ControlOK, ~Done, Top.fn # "struct", "called" \in Places[Top.fn],
           NEW g, Stands(Len(stack) + 1, g), g.at \notin Waiting, Call("called", g)
    PROVE  ControlOK'
<1> DEFINE f == [Top EXCEPT !.at = "called"]
<1>1. f \in FrameSet /\ f.at = "called" /\ f.fn = Top.fn /\ f.elt = Top.elt /\ f.depth = Top.depth
  BY TopFacts, PlaceOK
<1> HIDE DEF f
<1>2. Stands(Len(stack), f)
  BY <1>1, StaysOK
<1> QED BY <1>2, CallOK DEF f, Waiting

\* What a call hands back is a number.
LEMMA CodeOK == ASSUME NEW t, NEW elt PROVE Code(t) \in Int /\ ScalarCode(elt, t) \in Int
<1>1. Code(t) \in Int
  BY DEF Code
<1> QED BY <1>1 DEF ScalarCode

LEMMA RetOK == ASSUME ControlOK, ret # <<>> PROVE ret[1] \in Int
BY DEF ControlOK

LEMMA AfterElementOK ==
    ASSUME ControlOK, ~Done, Top.fn \in {"scalars", "fixed"}, NEW r \in Int, AfterElement(r)
    PROVE  ControlOK'
<1>1. "sep" \in Places[Top.fn] /\ "sep" \notin Waiting
  BY DEF Places, Waiting
<1>2. Return(r) \/ Return(0) \/ Stored("sep")
  BY DEF AfterElement
<1> QED BY <1>1, <1>2, ReturnOK, StoredOK

-----------------------------------------------------------------------------
(***************************************************************************)
(* The actions.                                                            *)
(***************************************************************************)
LEMMA SeparatorOK ==
    ASSUME IInv, NEW fn \in {"array", "scalars", "fixed"}, NEW error \in Int,
           Separator(fn, error)
    PROVE  IInv'
<1>1. PICK t \in Input : Take(t) /\ (Return(0) \/ Return(error) \/ Goto("elem"))
  BY DEF Separator
<1>2. "elem" \in Places[Top.fn] /\ "elem" \notin Waiting /\ Top.fn # "struct" /\ ~Done
  BY DEF Separator, In, Places, Waiting
<1> QED BY <1>1, <1>2, TakeOK, ReturnOK, GotoOK DEF IInv

LEMMA OpenOK ==
    ASSUME IInv, NEW fn \in {"array", "fixed"}, NEW error \in Int, Open(fn, error)
    PROVE  IInv'
<1>1. PICK t \in Input : Take(t) /\ (Return(error) \/ Goto("first"))
  BY DEF Open
<1>2. "first" \in Places[Top.fn] /\ "first" \notin Waiting /\ Top.fn # "struct" /\ ~Done
  BY DEF Open, In, Places, Waiting
<1> QED BY <1>1, <1>2, TakeOK, ReturnOK, GotoOK DEF IInv

LEMMA FirstOK ==
    ASSUME IInv, NEW fn \in {"array", "fixed", "maps", "oneofs"}, First(fn)
    PROVE  IInv'
<1>1. PICK t \in Input : (Take(t) /\ Return(0)) \/ (Peek(0, t) /\ Goto("elem"))
  BY DEF First
<1>2. "elem" \in Places[Top.fn] /\ "elem" \notin Waiting /\ Top.fn # "struct" /\ ~Done
  BY DEF First, In, Places, Waiting
<1> QED BY <1>1, <1>2, TakeOK, PeekOK, ReturnOK, GotoOK DEF IInv

\* The frame of a new call is in order, whoever makes the call.
Masked(fn, elt, d, mask) ==
    [fn |-> fn, at |-> "open", elt |-> elt, depth |-> d, mask |-> mask, key |-> NoKey,
     n |-> 0, brace |-> 0, bracket |-> 0]

LEMMA MaskedOK ==
    ASSUME NEW fn \in Function, NEW elt \in Handles[fn], NEW d \in Nat,
           NEW mask \in {"all"} \cup DOMAIN Mask
    PROVE  LET f == Masked(fn, elt, d, mask)
           IN  /\ FrameOK(f) /\ f.at \notin Waiting
               /\ f.fn = fn /\ f.at = "open" /\ f.depth = d
<1> DEFINE f == Masked(fn, elt, d, mask)
<1>1. "open" \in Places[fn]
  BY DEF Function, Places
<1>2. "open" \in Place /\ elt \in ElementType
  BY <1>1 DEF Place, ElementType
<1>3. f \in FrameSet
  BY <1>2 DEF FrameSet, Masked
<1>4. f.fn = fn /\ f.at = "open" /\ f.elt = elt /\ f.depth = d
  BY DEF Masked
<1> HIDE DEF f
<1>5. FrameOK(f)
  BY <1>1, <1>3, <1>4 DEF FrameOK
<1> QED BY <1>4, <1>5 DEF f, Waiting

LEMMA FrameFresh ==
    ASSUME NEW fn \in Function, NEW elt \in Handles[fn], NEW d \in Nat
    PROVE  LET f == Frame(fn, elt, d)
           IN  /\ FrameOK(f) /\ f.at \notin Waiting
               /\ f.fn = fn /\ f.at = "open" /\ f.depth = d
<1>1. Frame(fn, elt, d) = Masked(fn, elt, d, "all")
  BY DEF Frame, Masked
<1> QED BY <1>1, MaskedOK

LEMMA ElementFresh ==
    ASSUME NEW d \in Nat, Top.elt \in DOMAIN Index
    PROVE  LET f == Element(d)
           IN  /\ FrameOK(f) /\ f.at \notin Waiting
               /\ f.fn = "struct" /\ f.at = "open" /\ f.depth = d
<1>1. Top.elt \in Handles["struct"] /\ "struct" \in Function
  BY DEF Handles, Function, Places
<1> QED BY <1>1, FrameFresh DEF Element

LEMMA ArrayOK == ASSUME IInv, Array PROVE IInv'
<1>1. CASE Open("array", PARSE) \/ First("array") \/ Separator("array", PARSE)
  BY <1>1, OpenOK, FirstOK, SeparatorOK DEF PARSE
<1>2. CASE ArrayElement
  <2>1. ~Done /\ Top.fn = "array" /\ NoInput /\ Call("called", Element(Top.depth + 1))
    BY <1>2 DEF ArrayElement, In
  <2>2. Top.elt \in DOMAIN Index /\ Top.depth \in Nat /\ "called" \in Places[Top.fn]
    BY <2>1, TopFacts DEF IInv, Stands, FrameOK, Handles, Places
  <2> DEFINE g == Element(Top.depth + 1)
  <2>3. /\ FrameOK(g) /\ g.at \notin Waiting
        /\ g.fn = "struct" /\ g.at = "open" /\ g.depth = Top.depth + 1
    BY <2>2, ElementFresh
  <2> HIDE DEF g
  <2>4. Height(Len(stack) + 1, g)
    BY <2>1, <2>3, CalleeHeight DEF IInv
  <2> QED BY <2>1, <2>2, <2>3, <2>4, CallsOK, NoInputOK DEF IInv, Stands, g
<1>3. CASE ArrayBack
  <2>1. ~Done /\ Top.fn = "array" /\ NoInput /\ ret # <<>>
    BY <1>3 DEF ArrayBack, Back
  <2>2. Return(ret[1]) \/ Return(0) \/ Stored("sep")
    BY <1>3 DEF ArrayBack
  <2>3. "sep" \in Places[Top.fn] /\ "sep" \notin Waiting
    BY <2>1 DEF Places, Waiting
  <2> QED BY <2>1, <2>2, <2>3, RetOK, ReturnOK, StoredOK, NoInputOK DEF IInv
<1> QED BY <1>1, <1>2, <1>3 DEF Array

LEMMA ScalarsOK == ASSUME IInv, Scalars PROVE IInv'
<1>1. CASE ScalarsOpen
  <2>1. PICK t \in Input : Take(t) /\ (Goto("elem") \/ Return(-1))
    BY <1>1 DEF ScalarsOpen
  <2>2. "elem" \in Places[Top.fn] /\ "elem" \notin Waiting /\ Top.fn # "struct" /\ ~Done
    BY <1>1 DEF ScalarsOpen, In, Places, Waiting
  <2> QED BY <2>1, <2>2, TakeOK, ReturnOK, GotoOK DEF IInv
<1>2. CASE ScalarsElement
  <2>1. PICK t \in Input : Take(t) /\ AfterElement(ScalarCode(Top.elt, t))
    BY <1>2 DEF ScalarsElement
  <2>2. ~Done /\ Top.fn = "scalars"
    BY <1>2 DEF ScalarsElement, In
  <2> QED BY <2>1, <2>2, TakeOK, AfterElementOK, CodeOK DEF IInv
<1>3. CASE Separator("scalars", -1)
  BY <1>3, SeparatorOK
<1> QED BY <1>1, <1>2, <1>3 DEF Scalars

LEMMA EnumsOK == ASSUME IInv, Enums PROVE IInv'
<1>1. ~Done /\ Top.fn = "enums" /\ "elem" \in Places[Top.fn] /\ "elem" \notin Waiting
  <2>1. ~Done /\ Top.fn = "enums"
    <3>1. CASE EnumsOpen BY <3>1 DEF EnumsOpen, In
    <3>2. CASE EnumsElement BY <3>2, Zenon DEF EnumsElement, In
    <3> QED BY <3>1, <3>2 DEF Enums
  <2> QED BY <2>1 DEF Places, Waiting
<1>2. CASE EnumsOpen
  <2>1. PICK t \in Input : Take(t) /\ (Goto("elem") \/ Return(0) \/ Return(-1))
    BY <1>2 DEF EnumsOpen
  <2> QED BY <1>1, <2>1, TakeOK, ReturnOK, GotoOK DEF IInv
<1>3. CASE EnumsElement
  <2>1. PICK t \in Input :
          /\ Take(t)
          /\ \/ Return(0) \/ Goto("elem") \/ Stored("elem")
             \/ Return(ScalarCode("enum", t))
    BY <1>3, Zenon DEF EnumsElement
  <2> QED BY <1>1, <2>1, TakeOK, CodeOK, ReturnOK, GotoOK, StoredOK DEF IInv
<1> QED BY <1>2, <1>3 DEF Enums

LEMMA FixedOK == ASSUME IInv, Fixed PROVE IInv'
<1>1. CASE Open("fixed", -1) \/ First("fixed") \/ Separator("fixed", -1)
  BY <1>1, OpenOK, FirstOK, SeparatorOK
<1>2. CASE FixedElement
  <2>1. ~Done /\ Top.fn = "fixed" /\ Top.depth \in Nat /\ "called" \in Places[Top.fn]
    BY <1>2, TopFacts DEF FixedElement, In, Places, IInv
  <2>2. CASE Return(-1) /\ NoInput
    BY <2>1, <2>2, ReturnOK, NoInputOK DEF IInv
  <2>3. CASE IsStruct(Top.elt) /\ Call("called", Element(Top.depth + 1)) /\ NoInput
    <3> DEFINE g == Element(Top.depth + 1)
    <3>1. /\ FrameOK(g) /\ g.at \notin Waiting
          /\ g.fn = "struct" /\ g.at = "open" /\ g.depth = Top.depth + 1
      BY <2>1, <2>3, ElementFresh DEF IsStruct
    <3> HIDE DEF g
    <3>2. Height(Len(stack) + 1, g)
      BY <2>1, <3>1, CalleeHeight DEF IInv
    <3> QED BY <2>1, <2>3, <3>1, <3>2, CallsOK, NoInputOK DEF IInv, Stands, g
  <2>4. CASE /\ IsOneof(Top.elt) /\ NoInput
             /\ Call("called", Frame("oneof", Top.elt, Top.depth + 1))
    <3> DEFINE g == Frame("oneof", Top.elt, Top.depth + 1)
    <3>1. Top.elt \in Handles["oneof"] /\ "oneof" \in Function
      BY <2>4 DEF IsOneof, Handles, Function, Places
    <3>2. /\ FrameOK(g) /\ g.at \notin Waiting
          /\ g.fn = "oneof" /\ g.depth = Top.depth + 1
      BY <2>1, <3>1, FrameFresh
    <3> HIDE DEF g
    <3>3. Height(Len(stack) + 1, g)
      BY <2>1, <3>2, CalleeHeight DEF IInv
    <3> QED BY <2>1, <2>4, <3>2, <3>3, CallsOK, NoInputOK DEF IInv, Stands, g
  <2>5. CASE \E t \in Input : Take(t) /\ AfterElement(ScalarCode(Top.elt, t))
    BY <2>1, <2>5, TakeOK, AfterElementOK, CodeOK DEF IInv
  <2> QED BY <1>2, <2>2, <2>3, <2>4, <2>5 DEF FixedElement
<1>3. CASE FixedBack
  <2>1. ~Done /\ Top.fn = "fixed" /\ NoInput /\ ret # <<>> /\ AfterElement(ret[1])
    BY <1>3 DEF FixedBack, Back
  <2> QED BY <2>1, RetOK, AfterElementOK, NoInputOK DEF IInv
<1> QED BY <1>1, <1>2, <1>3 DEF Fixed

LEMMA MapObjectOK == ASSUME IInv, MapObject PROVE IInv'
<1>1. /\ ~Done /\ Top.fn = "map" /\ Top.depth \in Nat
      /\ {"key", "colon", "value", "called"} \subseteq Places[Top.fn]
      /\ "key" \notin Waiting /\ "colon" \notin Waiting /\ "value" \notin Waiting
  <2>1. ~Done /\ Top.fn = "map"
    BY DEF MapObject, MapOpen, MapKey, MapColon, MapScalar, MapStruct, MapBack, In, Back
  <2> QED BY <2>1, TopFacts DEF IInv, Places, Waiting
<1>2. CASE MapOpen \/ MapKey \/ MapColon
  <2>1. PICK t \in Input :
          /\ Take(t)
          /\ \/ Return(0) \/ Return(-1)
             \/ Goto("key") \/ Goto("colon") \/ Goto("value")
    <3>1. CASE MapOpen BY <3>1 DEF MapOpen
    <3>2. CASE MapKey BY <3>2 DEF MapKey
    <3>3. CASE MapColon BY <3>3 DEF MapColon
    <3> QED BY <1>2, <3>1, <3>2, <3>3
  <2> QED BY <1>1, <2>1, TakeOK, ReturnOK, GotoOK DEF IInv
<1>3. CASE MapScalar
  <2>1. PICK t \in Input :
          /\ Take(t)
          /\ Return(ScalarCode(Top.elt, t)) \/ Stored("key")
    BY <1>3, Zenon DEF MapScalar
  <2> QED BY <1>1, <2>1, TakeOK, CodeOK, ReturnOK, StoredOK DEF IInv
<1>4. CASE MapStruct
  <2> DEFINE g == Frame("struct", Top.elt, Top.depth + 1)
  <2>1. NoInput /\ Call("called", g)
    BY <1>4 DEF MapStruct
  <2>2. Top.elt \in Handles["struct"] /\ "struct" \in Function
    BY <1>4 DEF MapStruct, IsStruct, Handles, Function, Places
  <2>3. /\ FrameOK(g) /\ g.at \notin Waiting
        /\ g.fn = "struct" /\ g.at = "open" /\ g.depth = Top.depth + 1
    BY <1>1, <2>2, FrameFresh
  <2> HIDE DEF g
  <2>4. Height(Len(stack) + 1, g)
    BY <1>1, <2>3, CalleeHeight DEF IInv
  <2> QED BY <1>1, <2>1, <2>3, <2>4, CallsOK, NoInputOK DEF IInv, Stands
<1>5. CASE MapBack
  <2>1. NoInput /\ ret # <<>> /\ (Return(ret[1]) \/ Stored("key"))
    BY <1>5 DEF MapBack, Back
  <2> QED BY <1>1, <2>1, RetOK, ReturnOK, StoredOK, NoInputOK DEF IInv
<1> QED BY <1>2, <1>3, <1>4, <1>5 DEF MapObject

LEMMA MapsOK == ASSUME IInv, Maps PROVE IInv'
<1>1. /\ ~Done /\ Top.fn = "maps" /\ Top.depth \in Nat
      /\ {"first", "elem", "called", "sep"} \subseteq Places[Top.fn]
      /\ "first" \notin Waiting /\ "elem" \notin Waiting /\ "sep" \notin Waiting
  <2>1. ~Done /\ Top.fn = "maps"
    BY DEF Maps, MapsOpen, First, MapsElement, MapsBack, MapsSeparator, In, Back
  <2> QED BY <2>1, TopFacts DEF IInv, Places, Waiting
<1>2. CASE MapsOpen \/ MapsSeparator
  <2>1. PICK t \in Input : Take(t) /\ (Return(0) \/ Return(-1) \/ Goto("first"))
    <3>1. CASE MapsOpen BY <3>1 DEF MapsOpen
    <3>2. CASE MapsSeparator BY <3>2 DEF MapsSeparator
    <3> QED BY <1>2, <3>1, <3>2
  <2> QED BY <1>1, <2>1, TakeOK, ReturnOK, GotoOK DEF IInv
<1>3. CASE First("maps")
  BY <1>3, FirstOK
<1>4. CASE MapsElement
  <2> DEFINE g == Frame("map", Top.elt, Top.depth + 1)
  <2>1. NoInput /\ Call("called", g)
    BY <1>4 DEF MapsElement
  <2>2. Top.elt \in Handles["map"] /\ "map" \in Function
    BY <1>1, TopFacts DEF IInv, Stands, FrameOK, Handles, Function, Places
  <2>3. FrameOK(g) /\ g.at \notin Waiting /\ g.fn = "map" /\ g.depth = Top.depth + 1
    BY <1>1, <2>2, FrameFresh
  <2> HIDE DEF g
  <2>4. Height(Len(stack) + 1, g)
    BY <1>1, <2>3, CalleeHeight DEF IInv
  <2> QED BY <1>1, <2>1, <2>3, <2>4, CallsOK, NoInputOK DEF IInv, Stands
<1>5. CASE MapsBack
  <2>1. NoInput /\ ret # <<>> /\ (Return(ret[1]) \/ Stored("sep"))
    BY <1>5 DEF MapsBack, Back
  <2> QED BY <1>1, <2>1, RetOK, ReturnOK, StoredOK, NoInputOK DEF IInv
<1> QED BY <1>2, <1>3, <1>4, <1>5 DEF Maps

LEMMA IgnoreOK == ASSUME IInv, Ignore PROVE IInv'
<1>1. ~Done /\ Top.fn = "ignore" /\ Top.at = "open"
  BY DEF Ignore, In
<1>2. PICK t \in Input : Take(t) /\ (Return(-1) \/ Return(0) \/ Become(Level(Top, t)))
  BY DEF Ignore
<1>3. CASE Return(-1) \/ Return(0)
  BY <1>1, <1>2, <1>3, TakeOK, ReturnOK DEF IInv
<1>4. CASE Become(Level(Top, t))
  <2> DEFINE f == Level(Top, t)
  <2>1. f = Moved(Top, Top.at, Top.key, Top.n, f.brace, f.bracket)
           /\ f.brace \in Int /\ f.bracket \in Int
    BY <1>1, LevelOK, TopFacts DEF IInv
  <2>2. "open" \in Places[Top.fn] /\ "open" \notin Waiting
    BY <1>1 DEF Places, Waiting
  <2>3. Become(f)
    BY <1>4
  <2>4. Top.key \in Input \cup {NoKey} /\ Top.n \in Nat
    BY <1>1, TopFacts DEF IInv, FrameSet
  <2> HIDE DEF f
  <2>5. ControlOK'
    BY <1>1, <2>1, <2>2, <2>3, <2>4, MovesOK DEF IInv
  <2> QED BY <1>2, <2>5, TakeOK DEF IInv
<1> QED BY <1>2, <1>3, <1>4

LEMMA OneofsOK == ASSUME IInv, Oneofs PROVE IInv'
<1>1. /\ ~Done /\ Top.fn = "oneofs" /\ Top.depth \in Nat
      /\ {"first", "elem", "called", "sep"} \subseteq Places[Top.fn]
      /\ "first" \notin Waiting /\ "elem" \notin Waiting /\ "sep" \notin Waiting
  <2>1. ~Done /\ Top.fn = "oneofs"
    BY DEF Oneofs, OneofsOpen, First, OneofsElement, OneofsBack, OneofsSeparator, In, Back
  <2> QED BY <2>1, TopFacts DEF IInv, Places, Waiting
<1>2. CASE OneofsOpen
  <2>1. PICK t \in Input : Take(t) /\ (Return(0) \/ Return(-1) \/ Goto("first"))
    BY <1>2 DEF OneofsOpen
  <2> QED BY <1>1, <2>1, TakeOK, ReturnOK, GotoOK DEF IInv
<1>3. CASE First("oneofs")
  BY <1>3, FirstOK
<1>4. CASE OneofsElement
  <2> DEFINE g == Frame("oneof", Top.elt, Top.depth)
  <2>1. NoInput /\ Call("called", g)
    BY <1>4 DEF OneofsElement
  <2>2. Top.elt \in Handles["oneof"] /\ "oneof" \in Function
    BY <1>1, TopFacts DEF IInv, Stands, FrameOK, Handles, Function, Places
  <2>3. FrameOK(g) /\ g.at \notin Waiting /\ g.fn = "oneof" /\ g.depth = Top.depth
    BY <1>1, <2>2, FrameFresh
  <2> HIDE DEF g
  <2>4. Height(Len(stack) + 1, g)
    <3>1. Height(Len(stack), Top) /\ Top.depth \in Nat /\ Len(stack) \in Nat /\ MaxDepth \in Nat
      BY <1>1, TopFacts, BoundsOK DEF IInv, Stands
    <3>2. Len(stack) <= 2 * Top.depth /\ Top.depth <= MaxDepth + 1
      BY <1>1, <3>1 DEF Height
    <3> QED BY <2>3, <3>1, <3>2 DEF Height
  <2> QED BY <1>1, <2>1, <2>3, <2>4, CallsOK, NoInputOK DEF IInv, Stands
<1>5. CASE OneofsBack
  <2>1. NoInput /\ (Return(-1) \/ Stored("sep"))
    BY <1>5 DEF OneofsBack, Back
  <2> QED BY <1>1, <2>1, ReturnOK, StoredOK, NoInputOK DEF IInv
<1>6. CASE OneofsSeparator
  <2>1. PICK t \in Input :
          /\ Take(t) \/ Peek(0, t)
          /\ Return(0) \/ Return(-1) \/ Goto("first")
    BY <1>6 DEF OneofsSeparator
  <2> QED BY <1>1, <2>1, TakeOK, PeekOK, ReturnOK, GotoOK DEF IInv
<1> QED BY <1>2, <1>3, <1>4, <1>5, <1>6 DEF Oneofs

\* The tag scan moves on by at most one token.
LEMMA ScanOK ==
    ASSUME Top \in FrameSet, NEW at \in Places[Top.fn], NEW t
    PROVE  LET g == Scan(at, t)
           IN  /\ g = Moved(Top, at, Top.key, g.n, Top.brace, Top.bracket) /\ g.n \in Nat
               /\ Top.key \in Input \cup {NoKey} /\ Top.brace \in Int /\ Top.bracket \in Int
<1> DEFINE n == IF t = "stuck" THEN Top.n ELSE Top.n + 1
           g == Scan(at, t)
           h == [Top EXCEPT !.at = at]
<1>1. /\ Top.key \in Input \cup {NoKey} /\ Top.n \in Nat
      /\ Top.brace \in Int /\ Top.bracket \in Int
  BY DEF FrameSet
<1>2. n \in Nat
  BY <1>1
<1>3. h.n = Top.n
  BY DEF FrameSet
<1>4. g = [h EXCEPT !.n = n]
  BY <1>3 DEF Scan
<1> HIDE DEF n, g
<1>5. g = Moved(Top, at, Top.key, n, Top.brace, Top.bracket)
  BY <1>4 DEF FrameSet, Moved
<1>6. g.n = n
  BY <1>5 DEF Moved
<1> QED BY <1>1, <1>2, <1>5, <1>6 DEF g

LEMMA OneofPlaces ==
    ASSUME ControlOK, ~Done, Top.fn = "oneof"
    PROVE  /\ Top \in FrameSet /\ {"key", "colon", "skip", "tag"} \subseteq Places[Top.fn]
           /\ {"key", "colon", "skip", "tag"} \cap Waiting = {}
BY TopFacts DEF Places, Waiting

LEMMA OneofScans ==
    ASSUME ControlOK, ~Done, Top.fn = "oneof", NEW t,
           NEW at \in {"key", "colon", "skip", "tag"}, Become(Scan(at, t))
    PROVE  ControlOK'
<1> DEFINE g == Scan(at, t)
<1>1. Become(g)
  OBVIOUS
<1>2. /\ g = Moved(Top, at, Top.key, g.n, Top.brace, Top.bracket) /\ g.n \in Nat
      /\ Top.key \in Input \cup {NoKey} /\ Top.brace \in Int /\ Top.bracket \in Int
  BY OneofPlaces, ScanOK
<1> HIDE DEF g
<1>3. at \in Places[Top.fn] /\ at \notin Waiting
  BY OneofPlaces
<1> QED BY <1>1, <1>2, <1>3, MovesOK

LEMMA OneofScansKey ==
    ASSUME ControlOK, ~Done, Top.fn = "oneof", NEW t, NEW key \in Input \cup {NoKey},
           Become([Scan("colon", t) EXCEPT !.key = key])
    PROVE  ControlOK'
<1> DEFINE g == Scan("colon", t)
<1>1. Become([g EXCEPT !.key = key])
  OBVIOUS
<1>2. "colon" \in Places[Top.fn] /\ "colon" \notin Waiting
  BY OneofPlaces
<1>3. /\ g = Moved(Top, "colon", Top.key, g.n, Top.brace, Top.bracket) /\ g.n \in Nat
      /\ Top.key \in Input \cup {NoKey} /\ Top.brace \in Int /\ Top.bracket \in Int
  BY <1>2, OneofPlaces, ScanOK
<1> HIDE DEF g
<1>4. [g EXCEPT !.key = key] = Moved(Top, "colon", key, g.n, Top.brace, Top.bracket)
  BY <1>3 DEF Moved
<1>5. Become(Moved(Top, "colon", key, g.n, Top.brace, Top.bracket))
  BY <1>1, <1>4
<1> QED BY <1>2, <1>3, <1>5, MovesOK

LEMMA OneofSkips ==
    ASSUME ControlOK, ~Done, Top.fn = "oneof", NEW t
    PROVE  /\ Become(Level(Scan("skip", t), t)) => ControlOK'
           /\ Become([Level(Scan("skip", t), t)
                       EXCEPT !.at = "key", !.brace = 0, !.bracket = 0]) => ControlOK'
<1> DEFINE s == Scan("skip", t)
           l == Level(s, t)
           k == [l EXCEPT !.at = "key", !.brace = 0, !.bracket = 0]
<1>1. /\ "skip" \in Places[Top.fn] /\ "skip" \notin Waiting
      /\ "key" \in Places[Top.fn] /\ "key" \notin Waiting /\ Top \in FrameSet
  BY OneofPlaces
<1>2. /\ s = Moved(Top, "skip", Top.key, s.n, Top.brace, Top.bracket) /\ s.n \in Nat
      /\ Top.key \in Input \cup {NoKey} /\ Top.brace \in Int /\ Top.bracket \in Int
  BY <1>1, ScanOK
<1>3. s \in FrameSet
  <2> HIDE DEF s
  <2> QED BY <1>1, <1>2, MovedOK
<1>4. /\ l = Moved(s, s.at, s.key, s.n, l.brace, l.bracket)
      /\ l.brace \in Int /\ l.bracket \in Int
  <2> HIDE DEF s
  <2> QED BY <1>3, LevelOK
<1>5. l = Moved(Top, "skip", Top.key, s.n, l.brace, l.bracket)
  <2> HIDE DEF s, l
  <2> QED BY <1>2, <1>4 DEF Moved
<1>6. ASSUME Become(l) PROVE ControlOK'
  <2> HIDE DEF s, l
  <2>1. Become(Moved(Top, "skip", Top.key, s.n, l.brace, l.bracket))
    BY <1>5, <1>6
  <2> QED BY <1>1, <1>2, <1>4, <2>1, MovesOK
<1>7. ASSUME Become(k) PROVE ControlOK'
  <2> DEFINE k1 == [l EXCEPT !.at = "key"]
             k2 == [k1 EXCEPT !.brace = 0]
  <2>1. k = [k2 EXCEPT !.bracket = 0]
    OBVIOUS
  <2> HIDE DEF s, l, k
  <2>2. k1 = Moved(Top, "key", Top.key, s.n, l.brace, l.bracket)
    BY <1>5 DEF Moved
  <2> HIDE DEF k1
  <2>3. k2 = Moved(Top, "key", Top.key, s.n, 0, l.bracket)
    BY <2>2 DEF Moved
  <2> HIDE DEF k2
  <2>4. k = Moved(Top, "key", Top.key, s.n, 0, 0)
    BY <2>1, <2>3 DEF Moved
  <2>5. Become(Moved(Top, "key", Top.key, s.n, 0, 0))
    BY <1>7, <2>4
  <2>6. 0 \in Int
    OBVIOUS
  <2> QED BY <1>1, <1>2, <2>5, <2>6, MovesOK
<1> QED BY <1>6, <1>7

LEMMA OneofOK == ASSUME IInv, Oneof PROVE IInv'
<1>1. ~Done /\ Top.fn = "oneof" /\ Top.depth \in Nat /\ "called" \in Places[Top.fn]
  <2>1. ~Done /\ Top.fn = "oneof"
    BY DEF Oneof, OneofOpen, OneofKey, OneofColon, OneofSkip, OneofTag, OneofBack, In, Back
  <2> QED BY <2>1, TopFacts DEF IInv, Places
<1>2. CASE OneofOpen
  <2>1. PICK t \in Input :
          Peek(0, t) /\ (Return(0) \/ Return(-1) \/ Become(Scan("key", t)))
    BY <1>2 DEF OneofOpen
  <2> QED BY <1>1, <2>1, PeekOK, ReturnOK, OneofScans DEF IInv
<1>3. CASE OneofKey
  <2>1. PICK t \in Input :
          /\ Peek(Top.n, t)
          /\ \/ Return(-1) \/ Become(Scan("key", t))
             \/ \E key \in Input \cup {NoKey} : Become([Scan("colon", t) EXCEPT !.key = key])
    BY <1>3, Zenon DEF OneofKey
  <2>2. CASE Return(-1)
    BY <1>1, <2>1, <2>2, PeekOK, ReturnOK DEF IInv
  <2>3. CASE Become(Scan("key", t))
    BY <1>1, <2>1, <2>3, PeekOK, OneofScans DEF IInv
  <2>4. CASE \E key \in Input \cup {NoKey} : Become([Scan("colon", t) EXCEPT !.key = key])
    BY <1>1, <2>1, <2>4, PeekOK, OneofScansKey DEF IInv
  <2> QED BY <2>1, <2>2, <2>3, <2>4
<1>4. CASE OneofColon
  <2>1. PICK t \in Input :
          /\ Peek(Top.n, t)
          /\ Return(-1) \/ Become(Scan("tag", t)) \/ Become(Scan("skip", t))
    BY <1>4, Zenon DEF OneofColon
  <2>2. CASE Return(-1)
    BY <1>1, <2>1, <2>2, PeekOK, ReturnOK DEF IInv
  <2>3. CASE Become(Scan("tag", t)) \/ Become(Scan("skip", t))
    <3>1. PICK at \in {"tag", "skip"} : Become(Scan(at, t))
      BY <2>3
    <3> QED BY <1>1, <2>1, <3>1, PeekOK, OneofScans DEF IInv
  <2> QED BY <2>1, <2>2, <2>3
<1>5. CASE OneofSkip
  <2>1. PICK t \in Input :
          /\ Peek(Top.n, t)
          /\ \/ Become(Level(Scan("skip", t), t))
             \/ Become([Level(Scan("skip", t), t)
                         EXCEPT !.at = "key", !.brace = 0, !.bracket = 0])
    BY <1>5, Zenon DEF OneofSkip
  <2> QED BY <1>1, <2>1, PeekOK, OneofSkips DEF IInv
<1>6. CASE OneofTag
  <2>1. PICK t \in Input :
          /\ Peek(Top.n, t)
          /\ \/ Return(-1)
             \/ /\ t \in DOMAIN Variants[Top.elt]
                /\ Call("called", Frame("struct", Variants[Top.elt][t], Top.depth + 1))
    BY <1>6, Zenon DEF OneofTag
  <2>2. CASE Return(-1)
    BY <1>1, <2>1, <2>2, PeekOK, ReturnOK DEF IInv
  <2>3. CASE /\ t \in DOMAIN Variants[Top.elt]
             /\ Call("called", Frame("struct", Variants[Top.elt][t], Top.depth + 1))
    <3> DEFINE g == Frame("struct", Variants[Top.elt][t], Top.depth + 1)
    <3>1. Top.elt \in DOMAIN Variants
      BY <1>1, TopFacts DEF IInv, Stands, FrameOK, Handles
    <3>2. Variants[Top.elt][t] \in Handles["struct"] /\ "struct" \in Function
      BY <2>3, <3>1, IndexFacts DEF Handles, Function, Places
    <3>3. /\ FrameOK(g) /\ g.at \notin Waiting
          /\ g.fn = "struct" /\ g.at = "open" /\ g.depth = Top.depth + 1
      BY <1>1, <3>2, FrameFresh
    <3>4. Call("called", g)
      BY <2>3
    <3> HIDE DEF g
    <3>5. Height(Len(stack) + 1, g)
      BY <1>1, <3>3, CalleeHeight DEF IInv
    <3> QED BY <1>1, <2>1, <3>3, <3>4, <3>5, CallsOK, PeekOK DEF IInv, Stands
  <2> QED BY <2>1, <2>2, <2>3
<1>7. CASE OneofBack
  <2>1. NoInput /\ (Return(-1) \/ Return(0))
    BY <1>7 DEF OneofBack, Back
  <2> QED BY <1>1, <2>1, ReturnOK, NoInputOK DEF IInv
<1> QED BY <1>2, <1>3, <1>4, <1>5, <1>6, <1>7 DEF Oneof

-----------------------------------------------------------------------------
(***************************************************************************)
(* json_unmarshal_struct_internal, the only function that checks depth.    *)
(***************************************************************************)
LEMMA StructGoes ==
    ASSUME ControlOK, ~Done, Top.fn = "struct",
           Top.at # "open" \/ Top.depth <= MaxDepth,
           NEW at \in {"fields", "comma", "colon", "nullable", "value"},
           NEW key \in Input \cup {NoKey},
           at \in {"nullable", "value"} => key \in DOMAIN Index[Top.elt],
           at = "colon" => key \in DOMAIN Index[Top.elt] \cup {NoKey},
           Become([Top EXCEPT !.at = at, !.key = key])
    PROVE  ControlOK'
<1> DEFINE h == [Top EXCEPT !.at = at]
           f == Moved(Top, at, key, Top.n, Top.brace, Top.bracket)
<1>1. Top \in FrameSet /\ at \in Places[Top.fn] /\ at \notin Waiting
  BY TopFacts DEF Places, Waiting
<1>2. Top.n \in Nat /\ Top.brace \in Int /\ Top.bracket \in Int
  BY <1>1 DEF FrameSet
<1>3. Become([h EXCEPT !.key = key])
  OBVIOUS
<1>a. h = Moved(Top, at, Top.key, Top.n, Top.brace, Top.bracket)
  BY <1>1 DEF FrameSet, Moved
<1> HIDE DEF h
<1>4. [h EXCEPT !.key = key] = f
  BY <1>a DEF Moved
<1>5. Become(f)
  BY <1>3, <1>4
<1> HIDE DEF f
<1>6. /\ f \in FrameSet /\ f.at = at /\ f.key = key
      /\ f.fn = Top.fn /\ f.elt = Top.elt /\ f.depth = Top.depth
  <2>1. f = Moved(Top, at, key, Top.n, Top.brace, Top.bracket)
    BY DEF f
  <2> QED BY <1>1, <1>2, <2>1, MovedOK
<1>7. Stands(Len(stack), f)
  BY <1>1, <1>6, StaysOK
<1> QED BY <1>1, <1>5, <1>6, <1>7, BecomeOK

LEMMA StructGoto ==
    ASSUME ControlOK, ~Done, Top.fn = "struct",
           Top.at # "open" \/ Top.depth <= MaxDepth,
           NEW at \in {"fields", "comma", "nullable", "value"},
           at \in {"nullable", "value"} => Top.key \in DOMAIN Index[Top.elt],
           Goto(at)
    PROVE  ControlOK'
<1>1. Top \in FrameSet /\ Top.key \in Input \cup {NoKey}
  BY TopFacts DEF FrameSet
<1>2. [Top EXCEPT !.at = at] = [Top EXCEPT !.at = at, !.key = Top.key]
  <2> DEFINE h == [Top EXCEPT !.at = at]
  <2>1. h = [h EXCEPT !.key = Top.key]
    BY <1>1 DEF FrameSet
  <2> QED BY <2>1
<1>3. Become([Top EXCEPT !.at = at, !.key = Top.key])
  BY <1>2 DEF Goto
<1> QED BY <1>1, <1>3, StructGoes

LEMMA StructNext ==
    ASSUME ControlOK, ~Done, Top.fn = "struct", Top.at # "open", NextField
    PROVE  ControlOK'
<1>1. NoKey \in Input \cup {NoKey}
  OBVIOUS
<1>2. Become([Top EXCEPT !.at = "fields", !.key = NoKey])
  BY DEF NextField
<1> QED BY <1>1, <1>2, StructGoes

LEMMA StructCalls ==
    ASSUME ControlOK, ~Done, Top.fn = "struct", Top.at # "open",
           NEW at \in Waiting, at = "called" => Top.key \in DOMAIN Index[Top.elt],
           NEW g, Stands(Len(stack) + 1, g), g.at \notin Waiting, Call(at, g)
    PROVE  ControlOK'
<1> DEFINE f == [Top EXCEPT !.at = at]
<1>1. Top \in FrameSet /\ at \in Places[Top.fn]
  BY TopFacts DEF Places, Waiting
<1>2. /\ f \in FrameSet /\ f.at = at /\ f.key = Top.key
      /\ f.fn = Top.fn /\ f.elt = Top.elt /\ f.depth = Top.depth
  BY <1>1, PlaceOK
<1> HIDE DEF f
<1>3. Stands(Len(stack), f)
  BY <1>1, <1>2, StaysOK DEF Waiting
<1>4. Stands(Len(stack), [Top EXCEPT !.at = at])
  BY <1>3 DEF f
<1> QED BY <1>4, CallOK

\* A field of a schema is of a kind the parser was generated for, and the
\* call it leads to is one level deeper where the callee counts its depth.
LEMMA CalleeOK ==
    ASSUME ControlOK, ~Done, Top.fn = "struct", Top.at = "value",
           ~(Field.k = "one" /\ Field.elt \in Scalar)
    PROVE  Stands(Len(stack) + 1, Callee(Field, Top)) /\ Callee(Field, Top).at \notin Waiting
<1> DEFINE g == Callee(Field, Top)
           d == Top.depth
<1>1. /\ Len(stack) \in Nat /\ d \in Nat /\ Len(stack) <= 2 * d + 1 /\ d <= MaxDepth
      /\ Top.elt \in DOMAIN Index /\ Top.key \in DOMAIN Index[Top.elt]
  BY TopFacts DEF Stands, Height, FrameOK, Handles
<1>2. /\ Field.k \in {"one", "array", "fixed", "map", "maps"}
      /\ Field.elt \in Scalar \cup DOMAIN Index \cup DOMAIN Variants
      /\ Field.k \in {"map", "maps"} => Field.elt \notin DOMAIN Variants
  BY <1>1, IndexFacts DEF Field
<1>3. SubMask(Top) \in {"all"} \cup DOMAIN Mask
  <2>1. Top.mask \in {"all"} \cup DOMAIN Mask
    BY TopFacts DEF FrameSet
  <2> QED BY <2>1, UnmarshalAssumption DEF SubMask
<1>7. /\ DOMAIN Index \cap DOMAIN Variants = {}
      /\ Scalar \cap (DOMAIN Index \cup DOMAIN Variants) = {}
  BY IndexFacts
<1>4. CASE Field.k = "one" /\ IsStruct(Field.elt)
  <2> DEFINE m == SubMask(Top)
  <2>a. g = [Frame("struct", Field.elt, d + 1) EXCEPT !.mask = m]
    BY <1>4, <1>7 DEF Callee, IsStruct, IsOneof
  <2>b. m \in {"all"} \cup DOMAIN Mask
    BY <1>3
  <2> HIDE DEF m
  <2>1. g = Masked("struct", Field.elt, d + 1, m)
    <3> HIDE DEF g
    <3> QED BY <2>a DEF Frame, Masked
  <2>2. Field.elt \in Handles["struct"] /\ "struct" \in Function
    BY <1>4 DEF IsStruct, Handles, Function, Places
  <2>3. FrameOK(g) /\ g.at \notin Waiting /\ g.fn = "struct" /\ g.at = "open" /\ g.depth = d + 1
    <3>1. d + 1 \in Nat
      BY <1>1
    <3> HIDE DEF g
    <3> QED BY <3>1, <2>b, <2>1, <2>2, MaskedOK
  <2> HIDE DEF g
  <2>4. Height(Len(stack) + 1, g)
    BY <1>1, <2>3, UnmarshalAssumption DEF Height
  <2> QED BY <2>3, <2>4 DEF Stands, g
<1>5. ASSUME NEW fn \in {"oneof", "map", "oneofs"}, Field.elt \in Handles[fn],
             g = Frame(fn, Field.elt, d + 1)
      PROVE  Stands(Len(stack) + 1, g) /\ g.at \notin Waiting
  <2>1. fn \in Function
    BY DEF Function, Places
  <2> HIDE DEF g
  <2>2. FrameOK(g) /\ g.at \notin Waiting /\ g.fn = fn /\ g.depth = d + 1
    BY <1>1, <1>5, <2>1, FrameFresh
  <2>3. Height(Len(stack) + 1, g)
    BY <1>1, <2>2, UnmarshalAssumption DEF Height
  <2> QED BY <2>2, <2>3 DEF Stands
<1>6. ASSUME NEW fn \in {"array", "scalars", "enums", "fixed", "maps"}, Field.elt \in Handles[fn],
             g = Frame(fn, Field.elt, d)
      PROVE  Stands(Len(stack) + 1, g) /\ g.at \notin Waiting
  <2>1. fn \in Function
    BY DEF Function, Places
  <2> HIDE DEF g
  <2>2. FrameOK(g) /\ g.at \notin Waiting /\ g.fn = fn /\ g.depth = d
    BY <1>1, <1>6, <2>1, FrameFresh
  <2>3. g.fn # "struct" /\ g.fn \notin {"map", "oneof"} /\ g.fn # "oneofs"
    BY <2>2
  <2>4. Height(Len(stack) + 1, g)
    BY <1>1, <2>2, <2>3, UnmarshalAssumption DEF Height
  <2> QED BY <2>2, <2>4 DEF Stands
<1>8. CASE Field.k = "one" /\ IsOneof(Field.elt)
  <2>1. g = Frame("oneof", Field.elt, d + 1)
    BY <1>7, <1>8 DEF Callee, IsStruct, IsOneof
  <2>2. Field.elt \in Handles["oneof"]
    BY <1>8 DEF IsOneof, Handles
  <2> QED BY <1>5, <2>1, <2>2
<1>9. CASE Field.k = "map"
  <2>1. g = Frame("map", Field.elt, d + 1)
    BY <1>9 DEF Callee
  <2>2. Field.elt \in Handles["map"]
    BY <1>2, <1>9 DEF Handles
  <2> QED BY <1>5, <2>1, <2>2
<1>10. CASE Field.k \in {"maps", "fixed"}
  <2>1. g = Frame(Field.k, Field.elt, d)
    BY <1>10 DEF Callee
  <2>2. Field.elt \in Handles[Field.k]
    BY <1>2, <1>10 DEF Handles
  <2> QED BY <1>6, <1>10, <2>1, <2>2
<1>11. CASE Field.k = "array"
  <2>1. CASE IsStruct(Field.elt)
    <3>1. g = Frame("array", Field.elt, d)
      BY <1>7, <1>11, <2>1 DEF Callee, IsStruct, IsOneof, Scalar
    <3>2. Field.elt \in Handles["array"]
      BY <2>1 DEF IsStruct, Handles
    <3> QED BY <1>6, <3>1, <3>2
  <2>2. CASE IsOneof(Field.elt)
    <3>1. g = Frame("oneofs", Field.elt, d + 1)
      BY <1>7, <1>11, <2>2 DEF Callee, IsStruct, IsOneof, Scalar
    <3>2. Field.elt \in Handles["oneofs"]
      BY <2>2 DEF IsOneof, Handles
    <3> QED BY <1>5, <3>1, <3>2
  <2>3. CASE Field.elt = "enum"
    <3>1. g = Frame("enums", Field.elt, d) /\ Field.elt \in Handles["enums"]
      BY <1>7, <1>11, <2>3 DEF Callee, IsStruct, IsOneof, Handles, Scalar
    <3> QED BY <1>6, <3>1
  <2>4. CASE Field.elt \in Scalar \ {"enum"}
    <3>1. g = Frame("scalars", Field.elt, d) /\ Field.elt \in Handles["scalars"]
      BY <1>7, <1>11, <2>4 DEF Callee, IsStruct, IsOneof, Handles
    <3> QED BY <1>6, <3>1
  <2> QED BY <1>2, <2>1, <2>2, <2>3, <2>4 DEF IsStruct, IsOneof
<1> QED BY <1>2, <1>4, <1>8, <1>9, <1>10, <1>11 DEF IsStruct, IsOneof

LEMMA StructOpenOK == ASSUME IInv, TooDeep \/ StructOpen PROVE IInv'
<1>1. ~Done /\ Top.fn = "struct"
  BY DEF TooDeep, StructOpen, In
<1>2. CASE TooDeep
  BY <1>1, <1>2, ReturnOK, NoInputOK DEF TooDeep, IInv
<1>3. CASE StructOpen
  <2>1. Top.depth <= MaxDepth
    BY <1>3 DEF StructOpen
  <2>2. PICK t \in Input :
          Take(t) /\ (Goto("fields") \/ \E r \in {-1, 0, 1} : Return(r))
    BY <1>3 DEF StructOpen
  <2>3. CASE Goto("fields")
    BY <1>1, <2>1, <2>2, <2>3, TakeOK, StructGoto DEF IInv
  <2>4. CASE \E r \in {-1, 0, 1} : Return(r)
    BY <1>1, <2>2, <2>4, TakeOK, ReturnOK DEF IInv
  <2> QED BY <2>2, <2>3, <2>4
<1> QED BY <1>2, <1>3

LEMMA StructFieldOK == ASSUME IInv, StructField \/ StructComma PROVE IInv'
<1>1. ~Done /\ Top.fn = "struct" /\ Top.at # "open"
  BY DEF StructField, StructComma, In
<1>2. CASE StructField
  <2>1. PICK t \in Input :
          /\ Take(t)
          /\ \/ Return(0) \/ Return(-1) \/ Goto("comma")
             \/ Become([Top EXCEPT !.at = "colon",
                        !.key = IF t \in DOMAIN Index[Top.elt] THEN t ELSE NoKey])
    BY <1>2, Zenon DEF StructField
  <2>2. CASE Return(0) \/ Return(-1)
    BY <1>1, <2>1, <2>2, TakeOK, ReturnOK DEF IInv
  <2>3. CASE Goto("comma")
    BY <1>1, <2>1, <2>3, TakeOK, StructGoto DEF IInv
  <2>4. CASE Become([Top EXCEPT !.at = "colon",
                     !.key = IF t \in DOMAIN Index[Top.elt] THEN t ELSE NoKey])
    <3> DEFINE key == IF t \in DOMAIN Index[Top.elt] THEN t ELSE NoKey
    <3>1. key \in Input \cup {NoKey} /\ key \in DOMAIN Index[Top.elt] \cup {NoKey}
      OBVIOUS
    <3>2. Become([Top EXCEPT !.at = "colon", !.key = key])
      BY <2>4
    <3> HIDE DEF key
    <3>3. ControlOK'
      BY <1>1, <3>1, <3>2, StructGoes DEF IInv
    <3> QED BY <2>1, <3>3, TakeOK DEF IInv
  <2> QED BY <2>1, <2>2, <2>3, <2>4
<1>3. CASE StructComma
  <2>1. PICK t \in Input : Peek(0, t) /\ (Return(-1) \/ Goto("fields"))
    BY <1>3 DEF StructComma
  <2>2. CASE Return(-1)
    BY <1>1, <2>1, <2>2, PeekOK, ReturnOK DEF IInv
  <2>3. CASE Goto("fields")
    BY <1>1, <2>1, <2>3, PeekOK, StructGoto DEF IInv
  <2> QED BY <2>1, <2>2, <2>3
<1> QED BY <1>2, <1>3

LEMMA StructColonOK == ASSUME IInv, StructColon PROVE IInv'
<1>1. ~Done /\ Top.fn = "struct" /\ Top.at = "colon"
  BY DEF StructColon, In
<1>2. /\ Top.key \in DOMAIN Index[Top.elt] \cup {NoKey} /\ Top.depth \in Nat
      /\ Len(stack) <= 2 * Top.depth + 1 /\ Top.depth <= MaxDepth /\ Len(stack) \in Nat
  BY <1>1, TopFacts DEF IInv, Stands, FrameOK, Height
<1>3. PICK t \in Input :
        /\ Take(t)
        /\ \/ Return(-1)
           \/ Call("ignored", Frame("ignore", "any", Top.depth))
           \/ Top.key # NoKey /\ (Goto("nullable") \/ Goto("value"))
  BY Zenon DEF StructColon
<1>4. CASE Return(-1)
  BY <1>1, <1>3, <1>4, TakeOK, ReturnOK DEF IInv
<1>5. CASE Call("ignored", Frame("ignore", "any", Top.depth))
  <2> DEFINE g == Frame("ignore", "any", Top.depth)
  <2>1. "any" \in Handles["ignore"] /\ "ignore" \in Function
    BY DEF Handles, Function, Places
  <2>2. FrameOK(g) /\ g.at \notin Waiting /\ g.fn = "ignore" /\ g.depth = Top.depth
    BY <1>2, <2>1, FrameFresh
  <2>3. Call("ignored", g)
    BY <1>5
  <2> HIDE DEF g
  <2>4. Height(Len(stack) + 1, g)
    BY <1>2, <2>2, UnmarshalAssumption DEF Height
  <2>5. ControlOK'
    BY <1>1, <2>2, <2>3, <2>4, StructCalls DEF IInv, Stands, Waiting
  <2> QED BY <1>3, <2>5, TakeOK DEF IInv
<1>6. CASE Top.key # NoKey /\ (Goto("nullable") \/ Goto("value"))
  <2>1. PICK at \in {"nullable", "value"} : Goto(at)
    BY <1>6
  <2>2. ControlOK'
    BY <1>1, <1>2, <1>6, <2>1, StructGoto DEF IInv
  <2> QED BY <1>3, <2>2, TakeOK DEF IInv
<1> QED BY <1>3, <1>4, <1>5, <1>6

LEMMA StructValueOK ==
    ASSUME IInv, StructIgnored \/ StructNullable \/ StructScalar \/ StructCall \/ StructBack
    PROVE  IInv'
<1>1. ~Done /\ Top.fn = "struct" /\ Top.at # "open"
  BY DEF StructIgnored, StructNullable, StructScalar, StructCall, StructBack, In, Back
<1>2. CASE StructIgnored
  <2>1. NoInput /\ (Return(-1) \/ NextField)
    BY <1>2 DEF StructIgnored
  <2> QED BY <1>1, <2>1, ReturnOK, StructNext, NoInputOK DEF IInv
<1>3. CASE StructNullable
  <2>1. PICK t \in Input : (Take(t) /\ NextField) \/ (Peek(0, t) /\ Goto("value"))
    BY <1>3 DEF StructNullable
  <2>2. Top.key \in DOMAIN Index[Top.elt]
    BY <1>1, <1>3, TopFacts DEF IInv, StructNullable, In, Stands, FrameOK
  <2>3. CASE Take(t) /\ NextField
    BY <1>1, <2>3, TakeOK, StructNext DEF IInv
  <2>4. CASE Peek(0, t) /\ Goto("value")
    BY <1>1, <2>2, <2>4, PeekOK, StructGoto DEF IInv
  <2> QED BY <2>1, <2>3, <2>4
<1>4. CASE StructScalar
  <2>1. PICK t \in Input :
          Take(t) /\ (Return(ScalarCode(Field.elt, t)) \/ NextField)
    BY <1>4, Zenon DEF StructScalar
  <2> QED BY <1>1, <2>1, CodeOK, TakeOK, ReturnOK, StructNext DEF IInv
<1>5. CASE StructCall
  <2> DEFINE g == Callee(Field, Top)
  <2>1. Top.at = "value" /\ Top.key \in DOMAIN Index[Top.elt] /\ NoInput /\ Call("called", g)
    BY <1>1, <1>5, TopFacts DEF IInv, StructCall, In, Stands, FrameOK
  <2>2. Stands(Len(stack) + 1, g) /\ g.at \notin Waiting
    BY <1>1, <1>5, <2>1, CalleeOK DEF IInv, StructCall
  <2> HIDE DEF g
  <2> QED BY <1>1, <2>1, <2>2, StructCalls, NoInputOK DEF IInv, Waiting
<1>6. CASE StructBack
  <2>1. NoInput /\ ret # <<>> /\ (Return(ret[1]) \/ NextField)
    BY <1>6 DEF StructBack, Back
  <2> QED BY <1>1, <2>1, RetOK, ReturnOK, StructNext, NoInputOK DEF IInv
<1> QED BY <1>2, <1>3, <1>4, <1>5, <1>6

-----------------------------------------------------------------------------
(***************************************************************************)
(* The invariant and what it gives.                                        *)
(***************************************************************************)
LEMMA Initially == Init => IInv
<1> SUFFICES ASSUME Init PROVE IInv
  OBVIOUS
<1>1. PICK d \in Documents :
         /\ stack = <<[Frame("struct", d.root, 0) EXCEPT !.mask = d.mask]>>
         /\ left = d.max
  BY DEF Init
<1> DEFINE f == [Frame("struct", d.root, 0) EXCEPT !.mask = d.mask]
<1>2. f = Masked("struct", d.root, 0, d.mask)
  BY DEF Frame, Masked
<1>3. /\ d.mask \in {"all"} \cup DOMAIN Mask /\ d.root \in Handles["struct"]
      /\ "struct" \in Function /\ d.max \in 0..MaxTokens
  BY UnmarshalAssumption DEF Handles, Function, Places, Index
<1>4. stack = <<f>>
  BY <1>1
<1> HIDE DEF f
<1>5. FrameOK(f) /\ f.at \notin Waiting /\ f.fn = "struct" /\ f.at = "open" /\ f.depth = 0
  <2>1. 0 \in Nat
    OBVIOUS
  <2>2. \A fn \in Function : \A elt \in Handles[fn] : \A n \in Nat :
        \A mask \in {"all"} \cup DOMAIN Mask :
           LET g == Masked(fn, elt, n, mask)
           IN  /\ FrameOK(g) /\ g.at \notin Waiting
               /\ g.fn = fn /\ g.at = "open" /\ g.depth = n
    BY MaskedOK, Zenon
  <2>3. LET g == Masked("struct", d.root, 0, d.mask)
        IN  /\ FrameOK(g) /\ g.at \notin Waiting
            /\ g.fn = "struct" /\ g.at = "open" /\ g.depth = 0
    <3>1. "struct" \in Function
      BY <1>3, Zenon
    <3>2. d.root \in Handles["struct"]
      BY <1>3, Zenon
    <3>3. d.mask \in {"all"} \cup DOMAIN Mask
      BY <1>3, Zenon
    <3>4. \A elt \in Handles["struct"] : \A n \in Nat :
          \A mask \in {"all"} \cup DOMAIN Mask :
             LET g == Masked("struct", elt, n, mask)
             IN  /\ FrameOK(g) /\ g.at \notin Waiting
                 /\ g.fn = "struct" /\ g.at = "open" /\ g.depth = n
      BY <2>2, <3>1, Zenon
    <3>5. \A n \in Nat : \A mask \in {"all"} \cup DOMAIN Mask :
             LET g == Masked("struct", d.root, n, mask)
             IN  /\ FrameOK(g) /\ g.at \notin Waiting
                 /\ g.fn = "struct" /\ g.at = "open" /\ g.depth = n
      BY <3>2, <3>4, Zenon
    <3> QED BY <2>1, <3>3, <3>5, Zenon
  <2> QED BY <1>2, <2>3, Zenon
<1>6. Stands(1, f)
  BY <1>5, UnmarshalAssumption DEF Stands, Height
<1>7. ControlOK
  <2>1. f \in FrameSet /\ Len(stack) = 1 /\ stack[1] = f
    BY <1>4, <1>5 DEF FrameOK
  <2>2. stack \in Seq(FrameSet) /\ stack # <<>> /\ ret = <<>>
    BY <1>4, <2>1 DEF Init
  <2> QED BY <1>5, <1>6, <2>1, <2>2 DEF ControlOK, Done, Top
<1>8. InputOK
  BY <1>1, <1>3, UnmarshalAssumption DEF Init, InputOK
<1> QED BY <1>7, <1>8 DEF IInv

LEMMA Preserved == IInv /\ [Next]_vars => IInv'
<1> SUFFICES ASSUME IInv, [Next]_vars PROVE IInv'
  OBVIOUS
<1>1. CASE Struct
  BY <1>1, StructOpenOK, StructFieldOK, StructColonOK, StructValueOK DEF Struct
<1>2. CASE Array BY <1>2, ArrayOK
<1>3. CASE Scalars BY <1>3, ScalarsOK
<1>4. CASE Enums BY <1>4, EnumsOK
<1>5. CASE Fixed BY <1>5, FixedOK
<1>6. CASE MapObject BY <1>6, MapObjectOK
<1>7. CASE Maps BY <1>7, MapsOK
<1>8. CASE Ignore BY <1>8, IgnoreOK
<1>9. CASE Oneof BY <1>9, OneofOK
<1>10. CASE Oneofs BY <1>10, OneofsOK
<1>11. CASE UNCHANGED vars
  BY <1>11 DEF IInv, ControlOK, InputOK, vars, Stands, Done, Top
<1>12. CASE Finished
  BY <1>11, <1>12 DEF Finished
<1> QED BY <1>1, <1>2, <1>3, <1>4, <1>5, <1>6, <1>7, <1>8, <1>9, <1>10, <1>11, <1>12 DEF Next

\* The invariant holds of every reachable state.
THEOREM Invariance == Spec => []IInv
<1> QED BY Initially, Preserved, PTL DEF Spec

\* Control is always in order, for every schema and document: each active call
\* (json_unmarshal_struct_internal and the functions it calls) stands at a place of
\* its own, for a type it handles, and a code is returned exactly to a caller that
\* waits for one.
THEOREM TypeCorrect == Spec => []TypeOK
<1>1. IInv => TypeOK
  BY DEF IInv, ControlOK, InputOK, Stands, TypeOK
<1> QED BY <1>1, Invariance, PTL

\* JSON_MAX_DEPTH bounds the native stack: whatever the schema and the document,
\* no more than 2 * JSON_MAX_DEPTH + 4 calls of the generated parser are active,
\* although only json_unmarshal_struct_internal checks the depth.
THEOREM StackSafety == Spec => []StackBounded
<1>1. ASSUME IInv PROVE StackBounded
  <2>1. CASE Done
    BY <2>1, UnmarshalAssumption DEF Done, StackBounded
  <2>2. CASE ~Done
    <3>1. Height(Len(stack), Top) /\ Top.depth \in Nat /\ Len(stack) \in Nat
      BY <1>1, <2>2, TopFacts DEF IInv, Stands
    <3> QED BY <3>1, UnmarshalAssumption DEF Height, StackBounded
  <2> QED BY <2>1, <2>2
<1> QED BY <1>1, Invariance, PTL
=============================================================================
