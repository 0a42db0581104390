------------------------ MODULE JsonAcceptanceProofs ------------------------
(***************************************************************************)
(* The parser accepts exactly the documents of its schema, consumes them   *)
(* whole, and refuses one only where it was cut short or nests too deep:   *)
(* ExactAcceptance, for every schema, depth limit, mask and length.        *)
(*                                                                         *)
(* The generator of documents keeps a goal, the parser a stack of calls,   *)
(* and the invariant relates the two call by call: what the calls of the   *)
(* stack still owe, from the top one to the parse of the root, is what the *)
(* goal still promises.  A parser keeps that up (in sync), lags a document *)
(* that deviated, has met the end of a document cut short, or is           *)
(* returning its failure.                                                  *)
(*                                                                         *)
(* A document that is any JSON value has no members to speak of.  Where a  *)
(* struct has scalars only, the same relation says that what it calls and  *)
(* what it skips leave it inside its own object (FlatTracks), until the    *)
(* last brace: AcceptsWholeObject.                                         *)
(***************************************************************************)
EXTENDS JsonUnmarshalProofs

\* What DocumentAssumption says, for every row of the index.
LEMMA DocumentFacts ==
    /\ "any" \notin DOMAIN Index \cup DOMAIN Variants
    /\ IsString(TagKey) /\ TagKey # NoKey
    /\ IsString(Stray) /\ Stray # TagKey
    /\ \A s \in DOMAIN Index : Stray \notin DOMAIN Index[s]
    /\ \A o \in DOMAIN Variants : \A v \in DOMAIN Variants[o] :
         IsString(v) /\ TagKey \notin DOMAIN Index[Variants[o][v]]
<1>1. "any" \notin DOMAIN Index
  BY DocumentAssumption DEF Index, NoStruct
<1>2. TagKey # NoKey
  BY DocumentAssumption DEF NoKey, IsString
<1> QED BY <1>1, <1>2, DocumentAssumption

-----------------------------------------------------------------------------
(***************************************************************************)
(* Goals are read from the front: one symbol on a goal, and a goal that    *)
(* ends with a given end symbol.                                           *)
(***************************************************************************)
Cons(a, r) == <<a>> \o r

Good(r, end) ==
    /\ r \in Seq({r[i] : i \in 1..Len(r)})
    /\ Len(r) \in Nat \ {0} /\ r[Len(r)] = end

LEMMA SeqGood ==
    ASSUME NEW S, NEW r \in Seq(S), r # <<>>
    PROVE  Good(r, r[Len(r)])
<1>1. Len(r) \in Nat \ {0} /\ r = [i \in 1..Len(r) |-> r[i]]
  OBVIOUS
<1>2. \A i \in 1..Len(r) : r[i] \in {r[j] : j \in 1..Len(r)}
  OBVIOUS
<1>3. r \in Seq({r[j] : j \in 1..Len(r)})
  <2> DEFINE T == {r[j] : j \in 1..Len(r)}
  <2>1. r \in [1..Len(r) -> T]
    BY <1>1, <1>2
  <2> HIDE DEF T
  <2>2. r \in Seq(T)
    BY <1>1, <2>1
  <2> QED BY <2>2 DEF T
<1> QED BY <1>1, <1>3 DEF Good

LEMMA ConsFacts ==
    ASSUME NEW a, NEW r, NEW end, Good(r, end)
    PROVE  /\ Good(Cons(a, r), end)
           /\ Head(Cons(a, r)) = a /\ Tail(Cons(a, r)) = r
           /\ Len(Cons(a, r)) = Len(r) + 1 /\ Len(r) \in Nat \ {0}
           /\ <<>> \o r = r
           /\ Cons(a, r) # <<>> /\ Cons(a, r) # <<end>>
<1> DEFINE S == {r[i] : i \in 1..Len(r)} \cup {a}
           T == {r[i] : i \in 1..Len(r)}
<1>1. r \in Seq(T) /\ Len(r) \in Nat \ {0} /\ r[Len(r)] = end
  BY DEF Good
<1>2. T \subseteq S /\ a \in S
  OBVIOUS
<1> HIDE DEF S, T
<1>3. r \in Seq(S)
  BY <1>1, <1>2
<1>4. <<a>> \in Seq(S) /\ Len(<<a>>) = 1 /\ <<a>>[1] = a
  BY <1>2
<1> DEFINE g == <<a>> \o r
<1>5. g \in Seq(S) /\ Len(g) = Len(r) + 1 /\ g[1] = a /\ g[Len(r) + 1] = r[Len(r)]
  BY <1>1, <1>3, <1>4
<1>6. Head(g) = a /\ Tail(g) = r
  BY <1>1, <1>3, <1>4, ConcatSimplifications
<1>7. <<>> \o r = r
  BY <1>3
<1>8. g # <<>> /\ g # <<end>>
  <2>1. Len(<<end>>) = 1 /\ Len(g) # 1 /\ Len(g) # 0
    BY <1>1, <1>5
  <2> HIDE DEF g
  <2> QED BY <2>1
<1> HIDE DEF g
<1>9. Good(g, end)
  BY <1>1, <1>5, <1>8, SeqGood
<1> QED BY <1>1, <1>5, <1>6, <1>7, <1>8, <1>9 DEF Cons, g

LEMMA EndGood == ASSUME NEW end PROVE Good(<<end>>, end)
<1>1. <<end>> \in Seq({end}) /\ <<end>> # <<>> /\ <<end>>[Len(<<end>>)] = end
  OBVIOUS
<1> QED BY <1>1, SeqGood

\* What a sequence puts on a goal: its first element, on what the others put there.
Starts(s, a, u) ==
    Len(s) = Len(u) + 1 /\ s[1] = a /\ \A i \in 1..Len(u) : s[i + 1] = u[i]

LEMMA FrontCons ==
    ASSUME NEW S, NEW s \in Seq(S), NEW u \in Seq(S), NEW r \in Seq(S), NEW a \in S,
           Starts(s, a, u)
    PROVE  s \o r = Cons(a, u \o r) /\ u \o r \in Seq(S)
<1> DEFINE A == <<a>>
           v == u \o r
           x == s \o r
           y == A \o v
<1>a. Len(s) = Len(u) + 1 /\ s[1] = a /\ \A i \in 1..Len(u) : s[i + 1] = u[i]
  BY DEF Starts
<1>1. A \in Seq(S) /\ Len(A) = 1 /\ A[1] = a
  OBVIOUS
<1> HIDE DEF A
<1>2. /\ v \in Seq(S) /\ Len(v) = Len(u) + Len(r)
      /\ \A i \in 1..Len(u) + Len(r) : v[i] = IF i <= Len(u) THEN u[i] ELSE r[i - Len(u)]
  BY ConcatProperties
<1>3. /\ x \in Seq(S) /\ Len(x) = Len(s) + Len(r)
      /\ \A i \in 1..Len(s) + Len(r) : x[i] = IF i <= Len(s) THEN s[i] ELSE r[i - Len(s)]
  BY ConcatProperties
<1> HIDE DEF v
<1>4. /\ y \in Seq(S) /\ Len(y) = 1 + Len(v)
      /\ \A i \in 1..1 + Len(v) : y[i] = IF i <= 1 THEN A[i] ELSE v[i - 1]
  <2>1. A \in Seq(S) /\ v \in Seq(S)
    BY <1>1, <1>2
  <2>2. y \in Seq(S) /\ Len(y) = Len(A) + Len(v)
    BY <2>1, ConcatProperties
  <2>3. \A i \in 1..Len(A) + Len(v) : y[i] = IF i <= Len(A) THEN A[i] ELSE v[i - Len(A)]
    BY <2>1, ConcatProperties
  <2> QED BY <1>1, <2>2, <2>3
<1> HIDE DEF x, y
<1>5. Len(u) \in Nat /\ Len(r) \in Nat /\ Len(s) \in Nat
  OBVIOUS
<1>6. Len(x) = Len(y) /\ Len(x) \in Nat
  BY <1>2, <1>3, <1>4, <1>5, <1>a
<1>7. ASSUME NEW i \in 1..Len(x) PROVE x[i] = y[i]
  <2>1. CASE i = 1
    BY <1>1, <1>3, <1>4, <1>5, <1>2, <1>a, <2>1
  <2>2. CASE i # 1
    <3>1. i - 1 \in 1..Len(u) + Len(r) /\ y[i] = v[i - 1]
      BY <1>2, <1>3, <1>4, <1>5, <1>6, <1>a, <2>2
    <3>2. CASE i <= Len(s)
      <4>1. i - 1 \in 1..Len(u) /\ s[(i - 1) + 1] = u[i - 1] /\ (i - 1) + 1 = i
        BY <1>5, <1>a, <2>2, <3>2
      <4>2. v[i - 1] = u[i - 1]
        BY <1>2, <1>5, <3>1, <4>1
      <4>3. x[i] = s[i]
        BY <1>3, <1>5, <3>2
      <4> QED BY <3>1, <4>1, <4>2, <4>3
    <3>3. CASE i > Len(s)
      <4>1. v[i - 1] = r[(i - 1) - Len(u)] /\ (i - 1) - Len(u) = i - Len(s)
        BY <1>2, <1>5, <1>a, <3>1, <3>3
      <4>2. x[i] = r[i - Len(s)]
        BY <1>3, <1>5, <3>3
      <4> QED BY <3>1, <4>1, <4>2
    <3> QED BY <1>5, <3>2, <3>3
  <2> QED BY <2>1, <2>2
<1>8. x = y
  BY <1>3, <1>4, <1>6, <1>7, SeqEqual
<1> QED BY <1>2, <1>8 DEF Cons, A, v, x, y

\* Several symbols on a goal.
LEMMA ConsTwo ==
    ASSUME NEW S, NEW r \in Seq(S), NEW x \in S, NEW y \in S
    PROVE  <<x, y>> \o r = Cons(x, <<y>> \o r)
<1> DEFINE s == <<x, y>>
           u == <<y>>
<1>1. s \in Seq(S) /\ u \in Seq(S) /\ Starts(s, x, u)
  BY DEF Starts
<1> HIDE DEF s, u
<1>2. s \o r = Cons(x, u \o r)
  BY <1>1, FrontCons
<1> QED BY <1>2, Zenon DEF s, u

LEMMA ConsThree ==
    ASSUME NEW S, NEW r \in Seq(S), NEW x \in S, NEW y \in S, NEW z \in S
    PROVE  <<x, y, z>> \o r = Cons(x, <<y, z>> \o r)
<1> DEFINE s == <<x, y, z>>
           u == <<y, z>>
<1>1. s \in Seq(S) /\ u \in Seq(S) /\ Starts(s, x, u)
  BY DEF Starts
<1> HIDE DEF s, u
<1>2. s \o r = Cons(x, u \o r)
  BY <1>1, FrontCons
<1> QED BY <1>2, Zenon DEF s, u

LEMMA GoodIn ==
    ASSUME NEW r, NEW end, Good(r, end), NEW a, NEW b, NEW c, NEW d
    PROVE  \E S : r \in Seq(S) /\ a \in S /\ b \in S /\ c \in S /\ d \in S
<1> DEFINE T == {r[i] : i \in 1..Len(r)}
<1>1. r \in Seq(T)
  BY DEF Good
<1> HIDE DEF T
<1>2. r \in Seq(T \cup {a, b, c, d})
  BY <1>1
<1> QED BY <1>2

LEMMA ConsPair ==
    ASSUME NEW r, NEW end, Good(r, end), NEW a, NEW b
    PROVE  <<a, b>> \o r = Cons(a, Cons(b, r))
<1>1. PICK S : r \in Seq(S) /\ a \in S /\ b \in S
  BY GoodIn
<1>2. <<a, b>> \o r = Cons(a, <<b>> \o r)
  BY <1>1, ConsTwo
<1> QED BY <1>2, Zenon DEF Cons

LEMMA ConsTriple ==
    ASSUME NEW r, NEW end, Good(r, end), NEW a, NEW b, NEW c
    PROVE  <<a, b, c>> \o r = Cons(a, Cons(b, Cons(c, r)))
<1>1. PICK S : r \in Seq(S) /\ a \in S /\ b \in S /\ c \in S
  BY GoodIn
<1>2. <<a, b, c>> \o r = Cons(a, <<b, c>> \o r)
  BY <1>1, ConsThree
<1> QED BY <1>2, ConsPair, Zenon

LEMMA ConsFour ==
    ASSUME NEW r, NEW end, Good(r, end), NEW a, NEW b, NEW c, NEW d
    PROVE  <<a, b, c, d>> \o r = Cons(a, Cons(b, Cons(c, Cons(d, r))))
<1>1. PICK S : r \in Seq(S) /\ a \in S /\ b \in S /\ c \in S /\ d \in S
  BY GoodIn
<1> DEFINE s == <<a, b, c, d>>
           u == <<b, c, d>>
<1>2. s \in Seq(S) /\ u \in Seq(S) /\ a \in S /\ Starts(s, a, u)
  BY <1>1 DEF Starts
<1> HIDE DEF s, u
<1>3. s \o r = Cons(a, u \o r)
  BY <1>1, <1>2, FrontCons
<1>4. u \o r = Cons(b, Cons(c, Cons(d, r)))
  BY ConsTriple DEF u
<1> QED BY <1>3, <1>4, Zenon DEF s

-----------------------------------------------------------------------------
(***************************************************************************)
(* What is left of a goal when the document goes on with token t, for each *)
(* symbol a goal of a document that fits the schema can start with.        *)
(***************************************************************************)
Step(g, t) == {s \o Tail(g) : s \in Expand(Head(g), t)}

\* A oneof object after its brace: the discriminator first, or behind another member.
TagFirst(o, v, r) ==
    Cons(Tok(TagKey), Cons(Tok(":"), Cons(Tok(v), Cons(Sym("more", "struct", Variants[o][v]), r))))
TagSecond(o, v, r) ==
    Cons(Tok(Stray), Cons(Tok(":"), Cons(Sym("val", "any", "any"), Cons(Tok(","), TagFirst(o, v, r)))))

\* What follows an element of a fixed-size array that n more are to follow.
FixedTail(e, n, r) ==
    IF n = 0 THEN Cons(Tok("]"), r) ELSE Cons(Tok(","), FixedArray(e, n) \o r)

\* What follows a member name.
MemberRest(c, e, key, r) ==
    Cons(Tok(":"), Cons(MemberValue(c, e, key), Cons(Sym("more", c, e), r)))

\* A value and the rest of the array it is an element of.
ElementRest(c, e, r) == Cons(Sym("val", c, e), Cons(Sym("rest", c, e), r))

LEMMA StepFront ==
    ASSUME NEW sym, NEW r, NEW end, Good(r, end), NEW t, NEW h \in Step(Cons(sym, r), t)
    PROVE  \E s \in Expand(sym, t) : h = s \o r
BY ConsFacts DEF Step

LEMMA StepTok ==
    ASSUME NEW u, NEW r, NEW end, Good(r, end), NEW t, NEW h \in Step(Cons(Tok(u), r), t)
    PROVE  t = u /\ h = r
<1>1. PICK s \in Expand(Tok(u), t) : h = s \o r
  BY StepFront
<1>2. t = u /\ s = <<>>
  BY <1>1 DEF Expand, Tok, Sym
<1> QED BY <1>1, <1>2, ConsFacts

LEMMA MemberCons ==
    ASSUME NEW c, NEW e, NEW key, NEW r, NEW end, Good(r, end)
    PROVE  Member(c, e, key) \o r = MemberRest(c, e, key, r)
BY ConsTriple DEF Member, MemberRest

LEMMA StepOpen ==
    ASSUME NEW c, NEW e, NEW r, NEW end, Good(r, end), NEW t,
           NEW h \in Step(Cons(Sym("open", c, e), r), t)
    PROVE  (t = "}" /\ h = r) \/ (IsString(t) /\ h = MemberRest(c, e, t, r))
<1>1. PICK s \in Expand(Sym("open", c, e), t) : h = s \o r
  BY StepFront
<1>2. (t = "}" /\ s = <<>>) \/ (IsString(t) /\ s = Member(c, e, t))
  BY <1>1 DEF Expand, Sym
<1>3. <<>> \o r = r
  BY ConsFacts
<1>4. Member(c, e, t) \o r = MemberRest(c, e, t, r)
  BY MemberCons
<1> QED BY <1>1, <1>2, <1>3, <1>4

LEMMA StepMore ==
    ASSUME NEW c, NEW e, NEW r, NEW end, Good(r, end), NEW t,
           NEW h \in Step(Cons(Sym("more", c, e), r), t)
    PROVE  (t = "}" /\ h = r) \/ (t = "," /\ h = Cons(Sym("key", c, e), r))
<1>1. PICK s \in Expand(Sym("more", c, e), t) : h = s \o r
  BY StepFront
<1>2. (t = "}" /\ s = <<>>) \/ (t = "," /\ s = <<Sym("key", c, e)>>)
  BY <1>1 DEF Expand, Sym
<1> QED BY <1>1, <1>2, ConsFacts DEF Cons

LEMMA StepKey ==
    ASSUME NEW c, NEW e, NEW r, NEW end, Good(r, end), NEW t,
           NEW h \in Step(Cons(Sym("key", c, e), r), t)
    PROVE  IsString(t) /\ h = MemberRest(c, e, t, r)
<1>1. PICK s \in Expand(Sym("key", c, e), t) : h = s \o r
  BY StepFront
<1>2. IsString(t) /\ s = Member(c, e, t)
  BY <1>1 DEF Expand, Sym
<1> QED BY <1>1, <1>2, MemberCons

LEMMA StepRest ==
    ASSUME NEW c, NEW e, NEW r, NEW end, Good(r, end), NEW t,
           NEW h \in Step(Cons(Sym("rest", c, e), r), t)
    PROVE  \/ t = "]" /\ h = r
           \/ t = "," /\ h = ElementRest(c, e, r)
<1>1. PICK s \in Expand(Sym("rest", c, e), t) : h = s \o r
  BY StepFront
<1>2. (t = "]" /\ s = <<>>) \/ (t = "," /\ s = <<Sym("val", c, e), Sym("rest", c, e)>>)
  BY <1>1 DEF Expand, Sym
<1>3. <<Sym("val", c, e), Sym("rest", c, e)>> \o r
        = ElementRest(c, e, r)
  BY ConsPair DEF ElementRest
<1> QED BY <1>1, <1>2, <1>3, ConsFacts

LEMMA StepEnd ==
    ASSUME NEW form, NEW x, NEW t
    PROVE  Step(<<Sym("end", form, x)>>, t) = {}
<1>1. Expand(Sym("end", form, x), t) = {}
  BY DEF Expand, Sym
<1> DEFINE a == Sym("end", form, x)
<1>2. Head(<<a>>) = a
  OBVIOUS
<1> HIDE DEF a
<1>3. Expand(Head(<<a>>), t) = {}
  BY <1>1, <1>2 DEF a
<1>4. Step(<<a>>, t) = {}
  BY <1>3 DEF Step
<1> QED BY <1>4 DEF a

\* The values, by their kind.
LEMMA StepScalar ==
    ASSUME NEW e \in Scalar, NEW r, NEW end, Good(r, end), NEW t,
           NEW h \in Step(Cons(Sym("val", "one", e), r), t)
    PROVE  ScalarCode(e, t) = 0 /\ h = r
<1>1. PICK s \in Expand(Sym("val", "one", e), t) : h = s \o r
  BY StepFront
<1>2. s \in Value("one", e, t)
  BY <1>1 DEF Expand, Sym
<1>3. s \in OneValue(e, t)
  BY <1>2 DEF Value
<1>4. ScalarCode(e, t) = 0 /\ s = <<>>
  BY <1>3 DEF OneValue
<1> QED BY <1>1, <1>4, ConsFacts

LEMMA StepAny ==
    ASSUME NEW r, NEW end, Good(r, end), NEW t,
           NEW h \in Step(Cons(Sym("val", "any", "any"), r), t)
    PROVE  \/ (t \in Literal \/ IsString(t)) /\ h = r
           \/ t = "{" /\ h = Cons(Sym("open", "any", "any"), r)
           \/ t = "[" /\ h = Cons(Sym("first", "any", "any"), r)
<1>1. PICK s \in Expand(Sym("val", "any", "any"), t) : h = s \o r
  BY StepFront
<1>2. s \in Value("any", "any", t)
  BY <1>1 DEF Expand, Sym
<1>3. s \in OneValue("any", t)
  BY <1>2 DEF Value
<1>4. \/ (t \in Literal \/ IsString(t)) /\ s = <<>>
      \/ t = "{" /\ s = <<Sym("open", "any", "any")>>
      \/ t = "[" /\ s = <<Sym("first", "any", "any")>>
  BY <1>3 DEF OneValue, Scalar
<1>5. <<>> \o r = r
  BY ConsFacts
<1> QED BY <1>1, <1>4, <1>5 DEF Cons

LEMMA StepStruct ==
    ASSUME NEW e \in DOMAIN Index, e # "any", NEW r, NEW end, Good(r, end), NEW t,
           NEW h \in Step(Cons(Sym("val", "one", e), r), t)
    PROVE  t = "{" /\ h = Cons(Sym("open", "struct", e), r)
<1>1. PICK s \in Expand(Sym("val", "one", e), t) : h = s \o r
  BY StepFront
<1>2. s \in Value("one", e, t)
  BY <1>1 DEF Expand, Sym
<1>3. s \in OneValue(e, t)
  BY <1>2 DEF Value
<1>4. e \notin Scalar
  BY IndexFacts
<1>5. t = "{" /\ s = <<Sym("open", "struct", e)>>
  BY <1>3, <1>4 DEF OneValue, IsStruct
<1> QED BY <1>1, <1>5 DEF Cons

LEMMA TagFirstFacts ==
    ASSUME NEW o, NEW v, NEW r, NEW end, Good(r, end)
    PROVE  /\ <<Tok(TagKey), Tok(":"), Tok(v), Sym("more", "struct", Variants[o][v])>> \o r
                = TagFirst(o, v, r)
           /\ Good(TagFirst(o, v, r), end)
<1>1. Good(TagFirst(o, v, r), end)
  BY ConsFacts DEF TagFirst
<1> QED BY <1>1, ConsFour DEF TagFirst

LEMMA TaggedCons ==
    ASSUME NEW o, NEW v, NEW r, NEW end, Good(r, end), NEW s \in Tagged(o, v)
    PROVE  s \o r \in {TagFirst(o, v, r), TagSecond(o, v, r)}
<1> DEFINE a == Tok(TagKey)
           b == Tok(":")
           c == Tok(v)
           d == Sym("more", "struct", Variants[o][v])
           x == Tok(Stray)
           y == Sym("val", "any", "any")
           z == Tok(",")
           tagged == <<a, b, c, d>>
           front == <<x, b, y, z>>
<1>1. s = tagged \/ s = front \o tagged
  BY DEF Tagged
<1>2. tagged \o r = TagFirst(o, v, r) /\ Good(TagFirst(o, v, r), end)
  BY TagFirstFacts
<1>3. CASE s = front \o tagged
  <2>1. PICK S : r \in Seq(S) /\ a \in S /\ b \in S /\ c \in S /\ d \in S
    BY GoodIn
  <2> DEFINE T == S \cup {x, y, z}
  <2>2. r \in Seq(T) /\ tagged \in Seq(T) /\ front \in Seq(T)
    <3>1. a \in T /\ b \in T /\ c \in T /\ d \in T /\ x \in T /\ y \in T /\ z \in T
      BY <2>1
    <3>2. S \subseteq T
      OBVIOUS
    <3> HIDE DEF T, a, b, c, d, x, y, z
    <3> QED BY <2>1, <3>1, <3>2
  <2> HIDE DEF T, tagged, front
  <2>3. s \o r = front \o (tagged \o r)
    BY <1>3, <2>2, ConcatAssociative
  <2>4. front \o TagFirst(o, v, r) = Cons(x, Cons(b, Cons(y, Cons(z, TagFirst(o, v, r)))))
    <3> DEFINE w == TagFirst(o, v, r)
    <3> HIDE DEF x, b, y, z, w
    <3>1. Good(w, end)
      BY <1>2 DEF w
    <3>2. <<x, b, y, z>> \o w = Cons(x, Cons(b, Cons(y, Cons(z, w))))
      BY <3>1, ConsFour
    <3> QED BY <3>2, Zenon DEF front, w
  <2>5. front \o TagFirst(o, v, r) = TagSecond(o, v, r)
    BY <2>4, Zenon DEF TagSecond
  <2> QED BY <1>2, <2>3, <2>5
<1> QED BY <1>1, <1>2, <1>3

LEMMA StepOneof ==
    ASSUME NEW e \in DOMAIN Variants, e # "any", NEW r, NEW end, Good(r, end), NEW t,
           NEW h \in Step(Cons(Sym("val", "one", e), r), t)
    PROVE  t = "{" /\ \E v \in DOMAIN Variants[e] : h \in {TagFirst(e, v, r), TagSecond(e, v, r)}
<1>1. PICK s \in Expand(Sym("val", "one", e), t) : h = s \o r
  BY StepFront
<1>2. s \in Value("one", e, t)
  BY <1>1 DEF Expand, Sym
<1>3. s \in OneValue(e, t)
  BY <1>2 DEF Value
<1>4. e \notin Scalar /\ e \notin DOMAIN Index
  BY IndexFacts
<1>5. t = "{" /\ \E v \in DOMAIN Variants[e] : s \in Tagged(e, v)
  BY <1>3, <1>4 DEF OneValue, IsStruct
<1> QED BY <1>1, <1>5, TaggedCons

LEMMA StepMap ==
    ASSUME NEW e, NEW r, NEW end, Good(r, end), NEW t,
           NEW h \in Step(Cons(Sym("val", "map", e), r), t)
    PROVE  t = "{" /\ h = Cons(Sym("open", "map", e), r)
<1>1. PICK s \in Expand(Sym("val", "map", e), t) : h = s \o r
  BY StepFront
<1>2. s \in Value("map", e, t)
  BY <1>1 DEF Expand, Sym
<1>3. t = "{" /\ s = <<Sym("open", "map", e)>>
  BY <1>2 DEF Value
<1> QED BY <1>1, <1>3 DEF Cons

LEMMA StepArray ==
    ASSUME NEW e, NEW r, NEW end, Good(r, end), NEW t,
           NEW h \in Step(Cons(Sym("val", "array", e), r), t)
    PROVE  t = "[" /\ h = Cons(Sym("first", "one", e), r)
<1>1. PICK s \in Expand(Sym("val", "array", e), t) : h = s \o r
  BY StepFront
<1>2. s \in Value("array", e, t)
  BY <1>1 DEF Expand, Sym
<1>3. t = "[" /\ s = <<Sym("first", "one", e)>>
  BY <1>2 DEF Value
<1> QED BY <1>1, <1>3 DEF Cons

LEMMA StepMaps ==
    ASSUME NEW e, NEW r, NEW end, Good(r, end), NEW t,
           NEW h \in Step(Cons(Sym("val", "maps", e), r), t)
    PROVE  t = "[" /\ h = Cons(Sym("first", "map", e), r)
<1>1. PICK s \in Expand(Sym("val", "maps", e), t) : h = s \o r
  BY StepFront
<1>2. s \in Value("maps", e, t)
  BY <1>1 DEF Expand, Sym
<1>3. t = "[" /\ s = <<Sym("first", "map", e)>>
  BY <1>2 DEF Value
<1> QED BY <1>1, <1>3 DEF Cons

LEMMA StepFixed ==
    ASSUME NEW e, NEW r, NEW end, Good(r, end), NEW t,
           NEW h \in Step(Cons(Sym("val", "fixed", e), r), t)
    PROVE  /\ t = "["
           /\ h = Cons(Tok("]"), r) \/ \E n \in 1..FixedSize : h = FixedArray(e, n) \o r
<1>1. PICK s \in Expand(Sym("val", "fixed", e), t) : h = s \o r
  BY StepFront
<1>2. s \in Value("fixed", e, t)
  BY <1>1 DEF Expand, Sym
<1>3. t = "[" /\ (s = <<Tok("]")>> \/ \E n \in 1..FixedSize : s = FixedArray(e, n))
  BY <1>2 DEF Value
<1> QED BY <1>1, <1>3 DEF Cons

\* "null" where the schema allows it is all of a value.
LEMMA StepNullable ==
    ASSUME NEW c \in {"one", "array", "fixed", "map", "maps"}, NEW e, e # "any",
           NEW r, NEW end, Good(r, end), NEW t,
           NEW h \in Step(Cons(Sym("nullable", c, e), r), t)
    PROVE  IF t = "null" THEN h = r ELSE h \in Step(Cons(Sym("val", c, e), r), t)
<1>1. PICK s \in Expand(Sym("nullable", c, e), t) : h = s \o r
  BY StepFront
<1>2. s \in Value(c, e, t) \/ (t = "null" /\ s = <<>>)
  BY <1>1 DEF Expand, Sym
<1>3. t = "null" => s = <<>>
  BY <1>2 DEF Value, OneValue
<1>4. t # "null" => s \in Expand(Sym("val", c, e), t)
  BY <1>2 DEF Expand, Sym
<1>5. Head(Cons(Sym("val", c, e), r)) = Sym("val", c, e) /\ Tail(Cons(Sym("val", c, e), r)) = r
  BY ConsFacts
<1> QED BY <1>1, <1>3, <1>4, <1>5, ConsFacts DEF Step

LEMMA Rebracket ==
    ASSUME NEW S, NEW T, NEW u \in Seq(S), NEW v \in Seq(T), NEW w \in Seq(T)
    PROVE  (u \o v) \o w = u \o (v \o w)
<1> DEFINE U == S \cup T
<1>1. u \in Seq(U) /\ v \in Seq(U) /\ w \in Seq(U)
  <2>1. S \subseteq U /\ T \subseteq U
    OBVIOUS
  <2> HIDE DEF U
  <2> QED BY <2>1
<1> HIDE DEF U
<1> QED BY <1>1, ConcatAssociative, SMTT(30)

\* The first element of an array is a value before the rest of the array.
LEMMA StepFirst ==
    ASSUME NEW c \in {"one", "any", "map"}, NEW e, NEW r, NEW end, Good(r, end), NEW t,
           NEW h \in Step(Cons(Sym("first", c, e), r), t)
    PROVE  \/ t = "]" /\ h = r
           \/ t # "]" /\ h \in Step(ElementRest(c, e, r), t)
<1>1. PICK s \in Expand(Sym("first", c, e), t) : h = s \o r
  BY StepFront
<1>2. CASE t = "]"
  <2>1. s = <<>>
    BY <1>1, <1>2 DEF Expand, Sym
  <2> QED BY <1>1, <1>2, <2>1, ConsFacts
<1>3. CASE t # "]"
  <2> DEFINE a == Sym("rest", c, e)
  <2>1. PICK u \in Value(c, e, t) : s = u \o <<a>>
    BY <1>1, <1>3 DEF Expand, Sym
  <2>2. \E S : u \in Seq(S)
    <3>1. c \in {"one", "any"} => u \in OneValue(e, t)
      BY <2>1 DEF Value
    <3>2. c = "map" => u = <<Sym("open", "map", e)>>
      BY <2>1 DEF Value
    <3>3. u \in OneValue(e, t) =>
             \/ u = <<>> \/ \E y : u = <<y>>
             \/ \E v \in DOMAIN Variants[e] : u \in Tagged(e, v)
      BY DEF OneValue
    <3>4. u = <<>> => u \in Seq({})
      OBVIOUS
    <3>5. ASSUME NEW y, u = <<y>> PROVE u \in Seq({y})
      BY <3>5
    <3>6. ASSUME NEW v, u \in Tagged(e, v) PROVE \E S : u \in Seq(S)
      <4> DEFINE p == Tok(TagKey)
                 q == Tok(":")
                 w == Tok(v)
                 z == Sym("more", "struct", Variants[e][v])
                 m == Tok(Stray)
                 n == Sym("val", "any", "any")
                 l == Tok(",")
                 S == {p, q, w, z, m, n, l}
                 tagged == <<p, q, w, z>>
                 front == <<m, q, n, l>>
      <4>1. u = tagged \/ u = front \o tagged
        BY <3>6 DEF Tagged
      <4>2. tagged \in Seq(S) /\ front \in Seq(S)
        <5>1. p \in S /\ q \in S /\ w \in S /\ z \in S /\ m \in S /\ n \in S /\ l \in S
          OBVIOUS
        <5> HIDE DEF S, p, q, w, z, m, n, l
        <5> QED BY <5>1
      <4> HIDE DEF S, tagged, front
      <4>a. front \o tagged \in Seq(S)
        BY <4>2, ConcatProperties
      <4>3. u \in Seq(S)
        BY <4>1, <4>2, <4>a
      <4> QED BY <4>3
    <3> QED BY <3>1, <3>2, <3>3, <3>4, <3>5, <3>6
  <2>3. PICK S : u \in Seq(S)
    BY <2>2
  <2>4. PICK T : r \in Seq(T) /\ a \in T
    BY GoodIn
  <2> DEFINE A == <<a>>
  <2>5. A \in Seq(T)
    <3> HIDE DEF a
    <3> QED BY <2>4
  <2> HIDE DEF A
  <2>6. (u \o A) \o r = u \o (A \o r)
    BY <2>3, <2>4, <2>5, Rebracket
  <2>7. h = u \o Cons(a, r)
    BY <1>1, <2>1, <2>6 DEF A, Cons
  <2>8. u \in Expand(Sym("val", c, e), t)
    BY <2>1 DEF Expand, Sym
  <2>9. Good(Cons(a, r), end)
    BY ConsFacts
  <2> HIDE DEF a
  <2>10. /\ Head(Cons(Sym("val", c, e), Cons(a, r))) = Sym("val", c, e)
         /\ Tail(Cons(Sym("val", c, e), Cons(a, r))) = Cons(a, r)
    BY <2>9, ConsFacts
  <2>11. h \in Step(Cons(Sym("val", c, e), Cons(a, r)), t)
    BY <2>7, <2>8, <2>10 DEF Step
  <2> QED BY <1>3, <2>11, Zenon DEF a, ElementRest
<1> QED BY <1>2, <1>3

-----------------------------------------------------------------------------
(***************************************************************************)
(* The tokens lexed and not consumed lead from the goal the parser has     *)
(* reached to the goal the document has reached.                           *)
(***************************************************************************)
Path(gs, a, g, end) ==
    /\ a \in Seq(Input) /\ gs[Len(a) + 1] = g
    /\ \A i \in 1..Len(a) + 1 : Good(gs[i], end)
    /\ \A i \in 1..Len(a) : a[i] # "eof" /\ gs[i + 1] \in Step(gs[i], a[i])

Leads(x, a, g, end) == \E gs : Path(gs, a, g, end) /\ gs[1] = x

LEMMA LeadsGood ==
    ASSUME NEW x, NEW a, NEW g, NEW end, Leads(x, a, g, end)
    PROVE  Good(x, end) /\ a \in Seq(Input)
<1>1. PICK gs : Path(gs, a, g, end) /\ gs[1] = x
  BY DEF Leads
<1>2. a \in Seq(Input) /\ Len(a) \in Nat
  BY <1>1 DEF Path
<1>3. 1 \in 1..Len(a) + 1
  BY <1>2
<1> QED BY <1>1, <1>2, <1>3 DEF Path

LEMMA PathGood ==
    ASSUME NEW gs, NEW a, NEW g, NEW end, Path(gs, a, g, end)
    PROVE  Good(g, end)
<1>1. a \in Seq(Input) /\ gs[Len(a) + 1] = g /\ \A i \in 1..Len(a) + 1 : Good(gs[i], end)
  BY DEF Path
<1>2. Len(a) + 1 \in 1..Len(a) + 1
  BY <1>1
<1> QED BY <1>1, <1>2

LEMMA LeadsNowhere ==
    ASSUME NEW x, NEW g, NEW end
    PROVE  Leads(x, <<>>, g, end) <=> x = g /\ Good(g, end)
<1>1. ASSUME Leads(x, <<>>, g, end) PROVE x = g /\ Good(g, end)
  <2>1. PICK gs : Path(gs, <<>>, g, end) /\ gs[1] = x
    BY <1>1 DEF Leads
  <2>2. gs[Len(<<>>) + 1] = g /\ Len(<<>>) = 0
    BY <2>1 DEF Path
  <2> QED BY <1>1, <2>1, <2>2, LeadsGood
<1>2. ASSUME x = g, Good(g, end) PROVE Leads(x, <<>>, g, end)
  <2> DEFINE gs == [i \in {1} |-> g]
  <2>1. gs[1] = x
    BY <1>2
  <2>2. Path(gs, <<>>, g, end)
    BY <1>2 DEF Path
  <2> HIDE DEF gs
  <2> QED BY <2>1, <2>2 DEF Leads
<1> QED BY <1>1, <1>2

LEMMA PathTail ==
    ASSUME NEW gs, NEW a, NEW g, NEW end, Path(gs, a, g, end), a # <<>>
    PROVE  Head(a) # "eof" /\ gs[2] \in Step(gs[1], Head(a)) /\ Leads(gs[2], Tail(a), g, end)
<1>2. a \in Seq(Input) /\ Len(a) \in Nat \ {0} /\ Head(a) = a[1]
  BY DEF Path
<1> DEFINE b == Tail(a)
           n == Len(a)
           hs == [i \in 1..n |-> gs[i + 1]]
<1>3. b \in Seq(Input) /\ Len(b) = n - 1 /\ \A i \in 1..n - 1 : b[i] = a[i + 1]
  BY <1>2
<1>4. Head(a) # "eof" /\ gs[2] \in Step(gs[1], Head(a)) /\ hs[1] = gs[2]
  BY <1>2 DEF Path
<1>5. /\ gs[n + 1] = g /\ \A i \in 1..n + 1 : Good(gs[i], end)
      /\ \A i \in 1..n : a[i] # "eof" /\ gs[i + 1] \in Step(gs[i], a[i])
  BY DEF Path
<1> HIDE DEF b
<1>6. Path(hs, b, g, end)
  <2>1. hs[Len(b) + 1] = g
    BY <1>2, <1>3, <1>5
  <2>2. \A i \in 1..Len(b) + 1 : Good(hs[i], end)
    BY <1>2, <1>3, <1>5
  <2>3. \A i \in 1..Len(b) : b[i] # "eof" /\ hs[i + 1] \in Step(hs[i], b[i])
    <3> TAKE i \in 1..Len(b)
    <3>1. i \in Nat /\ i + 1 \in 1..n /\ i \in 1..n /\ b[i] = a[i + 1]
      BY <1>2, <1>3
    <3>2. hs[i + 1] = gs[(i + 1) + 1] /\ hs[i] = gs[i + 1]
      BY <3>1
    <3> QED BY <1>5, <3>1, <3>2
  <2> HIDE DEF hs
  <2> QED BY <1>3, <2>1, <2>2, <2>3 DEF Path
<1> HIDE DEF hs
<1> QED BY <1>4, <1>6 DEF Leads, b

LEMMA LeadsTail ==
    ASSUME NEW x, NEW a, NEW g, NEW end, Leads(x, a, g, end), a # <<>>
    PROVE  Head(a) # "eof" /\ \E h \in Step(x, Head(a)) : Leads(h, Tail(a), g, end)
<1>1. PICK gs : Path(gs, a, g, end) /\ gs[1] = x
  BY DEF Leads
<1> QED BY <1>1, PathTail

LEMMA PathCons ==
    ASSUME NEW x, NEW end, Good(x, end), NEW a \in Seq(Input), a # <<>>,
           Head(a) # "eof", NEW h \in Step(x, Head(a)), NEW g, Leads(h, Tail(a), g, end)
    PROVE  \E gs : Path(gs, a, g, end) /\ gs[1] = x /\ gs[2] = h
<1> DEFINE b == Tail(a)
           n == Len(a)
<1>1. PICK hs : Path(hs, b, g, end) /\ hs[1] = h
  BY DEF Leads
<1>2. Len(a) \in Nat \ {0} /\ Head(a) = a[1]
  OBVIOUS
<1>3. b \in Seq(Input) /\ Len(b) = n - 1 /\ \A i \in 1..n - 1 : b[i] = a[i + 1]
  BY <1>2
<1> HIDE DEF b
<1>4. /\ hs[n] = g /\ \A i \in 1..n : Good(hs[i], end)
      /\ \A i \in 1..n - 1 : b[i] # "eof" /\ hs[i + 1] \in Step(hs[i], b[i])
  BY <1>1, <1>2, <1>3 DEF Path
<1> DEFINE gs == [i \in 1..n + 1 |-> IF i = 1 THEN x ELSE hs[i - 1]]
<1>5. gs[1] = x /\ \A i \in 1..n : gs[i + 1] = hs[i]
  BY <1>2
<1>6. Path(gs, a, g, end)
  <2>1. gs[n + 1] = g
    BY <1>2, <1>4, <1>5
  <2>2. \A i \in 1..n + 1 : Good(gs[i], end)
    BY <1>2, <1>4
  <2>3. \A i \in 1..n : a[i] # "eof" /\ gs[i + 1] \in Step(gs[i], a[i])
    <3> TAKE i \in 1..n
    <3>1. CASE i = 1
      BY <1>1, <1>2, <1>5, <3>1
    <3>2. CASE i # 1
      <4>1. i \in Nat /\ i - 1 \in 1..n - 1 /\ (i - 1) + 1 = i
        BY <1>2, <3>2
      <4>2. b[i - 1] # "eof" /\ hs[i] \in Step(hs[i - 1], b[i - 1]) /\ b[i - 1] = a[i]
        BY <1>3, <1>4, <4>1
      <4>3. gs[i + 1] = hs[i] /\ gs[i] = hs[i - 1]
        BY <1>2, <1>5, <3>2, <4>1
      <4> QED BY <4>2, <4>3
    <3> QED BY <3>1, <3>2
  <2> HIDE DEF gs
  <2> QED BY <2>1, <2>2, <2>3 DEF Path
<1>7. gs[2] = h
  BY <1>1, <1>2, <1>5
<1> HIDE DEF gs
<1> QED BY <1>5, <1>6, <1>7

LEMMA LeadsCons ==
    ASSUME NEW x, NEW end, Good(x, end), NEW a \in Seq(Input), a # <<>>,
           Head(a) # "eof", NEW h \in Step(x, Head(a)), NEW g, Leads(h, Tail(a), g, end)
    PROVE  Leads(x, a, g, end)
<1>1. PICK gs : Path(gs, a, g, end) /\ gs[1] = x /\ gs[2] = h
  BY PathCons
<1> QED BY <1>1, Zenon DEF Leads

LEMMA PathExtend ==
    ASSUME NEW gs, NEW a, NEW g, NEW end, Path(gs, a, g, end), NEW t \in Input, t # "eof",
           NEW h \in Step(g, t), Good(h, end)
    PROVE  \E hs : /\ Path(hs, Append(a, t), h, end)
                   /\ \A i \in 1..Len(a) + 1 : hs[i] = gs[i]
                   /\ hs[Len(a) + 2] = h
<1> DEFINE b == Append(a, t)
           n == Len(a)
           hs == [i \in 1..n + 2 |-> IF i <= n + 1 THEN gs[i] ELSE h]
<1>1. /\ a \in Seq(Input) /\ n \in Nat /\ gs[n + 1] = g
      /\ \A i \in 1..n + 1 : Good(gs[i], end)
      /\ \A i \in 1..n : a[i] # "eof" /\ gs[i + 1] \in Step(gs[i], a[i])
  BY DEF Path
<1>2. /\ b \in Seq(Input) /\ Len(b) = n + 1 /\ b[n + 1] = t
      /\ \A i \in 1..n : b[i] = a[i]
  BY <1>1
<1> HIDE DEF b
<1>3. (\A i \in 1..n + 1 : hs[i] = gs[i]) /\ hs[n + 2] = h
  BY <1>1
<1>4. Path(hs, b, h, end)
  <2>1. hs[Len(b) + 1] = h
    BY <1>1, <1>2, <1>3
  <2>2. \A i \in 1..Len(b) + 1 : Good(hs[i], end)
    BY <1>1, <1>2
  <2>3. \A i \in 1..Len(b) : b[i] # "eof" /\ hs[i + 1] \in Step(hs[i], b[i])
    <3> TAKE i \in 1..Len(b)
    <3>1. CASE i = n + 1
      <4>1. hs[i + 1] = h /\ hs[i] = g /\ b[i] = t
        BY <1>1, <1>2, <1>3, <3>1
      <4> QED BY <4>1
    <3>2. CASE i # n + 1
      <4>1. i \in 1..n /\ i + 1 \in 1..n + 1 /\ i \in 1..n + 1
        BY <1>1, <1>2, <3>2
      <4>2. hs[i + 1] = gs[i + 1] /\ hs[i] = gs[i] /\ b[i] = a[i]
        BY <1>2, <1>3, <4>1
      <4> QED BY <1>1, <4>1, <4>2
    <3> QED BY <3>1, <3>2
  <2> HIDE DEF hs
  <2> QED BY <1>2, <2>1, <2>2, <2>3 DEF Path
<1> HIDE DEF hs
<1> QED BY <1>3, <1>4 DEF b

\* The document has ended, at the goal x.
Ended(x, t) == t = "eof" /\ goal = x /\ goal' = CutShort(goal) /\ ahead' = ahead

LEMMA ProduceStep ==
    ASSUME NEW t, Produce(t)
    PROVE  goal' \in Step(goal, t)
BY DEF Produce, Step

LEMMA TakeStep ==
    ASSUME InputOK, NEW x, NEW end, Leads(x, ahead, goal, end), NEW t \in Input, Take(t)
    PROVE  \/ Ended(x, t) /\ ahead = <<>>
           \/ t # "eof" /\ \E h \in Step(x, t) :
                 t # "stuck" /\ Good(h, end) => Leads(h, ahead', goal', end)
<1>1. CASE ahead # <<>>
  <2>1. /\ t = Head(ahead) /\ goal' = goal
        /\ t # "stuck" => ahead' = Tail(ahead)
    BY <1>1 DEF Take
  <2>2. Head(ahead) # "eof" /\ \E h \in Step(x, Head(ahead)) : Leads(h, Tail(ahead), goal, end)
    BY <1>1, LeadsTail
  <2> QED BY <2>1, <2>2
<1>2. CASE ahead = <<>>
  <2>1. x = goal
    BY <1>2, LeadsNowhere
  <2>2. CASE t = "eof"
    BY <1>2, <2>1, <2>2 DEF Take, Lex, Ended
  <2>3. CASE t # "eof"
    <3>1. goal' \in Step(goal, t) /\ (t # "stuck" => ahead' = <<>>)
      BY <1>2, <2>3, ProduceStep DEF Take, Lex
    <3>2. t # "stuck" /\ Good(goal', end) => Leads(goal', ahead', goal', end)
      BY <3>1, LeadsNowhere
    <3> QED BY <2>1, <2>3, <3>1, <3>2
  <2> QED BY <2>2, <2>3
<1> QED BY <1>1, <1>2

LEMMA PeekStep ==
    ASSUME InputOK, NEW x, NEW end, Leads(x, ahead, goal, end), NEW t \in Input, Peek(0, t)
    PROVE  \/ Ended(x, t) /\ ahead = <<>>
           \/ t # "eof" /\ \E h \in Step(x, t) :
                 /\ ahead' \in Seq(Input) /\ ahead' # <<>> /\ Head(ahead') = t
                 /\ Good(h, end) => Leads(h, Tail(ahead'), goal', end)
<1>1. ahead \in Seq(Input) /\ Len(ahead) \in Nat
  BY DEF InputOK
<1>2. CASE ahead # <<>>
  <2>1. 0 < Len(ahead)
    BY <1>1, <1>2
  <2>2. t = Head(ahead) /\ goal' = goal /\ ahead' = ahead
    BY <1>1, <2>1 DEF Peek
  <2>3. Head(ahead) # "eof" /\ \E h \in Step(x, Head(ahead)) : Leads(h, Tail(ahead), goal, end)
    BY <1>2, LeadsTail
  <2> QED BY <1>1, <1>2, <2>2, <2>3
<1>3. CASE ahead = <<>>
  <2>1. x = goal
    BY <1>3, LeadsNowhere
  <2>2. Lex(t)
    BY <1>3 DEF Peek
  <2>3. CASE t = "eof"
    BY <1>3, <2>1, <2>2, <2>3 DEF Lex, Ended
  <2>4. CASE t # "eof"
    <3>1. goal' \in Step(goal, t) /\ ahead' = Append(ahead, t)
      BY <2>2, <2>4, ProduceStep DEF Lex
    <3>2. ahead' = <<t>>
      BY <1>3, <3>1
    <3>3. ahead' \in Seq(Input) /\ ahead' # <<>> /\ Head(ahead') = t /\ Tail(ahead') = <<>>
      BY <3>2
    <3>4. Good(goal', end) => Leads(goal', <<>>, goal', end)
      BY LeadsNowhere
    <3> QED BY <2>1, <2>4, <3>1, <3>3, <3>4
  <2> QED BY <2>3, <2>4
<1> QED BY <1>2, <1>3

\* Looking n tokens ahead makes the path longer and changes nothing of it.
Longer(gs, n, h, t, end) ==
    \E hs : /\ Path(hs, ahead', goal', end) /\ n + 1 <= Len(ahead')
            /\ \A i \in 1..n + 1 : hs[i] = gs[i]
            /\ hs[n + 2] = h
            /\ \A i \in 1..n : ahead'[i] = ahead[i]
            /\ ahead'[n + 1] = t

LEMMA PeekPath ==
    ASSUME InputOK, NEW gs, NEW end, Path(gs, ahead, goal, end),
           NEW n \in 0..Len(ahead), NEW t \in Input, Peek(n, t)
    PROVE  \/ Ended(gs[n + 1], t) /\ n = Len(ahead)
           \/ t # "eof" /\ \E h \in Step(gs[n + 1], t) : Good(h, end) => Longer(gs, n, h, t, end)
<1>1. ahead \in Seq(Input) /\ Len(ahead) \in Nat /\ n \in Nat
  BY DEF InputOK
<1>2. CASE n < Len(ahead)
  <2>1. t = ahead[n + 1] /\ ahead' = ahead /\ goal' = goal
    BY <1>2 DEF Peek
  <2>2. n + 1 \in 1..Len(ahead) /\ n + 2 = (n + 1) + 1
    BY <1>1, <1>2
  <2>3. t # "eof" /\ gs[n + 2] \in Step(gs[n + 1], t)
    <3>1. ahead[n + 1] # "eof" /\ gs[(n + 1) + 1] \in Step(gs[n + 1], ahead[n + 1])
      BY <2>2 DEF Path
    <3> QED BY <2>1, <2>2, <3>1
  <2>4. /\ Path(gs, ahead', goal', end) /\ n + 1 <= Len(ahead')
        /\ \A i \in 1..n + 1 : gs[i] = gs[i]
        /\ \A i \in 1..n : ahead'[i] = ahead[i]
        /\ ahead'[n + 1] = t
    BY <1>1, <1>2, <2>1
  <2> QED BY <2>3, <2>4, Zenon DEF Longer
<1>3. CASE n = Len(ahead)
  <2>1. Lex(t)
    BY <1>1, <1>3 DEF Peek
  <2>2. goal = gs[n + 1]
    BY <1>3 DEF Path
  <2>3. CASE t = "eof"
    BY <1>3, <2>1, <2>2, <2>3 DEF Lex, Ended
  <2>4. CASE t # "eof"
    <3>1. goal' \in Step(goal, t) /\ ahead' = Append(ahead, t)
      BY <2>1, <2>4, ProduceStep DEF Lex
    <3>2. /\ Len(ahead') = n + 1 /\ ahead'[n + 1] = t
          /\ \A i \in 1..n : ahead'[i] = ahead[i]
      BY <1>1, <1>3, <3>1
    <3>3. ASSUME Good(goal', end)
          PROVE  \E hs : /\ Path(hs, ahead', goal', end)
                         /\ \A i \in 1..n + 1 : hs[i] = gs[i]
                         /\ hs[n + 2] = goal'
      BY <1>3, <2>4, <3>1, <3>3, PathExtend
    <3>4. n + 1 <= Len(ahead')
      BY <1>1, <3>2
    <3> QED BY <2>2, <2>4, <3>1, <3>2, <3>3, <3>4 DEF Longer
  <2> QED BY <2>3, <2>4
<1> QED BY <1>1, <1>2, <1>3

-----------------------------------------------------------------------------
(***************************************************************************)
(* The elements of a fixed-size array, one at a time.                      *)
(***************************************************************************)
LEMMA ConcatGood ==
    ASSUME NEW S, NEW w \in Seq(S), NEW r \in Seq(S), NEW end, Good(r, end)
    PROVE  Good(w \o r, end)
<1> DEFINE v == w \o r
<1>1. Len(r) \in Nat \ {0} /\ r[Len(r)] = end /\ Len(w) \in Nat
  BY DEF Good
<1>2. v \in Seq(S) /\ Len(v) = Len(w) + Len(r) /\ v[Len(w) + Len(r)] = r[Len(r)]
  BY <1>1
<1> HIDE DEF v
<1>3. v # <<>> /\ v[Len(v)] = end
  BY <1>1, <1>2
<1> QED BY <1>2, <1>3, SeqGood DEF v

LEMMA FixedCons ==
    ASSUME NEW e, NEW n \in Nat, NEW r, NEW end, Good(r, end)
    PROVE  /\ FixedArray(e, n + 1) \o r = Cons(Sym("val", "one", e), FixedTail(e, n, r))
           /\ Good(FixedTail(e, n, r), end)
<1> DEFINE a == Sym("val", "one", e)
           b == Tok(",")
           c == Tok("]")
           sep == IF n = 0 THEN c ELSE b
           s == FixedArray(e, n + 1)
           u == [i \in 1..2 * n + 1 |-> IF i % 2 = 0 THEN a ELSE IF i = 2 * n + 1 THEN c ELSE b]
           w == FixedArray(e, n)
<1>1. PICK S : r \in Seq(S) /\ a \in S /\ b \in S /\ c \in S
  BY GoodIn
<1> HIDE DEF a, b, c
<1>2. s = [i \in 1..2 * n + 2 |-> IF i % 2 = 1 THEN a ELSE IF i = 2 * n + 2 THEN c ELSE b]
  <2>1. 2 * (n + 1) = 2 * n + 2
    OBVIOUS
  <2>2. s = [i \in 1..2 * n + 2 |-> IF i % 2 = 1 THEN a
                                   ELSE Tok(IF i = 2 * n + 2 THEN "]" ELSE ",")]
    BY <2>1, Zenon DEF FixedArray, a
  <2>3. \A i : Tok(IF i = 2 * n + 2 THEN "]" ELSE ",") = IF i = 2 * n + 2 THEN c ELSE b
    BY DEF b, c
  <2> QED BY <2>2, <2>3, Zenon
<1>3. w = [i \in 1..2 * n |-> IF i % 2 = 1 THEN a ELSE IF i = 2 * n THEN c ELSE b]
  BY DEF FixedArray, a, b, c
<1> HIDE DEF s, w
<1>4. s \in Seq(S) /\ Len(s) = 2 * n + 2
  BY <1>1, <1>2
<1>5. u \in Seq(S) /\ Len(u) = 2 * n + 1
  BY <1>1
<1>6. w \in Seq(S) /\ Len(w) = 2 * n
  BY <1>1, <1>3
<1>7. Starts(s, a, u)
  <2>1. s[1] = a
    BY <1>2
  <2>2. \A i \in 1..2 * n + 1 : s[i + 1] = u[i]
    <3> TAKE i \in 1..2 * n + 1
    <3>1. i \in Nat /\ (i + 1) % 2 = 1 <=> i % 2 = 0
      OBVIOUS
    <3> QED BY <1>2, <3>1
  <2> QED BY <1>4, <1>5, <2>1, <2>2 DEF Starts
<1>8. Starts(u, sep, w)
  <2>1. u[1] = sep
    OBVIOUS
  <2>2. \A i \in 1..2 * n : u[i + 1] = w[i]
    <3> TAKE i \in 1..2 * n
    <3>1. i \in Nat /\ (i + 1) % 2 = 0 <=> i % 2 = 1
      OBVIOUS
    <3> QED BY <1>3, <3>1
  <2> QED BY <1>5, <1>6, <2>1, <2>2 DEF Starts
<1>9. sep \in S
  BY <1>1
<1> HIDE DEF sep, u
<1>10. s \o r = Cons(a, u \o r)
  BY <1>1, <1>4, <1>5, <1>7, FrontCons
<1>11. u \o r = Cons(sep, w \o r)
  BY <1>1, <1>5, <1>6, <1>8, <1>9, FrontCons
<1>12. n = 0 => w \o r = r
  <2>1. n = 0 => w = <<>>
    BY <1>6
  <2> QED BY <2>1, ConsFacts
<1>13. u \o r = FixedTail(e, n, r)
  BY <1>11, <1>12 DEF FixedTail, sep, w, b, c
<1>14. Good(u \o r, end)
  BY <1>1, <1>5, ConcatGood
<1> QED BY <1>10, <1>13, <1>14 DEF s, a

-----------------------------------------------------------------------------
(***************************************************************************)
(* A value that is being skipped: what is left of the goal stands on what  *)
(* follows the value in blocks, each of which will close some braces and   *)
(* brackets; together they close what json_unmarshal_ignore_value counts.  *)
(***************************************************************************)
Typed(k, e) ==
    /\ k \in {"one", "array", "fixed", "map", "maps"}
    /\ e \in Scalar \cup DOMAIN Index \cup DOMAIN Variants
    /\ k \in {"map", "maps"} => e \notin DOMAIN Variants
Valued(a) ==
    \/ a = Sym("val", "any", "any")
    \/ \E k, e : Typed(k, e) /\ (a = Sym("val", k, e) \/ a = Sym("nullable", k, e))
Skippable(a) == Valued(a) \/ \E v : IsString(v) /\ a = Tok(v)

\* Whose members and elements there are.
MembersOf(c, e) ==
    \/ c = "any" \/ (c = "struct" /\ e \in DOMAIN Index) \/ (c = "map" /\ Typed("map", e))
ElementsOf(c, e) ==
    \/ (c = "any" /\ e = "any") \/ (c = "one" /\ Typed("one", e)) \/ (c = "map" /\ Typed("map", e))

\* x puts a block on d that is to close p braces and q brackets.
Members(x, d) ==
    \E c, e : MembersOf(c, e) /\ \E s \in {"open", "more", "key"} : x = Cons(Sym(s, c, e), d)
Elements(x, d) ==
    \/ \E c, e : ElementsOf(c, e) /\ \E s \in {"first", "rest"} : x = Cons(Sym(s, c, e), d)
    \/ \E e : \E n \in Nat : Typed("fixed", e) /\ x = FixedTail(e, n, d)
Plain(a) == Skippable(a) \/ a = Tok(":") \/ a = Tok(",")
Single(x, d) == \E a : Plain(a) /\ x = Cons(a, d)
Block(x, d, p, q) ==
    \/ Members(x, d) /\ p = 1 /\ q = 0
    \/ Elements(x, d) /\ p = 0 /\ q = 1
    \/ Single(x, d) /\ p = 0 /\ q = 0

Tower(n, D, P, Q, r, end) ==
    /\ n \in Nat /\ D[0] = r /\ P[0] = 0 /\ Q[0] = 0 /\ Good(r, end)
    /\ \A i \in 1..n :
         /\ P[i] \in Nat /\ Q[i] \in Nat /\ P[i] + Q[i] > 0 /\ Good(D[i], end)
         /\ Block(D[i], D[i - 1], P[i] - P[i - 1], Q[i] - Q[i - 1])
Skips(g, r, p, q, end) ==
    \E n, D, P, Q : Tower(n, D, P, Q, r, end) /\ D[n] = g /\ P[n] = p /\ Q[n] = q

LEMMA SkipsFacts ==
    ASSUME NEW g, NEW r, NEW p, NEW q, NEW end, Skips(g, r, p, q, end)
    PROVE  /\ p \in Nat /\ q \in Nat /\ Good(g, end) /\ Good(r, end)
           /\ p + q = 0 => g = r
<1>1. PICK n, D, P, Q : Tower(n, D, P, Q, r, end) /\ D[n] = g /\ P[n] = p /\ Q[n] = q
  BY DEF Skips
<1>2. n \in Nat /\ (n = 0 \/ n \in 1..n)
  BY <1>1 DEF Tower
<1>3. CASE n = 0
  BY <1>1, <1>3 DEF Tower
<1>4. CASE n \in 1..n
  BY <1>1, <1>4 DEF Tower
<1> QED BY <1>2, <1>3, <1>4

LEMMA SkipsNone ==
    ASSUME NEW r, NEW end, Good(r, end)
    PROVE  Skips(r, r, 0, 0, end)
<1> DEFINE D == [i \in {0} |-> r]
           P == [i \in {0} |-> 0]
<1>1. Tower(0, D, P, P, r, end) /\ D[0] = r /\ P[0] = 0
  BY DEF Tower
<1> HIDE DEF D, P
<1> QED BY <1>1 DEF Skips

LEMMA SkipsOn ==
    ASSUME NEW d, NEW r, NEW p, NEW q, NEW end, Skips(d, r, p, q, end),
           NEW x, Good(x, end), NEW i \in Nat, NEW j \in Nat, Block(x, d, i, j),
           p + i + q + j > 0
    PROVE  Skips(x, r, p + i, q + j, end)
<1>1. PICK n, D, P, Q : Tower(n, D, P, Q, r, end) /\ D[n] = d /\ P[n] = p /\ Q[n] = q
  BY DEF Skips
<1>2. /\ n \in Nat /\ D[0] = r /\ P[0] = 0 /\ Q[0] = 0 /\ Good(r, end)
      /\ \A k \in 1..n :
           /\ P[k] \in Nat /\ Q[k] \in Nat /\ P[k] + Q[k] > 0 /\ Good(D[k], end)
           /\ Block(D[k], D[k - 1], P[k] - P[k - 1], Q[k] - Q[k - 1])
  BY <1>1 DEF Tower
<1>3. p \in Nat /\ q \in Nat
  BY SkipsFacts
<1> DEFINE E == [k \in 0..n + 1 |-> IF k <= n THEN D[k] ELSE x]
           R == [k \in 0..n + 1 |-> IF k <= n THEN P[k] ELSE p + i]
           S == [k \in 0..n + 1 |-> IF k <= n THEN Q[k] ELSE q + j]
<1>4. /\ \A k \in 0..n : E[k] = D[k] /\ R[k] = P[k] /\ S[k] = Q[k]
      /\ E[n + 1] = x /\ R[n + 1] = p + i /\ S[n + 1] = q + j
  BY <1>2
<1> HIDE DEF E, R, S
<1>5. ASSUME NEW k \in 1..n + 1
      PROVE  /\ R[k] \in Nat /\ S[k] \in Nat /\ R[k] + S[k] > 0 /\ Good(E[k], end)
             /\ Block(E[k], E[k - 1], R[k] - R[k - 1], S[k] - S[k - 1])
  <2>1. CASE k \in 1..n
    <3>1. k \in 0..n /\ k - 1 \in 0..n
      BY <1>2, <2>1
    <3> QED BY <1>2, <1>4, <2>1, <3>1
  <2>2. CASE k = n + 1
    <3>1. k - 1 = n /\ n \in 0..n
      BY <1>2, <2>2
    <3>2. E[k - 1] = d /\ R[k - 1] = p /\ S[k - 1] = q
      BY <1>1, <1>4, <3>1
    <3>3. E[k] = x /\ R[k] = p + i /\ S[k] = q + j
      BY <1>4, <2>2
    <3>4. R[k] - R[k - 1] = i /\ S[k] - S[k - 1] = j
      BY <1>3, <3>2, <3>3
    <3> QED BY <1>3, <3>2, <3>3, <3>4
  <2> QED BY <1>2, <2>1, <2>2
<1>6. n + 1 \in Nat /\ 0 \in 0..n
  BY <1>2
<1>7. Tower(n + 1, E, R, S, r, end)
  BY <1>2, <1>4, <1>5, <1>6 DEF Tower
<1> QED BY <1>4, <1>7 DEF Skips

LEMMA SkipsOff ==
    ASSUME NEW g, NEW r, NEW p, NEW q, NEW end, Skips(g, r, p, q, end), p + q > 0
    PROVE  \E d, i, j : /\ Block(g, d, i, j) /\ i \in {0, 1} /\ j \in {0, 1} /\ Good(d, end)
                        /\ Skips(d, r, p - i, q - j, end)
<1>1. PICK n, D, P, Q : Tower(n, D, P, Q, r, end) /\ D[n] = g /\ P[n] = p /\ Q[n] = q
  BY DEF Skips
<1>2. /\ n \in Nat /\ D[0] = r /\ P[0] = 0 /\ Q[0] = 0 /\ Good(r, end)
      /\ \A k \in 1..n :
           /\ P[k] \in Nat /\ Q[k] \in Nat /\ P[k] + Q[k] > 0 /\ Good(D[k], end)
           /\ Block(D[k], D[k - 1], P[k] - P[k - 1], Q[k] - Q[k - 1])
  BY <1>1 DEF Tower
<1>3. n # 0 /\ n \in 1..n /\ n - 1 \in Nat
  BY <1>1, <1>2
<1>4. Block(g, D[n - 1], p - P[n - 1], q - Q[n - 1])
  BY <1>1, <1>2, <1>3
<1>5. Tower(n - 1, D, P, Q, r, end)
  BY <1>2, <1>3 DEF Tower
<1>6. Skips(D[n - 1], r, P[n - 1], Q[n - 1], end)
  BY <1>5 DEF Skips
<1>7. P[n - 1] \in Nat /\ Q[n - 1] \in Nat /\ Good(D[n - 1], end) /\ p \in Nat /\ q \in Nat
  BY <1>6, SkipsFacts
<1> DEFINE i == p - P[n - 1]
           j == q - Q[n - 1]
<1>8. i \in {0, 1} /\ j \in {0, 1}
  BY <1>4 DEF Block
<1>9. p - i = P[n - 1] /\ q - j = Q[n - 1]
  BY <1>7
<1> QED BY <1>4, <1>6, <1>7, <1>8, <1>9

\* What a token does to the counts, and what no value or separator can be.
Up(t) == CASE t = "{" -> 1 [] t = "}" -> -1 [] OTHER -> 0
Across(t) == CASE t = "[" -> 1 [] t = "]" -> -1 [] OTHER -> 0
Read(t) == t \notin {"eof", "stuck"}

LEMMA TokenFacts ==
    ASSUME NEW t
    PROVE  /\ Up("{") = 1 /\ Up("}") = -1 /\ Across("{") = 0 /\ Across("}") = 0
           /\ Across("[") = 1 /\ Across("]") = -1 /\ Up("[") = 0 /\ Up("]") = 0
           /\ Up(",") = 0 /\ Across(",") = 0 /\ Up(":") = 0 /\ Across(":") = 0
           /\ Read("{") /\ Read("}") /\ Read("[") /\ Read("]") /\ Read(",") /\ Read(":")
           /\ t \in Literal \/ IsString(t) => Up(t) = 0 /\ Across(t) = 0 /\ Read(t)
BY DEF Up, Across, Read, Literal, IsString, Punct, LexError

\* A member of an object, behind which the rest of the object is left.
LEMMA MemberSkips ==
    ASSUME NEW c, NEW e, MembersOf(c, e), NEW key,
           NEW d, NEW r, NEW p, NEW q, NEW end, Skips(d, r, p, q, end)
    PROVE  Skips(MemberRest(c, e, key, d), r, p + 1, q, end)
<1> DEFINE z == Cons(Sym("more", c, e), d)
           a == MemberValue(c, e, key)
           y == Cons(a, z)
           x == Cons(Tok(":"), y)
<1>1. p \in Nat /\ q \in Nat /\ Good(d, end)
  BY SkipsFacts
<1>2. Valued(a)
  <2>1. CASE c = "struct" /\ key \in DOMAIN Index[e]
    <3>1. e \in DOMAIN Index
      BY <2>1 DEF MembersOf
    <3> DEFINE f == Index[e][key]
    <3>2. Typed(f.k, f.elt)
      BY <2>1, <3>1, IndexFacts DEF Typed
    <3>3. a = Sym(IF f.null THEN "nullable" ELSE "val", f.k, f.elt)
      BY <2>1 DEF MemberValue
    <3> HIDE DEF f, a
    <3> QED BY <3>2, <3>3 DEF Valued
  <2>2. CASE c = "map"
    <3>1. Typed("one", e) /\ a = Sym("val", "one", e)
      BY <2>2 DEF MembersOf, Typed, MemberValue
    <3> HIDE DEF a
    <3> QED BY <3>1 DEF Valued
  <2>3. CASE ~(c = "struct" /\ key \in DOMAIN Index[e]) /\ c # "map"
    <3>1. a = Sym("val", "any", "any")
      BY <2>3 DEF MemberValue
    <3> HIDE DEF a
    <3> QED BY <3>1 DEF Valued
  <2> QED BY <2>1, <2>2, <2>3
<1> HIDE DEF a
<1>3. Good(z, end) /\ Block(z, d, 1, 0)
  BY <1>1, ConsFacts DEF Block, Members
<1> HIDE DEF z
<1>4. Skips(z, r, p + 1, q + 0, end)
  BY <1>1, <1>3, SkipsOn
<1>5. Good(y, end) /\ Block(y, z, 0, 0)
  BY <1>2, <1>3, ConsFacts DEF Block, Single, Plain, Skippable
<1> HIDE DEF y
<1>6. Skips(y, r, p + 1 + 0, q + 0 + 0, end)
  BY <1>1, <1>4, <1>5, SkipsOn
<1>7. Good(x, end) /\ Block(x, y, 0, 0)
  BY <1>5, ConsFacts DEF Block, Single, Plain
<1> HIDE DEF x
<1>8. Skips(x, r, p + 1 + 0 + 0, q + 0 + 0 + 0, end)
  BY <1>1, <1>6, <1>7, SkipsOn
<1>9. p + 1 + 0 + 0 = p + 1 /\ q + 0 + 0 + 0 = q
  BY <1>1
<1>10. x = MemberRest(c, e, key, d)
  BY Zenon DEF x, y, z, a, MemberRest
<1> QED BY <1>8, <1>9, <1>10

\* One symbol of a block on another.
LEMMA SingleSkips ==
    ASSUME NEW d, NEW r, NEW p, NEW q, NEW end, Skips(d, r, p, q, end), p + q > 0,
           NEW a, Plain(a)
    PROVE  Skips(Cons(a, d), r, p, q, end)
<1> DEFINE x == Cons(a, d)
<1>1. p \in Nat /\ q \in Nat /\ Good(d, end)
  BY SkipsFacts
<1>2. Good(x, end) /\ Single(x, d)
  BY <1>1, ConsFacts DEF Single
<1> HIDE DEF x
<1>3. Block(x, d, 0, 0)
  BY <1>2 DEF Block
<1>4. p + 0 = p /\ q + 0 = q
  BY <1>1
<1>6. p + 0 + q + 0 > 0
  BY <1>1, <1>4
<1>5. Skips(x, r, p + 0, q + 0, end)
  BY <1>1, <1>2, <1>3, <1>6, SkipsOn
<1> QED BY <1>4, <1>5 DEF x

LEMMA MembersSkips ==
    ASSUME NEW d, NEW r, NEW p, NEW q, NEW end, Skips(d, r, p, q, end),
           NEW c, NEW e, MembersOf(c, e), NEW s \in {"open", "more", "key"}
    PROVE  Skips(Cons(Sym(s, c, e), d), r, p + 1, q, end)
<1> DEFINE x == Cons(Sym(s, c, e), d)
<1>1. p \in Nat /\ q \in Nat /\ Good(d, end)
  BY SkipsFacts
<1>2. Good(x, end) /\ Block(x, d, 1, 0)
  BY <1>1, ConsFacts DEF Block, Members
<1> HIDE DEF x
<1>3. Skips(x, r, p + 1, q + 0, end)
  BY <1>1, <1>2, SkipsOn
<1>4. q + 0 = q
  BY <1>1
<1> QED BY <1>3, <1>4 DEF x

LEMMA ElementsSkips ==
    ASSUME NEW d, NEW r, NEW p, NEW q, NEW end, Skips(d, r, p, q, end),
           NEW x, Elements(x, d), Good(x, end)
    PROVE  Skips(x, r, p, q + 1, end)
<1>1. p \in Nat /\ q \in Nat
  BY SkipsFacts
<1>2. Block(x, d, 0, 1)
  BY DEF Block
<1>3. Skips(x, r, p + 0, q + 1, end)
  BY <1>1, <1>2, SkipsOn
<1>4. p + 0 = p
  BY <1>1
<1> QED BY <1>3, <1>4

\* The object of a oneof, opened.
LEMMA TagSkips ==
    ASSUME NEW d, NEW r, NEW p, NEW q, NEW end, Skips(d, r, p, q, end),
           NEW o \in DOMAIN Variants, NEW v \in DOMAIN Variants[o]
    PROVE  /\ Skips(TagFirst(o, v, d), r, p + 1, q, end)
           /\ Skips(TagSecond(o, v, d), r, p + 1, q, end)
<1> DEFINE e == Variants[o][v]
           a1 == Cons(Sym("more", "struct", e), d)
           a2 == Cons(Tok(v), a1)
           a3 == Cons(Tok(":"), a2)
           a4 == Cons(Tok(TagKey), a3)
           a5 == Cons(Tok(","), a4)
           a6 == Cons(Sym("val", "any", "any"), a5)
           a7 == Cons(Tok(":"), a6)
           a8 == Cons(Tok(Stray), a7)
<1>1. p \in Nat /\ q \in Nat /\ Good(d, end) /\ p + 1 + q > 0
  BY SkipsFacts
<1>2. /\ MembersOf("struct", e) /\ Plain(Tok(v)) /\ Plain(Tok(TagKey))
      /\ Plain(Tok(Stray)) /\ Plain(Sym("val", "any", "any"))
      /\ Plain(Tok(":")) /\ Plain(Tok(","))
  BY IndexFacts, DocumentFacts DEF MembersOf, Plain, Skippable, Valued
<1>3. Skips(a1, r, p + 1, q, end)
  BY <1>2, MembersSkips
<1>4. a4 = TagFirst(o, v, d) /\ a8 = TagSecond(o, v, d)
  BY DEF TagFirst, TagSecond
<1> HIDE DEF a1
<1>5. Skips(a2, r, p + 1, q, end)
  BY <1>1, <1>2, <1>3, SingleSkips
<1> HIDE DEF a2
<1>6. Skips(a3, r, p + 1, q, end)
  BY <1>1, <1>2, <1>5, SingleSkips
<1> HIDE DEF a3
<1>7. Skips(a4, r, p + 1, q, end)
  BY <1>1, <1>2, <1>6, SingleSkips
<1> HIDE DEF a4
<1>8. Skips(a5, r, p + 1, q, end)
  BY <1>1, <1>2, <1>7, SingleSkips
<1> HIDE DEF a5
<1>9. Skips(a6, r, p + 1, q, end)
  BY <1>1, <1>2, <1>8, SingleSkips
<1> HIDE DEF a6
<1>10. Skips(a7, r, p + 1, q, end)
  BY <1>1, <1>2, <1>9, SingleSkips
<1> HIDE DEF a7
<1>11. Skips(a8, r, p + 1, q, end)
  BY <1>1, <1>2, <1>10, SingleSkips
<1> QED BY <1>4, <1>7, <1>11

\* A token that is no value is its own code.
LEMMA CodesOK ==
    /\ Code(",") # 0 /\ Code(":") # 0 /\ Code("[") # 0 /\ Code("]") # 0
    /\ Code("{") # 0 /\ Code("}") # 0 /\ \A t \in LexError : Code(t) # 0
<1>a. Code(",") # 0
  <2>1. Code(",") = 44 /\ 44 # 0
    <3>1. Code(",") = 44
      BY Zenon DEF Code, LexError
    <3>2. 44 # 0
      OBVIOUS
    <3> QED BY <3>1, <3>2, Zenon
  <2> QED BY <2>1, Zenon
<1>b. Code(":") # 0
  <2>1. Code(":") = 58 /\ 58 # 0
    <3>1. Code(":") = 58
      BY Zenon DEF Code, LexError
    <3>2. 58 # 0
      OBVIOUS
    <3> QED BY <3>1, <3>2, Zenon
  <2> QED BY <2>1, Zenon
<1>c. Code("[") # 0
  <2>1. Code("[") = 91 /\ 91 # 0
    <3>1. Code("[") = 91
      BY Zenon DEF Code, LexError
    <3>2. 91 # 0
      OBVIOUS
    <3> QED BY <3>1, <3>2, Zenon
  <2> QED BY <2>1, Zenon
<1>d. Code("]") # 0
  <2>1. Code("]") = 93 /\ 93 # 0
    <3>1. Code("]") = 93
      BY Zenon DEF Code, LexError
    <3>2. 93 # 0
      OBVIOUS
    <3> QED BY <3>1, <3>2, Zenon
  <2> QED BY <2>1, Zenon
<1>e. Code("{") # 0
  <2>1. Code("{") = 123 /\ 123 # 0
    <3>1. Code("{") = 123
      BY Zenon DEF Code, LexError
    <3>2. 123 # 0
      OBVIOUS
    <3> QED BY <3>1, <3>2, Zenon
  <2> QED BY <2>1, Zenon
<1>f. Code("}") # 0
  <2>1. Code("}") = 125 /\ 125 # 0
    <3>1. Code("}") = 125
      BY Zenon DEF Code, LexError
    <3>2. 125 # 0
      OBVIOUS
    <3> QED BY <3>1, <3>2, Zenon
  <2> QED BY <2>1, Zenon
<1>2. \A t \in LexError : Code(t) # 0
  <2>1. \A t \in LexError : Code(t) = -1
    BY Zenon DEF Code, LexError
  <2> QED BY <2>1
<1> QED BY <1>a, <1>b, <1>c, <1>d, <1>e, <1>f, <1>2, Zenon

\* What a value can start with, and what it leaves behind its first token.
LEMMA ScalarToken ==
    ASSUME NEW e \in Scalar, NEW t, t # "eof", ScalarCode(e, t) = 0
    PROVE  t \in Literal \/ IsString(t)
<1>1. CASE t \notin Literal /\ ~IsString(t)
  <2>1. t \in Punct \cup LexError
    BY <1>1 DEF IsString
  <2>2. t \notin {"int", "true", "big", "float", "null", Enumerator}
    BY <2>1 DEF Punct, LexError, Enumerator
  <2>3. ScalarCode(e, t) = Code(t)
    BY <1>1, <2>2 DEF ScalarCode
  <2>4. Code(t) # 0
    BY <2>1, CodesOK, Zenon DEF Punct
  <2> QED BY <2>3, <2>4
<1> QED BY <1>1

OpenBrace(h, d) ==
    \/ \E c, e : MembersOf(c, e) /\ h = Cons(Sym("open", c, e), d)
    \/ \E o \in DOMAIN Variants : \E v \in DOMAIN Variants[o] :
         h = TagFirst(o, v, d) \/ h = TagSecond(o, v, d)
OpenBracket(h, d) ==
    \/ Elements(h, d)
    \/ \E e : \E n \in Nat :
         Typed("fixed", e) /\ h = Cons(Sym("val", "one", e), FixedTail(e, n, d))
Opening(h, d, t) == (t = "{" /\ OpenBrace(h, d)) \/ (t = "[" /\ OpenBracket(h, d))

LEMMA OneCases ==
    ASSUME NEW e, Typed("one", e), NEW d, NEW end, Good(d, end), NEW t, t # "eof",
           NEW h \in Step(Cons(Sym("val", "one", e), d), t)
    PROVE  ((t \in Literal \/ IsString(t)) /\ h = d) \/ Opening(h, d, t)
<1>1. CASE e \in Scalar
  BY <1>1, StepScalar, ScalarToken
<1>2. CASE e \in DOMAIN Index
  <2>1. t = "{" /\ h = Cons(Sym("open", "struct", e), d) /\ MembersOf("struct", e)
    BY <1>2, StepStruct, DocumentFacts DEF MembersOf
  <2> QED BY <2>1 DEF Opening, OpenBrace
<1>3. CASE e \in DOMAIN Variants
  <2>1. t = "{" /\ \E v \in DOMAIN Variants[e] : h \in {TagFirst(e, v, d), TagSecond(e, v, d)}
    BY <1>3, StepOneof, DocumentFacts
  <2> QED BY <1>3, <2>1 DEF Opening, OpenBrace
<1> QED BY <1>1, <1>2, <1>3 DEF Typed

LEMMA ValCases ==
    ASSUME NEW c, NEW e, Typed(c, e), NEW d, NEW end, Good(d, end), NEW t, t # "eof",
           NEW h \in Step(Cons(Sym("val", c, e), d), t)
    PROVE  ((t \in Literal \/ IsString(t)) /\ h = d) \/ Opening(h, d, t)
<1>1. CASE c = "one"
  BY <1>1, OneCases
<1>2. CASE c = "map"
  <2>1. t = "{" /\ h = Cons(Sym("open", "map", e), d) /\ MembersOf("map", e)
    BY <1>2, StepMap DEF MembersOf
  <2> QED BY <2>1 DEF Opening, OpenBrace
<1>3. CASE c = "array"
  <2>1. t = "[" /\ h = Cons(Sym("first", "one", e), d) /\ ElementsOf("one", e)
    BY <1>3, StepArray DEF ElementsOf, Typed
  <2> QED BY <2>1 DEF Opening, OpenBracket, Elements
<1>4. CASE c = "maps"
  <2>1. t = "[" /\ h = Cons(Sym("first", "map", e), d) /\ ElementsOf("map", e)
    BY <1>4, StepMaps DEF ElementsOf, Typed
  <2> QED BY <2>1 DEF Opening, OpenBracket, Elements
<1>5. CASE c = "fixed"
  <2>1. /\ t = "["
        /\ h = Cons(Tok("]"), d) \/ \E n \in 1..FixedSize : h = FixedArray(e, n) \o d
    BY <1>5, StepFixed
  <2>2. CASE h = Cons(Tok("]"), d)
    <3>1. h = FixedTail(e, 0, d) /\ 0 \in Nat
      BY <2>2 DEF FixedTail
    <3>2. Elements(h, d)
      BY <1>5, <3>1 DEF Elements
    <3> QED BY <2>1, <3>2 DEF Opening, OpenBracket
  <2>3. ASSUME NEW n \in 1..FixedSize, h = FixedArray(e, n) \o d
        PROVE  Opening(h, d, t)
    <3>1. FixedSize \in Nat
      BY UnmarshalAssumption
    <3>2. n - 1 \in Nat /\ (n - 1) + 1 = n
      BY <3>1
    <3>3. FixedArray(e, (n - 1) + 1) \o d = Cons(Sym("val", "one", e), FixedTail(e, n - 1, d))
      BY <3>2, FixedCons
    <3>4. h = Cons(Sym("val", "one", e), FixedTail(e, n - 1, d))
      BY <2>3, <3>2, <3>3
    <3> QED BY <1>5, <2>1, <3>2, <3>4 DEF Opening, OpenBracket
  <2> QED BY <2>1, <2>2, <2>3
<1> QED BY <1>1, <1>2, <1>3, <1>4, <1>5 DEF Typed

LEMMA ValueCases ==
    ASSUME NEW a, Skippable(a), NEW d, NEW end, Good(d, end), NEW t, t # "eof",
           NEW h \in Step(Cons(a, d), t)
    PROVE  ((t \in Literal \/ IsString(t)) /\ h = d) \/ Opening(h, d, t)
<1>1. CASE a = Sym("val", "any", "any")
  <2>1. \/ (t \in Literal \/ IsString(t)) /\ h = d
        \/ t = "{" /\ h = Cons(Sym("open", "any", "any"), d)
        \/ t = "[" /\ h = Cons(Sym("first", "any", "any"), d)
    BY <1>1, StepAny
  <2>2. MembersOf("any", "any") /\ ElementsOf("any", "any")
    BY DEF MembersOf, ElementsOf
  <2> QED BY <2>1, <2>2 DEF Opening, OpenBrace, OpenBracket, Elements
<1>2. ASSUME NEW v, IsString(v), a = Tok(v) PROVE IsString(t) /\ h = d
  <2>1. t = v /\ h = d
    BY <1>2, StepTok
  <2> QED BY <1>2, <2>1
<1>3. ASSUME NEW c, NEW e, Typed(c, e), a = Sym("val", c, e) \/ a = Sym("nullable", c, e)
      PROVE  ((t \in Literal \/ IsString(t)) /\ h = d) \/ Opening(h, d, t)
  <2>1. CASE a = Sym("val", c, e)
    BY <1>3, <2>1, ValCases
  <2>2. CASE a = Sym("nullable", c, e)
    <3>1. c \in {"one", "array", "fixed", "map", "maps"} /\ e # "any"
      BY <1>3, DocumentFacts DEF Typed, Scalar
    <3>2. IF t = "null" THEN h = d ELSE h \in Step(Cons(Sym("val", c, e), d), t)
      BY <2>2, <3>1, StepNullable
    <3>3. CASE t = "null"
      BY <3>2, <3>3 DEF Literal
    <3>4. CASE t # "null"
      BY <1>3, <3>2, <3>4, ValCases
    <3> QED BY <3>3, <3>4
  <2> QED BY <1>3, <2>1, <2>2
<1> QED BY <1>1, <1>2, <1>3 DEF Skippable, Valued

LEMMA FixedSkips ==
    ASSUME NEW d, NEW r, NEW p, NEW q, NEW end, Skips(d, r, p, q, end),
           NEW e, Typed("fixed", e), NEW n \in Nat
    PROVE  Skips(Cons(Sym("val", "one", e), FixedTail(e, n, d)), r, p, q + 1, end)
<1> DEFINE x == FixedTail(e, n, d)
<1>1. p \in Nat /\ q \in Nat /\ Good(d, end)
  BY SkipsFacts
<1>2. Elements(x, d) /\ Good(x, end)
  BY <1>1, FixedCons DEF Elements
<1> HIDE DEF x
<1>3. Skips(x, r, p, q + 1, end)
  BY <1>2, ElementsSkips
<1>4. Typed("one", e)
  BY DEF Typed
<1>5. Plain(Sym("val", "one", e))
  BY <1>4, Zenon DEF Plain, Skippable, Valued
<1>6. p + (q + 1) > 0
  BY <1>1
<1> QED BY <1>3, <1>5, <1>6, SingleSkips DEF x

LEMMA OpeningSkips ==
    ASSUME NEW d, NEW r, NEW p, NEW q, NEW end, Skips(d, r, p, q, end),
           NEW h, NEW t, Opening(h, d, t)
    PROVE  Read(t) /\ Skips(h, r, p + Up(t), q + Across(t), end)
<1>1. p \in Nat /\ q \in Nat /\ Good(d, end)
  BY SkipsFacts
<1>2. \/ Read(t) /\ Up(t) = 1 /\ Across(t) = 0 /\ OpenBrace(h, d)
      \/ Read(t) /\ Up(t) = 0 /\ Across(t) = 1 /\ OpenBracket(h, d)
  BY TokenFacts, Zenon DEF Opening
<1>3. ASSUME OpenBrace(h, d) PROVE Skips(h, r, p + 1, q, end)
  <2>1. CASE \E c, e : MembersOf(c, e) /\ h = Cons(Sym("open", c, e), d)
    BY <2>1, MembersSkips
  <2>2. CASE \E o \in DOMAIN Variants : \E v \in DOMAIN Variants[o] :
               h = TagFirst(o, v, d) \/ h = TagSecond(o, v, d)
    BY <2>2, TagSkips
  <2> QED BY <1>3, <2>1, <2>2, Zenon DEF OpenBrace
<1>4. ASSUME OpenBracket(h, d) PROVE Skips(h, r, p, q + 1, end)
  <2>1. CASE Elements(h, d)
    <3>1. Good(h, end)
      <4>1. \A e : \A n \in Nat : Good(FixedTail(e, n, d), end)
        BY <1>1, FixedCons
      <4>2. \A a : Good(Cons(a, d), end)
        BY <1>1, ConsFacts
      <4> QED BY <2>1, <4>1, <4>2, Zenon DEF Elements
    <3> QED BY <2>1, <3>1, ElementsSkips
  <2>2. CASE \E e : \E n \in Nat :
               Typed("fixed", e) /\ h = Cons(Sym("val", "one", e), FixedTail(e, n, d))
    BY <2>2, FixedSkips
  <2> QED BY <1>4, <2>1, <2>2, Zenon DEF OpenBracket
<1>5. p + 0 = p /\ q + 0 = q
  BY <1>1
<1> QED BY <1>2, <1>3, <1>4, <1>5

\* The first token of a value, with what is skipped around it.
LEMMA ValueSkips ==
    ASSUME NEW d, NEW r, NEW p, NEW q, NEW end, Skips(d, r, p, q, end),
           NEW a, Skippable(a), NEW t, t # "eof", NEW h \in Step(Cons(a, d), t)
    PROVE  Read(t) /\ Skips(h, r, p + Up(t), q + Across(t), end)
<1>1. p \in Nat /\ q \in Nat /\ Good(d, end)
  BY SkipsFacts
<1>2. ((t \in Literal \/ IsString(t)) /\ h = d) \/ Opening(h, d, t)
  BY <1>1, ValueCases
<1>3. CASE (t \in Literal \/ IsString(t)) /\ h = d
  <2>1. Up(t) = 0 /\ Across(t) = 0 /\ Read(t)
    BY <1>3, TokenFacts, Zenon
  <2>2. p + Up(t) = p /\ q + Across(t) = q
    BY <1>1, <2>1
  <2> QED BY <1>3, <2>1, <2>2
<1> QED BY <1>2, <1>3, OpeningSkips

\* A token of a value that is being skipped.
LEMMA MembersStep ==
    ASSUME NEW d, NEW r, NEW p, NEW q, NEW end, Skips(d, r, p, q, end),
           NEW g, Members(g, d), NEW t, NEW h \in Step(g, t)
    PROVE  Read(t) /\ Skips(h, r, p + 1 + Up(t), q + Across(t), end)
<1>1. p \in Nat /\ q \in Nat /\ Good(d, end)
  BY SkipsFacts
<1>2. PICK c, e : MembersOf(c, e) /\ \E s \in {"open", "more", "key"} : g = Cons(Sym(s, c, e), d)
  BY DEF Members
<1>3. \/ t = "}" /\ h = d
      \/ IsString(t) /\ h = MemberRest(c, e, t, d)
      \/ t = "," /\ h = Cons(Sym("key", c, e), d)
  <2>1. CASE g = Cons(Sym("open", c, e), d)
    BY <1>1, <2>1, StepOpen, Zenon
  <2>2. CASE g = Cons(Sym("more", c, e), d)
    BY <1>1, <2>2, StepMore, Zenon
  <2>3. CASE g = Cons(Sym("key", c, e), d)
    BY <1>1, <2>3, StepKey, Zenon
  <2> QED BY <1>2, <2>1, <2>2, <2>3
<1>4. \/ Read(t) /\ Up(t) = -1 /\ Across(t) = 0 /\ h = d
      \/ Read(t) /\ Up(t) = 0 /\ Across(t) = 0 /\ h = MemberRest(c, e, t, d)
      \/ Read(t) /\ Up(t) = 0 /\ Across(t) = 0 /\ h = Cons(Sym("key", c, e), d)
  BY <1>3, TokenFacts, Zenon
<1>5. Skips(MemberRest(c, e, t, d), r, p + 1, q, end)
  BY <1>2, MemberSkips
<1>6. Skips(Cons(Sym("key", c, e), d), r, p + 1, q, end)
  BY <1>2, MembersSkips
<1>7. p + 1 + (-1) = p /\ p + 1 + 0 = p + 1 /\ q + 0 = q
  BY <1>1
<1> QED BY <1>4, <1>5, <1>6, <1>7

LEMMA ElementsStep ==
    ASSUME NEW d, NEW r, NEW p, NEW q, NEW end, Skips(d, r, p, q, end),
           NEW g, Elements(g, d), NEW t, t # "eof", NEW h \in Step(g, t)
    PROVE  Read(t) /\ Skips(h, r, p + Up(t), q + 1 + Across(t), end)
<1>1. p \in Nat /\ q \in Nat /\ Good(d, end)
  BY SkipsFacts
<1>2. CASE Read(t) /\ Up(t) = 0 /\ Across(t) = -1 /\ h = d
  <2>1. p + 0 = p /\ q + 1 + (-1) = q
    BY <1>1
  <2> QED BY <1>2, <2>1
<1>3. Read("]") /\ Up("]") = 0 /\ Across("]") = -1 /\ Read(",") /\ Up(",") = 0 /\ Across(",") = 0
  BY TokenFacts, Zenon
<1>4. ASSUME NEW c, NEW e, ElementsOf(c, e), NEW s \in {"first", "rest"}, g = Cons(Sym(s, c, e), d)
      PROVE  Read(t) /\ Skips(h, r, p + Up(t), q + 1 + Across(t), end)
  <2> DEFINE x == Cons(Sym("rest", c, e), d)
             a == Sym("val", c, e)
  <2>1. Elements(x, d) /\ Good(x, end)
    BY <1>1, <1>4, ConsFacts DEF Elements
  <2>2. Skippable(a)
    BY <1>4 DEF ElementsOf, Skippable, Valued
  <2>3. c \in {"one", "any", "map"}
    BY <1>4 DEF ElementsOf
  <2>4. \/ t = "]" /\ h = d
        \/ h \in Step(Cons(a, x), t)
        \/ t = "," /\ h = Cons(a, x)
    <3>1. CASE s = "first"
      <4>1. h \in Step(Cons(Sym("first", c, e), d), t)
        BY <1>4, <3>1, Zenon
      <4>2. (t = "]" /\ h = d) \/ h \in Step(ElementRest(c, e, d), t)
        BY <1>1, <2>3, <4>1, StepFirst, Zenon
      <4> QED BY <4>2, Zenon DEF ElementRest
    <3>2. CASE s = "rest"
      <4>1. h \in Step(Cons(Sym("rest", c, e), d), t)
        BY <1>4, <3>2, Zenon
      <4>2. \/ t = "]" /\ h = d
            \/ t = "," /\ h = ElementRest(c, e, d)
        BY <1>1, <4>1, StepRest, Zenon
      <4> QED BY <4>2, Zenon DEF ElementRest
    <3> QED BY <3>1, <3>2
  <2> HIDE DEF x, a
  <2>5. Skips(x, r, p, q + 1, end)
    BY <2>1, ElementsSkips
  <2>6. CASE t = "]" /\ h = d
    BY <1>2, <1>3, <2>6, Zenon
  <2>7. CASE h \in Step(Cons(a, x), t)
    BY <2>2, <2>5, <2>7, ValueSkips
  <2>8. CASE t = "," /\ h = Cons(a, x)
    <3>1. Plain(a) /\ p + (q + 1) > 0 /\ p + 0 = p /\ q + 1 + 0 = q + 1
      <4>1. Plain(a)
        BY <2>2, Zenon DEF Plain
      <4> QED BY <1>1, <4>1
    <3>2. Skips(Cons(a, x), r, p, q + 1, end)
      BY <2>5, <3>1, SingleSkips
    <3>3. Read(t) /\ Up(t) = 0 /\ Across(t) = 0 /\ h = Cons(a, x)
      BY <1>3, <2>8, Zenon
    <3> QED BY <3>1, <3>2, <3>3
  <2> QED BY <2>4, <2>6, <2>7, <2>8, Zenon
<1>5. ASSUME NEW e, NEW n \in Nat, Typed("fixed", e), g = FixedTail(e, n, d)
      PROVE  Read(t) /\ Skips(h, r, p + Up(t), q + 1 + Across(t), end)
  <2>1. CASE n = 0
    <3>1. g = Cons(Tok("]"), d)
      BY <1>5, <2>1 DEF FixedTail
    <3>2. t = "]" /\ h = d
      BY <1>1, <3>1, StepTok
    <3> QED BY <1>2, <1>3, <3>2, Zenon
  <2>2. CASE n # 0
    <3>1. g = Cons(Tok(","), FixedArray(e, n) \o d)
      BY <1>5, <2>2, Zenon DEF FixedTail
    <3>2. n - 1 \in Nat /\ (n - 1) + 1 = n
      BY <2>2
    <3> DEFINE y == Cons(Sym("val", "one", e), FixedTail(e, n - 1, d))
    <3>3. FixedArray(e, n) \o d = y /\ Good(FixedTail(e, n - 1, d), end)
      <4>1. FixedArray(e, (n - 1) + 1) \o d = y /\ Good(FixedTail(e, n - 1, d), end)
        BY <1>1, <3>2, FixedCons
      <4> QED BY <3>2, <4>1
    <3>4. Good(y, end)
      BY <3>3, ConsFacts
    <3>5. Skips(y, r, p, q + 1, end)
      BY <1>5, <3>2, FixedSkips
    <3> HIDE DEF y
    <3>6. t = "," /\ h = y
      BY <3>1, <3>3, <3>4, StepTok, Zenon
    <3>7. Read(t) /\ Up(t) = 0 /\ Across(t) = 0 /\ h = y
      BY <1>3, <3>6, Zenon
    <3>8. p + 0 = p /\ q + 1 + 0 = q + 1
      BY <1>1
    <3> QED BY <3>5, <3>7, <3>8
  <2> QED BY <2>1, <2>2
<1> QED BY <1>4, <1>5, Zenon DEF Elements

LEMMA SkipsStep ==
    ASSUME NEW g, NEW r, NEW p, NEW q, NEW end, Skips(g, r, p, q, end), p + q > 0,
           NEW t, t # "eof", NEW h \in Step(g, t)
    PROVE  Read(t) /\ Skips(h, r, p + Up(t), q + Across(t), end)
<1>1. p \in Nat /\ q \in Nat
  BY SkipsFacts
<1>2. PICK d, i, j : /\ Block(g, d, i, j) /\ i \in {0, 1} /\ j \in {0, 1} /\ Good(d, end)
                     /\ Skips(d, r, p - i, q - j, end)
  BY SkipsOff
<1>3. CASE Members(g, d) /\ i = 1 /\ j = 0
  <2>1. Skips(d, r, p - 1, q - 0, end)
    BY <1>2, <1>3
  <2>2. Read(t) /\ Skips(h, r, p - 1 + 1 + Up(t), q - 0 + Across(t), end)
    BY <1>3, <2>1, MembersStep
  <2>3. p - 1 + 1 = p /\ q - 0 = q
    BY <1>1
  <2> QED BY <2>2, <2>3
<1>4. CASE Elements(g, d) /\ i = 0 /\ j = 1
  <2>1. Skips(d, r, p - 0, q - 1, end)
    BY <1>2, <1>4
  <2>2. Read(t) /\ Skips(h, r, p - 0 + Up(t), q - 1 + 1 + Across(t), end)
    BY <1>4, <2>1, ElementsStep
  <2>3. p - 0 = p /\ q - 1 + 1 = q
    BY <1>1
  <2> QED BY <2>2, <2>3
<1>5. CASE Single(g, d) /\ i = 0 /\ j = 0
  <2>1. p - i = p /\ q - j = q
    BY <1>1, <1>5
  <2>2. Skips(d, r, p, q, end)
    BY <1>2, <2>1
  <2>3. PICK a : Plain(a) /\ g = Cons(a, d)
    BY <1>5, Zenon DEF Single
  <2>4. CASE Skippable(a)
    BY <2>2, <2>3, <2>4, ValueSkips
  <2>5. CASE a = Tok(":") \/ a = Tok(",")
    <3>1. (t = ":" \/ t = ",") /\ h = d
      BY <1>2, <2>3, <2>5, StepTok, Zenon
    <3>2. Read(t) /\ Up(t) = 0 /\ Across(t) = 0 /\ h = d
      BY <3>1, TokenFacts, Zenon
    <3>3. p + Up(t) = p /\ q + Across(t) = q
      BY <1>1, <3>2
    <3> QED BY <2>2, <3>2, <3>3
  <2> QED BY <2>3, <2>4, <2>5, Zenon DEF Plain
<1> QED BY <1>2, <1>3, <1>4, <1>5, Zenon DEF Block

-----------------------------------------------------------------------------
(***************************************************************************)
(* What a function faces where it stands: the goal y it has reached, when  *)
(* r is what is left of the goal behind its own value.                     *)
(***************************************************************************)
CommaTag(o, v, r) == Cons(Tok(","), TagFirst(o, v, r))

\* A struct read as a variant of a oneof passes the discriminator, the member before
\* it, and the comma between them.
TagFace(e, y, r) == \E o \in DOMAIN Variants : \E v \in DOMAIN Variants[o] :
    Variants[o][v] = e /\ y = TagFirst(o, v, r)
StrayFace(e, y, r) == \E o \in DOMAIN Variants : \E v \in DOMAIN Variants[o] :
    Variants[o][v] = e /\ y = TagSecond(o, v, r)
CommaFace(e, y, r) == \E o \in DOMAIN Variants : \E v \in DOMAIN Variants[o] :
    Variants[o][v] = e /\ y = CommaTag(o, v, r)

\* Behind a member of struct e.
Resume(e, y, r) == y = Cons(Sym("more", "struct", e), r) \/ CommaFace(e, y, r)

KeyFace(e, y, r) == y = Cons(Sym("key", "struct", e), r) \/ TagFace(e, y, r)
FieldsFace(e, y, r) ==
    \/ y = Cons(Sym("open", "struct", e), r)
    \/ Resume(e, y, r) \/ KeyFace(e, y, r) \/ StrayFace(e, y, r)
ColonFace(e, key, y, r) ==
    \E a, q : /\ y = Cons(Tok(":"), Cons(a, q)) /\ Resume(e, q, r) /\ Skippable(a)
              /\ key # NoKey => a = MemberValue("struct", e, key)
MemberFace(s, e, key, y, r) ==
    \E q : y = Cons(Sym(s, Index[e][key].k, Index[e][key].elt), q) /\ Resume(e, q, r)

StructFace(at, e, key, y, r) ==
    \/ at = "open" /\ y = Cons(Sym("val", "one", e), r)
    \/ at = "fields" /\ FieldsFace(e, y, r)
    \/ at = "comma" /\ KeyFace(e, y, r)
    \/ at = "colon" /\ ColonFace(e, key, y, r)
    \/ at = "nullable" /\ MemberFace("nullable", e, key, y, r)
    \/ at = "value" /\ MemberFace("val", e, key, y, r)

\* The loops over arrays of what symbol c stands for, kind being that of the array.
ListFace(fn, at, kind, c, e, y, r) ==
    \/ at = "open" /\ y = Cons(Sym("val", kind, e), r)
    \/ at \in {"first", "elem"} /\ y = ElementRest(c, e, r)
    \/ at = "first" /\ y = Cons(Sym("first", c, e), r)
    \/ at = "elem" /\ fn \in {"scalars", "enums"} /\ y = Cons(Sym("first", c, e), r)
    \/ at = "elem" /\ fn = "enums" /\ y = Cons(Sym("rest", c, e), r)
    \/ at = "sep" /\ y = Cons(Sym("rest", c, e), r)

\* A fixed-size array with n elements read.
FixedFace(at, n, e, y, r) ==
    \/ at = "open" /\ n = 0 /\ y = Cons(Sym("val", "fixed", e), r)
    \/ at = "first" /\ n = 0 /\ y = Cons(Tok("]"), r)
    \/ /\ at \in {"first", "elem"}
       /\ \E j \in Nat : n + 1 + j <= FixedSize
                         /\ y = Cons(Sym("val", "one", e), FixedTail(e, j, r))
    \/ at = "sep" /\ \E j \in Nat : n + j <= FixedSize /\ y = FixedTail(e, j, r)

MapAhead(e, y, r) == \E s \in {"open", "more", "key"} : y = Cons(Sym(s, "map", e), r)
MapFace(at, e, y, r) ==
    \/ at = "open" /\ y = Cons(Sym("val", "map", e), r)
    \/ at = "key" /\ MapAhead(e, y, r)
    \/ at = "colon" /\ y = Cons(Tok(":"), Cons(Sym("val", "one", e), Cons(Sym("more", "map", e), r)))
    \/ at = "value" /\ y = Cons(Sym("val", "one", e), Cons(Sym("more", "map", e), r))

SkipFace(p, q, y, r, end) ==
    \/ p = 0 /\ q = 0 /\ \E a : Skippable(a) /\ y = Cons(a, r)
    \/ p + q > 0 /\ Skips(y, r, p, q, end)

\* A call that has not started.
Fresh(f) == f.at = "open" /\ f.n = 0 /\ f.brace = 0 /\ f.bracket = 0

Face(f, y, r, end) ==
    \/ f.fn = "struct" /\ StructFace(f.at, f.elt, f.key, y, r)
    \/ f.fn \in {"array", "oneofs", "scalars", "enums"}
         /\ ListFace(f.fn, f.at, "array", "one", f.elt, y, r)
    \/ f.fn = "maps" /\ ListFace(f.fn, f.at, "maps", "map", f.elt, y, r)
    \/ f.fn = "fixed" /\ FixedFace(f.at, f.n, f.elt, y, r)
    \/ f.fn = "map" /\ MapFace(f.at, f.elt, y, r)
    \/ f.fn = "ignore" /\ SkipFace(f.brace, f.bracket, y, r, end)
    \/ f.fn = "oneof" /\ Fresh(f) /\ y = Cons(Sym("val", "one", f.elt), r)

\* The goal y a caller has reached when the call it waits for has returned 0.
After(f, y, r) ==
    \/ f.fn = "struct" /\ Resume(f.elt, y, r)
    \/ f.fn \in {"array", "oneofs"} /\ y = Cons(Sym("rest", "one", f.elt), r)
    \/ f.fn = "maps" /\ y = Cons(Sym("rest", "map", f.elt), r)
    \/ f.fn = "fixed" /\ \E j \in Nat : f.n + 1 + j <= FixedSize /\ y = FixedTail(f.elt, j, r)
    \/ f.fn = "map" /\ y = Cons(Sym("more", "map", f.elt), r)
    \/ f.fn = "oneof" /\ y = r

\* More than the end is left.
Long(y, end) == \E a, q : Good(q, end) /\ y = Cons(a, q)

LEMMA LongCut ==
    ASSUME NEW y, NEW end, Long(y, end)
    PROVE  CutShort(y) = <<Cut, end>> /\ Len(y) # 1 /\ Good(y, end)
<1>1. PICK a, q : Good(q, end) /\ y = Cons(a, q)
  BY DEF Long
<1>2. Good(y, end) /\ Len(y) = Len(q) + 1 /\ Len(q) \in Nat \ {0}
  BY <1>1, ConsFacts
<1>3. y[Len(y)] = end /\ Len(y) # 1
  BY <1>2 DEF Good
<1> QED BY <1>2, <1>3 DEF CutShort

LEMMA LongCons ==
    ASSUME NEW end, NEW q, Good(q, end), NEW a
    PROVE  Long(Cons(a, q), end)
BY DEF Long

LEMMA VariantFacts ==
    ASSUME NEW o \in DOMAIN Variants, NEW v \in DOMAIN Variants[o]
    PROVE  /\ IsString(v) /\ TagKey \notin DOMAIN Index[Variants[o][v]]
           /\ Variants[o][v] \in DOMAIN Index /\ Stray \notin DOMAIN Index[Variants[o][v]]
BY IndexFacts, DocumentFacts

LEMMA TagGood ==
    ASSUME NEW r, NEW end, Good(r, end), NEW o, NEW v
    PROVE  /\ Long(TagFirst(o, v, r), end) /\ Long(TagSecond(o, v, r), end)
           /\ Long(CommaTag(o, v, r), end)
           /\ Good(TagFirst(o, v, r), end) /\ Good(TagSecond(o, v, r), end)
           /\ Good(CommaTag(o, v, r), end)
<1>1. \A q, a : Good(q, end) => Good(Cons(a, q), end) /\ Long(Cons(a, q), end)
  BY ConsFacts, LongCons
<1>2. Good(TagFirst(o, v, r), end) /\ Long(TagFirst(o, v, r), end)
  BY <1>1, Zenon DEF TagFirst
<1>3. Good(CommaTag(o, v, r), end) /\ Long(CommaTag(o, v, r), end)
  BY <1>1, <1>2, Zenon DEF CommaTag
<1>4. TagSecond(o, v, r) = Cons(Tok(Stray), Cons(Tok(":"), Cons(Sym("val", "any", "any"), CommaTag(o, v, r))))
  BY Zenon DEF TagSecond, CommaTag
<1>5. Good(TagSecond(o, v, r), end) /\ Long(TagSecond(o, v, r), end)
  BY <1>1, <1>3, <1>4, Zenon
<1> QED BY <1>2, <1>3, <1>5

LEMMA ResumeLong ==
    ASSUME NEW r, NEW end, Good(r, end), NEW e, NEW y, Resume(e, y, r)
    PROVE  Long(y, end) /\ Good(y, end)
<1>1. CASE y = Cons(Sym("more", "struct", e), r)
  BY <1>1, LongCons, ConsFacts
<1>2. CASE CommaFace(e, y, r)
  BY <1>2, TagGood DEF CommaFace
<1> QED BY <1>1, <1>2 DEF Resume

LEMMA FixedLong ==
    ASSUME NEW r, NEW end, Good(r, end), NEW e, NEW n \in Nat
    PROVE  Long(FixedTail(e, n, r), end) /\ Good(FixedTail(e, n, r), end)
<1>1. Good(FixedTail(e, n, r), end)
  BY FixedCons
<1>2. CASE n = 0
  <2>1. FixedTail(e, n, r) = Cons(Tok("]"), r)
    BY <1>2 DEF FixedTail
  <2> QED BY <1>1, <2>1, LongCons
<1>3. CASE n # 0
  <2>1. FixedTail(e, n, r) = Cons(Tok(","), FixedArray(e, n) \o r)
    BY <1>3, Zenon DEF FixedTail
  <2>2. n - 1 \in Nat /\ (n - 1) + 1 = n
    BY <1>3
  <2>3. /\ FixedArray(e, (n - 1) + 1) \o r = Cons(Sym("val", "one", e), FixedTail(e, n - 1, r))
        /\ Good(FixedTail(e, n - 1, r), end)
    BY <2>2, FixedCons
  <2>a. FixedArray(e, n) \o r = Cons(Sym("val", "one", e), FixedTail(e, n - 1, r))
    BY <2>2, <2>3
  <2>b. Good(Cons(Sym("val", "one", e), FixedTail(e, n - 1, r)), end)
    BY <2>3, ConsFacts
  <2>4. Good(FixedArray(e, n) \o r, end)
    BY <2>a, <2>b, Zenon
  <2> QED BY <1>1, <2>1, <2>4, LongCons, Zenon
<1> QED BY <1>2, <1>3

LEMMA SkipsLong ==
    ASSUME NEW y, NEW r, NEW p, NEW q, NEW end, Skips(y, r, p, q, end), p + q > 0
    PROVE  Long(y, end)
<1>1. PICK d, i, j : Block(y, d, i, j) /\ Good(d, end)
  BY SkipsOff
<1>2. \A a : Long(Cons(a, d), end)
  BY <1>1, LongCons
<1>3. \A e : \A n \in Nat : Long(FixedTail(e, n, d), end)
  BY <1>1, FixedLong
<1>4. Members(y, d) \/ Elements(y, d) \/ Single(y, d)
  BY <1>1, Zenon DEF Block
<1> QED BY <1>2, <1>3, <1>4, Zenon DEF Members, Elements, Single

LEMMA StructLong ==
    ASSUME NEW r, NEW end, Good(r, end), NEW at, NEW e, NEW key, NEW y,
           StructFace(at, e, key, y, r)
    PROVE  Long(y, end)
<1>1. \A a : Long(Cons(a, r), end)
  BY LongCons
<1>2. ASSUME Resume(e, y, r) PROVE Long(y, end)
  BY <1>2, ResumeLong
<1>3. ASSUME TagFace(e, y, r) \/ StrayFace(e, y, r) PROVE Long(y, end)
  BY <1>3, TagGood DEF TagFace, StrayFace
<1>4. ASSUME NEW a, NEW q, Resume(e, q, r) PROVE Long(Cons(a, q), end)
  BY <1>4, ResumeLong, LongCons
<1>5. ASSUME NEW a, NEW b, NEW q, Resume(e, q, r) PROVE Long(Cons(b, Cons(a, q)), end)
  <2>1. Good(Cons(a, q), end)
    BY <1>5, ResumeLong, ConsFacts
  <2> QED BY <2>1, LongCons
<1>6. FieldsFace(e, y, r) => Long(y, end)
  BY <1>1, <1>2, <1>3, Zenon DEF FieldsFace, KeyFace
<1>7. KeyFace(e, y, r) => Long(y, end)
  BY <1>1, <1>3, Zenon DEF KeyFace
<1>8. ColonFace(e, key, y, r) => Long(y, end)
  BY <1>5, Zenon DEF ColonFace
<1>9. \A s : MemberFace(s, e, key, y, r) => Long(y, end)
  BY <1>4, Zenon DEF MemberFace
<1> QED BY <1>1, <1>6, <1>7, <1>8, <1>9, Zenon DEF StructFace

LEMMA FaceLong ==
    ASSUME NEW r, NEW end, Good(r, end), NEW f, NEW y, Face(f, y, r, end)
    PROVE  Long(y, end)
<1>1. \A a : Long(Cons(a, r), end)
  BY LongCons
<1>2. \A a, b : Long(Cons(b, Cons(a, r)), end)
  BY ConsFacts, LongCons
<1>3. \A a, b, c : Long(Cons(c, Cons(b, Cons(a, r))), end)
  BY ConsFacts, LongCons
<1>4. \A e : \A n \in Nat : Long(FixedTail(e, n, r), end)
  BY FixedLong
<1>5. \A a, e : \A n \in Nat : Long(Cons(a, FixedTail(e, n, r)), end)
  BY FixedLong, LongCons
<1>6. \A fn, at, kind, c, e : ListFace(fn, at, kind, c, e, y, r) => Long(y, end)
  BY <1>1, <1>2, Zenon DEF ListFace, ElementRest
<1>7. \A at, n, e : FixedFace(at, n, e, y, r) => Long(y, end)
  BY <1>1, <1>4, <1>5, Zenon DEF FixedFace
<1>8. \A at, e : MapFace(at, e, y, r) => Long(y, end)
  BY <1>1, <1>2, <1>3, Zenon DEF MapFace, MapAhead
<1>9. ASSUME NEW p, NEW q, SkipFace(p, q, y, r, end) PROVE Long(y, end)
  BY <1>1, <1>9, SkipsLong DEF SkipFace
<1>10. \A at, e, key : StructFace(at, e, key, y, r) => Long(y, end)
  BY StructLong
<1> QED BY <1>1, <1>6, <1>7, <1>8, <1>9, <1>10, Zenon DEF Face

-----------------------------------------------------------------------------
(***************************************************************************)
(* What the next token of a document that fits can be there, and what the  *)
(* function faces behind it.                                               *)
(***************************************************************************)
KeyOf(e, t) == IF t \in DOMAIN Index[e] THEN t ELSE NoKey

LEMMA FieldTyped ==
    ASSUME NEW e \in DOMAIN Index, NEW key \in DOMAIN Index[e]
    PROVE  /\ Typed(Index[e][key].k, Index[e][key].elt) /\ Index[e][key].elt # "any"
           /\ MemberValue("struct", e, key)
                = Sym(IF Index[e][key].null THEN "nullable" ELSE "val",
                      Index[e][key].k, Index[e][key].elt)
<1>1. Typed(Index[e][key].k, Index[e][key].elt)
  BY IndexFacts DEF Typed
<1>2. Index[e][key].elt # "any"
  BY <1>1, DocumentFacts DEF Typed, Scalar
<1>3. MemberValue("struct", e, key)
        = Sym(IF Index[e][key].null THEN "nullable" ELSE "val",
              Index[e][key].k, Index[e][key].elt)
  BY DEF MemberValue
<1> QED BY <1>1, <1>2, <1>3

LEMMA MemberSkippable ==
    ASSUME NEW e \in DOMAIN Index, NEW key
    PROVE  Skippable(MemberValue("struct", e, key))
<1> DEFINE a == MemberValue("struct", e, key)
<1>1. CASE key \in DOMAIN Index[e]
  <2> DEFINE f == Index[e][key]
  <2>1. Typed(f.k, f.elt) /\ a = Sym(IF f.null THEN "nullable" ELSE "val", f.k, f.elt)
    BY <1>1, FieldTyped
  <2> HIDE DEF f, a
  <2>2. Valued(a)
    BY <2>1 DEF Valued
  <2> QED BY <2>2, Zenon DEF Skippable, a
<1>2. CASE key \notin DOMAIN Index[e]
  <2>1. a = Sym("val", "any", "any")
    BY <1>2 DEF MemberValue
  <2> HIDE DEF a
  <2>2. Valued(a)
    BY <2>1 DEF Valued
  <2> QED BY <2>2, Zenon DEF Skippable, a
<1> QED BY <1>1, <1>2

LEMMA MemberColon ==
    ASSUME NEW e \in DOMAIN Index, NEW t, NEW r
    PROVE  ColonFace(e, KeyOf(e, t), MemberRest("struct", e, t, r), r)
<1> DEFINE a == MemberValue("struct", e, t)
           q == Cons(Sym("more", "struct", e), r)
<1>1. Skippable(a)
  BY MemberSkippable
<1>2. Resume(e, q, r)
  BY DEF Resume
<1>3. KeyOf(e, t) # NoKey => a = MemberValue("struct", e, KeyOf(e, t))
  BY DEF KeyOf
<1>4. MemberRest("struct", e, t, r) = Cons(Tok(":"), Cons(a, q))
  BY Zenon DEF MemberRest
<1> HIDE DEF a, q
<1> QED BY <1>1, <1>2, <1>3, <1>4, Zenon DEF ColonFace

LEMMA TagColon ==
    ASSUME NEW o \in DOMAIN Variants, NEW v \in DOMAIN Variants[o], NEW r, NEW end, Good(r, end),
           NEW t
    PROVE  LET e == Variants[o][v] IN
           /\ \A h \in Step(TagFirst(o, v, r), t) : IsString(t) /\ ColonFace(e, KeyOf(e, t), h, r)
           /\ \A h \in Step(TagSecond(o, v, r), t) : IsString(t) /\ ColonFace(e, KeyOf(e, t), h, r)
           /\ \A h \in Step(CommaTag(o, v, r), t) : t = "," /\ h = TagFirst(o, v, r)
<1> DEFINE e == Variants[o][v]
           q == Cons(Sym("more", "struct", e), r)
           y == Cons(Tok(":"), Cons(Tok(v), q))
           z == Cons(Tok(":"), Cons(Sym("val", "any", "any"), CommaTag(o, v, r)))
<1>1. e \in DOMAIN Index /\ IsString(v) /\ KeyOf(e, TagKey) = NoKey /\ KeyOf(e, Stray) = NoKey
  BY VariantFacts DEF KeyOf
<1>2. IsString(TagKey) /\ IsString(Stray)
  BY DocumentFacts
<1>3. TagFirst(o, v, r) = Cons(Tok(TagKey), y) /\ TagSecond(o, v, r) = Cons(Tok(Stray), z)
  BY Zenon DEF TagFirst, TagSecond, CommaTag
<1>4. Good(y, end) /\ Good(z, end) /\ Good(TagFirst(o, v, r), end)
  <2>1. \A w, a : Good(w, end) => Good(Cons(a, w), end)
    BY ConsFacts
  <2>2. Good(CommaTag(o, v, r), end) /\ Good(TagFirst(o, v, r), end)
    BY TagGood
  <2> QED BY <2>1, <2>2, Zenon
<1>5. Resume(e, q, r)
  BY Zenon DEF Resume
<1>6. Resume(e, CommaTag(o, v, r), r)
  BY Zenon DEF Resume, CommaFace
<1>7. Skippable(Tok(v)) /\ Skippable(Sym("val", "any", "any"))
  BY <1>1, Zenon DEF Skippable, Valued
<1>8. ColonFace(e, NoKey, y, r)
  <2> HIDE DEF q
  <2> QED BY <1>5, <1>7, Zenon DEF ColonFace
<1>9. ColonFace(e, NoKey, z, r)
  BY <1>6, <1>7, Zenon DEF ColonFace
<1> HIDE DEF y, z
<1>10. ASSUME NEW h \in Step(TagFirst(o, v, r), t)
       PROVE  IsString(t) /\ ColonFace(e, KeyOf(e, t), h, r)
  <2>1. h \in Step(Cons(Tok(TagKey), y), t)
    BY <1>3
  <2>2. t = TagKey /\ h = y
    BY <1>4, <2>1, StepTok
  <2> QED BY <1>1, <1>2, <1>8, <2>2, Zenon
<1>11. ASSUME NEW h \in Step(TagSecond(o, v, r), t)
       PROVE  IsString(t) /\ ColonFace(e, KeyOf(e, t), h, r)
  <2>1. h \in Step(Cons(Tok(Stray), z), t)
    BY <1>3
  <2>2. t = Stray /\ h = z
    BY <1>4, <2>1, StepTok
  <2> QED BY <1>1, <1>2, <1>9, <2>2, Zenon
<1>12. ASSUME NEW h \in Step(CommaTag(o, v, r), t)
       PROVE  t = "," /\ h = TagFirst(o, v, r)
  <2>1. h \in Step(Cons(Tok(","), TagFirst(o, v, r)), t)
    BY <1>12, Zenon DEF CommaTag
  <2> QED BY <1>4, <2>1, StepTok, Zenon
<1> QED BY <1>10, <1>11, <1>12, Zenon

LEMMA KeyStep ==
    ASSUME NEW e \in DOMAIN Index, NEW r, NEW end, Good(r, end), NEW y, KeyFace(e, y, r),
           NEW t, NEW h \in Step(y, t)
    PROVE  IsString(t) /\ ColonFace(e, KeyOf(e, t), h, r)
<1>1. CASE y = Cons(Sym("key", "struct", e), r)
  <2>1. IsString(t) /\ h = MemberRest("struct", e, t, r)
    BY <1>1, StepKey
  <2> QED BY <2>1, MemberColon
<1>2. CASE TagFace(e, y, r)
  <2>1. PICK o \in DOMAIN Variants : \E v \in DOMAIN Variants[o] :
              Variants[o][v] = e /\ y = TagFirst(o, v, r)
    BY <1>2 DEF TagFace
  <2>2. PICK v \in DOMAIN Variants[o] : Variants[o][v] = e /\ y = TagFirst(o, v, r)
    BY <2>1
  <2>3. h \in Step(TagFirst(o, v, r), t)
    BY <2>2
  <2> QED BY <2>2, <2>3, TagColon, Zenon
<1> QED BY <1>1, <1>2 DEF KeyFace

LEMMA FieldsStep ==
    ASSUME NEW e \in DOMAIN Index, NEW r, NEW end, Good(r, end), NEW y, FieldsFace(e, y, r),
           NEW t, NEW h \in Step(y, t)
    PROVE  \/ t = "}" /\ h = r
           \/ t = "," /\ KeyFace(e, h, r)
           \/ IsString(t) /\ ColonFace(e, KeyOf(e, t), h, r)
<1>1. CASE y = Cons(Sym("open", "struct", e), r)
  <2>1. (t = "}" /\ h = r) \/ (IsString(t) /\ h = MemberRest("struct", e, t, r))
    BY <1>1, StepOpen, Zenon
  <2> QED BY <2>1, MemberColon, Zenon
<1>2. CASE y = Cons(Sym("more", "struct", e), r)
  <2>1. (t = "}" /\ h = r) \/ (t = "," /\ h = Cons(Sym("key", "struct", e), r))
    BY <1>2, StepMore, Zenon
  <2> QED BY <2>1, Zenon DEF KeyFace
<1>3. CASE KeyFace(e, y, r)
  BY <1>3, KeyStep, Zenon
<1>4. CASE StrayFace(e, y, r)
  <2>1. PICK o \in DOMAIN Variants : \E v \in DOMAIN Variants[o] :
              Variants[o][v] = e /\ y = TagSecond(o, v, r)
    BY <1>4, Zenon DEF StrayFace
  <2>2. PICK v \in DOMAIN Variants[o] : Variants[o][v] = e /\ y = TagSecond(o, v, r)
    BY <2>1, Zenon
  <2>3. h \in Step(TagSecond(o, v, r), t)
    BY <2>2, Zenon
  <2> QED BY <2>2, <2>3, TagColon, Zenon
<1>5. CASE CommaFace(e, y, r)
  <2>1. PICK o \in DOMAIN Variants : \E v \in DOMAIN Variants[o] :
              Variants[o][v] = e /\ y = CommaTag(o, v, r)
    BY <1>5, Zenon DEF CommaFace
  <2>2. PICK v \in DOMAIN Variants[o] : Variants[o][v] = e /\ y = CommaTag(o, v, r)
    BY <2>1, Zenon
  <2>3. h \in Step(CommaTag(o, v, r), t)
    BY <2>2, Zenon
  <2>4. t = "," /\ h = TagFirst(o, v, r)
    BY <2>3, TagColon, Zenon
  <2> QED BY <2>2, <2>4, Zenon DEF KeyFace, TagFace
<1> QED BY <1>1, <1>2, <1>3, <1>4, <1>5, Zenon DEF FieldsFace, Resume

LEMMA SkipStep ==
    ASSUME NEW p, NEW q, NEW y, NEW r, NEW end, Good(r, end), SkipFace(p, q, y, r, end),
           NEW t, t # "eof", NEW h \in Step(y, t)
    PROVE  Read(t) /\ Skips(h, r, p + Up(t), q + Across(t), end)
<1>1. CASE p = 0 /\ q = 0 /\ \E a : Skippable(a) /\ y = Cons(a, r)
  <2>1. Skips(r, r, 0, 0, end)
    BY SkipsNone
  <2> QED BY <1>1, <2>1, ValueSkips
<1>2. CASE p + q > 0 /\ Skips(y, r, p, q, end)
  BY <1>2, SkipsStep
<1> QED BY <1>1, <1>2 DEF SkipFace

LEMMA SkipNext ==
    ASSUME NEW h, NEW r, NEW p, NEW q, NEW end, Skips(h, r, p, q, end)
    PROVE  /\ p \in Nat /\ q \in Nat /\ Good(h, end)
           /\ IF p = 0 /\ q = 0 THEN h = r ELSE SkipFace(p, q, h, r, end)
BY SkipsFacts DEF SkipFace

\* A value does not start with what ends one.
LEMMA ValueStart ==
    ASSUME NEW c, NEW e, Typed(c, e), NEW d, NEW end, Good(d, end), NEW t, t # "eof",
           NEW h \in Step(Cons(Sym("val", c, e), d), t)
    PROVE  t # "]" /\ t # ","
<1>1. ((t \in Literal \/ IsString(t)) /\ h = d) \/ Opening(h, d, t)
  BY ValCases, Zenon
<1>2. CASE t \in Literal \/ IsString(t)
  BY <1>2, Zenon DEF Literal, IsString, Punct
<1> QED BY <1>1, <1>2, Zenon DEF Opening

LEMMA ClosedCode ==
    ASSUME NEW e \in Scalar
    PROVE  ScalarCode(e, "]") = Code("]") /\ Code("]") # 0 /\ 0 # Code("]")
<1>1. ~IsString("]") /\ "]" \notin {"int", "true", "big", "float", "null", Enumerator}
  BY Zenon DEF IsString, Punct, Enumerator
<1>2. ScalarCode(e, "]") = Code("]")
  BY <1>1, Zenon DEF ScalarCode
<1> QED BY <1>2, CodesOK, Zenon

FixedNext(e, j, r, t, h) ==
    \/ t = "]" /\ h = r
    \/ t = "," /\ \E i \in Nat :
         j = i + 1 /\ h = Cons(Sym("val", "one", e), FixedTail(e, i, r))

LEMMA FixedStep ==
    ASSUME NEW e, NEW j \in Nat, NEW r, NEW end, Good(r, end), NEW t,
           NEW h \in Step(FixedTail(e, j, r), t)
    PROVE  FixedNext(e, j, r, t, h)
<1>1. CASE j = 0
  <2>1. FixedTail(e, j, r) = Cons(Tok("]"), r)
    BY <1>1 DEF FixedTail
  <2>2. t = "]" /\ h = r
    BY <2>1, StepTok
  <2> QED BY <2>2, Zenon DEF FixedNext
<1>2. CASE j # 0
  <2>1. FixedTail(e, j, r) = Cons(Tok(","), FixedArray(e, j) \o r)
    BY <1>2, Zenon DEF FixedTail
  <2>2. j - 1 \in Nat /\ (j - 1) + 1 = j
    BY <1>2
  <2>3. FixedArray(e, (j - 1) + 1) \o r = Cons(Sym("val", "one", e), FixedTail(e, j - 1, r))
        /\ Good(FixedTail(e, j - 1, r), end)
    BY <2>2, FixedCons
  <2>4. FixedArray(e, j) \o r = Cons(Sym("val", "one", e), FixedTail(e, j - 1, r))
    BY <2>2, <2>3
  <2>5. Good(Cons(Sym("val", "one", e), FixedTail(e, j - 1, r)), end)
    BY <2>3, ConsFacts
  <2>6. h \in Step(Cons(Tok(","), Cons(Sym("val", "one", e), FixedTail(e, j - 1, r))), t)
    BY <2>1, <2>4, Zenon
  <2>7. t = "," /\ h = Cons(Sym("val", "one", e), FixedTail(e, j - 1, r))
    BY <2>5, <2>6, StepTok, Zenon
  <2> QED BY <2>2, <2>7, Zenon DEF FixedNext
<1> QED BY <1>1, <1>2, Zenon

MapNext(e, r, t, h) ==
    \/ t = "}" /\ h = r
    \/ t = "," /\ h = Cons(Sym("key", "map", e), r)
    \/ /\ IsString(t)
       /\ h = Cons(Tok(":"), Cons(Sym("val", "one", e), Cons(Sym("more", "map", e), r)))

LEMMA MapStep ==
    ASSUME NEW e, NEW r, NEW end, Good(r, end), NEW y, MapAhead(e, y, r),
           NEW t, NEW h \in Step(y, t)
    PROVE  MapNext(e, r, t, h)
<1>1. MemberRest("map", e, t, r)
        = Cons(Tok(":"), Cons(Sym("val", "one", e), Cons(Sym("more", "map", e), r)))
  <2>1. MemberValue("map", e, t) = Sym("val", "one", e)
    BY DEF MemberValue
  <2> QED BY <2>1, Zenon DEF MemberRest
<1>2. CASE y = Cons(Sym("open", "map", e), r)
  <2>1. (t = "}" /\ h = r) \/ (IsString(t) /\ h = MemberRest("map", e, t, r))
    BY <1>2, StepOpen, Zenon
  <2> QED BY <1>1, <2>1, Zenon DEF MapNext
<1>3. CASE y = Cons(Sym("more", "map", e), r)
  <2>1. (t = "}" /\ h = r) \/ (t = "," /\ h = Cons(Sym("key", "map", e), r))
    BY <1>3, StepMore, Zenon
  <2> QED BY <2>1, Zenon DEF MapNext
<1>4. CASE y = Cons(Sym("key", "map", e), r)
  <2>1. IsString(t) /\ h = MemberRest("map", e, t, r)
    BY <1>4, StepKey, Zenon
  <2> QED BY <1>1, <2>1, Zenon DEF MapNext
<1> QED BY <1>2, <1>3, <1>4, Zenon DEF MapAhead

-----------------------------------------------------------------------------
(***************************************************************************)
(* What the active calls are still to consume, and what the innermost one  *)
(* faces.                                                                  *)
(***************************************************************************)
Owes(w, y, end) ==
    \E D : /\ D[0] = <<end>> /\ D[Len(w)] = y
           /\ \A i \in 0..Len(w) : Good(D[i], end)
           /\ \A i \in 1..Len(w) : After(w[i], D[i], D[i - 1])

\* A variant starts at the brace its oneof has looked past.
Opened(a) == a # <<>> /\ a[1] = "{"
Variant(f, r, a, x, end) ==
    /\ f.fn = "struct" /\ f.at = "open" /\ Opened(a)
    /\ \E h : Leads(h, Tail(a), x, end) /\ (TagFace(f.elt, h, r) \/ StrayFace(f.elt, h, r))

\* Where the scan for the discriminator v of oneof o has got to.
TagValue(o, v, r) == Cons(Tok(v), Cons(Sym("more", "struct", Variants[o][v]), r))
StrayValue(o, v, r) == Cons(Sym("val", "any", "any"), CommaTag(o, v, r))
ScanFace(at, key, p, q, o, v, x, r, end) ==
    \/ at = "key" /\ p = 0 /\ q = 0
         /\ (x = TagFirst(o, v, r) \/ x = TagSecond(o, v, r) \/ x = CommaTag(o, v, r))
    \/ at = "colon" /\ p = 0 /\ q = 0 /\ key = TagKey /\ x = Cons(Tok(":"), TagValue(o, v, r))
    \/ at = "colon" /\ p = 0 /\ q = 0 /\ key = NoKey /\ x = Cons(Tok(":"), StrayValue(o, v, r))
    \/ at = "tag" /\ x = TagValue(o, v, r)
    \/ at = "skip" /\ SkipFace(p, q, x, CommaTag(o, v, r), end)
Scanning(f, r, a, x, end) ==
    /\ f.fn = "oneof" /\ f.n \in 1..Len(a) /\ Opened(a)
    /\ \E gs : \E v \in DOMAIN Variants[f.elt] :
         /\ Path(gs, a, x, end)
         /\ gs[2] = TagFirst(f.elt, v, r) \/ gs[2] = TagSecond(f.elt, v, r)
         /\ ScanFace(f.at, f.key, f.brace, f.bracket, f.elt, v, gs[f.n + 1], r, end)

Facing(f, r, a, x, end) ==
    \/ \E y : Leads(y, a, x, end) /\ Face(f, y, r, end)
    \/ Variant(f, r, a, x, end)
    \/ Scanning(f, r, a, x, end)

(***************************************************************************)
(* The phases of a parse: in step with the document; behind its end; on    *)
(* the way out with an error, which only a document cut short or nested    *)
(* too deeply explains; and at the end of a scan that met the document's.  *)
(***************************************************************************)
Stacked(w, v, f) == v \in Seq(FrameSet) /\ f \in FrameSet /\ w = Append(v, f)

InSync(w, c, a, x, end) ==
    \/ c = <<0>> /\ \E y : Owes(w, y, end) /\ Leads(y, a, x, end)
    \/ c = <<>> /\ \E v, f, r : Stacked(w, v, f) /\ Owes(v, r, end) /\ Facing(f, r, a, x, end)
CutOff(w, c, a, x, end) == a = <<>> /\ x = <<Cut, end>> /\ (w = <<>> => c # << 0 >>)

\* A loop whose code the struct that called it takes no notice of.
Lenient(f) ==
    /\ f.fn = "struct" /\ f.at = "called"
    /\ Index[f.elt][f.key].k = "array" /\ Index[f.elt][f.key].elt \in Scalar
Refused(a, x, end) ==
    \/ x = <<Cut, end>>
    \/ end[2] = "deep" /\ Good(x, end) /\ ~(Len(x) = 1 /\ a = <<>>)
Failing(w, c, a, x, end) ==
    c = <<-1>> /\ (w # <<>> => ~Lenient(w[Len(w)])) /\ Refused(a, x, end)
Lagging(w, c, a, x, end) ==
    /\ c = <<>> /\ x = <<Cut, end>>
    /\ \E v, f : Stacked(w, v, f) /\ f.fn = "oneof" /\ f.at = "key" /\ f.n >= Len(a)

Tracks(w, c, a, x, end) ==
    \/ InSync(w, c, a, x, end) \/ CutOff(w, c, a, x, end)
    \/ Failing(w, c, a, x, end) \/ Lagging(w, c, a, x, end)

\* The document has just ended.
CutNow(end) == goal' = <<Cut, end>> /\ ahead' = <<>>

LEMMA OwesNothing ==
    ASSUME NEW y, NEW end
    PROVE  Owes(<<>>, y, end) <=> y = <<end>>
<1>1. ASSUME Owes(<<>>, y, end) PROVE y = <<end>>
  BY <1>1 DEF Owes
<1>2. ASSUME y = <<end>> PROVE Owes(<<>>, y, end)
  <2> DEFINE D == [i \in {0} |-> y]
  <2>1. Good(y, end)
    BY <1>2, EndGood
  <2>2. D[0] = y /\ Len(<<>>) = 0
    OBVIOUS
  <2> HIDE DEF D
  <2>3. \A i \in 0..Len(<<>>) : Good(D[i], end)
    BY <2>1, <2>2
  <2>4. \A i \in 1..Len(<<>>) : After((<<>>)[i], D[i], D[i - 1])
    BY <2>2
  <2>5. D[Len(<<>>)] = y /\ D[0] = <<end>>
    BY <1>2, <2>2
  <2> QED BY <2>3, <2>4, <2>5, Zenon DEF Owes
<1> QED BY <1>1, <1>2

LEMMA OwesGood ==
    ASSUME NEW w \in Seq(FrameSet), NEW y, NEW end, Owes(w, y, end)
    PROVE  Good(y, end)
<1>1. PICK D : D[Len(w)] = y /\ \A i \in 0..Len(w) : Good(D[i], end)
  BY DEF Owes
<1>2. Len(w) \in 0..Len(w)
  OBVIOUS
<1> QED BY <1>1, <1>2

LEMMA OwesPush ==
    ASSUME NEW w \in Seq(FrameSet), NEW f \in FrameSet, NEW r, NEW y, NEW end,
           Owes(w, r, end), After(f, y, r), Good(y, end)
    PROVE  Owes(Append(w, f), y, end)
<1> DEFINE n == Len(w)
           u == Append(w, f)
<1>1. PICK D : /\ D[0] = <<end>> /\ D[n] = r
               /\ \A i \in 0..n : Good(D[i], end)
               /\ \A i \in 1..n : After(w[i], D[i], D[i - 1])
  BY DEF Owes
<1>2. n \in Nat /\ Len(u) = n + 1 /\ u[n + 1] = f /\ \A i \in 1..n : u[i] = w[i]
  OBVIOUS
<1> DEFINE E == [i \in 0..n + 1 |-> IF i = n + 1 THEN y ELSE D[i]]
<1>3. E[n + 1] = y /\ \A i \in 0..n : E[i] = D[i]
  BY <1>2
<1> HIDE DEF E, u
<1>4. E[0] = <<end>>
  BY <1>1, <1>2, <1>3
<1>5. \A i \in 0..n + 1 : Good(E[i], end)
  BY <1>1, <1>2, <1>3
<1>6. ASSUME NEW i \in 1..n + 1 PROVE After(u[i], E[i], E[i - 1])
  <2>1. CASE i = n + 1
    <3>1. E[i - 1] = r /\ E[i] = y /\ u[i] = f
      BY <1>1, <1>2, <1>3, <2>1
    <3> QED BY <3>1
  <2>2. CASE i # n + 1
    <3>1. i \in 1..n /\ i \in 0..n /\ i - 1 \in 0..n
      BY <1>2, <2>2
    <3>2. E[i - 1] = D[i - 1] /\ E[i] = D[i] /\ u[i] = w[i]
      BY <1>2, <1>3, <3>1
    <3>3. After(w[i], D[i], D[i - 1])
      BY <1>1, <3>1
    <3> QED BY <3>2, <3>3
  <2> QED BY <2>1, <2>2
<1>7. Owes(u, y, end)
  BY <1>2, <1>3, <1>4, <1>5, <1>6, Zenon DEF Owes
<1> QED BY <1>7 DEF u

LEMMA OwesPop ==
    ASSUME NEW w \in Seq(FrameSet), NEW f \in FrameSet, NEW y, NEW end,
           Owes(Append(w, f), y, end)
    PROVE  \E r : Owes(w, r, end) /\ After(f, y, r) /\ Good(r, end)
<1> DEFINE n == Len(w)
           u == Append(w, f)
<1>1. PICK D : /\ D[0] = <<end>> /\ D[Len(u)] = y
               /\ \A i \in 0..Len(u) : Good(D[i], end)
               /\ \A i \in 1..Len(u) : After(u[i], D[i], D[i - 1])
  BY DEF Owes
<1>2. n \in Nat /\ Len(u) = n + 1 /\ u[n + 1] = f /\ \A i \in 1..n : u[i] = w[i]
  OBVIOUS
<1> HIDE DEF u
<1>3. After(f, y, D[n]) /\ Good(D[n], end)
  <2>1. n + 1 \in 1..Len(u) /\ n \in 0..Len(u) /\ (n + 1) - 1 = n
    BY <1>2
  <2>2. After(u[n + 1], D[n + 1], D[(n + 1) - 1])
    BY <1>1, <2>1
  <2> QED BY <1>1, <1>2, <2>1, <2>2
<1>4. \A i \in 0..n : Good(D[i], end)
  BY <1>1, <1>2
<1>5. ASSUME NEW i \in 1..n PROVE After(w[i], D[i], D[i - 1])
  <2>1. i \in 1..Len(u) /\ u[i] = w[i]
    BY <1>2
  <2>2. After(u[i], D[i], D[i - 1])
    BY <1>1, <2>1
  <2> QED BY <2>1, <2>2
<1>6. Owes(w, D[n], end)
  BY <1>1, <1>4, <1>5, Zenon DEF Owes
<1> QED BY <1>3, <1>6

LEMMA StackedOnce ==
    ASSUME NEW w, NEW v, NEW f, NEW u, NEW g, Stacked(w, v, f), Stacked(w, u, g)
    PROVE  v = u /\ f = g
<1>1. v \in Seq(FrameSet) /\ f \in FrameSet /\ u \in Seq(FrameSet) /\ g \in FrameSet
      /\ Append(v, f) = Append(u, g)
  BY DEF Stacked
<1> DEFINE a == Append(v, f)
           b == Append(u, g)
<1>2. /\ Len(a) = Len(v) + 1 /\ a[Len(v) + 1] = f /\ \A i \in 1..Len(v) : a[i] = v[i]
      /\ Len(v) \in Nat
  BY <1>1
<1>3. /\ Len(b) = Len(u) + 1 /\ b[Len(u) + 1] = g /\ \A i \in 1..Len(u) : b[i] = u[i]
      /\ Len(u) \in Nat
  BY <1>1
<1>4. a = b
  BY <1>1
<1> HIDE DEF a, b
<1>5. Len(v) = Len(u) /\ f = g
  BY <1>2, <1>3, <1>4
<1>6. \A i \in 1..Len(v) : v[i] = u[i]
  BY <1>2, <1>3, <1>4, <1>5
<1>7. v = u
  BY <1>1, <1>5, <1>6, SeqEqual
<1> QED BY <1>5, <1>7

LEMMA Unstack ==
    ASSUME ControlOK, ~Done
    PROVE  Stacked(stack, Below, Top)
<1> DEFINE v == Below
           b == Append(v, Top)
<1>1. /\ Len(stack) \in Nat \ {0} /\ Top = stack[Len(stack)] /\ Top \in FrameSet
      /\ v \in Seq(FrameSet) /\ Len(v) = Len(stack) - 1
      /\ \A i \in 1..Len(v) : v[i] = stack[i]
  BY TopFacts
<1> HIDE DEF v
<1>2. b \in Seq(FrameSet) /\ Len(b) = Len(v) + 1 /\ b[Len(v) + 1] = Top
      /\ \A i \in 1..Len(v) : b[i] = v[i]
  BY <1>1
<1> HIDE DEF b
<1>3. stack \in Seq(FrameSet) /\ Len(b) = Len(stack)
  BY <1>1, <1>2 DEF ControlOK
<1>4. \A i \in 1..Len(stack) : stack[i] = b[i]
  BY <1>1, <1>2, <1>3
<1>5. stack = b
  BY <1>2, <1>3, <1>4, SeqEqual
<1> QED BY <1>1, <1>5 DEF Stacked, b, v

-----------------------------------------------------------------------------
(***************************************************************************)
(* Control: what a step does to a parse in step with its document.         *)
(***************************************************************************)
LEMMA SyncFacing ==
    ASSUME ControlOK, ~Done, ret = <<>>, NEW end, InSync(stack, ret, ahead, goal, end)
    PROVE  \E r : Owes(Below, r, end) /\ Good(r, end) /\ Facing(Top, r, ahead, goal, end)
<1>1. <<>> # << 0 >>
  OBVIOUS
<1>2. PICK v, f, r : /\ Stacked(stack, v, f) /\ Owes(v, r, end)
                     /\ Facing(f, r, ahead, goal, end)
  BY <1>1, Zenon DEF InSync
<1>3. v = Below /\ f = Top
  BY <1>2, Unstack, StackedOnce
<1>4. Good(r, end)
  BY <1>2, OwesGood DEF Stacked
<1> QED BY <1>2, <1>3, <1>4

LEMMA SyncAfter ==
    ASSUME ControlOK, ~Done, ret # <<>>, NEW end, InSync(stack, ret, ahead, goal, end)
    PROVE  /\ ret = << 0 >> /\ ret[1] = 0
           /\ \E r, y : /\ Owes(Below, r, end) /\ Good(r, end) /\ After(Top, y, r)
                        /\ Good(y, end) /\ Leads(y, ahead, goal, end)
<1>1. ret = <<0>> /\ \E y : Owes(stack, y, end) /\ Leads(y, ahead, goal, end)
  BY Zenon DEF InSync
<1>2. PICK y : Owes(stack, y, end) /\ Leads(y, ahead, goal, end)
  BY <1>1
<1>3. Below \in Seq(FrameSet) /\ Top \in FrameSet /\ stack = Append(Below, Top)
  BY Unstack DEF Stacked
<1>4. PICK r : Owes(Below, r, end) /\ After(Top, y, r) /\ Good(r, end)
  <2> DEFINE v == Below
             f == Top
  <2>1. v \in Seq(FrameSet) /\ f \in FrameSet /\ Owes(Append(v, f), y, end)
    BY <1>2, <1>3
  <2> HIDE DEF v, f
  <2>2. \E r : Owes(v, r, end) /\ After(f, y, r) /\ Good(r, end)
    BY <2>1, OwesPop
  <2> QED BY <2>2 DEF v, f
<1>5. Good(y, end)
  BY <1>2, LeadsGood
<1>6. ret[1] = 0
  BY <1>1
<1> QED BY <1>1, <1>2, <1>4, <1>5, <1>6

LEMMA StayIn ==
    ASSUME ControlOK, ~Done, NEW f \in FrameSet, Become(f), NEW r, NEW end, Owes(Below, r, end),
           Facing(f, r, ahead', goal', end)
    PROVE  Tracks(stack', ret', ahead', goal', end)
<1>1. Stacked(stack', Below, f) /\ ret' = <<>>
  BY TopFacts DEF Become, Stacked
<1> QED BY <1>1, Zenon DEF Tracks, InSync

LEMMA CallIn ==
    ASSUME ControlOK, ~Done, NEW f \in FrameSet, NEW g \in FrameSet,
           stack' = Append(Append(Below, f), g), ret' = <<>>,
           NEW r, NEW y, NEW end, Owes(Below, r, end), After(f, y, r), Good(y, end),
           Facing(g, y, ahead', goal', end)
    PROVE  Tracks(stack', ret', ahead', goal', end)
<1> DEFINE v == Below
           w == Append(v, f)
<1>1. v \in Seq(FrameSet)
  BY TopFacts
<1>a. Owes(v, r, end)
  OBVIOUS
<1> HIDE DEF v
<1>2. w \in Seq(FrameSet) /\ Owes(w, y, end)
  <2>1. w \in Seq(FrameSet)
    BY <1>1
  <2> QED BY <1>1, <1>a, <2>1, OwesPush
<1>3. Stacked(stack', w, g)
  <2>1. stack' = Append(w, g)
    BY DEF v
  <2> HIDE DEF w
  <2> QED BY <1>2, <2>1 DEF Stacked
<1> HIDE DEF w
<1> QED BY <1>2, <1>3, Zenon DEF Tracks, InSync

LEMMA ReturnIn ==
    ASSUME Return(0), NEW r, NEW end, Owes(Below, r, end), Leads(r, ahead', goal', end)
    PROVE  Tracks(stack', ret', ahead', goal', end)
<1>1. stack' = Below /\ ret' = <<0>>
  BY DEF Return
<1>2. Owes(stack', r, end)
  BY <1>1
<1> QED BY <1>1, <1>2, Zenon DEF Tracks, InSync

LEMMA CutIn ==
    ASSUME NEW end, CutNow(end), Done' => ret' # << 0 >>
    PROVE  Tracks(stack', ret', ahead', goal', end)
<1>1. stack' = <<>> => ret' # << 0 >>
  BY DEF Done
<1>2. goal' = <<Cut, end>> /\ ahead' = <<>>
  BY DEF CutNow
<1> QED BY <1>1, <1>2, Zenon DEF Tracks, CutOff

\* One token, where nothing but the goal before it matters.
PlainFace(r, y, end) ==
    Owes(Below, r, end) /\ Good(r, end) /\ Face(Top, y, r, end) /\ Long(y, end)
Took(h, t, end) == t # "stuck" /\ Good(h, end) => Leads(h, ahead', goal', end)
Peeked(h, t, end) ==
    \A z : Good(z, end) /\ Good(h, end) /\ h \in Step(z, t) => Leads(z, ahead', goal', end)

LEMMA PlainFacing ==
    ASSUME NEW f, NEW r, NEW a, NEW x, NEW end, Facing(f, r, a, x, end),
           f.fn # "oneof", f.fn = "struct" => f.at # "open"
    PROVE  \E y : Leads(y, a, x, end) /\ Face(f, y, r, end)
BY Zenon DEF Facing, Variant, Scanning

LEMMA CutFollows ==
    ASSUME NEW x, NEW end, Long(x, end), NEW t, Ended(x, t), ahead = <<>>
    PROVE  t = "eof" /\ CutNow(end)
<1>1. t = "eof" /\ goal' = CutShort(goal) /\ goal = x /\ ahead' = ahead
  BY DEF Ended
<1>2. goal' = CutShort(x)
  BY <1>1
<1> QED BY <1>1, <1>2, LongCut DEF CutNow

LEMMA TakeFaced ==
    ASSUME IInv, NEW y, NEW end, Long(y, end), Leads(y, ahead, goal, end),
           NEW t \in Input, Take(t)
    PROVE  \/ t = "eof" /\ CutNow(end)
           \/ t # "eof" /\ \E h \in Step(y, t) : Took(h, t, end)
<1>1. \/ Ended(y, t) /\ ahead = <<>>
      \/ t # "eof" /\ \E h \in Step(y, t) :
            t # "stuck" /\ Good(h, end) => Leads(h, ahead', goal', end)
  BY TakeStep DEF IInv
<1>2. CASE Ended(y, t) /\ ahead = <<>>
  BY <1>2, CutFollows
<1>3. CASE t # "eof" /\ \E h \in Step(y, t) :
            t # "stuck" /\ Good(h, end) => Leads(h, ahead', goal', end)
  BY <1>3, Zenon DEF Took
<1> QED BY <1>1, <1>2, <1>3

LEMMA PeekFaced ==
    ASSUME IInv, NEW y, NEW end, Long(y, end), Leads(y, ahead, goal, end),
           NEW t \in Input, Peek(0, t)
    PROVE  \/ t = "eof" /\ CutNow(end)
           \/ t # "eof" /\ \E h \in Step(y, t) : Peeked(h, t, end)
<1>1. \/ Ended(y, t) /\ ahead = <<>>
      \/ t # "eof" /\ \E h \in Step(y, t) :
                 /\ ahead' \in Seq(Input) /\ ahead' # <<>> /\ Head(ahead') = t
                 /\ Good(h, end) => Leads(h, Tail(ahead'), goal', end)
  BY PeekStep DEF IInv
<1>2. CASE Ended(y, t) /\ ahead = <<>>
  BY <1>2, CutFollows
<1>3. ASSUME t # "eof", NEW h \in Step(y, t), ahead' \in Seq(Input), ahead' # <<>>,
             Head(ahead') = t, Good(h, end) => Leads(h, Tail(ahead'), goal', end)
      PROVE  Peeked(h, t, end)
  <2>1. ASSUME NEW z, Good(z, end), Good(h, end), h \in Step(z, t)
        PROVE  Leads(z, ahead', goal', end)
    BY <1>3, <2>1, LeadsCons
  <2> QED BY <2>1 DEF Peeked
<1> QED BY <1>1, <1>2, <1>3

\* The two ways a call that is no oneof and no struct not yet opened reads on.
LEMMA TakeSync ==
    ASSUME IInv, ~Done, ret = <<>>, NEW end, InSync(stack, ret, ahead, goal, end),
           Top.fn # "oneof", Top.fn = "struct" => Top.at # "open", NEW t \in Input, Take(t)
    PROVE  \/ t = "eof" /\ CutNow(end)
           \/ t # "eof" /\ \E r, y : PlainFace(r, y, end) /\ \E h \in Step(y, t) : Took(h, t, end)
<1>1. PICK r : Owes(Below, r, end) /\ Good(r, end) /\ Facing(Top, r, ahead, goal, end)
  BY SyncFacing DEF IInv
<1>2. PICK y : Leads(y, ahead, goal, end) /\ Face(Top, y, r, end)
  BY <1>1, PlainFacing
<1>3. Long(y, end)
  BY <1>1, <1>2, FaceLong
<1>4. \/ t = "eof" /\ CutNow(end)
      \/ t # "eof" /\ \E h \in Step(y, t) : Took(h, t, end)
  BY <1>2, <1>3, TakeFaced
<1> QED BY <1>1, <1>2, <1>3, <1>4, Zenon DEF PlainFace

LEMMA PeekSync ==
    ASSUME IInv, ~Done, ret = <<>>, NEW end, InSync(stack, ret, ahead, goal, end),
           Top.fn # "oneof", Top.fn = "struct" => Top.at # "open", NEW t \in Input, Peek(0, t)
    PROVE  \/ t = "eof" /\ CutNow(end)
           \/ t # "eof" /\ \E r, y : PlainFace(r, y, end) /\ \E h \in Step(y, t) : Peeked(h, t, end)
<1>1. PICK r : Owes(Below, r, end) /\ Good(r, end) /\ Facing(Top, r, ahead, goal, end)
  BY SyncFacing DEF IInv
<1>2. PICK y : Leads(y, ahead, goal, end) /\ Face(Top, y, r, end)
  BY <1>1, PlainFacing
<1>3. Long(y, end)
  BY <1>1, <1>2, FaceLong
<1>4. \/ t = "eof" /\ CutNow(end)
      \/ t # "eof" /\ \E h \in Step(y, t) : Peeked(h, t, end)
  BY <1>2, <1>3, PeekFaced
<1> QED BY <1>1, <1>2, <1>3, <1>4, Zenon DEF PlainFace

-----------------------------------------------------------------------------
(***************************************************************************)
(* The frame a step leaves on top.                                         *)
(***************************************************************************)
Moves(f, at, key, n, p, q) ==
    /\ f \in FrameSet /\ Become(f)
    /\ f.fn = Top.fn /\ f.elt = Top.elt /\ f.depth = Top.depth
    /\ f.at = at /\ f.key = key /\ f.n = n /\ f.brace = p /\ f.bracket = q

LEMMA MovedFields ==
    ASSUME NEW f, NEW at, NEW key, NEW n, NEW p, NEW q
    PROVE  LET m == Moved(f, at, key, n, p, q)
           IN  /\ m.fn = f.fn /\ m.elt = f.elt /\ m.depth = f.depth /\ m.at = at
               /\ m.key = key /\ m.n = n /\ m.brace = p /\ m.bracket = q /\ m.mask = f.mask
BY DEF Moved

LEMMA AtMoved ==
    ASSUME NEW f \in FrameSet, NEW at
    PROVE  [f EXCEPT !.at = at] = Moved(f, at, f.key, f.n, f.brace, f.bracket)
BY DEF FrameSet, Moved

LEMMA ExceptMoved ==
    ASSUME NEW f \in FrameSet, NEW at, NEW key, NEW n
    PROVE  /\ [f EXCEPT !.at = at, !.key = key] = Moved(f, at, key, f.n, f.brace, f.bracket)
           /\ [f EXCEPT !.at = at, !.n = n] = Moved(f, at, f.key, n, f.brace, f.bracket)
<1> DEFINE g == [f EXCEPT !.at = at]
<1>1. g = Moved(f, at, f.key, f.n, f.brace, f.bracket)
  BY AtMoved
<1>2. /\ [f EXCEPT !.at = at, !.key = key] = [g EXCEPT !.key = key]
      /\ [f EXCEPT !.at = at, !.n = n] = [g EXCEPT !.n = n]
  OBVIOUS
<1> HIDE DEF g
<1>3. /\ [g EXCEPT !.key = key] = Moved(f, at, key, f.n, f.brace, f.bracket)
      /\ [g EXCEPT !.n = n] = Moved(f, at, f.key, n, f.brace, f.bracket)
  BY <1>1 DEF Moved
<1> QED BY <1>2, <1>3

LEMMA BecomeMoves ==
    ASSUME ControlOK, ControlOK', ~Done, NEW at, NEW key, NEW n, NEW p, NEW q,
           Become(Moved(Top, at, key, n, p, q))
    PROVE  \E f : Moves(f, at, key, n, p, q)
<1> DEFINE f == Moved(Top, at, key, n, p, q)
           v == Below
<1>1. /\ f.fn = Top.fn /\ f.elt = Top.elt /\ f.depth = Top.depth /\ f.at = at
      /\ f.key = key /\ f.n = n /\ f.brace = p /\ f.bracket = q
  BY MovedFields
<1>2. Become(f)
  OBVIOUS
<1> HIDE DEF f
<1>3. stack' = Append(v, f) /\ stack' \in Seq(FrameSet) /\ v \in Seq(FrameSet)
  BY <1>2, TopFacts DEF Become, ControlOK
<1> HIDE DEF v
<1>4. f \in FrameSet
  <2>1. Append(v, f) \in Seq(FrameSet)
    BY <1>3
  <2>2. Len(v) + 1 \in 1..Len(Append(v, f)) /\ Append(v, f)[Len(v) + 1] = f
    BY <1>3
  <2> DEFINE u == Append(v, f)
  <2>3. u \in Seq(FrameSet) /\ Len(v) + 1 \in 1..Len(u) /\ u[Len(v) + 1] = f
    BY <2>1, <2>2
  <2> HIDE DEF u
  <2> QED BY <2>3
<1> QED BY <1>1, <1>2, <1>4, Zenon DEF Moves

LEMMA GotoMoves ==
    ASSUME ControlOK, ControlOK', ~Done, NEW at, Goto(at)
    PROVE  \E f : Moves(f, at, Top.key, Top.n, Top.brace, Top.bracket)
<1>1. Top \in FrameSet
  BY TopFacts
<1>2. Become(Moved(Top, at, Top.key, Top.n, Top.brace, Top.bracket))
  BY <1>1, AtMoved, Zenon DEF Goto
<1> QED BY <1>2, BecomeMoves

LEMMA KeyMoves ==
    ASSUME ControlOK, ControlOK', ~Done, NEW at, NEW key, Become([Top EXCEPT !.at = at, !.key = key])
    PROVE  \E f : Moves(f, at, key, Top.n, Top.brace, Top.bracket)
<1>1. Top \in FrameSet
  BY TopFacts
<1>2. Become(Moved(Top, at, key, Top.n, Top.brace, Top.bracket))
  BY <1>1, ExceptMoved, Zenon
<1> QED BY <1>2, BecomeMoves

LEMMA StoredMoves ==
    ASSUME ControlOK, ControlOK', ~Done, NEW at, Stored(at)
    PROVE  \E f, n : /\ Moves(f, at, Top.key, n, Top.brace, Top.bracket)
                     /\ Top.n <= MaxTokens => n = Top.n + 1
<1>1. Top \in FrameSet /\ Top.n \in Nat
  BY TopFacts
<1> DEFINE n == IF Top.n > MaxTokens THEN Top.n ELSE Top.n + 1
<1>2. [Top EXCEPT !.at = at, !.n = IF @ > MaxTokens THEN @ ELSE @ + 1]
        = [Top EXCEPT !.at = at, !.n = n]
  <2> DEFINE g == [Top EXCEPT !.at = at]
  <2>1. g.n = Top.n
    BY <1>1 DEF FrameSet
  <2> HIDE DEF g
  <2>2. [g EXCEPT !.n = IF @ > MaxTokens THEN @ ELSE @ + 1] = [g EXCEPT !.n = n]
    BY <2>1
  <2> QED BY <2>2 DEF g
<1>3. Top.n <= MaxTokens => n = Top.n + 1
  BY <1>1, BoundsOK
<1> HIDE DEF n
<1>4. Become(Moved(Top, at, Top.key, n, Top.brace, Top.bracket))
  BY <1>1, <1>2, ExceptMoved, Zenon DEF Stored
<1> QED BY <1>3, <1>4, BecomeMoves, Zenon

LEMMA LevelMoves ==
    ASSUME NEW f \in FrameSet, NEW t
    PROVE  Level(f, t) = Moved(f, f.at, f.key, f.n, f.brace + Up(t), f.bracket + Across(t))
<1> DEFINE b == Up(t)
           c == Across(t)
           h == [f EXCEPT !.brace = f.brace + b]
<1>1. h.bracket = f.bracket
  BY DEF FrameSet
<1>2. Level(f, t) = [h EXCEPT !.bracket = f.bracket + c]
  <2>1. Level(f, t) = [f EXCEPT !.brace = f.brace + b, !.bracket = f.bracket + c]
    BY Zenon DEF Level, Up, Across
  <2> HIDE DEF b, c
  <2> QED BY <2>1
<1> HIDE DEF b, c
<1>3. Level(f, t) = Moved(f, f.at, f.key, f.n, f.brace + b, f.bracket + c)
  BY <1>1, <1>2 DEF FrameSet, Moved
<1> QED BY <1>3 DEF b, c

\* The frames a call leaves behind and puts on top.
LEMMA CallMoves ==
    ASSUME ControlOK, ControlOK', ~Done, NEW at, NEW g, Call(at, g)
    PROVE  /\ g \in FrameSet
           /\ \E f \in FrameSet :
                /\ stack' = Append(Append(Below, f), g) /\ ret' = <<>>
                /\ f.fn = Top.fn /\ f.elt = Top.elt /\ f.at = at /\ f.n = Top.n /\ f.key = Top.key
                /\ f.depth = Top.depth
<1> DEFINE f == [Top EXCEPT !.at = at]
           v == Below
<1>1. Top \in FrameSet /\ v \in Seq(FrameSet)
  BY TopFacts
<1>a. f = Moved(Top, at, Top.key, Top.n, Top.brace, Top.bracket)
  BY <1>1, AtMoved
<1>2. /\ f.fn = Top.fn /\ f.elt = Top.elt /\ f.at = at /\ f.n = Top.n /\ f.key = Top.key
      /\ f.depth = Top.depth
  BY <1>a, MovedFields
<1>3. stack' = Append(Append(v, f), g) /\ ret' = <<>> /\ stack' \in Seq(FrameSet)
  BY DEF Call, ControlOK
<1> HIDE DEF f, v
<1>4. f \in FrameSet /\ g \in FrameSet
  <2> DEFINE u == Append(v, f)
             w == Append(u, g)
             S == FrameSet \cup {f, g}
  <2>1. v \in Seq(S) /\ f \in S /\ g \in S
    <3>1. FrameSet \subseteq S
      OBVIOUS
    <3> HIDE DEF S
    <3>2. v \in Seq(S)
      BY <1>1, <3>1
    <3> QED BY <3>2 DEF S
  <2> HIDE DEF S
  <2>2. u \in Seq(S) /\ Len(u) = Len(v) + 1 /\ u[Len(v) + 1] = f /\ Len(v) \in Nat
    BY <2>1
  <2> HIDE DEF u
  <2>3. /\ Len(w) = Len(u) + 1 /\ w[Len(u) + 1] = g
        /\ \A i \in 1..Len(u) : w[i] = u[i]
    BY <2>1, <2>2
  <2>4. w \in Seq(FrameSet)
    BY <1>3 DEF u
  <2> HIDE DEF w
  <2>5. Len(v) + 1 \in 1..Len(w) /\ Len(u) + 1 \in 1..Len(w) /\ w[Len(v) + 1] = f
    BY <2>2, <2>3
  <2>6. \A i \in 1..Len(w) : w[i] \in FrameSet
    BY <2>4
  <2> QED BY <2>3, <2>5, <2>6
<1> QED BY <1>2, <1>3, <1>4, Zenon DEF v

LEMMA MoveLeads ==
    ASSUME ControlOK, ~Done, NEW f, NEW at, NEW key, NEW n, NEW p, NEW q,
           Moves(f, at, key, n, p, q), NEW r, NEW end, Owes(Below, r, end),
           NEW h, Leads(h, ahead', goal', end), Face(f, h, r, end)
    PROVE  Tracks(stack', ret', ahead', goal', end)
<1>1. Facing(f, r, ahead', goal', end)
  BY Zenon DEF Facing
<1>2. f \in FrameSet /\ Become(f)
  BY Zenon DEF Moves
<1> QED BY <1>1, <1>2, StayIn

LEMMA MoveIn ==
    ASSUME ControlOK, ~Done, NEW f, NEW at, NEW key, NEW n, NEW p, NEW q,
           Moves(f, at, key, n, p, q), NEW r, NEW end, Owes(Below, r, end), Good(r, end),
           NEW h, NEW t, Took(h, t, end), t # "stuck", Face(f, h, r, end)
    PROVE  Tracks(stack', ret', ahead', goal', end)
<1>1. Good(h, end)
  BY FaceLong, LongCut
<1>2. Leads(h, ahead', goal', end)
  BY <1>1, Zenon DEF Took
<1> QED BY <1>2, MoveLeads

LEMMA PeekIn ==
    ASSUME ControlOK, ~Done, NEW f, NEW at, NEW key, NEW n, NEW p, NEW q,
           Moves(f, at, key, n, p, q), NEW r, NEW end, Owes(Below, r, end), Good(r, end),
           NEW h, NEW t, Peeked(h, t, end), Good(h, end), NEW z, h \in Step(z, t),
           Face(f, z, r, end)
    PROVE  Tracks(stack', ret', ahead', goal', end)
<1>1. Good(z, end)
  BY FaceLong, LongCut
<1>2. Leads(z, ahead', goal', end)
  BY <1>1, Zenon DEF Peeked
<1> QED BY <1>2, MoveLeads

LEMMA ValueGood ==
    ASSUME NEW a, Skippable(a), NEW d, NEW end, Good(d, end), NEW t, t # "eof",
           NEW h \in Step(Cons(a, d), t)
    PROVE  Good(h, end) /\ Read(t) /\ t # "stuck"
<1>1. Skips(d, d, 0, 0, end)
  BY SkipsNone
<1>2. Read(t) /\ Skips(h, d, 0 + Up(t), 0 + Across(t), end)
  BY <1>1, ValueSkips
<1> QED BY <1>2, SkipsFacts DEF Read

LEMMA TypedSkippable ==
    ASSUME NEW c, NEW e, Typed(c, e)
    PROVE  Skippable(Sym("val", c, e)) /\ Skippable(Sym("nullable", c, e))
BY Zenon DEF Skippable, Valued

LEMMA FrameFields ==
    ASSUME NEW fn, NEW elt, NEW d
    PROVE  LET g == Frame(fn, elt, d)
           IN  /\ g.fn = fn /\ g.at = "open" /\ g.elt = elt /\ g.depth = d
               /\ g.key = NoKey /\ g.n = 0 /\ g.brace = 0 /\ g.bracket = 0
BY DEF Frame

LEMMA StructTop ==
    ASSUME ControlOK, ~Done, Top.fn = "struct"
    PROVE  /\ Top.elt \in DOMAIN Index
           /\ Top.at \in {"nullable", "value", "called"} => Top.key \in DOMAIN Index[Top.elt]
           /\ Top.at = "colon" => Top.key \in DOMAIN Index[Top.elt] \cup {NoKey}
<1>1. FrameOK(Top)
  BY TopFacts DEF Stands
<1> QED BY <1>1 DEF FrameOK, Handles

LEMMA StructFaces ==
    ASSUME Top.fn = "struct", NEW r, NEW y, NEW end, PlainFace(r, y, end)
    PROVE  /\ StructFace(Top.at, Top.elt, Top.key, y, r)
           /\ Owes(Below, r, end) /\ Good(r, end)
<1>1. Face(Top, y, r, end) /\ Owes(Below, r, end) /\ Good(r, end)
  BY Zenon DEF PlainFace
<1> QED BY <1>1 DEF Face

LEMMA StructFaceIn ==
    ASSUME NEW f, NEW at, NEW key, NEW n, NEW p, NEW q, Moves(f, at, key, n, p, q),
           Top.fn = "struct", NEW h, NEW r, NEW end, StructFace(at, Top.elt, key, h, r)
    PROVE  Face(f, h, r, end)
<1>1. f.fn = "struct" /\ f.elt = Top.elt /\ f.at = at /\ f.key = key
  BY Zenon DEF Moves
<1> QED BY <1>1, Zenon DEF Face

-----------------------------------------------------------------------------
(***************************************************************************)
(* A struct in step with its document.                                     *)
(***************************************************************************)
LEMMA MinusOne == <<-1>> # << 0 >>
<1>1. <<-1>>[1] = -1 /\ <<0>>[1] = 0
  OBVIOUS
<1> QED BY <1>1

LEMMA StructFieldTracks ==
    ASSUME IInv, IInv', NEW end, InSync(stack, ret, ahead, goal, end), StructField
    PROVE  Tracks(stack', ret', ahead', goal', end)
<1>1. ~Done /\ ret = <<>> /\ Top.fn = "struct" /\ Top.at = "fields"
  BY Zenon DEF StructField, In
<1>2. ControlOK /\ ControlOK'
  BY DEF IInv
<1>3. PICK t \in Input : Take(t) /\
         CASE t = "}" -> Return(0)
           [] t = "," -> Goto("comma")
           [] IsString(t) ->
                Become([Top EXCEPT !.at = "colon",
                        !.key = IF t \in DOMAIN Index[Top.elt] THEN t ELSE NoKey])
           [] OTHER -> Return(-1)
  BY Zenon DEF StructField
<1>4. /\ t = "}" => Return(0)
      /\ t = "," => Goto("comma")
      /\ IsString(t) => Become([Top EXCEPT !.at = "colon", !.key = KeyOf(Top.elt, t)])
      /\ t = "eof" => Return(-1)
  BY <1>3, Zenon DEF IsString, Punct, KeyOf
<1>5. \/ t = "eof" /\ CutNow(end)
      \/ t # "eof" /\ \E r, y : PlainFace(r, y, end) /\ \E h \in Step(y, t) : Took(h, t, end)
  BY <1>1, <1>3, TakeSync
<1>6. CASE t = "eof" /\ CutNow(end)
  <2>1. ret' = <<-1>>
    BY <1>4, <1>6 DEF Return
  <2> QED BY <1>6, <2>1, MinusOne, CutIn
<1>7. ASSUME NEW r, NEW y, PlainFace(r, y, end), NEW h \in Step(y, t), Took(h, t, end)
      PROVE  Tracks(stack', ret', ahead', goal', end)
  <2>1. StructFace(Top.at, Top.elt, Top.key, y, r) /\ Owes(Below, r, end) /\ Good(r, end)
    BY <1>1, <1>7, StructFaces
  <2>2. FieldsFace(Top.elt, y, r)
    BY <1>1, <2>1, Zenon DEF StructFace
  <2>3. \/ t = "}" /\ h = r
        \/ t = "," /\ KeyFace(Top.elt, h, r)
        \/ IsString(t) /\ ColonFace(Top.elt, KeyOf(Top.elt, t), h, r)
    BY <1>1, <1>2, <2>1, <2>2, StructTop, FieldsStep, Zenon
  <2>4. CASE t = "}" /\ h = r
    <3>1. Return(0) /\ Leads(r, ahead', goal', end)
      BY <1>4, <1>7, <2>1, <2>4, Zenon DEF Took
    <3> QED BY <2>1, <3>1, ReturnIn
  <2>5. CASE t = "," /\ KeyFace(Top.elt, h, r)
    <3>1. Goto("comma") /\ t # "stuck"
      BY <1>4, <2>5, Zenon
    <3>2. PICK f : Moves(f, "comma", Top.key, Top.n, Top.brace, Top.bracket)
      BY <1>1, <1>2, <3>1, GotoMoves
    <3>3. Face(f, h, r, end)
      <4>1. StructFace("comma", Top.elt, Top.key, h, r)
        BY <2>5, Zenon DEF StructFace
      <4> QED BY <1>1, <3>2, <4>1, StructFaceIn
    <3> QED BY <1>1, <1>2, <1>7, <2>1, <3>1, <3>2, <3>3, MoveIn
  <2>6. CASE IsString(t) /\ ColonFace(Top.elt, KeyOf(Top.elt, t), h, r)
    <3>1. t # "stuck"
      BY <2>6 DEF IsString, LexError
    <3>2. PICK f : Moves(f, "colon", KeyOf(Top.elt, t), Top.n, Top.brace, Top.bracket)
      BY <1>1, <1>2, <1>4, <2>6, KeyMoves
    <3>3. Face(f, h, r, end)
      <4>1. StructFace("colon", Top.elt, KeyOf(Top.elt, t), h, r)
        BY <2>6, Zenon DEF StructFace
      <4> QED BY <1>1, <3>2, <4>1, StructFaceIn
    <3> QED BY <1>1, <1>2, <1>7, <2>1, <3>1, <3>2, <3>3, MoveIn
  <2> QED BY <2>3, <2>4, <2>5, <2>6, Zenon
<1> QED BY <1>5, <1>6, <1>7, Zenon

LEMMA StructCommaTracks ==
    ASSUME IInv, IInv', NEW end, InSync(stack, ret, ahead, goal, end), StructComma,
           Done' => ret' # << 0 >>
    PROVE  Tracks(stack', ret', ahead', goal', end)
<1>1. ~Done /\ ret = <<>> /\ Top.fn = "struct" /\ Top.at = "comma"
  BY Zenon DEF StructComma, In
<1>2. ControlOK /\ ControlOK'
  BY DEF IInv
<1>3. PICK t \in Input : Peek(0, t) /\ IF t = "}" THEN Return(-1) ELSE Goto("fields")
  BY Zenon DEF StructComma
<1>5. \/ t = "eof" /\ CutNow(end)
      \/ t # "eof" /\ \E r, y : PlainFace(r, y, end) /\ \E h \in Step(y, t) : Peeked(h, t, end)
  BY <1>1, <1>3, PeekSync
<1>6. CASE t = "eof" /\ CutNow(end)
  BY <1>6, CutIn
<1>7. ASSUME NEW r, NEW y, PlainFace(r, y, end), NEW h \in Step(y, t), Peeked(h, t, end)
      PROVE  Tracks(stack', ret', ahead', goal', end)
  <2>1. StructFace(Top.at, Top.elt, Top.key, y, r) /\ Owes(Below, r, end) /\ Good(r, end)
    BY <1>1, <1>7, StructFaces
  <2>2. KeyFace(Top.elt, y, r)
    BY <1>1, <2>1, Zenon DEF StructFace
  <2>3. IsString(t) /\ ColonFace(Top.elt, KeyOf(Top.elt, t), h, r)
    BY <1>1, <1>2, <2>1, <2>2, StructTop, KeyStep, Zenon
  <2>4. Good(h, end)
    <3>1. StructFace("colon", Top.elt, KeyOf(Top.elt, t), h, r)
      BY <2>3, Zenon DEF StructFace
    <3> QED BY <2>1, <3>1, StructLong, LongCut
  <2>5. Goto("fields")
    BY <1>3, <2>3, Zenon DEF IsString, Punct
  <2>6. PICK f : Moves(f, "fields", Top.key, Top.n, Top.brace, Top.bracket)
    BY <1>1, <1>2, <2>5, GotoMoves
  <2>7. Face(f, y, r, end)
    <3>1. StructFace("fields", Top.elt, Top.key, y, r)
      BY <2>2, Zenon DEF StructFace, FieldsFace
    <3> QED BY <1>1, <2>6, <3>1, StructFaceIn
  <2> QED BY <1>1, <1>2, <1>7, <2>1, <2>4, <2>6, <2>7, PeekIn
<1> QED BY <1>5, <1>6, <1>7, Zenon

LEMMA StructColonTracks ==
    ASSUME IInv, IInv', NEW end, InSync(stack, ret, ahead, goal, end), StructColon,
           Done' => ret' # << 0 >>
    PROVE  Tracks(stack', ret', ahead', goal', end)
<1>1. ~Done /\ ret = <<>> /\ Top.fn = "struct" /\ Top.at = "colon"
  BY Zenon DEF StructColon, In
<1>2. ControlOK /\ ControlOK'
  BY DEF IInv
<1>3. PICK t \in Input : Take(t) /\
         IF t # ":" THEN Return(-1)
         ELSE IF Top.key = NoKey \/ ~Selected(Top, Top.key)
           THEN Call("ignored", Frame("ignore", "any", Top.depth))
         ELSE Goto(IF Field.null THEN "nullable" ELSE "value")
  BY Zenon DEF StructColon
<1>5. \/ t = "eof" /\ CutNow(end)
      \/ t # "eof" /\ \E r, y : PlainFace(r, y, end) /\ \E h \in Step(y, t) : Took(h, t, end)
  BY <1>1, <1>3, TakeSync
<1>6. CASE t = "eof" /\ CutNow(end)
  BY <1>6, CutIn
<1>7. ASSUME NEW r, NEW y, PlainFace(r, y, end), NEW h \in Step(y, t), Took(h, t, end)
      PROVE  Tracks(stack', ret', ahead', goal', end)
  <2>1. StructFace(Top.at, Top.elt, Top.key, y, r) /\ Owes(Below, r, end) /\ Good(r, end)
    BY <1>1, <1>7, StructFaces
  <2>2. ColonFace(Top.elt, Top.key, y, r)
    BY <1>1, <2>1, Zenon DEF StructFace
  <2>3. PICK a, q : /\ y = Cons(Tok(":"), Cons(a, q)) /\ Resume(Top.elt, q, r) /\ Skippable(a)
                    /\ Top.key # NoKey => a = MemberValue("struct", Top.elt, Top.key)
    BY <2>2, Zenon DEF ColonFace
  <2>4. Good(q, end) /\ Good(Cons(a, q), end)
    BY <2>1, <2>3, ResumeLong, ConsFacts
  <2>5. t = ":" /\ h = Cons(a, q)
    <3>1. h \in Step(Cons(Tok(":"), Cons(a, q)), t)
      BY <1>7, <2>3, Zenon
    <3> QED BY <2>4, <3>1, StepTok, Zenon
  <2>6. t # "stuck" /\ Leads(h, ahead', goal', end)
    BY <1>7, <2>4, <2>5, Zenon DEF Took
  <2>7. CASE Top.key = NoKey \/ ~Selected(Top, Top.key)
    <3> DEFINE g == Frame("ignore", "any", Top.depth)
    <3>1. Call("ignored", g)
      BY <1>3, <2>5, <2>7, Zenon
    <3>2. g.fn = "ignore" /\ g.brace = 0 /\ g.bracket = 0
      BY FrameFields
    <3> HIDE DEF g
    <3>3. g \in FrameSet
      BY <1>1, <1>2, <3>1, CallMoves
    <3>4. PICK f \in FrameSet :
             /\ stack' = Append(Append(Below, f), g) /\ ret' = <<>>
             /\ f.fn = Top.fn /\ f.elt = Top.elt
      BY <1>1, <1>2, <3>1, CallMoves
    <3>5. After(f, q, r)
      BY <1>1, <2>3, <3>4, Zenon DEF After
    <3>6. Facing(g, q, ahead', goal', end)
      <4>1. SkipFace(g.brace, g.bracket, h, q, end)
        BY <2>3, <2>5, <3>2, Zenon DEF SkipFace
      <4>2. Face(g, h, q, end)
        BY <3>2, <4>1, Zenon DEF Face
      <4> QED BY <2>6, <4>2, Zenon DEF Facing
    <3> QED BY <1>1, <1>2, <2>1, <2>4, <3>3, <3>4, <3>5, <3>6, CallIn
  <2>8. CASE ~(Top.key = NoKey \/ ~Selected(Top, Top.key))
    <3> DEFINE at == IF Field.null THEN "nullable" ELSE "value"
               e == Top.elt
               key == Top.key
    <3>1. Goto(at)
      BY <1>3, <2>5, <2>8, Zenon
    <3>2. e \in DOMAIN Index /\ key \in DOMAIN Index[e] /\ key # NoKey
      BY <1>1, <1>2, <2>8, StructTop
    <3>3. a = Sym(IF Field.null THEN "nullable" ELSE "val", Index[e][key].k, Index[e][key].elt)
      BY <2>3, <3>2, FieldTyped DEF Field
    <3>4. StructFace(at, e, key, h, r)
      <4>1. CASE Field.null
        <5>1. MemberFace("nullable", e, key, h, r)
          BY <2>3, <2>5, <3>3, <4>1, Zenon DEF MemberFace
        <5> QED BY <4>1, <5>1, Zenon DEF StructFace
      <4>2. CASE ~Field.null
        <5>1. MemberFace("val", e, key, h, r)
          BY <2>3, <2>5, <3>3, <4>2, Zenon DEF MemberFace
        <5> QED BY <4>2, <5>1, Zenon DEF StructFace
      <4> QED BY <4>1, <4>2
    <3> HIDE DEF at
    <3>5. PICK f : Moves(f, at, Top.key, Top.n, Top.brace, Top.bracket)
      BY <1>1, <1>2, <3>1, GotoMoves
    <3>6. Face(f, h, r, end)
      BY <1>1, <3>4, <3>5, StructFaceIn
    <3> QED BY <1>1, <1>2, <2>1, <2>6, <3>5, <3>6, MoveLeads
  <2> QED BY <2>7, <2>8
<1> QED BY <1>5, <1>6, <1>7, Zenon

\* Behind a member the parser goes on with the next one.
LEMMA NextFieldIn ==
    ASSUME IInv, IInv', ~Done, Top.fn = "struct", NextField, NEW r, NEW end, Owes(Below, r, end),
           NEW h, Leads(h, ahead', goal', end), Resume(Top.elt, h, r)
    PROVE  Tracks(stack', ret', ahead', goal', end)
<1>2. ControlOK /\ ControlOK'
  BY DEF IInv
<1>3. PICK f : Moves(f, "fields", NoKey, Top.n, Top.brace, Top.bracket)
  BY <1>2, KeyMoves DEF NextField
<1>4. StructFace("fields", Top.elt, NoKey, h, r)
  BY Zenon DEF StructFace, FieldsFace
<1>5. Face(f, h, r, end)
  BY <1>3, <1>4, StructFaceIn
<1> QED BY <1>2, <1>3, <1>5, MoveLeads

LEMMA NoInputLeads ==
    ASSUME NoInput, NEW y, NEW end, Leads(y, ahead, goal, end)
    PROVE  Leads(y, ahead', goal', end)
<1>1. ahead' = ahead /\ goal' = goal
  BY Zenon DEF NoInput
<1> QED BY <1>1, Zenon

LEMMA StructBacksTracks ==
    ASSUME IInv, IInv', NEW end, InSync(stack, ret, ahead, goal, end), StructIgnored \/ StructBack
    PROVE  Tracks(stack', ret', ahead', goal', end)
<1>1. ~Done /\ ret # <<>> /\ Top.fn = "struct" /\ NoInput
  BY Zenon DEF StructIgnored, StructBack, Back
<1>2. ControlOK /\ ControlOK'
  BY DEF IInv
<1>3. ret[1] = 0
  BY <1>1, <1>2, SyncAfter
<1>4. PICK r, y : Owes(Below, r, end) /\ After(Top, y, r) /\ Leads(y, ahead, goal, end)
  BY <1>1, <1>2, SyncAfter
<1>5. NextField
  <2>1. CASE StructIgnored
    BY <1>3, <2>1 DEF StructIgnored
  <2>2. CASE StructBack
    <3>1. ~Fails(Field, ret[1])
      BY <1>3 DEF Fails
    <3> QED BY <2>2, <3>1, Zenon DEF StructBack
  <2> QED BY <2>1, <2>2
<1>6. Resume(Top.elt, y, r)
  BY <1>1, <1>4 DEF After
<1>7. Leads(y, ahead', goal', end)
  BY <1>1, <1>4, NoInputLeads
<1> QED BY <1>1, <1>4, <1>5, <1>6, <1>7, NextFieldIn

LEMMA StructNullableTracks ==
    ASSUME IInv, IInv', NEW end, InSync(stack, ret, ahead, goal, end), StructNullable,
           Done' => ret' # << 0 >>
    PROVE  Tracks(stack', ret', ahead', goal', end)
<1>1. ~Done /\ ret = <<>> /\ Top.fn = "struct" /\ Top.at = "nullable"
  BY Zenon DEF StructNullable, In
<1>2. ControlOK /\ ControlOK'
  BY DEF IInv
<1>3. PICK t \in Input :
         IF t = "null" THEN Take(t) /\ NextField ELSE Peek(0, t) /\ Goto("value")
  BY Zenon DEF StructNullable
<1> DEFINE e == Top.elt
           key == Top.key
           c == Index[e][key].k
           x == Index[e][key].elt
<1>4. ASSUME NEW r, NEW y, PlainFace(r, y, end), NEW h \in Step(y, t)
      PROVE  /\ Owes(Below, r, end) /\ Good(r, end) /\ Typed(c, x)
             /\ \E q : /\ Resume(e, q, r) /\ Good(q, end)
                       /\ IF t = "null" THEN h = q ELSE h \in Step(Cons(Sym("val", c, x), q), t)
  <2>1. StructFace(Top.at, e, key, y, r) /\ Owes(Below, r, end) /\ Good(r, end)
    BY <1>1, <1>4, StructFaces
  <2>2. MemberFace("nullable", e, key, y, r)
    BY <1>1, <2>1, Zenon DEF StructFace
  <2>3. PICK q : y = Cons(Sym("nullable", c, x), q) /\ Resume(e, q, r)
    BY <2>2, Zenon DEF MemberFace
  <2>4. Good(q, end)
    BY <2>1, <2>3, ResumeLong
  <2>5. Typed(c, x) /\ x # "any"
    BY <1>1, <1>2, StructTop, FieldTyped
  <2>6. c \in {"one", "array", "fixed", "map", "maps"}
    BY <2>5 DEF Typed
  <2> HIDE DEF c, x
  <2>7. IF t = "null" THEN h = q ELSE h \in Step(Cons(Sym("val", c, x), q), t)
    BY <1>4, <2>3, <2>4, <2>5, <2>6, StepNullable
  <2> QED BY <2>1, <2>3, <2>4, <2>5, <2>7
<1>5. CASE t = "null"
  <2>1. Take(t) /\ NextField
    BY <1>3, <1>5
  <2>2. t # "eof" /\ t # "stuck"
    BY <1>5
  <2>3. PICK r, y : PlainFace(r, y, end) /\ \E h \in Step(y, t) : Took(h, t, end)
    BY <1>1, <2>1, <2>2, TakeSync
  <2>4. PICK h \in Step(y, t) : Took(h, t, end)
    BY <2>3
  <2>5. Owes(Below, r, end) /\ Resume(e, h, r) /\ Good(h, end)
    BY <1>4, <1>5, <2>3
  <2>6. Leads(h, ahead', goal', end)
    BY <2>2, <2>4, <2>5 DEF Took
  <2> QED BY <1>1, <2>1, <2>5, <2>6, NextFieldIn
<1>6. CASE t # "null"
  <2>1. Peek(0, t) /\ Goto("value")
    BY <1>3, <1>6
  <2>2. \/ t = "eof" /\ CutNow(end)
        \/ t # "eof" /\ \E r, y : PlainFace(r, y, end) /\ \E h \in Step(y, t) : Peeked(h, t, end)
    BY <1>1, <2>1, PeekSync
  <2>3. CASE t = "eof" /\ CutNow(end)
    BY <2>3, CutIn
  <2>4. ASSUME t # "eof", NEW r, NEW y, PlainFace(r, y, end), NEW h \in Step(y, t), Peeked(h, t, end)
        PROVE  Tracks(stack', ret', ahead', goal', end)
    <3>1. PICK q : /\ Resume(e, q, r) /\ Good(q, end)
                   /\ h \in Step(Cons(Sym("val", c, x), q), t)
      BY <1>4, <1>6, <2>4
    <3>2. Owes(Below, r, end) /\ Good(r, end) /\ Typed(c, x)
      BY <1>4, <2>4
    <3>3. Good(h, end)
      BY <2>4, <3>1, <3>2, TypedSkippable, ValueGood
    <3>4. PICK f : Moves(f, "value", Top.key, Top.n, Top.brace, Top.bracket)
      BY <1>1, <1>2, <2>1, GotoMoves
    <3> DEFINE z == Cons(Sym("val", c, x), q)
    <3>5. Face(f, z, r, end)
      <4>1. MemberFace("val", e, key, z, r)
        BY <3>1, Zenon DEF MemberFace
      <4>2. StructFace("value", e, key, z, r)
        BY <4>1, Zenon DEF StructFace
      <4> QED BY <1>1, <3>4, <4>2, StructFaceIn
    <3>6. h \in Step(z, t)
      BY <3>1
    <3> HIDE DEF z
    <3> QED BY <1>1, <1>2, <2>4, <3>2, <3>3, <3>4, <3>5, <3>6, PeekIn
  <2> QED BY <2>2, <2>3, <2>4, Zenon
<1> QED BY <1>5, <1>6

\* A struct that is about to read the value of a member.
LEMMA ValueFaces ==
    ASSUME IInv, ~Done, Top.fn = "struct", Top.at = "value", NEW r, NEW y, NEW end,
           PlainFace(r, y, end)
    PROVE  /\ Owes(Below, r, end) /\ Good(r, end) /\ Typed(Field.k, Field.elt)
           /\ \E q : /\ y = Cons(Sym("val", Field.k, Field.elt), q)
                     /\ Resume(Top.elt, q, r) /\ Good(q, end)
<1>1. StructFace(Top.at, Top.elt, Top.key, y, r) /\ Owes(Below, r, end) /\ Good(r, end)
  BY StructFaces
<1>2. MemberFace("val", Top.elt, Top.key, y, r)
  BY <1>1, Zenon DEF StructFace
<1>3. PICK q : y = Cons(Sym("val", Field.k, Field.elt), q) /\ Resume(Top.elt, q, r)
  BY <1>2, Zenon DEF MemberFace, Field
<1>4. Good(q, end)
  BY <1>1, <1>3, ResumeLong
<1>5. Typed(Field.k, Field.elt)
  BY StructTop, FieldTyped DEF Field, IInv
<1> QED BY <1>1, <1>3, <1>4, <1>5

LEMMA StructScalarTracks ==
    ASSUME IInv, IInv', NEW end, InSync(stack, ret, ahead, goal, end), StructScalar,
           Done' => ret' # << 0 >>
    PROVE  Tracks(stack', ret', ahead', goal', end)
<1>1. /\ ~Done /\ ret = <<>> /\ Top.fn = "struct" /\ Top.at = "value"
      /\ Field.k = "one" /\ Field.elt \in Scalar
  BY Zenon DEF StructScalar, In
<1>3. PICK t \in Input : Take(t) /\
         LET r == ScalarCode(Field.elt, t) IN IF r # 0 THEN Return(r) ELSE NextField
  BY Zenon DEF StructScalar
<1>5. \/ t = "eof" /\ CutNow(end)
      \/ t # "eof" /\ \E r, y : PlainFace(r, y, end) /\ \E h \in Step(y, t) : Took(h, t, end)
  BY <1>1, <1>3, TakeSync
<1>6. CASE t = "eof" /\ CutNow(end)
  BY <1>6, CutIn
<1>7. ASSUME t # "eof", NEW r, NEW y, PlainFace(r, y, end), NEW h \in Step(y, t), Took(h, t, end)
      PROVE  Tracks(stack', ret', ahead', goal', end)
  <2>1. PICK q : /\ y = Cons(Sym("val", "one", Field.elt), q)
                 /\ Resume(Top.elt, q, r) /\ Good(q, end)
    BY <1>1, <1>7, ValueFaces
  <2>2. Owes(Below, r, end) /\ Typed("one", Field.elt)
    BY <1>1, <1>7, ValueFaces
  <2>3. ScalarCode(Field.elt, t) = 0 /\ h = q
    BY <1>1, <1>7, <2>1, StepScalar
  <2>4. t # "stuck"
    BY <1>7, <2>1, <2>2, TypedSkippable, ValueGood
  <2>5. NextField /\ Leads(h, ahead', goal', end) /\ Resume(Top.elt, h, r)
    BY <1>3, <1>7, <2>1, <2>3, <2>4 DEF Took
  <2> QED BY <1>1, <2>2, <2>5, NextFieldIn
<1> QED BY <1>5, <1>6, <1>7, Zenon

\* The call h hands a member of type f to.
Hands(f, h, g) ==
    \/ f.k = "one" /\ IsStruct(f.elt) /\ g.fn = "struct" /\ g.depth = h.depth + 1
    \/ f.k = "one" /\ IsOneof(f.elt) /\ g.fn = "oneof" /\ g.depth = h.depth + 1
    \/ f.k = "map" /\ g.fn = "map" /\ g.depth = h.depth + 1
    \/ f.k \in {"maps", "fixed"} /\ g.fn = f.k /\ g.depth = h.depth
    \/ f.k = "array" /\ IsStruct(f.elt) /\ g.fn = "array" /\ g.depth = h.depth
    \/ f.k = "array" /\ IsOneof(f.elt) /\ g.fn = "oneofs" /\ g.depth = h.depth + 1
    \/ f.k = "array" /\ f.elt \in Scalar /\ g.fn \in {"enums", "scalars"} /\ g.depth = h.depth

LEMMA CalleeShape ==
    ASSUME NEW f, NEW h, Typed(f.k, f.elt), ~(f.k = "one" /\ f.elt \in Scalar)
    PROVE  LET g == Callee(f, h)
           IN  Fresh(g) /\ g.elt = f.elt /\ Hands(f, h, g)
<1> DEFINE g == Callee(f, h)
           d == h.depth
           OK == Fresh(g) /\ g.elt = f.elt /\ Hands(f, h, g)
<1>1. /\ DOMAIN Index \cap DOMAIN Variants = {}
      /\ Scalar \cap (DOMAIN Index \cup DOMAIN Variants) = {}
  BY IndexFacts
<1>2. ASSUME NEW fn, NEW c, g = Frame(fn, f.elt, c)
      PROVE  Fresh(g) /\ g.elt = f.elt /\ g.fn = fn /\ g.depth = c
  <2> DEFINE u == Frame(fn, f.elt, c)
  <2>1. Fresh(u) /\ u.elt = f.elt /\ u.fn = fn /\ u.depth = c
    BY FrameFields DEF Fresh
  <2>2. g = u
    BY <1>2
  <2> HIDE DEF u, g
  <2> QED BY <2>1, <2>2
<1>3. ASSUME f.k = "one" /\ IsStruct(f.elt)
      PROVE  OK
  <2> DEFINE m == SubMask(h)
             u == Frame("struct", f.elt, d + 1)
             w == [u EXCEPT !.mask = m]
  <2>1. g = w
    BY <1>1, <1>3 DEF Callee, IsStruct, IsOneof, Scalar
  <2>2. u.fn = "struct" /\ Fresh(u) /\ u.elt = f.elt /\ u.depth = d + 1
    BY FrameFields DEF Fresh
  <2> HIDE DEF m, u
  <2>3. w.fn = u.fn /\ w.at = u.at /\ w.elt = u.elt /\ w.n = u.n /\ w.depth = u.depth
        /\ w.brace = u.brace /\ w.bracket = u.bracket
    OBVIOUS
  <2> HIDE DEF w, g
  <2>4. g.fn = "struct" /\ Fresh(g) /\ g.elt = f.elt /\ g.depth = d + 1
    BY <2>1, <2>2, <2>3 DEF Fresh
  <2>5. Hands(f, h, g)
    BY <1>3, <2>4, Zenon DEF Hands
  <2> QED BY <2>4, <2>5
<1>4. ASSUME f.k = "one" /\ IsOneof(f.elt)
      PROVE  OK
  <2>1. g = Frame("oneof", f.elt, d + 1)
    BY <1>1, <1>4 DEF Callee, IsStruct, IsOneof
  <2> QED BY <1>2, <1>4, <2>1, Zenon DEF Hands
<1>5. ASSUME f.k = "map"
      PROVE  OK
  <2>1. g = Frame("map", f.elt, d + 1)
    BY <1>5 DEF Callee
  <2> QED BY <1>2, <1>5, <2>1, Zenon DEF Hands
<1>6. ASSUME f.k \in {"maps", "fixed"}
      PROVE  OK
  <2>1. g = Frame(f.k, f.elt, d)
    BY <1>6 DEF Callee
  <2> QED BY <1>2, <1>6, <2>1, Zenon DEF Hands
<1>7. ASSUME f.k = "array" /\ IsStruct(f.elt)
      PROVE  OK
  <2>1. g = Frame("array", f.elt, d)
    BY <1>1, <1>7 DEF Callee, IsStruct, IsOneof, Scalar
  <2> QED BY <1>2, <1>7, <2>1, Zenon DEF Hands
<1>8. ASSUME f.k = "array" /\ IsOneof(f.elt)
      PROVE  OK
  <2>1. g = Frame("oneofs", f.elt, d + 1)
    BY <1>1, <1>8 DEF Callee, IsStruct, IsOneof, Scalar
  <2> QED BY <1>2, <1>8, <2>1, Zenon DEF Hands
<1>9. ASSUME f.k = "array" /\ f.elt \in Scalar
      PROVE  OK
  <2>1. g = Frame("enums", f.elt, d) \/ g = Frame("scalars", f.elt, d)
    BY <1>1, <1>9 DEF Callee, IsStruct, IsOneof
  <2> QED BY <1>2, <1>9, <2>1, Zenon DEF Hands
<1>10. f.elt \in Scalar \/ IsStruct(f.elt) \/ IsOneof(f.elt)
  BY DEF Typed, IsStruct, IsOneof
<1>11. f.k \in {"one", "array", "fixed", "map", "maps"}
  BY DEF Typed
<1> HIDE DEF OK
<1>12. OK
  BY <1>3, <1>4, <1>5, <1>6, <1>7, <1>8, <1>9, <1>10, <1>11
<1> QED BY <1>12, Zenon DEF OK

LEMMA CalleeFace ==
    ASSUME NEW f, NEW h, Typed(f.k, f.elt), ~(f.k = "one" /\ f.elt \in Scalar), NEW q, NEW end
    PROVE  Face(Callee(f, h), Cons(Sym("val", f.k, f.elt), q), q, end)
<1> DEFINE g == Callee(f, h)
           y == Cons(Sym("val", f.k, f.elt), q)
<1>1. Fresh(g) /\ g.elt = f.elt /\ Hands(f, h, g)
  BY CalleeShape
<1>2. y = Cons(Sym("val", f.k, g.elt), q)
  BY <1>1
<1>a. Fresh(g) /\ g.at = "open" /\ g.n = 0
  BY <1>1 DEF Fresh
<1> HIDE DEF g, y
<1>3. ASSUME f.k = "one" /\ g.fn = "struct"
      PROVE  Face(g, y, q, end)
  <2>1. y = Cons(Sym("val", "one", g.elt), q)
    BY <1>2, <1>3
  <2>2. StructFace(g.at, g.elt, g.key, y, q)
    BY <1>a, <2>1, Zenon DEF StructFace
  <2> QED BY <1>3, <2>2, Zenon DEF Face
<1>4. ASSUME f.k = "one" /\ g.fn = "oneof"
      PROVE  Face(g, y, q, end)
  <2>1. y = Cons(Sym("val", "one", g.elt), q)
    BY <1>2, <1>4
  <2> QED BY <1>a, <1>4, <2>1, Zenon DEF Face
<1>5. ASSUME f.k = "map" /\ g.fn = "map"
      PROVE  Face(g, y, q, end)
  <2>1. y = Cons(Sym("val", "map", g.elt), q)
    BY <1>2, <1>5
  <2>2. MapFace(g.at, g.elt, y, q)
    BY <1>a, <2>1, Zenon DEF MapFace
  <2> QED BY <1>5, <2>2, Zenon DEF Face
<1>6. ASSUME f.k = "maps" /\ g.fn = "maps"
      PROVE  Face(g, y, q, end)
  <2>1. y = Cons(Sym("val", "maps", g.elt), q)
    BY <1>2, <1>6
  <2>2. ListFace(g.fn, g.at, "maps", "map", g.elt, y, q)
    BY <1>a, <2>1, Zenon DEF ListFace
  <2> QED BY <1>6, <2>2, Zenon DEF Face
<1>7. ASSUME f.k = "fixed" /\ g.fn = "fixed"
      PROVE  Face(g, y, q, end)
  <2>1. y = Cons(Sym("val", "fixed", g.elt), q)
    BY <1>2, <1>7
  <2>2. FixedFace(g.at, g.n, g.elt, y, q)
    BY <1>a, <2>1, Zenon DEF FixedFace
  <2> QED BY <1>7, <2>2, Zenon DEF Face
<1>8. ASSUME f.k = "array" /\ g.fn \in {"array", "oneofs", "scalars", "enums"}
      PROVE  Face(g, y, q, end)
  <2>1. y = Cons(Sym("val", "array", g.elt), q)
    BY <1>2, <1>8
  <2>2. ListFace(g.fn, g.at, "array", "one", g.elt, y, q)
    BY <1>a, <2>1, Zenon DEF ListFace
  <2> QED BY <1>8, <2>2, Zenon DEF Face
<1>9. \/ f.k = "one" /\ g.fn = "struct"
      \/ f.k = "one" /\ g.fn = "oneof"
      \/ f.k = "map" /\ g.fn = "map"
      \/ f.k = "maps" /\ g.fn = "maps"
      \/ f.k = "fixed" /\ g.fn = "fixed"
      \/ f.k = "array" /\ g.fn \in {"array", "oneofs", "scalars", "enums"}
  BY <1>1 DEF Hands
<1>10. Face(g, y, q, end)
  BY <1>3, <1>4, <1>5, <1>6, <1>7, <1>8, <1>9, Zenon
<1> QED BY <1>10, Zenon DEF g, y

LEMMA StructCallTracks ==
    ASSUME IInv, IInv', NEW end, InSync(stack, ret, ahead, goal, end), StructCall
    PROVE  Tracks(stack', ret', ahead', goal', end)
<1> DEFINE g == Callee(Field, Top)
<1>1. /\ ~Done /\ ret = <<>> /\ Top.fn = "struct" /\ Top.at = "value"
      /\ ~(Field.k = "one" /\ Field.elt \in Scalar) /\ Call("called", g) /\ NoInput
  BY Zenon DEF StructCall, In
<1>2. ControlOK /\ ControlOK'
  BY DEF IInv
<1>3. PICK r : Owes(Below, r, end) /\ Good(r, end) /\ Facing(Top, r, ahead, goal, end)
  BY <1>1, <1>2, SyncFacing
<1>4. PICK y : Leads(y, ahead, goal, end) /\ Face(Top, y, r, end)
  <2>1. Top.fn # "oneof" /\ Top.at # "open"
    BY <1>1
  <2> QED BY <1>3, <2>1, PlainFacing
<1>5. PlainFace(r, y, end)
  BY <1>3, <1>4, FaceLong, Zenon DEF PlainFace
<1>6. PICK q : /\ y = Cons(Sym("val", Field.k, Field.elt), q)
               /\ Resume(Top.elt, q, r) /\ Good(q, end)
  BY <1>1, <1>5, ValueFaces
<1>7. Typed(Field.k, Field.elt)
  BY <1>1, <1>5, ValueFaces
<1>8. Face(g, y, q, end)
  <2>1. Face(g, Cons(Sym("val", Field.k, Field.elt), q), q, end)
    BY <1>1, <1>7, CalleeFace
  <2> QED BY <1>6, <2>1, Zenon
<1> HIDE DEF g
<1>9. g \in FrameSet /\ \E f \in FrameSet :
         /\ stack' = Append(Append(Below, f), g) /\ ret' = <<>>
         /\ f.fn = Top.fn /\ f.elt = Top.elt
  BY <1>1, <1>2, CallMoves
<1>10. PICK f \in FrameSet :
         /\ stack' = Append(Append(Below, f), g) /\ ret' = <<>>
         /\ f.fn = Top.fn /\ f.elt = Top.elt
  BY <1>9
<1>11. After(f, q, r)
  BY <1>1, <1>6, <1>10, Zenon DEF After
<1>12. Facing(g, q, ahead', goal', end)
  <2>1. Leads(y, ahead', goal', end)
    BY <1>1, <1>4, NoInputLeads
  <2> QED BY <1>8, <2>1, Zenon DEF Facing
<1> QED BY <1>1, <1>2, <1>3, <1>6, <1>9, <1>10, <1>11, <1>12, CallIn

LEMMA OpenedTakes ==
    ASSUME InputOK, Opened(ahead), NEW t, Take(t)
    PROVE  t = "{" /\ ahead' = Tail(ahead) /\ goal' = goal
<1>1. ahead # <<>> /\ ahead[1] = "{"
  BY Zenon DEF Opened
<1>2. Head(ahead) = ahead[1]
  OBVIOUS
<1>3. t = Head(ahead) /\ goal' = goal /\ ahead' = IF t = "stuck" THEN ahead ELSE Tail(ahead)
  BY <1>1, Zenon DEF Take
<1> QED BY <1>1, <1>2, <1>3, Zenon

LEMMA StructOpenTracks ==
    ASSUME IInv, IInv', NEW end, InSync(stack, ret, ahead, goal, end), StructOpen,
           Done' => ret' # << 0 >>
    PROVE  Tracks(stack', ret', ahead', goal', end)
<1>1. ~Done /\ ret = <<>> /\ Top.fn = "struct" /\ Top.at = "open"
  BY Zenon DEF StructOpen, In
<1>2. ControlOK /\ ControlOK' /\ InputOK
  BY DEF IInv
<1>3. PICK t \in Input : Take(t) /\ (t = "{" => Goto("fields"))
  <2>1. PICK t \in Input : Take(t) /\
         CASE t = "{" -> Goto("fields")
           [] t = "eof" -> Return(IF InArray THEN 0 ELSE -1)
           [] t = "]" /\ InArray -> Return(1)
           [] OTHER -> Return(-1)
    BY Zenon DEF StructOpen
  <2> QED BY <2>1, Zenon
<1> DEFINE e == Top.elt
<1>4. e \in DOMAIN Index /\ e # "any"
  BY <1>1, <1>2, StructTop, DocumentFacts
<1>5. PICK r : Owes(Below, r, end) /\ Good(r, end) /\ Facing(Top, r, ahead, goal, end)
  BY <1>1, <1>2, SyncFacing
<1>6. ASSUME t = "{", NEW h, Leads(h, ahead', goal', end), FieldsFace(e, h, r)
      PROVE  Tracks(stack', ret', ahead', goal', end)
  <2>1. Goto("fields")
    BY <1>3, <1>6, Zenon
  <2>2. PICK f : Moves(f, "fields", Top.key, Top.n, Top.brace, Top.bracket)
    BY <1>1, <1>2, <2>1, GotoMoves
  <2>3. Face(f, h, r, end)
    <3>1. StructFace("fields", e, Top.key, h, r)
      BY <1>6, Zenon DEF StructFace
    <3> QED BY <1>1, <2>2, <3>1, StructFaceIn
  <2>4. Leads(h, ahead', goal', end)
    BY <1>6, Zenon
  <2> QED BY <1>1, <1>2, <1>5, <2>2, <2>3, <2>4, MoveLeads
<1>7. ASSUME NEW y, Leads(y, ahead, goal, end), Face(Top, y, r, end)
      PROVE  Tracks(stack', ret', ahead', goal', end)
  <2>1. PlainFace(r, y, end)
    BY <1>5, <1>7, FaceLong, Zenon DEF PlainFace
  <2>2. y = Cons(Sym("val", "one", e), r)
    <3>1. StructFace(Top.at, e, Top.key, y, r)
      BY <1>1, <2>1, StructFaces
    <3> QED BY <1>1, <3>1, Zenon DEF StructFace
  <2>3. \/ t = "eof" /\ CutNow(end)
        \/ t # "eof" /\ \E h \in Step(y, t) : Took(h, t, end)
    <3>1. Long(y, end)
      BY <2>1, Zenon DEF PlainFace
    <3> QED BY <1>3, <1>7, <3>1, TakeFaced
  <2>4. CASE t = "eof" /\ CutNow(end)
    BY <2>4, CutIn
  <2>5. ASSUME NEW h \in Step(y, t), Took(h, t, end)
        PROVE  Tracks(stack', ret', ahead', goal', end)
    <3>1. t = "{" /\ h = Cons(Sym("open", "struct", e), r)
      <4>1. h \in Step(Cons(Sym("val", "one", e), r), t)
        BY <2>2, <2>5
      <4> HIDE DEF e
      <4> QED BY <1>4, <1>5, <4>1, StepStruct, Zenon
    <3>2. Good(h, end)
      BY <1>5, <3>1, ConsFacts
    <3>3. Leads(h, ahead', goal', end)
      BY <2>5, <3>1, <3>2, Zenon DEF Took
    <3>4. FieldsFace(e, h, r)
      BY <3>1, Zenon DEF FieldsFace
    <3> QED BY <1>6, <3>1, <3>3, <3>4, Zenon
  <2> QED BY <2>3, <2>4, <2>5, Zenon
<1>8. CASE Variant(Top, r, ahead, goal, end)
  <2>1. Opened(ahead)
    BY <1>8, Zenon DEF Variant
  <2>2. t = "{" /\ ahead' = Tail(ahead) /\ goal' = goal
    BY <1>2, <1>3, <2>1, OpenedTakes, Zenon
  <2>3. PICK h : Leads(h, Tail(ahead), goal, end) /\ (TagFace(e, h, r) \/ StrayFace(e, h, r))
    BY <1>8, Zenon DEF Variant
  <2>4. FieldsFace(e, h, r)
    BY <2>3, Zenon DEF FieldsFace, KeyFace
  <2>5. Leads(h, ahead', goal', end)
    BY <2>2, <2>3, Zenon
  <2> QED BY <1>6, <2>2, <2>4, <2>5, Zenon
<1>9. ~Scanning(Top, r, ahead, goal, end)
  <2>1. Top.fn # "oneof"
    BY <1>1
  <2> QED BY <2>1, Zenon DEF Scanning
<1> QED BY <1>5, <1>7, <1>8, <1>9, Zenon DEF Facing

\* A call that is still to read its value leaves some of the document.
LEMMA SyncUnfinished ==
    ASSUME IInv, ~Done, ret = <<>>, NEW end, InSync(stack, ret, ahead, goal, end)
    PROVE  ~(Len(goal) = 1 /\ ahead = <<>>)
<1>1. PICK r : Owes(Below, r, end) /\ Good(r, end) /\ Facing(Top, r, ahead, goal, end)
  BY SyncFacing DEF IInv
<1>2. ASSUME NEW y, Leads(y, ahead, goal, end), Face(Top, y, r, end), ahead = <<>>
      PROVE  Len(goal) # 1
  <2>1. Long(y, end)
    BY <1>1, <1>2, FaceLong
  <2>2. y = goal
    BY <1>2, LeadsNowhere
  <2> QED BY <2>1, <2>2, LongCut
<1>3. Variant(Top, r, ahead, goal, end) \/ Scanning(Top, r, ahead, goal, end) => ahead # <<>>
  BY Zenon DEF Variant, Scanning, Opened
<1> QED BY <1>1, <1>2, <1>3, Zenon DEF Facing

LEMMA SyncGood ==
    ASSUME IInv, ~Done, ret = <<>>, NEW end, InSync(stack, ret, ahead, goal, end)
    PROVE  Good(goal, end)
<1>1. ASSUME NEW x, NEW a, Leads(x, a, goal, end)
      PROVE  Good(goal, end)
  <2>1. PICK gs : Path(gs, a, goal, end)
    BY <1>1, Zenon DEF Leads
  <2> QED BY <2>1, PathGood
<1>2. ASSUME NEW gs, Path(gs, ahead, goal, end)
      PROVE  Good(goal, end)
  BY <1>2, PathGood
<1>3. PICK r : Facing(Top, r, ahead, goal, end)
  BY SyncFacing DEF IInv
<1> QED BY <1>1, <1>2, <1>3, Zenon DEF Facing, Variant, Scanning

LEMMA TooDeepTracks ==
    ASSUME IInv, NEW end, InSync(stack, ret, ahead, goal, end), TooDeep,
           end[2] = "deep", Below # <<>> => ~Lenient(Below[Len(Below)])
    PROVE  Tracks(stack', ret', ahead', goal', end)
<1>1. ~Done /\ ret = <<>> /\ Return(-1) /\ NoInput
  BY Zenon DEF TooDeep, In
<1>2. ~(Len(goal) = 1 /\ ahead = <<>>)
  BY <1>1, SyncUnfinished
<1>3. stack' = Below /\ ret' = <<-1>> /\ goal' = goal /\ ahead' = ahead
  BY <1>1 DEF Return, NoInput
<1>4. Refused(ahead', goal', end)
  <2>1. Good(goal', end)
    BY <1>1, <1>3, SyncGood
  <2> QED BY <1>2, <1>3, <2>1 DEF Refused
<1>5. stack' # <<>> => ~Lenient(stack'[Len(stack')])
  BY <1>3
<1>6. Failing(stack', ret', ahead', goal', end)
  BY <1>3, <1>4, <1>5 DEF Failing
<1> QED BY <1>6, Zenon DEF Tracks

-----------------------------------------------------------------------------
(***************************************************************************)
(* A loop over an array in step with its document.                         *)
(***************************************************************************)
Lists == {"array", "oneofs", "scalars", "enums", "maps"}
KindOf(fn) == IF fn = "maps" THEN "maps" ELSE "array"
ItemOf(fn) == IF fn = "maps" THEN "map" ELSE "one"
RestFace(c, e, r) == Cons(Sym("rest", c, e), r)

LEMMA ListTop ==
    ASSUME ControlOK, ~Done, Top.fn \in Lists
    PROVE  /\ Typed(ItemOf(Top.fn), Top.elt) /\ ItemOf(Top.fn) \in {"one", "any", "map"}
           /\ Top.fn \in {"scalars", "enums"} => Top.elt \in Scalar
           /\ Top.fn = "enums" => Top.elt = "enum"
<1>1. FrameOK(Top)
  BY TopFacts DEF Stands
<1>2. /\ Top.fn = "maps" => Top.elt \in Scalar \cup DOMAIN Index
      /\ Top.fn \in {"scalars", "enums"} => Top.elt \in Scalar
      /\ Top.fn = "enums" => Top.elt = "enum"
      /\ Top.elt \in Scalar \cup DOMAIN Index \cup DOMAIN Variants
  BY <1>1 DEF FrameOK, Handles, Lists, Scalar
<1>3. Top.fn = "maps" => Top.elt \notin DOMAIN Variants
  BY <1>2, IndexFacts
<1>4. Typed(ItemOf(Top.fn), Top.elt) /\ ItemOf(Top.fn) \in {"one", "any", "map"}
  BY <1>2, <1>3 DEF Typed, ItemOf
<1> QED BY <1>2, <1>4

LEMMA ListFaces ==
    ASSUME Top.fn \in Lists, NEW r, NEW y, NEW end, PlainFace(r, y, end)
    PROVE  /\ ListFace(Top.fn, Top.at, KindOf(Top.fn), ItemOf(Top.fn), Top.elt, y, r)
           /\ Owes(Below, r, end) /\ Good(r, end)
<1>1. Face(Top, y, r, end) /\ Owes(Below, r, end) /\ Good(r, end)
  BY Zenon DEF PlainFace
<1> QED BY <1>1 DEF Face, KindOf, ItemOf, Lists

LEMMA ListFaceIn ==
    ASSUME NEW f, NEW at, NEW key, NEW n, NEW p, NEW q, Moves(f, at, key, n, p, q),
           Top.fn \in Lists, NEW h, NEW r, NEW end,
           ListFace(Top.fn, at, KindOf(Top.fn), ItemOf(Top.fn), Top.elt, h, r)
    PROVE  Face(f, h, r, end)
<1>1. f.fn = Top.fn /\ f.elt = Top.elt /\ f.at = at
  BY Zenon DEF Moves
<1>2. ListFace(f.fn, f.at, KindOf(f.fn), ItemOf(f.fn), f.elt, h, r) /\ f.fn \in Lists
  BY <1>1
<1> QED BY <1>2 DEF Face, KindOf, ItemOf, Lists

LEMMA RestGood ==
    ASSUME NEW c, NEW e, NEW r, NEW end, Good(r, end)
    PROVE  Good(RestFace(c, e, r), end) /\ Good(ElementRest(c, e, r), end)
           /\ ElementRest(c, e, r) = Cons(Sym("val", c, e), RestFace(c, e, r))
<1>1. Good(RestFace(c, e, r), end)
  BY ConsFacts DEF RestFace
<1>2. ElementRest(c, e, r) = Cons(Sym("val", c, e), RestFace(c, e, r))
  BY Zenon DEF ElementRest, RestFace
<1>3. Good(Cons(Sym("val", c, e), RestFace(c, e, r)), end)
  BY <1>1, ConsFacts
<1> QED BY <1>1, <1>2, <1>3

\* What the next token can be where an element, or the end of the array, is to come.
LEMMA ItemStep ==
    ASSUME NEW c \in {"one", "any", "map"}, NEW e, Typed(c, e), NEW r, NEW end, Good(r, end),
           NEW y, y = Cons(Sym("first", c, e), r) \/ y = ElementRest(c, e, r),
           NEW t, t # "eof", NEW h \in Step(y, t)
    PROVE  \/ t = "]" /\ h = r
           \/ /\ t # "]" /\ t # "," /\ t # "stuck" /\ Good(h, end)
              /\ h \in Step(ElementRest(c, e, r), t)
<1>1. (t = "]" /\ h = r) \/ h \in Step(ElementRest(c, e, r), t)
  <2>1. CASE y = Cons(Sym("first", c, e), r)
    <3>1. h \in Step(Cons(Sym("first", c, e), r), t)
      BY <2>1
    <3> QED BY <3>1, StepFirst, Zenon
  <2> QED BY <2>1
<1>2. CASE h \in Step(ElementRest(c, e, r), t)
  <2> DEFINE d == RestFace(c, e, r)
  <2>1. Good(d, end) /\ h \in Step(Cons(Sym("val", c, e), d), t)
    BY <1>2, RestGood, Zenon
  <2> HIDE DEF d
  <2>2. t # "]" /\ t # ","
    BY <2>1, ValueStart, Zenon
  <2>3. Skippable(Sym("val", c, e))
    BY TypedSkippable
  <2>4. Good(h, end) /\ t # "stuck"
    BY <2>1, <2>3, ValueGood
  <2> QED BY <1>2, <2>2, <2>4, Zenon
<1> QED BY <1>1, <1>2, Zenon

LEMMA ListOpenTracks ==
    ASSUME IInv, IInv', NEW end, InSync(stack, ret, ahead, goal, end), ~Done, ret = <<>>,
           Top.fn \in Lists, Top.at = "open", NEW at \in {"first", "elem"},
           at = "elem" => Top.fn \in {"scalars", "enums"},
           NEW t \in Input, Take(t), t = "[" => Goto(at), Done' => ret' # << 0 >>
    PROVE  Tracks(stack', ret', ahead', goal', end)
<1>2. ControlOK /\ ControlOK'
  BY DEF IInv
<1> DEFINE c == ItemOf(Top.fn)
           k == KindOf(Top.fn)
           e == Top.elt
<1>5. \/ t = "eof" /\ CutNow(end)
      \/ t # "eof" /\ \E r, y : PlainFace(r, y, end) /\ \E h \in Step(y, t) : Took(h, t, end)
  <2>1. Top.fn # "oneof" /\ Top.fn # "struct"
    BY DEF Lists
  <2> QED BY <2>1, TakeSync
<1>6. CASE t = "eof" /\ CutNow(end)
  BY <1>6, CutIn
<1>7. ASSUME NEW r, NEW y, PlainFace(r, y, end), NEW h \in Step(y, t), Took(h, t, end)
      PROVE  Tracks(stack', ret', ahead', goal', end)
  <2>1. ListFace(Top.fn, Top.at, k, c, e, y, r) /\ Owes(Below, r, end) /\ Good(r, end)
    BY <1>7, ListFaces
  <2>2. y = Cons(Sym("val", k, e), r)
    BY <2>1, Zenon DEF ListFace
  <2>3. t = "[" /\ h = Cons(Sym("first", c, e), r)
    <3>1. CASE Top.fn = "maps"
      <4>1. k = "maps" /\ c = "map"
        BY <3>1 DEF KindOf, ItemOf
      <4>2. h \in Step(Cons(Sym("val", "maps", e), r), t)
        BY <1>7, <2>2, <4>1
      <4> HIDE DEF e
      <4> QED BY <2>1, <4>1, <4>2, StepMaps, Zenon
    <3>2. CASE Top.fn # "maps"
      <4>1. k = "array" /\ c = "one"
        BY <3>2 DEF KindOf, ItemOf
      <4>2. h \in Step(Cons(Sym("val", "array", e), r), t)
        BY <1>7, <2>2, <4>1
      <4> HIDE DEF e
      <4> QED BY <2>1, <4>1, <4>2, StepArray, Zenon
    <3> QED BY <3>1, <3>2
  <2>4. Goto(at) /\ t # "stuck"
    BY <2>3, Zenon
  <2>5. PICK f : Moves(f, at, Top.key, Top.n, Top.brace, Top.bracket)
    BY <1>2, <2>4, GotoMoves
  <2>6. Face(f, h, r, end)
    <3>1. ListFace(Top.fn, at, k, c, e, h, r)
      <4>1. CASE at = "first"
        BY <2>3, <4>1, Zenon DEF ListFace
      <4>2. CASE at = "elem"
        BY <2>3, <4>2, Zenon DEF ListFace
      <4> QED BY <4>1, <4>2
    <3> QED BY <2>5, <3>1, ListFaceIn
  <2> QED BY <1>2, <1>7, <2>1, <2>4, <2>5, <2>6, MoveIn
<1> QED BY <1>5, <1>6, <1>7, Zenon

LEMMA ListFirstTracks ==
    ASSUME IInv, IInv', NEW end, InSync(stack, ret, ahead, goal, end), Top.fn \in Lists,
           NEW fn, First(fn), Done' => ret' # << 0 >>
    PROVE  Tracks(stack', ret', ahead', goal', end)
<1>1. ~Done /\ ret = <<>> /\ Top.at = "first"
  BY Zenon DEF First, In
<1>2. ControlOK /\ ControlOK'
  BY DEF IInv
<1>3. PICK t \in Input :
         IF t = "]" THEN Take(t) /\ Return(0) ELSE Peek(0, t) /\ Goto("elem")
  BY Zenon DEF First
<1> DEFINE c == ItemOf(Top.fn)
           k == KindOf(Top.fn)
           e == Top.elt
<1>a. Top.fn # "oneof" /\ Top.fn # "struct"
  BY DEF Lists
<1>b. Typed(c, e) /\ c \in {"one", "any", "map"}
  BY <1>1, <1>2, ListTop
<1>4. ASSUME t # "eof", NEW r, NEW y, PlainFace(r, y, end), NEW h \in Step(y, t)
      PROVE  /\ Owes(Below, r, end) /\ Good(r, end)
             /\ \/ t = "]" /\ h = r
                \/ /\ t # "]" /\ t # "," /\ t # "stuck" /\ Good(h, end)
                   /\ h \in Step(ElementRest(c, e, r), t)
  <2>1. ListFace(Top.fn, Top.at, k, c, e, y, r) /\ Owes(Below, r, end) /\ Good(r, end)
    BY <1>4, ListFaces
  <2>2. y = Cons(Sym("first", c, e), r) \/ y = ElementRest(c, e, r)
    BY <1>1, <2>1, Zenon DEF ListFace
  <2> HIDE DEF c, e
  <2>3. \/ t = "]" /\ h = r
        \/ /\ t # "]" /\ t # "," /\ t # "stuck" /\ Good(h, end)
           /\ h \in Step(ElementRest(c, e, r), t)
    BY <1>b, <1>4, <2>1, <2>2, ItemStep, Zenon
  <2> QED BY <2>1, <2>3, Zenon
<1>5. CASE t = "]"
  <2>1. Take(t) /\ Return(0) /\ t # "eof" /\ t # "stuck"
    BY <1>3, <1>5
  <2>2. PICK r, y : PlainFace(r, y, end) /\ \E h \in Step(y, t) : Took(h, t, end)
    BY <1>1, <1>a, <2>1, TakeSync
  <2>3. PICK h \in Step(y, t) : Took(h, t, end)
    BY <2>2
  <2>4. Owes(Below, r, end) /\ Good(r, end) /\ h = r
    BY <1>4, <1>5, <2>1, <2>2, Zenon
  <2>5. Leads(r, ahead', goal', end)
    BY <2>1, <2>3, <2>4, Zenon DEF Took
  <2> QED BY <2>1, <2>4, <2>5, ReturnIn
<1>6. CASE t # "]"
  <2>1. Peek(0, t) /\ Goto("elem")
    BY <1>3, <1>6
  <2>2. \/ t = "eof" /\ CutNow(end)
        \/ t # "eof" /\ \E r, y : PlainFace(r, y, end) /\ \E h \in Step(y, t) : Peeked(h, t, end)
    BY <1>1, <1>a, <2>1, PeekSync
  <2>3. CASE t = "eof" /\ CutNow(end)
    BY <2>3, CutIn
  <2>4. ASSUME t # "eof", NEW r, NEW y, PlainFace(r, y, end), NEW h \in Step(y, t), Peeked(h, t, end)
        PROVE  Tracks(stack', ret', ahead', goal', end)
    <3> DEFINE z == ElementRest(c, e, r)
    <3>1. Owes(Below, r, end) /\ Good(r, end) /\ Good(h, end) /\ h \in Step(z, t)
      BY <1>4, <1>6, <2>4, Zenon
    <3>2. PICK f : Moves(f, "elem", Top.key, Top.n, Top.brace, Top.bracket)
      BY <1>1, <1>2, <2>1, GotoMoves
    <3>3. Face(f, z, r, end)
      <4>1. ListFace(Top.fn, "elem", k, c, e, z, r)
        BY Zenon DEF ListFace
      <4> QED BY <3>2, <4>1, ListFaceIn
    <3> HIDE DEF z
    <3> QED BY <1>1, <1>2, <2>4, <3>1, <3>2, <3>3, PeekIn
  <2> QED BY <2>2, <2>3, <2>4, Zenon
<1> QED BY <1>5, <1>6

LEMMA ListSeparatorTracks ==
    ASSUME IInv, IInv', NEW end, InSync(stack, ret, ahead, goal, end), ~Done, ret = <<>>,
           Top.fn \in Lists, Top.at = "sep", NEW at \in {"first", "elem"},
           NEW t \in Input, Take(t), t = "]" => Return(0), t = "," => Goto(at),
           Done' => ret' # << 0 >>
    PROVE  Tracks(stack', ret', ahead', goal', end)
<1>2. ControlOK /\ ControlOK'
  BY DEF IInv
<1> DEFINE c == ItemOf(Top.fn)
           k == KindOf(Top.fn)
           e == Top.elt
<1>5. \/ t = "eof" /\ CutNow(end)
      \/ t # "eof" /\ \E r, y : PlainFace(r, y, end) /\ \E h \in Step(y, t) : Took(h, t, end)
  <2>1. Top.fn # "oneof" /\ Top.fn # "struct"
    BY Zenon DEF Lists
  <2> QED BY <2>1, TakeSync, Zenon
<1>6. CASE t = "eof" /\ CutNow(end)
  BY <1>6, CutIn, Zenon
<1>7. ASSUME NEW r, NEW y, PlainFace(r, y, end), NEW h \in Step(y, t), Took(h, t, end)
      PROVE  Tracks(stack', ret', ahead', goal', end)
  <2>1. ListFace(Top.fn, Top.at, k, c, e, y, r) /\ Owes(Below, r, end) /\ Good(r, end)
    BY <1>7, ListFaces, Zenon
  <2>2. y = Cons(Sym("rest", c, e), r)
    BY <2>1, Zenon DEF ListFace
  <2>3. (t = "]" /\ h = r) \/ (t = "," /\ h = ElementRest(c, e, r))
    <3>1. h \in Step(Cons(Sym("rest", c, e), r), t)
      BY <1>7, <2>2, Zenon
    <3> HIDE DEF c, e
    <3> QED BY <2>1, <3>1, StepRest, Zenon
  <2>4. CASE t = "]" /\ h = r
    <3>1. Return(0) /\ Leads(r, ahead', goal', end)
      BY <1>7, <2>1, <2>4, Zenon DEF Took
    <3> QED BY <2>1, <3>1, ReturnIn, Zenon
  <2>5. CASE t = "," /\ h = ElementRest(c, e, r)
    <3>1. Goto(at) /\ t # "stuck"
      BY <2>5, Zenon
    <3>2. PICK f : Moves(f, at, Top.key, Top.n, Top.brace, Top.bracket)
      BY <1>2, <3>1, GotoMoves, Zenon
    <3>3. Face(f, h, r, end)
      <4>1. ListFace(Top.fn, at, k, c, e, h, r)
        BY <2>5, Zenon DEF ListFace
      <4> QED BY <3>2, <4>1, ListFaceIn, Zenon
    <3> QED BY <1>2, <1>7, <2>1, <3>1, <3>2, <3>3, MoveIn, Zenon
  <2> QED BY <2>3, <2>4, <2>5, Zenon
<1> QED BY <1>5, <1>6, <1>7, Zenon

\* An element read by a call of its own.
LEMMA ListCallTracks ==
    ASSUME IInv, IInv', NEW end, InSync(stack, ret, ahead, goal, end), ~Done, ret = <<>>,
           Top.fn \in {"array", "oneofs", "maps"}, Top.at = "elem",
           NoInput, NEW g, Call("called", g), g.at = "open", Fresh(g), g.elt = Top.elt,
           \/ Top.fn = "array" /\ g.fn = "struct"
           \/ Top.fn = "oneofs" /\ g.fn = "oneof"
           \/ Top.fn = "maps" /\ g.fn = "map"
    PROVE  Tracks(stack', ret', ahead', goal', end)
<1>2. ControlOK /\ ControlOK'
  BY DEF IInv
<1> DEFINE c == ItemOf(Top.fn)
           k == KindOf(Top.fn)
           e == Top.elt
<1>3. PICK r : Owes(Below, r, end) /\ Good(r, end) /\ Facing(Top, r, ahead, goal, end)
  BY <1>2, SyncFacing
<1>4. PICK y : Leads(y, ahead, goal, end) /\ Face(Top, y, r, end)
  <2>1. Top.fn # "oneof" /\ Top.fn # "struct"
    OBVIOUS
  <2> QED BY <1>3, <2>1, PlainFacing
<1>5. PlainFace(r, y, end)
  BY <1>3, <1>4, FaceLong, Zenon DEF PlainFace
<1>6. Top.fn \in Lists /\ Top.fn \notin {"scalars", "enums"}
  BY DEF Lists
<1>7. y = ElementRest(c, e, r)
  <2>1. ListFace(Top.fn, Top.at, k, c, e, y, r)
    BY <1>5, <1>6, ListFaces
  <2> QED BY <1>6, <2>1, Zenon DEF ListFace
<1> DEFINE d == RestFace(c, e, r)
<1>8. Good(d, end) /\ y = Cons(Sym("val", c, e), d)
  BY <1>3, <1>7, RestGood, Zenon
<1>9. PICK f \in FrameSet :
         /\ stack' = Append(Append(Below, f), g) /\ ret' = <<>>
         /\ f.fn = Top.fn /\ f.elt = Top.elt
  BY <1>2, CallMoves
<1>10. g \in FrameSet
  BY <1>2, CallMoves
<1>11. After(f, d, r)
  <2>1. CASE Top.fn = "maps"
    <3>1. d = Cons(Sym("rest", "map", f.elt), r)
      BY <1>9, <2>1 DEF RestFace, ItemOf
    <3> HIDE DEF d
    <3> QED BY <1>9, <2>1, <3>1, Zenon DEF After
  <2>2. CASE Top.fn # "maps"
    <3>1. d = Cons(Sym("rest", "one", f.elt), r) /\ f.fn \in {"array", "oneofs"}
      BY <1>9, <2>2 DEF RestFace, ItemOf
    <3> HIDE DEF d
    <3> QED BY <3>1, Zenon DEF After
  <2> QED BY <2>1, <2>2
<1>12. Face(g, y, d, end)
  <2>1. CASE Top.fn = "array" /\ g.fn = "struct"
    <3>1. y = Cons(Sym("val", "one", g.elt), d)
      BY <1>8, <2>1 DEF ItemOf
    <3> HIDE DEF d
    <3>2. StructFace(g.at, g.elt, g.key, y, d)
      BY <3>1, Zenon DEF StructFace
    <3> QED BY <2>1, <3>2, Zenon DEF Face
  <2>2. CASE Top.fn = "oneofs" /\ g.fn = "oneof"
    <3>1. y = Cons(Sym("val", "one", g.elt), d)
      BY <1>8, <2>2 DEF ItemOf
    <3> HIDE DEF d
    <3> QED BY <2>2, <3>1, Zenon DEF Face
  <2>3. CASE Top.fn = "maps" /\ g.fn = "map"
    <3>1. y = Cons(Sym("val", "map", g.elt), d)
      BY <1>8, <2>3 DEF ItemOf
    <3> HIDE DEF d
    <3>2. MapFace(g.at, g.elt, y, d)
      BY <3>1, Zenon DEF MapFace
    <3> QED BY <2>3, <3>2, Zenon DEF Face
  <2> QED BY <2>1, <2>2, <2>3
<1> HIDE DEF d
<1>13. Facing(g, d, ahead', goal', end)
  <2>1. Leads(y, ahead', goal', end)
    BY <1>4, NoInputLeads
  <2> QED BY <1>12, <2>1, Zenon DEF Facing
<1> QED BY <1>2, <1>3, <1>8, <1>9, <1>10, <1>11, <1>13, CallIn

LEMMA ListBackTracks ==
    ASSUME IInv, IInv', NEW end, InSync(stack, ret, ahead, goal, end), ~Done, ret # <<>>,
           Top.fn \in {"array", "oneofs", "maps"}, NoInput, ret[1] = 0 => Stored("sep")
    PROVE  Tracks(stack', ret', ahead', goal', end)
<1>2. ControlOK /\ ControlOK'
  BY DEF IInv
<1> DEFINE c == ItemOf(Top.fn)
           k == KindOf(Top.fn)
           e == Top.elt
<1>3. ret[1] = 0
  BY <1>2, SyncAfter
<1>4. PICK r, y : Owes(Below, r, end) /\ After(Top, y, r) /\ Leads(y, ahead, goal, end)
  BY <1>2, SyncAfter
<1>5. y = Cons(Sym("rest", c, e), r)
  <2>1. CASE Top.fn = "maps"
    <3>1. c = "map"
      BY <2>1 DEF ItemOf
    <3>2. y = Cons(Sym("rest", "map", e), r)
      BY <1>4, <2>1 DEF After
    <3> QED BY <3>1, <3>2
  <2>2. CASE Top.fn # "maps"
    <3>1. c = "one" /\ Top.fn \in {"array", "oneofs"}
      BY <2>2 DEF ItemOf
    <3>2. y = Cons(Sym("rest", "one", e), r)
      BY <1>4, <3>1 DEF After
    <3> QED BY <3>1, <3>2
  <2> QED BY <2>1, <2>2
<1>6. Stored("sep")
  BY <1>3
<1>7. PICK f, n : Moves(f, "sep", Top.key, n, Top.brace, Top.bracket)
  BY <1>2, <1>6, StoredMoves
<1>8. Face(f, y, r, end)
  <2>1. ListFace(Top.fn, "sep", k, c, e, y, r)
    BY <1>5, Zenon DEF ListFace
  <2>2. Top.fn \in Lists
    BY DEF Lists
  <2> QED BY <1>7, <2>1, <2>2, ListFaceIn
<1>9. Leads(y, ahead', goal', end)
  BY <1>4, NoInputLeads
<1> QED BY <1>2, <1>4, <1>7, <1>8, <1>9, MoveLeads

\* An element that is one token, a number or a string.
LEMMA ListItemTracks ==
    ASSUME IInv, IInv', NEW end, InSync(stack, ret, ahead, goal, end), ~Done, ret = <<>>,
           Top.fn \in {"scalars", "enums"}, Top.at = "elem",
           NEW at \in {"sep", "elem"}, at = "elem" => Top.fn = "enums",
           NEW t \in Input, Take(t), t = "]" => Return(0),
           t = "," /\ Top.fn = "enums" => Goto("elem"),
           t # "]" /\ t # "," /\ ScalarCode(Top.elt, t) = 0 => Stored(at),
           Done' => ret' # << 0 >>
    PROVE  Tracks(stack', ret', ahead', goal', end)
<1>2. ControlOK /\ ControlOK'
  BY Zenon DEF IInv
<1> DEFINE c == ItemOf(Top.fn)
           k == KindOf(Top.fn)
           e == Top.elt
<1>a. Top.fn \in Lists /\ Top.fn # "oneof" /\ Top.fn # "struct" /\ Top.fn # "maps"
  BY Zenon DEF Lists
<1>b. Typed(c, e) /\ c = "one" /\ e \in Scalar
  BY <1>2, <1>a, ListTop, Zenon DEF ItemOf
<1>5. \/ t = "eof" /\ CutNow(end)
      \/ t # "eof" /\ \E r, y : PlainFace(r, y, end) /\ \E h \in Step(y, t) : Took(h, t, end)
  BY <1>a, TakeSync, Zenon
<1>6. CASE t = "eof" /\ CutNow(end)
  BY <1>6, CutIn, Zenon
<1>7. ASSUME t # "eof", NEW r, NEW y, PlainFace(r, y, end), NEW h \in Step(y, t), Took(h, t, end)
      PROVE  Tracks(stack', ret', ahead', goal', end)
  <2>1. ListFace(Top.fn, Top.at, k, c, e, y, r) /\ Owes(Below, r, end) /\ Good(r, end)
    BY <1>7, <1>a, ListFaces, Zenon
  <2>2. \/ y = Cons(Sym("first", c, e), r) \/ y = ElementRest(c, e, r)
        \/ Top.fn = "enums" /\ y = Cons(Sym("rest", c, e), r)
    BY <2>1, Zenon DEF ListFace
  <2>3. ASSUME t = "]", h = r
        PROVE  Tracks(stack', ret', ahead', goal', end)
    <3>1. Return(0) /\ Leads(r, ahead', goal', end)
      BY <1>7, <2>1, <2>3, Zenon DEF Took
    <3> QED BY <2>1, <3>1, ReturnIn, Zenon
  <2>4. CASE y = Cons(Sym("first", c, e), r) \/ y = ElementRest(c, e, r)
    <3>1. \/ t = "]" /\ h = r
          \/ /\ t # "]" /\ t # "," /\ t # "stuck" /\ Good(h, end)
             /\ h \in Step(ElementRest(c, e, r), t)
      <4>1. c \in {"one", "any", "map"}
        BY <1>b, Zenon
      <4>2. Typed(c, e) /\ Good(r, end) /\ t # "eof" /\ h \in Step(y, t)
        BY <1>b, <1>7, <2>1, Zenon
      <4> HIDE DEF c, e
      <4> QED BY <2>4, <4>1, <4>2, ItemStep, Zenon
    <3>2. CASE /\ t # "]" /\ t # "," /\ t # "stuck" /\ Good(h, end)
               /\ h \in Step(ElementRest(c, e, r), t)
      <4> DEFINE d == RestFace(c, e, r)
      <4>1. Good(d, end) /\ h \in Step(Cons(Sym("val", "one", e), d), t)
        BY <1>b, <2>1, <3>2, RestGood, Zenon
      <4>2. ScalarCode(e, t) = 0 /\ h = d
        <5> HIDE DEF d, e
        <5> QED BY <1>b, <4>1, StepScalar, Zenon
      <4>3. Stored(at)
        BY <3>2, <4>2, Zenon
      <4>4. PICK f, n : Moves(f, at, Top.key, n, Top.brace, Top.bracket)
        BY <1>2, <4>3, StoredMoves, Zenon
      <4>5. Face(f, h, r, end)
        <5>1. h = Cons(Sym("rest", c, e), r)
          BY <4>2, Zenon DEF RestFace
        <5>2. ListFace(Top.fn, at, k, c, e, h, r)
          BY <5>1, Zenon DEF ListFace
        <5> QED BY <1>a, <4>4, <5>2, ListFaceIn, Zenon
      <4> QED BY <1>2, <1>7, <2>1, <3>2, <4>4, <4>5, MoveIn, Zenon
    <3> QED BY <2>3, <3>1, <3>2, Zenon
  <2>5. CASE Top.fn = "enums" /\ y = Cons(Sym("rest", c, e), r)
    <3>1. (t = "]" /\ h = r) \/ (t = "," /\ h = ElementRest(c, e, r))
      <4>1. h \in Step(Cons(Sym("rest", c, e), r), t)
        BY <1>7, <2>5, Zenon
      <4> HIDE DEF c, e
      <4> QED BY <2>1, <4>1, StepRest, Zenon
    <3>2. CASE t = "," /\ h = ElementRest(c, e, r)
      <4>1. Goto("elem") /\ t # "stuck"
        BY <2>5, <3>2, Zenon
      <4>2. PICK f : Moves(f, "elem", Top.key, Top.n, Top.brace, Top.bracket)
        BY <1>2, <4>1, GotoMoves, Zenon
      <4>3. Face(f, h, r, end)
        <5>1. ListFace(Top.fn, "elem", k, c, e, h, r)
          BY <3>2, Zenon DEF ListFace
        <5> QED BY <1>a, <4>2, <5>1, ListFaceIn, Zenon
      <4> QED BY <1>2, <1>7, <2>1, <4>1, <4>2, <4>3, MoveIn, Zenon
    <3> QED BY <2>3, <3>1, <3>2, Zenon
  <2> QED BY <2>2, <2>4, <2>5, Zenon
<1> QED BY <1>5, <1>6, <1>7, Zenon

LEMMA OpenListTracks ==
    ASSUME IInv, IInv', NEW end, InSync(stack, ret, ahead, goal, end), Top.fn \in Lists,
           NEW fn, NEW error, Open(fn, error), Done' => ret' # << 0 >>
    PROVE  Tracks(stack', ret', ahead', goal', end)
<1>1. ~Done /\ ret = <<>> /\ Top.at = "open"
  BY Zenon DEF Open, In
<1>2. PICK t \in Input : Take(t) /\ IF t = "[" THEN Goto("first") ELSE Return(error)
  BY Zenon DEF Open
<1>3. t = "[" => Goto("first")
  BY <1>2
<1>4. "first" \in {"first", "elem"} /\ "first" # "elem"
  OBVIOUS
<1> QED BY <1>1, <1>2, <1>3, <1>4, ListOpenTracks, Zenon

LEMMA SeparatedTracks ==
    ASSUME IInv, IInv', NEW end, InSync(stack, ret, ahead, goal, end), Top.fn \in Lists,
           NEW fn, NEW error, Separator(fn, error), Done' => ret' # << 0 >>
    PROVE  Tracks(stack', ret', ahead', goal', end)
<1>1. ~Done /\ ret = <<>> /\ Top.at = "sep"
  BY Zenon DEF Separator, In
<1>2. PICK t \in Input : Take(t) /\
         CASE t = "]" -> Return(0)
           [] t = "eof" \/ t \in LexError -> Return(error)
           [] OTHER -> Goto("elem")
  BY Zenon DEF Separator
<1>3. (t = "]" => Return(0)) /\ (t = "," => Goto("elem"))
  BY <1>2, Zenon DEF LexError
<1>4. "elem" \in {"first", "elem"}
  OBVIOUS
<1> QED BY <1>1, <1>2, <1>3, <1>4, ListSeparatorTracks, Zenon

LEMMA ArrayTracks ==
    ASSUME IInv, IInv', NEW end, InSync(stack, ret, ahead, goal, end), Array,
           Done' => ret' # << 0 >>
    PROVE  Tracks(stack', ret', ahead', goal', end)
<1>1. Top.fn = "array" /\ Top.fn \in Lists
  BY Zenon DEF Array, Open, First, ArrayElement, ArrayBack, Separator, In, Back, Lists
<1>2. CASE Open("array", PARSE)
  BY <1>1, <1>2, OpenListTracks, Zenon
<1>3. CASE First("array")
  BY <1>1, <1>3, ListFirstTracks, Zenon
<1>4. CASE Separator("array", PARSE)
  BY <1>1, <1>4, SeparatedTracks, Zenon
<1>5. CASE ArrayElement
  <2> DEFINE g == Element(Top.depth + 1)
  <2>1. ~Done /\ ret = <<>> /\ Top.at = "elem" /\ NoInput /\ Call("called", g)
    BY <1>5, Zenon DEF ArrayElement, In
  <2>2. g.at = "open" /\ g.elt = Top.elt /\ g.fn = "struct" /\ Fresh(g)
    BY FrameFields DEF Element, Fresh
  <2> HIDE DEF g
  <2> QED BY <1>1, <2>1, <2>2, ListCallTracks
<1>6. CASE ArrayBack
  <2>1. ~Done /\ ret # <<>> /\ NoInput
    BY <1>6, Zenon DEF ArrayBack, Back
  <2>2. ret[1] = 0 => Stored("sep")
    BY <1>6 DEF ArrayBack
  <2> QED BY <1>1, <2>1, <2>2, ListBackTracks
<1> QED BY <1>2, <1>3, <1>4, <1>5, <1>6, Zenon DEF Array

\* What a loop does with the code of an element it has read, and of "]".
LEMMA AfterCodes ==
    ASSUME NEW r, AfterElement(r)
    PROVE  (r = Code("]") => Return(0)) /\ (r = 0 => Stored("sep"))
<1> DEFINE c == Code("]")
<1>1. (CASE r = c -> Return(0) [] r < 0 -> Return(r) [] OTHER -> Stored("sep"))
  BY Zenon DEF AfterElement
<1>2. c = 93
  BY Zenon DEF Code, LexError
<1> HIDE DEF c
<1>3. (r = c => Return(0)) /\ (r = 0 => Stored("sep"))
  BY <1>1, <1>2
<1> QED BY <1>3, Zenon DEF c

LEMMA ScalarsTracks ==
    ASSUME IInv, IInv', NEW end, InSync(stack, ret, ahead, goal, end), Scalars,
           Done' => ret' # << 0 >>
    PROVE  Tracks(stack', ret', ahead', goal', end)
<1>1. Top.fn = "scalars" /\ Top.fn \in Lists /\ ~Done /\ ret = <<>>
  BY Zenon DEF Scalars, ScalarsOpen, ScalarsElement, Separator, In, Lists
<1>a. ControlOK
  BY DEF IInv
<1>2. CASE ScalarsOpen
  <2>1. PICK t \in Input : Take(t) /\ IF t = "[" THEN Goto("elem") ELSE Return(-1)
    BY <1>2, Zenon DEF ScalarsOpen
  <2>2. Top.at = "open" /\ (t = "[" => Goto("elem"))
    BY <1>2, <2>1, Zenon DEF ScalarsOpen, In
  <2>3. "elem" \in {"first", "elem"} /\ ("elem" = "elem" => Top.fn \in {"scalars", "enums"})
    BY <1>1
  <2> QED BY <1>1, <2>1, <2>2, <2>3, ListOpenTracks, Zenon
<1>3. CASE Separator("scalars", -1)
  BY <1>1, <1>3, SeparatedTracks, Zenon
<1>4. CASE ScalarsElement
  <2>1. PICK t \in Input : Take(t) /\ AfterElement(ScalarCode(Top.elt, t))
    BY <1>4, Zenon DEF ScalarsElement
  <2>2. Top.at = "elem" /\ Top.fn # "enums" /\ Top.fn \in {"scalars", "enums"}
        /\ "sep" \in {"sep", "elem"} /\ "sep" # "elem"
    BY <1>1, <1>4 DEF ScalarsElement, In
  <2>3. Top.elt \in Scalar
    BY <1>1, <1>a, ListTop
  <2>4. t = "]" => Return(0)
    <3>1. t = "]" => ScalarCode(Top.elt, t) = Code("]")
      BY <2>3, ClosedCode, Zenon
    <3> QED BY <2>1, <3>1, AfterCodes, Zenon
  <2>5. ScalarCode(Top.elt, t) = 0 => Stored("sep")
    BY <2>1, AfterCodes, Zenon
  <2> QED BY <1>1, <2>1, <2>2, <2>4, <2>5, ListItemTracks, Zenon
<1> QED BY <1>2, <1>3, <1>4, Zenon DEF Scalars

LEMMA EnumsTracks ==
    ASSUME IInv, IInv', NEW end, InSync(stack, ret, ahead, goal, end), Enums,
           Done' => ret' # << 0 >>
    PROVE  Tracks(stack', ret', ahead', goal', end)
<1>1. Top.fn = "enums" /\ Top.fn \in Lists /\ ~Done /\ ret = <<>>
  BY Zenon DEF Enums, EnumsOpen, EnumsElement, In, Lists
<1>a. ControlOK
  BY DEF IInv
<1>2. CASE EnumsOpen
  <2>1. PICK t \in Input : Take(t) /\
         CASE t = "null" -> Return(0)
           [] t = "[" -> Goto("elem")
           [] OTHER -> Return(-1)
    BY <1>2, Zenon DEF EnumsOpen
  <2>2. Top.at = "open" /\ (t = "[" => Goto("elem"))
    BY <1>2, <2>1, Zenon DEF EnumsOpen, In
  <2>3. "elem" \in {"first", "elem"} /\ ("elem" = "elem" => Top.fn \in {"scalars", "enums"})
    BY <1>1
  <2> QED BY <1>1, <2>1, <2>2, <2>3, ListOpenTracks, Zenon
<1>4. CASE EnumsElement
  <2>1. PICK t \in Input : Take(t) /\
         CASE t = "]" -> Return(0)
           [] t = "," -> Goto("elem")
           [] OTHER -> LET r == ScalarCode("enum", t)
                       IN  IF r # 0 THEN Return(r) ELSE Stored("elem")
    BY <1>4, Zenon DEF EnumsElement
  <2>2. Top.at = "elem" /\ Top.fn \in {"scalars", "enums"} /\ "elem" \in {"sep", "elem"}
    BY <1>1, <1>4 DEF EnumsElement, In
  <2>3. Top.elt = "enum"
    BY <1>1, <1>a, ListTop
  <2>4. t = "]" => Return(0)
    BY <2>1, Zenon
  <2>5. t = "," => Goto("elem")
    BY <2>1, Zenon
  <2>6. t # "]" /\ t # "," /\ ScalarCode(Top.elt, t) = 0 => Stored("elem")
    BY <2>1, <2>3, Zenon
  <2> QED BY <1>1, <2>1, <2>2, <2>4, <2>5, <2>6, ListItemTracks, Zenon
<1> QED BY <1>2, <1>4, Zenon DEF Enums

LEMMA MapsTracks ==
    ASSUME IInv, IInv', NEW end, InSync(stack, ret, ahead, goal, end), Maps,
           Done' => ret' # << 0 >>
    PROVE  Tracks(stack', ret', ahead', goal', end)
<1>1. Top.fn = "maps" /\ Top.fn \in Lists /\ ~Done
  BY Zenon DEF Maps, MapsOpen, First, MapsElement, MapsBack, MapsSeparator, In, Back, Lists
<1>b. "first" \in {"first", "elem"} /\ "first" # "elem"
  OBVIOUS
<1>2. CASE MapsOpen
  <2>1. PICK t \in Input : Take(t) /\
         CASE t = "null" -> Return(0)
           [] t = "[" -> Goto("first")
           [] OTHER -> Return(-1)
    BY <1>2, Zenon DEF MapsOpen
  <2>2. ret = <<>> /\ Top.at = "open" /\ (t = "[" => Goto("first"))
    BY <1>2, <2>1, Zenon DEF MapsOpen, In
  <2> QED BY <1>1, <1>b, <2>1, <2>2, ListOpenTracks, Zenon
<1>3. CASE First("maps")
  BY <1>1, <1>3, ListFirstTracks, Zenon
<1>4. CASE MapsSeparator
  <2>1. PICK t \in Input : Take(t) /\
         CASE t = "]" -> Return(0)
           [] t = "," -> Goto("first")
           [] OTHER -> Return(-1)
    BY <1>4, Zenon DEF MapsSeparator
  <2>2. ret = <<>> /\ Top.at = "sep" /\ (t = "]" => Return(0)) /\ (t = "," => Goto("first"))
    BY <1>4, <2>1, Zenon DEF MapsSeparator, In
  <2> QED BY <1>1, <1>b, <2>1, <2>2, ListSeparatorTracks, Zenon
<1>5. CASE MapsElement
  <2> DEFINE g == Frame("map", Top.elt, Top.depth + 1)
  <2>1. ret = <<>> /\ Top.at = "elem" /\ NoInput /\ Call("called", g)
    BY <1>5, Zenon DEF MapsElement, In
  <2>2. g.at = "open" /\ g.elt = Top.elt /\ g.fn = "map" /\ Fresh(g)
    BY FrameFields DEF Fresh
  <2> HIDE DEF g
  <2> QED BY <1>1, <2>1, <2>2, ListCallTracks
<1>6. CASE MapsBack
  <2>1. ret # <<>> /\ NoInput
    BY <1>6, Zenon DEF MapsBack, Back
  <2>2. ret[1] = 0 => Stored("sep")
    BY <1>6 DEF MapsBack
  <2> QED BY <1>1, <2>1, <2>2, ListBackTracks
<1> QED BY <1>2, <1>3, <1>4, <1>5, <1>6, Zenon DEF Maps

LEMMA OneofsTracks ==
    ASSUME IInv, IInv', NEW end, InSync(stack, ret, ahead, goal, end), Oneofs,
           Done' => ret' # << 0 >>
    PROVE  Tracks(stack', ret', ahead', goal', end)
<1>1. Top.fn = "oneofs" /\ Top.fn \in Lists /\ ~Done
  BY Zenon DEF Oneofs, OneofsOpen, First, OneofsElement, OneofsBack, OneofsSeparator, In, Back, Lists
<1>b. "first" \in {"first", "elem"} /\ "first" # "elem"
  OBVIOUS
<1>2. CASE OneofsOpen
  <2>1. PICK t \in Input : Take(t) /\
         CASE t = "null" -> Return(0)
           [] t = "[" -> Goto("first")
           [] OTHER -> Return(-1)
    BY <1>2, Zenon DEF OneofsOpen
  <2>2. ret = <<>> /\ Top.at = "open" /\ (t = "[" => Goto("first"))
    BY <1>2, <2>1, Zenon DEF OneofsOpen, In
  <2> QED BY <1>1, <1>b, <2>1, <2>2, ListOpenTracks, Zenon
<1>3. CASE First("oneofs")
  BY <1>1, <1>3, ListFirstTracks, Zenon
<1>4. CASE OneofsSeparator
  <2>1. PICK t \in Input :
         CASE t = "]" -> Take(t) /\ Return(0)
           [] t = "," -> Take(t) /\ Goto("first")
           [] t = "eof" \/ t \in LexError -> Peek(0, t) /\ Return(-1)
           [] OTHER -> Peek(0, t) /\ Goto("first")
    BY <1>4, Zenon DEF OneofsSeparator
  <2>2. ret = <<>> /\ Top.at = "sep"
    BY <1>4, Zenon DEF OneofsSeparator, In
  <2>3. CASE t = "]" \/ t = ","
    <3>1. Take(t) /\ (t = "]" => Return(0)) /\ (t = "," => Goto("first"))
      <4>1. CASE t = "]"
        BY <2>1, <4>1, Zenon DEF LexError
      <4>2. CASE t = ","
        BY <2>1, <4>2, Zenon DEF LexError
      <4> QED BY <2>3, <4>1, <4>2, Zenon
    <3> QED BY <1>1, <1>b, <2>2, <3>1, ListSeparatorTracks, Zenon
  <2>4. CASE ~(t = "]" \/ t = ",")
    <3>1. Peek(0, t)
      BY <2>1, <2>4, Zenon
    <3>2. Top.fn # "oneof" /\ Top.fn # "struct"
      BY <1>1
    <3>3. \/ t = "eof" /\ CutNow(end)
          \/ t # "eof" /\ \E r, y : PlainFace(r, y, end) /\ \E h \in Step(y, t) : Peeked(h, t, end)
      BY <1>1, <2>2, <3>1, <3>2, PeekSync, Zenon
    <3>4. CASE t = "eof" /\ CutNow(end)
      BY <3>4, CutIn, Zenon
    <3>5. ASSUME NEW r, NEW y, PlainFace(r, y, end), NEW h \in Step(y, t)
          PROVE  FALSE
      <4> DEFINE c == ItemOf(Top.fn)
                 e == Top.elt
      <4>1. ListFace(Top.fn, Top.at, KindOf(Top.fn), c, e, y, r) /\ Good(r, end)
        BY <1>1, <3>5, ListFaces, Zenon
      <4>2. y = Cons(Sym("rest", c, e), r)
        BY <2>2, <4>1, Zenon DEF ListFace
      <4>3. h \in Step(Cons(Sym("rest", c, e), r), t)
        BY <3>5, <4>2, Zenon
      <4> HIDE DEF c, e
      <4> QED BY <2>4, <4>1, <4>3, StepRest, Zenon
    <3> QED BY <3>3, <3>4, <3>5, Zenon
  <2> QED BY <2>3, <2>4, Zenon
<1>5. CASE OneofsElement
  <2> DEFINE g == Frame("oneof", Top.elt, Top.depth)
  <2>1. ret = <<>> /\ Top.at = "elem" /\ NoInput /\ Call("called", g)
    BY <1>5, Zenon DEF OneofsElement, In
  <2>2. g.at = "open" /\ g.elt = Top.elt /\ g.fn = "oneof" /\ Fresh(g)
    BY FrameFields DEF Fresh
  <2> HIDE DEF g
  <2> QED BY <1>1, <2>1, <2>2, ListCallTracks
<1>6. CASE OneofsBack
  <2>1. ret # <<>> /\ NoInput
    BY <1>6, Zenon DEF OneofsBack, Back
  <2>2. ret[1] = 0 => Stored("sep")
    BY <1>6 DEF OneofsBack
  <2> QED BY <1>1, <2>1, <2>2, ListBackTracks
<1> QED BY <1>2, <1>3, <1>4, <1>5, <1>6, Zenon DEF Oneofs

-----------------------------------------------------------------------------
(***************************************************************************)
(* The loop over a fixed-size array in step with its document.             *)
(***************************************************************************)
LEMMA FixedTop ==
    ASSUME ControlOK, ~Done, Top.fn = "fixed"
    PROVE  /\ Top.elt \in Scalar \cup DOMAIN Index \cup DOMAIN Variants
           /\ Typed("one", Top.elt) /\ Top.n \in Nat
<1>1. FrameOK(Top) /\ Top.n \in Nat
  BY TopFacts DEF Stands
<1>2. Top.elt \in Scalar \cup DOMAIN Index \cup DOMAIN Variants
  BY <1>1 DEF FrameOK, Handles
<1> QED BY <1>1, <1>2 DEF Typed

LEMMA FixedFaces ==
    ASSUME Top.fn = "fixed", NEW r, NEW y, NEW end, PlainFace(r, y, end)
    PROVE  FixedFace(Top.at, Top.n, Top.elt, y, r) /\ Owes(Below, r, end) /\ Good(r, end)
<1>1. Face(Top, y, r, end) /\ Owes(Below, r, end) /\ Good(r, end)
  BY Zenon DEF PlainFace
<1> QED BY <1>1 DEF Face

LEMMA FixedFaceIn ==
    ASSUME NEW f, NEW at, NEW key, NEW n, NEW p, NEW q, Moves(f, at, key, n, p, q),
           Top.fn = "fixed", NEW h, NEW r, NEW end, FixedFace(at, n, Top.elt, h, r)
    PROVE  Face(f, h, r, end)
<1>1. f.fn = "fixed" /\ f.elt = Top.elt /\ f.at = at /\ f.n = n
  BY Zenon DEF Moves
<1> QED BY <1>1, Zenon DEF Face

LEMMA FixedOpens ==
    ASSUME NEW e, NEW r, NEW end, Good(r, end), NEW t,
           NEW h \in Step(Cons(Sym("val", "fixed", e), r), t)
    PROVE  t = "[" /\ FixedFace("first", 0, e, h, r)
<1>1. /\ t = "["
      /\ h = Cons(Tok("]"), r) \/ \E n \in 1..FixedSize : h = FixedArray(e, n) \o r
  BY StepFixed
<1>2. CASE h = Cons(Tok("]"), r)
  BY <1>1, <1>2, Zenon DEF FixedFace
<1>3. CASE \E n \in 1..FixedSize : h = FixedArray(e, n) \o r
  <2>1. PICK n \in 1..FixedSize : h = FixedArray(e, n) \o r
    BY <1>3
  <2> DEFINE j == n - 1
  <2>2. j \in Nat /\ j + 1 = n /\ 0 + 1 + j <= FixedSize
    BY UnmarshalAssumption
  <2> HIDE DEF j
  <2>3. h = Cons(Sym("val", "one", e), FixedTail(e, j, r))
    BY <2>1, <2>2, FixedCons
  <2>4. \E i \in Nat : 0 + 1 + i <= FixedSize
                       /\ h = Cons(Sym("val", "one", e), FixedTail(e, i, r))
    BY <2>2, <2>3
  <2>5. FixedFace("first", 0, e, h, r)
    BY <2>4, Zenon DEF FixedFace
  <2> QED BY <1>1, <2>5
<1> QED BY <1>1, <1>2, <1>3

LEMMA FixedOpenTracks ==
    ASSUME IInv, IInv', NEW end, InSync(stack, ret, ahead, goal, end), Open("fixed", -1),
           Done' => ret' # << 0 >>
    PROVE  Tracks(stack', ret', ahead', goal', end)
<1>1. ~Done /\ ret = <<>> /\ Top.fn = "fixed" /\ Top.at = "open"
  BY Zenon DEF Open, In
<1>2. ControlOK /\ ControlOK'
  BY DEF IInv
<1>3. PICK t \in Input : Take(t) /\ IF t = "[" THEN Goto("first") ELSE Return(-1)
  BY Zenon DEF Open
<1>5. \/ t = "eof" /\ CutNow(end)
      \/ t # "eof" /\ \E r, y : PlainFace(r, y, end) /\ \E h \in Step(y, t) : Took(h, t, end)
  BY <1>1, <1>3, TakeSync
<1>6. CASE t = "eof" /\ CutNow(end)
  BY <1>6, CutIn
<1>7. ASSUME NEW r, NEW y, PlainFace(r, y, end), NEW h \in Step(y, t), Took(h, t, end)
      PROVE  Tracks(stack', ret', ahead', goal', end)
  <2>1. FixedFace(Top.at, Top.n, Top.elt, y, r) /\ Owes(Below, r, end) /\ Good(r, end)
    BY <1>1, <1>7, FixedFaces
  <2>2. y = Cons(Sym("val", "fixed", Top.elt), r) /\ Top.n = 0
    BY <1>1, <2>1, Zenon DEF FixedFace
  <2>3. h \in Step(Cons(Sym("val", "fixed", Top.elt), r), t)
    BY <1>7, <2>2
  <2>4. t = "[" /\ FixedFace("first", 0, Top.elt, h, r)
    BY <2>1, <2>3, FixedOpens
  <2>5. Goto("first") /\ t # "stuck"
    BY <1>3, <2>4
  <2>6. PICK f : Moves(f, "first", Top.key, 0, Top.brace, Top.bracket)
    BY <1>1, <1>2, <2>2, <2>5, GotoMoves
  <2>7. Face(f, h, r, end)
    BY <1>1, <2>4, <2>6, FixedFaceIn
  <2> QED BY <1>1, <1>2, <1>7, <2>1, <2>5, <2>6, <2>7, MoveIn
<1> QED BY <1>5, <1>6, <1>7, Zenon

LEMMA FixedFirstTracks ==
    ASSUME IInv, IInv', NEW end, InSync(stack, ret, ahead, goal, end), First("fixed"),
           Done' => ret' # << 0 >>
    PROVE  Tracks(stack', ret', ahead', goal', end)
<1>1. ~Done /\ ret = <<>> /\ Top.fn = "fixed" /\ Top.at = "first"
  BY Zenon DEF First, In
<1>2. ControlOK /\ ControlOK'
  BY DEF IInv
<1>3. PICK t \in Input :
         IF t = "]" THEN Take(t) /\ Return(0) ELSE Peek(0, t) /\ Goto("elem")
  BY Zenon DEF First
<1>4. ASSUME t # "eof", NEW r, NEW y, PlainFace(r, y, end), NEW h \in Step(y, t)
      PROVE  /\ Owes(Below, r, end) /\ Good(r, end)
             /\ \/ t = "]" /\ h = r
                \/ /\ t # "]" /\ Good(h, end) /\ FixedFace("elem", Top.n, Top.elt, y, r)
  <2>1. FixedFace(Top.at, Top.n, Top.elt, y, r) /\ Owes(Below, r, end) /\ Good(r, end)
    BY <1>1, <1>4, FixedFaces
  <2>2. \/ y = Cons(Tok("]"), r)
        \/ \E j \in Nat : Top.n + 1 + j <= FixedSize
                          /\ y = Cons(Sym("val", "one", Top.elt), FixedTail(Top.elt, j, r))
    BY <1>1, <2>1, Zenon DEF FixedFace
  <2>3. CASE y = Cons(Tok("]"), r)
    <3>1. h \in Step(Cons(Tok("]"), r), t)
      BY <1>4, <2>3
    <3>2. t = "]" /\ h = r
      BY <2>1, <3>1, StepTok
    <3> QED BY <2>1, <3>2
  <2>4. CASE \E j \in Nat : Top.n + 1 + j <= FixedSize
                          /\ y = Cons(Sym("val", "one", Top.elt), FixedTail(Top.elt, j, r))
    <3>1. FixedFace("elem", Top.n, Top.elt, y, r)
      BY <2>4, Zenon DEF FixedFace
    <3>2. PICK j \in Nat : y = Cons(Sym("val", "one", Top.elt), FixedTail(Top.elt, j, r))
      BY <2>4
    <3> DEFINE d == FixedTail(Top.elt, j, r)
               x == Top.elt
    <3>3. Good(d, end)
      BY <2>1, FixedLong
    <3>4. Typed("one", x)
      BY <1>1, <1>2, FixedTop
    <3>5. h \in Step(Cons(Sym("val", "one", x), d), t)
      BY <1>4, <3>2
    <3> HIDE DEF d, x
    <3>6. Good(h, end)
      BY <1>4, <3>3, <3>4, <3>5, TypedSkippable, ValueGood
    <3>7. t # "]"
      BY <1>4, <3>3, <3>4, <3>5, ValueStart, Zenon
    <3> QED BY <2>1, <3>1, <3>6, <3>7
  <2> QED BY <2>2, <2>3, <2>4
<1>5. CASE t = "]"
  <2>1. Take(t) /\ Return(0) /\ t # "eof" /\ t # "stuck"
    BY <1>3, <1>5
  <2>2. PICK r, y : PlainFace(r, y, end) /\ \E h \in Step(y, t) : Took(h, t, end)
    BY <1>1, <2>1, TakeSync
  <2>3. PICK h \in Step(y, t) : Took(h, t, end)
    BY <2>2
  <2>4. Owes(Below, r, end) /\ Good(r, end) /\ h = r
    BY <1>4, <1>5, <2>1, <2>2, Zenon
  <2>5. Leads(r, ahead', goal', end)
    BY <2>1, <2>3, <2>4, Zenon DEF Took
  <2> QED BY <2>1, <2>4, <2>5, ReturnIn
<1>6. CASE t # "]"
  <2>1. Peek(0, t) /\ Goto("elem")
    BY <1>3, <1>6
  <2>2. \/ t = "eof" /\ CutNow(end)
        \/ t # "eof" /\ \E r, y : PlainFace(r, y, end) /\ \E h \in Step(y, t) : Peeked(h, t, end)
    BY <1>1, <2>1, PeekSync
  <2>3. CASE t = "eof" /\ CutNow(end)
    BY <2>3, CutIn
  <2>4. ASSUME t # "eof", NEW r, NEW y, PlainFace(r, y, end), NEW h \in Step(y, t), Peeked(h, t, end)
        PROVE  Tracks(stack', ret', ahead', goal', end)
    <3>1. Owes(Below, r, end) /\ Good(r, end) /\ Good(h, end)
          /\ FixedFace("elem", Top.n, Top.elt, y, r)
      BY <1>4, <1>6, <2>4, Zenon
    <3>2. PICK f : Moves(f, "elem", Top.key, Top.n, Top.brace, Top.bracket)
      BY <1>1, <1>2, <2>1, GotoMoves
    <3>3. Face(f, y, r, end)
      BY <1>1, <3>1, <3>2, FixedFaceIn
    <3> QED BY <1>1, <1>2, <2>4, <3>1, <3>2, <3>3, PeekIn
  <2> QED BY <2>2, <2>3, <2>4, Zenon
<1> QED BY <1>5, <1>6

\* One more element has been read, and j are still to come.
LEMMA FixedStoredIn ==
    ASSUME IInv, IInv', ~Done, Top.fn = "fixed", Stored("sep"), NEW r, NEW end,
           Owes(Below, r, end), NEW h, Leads(h, ahead', goal', end),
           NEW j \in Nat, Top.n + 1 + j <= FixedSize, h = FixedTail(Top.elt, j, r)
    PROVE  Tracks(stack', ret', ahead', goal', end)
<1>2. ControlOK /\ ControlOK'
  BY DEF IInv
<1>3. PICK f, n : /\ Moves(f, "sep", Top.key, n, Top.brace, Top.bracket)
                  /\ Top.n <= MaxTokens => n = Top.n + 1
  BY <1>2, StoredMoves
<1>4. Top.n \in Nat
  BY <1>2, FixedTop
<1>5. n = Top.n + 1 /\ n + j <= FixedSize
  BY <1>3, <1>4, UnmarshalAssumption
<1>6. FixedFace("sep", n, Top.elt, h, r)
  BY <1>5, Zenon DEF FixedFace
<1>7. Face(f, h, r, end)
  BY <1>3, <1>6, FixedFaceIn
<1> QED BY <1>2, <1>3, <1>7, MoveLeads

LEMMA FixedElementFaces ==
    ASSUME IInv, ~Done, Top.fn = "fixed", Top.at = "elem", NEW r, NEW y, NEW end,
           PlainFace(r, y, end)
    PROVE  /\ Owes(Below, r, end) /\ Good(r, end) /\ Top.n < FixedSize
           /\ \E j \in Nat : /\ Top.n + 1 + j <= FixedSize
                             /\ y = Cons(Sym("val", "one", Top.elt), FixedTail(Top.elt, j, r))
<1>1. FixedFace(Top.at, Top.n, Top.elt, y, r) /\ Owes(Below, r, end) /\ Good(r, end)
  BY FixedFaces
<1>2. PICK j \in Nat : Top.n + 1 + j <= FixedSize
                       /\ y = Cons(Sym("val", "one", Top.elt), FixedTail(Top.elt, j, r))
  BY <1>1, Zenon DEF FixedFace
<1>3. Top.n \in Nat
  BY FixedTop DEF IInv
<1>4. Top.n < FixedSize
  BY <1>2, <1>3, UnmarshalAssumption
<1> QED BY <1>1, <1>2, <1>4

LEMMA FixedCallTracks ==
    ASSUME IInv, IInv', NEW end, InSync(stack, ret, ahead, goal, end), ~Done, ret = <<>>,
           Top.fn = "fixed", Top.at = "elem", NoInput, NEW g, Call("called", g),
           g.at = "open", Fresh(g), g.elt = Top.elt, g.fn \in {"struct", "oneof"}
    PROVE  Tracks(stack', ret', ahead', goal', end)
<1>2. ControlOK /\ ControlOK'
  BY DEF IInv
<1>3. PICK r : Owes(Below, r, end) /\ Good(r, end) /\ Facing(Top, r, ahead, goal, end)
  BY <1>2, SyncFacing
<1>4. PICK y : Leads(y, ahead, goal, end) /\ Face(Top, y, r, end)
  <2>1. Top.fn # "oneof" /\ Top.fn # "struct"
    OBVIOUS
  <2> QED BY <1>3, <2>1, PlainFacing
<1>5. PlainFace(r, y, end)
  BY <1>3, <1>4, FaceLong, Zenon DEF PlainFace
<1>6. PICK j \in Nat : Top.n + 1 + j <= FixedSize
                       /\ y = Cons(Sym("val", "one", Top.elt), FixedTail(Top.elt, j, r))
  BY <1>5, FixedElementFaces
<1> DEFINE d == FixedTail(Top.elt, j, r)
<1>7. Good(d, end)
  BY <1>3, FixedLong
<1>8. y = Cons(Sym("val", "one", g.elt), d)
  BY <1>6
<1>9. PICK f \in FrameSet :
         /\ stack' = Append(Append(Below, f), g) /\ ret' = <<>>
         /\ f.fn = Top.fn /\ f.elt = Top.elt /\ f.n = Top.n
  BY <1>2, CallMoves
<1>10. g \in FrameSet
  BY <1>2, CallMoves
<1>11. After(f, d, r)
  <2>1. \E i \in Nat : f.n + 1 + i <= FixedSize /\ d = FixedTail(f.elt, i, r)
    BY <1>6, <1>9
  <2> HIDE DEF d
  <2> QED BY <1>9, <2>1, Zenon DEF After
<1> HIDE DEF d
<1>12. Face(g, y, d, end)
  <2>1. CASE g.fn = "struct"
    <3>1. StructFace(g.at, g.elt, g.key, y, d)
      BY <1>8, Zenon DEF StructFace
    <3> QED BY <2>1, <3>1, Zenon DEF Face
  <2>2. CASE g.fn = "oneof"
    BY <1>8, <2>2, Zenon DEF Face
  <2> QED BY <2>1, <2>2
<1>13. Facing(g, d, ahead', goal', end)
  <2>1. Leads(y, ahead', goal', end)
    BY <1>4, NoInputLeads
  <2> QED BY <1>12, <2>1, Zenon DEF Facing
<1> QED BY <1>2, <1>3, <1>7, <1>9, <1>10, <1>11, <1>13, CallIn

LEMMA FixedElementTracks ==
    ASSUME IInv, IInv', NEW end, InSync(stack, ret, ahead, goal, end), FixedElement,
           Done' => ret' # << 0 >>
    PROVE  Tracks(stack', ret', ahead', goal', end)
<1>1. ~Done /\ ret = <<>> /\ Top.fn = "fixed" /\ Top.at = "elem"
  BY Zenon DEF FixedElement, In
<1>2. ControlOK /\ ControlOK'
  BY DEF IInv
<1>3. Top.n < FixedSize
  <2>1. PICK r : Owes(Below, r, end) /\ Good(r, end) /\ Facing(Top, r, ahead, goal, end)
    BY <1>1, <1>2, SyncFacing
  <2>2. PICK y : Leads(y, ahead, goal, end) /\ Face(Top, y, r, end)
    BY <1>1, <2>1, PlainFacing
  <2>3. PlainFace(r, y, end)
    BY <2>1, <2>2, FaceLong, Zenon DEF PlainFace
  <2> QED BY <1>1, <2>3, FixedElementFaces
<1>4. ~(Top.n >= FixedSize)
  BY <1>1, <1>2, <1>3, FixedTop, UnmarshalAssumption
<1>5. CASE IsStruct(Top.elt)
  <2> DEFINE g == Element(Top.depth + 1)
  <2>1. NoInput /\ Call("called", g)
    BY <1>4, <1>5, Zenon DEF FixedElement
  <2>2. g.at = "open" /\ g.elt = Top.elt /\ g.fn = "struct" /\ Fresh(g)
    BY FrameFields DEF Element, Fresh
  <2> HIDE DEF g
  <2> QED BY <1>1, <2>1, <2>2, FixedCallTracks
<1>6. CASE ~IsStruct(Top.elt) /\ IsOneof(Top.elt)
  <2> DEFINE g == Frame("oneof", Top.elt, Top.depth + 1)
  <2>1. NoInput /\ Call("called", g)
    BY <1>4, <1>6, Zenon DEF FixedElement
  <2>2. g.at = "open" /\ g.elt = Top.elt /\ g.fn = "oneof" /\ Fresh(g)
    BY FrameFields DEF Fresh
  <2> HIDE DEF g
  <2> QED BY <1>1, <2>1, <2>2, FixedCallTracks
<1>7. CASE ~IsStruct(Top.elt) /\ ~IsOneof(Top.elt)
  <2>1. PICK t \in Input : Take(t) /\ AfterElement(ScalarCode(Top.elt, t))
    BY <1>4, <1>7, Zenon DEF FixedElement
  <2>2. Top.elt \in Scalar
    BY <1>1, <1>2, <1>7, FixedTop DEF IsStruct, IsOneof
  <2>3. \/ t = "eof" /\ CutNow(end)
        \/ t # "eof" /\ \E r, y : PlainFace(r, y, end) /\ \E h \in Step(y, t) : Took(h, t, end)
    BY <1>1, <2>1, TakeSync
  <2>4. CASE t = "eof" /\ CutNow(end)
    BY <2>4, CutIn
  <2>5. ASSUME t # "eof", NEW r, NEW y, PlainFace(r, y, end), NEW h \in Step(y, t), Took(h, t, end)
        PROVE  Tracks(stack', ret', ahead', goal', end)
    <3>1. PICK j \in Nat : Top.n + 1 + j <= FixedSize
                           /\ y = Cons(Sym("val", "one", Top.elt), FixedTail(Top.elt, j, r))
      BY <1>1, <2>5, FixedElementFaces
    <3> DEFINE d == FixedTail(Top.elt, j, r)
    <3>2. Owes(Below, r, end) /\ Good(r, end) /\ Good(d, end)
      BY <1>1, <2>5, FixedElementFaces, FixedLong
    <3>3. h \in Step(Cons(Sym("val", "one", Top.elt), d), t)
      BY <2>5, <3>1
    <3>4. h = d /\ ScalarCode(Top.elt, t) = 0 /\ t # "stuck"
      <4> HIDE DEF d
      <4>1. h = d /\ ScalarCode(Top.elt, t) = 0
        BY <2>2, <3>2, <3>3, StepScalar
      <4>2. Typed("one", Top.elt)
        BY <1>1, <1>2, FixedTop
      <4>3. t # "stuck"
        BY <2>5, <3>2, <3>3, <4>2, TypedSkippable, ValueGood
      <4> QED BY <4>1, <4>3
    <3>5. Stored("sep")
      BY <2>1, <3>4, AfterCodes
    <3>6. Leads(h, ahead', goal', end)
      BY <2>5, <3>2, <3>4, Zenon DEF Took
    <3> QED BY <1>1, <3>1, <3>2, <3>4, <3>5, <3>6, FixedStoredIn
  <2> QED BY <2>3, <2>4, <2>5, Zenon
<1> QED BY <1>5, <1>6, <1>7

LEMMA FixedTracks ==
    ASSUME IInv, IInv', NEW end, InSync(stack, ret, ahead, goal, end), Fixed,
           Done' => ret' # << 0 >>
    PROVE  Tracks(stack', ret', ahead', goal', end)
<1>1. ~Done /\ Top.fn = "fixed"
  BY Zenon DEF Fixed, Open, First, FixedElement, FixedBack, Separator, In, Back
<1>2. ControlOK /\ ControlOK'
  BY DEF IInv
<1>3. CASE FixedBack
  <2>1. ret # <<>> /\ NoInput /\ AfterElement(ret[1])
    BY <1>3, Zenon DEF FixedBack, Back
  <2>2. ret[1] = 0
    BY <1>1, <1>2, <2>1, SyncAfter
  <2>3. PICK r, y : Owes(Below, r, end) /\ After(Top, y, r) /\ Leads(y, ahead, goal, end)
    BY <1>1, <1>2, <2>1, SyncAfter
  <2>4. PICK j \in Nat : Top.n + 1 + j <= FixedSize /\ y = FixedTail(Top.elt, j, r)
    BY <1>1, <2>3 DEF After
  <2>5. Stored("sep")
    BY <2>1, <2>2, AfterCodes
  <2>6. Leads(y, ahead', goal', end)
    BY <2>1, <2>3, NoInputLeads
  <2> QED BY <1>1, <2>3, <2>4, <2>5, <2>6, FixedStoredIn
<1>4. CASE Separator("fixed", -1)
  <2>1. ret = <<>> /\ Top.at = "sep"
    BY <1>4, Zenon DEF Separator, In
  <2>2. PICK t \in Input : Take(t) /\
         CASE t = "]" -> Return(0)
           [] t = "eof" \/ t \in LexError -> Return(-1)
           [] OTHER -> Goto("elem")
    BY <1>4, Zenon DEF Separator
  <2>3. (t = "]" => Return(0)) /\ (t = "," => Goto("elem"))
    BY <2>2, Zenon DEF LexError
  <2>4. \/ t = "eof" /\ CutNow(end)
        \/ t # "eof" /\ \E r, y : PlainFace(r, y, end) /\ \E h \in Step(y, t) : Took(h, t, end)
    BY <1>1, <2>1, <2>2, TakeSync
  <2>5. CASE t = "eof" /\ CutNow(end)
    BY <2>5, CutIn
  <2>6. ASSUME NEW r, NEW y, PlainFace(r, y, end), NEW h \in Step(y, t), Took(h, t, end)
        PROVE  Tracks(stack', ret', ahead', goal', end)
    <3> DEFINE e == Top.elt
    <3>1. FixedFace(Top.at, Top.n, e, y, r) /\ Owes(Below, r, end) /\ Good(r, end)
      BY <1>1, <2>6, FixedFaces
    <3>2. PICK j \in Nat : Top.n + j <= FixedSize /\ y = FixedTail(e, j, r)
      BY <2>1, <3>1, Zenon DEF FixedFace
    <3>3. FixedNext(e, j, r, t, h)
      <4>1. h \in Step(FixedTail(e, j, r), t)
        BY <2>6, <3>2
      <4>2. j \in Nat /\ Good(r, end)
        BY <3>1, <3>2
      <4> HIDE DEF e
      <4> QED BY <4>1, <4>2, FixedStep, Zenon
    <3>4. CASE t = "]" /\ h = r
      <4>1. Return(0) /\ Leads(r, ahead', goal', end)
        BY <2>3, <2>6, <3>1, <3>4, Zenon DEF Took
      <4> QED BY <3>1, <4>1, ReturnIn
    <3>5. ASSUME t = ",", NEW i \in Nat, j = i + 1,
                 h = Cons(Sym("val", "one", e), FixedTail(e, i, r))
          PROVE  Tracks(stack', ret', ahead', goal', end)
      <4>1. Goto("elem") /\ t # "stuck"
        BY <2>3, <3>5, Zenon
      <4>a. h = Cons(Sym("val", "one", e), FixedTail(e, i, r)) /\ j = i + 1 /\ i \in Nat
        BY <3>5, Zenon
      <4>2. PICK f : Moves(f, "elem", Top.key, Top.n, Top.brace, Top.bracket)
        BY <1>1, <1>2, <4>1, GotoMoves, Zenon
      <4>3. FixedFace("elem", Top.n, e, h, r)
        <5>1. Top.n \in Nat
          BY <1>1, <1>2, FixedTop, Zenon
        <5>2. Top.n + 1 + i <= FixedSize
          <6> HIDE <3>5
          <6> QED BY <3>2, <4>a, <5>1, UnmarshalAssumption
        <5> QED BY <4>a, <5>2, Zenon DEF FixedFace
      <4>4. Face(f, h, r, end)
        BY <1>1, <4>2, <4>3, FixedFaceIn, Zenon
      <4> QED BY <1>1, <1>2, <2>6, <3>1, <4>1, <4>2, <4>4, MoveIn, Zenon
    <3> QED BY <3>3, <3>4, <3>5, Zenon DEF FixedNext
  <2> QED BY <2>4, <2>5, <2>6, Zenon
<1> QED BY <1>3, <1>4, FixedOpenTracks, FixedFirstTracks, FixedElementTracks, Zenon DEF Fixed

-----------------------------------------------------------------------------
(***************************************************************************)
(* A map, and a value that is being skipped, in step with their document.  *)
(***************************************************************************)
LEMMA MapTop ==
    ASSUME ControlOK, ~Done, Top.fn = "map"
    PROVE  Top.elt \in Scalar \cup DOMAIN Index /\ Typed("one", Top.elt) /\ Top.elt # "any"
<1>1. FrameOK(Top)
  BY TopFacts DEF Stands
<1>2. Top.elt \in Scalar \cup DOMAIN Index
  BY <1>1 DEF FrameOK, Handles
<1>3. Top.elt # "any"
  BY <1>2, DocumentFacts DEF Scalar
<1> QED BY <1>2, <1>3 DEF Typed

LEMMA MapFaces ==
    ASSUME Top.fn = "map", NEW r, NEW y, NEW end, PlainFace(r, y, end)
    PROVE  MapFace(Top.at, Top.elt, y, r) /\ Owes(Below, r, end) /\ Good(r, end)
<1>1. Face(Top, y, r, end) /\ Owes(Below, r, end) /\ Good(r, end)
  BY Zenon DEF PlainFace
<1> QED BY <1>1 DEF Face

LEMMA MapFaceIn ==
    ASSUME NEW f, NEW at, NEW key, NEW n, NEW p, NEW q, Moves(f, at, key, n, p, q),
           Top.fn = "map", NEW h, NEW r, NEW end, MapFace(at, Top.elt, h, r)
    PROVE  Face(f, h, r, end)
<1>1. f.fn = "map" /\ f.elt = Top.elt /\ f.at = at
  BY Zenon DEF Moves
<1> QED BY <1>1, Zenon DEF Face

LEMMA MapGotoIn ==
    ASSUME IInv, IInv', ~Done, Top.fn = "map", NEW at, Goto(at), NEW r, NEW end,
           Owes(Below, r, end), Good(r, end), NEW h, NEW t, Took(h, t, end), t # "stuck",
           MapFace(at, Top.elt, h, r)
    PROVE  Tracks(stack', ret', ahead', goal', end)
<1>2. ControlOK /\ ControlOK'
  BY DEF IInv
<1>3. PICK f : Moves(f, at, Top.key, Top.n, Top.brace, Top.bracket)
  BY <1>2, GotoMoves
<1>4. Face(f, h, r, end)
  BY <1>3, MapFaceIn
<1> QED BY <1>2, <1>3, <1>4, MoveIn

\* Behind a value the map goes on with the next member.
LEMMA MapStoredIn ==
    ASSUME IInv, IInv', ~Done, Top.fn = "map", Stored("key"), NEW r, NEW end,
           Owes(Below, r, end), NEW h, Leads(h, ahead', goal', end),
           h = Cons(Sym("more", "map", Top.elt), r)
    PROVE  Tracks(stack', ret', ahead', goal', end)
<1>2. ControlOK /\ ControlOK'
  BY DEF IInv
<1>3. PICK f, n : Moves(f, "key", Top.key, n, Top.brace, Top.bracket)
  BY <1>2, StoredMoves
<1>4. MapFace("key", Top.elt, h, r)
  BY Zenon DEF MapFace, MapAhead
<1>5. Face(f, h, r, end)
  BY <1>3, <1>4, MapFaceIn
<1> QED BY <1>2, <1>3, <1>5, MoveLeads

LEMMA MapTokenTracks ==
    ASSUME IInv, IInv', NEW end, InSync(stack, ret, ahead, goal, end),
           MapOpen \/ MapKey \/ MapColon, Done' => ret' # << 0 >>
    PROVE  Tracks(stack', ret', ahead', goal', end)
<1>1. ~Done /\ ret = <<>> /\ Top.fn = "map"
  BY Zenon DEF MapOpen, MapKey, MapColon, In
<1>2. Top.fn # "oneof" /\ Top.fn # "struct"
  BY <1>1
<1> DEFINE e == Top.elt
<1>3. CASE MapOpen
  <2>1. Top.at = "open"
    BY <1>3, Zenon DEF MapOpen, In
  <2>2. PICK t \in Input : Take(t) /\ (t = "{" => Goto("key"))
    <3>1. PICK t \in Input : Take(t) /\
         CASE t = "null" -> Return(0)
           [] t = "{" -> Goto("key")
           [] OTHER -> Return(-1)
      BY <1>3, Zenon DEF MapOpen
    <3> QED BY <3>1, Zenon
  <2>3. \/ t = "eof" /\ CutNow(end)
        \/ t # "eof" /\ \E r, y : PlainFace(r, y, end) /\ \E h \in Step(y, t) : Took(h, t, end)
    BY <1>1, <1>2, <2>2, TakeSync, Zenon
  <2>4. CASE t = "eof" /\ CutNow(end)
    BY <2>4, CutIn, Zenon
  <2>5. ASSUME NEW r, NEW y, PlainFace(r, y, end), NEW h \in Step(y, t), Took(h, t, end)
        PROVE  Tracks(stack', ret', ahead', goal', end)
    <3>1. MapFace(Top.at, e, y, r) /\ Owes(Below, r, end) /\ Good(r, end)
      BY <1>1, <2>5, MapFaces, Zenon
    <3>2. y = Cons(Sym("val", "map", e), r)
      BY <2>1, <3>1, Zenon DEF MapFace
    <3>3. t = "{" /\ h = Cons(Sym("open", "map", e), r)
      <4>1. h \in Step(Cons(Sym("val", "map", e), r), t)
        BY <2>5, <3>2, Zenon
      <4> HIDE DEF e
      <4> QED BY <3>1, <4>1, StepMap, Zenon
    <3>4. MapFace("key", e, h, r)
      BY <3>3, Zenon DEF MapFace, MapAhead
    <3>5. Goto("key") /\ t # "stuck"
      BY <2>2, <3>3, Zenon
    <3> QED BY <1>1, <2>5, <3>1, <3>4, <3>5, MapGotoIn, Zenon
  <2> QED BY <2>3, <2>4, <2>5, Zenon
<1>4. CASE MapKey
  <2>1. Top.at = "key"
    BY <1>4, Zenon DEF MapKey, In
  <2>2. PICK t \in Input : /\ Take(t)
                           /\ t = "}" => Return(0)
                           /\ t = "," => Goto("key")
                           /\ IsString(t) => Goto("colon")
    <3>1. PICK t \in Input : Take(t) /\
         CASE t = "}" -> Return(0)
           [] t = "," -> Goto("key")
           [] IsString(t) -> Goto("colon")
           [] OTHER -> Return(-1)
      BY <1>4, Zenon DEF MapKey
    <3> QED BY <3>1, Zenon DEF IsString, Punct
  <2>3. \/ t = "eof" /\ CutNow(end)
        \/ t # "eof" /\ \E r, y : PlainFace(r, y, end) /\ \E h \in Step(y, t) : Took(h, t, end)
    BY <1>1, <1>2, <2>2, TakeSync, Zenon
  <2>4. CASE t = "eof" /\ CutNow(end)
    BY <2>4, CutIn, Zenon
  <2>5. ASSUME NEW r, NEW y, PlainFace(r, y, end), NEW h \in Step(y, t), Took(h, t, end)
        PROVE  Tracks(stack', ret', ahead', goal', end)
    <3>1. MapFace(Top.at, e, y, r) /\ Owes(Below, r, end) /\ Good(r, end)
      BY <1>1, <2>5, MapFaces, Zenon
    <3>2. MapAhead(e, y, r)
      BY <2>1, <3>1, Zenon DEF MapFace
    <3>3. MapNext(e, r, t, h)
      <4>1. h \in Step(y, t)
        BY <2>5, Zenon
      <4> HIDE DEF e
      <4> QED BY <3>1, <3>2, <4>1, MapStep, Zenon
    <3>4. CASE t = "}" /\ h = r
      <4>1. Return(0) /\ Leads(r, ahead', goal', end)
        BY <2>2, <2>5, <3>1, <3>4, Zenon DEF Took
      <4> QED BY <3>1, <4>1, ReturnIn, Zenon
    <3>5. CASE t = "," /\ h = Cons(Sym("key", "map", e), r)
      <4>1. MapFace("key", e, h, r)
        BY <3>5, Zenon DEF MapFace, MapAhead
      <4>2. Goto("key") /\ t # "stuck"
        BY <2>2, <3>5, Zenon
      <4> QED BY <1>1, <2>5, <3>1, <4>1, <4>2, MapGotoIn, Zenon
    <3>6. CASE /\ IsString(t)
               /\ h = Cons(Tok(":"), Cons(Sym("val", "one", e), Cons(Sym("more", "map", e), r)))
      <4>1. MapFace("colon", e, h, r)
        BY <3>6, Zenon DEF MapFace
      <4>2. Goto("colon") /\ t # "stuck"
        BY <2>2, <3>6, Zenon DEF IsString, LexError
      <4> QED BY <1>1, <2>5, <3>1, <4>1, <4>2, MapGotoIn, Zenon
    <3> QED BY <3>3, <3>4, <3>5, <3>6, Zenon DEF MapNext
  <2> QED BY <2>3, <2>4, <2>5, Zenon
<1>5. CASE MapColon
  <2>1. Top.at = "colon"
    BY <1>5, Zenon DEF MapColon, In
  <2>2. PICK t \in Input : Take(t) /\ IF t = ":" THEN Goto("value") ELSE Return(-1)
    BY <1>5, Zenon DEF MapColon
  <2>3. \/ t = "eof" /\ CutNow(end)
        \/ t # "eof" /\ \E r, y : PlainFace(r, y, end) /\ \E h \in Step(y, t) : Took(h, t, end)
    BY <1>1, <1>2, <2>2, TakeSync, Zenon
  <2>4. CASE t = "eof" /\ CutNow(end)
    BY <2>4, CutIn, Zenon
  <2>5. ASSUME NEW r, NEW y, PlainFace(r, y, end), NEW h \in Step(y, t), Took(h, t, end)
        PROVE  Tracks(stack', ret', ahead', goal', end)
    <3>1. MapFace(Top.at, e, y, r) /\ Owes(Below, r, end) /\ Good(r, end)
      BY <1>1, <2>5, MapFaces, Zenon
    <3> DEFINE d == Cons(Sym("val", "one", e), Cons(Sym("more", "map", e), r))
    <3>2. y = Cons(Tok(":"), d)
      BY <2>1, <3>1, Zenon DEF MapFace
    <3>3. Good(d, end)
      BY <3>1, ConsFacts
    <3>4. t = ":" /\ h = d
      <4>1. h \in Step(Cons(Tok(":"), d), t)
        BY <2>5, <3>2, Zenon
      <4> HIDE DEF d
      <4> QED BY <3>3, <4>1, StepTok, Zenon
    <3>5. MapFace("value", e, h, r)
      BY <3>4, Zenon DEF MapFace
    <3>6. Goto("value") /\ t # "stuck"
      BY <2>2, <3>4, Zenon
    <3> QED BY <1>1, <2>5, <3>1, <3>5, <3>6, MapGotoIn, Zenon
  <2> QED BY <2>3, <2>4, <2>5, Zenon
<1> QED BY <1>3, <1>4, <1>5

LEMMA MapScalarTracks ==
    ASSUME IInv, IInv', NEW end, InSync(stack, ret, ahead, goal, end), MapScalar,
           Done' => ret' # << 0 >>
    PROVE  Tracks(stack', ret', ahead', goal', end)
<1>1. ~Done /\ ret = <<>> /\ Top.fn = "map" /\ Top.at = "value" /\ Top.elt \in Scalar
  BY Zenon DEF MapScalar, In
<1>2. ControlOK /\ ControlOK'
  BY DEF IInv
<1>3. PICK t \in Input : Take(t) /\
         LET r == ScalarCode(Top.elt, t) IN IF r < 0 THEN Return(r) ELSE Stored("key")
  BY Zenon DEF MapScalar
<1>5. \/ t = "eof" /\ CutNow(end)
      \/ t # "eof" /\ \E r, y : PlainFace(r, y, end) /\ \E h \in Step(y, t) : Took(h, t, end)
  BY <1>1, <1>3, TakeSync
<1>6. CASE t = "eof" /\ CutNow(end)
  BY <1>6, CutIn
<1>7. ASSUME t # "eof", NEW r, NEW y, PlainFace(r, y, end), NEW h \in Step(y, t), Took(h, t, end)
      PROVE  Tracks(stack', ret', ahead', goal', end)
  <2> DEFINE d == Cons(Sym("more", "map", Top.elt), r)
  <2>1. MapFace(Top.at, Top.elt, y, r) /\ Owes(Below, r, end) /\ Good(r, end)
    BY <1>1, <1>7, MapFaces
  <2>2. y = Cons(Sym("val", "one", Top.elt), d)
    BY <1>1, <2>1, Zenon DEF MapFace
  <2>3. Good(d, end)
    BY <2>1, ConsFacts
  <2>4. ScalarCode(Top.elt, t) = 0 /\ h = d /\ t # "stuck"
    <3>1. h \in Step(Cons(Sym("val", "one", Top.elt), d), t)
      BY <1>7, <2>2
    <3> HIDE DEF d
    <3>2. ScalarCode(Top.elt, t) = 0 /\ h = d
      BY <1>1, <2>3, <3>1, StepScalar
    <3>3. Typed("one", Top.elt)
      BY <1>1, <1>2, MapTop
    <3>4. t # "stuck"
      BY <1>7, <2>3, <3>1, <3>3, TypedSkippable, ValueGood
    <3> QED BY <3>2, <3>4
  <2>5. Stored("key")
    BY <1>3, <2>4
  <2>6. Leads(h, ahead', goal', end)
    BY <1>7, <2>3, <2>4, Zenon DEF Took
  <2> QED BY <1>1, <2>1, <2>4, <2>5, <2>6, MapStoredIn
<1> QED BY <1>5, <1>6, <1>7, Zenon

LEMMA MapStructTracks ==
    ASSUME IInv, IInv', NEW end, InSync(stack, ret, ahead, goal, end), MapStruct
    PROVE  Tracks(stack', ret', ahead', goal', end)
<1> DEFINE g == Frame("struct", Top.elt, Top.depth + 1)
<1>1. /\ ~Done /\ ret = <<>> /\ Top.fn = "map" /\ Top.at = "value" /\ NoInput
      /\ Call("called", g)
  BY Zenon DEF MapStruct, In
<1>2. ControlOK /\ ControlOK'
  BY DEF IInv
<1>a. g.at = "open" /\ g.elt = Top.elt /\ g.fn = "struct"
  BY FrameFields
<1> HIDE DEF g
<1>3. PICK r : Owes(Below, r, end) /\ Good(r, end) /\ Facing(Top, r, ahead, goal, end)
  BY <1>1, <1>2, SyncFacing
<1>4. PICK y : Leads(y, ahead, goal, end) /\ Face(Top, y, r, end)
  <2>1. Top.fn # "oneof" /\ Top.fn # "struct"
    BY <1>1
  <2> QED BY <1>3, <2>1, PlainFacing
<1>5. PlainFace(r, y, end)
  BY <1>3, <1>4, FaceLong, Zenon DEF PlainFace
<1> DEFINE d == Cons(Sym("more", "map", Top.elt), r)
<1>6. y = Cons(Sym("val", "one", g.elt), d)
  <2>1. MapFace(Top.at, Top.elt, y, r)
    BY <1>1, <1>5, MapFaces
  <2>2. y = Cons(Sym("val", "one", Top.elt), d)
    BY <1>1, <2>1, Zenon DEF MapFace
  <2> QED BY <1>a, <2>2
<1>7. Good(d, end)
  BY <1>3, ConsFacts
<1>9. PICK f \in FrameSet :
         /\ stack' = Append(Append(Below, f), g) /\ ret' = <<>>
         /\ f.fn = Top.fn /\ f.elt = Top.elt
  BY <1>1, <1>2, CallMoves
<1>10. g \in FrameSet
  BY <1>1, <1>2, CallMoves
<1>11. After(f, d, r)
  <2>1. d = Cons(Sym("more", "map", f.elt), r)
    BY <1>9
  <2> HIDE DEF d
  <2> QED BY <1>1, <1>9, <2>1, Zenon DEF After
<1> HIDE DEF d
<1>12. Face(g, y, d, end)
  <2>1. StructFace(g.at, g.elt, g.key, y, d)
    BY <1>a, <1>6, Zenon DEF StructFace
  <2> QED BY <1>a, <2>1, Zenon DEF Face
<1>13. Facing(g, d, ahead', goal', end)
  <2>1. Leads(y, ahead', goal', end)
    BY <1>1, <1>4, NoInputLeads
  <2> QED BY <1>12, <2>1, Zenon DEF Facing
<1> QED BY <1>1, <1>2, <1>3, <1>7, <1>9, <1>10, <1>11, <1>13, CallIn

LEMMA MapTracks ==
    ASSUME IInv, IInv', NEW end, InSync(stack, ret, ahead, goal, end), MapObject,
           Done' => ret' # << 0 >>
    PROVE  Tracks(stack', ret', ahead', goal', end)
<1>1. CASE MapBack
  <2>1. ~Done /\ ret # <<>> /\ Top.fn = "map" /\ NoInput
    BY <1>1, Zenon DEF MapBack, Back
  <2>2. ControlOK /\ ControlOK'
    BY DEF IInv
  <2>3. ret[1] = 0
    BY <2>1, <2>2, SyncAfter
  <2>4. PICK r, y : Owes(Below, r, end) /\ After(Top, y, r) /\ Leads(y, ahead, goal, end)
    BY <2>1, <2>2, SyncAfter
  <2>5. Stored("key")
    BY <1>1, <2>3 DEF MapBack
  <2>6. y = Cons(Sym("more", "map", Top.elt), r)
    BY <2>1, <2>4 DEF After
  <2>7. Leads(y, ahead', goal', end)
    BY <2>1, <2>4, NoInputLeads
  <2> QED BY <2>1, <2>4, <2>5, <2>6, <2>7, MapStoredIn
<1> QED BY <1>1, MapTokenTracks, MapScalarTracks, MapStructTracks, Zenon DEF MapObject

LEMMA IgnoreTracks ==
    ASSUME IInv, IInv', NEW end, InSync(stack, ret, ahead, goal, end), Ignore,
           Done' => ret' # << 0 >>
    PROVE  Tracks(stack', ret', ahead', goal', end)
<1>1. ~Done /\ ret = <<>> /\ Top.fn = "ignore"
  BY Zenon DEF Ignore, In
<1>2. ControlOK /\ ControlOK'
  BY DEF IInv
<1>3. PICK t \in Input : Take(t) /\
         IF t = "eof" THEN Return(-1)
         ELSE IF IsLevel(Level(Top, t)) THEN Return(0)
         ELSE Become(Level(Top, t))
  BY Zenon DEF Ignore
<1>5. \/ t = "eof" /\ CutNow(end)
      \/ t # "eof" /\ \E r, y : PlainFace(r, y, end) /\ \E h \in Step(y, t) : Took(h, t, end)
  BY <1>1, <1>3, TakeSync
<1>6. CASE t = "eof" /\ CutNow(end)
  BY <1>6, CutIn
<1>7. ASSUME t # "eof", NEW r, NEW y, PlainFace(r, y, end), NEW h \in Step(y, t), Took(h, t, end)
      PROVE  Tracks(stack', ret', ahead', goal', end)
  <2> DEFINE p == Top.brace + Up(t)
             q == Top.bracket + Across(t)
             m == Moved(Top, Top.at, Top.key, Top.n, p, q)
  <2>1. Face(Top, y, r, end) /\ Owes(Below, r, end) /\ Good(r, end)
    BY <1>7, Zenon DEF PlainFace
  <2>2. SkipFace(Top.brace, Top.bracket, y, r, end)
    BY <1>1, <2>1 DEF Face
  <2>3. Read(t) /\ Skips(h, r, p, q, end)
    BY <1>7, <2>1, <2>2, SkipStep
  <2>4. Level(Top, t) = m
    BY <1>1, <1>2, TopFacts, LevelMoves
  <2>5. m.brace = p /\ m.bracket = q
    BY MovedFields
  <2>6. IF p = 0 /\ q = 0 THEN Return(0) ELSE Become(m)
    <3>1. IF IsLevel(Level(Top, t)) THEN Return(0) ELSE Become(Level(Top, t))
      BY <1>3, <1>7, Zenon
    <3> HIDE DEF m, p, q
    <3>2. IsLevel(m) <=> p = 0 /\ q = 0
      BY <2>5 DEF IsLevel
    <3> QED BY <2>4, <3>1, <3>2, Zenon
  <2>7. t # "stuck"
    BY <2>3, Zenon DEF Read
  <2> HIDE DEF p, q
  <2>8. Good(h, end) /\ IF p = 0 /\ q = 0 THEN h = r ELSE SkipFace(p, q, h, r, end)
    BY <2>3, SkipNext
  <2>9. CASE p = 0 /\ q = 0
    <3>1. Return(0) /\ Leads(r, ahead', goal', end)
      BY <1>7, <2>6, <2>7, <2>8, <2>9 DEF Took
    <3> QED BY <2>1, <3>1, ReturnIn
  <2>10. CASE ~(p = 0 /\ q = 0)
    <3>1. Become(m) /\ SkipFace(p, q, h, r, end)
      BY <2>6, <2>8, <2>10, Zenon
    <3>2. PICK f : Moves(f, Top.at, Top.key, Top.n, p, q)
      BY <1>1, <1>2, <3>1, BecomeMoves
    <3>3. Face(f, h, r, end)
      <4>1. f.fn = "ignore" /\ f.brace = p /\ f.bracket = q
        BY <1>1, <3>2, Zenon DEF Moves
      <4> QED BY <3>1, <4>1, Zenon DEF Face
    <3> QED BY <1>1, <1>2, <1>7, <2>1, <2>7, <3>2, <3>3, MoveIn
  <2> QED BY <2>9, <2>10
<1> QED BY <1>5, <1>6, <1>7, Zenon

-----------------------------------------------------------------------------
(***************************************************************************)
(* The scan for a discriminator in step with its document.                 *)
(***************************************************************************)
LEMMA OneofTop ==
    ASSUME ControlOK, ~Done, Top.fn = "oneof"
    PROVE  /\ Top.elt \in DOMAIN Variants /\ Top.elt # "any"
           /\ Top \in FrameSet /\ Top.n \in Nat /\ Top.brace \in Int /\ Top.bracket \in Int
<1>1. Top \in FrameSet /\ Top.elt \in Handles[Top.fn]
  BY TopFacts, Zenon DEF ControlOK, Stands, FrameOK
<1>2. Handles["oneof"] = DOMAIN Variants
  BY DEF Handles
<1>3. Top.elt \in DOMAIN Variants
  BY <1>1, <1>2
<1>4. Top.elt # "any"
  BY <1>3, DocumentFacts
<1>5. Top.n \in Nat /\ Top.brace \in Int /\ Top.bracket \in Int
  BY <1>1 DEF FrameSet
<1> QED BY <1>1, <1>3, <1>4, <1>5

LEMMA CountMoved ==
    ASSUME NEW f \in FrameSet, NEW at, NEW n
    PROVE  [f EXCEPT !.at = at, !.n = n] = Moved(f, at, f.key, n, f.brace, f.bracket)
BY ExceptMoved

LEMMA ScanMoved ==
    ASSUME Top \in FrameSet, NEW at, NEW t, t # "stuck"
    PROVE  Scan(at, t) = Moved(Top, at, Top.key, Top.n + 1, Top.brace, Top.bracket)
<1> DEFINE m == Top.n + 1
<1>1. Scan(at, t) = [Top EXCEPT !.at = at, !.n = m]
  <2> DEFINE g == [Top EXCEPT !.at = at]
  <2>1. g.n = Top.n
    BY DEF FrameSet
  <2> HIDE DEF g
  <2>2. [g EXCEPT !.n = IF t = "stuck" THEN @ ELSE @ + 1] = [g EXCEPT !.n = m]
    BY <2>1
  <2> QED BY <2>2 DEF g, Scan
<1> HIDE DEF m
<1>2. [Top EXCEPT !.at = at, !.n = m] = Moved(Top, at, Top.key, m, Top.brace, Top.bracket)
  BY CountMoved
<1> QED BY <1>1, <1>2, Zenon DEF m

LEMMA ScanMoves ==
    ASSUME ControlOK, ControlOK', ~Done, NEW at, NEW t, t # "stuck"
    PROVE  /\ Become(Scan(at, t))
                => \E f : Moves(f, at, Top.key, Top.n + 1, Top.brace, Top.bracket)
           /\ \A key : Become([Scan(at, t) EXCEPT !.key = key])
                => \E f : Moves(f, at, key, Top.n + 1, Top.brace, Top.bracket)
<1> DEFINE m == Top.n + 1
<1>1. Top \in FrameSet
  BY TopFacts
<1>2. Scan(at, t) = Moved(Top, at, Top.key, m, Top.brace, Top.bracket)
  BY <1>1, ScanMoved
<1>3. \A key : [Moved(Top, at, Top.key, m, Top.brace, Top.bracket) EXCEPT !.key = key]
                 = Moved(Top, at, key, m, Top.brace, Top.bracket)
  BY DEF Moved
<1> HIDE DEF m
<1>4. Become(Scan(at, t)) => \E f : Moves(f, at, Top.key, m, Top.brace, Top.bracket)
  BY <1>2, BecomeMoves, Zenon
<1>5. ASSUME NEW key, Become([Scan(at, t) EXCEPT !.key = key])
      PROVE  \E f : Moves(f, at, key, m, Top.brace, Top.bracket)
  <2>1. Become(Moved(Top, at, key, m, Top.brace, Top.bracket))
    BY <1>2, <1>3, <1>5, Zenon
  <2> QED BY <2>1, BecomeMoves, Zenon
<1> QED BY <1>4, <1>5, Zenon DEF m

\* The token a scan leaves behind where it skips a member.
LEMMA SkipMoves ==
    ASSUME ControlOK, ControlOK', ~Done, NEW t, t # "stuck",
           NEW f, f = Level(Scan("skip", t), t)
    PROVE  /\ f.brace = Top.brace + Up(t) /\ f.bracket = Top.bracket + Across(t)
           /\ Become(f) => \E g : Moves(g, "skip", Top.key, Top.n + 1, f.brace, f.bracket)
           /\ Become([f EXCEPT !.at = "key", !.brace = 0, !.bracket = 0])
                => \E g : Moves(g, "key", Top.key, Top.n + 1, 0, 0)
<1> DEFINE m == Top.n + 1
           b == Top.brace + Up(t)
           c == Top.bracket + Across(t)
           s == Scan("skip", t)
<1>1. Top \in FrameSet
  BY TopFacts
<1>2. s = Moved(Top, "skip", Top.key, m, Top.brace, Top.bracket)
  BY <1>1, ScanMoved
<1>3. f = Moved(Top, "skip", Top.key, m, b, c)
  <2> HIDE DEF m
  <2> DEFINE h == [s EXCEPT !.brace = Top.brace + Up(t)]
  <2>1. f = [s EXCEPT !.brace = @ + Up(t), !.bracket = @ + Across(t)]
    BY Zenon DEF Level, Up, Across
  <2> DEFINE u == Up(t)
             a == Across(t)
  <2>2. f = [s EXCEPT !.brace = @ + u, !.bracket = @ + a]
    BY <2>1
  <2> HIDE DEF u, a, s
  <2>3. f = Moved(Top, "skip", Top.key, m, Top.brace + u, Top.bracket + a)
    BY <1>2, <2>2 DEF Moved
  <2> QED BY <2>3 DEF u, a
<1> HIDE DEF m, b, c
<1>4. f.brace = b /\ f.bracket = c
  BY <1>3 DEF Moved
<1>5. [f EXCEPT !.at = "key", !.brace = 0, !.bracket = 0] = Moved(Top, "key", Top.key, m, 0, 0)
  <2> DEFINE g == [f EXCEPT !.at = "key"]
             h == [g EXCEPT !.brace = 0]
  <2>1. g = Moved(Top, "key", Top.key, m, b, c)
    BY <1>3 DEF Moved
  <2>2. [f EXCEPT !.at = "key", !.brace = 0, !.bracket = 0] = [h EXCEPT !.bracket = 0]
    OBVIOUS
  <2> HIDE DEF g
  <2>3. h = Moved(Top, "key", Top.key, m, 0, c)
    BY <2>1 DEF Moved
  <2> HIDE DEF h
  <2>4. [h EXCEPT !.bracket = 0] = Moved(Top, "key", Top.key, m, 0, 0)
    BY <2>3 DEF Moved
  <2> QED BY <2>2, <2>4
<1>6. Become(f) => \E g : Moves(g, "skip", Top.key, m, f.brace, f.bracket)
  BY <1>3, <1>4, BecomeMoves, Zenon
<1>7. Become([f EXCEPT !.at = "key", !.brace = 0, !.bracket = 0])
        => \E g : Moves(g, "key", Top.key, m, 0, 0)
  BY <1>5, BecomeMoves, Zenon
<1> QED BY <1>4, <1>6, <1>7, Zenon DEF m, b, c

ScanStart(x, o, v, r) == x = TagFirst(o, v, r) \/ x = TagSecond(o, v, r)

LEMMA ScanLong ==
    ASSUME NEW r, NEW end, Good(r, end), NEW o, NEW v, NEW at, NEW key, NEW p, NEW q, NEW x,
           ScanFace(at, key, p, q, o, v, x, r, end)
    PROVE  Long(x, end)
<1> DEFINE more == Cons(Sym("more", "struct", Variants[o][v]), r)
<1>1. Good(CommaTag(o, v, r), end) /\ Long(TagFirst(o, v, r), end)
      /\ Long(TagSecond(o, v, r), end) /\ Long(CommaTag(o, v, r), end)
  BY TagGood
<1>2. Good(more, end)
  BY ConsFacts
<1>3. Good(TagValue(o, v, r), end) /\ Long(TagValue(o, v, r), end)
  <2>1. TagValue(o, v, r) = Cons(Tok(v), more)
    BY Zenon DEF TagValue
  <2> HIDE DEF more
  <2> QED BY <1>2, <2>1, ConsFacts, LongCons
<1>4. Good(StrayValue(o, v, r), end)
  BY <1>1, ConsFacts DEF StrayValue
<1>5. Long(Cons(Tok(":"), TagValue(o, v, r)), end) /\ Long(Cons(Tok(":"), StrayValue(o, v, r)), end)
  BY <1>3, <1>4, LongCons, Zenon
<1>6. ASSUME SkipFace(p, q, x, CommaTag(o, v, r), end)
      PROVE  Long(x, end)
  <2>1. CASE p + q > 0 /\ Skips(x, CommaTag(o, v, r), p, q, end)
    BY <2>1, SkipsLong
  <2>2. CASE \E a : Skippable(a) /\ x = Cons(a, CommaTag(o, v, r))
    BY <1>1, <2>2, LongCons, Zenon
  <2> QED BY <1>6, <2>1, <2>2, Zenon DEF SkipFace
<1> QED BY <1>1, <1>3, <1>5, <1>6, Zenon DEF ScanFace

\* Where a scan stands, and what a token looked at leaves of it.
ScanPlace(r, v, x, end) ==
    /\ Owes(Below, r, end) /\ Good(r, end) /\ v \in DOMAIN Variants[Top.elt]
    /\ ScanFace(Top.at, Top.key, Top.brace, Top.bracket, Top.elt, v, x, r, end)
Scanned(h, v, r, end) ==
    Good(h, end) => \E gs : /\ Path(gs, ahead', goal', end) /\ Top.n + 1 \in 1..Len(ahead')
                            /\ Opened(ahead') /\ ScanStart(gs[2], Top.elt, v, r)
                            /\ gs[Top.n + 2] = h

LEMMA ScanSync ==
    ASSUME IInv, ~Done, ret = <<>>, NEW end, InSync(stack, ret, ahead, goal, end),
           Top.fn = "oneof", Top.at # "open", NEW t \in Input, Peek(Top.n, t)
    PROVE  \/ /\ t = "eof" /\ goal' = <<Cut, end>> /\ ahead' = ahead /\ Top.n = Len(ahead)
              /\ \E r, v, x : ScanPlace(r, v, x, end)
           \/ t # "eof" /\ \E r, v, x : /\ ScanPlace(r, v, x, end)
                                       /\ \E h \in Step(x, t) : Scanned(h, v, r, end)
<1> DEFINE n == Top.n
<1>1. ControlOK /\ InputOK
  BY DEF IInv
<1>2. PICK r : Owes(Below, r, end) /\ Good(r, end) /\ Facing(Top, r, ahead, goal, end)
  BY <1>1, SyncFacing
<1>3. Scanning(Top, r, ahead, goal, end)
  BY <1>2, Zenon DEF Facing, Face, Fresh, Variant
<1>4. PICK gs, v : /\ v \in DOMAIN Variants[Top.elt] /\ Path(gs, ahead, goal, end)
                   /\ ScanStart(gs[2], Top.elt, v, r)
                   /\ ScanFace(Top.at, Top.key, Top.brace, Top.bracket, Top.elt, v, gs[n + 1], r, end)
  BY <1>3, Zenon DEF Scanning, ScanStart
<1> DEFINE x == gs[n + 1]
<1>5. ScanPlace(r, v, x, end) /\ Long(x, end)
  BY <1>2, <1>4, ScanLong, Zenon DEF ScanPlace
<1>6. n \in 1..Len(ahead) /\ Opened(ahead)
  BY <1>3 DEF Scanning
<1>7. n \in 0..Len(ahead) /\ Len(ahead) \in Nat /\ n \in Nat \ {0}
  BY <1>1, <1>6 DEF InputOK
<1>8. \/ Ended(x, t) /\ n = Len(ahead)
      \/ t # "eof" /\ \E h \in Step(x, t) : Good(h, end) => Longer(gs, n, h, t, end)
  BY <1>1, <1>4, <1>7, PeekPath
<1>9. CASE Ended(x, t) /\ n = Len(ahead)
  <2>1. CutShort(x) = <<Cut, end>>
    BY <1>5, LongCut
  <2> QED BY <1>5, <1>9, <2>1, Zenon DEF Ended
<1>10. ASSUME t # "eof", NEW h \in Step(x, t),
              Good(h, end) => Longer(gs, n, h, t, end)
       PROVE  Scanned(h, v, r, end)
  <2> SUFFICES ASSUME Good(h, end)
               PROVE  \E hs : /\ Path(hs, ahead', goal', end) /\ n + 1 \in 1..Len(ahead')
                              /\ Opened(ahead') /\ ScanStart(hs[2], Top.elt, v, r)
                              /\ hs[n + 2] = h
    BY Zenon DEF Scanned
  <2>1. PICK hs : /\ Path(hs, ahead', goal', end) /\ n + 1 <= Len(ahead')
                  /\ \A i \in 1..n + 1 : hs[i] = gs[i]
                  /\ hs[n + 2] = h
                  /\ \A i \in 1..n : ahead'[i] = ahead[i]
    BY <1>10 DEF Longer
  <2>2. hs[2] = gs[2] /\ ahead'[1] = ahead[1]
    BY <1>7, <2>1
  <2>3. ahead' \in Seq(Input)
    BY <2>1 DEF Path
  <2>4. n + 1 \in 1..Len(ahead') /\ ahead' # <<>>
    BY <1>7, <2>1, <2>3
  <2>5. Opened(ahead')
    BY <1>6, <2>2, <2>4, Zenon DEF Opened
  <2>6. ScanStart(hs[2], Top.elt, v, r)
    BY <1>4, <2>2
  <2> QED BY <2>1, <2>4, <2>5, <2>6
<1> HIDE DEF x
<1> QED BY <1>5, <1>8, <1>9, <1>10, Zenon

\* A scan that goes on.
LEMMA ScanIn ==
    ASSUME IInv, IInv', ~Done, Top.fn = "oneof",
           NEW f, NEW at, NEW key, NEW p, NEW q, Moves(f, at, key, Top.n + 1, p, q),
           NEW r, NEW v, NEW x, NEW end, ScanPlace(r, v, x, end),
           NEW h, Scanned(h, v, r, end),
           ScanFace(at, key, p, q, Top.elt, v, h, r, end)
    PROVE  Tracks(stack', ret', ahead', goal', end)
<1> DEFINE n == Top.n
<1>1. ControlOK
  BY DEF IInv
<1>2. Owes(Below, r, end) /\ Good(r, end) /\ v \in DOMAIN Variants[Top.elt]
  BY Zenon DEF ScanPlace
<1>3. Good(h, end)
  BY <1>2, ScanLong, LongCut
<1>4. PICK gs : /\ Path(gs, ahead', goal', end) /\ n + 1 \in 1..Len(ahead')
                /\ Opened(ahead') /\ ScanStart(gs[2], Top.elt, v, r)
                /\ gs[n + 2] = h
  BY <1>3, Zenon DEF Scanned
<1>5. /\ f \in FrameSet /\ Become(f) /\ f.fn = "oneof" /\ f.elt = Top.elt
      /\ f.at = at /\ f.key = key /\ f.n = n + 1 /\ f.brace = p /\ f.bracket = q
  BY Zenon DEF Moves
<1>6. gs[f.n + 1] = h
  <2>1. n \in Nat
    BY <1>1, OneofTop
  <2>2. f.n + 1 = n + 2
    BY <1>5, <2>1
  <2> QED BY <1>4, <2>2
<1>7. ScanFace(f.at, f.key, f.brace, f.bracket, f.elt, v, gs[f.n + 1], r, end)
  BY <1>5, <1>6
<1>8. f.n \in 1..Len(ahead')
  BY <1>4, <1>5
<1>9. Scanning(f, r, ahead', goal', end)
  BY <1>2, <1>4, <1>5, <1>7, <1>8, Zenon DEF Scanning, ScanStart
<1>10. Facing(f, r, ahead', goal', end)
  BY <1>9, Zenon DEF Facing
<1> QED BY <1>1, <1>2, <1>5, <1>10, StayIn, Zenon

\* The document has ended behind what a oneof has looked at: it returns an error.
LEMMA FailIn ==
    ASSUME NEW end, Return(-1), goal' = <<Cut, end>>,
           Below # <<>> => ~Lenient(Below[Len(Below)])
    PROVE  Tracks(stack', ret', ahead', goal', end)
<1>1. stack' = Below /\ ret' = <<-1>>
  BY Zenon DEF Return
<1>2. Refused(ahead', goal', end)
  BY Zenon DEF Refused
<1>3. stack' # <<>> => ~Lenient(stack'[Len(stack')])
  BY <1>1
<1> QED BY <1>1, <1>2, <1>3, Zenon DEF Tracks, Failing

LEMMA OneofOpenTracks ==
    ASSUME IInv, IInv', NEW end, InSync(stack, ret, ahead, goal, end), OneofOpen,
           Done' => ret' # << 0 >>
    PROVE  Tracks(stack', ret', ahead', goal', end)
<1>1. ~Done /\ ret = <<>> /\ Top.fn = "oneof" /\ Top.at = "open"
  BY Zenon DEF OneofOpen, In
<1>2. ControlOK /\ ControlOK' /\ InputOK
  BY DEF IInv
<1> DEFINE o == Top.elt
<1>3. o \in DOMAIN Variants /\ o # "any"
  BY <1>1, <1>2, OneofTop
<1>4. PICK r : Owes(Below, r, end) /\ Good(r, end) /\ Facing(Top, r, ahead, goal, end)
  BY <1>1, <1>2, SyncFacing
<1> DEFINE x == Cons(Sym("val", "one", o), r)
<1>5. Leads(x, ahead, goal, end) /\ Top.n = 0 /\ Top.brace = 0 /\ Top.bracket = 0
  <2>1. ~Scanning(Top, r, ahead, goal, end)
    BY <1>1, Zenon DEF Scanning, ScanFace
  <2>2. ~Variant(Top, r, ahead, goal, end)
    BY <1>1, Zenon DEF Variant
  <2>3. PICK y : Leads(y, ahead, goal, end) /\ Face(Top, y, r, end)
    BY <1>4, <2>1, <2>2, Zenon DEF Facing
  <2>4. Fresh(Top) /\ y = x
    BY <1>1, <2>3, Zenon DEF Face
  <2> QED BY <2>3, <2>4, Zenon DEF Fresh
<1>6. Long(x, end) /\ Good(x, end)
  BY <1>4, LongCons, ConsFacts
<1>7. PICK t \in Input : Peek(0, t) /\
         CASE t = "{" -> Become(Scan("key", t))
           [] t = "eof" -> Return(0)
           [] OTHER -> Return(-1)
  BY Zenon DEF OneofOpen
<1> HIDE DEF x, o
<1>8. \/ Ended(x, t) /\ ahead = <<>>
      \/ t # "eof" /\ \E h \in Step(x, t) :
            /\ ahead' \in Seq(Input) /\ ahead' # <<>> /\ Head(ahead') = t
            /\ Good(h, end) => Leads(h, Tail(ahead'), goal', end)
  BY <1>2, <1>5, <1>7, PeekStep
<1>9. CASE Ended(x, t) /\ ahead = <<>>
  <2>1. CutNow(end)
    BY <1>6, <1>9, CutFollows, Zenon
  <2> QED BY <2>1, CutIn, Zenon
<1>10. ASSUME t # "eof", NEW h \in Step(x, t),
              ahead' \in Seq(Input), ahead' # <<>>, Head(ahead') = t,
              Good(h, end) => Leads(h, Tail(ahead'), goal', end)
       PROVE  Tracks(stack', ret', ahead', goal', end)
  <2>1. t = "{" /\ \E v \in DOMAIN Variants[o] : h \in {TagFirst(o, v, r), TagSecond(o, v, r)}
    <3>1. h \in Step(Cons(Sym("val", "one", o), r), t)
      BY <1>10, Zenon DEF x
    <3> QED BY <1>3, <1>4, <3>1, StepOneof, Zenon
  <2>2. PICK v \in DOMAIN Variants[o] : h = TagFirst(o, v, r) \/ h = TagSecond(o, v, r)
    BY <2>1, Zenon
  <2>3. Good(h, end)
    BY <1>4, <2>2, TagGood
  <2>4. Leads(h, Tail(ahead'), goal', end)
    BY <1>10, <2>3, Zenon
  <2>5. PICK gs : Path(gs, ahead', goal', end) /\ gs[1] = x /\ gs[2] = h
    BY <1>6, <1>10, <2>4, PathCons
  <2>6. Opened(ahead') /\ 1 \in 1..Len(ahead')
    <3>1. ahead' # <<>> /\ ahead'[1] = t /\ 1 \in 1..Len(ahead')
      BY <1>10
    <3> QED BY <2>1, <3>1, Zenon DEF Opened
  <2>7. Become(Scan("key", t)) /\ t # "stuck"
    BY <1>7, <2>1, Zenon
  <2>8. PICK f : Moves(f, "key", Top.key, Top.n + 1, Top.brace, Top.bracket)
    BY <1>1, <1>2, <2>7, ScanMoves, Zenon
  <2>9. f \in FrameSet /\ Become(f) /\ f.fn = "oneof" /\ f.elt = o
        /\ f.at = "key" /\ f.n = Top.n + 1 /\ f.brace = 0 /\ f.bracket = 0
    BY <1>1, <1>5, <2>8, Zenon DEF Moves, o
  <2>10. f.n = 1 /\ gs[f.n + 1] = h
    BY <1>5, <2>5, <2>9
  <2>11. ScanFace(f.at, f.key, f.brace, f.bracket, f.elt, v, gs[f.n + 1], r, end)
    BY <2>2, <2>9, <2>10, Zenon DEF ScanFace
  <2>12. gs[2] = TagFirst(f.elt, v, r) \/ gs[2] = TagSecond(f.elt, v, r)
    BY <2>2, <2>5, <2>9, Zenon
  <2>13. f.n \in 1..Len(ahead')
    BY <2>6, <2>10, Zenon
  <2>14. Scanning(f, r, ahead', goal', end)
    <3>1. v \in DOMAIN Variants[f.elt]
      BY <2>9, Zenon
    <3>2. f.fn = "oneof"
      BY <2>9, Zenon
    <3> QED BY <2>5, <2>6, <2>11, <2>12, <2>13, <3>1, <3>2, Zenon DEF Scanning
  <2>15. Facing(f, r, ahead', goal', end)
    BY <2>14, Zenon DEF Facing
  <2>16. f \in FrameSet /\ Become(f)
    BY <2>9, Zenon
  <2> QED BY <1>1, <1>2, <1>4, <2>15, <2>16, StayIn, Zenon
<1> QED BY <1>8, <1>9, <1>10, Zenon

\* What the keys of a oneof object can be.
LEMMA ScanKeyStep ==
    ASSUME NEW o \in DOMAIN Variants, NEW v, NEW r, NEW end, Good(r, end),
           NEW x, x = TagFirst(o, v, r) \/ x = TagSecond(o, v, r) \/ x = CommaTag(o, v, r),
           NEW t, NEW h \in Step(x, t)
    PROVE  \/ t = TagKey /\ h = Cons(Tok(":"), TagValue(o, v, r))
           \/ t = Stray /\ h = Cons(Tok(":"), StrayValue(o, v, r))
           \/ t = "," /\ h = TagFirst(o, v, r)
<1> DEFINE c == TagFirst(o, v, r)
           a == Cons(Tok(":"), TagValue(o, v, r))
           b == Cons(Tok(":"), StrayValue(o, v, r))
<1>1. Good(TagValue(o, v, r), end)
  BY ConsFacts DEF TagValue
<1>2. Good(CommaTag(o, v, r), end) /\ Good(c, end)
  BY TagGood
<1>3. Good(StrayValue(o, v, r), end)
  BY <1>2, ConsFacts DEF StrayValue
<1>4. Good(a, end) /\ Good(b, end)
  BY <1>1, <1>3, ConsFacts
<1>5. TagFirst(o, v, r) = Cons(Tok(TagKey), a) /\ TagSecond(o, v, r) = Cons(Tok(Stray), b)
      /\ CommaTag(o, v, r) = Cons(Tok(","), c)
  BY Zenon DEF TagFirst, TagSecond, CommaTag, TagValue, StrayValue
<1> HIDE DEF a, b, c
<1>6. ASSUME x = TagFirst(o, v, r) PROVE t = TagKey /\ h = a
  <2>1. h \in Step(Cons(Tok(TagKey), a), t)
    BY <1>5, <1>6, Zenon
  <2> QED BY <1>4, <2>1, StepTok, Zenon
<1>7. ASSUME x = TagSecond(o, v, r) PROVE t = Stray /\ h = b
  <2>1. h \in Step(Cons(Tok(Stray), b), t)
    BY <1>5, <1>7, Zenon
  <2> QED BY <1>4, <2>1, StepTok, Zenon
<1>8. ASSUME x = CommaTag(o, v, r) PROVE t = "," /\ h = c
  <2>1. h \in Step(Cons(Tok(","), c), t)
    BY <1>5, <1>8, Zenon
  <2> QED BY <1>2, <2>1, StepTok, Zenon
<1> QED BY <1>6, <1>7, <1>8, Zenon DEF a, b, c

LEMMA OneofKeyTracks ==
    ASSUME IInv, IInv', NEW end, InSync(stack, ret, ahead, goal, end), OneofKey,
           Below # <<>> => ~Lenient(Below[Len(Below)])
    PROVE  Tracks(stack', ret', ahead', goal', end)
<1>1. ~Done /\ ret = <<>> /\ Top.fn = "oneof" /\ Top.at = "key" /\ Top.at # "open"
  BY Zenon DEF OneofKey, In
<1>2. ControlOK /\ ControlOK'
  BY DEF IInv
<1> DEFINE o == Top.elt
<1>3. o \in DOMAIN Variants
  BY <1>1, <1>2, OneofTop
<1>4. PICK t \in Input : Peek(Top.n, t) /\
         CASE t = "," -> Become(Scan("key", t))
           [] IsString(t) ->
                Become([Scan("colon", t) EXCEPT !.key = IF t = TagKey THEN t ELSE NoKey])
           [] OTHER -> Return(-1)
  BY Zenon DEF OneofKey
<1>5. \/ /\ t = "eof" /\ goal' = <<Cut, end>> /\ ahead' = ahead /\ Top.n = Len(ahead)
         /\ \E r, v, x : ScanPlace(r, v, x, end)
      \/ t # "eof" /\ \E r, v, x : /\ ScanPlace(r, v, x, end)
                                  /\ \E h \in Step(x, t) : Scanned(h, v, r, end)
  BY <1>1, <1>4, ScanSync, Zenon
<1>6. CASE t = "eof" /\ goal' = <<Cut, end>>
  <2>1. Return(-1)
    BY <1>4, <1>6, Zenon DEF IsString
  <2> QED BY <1>6, <2>1, FailIn, Zenon
<1>7. ASSUME NEW r, NEW v, NEW x, ScanPlace(r, v, x, end), NEW h \in Step(x, t),
             Scanned(h, v, r, end)
      PROVE  Tracks(stack', ret', ahead', goal', end)
  <2>1. Good(r, end) /\ v \in DOMAIN Variants[o] /\ Top.brace = 0 /\ Top.bracket = 0
    BY <1>1, <1>7, Zenon DEF ScanPlace, ScanFace
  <2>2. x = TagFirst(o, v, r) \/ x = TagSecond(o, v, r) \/ x = CommaTag(o, v, r)
    BY <1>1, <1>7, Zenon DEF ScanPlace, ScanFace
  <2> HIDE DEF o
  <2>3. \/ t = TagKey /\ h = Cons(Tok(":"), TagValue(o, v, r))
        \/ t = Stray /\ h = Cons(Tok(":"), StrayValue(o, v, r))
        \/ t = "," /\ h = TagFirst(o, v, r)
    BY <1>3, <1>7, <2>1, <2>2, ScanKeyStep, Zenon
  <2>4. CASE t = "," /\ h = TagFirst(o, v, r)
    <3>1. Become(Scan("key", t)) /\ t # "stuck"
      BY <1>4, <2>4, Zenon DEF IsString, Punct
    <3>2. PICK f : Moves(f, "key", Top.key, Top.n + 1, Top.brace, Top.bracket)
      BY <1>1, <1>2, <3>1, ScanMoves, Zenon
    <3>3. ScanFace("key", Top.key, Top.brace, Top.bracket, Top.elt, v, h, r, end)
      BY <2>1, <2>4, Zenon DEF ScanFace, o
    <3> QED BY <1>1, <1>7, <3>2, <3>3, ScanIn, Zenon
  <2>5. CASE t = TagKey /\ h = Cons(Tok(":"), TagValue(o, v, r))
    <3>1. IsString(t) /\ t # "," /\ t # "stuck"
      <4>1. IsString(TagKey)
        BY DocumentFacts, Zenon
      <4> QED BY <2>5, <4>1, Zenon DEF IsString, Punct, LexError
    <3>2. Become([Scan("colon", t) EXCEPT !.key = TagKey])
      BY <1>4, <2>5, <3>1, Zenon
    <3>3. PICK f : Moves(f, "colon", TagKey, Top.n + 1, Top.brace, Top.bracket)
      BY <1>1, <1>2, <3>1, <3>2, ScanMoves, Zenon
    <3>4. ScanFace("colon", TagKey, Top.brace, Top.bracket, Top.elt, v, h, r, end)
      BY <2>1, <2>5, Zenon DEF ScanFace, o
    <3> QED BY <1>1, <1>7, <3>3, <3>4, ScanIn, Zenon
  <2>6. CASE t = Stray /\ h = Cons(Tok(":"), StrayValue(o, v, r))
    <3>1. IsString(t) /\ t # "," /\ t # "stuck" /\ t # TagKey
      <4>1. IsString(Stray) /\ Stray # TagKey
        BY DocumentFacts, Zenon
      <4> QED BY <2>6, <4>1, Zenon DEF IsString, Punct, LexError
    <3>2. Become([Scan("colon", t) EXCEPT !.key = NoKey])
      BY <1>4, <3>1, Zenon
    <3>3. PICK f : Moves(f, "colon", NoKey, Top.n + 1, Top.brace, Top.bracket)
      BY <1>1, <1>2, <3>1, <3>2, ScanMoves, Zenon
    <3>4. ScanFace("colon", NoKey, Top.brace, Top.bracket, Top.elt, v, h, r, end)
      BY <2>1, <2>6, Zenon DEF ScanFace, o
    <3> QED BY <1>1, <1>7, <3>3, <3>4, ScanIn, Zenon
  <2> QED BY <2>3, <2>4, <2>5, <2>6, Zenon
<1> QED BY <1>5, <1>6, <1>7, Zenon

LEMMA OneofColonTracks ==
    ASSUME IInv, IInv', NEW end, InSync(stack, ret, ahead, goal, end), OneofColon,
           Below # <<>> => ~Lenient(Below[Len(Below)])
    PROVE  Tracks(stack', ret', ahead', goal', end)
<1>1. ~Done /\ ret = <<>> /\ Top.fn = "oneof" /\ Top.at = "colon" /\ Top.at # "open"
  BY Zenon DEF OneofColon, In
<1>2. ControlOK /\ ControlOK'
  BY DEF IInv
<1>3. PICK t \in Input : Peek(Top.n, t) /\
         IF t # ":" THEN Return(-1)
         ELSE Become(Scan(IF Top.key = TagKey THEN "tag" ELSE "skip", t))
  BY Zenon DEF OneofColon
<1>4. \/ /\ t = "eof" /\ goal' = <<Cut, end>> /\ ahead' = ahead /\ Top.n = Len(ahead)
         /\ \E r, v, x : ScanPlace(r, v, x, end)
      \/ t # "eof" /\ \E r, v, x : /\ ScanPlace(r, v, x, end)
                                  /\ \E h \in Step(x, t) : Scanned(h, v, r, end)
  BY <1>1, <1>3, ScanSync, Zenon
<1>5. CASE t = "eof" /\ goal' = <<Cut, end>>
  <2>1. Return(-1)
    BY <1>3, <1>5, Zenon
  <2> QED BY <1>5, <2>1, FailIn, Zenon
<1>6. ASSUME NEW r, NEW v, NEW x, ScanPlace(r, v, x, end), NEW h \in Step(x, t),
             Scanned(h, v, r, end)
      PROVE  Tracks(stack', ret', ahead', goal', end)
  <2> DEFINE o == Top.elt
  <2>1. Good(r, end) /\ Top.brace = 0 /\ Top.bracket = 0
    BY <1>1, <1>6, Zenon DEF ScanPlace, ScanFace
  <2>2. \/ Top.key = TagKey /\ x = Cons(Tok(":"), TagValue(o, v, r))
        \/ Top.key = NoKey /\ x = Cons(Tok(":"), StrayValue(o, v, r))
    BY <1>1, <1>6, Zenon DEF ScanPlace, ScanFace
  <2> HIDE DEF o
  <2>3. Good(TagValue(o, v, r), end) /\ Good(StrayValue(o, v, r), end)
    BY <2>1, TagGood, ConsFacts DEF TagValue, StrayValue
  <2>4. CASE Top.key = TagKey /\ x = Cons(Tok(":"), TagValue(o, v, r))
    <3>1. t = ":" /\ h = TagValue(o, v, r)
      BY <1>6, <2>3, <2>4, StepTok, Zenon
    <3>2. Become(Scan("tag", t)) /\ t # "stuck"
      BY <1>3, <2>4, <3>1, Zenon
    <3>3. PICK f : Moves(f, "tag", Top.key, Top.n + 1, Top.brace, Top.bracket)
      BY <1>1, <1>2, <3>2, ScanMoves, Zenon
    <3>4. ScanFace("tag", Top.key, Top.brace, Top.bracket, Top.elt, v, h, r, end)
      BY <3>1, Zenon DEF ScanFace, o
    <3> QED BY <1>1, <1>6, <3>3, <3>4, ScanIn, Zenon
  <2>5. CASE Top.key = NoKey /\ x = Cons(Tok(":"), StrayValue(o, v, r))
    <3>1. t = ":" /\ h = StrayValue(o, v, r)
      BY <1>6, <2>3, <2>5, StepTok, Zenon
    <3>2. Top.key # TagKey
      BY <2>5, DocumentFacts, Zenon DEF NoKey
    <3>3. Become(Scan("skip", t)) /\ t # "stuck"
      BY <1>3, <3>1, <3>2, Zenon
    <3>4. PICK f : Moves(f, "skip", Top.key, Top.n + 1, Top.brace, Top.bracket)
      BY <1>1, <1>2, <3>3, ScanMoves, Zenon
    <3>5. SkipFace(Top.brace, Top.bracket, h, CommaTag(o, v, r), end)
      <4>1. Skippable(Sym("val", "any", "any"))
        BY Zenon DEF Skippable, Valued, Typed
      <4> QED BY <2>1, <3>1, <4>1, Zenon DEF SkipFace, StrayValue
    <3>6. ScanFace("skip", Top.key, Top.brace, Top.bracket, Top.elt, v, h, r, end)
      BY <3>5, Zenon DEF ScanFace, o
    <3> QED BY <1>1, <1>6, <3>4, <3>6, ScanIn, Zenon
  <2> QED BY <2>2, <2>4, <2>5, Zenon
<1> QED BY <1>4, <1>5, <1>6, Zenon

LEMMA OneofSkipTracks ==
    ASSUME IInv, IInv', NEW end, InSync(stack, ret, ahead, goal, end), OneofSkip
    PROVE  Tracks(stack', ret', ahead', goal', end)
<1>1. ~Done /\ ret = <<>> /\ Top.fn = "oneof" /\ Top.at = "skip" /\ Top.at # "open"
  BY Zenon DEF OneofSkip, In
<1>2. ControlOK /\ ControlOK'
  BY DEF IInv
<1>a. Top.n \in Nat /\ Top.brace \in Int /\ Top.bracket \in Int
  BY <1>1, <1>2, OneofTop
<1>3. PICK t \in Input : Peek(Top.n, t) /\
         LET f == Level(Scan("skip", t), t)
         IN  IF t = "eof" \/ IsLevel(f)
               THEN Become([f EXCEPT !.at = "key", !.brace = 0, !.bracket = 0])
             ELSE Become(f)
  BY Zenon DEF OneofSkip
<1> DEFINE f == Level(Scan("skip", t), t)
<1>4. /\ (t = "eof" \/ IsLevel(f)) => Become([f EXCEPT !.at = "key", !.brace = 0, !.bracket = 0])
      /\ t # "eof" /\ ~IsLevel(f) => Become(f)
  BY <1>3, Zenon
<1>5. t # "stuck" =>
      /\ f.brace = Top.brace + Up(t) /\ f.bracket = Top.bracket + Across(t)
      /\ Become(f) => \E g : Moves(g, "skip", Top.key, Top.n + 1, f.brace, f.bracket)
      /\ Become([f EXCEPT !.at = "key", !.brace = 0, !.bracket = 0])
           => \E g : Moves(g, "key", Top.key, Top.n + 1, 0, 0)
  <2> DEFINE u == f
  <2>1. u = Level(Scan("skip", t), t)
    OBVIOUS
  <2> HIDE DEF u
  <2>2. t # "stuck" =>
      /\ u.brace = Top.brace + Up(t) /\ u.bracket = Top.bracket + Across(t)
      /\ Become(u) => \E g : Moves(g, "skip", Top.key, Top.n + 1, u.brace, u.bracket)
      /\ Become([u EXCEPT !.at = "key", !.brace = 0, !.bracket = 0])
           => \E g : Moves(g, "key", Top.key, Top.n + 1, 0, 0)
    BY <1>1, <1>2, <2>1, SkipMoves, Zenon
  <2> QED BY <2>2, Zenon DEF u
<1> HIDE DEF f
<1>6. \/ /\ t = "eof" /\ goal' = <<Cut, end>> /\ ahead' = ahead /\ Top.n = Len(ahead)
         /\ \E r, v, x : ScanPlace(r, v, x, end)
      \/ t # "eof" /\ \E r, v, x : /\ ScanPlace(r, v, x, end)
                                  /\ \E h \in Step(x, t) : Scanned(h, v, r, end)
  BY <1>1, <1>3, ScanSync, Zenon
<1>7. CASE t = "eof" /\ goal' = <<Cut, end>> /\ ahead' = ahead /\ Top.n = Len(ahead)
  <2>1. PICK g : Moves(g, "key", Top.key, Top.n + 1, 0, 0)
    <3>1. t # "stuck"
      BY <1>7, Zenon
    <3> QED BY <1>4, <1>5, <1>7, <3>1, Zenon
  <2>2. g \in FrameSet /\ stack' = Append(Below, g) /\ ret' = <<>> /\ g.fn = "oneof"
        /\ g.at = "key" /\ g.n = Top.n + 1
    BY <1>1, <2>1, Zenon DEF Moves, Become
  <2>3. Below \in Seq(FrameSet)
    BY <1>1, <1>2, TopFacts
  <2>4. g.n >= Len(ahead')
    BY <1>a, <1>7, <2>2
  <2>5. Stacked(stack', Below, g)
    BY <2>2, <2>3, Zenon DEF Stacked
  <2>6. g.fn = "oneof" /\ g.at = "key"
    BY <2>2, Zenon
  <2>7. ret' = <<>> /\ goal' = <<Cut, end>>
    BY <1>7, <2>2, Zenon
  <2> QED BY <2>4, <2>5, <2>6, <2>7, Zenon DEF Tracks, Lagging
<1>8. ASSUME t # "eof", NEW r, NEW v, NEW x, ScanPlace(r, v, x, end), NEW h \in Step(x, t),
             Scanned(h, v, r, end)
      PROVE  Tracks(stack', ret', ahead', goal', end)
  <2> DEFINE o == Top.elt
             c == CommaTag(o, v, r)
  <2>1. Good(c, end)
    BY <1>8, TagGood DEF ScanPlace
  <2>2. SkipFace(Top.brace, Top.bracket, x, c, end)
    BY <1>1, <1>8, Zenon DEF ScanPlace, ScanFace
  <2> HIDE DEF c
  <2>3. Read(t) /\ Skips(h, c, Top.brace + Up(t), Top.bracket + Across(t), end)
    BY <1>8, <2>1, <2>2, SkipStep, Zenon
  <2>4. t # "stuck"
    BY <2>3 DEF Read
  <2>5. Skips(h, c, f.brace, f.bracket, end)
    BY <1>5, <2>3, <2>4, Zenon
  <2>6. IF f.brace = 0 /\ f.bracket = 0 THEN h = c ELSE SkipFace(f.brace, f.bracket, h, c, end)
    BY <2>5, SkipNext
  <2>7. CASE IsLevel(f)
    <3>1. PICK g : Moves(g, "key", Top.key, Top.n + 1, 0, 0)
      BY <1>4, <1>5, <2>4, <2>7, Zenon
    <3>2. h = CommaTag(Top.elt, v, r)
      BY <2>6, <2>7, Zenon DEF IsLevel, c
    <3>3. ScanFace("key", Top.key, 0, 0, Top.elt, v, h, r, end)
      BY <3>2, Zenon DEF ScanFace
    <3> QED BY <1>1, <1>8, <3>1, <3>3, ScanIn, Zenon
  <2>8. CASE ~IsLevel(f)
    <3>1. PICK g : Moves(g, "skip", Top.key, Top.n + 1, f.brace, f.bracket)
      BY <1>4, <1>5, <1>8, <2>4, <2>8, Zenon
    <3>2. SkipFace(f.brace, f.bracket, h, CommaTag(Top.elt, v, r), end)
      BY <2>6, <2>8, Zenon DEF IsLevel, c
    <3>3. ScanFace("skip", Top.key, f.brace, f.bracket, Top.elt, v, h, r, end)
      BY <3>2, Zenon DEF ScanFace
    <3> QED BY <1>1, <1>8, <3>1, <3>3, ScanIn, Zenon
  <2> QED BY <2>7, <2>8, Zenon
<1> QED BY <1>6, <1>7, <1>8, Zenon

\* The variant is parsed from the opening brace, the scan having read ahead of it.
LEMMA OneofTagTracks ==
    ASSUME IInv, IInv', NEW end, InSync(stack, ret, ahead, goal, end), OneofTag,
           Below # <<>> => ~Lenient(Below[Len(Below)])
    PROVE  Tracks(stack', ret', ahead', goal', end)
<1>1. ~Done /\ ret = <<>> /\ Top.fn = "oneof" /\ Top.at = "tag" /\ Top.at # "open"
  BY Zenon DEF OneofTag, In
<1>2. ControlOK /\ ControlOK'
  BY DEF IInv
<1> DEFINE o == Top.elt
<1>3. o \in DOMAIN Variants
  BY <1>1, <1>2, OneofTop
<1>4. PICK t \in Input : Peek(Top.n, t) /\
         IF t \in DOMAIN Variants[o]
           THEN Call("called", Frame("struct", Variants[o][t], Top.depth + 1))
         ELSE Return(-1)
  BY Zenon DEF OneofTag
<1>5. \/ /\ t = "eof" /\ goal' = <<Cut, end>> /\ ahead' = ahead /\ Top.n = Len(ahead)
         /\ \E r, v, x : ScanPlace(r, v, x, end)
      \/ t # "eof" /\ \E r, v, x : /\ ScanPlace(r, v, x, end)
                                  /\ \E h \in Step(x, t) : Scanned(h, v, r, end)
  BY <1>1, <1>4, ScanSync, Zenon
<1>6. CASE t = "eof" /\ goal' = <<Cut, end>>
  <2>1. ~IsString(t)
    BY <1>6, Zenon DEF IsString
  <2>2. t \notin DOMAIN Variants[o]
    BY <1>3, <2>1, VariantFacts, Zenon
  <2>3. Return(-1)
    BY <1>4, <2>2, Zenon
  <2> QED BY <1>6, <2>3, FailIn, Zenon
<1>7. ASSUME NEW r, NEW v, NEW x, ScanPlace(r, v, x, end), NEW h \in Step(x, t),
             Scanned(h, v, r, end)
      PROVE  Tracks(stack', ret', ahead', goal', end)
  <2>1. Owes(Below, r, end) /\ Good(r, end) /\ v \in DOMAIN Variants[o]
    BY <1>7, Zenon DEF ScanPlace
  <2>2. x = TagValue(o, v, r)
    BY <1>1, <1>7, Zenon DEF ScanPlace, ScanFace
  <2> DEFINE more == Cons(Sym("more", "struct", Variants[o][v]), r)
             e == Variants[o][v]
             g == Frame("struct", e, Top.depth + 1)
  <2> HIDE DEF o
  <2>3. Good(more, end) /\ x = Cons(Tok(v), more)
    <3>1. Good(more, end)
      BY <2>1, ConsFacts
    <3> QED BY <2>2, <3>1, Zenon DEF TagValue
  <2>4. t = v /\ h = more
    <3> HIDE DEF more
    <3>1. h \in Step(Cons(Tok(v), more), t)
      BY <1>7, <2>3, Zenon
    <3> QED BY <2>3, <3>1, StepTok, Zenon
  <2>5. Call("called", g)
    BY <1>4, <2>1, <2>4, Zenon DEF o
  <2>6. Good(h, end)
    BY <2>3, <2>4, Zenon
  <2>7. PICK gs : /\ Path(gs, ahead', goal', end)
                  /\ Opened(ahead') /\ ScanStart(gs[2], o, v, r)
    BY <1>7, <2>6, Zenon DEF Scanned, o
  <2>8. Leads(gs[2], Tail(ahead'), goal', end)
    <3>1. ahead' # <<>>
      BY <2>7, Zenon DEF Opened
    <3> QED BY <2>7, <3>1, PathTail
  <2>9. g.fn = "struct" /\ g.at = "open" /\ g.elt = e
    BY FrameFields
  <2> HIDE DEF g
  <2>10. TagFace(g.elt, gs[2], r) \/ StrayFace(g.elt, gs[2], r)
    BY <1>3, <2>1, <2>7, <2>9, Zenon DEF ScanStart, TagFace, StrayFace
  <2>11. Facing(g, r, ahead', goal', end)
    BY <2>7, <2>8, <2>9, <2>10, Zenon DEF Facing, Variant
  <2>12. g \in FrameSet
    BY <1>1, <1>2, <2>5, CallMoves, Zenon
  <2>13. PICK f \in FrameSet : stack' = Append(Append(Below, f), g) /\ ret' = <<>> /\ f.fn = Top.fn
    BY <1>1, <1>2, <2>5, CallMoves
  <2>14. After(f, r, r)
    BY <1>1, <2>13, Zenon DEF After
  <2> QED BY <1>1, <1>2, <2>1, <2>11, <2>12, <2>13, <2>14, CallIn, Zenon
<1> QED BY <1>5, <1>6, <1>7, Zenon

LEMMA OneofBackTracks ==
    ASSUME IInv, IInv', NEW end, InSync(stack, ret, ahead, goal, end), OneofBack
    PROVE  Tracks(stack', ret', ahead', goal', end)
<1>1. ~Done /\ ret # <<>> /\ Top.fn = "oneof" /\ NoInput
      /\ Return(IF ret[1] < 0 THEN -1 ELSE 0)
  BY Zenon DEF OneofBack, Back
<1>2. ControlOK
  BY DEF IInv
<1>3. ret[1] = 0
  BY <1>1, <1>2, SyncAfter
<1>4. PICK r, y : Owes(Below, r, end) /\ After(Top, y, r) /\ Leads(y, ahead, goal, end)
  BY <1>1, <1>2, SyncAfter
<1>5. y = r
  BY <1>1, <1>4, Zenon DEF After
<1>6. Return(0)
  BY <1>1, <1>3
<1>7. Leads(r, ahead', goal', end)
  BY <1>1, <1>4, <1>5, NoInputLeads
<1> QED BY <1>4, <1>6, <1>7, ReturnIn

LEMMA OneofTracks ==
    ASSUME IInv, IInv', NEW end, InSync(stack, ret, ahead, goal, end), Oneof,
           Done' => ret' # << 0 >>, Below # <<>> => ~Lenient(Below[Len(Below)])
    PROVE  Tracks(stack', ret', ahead', goal', end)
BY OneofOpenTracks, OneofKeyTracks, OneofColonTracks, OneofSkipTracks, OneofTagTracks,
   OneofBackTracks, Zenon DEF Oneof

-----------------------------------------------------------------------------
(***************************************************************************)
(* What any step does to the calls and to the input, in step with the      *)
(* document or not.                                                        *)
(***************************************************************************)
Keeps(f) == f \in FrameSet /\ f.fn = Top.fn /\ f.elt = Top.elt /\ f.depth = Top.depth

\* The calls a call f can make.
Callable(f, g) ==
    \/ f.fn = "struct" /\ f.at = "ignored" /\ g.fn = "ignore" /\ g.elt = "any"
    \/ /\ f.fn = "struct" /\ f.elt \in DOMAIN Index /\ f.key \in DOMAIN Index[f.elt]
       /\ g.elt = Index[f.elt][f.key].elt /\ Hands(Index[f.elt][f.key], f, g)
    \/ f.fn = "array" /\ g.fn = "struct" /\ g.elt = f.elt /\ g.depth = f.depth + 1
    \/ f.fn = "fixed" /\ g.fn \in {"struct", "oneof"} /\ g.elt = f.elt /\ g.depth = f.depth + 1
    \/ f.fn = "map" /\ g.fn = "struct" /\ g.elt = f.elt /\ g.depth = f.depth + 1
    \/ f.fn = "maps" /\ g.fn = "map" /\ g.elt = f.elt /\ g.depth = f.depth + 1
    \/ f.fn = "oneofs" /\ g.fn = "oneof" /\ g.elt = f.elt /\ g.depth = f.depth
    \/ /\ f.fn = "oneof" /\ f.elt \in DOMAIN Variants /\ g.fn = "struct" /\ g.depth = f.depth + 1
       /\ \E v \in DOMAIN Variants[f.elt] : g.elt = Variants[f.elt][v]

Keeping == \E f : Keeps(f) /\ Become(f)
Calling ==
    \E f, g : /\ Keeps(f) /\ g \in FrameSet /\ Callable(f, g)
              /\ stack' = Append(Append(Below, f), g) /\ ret' = <<>>
Returning == \E r : Return(r)
Control == ~Done /\ (Keeping \/ Calling \/ Returning)
Reads == NoInput \/ \E t \in Input : Take(t) \/ \E n \in Nat : Peek(n, t)

LEMMA MovesKeep ==
    ASSUME NEW f, NEW at, NEW key, NEW n, NEW p, NEW q, Moves(f, at, key, n, p, q)
    PROVE  Keeping
BY Zenon DEF Moves, Keeping, Keeps

LEMMA GotoKeeps ==
    ASSUME ControlOK, ControlOK', ~Done, NEW at, Goto(at)
    PROVE  Keeping
BY GotoMoves, MovesKeep, Zenon

LEMMA KeyKeeps ==
    ASSUME ControlOK, ControlOK', ~Done, NEW at, NEW key, Become([Top EXCEPT !.at = at, !.key = key])
    PROVE  Keeping
BY KeyMoves, MovesKeep, Zenon

LEMMA StoredKeeps ==
    ASSUME ControlOK, ControlOK', ~Done, NEW at, Stored(at)
    PROVE  Keeping
BY StoredMoves, MovesKeep, Zenon

LEMMA MovedKeeps ==
    ASSUME ControlOK, ControlOK', ~Done, NEW at, NEW key, NEW n, NEW p, NEW q,
           Become(Moved(Top, at, key, n, p, q))
    PROVE  Keeping
BY BecomeMoves, MovesKeep, Zenon

LEMMA ReturnReturns == ASSUME NEW r, Return(r) PROVE Returning
BY Zenon DEF Returning

LEMMA TakeReads == ASSUME NEW t \in Input, Take(t) PROVE Reads
BY Zenon DEF Reads
LEMMA PeekReads == ASSUME NEW t \in Input, Peek(0, t) PROVE Reads
BY DEF Reads
LEMMA NoInputReads == ASSUME NoInput PROVE Reads
BY Zenon DEF Reads

\* The calls made with a frame of their own.
LEMMA Calls ==
    ASSUME ControlOK, ControlOK', ~Done, NEW at, NEW g, Call(at, g),
           \A f : /\ f.fn = Top.fn /\ f.elt = Top.elt /\ f.at = at /\ f.key = Top.key
                  /\ f.depth = Top.depth
                  => Callable(f, g)
    PROVE  Calling
<1>1. g \in FrameSet
  BY CallMoves
<1>2. PICK f \in FrameSet :
                /\ stack' = Append(Append(Below, f), g) /\ ret' = <<>>
                /\ f.fn = Top.fn /\ f.elt = Top.elt /\ f.at = at /\ f.n = Top.n /\ f.key = Top.key
                /\ f.depth = Top.depth
  BY CallMoves
<1>3. Callable(f, g) /\ Keeps(f)
  BY <1>2, Zenon DEF Keeps
<1> QED BY <1>1, <1>2, <1>3, Zenon DEF Calling

LEMMA OpenControl ==
    ASSUME IInv, IInv', NEW fn, NEW error, Open(fn, error)
    PROVE  Control /\ Reads
<1>1. ControlOK /\ ControlOK' /\ ~Done
  BY Zenon DEF IInv, Open, In
<1>2. PICK t \in Input : Take(t) /\ (Return(error) \/ Goto("first"))
  BY Zenon DEF Open
<1> QED BY <1>1, <1>2, GotoKeeps, ReturnReturns, TakeReads, Zenon DEF Control

LEMMA FirstControl ==
    ASSUME IInv, IInv', NEW fn, First(fn)
    PROVE  Control /\ Reads
<1>1. ControlOK /\ ControlOK' /\ ~Done
  BY Zenon DEF IInv, First, In
<1>2. PICK t \in Input : (Take(t) /\ Return(0)) \/ (Peek(0, t) /\ Goto("elem"))
  BY Zenon DEF First
<1> QED BY <1>1, <1>2, GotoKeeps, ReturnReturns, TakeReads, PeekReads, Zenon DEF Control

LEMMA SeparatorControl ==
    ASSUME IInv, IInv', NEW fn, NEW error, Separator(fn, error)
    PROVE  Control /\ Reads
<1>1. ControlOK /\ ControlOK' /\ ~Done
  BY Zenon DEF IInv, Separator, In
<1>2. PICK t \in Input : Take(t) /\ (Return(0) \/ Return(error) \/ Goto("elem"))
  BY DEF Separator
<1> QED BY <1>1, <1>2, GotoKeeps, ReturnReturns, TakeReads, Zenon DEF Control

LEMMA AfterElementControl ==
    ASSUME ControlOK, ControlOK', ~Done, NEW r, AfterElement(r)
    PROVE  Control
<1>1. Return(r) \/ Return(0) \/ Stored("sep")
  BY DEF AfterElement
<1> QED BY <1>1, StoredKeeps, ReturnReturns, Zenon DEF Control

LEMMA ArrayControl == ASSUME IInv, IInv', Array PROVE Control /\ Reads
<1>1. CASE Open("array", PARSE) \/ First("array") \/ Separator("array", PARSE)
  BY <1>1, OpenControl, FirstControl, SeparatorControl, Zenon
<1>2. CASE ArrayElement
  <2> DEFINE g == Element(Top.depth + 1)
  <2>1. ControlOK /\ ControlOK' /\ ~Done /\ Top.fn = "array" /\ NoInput /\ Call("called", g)
    BY <1>2, Zenon DEF ArrayElement, In, IInv
  <2>2. g.fn = "struct" /\ g.elt = Top.elt /\ g.depth = Top.depth + 1
    BY FrameFields DEF Element
  <2> HIDE DEF g
  <2>3. \A f : f.fn = Top.fn /\ f.elt = Top.elt /\ f.depth = Top.depth => Callable(f, g)
    BY <2>1, <2>2, Zenon DEF Callable
  <2>4. Calling
    BY <2>1, <2>3, Calls, Zenon
  <2> QED BY <2>1, <2>4, Zenon DEF Control, Reads
<1>3. CASE ArrayBack
  <2>1. ControlOK /\ ControlOK' /\ ~Done /\ NoInput
    BY <1>3, Zenon DEF ArrayBack, Back, IInv
  <2>2. Return(ret[1]) \/ Return(0) \/ Stored("sep")
    BY <1>3 DEF ArrayBack
  <2> QED BY <2>1, <2>2, StoredKeeps, ReturnReturns, Zenon DEF Control, Reads
<1> QED BY <1>1, <1>2, <1>3, Zenon DEF Array

LEMMA ScalarsControl == ASSUME IInv, IInv', Scalars PROVE Control /\ Reads
<1>1. CASE ScalarsOpen
  <2>1. PICK t \in Input : Take(t) /\ (Goto("elem") \/ Return(-1))
    BY <1>1, Zenon DEF ScalarsOpen
  <2>2. ControlOK /\ ControlOK' /\ ~Done
    BY <1>1, Zenon DEF ScalarsOpen, In, IInv
  <2> QED BY <2>1, <2>2, GotoKeeps, ReturnReturns, TakeReads, Zenon DEF Control
<1>2. CASE ScalarsElement
  <2>1. PICK t \in Input : Take(t) /\ AfterElement(ScalarCode(Top.elt, t))
    BY <1>2, Zenon DEF ScalarsElement
  <2>2. ControlOK /\ ControlOK' /\ ~Done
    BY <1>2, Zenon DEF ScalarsElement, In, IInv
  <2> QED BY <2>1, <2>2, AfterElementControl, TakeReads, Zenon
<1>3. CASE Separator("scalars", -1)
  BY <1>3, SeparatorControl, Zenon
<1> QED BY <1>1, <1>2, <1>3, Zenon DEF Scalars

LEMMA EnumsControl == ASSUME IInv, IInv', Enums PROVE Control /\ Reads
<1>1. ControlOK /\ ControlOK' /\ ~Done
  BY Zenon DEF Enums, EnumsOpen, EnumsElement, In, IInv
<1>2. PICK t \in Input : /\ Take(t)
                         /\ \/ Goto("elem") \/ Stored("elem")
                            \/ \E r : Return(r)
  <2>1. CASE EnumsOpen
    <3>1. \E t \in Input : Take(t) /\ (Goto("elem") \/ Return(0) \/ Return(-1))
      BY <2>1 DEF EnumsOpen
    <3> QED BY <3>1, Zenon
  <2>2. CASE EnumsElement
    <3>1. \E t \in Input : Take(t) /\ (Return(0) \/ Goto("elem") \/ Stored("elem")
                                       \/ Return(ScalarCode("enum", t)))
      BY <2>2 DEF EnumsElement
    <3> QED BY <3>1, Zenon
  <2> QED BY <2>1, <2>2, Zenon DEF Enums
<1> QED BY <1>1, <1>2, GotoKeeps, StoredKeeps, ReturnReturns, TakeReads, Zenon DEF Control

LEMMA FixedControl == ASSUME IInv, IInv', Fixed PROVE Control /\ Reads
<1>1. CASE Open("fixed", -1) \/ First("fixed") \/ Separator("fixed", -1)
  BY <1>1, OpenControl, FirstControl, SeparatorControl, Zenon
<1>2. CASE FixedElement
  <2>1. ControlOK /\ ControlOK' /\ ~Done /\ Top.fn = "fixed"
    BY <1>2, Zenon DEF FixedElement, In, IInv
  <2>2. CASE Return(-1) /\ NoInput
    BY <2>1, <2>2, ReturnReturns, Zenon DEF Control, Reads
  <2>3. ASSUME NEW g, Call("called", g), NoInput, g.fn \in {"struct", "oneof"},
               g.elt = Top.elt, g.depth = Top.depth + 1
        PROVE  Control /\ Reads
    <3>1. \A f : f.fn = Top.fn /\ f.elt = Top.elt /\ f.depth = Top.depth => Callable(f, g)
      BY <2>1, <2>3, Zenon DEF Callable
    <3>2. Calling
      BY <2>1, <2>3, <3>1, Calls, Zenon
    <3> QED BY <2>1, <2>3, <3>2, Zenon DEF Control, Reads
  <2>4. CASE Call("called", Element(Top.depth + 1)) /\ NoInput
    <3> DEFINE g == Element(Top.depth + 1)
    <3>1. g.fn = "struct" /\ g.elt = Top.elt /\ g.depth = Top.depth + 1
      BY FrameFields DEF Element
    <3> QED BY <2>3, <2>4, <3>1
  <2>5. CASE Call("called", Frame("oneof", Top.elt, Top.depth + 1)) /\ NoInput
    <3> DEFINE g == Frame("oneof", Top.elt, Top.depth + 1)
    <3>1. g.fn = "oneof" /\ g.elt = Top.elt /\ g.depth = Top.depth + 1
      BY FrameFields
    <3> QED BY <2>3, <2>5, <3>1
  <2>6. CASE \E t \in Input : Take(t) /\ AfterElement(ScalarCode(Top.elt, t))
    BY <2>1, <2>6, AfterElementControl, TakeReads, Zenon
  <2> QED BY <1>2, <2>2, <2>4, <2>5, <2>6, Zenon DEF FixedElement
<1>3. CASE FixedBack
  <2>1. ControlOK /\ ControlOK' /\ ~Done /\ NoInput /\ AfterElement(ret[1])
    BY <1>3, Zenon DEF FixedBack, Back, IInv
  <2> QED BY <2>1, AfterElementControl, NoInputReads, Zenon
<1> QED BY <1>1, <1>2, <1>3, Zenon DEF Fixed

LEMMA MapControl == ASSUME IInv, IInv', MapObject PROVE Control /\ Reads
<1>1. ControlOK /\ ControlOK' /\ ~Done /\ Top.fn = "map"
  BY Zenon DEF MapObject, MapOpen, MapKey, MapColon, MapScalar, MapStruct, MapBack, In, Back, IInv
<1>2. CASE MapOpen \/ MapKey \/ MapColon
  <2>1. \E t \in Input : /\ Take(t)
                         /\ Goto("key") \/ Goto("colon") \/ Goto("value") \/ \E r : Return(r)
    <3>1. CASE MapOpen
      <4>1. \E t \in Input : Take(t) /\ (Goto("key") \/ Return(0) \/ Return(-1))
        BY <3>1 DEF MapOpen
      <4> QED BY <4>1, Zenon
    <3>2. CASE MapKey
      <4>1. \E t \in Input : Take(t) /\ (Goto("key") \/ Goto("colon") \/ Return(0) \/ Return(-1))
        BY <3>2 DEF MapKey
      <4> QED BY <4>1, Zenon
    <3>3. CASE MapColon
      BY <3>3, Zenon DEF MapColon
    <3> QED BY <1>2, <3>1, <3>2, <3>3, Zenon
  <2> QED BY <1>1, <2>1, GotoKeeps, ReturnReturns, TakeReads, Zenon DEF Control
<1>3. CASE MapScalar
  <2>1. \E t \in Input : Take(t) /\ (Stored("key") \/ Return(ScalarCode(Top.elt, t)))
    BY <1>3, Zenon DEF MapScalar
  <2> QED BY <1>1, <2>1, StoredKeeps, ReturnReturns, TakeReads, Zenon DEF Control
<1>4. CASE MapStruct
  <2> DEFINE g == Frame("struct", Top.elt, Top.depth + 1)
  <2>1. NoInput /\ Call("called", g)
    BY <1>4, Zenon DEF MapStruct
  <2>2. g.fn = "struct" /\ g.elt = Top.elt /\ g.depth = Top.depth + 1
    BY FrameFields
  <2> HIDE DEF g
  <2>3. \A f : f.fn = Top.fn /\ f.elt = Top.elt /\ f.depth = Top.depth => Callable(f, g)
    BY <1>1, <2>2, Zenon DEF Callable
  <2>4. Calling
    BY <1>1, <2>1, <2>3, Calls, Zenon
  <2> QED BY <1>1, <2>1, <2>4, Zenon DEF Control, Reads
<1>5. CASE MapBack
  <2>1. NoInput /\ (Return(ret[1]) \/ Stored("key"))
    BY <1>5, Zenon DEF MapBack
  <2> QED BY <1>1, <2>1, StoredKeeps, ReturnReturns, Zenon DEF Control, Reads
<1> QED BY <1>2, <1>3, <1>4, <1>5, Zenon DEF MapObject

LEMMA MapsControl == ASSUME IInv, IInv', Maps PROVE Control /\ Reads
<1>1. ControlOK /\ ControlOK' /\ ~Done /\ Top.fn = "maps"
  BY Zenon DEF Maps, MapsOpen, First, MapsElement, MapsBack, MapsSeparator, In, Back, IInv
<1>2. CASE MapsOpen \/ MapsSeparator
  <2>1. \E t \in Input : Take(t) /\ (Return(0) \/ Return(-1) \/ Goto("first"))
    <3>1. CASE MapsOpen BY <3>1 DEF MapsOpen
    <3>2. CASE MapsSeparator BY <3>2 DEF MapsSeparator
    <3> QED BY <1>2, <3>1, <3>2
  <2> QED BY <1>1, <2>1, GotoKeeps, ReturnReturns, TakeReads, Zenon DEF Control
<1>3. CASE First("maps")
  BY <1>3, FirstControl, Zenon
<1>4. CASE MapsElement
  <2> DEFINE g == Frame("map", Top.elt, Top.depth + 1)
  <2>1. NoInput /\ Call("called", g)
    BY <1>4, Zenon DEF MapsElement
  <2>2. g.fn = "map" /\ g.elt = Top.elt /\ g.depth = Top.depth + 1
    BY FrameFields
  <2> HIDE DEF g
  <2>3. \A f : f.fn = Top.fn /\ f.elt = Top.elt /\ f.depth = Top.depth => Callable(f, g)
    BY <1>1, <2>2, Zenon DEF Callable
  <2>4. Calling
    BY <1>1, <2>1, <2>3, Calls, Zenon
  <2> QED BY <1>1, <2>1, <2>4, Zenon DEF Control, Reads
<1>5. CASE MapsBack
  <2>1. NoInput /\ (Return(ret[1]) \/ Stored("sep"))
    BY <1>5, Zenon DEF MapsBack
  <2> QED BY <1>1, <2>1, StoredKeeps, ReturnReturns, Zenon DEF Control, Reads
<1> QED BY <1>2, <1>3, <1>4, <1>5, Zenon DEF Maps

LEMMA IgnoreControl == ASSUME IInv, IInv', Ignore PROVE Control /\ Reads
<1>1. ControlOK /\ ControlOK' /\ ~Done
  BY Zenon DEF Ignore, In, IInv
<1>2. PICK t \in Input : Take(t) /\ (Return(-1) \/ Return(0) \/ Become(Level(Top, t)))
  BY Zenon DEF Ignore
<1>3. CASE Become(Level(Top, t))
  <2> DEFINE p == Top.brace + Up(t)
             q == Top.bracket + Across(t)
  <2>1. Top \in FrameSet
    BY <1>1, TopFacts
  <2>2. Become(Moved(Top, Top.at, Top.key, Top.n, p, q))
    BY <1>3, <2>1, LevelMoves, Zenon
  <2> HIDE DEF p, q
  <2>3. Keeping
    BY <1>1, <2>2, MovedKeeps, Zenon
  <2> QED BY <1>1, <1>2, <2>3, TakeReads, Zenon DEF Control
<1> QED BY <1>1, <1>2, <1>3, ReturnReturns, TakeReads, Zenon DEF Control

LEMMA OneofsControl == ASSUME IInv, IInv', Oneofs PROVE Control /\ Reads
<1>1. ControlOK /\ ControlOK' /\ ~Done /\ Top.fn = "oneofs"
  BY Zenon DEF Oneofs, OneofsOpen, First, OneofsElement, OneofsBack, OneofsSeparator, In, Back, IInv
<1>2. CASE OneofsOpen
  <2>1. \E t \in Input : Take(t) /\ (Return(0) \/ Return(-1) \/ Goto("first"))
    BY <1>2 DEF OneofsOpen
  <2> QED BY <1>1, <2>1, GotoKeeps, ReturnReturns, TakeReads, Zenon DEF Control
<1>3. CASE First("oneofs")
  BY <1>3, FirstControl, Zenon
<1>4. CASE OneofsElement
  <2> DEFINE g == Frame("oneof", Top.elt, Top.depth)
  <2>1. NoInput /\ Call("called", g)
    BY <1>4, Zenon DEF OneofsElement
  <2>2. g.fn = "oneof" /\ g.elt = Top.elt /\ g.depth = Top.depth
    BY FrameFields
  <2> HIDE DEF g
  <2>3. \A f : f.fn = Top.fn /\ f.elt = Top.elt /\ f.depth = Top.depth => Callable(f, g)
    BY <1>1, <2>2, Zenon DEF Callable
  <2>4. Calling
    BY <1>1, <2>1, <2>3, Calls, Zenon
  <2> QED BY <1>1, <2>1, <2>4, Zenon DEF Control, Reads
<1>5. CASE OneofsBack
  <2>1. NoInput /\ (Return(-1) \/ Stored("sep"))
    BY <1>5, Zenon DEF OneofsBack
  <2> QED BY <1>1, <2>1, StoredKeeps, ReturnReturns, Zenon DEF Control, Reads
<1>6. CASE OneofsSeparator
  <2>1. \E t \in Input : /\ Take(t) \/ Peek(0, t)
                         /\ Return(0) \/ Return(-1) \/ Goto("first")
    BY <1>6 DEF OneofsSeparator
  <2> QED BY <1>1, <2>1, GotoKeeps, ReturnReturns, TakeReads, PeekReads, Zenon DEF Control
<1> QED BY <1>2, <1>3, <1>4, <1>5, <1>6, Zenon DEF Oneofs

\* Where a scan leaves its oneof: at a place, with counters of its own.
LEMMA ScanKeeps ==
    ASSUME ControlOK, ControlOK', ~Done, NEW at, NEW t
    PROVE  /\ Become(Scan(at, t)) => Keeping
           /\ \A key : Become([Scan(at, t) EXCEPT !.key = key]) => Keeping
<1> DEFINE m == IF t = "stuck" THEN Top.n ELSE Top.n + 1
<1>1. Top \in FrameSet
  BY TopFacts
<1>2. Scan(at, t) = Moved(Top, at, Top.key, m, Top.brace, Top.bracket)
  <2>1. Scan(at, t) = [Top EXCEPT !.at = at, !.n = m]
    <3> DEFINE g == [Top EXCEPT !.at = at]
    <3>1. g.n = Top.n
      BY <1>1 DEF FrameSet
    <3> HIDE DEF g
    <3>2. [g EXCEPT !.n = IF t = "stuck" THEN @ ELSE @ + 1] = [g EXCEPT !.n = m]
      BY <3>1
    <3> QED BY <3>2 DEF g, Scan
  <2> HIDE DEF m
  <2>2. [Top EXCEPT !.at = at, !.n = m] = Moved(Top, at, Top.key, m, Top.brace, Top.bracket)
    BY <1>1, CountMoved
  <2> QED BY <2>1, <2>2, Zenon
<1> HIDE DEF m
<1>3. \A key : [Moved(Top, at, Top.key, m, Top.brace, Top.bracket) EXCEPT !.key = key]
                 = Moved(Top, at, key, m, Top.brace, Top.bracket)
  BY DEF Moved
<1>4. Become(Scan(at, t)) => Keeping
  BY <1>2, MovedKeeps, Zenon
<1>5. ASSUME NEW key, Become([Scan(at, t) EXCEPT !.key = key])
      PROVE  Keeping
  <2>1. Become(Moved(Top, at, key, m, Top.brace, Top.bracket))
    BY <1>2, <1>3, <1>5, Zenon
  <2> QED BY <2>1, MovedKeeps, Zenon
<1> QED BY <1>4, <1>5, Zenon

LEMMA SkipKeeps ==
    ASSUME ControlOK, ControlOK', ~Done, NEW t, NEW f, f = Level(Scan("skip", t), t)
    PROVE  /\ Become(f) => Keeping
           /\ Become([f EXCEPT !.at = "key", !.brace = 0, !.bracket = 0]) => Keeping
<1> DEFINE m == IF t = "stuck" THEN Top.n ELSE Top.n + 1
           s == Scan("skip", t)
<1>1. Top \in FrameSet
  BY TopFacts
<1>2. s = Moved(Top, "skip", Top.key, m, Top.brace, Top.bracket)
  <2>1. Scan("skip", t) = [Top EXCEPT !.at = "skip", !.n = m]
    <3> DEFINE g == [Top EXCEPT !.at = "skip"]
    <3>1. g.n = Top.n
      BY <1>1 DEF FrameSet
    <3> HIDE DEF g
    <3>2. [g EXCEPT !.n = IF t = "stuck" THEN @ ELSE @ + 1] = [g EXCEPT !.n = m]
      BY <3>1
    <3> QED BY <3>2 DEF g, Scan
  <2> HIDE DEF m
  <2>2. [Top EXCEPT !.at = "skip", !.n = m]
          = Moved(Top, "skip", Top.key, m, Top.brace, Top.bracket)
    BY <1>1, CountMoved
  <2> QED BY <2>1, <2>2, Zenon
<1> HIDE DEF m
<1> DEFINE b == Top.brace + Up(t)
           c == Top.bracket + Across(t)
<1>3. f = Moved(Top, "skip", Top.key, m, b, c)
  <2>1. f = [s EXCEPT !.brace = @ + Up(t), !.bracket = @ + Across(t)]
    BY Zenon DEF Level, Up, Across
  <2> DEFINE u == Up(t)
             a == Across(t)
  <2>2. f = [s EXCEPT !.brace = @ + u, !.bracket = @ + a]
    BY <2>1
  <2> HIDE DEF u, a, s
  <2>3. f = Moved(Top, "skip", Top.key, m, Top.brace + u, Top.bracket + a)
    BY <1>2, <2>2 DEF Moved
  <2> QED BY <2>3 DEF u, a
<1> HIDE DEF b, c
<1>4. [f EXCEPT !.at = "key", !.brace = 0, !.bracket = 0] = Moved(Top, "key", Top.key, m, 0, 0)
  <2> DEFINE g == [f EXCEPT !.at = "key"]
             h == [g EXCEPT !.brace = 0]
  <2>1. g = Moved(Top, "key", Top.key, m, b, c)
    BY <1>3 DEF Moved
  <2>2. [f EXCEPT !.at = "key", !.brace = 0, !.bracket = 0] = [h EXCEPT !.bracket = 0]
    OBVIOUS
  <2> HIDE DEF g
  <2>3. h = Moved(Top, "key", Top.key, m, 0, c)
    BY <2>1 DEF Moved
  <2> HIDE DEF h
  <2>4. [h EXCEPT !.bracket = 0] = Moved(Top, "key", Top.key, m, 0, 0)
    BY <2>3 DEF Moved
  <2> QED BY <2>2, <2>4
<1>5. Become(f) => Keeping
  BY <1>3, MovedKeeps, Zenon
<1>6. Become([f EXCEPT !.at = "key", !.brace = 0, !.bracket = 0]) => Keeping
  <2> DEFINE k == [f EXCEPT !.at = "key", !.brace = 0, !.bracket = 0]
  <2>1. k = Moved(Top, "key", Top.key, m, 0, 0)
    BY <1>4, Zenon
  <2> HIDE DEF k
  <2>2. Become(k) => Keeping
    BY <2>1, MovedKeeps, Zenon
  <2> QED BY <2>2, Zenon DEF k
<1> QED BY <1>5, <1>6, Zenon

LEMMA OneofControl == ASSUME IInv, IInv', Oneof PROVE Control /\ Reads
<1>1. ControlOK /\ ControlOK' /\ ~Done /\ Top.fn = "oneof"
  BY Zenon DEF Oneof, OneofOpen, OneofKey, OneofColon, OneofSkip, OneofTag, OneofBack, In, Back, IInv
<1>2. Top.n \in Nat /\ Top.elt \in DOMAIN Variants
  BY <1>1, OneofTop
<1>3. \A t \in Input : Peek(Top.n, t) => Reads
  BY <1>2, Zenon DEF Reads
<1>4. CASE OneofOpen
  <2>1. \E t \in Input : Peek(0, t) /\ (Become(Scan("key", t)) \/ Return(0) \/ Return(-1))
    BY <1>4 DEF OneofOpen
  <2> QED BY <1>1, <2>1, ScanKeeps, ReturnReturns, PeekReads, Zenon DEF Control
<1>5. CASE OneofKey
  <2>1. \E t \in Input :
           /\ Peek(Top.n, t)
           /\ \/ Become(Scan("key", t)) \/ Return(-1)
              \/ \E key : Become([Scan("colon", t) EXCEPT !.key = key])
    BY <1>5 DEF OneofKey
  <2> QED BY <1>1, <1>3, <2>1, ScanKeeps, ReturnReturns, Zenon DEF Control
<1>6. CASE OneofColon
  <2>1. \E t \in Input : /\ Peek(Top.n, t)
                         /\ Return(-1) \/ \E at : Become(Scan(at, t))
    BY <1>6, Zenon DEF OneofColon
  <2> QED BY <1>1, <1>3, <2>1, ScanKeeps, ReturnReturns, Zenon DEF Control
<1>7. CASE OneofSkip
  <2>1. PICK t \in Input : Peek(Top.n, t) /\
         LET f == Level(Scan("skip", t), t)
         IN  Become([f EXCEPT !.at = "key", !.brace = 0, !.bracket = 0]) \/ Become(f)
    BY <1>7, Zenon DEF OneofSkip
  <2> DEFINE f == Level(Scan("skip", t), t)
  <2>2. Become([f EXCEPT !.at = "key", !.brace = 0, !.bracket = 0]) \/ Become(f)
    BY <2>1, Zenon
  <2>3. f = Level(Scan("skip", t), t)
    OBVIOUS
  <2> HIDE DEF f
  <2>4. Keeping
    BY <1>1, <2>2, <2>3, SkipKeeps, Zenon
  <2> QED BY <1>1, <1>3, <2>1, <2>4, Zenon DEF Control
<1>8. CASE OneofTag
  <2>1. PICK t \in Input :
           /\ Peek(Top.n, t)
           /\ \/ Return(-1)
              \/ /\ t \in DOMAIN Variants[Top.elt]
                 /\ Call("called", Frame("struct", Variants[Top.elt][t], Top.depth + 1))
    BY <1>8, Zenon DEF OneofTag
  <2>2. CASE Return(-1)
    BY <1>1, <1>3, <2>1, <2>2, ReturnReturns, Zenon DEF Control
  <2>3. CASE ~Return(-1)
    <3> DEFINE g == Frame("struct", Variants[Top.elt][t], Top.depth + 1)
    <3>1. t \in DOMAIN Variants[Top.elt] /\ Call("called", g)
      BY <2>1, <2>3, Zenon
    <3>2. g.fn = "struct" /\ g.elt = Variants[Top.elt][t] /\ g.depth = Top.depth + 1
      BY FrameFields
    <3> HIDE DEF g
    <3>3. \A f : f.fn = Top.fn /\ f.elt = Top.elt /\ f.depth = Top.depth => Callable(f, g)
      BY <1>1, <1>2, <3>1, <3>2, Zenon DEF Callable
    <3>4. Calling
      BY <1>1, <3>1, <3>3, Calls, Zenon
    <3> QED BY <1>1, <1>3, <2>1, <3>4, Zenon DEF Control
  <2> QED BY <2>2, <2>3
<1>9. CASE OneofBack
  BY <1>1, <1>9, ReturnReturns, NoInputReads, Zenon DEF OneofBack, Control
<1> QED BY <1>4, <1>5, <1>6, <1>7, <1>8, <1>9, Zenon DEF Oneof

LEMMA StructControl == ASSUME IInv, IInv', Struct PROVE Control /\ Reads
<1>1. ControlOK /\ ControlOK' /\ ~Done /\ Top.fn = "struct"
  BY Zenon DEF Struct, TooDeep, StructOpen, StructField, StructComma, StructColon,
       StructIgnored, StructNullable, StructScalar, StructCall, StructBack, In, Back, IInv
<1>2. NextField => Keeping
  BY <1>1, KeyKeeps, Zenon DEF NextField
<1>3. CASE TooDeep
  BY <1>1, <1>3, ReturnReturns, NoInputReads, Zenon DEF TooDeep, Control
<1>4. CASE StructOpen
  <2>1. \E t \in Input : Take(t) /\ (Goto("fields") \/ \E r : Return(r))
    <3>1. \E t \in Input : Take(t) /\ (Goto("fields") \/ Return(0) \/ Return(1) \/ Return(-1))
      BY <1>4 DEF StructOpen
    <3> QED BY <3>1, Zenon
  <2> QED BY <1>1, <2>1, GotoKeeps, ReturnReturns, TakeReads, Zenon DEF Control
<1>5. CASE StructField
  <2>1. \E t \in Input :
           /\ Take(t)
           /\ \/ Goto("comma") \/ Return(0) \/ Return(-1)
              \/ \E key : Become([Top EXCEPT !.at = "colon", !.key = key])
    BY <1>5 DEF StructField
  <2> QED BY <1>1, <2>1, GotoKeeps, KeyKeeps, ReturnReturns, TakeReads, Zenon DEF Control
<1>6. CASE StructComma
  <2>1. \E t \in Input : Peek(0, t) /\ (Return(-1) \/ Goto("fields"))
    BY <1>6, Zenon DEF StructComma
  <2> QED BY <1>1, <2>1, GotoKeeps, ReturnReturns, PeekReads, Zenon DEF Control
<1>7. CASE StructColon
  <2> DEFINE g == Frame("ignore", "any", Top.depth)
             at == IF Field.null THEN "nullable" ELSE "value"
  <2>1. \E t \in Input : Take(t) /\ (Return(-1) \/ Call("ignored", g) \/ Goto(at))
    BY <1>7, Zenon DEF StructColon
  <2>2. g.fn = "ignore" /\ g.elt = "any"
    BY FrameFields
  <2> HIDE DEF g, at
  <2>3. \A f : f.fn = Top.fn /\ f.at = "ignored" => Callable(f, g)
    BY <1>1, <2>2, Zenon DEF Callable
  <2>4. Call("ignored", g) => Calling
    BY <1>1, <2>3, Calls, Zenon
  <2> QED BY <1>1, <2>1, <2>4, GotoKeeps, ReturnReturns, TakeReads, Zenon DEF Control
<1>8. CASE StructIgnored \/ StructBack
  <2>1. NoInput /\ (NextField \/ Return(-1) \/ Return(ret[1]))
    BY <1>8, Zenon DEF StructIgnored, StructBack
  <2> QED BY <1>1, <1>2, <2>1, ReturnReturns, NoInputReads, Zenon DEF Control
<1>9. CASE StructNullable
  <2>1. \E t \in Input : (Take(t) /\ NextField) \/ (Peek(0, t) /\ Goto("value"))
    BY <1>9, Zenon DEF StructNullable
  <2> QED BY <1>1, <1>2, <2>1, GotoKeeps, TakeReads, PeekReads, Zenon DEF Control
<1>10. CASE StructScalar
  <2>1. \E t \in Input : Take(t) /\ (NextField \/ \E r : Return(r))
    BY <1>10, Zenon DEF StructScalar
  <2> QED BY <1>1, <1>2, <2>1, ReturnReturns, TakeReads, Zenon DEF Control
<1>11. CASE StructCall
  <2> DEFINE g == Callee(Field, Top)
  <2>1. /\ Top.at = "value" /\ ~(Field.k = "one" /\ Field.elt \in Scalar)
        /\ Call("called", g) /\ NoInput
    BY <1>11, Zenon DEF StructCall, In
  <2>2. Top.elt \in DOMAIN Index /\ Top.key \in DOMAIN Index[Top.elt]
    BY <1>1, <2>1, StructTop
  <2>3. Typed(Field.k, Field.elt)
    BY <2>2, FieldTyped DEF Field
  <2>4. g.elt = Field.elt /\ Hands(Field, Top, g)
    BY <2>1, <2>3, CalleeShape
  <2> HIDE DEF g
  <2>5. ASSUME NEW f, f.fn = Top.fn, f.elt = Top.elt, f.key = Top.key, f.depth = Top.depth
        PROVE  Callable(f, g)
    <3>1. Hands(Field, f, g)
      BY <2>4, <2>5, Zenon DEF Hands
    <3>2. Field = Index[f.elt][f.key]
      BY <2>5, Zenon DEF Field
    <3> QED BY <1>1, <2>2, <2>4, <2>5, <3>1, <3>2, Zenon DEF Callable
  <2>6. Calling
    BY <1>1, <2>1, <2>5, Calls, Zenon
  <2> QED BY <1>1, <2>1, <2>6, NoInputReads, Zenon DEF Control
<1> QED BY <1>3, <1>4, <1>5, <1>6, <1>7, <1>8, <1>9, <1>10, <1>11, Zenon DEF Struct

LEMMA NextControl ==
    ASSUME IInv, IInv', Next
    PROVE  Finished \/ (Control /\ Reads)
BY StructControl, ArrayControl, ScalarsControl, EnumsControl, FixedControl, MapControl,
   MapsControl, IgnoreControl, OneofControl, OneofsControl, Zenon DEF Next

-----------------------------------------------------------------------------
(***************************************************************************)
(* What holds of the calls whatever the document: which calls what, and    *)
(* how deep a call can be of a schema whose structs nest within depths.    *)
(***************************************************************************)
Linked(w) ==
    /\ w # <<>> => w[1].fn = "struct"
    /\ \A i \in 1..Len(w) - 1 : Lenient(w[i]) => w[i + 1].fn \in {"scalars", "enums"}

Extra(f) ==
    IF f.fn = "struct" THEN 0
    ELSE IF f.fn = "maps" \/ (f.fn = "fixed" /\ IsOneof(f.elt)) THEN 2 ELSE 1
Room(depths, f, e) == e \in DOMAIN depths /\ f.depth + Extra(f) <= depths[e]
Fits(depths, f) ==
    /\ IsStruct(f.elt) => Room(depths, f, f.elt)
    /\ IsOneof(f.elt) => \A v \in DOMAIN Variants[f.elt] : Room(depths, f, Variants[f.elt][v])
Fitting(depths, w) == \A i \in 1..Len(w) : Fits(depths, w[i])
Depths == UNION {[S -> 0..MaxDepth] : S \in SUBSET DOMAIN Index}

\* What a step makes of the calls.
LEMMA StepShapes ==
    ASSUME ControlOK, ControlOK', Control
    PROVE  /\ Len(stack) \in Nat \ {0} /\ Top = stack[Len(stack)]
           /\ \/ \E f : /\ Keeps(f) /\ Len(stack') = Len(stack) /\ stack'[Len(stack)] = f
                        /\ \A i \in 1..Len(stack) - 1 : stack'[i] = stack[i]
              \/ \E f, g : /\ Keeps(f) /\ g \in FrameSet /\ Callable(f, g)
                           /\ Len(stack') = Len(stack) + 1
                           /\ stack'[Len(stack)] = f /\ stack'[Len(stack) + 1] = g
                           /\ \A i \in 1..Len(stack) - 1 : stack'[i] = stack[i]
              \/ /\ Len(stack') = Len(stack) - 1
                 /\ \A i \in 1..Len(stack) - 1 : stack'[i] = stack[i]
<1>1. ~Done /\ (Keeping \/ Calling \/ Returning)
  BY Zenon DEF Control
<1>2. /\ Len(stack) \in Nat \ {0} /\ Top = stack[Len(stack)]
      /\ Below \in Seq(FrameSet) /\ Len(Below) = Len(stack) - 1
      /\ \A i \in 1..Len(Below) : Below[i] = stack[i]
  BY <1>1, TopFacts
<1> DEFINE n == Len(stack)
           v == Below
<1>3. n \in Nat \ {0} /\ v \in Seq(FrameSet) /\ Len(v) = n - 1 /\ \A i \in 1..n - 1 : v[i] = stack[i]
  BY <1>2
<1> HIDE DEF n, v
<1>4. CASE Keeping
  <2>1. PICK f : Keeps(f) /\ stack' = Append(v, f)
    BY <1>4, Zenon DEF Keeping, Become, v
  <2>2. f \in FrameSet
    BY <2>1, Zenon DEF Keeps
  <2>3. Len(stack') = n /\ stack'[n] = f /\ \A i \in 1..n - 1 : stack'[i] = stack[i]
    BY <1>3, <2>1, <2>2
  <2> QED BY <1>2, <2>1, <2>3, Zenon DEF n
<1>5. CASE Calling
  <2>1. PICK f, g : /\ Keeps(f) /\ g \in FrameSet /\ Callable(f, g)
                    /\ stack' = Append(Append(v, f), g)
    BY <1>5, Zenon DEF Calling, v
  <2>2. f \in FrameSet
    BY <2>1, Zenon DEF Keeps
  <2>3. /\ Len(stack') = n + 1 /\ stack'[n] = f /\ stack'[n + 1] = g
        /\ \A i \in 1..n - 1 : stack'[i] = stack[i]
    BY <1>3, <2>1, <2>2
  <2> QED BY <1>2, <2>1, <2>3, Zenon DEF n
<1>6. CASE Returning
  <2>1. stack' = v
    BY <1>6, Zenon DEF Returning, Return, v
  <2>2. Len(stack') = n - 1 /\ \A i \in 1..n - 1 : stack'[i] = stack[i]
    BY <1>3, <2>1
  <2> QED BY <1>2, <2>2, Zenon DEF n
<1> QED BY <1>1, <1>4, <1>5, <1>6

LEMMA LenientCalls ==
    ASSUME NEW f, NEW g, Callable(f, g), Lenient(f)
    PROVE  g.fn \in {"scalars", "enums"}
<1> DEFINE c == Index[f.elt][f.key]
<1>1. f.fn = "struct" /\ f.at = "called" /\ c.k = "array" /\ c.elt \in Scalar
  BY Zenon DEF Lenient
<1>2. Hands(c, f, g)
  BY <1>1 DEF Callable
<1>3. ~IsStruct(c.elt) /\ ~IsOneof(c.elt)
  BY <1>1, IndexFacts DEF IsStruct, IsOneof
<1> HIDE DEF c
<1> QED BY <1>1, <1>2, <1>3 DEF Hands

\* A step keeps every call where it can be called from.
LEMMA LinkedNext ==
    ASSUME ControlOK, ControlOK', Control, Linked(stack)
    PROVE  Linked(stack')
<1> DEFINE n == Len(stack)
<1>1. n \in Nat \ {0} /\ Top = stack[n]
  BY StepShapes
<1>2. /\ stack # <<>> /\ stack[1].fn = "struct"
      /\ \A i \in 1..n - 1 : Lenient(stack[i]) => stack[i + 1].fn \in {"scalars", "enums"}
  BY <1>1 DEF Linked
<1>a. stack' \in Seq(FrameSet)
  BY DEF ControlOK
<1>3. ASSUME NEW f, Keeps(f), Len(stack') = n, stack'[n] = f,
             \A i \in 1..n - 1 : stack'[i] = stack[i]
      PROVE  Linked(stack')
  <2>1. f.fn = stack[n].fn
    BY <1>1, <1>3 DEF Keeps
  <2>2. \A i \in 1..n : stack'[i].fn = stack[i].fn
    BY <1>1, <1>3, <2>1
  <2>3. stack'[1].fn = "struct"
    BY <1>1, <1>2, <2>2
  <2>4. \A i \in 1..n - 1 : Lenient(stack'[i]) => stack'[i + 1].fn \in {"scalars", "enums"}
    <3> TAKE i \in 1..n - 1
    <3>1. i + 1 \in 1..n
      BY <1>1
    <3> QED BY <1>2, <1>3, <2>2, <3>1
  <2> QED BY <1>3, <2>3, <2>4 DEF Linked
<1>4. ASSUME NEW f, NEW g, Keeps(f), Callable(f, g), Len(stack') = n + 1, stack'[n] = f,
             stack'[n + 1] = g, \A i \in 1..n - 1 : stack'[i] = stack[i]
      PROVE  Linked(stack')
  <2>1. f.fn = stack[n].fn
    BY <1>1, <1>4 DEF Keeps
  <2>2. \A i \in 1..n : stack'[i].fn = stack[i].fn
    BY <1>1, <1>4, <2>1
  <2>3. stack'[1].fn = "struct"
    BY <1>1, <1>2, <2>2
  <2>4. \A i \in 1..n : Lenient(stack'[i]) => stack'[i + 1].fn \in {"scalars", "enums"}
    <3> SUFFICES ASSUME NEW i \in 1..n, Lenient(stack'[i])
                 PROVE  stack'[i + 1].fn \in {"scalars", "enums"}
      OBVIOUS
    <3>1. CASE i = n
      BY <1>4, <3>1, LenientCalls
    <3>2. CASE i # n
      <4>1. i \in 1..n - 1 /\ i + 1 \in 1..n
        BY <1>1, <3>2
      <4> QED BY <1>2, <1>4, <2>2, <4>1
    <3> QED BY <3>1, <3>2
  <2>5. Len(stack') - 1 = n
    BY <1>1, <1>4
  <2> QED BY <2>3, <2>4, <2>5 DEF Linked
<1>5. ASSUME Len(stack') = n - 1, \A i \in 1..n - 1 : stack'[i] = stack[i]
      PROVE  Linked(stack')
  <2>1. \A i \in 1..(n - 1) - 1 : Lenient(stack'[i]) => stack'[i + 1].fn \in {"scalars", "enums"}
    <3> TAKE i \in 1..(n - 1) - 1
    <3>1. i \in 1..n - 1 /\ i + 1 \in 1..n - 1
      BY <1>1
    <3> QED BY <1>2, <1>5, <3>1
  <2>2. stack' # <<>> => stack'[1].fn = "struct"
    <3>1. stack' # <<>> => 1 \in 1..n - 1
      BY <1>1, <1>5, <1>a
    <3> QED BY <1>2, <1>5, <3>1
  <2> QED BY <1>5, <2>1, <2>2 DEF Linked
<1> QED BY StepShapes, <1>3, <1>4, <1>5, Zenon DEF n

\* The caller of a call that is no loop over scalars notes what it returns.
LEMMA LinkedBelow ==
    ASSUME ControlOK, ~Done, Linked(stack), Top.fn \notin {"scalars", "enums"}
    PROVE  Below # <<>> => ~Lenient(Below[Len(Below)])
<1> DEFINE n == Len(stack)
<1>1. /\ n \in Nat \ {0} /\ Top = stack[n] /\ Below \in Seq(FrameSet) /\ Len(Below) = n - 1
      /\ \A i \in 1..n - 1 : Below[i] = stack[i]
  BY TopFacts
<1> SUFFICES ASSUME Below # <<>>, Lenient(Below[Len(Below)])
             PROVE  FALSE
  OBVIOUS
<1>2. n - 1 \in 1..n - 1
  BY <1>1
<1>3. Lenient(stack[n - 1])
  BY <1>1, <1>2
<1>4. stack[(n - 1) + 1].fn \in {"scalars", "enums"}
  BY <1>2, <1>3 DEF Linked
<1>5. (n - 1) + 1 = n
  BY <1>1
<1> QED BY <1>1, <1>4, <1>5

LEMMA FitsCall ==
    ASSUME NEW depths \in Depths, NestsWithin(depths), NEW f \in FrameSet, NEW g \in FrameSet,
           Fits(depths, f), Callable(f, g), FrameOK(g)
    PROVE  Fits(depths, g)
<1>1. f.depth \in Nat /\ g.depth \in Nat
  BY DEF FrameSet
<1>2. \A e \in DOMAIN depths : depths[e] \in Nat /\ e \in DOMAIN Index
  BY BoundsOK DEF Depths
<1>3. \A e : IsStruct(e) => ~IsOneof(e) /\ e \notin Scalar
  BY IndexFacts DEF IsStruct, IsOneof
<1>4. \A e : IsOneof(e) => e \notin Scalar
  BY IndexFacts DEF IsOneof
<1>5. Extra(f) \in Nat /\ Extra(g) \in Nat
  BY DEF Extra
<1>6. g.fn = "struct" => IsStruct(g.elt)
  BY DEF FrameOK, Handles, IsStruct
<1>7. g.fn = "oneof" => IsOneof(g.elt)
  BY DEF FrameOK, Handles, IsOneof
<1>8. ASSUME g.elt = f.elt, g.depth + Extra(g) <= f.depth + Extra(f)
      PROVE  Fits(depths, g)
  <2>1. ASSUME NEW e, Room(depths, f, e)
        PROVE  Room(depths, g, e)
    <3>1. e \in DOMAIN depths /\ depths[e] \in Nat /\ f.depth + Extra(f) <= depths[e]
      BY <1>2, <2>1 DEF Room
    <3> HIDE DEF Extra
    <3> QED BY <1>1, <1>5, <1>8, <3>1 DEF Room
  <2> QED BY <1>8, <2>1, Zenon DEF Fits
<1>9. CASE f.fn \in {"array", "fixed", "map", "maps", "oneofs"}
  <2>1. /\ g.elt = f.elt /\ g.fn \in {"struct", "oneof", "map"}
        /\ \/ f.fn = "array" /\ g.fn = "struct" /\ g.depth = f.depth + 1
           \/ f.fn = "fixed" /\ g.fn \in {"struct", "oneof"} /\ g.depth = f.depth + 1
           \/ f.fn = "map" /\ g.fn = "struct" /\ g.depth = f.depth + 1
           \/ f.fn = "maps" /\ g.fn = "map" /\ g.depth = f.depth + 1
           \/ f.fn = "oneofs" /\ g.fn = "oneof" /\ g.depth = f.depth
    BY <1>9 DEF Callable
  <2>2. g.depth + Extra(g) <= f.depth + Extra(f)
    BY <1>1, <1>6, <1>7, <2>1 DEF Extra
  <2> QED BY <1>8, <2>1, <2>2
<1>10. ASSUME f.fn = "oneof"
       PROVE  Fits(depths, g)
  <2>1. f.elt \in DOMAIN Variants /\ g.fn = "struct" /\ g.depth = f.depth + 1
        /\ \E v \in DOMAIN Variants[f.elt] : g.elt = Variants[f.elt][v]
    BY <1>10 DEF Callable
  <2>2. PICK v \in DOMAIN Variants[f.elt] : g.elt = Variants[f.elt][v]
    BY <2>1
  <2>3. Room(depths, f, g.elt)
    BY <2>1, <2>2 DEF Fits, IsOneof
  <2>4. Extra(f) = 1 /\ Extra(g) = 0
    BY <1>10, <2>1 DEF Extra
  <2>5. Room(depths, g, g.elt)
    BY <1>1, <2>1, <2>3, <2>4 DEF Room
  <2>6. ~IsOneof(g.elt)
    BY <1>3, <1>6, <2>1
  <2> QED BY <2>5, <2>6, Zenon DEF Fits
<1>11. CASE f.fn = "struct" /\ f.at = "ignored" /\ g.fn = "ignore" /\ g.elt = "any"
  BY <1>11, DocumentFacts DEF Fits, IsStruct, IsOneof
<1>12. ASSUME f.fn = "struct", f.elt \in DOMAIN Index, f.key \in DOMAIN Index[f.elt],
              g.elt = Index[f.elt][f.key].elt, Hands(Index[f.elt][f.key], f, g)
       PROVE  Fits(depths, g)
  <2> DEFINE c == Index[f.elt][f.key]
             e == g.elt
             more == IF c.k \in {"map", "maps"} \/ IsOneof(e) THEN 2 ELSE 1
             below == depths[f.elt] + more
  <2>1. f.elt \in DOMAIN depths /\ f.depth <= depths[f.elt]
    <3>1. Room(depths, f, f.elt)
      BY <1>12 DEF Fits, IsStruct
    <3>2. Extra(f) = 0
      BY <1>12 DEF Extra
    <3> QED BY <1>1, <3>1, <3>2 DEF Room
  <2>2. /\ IsStruct(e) => e \in DOMAIN depths /\ below <= depths[e]
        /\ IsOneof(e) => \A v \in DOMAIN Variants[e] :
             Variants[e][v] \in DOMAIN depths /\ below <= depths[Variants[e][v]]
    BY <1>12, <2>1 DEF NestsWithin
  <2>3. Hands(c, f, g)
    BY <1>12
  <2> HIDE DEF c
  <2>4. IsStruct(e) \/ IsOneof(e) => g.depth + Extra(g) <= f.depth + more
    <3>1. \/ c.k = "one" /\ IsStruct(c.elt) /\ g.fn = "struct" /\ g.depth = f.depth + 1
          \/ c.k = "one" /\ IsOneof(c.elt) /\ g.fn = "oneof" /\ g.depth = f.depth + 1
          \/ c.k = "map" /\ g.fn = "map" /\ g.depth = f.depth + 1
          \/ c.k = "maps" /\ g.fn = "maps" /\ g.depth = f.depth
          \/ c.k = "fixed" /\ g.fn = "fixed" /\ g.depth = f.depth
          \/ c.k = "array" /\ IsStruct(c.elt) /\ g.fn = "array" /\ g.depth = f.depth
          \/ c.k = "array" /\ IsOneof(c.elt) /\ g.fn = "oneofs" /\ g.depth = f.depth + 1
          \/ c.k = "array" /\ c.elt \in Scalar
      BY <2>3 DEF Hands
    <3>2. e = c.elt
      BY <1>12 DEF c
    <3> HIDE DEF e
    <3> QED BY <1>1, <1>3, <1>4, <3>1, <3>2 DEF Extra, e
  <2>5. depths[f.elt] \in Nat /\ more \in Nat
    BY <1>2, <2>1
  <2> HIDE DEF more, e
  <2>6. ASSUME NEW s \in DOMAIN depths, below <= depths[s], IsStruct(e) \/ IsOneof(e)
        PROVE  Room(depths, g, s)
    <3>1. g.depth + Extra(g) <= f.depth + more
      BY <2>4, <2>6
    <3>2. depths[s] \in Nat
      BY <1>2, <2>6
    <3> HIDE DEF Extra
    <3> QED BY <1>1, <1>5, <2>1, <2>5, <2>6, <3>1, <3>2 DEF Room
  <2>7. g.elt = e
    BY DEF e
  <2> HIDE DEF below
  <2> QED BY <2>2, <2>6, <2>7, Zenon DEF Fits
<1> QED BY <1>9, <1>10, <1>11, <1>12 DEF Callable

\* A step keeps every call within the depths its schema nests.
LEMMA FittingNext ==
    ASSUME ControlOK, ControlOK', Control, NEW depths \in Depths, NestsWithin(depths),
           Fitting(depths, stack)
    PROVE  Fitting(depths, stack')
<1> DEFINE n == Len(stack)
<1>1. n \in Nat \ {0} /\ Top = stack[n]
  BY StepShapes
<1>2. \A i \in 1..n : Fits(depths, stack[i])
  BY DEF Fitting
<1>3. ASSUME NEW f, Keeps(f) PROVE f \in FrameSet /\ Fits(depths, f)
  <2>1. f \in FrameSet /\ f.fn = Top.fn /\ f.elt = Top.elt /\ f.depth = Top.depth
    BY <1>3, Zenon DEF Keeps
  <2>2. Fits(depths, Top)
    BY <1>1, <1>2
  <2> QED BY <2>1, <2>2, Zenon DEF Fits, Room, Extra
<1>4. ASSUME NEW f, Keeps(f), Len(stack') = n, stack'[n] = f,
             \A i \in 1..n - 1 : stack'[i] = stack[i]
      PROVE  Fitting(depths, stack')
  <2>1. Fits(depths, f)
    BY <1>3, <1>4
  <2>2. \A i \in 1..n : i = n \/ i \in 1..n - 1
    BY <1>1
  <2> QED BY <1>2, <1>4, <2>1, <2>2 DEF Fitting
<1>5. ASSUME NEW f, NEW g, Keeps(f), g \in FrameSet, Callable(f, g), Len(stack') = n + 1,
             stack'[n] = f, stack'[n + 1] = g, \A i \in 1..n - 1 : stack'[i] = stack[i]
      PROVE  Fitting(depths, stack')
  <2>1. f \in FrameSet /\ Fits(depths, f)
    BY <1>3, <1>5
  <2>2. FrameOK(g)
    <3>1. n + 1 \in 1..Len(stack')
      BY <1>1, <1>5
    <3> QED BY <1>5, <3>1 DEF ControlOK, Stands
  <2>3. Fits(depths, g)
    BY <1>5, <2>1, <2>2, FitsCall
  <2>4. \A i \in 1..n + 1 : i = n + 1 \/ i = n \/ i \in 1..n - 1
    BY <1>1
  <2> QED BY <1>2, <1>5, <2>1, <2>3, <2>4 DEF Fitting
<1>6. ASSUME Len(stack') = n - 1, \A i \in 1..n - 1 : stack'[i] = stack[i]
      PROVE  Fitting(depths, stack')
  BY <1>1, <1>2, <1>6 DEF Fitting
<1> QED BY StepShapes, <1>4, <1>5, <1>6, Zenon DEF n

\* Within those depths no struct is too deep for the parser.
LEMMA NotTooDeep ==
    ASSUME ControlOK, NEW depths \in Depths, Fitting(depths, stack)
    PROVE  ~TooDeep
<1> SUFFICES ASSUME TooDeep PROVE FALSE
  OBVIOUS
<1>1. ~Done /\ Top.fn = "struct" /\ Top.depth > MaxDepth
  BY Zenon DEF TooDeep, In
<1>2. Len(stack) \in Nat \ {0} /\ Top = stack[Len(stack)] /\ Top.depth \in Nat
  BY <1>1, TopFacts
<1>3. IsStruct(Top.elt)
  BY <1>1, StructTop DEF IsStruct
<1>4. Fits(depths, Top)
  BY <1>2 DEF Fitting
<1>5. Room(depths, Top, Top.elt)
  BY <1>3, <1>4 DEF Fits
<1>6. Extra(Top) = 0
  BY <1>1 DEF Extra
<1>7. Top.elt \in DOMAIN depths /\ Top.depth + 0 <= depths[Top.elt]
  BY <1>5, <1>6 DEF Room
<1>8. depths[Top.elt] \in 0..MaxDepth
  BY <1>7 DEF Depths
<1> QED BY <1>1, <1>2, <1>7, <1>8, BoundsOK

-----------------------------------------------------------------------------
(***************************************************************************)
(* One step, from whatever phase the parse is in.                          *)
(***************************************************************************)
LEMMA AppendSome ==
    ASSUME NEW S, NEW v \in Seq(S), NEW f
    PROVE  Append(v, f) # <<>>
<1> DEFINE T == S \cup {f}
<1>1. v \in Seq(T) /\ f \in T
  OBVIOUS
<1> HIDE DEF T
<1>2. Len(Append(v, f)) = Len(v) + 1 /\ Len(v) \in Nat
  BY <1>1
<1> QED BY <1>2

\* Where control can end: the step returns from the one call there is.
LEMMA LastReturns ==
    ASSUME ControlOK, ControlOK', Control, Linked(stack), Done'
    PROVE  Top.fn = "struct" /\ ~InArray /\ (\A f : ~Become(f)) /\ (\A at, g : ~Call(at, g))
<1>1. Len(stack) \in Nat \ {0} /\ Top = stack[Len(stack)] /\ stack' = <<>> /\ Len(stack') = 0
  BY StepShapes DEF Done
<1>2. Len(stack) = 1
  BY <1>1, StepShapes
<1>3. Top.fn = "struct"
  BY <1>1, <1>2 DEF Linked
<1>4. ~InArray
  BY <1>2 DEF InArray
<1>a. Below \in Seq(FrameSet)
  BY TopFacts DEF Control
<1>5. ASSUME NEW f, Become(f) PROVE FALSE
  <2>1. stack' = Append(Below, f)
    BY <1>5 DEF Become
  <2>2. Append(Below, f) # <<>>
    BY <1>a, AppendSome
  <2> QED BY <1>1, <2>1, <2>2
<1>6. ASSUME NEW at, NEW g, Call(at, g) PROVE FALSE
  <2> DEFINE f == [Top EXCEPT !.at = at]
             v == Append(Below, f)
  <2>1. stack' = Append(v, g)
    BY <1>6 DEF Call
  <2> HIDE DEF f
  <2>2. Append(v, g) # <<>>
    BY <1>a
  <2> QED BY <1>1, <2>1, <2>2
<1> QED BY <1>3, <1>4, <1>5, <1>6

LEMMA ReturnsCode == ASSUME NEW r, Return(r), r # 0 PROVE ret' # << 0 >>
BY DEF Return

\* The parser says 0 only where it has consumed a brace, or has been told so.
LEMMA Honest ==
    ASSUME IInv, IInv', Next, ~Done, ~StructField, Linked(stack)
    PROVE  Done' => ret' # << 0 >>
<1> SUFFICES ASSUME Done' PROVE ret' # << 0 >>
  OBVIOUS
<1>1. Control
  BY NextControl, Zenon DEF Finished
<1>2. /\ Top.fn = "struct" /\ ~InArray
      /\ (\A f : ~Become(f)) /\ (\A at, g : ~Call(at, g)) /\ (\A at : ~Goto(at)) /\ ~NextField
  BY <1>1, LastReturns, Zenon DEF IInv, Goto, NextField
<1>3. Struct
  <2>1. /\ ~Array /\ ~Scalars /\ ~Enums /\ ~Fixed
    BY <1>2 DEF Array, Open, First, ArrayElement, ArrayBack, Separator, In, Back, Scalars,
         ScalarsOpen, ScalarsElement, Enums, EnumsOpen, EnumsElement, Fixed, FixedElement, FixedBack
  <2>2. ~MapObject /\ ~Maps
    BY <1>2, Zenon DEF MapObject, MapOpen, MapKey, MapColon, MapScalar, MapStruct, MapBack, In, Back,
         Maps, MapsOpen, First, MapsElement, MapsBack, MapsSeparator
  <2>3. ~Ignore /\ ~Oneof /\ ~Oneofs
    BY <1>2, Zenon DEF Ignore, Oneof, OneofOpen, OneofKey, OneofColon, OneofSkip, OneofTag, OneofBack,
         In, Back, Oneofs, OneofsOpen, First, OneofsElement, OneofsBack, OneofsSeparator
  <2> QED BY <2>1, <2>2, <2>3, Zenon DEF Next, Finished
<1>4. \A r : Return(r) /\ r # 0 => ret' # << 0 >>
  BY ReturnsCode
<1>5. CASE TooDeep
  BY <1>4, <1>5, -1 # 0 DEF TooDeep
<1>6. CASE StructOpen
  <2>1. Return(-1) \/ Goto("fields") \/ InArray
    BY <1>6 DEF StructOpen
  <2> QED BY <1>2, <1>4, <2>1, -1 # 0, Zenon
<1>7. CASE StructComma \/ StructColon
  <2>1. Return(-1)
    BY <1>2, <1>7, Zenon DEF StructComma, StructColon
  <2> QED BY <1>4, <2>1, -1 # 0, Zenon
<1>8. CASE StructIgnored
  <2>1. Return(-1)
    BY <1>2, <1>8, Zenon DEF StructIgnored
  <2> QED BY <1>4, <2>1, -1 # 0, Zenon
<1>9. CASE StructNullable \/ StructCall
  BY <1>2, <1>9, Zenon DEF StructNullable, StructCall
<1>10. CASE StructScalar
  <2>1. \E r : Return(r) /\ r # 0
    BY <1>2, <1>10, Zenon DEF StructScalar
  <2> QED BY <1>4, <2>1, Zenon
<1>11. CASE StructBack
  <2>1. Return(ret[1]) /\ Fails(Field, ret[1])
    BY <1>2, <1>11, Zenon DEF StructBack
  <2>2. ret[1] # 0
    BY <2>1 DEF Fails
  <2> QED BY <1>4, <2>1, <2>2, Zenon
<1> QED BY <1>3, <1>5, <1>6, <1>7, <1>8, <1>9, <1>10, <1>11, Zenon DEF Struct

\* Behind its end a document has nothing more to give.
LEMMA CutLex ==
    ASSUME NEW end, goal = <<Cut, end>>, NEW t, Lex(t)
    PROVE  t = "eof" /\ goal' = <<Cut, end>> /\ ahead' = ahead
<1> DEFINE c == Cut
<1>1. \A u : Expand(c, u) = {}
  BY DEF Expand, Cut, Sym
<1> HIDE DEF c
<1>2. Head(goal) = c /\ Len(goal) = 2 /\ goal[2] = end
  BY DEF c
<1>3. ~Produce(t)
  BY <1>1, <1>2, Zenon DEF Produce
<1>4. t = "eof"
  BY <1>3, Zenon DEF Lex
<1>5. goal' = CutShort(goal) /\ ahead' = ahead
  BY <1>4, Zenon DEF Lex
<1>6. CutShort(goal) = <<Cut, end>>
  BY <1>2 DEF CutShort
<1> QED BY <1>4, <1>5, <1>6

LEMMA CutReads ==
    ASSUME NEW end, goal = <<Cut, end>>, ahead = <<>>
    PROVE  /\ \A t : Take(t) => t = "eof" /\ CutNow(end)
           /\ Reads => CutNow(end)
<1>1. ASSUME NEW t, Take(t) PROVE t = "eof" /\ CutNow(end)
  <2>1. Lex(t) \/ Produce(t)
    BY <1>1, Zenon DEF Take
  <2>2. ~Produce(t)
    <3> DEFINE c == Cut
    <3>1. \A u : Expand(c, u) = {}
      BY DEF Expand, Cut, Sym
    <3> HIDE DEF c
    <3>2. Head(goal) = c
      BY DEF c
    <3> QED BY <3>1, <3>2, Zenon DEF Produce
  <2>3. t = "eof" /\ goal' = <<Cut, end>> /\ ahead' = ahead
    BY <2>1, <2>2, CutLex, Zenon
  <2> QED BY <2>3 DEF CutNow
<1>2. ASSUME NEW t, NEW n \in Nat, Peek(n, t) PROVE CutNow(end)
  <2>1. Lex(t)
    BY <1>2 DEF Peek
  <2>2. t = "eof" /\ goal' = <<Cut, end>> /\ ahead' = ahead
    BY <2>1, CutLex, Zenon
  <2> QED BY <2>2 DEF CutNow
<1>3. ASSUME NoInput PROVE CutNow(end)
  BY <1>3 DEF NoInput, CutNow
<1> QED BY <1>1, <1>2, <1>3, Zenon DEF Reads

LEMMA CutOffNext ==
    ASSUME IInv, IInv', Next, ~Done, Linked(stack), NEW end, CutOff(stack, ret, ahead, goal, end)
    PROVE  CutOff(stack', ret', ahead', goal', end)
<1>1. goal = <<Cut, end>> /\ ahead = <<>>
  BY Zenon DEF CutOff
<1>2. CutNow(end)
  BY <1>1, CutReads, NextControl, Zenon DEF Finished
<1>3. Done' => ret' # << 0 >>
  <2>1. CASE ~StructField
    BY <2>1, Honest
  <2>2. CASE StructField
    <3>1. PICK t \in Input : Take(t) /\
             CASE t = "}" -> Return(0)
               [] t = "," -> Goto("comma")
               [] IsString(t) ->
                    Become([Top EXCEPT !.at = "colon",
                            !.key = IF t \in DOMAIN Index[Top.elt] THEN t ELSE NoKey])
               [] OTHER -> Return(-1)
      BY <2>2, Zenon DEF StructField
    <3>a. t = "eof" => Return(-1)
      BY <3>1, Zenon DEF IsString, Punct
    <3>2. Return(-1)
      BY <1>1, <3>1, <3>a, CutReads, Zenon
    <3> QED BY <3>2, ReturnsCode
  <2> QED BY <2>1, <2>2
<1> QED BY <1>2, <1>3, Zenon DEF CutOff, CutNow, Done

\* An error is handed on by every call to the one below, down to the last.
LEMMA FailingNext ==
    ASSUME IInv, Next, ~Done, Linked(stack), NEW end, Failing(stack, ret, ahead, goal, end)
    PROVE  Failing(stack', ret', ahead', goal', end)
<1>1. ret = <<-1>> /\ ~Lenient(Top) /\ Refused(ahead, goal, end)
  <2>1. ret = <<-1>> /\ (stack # <<>> => ~Lenient(stack[Len(stack)])) /\ Refused(ahead, goal, end)
    BY Zenon DEF Failing
  <2> QED BY <2>1, Zenon DEF Done, Top
<1>2. ret # <<>> /\ ret[1] = -1 /\ ret[1] # 0 /\ ret[1] < 0 /\ ~(ret[1] = 1)
  BY <1>1
<1>3. \A fn, at : ~In(fn, at)
  BY <1>2, Zenon DEF In
<1>a. ASSUME NoInput, Return(-1), Top.fn \notin {"scalars", "enums"}
      PROVE  Failing(stack', ret', ahead', goal', end)
  <2>1. Below # <<>> => ~Lenient(Below[Len(Below)])
    BY <1>a, LinkedBelow DEF IInv
  <2>2. stack' = Below /\ ret' = <<-1>>
    BY <1>a, Zenon DEF Return
  <2>3. stack' # <<>> => ~Lenient(stack'[Len(stack')])
    BY <2>1, <2>2, Zenon
  <2>4. Refused(ahead', goal', end)
    BY <1>1, <1>a DEF NoInput, Refused
  <2> QED BY <2>2, <2>3, <2>4, Zenon DEF Failing
<1>b. Return(ret[1]) => Return(-1)
  BY <1>2
<1>4. CASE Struct
  <2>1. StructIgnored \/ StructBack
    BY <1>3, <1>4, Zenon DEF Struct, TooDeep, StructOpen, StructField, StructComma, StructColon,
       StructNullable, StructScalar, StructCall
  <2>2. CASE StructIgnored
    <3>1. NoInput /\ Return(-1) /\ Top.fn = "struct"
      BY <1>2, <2>2, Zenon DEF StructIgnored, Back
    <3> QED BY <1>a, <3>1
  <2>3. CASE StructBack
    <3>1. /\ NoInput /\ Top.fn = "struct" /\ Top.at = "called"
          /\ IF Fails(Field, ret[1]) THEN Return(ret[1]) ELSE NextField
      BY <2>3, Zenon DEF StructBack, Back
    <3>2. ~(Field.k = "array" /\ Field.elt \in Scalar)
      BY <1>1, <3>1, Zenon DEF Lenient, Field
    <3>3. Fails(Field, ret[1])
      BY <1>2, <3>2 DEF Fails
    <3> QED BY <1>a, <1>b, <3>1, <3>3
  <2> QED BY <2>1, <2>2, <2>3
<1>5. CASE Array
  <2>1. ArrayBack
    BY <1>3, <1>5, Zenon DEF Array, Open, First, ArrayElement, Separator
  <2>2. NoInput /\ Top.fn = "array"
    BY <2>1, Zenon DEF ArrayBack, Back
  <2>3. Return(ret[1])
    BY <1>2, <2>1 DEF ArrayBack
  <2> QED BY <1>a, <1>b, <2>2, <2>3
<1>6. CASE Scalars \/ Enums \/ Ignore
  BY <1>3, <1>6, Zenon DEF Scalars, ScalarsOpen, ScalarsElement, Separator, Enums, EnumsOpen,
     EnumsElement, Ignore
<1>7. CASE Fixed
  <2>1. FixedBack
    BY <1>3, <1>7, Zenon DEF Fixed, Open, First, FixedElement, Separator
  <2>2. NoInput /\ Top.fn = "fixed" /\ AfterElement(ret[1])
    BY <2>1, Zenon DEF FixedBack, Back
  <2>3. Return(ret[1])
    <3>1. Code("]") # -1
      BY DEF Code, LexError
    <3> QED BY <1>2, <2>2, <3>1 DEF AfterElement
  <2> QED BY <1>a, <1>b, <2>2, <2>3
<1>8. CASE MapObject
  <2>1. MapBack
    BY <1>3, <1>8, Zenon DEF MapObject, MapOpen, MapKey, MapColon, MapScalar, MapStruct
  <2>2. NoInput /\ Top.fn = "map" /\ Return(ret[1])
    BY <1>2, <2>1, Zenon DEF MapBack, Back
  <2> QED BY <1>a, <1>b, <2>2
<1>9. CASE Maps
  <2>1. MapsBack
    BY <1>3, <1>9, Zenon DEF Maps, MapsOpen, First, MapsElement, MapsSeparator
  <2>2. NoInput /\ Top.fn = "maps" /\ Return(ret[1])
    BY <1>2, <2>1, Zenon DEF MapsBack, Back
  <2> QED BY <1>a, <1>b, <2>2
<1>10. CASE Oneof
  <2>1. OneofBack
    BY <1>3, <1>10, Zenon DEF Oneof, OneofOpen, OneofKey, OneofColon, OneofSkip, OneofTag
  <2>2. NoInput /\ Top.fn = "oneof" /\ Return(-1)
    BY <1>2, <2>1, Zenon DEF OneofBack, Back
  <2> QED BY <1>a, <2>2
<1>11. CASE Oneofs
  <2>1. OneofsBack
    BY <1>3, <1>11, Zenon DEF Oneofs, OneofsOpen, First, OneofsElement, OneofsSeparator
  <2>2. NoInput /\ Top.fn = "oneofs" /\ Return(-1)
    BY <1>2, <2>1, Zenon DEF OneofsBack, Back
  <2> QED BY <1>a, <2>2
<1> QED BY <1>4, <1>5, <1>6, <1>7, <1>8, <1>9, <1>10, <1>11, Zenon DEF Next, Finished

\* A scan that has met the end of the document gives up at its next look.
LEMMA LaggingNext ==
    ASSUME IInv, Next, ~Done, Linked(stack), NEW end, Lagging(stack, ret, ahead, goal, end)
    PROVE  Tracks(stack', ret', ahead', goal', end)
<1>1. PICK v, f : /\ Stacked(stack, v, f) /\ f.fn = "oneof" /\ f.at = "key" /\ f.n >= Len(ahead)
                  /\ ret = <<>> /\ goal = <<Cut, end>>
  BY Zenon DEF Lagging
<1>2. f = Top
  BY <1>1, Unstack, StackedOnce DEF IInv
<1>3. Top.fn = "oneof" /\ Top.at = "key" /\ Top.n >= Len(ahead) /\ ret = <<>> /\ goal = <<Cut, end>>
  BY <1>1, <1>2
<1>4. Oneof
  <2>1. ~Struct
    BY <1>3 DEF Struct, TooDeep, StructOpen, StructField, StructComma, StructColon, StructIgnored,
       StructNullable, StructScalar, StructCall, StructBack, In, Back
  <2>2. ~Array /\ ~Scalars /\ ~Enums /\ ~Fixed
    BY <1>3, Zenon DEF Array, Open, First, ArrayElement, ArrayBack, Separator, In, Back, Scalars,
         ScalarsOpen, ScalarsElement, Enums, EnumsOpen, EnumsElement, Fixed, FixedElement, FixedBack
  <2>3. ~MapObject /\ ~Maps
    BY <1>3, Zenon DEF MapObject, MapOpen, MapKey, MapColon, MapScalar, MapStruct, MapBack, In, Back,
         Maps, MapsOpen, First, MapsElement, MapsBack, MapsSeparator
  <2>4. ~Ignore /\ ~Oneofs
    BY <1>3, Zenon DEF Ignore, In, Back, Oneofs, OneofsOpen, First, OneofsElement, OneofsBack,
         OneofsSeparator
  <2> QED BY <2>1, <2>2, <2>3, <2>4, Zenon DEF Next, Finished
<1>5. OneofKey
  <2>1. Top.at = "key" /\ ret = <<>>
    BY <1>3
  <2> QED BY <1>4, <2>1, Zenon DEF Oneof, OneofOpen, OneofColon, OneofSkip, OneofTag, OneofBack, In, Back
<1>6. PICK t \in Input : Peek(Top.n, t) /\
         CASE t = "," -> Become(Scan("key", t))
           [] IsString(t) ->
                Become([Scan("colon", t) EXCEPT !.key = IF t = TagKey THEN t ELSE NoKey])
           [] OTHER -> Return(-1)
  BY <1>5, Zenon DEF OneofKey
<1>7. t = "eof" => Return(-1)
  BY <1>6, Zenon DEF IsString, Punct
<1>8. Lex(t)
  <2>1. Top.n \in Nat /\ Len(ahead) \in Nat /\ Peek(Top.n, t) /\ Top.n >= Len(ahead)
    <3>1. Peek(Top.n, t)
      BY <1>6, Zenon
    <3>2. Top.n \in Nat
      BY TopFacts DEF IInv
    <3> QED BY <1>3, <3>1, <3>2 DEF IInv, InputOK
  <2>2. ~(Top.n < Len(ahead))
    BY <2>1
  <2> QED BY <2>1, <2>2, Zenon DEF Peek
<1>9. t = "eof" /\ goal' = <<Cut, end>>
  BY <1>3, <1>8, CutLex
<1>10. Below # <<>> => ~Lenient(Below[Len(Below)])
  BY <1>3, LinkedBelow DEF IInv
<1> QED BY <1>7, <1>9, <1>10, FailIn

LEMMA SyncNext ==
    ASSUME IInv, IInv', Next, ~Done, Linked(stack), NEW end, TooDeep => end[2] = "deep",
           InSync(stack, ret, ahead, goal, end)
    PROVE  Tracks(stack', ret', ahead', goal', end)
<1>1. CASE StructField
  BY <1>1, StructFieldTracks
<1>2. CASE TooDeep
  <2>1. Top.fn = "struct" /\ end[2] = "deep"
    BY <1>2, Zenon DEF TooDeep, In
  <2>2. Below # <<>> => ~Lenient(Below[Len(Below)])
    BY <2>1, LinkedBelow DEF IInv
  <2> QED BY <1>2, <2>1, <2>2, TooDeepTracks
<1>3. CASE ~StructField /\ ~TooDeep
  <2>1. Done' => ret' # << 0 >>
    BY <1>3, Honest
  <2>2. CASE Struct
    BY <1>3, <2>1, <2>2, StructOpenTracks, StructCommaTracks, StructColonTracks, StructBacksTracks,
       StructNullableTracks, StructScalarTracks, StructCallTracks, Zenon DEF Struct
  <2>3. CASE Oneof
    <3>1. Top.fn = "oneof"
      BY <2>3, Zenon DEF Oneof, OneofOpen, OneofKey, OneofColon, OneofSkip, OneofTag, OneofBack,
         In, Back
    <3>2. Below # <<>> => ~Lenient(Below[Len(Below)])
      BY <3>1, LinkedBelow DEF IInv
    <3> QED BY <2>1, <2>3, <3>2, OneofTracks
  <2> QED BY <2>1, <2>2, <2>3, ArrayTracks, ScalarsTracks, EnumsTracks, MapsTracks, OneofsTracks,
             FixedTracks, MapTracks, IgnoreTracks, Zenon DEF Next, Finished
<1> QED BY <1>1, <1>2, <1>3

LEMMA TracksNext ==
    ASSUME IInv, IInv', Next, Linked(stack), NEW end, TooDeep => end[2] = "deep",
           Tracks(stack, ret, ahead, goal, end)
    PROVE  Tracks(stack', ret', ahead', goal', end)
<1>1. CASE Done
  <2>1. Finished
    <3>1. ~Control
      BY <1>1, Zenon DEF Control
    <3> QED BY <3>1, NextControl
  <2>2. stack' = stack /\ ret' = ret /\ ahead' = ahead /\ goal' = goal
    BY <2>1 DEF Finished, vars
  <2> QED BY <2>2, Zenon
<1>2. CASE ~Done
  BY <1>2, SyncNext, CutOffNext, FailingNext, LaggingNext, Zenon DEF Tracks
<1> QED BY <1>1, <1>2

-----------------------------------------------------------------------------
(***************************************************************************)
(* Any JSON against a struct of scalars.  The parser of such a struct is   *)
(* the only call, but for a value that is being skipped and for that of a  *)
(* member with an empty key, which is read as a struct without members     *)
(* (the row Header names).  Each call is in step with an object of         *)
(* anything, has met the end of a document cut short, or has returned an   *)
(* error, which the calls below pass on.                                   *)
(***************************************************************************)
AnyValue == Sym("val", "any", "any")
Object(s, r) == Cons(Sym(s, "any", "any"), r)
AnyMember(r) == Cons(Tok(":"), Cons(AnyValue, Object("more", r)))
FlatFace(at, y, r) ==
    \/ at = "open" /\ y = Cons(AnyValue, r)
    \/ at = "fields" /\ \E s \in {"open", "more", "key"} : y = Object(s, r)
    \/ at = "comma" /\ y = Object("key", r)
    \/ at = "colon" /\ y = AnyMember(r)
    \/ at \in {"nullable", "value"} /\ y = Cons(AnyValue, Object("more", r))

\* A struct of scalars whose member with an empty key is being read.
Held(o) ==
    /\ o.fn = "struct" /\ o.at = "called" /\ o.key = Header
    /\ o.elt \in DOMAIN Schema /\ IsFlat(o.elt)
Holds(w) == \E o : Held(o) /\ Stacked(w, <<>>, o)

\* What follows the object a struct of type e is read from, above the calls v.
Based(v, e, r, end) ==
    \/ v = <<>> /\ r = <<end>> /\ e \in DOMAIN Schema /\ IsFlat(e)
    \/ Holds(v) /\ r = Object("more", <<end>>) /\ e = NoStruct

Flat(v, f, r, end) == f.fn = "struct" /\ Based(v, f.elt, r, end)
Alone(w, c, y, r, end) ==
    \E v, f : /\ Stacked(w, v, f) /\ Flat(v, f, r, end)
              /\ IF f.at = "ignored" THEN c = <<0>> /\ y = Object("more", r)
                 ELSE c = <<>> /\ FlatFace(f.at, y, r)
Ignoring(w, c, y, r, end) ==
    \E u, v, f, g : /\ Stacked(v, u, f) /\ Flat(u, f, r, end) /\ f.at = "ignored"
                    /\ Stacked(w, v, g) /\ g.fn = "ignore" /\ c = <<>>
                    /\ SkipFace(g.brace, g.bracket, y, Object("more", r), end)
Through(w, c, y, end) ==
    c = <<0>> /\ ((w = <<>> /\ y = <<end>>) \/ (Holds(w) /\ y = Object("more", <<end>>)))
Passing(w, c) == (w = <<>> /\ c # << 0 >>) \/ (Holds(w) /\ c = << -1 >>)

FlatTracks(w, c, a, x, end) ==
    \/ \E y, r : /\ Good(r, end) /\ Leads(y, a, x, end)
                 /\ Alone(w, c, y, r, end) \/ Ignoring(w, c, y, r, end)
    \/ \E y : Leads(y, a, x, end) /\ Through(w, c, y, end)
    \/ CutOff(w, c, a, x, end)
    \/ Passing(w, c)

\* The step of such a struct.
FlatCall(r, y, end) ==
    ~Done /\ Flat(Below, Top, r, end) /\ Good(r, end) /\ Leads(y, ahead, goal, end)
InObject(r, y, end) == FlatCall(r, y, end) /\ ret = <<>> /\ FlatFace(Top.at, y, r)

LEMMA PairCons == ASSUME NEW a, NEW b PROVE Cons(a, <<b>>) = <<a, b>>
<1> DEFINE S == {a, b}
<1>1. <<a>> \in Seq(S) /\ b \in S
  OBVIOUS
<1>2. Append(<<a>>, b) = <<a>> \o <<b>>
  <2> HIDE DEF S
  <2> QED BY <1>1, AppendIsConcat
<1>3. Append(<<a>>, b) = <<a, b>>
  <2> DEFINE u == Append(<<a>>, b)
             w == <<a, b>>
  <2>1. u \in Seq(S) /\ Len(u) = 2 /\ u[1] = a /\ u[2] = b
    BY <1>1
  <2>2. w \in Seq(S) /\ Len(w) = 2 /\ w[1] = a /\ w[2] = b
    OBVIOUS
  <2> HIDE DEF u, w, S
  <2>3. u = [i \in 1..2 |-> u[i]] /\ w = [i \in 1..2 |-> w[i]]
    BY <2>1, <2>2
  <2>4. \A i \in 1..2 : u[i] = w[i]
    BY <2>1, <2>2
  <2>5. u = w
    BY <2>3, <2>4
  <2> QED BY <2>5 DEF u, w
<1> QED BY <1>2, <1>3, Zenon DEF Cons

LEMMA SkipFaceLong ==
    ASSUME NEW p, NEW q, NEW y, NEW r, NEW end, Good(r, end), SkipFace(p, q, y, r, end)
    PROVE  Long(y, end)
BY SkipsLong, LongCons, Zenon DEF SkipFace

LEMMA StackedTop ==
    ASSUME ControlOK, NEW v, NEW f, Stacked(stack, v, f)
    PROVE  ~Done /\ Top = f /\ Below = v
<1>1. ~Done
  BY AppendSome DEF Stacked, Done
<1>2. Stacked(stack, Below, Top)
  BY <1>1, Unstack
<1> QED BY <1>1, <1>2, StackedOnce

LEMMA BasedFacts ==
    ASSUME NEW v, NEW e, NEW r, NEW end, Based(v, e, r, end)
    PROVE  /\ v = <<>> \/ Holds(v)
           /\ v = <<>> => r = <<end>>
           /\ Holds(v) => r = Object("more", <<end>>)
<1>1. Holds(v) => v # <<>>
  BY AppendSome, Zenon DEF Holds, Stacked
<1> QED BY <1>1, Zenon DEF Based

LEMMA HeldField ==
    ASSUME ControlOK, NEW o, Held(o), Stacked(stack, <<>>, o)
    PROVE  /\ ~Done /\ Top = o /\ Below = <<>>
           /\ Field.k = "one" /\ Field.elt = NoStruct /\ IsStruct(Field.elt)
<1>1. ~Done /\ Top = o /\ Below = <<>>
  BY StackedTop
<1>2. o.key = Header /\ o.elt \in DOMAIN Schema /\ o.elt # NoStruct
  BY SchemaAssumption DEF Held
<1>3. Header \notin DOMAIN Schema[o.elt] /\ NoStruct \in DOMAIN Index
  BY <1>2, SchemaAssumption DEF Index
<1>4. Index[o.elt][Header] = Row("one", NoStruct)
  BY <1>2, <1>3 DEF Index, Keys, RowOf
<1> QED BY <1>1, <1>2, <1>3, <1>4 DEF Field, Row, IsStruct

LEMMA FlatCut ==
    ASSUME NEW end, CutNow(end), Done' => ret' # << 0 >>
    PROVE  FlatTracks(stack', ret', ahead', goal', end)
BY Zenon DEF FlatTracks, CutOff, CutNow, Done

LEMMA FlatRefused ==
    ASSUME NEW r, NEW y, NEW end, FlatCall(r, y, end), NEW c, c # 0, Return(c),
           Below = <<>> \/ c = -1
    PROVE  FlatTracks(stack', ret', ahead', goal', end)
<1>1. stack' = Below /\ ret' # << 0 >> /\ ret' = << c >>
  BY ReturnsCode DEF Return
<1>2. Below = <<>> \/ Holds(Below)
  BY BasedFacts, Zenon DEF FlatCall, Flat
<1>3. Passing(stack', ret')
  <2>1. CASE Below = <<>>
    BY <1>1, <2>1, Zenon DEF Passing
  <2>2. CASE Below # <<>>
    <3>1. ret' = << -1 >>
      BY <1>1, <2>2
    <3> QED BY <1>1, <1>2, <2>2, <3>1, Zenon DEF Passing
  <2> QED BY <2>1, <2>2
<1> QED BY <1>3, Zenon DEF FlatTracks

LEMMA FlatFails ==
    ASSUME NEW r, NEW y, NEW end, FlatCall(r, y, end), Return(-1)
    PROVE  FlatTracks(stack', ret', ahead', goal', end)
<1>1. -1 # 0
  OBVIOUS
<1> QED BY <1>1, FlatRefused

LEMMA FlatLong ==
    ASSUME NEW at, NEW y, NEW r, NEW end, Good(r, end), FlatFace(at, y, r)
    PROVE  Long(y, end)
<1>1. \A a : Good(Cons(a, r), end)
  BY ConsFacts
<1>2. \A a, b : Good(Cons(a, Cons(b, r)), end)
  BY <1>1, ConsFacts
<1>3. \E a, q : Good(q, end) /\ y = Cons(a, q)
  BY <1>1, <1>2, Zenon DEF FlatFace, Object, AnyMember
<1> QED BY <1>3 DEF Long

LEMMA FlatMoves ==
    ASSUME IInv, NEW r, NEW y, NEW end, FlatCall(r, y, end), NEW h, Leads(h, ahead', goal', end),
           NEW f, NEW at, NEW key, NEW n, NEW p, NEW q, Moves(f, at, key, n, p, q),
           at # "ignored", FlatFace(at, h, r)
    PROVE  FlatTracks(stack', ret', ahead', goal', end)
<1>1. ~Done /\ Flat(Below, Top, r, end) /\ Good(r, end)
  BY Zenon DEF FlatCall
<1>2. /\ f \in FrameSet /\ f.fn = Top.fn /\ f.elt = Top.elt /\ f.at = at /\ ret' = <<>>
      /\ stack' = Append(Below, f)
  BY Zenon DEF Moves, Become
<1>3. Flat(Below, f, r, end)
  BY <1>1, <1>2, Zenon DEF Flat
<1>4. Stacked(stack', Below, f)
  BY <1>1, <1>2, TopFacts DEF Stacked, IInv
<1>5. Alone(stack', ret', h, r, end)
  BY <1>2, <1>3, <1>4, Zenon DEF Alone
<1> QED BY <1>1, <1>5, Zenon DEF FlatTracks

LEMMA FlatTakes ==
    ASSUME IInv, NEW r, NEW y, NEW end, InObject(r, y, end), NEW t \in Input, Take(t)
    PROVE  \/ t = "eof" /\ CutNow(end)
           \/ t # "eof" /\ \E h \in Step(y, t) : Took(h, t, end)
<1>1. Good(r, end) /\ FlatFace(Top.at, y, r) /\ Leads(y, ahead, goal, end)
  BY Zenon DEF InObject, FlatCall
<1>2. Long(y, end)
  BY <1>1, FlatLong
<1> QED BY <1>1, <1>2, TakeFaced

LEMMA FlatPeeks ==
    ASSUME IInv, NEW r, NEW y, NEW end, InObject(r, y, end), NEW t \in Input, Peek(0, t)
    PROVE  \/ t = "eof" /\ CutNow(end)
           \/ t # "eof" /\ \E h \in Step(y, t) : Peeked(h, t, end)
<1>1. Good(r, end) /\ FlatFace(Top.at, y, r) /\ Leads(y, ahead, goal, end)
  BY Zenon DEF InObject, FlatCall
<1>2. Long(y, end)
  BY <1>1, FlatLong
<1> QED BY <1>1, <1>2, PeekFaced

LEMMA ObjectGood ==
    ASSUME NEW r, NEW end, Good(r, end)
    PROVE  /\ \A s : Good(Object(s, r), end)
           /\ \A s : Good(Cons(AnyValue, Object(s, r)), end)
           /\ Good(AnyMember(r), end)
           /\ \A k : MemberRest("any", "any", k, r) = AnyMember(r)
<1>1. \A s : Good(Object(s, r), end)
  BY ConsFacts DEF Object
<1>2. \A s : Good(Cons(AnyValue, Object(s, r)), end)
  BY <1>1, ConsFacts
<1>3. \A k : MemberValue("any", "any", k) = AnyValue
  BY DEF MemberValue, AnyValue
<1>4. Good(AnyMember(r), end)
  BY <1>2, ConsFacts DEF AnyMember
<1> QED BY <1>1, <1>2, <1>3, <1>4, Zenon DEF MemberRest, Object, AnyMember

LEMMA ObjectStep ==
    ASSUME NEW r, NEW end, Good(r, end), NEW s \in {"open", "more", "key"}, NEW t,
           NEW h \in Step(Object(s, r), t)
    PROVE  \/ t = "}" /\ h = r
           \/ t = "," /\ h = Object("key", r)
           \/ IsString(t) /\ h = AnyMember(r)
<1>1. MemberRest("any", "any", t, r) = AnyMember(r)
  BY ObjectGood, Zenon
<1>2. CASE s = "open"
  <2>1. h \in Step(Cons(Sym("open", "any", "any"), r), t)
    BY <1>2, Zenon DEF Object
  <2> QED BY <1>1, <2>1, StepOpen, Zenon
<1>3. CASE s = "more"
  <2>1. h \in Step(Cons(Sym("more", "any", "any"), r), t)
    BY <1>3, Zenon DEF Object
  <2> QED BY <2>1, StepMore, Zenon DEF Object
<1>4. CASE s = "key"
  <2>1. h \in Step(Cons(Sym("key", "any", "any"), r), t)
    BY <1>4, Zenon DEF Object
  <2> QED BY <1>1, <2>1, StepKey, Zenon
<1> QED BY <1>2, <1>3, <1>4, Zenon

LEMMA FlatGoto ==
    ASSUME IInv, IInv', NEW r, NEW y, NEW end, FlatCall(r, y, end),
           NEW h, Leads(h, ahead', goal', end), NEW at, Goto(at), at # "ignored", FlatFace(at, h, r)
    PROVE  FlatTracks(stack', ret', ahead', goal', end)
<1>1. PICK f : Moves(f, at, Top.key, Top.n, Top.brace, Top.bracket)
  BY GotoMoves, Zenon DEF IInv, FlatCall
<1> QED BY <1>1, FlatMoves

LEMMA FlatKey ==
    ASSUME IInv, IInv', NEW r, NEW y, NEW end, FlatCall(r, y, end),
           NEW h, Leads(h, ahead', goal', end), NEW at, NEW key,
           Become([Top EXCEPT !.at = at, !.key = key]), at # "ignored", FlatFace(at, h, r)
    PROVE  FlatTracks(stack', ret', ahead', goal', end)
<1>1. PICK f : Moves(f, at, key, Top.n, Top.brace, Top.bracket)
  BY KeyMoves, Zenon DEF IInv, FlatCall
<1> QED BY <1>1, FlatMoves

LEMMA FlatOutside ==
    ASSUME IInv, NEW r, NEW y, NEW end, FlatCall(r, y, end)
    PROVE  ~InArray
<1>1. ControlOK /\ ~Done
  BY DEF IInv, FlatCall
<1>2. Below = <<>> \/ Holds(Below)
  BY BasedFacts, Zenon DEF FlatCall, Flat
<1> DEFINE v == Below
<1>3. /\ Len(stack) \in Nat /\ Len(v) = Len(stack) - 1 /\ v \in Seq(FrameSet)
      /\ \A i \in 1..Len(v) : v[i] = stack[i]
  BY <1>1, TopFacts
<1> HIDE DEF v
<1>4. CASE v = <<>>
  <2>1. Len(v) = 0
    BY <1>4
  <2>2. Len(stack) = 1
    <3> DEFINE n == Len(stack)
    <3>1. n \in Nat /\ 0 = n - 1
      BY <1>3, <2>1, Zenon
    <3> HIDE DEF n
    <3>2. n = 1
      BY <3>1
    <3> QED BY <3>2 DEF n
  <2>3. InArray => Len(stack) > 1
    BY Zenon DEF InArray
  <2> QED BY <2>2, <2>3
<1>5. ASSUME NEW o, Held(o), Stacked(v, <<>>, o)
      PROVE  ~InArray
  <2>1. v = Append(<<>>, o) /\ o.fn = "struct" /\ o \in FrameSet
    BY <1>5, Zenon DEF Stacked, Held
  <2>2. Len(v) = 1 /\ v[1] = o
    <3> DEFINE a == Append(<<>>, o)
    <3>1. <<>> \in Seq(FrameSet) /\ Len(<<>>) = 0
      OBVIOUS
    <3>2. Len(a) = 0 + 1 /\ a[0 + 1] = o
      BY <2>1, <3>1
    <3> HIDE DEF a
    <3>3. v = a
      BY <2>1 DEF a
    <3> QED BY <3>2, <3>3
  <2>3. stack[Len(stack) - 1] = o
    <3>1. Len(stack) - 1 = 1
      BY <1>3, <2>2, Zenon
    <3>2. 1 \in 1..Len(v)
      BY <2>2
    <3>3. v[1] = stack[1]
      BY <1>3, <3>2, Zenon
    <3> QED BY <2>2, <3>1, <3>3, Zenon
  <2> QED BY <2>1, <2>3 DEF InArray
<1> QED BY <1>2, <1>4, <1>5, Zenon DEF Holds, v

LEMMA FlatOpenTracks ==
    ASSUME IInv, IInv', NEW r, NEW y, NEW end, InObject(r, y, end), StructOpen,
           Done' => ret' # << 0 >>
    PROVE  FlatTracks(stack', ret', ahead', goal', end)
<1>1. /\ Top.at = "open" /\ FlatCall(r, y, end) /\ Good(r, end)
      /\ FlatFace(Top.at, y, r)
  BY Zenon DEF StructOpen, In, InObject, FlatCall
<1>2. ~InArray
  BY <1>1, FlatOutside, Zenon
<1>3. PICK t \in Input : /\ Take(t)
                         /\ t = "{" => Goto("fields")
                         /\ t # "{" /\ t # "eof" => Return(-1)
  <2>1. PICK t \in Input : Take(t) /\
         CASE t = "{" -> Goto("fields")
           [] t = "eof" -> Return(IF InArray THEN 0 ELSE -1)
           [] t = "]" /\ InArray -> Return(1)
           [] OTHER -> Return(-1)
    BY Zenon DEF StructOpen
  <2> QED BY <1>2, <2>1, Zenon
<1>4. y = Cons(AnyValue, r)
  BY <1>1, Zenon DEF FlatFace
<1>5. \/ t = "eof" /\ CutNow(end)
      \/ t # "eof" /\ \E h \in Step(y, t) : Took(h, t, end)
  <2>1. Take(t)
    BY <1>3, Zenon
  <2> QED BY <2>1, FlatTakes
<1>6. CASE t = "eof" /\ CutNow(end)
  BY <1>6, FlatCut
<1>7. ASSUME t # "eof", NEW h \in Step(y, t), Took(h, t, end)
      PROVE  FlatTracks(stack', ret', ahead', goal', end)
  <2>1. CASE t = "{"
    <3>1. h = Object("open", r)
      <4>1. h \in Step(Cons(Sym("val", "any", "any"), r), t)
        BY <1>4, <1>7, Zenon DEF AnyValue
      <4>2. \/ (t \in Literal \/ IsString(t)) /\ h = r
            \/ t = "{" /\ h = Cons(Sym("open", "any", "any"), r)
            \/ t = "[" /\ h = Cons(Sym("first", "any", "any"), r)
        BY <1>1, <4>1, StepAny, Zenon
      <4>3. "{" \notin Literal /\ ~IsString("{") /\ "{" # "["
        BY DEF Literal, IsString, Punct
      <4> QED BY <2>1, <4>2, <4>3, Zenon DEF Object
    <3>2. Good(h, end) /\ t # "stuck"
      BY <1>1, <2>1, <3>1, ObjectGood, Zenon
    <3>3. Leads(h, ahead', goal', end)
      BY <1>7, <3>2, Zenon DEF Took
    <3>4. FlatFace("fields", h, r)
      BY <3>1, Zenon DEF FlatFace
    <3>5. Goto("fields")
      BY <1>3, <2>1, Zenon
    <3> QED BY <1>1, <3>3, <3>4, <3>5, FlatGoto, Zenon
  <2>2. CASE t # "{"
    <3>1. Return(-1)
      BY <1>3, <1>7, <2>2, Zenon
    <3> QED BY <1>1, <3>1, FlatFails
  <2> QED BY <2>1, <2>2, Zenon
<1> QED BY <1>5, <1>6, <1>7, Zenon

LEMMA FlatFieldTracks ==
    ASSUME IInv, IInv', NEW r, NEW y, NEW end, InObject(r, y, end), StructField
    PROVE  FlatTracks(stack', ret', ahead', goal', end)
<1>1. /\ Top.at = "fields" /\ FlatCall(r, y, end) /\ Good(r, end)
      /\ FlatFace(Top.at, y, r)
  BY Zenon DEF StructField, In, InObject, FlatCall
<1>3. PICK t \in Input :
         /\ Take(t)
         /\ t = "}" => Return(0)
         /\ t = "," => Goto("comma")
         /\ IsString(t) => Become([Top EXCEPT !.at = "colon", !.key = KeyOf(Top.elt, t)])
         /\ t = "eof" => Return(-1)
  <2>1. PICK t \in Input : Take(t) /\
         CASE t = "}" -> Return(0)
           [] t = "," -> Goto("comma")
           [] IsString(t) ->
                Become([Top EXCEPT !.at = "colon",
                        !.key = IF t \in DOMAIN Index[Top.elt] THEN t ELSE NoKey])
           [] OTHER -> Return(-1)
    BY Zenon DEF StructField
  <2> QED BY <2>1, Zenon DEF IsString, Punct, KeyOf
<1>4. PICK s \in {"open", "more", "key"} : y = Object(s, r)
  BY <1>1, Zenon DEF FlatFace
<1>5. \/ t = "eof" /\ CutNow(end)
      \/ t # "eof" /\ \E h \in Step(y, t) : Took(h, t, end)
  <2>1. Take(t)
    BY <1>3, Zenon
  <2> QED BY <2>1, FlatTakes
<1>6. CASE t = "eof"
  <2>1. Return(-1)
    BY <1>3, <1>6
  <2> QED BY <1>1, <2>1, FlatFails
<1>7. ASSUME t # "eof", NEW h \in Step(y, t), Took(h, t, end)
      PROVE  FlatTracks(stack', ret', ahead', goal', end)
  <2>1. \/ t = "}" /\ h = r
        \/ t = "," /\ h = Object("key", r)
        \/ IsString(t) /\ h = AnyMember(r)
    <3>1. h \in Step(Object(s, r), t)
      BY <1>4, <1>7, Zenon
    <3> QED BY <1>1, <3>1, ObjectStep, Zenon
  <2>2. Good(h, end)
    BY <1>1, <2>1, ObjectGood, ConsFacts, Zenon
  <2>3. CASE t = "}" /\ h = r
    <3>1. t # "stuck"
      BY <2>3, Zenon
    <3>2. Leads(h, ahead', goal', end)
      BY <1>7, <2>2, <3>1, Zenon DEF Took
    <3>3. Return(0)
      BY <1>3, <2>3, Zenon
    <3>4. stack' = Below /\ ret' = <<0>>
      BY <3>3, Zenon DEF Return
    <3>5. \/ Below = <<>> /\ r = <<end>>
          \/ Holds(Below) /\ r = Object("more", <<end>>)
      BY <1>1, BasedFacts, Zenon DEF FlatCall, Flat
    <3>6. Through(stack', ret', h, end)
      BY <2>3, <3>4, <3>5, Zenon DEF Through
    <3> QED BY <3>2, <3>6, Zenon DEF FlatTracks
  <2>4. CASE t = "," /\ h = Object("key", r)
    <3>1. t # "stuck"
      BY <2>4, Zenon
    <3>2. Leads(h, ahead', goal', end)
      BY <1>7, <2>2, <3>1, Zenon DEF Took
    <3>3. Goto("comma") /\ "comma" # "ignored" /\ FlatFace("comma", h, r)
      BY <1>3, <2>4, Zenon DEF FlatFace
    <3> QED BY <1>1, <3>2, <3>3, FlatGoto, Zenon
  <2>5. CASE IsString(t) /\ h = AnyMember(r)
    <3>1. t # "stuck"
      BY <2>5, Zenon DEF IsString, LexError
    <3>2. Leads(h, ahead', goal', end)
      BY <1>7, <2>2, <3>1, Zenon DEF Took
    <3>3. /\ Become([Top EXCEPT !.at = "colon", !.key = KeyOf(Top.elt, t)])
          /\ "colon" # "ignored" /\ FlatFace("colon", h, r)
      BY <1>3, <2>5, Zenon DEF FlatFace
    <3> QED BY <1>1, <3>2, <3>3, FlatKey, Zenon
  <2> QED BY <2>1, <2>3, <2>4, <2>5, Zenon
<1> QED BY <1>5, <1>6, <1>7, Zenon

LEMMA FlatCommaTracks ==
    ASSUME IInv, IInv', NEW r, NEW y, NEW end, InObject(r, y, end), StructComma,
           Done' => ret' # << 0 >>
    PROVE  FlatTracks(stack', ret', ahead', goal', end)
<1>1. /\ Top.at = "comma" /\ FlatCall(r, y, end) /\ Good(r, end)
      /\ FlatFace(Top.at, y, r)
  BY Zenon DEF StructComma, In, InObject, FlatCall
<1>3. PICK t \in Input : Peek(0, t) /\ IF t = "}" THEN Return(-1) ELSE Goto("fields")
  BY Zenon DEF StructComma
<1>4. y = Object("key", r)
  BY <1>1, Zenon DEF FlatFace
<1>5. \/ t = "eof" /\ CutNow(end)
      \/ t # "eof" /\ \E h \in Step(y, t) : Peeked(h, t, end)
  BY <1>3, FlatPeeks
<1>6. CASE t = "eof" /\ CutNow(end)
  BY <1>6, FlatCut
<1>7. ASSUME NEW h \in Step(y, t), Peeked(h, t, end)
      PROVE  FlatTracks(stack', ret', ahead', goal', end)
  <2>1. IsString(t) /\ h = MemberRest("any", "any", t, r)
    <3>1. h \in Step(Cons(Sym("key", "any", "any"), r), t)
      BY <1>4, <1>7, Zenon DEF Object
    <3> QED BY <1>1, <3>1, StepKey, Zenon
  <2>2. Good(h, end) /\ Good(y, end)
    BY <1>1, <1>4, <2>1, ObjectGood, ConsFacts, Zenon
  <2>3. Leads(y, ahead', goal', end)
    BY <1>7, <2>2, Zenon DEF Peeked
  <2>4. Goto("fields") /\ "fields" # "ignored" /\ FlatFace("fields", y, r)
    BY <1>3, <1>4, <2>1, Zenon DEF IsString, Punct, FlatFace
  <2> QED BY <1>1, <2>3, <2>4, FlatGoto, Zenon
<1> QED BY <1>5, <1>6, <1>7, Zenon

LEMMA FlatColonTracks ==
    ASSUME IInv, IInv', NEW r, NEW y, NEW end, InObject(r, y, end), StructColon,
           Done' => ret' # << 0 >>
    PROVE  FlatTracks(stack', ret', ahead', goal', end)
<1>1. /\ Top.at = "colon" /\ FlatCall(r, y, end) /\ Good(r, end)
      /\ FlatFace(Top.at, y, r) /\ Flat(Below, Top, r, end) /\ ~Done
  BY Zenon DEF StructColon, In, InObject, FlatCall
<1>2. ControlOK /\ ControlOK'
  BY DEF IInv
<1>3. PICK t \in Input : Take(t) /\
         IF t # ":" THEN Return(-1)
         ELSE IF Top.key = NoKey \/ ~Selected(Top, Top.key)
           THEN Call("ignored", Frame("ignore", "any", Top.depth))
         ELSE Goto(IF Field.null THEN "nullable" ELSE "value")
  BY Zenon DEF StructColon
<1> DEFINE x == Cons(AnyValue, Object("more", r))
<1>4. y = Cons(Tok(":"), x) /\ Good(x, end)
  BY <1>1, ObjectGood, Zenon DEF FlatFace, AnyMember
<1>5. \/ t = "eof" /\ CutNow(end)
      \/ t # "eof" /\ \E h \in Step(y, t) : Took(h, t, end)
  BY <1>3, FlatTakes
<1>6. CASE t = "eof" /\ CutNow(end)
  BY <1>6, FlatCut
<1>7. ASSUME NEW h \in Step(y, t), Took(h, t, end)
      PROVE  FlatTracks(stack', ret', ahead', goal', end)
  <2>1. t = ":" /\ h = x
    <3>1. h \in Step(Cons(Tok(":"), x), t)
      BY <1>4, <1>7, Zenon
    <3> HIDE DEF x
    <3> QED BY <1>4, <3>1, StepTok, Zenon
  <2>2. Leads(h, ahead', goal', end)
    BY <1>4, <1>7, <2>1, Zenon DEF Took
  <2>3. CASE Top.key = NoKey \/ ~Selected(Top, Top.key)
    <3> DEFINE g == Frame("ignore", "any", Top.depth)
               z == Object("more", r)
    <3>1. Call("ignored", g)
      BY <1>3, <2>1, <2>3, Zenon
    <3>2. g.fn = "ignore" /\ g.brace = 0 /\ g.bracket = 0
      BY FrameFields
    <3> HIDE DEF g
    <3>3. g \in FrameSet
      BY <1>1, <1>2, <3>1, CallMoves
    <3>4. PICK f \in FrameSet :
             /\ stack' = Append(Append(Below, f), g) /\ ret' = <<>>
             /\ f.fn = Top.fn /\ f.elt = Top.elt /\ f.at = "ignored"
      BY <1>1, <1>2, <3>1, CallMoves
    <3> DEFINE w == Append(Below, f)
    <3>5. Stacked(w, Below, f) /\ Stacked(stack', w, g)
      <4>1. Below \in Seq(FrameSet) /\ w \in Seq(FrameSet)
        BY <1>1, <1>2, <3>4, TopFacts
      <4> QED BY <3>3, <3>4, <4>1, Zenon DEF Stacked
    <3>6. Flat(Below, f, r, end)
      BY <1>1, <3>4, Zenon DEF Flat
    <3>7. SkipFace(g.brace, g.bracket, h, z, end)
      <4>1. Skippable(AnyValue) /\ h = Cons(AnyValue, z)
        BY <2>1, Zenon DEF Skippable, Valued, AnyValue
      <4> QED BY <3>2, <4>1, Zenon DEF SkipFace
    <3>8. Ignoring(stack', ret', h, r, end)
      BY <3>2, <3>4, <3>5, <3>6, <3>7, Zenon DEF Ignoring
    <3> QED BY <1>1, <2>2, <3>8, Zenon DEF FlatTracks
  <2>4. CASE ~(Top.key = NoKey \/ ~Selected(Top, Top.key))
    <3> DEFINE at == IF Field.null THEN "nullable" ELSE "value"
    <3>1. Goto(at)
      BY <1>3, <2>1, <2>4, Zenon
    <3>2. at \in {"nullable", "value"}
      OBVIOUS
    <3> HIDE DEF at
    <3>3. at # "ignored"
      BY <3>2
    <3>4. FlatFace(at, h, r)
      BY <2>1, <3>2, Zenon DEF FlatFace
    <3> QED BY <1>1, <2>2, <3>1, <3>3, <3>4, FlatGoto, Zenon
  <2> QED BY <2>3, <2>4, Zenon
<1> QED BY <1>5, <1>6, <1>7, Zenon

\* A token that is a value by itself is followed by the next member.
LEMMA FlatNext ==
    ASSUME IInv, IInv', NEW r, NEW y, NEW end, FlatCall(r, y, end), NextField,
           Leads(Object("more", r), ahead', goal', end)
    PROVE  FlatTracks(stack', ret', ahead', goal', end)
<1> DEFINE h == Object("more", r)
<1>1. FlatFace("fields", h, r) /\ Leads(h, ahead', goal', end)
  BY Zenon DEF FlatFace
<1> HIDE DEF h
<1>2. Become([Top EXCEPT !.at = "fields", !.key = NoKey]) /\ "fields" # "ignored"
  BY DEF NextField
<1> QED BY <1>1, <1>2, FlatKey, Zenon

LEMMA AnyStep ==
    ASSUME NEW x, NEW end, Good(x, end), NEW t, NEW h \in Step(Cons(AnyValue, x), t),
           t \in Literal \/ IsString(t)
    PROVE  h = x /\ t # "stuck"
<1>1. h \in Step(Cons(Sym("val", "any", "any"), x), t)
  BY Zenon DEF AnyValue
<1>2. \/ (t \in Literal \/ IsString(t)) /\ h = x
      \/ t = "{" /\ h = Cons(Sym("open", "any", "any"), x)
      \/ t = "[" /\ h = Cons(Sym("first", "any", "any"), x)
  BY <1>1, StepAny, Zenon
<1>3. t # "{" /\ t # "[" /\ t # "stuck"
  BY DEF Literal, IsString, Punct, LexError
<1> QED BY <1>2, <1>3, Zenon

LEMMA FlatValue ==
    ASSUME NEW r, NEW y, NEW end, InObject(r, y, end), Top.at \in {"nullable", "value"}
    PROVE  /\ FlatCall(r, y, end) /\ Good(Object("more", r), end)
           /\ y = Cons(AnyValue, Object("more", r)) /\ Good(y, end)
<1>1. FlatCall(r, y, end) /\ Good(r, end) /\ FlatFace(Top.at, y, r)
  BY Zenon DEF InObject, FlatCall
<1>2. y = Cons(AnyValue, Object("more", r))
  BY <1>1 DEF FlatFace
<1> QED BY <1>1, <1>2, ObjectGood, Zenon

LEMMA FlatNullableTracks ==
    ASSUME IInv, IInv', NEW r, NEW y, NEW end, InObject(r, y, end), StructNullable,
           Done' => ret' # << 0 >>
    PROVE  FlatTracks(stack', ret', ahead', goal', end)
<1> DEFINE x == Object("more", r)
<1>1. /\ FlatCall(r, y, end) /\ Good(x, end) /\ y = Cons(AnyValue, x) /\ Good(y, end)
  BY FlatValue DEF StructNullable, In
<1>2. PICK t \in Input :
         IF t = "null" THEN Take(t) /\ NextField ELSE Peek(0, t) /\ Goto("value")
  BY Zenon DEF StructNullable
<1>3. CASE t = "null"
  <2>1. Take(t) /\ NextField /\ t # "eof" /\ t \in Literal
    BY <1>2, <1>3 DEF Literal
  <2>2. PICK h \in Step(y, t) : Took(h, t, end)
    BY <2>1, FlatTakes
  <2> HIDE DEF x
  <2>3. h = x /\ t # "stuck"
    BY <1>1, <2>1, <2>2, AnyStep
  <2>4. Leads(x, ahead', goal', end)
    BY <1>1, <2>2, <2>3 DEF Took
  <2> QED BY <1>1, <2>1, <2>4, FlatNext, Zenon DEF x
<1>4. CASE t # "null"
  <2>1. Peek(0, t) /\ Goto("value")
    BY <1>2, <1>4
  <2>2. \/ t = "eof" /\ CutNow(end)
        \/ t # "eof" /\ \E h \in Step(y, t) : Peeked(h, t, end)
    BY <2>1, FlatPeeks
  <2>3. CASE t = "eof" /\ CutNow(end)
    BY <2>3, FlatCut
  <2>4. ASSUME t # "eof", NEW h \in Step(y, t), Peeked(h, t, end)
        PROVE  FlatTracks(stack', ret', ahead', goal', end)
    <3>1. Skippable(AnyValue)
      BY Zenon DEF Skippable, Valued, AnyValue
    <3> HIDE DEF x
    <3>2. Good(h, end)
      BY <1>1, <2>4, <3>1, ValueGood
    <3>3. Leads(y, ahead', goal', end)
      BY <1>1, <2>4, <3>2 DEF Peeked
    <3>4. "value" # "ignored" /\ FlatFace("value", y, r)
      BY <1>1, Zenon DEF FlatFace, x
    <3> QED BY <1>1, <2>1, <3>3, <3>4, FlatGoto, Zenon
  <2> QED BY <2>2, <2>3, <2>4, Zenon
<1> QED BY <1>3, <1>4

LEMMA FlatScalarTracks ==
    ASSUME IInv, IInv', NEW r, NEW y, NEW end, InObject(r, y, end), StructScalar,
           Done' => ret' # << 0 >>
    PROVE  FlatTracks(stack', ret', ahead', goal', end)
<1> DEFINE x == Object("more", r)
<1>1. /\ FlatCall(r, y, end) /\ Good(x, end) /\ y = Cons(AnyValue, x)
      /\ Field.elt \in Scalar /\ Top.at = "value"
  BY FlatValue DEF StructScalar, In
<1>a. Below = <<>>
  <2>1. ControlOK /\ Flat(Below, Top, r, end) /\ ~Done
    BY <1>1, Zenon DEF IInv, FlatCall
  <2>2. Top.key \in DOMAIN Index[Top.elt]
    BY <1>1, <2>1, StructTop DEF Flat
  <2>3. Top.elt # NoStruct
    BY <2>2 DEF Index, Keys
  <2> QED BY <2>1, <2>3, Zenon DEF Flat, Based
<1>2. PICK t \in Input : Take(t) /\
         LET c == ScalarCode(Field.elt, t) IN IF c # 0 THEN Return(c) ELSE NextField
  BY Zenon DEF StructScalar
<1>3. \/ t = "eof" /\ CutNow(end)
      \/ t # "eof" /\ \E h \in Step(y, t) : Took(h, t, end)
  BY <1>2, FlatTakes
<1>4. CASE t = "eof" /\ CutNow(end)
  BY <1>4, FlatCut
<1>5. ASSUME t # "eof", NEW h \in Step(y, t), Took(h, t, end)
      PROVE  FlatTracks(stack', ret', ahead', goal', end)
  <2>1. CASE ScalarCode(Field.elt, t) # 0
    <3>1. Return(ScalarCode(Field.elt, t))
      BY <1>2, <2>1, Zenon
    <3> QED BY <1>1, <1>a, <2>1, <3>1, FlatRefused
  <2>2. CASE ScalarCode(Field.elt, t) = 0
    <3>1. NextField
      BY <1>2, <2>2, Zenon
    <3>2. t \in Literal \/ IsString(t)
      BY <1>1, <1>5, <2>2, ScalarToken
    <3> HIDE DEF x
    <3>3. h = x /\ t # "stuck"
      BY <1>1, <1>5, <3>2, AnyStep
    <3>4. Leads(x, ahead', goal', end)
      BY <1>1, <1>5, <3>3 DEF Took
    <3> QED BY <1>1, <3>1, <3>4, FlatNext, Zenon DEF x
  <2> QED BY <2>1, <2>2, Zenon
<1> QED BY <1>3, <1>4, <1>5, Zenon

\* A value that is skipped, and the way back from it.
LEMMA FlatIgnoreTracks ==
    ASSUME IInv, IInv', NEW r, NEW y, NEW end, Good(r, end), Leads(y, ahead, goal, end),
           Ignoring(stack, ret, y, r, end), Ignore, Done' => ret' # << 0 >>
    PROVE  FlatTracks(stack', ret', ahead', goal', end)
<1> DEFINE x == Object("more", r)
<1>1. PICK u, v, e, g :
         /\ Stacked(v, u, e) /\ Flat(u, e, r, end) /\ e.at = "ignored"
         /\ Stacked(stack, v, g) /\ g.fn = "ignore" /\ ret = <<>>
         /\ SkipFace(g.brace, g.bracket, y, x, end)
  BY Zenon DEF Ignoring
<1>2. ControlOK /\ ControlOK'
  BY DEF IInv
<1>3. ~Done /\ Top = g /\ Below = v
  BY <1>1, <1>2, StackedTop, Zenon
<1>4. Good(x, end)
  BY ObjectGood, Zenon
<1> HIDE DEF x
<1>5. SkipFace(Top.brace, Top.bracket, y, x, end) /\ Top.fn = "ignore"
  BY <1>1, <1>3
<1>6. PICK t \in Input : Take(t) /\
         IF t = "eof" THEN Return(-1)
         ELSE IF IsLevel(Level(Top, t)) THEN Return(0)
         ELSE Become(Level(Top, t))
  BY Zenon DEF Ignore
<1>7. \/ t = "eof" /\ CutNow(end)
      \/ t # "eof" /\ \E h \in Step(y, t) : Took(h, t, end)
  BY <1>4, <1>5, <1>6, SkipFaceLong, TakeFaced
<1>8. CASE t = "eof" /\ CutNow(end)
  BY <1>8, FlatCut
<1>9. ASSUME t # "eof", NEW h \in Step(y, t), Took(h, t, end)
      PROVE  FlatTracks(stack', ret', ahead', goal', end)
  <2> DEFINE p == Top.brace + Up(t)
             q == Top.bracket + Across(t)
             m == Moved(Top, Top.at, Top.key, Top.n, p, q)
  <2>1. Read(t) /\ Skips(h, x, p, q, end)
    BY <1>4, <1>5, <1>9, SkipStep
  <2>2. Level(Top, t) = m
    BY <1>2, <1>3, TopFacts, LevelMoves
  <2>3. m.brace = p /\ m.bracket = q
    BY MovedFields
  <2>4. IF p = 0 /\ q = 0 THEN Return(0) ELSE Become(m)
    <3>1. IF IsLevel(Level(Top, t)) THEN Return(0) ELSE Become(Level(Top, t))
      BY <1>6, <1>9, Zenon
    <3> HIDE DEF m, p, q
    <3>2. IsLevel(m) <=> p = 0 /\ q = 0
      BY <2>3 DEF IsLevel
    <3> QED BY <2>2, <3>1, <3>2, Zenon
  <2>5. t # "stuck"
    BY <2>1, Zenon DEF Read
  <2> HIDE DEF p, q
  <2>6. Good(h, end) /\ IF p = 0 /\ q = 0 THEN h = x ELSE SkipFace(p, q, h, x, end)
    BY <2>1, SkipNext
  <2>7. Leads(h, ahead', goal', end)
    BY <1>9, <2>5, <2>6, Zenon DEF Took
  <2>8. CASE p = 0 /\ q = 0
    <3>1. stack' = v /\ ret' = <<0>>
      BY <1>3, <2>4, <2>8, Zenon DEF Return
    <3>2. Alone(stack', ret', h, r, end)
      BY <1>1, <2>6, <2>8, <3>1, Zenon DEF Alone, x
    <3> QED BY <2>7, <3>2, Zenon DEF FlatTracks
  <2>9. CASE ~(p = 0 /\ q = 0)
    <3>1. Become(m) /\ SkipFace(p, q, h, x, end)
      BY <2>4, <2>6, <2>9, Zenon
    <3>2. PICK f : Moves(f, Top.at, Top.key, Top.n, p, q)
      BY <1>2, <1>3, <3>1, BecomeMoves
    <3>3. /\ f \in FrameSet /\ f.fn = "ignore" /\ f.brace = p /\ f.bracket = q /\ ret' = <<>>
          /\ stack' = Append(Below, f)
      BY <1>5, <3>2, Zenon DEF Moves, Become
    <3>4. Stacked(stack', v, f)
      BY <1>1, <1>3, <3>3, Zenon DEF Stacked
    <3>5. Ignoring(stack', ret', h, r, end)
      BY <1>1, <3>1, <3>3, <3>4, Zenon DEF Ignoring, x
    <3> QED BY <2>7, <3>5, Zenon DEF FlatTracks
  <2> QED BY <2>8, <2>9
<1> QED BY <1>7, <1>8, <1>9, Zenon

LEMMA FlatBackTracks ==
    ASSUME IInv, IInv', NEW r, NEW y, NEW end, FlatCall(r, y, end), ret = << 0 >>, y = Object("more", r),
           StructIgnored
    PROVE  FlatTracks(stack', ret', ahead', goal', end)
<1>1. NoInput /\ NextField
  <2>1. ret[1] = 0
    OBVIOUS
  <2> QED BY <2>1 DEF StructIgnored
<1>2. Leads(y, ahead, goal, end)
  BY Zenon DEF FlatCall
<1>3. Leads(Object("more", r), ahead', goal', end)
  BY <1>1, <1>2, NoInputLeads
<1> QED BY <1>1, <1>3, FlatNext

\* Which functions can run.
LEMMA StructRuns ==
    ASSUME Next, ~Done, Top.fn = "struct"
    PROVE  Struct
<1>1. ~Array /\ ~Scalars /\ ~Enums /\ ~Fixed
  BY Zenon DEF Array, Open, First, ArrayElement, ArrayBack, Separator, In, Back, Scalars,
       ScalarsOpen, ScalarsElement, Enums, EnumsOpen, EnumsElement, Fixed, FixedElement, FixedBack
<1>2. ~MapObject /\ ~Maps
  BY Zenon DEF MapObject, MapOpen, MapKey, MapColon, MapScalar, MapStruct, MapBack, In, Back,
       Maps, MapsOpen, First, MapsElement, MapsBack, MapsSeparator
<1>3. ~Ignore /\ ~Oneof /\ ~Oneofs
  BY Zenon DEF Ignore, In, Back, Oneof, OneofOpen, OneofKey, OneofColon, OneofSkip, OneofTag,
       OneofBack, Oneofs, OneofsOpen, First, OneofsElement, OneofsBack, OneofsSeparator
<1> QED BY <1>1, <1>2, <1>3, Zenon DEF Next, Finished

LEMMA IgnoreRuns ==
    ASSUME Next, ~Done, Top.fn = "ignore"
    PROVE  Ignore
<1>1. ~Array /\ ~Scalars /\ ~Enums /\ ~Fixed
  BY Zenon DEF Array, Open, First, ArrayElement, ArrayBack, Separator, In, Back, Scalars,
       ScalarsOpen, ScalarsElement, Enums, EnumsOpen, EnumsElement, Fixed, FixedElement, FixedBack
<1>2. ~MapObject /\ ~Maps
  BY Zenon DEF MapObject, MapOpen, MapKey, MapColon, MapScalar, MapStruct, MapBack, In, Back,
       Maps, MapsOpen, First, MapsElement, MapsBack, MapsSeparator
<1>3. ~Struct /\ ~Oneof /\ ~Oneofs
  BY Zenon DEF Struct, TooDeep, StructOpen, StructField, StructComma, StructColon, StructIgnored,
       StructNullable, StructScalar, StructCall, StructBack, In, Back, Oneof, OneofOpen, OneofKey,
       OneofColon, OneofSkip, OneofTag, OneofBack, Oneofs, OneofsOpen, First, OneofsElement,
       OneofsBack, OneofsSeparator
<1> QED BY <1>1, <1>2, <1>3, Zenon DEF Next, Finished

\* The value of a member with an empty key, and the way back from it.
LEMMA FlatCallTracks ==
    ASSUME IInv, IInv', NEW r, NEW y, NEW end, InObject(r, y, end), StructCall
    PROVE  FlatTracks(stack', ret', ahead', goal', end)
<1> DEFINE x == Object("more", r)
<1>1. /\ FlatCall(r, y, end) /\ Good(x, end) /\ y = Cons(AnyValue, x) /\ Top.at = "value"
      /\ ~(Field.k = "one" /\ Field.elt \in Scalar)
      /\ Call("called", Callee(Field, Top)) /\ NoInput
  BY FlatValue DEF StructCall, In
<1>2. ControlOK /\ ControlOK' /\ ~Done /\ Flat(Below, Top, r, end)
  BY <1>1, Zenon DEF IInv, FlatCall
<1>3. Top.fn = "struct" /\ Top.key \in DOMAIN Index[Top.elt]
  BY <1>1, <1>2, StructTop DEF Flat
<1>4. Top.elt # NoStruct
  BY <1>3 DEF Index, Keys
<1>5. Below = <<>> /\ r = <<end>> /\ Top.elt \in DOMAIN Schema /\ IsFlat(Top.elt)
  BY <1>2, <1>4, Zenon DEF Flat, Based
<1>6. Field = RowOf(Top.elt, Top.key) /\ Top.key \notin DOMAIN Schema[Top.elt]
  <2>1. Field = RowOf(Top.elt, Top.key)
    BY <1>3, <1>4, <1>5 DEF Field, Index
  <2>2. ASSUME Top.key \in DOMAIN Schema[Top.elt] PROVE FALSE
    <3>1. Field = Schema[Top.elt][Top.key]
      BY <2>1, <2>2 DEF RowOf
    <3> QED BY <1>1, <1>5, <2>2, <3>1 DEF IsFlat
  <2> QED BY <2>1, <2>2
<1>7. Top.key = Header /\ Field = Row("one", NoStruct)
  <2>1. Row("one", "int").k = "one" /\ Row("one", "int").elt \in Scalar
    BY DEF Row, Scalar
  <2> QED BY <1>1, <1>6, <2>1 DEF RowOf
<1>8. Field.k = "one" /\ Field.elt = NoStruct /\ IsStruct(Field.elt)
  BY <1>7 DEF Row, IsStruct, Index
<1> DEFINE g == Callee(Field, Top)
<1>9. g.fn = "struct" /\ g.at = "open" /\ g.elt = NoStruct
  <2>1. NoStruct \notin Scalar /\ NoStruct \notin DOMAIN Variants /\ NoStruct \in DOMAIN Index
    BY <1>8, SchemaAssumption DEF NoStruct, Scalar, IsStruct
  <2>2. Typed(Field.k, Field.elt)
    BY <1>8, <2>1 DEF Typed
  <2>3. Fresh(g) /\ g.elt = Field.elt /\ Hands(Field, Top, g)
    BY <1>1, <2>2, CalleeShape
  <2> HIDE DEF g
  <2>4. g.fn = "struct"
    BY <1>8, <2>1, <2>3 DEF Hands, IsOneof
  <2> QED BY <1>8, <2>3, <2>4 DEF Fresh
<1>10. Call("called", g)
  BY <1>1
<1> HIDE DEF g, x
<1>11. g \in FrameSet
  BY <1>2, <1>10, CallMoves
<1>12. PICK f \in FrameSet :
         /\ stack' = Append(Append(Below, f), g) /\ ret' = <<>>
         /\ f.fn = Top.fn /\ f.elt = Top.elt /\ f.at = "called" /\ f.key = Top.key
  BY <1>2, <1>10, CallMoves
<1> DEFINE w == Append(<<>>, f)
<1>13. Stacked(w, <<>>, f) /\ Stacked(stack', w, g)
  <2>1. <<>> \in Seq(FrameSet) /\ w \in Seq(FrameSet)
    OBVIOUS
  <2> QED BY <1>5, <1>11, <1>12, <2>1, Zenon DEF Stacked
<1> HIDE DEF w
<1>14. Held(f)
  BY <1>3, <1>5, <1>7, <1>12, Zenon DEF Held
<1>15. Based(w, g.elt, x, end)
  BY <1>5, <1>9, <1>13, <1>14, Zenon DEF Based, Holds, x
<1>16. FlatFace(g.at, y, x) /\ g.at # "ignored"
  BY <1>1, <1>9, Zenon DEF FlatFace
<1>17. Alone(stack', ret', y, x, end)
  BY <1>9, <1>12, <1>13, <1>15, <1>16, Zenon DEF Alone, Flat
<1>18. Leads(y, ahead', goal', end)
  BY <1>1, NoInputLeads, Zenon DEF FlatCall
<1> QED BY <1>1, <1>17, <1>18, Zenon DEF FlatTracks

LEMMA HeldRuns ==
    ASSUME IInv, Next, NEW o, Held(o), Stacked(stack, <<>>, o), ret # <<>>
    PROVE  StructBack
<1>1. ~Done /\ Top = o /\ Top.fn = "struct" /\ Top.at = "called"
  BY HeldField, Zenon DEF IInv, Held
<1>2. Struct
  BY <1>1, StructRuns
<1> QED BY <1>1, <1>2, Zenon DEF Struct, TooDeep, StructOpen, StructField, StructComma, StructColon,
       StructIgnored, StructNullable, StructScalar, StructCall, In, Back

LEMMA HeldBack ==
    ASSUME IInv, IInv', Next, NEW o, Held(o), Stacked(stack, <<>>, o), ret = << 0 >>, NEW end,
           Leads(Object("more", <<end>>), ahead, goal, end)
    PROVE  FlatTracks(stack', ret', ahead', goal', end)
<1> DEFINE r == <<end>>
           y == Object("more", r)
<1>1. /\ ~Done /\ Top = o /\ Below = <<>>
      /\ Field.k = "one" /\ Field.elt = NoStruct /\ IsStruct(Field.elt)
  BY HeldField, Zenon DEF IInv
<1>2. StructBack
  BY HeldRuns
<1>3. ~Fails(Field, ret[1])
  <2>1. ret[1] = 0
    OBVIOUS
  <2>2. Field.k # "array"
    BY <1>1
  <2>3. Fails(Field, ret[1]) <=> ret[1] = -1
    BY <1>1, <2>2, Zenon DEF Fails
  <2> QED BY <2>1, <2>3
<1>4. NextField /\ NoInput
  BY <1>2, <1>3, Zenon DEF StructBack
<1>5. Good(r, end)
  BY EndGood
<1>6. Flat(Below, Top, r, end)
  BY <1>1, Zenon DEF Held, Flat, Based
<1> HIDE DEF r
<1>7. FlatCall(r, y, end)
  BY <1>1, <1>5, <1>6, Zenon DEF FlatCall, r
<1>8. Leads(Object("more", r), ahead', goal', end)
  BY <1>4, NoInputLeads, Zenon DEF r
<1> QED BY <1>4, <1>7, <1>8, FlatNext

LEMMA HeldFails ==
    ASSUME IInv, Next, NEW o, Held(o), Stacked(stack, <<>>, o), ret = << -1 >>, NEW end
    PROVE  FlatTracks(stack', ret', ahead', goal', end)
<1>1. /\ ~Done /\ Top = o /\ Below = <<>>
      /\ Field.k = "one" /\ Field.elt = NoStruct /\ IsStruct(Field.elt)
  BY HeldField, Zenon DEF IInv
<1>2. StructBack
  BY HeldRuns
<1>3. ret[1] = -1 /\ -1 # 0
  OBVIOUS
<1>4. Fails(Field, ret[1])
  <2>1. Field.k # "array"
    BY <1>1
  <2>2. Fails(Field, ret[1]) <=> ret[1] = -1
    BY <1>1, <2>1, Zenon DEF Fails
  <2> QED BY <1>3, <2>2
<1>5. Return(-1)
  BY <1>2, <1>3, <1>4 DEF StructBack
<1>6. stack' = <<>> /\ ret' # << 0 >>
  BY <1>1, <1>3, <1>5, ReturnsCode, Zenon DEF Return
<1> QED BY <1>6, Zenon DEF FlatTracks, Passing

LEMMA FlatRuns ==
    ASSUME IInv, IInv', Next, NEW r, NEW y, NEW end, FlatCall(r, y, end), Linked(stack),
           Alone(stack, ret, y, r, end)
    PROVE  FlatTracks(stack', ret', ahead', goal', end)
<1>1. ControlOK /\ ControlOK' /\ ~Done /\ Top.fn = "struct"
  BY DEF IInv, FlatCall, Flat
<1>2. PICK v, f : /\ Stacked(stack, v, f)
               /\ IF f.at = "ignored" THEN ret = <<0>> /\ y = Object("more", r)
                  ELSE ret = <<>> /\ FlatFace(f.at, y, r)
  BY Zenon DEF Alone
<1>3. f = Top
  BY <1>1, <1>2, StackedTop, Zenon
<1>4. IF Top.at = "ignored" THEN ret = <<0>> /\ y = Object("more", r) ELSE InObject(r, y, end)
  BY <1>2, <1>3, Zenon DEF InObject
<1>5. Struct
  BY <1>1, StructRuns
<1>6. CASE Top.at = "ignored"
  <2>1. ret = <<0>> /\ y = Object("more", r) /\ ret # <<>>
    BY <1>4, <1>6
  <2>2. StructIgnored
    BY <1>5, <1>6, <2>1, Zenon DEF Struct, TooDeep, StructOpen, StructField, StructComma, StructColon,
       StructNullable, StructScalar, StructCall, StructBack, In, Back
  <2> QED BY <2>1, <2>2, FlatBackTracks
<1>7. CASE Top.at # "ignored"
  <2>1. InObject(r, y, end)
    BY <1>4, <1>7
  <2>2. CASE StructField
    BY <2>1, <2>2, FlatFieldTracks
  <2>3. CASE ~StructField
    <3>1. Done' => ret' # << 0 >>
      BY <1>1, <2>3, Honest
    <3>2. ~StructIgnored /\ ~StructBack
      BY <2>1, Zenon DEF InObject, StructIgnored, StructBack, Back
    <3>3. CASE StructCall
      BY <2>1, <3>3, FlatCallTracks
    <3>4. CASE TooDeep
      <4>1. Return(-1)
        BY <3>4 DEF TooDeep
      <4> QED BY <4>1, FlatFails
    <3> QED BY <1>5, <2>1, <2>3, <3>1, <3>2, <3>3, <3>4, FlatOpenTracks, FlatCommaTracks,
          FlatColonTracks, FlatNullableTracks, FlatScalarTracks, Zenon DEF Struct
  <2> QED BY <2>2, <2>3
<1> QED BY <1>6, <1>7

LEMMA FlatTracksNext ==
    ASSUME IInv, IInv', Next, Linked(stack), NEW end, FlatTracks(stack, ret, ahead, goal, end)
    PROVE  FlatTracks(stack', ret', ahead', goal', end)
<1>1. ControlOK
  BY DEF IInv
<1>2. CASE Done
  <2>1. Finished
    BY <1>2, NextControl, Zenon DEF Control
  <2>2. stack' = stack /\ ret' = ret /\ ahead' = ahead /\ goal' = goal
    BY <2>1 DEF Finished, vars
  <2> QED BY <2>2, Zenon
<1>3. CASE ~Done
  <2>1. stack # <<>>
    BY <1>3 DEF Done
  <2>2. CASE CutOff(stack, ret, ahead, goal, end)
    BY <1>3, <2>2, CutOffNext, Zenon DEF FlatTracks
  <2>3. ASSUME NEW y, NEW r, Good(r, end), Leads(y, ahead, goal, end),
               Alone(stack, ret, y, r, end)
        PROVE  FlatTracks(stack', ret', ahead', goal', end)
    <3>1. PICK v, f : Flat(v, f, r, end) /\ Stacked(stack, v, f)
      BY <2>3, Zenon DEF Alone
    <3>2. Top = f /\ Below = v
      BY <1>1, <3>1, StackedTop, Zenon
    <3>3. FlatCall(r, y, end)
      BY <1>3, <2>3, <3>1, <3>2, Zenon DEF FlatCall
    <3> QED BY <2>3, <3>3, FlatRuns
  <2>4. ASSUME NEW y, NEW r, Good(r, end), Leads(y, ahead, goal, end),
               Ignoring(stack, ret, y, r, end)
        PROVE  FlatTracks(stack', ret', ahead', goal', end)
    <3>1. PICK v, g : g.fn = "ignore" /\ Stacked(stack, v, g)
      BY <2>4, Zenon DEF Ignoring
    <3>2. Top.fn = "ignore"
      BY <1>1, <3>1, StackedTop, Zenon
    <3>3. Ignore
      BY <1>3, <3>2, IgnoreRuns
    <3>4. ~StructField
      BY <3>2, Zenon DEF StructField, In
    <3>5. Done' => ret' # << 0 >>
      BY <1>3, <3>4, Honest
    <3> QED BY <2>4, <3>3, <3>5, FlatIgnoreTracks
  <2>5. ASSUME NEW y, Leads(y, ahead, goal, end), Through(stack, ret, y, end)
        PROVE  FlatTracks(stack', ret', ahead', goal', end)
    <3>1. PICK o : Held(o) /\ Stacked(stack, <<>>, o)
      BY <2>1, <2>5, Zenon DEF Through, Holds
    <3>2. ret = << 0 >> /\ y = Object("more", <<end>>)
      BY <2>1, <2>5, Zenon DEF Through
    <3> QED BY <2>5, <3>1, <3>2, HeldBack, Zenon
  <2>6. ASSUME Passing(stack, ret)
        PROVE  FlatTracks(stack', ret', ahead', goal', end)
    <3>1. PICK o : Held(o) /\ Stacked(stack, <<>>, o)
      BY <2>1, <2>6, Zenon DEF Passing, Holds
    <3>2. ret = << -1 >>
      BY <2>1, <2>6, Zenon DEF Passing
    <3> QED BY <3>1, <3>2, HeldFails, Zenon
  <2> QED BY <2>2, <2>3, <2>4, <2>5, <2>6, Zenon DEF FlatTracks
<1> QED BY <1>2, <1>3

-----------------------------------------------------------------------------
(***************************************************************************)
(* The invariant.  A document that need not follow the schema keeps a goal *)
(* of its own form; one that does is tracked call by call.                 *)
(***************************************************************************)
Anything == Sym("anything", "", "")
Loose(x, end) ==
    \/ x = <<end>> \/ x = <<Cut, end>> \/ x = <<Anything, end>>
    \/ \E p, q : SkipFace(p, q, x, <<end>>, end)

End(d) == Sym("end", d.form, d.tokens)
Schematic(d) == d.form \in {"typed", "deep"}
Nested(d) == d.form = "typed" => \E depths \in Depths : NestsWithin(depths) /\ Fitting(depths, stack)
Follows(d) ==
    IF Schematic(d) THEN Nested(d) /\ Tracks(stack, ret, ahead, goal, End(d))
    ELSE /\ Loose(goal, End(d))
         /\ d.form = "json" => FlatTracks(stack, ret, ahead, goal, End(d))
Sound == Linked(stack) /\ \E d \in Documents : Follows(d)

LEMMA ReadsGoal ==
    ASSUME Reads
    PROVE  goal' = goal \/ goal' = CutShort(goal)
           \/ \E t \in Input : t # "eof" /\ goal' \in Step(goal, t)
<1>1. ASSUME NEW t \in Input, Lex(t)
      PROVE  goal' = CutShort(goal) \/ (t # "eof" /\ goal' \in Step(goal, t))
  BY <1>1, ProduceStep, Zenon DEF Lex
<1>2. ASSUME NEW t \in Input, Take(t)
      PROVE  goal' = goal \/ goal' = CutShort(goal) \/ (t # "eof" /\ goal' \in Step(goal, t))
  BY <1>1, <1>2, ProduceStep DEF Take
<1>3. ASSUME NEW t \in Input, NEW n, Peek(n, t)
      PROVE  goal' = goal \/ goal' = CutShort(goal) \/ (t # "eof" /\ goal' \in Step(goal, t))
  BY <1>1, <1>3 DEF Peek
<1>4. NoInput => goal' = goal
  BY DEF NoInput
<1> QED BY <1>2, <1>3, <1>4, Zenon DEF Reads

LEMMA LooseNext ==
    ASSUME NEW form, NEW toks, NEW end, end = Sym("end", form, toks), Loose(goal, end), Reads
    PROVE  Loose(goal', end)
<1>1. CASE goal = <<end>>
  <2>1. CutShort(goal) = <<end>>
    BY <1>1 DEF CutShort
  <2>2. \A t : Step(goal, t) = {}
    BY <1>1, StepEnd
  <2>3. goal' = <<end>>
    BY <1>1, <2>1, <2>2, ReadsGoal
  <2> QED BY <2>3, Zenon DEF Loose
<1>2. ASSUME NEW a, goal = <<a, end>>
      PROVE  CutShort(goal) = <<Cut, end>> /\ Head(goal) = a /\ Tail(goal) = <<end>>
  BY <1>2 DEF CutShort
<1>3. CASE goal = <<Cut, end>>
  <2>1. \A t : Expand(Cut, t) = {}
    BY DEF Expand, Cut, Sym
  <2>2. \A t : Step(goal, t) = {}
    BY <1>2, <1>3, <2>1 DEF Step
  <2>3. goal' = <<Cut, end>>
    BY <1>2, <1>3, <2>2, ReadsGoal
  <2> QED BY <2>3, Zenon DEF Loose
<1>4. CASE goal = <<Anything, end>>
  <2>1. \A t : Expand(Anything, t) = {<<Anything>>}
    BY DEF Expand, Anything, Sym
  <2> DEFINE a == Anything
  <2> HIDE DEF a
  <2>2. Head(goal) = a /\ Tail(goal) = <<end>> /\ CutShort(goal) = <<Cut, end>> /\ goal = <<a, end>>
    BY <1>2, <1>4 DEF a
  <2>3. \A t : Expand(a, t) = {<<a>>}
    BY <2>1 DEF a
  <2>4. <<a>> \o <<end>> = <<a, end>>
    BY PairCons DEF Cons
  <2>5. \A t, h : h \in Step(goal, t) => h = <<a, end>>
    BY <2>2, <2>3, <2>4 DEF Step
  <2>6. goal' = <<a, end>> \/ goal' = <<Cut, end>>
    BY <2>2, <2>5, ReadsGoal, Zenon
  <2> QED BY <2>6, Zenon DEF Loose, a
<1>5. ASSUME NEW p, NEW q, SkipFace(p, q, goal, <<end>>, end)
      PROVE  Loose(goal', end)
  <2>1. Good(<<end>>, end)
    BY EndGood
  <2>2. CutShort(goal) = <<Cut, end>>
    BY <1>5, <2>1, SkipFaceLong, LongCut
  <2>3. ASSUME NEW t, t # "eof", goal' \in Step(goal, t)
        PROVE  Loose(goal', end)
    <3> DEFINE r == <<end>>
               b == p + Up(t)
               c == q + Across(t)
    <3>1. Good(r, end) /\ SkipFace(p, q, goal, r, end)
      BY <1>5, <2>1
    <3> HIDE DEF r
    <3>2. Skips(goal', r, b, c, end)
      BY <2>3, <3>1, SkipStep
    <3> HIDE DEF b, c
    <3>3. goal' = r \/ SkipFace(b, c, goal', r, end)
      BY <3>2, SkipNext
    <3> QED BY <3>3, Zenon DEF r, Loose
  <2>4. goal' = goal => Loose(goal', end)
    BY Zenon
  <2>5. goal' = <<Cut, end>> => Loose(goal', end)
    BY Zenon DEF Loose
  <2> QED BY <2>2, <2>3, <2>4, <2>5, ReadsGoal, Zenon
<1> QED BY <1>1, <1>3, <1>4, <1>5, Zenon DEF Loose

LEMMA SoundNext ==
    ASSUME IInv, IInv', Next, Sound
    PROVE  Sound'
<1>1. ControlOK /\ ControlOK' /\ Linked(stack)
  BY Zenon DEF IInv, Sound
<1>2. PICK d \in Documents : Follows(d)
  BY Zenon DEF Sound
<1>3. CASE Finished
  <2>1. stack' = stack /\ ret' = ret /\ ahead' = ahead /\ goal' = goal
    BY <1>3 DEF Finished, vars
  <2> QED BY <2>1, Zenon DEF Sound, Follows, Nested
<1>4. CASE Control /\ Reads
  <2>1. Linked(stack')
    BY <1>1, <1>4, LinkedNext
  <2>2. CASE Schematic(d)
    <3>1. Nested(d) /\ Tracks(stack, ret, ahead, goal, End(d))
      BY <1>2, <2>2, Zenon DEF Follows
    <3>2. Nested(d)'
      <4>1. ASSUME NEW depths \in Depths, NestsWithin(depths), Fitting(depths, stack)
            PROVE  Fitting(depths, stack')
        BY <1>1, <1>4, <4>1, FittingNext
      <4> QED BY <3>1, <4>1, Zenon DEF Nested
    <3>3. TooDeep => End(d)[2] = "deep"
      <4>1. d.form = "typed" => ~TooDeep
        BY <1>1, <3>1, NotTooDeep, Zenon DEF Nested
      <4>2. End(d)[2] = d.form
        BY DEF End, Sym
      <4> QED BY <2>2, <4>1, <4>2 DEF Schematic
    <3>4. Tracks(stack', ret', ahead', goal', End(d))
      BY <1>1, <3>1, <3>3, TracksNext
    <3>5. Follows(d)'
      BY <2>2, <3>2, <3>4, Zenon DEF Follows
    <3> QED BY <2>1, <3>5, Zenon DEF Sound
  <2>3. CASE ~Schematic(d)
    <3>1. /\ Loose(goal, End(d))
          /\ d.form = "json" => FlatTracks(stack, ret, ahead, goal, End(d))
      BY <1>2, <2>3, Zenon DEF Follows
    <3>2. Loose(goal', End(d))
      BY <1>4, <3>1, LooseNext, Zenon DEF End
    <3>3. d.form = "json" => FlatTracks(stack', ret', ahead', goal', End(d))
      BY <1>1, <3>1, FlatTracksNext, Zenon
    <3> QED BY <2>1, <2>3, <3>2, <3>3, Zenon DEF Sound, Follows
  <2> QED BY <2>2, <2>3
<1> QED BY <1>3, <1>4, NextControl

LEMMA SoundInit == Init => Sound
<1> SUFFICES ASSUME Init PROVE Sound
  OBVIOUS
<1>1. PICK d \in Documents :
         /\ stack = <<[Frame("struct", d.root, 0) EXCEPT !.mask = d.mask]>>
         /\ goal = Document(d.form, d.root, d.tokens)
         /\ ahead = <<>> /\ ret = <<>>
  BY DEF Init
<1> DEFINE f == [Frame("struct", d.root, 0) EXCEPT !.mask = d.mask]
           end == End(d)
           r == <<end>>
<1>2. /\ f.fn = "struct" /\ f.elt = d.root /\ f.depth = 0 /\ Fresh(f)
  BY DEF Frame, Fresh
<1>3. d.root \in DOMAIN Index /\ d.form \in {"typed", "deep", "json", "tokens"}
  BY UnmarshalAssumption DEF Index
<1>4. stack = <<f>>
  BY <1>1
<1>5. f \in FrameSet
  <2>1. ControlOK
    BY Initially DEF IInv
  <2>2. stack \in Seq(FrameSet) /\ Len(stack) = 1 /\ stack[1] = f
    BY <1>4, <2>1 DEF ControlOK
  <2> QED BY <2>2
<1> HIDE DEF f
<1>6. Linked(stack)
  <2>1. Len(stack) = 1 /\ stack[1] = f
    BY <1>4
  <2> QED BY <1>2, <2>1 DEF Linked
<1>7. Good(r, end)
  BY EndGood
<1> HIDE DEF end
<1>8. \A a : Cons(a, r) = <<a, end>> /\ Good(Cons(a, r), end)
  <2> TAKE a
  <2>1. Cons(a, r) = <<a, end>>
    BY PairCons
  <2> HIDE DEF r
  <2> QED BY <1>7, <2>1, ConsFacts
<1>9. CASE Schematic(d)
  <2> DEFINE y == Cons(Sym("val", "one", f.elt), r)
  <2>1. goal = y
    <3>1. goal = <<Sym("val", "one", d.root), end>>
      BY <1>1, <1>9 DEF Document, Schematic, End, end
    <3> HIDE DEF r
    <3> QED BY <1>2, <1>8, <3>1, Zenon
  <2>2. Good(y, end)
    BY <1>8
  <2> HIDE DEF y, r
  <2>3. Leads(y, <<>>, y, end)
    BY <2>2, LeadsNowhere
  <2>4. Face(f, y, r, end)
    <3>1. f.at = "open"
      BY <1>2, Zenon DEF Fresh
    <3>2. StructFace(f.at, f.elt, f.key, y, r)
      BY <3>1, Zenon DEF StructFace, y
    <3> QED BY <1>2, <3>2, Zenon DEF Face
  <2>5. Owes(<<>>, r, end)
    BY OwesNothing DEF r
  <2>6. Stacked(stack, <<>>, f)
    <3>1. <<>> \in Seq(FrameSet) /\ Append(<<>>, f) = <<f>>
      OBVIOUS
    <3> QED BY <1>4, <1>5, <3>1 DEF Stacked
  <2>7. Facing(f, r, ahead, goal, end)
    BY <1>1, <2>1, <2>3, <2>4, Zenon DEF Facing
  <2>8. Tracks(stack, ret, ahead, goal, end)
    BY <1>1, <2>5, <2>6, <2>7, Zenon DEF Tracks, InSync
  <2>9. Nested(d)
    <3> SUFFICES ASSUME d.form = "typed"
                 PROVE  \E depths \in Depths : NestsWithin(depths) /\ Fitting(depths, stack)
      BY Zenon DEF Nested
    <3>1. PICK S \in SUBSET DOMAIN Index : \E depths \in [S -> 0..MaxDepth] :
             NestsWithin(depths) /\ \A c \in Documents : c.form = "typed" => c.root \in S
      BY TypedAssumption
    <3>2. PICK depths \in [S -> 0..MaxDepth] :
             NestsWithin(depths) /\ \A c \in Documents : c.form = "typed" => c.root \in S
      BY <3>1
    <3>3. depths \in Depths
      BY <3>2 DEF Depths
    <3>4. d.root \in S /\ depths[d.root] \in 0..MaxDepth
      BY <3>2
    <3>5. ~IsOneof(f.elt)
      BY <1>2, <1>3, IndexFacts DEF IsOneof
    <3>6. Fits(depths, f)
      BY <1>2, <3>2, <3>4, <3>5, BoundsOK DEF Fits, Room, Extra
    <3>7. Fitting(depths, stack)
      <4>1. Len(stack) = 1 /\ stack[1] = f
        BY <1>4
      <4> QED BY <3>6, <4>1 DEF Fitting
    <3> QED BY <3>2, <3>3, <3>7
  <2> QED BY <1>6, <1>9, <2>8, <2>9, Zenon DEF Sound, Follows, end
<1>10. CASE d.form = "json"
  <2> DEFINE a == Sym("val", "any", "any")
  <2>1. goal = <<a, end>>
    BY <1>1, <1>10 DEF Document, End, end
  <2>2. Skippable(a)
    BY Zenon DEF Skippable, Valued
  <2> HIDE DEF a
  <2>3. goal = Cons(a, r) /\ Good(goal, end)
    BY <1>8, <2>1
  <2>4. SkipFace(0, 0, goal, r, end)
    BY <2>2, <2>3, Zenon DEF SkipFace
  <2>5. Loose(goal, end)
    BY <2>4, Zenon DEF Loose
  <2>6. Flat(<<>>, f, r, end)
    <3>1. d.root \in DOMAIN Schema /\ IsFlat(d.root)
      BY <1>10, FlatAssumption, UnmarshalAssumption
    <3> QED BY <1>2, <3>1, Zenon DEF Flat, Based, r
  <2>7. f.at = "open" /\ f.at # "ignored"
    BY <1>2 DEF Fresh
  <2>8. FlatFace(f.at, goal, r)
    BY <2>3, <2>7, Zenon DEF FlatFace, AnyValue, a
  <2>9. Alone(stack, ret, goal, r, end)
    <3>1. Stacked(stack, <<>>, f)
      BY <1>4, <1>5 DEF Stacked
    <3> HIDE DEF f, r, end
    <3> QED BY <1>1, <2>6, <2>7, <2>8, <3>1, Zenon DEF Alone
  <2>10. Leads(goal, ahead, goal, end)
    BY <1>1, <2>3, LeadsNowhere
  <2>11. FlatTracks(stack, ret, ahead, goal, end)
    BY <1>7, <2>9, <2>10, Zenon DEF FlatTracks, r
  <2>12. ~Schematic(d)
    BY <1>10 DEF Schematic
  <2> QED BY <1>6, <2>5, <2>11, <2>12, Zenon DEF Sound, Follows, end
<1>11. CASE d.form = "tokens"
  <2>1. goal = <<Anything, end>>
    BY <1>1, <1>11 DEF Document, End, end, Anything
  <2>2. Loose(goal, end)
    BY <2>1, Zenon DEF Loose
  <2>3. ~Schematic(d) /\ d.form # "json"
    BY <1>11 DEF Schematic
  <2> QED BY <1>6, <2>2, <2>3, Zenon DEF Sound, Follows, end
<1> QED BY <1>3, <1>9, <1>10, <1>11 DEF Schematic

LEMMA CutGood == ASSUME NEW end PROVE Good(<<Cut, end>>, end) /\ IsCutShort(<<Cut, end>>)
<1>1. <<Cut, end>> = Cons(Cut, <<end>>) /\ Head(<<Cut, end>>) = Cut
  BY PairCons
<1>2. Good(Cons(Cut, <<end>>), end)
  BY EndGood, ConsFacts
<1> QED BY <1>1, <1>2 DEF IsCutShort

LEMMA LooseGood == ASSUME NEW end, Loose(goal, end) PROVE Good(goal, end)
<1>1. Good(<<end>>, end)
  BY EndGood
<1>2. CASE goal = <<Anything, end>>
  <2>1. <<Anything, end>> = Cons(Anything, <<end>>)
    BY PairCons
  <2> QED BY <1>1, <1>2, <2>1, ConsFacts
<1>3. ASSUME NEW p, NEW q, SkipFace(p, q, goal, <<end>>, end)
      PROVE  Good(goal, end)
  BY <1>1, <1>3, SkipFaceLong, LongCut
<1> QED BY CutGood, <1>1, <1>2, <1>3, Zenon DEF Loose

\* Once the parser has returned, what is left of the document still ends as it does.
LEMMA TracksGood ==
    ASSUME NEW end, stack = <<>>, Tracks(stack, ret, ahead, goal, end)
    PROVE  Good(goal, end)
<1>1. \A v, f : ~Stacked(stack, v, f)
  BY AppendSome, Zenon DEF Stacked
<1>2. CASE InSync(stack, ret, ahead, goal, end)
  <2>1. PICK y : Leads(y, ahead, goal, end)
    BY <1>1, <1>2, Zenon DEF InSync
  <2>2. PICK gs : Path(gs, ahead, goal, end)
    BY <2>1 DEF Leads
  <2> QED BY <2>2, PathGood
<1>3. CASE CutOff(stack, ret, ahead, goal, end)
  BY <1>3, CutGood, Zenon DEF CutOff
<1>4. CASE Failing(stack, ret, ahead, goal, end)
  BY <1>4, CutGood, Zenon DEF Failing, Refused
<1>5. ~Lagging(stack, ret, ahead, goal, end)
  BY <1>1, Zenon DEF Lagging
<1> QED BY <1>2, <1>3, <1>4, <1>5, Zenon DEF Tracks

LEMMA SoundExact ==
    ASSUME IInv, Sound
    PROVE  ExactAcceptance
<1> SUFFICES ASSUME Form \in {"typed", "deep"}, Done
             PROVE  IF Result = 0 THEN WholeDocument
                    ELSE IsCutShort(goal) \/ (Form = "deep" /\ ~WholeDocument)
  BY DEF ExactAcceptance
<1>1. PICK d \in Documents : Follows(d)
  BY Zenon DEF Sound
<1> DEFINE end == End(d)
<1>2. end = Sym("end", d.form, d.tokens) /\ end[2] = d.form
  BY DEF End, Sym
<1>3. Good(goal, end) => Form = d.form
  <2> HIDE DEF end
  <2> QED BY <1>2 DEF Good, Form
<1>4. goal = <<Cut, end>> => Good(goal, end) /\ IsCutShort(goal)
  BY CutGood
<1> HIDE DEF end
<1>5. Schematic(d)
  BY <1>1, <1>3, LooseGood, Zenon DEF Follows, Schematic, end
<1>6. Tracks(stack, ret, ahead, goal, end)
  BY <1>1, <1>5, Zenon DEF Follows, end
<1>7. stack = <<>> /\ ret # <<>> /\ ret \in {<<>>} \cup [1..1 -> Int]
  BY DEF Done, IInv, ControlOK
<1>8. \A v, f : ~Stacked(stack, v, f)
  BY <1>7, AppendSome, Zenon DEF Stacked
<1>9. CASE InSync(stack, ret, ahead, goal, end)
  <2>1. PICK y : ret = <<0>> /\ Owes(<<>>, y, end) /\ Leads(y, ahead, goal, end)
    BY <1>7, <1>8, <1>9, Zenon DEF InSync
  <2>2. y = <<end>>
    BY <2>1, OwesNothing
  <2>3. ahead = <<>>
    <3>1. ahead # <<>> => \E t, h : h \in Step(y, t)
      BY <2>1, LeadsTail, Zenon
    <3> QED BY <1>2, <2>2, <3>1, StepEnd
  <2>4. goal = <<end>>
    BY <2>1, <2>2, <2>3, LeadsNowhere
  <2>5. WholeDocument
    BY <2>3, <2>4 DEF WholeDocument
  <2>6. Result = 0
    BY <2>1 DEF Result
  <2> QED BY <2>5, <2>6
<1>10. CASE CutOff(stack, ret, ahead, goal, end)
  <2>1. goal = <<Cut, end>> /\ ret # << 0 >>
    BY <1>7, <1>10, Zenon DEF CutOff
  <2>2. Result # 0
    BY <1>7, <2>1 DEF Result
  <2> QED BY <1>4, <2>1, <2>2
<1>11. CASE Failing(stack, ret, ahead, goal, end)
  <2>1. ret = <<-1>> /\ Refused(ahead, goal, end)
    BY <1>11, Zenon DEF Failing
  <2>2. Result # 0
    BY <2>1 DEF Result
  <2>3. goal = <<Cut, end>> \/ (end[2] = "deep" /\ Good(goal, end) /\ ~WholeDocument)
    BY <2>1, Zenon DEF Refused, WholeDocument
  <2> QED BY <1>2, <1>3, <1>4, <2>2, <2>3
<1>12. ~Lagging(stack, ret, ahead, goal, end)
  BY <1>8, Zenon DEF Lagging
<1> QED BY <1>6, <1>9, <1>10, <1>11, <1>12, Zenon DEF Tracks

\* No step of the parser loses the document.
LEMMA SoundStep == IInv /\ Sound /\ [Next]_vars => IInv' /\ Sound'
<1> SUFFICES ASSUME IInv, Sound, [Next]_vars PROVE IInv' /\ Sound'
  OBVIOUS
<1>1. IInv'
  BY Preserved
<1>2. CASE Next
  BY <1>1, <1>2, SoundNext
<1>3. CASE UNCHANGED vars
  <2>1. stack' = stack /\ ret' = ret /\ ahead' = ahead /\ goal' = goal
    BY <1>3 DEF vars
  <2> QED BY <1>1, <2>1, Zenon DEF Sound, Follows, Nested
<1> QED BY <1>1, <1>2, <1>3

\* A document of the schema is accepted, and consumed to its last token, exactly when
\* it is whole: json_unmarshal_struct_internal and the functions it calls refuse it
\* only where it is cut short, or nests deeper than JSON_MAX_DEPTH.
THEOREM Acceptance == Spec => []ExactAcceptance
<1>1. Init => IInv /\ Sound
  BY Initially, SoundInit
<1>2. IInv /\ Sound /\ [Next]_vars => IInv' /\ Sound'
  BY SoundStep
<1>3. IInv /\ Sound => ExactAcceptance
  BY SoundExact
<1> QED BY <1>1, <1>2, <1>3, PTL DEF Spec

LEMMA SoundWhole ==
    ASSUME IInv, Sound
    PROVE  AcceptsWholeObject
<1> SUFFICES ASSUME Form = "json", Done, Result = 0 PROVE WholeDocument
  BY DEF AcceptsWholeObject
<1>1. PICK d \in Documents : Follows(d)
  BY Zenon DEF Sound
<1> DEFINE end == End(d)
<1>2. end = Sym("end", d.form, d.tokens) /\ end[2] = d.form
  BY DEF End, Sym
<1> HIDE DEF end
<1>3. stack = <<>> /\ ret = << 0 >>
  BY DEF Done, Result, IInv, ControlOK
<1>4. Good(goal, end)
  BY <1>1, <1>3, LooseGood, TracksGood, Zenon DEF Follows, end
<1>5. d.form = "json"
  BY <1>2, <1>4 DEF Good, Form
<1>6. FlatTracks(stack, ret, ahead, goal, end)
  <2>1. ~Schematic(d)
    BY <1>5 DEF Schematic
  <2> QED BY <1>1, <1>5, <2>1, Zenon DEF Follows, end
<1>7. /\ ~CutOff(stack, ret, ahead, goal, end) /\ ~Passing(stack, ret)
      /\ \A y, r : ~Alone(stack, ret, y, r, end) /\ ~Ignoring(stack, ret, y, r, end)
  <2>1. \A v, f : ~Stacked(stack, v, f)
    BY <1>3, AppendSome, Zenon DEF Stacked
  <2> QED BY <1>3, <2>1, Zenon DEF CutOff, Passing, Holds, Alone, Ignoring
<1>8. PICK y : Leads(y, ahead, goal, end) /\ Through(stack, ret, y, end)
  BY <1>3, <1>6, <1>7, Zenon DEF FlatTracks
<1>9. y = <<end>>
  <2>1. \A v, f : ~Stacked(stack, v, f)
    BY <1>3, AppendSome, Zenon DEF Stacked
  <2> QED BY <1>8, <2>1, Zenon DEF Through, Holds
<1>10. ahead = <<>>
  <2>1. ahead # <<>> => \E t, h : h \in Step(y, t)
    BY <1>8, LeadsTail, Zenon
  <2> QED BY <1>2, <1>9, <2>1, StepEnd
<1>11. goal = <<end>>
  BY <1>8, <1>9, <1>10, LeadsNowhere
<1> QED BY <1>10, <1>11 DEF WholeDocument

\* Where a struct has scalar members only, whatever JSON it is given is read to its
\* last token before json_unmarshal_struct_internal returns 0: nothing stops inside
\* an object, behind a comma or in a value that is skipped.
THEOREM WholeObject == Spec => []AcceptsWholeObject
<1>1. Init => IInv /\ Sound
  BY Initially, SoundInit
<1>2. IInv /\ Sound /\ [Next]_vars => IInv' /\ Sound'
  BY SoundStep
<1>3. IInv /\ Sound => AcceptsWholeObject
  BY SoundWhole
<1> QED BY <1>1, <1>2, <1>3, PTL DEF Spec
=============================================================================
