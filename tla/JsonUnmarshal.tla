---------------------------- MODULE JsonUnmarshal ----------------------------
(***************************************************************************)
(* The generated JSON parser: json_unmarshal_struct_internal and the       *)
(* functions it calls (src/src/gencode/codes/json_parse.c), as they        *)
(* consume one document token by token.                                    *)
(*                                                                         *)
(* The C call stack is explicit: a frame is an active call (or one of the  *)
(* two array loops written inside json_unmarshal_struct_internal), "at" is *)
(* where it stands, and "ret" carries the return code of a call that has   *)
(* just ended to the frame below.  The document is chosen while it is      *)
(* read: "ahead" are the tokens lexed but not consumed, because the code   *)
(* peeked, rewound, or met input its lexer cannot pass.                    *)
(***************************************************************************)
EXTENDS JsonDocument

CONSTANTS
    Mask,       \* mask name -> [sel: selected keys, sub: key -> mask name]
    MaxDepth,   \* JSON_MAX_DEPTH
    Documents,  \* the kinds of document and how they are read: [root: the struct
                \* json_unmarshal_<root> was generated for, mask: the field mask the
                \* caller passes or "all", form, tokens: what it is made of, max: of
                \* how many at most]
    MaxTokens   \* bound: tokens in any document

ASSUME UnmarshalAssumption ==
    /\ MaxDepth \in Nat /\ MaxTokens \in Nat /\ FixedSize \in 0..MaxTokens
    /\ \A d \in Documents :
         /\ d.root \in DOMAIN Schema /\ d.mask \in {"all"} \cup DOMAIN Mask
         /\ d.form \in {"typed", "deep", "json", "tokens"} /\ d.max \in 0..MaxTokens
    /\ \A m \in DOMAIN Mask : \A k \in DOMAIN Mask[m].sub :
         Mask[m].sub[k] \in {"all"} \cup DOMAIN Mask

\* depths[s] is the depth at which struct s is parsed, at most, where a document
\* follows the schema: a map and a oneof take a level of their own.
NestsWithin(depths) ==
    \A s \in DOMAIN depths : \A k \in DOMAIN Index[s] :
      LET f == Index[s][k]
          below == depths[s] + (IF f.k \in {"map", "maps"} \/ IsOneof(f.elt) THEN 2 ELSE 1)
      IN  /\ IsStruct(f.elt) => f.elt \in DOMAIN depths /\ below <= depths[f.elt]
          /\ IsOneof(f.elt) => \A v \in DOMAIN Variants[f.elt] :
               Variants[f.elt][v] \in DOMAIN depths /\ below <= depths[Variants[f.elt][v]]

\* A "typed" document is one that never nests deeper than MaxDepth.
ASSUME TypedAssumption ==
    \E S \in SUBSET DOMAIN Index : \E depths \in [S -> 0..MaxDepth] :
      /\ NestsWithin(depths)
      /\ \A d \in Documents : d.form = "typed" => d.root \in S

\* A struct of scalars. The codes of other members are not all looked at (Fails), so
\* only such a struct can be held to refuse what is not of its form.
IsFlat(s) == \A k \in DOMAIN Schema[s] : Schema[s][k].k = "one" /\ Schema[s][k].elt \in Scalar
ASSUME FlatAssumption == \A d \in Documents : d.form = "json" => IsFlat(d.root)

VARIABLES
    stack,      \* active calls, the innermost last
    ret,        \* <<>>, or <<r>>: the innermost call has returned r
    ahead,      \* tokens lexed and not yet consumed
    left,       \* how many more tokens the document may still have
    goal        \* ghost: what is missing from a document of the given form

vars == <<stack, ret, ahead, left, goal>>

PARSE == -4     \* JSON_GEN_ERROR_PARSE
NoKey == "eof"  \* no row: a key is a string, and the end of the input is none

\* An active call: of the function fn, for element type elt.
Frame(fn, elt, depth) ==
    [fn |-> fn, at |-> "open", elt |-> elt, depth |-> depth, mask |-> "all",
     key |-> NoKey, n |-> 0, brace |-> 0, bracket |-> 0]

Init ==
    /\ \E d \in Documents :
         /\ stack = <<[Frame("struct", d.root, 0) EXCEPT !.mask = d.mask]>>
         /\ left = d.max /\ goal = Document(d.form, d.root, d.tokens)
    /\ ret = <<>> /\ ahead = <<>>

Done == stack = <<>>
Top == stack[Len(stack)]
Below == SubSeq(stack, 1, Len(stack) - 1)

-----------------------------------------------------------------------------
(***************************************************************************)
(* The lexer.                                                              *)
(***************************************************************************)
\* What a document of its kind may continue with, after what there is of it.
Produce(t) ==
    /\ t \in goal[Len(goal)][3]
    /\ \E s \in Expand(Head(goal), t) : goal' = s \o Tail(goal)

\* The document goes on with t, behind the tokens already lexed.
Lex(t) ==
    IF t = "eof"
      THEN left' = 0 /\ goal' = CutShort(goal) /\ UNCHANGED ahead
      ELSE /\ left > 0 /\ left' = left - 1
           /\ ahead' = Append(ahead, t)
           /\ Produce(t)

\* Look at the token n places ahead without consuming anything.
Peek(n, t) ==
    IF n < Len(ahead) THEN t = ahead[n + 1] /\ UNCHANGED <<ahead, left, goal>>
                      ELSE Lex(t)

\* json_next_token: consume t, unless the lexer cannot move past it.
Take(t) ==
    IF ahead # <<>>
      THEN /\ t = Head(ahead)
           /\ ahead' = IF t = "stuck" THEN ahead ELSE Tail(ahead)
           /\ UNCHANGED <<left, goal>>
    ELSE IF t \in {"eof", "stuck"} THEN Lex(t)
    ELSE /\ left > 0 /\ left' = left - 1
         /\ UNCHANGED ahead
         /\ Produce(t)

Input == UNION {d.tokens : d \in Documents} \cup {"eof"}
NoInput == UNCHANGED <<ahead, left, goal>>

(***************************************************************************)
(* Control.                                                                *)
(***************************************************************************)
Become(f) == stack' = Append(Below, f) /\ ret' = <<>>
Goto(at) == Become([Top EXCEPT !.at = at])
Call(at, f) == stack' = Append(Append(Below, [Top EXCEPT !.at = at]), f) /\ ret' = <<>>
Return(r) == stack' = Below /\ ret' = <<r>>

\* A loop has stored one more element; n is its length, which a loop that does
\* not need input to store elements can raise without end: it stops counting
\* one above MaxTokens.
Stored(at) ==
    Become([Top EXCEPT !.at = at, !.n = IF @ > MaxTokens THEN @ ELSE @ + 1])

In(fn, at) == ~Done /\ ret = <<>> /\ Top.fn = fn /\ Top.at = at
Back(fn, at) == ~Done /\ ret # <<>> /\ Top.fn = fn /\ Top.at = at

IsError(t) == Code(t) = -1

-----------------------------------------------------------------------------
(***************************************************************************)
(* json_unmarshal_struct_internal.                                         *)
(***************************************************************************)
Field == Index[Top.elt][Top.key]
\* A row that is not a member has no number (field_index -1) a mask could select.
Selected(f, key) ==
    f.mask = "all" \/ (key \in DOMAIN Schema[f.elt] /\ key \in Mask[f.mask].sel)
SubMask(f) ==
    IF f.mask # "all" /\ f.key \in DOMAIN Mask[f.mask].sub
      THEN Mask[f.mask].sub[f.key] ELSE "all"
NextField == Become([Top EXCEPT !.at = "fields", !.key = NoKey])

TooDeep ==
    /\ In("struct", "open") /\ Top.depth > MaxDepth
    /\ Return(-1) /\ NoInput

\* param->in_array: the struct is read as an element of an array.
InArray == Len(stack) > 1 /\ stack[Len(stack) - 1].fn \in {"array", "fixed"}

StructOpen ==
    /\ In("struct", "open") /\ Top.depth <= MaxDepth
    /\ \E t \in Input : Take(t) /\
         CASE t = "{" -> Goto("fields")
           [] t = "eof" -> Return(IF InArray THEN 0 ELSE -1)
           [] t = "]" /\ InArray -> Return(1)
           [] OTHER -> Return(-1)

\* Mutant: a comma is looked at to see what follows it, and never consumed.
StructFieldPeeks ==
    /\ In("struct", "fields")
    /\ \E t \in Input :
         IF t = "," THEN Peek(0, t) /\ Goto("comma")
         ELSE /\ Take(t)
              /\ CASE t = "}" -> Return(0)
                   [] IsString(t) ->
                        Become([Top EXCEPT !.at = "colon",
                                !.key = IF t \in DOMAIN Index[Top.elt] THEN t ELSE NoKey])
                   [] OTHER -> Return(-1)

StructField ==
    /\ In("struct", "fields")
    /\ \E t \in Input : Take(t) /\
         CASE t = "}" -> Return(0)
           [] t = "," -> Goto("comma")
           [] IsString(t) ->
                Become([Top EXCEPT !.at = "colon",
                        !.key = IF t \in DOMAIN Index[Top.elt] THEN t ELSE NoKey])
           [] OTHER -> Return(-1)

StructComma ==
    /\ In("struct", "comma")
    /\ \E t \in Input : Peek(0, t) /\ IF t = "}" THEN Return(-1) ELSE Goto("fields")

StructColon ==
    /\ In("struct", "colon")
    /\ \E t \in Input : Take(t) /\
         IF t # ":" THEN Return(-1)
         ELSE IF Top.key = NoKey \/ ~Selected(Top, Top.key)
           THEN Call("ignored", Frame("ignore", "any", Top.depth))
         ELSE Goto(IF Field.null THEN "nullable" ELSE "value")

StructIgnored ==
    /\ Back("struct", "ignored") /\ NoInput
    /\ IF ret[1] # 0 THEN Return(-1) ELSE NextField

StructNullable ==
    /\ In("struct", "nullable")
    /\ \E t \in Input :
         IF t = "null" THEN Take(t) /\ NextField ELSE Peek(0, t) /\ Goto("value")

\* Mutant: only negative codes end the object, as everywhere else.
StructScalarLenient ==
    /\ In("struct", "value") /\ Field.k = "one" /\ Field.elt \in Scalar
    /\ \E t \in Input : Take(t) /\
         LET r == ScalarCode(Field.elt, t) IN IF r < 0 THEN Return(r) ELSE NextField

StructScalar ==
    /\ In("struct", "value") /\ Field.k = "one" /\ Field.elt \in Scalar
    /\ \E t \in Input : Take(t) /\
         LET r == ScalarCode(Field.elt, t) IN IF r # 0 THEN Return(r) ELSE NextField

\* The call, or the loop of its own, that a field of type f is handed to.
Callee(f, frame) ==
    LET d == frame.depth
    IN CASE f.k = "one" /\ IsStruct(f.elt) ->
              [Frame("struct", f.elt, d + 1) EXCEPT !.mask = SubMask(frame)]
         [] f.k = "one" /\ IsOneof(f.elt) -> Frame("oneof", f.elt, d + 1)
         [] f.k = "map" -> Frame("map", f.elt, d + 1)
         [] f.k \in {"maps", "fixed"} -> Frame(f.k, f.elt, d)
         [] f.k = "array" /\ IsStruct(f.elt) -> Frame("array", f.elt, d)
         [] f.k = "array" /\ IsOneof(f.elt) -> Frame("oneofs", f.elt, d + 1)
         [] f.k = "array" /\ f.elt = "enum" -> Frame("enums", f.elt, d)
         [] OTHER -> Frame("scalars", f.elt, d)

StructCall ==
    /\ In("struct", "value") /\ ~(Field.k = "one" /\ Field.elt \in Scalar)
    /\ Call("called", Callee(Field, Top)) /\ NoInput

\* Which return codes end the object: those of an array of scalars never do,
\* of a nested struct only -1.
Fails(f, r) ==
    CASE f.k = "array" /\ f.elt \in Scalar -> FALSE
      [] f.k = "one" /\ IsStruct(f.elt) -> r = -1
      [] OTHER -> r < 0

StructBack ==
    /\ Back("struct", "called") /\ NoInput
    /\ IF Fails(Field, ret[1]) THEN Return(ret[1]) ELSE NextField

Struct ==
    \/ TooDeep \/ StructOpen \/ StructField \/ StructComma \/ StructColon
    \/ StructIgnored \/ StructNullable \/ StructScalar \/ StructCall \/ StructBack

-----------------------------------------------------------------------------
(***************************************************************************)
(* Arrays.  After an element every loop accepts "]" and ","; most take any *)
(* other token but an error for a separator too.                           *)
(***************************************************************************)
Separator(fn, error) ==
    /\ In(fn, "sep")
    /\ \E t \in Input : Take(t) /\
         CASE t = "]" -> Return(0)
           [] t = "eof" \/ t \in LexError -> Return(error)
           [] OTHER -> Goto("elem")

Open(fn, error) ==
    /\ In(fn, "open")
    /\ \E t \in Input : Take(t) /\
         IF t = "[" THEN Goto("first") ELSE Return(error)

\* An empty array is recognised by peeking for its "]".
First(fn) ==
    /\ In(fn, "first")
    /\ \E t \in Input :
         IF t = "]" THEN Take(t) /\ Return(0) ELSE Peek(0, t) /\ Goto("elem")

\* Mutant: an element is at the depth of its array.
ElementAtDepth(depth) == Frame("struct", Top.elt, Top.depth)
Element(depth) == Frame("struct", Top.elt, depth)

\* json_unmarshal_array_internal: an array of structs.
ArrayElement ==
    /\ In("array", "elem") /\ NoInput
    /\ Call("called", Element(Top.depth + 1))

ArrayBack ==
    /\ Back("array", "called") /\ NoInput
    /\ CASE ret[1] < 0 -> Return(ret[1])
         [] ret[1] = 1 -> Return(0)
         [] OTHER -> Stored("sep")

Array ==
    \/ Open("array", PARSE) \/ First("array") \/ ArrayElement \/ ArrayBack
    \/ Separator("array", PARSE)

\* What a loop does with the code r that reading an element has given.
AfterElement(r) ==
    CASE r = Code("]") -> Return(0)
      [] r < 0 -> Return(r)
      [] OTHER -> Stored("sep")

\* json_unmarshal_array_internal_<type>: numbers and strings.
ScalarsOpen ==
    /\ In("scalars", "open")
    /\ \E t \in Input : Take(t) /\ IF t = "[" THEN Goto("elem") ELSE Return(-1)

ScalarsElement ==
    /\ In("scalars", "elem")
    /\ \E t \in Input : Take(t) /\ AfterElement(ScalarCode(Top.elt, t))

Scalars == ScalarsOpen \/ ScalarsElement \/ Separator("scalars", -1)

\* json_unmarshal_array_internal_enum: commas are skipped wherever they are.
EnumsOpen ==
    /\ In("enums", "open")
    /\ \E t \in Input : Take(t) /\
         CASE t = "null" -> Return(0)
           [] t = "[" -> Goto("elem")
           [] OTHER -> Return(-1)

\* Mutant: a separator is expected, for which the loop has no state.
EnumsElementSep ==
    /\ In("enums", "elem")
    /\ \E t \in Input : Take(t) /\
         CASE t = "]" -> Return(0)
           [] t = "," -> Goto("elem")
           [] OTHER -> LET r == ScalarCode("enum", t)
                       IN  IF r # 0 THEN Return(r) ELSE Stored("sep")

EnumsElement ==
    /\ In("enums", "elem")
    /\ \E t \in Input : Take(t) /\
         CASE t = "]" -> Return(0)
           [] t = "," -> Goto("elem")
           [] OTHER -> LET r == ScalarCode("enum", t)
                       IN  IF r # 0 THEN Return(r) ELSE Stored("elem")

Enums == EnumsOpen \/ EnumsElement

\* The loop over a fixed-size array; n counts its elements.
FixedElement ==
    /\ In("fixed", "elem")
    /\ IF Top.n >= FixedSize THEN Return(-1) /\ NoInput
       ELSE IF IsStruct(Top.elt)
         THEN Call("called", Element(Top.depth + 1)) /\ NoInput
       ELSE IF IsOneof(Top.elt)
         THEN Call("called", Frame("oneof", Top.elt, Top.depth + 1)) /\ NoInput
       ELSE \E t \in Input : Take(t) /\ AfterElement(ScalarCode(Top.elt, t))

FixedBack ==
    /\ Back("fixed", "called") /\ NoInput
    /\ AfterElement(ret[1])

Fixed ==
    \/ Open("fixed", -1) \/ First("fixed") \/ FixedElement \/ FixedBack
    \/ Separator("fixed", -1)

-----------------------------------------------------------------------------
(***************************************************************************)
(* json_unmarshal_map_object, and the loop over an array of maps.          *)
(***************************************************************************)
MapOpen ==
    /\ In("map", "open")
    /\ \E t \in Input : Take(t) /\
         CASE t = "null" -> Return(0)
           [] t = "{" -> Goto("key")
           [] OTHER -> Return(-1)

MapKey ==
    /\ In("map", "key")
    /\ \E t \in Input : Take(t) /\
         CASE t = "}" -> Return(0)
           [] t = "," -> Goto("key")
           [] IsString(t) -> Goto("colon")
           [] OTHER -> Return(-1)

MapColon ==
    /\ In("map", "colon")
    /\ \E t \in Input : Take(t) /\ IF t = ":" THEN Goto("value") ELSE Return(-1)

MapScalar ==
    /\ In("map", "value") /\ Top.elt \in Scalar
    /\ \E t \in Input : Take(t) /\
         LET r == ScalarCode(Top.elt, t) IN IF r < 0 THEN Return(r) ELSE Stored("key")

MapStruct ==
    /\ In("map", "value") /\ IsStruct(Top.elt) /\ NoInput
    /\ Call("called", Frame("struct", Top.elt, Top.depth + 1))

MapBack ==
    /\ Back("map", "called") /\ NoInput
    /\ IF ret[1] < 0 THEN Return(ret[1]) ELSE Stored("key")

MapObject == MapOpen \/ MapKey \/ MapColon \/ MapScalar \/ MapStruct \/ MapBack

MapsOpen ==
    /\ In("maps", "open")
    /\ \E t \in Input : Take(t) /\
         CASE t = "null" -> Return(0)
           [] t = "[" -> Goto("first")
           [] OTHER -> Return(-1)

MapsElement ==
    /\ In("maps", "elem") /\ NoInput
    /\ Call("called", Frame("map", Top.elt, Top.depth + 1))

MapsBack ==
    /\ Back("maps", "called") /\ NoInput
    /\ IF ret[1] < 0 THEN Return(ret[1]) ELSE Stored("sep")

MapsSeparator ==
    /\ In("maps", "sep")
    /\ \E t \in Input : Take(t) /\
         CASE t = "]" -> Return(0)
           [] t = "," -> Goto("first")
           [] OTHER -> Return(-1)

Maps == MapsOpen \/ First("maps") \/ MapsElement \/ MapsBack \/ MapsSeparator

-----------------------------------------------------------------------------
(***************************************************************************)
(* json_unmarshal_ignore_value: count braces and brackets until both are   *)
(* level again.                                                            *)
(***************************************************************************)
Level(f, t) ==
    [f EXCEPT !.brace = @ + (CASE t = "{" -> 1 [] t = "}" -> -1 [] OTHER -> 0),
              !.bracket = @ + (CASE t = "[" -> 1 [] t = "]" -> -1 [] OTHER -> 0)]

\* Mutant: only braces are counted.
IsLevelBraces(f) == f.brace = 0
IsLevel(f) == f.brace = 0 /\ f.bracket = 0

Ignore ==
    /\ In("ignore", "open")
    /\ \E t \in Input : Take(t) /\
         IF t = "eof" THEN Return(-1)
         ELSE IF IsLevel(Level(Top, t)) THEN Return(0)
         ELSE Become(Level(Top, t))

(***************************************************************************)
(* json_unmarshal_oneof_internal: json_scan_tag_value looks for the        *)
(* discriminator ahead of the position, n tokens away; the variant is then *)
(* parsed from the opening brace.                                          *)
(***************************************************************************)
Scan(at, t) == [Top EXCEPT !.at = at, !.n = IF t = "stuck" THEN @ ELSE @ + 1]

OneofOpen ==
    /\ In("oneof", "open")
    /\ \E t \in Input : Peek(0, t) /\
         CASE t = "{" -> Become(Scan("key", t))
           [] t = "eof" -> Return(0)
           [] OTHER -> Return(-1)

OneofKey ==
    /\ In("oneof", "key")
    /\ \E t \in Input : Peek(Top.n, t) /\
         CASE t = "," -> Become(Scan("key", t))
           [] IsString(t) ->
                Become([Scan("colon", t) EXCEPT !.key = IF t = TagKey THEN t ELSE NoKey])
           [] OTHER -> Return(-1)

OneofColon ==
    /\ In("oneof", "colon")
    /\ \E t \in Input : Peek(Top.n, t) /\
         IF t # ":" THEN Return(-1)
         ELSE Become(Scan(IF Top.key = TagKey THEN "tag" ELSE "skip", t))

\* The value of another member: skipped the same way, its code not looked at.
OneofSkip ==
    /\ In("oneof", "skip")
    /\ \E t \in Input : Peek(Top.n, t) /\
         LET f == Level(Scan("skip", t), t)
         IN  IF t = "eof" \/ IsLevel(f)
               THEN Become([f EXCEPT !.at = "key", !.brace = 0, !.bracket = 0])
             ELSE Become(f)

OneofTag ==
    /\ In("oneof", "tag")
    /\ \E t \in Input : Peek(Top.n, t) /\
         IF t \in DOMAIN Variants[Top.elt]
           THEN Call("called", Frame("struct", Variants[Top.elt][t], Top.depth + 1))
         ELSE Return(-1)

OneofBack ==
    /\ Back("oneof", "called") /\ NoInput
    /\ Return(IF ret[1] < 0 THEN -1 ELSE 0)

Oneof == OneofOpen \/ OneofKey \/ OneofColon \/ OneofSkip \/ OneofTag \/ OneofBack

\* json_unmarshal_array_internal_oneof: an unexpected separator is left in place.
OneofsOpen ==
    /\ In("oneofs", "open")
    /\ \E t \in Input : Take(t) /\
         CASE t = "null" -> Return(0)
           [] t = "[" -> Goto("first")
           [] OTHER -> Return(-1)

OneofsElement ==
    /\ In("oneofs", "elem") /\ NoInput
    /\ Call("called", Frame("oneof", Top.elt, Top.depth))

OneofsBack ==
    /\ Back("oneofs", "called") /\ NoInput
    /\ IF ret[1] < 0 THEN Return(-1) ELSE Stored("sep")

OneofsSeparator ==
    /\ In("oneofs", "sep")
    /\ \E t \in Input :
         CASE t = "]" -> Take(t) /\ Return(0)
           [] t = "," -> Take(t) /\ Goto("first")
           [] t = "eof" \/ t \in LexError -> Peek(0, t) /\ Return(-1)
           [] OTHER -> Peek(0, t) /\ Goto("first")

Oneofs ==
    OneofsOpen \/ First("oneofs") \/ OneofsElement \/ OneofsBack \/ OneofsSeparator

-----------------------------------------------------------------------------
\* The parser has returned to its caller.
Finished == Done /\ UNCHANGED vars

Next ==
    \/ Struct \/ Array \/ Scalars \/ Enums \/ Fixed \/ MapObject \/ Maps
    \/ Ignore \/ Oneof \/ Oneofs \/ Finished

Spec == Init /\ [][Next]_vars

\* One call on one thread: it keeps running until it returns.
FairSpec == Spec /\ WF_vars(Next)

-----------------------------------------------------------------------------
(***************************************************************************)
(* Properties.                                                             *)
(***************************************************************************)
\* Where a call of each function can stand.
Places ==
    [struct |-> {"open", "fields", "comma", "colon", "ignored", "nullable", "value", "called"},
     array |-> {"open", "first", "elem", "called", "sep"},
     scalars |-> {"open", "elem", "sep"},
     enums |-> {"open", "elem"},
     fixed |-> {"open", "first", "elem", "called", "sep"},
     map |-> {"open", "key", "colon", "value", "called"},
     maps |-> {"open", "first", "elem", "called", "sep"},
     ignore |-> {"open"},
     oneof |-> {"open", "key", "colon", "skip", "tag", "called"},
     oneofs |-> {"open", "first", "elem", "called", "sep"}]
Function == DOMAIN Places
Waiting == {"called", "ignored"}

\* The element types each function is called for.
Handles ==
    [struct |-> DOMAIN Index, array |-> DOMAIN Index,
     scalars |-> Scalar \ {"enum"}, enums |-> {"enum"},
     fixed |-> Scalar \cup DOMAIN Index \cup DOMAIN Variants,
     map |-> Scalar \cup DOMAIN Index, maps |-> Scalar \cup DOMAIN Index,
     ignore |-> {"any"}, oneof |-> DOMAIN Variants, oneofs |-> DOMAIN Variants]

Place == UNION {Places[fn] : fn \in Function}
ElementType == UNION {Handles[fn] : fn \in Function}

FrameSet ==
    [fn : Function, at : Place, elt : ElementType,
     depth : Nat, mask : {"all"} \cup DOMAIN Mask,
     key : Input \cup {NoKey}, n : Nat, brace : Int, bracket : Int]

FrameOK(f) ==
    /\ f \in FrameSet /\ f.at \in Places[f.fn] /\ f.elt \in Handles[f.fn]
    /\ f.fn = "struct" /\ f.at \in {"nullable", "value", "called"}
         => f.key \in DOMAIN Index[f.elt]
    /\ f.fn = "struct" /\ f.at = "colon" => f.key \in DOMAIN Index[f.elt] \cup {NoKey}

\* Every active call stands at a place of its function, for an element type it
\* can handle and (in the middle of a member) a field that exists; and a code is
\* on its way to a caller exactly when a call has just ended.
TypeOK ==
    /\ stack \in Seq(FrameSet)
    /\ \A i \in 1..Len(stack) : FrameOK(stack[i])
    /\ \A i \in 1..Len(stack) - 1 : stack[i].at \in Waiting
    /\ ret \in {<<>>} \cup [1..1 -> Int]
    /\ IF Done \/ Top.at \in Waiting THEN ret # <<>> ELSE ret = <<>>
    /\ ahead \in Seq(Input) /\ left \in Nat /\ Len(ahead) + left <= MaxTokens

\* JSON_MAX_DEPTH bounds the native call stack for every schema and every
\* document: each frame that does not count its depth (a loop over an array,
\* a value being skipped) lies between two that do.
StackBounded == Len(stack) <= 2 * MaxDepth + 4

Result == ret[1]
Form == goal[Len(goal)][2]
WholeDocument == Len(goal) = 1 /\ ahead = <<>>

\* A document of the schema is accepted, and consumed to its last token, if it is
\* whole; it is refused only where it is cut short, or nested too deeply.  No
\* function reads past its own value, stops inside it or takes offence at it.  Of
\* the schema means: each member its index has a row for has a value of that row's
\* type, members with an empty key (an object) or the key of a length (an int)
\* included; every other member is skipped, whatever it is.
ExactAcceptance ==
    Form \in {"typed", "deep"} /\ Done =>
        IF Result = 0 THEN WholeDocument
        ELSE IsCutShort(goal) \/ (Form = "deep" /\ ~WholeDocument)

\* When the parser says 0, the document was one whole JSON object: whatever
\* the types of the values, no part of it is left unread.
AcceptsWholeObject == Form = "json" /\ Done /\ Result = 0 => WholeDocument

\* Whatever the input, the parser returns, but for two loops that end at no token.
\* That over an array of enums takes the end of the input for an element, and stores
\* more of them than the document has tokens.  Those that skip a value, in a struct
\* and in the scan for a discriminator, wait for brackets behind input that the lexer
\* reports as an error and does not pass.
EndlessEnums == stack # <<>> /\ Top.fn = "enums" /\ Top.n > MaxTokens
Skipping == Top.fn = "ignore" \/ (Top.fn = "oneof" /\ Top.at = "skip")
EndlessSkip ==
    stack # <<>> /\ Skipping /\ ~IsLevel(Top) /\ Top.n < Len(ahead) /\ ahead[Top.n + 1] = "stuck"
Termination == <>(Done \/ EndlessEnums \/ EndlessSkip)
=============================================================================
