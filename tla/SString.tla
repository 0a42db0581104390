------------------------------ MODULE SString ------------------------------
(***************************************************************************)
(* The dynamic string of src/src/utils/sstr.c together with the inlined    *)
(* fast paths of the generated JSON runtime (codes/json_parse.c): one      *)
(* sstr_t, its kind of storage, and the memory behind it.                  *)
(*                                                                         *)
(* The block is a sequence of bytes; bytes that malloc or realloc left     *)
(* unwritten are Junk.  A store never grows the block: what falls outside  *)
(* is lost, and "reach" remembers how far the last call wrote, so that a   *)
(* capacity computed wrongly shows as reach > Len(block).                  *)
(***************************************************************************)
EXTENDS Integers, Sequences

CONSTANTS
    Byte,       \* the bytes callers append
    NUL, Space, \* '\0' and ' ', written by the library itself
    Junk,       \* contents of memory nobody has written
    ShortCap,   \* SHORT_STR_CAPACITY
    CapDelta,   \* CAP_ADD_DELTA
    SizeMod,    \* 2^w for a size_t of w bits
    MaxData,    \* bound: bytes appended by one call
    MaxLength   \* bound: length of the string

ASSUME SStringAssumption ==
    /\ ShortCap \in Nat /\ CapDelta \in Nat
    /\ MaxData \in Nat /\ MaxLength \in Nat /\ SizeMod \in Nat
    /\ Junk \notin Byte \cup {NUL, Space}

VARIABLES
    type,       \* SSTR_TYPE_SHORT, _LONG or _REF
    length,
    capacity,   \* un.long_str.capacity; meaningful for LONG only
    block,      \* un.short_str, *un.long_str.data or *un.ref_str.data
    reach,      \* ghost: the highest byte of block the last call touched
    arg,        \* ghost: the bytes the last call was asked to append
    use         \* "any" string of the program, the "token" buffer of the generated
                \* parser, or that buffer while an "error" message replaces a token

vars == <<type, length, capacity, block, reach, arg, use>>

Char == Byte \cup {NUL, Space}
Data == UNION {[1..n -> Byte] : n \in 0..MaxData}
Run(c, n) == [i \in 1..n |-> c]

\* The bytes a caller sees: sstr_cstr(s)[0 .. sstr_length(s) - 1].
Value == [i \in 1..length |-> block[i]]

\* memcpy/memset of d at offset off.
Store(m, off, d) ==
    [i \in 1..Len(m) |-> IF i > off /\ i <= off + Len(d) THEN d[i - off] ELSE m[i]]

\* malloc or realloc to n bytes, the old contents kept.
Resized(m, n) == [i \in 1..n |-> IF i <= Len(m) THEN m[i] ELSE Junk]

\* a - b in size_t.
SizeSub(a, b) == IF a >= b THEN a - b ELSE (a - b) + SizeMod

-----------------------------------------------------------------------------
\* sstr_new, and sstr_of on data: the short buffer or a block of exactly n + 1.
New == /\ type = "SHORT" /\ length = 0 /\ capacity = 0
       /\ block = Run(NUL, ShortCap + 1)
       /\ reach = ShortCap + 1

Of(d) == LET n == Len(d) IN
    /\ length = n
    /\ reach = n + 1
    /\ IF n <= ShortCap
         THEN /\ type = "SHORT" /\ capacity = 0
              /\ block = Store(Run(NUL, ShortCap + 1), 0, Append(d, NUL))
         ELSE /\ type = "LONG" /\ capacity = n
              /\ block = Append(d, NUL)

\* sstr_ref: the caller's bytes, not copied and not terminated.
Ref(d) == /\ type = "REF" /\ length = Len(d) /\ capacity = 0
          /\ block = d
          /\ reach = 0

Init == /\ arg = <<>>
        /\ use \in {"any", "token"}
        /\ New \/ (use = "any" /\ \E d \in Data : Of(d) \/ Ref(d))

-----------------------------------------------------------------------------
\* Mutant: the terminator is forgotten.
WriteEndUnterminated(m, d) ==
    /\ block' = Store(m, length, d)
    /\ reach' = length + Len(d)
    /\ length' = length + Len(d)
    /\ arg' = d

\* Write d and its terminator behind the current bytes of memory m.
WriteEnd(m, d) ==
    /\ block' = Store(m, length, Append(d, NUL))
    /\ reach' = length + Len(d) + 1
    /\ length' = length + Len(d)
    /\ arg' = d

FitsShort(n) == type = "SHORT" /\ length + n <= ShortCap

\* Mutant: no room is kept for the terminator.
FitsLongExactly(n) == type = "LONG" /\ SizeSub(capacity, length) >= n
FitsLong(n) == type = "LONG" /\ SizeSub(capacity, length) > n

InPlace(d) ==
    /\ FitsShort(Len(d)) \/ FitsLong(Len(d))
    /\ WriteEnd(block, d)
    /\ UNCHANGED <<type, capacity>>

\* Mutant: the new block is zeroed, and the bytes of the short buffer not copied.
PromoteZeroed(d) ==
    /\ type = "SHORT" /\ ~FitsShort(Len(d))
    /\ LET n == length + Len(d) + CapDelta
       IN  /\ WriteEnd(Resized(Run(NUL, length), n + 1), d)
           /\ capacity' = n
    /\ type' = "LONG"

\* SHORT -> LONG: only the bytes of the string move, not the whole buffer.
Promote(d) ==
    /\ type = "SHORT" /\ ~FitsShort(Len(d))
    /\ LET n == length + Len(d) + CapDelta
       IN  /\ WriteEnd(Resized(Value, n + 1), d)
           /\ capacity' = n
    /\ type' = "LONG"

\* Here the recorded capacity counts the terminator's byte as well.
Regrow(d) ==
    /\ type = "LONG" /\ ~FitsLong(Len(d))
    /\ LET n == length + Len(d) + CapDelta + 1
       IN  /\ WriteEnd(Resized(block, n), d)
           /\ capacity' = n
    /\ UNCHANGED type

Extend(d) ==
    /\ length + Len(d) <= MaxLength
    /\ InPlace(d) \/ Promote(d) \/ Regrow(d)

\* The entry points that extend a string; all assert that it is not a REF.
AppendOf == \E d \in Data : Extend(d)

AppendZero == \E n \in 0..MaxData : Extend(Run(NUL, n))
AppendIndent == \E n \in 1..MaxData : Extend(Run(Space, n))

Clear ==
    /\ length' = 0 /\ arg' = <<>>
    /\ \/ /\ type = "SHORT"
          /\ block' = Store(block, 0, <<NUL>>) /\ reach' = 1
          /\ UNCHANGED capacity
       \/ /\ type = "LONG"                   \* the block is freed, data = NULL
          /\ block' = <<>> /\ capacity' = 0 /\ reach' = 0
       \/ /\ type = "REF"
          /\ block' = <<>> /\ reach' = 0
          /\ UNCHANGED capacity
    /\ UNCHANGED type

(***************************************************************************)
(* The token buffer of the generated parser.  It is created by sstr_new    *)
(* and filled through the inlined helpers.  Between tokens it is emptied   *)
(* by sstr_clear_fast_, which keeps a LONG block and stores a terminator   *)
(* through its data pointer; on an error by sstr_clear, which frees that   *)
(* block, and the message is appended at once.                             *)
(***************************************************************************)
ClearFast ==
    /\ type # "REF"
    /\ block' = Store(block, 0, <<NUL>>) /\ reach' = 1
    /\ length' = 0 /\ arg' = <<>>
    /\ UNCHANGED <<type, capacity>>

\* sstr_append_of_fast_ makes the two tests of InPlace itself, with the same
\* outcome, and calls sstr_append_of otherwise.
AppendOfFast == AppendOf

StringCall ==
    /\ use = "any" /\ UNCHANGED use
    /\ AppendOf \/ AppendZero \/ AppendIndent \/ Clear

TokenCall ==
    /\ use = "token" /\ UNCHANGED use
    /\ ClearFast \/ AppendOfFast

\* sstr_clear(txt); sstr_append(txt, message).
ErrorText == use = "token" /\ Clear /\ use' = "error"
ErrorMessage == use = "error" /\ AppendOf /\ use' = "token"

Next == StringCall \/ TokenCall \/ ErrorText \/ ErrorMessage

Spec == Init /\ [][Next]_vars

-----------------------------------------------------------------------------
\* Every variable stays in its type.
TypeOK ==
    /\ type \in {"SHORT", "LONG", "REF"}
    /\ length \in Nat /\ capacity \in Nat /\ reach \in Nat
    /\ block \in Seq(Char \cup {Junk})
    /\ arg \in Seq(Char)
    /\ use \in {"any", "token", "error"}

(***************************************************************************)
(* No call writes outside the memory the string owns.  The two ways the    *)
(* code records a capacity (promotion: without the terminator's byte,      *)
(* reallocation: with it) and the unsigned comparison that decides whether *)
(* a write fits have to agree for this, over any order of calls.           *)
(***************************************************************************)
NoOverrun == reach <= Len(block)

(***************************************************************************)
(* A string that owns memory is NUL-terminated just behind its length, and *)
(* no byte of it is memory nobody wrote: what sstr_cstr hands to strcmp,   *)
(* strtol and printf throughout the program.                               *)
(***************************************************************************)
Terminated ==
    /\ type # "REF" /\ block # <<>> => Len(block) > length /\ block[length + 1] = NUL
    /\ \A i \in 1..length : block[i] # Junk

(***************************************************************************)
(* The bytes a caller sees only ever change by being extended by exactly   *)
(* what was asked for, or emptied, whatever storage holds them.            *)
(***************************************************************************)
Bytes == INSTANCE ByteString WITH value <- Value
ImplementsByteString == Bytes!Spec

=============================================================================
