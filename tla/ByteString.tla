---------------------------- MODULE ByteString ----------------------------
(***************************************************************************)
(* What an sstr_t promises its callers: a sequence of bytes that a call    *)
(* extends at its end by exactly the bytes the caller asked for, or        *)
(* empties.  Nothing is said of buffers, capacities or kinds of storage;   *)
(* module SString is the representation that implements this one.          *)
(***************************************************************************)
EXTENDS Sequences

CONSTANT Char      \* the bytes a string may hold

VARIABLES value,   \* the bytes it holds now
          arg      \* the bytes the last call was asked to append

Init == value \in Seq(Char) /\ arg = <<>>

Extend == arg' \in Seq(Char) /\ value' = value \o arg'

Empty == arg' = <<>> /\ value' = <<>>

Spec == Init /\ [][Extend \/ Empty]_<<value, arg>>

=============================================================================
