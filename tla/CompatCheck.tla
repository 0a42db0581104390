---- MODULE CompatCheck ----
(***************************************************************************)
(* compat_check.c: what --check-compat reports of an old and a new schema. *)
(* A schema is as in BinaryMessage, with deprecated, the pairs of a type   *)
(* and the name of a member marked so.  The report is two sets of changes; *)
(* the order they are printed in is left out.                              *)
(***************************************************************************)
EXTENDS Naturals, Sequences

Named(s, n) == \E i \in DOMAIN s : s[i].name = n
The(s, n) == s[CHOOSE i \in DOMAIN s : s[i].name = n]
Names(s) == {s[i].name : i \in DOMAIN s}
Change(what, in, name) == <<what, in, name>>

(* Mutant: only the kind is compared. *)
KindChanged(o, n) == o.kind # n.kind
(* A field's type is its kind, and whether and how it is an array; neither *)
(* the name of its type nor a map's value type is looked at.               *)
TypeChanged(o, n) == o.kind # n.kind \/ (o.shape = "one") # (n.shape = "one") \/ o.size # n.size

BreakingFields(in, olds, news) ==
    {Change("removed", in, n) : n \in Names(olds) \ Names(news)}
    \cup {Change("changed", in, n) : n \in {m \in Names(olds) \cap Names(news) :
                                              TypeChanged(The(olds, m), The(news, m))}}

(* Of an enum's values and a oneof's variants only the names count. *)
BreakingValues(in, olds, news) == {Change("removed", in, n) : n \in olds \ news}
SafeMembers(in, olds, news, marked) ==
    {Change("added", in, n) : n \in news \ olds}
    \cup {Change("deprecated", in, n) : n \in {m \in olds \cap news : <<in, m>> \in marked}}

EnumValues(e) == {e[i] : i \in DOMAIN e}
Variants(o) == Names(o.variants)

Kept(olds, news) == DOMAIN olds \cap DOMAIN news
Removed(in, olds, news) == {Change("removed", in, n) : n \in DOMAIN olds \ DOMAIN news}
Added(in, olds, news) == {Change("added", in, n) : n \in DOMAIN news \ DOMAIN olds}

Breaking(old, new) ==
    Removed("structs", old.structs, new.structs)
    \cup UNION {BreakingFields(s, old.structs[s], new.structs[s]) : s \in Kept(old.structs, new.structs)}
    \cup Removed("enums", old.enums, new.enums)
    \cup UNION {BreakingValues(e, EnumValues(old.enums[e]), EnumValues(new.enums[e]))
                : e \in Kept(old.enums, new.enums)}
    \cup Removed("oneofs", old.oneofs, new.oneofs)
    \cup UNION {BreakingValues(o, Variants(old.oneofs[o]), Variants(new.oneofs[o]))
                : o \in Kept(old.oneofs, new.oneofs)}

Safe(old, new) ==
    LET marked == new.deprecated \ old.deprecated
    IN  Added("structs", old.structs, new.structs)
        \cup UNION {SafeMembers(s, Names(old.structs[s]), Names(new.structs[s]), marked)
                    : s \in Kept(old.structs, new.structs)}
        \cup Added("enums", old.enums, new.enums)
        \cup UNION {SafeMembers(e, EnumValues(old.enums[e]), EnumValues(new.enums[e]), marked)
                    : e \in Kept(old.enums, new.enums)}
        \cup Added("oneofs", old.oneofs, new.oneofs)
        \cup UNION {SafeMembers(o, Variants(old.oneofs[o]), Variants(new.oneofs[o]), marked)
                    : o \in Kept(old.oneofs, new.oneofs)}

(* What is printed last, and the exit status: 1 when something breaks. *)
Summary(old, new) == IF Breaking(old, new) # {} THEN "breaking"
                     ELSE IF Safe(old, new) # {} THEN "safe" ELSE "identical"
ExitStatus(old, new) == IF Summary(old, new) = "breaking" THEN 1 ELSE 0
====
