---------------------------- MODULE FieldTables ----------------------------
(***************************************************************************)
(* What the generator emits for a schema (gen_code_offset_map,             *)
(* gen_fields_list_fn and count_fields_fd, src/src/gencode/gencode.c): the *)
(* rows of the field index, and the size it gives the hash table.          *)
(*                                                                         *)
(* A schema is the sequence of its structs in the order of the generator's *)
(* hash map; a struct is [name, fields]; a field is [key, dynamic], its    *)
(* JSON key and whether it is an array without a fixed size.  A key is a   *)
(* sequence of the parts it is put together from.                          *)
(***************************************************************************)
EXTENDS Integers, SequencesExt, FiniteSetsExt

Row(st, key, kind) == [name |-> <<st, key>>, kind |-> kind]
LenKey(key) == Append(key, "_len")
Header == <<>>      \* the row of a struct itself has an empty key

FieldRows(st, f) ==
    <<Row(st, f.key, "field")>> \o
    (IF f.dynamic THEN <<Row(st, LenKey(f.key), "len")>> ELSE <<>>)

StructRows(st) ==
    <<Row(st.name, Header, "struct")>> \o
    FlattenSeq([i \in 1 .. Len(st.fields) |-> FieldRows(st.name, st.fields[i])])

SchemaRows(sch) == FlattenSeq([i \in 1 .. Len(sch) |-> StructRows(sch[i])])

\* count_fields_fd: every field, and once more for the length of an array.
CountFields(st) ==
    Len(st.fields) + Quantify(1 .. Len(st.fields), LAMBDA i : st.fields[i].dynamic)

TotalFields(sch) == FoldLeft(LAMBDA total, st : total + CountFields(st), 0, sch)

\* Mutants: one slot more than there are fields, or none more.
HashSizeTight(sch) == TotalFields(sch) + 1
HashSizeExact(sch) == TotalFields(sch)
HashSize(sch) == TotalFields(sch) * 2 + 1

TableOf(sch) == [rows |-> SchemaRows(sch), size |-> HashSize(sch)]
=============================================================================
