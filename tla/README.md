# A TLA+ model of json-gen-c

json-gen-c reads a schema (structs, enums, oneofs, arrays, maps) and writes C
code that turns those structs into JSON, MessagePack or CBOR and back. This
directory holds TLA+ modules that model the program as its source says it
works, TLC configurations that check them on small instances, and TLAPS proofs
of what matters most for every instance. File names below are relative to
`src/` of the repository's copy unless they name a module of this directory.

Run a model with `tlc -config <X>.cfg <Module>`, check a proof with
`tlapm <Module>Proofs.tla`. `PROJECT.json` lists every run, what it checks, the
source lines of every definition, the mutants that show a property can fail,
the disagreements found and the hazards of the code.

## The system

| Component | Where | State it keeps | Operations | Talks to |
|---|---|---|---|---|
| Dynamic string | `src/utils/sstr.c` (copied into generated code too) | storage kind SHORT/LONG/REF, length, capacity, block | new/of/ref, append family, clear, convert, compare | everybody |
| Hash map | `src/utils/hash_map.c` | chains of entries, size, bucket count | insert (grows first), find, delete, for_each | schema parser, generators |
| Schema parser | `src/struct/struct_parse.c` | token position, include stack, three maps of structs, enums, oneofs, recovery state | tokens, include, struct/enum/oneof/field, register, recover, validate | diagnostics, hash map |
| Diagnostics | `src/utils/diag.c` | list of diagnostics, error count | report, limit, render | schema parser, language server |
| C generator | `src/gencode/gencode.c` | source and header text, dependency map, offset table | order types, emit init/clear/copy/move/marshal/unmarshal, emit the field index | hash map, parser runtime |
| Field index | emitted by `gencode.c`, read by `codes/json_parse.c` | rows, open-addressing table | fill (once), probe | C generator, JSON parser |
| Generated JSON parser | `src/gencode/codes/json_parse.c` plus functions emitted by `gencode.c` | call stack, input position, token buffer, the object being filled | one function per kind of value, skip, masks | field index, dynamic string |
| Generated JSON writer | emitted by `gencode.c` | output string, separator state | marshal, selected marshal | dynamic string |
| Generated memory functions | emitted by `gencode.c` | the object's strings, buffers, entries, flags | init, clear, copy, move | parser |
| Other formats | `gencode_msgpack.c`, `gencode_cbor.c`, `codes/*_codec.c` | reader/writer position | encode, decode, skip | C generator |
| Other languages | `gencode_cpp.c`, `gencode_go.c`, `gencode_rust.c` | text | emit | hash map |
| Compatibility checker | `src/compat/compat_check.c` | counters | compare two schemas | schema parser |
| Language server | `src/lsp/` | open document, shutdown flag | framing, requests, notifications | schema parser, diagnostics |
| JSON context | `src/utils/json_context.c` | the same table behind a mutex | find | nobody in the repository |
| Command line | `src/main/main.c`, `src/utils/io.c` | options, output files | parse options, write outputs | all |

The tool is a single-threaded pipeline: command line, schema parser, hash maps,
one of the generators, files. The generated code is a library; its parser is a
recursive descent that shares one token buffer (an `sstr_t`) among all calls and
asks the field index where each member goes.

The language server is the exception: it is one loop over two pipes, with an
editor at the other end that may be ahead of it, slow, wrong or gone. And a
message is written by one program and read by another, which may have been
generated from another version of the schema.

What is hard here is *protocol* more than concurrency: return codes whose
meaning changes from caller to caller, loops that end only when something else
holds (an empty slot, a balanced bracket, a pass that made progress), two
conventions for one capacity, tables filled by one program and read by another,
calls whose result nobody looks at, objects that own blocks through a dozen
kinds of field. The hazards in `PROJECT.json` name each with its line and the
property that would catch it.

### What makes each component correct

* Dynamic string: stays inside its memory, stays terminated, keeps its bytes.
* Hash map: is a dictionary, whatever fails and whenever it grows.
* Field index: a lookup ends, finds the row of the name and nothing else; the
  generator always finds a slot.
* Type order: every type after those it contains, once each; only circles are
  refused.
* JSON parser: accepts exactly the documents of the schema, consumes exactly
  its value, returns on any input, and its recursion is bounded.
* Memory functions: what is allocated is reachable and freed once; an error
  leaves an object that can be cleared.
* JSON writer: what it writes is one JSON value, and the parser accepts it whole.
* Schema parser: one name, one definition; includes end; recovery makes progress;
  exactly the sound schemas are accepted, and kept as they were written.
* Binary codecs: what is packed comes back; what is cut is refused; skipping a
  value and reading it end at the same place.
* Compatibility checker: what it finds safe, the other version can read.
* Language server: every request one answer, in order; diagnostics are those of
  the text that is open; it ends only for a reason.

## Modules

### Dynamic string: `SString`, `ByteString`, `SStringProofs`

`SString` is one `sstr_t`: `type`, `length`, `capacity` are the fields of
`struct sstr_s`, `block` the memory behind it (`Junk` where nobody wrote).
`InPlace`, `Promote` and `Regrow` are the three paths of `sstr_append_of`,
`Clear` and `ClearFast` the two ways to empty a string. A store is cut off at
the end of the block while the ghost `reach` records how far it went, so a
capacity that is off by one is seen (`NoOverrun`), not lost. The two ways the
code records a capacity differ by the terminator's byte: a promotion leaves it
out, a reallocation counts it in. The ghost `use` tells an ordinary string from
the parser's token buffer: only the latter is emptied by `sstr_clear_fast_`,
which stores through the data pointer; on an error it goes through `sstr_clear`
(which makes that pointer NULL) and the message is appended before anything
else. `ByteString` is what a caller sees.

Modelled rather than copied: bytes are three symbols; `SHORT_STR_CAPACITY`,
`CAP_ADD_DELTA` and the width of `size_t` are constants. Left out:
`sstr_printf_append`, numeric conversions, comparison, escaping (pure functions
of the bytes), and `sstr_append(s, s)`, which nobody calls.

### Generated JSON parser: `JsonTokens`, `JsonDocument`, `JsonUnmarshal`, `JsonUnmarshalProofs`, `JsonAcceptanceProofs`

`JsonUnmarshal` has the C call stack as a variable: a frame is an active call of
one of the functions of `json_parse.c` (`fn`), the place where it stands (`at`),
its element type, depth, field mask, current key and counters; `ret` carries the
return code of the call that has just ended. Each action is one step between
two tokens or calls of the function it is named for:

| Actions | Function |
|---|---|
| `TooDeep`, `Struct*` | `json_unmarshal_struct_internal` |
| `Open`, `First`, `Array*`, `AfterElement`, `Separator` | `json_unmarshal_array_internal` |
| `Scalars*`, `Enums*` | `json_unmarshal_array_internal_<type>`, `..._enum` |
| `Fixed*`, `Maps*` | the loops for fixed-size arrays and arrays of maps inside `json_unmarshal_struct_internal` |
| `Map*` | `json_unmarshal_map_object` |
| `Ignore` | `json_unmarshal_ignore_value` |
| `Oneof*`, `Oneofs*` | `json_unmarshal_oneof_internal`, `json_scan_tag_value`, `json_unmarshal_array_internal_oneof` |

Return codes keep their values (`Code`, `ScalarCode`), because the functions
disagree about what they mean. Each array loop has its own idea of a separator;
the model keeps them apart.

The document is not fixed beforehand: it is produced while it is read, from a
grammar (`JsonDocument`) that knows the schema but not the parser. `ahead` holds
tokens the code peeked at or rewound over; `goal` is what the grammar still has
to produce, so "the document was whole" and "it was cut short" can be said
independently of what the parser did. Four forms of document: `typed` (fits the
struct, plus members the schema does not know), `deep` (the same, nested beyond
`JSON_MAX_DEPTH`), `json` (any value) and `tokens` (any sequence of tokens).

Below tokens is the lexer: comments, escapes, number syntax. Its results are
the token classes of `JsonTokens`, among them `word` (an error that moves on)
and `stuck` (an error that does not move). Where values are stored is the
business of `ObjectMemory`.

A key is looked up in `Index`, which has a row for each member and two kinds of row
that are none: the struct's own, with an empty key and no type, so that `""` must be
an object whose members are all skipped, and one for the length of each array,
`<key>_len`, which must be an int and is stored. What a document means is what the
index says, for the parser's model and for the grammar alike (`RowOf`, `Keys`):
`doc/schema-evolution.md:11` says that unknown keys are skipped, and these are not.
A mask selects neither of them, as they have no number.

### Field index: `FieldTables`, `FieldIndex`, `FieldIndexProofs`

`FieldTables` computes what `gen_code_offset_map` emits for a schema: the rows,
in order (a header row per struct, a row per field, one more for the length of a
dynamic array), and the size of the table. `FieldIndex` fills the table one probe
at a time (`Taken`, `Place`: `gen_hash_arr`) and looks names up one probe at a
time (`Hit`, `Advance`, `Miss`: `json_field_offset_item_find_ph`). The hash
function is a parameter: nothing may depend on which one it is.

### Hash map: `Dictionary`, `HashMap`, `HashMapProofs`

`HashMap` keeps the chains in order, head first, so that growth (each entry to
the head of its new chain) and `hash_map_for_each` are modelled as they are.
Every allocation may fail. `Dictionary` says what `hash_map.h` promises; the
refinement maps `dict` to the pairs that are linked and every return code to its
meaning there.

### Type order: `DependencyOrder`, `DependencyOrderProofs`

`gencode_source` goes over the structs and then the oneofs, in the order of the
hash maps, as many times as there are items, and writes what has become ready
(`Write`), skipping the rest (`Skip`); then it reports success or a circle
(`Finish`). The result of `hash_map_insert` is not looked at; `lost` remembers
what could not be inserted.

### Memory of generated objects: `ObjectMemory`, `ObjectMemoryProofs`

One block is one `malloc`. A field holds its buffer, the pointers in its cells
(a map entry is two: key and value), a oneof's tag and the presence flag; `live`
are the blocks allocated, `orphans` those the parser has lost hold of, `op` the
call being made. Actions are `InitObject` (`T_init`), `StartParse`, `ParseField`,
`ParseNull`, `EndParse` (the generated `json_unmarshal_*` functions and the
parser under them, with and without a mask), `Clear`, `StartCopy`, `CopyField`,
`EndCopy` (any allocation may fail, after which everything copied so far goes)
and `Move`. What the parser does wrong with memory is in the model as it is: a
default string whose pointer is overwritten, an element or a key that is lost
when its value fails, a mask under which everything is cleared on an error. The
blocks lost so are `orphans`, and `NoLeak` says that there are no others.

A map grows with `realloc` and clears nothing (`json_parse.c:1991`), and a struct value
is parsed into the entry as it is. A member that the document does not give stays what
was in memory: `{"m":{"k":{}}}` leaves a pointer nobody wrote (`Wild`), which
`T_clear` frees. From there on nothing can be said, so a call that clears or copies such
an object has an outcome of its own (`UseUnwritten`, `Undefined`, and `ParseFails` under
a mask), and `NoDangling` says that only the struct values of maps can be so: no
other pointer is ever `Wild`.

The environment does what the documentation shows: an object is initialised
once, cleared before it is parsed into again (unless a mask selects what is
parsed), not used between a failed call and `clear`. A document gives a key once and
no key of a length, and a map that is an element of an array has one entry at most.

### JSON writer: `JsonMarshal`, `JsonRoundTrip`

The output is a sequence of tokens. A step writes one field the way the
generated code does, commas included: part of the decision is taken when the
code is generated (is any field optional? is this the last?), part when it runs
(has anything been written?). Against it stands `JsonOf`, the JSON text of an
object by definition. `WritesJson` names the two shapes for which the code writes a
comma too many.

`JsonRoundTrip` puts the generated parser behind the writer: `JsonUnmarshal`,
instantiated with the rows of the same schema, runs on what was written (`Read`,
`Parse`). `ReadsBack` says that it returns 0 with nothing left to read, the comma
after a comma included, which the struct parser skips. It names the two outputs
that the parser refuses, and says that it does refuse them: a oneof whose tag names
no variant, written as `"type":""` (`gencode.c:1756-1761`) and refused as an unknown
tag (`json_parse.c:1413-1419`), and an indented oneof with a comma before its brace.
The parser's model keeps no values, so this is about acceptance and where reading ends.

### Schema parser: `SchemaTokens`, `SchemaGrammar`, `SchemaParser`, `SchemaAcceptanceProofs`

A step of `SchemaParser` is one call of `next_token`; `at` names the place in
`struct_parse.c` that asked. The state of the parser of one file (`file`, `had`,
`errs`, `gram`) is pushed on `callers` by an include and popped when the
included file ends. Recovery from an error belongs to the action that met it as
far as the token in hand decides (`Resync`, `ResyncMember`), and is a loop of
`Skip`, `SkipField` and `SkipMember` where it reads on. Reports may fail for lack
of memory, and insertions into the three maps too (`lost`).

`SchemaGrammar` is the other side: the grammar the documentation describes, run
beside the parser as an automaton over the same tokens (`Goes` is its table, a state
and a token to a state; `Noticed` what it collects). `legal` says that every
file followed it, `seen` what definitions it completed, `Sound` what validation
should find. `AcceptsExactly` and `ReadsWhatIsWritten` compare the two.

### Binary codecs: `ByteWords`, `MsgPackCodec`, `CborCodec`, `BinaryFormats`, `BinaryItems`

These are the runtimes at byte level. A 64-bit word is a tuple of eight bytes
(`ByteWords`: widths, sign and zero extension), because TLC's integers have 32
bits. `MsgPackCodec` and `CborCodec` translate one function of
`codes/msgpack_codec.c` and `codes/cbor_codec.c` per operator; a read is
`[ok, pos, val]`. A buffer has a length, bytes, and a byte `beyond` that stands
for whatever follows it in memory: some readers look at a byte before they look
at the length. `BinaryFormats` chooses between the two formats. `BinaryItems`
is the machine: items are written, the buffer arrives whole or cut (or comes
from a foreign writer), and each read uses any function of the runtime.

### Messages and versions: `BinaryMessage`, `CompatCheck`, `SchemaEvolution`

`BinaryMessage` has the functions `gencode_msgpack.c` and `gencode_cbor.c`
generate for a struct: packing a counted map, unpacking entry by entry whatever
their order, unknown keys, optional and nullable fields, enums by name or
number, oneofs read in two passes, nested values read and then skipped, arrays,
fixed arrays and maps. `CompatCheck` is `compat_check.c`. `SchemaEvolution`
composes them: two versions of a schema are compared (`Check`), one packs
(`PackHead`, `PackNext`), the message arrives (`Arrive`, whole or cut), and the
other unpacks it (`UnpackEntry`, `Finish`). `Unmoved` spells out what the checker
does not look at, and `SafeReads` holds under it.

A member that the writer's version does not have is left as it was, and what that is
depends on where it is (`Fresh`, `SameStruct`): the default that `T_init` sets, in the
root, in a struct of its own and in the variant of a oneof; zeros, in the elements of an
array (`gencode_msgpack.c:931-936`); and in the struct values of a map whatever
`malloc` gave (884), where `doc/schema-evolution.md:28` promises the default. A string of
such a value is even read through that pointer: the test for `NULL` (994) passes on
garbage, and `sstr_clear` (761) writes behind it. The phase is "undefined" then, which
`SafeReads` allows only where the structs of a map hold strings (`StringsInMap`).
`gencode_cbor.c` does the same (883). `Initialised` excepts these entries for the
same reason.

### Language server: `JsonRpc`, `LspServer`

`JsonRpc` reads and writes the JSON of the protocol over *units* (a brace, a
quote, a name) rather than characters, as `lsp_jsonrpc.c` does, and frames
it. `LspServer` has the two pipes, the editor's open documents, and the
server's state (phase of the read loop, the one document, `initialized`,
`shutdown`). `ReadLine`, `ReadEnd` and `ReadBody` are `lsp_jsonrpc_read`,
`ParseBody` the loop of `lsp_server_run`, and one action per method is
`handle_message`. The client sends each method with or without what it needs,
announces the right length, one too short or too long, none, or a broken body,
and may hang up at any time.

## Runs

| Run | Shows | Bounds |
|---|---|---|
| `sstring` | `NoOverrun`, `Terminated`, and the refinement of `ByteString`, for strings of the program and the token buffer | short capacity 2, growth 1, length at most 7, at most 3 bytes a call: every path is taken from every boundary, twice over |
| `unmarshal_documents` | `ExactAcceptance` (whole documents accepted and consumed exactly, refused only where cut short or too deep), `AcceptsWholeObject` for any JSON against a flat struct, `StackBounded`, `Termination` | 12 tokens for every kind of field, the empty key and the key of a length included, with and without a mask; against a depth limit of 3, 14 tokens with all keys, 16 with the keys of one way of nesting at a time and 21 of a document that only opens; 14 tokens of any JSON, 8 of any kind, with input the lexer does not pass among them |
| `index_filled` | `LookupExact`, `GeneratorEnds`, `LookupEnds` | five or seven slots, all 729 hash functions onto three colliding residues; a length row, two members of one key, two structs |
| `hash_map` | `ImplementsDictionary`, `LoadBounded` | four keys, from one or two buckets up to eight, hash functions that put all keys in one chain, none, or apart only after growth. The code starts at 256 or 4096 buckets; the code path is the same |
| `order_any` | `DependenciesFirst`, `WrittenOnce`, `RefusesOnlyCircles` | all schemas of up to three items in all orders, self-containment and circles included, any insertion failing |
| `schema` | `OneDefinition`, `NoCircle`, `AcceptsExactly`, `ReadsWhatIsWritten`, `Kept`, `Terminates` | documents of every kind of definition with free tokens (any token the lexer can return) in the middle, so that every error place and every recovery is met; files that include each other, themselves, or one twice; paths with up to two `./` |
| `memory` | `NoDangling`, `NoLeak`, `CopyExact` | two objects, nine structs that between them have every kind of field, maps of structs and arrays of maps included, arrays and maps of up to two, six blocks at once |
| `marshal` | `WritesJson`, `ReadsBack` | structs of up to three fields of every kind, optional or nullable, present or not; collections of up to two; compact and indented. Read back are all structs of one field, and those of two whose second is a scalar or a map |
| `codec` | `RoundTrip`, `CutRejected`, `SkipAgrees`, `SkipsOne`, `SameNumber` | two items and two reads; integers on both sides of every edge of a packed form; strings, arrays and maps on both sides of every length form; foreign buffers with every first byte and five tails; a byte after the end that is a small number or a float's tag. Bodies longer than 256 are left out of the bytes |
| `evolution` | `SafeReads`, `CutRejected`, `Initialised` | a root struct of two or three fields whose first is of each of 18 kinds, maps of structs with and without strings among them, one edit to the schema each (added, removed, reordered, retyped, renamed...), both directions, both formats, cut to each length up to 14 or whole; at most 64 elements can be allocated (`MaxHeld`) |
| `evolution_safe` | the finding below | the same, whole messages |
| `lsp` | `Framing`, `AnsweredOnce`, `Fresh`, `Exits`, `EveryAnswer` | three messages of any kind, at most two ahead of the server, a pipe that holds one answer; two documents, two texts, five ways to frame, on a request |

The mutants in `PROJECT.json`, at least one for each property, are changes to the
code's model (a dropped guard, an off-by-one, a forgotten reset) under which TLC
finds the property violated with the same bounds: none of these bounds is so
small that the case a property speaks of does not happen.

Deadlock is checked where the model has a step for "finished" or never ends:
`sstring`, `unmarshal_documents`, `index_filled`, `hash_map` and `schema`.
In `order_any`, `memory`, `marshal`, `codec`, `evolution` and `lsp` it is not,
because there the program stops: the generator has returned, everything has been
written or read, the server has ended, or a bound is reached.

Type invariants are conjuncts of what is proved for `SString`, `FieldIndex`,
`DependencyOrder` and `JsonUnmarshal`; the last is also checked by
`unmarshal_documents`. The other modules have none of their own.

*Fairness.* `FairSpec` of `JsonUnmarshal`, `FieldIndex` and `SchemaParser` says
that a call, once made, keeps running: it is one thread that waits for nothing.
No fairness is assumed of callers (`Find` in `FieldIndex` need never happen). In
`LspServer` the server's reads return when they can (`WF_vars(Reading)`), and
what was read is handled as soon as the pipe has room (`Handles`, stated with the
readiness condition instead of `ENABLED`, because a handler's guard parses JSON).
The editor reads what it is sent (`ClientReads`); it need not send anything, and a
server blocked on a full pipe whose reader is gone is not expected to answer.

### What the runs found

`evolution_safe` is the one disagreement with the documentation that has a run
of its own (`PROJECT.json`, `findings`): `--check-compat` compares the kind of a
field, whether it is an array and its size, so a map whose values change their
type, or a struct field that names another struct, is "identical", and the new
code refuses the old code's message.

The other disagreements are part of what the models say the code does, and the
properties say where they end; each is stated in the model where it happens.

JSON parser:

* A nested struct's positive return code is not looked at
  (`json_parse.c:2751`), nor that of an array of scalars (2516): `{"n":{"i":"x"}}`
  and `{"a":{"k":1}}` return 0.
* A stray character inside a skipped value is met again and again
  (`json_parse.c:1021`, `{"q":{#`), and so it is in the scan for a discriminator
  (1330); the end of the input inside an array of enums (1002) has code 0, which is
  taken for a stored element. `Termination` excepts these states by name
  (`EndlessSkip`, `EndlessEnums`), and says that there are no others.
* The field index can be full: header rows are not counted when its size is
  computed (`gencode.c:2378`). One struct of one field beside one of none fills
  the table and the lookup of an unknown key never ends, where
  `doc/schema-evolution.md:11` says unknown keys are skipped. `index_filled`
  therefore has a field in every struct.
* Rows that are no members are found as keys all the same (`json_parse.c:2171`):
  `{"as_len":3}` sets the length of an array that is NULL, and `{"as_len":"x"}` and
  `{"":1}` are refused, where `doc/schema-evolution.md:11` says unknown keys are skipped.

Memory (`orphans` in `ObjectMemory`):

* A plain `json_unmarshal_<struct>` does not clear what it has read when it
  fails; the selected one clears the whole object (`gencode.c:453`), where
  `README.md:432` says that unselected fields stay unchanged.
* Lost: a default string when its key is parsed; what a failing array element, a
  oneof element or a map entry holds.
* Values of a map of structs are not zeroed before they are read
  (`json_parse.c:1991`, `Undefined` in `ObjectMemory`).

JSON writer: a comma too many after a map that is followed by a field in a struct
without optional fields (`gencode.c:786`), and after the tag of an indented oneof
none of whose variant's fields is present (`gencode.c:1773`). A oneof whose tag is
out of range is written with an empty discriminator (`gencode.c:1756`), which the
parser refuses.

Schema parser:

* Circles of includes are recognised by comparing paths as text: `./a` and `a`
  differ, and only the limit on the length of a path ends the circle.
* `hash_map_insert`'s result is ignored (`struct_parse.c:736`); `struct` at the end
  of a file is accepted in silence; an enum or oneof with an error in it is
  registered; forward references to enums and oneofs are undefined types;
  default values are checked for enums only; a file included along two ways
  gives duplicate definitions; a bad `@` in a oneof swallows the next token, a
  closing brace too; whether validation failed is told by the number of stored
  diagnostics.

Binary formats:

* An array of maps is packed as its head without elements. The result of the
  skip of an unknown value is ignored; a struct without fields does not skip
  values at all. Enum and number readers look at a byte before they know it is
  there. Allocation results are not looked at.
* The entries of a map come from `malloc` and nothing initialises the structs in them
  (`gencode_msgpack.c:884`, `gencode_cbor.c:883`): a field the message does not have is
  garbage, and a string is appended to through a pointer never set (761). The elements
  of an array are zeros instead of the defaults of `doc/schema-evolution.md:28`.
* MessagePack reads an unsigned number from 2^63 on as a negative one; CBOR's
  skip adds a length near 2^64 to its position (`Wraps`), and its counts are cut to
  32 bits.
* `doc/schema-evolution.md` calls a new variant of a oneof safe because old code
  ignores it; old code returns -1 (`KnowsNames` in `SafeReads`).

Language server: a length that is too short leaves the rest of the body joined
with the next header, and the server ends; a missing or negative length ends it
too; text that is no JSON is dropped without an answer, string ids are answered
as 0; a change or a save is applied to the one document it keeps, whichever it
names, so that with several documents open diagnostics are published for the wrong
one, which `Fresh` does not cover (`several`); requests are still served after `shutdown`.

Strings and maps: `sstr_cstr` of a LONG string that was cleared is NULL although
`sstr.h:128` promises a terminator; `sstr_append(s, s)` copies from a block that may
have been freed; `hash_map_insert` returns -2 for a failed allocation where
`hash_map.h:95` names `HASH_MAP_ERROR`, -1; a struct whose insertion into the
dependency map failed is written again in the next pass (`lost` in
`DependencyOrder`).

## Proofs

| Theorem | Says |
|---|---|
| `SStringProofs!Safety` | `TypeOK`, `NoOverrun`, `Terminated` for every capacity, growth step, alphabet and sequence of calls |
| `SStringProofs!Refinement` | `SString` implements `ByteString` |
| `JsonUnmarshalProofs!TypeCorrect` | `TypeOK`: control is in order for every schema and document |
| `JsonUnmarshalProofs!StackSafety` | at most `2 * JSON_MAX_DEPTH + 4` active calls, for every schema and every sequence of tokens |
| `JsonAcceptanceProofs!Acceptance` | `ExactAcceptance` for every schema, mask, depth limit and length: a document of the schema is accepted, to its last token, exactly when it is whole |
| `JsonAcceptanceProofs!WholeObject` | `AcceptsWholeObject` for every struct of scalars, whatever JSON it is given |
| `FieldIndexProofs!LookupIsExact` | `LookupExact` for every set of rows, size and hash function |
| `HashMapProofs!Load` | `LoadBounded` for every set of keys, hash function and number of buckets |
| `HashMapProofs!Refinement` | `HashMap` implements `Dictionary` |
| `DependencyOrderProofs!Ordered` | `DependenciesFirst`, whatever fails |
| `DependencyOrderProofs!Exact` | `WrittenOnce` and `RefusesOnlyCircles` for every schema and every order |
| `SchemaAcceptanceProofs!UniqueNames` | `OneDefinition` for every set of files, whatever their tokens |
| `SchemaAcceptanceProofs!DefinitionsKept` | `Kept`: no step replaces or drops a definition |
| `SchemaAcceptanceProofs!NoCircularInclude` | `NoCircle`: no path is open twice, at any depth |
| `SchemaAcceptanceProofs!Accepting` | `AcceptsExactly` for every set of files: the schemas accepted are those that follow the grammar and make sense |
| `SchemaAcceptanceProofs!ReadingWhatIsWritten` | `ReadsWhatIsWritten`: what is accepted is kept as it was written |
| `ObjectMemoryProofs!OneOwner` | `NoDangling` for every set of structs, number of objects and length: one owner per block |
| `ObjectMemoryProofs!NothingElseLost` | `NoLeak`: no block is lost but by the parser |
| `ObjectMemoryProofs!WholeCopyOrNone` | `CopyExact`: a copy of any struct is of all of its source or of nothing |

Assumptions are only those the modules name (`SStringAssumption`,
`SchemaAssumption`, `UnmarshalAssumption`, `DocumentAssumption`, `TypedAssumption`,
`FlatAssumption`, `IndexAssumption`, `HashMapAssumption`, `OrderAssumption`,
`MemoryBounds`, `SchemasAssumption`): types of the constants, and what the schema
parser has already validated. TLC evaluates them on the runs. `SchemaAssumption` of
`JsonTokens` says that no member has the empty key or the key of a length, as the
first row of a name would hide the other; that is a restriction, which the schema
parser does not check. Three of them say which documents `JsonAcceptanceProofs` is
about. `DocumentAssumption`: no type is
called "any", and the structs of a oneof have no member of the discriminator's name,
so that the variant's parser skips it. `TypedAssumption`: the structs of a `typed`
document can be given depths, each below those of its members, within
`JSON_MAX_DEPTH`; a schema that nests deeper has `deep` documents. `FlatAssumption`:
a `json` document is for a struct of scalars, because the codes of other members are
not all looked at (`Fails`): in `{"a": {}}` the parser of an array `a` of numbers
stops at the second `{`, its code is dropped, and the struct takes the first `}` for
its own. The first three theorems of `SchemaAcceptanceProofs` need no assumption;
the others use `SchemaAssumption`: a text is not a word and neither is a sign, the
root file exists, and a file that some token of the document names has one token in
each place, as a document is a choice of tokens and a file read twice has to be the
same file.

*Dynamic string.* `NoOverrun` is not inductive: whether an append fits is decided
by the recorded capacity. `StorageOK` relates the three representations to the
real size of the block (a LONG string is either `sstr_clear`ed, with nothing, or
has `length <= capacity <= Len(block)` and a byte to spare), and `Owned` says
that the token buffer is never the former when `sstr_clear_fast_` runs.

*JSON parser.* The bound on the stack is not inductive either: only structs check
their depth. `Height` bounds the *position* of each frame by its own depth, two
positions a level, with one more for a struct that has not made its check yet
and less for the frames (`oneofs`, `map`, `oneof`) whose depth the callers have
already raised. Each action keeps it because a call adds at most one position
for the loop it enters and one for the element, which is a level deeper.

`ExactAcceptance` compares a stack of calls with what is left of a document, and
`Sound` relates the two call by call. `Owes` reads the stack from its root: each
suspended call still expects, once the one above it returns, a rest of its own
production, down to the end of the document. `Facing` says what the call on top of the
stack expects next, by its function and the place where it stands. Between the top and
`goal` lie the tokens lexed and not consumed, `ahead`: `Leads` says that producing them
turns the one into the other, which covers the scan of a oneof for its discriminator,
where the parser rewinds over everything it has read, and skipped values, whose
nesting a counter of brackets has to match (`SkipFace`). With `Sound` a parse of a
`typed` or `deep` document is in one of four phases (`Tracks`). `InSync`: the
above. `CutOff`: the document was cut short, nothing is ahead, and a return to the
caller of all is not 0. `Failing`: a call has returned -1, for a document cut short or
nested too deeply, and the call below it will not take that for success: a struct that
drops the code of an array of scalars never sees this one (`Lenient`, `Linked`).
`Lagging`: a scan has met the cut and has still to walk back over what it read. A
`typed` document never nests too deeply because `Fitting` keeps the depth of each call
within the depth the schema gives to its struct. Each action of the model then takes one
phase to another; the largest part of the proof is the lemma for each function that
what it is about to consume is what its production expects.

`AcceptsWholeObject` is about documents that are not of the schema. For a struct of
scalars, the stack has the struct alone, or the struct and a value that it
skips, and below either, when the empty key was met, the struct around them, so that a
struct without members is parsed inside the root: `FlatTracks` says what either expects of the document, without reference to the
types of the values; otherwise the document was cut short, or the parse has failed for
good with a code other than 0.

*Field index.* What makes a linear probe exact is how the table was filled:
`Chained` says that between the home of a placed row and its slot there are only
rows placed before it. A probe that has passed only other names (`Probing`) and
meets an empty slot would otherwise have met the row.

*Hash map.* `IsTable` says that each key is in the chain of its hash and nowhere
else; it is what makes a search of one chain a search of the table, and it is kept
when the table grows because a hash modulo twice as many buckets tells the hash
modulo as many (`ModTwice`). Two definitions are recursive functions: the chain that
growth makes for a bucket, and the sequence `hash_map_for_each` visits. What they
compute is proved with the least-number principle (`Induction`, from the
well-foundedness of `<`): the lengths up to which it is right form a set, which is
shown to be all of them. Keys and places in the table are as many by a bijection
(`OnePlaceEach`), which is what `size` counts.

*Type order.* That as many passes as there are items are enough is `Progress`: a
pass has written something, or has found nothing ready so far; one that ends
without writing has found every item left waiting for another one left, and
those form a circle. `NoCircleKnown` (nothing written is on a circle) gives the
converse.

*Schema parser.* Two lemmas sum up what any step can do. `MapStep`: to the maps,
nothing, or the definition of a name that none of them has; uniqueness and
persistence both follow. `FileStep`: to the open files, nothing but their text, or
the top one ends and its caller goes on, or a file is opened whose path is none of
those open. The second is where the code's check of the include stack is used.

`AcceptsExactly` compares a program that goes on after an error with a grammar that
does not, so no one relation between the two is kept. `Reading` says that, until the
last file ends and unless a definition was lost, a state is one of three.
`Good`: nothing is on record, the automaton is in a state that belongs to the place
in the code (`StateAt`), the definition being read is what the automaton has collected
(`Content`), and the maps hold exactly the definitions completed, with the kinds of
fields resolved against those above them (`Same`). `Ruined`: a rule is broken, in this
file or one that includes it, and an error is on record for it; both stay on record
through every recovery and every return from an include (`TokenRuined`,
`ReturnedRuined`). `Doomed`: an include leads back to a file that is being read, under
another spelling that the code does not recognise; no error is on record yet, but the
files named since form a `Circle`, so that the file being read cannot end before the
next turn, and the last file cannot end at all (`OverNotDoomed`). From a `Good` state
each action of the parser leads to one of the three: a token taken moves the automaton
along (`Glide`, `TakeGood`), a token refused is refused by the automaton (`FieldRefused`,
`MemberRefused`), which is where the tables of the two are compared place by place, and
an include is followed, refused, or closes a circle (`CircleMade`). At the end
`InvalidIs` shows that the validation, which looks names up in finished maps, refuses
what `Sound` calls senseless, though that looks only above a definition: the kind that
was resolved while reading makes up for it.

*Memory.* `NoDangling` and `NoLeak` say nothing of the shape of a value, and are
not inductive without it: a number where a string's pointer was expected would be
freed, two cells of one value could hold one block. `ValueOK` gives the shapes (no
pointer twice in a value; a number only in a oneof of that tag; as many cells as
its kind has) and `Sound` says of a *store* (objects, allocated blocks, lost
blocks), not of the variables, that each block has one owner. So a step of the
code that resets a field, fills it and then clears the object is proved as three
changes of a store (`Replaced`, `Replaced`, `Emptied`), and a move as a clearing
and an exchange (`Swapped`). The strings of a value take their blocks by rank:
`RankFacts` shows the rank to be a bijection, so that a copy holds exactly the
blocks it allocated (`CopiedOK`), whatever the allocation that failed. `CopyExact`
speaks of the end of a copy only: `Copying` says of its middle that the fields done
with are the source's, and `Flags` that only nullable fields have a presence flag,
without which a copy, which raises the flag by the schema, would not be exact. That a
pointer nobody wrote is in the struct value of a map and nowhere else is the shape of a
value again; the calls that clear or copy are enabled for objects that are `Written`,
and `UseUnwritten`, where one is not, changes no store.

Only model-checked: liveness (`Termination`, `GeneratorEnds`, `LookupEnds`,
`Terminates`, `EveryAnswer`), out of the prover's reach; `AcceptsWholeObject` of
structs with members other than scalars, which is false of the code; and everything
about the writer, the binary formats, versions and the language server, whose modules
have RECURSIVE operators, over nested data, that the prover does not handle.

## Not modelled

* The characters below tokens, in JSON and in schemas: comments, escapes, the
  conversion of numbers. The token classes are what the lexers return.
* The text of the C++, Go and Rust generators, and of the C generator beyond what
  the generated code does: templates. Their ordering loop is `DependencyOrder`.
* `src/utils/json_context.c`: the probe of `FieldIndex` again, under a mutex that
  covers whole calls, and called by nothing in the repository.
* `sstr_printf_append`, numeric conversions, escaping, comparison: pure
  functions of the bytes.
* In `ObjectMemory`: documents that give a key twice or the key of a length
  (`{"as_len":3}` makes `clear` go through elements that are not there), failing
  allocations of the parser, masks below one nested level, a second entry in a map that
  is an array's element, what happens after memory nobody wrote was used. In
  `JsonRoundTrip`: the values the parser stores. In the binary formats: `mp_unpack_float` and
  `cb_unpack_float` (nothing calls them), the functions for a whole array of
  structs, messages that give a key twice, the arithmetic of floats. In
  `LspServer`: header lines longer than the buffer of 4096 bytes, failing
  allocations.
* `hash_map_free`, rendering of diagnostics, option parsing, file I/O and what is
  left on disk when writing fails half way, Murmur hashing (the hash function is a
  parameter everywhere it is used).
