# A verification project for `dfdl-vm`

`dfdl-vm` (in `src/dfdl-vm`) compiles an XML Schema with DFDL annotations into
an intermediate program (`IrProgram`) and runs it in two directions: the
*decoder* turns bytes into a value, the *encoder* turns a value into bytes. The
code is sequential: no threads, no I/O, nothing persistent. What makes it hard is
search, and that everything exists twice. The decoder is a recursive-descent parser
with backtracking over shared state (variables, sets of variables read, a stack of
commitments, several flags), part of which it puts back after a failed attempt and
part of which it does not. Both directions count bits, take delimiters, escape texts and
format numbers in their own way, and the encoder computes values whose lengths
depend on values it has yet to compute.

This directory holds TLA+ models of those parts, TLC configurations that check
them on small instances, and TLAPS proofs for all instances.

## 1. Inventory

| Component (under `src/dfdl-vm/src/`) | State | Operations | What is hard | What makes it correct | Module |
|---|---|---|---|---|---|
| Decoder backtracking core, `vm/decoder/{mod,choice,particle,sequence,element,xpath}.rs` | the call stack; `choice_pou_stack`, `discriminator_committed_branch`; `runtime_variables`, `read_variables`; `enclosing`; the cursor | `decode`, `decode_node`, `decode_choice`, `decode_element_occurrences`, `decode_single_element`, `validate_particle_discriminator`, `evaluate_and_set_variables`, `enter_variable_scope` | attempts abandoned half-way, commitment that reaches outwards, errors whose kind decides what callers do, state left over from an earlier decode, loops without progress | it is ordered choice with cut; the commitment stack matches the attempts in flight; a failed branch leaves no trace; schema definition errors are not backtracked over; a decode ends | `Decoder`, `Backtracking` |
| Unordered and initiated sequences, `vm/decoder/sequence.rs` | the children still to match, what each trial saved, the flag that ends the search | `decode_unordered_unseparated_sequence`, `unordered_unseparated_backtrack`, `decode_sequence_initiated_content` | a search over permutations with its own backtracking | an order is found exactly when there is one; no trial leaves items or a moved cursor | `Unordered` |
| Separators and delimiter stops, `vm/decoder/{sequence,particle,element}.rs`, `vm/runtime/delimited.rs`, `vm/encoder/sequence.rs` | flags of separators a child consumed; `enclosing`; positions | prefix, infix, postfix separators, suppression, counts of occurrences, delimiters in scope, the encoder's separators | empty slots, flags set in an attempt that is abandoned, policies that skip | no content lost or read twice; counts and order are the schema's; written data is found again | `Separators` |
| Encoder, `vm/encoder/{mod,element,sequence,ovc,helpers}.rs` | output buffers, occurrence context, effective values, `seq_bit_order` | `encode_node`, occurrences, frames, choices, `outputValueCalc` in passes, measuring in scratch buffers, synthesis of absent records | values computed from lengths of values computed later; cells written by scratch runs | lengths agree with what is written; calculated values are settled; the infoset is written whole, once and in order | `Encoder` |
| Bit streams and frames, `vm/runtime/{cursor,bits,binary,framed_payload}.rs`, `vm/alignment.rs`, `vm/encoder/element.rs` | cursor (`pos`, `bit_count`, `frame_bit_limit`), output buffer, `seq_bit_order` | read and write of a field, alignment, frames, bit order checks, end-of-input check | two bit orders, two byte orders, nested buffers on one side and nested limits on the other | what is written is read back; a message cut short is rejected; no read leaves the input | `BitStream` |
| Packed, zoned and binary numbers, `vm/{packed_decimal,zoned_text}.rs`, `vm/runtime/binary.rs` | none | encode and decode pairs | sign nibbles, odd lengths, byte order, prefixes | decode after encode is the identity | `BinaryNumbers`, `Values` |
| Text numbers, calendars, `vm/{text_number,text_number_format,calendar_binary}.rs`, `vm/runtime/{numeric_text_parse,numeric_text_format,calendar_text,pad_trim}.rs` | none | parse and format by patterns | rounding, padding, grouping, lax parsing, week years, time zones | decode after encode is the identity; rounding and dates are those of arithmetic | `TextNumbers`, `Calendars`, `Values` |
| Delimited text, escapes, nil, `schema/entities.rs`, `vm/escape.rs`, `vm/runtime/{scalar,delimited,nil,property}.rs` | alternatives of delimiters noted for writing | scan, escape, unescape, nil literals, entity patterns | escape of escape, delimiter inside a delimiter, alternatives | a text with anything in it is read back; data read and written is the same data | `Delimiters`, `Escapes`, `Fields` |
| Facets, `schema/facets.rs`, `vm/facet_validate.rs`, `tdml/validation.rs` (unions) | the effective facets left with an element | collect, merge, judge, validate | merged facets stand for a chain of restrictions | they say what the chain says | `Facets` |
| XPath context, calculated values of the decoder, `vm/decoder/{xpath,ivc}.rs` | sibling and ancestor maps | expression evaluation in context | maps replaced by a nested sequence and not put back | an expression sees the siblings of its own element | - |
| Schema parser and resolver, `schema/` | the AST | parse, resolve imports and references | text processing | - | - |
| IR builder and validation, `ir/` | node arena, string pool, types under construction | `compile`, `validate` | recursive types | every reference resolves | - |
| Expression language, `expression/` | none | parse and evaluate | - | a pure evaluator | - |
| Static validation, tunables, `schema_validate.rs`, `length_validate.rs`, `tunable_validate.rs`, `parse_unparse_policy.rs`, `unparse_validate*` | none | one pass over schema or infoset | - | - | - |
| TDML runner, `tdml/` | none | runs conformance tests | - | test harness | - |
| API and values, `api.rs`, `value.rs` | handles | `from_xsd`, `decoder()`, `encoder()`, `decode`, `encode` | a handle used more than once | the second use is like the first | `Decoder`, `Encoder` |

How they interact: `api.rs` parses the schema, compiles it and makes handles. A
handle borrows the immutable program. Inside one call everything is direct
recursion; what passes between components besides arguments and results is the
`Cell`/`RefCell` state of the handle (variables, stacks, flags) and the cursor.
The encoder and the decoder meet in the bytes, and in the alternatives of delimiters
that a value decoded carries to the encoder.

`PROJECT.json` lists under `hazards` the places where this can go wrong, each with the
properties that would show it, or a note on what they leave out.

## 2. Modules

| Module | Models | Composes |
|---|---|---|
| `Decoder` | the backtracking core | implements `Backtracking` |
| `Backtracking` | ordered choice with cut over a store: what the core promises | |
| `Unordered` | unordered sequences and initiated content | |
| `Separators` | separators and occurrences, decoded | the loops over children and over occurrences |
| `SeparatorsEncoder` | the separators the encoder writes, as operators | extends `Separators` |
| `Encoder` | the walk over schema and infoset with calculated values | |
| `EncoderContent` | what an encode is to write, as RECURSIVE operators over schema and infoset | extends `Encoder` |
| `BitStream` | fields, frames and bit orders | encoder walk, message, decoder walk |
| `BitStreamLayout` | which programs of `BitStream` are regular | extends `BitStream` |
| `BinaryNumbers`, `TextNumbers`, `Calendars` | the codecs, as operators | each extends the one before |
| `Values` | the life of a value: written, read, rewritten | extends `Calendars` |
| `Delimiters`, `Escapes` | delimiter patterns and escape schemes, as operators | |
| `Fields` | text fields written, scanned and read | extends `Escapes` |
| `Facets` | chains of restrictions compiled, values tested | |
| `MC...` | the schemas and data each is checked on | each extends its module |
| `Decoder_proofs`, `Unordered_proofs`, `Separators_proofs`, `Encoder_proofs`, `Facets_proofs` | the theorems | each extends its module |
| `BitStream_proofs` | the theorems of `BitStream`, messages read back among them | extends `BitStreamLayout` |
| `Calendars_proofs` | the calendar arithmetic of `Calendars`, the dates of `Values` | extends `Values` |
| `Backtracking_proofs` | the refinement | extends `Decoder_proofs` |

### Plan

What is left, in the order of what it would add:

1. The sibling context of expressions in `Decoder` (`xpath.rs:602`), so that what an
   expression reads depends on the attempts before it.
2. `Separators` with the initiators and terminators of `Unordered`, and both under choices.
3. `IrBuild`: the compilation of recursive types, the checks that make
   `ProgramAssumption` of `Decoder` true.
4. Proofs: the type invariant of `Encoder`, and the round trip of the numbers of `BinaryNumbers`, one representation after the other, by the
   induction over folds that `Calendars_proofs` has.

## 3. `Decoder`

### Correspondence

- The Rust recursion is the variable `calls`, a stack of activations: `call` (a
  `decode_node` that has not started), `sequence`, `choice`, `occurrences` (the loop
  of `decode_element_occurrences`), `single` (a complex element whose content is
  being decoded) and `stuck` (a loop that repeats the same iteration without a change).
- `signal` is the return path: `run` while the innermost activation goes on, then
  `ok`, `absent` (`ElementAbsent`), `fail` (any other error) or `sde` (an error whose text begins
  with "Schema Definition Error": `is_schema_definition_error`).
- `env` is what a choice saves and puts back: the variables, the variables read and the
  cursor. `pou` is `choice_pou_stack`, `sticky` is `discriminator_committed_branch`,
  `enclosing` is the stack of enclosing complex elements.
- The program (kinds, children, tests, occurrence limits, variables set and read) is
  constant. What the bytes decide - does an initiator match, does a test hold, how
  much does a field consume - is a nondeterministic choice. Expressions are reduced to
  the variables they read.
- `Refused`, `Updated`: `evaluate_and_set_variables`. `ScopeResults`, `LeaveScope`: `enter_variable_scope`
  and its guard. `CommitNearest`: `commit_nearest_undiscriminated_pou`, with the search
  outwards and the sticky flag. `BranchReturned`, `OccurrenceReturned`: the handling of the result of
  an attempt, one disjunct per return path.

### Runs

| Run | Result | What it shows |
|---|---|---|
| `decoder` | passes | two decodes on one handle, three programs: `TypeOK`, `FramesMatchCalls`, `BranchesStartAlike`, `CommittedIsFinal`, `SdePropagates`, `OnlySlotsRepeat`, `Backtracks` |
| `sde_swallowed` | `SdeNotSwallowed` violated | the error of a committed occurrence is rewrapped and loses its kind (`particle.rs:1000`) |
| `empty_slot_loop` | `DecodeTerminates` violated | an optional element at an empty slot may loop for ever (`particle.rs:794`) |

The violations, here and in the other sections, are findings: the code does something
else than a comment or a document of the repository says; `PROJECT.json` quotes both.
The passing properties are stated so that they hold of the code as it is, with its
exceptions named in the property: `SdePropagates` leaves out the committed occurrence,
`OnlySlotsRepeat` names the elements whose loop may repeat.

**Bounds.** `InputLen` 2 (positions 0..2: nothing consumed, something, everything),
`MaxDecodes` 2 (the first decode leaves state for the second), one variable with two
values, `MaxOccurs` at most 2 (the loop goes round and ends by count). The programs
nest choices in choices, arrays in choices and choices in arrays, which is what
commitment outwards needs; root 11 adds dispatch, frames and a text array, root 21
the three kinds of loops that may not progress and an item of length 0.
`CHECK_DEADLOCK FALSE`: a handle that has done its decodes, and a stuck loop, stop.

**Fairness.** `WF_vars(Run)`: a decode is one call of a sequential function, nothing
can keep it from its next step. There is no fairness on starting a decode.

### Proved

`Decoder_proofs`, for every program, number of variables, length of input and number of
decodes, from `ProgramAssumption`, `PreNodeAssumption`, `VariableAssumption` and
`BoundAssumption`:

- `TypeCorrect`: `Spec => []TypeOK`.
- `FramesCorrect`: `Spec => []FramesMatchCalls`. `Inv == TypeOK /\ FramesMatchCalls` is inductive; each action
  is one step of the lemma, with lemmas for push, pop and commit of the frame stack.
- `CommitmentCorrect`: `Spec => CommittedIsFinal`. Uses `Inv`: without it the frame that an
  attempt pops and examines need not be its own.
- `SdeCorrect`: `Spec => SdePropagates`.
- `BranchesCorrect`: `Spec => []BranchesStartAlike`. The property looks at the innermost choice only and is not
  inductive: what is put back after a branch is the environment saved for the attempt. `ChoicesHeld` says of every choice on
  the call stack that this environment (or the present one, when the choice runs) is `Alike` the one it began with.
  Each action is one lemma; what returns, calls and becomes something else is a lemma of its own.

`Backtracking_proofs`, from `Inv` and `ChoicesHeld`:

- `BacktracksCorrect`: `Spec => Backtracks`. `TasksBefore` gives the abstract stack as a function of `calls` and of the marks of
  the frames, each attempt having its own frame by `FramesMatchCalls`. Each action of `Decoder` is then a step of
  `Backtracking` or one it does not see (`StepImplements`). That an attempt of a choice starts in its store needs `ChoicesHeld`; that
  `commit_nearest_undiscriminated_pou` marks the attempts that `Cut` cuts is `CommitCuts`.

Only model-checked: `OnlySlotsRepeat` (liveness, beyond the prover).

### The abstract specification

`Backtracking` says what a caller may rely on: tasks on a stack, a choice that attempts its
alternatives in order, each from the store in which the choice began, a loop that attempts the
same thing again, and a cut after which nothing else is attempted. `Decoder` implements it
under the mapping at its end (`AsTask`, `Abstract`): an activation of `decode_choice` is a choice, of
`decode_element_occurrences` a loop, everything else a task; the store is the variables and the cursor;
an attempt is cut when its frame of `choice_pou_stack` is committed. The set of variables
read is not in the store: the message of a rejected discriminator adds to it, which
`BranchesStartAlike` says exactly. `Backtracks` is the refinement, checked by the run `decoder` and proved in
`Backtracking_proofs`. It is about safety: that a decode ends is no part of it (`OnlySlotsRepeat`).

### Not modelled

Unordered and initiated sequences (`Unordered`); separators as such (their effect on progress is in
`SkipSlot` and `Rewound`); unbounded `maxOccurs`; the values decoded; the sibling
context of expressions. `seq_bit_order` is in `BitStream`.

## 4. `BitStream`

### Correspondence

- A program is the flat list of tokens of the walk: fields, frames (complex elements
  of explicit length) and groups (complex elements of implicit length) with their
  ends. Encoder and decoder read the same list.
- The encoder (`WriteField` ... `WriteGroupEnd`) has a stack of buffers: `encode_framed_element`
  writes the content into a buffer of its own, and `write_explicit_payload` cuts or fills it.
  Alignment and the check of bit orders see the innermost buffer only.
- The decoder (`ReadField` ... `ReadGroupEnd`) has one cursor, `idx` (`absolute_bit_index`), and `limits`, the
  `frame_bit_limit` and the limits it replaced.
- Numbers are sets of bits, bytes are sets of <<byte, bit>> places. `EncodePacked` and
  `DecodePacked` are the two functions of `bits.rs`, with their shifts of the first byte
  and their reversal. `FieldReadable` keeps the difference between the read paths: the bit path
  looks at the frame limit, the byte and chunk paths do not.
- Between the two, `Receive` cuts the message anywhere, adds bytes or gives its number of bits
  (`decode_with_bit_limit`); `ReceiveForeign` decodes a message of zero bytes that no encoder wrote.

### Runs

| Run | Result | What it shows |
|---|---|---|
| `bitstream` | passes | 14 layouts, three bit patterns: `TypeOK`, `RoundTrip`, `EncodedIsAccepted`, `ShortIsRejected`, `CursorWithinData` |
| `frame_overrun` | `CursorWithinFrame` violated | a little-endian field of a byte or more is read past its frame (`binary.rs:269`) |

**Bounds.** The layouts cover both bit orders and both byte orders, widths below, at and
above a byte with and without fragment, fields at every kind of offset, frames off the
byte boundary, filled, nested, with another bit order inside, groups, and changes of
order that both sides refuse. Patterns: no bits, all bits, and one whose bits
are not symmetric. The message is cut at every byte and extended by `Extra` = 1 byte; foreign messages
have up to `MaxBytes` = 4 bytes. `CHECK_DEADLOCK FALSE`: a run ends. No liveness is claimed: every
action moves forward in the list.

The layouts of `bitstream` leave out three cases that the model has and in which the round
trip does not hold: an aligned field in a frame that starts off the alignment (the
encoder aligns within the frame's buffer, the decoder within the input), a little-endian
`Long` with a fragment, and an LSBF field aligned to 4 bits at bit 4 (the last two are listed as
hazards).
Payloads longer than their frame are cut by the encoder; no layout of this run has one.

### Proved

`BitStream_proofs`, from `ProgramsAssumption` and `InputAssumption`, for every program and message:

- `TypesCorrect`: `Spec => []TypeOK`.
- `CursorCorrect`: `Spec => []CursorWithinData`. The inductive invariant adds that there is
  always a buffer and that the cursor is at 0 until the message is there.
- `PackedRoundTrip`: `DecodePacked(EncodePacked(v, w, o), w, o) = v` for every width `w`, order `o` and value
  `v`. The argument gives each bit its place in the bytes (`Place`); encoding puts every bit
  there (`EncodedPlaces`), decoding looks there (`DecodedPlaces`), and places are distinct.
- `FieldRoundTrip`: a field read where it was written has the value that was written, at every
  place in its byte, for all orders and kinds except a little-endian `Long` of a byte or more.
  That the places after a buffer are `Free` is its hypothesis.

In the same module, from the same assumptions and `\A p \in Programs : Regular(p)`, for messages of any
length, frames nested to any depth, every value, every cut and every addition:

- `WrittenIsRead`: `Spec => []RoundTrip`.
- `WrittenIsAccepted`: `Spec => []EncodedIsAccepted`.
- `CutIsRejected`: `Spec => []ShortIsRejected`.

`Regular` (`BitStreamLayout`) is a condition on the text of a program, none on values. A layout
gives each token the slots of the open buffers: where in the message each starts, how
many bits it has, where it must end. A program is regular when at every token the encoder's count in
the innermost buffer and the decoder's count in the message skip the same bits and change the bit
order at the same places, content stays within its frame (and fills it when the frame is
`exact`), bits of two orders do not meet in a byte, and a payload with fields in another order than its
frame is whole bytes at a whole byte. It excludes the cases named under Bounds, frames whose content is
cut, `exact` frames that are not filled, little-endian `Long`s of a byte or more, and elements without `bitOrder` that put two orders in a byte. A program that the
encoder refuses at a change of order is laid out to that token. `MCBitStream` assumes of each of its 14 programs that it is
regular (`RegularPrograms`, with `LayoutOf` for a witness), so the theorems are about programs of every kind
the run has.

The inductive invariant is `Followed`: encoder and decoder follow one layout. While the encoder writes
(`Encoding`) every buffer has the length of its slot, has no bit set after its end (`Clean`, so that what
follows is `Free`), and every value written has its bits in some buffer at the place its layout gives;
no later write disturbs them (`KeptAfter`), and copying a payload into the buffer around it moves them to
where the slot of the frame lies (`KeptMoved`). The last token makes that a statement about the message
(`Message`). While the decoder reads (`Decoding`) the cursor is where the layout says, the limits are the ends of
the slots, and the values read are those written. The decoder can stop only where a bit is missing, and
after the last token the cursor is at the end of the message, which is why a message that was cut
cannot get there.

The proofs take widths without bound; the code's `u64` makes them at most 64.

### Not modelled

Lengths in bytes and characters, implicit alignment, skips, separators and initiators
between fields, decimals, floats, strings and hexBinary, the bit order regions
of TDML documents, the error for an undefined `fillByte`. Frames of text
(decoded in a sub-cursor) are in `Decoder` (`Framed`).

## 5. `Unordered`

### Correspondence

- `prog.mode` is the loop the sequence gets: `scan` and `search` are the two halves of
  `decode_unordered_unseparated_sequence` (by initiators, or `unordered_unseparated_backtrack`),
  `initiated` is `decode_sequence_initiated_content`, ordered or not.
- The recursion of the search is `levels`: a level tries the next child that is not
  visited (`TryScalar`), takes occurrences of a repeating one while there are any (`StartTaking`,
  `TakeOccurrence`), and has the level above search for the rest; when that fails the
  cursor and the items go back to what the level began with. `sticky` is `discriminator_committed_branch`,
  which ends the search early.
- A child is a word (initiator and content). `Occurrence` says what `decode_element_occurrences` with one
  occurrence answers for a word that matches, matches in part, or not at all, and
  with which error; a child may be decoded and refused by its facets.

### Run

`unordered`: twelve sequences over every input of up to `MaxLen` = 4 tokens out of
six (two initiators, content, separator, newline, terminator), decoded twice on one handle
(the second decode starts with the flag the first left). Four tokens hold two
children with content, or one child repeated with separators, and one token that fits
nowhere. `ItemsTile`, `SearchDecides`, `InitiatedInOrder`, `RequiredPresent`, and `DecodeEnds` under `WF_vars(Run)`
(a decode is one call). `SearchDecides` is stated
while the flag is not set: with it the search ends at the first failure, also in a
later decode.

`SearchDecides` compares the search with `Solvable`: `Works[S]` is the set of positions from which the children of S
fit one after the other in some order, defined by recursion over the set, with `Ends` the positions a child may end at (a
repeating child takes as many occurrences as fit, `Greedy`, and the search never tries fewer).

### Proved

`Unordered_proofs`, for every set of programs and inputs, from `ProgramsAssumption`, `InputsAssumption` and
`BoundAssumption`:

- `TypeCorrect`: `Spec => []TypeOK`, and `ItemsAreTiled`: `Spec => []ItemsTile`. The inductive invariant `Base` says that the
  items lie side by side (`Tiled`) at the cursor and at every level of the search, since a trial that fails puts back
  the items of its level; and that what the levels have visited differs from what they try (`StackOK`): an item is
  overwritten otherwise.
- `InitiatedContentInOrder`: `Spec => []InitiatedInOrder`. `Ordered` adds that no child beyond `lower` has an item.
- `RequiredArePresent`: `Spec => []RequiredPresent`. `Trials` counts at every level: a visited child has the occurrences it
  requires, the others have none, and what is taken in between is on top of the level's items.
- `SearchIsComplete`: `Spec => []SearchDecides`. `Searching` says of every level that if the rest of the children fit from its
  position the sequence is solvable, and that what the level has tried so far was in vain, which needs that the occurrences taken are
  those of `Greedy` (`Trials`). When all was in vain, `WorksIs` says that the rest does not fit. It is the equation of the
  recursive function `Works`, shown by the least size of a set for which it could fail (`Least`).

Only model-checked: `DecodeEnds` (liveness, beyond the prover).

### Not modelled

What happens inside a child (`Decoder`), variables among it.

## 6. `Separators`

### Correspondence

- `SequenceStep`, `SequenceChild`, `SequenceEnds`: a round of the loop of `decode_node` over the children, the result
  of a child, the end with its trailing separators. `AfterSeparator` is what is consumed
  before a child, `SkipsAfterParsed` and the flags what a child took ahead of its parent.
- `SeparatorMissing`, `AtSlot`, `DecodeField`, `DecodeBounded`, `DecodeComplex`, `ComplexItem`, `OccurrencesEnd`: a round of
  `decode_element_occurrences`, with the empty slots, the policies and the
  occursCountKinds implicit, fixed and parsed. A parsed count has no limit, unless minOccurs is maxOccurs (`Limit`); then one
  occurrence more may follow of a field with a terminator between commas (`BetweenCommas`, `framing_extra_occurrence`). `DecodeBounded` is a complex element whose data ends at its parent's
  postfix separator.
- `found` is the content of the result, as events. A complex item appends to it while it is decoded; `keep` in the frame
  of its loop is how many events there were before, and `ComplexItem` drops what is beyond when the item failed
  or made no progress (`particle.rs:916`).
- `EncodeItem`, `EncodeItems` and `EncodeSequence` of `SeparatorsEncoder` are the encoder's separators
  (`encoder/sequence.rs`). A sample (`Samples`: data with the events it was encoded from) is decoded,
  or an input as it is. The encoder recurses over values, so it is RECURSIVE; in a module of its own it keeps
  the decoder within reach of the prover.

### Run

`separators`: three fields under each position and policy, repeated and optional
fields, calculated elements, complex elements in each other; every input of up to `MaxLen` = 4
tokens over text, digit and two delimiters, three inputs of three fields for the limits of a parsed count, and everything the encoder writes of samples
with up to three items. `InputAccounted`, `OccursInRange`, `FlagsClean`, `RoundTrip`; `DecodeEnds` under
`WF_vars(Run)`, but for the slot that repeats for ever (`empty_slot_loop`). In two of the
programs a complex element of nothing but optional content is in a loop without limit: its items may make no progress.

`RoundTrip` is stated for the schemas whose items can be told apart by position
(`Positional`): not postfix; in an infix sequence every child but the last occurs once; not policy
`never`; no calculated strings; no empty texts. Outside that the code does not round trip:
the encoder drops the separator of a repeating child with one item under prefix and
postfix, never writes the last postfix separator, writes `a,,a` under `trailingEmpty` which
is not read again; lax trailing separators skip a required last child (named in `OccursInRange`);
a calculated string takes a separator that belongs to the next child.

### Proved

`Separators_proofs`, for every set of programs, every input and any number of decodes, from `ProgramsAssumption`,
`InputsAssumption`, `SamplesAssumption` and `UnboundedAssumption`; `OccursWithinRange` from `RootedAssumption` as well:

- `TypeCorrect`: `Spec => []TypeOK`. That the cursor stays at or before `end` is not inductive: a postfix
  separator shortens `end` for one element and an answer lengthens it again. `Shape` says why the two fit:
  each frame on the stack is one that the frame below it calls, and the end each complex element saved is one its loop
  can go on under (`Stack`, `Calls`, `Ends`); the loop on top began its item before `end` (`Within`); a frame that has called
  waits for an answer (`Answered`); and each complex item that is open found something after those around it (`Keeping`), so
  that dropping its events never drops one of theirs. It rests on lemmas about scans (`Delimiters` in scope are found before `end`) and one lemma
  per way to leave a round (`GoOn`, `Stop`, `Decoded`, `Failed`).
- `FlagsAreClean`: `Spec => []FlagsClean`, by `FlagsFollow` over `Shape`: until a complex element failed, `enclosing` has
  one entry for each complex item on the stack (`Opened`), and a separator counts as taken only between the answer of an item
  bounded by a postfix separator and the step of its loop that consumes the mark.

The proof of `Shape` did not close on the first form of the model, in which a complex item without progress left its
events in `found`; `particle.rs:916` leaves the loop before the item is stored, and the model now drops them.

- `OccursWithinRange`: `Spec => []OccursInRange`, by `RootFollows` over `Shape`. What was found so far is not in range until
  the end, and part of it may still be dropped, so the invariant says what the stack makes of it. The occurrences of the
  children (`Tallies`) are in order; when the root sequence is at its child `i`, those before `i` are in range and those after it have none
  (`RootSays`); the loop over child `i` counts as many as were found, and one more while an item is open (`LoopSays`);
  once the root has ended all are in range. After the event of an open item there are only events of nodes that are not
  children of the root (`Holds`), which is why dropping them changes the count of one child, by one. A root that
  failed says nothing (`Lost`). Each step of the loop gains an item, gains an empty slot, gains nothing or loses the item it
  had opened (`Gains`), and each way out of it comes to a count in range or to a failure.

`RootedAssumption` is that the nodes are a tree below the root whose children are numbered in schema order: `IrBuilder::push`
(`ir/builder/mod.rs:180`) gives each node compiled the next number, and the children of a group are compiled one
after the other, each anew (`particle.rs:580`), also where two refer to the same declaration. The two policies
that `OccursInRange` leaves out are those where `sequence.rs:590` ends the sequence early.

- `InputIsAccounted`: `Spec => []InputAccounted`, by `Accounts` over `Shape`. `Bare[pos]` is the data up to the cursor without the delimiters
  of the schema, `Told(found)` the texts of what was found. Until something failed the two are equal; after a failure they
  are not, because the cursor is where the attempt ended and its events are still there. So `Framed` says of each frame that has
  called what makes going on possible: what was found before the item of a loop is the data up to where the item begins, and up to the
  separator before it (the two places a loop may go back to), and between the end of an element's data and the place
  its loop goes on from there are only delimiters. The data of the outermost is the whole input (`EndAbove`), which is why an accepted
  decode has accounted for all of it. What each action needs is that a place it moves to has the same content
  before it (`PastSame`, `RepeatSame`, `OnlySame`, `TrailingSame`).
  `Kept` and `Texts` are recursive functions of places in the data. The argument is by induction over places, carried by
  `UpTo` (a set that holds 0 and, with each place before the end, the next one holds all; by the least place it
  does not hold); `FollowsExists` shows that a function so defined exists, and `KeptIs` and `TextsIs` that these two satisfy
  their equations.

Not proved: `RoundTrip`, whose samples are what the RECURSIVE operators of `SeparatorsEncoder` write; `DecodeEnds` is liveness.

### Not modelled

emptyElementParsePolicy `treatAsAbsent`, separators that begin with `%NL;`, the bounds of
`maxOccursBounds`, the look-ahead under `anyEmpty`, initiators of separated children.

## 7. `Encoder`

### Correspondence

- `stack` holds the Rust calls: `encode_node` (`NodeSequence`, `NodeChoice`, `NodeElement`), the loop over the children
  (`SequenceReady`, `SequenceChild`, `ChildReturns`), `encode_particle` (`Particle...`, `BranchReturns`), the loop over items
  (`SimpleItem`, `OccurrenceItem`, `FramedItem`, `ItemReturns`, `ItemFailed`, `ItemsDone`).
- Before the children are written the calculated ones are computed in passes until
  nothing changes or the limit is reached (`EvalEntry` ... `PassDone`, `ovc.rs`). An expression asks for values of its
  siblings (`Resolve`), which may be calculated themselves; a length is found by
  encoding into a scratch buffer with the same encoder (`Measure`, `Measured`, `MeasureFailed`), so that its
  cells see the scratch run; a record that is absent is made up (`Synthesize`).
- `occurrence` is the context of `occursIndex`, `order` the cell `seq_bit_order`; `out` is the output as tokens with
  their widths. `Unwind` is the return of an error.
- A number, and a text, is written in the bit order of its element; nil values, prefixes and padding are whole bytes and
  in no order (`Token`). A nil value is written on a byte boundary or refused (`WriteNil`, `write_byte_aligned`); so are
  prefixed payloads and those of a given length (`FrameRefused`).
- The order of an element is noted after it was written. `encode_node` notes it also when the value was
  refused, and the loop over items also of a complex element, after its content; a scratch encode notes its orders in the
  same cell (`NoteOrder`). `unseen` is not in the code: it says that one of these has happened, so that `order` may be
  that of nothing in the output, and the check of the next element (`OrderRefused`) is made against it.
- The values of a field are looked for in records 16 deep (`MaxNesting`, `lookup_sibling_value_in_map_depth`).
- A sequence that is a child of a sequence is given the fields around its parent, not the effective fields of the parent
  (`ScopeBelow`, `encoder/sequence.rs:312`): what was calculated there is not seen below it.
- A prefixed payload is written as whole bytes (`Framed`, `write_prefixed_bytes`). `substring` takes characters of a text only, other
  expressions of whatever has a text (`Chars`). A hidden simple element is the empty text, whatever its type (`Known`).
- The walks over the schema (`FindParticle`, `Collected`, `DataKey`, `CanBeAbsent`, `InfosetKey`, `EncodeTarget`) are recursive
  functions over the nodes, so that `Encoder` can be proved about. What an encode is to write is RECURSIVE over the infoset and
  in a module of its own, `EncoderContent`.

### Run

`encoder`: a hundred schemas, each with its infosets, encoded twice on one encoder: lengths of texts and of
records with calculations inside, chains against the order of declaration, circles, calculations
that fail, items with their index before and after arrays inside them, counts, frames,
choices by field, by record, hidden and calculated branches, hidden numbers, bit orders in nested sequences, calculated values in them.
`MaxDepth` = 40 calls is far above what acyclic schemas need (`TypeOK` says so); paths that go in a circle, which no
schema of this run has, would reach it.
`LengthAgrees`, `CalcsSettled`, `OccurrenceFresh`, `WritesInfoset`, `OrderChangesOnBytes`.

The schemas leave out what the code does otherwise: a choice directly inside a choice is
encoded with an empty map; a branch sequence whose first field is complex, or that shares a field name
with another branch, is not told apart; a required inner field that is missing but present
under the same name further out is taken from there; a value supplied for a calculated
element stays when its expression keeps failing; path calculations in a circle recurse without end, or
run to the pass limit and are written unsettled (the result of `ovc_length_cycle_error` is not
used), while "circular" is also reported for values that are merely missing (`ovc.rs:257`); `valueLength` of delimited text
counts UTF-8; a value chosen as a branch merges a record's fields into its parent.

### Proved

`Encoder_proofs`, for every set of schemas, every infoset, every `MaxDepth` and `MaxEncodes`, without any assumption (the
argument does not need `ProgramsAssumption`):

- `OccurrenceIsFresh`: `Spec => []OccurrenceFresh`.
- `OrdersChangeOnBytes`: `Spec => []OrderChangesOnBytes`.

Both follow from `Cells`, an inductive invariant about the whole stack. Its parts are:

- `Shape`: the stack and the output are sequences, and an activation that can keep a buffer keeps a sequence.
- `OccurrenceFollows`: a set occurrence is that of the last activation in `Running`, the items that wait for one above them.
  It has to speak of waiting items: an item whose content has returned still has its occurrence set, until the next
  step clears it. Then the cell is empty even while an outer item goes on: `with_array_occurrence` does not put back
  what was there.
- `OrderFollows`: unless `unseen`, the output changes orders on byte boundaries and its last order is the one in the cell;
  and of the buffers put aside by `Held` (`Measure` and framed items) each fits the cell too and only the outermost has
  any order in it, since an order noted above a held buffer sets `unseen`. This is what makes the buffer right when it comes back: the property of
  `out` alone is not inductive, because `Measured` and `ItemReturns` bring back a buffer it says nothing of.

Most actions write nothing. For these it is enough that they pop, replace or call on the stack and leave no frame waiting that
keeps something (`Moves`, `Idle`, `QuietKeeps`); each action is one lemma. The steps that write have a lemma each (`...Keeps`).
What is cited of the tokens is that `Bits` depends on the tokens only, so the proof does not depend on how they are counted.

Only model-checked: `TypeOK`, which says that the stack is high enough and so holds of the schemas of the run, not of all;
`LengthAgrees` compares two encodes of one value, the scratch one and the real one, `CalcsSettled` and `WritesInfoset` say what recursion over an
infoset computes: these need induction over data.

### Not modelled

Paths of several steps with indices, casts, conditional expressions beyond their text, runtime
values of encoding, byte order and text number properties. Separators are in `Separators`,
delimiters in `Fields`, bits in `BitStream`.

## 8. `Values`: numbers, texts and calendars

### Correspondence

`BinaryNumbers` has two's complement, BCD, packed and IBM 4690 numbers, virtual points,
booleans, hex and blobs, with implicit, explicit, prefixed and delimited lengths. `TextNumbers` has the pattern
walk of both directions, rounding, padding, radix numbers and booleans. `Calendars` has ticks,
packed and text calendars, week years, lax carries and time zones. Bytes, digits and
characters are members of sequences; a number is an integer or a decimal of digits and scale.
`Values` takes a field through its life: `Write`, `Read`, `Rewrite`, and `Receive` for a wire that was not written by the encoder.

Three places follow the arithmetic of the code where it is not that of numbers. An increment leaves only the significant
digits of its product (`FromScaled`, `decimal.rs:376`). Weekdays are computed with `/` and `%` that cut towards zero
(`Quot`, `Rem`). The year of a text that begins with a minus is tested as 0 (`ValidYear`, `calendar_binary.rs:375`).

### Run

`values`: more than seven hundred fields with their samples and foreign wires: the values at the ends of each width,
at each rounding boundary, signs and zero; dates at the ends of months, leap years and week years. `MaxMagnitude` = 99999 and
`TextMax` = 32767 stand for the widest number and field. `FirstDay` (2 November of the year before 0) and `LastDay` (1 May 2024) stand for the
days that bound a calendar, so that TLC's integers hold every count of seconds; `MinYear` = 0 is the default of the tunable. `ReadsBack` and `Stable` are the round trip in both directions; `RoundsRight`, `DatesTrue` and
`LaxCarries` compare with arithmetic and the Gregorian calendar, not with the code's own tables. `MaxRolls` = 2 stands for the
512 months that `normalize_lenient_ymd` goes through at most: a day of 99 is beyond them, and what is left stays as it is.
`DatesTrue` is stated for the texts whose date is that of a week alone: a day of the year goes before a week, an era turns the year,
a lax dateTime may carry its time into the next day, and all-digit texts are read without regard to the letters `w` and `W`. It says
nothing of weeks before March of the year 0 (`IsCounted`), whose weekdays are off. `RoundsRight` compares what is written with the
multiple of the increment, or of the last digit of the pattern, that the rounding mode asks for, and has the zeros an increment loses in it
(`Stepped`).

### Where the round trip does not hold

The properties are stated for the fields and values below these exceptions, which are the code's.

- Binary: two's complement of a signed kind in an explicit length narrower than its type is
  extended with zeros (`short`, `long`) or wrongly (`int`); negative IBM 4690 numbers with an even number of digits lose
  the sign; BCD drops signs; numbers with an explicit length are written in two's complement
  whatever the representation; negative binary decimals are read unsigned; negative virtual points are used on reading
  only; a BCD length prefix is read as binary; a prefix longer than its field is cut; unsigned kinds
  wrap; digits beyond the virtual point are cut; a prefixed boolean is 0 or 1; blobs are
  padded even with a prefix; a field longer than its type reads its last bytes.
- Text: a strict pattern requires the point on reading but does not write it for a number
  without fraction (`text_number.rs:1184`); a multiple of an increment that is under a tenth loses the zeros behind its point, so
  that 0.048 with increment 0.02 and pattern `0.00` is written 0.40 (`decimal.rs:376`; the test of increments at
  `text_number_format.rs:557` has 0.128 only); `roundUp` and `roundDown` are ceiling and floor; `halfUp` leaves an exact half in the
  fraction down; `roundUnnecessary` cuts; a scientific mantissa with fraction gets a wrong exponent; `V` and
  zoned numbers are written as plain texts; `P` is written as a letter; grouping without a separator set uses a comma;
  a lax number drops trailing junk and reads blanks as 0; a boolean of one letter
  matches by its first; a text to be truncated cuts numbers; the padding character `0` on the right
  takes zeros of the number; `-0` is refused for unsigned kinds.
- Calendar: days before March of the year 0 are one weekday ahead, so that weeks there begin on another day; a date before the year 0 passes
  the limits of years as the year 0; hour patterns `k` and `h` at midnight, `V` for other zones than UTC, minutes of narrow zones,
  fractions of seconds beyond what a pattern has, dateTime patterns with time letters and binary calendars
  in writing; strict explicit patterns accept 31 February; all-digit texts are read without
  regard to literals; implicit times keep trailing junk as a zone.

### Proved

`Calendars_proofs`, for every field, pattern and text, and for every year where nothing else is said, from `CalendarAssumption`, `SizeAssumption`,
`FieldsAssumption` and `InputsAssumption`. The reference is `DayNumber`: days since 1 January of the year 1 by the Gregorian rule, with none
of the algorithms of the code.

- `DaysCounted`, `CivilIsTrue`: `days_from_civil` is that count, less the days to 1970, and `civil_from_days` gives for every number a date of the calendar that
  has it. The proof takes a day of an era apart into century, four years and year (`Cycles`), as the three corrections in
  the numerator do, and a day of a year into months of 153 days for five.
- `WeekdaysCounted`: the weekday, by Zeller's congruence, is that of the count from March of the year 0 on, and one ahead in the year before
  that. Both differ by whole weeks, for the year and for the month (`YearSums`, `MonthSums`); the divisions of the code cut towards zero, which is the
  floor for the years from 0 on and one more for the year before (`CutSums`).
- `LenientDateIsTrue`: the loop of `normalize_lenient_ymd` keeps the day and ends with a date of the calendar, if the day is within the `28 * (MaxRolls + 1)` days
  that the months it goes through have at least. Each turn leaves a month less (`RollKeeps`).
- `WeekOfYearIsTrue`, `WeekOfMonthIsTrue`, `NthWeekdayIsTrue`, `OrdinalIsTrue`: the searches for a week, a weekday and a day of the year give the day the count asks
  for, and a date exactly when there is one; so no week is counted twice or left out where years and months meet. The weeks of a year are
  for years from 1 on, since those of the year 0 begin in months whose weekdays are off; weeks and weekdays of a month from March of the year 0
  on; days of the year for all.
- `TicksAreTrue`: what is shown of a count of ticks, if anything, is a date of the calendar and a time of day, exactly so many seconds after the epoch,
  whatever the zone; its year is one the tunables allow, or one before 0 where they allow 0.
- `DatesAreTrue`: `Spec => []DatesTrue`, which is about dates read of a full-width count of ticks, and of texts whose date is that of a week
  where weekdays are those of the count. The inductive invariant, `WireIsKnown`, says where a wire is from and that what is known is what was read of
  it. The encoder writes neither ticks nor weeks (`NoWeekWritten`), so such a wire is an input. Of an input, the walk of the pattern gives numbers
  (`WalkIs`, by induction over the items of the pattern), whatever the pattern and the text; then the theorems above apply. The walk, numbers and bytes are folds; a fold is
  a recursive function of sets of positions, which exists and has the type of its step (`FoldExists`).

`ReadsBack`, `Stable`, `RoundsRight` and `LaxCarries` are model-checked only: what they say of a value depends on the digits of a text one
by one, in both directions.

### Not modelled

Doubles and floats, decimals given with an exponent, infinities and NaN as texts, numbers beyond 64 bits, lengths in bits (`BitStream`), patterns with two
runs of literals, language tables, encodings other than one byte per character.

## 9. `Fields`: delimiters and escapes

### Correspondence

- `Delimiters`: a delimiter property as `entities.rs` has it: split into alternatives, with character entities and white-space
  entities of each repetition; `MatchAt` and its parts take the longest alternative, what is written is the first
  or the one noted. `Escapes`: the writer's escaping, the steps of the scan over it, the reader's unescaping, for escape
  characters and blocks with their escape-escape character.
- `Fields`: `Write` writes a sample, with any alternatives of its delimiters; the decoder then goes field by field
  (`Separate`, `TestNil`, `Initiate`, `Scan` one position at a time, `Scanned`, `Measure` for fixed lengths, `Value`, `Close`) and notes
  the alternatives it saw.

### Runs

`scan`: two text fields under eleven separators, seven escape schemes, initiators and terminators with
alternatives, nil values of both kinds, fixed lengths, UTF-16. Texts have up to two or three characters out of up to four,
so that every pair of escape character, its escape, delimiter and quote is adjacent once.
`ReadsBack`, `Rewritten`. `escape_inverse`: `EscapeIsInverse` is violated (`escape.rs:248`): escaping is not undone for every text.

`ReadsBack` is stated for what can be read (`InScope`): every delimiter as written is matched by its own pattern (not `%NL;` or
`%SP;` alone, which are trimmed to nothing on writing, `entities.rs:1555`); every delimited field but the last has a
terminator or separator; texts without a scheme hold no delimiter characters; with a scheme, no escape character without
its escape and none of the cases of `escape_inverse`; a text does not begin with a nil literal. `Rewritten` leaves out infix separators
read with an alternative: they are noted per separator and looked up per child (`encoder/sequence.rs:494`,
`decoder/sequence.rs:477`). Other observations: `,,` as a separator recurses without end in `encode_delimiter`;
explicit-length fields unescape but never escape; nil bytes are not encoded; an initiator under UTF-16 is
rewritten in single bytes; `outputNewLine` under UTF-16 is written unexpanded.

### Not modelled

Character classes, byte and numeric entities, Unicode newlines, bit encodings, postfix separators.

## 10. `Facets`

### Correspondence

- `CheckLevel` checks each restriction from the type's own to the base (`LevelRefused`), `Collect` merges from the base up
  (`Merged`, `collect_facets`), `Judge` is `validate_length_facets_for_type` and what it calls, with the first reason that applies
  (`Reason`), and leaves the facets with the element (`Applied`). `Decode` tests a value: `valid` is `validate_decoded_facets` with the members of a
  union, `kept` is `backtrack_decoded_facets_ok`, which a choice and the unordered search ask.
- A pattern is the set of values it matches, a calendar its place in the order of canonical texts, a facet
  that is not given the empty set.

### Run

`facets`: chains of two and three restrictions of ranges, digits, enumerations, patterns and lengths, and unions, for
seven kinds of values. `MinLong` = -20, `MaxLong` = 20 and `Narrow` = -4..4 stand for the
widths, with values beyond them. `MergedSaysEvery` compares with the restrictions taken one by one;
`RefusesOnlyEmpty`; `ImplicitHasLength`.

The properties are stated for the facets the code tests (`Tested`, `Ordinary`). It does not test patterns and enumerations of
a string with a length, nor anything of hexBinary but an exact length; bounds with a fraction; ranges
of integers beyond 64 bits; numeric enumerations of binary numbers; patterns of integers; enumerations and patterns of
decimals; a decimal `-0` is below 0; the sign of nonNegativeInteger without another facet. A restriction in the middle may
change a length without error. Calendars are compared as texts, zones and all. `finalize_simple_value` drops the verdict
(`scalar.rs:105`): facets decide in choices, in unordered search, in checkConstraints and after the decode.

### Proved

`Facets_proofs`, for every set of types, chains of any length and all values, from `TypesAssumption` and `LongAssumption`:

- `SpecIInv`: the inductive invariant. While restrictions are collected, `Says` relates the facets merged so far to the first `level`
  restrictions: each bound accepts exactly the integers that all of them accept (`Lower`, `Upper`), the length is that of one of them, the
  enumeration is that of the last that has one and is contained in all others. The last needs that no restriction was refused, so the
  invariant carries the result of `CheckLevel` (`Unrefused`). One lemma merges one restriction (`SaysMore`).
- `OrderRefusesOnlyEmpty`: `Spec => []RefusesOnlyEmpty`, for all kinds, decimals by the integers next to them.
- `CompiledImplicitLength`: `Spec => []ImplicitHasLength`.
- `MergedFacetsSayEvery`: `Spec => []MergedSaysEvery`, kind by kind (`StringSays` ... `CalendarSays`), for types that are no decimals: decimals are compared as
  texts, digit by digit, whose meaning is an induction over digits. TLC checks them.

### Not modelled

`validate_facet_literals`, padded literals, `validate_particle_occurs_index_asserts` and the other assertions of
`checkConstraints`.

## 11. Running

    tlc -config MCDecoder.cfg MCDecoder.tla            # 34480 states
    tlc -config MCBitStream.cfg MCBitStream.tla        # 39142 states
    tlc -config MCUnordered.cfg MCUnordered.tla        # 218282 states
    tlc -config MCSeparators.cfg MCSeparators.tla      # 450911 states
    tlc -config MCEncoder.cfg MCEncoder.tla            # 36699 states
    tlc -config MCValues.cfg MCValues.tla              # 112989 states
    tlc -config MCFields.cfg MCFields.tla              # 183367 states
    tlc -config MCFacets.cfg MCFacets.tla              # 111707 states
    tlapm Decoder_proofs.tla
    tlapm Backtracking_proofs.tla
    tlapm BitStream_proofs.tla
    tlapm Unordered_proofs.tla
    tlapm Separators_proofs.tla
    tlapm Encoder_proofs.tla
    tlapm Facets_proofs.tla
    tlapm Calendars_proofs.tla

`MCSdeNotSwallowed.cfg` and `MCDecodeTerminates.cfg` (of `MCDecoder`), `MCCursorWithinFrame.cfg` (of `MCBitStream`) and
`MCEscapeIsInverse.cfg` (of `MCFields`) are the runs that end in a violation. All models of one call have
`CHECK_DEADLOCK FALSE`: when it has returned, nothing is left to do. `PROJECT.json` lists the runs,
the lines of the source each definition stands for, a mutation of the code's
definitions for every property that passes, the findings, the hazards and the theorems.

What the prover does not reach and only TLC shows: liveness (`OnlySlotsRepeat`, `DecodeEnds`) and what the RECURSIVE
operators of `Escapes`, `EncoderContent` and `SeparatorsEncoder` compute: no module that has them can be proved about. Recursive functions over
finite sets and numbers can (`WorksIs`, `KeptIs`, `TextsIs`, `WalkIs`), with induction by the least counterexample (`UpTo`). Also only model-checked are the invariants no theorem is named for above.

Outside the models altogether: the XML Schema parser, the resolver, the IR builder, the static
checks and the expression language. They transform data once, without state that later
calls see; what the models need of them are the assumptions on the programs
(`ProgramAssumption`, `IsProgram`, `IsType`, ...), which TLC evaluates on every run.
