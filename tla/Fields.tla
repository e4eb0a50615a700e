------------------------------- MODULE Fields -------------------------------
(***************************************************************************)
(* The text fields of a sequence, written and read: escaping, the scan for *)
(* the delimiter that ends a field, nil literals and the alternatives of   *)
(* delimiters that are kept for writing (src/dfdl-vm/src/vm/runtime:       *)
(* scalar.rs, delimited.rs, nil.rs, numeric_text_parse.rs,                 *)
(* numeric_text_format.rs and property.rs).                                *)
(*                                                                         *)
(* A sample of a program is written by the encoder, with any alternatives  *)
(* of its delimiters; the decoder then reads it, one position of a scan per*)
(* step, and notes the alternatives it saw.                                *)
(***************************************************************************)
EXTENDS Escapes

CONSTANTS
  Programs,      (* the schemas checked: see IsProgram                     *)
  Samples(_),    (* the values of a program that are written               *)
  Nil            (* the nil value                                          *)

(* A field has an initiator, a terminator, a nilValue and its kind, an     *)
(* escape scheme and a length in characters, 0 when it is delimited.       *)
IsField(f) ==
  /\ f.nilKind \in {"none", "literalValue", "literalCharacter"}
  /\ f.length \in Nat /\ f.length > 0 => f.scheme = NoScheme
  /\ f.scheme.kind \in {"none", "character", "block"}

(* A sequence has fields, delimiters as the schema has them, the place of  *)
(* its separator, an encoding, outputNewLine and ignoreCase.               *)
IsProgram(p) ==
  /\ p.at \in {"prefix", "infix"} /\ p.enc \in Encodings /\ p.ic \in BOOLEAN
  /\ \A k \in DOMAIN p.fields : IsField(p.fields[k])
  /\ ~AllCommas(Parsed(p.sep))

ASSUME ProgramsAssumption == \A p \in Programs : IsProgram(p)

VARIABLES
  prog,
  sample,      (* the value written, a text or Nil per field               *)
  written,     (* the alternatives it is written with: see Ways            *)
  input,       (* the data                                                 *)
  step,        (* what the decoder does next                               *)
  i,           (* the field it is at                                       *)
  pos, start,  (* the cursor, and where the text of the field starts       *)
  found,       (* the values read                                          *)
  noted        (* the alternatives read                                    *)

vars == <<prog, sample, written, input, step, i, pos, start, found, noted>>

----------------------------------------------------------------------------
(* Delimiters of the sequence and of a field.                              *)

Sep == Parsed(prog.sep)
ParentTerm == Parsed(prog.term)
Init_(f) == Parsed(f.init)
Term(f) == Parsed(f.term)
Field == prog.fields[i]
Fields_ == DOMAIN prog.fields
Data(p) == SubSeq(input, p, Len(input))
AtEnd(p) == p > Len(input)

(* delimited_field_escape_markup: not the parent's terminator.             *)
Markup(f) ==
  SelectSeq(Alternatives(Init_(f)) \o Alternatives(Term(f)) \o Alternatives(Sep),
            LAMBDA m : m # NoText)

(* push_delimiter_scan_patterns: a list, and the last of it.               *)
Pushed(p) ==
  LET spaces == {k \in DOMAIN p : p[k] = " "} IN
  ({p} \union (IF spaces = {} THEN {} ELSE {Rest(p, Max(spaces))})) \ {NoText}

Stops == Sep # NoText \/ ParentTerm # NoText

(* enclosing_delimiter_scan_patterns.                                      *)
ScanPatterns(f) == (Pushed(Term(f)) \union Pushed(ParentTerm) \union Pushed(Sep)) \ {NoText}

Match(p, pat) == MatchOpts(Data(p), pat, prog.ic, prog.enc)
EndsAt(f, p) == \E pat \in ScanPatterns(f) : Match(p, pat) > 0

----------------------------------------------------------------------------
(* Nil.                                                                    *)

Nillable(f) == f.nilKind # "none"
NilAlts(f) == NilAlternatives(f.nils)
Listed(s) == {s[k] : k \in DOMAIN s}

(* nil_value_includes_empty.                                               *)
EmptyNil(f) == \E a \in Listed(NilAlts(f)) : Expanded(a) = NoText

(* nil_character_repeat_count.                                             *)
RepeatCount(f) == IF f.length > 0 THEN f.length ELSE 1

(* expand_nil_alternative, nil_unparse_bytes.                              *)
NilUnit(f) ==
  LET first == Head(NilAlts(f)) IN
  IF first = <<"%NL;">> /\ prog.onl # NoNewLine THEN Expanded(prog.onl) ELSE Expanded(first)

(* Mutant: a nil character is written once, whatever the length.           *)
NilOnce(f) == NilUnit(f)

NilBytes(f) ==
  IF f.nilKind = "literalCharacter"
  THEN FlattenSeq([k \in 1..RepeatCount(f) |-> NilUnit(f)])
  ELSE NilUnit(f)

(* match_nil_literal_prefix: the longest nil literal data starts with.     *)
NilPrefix(f, p) ==
  Max({0} \union {IF Has(a, Entities) THEN MatchPattern(Data(p), a, prog.ic, "utf-8")
                  ELSE Once(Data(p), a, prog.ic) : a \in Listed(NilAlts(f))})

(* text_matches_nil_literal: any number of one nil character, or a literal *)
(* as the schema has it, its entities not expanded.                        *)
MatchesNil(f, t) ==
  CASE f.nilKind = "literalCharacter" ->
         t # NoText /\ \E a \in Listed(NilAlts(f)) :
           \A k \in DOMAIN t : Same(t[k], Expanded(a)[1], prog.ic)
    [] f.nilKind = "literalValue" -> t \in Listed(NilAlts(f))
    [] OTHER -> FALSE

Seen(p, pat) == pat # NoText /\ MatchOpts(Data(p), pat, prog.ic, "utf-8") # None

(* consume_delimiter.                                                      *)
Consumed(p, pat) == p + OrNothing(MatchWithAlt(Data(p), pat, prog.ic, prog.enc).n)

(* The terminator of a nil element, left to the parent when it is its own. *)
PastTerm(f, p) == IF f.term = prog.term THEN p ELSE Consumed(p, Term(f))

(* enclosing_terminator_at_cursor.                                         *)
AtParentTerm(p) == ParentTerm # NoText /\ Match(p, ParentTerm) > 0

(* try_consume_nillable_element_nil, before the element's initiator: the   *)
(* place after a nil element, 0 when it is not nil.  A literal value is nil*)
(* whatever comes after it.                                                *)
EmptyNilAt(f, p) ==
  CASE ~EmptyNil(f) -> 0
    [] EmptyNil(f) /\ Seen(p, Term(f)) -> PastTerm(f, p)
    [] OTHER -> IF Seen(p, Sep) \/ Seen(p, ParentTerm) \/ AtEnd(p) \/ AtParentTerm(p)
                THEN p ELSE 0

NilAt(f, p) ==
  LET q == p + NilPrefix(f, p) IN
  CASE q > p /\ Seen(q, Term(f)) -> PastTerm(f, q)
    [] q > p /\ ~Seen(q, Term(f)) /\ f.nilKind = "literalValue" -> q
    [] OTHER -> EmptyNilAt(f, p)

----------------------------------------------------------------------------
(* Writing.  Alternatives are chosen for the separators, the initiators    *)
(* and the delimiters of the sequence; 0 leaves it to the encoder.         *)

AltsOf(p) == {0} \union (IF Len(Alternatives(p)) > 1 THEN DOMAIN Alternatives(p) ELSE {})
SepAlts(p) == IF IsNewlineCommaSpace(Parsed(p.sep)) THEN {0} ELSE AltsOf(Parsed(p.sep))
Newlined(p) == IF IsNewlineCommaSpace(Parsed(p.sep)) THEN BOOLEAN ELSE {FALSE}

Ways(p) ==
  [seps: [DOMAIN p.fields -> SepAlts(p)], nls: [DOMAIN p.fields -> Newlined(p)],
   inits: {[k \in DOMAIN p.fields |-> c[k]] : c \in
             [DOMAIN p.fields -> UNION {AltsOf(Parsed(p.fields[k].init)) : k \in DOMAIN p.fields}]},
   term: AltsOf(Parsed(p.term))]

Framing(pat, alt) == EncodeFraming(pat, prog.onl, prog.enc, alt)

(* write_text_scalar: what is refused, and the body of a field.            *)
Refuses(f) ==
  /\ f.scheme.kind = "character" /\ f.scheme.esc # <<>>
  /\ \E a \in Listed(Alternatives(Sep)) : StartsAs(a, f.scheme.esc, FALSE)

Body(f, v) ==
  IF v = Nil THEN NilBytes(f)
  ELSE Wire(IF f.length = 0 THEN Escape(v, f.scheme, Markup(f)) ELSE v, prog.enc)

(* write_simple.                                                           *)
Element(f, v, alt) == Framing(Init_(f), alt) \o Body(f, v) \o Framing(Term(f), 0)

(* should_emit_separator.                                                  *)
HasSeparator(k) == Sep # NoText /\ (prog.at = "prefix" \/ k > 1)

Separator(k, alts) ==
  IF HasSeparator(k) THEN EncodeSeparator(Sep, prog.onl, alts.seps[k], alts.nls[k]) ELSE NoText

Encoded(values, alts) ==
  FlattenSeq([k \in Fields_ |-> Separator(k, alts) \o Element(prog.fields[k], values[k], alts.inits[k])])
    \o Framing(ParentTerm, alts.term)

Refused == \E k \in Fields_ : sample[k] # Nil /\ Refuses(prog.fields[k])

Write ==
  /\ step = "write"
  /\ IF Refused THEN step' = "refused" /\ UNCHANGED input
     ELSE step' = "separator" /\ input' = Encoded(sample, written)
  /\ UNCHANGED <<prog, sample, written, i, pos, start, found, noted>>

----------------------------------------------------------------------------
(* Reading.                                                                *)

Fail == step' = "failed" /\ UNCHANGED <<i, pos, start, found, noted>>

(* consume_separator.                                                      *)
SeparatorMatch ==
  IF IsNewlineCommaSpace(Sep) /\ prog.at = "infix"
  THEN [n |-> MatchNewlineCommaSpace(Data(pos)), alt |-> 0]
  ELSE MatchWithAlt(Data(pos), Sep, prog.ic, prog.enc)

(* Mutant: the first alternative is noted, whichever was read.             *)
NotedFirst(m) == [noted EXCEPT !.seps = Append(@, 1)]

NotedSeparator(m) ==
  IF m.alt > 0 THEN [noted EXCEPT !.seps = Append(@, m.alt)]
  ELSE [noted EXCEPT !.nls = Append(@, Newline(Data(pos), "utf-8") # None)]

Separate ==
  /\ step = "separator" /\ i <= Len(prog.fields)
  /\ IF ~HasSeparator(i) THEN step' = "nil" /\ UNCHANGED <<i, pos, start, found, noted>>
     ELSE \E m \in {SeparatorMatch} :
            IF m.n = None THEN Fail
            ELSE /\ pos' = pos + m.n /\ noted' = NotedSeparator(m)
                 /\ step' = "nil" /\ UNCHANGED <<i, start, found>>
  /\ UNCHANGED <<prog, sample, written, input>>

TestNil ==
  /\ step = "nil"
  /\ \E q \in {IF Nillable(Field) THEN NilAt(Field, pos) ELSE 0} :
       IF q > 0
       THEN /\ pos' = q /\ found' = Append(found, Nil)
            /\ noted' = [noted EXCEPT !.inits = Append(@, 0)]
            /\ i' = i + 1 /\ step' = "separator" /\ UNCHANGED start
       ELSE step' = "initiator" /\ UNCHANGED <<i, pos, start, found, noted>>
  /\ UNCHANGED <<prog, sample, written, input>>

Initiate ==
  /\ step = "initiator"
  /\ \E m \in {MatchWithAlt(Data(pos), Init_(Field), prog.ic, prog.enc)} :
     IF Init_(Field) = NoText
     THEN /\ start' = pos /\ step' = "scan"
          /\ noted' = [noted EXCEPT !.inits = Append(@, 0)] /\ UNCHANGED <<i, pos, found>>
     ELSE IF m.n = None THEN Fail
     ELSE /\ pos' = pos + m.n /\ start' = pos + m.n /\ step' = "scan"
          /\ noted' = [noted EXCEPT !.inits = Append(@, m.alt)] /\ UNCHANGED <<i, found>>
  /\ UNCHANGED <<prog, sample, written, input>>

(* read_until_any_delimiter: one round of its loop.  Under a scheme the    *)
(* scan goes on by bytes, else by characters.                              *)
Scan ==
  /\ step = "scan" /\ Field.length = 0
  /\ ~AtEnd(pos) /\ ~EndsAt(Field, pos)
  /\ pos' = IF Field.scheme = NoScheme THEN Min({pos + Unit(prog.enc), Len(input) + 1})
            ELSE Advance(input, pos, Field.scheme)
  /\ UNCHANGED <<prog, sample, written, input, step, i, start, found, noted>>

(* The end of the scan.  A field without its terminator fails, unless the  *)
(* sequence has delimiters and it is at the end of the data.               *)
Unended(f) == AtEnd(pos) /\ pos # start /\ Term(f) # NoText /\ ~Stops
Unterminated(f) == Term(f) # NoText /\ Match(pos, Term(f)) = None /\ ~AtEnd(pos)

Scanned ==
  /\ step = "scan" /\ Field.length = 0
  /\ AtEnd(pos) \/ EndsAt(Field, pos)
  /\ IF Unended(Field) \/ Unterminated(Field) THEN Fail
     ELSE step' = "value" /\ UNCHANGED <<i, pos, start, found, noted>>
  /\ UNCHANGED <<prog, sample, written, input>>

(* A field of fixed length and its terminator:                             *)
(* consume_text_field_terminator_after_fixed_length.                       *)
Measure ==
  /\ step = "scan" /\ Field.length > 0
  /\ LET q == pos + Field.length * Unit(prog.enc) IN
     IF q > Len(input) + 1 THEN Fail
     ELSE pos' = q /\ step' = "value" /\ UNCHANGED <<i, start, found, noted>>
  /\ UNCHANGED <<prog, sample, written, input>>

(* The characters of some bytes.                                           *)
Characters(bytes) ==
  CASE prog.enc = "utf-16be" -> [k \in 1..(Len(bytes) \div 2) |-> bytes[2 * k]]
    [] prog.enc = "utf-16le" -> [k \in 1..(Len(bytes) \div 2) |-> bytes[2 * k - 1]]
    [] OTHER -> bytes

TextRead == Unescape(Characters(SubSeq(input, start, pos - 1)), Field.scheme)

(* consume_enclosing_delimiter: past the field's own terminator; the       *)
(* delimiters of the sequence are only looked at.  0 is an error.          *)
OwnOr(n, hits) == IF n > 0 \/ hits = {} THEN OrNothing(n) ELSE Max(hits)
OwnMatch(f) == OwnOr(Match(pos, Term(f)), {Match(pos, pat) : pat \in Pushed(Term(f))} \ {None, 0})

PastOwn(f, n) ==
  CASE n > 0 -> pos + n
    [] OTHER ->
         IF \/ Init_(f) # NoText \/ (Term(f) = NoText /\ ~Stops)
            \/ \E pat \in {Sep, ParentTerm} \ {NoText} : Match(pos, pat) > 0
         THEN pos ELSE 0

PastEnclosing(f) ==
  IF AtEnd(pos) THEN pos ELSE PastOwn(f, IF Term(f) = NoText THEN 0 ELSE OwnMatch(f))

PastFixed(f) ==
  CASE Term(f) = NoText -> pos
    [] OTHER -> IF MatchAt(Data(pos), Term(f), prog.ic, prog.enc) # None
                THEN pos + MatchAt(Data(pos), Term(f), prog.ic, prog.enc)
                ELSE IF AtEnd(pos) THEN pos ELSE 0

Taken(f, t) == IF MatchesNil(f, t) THEN Nil ELSE t

Value ==
  /\ step = "value"
  /\ \E t \in {TextRead}, q \in {IF Field.length > 0 THEN PastFixed(Field) ELSE PastEnclosing(Field)} :
       IF t = Unclosed \/ q = 0 THEN Fail
       ELSE /\ found' = Append(found, Taken(Field, t))
            /\ pos' = q /\ i' = i + 1 /\ step' = "separator"
            /\ UNCHANGED <<start, noted>>
  /\ UNCHANGED <<prog, sample, written, input>>

(* The terminator of the sequence.                                         *)
Close ==
  /\ step = "separator" /\ i > Len(prog.fields)
  /\ \E m \in {MatchWithAlt(Data(pos), ParentTerm, prog.ic, prog.enc)} :
     IF ParentTerm # NoText /\ m.n = None /\ ~AtEnd(pos) THEN Fail
     ELSE /\ pos' = pos + OrNothing(m.n) /\ step' = "done"
          /\ noted' = [noted EXCEPT !.term = IF ParentTerm = NoText \/ m.n = None THEN 0 ELSE m.alt]
          /\ UNCHANGED <<i, start, found>>
  /\ UNCHANGED <<prog, sample, written, input>>

Init ==
  /\ prog \in Programs /\ sample \in Samples(prog) /\ written \in Ways(prog)
  /\ input = <<>> /\ step = "write" /\ i = 1 /\ pos = 1 /\ start = 1 /\ found = <<>>
  /\ noted = [seps |-> <<>>, nls |-> <<>>, inits |-> <<>>, term |-> 0]

Next ==
  \/ Write \/ Separate \/ TestNil \/ Initiate \/ Scan \/ Scanned \/ Measure \/ Value \/ Close

Spec == Init /\ [][Next]_vars

----------------------------------------------------------------------------
(* What is written is meant to be read back: the rest of the module says   *)
(* where.                                                                  *)

(* The characters a delimiter may be made of.                              *)
Letters(pat) ==
  UNION {Listed(Expanded(a)) \union (IF Has(a, WhiteEntities \union {"%NL;"}) THEN White ELSE {}) :
           a \in Listed(Alternatives(pat))} \union (IF pat = <<" ">> THEN {" "} ELSE {})

Without(t, marks) == \A k \in DOMAIN t, m \in marks : ~Same(t[k], m, prog.ic)

(* Delimiters that are matched by what is written for them, and only once. *)
Repeated(pat) == Has(pat, Repeaters \union RepeatedEntities)

Rereads(w, pat) == pat # NoText => w # NoText /\ MatchOpts(w, pat, prog.ic, prog.enc) = Len(w)

Legible ==
  /\ prog.enc \in Wide => Sep = NoText
  /\ IsNewlineCommaSpace(Sep) => prog.at = "infix"
  /\ \A k \in Fields_ : LET f == prog.fields[k] IN
       /\ ~Repeated(Init_(f))
       /\ Rereads(EncodeSeparator(Sep, prog.onl, written.seps[k], written.nls[k]), Sep)
       /\ Rereads(Framing(Init_(f), written.inits[k]), Init_(f))
       /\ Rereads(Framing(Term(f), 0), Term(f))
       /\ Init_(f) = NoText /\ Term(f) = NoText => ~Repeated(Sep)
       /\ f.length = 0 /\ k < Len(prog.fields) => Term(f) # NoText \/ Sep # NoText
       /\ f.length > 0 => ~(Has(Term(f), {","}) /\ Len(Alternatives(Term(f))) > 1)
  /\ Rereads(Framing(ParentTerm, written.term), ParentTerm)

(* Escape schemes: a character that escapes the escape character must not  *)
(* stand before a mark, and there must be one if the text has the escape   *)
(* character; the marks of a block must not be ambiguous.                  *)
Escapable(f, t) ==
  LET s == f.scheme IN
  /\ prog.enc \in Narrow
  /\ Without(t, Letters(ParentTerm))
  /\ s.ee # s.esc => Without(s.ee, UNION {Letters(pat) : pat \in ScanPatterns(f)})
  /\ s.kind = "character" =>
       /\ s.ee = <<>> => ~Within(s.esc, t)
       /\ s.ee # s.esc =>
            \A k \in DOMAIN t : \A m \in Listed(Markup(f)) : ~At(t, k, s.ee \o m)
  /\ s.kind = "block" =>
       /\ s.ee # <<>> /\ s.ee # s.end /\ ~At(t, 1, s.end)
       /\ IF NeedsBlock(t, s, Listed(Markup(f))) THEN ~Within(s.ee \o s.end, t \o s.end)
          ELSE ~Within(s.ee, t)

Writable(f, t) ==
  /\ Nillable(f) => /\ ~MatchesNil(f, t) /\ \A a \in Listed(NilAlts(f)) : ~At(t, 1, Expanded(a))
                    /\ t = <<>> => ~EmptyNil(f)
  /\ IF f.length > 0 THEN Len(t) = f.length
     ELSE IF f.scheme = NoScheme THEN Without(t, UNION {Letters(pat) : pat \in ScanPatterns(f)})
     ELSE Escapable(f, t)

NilWritable(f) ==
  /\ prog.enc \in Narrow
  /\ EmptyNil(f) => f.init = <<>>
  /\ f.init # <<>> => ~Has(Head(NilAlts(f)), Entities)
  /\ f.term # <<>> => f.term # prog.term

InScope ==
  /\ Legible
  /\ \A k \in Fields_ :
       IF sample[k] = Nil THEN NilWritable(prog.fields[k]) ELSE Writable(prog.fields[k], sample[k])

(* Texts that are written are read back, none of them cut short at a       *)
(* delimiter it holds, none running on into the next, and nil values as nil*)
(* and nothing else as nil, whatever alternatives the delimiters were      *)
(* written with.                                                           *)
ReadsBack == step \in {"failed", "done"} /\ InScope => step = "done" /\ found = sample /\ AtEnd(pos)

(* What the encoder takes from what the decoder noted (SequenceMeta and    *)
(* DelimitedMeta): by the place of the child.                              *)
NotedAt(list, k, none) == IF k \in DOMAIN list THEN list[k] ELSE none

NotedWay ==
  [seps |-> [k \in Fields_ |-> NotedAt(noted.seps, k, 0)],
   nls |-> [k \in Fields_ |-> NotedAt(noted.nls, Max({k - 1, 1}), FALSE)],
   inits |-> noted.inits, term |-> noted.term]

Rewrites == Encoded(found, NotedWay) = input

(* Data that is read and written again is the same data: the alternatives  *)
(* of the delimiters that were read are the ones that are written.  Infix  *)
(* separators are noted from the second child on and looked up from the    *)
(* first, so only their first alternative is kept; outputNewLine and the   *)
(* encoding are not used for an alternative that was noted.                *)
Rewritten ==
  /\ step = "done" /\ prog.onl = NoNewLine /\ prog.enc \in Narrow
  /\ prog.at = "prefix" \/ \A k \in Fields_ : written.seps[k] < 2
  /\ InScope
  => Rewrites

(* Escaping is undone by unescaping, as escape.rs:248 has it.              *)
EscapeIsInverse ==
  step \in {"failed", "done"} =>
    \A k \in Fields_ : sample[k] # Nil =>
      LET f == prog.fields[k] IN Unescape(Escape(sample[k], f.scheme, Markup(f)), f.scheme) = sample[k]
=============================================================================
