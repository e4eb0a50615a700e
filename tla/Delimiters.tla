----------------------------- MODULE Delimiters -----------------------------
(***************************************************************************)
(* Delimiter patterns (src/dfdl-vm/src/schema/entities.rs): how a property *)
(* is parsed, split into alternatives and segments, matched against data   *)
(* and written.                                                            *)
(*                                                                         *)
(* Data is a sequence of one-byte characters; "0" is the zero byte that    *)
(* UTF-16 puts beside each of them.  A pattern is a sequence of characters *)
(* and entities, an entity being one symbol.  Character classes, byte and  *)
(* numeric entities, the || notation and the Unicode newlines are left out.*)
(***************************************************************************)
EXTENDS Integers, SequencesExt

None == -1          (* no match                                            *)
NoText == <<>>

Narrow == {"utf-8"}
Wide == {"utf-16be", "utf-16le"}
Encodings == Narrow \union Wide

White == {" ", "lf", "cr"}
Repeaters == {"+", "*", "?"}
WhiteEntities == {"%WSP;", "%WSP+;", "%WSP*;", "%WSP?;"}
Entities == {"%NL;", "%CR;", "%LF;", "%SP;", "%ES;"} \union WhiteEntities
RepeatedEntities == WhiteEntities \ {"%WSP;"}

Has(p, set) == \E k \in DOMAIN p : p[k] \in set
Rest(s, n) == SubSeq(s, n + 1, Len(s))
FirstOnes(s, n) == SubSeq(s, 1, Min({n, Len(s)}))

LowerCase == [A |-> "a", B |-> "b"]
Lower(c) == IF c \in DOMAIN LowerCase THEN LowerCase[c] ELSE c

(* ascii_eq_ic and bytes_startswith_ic.                                    *)
Same(x, y, ic) == x = y \/ (ic /\ Lower(x) = Lower(y))
StartsAs(d, w, ic) == Len(d) >= Len(w) /\ \A k \in DOMAIN w : Same(d[k], w[k], ic)

(* wire_delimiter_logical_bytes: what an encoding makes of characters.     *)
Wire(text, enc) ==
  CASE enc = "utf-16be" -> FlattenSeq([k \in DOMAIN text |-> <<"0", text[k]>>])
    [] enc = "utf-16le" -> FlattenSeq([k \in DOMAIN text |-> <<text[k], "0">>])
    [] OTHER -> text

(* Entities.  A whitespace entity stands for one space, unless it may stand*)
(* for none; the named ones are already in the encoding.                   *)
Named(e) == CASE e \in {"%NL;", "%LF;"} -> "lf" [] e = "%CR;" -> "cr" [] e = "%SP;" -> " "

EntityBytes(e, enc) ==
  CASE e \in {"%ES;", "%WSP*;", "%WSP?;"} -> NoText
    [] e \in {"%WSP;", "%WSP+;"} -> <<" ">>
    [] OTHER -> Wire(<<Named(e)>>, enc)

Expand(p, enc) ==
  FlattenSeq([k \in DOMAIN p |-> IF p[k] \in Entities THEN EntityBytes(p[k], enc) ELSE <<p[k]>>])

Expanded(p) == Expand(p, "utf-8")

Trim(p) ==
  LET ink == {k \in DOMAIN p : p[k] \notin White} IN
  IF ink = {} THEN NoText ELSE SubSeq(p, Min(ink), Max(ink))

(* parse_delimiter_literal_value: lists, compounds and quantified entities *)
(* are kept, other entities become the characters they stand for.          *)
Parsed(raw) ==
  IF \/ Has(raw, Entities) /\ Has(raw, White)
     \/ Cardinality({k \in DOMAIN raw : raw[k] \in Entities}) > 1
     \/ Has(raw, RepeatedEntities)
     \/ Len(raw) > 1 /\ raw[1] = "%NL;"
     \/ Expanded(raw) = NoText
  THEN raw ELSE Expanded(raw)

----------------------------------------------------------------------------
(* Alternatives.                                                           *)

Extended(ws, c) == [ws EXCEPT ![Len(ws)] = Append(@, c)]
Filled(ws) == SelectSeq(ws, LAMBDA w : w # NoText)

(* split_whitespace.                                                       *)
Words(p) ==
  Filled(FoldLeft(LAMBDA ws, c : IF c \in White THEN Append(ws, NoText) ELSE Extended(ws, c),
                  <<NoText>>, p))

(* split_entity_and_literal_alternatives: an entity ends its alternative.  *)
Tokens(p) ==
  Filled(FoldLeft(LAMBDA ws, c : IF c \in White THEN Append(ws, NoText)
                                 ELSE IF Len(Last(ws)) = 1 /\ Last(ws)[1] \in Entities
                                      THEN Append(ws, <<c>>) ELSE Extended(ws, c),
                  <<NoText>>, p))

(* split_delimiter_alternatives_comma.                                     *)
CommaParts(p) ==
  LET parts == FoldLeft(LAMBDA ws, c : IF c = "," THEN Append(ws, NoText) ELSE Extended(ws, c),
                        <<NoText>>, p)
  IN Filled([k \in DOMAIN parts |-> Trim(parts[k])])

(* should_split_whitespace_alternatives: not a class of characters, and no *)
(* group; a parenthesis may stand alone.                                   *)
SplitsAtSpaces(p) ==
  /\ Has(p, {" "}) /\ ~Has(p, Entities)
  /\ ~\E i, j \in DOMAIN p : i < j /\ p[i] = "[" /\ p[j] = "]"
  /\ Has(p, {"("}) => \A k \in DOMAIN Words(p) :
       Len(Words(p)[k]) = 1 \/ (Len(Words(p)[k]) = 2 /\ ~Has(Words(p)[k], {"(", ")"}))
AllCommas(p) == Len(p) > 1 /\ \A k \in DOMAIN p : p[k] = ","

Alternatives(p) ==
  CASE AllCommas(p) -> <<p>>
    [] ~AllCommas(p) /\ SplitsAtSpaces(p) -> Words(p)
    [] Has(p, {" "}) /\ Has(p, Entities) /\ Len(Tokens(p)) > 1 -> Tokens(p)
    [] OTHER -> <<Trim(p)>>

(* nil_value_alternatives.                                                 *)
NilAlternatives(p) ==
  IF Has(p, {" "}) /\ Has(p, Entities) /\ Len(Tokens(p)) > 1 THEN Tokens(p) ELSE Words(p)

(* split_delimiter_segments: an entity, with what repeats it, or the text  *)
(* up to the next one.                                                     *)
Segments(p) ==
  FoldLeft(LAMBDA ws, c :
             IF ws = <<>> \/ c \in Entities THEN Append(ws, <<c>>)
             ELSE IF Last(ws)[1] \notin Entities
                     \/ (c \in Repeaters /\ Len(Last(ws)) = 1 /\ Last(ws)[1] \notin RepeatedEntities)
                  THEN Extended(ws, c) ELSE Append(ws, <<c>>),
           <<>>, p)

----------------------------------------------------------------------------
(* Matching: how much of d, the data from the cursor on, a pattern takes.  *)

Unit(enc) == IF enc \in Wide THEN 2 ELSE 1

(* match_one_newline, match_one_newline_utf16.                             *)
IsNewline(u, enc) == u \in {Wire(<<"lf">>, enc), Wire(<<"cr">>, enc)}

Newline(d, enc) ==
  LET n == Unit(enc) IN
  CASE StartsAs(d, Wire(<<"cr", "lf">>, enc), FALSE) -> 2 * n
    [] ~StartsAs(d, Wire(<<"cr", "lf">>, enc), FALSE) /\ IsNewline(FirstOnes(d, n), enc) -> n
    [] OTHER -> None

(* The longest run of newlines at the start.                               *)
Newlines(d, enc) ==
  LET n == Unit(enc)
      runs == {k \in 0..(Len(d) \div n) :
                 \A j \in 1..k : IsNewline(SubSeq(d, (j - 1) * n + 1, j * n), enc)}
  IN n * Max(runs)

AtLeastOne(n) == IF n = 0 THEN None ELSE n
OrNothing(n) == IF n = None THEN 0 ELSE n

(* match_nl_entity_utf16 and match_nl_entity.                              *)
MatchNewline(d, p, enc) ==
  CASE p = <<"%NL;">> -> Newline(d, enc)
    [] p = <<"%NL;", "+">> -> AtLeastOne(Newlines(d, enc))
    [] p = <<"%NL;", "*">> -> Newlines(d, enc)
    [] p = <<"%NL;", "?">> -> OrNothing(Newline(d, enc))
    [] OTHER -> None

(* match_wsp_entity: bytes, whatever the encoding.                         *)
Spaces(d) == Max({k \in 0..Len(d) : \A j \in 1..k : d[j] \in White})

MatchSpace(d, e) ==
  CASE e = "%WSP;" -> IF Spaces(d) > 0 THEN 1 ELSE None
    [] e = "%WSP?;" -> IF Spaces(d) > 0 THEN 1 ELSE 0
    [] e = "%WSP+;" -> AtLeastOne(Spaces(d))
    [] e = "%WSP*;" -> Spaces(d)

Once(d, w, ic) == IF StartsAs(d, w, ic) THEN Len(w) ELSE None

Repeats(d, w, ic) ==
  LET n == Len(w)
      runs == {k \in 0..(Len(d) \div n) :
                 \A j \in 1..(k * n) : Same(d[j], w[((j - 1) % n) + 1], ic)}
  IN n * Max(runs)

(* The end of match_pattern_opts: text whose last character may say how    *)
(* often the rest is repeated.                                             *)
MatchText(d, q, text, ic, enc) ==
  IF q \in Repeaters /\ Len(text) > 1
  THEN CASE q = "+" -> AtLeastOne(Repeats(d, Wire(Front(text), enc), ic))
         [] q = "*" -> Repeats(d, Wire(Front(text), enc), ic)
         [] q = "?" -> OrNothing(Once(d, Wire(Front(text), enc), ic))
  ELSE IF text = <<"lf">> THEN Newline(d, enc)
  ELSE Once(d, Wire(text, enc), ic)

(* match_pattern_opts_for_encoding: an empty pattern matches nothing, a    *)
(* single character is never a quantifier.                                 *)
MatchPattern(d, p, ic, enc) ==
  CASE p = NoText -> 0
    [] p # NoText /\ p[1] = "%NL;" -> MatchNewline(d, p, enc)
    [] p # NoText /\ p[1] \in WhiteEntities -> MatchSpace(d, p[1])
    [] OTHER -> IF Expand(p, enc) = NoText THEN 0
                ELSE MatchText(d, Last(p), Expand(p, enc), ic, enc)

(* match_delimiter_compound.                                               *)
Onward(n, m) == IF m = None THEN None ELSE n + m

MatchCompound(d, p, ic, enc) ==
  FoldLeft(LAMBDA n, s : IF n = None THEN None ELSE Onward(n, MatchPattern(Rest(d, n), s, ic, enc)),
           0, Segments(p))

(* The longest match, the first of them.                                   *)
LongestOf(ns) ==
  LET hits == {k \in DOMAIN ns : \A j \in DOMAIN ns : ns[j] <= ns[k]} IN
  [n |-> ns[Min(hits)], alt |-> Min(hits)]

MatchAlternatives(d, alts, ic, enc) ==
  LongestOf([k \in DOMAIN alts |-> MatchCompound(d, alts[k], ic, enc)])

(* delimiter_has_top_level_comma: such a pattern is tried as a whole first.*)
Whole(d, p, ic, enc) ==
  IF Len(p) > 1 /\ Has(p, {","}) /\ ~SplitsAtSpaces(p) THEN MatchCompound(d, p, ic, enc) ELSE 0

(* match_delimiter_with_alt_for_encoding: a single alternative is matched  *)
(* as it stands, not trimmed.                                              *)
OrSplit(n, d, p, ic, enc) ==
  CASE n > 0 -> [n |-> n, alt |-> 1]
    [] n <= 0 /\ Len(p) > 1 /\ Len(Alternatives(p)) > 1 -> MatchAlternatives(d, Alternatives(p), ic, enc)
    [] OTHER -> [n |-> MatchCompound(d, p, ic, enc), alt |-> 1]

MatchWithAlt(d, p, ic, enc) == OrSplit(Whole(d, p, ic, enc), d, p, ic, enc)

(* The separator that is a newline, a comma or a space.                    *)
IsNewlineCommaSpace(p) == p \in {<<"%NL;", ",", " ", ",">>, <<"lf", ",", " ", ",">>}

MatchNewlineCommaSpace(d) ==
  LET n == Newline(d, "utf-8") IN
  CASE n # None -> IF StartsAs(Rest(d, n), <<",">>, FALSE) THEN n + 1 ELSE n
    [] n = None /\ d # <<>> /\ d[1] \in {",", " "} -> 1
    [] OTHER -> None

(* match_delimiter_opts_for_encoding, which the scan for the end of a field*)
(* uses.                                                                   *)
MatchOpts(d, p, ic, enc) ==
  IF IsNewlineCommaSpace(p) THEN MatchNewlineCommaSpace(d) ELSE MatchWithAlt(d, p, ic, enc).n

(* delimiter_match_len_at, which the terminator after a fixed length uses. *)
MatchAt(d, p, ic, enc) ==
  IF Has(p, {","}) THEN IF MatchCompound(d, p, ic, enc) > 0 THEN MatchCompound(d, p, ic, enc) ELSE None
  ELSE MatchOpts(d, p, ic, enc)

----------------------------------------------------------------------------
(* Writing.                                                                *)

(* minimal_encode_segment: once for +, not at all for * and ?; a repeated  *)
(* whitespace entity ends with a semicolon and is a space.                 *)
MinimalText(s) ==
  CASE Last(s) \in {"*", "?"} -> NoText
    [] Last(s) = "+" -> FirstOnes(Expanded(Front(s)), 1)
    [] OTHER -> Expanded(s)

MinimalSegment(s) ==
  CASE Trim(s) = NoText -> s
    [] Trim(s) # NoText /\ s[1] \in WhiteEntities ->
         IF Last(s) \in {"*", "?"} THEN NoText ELSE <<" ">>
    [] Trim(s) # NoText /\ s[1] \in Entities \ WhiteEntities -> Expanded(s)
    [] OTHER -> IF Len(Trim(s)) = 1 THEN Trim(s) ELSE MinimalText(Trim(s))

MinimalSegments(p) == FlattenSeq([k \in DOMAIN Segments(p) |-> MinimalSegment(Segments(p)[k])])

EncodePlain(p) ==
  IF p # NoText /\ p[1] \in Entities /\ Expanded(p) # NoText THEN Expanded(p) ELSE MinimalSegments(p)

(* The first part of a pattern with commas that is not written as nothing. *)
EncodeParts(parts) ==
  LET all == Filled([k \in DOMAIN parts |-> EncodePlain(parts[k])]) IN
  IF all = <<>> THEN NoText ELSE all[1]

(* encode_delimiter of one alternative; it calls itself without end for    *)
(* several commas and nothing else, which no program has.                  *)
EncodeOne(p) ==
  IF Len(p) > 1 /\ Has(p, {","}) THEN EncodeParts(CommaParts(p)) ELSE EncodePlain(p)

(* The first alternative, nothing when there is none: a pattern that is    *)
(* whitespace is trimmed away.                                             *)
First(p) == IF Alternatives(p) = <<>> THEN NoText ELSE Head(Alternatives(p))

NoNewLine == <<"none">>     (* no outputNewLine                            *)

(* encode_output_new_line_text.                                            *)
NewLineText(onl, enc) == Wire(Expanded(onl), enc)

(* encode_property_delimiter: the first alternative, outputNewLine for one *)
(* that is a newline.                                                      *)
EncodeProperty(p, onl) ==
  LET first == First(p) IN
  CASE IsNewlineCommaSpace(p) -> <<",">>
    [] ~IsNewlineCommaSpace(p) /\ first \in {<<"%NL;">>, <<"lf">>} /\ onl # NoNewLine ->
         NewLineText(onl, "utf-8")
    [] OTHER -> EncodeOne(first)

(* encode_delimiter.                                                       *)
EncodeDelimiter(p) ==
  IF p # NoText /\ Len(Alternatives(p)) > 1 THEN EncodeProperty(p, NoNewLine) ELSE EncodeOne(p)

EncodeByAlt(p, alt) ==
  IF Alternatives(p) = <<>> THEN NoText
  ELSE EncodeDelimiter(Alternatives(p)[Min({alt, Len(Alternatives(p))})])

(* encode_property_delimiter_for_encoding: entities are expanded in the    *)
(* encoding, patterns it does not understand are written as bytes.         *)
EncodePropertyIn(p, enc) ==
  LET first == First(p) IN
  CASE first = NoText -> NoText
    [] first # NoText /\ first[1] \in Entities /\ Expand(first, enc) # NoText -> Expand(first, enc)
    [] OTHER -> IF Len(first) = 1 \/ ~Has(first, Repeaters) THEN Wire(Expanded(first), enc)
                ELSE EncodeProperty(p, NoNewLine)

IsNewlineSegment(s) == s \in {<<"%NL;">>, <<"lf">>}

(* encode_delimiter_for_encoding.  In UTF-8 outputNewLine is used when the *)
(* pattern has the newline entity, which the parser may have expanded.     *)
EncodeIn(p, onl, enc) ==
  CASE enc \in Narrow /\ onl # NoNewLine /\ Has(p, {"%NL;"}) ->
         FlattenSeq([k \in DOMAIN Segments(p) |->
           IF IsNewlineSegment(Segments(p)[k]) THEN NewLineText(onl, enc)
           ELSE MinimalSegment(Segments(p)[k])])
    [] enc \in Narrow /\ ~(onl # NoNewLine /\ Has(p, {"%NL;"})) -> EncodeDelimiter(p)
    [] OTHER ->
         FlattenSeq([k \in DOMAIN Segments(p) |->
           IF IsNewlineSegment(Segments(p)[k]) /\ onl # NoNewLine THEN Wire(onl, enc)
           ELSE EncodePropertyIn(Segments(p)[k], enc)])

(* encode_framing_delimiter_bytes: alt is 0 when no alternative was read.  *)
EncodeFraming(p, onl, enc, alt) == IF alt > 0 THEN EncodeByAlt(p, alt) ELSE EncodeIn(p, onl, enc)

(* write_sequence_separator: bytes, whatever the encoding; nl says that the*)
(* separator that is a newline, a comma or a space was read with a newline.*)
EncodeSeparator(p, onl, alt, nl) ==
  CASE alt > 0 -> EncodeByAlt(p, alt)
    [] alt = 0 /\ IsNewlineCommaSpace(p) ->
         (IF nl THEN IF onl # NoNewLine THEN NewLineText(onl, "utf-8") ELSE <<"lf">> ELSE NoText)
           \o <<",">>
    [] OTHER -> EncodeProperty(p, onl)
=============================================================================
