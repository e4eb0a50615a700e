------------------------------ MODULE Escapes -------------------------------
(***************************************************************************)
(* Escape schemes (src/dfdl-vm/src/vm/escape.rs): what the writer puts     *)
(* before the characters of a text, how the scan for its end steps over    *)
(* them and how the reader takes them away again.                          *)
(*                                                                         *)
(* A scheme has a kind, "none", "character" or "block"; the escape         *)
(* character; the character that escapes it; the start and the end of a    *)
(* block, all sequences that may be empty; and a set of characters that    *)
(* are escaped besides.                                                    *)
(***************************************************************************)
EXTENDS Delimiters

NoScheme == [kind |-> "none", esc |-> <<>>, ee |-> <<>>, start |-> <<>>, end |-> <<>>, extra |-> {}]

Wordy == {"a", "b", "A", "B", " "}     (* alphanumeric, underscore, space  *)

At(d, i, w) ==
  /\ w # <<>> /\ i + Len(w) - 1 <= Len(d)
  /\ \A k \in DOMAIN w : d[i + k - 1] = w[k]

Within(w, t) == \E i \in DOMAIN t : At(t, i, w)

ExtraAt(d, i, s) == i <= Len(d) /\ d[i] \in s.extra

(* find_unescaped_block_end from i on, 0 when there is none.               *)
RECURSIVE BlockEnd(_, _, _)
BlockEnd(d, i, s) ==
  LET after == i + Len(s.end) IN
  CASE s.end = <<>> \/ i > Len(d) -> 0
    [] i <= Len(d) /\ s.ee # <<>> /\ At(d, i, s.ee \o s.end) -> BlockEnd(d, after + Len(s.ee), s)
    [] OTHER ->
         IF ~At(d, i, s.end) THEN BlockEnd(d, i + 1, s)
         ELSE IF s.ee = s.end /\ after <= Len(d) /\ d[after] \in Wordy THEN BlockEnd(d, after, s)
         ELSE i

(* What an escaped mark inside a block is, and how much of d it takes.     *)
Plain(d, i) == [give |-> <<d[i]>>, take |-> 1]
Mark(give, take) == [give |-> give, take |-> take]

InBlock(d, i, s) ==
  LET n == Len(s.ee)  next == i + n IN
  CASE ~At(d, i, s.ee) -> Plain(d, i)
    [] At(d, i, s.ee \o s.end) -> Mark(IF s.end = s.ee \o s.ee THEN s.ee ELSE s.end, n + Len(s.end))
    [] OTHER -> IF At(d, next, s.start) THEN Mark(s.start, n + Len(s.start))
                ELSE IF At(d, next, s.ee) THEN Mark(s.ee, 2 * n)
                ELSE IF ExtraAt(d, next, s) THEN Mark(<<d[next]>>, n + 1)
                ELSE Plain(d, i)

RECURSIVE Unblocked(_, _, _)
Unblocked(d, i, s) ==
  IF i > Len(d) THEN <<>>
  ELSE InBlock(d, i, s).give \o Unblocked(d, i + InBlock(d, i, s).take, s)

Unclosed == <<"unclosed">>     (* the error of a block without an end      *)

(* unescape_block; what follows the block is dropped.                      *)
UnescapeBlock(t, s) ==
  LET from == Len(s.start) + 1  e == BlockEnd(t, from, s) IN
  CASE s.start = <<>> \/ s.end = <<>> \/ ~At(t, 1, s.start) -> t
    [] s.end # <<>> /\ At(t, 1, s.start) /\ e = 0 -> Unclosed
    [] OTHER -> Unblocked(SubSeq(t, from, e - 1), 1, s)

(* unescape_character: the character after an escape is taken as it is.    *)
Unmarked(d, i, s) ==
  LET next == i + Len(s.esc) IN
  CASE s.ee # <<>> /\ At(d, i, s.ee \o s.esc) -> Mark(s.esc, Len(s.ee) + Len(s.esc))
    [] At(d, i, s.esc) /\ ~(s.ee # <<>> /\ At(d, i, s.ee \o s.esc)) ->
         Mark(SubSeq(d, next, Min({next, Len(d)})), Len(s.esc) + 1)
    [] OTHER -> Plain(d, i)

RECURSIVE UnescapeCharacter(_, _, _)
UnescapeCharacter(d, i, s) ==
  IF i > Len(d) THEN <<>>
  ELSE Unmarked(d, i, s).give \o UnescapeCharacter(d, i + Unmarked(d, i, s).take, s)

(* unescape_field_text.                                                    *)
Unescape(t, s) ==
  CASE s.kind = "block" -> UnescapeBlock(t, s)
    [] s.kind = "character" /\ s.esc # <<>> -> UnescapeCharacter(t, 1, s)
    [] OTHER -> t

----------------------------------------------------------------------------
(* advance_escape_scan_index: where the scan goes from i.                  *)

PastBlock(d, i, s) ==
  LET e == IF At(d, i, s.start) THEN BlockEnd(d, i + Len(s.start), s) ELSE 0 IN
  IF e = 0 THEN i + 1 ELSE e + Len(s.end)

PastCharacter(d, i, s) ==
  CASE s.ee # <<>> /\ At(d, i, s.ee \o s.esc) -> i + Len(s.ee) + Len(s.esc)
    [] At(d, i, s.esc) /\ ~(s.ee # <<>> /\ At(d, i, s.ee \o s.esc)) ->
         Min({i + Len(s.esc) + 1, Len(d) + 1})
    [] OTHER -> i + 1

(* Mutant: the scan does not know of the scheme.                           *)
AdvancePlainly(d, i, s) == i + 1

Advance(d, i, s) ==
  CASE s.kind = "block" -> PastBlock(d, i, s)
    [] s.kind = "character" /\ s.esc # <<>> -> PastCharacter(d, i, s)
    [] OTHER -> i + 1

----------------------------------------------------------------------------
(* Writing.                                                                *)

(* block_field_needs_wrap.                                                 *)
NeedsBlock(t, s, markup) ==
  \/ \E m \in markup : Within(m, t)
  \/ Has(t, s.extra)
  \/ Within(s.start, t)
  \/ /\ Within(s.end, t) /\ ~At(t, 1, s.end)
     /\ \/ ~At(t, Len(t) - Len(s.end) + 1, s.end)
        \/ Len(t) > Len(s.end)

(* escape_block_interior from i on.  The end of a block is escaped unless  *)
(* it starts or ends a text that is not put in a block.                    *)
MarksEnd(t, i, s, wrap) ==
  LET atSuffix == i + Len(s.end) = Len(t) + 1 IN
  CASE i = 1 /\ ~wrap -> FALSE
    [] ~(i = 1 /\ ~wrap) /\ atSuffix -> wrap
    [] OTHER -> TRUE

Inside(t, i, s, wrap) ==
  CASE At(t, i, s.start) -> Mark(IF i = 1 THEN s.start ELSE s.ee \o s.start, Len(s.start))
    [] ~At(t, i, s.start) /\ At(t, i, s.end) ->
         Mark(IF MarksEnd(t, i, s, wrap) THEN s.ee \o s.end ELSE s.end, Len(s.end))
    [] OTHER -> IF At(t, i, s.ee) THEN Mark(s.ee \o s.ee, Len(s.ee)) ELSE Plain(t, i)

RECURSIVE Interior(_, _, _, _)
Interior(t, i, s, wrap) ==
  IF i > Len(t) THEN <<>>
  ELSE Inside(t, i, s, wrap).give \o Interior(t, i + Inside(t, i, s, wrap).take, s, wrap)

(* escape_block_field.                                                     *)
EscapeBlock(t, s, markup) ==
  IF s.start = <<>> \/ s.end = <<>> THEN t
  ELSE IF NeedsBlock(t, s, markup) THEN s.start \o Interior(t, 1, s, TRUE) \o s.end
  ELSE Interior(t, 1, s, FALSE)

(* escape_character_field: the first markup that matches is escaped, then  *)
(* the escape character, alone when nothing escapes it.                    *)
Escaping(t, i, s, markup) ==
  LET hits == {k \in DOMAIN markup : At(t, i, markup[k])} IN
  CASE hits # {} -> Mark(s.esc \o markup[Min(hits)], Len(markup[Min(hits)]))
    [] hits = {} /\ At(t, i, s.esc) -> Mark(s.ee \o s.esc, Len(s.esc))
    [] OTHER -> Plain(t, i)

RECURSIVE EscapeCharacter(_, _, _, _)
EscapeCharacter(t, i, s, markup) ==
  IF i > Len(t) THEN <<>>
  ELSE Escaping(t, i, s, markup).give \o EscapeCharacter(t, i + Escaping(t, i, s, markup).take, s, markup)

(* escape_field_text.                                                      *)
Escape(t, s, markup) ==
  CASE s.kind = "block" -> EscapeBlock(t, s, {markup[k] : k \in DOMAIN markup})
    [] s.kind = "character" /\ s.esc # <<>> -> EscapeCharacter(t, 1, s, markup)
    [] OTHER -> t
=============================================================================
