---------------------------- MODULE TextNumbers ----------------------------
(***************************************************************************)
(* Numbers and booleans as text (vm/text_number.rs,                        *)
(* vm/text_number_format.rs with its decimal and rounding,                 *)
(* vm/zoned_text.rs, runtime/numeric_text_format.rs,                       *)
(* runtime/numeric_text_parse.rs, runtime/pad_trim.rs).                    *)
(*                                                                         *)
(* A number is written under a pattern: rounded, grouped, with a prefix, a *)
(* suffix, an exponent.  It is read by walking the same pattern over the   *)
(* text, strictly or laxly.  The two directions are separate code.         *)
(*                                                                         *)
(* A text is a sequence of characters, a character a number: a digit is    *)
(* itself, the others are named below.  A pattern is a record of its       *)
(* parts.  A decimal is a sign, a magnitude and a scale, without trailing  *)
(* zeros behind the point but for the zero an increment leaves.            *)
(***************************************************************************)
EXTENDS BinaryNumbers

CONSTANT TextMax    (* the largest xs:int                                  *)

Digits == 0..9
Minus == 10
Plus == 11
Dot == 12
Comma == 13
Exponent == 14      \* E
Blank == 15
Star == 16          \* any other character
Dollar == 17
ScaleP == 18        \* P
Letters == 20..25   \* the digits above nine of other bases
None == -1

TextKinds == {"int", "uint", "integer", "decimal", "double", "boolean"}

(* prefix, suffix: literals of a pattern; runs: its digits, a grouping     *)
(* separator between two runs; frac, exp: digits behind the point and of   *)
(* the exponent; neg: the affixes of negative numbers; v, p: digits behind *)
(* a virtual point, positions of a scaling factor.                         *)
IsTextField(f) ==
  /\ f.kind \in TextKinds
  /\ f.rep \in {"standard", "zoned"}
  /\ f.length \in {"implicit", "explicit", "delimited"}
  /\ {f.lax, f.cuts} \subseteq BOOLEAN
  /\ f.mode \in {"unnecessary", "up", "down", "ceiling", "floor", "halfUp", "halfDown", "halfEven"}
  /\ f.trim \in {"none", "both", "pad"} /\ f.justify \in {"left", "right", "center"}
  /\ f.pattern.neg.t \in {"none", "empty", "affixes"}

----------------------------------------------------------------------------
(* Decimals.                                                               *)

(* trim_trailing_zeros.                                                    *)
Canonical(neg, m, s) ==
  LET k == CHOOSE j \in 0..s : m % 10^j = 0 /\ (j = s \/ m % 10^(j + 1) # 0)
  IN Decimal(neg, m \div 10^k, s - k)

(* scaled_integer: the digits at a scale, those behind it cut.             *)
AtScale(d, s) == IF d.s <= s THEN d.m * 10^(s - d.s) ELSE d.m \div 10^(d.s - s)

(* should_round_up, with the increment divided by.                         *)
RoundsUp(rem, step, mode, neg, odd) ==
  /\ rem # 0
  /\ CASE mode \in {"up", "ceiling"} -> ~neg
       [] mode \in {"down", "floor"} -> neg
       [] mode = "halfUp" -> 2 * rem >= step
       [] mode = "halfDown" -> 2 * rem > step
       [] mode = "halfEven" -> 2 * rem > step \/ (2 * rem = step /\ odd)
       [] OTHER -> FALSE

(* from_scaled_integer: of the product only the digits are kept, so zeros  *)
(* between the point and the first digit are lost, and the digits stand    *)
(* right behind the point; a product of zero keeps one zero behind it.     *)
FromScaled(neg, m, s) ==
  LET c == Canonical(neg, m, s)
      n == Len(DigitsOf(c.m)) IN
  IF m = 0 THEN Decimal(neg, 0, IF s > 1 THEN 1 ELSE 0)
  ELSE IF n < c.s THEN [c EXCEPT !.s = n] ELSE c

(* apply_rounding_increment_to_decimal.                                    *)
ToIncrement(d, inc, mode) ==
  LET s == IF d.s > inc.s THEN d.s ELSE inc.s
      step == AtScale(inc, s)
      q == AtScale(d, s) \div step
      up == RoundsUp(AtScale(d, s) % step, step, mode, d.neg, q % 2 = 1) IN
  IF inc.m = 0 THEN d ELSE FromScaled(d.neg, (IF up THEN q + 1 ELSE q) * step, s)

(* fraction_round_increments: the digit cut and those behind it.           *)
FractionUp(digit, more, mode, neg, odd) ==
  CASE mode \in {"up", "ceiling"} -> ~neg
    [] mode \in {"down", "floor"} -> neg
    [] mode = "halfUp" -> digit > 5 \/ (digit = 5 /\ more)
    [] mode = "halfDown" -> digit > 5
    [] mode = "halfEven" -> digit > 5 \/ (digit = 5 /\ (more \/ odd))
    [] OTHER -> FALSE

(* Mutant: the digits behind the one cut do not count.                     *)
IgnoreTail(d, max, mode) ==
  LET cut == d.s - max
      q == d.m \div 10^cut
      up == FractionUp((d.m \div 10^(cut - 1)) % 10, FALSE, mode, d.neg, q % 2 = 1) IN
  IF d.s <= max THEN d ELSE Canonical(d.neg, IF up THEN q + 1 ELSE q, max)

(* round_to_max_fraction_digits.                                           *)
ToFraction(d, max, mode) ==
  LET cut == d.s - max
      q == d.m \div 10^cut
      up == FractionUp((d.m \div 10^(cut - 1)) % 10, d.m % 10^(cut - 1) # 0, mode, d.neg, q % 2 = 1) IN
  IF d.s <= max THEN d ELSE Canonical(d.neg, IF up THEN q + 1 ELSE q, max)

(* normalize_sci_mantissa: a mantissa of one digit before its point; with  *)
(* digits behind the point the exponent counts those, too.                 *)
Scientific(d) ==
  LET whole == d.m \div 10^d.s
      n == Len(DigitsOf(d.m)) IN
  IF d.m = 0 THEN [mantissa |-> d, exponent |-> 0]
  ELSE [mantissa |-> Decimal(d.neg, d.m, n - 1),
        exponent |-> IF d.s = 0 THEN n - 1 ELSE (IF whole = 0 THEN 0 ELSE Len(DigitsOf(whole))) - 1 - d.s]

----------------------------------------------------------------------------
(* Writing.                                                                *)

Times(c, n) == [i \in 1..(IF n > 0 THEN n ELSE 0) |-> c]
Literals(lits) == [i \in DOMAIN lits |-> lits[i].c]

(* format_grouped_integer: groups of the size of the last run; a comma     *)
(* where no separator is given.                                            *)
Grouped(digits, f) ==
  LET size == Last(f.pattern.runs).max
      mark == IF f.group = None THEN Comma ELSE f.group
      Cut(i) == (IF i > 1 /\ (Len(digits) - i + 1) % size = 0 THEN <<mark>> ELSE <<>>) \o <<digits[i]>> IN
  IF Len(f.pattern.runs) < 2 THEN digits
  ELSE FlattenSeq([i \in DOMAIN digits |-> Cut(i)])

(* format_mantissa_pattern: the first run takes the digits before the      *)
(* point; without a fraction to show there is no point.                    *)
Mantissa(d, f) ==
  LET p == f.pattern
      whole == DigitsOf(d.m \div 10^d.s)
      shown == p.point /\ (p.frac.min > 0 \/ d.m % 10^d.s # 0)
      short == IF p.frac.min > 0 THEN d ELSE Canonical(d.neg, d.m, d.s)
      behind == [i \in 1..short.s |-> (short.m \div 10^(short.s - i)) % 10] IN
  Literals(p.prefix) \o Times(ScaleP, p.p.left)
    \o Grouped(Times(0, p.runs[1].min - Len(whole)) \o whole, f)
    \o Times(ScaleP, p.p.right)
    \o (IF shown THEN <<f.point>> \o behind \o Times(0, p.frac.min - Len(behind)) ELSE <<>>)
    \o Literals(p.suffix)
    \o (IF p.point /\ ~shown /\ p.frac.max = 0 THEN <<f.point>> ELSE <<>>)

(* format_exponent.                                                        *)
ExponentText(e, p) ==
  LET digits == DigitsOf(Magnitude(e)) IN
  (IF e < 0 THEN <<Minus>> ELSE IF p.exp.plus THEN <<Plus>> ELSE <<>>)
    \o Times(0, p.exp.min - Len(digits)) \o digits

Signed10(text, neg) == IF neg /\ ~(text # <<>> /\ text[1] = Minus) THEN <<Minus>> \o text ELSE text

ScientificText(d, f) ==
  LET parts == Scientific(d)
      rounded == IF f.increment.m > 0 THEN ToIncrement(parts.mantissa, f.increment, f.mode) ELSE parts.mantissa
      mant == ToFraction(rounded, f.pattern.frac.max, f.mode)
      text == Mantissa(mant, f)
      one == mant.s = 0 /\ mant.m < 10 /\ Len(text) > 1 /\ text[1] = 0 /\ text[2] \notin {Dot, Comma} IN
  Signed10(IF one THEN Tail(text) ELSE text, d.neg) \o <<f.exponent>> \o ExponentText(parts.exponent, f.pattern)

(* format_standard_text_number.                                            *)
StandardText(d, f) ==
  LET stepped == IF f.increment.m > 0 THEN ToIncrement(d, f.increment, f.mode) ELSE d
      rounded == ToFraction(stepped, f.pattern.frac.max, f.mode) IN
  IF f.pattern.exp.on THEN Raw(ScientificText(d, f))
  ELSE IF f.mode = "unnecessary" /\ rounded # stepped THEN Refused
  ELSE Raw(Signed10(Mantissa(rounded, f), d.neg))

(* The value without a pattern.                                            *)
Plain(d) ==
  (IF d.neg THEN <<Minus>> ELSE <<>>) \o DigitsOf(d.m \div 10^d.s)
    \o (IF d.s > 0 THEN <<Dot>> ELSE <<>>) \o [i \in 1..d.s |-> (d.m \div 10^(d.s - i)) % 10]

(* format_field_text_number: zoned numbers and those with a virtual point  *)
(* are written as they are.                                                *)
NumberText(d, f) ==
  IF f.rep = "zoned" \/ f.pattern.v.on THEN Raw(Plain(d))
  ELSE IF d.m = 0 /\ f.zeros # <<>> THEN Raw(f.zeros[1])
  ELSE StandardText(d, f)

(* format_text_standard_radix_unparse.                                     *)
RadixText(n, base) ==
  LET k == CHOOSE j \in 1..20 : n < base^j /\ (j = 1 \/ n >= base^(j - 1))
      digit(i) == (n \div base^(k - i)) % base IN
  IF n < 0 THEN Refused
  ELSE Raw([i \in 1..k |-> IF digit(i) < 10 THEN digit(i) ELSE 10 + digit(i)])

(* pick_text_boolean_unparse_rep.                                          *)
BooleanText(b, f) == IF b THEN f.trueReps[1] ELSE f.falseReps[1]

Justified(text, count, f) ==
  LET right == CASE f.justify = "left" -> count [] f.justify = "right" -> 0 [] OTHER -> count \div 2
  IN Times(f.pad, count - right) \o text \o Times(f.pad, right)

(* truncate_string_for_explicit_length.                                    *)
CutTo(text, f) ==
  IF Len(text) <= f.len THEN Raw(text)
  ELSE IF ~f.cuts \/ f.justify = "center" THEN Refused
  ELSE Raw(IF f.justify = "left" THEN SubSeq(text, 1, f.len) ELSE SubSeq(text, Len(text) - f.len + 1, Len(text)))

(* pad_text_field.                                                         *)
PadTo(text, f) == Justified(text, f.len - Len(text), f)

AsDecimal(v) == IF v.t = "num" THEN Decimal(v.n < 0, Magnitude(v.n), 0) ELSE v

(* write_text_scalar.                                                      *)
Sized(text, f) ==
  IF text = Refused \/ f.length # "explicit" THEN text
  ELSE IF CutTo(text.b, f) = Refused THEN Refused ELSE Raw(PadTo(CutTo(text.b, f).b, f))
WriteText(v, f) ==
  Sized(CASE f.kind = "boolean" -> Raw(BooleanText(v.b, f))
          [] f.base # 10 -> RadixText(v.n, f.base)
          [] OTHER -> NumberText(AsDecimal(v), f), f)

----------------------------------------------------------------------------
(* Reading: a pattern is walked over a text.                               *)

AtChar(text, i) == IF i <= Len(text) THEN text[i] ELSE None

(* The first position from i on whose character is not in S.               *)
Past(text, i, S) ==
  CHOOSE j \in i..(Len(text) + 1) :
    /\ AtChar(text, j) \notin S
    /\ \A k \in i..(j - 1) : text[k] \in S

NoBlanks(text) ==
  LET last == CHOOSE j \in 0..Len(text) : (j = 0 \/ text[j] # Blank) /\ \A k \in (j + 1)..Len(text) : text[k] = Blank
  IN SubSeq(text, Past(text, 1, {Blank}), last)

Without(text, c) == SelectSeq(text, LAMBDA x : x # c)
ReplaceFirst(text, a, b) ==
  LET i == Past(text, 1, {x \in {text[k] : k \in DOMAIN text} : x # a})
  IN IF i > Len(text) THEN text ELSE [text EXCEPT ![i] = b]

(* What the walk of a pattern meets, in order.                             *)
ItemsOf(p, grouped) ==
  LET lits(l) == [i \in DOMAIN l |-> [k |-> "literal", c |-> l[i].c, quoted |-> l[i].quoted]]
      run == [k |-> "digits"]
      runs == IF grouped THEN FlattenSeq([i \in DOMAIN p.runs |-> IF i > 1 THEN <<[k |-> "group"], run>> ELSE <<run>>])
              ELSE <<run>> IN
  lits(p.prefix) \o runs
    \o (IF p.point THEN <<[k |-> "point"]>> \o (IF p.frac.max > 0 THEN <<run>> ELSE <<>>) ELSE <<>>)
    \o lits(p.suffix)
    \o (IF p.exp.on THEN <<[k |-> "exponent"]>> \o (IF p.exp.plus THEN <<[k |-> "plus"]>> ELSE <<>>) \o <<run>> ELSE <<>>)

(* Where the walk stands: the next character, the digits before and behind *)
(* the point and of the exponent.                                          *)
Begin(i) ==
  [ok |-> TRUE, i |-> i, whole |-> <<>>, frac |-> <<>>, exp |-> <<>>, expOn |-> FALSE,
   expSeen |-> FALSE, expNeg |-> FALSE, expSigned |-> FALSE, point |-> FALSE, digit |-> FALSE]

Mismatch(w) == [w EXCEPT !.ok = FALSE]
Moved(w, i) == [w EXCEPT !.i = i]
OrLax(w, f) == IF f.lax THEN w ELSE Mismatch(w)
SkipBlanks(text, i, f) == IF f.lax THEN Past(text, i, {Blank}) ELSE i

MatchLiteral(w, text, item, negative, f) ==
  LET i == SkipBlanks(text, w.i, f) IN
  IF AtChar(text, i) = item.c THEN Moved(w, i + 1)
  ELSE IF f.lax \/ (item.quoted /\ negative) THEN Moved(w, i)
  ELSE Mismatch(w)

(* A run of digits: pads first, a sign in an exponent, a decimal separator *)
(* before the digits.                                                      *)
MatchDigits(w, text, f) ==
  LET pads == ({Blank} \ {f.point}) \union (IF w.point THEN {} ELSE {f.pad})
      i0 == IF w.digit \/ f.pad = None THEN w.i ELSE Past(text, w.i, pads)
      sign == IF w.expOn /\ w.exp = <<>> /\ AtChar(text, i0) \in {Plus, Minus} THEN AtChar(text, i0) ELSE None
      i1 == IF sign = None THEN i0 ELSE i0 + 1
      point == ~w.expOn /\ ~w.point /\ AtChar(text, i1) = f.point
      i2 == IF point THEN i1 + 1 ELSE i1
      taken(from) == SubSeq(text, from, Past(text, from, Digits) - 1)
      grown(digits, signs, points, from) ==
        [w EXCEPT !.i = from + Len(digits),
                  !.digit = @ \/ digits # <<>>,
                  !.expSeen = @ \/ w.expOn,
                  !.expNeg = @ \/ signs = Minus,
                  !.expSigned = @ \/ signs # None,
                  !.point = @ \/ points,
                  !.exp = IF w.expOn THEN @ \o digits ELSE @,
                  !.frac = IF ~w.expOn /\ (w.point \/ points) THEN @ \o digits ELSE @,
                  !.whole = IF ~w.expOn /\ ~w.point /\ ~points THEN @ \o digits ELSE @] IN
  grown(taken(i2), sign, point, i2)

MatchPoint(w, text, f) ==
  LET i == IF f.lax /\ AtChar(text, w.i) # f.point THEN Past(text, w.i, {Blank} \ {f.point}) ELSE w.i IN
  IF AtChar(text, i) = f.point THEN [w EXCEPT !.i = i + 1, !.point = TRUE] ELSE OrLax(Moved(w, i), f)

MatchGroup(w, text, f) ==
  LET i == SkipBlanks(text, w.i, f) IN
  IF f.group = None THEN Moved(w, i)
  ELSE IF AtChar(text, i) = f.group THEN Moved(w, i + 1) ELSE OrLax(Moved(w, i), f)

(* Without its separator an exponent may be a literal E.                   *)
MatchExponent(w, text, f) ==
  LET i == SkipBlanks(text, w.i, f) IN
  IF AtChar(text, i) = f.exponent THEN [w EXCEPT !.i = i + 1, !.expOn = TRUE]
  ELSE IF AtChar(text, i) = Exponent THEN Moved(w, i + 1)
  ELSE OrLax(Moved(w, i), f)

MatchPlus(w, text, f) ==
  LET i == SkipBlanks(text, w.i, f) IN
  IF ~w.expOn THEN MatchLiteral(w, text, [k |-> "literal", c |-> Plus, quoted |-> FALSE], FALSE, f)
  ELSE IF AtChar(text, i) = Plus THEN [w EXCEPT !.i = i + 1, !.expSigned = TRUE]
  ELSE IF AtChar(text, i) = Minus THEN Moved(w, i)
  ELSE OrLax(Moved(w, i), f)

MatchItem(w, item, text, negative, f) ==
  IF ~w.ok THEN w
  ELSE CASE item.k = "literal" -> MatchLiteral(w, text, item, negative, f)
         [] item.k = "digits" -> MatchDigits(w, text, f)
         [] item.k = "point" -> MatchPoint(w, text, f)
         [] item.k = "group" -> MatchGroup(w, text, f)
         [] item.k = "exponent" -> MatchExponent(w, text, f)
         [] item.k = "plus" -> MatchPlus(w, text, f)

(* A pattern without a point still takes one behind its digits.            *)
LatePoint(w, text, f) ==
  LET end == Past(text, w.i + 1, Digits) IN
  IF w.point \/ f.pattern.point \/ AtChar(text, w.i) \notin {Dot, f.point} THEN w
  ELSE [w EXCEPT !.i = end, !.point = TRUE, !.frac = @ \o SubSeq(text, w.i + 1, end - 1)]

(* try_parse_trailing_exponent.                                            *)
LateExponent(w, text, f) ==
  LET i == Past(text, w.i, {Blank})
      sign == IF AtChar(text, i + 1) \in {Plus, Minus} THEN AtChar(text, i + 1) ELSE None
      from == IF sign = None THEN i + 1 ELSE i + 2
      end == IF from <= Len(text) THEN Past(text, from, Digits) ELSE from IN
  IF w.i > Len(text) \/ w.expSeen \/ AtChar(text, i) \notin {Exponent, f.exponent} \/ end = from
     \/ Past(text, end, {Blank}) <= Len(text) THEN w
  ELSE [w EXCEPT !.i = end, !.exp = SubSeq(text, from, end - 1), !.expSeen = TRUE, !.expNeg = sign = Minus]

NumberOf(digits) == FoldLeft(LAMBDA m, d : 10 * m + d, 0, digits)

NoNumber == [ok |-> FALSE, d |-> Decimal(FALSE, 0, 0), plain |-> FALSE]

(* apply_scientific_exponent, and the exponents left in the text.          *)
WalkedNumber(w, negative, f) ==
  LET e == IF w.expNeg THEN -NumberOf(w.exp) ELSE NumberOf(w.exp)
      s == Len(w.frac) - e
      m == NumberOf(w.whole \o w.frac)
      signed == w.expSigned \/ w.expNeg \/ (f.pattern.exp.on /\ f.pattern.exp.plus) IN
  [ok |-> TRUE,
   d |-> IF s >= 0 THEN Canonical(negative, m, s) ELSE Decimal(negative, m * 10^(-s), 0),
   plain |-> w.exp = <<>> \/ signed \/ ~(w.point \/ f.pattern.exp.on)]

(* What a lax reading leaves at the end of a text.                         *)
MayRemain(rest) == ~(\E i \in DOMAIN rest : rest[i] \in Digits) /\ rest \notin {<<Minus>>, <<Plus>>}

(* match_subpattern.                                                       *)
Ended(w, text, negative, f) ==
  LET rest == SubSeq(text, w.i, Len(text)) IN
  IF ~w.ok \/ (~w.digit /\ text # <<>>) \/ (rest # <<>> /\ ~(f.lax /\ MayRemain(rest))) THEN NoNumber
  ELSE WalkedNumber(w, negative, f)
Late(w, text, f) == LateExponent(Moved(w, SkipBlanks(text, w.i, f)), text, f)
MatchPattern(text, items, negative, f) ==
  LET start == Begin(IF f.lax /\ ~negative /\ AtChar(text, 1) = Plus THEN 2 ELSE 1)
      walk(w, item) == MatchItem(w, item, text, negative, f) IN
  Ended(Late(LatePoint(FoldLeft(walk, start, items), text, f), text, f), text, negative, f)

StartsWith(text, i, part) == i + Len(part) - 1 <= Len(text) /\ SubSeq(text, i, i + Len(part) - 1) = part

(* match_negative_subpattern: the affixes of negative numbers around the   *)
(* positive pattern.                                                       *)
MatchNegative(text, items, f) ==
  LET from == SkipBlanks(text, 1, f) + Len(f.pattern.neg.prefix)
      last == IF f.lax /\ text # <<>> /\ NoBlanks(text) # <<>>
              THEN Past(text, 1, {Blank}) + Len(NoBlanks(text)) - 1 ELSE Len(text)
      suffix == f.pattern.neg.suffix
      ends == {i \in from..(last - Len(suffix) + 1) : StartsWith(text, i, suffix)}
      end == IF suffix = <<>> THEN last + 1
             ELSE IF last - Len(suffix) + 1 \in ends THEN last - Len(suffix) + 1
             ELSE CHOOSE i \in ends : \A j \in ends : i <= j
      tail == SkipBlanks(text, end + Len(suffix), f) IN
  IF ~StartsWith(text, from - Len(f.pattern.neg.prefix), f.pattern.neg.prefix)
     \/ (suffix # <<>> /\ ends = {}) \/ from > end \/ tail <= Len(text) THEN NoNumber
  ELSE MatchPattern(SubSeq(text, from, end - 1), items, TRUE, f)

(* apply_decimal_virtual_point of a pattern with P: the digits of the      *)
(* number, whatever its point.                                             *)
Scaled(d, p) ==
  LET left == p.p.left + FoldLeft(LAMBDA n, r : n + r.max, 0, p.runs) IN
  IF p.p.left > 0 /\ p.p.right = 0 THEN Canonical(d.neg, d.m, left)
  ELSE IF p.p.right > 0 /\ p.p.left = 0 THEN Decimal(d.neg, d.m * 10^p.p.right, 0)
  ELSE d

Negated(r) == [r EXCEPT !.d.neg = TRUE]

(* parse_standard_text_number.                                             *)
FirstFound(positive, affixed, negated, f) ==
  CASE positive.ok -> [positive EXCEPT !.d = Scaled(@, f.pattern)]
    [] ~positive.ok /\ affixed.ok -> [affixed EXCEPT !.d = Scaled(@, f.pattern)]
    [] ~positive.ok /\ ~affixed.ok /\ negated.ok -> [Negated(negated) EXCEPT !.d = Scaled(@, f.pattern)]
    [] OTHER -> NoNumber
MatchNumber(work, items, f) ==
  LET neg == f.pattern.neg.t IN
  FirstFound(MatchPattern(work, items, FALSE, f),
             IF neg = "affixes" THEN MatchNegative(work, items, f) ELSE NoNumber,
             IF neg = "empty" /\ AtChar(work, 1) = Minus THEN MatchPattern(Tail(work), items, FALSE, f) ELSE NoNumber,
             f)
StandardNumber(input, f) ==
  LET trimmed == SubSeq(input, Past(input, 1, {f.pad}), Len(input))
      padless == IF f.pad = None \/ input = <<>> THEN input
                 ELSE IF trimmed # <<>> THEN trimmed ELSE IF f.pad = 0 THEN <<0>> ELSE input
      work0 == IF f.lax THEN NoBlanks(input) ELSE padless
      has(c) == c # None /\ \E i \in DOMAIN work0 : work0[i] = c
      custom == f.group # Comma /\ has(f.group)
      grouped == Len(f.pattern.runs) > 1
      odd == ~f.pattern.point /\ f.point # Dot /\ has(f.point)
      work1 == IF ~custom /\ ~odd THEN work0
               ELSE LET s == IF f.group # None /\ (f.group # Comma \/ ~grouped) THEN Without(work0, f.group) ELSE work0
                    IN IF f.pattern.point THEN s ELSE ReplaceFirst(s, f.point, Dot)
      relaxed == grouped /\ (f.lax \/ Len(f.pattern.runs) > 3 \/ custom) /\ f.group # None IN
  MatchNumber(IF relaxed THEN Without(work1, f.group) ELSE work1, ItemsOf(f.pattern, ~relaxed), f)

----------------------------------------------------------------------------
(* Reading a field.                                                        *)

(* apply_text_number_pattern_numeric: a virtual point, V; with it the text *)
(* has a point, which xs:integer does not take.                            *)
VirtualNumber(text, f) ==
  LET neg == AtChar(text, 1) = Minus
      body == IF neg THEN Tail(text) ELSE text IN
  IF f.kind = "integer" \/ (\E i \in DOMAIN body : body[i] \notin Digits) \/ Len(body) > f.pattern.v.before + f.pattern.v.behind THEN NoNumber
  ELSE [ok |-> TRUE, d |-> Canonical(neg, NumberOf(body), f.pattern.v.behind), plain |-> TRUE]

(* convert_from_...: a digit with the sign of the number.                  *)
Overpunched(d, f) == IF f.style = "standard" THEN 30 + d ELSE 40 + d

(* zoned_to_number.                                                        *)
Unzoned(text, f) ==
  LET i == IF f.pattern.sign = "start" THEN 1 ELSE Len(text)
      d == {x \in Digits : text[i] \in {x, Overpunched(x, f), 50 + x}}
      negative == \E x \in Digits : text[i] = Overpunched(x, f)
      positive == \E x \in Digits : text[i] = 50 + x IN
  IF text = <<>> THEN [ok |-> FALSE, text |-> <<>>]
  ELSE IF d = {} \/ (positive /\ f.style = "standard") THEN [ok |-> FALSE, text |-> text]
  ELSE [ok |-> TRUE,
        text |-> (IF negative THEN <<Minus>> ELSE <<>>) \o [text EXCEPT ![i] = CHOOSE x \in d : TRUE]]

(* normalize_text_number_for_integer: no digits behind the point, no       *)
(* exponent left in the text.                                              *)
WholeOnly(r, f) ==
  IF r.ok /\ f.kind \in {"int", "uint", "integer"} /\ ~(r.plain /\ r.d.s = 0) THEN NoNumber ELSE r

(* parse_field_text_number.                                                *)
FieldNumber(text, f) ==
  LET unzoned == Unzoned(text, f)
      work == IF f.rep = "zoned" THEN unzoned.text ELSE text
      minus == work # <<>> /\ work[1] = Minus
      body(number) == IF minus /\ number.ok THEN Negated(number) ELSE number IN
  IF \E i \in DOMAIN f.zeros : f.zeros[i] = text THEN [ok |-> TRUE, d |-> Decimal(FALSE, 0, 0), plain |-> TRUE]
  ELSE IF f.rep = "zoned" /\ ~unzoned.ok THEN NoNumber
  ELSE IF f.pattern.v.on THEN VirtualNumber(work, f)
  ELSE WholeOnly(body(StandardNumber(IF minus THEN Tail(work) ELSE work, f)), f)

(* parse_int_typed_with_base_i64, parse_unsigned_radix_typed,              *)
(* parse_unbounded_integer_decimal.                                        *)
InType(r, f) ==
  LET n == IF r.d.neg THEN -r.d.m ELSE r.d.m IN
  IF ~r.ok THEN Refused
  ELSE IF f.kind \in {"decimal", "double"} THEN (IF r.d.m = 0 THEN Decimal(FALSE, 0, 0) ELSE r.d)
  ELSE IF r.d.s > 0 THEN Refused
  ELSE IF f.kind = "int" /\ (n > TextMax \/ n < -TextMax - 1) THEN Refused
  ELSE IF f.kind = "uint" /\ (r.d.neg \/ n > 2 * TextMax + 1) THEN Refused
  ELSE Whole(n)

(* parse_u128_radix_base10 of another base.                                *)
RadixNumber(text, f) ==
  LET trimmed == NoBlanks(text)
      sign == AtChar(trimmed, 1)
      body == IF sign \in {Minus, Plus} THEN Tail(trimmed) ELSE trimmed
      value(c) == IF c \in Digits THEN c ELSE c - 10
      valid == body # <<>> /\ \A i \in DOMAIN body : body[i] \in Digits \union Letters /\ value(body[i]) < f.base
      m == FoldLeft(LAMBDA n, c : f.base * n + value(c), 0, body) IN
  IF ~valid \/ (f.kind = "uint" /\ sign \in {Minus, Plus}) THEN Refused
  ELSE InType([ok |-> TRUE, d |-> Decimal(sign = Minus, m, 0), plain |-> TRUE], f)

(* parse_text_boolean: a single letter is taken for a rep it begins.       *)
ReadBoolean(text, f) ==
  LET matches(rep) == text = rep \/ (Len(text) = 1 /\ rep # <<>> /\ rep[1] = text[1])
      AnyOf(reps) == \E i \in DOMAIN reps : matches(reps[i])
      lengths == {Len(f.trueReps[i]) : i \in DOMAIN f.trueReps} \union {Len(f.falseReps[i]) : i \in DOMAIN f.falseReps} IN
  IF f.length # "delimited" /\ f.trim = "none" /\ \E a, b \in lengths : a # b THEN Refused
  ELSE IF AnyOf(f.trueReps) THEN Boolean(TRUE)
  ELSE IF AnyOf(f.falseReps) THEN Boolean(FALSE)
  ELSE Refused

(* trim_text_value: a zero of zeros is not trimmed away.                   *)
Trimmed(text, f) ==
  LET last == CHOOSE j \in 0..Len(text) : (j = 0 \/ text[j] # f.pad) /\ \A k \in (j + 1)..Len(text) : text[k] = f.pad
      from == IF f.justify = "left" THEN 1 ELSE Past(text, 1, {f.pad})
      to == IF f.justify = "right" THEN Len(text) ELSE last
      trimmed == SubSeq(text, from, to) IN
  CASE f.trim = "both" -> NoBlanks(text)
    [] f.trim = "pad" /\ f.pad # None ->
         IF trimmed = <<>> /\ text # <<>> /\ f.pad = 0 THEN <<0>> ELSE trimmed
    [] OTHER -> text

(* reject_internal_whitespace_explicit_field.                              *)
InnerBlank(text, f) == f.length = "explicit" /\ \E i \in DOMAIN NoBlanks(text) : NoBlanks(text)[i] = Blank

(* read_numeric_token: what an implicit length takes of the text.          *)
Token(text) ==
  LET sign == IF AtChar(text, 1) \in {Plus, Minus} THEN 1 ELSE 0
      fits(i) == \/ text[i] \in Digits \union {Dot, Comma, Exponent}
                 \/ text[i] \in {Plus, Minus} /\ i > 1 /\ text[i - 1] = Exponent
      end == CHOOSE j \in sign..Len(text) :
               /\ \A i \in (sign + 1)..j : fits(i)
               /\ j = Len(text) \/ ~fits(j + 1)
  IN SubSeq(text, 1, end)

(* text_number_pattern_needs_full_span, implicit_text_number_byte_length:  *)
(* the longest beginning the pattern takes.                                *)
Longest(text, ends) ==
  IF ends = {} THEN Token(text) ELSE SubSeq(text, 1, CHOOSE n \in ends : \A k \in ends : k <= n)
Spanned(text, f) ==
  LET quoted == f.pattern.neg.t # "none" \/ \E i \in DOMAIN f.pattern.prefix : f.pattern.prefix[i].quoted
                  \/ \E j \in DOMAIN f.pattern.suffix : f.pattern.suffix[j].quoted IN
  Longest(text, {n \in 1..Len(text) : quoted /\ StandardNumber(SubSeq(text, 1, n), f).ok})

(* read_text_scalar: the raw text, what is trimmed, the value.             *)
RawText(wire, f) ==
  CASE f.length = "explicit" -> SubSeq(wire, 1, f.len)
    [] f.length = "implicit" /\ f.kind # "boolean" -> Spanned(wire, f)
    [] OTHER -> wire

TextValue(text, f) ==
  IF f.kind = "boolean" THEN ReadBoolean(text, f)
  ELSE IF text = <<>> /\ f.length # "explicit" THEN Refused
  ELSE IF f.kind \in {"int", "uint", "integer"} /\ f.base = 10 /\ InnerBlank(text, f) THEN Refused
  ELSE IF f.base # 10 THEN RadixNumber(text, f)
  ELSE IF f.kind = "int" /\ (\E i \in DOMAIN text : text[i] = Dot) /\ ~(\E j \in DOMAIN text : text[j] = Exponent) THEN Refused
  ELSE InType(FieldNumber(text, f), f)

ValueIn(raw, f) == [value |-> TextValue(Trimmed(raw, f), f), took |-> Len(raw)]
ReadText(wire, f) ==
  IF f.length = "explicit" /\ Len(wire) < f.len THEN [value |-> Refused, took |-> 0]
  ELSE ValueIn(RawText(wire, f), f)
=============================================================================
