------------------------------ MODULE Facets ------------------------------
(***************************************************************************)
(* The facets of simple types.  A type is a chain of restrictions; the     *)
(* compiler checks each, merges them into the effective facets, checks     *)
(* these, and leaves them with the element (schema/facets.rs).  The        *)
(* decoder tests a value against what was left, never against the chain    *)
(* (vm/facet_validate.rs).                                                 *)
(*                                                                         *)
(* A facet that may be missing is a set with at most one element.  A       *)
(* pattern is the set of values it matches; the literals of enumerations   *)
(* are values; a calendar is its place in the order of canonical texts.    *)
(***************************************************************************)
EXTENDS Integers, Sequences, FiniteSets

CONSTANTS
  Types,             (* the simple types compiled                          *)
  Values(_),         (* the values decoded for a type                      *)
  MinLong, MaxLong,  (* the integers an i64 has                            *)
  Narrow             (* the integers of an int or short facet bound        *)

Kinds == {"string", "hex", "fixed", "integer", "decimal", "float", "calendar"}
Optional(facet, S) == facet \subseteq S /\ \A x, y \in facet : x = y

(* One xs:restriction (ParsedRestrictionFacets): its bounds are integers;  *)
(* other is a bound that is none, a calendar as a rule.                    *)
Bounds == {"minInclusive", "maxInclusive", "minExclusive", "maxExclusive"}
Lowest == {"minInclusive", "minExclusive"}

IsLevel(l) ==
  /\ \A f \in {"length", "minLength", "maxLength", "totalDigits", "fractionDigits"} : Optional(l[f], Nat)
  /\ \A b \in Bounds : Optional(l.bound[b], Int) /\ Optional(l.other[b], Int)
  /\ l.enumeration \in Seq({l.enumeration[i] : i \in DOMAIN l.enumeration})

(* narrow is an int or a short, whose bounds are checked.                  *)
IsType(t) ==
  /\ t.kind \in Kinds
  /\ t.levels # <<>> /\ t.levels \in Seq({t.levels[i] : i \in DOMAIN t.levels})
  /\ {t.narrow, t.nonNegative, t.binary, t.implicit, t.calc, t.ignore} \subseteq BOOLEAN
  /\ t.nonNegative => t.kind = "integer"
  /\ t.members # {} => t.kind = "string"
  /\ \A i \in DOMAIN t.levels : IsLevel(t.levels[i])

(* A value: a text or bytes with its length, a calendar, or a number with  *)
(* its integral part and its digits.                                       *)
IsValue(v, kind) ==
  CASE kind \in {"string", "hex"} -> v.len \in Nat
    [] kind = "calendar" -> v.at \in Int
    [] kind = "float" -> v.n \in Int /\ v.nan \in BOOLEAN
    [] OTHER -> v.n \in Int /\ v.neg \in BOOLEAN /\ v.whole \in Seq(0..9) /\ v.frac \in Seq(0..9)

ASSUME LongAssumption == MinLong \in Int /\ MaxLong \in Int /\ Narrow \subseteq Int
ASSUME TypesAssumption ==
  \A t \in Types : IsType(t) /\ \A v \in Values(t) : IsValue(v, t.kind)

VARIABLES
  type,     (* the type                                                    *)
  level,    (* the restriction the compiler is at; 1 is the base           *)
  eff,      (* the effective facets merged so far                          *)
  refusal,  (* why the schema is refused, "none" otherwise                 *)
  phase,    (* checking, collecting, compiled, refused, decoded            *)
  value,    (* the value decoded                                           *)
  valid,    (* it passes validate_decoded_facets                           *)
  kept      (* it passes the tests of a branch or of an unordered child    *)

vars == <<type, level, eff, refusal, phase, value, valid, kept>>

NoFacets ==
  [length |-> {}, minLength |-> {}, maxLength |-> {}, totalDigits |-> {}, fractionDigits |-> {},
   bound |-> [b \in Bounds |-> {}], other |-> [b \in Bounds |-> {}], patterns |-> {}, enumeration |-> {}]

Literals(l) == {l.enumeration[i] : i \in DOMAIN l.enumeration}

Init ==
  /\ type \in Types /\ level = Len(type.levels) /\ eff = NoFacets
  /\ refusal = "none" /\ phase = "checking" /\ value = <<>> /\ valid = FALSE /\ kept = FALSE

----------------------------------------------------------------------------
(* Each restriction by itself, from the type's own to the base.            *)

Given(facet) == facet # {}
Both(f, a, b) == f.bound[a] # {} /\ f.bound[b] # {}
Exceeds(a, b) == \E x \in a, y \in b : x > y

(* The nearest restriction below with an enumeration: at most one.         *)
ParentEnumerations(t, i) ==
  {j \in 1..(i - 1) : /\ t.levels[j].enumeration # <<>>
                      /\ \A k \in (j + 1)..(i - 1) : t.levels[k].enumeration = <<>>}

(* Mutant: the enumeration is not compared with the base's.                *)
LevelUncompared(t, i) ==
  LET l == t.levels[i] IN
  \/ Both(l, "minInclusive", "minExclusive") \/ Both(l, "maxInclusive", "maxExclusive")
  \/ l.totalDigits = {0} \/ Exceeds(l.fractionDigits, l.totalDigits)

LevelRefused(t, i) ==
  LET l == t.levels[i] IN
  \/ Both(l, "minInclusive", "minExclusive") \/ Both(l, "maxInclusive", "maxExclusive")
  \/ l.totalDigits = {0} \/ Exceeds(l.fractionDigits, l.totalDigits)
  \/ \E a, b \in DOMAIN l.enumeration : a < b /\ l.enumeration[a] = l.enumeration[b]
  \/ \E j \in ParentEnumerations(t, i) : ~(Literals(l) \subseteq Literals(t.levels[j]))

CheckLevel ==
  /\ phase = "checking" /\ level > 0
  /\ IF LevelRefused(type, level)
       THEN refusal' = "restriction" /\ phase' = "refused" /\ UNCHANGED level
       ELSE level' = level - 1 /\ UNCHANGED <<refusal, phase>>
  /\ UNCHANGED <<type, eff, value, valid, kept>>

----------------------------------------------------------------------------
(* The facets merged, from the base to the type's own.                     *)

Greatest(S) == {x \in S : \A y \in S : x >= y}
Least(S) == {x \in S : \A y \in S : x <= y}

(* Mutant: the wider of two upper bounds is kept.                          *)
MergeWider(base, local, b) == Greatest(base[b] \union local[b])

MergeBound(base, local, b) ==
  IF b \in Lowest THEN Greatest(base[b] \union local[b]) ELSE Least(base[b] \union local[b])

MergeBounds(base, local) == [b \in Bounds |-> MergeBound(base, local, b)]

(* merge_length_facet: the local length stands.                            *)
MergeLength(base, local) == IF Given(local) THEN local ELSE base

Merged(f, l) ==
  [length |-> MergeLength(f.length, l.length),
   minLength |-> Greatest(f.minLength \union l.minLength),
   maxLength |-> Least(f.maxLength \union l.maxLength),
   totalDigits |-> Least(f.totalDigits \union l.totalDigits),
   fractionDigits |-> Least(f.fractionDigits \union l.fractionDigits),
   bound |-> MergeBounds(f.bound, l.bound),
   other |-> MergeBounds(f.other, l.other),
   patterns |-> f.patterns \union ({l.patterns} \ {{}}),
   enumeration |-> IF l.enumeration # <<>> THEN Literals(l) ELSE f.enumeration]

BeginCollecting ==
  /\ phase = "checking" /\ level = 0
  /\ phase' = "collecting"
  /\ UNCHANGED <<type, level, eff, refusal, value, valid, kept>>

Collect ==
  /\ phase = "collecting" /\ level < Len(type.levels)
  /\ level' = level + 1
  /\ eff' = Merged(eff, type.levels[level + 1])
  /\ UNCHANGED <<type, refusal, phase, value, valid, kept>>

----------------------------------------------------------------------------
(* The merged facets judged: validate_length_facets_for_type.              *)

Sized(t) == t.kind \in {"string", "hex"}

(* The length a restriction gives is its base's, if the base has one.      *)
BaseLengths(t) ==
  {j \in 1..(Len(t.levels) - 1) : /\ Given(t.levels[j].length)
                                  /\ \A k \in (j + 1)..(Len(t.levels) - 1) : ~Given(t.levels[k].length)}
LengthDiffers(t) ==
  \E j \in BaseLengths(t), n \in t.levels[Len(t.levels)].length : n \notin t.levels[j].length

TwiceBounded(f) == Both(f, "minInclusive", "minExclusive") \/ Both(f, "maxInclusive", "maxExclusive")

(* Mutant: a range of one value is refused.                                *)
OutOfOrderOrOne(f) ==
  \E x \in f.bound["minExclusive"] \union f.bound["minInclusive"],
     y \in f.bound["maxInclusive"] \union f.bound["maxExclusive"] : x >= y

OutOfOrder(f) ==
  \/ Exceeds(f.bound["minExclusive"], f.bound["maxInclusive"])
  \/ Exceeds(f.bound["minInclusive"], f.bound["maxInclusive"])
  \/ \E x \in f.bound["minExclusive"] \union f.bound["minInclusive"], y \in f.bound["maxExclusive"] : x >= y

TooWide(t, f) == t.narrow /\ \E b \in Bounds : ~(f.bound[b] \subseteq Narrow)

LengthTwice(f) == Given(f.length) /\ (Given(f.minLength) \/ Given(f.maxLength))
LengthMisplaced(t, f) == ~Sized(t) /\ (Given(f.length) \/ Given(f.minLength) \/ Given(f.maxLength))

(* Mutant: the two limits need not be equal.                               *)
LimitsUnsettled(t, f) ==
  t.implicit /\ Sized(t) /\ ~t.calc /\ ~Given(f.length) /\ ~(Given(f.minLength) /\ Given(f.maxLength))

(* An implicit length is the length facet or two equal limits.             *)
LengthUnsettled(t, f) ==
  t.implicit /\ Sized(t) /\ ~t.calc /\ ~Given(f.length) /\ (f.minLength # f.maxLength \/ ~Given(f.minLength))

LengthsOutOfOrder(t, f) == ~(t.implicit /\ Sized(t)) /\ Exceeds(f.minLength, f.maxLength)

(* The reason is that of the first check that fails.                       *)
Reason(t, f) ==
  CASE LengthDiffers(t) -> "length"
    [] ~LengthDiffers(t) /\ TwiceBounded(f) -> "restriction"
    [] ~LengthDiffers(t) /\ ~TwiceBounded(f) /\ OutOfOrder(f) -> "order"
    [] OTHER ->
         IF Exceeds(f.fractionDigits, f.totalDigits) \/ TooWide(t, f) THEN "restriction"
         ELSE IF LengthTwice(f) \/ LengthMisplaced(t, f) \/ LengthUnsettled(t, f) THEN "length"
         ELSE IF LengthsOutOfOrder(t, f) THEN "order"
         ELSE "none"

(* What the element is left with: apply_effective_facets_to_ir.            *)
Applied(f) ==
  IF Given(f.length) THEN [f EXCEPT !.minLength = f.length, !.maxLength = f.length] ELSE f

ImplicitLength(t, f) ==
  IF ~t.implicit THEN {} ELSE IF Given(f.length) THEN f.length ELSE f.minLength \intersect f.maxLength

Judge ==
  /\ phase = "collecting" /\ level = Len(type.levels)
  /\ refusal' = Reason(type, eff)
  /\ IF refusal' = "none"
       THEN eff' = Applied(eff) /\ phase' = "compiled"
       ELSE phase' = "refused" /\ UNCHANGED eff
  /\ UNCHANGED <<type, level, value, valid, kept>>

----------------------------------------------------------------------------
(* A value tested.                                                         *)

AtLeast(x, s) == \A y \in s : x >= y
AtMost(x, s) == \A y \in s : x <= y
Above(x, s) == \A y \in s : x > y
Below(x, s) == \A y \in s : x < y

Within(x, bound) ==
  /\ AtLeast(x, bound["minInclusive"]) /\ AtMost(x, bound["maxInclusive"])
  /\ Above(x, bound["minExclusive"]) /\ Below(x, bound["maxExclusive"])

Enumerated(v, f) == f.enumeration # {} => v \in f.enumeration
Matches(v, f) == \A group \in f.patterns : \E pattern \in group : v \in pattern

(* validate_string_facets: with a length there is no other test.           *)
ValidString(v, f) ==
  IF Given(f.length) THEN v.len \in f.length
  ELSE /\ AtLeast(v.len, f.minLength) /\ AtMost(v.len, f.maxLength)
       /\ Matches(v, f) /\ Enumerated(v, f)

ValidHex(v, f) == Given(f.length) => v.len \in f.length

(* The digits of the canonical text: to the last fraction digit that is no *)
(* zero, from the first digit that is none.                                *)
FractionDigits(v) == Cardinality({i \in DOMAIN v.frac : \E j \in DOMAIN v.frac : j >= i /\ v.frac[j] # 0})
TotalDigits(v) ==
  LET digits == v.whole \o v.frac
      last == Len(v.whole) + FractionDigits(v)
  IN Cardinality({i \in DOMAIN digits : i <= last /\ \E j \in DOMAIN digits : j <= i /\ digits[j] # 0})
ValidDigits(v, f) == AtMost(TotalDigits(v), f.totalDigits) /\ AtMost(FractionDigits(v), f.fractionDigits)

FitsLong(v) == MinLong <= v.n /\ v.n <= MaxLong

(* validate_enumeration_numeric: compared as numbers, texts only.          *)
EnumeratedNumber(v, t, f) ==
  (~t.binary /\ f.enumeration # {}) => \E w \in f.enumeration : w.n = v.n /\ FitsLong(w)

(* The kinds of a fixed width: what no i64 holds is not tested.            *)
ValidFixed(v, t, f) ==
  FitsLong(v) =>
    /\ Within(v.n, f.bound) /\ ValidDigits(v, f) /\ EnumeratedNumber(v, t, f)
    /\ f.patterns # {} /\ ~t.ignore => Matches(v, f) /\ Enumerated(v, f)

ValidInteger(v, t, f) ==
  /\ t.nonNegative => ~v.neg
  /\ FitsLong(v) => Within(v.n, f.bound) /\ EnumeratedNumber(v, t, f)
  /\ ValidDigits(v, f)

(* decimal_lexical_cmp: the signs, then the lengths and the digits of the  *)
(* whole parts without leading zeros, then the fraction; the bound is an   *)
(* integer.  The result is negative, zero or positive.                     *)
DigitsOf[n \in Nat] == IF n < 10 THEN <<n>> ELSE Append(DigitsOf[n \div 10], n % 10)

Zeros(s) == Cardinality({i \in DOMAIN s : \A j \in 1..i : s[j] = 0})
Stripped(s) == IF Zeros(s) = Len(s) THEN <<0>> ELSE SubSeq(s, Zeros(s) + 1, Len(s))

SmallerDigits(a, b) == \E i \in DOMAIN a : a[i] < b[i] /\ \A j \in 1..(i - 1) : a[j] = b[j]

CompareMagnitude(a, fraction, b) ==
  CASE Len(a) # Len(b) -> Len(a) - Len(b)
    [] Len(a) = Len(b) /\ a # b -> IF SmallerDigits(a, b) THEN -1 ELSE 1
    [] OTHER -> fraction

Compare(v, y) ==
  LET magnitude == CompareMagnitude(Stripped(v.whole), FractionDigits(v), DigitsOf[IF y < 0 THEN -y ELSE y]) IN
  CASE v.neg /\ y < 0 -> -magnitude
    [] v.neg /\ y >= 0 -> -1
    [] ~v.neg /\ y < 0 -> 1
    [] OTHER -> magnitude

ValidDecimal(v, f) ==
  /\ \A y \in f.bound["minInclusive"] : Compare(v, y) >= 0
  /\ \A y \in f.bound["maxInclusive"] : Compare(v, y) <= 0
  /\ \A y \in f.bound["minExclusive"] : Compare(v, y) > 0
  /\ \A y \in f.bound["maxExclusive"] : Compare(v, y) < 0
  /\ ValidDigits(v, f)

(* No number is no number of a range.                                      *)
ValidFloat(v, f) == IF v.nan THEN \A b \in Bounds : ~Given(f.bound[b]) ELSE Within(v.n, f.bound)

ValidCalendar(v, f) == Within(v.at, f.other) /\ Enumerated(v, f)

ValidFacets(v, t, f) ==
  CASE t.kind = "string"   -> ValidString(v, f)
    [] t.kind = "hex"      -> ValidHex(v, f)
    [] t.kind = "fixed"    -> ValidFixed(v, t, f)
    [] t.kind = "integer"  -> ValidInteger(v, t, f)
    [] t.kind = "decimal"  -> ValidDecimal(v, f)
    [] t.kind = "float"    -> ValidFloat(v, f)
    [] t.kind = "calendar" -> ValidCalendar(v, f)

(* validate_choice_discriminator_facets: patterns and enumerations only.   *)
NeedsChoice(f) == f.patterns # {} \/ f.enumeration # {}
ValidForChoice(v, t, f) ==
  CASE t.kind = "string" -> Matches(v, f) /\ Enumerated(v, f)
    [] t.kind \in {"fixed", "integer", "decimal"} -> FitsLong(v) => EnumeratedNumber(v, t, f)
    [] OTHER -> TRUE

(* backtrack_decoded_facets_ok.                                            *)
NeedsValidation(f) == f # NoFacets
Kept(v, t, f) == NeedsValidation(f) => (NeedsChoice(f) => ValidForChoice(v, t, f)) /\ ValidFacets(v, t, f)

(* A union's member restricts lengths and patterns; the value need be one  *)
(* of the members'.                                                        *)
MemberLevelAccepts(l, v) ==
  /\ AtLeast(v.len, l.minLength) /\ AtMost(v.len, l.maxLength)
  /\ l.patterns # {} => \E pattern \in l.patterns : v \in pattern
OfUnion(v, t) ==
  t.members # {} => \E m \in t.members : \A i \in DOMAIN m : MemberLevelAccepts(m[i], v)

Decode ==
  /\ phase = "compiled"
  /\ \E v \in Values(type) :
       /\ value' = v
       /\ valid' = ((NeedsValidation(eff) => ValidFacets(v, type, eff)) /\ OfUnion(v, type))
       /\ kept' = Kept(v, type, eff)
  /\ phase' = "decoded"
  /\ UNCHANGED <<type, level, eff, refusal>>

Next == CheckLevel \/ BeginCollecting \/ Collect \/ Judge \/ Decode

Spec == Init /\ [][Next]_vars

----------------------------------------------------------------------------
(* What a restriction says of a value, by itself.                          *)

(* The integers next to a number: an integer is at or below a number if it *)
(* is at or below its floor.                                               *)
Broken(v) == \E i \in DOMAIN v.frac : v.frac[i] # 0
Floor(v) == IF Broken(v) /\ v.neg THEN v.n - 1 ELSE v.n
Ceiling(v) == IF Broken(v) /\ ~v.neg THEN v.n + 1 ELSE v.n

Between(lo, hi, bound) ==
  /\ AtLeast(lo, bound["minInclusive"]) /\ AtMost(hi, bound["maxInclusive"])
  /\ Above(hi, bound["minExclusive"]) /\ Below(lo, bound["maxExclusive"])

Listed(v, l) ==
  l.enumeration # <<>> => v \in Literals(l)
ListedNumber(v, l) ==
  l.enumeration # <<>> => \E w \in Literals(l) : w.n = v.n /\ FitsLong(w)
Patterned(v, l) == l.patterns # {} => \E pattern \in l.patterns : v \in pattern
OfLength(n, l) == n \in l.length \/ ~Given(l.length)
LengthAdmits(l, n) == OfLength(n, l) /\ AtLeast(n, l.minLength) /\ AtMost(n, l.maxLength)

Admits(l, v, t) ==
  CASE t.kind \in {"string", "hex"} -> LengthAdmits(l, v.len) /\ Patterned(v, l) /\ Listed(v, l)
    [] t.kind \in {"fixed", "integer"} ->
         Between(v.n, v.n, l.bound) /\ ValidDigits(v, l) /\ Patterned(v, l) /\ ListedNumber(v, l)
    [] t.kind = "decimal" -> Between(Floor(v), Ceiling(v), l.bound) /\ ValidDigits(v, l)
    [] t.kind = "float" -> IF v.nan THEN \A b \in Bounds : ~Given(l.bound[b]) ELSE Between(v.n, v.n, l.bound)
    [] OTHER -> Between(v.at, v.at, l.other) /\ Listed(v, l)

EveryLevelAdmits(v, t) ==
  /\ \A i \in DOMAIN t.levels : Admits(t.levels[i], v, t)
  /\ t.nonNegative => ~v.neg
  /\ OfUnion(v, t)

(* The facets that are tested for a kind; the README lists the others.     *)
Unbounded(l) == \A b \in Bounds : ~Given(l.bound[b])
Plain(l) == \A b \in Bounds : ~Given(l.other[b])
Unlisted(l) == l.enumeration = <<>>
Free(l) == l.patterns = {}
AnyLength(t) == \E i \in DOMAIN t.levels : Given(t.levels[i].length)
LengthsAgree(t) ==
  \A i, j \in 1..(Len(t.levels) - 1) :
    (Given(t.levels[i].length) /\ Given(t.levels[j].length)) => t.levels[i].length = t.levels[j].length

LevelTested(l, t) ==
  CASE t.kind = "string" -> AnyLength(t) => Free(l) /\ Unlisted(l)
    [] t.kind = "hex" -> ~Given(l.minLength) /\ ~Given(l.maxLength) /\ Free(l) /\ Unlisted(l)
    [] t.kind = "fixed" -> /\ Plain(l) /\ (t.binary \/ ~Free(l) => Unlisted(l))
                           /\ (t.ignore => Free(l))
                           /\ \A k \in DOMAIN t.levels : ~Free(l) => Unlisted(t.levels[k])
    [] t.kind = "integer" -> Plain(l) /\ Free(l) /\ (t.binary => Unlisted(l))
    [] t.kind = "decimal" -> Plain(l) /\ Free(l) /\ Unlisted(l)
    [] OTHER -> Free(l)

(* The sign of a number is tested with the facets, if there are any.       *)
Tested(t) ==
  /\ LengthsAgree(t)
  /\ \A i \in DOMAIN t.levels : LevelTested(t.levels[i], t)
  /\ t.kind \in {"string", "hex", "calendar"} => \A i \in DOMAIN t.levels : Unbounded(t.levels[i])
  /\ t.nonNegative => \E i \in DOMAIN t.levels : ~Unbounded(t.levels[i])

(* The kinds of numbers, where an i64 holds the number and a zero has no   *)
(* sign.                                                                   *)
Ordinary(v, t) ==
  /\ t.kind \in {"fixed", "integer"} => FitsLong(v)
  /\ t.kind = "decimal" => ~(v.neg /\ v.n = 0 /\ ~Broken(v))

(* The merged facets admit what every restriction of the chain admits by   *)
(* itself, and nothing else; a branch or an unordered child is kept        *)
(* exactly for those values (collect_facets, validate_decoded_facets,      *)
(* validate_choice_discriminator_facets, backtrack_decoded_facets_ok).     *)
MergedSaysEvery ==
  (phase = "decoded" /\ Tested(type) /\ Ordinary(value, type)) =>
    /\ valid <=> EveryLevelAdmits(value, type)
    /\ kept /\ OfUnion(value, type) <=> valid

(* A schema is refused for the order of its facets only if no value passes *)
(* every restriction (validate_facet_range_order,                          *)
(* validate_length_facets_for_type).                                       *)
RefusesOnlyEmpty ==
  (refusal = "order" /\ Tested(type)) =>
    \A v \in Values(type) : Ordinary(v, type) => ~EveryLevelAdmits(v, type)

(* An element of implicit length that is compiled has one length, and it   *)
(* is one that every restriction allows: reading asks for it without a     *)
(* further check (implicit_facet_byte_length).                             *)
ImplicitHasLength ==
  (phase \in {"compiled", "decoded"} /\ type.implicit /\ ~type.calc /\ Sized(type) /\ LengthsAgree(type)) =>
    /\ ImplicitLength(type, eff) # {}
    /\ \A n \in ImplicitLength(type, eff), i \in DOMAIN type.levels : LengthAdmits(type.levels[i], n)
=============================================================================
