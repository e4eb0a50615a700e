----------------------------- MODULE MCFacets -----------------------------
(***************************************************************************)
(* Types and values for Facets: chains of two and three restrictions.      *)
(***************************************************************************)
EXTENDS Facets

Free0 == [b \in Bounds |-> {}]
Level0 ==
  [length |-> {}, minLength |-> {}, maxLength |-> {}, totalDigits |-> {}, fractionDigits |-> {},
   bound |-> Free0, other |-> Free0, patterns |-> {}, enumeration |-> <<>>]
Type0(kind, levels) ==
  [kind |-> kind, narrow |-> FALSE, nonNegative |-> FALSE, binary |-> FALSE, implicit |-> FALSE, calc |-> FALSE,
   ignore |-> FALSE, members |-> {}, levels |-> levels]

Pairs(L) == {<<a, b>> : a, b \in L}
Triples(L) == {<<a, b, c>> : a, b, c \in L}

(* A level with at most one bound on each side.                            *)
Sides(S, inclusive, exclusive) ==
  {<<{}, {}>>} \union {<<{x}, {}>> : x \in S} \union {<<{}, {x}>> : x \in S}
Range2(lo, hi) ==
  [minInclusive |-> lo[1], minExclusive |-> lo[2], maxInclusive |-> hi[1], maxExclusive |-> hi[2]]
Ranges(S) == {Range2(lo, hi) : lo, hi \in Sides(S, 1, 2)}
Bounded(S) == {[Level0 EXCEPT !.bound = r] : r \in Ranges(S)}
Twice == [Level0 EXCEPT !.bound["minInclusive"] = {1}, !.bound["minExclusive"] = {1}]

(* Inclusive bounds only, for chains of three.                             *)
Inclusive == {[Level0 EXCEPT !.bound["minInclusive"] = lo, !.bound["maxInclusive"] = hi] :
                lo \in {{}, {1}, {2}}, hi \in {{}, {2}, {3}}}

Num(n, frac) ==
  LET m == IF n < 0 THEN -n ELSE n IN [n |-> n, neg |-> n < 0, whole |-> DigitsOf[m], frac |-> frac]
Int0(n) == Num(n, <<>>)

Ranged ==
  {Type0(k, c) : k \in {"fixed", "integer", "float"}, c \in Pairs(Bounded({1, 3}))}
    \union {Type0("decimal", c) : c \in Pairs(Bounded({-1, 10}))}
    \union {Type0("fixed", c) : c \in Triples(Inclusive)}
    \union {Type0("fixed", <<Twice, Level0>>)}
    \union {[Type0("fixed", <<l>>) EXCEPT !.narrow = TRUE] : l \in Bounded({3, 9})}
    \union {[Type0("integer", <<l>>) EXCEPT !.nonNegative = TRUE] : l \in Bounded({-1, 1})}
    \union {Type0("calendar", <<[Level0 EXCEPT !.other = a.bound], [Level0 EXCEPT !.other = b.bound]>>) :
              a, b \in Bounded({1, 3})}

Digit == {[Level0 EXCEPT !.totalDigits = t, !.fractionDigits = f] : t \in {{}, {0}, {1}, {2}}, f \in {{}, {0}, {1}}}
Digital == {Type0(k, c) : k \in {"decimal", "fixed", "integer"}, c \in Pairs(Digit)}

Lists(a, b) == {<<>>, <<a>>, <<b>>, <<a, b>>, <<a, a>>}
Listing(a, b) == {[Level0 EXCEPT !.enumeration = e] : e \in Lists(a, b)}
At(n) == [at |-> n]
Text(s, n) == [s |-> s, len |-> n]
Texts == {Text("", 0), Text("a", 1), Text("b", 1), Text("aa", 2), Text("bb", 2), Text("aab", 3)}
Letters == {Text("a", 1), Text("aa", 2)}
Shorts == {t \in Texts : t.len <= 1}
Listings ==
  {Type0(k, c) : k \in {"fixed", "integer"}, c \in Triples(Listing(Int0(1), Int0(2)))}
    \union {Type0("calendar", c) : c \in Pairs(Listing(At(1), At(2)))}
    \union {Type0("string", c) : c \in Triples(Listing(Text("a", 1), Text("aa", 2)))}
    \union {Type0("string", <<a, b>>) : a \in {[l EXCEPT !.patterns = {Letters}] : l \in Listing(Text("a", 1), Text("b", 1))},
                                         b \in {[l EXCEPT !.patterns = p] : l \in Listing(Text("a", 1), Text("b", 1)),
                                                                           p \in {{}, {Shorts}, {Shorts, Letters}}}}
    \union {[Type0("fixed", <<[Level0 EXCEPT !.patterns = {{Int0(1), Int0(12)}}], l>>) EXCEPT !.binary = y, !.ignore = i] :
              l \in Bounded({3}), y, i \in BOOLEAN}

Long == {[Level0 EXCEPT !.length = n, !.minLength = lo, !.maxLength = hi] :
           n \in {{}, {1}, {2}}, lo \in {{}, {1}, {2}}, hi \in {{}, {1}, {2}}}
Lengthy ==
  {[Type0(k, c) EXCEPT !.implicit = i, !.calc = e] : k \in {"string", "hex"}, c \in Pairs(Long), i, e \in BOOLEAN}
    \union {Type0("string", c) : c \in Triples({l \in Long : Given(l.length) => ~Given(l.minLength) /\ ~Given(l.maxLength)})}
    \union {Type0("fixed", <<l>>) : l \in Long}

Members == {<<[Level0 EXCEPT !.minLength = {lo}, !.maxLength = {hi}]>> : lo, hi \in 1..2}
Unions ==
  {[Type0("string", <<[Level0 EXCEPT !.patterns = p]>>) EXCEPT !.members = {m, n}] :
     p \in {{}, {Letters}}, m, n \in Members}

MCTypes == Ranged \union Digital \union Listings \union Lengthy \union Unions

MCMinLong == -20
MCNarrow == -4..4

MCValues(t) ==
  CASE t.kind = "string" -> Texts
    [] t.kind = "hex" -> {[len |-> n] : n \in 0..3}
    [] t.kind = "calendar" -> {At(n) : n \in 0..4}
    [] t.kind = "float" -> {[n |-> n, nan |-> FALSE] : n \in 0..4} \union {[n |-> 0, nan |-> TRUE]}
    [] t.kind = "decimal" -> {Num(n, f) : n \in {-11, -2, -1, 0, 9, 10, 11}, f \in {<<>>, <<0>>, <<5>>, <<0, 5>>}}
                               \union {[Num(0, f) EXCEPT !.neg = TRUE] : f \in {<<>>, <<5>>}}
    [] OTHER -> {Int0(n) : n \in {-1, 0, 1, 2, 3, 4, 12, 30}}
=============================================================================
