-------------------------- MODULE Facets_proofs --------------------------
(***************************************************************************)
(* Proofs about Facets, for every chain of restrictions: the merged facets *)
(* say what the restrictions say one by one, a schema is refused for the   *)
(* order of its facets only if no value is left, and an implicit length is *)
(* one length that every restriction allows.                               *)
(***************************************************************************)
EXTENDS Facets, FiniteSetTheorems, TLAPS

----------------------------------------------------------------------------
(* One facet along a chain.  S[i] is what the i-th restriction has of it;  *)
(* F says what the first k say together.                                   *)

Lower(F, S, k) ==
  /\ Optional(F, Int)
  /\ \A x \in Int : AtLeast(x, F) <=> \A i \in 1..k : AtLeast(x, S[i])
  /\ \A x \in Int : Above(x, F) <=> \A i \in 1..k : Above(x, S[i])
  /\ F = {} <=> \A i \in 1..k : S[i] = {}

Upper(F, S, k) ==
  /\ Optional(F, Int)
  /\ \A x \in Int : AtMost(x, F) <=> \A i \in 1..k : AtMost(x, S[i])
  /\ \A x \in Int : Below(x, F) <=> \A i \in 1..k : Below(x, S[i])
  /\ F = {} <=> \A i \in 1..k : S[i] = {}

(* A facet that is given is one number.                                    *)
LEMMA OptionalIs ==
  ASSUME NEW F, Optional(F, Int), F # {}
  PROVE  \E x \in Int : F = {x}
<1> PICK x \in F : TRUE
  OBVIOUS
<1>1. x \in Int /\ F = {x}
  BY DEF Optional
<1> QED BY <1>1

(* A single number is an optional facet.                                   *)
LEMMA OptionalOne ==
  ASSUME NEW x \in Int
  PROVE  Optional({x}, Int)
BY DEF Optional

(* The greatest of two lower bounds says what both say.                    *)
LEMMA GreatestOfTwo ==
  ASSUME NEW F, NEW G, NEW H, Optional(F, Int), Optional(G, Int), H = Greatest(F \union G)
  PROVE  /\ Optional(H, Int)
         /\ \A x \in Int : AtLeast(x, H) <=> AtLeast(x, F) /\ AtLeast(x, G)
         /\ \A x \in Int : Above(x, H) <=> Above(x, F) /\ Above(x, G)
         /\ H = {} <=> F = {} /\ G = {}
<1>1. CASE F = {} /\ G = {}
  <2>1. H = {}
    BY <1>1 DEF Greatest
  <2> QED BY <1>1, <2>1 DEF Optional, AtLeast, Above
<1>2. CASE F # {} /\ G = {}
  <2> PICK a \in Int : F = {a}
    BY <1>2, OptionalIs
  <2>1. H = {a}
    BY <1>2 DEF Greatest
  <2> QED BY <1>2, <2>1 DEF Optional, AtLeast, Above
<1>3. CASE F = {} /\ G # {}
  <2> PICK b \in Int : G = {b}
    BY <1>3, OptionalIs
  <2>1. H = {b}
    BY <1>3 DEF Greatest
  <2> QED BY <1>3, <2>1 DEF Optional, AtLeast, Above
<1>4. CASE F # {} /\ G # {}
  <2> PICK a \in Int : F = {a}
    BY <1>4, OptionalIs
  <2> PICK b \in Int : G = {b}
    BY <1>4, OptionalIs
  <2>1. \E c \in Int : H = {c} /\ c >= a /\ c >= b /\ c \in {a, b}
    <3>1. CASE a >= b
      <4>1. H = {a}
        BY <3>1 DEF Greatest
      <4> QED BY <4>1, <3>1
    <3>2. CASE b > a
      <4>1. H = {b}
        BY <3>2 DEF Greatest
      <4> QED BY <4>1, <3>2
    <3>3. a >= b \/ b > a
      OBVIOUS
    <3> QED BY <3>1, <3>2, <3>3
  <2> PICK c \in Int : H = {c} /\ c >= a /\ c >= b /\ c \in {a, b}
    BY <2>1
  <2>2. Optional(H, Int)
    BY OptionalOne
  <2>3. ASSUME NEW x \in Int
        PROVE  AtLeast(x, H) <=> AtLeast(x, F) /\ AtLeast(x, G)
    BY DEF AtLeast
  <2>4. ASSUME NEW x \in Int
        PROVE  Above(x, H) <=> Above(x, F) /\ Above(x, G)
    BY DEF Above
  <2>5. H # {} /\ F # {} /\ G # {}
    OBVIOUS
  <2> QED BY <2>2, <2>3, <2>4, <2>5
<1> QED BY <1>1, <1>2, <1>3, <1>4

(* The least of two upper bounds says what both say.                       *)
LEMMA LeastOfTwo ==
  ASSUME NEW F, NEW G, NEW H, Optional(F, Int), Optional(G, Int), H = Least(F \union G)
  PROVE  /\ Optional(H, Int)
         /\ \A x \in Int : AtMost(x, H) <=> AtMost(x, F) /\ AtMost(x, G)
         /\ \A x \in Int : Below(x, H) <=> Below(x, F) /\ Below(x, G)
         /\ H = {} <=> F = {} /\ G = {}
<1>1. CASE F = {} /\ G = {}
  <2>1. H = {}
    BY <1>1 DEF Least
  <2> QED BY <1>1, <2>1 DEF Optional, AtMost, Below
<1>2. CASE F # {} /\ G = {}
  <2> PICK a \in Int : F = {a}
    BY <1>2, OptionalIs
  <2>1. H = {a}
    BY <1>2 DEF Least
  <2> QED BY <1>2, <2>1 DEF Optional, AtMost, Below
<1>3. CASE F = {} /\ G # {}
  <2> PICK b \in Int : G = {b}
    BY <1>3, OptionalIs
  <2>1. H = {b}
    BY <1>3 DEF Least
  <2> QED BY <1>3, <2>1 DEF Optional, AtMost, Below
<1>4. CASE F # {} /\ G # {}
  <2> PICK a \in Int : F = {a}
    BY <1>4, OptionalIs
  <2> PICK b \in Int : G = {b}
    BY <1>4, OptionalIs
  <2>1. \E c \in Int : H = {c} /\ c <= a /\ c <= b /\ c \in {a, b}
    <3>1. CASE a <= b
      <4>1. H = {a}
        BY <3>1 DEF Least
      <4> QED BY <4>1, <3>1
    <3>2. CASE b < a
      <4>1. H = {b}
        BY <3>2 DEF Least
      <4> QED BY <4>1, <3>2
    <3>3. a <= b \/ b < a
      OBVIOUS
    <3> QED BY <3>1, <3>2, <3>3
  <2> PICK c \in Int : H = {c} /\ c <= a /\ c <= b /\ c \in {a, b}
    BY <2>1
  <2>2. Optional(H, Int)
    BY OptionalOne
  <2>3. ASSUME NEW x \in Int
        PROVE  AtMost(x, H) <=> AtMost(x, F) /\ AtMost(x, G)
    BY DEF AtMost
  <2>4. ASSUME NEW x \in Int
        PROVE  Below(x, H) <=> Below(x, F) /\ Below(x, G)
    BY DEF Below
  <2>5. H # {} /\ F # {} /\ G # {}
    OBVIOUS
  <2> QED BY <2>2, <2>3, <2>4, <2>5
<1> QED BY <1>1, <1>2, <1>3, <1>4

(* One more lower bound merged.                                            *)
LEMMA LowerStep ==
  ASSUME NEW k \in Nat, NEW F, NEW S, Lower(F, S, k), Optional(S[k + 1], Int)
  PROVE  Lower(Greatest(F \union S[k + 1]), S, k + 1)
<1> DEFINE G == S[k + 1]
<1> DEFINE H == Greatest(F \union G)
<1>1. Optional(F, Int) /\ Optional(G, Int)
  BY DEF Lower
<1> HIDE DEF G
<1>2. /\ Optional(H, Int)
      /\ \A x \in Int : AtLeast(x, H) <=> AtLeast(x, F) /\ AtLeast(x, G)
      /\ \A x \in Int : Above(x, H) <=> Above(x, F) /\ Above(x, G)
      /\ H = {} <=> F = {} /\ G = {}
  BY <1>1, GreatestOfTwo
<1> HIDE DEF H
<1>3. 1..(k + 1) = (1..k) \union {k + 1}
  OBVIOUS
<1>4. Lower(H, S, k + 1)
  BY <1>2, <1>3 DEF Lower, G
<1> QED BY <1>4 DEF H, G

(* One more upper bound merged.                                            *)
LEMMA UpperStep ==
  ASSUME NEW k \in Nat, NEW F, NEW S, Upper(F, S, k), Optional(S[k + 1], Int)
  PROVE  Upper(Least(F \union S[k + 1]), S, k + 1)
<1> DEFINE G == S[k + 1]
<1> DEFINE H == Least(F \union G)
<1>1. Optional(F, Int) /\ Optional(G, Int)
  BY DEF Upper
<1> HIDE DEF G
<1>2. /\ Optional(H, Int)
      /\ \A x \in Int : AtMost(x, H) <=> AtMost(x, F) /\ AtMost(x, G)
      /\ \A x \in Int : Below(x, H) <=> Below(x, F) /\ Below(x, G)
      /\ H = {} <=> F = {} /\ G = {}
  BY <1>1, LeastOfTwo
<1> HIDE DEF H
<1>3. 1..(k + 1) = (1..k) \union {k + 1}
  OBVIOUS
<1>4. Upper(H, S, k + 1)
  BY <1>2, <1>3 DEF Upper, G
<1> QED BY <1>4 DEF H, G

(* Nothing is said of no restrictions.                                     *)
LEMMA NothingSaid ==
  ASSUME NEW S
  PROVE  Lower({}, S, 0) /\ Upper({}, S, 0)
BY DEF Lower, Upper, Optional, AtLeast, AtMost, Above, Below

----------------------------------------------------------------------------
(* The facets merged from the first k restrictions.                        *)

MinLengths(t) == [i \in DOMAIN t.levels |-> t.levels[i].minLength]
MaxLengths(t) == [i \in DOMAIN t.levels |-> t.levels[i].maxLength]
TotalLimits(t) == [i \in DOMAIN t.levels |-> t.levels[i].totalDigits]
FractionLimits(t) == [i \in DOMAIN t.levels |-> t.levels[i].fractionDigits]
Limits(t, b) == [i \in DOMAIN t.levels |-> t.levels[i].bound[b]]
OtherLimits(t, b) == [i \in DOMAIN t.levels |-> t.levels[i].other[b]]

Limited(bound, t, k) ==
  \A b \in Bounds : IF b \in Lowest THEN Lower(bound[b], Limits(t, b), k) ELSE Upper(bound[b], Limits(t, b), k)
OtherLimited(other, t, k) ==
  \A b \in Bounds :
    IF b \in Lowest THEN Lower(other[b], OtherLimits(t, b), k) ELSE Upper(other[b], OtherLimits(t, b), k)

(* The length is that of one restriction; there is a last one that gives a *)
(* length, if any does.                                                    *)
SaysLength(t, k, length) ==
  /\ length = {} => \A i \in 1..k : t.levels[i].length = {}
  /\ length # {} => \E i \in 1..k : t.levels[i].length = length
LastLength(t, k) ==
  (\E i \in 1..k : Given(t.levels[i].length)) =>
    \E j \in 1..k : Given(t.levels[j].length) /\ \A i \in (j + 1)..k : ~Given(t.levels[i].length)

(* The enumeration is that of the last restriction with one, and every     *)
(* restriction with one has its literals.                                  *)
SaysEnumeration(t, k, enumeration) ==
  /\ enumeration = {} => \A i \in 1..k : t.levels[i].enumeration = <<>>
  /\ enumeration # {} =>
       \E j \in 1..k : /\ t.levels[j].enumeration # <<>>
                       /\ \A i \in (j + 1)..k : t.levels[i].enumeration = <<>>
                       /\ enumeration = Literals(t.levels[j])
  /\ \A i \in 1..k : t.levels[i].enumeration # <<>> => enumeration \subseteq Literals(t.levels[i])

Says(t, k, f) ==
  /\ DOMAIN f = DOMAIN NoFacets
  /\ Lower(f.minLength, MinLengths(t), k) /\ Upper(f.maxLength, MaxLengths(t), k)
  /\ Upper(f.totalDigits, TotalLimits(t), k) /\ Upper(f.fractionDigits, FractionLimits(t), k)
  /\ Limited(f.bound, t, k) /\ OtherLimited(f.other, t, k)
  /\ f.patterns = {t.levels[i].patterns : i \in 1..k} \ {{}}
  /\ SaysLength(t, k, f.length) /\ SaysEnumeration(t, k, f.enumeration)
  /\ \A m \in 0..k : LastLength(t, m)

(* The restrictions of a type are numbered from 1.                         *)
LEMMA Levels ==
  ASSUME NEW t \in Types
  PROVE  /\ Len(t.levels) \in Nat \ {0} /\ DOMAIN t.levels = 1..Len(t.levels)
         /\ \A i \in 1..Len(t.levels) : IsLevel(t.levels[i])
<1> DEFINE s == t.levels
<1>1. s \in Seq({s[i] : i \in DOMAIN s}) /\ s # <<>>
  BY TypesAssumption DEF IsType
<1>2. \A i \in DOMAIN s : IsLevel(s[i])
  BY TypesAssumption DEF IsType
<1> HIDE DEF s
<1>3. DOMAIN s = 1..Len(s) /\ Len(s) \in Nat /\ Len(s) # 0
  BY <1>1
<1>4. Len(s) \in Nat \ {0}
  BY <1>3
<1> QED BY <1>2, <1>3, <1>4 DEF s

(* An enumeration that is not empty has a literal.                         *)
LEMMA SomeLiteral ==
  ASSUME NEW l, IsLevel(l)
  PROVE  Literals(l) = {} <=> l.enumeration = <<>>
<1>1. l.enumeration \in Seq({l.enumeration[i] : i \in DOMAIN l.enumeration})
  BY DEF IsLevel
<1>2. l.enumeration = <<>> <=> Len(l.enumeration) = 0
  BY <1>1
<1>3. DOMAIN l.enumeration = 1..Len(l.enumeration) /\ Len(l.enumeration) \in Nat
  BY <1>1
<1>4. CASE l.enumeration = <<>>
  BY <1>2, <1>3, <1>4 DEF Literals
<1>5. CASE l.enumeration # <<>>
  <2>1. 1 \in DOMAIN l.enumeration
    BY <1>2, <1>3, <1>5
  <2> QED BY <2>1, <1>5 DEF Literals
<1> QED BY <1>4, <1>5

(* Before the base is merged, nothing is said.                             *)
LEMMA SaysNothing ==
  ASSUME NEW t \in Types
  PROVE  Says(t, 0, NoFacets)
<1>1. Lower({}, MinLengths(t), 0) /\ Upper({}, MaxLengths(t), 0) /\ Upper({}, TotalLimits(t), 0)
      /\ Upper({}, FractionLimits(t), 0)
  BY NothingSaid
<1>2. Limited(NoFacets.bound, t, 0) /\ OtherLimited(NoFacets.other, t, 0)
  BY NothingSaid DEF NoFacets, Limited, OtherLimited
<1>3. SaysLength(t, 0, {}) /\ SaysEnumeration(t, 0, {}) /\ \A m \in 0..0 : LastLength(t, m)
  BY DEF SaysLength, SaysEnumeration, LastLength
<1>4. {t.levels[i].patterns : i \in 1..0} \ {{}} = {}
  OBVIOUS
<1> QED BY <1>1, <1>2, <1>3, <1>4 DEF Says, NoFacets

(* The bounds of one more restriction merged.                              *)
LEMMA BoundsMerged ==
  ASSUME NEW t \in Types, NEW k \in Nat, k + 1 <= Len(t.levels), NEW f, Says(t, k, f)
  PROVE  LET l == t.levels[k + 1] IN
         /\ Limited(MergeBounds(f.bound, l.bound), t, k + 1)
         /\ OtherLimited(MergeBounds(f.other, l.other), t, k + 1)
<1> DEFINE l == t.levels[k + 1]
<1>1. IsLevel(l) /\ k + 1 \in DOMAIN t.levels
  BY Levels
<1>2. ASSUME NEW b \in Bounds
      PROVE  /\ Limits(t, b)[k + 1] = l.bound[b] /\ OtherLimits(t, b)[k + 1] = l.other[b]
             /\ Optional(l.bound[b], Int) /\ Optional(l.other[b], Int)
  BY <1>1 DEF IsLevel, Limits, OtherLimits
<1>3. ASSUME NEW b \in Bounds, b \in Lowest
      PROVE  /\ Lower(MergeBounds(f.bound, l.bound)[b], Limits(t, b), k + 1)
             /\ Lower(MergeBounds(f.other, l.other)[b], OtherLimits(t, b), k + 1)
  <2>1. Lower(f.bound[b], Limits(t, b), k) /\ Lower(f.other[b], OtherLimits(t, b), k)
    BY <1>3 DEF Says, Limited, OtherLimited
  <2>2. /\ Lower(Greatest(f.bound[b] \union l.bound[b]), Limits(t, b), k + 1)
        /\ Lower(Greatest(f.other[b] \union l.other[b]), OtherLimits(t, b), k + 1)
    BY <2>1, <1>2, LowerStep
  <2> QED BY <2>2, <1>3 DEF MergeBounds, MergeBound
<1>4. ASSUME NEW b \in Bounds, b \notin Lowest
      PROVE  /\ Upper(MergeBounds(f.bound, l.bound)[b], Limits(t, b), k + 1)
             /\ Upper(MergeBounds(f.other, l.other)[b], OtherLimits(t, b), k + 1)
  <2>1. Upper(f.bound[b], Limits(t, b), k) /\ Upper(f.other[b], OtherLimits(t, b), k)
    BY <1>4 DEF Says, Limited, OtherLimited
  <2>2. /\ Upper(Least(f.bound[b] \union l.bound[b]), Limits(t, b), k + 1)
        /\ Upper(Least(f.other[b] \union l.other[b]), OtherLimits(t, b), k + 1)
    BY <2>1, <1>2, UpperStep
  <2> QED BY <2>2, <1>4 DEF MergeBounds, MergeBound
<1> QED BY <1>3, <1>4 DEF Limited, OtherLimited

(* The lengths and digits of one more restriction merged.                  *)
LEMMA NumbersMerged ==
  ASSUME NEW t \in Types, NEW k \in Nat, k + 1 <= Len(t.levels), NEW f, Says(t, k, f)
  PROVE  LET l == t.levels[k + 1] IN
         /\ Lower(Greatest(f.minLength \union l.minLength), MinLengths(t), k + 1)
         /\ Upper(Least(f.maxLength \union l.maxLength), MaxLengths(t), k + 1)
         /\ Upper(Least(f.totalDigits \union l.totalDigits), TotalLimits(t), k + 1)
         /\ Upper(Least(f.fractionDigits \union l.fractionDigits), FractionLimits(t), k + 1)
<1> DEFINE l == t.levels[k + 1]
<1>1. IsLevel(l) /\ k + 1 \in DOMAIN t.levels
  BY Levels
<1>2. /\ Optional(l.minLength, Int) /\ Optional(l.maxLength, Int)
      /\ Optional(l.totalDigits, Int) /\ Optional(l.fractionDigits, Int)
  <2>1. \A F : Optional(F, Nat) => Optional(F, Int)
    BY DEF Optional
  <2> QED BY <1>1, <2>1 DEF IsLevel
<1>3. /\ MinLengths(t)[k + 1] = l.minLength /\ MaxLengths(t)[k + 1] = l.maxLength
      /\ TotalLimits(t)[k + 1] = l.totalDigits /\ FractionLimits(t)[k + 1] = l.fractionDigits
  BY <1>1 DEF MinLengths, MaxLengths, TotalLimits, FractionLimits
<1>4. /\ Lower(f.minLength, MinLengths(t), k) /\ Upper(f.maxLength, MaxLengths(t), k)
      /\ Upper(f.totalDigits, TotalLimits(t), k) /\ Upper(f.fractionDigits, FractionLimits(t), k)
  BY DEF Says
<1> HIDE DEF l
<1>5. Lower(Greatest(f.minLength \union l.minLength), MinLengths(t), k + 1)
  BY <1>2, <1>3, <1>4, LowerStep
<1>6. Upper(Least(f.maxLength \union l.maxLength), MaxLengths(t), k + 1)
  BY <1>2, <1>3, <1>4, UpperStep
<1>7. Upper(Least(f.totalDigits \union l.totalDigits), TotalLimits(t), k + 1)
  BY <1>2, <1>3, <1>4, UpperStep
<1>8. Upper(Least(f.fractionDigits \union l.fractionDigits), FractionLimits(t), k + 1)
  BY <1>2, <1>3, <1>4, UpperStep
<1> QED BY <1>5, <1>6, <1>7, <1>8 DEF l

(* The length of one more restriction merged.                              *)
LEMMA LengthMerged ==
  ASSUME NEW t \in Types, NEW k \in Nat, k + 1 <= Len(t.levels), NEW f, Says(t, k, f)
  PROVE  LET l == t.levels[k + 1] IN
         /\ SaysLength(t, k + 1, MergeLength(f.length, l.length))
         /\ \A m \in 0..(k + 1) : LastLength(t, m)
<1> DEFINE l == t.levels[k + 1]
<1>0. 1..(k + 1) = (1..k) \union {k + 1}
  OBVIOUS
<1>1. CASE l.length # {}
  <2>1. SaysLength(t, k + 1, MergeLength(f.length, l.length))
    BY <1>0, <1>1 DEF SaysLength, MergeLength, Given
  <2>2. LastLength(t, k + 1)
    <3>1. (k + 2)..(k + 1) = {}
      OBVIOUS
    <3> QED BY <1>1, <3>1 DEF LastLength, Given
  <2> QED BY <2>1, <2>2 DEF Says
<1>2. CASE l.length = {}
  <2>1. SaysLength(t, k + 1, MergeLength(f.length, l.length))
    BY <1>0, <1>2 DEF Says, SaysLength, MergeLength, Given
  <2>2. LastLength(t, k)
    BY DEF Says
  <2>3. LastLength(t, k + 1)
    <3> SUFFICES ASSUME \E i \in 1..(k + 1) : Given(t.levels[i].length)
                 PROVE  \E j \in 1..(k + 1) : /\ Given(t.levels[j].length)
                                              /\ \A i \in (j + 1)..(k + 1) : ~Given(t.levels[i].length)
      BY DEF LastLength
    <3>1. \E i \in 1..k : Given(t.levels[i].length)
      BY <1>0, <1>2 DEF Given
    <3> PICK j \in 1..k : Given(t.levels[j].length) /\ \A i \in (j + 1)..k : ~Given(t.levels[i].length)
      BY <3>1, <2>2 DEF LastLength
    <3>2. \A i \in (j + 1)..(k + 1) : i \in (j + 1)..k \/ i = k + 1
      OBVIOUS
    <3>3. \A i \in (j + 1)..(k + 1) : ~Given(t.levels[i].length)
      BY <3>2, <1>2 DEF Given
    <3> QED BY <3>3
  <2> QED BY <2>1, <2>3 DEF Says
<1> QED BY <1>1, <1>2

(* The enumeration of one more restriction merged: its literals are the    *)
(* base's.                                                                 *)
LEMMA EnumerationMerged ==
  ASSUME NEW t \in Types, NEW k \in Nat, k + 1 <= Len(t.levels), NEW f, Says(t, k, f),
         ~LevelRefused(t, k + 1)
  PROVE  LET l == t.levels[k + 1] IN
         SaysEnumeration(t, k + 1, IF l.enumeration # <<>> THEN Literals(l) ELSE f.enumeration)
<1> DEFINE l == t.levels[k + 1]
<1>0. 1..(k + 1) = (1..k) \union {k + 1}
  OBVIOUS
<1>1. SaysEnumeration(t, k, f.enumeration)
  BY DEF Says
<1>2. IsLevel(l)
  BY Levels
<1>3. CASE l.enumeration # <<>>
  <2>1. Literals(l) # {}
    BY <1>2, <1>3, SomeLiteral
  <2>2. ASSUME NEW i \in 1..k, t.levels[i].enumeration # <<>>
        PROVE  Literals(l) \subseteq Literals(t.levels[i])
    <3>1. f.enumeration # {} /\ f.enumeration \subseteq Literals(t.levels[i])
      BY <1>1, <2>2 DEF SaysEnumeration
    <3> PICK j \in 1..k : /\ t.levels[j].enumeration # <<>>
                          /\ \A m \in (j + 1)..k : t.levels[m].enumeration = <<>>
                          /\ f.enumeration = Literals(t.levels[j])
      BY <1>1, <3>1 DEF SaysEnumeration
    <3>2. j \in ParentEnumerations(t, k + 1)
      <4>1. 1..((k + 1) - 1) = 1..k /\ (j + 1)..((k + 1) - 1) = (j + 1)..k
        OBVIOUS
      <4> QED BY <4>1 DEF ParentEnumerations
    <3>3. Literals(l) \subseteq Literals(t.levels[j])
      BY <3>2 DEF LevelRefused
    <3> QED BY <3>1, <3>3
  <2>3. (k + 2)..(k + 1) = {}
    OBVIOUS
  <2>4. \E j \in 1..(k + 1) : /\ t.levels[j].enumeration # <<>>
                              /\ \A i \in (j + 1)..(k + 1) : t.levels[i].enumeration = <<>>
                              /\ Literals(l) = Literals(t.levels[j])
    <3>1. k + 1 \in 1..(k + 1) /\ (k + 1) + 1 = k + 2
      OBVIOUS
    <3>2. \A i \in ((k + 1) + 1)..(k + 1) : t.levels[i].enumeration = <<>>
      BY <2>3, <3>1
    <3> QED BY <1>3, <3>1, <3>2
  <2> QED BY <1>0, <1>3, <2>1, <2>2, <2>4 DEF SaysEnumeration
<1>4. CASE l.enumeration = <<>>
  <2>1. f.enumeration = {} => \A i \in 1..(k + 1) : t.levels[i].enumeration = <<>>
    BY <1>0, <1>1, <1>4 DEF SaysEnumeration
  <2>2. f.enumeration # {} =>
          \E j \in 1..(k + 1) : /\ t.levels[j].enumeration # <<>>
                                /\ \A i \in (j + 1)..(k + 1) : t.levels[i].enumeration = <<>>
                                /\ f.enumeration = Literals(t.levels[j])
    <3> HAVE f.enumeration # {}
    <3> PICK j \in 1..k : /\ t.levels[j].enumeration # <<>>
                          /\ \A m \in (j + 1)..k : t.levels[m].enumeration = <<>>
                          /\ f.enumeration = Literals(t.levels[j])
      BY <1>1 DEF SaysEnumeration
    <3>1. \A i \in (j + 1)..(k + 1) : i \in (j + 1)..k \/ i = k + 1
      OBVIOUS
    <3>2. \A i \in (j + 1)..(k + 1) : t.levels[i].enumeration = <<>>
      BY <3>1, <1>4
    <3> QED BY <3>2
  <2>3. \A i \in 1..(k + 1) : t.levels[i].enumeration # <<>> => f.enumeration \subseteq Literals(t.levels[i])
    BY <1>0, <1>1, <1>4 DEF SaysEnumeration
  <2> QED BY <1>4, <2>1, <2>2, <2>3 DEF SaysEnumeration
<1> QED BY <1>3, <1>4

(* One more restriction merged.                                            *)
LEMMA SaysMore ==
  ASSUME NEW t \in Types, NEW k \in Nat, k + 1 <= Len(t.levels), NEW f, Says(t, k, f),
         ~LevelRefused(t, k + 1)
  PROVE  Says(t, k + 1, Merged(f, t.levels[k + 1]))
<1> DEFINE l == t.levels[k + 1]
<1> DEFINE g == Merged(f, l)
<1>1. /\ Limited(g.bound, t, k + 1) /\ OtherLimited(g.other, t, k + 1)
  BY BoundsMerged DEF Merged
<1>2. /\ Lower(g.minLength, MinLengths(t), k + 1) /\ Upper(g.maxLength, MaxLengths(t), k + 1)
      /\ Upper(g.totalDigits, TotalLimits(t), k + 1) /\ Upper(g.fractionDigits, FractionLimits(t), k + 1)
  BY NumbersMerged DEF Merged
<1>3. SaysLength(t, k + 1, g.length) /\ \A m \in 0..(k + 1) : LastLength(t, m)
  BY LengthMerged DEF Merged
<1>4. SaysEnumeration(t, k + 1, g.enumeration)
  BY EnumerationMerged DEF Merged
<1>5. g.patterns = {t.levels[i].patterns : i \in 1..(k + 1)} \ {{}}
  <2>1. f.patterns = {t.levels[i].patterns : i \in 1..k} \ {{}}
    BY DEF Says
  <2>2. g.patterns = f.patterns \union ({l.patterns} \ {{}})
    BY DEF Merged
  <2>3. 1..(k + 1) = (1..k) \union {k + 1}
    OBVIOUS
  <2> QED BY <2>1, <2>2, <2>3
<1>6. DOMAIN g = DOMAIN NoFacets
  BY DEF Merged, NoFacets
<1> QED BY <1>1, <1>2, <1>3, <1>4, <1>5, <1>6 DEF Says

----------------------------------------------------------------------------
(* What the merged facets say, test by test, is what the restrictions say. *)

Every(t) == 1..Len(t.levels)

(* Both bounds of a column.                                                *)
LEMMA BoundSays ==
  ASSUME NEW t \in Types, NEW f, Says(t, Len(t.levels), f), NEW b \in Bounds
  PROVE  /\ f.bound[b] = {} <=> \A i \in Every(t) : t.levels[i].bound[b] = {}
         /\ b \in Lowest => \A x \in Int :
              /\ AtLeast(x, f.bound[b]) <=> \A i \in Every(t) : AtLeast(x, t.levels[i].bound[b])
              /\ Above(x, f.bound[b]) <=> \A i \in Every(t) : Above(x, t.levels[i].bound[b])
         /\ b \notin Lowest => \A x \in Int :
              /\ AtMost(x, f.bound[b]) <=> \A i \in Every(t) : AtMost(x, t.levels[i].bound[b])
              /\ Below(x, f.bound[b]) <=> \A i \in Every(t) : Below(x, t.levels[i].bound[b])
<1>1. \A i \in Every(t) : Limits(t, b)[i] = t.levels[i].bound[b]
  BY Levels DEF Limits, Every
<1>2. IF b \in Lowest THEN Lower(f.bound[b], Limits(t, b), Len(t.levels))
                      ELSE Upper(f.bound[b], Limits(t, b), Len(t.levels))
  BY DEF Says, Limited
<1>3. CASE b \in Lowest
  BY <1>1, <1>2, <1>3 DEF Lower, Every
<1>4. CASE b \notin Lowest
  BY <1>1, <1>2, <1>4 DEF Upper, Every
<1> QED BY <1>3, <1>4

(* The same of the bounds that are no integers.                            *)
LEMMA OtherSays ==
  ASSUME NEW t \in Types, NEW f, Says(t, Len(t.levels), f), NEW b \in Bounds
  PROVE  /\ b \in Lowest => \A x \in Int :
              /\ AtLeast(x, f.other[b]) <=> \A i \in Every(t) : AtLeast(x, t.levels[i].other[b])
              /\ Above(x, f.other[b]) <=> \A i \in Every(t) : Above(x, t.levels[i].other[b])
         /\ b \notin Lowest => \A x \in Int :
              /\ AtMost(x, f.other[b]) <=> \A i \in Every(t) : AtMost(x, t.levels[i].other[b])
              /\ Below(x, f.other[b]) <=> \A i \in Every(t) : Below(x, t.levels[i].other[b])
<1>1. \A i \in Every(t) : OtherLimits(t, b)[i] = t.levels[i].other[b]
  BY Levels DEF OtherLimits, Every
<1>2. IF b \in Lowest THEN Lower(f.other[b], OtherLimits(t, b), Len(t.levels))
                      ELSE Upper(f.other[b], OtherLimits(t, b), Len(t.levels))
  BY DEF Says, OtherLimited
<1>3. CASE b \in Lowest
  BY <1>1, <1>2, <1>3 DEF Lower, Every
<1>4. CASE b \notin Lowest
  BY <1>1, <1>2, <1>4 DEF Upper, Every
<1> QED BY <1>3, <1>4

(* A number is within the merged bounds if it is within every              *)
(* restriction's; lo and hi are the integers next to it.                   *)
LEMMA BetweenSays ==
  ASSUME NEW t \in Types, NEW f, Says(t, Len(t.levels), f), NEW lo \in Int, NEW hi \in Int
  PROVE  /\ Between(lo, hi, f.bound) <=> \A i \in Every(t) : Between(lo, hi, t.levels[i].bound)
         /\ Between(lo, hi, f.other) <=> \A i \in Every(t) : Between(lo, hi, t.levels[i].other)
<1>1. /\ "minInclusive" \in Bounds \intersect Lowest /\ "minExclusive" \in Bounds \intersect Lowest
      /\ "maxInclusive" \in Bounds \ Lowest /\ "maxExclusive" \in Bounds \ Lowest
  BY DEF Bounds, Lowest
<1>2. /\ AtLeast(lo, f.bound["minInclusive"]) <=> \A i \in Every(t) : AtLeast(lo, t.levels[i].bound["minInclusive"])
      /\ AtMost(hi, f.bound["maxInclusive"]) <=> \A i \in Every(t) : AtMost(hi, t.levels[i].bound["maxInclusive"])
      /\ Above(hi, f.bound["minExclusive"]) <=> \A i \in Every(t) : Above(hi, t.levels[i].bound["minExclusive"])
      /\ Below(lo, f.bound["maxExclusive"]) <=> \A i \in Every(t) : Below(lo, t.levels[i].bound["maxExclusive"])
  BY <1>1, BoundSays
<1>3. /\ AtLeast(lo, f.other["minInclusive"]) <=> \A i \in Every(t) : AtLeast(lo, t.levels[i].other["minInclusive"])
      /\ AtMost(hi, f.other["maxInclusive"]) <=> \A i \in Every(t) : AtMost(hi, t.levels[i].other["maxInclusive"])
      /\ Above(hi, f.other["minExclusive"]) <=> \A i \in Every(t) : Above(hi, t.levels[i].other["minExclusive"])
      /\ Below(lo, f.other["maxExclusive"]) <=> \A i \in Every(t) : Below(lo, t.levels[i].other["maxExclusive"])
  BY <1>1, OtherSays
<1>4. Between(lo, hi, f.bound) <=> \A i \in Every(t) : Between(lo, hi, t.levels[i].bound)
  BY <1>2 DEF Between
<1>5. Between(lo, hi, f.other) <=> \A i \in Every(t) : Between(lo, hi, t.levels[i].other)
  BY <1>3 DEF Between
<1> QED BY <1>4, <1>5

(* An integer is next to itself.                                           *)
LEMMA WithinBetween ==
  ASSUME NEW x, NEW bound
  PROVE  Within(x, bound) <=> Between(x, x, bound)
BY DEF Within, Between

(* The digits.                                                             *)
LEMMA DigitsSay ==
  ASSUME NEW t \in Types, NEW f, Says(t, Len(t.levels), f), NEW v, TotalDigits(v) \in Int, FractionDigits(v) \in Int
  PROVE  ValidDigits(v, f) <=> \A i \in Every(t) : ValidDigits(v, t.levels[i])
<1>1. \A i \in Every(t) : /\ TotalLimits(t)[i] = t.levels[i].totalDigits
                          /\ FractionLimits(t)[i] = t.levels[i].fractionDigits
  BY Levels DEF TotalLimits, FractionLimits, Every
<1>2. AtMost(TotalDigits(v), f.totalDigits) <=> \A i \in Every(t) : AtMost(TotalDigits(v), t.levels[i].totalDigits)
  BY <1>1 DEF Says, Upper, Every
<1>3. AtMost(FractionDigits(v), f.fractionDigits) <=>
        \A i \in Every(t) : AtMost(FractionDigits(v), t.levels[i].fractionDigits)
  BY <1>1 DEF Says, Upper, Every
<1> QED BY <1>2, <1>3 DEF ValidDigits

(* The limits of lengths.                                                  *)
LEMMA LimitsSay ==
  ASSUME NEW t \in Types, NEW f, Says(t, Len(t.levels), f)
  PROVE  /\ Optional(f.minLength, Int) /\ Optional(f.maxLength, Int)
         /\ f.minLength = {} <=> \A i \in Every(t) : t.levels[i].minLength = {}
         /\ f.maxLength = {} <=> \A i \in Every(t) : t.levels[i].maxLength = {}
         /\ \A n \in Int : AtLeast(n, f.minLength) <=> \A i \in Every(t) : AtLeast(n, t.levels[i].minLength)
         /\ \A n \in Int : AtMost(n, f.maxLength) <=> \A i \in Every(t) : AtMost(n, t.levels[i].maxLength)
<1>1. \A i \in Every(t) : MinLengths(t)[i] = t.levels[i].minLength /\ MaxLengths(t)[i] = t.levels[i].maxLength
  BY Levels DEF MinLengths, MaxLengths, Every
<1>2. Lower(f.minLength, MinLengths(t), Len(t.levels)) /\ Upper(f.maxLength, MaxLengths(t), Len(t.levels))
  BY DEF Says
<1> QED BY <1>1, <1>2 DEF Lower, Upper, Every

(* A length that is given is the one length of the chain, if the base's    *)
(* restrictions agree and the last restriction passed its check.           *)
LEMMA LengthSettled ==
  ASSUME NEW t \in Types, NEW f, Says(t, Len(t.levels), f), LengthsAgree(t), ~LengthDiffers(t)
  PROVE  \A i \in Every(t) : Given(t.levels[i].length) => t.levels[i].length = f.length
<1> DEFINE n == Len(t.levels)
<1>0. n \in Nat \ {0} /\ \A i \in 1..n : IsLevel(t.levels[i])
  BY Levels
<1>1. \A i, j \in 1..(n - 1) :
         Given(t.levels[i].length) /\ Given(t.levels[j].length) => t.levels[i].length = t.levels[j].length
  BY DEF LengthsAgree
<1>2. ASSUME NEW i \in 1..(n - 1), Given(t.levels[i].length), Given(t.levels[n].length)
      PROVE  t.levels[i].length = t.levels[n].length
  <2>1. LastLength(t, n - 1)
    <3>1. n - 1 \in 0..n
      BY <1>0
    <3> QED BY <3>1 DEF Says
  <2> PICK j \in 1..(n - 1) : Given(t.levels[j].length) /\ \A m \in (j + 1)..(n - 1) : ~Given(t.levels[m].length)
    BY <1>2, <2>1 DEF LastLength
  <2>2. j \in BaseLengths(t)
    BY DEF BaseLengths
  <2>3. t.levels[n].length \subseteq t.levels[j].length
    <3>1. \A x \in t.levels[Len(t.levels)].length : x \in t.levels[j].length
      BY <2>2 DEF LengthDiffers
    <3> QED BY <3>1
  <2>4. Optional(t.levels[j].length, Nat) /\ Optional(t.levels[n].length, Nat)
    <3>1. j \in 1..n /\ n \in 1..n
      BY <1>0
    <3>2. IsLevel(t.levels[j]) /\ IsLevel(t.levels[n])
      BY <1>0, <3>1
    <3> QED BY <3>2 DEF IsLevel
  <2>5. t.levels[n].length = t.levels[j].length
    BY <1>2, <2>3, <2>4 DEF Optional, Given
  <2> QED BY <1>1, <1>2, <2>5
<1>3. \A i \in 1..n : i \in 1..(n - 1) \/ i = n
  BY <1>0
<1>4. \A i, j \in 1..n :
         Given(t.levels[i].length) /\ Given(t.levels[j].length) => t.levels[i].length = t.levels[j].length
  BY <1>1, <1>2, <1>3
<1>5. SaysLength(t, n, f.length)
  BY DEF Says
<1> QED BY <1>4, <1>5 DEF SaysLength, Given, Every

(* The lengths every restriction admits.                                   *)
LEMMA LengthsSay ==
  ASSUME NEW t \in Types, NEW f, Says(t, Len(t.levels), f), LengthsAgree(t), ~LengthDiffers(t),
         ~LengthTwice(f), NEW n \in Int
  PROVE  (\A i \in Every(t) : LengthAdmits(t.levels[i], n)) <=>
           IF Given(f.length) THEN n \in f.length ELSE AtLeast(n, f.minLength) /\ AtMost(n, f.maxLength)
<1>1. \A i \in Every(t) : Given(t.levels[i].length) => t.levels[i].length = f.length
  BY LengthSettled
<1>2. SaysLength(t, Len(t.levels), f.length)
  BY DEF Says
<1>3. CASE Given(f.length)
  <2>1. f.minLength = {} /\ f.maxLength = {}
    BY <1>3 DEF LengthTwice, Given
  <2>2. \A i \in Every(t) : t.levels[i].minLength = {} /\ t.levels[i].maxLength = {}
    BY <2>1, LimitsSay
  <2>3. \A i \in Every(t) : LengthAdmits(t.levels[i], n) <=> OfLength(n, t.levels[i])
    BY <2>2 DEF LengthAdmits, AtLeast, AtMost
  <2>4. \E i \in Every(t) : t.levels[i].length = f.length
    BY <1>2, <1>3 DEF SaysLength, Given, Every
  <2>5. (\A i \in Every(t) : OfLength(n, t.levels[i])) <=> n \in f.length
    BY <1>1, <1>3, <2>4 DEF OfLength
  <2> QED BY <1>3, <2>3, <2>5
<1>4. CASE ~Given(f.length)
  <2>1. \A i \in Every(t) : OfLength(n, t.levels[i])
    BY <1>2, <1>4 DEF SaysLength, Given, OfLength, Every
  <2>2. \A i \in Every(t) : LengthAdmits(t.levels[i], n) <=>
                            AtLeast(n, t.levels[i].minLength) /\ AtMost(n, t.levels[i].maxLength)
    BY <2>1 DEF LengthAdmits
  <2> QED BY <1>4, <2>2, LimitsSay
<1> QED BY <1>3, <1>4

(* The patterns: one of every restriction's.                               *)
LEMMA PatternsSay ==
  ASSUME NEW t \in Types, NEW f, Says(t, Len(t.levels), f), NEW v
  PROVE  /\ Matches(v, f) <=> \A i \in Every(t) : Patterned(v, t.levels[i])
         /\ f.patterns = {} <=> \A i \in Every(t) : Free(t.levels[i])
<1>1. f.patterns = {t.levels[i].patterns : i \in Every(t)} \ {{}}
  BY DEF Says, Every
<1> QED BY <1>1 DEF Matches, Patterned, Free

(* The enumerations: the literals of every restriction.                    *)
LEMMA EnumerationsSay ==
  ASSUME NEW t \in Types, NEW f, Says(t, Len(t.levels), f), NEW v
  PROVE  /\ Enumerated(v, f) <=> \A i \in Every(t) : Listed(v, t.levels[i])
         /\ f.enumeration = {} <=> \A i \in Every(t) : Unlisted(t.levels[i])
         /\ (f.enumeration # {} => \E w \in f.enumeration : w.n = v.n /\ FitsLong(w)) <=>
              \A i \in Every(t) : ListedNumber(v, t.levels[i])
<1>1. SaysEnumeration(t, Len(t.levels), f.enumeration)
  BY DEF Says
<1>2. CASE f.enumeration = {}
  <2>1. \A i \in Every(t) : t.levels[i].enumeration = <<>>
    BY <1>1, <1>2 DEF SaysEnumeration, Every
  <2> QED BY <1>2, <2>1 DEF Enumerated, Listed, Unlisted, ListedNumber
<1>3. CASE f.enumeration # {}
  <2> PICK j \in Every(t) : t.levels[j].enumeration # <<>> /\ f.enumeration = Literals(t.levels[j])
    BY <1>1, <1>3 DEF SaysEnumeration, Every
  <2>1. \A i \in Every(t) : t.levels[i].enumeration # <<>> => f.enumeration \subseteq Literals(t.levels[i])
    BY <1>1 DEF SaysEnumeration, Every
  <2>2. (v \in f.enumeration) <=> \A i \in Every(t) : Listed(v, t.levels[i])
    BY <2>1 DEF Listed
  <2>3. (\E w \in f.enumeration : w.n = v.n /\ FitsLong(w)) <=> \A i \in Every(t) : ListedNumber(v, t.levels[i])
    BY <2>1 DEF ListedNumber
  <2> QED BY <1>3, <2>2, <2>3 DEF Enumerated, Unlisted
<1> QED BY <1>2, <1>3

----------------------------------------------------------------------------
(* The facets left with an element, kind by kind.                          *)

(* Applying the facets moves a length to the limits, nothing else.         *)
LEMMA AppliedKeeps ==
  ASSUME NEW f, DOMAIN f = DOMAIN NoFacets
  PROVE  LET g == Applied(f) IN
         /\ g.length = f.length /\ g.bound = f.bound /\ g.other = f.other /\ g.patterns = f.patterns
         /\ g.enumeration = f.enumeration /\ g.totalDigits = f.totalDigits
         /\ g.fractionDigits = f.fractionDigits
         /\ ~Given(f.length) => g = f
BY DEF Applied, NoFacets

(* A check that passed says this of the facets.                            *)
LEMMA ReasonNone ==
  ASSUME NEW t, NEW f, Reason(t, f) = "none"
  PROVE  /\ ~LengthDiffers(t) /\ ~OutOfOrder(f) /\ ~LengthTwice(f)
         /\ ~LengthMisplaced(t, f) /\ ~LengthUnsettled(t, f)
<1>1. ~LengthDiffers(t)
  BY DEF Reason
<1>2. ~TwiceBounded(f)
  BY <1>1 DEF Reason
<1>3. ~OutOfOrder(f)
  BY <1>1, <1>2 DEF Reason
<1> QED BY <1>1, <1>2, <1>3 DEF Reason

(* A schema refused for the order has its bounds or its lengths the wrong  *)
(* way round, and only texts and bytes have lengths.                       *)
LEMMA ReasonOrder ==
  ASSUME NEW t, NEW f, Reason(t, f) = "order"
  PROVE  /\ ~LengthDiffers(t)
         /\ \/ OutOfOrder(f)
            \/ ~LengthTwice(f) /\ ~LengthMisplaced(t, f) /\ LengthsOutOfOrder(t, f)
<1>1. ~LengthDiffers(t)
  BY DEF Reason
<1>2. ~TwiceBounded(f)
  BY <1>1 DEF Reason
<1>3. CASE OutOfOrder(f)
  BY <1>1, <1>3
<1>4. CASE ~OutOfOrder(f)
  BY <1>1, <1>2, <1>4 DEF Reason
<1> QED BY <1>3, <1>4

(* Texts.                                                                  *)
LEMMA StringSays ==
  ASSUME NEW t \in Types, NEW f, Says(t, Len(t.levels), f), Reason(t, f) = "none", Tested(t),
         t.kind = "string", NEW v, v.len \in Nat
  PROVE  ValidString(v, Applied(f)) <=> \A i \in Every(t) : Admits(t.levels[i], v, t)
<1>1. DOMAIN f = DOMAIN NoFacets
  BY DEF Says
<1>2. LengthsAgree(t) /\ \A i \in Every(t) : LevelTested(t.levels[i], t)
  BY Levels DEF Tested, Every
<1>3. (\A i \in Every(t) : LengthAdmits(t.levels[i], v.len)) <=>
         IF Given(f.length) THEN v.len \in f.length ELSE AtLeast(v.len, f.minLength) /\ AtMost(v.len, f.maxLength)
  BY <1>2, LengthsSay, ReasonNone
<1>4. \A i \in Every(t) : Admits(t.levels[i], v, t) <=>
         LengthAdmits(t.levels[i], v.len) /\ Patterned(v, t.levels[i]) /\ Listed(v, t.levels[i])
  BY DEF Admits
<1>5. CASE Given(f.length)
  <2>1. AnyLength(t)
    BY <1>5, Levels DEF Says, SaysLength, AnyLength, Given
  <2>2. \A i \in Every(t) : Free(t.levels[i]) /\ Unlisted(t.levels[i])
    BY <1>2, <2>1 DEF LevelTested
  <2>3. \A i \in Every(t) : Patterned(v, t.levels[i]) /\ Listed(v, t.levels[i])
    BY <2>2 DEF Free, Unlisted, Patterned, Listed
  <2>4. ValidString(v, Applied(f)) <=> v.len \in f.length
    BY <1>1, <1>5, AppliedKeeps DEF ValidString
  <2> QED BY <1>3, <1>4, <1>5, <2>3, <2>4
<1>6. CASE ~Given(f.length)
  <2>1. Applied(f) = f
    BY <1>6 DEF Applied
  <2>2. ValidString(v, f) <=> AtLeast(v.len, f.minLength) /\ AtMost(v.len, f.maxLength) /\ Matches(v, f) /\ Enumerated(v, f)
    BY <1>6 DEF ValidString
  <2>3. Matches(v, f) <=> \A i \in Every(t) : Patterned(v, t.levels[i])
    BY PatternsSay
  <2>4. Enumerated(v, f) <=> \A i \in Every(t) : Listed(v, t.levels[i])
    BY EnumerationsSay
  <2> QED BY <1>3, <1>4, <1>6, <2>1, <2>2, <2>3, <2>4
<1> QED BY <1>5, <1>6

(* Bytes.                                                                  *)
LEMMA HexSays ==
  ASSUME NEW t \in Types, NEW f, Says(t, Len(t.levels), f), Reason(t, f) = "none", Tested(t),
         t.kind = "hex", NEW v, v.len \in Nat
  PROVE  ValidHex(v, Applied(f)) <=> \A i \in Every(t) : Admits(t.levels[i], v, t)
<1>1. DOMAIN f = DOMAIN NoFacets
  BY DEF Says
<1>2. LengthsAgree(t) /\ \A i \in Every(t) : LevelTested(t.levels[i], t)
  BY Levels DEF Tested, Every
<1>3. (\A i \in Every(t) : LengthAdmits(t.levels[i], v.len)) <=>
         IF Given(f.length) THEN v.len \in f.length ELSE AtLeast(v.len, f.minLength) /\ AtMost(v.len, f.maxLength)
  BY <1>2, LengthsSay, ReasonNone
<1>4. \A i \in Every(t) : /\ ~Given(t.levels[i].minLength) /\ ~Given(t.levels[i].maxLength)
                          /\ Free(t.levels[i]) /\ Unlisted(t.levels[i])
  BY <1>2 DEF LevelTested
<1>5. f.minLength = {} /\ f.maxLength = {}
  BY <1>4, LimitsSay DEF Given
<1>6. \A i \in Every(t) : Admits(t.levels[i], v, t) <=> LengthAdmits(t.levels[i], v.len)
  BY <1>4 DEF Admits, Free, Unlisted, Patterned, Listed
<1>7. AtLeast(v.len, f.minLength) /\ AtMost(v.len, f.maxLength)
  BY <1>5 DEF AtLeast, AtMost
<1> QED BY <1>1, <1>3, <1>6, <1>7, AppliedKeeps DEF ValidHex

(* Facets of numbers and calendars have no length to apply.                *)
LEMMA AppliedUnsized ==
  ASSUME NEW t, NEW f, Reason(t, f) = "none", ~Sized(t)
  PROVE  Applied(f) = f
BY ReasonNone DEF LengthMisplaced, Applied

(* A set of positions is finite.                                           *)
LEMMA SomePositions ==
  ASSUME NEW n \in Nat, NEW S, S \subseteq 1..n
  PROVE  Cardinality(S) \in Nat
<1>1. IsFiniteSet(1..n)
  BY FS_Interval
<1>2. IsFiniteSet(S)
  BY <1>1, FS_Subset
<1> QED BY <1>2, FS_CardinalityType

(* Digits are counted.                                                     *)
LEMMA DigitsCounted ==
  ASSUME NEW v, v.whole \in Seq(0..9), v.frac \in Seq(0..9)
  PROVE  FractionDigits(v) \in Nat /\ TotalDigits(v) \in Nat
<1>1. DOMAIN v.frac = 1..Len(v.frac) /\ Len(v.frac) \in Nat
  OBVIOUS
<1>2. FractionDigits(v) \in Nat
  <2> DEFINE S == {i \in DOMAIN v.frac : \E j \in DOMAIN v.frac : j >= i /\ v.frac[j] # 0}
  <2>1. S \subseteq 1..Len(v.frac)
    BY <1>1
  <2> HIDE DEF S
  <2>2. Cardinality(S) \in Nat
    BY <1>1, <2>1, SomePositions
  <2> QED BY <2>2 DEF S, FractionDigits
<1>3. TotalDigits(v) \in Nat
  <2> DEFINE digits == v.whole \o v.frac
  <2> DEFINE last == Len(v.whole) + FractionDigits(v)
  <2> DEFINE S == {i \in DOMAIN digits : i <= last /\ \E j \in DOMAIN digits : j <= i /\ digits[j] # 0}
  <2>1. digits \in Seq(0..9)
    OBVIOUS
  <2> HIDE DEF digits
  <2>2. DOMAIN digits = 1..Len(digits) /\ Len(digits) \in Nat
    BY <2>1
  <2>3. S \subseteq 1..Len(digits)
    BY <2>2
  <2> HIDE DEF S
  <2>4. Cardinality(S) \in Nat
    BY <2>2, <2>3, SomePositions
  <2> QED BY <2>4 DEF S, digits, TotalDigits
<1> QED BY <1>2, <1>3

(* Numbers of a fixed width.                                               *)
LEMMA FixedSays ==
  ASSUME NEW t \in Types, NEW f, Says(t, Len(t.levels), f), Tested(t), t.kind = "fixed",
         NEW v, v.n \in Int, v.whole \in Seq(0..9), v.frac \in Seq(0..9), FitsLong(v)
  PROVE  ValidFixed(v, t, f) <=> \A i \in Every(t) : Admits(t.levels[i], v, t)
<1>1. \A i \in Every(t) : LevelTested(t.levels[i], t)
  BY Levels DEF Tested, Every
<1>2. \A i \in Every(t) : /\ t.binary \/ ~Free(t.levels[i]) => Unlisted(t.levels[i])
                          /\ t.ignore => Free(t.levels[i])
                          /\ \A k \in Every(t) : ~Free(t.levels[i]) => Unlisted(t.levels[k])
  BY <1>1, Levels DEF LevelTested, Every
<1>3. \A i \in Every(t) : Admits(t.levels[i], v, t) <=>
         /\ Between(v.n, v.n, t.levels[i].bound) /\ ValidDigits(v, t.levels[i])
         /\ Patterned(v, t.levels[i]) /\ ListedNumber(v, t.levels[i])
  BY DEF Admits
<1>4. Within(v.n, f.bound) <=> \A i \in Every(t) : Between(v.n, v.n, t.levels[i].bound)
  BY BetweenSays, WithinBetween
<1>5. ValidDigits(v, f) <=> \A i \in Every(t) : ValidDigits(v, t.levels[i])
  <2>1. TotalDigits(v) \in Int /\ FractionDigits(v) \in Int
    BY DigitsCounted
  <2> QED BY <2>1, DigitsSay
<1>6. EnumeratedNumber(v, t, f) <=> \A i \in Every(t) : ListedNumber(v, t.levels[i])
  <2>1. CASE t.binary
    <3>1. \A i \in Every(t) : Unlisted(t.levels[i])
      BY <1>2, <2>1
    <3> QED BY <2>1, <3>1 DEF EnumeratedNumber, Unlisted, ListedNumber
  <2>2. CASE ~t.binary
    <3>1. EnumeratedNumber(v, t, f) <=> (f.enumeration # {} => \E w \in f.enumeration : w.n = v.n /\ FitsLong(w))
      BY <2>2 DEF EnumeratedNumber
    <3> QED BY <3>1, EnumerationsSay
  <2> QED BY <2>1, <2>2
<1>7. (f.patterns # {} /\ ~t.ignore => Matches(v, f) /\ Enumerated(v, f)) <=>
         \A i \in Every(t) : Patterned(v, t.levels[i])
  <2>1. CASE f.patterns = {}
    <3>1. \A i \in Every(t) : Free(t.levels[i])
      BY <2>1, PatternsSay
    <3> QED BY <2>1, <3>1 DEF Free, Patterned
  <2>2. CASE f.patterns # {}
    <3>1. PICK i \in Every(t) : ~Free(t.levels[i])
      BY <2>2, PatternsSay
    <3>2. \A k \in Every(t) : Unlisted(t.levels[k])
      BY <1>2, <3>1
    <3>3. f.enumeration = {}
      BY <3>2, EnumerationsSay
    <3>4. Enumerated(v, f)
      BY <3>3 DEF Enumerated
    <3>5. ~t.ignore
      BY <1>2, <3>1
    <3> QED BY <2>2, <3>4, <3>5, PatternsSay
  <2> QED BY <2>1, <2>2
<1>8. ValidFixed(v, t, f) <=>
        /\ Within(v.n, f.bound) /\ ValidDigits(v, f) /\ EnumeratedNumber(v, t, f)
        /\ f.patterns # {} /\ ~t.ignore => Matches(v, f) /\ Enumerated(v, f)
  BY DEF ValidFixed
<1> QED BY <1>3, <1>4, <1>5, <1>6, <1>7, <1>8

(* Integers.                                                               *)
LEMMA IntegerSays ==
  ASSUME NEW t \in Types, NEW f, Says(t, Len(t.levels), f), Tested(t), t.kind = "integer",
         NEW v, v.n \in Int, v.whole \in Seq(0..9), v.frac \in Seq(0..9), FitsLong(v)
  PROVE  ValidInteger(v, t, f) <=>
           (\A i \in Every(t) : Admits(t.levels[i], v, t)) /\ (t.nonNegative => ~v.neg)
<1>1. \A i \in Every(t) : LevelTested(t.levels[i], t)
  BY Levels DEF Tested, Every
<1>2. \A i \in Every(t) : Free(t.levels[i]) /\ (t.binary => Unlisted(t.levels[i]))
  BY <1>1 DEF LevelTested
<1>3. \A i \in Every(t) : Admits(t.levels[i], v, t) <=>
         /\ Between(v.n, v.n, t.levels[i].bound) /\ ValidDigits(v, t.levels[i])
         /\ ListedNumber(v, t.levels[i])
  BY <1>2 DEF Admits, Patterned, Free
<1>4. Within(v.n, f.bound) <=> \A i \in Every(t) : Between(v.n, v.n, t.levels[i].bound)
  BY BetweenSays, WithinBetween
<1>5. ValidDigits(v, f) <=> \A i \in Every(t) : ValidDigits(v, t.levels[i])
  <2>1. TotalDigits(v) \in Int /\ FractionDigits(v) \in Int
    BY DigitsCounted
  <2> QED BY <2>1, DigitsSay
<1>6. EnumeratedNumber(v, t, f) <=> \A i \in Every(t) : ListedNumber(v, t.levels[i])
  <2>1. CASE t.binary
    <3>1. \A i \in Every(t) : Unlisted(t.levels[i])
      BY <1>2, <2>1
    <3> QED BY <2>1, <3>1 DEF EnumeratedNumber, Unlisted, ListedNumber
  <2>2. CASE ~t.binary
    <3>1. EnumeratedNumber(v, t, f) <=> (f.enumeration # {} => \E w \in f.enumeration : w.n = v.n /\ FitsLong(w))
      BY <2>2 DEF EnumeratedNumber
    <3> QED BY <3>1, EnumerationsSay
  <2> QED BY <2>1, <2>2
<1> QED BY <1>3, <1>4, <1>5, <1>6 DEF ValidInteger

(* Floats.                                                                 *)
LEMMA FloatSays ==
  ASSUME NEW t \in Types, NEW f, Says(t, Len(t.levels), f), t.kind = "float", NEW v, v.n \in Int
  PROVE  ValidFloat(v, f) <=> \A i \in Every(t) : Admits(t.levels[i], v, t)
<1>1. \A i \in Every(t) : Admits(t.levels[i], v, t) <=>
         IF v.nan THEN \A b \in Bounds : ~Given(t.levels[i].bound[b]) ELSE Between(v.n, v.n, t.levels[i].bound)
  BY DEF Admits
<1>2. (\A b \in Bounds : ~Given(f.bound[b])) <=> \A i \in Every(t) : \A b \in Bounds : ~Given(t.levels[i].bound[b])
  BY BoundSays DEF Given
<1>3. Within(v.n, f.bound) <=> \A i \in Every(t) : Between(v.n, v.n, t.levels[i].bound)
  BY BetweenSays, WithinBetween
<1>4. CASE v.nan
  BY <1>1, <1>2, <1>4 DEF ValidFloat
<1>5. CASE ~v.nan
  BY <1>1, <1>3, <1>5 DEF ValidFloat
<1> QED BY <1>4, <1>5

(* Calendars.                                                              *)
LEMMA CalendarSays ==
  ASSUME NEW t \in Types, NEW f, Says(t, Len(t.levels), f), t.kind = "calendar", NEW v, v.at \in Int
  PROVE  ValidCalendar(v, f) <=> \A i \in Every(t) : Admits(t.levels[i], v, t)
<1>1. \A i \in Every(t) : Admits(t.levels[i], v, t) <=> Between(v.at, v.at, t.levels[i].other) /\ Listed(v, t.levels[i])
  BY DEF Admits
<1>2. Within(v.at, f.other) <=> \A i \in Every(t) : Between(v.at, v.at, t.levels[i].other)
  BY BetweenSays, WithinBetween
<1>3. Enumerated(v, f) <=> \A i \in Every(t) : Listed(v, t.levels[i])
  BY EnumerationsSay
<1> QED BY <1>1, <1>2, <1>3 DEF ValidCalendar

(* A value tested against the merged facets is tested against every        *)
(* restriction: all kinds but decimals, whose texts are compared digit by  *)
(* digit.                                                                  *)
LEMMA FacetsSay ==
  ASSUME NEW t \in Types, t.kind # "decimal", NEW f, Says(t, Len(t.levels), f), Reason(t, f) = "none",
         Tested(t), NEW v \in Values(t), Ordinary(v, t)
  PROVE  ValidFacets(v, t, Applied(f)) <=>
           (\A i \in Every(t) : Admits(t.levels[i], v, t)) /\ (t.nonNegative => ~v.neg)
<1>1. t.kind \in Kinds /\ IsValue(v, t.kind) /\ (t.nonNegative => t.kind = "integer")
  BY TypesAssumption DEF IsType
<1>2. CASE t.kind = "string"
  BY <1>1, <1>2, StringSays DEF IsValue, ValidFacets
<1>3. CASE t.kind = "hex"
  BY <1>1, <1>3, HexSays DEF IsValue, ValidFacets
<1>4. CASE t.kind \in {"fixed", "integer"}
  <2>1. Applied(f) = f
    BY <1>4, AppliedUnsized DEF Sized
  <2>2. v.n \in Int /\ v.whole \in Seq(0..9) /\ v.frac \in Seq(0..9) /\ FitsLong(v)
    BY <1>1, <1>4 DEF IsValue, Ordinary
  <2>3. CASE t.kind = "fixed"
    BY <1>1, <2>1, <2>2, <2>3, FixedSays DEF ValidFacets
  <2>4. CASE t.kind = "integer"
    BY <2>1, <2>2, <2>4, IntegerSays DEF ValidFacets
  <2> QED BY <1>4, <2>3, <2>4
<1>5. CASE t.kind = "float"
  <2>1. Applied(f) = f
    BY <1>5, AppliedUnsized DEF Sized
  <2> QED BY <1>1, <1>5, <2>1, FloatSays DEF IsValue, ValidFacets
<1>6. CASE t.kind = "calendar"
  <2>1. Applied(f) = f
    BY <1>6, AppliedUnsized DEF Sized
  <2> QED BY <1>1, <1>6, <2>1, CalendarSays DEF IsValue, ValidFacets
<1> QED BY <1>1, <1>2, <1>3, <1>4, <1>5, <1>6 DEF Kinds

(* Where nothing is to be validated, the tests would pass.                 *)
LEMMA NothingToValidate ==
  ASSUME NEW t \in Types, t.kind # "decimal", NEW f, Says(t, Len(t.levels), f), Reason(t, f) = "none",
         Tested(t), NEW v, ~NeedsValidation(Applied(f))
  PROVE  ValidFacets(v, t, Applied(f))
<1> DEFINE g == Applied(f)
<1>1. g = NoFacets
  BY DEF NeedsValidation
<1>2. f.bound = g.bound
  BY AppliedKeeps DEF Says
<1> HIDE DEF g
<1>3. /\ g.length = {} /\ g.minLength = {} /\ g.maxLength = {} /\ g.totalDigits = {} /\ g.fractionDigits = {}
      /\ g.patterns = {} /\ g.enumeration = {} /\ \A b \in Bounds : g.bound[b] = {} /\ g.other[b] = {}
  BY <1>1 DEF NoFacets
<1>4. t.kind \in Kinds /\ (t.nonNegative => t.kind = "integer")
  BY TypesAssumption DEF IsType
<1>5. ~t.nonNegative
  <2>1. \A i \in Every(t) : Unbounded(t.levels[i])
    BY <1>2, <1>3, BoundSays DEF Unbounded, Given
  <2> QED BY <2>1, Levels DEF Tested, Every
<1>6. \A x : Within(x, g.bound) /\ Within(x, g.other)
  BY <1>3 DEF Within, Bounds, AtLeast, AtMost, Above, Below
<1>7. ValidDigits(v, g) /\ Matches(v, g) /\ Enumerated(v, g) /\ EnumeratedNumber(v, t, g)
  BY <1>3 DEF ValidDigits, AtMost, Matches, Enumerated, EnumeratedNumber
<1>8. ValidString(v, g) /\ ValidHex(v, g) /\ ValidCalendar(v, g)
  BY <1>3, <1>6, <1>7 DEF ValidString, ValidHex, ValidCalendar, Given, AtLeast, AtMost
<1>9. ValidFixed(v, t, g) /\ ValidInteger(v, t, g)
  BY <1>3, <1>5, <1>6, <1>7 DEF ValidFixed, ValidInteger
<1>10. ValidFloat(v, g)
  BY <1>3, <1>6 DEF ValidFloat, Given
<1>11. ValidFacets(v, t, g)
  BY <1>4, <1>8, <1>9, <1>10 DEF ValidFacets, Kinds
<1> QED BY <1>11 DEF g

(* What is valid is valid where branches are told apart.                   *)
LEMMA ChoiceFollows ==
  ASSUME NEW t \in Types, t.kind # "decimal", NEW f, Says(t, Len(t.levels), f), Tested(t), Reason(t, f) = "none",
         NEW v, ValidFacets(v, t, Applied(f)), NeedsChoice(Applied(f))
  PROVE  ValidForChoice(v, t, Applied(f))
<1> DEFINE g == Applied(f)
<1>1. t.kind \in Kinds
  BY TypesAssumption DEF IsType
<1>2. CASE t.kind = "string"
  <2>1. CASE Given(f.length)
    <3>1. AnyLength(t)
      BY <2>1, Levels DEF Says, SaysLength, AnyLength, Given
    <3>2. \A i \in Every(t) : Free(t.levels[i]) /\ Unlisted(t.levels[i])
      BY <1>2, <3>1, Levels DEF Tested, LevelTested, Every
    <3>3. f.patterns = {} /\ f.enumeration = {}
      BY <3>2, PatternsSay, EnumerationsSay
    <3>4. g.patterns = {} /\ g.enumeration = {}
      BY <3>3, AppliedKeeps DEF Says
    <3> QED BY <3>4 DEF NeedsChoice
  <2>2. CASE ~Given(f.length)
    <3>1. g = f
      BY <2>2 DEF Applied
    <3>2. ValidString(v, f)
      BY <1>2, <3>1 DEF ValidFacets
    <3> QED BY <1>2, <2>2, <3>1, <3>2 DEF ValidString, ValidForChoice
  <2> QED BY <2>1, <2>2
<1>3. CASE t.kind = "fixed"
  BY <1>3 DEF ValidFacets, ValidFixed, ValidForChoice
<1>4. CASE t.kind = "integer"
  BY <1>4 DEF ValidFacets, ValidInteger, ValidForChoice
<1>5. CASE t.kind \in {"hex", "float", "calendar"}
  BY <1>5 DEF ValidForChoice
<1> QED BY <1>1, <1>2, <1>3, <1>4, <1>5 DEF Kinds

(* Integers that lie within every restriction are in no range out of       *)
(* order.                                                                  *)
LEMMA BetweenOrders ==
  ASSUME NEW f, \A b \in Bounds : f.bound[b] \subseteq Int, NEW lo \in Int, NEW hi \in Int,
         lo <= hi, hi <= lo + 1, Between(lo, hi, f.bound)
  PROVE  ~OutOfOrder(f)
<1>1. /\ f.bound["minInclusive"] \subseteq Int /\ f.bound["minExclusive"] \subseteq Int
      /\ f.bound["maxInclusive"] \subseteq Int /\ f.bound["maxExclusive"] \subseteq Int
  BY DEF Bounds
<1>2. /\ \A x \in f.bound["minInclusive"] : lo >= x
      /\ \A x \in f.bound["minExclusive"] : hi > x
      /\ \A y \in f.bound["maxInclusive"] : hi <= y
      /\ \A y \in f.bound["maxExclusive"] : lo < y
  BY DEF Between, AtLeast, AtMost, Above, Below
<1>3. ~Exceeds(f.bound["minExclusive"], f.bound["maxInclusive"])
  BY <1>1, <1>2 DEF Exceeds
<1>4. ~Exceeds(f.bound["minInclusive"], f.bound["maxInclusive"])
  BY <1>1, <1>2 DEF Exceeds
<1>5. \A x \in f.bound["minExclusive"] \union f.bound["minInclusive"], y \in f.bound["maxExclusive"] : ~(x >= y)
  BY <1>1, <1>2
<1> QED BY <1>3, <1>4, <1>5 DEF OutOfOrder

(* A schema refused for the order of its facets leaves no value.           *)
LEMMA OrderLeavesNone ==
  ASSUME NEW t \in Types, NEW f, Says(t, Len(t.levels), f), Reason(t, f) = "order", Tested(t),
         NEW v \in Values(t), \A i \in DOMAIN t.levels : Admits(t.levels[i], v, t)
  PROVE  FALSE
<1>1. t.kind \in Kinds /\ IsValue(v, t.kind)
  BY TypesAssumption DEF IsType
<1>2. \A i \in Every(t) : Admits(t.levels[i], v, t)
  BY Levels DEF Every
<1>3. \A b \in Bounds : f.bound[b] \subseteq Int
  BY DEF Says, Limited, Lower, Upper, Optional
<1>4. ~OutOfOrder(f)
  <2>1. CASE t.kind \in {"string", "hex", "calendar"}
    <3>1. \A i \in Every(t) : Unbounded(t.levels[i])
      BY <2>1, Levels DEF Tested, Every
    <3>2. \A b \in Bounds : f.bound[b] = {}
      BY <3>1, BoundSays DEF Unbounded, Given
    <3> QED BY <3>2 DEF OutOfOrder, Exceeds, Bounds
  <2>2. CASE t.kind \in {"fixed", "integer"}
    <3>1. v.n \in Int
      BY <1>1, <2>2 DEF IsValue
    <3>2. \A i \in Every(t) : Between(v.n, v.n, t.levels[i].bound)
      BY <1>2, <2>2 DEF Admits
    <3>3. Between(v.n, v.n, f.bound)
      BY <3>1, <3>2, BetweenSays
    <3>4. v.n <= v.n /\ v.n <= v.n + 1
      BY <3>1
    <3> QED BY <1>3, <3>1, <3>3, <3>4, BetweenOrders
  <2>3. CASE t.kind = "decimal"
    <3>1. v.n \in Int
      BY <1>1, <2>3 DEF IsValue
    <3>2. Floor(v) \in Int /\ Ceiling(v) \in Int /\ Floor(v) <= Ceiling(v) /\ Ceiling(v) <= Floor(v) + 1
      BY <3>1 DEF Floor, Ceiling
    <3>3. \A i \in Every(t) : Between(Floor(v), Ceiling(v), t.levels[i].bound)
      BY <1>2, <2>3 DEF Admits
    <3>4. Between(Floor(v), Ceiling(v), f.bound)
      BY <3>2, <3>3, BetweenSays
    <3> QED BY <1>3, <3>2, <3>4, BetweenOrders
  <2>4. CASE t.kind = "float"
    <3>1. CASE v.nan
      <4>1. \A i \in Every(t) : \A b \in Bounds : ~Given(t.levels[i].bound[b])
        BY <1>2, <2>4, <3>1 DEF Admits
      <4>2. \A b \in Bounds : f.bound[b] = {}
        BY <4>1, BoundSays DEF Given
      <4> QED BY <4>2 DEF OutOfOrder, Exceeds, Bounds
    <3>2. CASE ~v.nan
      <4>1. v.n \in Int
        BY <1>1, <2>4 DEF IsValue
      <4>2. \A i \in Every(t) : Between(v.n, v.n, t.levels[i].bound)
        BY <1>2, <2>4, <3>2 DEF Admits
      <4>3. Between(v.n, v.n, f.bound)
        BY <4>1, <4>2, BetweenSays
      <4>4. v.n <= v.n /\ v.n <= v.n + 1
        BY <4>1
      <4> QED BY <1>3, <4>1, <4>3, <4>4, BetweenOrders
    <3> QED BY <3>1, <3>2
  <2> QED BY <1>1, <2>1, <2>2, <2>3, <2>4 DEF Kinds
<1>5. ~LengthDiffers(t) /\ ~LengthTwice(f) /\ ~LengthMisplaced(t, f) /\ LengthsOutOfOrder(t, f)
  BY <1>4, ReasonOrder
<1>6. PICK x \in f.minLength, y \in f.maxLength : x > y
  BY <1>5 DEF LengthsOutOfOrder, Exceeds
<1>7. Sized(t)
  BY <1>5, <1>6 DEF LengthMisplaced, Given
<1>8. v.len \in Int
  BY <1>1, <1>7 DEF IsValue, Sized
<1>9. \A i \in Every(t) : AtLeast(v.len, t.levels[i].minLength) /\ AtMost(v.len, t.levels[i].maxLength)
  BY <1>2, <1>7 DEF Admits, Sized, LengthAdmits
<1>10. AtLeast(v.len, f.minLength) /\ AtMost(v.len, f.maxLength)
  BY <1>8, <1>9, LimitsSay
<1>11. x \in Int /\ y \in Int /\ v.len >= x /\ v.len <= y
  BY <1>6, <1>10, LimitsSay DEF AtLeast, AtMost, Optional
<1> QED BY <1>6, <1>8, <1>11

(* An implicit length that passed its check is one length, allowed by all. *)
LEMMA ImplicitSettled ==
  ASSUME NEW t \in Types, NEW f, Says(t, Len(t.levels), f), Reason(t, f) = "none",
         t.implicit, ~t.calc, Sized(t), LengthsAgree(t)
  PROVE  /\ ImplicitLength(t, Applied(f)) # {}
         /\ \A n \in ImplicitLength(t, Applied(f)), i \in DOMAIN t.levels : LengthAdmits(t.levels[i], n)
<1>0. DOMAIN f = DOMAIN NoFacets /\ SaysLength(t, Len(t.levels), f.length)
  BY DEF Says
<1>1. ~LengthDiffers(t) /\ ~LengthTwice(f) /\ ~LengthUnsettled(t, f)
  BY ReasonNone
<1>2. DOMAIN t.levels = Every(t)
  BY Levels DEF Every
<1>3. CASE Given(f.length)
  <2>1. ImplicitLength(t, Applied(f)) = f.length
    BY <1>0, <1>3, AppliedKeeps DEF ImplicitLength
  <2>2. f.length \subseteq Int
    <3>1. PICK i \in 1..Len(t.levels) : t.levels[i].length = f.length
      BY <1>0, <1>3 DEF SaysLength, Given
    <3>2. IsLevel(t.levels[i])
      BY Levels
    <3> QED BY <3>1, <3>2 DEF IsLevel, Optional
  <2>3. \A n \in f.length : \A i \in Every(t) : LengthAdmits(t.levels[i], n)
    BY <1>1, <1>3, <2>2, LengthsSay
  <2> QED BY <1>2, <1>3, <2>1, <2>3 DEF Given
<1>4. CASE ~Given(f.length)
  <2>1. f.minLength = f.maxLength /\ f.minLength # {}
    BY <1>1, <1>4 DEF LengthUnsettled, Given
  <2>2. ImplicitLength(t, Applied(f)) = f.minLength
    BY <1>4, <2>1 DEF ImplicitLength, Applied
  <2>3. Optional(f.minLength, Int)
    BY LimitsSay
  <2>4. \A n \in f.minLength : AtLeast(n, f.minLength) /\ AtMost(n, f.maxLength)
    BY <2>1, <2>3 DEF Optional, AtLeast, AtMost
  <2>5. \A n \in f.minLength : \A i \in Every(t) : LengthAdmits(t.levels[i], n)
    BY <1>1, <1>4, <2>3, <2>4, LengthsSay DEF Optional
  <2> QED BY <1>2, <2>1, <2>2, <2>5
<1> QED BY <1>3, <1>4

----------------------------------------------------------------------------
(* The compiler's steps.                                                   *)

Unrefused(t, k) == \A i \in (k + 1)..Len(t.levels) : ~LevelRefused(t, i)

CheckingInv ==
  phase = "checking" => refusal = "none" /\ eff = NoFacets /\ Unrefused(type, level)
CollectingInv ==
  phase = "collecting" => refusal = "none" /\ Unrefused(type, 0) /\ Says(type, level, eff)
CompiledInv ==
  phase \in {"compiled", "decoded"} =>
    /\ refusal = "none"
    /\ \E f : Says(type, Len(type.levels), f) /\ Reason(type, f) = "none" /\ eff = Applied(f)
RefusedInv ==
  phase = "refused" =>
    refusal = "restriction" \/ (Says(type, Len(type.levels), eff) /\ refusal = Reason(type, eff))
DecodedInv ==
  phase = "decoded" =>
    /\ value \in Values(type)
    /\ valid = ((NeedsValidation(eff) => ValidFacets(value, type, eff)) /\ OfUnion(value, type))
    /\ kept = Kept(value, type, eff)

IInv ==
  /\ type \in Types /\ level \in 0..Len(type.levels)
  /\ phase \in {"checking", "collecting", "compiled", "refused", "decoded"}
  /\ CheckingInv /\ CollectingInv /\ CompiledInv /\ RefusedInv /\ DecodedInv

(* The invariant holds before the first restriction is checked.            *)
LEMMA InitIInv == Init => IInv
<1> SUFFICES ASSUME Init PROVE IInv
  OBVIOUS
<1>1. type \in Types /\ level = Len(type.levels) /\ level \in Nat
  BY Levels DEF Init
<1>2. Unrefused(type, level)
  BY <1>1 DEF Unrefused
<1> QED BY <1>1, <1>2 DEF Init, IInv, CheckingInv, CollectingInv, CompiledInv, RefusedInv, DecodedInv

(* Every step keeps it.                                                    *)
LEMMA NextIInv == IInv /\ [Next]_vars => IInv'
<1> SUFFICES ASSUME IInv, [Next]_vars PROVE IInv'
  OBVIOUS
<1>0. type \in Types /\ Len(type.levels) \in Nat \ {0} /\ level \in 0..Len(type.levels)
  BY Levels DEF IInv
<1>1. CASE CheckLevel
  <2>1. type' = type /\ eff' = eff /\ phase = "checking" /\ level > 0
    BY <1>1 DEF CheckLevel
  <2>2. CASE LevelRefused(type, level)
    <3>1. refusal' = "restriction" /\ phase' = "refused" /\ level' = level
      BY <1>1, <2>2 DEF CheckLevel
    <3> QED BY <1>0, <2>1, <3>1 DEF IInv, CheckingInv, CollectingInv, CompiledInv, RefusedInv, DecodedInv
  <2>3. CASE ~LevelRefused(type, level)
    <3>1. level' = level - 1 /\ refusal' = refusal /\ phase' = phase
      BY <1>1, <2>3 DEF CheckLevel
    <3>2. refusal = "none" /\ eff = NoFacets /\ Unrefused(type, level)
      BY <2>1 DEF IInv, CheckingInv
    <3>3. \A i \in ((level - 1) + 1)..Len(type.levels) : i = level \/ i \in (level + 1)..Len(type.levels)
      BY <1>0
    <3>4. Unrefused(type, level - 1)
      BY <2>3, <3>2, <3>3 DEF Unrefused
    <3>5. level - 1 \in 0..Len(type.levels)
      BY <1>0, <2>1
    <3> QED BY <1>0, <2>1, <3>1, <3>2, <3>4, <3>5
            DEF IInv, CheckingInv, CollectingInv, CompiledInv, RefusedInv, DecodedInv
  <2> QED BY <2>2, <2>3
<1>2. CASE BeginCollecting
  <2>1. /\ type' = type /\ eff' = eff /\ level' = level /\ refusal' = refusal
        /\ phase = "checking" /\ phase' = "collecting" /\ level = 0
    BY <1>2 DEF BeginCollecting
  <2>2. refusal = "none" /\ eff = NoFacets /\ Unrefused(type, 0)
    BY <2>1 DEF IInv, CheckingInv
  <2>3. Says(type, 0, eff)
    BY <1>0, <2>2, SaysNothing
  <2> QED BY <1>0, <2>1, <2>2, <2>3
          DEF IInv, CheckingInv, CollectingInv, CompiledInv, RefusedInv, DecodedInv
<1>3. CASE Collect
  <2>1. /\ type' = type /\ level' = level + 1 /\ eff' = Merged(eff, type.levels[level + 1])
        /\ refusal' = refusal /\ phase' = phase /\ phase = "collecting" /\ level < Len(type.levels)
    BY <1>3 DEF Collect
  <2>2. refusal = "none" /\ Unrefused(type, 0) /\ Says(type, level, eff)
    BY <2>1 DEF IInv, CollectingInv
  <2>3. level \in Nat /\ level + 1 <= Len(type.levels) /\ level + 1 \in 0..Len(type.levels)
        /\ level + 1 \in (0 + 1)..Len(type.levels)
    BY <1>0, <2>1
  <2>4. ~LevelRefused(type, level + 1)
    BY <2>2, <2>3 DEF Unrefused
  <2>5. Says(type, level + 1, Merged(eff, type.levels[level + 1]))
    BY <1>0, <2>2, <2>3, <2>4, SaysMore
  <2> QED BY <1>0, <2>1, <2>2, <2>3, <2>5
          DEF IInv, CheckingInv, CollectingInv, CompiledInv, RefusedInv, DecodedInv
<1>4. CASE Judge
  <2>1. /\ type' = type /\ level' = level /\ refusal' = Reason(type, eff)
        /\ phase = "collecting" /\ level = Len(type.levels)
    BY <1>4 DEF Judge
  <2>2. Says(type, Len(type.levels), eff)
    BY <2>1 DEF IInv, CollectingInv
  <2>3. CASE Reason(type, eff) = "none"
    <3>1. eff' = Applied(eff) /\ phase' = "compiled"
      BY <1>4, <2>1, <2>3 DEF Judge
    <3> QED BY <1>0, <2>1, <2>2, <2>3, <3>1
            DEF IInv, CheckingInv, CollectingInv, CompiledInv, RefusedInv, DecodedInv
  <2>4. CASE Reason(type, eff) # "none"
    <3>1. eff' = eff /\ phase' = "refused"
      BY <1>4, <2>1, <2>4 DEF Judge
    <3> QED BY <1>0, <2>1, <2>2, <2>4, <3>1
            DEF IInv, CheckingInv, CollectingInv, CompiledInv, RefusedInv, DecodedInv
  <2> QED BY <2>3, <2>4
<1>5. CASE Decode
  <2>1. /\ type' = type /\ level' = level /\ refusal' = refusal /\ eff' = eff
        /\ phase = "compiled" /\ phase' = "decoded"
    BY <1>5 DEF Decode
  <2>2. CompiledInv'
    BY <2>1 DEF IInv, CompiledInv
  <2>3. DecodedInv'
    <3> PICK v \in Values(type) :
          /\ value' = v
          /\ valid' = ((NeedsValidation(eff) => ValidFacets(v, type, eff)) /\ OfUnion(v, type))
          /\ kept' = Kept(v, type, eff)
      BY <1>5 DEF Decode
    <3> QED BY <2>1 DEF DecodedInv
  <2> QED BY <1>0, <2>1, <2>2, <2>3 DEF IInv, CheckingInv, CollectingInv, RefusedInv
<1>6. CASE UNCHANGED vars
  BY <1>6 DEF IInv, CheckingInv, CollectingInv, CompiledInv, RefusedInv, DecodedInv, vars
<1> QED BY <1>1, <1>2, <1>3, <1>4, <1>5, <1>6 DEF Next

(* What is merged so far is what the restrictions so far say, and what is  *)
(* left with the element is what the whole chain says.                     *)
THEOREM SpecIInv == Spec => []IInv
BY InitIInv, NextIInv, PTL DEF Spec

----------------------------------------------------------------------------

(* Every refusal for the order of facets is of a type without values       *)
(* (validate_facet_range_order, validate_length_facets_for_type).          *)
THEOREM OrderRefusesOnlyEmpty == Spec => []RefusesOnlyEmpty
<1>1. IInv => RefusesOnlyEmpty
  <2> SUFFICES ASSUME IInv, refusal = "order", Tested(type),
                      NEW v \in Values(type), EveryLevelAdmits(v, type)
               PROVE  FALSE
    BY DEF RefusesOnlyEmpty
  <2>1. type \in Types /\ phase = "refused"
    BY DEF IInv, CheckingInv, CollectingInv, CompiledInv
  <2>2. Says(type, Len(type.levels), eff) /\ Reason(type, eff) = "order"
    BY <2>1 DEF IInv, RefusedInv
  <2>3. \A i \in DOMAIN type.levels : Admits(type.levels[i], v, type)
    BY DEF EveryLevelAdmits
  <2> QED BY <2>1, <2>2, <2>3, OrderLeavesNone
<1> QED BY <1>1, SpecIInv, PTL

(* A compiled element of implicit length has one length, and it is allowed *)
(* by every restriction (implicit_facet_byte_length).                      *)
THEOREM CompiledImplicitLength == Spec => []ImplicitHasLength
<1>1. IInv => ImplicitHasLength
  <2> SUFFICES ASSUME IInv, phase \in {"compiled", "decoded"}, type.implicit, ~type.calc, Sized(type),
                      LengthsAgree(type)
               PROVE  /\ ImplicitLength(type, eff) # {}
                      /\ \A n \in ImplicitLength(type, eff), i \in DOMAIN type.levels :
                            LengthAdmits(type.levels[i], n)
    BY DEF ImplicitHasLength
  <2>1. type \in Types
    BY DEF IInv
  <2> PICK f : Says(type, Len(type.levels), f) /\ Reason(type, f) = "none" /\ eff = Applied(f)
    BY DEF IInv, CompiledInv
  <2> QED BY <2>1, ImplicitSettled
<1> QED BY <1>1, SpecIInv, PTL

(* The merged facets admit what every restriction admits by itself, and    *)
(* nothing else, for every chain of restrictions (collect_facets,          *)
(* validate_decoded_facets, backtrack_decoded_facets_ok).                  *)
THEOREM MergedFacetsSayEvery ==
  ASSUME \A t \in Types : t.kind # "decimal"
  PROVE  Spec => []MergedSaysEvery
<1>1. IInv => MergedSaysEvery
  <2> SUFFICES ASSUME IInv, phase = "decoded", Tested(type), Ordinary(value, type)
               PROVE  /\ valid <=> EveryLevelAdmits(value, type)
                      /\ kept /\ OfUnion(value, type) <=> valid
    BY DEF MergedSaysEvery
  <2>1. type \in Types /\ value \in Values(type)
    BY DEF IInv, DecodedInv
  <2> PICK f : Says(type, Len(type.levels), f) /\ Reason(type, f) = "none" /\ eff = Applied(f)
    BY DEF IInv, CompiledInv
  <2>2. /\ valid = ((NeedsValidation(eff) => ValidFacets(value, type, eff)) /\ OfUnion(value, type))
        /\ kept = Kept(value, type, eff)
    BY DEF IInv, DecodedInv
  <2>3. ValidFacets(value, type, eff) <=>
          (\A i \in Every(type) : Admits(type.levels[i], value, type)) /\ (type.nonNegative => ~value.neg)
    BY <2>1, FacetsSay
  <2>4. ~NeedsValidation(eff) => ValidFacets(value, type, eff)
    BY <2>1, NothingToValidate
  <2>5. ValidFacets(value, type, eff) /\ NeedsChoice(eff) => ValidForChoice(value, type, eff)
    BY <2>1, ChoiceFollows
  <2>6. EveryLevelAdmits(value, type) <=>
          /\ \A i \in Every(type) : Admits(type.levels[i], value, type)
          /\ type.nonNegative => ~value.neg
          /\ OfUnion(value, type)
    BY <2>1, Levels DEF EveryLevelAdmits, Every
  <2>7. Kept(value, type, eff) <=> ValidFacets(value, type, eff)
    BY <2>4, <2>5 DEF Kept
  <2>8. valid <=> ValidFacets(value, type, eff) /\ OfUnion(value, type)
    BY <2>2, <2>4
  <2>9. kept <=> ValidFacets(value, type, eff)
    BY <2>2, <2>7
  <2> QED BY <2>3, <2>6, <2>8, <2>9
<1> QED BY <1>1, SpecIInv, PTL
=============================================================================
