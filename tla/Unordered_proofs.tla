-------------------------- MODULE Unordered_proofs --------------------------
(***************************************************************************)
(* What the decoding of unordered sequences and initiated content promises,*)
(* for every set of programs and every input.                              *)
(***************************************************************************)
EXTENDS Unordered, SequenceTheorems, FiniteSetTheorems, WellFoundedInduction, TLAPS

----------------------------------------------------------------------------
(* Data.                                                                   *)

(* A set of naturals has a least element.                                  *)
LEMMA Least ==
  ASSUME NEW T \in SUBSET Nat, T # {}
  PROVE  \E x \in T : \A y \in T : x <= y
<1>1. PICK x \in T : \A y \in T : ~(<<y, x>> \in OpToRel(<, Nat))
  BY NatLessThanWellFounded, WFMin
<1>2. ASSUME NEW y \in T PROVE x <= y
  <2>1. <<y, x>> \notin OpToRel(<, Nat)
    BY <1>1
  <2>2. <<y, x>> \in Nat \X Nat
    OBVIOUS
  <2>3. ~(y < x)
    BY <2>1, <2>2 DEF OpToRel
  <2> QED BY <2>3
<1> QED BY <1>2

(* A sequence, whatever its elements, has a length and a domain.           *)
LEMMA SequenceFacts ==
  ASSUME NEW s, IsSequence(s)
  PROVE  Len(s) \in Nat /\ DOMAIN s = 1..Len(s)
BY LenProperties DEF IsSequence

(* The words of a child.                                                   *)
LEMMA WordsFacts ==
  ASSUME NEW c, IsChild(c)
  PROVE  /\ Len(Words(c)) \in Nat
         /\ Words(c) = <<>> <=> Len(Words(c)) = 0
<1> DEFINE S == {c.body[k] : k \in DOMAIN c.body} \union {c.tag}
           t == IF c.tag = NoTag THEN <<>> ELSE <<c.tag>>
<1>1. c.body \in Seq(S)
  BY SeqMonotonic DEF IsChild, IsSequence
<1>2. t \in Seq(S)
  <2>1. <<c.tag>> \in Seq(S)
    OBVIOUS
  <2>2. <<>> \in Seq(S)
    OBVIOUS
  <2> QED BY <2>1, <2>2
<1>3. Words(c) = t \o c.body
  BY DEF Words
<1>4. Words(c) \in Seq(S)
  BY <1>1, <1>2, <1>3, ConcatProperties
<1>5. QED
  BY <1>4, LenProperties, EmptySeq

(* The input and the children of a program.                                *)
LEMMA Sizes ==
  ASSUME prog \in Programs, input \in Inputs
  PROVE  /\ Len(input) \in Nat /\ Len(input) < Unbounded /\ Unbounded \in Nat
         /\ Len(prog.kids) \in Nat /\ Kid = 1..Len(prog.kids)
         /\ \A i \in Kid : IsChild(prog.kids[i])
         /\ IsProgram(prog)
<1>1. IsProgram(prog) /\ IsSequence(input) /\ Len(input) < Unbounded
  BY ProgramsAssumption, InputsAssumption
<1>2. QED
  BY <1>1, SequenceFacts, BoundAssumption DEF IsProgram, Kid

(* A child is never matched beyond the end of the input.                   *)
LEMMA MatchedFits ==
  ASSUME prog \in Programs, input \in Inputs, NEW c, IsChild(c), NEW p \in 0..Len(input)
  PROVE  Matched(c, p) \in 0..Len(Words(c)) /\ p + Matched(c, p) <= Len(input)
<1> DEFINE W == Len(Words(c))
           Z == Len(input)
           Ends0(n) == n = W \/ p + n = Z \/ input[p + n + 1] # Words(c)[n + 1]
           T == {n \in 0..W : p + n <= Z /\ Ends0(n)}
<1>1. W \in Nat /\ Z \in Nat
  BY WordsFacts, Sizes
<1>2. T \in SUBSET Nat /\ T # {}
  <2>1. CASE W <= Z - p
    <3>1. W \in T
      BY <1>1, <2>1
    <3> QED BY <1>1, <3>1
  <2>2. CASE ~(W <= Z - p)
    <3>1. Z - p \in T
      BY <1>1, <2>2
    <3>2. T \in SUBSET Nat
      BY <1>1
    <3> HIDE DEF T
    <3> QED BY <3>1, <3>2
  <2> QED BY <2>1, <2>2
<1>3. PICK x \in T : \A y \in T : x <= y
  <2> HIDE DEF T
  <2> QED BY <1>2, Least
<1>4. \A k \in 1..x : input[p + k] = Words(c)[k]
  <2> SUFFICES ASSUME NEW k \in 1..x PROVE input[p + k] = Words(c)[k]
    OBVIOUS
  <2>1. x \in 0..W /\ p + x <= Z
    OBVIOUS
  <2>2. k - 1 \in 0..W /\ p + (k - 1) <= Z /\ k - 1 < x
    BY <1>1, <2>1
  <2>3. k - 1 \notin T
    <3> HIDE DEF T
    <3> QED BY <1>3, <2>1, <2>2
  <2>4. ~Ends0(k - 1)
    BY <2>2, <2>3
  <2>5. p + (k - 1) + 1 = p + k /\ (k - 1) + 1 = k
    BY <1>1, <2>1
  <2> QED BY <2>4, <2>5
<1>5. \E n \in 0..Len(Words(c)) :
        /\ p + n <= Len(input)
        /\ \A k \in 1..n : input[p + k] = Words(c)[k]
        /\ \/ n = Len(Words(c)) \/ p + n = Len(input)
           \/ input[p + n + 1] # Words(c)[n + 1]
  BY <1>4
<1>6. QED
  BY <1>5 DEF Matched

(* A child that matched ends within the input.                             *)
LEMMA CompleteFits ==
  ASSUME prog \in Programs, input \in Inputs, NEW c, IsChild(c), NEW p \in 0..Len(input),
         Complete(c, p)
  PROVE  After(c, p) \in p..Len(input)
BY MatchedFits, WordsFacts, Sizes DEF Complete, After

(* An occurrence that is there matched all its words.                      *)
LEMMA OccurrenceIsComplete ==
  ASSUME NEW c, NEW p, NEW m, Occurrence(c, p, m) = "ok"
  PROVE  Complete(c, p)
BY DEF Occurrence

(* The run of a token ends.                                                *)
LEMMA PastAllFacts ==
  ASSUME prog \in Programs, input \in Inputs, NEW t, NEW p \in 0..Len(input)
  PROVE  /\ PastAll(t, p) \in p..Len(input)
         /\ \A k \in (p + 1)..PastAll(t, p) : input[k] = t
<1> DEFINE Z == Len(input)
           T == {q \in p..Z : q = Z \/ input[q + 1] # t}
<1>1. Z \in Nat
  BY Sizes
<1>2. T \in SUBSET Nat /\ T # {}
  <2>1. Z \in T
    BY <1>1
  <2> QED BY <1>1, <2>1
<1>3. PICK x \in T : \A y \in T : x <= y
  <2> HIDE DEF T
  <2> QED BY <1>2, Least
<1>4. \A k \in (p + 1)..x : input[k] = t
  <2> SUFFICES ASSUME NEW k \in (p + 1)..x PROVE input[k] = t
    OBVIOUS
  <2>1. k - 1 \in p..Z /\ k - 1 < x /\ (k - 1) + 1 = k /\ x \in p..Z
    BY <1>1
  <2>2. k - 1 \notin T
    <3> HIDE DEF T
    <3> QED BY <1>3, <2>1
  <2>3. input[(k - 1) + 1] = t
    BY <2>1, <2>2
  <2> QED BY <2>1, <2>3
<1>5. \E q \in p..Len(input) :
        /\ \A k \in p + 1 .. q : input[k] = t
        /\ q = Len(input) \/ input[q + 1] # t
  BY <1>4
<1>6. QED
  BY <1>5 DEF PastAll

(* What lies before an item of a scan or of initiated content.             *)
LEMMA ItemStartFacts ==
  ASSUME prog \in Programs, input \in Inputs, prog.mode # "search", NEW p \in 0..Len(input)
  PROVE  /\ ItemStart(p) \in p..Len(input)
         /\ \A k \in (p + 1)..ItemStart(p) : input[k] \in {Separator, Newline, Terminator}
<1> DEFINE q == PastSeparators(p)
<1>1. Len(input) \in Nat
  BY Sizes
<1>2. q \in p..Len(input) /\ \A k \in (p + 1)..q : input[k] = Separator
  <2>1. /\ prog.mode \in {"scan", "initiated"}
        /\ prog.separated \in {"no", "prefix", "infix", "postfix"}
    BY Sizes DEF IsProgram
  <2>2. q \in {p, PastOne(Separator, p), PastAll(Separator, p)}
    BY <2>1 DEF PastSeparators
  <2>3. /\ PastOne(Separator, p) \in p..Len(input)
        /\ \A k \in (p + 1)..PastOne(Separator, p) : input[k] = Separator
    BY <1>1 DEF PastOne
  <2>4. p \in p..Len(input) /\ \A k \in (p + 1)..p : FALSE
    BY <1>1
  <2> HIDE DEF q
  <2> QED BY <2>2, <2>3, <2>4, PastAllFacts
<1> HIDE DEF q
<1>3. CASE ItemStart(p) = q
  BY <1>2, <1>3
<1>4. CASE ItemStart(p) = PastAll(Newline, q)
  <2>1. q \in 0..Len(input)
    BY <1>1, <1>2
  <2>2. /\ ItemStart(p) \in q..Len(input)
        /\ \A k \in (q + 1)..ItemStart(p) : input[k] = Newline
    BY <1>4, <2>1, PastAllFacts
  <2> QED BY <1>1, <1>2, <2>2
<1>5. QED
  BY <1>3, <1>4 DEF ItemStart, q

----------------------------------------------------------------------------
(* Items that lie side by side.                                            *)

Disjoint(a, b) == a.to <= b.from \/ b.to <= a.from

Delimits(k) == input[k] \in {Separator, Newline, Terminator}

(* The items of map m end before p, no two of them share a token, and each *)
(* token before p is in one of them or delimits.                           *)
Tiled(m, p) ==
  /\ \A i \in Kid : \A n \in 1..Len(m[i]) : m[i][n].from <= m[i][n].to /\ m[i][n].to <= p
  /\ \A i, j \in Kid : \A n \in 1..Len(m[i]), r \in 1..Len(m[j]) :
       i # j \/ n # r => Disjoint(m[i][n], m[j][r])
  /\ \A k \in 1..p :
       \/ \E i \in Kid : \E n \in 1..Len(m[i]) : m[i][n].from < k /\ k <= m[i][n].to
       \/ Delimits(k)

Maps == [Kid -> Seq(Span)]

(* A map with one more item of child i.                                    *)
LEMMA AddFacts ==
  ASSUME NEW m \in Maps, NEW i \in Kid, NEW f \in Nat, NEW t \in Nat
  PROVE  /\ Add(m, i, f, t) \in Maps
         /\ \A j \in Kid : Len(m[j]) \in Nat
         /\ \A j \in Kid \ {i} : Add(m, i, f, t)[j] = m[j]
         /\ Len(Add(m, i, f, t)[i]) = Len(m[i]) + 1
         /\ \A n \in 1..Len(m[i]) : Add(m, i, f, t)[i][n] = m[i][n]
         /\ Add(m, i, f, t)[i][Len(m[i]) + 1] = [from |-> f, to |-> t]
<1> DEFINE s == [from |-> f, to |-> t]
<1>1. s \in Span
  BY DEF Span
<1>2. \A j \in Kid : m[j] \in Seq(Span)
  BY DEF Maps
<1>3. Add(m, i, f, t) = [m EXCEPT ![i] = Append(m[i], s)]
  BY DEF Add
<1>4. /\ Append(m[i], s) \in Seq(Span) /\ Len(m[i]) \in Nat
      /\ Len(Append(m[i], s)) = Len(m[i]) + 1
      /\ \A n \in 1..Len(m[i]) : Append(m[i], s)[n] = m[i][n]
      /\ Append(m[i], s)[Len(m[i]) + 1] = s
  BY <1>1, <1>2, AppendProperties
<1> HIDE DEF s
<1>5. Add(m, i, f, t)[i] = Append(m[i], s)
  BY <1>3 DEF Maps
<1>6. Add(m, i, f, t) \in Maps
  BY <1>3, <1>4 DEF Maps
<1>7. \A j \in Kid : Len(m[j]) \in Nat
  BY <1>2
<1>8. \A j \in Kid \ {i} : Add(m, i, f, t)[j] = m[j]
  BY <1>3 DEF Maps
<1>9. QED
  BY <1>4, <1>5, <1>6, <1>7, <1>8 DEF s

(* Delimiters after the items.                                             *)
LEMMA TiledSkip ==
  ASSUME NEW m \in Maps, NEW p \in Nat, Tiled(m, p), NEW q \in Nat, p <= q,
         \A k \in (p + 1)..q : Delimits(k)
  PROVE  Tiled(m, q)
<1>0. \A i \in Kid : \A n \in 1..Len(m[i]) : m[i][n] \in Span
  BY DEF Maps
<1>1. \A i \in Kid : \A n \in 1..Len(m[i]) : m[i][n].from <= m[i][n].to /\ m[i][n].to <= q
  BY <1>0 DEF Tiled, Span
<1>2. ASSUME NEW k \in 1..q
      PROVE  \/ \E i \in Kid : \E n \in 1..Len(m[i]) : m[i][n].from < k /\ k <= m[i][n].to
             \/ Delimits(k)
  <2>1. k \in 1..p \/ k \in (p + 1)..q
    OBVIOUS
  <2> QED BY <2>1 DEF Tiled
<1>3. QED
  BY <1>1, <1>2 DEF Tiled

(* And an item after them.                                                 *)
LEMMA TiledAdd ==
  ASSUME NEW m \in Maps, NEW f \in Nat, Tiled(m, f), NEW i \in Kid, NEW t \in Nat, f <= t
  PROVE  Tiled(Add(m, i, f, t), t)
<1> DEFINE a == Add(m, i, f, t)
           s == [from |-> f, to |-> t]
           L == Len(m[i])
<1>0. /\ \A j \in Kid : Len(m[j]) \in Nat
      /\ \A j \in Kid : \A n \in 1..Len(m[j]) : m[j][n] \in Span
  BY AddFacts DEF Maps
<1>1. /\ \A j \in Kid \ {i} : a[j] = m[j]
      /\ Len(a[i]) = L + 1
      /\ \A n \in 1..L : a[i][n] = m[i][n]
      /\ a[i][L + 1] = s
  BY AddFacts
<1> HIDE DEF a
<1>2. ASSUME NEW j \in Kid, NEW n \in 1..Len(a[j])
      PROVE  \/ n \in 1..Len(m[j]) /\ a[j][n] = m[j][n]
             \/ j = i /\ n = L + 1 /\ a[j][n] = s
  <2>1. CASE j # i
    BY <1>1, <2>1
  <2>2. CASE j = i
    <3>1. n \in 1..L \/ n = L + 1
      BY <1>0, <1>1, <2>2
    <3> QED BY <1>1, <2>2, <3>1
  <2> QED BY <2>1, <2>2
<1>3. s.from = f /\ s.to = t
  OBVIOUS
<1> HIDE DEF s, L
<1>4. \A j \in Kid : \A n \in 1..Len(m[j]) :
        /\ m[j][n].from \in Nat /\ m[j][n].to \in Nat
        /\ m[j][n].from <= m[j][n].to /\ m[j][n].to <= f
  BY <1>0 DEF Tiled, Span
<1>5. \A j \in Kid : \A n \in 1..Len(a[j]) : a[j][n].from <= a[j][n].to /\ a[j][n].to <= t
  BY <1>2, <1>3, <1>4
<1>6. ASSUME NEW j \in Kid, NEW k \in Kid, NEW n \in 1..Len(a[j]), NEW r \in 1..Len(a[k]),
             j # k \/ n # r
      PROVE  Disjoint(a[j][n], a[k][r])
  <2>1. CASE n \in 1..Len(m[j]) /\ a[j][n] = m[j][n] /\ r \in 1..Len(m[k]) /\ a[k][r] = m[k][r]
    BY <1>6, <2>1 DEF Tiled
  <2>2. CASE n \in 1..Len(m[j]) /\ a[j][n] = m[j][n] /\ a[k][r] = s
    BY <1>3, <1>4, <2>2 DEF Disjoint
  <2>3. CASE a[j][n] = s /\ r \in 1..Len(m[k]) /\ a[k][r] = m[k][r]
    BY <1>3, <1>4, <2>3 DEF Disjoint
  <2>4. ~(j = i /\ n = L + 1 /\ k = i /\ r = L + 1)
    BY <1>6
  <2> QED BY <1>2, <2>1, <2>2, <2>3, <2>4
<1>7. ASSUME NEW k \in 1..t
      PROVE  \/ \E j \in Kid : \E n \in 1..Len(a[j]) : a[j][n].from < k /\ k <= a[j][n].to
             \/ Delimits(k)
  <2>1. CASE k \in 1..f
    <3>1. CASE Delimits(k)
      BY <3>1
    <3>2. CASE \E j \in Kid : \E n \in 1..Len(m[j]) : m[j][n].from < k /\ k <= m[j][n].to
      <4>1. PICK j \in Kid : \E n \in 1..Len(m[j]) : m[j][n].from < k /\ k <= m[j][n].to
        BY <3>2
      <4>2. PICK n \in 1..Len(m[j]) : m[j][n].from < k /\ k <= m[j][n].to
        BY <4>1
      <4>3. n \in 1..Len(a[j]) /\ a[j][n] = m[j][n]
        BY <1>0, <1>1 DEF L
      <4> QED BY <4>2, <4>3
    <3> QED BY <2>1, <3>1, <3>2 DEF Tiled
  <2>2. CASE k > f
    <3>1. L + 1 \in 1..Len(a[i])
      BY <1>0, <1>1 DEF L
    <3> QED BY <1>1, <1>3, <2>2, <3>1
  <2> QED BY <2>1, <2>2
<1>8. QED
  BY <1>5, <1>6, <1>7 DEF Tiled, a

----------------------------------------------------------------------------
(* The levels of the search.                                               *)

(* The children visited by the levels below the k-th of stack s.           *)
Before(s, k) == {s[j].i : j \in 1..(k - 1)}

(* A level starts where items lie side by side; all levels but the last    *)
(* have a child visited, which no level below has.                         *)
LevelOK(s, k) ==
  /\ s[k].pos \in 0..Len(input) /\ Tiled(s[k].map, s[k].pos)
  /\ s[k].i = 0 \/ s[k].i \in Kid
  /\ s[k].phase # "trying" => s[k].i \in Kid \ Before(s, k)
  /\ k < Len(s) <=> s[k].phase = "visited"

StackOK(s) == s \in Seq(Level) /\ \A k \in 1..Len(s) : LevelOK(s, k)

(* The stack without its last level.                                       *)
LEMMA TopLevel ==
  ASSUME levels \in Seq(Level), levels # <<>>
  PROVE  /\ Len(levels) \in Nat /\ Len(levels) > 0
         /\ Top = levels[Len(levels)] /\ Top \in Level
         /\ Below \in Seq(Level) /\ Len(Below) = Len(levels) - 1
         /\ \A k \in 1..(Len(levels) - 1) : Below[k] = levels[k]
         /\ \A k \in 1..Len(levels) : levels[k] \in Level
<1>1. Len(levels) \in Nat /\ Len(levels) > 0
  BY EmptySeq
<1>2. \A k \in 1..Len(levels) : levels[k] \in Level
  BY ElementOfSeq
<1>3. /\ Below \in Seq(Level) /\ Len(Below) = Len(levels) - 1
      /\ \A k \in 1..(Len(levels) - 1) : Below[k] = levels[k]
  <2> DEFINE z == Len(levels)
             n == z - 1
  <2>0. z \in Nat /\ z > 0
    BY <1>1
  <2> HIDE DEF z
  <2>1. /\ n \in Nat /\ n - 1 + 1 = n /\ (1 <= n \/ n = 0)
        /\ \A k \in 1..n : k \in 1..z
    BY <2>0
  <2> HIDE DEF n
  <2>2. /\ SubSeq(levels, 1, n) \in Seq(Level)
        /\ Len(SubSeq(levels, 1, n)) = IF 1 <= n THEN n - 1 + 1 ELSE 0
        /\ \A k \in 1..(n - 1 + 1) : SubSeq(levels, 1, n)[k] = levels[1 + k - 1]
    <3>1. \A k \in 1..n : levels[k] \in Level
      BY <1>2, <2>1 DEF z
    <3> QED BY <2>1, <3>1, SubSeqProperties
  <2>3. \A k \in 1..n : 1 + k - 1 = k
    OBVIOUS
  <2> QED BY <2>1, <2>2, <2>3 DEF Below, n, z
<1>4. QED
  BY <1>1, <1>2, <1>3 DEF Top

(* Its last level replaced.                                                *)
LEMMA SetTopLevel ==
  ASSUME levels \in Seq(Level), levels # <<>>, NEW l \in Level
  PROVE  /\ SetTop(l) \in Seq(Level) /\ Len(SetTop(l)) = Len(levels)
         /\ SetTop(l)[Len(levels)] = l
         /\ \A k \in 1..(Len(levels) - 1) : SetTop(l)[k] = levels[k]
BY TopLevel, AppendProperties DEF SetTop

(* And another level above it.                                             *)
LEMMA PushLevel ==
  ASSUME levels \in Seq(Level), levels # <<>>, NEW l \in Level, NEW h \in Level
  PROVE  LET s == Append(SetTop(l), h) IN
         /\ s \in Seq(Level) /\ Len(s) = Len(levels) + 1
         /\ s[Len(levels) + 1] = h /\ s[Len(levels)] = l
         /\ \A k \in 1..(Len(levels) - 1) : s[k] = levels[k]
<1>1. Len(levels) \in Nat /\ Len(levels) > 0
  BY TopLevel
<1>2. QED
  BY <1>1, SetTopLevel, AppendProperties

(* Stacks with the same children below a level have visited the same.      *)
LEMMA SameBefore ==
  ASSUME NEW s, NEW t, NEW n \in Nat, \A j \in 1..(n - 1) : s[j].i = t[j].i
  PROVE  \A k \in 1..n : Before(s, k) = Before(t, k)
<1> SUFFICES ASSUME NEW k \in 1..n PROVE Before(s, k) = Before(t, k)
  OBVIOUS
<1>1. \A j \in 1..(k - 1) : s[j].i = t[j].i
  OBVIOUS
<1>2. QED
  BY <1>1 DEF Before

(* The level in use has another child, or another phase.                   *)
LEMMA ReplaceOK ==
  ASSUME StackOK(levels), levels # <<>>, NEW l \in Level,
         l.pos = Top.pos, l.map = Top.map, l.phase # "visited", l.i = 0 \/ l.i \in Kid,
         l.phase = "taking" => l.i \in Kid \ Before(levels, Len(levels))
  PROVE  StackOK(SetTop(l))
<1> DEFINE n == Len(levels)
           s == SetTop(l)
<1>1. /\ n \in Nat /\ n > 0 /\ Top = levels[n]
      /\ s \in Seq(Level) /\ Len(s) = n /\ s[n] = l
      /\ \A k \in 1..(n - 1) : s[k] = levels[k]
  BY TopLevel, SetTopLevel DEF StackOK
<1>2. \A k \in 1..n : LevelOK(levels, k)
  BY DEF StackOK
<1> HIDE DEF n, s
<1>3. \A k \in 1..n : Before(s, k) = Before(levels, k)
  <2>1. \A j \in 1..(n - 1) : s[j].i = levels[j].i
    BY <1>1
  <2>2. n \in Nat
    BY <1>1
  <2> QED BY <2>1, <2>2, SameBefore
<1>4. ASSUME NEW k \in 1..n PROVE LevelOK(s, k)
  <2>1. CASE k # n
    <3>1. s[k] = levels[k] /\ k < n
      BY <1>1, <2>1
    <3> QED BY <1>1, <1>2, <1>3, <3>1 DEF LevelOK, n
  <2>2. CASE k = n
    <3>1. /\ l.pos \in 0..Len(input) /\ Tiled(l.map, l.pos)
      BY <1>1, <1>2 DEF LevelOK
    <3>2. l.phase # "trying" => l.i \in Kid \ Before(s, n)
      <4>1. l.phase \in {"trying", "taking", "visited"}
        BY DEF Level
      <4> QED BY <1>1, <1>3, <4>1 DEF n
    <3> QED BY <1>1, <2>2, <3>1, <3>2 DEF LevelOK
  <2> QED BY <2>1, <2>2
<1>5. QED
  BY <1>1, <1>4 DEF StackOK, s

(* Its child is visited, and a new level searches for the rest.            *)
LEMMA DescendOK ==
  ASSUME StackOK(levels), levels # <<>>, NEW l \in Level,
         l.pos = Top.pos, l.map = Top.map, l.phase = "visited",
         l.i \in Kid \ Before(levels, Len(levels)),
         NEW p \in Nat, p \in 0..Len(input), NEW m \in Maps, Tiled(m, p)
  PROVE  StackOK(Append(SetTop(l), NewLevel(p, m)))
<1> DEFINE n == Len(levels)
           h == NewLevel(p, m)
           s == Append(SetTop(l), h)
<1>1. h \in Level /\ h.i = 0 /\ h.pos = p /\ h.map = m /\ h.phase = "trying"
  BY DEF NewLevel, Level, Maps
<1>2. /\ n \in Nat /\ n > 0 /\ Top = levels[n]
      /\ s \in Seq(Level) /\ Len(s) = n + 1 /\ s[n] = l /\ s[n + 1] = h
      /\ \A k \in 1..(n - 1) : s[k] = levels[k]
  <2>1. levels \in Seq(Level) /\ h \in Level
    BY <1>1 DEF StackOK
  <2>2. n \in Nat /\ n > 0 /\ Top = levels[n]
    BY <2>1, TopLevel
  <2> HIDE DEF h
  <2> QED BY <2>1, <2>2, PushLevel
<1>3. \A k \in 1..n : LevelOK(levels, k)
  BY DEF StackOK
<1>4. l.i \in Kid \ Before(levels, n)
  OBVIOUS
<1> HIDE DEF n, s, h
<1>5. \A k \in 1..n : Before(s, k) = Before(levels, k)
  <2>1. \A j \in 1..(n - 1) : s[j].i = levels[j].i
    BY <1>2
  <2> QED BY <1>2, <2>1, SameBefore
<1>6. ASSUME NEW k \in 1..(n + 1) PROVE LevelOK(s, k)
  <2>1. CASE k < n
    <3>1. s[k] = levels[k] /\ k \in 1..n
      BY <1>2, <2>1
    <3>2. k < Len(s) /\ k < Len(levels)
      BY <1>2, <2>1 DEF n
    <3> QED BY <1>3, <1>5, <3>1, <3>2 DEF LevelOK
  <2>2. CASE k = n
    <3>1. l.pos \in 0..Len(input) /\ Tiled(l.map, l.pos)
      BY <1>2, <1>3 DEF LevelOK
    <3>2. n < Len(s) /\ n \in 1..n
      BY <1>2
    <3> QED BY <1>2, <1>4, <1>5, <2>2, <3>1, <3>2 DEF LevelOK
  <2>3. CASE k = n + 1
    BY <1>1, <1>2, <2>3 DEF LevelOK
  <2> QED BY <1>2, <2>1, <2>2, <2>3
<1>7. QED
  BY <1>2, <1>6 DEF StackOK, s, h

(* It is given up, and the level below goes on.                            *)
LEMMA PopOK ==
  ASSUME StackOK(levels), levels # <<>>, Len(levels) # 1
  PROVE  LET n == Len(levels)
             s == [Below EXCEPT ![Len(Below)].phase = "trying"] IN
         /\ StackOK(s) /\ Len(s) = n - 1 /\ s # <<>> /\ n \in Nat /\ n > 1
         /\ Below[Len(Below)] = levels[n - 1] /\ levels[n - 1] \in Level
         /\ \A k \in 1..(n - 2) : s[k] = levels[k]
         /\ s[n - 1] = [levels[n - 1] EXCEPT !.phase = "trying"]
<1> DEFINE n == Len(levels)
           l == [levels[n - 1] EXCEPT !.phase = "trying"]
           s == [Below EXCEPT ![n - 1] = l]
<1>1. /\ n \in Nat /\ n > 1 /\ Len(Below) = n - 1 /\ Below \in Seq(Level)
      /\ \A k \in 1..(n - 1) : Below[k] = levels[k]
      /\ levels[n - 1] \in Level
  BY TopLevel DEF StackOK
<1>2. /\ l \in Level /\ l.i = levels[n - 1].i /\ l.pos = levels[n - 1].pos
      /\ l.map = levels[n - 1].map /\ l.phase = "trying"
  BY <1>1 DEF Level
<1>3. [Below EXCEPT ![Len(Below)].phase = "trying"] = s
  <2>1. Below[Len(Below)] = levels[n - 1]
    BY <1>1
  <2> QED BY <1>1, <2>1
<1>4. \A k \in 1..n : LevelOK(levels, k)
  BY DEF StackOK
<1> HIDE DEF l
<1>5. /\ s \in Seq(Level) /\ Len(s) = n - 1 /\ s[n - 1] = l
      /\ \A k \in 1..(n - 2) : s[k] = levels[k]
  BY <1>1, <1>2, ExceptSeq
<1> HIDE DEF n, s
<1>6. \A k \in 1..(n - 1) : Before(s, k) = Before(levels, k)
  <2>1. \A k \in 1..((n - 1) - 1) : s[k].i = levels[k].i
    BY <1>1, <1>5
  <2>2. n - 1 \in Nat
    BY <1>1
  <2> QED BY <2>1, <2>2, SameBefore
<1>7. ASSUME NEW k \in 1..(n - 1) PROVE LevelOK(s, k)
  <2>0. k \in 1..n /\ LevelOK(levels, k) /\ k < n
    BY <1>1, <1>4
  <2>1. CASE k # n - 1
    <3>1. s[k] = levels[k] /\ k < Len(s) /\ k < Len(levels)
      BY <1>1, <1>5, <2>1 DEF n
    <3> QED BY <1>6, <2>0, <3>1 DEF LevelOK
  <2>2. CASE k = n - 1
    <3>1. l.pos \in 0..Len(input) /\ Tiled(l.map, l.pos) /\ (l.i = 0 \/ l.i \in Kid)
      BY <1>2, <2>0, <2>2 DEF LevelOK
    <3>2. ~(n - 1 < Len(s))
      BY <1>1, <1>5
    <3> QED BY <1>2, <1>5, <2>2, <3>1, <3>2 DEF LevelOK
  <2> QED BY <2>1, <2>2
<1>8. StackOK(s)
  BY <1>5, <1>7 DEF StackOK
<1>9. s # <<>>
  BY <1>1, <1>5, EmptySeq
<1>10. Below[Len(Below)] = levels[n - 1]
  BY <1>1
<1>11. /\ StackOK([Below EXCEPT ![Len(Below)].phase = "trying"])
       /\ Len([Below EXCEPT ![Len(Below)].phase = "trying"]) = n - 1
       /\ [Below EXCEPT ![Len(Below)].phase = "trying"] # <<>>
       /\ \A k \in 1..(n - 2) : [Below EXCEPT ![Len(Below)].phase = "trying"][k] = levels[k]
       /\ [Below EXCEPT ![Len(Below)].phase = "trying"][n - 1] = l
  BY <1>3, <1>5, <1>8, <1>9
<1>12. QED
  BY <1>1, <1>10, <1>11 DEF l, n

----------------------------------------------------------------------------
(* The inductive invariant.                                                *)

Modes ==
  /\ signal = "search" <=> levels # <<>>
  /\ signal = "search" => prog.mode = "search"
  /\ signal = "scan" => prog.mode # "search"
  /\ signal = "header" => pos = 0 /\ lower = 1 /\ \A i \in Kid : map[i] = <<>>

Base == TypeOK /\ Tiled(map, pos) /\ StackOK(levels) /\ Modes

(* The invariant after a step that has map m, cursor p and stack s.        *)
LEMMA Tomorrow ==
  ASSUME TypeOK, UNCHANGED <<prog, input>>,
         NEW m \in Maps, NEW p \in 0..Len(input), NEW s,
         m = map', p = pos', s = levels', Tiled(m, p), StackOK(s),
         lower' \in Nat, signal' \in {"header", "scan", "search", "ok", "fail"},
         sticky' \in BOOLEAN, decodes' \in 1..MaxDecodes,
         signal' = "search" <=> s # <<>>,
         signal' = "search" => prog.mode = "search",
         signal' = "scan" => prog.mode # "search",
         signal' = "header" => p = 0 /\ lower' = 1 /\ \A i \in Kid : m[i] = <<>>
  PROVE  Base'
<1>1. Kid' = Kid /\ input' = input /\ prog' = prog
  BY DEF Kid
<1>2. Span' = Span
  BY DEF Span
<1>3. Level' = Level
  BY <1>1, <1>2 DEF Level
<1>4. TypeOK'
  <2>1. s \in Seq(Level)
    BY DEF StackOK
  <2>2. prog' \in Programs /\ input' \in Inputs
    BY DEF TypeOK
  <2>3. map' \in [Kid' -> Seq(Span')]
    BY <1>1, <1>2 DEF Maps
  <2>4. levels' \in Seq(Level') /\ pos' \in 0..Len(input')
    BY <1>1, <1>3, <2>1
  <2> QED BY <2>2, <2>3, <2>4 DEF TypeOK
<1>5. \A k : Delimits(k)' <=> Delimits(k)
  BY <1>1 DEF Delimits
<1>6. Tiled(map, pos)'
  <2>1. \A i \in Kid' : \A n \in 1..Len(map'[i]) :
          map'[i][n].from <= map'[i][n].to /\ map'[i][n].to <= pos'
    BY <1>1 DEF Tiled
  <2>2. \A i, j \in Kid' : \A n \in 1..Len(map'[i]), r \in 1..Len(map'[j]) :
          i # j \/ n # r => Disjoint(map'[i][n], map'[j][r])
    BY <1>1 DEF Tiled
  <2>3. \A k \in 1..pos' :
          \/ \E i \in Kid' : \E n \in 1..Len(map'[i]) : map'[i][n].from < k /\ k <= map'[i][n].to
          \/ Delimits(k)'
    BY <1>1, <1>5 DEF Tiled
  <2> QED BY <2>1, <2>2, <2>3 DEF Tiled, Disjoint
<1>7. \A k \in 1..Len(levels') : LevelOK(levels, k)'
  <2> SUFFICES ASSUME NEW k \in 1..Len(s) PROVE LevelOK(levels, k)'
    OBVIOUS
  <2>1. LevelOK(s, k)
    BY DEF StackOK
  <2>2. \A a, b : Tiled(a, b)' <=> Tiled(a, b)
    BY <1>1 DEF Tiled, Delimits, Disjoint
  <2>3. \A a, j : Before(a, j)' = Before(a, j)
    BY DEF Before
  <2>4. LevelOK(levels, k)' <=> LevelOK(s, k)
    BY <1>1, <2>2, <2>3 DEF LevelOK
  <2> QED BY <2>1, <2>4
<1>8. StackOK(levels)'
  BY <1>3, <1>7 DEF StackOK
<1>9. Modes'
  BY <1>1 DEF Modes
<1>10. QED
  BY <1>4, <1>6, <1>8, <1>9 DEF Base

----------------------------------------------------------------------------
(* A round of the scan and of initiated content.                           *)

(* The round ends the sequence, with what its children require, or fails,  *)
(* or adds the item of a candidate after the delimiters before it.         *)
RoundEnds(p) ==
  /\ signal' = "ok" /\ EnoughOfEach(map) /\ UNCHANGED <<map, lower>>
  /\ pos' \in p..Len(input) /\ \A k \in (p + 1)..pos' : Delimits(k)

RoundFails(p) ==
  signal' = "fail" /\ UNCHANGED <<map, lower>> /\ pos' \in {pos, p}

RoundAdds(p) ==
  \E i \in Candidates(p) :
    /\ pos' \in p..Len(input) /\ map' = Add(map, i, p, pos')
    /\ lower' \in {i, i + 1} /\ UNCHANGED signal

(* What ends a sequence consumes a terminator at most.                     *)
LEMMA FinishFacts ==
  ASSUME TypeOK, NEW p \in 0..Len(input), NEW enough \in BOOLEAN, Finish(p, enough)
  PROVE  \/ /\ signal' = "ok" /\ enough /\ pos' \in p..Len(input)
            /\ \A k \in (p + 1)..pos' : Delimits(k)
         \/ signal' = "fail" /\ pos' = p
<1>1. Len(input) \in Nat
  BY Sizes DEF TypeOK
<1>2. PastTerminator(p) # -1 =>
        /\ PastTerminator(p) \in p..Len(input)
        /\ \A k \in (p + 1)..PastTerminator(p) : Delimits(k)
  BY <1>1 DEF PastTerminator, Delimits
<1>3. QED
  BY <1>2 DEF Finish

(* The first of a set of children.                                         *)
LEMMA FirstFacts ==
  ASSUME NEW T \in SUBSET Nat, T # {}
  PROVE  First(T) \in T /\ \A j \in T : First(T) <= j
BY Least DEF First

(* Every round is one of the three.                                        *)
LEMMA RoundFacts ==
  ASSUME Base, prog.mode # "search", Round
  PROVE  \E p \in pos..Len(input) :
           /\ p = ItemStart(pos)
           /\ \A k \in (pos + 1)..p : Delimits(k)
           /\ RoundEnds(p) \/ RoundFails(p) \/ RoundAdds(p)
<1> DEFINE p == ItemStart(pos)
           open == {i \in Candidates(p) : ~LeavesTurn(i, p)}
           f == First(open)
           c == prog.kids[f]
<1>1. /\ prog \in Programs /\ input \in Inputs /\ pos \in 0..Len(input)
      /\ Len(input) \in Nat /\ Kid \subseteq Nat /\ \A i \in Kid : IsChild(prog.kids[i])
  BY Sizes DEF Base, TypeOK
<1>2. p \in pos..Len(input) /\ \A k \in (pos + 1)..p : Delimits(k)
  BY <1>1, ItemStartFacts DEF Delimits
<1>3. p \in 0..Len(input)
  BY <1>1, <1>2
<1>4. open \subseteq Candidates(p) /\ Candidates(p) \subseteq Kid
  BY DEF Candidates
<1>5. \/ Finish(p, EnoughOfEach(map)) /\ UNCHANGED <<map, lower>>
      \/ /\ open # {} /\ Complete(c, p)
         /\ map' = Add(map, f, p, After(c, p)) /\ pos' = After(c, p)
         /\ lower' = IF Repeating(c) THEN f ELSE f + 1
         /\ UNCHANGED signal
      \/ signal' = "fail" /\ UNCHANGED <<map, pos, lower>>
  BY DEF Round
<1> HIDE DEF p, open, c, f
<1>6. CASE Finish(p, EnoughOfEach(map)) /\ UNCHANGED <<map, lower>>
  <2>1. EnoughOfEach(map) \in BOOLEAN
    BY DEF EnoughOfEach
  <2>2. RoundEnds(p) \/ RoundFails(p)
    BY <1>3, <1>6, <2>1, FinishFacts DEF Base, RoundEnds, RoundFails
  <2> QED BY <1>2, <2>2 DEF p
<1>7. CASE /\ open # {} /\ Complete(c, p)
           /\ map' = Add(map, f, p, After(c, p)) /\ pos' = After(c, p)
           /\ lower' = IF Repeating(c) THEN f ELSE f + 1
           /\ UNCHANGED signal
  <2>1. f \in open
    <3>1. open \in SUBSET Nat
      BY <1>1, <1>4
    <3> QED BY <1>7, <3>1, FirstFacts DEF f
  <2>2. f \in Candidates(p) /\ IsChild(c)
    BY <1>1, <1>4, <2>1 DEF c
  <2>3. After(c, p) \in p..Len(input)
    BY <1>1, <1>3, <1>7, <2>2, CompleteFits
  <2>4. RoundAdds(p)
    BY <1>7, <2>2, <2>3 DEF RoundAdds
  <2> QED BY <1>2, <2>4 DEF p
<1>8. CASE signal' = "fail" /\ UNCHANGED <<map, pos, lower>>
  <2>1. RoundFails(p)
    BY <1>8 DEF RoundFails
  <2> QED BY <1>2, <2>1 DEF p
<1>9. QED
  BY <1>5, <1>6, <1>7, <1>8

(* No level, nothing to show.                                              *)
LEMMA StackEmpty == ASSUME NEW s, s = <<>> PROVE StackOK(s)
<1>1. s \in Seq(Level) /\ Len(s) = 0
  BY EmptySeq
<1>2. QED
  BY <1>1 DEF StackOK

(* A round keeps the invariant.                                            *)
LEMMA RoundBase ==
  ASSUME Base, signal = "scan", Round, UNCHANGED <<prog, input, levels, decodes>>
  PROVE  Base'
<1>1. PICK p \in pos..Len(input) :
        /\ \A k \in (pos + 1)..p : Delimits(k)
        /\ RoundEnds(p) \/ RoundFails(p) \/ RoundAdds(p)
  BY RoundFacts DEF Base, Modes
<1>2. /\ TypeOK /\ map \in Maps /\ pos \in 0..Len(input) /\ lower \in Nat
      /\ Tiled(map, pos) /\ levels = <<>> /\ prog.mode # "search"
      /\ Len(input) \in Nat /\ Kid \subseteq Nat
  BY Sizes DEF Base, Modes, TypeOK, Maps
<1>3. StackOK(levels') /\ levels' = <<>>
  BY <1>2, StackEmpty
<1>4. p \in 0..Len(input) /\ p \in Nat /\ pos \in Nat /\ Tiled(map, p)
  <2>1. p \in 0..Len(input) /\ p \in Nat /\ pos \in Nat /\ pos <= p
    BY <1>2
  <2> QED BY <1>1, <1>2, <2>1, TiledSkip
<1>5. /\ decodes' \in 1..MaxDecodes /\ sticky' \in BOOLEAN
  <2> DEFINE q == ItemStart(pos)
             open == {i \in Candidates(q) : ~LeavesTurn(i, q)}
             tried == {i \in Candidates(q) : open = {} \/ i <= First(open)}
  <2>1. sticky' = (sticky \/ MayCommit(tried, q))
    BY DEF Round
  <2> HIDE DEF tried
  <2>2. sticky' \in BOOLEAN
    BY <2>1 DEF MayCommit
  <2> QED BY <1>2, <2>2 DEF TypeOK
<1>6. CASE RoundEnds(p)
  <2>1. /\ map' \in Maps /\ pos' \in p..Len(input) /\ lower' \in Nat /\ signal' = "ok"
        /\ \A k \in (p + 1)..pos' : Delimits(k)
        /\ Tiled(map', p)
    BY <1>2, <1>4, <1>6 DEF RoundEnds
  <2>2. pos' \in Nat /\ p <= pos' /\ pos' \in 0..Len(input)
    BY <1>2, <1>4, <2>1
  <2>3. Tiled(map', pos')
    BY <1>4, <2>1, <2>2, TiledSkip
  <2> QED BY <1>2, <1>3, <1>5, <2>1, <2>2, <2>3, Tomorrow
<1>7. CASE RoundFails(p)
  <2>1. /\ map' \in Maps /\ pos' \in 0..Len(input) /\ lower' \in Nat /\ signal' = "fail"
        /\ Tiled(map', pos')
    BY <1>2, <1>4, <1>7 DEF RoundFails
  <2> QED BY <1>2, <1>3, <1>5, <2>1, Tomorrow
<1>8. CASE RoundAdds(p)
  <2>1. PICK i \in Candidates(p) :
          /\ pos' \in p..Len(input) /\ map' = Add(map, i, p, pos')
          /\ lower' \in {i, i + 1} /\ UNCHANGED signal
    BY <1>8 DEF RoundAdds
  <2>2. i \in Kid /\ lower' \in Nat
    <3>1. i \in Kid
      BY <2>1 DEF Candidates
    <3>2. i \in Nat
      BY <1>2, <3>1
    <3> QED BY <2>1, <3>1, <3>2
  <2>3. pos' \in Nat /\ p <= pos' /\ pos' \in 0..Len(input)
    BY <1>2, <1>4, <2>1
  <2>4. map' \in Maps
    BY <1>2, <1>4, <2>1, <2>2, <2>3, AddFacts
  <2>5. Tiled(map', pos')
    BY <1>2, <1>4, <2>1, <2>2, <2>3, TiledAdd
  <2> QED BY <1>2, <1>3, <1>5, <2>1, <2>2, <2>3, <2>4, <2>5, Tomorrow
<1>9. QED
  BY <1>1, <1>6, <1>7, <1>8

----------------------------------------------------------------------------
(* The steps of the search.                                                *)

(* What is known of the level in use.                                      *)
LEMMA TopFacts ==
  ASSUME Base, signal = "search"
  PROVE  /\ TypeOK /\ levels # <<>> /\ levels \in Seq(Level) /\ StackOK(levels)
         /\ map \in Maps /\ pos \in 0..Len(input) /\ pos \in Nat /\ Len(input) \in Nat
         /\ lower \in Nat /\ sticky \in BOOLEAN /\ decodes \in 1..MaxDecodes
         /\ Tiled(map, pos) /\ prog.mode = "search"
         /\ Top \in Level /\ Top.map \in Maps /\ Top.pos \in 0..Len(input)
         /\ Tiled(Top.map, Top.pos)
         /\ Top.i = 0 \/ Top.i \in Kid
         /\ Top.phase \in {"trying", "taking"}
         /\ Top.phase = "taking" => Top.i \in Kid \ Before(levels, Len(levels))
         /\ Visited = Before(levels, Len(levels))
         /\ \A i \in Kid : i \in Nat /\ IsChild(prog.kids[i])
<1>1. /\ TypeOK /\ levels # <<>> /\ levels \in Seq(Level) /\ StackOK(levels)
      /\ map \in Maps /\ pos \in 0..Len(input)
      /\ lower \in Nat /\ sticky \in BOOLEAN /\ decodes \in 1..MaxDecodes
      /\ Tiled(map, pos) /\ prog.mode = "search"
  BY DEF Base, Modes, TypeOK, Maps
<1>2. Len(input) \in Nat /\ \A i \in Kid : i \in Nat /\ IsChild(prog.kids[i])
  BY <1>1, Sizes DEF TypeOK
<1>3. /\ Len(levels) \in Nat /\ Len(levels) > 0 /\ Top = levels[Len(levels)] /\ Top \in Level
  BY <1>1, TopLevel
<1> DEFINE n == Len(levels)
<1>4. LevelOK(levels, n) /\ \A k \in 1..n : LevelOK(levels, k)
  BY <1>1, <1>3 DEF StackOK
<1>5. Top.map \in Maps /\ Top.phase \in {"trying", "taking", "visited"}
  BY <1>3 DEF Level, Maps
<1>6. /\ Top.pos \in 0..Len(input) /\ Tiled(Top.map, Top.pos)
      /\ Top.i = 0 \/ Top.i \in Kid
      /\ Top.phase \in {"trying", "taking"}
      /\ Top.phase = "taking" => Top.i \in Kid \ Before(levels, n)
  BY <1>3, <1>4, <1>5 DEF LevelOK
<1>7. \A j \in 1..n : levels[j].phase = "visited" <=> j \in 1..(n - 1)
  BY <1>3, <1>4 DEF LevelOK
<1>8. DOMAIN levels = 1..n
  BY <1>1
<1>9. Visited = Before(levels, n)
  <2>1. {j \in DOMAIN levels : levels[j].phase = "visited"} = 1..(n - 1)
    BY <1>3, <1>7, <1>8
  <2> QED BY <2>1 DEF Visited, Before
<1>10. QED
  BY <1>1, <1>2, <1>3, <1>5, <1>6, <1>9

(* So does the start of the sequence: the first level has no item.         *)
LEMMA HeaderBase == ASSUME Base, Header PROVE Base'
<1>1. /\ TypeOK /\ map \in Maps /\ pos \in 0..Len(input) /\ lower \in Nat
      /\ Tiled(map, pos) /\ sticky \in BOOLEAN /\ decodes \in 1..MaxDecodes
      /\ pos = 0 /\ lower = 1 /\ \A i \in Kid : map[i] = <<>>
  BY DEF Base, TypeOK, Modes, Header, Maps
<1>2. UNCHANGED <<prog, input, pos, map, lower, decodes>> /\ sticky' \in BOOLEAN
  BY DEF Header
<1>3. CASE prog.mode = "search"
  <2> DEFINE h == [i |-> 0, pos |-> pos, map |-> map, phase |-> "trying", took |-> FALSE]
  <2>1. levels' = <<h>> /\ signal' = "search"
    BY <1>3 DEF Header
  <2>2. h \in Level
    BY <1>1 DEF Level, Maps
  <2>3. /\ h.pos = pos /\ h.map = map /\ h.i = 0 /\ h.phase = "trying"
    OBVIOUS
  <2> HIDE DEF h
  <2>4. <<h>> \in Seq(Level) /\ Len(<<h>>) = 1 /\ <<h>>[1] = h /\ <<h>> # <<>>
    BY <2>2
  <2>5. LevelOK(<<h>>, 1)
    BY <1>1, <2>3, <2>4 DEF LevelOK
  <2>6. StackOK(<<h>>)
    <3>1. \A k \in 1..1 : k = 1
      OBVIOUS
    <3> QED BY <2>4, <2>5, <3>1 DEF StackOK
  <2> QED BY <1>1, <1>2, <1>3, <2>1, <2>4, <2>6, Tomorrow
<1>4. CASE prog.mode # "search"
  <2>1. levels' = <<>> /\ signal' = "scan"
    BY <1>4 DEF Header
  <2> QED BY <1>1, <1>2, <1>4, <2>1, StackEmpty, Tomorrow
<1>5. QED
  BY <1>3, <1>4

(* A map without items, before the first token.                            *)
LEMMA EmptyTiled ==
  ASSUME NEW m \in Maps, \A i \in Kid : m[i] = <<>>
  PROVE  Tiled(m, 0)
BY DEF Tiled

(* The invariant holds at first, and when the handle decodes again.        *)
LEMMA InitBase == Init => Base
<1> SUFFICES ASSUME Init PROVE Base
  OBVIOUS
<1>1. /\ prog \in Programs /\ input \in Inputs
      /\ pos = 0 /\ map = [i \in Kid |-> <<>>] /\ lower = 1
      /\ levels = <<>> /\ signal = "header" /\ sticky = FALSE /\ decodes = 1
  BY DEF Init
<1>2. map \in Maps /\ \A i \in Kid : map[i] = <<>>
  BY <1>1 DEF Maps
<1>3. Len(input) \in Nat /\ MaxDecodes \in Nat \ {0}
  BY <1>1, Sizes, BoundAssumption
<1>4. TypeOK
  <2>1. levels \in Seq(Level)
    BY <1>1
  <2>2. pos \in 0..Len(input) /\ lower \in Nat /\ decodes \in 1..MaxDecodes
    BY <1>1, <1>3
  <2>3. signal \in {"header", "scan", "search", "ok", "fail"} /\ sticky \in BOOLEAN
    BY <1>1
  <2> QED BY <1>1, <1>2, <2>1, <2>2, <2>3 DEF TypeOK, Maps
<1>5. Tiled(map, pos) /\ StackOK(levels)
  BY <1>1, <1>2, EmptyTiled, StackEmpty
<1>6. Modes
  BY <1>1, <1>2 DEF Modes
<1>7. QED
  BY <1>4, <1>5, <1>6 DEF Base

(* The next decode starts as the first did.                                *)
LEMMA DecodeAgainBase == ASSUME Base, DecodeAgain PROVE Base'
<1>1. /\ UNCHANGED <<prog, input, sticky>>
      /\ pos' = 0 /\ map' = [i \in Kid |-> <<>>] /\ lower' = 1
      /\ levels' = <<>> /\ signal' = "header" /\ decodes' = decodes + 1
      /\ decodes < MaxDecodes
  BY DEF DecodeAgain
<1>2. map' \in Maps /\ \A i \in Kid : map'[i] = <<>>
  BY <1>1 DEF Maps
<1>3. /\ Len(input) \in Nat /\ MaxDecodes \in Nat \ {0} /\ TypeOK /\ sticky' \in BOOLEAN
      /\ decodes \in 1..MaxDecodes
  BY <1>1, Sizes, BoundAssumption DEF Base, TypeOK
<1>4. decodes' \in 1..MaxDecodes /\ pos' \in 0..Len(input)
  BY <1>1, <1>3
<1>5. Tiled(map', 0) /\ StackOK(levels')
  BY <1>1, <1>2, EmptyTiled, StackEmpty
<1>6. QED
  BY <1>1, <1>2, <1>3, <1>4, <1>5, Tomorrow

(* The search stops with an answer.                                        *)
LEMMA AllVisitedBase == ASSUME Base, AllVisited PROVE Base'
<1>1. signal = "search" /\ UNCHANGED <<prog, input, map, lower, sticky, decodes>>
  BY DEF AllVisited, Trying
<1>2. levels' = <<>> /\ Finish(pos, TRUE)
  BY DEF AllVisited
<1>3. /\ TypeOK /\ map \in Maps /\ pos \in 0..Len(input) /\ pos \in Nat /\ Len(input) \in Nat
      /\ lower \in Nat /\ sticky \in BOOLEAN /\ decodes \in 1..MaxDecodes /\ Tiled(map, pos)
  BY <1>1, TopFacts
<1>4. \/ /\ signal' = "ok" /\ pos' \in pos..Len(input)
         /\ \A k \in (pos + 1)..pos' : Delimits(k)
      \/ signal' = "fail" /\ pos' = pos
  BY <1>2, <1>3, FinishFacts
<1>5. pos' \in 0..Len(input) /\ pos' \in Nat /\ pos <= pos' /\ signal' \in {"ok", "fail"}
  BY <1>3, <1>4
<1>6. Tiled(map, pos')
  BY <1>3, <1>4, <1>5, TiledSkip
<1>7. QED
  BY <1>1, <1>2, <1>3, <1>5, <1>6, StackEmpty, Tomorrow

(* The level in use is put back, with another child or phase.              *)
LEMMA ReplaceBase ==
  ASSUME Base, signal = "search", UNCHANGED <<prog, input, signal, lower, sticky, decodes>>,
         NEW l \in Level, levels' = SetTop(l), l.pos = Top.pos, l.map = Top.map,
         l.phase # "visited", l.i = 0 \/ l.i \in Kid,
         l.phase = "taking" => l.i \in Kid \ Before(levels, Len(levels)),
         map' \in Maps, pos' \in 0..Len(input), Tiled(map', pos')
  PROVE  Base'
<1>1. StackOK(levels) /\ levels # <<>> /\ levels \in Seq(Level) /\ TypeOK
      /\ lower \in Nat /\ sticky \in BOOLEAN /\ decodes \in 1..MaxDecodes /\ prog.mode = "search"
  BY TopFacts
<1>2. StackOK(SetTop(l))
  BY <1>1, ReplaceOK
<1>3. SetTop(l) # <<>>
  <2>1. SetTop(l) \in Seq(Level) /\ Len(SetTop(l)) = Len(levels) /\ Len(levels) > 0
    BY <1>1, SetTopLevel, TopLevel
  <2> QED BY <2>1, EmptySeq
<1>4. QED
  BY <1>1, <1>2, <1>3, Tomorrow

(* Its child is visited.                                                   *)
LEMMA DescendBase ==
  ASSUME Base, signal = "search", UNCHANGED <<prog, input, signal, lower, sticky, decodes>>,
         NEW l \in Level, NEW p \in 0..Len(input), NEW m \in Maps,
         levels' = Append(SetTop(l), NewLevel(p, m)), map' = m, pos' = p,
         l.pos = Top.pos, l.map = Top.map, l.phase = "visited",
         l.i \in Kid \ Before(levels, Len(levels)), Tiled(m, p)
  PROVE  Base'
<1>1. StackOK(levels) /\ levels # <<>> /\ levels \in Seq(Level) /\ TypeOK /\ Len(input) \in Nat
      /\ lower \in Nat /\ sticky \in BOOLEAN /\ decodes \in 1..MaxDecodes /\ prog.mode = "search"
  BY TopFacts
<1>2. p \in Nat
  BY <1>1
<1>3. StackOK(levels')
  BY <1>1, <1>2, DescendOK
<1>4. levels' # <<>>
  <2>1. NewLevel(p, m) \in Level
    BY <1>2 DEF NewLevel, Level, Maps
  <2>2. SetTop(l) \in Seq(Level)
    BY <1>1, SetTopLevel
  <2> QED BY <2>1, <2>2, AppendProperties
<1>5. QED
  BY <1>1, <1>3, <1>4, Tomorrow

(* The level has no answer.                                                *)
LEMMA LevelFailsBase ==
  ASSUME Base, signal = "search", LevelFails, UNCHANGED <<prog, input, lower, sticky, decodes>>
  PROVE  Base'
<1>1. /\ StackOK(levels) /\ levels # <<>> /\ levels \in Seq(Level) /\ TypeOK
      /\ lower \in Nat /\ sticky \in BOOLEAN /\ decodes \in 1..MaxDecodes /\ prog.mode = "search"
      /\ map \in Maps /\ pos \in 0..Len(input) /\ Tiled(map, pos)
  BY TopFacts
<1>2. CASE Len(levels) = 1
  <2>1. signal' = "fail" /\ levels' = <<>> /\ UNCHANGED <<pos, map>>
    BY <1>2 DEF LevelFails
  <2> QED BY <1>1, <2>1, StackEmpty, Tomorrow
<1>3. CASE Len(levels) # 1
  <2> DEFINE n == Len(levels)
             b == levels[n - 1]
             s == [Below EXCEPT ![Len(Below)].phase = "trying"]
  <2>1. /\ levels' = s /\ pos' = Below[Len(Below)].pos /\ map' = Below[Len(Below)].map
        /\ UNCHANGED signal
    BY <1>3 DEF LevelFails, GiveUp
  <2>2. /\ StackOK(s) /\ Len(s) = n - 1 /\ s # <<>> /\ n \in Nat /\ n > 1
        /\ Below[Len(Below)] = b /\ b \in Level
    BY <1>1, <1>3, PopOK
  <2> HIDE DEF s
  <2>3. LevelOK(levels, n - 1)
    BY <1>1, <2>2 DEF StackOK
  <2>4. b.pos \in 0..Len(input) /\ Tiled(b.map, b.pos) /\ b.map \in Maps
    BY <2>2, <2>3 DEF LevelOK, Level, Maps
  <2> QED BY <1>1, <2>1, <2>2, <2>4, Tomorrow
<1>4. QED
  BY <1>2, <1>3

(* What the level becomes is a level.                                      *)
LEMMA TopWith ==
  ASSUME NEW t \in Level, NEW i \in Nat
  PROVE  /\ [t EXCEPT !.i = i] \in Level
         /\ [t EXCEPT !.i = i].i = i /\ [t EXCEPT !.i = i].pos = t.pos
         /\ [t EXCEPT !.i = i].map = t.map /\ [t EXCEPT !.i = i].phase = t.phase
         /\ [t EXCEPT !.i = i].took = t.took
BY DEF Level

(* And with another phase.                                                 *)
LEMMA TopWithPhase ==
  ASSUME NEW t \in Level, NEW f \in {"trying", "taking", "visited"}
  PROVE  /\ [t EXCEPT !.phase = f] \in Level
         /\ [t EXCEPT !.phase = f].i = t.i /\ [t EXCEPT !.phase = f].pos = t.pos
         /\ [t EXCEPT !.phase = f].map = t.map /\ [t EXCEPT !.phase = f].phase = f
         /\ [t EXCEPT !.phase = f].took = t.took
BY DEF Level

(* And with its occurrences noted.                                         *)
LEMMA TopWithTook ==
  ASSUME NEW t \in Level, NEW b \in BOOLEAN
  PROVE  /\ [t EXCEPT !.took = b] \in Level
         /\ [t EXCEPT !.took = b].i = t.i /\ [t EXCEPT !.took = b].pos = t.pos
         /\ [t EXCEPT !.took = b].map = t.map /\ [t EXCEPT !.took = b].phase = t.phase
         /\ [t EXCEPT !.took = b].took = b
BY DEF Level

(* A child is tried, passed by or visited.                                 *)
LEMMA TryScalarBase == ASSUME Base, TryScalar PROVE Base'
<1>1. /\ signal = "search" /\ Top.phase = "trying"
      /\ UNCHANGED <<prog, input, signal, lower, sticky, decodes>>
  BY DEF TryScalar, Trying
<1>2. /\ map \in Maps /\ pos \in 0..Len(input) /\ pos \in Nat /\ Tiled(map, pos)
      /\ Top \in Level /\ Top.map \in Maps /\ Top.pos \in 0..Len(input) /\ Tiled(Top.map, Top.pos)
      /\ Visited = Before(levels, Len(levels)) /\ Len(input) \in Nat
      /\ prog \in Programs /\ input \in Inputs
      /\ \A i \in Kid : i \in Nat /\ IsChild(prog.kids[i])
  BY <1>1, TopFacts DEF TypeOK
<1>3. PICK i \in Kid :
        /\ NextKid(i)
        /\ \/ /\ Occurrence(prog.kids[i], pos, prog.kids[i].min) = "ok"
              /\ Descend(i, After(prog.kids[i], pos), Add(map, i, pos, After(prog.kids[i], pos)))
           \/ Descend(i, pos, map)
           \/ Skip(i)
  BY DEF TryScalar
<1>4. i \in Kid \ Before(levels, Len(levels)) /\ i \in Nat /\ IsChild(prog.kids[i])
  BY <1>2, <1>3 DEF NextKid, Unvisited
<1> DEFINE c == prog.kids[i]
<1>5. ASSUME NEW p \in 0..Len(input), NEW m \in Maps, Tiled(m, p), Descend(i, p, m)
      PROVE  Base'
  <2> DEFINE l == [Top EXCEPT !.i = i, !.phase = "visited"]
  <2>1. levels' = Append(SetTop(l), NewLevel(p, m)) /\ pos' = p /\ map' = m
    BY <1>5 DEF Descend
  <2>2. l \in Level /\ l.i = i /\ l.pos = Top.pos /\ l.map = Top.map /\ l.phase = "visited"
    <3>1. /\ [Top EXCEPT !.i = i] \in Level
          /\ [Top EXCEPT !.i = i].i = i /\ [Top EXCEPT !.i = i].pos = Top.pos
          /\ [Top EXCEPT !.i = i].map = Top.map
      BY <1>2, <1>4, TopWith
    <3>2. l = [[Top EXCEPT !.i = i] EXCEPT !.phase = "visited"]
      OBVIOUS
    <3> HIDE DEF l
    <3> QED BY <3>1, <3>2, TopWithPhase
  <2> HIDE DEF l
  <2> QED BY <1>1, <1>4, <1>5, <2>1, <2>2, DescendBase
<1>6. CASE /\ Occurrence(c, pos, c.min) = "ok"
           /\ Descend(i, After(c, pos), Add(map, i, pos, After(c, pos)))
  <2>1. After(c, pos) \in pos..Len(input)
    BY <1>2, <1>4, <1>6, OccurrenceIsComplete, CompleteFits
  <2> DEFINE p == After(c, pos)
  <2>2. p \in 0..Len(input) /\ p \in Nat /\ pos <= p
    BY <1>2, <2>1
  <2> HIDE DEF p
  <2>3. Add(map, i, pos, p) \in Maps /\ Tiled(Add(map, i, pos, p), p)
    BY <1>2, <2>2, AddFacts, TiledAdd
  <2> QED BY <1>5, <1>6, <2>2, <2>3 DEF p
<1>7. CASE Descend(i, pos, map)
  BY <1>2, <1>5, <1>7
<1>8. CASE Skip(i)
  <2> DEFINE l == [Top EXCEPT !.i = i]
  <2>1. levels' = SetTop(l) /\ pos' = Top.pos /\ map' = Top.map
    BY <1>8 DEF Skip, GiveUp
  <2>2. l \in Level /\ l.i = i /\ l.pos = Top.pos /\ l.map = Top.map /\ l.phase = "trying"
    BY <1>1, <1>2, <1>4, TopWith
  <2> HIDE DEF l
  <2> QED BY <1>1, <1>2, <1>4, <2>1, <2>2, ReplaceBase
<1>9. QED
  BY <1>3, <1>6, <1>7, <1>8

(* The loop over the occurrences of a repeating child begins.              *)
LEMMA StartTakingBase == ASSUME Base, StartTaking PROVE Base'
<1>1. /\ signal = "search" /\ Top.phase = "trying"
      /\ UNCHANGED <<prog, input, pos, map, signal, lower, sticky, decodes>>
  BY DEF StartTaking, Trying
<1>2. /\ map \in Maps /\ pos \in 0..Len(input) /\ Tiled(map, pos)
      /\ Top \in Level
      /\ Visited = Before(levels, Len(levels))
      /\ \A i \in Kid : i \in Nat
  BY <1>1, TopFacts
<1>3. PICK i \in Kid :
        NextKid(i) /\ levels' = SetTop([Top EXCEPT !.i = i, !.phase = "taking", !.took = FALSE])
  BY DEF StartTaking
<1>4. i \in Kid \ Before(levels, Len(levels)) /\ i \in Nat
  BY <1>2, <1>3 DEF NextKid, Unvisited
<1> DEFINE l == [Top EXCEPT !.i = i, !.phase = "taking", !.took = FALSE]
<1>5. l \in Level /\ l.i = i /\ l.pos = Top.pos /\ l.map = Top.map /\ l.phase = "taking"
  BY <1>2, <1>4 DEF Level
<1> HIDE DEF l
<1>6. levels' = SetTop(l)
  BY <1>3 DEF l
<1>7. QED
  BY <1>1, <1>2, <1>4, <1>5, <1>6, ReplaceBase

(* An occurrence of a repeating child is taken, or they are over.          *)
LEMMA TakeOccurrenceBase == ASSUME Base, TakeOccurrence PROVE Base'
<1>1. /\ signal = "search" /\ Top.phase = "taking"
      /\ UNCHANGED <<prog, input, lower, sticky, decodes>>
      /\ \/ StopTaking
         \/ OneOccurrence(Current, pos) = "ok" /\ Take(Current)
         \/ LevelFails
  BY DEF TakeOccurrence
<1>2. /\ map \in Maps /\ pos \in 0..Len(input) /\ pos \in Nat /\ Tiled(map, pos)
      /\ Top \in Level /\ Top.map \in Maps /\ Top.pos \in 0..Len(input) /\ Tiled(Top.map, Top.pos)
      /\ Len(input) \in Nat /\ prog \in Programs /\ input \in Inputs
      /\ Top.i \in Kid \ Before(levels, Len(levels)) /\ Top.i \in Nat
      /\ IsChild(Current)
  BY <1>1, TopFacts DEF TypeOK, Current
<1> DEFINE i == Top.i
<1>3. ASSUME NEW t \in Level, t.i = i, t.pos = Top.pos, t.map = Top.map,
             NEW p \in 0..Len(input), NEW m \in Maps, Tiled(m, p),
             levels' = Append(SetTop([t EXCEPT !.phase = "visited"]), NewLevel(p, m)),
             map' = m, pos' = p, UNCHANGED signal
      PROVE  Base'
  <2> DEFINE l == [t EXCEPT !.phase = "visited"]
  <2>1. l \in Level /\ l.i = i /\ l.pos = Top.pos /\ l.map = Top.map /\ l.phase = "visited"
    BY <1>3, TopWithPhase
  <2>2. levels' = Append(SetTop(l), NewLevel(p, m))
    BY <1>3
  <2> HIDE DEF l
  <2> QED BY <1>1, <1>2, <1>3, <2>1, <2>2, DescendBase
<1>4. CASE StopTaking
  <2>1. UNCHANGED signal
    BY <1>4 DEF StopTaking
  <2>2. CASE Descend(Top.i, pos, map)
    <3>1. [Top EXCEPT !.i = i, !.phase = "visited"] = [Top EXCEPT !.phase = "visited"]
      BY <1>2 DEF Level
    <3>2. levels' = Append(SetTop([Top EXCEPT !.phase = "visited"]), NewLevel(pos, map))
          /\ pos' = pos /\ map' = map
      BY <2>2, <3>1 DEF Descend
    <3> QED BY <1>2, <1>3, <2>1, <3>2
  <2>3. CASE levels' = SetTop([Top EXCEPT !.phase = "trying"]) /\ GiveUp(Top)
    <3> DEFINE l == [Top EXCEPT !.phase = "trying"]
    <3>1. l \in Level /\ l.i = i /\ l.pos = Top.pos /\ l.map = Top.map /\ l.phase = "trying"
      BY <1>2, TopWithPhase
    <3>2. levels' = SetTop(l) /\ pos' = Top.pos /\ map' = Top.map
      BY <2>3 DEF GiveUp
    <3> HIDE DEF l
    <3> QED BY <1>1, <1>2, <2>1, <3>1, <3>2, ReplaceBase
  <2> QED BY <1>4, <2>2, <2>3 DEF StopTaking
<1>5. CASE OneOccurrence(Current, pos) = "ok" /\ Take(Current)
  <2> DEFINE p == After(Current, pos)
             m == Add(map, i, pos, p)
             t == [Top EXCEPT !.took = TRUE]
  <2>1. p \in pos..Len(input)
    BY <1>2, <1>5, OccurrenceIsComplete, CompleteFits DEF OneOccurrence
  <2>2. p \in 0..Len(input) /\ p \in Nat /\ pos <= p
    BY <1>2, <2>1
  <2>3. m \in Maps /\ Tiled(m, p)
    <3> HIDE DEF p
    <3> QED BY <1>2, <2>2, AddFacts, TiledAdd
  <2>4. t \in Level /\ t.i = i /\ t.pos = Top.pos /\ t.map = Top.map /\ t.phase = "taking"
    BY <1>1, <1>2, TopWithTook
  <2>5. /\ map' = m /\ pos' = p /\ UNCHANGED signal
        /\ \/ levels' = SetTop(t)
           \/ levels' = Append(SetTop([Top EXCEPT !.took = TRUE, !.phase = "visited"]),
                               NewLevel(p, m))
    BY <1>5 DEF Take
  <2>6. [Top EXCEPT !.took = TRUE, !.phase = "visited"] = [t EXCEPT !.phase = "visited"]
    OBVIOUS
  <2> HIDE DEF p, m, t
  <2>7. CASE levels' = SetTop(t)
    BY <1>1, <1>2, <2>2, <2>3, <2>4, <2>5, <2>7, ReplaceBase
  <2>8. CASE levels' = Append(SetTop([t EXCEPT !.phase = "visited"]), NewLevel(p, m))
    BY <1>3, <2>2, <2>3, <2>4, <2>5, <2>8
  <2> QED BY <2>5, <2>6, <2>7, <2>8
<1>6. CASE LevelFails
  BY <1>1, <1>6, LevelFailsBase
<1>7. QED
  BY <1>1, <1>4, <1>5, <1>6

(* Every child was tried in vain.                                          *)
LEMMA NoChildLeftBase == ASSUME Base, NoChildLeft PROVE Base'
BY LevelFailsBase DEF NoChildLeft, Trying

(* Every step keeps the invariant.                                         *)
LEMMA BaseStep == Base /\ [Next]_vars => Base'
<1> SUFFICES ASSUME Base, [Next]_vars PROVE Base'
  OBVIOUS
<1>1. CASE Header
  BY <1>1, HeaderBase
<1>2. CASE ScanStep
  BY <1>2, RoundBase DEF ScanStep
<1>3. CASE InitiatedStep
  BY <1>3, RoundBase DEF InitiatedStep
<1>4. CASE AllVisited
  BY <1>4, AllVisitedBase
<1>5. CASE NoChildLeft
  BY <1>5, NoChildLeftBase
<1>6. CASE TryScalar
  BY <1>6, TryScalarBase
<1>7. CASE StartTaking
  BY <1>7, StartTakingBase
<1>8. CASE TakeOccurrence
  BY <1>8, TakeOccurrenceBase
<1>9. CASE DecodeAgain
  BY <1>9, DecodeAgainBase
<1>10. CASE UNCHANGED vars
  <2>1. UNCHANGED <<prog, input, pos, map, levels, lower, signal, sticky, decodes>>
    BY <1>10 DEF vars
  <2>2. /\ map' \in Maps /\ pos' \in 0..Len(input) /\ lower' \in Nat
        /\ signal' \in {"header", "scan", "search", "ok", "fail"}
        /\ sticky' \in BOOLEAN /\ decodes' \in 1..MaxDecodes /\ TypeOK
        /\ Tiled(map', pos') /\ StackOK(levels')
    BY <2>1 DEF Base, TypeOK, Maps
  <2> QED BY <2>1, <2>2, Tomorrow DEF Base, Modes
<1>11. QED
  BY <1>1, <1>2, <1>3, <1>4, <1>5, <1>6, <1>7, <1>8, <1>9, <1>10 DEF Next, Run

(* So the invariant holds in every state.                                  *)
LEMMA BaseInvariant == Spec => []Base
BY InitBase, BaseStep, PTL DEF Spec

(* Type correctness.                                                       *)
THEOREM TypeCorrect == Spec => []TypeOK
<1>1. Base => TypeOK
  BY DEF Base
<1>2. QED
  BY <1>1, BaseInvariant, PTL

(* The items of a decoded sequence lie side by side and, with the          *)
(* delimiters, are all that was consumed.                                  *)
THEOREM ItemsAreTiled == Spec => []ItemsTile
<1>1. Base => ItemsTile
  <2> SUFFICES ASSUME Base PROVE ItemsTile
    OBVIOUS
  <2>1. Tiled(map, pos) /\ \A i \in Kid : DOMAIN map[i] = 1..Len(map[i])
    <3>1. \A i \in Kid : map[i] \in Seq(Span)
      BY DEF Base, TypeOK
    <3> QED BY <3>1 DEF Base
  <2>2. \A x \in Items : x[1] \in Kid /\ x[2] \in 1..Len(map[x[1]]) /\ x = <<x[1], x[2]>>
    BY <2>1 DEF Items
  <2>3. \A i \in Kid : \A n \in 1..Len(map[i]) : <<i, n>> \in Items
    BY <2>1 DEF Items
  <2>4. ASSUME NEW x \in Items, NEW y \in Items, x # y
        PROVE  Disjoint(map[x[1]][x[2]], map[y[1]][y[2]])
    <3>1. x[1] # y[1] \/ x[2] # y[2]
      BY <2>2, <2>4
    <3> QED BY <2>1, <2>2, <3>1 DEF Tiled
  <2>5. ASSUME NEW k \in 1..pos
        PROVE  \/ \E a \in Spans : a.from < k /\ k <= a.to
               \/ input[k] \in {Separator, Newline, Terminator}
    <3>1. CASE Delimits(k)
      BY <3>1 DEF Delimits
    <3>2. CASE \E i \in Kid : \E n \in 1..Len(map[i]) : map[i][n].from < k /\ k <= map[i][n].to
      <4>1. PICK i \in Kid : \E n \in 1..Len(map[i]) : map[i][n].from < k /\ k <= map[i][n].to
        BY <3>2
      <4>2. PICK n \in 1..Len(map[i]) : map[i][n].from < k /\ k <= map[i][n].to
        BY <4>1
      <4>3. map[i][n] \in Spans
        <5> DEFINE x == <<i, n>>
        <5>1. x \in Items /\ x[1] = i /\ x[2] = n
          BY <2>3
        <5> HIDE DEF x
        <5> QED BY <5>1 DEF Spans
      <4> QED BY <4>2, <4>3
    <3> QED BY <2>1, <3>1, <3>2 DEF Tiled
  <2> QED BY <2>4, <2>5 DEF ItemsTile, Disjoint
<1>2. QED
  BY <1>1, BaseInvariant, PTL

----------------------------------------------------------------------------
(* Ordered initiated content.                                              *)

(* The items of map m come in the order of the schema.                     *)
InOrder(m) ==
  \A i, j \in Kid : i < j =>
    \A n \in 1..Len(m[i]), r \in 1..Len(m[j]) : m[i][n].to <= m[j][r].from

(* No child beyond the lower bound has an item.                            *)
Ordered ==
  prog.mode = "initiated" /\ prog.ordered =>
    /\ \A i \in Kid : Len(map[i]) > 0 => i <= lower
    /\ InOrder(map)

(* A candidate is not before the children that have items.                 *)
LEMMA RoundOrdered ==
  ASSUME Base, Ordered, signal = "scan", Round, UNCHANGED <<prog, input, levels, decodes>>
  PROVE  Ordered'
<1> SUFFICES ASSUME prog.mode = "initiated", prog.ordered
             PROVE  /\ \A i \in Kid : Len(map'[i]) > 0 => i <= lower'
                    /\ InOrder(map')
  BY DEF Ordered, InOrder, Kid
<1>1. PICK p \in pos..Len(input) :
        /\ \A k \in (pos + 1)..p : Delimits(k)
        /\ RoundEnds(p) \/ RoundFails(p) \/ RoundAdds(p)
  BY RoundFacts DEF Base, Modes
<1>2. /\ map \in Maps /\ pos \in 0..Len(input) /\ lower \in Nat /\ Tiled(map, pos)
      /\ Len(input) \in Nat /\ \A i \in Kid : i \in Nat
  BY Sizes DEF Base, TypeOK, Maps
<1>3. /\ \A i \in Kid : Len(map[i]) > 0 => i <= lower
      /\ InOrder(map)
  BY DEF Ordered
<1>4. CASE RoundEnds(p) \/ RoundFails(p)
  BY <1>3, <1>4 DEF RoundEnds, RoundFails
<1>5. CASE RoundAdds(p)
  <2>1. PICK i \in Candidates(p) :
          /\ pos' \in p..Len(input) /\ map' = Add(map, i, p, pos') /\ lower' \in {i, i + 1}
    BY <1>5 DEF RoundAdds
  <2>2. i \in Kid /\ i >= lower
    BY <2>1 DEF Candidates
  <2>3. i \in Nat /\ p \in Nat /\ pos \in Nat /\ pos' \in Nat /\ pos <= p /\ p <= pos'
    BY <1>2, <2>1, <2>2
  <2> DEFINE t == [from |-> p, to |-> pos']
             L == Len(map[i])
  <2>4. /\ \A j \in Kid : Len(map[j]) \in Nat
        /\ \A j \in Kid \ {i} : map'[j] = map[j]
        /\ Len(map'[i]) = L + 1
        /\ \A n \in 1..L : map'[i][n] = map[i][n]
        /\ map'[i][L + 1] = t
    <3> DEFINE q == pos'
               a == Add(map, i, p, q)
    <3>1. q \in Nat /\ a = map'
      BY <2>1, <2>3
    <3> HIDE DEF q
    <3>2. /\ \A j \in Kid : Len(map[j]) \in Nat
          /\ \A j \in Kid \ {i} : a[j] = map[j]
          /\ Len(a[i]) = L + 1
          /\ \A n \in 1..L : a[i][n] = map[i][n]
          /\ a[i][L + 1] = [from |-> p, to |-> q]
      <4>1. map \in Maps /\ p \in Nat
        BY <1>2, <2>3
      <4> QED BY <2>2, <3>1, <4>1, AddFacts
    <3> HIDE DEF a
    <3> QED BY <3>1, <3>2 DEF q
  <2>5. t.from = p /\ t.to = pos'
    OBVIOUS
  <2> HIDE DEF t
  <2>6. \A j \in Kid : \A n \in 1..Len(map[j]) :
          map[j][n].to \in Nat /\ map[j][n].from \in Nat /\ map[j][n].to <= p
    <3>1. \A j \in Kid : \A n \in 1..Len(map[j]) : map[j][n] \in Span
      BY DEF Maps, Base, TypeOK
    <3> QED BY <1>2, <2>3, <3>1 DEF Tiled, Span
  <2>7. \A j \in Kid : Len(map'[j]) > 0 => j <= lower'
    <3>1. i <= lower' /\ lower' \in Nat
      BY <2>1, <2>3
    <3>2. \A j \in Kid \ {i} : Len(map'[j]) > 0 => j <= lower
      BY <1>3, <2>4
    <3> QED BY <1>2, <2>2, <2>3, <3>1, <3>2
  <2>8. ASSUME NEW j \in Kid, NEW k \in Kid, j < k,
               NEW n \in 1..Len(map'[j]), NEW r \in 1..Len(map'[k])
        PROVE  map'[j][n].to <= map'[k][r].from
    <3>1. CASE k = i /\ r = L + 1
      <4>1. n \in 1..Len(map[j]) /\ map'[j][n] = map[j][n]
        BY <1>2, <2>3, <2>4, <2>8, <3>1
      <4> QED BY <2>4, <2>5, <2>6, <3>1, <4>1
    <3>2. CASE ~(k = i /\ r = L + 1)
      <4>1. r \in 1..Len(map[k]) /\ map'[k][r] = map[k][r]
        <5>1. CASE k # i
          BY <2>4, <5>1
        <5>2. CASE k = i
          <6>1. L \in Nat /\ r \in 1..(L + 1) /\ r # L + 1
            BY <2>4, <3>2, <5>2
          <6>2. r \in 1..L
            BY <6>1
          <6> QED BY <2>4, <5>2, <6>2
        <5> QED BY <5>1, <5>2
      <4>2. j # i
        <5>1. k <= lower
          BY <1>3, <2>4, <4>1
        <5> QED BY <1>2, <2>2, <2>3, <2>8, <5>1
      <4>3. n \in 1..Len(map[j]) /\ map'[j][n] = map[j][n]
        BY <2>4, <4>2
      <4> QED BY <1>3, <2>8, <4>1, <4>3 DEF InOrder
    <3> QED BY <3>1, <3>2
  <2> QED BY <2>7, <2>8 DEF InOrder
<1>6. QED
  BY <1>1, <1>4, <1>5

(* Every step keeps the order.                                             *)
LEMMA OrderedStep == Base /\ Ordered /\ [Next]_vars => Ordered'
<1> SUFFICES ASSUME Base, Ordered, [Next]_vars PROVE Ordered'
  OBVIOUS
<1>1. CASE prog' = prog /\ prog.mode = "search"
  BY <1>1 DEF Ordered
<1>2. CASE ScanStep
  BY <1>2, RoundOrdered DEF ScanStep
<1>3. CASE InitiatedStep
  BY <1>3, RoundOrdered DEF InitiatedStep
<1>4. CASE UNCHANGED <<prog, map, lower>>
  BY <1>4 DEF Ordered, InOrder, Kid
<1>5. CASE DecodeAgain
  <2>1. prog' = prog /\ map' = [i \in Kid |-> <<>>]
    BY <1>5 DEF DecodeAgain
  <2>2. Kid' = Kid
    BY <2>1 DEF Kid
  <2>3. \A i \in Kid' : Len(map'[i]) = 0
    BY <2>1, <2>2
  <2> QED BY <2>3 DEF Ordered, InOrder
<1>6. CASE signal = "search" /\ prog' = prog
  BY <1>1, <1>6 DEF Base, Modes
<1>7. Run /\ ~ScanStep /\ ~InitiatedStep => \/ UNCHANGED <<prog, map, lower>>
                                            \/ signal = "search" /\ prog' = prog
  BY DEF Run, Header, AllVisited, NoChildLeft, TryScalar, StartTaking, TakeOccurrence, Trying
<1>8. QED
  BY <1>2, <1>3, <1>4, <1>5, <1>6, <1>7 DEF Next, vars

(* The items of ordered initiated content come in the order of the schema. *)
THEOREM InitiatedContentInOrder == Spec => []InitiatedInOrder
<1>1. Init => Ordered
  BY DEF Init, Ordered, InOrder
<1>2. Base /\ Ordered => InitiatedInOrder
  <2> SUFFICES ASSUME Base, Ordered, prog.mode = "initiated", prog.ordered,
                      NEW x \in Items, NEW y \in Items, x[1] < y[1]
               PROVE  map[x[1]][x[2]].to <= map[y[1]][y[2]].from
    BY DEF InitiatedInOrder
  <2>1. \A i \in Kid : DOMAIN map[i] = 1..Len(map[i])
    <3>1. \A i \in Kid : map[i] \in Seq(Span)
      BY DEF Base, TypeOK
    <3> QED BY <3>1
  <2>2. \A z \in Items : z[1] \in Kid /\ z[2] \in 1..Len(map[z[1]])
    BY <2>1 DEF Items
  <2>3. InOrder(map)
    BY DEF Ordered
  <2> QED BY <2>2, <2>3 DEF InOrder
<1>3. Spec => []Ordered
  BY <1>1, BaseInvariant, OrderedStep, PTL DEF Spec
<1>4. QED
  BY <1>2, <1>3, BaseInvariant, PTL

----------------------------------------------------------------------------
(* The occurrences of a repeating child.                                   *)

(* Multiples, for the occurrences of a child.                              *)
LEMMA Distributes == \A a, b \in Nat : (a + 1) * b = a * b + b /\ a * b \in Nat
OBVIOUS

(* n occurrences end within the input.                                     *)
LEMMA TakesFits ==
  ASSUME prog \in Programs, input \in Inputs, NEW c, IsChild(c), NEW p \in 0..Len(input),
         NEW n \in Nat, Takes(c, p, n)
  PROVE  p + n * Len(Words(c)) <= Len(input)
<1> DEFINE W == Len(Words(c))
           Z == Len(input)
           T == {k \in Nat : p + k * W > Z}
<1>1. W \in Nat /\ Z \in Nat /\ p \in Nat /\ p <= Z
  BY WordsFacts, Sizes
<1> SUFFICES ASSUME n \in T PROVE FALSE
  <2>1. n * W \in Nat
    BY <1>1, Distributes
  <2> QED BY <1>1, <2>1
<1> HIDE DEF W
<1>2. T \in SUBSET Nat /\ T # {}
  OBVIOUS
<1> HIDE DEF T
<1>3. PICK k \in T : \A j \in T : k <= j
  BY <1>2, Least
<1>4. k \in Nat /\ p + k * W > Z /\ k <= n
  BY <1>3 DEF T
<1>5. k # 0
  <2>1. 0 * W = 0
    BY <1>1
  <2> QED BY <1>1, <1>4, <2>1
<1> DEFINE j == k - 1
<1>6. j \in Nat /\ k = j + 1 /\ j < k /\ j \in 0..(n - 1)
  BY <1>4, <1>5
<1> HIDE DEF j
<1>7. j \notin T
  <2>1. ~(k <= j)
    BY <1>4, <1>6
  <2> QED BY <1>3, <2>1
<1>8. j * W \in Nat /\ k * W = j * W + W
  BY <1>1, <1>6, Distributes
<1>9. p + j * W \in 0..Z
  <2>1. ~(p + j * W > Z)
    BY <1>6, <1>7 DEF T
  <2> QED BY <1>1, <1>8, <2>1
<1>10. OneOccurrence(c, p + j * W) = "ok"
  BY <1>6 DEF Takes, W
<1>11. Complete(c, p + j * W)
  BY <1>10, OccurrenceIsComplete DEF OneOccurrence
<1>12. After(c, p + j * W) \in (p + j * W)..Z
  BY <1>9, <1>11, CompleteFits
<1>13. (p + j * W) + W <= Z
  BY <1>1, <1>8, <1>12 DEF After, W
<1>14. QED
  BY <1>1, <1>4, <1>8, <1>13

(* Fewer occurrences are there when more are.                              *)
LEMMA TakesFewer ==
  ASSUME NEW c, IsChild(c), NEW p, NEW n \in Nat, Takes(c, p, n), NEW m \in Nat, m <= n
  PROVE  Takes(c, p, m)
<1>1. c.max \in Nat
  BY DEF IsChild
<1>2. m <= c.max /\ (Words(c) = <<>> => m <= 1)
  BY <1>1 DEF Takes
<1>3. \A k \in 0..(m - 1) : k \in 0..(n - 1)
  OBVIOUS
<1>4. QED
  BY <1>2, <1>3 DEF Takes

(* One more than there are: the next occurrence is not there, or not asked *)
(* for.                                                                    *)
LEMMA TakesMore ==
  ASSUME NEW c, IsChild(c), NEW p \in Nat, NEW n \in Nat, Takes(c, p, n)
  PROVE  Takes(c, p, n + 1) <=>
           /\ n < c.max /\ (Words(c) = <<>> => n = 0)
           /\ OneOccurrence(c, p + n * Len(Words(c))) = "ok"
<1>1. c.max \in Nat
  BY DEF IsChild
<1>2. (n + 1) - 1 = n /\ \A k \in 0..n : k \in 0..(n - 1) \/ k = n
  OBVIOUS
<1>3. n + 1 <= c.max <=> n < c.max
  BY <1>1
<1>4. n + 1 <= 1 <=> n = 0
  OBVIOUS
<1>5. n \in 0..n /\ \A k \in 0..(n - 1) : k \in 0..n
  OBVIOUS
<1>6. QED
  BY <1>2, <1>3, <1>4, <1>5 DEF Takes

(* A repeating child has a greatest number of occurrences, and only one.   *)
LEMMA GreedyFacts ==
  ASSUME prog \in Programs, input \in Inputs, NEW c, IsChild(c), NEW p \in 0..Len(input)
  PROVE  /\ Greedy(c, p) \in Nat
         /\ Takes(c, p, Greedy(c, p)) /\ ~Takes(c, p, Greedy(c, p) + 1)
<1> DEFINE W == Len(Words(c))
           Z == Len(input)
           T == {k \in Nat : ~Takes(c, p, k + 1)}
<1>1. W \in Nat /\ Z \in Nat /\ p \in Nat /\ p <= Z /\ c.max \in Nat
  BY WordsFacts, Sizes DEF IsChild
<1>2. Z + 1 \in T
  <2>1. Z + 1 \in Nat /\ (Z + 1) + 1 \in Nat
    BY <1>1
  <2> SUFFICES ASSUME Takes(c, p, (Z + 1) + 1) PROVE FALSE
    BY <2>1
  <2>2. p + ((Z + 1) + 1) * W <= Z
    BY <2>1, TakesFits
  <2>3. W # 0
    <3>1. ~((Z + 1) + 1 <= 1)
      BY <1>1
    <3> QED BY <3>1, WordsFacts DEF Takes
  <2> HIDE DEF W
  <2>4. \A a, b \in Nat : b # 0 => a * b >= a
    OBVIOUS
  <2>5. ((Z + 1) + 1) * W >= (Z + 1) + 1
    BY <1>1, <2>1, <2>3, <2>4
  <2>6. ((Z + 1) + 1) * W \in Nat
    BY <1>1, <2>1, Distributes
  <2> QED BY <1>1, <2>2, <2>5, <2>6
<1>3. T \in SUBSET Nat /\ T # {}
  BY <1>2
<1>4. PICK x \in T : \A y \in T : x <= y
  <2> HIDE DEF T
  <2> QED BY <1>3, Least
<1>5. x \in Nat /\ x <= Z + 1 /\ ~Takes(c, p, x + 1)
  BY <1>2, <1>4
<1>6. Takes(c, p, x)
  <2>1. CASE x = 0
    BY <1>1, <2>1 DEF Takes
  <2>2. CASE x # 0
    <3>1. x - 1 \in Nat /\ (x - 1) + 1 = x /\ ~(x <= x - 1)
      BY <1>5, <2>2
    <3>2. x - 1 \notin T
      <4> HIDE DEF T
      <4> QED BY <1>4, <3>1
    <3> QED BY <3>1, <3>2
  <2> QED BY <2>1, <2>2
<1>7. \E n \in 0..(Len(input) + 1) : Takes(c, p, n) /\ ~Takes(c, p, n + 1)
  <2>1. x \in 0..(Len(input) + 1)
    BY <1>1, <1>5
  <2> QED BY <1>5, <1>6, <2>1
<1>8. /\ Greedy(c, p) \in 0..(Len(input) + 1)
      /\ Takes(c, p, Greedy(c, p)) /\ ~Takes(c, p, Greedy(c, p) + 1)
  BY <1>7 DEF Greedy
<1>9. QED
  BY <1>1, <1>8

(* It is the number of those found when the next is not there.             *)
LEMMA GreedyIs ==
  ASSUME prog \in Programs, input \in Inputs, NEW c, IsChild(c), NEW p \in 0..Len(input),
         NEW n \in Nat, Takes(c, p, n), ~Takes(c, p, n + 1)
  PROVE  Greedy(c, p) = n
<1> DEFINE g == Greedy(c, p)
<1>1. g \in Nat /\ Takes(c, p, g) /\ ~Takes(c, p, g + 1)
  BY GreedyFacts
<1> HIDE DEF g
<1>2. ~(n + 1 <= g)
  BY <1>1, TakesFewer
<1>3. ~(g + 1 <= n)
  BY <1>1, TakesFewer
<1>4. QED
  BY <1>1, <1>2, <1>3 DEF g

----------------------------------------------------------------------------
(* The orders of the children.                                             *)

(* One step of the search: the places from which the children of S have an *)
(* order, when f gives the places for the rest.                            *)
WorksStep(f, S) ==
  {p \in 0..Len(input) : S = {} \/ \E i \in S : \E q \in Ends(i, p) : q \in f[S \ {i}]}

(* The program and the input of a sequence do not change, and what is      *)
(* defined from them does not either.                                      *)
LEMMA Unchanging ==
  ASSUME UNCHANGED <<prog, input>>
  PROVE  /\ Kid' = Kid
         /\ \A c, p, n : Takes(c, p, n)' <=> Takes(c, p, n)
         /\ \A i, p : Ends(i, p)' = Ends(i, p)
         /\ Works' = Works /\ (Solvable' <=> Solvable)
<1>1. prog' = prog /\ input' = input /\ Kid' = Kid
  BY DEF Kid
<1>2. \A c, p : Matched(c, p)' = Matched(c, p)
  BY <1>1 DEF Matched
<1>3. \A c, p : /\ Complete(c, p)' <=> Complete(c, p)
                /\ Cut(c, p)' <=> Cut(c, p)
                /\ InitiatorPresent(c, p)' <=> InitiatorPresent(c, p)
  BY <1>2 DEF Complete, Cut, InitiatorPresent
<1>4. \A c, p, m : Occurrence(c, p, m)' = Occurrence(c, p, m)
  BY <1>1, <1>3 DEF Occurrence
<1>5. \A c, p : OneOccurrence(c, p)' = OneOccurrence(c, p)
  BY <1>3, <1>4 DEF OneOccurrence
<1>6. \A c, p, n : Takes(c, p, n)' <=> Takes(c, p, n)
  BY <1>5 DEF Takes
<1>7. \A c, p : Greedy(c, p)' = Greedy(c, p)
  BY <1>1, <1>6 DEF Greedy
<1>8. \A i, p : Ends(i, p)' = Ends(i, p)
  BY <1>1, <1>4, <1>7 DEF Ends
<1>9. Works' = Works
  <2>1. \A f, S : WorksStep(f, S)' = WorksStep(f, S)
    BY <1>1, <1>8 DEF WorksStep
  <2>2. Works = CHOOSE f : f = [S \in SUBSET Kid |-> WorksStep(f, S)]
    BY Zenon DEF Works, WorksStep
  <2>3. Works' = CHOOSE f : f = [S \in SUBSET Kid' |-> WorksStep(f, S)']
    BY Zenon DEF Works, WorksStep
  <2>4. \A f : (f = [S \in SUBSET Kid' |-> WorksStep(f, S)'])
               <=> (f = [S \in SUBSET Kid |-> WorksStep(f, S)])
    BY <1>1, <2>1
  <2> QED BY <2>2, <2>3, <2>4
<1>10. QED
  BY <1>1, <1>6, <1>8, <1>9 DEF Solvable

(* Works is what its recursive definition says: there is such a function,  *)
(* by induction over the size of the sets.                                 *)
LEMMA WorksIs ==
  ASSUME prog \in Programs, input \in Inputs
  PROVE  \A S \in SUBSET Kid : Works[S] = WorksStep(Works, S)
<1> DEFINE Good(g, n) == \A S \in SUBSET Kid : Cardinality(S) <= n => g[S] = WorksStep(g, S)
           Once(g) == [S \in SUBSET Kid |-> WorksStep(g, S)]
           T == {n \in Nat : ~\E g : Good(Once(g), n)}
<1>1. IsFiniteSet(Kid)
  <2>1. Kid = 1..Len(prog.kids) /\ Len(prog.kids) \in Nat
    BY Sizes
  <2> QED BY <2>1, FS_Interval
<1>2. \A S \in SUBSET Kid : /\ IsFiniteSet(S) /\ Cardinality(S) \in Nat
                            /\ (Cardinality(S) = 0 <=> S = {})
                            /\ \A i \in S : Cardinality(S \ {i}) = Cardinality(S) - 1
  <2> SUFFICES ASSUME NEW S \in SUBSET Kid
               PROVE  /\ IsFiniteSet(S) /\ Cardinality(S) \in Nat
                      /\ (Cardinality(S) = 0 <=> S = {})
                      /\ \A i \in S : Cardinality(S \ {i}) = Cardinality(S) - 1
    OBVIOUS
  <2>1. IsFiniteSet(S)
    BY <1>1, FS_Subset
  <2> QED BY <2>1, FS_CardinalityType, FS_EmptySet, FS_RemoveElement
<1>3. \E g : Good(Once(g), 0)
  <2> DEFINE g == [S \in SUBSET Kid |-> {}]
  <2>1. ASSUME NEW S \in SUBSET Kid, Cardinality(S) <= 0
        PROVE  Once(g)[S] = WorksStep(Once(g), S)
    <3>1. S = {}
      BY <1>2, <2>1
    <3>2. \A f : WorksStep(f, {}) = 0..Len(input)
      BY DEF WorksStep
    <3> QED BY <3>1, <3>2
  <2> QED BY <2>1
<1>4. ASSUME NEW n \in Nat, NEW g, Good(Once(g), n)
      PROVE  Good(Once(Once(g)), n + 1)
  <2> DEFINE f == Once(g)
             h == Once(f)
  <2>1. \A S \in SUBSET Kid : h[S] = WorksStep(f, S)
    OBVIOUS
  <2>2. \A S \in SUBSET Kid : Cardinality(S) <= n => f[S] = WorksStep(f, S)
    BY <1>4
  <2> HIDE DEF f, h
  <2>3. \A S \in SUBSET Kid : Cardinality(S) <= n => h[S] = f[S]
    BY <2>1, <2>2
  <2>4. ASSUME NEW S \in SUBSET Kid, Cardinality(S) <= n + 1
        PROVE  h[S] = WorksStep(h, S)
    <3>1. \A i \in S : S \ {i} \in SUBSET Kid /\ Cardinality(S \ {i}) <= n
      BY <1>2, <2>4
    <3>2. \A i \in S : h[S \ {i}] = f[S \ {i}]
      BY <2>3, <3>1
    <3>3. WorksStep(h, S) = WorksStep(f, S)
      BY <3>2 DEF WorksStep
    <3> QED BY <2>1, <3>3
  <2> QED BY <2>4 DEF f, h
<1> HIDE DEF Good, Once
<1>5. \A n \in Nat : \E g : Good(Once(g), n)
  <2> SUFFICES ASSUME T # {} PROVE FALSE
    OBVIOUS
  <2>1. T \in SUBSET Nat
    OBVIOUS
  <2> HIDE DEF T
  <2>2. PICK x \in T : \A y \in T : x <= y
    BY <2>1, Least
  <2>3. x \in Nat /\ ~\E g : Good(Once(g), x)
    BY <2>1, <2>2 DEF T
  <2>4. x # 0
    BY <1>3, <2>3
  <2>5. x - 1 \in Nat /\ (x - 1) + 1 = x /\ ~(x <= x - 1)
    BY <2>3, <2>4
  <2>6. x - 1 \notin T
    BY <2>2, <2>5
  <2>7. PICK g : Good(Once(g), x - 1)
    BY <2>5, <2>6 DEF T
  <2>8. Good(Once(Once(g)), (x - 1) + 1)
    BY <1>4, <2>5, <2>7
  <2> QED BY <2>3, <2>5, <2>8
<1>6. PICK g : Good(Once(g), Cardinality(Kid))
  BY <1>2, <1>5
<1>7. \A S \in SUBSET Kid : Cardinality(S) <= Cardinality(Kid)
  BY <1>1, FS_Subset
<1>8. \A S \in SUBSET Kid : Once(g)[S] = WorksStep(Once(g), S)
  BY <1>6, <1>7 DEF Good
<1> DEFINE w == Once(g)
<1>9. w = [S \in SUBSET Kid |-> WorksStep(w, S)]
  <2>1. w = [S \in SUBSET Kid |-> w[S]]
    BY DEF Once
  <2> QED BY <1>8, <2>1
<1>10. Works = CHOOSE f : f = [S \in SUBSET Kid |-> WorksStep(f, S)]
  BY DEF Works, WorksStep
<1> HIDE DEF w
<1>11. Works = [S \in SUBSET Kid |-> WorksStep(Works, S)]
  BY <1>9, <1>10
<1>12. QED
  BY <1>11

(* A place from which the children of S have an order, and its opposite.   *)
LEMMA WorksFacts ==
  ASSUME prog \in Programs, input \in Inputs, NEW S \in SUBSET Kid, NEW p \in 0..Len(input)
  PROVE  /\ S = {} => p \in Works[S]
         /\ \A i \in S : \A q \in Ends(i, p) : q \in Works[S \ {i}] => p \in Works[S]
         /\ S # {} /\ p \in Works[S] => \E i \in S : \E q \in Ends(i, p) : q \in Works[S \ {i}]
BY WorksIs DEF WorksStep

----------------------------------------------------------------------------
(* The levels of the search and their children.                            *)

(* How the stack changes: the level in use is replaced, pushed on, or given*)
(* up.  The levels below keep what they are and the children visited.      *)
LEMMA Replaced ==
  ASSUME levels \in Seq(Level), levels # <<>>, NEW l \in Level
  PROVE  LET n == Len(levels)
             s == SetTop(l) IN
         /\ n \in Nat /\ n > 0 /\ Len(s) = n /\ s[n] = l
         /\ \A k \in 1..(n - 1) : s[k] = levels[k]
         /\ \A k \in 1..n : Before(s, k) = Before(levels, k)
<1> DEFINE n == Len(levels)
           s == SetTop(l)
<1>1. /\ n \in Nat /\ n > 0 /\ Len(s) = n /\ s[n] = l
      /\ \A k \in 1..(n - 1) : s[k] = levels[k]
  BY TopLevel, SetTopLevel
<1> HIDE DEF n, s
<1>2. \A k \in 1..n : Before(s, k) = Before(levels, k)
  <2>1. \A j \in 1..(n - 1) : s[j].i = levels[j].i
    BY <1>1
  <2>2. n \in Nat
    BY <1>1
  <2> QED BY <2>1, <2>2, SameBefore
<1>3. QED
  BY <1>1, <1>2 DEF n, s

(* The child that is visited is one more that the next level must not try. *)
LEMMA Pushed ==
  ASSUME levels \in Seq(Level), levels # <<>>, NEW l \in Level, NEW h \in Level
  PROVE  LET n == Len(levels)
             s == Append(SetTop(l), h) IN
         /\ n \in Nat /\ n > 0 /\ Len(s) = n + 1 /\ s[n] = l /\ s[n + 1] = h
         /\ \A k \in 1..(n - 1) : s[k] = levels[k]
         /\ \A k \in 1..n : Before(s, k) = Before(levels, k)
         /\ Before(s, n + 1) = Before(levels, n) \union {l.i}
<1> DEFINE n == Len(levels)
           s == Append(SetTop(l), h)
<1>1. /\ n \in Nat /\ n > 0 /\ Len(s) = n + 1 /\ s[n] = l /\ s[n + 1] = h
      /\ \A k \in 1..(n - 1) : s[k] = levels[k]
  BY TopLevel, PushLevel, ZenonT(60)
<1> HIDE DEF n, s
<1>2. \A k \in 1..n : Before(s, k) = Before(levels, k)
  <2>1. \A j \in 1..(n - 1) : s[j].i = levels[j].i
    BY <1>1
  <2>2. n \in Nat
    BY <1>1
  <2> QED BY <2>1, <2>2, SameBefore
<1>3. Before(s, n + 1) = Before(levels, n) \union {l.i}
  <2>1. (n + 1) - 1 = n /\ \A j \in 1..n : j \in 1..(n - 1) \/ j = n
    BY <1>1
  <2>2. n \in 1..n /\ \A j \in 1..(n - 1) : j \in 1..n
    BY <1>1
  <2>3. Before(s, n + 1) = {s[j].i : j \in 1..n}
    BY <2>1 DEF Before
  <2>4. Before(levels, n) = {s[j].i : j \in 1..(n - 1)}
    BY <1>1 DEF Before
  <2> QED BY <1>1, <2>1, <2>2, <2>3, <2>4
<1>4. QED
  BY <1>1, <1>2, <1>3 DEF n, s

(* The level below tries its next child.                                   *)
LEMMA Popped ==
  ASSUME StackOK(levels), levels # <<>>, Len(levels) # 1
  PROVE  LET n == Len(levels)
             s == [Below EXCEPT ![Len(Below)].phase = "trying"] IN
         /\ n \in Nat /\ n > 1 /\ Len(s) = n - 1
         /\ s[n - 1] = [levels[n - 1] EXCEPT !.phase = "trying"]
         /\ levels[n - 1] \in Level /\ Below[Len(Below)] = levels[n - 1]
         /\ \A k \in 1..(n - 2) : s[k] = levels[k]
         /\ \A k \in 1..(n - 1) : Before(s, k) = Before(levels, k)
         /\ Before(levels, n) = Before(levels, n - 1) \union {levels[n - 1].i}
<1> DEFINE n == Len(levels)
           s == [Below EXCEPT ![Len(Below)].phase = "trying"]
<1>1. /\ n \in Nat /\ n > 1 /\ Len(s) = n - 1
      /\ s[n - 1] = [levels[n - 1] EXCEPT !.phase = "trying"]
      /\ levels[n - 1] \in Level /\ Below[Len(Below)] = levels[n - 1]
      /\ \A k \in 1..(n - 2) : s[k] = levels[k]
  BY PopOK
<1> HIDE DEF n, s
<1>2. \A k \in 1..(n - 1) : Before(s, k) = Before(levels, k)
  <2> DEFINE m == n - 1
  <2>1. \A j \in 1..(m - 1) : s[j].i = levels[j].i
    BY <1>1
  <2>2. m \in Nat
    BY <1>1
  <2> HIDE DEF m
  <2>3. \A k \in 1..m : Before(s, k) = Before(levels, k)
    BY <2>1, <2>2, SameBefore
  <2> QED BY <2>3 DEF m
<1>3. Before(levels, n) = Before(levels, n - 1) \union {levels[n - 1].i}
  <2>1. /\ \A j \in 1..(n - 1) : j \in 1..((n - 1) - 1) \/ j = n - 1
        /\ \A j \in 1..((n - 1) - 1) : j \in 1..(n - 1)
        /\ n - 1 \in 1..(n - 1)
    BY <1>1
  <2> QED BY <2>1 DEF Before
<1>4. QED
  BY <1>1, <1>2, <1>3 DEF n, s

(* What is visited has its occurrences, what is not has none.              *)
Counted(m, V) ==
  /\ \A i \in V : prog.kids[i].min > 0 => Len(m[i]) > 0
  /\ \A i \in Kid \ V : m[i] = <<>>

CountsOK(s) == \A k \in 1..Len(s) : Counted(s[k].map, Before(s, k))

(* Between the trials the cursor and the map are those of the level; while *)
(* a child is taken the map has its occurrences since.                     *)
AtTop(l, m, p) ==
  /\ l.phase = "trying" => p = l.pos /\ m = l.map
  /\ l.phase = "taking" =>
       /\ Multi(prog.kids[l.i])
       /\ \A j \in Kid \ {l.i} : m[j] = l.map[j]
       /\ l.took <=> Len(m[l.i]) > 0
       /\ Takes(prog.kids[l.i], l.pos, Len(m[l.i]))
       /\ p = l.pos + Len(m[l.i]) * Len(Words(prog.kids[l.i]))
       /\ Len(m[l.i]) > 0 => Words(prog.kids[l.i]) # <<>>

Trials ==
  /\ signal = "search" => CountsOK(levels) /\ AtTop(levels[Len(levels)], map, pos)
  /\ RequiredPresent

(* The invariant after a step that goes on with the search.                *)
LEMMA TrialsGoOn ==
  ASSUME UNCHANGED <<prog, input>>, NEW s, NEW m, NEW p, NEW n,
         s = levels', m = map', p = pos', n = Len(s),
         CountsOK(s), AtTop(s[n], m, p), signal' = "search"
  PROVE  Trials'
<1>1. prog' = prog /\ Kid' = Kid
  BY DEF Kid
<1>2. \A a, b : Counted(a, b)' <=> Counted(a, b)
  BY <1>1 DEF Counted
<1>3. \A a, k : Before(a, k)' = Before(a, k)
  BY DEF Before
<1>5. CountsOK(levels)'
  <2>2. \A k \in 1..Len(levels') : (Counted(levels[k].map, Before(levels, k)))'
    <3> SUFFICES ASSUME NEW k \in 1..Len(s) PROVE (Counted(levels[k].map, Before(levels, k)))'
      OBVIOUS
    <3>1. Counted(s[k].map, Before(s, k))
      BY DEF CountsOK
    <3>2. Before(levels, k)' = Before(s, k)
      BY DEF Before
    <3> QED BY <1>1, <3>1, <3>2 DEF Counted
  <2> QED BY <2>2 DEF CountsOK
<1>6. AtTop(levels[Len(levels)], map, pos)'
  <2>1. \A c, q, r : Takes(c, q, r)' <=> Takes(c, q, r)
    BY Unchanging
  <2> DEFINE l == s[n]
  <2>3. AtTop(l, m, p) /\ l = levels'[Len(levels')]
    OBVIOUS
  <2> HIDE DEF l
  <2>4. l.phase = "trying" => p = l.pos /\ m = l.map
    BY <2>3 DEF AtTop
  <2>5. l.phase = "taking" =>
         /\ Multi(prog.kids[l.i])
         /\ \A j \in Kid \ {l.i} : m[j] = l.map[j]
         /\ l.took <=> Len(m[l.i]) > 0
         /\ Takes(prog.kids[l.i], l.pos, Len(m[l.i]))
         /\ p = l.pos + Len(m[l.i]) * Len(Words(prog.kids[l.i]))
         /\ Len(m[l.i]) > 0 => Words(prog.kids[l.i]) # <<>>
    BY <2>3 DEF AtTop
  <2> QED BY <1>1, <2>1, <2>3, <2>4, <2>5 DEF AtTop, Multi
<1>7. QED
  BY <1>5, <1>6 DEF Trials, RequiredPresent

(* The level in use is put back: what is counted stays as it was.          *)
LEMMA ReplaceTrials ==
  ASSUME Base, Trials, signal = "search", UNCHANGED <<prog, input, signal>>,
         NEW l \in Level, l.map = Top.map, levels' = SetTop(l), AtTop(l, map', pos')
  PROVE  Trials'
<1> DEFINE n == Len(levels)
           s == SetTop(l)
<1>1. levels \in Seq(Level) /\ levels # <<>> /\ CountsOK(levels) /\ Top = levels[n]
  BY TopFacts, TopLevel DEF Trials
<1>2. /\ n \in Nat /\ n > 0 /\ Len(s) = n /\ s[n] = l
      /\ \A k \in 1..(n - 1) : s[k] = levels[k]
      /\ \A k \in 1..n : Before(s, k) = Before(levels, k)
  BY <1>1, Replaced
<1> HIDE DEF s, n
<1>3. \A k \in 1..n : s[k].map = levels[k].map
  <2>1. \A k \in 1..n : k \in 1..(n - 1) \/ k = n
    BY <1>2
  <2> QED BY <1>1, <1>2, <2>1
<1>4. CountsOK(s)
  BY <1>1, <1>2, <1>3 DEF CountsOK, n
<1>5. QED
  BY <1>2, <1>4, TrialsGoOn DEF s

(* A child is visited: the next level starts with its occurrences counted. *)
LEMMA PushTrials ==
  ASSUME Base, Trials, signal = "search", UNCHANGED <<prog, input, signal>>,
         NEW l \in Level, l.map = Top.map, NEW p \in Nat, NEW m \in Maps,
         levels' = Append(SetTop(l), NewLevel(p, m)), map' = m, pos' = p,
         Counted(m, Before(levels, Len(levels)) \union {l.i})
  PROVE  Trials'
<1> DEFINE n == Len(levels)
           h == NewLevel(p, m)
           s == Append(SetTop(l), h)
<1>1. levels \in Seq(Level) /\ levels # <<>> /\ CountsOK(levels) /\ Top = levels[n]
  BY TopFacts, TopLevel DEF Trials
<1>2. h \in Level /\ h.pos = p /\ h.map = m /\ h.phase = "trying"
  BY DEF NewLevel, Level, Maps
<1> HIDE DEF h
<1>3. /\ n \in Nat /\ n > 0 /\ Len(s) = n + 1 /\ s[n] = l /\ s[n + 1] = h
      /\ \A k \in 1..(n - 1) : s[k] = levels[k]
      /\ \A k \in 1..n : Before(s, k) = Before(levels, k)
      /\ Before(s, n + 1) = Before(levels, n) \union {l.i}
  BY <1>1, <1>2, Pushed
<1>4. Counted(m, Before(levels, n) \union {l.i})
  OBVIOUS
<1> HIDE DEF s, n
<1>5. \A k \in 1..n : s[k].map = levels[k].map
  <2>1. \A k \in 1..n : k \in 1..(n - 1) \/ k = n
    BY <1>3
  <2> QED BY <1>1, <1>3, <2>1
<1>6. CountsOK(s)
  <2>1. \A k \in 1..(n + 1) : k \in 1..n \/ k = n + 1
    BY <1>3
  <2> QED BY <1>1, <1>2, <1>3, <1>4, <1>5, <2>1 DEF CountsOK, n
<1>7. AtTop(s[n + 1], m, p)
  BY <1>2, <1>3 DEF AtTop
<1>8. QED
  BY <1>3, <1>6, <1>7, TrialsGoOn DEF s, h

(* A level is given up: cursor and map are those of the level below.       *)
LEMMA LevelFailsTrials ==
  ASSUME Base, Trials, signal = "search", LevelFails, UNCHANGED <<prog, input>>
  PROVE  Trials'
<1>1. CASE Len(levels) = 1
  BY <1>1 DEF LevelFails, Trials, RequiredPresent
<1>2. CASE Len(levels) # 1
  <2> DEFINE n == Len(levels)
             s == [Below EXCEPT ![Len(Below)].phase = "trying"]
             l == [levels[n - 1] EXCEPT !.phase = "trying"]
  <2>1. levels # <<>> /\ StackOK(levels) /\ CountsOK(levels)
    BY TopFacts DEF Trials
  <2>2. /\ n \in Nat /\ n > 1 /\ Len(s) = n - 1 /\ s[n - 1] = l
        /\ levels[n - 1] \in Level /\ Below[Len(Below)] = levels[n - 1]
        /\ \A k \in 1..(n - 2) : s[k] = levels[k]
        /\ \A k \in 1..(n - 1) : Before(s, k) = Before(levels, k)
    BY <1>2, <2>1, Popped
  <2>3. levels' = s /\ pos' = levels[n - 1].pos /\ map' = levels[n - 1].map /\ signal' = "search"
    BY <1>2, <2>2 DEF LevelFails, GiveUp
  <2>4. l.pos = levels[n - 1].pos /\ l.map = levels[n - 1].map /\ l.phase = "trying"
    BY <2>2, TopWithPhase
  <2> HIDE DEF s, l
  <2>5. \A k \in 1..(n - 1) : s[k].map = levels[k].map /\ k \in 1..n
    <3> HIDE DEF n
    <3>1. \A k \in 1..(n - 1) : (k \in 1..(n - 2) \/ k = n - 1) /\ k \in 1..n
      BY <2>2
    <3> QED BY <2>2, <2>4, <3>1
  <2>6. CountsOK(s)
    BY <2>1, <2>2, <2>5 DEF CountsOK
  <2>7. AtTop(s[n - 1], map', pos')
    BY <2>2, <2>3, <2>4 DEF AtTop
  <2> HIDE DEF n
  <2> QED BY <2>2, <2>3, <2>6, <2>7, TrialsGoOn
<1>3. QED
  BY <1>1, <1>2

(* Every child is visited, so each one that is required is there.          *)
LEMMA AllVisitedTrials == ASSUME Base, Trials, AllVisited PROVE Trials'
<1>1. /\ signal = "search" /\ Top.phase = "trying" /\ Visited = Kid
      /\ UNCHANGED <<prog, input, map>> /\ Finish(pos, TRUE)
  BY DEF AllVisited, Trying
<1>2. /\ Visited = Before(levels, Len(levels)) /\ Top = levels[Len(levels)]
      /\ Len(levels) \in Nat /\ Len(levels) > 0 /\ prog.mode = "search" /\ map \in Maps
      /\ \A i \in Kid : IsChild(prog.kids[i])
  BY <1>1, TopFacts, TopLevel
<1>3. Counted(map, Kid)
  <2>1. Len(levels) \in 1..Len(levels)
    BY <1>2
  <2>2. Counted(Top.map, Kid)
    BY <1>1, <1>2, <2>1 DEF Trials, CountsOK
  <2> QED BY <1>1, <1>2, <2>2 DEF Trials, AtTop
<1>4. signal' # "search"
  BY <1>1 DEF Finish
<1>5. RequiredPresent'
  <2>1. \A i \in Kid : Len(map[i]) >= IF prog.mode = "search" /\ prog.kids[i].min > 0
                                      THEN 1 ELSE prog.kids[i].min
    <3> SUFFICES ASSUME NEW i \in Kid
                 PROVE  Len(map[i]) >= IF prog.mode = "search" /\ prog.kids[i].min > 0
                                       THEN 1 ELSE prog.kids[i].min
      OBVIOUS
    <3>1. Len(map[i]) \in Nat
      BY <1>2 DEF Maps
    <3>2. prog.kids[i].min \in Nat
      BY <1>2 DEF IsChild
    <3> QED BY <1>2, <1>3, <3>1, <3>2 DEF Counted
  <2> QED BY <1>1, <2>1 DEF RequiredPresent, Kid
<1>6. QED
  BY <1>4, <1>5 DEF Trials

(* Child i is visited, its occurrences end where the next level starts, and*)
(* the map counts them.                                                    *)
Visits(i) ==
  \E l \in Level : \E p \in 0..Len(input) : \E m \in Maps :
    /\ l.i = i /\ l.pos = Top.pos /\ l.map = Top.map /\ l.phase = "visited"
    /\ levels' = Append(SetTop(l), NewLevel(p, m)) /\ map' = m /\ pos' = p
    /\ Ends(i, Top.pos) = {p}
    /\ Counted(m, Before(levels, Len(levels)) \union {i})
    /\ UNCHANGED signal

(* Child i cannot be here: another is tried.                               *)
PassesBy(i) ==
  \E l \in Level :
    /\ l.i = i /\ l.pos = Top.pos /\ l.map = Top.map /\ l.phase = "trying"
    /\ levels' = SetTop(l) /\ map' = Top.map /\ pos' = Top.pos
    /\ Ends(i, Top.pos) = {}
    /\ UNCHANGED signal

(* The occurrences of child i go on.                                       *)
GoesOn(i) ==
  \E l \in Level :
    /\ l.i = i /\ l.pos = Top.pos /\ l.map = Top.map /\ l.phase = "taking"
    /\ levels' = SetTop(l) /\ AtTop(l, map', pos')
    /\ UNCHANGED signal

(* What the invariant says of the level in use.                            *)
LEMMA TrialsFacts ==
  ASSUME Base, Trials, signal = "search"
  PROVE  /\ CountsOK(levels) /\ AtTop(Top, map, pos)
         /\ Counted(Top.map, Before(levels, Len(levels)))
<1>1. /\ Top = levels[Len(levels)] /\ Len(levels) \in 1..Len(levels)
  BY TopFacts, TopLevel
<1>2. QED
  BY <1>1 DEF Trials, CountsOK

(* A child with one more item has its occurrences.                         *)
LEMMA AddCounted ==
  ASSUME NEW m \in Maps, NEW i \in Kid, NEW f \in Nat, NEW t \in Nat, NEW V \in SUBSET Kid,
         \/ Counted(m, V)
         \/ Counted(m, V \union {i})
         \/ \E b \in Maps : Counted(b, V) /\ \A j \in Kid \ {i} : m[j] = b[j]
  PROVE  Counted(Add(m, i, f, t), V \union {i})
<1> DEFINE a == Add(m, i, f, t)
<1>1. /\ a \in Maps
      /\ \A j \in Kid : Len(m[j]) \in Nat
      /\ \A j \in Kid \ {i} : a[j] = m[j]
      /\ Len(a[i]) = Len(m[i]) + 1
      /\ \A n \in 1..Len(m[i]) : a[i][n] = m[i][n]
      /\ a[i][Len(m[i]) + 1] = [from |-> f, to |-> t]
  BY AddFacts
<1> HIDE DEF a
<1>2. Len(a[i]) > 0
  BY <1>1
<1>3. \A j \in V \ {i} : j \in Kid /\ prog.kids[j].min > 0 => Len(m[j]) > 0
  BY DEF Counted
<1>4. \A j \in Kid \ (V \union {i}) : m[j] = <<>>
  BY DEF Counted
<1>5. QED
  BY <1>1, <1>2, <1>3, <1>4 DEF Counted, a

(* What is visited are children.                                           *)
LEMMA BeforeKids ==
  ASSUME Base, signal = "search"
  PROVE  Before(levels, Len(levels)) \in SUBSET Kid
<1>1. /\ StackOK(levels) /\ Len(levels) \in Nat /\ \A k \in 1..Len(levels) : levels[k] \in Level
  BY TopFacts, TopLevel
<1> DEFINE n == Len(levels)
<1>2. ASSUME NEW j \in 1..(n - 1) PROVE levels[j].i \in Kid
  <2>1. j \in 1..n /\ j < n
    BY <1>1
  <2>2. LevelOK(levels, j)
    BY <1>1, <2>1 DEF StackOK
  <2>3. levels[j].phase = "visited"
    BY <2>1, <2>2 DEF LevelOK
  <2> QED BY <2>2, <2>3 DEF LevelOK
<1>3. QED
  BY <1>2 DEF Before

(* A child that does not repeat is visited or passed by.                   *)
LEMMA TryScalarMoves ==
  ASSUME Base, Trials, TryScalar
  PROVE  \E i \in Kid : NextKid(i) /\ (Visits(i) \/ PassesBy(i))
<1>1. /\ signal = "search" /\ Top.phase = "trying" /\ UNCHANGED signal
  BY DEF TryScalar, Trying
<1>2. /\ map \in Maps /\ pos \in 0..Len(input) /\ pos \in Nat
      /\ Top \in Level /\ Visited = Before(levels, Len(levels)) /\ Len(input) \in Nat
      /\ prog \in Programs /\ input \in Inputs
      /\ \A i \in Kid : i \in Nat /\ IsChild(prog.kids[i])
  BY <1>1, TopFacts DEF TypeOK
<1>3. Counted(map, Before(levels, Len(levels))) /\ pos = Top.pos /\ map = Top.map
  BY <1>1, TrialsFacts DEF AtTop
<1>4. PICK i \in Kid :
        /\ NextKid(i) /\ ~Multi(prog.kids[i])
        /\ LET c == prog.kids[i]  r == Occurrence(c, pos, c.min) IN
           \/ r = "ok" /\ Descend(i, After(c, pos), Add(map, i, pos, After(c, pos)))
           \/ r = "absent" /\ c.min = 0 /\ Descend(i, pos, map)
           \/ r # "ok" /\ ~(r = "absent" /\ c.min = 0) /\ Skip(i)
  BY DEF TryScalar
<1> DEFINE c == prog.kids[i]
           r == Occurrence(c, pos, c.min)
           V == Before(levels, Len(levels))
<1>5. i \in Kid \ V /\ i \in Nat /\ IsChild(c)
  BY <1>2, <1>4 DEF NextKid, Unvisited
<1>6. Ends(i, Top.pos) = IF r = "ok" THEN {After(c, pos)}
                         ELSE IF r = "absent" /\ c.min = 0 THEN {pos} ELSE {}
  BY <1>3, <1>4 DEF Ends
<1> HIDE DEF r, V
<1>7. ASSUME NEW p \in 0..Len(input), NEW m \in Maps, Descend(i, p, m),
             Ends(i, Top.pos) = {p}, Counted(m, V \union {i})
      PROVE  Visits(i)
  <2> DEFINE l == [Top EXCEPT !.i = i, !.phase = "visited"]
  <2>1. levels' = Append(SetTop(l), NewLevel(p, m)) /\ pos' = p /\ map' = m
    BY <1>7 DEF Descend
  <2>2. l \in Level /\ l.i = i /\ l.pos = Top.pos /\ l.map = Top.map /\ l.phase = "visited"
    <3>1. /\ [Top EXCEPT !.i = i] \in Level
          /\ [Top EXCEPT !.i = i].i = i /\ [Top EXCEPT !.i = i].pos = Top.pos
          /\ [Top EXCEPT !.i = i].map = Top.map
      BY <1>2, <1>5, TopWith
    <3>2. l = [[Top EXCEPT !.i = i] EXCEPT !.phase = "visited"]
      OBVIOUS
    <3> HIDE DEF l
    <3> QED BY <3>1, <3>2, TopWithPhase
  <2> HIDE DEF l
  <2> QED BY <1>1, <1>7, <2>1, <2>2 DEF Visits, V
<1>8. CASE r = "ok"
  <2> DEFINE p == After(c, pos)
             m == Add(map, i, pos, p)
  <2>1. p \in pos..Len(input)
    BY <1>2, <1>5, <1>8, OccurrenceIsComplete, CompleteFits DEF r
  <2>2. p \in 0..Len(input) /\ p \in Nat
    BY <1>2, <2>1
  <2>3. Descend(i, p, m)
    BY <1>4, <1>8 DEF r
  <2>4. Ends(i, Top.pos) = {p}
    BY <1>6, <1>8
  <2> HIDE DEF p
  <2>5. m \in Maps
    BY <1>2, <1>5, <2>2, AddFacts
  <2>7. Counted(m, V \union {i})
    BY <1>1, <1>2, <1>3, <1>5, <2>2, AddCounted, BeforeKids DEF V
  <2>8. Visits(i)
    BY <1>7, <2>2, <2>3, <2>4, <2>5, <2>7 DEF m
  <2> QED BY <1>4, <2>8
<1>9. CASE r = "absent" /\ c.min = 0
  <2>1. Descend(i, pos, map)
    BY <1>4, <1>9 DEF r
  <2>2. Ends(i, Top.pos) = {pos}
    BY <1>6, <1>9
  <2>3. Counted(map, V \union {i})
    BY <1>3, <1>5, <1>9 DEF Counted, V
  <2>4. Visits(i)
    BY <1>2, <1>7, <2>1, <2>2, <2>3
  <2> QED BY <1>4, <2>4
<1>10. CASE r # "ok" /\ ~(r = "absent" /\ c.min = 0)
  <2> DEFINE l == [Top EXCEPT !.i = i]
  <2>1. levels' = SetTop(l) /\ pos' = Top.pos /\ map' = Top.map
    BY <1>4, <1>10 DEF Skip, GiveUp, r
  <2>2. l \in Level /\ l.i = i /\ l.pos = Top.pos /\ l.map = Top.map /\ l.phase = "trying"
    BY <1>1, <1>2, <1>5, TopWith
  <2>3. Ends(i, Top.pos) = {}
    BY <1>6, <1>10
  <2> HIDE DEF l
  <2>4. PassesBy(i)
    BY <1>1, <2>1, <2>2, <2>3 DEF PassesBy
  <2> QED BY <1>4, <2>4
<1>11. QED
  BY <1>8, <1>9, <1>10

(* A child that repeats has none of its occurrences at first.              *)
LEMMA StartTakingMoves ==
  ASSUME Base, Trials, StartTaking
  PROVE  \E i \in Kid : NextKid(i) /\ GoesOn(i) /\ map' = map /\ pos' = pos
<1>1. /\ signal = "search" /\ Top.phase = "trying"
      /\ UNCHANGED <<prog, input, pos, map, signal>>
  BY DEF StartTaking, Trying
<1>2. /\ map \in Maps /\ pos \in 0..Len(input) /\ pos \in Nat /\ Len(input) \in Nat
      /\ Top \in Level /\ Visited = Before(levels, Len(levels))
      /\ \A i \in Kid : i \in Nat /\ IsChild(prog.kids[i])
      /\ prog \in Programs /\ input \in Inputs
  BY <1>1, TopFacts DEF TypeOK
<1>3. Counted(map, Before(levels, Len(levels))) /\ pos = Top.pos /\ map = Top.map
  BY <1>1, TrialsFacts DEF AtTop
<1>4. PICK i \in Kid :
        /\ NextKid(i) /\ Multi(prog.kids[i])
        /\ levels' = SetTop([Top EXCEPT !.i = i, !.phase = "taking", !.took = FALSE])
  BY DEF StartTaking
<1>5. i \in Kid \ Before(levels, Len(levels)) /\ i \in Nat /\ IsChild(prog.kids[i])
  BY <1>2, <1>4 DEF NextKid, Unvisited
<1> DEFINE l == [Top EXCEPT !.i = i, !.phase = "taking", !.took = FALSE]
           c == prog.kids[i]
<1>6. /\ l \in Level /\ l.i = i /\ l.pos = Top.pos /\ l.map = Top.map
      /\ l.phase = "taking" /\ l.took = FALSE
  BY <1>2, <1>5 DEF Level
<1>7. levels' = SetTop(l)
  BY <1>4
<1> HIDE DEF l
<1>8. map[i] = <<>> /\ Len(map[i]) = 0
  <2>1. map[i] = <<>>
    BY <1>3, <1>5 DEF Counted
  <2> QED BY <2>1
<1>9. Takes(c, Top.pos, 0)
  BY <1>5 DEF Takes, IsChild
<1>10. 0 * Len(Words(c)) = 0
  BY <1>5, WordsFacts
<1>11. AtTop(l, map, pos)
  <2>1. pos = Top.pos + 0
    BY <1>2, <1>3
  <2> QED BY <1>3, <1>4, <1>6, <1>8, <1>9, <1>10, <2>1 DEF AtTop
<1>12. QED
  BY <1>1, <1>4, <1>6, <1>7, <1>11 DEF GoesOn

(* It is visited when its occurrences are over, passed by when it has none *)
(* but needs one; only a committed discriminator fails the level.          *)
LEMMA TakeOccurrenceMoves ==
  ASSUME Base, Trials, TakeOccurrence
  PROVE  Visits(Top.i) \/ PassesBy(Top.i) \/ GoesOn(Top.i) \/ (LevelFails /\ sticky)
<1>1. signal = "search" /\ Top.phase = "taking"
  BY DEF TakeOccurrence
<1> DEFINE i == Top.i
           c == prog.kids[i]
           k == Len(map[i])
           W == Len(Words(c))
           V == Before(levels, Len(levels))
           r == OneOccurrence(c, pos)
<1>2. /\ map \in Maps /\ pos \in 0..Len(input) /\ pos \in Nat /\ Len(input) \in Nat
      /\ Top \in Level /\ Top.map \in Maps /\ Top.pos \in 0..Len(input) /\ Top.pos \in Nat
      /\ prog \in Programs /\ input \in Inputs
      /\ i \in Kid \ V /\ i \in Nat /\ IsChild(c) /\ V \in SUBSET Kid
  BY <1>1, TopFacts, BeforeKids DEF TypeOK
<1>3. k \in Nat /\ W \in Nat /\ c.max \in Nat /\ c.min \in Nat
  BY <1>2, WordsFacts DEF Maps, IsChild
<1>4. /\ Multi(c) /\ \A j \in Kid \ {i} : map[j] = Top.map[j]
      /\ Top.took <=> k > 0
      /\ Takes(c, Top.pos, k)
      /\ pos = Top.pos + k * W
      /\ k > 0 => Words(c) # <<>>
      /\ Counted(Top.map, V)
  BY <1>1, TrialsFacts DEF AtTop
<1>5. \/ (k >= c.max \/ r # "ok") /\ StopTaking
      \/ ~(k >= c.max) /\ r = "ok" /\ Take(c)
      \/ LevelFails /\ sticky
  BY DEF TakeOccurrence, Current
<1>6. Takes(c, Top.pos, k + 1) <=> k < c.max /\ (Words(c) = <<>> => k = 0) /\ r = "ok"
  BY <1>2, <1>3, <1>4, TakesMore
<1>7. \A n \in Nat : Takes(c, Top.pos, n) /\ ~Takes(c, Top.pos, n + 1) =>
        Ends(i, Top.pos) = IF n > 0 \/ c.min = 0 THEN {Top.pos + n * W} ELSE {}
  <2> SUFFICES ASSUME NEW n \in Nat, Takes(c, Top.pos, n), ~Takes(c, Top.pos, n + 1)
               PROVE  Ends(i, Top.pos) = IF n > 0 \/ c.min = 0 THEN {Top.pos + n * W} ELSE {}
    OBVIOUS
  <2>1. Greedy(c, Top.pos) = n
    BY <1>2, GreedyIs
  <2> QED BY <1>4, <2>1 DEF Ends
<1> HIDE DEF r, k, W, V
<1>8. ASSUME NEW t \in Level, t.i = i, t.pos = Top.pos, t.map = Top.map,
             NEW p \in 0..Len(input), NEW m \in Maps,
             levels' = Append(SetTop([t EXCEPT !.phase = "visited"]), NewLevel(p, m)),
             map' = m, pos' = p, UNCHANGED signal,
             Ends(i, Top.pos) = {p}, Counted(m, V \union {i})
      PROVE  Visits(i)
  <2> DEFINE l == [t EXCEPT !.phase = "visited"]
  <2>1. l \in Level /\ l.i = i /\ l.pos = Top.pos /\ l.map = Top.map /\ l.phase = "visited"
    BY <1>8, TopWithPhase
  <2>2. levels' = Append(SetTop(l), NewLevel(p, m))
    BY <1>8
  <2> HIDE DEF l
  <2> QED BY <1>8, <2>1, <2>2 DEF Visits, V
<1>9. CASE (k >= c.max \/ r # "ok") /\ StopTaking
  <2>1. Ends(i, Top.pos) = IF k > 0 \/ c.min = 0 THEN {pos} ELSE {}
    <3>1. ~Takes(c, Top.pos, k + 1)
      BY <1>3, <1>6, <1>9
    <3> QED BY <1>3, <1>4, <1>7, <3>1
  <2>2. UNCHANGED signal
    BY <1>9 DEF StopTaking
  <2>3. CASE k > 0 \/ c.min = 0
    <3>1. Descend(i, pos, map)
      BY <1>4, <1>9, <2>3 DEF StopTaking, Current
    <3>2. [Top EXCEPT !.i = i, !.phase = "visited"] = [Top EXCEPT !.phase = "visited"]
      BY <1>2 DEF Level
    <3>3. levels' = Append(SetTop([Top EXCEPT !.phase = "visited"]), NewLevel(pos, map))
          /\ pos' = pos /\ map' = map
      BY <3>1, <3>2 DEF Descend
    <3>4. Counted(map, V \union {i})
      BY <1>2, <1>4, <2>3 DEF Counted, k
    <3>5. Ends(i, Top.pos) = {pos}
      BY <2>1, <2>3
    <3> QED BY <1>2, <1>8, <2>2, <3>3, <3>4, <3>5
  <2>4. CASE ~(k > 0 \/ c.min = 0)
    <3> DEFINE l == [Top EXCEPT !.phase = "trying"]
    <3>1. l \in Level /\ l.i = i /\ l.pos = Top.pos /\ l.map = Top.map /\ l.phase = "trying"
      BY <1>2, TopWithPhase
    <3>2. levels' = SetTop(l) /\ pos' = Top.pos /\ map' = Top.map
      BY <1>4, <1>9, <2>4 DEF StopTaking, Current, GiveUp
    <3>3. Ends(i, Top.pos) = {}
      BY <2>1, <2>4
    <3> HIDE DEF l
    <3>4. PassesBy(i)
      BY <2>2, <3>1, <3>2, <3>3 DEF PassesBy
    <3> QED BY <3>4
  <2> QED BY <2>3, <2>4
<1>10. CASE ~(k >= c.max) /\ r = "ok" /\ Take(c)
  <2> DEFINE p == After(c, pos)
             m == Add(map, i, pos, p)
             t == [Top EXCEPT !.took = TRUE]
  <2>1. p \in pos..Len(input) /\ p = pos + W
    BY <1>2, <1>10, OccurrenceIsComplete, CompleteFits DEF OneOccurrence, r, After, W
  <2>2. p \in 0..Len(input) /\ p \in Nat /\ (p > pos <=> W # 0)
    BY <1>2, <1>3, <2>1
  <2>3. t \in Level /\ t.i = i /\ t.pos = Top.pos /\ t.map = Top.map /\ t.phase = "taking" /\ t.took
    BY <1>1, <1>2, TopWithTook
  <2>4. /\ map' = m /\ pos' = p /\ UNCHANGED signal
        /\ levels' = IF p > pos THEN SetTop(t)
                     ELSE Append(SetTop([Top EXCEPT !.took = TRUE, !.phase = "visited"]),
                                 NewLevel(p, m))
    BY <1>10 DEF Take
  <2>5. [Top EXCEPT !.took = TRUE, !.phase = "visited"] = [t EXCEPT !.phase = "visited"]
    OBVIOUS
  <2> HIDE DEF p, t
  <2>6. /\ m \in Maps
        /\ \A j \in Kid : Len(map[j]) \in Nat
        /\ \A j \in Kid \ {i} : m[j] = map[j]
        /\ Len(m[i]) = Len(map[i]) + 1
        /\ \A n \in 1..Len(map[i]) : m[i][n] = map[i][n]
        /\ m[i][Len(map[i]) + 1] = [from |-> pos, to |-> p]
    <3> HIDE DEF i
    <3> QED BY <1>2, <2>2, AddFacts, SMTT(30) DEF i
  <2>7. Len(m[i]) = k + 1 /\ \A j \in Kid \ {i} : m[j] = Top.map[j]
    BY <1>4, <2>6 DEF k
  <2>8. Counted(m, V \union {i})
    <3>1. Len(m[i]) > 0
      BY <1>3, <2>7
    <3>2. \A j \in V : j # i /\ m[j] = Top.map[j]
      BY <1>2, <2>7
    <3>3. \A j \in Kid \ (V \union {i}) : m[j] = Top.map[j]
      BY <2>7
    <3> HIDE DEF m, i
    <3> QED BY <1>4, <3>1, <3>2, <3>3 DEF Counted
  <2> HIDE DEF m
  <2>9. p = Top.pos + (k + 1) * W
    <3>1. (k + 1) * W = k * W + W /\ k * W \in Nat
      BY <1>3, Distributes
    <3> QED BY <1>2, <1>3, <1>4, <2>1, <3>1
  <2>10. Takes(c, Top.pos, k + 1)
    BY <1>3, <1>4, <1>6, <1>10
  <2>11. CASE W # 0
    <3>1. Words(c) # <<>>
      BY <1>2, <2>11, WordsFacts DEF W
    <3>2. AtTop(t, m, p)
      BY <1>3, <1>4, <2>3, <2>7, <2>9, <2>10, <3>1 DEF AtTop, W
    <3>3. levels' = SetTop(t)
      BY <2>2, <2>4, <2>11
    <3>4. GoesOn(i)
      BY <2>3, <2>4, <3>2, <3>3 DEF GoesOn
    <3> QED BY <3>4
  <2>12. CASE W = 0
    <3>1. Words(c) = <<>>
      BY <1>2, <2>12, WordsFacts DEF W
    <3>2. ~Takes(c, Top.pos, (k + 1) + 1)
      BY <1>3, <3>1 DEF Takes
    <3>3. Ends(i, Top.pos) = {p}
      <4>1. k + 1 \in Nat /\ k + 1 > 0
        BY <1>3
      <4> QED BY <1>7, <2>9, <2>10, <3>2, <4>1
    <3>4. levels' = Append(SetTop([t EXCEPT !.phase = "visited"]), NewLevel(p, m))
      BY <2>2, <2>4, <2>5, <2>12
    <3>5. Visits(i)
      BY <1>8, <2>2, <2>3, <2>4, <2>6, <2>8, <3>3, <3>4 DEF m
    <3> QED BY <3>5
  <2> QED BY <2>11, <2>12
<1>11. QED
  BY <1>5, <1>9, <1>10

(* All of these keep what is counted.                                      *)
LEMMA MovesTrials ==
  ASSUME Base, Trials, signal = "search", UNCHANGED <<prog, input>>,
         NEW i \in Kid, Visits(i) \/ PassesBy(i) \/ GoesOn(i)
  PROVE  Trials'
<1>1. CASE Visits(i)
  <2>1. PICK l \in Level, p \in 0..Len(input), m \in Maps :
          /\ l.i = i /\ l.map = Top.map
          /\ levels' = Append(SetTop(l), NewLevel(p, m)) /\ map' = m /\ pos' = p
          /\ Counted(m, Before(levels, Len(levels)) \union {i})
          /\ UNCHANGED signal
    BY <1>1 DEF Visits
  <2>2. p \in Nat
    BY TopFacts
  <2> QED BY <2>1, <2>2, PushTrials
<1>2. CASE PassesBy(i)
  <2>1. PICK l \in Level :
          /\ l.pos = Top.pos /\ l.map = Top.map /\ l.phase = "trying"
          /\ levels' = SetTop(l) /\ map' = Top.map /\ pos' = Top.pos
          /\ UNCHANGED signal
    BY <1>2 DEF PassesBy
  <2>2. AtTop(l, map', pos')
    BY <2>1 DEF AtTop
  <2> QED BY <2>1, <2>2, ReplaceTrials
<1>3. CASE GoesOn(i)
  <2>1. PICK l \in Level :
          /\ l.map = Top.map
          /\ levels' = SetTop(l) /\ AtTop(l, map', pos')
          /\ UNCHANGED signal
    BY <1>3 DEF GoesOn
  <2> QED BY <2>1, ReplaceTrials
<1>4. QED
  BY <1>1, <1>2, <1>3

(* A round that ends the sequence has enough of each child.                *)
LEMMA RoundTrials ==
  ASSUME Base, Trials, signal = "scan", Round, UNCHANGED <<prog, input, levels, decodes>>
  PROVE  Trials'
<1>1. PICK p \in pos..Len(input) : RoundEnds(p) \/ RoundFails(p) \/ RoundAdds(p)
  BY RoundFacts DEF Base, Modes
<1>2. prog.mode # "search"
  BY DEF Base, Modes
<1>3. CASE RoundEnds(p)
  <2>1. signal' = "ok" /\ EnoughOfEach(map) /\ map' = map
    BY <1>3 DEF RoundEnds
  <2> QED BY <1>2, <2>1 DEF Trials, RequiredPresent, EnoughOfEach, Kid
<1>4. CASE signal' \notin {"search", "ok"}
  BY <1>4 DEF Trials, RequiredPresent
<1>5. QED
  BY <1>1, <1>3, <1>4 DEF RoundFails, RoundAdds

(* The first level counts nothing.                                         *)
LEMMA HeaderTrials == ASSUME Base, Header PROVE Trials'
<1>1. /\ map \in Maps /\ pos = 0 /\ \A i \in Kid : map[i] = <<>>
      /\ UNCHANGED <<prog, input, pos, map>> /\ signal = "header"
  BY DEF Base, TypeOK, Modes, Header, Maps
<1>2. CASE prog.mode = "search"
  <2> DEFINE h == [i |-> 0, pos |-> pos, map |-> map, phase |-> "trying", took |-> FALSE]
             s == <<h>>
  <2>1. levels' = s /\ signal' = "search"
    BY <1>2 DEF Header
  <2>2. h.pos = pos /\ h.map = map /\ h.phase = "trying"
    OBVIOUS
  <2> HIDE DEF h
  <2>3. Len(s) = 1 /\ s[1] = h
    OBVIOUS
  <2>4. Before(s, 1) = {}
    BY DEF Before
  <2> HIDE DEF s
  <2>5. CountsOK(s)
    <3>1. \A k \in 1..1 : k = 1
      OBVIOUS
    <3> QED BY <1>1, <2>2, <2>3, <2>4, <3>1 DEF CountsOK, Counted
  <2>6. AtTop(s[1], map', pos')
    BY <1>1, <2>2, <2>3 DEF AtTop
  <2> QED BY <1>1, <2>1, <2>3, <2>5, <2>6, TrialsGoOn
<1>3. CASE prog.mode # "search"
  <2>1. signal' = "scan"
    BY <1>3 DEF Header
  <2> QED BY <2>1 DEF Trials, RequiredPresent
<1>4. QED
  BY <1>2, <1>3

(* Every step keeps what is counted.                                       *)
LEMMA TrialsStep == Base /\ Trials /\ [Next]_vars => Trials'
<1> SUFFICES ASSUME Base, Trials, [Next]_vars PROVE Trials'
  OBVIOUS
<1>1. CASE Header
  BY <1>1, HeaderTrials
<1>2. CASE ScanStep
  BY <1>2, RoundTrials DEF ScanStep
<1>3. CASE InitiatedStep
  BY <1>3, RoundTrials DEF InitiatedStep
<1>4. CASE AllVisited
  BY <1>4, AllVisitedTrials
<1>5. CASE NoChildLeft
  BY <1>5, LevelFailsTrials DEF NoChildLeft, Trying
<1>6. CASE TryScalar
  <2>1. signal = "search" /\ UNCHANGED <<prog, input>>
    BY <1>6 DEF TryScalar, Trying
  <2> QED BY <1>6, <2>1, TryScalarMoves, MovesTrials
<1>7. CASE StartTaking
  <2>1. signal = "search" /\ UNCHANGED <<prog, input>>
    BY <1>7 DEF StartTaking, Trying
  <2> QED BY <1>7, <2>1, StartTakingMoves, MovesTrials
<1>8. CASE TakeOccurrence
  <2>1. signal = "search" /\ Top.phase = "taking" /\ UNCHANGED <<prog, input>>
    BY <1>8 DEF TakeOccurrence
  <2>2. Top.i \in Kid
    BY <2>1, TopFacts
  <2> QED BY <1>8, <2>1, <2>2, TakeOccurrenceMoves, MovesTrials, LevelFailsTrials
<1>9. CASE DecodeAgain
  BY <1>9 DEF DecodeAgain, Trials, RequiredPresent
<1>10. CASE UNCHANGED vars
  <2>1. UNCHANGED <<prog, input, pos, map, levels, signal>>
    BY <1>10 DEF vars
  <2>2. CASE signal = "search"
    BY <2>1, <2>2, TrialsGoOn DEF Trials
  <2>3. CASE signal # "search"
    BY <2>1, <2>3 DEF Trials, RequiredPresent, Kid
  <2> QED BY <2>2, <2>3
<1>11. QED
  BY <1>1, <1>2, <1>3, <1>4, <1>5, <1>6, <1>7, <1>8, <1>9, <1>10 DEF Next, Run

(* So it holds in every state.                                             *)
LEMMA TrialsInvariant == Spec => []Trials
<1>1. Init => Trials
  BY DEF Init, Trials, RequiredPresent
<1>2. QED
  BY <1>1, BaseInvariant, TrialsStep, PTL DEF Spec

(* A decoded sequence has the occurrences its children require.            *)
THEOREM RequiredArePresent == Spec => []RequiredPresent
<1>1. Trials => RequiredPresent
  BY DEF Trials
<1>2. QED
  BY <1>1, TrialsInvariant, PTL

----------------------------------------------------------------------------
(* The search decides.                                                     *)

Rest(s, k) == Kid \ Before(s, k)

(* Child i of what is left at place p leads nowhere.                       *)
InVain(i, p, S) == \A q \in Ends(i, p) : q \notin Works[S \ {i}]

(* What a level can tell: an order of the children left to it is one of    *)
(* all; the child it has visited ends where the next level starts; and,    *)
(* while no discriminator has committed, the children it has tried lead    *)
(* nowhere.                                                                *)
SearchedAt(s, k) ==
  /\ s[k].pos \in Works[Rest(s, k)] => Solvable
  /\ k = 1 => s[k].pos = 0
  /\ k < Len(s) => Ends(s[k].i, s[k].pos) = {s[k + 1].pos}
  /\ ~sticky => \A i \in Rest(s, k) :
       i < s[k].i \/ (i = s[k].i /\ s[k].phase = "trying") => InVain(i, s[k].pos, Rest(s, k))

SearchedOK(s) == \A k \in 1..Len(s) : SearchedAt(s, k)

Searching == (signal = "search" => SearchedOK(levels)) /\ SearchDecides

(* The invariant after a step that goes on with the search.                *)
LEMMA SearchGoesOn ==
  ASSUME UNCHANGED <<prog, input, sticky>>, NEW s, s = levels', SearchedOK(s), signal' = "search"
  PROVE  Searching'
<1>1. Kid' = Kid /\ Works' = Works /\ (Solvable' <=> Solvable)
  BY Unchanging
<1>2. \A i, p : Ends(i, p)' = Ends(i, p)
  BY Unchanging
<1>3. \A k : Rest(levels, k)' = Rest(s, k)
  BY <1>1 DEF Rest, Before
<1>4. \A i, p, S : InVain(i, p, S)' <=> InVain(i, p, S)
  BY <1>1, <1>2 DEF InVain
<1>5. ASSUME NEW k \in 1..Len(s) PROVE SearchedAt(levels, k)'
  <2>1. SearchedAt(s, k)
    BY DEF SearchedOK
  <2> DEFINE R == Rest(s, k)
  <2>2. s[k].pos \in Works[R] => Solvable
    BY <2>1 DEF SearchedAt
  <2>3. /\ k = 1 => s[k].pos = 0
        /\ k < Len(s) => Ends(s[k].i, s[k].pos) = {s[k + 1].pos}
    BY <2>1 DEF SearchedAt
  <2>4. ~sticky => \A i \in R :
          i < s[k].i \/ (i = s[k].i /\ s[k].phase = "trying") => InVain(i, s[k].pos, R)
    BY <2>1 DEF SearchedAt
  <2>5. Rest(levels, k)' = R
    BY <1>3
  <2> HIDE DEF R
  <2>6. (levels[k].pos \in Works[Rest(levels, k)])' => Solvable'
    BY <1>1, <2>2, <2>5
  <2>7. (k = 1 => levels[k].pos = 0)'
    BY <2>3
  <2>8. (k < Len(levels) => Ends(levels[k].i, levels[k].pos) = {levels[k + 1].pos})'
    BY <1>2, <2>3, ZenonT(60) DEF Ends
  <2>9. (~sticky => \A i \in Rest(levels, k) :
          i < levels[k].i \/ (i = levels[k].i /\ levels[k].phase = "trying")
            => InVain(i, levels[k].pos, Rest(levels, k)))'
    BY <1>4, <2>4, <2>5
  <2> QED BY <2>6, <2>7, <2>8, <2>9 DEF SearchedAt
<1>6. SearchedOK(levels)'
  BY <1>5 DEF SearchedOK
<1>7. QED
  BY <1>6 DEF Searching, SearchDecides, Done

(* The levels below are not concerned.                                     *)
LEMMA BelowSearched ==
  ASSUME SearchedOK(levels), Len(levels) \in Nat, NEW s, Len(s) \in Nat,
         NEW h \in Nat, h <= Len(levels), h <= Len(s),
         h > 0 => s[h].pos = levels[h].pos,
         \A k \in 1..(h - 1) : s[k] = levels[k],
         \A k \in 1..h : Before(s, k) = Before(levels, k)
  PROVE  \A k \in 1..(h - 1) : SearchedAt(s, k)
<1> SUFFICES ASSUME NEW k \in 1..(h - 1) PROVE SearchedAt(s, k)
  OBVIOUS
<1>1. k \in 1..h /\ k \in 1..Len(levels) /\ k < Len(levels) /\ k < Len(s)
  OBVIOUS
<1>2. s[k] = levels[k] /\ Rest(s, k) = Rest(levels, k)
  BY <1>1 DEF Rest
<1>3. s[k + 1].pos = levels[k + 1].pos
  <2>1. k + 1 \in 1..(h - 1) \/ k + 1 = h
    OBVIOUS
  <2> QED BY <2>1
<1>4. SearchedAt(levels, k)
  BY <1>1 DEF SearchedOK
<1>5. QED
  BY <1>1, <1>2, <1>3, <1>4 DEF SearchedAt

(* What the invariant says of the level in use.                            *)
LEMMA SearchFacts ==
  ASSUME Base, Searching, signal = "search"
  PROVE  LET n == Len(levels)
             R == Rest(levels, n) IN
         /\ n \in Nat /\ n > 0 /\ Top = levels[n] /\ SearchedOK(levels)
         /\ R = {i \in Kid : Unvisited(i)}
         /\ Top.pos \in Works[R] => Solvable
         /\ n = 1 => Top.pos = 0 /\ R = Kid
         /\ ~sticky => \A i \in R :
              i < Top.i \/ (i = Top.i /\ Top.phase = "trying") => InVain(i, Top.pos, R)
<1> DEFINE n == Len(levels)
<1>1. n \in Nat /\ n > 0 /\ Top = levels[n] /\ Visited = Before(levels, n)
  BY TopFacts, TopLevel
<1>2. SearchedOK(levels)
  BY DEF Searching
<1>3. SearchedAt(levels, n)
  <2>1. n \in 1..n
    BY <1>1
  <2> QED BY <1>2, <2>1 DEF SearchedOK
<1>4. Rest(levels, n) = {i \in Kid : Unvisited(i)}
  BY <1>1 DEF Rest, Unvisited
<1>5. n = 1 => Rest(levels, n) = Kid
  BY DEF Rest, Before
<1>6. QED
  BY <1>1, <1>2, <1>3, <1>4, <1>5 DEF SearchedAt

(* A child passed by, or taken.                                            *)
LEMMA ReplaceSearched ==
  ASSUME Base, Searching, signal = "search", UNCHANGED <<prog, input, sticky, signal>>,
         NEW l \in Level, l.pos = Top.pos, levels' = SetTop(l),
         ~sticky => \A j \in Rest(levels, Len(levels)) :
           j < l.i \/ (j = l.i /\ l.phase = "trying") =>
             InVain(j, Top.pos, Rest(levels, Len(levels)))
  PROVE  Searching'
<1> DEFINE n == Len(levels)
           s == SetTop(l)
           R == Rest(levels, n)
<1>1. levels \in Seq(Level) /\ levels # <<>>
  BY TopFacts
<1>2. /\ Len(s) = n /\ s[n] = l
      /\ \A k \in 1..(n - 1) : s[k] = levels[k]
      /\ \A k \in 1..n : Before(s, k) = Before(levels, k)
  BY <1>1, Replaced
<1>3. /\ n \in Nat /\ n > 0 /\ Top = levels[n] /\ SearchedOK(levels)
      /\ Top.pos \in Works[R] => Solvable
      /\ n = 1 => Top.pos = 0
  BY SearchFacts
<1>4. ~sticky => \A j \in R : j < l.i \/ (j = l.i /\ l.phase = "trying") => InVain(j, Top.pos, R)
  OBVIOUS
<1> HIDE DEF s
<1>5. \A k \in 1..(n - 1) : SearchedAt(s, k)
  BY <1>2, <1>3, BelowSearched
<1>6. SearchedAt(s, n)
  <2>1. Rest(s, n) = R
    <3>1. n \in 1..n
      BY <1>3
    <3> QED BY <1>2, <3>1 DEF Rest
  <2> HIDE DEF R, n
  <2> QED BY <1>2, <1>3, <1>4, <2>1 DEF SearchedAt
<1>7. SearchedOK(s)
  <2> HIDE DEF n
  <2>1. \A k \in 1..n : k \in 1..(n - 1) \/ k = n
    BY <1>3
  <2> QED BY <1>2, <1>5, <1>6, <2>1 DEF SearchedOK
<1>8. QED
  BY <1>7, SearchGoesOn DEF s

(* A child visited: what remains is left to the next level.                *)
LEMMA PushSearched ==
  ASSUME Base, Searching, signal = "search", UNCHANGED <<prog, input, sticky, signal>>,
         NEW l \in Level, l.pos = Top.pos, l.phase = "visited", l.i \in Rest(levels, Len(levels)),
         NEW p \in Nat, NEW m \in Maps,
         levels' = Append(SetTop(l), NewLevel(p, m)),
         Ends(l.i, Top.pos) = {p},
         ~sticky => \A j \in Rest(levels, Len(levels)) :
           j < l.i => InVain(j, Top.pos, Rest(levels, Len(levels)))
  PROVE  Searching'
<1> DEFINE n == Len(levels)
           h == NewLevel(p, m)
           s == Append(SetTop(l), h)
           R == Rest(levels, n)
<1>1. levels \in Seq(Level) /\ levels # <<>> /\ Top.pos \in 0..Len(input)
      /\ prog \in Programs /\ input \in Inputs /\ \A i \in Kid : i \in Nat
  BY TopFacts DEF TypeOK
<1>2. h \in Level /\ h.pos = p /\ h.i = 0 /\ h.phase = "trying"
  BY DEF NewLevel, Level, Maps
<1> HIDE DEF h
<1>3. /\ Len(s) = n + 1 /\ s[n] = l /\ s[n + 1] = h
      /\ \A k \in 1..(n - 1) : s[k] = levels[k]
      /\ \A k \in 1..n : Before(s, k) = Before(levels, k)
      /\ Before(s, n + 1) = Before(levels, n) \union {l.i}
  BY <1>1, <1>2, Pushed
<1>4. /\ n \in Nat /\ n > 0 /\ Top = levels[n] /\ SearchedOK(levels)
      /\ Top.pos \in Works[R] => Solvable
      /\ n = 1 => Top.pos = 0
  BY SearchFacts
<1>5. ~sticky => \A j \in R : j < l.i => InVain(j, Top.pos, R)
  OBVIOUS
<1>6. l.i \in R
  OBVIOUS
<1>7. R \in SUBSET Kid
  BY DEF Rest
<1> HIDE DEF s
<1>8. \A k \in 1..(n - 1) : SearchedAt(s, k)
  <2>1. n <= Len(levels) /\ n <= Len(s) /\ Len(s) \in Nat /\ Len(levels) \in Nat
    BY <1>3, <1>4
  <2>2. s[n].pos = levels[n].pos
    BY <1>3, <1>4
  <2> QED BY <1>3, <1>4, <2>1, <2>2, BelowSearched
<1>9. SearchedAt(s, n)
  <2>1. Rest(s, n) = R
    <3>1. n \in 1..n
      BY <1>4
    <3> QED BY <1>3, <3>1 DEF Rest
  <2>2. Ends(l.i, l.pos) = {s[n + 1].pos}
    BY <1>2, <1>3
  <2> HIDE DEF R, n
  <2>3. s[n].phase # "trying" /\ s[n].pos = Top.pos /\ s[n].i = l.i
    BY <1>3
  <2> QED BY <1>3, <1>4, <1>5, <2>1, <2>2, <2>3 DEF SearchedAt
<1>10. SearchedAt(s, n + 1)
  <2>1. Rest(s, n + 1) = R \ {l.i}
    BY <1>3 DEF Rest
  <2> HIDE DEF R, n
  <2>2. p \in Works[R \ {l.i}] => Solvable
    <3>1. p \in Ends(l.i, Top.pos)
      OBVIOUS
    <3>2. p \in Works[R \ {l.i}] => Top.pos \in Works[R]
      BY <1>1, <1>6, <1>7, <3>1, WorksFacts
    <3> QED BY <1>4, <3>2
  <2>3. \A i \in Rest(s, n + 1) : ~(i < 0) /\ i # 0
    <3>1. \A i \in Kid : i # 0 /\ i \in Nat
      BY <1>1, Sizes
    <3> QED BY <1>7, <2>1, <3>1
  <2>4. n + 1 # 1 /\ ~(n + 1 < n + 1)
    BY <1>4
  <2> QED BY <1>2, <1>3, <2>1, <2>2, <2>3, <2>4 DEF SearchedAt
<1>11. SearchedOK(s)
  <2> HIDE DEF n
  <2>1. \A k \in 1..(n + 1) : k \in 1..(n - 1) \/ k = n \/ k = n + 1
    BY <1>4
  <2> QED BY <1>3, <1>8, <1>9, <1>10, <2>1 DEF SearchedOK
<1>12. QED
  BY <1>11, SearchGoesOn DEF s, h

(* A level without an answer: what the level below tried leads nowhere.    *)
LEMMA LevelFailsSearched ==
  ASSUME Base, Searching, signal = "search", LevelFails, UNCHANGED <<prog, input, sticky>>,
         ~sticky => /\ Rest(levels, Len(levels)) # {}
                    /\ \A j \in Rest(levels, Len(levels)) :
                         InVain(j, Top.pos, Rest(levels, Len(levels)))
  PROVE  Searching'
<1> DEFINE n == Len(levels)
           R == Rest(levels, n)
<1>1. /\ n \in Nat /\ n > 0 /\ Top = levels[n] /\ SearchedOK(levels)
      /\ n = 1 => Top.pos = 0 /\ R = Kid
  BY SearchFacts
<1>2. /\ levels # <<>> /\ StackOK(levels) /\ Top.pos \in 0..Len(input)
      /\ prog \in Programs /\ input \in Inputs
  BY TopFacts DEF TypeOK
<1>3. ~sticky => Top.pos \notin Works[R]
  <2>1. R \in SUBSET Kid
    BY DEF Rest
  <2>2. ~sticky => R # {} /\ \A j \in R : InVain(j, Top.pos, R)
    OBVIOUS
  <2> HIDE DEF R
  <2> QED BY <1>2, <2>1, <2>2, WorksFacts DEF InVain
<1>4. CASE n = 1
  <2>1. signal' = "fail" /\ (~sticky => ~Solvable)
    BY <1>1, <1>3, <1>4 DEF LevelFails, Solvable
  <2>2. Solvable' <=> Solvable
    BY Unchanging
  <2> QED BY <2>1, <2>2 DEF Searching, SearchDecides
<1>5. CASE n # 1
  <2> DEFINE s == [Below EXCEPT ![Len(Below)].phase = "trying"]
             b == levels[n - 1]
             l == [b EXCEPT !.phase = "trying"]
             Q == Rest(levels, n - 1)
  <2>1. /\ n > 1 /\ Len(s) = n - 1 /\ s[n - 1] = l /\ b \in Level
        /\ \A k \in 1..(n - 2) : s[k] = levels[k]
        /\ \A k \in 1..(n - 1) : Before(s, k) = Before(levels, k)
        /\ Before(levels, n) = Before(levels, n - 1) \union {b.i}
    BY <1>2, <1>5, Popped
  <2>2. levels' = s /\ signal' = "search"
    BY <1>5 DEF LevelFails
  <2>3. l.pos = b.pos /\ l.i = b.i /\ l.phase = "trying"
    BY <2>1, TopWithPhase
  <2> HIDE DEF s, l
  <2> DEFINE h == n - 1
  <2>4. h \in Nat /\ h > 0 /\ h < n /\ h + 1 = n /\ h \in 1..n /\ h \in 1..h /\ h - 1 = n - 2
    BY <1>1, <2>1
  <2>5. \A k \in 1..(h - 1) : SearchedAt(s, k)
    <3>1. h <= Len(levels) /\ h <= Len(s) /\ Len(s) \in Nat
      BY <2>1, <2>4
    <3>2. s[h].pos = levels[h].pos
      BY <2>1, <2>3
    <3> QED BY <1>1, <2>1, <2>4, <3>1, <3>2, BelowSearched
  <2>6. SearchedAt(levels, h)
    BY <1>1, <2>4 DEF SearchedOK
  <2>7. /\ b.pos \in Works[Q] => Solvable
        /\ h = 1 => b.pos = 0
        /\ Ends(b.i, b.pos) = {Top.pos}
        /\ ~sticky => \A i \in Q : i < b.i => InVain(i, b.pos, Q)
    BY <1>1, <2>4, <2>6 DEF SearchedAt
  <2>8. Rest(s, h) = Q /\ R = Q \ {b.i}
    BY <2>1, <2>4 DEF Rest
  <2>9. ~sticky => InVain(b.i, b.pos, Q)
    BY <1>3, <2>7, <2>8 DEF InVain
  <2> HIDE DEF h, Q
  <2>10. SearchedAt(s, h)
    <3>1. s[h].pos = b.pos /\ s[h].i = b.i
      BY <2>1, <2>3 DEF h
    <3>2. ~(h < Len(s))
      BY <2>1, <2>4 DEF h
    <3> HIDE DEF b
    <3> QED BY <2>7, <2>8, <2>9, <3>1, <3>2 DEF SearchedAt
  <2>11. SearchedOK(s)
    <3>1. \A k \in 1..h : k \in 1..(h - 1) \/ k = h
      BY <2>4
    <3>2. Len(s) = h
      BY <2>1 DEF h
    <3> QED BY <2>5, <2>10, <3>1, <3>2 DEF SearchedOK
  <2> QED BY <2>2, <2>11, SearchGoesOn
<1>6. QED
  BY <1>4, <1>5

(* A child visited, passed by or taken keeps what the levels can tell.     *)
LEMMA MovesSearched ==
  ASSUME Base, Searching, signal = "search", UNCHANGED <<prog, input, sticky>>,
         NEW i \in Kid, Unvisited(i),
         \/ Top.phase = "trying" /\ NextKid(i)
         \/ Top.i = i,
         Visits(i) \/ PassesBy(i) \/ GoesOn(i)
  PROVE  Searching'
<1> DEFINE R == Rest(levels, Len(levels))
<1>1. /\ i \in R /\ R \subseteq Kid
      /\ R = {j \in Kid : Unvisited(j)}
      /\ ~sticky => \A j \in R :
           j < Top.i \/ (j = Top.i /\ Top.phase = "trying") => InVain(j, Top.pos, R)
  BY SearchFacts DEF Rest
<1>2. \A j \in Kid : j \in Nat
  BY TopFacts
<1>3. Top.i \in Nat
  BY TopFacts
<1>4. ~sticky => \A j \in R : j < i => InVain(j, Top.pos, R)
  <2> SUFFICES ASSUME ~sticky, NEW j \in R, j < i PROVE InVain(j, Top.pos, R)
    OBVIOUS
  <2>1. CASE Top.i = i
    BY <1>1, <2>1
  <2>2. CASE Top.phase = "trying" /\ NextKid(i)
    <3>1. ~(j > Top.i)
      BY <1>1, <1>2, <2>2 DEF NextKid
    <3>2. j < Top.i \/ j = Top.i
      BY <1>1, <1>2, <1>3, <3>1
    <3> HIDE DEF R
    <3> QED BY <1>1, <2>2, <3>2
  <2> QED BY <2>1, <2>2
<1>5. CASE Visits(i)
  <2>1. PICK l \in Level, p \in 0..Len(input), m \in Maps :
          /\ l.i = i /\ l.pos = Top.pos /\ l.phase = "visited"
          /\ levels' = Append(SetTop(l), NewLevel(p, m))
          /\ Ends(i, Top.pos) = {p}
          /\ UNCHANGED signal
    BY <1>5 DEF Visits
  <2>2. p \in Nat
    BY TopFacts
  <2>3. l.i \in R
    BY <1>1, <2>1
  <2>4. ~sticky => \A j \in R : j < l.i => InVain(j, Top.pos, R)
    BY <1>4, <2>1
  <2>5. Ends(l.i, Top.pos) = {p}
    BY <2>1
  <2> QED BY <2>1, <2>2, <2>3, <2>4, <2>5, PushSearched
<1>6. CASE PassesBy(i)
  <2>1. PICK l \in Level :
          /\ l.i = i /\ l.pos = Top.pos /\ levels' = SetTop(l)
          /\ Ends(i, Top.pos) = {}
          /\ UNCHANGED signal
    BY <1>6 DEF PassesBy
  <2>2. InVain(i, Top.pos, R)
    BY <2>1 DEF InVain
  <2>3. ~sticky => \A j \in R : j < l.i \/ (j = l.i /\ l.phase = "trying") => InVain(j, Top.pos, R)
    BY <1>4, <2>1, <2>2
  <2> QED BY <2>1, <2>3, ReplaceSearched
<1>7. CASE GoesOn(i)
  <2>1. PICK l \in Level :
          /\ l.i = i /\ l.pos = Top.pos /\ l.phase = "taking" /\ levels' = SetTop(l)
          /\ UNCHANGED signal
    BY <1>7 DEF GoesOn
  <2>2. ~sticky => \A j \in R : j < l.i \/ (j = l.i /\ l.phase = "trying") => InVain(j, Top.pos, R)
    BY <1>4, <2>1
  <2> QED BY <2>1, <2>2, ReplaceSearched
<1>8. QED
  BY <1>5, <1>6, <1>7

(* The first level has tried nothing.                                      *)
LEMMA HeaderSearched == ASSUME Base, Header PROVE Searching'
<1>1. /\ pos = 0 /\ UNCHANGED <<prog, input>> /\ signal = "header"
  BY DEF Base, Modes, Header
<1>2. signal' # "search" => Searching'
  BY DEF Searching, SearchDecides, Header, Done
<1>3. CASE signal' = "search"
  <2> DEFINE h == [i |-> 0, pos |-> pos, map |-> map, phase |-> "trying", took |-> FALSE]
             s == <<h>>
  <2>1. levels' = s
    BY <1>3 DEF Header
  <2>2. h.pos = 0 /\ h.i = 0
    BY <1>1
  <2> HIDE DEF h
  <2>3. Len(s) = 1 /\ s[1] = h
    OBVIOUS
  <2>4. Rest(s, 1) = Kid
    BY DEF Rest, Before
  <2>5. \A i \in Kid : i \in Nat /\ ~(i < 0) /\ i # 0
    <3>1. prog \in Programs /\ input \in Inputs
      BY DEF Base, TypeOK
    <3>2. Kid = 1..Len(prog.kids) /\ Len(prog.kids) \in Nat
      BY <3>1, Sizes
    <3> QED BY <3>2
  <2> HIDE DEF s
  <2>6. SearchedAt(s, 1)
    <3>1. s[1].pos \in Works[Rest(s, 1)] => Solvable
      BY <2>2, <2>3, <2>4 DEF Solvable
    <3> QED BY <2>2, <2>3, <2>4, <2>5, <3>1 DEF SearchedAt
  <2>7. SearchedOK(s)
    <3>1. \A k \in 1..1 : k = 1
      OBVIOUS
    <3> QED BY <2>3, <2>6, <3>1 DEF SearchedOK
  <2>8. Works' = Works /\ (Solvable' <=> Solvable) /\ Kid' = Kid
    BY <1>1, Unchanging
  <2>9. SearchedOK(levels)'
    <3>1. Len(levels') = 1 /\ levels'[1].pos = 0 /\ levels'[1].i = 0
      BY <2>1, <2>2, <2>3
    <3>2. Rest(levels, 1)' = Kid
      BY <2>8 DEF Rest, Before
    <3>3. (levels[1].pos \in Works[Rest(levels, 1)] => Solvable)'
      BY <2>8, <3>1, <3>2 DEF Solvable
    <3>4. SearchedAt(levels, 1)'
      BY <2>5, <3>1, <3>2, <3>3 DEF SearchedAt
    <3>5. \A k \in 1..1 : k = 1
      OBVIOUS
    <3> QED BY <3>1, <3>4, <3>5 DEF SearchedOK
  <2> QED BY <1>3, <2>9 DEF Searching, SearchDecides, Done
<1>4. QED
  BY <1>2, <1>3

(* No child is left: the order found is one.                               *)
LEMMA AllVisitedSearched == ASSUME Base, Searching, AllVisited PROVE Searching'
<1>1. /\ signal = "search" /\ Visited = Kid /\ UNCHANGED <<prog, input>> /\ Finish(pos, TRUE)
  BY DEF AllVisited, Trying
<1>2. Solvable
  <2>1. Rest(levels, Len(levels)) = {}
    BY <1>1, TopFacts DEF Rest
  <2>2. Top.pos \in Works[{}]
    <3>1. prog \in Programs /\ input \in Inputs /\ Top.pos \in 0..Len(input)
      BY <1>1, TopFacts DEF TypeOK
    <3> QED BY <3>1, WorksFacts
  <2> QED BY <1>1, <2>1, <2>2, SearchFacts
<1>3. Solvable'
  BY <1>1, <1>2, Unchanging
<1>4. signal' \in {"ok", "fail"} /\ (signal' = "fail" => prog.terminated)
  <2>1. /\ TypeOK /\ pos \in 0..Len(input) /\ Len(input) \in Nat
    BY <1>1, TopFacts
  <2>2. signal' = "fail" => PastTerminator(pos) = -1
    BY <1>1 DEF Finish
  <2>3. PastTerminator(pos) = -1 => prog.terminated
    BY <2>1 DEF PastTerminator
  <2> QED BY <1>1, <2>2, <2>3 DEF Finish
<1>5. QED
  BY <1>1, <1>3, <1>4 DEF Searching, SearchDecides

(* Every step keeps what the levels can tell.                              *)
LEMMA SearchingStep == Base /\ Trials /\ Searching /\ [Next]_vars => Searching'
<1> SUFFICES ASSUME Base, Trials, Searching, [Next]_vars PROVE Searching'
  OBVIOUS
<1>1. CASE Header
  BY <1>1, HeaderSearched
<1>2. CASE ScanStep \/ InitiatedStep
  <2>1. prog' = prog /\ prog.mode # "search" /\ signal = "scan"
    BY <1>2 DEF ScanStep, InitiatedStep
  <2>2. signal' # "search"
    <3>1. Round
      BY <1>2 DEF ScanStep, InitiatedStep
    <3> QED BY <2>1, <3>1 DEF Round, Finish
  <2> QED BY <2>1, <2>2 DEF Searching, SearchDecides
<1>3. CASE AllVisited
  BY <1>3, AllVisitedSearched
<1>4. CASE NoChildLeft
  <2>1. /\ signal = "search" /\ Top.phase = "trying" /\ UNCHANGED <<prog, input, sticky>>
        /\ LevelFails /\ Visited # Kid /\ ~\E i \in Kid : i > Top.i /\ Unvisited(i)
    BY <1>4 DEF NoChildLeft, Trying
  <2> DEFINE R == Rest(levels, Len(levels))
  <2>2. /\ R = {i \in Kid : Unvisited(i)}
        /\ ~sticky => \A i \in R : i < Top.i \/ i = Top.i => InVain(i, Top.pos, R)
    BY <2>1, SearchFacts
  <2>3. Top.i \in Nat /\ \A i \in Kid : i \in Nat
    BY <2>1, TopFacts
  <2>4. \A i \in R : i < Top.i \/ i = Top.i
    BY <2>1, <2>2, <2>3
  <2>5. R # {}
    <3>1. Visited \subseteq Kid
      BY <2>1, TopFacts, BeforeKids
    <3> QED BY <2>1, <2>2, <3>1 DEF Unvisited
  <2>6. ~sticky => \A i \in R : InVain(i, Top.pos, R)
    BY <2>2, <2>4
  <2> QED BY <2>1, <2>5, <2>6, LevelFailsSearched
<1>5. CASE TryScalar
  <2>1. signal = "search" /\ Top.phase = "trying" /\ UNCHANGED <<prog, input, sticky>>
    BY <1>5 DEF TryScalar, Trying
  <2>2. PICK i \in Kid : NextKid(i) /\ (Visits(i) \/ PassesBy(i))
    BY <1>5, TryScalarMoves
  <2>3. Unvisited(i)
    BY <2>2 DEF NextKid
  <2> QED BY <2>1, <2>2, <2>3, MovesSearched
<1>6. CASE StartTaking
  <2>1. signal = "search" /\ Top.phase = "trying" /\ UNCHANGED <<prog, input, sticky>>
    BY <1>6 DEF StartTaking, Trying
  <2>2. PICK i \in Kid : NextKid(i) /\ GoesOn(i)
    BY <1>6, StartTakingMoves
  <2>3. Unvisited(i)
    BY <2>2 DEF NextKid
  <2> QED BY <2>1, <2>2, <2>3, MovesSearched
<1>7. CASE TakeOccurrence
  <2>1. signal = "search" /\ Top.phase = "taking" /\ UNCHANGED <<prog, input, sticky>>
    BY <1>7 DEF TakeOccurrence
  <2>2. Top.i \in Kid /\ Unvisited(Top.i)
    BY <2>1, TopFacts DEF Unvisited
  <2>3. CASE LevelFails /\ sticky
    BY <2>1, <2>3, LevelFailsSearched
  <2> QED BY <1>7, <2>1, <2>2, <2>3, TakeOccurrenceMoves, MovesSearched
<1>8. CASE DecodeAgain
  BY <1>8 DEF DecodeAgain, Searching, SearchDecides, Done
<1>9. CASE UNCHANGED vars
  <2>1. UNCHANGED <<prog, input, levels, signal, sticky>>
    BY <1>9 DEF vars
  <2>2. CASE signal = "search"
    BY <2>1, <2>2, SearchGoesOn DEF Searching
  <2>3. CASE signal # "search"
    <3>1. Solvable' <=> Solvable
      BY <2>1, Unchanging
    <3> QED BY <2>1, <2>3, <3>1 DEF Searching, SearchDecides, Done
  <2> QED BY <2>2, <2>3
<1>10. QED
  BY <1>1, <1>2, <1>3, <1>4, <1>5, <1>6, <1>7, <1>8, <1>9 DEF Next, Run

(* The search finds an order of the children whenever there is one, and    *)
(* only then, as long as no discriminator outside a choice has committed.  *)
THEOREM SearchIsComplete == Spec => []SearchDecides
<1>1. Init => Searching
  BY DEF Init, Searching, SearchDecides, Done
<1>2. Spec => []Searching
  BY <1>1, BaseInvariant, TrialsInvariant, SearchingStep, PTL DEF Spec
<1>3. Searching => SearchDecides
  BY DEF Searching
<1>4. QED
  BY <1>2, <1>3, PTL

=============================================================================
