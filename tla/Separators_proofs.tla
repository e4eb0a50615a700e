------------------------- MODULE Separators_proofs -------------------------
(***************************************************************************)
(* What the decoding of separated sequences promises, for every set of     *)
(* programs and every input.                                               *)
(***************************************************************************)
EXTENDS Separators, SequenceTheorems, FiniteSetTheorems, WellFoundedInduction, TLAPS

----------------------------------------------------------------------------
(* Data.                                                                   *)

(* A set of naturals has a least element.                                  *)
LEMMA Least ==
  ASSUME NEW T \in SUBSET Nat, T # {}
  PROVE  \E x \in T : \A y \in T : x <= y
<1>1. PICK x \in T : \A y \in T : ~(<<y, x>> \in OpToRel(<, Nat))
  BY NatLessThanWellFounded, WFMin
<1>2. ASSUME NEW y \in T PROVE x <= y
  <2>1. <<y, x>> \notin OpToRel(<, Nat)
    BY <1>1
  <2>2. <<y, x>> \in Nat \X Nat
    OBVIOUS
  <2>3. ~(y < x)
    BY <2>1, <2>2 DEF OpToRel
  <2> QED BY <2>3
<1> QED BY <1>2

(* A multiple is divided.                                                  *)
LEMMA Multiple ==
  ASSUME NEW k \in Nat, NEW n \in Nat, n # 0
  PROVE  (k * n) % n = 0 /\ (k * n) \div n = k
<1>1. \A x, d, q, r \in Int : d > 0 /\ x = d * q + r /\ 0 <= r /\ r < d => x \div d = q /\ x % d = r
  <2> SUFFICES ASSUME NEW x \in Int, NEW d \in Int, NEW q \in Int, NEW r \in Int,
                      d > 0, x = d * q + r, 0 <= r, r < d
               PROVE  x \div d = q /\ x % d = r
    OBVIOUS
  <2>1. x = d * (x \div d) + (x % d) /\ x % d \in 0..(d - 1) /\ x \div d \in Int
    BY Z3
  <2> DEFINE y == x \div d
             z == x % d
  <2>2. x = d * y + z /\ z \in 0..(d - 1) /\ y \in Int
    BY <2>1
  <2> HIDE DEF y, z
  <2>3. d * (y - q) = r - z
    BY <2>2
  <2>4. y - q < 1
    <3>1. ASSUME y - q >= 1 PROVE FALSE
      <4>1. d * (y - q) >= d
        BY <3>1, <2>2
      <4> QED BY <4>1, <2>3, <2>2
    <3> QED BY <3>1, <2>2
  <2>5. y - q > -1
    <3>1. ASSUME y - q <= -1 PROVE FALSE
      <4>1. d * (y - q) <= -d
        BY <3>1, <2>2
      <4> QED BY <4>1, <2>3, <2>2
    <3> QED BY <3>1, <2>2
  <2>6. y = q
    BY <2>4, <2>5, <2>2
  <2> QED BY <2>2, <2>6 DEF y, z
<1>2. k * n \in Int /\ k * n = n * k + 0
  OBVIOUS
<1> QED BY <1>1, <1>2

(* A scan stops at a place of the data.                                    *)
LEMMA ScanEndIn ==
  ASSUME end \in Nat, NEW n, NEW stops, NEW p \in 0..end
  PROVE  ScanEnd(n, stops, p) \in p..end
<1> DEFINE T == {q \in p..end : q = end \/ AtStop(n, stops, q)}
           P(q) == /\ q = end \/ AtStop(n, stops, q)
                   /\ \A r \in p..(q - 1) : ~AtStop(n, stops, r)
<1>1. T \in SUBSET Nat /\ T # {}
  OBVIOUS
<1>2. PICK q \in T : \A y \in T : q <= y
  BY <1>1, Least
<1>3. q \in p..end /\ P(q)
  <2> SUFFICES ASSUME NEW r \in p..(q - 1) PROVE ~AtStop(n, stops, r)
    OBVIOUS
  <2>1. r \in p..end /\ ~(q <= r)
    BY <1>2
  <2> QED BY <1>2, <2>1
<1>4. ScanEnd(n, stops, p) = CHOOSE x \in p..end : P(x)
  BY DEF ScanEnd
<1> HIDE DEF P
<1> QED BY <1>3, <1>4

(* The cursor moves past a delimiter within the data.                      *)
LEMMA PastIn ==
  ASSUME end \in Nat, NEW d, Len(d) \in Nat, NEW p \in 0..end
  PROVE  Past(d, p) \in p..end
BY DEF Past, At

(* Delimiters are sequences of tokens.                                     *)
LEMMA NodeFacts ==
  ASSUME NEW p, IsProgram(p), NEW n \in DOMAIN p
  PROVE  /\ p[n] \in Nodes /\ n \in 1..Len(p) /\ Len(p) \in Nat
         /\ p[n].kids \in Seq(Nat) /\ Len(p[n].kids) \in Nat
         /\ \A k \in 1..Len(p[n].kids) : p[n].kids[k] \in DOMAIN p
         /\ p[n].min \in Nat /\ p[n].max \in Nat
         /\ p[n].sep \in Seq(Tokens) /\ p[n].term \in Seq(Tokens)
<1>1. p \in Seq(Nodes) /\ ToSet(p[n].kids) \subseteq DOMAIN p
  BY DEF IsProgram
<1>2. p[n] \in Nodes /\ n \in 1..Len(p) /\ Len(p) \in Nat
  BY <1>1
<1>3. /\ p[n].kids \in Seq(Nat) /\ p[n].min \in Nat /\ p[n].max \in Nat
      /\ p[n].sep \in Seq(Tokens) /\ p[n].term \in Seq(Tokens)
  BY <1>2 DEF Nodes
<1>4. \A k \in 1..Len(p[n].kids) : p[n].kids[k] \in ToSet(p[n].kids)
  BY <1>3 DEF ToSet
<1> QED BY <1>1, <1>2, <1>3, <1>4

(* The delimiters of a node, and of none.                                  *)
LEMMA DelimiterFacts ==
  ASSUME IsProgram(prog), NEW n \in DOMAIN prog \union {0}
  PROVE  /\ Sep(n) \in Seq(Tokens) /\ Term(n) \in Seq(Tokens)
         /\ Len(Sep(n)) \in Nat /\ Len(Term(n)) \in Nat
         /\ Len(Sep(n)) = 0 => Sep(n) = NoDelim
<1>1. Sep(n) \in Seq(Tokens) /\ Term(n) \in Seq(Tokens)
  <2>1. CASE n = 0
    BY <2>1 DEF Sep, Term, NoDelim
  <2>2. CASE n # 0
    BY <2>2, NodeFacts DEF Sep, Term
  <2> QED BY <2>1, <2>2
<1>2. Len(Sep(n)) = 0 => Sep(n) = <<>>
  BY <1>1, EmptySeq
<1> QED BY <1>1, <1>2, LenProperties DEF NoDelim

(* The separators left after a child are separators.                       *)
LEMMA TrailingIs ==
  ASSUME IsProgram(prog), end \in Nat, NEW a, a.node \in DOMAIN prog, NEW p \in 0..end
  PROVE  LET q == TrailingSeparators(a, p)
             s == Sep(a.node)
             n == Len(s)
         IN /\ q \in p..end
            /\ q # p => /\ n \in Nat /\ n # 0 /\ (q - p) % n = 0
                        /\ \A j \in 0..((q - p) \div n - 1) : At(s, p + j * n)
<1> DEFINE s == Sep(a.node)
           n == Len(s)
           no == ~(prog[a.node].policy \in {"trailingEmpty", "trailingEmptyStrict"} /\ Infix(a.node)
                   /\ IsElement(Kid(a)) /\ prog[Kid(a)].count = "implicit" /\ prog[Kid(a)].max > 1)
           P(q) == IF no THEN q = p
                   ELSE /\ (q - p) % n = 0 /\ ~At(s, q)
                        /\ \A j \in 0..((q - p) \div n - 1) : At(s, p + j * n)
<1>1. TrailingSeparators(a, p) = CHOOSE q \in p..end : P(q)
  BY DEF TrailingSeparators
<1>0. ~no => s # NoDelim /\ n \in Nat /\ n # 0
  BY DelimiterFacts DEF Infix
<1>2. \E q \in p..end : P(q)
  <2>1. CASE no
    BY <2>1
  <2>2. CASE ~no
    <3>1. s # NoDelim /\ n \in Nat /\ n # 0
      BY <1>0, <2>2
    <3> HIDE DEF no, s, n
    <3> DEFINE T == {k \in Nat : ~At(s, p + k * n)}
    <3>2. T # {}
      <4>1. end + 1 \in Nat /\ p + (end + 1) * n > end
        BY <3>1
      <4>2. ~At(s, p + (end + 1) * n)
        BY <4>1, <3>1 DEF At, n
      <4> QED BY <4>1, <4>2
    <3>3. PICK k \in T : \A y \in T : k <= y
      BY <3>2, Least
    <3>4. \A j \in 0..(k - 1) : At(s, p + j * n)
      BY <3>3
    <3> DEFINE q == p + k * n
    <3>5. q \in p..end
      <4>1. CASE k = 0
        BY <4>1, <3>1
      <4>2. CASE k # 0
        <5>1. At(s, p + (k - 1) * n)
          BY <3>4, <4>2
        <5>2. p + (k - 1) * n + n <= end
          BY <5>1 DEF At, n
        <5>3. k \in Nat /\ (k - 1) * n + n = k * n /\ k * n \in Nat
          BY <3>1, <4>2
        <5> QED BY <5>2, <5>3, <3>1, <4>2
      <4> QED BY <4>1, <4>2
    <3>6. q - p = k * n /\ (k * n) % n = 0 /\ (k * n) \div n = k
      <4> DEFINE m == k * n
      <4>1. m \in Nat /\ p \in Int /\ k \in Nat
        BY <3>1
      <4>2. m % n = 0 /\ m \div n = k
        BY <3>1, <4>1, Multiple
      <4>3. (p + m) - p = m
        <5> HIDE DEF m
        <5> QED BY <4>1
      <4> QED BY <4>2, <4>3
    <3>7. ~At(s, q)
      BY <3>3
    <3>8. P(q)
      BY <2>2, <3>4, <3>6, <3>7
    <3> QED BY <3>5, <3>8
  <2> QED BY <2>1, <2>2
<1> HIDE DEF P
<1> DEFINE x == TrailingSeparators(a, p)
<1>3. x \in p..end /\ P(x)
  BY <1>1, <1>2
<1> HIDE DEF x, no, n
<1>4. x # p => ~no
  BY <1>3 DEF P
<1>5. x # p => /\ n \in Nat /\ n # 0 /\ (x - p) % n = 0
               /\ \A j \in 0..((x - p) \div n - 1) : At(s, p + j * n)
  BY <1>0, <1>3, <1>4 DEF P
<1> QED BY <1>3, <1>5 DEF x, n

(* They end within the data.                                               *)
LEMMA TrailingIn ==
  ASSUME IsProgram(prog), end \in Nat, NEW a, a.node \in DOMAIN prog, NEW p \in 0..end
  PROVE  TrailingSeparators(a, p) \in p..end
BY TrailingIs

(* A separator between occurrences: where it ends, and no flag is left.    *)
LEMMA SeparatorFacts ==
  ASSUME IsProgram(prog), end \in Nat, NEW parent \in DOMAIN prog \union {0},
         NEW node, NEW n, NEW t, NEW p \in 0..end
  PROVE  LET s == OccurrenceSeparator(parent, node, n, t, p) IN
         s.pos \in p..end /\ ~s.taken
<1> DEFINE q == Past(Sep(parent), p)
           no == [ok |-> FALSE, pos |-> p, taken |-> FALSE]
           s == OccurrenceSeparator(parent, node, n, t, p)
<1>1. q \in p..end
  BY PastIn, DelimiterFacts
<1>2. s = Separated(q) \/ s = no \/ s = Separated(p)
  BY Zenon DEF OccurrenceSeparator
<1>3. \A x : Separated(x).pos = x /\ ~Separated(x).taken
  BY DEF Separated
<1>4. no.pos = p /\ ~no.taken
  OBVIOUS
<1> HIDE DEF s, no, q
<1>5. s.pos \in p..end /\ ~s.taken
  BY <1>1, <1>2, <1>3, <1>4
<1> QED BY <1>5 DEF s

(* A separator before a child: where it ends.                              *)
LEMMA AfterIn ==
  ASSUME IsProgram(prog), end \in Nat, NEW a, a.node \in DOMAIN prog, NEW p \in 0..end
  PROVE  \A q \in AfterSeparator(a, p) : q \in p..end
<1>1. Past(Sep(a.node), p) \in p..end
  BY PastIn, DelimiterFacts
<1>2. prog[a.node].at \in Positions
  BY NodeFacts DEF Nodes
<1> QED BY <1>1, <1>2 DEF AfterSeparator, Positions

----------------------------------------------------------------------------
(* The stack of activations.                                               *)

SequenceFrames ==
  [op : {"sequence"}, node : Nat, parent : Nat, stops : Seq(Nat),
   i : Nat, index : Nat, called : BOOLEAN]

LoopFrames ==
  [op : {"occurrences"}, node : Nat, parent : Nat, stops : Seq(Nat),
   n : Nat, nseps : Nat, before : Nat, start : Int, probe : BOOLEAN,
   mark : Nat, keep : Nat, called : BOOLEAN]

ComplexFrames ==
  [op : {"complex"}, node : Nat, bounded : BOOLEAN, resume : Nat, end : Nat, sep : BOOLEAN]

Frames == SequenceFrames \union LoopFrames \union ComplexFrames

(* A frame of program p: its node is of its kind; a sequence is at one of  *)
(* its kids when it has called, a loop at an item of a complex element.    *)
GoodSequence(p, a) ==
  /\ a \in SequenceFrames /\ p[a.node].kind = "sequence"
  /\ a.i \in 1..(Len(p[a.node].kids) + 1)
  /\ a.called => a.i <= Len(p[a.node].kids)

GoodLoop(p, a) ==
  /\ a \in LoopFrames /\ p[a.node].kind # "sequence" /\ a.parent \in DOMAIN p
  /\ a.start >= -1
  /\ a.called => p[a.node].kind = "complex" /\ a.start >= 0
  /\ a.probe => a.n >= p[a.node].min

GoodComplex(p, m, a) ==
  /\ a \in ComplexFrames /\ p[a.node].kind = "complex"
  /\ a.resume <= a.end /\ a.end <= m

Good(p, m, a) ==
  /\ a.node \in DOMAIN p
  /\ GoodSequence(p, a) \/ GoodLoop(p, a) \/ GoodComplex(p, m, a)

(* Frame b was called by frame a.                                          *)
Calls(p, a, b) ==
  /\ a.op = "sequence" =>
       a.called /\ b.op \in {"sequence", "occurrences"} /\ b.node = p[a.node].kids[a.i]
  /\ a.op = "occurrences" =>
       /\ a.called /\ b.op = "complex" /\ b.node = a.node
       /\ a.start <= b.end /\ a.before <= b.end
       /\ b.bounded => /\ p[a.parent].sep # NoDelim /\ p[a.parent].at = "postfix"
                       /\ b.sep => a.start < b.resume
  /\ a.op = "complex" => b.op = "sequence" /\ b.node = p[a.node].kids[1]

(* The end of the data is the one that the first complex element above     *)
(* frame k keeps, or the current one: e.                                   *)
EndAbove(c, e, k, x) ==
  /\ (\A j \in (k + 1)..Len(c) : c[j].op # "complex") => x = e
  /\ \A j \in (k + 1)..Len(c) :
       c[j].op = "complex" /\ (\A i \in (k + 1)..(j - 1) : c[i].op # "complex") => x = c[j].end

Ends(c, e) ==
  \A k \in 1..Len(c) : c[k].op = "complex" /\ ~c[k].bounded => EndAbove(c, e, k, c[k].end)

Stack(p, m, c, e) ==
  /\ c \in Seq(Frames)
  /\ \A k \in 1..Len(c) : Good(p, m, c[k])
  /\ \A k \in 1..(Len(c) - 1) : Calls(p, c[k], c[k + 1])
  /\ Len(c) > 0 => c[1].op = "sequence" /\ c[1].node = 1
  /\ Ends(c, e)

Up(c) == c[Len(c)]
Rest(c) == SubSeq(c, 1, Len(c) - 1)

(* Good frames by their op.                                                *)
LEMMA GoodOps ==
  ASSUME NEW p, NEW m, NEW a, Good(p, m, a)
  PROVE  /\ a.op = "sequence" => GoodSequence(p, a)
         /\ a.op = "occurrences" => GoodLoop(p, a)
         /\ a.op = "complex" => GoodComplex(p, m, a)
         /\ a.op \in {"sequence", "occurrences", "complex"} /\ a \in Frames
<1>1. ASSUME GoodSequence(p, a) PROVE a.op = "sequence" /\ a \in Frames
  BY <1>1 DEF GoodSequence, SequenceFrames, Frames
<1>2. ASSUME GoodLoop(p, a) PROVE a.op = "occurrences" /\ a \in Frames
  BY <1>2 DEF GoodLoop, LoopFrames, Frames
<1>3. ASSUME GoodComplex(p, m, a) PROVE a.op = "complex" /\ a \in Frames
  BY <1>3 DEF GoodComplex, ComplexFrames, Frames
<1> QED BY <1>1, <1>2, <1>3 DEF Good

(* A stack and what is below its top.                                      *)
LEMMA RestFacts ==
  ASSUME NEW c \in Seq(Frames), c # <<>>
  PROVE  /\ Len(c) \in Nat /\ Len(c) > 0 /\ Up(c) \in Frames
         /\ Rest(c) \in Seq(Frames) /\ Len(Rest(c)) = Len(c) - 1
         /\ \A k \in 1..(Len(c) - 1) : Rest(c)[k] = c[k]
         /\ c = Append(Rest(c), Up(c))
<1>1. Len(c) \in Nat /\ Len(c) > 0
  BY EmptySeq, LenProperties
<1>2. /\ Rest(c) \in Seq(Frames) /\ Len(Rest(c)) = Len(c) - 1
      /\ \A k \in 1..(Len(c) - 1) : Rest(c)[k] = c[k]
  <2> DEFINE q == Len(c) - 1
           r == SubSeq(c, 1, q)
  <2>1. q \in Nat /\ \A k \in 1..q : c[k] \in Frames
    BY <1>1
  <2>2. /\ r \in Seq(Frames) /\ Len(r) = IF 1 <= q THEN q - 1 + 1 ELSE 0
        /\ \A k \in 1..(q - 1 + 1) : r[k] = c[1 + k - 1]
    BY <2>1, SubSeqProperties
  <2> HIDE DEF r, q
  <2>3. Len(r) = q /\ \A k \in 1..q : r[k] = c[k]
    BY <2>1, <2>2
  <2> QED BY <2>2, <2>3 DEF Rest, r, q
<1>3. Up(c) \in Frames
  BY <1>1 DEF Up
<1>4. c = Append(Rest(c), Up(c))
  <2> DEFINE d == Append(Rest(c), Up(c))
  <2>1. d \in Seq(Frames) /\ Len(d) = Len(c)
        /\ \A k \in 1..Len(c) : d[k] = c[k]
    BY <1>1, <1>2, <1>3, AppendProperties DEF Up
  <2> HIDE DEF d
  <2>2. d = c
    BY <2>1, <1>1, SeqEqual
  <2> QED BY <2>2 DEF d
<1> QED BY <1>1, <1>2, <1>3, <1>4

(* What is below the top of a stack is a stack, over the data that the top *)
(* was called over.                                                        *)
LEMMA StackReturn ==
  ASSUME NEW p, NEW m, NEW c, NEW e, NEW f, Stack(p, m, c, e), c # <<>>,
         IF Up(c).op = "complex" /\ Up(c).bounded THEN f = Up(c).end ELSE f = e
  PROVE  Stack(p, m, Rest(c), f)
<1> DEFINE d == Rest(c)  n == Len(c)
<1>1. c \in Seq(Frames) /\ n \in Nat /\ n > 0 /\ d \in Seq(Frames) /\ Len(d) = n - 1
      /\ \A k \in 1..(n - 1) : d[k] = c[k]
  BY RestFacts DEF Stack
<1>2. /\ \A k \in 1..Len(d) : Good(p, m, d[k])
      /\ \A k \in 1..(Len(d) - 1) : Calls(p, d[k], d[k + 1])
      /\ Len(d) > 0 => d[1].op = "sequence" /\ d[1].node = 1
  BY <1>1 DEF Stack
<1>3. ASSUME NEW k \in 1..Len(d), d[k].op = "complex", ~d[k].bounded
      PROVE  EndAbove(d, f, k, d[k].end)
  <2> DEFINE x == c[k].end
  <2>1. k \in 1..n /\ d[k] = c[k] /\ EndAbove(c, e, k, x)
    BY <1>1, <1>3 DEF Stack, Ends
  <2>2. ASSUME \A j \in (k + 1)..Len(d) : d[j].op # "complex"
        PROVE  x = f
    <3>1. \A j \in (k + 1)..(n - 1) : c[j].op # "complex"
      BY <1>1, <2>2
    <3>2. CASE Up(c).op = "complex"
      <4>1. x = c[n].end
        BY <2>1, <3>1, <3>2, <1>1, <1>3 DEF EndAbove, Up
      <4>2. CASE c[n].bounded
        BY <4>1, <4>2, <3>2 DEF Up
      <4>3. CASE ~c[n].bounded
        <5>1. EndAbove(c, e, n, c[n].end)
          BY <4>3, <3>2, <1>1 DEF Stack, Ends, Up
        <5>2. c[n].end = e
          BY <5>1, <1>1 DEF EndAbove
        <5> QED BY <4>1, <4>3, <5>2 DEF Up
      <4> QED BY <4>2, <4>3
    <3>3. CASE Up(c).op # "complex"
      <4>1. \A j \in (k + 1)..n : c[j].op # "complex"
        BY <3>1, <3>3, <1>1 DEF Up
      <4>2. x = e
        BY <4>1, <2>1 DEF EndAbove
      <4> QED BY <4>2, <3>3
    <3> QED BY <3>2, <3>3
  <2>3. ASSUME NEW j \in (k + 1)..Len(d), d[j].op = "complex",
               \A i \in (k + 1)..(j - 1) : d[i].op # "complex"
        PROVE  x = d[j].end
    <3> HIDE DEF d, n
    <3>1. j \in (k + 1)..n /\ d[j] = c[j]
      BY <1>1
    <3>2. \A i \in (k + 1)..(j - 1) : d[i] = c[i]
      BY <1>1
    <3>3. c[j].op = "complex" /\ \A i \in (k + 1)..(j - 1) : c[i].op # "complex"
      BY <2>3, <3>1, <3>2
    <3> USE DEF n
    <3> QED BY <3>1, <3>3, <2>1 DEF EndAbove
  <2> QED BY <2>1, <2>2, <2>3 DEF EndAbove
<1> QED BY <1>1, <1>2, <1>3 DEF Stack, Ends

(* A frame is called on top of a stack.                                    *)
LEMMA StackCall ==
  ASSUME NEW p, NEW m, NEW c, NEW e, NEW f, Stack(p, m, c, e), c # <<>>, NEW b,
         Good(p, m, b), Calls(p, Up(c), b),
         b.op = "complex" => b.end = e, 
         (b.op = "complex" /\ b.bounded) \/ f = e
  PROVE  Stack(p, m, Append(c, b), f)
<1> DEFINE d == Append(c, b)  n == Len(c)
<1>1. c \in Seq(Frames) /\ n \in Nat /\ n > 0 /\ b \in Frames
  BY RestFacts, GoodOps DEF Stack
<1>2. d \in Seq(Frames) /\ Len(d) = n + 1 /\ d[n + 1] = b /\ \A k \in 1..n : d[k] = c[k]
  BY <1>1, AppendProperties
<1> HIDE DEF d
<1>3. /\ \A k \in 1..Len(d) : Good(p, m, d[k])
      /\ \A k \in 1..(Len(d) - 1) : Calls(p, d[k], d[k + 1])
      /\ Len(d) > 0 => d[1].op = "sequence" /\ d[1].node = 1
  <2>1. \A k \in 1..(n + 1) : Good(p, m, d[k])
    BY <1>1, <1>2 DEF Stack
  <2>2. ASSUME NEW k \in 1..n PROVE Calls(p, d[k], d[k + 1])
    <3>1. CASE k = n
      BY <3>1, <1>1, <1>2 DEF Up
    <3>2. CASE k # n
      <4>1. k \in 1..(n - 1) /\ d[k] = c[k] /\ d[k + 1] = c[k + 1]
        BY <3>2, <1>1, <1>2
      <4> QED BY <4>1 DEF Stack
    <3> QED BY <3>1, <3>2
  <2>3. d[1].op = "sequence" /\ d[1].node = 1
    BY <1>1, <1>2 DEF Stack
  <2> QED BY <1>1, <1>2, <2>1, <2>2, <2>3
<1>4. ASSUME NEW k \in 1..(n + 1), d[k].op = "complex", ~d[k].bounded
      PROVE  EndAbove(d, f, k, d[k].end)
  <2>1. CASE k = n + 1
    BY <2>1, <1>1, <1>2, <1>4 DEF EndAbove
  <2>2. CASE k # n + 1
    <3> DEFINE x == c[k].end
    <3>1. k \in 1..n /\ d[k] = c[k] /\ EndAbove(c, e, k, x)
      BY <1>1, <1>2, <1>4, <2>2 DEF Stack, Ends
    <3>2. ASSUME \A j \in (k + 1)..(n + 1) : d[j].op # "complex"
          PROVE  x = f
      <4>1. b.op # "complex" /\ \A j \in (k + 1)..n : c[j].op # "complex"
        BY <3>2, <3>1, <1>1, <1>2
      <4> QED BY <4>1, <3>1 DEF EndAbove
    <3>3. ASSUME NEW j \in (k + 1)..(n + 1), d[j].op = "complex",
                 \A i \in (k + 1)..(j - 1) : d[i].op # "complex"
          PROVE  x = d[j].end
      <4>1. \A i \in (k + 1)..(j - 1) : c[i].op # "complex"
        BY <3>3, <3>1, <1>1, <1>2
      <4>2. CASE j = n + 1
        BY <4>1, <4>2, <3>1, <3>3, <1>1, <1>2 DEF EndAbove
      <4>3. CASE j # n + 1
        <5>1. j \in (k + 1)..n /\ d[j] = c[j]
          BY <4>3, <3>1, <1>1, <1>2
        <5> QED BY <5>1, <4>1, <3>1, <3>3 DEF EndAbove
      <4> QED BY <4>2, <4>3
    <3> QED BY <3>1, <3>2, <3>3, <1>2 DEF EndAbove
  <2> QED BY <2>1, <2>2
<1>5. Stack(p, m, d, f)
  BY <1>2, <1>3, <1>4 DEF Stack, Ends
<1> QED BY <1>5 DEF d

(* The top of a stack goes on.                                             *)
LEMMA StackTop ==
  ASSUME NEW p, NEW m, NEW c, NEW e, Stack(p, m, c, e), c # <<>>, NEW b,
         Good(p, m, b), b.op = Up(c).op, b.op # "complex", b.node = Up(c).node
  PROVE  Stack(p, m, Append(Rest(c), b), e)
<1> DEFINE r == Rest(c)  n == Len(c)
<1>1. /\ c \in Seq(Frames) /\ n \in Nat /\ n > 0
      /\ r \in Seq(Frames) /\ Len(r) = n - 1 /\ \A k \in 1..(n - 1) : r[k] = c[k]
      /\ Up(c) = c[n]
  BY RestFacts DEF Stack, Up
<1>2. Stack(p, m, r, e)
  BY StackReturn
<1>3. CASE n = 1
  <2> DEFINE d == Append(r, b)
  <2>1. b \in Frames
    BY GoodOps
  <2>2. d \in Seq(Frames) /\ Len(d) = 1 /\ d[1] = b
    BY <1>1, <1>3, <2>1, AppendProperties
  <2>3. b.op = "sequence" /\ b.node = 1
    BY <1>1, <1>3 DEF Stack
  <2> HIDE DEF d
  <2>4. Stack(p, m, d, e)
    BY <2>2, <2>3 DEF Stack, Ends
  <2> QED BY <2>4 DEF d
<1>4. CASE n # 1
  <2>1. r # <<>> /\ Up(r) = c[n - 1]
    BY <1>1, <1>4, EmptySeq DEF Up
  <2>2. Calls(p, c[n - 1], c[n])
    <3>1. n - 1 \in 1..(n - 1) /\ (n - 1) + 1 = n
      BY <1>1, <1>4
    <3> QED BY <3>1 DEF Stack
  <2>3. Calls(p, Up(r), b)
    BY <2>1, <2>2, <1>1 DEF Calls
  <2> QED BY <1>2, <2>1, <2>3, StackCall
<1> QED BY <1>3, <1>4

----------------------------------------------------------------------------
(* Frames that go on.                                                      *)

SequenceWith(a, i, x, c) == [a EXCEPT !.i = i, !.called = c, !.index = x]
SequenceCalled(a, c) == [a EXCEPT !.called = c]
SequenceAt(a, i) == [a EXCEPT !.i = i]
SequenceMoved(a, i, c) == [a EXCEPT !.i = i, !.called = c]

(* The frames of a sequence.                                               *)
LEMMA SequenceUpdates ==
  ASSUME NEW a \in SequenceFrames, NEW i \in Nat, NEW x \in Nat, NEW c \in BOOLEAN
  PROVE  /\ LET b == SequenceWith(a, i, x, c) IN
            b \in SequenceFrames /\ b.node = a.node /\ b.i = i /\ (b.called <=> c)
         /\ LET b == SequenceCalled(a, c) IN
            b \in SequenceFrames /\ b.node = a.node /\ b.i = a.i /\ (b.called <=> c)
         /\ LET b == SequenceAt(a, i) IN
            b \in SequenceFrames /\ b.node = a.node /\ b.i = i /\ b.called = a.called
<1>1. LET b == [a EXCEPT !.i = i, !.called = c, !.index = x] IN
      b \in SequenceFrames /\ b.node = a.node /\ b.i = i /\ (b.called <=> c)
  BY DEF SequenceFrames
<1>2. LET b == [a EXCEPT !.called = c] IN
      b \in SequenceFrames /\ b.node = a.node /\ b.i = a.i /\ (b.called <=> c)
  BY DEF SequenceFrames
<1>3. LET b == [a EXCEPT !.i = i] IN
      b \in SequenceFrames /\ b.node = a.node /\ b.i = i /\ b.called = a.called
  BY DEF SequenceFrames
<1> QED BY <1>1, <1>2, <1>3 DEF SequenceWith, SequenceCalled, SequenceAt

(* The frame of a sequence whose child is absent.                          *)
LEMMA MovedFrame ==
  ASSUME NEW a \in SequenceFrames, NEW i \in Nat, NEW c \in BOOLEAN
  PROVE  LET b == SequenceMoved(a, i, c) IN
         b \in SequenceFrames /\ b.node = a.node /\ b.i = i /\ (b.called <=> c)
BY DEF SequenceFrames, SequenceMoved

(* Loops that differ in what they have counted.                            *)
Alike(a, b) ==
  /\ b \in LoopFrames /\ b.node = a.node /\ b.parent = a.parent
  /\ b.before = a.before /\ b.probe = a.probe

(* The separators of a loop are counted.                                   *)
LEMMA CountedLoop ==
  ASSUME NEW a \in LoopFrames, NEW f, NEW t
  PROVE  LET b == Counted(a, f, t) IN
         /\ Alike(a, b) /\ b.n = a.n /\ b.start = a.start /\ b.called = a.called
         /\ b.keep = a.keep /\ b.mark = a.mark /\ b.stops = a.stops
<1>1. ASSUME NEW x \in Nat
      PROVE  LET b == [a EXCEPT !.nseps = x] IN
             /\ Alike(a, b) /\ b.n = a.n /\ b.start = a.start /\ b.called = a.called
             /\ b.keep = a.keep /\ b.mark = a.mark /\ b.stops = a.stops
  BY DEF LoopFrames, Alike
<1>2. a.nseps \in Nat /\ a.nseps + 1 \in Nat
  BY DEF LoopFrames
<1>3. PICK x \in Nat : Counted(a, f, t) = [a EXCEPT !.nseps = x]
  BY <1>2 DEF Counted
<1> QED BY <1>1, <1>3

CountsTo(a, n, c) == [a EXCEPT !.n = n, !.called = c]
StartsAt(a, x, c) == [a EXCEPT !.start = x, !.called = c]
HasCalled(a, c) == [a EXCEPT !.called = c]
CallsWith(a, k, c) == [a EXCEPT !.called = c, !.keep = k]

(* The frames of a loop.                                                   *)
LEMMA LoopUpdates ==
  ASSUME NEW a \in LoopFrames, NEW n \in Nat, NEW x \in Int, NEW c \in BOOLEAN
  PROVE  /\ LET b == CountsTo(a, n, c) IN
            Alike(a, b) /\ b.n = n /\ b.start = a.start /\ (b.called <=> c)
         /\ LET b == StartsAt(a, x, c) IN
            Alike(a, b) /\ b.n = a.n /\ b.start = x /\ (b.called <=> c)
         /\ LET b == HasCalled(a, c) IN
            Alike(a, b) /\ b.n = a.n /\ b.start = a.start /\ (b.called <=> c)
<1>1. LET b == [a EXCEPT !.n = n, !.called = c] IN
      Alike(a, b) /\ b.n = n /\ b.start = a.start /\ (b.called <=> c)
  BY DEF LoopFrames, Alike
<1>2. LET b == [a EXCEPT !.start = x, !.called = c] IN
      Alike(a, b) /\ b.n = a.n /\ b.start = x /\ (b.called <=> c)
  BY DEF LoopFrames, Alike
<1>3. LET b == [a EXCEPT !.called = c] IN
      Alike(a, b) /\ b.n = a.n /\ b.start = a.start /\ (b.called <=> c)
  BY DEF LoopFrames, Alike
<1> QED BY <1>1, <1>2, <1>3 DEF CountsTo, StartsAt, HasCalled

(* The frame of a loop whose item is complex.                              *)
LEMMA CallsFrame ==
  ASSUME NEW a \in LoopFrames, NEW k \in Nat, NEW c \in BOOLEAN
  PROVE  LET b == CallsWith(a, k, c) IN
         Alike(a, b) /\ b.n = a.n /\ b.start = a.start /\ (b.called <=> c) /\ b.keep = k
BY DEF LoopFrames, Alike, CallsWith

(* A loop with all that an item that begins sets.                          *)
Begun(a, q, p, u) == [a EXCEPT !.before = q, !.start = p, !.probe = u]

(* Only what a beginning item sets is other than before.                   *)
LEMMA LoopBegins ==
  ASSUME NEW a \in LoopFrames, NEW q \in Nat, NEW p \in Int, NEW u \in BOOLEAN
  PROVE  /\ Begun(a, q, p, u) \in LoopFrames /\ Begun(a, q, p, u).node = a.node
         /\ Begun(a, q, p, u).parent = a.parent /\ Begun(a, q, p, u).n = a.n
         /\ Begun(a, q, p, u).before = q /\ Begun(a, q, p, u).start = p
         /\ Begun(a, q, p, u).called = a.called /\ Begun(a, q, p, u).probe = u
<1> DEFINE d == [a EXCEPT !.before = q, !.start = p]
           b == [a EXCEPT !.before = q, !.start = p, !.probe = u]
<1>1. /\ d \in LoopFrames /\ d.node = a.node /\ d.parent = a.parent
      /\ d.n = a.n /\ d.before = q /\ d.start = p /\ d.called = a.called
  BY DEF LoopFrames
<1>2. b = [d EXCEPT !.probe = u]
  OBVIOUS
<1> HIDE DEF d
<1>3. LET c == [d EXCEPT !.probe = u] IN
      /\ c \in LoopFrames /\ c.node = d.node /\ c.parent = d.parent
      /\ c.n = d.n /\ c.before = d.before /\ c.start = d.start /\ c.called = d.called
      /\ c.probe = u
  BY <1>1 DEF LoopFrames
<1> HIDE DEF b
<1>4. /\ b \in LoopFrames /\ b.node = a.node /\ b.parent = a.parent
      /\ b.n = a.n /\ b.before = q /\ b.start = p /\ b.called = a.called
      /\ b.probe = u
  BY <1>1, <1>2, <1>3
<1>5. Begun(a, q, p, u) = b
  BY DEF Begun, b
<1> QED BY <1>4, <1>5

(* A loop whose item begins.                                               *)
LEMMA StartedLoop ==
  ASSUME NEW a \in LoopFrames, pos \in Nat, NEW p \in Nat
  PROVE  LET b == Started(a, p) IN
         /\ b \in LoopFrames /\ b.node = a.node /\ b.parent = a.parent
         /\ b.n = a.n /\ b.before = pos /\ b.start = p /\ b.called = a.called
         /\ b.probe <=> a.probe \/ (a.n >= Node.min /\ pos = end)
<1> DEFINE c == Counted(a, pos, p)
           e == c.probe \/ (a.n >= Node.min /\ pos = end)
<1>1. c.probe \in BOOLEAN
  BY CountedLoop DEF LoopFrames, Alike
<1>2. PICK u \in {e} : TRUE
  OBVIOUS
<1>3. u = e /\ u \in BOOLEAN /\ (u <=> e)
  BY <1>1, <1>2
<1>4. c \in LoopFrames /\ Alike(a, c) /\ c.n = a.n /\ c.called = a.called /\ c.probe = a.probe
  BY CountedLoop DEF Alike
<1>5. Started(a, p) = Begun(c, pos, p, u)
  BY <1>3, Zenon DEF Started, Begun
<1>6. u <=> a.probe \/ (a.n >= Node.min /\ pos = end)
  BY <1>3, <1>4 DEF e
<1> HIDE DEF c, e
<1> DEFINE b == Begun(c, pos, p, u)
<1>7. /\ b \in LoopFrames /\ b.node = c.node /\ b.parent = c.parent
      /\ b.n = c.n /\ b.before = pos /\ b.start = p /\ b.called = c.called
      /\ b.probe = u
  BY <1>3, <1>4, LoopBegins
<1> HIDE DEF b
<1> QED BY <1>4, <1>5, <1>6, <1>7 DEF Alike, b

----------------------------------------------------------------------------
(* What a round of a loop comes to.                                        *)

(* A loop at an item within the data.                                      *)
LoopAt(a) ==
  /\ a \in LoopFrames /\ a.node \in DOMAIN prog /\ a.parent \in DOMAIN prog
  /\ a.start \in 0..end /\ a.before \in 0..end
  /\ a.probe => a.n >= prog[a.node].min

(* It goes on, with d items more, or it is to end.                         *)
Goes(a, d) ==
  \E b \in LoopFrames :
    /\ calls' = Append(Below, b) /\ signal' = "run"
    /\ b.node = a.node /\ b.parent = a.parent /\ b.n = a.n + d
    /\ b.before = a.before /\ b.start \in {a.start, -1}
    /\ b.probe => a.probe
    /\ ~b.called

Returns(r) == calls' = Below /\ signal' = r

(* A loop that goes on after a separator.                                  *)
LEMMA GoOnResult ==
  ASSUME IsProgram(prog), end \in Nat, NEW a, LoopAt(a), NEW t, NEW p \in 0..end,
         NEW d \in Nat, GoOn(a, t, p, d)
  PROVE  ~taken' /\ pos' \in 0..end /\ (Goes(a, d) \/ Returns("fail"))
<1> DEFINE s == Separate(a, a.node, a.n, t, p)
           b == Counted(a, p, s.pos)
           c == [b EXCEPT !.n = @ + d, !.called = FALSE]
<1>1. s.pos \in p..end /\ ~s.taken
  BY SeparatorFacts DEF Separate, LoopAt
<1>2. /\ taken' = s.taken /\ pos' = s.pos
      /\ IF s.ok THEN SetTop(c) /\ signal' = "run" ELSE Return("fail")
  BY DEF GoOn
<1>3. Alike(a, b) /\ b.n = a.n /\ b.start = a.start /\ b \in LoopFrames /\ b.n + d \in Nat
  BY CountedLoop DEF LoopAt, Alike, LoopFrames
<1>4. ASSUME SetTop(c), signal' = "run" PROVE Goes(a, d)
  <2>1. PICK no \in BOOLEAN : no = FALSE
    OBVIOUS
  <2> HIDE DEF b
  <2> DEFINE x == CountsTo(b, b.n + d, no)
  <2>2. Alike(b, x) /\ x.n = b.n + d /\ x.start = b.start /\ (x.called <=> no)
    BY <1>3, LoopUpdates
  <2>3. c = x
    BY <2>1 DEF CountsTo
  <2> HIDE DEF x, c
  <2>4. /\ c \in LoopFrames /\ c.node = a.node /\ c.parent = a.parent /\ c.n = a.n + d
        /\ c.before = a.before /\ c.start \in {a.start, -1} /\ (c.probe => a.probe) /\ ~c.called
    BY <2>1, <2>2, <2>3, <1>3 DEF Alike
  <2> QED BY <2>4, <1>4 DEF Goes, SetTop
<1> HIDE DEF s, c
<1> QED BY <1>1, <1>2, <1>4 DEF Return, Returns

(* A loop that is to end.                                                  *)
LEMMA StopResult ==
  ASSUME NEW a \in LoopFrames, NEW t, NEW p, Stop(a, t, p)
  PROVE  taken' = t /\ pos' = p /\ Goes(a, 0)
<1>1. PICK no \in BOOLEAN : no = FALSE
  OBVIOUS
<1> DEFINE c == [a EXCEPT !.start = -1, !.called = FALSE]
           x == StartsAt(a, -1, no)
<1>2. Alike(a, x) /\ x.n = a.n /\ x.start = -1 /\ (x.called <=> no)
  BY LoopUpdates
<1>3. c = x
  BY <1>1 DEF StartsAt
<1>4. taken' = t /\ pos' = p /\ signal' = "run" /\ SetTop(c)
  BY DEF Stop
<1> HIDE DEF c, x
<1>5. a.n \in Nat
  BY DEF LoopFrames
<1>6. /\ c \in LoopFrames /\ c.node = a.node /\ c.parent = a.parent /\ c.n = a.n + 0
      /\ c.before = a.before /\ c.start \in {a.start, -1} /\ (c.probe => a.probe) /\ ~c.called
  BY <1>1, <1>2, <1>3, <1>5 DEF Alike
<1> QED BY <1>4, <1>6 DEF Goes, SetTop

(* An item has been decoded.                                               *)
LEMMA DecodedResult ==
  ASSUME IsProgram(prog), end \in Nat, NEW a, LoopAt(a), NEW t, NEW p \in 0..end,
         NEW empty, NEW kept, NEW item, Decoded(a, t, p, empty, kept, item)
  PROVE  /\ pos' \in 0..end /\ (taken' => t)
         /\ Postfix(a.parent) /\ ~empty /\ a.start < p => ~taken' 
         /\ \/ Goes(a, 1) /\ found' = kept \o item
            \/ Goes(a, 0) /\ found' = kept
            \/ Returns("fail") /\ found' \in {kept, kept \o item}
<1> DEFINE c == prog[a.node]
           stuck == Endless(a) /\ p = a.start /\ p # end
           optional == c.min = 0 /\ empty
           excess == /\ empty /\ c.min > 0 /\ a.n >= c.min /\ Endless(a) /\ Infix(a.parent)
                     /\ \/ \A k \in DOMAIN Items(a) : Items(a)[k].text = <<>>
                        \/ OnlySeparators(Sep(a.parent), p)
           counts == ~stuck /\ ~optional /\ ~excess
           s == Separate(a, a.node, IF optional THEN a.n ELSE a.n + 1, t, p)
           pushed == [a EXCEPT !.n = @ + 1, !.called = FALSE]
           back == s.ok /\ s.pos = a.start
<1>1. s.pos \in p..end /\ ~s.taken
  BY SeparatorFacts DEF Separate, LoopAt
<1>2. /\ a.start \in 0..end /\ a.before \in 0..end /\ a \in LoopFrames /\ a.n \in Nat
      /\ c.min \in Nat
  BY NodeFacts DEF LoopAt, LoopFrames
<1>3. found' = IF counts THEN kept \o item ELSE kept
  BY DEF Decoded
<1>4. ~empty => ~optional /\ ~excess
  OBVIOUS
<1> DEFINE P1 == IF a.n >= c.min THEN Stop(a, t, a.before) ELSE Fail(t, p, "fail")
           P2 == Stop(a, s.taken, s.pos)
           P3 == GoOn(a, t, p, 0)
           P4 == /\ taken' = s.taken /\ pos' = s.pos
                 /\ IF s.ok THEN SetTop(Counted(pushed, p, s.pos)) /\ signal' = "run"
                            ELSE Return("fail")
           P5 == taken' = t /\ pos' = p /\ signal' = "run" /\ SetTop(pushed)
<1>5. (CASE stuck -> P1
        [] ~stuck /\ optional /\ s.ok /\ s.pos = a.start -> P2
        [] ~stuck /\ (excess \/ (optional /\ ~(s.ok /\ s.pos = a.start))) -> P3
        [] counts /\ Postfix(a.parent) -> P4
        [] counts /\ ~Postfix(a.parent) -> P5)
  BY DEF Decoded
<1>6. excess => ~optional
  BY <1>2
<1>7. /\ ~stuck /\ optional /\ back => P2
      /\ ~stuck /\ (excess \/ (optional /\ ~back)) => P3
  <2> DEFINE post == Postfix(a.parent)  ok == s.ok  at == s.pos = a.start
  <2> HIDE DEF P1, P2, P3, P4, P5, stuck, optional, excess, post, ok, at
  <2> QED BY <1>5, <1>6 DEF ok, at, post
<1>8. CASE stuck
  <2>1. IF a.n >= c.min THEN Stop(a, t, a.before) ELSE Fail(t, p, "fail")
    BY <1>8 DEF Decoded
  <2>2. found' = kept
    BY <1>3, <1>8
  <2>3. ~(a.start < p)
    BY <1>8, <1>2
  <2> HIDE DEF stuck, counts
  <2>4. CASE Stop(a, t, a.before)
    <3>1. taken' = t /\ pos' = a.before /\ Goes(a, 0)
      BY <2>4, <1>2, StopResult
    <3> QED BY <3>1, <2>2, <2>3, <1>2
  <2>5. CASE Fail(t, p, "fail")
    BY <2>5, <2>2, <2>3 DEF Fail, Return, Returns
  <2> QED BY <2>1, <2>4, <2>5
<1>9. CASE ~stuck /\ optional /\ back
  <2>2. found' = kept
    BY <1>3, <1>9
  <2>1. Stop(a, s.taken, s.pos)
    BY <1>9, <1>7
  <2> HIDE DEF s, stuck, optional, excess, back, counts
  <2>3. taken' = s.taken /\ pos' = s.pos /\ Goes(a, 0)
    BY <2>1, <1>2, StopResult
  <2> QED BY <2>2, <2>3, <1>1
<1>10. CASE ~stuck /\ (excess \/ (optional /\ ~back))
  <2>2. found' = kept
    BY <1>3, <1>10
  <2>1. GoOn(a, t, p, 0)
    BY <1>10, <1>7
  <2> HIDE DEF s, stuck, optional, excess, back, counts
  <2>3. ~taken' /\ pos' \in 0..end /\ (Goes(a, 0) \/ Returns("fail"))
    BY <2>1, GoOnResult
  <2> QED BY <2>2, <2>3
<1>11. CASE counts
  <2>1. PICK no \in BOOLEAN : no = FALSE
    OBVIOUS
  <2> DEFINE x == CountsTo(a, a.n + 1, no)
  <2>2. a.n + 1 \in Nat
    BY <1>2
  <2>3. Alike(a, x) /\ x.n = a.n + 1 /\ x.start = a.start /\ (x.called <=> no)
    BY <1>2, <2>2, LoopUpdates
  <2>4. pushed = x
    BY <2>1 DEF CountsTo
  <2>5. CASE Postfix(a.parent)
    <3> DEFINE y == Counted(pushed, p, s.pos)
    <3>1. /\ taken' = s.taken /\ pos' = s.pos
          /\ IF s.ok THEN SetTop(y) /\ signal' = "run" ELSE Return("fail")
      BY <1>11, <2>5 DEF Decoded
    <3>2. found' = kept \o item
      BY <1>3, <1>11
    <3> HIDE DEF x, pushed, s, stuck, optional, excess, counts
    <3>3. pushed \in LoopFrames
      BY <2>3, <2>4 DEF Alike
    <3>4. Alike(pushed, y) /\ y.n = pushed.n /\ y.start = pushed.start /\ y.called = pushed.called
      BY <3>3, CountedLoop
    <3> HIDE DEF y
    <3>5. /\ y \in LoopFrames /\ y.node = a.node /\ y.parent = a.parent /\ y.n = a.n + 1
          /\ y.before = a.before /\ y.start \in {a.start, -1} /\ (y.probe => a.probe) /\ ~y.called
      BY <2>1, <2>3, <2>4, <3>4 DEF Alike
    <3>6. ASSUME SetTop(y), signal' = "run" PROVE Goes(a, 1)
      BY <3>5, <3>6 DEF Goes, SetTop
    <3>7. pos' \in 0..end /\ ~taken'
      BY <3>1, <1>1
    <3> QED BY <3>1, <3>2, <3>6, <3>7 DEF Return, Returns
  <2>6. CASE ~Postfix(a.parent)
    <3>1. taken' = t /\ pos' = p /\ signal' = "run" /\ SetTop(pushed)
      BY <1>11, <2>6 DEF Decoded
    <3>2. found' = kept \o item
      BY <1>3, <1>11
    <3> HIDE DEF x, pushed, s, stuck, optional, excess, counts
    <3>5. /\ x \in LoopFrames /\ x.node = a.node /\ x.parent = a.parent /\ x.n = a.n + 1
          /\ x.before = a.before /\ x.start \in {a.start, -1} /\ (x.probe => a.probe) /\ ~x.called
      BY <2>1, <2>3 DEF Alike
    <3>6. Goes(a, 1)
      BY <3>1, <2>4, <3>5 DEF Goes, SetTop
    <3> QED BY <3>1, <3>2, <3>6, <2>6
  <2> QED BY <2>5, <2>6
<1> HIDE DEF stuck, optional, excess, back, s, P1, P2, P3, P4, P5
<1> QED BY <1>8, <1>9, <1>10, <1>11

(* An item has failed.                                                     *)
LEMMA FailedResult ==
  ASSUME IsProgram(prog), end \in Nat, NEW a, LoopAt(a), NEW t, NEW p \in 0..end,
         NEW r \in {"absent", "empty", "fail"}, NEW keep, Failed(a, t, p, r, keep)
  PROVE  /\ pos' \in 0..end /\ (taken' => t) /\ found' = keep
         /\ \/ Goes(a, 0)
            \/ Returns("absent") /\ prog[a.node].min = 0 /\ a.n = 0
            \/ Returns("fail") \/ Returns("empty")
<1> DEFINE c == prog[a.node]
           b == [a EXCEPT !.called = FALSE]
           s == Separate(a, a.node, a.n, t, a.start)
           none == c.min = 0 /\ a.n = 0
           again == Never(a) /\ (r = "empty" \/ (r = "absent" /\ none))
           y == Counted(b, a.start, s.pos)
           over == IF Endless(a) \/ c.count = "implicit" THEN a.before ELSE a.start
<1>1. s.pos \in 0..end /\ ~s.taken
  <2>1. a.start \in 0..end
    BY DEF LoopAt
  <2> QED BY <2>1, SeparatorFacts DEF Separate, LoopAt
<1>2. /\ a.start \in 0..end /\ a.before \in 0..end /\ a \in LoopFrames /\ a.n \in Nat
      /\ c.min \in Nat
  BY NodeFacts DEF LoopAt, LoopFrames
<1>3. b \in LoopFrames /\ Alike(a, b) /\ b.n = a.n /\ b.start = a.start /\ ~b.called
  <2>1. PICK no \in BOOLEAN : no = FALSE
    OBVIOUS
  <2> DEFINE x == HasCalled(a, no)
  <2>2. Alike(a, x) /\ x.n = a.n /\ x.start = a.start /\ (x.called <=> no)
    BY <1>2, LoopUpdates
  <2>3. b = x
    BY <2>1 DEF HasCalled
  <2> HIDE DEF b, x
  <2> QED BY <2>1, <2>2, <2>3 DEF Alike
<1>4. ASSUME SetTop(b), signal' = "run" PROVE Goes(a, 0)
  <2> HIDE DEF b
  <2>1. /\ b \in LoopFrames /\ b.node = a.node /\ b.parent = a.parent /\ b.n = a.n + 0
        /\ b.before = a.before /\ b.start \in {a.start, -1} /\ (b.probe => a.probe) /\ ~b.called
    BY <1>2, <1>3 DEF Alike
  <2> QED BY <2>1, <1>4 DEF Goes, SetTop
<1>5. ASSUME SetTop(y), signal' = "run" PROVE Goes(a, 0)
  <2> HIDE DEF b, s
  <2>1. Alike(b, y) /\ y.n = b.n /\ y.start = b.start /\ y.called = b.called
    BY <1>3, CountedLoop
  <2> HIDE DEF y
  <2>2. /\ y \in LoopFrames /\ y.node = a.node /\ y.parent = a.parent /\ y.n = a.n + 0
        /\ y.before = a.before /\ y.start \in {a.start, -1} /\ (y.probe => a.probe) /\ ~y.called
    BY <1>2, <1>3, <2>1 DEF Alike
  <2> QED BY <2>2, <1>5 DEF Goes, SetTop
<1>6. found' = keep
  BY DEF Failed
<1>7. ~(a.probe /\ a.n < c.min)
  BY <1>2 DEF LoopAt
<1>8. CASE ~a.probe /\ again
  <2>1. /\ pos' = s.pos /\ taken' = s.taken
        /\ IF s.ok THEN SetTop(y) /\ signal' = "run" ELSE Return("fail")
    BY <1>8, <1>7 DEF Failed
  <2> HIDE DEF y, s
  <2> QED BY <2>1, <1>1, <1>5, <1>6 DEF Return, Returns
<1>9. CASE ~again /\ none
  <2>1. IF r = "absent" THEN Return("absent") /\ pos' = a.start /\ taken' = t
        ELSE Stop(a, t, a.start)
    BY <1>9, <1>7 DEF Failed
  <2>2. CASE r = "absent"
    BY <2>1, <2>2, <1>2, <1>6, <1>9 DEF Return, Returns
  <2>3. CASE r # "absent"
    <3>1. Stop(a, t, a.start)
      BY <2>1, <2>3
    <3>2. taken' = t /\ pos' = a.start /\ Goes(a, 0)
      BY <3>1, <1>2, StopResult
    <3> QED BY <3>2, <1>2, <1>6
  <2> QED BY <2>2, <2>3
<1>10. CASE ~again /\ ~none /\ a.n >= c.min
  <2>1. IF r = "absent" THEN SetTop(b) /\ pos' = p /\ taken' = t /\ signal' = "run"
        ELSE Stop(a, t, over)
    BY <1>10, <1>7 DEF Failed
  <2>2. CASE r = "absent"
    <3> HIDE DEF b
    <3> QED BY <2>1, <2>2, <1>4, <1>6
  <2>3. CASE r # "absent"
    <3>1. Stop(a, t, over)
      BY <2>1, <2>3
    <3>2. over \in 0..end
      BY <1>2
    <3> HIDE DEF over
    <3>3. taken' = t /\ pos' = over /\ Goes(a, 0)
      BY <3>1, <1>2, StopResult
    <3> QED BY <3>2, <3>3, <1>6
  <2> QED BY <2>2, <2>3
<1>11. CASE ~(~a.probe /\ again) /\ ~(~again /\ none) /\ ~(~again /\ ~none /\ a.n >= c.min)
  <2>1. Return(IF r = "absent" THEN "fail" ELSE r) /\ pos' = p /\ taken' = t
    BY <1>11, <1>7 DEF Failed
  <2> QED BY <2>1, <1>6 DEF Return, Returns
<1> QED BY <1>8, <1>9, <1>10, <1>11

----------------------------------------------------------------------------
(* The stack from one step to the next.                                    *)

(* Who has called has an answer.                                           *)
Answered(c, r) ==
  Len(c) > 0 =>
    /\ Up(c).op = "complex" => r # "run"
    /\ Up(c).op # "complex" => (Up(c).called <=> r # "run")

(* The loop on top is within the data.                                     *)
Within(c, e) ==
  Len(c) > 0 /\ Up(c).op = "occurrences" => Up(c).before <= e /\ Up(c).start <= e

(* The events before the item of a loop that has called: fewer than n are  *)
(* found so far, and more than before the item it is part of.              *)
CalledLoop(a) == a.op = "occurrences" /\ a.called

Keeping(c, n) ==
  \A k \in 1..Len(c) : CalledLoop(c[k]) =>
    c[k].keep < n /\ \A j \in 1..(k - 1) : CalledLoop(c[j]) => c[j].keep < c[k].keep

Whole(p, m, c, e, r, n) ==
  Stack(p, m, c, e) /\ Answered(c, r) /\ Within(c, e) /\ Keeping(c, n)

(* A frame that is called, or that goes on, may be on top.                 *)
Running(b, e) ==
  /\ b.op # "complex" /\ ~b.called
  /\ b.op = "occurrences" => b.before <= e /\ b.start <= e

(* The events of a loop are counted.                                       *)
LEMMA KeepNat ==
  ASSUME NEW a \in Frames, CalledLoop(a)
  PROVE  a.keep \in Nat /\ a \in LoopFrames
BY DEF Frames, CalledLoop, SequenceFrames, LoopFrames, ComplexFrames

(* More events are found.                                                  *)
LEMMA KeepMore ==
  ASSUME NEW c \in Seq(Frames), NEW n \in Nat, NEW m \in Nat, n <= m, Keeping(c, n)
  PROVE  Keeping(c, m)
<1>1. \A k \in 1..Len(c) : CalledLoop(c[k]) => c[k].keep \in Nat
  BY KeepNat
<1>2. ASSUME NEW k \in 1..Len(c), CalledLoop(c[k]) PROVE c[k].keep < m
  <2>1. c[k].keep < n /\ c[k].keep \in Nat
    BY <1>1, <1>2 DEF Keeping
  <2> QED BY <2>1
<1> QED BY <1>2 DEF Keeping

(* The top of a stack returns.                                             *)
LEMMA KeepRest ==
  ASSUME NEW c \in Seq(Frames), c # <<>>, NEW n, Keeping(c, n)
  PROVE  /\ Keeping(Rest(c), n)
         /\ CalledLoop(Up(c)) => Keeping(Rest(c), Up(c).keep) /\ Up(c).keep < n
<1> DEFINE d == Rest(c)
<1>1. /\ Len(c) \in Nat /\ Len(c) > 0 /\ Len(d) = Len(c) - 1
      /\ \A k \in 1..(Len(c) - 1) : d[k] = c[k]
  BY RestFacts
<1> HIDE DEF d
<1>2. \A k \in 1..Len(d) : CalledLoop(d[k]) =>
        d[k].keep < n /\ \A j \in 1..(k - 1) : CalledLoop(d[j]) => d[j].keep < d[k].keep
  <2>1. \A k \in 1..Len(d) : k \in 1..Len(c) /\ d[k] = c[k]
    BY <1>1
  <2>2. \A k \in 1..Len(d) : \A j \in 1..(k - 1) : j \in 1..Len(d)
    BY <1>1
  <2>3. ASSUME NEW k \in 1..Len(d), CalledLoop(d[k])
        PROVE  d[k].keep < n /\ \A j \in 1..(k - 1) : CalledLoop(c[j]) => c[j].keep < d[k].keep
    BY <2>1, <2>3 DEF Keeping
  <2> QED BY <2>1, <2>2, <2>3
<1>3. ASSUME CalledLoop(Up(c))
      PROVE  Up(c).keep < n /\ \A k \in 1..Len(d) : CalledLoop(d[k]) => d[k].keep < Up(c).keep
  <2>1. Len(c) \in 1..Len(c) /\ CalledLoop(c[Len(c)]) /\ Up(c) = c[Len(c)]
    BY <1>1, <1>3 DEF Up
  <2>2. /\ c[Len(c)].keep < n
        /\ \A j \in 1..(Len(c) - 1) : CalledLoop(c[j]) => c[j].keep < c[Len(c)].keep
    BY <2>1 DEF Keeping
  <2>3. \A k \in 1..Len(d) : k \in 1..(Len(c) - 1) /\ d[k] = c[k]
    BY <1>1
  <2> QED BY <2>1, <2>2, <2>3
<1>4. Keeping(d, n) /\ (CalledLoop(Up(c)) => Keeping(d, Up(c).keep))
  BY <1>2, <1>3 DEF Keeping
<1> QED BY <1>3, <1>4 DEF d

(* A frame that has not called is on top; or one that has, whose item is   *)
(* the last that is found.                                                 *)
LEMMA KeepAppend ==
  ASSUME NEW c \in Seq(Frames), NEW b \in Frames, NEW n \in Nat, Keeping(c, n)
  PROVE  /\ ~CalledLoop(b) => Keeping(Append(c, b), n)
         /\ CalledLoop(b) /\ b.keep = n => Keeping(Append(c, b), n + 1)
<1> DEFINE d == Append(c, b)
<1>1. Len(d) = Len(c) + 1 /\ d[Len(c) + 1] = b /\ Len(c) \in Nat /\ \A k \in 1..Len(c) : d[k] = c[k]
  BY AppendProperties
<1> HIDE DEF d
<1>2. \A k \in 1..Len(c) : CalledLoop(d[k]) =>
        d[k].keep < n /\ \A j \in 1..(k - 1) : CalledLoop(d[j]) => d[j].keep < d[k].keep
  BY <1>1 DEF Keeping
<1>3. ASSUME ~CalledLoop(b) PROVE Keeping(d, n)
  BY <1>1, <1>2, <1>3 DEF Keeping
<1>4. ASSUME CalledLoop(b), b.keep = n PROVE Keeping(d, n + 1)
  <2>1. \A k \in 1..Len(c) : CalledLoop(d[k]) => d[k].keep \in Nat
    BY <1>1, KeepNat
  <2>2. ASSUME NEW k \in 1..(Len(c) + 1), CalledLoop(d[k])
        PROVE  d[k].keep < n + 1 /\ \A j \in 1..(k - 1) : CalledLoop(d[j]) => d[j].keep < d[k].keep
    <3>1. CASE k = Len(c) + 1
      BY <3>1, <1>1, <1>2, <1>4
    <3>2. CASE k # Len(c) + 1
      <4>1. k \in 1..Len(c)
        BY <3>2, <1>1
      <4>2. d[k].keep < n /\ d[k].keep \in Nat
        BY <4>1, <2>1, <2>2, <1>2
      <4> QED BY <4>1, <4>2, <2>2, <1>2
    <3> QED BY <3>1, <3>2
  <2> QED BY <1>1, <2>2 DEF Keeping
<1> QED BY <1>3, <1>4 DEF d

(* What is under the top of a stack has called it.                         *)
LEMMA UnderTop ==
  ASSUME NEW p, NEW m, NEW c, NEW e, Stack(p, m, c, e), c # <<>>, Len(Rest(c)) > 0
  PROVE  /\ Up(Rest(c)) = c[Len(c) - 1] /\ Len(c) - 1 \in 1..(Len(c) - 1)
         /\ Good(p, m, Up(Rest(c))) /\ Calls(p, Up(Rest(c)), Up(c))
<1>1. /\ c \in Seq(Frames) /\ Len(c) \in Nat /\ Len(Rest(c)) = Len(c) - 1
      /\ \A k \in 1..(Len(c) - 1) : Rest(c)[k] = c[k]
  BY RestFacts DEF Stack
<1>2. Len(c) - 1 \in 1..(Len(c) - 1) /\ Len(c) - 1 \in 1..Len(c) /\ (Len(c) - 1) + 1 = Len(c)
  BY <1>1
<1>3. Up(Rest(c)) = c[Len(c) - 1]
  BY <1>1, <1>2 DEF Up
<1>4. Calls(p, c[Len(c) - 1], c[Len(c)])
  BY <1>2 DEF Stack
<1>5. Good(p, m, c[Len(c) - 1])
  BY <1>2 DEF Stack
<1> QED BY <1>2, <1>3, <1>4, <1>5 DEF Up

(* The top of a stack returns.                                             *)
LEMMA WholeReturn ==
  ASSUME NEW p, NEW m, NEW c, NEW e, NEW f, NEW r, Stack(p, m, c, e), c # <<>>, r # "run",
         NEW n, Keeping(Rest(c), n),
         IF Up(c).op = "complex" /\ Up(c).bounded THEN f = Up(c).end ELSE f = e
  PROVE  Whole(p, m, Rest(c), f, r, n)
<1>1. Stack(p, m, Rest(c), f)
  BY StackReturn
<1>2. ASSUME Len(Rest(c)) > 0
      PROVE  LET a == Up(Rest(c)) IN
             /\ a.op = "complex" => r # "run"
             /\ a.op # "complex" => (a.called <=> r # "run")
             /\ a.op = "occurrences" => a.before <= f /\ a.start <= f
  <2> DEFINE a == Up(Rest(c))
  <2>1. Good(p, m, a) /\ Calls(p, a, Up(c))
    BY <1>2, UnderTop
  <2>2. a.op \in {"sequence", "occurrences", "complex"}
    BY <2>1, GoodOps
  <2>3. a.op # "complex" => a.called
    BY <2>1, <2>2 DEF Calls
  <2>4. ASSUME a.op = "occurrences" PROVE Up(c).end = f
    <3>1. Up(c).op = "complex"
      BY <2>1, <2>4 DEF Calls
    <3>2. ASSUME ~Up(c).bounded PROVE Up(c).end = e
      <4>1. Len(c) \in Nat /\ Len(c) > 0
        BY RestFacts DEF Stack
      <4>2. EndAbove(c, e, Len(c), c[Len(c)].end)
        BY <3>1, <3>2, <4>1 DEF Stack, Ends, Up
      <4> QED BY <4>1, <4>2 DEF EndAbove, Up
    <3> QED BY <3>1, <3>2
  <2>5. a.op = "occurrences" => a.before <= f /\ a.start <= f
    BY <2>1, <2>4 DEF Calls
  <2> QED BY <2>3, <2>5
<1> QED BY <1>1, <1>2 DEF Whole, Answered, Within

(* The top of a sequence with one more.                                    *)
LEMMA UpAppend ==
  ASSUME NEW c \in Seq(Frames), NEW b \in Frames
  PROVE  /\ Append(c, b) \in Seq(Frames) /\ Len(Append(c, b)) = Len(c) + 1
         /\ Len(c) \in Nat /\ Append(c, b) # <<>>
         /\ Up(Append(c, b)) = b /\ Rest(Append(c, b)) = c
<1> DEFINE d == Append(c, b)
<1>1. d \in Seq(Frames) /\ Len(d) = Len(c) + 1 /\ d[Len(c) + 1] = b /\ Len(c) \in Nat
      /\ \A k \in 1..Len(c) : d[k] = c[k]
  BY AppendProperties
<1> HIDE DEF d
<1>2. d # <<>> /\ Up(d) = b
  BY <1>1, EmptySeq DEF Up
<1>3. Rest(d) \in Seq(Frames) /\ Len(Rest(d)) = Len(c) /\ \A k \in 1..Len(c) : Rest(d)[k] = c[k]
  <2> DEFINE e == Rest(d)
  <2>1. e \in Seq(Frames) /\ Len(e) = Len(d) - 1 /\ \A k \in 1..(Len(d) - 1) : e[k] = d[k]
    BY <1>1, <1>2, RestFacts
  <2> HIDE DEF e
  <2>2. Len(d) - 1 = Len(c)
    BY <1>1
  <2>3. Len(e) = Len(c) /\ \A k \in 1..Len(c) : e[k] = d[k]
    BY <2>1, <2>2
  <2>4. \A k \in 1..Len(c) : e[k] = c[k]
    BY <1>1, <2>3
  <2> QED BY <2>1, <2>3, <2>4 DEF e
<1>4. Rest(d) = c
  BY <1>1, <1>3, SeqEqual
<1> QED BY <1>1, <1>2, <1>4 DEF d

(* The top of a stack goes on.                                             *)
LEMMA WholeTop ==
  ASSUME NEW p, NEW m, NEW c, NEW e, Stack(p, m, c, e), c # <<>>, NEW b,
         Good(p, m, b), b.op = Up(c).op, b.node = Up(c).node, Running(b, e),
         NEW n \in Nat, Keeping(Rest(c), n)
  PROVE  Whole(p, m, Append(Rest(c), b), e, "run", n)
<1> DEFINE d == Append(Rest(c), b)
<1>1. Stack(p, m, d, e)
  BY StackTop DEF Running
<1>2. Up(d) = b
  BY RestFacts, GoodOps, UpAppend DEF Stack
<1>4. Keeping(d, n)
  BY RestFacts, GoodOps, KeepAppend DEF Stack, Running, CalledLoop
<1> HIDE DEF d
<1>3. Whole(p, m, d, e, "run", n)
  BY <1>1, <1>2, <1>4 DEF Whole, Answered, Within, Running
<1> QED BY <1>3 DEF d

(* The top of a stack calls.                                               *)
LEMMA WholeCall ==
  ASSUME NEW p, NEW m, NEW c, NEW e, Stack(p, m, c, e), c # <<>>, NEW b,
         Good(p, m, b), b.op = Up(c).op, b.op # "complex", b.node = Up(c).node,
         NEW d, Good(p, m, d), Calls(p, b, d), Running(d, e),
         NEW n \in Nat, Keeping(Rest(c), n), ~CalledLoop(b)
  PROVE  Whole(p, m, Append(Append(Rest(c), b), d), e, "run", n)
<1> DEFINE u == Append(Rest(c), b)
           v == Append(u, d)
<1>1. Stack(p, m, u, e)
  BY StackTop
<1>2. u # <<>> /\ Up(u) = b /\ u \in Seq(Frames)
  BY RestFacts, GoodOps, UpAppend DEF Stack
<1>6. Keeping(u, n)
  BY RestFacts, GoodOps, KeepAppend DEF Stack
<1> HIDE DEF u
<1>7. Keeping(v, n)
  BY <1>2, <1>6, GoodOps, KeepAppend DEF Running, CalledLoop
<1>3. Stack(p, m, v, e)
  BY <1>1, <1>2, StackCall DEF Running
<1>4. Up(v) = d
  BY <1>2, GoodOps, UpAppend
<1> HIDE DEF v
<1>5. Whole(p, m, v, e, "run", n)
  BY <1>3, <1>4, <1>7 DEF Whole, Answered, Within, Running
<1> QED BY <1>5 DEF u, v

(* A loop enters a complex element and its sequence.                       *)
LEMMA WholeEnter ==
  ASSUME NEW p, NEW m, NEW c, NEW e, NEW f, Stack(p, m, c, e), c # <<>>, NEW b,
         Good(p, m, b), b.op = Up(c).op, b.op # "complex", b.node = Up(c).node,
         NEW d, Good(p, m, d), Calls(p, b, d), d.op = "complex", d.end = e,
         d.bounded \/ f = e,
         NEW s, Good(p, m, s), Calls(p, d, s), Running(s, f),
         NEW n \in Nat, Keeping(Rest(c), n), CalledLoop(b), b.keep = n
  PROVE  Whole(p, m, Rest(c) \o <<b, d, s>>, f, "run", n + 1)
<1> DEFINE u == Append(Rest(c), b)
           v == Append(u, d)
           w == Append(v, s)
<1>0. Rest(c) \in Seq(Frames) /\ b \in Frames /\ d \in Frames /\ s \in Frames
  BY RestFacts, GoodOps DEF Stack
<1>1. Stack(p, m, u, e)
  BY StackTop
<1>2. u # <<>> /\ Up(u) = b /\ u \in Seq(Frames) /\ Len(u) = Len(Rest(c)) + 1
  BY <1>0, UpAppend
<1>3. Stack(p, m, v, f)
  <2> HIDE DEF u
  <2> QED BY <1>1, <1>2, StackCall
<1>4. v # <<>> /\ Up(v) = d /\ v \in Seq(Frames)
  <2> HIDE DEF u
  <2> QED BY <1>0, <1>2, UpAppend
<1>5. Stack(p, m, w, f) /\ Up(w) = s
  <2> HIDE DEF u, v
  <2>1. Stack(p, m, w, f)
    BY <1>3, <1>4, StackCall DEF Running
  <2>2. Up(w) = s
    BY <1>0, <1>4, UpAppend
  <2> QED BY <2>1, <2>2
<1>6. Rest(c) \o <<b, d, s>> = w
  <2> DEFINE r == Rest(c)
  <2>1. r \in Seq(Frames)
    BY <1>0
  <2> HIDE DEF r
  <2>2. r \o <<b, d, s>> = Append(Append(Append(r, b), d), s)
    BY <1>0, <2>1
  <2> QED BY <2>2 DEF r
<1>8. Keeping(w, n + 1)
  <2>1. Keeping(u, n + 1)
    BY <1>0, KeepAppend
  <2>2. Keeping(v, n + 1)
    <3> HIDE DEF u
    <3> QED BY <1>0, <1>2, <2>1, KeepAppend DEF CalledLoop
  <2> HIDE DEF u, v
  <2> QED BY <1>0, <1>4, <2>2, KeepAppend DEF Running, CalledLoop
<1> HIDE DEF w
<1>7. Whole(p, m, w, f, "run", n + 1)
  BY <1>5, <1>8 DEF Whole, Answered, Within, Running
<1> QED BY <1>6, <1>7

----------------------------------------------------------------------------
(* The shape of a state.                                                   *)

Signals == {"run", "ok", "absent", "empty", "fail"}

FoundIn(p) == [node : DOMAIN p, what : {"item", "open", "none"}, text : Seq(Tokens)]

Typed ==
  /\ prog \in Programs /\ input \in Seq(Tokens) /\ found \in Seq(FoundIn(prog))
  /\ signal \in Signals /\ pos \in 0..end /\ end \in 0..Len(input)
  /\ enclosing \in Seq(Nat)

Shape == Typed /\ Whole(prog, Len(input), calls, end, signal, Len(found))

(* What is known of the top of the stack.                                  *)
LEMMA ShapeFacts ==
  ASSUME Shape, calls # <<>>
  PROVE  /\ IsProgram(prog) /\ end \in Nat /\ pos \in 0..end /\ Len(input) \in Nat
         /\ Top = Up(calls) /\ Below = Rest(calls) /\ Len(calls) > 0
         /\ Good(prog, Len(input), Top) /\ Top.node \in DOMAIN prog /\ Top.node \in Nat
         /\ Node = prog[Top.node] /\ Len(found) \in Nat
         /\ Stack(prog, Len(input), calls, end)
         /\ Answered(calls, signal) /\ Within(calls, end)
         /\ Keeping(Below, Len(found))
         /\ CalledLoop(Top) => Keeping(Below, Top.keep) /\ Top.keep < Len(found) /\ Top.keep \in Nat
<1>1. IsProgram(prog) /\ input \in Seq(Tokens) /\ pos \in 0..end /\ end \in 0..Len(input)
      /\ found \in Seq(FoundIn(prog))
  BY ProgramsAssumption DEF Shape, Typed
<1>2. Len(input) \in Nat /\ end \in Nat /\ Len(found) \in Nat
  BY <1>1, LenProperties
<1>3. /\ Stack(prog, Len(input), calls, end)
      /\ Answered(calls, signal) /\ Within(calls, end) /\ Keeping(calls, Len(found))
  BY DEF Shape, Whole
<1>4. Len(calls) \in Nat /\ Len(calls) > 0
  BY <1>3, RestFacts DEF Stack
<1>5. Good(prog, Len(input), Top)
  BY <1>3, <1>4 DEF Stack, Top
<1>6. Top.node \in DOMAIN prog
  BY <1>5 DEF Good
<1>7. Top.node \in Nat
  BY <1>1, <1>6, NodeFacts
<1>8. /\ Keeping(Rest(calls), Len(found))
      /\ CalledLoop(Up(calls)) => Keeping(Rest(calls), Up(calls).keep) /\ Up(calls).keep < Len(found)
  BY <1>3, KeepRest DEF Stack
<1>9. Top = Up(calls) /\ Below = Rest(calls)
  BY DEF Top, Below, Up, Rest
<1>10. CalledLoop(Top) => Top.keep \in Nat
  BY <1>5, GoodOps, KeepNat
<1> QED BY <1>1, <1>2, <1>3, <1>4, <1>5, <1>6, <1>7, <1>8, <1>9, <1>10 DEF Node

(* A step that keeps the types and the stack keeps the shape.              *)
LEMMA Keeps ==
  ASSUME Shape, prog' = prog, input' = input, found' \in Seq(FoundIn(prog)),
         signal' \in Signals, pos' \in 0..end', end' \in 0..Len(input), enclosing' \in Seq(Nat),
         Whole(prog, Len(input), calls', end', signal', Len(found'))
  PROVE  Shape'
BY DEF Shape, Typed

(* An activation of a sequence, and of a loop.                             *)
LEMMA NewFrames ==
  ASSUME Shape, NEW n \in DOMAIN prog, NEW parent \in Nat, NEW stops \in Seq(Nat)
  PROVE  /\ prog[n].kind = "sequence" =>
              /\ Good(prog, Len(input), Sequence(n, parent, stops))
              /\ Running(Sequence(n, parent, stops), end)
         /\ prog[n].kind # "sequence" /\ parent \in DOMAIN prog =>
              /\ Good(prog, Len(input), Occurrences(n, parent, stops))
              /\ Running(Occurrences(n, parent, stops), end)
<1>1. IsProgram(prog) /\ end \in Nat /\ Len(found) \in Nat
  <2>1. IsProgram(prog) /\ end \in 0..Len(input) /\ input \in Seq(Tokens)
        /\ found \in Seq(FoundIn(prog))
    BY ProgramsAssumption DEF Shape, Typed
  <2> QED BY <2>1, LenProperties
<1>2. n \in Nat /\ Len(prog[n].kids) \in Nat
  BY <1>1, NodeFacts
<1>3. ASSUME prog[n].kind = "sequence"
      PROVE  /\ Good(prog, Len(input), Sequence(n, parent, stops))
             /\ Running(Sequence(n, parent, stops), end)
  <2> DEFINE b == Sequence(n, parent, stops)
  <2>1. b \in SequenceFrames /\ b.node = n /\ b.i = 1 /\ ~b.called /\ b.op = "sequence"
    BY <1>2 DEF Sequence, SequenceFrames
  <2> HIDE DEF b
  <2>2. GoodSequence(prog, b)
    BY <2>1, <1>2, <1>3 DEF GoodSequence
  <2>3. Good(prog, Len(input), b) /\ Running(b, end)
    BY <2>1, <2>2 DEF Good, Running
  <2> QED BY <2>3 DEF b
<1>4. ASSUME prog[n].kind # "sequence", parent \in DOMAIN prog
      PROVE  /\ Good(prog, Len(input), Occurrences(n, parent, stops))
             /\ Running(Occurrences(n, parent, stops), end)
  <2> DEFINE b == Occurrences(n, parent, stops)
  <2>1. /\ b \in LoopFrames /\ b.node = n /\ b.parent = parent /\ b.start = 0 /\ b.before = 0
        /\ ~b.called /\ ~b.probe /\ b.op = "occurrences"
    BY <1>1, <1>2 DEF Occurrences, LoopFrames
  <2> HIDE DEF b
  <2>2. GoodLoop(prog, b)
    BY <2>1, <1>4 DEF GoodLoop
  <2>3. Good(prog, Len(input), b) /\ Running(b, end)
    BY <1>1, <2>1, <2>2 DEF Good, Running
  <2> QED BY <2>3 DEF b
<1> QED BY <1>3, <1>4

(* A sequence at one of its kids.                                          *)
LEMMA AtKid ==
  ASSUME Shape, In("sequence"), Top.i <= Len(Node.kids)
  PROVE  /\ GoodSequence(prog, Top) /\ Top \in SequenceFrames /\ Top.op = "sequence"
         /\ Top.i \in Nat /\ Top.i > 0 /\ Top.index \in Nat /\ Len(Node.kids) \in Nat
         /\ Kid(Top) \in DOMAIN prog /\ Kid(Top) \in Nat /\ ChildStops(Top) \in Seq(Nat)
<1>1. calls # <<>> /\ Top.op = "sequence"
  BY DEF In
<1>2. /\ IsProgram(prog) /\ GoodSequence(prog, Top) /\ Node = prog[Top.node]
      /\ Top.node \in DOMAIN prog
  BY <1>1, ShapeFacts, GoodOps
<1>3. Top \in SequenceFrames /\ Top.i \in 1..(Len(Node.kids) + 1)
  BY <1>2 DEF GoodSequence
<1>4. /\ Top.i \in Nat /\ Top.index \in Nat /\ Top.stops \in Seq(Nat) /\ Top.node \in Nat
  BY <1>3 DEF SequenceFrames
<1>5. Len(Node.kids) \in Nat /\ \A k \in 1..Len(Node.kids) : Node.kids[k] \in DOMAIN prog
  BY <1>2, NodeFacts
<1>6. Top.i \in 1..Len(Node.kids)
  BY <1>3, <1>4, <1>5
<1>7. Kid(Top) \in DOMAIN prog
  BY <1>2, <1>5, <1>6 DEF Kid
<1>8. Kid(Top) \in Nat
  BY <1>2, <1>7, NodeFacts
<1>9. ChildStops(Top) \in Seq(Nat)
  BY <1>4, AppendProperties DEF ChildStops
<1> QED BY <1>1, <1>2, <1>3, <1>4, <1>5, <1>6, <1>7, <1>8, <1>9

(* A sequence moves to another child.                                      *)
LEMMA SequenceMoves ==
  ASSUME Shape, In("sequence"), NEW b \in SequenceFrames, b.node = Top.node,
         b.i \in 1..(Len(Node.kids) + 1), ~b.called
  PROVE  Whole(prog, Len(input), Append(Below, b), end, "run", Len(found))
<1>1. calls # <<>> /\ Top.op = "sequence"
  BY DEF In
<1>2. /\ Top = Up(calls) /\ Below = Rest(calls) /\ Node = prog[Top.node]
      /\ Stack(prog, Len(input), calls, end) /\ Good(prog, Len(input), Top)
      /\ Len(found) \in Nat /\ Keeping(Below, Len(found))
  BY <1>1, ShapeFacts
<1>3. GoodSequence(prog, Top) /\ Top.node \in DOMAIN prog
  BY <1>1, <1>2, GoodOps DEF Good
<1>4. b.op = "sequence"
  BY DEF SequenceFrames
<1>5. GoodSequence(prog, b)
  BY <1>2, <1>3 DEF GoodSequence
<1>6. Good(prog, Len(input), b) /\ Running(b, end)
  BY <1>3, <1>4, <1>5 DEF Good, Running
<1> QED BY <1>1, <1>2, <1>4, <1>6, WholeTop

(* The frame of a sequence at its next child.                              *)
LEMMA NextFrame ==
  ASSUME NEW a \in SequenceFrames
  PROVE  /\ NextChild(a) \in SequenceFrames /\ NextChild(a).node = a.node
         /\ NextChild(a).i = a.i + 1 /\ ~NextChild(a).called
<1>1. PICK no \in BOOLEAN : no = FALSE
  OBVIOUS
<1> DEFINE i == a.i + 1
           x == IF prog[Kid(a)].kind \in Calcs THEN a.index ELSE a.index + 1
<1>2. i \in Nat /\ x \in Nat
  BY DEF SequenceFrames
<1>3. NextChild(a) = SequenceWith(a, i, x, no)
  <2>1. NextChild(a) = [a EXCEPT !.i = i, !.called = FALSE, !.index = x]
    BY Zenon DEF NextChild
  <2> HIDE DEF i, x
  <2> QED BY <1>1, <2>1, Zenon DEF SequenceWith
<1> HIDE DEF x
<1>4. LET b == SequenceWith(a, i, x, no) IN
      b \in SequenceFrames /\ b.node = a.node /\ b.i = i /\ (b.called <=> no)
  <2> HIDE DEF i
  <2> QED BY <1>2, SequenceUpdates
<1> QED BY <1>1, <1>3, <1>4

(* An activation returns over the same data.                               *)
LEMMA Answers ==
  ASSUME Shape, calls # <<>>, Top.op # "complex", NEW r, r # "run"
  PROVE  Whole(prog, Len(input), Below, end, r, Len(found))
BY ShapeFacts, WholeReturn

(* The loop over the children of a sequence keeps the shape.               *)
LEMMA SequenceStepShape ==
  ASSUME Shape, SequenceStep
  PROVE  Shape'
<1> DEFINE after == IF prog[Kid(Top)].kind \in Calcs \/ SkipsAfterParsed(Top, pos)
                    THEN {pos} ELSE AfterSeparator(Top, pos)
<1>1. /\ In("sequence") /\ signal = "run" /\ Top.i <= Len(Node.kids) /\ calls # <<>>
      /\ UNCHANGED <<prog, input, end, found, enclosing>>
  BY DEF SequenceStep, In
<1>2. /\ Top \in SequenceFrames /\ Top.op = "sequence" /\ GoodSequence(prog, Top)
      /\ Top.i \in Nat /\ Top.i > 0 /\ Len(Node.kids) \in Nat
      /\ Kid(Top) \in DOMAIN prog /\ Kid(Top) \in Nat /\ ChildStops(Top) \in Seq(Nat)
  BY <1>1, AtKid
<1>3. /\ IsProgram(prog) /\ end \in Nat /\ pos \in 0..end /\ Top.node \in DOMAIN prog
      /\ Top.node \in Nat /\ Top = Up(calls) /\ Below = Rest(calls) /\ Node = prog[Top.node]
      /\ Stack(prog, Len(input), calls, end)
      /\ Len(found) \in Nat /\ Keeping(Below, Len(found))
  BY <1>1, ShapeFacts
<1>4. /\ found' \in Seq(FoundIn(prog)) /\ end' \in 0..Len(input) /\ enclosing' \in Seq(Nat)
      /\ prog' = prog /\ input' = input /\ end' = end
  BY <1>1 DEF Shape, Typed
<1>5. \A q \in after : q \in 0..end
  <2>1. \A q \in AfterSeparator(Top, pos) : q \in pos..end
    BY <1>3, AfterIn
  <2> QED BY <1>3, <2>1
<1>6. SUFFICES pos' \in 0..end /\ signal' \in Signals
               /\ Whole(prog, Len(input), calls', end, signal', Len(found))
  BY <1>1, <1>4, Keeps
<1>7. CASE Return("fail") /\ UNCHANGED pos
  <2>1. Whole(prog, Len(input), Below, end, "fail", Len(found))
    BY <1>1, <1>2, Answers
  <2> QED BY <1>3, <1>7, <2>1 DEF Return, Signals
<1>8. ASSUME NEW p \in after, EmptySlot(Top, p), pos' = PastSlot(Top, p), SetTop(NextChild(Top)),
             UNCHANGED signal
      PROVE  pos' \in 0..end /\ signal' \in Signals
             /\ Whole(prog, Len(input), calls', end, signal', Len(found))
  <2>1. p \in 0..end
    BY <1>5, <1>8
  <2>2. PastSlot(Top, p) \in 0..end
    <3>1. Past(Sep(Top.node), p) \in p..end
      BY <1>3, <2>1, PastIn, DelimiterFacts
    <3> QED BY <2>1, <3>1 DEF PastSlot
  <2>3. /\ NextChild(Top) \in SequenceFrames /\ NextChild(Top).node = Top.node
        /\ NextChild(Top).i = Top.i + 1 /\ ~NextChild(Top).called
    BY <1>2, NextFrame
  <2>4. NextChild(Top).i \in 1..(Len(Node.kids) + 1)
    BY <1>1, <1>2, <2>3
  <2>5. Whole(prog, Len(input), Append(Below, NextChild(Top)), end, "run", Len(found))
    BY <1>1, <2>3, <2>4, SequenceMoves
  <2> QED BY <1>1, <1>8, <2>2, <2>5 DEF SetTop, Signals
<1>9. ASSUME NEW p \in after, pos' = p, UNCHANGED signal,
             Call([Top EXCEPT !.called = TRUE],
                  IF IsElement(Kid(Top))
                  THEN Occurrences(Kid(Top), Top.node, ChildStops(Top))
                  ELSE Sequence(Kid(Top), Top.node, ChildStops(Top)))
      PROVE  pos' \in 0..end /\ signal' \in Signals
             /\ Whole(prog, Len(input), calls', end, signal', Len(found))
  <2> DEFINE b == [Top EXCEPT !.called = TRUE]
             d == IF IsElement(Kid(Top))
                  THEN Occurrences(Kid(Top), Top.node, ChildStops(Top))
                  ELSE Sequence(Kid(Top), Top.node, ChildStops(Top))
  <2>1. PICK yes \in BOOLEAN : yes = TRUE
    OBVIOUS
  <2>2. LET x == SequenceCalled(Top, yes) IN
        x \in SequenceFrames /\ x.node = Top.node /\ x.i = Top.i /\ (x.called <=> yes)
    BY <1>2, SequenceUpdates
  <2>3. b = SequenceCalled(Top, yes)
    BY <2>1 DEF SequenceCalled
  <2>4. Good(prog, Len(input), d) /\ Running(d, end)
    BY <1>2, <1>3, NewFrames DEF IsElement
  <2>5. d.op \in {"sequence", "occurrences"} /\ d.node = Kid(Top)
    BY DEF Sequence, Occurrences
  <2>6. calls' = Append(Append(Below, b), d)
    BY <1>9 DEF Call
  <2> HIDE DEF b, d
  <2>7. b \in SequenceFrames /\ b.node = Top.node /\ b.i = Top.i /\ b.called
    BY <2>1, <2>2, <2>3
  <2>8. GoodSequence(prog, b)
    BY <1>1, <1>2, <1>3, <2>7 DEF GoodSequence
  <2>9. Good(prog, Len(input), b) /\ b.op = "sequence"
    BY <1>3, <2>7, <2>8 DEF Good, SequenceFrames
  <2>10. Calls(prog, b, d)
    BY <2>5, <2>7, <2>9 DEF Calls, Kid
  <2>11. Whole(prog, Len(input), Append(Append(Below, b), d), end, "run", Len(found))
    BY <1>1, <1>2, <1>3, <2>4, <2>7, <2>9, <2>10, WholeCall DEF CalledLoop
  <2> QED BY <1>1, <1>5, <1>9, <2>6, <2>11 DEF Signals
<1>10. \/ Return("fail") /\ UNCHANGED pos
       \/ \E p \in after :
            IF EmptySlot(Top, p)
            THEN pos' = PastSlot(Top, p) /\ SetTop(NextChild(Top)) /\ UNCHANGED signal
            ELSE /\ pos' = p /\ UNCHANGED signal
                 /\ Call([Top EXCEPT !.called = TRUE],
                         IF IsElement(Kid(Top))
                         THEN Occurrences(Kid(Top), Top.node, ChildStops(Top))
                         ELSE Sequence(Kid(Top), Top.node, ChildStops(Top)))
  BY Zenon DEF SequenceStep
<1> HIDE DEF after
<1> QED BY <1>7, <1>8, <1>9, <1>10

(* The answer of a child keeps the shape.                                  *)
LEMMA SequenceChildShape ==
  ASSUME Shape, SequenceChild
  PROVE  Shape'
<1>1. /\ In("sequence") /\ signal # "run" /\ Top.called /\ calls # <<>> /\ Top.op = "sequence"
      /\ UNCHANGED <<prog, input, end, found, enclosing>>
  BY DEF SequenceChild, In
<1>2. /\ IsProgram(prog) /\ end \in Nat /\ pos \in 0..end /\ Top.node \in DOMAIN prog
      /\ Node = prog[Top.node] /\ Good(prog, Len(input), Top)
  BY <1>1, ShapeFacts
<1>3. Top.i <= Len(Node.kids) /\ Top \in SequenceFrames
  BY <1>1, <1>2, GoodOps DEF GoodSequence
<1>4. Top.i \in Nat /\ Top.i > 0 /\ Len(Node.kids) \in Nat
  BY <1>1, <1>3, AtKid
<1>5. /\ found' \in Seq(FoundIn(prog)) /\ end' \in 0..Len(input) /\ enclosing' \in Seq(Nat)
      /\ prog' = prog /\ input' = input /\ end' = end
  BY <1>1 DEF Shape, Typed
<1>6. SUFFICES pos' \in 0..end /\ signal' \in Signals
               /\ Whole(prog, Len(input), calls', end, signal', Len(found))
  BY <1>1, <1>5, Keeps
<1>7. ASSUME NEW b \in SequenceFrames, b.node = Top.node,
             b.i \in 1..(Len(Node.kids) + 1), ~b.called, SetTop(b), signal' = "run"
      PROVE  /\ Whole(prog, Len(input), calls', end, signal', Len(found))
             /\ signal' \in Signals
  BY <1>1, <1>7, SequenceMoves DEF SetTop, Signals
<1>8. ASSUME NEW r \in {"fail", "empty"}, Return(r)
      PROVE  /\ Whole(prog, Len(input), calls', end, signal', Len(found))
             /\ signal' \in Signals
  BY <1>1, <1>8, Answers DEF Return, Signals
<1>9. CASE signal = "ok"
  <2> DEFINE p == TrailingSeparators(Top, pos)
             n == NextChild(Top)
             j == Len(Node.kids) + 1
             b == [n EXCEPT !.i = j]
  <2>1. pos' = p /\ SetTop(IF p # pos THEN b ELSE n) /\ signal' = "run"
    BY <1>9 DEF SequenceChild
  <2>2. p \in pos..end
    BY <1>2, TrailingIn
  <2>3. n \in SequenceFrames /\ n.node = Top.node /\ n.i = Top.i + 1 /\ ~n.called
    BY <1>3, NextFrame
  <2> HIDE DEF n, p
  <2>4. b = SequenceAt(n, j) /\ j \in Nat
    BY <1>4 DEF SequenceAt
  <2> HIDE DEF j
  <2>5. LET x == SequenceAt(n, j) IN
        x \in SequenceFrames /\ x.node = n.node /\ x.i = j /\ x.called = n.called
    <3>1. PICK no \in BOOLEAN : no = FALSE
      OBVIOUS
    <3> QED BY <2>3, <2>4, <3>1, SequenceUpdates
  <2> HIDE DEF b
  <2>6. b \in SequenceFrames /\ b.node = Top.node /\ b.i = j /\ ~b.called
    BY <2>3, <2>4, <2>5
  <2>7. j \in 1..(Len(Node.kids) + 1)
    BY <1>4 DEF j
  <2>8. n.i \in 1..(Len(Node.kids) + 1)
    BY <1>3, <1>4, <2>3
  <2>9. CASE p # pos
    BY <1>2, <1>7, <2>1, <2>2, <2>6, <2>7, <2>9
  <2>10. CASE p = pos
    BY <1>2, <1>7, <2>1, <2>2, <2>3, <2>8, <2>10
  <2> QED BY <2>9, <2>10
<1>10. CASE signal = "absent" /\ ~Return("fail")
  <2>1. PICK no \in BOOLEAN : no = FALSE
    OBVIOUS
  <2> DEFINE j == Top.i + 1
             b == SequenceMoved(Top, j, no)
  <2>2. SetTop([Top EXCEPT !.i = @ + 1, !.called = FALSE]) /\ signal' = "run" /\ pos' = pos
    BY <1>10 DEF SequenceChild
  <2>3. [Top EXCEPT !.i = @ + 1, !.called = FALSE] = b
    BY <2>1, Zenon DEF SequenceMoved
  <2>7. j \in Nat /\ j \in 1..(Len(Node.kids) + 1)
    BY <1>3, <1>4
  <2> HIDE DEF j
  <2>4. LET x == SequenceMoved(Top, j, no) IN
        x \in SequenceFrames /\ x.node = Top.node /\ x.i = j /\ (x.called <=> no)
    BY <1>3, <2>1, <2>7, MovedFrame
  <2>5. b \in SequenceFrames /\ b.node = Top.node /\ b.i = j /\ ~b.called
    BY <2>1, <2>4
  <2>6. SetTop(b)
    BY <2>2, <2>3
  <2> HIDE DEF b
  <2> QED BY <1>2, <1>7, <2>2, <2>5, <2>6, <2>7
<1>11. CASE signal = "absent" /\ Return("fail")
  <2>1. pos' = pos
    BY <1>11 DEF SequenceChild
  <2> QED BY <1>2, <1>8, <1>11, <2>1
<1>12. CASE signal \in {"fail", "empty"}
  <2>1. Return(signal) /\ pos' = pos
    BY <1>12 DEF SequenceChild
  <2> QED BY <1>2, <1>8, <1>12, <2>1
<1> QED BY <1>9, <1>10, <1>11, <1>12 DEF SequenceChild

(* The end of a sequence keeps the shape.                                  *)
LEMMA SequenceEndsShape ==
  ASSUME Shape, SequenceEnds
  PROVE  Shape'
<1> DEFINE r == LET matched == Node.term = NoDelim \/ At(Node.term, pos) \/ pos = end
                    leftover == Len(calls) = 1 /\ pos' < end
                IN IF matched /\ ~leftover THEN "ok" ELSE "fail"
<1>1. /\ In("sequence") /\ calls # <<>> /\ Top.op = "sequence"
      /\ pos' = Past(Node.term, pos) /\ Return(r)
      /\ UNCHANGED <<prog, input, end, found, enclosing>>
  BY Zenon DEF SequenceEnds, In
<1>2. /\ IsProgram(prog) /\ end \in Nat /\ pos \in 0..end /\ Top.node \in DOMAIN prog
      /\ Node = prog[Top.node]
  BY <1>1, ShapeFacts
<1>3. /\ found' \in Seq(FoundIn(prog)) /\ end' \in 0..Len(input) /\ enclosing' \in Seq(Nat)
      /\ prog' = prog /\ input' = input /\ end' = end
  BY <1>1 DEF Shape, Typed
<1>4. pos' \in pos..end
  <2>1. Node.term \in Seq(Tokens)
    BY <1>2, NodeFacts
  <2> QED BY <1>1, <1>2, <2>1, LenProperties, PastIn
<1>5. r \in {"ok", "fail"}
  OBVIOUS
<1> HIDE DEF r
<1>6. Whole(prog, Len(input), Below, end, r, Len(found))
  BY <1>1, <1>5, Answers
<1> QED BY <1>1, <1>2, <1>3, <1>4, <1>5, <1>6, Keeps DEF Return, Signals

----------------------------------------------------------------------------
(* The loop over the occurrences.                                          *)

(* A loop on top, and the round it begins.                                 *)
LEMMA RoundFacts ==
  ASSUME Shape, In("occurrences"), NEW r, r = Ready(Top), NEW a, a = Started(Top, r.pos)
  PROVE  /\ calls # <<>> /\ Top.op = "occurrences" /\ Top \in LoopFrames /\ GoodLoop(prog, Top)
         /\ r.pos \in pos..end /\ (r.taken => taken)
         /\ LoopAt(a) /\ a.node = Top.node /\ a.parent = Top.parent /\ a.n = Top.n
         /\ a.start = r.pos /\ a.before = pos /\ a.called = Top.called /\ a.stops \in Seq(Nat)
<1>1. calls # <<>> /\ Top.op = "occurrences"
  BY DEF In
<1>2. /\ IsProgram(prog) /\ end \in Nat /\ pos \in 0..end /\ Top.node \in DOMAIN prog
      /\ Node = prog[Top.node] /\ Good(prog, Len(input), Top)
  BY <1>1, ShapeFacts
<1>3. GoodLoop(prog, Top) /\ Top \in LoopFrames /\ Top.parent \in DOMAIN prog
  BY <1>1, <1>2, GoodOps DEF GoodLoop
<1>4. r.pos \in pos..end /\ (r.taken => taken)
  <2> DEFINE s == Separate(Top, Top.node, Top.n, taken, pos)
             k == [ok |-> TRUE, pos |-> pos, taken |-> taken]
  <2>1. s.pos \in pos..end /\ ~s.taken
    BY <1>2, <1>3, SeparatorFacts DEF Separate
  <2>2. k.pos = pos /\ k.taken = taken
    OBVIOUS
  <2>3. r = s \/ r = k
    BY DEF Ready
  <2> HIDE DEF s, k
  <2> QED BY <1>2, <2>1, <2>2, <2>3
<1>5. /\ a \in LoopFrames /\ a.node = Top.node /\ a.parent = Top.parent
      /\ a.n = Top.n /\ a.before = pos /\ a.start = r.pos /\ a.called = Top.called
      /\ a.probe <=> Top.probe \/ (Top.n >= Node.min /\ pos = end)
  <2>1. r.pos \in Nat /\ pos \in Nat
    BY <1>2, <1>4
  <2> QED BY <1>3, <2>1, StartedLoop
<1>6. a.stops \in Seq(Nat)
  BY <1>5 DEF LoopFrames
<1>7. LoopAt(a)
  BY <1>2, <1>3, <1>4, <1>5 DEF LoopAt, GoodLoop
<1> QED BY <1>1, <1>3, <1>4, <1>5, <1>6, <1>7

(* A loop that goes on or returns keeps the shape, when what was found     *)
(* before it is kept.                                                      *)
LEMMA LoopResult ==
  ASSUME Shape, In("occurrences"), NEW a, LoopAt(a), a.node = Top.node, NEW d \in Nat,
         NEW n \in Nat, Keeping(Below, n),
         Goes(a, d) \/ \E r \in {"ok", "absent", "empty", "fail"} : Returns(r)
  PROVE  Whole(prog, Len(input), calls', end, signal', n) /\ signal' \in Signals
<1>1. calls # <<>> /\ Top.op = "occurrences"
  BY DEF In
<1>2. /\ IsProgram(prog) /\ end \in Nat /\ pos \in 0..end /\ Top.node \in DOMAIN prog
      /\ Node = prog[Top.node] /\ Good(prog, Len(input), Top)
      /\ Top = Up(calls) /\ Below = Rest(calls) /\ Stack(prog, Len(input), calls, end)
  BY <1>1, ShapeFacts
<1>3. GoodLoop(prog, Top) /\ prog[Top.node].min \in Nat
  BY <1>1, <1>2, GoodOps, NodeFacts
<1>4. ASSUME Goes(a, d) PROVE Whole(prog, Len(input), calls', end, signal', n) /\ signal' \in Signals
  <2>1. PICK b \in LoopFrames :
          /\ calls' = Append(Below, b) /\ signal' = "run"
          /\ b.node = a.node /\ b.parent = a.parent /\ b.n = a.n + d
          /\ b.before = a.before /\ b.start \in {a.start, -1}
          /\ b.probe => a.probe
          /\ ~b.called
    BY <1>4 DEF Goes
  <2>2. a.start \in 0..end /\ a.before \in 0..end /\ a.parent \in DOMAIN prog /\ a.n \in Nat
    BY DEF LoopAt, LoopFrames
  <2>3. b.start >= -1 /\ b.before <= end /\ b.start <= end
    BY <1>2, <2>1, <2>2
  <2>4. b.probe => b.n >= prog[b.node].min
    BY <1>3, <2>1, <2>2 DEF LoopAt
  <2>5. GoodLoop(prog, b) /\ b.op = "occurrences"
    BY <1>3, <2>1, <2>2, <2>3, <2>4 DEF GoodLoop, LoopFrames
  <2>6. Good(prog, Len(input), b) /\ Running(b, end)
    BY <1>2, <2>1, <2>3, <2>5 DEF Good, Running
  <2>7. Whole(prog, Len(input), Append(Rest(calls), b), end, "run", n)
    BY <1>1, <1>2, <2>1, <2>5, <2>6, WholeTop
  <2> QED BY <1>2, <2>1, <2>7 DEF Signals
<1>5. ASSUME NEW r \in {"ok", "absent", "empty", "fail"}, Returns(r)
      PROVE  Whole(prog, Len(input), calls', end, signal', n) /\ signal' \in Signals
  <2>1. Whole(prog, Len(input), Rest(calls), end, r, n)
    BY <1>1, <1>2, WholeReturn
  <2> QED BY <1>2, <1>5, <2>1 DEF Returns, Signals
<1> QED BY <1>4, <1>5

(* The events of an element.                                               *)
LEMMA EventFacts ==
  ASSUME NEW n \in DOMAIN prog, NEW text \in Seq(Tokens)
  PROVE  Item(n, text) \in FoundIn(prog) /\ Open(n) \in FoundIn(prog) /\ Empty(n) \in FoundIn(prog)
<1>1. <<>> \in Seq(Tokens)
  OBVIOUS
<1> QED BY <1>1 DEF Item, Open, Empty, FoundIn

(* A separator that is missing keeps the shape.                            *)
LEMMA SeparatorMissingShape ==
  ASSUME Shape, SeparatorMissing
  PROVE  Shape'
<1>1. /\ calls # <<>> /\ Top.op = "occurrences" /\ Return("fail")
      /\ UNCHANGED <<prog, input, pos, end, found, enclosing>>
  BY DEF SeparatorMissing, Round, In
<1>2. Whole(prog, Len(input), Below, end, "fail", Len(found))
  BY <1>1, Answers
<1>3. /\ found' \in Seq(FoundIn(prog)) /\ end' \in 0..Len(input) /\ enclosing' \in Seq(Nat)
      /\ prog' = prog /\ input' = input /\ pos' \in 0..end'
  BY <1>1 DEF Shape, Typed
<1> QED BY <1>1, <1>2, <1>3, Keeps DEF Return, Signals

(* The end of a loop keeps the shape.                                      *)
LEMMA OccurrencesEndShape ==
  ASSUME Shape, OccurrencesEnd
  PROVE  Shape'
<1>1. /\ calls # <<>> /\ Top.op = "occurrences" /\ \E r \in {"fail", "absent", "ok"} : Return(r)
      /\ found' = found \/ found' = Append(found, Empty(Top.node))
      /\ UNCHANGED <<prog, input, pos, end, enclosing>>
  <2>1. calls # <<>> /\ Top.op = "occurrences"
        /\ UNCHANGED <<prog, input, pos, end, enclosing>>
    BY DEF OccurrencesEnd, In
  <2>2. \E r \in {"fail", "absent", "ok"} : Return(r)
    BY DEF OccurrencesEnd
  <2>3. found' = found \/ found' = Append(found, Empty(Top.node))
    BY DEF OccurrencesEnd
  <2> QED BY <2>1, <2>2, <2>3
<1>2. PICK r \in {"fail", "absent", "ok"} : Return(r)
  BY <1>1
<1>3. /\ Len(found) \in Nat /\ Top.node \in DOMAIN prog /\ Keeping(Below, Len(found))
      /\ Stack(prog, Len(input), calls, end) /\ Top = Up(calls) /\ Below = Rest(calls)
  BY <1>1, ShapeFacts
<1>4. found \in Seq(FoundIn(prog)) /\ Empty(Top.node) \in FoundIn(prog)
  <2>1. <<>> \in Seq(Tokens)
    OBVIOUS
  <2> QED BY <1>3, <2>1, EventFacts DEF Shape, Typed
<1>5. found' \in Seq(FoundIn(prog)) /\ Len(found') \in Nat /\ Len(found) <= Len(found')
  BY <1>1, <1>3, <1>4, AppendProperties, LenProperties
<1>6. Keeping(Below, Len(found'))
  BY <1>1, <1>3, <1>5, RestFacts, KeepMore DEF Stack
<1>7. Whole(prog, Len(input), Below, end, r, Len(found'))
  BY <1>1, <1>3, <1>6, WholeReturn
<1>8. /\ end' \in 0..Len(input) /\ enclosing' \in Seq(Nat)
      /\ prog' = prog /\ input' = input /\ pos' \in 0..end'
  BY <1>1 DEF Shape, Typed
<1> QED BY <1>1, <1>2, <1>5, <1>7, <1>8, Keeps DEF Return, Signals

(* A round of a loop on top, that keeps what was found and adds an item of *)
(* it or not, keeps the shape.                                             *)
LEMMA RoundShape ==
  ASSUME Shape, In("occurrences"), NEW a, LoopAt(a), a.node = Top.node, NEW d \in Nat,
         NEW kept \in Seq(FoundIn(prog)), Keeping(Below, Len(kept)),
         NEW item \in Seq(FoundIn(prog)), found' \in {kept, kept \o item},
         Goes(a, d) \/ \E r \in {"ok", "absent", "empty", "fail"} : Returns(r),
         pos' \in 0..end, UNCHANGED <<prog, input, end, enclosing>>
  PROVE  Shape'
<1>1. calls # <<>>
  BY DEF In
<1>2. Stack(prog, Len(input), calls, end) /\ Below = Rest(calls)
  BY <1>1, ShapeFacts
<1>3. found' \in Seq(FoundIn(prog)) /\ Len(found') \in Nat /\ Len(kept) <= Len(found') /\ Len(kept) \in Nat
  <2> DEFINE F == FoundIn(prog)
             both == kept \o item
  <2>1. both \in Seq(F) /\ Len(both) = Len(kept) + Len(item)
    BY ConcatProperties
  <2>2. Len(kept) \in Nat /\ Len(item) \in Nat /\ kept \in Seq(F)
    BY LenProperties
  <2>3. found' \in {kept, both}
    OBVIOUS
  <2> HIDE DEF F, both
  <2>4. found' \in Seq(F) /\ Len(found') \in Nat /\ Len(kept) <= Len(found')
    BY <2>1, <2>2, <2>3
  <2> QED BY <2>2, <2>4 DEF F
<1>4. Keeping(Below, Len(found'))
  BY <1>1, <1>2, <1>3, RestFacts, KeepMore DEF Stack
<1>5. Whole(prog, Len(input), calls', end, signal', Len(found')) /\ signal' \in Signals
  BY <1>3, <1>4, LoopResult
<1>6. /\ end' \in 0..Len(input) /\ enclosing' \in Seq(Nat) /\ end' = end
      /\ prog' = prog /\ input' = input /\ pos' \in 0..end'
  BY DEF Shape, Typed
<1> QED BY <1>1, <1>3, <1>5, <1>6, Keeps

(* What an item comes to keeps the shape: it is taken, or what was found   *)
(* before it is kept.                                                      *)
LEMMA DecodedShape ==
  ASSUME Shape, In("occurrences"), NEW a, LoopAt(a), a.node = Top.node,
         NEW kept \in Seq(FoundIn(prog)), Keeping(Below, Len(kept)),
         NEW item \in Seq(FoundIn(prog)), NEW t, NEW p \in 0..end,
         \/ \E empty : Decoded(a, t, p, empty, kept, item)
         \/ \E r \in {"absent", "empty", "fail"} : Failed(a, t, p, r, kept),
         UNCHANGED <<prog, input, end, enclosing>>
  PROVE  Shape'
<1>1. IsProgram(prog) /\ end \in Nat
  BY ShapeFacts DEF In
<1>2. ASSUME NEW empty, Decoded(a, t, p, empty, kept, item) PROVE Shape'
  <2>1. /\ pos' \in 0..end
        /\ \/ Goes(a, 1) /\ found' = kept \o item
           \/ Goes(a, 0) /\ found' = kept
           \/ Returns("fail") /\ found' \in {kept, kept \o item}
    BY <1>1, <1>2, DecodedResult
  <2>2. CASE Goes(a, 1) /\ found' = kept \o item
    BY <2>1, <2>2, RoundShape
  <2>3. CASE Goes(a, 0) /\ found' = kept
    BY <2>1, <2>3, RoundShape
  <2>4. CASE Returns("fail") /\ found' \in {kept, kept \o item}
    BY <2>1, <2>4, RoundShape
  <2> QED BY <2>1, <2>2, <2>3, <2>4
<1>3. ASSUME NEW r \in {"absent", "empty", "fail"}, Failed(a, t, p, r, kept) PROVE Shape'
  <2>1. /\ pos' \in 0..end /\ found' = kept
        /\ Goes(a, 0) \/ Returns("absent") \/ Returns("fail") \/ Returns("empty")
    BY <1>1, <1>3, FailedResult
  <2> QED BY <2>1, RoundShape
<1> QED BY <1>2, <1>3

(* An empty slot keeps the shape.                                          *)
LEMMA AtSlotShape ==
  ASSUME Shape, AtSlot
  PROVE  Shape'
<1> DEFINE r == Ready(Top)
           a == Started(Top, r.pos)
           e == Item(a.node, <<>>)
<1>1. /\ In("occurrences") /\ UNCHANGED <<prog, input, end, enclosing>>
      /\ \/ GoOn(a, r.taken, r.pos, 0) /\ found' = found
         \/ GoOn(a, r.taken, r.pos, 1) /\ found' = Append(found, e)
  BY Zenon DEF AtSlot, Round
<1>2. /\ r.pos \in pos..end /\ LoopAt(a) /\ a.node = Top.node
  BY <1>1, RoundFacts
<1>3. /\ IsProgram(prog) /\ end \in Nat /\ pos \in 0..end /\ Top.node \in DOMAIN prog
      /\ Keeping(Below, Len(found))
  BY <1>1, ShapeFacts DEF In
<1>4. found \in Seq(FoundIn(prog)) /\ e \in FoundIn(prog)
  <2>1. <<>> \in Seq(Tokens)
    OBVIOUS
  <2> QED BY <1>2, <1>3, <2>1, EventFacts DEF Shape, Typed
<1> HIDE DEF a, r, e
<1>5. r.pos \in 0..end
  BY <1>2, <1>3
<1>6. <<e>> \in Seq(FoundIn(prog)) /\ Append(found, e) = found \o <<e>>
  BY <1>4
<1>7. CASE GoOn(a, r.taken, r.pos, 0) /\ found' = found
  <2>1. pos' \in 0..end /\ (Goes(a, 0) \/ Returns("fail"))
    BY <1>2, <1>3, <1>5, <1>7, GoOnResult
  <2> QED BY <1>1, <1>2, <1>3, <1>4, <1>6, <1>7, <2>1, RoundShape
<1>8. CASE GoOn(a, r.taken, r.pos, 1) /\ found' = Append(found, e)
  <2>1. pos' \in 0..end /\ (Goes(a, 1) \/ Returns("fail"))
    BY <1>2, <1>3, <1>5, <1>8, GoOnResult
  <2> QED BY <1>1, <1>2, <1>3, <1>4, <1>6, <1>8, <2>1, RoundShape
<1> QED BY <1>1, <1>7, <1>8

(* A field: the text is within the data, and so is the place after it.     *)
LEMMA FieldFacts ==
  ASSUME Shape, NEW p \in 0..end, NEW q \in p..end
  PROVE  SubSeq(input, p + 1, q) \in Seq(Tokens)
<1>1. input \in Seq(Tokens) /\ end \in 0..Len(input) /\ Len(input) \in Nat
  BY LenProperties DEF Shape, Typed
<1>2. \A i \in (p + 1)..q : input[i] \in Tokens
  BY <1>1
<1> QED BY <1>1, <1>2, SubSeqProperties

(* A field keeps the shape.                                                *)
LEMMA DecodeFieldShape ==
  ASSUME Shape, DecodeField
  PROVE  Shape'
<1> DEFINE r == Ready(Top)
           a == Started(Top, r.pos)
           q == IF Node.kind \in Calcs THEN r.pos ELSE ScanEnd(a.node, a.stops, r.pos)
           text == SubSeq(input, r.pos + 1, q)
           z == IF Node.kind \in Calcs THEN q ELSE Past(Node.term, q)
           e == Item(a.node, text)
<1>1. /\ In("occurrences") /\ UNCHANGED <<prog, input, end, enclosing>>
      /\ \/ Failed(a, r.taken, q, "fail", found)
         \/ Failed(a, r.taken, q, "empty", found)
         \/ Decoded(a, r.taken, z, Node.kind = "text" /\ text = <<>>, found, <<e>>)
  BY Zenon DEF DecodeField, Round
<1>2. r.pos \in pos..end /\ LoopAt(a) /\ a.node = Top.node
  BY <1>1, RoundFacts
<1>3. /\ IsProgram(prog) /\ end \in Nat /\ pos \in 0..end /\ Top.node \in DOMAIN prog
      /\ Keeping(Below, Len(found)) /\ Node = prog[Top.node]
  BY <1>1, ShapeFacts DEF In
<1>4. r.pos \in 0..end
  BY <1>2, <1>3
<1>5. q \in r.pos..end
  <2> HIDE DEF r, a
  <2>1. ScanEnd(a.node, a.stops, r.pos) \in r.pos..end
    BY <1>3, <1>4, ScanEndIn
  <2> QED BY <1>3, <1>4, <2>1
<1> HIDE DEF r, a, q
<1>6. q \in 0..end /\ text \in Seq(Tokens)
  <2>1. q \in 0..end
    BY <1>3, <1>4, <1>5
  <2>2. text \in Seq(Tokens)
    BY <1>4, <1>5, FieldFacts
  <2> QED BY <2>1, <2>2
<1>7. z \in 0..end
  <2>1. Len(Node.term) \in Nat
    BY <1>3, NodeFacts, LenProperties
  <2>2. Past(Node.term, q) \in q..end
    BY <1>3, <1>6, <2>1, PastIn
  <2> QED BY <1>6, <2>2
<1> HIDE DEF z, text
<1>8. found \in Seq(FoundIn(prog)) /\ <<e>> \in Seq(FoundIn(prog))
  <2>1. e \in FoundIn(prog)
    BY <1>2, <1>3, <1>6, EventFacts
  <2> QED BY <2>1 DEF Shape, Typed
<1> HIDE DEF e
<1>9. CASE Failed(a, r.taken, q, "fail", found) \/ Failed(a, r.taken, q, "empty", found)
  BY <1>1, <1>2, <1>3, <1>6, <1>8, <1>9, DecodedShape
<1>10. CASE Decoded(a, r.taken, z, Node.kind = "text" /\ text = <<>>, found, <<e>>)
  BY <1>1, <1>2, <1>3, <1>7, <1>8, <1>10, DecodedShape
<1> QED BY <1>1, <1>9, <1>10

----------------------------------------------------------------------------
(* Complex elements.                                                       *)

(* The sequence of a complex element.                                      *)
LEMMA SequenceOf ==
  ASSUME NEW p, IsProgram(p), NEW n \in DOMAIN p, p[n].kind = "complex"
  PROVE  p[n].kids[1] \in DOMAIN p /\ p[p[n].kids[1]].kind = "sequence"
<1>1. Len(p[n].kids) = 1 /\ p[p[n].kids[1]].kind = "sequence"
  BY DEF IsProgram
<1>2. 1 \in 1..Len(p[n].kids)
  BY <1>1
<1> QED BY <1>1, <1>2, NodeFacts

(* The frame of a complex element.                                         *)
LEMMA ComplexFrame ==
  ASSUME Shape, NEW n \in DOMAIN prog, prog[n].kind = "complex", NEW bounded \in BOOLEAN,
         NEW resume \in 0..end, NEW sep \in BOOLEAN
  PROVE  LET d == Complex(n, bounded, resume, sep) IN
         /\ Good(prog, Len(input), d) /\ d.op = "complex" /\ d.node = n /\ d.end = end
         /\ d.bounded = bounded /\ d.resume = resume /\ d.sep = sep
<1> DEFINE d == Complex(n, bounded, resume, sep)
<1>1. IsProgram(prog) /\ end \in 0..Len(input) /\ input \in Seq(Tokens)
  BY ProgramsAssumption DEF Shape, Typed
<1>2. n \in Nat /\ end \in Nat /\ Len(input) \in Nat /\ end <= Len(input) /\ resume \in Nat
  BY <1>1, NodeFacts, LenProperties
<1>3. /\ d \in ComplexFrames /\ d.op = "complex" /\ d.node = n /\ d.end = end
      /\ d.bounded = bounded /\ d.resume = resume /\ d.sep = sep
  BY <1>2 DEF Complex, ComplexFrames
<1> HIDE DEF d
<1>4. GoodComplex(prog, Len(input), d)
  BY <1>2, <1>3 DEF GoodComplex
<1>5. Good(prog, Len(input), d)
  BY <1>3, <1>4 DEF Good
<1>6. /\ Good(prog, Len(input), d) /\ d.op = "complex" /\ d.node = n /\ d.end = end
      /\ d.bounded = bounded /\ d.resume = resume /\ d.sep = sep
  BY <1>3, <1>5
<1> QED BY <1>6 DEF d

(* The frame of a loop whose item is complex.                              *)
LEMMA CallingLoop ==
  ASSUME Shape, In("occurrences"), NEW a, LoopAt(a), a.node = Top.node, Node.kind = "complex"
  PROVE  LET b == [a EXCEPT !.called = TRUE, !.keep = Len(found)] IN
         /\ Good(prog, Len(input), b) /\ b.op = "occurrences" /\ b.node = Top.node
         /\ CalledLoop(b) /\ b.keep = Len(found) /\ b.n = a.n
         /\ b.start = a.start /\ b.before = a.before /\ b.parent = a.parent
<1> DEFINE b == [a EXCEPT !.called = TRUE, !.keep = Len(found)]
           k == Len(found)
<1>1. PICK yes \in BOOLEAN : yes = TRUE
  OBVIOUS
<1>2. /\ k \in Nat /\ end \in Nat /\ Node = prog[Top.node] /\ Top.node \in DOMAIN prog
  BY ShapeFacts DEF In
<1>3. b = CallsWith(a, k, yes)
  BY <1>1, Zenon DEF CallsWith
<1> HIDE DEF b, k
<1>4. LET x == CallsWith(a, k, yes) IN
      Alike(a, x) /\ x.n = a.n /\ x.start = a.start /\ (x.called <=> yes) /\ x.keep = k
  BY <1>1, <1>2, CallsFrame DEF LoopAt
<1>5. Alike(a, b) /\ b.n = a.n /\ b.start = a.start /\ b.called /\ b.keep = k
  BY <1>1, <1>3, <1>4
<1>6. /\ b \in LoopFrames /\ b.node = Top.node /\ b.parent = a.parent /\ b.before = a.before
      /\ b.probe = a.probe
  BY <1>5 DEF Alike
<1>7. b.op = "occurrences"
  BY <1>6 DEF LoopFrames
<1>8. GoodLoop(prog, b)
  <2>1. b.start \in 0..end /\ b.parent \in DOMAIN prog /\ (b.probe => b.n >= prog[b.node].min)
    BY <1>5, <1>6 DEF LoopAt
  <2>2. b.start >= -1 /\ b.start >= 0
    BY <1>2, <2>1
  <2> QED BY <1>2, <1>6, <2>1, <2>2 DEF GoodLoop
<1>9. Good(prog, Len(input), b) /\ CalledLoop(b)
  BY <1>2, <1>5, <1>6, <1>7, <1>8 DEF Good, CalledLoop
<1>10. /\ Good(prog, Len(input), b) /\ b.op = "occurrences" /\ b.node = Top.node
       /\ CalledLoop(b) /\ b.keep = k /\ b.n = a.n
       /\ b.start = a.start /\ b.before = a.before /\ b.parent = a.parent
  BY <1>5, <1>6, <1>7, <1>9
<1> QED BY <1>10 DEF b, k

(* A loop enters a complex element.                                        *)
LEMMA Enters ==
  ASSUME Shape, In("occurrences"), NEW a, LoopAt(a), a.node = Top.node, Node.kind = "complex",
         NEW bounded \in BOOLEAN, NEW resume \in 0..end, NEW sep \in BOOLEAN,
         NEW stops \in Seq(Nat), NEW f \in Nat, bounded \/ f = end,
         bounded => Postfix(a.parent) /\ (sep => a.start < resume)
  PROVE  Whole(prog, Len(input),
               Below \o <<[a EXCEPT !.called = TRUE, !.keep = Len(found)],
                          Complex(a.node, bounded, resume, sep), Sequence(Node.kids[1], 0, stops)>>,
               f, "run", Len(found) + 1)
<1> DEFINE b == [a EXCEPT !.called = TRUE, !.keep = Len(found)]
           d == Complex(a.node, bounded, resume, sep)
           s == Sequence(Node.kids[1], 0, stops)
<1>1. /\ IsProgram(prog) /\ end \in Nat /\ Top.node \in DOMAIN prog /\ Node = prog[Top.node]
      /\ Stack(prog, Len(input), calls, end) /\ Below = Rest(calls) /\ Top = Up(calls)
      /\ Len(found) \in Nat /\ Keeping(Below, Len(found)) /\ calls # <<>> /\ Top.op = "occurrences"
  BY ShapeFacts DEF In
<1>2. Node.kids[1] \in DOMAIN prog /\ prog[Node.kids[1]].kind = "sequence"
  BY <1>1, SequenceOf
<1>3. Good(prog, Len(input), s) /\ Running(s, f)
  <2>1. Good(prog, Len(input), s)
    BY <1>2, NewFrames
  <2>2. Running(s, f)
    BY DEF Running, Sequence
  <2> QED BY <2>1, <2>2
<1>4. s.op = "sequence" /\ s.node = Node.kids[1]
  BY DEF Sequence
<1>5. /\ Good(prog, Len(input), d) /\ d.op = "complex" /\ d.node = Top.node /\ d.end = end
      /\ d.bounded = bounded /\ d.resume = resume /\ d.sep = sep
  BY <1>1, ComplexFrame
<1>6. /\ Good(prog, Len(input), b) /\ b.op = "occurrences" /\ b.node = Top.node
      /\ CalledLoop(b) /\ b.keep = Len(found)
      /\ b.start = a.start /\ b.before = a.before /\ b.parent = a.parent
  BY CallingLoop
<1> HIDE DEF b, d, s
<1>7. Calls(prog, b, d)
  <2>1. a.start \in 0..end /\ a.before \in 0..end /\ a.parent \in DOMAIN prog
    BY DEF LoopAt
  <2>2. b.start <= d.end /\ b.before <= d.end
    BY <1>1, <1>5, <1>6, <2>1
  <2>3. d.bounded => /\ prog[b.parent].sep # NoDelim /\ prog[b.parent].at = "postfix"
                     /\ d.sep => b.start < d.resume
    <3>1. a.parent # 0
      BY <1>1, <2>1, NodeFacts
    <3> QED BY <1>5, <1>6, <3>1 DEF Postfix, Sep
  <2> QED BY <1>5, <1>6, <2>2, <2>3 DEF Calls, CalledLoop
<1>8. Calls(prog, d, s)
  BY <1>1, <1>4, <1>5 DEF Calls
<1>9. d.bounded \/ f = end
  BY <1>5
<1>10. Whole(prog, Len(input), Rest(calls) \o <<b, d, s>>, f, "run", Len(found) + 1)
  BY <1>1, <1>3, <1>5, <1>6, <1>7, <1>8, <1>9, WholeEnter
<1>11. Below \o <<b, d, s>> = Rest(calls) \o <<b, d, s>>
  BY <1>1
<1> QED BY <1>10, <1>11 DEF b, d, s

(* The events after a complex element begins.                              *)
LEMMA OpenFacts ==
  ASSUME Shape, NEW n \in DOMAIN prog, found' = Append(found, Open(n))
  PROVE  found' \in Seq(FoundIn(prog)) /\ Len(found') = Len(found) + 1
<1>1. found \in Seq(FoundIn(prog)) /\ Open(n) \in FoundIn(prog)
  <2>1. <<>> \in Seq(Tokens)
    OBVIOUS
  <2> QED BY <2>1, EventFacts DEF Shape, Typed
<1> QED BY <1>1, AppendProperties

(* A complex element without a bound keeps the shape.                      *)
LEMMA DecodeComplexShape ==
  ASSUME Shape, DecodeComplex
  PROVE  Shape'
<1> DEFINE r == Ready(Top)
           a == Started(Top, r.pos)
           stops == IF Term(a.node) = NoDelim THEN a.stops ELSE Append(a.stops, a.node)
<1>1. /\ In("occurrences") /\ Node.kind = "complex" /\ UNCHANGED <<prog, input, end>>
      /\ pos' = r.pos /\ signal' = "run" /\ enclosing' = Append(enclosing, a.node)
      /\ found' = Append(found, Open(a.node))
      /\ calls' = Below \o <<[a EXCEPT !.called = TRUE, !.keep = Len(found)],
                             Complex(a.node, FALSE, 0, FALSE),
                             Sequence(Node.kids[1], 0, stops)>>
  BY Zenon DEF DecodeComplex, Round
<1>2. r.pos \in pos..end /\ LoopAt(a) /\ a.node = Top.node /\ a.stops \in Seq(Nat)
  BY <1>1, RoundFacts
<1>3. end \in Nat /\ pos \in 0..end /\ Top.node \in DOMAIN prog /\ Top.node \in Nat
  BY <1>1, ShapeFacts DEF In
<1> HIDE DEF r, a
<1>4. stops \in Seq(Nat)
  BY <1>2, <1>3, AppendProperties
<1>5. PICK no \in BOOLEAN : no = FALSE
  OBVIOUS
<1> HIDE DEF stops
<1>6. Whole(prog, Len(input),
            Below \o <<[a EXCEPT !.called = TRUE, !.keep = Len(found)],
                       Complex(a.node, no, 0, no), Sequence(Node.kids[1], 0, stops)>>,
            end, "run", Len(found) + 1)
  <2>1. 0 \in 0..end /\ ~no
    BY <1>3, <1>5
  <2> QED BY <1>1, <1>2, <1>3, <1>4, <1>5, <2>1, Enters
<1>7. Complex(a.node, no, 0, no) = Complex(a.node, FALSE, 0, FALSE)
  BY <1>5, Zenon
<1>8. found' \in Seq(FoundIn(prog)) /\ Len(found') = Len(found) + 1
  BY <1>1, <1>2, <1>3, OpenFacts
<1>9. /\ end' \in 0..Len(input) /\ enclosing' \in Seq(Nat)
      /\ prog' = prog /\ input' = input /\ pos' \in 0..end'
  <2>1. end \in 0..Len(input) /\ enclosing \in Seq(Nat)
    BY DEF Shape, Typed
  <2> QED BY <1>1, <1>2, <1>3, <2>1, AppendProperties
<1>10. Whole(prog, Len(input), calls', end', signal', Len(found'))
  BY <1>1, <1>6, <1>7, <1>8
<1> QED BY <1>1, <1>8, <1>9, <1>10, Keeps DEF Signals

(* A bounded complex element keeps the shape.                              *)
LEMMA DecodeBoundedShape ==
  ASSUME Shape, DecodeBounded
  PROVE  Shape'
<1> DEFINE r == Ready(Top)
           a == Started(Top, r.pos)
           q == ScanEnd(a.parent, a.stops, r.pos)
           resume == Past(Sep(a.parent), q)
           absent == q = r.pos /\ FirstMin(Node.kids[1]) = 0
<1>1. /\ In("occurrences") /\ Node.kind = "complex" /\ Bounded(Top)
      /\ UNCHANGED <<prog, input, enclosing>>
  BY DEF DecodeBounded, Round
<1>2. \/ Failed(a, r.taken \/ resume > q, resume, "absent", found) /\ UNCHANGED end
      \/ /\ pos' = r.pos /\ end' = q /\ signal' = "run"
         /\ found' = Append(found, Open(a.node))
         /\ calls' = Below \o <<[a EXCEPT !.called = TRUE, !.keep = Len(found)],
                                Complex(a.node, TRUE, resume, resume > q),
                                Sequence(Node.kids[1], 0, <<>>)>>
  BY Zenon DEF DecodeBounded
<1>3. /\ r.pos \in pos..end /\ LoopAt(a) /\ a.node = Top.node /\ a.parent = Top.parent
      /\ a.start = r.pos
  BY <1>1, RoundFacts
<1>4. /\ IsProgram(prog) /\ end \in Nat /\ pos \in 0..end /\ Top.node \in DOMAIN prog
      /\ Keeping(Below, Len(found))
  BY <1>1, ShapeFacts DEF In
<1>5. a.parent \in DOMAIN prog
  BY <1>3 DEF LoopAt
<1> HIDE DEF r, a
<1>6. r.pos \in 0..end /\ q \in r.pos..end
  BY <1>3, <1>4, ScanEndIn
<1>7. resume \in q..end
  <2>1. q \in 0..end
    BY <1>4, <1>6
  <2> QED BY <1>4, <1>5, <2>1, DelimiterFacts, PastIn
<1> HIDE DEF q, resume
<1>8. q \in 0..end /\ resume \in 0..end /\ q \in Nat
  BY <1>4, <1>6, <1>7
<1>9. CASE Failed(a, r.taken \/ resume > q, resume, "absent", found) /\ UNCHANGED end
  <2>1. found \in Seq(FoundIn(prog)) /\ <<>> \in Seq(FoundIn(prog))
    BY DEF Shape, Typed
  <2> DEFINE t == r.taken \/ resume > q
  <2>2. Failed(a, t, resume, "absent", found) /\ end' = end
    BY <1>9
  <2> HIDE DEF t
  <2> QED BY <1>1, <1>3, <1>4, <1>8, <2>1, <2>2, DecodedShape
<1>10. ASSUME pos' = r.pos, end' = q, signal' = "run",
              found' = Append(found, Open(a.node)),
              calls' = Below \o <<[a EXCEPT !.called = TRUE, !.keep = Len(found)],
                                  Complex(a.node, TRUE, resume, resume > q),
                                  Sequence(Node.kids[1], 0, <<>>)>>
       PROVE  Shape'
  <2> DEFINE more == resume > q
  <2>1. PICK yes \in BOOLEAN : yes = TRUE
    OBVIOUS
  <2>2. PICK sep \in {more} : TRUE
    OBVIOUS
  <2>3. sep = more /\ sep \in BOOLEAN /\ (sep <=> more)
    <3>1. more \in BOOLEAN
      BY <1>8
    <3>2. sep = more
      BY <2>2
    <3> HIDE DEF more
    <3> QED BY <3>1, <3>2
  <2>4. sep => a.start < resume
    BY <1>3, <1>4, <1>6, <1>7, <2>3
  <2>5. Postfix(a.parent)
    BY <1>1, <1>3 DEF Bounded
  <2>6. Complex(a.node, yes, resume, sep) = Complex(a.node, TRUE, resume, more)
    <3> HIDE DEF more
    <3> QED BY <2>1, <2>3, Zenon
  <2>7. Whole(prog, Len(input),
              Below \o <<[a EXCEPT !.called = TRUE, !.keep = Len(found)],
                         Complex(a.node, yes, resume, sep), Sequence(Node.kids[1], 0, <<>>)>>,
              q, "run", Len(found) + 1)
    <3>1. <<>> \in Seq(Nat)
      OBVIOUS
    <3> HIDE DEF more
    <3> QED BY <1>1, <1>3, <1>8, <2>1, <2>3, <2>4, <2>5, <3>1, Enters
  <2>8. found' \in Seq(FoundIn(prog)) /\ Len(found') = Len(found) + 1
    BY <1>3, <1>4, <1>10, OpenFacts
  <2>9. /\ end' \in 0..Len(input) /\ enclosing' \in Seq(Nat)
        /\ prog' = prog /\ input' = input /\ pos' \in 0..end'
    <3>1. end \in 0..Len(input) /\ enclosing \in Seq(Nat) /\ input \in Seq(Tokens)
      BY DEF Shape, Typed
    <3>2. Len(input) \in Nat
      BY <3>1, LenProperties
    <3> QED BY <1>1, <1>6, <1>8, <1>10, <3>1, <3>2
  <2>10. Whole(prog, Len(input), calls', end', signal', Len(found'))
    BY <1>10, <2>6, <2>7, <2>8
  <2> QED BY <1>10, <2>8, <2>9, <2>10, Keeps DEF Signals
<1> QED BY <1>2, <1>9, <1>10

(* The end of a complex element keeps the shape.                           *)
LEMMA ComplexEndsShape ==
  ASSUME Shape, ComplexEnds
  PROVE  Shape'
<1> DEFINE fits == IF Top.bounded THEN OnlySeparators(Sep(Node.kids[1]), pos)
                   ELSE Node.term = NoDelim \/ At(Node.term, pos) \/ pos = end
           answer == IF signal = "ok" /\ ~fits THEN "fail" ELSE signal
           f == IF Top.bounded THEN Top.end ELSE end
<1>1. /\ calls # <<>> /\ Top.op = "complex" /\ signal # "run" /\ Return(answer)
      /\ UNCHANGED <<prog, input, found>>
      /\ IF Top.bounded
         THEN /\ pos' = Top.resume /\ end' = Top.end /\ UNCHANGED enclosing
         ELSE /\ pos' = IF signal = "ok" THEN Past(Node.term, pos) ELSE pos
              /\ enclosing' = IF signal = "ok" THEN Front(enclosing) ELSE enclosing
              /\ end' = end
  BY Zenon DEF ComplexEnds, In
<1>2. /\ IsProgram(prog) /\ end \in Nat /\ pos \in 0..end /\ Top.node \in DOMAIN prog
      /\ Node = prog[Top.node] /\ Good(prog, Len(input), Top) /\ Len(input) \in Nat
      /\ Top = Up(calls) /\ Below = Rest(calls) /\ Keeping(Below, Len(found))
      /\ Stack(prog, Len(input), calls, end)
  BY <1>1, ShapeFacts
<1>3. GoodComplex(prog, Len(input), Top)
  BY <1>1, <1>2, GoodOps
<1>4. /\ Top.resume \in Nat /\ Top.end \in Nat /\ Top.resume <= Top.end /\ Top.end <= Len(input)
  BY <1>3 DEF GoodComplex, ComplexFrames
<1>5. answer # "run" /\ answer \in Signals
  BY <1>1 DEF Shape, Typed, Signals
<1> HIDE DEF answer, fits
<1>6. end' = f
  BY <1>1
<1>7. Whole(prog, Len(input), Rest(calls), f, answer, Len(found))
  <2>1. IF Up(calls).op = "complex" /\ Up(calls).bounded THEN f = Up(calls).end ELSE f = end
    BY <1>1, <1>2
  <2> HIDE DEF f
  <2> QED BY <1>1, <1>2, <1>5, <2>1, WholeReturn
<1>8. pos' \in 0..end' /\ end' \in 0..Len(input)
  <2>1. CASE Top.bounded
    BY <1>1, <1>4, <2>1
  <2>2. CASE ~Top.bounded
    <3>1. Len(Node.term) \in Nat
      BY <1>2, NodeFacts, LenProperties
    <3>2. Past(Node.term, pos) \in pos..end
      BY <1>2, <3>1, PastIn
    <3>3. end \in 0..Len(input)
      BY DEF Shape, Typed
    <3> QED BY <1>1, <1>2, <2>2, <3>2, <3>3
  <2> QED BY <2>1, <2>2
<1>9. enclosing' \in Seq(Nat)
  <2>1. enclosing \in Seq(Nat) /\ Len(enclosing) \in Nat
    BY LenProperties DEF Shape, Typed
  <2>2. Front(enclosing) \in Seq(Nat)
    BY <2>1, SubSeqProperties DEF Front
  <2> QED BY <1>1, <2>1, <2>2
<1>10. found' \in Seq(FoundIn(prog)) /\ prog' = prog /\ input' = input
  BY <1>1 DEF Shape, Typed
<1>11. Whole(prog, Len(input), calls', end', signal', Len(found')) /\ signal' \in Signals
  BY <1>1, <1>2, <1>5, <1>6, <1>7 DEF Return
<1> QED BY <1>8, <1>9, <1>10, <1>11, Keeps

(* The place of the item of a loop that has called, and what was found     *)
(* before it.                                                              *)
LEMMA ItemFacts ==
  ASSUME Shape, In("occurrences"), Top.called
  PROVE  /\ LoopAt(Top) /\ CalledLoop(Top) /\ GoodLoop(prog, Top) /\ Top.keep \in Nat
         /\ SubSeq(found, 1, Top.keep) \in Seq(FoundIn(prog))
         /\ Len(SubSeq(found, 1, Top.keep)) = Top.keep /\ Keeping(Below, Top.keep)
         /\ Top.keep < Len(found)
         /\ \A k \in 1..Top.keep : SubSeq(found, 1, Top.keep)[k] = found[k]
         /\ SubSeq(found, Top.keep + 1, Len(found)) \in Seq(FoundIn(prog))
         /\ SubSeq(found, 1, Top.keep) \o SubSeq(found, Top.keep + 1, Len(found)) = found
<1>1. calls # <<>> /\ Top.op = "occurrences" /\ CalledLoop(Top)
  BY DEF In, CalledLoop
<1>2. /\ IsProgram(prog) /\ end \in Nat /\ Top.node \in DOMAIN prog /\ Good(prog, Len(input), Top)
      /\ Top = Up(calls) /\ Within(calls, end) /\ Len(calls) > 0
      /\ Keeping(Below, Top.keep) /\ Top.keep < Len(found) /\ Top.keep \in Nat /\ Len(found) \in Nat
  BY <1>1, ShapeFacts
<1>3. GoodLoop(prog, Top)
  BY <1>1, <1>2, GoodOps
<1>4. LoopAt(Top)
  <2>1. Top.before <= end /\ Top.start <= end
    BY <1>1, <1>2 DEF Within
  <2>2. /\ Top.start >= 0 /\ Top \in LoopFrames /\ Top.parent \in DOMAIN prog
        /\ Top.probe => Top.n >= prog[Top.node].min
    BY <1>1, <1>3 DEF GoodLoop, CalledLoop
  <2>3. Top.before \in Nat /\ Top.start \in Int
    BY <2>2 DEF LoopFrames
  <2>4. Top.start \in 0..end /\ Top.before \in 0..end
    BY <1>2, <2>1, <2>2, <2>3
  <2> QED BY <1>2, <2>2, <2>4 DEF LoopAt
<1> DEFINE F == FoundIn(prog)
           x == SubSeq(found, 1, Top.keep)
           y == SubSeq(found, Top.keep + 1, Len(found))
           m == Top.keep
           n == Len(found)
<1>5. found \in Seq(F) /\ m \in Nat /\ n \in Nat /\ m < n
  BY <1>2 DEF Shape, Typed
<1> HIDE DEF F, m
<1>6. x \in Seq(F) /\ Len(x) = m /\ \A k \in 1..m : x[k] = found[k]
  <2>1. \A k \in 1..m : found[k] \in F
    BY <1>5
  <2>2. /\ SubSeq(found, 1, m) \in Seq(F)
        /\ Len(SubSeq(found, 1, m)) = IF 1 <= m THEN m - 1 + 1 ELSE 0
        /\ \A k \in 1..(m - 1 + 1) : SubSeq(found, 1, m)[k] = found[1 + k - 1]
    BY <1>5, <2>1, SubSeqProperties
  <2> DEFINE z == SubSeq(found, 1, m)
  <2> HIDE DEF z
  <2>3. Len(z) = m /\ \A k \in 1..m : z[k] = found[k]
    BY <1>5, <2>2 DEF z
  <2> QED BY <2>2, <2>3 DEF m, z
<1>7. y \in Seq(F) /\ Len(y) = n - m /\ \A k \in 1..(n - m) : y[k] = found[m + k]
  <2>1. \A k \in (m + 1)..n : found[k] \in F
    BY <1>5
  <2>2. /\ SubSeq(found, m + 1, n) \in Seq(F)
        /\ Len(SubSeq(found, m + 1, n)) = IF m + 1 <= n THEN n - (m + 1) + 1 ELSE 0
        /\ \A k \in 1..(n - (m + 1) + 1) : SubSeq(found, m + 1, n)[k] = found[(m + 1) + k - 1]
    BY <1>5, <2>1, SubSeqProperties
  <2> DEFINE z == SubSeq(found, m + 1, n)
  <2> HIDE DEF z
  <2>3. Len(z) = n - m /\ \A k \in 1..(n - m) : z[k] = found[m + k]
    BY <1>5, <2>2 DEF z
  <2> QED BY <2>2, <2>3 DEF m, z
<1> HIDE DEF x, y
<1>8. x \o y = found
  <2> DEFINE z == x \o y
  <2>1. /\ z \in Seq(F) /\ Len(z) = Len(x) + Len(y)
        /\ \A k \in 1..(Len(x) + Len(y)) : z[k] = IF k <= Len(x) THEN x[k] ELSE y[k - Len(x)]
    <3>1. x \in Seq(F) /\ y \in Seq(F)
      BY <1>6, <1>7
    <3> QED BY <3>1, ConcatProperties
  <2> HIDE DEF z
  <2>2. Len(z) = n /\ \A k \in 1..n : z[k] = found[k]
    <3>1. Len(z) = n
      BY <1>5, <1>6, <1>7, <2>1
    <3>2. ASSUME NEW k \in 1..n PROVE z[k] = found[k]
      <4>1. CASE k <= m
        BY <4>1, <1>5, <1>6, <1>7, <2>1
      <4>2. CASE ~(k <= m)
        <5>1. k - m \in 1..(n - m) /\ m + (k - m) = k
          BY <4>2, <1>5
        <5>2. z[k] = y[k - m]
          BY <4>2, <1>5, <1>6, <1>7, <2>1
        <5> QED BY <5>1, <5>2, <1>7
      <4> QED BY <4>1, <4>2
    <3> QED BY <3>1, <3>2
  <2>3. z = found
    BY <1>5, <2>1, <2>2, SeqEqual
  <2> QED BY <2>3 DEF z
<1> QED BY <1>1, <1>2, <1>3, <1>4, <1>6, <1>7, <1>8 DEF x, y, F, m

(* The answer of a complex item keeps the shape.                           *)
LEMMA ComplexItemShape ==
  ASSUME Shape, ComplexItem
  PROVE  Shape'
<1> DEFINE kept == SubSeq(found, 1, Top.keep)
           item == SubSeq(found, Top.keep + 1, Len(found))
<1>1. /\ In("occurrences") /\ signal # "run" /\ Top.called
      /\ UNCHANGED <<prog, input, end, enclosing>>
      /\ IF signal = "ok" THEN Decoded(Top, taken, pos, FALSE, kept, item)
         ELSE Failed(Top, taken, pos, signal, kept)
  BY DEF ComplexItem
<1>2. /\ LoopAt(Top) /\ kept \in Seq(FoundIn(prog)) /\ Len(kept) = Top.keep
      /\ Keeping(Below, Top.keep) /\ item \in Seq(FoundIn(prog))
  BY <1>1, ItemFacts
<1> HIDE DEF kept, item
<1>3. pos \in 0..end /\ signal \in Signals
  BY DEF Shape, Typed
<1>4. CASE signal = "ok"
  <2>1. \E empty : Decoded(Top, taken, pos, empty, kept, item)
    BY <1>1, <1>4
  <2> QED BY <1>1, <1>2, <1>3, <2>1, DecodedShape
<1>5. CASE signal # "ok"
  <2>1. signal \in {"absent", "empty", "fail"} /\ Failed(Top, taken, pos, signal, kept)
    BY <1>1, <1>3, <1>5 DEF Signals
  <2> QED BY <1>1, <1>2, <1>3, <2>1, DecodedShape
<1> QED BY <1>4, <1>5

(* A decode begins.                                                        *)
LEMMA BeginWhole ==
  ASSUME NEW p, IsProgram(p), NEW m, NEW e \in Nat, NEW n
  PROVE  Whole(p, m, <<Sequence(1, 0, <<>>)>>, e, "run", n)
<1> DEFINE b == Sequence(1, 0, <<>>)
           c == <<b>>
<1>1. p \in Seq(Nodes) /\ p # <<>> /\ p[1].kind = "sequence"
  BY DEF IsProgram
<1>2. 1 \in DOMAIN p
  <2>1. Len(p) \in Nat /\ Len(p) # 0
    BY <1>1, EmptySeq, LenProperties
  <2> QED BY <1>1, <2>1
<1>3. Len(p[1].kids) \in Nat
  BY <1>2, NodeFacts
<1>4. /\ b \in SequenceFrames /\ b.op = "sequence" /\ b.node = 1 /\ b.i = 1 /\ ~b.called
  <2>1. <<>> \in Seq(Nat)
    OBVIOUS
  <2> QED BY <2>1 DEF Sequence, SequenceFrames
<1> HIDE DEF b
<1>5. Good(p, m, b)
  <2>1. GoodSequence(p, b)
    BY <1>1, <1>3, <1>4 DEF GoodSequence
  <2> QED BY <1>2, <1>4, <2>1 DEF Good
<1>6. c \in Seq(Frames) /\ Len(c) = 1 /\ c[1] = b
  <2>1. b \in Frames
    BY <1>5, GoodOps
  <2> QED BY <2>1
<1> HIDE DEF c
<1>7. Up(c) = b
  BY <1>6 DEF Up
<1>8. Stack(p, m, c, e)
  BY <1>4, <1>5, <1>6 DEF Stack, Ends
<1>9. Answered(c, "run") /\ Within(c, e)
  BY <1>4, <1>7 DEF Answered, Within
<1>10. Keeping(c, n)
  BY <1>4, <1>6 DEF Keeping, CalledLoop
<1>11. Whole(p, m, c, e, "run", n)
  BY <1>8, <1>9, <1>10 DEF Whole
<1> QED BY <1>11 DEF b, c

(* A first decode and another one.                                         *)
LEMMA DecodeAgainShape ==
  ASSUME Shape, DecodeAgain
  PROVE  Shape'
<1>1. IsProgram(prog) /\ input \in Seq(Tokens) /\ enclosing \in Seq(Nat)
  BY ProgramsAssumption DEF Shape, Typed
<1>2. Len(input) \in Nat
  BY <1>1, LenProperties
<1>3. /\ calls' = <<Sequence(1, 0, <<>>)>> /\ signal' = "run" /\ pos' = 0 /\ found' = <<>>
      /\ end' = Len(input) /\ UNCHANGED <<prog, input, enclosing>>
  BY DEF DecodeAgain
<1>4. Whole(prog, Len(input), calls', end', signal', Len(found'))
  BY <1>1, <1>2, <1>3, BeginWhole
<1>5. found' \in Seq(FoundIn(prog)) /\ signal' \in Signals /\ pos' \in 0..end'
      /\ end' \in 0..Len(input) /\ enclosing' \in Seq(Nat) /\ prog' = prog /\ input' = input
  BY <1>1, <1>2, <1>3 DEF Signals
<1> QED BY <1>4, <1>5, Keeps

(* A decode that has not begun has the sequence of the root only.          *)
LEMMA InitShape ==
  ASSUME Init
  PROVE  Shape
<1>1. prog \in Programs /\ IsProgram(prog)
  BY ProgramsAssumption DEF Init
<1>2. input \in Seq(Tokens)
  BY <1>1, InputsAssumption, SamplesAssumption DEF Init
<1>3. Len(input) \in Nat
  BY <1>2, LenProperties
<1>4. /\ calls = <<Sequence(1, 0, <<>>)>> /\ signal = "run" /\ pos = 0 /\ found = <<>>
      /\ end = Len(input) /\ enclosing = <<>>
  BY DEF Init, Begin
<1>5. Whole(prog, Len(input), calls, end, signal, Len(found))
  BY <1>1, <1>3, <1>4, BeginWhole
<1>6. Typed
  BY <1>1, <1>2, <1>3, <1>4 DEF Typed, Signals
<1> QED BY <1>5, <1>6 DEF Shape

(* The shape of a state is kept by every step.                             *)
LEMMA NextShape ==
  ASSUME Shape, [Next]_vars
  PROVE  Shape'
<1>1. CASE SequenceStep BY <1>1, SequenceStepShape
<1>2. CASE SequenceChild BY <1>2, SequenceChildShape
<1>3. CASE SequenceEnds BY <1>3, SequenceEndsShape
<1>4. CASE SeparatorMissing BY <1>4, SeparatorMissingShape
<1>5. CASE AtSlot BY <1>5, AtSlotShape
<1>6. CASE DecodeField BY <1>6, DecodeFieldShape
<1>7. CASE DecodeBounded BY <1>7, DecodeBoundedShape
<1>8. CASE DecodeComplex BY <1>8, DecodeComplexShape
<1>9. CASE ComplexEnds BY <1>9, ComplexEndsShape
<1>10. CASE ComplexItem BY <1>10, ComplexItemShape
<1>11. CASE OccurrencesEnd BY <1>11, OccurrencesEndShape
<1>12. CASE DecodeAgain BY <1>12, DecodeAgainShape
<1>13. CASE UNCHANGED vars
  BY <1>13 DEF vars, Shape, Typed
<1> QED BY <1>1, <1>2, <1>3, <1>4, <1>5, <1>6, <1>7, <1>8, <1>9, <1>10, <1>11, <1>12, <1>13
        DEF Next, Run

(* Shape is inductive.                                                     *)
LEMMA AlwaysShape == Spec => []Shape
<1>1. Init => Shape
  BY InitShape
<1>2. Shape /\ [Next]_vars => Shape'
  BY NextShape
<1> QED BY <1>1, <1>2, PTL DEF Spec

(* The cursor stays within the data a sequence may see, whatever elements  *)
(* and postfix separators cut it to, and is back within the data around    *)
(* when they end; only nodes of the schema are found.                      *)
THEOREM TypeCorrect == Spec => []TypeOK
<1>1. Shape => TypeOK
  <2> SUFFICES ASSUME Shape PROVE TypeOK
    OBVIOUS
  <2>1. Typed
    BY DEF Shape
  <2>2. \A k \in DOMAIN found : found[k] \in FoundIn(prog)
    BY <2>1 DEF Typed
  <2>3. \A k \in DOMAIN found : found[k].node \in DOMAIN prog
    BY <2>2 DEF FoundIn
  <2> QED BY <2>1, <2>3 DEF Typed, TypeOK, Signals
<1> QED BY <1>1, AlwaysShape, PTL

----------------------------------------------------------------------------
(* The flags.                                                              *)

(* The complex elements that are open and in enclosing.                    *)
OpenFrame(a) == a.op = "complex" /\ ~a.bounded

OpenElements(c) == {k \in 1..Len(c) : OpenFrame(c[k])}

Opened(c) == Cardinality(OpenElements(c))

(* What the flags say while no complex element has failed: enclosing is    *)
(* the open elements, and the parent's separator is taken only while the   *)
(* loop that a bounded element returns to has not seen its answer.         *)
FlagsFollow ==
  ~broken =>
    /\ Len(enclosing) = Opened(calls)
    /\ taken => /\ In("occurrences") /\ Top.called /\ signal = "ok"
                /\ Postfix(Top.parent) /\ Top.start < pos

(* The open elements with one frame more.                                  *)
LEMMA OpenAppend ==
  ASSUME NEW S, NEW c \in Seq(S), NEW b \in S
  PROVE  /\ Opened(c) \in Nat
         /\ OpenFrame(b) => Opened(Append(c, b)) = Opened(c) + 1
         /\ ~OpenFrame(b) => Opened(Append(c, b)) = Opened(c)
<1> DEFINE d == Append(c, b)
           n == Len(c)
           T == OpenElements(c)
           U == OpenElements(d)
<1>1. Len(d) = n + 1 /\ d[n + 1] = b /\ n \in Nat /\ \A k \in 1..n : d[k] = c[k]
  BY AppendProperties
<1>2. IsFiniteSet(T) /\ n + 1 \notin T /\ Cardinality(T) \in Nat
  <2>1. IsFiniteSet(1..n) /\ T \subseteq 1..n
    BY <1>1, FS_Interval DEF OpenElements
  <2>2. IsFiniteSet(T)
    BY <2>1, FS_Subset
  <2>3. n + 1 \notin T
    BY <1>1, <2>1
  <2> QED BY <2>2, <2>3, FS_CardinalityType
<1> HIDE DEF d
<1>3. CASE OpenFrame(b)
  <2>1. U = T \union {n + 1}
    BY <1>1, <1>3 DEF OpenElements
  <2> HIDE DEF T, U
  <2>2. Cardinality(U) = Cardinality(T) + 1
    BY <1>2, <2>1, FS_AddElement
  <2> QED BY <1>2, <1>3, <2>2 DEF Opened, T, U, d
<1>4. CASE ~OpenFrame(b)
  <2>1. U = T
    BY <1>1, <1>4 DEF OpenElements
  <2> QED BY <1>2, <1>4, <2>1 DEF Opened, d
<1> QED BY <1>3, <1>4

(* The open elements below the top of a stack.                             *)
LEMMA OpenRest ==
  ASSUME NEW c \in Seq(Frames), c # <<>>
  PROVE  /\ Opened(Rest(c)) \in Nat
         /\ OpenFrame(Up(c)) => Opened(c) = Opened(Rest(c)) + 1
         /\ ~OpenFrame(Up(c)) => Opened(c) = Opened(Rest(c))
<1> DEFINE d == Rest(c)
           b == Up(c)
<1>1. d \in Seq(Frames) /\ b \in Frames /\ c = Append(d, b)
  BY RestFacts
<1> HIDE DEF d, b
<1>2. /\ Opened(d) \in Nat
      /\ OpenFrame(b) => Opened(c) = Opened(d) + 1
      /\ ~OpenFrame(b) => Opened(c) = Opened(d)
  BY <1>1, OpenAppend
<1> QED BY <1>2 DEF d, b

(* What is appended to a sequence is of its kind.                          *)
LEMMA AppendIn ==
  ASSUME NEW S, NEW c \in Seq(S), NEW b, Append(c, b) \in Seq(S)
  PROVE  b \in S
<1> DEFINE T == S \union {b}
           d == Append(c, b)
           n == Len(c)
<1>1. c \in Seq(T) /\ b \in T
  OBVIOUS
<1>2. Len(d) = n + 1 /\ d[n + 1] = b /\ n \in Nat
  BY <1>1, AppendProperties
<1> HIDE DEF d, n
<1>3. d \in Seq(S) /\ n + 1 \in 1..Len(d)
  BY <1>2 DEF d
<1> QED BY <1>2, <1>3

(* A step that returns, or goes on with a frame that is not complex, opens *)
(* and closes nothing.                                                     *)
LEMMA SameOpen ==
  ASSUME Shape, Shape', calls # <<>>, ~OpenFrame(Top), NEW b,
         calls' = Below \/ (calls' = Append(Below, b) /\ signal' = "run")
  PROVE  Opened(calls') = Opened(calls)
<1>1. /\ Below = Rest(calls) /\ Top = Up(calls) /\ calls \in Seq(Frames)
  BY ShapeFacts DEF Stack
<1>2. Below \in Seq(Frames) /\ Opened(Below) = Opened(calls)
  BY <1>1, OpenRest, RestFacts
<1>3. ASSUME calls' = Append(Below, b), signal' = "run" PROVE Opened(calls') = Opened(Below)
  <2>1. calls' \in Seq(Frames) /\ Answered(calls', signal')
    BY DEF Shape, Whole, Stack
  <2>2. b \in Frames
    BY <1>2, <1>3, <2>1, AppendIn
  <2>3. Up(calls') = b /\ Len(calls') > 0
    BY <1>2, <1>3, <2>2, UpAppend, LenProperties
  <2>4. ~OpenFrame(b)
    BY <1>3, <2>1, <2>3 DEF Answered, OpenFrame
  <2> QED BY <1>2, <1>3, <2>2, <2>4, OpenAppend
<1> QED BY <1>2, <1>3

(* No separator is taken ahead but where a bounded element has ended.      *)
LEMMA NotTaken ==
  ASSUME FlagsFollow, ~broken, ~In("occurrences") \/ signal # "ok"
  PROVE  ~taken
BY DEF FlagsFollow

(* Sequences leave the flags alone.                                        *)
LEMMA SequenceFlags ==
  ASSUME Shape, Shape', FlagsFollow, SequenceStep \/ SequenceChild \/ SequenceEnds
  PROVE  FlagsFollow'
<1>1. /\ In("sequence") /\ calls # <<>> /\ Top.op = "sequence"
      /\ UNCHANGED <<taken, broken, enclosing>>
  BY DEF SequenceStep, SequenceChild, SequenceEnds, In
<1>2. ~broken => ~taken /\ Len(enclosing) = Opened(calls)
  BY <1>1, NotTaken DEF In, FlagsFollow
<1>3. /\ Below = Rest(calls) /\ Top = Up(calls) /\ calls \in Seq(Frames)
  BY <1>1, ShapeFacts DEF Stack
<1>4. Opened(calls') = Opened(calls)
  <2>1. CASE calls' = Below \/ \E b : calls' = Append(Below, b) /\ signal' = "run"
    BY <1>1, <2>1, SameOpen DEF OpenFrame
  <2>2. ASSUME NEW b, NEW d, Call([Top EXCEPT !.called = TRUE], d), signal' = "run",
               d.op # "complex"
        PROVE  Opened(calls') = Opened(calls)
    <3> DEFINE u == [Top EXCEPT !.called = TRUE]
               v == Append(Below, u)
    <3>1. Top \in SequenceFrames
      BY <1>1, ShapeFacts, GoodOps DEF GoodSequence
    <3>2. u.op = "sequence"
      BY <3>1 DEF SequenceFrames
    <3>3. calls' = Append(v, d)
      BY <2>2 DEF Call
    <3> HIDE DEF u
    <3>4. Below \in Seq(Frames) /\ Opened(Below) = Opened(calls)
      BY <1>1, <1>3, OpenRest, RestFacts DEF OpenFrame
    <3> DEFINE S == Frames \union {u, d}
    <3>5. Below \in Seq(S) /\ u \in S /\ d \in S
      BY <3>4
    <3> HIDE DEF S
    <3>6. v \in Seq(S) /\ Opened(v) = Opened(Below)
      BY <3>2, <3>5, OpenAppend, AppendProperties DEF OpenFrame
    <3> HIDE DEF v
    <3> QED BY <2>2, <3>3, <3>4, <3>5, <3>6, OpenAppend DEF OpenFrame
  <2>3. CASE SequenceStep
    <3>1. \/ calls' = Below
          \/ \E b : calls' = Append(Below, b) /\ signal' = "run"
          \/ /\ signal' = "run"
             /\ Call([Top EXCEPT !.called = TRUE],
                     IF IsElement(Kid(Top))
                     THEN Occurrences(Kid(Top), Top.node, ChildStops(Top))
                     ELSE Sequence(Kid(Top), Top.node, ChildStops(Top)))
      <4> DEFINE d == IF IsElement(Kid(Top))
                      THEN Occurrences(Kid(Top), Top.node, ChildStops(Top))
                      ELSE Sequence(Kid(Top), Top.node, ChildStops(Top))
                 c == [Top EXCEPT !.called = TRUE]
                 n == NextChild(Top)
      <4>1. signal = "run"
        BY <2>3 DEF SequenceStep
      <4>2. \/ Return("fail")
            \/ SetTop(n) /\ UNCHANGED signal
            \/ Call(c, d) /\ UNCHANGED signal
        BY <2>3, Zenon DEF SequenceStep
      <4> HIDE DEF n, c, d
      <4>3. \/ calls' = Below
            \/ calls' = Append(Below, n) /\ signal' = "run"
            \/ Call(c, d) /\ signal' = "run"
        BY <4>1, <4>2 DEF Return, SetTop
      <4> QED BY <4>3, Zenon DEF c, d
    <3> DEFINE d == IF IsElement(Kid(Top))
                    THEN Occurrences(Kid(Top), Top.node, ChildStops(Top))
                    ELSE Sequence(Kid(Top), Top.node, ChildStops(Top))
    <3>2. d.op # "complex"
      BY DEF Occurrences, Sequence
    <3> HIDE DEF d
    <3>3. CASE Call([Top EXCEPT !.called = TRUE], d) /\ signal' = "run"
      BY <2>2, <3>2, <3>3
    <3> QED BY <2>1, <3>1, <3>3 DEF d
  <2>4. CASE SequenceChild
    <3> DEFINE p == TrailingSeparators(Top, pos)
               x == IF p # pos THEN [NextChild(Top) EXCEPT !.i = Len(Node.kids) + 1]
                     ELSE NextChild(Top)
               y == [Top EXCEPT !.i = @ + 1, !.called = FALSE]
    <3>1. \/ SetTop(x) /\ signal' = "run"
          \/ \E r : Return(r)
          \/ SetTop(y) /\ signal' = "run"
      BY <2>4, Zenon DEF SequenceChild
    <3> HIDE DEF x, y
    <3> QED BY <2>1, <3>1 DEF SetTop, Return
  <2>5. CASE SequenceEnds
    <3>1. calls' = Below
      BY <2>5 DEF SequenceEnds, Return
    <3> QED BY <2>1, <3>1
  <2> QED BY <2>3, <2>4, <2>5
<1> QED BY <1>1, <1>2, <1>4 DEF FlagsFollow

(* A loop that goes on or returns leaves the flags alone, when no separator*)
(* is taken ahead any more.                                                *)
LEMMA LoopFlags ==
  ASSUME Shape, Shape', FlagsFollow, In("occurrences"), UNCHANGED <<broken, enclosing>>,
         ~broken => ~taken', (\E a, d : Goes(a, d)) \/ \E r : Returns(r)
  PROVE  FlagsFollow'
<1>1. calls # <<>> /\ ~OpenFrame(Top)
  BY DEF In, OpenFrame
<1>2. calls' = Below \/ \E b : calls' = Append(Below, b) /\ signal' = "run"
  BY DEF Goes, Returns
<1>3. Opened(calls') = Opened(calls)
  BY <1>1, <1>2, SameOpen
<1> QED BY <1>3 DEF FlagsFollow

(* Fields, empty slots and the end of a loop leave the flags alone.        *)
LEMMA FieldFlags ==
  ASSUME Shape, Shape', FlagsFollow,
         SeparatorMissing \/ AtSlot \/ DecodeField \/ OccurrencesEnd
  PROVE  FlagsFollow'
<1>1. /\ In("occurrences") /\ signal = "run" /\ UNCHANGED <<broken, enclosing>>
  BY DEF SeparatorMissing, AtSlot, DecodeField, OccurrencesEnd, Round
<1>2. ~broken => ~taken
  BY <1>1, NotTaken
<1>3. /\ IsProgram(prog) /\ end \in Nat /\ pos \in 0..end
  BY <1>1, ShapeFacts DEF In
<1>4. CASE SeparatorMissing \/ OccurrencesEnd
  <2>1. taken' = taken /\ \E r : Returns(r)
    BY <1>4, Zenon DEF SeparatorMissing, OccurrencesEnd, Return, Returns
  <2> QED BY <1>1, <1>2, <2>1, LoopFlags
<1> DEFINE r == Ready(Top)
           a == Started(Top, r.pos)
<1>5. r.pos \in pos..end /\ LoopAt(a) /\ (r.taken => taken)
  BY <1>1, RoundFacts
<1>6. r.pos \in 0..end
  BY <1>3, <1>5
<1>7. CASE AtSlot
  <2>1. GoOn(a, r.taken, r.pos, 0) \/ GoOn(a, r.taken, r.pos, 1)
    BY <1>7, Zenon DEF AtSlot
  <2> HIDE DEF r, a
  <2>2. ~taken' /\ (Goes(a, 0) \/ Goes(a, 1) \/ Returns("fail"))
    BY <1>3, <1>5, <1>6, <2>1, GoOnResult
  <2> QED BY <1>1, <2>2, LoopFlags
<1>8. CASE DecodeField
  <2> DEFINE q == IF Node.kind \in Calcs THEN r.pos ELSE ScanEnd(a.node, a.stops, r.pos)
             text == SubSeq(input, r.pos + 1, q)
             z == IF Node.kind \in Calcs THEN q ELSE Past(Node.term, q)
             e == Item(a.node, text)
             empty == Node.kind = "text" /\ text = <<>>
  <2>1. \/ Failed(a, r.taken, q, "fail", found)
        \/ Failed(a, r.taken, q, "empty", found)
        \/ Decoded(a, r.taken, z, empty, found, <<e>>)
    BY <1>8, Zenon DEF DecodeField
  <2> HIDE DEF r, a
  <2>2. q \in r.pos..end
    <3>1. ScanEnd(a.node, a.stops, r.pos) \in r.pos..end
      BY <1>3, <1>6, ScanEndIn
    <3> QED BY <1>3, <1>6, <3>1
  <2> HIDE DEF q
  <2>3. q \in 0..end
    BY <1>3, <1>6, <2>2
  <2>4. z \in 0..end
    <3>1. Len(Node.term) \in Nat
      BY <1>1, <1>3, ShapeFacts, NodeFacts, LenProperties DEF In
    <3>2. Past(Node.term, q) \in q..end
      BY <1>3, <2>3, <3>1, PastIn
    <3> QED BY <1>3, <2>3, <3>2
  <2> HIDE DEF z, empty, e
  <2>5. CASE Decoded(a, r.taken, z, empty, found, <<e>>)
    <3>1. /\ taken' => r.taken
          /\ Goes(a, 1) \/ Goes(a, 0) \/ Returns("fail")
      BY <1>3, <1>5, <2>4, <2>5, DecodedResult
    <3> QED BY <1>1, <1>2, <1>5, <3>1, LoopFlags
  <2>6. ASSUME NEW x \in {"empty", "fail"}, Failed(a, r.taken, q, x, found) PROVE FlagsFollow'
    <3>1. /\ taken' => r.taken
          /\ Goes(a, 0) \/ Returns("absent") \/ Returns("fail") \/ Returns("empty")
      BY <1>3, <1>5, <2>3, <2>6, FailedResult
    <3> QED BY <1>1, <1>2, <1>5, <3>1, LoopFlags
  <2> QED BY <2>1, <2>5, <2>6
<1> QED BY <1>4, <1>7, <1>8

(* The answer of a complex item: the separator taken ahead stands for the  *)
(* one after it, or the element has failed.                                *)
LEMMA ComplexItemFlags ==
  ASSUME Shape, Shape', FlagsFollow, ComplexItem
  PROVE  FlagsFollow'
<1> DEFINE kept == SubSeq(found, 1, Top.keep)
           item == SubSeq(found, Top.keep + 1, Len(found))
           a == Top
           f == [was |-> taken]
           t == f.was
<1>1. /\ In("occurrences") /\ signal # "run" /\ Top.called
      /\ UNCHANGED <<broken, enclosing>>
      /\ IF signal = "ok" THEN Decoded(a, t, pos, FALSE, kept, item)
         ELSE Failed(a, t, pos, signal, kept)
  BY DEF ComplexItem
<1>2. LoopAt(a) /\ IsProgram(prog) /\ end \in Nat /\ pos \in 0..end /\ signal \in Signals
  <2>1. LoopAt(Top)
    BY <1>1, ItemFacts
  <2> QED BY <1>1, <2>1, ShapeFacts DEF In, Shape, Typed
<1>3. ~broken /\ t => signal = "ok" /\ Postfix(a.parent) /\ a.start < pos
  BY DEF FlagsFollow
<1> HIDE DEF kept, item, a, f
<1>4. CASE signal = "ok"
  <2>1. PICK no \in BOOLEAN : no = FALSE
    OBVIOUS
  <2>2. Decoded(a, t, pos, no, kept, item)
    BY <1>1, <1>4, <2>1, Zenon
  <2>3. /\ pos' \in 0..end /\ (taken' => t)
        /\ Postfix(a.parent) /\ ~no /\ a.start < pos => ~taken'
        /\ \/ Goes(a, 1) /\ found' = kept \o item
           \/ Goes(a, 0) /\ found' = kept
           \/ Returns("fail") /\ found' \in {kept, kept \o item}
    BY <1>2, <2>2, DecodedResult
  <2> QED BY <1>1, <1>3, <2>1, <2>3, LoopFlags
<1>5. CASE signal # "ok"
  <2>1. PICK r \in {"absent", "empty", "fail"} : Failed(a, t, pos, r, kept)
    BY <1>1, <1>2, <1>5 DEF Signals
  <2>3. PICK p \in 0..end : p = pos
    BY <1>2
  <2>4. Failed(a, t, p, r, kept)
    BY <2>1, <2>3
  <2>5. Goes(a, 0) \/ Returns("absent") \/ Returns("fail") \/ Returns("empty")
    BY <1>2, <2>4, FailedResult
  <2>6. taken' => t
    BY <1>2, <2>4, FailedResult
  <2> QED BY <1>1, <1>3, <1>5, <2>5, <2>6, LoopFlags
<1> QED BY <1>4, <1>5

(* The frames a loop puts under the sequence of a complex element.         *)
LEMMA OpenEnters ==
  ASSUME Shape, In("occurrences"), NEW b, b.op = "occurrences",
         NEW d, d.op = "complex", NEW s, s.op = "sequence"
  PROVE  /\ Opened(calls) \in Nat
         /\ d.bounded => Opened(Below \o <<b, d, s>>) = Opened(calls)
         /\ ~d.bounded => Opened(Below \o <<b, d, s>>) = Opened(calls) + 1
<1> DEFINE r == Below
           u == Append(r, b)
           v == Append(u, d)
           w == Append(v, s)
           S == Frames \union {b, d, s}
<1>1. r \in Seq(Frames) /\ Opened(r) = Opened(calls) /\ Opened(calls) \in Nat
  <2>1. /\ Below = Rest(calls) /\ Top = Up(calls) /\ calls \in Seq(Frames) /\ calls # <<>>
    BY ShapeFacts DEF Stack, In
  <2>2. ~OpenFrame(Top)
    BY DEF In, OpenFrame
  <2> QED BY <2>1, <2>2, OpenRest, RestFacts
<1>2. r \in Seq(S) /\ b \in S /\ d \in S /\ s \in S
  BY <1>1
<1> HIDE DEF r, S
<1>3. r \o <<b, d, s>> = w
  BY <1>2
<1>4. u \in Seq(S) /\ Opened(u) = Opened(r)
  BY <1>2, OpenAppend, AppendProperties DEF OpenFrame
<1> HIDE DEF u
<1>5. /\ v \in Seq(S) /\ (d.bounded => Opened(v) = Opened(u))
      /\ ~d.bounded => Opened(v) = Opened(u) + 1
  BY <1>2, <1>4, OpenAppend, AppendProperties DEF OpenFrame
<1> HIDE DEF v
<1>6. Opened(w) = Opened(v)
  BY <1>2, <1>5, OpenAppend DEF OpenFrame
<1> HIDE DEF w
<1> QED BY <1>1, <1>3, <1>4, <1>5, <1>6 DEF r

(* A complex element begins.                                               *)
LEMMA EnterFlags ==
  ASSUME Shape, Shape', FlagsFollow, DecodeComplex \/ DecodeBounded
  PROVE  FlagsFollow'
<1> DEFINE r == Ready(Top)
           a == Started(Top, r.pos)
           b == [a EXCEPT !.called = TRUE, !.keep = Len(found)]
           stops == IF Term(a.node) = NoDelim THEN a.stops ELSE Append(a.stops, a.node)
           x == Sequence(Node.kids[1], 0, stops)
           y == Sequence(Node.kids[1], 0, <<>>)
<1>1. In("occurrences") /\ Node.kind = "complex" /\ signal = "run"
  BY DEF DecodeComplex, DecodeBounded, Round
<1>2. LoopAt(a) /\ a.node = Top.node /\ (r.taken => taken)
  BY <1>1, RoundFacts
<1>3. b.op = "occurrences"
  BY <1>1, <1>2, CallingLoop
<1>4. x.op = "sequence" /\ y.op = "sequence"
  BY DEF Sequence
<1>5. ~broken => ~taken /\ ~r.taken /\ Len(enclosing) = Opened(calls)
  BY <1>1, <1>2, NotTaken DEF FlagsFollow
<1>6. CASE DecodeComplex
  <2> DEFINE d == Complex(a.node, FALSE, 0, FALSE)
  <2>1. /\ enclosing' = Append(enclosing, a.node) /\ taken' = r.taken /\ broken' = broken
        /\ calls' = Below \o <<b, d, x>>
    BY <1>6, Zenon DEF DecodeComplex
  <2>2. d.op = "complex" /\ ~d.bounded
    BY DEF Complex
  <2> HIDE DEF r, a, b, d, x
  <2>3. Opened(calls') = Opened(calls) + 1
    BY <1>1, <1>3, <1>4, <2>1, <2>2, OpenEnters
  <2>4. Len(enclosing') = Len(enclosing) + 1
    <3>1. enclosing \in Seq(Nat) /\ a.node \in Nat
      BY <1>1, <1>2, ShapeFacts DEF Shape, Typed, In
    <3> QED BY <2>1, <3>1, AppendProperties
  <2> QED BY <1>5, <2>1, <2>3, <2>4 DEF FlagsFollow
<1>7. CASE DecodeBounded
  <2> DEFINE q == ScanEnd(a.parent, a.stops, r.pos)
             resume == Past(Sep(a.parent), q)
             d == Complex(a.node, TRUE, resume, resume > q)
  <2>1. \/ broken'
        \/ /\ enclosing' = enclosing /\ taken' = r.taken /\ broken' = broken
           /\ calls' = Below \o <<b, d, y>>
    BY <1>7, Zenon DEF DecodeBounded
  <2>2. d.op = "complex" /\ d.bounded
    BY DEF Complex
  <2> HIDE DEF r, a, b, d, y
  <2>3. CASE broken'
    BY <2>3 DEF FlagsFollow
  <2>4. CASE /\ enclosing' = enclosing /\ taken' = r.taken /\ broken' = broken
             /\ calls' = Below \o <<b, d, y>>
    <3>1. Opened(calls') = Opened(calls)
      BY <1>1, <1>3, <1>4, <2>2, <2>4, OpenEnters
    <3> QED BY <1>5, <2>4, <3>1 DEF FlagsFollow
  <2> QED BY <2>1, <2>3, <2>4
<1> QED BY <1>6, <1>7

(* A complex element ends: it is taken off enclosing, or the separator     *)
(* after it was taken and its loop has not seen the answer.                *)
LEMMA ComplexEndsFlags ==
  ASSUME Shape, Shape', FlagsFollow, ComplexEnds
  PROVE  FlagsFollow'
<1> DEFINE fits == IF Top.bounded THEN OnlySeparators(Sep(Node.kids[1]), pos)
                   ELSE Node.term = NoDelim \/ At(Node.term, pos) \/ pos = end
           answer == IF signal = "ok" /\ ~fits THEN "fail" ELSE signal
<1>1. /\ calls # <<>> /\ Top.op = "complex" /\ Return(answer)
      /\ broken' = (broken \/ answer # "ok")
      /\ IF Top.bounded
         THEN /\ pos' = Top.resume /\ taken' = (taken \/ (signal = "ok" /\ Top.sep))
              /\ UNCHANGED enclosing
         ELSE /\ enclosing' = IF signal = "ok" THEN Front(enclosing) ELSE enclosing
              /\ taken' = taken
  BY Zenon DEF ComplexEnds, In
<1>2. /\ Below = Rest(calls) /\ Top = Up(calls) /\ Stack(prog, Len(input), calls, end)
      /\ calls \in Seq(Frames) /\ IsProgram(prog)
  BY <1>1, ShapeFacts DEF Stack
<1>3. answer = "ok" => signal = "ok"
  OBVIOUS
<1> HIDE DEF answer, fits
<1>4. SUFFICES ASSUME ~broken'
               PROVE  /\ Len(enclosing') = Opened(calls')
                      /\ taken' => /\ In("occurrences")' /\ Top'.called /\ signal' = "ok"
                                   /\ Postfix(Top.parent)' /\ Top'.start < pos'
  BY DEF FlagsFollow
<1>5. ~broken /\ answer = "ok" /\ signal = "ok" /\ signal' = "ok" /\ calls' = Below
  BY <1>1, <1>3, <1>4 DEF Return
<1>6. ~taken /\ Len(enclosing) = Opened(calls)
  BY <1>1, <1>5, NotTaken DEF In, FlagsFollow
<1>7. CASE ~Top.bounded
  <2>1. OpenFrame(Top)
    BY <1>1, <1>7 DEF OpenFrame
  <2>2. Opened(calls) = Opened(calls') + 1 /\ Opened(calls') \in Nat
    BY <1>1, <1>2, <1>5, <2>1, OpenRest
  <2>3. Len(enclosing') = Len(enclosing) - 1
    <3>1. enclosing \in Seq(Nat) /\ Len(enclosing) \in Nat /\ Len(enclosing) > 0
      BY <1>6, <2>2 DEF Shape, Typed
    <3> DEFINE q == Len(enclosing) - 1
    <3>2. q \in Nat /\ \A k \in 1..q : enclosing[k] \in Nat
      BY <3>1
    <3>3. Len(SubSeq(enclosing, 1, q)) = IF 1 <= q THEN q - 1 + 1 ELSE 0
      BY <3>2, SubSeqProperties
    <3>4. enclosing' = SubSeq(enclosing, 1, q)
      BY <1>1, <1>5, <1>7 DEF Front
    <3> HIDE DEF q
    <3>5. Len(enclosing') = q
      BY <3>2, <3>3, <3>4
    <3> QED BY <3>5 DEF q
  <2>4. ~taken'
    BY <1>1, <1>6, <1>7
  <2> QED BY <1>6, <2>2, <2>3, <2>4
<1>8. CASE Top.bounded
  <2>1. ~OpenFrame(Top)
    BY <1>8 DEF OpenFrame
  <2>2. Opened(calls') = Opened(calls) /\ enclosing' = enclosing
    BY <1>1, <1>2, <1>5, <1>8, <2>1, OpenRest
  <2>3. ASSUME taken'
        PROVE  /\ In("occurrences")' /\ Top'.called
               /\ Postfix(Top.parent)' /\ Top'.start < pos'
    <3>1. Top.sep /\ pos' = Top.resume
      BY <1>1, <1>6, <1>8, <2>3
    <3>2. Len(calls) \in Nat /\ Len(calls) > 0 /\ Len(Rest(calls)) = Len(calls) - 1
      BY <1>1, <1>2, RestFacts
    <3>3. Len(Rest(calls)) > 0
      <4>1. CASE Len(calls) = 1
        BY <1>1, <1>2, <4>1 DEF Stack, Up
      <4> QED BY <3>2, <4>1
    <3> DEFINE u == Up(Rest(calls))
    <3>4. Good(prog, Len(input), u) /\ Calls(prog, u, Top)
      BY <1>1, <1>2, <3>3, UnderTop
    <3> HIDE DEF u
    <3>5. u.op = "occurrences"
      BY <1>1, <3>4, GoodOps DEF Calls
    <3>6. u.called /\ u.start < Top.resume
          /\ prog[u.parent].sep # NoDelim /\ prog[u.parent].at = "postfix"
      BY <1>8, <3>1, <3>4, <3>5 DEF Calls
    <3>7. u.parent \in DOMAIN prog /\ u.parent # 0
      <4>1. u.parent \in DOMAIN prog
        BY <3>4, <3>5, GoodOps DEF GoodLoop
      <4> QED BY <1>2, <4>1, NodeFacts
    <3>8. calls' # <<>> /\ Top' = u
      BY <1>2, <1>5, <3>3, EmptySeq DEF Top, Up, u
    <3>9. prog' = prog
      BY DEF ComplexEnds
    <3> QED BY <3>1, <3>5, <3>6, <3>7, <3>8, <3>9 DEF In, Postfix, Sep
  <2> QED BY <1>5, <1>6, <2>2, <2>3
<1> QED BY <1>7, <1>8

(* A decode begins with the flags of the one before.                       *)
LEMMA DecodeAgainFlags ==
  ASSUME FlagsFollow, DecodeAgain
  PROVE  FlagsFollow'
<1>1. /\ calls = <<>> /\ calls' = <<Sequence(1, 0, <<>>)>>
      /\ UNCHANGED <<taken, broken, enclosing>>
  BY DEF DecodeAgain, Done
<1>2. ~broken => ~taken /\ Len(enclosing) = Opened(calls)
  BY <1>1, NotTaken DEF In, FlagsFollow
<1>3. OpenElements(calls) = {} /\ OpenElements(calls') = {}
  BY <1>1 DEF OpenElements, OpenFrame, Sequence
<1> QED BY <1>1, <1>2, <1>3 DEF FlagsFollow, Opened

(* The flags are back to what they were whenever a decode ends without a   *)
(* complex element that failed: no separator counts as taken and nothing is*)
(* left in enclosing for the next decode on the handle.                    *)
THEOREM FlagsAreClean == Spec => []FlagsClean
<1>1. Init => FlagsFollow
  <2> SUFFICES ASSUME Init PROVE FlagsFollow
    OBVIOUS
  <2>1. calls = <<Sequence(1, 0, <<>>)>> /\ enclosing = <<>> /\ taken = FALSE
    BY DEF Init, Begin
  <2>2. OpenElements(calls) = {}
    BY <2>1 DEF OpenElements, OpenFrame, Sequence
  <2> QED BY <2>1, <2>2, FS_EmptySet DEF FlagsFollow, Opened
<1>2. Shape /\ FlagsFollow /\ [Next]_vars /\ Shape' => FlagsFollow'
  <2> SUFFICES ASSUME Shape, FlagsFollow, [Next]_vars, Shape' PROVE FlagsFollow'
    OBVIOUS
  <2>1. CASE SequenceStep \/ SequenceChild \/ SequenceEnds
    BY <2>1, SequenceFlags
  <2>2. CASE SeparatorMissing \/ AtSlot \/ DecodeField \/ OccurrencesEnd
    BY <2>2, FieldFlags
  <2>3. CASE DecodeComplex \/ DecodeBounded
    BY <2>3, EnterFlags
  <2>4. CASE ComplexEnds
    BY <2>4, ComplexEndsFlags
  <2>5. CASE ComplexItem
    BY <2>5, ComplexItemFlags
  <2>6. CASE DecodeAgain
    BY <2>6, DecodeAgainFlags
  <2>7. CASE UNCHANGED vars
    BY <2>7 DEF vars, FlagsFollow, In, Top, Postfix, Sep
  <2> QED BY <2>1, <2>2, <2>3, <2>4, <2>5, <2>6, <2>7 DEF Next, Run
<1>3. FlagsFollow /\ Shape => FlagsClean
  <2> SUFFICES ASSUME FlagsFollow, Shape, Done, ~broken PROVE ~taken /\ enclosing = <<>>
    BY DEF FlagsClean
  <2>1. ~taken
    BY NotTaken DEF In, Done
  <2>2. OpenElements(calls) = {}
    BY DEF OpenElements, Done
  <2>3. Len(enclosing) = 0
    BY <2>2, FS_EmptySet DEF FlagsFollow, Opened
  <2>4. enclosing \in Seq(Nat)
    BY DEF Shape, Typed
  <2> QED BY <2>1, <2>3, <2>4, EmptySeq
<1> QED BY <1>1, <1>2, <1>3, AlwaysShape, PTL DEF Spec

----------------------------------------------------------------------------
(* How often the children of the root occur.                               *)

RootKids(p) == ToSet(p[1].kids)

(* The places of the occurrences of node n in what is found.               *)
Tally(f, n) == {k \in 1..Len(f) : f[k].node = n /\ f[k].what # "none"}

(* The places are finitely many.                                           *)
LEMMA TallyFacts ==
  ASSUME NEW S, NEW f \in Seq(S), NEW n
  PROVE  /\ Len(f) \in Nat /\ Tally(f, n) \subseteq 1..Len(f)
         /\ IsFiniteSet(Tally(f, n)) /\ Cardinality(Tally(f, n)) \in Nat
<1>1. Len(f) \in Nat /\ Tally(f, n) \subseteq 1..Len(f)
  BY LenProperties DEF Tally
<1>2. IsFiniteSet(1..Len(f))
  BY <1>1, FS_Interval
<1>3. IsFiniteSet(Tally(f, n))
  BY <1>1, <1>2, FS_Subset
<1> QED BY <1>1, <1>3, FS_CardinalityType

(* One place more.                                                         *)
LEMMA TallyMore ==
  ASSUME NEW S, NEW f \in Seq(S), NEW T, NEW n, NEW k, k \notin Tally(f, n),
         T = Tally(f, n) \union {k}
  PROVE  Cardinality(T) = Cardinality(Tally(f, n)) + 1
BY TallyFacts, FS_AddElement

(* An event more.                                                          *)
LEMMA TallyAppend ==
  ASSUME NEW S, NEW f \in Seq(S), NEW e \in S, NEW n
  PROVE  /\ e.node # n \/ e.what = "none" => Tally(Append(f, e), n) = Tally(f, n)
         /\ e.node = n /\ e.what # "none" =>
              /\ Tally(Append(f, e), n) = Tally(f, n) \union {Len(f) + 1}
              /\ Cardinality(Tally(Append(f, e), n)) = Cardinality(Tally(f, n)) + 1
<1> DEFINE g == Append(f, e)
<1>1. /\ Len(g) = Len(f) + 1 /\ Len(f) \in Nat /\ g[Len(f) + 1] = e
      /\ \A k \in 1..Len(f) : g[k] = f[k]
  BY AppendProperties, LenProperties
<1> HIDE DEF g
<1>2. 1..(Len(f) + 1) = 1..Len(f) \union {Len(f) + 1}
  BY <1>1
<1>3. Tally(g, n) = {k \in 1..Len(f) : g[k].node = n /\ g[k].what # "none"}
                      \union {k \in {Len(f) + 1} : g[k].node = n /\ g[k].what # "none"}
  BY <1>1, <1>2 DEF Tally
<1>4. {k \in 1..Len(f) : g[k].node = n /\ g[k].what # "none"} = Tally(f, n)
  BY <1>1 DEF Tally
<1>5. ASSUME e.node # n \/ e.what = "none" PROVE Tally(g, n) = Tally(f, n)
  BY <1>1, <1>3, <1>4, <1>5
<1>6. ASSUME e.node = n, e.what # "none"
      PROVE  Tally(g, n) = Tally(f, n) \union {Len(f) + 1}
  BY <1>1, <1>3, <1>4, <1>6
<1>7. Len(f) + 1 \notin Tally(f, n)
  BY <1>1 DEF Tally
<1>8. ASSUME e.node = n, e.what # "none"
      PROVE  Cardinality(Tally(g, n)) = Cardinality(Tally(f, n)) + 1
  BY <1>6, <1>7, <1>8, TallyMore
<1> QED BY <1>5, <1>6, <1>8 DEF g

(* g is the beginning of f.                                                *)
Begins(g, f) == Len(g) <= Len(f) /\ \A k \in 1..Len(g) : g[k] = f[k]

(* Events of other nodes are dropped.                                      *)
LEMMA TallyCut ==
  ASSUME NEW S, NEW f \in Seq(S), NEW g \in Seq(S), Begins(g, f), NEW n,
         \A k \in (Len(g) + 1)..Len(f) : f[k].node # n
  PROVE  Tally(g, n) = Tally(f, n)
<1>1. Len(f) \in Nat /\ Len(g) \in Nat
  BY LenProperties
<1>2. ASSUME NEW k \in 1..Len(f), f[k].node = n PROVE k \in 1..Len(g)
  BY <1>1, <1>2
<1>3. \A k \in 1..Len(g) : k \in 1..Len(f) /\ g[k] = f[k]
  BY <1>1 DEF Begins
<1> QED BY <1>2, <1>3 DEF Tally

(* After g there is one item of node n in f, with what it is made of.      *)
OneItem(f, g, n) ==
  /\ Len(g) < Len(f) /\ f[Len(g) + 1].node = n /\ f[Len(g) + 1].what # "none"
  /\ \A k \in (Len(g) + 2)..Len(f) : f[k].node # n

(* It is dropped.                                                          *)
LEMMA TallyCutItem ==
  ASSUME NEW S, NEW f \in Seq(S), NEW g \in Seq(S), NEW n, Begins(g, f), OneItem(f, g, n)
  PROVE  /\ Tally(g, n) \subseteq Tally(f, n)
         /\ Cardinality(Tally(f, n)) = Cardinality(Tally(g, n)) + 1
<1>1. Len(f) \in Nat /\ Len(g) \in Nat
  BY LenProperties
<1>2. ASSUME NEW k \in 1..Len(f), f[k].node = n PROVE k \in 1..Len(g) \union {Len(g) + 1}
  BY <1>1, <1>2 DEF OneItem
<1>3. \A k \in 1..Len(g) : k \in 1..Len(f) /\ g[k] = f[k]
  BY <1>1 DEF Begins
<1>4. Len(g) + 1 \in 1..Len(f)
  BY <1>1 DEF OneItem
<1>5. Tally(f, n) = Tally(g, n) \union {Len(g) + 1}
  BY <1>2, <1>3, <1>4 DEF Tally, OneItem
<1>6. Len(g) + 1 \notin Tally(g, n)
  BY <1>1 DEF Tally
<1> QED BY <1>5, <1>6, TallyMore

----------------------------------------------------------------------------
(* What is under the root.                                                 *)

(* A kid is a kid.                                                         *)
LEMMA KidIn ==
  ASSUME NEW p, IsProgram(p), NEW n \in DOMAIN p, NEW k \in 1..Len(p[n].kids)
  PROVE  p[n].kids[k] \in ToSet(p[n].kids)
<1>1. p[n].kids \in Seq(Nat)
  BY NodeFacts
<1> QED BY <1>1 DEF ToSet

(* The frame above a sequence is of one of its kids; the one above a       *)
(* complex element is of its only kid.                                     *)
LEMMA CalledKid ==
  ASSUME NEW p, IsProgram(p), NEW m, NEW a, Good(p, m, a), NEW b, Calls(p, a, b),
         a.op \in {"sequence", "complex"}
  PROVE  b.node \in ToSet(p[a.node].kids)
<1>1. a.node \in DOMAIN p
  BY DEF Good
<1>2. Len(p[a.node].kids) \in Nat
  BY <1>1, NodeFacts
<1>3. CASE a.op = "sequence"
  <2>1. GoodSequence(p, a) /\ a.called /\ b.node = p[a.node].kids[a.i]
    BY <1>3, GoodOps DEF Calls
  <2>2. a.i \in 1..Len(p[a.node].kids)
    BY <1>2, <2>1 DEF GoodSequence
  <2> QED BY <1>1, <2>1, <2>2, KidIn
<1>4. CASE a.op = "complex"
  <2>1. GoodComplex(p, m, a) /\ b.node = p[a.node].kids[1]
    BY <1>4, GoodOps DEF Calls
  <2>2. Len(p[a.node].kids) = 1
    BY <1>1, <2>1 DEF GoodComplex, IsProgram
  <2>3. 1 \in 1..Len(p[a.node].kids)
    BY <2>2
  <2> QED BY <1>1, <2>1, <2>3, KidIn
<1> QED BY <1>3, <1>4

(* The second frame is of the child the root is at; loops further up are   *)
(* of no child of the root.                                                *)
LEMMA UnderRoot ==
  ASSUME NEW p, IsProgram(p), Rooted(p), NEW m, NEW c, NEW e, Stack(p, m, c, e)
  PROVE  /\ Len(c) > 1 => /\ c[1].called /\ c[2].op \in {"sequence", "occurrences"}
                          /\ c[2].node = p[1].kids[c[1].i] /\ c[2].node \in RootKids(p)
         /\ \A k \in 3..Len(c) : c[k].op = "occurrences" => c[k].node \notin RootKids(p)
<1>1. /\ \A k \in 1..Len(c) : Good(p, m, c[k])
      /\ \A k \in 1..(Len(c) - 1) : Calls(p, c[k], c[k + 1])
      /\ Len(c) \in Nat /\ Len(c) > 0 => c[1].op = "sequence" /\ c[1].node = 1
  BY LenProperties DEF Stack
<1>2. ASSUME Len(c) > 1
      PROVE  /\ c[1].called /\ c[2].op \in {"sequence", "occurrences"}
             /\ c[2].node = p[1].kids[c[1].i] /\ c[2].node \in RootKids(p)
  <2>1. Good(p, m, c[1]) /\ Calls(p, c[1], c[1 + 1]) /\ c[1].op = "sequence" /\ c[1].node = 1
    BY <1>1, <1>2
  <2>2. Calls(p, c[1], c[2])
    BY <2>1
  <2>3. c[2].node \in ToSet(p[1].kids)
    BY <2>1, <2>2, CalledKid
  <2> QED BY <2>1, <2>2, <2>3 DEF Calls, RootKids
<1>3. ASSUME NEW k \in 3..Len(c), c[k].op = "occurrences" PROVE c[k].node \notin RootKids(p)
  <2> DEFINE b == c[k - 1]
             a == c[k - 2]
  <2>1. /\ k - 1 \in 1..(Len(c) - 1) /\ k - 2 \in 1..(Len(c) - 1) /\ (k - 1) + 1 = k
        /\ (k - 2) + 1 = k - 1 /\ k - 1 \in 1..Len(c) /\ k - 2 \in 1..Len(c)
    BY <1>1
  <2>2. Good(p, m, a) /\ Good(p, m, b) /\ Calls(p, a, b) /\ Calls(p, b, c[k])
    BY <1>1, <2>1
  <2> HIDE DEF a, b
  <2>3. b.op = "sequence"
    BY <1>3, <2>2, GoodOps DEF Calls
  <2>4. c[k].node \in ToSet(p[b.node].kids) /\ b.node \in DOMAIN p
    BY <2>2, <2>3, CalledKid DEF Good
  <2>5. a.op \in {"sequence", "complex"} /\ a.node \in DOMAIN p
    BY <2>2, <2>3, GoodOps DEF Calls, Good
  <2>6. b.node \in ToSet(p[a.node].kids)
    BY <2>2, <2>5, CalledKid
  <2>7. b.node # 1
    BY <2>5, <2>6 DEF Rooted
  <2> QED BY <2>4, <2>7 DEF Rooted, RootKids
<1> QED BY <1>2, <1>3

----------------------------------------------------------------------------
(* The children of the root in range and in order.                         *)

(* The most occurrences of n.                                             *)
LimitOf(p, n) ==
  CASE p[n].count # "parsed" \/ p[n].max = 1 -> p[n].max
    [] p[n].count = "parsed" /\ p[n].min = p[n].max /\ p[n].max \notin {0, 1, Unbounded} ->
         IF p[n].term # NoDelim /\ p[n].kind # "complex" /\ BetweenCommas(p, n) THEN p[n].max + 1 ELSE p[n].max
    [] OTHER -> Unbounded

(* The occurrences of the children of the root.                            *)
Tallies(p, f) == [n \in RootKids(p) |-> Tally(f, n)]

(* The kids of the root occur in the order of the schema.                  *)
InOrder(p, t) ==
  \A x, y \in RootKids(p) : x < y => \A i \in t[x], j \in t[y] : i < j

(* The kid x of the root occurs as often as it may.                        *)
InRange(p, t, x) ==
  LET n == p[1].kids[x] IN
  p[n].kind # "sequence" => Cardinality(t[n]) \in p[n].min..LimitOf(p, n)

(* The kids before i are in range, those from i on have not occurred.      *)
Passed(p, t, i) == \A x \in 1..(i - 1) : InRange(p, t, x)
Ahead(p, t, i) == \A x \in i..Len(p[1].kids) : t[p[1].kids[x]] = {}

(* What the frame of the root says of the kids.                            *)
RootSays(p, t, r) ==
  /\ Passed(p, t, r.i) /\ Ahead(p, t, r.i + 1)
  /\ ~r.called => Ahead(p, t, r.i)

(* What the loop over a kid of the root says of its occurrences: an item   *)
(* that is open is one of them.                                            *)
LoopSays(p, t, a) ==
  /\ a.n <= LimitOf(p, a.node)
  /\ ~a.called => Cardinality(t[a.node]) = a.n
  /\ a.called => a.n < LimitOf(p, a.node) /\ Cardinality(t[a.node]) = a.n + 1

(* The tallies t fit the stack c: the root has finished, is on it alone, or*)
(* has the loop over one of its kids above it.                             *)
RootGoes(p, c, t) ==
  /\ InOrder(p, t)
  /\ Len(c) = 0 => Passed(p, t, Len(p[1].kids) + 1)
  /\ Len(c) > 0 => RootSays(p, t, c[1])
  /\ Len(c) = 1 /\ c[1].called => Passed(p, t, c[1].i + 1)
  /\ Len(c) > 1 /\ c[2].op = "occurrences" => LoopSays(p, t, c[2])

(* After an item that is open only what it is made of is found.            *)
Holds(p, c, f) ==
  \A k \in 1..Len(c) : CalledLoop(c[k]) =>
    /\ f[c[k].keep + 1].node = c[k].node /\ f[c[k].keep + 1].what = "open"
    /\ \A j \in (c[k].keep + 2)..Len(f) : f[j].node \notin RootKids(p)

(* The root has failed, or is about to.                                    *)
Lost(c, r) == Len(c) < 2 /\ r \in {"fail", "empty"}

(* Unless the root is lost, what is found fits the stack.                  *)
Counts(p, c, r, f) ==
  Holds(p, c, f) /\ (Lost(c, r) \/ RootGoes(p, c, Tallies(p, f)))

(* The inductive invariant, of the policies that let no required child be  *)
(* skipped.                                                                *)
RootFollows ==
  prog[1].policy \notin {"trailingEmpty", "trailingEmptyStrict"} =>
    Counts(prog, calls, signal, found)

(* The tallies of an event more of no kid of the root.                     *)
LEMMA TalliesSame ==
  ASSUME NEW p, NEW S, NEW f \in Seq(S), NEW e \in S,
         e.node \notin RootKids(p) \/ e.what = "none"
  PROVE  Tallies(p, Append(f, e)) = Tallies(p, f)
<1>1. ASSUME NEW n \in RootKids(p) PROVE Tally(Append(f, e), n) = Tally(f, n)
  BY TallyAppend
<1> QED BY <1>1 DEF Tallies

(* The tallies when events of no kid of the root are dropped.              *)
LEMMA TalliesCut ==
  ASSUME NEW p, NEW S, NEW f \in Seq(S), NEW g \in Seq(S), Begins(g, f),
         \A k \in (Len(g) + 1)..Len(f) : f[k].node \notin RootKids(p)
  PROVE  Tallies(p, g) = Tallies(p, f)
<1>1. ASSUME NEW n \in RootKids(p) PROVE Tally(g, n) = Tally(f, n)
  <2>1. \A k \in (Len(g) + 1)..Len(f) : f[k].node # n
    OBVIOUS
  <2> QED BY <2>1, TallyCut
<1> QED BY <1>1 DEF Tallies

(* Where nothing changes but the sequence at the top or what is above, the *)
(* root goes as before.                                                    *)
LEMMA RootStays ==
  ASSUME NEW p, NEW c, NEW d, NEW t, RootGoes(p, c, t),
         Len(c) \in Nat, Len(d) \in Nat, Len(c) > 1, Len(d) > 1, d[1] = c[1],
         d[2].op = "occurrences" => d[2] = c[2]
  PROVE  RootGoes(p, d, t)
<1>1. InOrder(p, t) /\ RootSays(p, t, c[1]) /\ (c[2].op = "occurrences" => LoopSays(p, t, c[2]))
  BY DEF RootGoes
<1>2. Len(d) > 0 /\ Len(d) # 0 /\ Len(d) # 1
  OBVIOUS
<1>3. d[2].op = "occurrences" => LoopSays(p, t, d[2])
  BY <1>1
<1> QED BY <1>1, <1>2, <1>3, Zenon DEF RootGoes

(* A kid of the root ends in range.                                        *)
LEMMA RootAnswers ==
  ASSUME NEW p, NEW c, NEW d, NEW t, RootGoes(p, c, t),
         Len(c) \in Nat, Len(c) > 1, Len(d) = 1, d[1] = c[1], c[1].i \in Nat,
         InRange(p, t, c[1].i)
  PROVE  RootGoes(p, d, t)
<1>1. InOrder(p, t) /\ RootSays(p, t, c[1])
  BY DEF RootGoes
<1>2. Passed(p, t, c[1].i)
  BY <1>1 DEF RootSays
<1>3. ASSUME NEW x \in 1..(c[1].i + 1 - 1) PROVE InRange(p, t, x)
  <2>1. x \in 1..(c[1].i - 1) \/ x = c[1].i
    OBVIOUS
  <2> QED BY <1>2, <2>1 DEF Passed
<1>4. Passed(p, t, c[1].i + 1)
  BY <1>3 DEF Passed
<1>5. Len(d) # 0 /\ ~(Len(d) > 1)
  OBVIOUS
<1> QED BY <1>1, <1>4, <1>5, Zenon DEF RootGoes

----------------------------------------------------------------------------
(* The loop over a kid of the root.                                        *)

(* Tallies t become u with the occurrences of n changed.                   *)
Differs(p, t, u, n) == \A m \in RootKids(p) : m # n => u[m] = t[m]

(* Ranges of other kids are kept.                                          *)
LEMMA RangeKept ==
  ASSUME NEW p, IsProgram(p), Rooted(p), NEW t, NEW u, NEW i \in 1..Len(p[1].kids),
         Differs(p, t, u, p[1].kids[i]), NEW x \in 1..Len(p[1].kids), x # i
  PROVE  u[p[1].kids[x]] = t[p[1].kids[x]]
<1>1. 1 \in DOMAIN p
  BY DEF IsProgram
<1>2. p[1].kids[x] \in RootKids(p) /\ p[1].kids[i] \in RootKids(p)
  BY <1>1, KidIn DEF RootKids
<1>3. Len(p[1].kids) \in Nat /\ p[1].kids \in Seq(Nat)
  BY <1>1, NodeFacts
<1>4. p[1].kids[x] # p[1].kids[i]
  <2>1. x \in Nat /\ i \in Nat /\ x \in DOMAIN p[1].kids /\ i \in DOMAIN p[1].kids
    <3> DEFINE q == p[1].kids
    <3>1. q \in Seq(Nat) /\ Len(q) \in Nat /\ x \in 1..Len(q) /\ i \in 1..Len(q)
      BY <1>3
    <3> HIDE DEF q
    <3>2. x \in Nat /\ i \in Nat /\ x \in DOMAIN q /\ i \in DOMAIN q
      BY ONLY <3>1
    <3> QED BY <3>2 DEF q
  <2>2. p[1].kids[x] \in Nat /\ p[1].kids[i] \in Nat
    <3>1. p[1].kids \in [1..Len(p[1].kids) -> Nat]
      BY ONLY <1>3
    <3> QED BY ONLY <3>1
  <2>3. x < i \/ i < x
    BY <2>1
  <2>4. p[1].kids[x] < p[1].kids[i] \/ p[1].kids[i] < p[1].kids[x]
    BY <2>1, <2>3 DEF Rooted
  <2> QED BY <2>2, <2>4
<1> QED BY <1>2, <1>4 DEF Differs

(* What the root says of other kids than the one it is at.                 *)
LEMMA RootSaysKept ==
  ASSUME NEW p, IsProgram(p), Rooted(p), NEW t, NEW u, NEW r,
         r.i \in 1..Len(p[1].kids), r.called,
         Differs(p, t, u, p[1].kids[r.i]), RootSays(p, t, r)
  PROVE  RootSays(p, u, r)
<1> DEFINE i == r.i
           N == Len(p[1].kids)
<1>1. N \in Nat /\ i \in 1..N /\ i \in Nat
  <2>1. 1 \in DOMAIN p
    BY DEF IsProgram
  <2> QED BY <2>1, NodeFacts
<1>2. Passed(p, t, i) /\ Ahead(p, t, i + 1)
  BY DEF RootSays
<1>3. ASSUME NEW x \in 1..(i - 1) PROVE InRange(p, u, x)
  <2>1. x \in 1..N /\ x # i
    BY <1>1
  <2>2. u[p[1].kids[x]] = t[p[1].kids[x]]
    BY <1>1, <2>1, RangeKept
  <2> QED BY <1>2, <2>2 DEF Passed, InRange
<1>4. ASSUME NEW x \in (i + 1)..N PROVE u[p[1].kids[x]] = {}
  <2>1. x \in 1..N /\ x # i
    BY <1>1
  <2>2. u[p[1].kids[x]] = t[p[1].kids[x]]
    BY <1>1, <2>1, RangeKept
  <2> QED BY <1>2, <2>2 DEF Ahead
<1> QED BY <1>3, <1>4 DEF RootSays, Passed, Ahead

(* The order when occurrences are dropped.                                 *)
LEMMA OrderLess ==
  ASSUME NEW p, NEW t, NEW u, NEW n, Differs(p, t, u, n), InOrder(p, t),
         n \in RootKids(p), u[n] \subseteq t[n]
  PROVE  InOrder(p, u)
<1>1. \A m \in RootKids(p) : u[m] \subseteq t[m]
  BY DEF Differs
<1> QED BY <1>1 DEF InOrder

(* The order when one is added after all others, of the kid the root is at.*)
LEMMA OrderMore ==
  ASSUME NEW p, IsProgram(p), Rooted(p), NEW t, NEW u, NEW i \in 1..Len(p[1].kids), NEW k \in Nat,
         Differs(p, t, u, p[1].kids[i]), InOrder(p, t), Ahead(p, t, i + 1),
         u[p[1].kids[i]] = t[p[1].kids[i]] \union {k},
         \A m \in RootKids(p) : t[m] \subseteq 0..(k - 1)
  PROVE  InOrder(p, u)
<1> DEFINE n == p[1].kids[i]
           N == Len(p[1].kids)
<1>1. 1 \in DOMAIN p /\ N \in Nat /\ p[1].kids \in Seq(Nat)
  BY NodeFacts DEF IsProgram
<1>2. n \in RootKids(p) /\ n \in Nat
  BY <1>1, KidIn DEF RootKids
<1>3. \A m \in RootKids(p) : m # n => u[m] = t[m]
  BY DEF Differs
<1>4. ASSUME NEW y \in RootKids(p), n < y PROVE u[y] = {}
  <2>1. PICK x \in 1..N : y = p[1].kids[x]
    BY <1>1 DEF RootKids, ToSet
  <2>2. x \in Nat /\ i \in Nat /\ y \in Nat /\ x \in DOMAIN p[1].kids /\ i \in DOMAIN p[1].kids
    BY <1>1, <2>1
  <2>3. x > i
    <3>1. ~(x < i)
      <4>1. x < i => y < n
        BY <2>1, <2>2 DEF Rooted
      <4> QED BY <4>1, <1>2, <1>4, <2>2
    <3>2. x # i
      BY <2>1, <1>2, <1>4, <2>2
    <3> QED BY <2>2, <3>1, <3>2
  <2>4. x \in (i + 1)..N
    BY <2>2, <2>3
  <2>5. t[y] = {} /\ y # n
    BY <2>1, <2>4, <1>2, <1>4, <2>2 DEF Ahead
  <2> QED BY <1>3, <2>5
<1> HIDE DEF n
<1>5. ASSUME NEW x \in RootKids(p), NEW y \in RootKids(p), x < y,
             NEW a \in u[x], NEW b \in u[y]
      PROVE  a < b
  <2>1. CASE x = n
    BY <2>1, <1>4, <1>5
  <2>2. CASE x # n
    <3>1. a \in t[x]
      BY <2>2, <1>3
    <3>2. CASE b \in t[y]
      BY <3>1, <3>2, <1>5 DEF InOrder
    <3>3. CASE b \notin t[y]
      <4>1. b = k
        BY <3>3, <1>3 DEF n
      <4>2. a \in 0..(k - 1)
        BY <3>1
      <4> QED BY <4>1, <4>2
    <3> QED BY <3>2, <3>3
  <2> QED BY <2>1, <2>2
<1> QED BY <1>5 DEF InOrder

(* The loop over a kid of the root goes on.                                *)
LEMMA RootLoops ==
  ASSUME NEW p, IsProgram(p), Rooted(p), NEW c, NEW d, NEW t, NEW u, RootGoes(p, c, t),
         Len(c) \in Nat, Len(d) \in Nat, Len(c) > 1, Len(d) > 1, d[1] = c[1],
         c[1].i \in 1..Len(p[1].kids), c[1].called, c[2].node = p[1].kids[c[1].i],
         d[2].node = c[2].node, Differs(p, t, u, c[2].node), InOrder(p, u), LoopSays(p, u, d[2])
  PROVE  RootGoes(p, d, u)
<1>1. RootSays(p, t, c[1])
  BY DEF RootGoes
<1>2. RootSays(p, u, c[1])
  BY <1>1, RootSaysKept
<1>3. Len(d) > 0 /\ Len(d) # 0 /\ Len(d) # 1
  OBVIOUS
<1> QED BY <1>2, <1>3, Zenon DEF RootGoes

----------------------------------------------------------------------------
(* What is found under open items.                                         *)

(* The loops of d that have called are loops of c.                         *)
Under(d, c) == \A k \in 1..Len(d) : CalledLoop(d[k]) => k \in 1..Len(c) /\ d[k] = c[k]

(* Events are dropped.                                                     *)
LEMMA HoldsCut ==
  ASSUME NEW p, NEW c, NEW d \in Seq(Frames), Under(d, c),
         NEW S, NEW f \in Seq(S), NEW g \in Seq(S), Begins(g, f),
         Holds(p, c, f), Keeping(d, Len(g))
  PROVE  Holds(p, d, g)
<1>1. Len(f) \in Nat /\ Len(g) \in Nat
  BY LenProperties
<1>2. ASSUME NEW k \in 1..Len(d), CalledLoop(d[k])
      PROVE  /\ g[d[k].keep + 1].node = d[k].node /\ g[d[k].keep + 1].what = "open"
             /\ \A j \in (d[k].keep + 2)..Len(g) : g[j].node \notin RootKids(p)
  <2> DEFINE m == d[k].keep
  <2>1. d[k] \in Frames
    BY LenProperties
  <2>2. m \in Nat /\ m < Len(g)
    BY <1>2, <2>1, KeepNat DEF Keeping
  <2>3. /\ f[m + 1].node = d[k].node /\ f[m + 1].what = "open"
        /\ \A j \in (m + 2)..Len(f) : f[j].node \notin RootKids(p)
    BY <1>2 DEF Under, Holds
  <2> HIDE DEF m
  <2>4. m + 1 \in 1..Len(g) /\ \A j \in (m + 2)..Len(g) : j \in 1..Len(g) /\ j \in (m + 2)..Len(f)
    BY <1>1, <2>2 DEF Begins
  <2>5. g[m + 1] = f[m + 1] /\ \A j \in (m + 2)..Len(g) : g[j] = f[j]
    BY <2>4 DEF Begins
  <2>6. /\ g[m + 1].node = d[k].node /\ g[m + 1].what = "open"
        /\ \A j \in (m + 2)..Len(g) : g[j].node \notin RootKids(p)
    BY <2>3, <2>4, <2>5
  <2> QED BY <2>6 DEF m
<1> QED BY <1>2 DEF Holds

(* An event of no kid of the root is found, or one that is not under an    *)
(* open item.                                                              *)
LEMMA HoldsMore ==
  ASSUME NEW p, NEW c, NEW d \in Seq(Frames), Under(d, c),
         NEW S, NEW f \in Seq(S), NEW e \in S,
         e.node \notin RootKids(p) \/ \A k \in 1..Len(d) : ~CalledLoop(d[k]),
         Holds(p, c, f), Keeping(d, Len(f))
  PROVE  Holds(p, d, Append(f, e))
<1> DEFINE g == Append(f, e)
<1>1. /\ Len(g) = Len(f) + 1 /\ Len(f) \in Nat /\ g[Len(f) + 1] = e
      /\ \A k \in 1..Len(f) : g[k] = f[k]
  BY AppendProperties, LenProperties
<1> HIDE DEF g
<1>2. ASSUME NEW k \in 1..Len(d), CalledLoop(d[k])
      PROVE  /\ g[d[k].keep + 1].node = d[k].node /\ g[d[k].keep + 1].what = "open"
             /\ \A j \in (d[k].keep + 2)..Len(g) : g[j].node \notin RootKids(p)
  <2> DEFINE m == d[k].keep
  <2>1. d[k] \in Frames
    BY LenProperties
  <2>2. m \in Nat /\ m < Len(f)
    BY <1>2, <2>1, KeepNat DEF Keeping
  <2>3. /\ f[m + 1].node = d[k].node /\ f[m + 1].what = "open"
        /\ \A j \in (m + 2)..Len(f) : f[j].node \notin RootKids(p)
    BY <1>2 DEF Under, Holds
  <2>4. e.node \notin RootKids(p)
    BY <1>2
  <2> HIDE DEF m
  <2>5. g[m + 1] = f[m + 1]
    BY <1>1, <2>2
  <2>6. ASSUME NEW j \in (m + 2)..Len(g) PROVE g[j].node \notin RootKids(p)
    <3>1. CASE j = Len(f) + 1
      BY <3>1, <1>1, <2>4
    <3>2. CASE j # Len(f) + 1
      <4>1. j \in 1..Len(f) /\ j \in (m + 2)..Len(f)
        BY <3>2, <1>1, <2>2
      <4> QED BY <4>1, <1>1, <2>3
    <3> QED BY <3>1, <3>2
  <2> QED BY <2>3, <2>5, <2>6 DEF m
<1> QED BY <1>2 DEF Holds, g

(* A stack with another top.                                               *)
LEMMA OtherTop ==
  ASSUME NEW c \in Seq(Frames), c # <<>>, NEW b \in Frames
  PROVE  LET d == Append(Rest(c), b) IN
         /\ d \in Seq(Frames) /\ Len(d) = Len(c) /\ d[Len(c)] = b /\ Len(c) \in Nat /\ Len(c) > 0
         /\ \A k \in 1..(Len(c) - 1) : d[k] = c[k]
<1> DEFINE x == Rest(c)
           d == Append(x, b)
<1>1. /\ Len(c) \in Nat /\ Len(c) > 0 /\ x \in Seq(Frames) /\ Len(x) = Len(c) - 1
      /\ \A k \in 1..(Len(c) - 1) : x[k] = c[k]
  BY RestFacts
<1> HIDE DEF x
<1>2. d \in Seq(Frames) /\ Len(d) = Len(x) + 1 /\ d[Len(x) + 1] = b /\ \A k \in 1..Len(x) : d[k] = x[k]
  BY <1>1, AppendProperties
<1> HIDE DEF d
<1>3. Len(d) = Len(c) /\ d[Len(c)] = b /\ \A k \in 1..(Len(c) - 1) : d[k] = c[k]
  BY <1>1, <1>2
<1> QED BY <1>1, <1>2, <1>3 DEF d, x

(* And with one more.                                                      *)
LEMMA OneMore ==
  ASSUME NEW c \in Seq(Frames), NEW b \in Frames
  PROVE  LET d == Append(c, b) IN
         /\ d \in Seq(Frames) /\ Len(d) = Len(c) + 1 /\ d[Len(c) + 1] = b /\ Len(c) \in Nat
         /\ \A k \in 1..Len(c) : d[k] = c[k]
BY AppendProperties, LenProperties

(* The loops that have called when the top returns.                        *)
LEMMA UnderRest ==
  ASSUME NEW c \in Seq(Frames), c # <<>>
  PROVE  Under(Rest(c), c)
<1> DEFINE d == Rest(c)
<1>1. /\ Len(c) \in Nat /\ Len(c) > 0 /\ d \in Seq(Frames) /\ Len(d) = Len(c) - 1
      /\ \A k \in 1..(Len(c) - 1) : d[k] = c[k]
  BY RestFacts
<1> HIDE DEF d
<1>2. Under(d, c)
  BY <1>1 DEF Under
<1> QED BY <1>2 DEF d

(* The same with another top that has not called.                          *)
LEMMA UnderOther ==
  ASSUME NEW c \in Seq(Frames), c # <<>>, NEW b \in Frames, ~CalledLoop(b)
  PROVE  Under(Append(Rest(c), b), c)
<1> DEFINE d == Append(Rest(c), b)
<1>1. /\ Len(d) = Len(c) /\ d[Len(c)] = b /\ Len(c) \in Nat /\ Len(c) > 0
      /\ \A k \in 1..(Len(c) - 1) : d[k] = c[k]
  BY OtherTop
<1> HIDE DEF d
<1>2. ASSUME NEW k \in 1..Len(d), CalledLoop(d[k]) PROVE k \in 1..Len(c) /\ d[k] = c[k]
  <2>1. k # Len(c)
    BY <1>1, <1>2
  <2> QED BY <1>1, <2>1
<1> QED BY <1>2 DEF Under, d

(* And with one more that has not called.                                  *)
LEMMA UnderMore ==
  ASSUME NEW c, NEW d \in Seq(Frames), Under(d, c), NEW b \in Frames, ~CalledLoop(b)
  PROVE  Under(Append(d, b), c)
<1> DEFINE e == Append(d, b)
<1>1. Len(e) = Len(d) + 1 /\ e[Len(d) + 1] = b /\ Len(d) \in Nat /\ \A k \in 1..Len(d) : e[k] = d[k]
  BY OneMore
<1> HIDE DEF e
<1>2. ASSUME NEW k \in 1..Len(e), CalledLoop(e[k]) PROVE k \in 1..Len(c) /\ e[k] = c[k]
  <2>1. k # Len(d) + 1
    BY <1>1, <1>2
  <2>2. k \in 1..Len(d) /\ e[k] = d[k]
    BY <1>1, <2>1
  <2> QED BY <1>2, <2>2 DEF Under
<1> QED BY <1>2 DEF Under, e

----------------------------------------------------------------------------
(* The steps of sequences, as the counts see them.                         *)

Trailing == {"trailingEmpty", "trailingEmptyStrict"}

(* A child is called.                                                      *)
LEMMA SequenceStepResult ==
  ASSUME Shape, SequenceStep
  PROVE  \/ Returns("fail")
         \/ \E b \in SequenceFrames, d \in Frames :
              /\ calls' = Append(Append(Below, b), d)
              /\ b.i = Top.i /\ b.called /\ d.node = Kid(Top) /\ ~CalledLoop(d)
              /\ d.op \in {"sequence", "occurrences"}
              /\ d.op = "occurrences" => d.n = 0 /\ ~d.called
         \/ prog[Top.node].policy \in Trailing /\ \E b \in SequenceFrames : calls' = Append(Below, b)
<1>1. In("sequence") /\ Top.i <= Len(Node.kids) /\ calls # <<>>
  BY DEF SequenceStep, In
<1>2. Top \in SequenceFrames /\ Kid(Top) \in DOMAIN prog /\ ChildStops(Top) \in Seq(Nat)
  BY <1>1, AtKid
<1>3. IsProgram(prog) /\ Top.node \in DOMAIN prog /\ Top.node \in Nat /\ Kid(Top) \in Nat
  BY <1>1, <1>2, ShapeFacts, NodeFacts
<1>4. ASSUME NEW p, EmptySlot(Top, p), SetTop(NextChild(Top))
      PROVE  prog[Top.node].policy \in Trailing /\ \E b \in SequenceFrames : calls' = Append(Below, b)
  BY <1>2, <1>4, NextFrame DEF EmptySlot, Trailing, SetTop
<1>5. ASSUME Call([Top EXCEPT !.called = TRUE],
                  IF IsElement(Kid(Top))
                  THEN Occurrences(Kid(Top), Top.node, ChildStops(Top))
                  ELSE Sequence(Kid(Top), Top.node, ChildStops(Top)))
      PROVE  \E b \in SequenceFrames, d \in Frames :
               /\ calls' = Append(Append(Below, b), d)
               /\ b.i = Top.i /\ b.called /\ d.node = Kid(Top) /\ ~CalledLoop(d)
               /\ d.op \in {"sequence", "occurrences"}
               /\ d.op = "occurrences" => d.n = 0 /\ ~d.called
  <2> DEFINE b == [Top EXCEPT !.called = TRUE]
             x == Occurrences(Kid(Top), Top.node, ChildStops(Top))
             y == Sequence(Kid(Top), Top.node, ChildStops(Top))
             d == IF IsElement(Kid(Top)) THEN x ELSE y
  <2>1. PICK yes \in BOOLEAN : yes = TRUE
    OBVIOUS
  <2>2. LET z == SequenceCalled(Top, yes) IN
        z \in SequenceFrames /\ z.node = Top.node /\ z.i = Top.i /\ (z.called <=> yes)
    BY <1>2, SequenceUpdates
  <2>3. b = SequenceCalled(Top, yes)
    BY <2>1 DEF SequenceCalled
  <2>4. x.op = "occurrences" /\ x.node = Kid(Top) /\ x.n = 0 /\ ~x.called
    BY DEF Occurrences
  <2>5. y.op = "sequence" /\ y.node = Kid(Top)
    BY DEF Sequence
  <2>6. prog[Kid(Top)].kind # "sequence" => Good(prog, Len(input), x)
    BY <1>2, <1>3, NewFrames
  <2>7. prog[Kid(Top)].kind = "sequence" => Good(prog, Len(input), y)
    BY <1>2, <1>3, NewFrames
  <2>8. calls' = Append(Append(Below, b), d)
    BY <1>5 DEF Call
  <2> HIDE DEF b, x, y
  <2>9. b \in SequenceFrames /\ b.i = Top.i /\ b.called
    BY <2>1, <2>2, <2>3
  <2>10. d \in Frames
    BY <2>6, <2>7, GoodOps DEF IsElement
  <2>11. /\ d.node = Kid(Top) /\ ~CalledLoop(d) /\ d.op \in {"sequence", "occurrences"}
         /\ d.op = "occurrences" => d.n = 0 /\ ~d.called
    BY <2>4, <2>5 DEF CalledLoop
  <2> HIDE DEF d
  <2> QED BY <2>8, <2>9, <2>10, <2>11
<1>6. \/ Return("fail")
      \/ \E p : EmptySlot(Top, p) /\ SetTop(NextChild(Top))
      \/ Call([Top EXCEPT !.called = TRUE],
              IF IsElement(Kid(Top))
              THEN Occurrences(Kid(Top), Top.node, ChildStops(Top))
              ELSE Sequence(Kid(Top), Top.node, ChildStops(Top)))
  BY Zenon DEF SequenceStep
<1> QED BY <1>4, <1>5, <1>6 DEF Return, Returns

(* No separators are left after a child when the policy does not let them. *)
LEMMA NotTrailing ==
  ASSUME end \in Nat, pos \in 0..end, NEW a, prog[a.node].policy \notin Trailing
  PROVE  TrailingSeparators(a, pos) = pos
<1> DEFINE L(q) == LET s == Sep(a.node)  n == Len(s) IN
             IF ~(prog[a.node].policy \in {"trailingEmpty", "trailingEmptyStrict"} /\ Infix(a.node)
                  /\ IsElement(Kid(a)) /\ prog[Kid(a)].count = "implicit" /\ prog[Kid(a)].max > 1)
             THEN q = pos
             ELSE /\ (q - pos) % n = 0 /\ ~At(s, q)
                  /\ \A j \in 0..((q - pos) \div n - 1) : At(s, pos + j * n)
<1>1. \A q : L(q) <=> q = pos
  BY Zenon DEF Trailing
<1>2. TrailingSeparators(a, pos) = CHOOSE q \in pos..end : L(q)
  BY Zenon DEF TrailingSeparators
<1>3. pos \in pos..end
  OBVIOUS
<1> HIDE DEF L
<1>4. (CHOOSE q \in pos..end : L(q)) = pos
  BY <1>1, <1>3
<1> QED BY <1>2, <1>4

(* A child has answered.                                                   *)
LEMMA SequenceChildResult ==
  ASSUME Shape, SequenceChild
  PROVE  \/ Returns("fail") \/ Returns("empty")
         \/ /\ signal \in {"ok", "absent"} /\ signal' = "run"
            /\ \E b \in SequenceFrames :
                 /\ calls' = Append(Below, b) /\ ~b.called
                 /\ prog[Top.node].policy \notin Trailing => b.i = Top.i + 1
<1>1. /\ In("sequence") /\ signal # "run" /\ Top.called /\ calls # <<>> /\ Top.op = "sequence"
  BY DEF SequenceChild, In
<1>2. /\ IsProgram(prog) /\ end \in Nat /\ pos \in 0..end /\ Node = prog[Top.node]
      /\ Good(prog, Len(input), Top)
  BY <1>1, ShapeFacts
<1>3. Top.i <= Len(Node.kids) /\ Top \in SequenceFrames
  BY <1>1, <1>2, GoodOps DEF GoodSequence
<1>4. Top.i \in Nat /\ Len(Node.kids) \in Nat
  BY <1>1, <1>3, AtKid
<1>5. CASE signal = "ok"
  <2> DEFINE p == TrailingSeparators(Top, pos)
             n == NextChild(Top)
             j == Len(Node.kids) + 1
             b == [n EXCEPT !.i = j]
  <2>1. SetTop(IF p # pos THEN b ELSE n) /\ signal' = "run"
    BY <1>5 DEF SequenceChild
  <2>2. prog[Top.node].policy \notin Trailing => p = pos
    BY <1>2, NotTrailing
  <2>3. n \in SequenceFrames /\ n.i = Top.i + 1 /\ ~n.called
    BY <1>3, NextFrame
  <2> HIDE DEF n, p
  <2>4. b = SequenceAt(n, j) /\ j \in Nat
    BY <1>4 DEF SequenceAt
  <2> HIDE DEF j
  <2>5. LET x == SequenceAt(n, j) IN
        x \in SequenceFrames /\ x.node = n.node /\ x.i = j /\ x.called = n.called
    <3>1. PICK no \in BOOLEAN : no = FALSE
      OBVIOUS
    <3> QED BY <2>3, <2>4, <3>1, SequenceUpdates
  <2> HIDE DEF b
  <2>6. b \in SequenceFrames /\ ~b.called
    BY <2>3, <2>4, <2>5
  <2>7. \E x \in SequenceFrames :
          /\ calls' = Append(Below, x) /\ ~x.called
          /\ prog[Top.node].policy \notin Trailing => x.i = Top.i + 1
    BY <2>1, <2>2, <2>3, <2>6 DEF SetTop
  <2> QED BY <1>5, <2>1, <2>7
<1>6. CASE signal = "absent" /\ ~Return("fail")
  <2>1. PICK no \in BOOLEAN : no = FALSE
    OBVIOUS
  <2> DEFINE j == Top.i + 1
             b == SequenceMoved(Top, j, no)
  <2>2. SetTop([Top EXCEPT !.i = @ + 1, !.called = FALSE]) /\ signal' = "run"
    BY <1>6 DEF SequenceChild
  <2>3. [Top EXCEPT !.i = @ + 1, !.called = FALSE] = b
    BY <2>1, Zenon DEF SequenceMoved
  <2>4. j \in Nat
    BY <1>4
  <2> HIDE DEF j
  <2>5. LET x == SequenceMoved(Top, j, no) IN
        x \in SequenceFrames /\ x.node = Top.node /\ x.i = j /\ (x.called <=> no)
    BY <1>3, <2>1, <2>4, MovedFrame
  <2>6. b \in SequenceFrames /\ b.i = j /\ ~b.called
    BY <2>1, <2>5
  <2>7. calls' = Append(Below, b)
    BY <2>2, <2>3 DEF SetTop
  <2> HIDE DEF b
  <2> QED BY <1>6, <2>2, <2>6, <2>7 DEF j
<1>7. CASE Return("fail")
  BY <1>7 DEF Return, Returns
<1>8. CASE signal \in {"fail", "empty"}
  BY <1>8 DEF SequenceChild, Return, Returns
<1> QED BY <1>5, <1>6, <1>7, <1>8 DEF SequenceChild

(* What the shape says of the root.                                        *)
LEMMA RootFacts ==
  ASSUME Shape
  PROVE  /\ prog \in Programs /\ IsProgram(prog) /\ Rooted(prog) /\ 1 \in DOMAIN prog
         /\ calls \in Seq(Frames) /\ Len(calls) \in Nat /\ found \in Seq(FoundIn(prog))
         /\ Len(found) \in Nat /\ Len(prog[1].kids) \in Nat
         /\ Keeping(calls, Len(found)) /\ (calls = <<>> <=> Len(calls) = 0)
         /\ Len(calls) > 0 =>
              /\ calls[1].op = "sequence" /\ calls[1].node = 1 /\ calls[1] \in SequenceFrames
              /\ calls[1].i \in 1..(Len(prog[1].kids) + 1) /\ calls[1].i \in Nat
              /\ calls[1].called => calls[1].i \in 1..Len(prog[1].kids)
         /\ Len(calls) > 1 =>
              /\ calls[1].called /\ calls[2].op \in {"sequence", "occurrences"}
              /\ calls[2].node = prog[1].kids[calls[1].i] /\ calls[2].node \in RootKids(prog)
         /\ \A k \in 3..Len(calls) : calls[k].op = "occurrences" => calls[k].node \notin RootKids(prog)
<1>1. /\ prog \in Programs /\ IsProgram(prog) /\ Rooted(prog) /\ found \in Seq(FoundIn(prog))
  BY ProgramsAssumption, RootedAssumption DEF Shape, Typed
<1>2. 1 \in DOMAIN prog /\ Len(found) \in Nat
  BY <1>1, LenProperties DEF IsProgram
<1>3. Len(prog[1].kids) \in Nat
  BY <1>1, <1>2, NodeFacts
<1>4. Stack(prog, Len(input), calls, end) /\ Keeping(calls, Len(found))
  BY DEF Shape, Whole
<1>5. calls \in Seq(Frames) /\ Len(calls) \in Nat /\ (calls = <<>> <=> Len(calls) = 0)
  BY <1>4, LenProperties, EmptySeq DEF Stack
<1>6. ASSUME Len(calls) > 0
      PROVE  /\ calls[1].op = "sequence" /\ calls[1].node = 1 /\ calls[1] \in SequenceFrames
             /\ calls[1].i \in 1..(Len(prog[1].kids) + 1) /\ calls[1].i \in Nat
             /\ calls[1].called => calls[1].i \in 1..Len(prog[1].kids)
  <2>1. 1 \in 1..Len(calls)
    BY <1>5, <1>6
  <2>2. Good(prog, Len(input), calls[1]) /\ calls[1].op = "sequence" /\ calls[1].node = 1
    BY <1>4, <1>6, <2>1 DEF Stack
  <2>3. GoodSequence(prog, calls[1])
    BY <2>2, GoodOps
  <2> QED BY <1>3, <2>2, <2>3 DEF GoodSequence
<1>7. /\ Len(calls) > 1 =>
           /\ calls[1].called /\ calls[2].op \in {"sequence", "occurrences"}
           /\ calls[2].node = prog[1].kids[calls[1].i] /\ calls[2].node \in RootKids(prog)
      /\ \A k \in 3..Len(calls) : calls[k].op = "occurrences" => calls[k].node \notin RootKids(prog)
  BY <1>1, <1>4, UnderRoot
<1> QED BY <1>1, <1>2, <1>3, <1>4, <1>5, <1>6, <1>7

(* A step above the root, or above the loop over one of its kids, counts   *)
(* nothing.                                                                *)
LEMMA CountsAbove ==
  ASSUME Shape, Shape', Counts(prog, calls, signal, found), Len(calls) > 1, Len(calls') > 1,
         calls'[1] = calls[1], calls'[2].op = "occurrences" => calls'[2] = calls[2],
         Holds(prog, calls', found'), Tallies(prog, found') = Tallies(prog, found)
  PROVE  Counts(prog, calls', signal', found')
<1>1. Len(calls) \in Nat /\ Len(calls') \in Nat
  <2>1. calls' \in Seq(Frames)
    BY DEF Shape, Whole, Stack
  <2> QED BY <2>1, RootFacts, LenProperties
<1>2. ~Lost(calls, signal)
  BY <1>1 DEF Lost
<1>3. RootGoes(prog, calls, Tallies(prog, found))
  BY <1>2 DEF Counts
<1> DEFINE d == calls'
           t == Tallies(prog, found)
<1> HIDE DEF t
<1>4. RootGoes(prog, d, t)
  <2>1. /\ Len(d) \in Nat /\ Len(d) > 1 /\ d[1] = calls[1]
        /\ d[2].op = "occurrences" => d[2] = calls[2]
    BY <1>1
  <2> HIDE DEF d
  <2> QED BY <1>1, <1>3, <2>1, RootStays DEF t
<1> QED BY <1>4 DEF Counts, t

(* What is found is kept while loops that have called stay or return.      *)
LEMMA HoldsStill ==
  ASSUME Shape, Shape', Holds(prog, calls, found), Under(calls', calls), found' = found
  PROVE  Holds(prog, calls', found')
<1> DEFINE d == calls'
           g == found'
<1>1. calls' \in Seq(Frames) /\ Keeping(calls', Len(found')) /\ found \in Seq(FoundIn(prog))
  BY DEF Shape, Whole, Stack, Typed
<1>2. d \in Seq(Frames) /\ Keeping(d, Len(found)) /\ Under(d, calls)
  BY <1>1
<1>3. Begins(found, found)
  BY <1>1, LenProperties DEF Begins
<1> HIDE DEF d
<1>4. Holds(prog, d, found)
  BY <1>1, <1>2, <1>3, HoldsCut
<1> QED BY <1>4 DEF d

(* The stack when the top returns.                                         *)
LEMMA TopReturns ==
  ASSUME Shape, calls # <<>>, NEW r, Returns(r)
  PROVE  /\ Under(calls', calls) /\ Len(calls') = Len(calls) - 1 /\ signal' = r
         /\ \A k \in 1..(Len(calls) - 1) : calls'[k] = calls[k]
<1>1. calls \in Seq(Frames) /\ Below = Rest(calls)
  BY RootFacts, ShapeFacts
<1>2. calls' = Rest(calls) /\ signal' = r
  BY <1>1 DEF Returns
<1> DEFINE d == Rest(calls)
<1>3. Under(d, calls) /\ Len(d) = Len(calls) - 1 /\ \A k \in 1..(Len(calls) - 1) : d[k] = calls[k]
  BY <1>1, UnderRest, RestFacts
<1>4. calls' = d
  BY <1>2
<1> HIDE DEF d
<1> QED BY <1>2, <1>3, <1>4

(* The stack when the top goes on.                                         *)
LEMMA TopGoesOn ==
  ASSUME Shape, calls # <<>>, NEW b \in Frames, ~CalledLoop(b), calls' = Append(Below, b)
  PROVE  /\ Under(calls', calls) /\ Len(calls') = Len(calls) /\ calls'[Len(calls)] = b
         /\ \A k \in 1..(Len(calls) - 1) : calls'[k] = calls[k]
<1>1. calls \in Seq(Frames) /\ Below = Rest(calls)
  BY RootFacts, ShapeFacts
<1> DEFINE d == Append(Rest(calls), b)
<1>2. /\ Under(d, calls) /\ Len(d) = Len(calls) /\ d[Len(calls)] = b
      /\ \A k \in 1..(Len(calls) - 1) : d[k] = calls[k]
  BY <1>1, UnderOther, OtherTop
<1>3. calls' = d
  BY <1>1
<1> HIDE DEF d
<1> QED BY <1>2, <1>3

(* The stack when the top calls.                                           *)
LEMMA TopCalls ==
  ASSUME Shape, calls # <<>>, NEW b \in Frames, ~CalledLoop(b), NEW e \in Frames, ~CalledLoop(e),
         calls' = Append(Append(Below, b), e)
  PROVE  /\ Under(calls', calls) /\ Len(calls') = Len(calls) + 1
         /\ calls'[Len(calls)] = b /\ calls'[Len(calls) + 1] = e
         /\ \A k \in 1..(Len(calls) - 1) : calls'[k] = calls[k]
<1>1. calls \in Seq(Frames) /\ Below = Rest(calls) /\ Len(calls) \in Nat /\ Len(calls) > 0
  BY RootFacts, ShapeFacts
<1> DEFINE n == Len(calls)
           d == Append(Rest(calls), b)
           g == Append(d, e)
<1>2. /\ Under(d, calls) /\ Len(d) = n /\ d[n] = b /\ d \in Seq(Frames)
      /\ \A k \in 1..(n - 1) : d[k] = calls[k]
  BY <1>1, UnderOther, OtherTop
<1>3. calls' = g
  BY <1>1
<1> HIDE DEF d
<1>4. Under(g, calls) /\ Len(g) = Len(d) + 1 /\ g[Len(d) + 1] = e /\ \A k \in 1..Len(d) : g[k] = d[k]
  BY <1>2, UnderMore, OneMore
<1> HIDE DEF g
<1>5. n \in 1..n /\ \A k \in 1..(n - 1) : k \in 1..n
  BY <1>1
<1> QED BY <1>2, <1>3, <1>4, <1>5

(* A sequence under the root, or one that is called by it, counts nothing. *)
LEMMA SequenceCounts ==
  ASSUME Shape, Shape', In("sequence"), found' = found, Len(calls) > 1,
         Counts(prog, calls, signal, found),
         \/ \E r : Returns(r)
         \/ \E b \in SequenceFrames : calls' = Append(Below, b)
         \/ \E b \in SequenceFrames, e \in Frames :
              ~CalledLoop(e) /\ calls' = Append(Append(Below, b), e)
  PROVE  Counts(prog, calls', signal', found')
<1> DEFINE n == Len(calls)
<1>1. /\ calls # <<>> /\ n \in Nat /\ n > 1 /\ Holds(prog, calls, found) /\ Top = calls[n] /\ Top.op = "sequence"
  BY RootFacts DEF In, Counts, Top
<1>2. \A b \in SequenceFrames : b \in Frames /\ b.op = "sequence" /\ ~CalledLoop(b)
  BY DEF Frames, SequenceFrames, CalledLoop
<1>3. n \in Nat /\ n > 1
  BY <1>1
<1> HIDE DEF n
<1>7. 1 \in 1..(n - 1) /\ n # 1 /\ n # 0 /\ (n = 2 \/ 2 \in 1..(n - 1))
  BY <1>3
<1>4. ASSUME NEW r, Returns(r) PROVE Counts(prog, calls', signal', found')
  <2>1. /\ Under(calls', calls) /\ Len(calls') = n - 1
        /\ \A k \in 1..(n - 1) : calls'[k] = calls[k]
    BY <1>1, <1>4, TopReturns DEF n
  <2>2. Holds(prog, calls', found')
    BY <1>1, <2>1, HoldsStill
  <2>3. CASE n = 2
    <3> DEFINE d == calls'
               t == Tallies(prog, found)
               i == calls[1].i
    <3>1. /\ Len(d) = 1 /\ d[1] = calls[1] /\ IsProgram(prog) /\ i \in Nat /\ i \in 1..Len(prog[1].kids)
          /\ calls[2].node = prog[1].kids[i] /\ calls[2].op = "sequence"
      BY <1>1, <1>3, <1>7, <2>1, <2>3, RootFacts DEF n
    <3>2. RootGoes(prog, calls, t)
      BY <1>1, <2>3 DEF Counts, Lost, n
    <3>3. Good(prog, Len(input), calls[2])
      BY <1>1, <2>3, ShapeFacts DEF n
    <3>4. prog[calls[2].node].kind = "sequence"
      BY <3>1, <3>3, GoodOps DEF GoodSequence
    <3>5. InRange(prog, t, i)
      BY <3>1, <3>4 DEF InRange
    <3> HIDE DEF d, t
    <3>6. RootGoes(prog, d, t)
      BY <1>1, <2>3, <3>1, <3>2, <3>5, RootAnswers DEF n
    <3> QED BY <2>2, <3>6 DEF Counts, d, t
  <2>4. CASE n # 2
    <3>1. Len(calls') > 1 /\ calls'[1] = calls[1] /\ calls'[2] = calls[2]
      <4>1. 2 \in 1..(n - 1) /\ n - 1 > 1
        BY <1>3, <2>4
      <4> QED BY <1>3, <1>7, <2>1, <4>1
    <3> QED BY <2>2, <3>1, CountsAbove
  <2> QED BY <2>3, <2>4
<1>5. ASSUME NEW b \in SequenceFrames, calls' = Append(Below, b)
      PROVE  Counts(prog, calls', signal', found')
  <2>1. /\ Under(calls', calls) /\ Len(calls') = n /\ calls'[n] = b
        /\ \A k \in 1..(n - 1) : calls'[k] = calls[k]
    BY <1>1, <1>2, <1>5, TopGoesOn DEF n
  <2>2. Holds(prog, calls', found')
    BY <1>1, <2>1, HoldsStill
  <2>3. calls'[1] = calls[1]
    BY <1>3, <1>7, <2>1
  <2>4. calls'[2].op = "occurrences" => calls'[2] = calls[2]
    BY <1>2, <1>7, <2>1
  <2> QED BY <2>1, <2>2, <2>3, <2>4, CountsAbove DEF n
<1>6. ASSUME NEW b \in SequenceFrames, NEW e \in Frames,
             ~CalledLoop(e), calls' = Append(Append(Below, b), e)
      PROVE  Counts(prog, calls', signal', found')
  <2>1. /\ Under(calls', calls) /\ Len(calls') = n + 1 /\ calls'[n] = b
        /\ \A k \in 1..(n - 1) : calls'[k] = calls[k]
    BY <1>1, <1>2, <1>6, TopCalls DEF n
  <2>2. Holds(prog, calls', found')
    BY <1>1, <2>1, HoldsStill
  <2>3. calls'[1] = calls[1] /\ Len(calls') > 1
    BY <1>1, <1>3, <1>7, <2>1
  <2>4. calls'[2].op = "occurrences" => calls'[2] = calls[2]
    BY <1>2, <1>7, <2>1
  <2> QED BY <2>2, <2>3, <2>4, CountsAbove
<1> QED BY <1>4, <1>5, <1>6

----------------------------------------------------------------------------
(* The steps of the root.                                                  *)

(* The root on top.                                                        *)
LEMMA RootOnTop ==
  ASSUME Shape, Len(calls) = 1
  PROVE  /\ calls # <<>> /\ Top = calls[1] /\ Top.node = 1 /\ Node = prog[1] /\ Kid(Top) = prog[1].kids[Top.i]
         /\ Top.i \in 1..(Len(prog[1].kids) + 1) /\ Top.i \in Nat /\ Len(prog[1].kids) \in Nat
BY RootFacts DEF Top, Node, Kid

(* The root is lost, and what it holds is nothing.                         *)
LEMMA RootLost ==
  ASSUME Shape, Shape', Len(calls) = 1, Holds(prog, calls, found), found' = found,
         NEW r \in {"fail", "empty"}, Returns(r)
  PROVE  Counts(prog, calls', signal', found')
<1>1. calls # <<>> /\ Len(calls) \in Nat
  BY RootFacts
<1>2. Under(calls', calls) /\ Len(calls') = Len(calls) - 1 /\ signal' = r
  BY <1>1, TopReturns
<1>3. Holds(prog, calls', found')
  BY <1>2, HoldsStill
<1>4. Lost(calls', signal')
  <2>1. Len(calls') = 0
    BY <1>1, <1>2
  <2> QED BY <1>2, <2>1 DEF Lost
<1> QED BY <1>3, <1>4 DEF Counts

(* The root calls the loop over its child, or its sequence.                *)
LEMMA RootCalls ==
  ASSUME NEW p, IsProgram(p), NEW c, NEW d, NEW t, RootGoes(p, c, t), Len(c) = 1, ~c[1].called,
         Len(d) = 2, d[1].called, d[1].i = c[1].i, c[1].i \in 1..Len(p[1].kids),
         d[2].node = p[1].kids[c[1].i],
         d[2].op = "occurrences" => d[2].n = 0 /\ ~d[2].called
  PROVE  RootGoes(p, d, t)
<1> DEFINE i == c[1].i
           N == Len(p[1].kids)
<1>1. 1 \in DOMAIN p /\ N \in Nat /\ p[1].kids \in Seq(Nat) /\ i \in 1..N
  BY NodeFacts DEF IsProgram
<1>2. InOrder(p, t) /\ Passed(p, t, i) /\ Ahead(p, t, i)
  BY DEF RootGoes, RootSays
<1>3. Ahead(p, t, i + 1)
  <2>1. \A x \in (i + 1)..N : x \in i..N
    BY <1>1
  <2> QED BY <1>2, <2>1 DEF Ahead
<1>4. RootSays(p, t, d[1])
  BY <1>2, <1>3 DEF RootSays
<1>5. ASSUME d[2].op = "occurrences" PROVE LoopSays(p, t, d[2])
  <2>1. i \in i..N /\ d[2].node = p[1].kids[i] /\ d[2].node \in DOMAIN p
    BY <1>1, NodeFacts
  <2>2. t[d[2].node] = {}
    BY <1>2, <2>1 DEF Ahead
  <2>3. Cardinality(t[d[2].node]) = 0
    BY <2>2, FS_EmptySet
  <2>4. LimitOf(p, d[2].node) \in Nat
    BY <2>1, NodeFacts, UnboundedAssumption DEF LimitOf
  <2> QED BY <1>5, <2>3, <2>4 DEF LoopSays
<1>6. Len(d) > 0 /\ Len(d) # 0 /\ Len(d) # 1
  OBVIOUS
<1> QED BY <1>2, <1>4, <1>5, <1>6, Zenon DEF RootGoes

(* The root goes to the next child.                                        *)
LEMMA RootMoves ==
  ASSUME NEW p, NEW c, NEW d, NEW t, RootGoes(p, c, t), Len(c) = 1, c[1].called,
         Len(d) = 1, ~d[1].called, c[1].i \in Nat, d[1].i = c[1].i + 1
  PROVE  RootGoes(p, d, t)
<1> DEFINE i == c[1].i
<1>1. InOrder(p, t) /\ Passed(p, t, i + 1) /\ Ahead(p, t, i + 1)
  BY DEF RootGoes, RootSays
<1>2. Ahead(p, t, (i + 1) + 1)
  <2>1. \A x : x \in ((i + 1) + 1)..Len(p[1].kids) => x \in (i + 1)..Len(p[1].kids)
    OBVIOUS
  <2> QED BY <1>1, <2>1 DEF Ahead
<1>3. RootSays(p, t, d[1])
  BY <1>1, <1>2 DEF RootSays
<1>4. Len(d) > 0 /\ Len(d) # 0 /\ ~(Len(d) > 1)
  OBVIOUS
<1> QED BY <1>1, <1>3, <1>4, Zenon DEF RootGoes

(* The root ends.                                                          *)
LEMMA RootIsOver ==
  ASSUME NEW p, NEW c, NEW d, NEW t, RootGoes(p, c, t), Len(c) = 1,
         Len(d) = 0, c[1].i = Len(p[1].kids) + 1
  PROVE  RootGoes(p, d, t)
<1>1. InOrder(p, t) /\ Passed(p, t, Len(p[1].kids) + 1)
  BY DEF RootGoes, RootSays
<1>2. ~(Len(d) > 0) /\ Len(d) # 1 /\ ~(Len(d) > 1)
  OBVIOUS
<1> QED BY <1>1, <1>2, Zenon DEF RootGoes

(* The steps of sequences count nothing.                                   *)
LEMMA StepCounts ==
  ASSUME Shape, Shape', prog[1].policy \notin Trailing, SequenceStep,
         Counts(prog, calls, signal, found)
  PROVE  Counts(prog, calls', signal', found')
<1>1. In("sequence") /\ signal = "run" /\ ~Top.called /\ Top.i <= Len(Node.kids) /\ found' = found
  BY DEF SequenceStep
<1>2. /\ \/ Returns("fail")
         \/ \E b \in SequenceFrames, d \in Frames :
              /\ calls' = Append(Append(Below, b), d)
              /\ b.i = Top.i /\ b.called /\ d.node = Kid(Top) /\ ~CalledLoop(d)
              /\ d.op \in {"sequence", "occurrences"}
              /\ d.op = "occurrences" => d.n = 0 /\ ~d.called
         \/ prog[Top.node].policy \in Trailing /\ \E b \in SequenceFrames : calls' = Append(Below, b)
      /\ calls # <<>> /\ Len(calls) \in Nat /\ Len(calls) > 0
  BY <1>1, SequenceStepResult, RootFacts DEF In
<1>3. CASE Len(calls) > 1
  BY <1>1, <1>2, <1>3, SequenceCounts
<1>4. CASE Len(calls) = 1
  <2>1. /\ Top = calls[1] /\ Top.node = 1 /\ Node = prog[1] /\ Kid(Top) = prog[1].kids[Top.i]
        /\ Top.i \in 1..(Len(prog[1].kids) + 1) /\ Len(prog[1].kids) \in Nat /\ IsProgram(prog)
    BY <1>4, RootOnTop, RootFacts
  <2>2. Holds(prog, calls, found) /\ RootGoes(prog, calls, Tallies(prog, found))
    BY <1>1 DEF Counts, Lost
  <2>3. CASE Returns("fail")
    BY <1>1, <1>4, <2>2, <2>3, RootLost
  <2>4. ASSUME NEW b \in SequenceFrames, NEW e \in Frames,
               calls' = Append(Append(Below, b), e),
               b.i = Top.i, b.called, e.node = Kid(Top), ~CalledLoop(e),
               e.op = "occurrences" => e.n = 0 /\ ~e.called
        PROVE  Counts(prog, calls', signal', found')
    <3>1. b \in Frames /\ ~CalledLoop(b)
      BY DEF Frames, SequenceFrames, CalledLoop
    <3>2. /\ Under(calls', calls) /\ Len(calls') = Len(calls) + 1
          /\ calls'[Len(calls)] = b /\ calls'[Len(calls) + 1] = e
      BY <1>2, <2>4, <3>1, TopCalls
    <3>3. Holds(prog, calls', found')
      BY <1>1, <2>2, <3>2, HoldsStill
    <3> DEFINE d == calls'
               t == Tallies(prog, found)
               i == calls[1].i
    <3>4. Len(d) = 2 /\ d[1] = b /\ d[2] = e
      BY <1>4, <3>2
    <3>5. i \in 1..Len(prog[1].kids) /\ ~calls[1].called
      <4> DEFINE N == Len(prog[1].kids)
      <4>1. Top.i \in 1..(N + 1) /\ N \in Nat /\ Top.i <= N
        BY <1>1, <2>1
      <4> HIDE DEF N
      <4>2. Top.i \in 1..N
        BY <4>1
      <4> QED BY <1>1, <2>1, <4>2 DEF N
    <3>6. /\ d[1].called /\ d[1].i = i /\ d[2].node = prog[1].kids[i]
          /\ d[2].op = "occurrences" => d[2].n = 0 /\ ~d[2].called
      BY <2>1, <2>4, <3>4
    <3> HIDE DEF d, t
    <3>7. RootGoes(prog, d, t)
      BY <1>4, <2>1, <2>2, <3>4, <3>5, <3>6, RootCalls DEF t
    <3> QED BY <1>1, <3>3, <3>7 DEF Counts, d, t
  <2> QED BY <1>2, <2>1, <2>3, <2>4
<1>5. Len(calls) > 1 \/ Len(calls) = 1
  <2> DEFINE n == Len(calls)
  <2>1. n \in Nat /\ n > 0
    BY <1>2
  <2> HIDE DEF n
  <2>2. n > 1 \/ n = 1
    BY <2>1
  <2> QED BY <2>2 DEF n
<1> QED BY <1>3, <1>4, <1>5

(* The answers of children count nothing.                                  *)
LEMMA ChildCounts ==
  ASSUME Shape, Shape', prog[1].policy \notin Trailing, SequenceChild,
         Counts(prog, calls, signal, found)
  PROVE  Counts(prog, calls', signal', found')
<1>1. In("sequence") /\ Top.called /\ found' = found
  BY DEF SequenceChild
<1>2. /\ \/ Returns("fail") \/ Returns("empty")
         \/ /\ signal \in {"ok", "absent"} /\ signal' = "run"
            /\ \E b \in SequenceFrames :
                 /\ calls' = Append(Below, b) /\ ~b.called
                 /\ prog[Top.node].policy \notin Trailing => b.i = Top.i + 1
      /\ calls # <<>> /\ Len(calls) \in Nat /\ Len(calls) > 0
  BY <1>1, SequenceChildResult, RootFacts DEF In
<1>3. CASE Len(calls) > 1
  BY <1>1, <1>2, <1>3, SequenceCounts
<1>4. CASE Len(calls) = 1
  <2>1. Top = calls[1] /\ Top.node = 1 /\ Top.i \in Nat
    BY <1>4, RootOnTop
  <2>2. Holds(prog, calls, found)
    BY DEF Counts
  <2>3. CASE Returns("fail") \/ Returns("empty")
    BY <1>1, <1>4, <2>2, <2>3, RootLost
  <2>4. ASSUME signal \in {"ok", "absent"}, NEW b \in SequenceFrames,
               calls' = Append(Below, b), ~b.called, b.i = Top.i + 1
        PROVE  Counts(prog, calls', signal', found')
    <3>1. b \in Frames /\ ~CalledLoop(b)
      BY DEF Frames, SequenceFrames, CalledLoop
    <3>2. Under(calls', calls) /\ Len(calls') = Len(calls) /\ calls'[Len(calls)] = b
      BY <1>2, <2>4, <3>1, TopGoesOn
    <3>3. Holds(prog, calls', found')
      BY <1>1, <2>2, <3>2, HoldsStill
    <3> DEFINE d == calls'
               t == Tallies(prog, found)
    <3>4. RootGoes(prog, calls, t)
      BY <2>4 DEF Counts, Lost
    <3>5. Len(d) = 1 /\ ~d[1].called /\ d[1].i = calls[1].i + 1 /\ calls[1].i \in Nat /\ calls[1].called
      BY <1>1, <1>4, <2>1, <2>4, <3>2
    <3> HIDE DEF d, t
    <3>6. RootGoes(prog, d, t)
      BY <1>4, <3>4, <3>5, RootMoves
    <3> QED BY <1>1, <3>3, <3>6 DEF Counts, d, t
  <2> QED BY <1>2, <2>1, <2>3, <2>4
<1>5. Len(calls) > 1 \/ Len(calls) = 1
  <2> DEFINE n == Len(calls)
  <2>1. n \in Nat /\ n > 0
    BY <1>2
  <2> HIDE DEF n
  <2>2. n > 1 \/ n = 1
    BY <2>1
  <2> QED BY <2>2 DEF n
<1> QED BY <1>3, <1>4, <1>5

(* The end of a sequence counts nothing.                                   *)
LEMMA EndCounts ==
  ASSUME Shape, Shape', SequenceEnds, Counts(prog, calls, signal, found)
  PROVE  Counts(prog, calls', signal', found')
<1>1. In("sequence") /\ signal = "run" /\ Top.i > Len(Node.kids) /\ found' = found
  BY DEF SequenceEnds
<1>2. /\ Returns("fail") \/ Returns("ok")
      /\ calls # <<>> /\ Len(calls) \in Nat /\ Len(calls) > 0
  BY <1>1, RootFacts DEF SequenceEnds, Return, Returns, In
<1>3. CASE Len(calls) > 1
  BY <1>1, <1>2, <1>3, SequenceCounts
<1>4. CASE Len(calls) = 1
  <2>1. /\ Top = calls[1] /\ Node = prog[1]
        /\ Top.i \in 1..(Len(prog[1].kids) + 1) /\ Len(prog[1].kids) \in Nat
    BY <1>4, RootOnTop
  <2>2. Holds(prog, calls, found)
    BY DEF Counts
  <2>3. CASE Returns("fail")
    BY <1>1, <1>4, <2>2, <2>3, RootLost
  <2>4. CASE Returns("ok")
    <3>1. Under(calls', calls) /\ Len(calls') = Len(calls) - 1
      BY <1>2, <2>4, TopReturns
    <3>2. Holds(prog, calls', found')
      BY <1>1, <2>2, <3>1, HoldsStill
    <3> DEFINE d == calls'
               t == Tallies(prog, found)
    <3>3. RootGoes(prog, calls, t)
      BY <1>1 DEF Counts, Lost
    <3>4. Len(d) = 0
      BY <1>4, <3>1
    <3>6. calls[1].i = Len(prog[1].kids) + 1
      <4> DEFINE N == Len(prog[1].kids)
      <4>1. calls[1].i \in 1..(N + 1) /\ N \in Nat /\ calls[1].i > N
        BY <1>1, <2>1
      <4> HIDE DEF N
      <4>2. calls[1].i = N + 1
        BY <4>1
      <4> QED BY <4>2 DEF N
    <3> HIDE DEF d, t
    <3>5. RootGoes(prog, d, t)
      BY <1>4, <3>3, <3>4, <3>6, RootIsOver
    <3> QED BY <1>1, <3>2, <3>5 DEF Counts, d, t
  <2> QED BY <1>2, <2>3, <2>4
<1>5. Len(calls) > 1 \/ Len(calls) = 1
  <2> DEFINE n == Len(calls)
  <2>1. n \in Nat /\ n > 0
    BY <1>2
  <2> HIDE DEF n
  <2>2. n > 1 \/ n = 1
    BY <2>1
  <2> QED BY <2>2 DEF n
<1> QED BY <1>3, <1>4, <1>5

----------------------------------------------------------------------------
(* The loops, as the counts see them.                                      *)

(* A loop on top: of a kid of the root when it is the second frame, and of *)
(* none when it is further up.                                             *)
LEMMA LoopOnTop ==
  ASSUME Shape, In("occurrences")
  PROVE  /\ calls # <<>> /\ Len(calls) \in Nat /\ Len(calls) > 1 /\ Top = calls[Len(calls)]
         /\ Top.op = "occurrences" /\ Top \in LoopFrames /\ Top.n \in Nat
         /\ Top.node \in DOMAIN prog /\ Top.node \in Nat
         /\ LimitOf(prog, Top.node) \in Nat /\ prog[Top.node].min \in Nat
         /\ Len(calls) = 2 => Top.node \in RootKids(prog) /\ Top.node = prog[1].kids[calls[1].i]
         /\ Len(calls) > 2 => Top.node \notin RootKids(prog)
<1> DEFINE n == Len(calls)
<1>1. /\ calls # <<>> /\ n \in Nat /\ n > 0 /\ Top = calls[n] /\ Top.op = "occurrences"
  BY RootFacts DEF In, Top
<1>2. Good(prog, Len(input), Top) /\ IsProgram(prog)
  BY <1>1, ShapeFacts
<1>3. GoodLoop(prog, Top) /\ Top.node \in DOMAIN prog
  BY <1>1, <1>2, GoodOps DEF Good
<1>4. Top \in LoopFrames /\ Top.n \in Nat /\ Top.node \in Nat
  BY <1>3 DEF GoodLoop, LoopFrames
<1>5. LimitOf(prog, Top.node) \in Nat /\ prog[Top.node].min \in Nat
  BY <1>2, <1>3, NodeFacts, UnboundedAssumption DEF LimitOf
<1>6. n > 1
  <2>1. n # 1
    BY <1>1, RootFacts
  <2> HIDE DEF n
  <2> QED BY <1>1, <2>1
<1>7. n = 2 => Top.node \in RootKids(prog) /\ Top.node = prog[1].kids[calls[1].i]
  BY <1>1, <1>6, RootFacts
<1>8. n > 2 => Top.node \notin RootKids(prog)
  <2>1. n > 2 => n \in 3..n
    <3> HIDE DEF n
    <3> QED BY <1>1
  <2> QED BY <1>1, <2>1, RootFacts
<1> QED BY <1>1, <1>3, <1>4, <1>5, <1>6, <1>7, <1>8

(* The loop on top returns, or goes on.                                    *)
LoopMoves ==
  \/ \E r : Returns(r)
  \/ \E b \in LoopFrames : ~b.called /\ calls' = Append(Below, b)

(* What is under it stays.                                                 *)
LEMMA MovesFacts ==
  ASSUME Shape, Shape', In("occurrences"), LoopMoves
  PROVE  /\ Under(calls', calls) /\ calls' \in Seq(Frames) /\ Keeping(calls', Len(found'))
         /\ calls'[1] = calls[1]
         /\ Len(calls) > 2 => Len(calls') > 1 /\ (calls'[2].op = "occurrences" => calls'[2] = calls[2])
         /\ Len(calls) = 2 => \A k \in 1..Len(calls') : ~CalledLoop(calls'[k])
<1> DEFINE n == Len(calls)
<1>1. calls' \in Seq(Frames) /\ Keeping(calls', Len(found'))
  BY DEF Shape, Whole, Stack
<1>2. calls # <<>> /\ n \in Nat /\ n > 1
  BY LoopOnTop
<1>3. 1 \in 1..(n - 1) /\ (n > 2 => 2 \in 1..(n - 1) /\ n - 1 > 1)
  <2> HIDE DEF n
  <2> QED BY <1>2
<1>4. calls[1].op = "sequence" /\ ~CalledLoop(calls[1])
  <2>1. Len(calls) > 0
    <3> HIDE DEF n
    <3>1. n > 0
      BY <1>2
    <3> QED BY <3>1 DEF n
  <2> QED BY <2>1, RootFacts DEF CalledLoop
<1>5. ASSUME NEW r, Returns(r)
      PROVE  /\ Under(calls', calls) /\ Len(calls') = n - 1
             /\ \A k \in 1..(n - 1) : calls'[k] = calls[k]
  BY <1>2, <1>5, TopReturns
<1>6. ASSUME NEW b \in LoopFrames, ~b.called, calls' = Append(Below, b)
      PROVE  /\ Under(calls', calls) /\ Len(calls') = n /\ calls'[n] = b /\ ~CalledLoop(b)
             /\ \A k \in 1..(n - 1) : calls'[k] = calls[k]
  <2>1. b \in Frames /\ ~CalledLoop(b)
    BY <1>6 DEF Frames, CalledLoop
  <2> QED BY <1>2, <1>6, <2>1, TopGoesOn
<1>7. /\ Under(calls', calls) /\ \A k \in 1..(n - 1) : calls'[k] = calls[k]
      /\ Len(calls') = n - 1 \/ (Len(calls') = n /\ ~CalledLoop(calls'[n]))
  BY <1>5, <1>6 DEF LoopMoves
<1> DEFINE d == calls'
<1>8. /\ \A k \in 1..(n - 1) : d[k] = calls[k]
      /\ Len(d) = n - 1 \/ (Len(d) = n /\ ~CalledLoop(d[n]))
  BY <1>7
<1> HIDE DEF d, n
<1>9. d[1] = calls[1] /\ (n > 2 => Len(d) > 1 /\ d[2] = calls[2])
  BY <1>2, <1>3, <1>8
<1>10. ASSUME n = 2, NEW k \in 1..Len(d) PROVE ~CalledLoop(d[k])
  <2>1. k = 1 \/ (k = 2 /\ Len(d) = n)
    <3>1. Len(d) = n - 1 \/ Len(d) = n
      BY <1>8
    <3>2. CASE Len(d) = n
      <4>1. k \in 1..2
        BY <1>10, <3>2
      <4> QED BY <3>2, <4>1
    <3>3. CASE Len(d) = n - 1
      <4>1. Len(d) = 1
        BY <1>10, <3>3
      <4>2. k \in 1..1
        BY <4>1
      <4> QED BY <4>2
    <3> QED BY <3>1, <3>2, <3>3
  <2> QED BY <1>4, <1>8, <1>9, <1>10, <2>1
<1> QED BY <1>1, <1>7, <1>9, <1>10 DEF d, n

(* What a loop on top makes of what is found: the same, with an event of   *)
(* its own more, or without its open item.                                 *)
LoopFinds ==
  \/ found' = found
  \/ \E e \in FoundIn(prog) : found' = Append(found, e) /\ e.node = Top.node
  \/ Top.called /\ found' = SubSeq(found, 1, Top.keep)

(* What is found before the open item.                                     *)
LEMMA BeforeItem ==
  ASSUME Shape, In("occurrences"), Top.called, Holds(prog, calls, found)
  PROVE  LET g == SubSeq(found, 1, Top.keep) IN
         /\ g \in Seq(FoundIn(prog)) /\ Begins(g, found) /\ Len(g) = Top.keep /\ Len(g) < Len(found)
         /\ Top.keep \in Nat /\ Len(found) \in Nat
         /\ found[Len(g) + 1].node = Top.node /\ found[Len(g) + 1].what # "none"
         /\ \A k \in (Len(g) + 2)..Len(found) : found[k].node \notin RootKids(prog)
<1> DEFINE g == SubSeq(found, 1, Top.keep)
           n == Len(calls)
<1>1. /\ g \in Seq(FoundIn(prog)) /\ Len(g) = Top.keep /\ Top.keep < Len(found) /\ Top.keep \in Nat
      /\ \A k \in 1..Top.keep : g[k] = found[k]
      /\ CalledLoop(Top)
  BY ItemFacts
<1>2. n \in Nat /\ n > 1 /\ Top = calls[n] /\ Len(found) \in Nat
  BY LoopOnTop, RootFacts
<1>3. n \in 1..n
  <2> HIDE DEF n
  <2> QED BY <1>2
<1>4. /\ found[Top.keep + 1].node = Top.node /\ found[Top.keep + 1].what = "open"
      /\ \A j \in (Top.keep + 2)..Len(found) : found[j].node \notin RootKids(prog)
  BY <1>1, <1>2, <1>3 DEF Holds
<1> HIDE DEF g
<1>5. Begins(g, found)
  BY <1>1, <1>2 DEF Begins
<1> QED BY <1>1, <1>2, <1>4, <1>5 DEF g

(* A loop on top holds what is found under open items.                     *)
LEMMA LoopHolds ==
  ASSUME Shape, Shape', In("occurrences"), Holds(prog, calls, found), LoopMoves, LoopFinds
  PROVE  Holds(prog, calls', found')
<1> DEFINE d == calls'
           g == found'
<1>1. /\ Under(d, calls) /\ d \in Seq(Frames) /\ Keeping(d, Len(g))
      /\ Len(calls) = 2 => \A k \in 1..Len(d) : ~CalledLoop(d[k])
  BY MovesFacts
<1>2. found \in Seq(FoundIn(prog)) /\ Len(found) \in Nat
  BY RootFacts
<1> HIDE DEF d, g
<1>3. CASE g = found
  <2>1. Holds(prog, calls', found')
    BY <1>1, <1>3, HoldsStill DEF d, g
  <2> QED BY <2>1
<1>4. ASSUME NEW e \in FoundIn(prog), g = Append(found, e), e.node = Top.node
      PROVE  Holds(prog, d, g)
  <2>1. e.node \notin RootKids(prog) \/ \A k \in 1..Len(d) : ~CalledLoop(d[k])
    <3>1. Len(calls) = 2 \/ Len(calls) > 2
      <4> DEFINE n == Len(calls)
      <4>1. n \in Nat /\ n > 1
        BY LoopOnTop
      <4> HIDE DEF n
      <4>2. n = 2 \/ n > 2
        BY <4>1
      <4> QED BY <4>2 DEF n
    <3> QED BY <1>1, <1>4, <3>1, LoopOnTop
  <2>2. Keeping(d, Len(found))
    <3>1. ASSUME NEW k \in 1..Len(d), CalledLoop(d[k])
          PROVE  /\ d[k].keep < Len(found)
                 /\ \A j \in 1..(k - 1) : CalledLoop(d[j]) => d[j].keep < d[k].keep
      <4>1. k \in 1..Len(calls) /\ d[k] = calls[k]
        BY <1>1, <3>1 DEF Under
      <4>2. Keeping(calls, Len(found))
        BY RootFacts
      <4>3. ASSUME NEW j \in 1..(k - 1), CalledLoop(d[j]) PROVE d[j].keep < d[k].keep
        <5>1. j \in 1..Len(d)
          <6>1. Len(d) \in Nat
            BY <1>1, LenProperties
          <6>2. k \in 1..Len(d)
            OBVIOUS
          <6> QED BY <6>1, <6>2
        <5>2. d[j] = calls[j]
          BY <1>1, <4>3, <5>1 DEF Under
        <5> QED BY <3>1, <4>1, <4>2, <4>3, <5>2 DEF Keeping
      <4> QED BY <3>1, <4>1, <4>2, <4>3 DEF Keeping
    <3> QED BY <3>1 DEF Keeping
  <2> QED BY <1>1, <1>2, <1>4, <2>1, <2>2, HoldsMore
<1>5. CASE Top.called /\ g = SubSeq(found, 1, Top.keep)
  <2>1. g \in Seq(FoundIn(prog)) /\ Begins(g, found)
    BY <1>5, BeforeItem
  <2>2. Holds(prog, d, g)
    BY <1>1, <1>2, <2>1, HoldsCut
  <2> QED BY <2>2 DEF d, g
<1> QED BY <1>3, <1>4, <1>5 DEF LoopFinds, d, g

(* A loop further up than those over the kids of the root counts nothing.  *)
LEMMA LoopAbove ==
  ASSUME Shape, Shape', In("occurrences"), Counts(prog, calls, signal, found), Len(calls) > 2,
         LoopMoves, LoopFinds
  PROVE  Counts(prog, calls', signal', found')
<1>1. Holds(prog, calls, found) /\ found \in Seq(FoundIn(prog)) /\ Len(calls) > 1 /\ Len(found) \in Nat
  BY RootFacts, LoopOnTop DEF Counts
<1>2. Holds(prog, calls', found')
  BY <1>1, LoopHolds
<1>3. Top.node \notin RootKids(prog)
  BY LoopOnTop
<1>4. Tallies(prog, found') = Tallies(prog, found)
  <2>1. ASSUME NEW e \in FoundIn(prog), found' = Append(found, e), e.node = Top.node
        PROVE  Tallies(prog, found') = Tallies(prog, found)
    BY <1>1, <1>3, <2>1, TalliesSame
  <2>2. CASE Top.called /\ found' = SubSeq(found, 1, Top.keep)
    <3> DEFINE g == SubSeq(found, 1, Top.keep)
    <3>1. /\ g \in Seq(FoundIn(prog)) /\ Begins(g, found) /\ Len(g) \in Nat
          /\ found[Len(g) + 1].node = Top.node
          /\ \A k \in (Len(g) + 2)..Len(found) : found[k].node \notin RootKids(prog)
      BY <1>1, <2>2, BeforeItem, LenProperties
    <3> HIDE DEF g
    <3>2. ASSUME NEW k \in (Len(g) + 1)..Len(found) PROVE found[k].node \notin RootKids(prog)
      <4>1. k = Len(g) + 1 \/ k \in (Len(g) + 2)..Len(found)
        BY <1>1, <3>1
      <4> QED BY <1>3, <3>1, <4>1
    <3>3. Tallies(prog, g) = Tallies(prog, found)
      BY <1>1, <3>1, <3>2, TalliesCut
    <3> QED BY <2>2, <3>3 DEF g
  <2> QED BY <2>1, <2>2 DEF LoopFinds
<1>5. /\ Len(calls') > 1 /\ calls'[1] = calls[1]
      /\ calls'[2].op = "occurrences" => calls'[2] = calls[2]
  BY MovesFacts
<1> QED BY <1>1, <1>2, <1>4, <1>5, CountsAbove

----------------------------------------------------------------------------
(* The loops over the kids of the root.                                    *)

(* The loop over a kid of the root, on top.                                *)
LEMMA RootLoop ==
  ASSUME Shape, In("occurrences"), Len(calls) = 2, Counts(prog, calls, signal, found),
         NEW t, t = Tallies(prog, found)
  PROVE  /\ RootGoes(prog, calls, t) /\ LoopSays(prog, t, Top) /\ InOrder(prog, t)
         /\ Ahead(prog, t, calls[1].i + 1) /\ Holds(prog, calls, found)
         /\ calls[1].i \in 1..Len(prog[1].kids) /\ calls[1].i \in Nat /\ calls[1].called
         /\ Top = calls[2] /\ Top.node = prog[1].kids[calls[1].i] /\ Top.node \in RootKids(prog)
         /\ t[Top.node] = Tally(found, Top.node) /\ Cardinality(t[Top.node]) \in Nat
<1>1. Holds(prog, calls, found) /\ RootGoes(prog, calls, t)
  BY DEF Counts, Lost
<1>2. Len(calls) > 0 /\ Len(calls) > 1
  OBVIOUS
<1>3. /\ calls[1].i \in 1..Len(prog[1].kids) /\ calls[1].i \in Nat /\ calls[1].called
      /\ found \in Seq(FoundIn(prog))
  BY <1>2, RootFacts
<1>4. /\ Top = calls[2] /\ Top.op = "occurrences" /\ Top.node = prog[1].kids[calls[1].i]
      /\ Top.node \in RootKids(prog)
  BY LoopOnTop
<1>5. InOrder(prog, t) /\ RootSays(prog, t, calls[1]) /\ LoopSays(prog, t, Top)
  BY <1>1, <1>2, <1>4 DEF RootGoes
<1>6. t[Top.node] = Tally(found, Top.node)
  BY <1>4 DEF Tallies
<1>7. Cardinality(t[Top.node]) \in Nat
  BY <1>3, <1>6, TallyFacts
<1> QED BY <1>1, <1>3, <1>4, <1>5, <1>6, <1>7 DEF RootSays

(* An occurrence more.                                                     *)
LEMMA MoreTallies ==
  ASSUME Shape, In("occurrences"), Len(calls) = 2, Counts(prog, calls, signal, found),
         NEW t, t = Tallies(prog, found),
         NEW e \in FoundIn(prog), e.node = Top.node, e.what # "none",
         NEW u, u = Tallies(prog, Append(found, e))
  PROVE  /\ Differs(prog, t, u, Top.node) /\ InOrder(prog, u)
         /\ Cardinality(u[Top.node]) = Cardinality(t[Top.node]) + 1
<1> DEFINE n == Top.node
           i == calls[1].i
           k == Len(found) + 1
<1>1. /\ InOrder(prog, t) /\ Ahead(prog, t, i + 1) /\ i \in 1..Len(prog[1].kids)
      /\ n = prog[1].kids[i] /\ n \in RootKids(prog)
      /\ t[n] = Tally(found, n)
  BY RootLoop
<1>2. /\ found \in Seq(FoundIn(prog)) /\ Len(found) \in Nat /\ IsProgram(prog) /\ Rooted(prog)
  BY RootFacts
<1>3. \A m \in RootKids(prog) : t[m] = Tally(found, m) /\ u[m] = Tally(Append(found, e), m)
  BY DEF Tallies
<1>4. /\ Tally(Append(found, e), n) = Tally(found, n) \union {k}
      /\ Cardinality(Tally(Append(found, e), n)) = Cardinality(Tally(found, n)) + 1
  BY <1>2, TallyAppend
<1>5. \A m \in RootKids(prog) : m # n => u[m] = t[m]
  <2>1. ASSUME NEW m, m # n PROVE Tally(Append(found, e), m) = Tally(found, m)
    BY <1>2, <2>1, TallyAppend
  <2> QED BY <1>3, <2>1
<1>6. u[n] = t[n] \union {k} /\ Cardinality(u[n]) = Cardinality(t[n]) + 1
  BY <1>1, <1>3, <1>4
<1>7. \A m \in RootKids(prog) : t[m] \subseteq 0..(k - 1)
  BY <1>2, <1>3 DEF Tally
<1>8. k \in Nat
  BY <1>2
<1>9. Differs(prog, t, u, n)
  BY <1>5 DEF Differs
<1> HIDE DEF n, k, i
<1>10. InOrder(prog, u)
  BY <1>1, <1>2, <1>6, <1>7, <1>8, <1>9, OrderMore
<1> QED BY <1>6, <1>9, <1>10 DEF n

(* The open item is dropped.                                               *)
LEMMA LessTallies ==
  ASSUME Shape, In("occurrences"), Len(calls) = 2, Counts(prog, calls, signal, found), Top.called,
         NEW t, t = Tallies(prog, found),
         NEW u, u = Tallies(prog, SubSeq(found, 1, Top.keep))
  PROVE  /\ Differs(prog, t, u, Top.node) /\ InOrder(prog, u)
         /\ Cardinality(t[Top.node]) = Cardinality(u[Top.node]) + 1
         /\ Cardinality(u[Top.node]) \in Nat
<1> DEFINE n == Top.node
           g == SubSeq(found, 1, Top.keep)
<1>1. InOrder(prog, t) /\ n \in RootKids(prog) /\ Holds(prog, calls, found) /\ IsProgram(prog)
  BY RootLoop, RootFacts
<1>2. /\ found \in Seq(FoundIn(prog)) /\ Len(found) \in Nat
      /\ g \in Seq(FoundIn(prog)) /\ Begins(g, found) /\ Len(g) < Len(found) /\ Len(g) \in Nat
      /\ found[Len(g) + 1].node = n /\ found[Len(g) + 1].what # "none"
      /\ \A k \in (Len(g) + 2)..Len(found) : found[k].node \notin RootKids(prog)
  BY <1>1, BeforeItem, RootFacts, LenProperties
<1> HIDE DEF g, n
<1>3. \A m \in RootKids(prog) : t[m] = Tally(found, m) /\ u[m] = Tally(g, m)
  BY DEF Tallies, g
<1>4. \A k \in (Len(g) + 2)..Len(found) : found[k].node # n
  BY <1>1, <1>2
<1>5. /\ Tally(g, n) \subseteq Tally(found, n)
      /\ Cardinality(Tally(found, n)) = Cardinality(Tally(g, n)) + 1
  <2>1. found \in Seq(FoundIn(prog)) /\ g \in Seq(FoundIn(prog)) /\ Begins(g, found) /\ Len(g) < Len(found)
    BY <1>2
  <2>2. OneItem(found, g, n)
    BY <1>2, <1>4 DEF OneItem
  <2> QED BY <2>1, <2>2, TallyCutItem
<1>6. ASSUME NEW m \in RootKids(prog), m # n PROVE u[m] = t[m]
  <2>1. ASSUME NEW k \in (Len(g) + 1)..Len(found) PROVE found[k].node # m
    <3>1. k = Len(g) + 1 \/ k \in (Len(g) + 2)..Len(found)
      BY <1>2
    <3> QED BY <1>2, <1>6, <3>1
  <2>2. Tally(g, m) = Tally(found, m)
    BY <1>2, <2>1, TallyCut
  <2> QED BY <1>3, <2>2
<1>7. Cardinality(Tally(g, n)) \in Nat
  BY <1>2, TallyFacts
<1>8. Differs(prog, t, u, n)
  BY <1>6 DEF Differs
<1>9. u[n] \subseteq t[n] /\ Cardinality(t[n]) = Cardinality(u[n]) + 1 /\ Cardinality(u[n]) \in Nat
  BY <1>1, <1>3, <1>5, <1>7
<1>10. InOrder(prog, u)
  BY <1>1, <1>8, <1>9, OrderLess
<1> QED BY <1>8, <1>9, <1>10 DEF n

(* A kid of the root ends in range, with its occurrences changed.          *)
LEMMA RootAnswersWith ==
  ASSUME NEW p, IsProgram(p), Rooted(p), NEW c, NEW d, NEW t, NEW u, RootGoes(p, c, t),
         Len(c) \in Nat, Len(c) > 1, Len(d) = 1, d[1] = c[1],
         c[1].i \in 1..Len(p[1].kids), c[1].i \in Nat, c[1].called,
         Differs(p, t, u, p[1].kids[c[1].i]), InOrder(p, u), InRange(p, u, c[1].i)
  PROVE  RootGoes(p, d, u)
<1>1. RootSays(p, t, c[1])
  BY DEF RootGoes
<1>2. RootSays(p, u, c[1])
  BY <1>1, RootSaysKept
<1>3. ASSUME NEW x \in 1..(c[1].i + 1 - 1) PROVE InRange(p, u, x)
  <2>1. x \in 1..(c[1].i - 1) \/ x = c[1].i
    OBVIOUS
  <2> QED BY <1>2, <2>1 DEF RootSays, Passed
<1>4. Passed(p, u, c[1].i + 1)
  BY <1>3 DEF Passed
<1>5. Len(d) # 0 /\ ~(Len(d) > 1)
  OBVIOUS
<1> QED BY <1>2, <1>4, <1>5, Zenon DEF RootGoes

(* What a loop on top gains: an item, nothing, or the loss of its open one.*)
Gains(k) ==
  \/ k = 0 /\ found' = found
  \/ k = 0 /\ \E e \in FoundIn(prog) : found' = Append(found, e) /\ e.node = Top.node /\ e.what = "none"
  \/ k = 1 /\ \E e \in FoundIn(prog) : found' = Append(found, e) /\ e.node = Top.node /\ e.what # "none"
  \/ k = -1 /\ Top.called /\ found' = SubSeq(found, 1, Top.keep)

(* The occurrences the loop on top counts, with the one that is open.      *)
Has == IF Top.called THEN Top.n + 1 ELSE Top.n

(* What the tallies are then.                                              *)
LEMMA GainTallies ==
  ASSUME Shape, In("occurrences"), Len(calls) = 2, Counts(prog, calls, signal, found),
         NEW k, Gains(k), NEW t, t = Tallies(prog, found), NEW u, u = Tallies(prog, found')
  PROVE  /\ Differs(prog, t, u, Top.node) /\ InOrder(prog, u)
         /\ Cardinality(u[Top.node]) = Has + k /\ k \in {-1, 0, 1}
         /\ Has + k \in Nat
<1>1. /\ InOrder(prog, t) /\ LoopSays(prog, t, Top) /\ Cardinality(t[Top.node]) \in Nat
      /\ Top.n \in Nat /\ found \in Seq(FoundIn(prog))
  BY RootLoop, LoopOnTop, RootFacts
<1>2. Cardinality(t[Top.node]) = Has /\ Has \in Nat
  BY <1>1 DEF LoopSays, Has
<1>3. CASE k = 0 /\ found' = found
  <2>1. u = t
    BY <1>3
  <2> QED BY <1>1, <1>2, <1>3, <2>1 DEF Differs
<1>4. ASSUME k = 0, NEW e \in FoundIn(prog), found' = Append(found, e), e.what = "none"
      PROVE  Differs(prog, t, u, Top.node) /\ InOrder(prog, u)
             /\ Cardinality(u[Top.node]) = Has + k /\ k \in {-1, 0, 1} /\ Has + k \in Nat
  <2>1. u = t
    BY <1>1, <1>4, TalliesSame
  <2> QED BY <1>1, <1>2, <1>4, <2>1 DEF Differs
<1>5. ASSUME k = 1, NEW e \in FoundIn(prog), found' = Append(found, e), e.node = Top.node,
             e.what # "none"
      PROVE  Differs(prog, t, u, Top.node) /\ InOrder(prog, u)
             /\ Cardinality(u[Top.node]) = Has + k /\ k \in {-1, 0, 1} /\ Has + k \in Nat
  <2>1. u = Tallies(prog, Append(found, e))
    BY <1>5
  <2>2. /\ Differs(prog, t, u, Top.node) /\ InOrder(prog, u)
        /\ Cardinality(u[Top.node]) = Cardinality(t[Top.node]) + 1
    BY <1>5, <2>1, MoreTallies
  <2> QED BY <1>2, <1>5, <2>2
<1>6. CASE k = -1 /\ Top.called /\ found' = SubSeq(found, 1, Top.keep)
  <2>1. u = Tallies(prog, SubSeq(found, 1, Top.keep))
    BY <1>6
  <2>2. /\ Differs(prog, t, u, Top.node) /\ InOrder(prog, u)
        /\ Cardinality(t[Top.node]) = Cardinality(u[Top.node]) + 1
        /\ Cardinality(u[Top.node]) \in Nat
    BY <1>6, <2>1, LessTallies
  <2> QED BY <1>2, <1>6, <2>2
<1> QED BY <1>3, <1>4, <1>5, <1>6 DEF Gains

----------------------------------------------------------------------------
(* What a loop on top comes to.                                            *)

LoopComes ==
  \E k : /\ Gains(k) /\ (k = 1 => ~Top.called /\ Top.n < LimitOf(prog, Top.node))
         /\ \/ \E b \in LoopFrames :
                 ~b.called /\ calls' = Append(Below, b) /\ b.node = Top.node /\ b.n = Has + k
            \/ \E r : Returns(r) /\ (r \in {"fail", "empty"} \/ prog[Top.node].min <= Has + k)

(* The loop over a kid of the root stays within its limit.                 *)
LEMMA WithinLimit ==
  ASSUME Shape, In("occurrences"), Len(calls) = 2, Counts(prog, calls, signal, found),
         NEW k \in {-1, 0, 1}, Has + k \in Nat, k = 1 => Top.n < LimitOf(prog, Top.node),
         Top.called => k # 1
  PROVE  Has + k <= LimitOf(prog, Top.node)
<1>1. /\ Top.n <= LimitOf(prog, Top.node) /\ Top.n \in Nat /\ LimitOf(prog, Top.node) \in Nat
      /\ Top.called => Top.n < LimitOf(prog, Top.node)
  BY RootLoop, LoopOnTop DEF LoopSays
<1> QED BY <1>1 DEF Has

(* The loop over a kid of the root goes on.                                *)
LEMMA RootLoopGoesOn ==
  ASSUME Shape, Shape', In("occurrences"), Len(calls) = 2, Counts(prog, calls, signal, found),
         Holds(prog, calls', found'),
         NEW k, Gains(k), k = 1 => ~Top.called /\ Top.n < LimitOf(prog, Top.node),
         NEW b \in LoopFrames, ~b.called, calls' = Append(Below, b), b.node = Top.node, b.n = Has + k
  PROVE  Counts(prog, calls', signal', found')
<1> DEFINE t == Tallies(prog, found)
           u == Tallies(prog, found')
           d == calls'
<1>1. /\ RootGoes(prog, calls, t) /\ calls[1].i \in 1..Len(prog[1].kids) /\ calls[1].called
      /\ Top = calls[2] /\ Top.node = prog[1].kids[calls[1].i] /\ Len(calls) \in Nat /\ Len(calls) > 1
      /\ IsProgram(prog) /\ Rooted(prog) /\ calls # <<>>
  BY RootLoop, LoopOnTop, RootFacts
<1>2. /\ Differs(prog, t, u, Top.node) /\ InOrder(prog, u)
      /\ Cardinality(u[Top.node]) = Has + k /\ k \in {-1, 0, 1} /\ Has + k \in Nat
  BY GainTallies
<1>3. Has + k <= LimitOf(prog, Top.node)
  BY <1>2, WithinLimit
<1>4. b \in Frames /\ ~CalledLoop(b)
  BY DEF Frames, CalledLoop
<1>5. Len(d) = 2 /\ d[2] = b /\ d[1] = calls[1]
  <2>1. /\ Len(calls') = Len(calls) /\ calls'[Len(calls)] = b
        /\ \A j \in 1..(Len(calls) - 1) : calls'[j] = calls[j]
    BY <1>1, <1>4, TopGoesOn
  <2>2. 1 \in 1..(Len(calls) - 1)
    BY <1>1
  <2> QED BY <2>1, <2>2
<1> HIDE DEF t, u, d
<1>6. LoopSays(prog, u, d[2])
  BY <1>2, <1>3, <1>5 DEF LoopSays
<1>7. Len(d) \in Nat /\ Len(d) > 1 /\ d[2].node = calls[2].node
  BY <1>1, <1>5
<1>8. RootGoes(prog, d, u)
  BY <1>1, <1>2, <1>5, <1>6, <1>7, RootLoops
<1> QED BY <1>8 DEF Counts, d, u

(* The loop over a kid of the root ends.                                   *)
LEMMA RootLoopAnswers ==
  ASSUME Shape, Shape', In("occurrences"), Len(calls) = 2, Counts(prog, calls, signal, found),
         Holds(prog, calls', found'),
         NEW k, Gains(k), k = 1 => ~Top.called /\ Top.n < LimitOf(prog, Top.node),
         NEW r, Returns(r), r \in {"fail", "empty"} \/ prog[Top.node].min <= Has + k
  PROVE  Counts(prog, calls', signal', found')
<1> DEFINE t == Tallies(prog, found)
           u == Tallies(prog, found')
           d == calls'
<1>1. /\ RootGoes(prog, calls, t) /\ calls[1].i \in 1..Len(prog[1].kids) /\ calls[1].called
      /\ calls[1].i \in Nat /\ Top = calls[2] /\ Top.node = prog[1].kids[calls[1].i]
      /\ Len(calls) \in Nat /\ Len(calls) > 1
      /\ IsProgram(prog) /\ Rooted(prog) /\ calls # <<>>
      /\ LimitOf(prog, Top.node) \in Nat /\ prog[Top.node].min \in Nat
  BY RootLoop, LoopOnTop, RootFacts
<1>2. Len(d) = 1 /\ d[1] = calls[1] /\ signal' = r
  <2>1. /\ Len(calls') = Len(calls) - 1 /\ signal' = r
        /\ \A j \in 1..(Len(calls) - 1) : calls'[j] = calls[j]
    BY <1>1, TopReturns
  <2>2. 1 \in 1..(Len(calls) - 1) /\ Len(calls) - 1 = 1
    BY <1>1
  <2> QED BY <2>1, <2>2
<1>3. CASE r \in {"fail", "empty"}
  BY <1>2, <1>3 DEF Counts, Lost
<1>4. CASE prog[Top.node].min <= Has + k
  <2>1. /\ Differs(prog, t, u, Top.node) /\ InOrder(prog, u)
        /\ Cardinality(u[Top.node]) = Has + k /\ k \in {-1, 0, 1} /\ Has + k \in Nat
    BY GainTallies
  <2>2. Has + k <= LimitOf(prog, Top.node)
    BY <2>1, WithinLimit
  <2> HIDE DEF t, u, d
  <2> DEFINE x == Has + k
  <2>3. /\ Cardinality(u[Top.node]) = x /\ x \in Nat
        /\ x <= LimitOf(prog, Top.node) /\ prog[Top.node].min <= x
    BY <1>4, <2>1, <2>2
  <2> HIDE DEF x
  <2>4. Cardinality(u[Top.node]) \in prog[Top.node].min..LimitOf(prog, Top.node)
    <3>1. LimitOf(prog, Top.node) \in Nat /\ prog[Top.node].min \in Nat
      BY <1>1
    <3> QED BY ONLY <2>3, <3>1
  <2>5. InRange(prog, u, calls[1].i)
    BY <1>1, <2>4 DEF InRange
  <2>6. RootGoes(prog, d, u)
    BY <1>1, <1>2, <2>1, <2>5, RootAnswersWith
  <2> QED BY <2>6 DEF Counts, d, u
<1> QED BY <1>3, <1>4

(* A loop keeps the counts.                                                *)
LEMMA LoopCounts ==
  ASSUME Shape, Shape', In("occurrences"), Counts(prog, calls, signal, found), LoopComes
  PROVE  Counts(prog, calls', signal', found')
<1>1. PICK k : /\ Gains(k) /\ (k = 1 => ~Top.called /\ Top.n < LimitOf(prog, Top.node))
               /\ \/ \E b \in LoopFrames :
                       ~b.called /\ calls' = Append(Below, b) /\ b.node = Top.node /\ b.n = Has + k
                  \/ \E r : Returns(r) /\ (r \in {"fail", "empty"} \/ prog[Top.node].min <= Has + k)
  BY Zenon DEF LoopComes
<1>2. LoopMoves
  BY <1>1 DEF LoopMoves
<1>3. LoopFinds
  BY <1>1 DEF LoopFinds, Gains
<1>4. Holds(prog, calls, found)
  BY DEF Counts
<1>5. Holds(prog, calls', found')
  BY <1>2, <1>3, <1>4, LoopHolds
<1>6. Len(calls) = 2 \/ Len(calls) > 2
  <2> DEFINE n == Len(calls)
  <2>1. n \in Nat /\ n > 1
    BY LoopOnTop
  <2> HIDE DEF n
  <2>2. n = 2 \/ n > 2
    BY <2>1
  <2> QED BY <2>2 DEF n
<1>7. CASE Len(calls) > 2
  BY <1>2, <1>3, <1>7, LoopAbove
<1>8. CASE Len(calls) = 2
  <2>1. ASSUME NEW b \in LoopFrames, ~b.called, calls' = Append(Below, b), b.node = Top.node,
               b.n = Has + k
        PROVE  Counts(prog, calls', signal', found')
    BY <1>1, <1>5, <1>8, <2>1, RootLoopGoesOn
  <2>2. ASSUME NEW r, Returns(r), r \in {"fail", "empty"} \/ prog[Top.node].min <= Has + k
        PROVE  Counts(prog, calls', signal', found')
    BY <1>1, <1>5, <1>8, <2>2, RootLoopAnswers
  <2> QED BY <1>1, <2>1, <2>2
<1> QED BY <1>6, <1>7, <1>8

----------------------------------------------------------------------------
(* What each step of a loop comes to.                                      *)

(* A loop that runs has not called.                                        *)
LEMMA LoopRuns ==
  ASSUME Shape, In("occurrences"), signal = "run"
  PROVE  ~Top.called /\ Has = Top.n
<1>1. calls # <<>> /\ Top.op = "occurrences"
  BY DEF In
<1>2. Answered(calls, signal) /\ Top = Up(calls) /\ Len(calls) \in Nat /\ Len(calls) > 0
  BY <1>1, ShapeFacts, LoopOnTop, RestFacts DEF Shape, Whole, Stack
<1>3. ~Top.called
  BY <1>1, <1>2 DEF Answered
<1> QED BY <1>3 DEF Has

(* A round of a loop is of one that may have an item more.                 *)
LEMMA RoundMay ==
  ASSUME Shape, Round
  PROVE  In("occurrences") /\ ~Top.called /\ Has = Top.n /\ Top.n < LimitOf(prog, Top.node)
<1>1. In("occurrences") /\ signal = "run" /\ ~Over(Top)
  BY DEF Round
<1>2. Top.n \in Nat /\ LimitOf(prog, Top.node) \in Nat /\ ~(Top.n >= LimitOf(prog, Top.node))
  BY <1>1, LoopOnTop DEF Over, Limit, LimitOf
<1> QED BY <1>1, <1>2, LoopRuns

(* A loop that has not called gains an item, or nothing.                   *)
LEMMA ItemComes ==
  ASSUME Shape, In("occurrences"), ~Top.called, Top.n < LimitOf(prog, Top.node),
         NEW a, a.node = Top.node, a.n = Top.n,
         \/ /\ found' = found
            /\ \/ Goes(a, 0) \/ Returns("fail") \/ Returns("empty")
               \/ Returns("absent") /\ prog[a.node].min = 0 /\ a.n = 0
         \/ /\ \E e \in FoundIn(prog) : found' = Append(found, e) /\ e.node = Top.node /\ e.what # "none"
            /\ Goes(a, 1) \/ Returns("fail")
  PROVE  LoopComes
<1>1. Has = Top.n /\ Top.n \in Nat
  BY LoopOnTop DEF Has
<1>2. ASSUME NEW k \in {0, 1}, Gains(k),
             Goes(a, k) \/ Returns("fail") \/ Returns("empty")
             \/ (k = 0 /\ Returns("absent") /\ prog[a.node].min = 0 /\ a.n = 0)
      PROVE  LoopComes
  <2>1. ASSUME Goes(a, k)
        PROVE  \E b \in LoopFrames :
                 ~b.called /\ calls' = Append(Below, b) /\ b.node = Top.node /\ b.n = Has + k
    BY <1>1, <2>1 DEF Goes
  <2>2. ASSUME k = 0, prog[a.node].min = 0, a.n = 0 PROVE prog[Top.node].min <= Has + k
    BY <1>1, <2>2
  <2>3. k = 1 => ~Top.called /\ Top.n < LimitOf(prog, Top.node)
    OBVIOUS
  <2>4. \/ \E b \in LoopFrames :
             ~b.called /\ calls' = Append(Below, b) /\ b.node = Top.node /\ b.n = Has + k
        \/ \E r : Returns(r) /\ (r \in {"fail", "empty"} \/ prog[Top.node].min <= Has + k)
    BY <1>2, <2>1, <2>2
  <2> QED BY <1>2, <2>3, <2>4, Zenon DEF LoopComes
<1>3. found' = found => Gains(0)
  BY DEF Gains
<1>4. (\E e \in FoundIn(prog) : found' = Append(found, e) /\ e.node = Top.node /\ e.what # "none")
        => Gains(1)
  BY DEF Gains
<1> QED BY <1>2, <1>3, <1>4

(* A separator that is missing.                                            *)
LEMMA SeparatorMissingComes ==
  ASSUME Shape, SeparatorMissing
  PROVE  In("occurrences") /\ LoopComes
<1>1. Round /\ found' = found /\ Returns("fail")
  BY DEF SeparatorMissing, Return, Returns
<1>2. In("occurrences") /\ ~Top.called /\ Top.n < LimitOf(prog, Top.node)
  BY <1>1, RoundMay
<1> QED BY <1>1, <1>2, ItemComes

(* An empty slot.                                                          *)
LEMMA AtSlotComes ==
  ASSUME Shape, AtSlot
  PROVE  In("occurrences") /\ LoopComes
<1> DEFINE r == Ready(Top)
           a == Started(Top, r.pos)
           e == Item(a.node, <<>>)
<1>1. /\ Round
      /\ \/ GoOn(a, r.taken, r.pos, 0) /\ found' = found
         \/ GoOn(a, r.taken, r.pos, 1) /\ found' = Append(found, e)
  BY Zenon DEF AtSlot
<1>2. In("occurrences") /\ ~Top.called /\ Top.n < LimitOf(prog, Top.node)
  BY <1>1, RoundMay
<1>3. r.pos \in pos..end /\ LoopAt(a) /\ a.node = Top.node /\ a.n = Top.n
  BY <1>2, RoundFacts
<1>4. IsProgram(prog) /\ end \in Nat /\ pos \in 0..end /\ Top.node \in DOMAIN prog
  BY <1>2, ShapeFacts DEF In
<1>5. e \in FoundIn(prog) /\ e.node = Top.node /\ e.what # "none"
  <2>1. <<>> \in Seq(Tokens)
    OBVIOUS
  <2>2. e \in FoundIn(prog)
    BY <1>3, <1>4, <2>1, EventFacts
  <2>3. e.node = a.node /\ e.what = "item"
    BY DEF Item
  <2> QED BY <1>3, <2>2, <2>3
<1> HIDE DEF a, r, e
<1>6. r.pos \in 0..end
  BY <1>3, <1>4
<1>7. CASE GoOn(a, r.taken, r.pos, 0) /\ found' = found
  <2>1. Goes(a, 0) \/ Returns("fail")
    BY <1>3, <1>4, <1>6, <1>7, GoOnResult
  <2> QED BY <1>2, <1>3, <1>7, <2>1, ItemComes
<1>8. CASE GoOn(a, r.taken, r.pos, 1) /\ found' = Append(found, e)
  <2>1. Goes(a, 1) \/ Returns("fail")
    BY <1>3, <1>4, <1>6, <1>8, GoOnResult
  <2> QED BY <1>2, <1>3, <1>5, <1>8, <2>1, ItemComes
<1> QED BY <1>1, <1>7, <1>8

(* An item that has failed.                                                *)
LEMMA FailedComes ==
  ASSUME Shape, Round, NEW a, LoopAt(a), a.node = Top.node, a.n = Top.n,
         NEW t, NEW p \in 0..end, NEW r \in {"absent", "empty", "fail"}, Failed(a, t, p, r, found)
  PROVE  In("occurrences") /\ LoopComes
<1>1. In("occurrences") /\ ~Top.called /\ Top.n < LimitOf(prog, Top.node)
  BY RoundMay
<1>2. IsProgram(prog) /\ end \in Nat
  BY <1>1, ShapeFacts DEF In
<1>3. /\ found' = found
      /\ \/ Goes(a, 0) \/ (Returns("absent") /\ prog[a.node].min = 0 /\ a.n = 0)
         \/ Returns("fail") \/ Returns("empty")
  BY <1>2, FailedResult
<1> QED BY <1>1, <1>3, ItemComes

(* A field that has been decoded.                                          *)
LEMMA DecodedComes ==
  ASSUME Shape, Round, NEW a, LoopAt(a), a.node = Top.node, a.n = Top.n,
         NEW t, NEW p \in 0..end, NEW empty, NEW e \in FoundIn(prog), e.node = Top.node, e.what # "none",
         Decoded(a, t, p, empty, found, <<e>>)
  PROVE  In("occurrences") /\ LoopComes
<1>1. In("occurrences") /\ ~Top.called /\ Top.n < LimitOf(prog, Top.node)
  BY RoundMay
<1>2. IsProgram(prog) /\ end \in Nat /\ found \in Seq(FoundIn(prog))
  BY <1>1, ShapeFacts, RootFacts DEF In
<1>3. \/ Goes(a, 1) /\ found' = found \o <<e>>
      \/ Goes(a, 0) /\ found' = found
      \/ Returns("fail") /\ found' \in {found, found \o <<e>>}
  BY <1>2, DecodedResult
<1>4. found \o <<e>> = Append(found, e)
  BY <1>2
<1>5. \/ found' = found /\ (Goes(a, 0) \/ Returns("fail"))
      \/ found' = Append(found, e) /\ (Goes(a, 1) \/ Returns("fail"))
  BY <1>3, <1>4
<1> QED BY <1>1, <1>5, ItemComes

(* A field.                                                                *)
LEMMA DecodeFieldComes ==
  ASSUME Shape, DecodeField
  PROVE  In("occurrences") /\ LoopComes
<1> DEFINE r == Ready(Top)
           a == Started(Top, r.pos)
           q == IF Node.kind \in Calcs THEN r.pos ELSE ScanEnd(a.node, a.stops, r.pos)
           text == SubSeq(input, r.pos + 1, q)
           z == IF Node.kind \in Calcs THEN q ELSE Past(Node.term, q)
           e == Item(a.node, text)
<1>1. /\ Round
      /\ \/ Failed(a, r.taken, q, "fail", found)
         \/ Failed(a, r.taken, q, "empty", found)
         \/ Decoded(a, r.taken, z, Node.kind = "text" /\ text = <<>>, found, <<e>>)
  BY Zenon DEF DecodeField
<1>0. In("occurrences")
  BY <1>1, RoundMay
<1>2. r.pos \in pos..end /\ LoopAt(a) /\ a.node = Top.node /\ a.n = Top.n
  BY <1>0, RoundFacts
<1>3. /\ IsProgram(prog) /\ end \in Nat /\ pos \in 0..end /\ Top.node \in DOMAIN prog
      /\ Node = prog[Top.node]
  BY <1>0, ShapeFacts DEF In
<1>4. r.pos \in 0..end
  BY <1>2, <1>3
<1>5. q \in r.pos..end
  <2> HIDE DEF r, a
  <2>1. ScanEnd(a.node, a.stops, r.pos) \in r.pos..end
    BY <1>3, <1>4, ScanEndIn
  <2> QED BY <1>3, <1>4, <2>1
<1> HIDE DEF r, a, q
<1>6. q \in 0..end /\ text \in Seq(Tokens)
  <2>1. q \in 0..end
    BY <1>3, <1>4, <1>5
  <2>2. text \in Seq(Tokens)
    BY <1>4, <1>5, FieldFacts
  <2> QED BY <2>1, <2>2
<1>7. z \in 0..end
  <2>1. Len(Node.term) \in Nat
    BY <1>3, NodeFacts, LenProperties
  <2>2. Past(Node.term, q) \in q..end
    BY <1>3, <1>6, <2>1, PastIn
  <2> QED BY <1>6, <2>2
<1> HIDE DEF z, text
<1>8. e \in FoundIn(prog) /\ e.node = Top.node /\ e.what # "none"
  <2>1. e \in FoundIn(prog)
    BY <1>2, <1>3, <1>6, EventFacts
  <2>2. e.node = a.node /\ e.what = "item"
    BY DEF Item
  <2> QED BY <1>2, <2>1, <2>2
<1> HIDE DEF e
<1>9. CASE Failed(a, r.taken, q, "fail", found) \/ Failed(a, r.taken, q, "empty", found)
  BY <1>1, <1>2, <1>6, <1>9, FailedComes
<1>10. CASE Decoded(a, r.taken, z, Node.kind = "text" /\ text = <<>>, found, <<e>>)
  BY <1>1, <1>2, <1>7, <1>8, <1>10, DecodedComes
<1> QED BY <1>1, <1>9, <1>10

(* The answer of a complex item.                                           *)
LEMMA ComplexItemComes ==
  ASSUME Shape, ComplexItem
  PROVE  In("occurrences") /\ LoopComes
<1> DEFINE kept == SubSeq(found, 1, Top.keep)
           item == SubSeq(found, Top.keep + 1, Len(found))
<1>1. /\ In("occurrences") /\ signal # "run" /\ Top.called
      /\ IF signal = "ok" THEN Decoded(Top, taken, pos, FALSE, kept, item)
         ELSE Failed(Top, taken, pos, signal, kept)
  BY DEF ComplexItem
<1> SUFFICES LoopComes
  BY <1>1
<1>2. LoopAt(Top) /\ kept \o item = found
  BY <1>1, ItemFacts
<1>3. pos \in 0..end /\ signal \in Signals /\ IsProgram(prog) /\ end \in Nat
  BY <1>1, ShapeFacts DEF Shape, Typed, In
<1>4. Has = Top.n + 1 /\ Top.n \in Nat
  BY <1>1, LoopOnTop DEF Has
<1> DEFINE less == -1
<1>5. (found' = found => Gains(0)) /\ (found' = kept => Gains(less))
  BY <1>1 DEF Gains
<1>10. less # 1 /\ less + 1 = 0 /\ less \in Int /\ (Has + less = Top.n)
  BY <1>4
<1> HIDE DEF kept, item, less
<1>6. ASSUME NEW k \in {less, 0}, Gains(k), NEW d, d = k + 1, Goes(Top, d) PROVE LoopComes
  <2>1. k \in Int /\ k # 1
    BY <1>10
  <2>2. \E b \in LoopFrames : ~b.called /\ calls' = Append(Below, b) /\ b.node = Top.node /\ b.n = Has + k
    <3>1. PICK b \in LoopFrames : calls' = Append(Below, b) /\ b.node = Top.node /\ b.n = Top.n + d /\ ~b.called
      BY <1>6, Zenon DEF Goes
    <3>2. b.n = Has + k
      BY <1>4, <1>6, <2>1, <3>1
    <3> QED BY <3>1, <3>2
  <2> QED BY <1>6, <2>1, <2>2, Zenon DEF LoopComes
<1>7. ASSUME NEW k \in {less, 0}, Gains(k), NEW r, Returns(r),
             r \in {"fail", "empty"} \/ prog[Top.node].min <= Has + k
      PROVE  LoopComes
  <2>1. k # 1
    BY <1>10
  <2> QED BY <1>7, <2>1, Zenon DEF LoopComes
<1>11. (Goes(Top, 1) /\ Gains(0) => LoopComes) /\ (Goes(Top, 0) /\ Gains(less) => LoopComes)
  <2>1. 1 = 0 + 1 /\ 0 = less + 1 /\ 0 \in {less, 0} /\ less \in {less, 0}
    BY <1>10
  <2> QED BY <1>6, <2>1, Zenon
<1>12. ASSUME NEW r \in {"fail", "empty"}, Returns(r), Gains(0) \/ Gains(less) PROVE LoopComes
  <2>1. 0 \in {less, 0} /\ less \in {less, 0}
    OBVIOUS
  <2> QED BY <1>7, <1>12, <2>1, Zenon
<1>8. CASE signal = "ok"
  <2>1. Decoded(Top, taken, pos, FALSE, kept, item)
    BY <1>1, <1>8
  <2>2. \/ Goes(Top, 1) /\ found' = kept \o item
        \/ Goes(Top, 0) /\ found' = kept
        \/ Returns("fail") /\ found' \in {kept, kept \o item}
    BY <1>2, <1>3, <2>1, DecodedResult
  <2>3. CASE Goes(Top, 1) /\ found' = kept \o item
    BY <1>2, <1>5, <1>11, <2>3
  <2>4. CASE Goes(Top, 0) /\ found' = kept
    BY <1>5, <1>11, <2>4
  <2>5. CASE Returns("fail") /\ found' \in {kept, kept \o item}
    BY <1>2, <1>5, <1>12, <2>5
  <2> QED BY <1>1, <2>2, <2>3, <2>4, <2>5
<1>9. CASE signal # "ok"
  <2>1. signal \in {"absent", "empty", "fail"} /\ Failed(Top, taken, pos, signal, kept)
    BY <1>1, <1>3, <1>9 DEF Signals
  <2>2. /\ found' = kept
        /\ \/ Goes(Top, 0)
           \/ Returns("absent") /\ prog[Top.node].min = 0 /\ Top.n = 0
           \/ Returns("fail") \/ Returns("empty")
    BY <1>2, <1>3, <2>1, FailedResult
  <2>3. Gains(less)
    BY <1>5, <2>2
  <2>4. CASE Goes(Top, 0)
    BY <1>11, <2>3, <2>4
  <2>5. CASE Returns("absent") /\ prog[Top.node].min = 0 /\ Top.n = 0
    <3>1. prog[Top.node].min <= Has + less
      BY <1>4, <1>10, <2>5
    <3>2. less \in {less, 0}
      OBVIOUS
    <3> QED BY <1>7, <2>3, <2>5, <3>1, <3>2, Zenon
  <2>6. CASE Returns("fail") \/ Returns("empty")
    BY <1>12, <2>3, <2>6
  <2> QED BY <1>1, <2>2, <2>4, <2>5, <2>6
<1> QED BY <1>8, <1>9

(* The end of a loop.                                                      *)
LEMMA OccurrencesEndComes ==
  ASSUME Shape, OccurrencesEnd
  PROVE  In("occurrences") /\ LoopComes
<1> DEFINE none == Top.n = 0
           array == \/ Node.max > 1 /\ Node.max # Unbounded
                    \/ Node.count = "parsed" /\ Node.max = Unbounded
           short == \/ Top.n < Node.min
                    \/ Never(Top) /\ IF none THEN Top.nseps # Node.max - 1 ELSE Top.n < Node.max
<1>1. /\ In("occurrences") /\ signal = "run"
      /\ Return(IF short THEN "fail" ELSE IF none /\ ~array THEN "absent" ELSE "ok")
      /\ found' = IF ~short /\ none /\ array THEN Append(found, Empty(Top.node)) ELSE found
  BY Zenon DEF OccurrencesEnd
<1>2. /\ Top.n \in Nat /\ Top.node \in DOMAIN prog /\ prog[Top.node].min \in Nat /\ Node = prog[Top.node]
      /\ Has = Top.n
  BY <1>1, LoopOnTop, LoopRuns DEF Node
<1>3. ~short => prog[Top.node].min <= Has + 0
  <2>1. ~short => ~(Top.n < Node.min)
    OBVIOUS
  <2> HIDE DEF short
  <2> QED BY <1>2, <2>1
<1> HIDE DEF short, array, none
<1>4. \E r : Returns(r) /\ (r \in {"fail", "empty"} \/ ~short)
  BY <1>1 DEF Return, Returns
<1>5. Gains(0)
  <2>1. Empty(Top.node) \in FoundIn(prog)
    <3>1. <<>> \in Seq(Tokens)
      OBVIOUS
    <3> QED BY <1>2, <3>1, EventFacts
  <2>2. Empty(Top.node).node = Top.node /\ Empty(Top.node).what = "none"
    BY DEF Empty
  <2>3. found' = found \/ found' = Append(found, Empty(Top.node))
    BY <1>1
  <2> QED BY <2>1, <2>2, <2>3 DEF Gains
<1>6. \E r : Returns(r) /\ (r \in {"fail", "empty"} \/ prog[Top.node].min <= Has + 0)
  BY <1>3, <1>4
<1>7. 0 # 1
  OBVIOUS
<1> QED BY <1>1, <1>5, <1>6, <1>7, Zenon DEF LoopComes

(* A bounded complex element that is absent, or begins.                    *)
LEMMA DecodeBoundedComes ==
  ASSUME Shape, DecodeBounded
  PROVE  \/ In("occurrences") /\ LoopComes
         \/ Round /\ Ready(Top).ok /\ Node.kind = "complex" /\ \E x, y, z :
              LET a == Started(Top, Ready(Top).pos) IN
              /\ found' = Append(found, Open(a.node))
              /\ calls' = Below \o <<[a EXCEPT !.called = TRUE, !.keep = Len(found)],
                                     Complex(a.node, x, y, z), Sequence(Node.kids[1], 0, <<>>)>>
<1> DEFINE r == Ready(Top)
           a == Started(Top, r.pos)
           q == ScanEnd(a.parent, a.stops, r.pos)
           resume == Past(Sep(a.parent), q)
<1>1. /\ Round /\ Ready(Top).ok /\ In("occurrences") /\ Node.kind = "complex"
  BY DEF DecodeBounded, Round
<1>2. \/ Failed(a, r.taken \/ resume > q, resume, "absent", found)
      \/ /\ found' = Append(found, Open(a.node))
         /\ calls' = Below \o <<[a EXCEPT !.called = TRUE, !.keep = Len(found)],
                                Complex(a.node, TRUE, resume, resume > q),
                                Sequence(Node.kids[1], 0, <<>>)>>
  BY Zenon DEF DecodeBounded
<1>3. /\ r.pos \in pos..end /\ LoopAt(a) /\ a.node = Top.node /\ a.n = Top.n
  BY <1>1, RoundFacts
<1>4. /\ IsProgram(prog) /\ end \in Nat /\ pos \in 0..end
  BY <1>1, ShapeFacts DEF In
<1>5. CASE Failed(a, r.taken \/ resume > q, resume, "absent", found)
  <2>1. a.parent \in DOMAIN prog
    BY <1>3 DEF LoopAt
  <2> HIDE DEF r, a
  <2>2. r.pos \in 0..end /\ q \in r.pos..end
    BY <1>3, <1>4, ScanEndIn
  <2>3. q \in 0..end
    BY <1>4, <2>2
  <2>4. resume \in q..end
    BY <1>4, <2>1, <2>3, DelimiterFacts, PastIn
  <2> HIDE DEF q, resume
  <2>5. resume \in 0..end
    BY <2>3, <2>4
  <2> DEFINE t == r.taken \/ resume > q
  <2>6. Failed(a, t, resume, "absent", found)
    BY <1>5
  <2> HIDE DEF t
  <2> QED BY <1>1, <1>3, <2>5, <2>6, FailedComes
<1> QED BY <1>1, <1>2, <1>5

(* Three frames more.                                                      *)
LEMMA ThreeMore ==
  ASSUME NEW S, NEW r \in Seq(S), NEW b, NEW x, NEW y
  PROVE  LET d == r \o <<b, x, y>> IN
         /\ Len(d) = Len(r) + 3 /\ Len(r) \in Nat
         /\ d[Len(r) + 1] = b /\ d[Len(r) + 2] = x /\ d[Len(r) + 3] = y
         /\ \A k \in 1..Len(r) : d[k] = r[k]
<1> DEFINE T == S \union {b, x, y}
           u == Append(r, b)
           v == Append(u, x)
           w == Append(v, y)
<1>1. r \in Seq(T) /\ b \in T /\ x \in T /\ y \in T
  OBVIOUS
<1> HIDE DEF T
<1>2. r \o <<b, x, y>> = w
  BY <1>1
<1>3. /\ u \in Seq(T) /\ Len(u) = Len(r) + 1 /\ Len(r) \in Nat /\ u[Len(r) + 1] = b
      /\ \A k \in 1..Len(r) : u[k] = r[k]
  BY <1>1, AppendProperties, LenProperties
<1> HIDE DEF u
<1>4. /\ v \in Seq(T) /\ Len(v) = Len(u) + 1 /\ v[Len(u) + 1] = x
      /\ \A k \in 1..Len(u) : v[k] = u[k]
  BY <1>1, <1>3, AppendProperties
<1> HIDE DEF v
<1>5. /\ w \in Seq(T) /\ Len(w) = Len(v) + 1 /\ w[Len(v) + 1] = y
      /\ \A k \in 1..Len(v) : w[k] = v[k]
  BY <1>1, <1>4, AppendProperties
<1> HIDE DEF w
<1> DEFINE n == Len(r)
<1>6. n \in Nat /\ Len(u) = n + 1 /\ Len(v) = n + 2 /\ Len(w) = n + 3
  BY <1>3, <1>4, <1>5
<1>7. /\ \A k \in 1..n : u[k] = r[k]
      /\ \A k \in 1..(n + 1) : v[k] = u[k]
      /\ \A k \in 1..(n + 2) : w[k] = v[k]
      /\ u[n + 1] = b /\ v[n + 2] = x /\ w[n + 3] = y
  BY <1>3, <1>4, <1>5, <1>6
<1> HIDE DEF n
<1>8. w[n + 1] = b /\ w[n + 2] = x /\ w[n + 3] = y /\ \A k \in 1..n : w[k] = r[k]
  BY <1>6, <1>7
<1> QED BY <1>2, <1>6, <1>8 DEF n

(* The stack when a loop enters a complex element.                         *)
LEMMA TopEnters ==
  ASSUME Shape, In("occurrences"), NEW b, NEW x, NEW y, calls' = Below \o <<b, x, y>>
  PROVE  /\ Len(calls') = Len(calls) + 2
         /\ calls'[Len(calls)] = b /\ calls'[Len(calls) + 1] = x /\ calls'[Len(calls) + 2] = y
         /\ \A k \in 1..(Len(calls) - 1) : calls'[k] = calls[k]
<1> DEFINE n == Len(calls)
           r == Rest(calls)
           d == r \o <<b, x, y>>
<1>1. /\ n \in Nat /\ n > 1 /\ Below = Rest(calls) /\ calls \in Seq(Frames) /\ calls # <<>>
  BY LoopOnTop, RootFacts, ShapeFacts
<1>2. r \in Seq(Frames) /\ Len(r) = n - 1 /\ \A k \in 1..(n - 1) : r[k] = calls[k]
  BY <1>1, RestFacts
<1>3. /\ Len(d) = Len(r) + 3
      /\ d[Len(r) + 1] = b /\ d[Len(r) + 2] = x /\ d[Len(r) + 3] = y
      /\ \A k \in 1..Len(r) : d[k] = r[k]
  <2> HIDE DEF r
  <2> QED BY <1>2, ThreeMore
<1>4. calls' = d
  BY <1>1
<1> HIDE DEF d, r, n
<1>5. /\ Len(d) = n + 2 /\ d[n] = b /\ d[n + 1] = x /\ d[n + 2] = y
      /\ \A k \in 1..(n - 1) : d[k] = calls[k]
  <2>1. Len(r) + 1 = n /\ Len(r) + 2 = n + 1 /\ Len(r) + 3 = n + 2
    BY <1>1, <1>2
  <2> QED BY <1>2, <1>3, <2>1
<1> QED BY <1>4, <1>5 DEF n

(* What is found under open items, when one more is open.                  *)
LEMMA EnterHolds ==
  ASSUME Shape, In("occurrences"), Holds(prog, calls, found),
         NEW d, NEW b, NEW x, NEW y, b.keep = Len(found), b.node = Top.node,
         x.op = "complex", y.op = "sequence",
         Len(d) = Len(calls) + 2, d[Len(calls)] = b, d[Len(calls) + 1] = x, d[Len(calls) + 2] = y,
         \A k \in 1..(Len(calls) - 1) : d[k] = calls[k],
         NEW e \in FoundIn(prog), e.node = Top.node, e.what = "open"
  PROVE  Holds(prog, d, Append(found, e))
<1> DEFINE n == Len(calls)
           g == Append(found, e)
           N == Len(found)
<1>1. /\ n \in Nat /\ n > 1 /\ found \in Seq(FoundIn(prog)) /\ N \in Nat
      /\ calls[1].op = "sequence" /\ Keeping(calls, N) /\ calls \in Seq(Frames)
  <2>1. Len(calls) \in Nat /\ Len(calls) > 1
    BY LoopOnTop
  <2>2. Len(calls) > 0
    BY <2>1
  <2> QED BY <2>1, <2>2, RootFacts
<1>2. g \in Seq(FoundIn(prog)) /\ Len(g) = N + 1 /\ g[N + 1] = e /\ \A k \in 1..N : g[k] = found[k]
  BY <1>1, AppendProperties
<1>3. n > 2 => e.node \notin RootKids(prog)
  BY LoopOnTop
<1>4. /\ Len(d) = n + 2 /\ d[n] = b /\ d[n + 1] = x /\ d[n + 2] = y
      /\ \A k \in 1..(n - 1) : d[k] = calls[k]
  OBVIOUS
<1>5. \A k \in 1..n : CalledLoop(calls[k]) =>
        /\ found[calls[k].keep + 1].node = calls[k].node /\ found[calls[k].keep + 1].what = "open"
        /\ \A j \in (calls[k].keep + 2)..N : found[j].node \notin RootKids(prog)
  BY DEF Holds
<1>6. \A k \in 1..n : CalledLoop(calls[k]) => calls[k].keep \in Nat /\ calls[k].keep < N
  <2> SUFFICES ASSUME NEW k \in 1..n, CalledLoop(calls[k])
               PROVE  calls[k].keep \in Nat /\ calls[k].keep < N
    OBVIOUS
  <2>1. calls[k] \in Frames
    BY <1>1
  <2> QED BY <1>1, <2>1, KeepNat DEF Keeping
<1>7. b.keep = N /\ b.node = Top.node /\ ~CalledLoop(x) /\ ~CalledLoop(y) /\ ~CalledLoop(calls[1])
  BY <1>1 DEF CalledLoop
<1> HIDE DEF n, g, N
<1>8. ASSUME NEW k \in 1..Len(d), CalledLoop(d[k])
      PROVE  /\ g[d[k].keep + 1].node = d[k].node /\ g[d[k].keep + 1].what = "open"
             /\ \A j \in (d[k].keep + 2)..Len(g) : g[j].node \notin RootKids(prog)
  <2>1. k \in 1..(n - 1) \/ k = n \/ k = n + 1 \/ k = n + 2
    <3>1. k \in 1..(n + 2) /\ n \in Nat
      BY <1>1, <1>4
    <3> QED BY ONLY <3>1
  <2>2. CASE k \in 1..(n - 1)
    <3> DEFINE m == d[k].keep
    <3>1. d[k] = calls[k] /\ k \in 1..n /\ CalledLoop(calls[k])
      BY <1>1, <1>4, <1>8, <2>2
    <3>2. k # 1
      BY <1>7, <3>1
    <3>3. e.node \notin RootKids(prog)
      <4>1. n > 2
        BY <1>1, <2>2, <3>2
      <4> QED BY <1>3, <4>1
    <3>4. /\ m \in Nat /\ m < N /\ found[m + 1].node = d[k].node /\ found[m + 1].what = "open"
          /\ \A j \in (m + 2)..N : found[j].node \notin RootKids(prog)
      BY <1>5, <1>6, <3>1
    <3> HIDE DEF m
    <3>5. g[m + 1] = found[m + 1]
      <4>1. m + 1 \in 1..N
        BY ONLY <1>1, <3>4
      <4> QED BY <1>2, <4>1
    <3>6. ASSUME NEW j \in (m + 2)..Len(g) PROVE g[j].node \notin RootKids(prog)
      <4>1. CASE j = N + 1
        BY <4>1, <1>2, <3>3
      <4>2. CASE j # N + 1
        <5>1. j \in 1..N /\ j \in (m + 2)..N
          BY <4>2, <1>1, <1>2, <3>4
        <5> QED BY <5>1, <1>2, <3>4
      <4> QED BY <4>1, <4>2
    <3> QED BY <3>4, <3>5, <3>6 DEF m
  <2>3. CASE k = n
    <3>1. d[k] = b /\ d[k].keep = N
      BY <1>4, <1>7, <2>3
    <3>2. g[N + 1].node = b.node /\ g[N + 1].what = "open"
      BY <1>2, <1>7
    <3>3. \A j \in (N + 2)..Len(g) : FALSE
      BY <1>1, <1>2
    <3> QED BY <3>1, <3>2, <3>3
  <2>4. CASE k = n + 1 \/ k = n + 2
    BY <1>4, <1>7, <1>8, <2>4
  <2> QED BY <2>1, <2>2, <2>3, <2>4
<1> QED BY <1>8 DEF Holds, g

(* A loop that enters a complex element has one occurrence more, which is  *)
(* open.                                                                   *)
LEMMA EnterCounts ==
  ASSUME Shape, Shape', Round, Counts(prog, calls, signal, found),
         NEW b, b.op = "occurrences", b.called, b.keep = Len(found), b.node = Top.node, b.n = Top.n,
         NEW x, x.op = "complex", NEW y, y.op = "sequence", calls' = Below \o <<b, x, y>>,
         NEW e \in FoundIn(prog), e.node = Top.node, e.what = "open", found' = Append(found, e)
  PROVE  Counts(prog, calls', signal', found')
<1>1. In("occurrences") /\ ~Top.called /\ Top.n < LimitOf(prog, Top.node)
  BY RoundMay
<1> DEFINE n == Len(calls)
           d == calls'
           g == Append(found, e)
<1>2. /\ n \in Nat /\ n > 1 /\ found \in Seq(FoundIn(prog)) /\ Holds(prog, calls, found) /\ Top.n \in Nat
      /\ LimitOf(prog, Top.node) \in Nat
  BY <1>1, LoopOnTop, RootFacts DEF Counts
<1>3. /\ Len(d) = n + 2 /\ d[n] = b /\ d[n + 1] = x /\ d[n + 2] = y
      /\ \A k \in 1..(n - 1) : d[k] = calls[k]
  <2>1. /\ Len(calls') = Len(calls) + 2
        /\ calls'[Len(calls)] = b /\ calls'[Len(calls) + 1] = x /\ calls'[Len(calls) + 2] = y
        /\ \A k \in 1..(Len(calls) - 1) : calls'[k] = calls[k]
    BY <1>1, TopEnters
  <2> QED BY ONLY <2>1
<1> HIDE DEF d
<1>4. Holds(prog, d, g)
  BY <1>1, <1>2, <1>3, EnterHolds
<1>5. n = 2 \/ n > 2
  <2> HIDE DEF n
  <2> QED BY <1>2
<1>6. Len(d) > 1 /\ Len(d) \in Nat /\ d[1] = calls[1] /\ (n > 2 => d[2] = calls[2])
  <2> HIDE DEF n
  <2>1. 1 \in 1..(n - 1) /\ (n > 2 => 2 \in 1..(n - 1))
    BY <1>2
  <2> QED BY <1>2, <1>3, <2>1
<1>7. CASE n > 2
  <2>1. e.node \notin RootKids(prog)
    BY <1>1, <1>7, LoopOnTop
  <2>2. Tallies(prog, g) = Tallies(prog, found)
    BY <1>2, <2>1, TalliesSame
  <2> QED BY <1>2, <1>4, <1>6, <1>7, <2>2, CountsAbove DEF d
<1>8. CASE n = 2
  <2> DEFINE t == Tallies(prog, found)
             u == Tallies(prog, g)
  <2>1. /\ RootGoes(prog, calls, t) /\ LoopSays(prog, t, Top) /\ Cardinality(t[Top.node]) \in Nat
        /\ calls[1].i \in 1..Len(prog[1].kids) /\ calls[1].called
        /\ Top = calls[2] /\ Top.node = prog[1].kids[calls[1].i]
        /\ IsProgram(prog) /\ Rooted(prog)
    BY <1>1, <1>8, RootLoop, RootFacts
  <2>2. /\ Differs(prog, t, u, Top.node) /\ InOrder(prog, u)
        /\ Cardinality(u[Top.node]) = Cardinality(t[Top.node]) + 1
    BY <1>1, <1>8, MoreTallies
  <2> HIDE DEF t, u, g
  <2>3. d[2] = b
    BY <1>3, <1>8
  <2>4. Cardinality(t[Top.node]) = Top.n
    BY <1>1, <2>1 DEF LoopSays
  <2>5. LoopSays(prog, u, d[2])
    BY <1>1, <1>2, <2>2, <2>3, <2>4 DEF LoopSays
  <2>6. RootGoes(prog, d, u)
    BY <1>2, <1>6, <1>8, <2>1, <2>2, <2>3, <2>5, RootLoops
  <2> QED BY <1>4, <2>6 DEF Counts, u, d, g
<1> QED BY <1>5, <1>7, <1>8

(* A complex element begins.                                               *)
LEMMA BeginsComplex ==
  ASSUME Shape, Shape', Round, Node.kind = "complex", Counts(prog, calls, signal, found),
         NEW u, NEW v, NEW w, NEW s,
         NEW a, a = Started(Top, Ready(Top).pos),
         found' = Append(found, Open(a.node)),
         calls' = Below \o <<[a EXCEPT !.called = TRUE, !.keep = Len(found)],
                             Complex(a.node, u, v, w), Sequence(Node.kids[1], 0, s)>>
  PROVE  Counts(prog, calls', signal', found')
<1> DEFINE b == [a EXCEPT !.called = TRUE, !.keep = Len(found)]
           x == Complex(a.node, u, v, w)
           y == Sequence(Node.kids[1], 0, s)
           e == Open(a.node)
<1>1. In("occurrences")
  BY RoundMay
<1>2. LoopAt(a) /\ a.node = Top.node /\ a.n = Top.n /\ Top.node \in DOMAIN prog
  BY <1>1, RoundFacts, LoopOnTop
<1>3. /\ b.op = "occurrences" /\ b.node = Top.node /\ CalledLoop(b) /\ b.keep = Len(found)
      /\ b.n = Top.n
  <2>1. Node.kind = "complex"
    OBVIOUS
  <2>2. /\ b.op = "occurrences" /\ b.node = Top.node /\ CalledLoop(b) /\ b.keep = Len(found)
        /\ b.n = a.n
    BY ONLY Shape, <1>1, <1>2, <2>1, CallingLoop
  <2> HIDE DEF b
  <2> QED BY ONLY <1>2, <2>2
<1>4. x.op = "complex" /\ y.op = "sequence"
  BY DEF Complex, Sequence
<1>5. e \in FoundIn(prog) /\ e.node = Top.node /\ e.what = "open"
  <2>1. <<>> \in Seq(Tokens)
    OBVIOUS
  <2>2. e \in FoundIn(prog)
    BY <1>2, <2>1, EventFacts
  <2>3. e.node = a.node /\ e.what = "open"
    BY DEF Open
  <2> QED BY <1>2, <2>2, <2>3
<1>6. calls' = Below \o <<b, x, y>> /\ found' = Append(found, e)
  OBVIOUS
<1> HIDE DEF b, x, y, e
<1>7. b.called
  BY <1>3 DEF CalledLoop
<1> QED BY <1>3, <1>4, <1>5, <1>6, <1>7, EnterCounts

(* A complex element without a bound.                                      *)
LEMMA DecodeComplexCounts ==
  ASSUME Shape, Shape', DecodeComplex, Counts(prog, calls, signal, found)
  PROVE  Counts(prog, calls', signal', found')
<1> DEFINE a == Started(Top, Ready(Top).pos)
           s == IF Term(a.node) = NoDelim THEN a.stops ELSE Append(a.stops, a.node)
<1>1. /\ Round /\ Node.kind = "complex" /\ found' = Append(found, Open(a.node))
      /\ calls' = Below \o <<[a EXCEPT !.called = TRUE, !.keep = Len(found)],
                             Complex(a.node, FALSE, 0, FALSE), Sequence(Node.kids[1], 0, s)>>
  BY Zenon DEF DecodeComplex
<1> HIDE DEF s
<1> QED BY <1>1, BeginsComplex

(* A bounded one.                                                          *)
LEMMA DecodeBoundedCounts ==
  ASSUME Shape, Shape', DecodeBounded, Counts(prog, calls, signal, found)
  PROVE  Counts(prog, calls', signal', found')
<1> DEFINE a == Started(Top, Ready(Top).pos)
<1>1. \/ In("occurrences") /\ LoopComes
      \/ /\ Round /\ Node.kind = "complex"
         /\ \E x, y, z :
              /\ found' = Append(found, Open(a.node))
              /\ calls' = Below \o <<[a EXCEPT !.called = TRUE, !.keep = Len(found)],
                                     Complex(a.node, x, y, z), Sequence(Node.kids[1], 0, <<>>)>>
  BY DecodeBoundedComes, Zenon
<1>2. CASE In("occurrences") /\ LoopComes
  BY <1>2, LoopCounts
<1>3. ASSUME Round, Node.kind = "complex", NEW x, NEW y, NEW z,
             found' = Append(found, Open(a.node)),
             calls' = Below \o <<[a EXCEPT !.called = TRUE, !.keep = Len(found)],
                                 Complex(a.node, x, y, z), Sequence(Node.kids[1], 0, <<>>)>>
      PROVE  Counts(prog, calls', signal', found')
  BY <1>3, BeginsComplex
<1> HIDE DEF a
<1> QED BY <1>1, <1>2, <1>3, Zenon

(* A complex element ends above the loop it is an item of.                 *)
LEMMA ComplexEndsCounts ==
  ASSUME Shape, Shape', ComplexEnds, Counts(prog, calls, signal, found)
  PROVE  Counts(prog, calls', signal', found')
<1> DEFINE n == Len(calls)
<1>1. /\ calls # <<>> /\ Top.op = "complex" /\ found' = found /\ \E r : Returns(r)
  BY DEF ComplexEnds, In, Return, Returns
<1>2. n \in Nat /\ n > 0 /\ Top = calls[n] /\ Holds(prog, calls, found)
  BY <1>1, RootFacts DEF Top, Counts
<1>3. n > 2
  <2>1. n # 1
    BY <1>1, <1>2, RootFacts
  <2>2. n # 2
    BY <1>1, <1>2, RootFacts
  <2> HIDE DEF n
  <2> QED BY <1>2, <2>1, <2>2
<1>4. /\ Under(calls', calls) /\ Len(calls') = n - 1
      /\ \A k \in 1..(n - 1) : calls'[k] = calls[k]
  BY <1>1, TopReturns
<1>5. Holds(prog, calls', found')
  BY <1>1, <1>2, <1>4, HoldsStill
<1>6. n > 1 /\ Len(calls') > 1 /\ calls'[1] = calls[1] /\ calls'[2] = calls[2]
  <2> DEFINE d == calls'
  <2>1. Len(d) = n - 1 /\ \A k \in 1..(n - 1) : d[k] = calls[k]
    BY <1>4
  <2> HIDE DEF n, d
  <2>2. n > 1 /\ n - 1 > 1 /\ 1 \in 1..(n - 1) /\ 2 \in 1..(n - 1)
    BY <1>2, <1>3
  <2>3. n > 1 /\ Len(d) > 1 /\ d[1] = calls[1] /\ d[2] = calls[2]
    BY <2>1, <2>2
  <2> QED BY <2>3 DEF d
<1> QED BY <1>1, <1>5, <1>6, CountsAbove

(* A decode begins with nothing found.                                     *)
LEMMA BeginCounts ==
  ASSUME NEW p, IsProgram(p)
  PROVE  Counts(p, <<Sequence(1, 0, <<>>)>>, "run", <<>>)
<1> DEFINE c == <<Sequence(1, 0, <<>>)>>
           t == Tallies(p, <<>>)
<1>1. Len(c) = 1 /\ c[1].op = "sequence" /\ c[1].i = 1 /\ ~c[1].called
  BY DEF Sequence
<1>2. \A n \in RootKids(p) : t[n] = {}
  BY DEF Tallies, Tally
<1> HIDE DEF c, t
<1>3. Holds(p, c, <<>>)
  <2>1. \A k \in 1..Len(c) : ~CalledLoop(c[k])
    BY <1>1 DEF CalledLoop
  <2> QED BY <2>1 DEF Holds
<1>4. InOrder(p, t)
  BY <1>2 DEF InOrder
<1>5. ASSUME NEW i \in {1, 2} PROVE Ahead(p, t, i)
  <2>1. ASSUME NEW x \in i..Len(p[1].kids) PROVE p[1].kids[x] \in RootKids(p)
    <3>1. 1 \in DOMAIN p /\ Len(p[1].kids) \in Nat
      BY NodeFacts DEF IsProgram
    <3>2. x \in 1..Len(p[1].kids)
      BY <3>1
    <3> QED BY <3>1, <3>2, KidIn DEF RootKids
  <2> QED BY <1>2, <2>1 DEF Ahead
<1>6. Passed(p, t, 1)
  BY DEF Passed
<1>7. RootSays(p, t, c[1])
  <2>1. 1 + 1 = 2
    OBVIOUS
  <2> QED BY <1>1, <1>5, <1>6, <2>1 DEF RootSays
<1>8. Len(c) > 0 /\ Len(c) # 0 /\ ~(Len(c) > 1)
  BY <1>1
<1>9. RootGoes(p, c, t)
  BY <1>1, <1>4, <1>7, <1>8, Zenon DEF RootGoes
<1> QED BY <1>3, <1>9 DEF Counts, c, t


(* A decode begins.                                                        *)
LEMMA InitCounts ==
  ASSUME Init
  PROVE  RootFollows
<1>1. IsProgram(prog) /\ calls = <<Sequence(1, 0, <<>>)>> /\ signal = "run" /\ found = <<>>
  BY ProgramsAssumption DEF Init, Begin
<1> QED BY <1>1, BeginCounts DEF RootFollows

(* Another decode begins.                                                  *)
LEMMA DecodeAgainCounts ==
  ASSUME Shape, DecodeAgain
  PROVE  RootFollows'
<1>1. /\ IsProgram(prog) /\ calls' = <<Sequence(1, 0, <<>>)>> /\ signal' = "run" /\ found' = <<>>
      /\ prog' = prog
  BY RootFacts DEF DecodeAgain
<1>2. Counts(prog, <<Sequence(1, 0, <<>>)>>, "run", <<>>)
  BY <1>1, BeginCounts
<1>3. Counts(prog', calls', signal', found')
  BY <1>1, <1>2
<1> QED BY <1>3 DEF RootFollows

(* Every step keeps what the root and its loops say.                       *)
LEMMA NextCounts ==
  ASSUME Shape, Shape', RootFollows, [Next]_vars
  PROVE  RootFollows'
<1>1. CASE DecodeAgain
  BY <1>1, DecodeAgainCounts
<1>2. CASE UNCHANGED vars
  BY <1>2 DEF RootFollows, vars
<1>3. ASSUME Run, prog[1].policy \notin Trailing, Counts(prog, calls, signal, found)
      PROVE  Counts(prog, calls', signal', found')
  <2>1. CASE SequenceStep
    BY <1>3, <2>1, StepCounts
  <2>2. CASE SequenceChild
    BY <1>3, <2>2, ChildCounts
  <2>3. CASE SequenceEnds
    BY <1>3, <2>3, EndCounts
  <2>4. CASE SeparatorMissing
    BY <1>3, <2>4, SeparatorMissingComes, LoopCounts
  <2>5. CASE AtSlot
    BY <1>3, <2>5, AtSlotComes, LoopCounts
  <2>6. CASE DecodeField
    BY <1>3, <2>6, DecodeFieldComes, LoopCounts
  <2>7. CASE DecodeBounded
    BY <1>3, <2>7, DecodeBoundedCounts
  <2>8. CASE DecodeComplex
    BY <1>3, <2>8, DecodeComplexCounts
  <2>9. CASE ComplexEnds
    BY <1>3, <2>9, ComplexEndsCounts
  <2>10. CASE ComplexItem
    BY <1>3, <2>10, ComplexItemComes, LoopCounts
  <2>11. CASE OccurrencesEnd
    BY <1>3, <2>11, OccurrencesEndComes, LoopCounts
  <2> QED BY <1>3, <2>1, <2>2, <2>3, <2>4, <2>5, <2>6, <2>7, <2>8, <2>9, <2>10, <2>11 DEF Run
<1>4. CASE Run
  <2>1. prog' = prog
    BY <1>4 DEF Run, SequenceStep, SequenceChild, SequenceEnds, SeparatorMissing, AtSlot, DecodeField,
         DecodeBounded, DecodeComplex, ComplexEnds, ComplexItem, OccurrencesEnd
  <2> QED BY <1>3, <1>4, <2>1 DEF RootFollows, Trailing
<1> QED BY <1>1, <1>2, <1>4 DEF Next

(* What the root has passed is in range and in order, when it has ended.   *)
LEMMA EndInRange ==
  ASSUME Shape, RootFollows
  PROVE  OccursInRange
<1> SUFFICES ASSUME calls = <<>>, signal = "ok", prog[1].policy \notin Trailing
             PROVE  \A n \in ToSet(prog[1].kids) : prog[n].kind # "sequence" =>
                      LET c == Cardinality(ItemsOf(n)) IN
                      /\ c >= prog[n].min /\ (prog[n].kind \in Calcs \/ c <= Limit(n))
                      /\ \A m \in ToSet(prog[1].kids) : m < n =>
                           \A i \in ItemsOf(m), j \in ItemsOf(n) : i < j
  BY DEF OccursInRange, Done, Trailing
<1> DEFINE t == Tallies(prog, found)
           N == Len(prog[1].kids)
<1>1. /\ IsProgram(prog) /\ 1 \in DOMAIN prog /\ N \in Nat /\ prog[1].kids \in Seq(Nat)
      /\ found \in Seq(FoundIn(prog)) /\ Len(calls) = 0
  BY RootFacts, NodeFacts
<1>2. RootGoes(prog, calls, t)
  BY <1>1 DEF RootFollows, Counts, Lost, Trailing
<1>3. InOrder(prog, t) /\ Passed(prog, t, N + 1)
  BY <1>1, <1>2 DEF RootGoes
<1>4. \A n \in RootKids(prog) : t[n] = ItemsOf(n)
  <2>1. \A n : ItemsOf(n) = Tally(found, n)
    BY <1>1 DEF ItemsOf, Tally
  <2> QED BY <2>1 DEF Tallies
<1> HIDE DEF t
<1>5. ASSUME NEW n \in RootKids(prog), prog[n].kind # "sequence"
      PROVE  Cardinality(ItemsOf(n)) \in prog[n].min..Limit(n)
  <2>1. PICK x \in 1..N : n = prog[1].kids[x]
    BY <1>1 DEF RootKids, ToSet
  <2>2. x \in 1..((N + 1) - 1)
    BY <1>1
  <2>3. InRange(prog, t, x)
    BY <1>3, <2>2 DEF Passed
  <2>4. Limit(n) = LimitOf(prog, n)
    BY DEF Limit, LimitOf
  <2> QED BY <1>4, <1>5, <2>1, <2>3, <2>4 DEF InRange
<1>6. ASSUME NEW n \in RootKids(prog), NEW m \in RootKids(prog), m < n,
             NEW i \in ItemsOf(m), NEW j \in ItemsOf(n)
      PROVE  i < j
  BY <1>3, <1>4, <1>6 DEF InOrder
<1>7. \A n \in RootKids(prog) : prog[n].min \in Nat /\ Limit(n) \in Nat
  <2> SUFFICES ASSUME NEW n \in RootKids(prog) PROVE prog[n].min \in Nat /\ Limit(n) \in Nat
    OBVIOUS
  <2>1. n \in DOMAIN prog
    BY <1>1 DEF IsProgram, RootKids
  <2> QED BY <1>1, <2>1, NodeFacts, UnboundedAssumption DEF Limit
<1>8. ASSUME NEW n \in RootKids(prog), prog[n].kind # "sequence"
      PROVE  LET c == Cardinality(ItemsOf(n)) IN c >= prog[n].min /\ c <= Limit(n)
  BY <1>5, <1>7, <1>8
<1> QED BY <1>6, <1>8 DEF RootKids

(* What the root and its loops say is inductive.                           *)
LEMMA AlwaysFollows == Spec => []RootFollows
<1>1. Init => RootFollows
  BY InitCounts
<1>2. Shape /\ Shape' /\ RootFollows /\ [Next]_vars => RootFollows'
  BY NextCounts
<1> QED BY <1>1, <1>2, AlwaysShape, PTL DEF Spec

(* In data that is accepted each child of the root occurs as often as the  *)
(* schema allows and before the children after it, however much was read   *)
(* ahead, skipped, taken back or bounded by a separator on the way.        *)
THEOREM OccursWithinRange == Spec => []OccursInRange
<1>1. Shape /\ RootFollows => OccursInRange
  BY EndInRange
<1> QED BY <1>1, AlwaysShape, AlwaysFollows, PTL

----------------------------------------------------------------------------
(* The content of the data, and of what was found.  Induction over data is *)
(* UpTo: what holds at 0, and at each place after one where it holds, holds*)
(* up to the end.                                                          *)

(* Numbers that hold 0, and with each below a limit the next, hold all     *)
(* below it.                                                               *)
LEMMA UpTo ==
  ASSUME NEW n \in Nat, NEW T, 0 \in T, \A k \in 0..(n - 1) : k \in T => k + 1 \in T
  PROVE  \A k \in 0..n : k \in T
<1> DEFINE U == {k \in 0..n : k \notin T}
<1> SUFFICES ASSUME U # {} PROVE FALSE
  OBVIOUS
<1>1. U \in SUBSET Nat
  OBVIOUS
<1>2. PICK x \in U : \A y \in U : x <= y
  BY <1>1, Least
<1>3. x \in 0..n /\ x # 0 /\ x \notin T
  OBVIOUS
<1>4. x - 1 \in 0..(n - 1) /\ (x - 1) + 1 = x /\ ~(x <= x - 1)
  BY <1>3
<1>5. x - 1 \in T
  BY <1>2, <1>4
<1> QED BY <1>3, <1>4, <1>5

(* A function of the numbers up to n is defined by where it begins and by  *)
(* how each value follows from the one before.                             *)
Follows(g, n, z, h) == g = [k \in 0..n |-> IF k = 0 THEN z ELSE h[<<g[k - 1], k>>]]

LEMMA FollowsExists ==
  ASSUME NEW S, NEW n \in Nat, NEW z \in S, NEW h \in [S \X (1..n) -> S]
  PROVE  \E g \in [0..n -> S] : Follows(g, n, z, h)
<1> DEFINE Defined(g, m) == \A k \in 0..m : g[k] = IF k = 0 THEN z ELSE h[<<g[k - 1], k>>]
           T == {m \in 0..n : \E g \in [0..n -> S] : Defined(g, m)}
<1>1. 0 \in T
  <2> DEFINE g == [k \in 0..n |-> z]
  <2>1. g \in [0..n -> S] /\ Defined(g, 0)
    OBVIOUS
  <2>2. 0 \in 0..n
    OBVIOUS
  <2> HIDE DEF g
  <2> QED BY <2>1, <2>2
<1>2. ASSUME NEW m \in 0..(n - 1), m \in T PROVE m + 1 \in T
  <2>1. PICK g \in [0..n -> S] : Defined(g, m)
    BY <1>2
  <2> DEFINE v == h[<<g[m], m + 1>>]
             f == [k \in 0..n |-> IF k = m + 1 THEN v ELSE g[k]]
  <2>2. m \in 0..n /\ m + 1 \in 1..n /\ g[m] \in S
    OBVIOUS
  <2>3. v \in S
    BY <2>2
  <2>4. f \in [0..n -> S] /\ f[m + 1] = v /\ \A k \in 0..m : f[k] = g[k]
    BY <2>2, <2>3
  <2> HIDE DEF f
  <2>5. ASSUME NEW k \in 0..(m + 1)
        PROVE  f[k] = IF k = 0 THEN z ELSE h[<<f[k - 1], k>>]
    <3>1. CASE k = m + 1
      <4>1. k - 1 = m /\ k # 0 /\ f[m] = g[m]
        BY <2>4, <3>1
      <4> QED BY <2>4, <3>1, <4>1
    <3>2. CASE k # m + 1
      <4>1. k \in 0..m /\ (k # 0 => k - 1 \in 0..m)
        BY <3>2
      <4>2. f[k] = g[k] /\ (k # 0 => f[k - 1] = g[k - 1])
        BY <2>4, <4>1
      <4>3. g[k] = IF k = 0 THEN z ELSE h[<<g[k - 1], k>>]
        BY <2>1, <4>1
      <4> QED BY <4>2, <4>3
    <3> QED BY <3>1, <3>2
  <2> QED BY <2>2, <2>4, <2>5
<1>3. n \in T
  <2> HIDE DEF T
  <2>1. \A k \in 0..n : k \in T
    BY <1>1, <1>2, UpTo
  <2> QED BY <2>1
<1>4. \E g \in [0..n -> S] : Follows(g, n, z, h)
  <2>1. PICK g \in [0..n -> S] : Defined(g, n)
    BY <1>3
  <2>2. g = [k \in 0..n |-> IF k = 0 THEN z ELSE h[<<g[k - 1], k>>]]
    BY <2>1
  <2> QED BY <2>2 DEF Follows
<1> QED BY <1>4

(* The tokens of s that are no delimiters.                                 *)
LEMMA KeptIs ==
  ASSUME NEW p, NEW S, NEW s \in Seq(S)
  PROVE  /\ Len(s) \in Nat /\ Kept(p, s) \in [0..Len(s) -> Seq(S)] /\ Kept(p, s)[0] = <<>>
         /\ \A k \in 1..Len(s) :
              Kept(p, s)[k] = IF s[k] \in Delimiters(p) THEN Kept(p, s)[k - 1]
                              ELSE Append(Kept(p, s)[k - 1], s[k])
<1> DEFINE n == Len(s)
           D == Delimiters(p)
           F == Seq(S)
           h == [x \in F \X (1..n) |-> IF s[x[2]] \in D THEN x[1] ELSE Append(x[1], s[x[2]])]
           z == <<>>
           P(g) == g = [k \in 0..n |-> IF k = 0 THEN <<>>
                                       ELSE IF s[k] \in D THEN g[k - 1] ELSE Append(g[k - 1], s[k])]
<1>1. n \in Nat /\ \A k \in 1..n : s[k] \in S
  BY LenProperties
<1>2. h \in [F \X (1..n) -> F] /\ z \in F
  <2>1. ASSUME NEW x \in F \X (1..n) PROVE (IF s[x[2]] \in D THEN x[1] ELSE Append(x[1], s[x[2]])) \in F
    <3>1. x[1] \in Seq(S) /\ s[x[2]] \in S
      BY <1>1
    <3> HIDE DEF D
    <3> QED BY <3>1, AppendProperties
  <2> HIDE DEF D, F
  <2>2. h \in [F \X (1..n) -> F]
    BY <2>1
  <2>3. z \in F
    BY DEF F
  <2> QED BY <2>2, <2>3
<1>3. \A a \in F, k \in 1..n : h[<<a, k>>] = IF s[k] \in D THEN a ELSE Append(a, s[k])
  <2> HIDE DEF D, F
  <2> QED OBVIOUS
<1> HIDE DEF D, F, h, z
<1>4. PICK g \in [0..n -> F] : Follows(g, n, z, h)
  BY <1>1, <1>2, FollowsExists
<1>5. P(g)
  <2>1. \A k \in 0..n : k # 0 => k - 1 \in 0..n /\ k \in 1..n
    BY <1>1
  <2>2. \A k \in 0..n : (IF k = 0 THEN z ELSE h[<<g[k - 1], k>>]) =
                        IF k = 0 THEN <<>> ELSE IF s[k] \in D THEN g[k - 1] ELSE Append(g[k - 1], s[k])
    BY <1>3, <1>4, <2>1 DEF z
  <2>3. g = [k \in 0..n |-> IF k = 0 THEN z ELSE h[<<g[k - 1], k>>]]
    BY <1>4 DEF Follows
  <2> QED BY <2>2, <2>3
<1>6. Kept(p, s) = CHOOSE f : P(f)
  BY DEF Kept, D
<1> DEFINE K == Kept(p, s)
<1> HIDE DEF P
<1>7. P(K)
  BY <1>5, <1>6
<1> HIDE DEF K
<1> USE DEF P
<1>8. \A k \in 1..n : K[k] = IF s[k] \in D THEN K[k - 1] ELSE Append(K[k - 1], s[k])
  <2>1. \A k \in 1..n : k \in 0..n /\ k # 0
    BY <1>1
  <2> QED BY <1>7, <2>1
<1>9. K[0] = <<>>
  BY <1>1, <1>7
<1>10. K \in [0..n -> F]
  <2> DEFINE U == {k \in 0..n : K[k] \in F}
  <2>1. K = [k \in 0..n |-> K[k]]
    BY <1>7
  <2>2. 0 \in U
    BY <1>1, <1>2, <1>9 DEF z
  <2>3. ASSUME NEW k \in 0..(n - 1), k \in U PROVE k + 1 \in U
    <3>1. k + 1 \in 1..n /\ (k + 1) - 1 = k /\ k + 1 \in 0..n
      BY <1>1
    <3>2. K[k + 1] = (IF s[k + 1] \in D THEN K[k] ELSE Append(K[k], s[k + 1])) /\ s[k + 1] \in S
      BY <1>1, <1>8, <3>1
    <3>3. K[k] \in Seq(S)
      BY <2>3 DEF F
    <3>4. K[k + 1] \in Seq(S)
      BY <3>2, <3>3, AppendProperties
    <3> QED BY <3>1, <3>4 DEF F
  <2> HIDE DEF U
  <2>4. \A k \in 0..n : k \in U
    BY <1>1, <2>2, <2>3, UpTo
  <2>5. \A k \in 0..n : K[k] \in F
    BY <2>4 DEF U
  <2> QED BY <2>1, <2>5
<1> QED BY <1>1, <1>8, <1>9, <1>10 DEF K, D, F

(* Only delimiters are from place i to place j of s.                       *)
Clear(p, s, i, j) == \A k \in (i + 1)..j : s[k] \in Delimiters(p)

(* Delimiters add nothing to the content.                                  *)
LEMMA KeptClear ==
  ASSUME NEW p, NEW S, NEW s \in Seq(S), NEW i \in 0..Len(s), NEW j \in i..Len(s), Clear(p, s, i, j)
  PROVE  Kept(p, s)[j] = Kept(p, s)[i]
<1> DEFINE K == Kept(p, s)
           n == j - i
           T == {k \in 0..n : K[i + k] = K[i]}
<1>1. /\ Len(s) \in Nat /\ i \in Nat /\ j \in Nat /\ n \in Nat /\ i + n = j /\ j <= Len(s)
  BY LenProperties
<1>2. \A k \in 1..Len(s) : s[k] \in Delimiters(p) => K[k] = K[k - 1]
  BY KeptIs
<1> HIDE DEF K, n
<1>3. 0 \in T
  BY <1>1
<1>4. ASSUME NEW k \in 0..(n - 1), k \in T PROVE k + 1 \in T
  <2>1. k + 1 \in 0..n /\ i + (k + 1) \in (i + 1)..j /\ i + (k + 1) \in 1..Len(s) /\ (i + (k + 1)) - 1 = i + k
    BY <1>1
  <2>2. K[i + (k + 1)] = K[i + k]
    BY <1>2, <2>1 DEF Clear
  <2> QED BY <1>4, <2>1, <2>2
<1> HIDE DEF T
<1>5. \A k \in 0..n : k \in T
  BY <1>1, <1>3, <1>4, UpTo
<1>6. n \in T
  BY <1>1, <1>5
<1> QED BY <1>1, <1>6 DEF T, K

(* The content up to the end of a text is that up to its beginning and its *)
(* own.                                                                    *)
LEMMA KeptText ==
  ASSUME NEW p, NEW S, NEW s \in Seq(S), NEW i \in 0..Len(s), NEW j \in i..Len(s)
  PROVE  Kept(p, s)[j] = Kept(p, s)[i] \o Content(p, SubSeq(s, i + 1, j))
<1> DEFINE t == SubSeq(s, i + 1, j)
           n == j - i
           K == Kept(p, s)
           L == Kept(p, t)
           D == Delimiters(p)
           T == {k \in 0..n : K[i + k] = K[i] \o L[k]}
<1>1. /\ Len(s) \in Nat /\ i \in Nat /\ j \in Nat /\ n \in Nat /\ i + n = j /\ j <= Len(s)
  BY LenProperties
<1>2. t \in Seq(S) /\ Len(t) = n /\ \A k \in 1..n : t[k] = s[i + k]
  <2>1. \A k \in (i + 1)..j : s[k] \in S
    BY <1>1
  <2>2. /\ t \in Seq(S)
        /\ Len(t) = IF i + 1 <= j THEN j - (i + 1) + 1 ELSE 0
        /\ \A k \in 1..(j - (i + 1) + 1) : t[k] = s[(i + 1) + k - 1]
    <3>1. i + 1 \in Nat /\ j \in Nat
      BY <1>1
    <3> QED BY <2>1, <3>1, SubSeqProperties
  <2> HIDE DEF t
  <2>3. Len(t) = n
    BY <1>1, <2>2
  <2>4. \A k \in 1..n : t[k] = s[i + k]
    <3> SUFFICES ASSUME NEW k \in 1..n PROVE t[k] = s[i + k]
      OBVIOUS
    <3>1. k \in 1..(j - (i + 1) + 1) /\ (i + 1) + k - 1 = i + k
      BY <1>1
    <3> QED BY <2>2, <3>1
  <2> QED BY <2>2, <2>3, <2>4
<1> HIDE DEF t
<1>3. /\ K \in [0..Len(s) -> Seq(S)]
      /\ \A k \in 1..Len(s) : K[k] = IF s[k] \in D THEN K[k - 1] ELSE Append(K[k - 1], s[k])
  BY KeptIs
<1>4. /\ L \in [0..n -> Seq(S)] /\ L[0] = <<>>
      /\ \A k \in 1..n : L[k] = IF t[k] \in D THEN L[k - 1] ELSE Append(L[k - 1], t[k])
  <2>1. /\ L \in [0..Len(t) -> Seq(S)] /\ L[0] = <<>>
        /\ \A k \in 1..Len(t) : L[k] = IF t[k] \in D THEN L[k - 1] ELSE Append(L[k - 1], t[k])
    BY <1>2, KeptIs, ZenonT(60)
  <2>2. Len(t) = n
    BY <1>2
  <2> HIDE DEF L, n, D
  <2> QED BY <2>1, <2>2
<1>5. Content(p, t) = L[n]
  BY <1>2 DEF Content
<1> HIDE DEF K, L, D, n
<1>6. K[i] \in Seq(S)
  BY <1>1, <1>3
<1>7. 0 \in T
  BY <1>1, <1>4, <1>6, ConcatEmptySeq
<1>8. ASSUME NEW k \in 0..(n - 1), k \in T PROVE k + 1 \in T
  <2>1. /\ k + 1 \in 0..n /\ k + 1 \in 1..n /\ (k + 1) - 1 = k /\ k \in 0..n
        /\ i + (k + 1) \in 1..Len(s) /\ (i + (k + 1)) - 1 = i + k
    BY <1>1
  <2> DEFINE x == s[i + (k + 1)]
  <2>2. K[i + (k + 1)] = IF x \in D THEN K[i + k] ELSE Append(K[i + k], x)
    BY <1>3, <2>1
  <2>3. t[k + 1] = x
    BY <1>2, <2>1
  <2>4. L[k + 1] = IF x \in D THEN L[k] ELSE Append(L[k], x)
    BY <1>4, <2>1, <2>3
  <2>5. K[i + k] = K[i] \o L[k] /\ L[k] \in Seq(S) /\ x \in S
    BY <1>4, <1>8, <2>1, SMTT(20)
  <2> HIDE DEF x
  <2> DEFINE a == K[i]  b == L[k]
  <2>6. Append(a \o b, x) = a \o Append(b, x)
    <3> DEFINE u == <<x>>
    <3>1. a \in Seq(S) /\ b \in Seq(S) /\ x \in S
      BY <1>6, <2>5
    <3> HIDE DEF a, b, T
    <3>2. a \o b \in Seq(S) /\ u \in Seq(S)
      BY <3>1, ConcatProperties
    <3>3. Append(a \o b, x) = (a \o b) \o u /\ Append(b, x) = b \o u
      BY <3>1, <3>2, AppendIsConcat
    <3> HIDE DEF u
    <3>4. (a \o b) \o u = a \o (b \o u)
      BY <3>1, <3>2, ConcatAssociative, SMTT(30)
    <3> QED BY <3>3, <3>4
  <2>7. K[i + (k + 1)] = K[i] \o L[k + 1]
    <3> HIDE DEF a, b
    <3>1. K[i + k] = a \o b
      BY <2>5 DEF a, b
    <3>2. CASE x \in D
      BY <2>2, <2>4, <2>5, <3>2
    <3>3. CASE x \notin D
      <4>1. K[i + (k + 1)] = Append(a \o b, x) /\ L[k + 1] = Append(b, x)
        BY <2>2, <2>4, <3>1, <3>3 DEF b
      <4> QED BY <2>6, <4>1 DEF a
    <3> QED BY <3>2, <3>3
  <2> QED BY <2>1, <2>7
<1> HIDE DEF T
<1>9. \A k \in 0..n : k \in T
  BY <1>1, <1>7, <1>8, UpTo
<1>10. n \in T
  BY <1>1, <1>9
<1>11. K[i + n] = K[i] \o L[n]
  BY <1>10 DEF T
<1>12. K[j] = K[i] \o Content(p, t)
  BY <1>1, <1>5, <1>11
<1> QED BY <1>12 DEF K, t

(* A text has a content; no text has none.                                 *)
LEMMA ContentFacts ==
  ASSUME NEW p, NEW S, NEW s \in Seq(S)
  PROVE  Content(p, s) \in Seq(S) /\ (s = <<>> => Content(p, s) = <<>>)
<1>1. Len(s) \in Nat /\ Kept(p, s) \in [0..Len(s) -> Seq(S)] /\ Kept(p, s)[0] = <<>>
  BY KeptIs
<1>2. s = <<>> => Len(s) = 0
  OBVIOUS
<1> QED BY <1>1, <1>2 DEF Content

(* The content of what is found.                                           *)
LEMMA TextsIs ==
  ASSUME NEW p, NEW f \in Seq(FoundIn(p))
  PROVE  /\ Len(f) \in Nat /\ Texts(p, f) \in [0..Len(f) -> Seq(Tokens)] /\ Texts(p, f)[0] = <<>>
         /\ \A k \in 1..Len(f) : Texts(p, f)[k] = Texts(p, f)[k - 1] \o Content(p, f[k].text)
<1> DEFINE n == Len(f)
           C == [k \in 1..n |-> Content(p, f[k].text)]
           F == Seq(Tokens)
           h == [x \in F \X (1..n) |-> x[1] \o C[x[2]]]
           z == <<>>
           P(g) == g = [k \in 0..n |-> IF k = 0 THEN <<>> ELSE g[k - 1] \o Content(p, f[k].text)]
<1>1. n \in Nat /\ \A k \in 1..n : f[k].text \in Seq(Tokens)
  <2>1. n \in Nat /\ \A k \in 1..n : f[k] \in FoundIn(p)
    BY LenProperties
  <2>2. \A e \in FoundIn(p) : e.text \in Seq(Tokens)
    BY DEF FoundIn
  <2> QED BY <2>1, <2>2
<1>2. C \in [1..n -> F] /\ \A k \in 1..n : C[k] = Content(p, f[k].text)
  BY <1>1, ContentFacts
<1> HIDE DEF C
<1>3. h \in [F \X (1..n) -> F] /\ z \in F
  <2>1. \A a, b \in F : a \o b \in F
    BY ConcatProperties
  <2>2. z \in F
    OBVIOUS
  <2> HIDE DEF F
  <2>3. \A x \in F \X (1..n) : x[1] \o C[x[2]] \in F
    BY <1>2, <2>1
  <2> QED BY <2>2, <2>3
<1>4. \A a \in F, k \in 1..n : h[<<a, k>>] = a \o C[k]
  <2> HIDE DEF F
  <2> QED OBVIOUS
<1> HIDE DEF F, h, z
<1>5. PICK g \in [0..n -> F] : Follows(g, n, z, h)
  BY <1>1, <1>3, FollowsExists
<1>6. P(g)
  <2>1. \A k \in 0..n : k # 0 => k - 1 \in 0..n /\ k \in 1..n
    BY <1>1
  <2>2. \A k \in 0..n : (IF k = 0 THEN z ELSE h[<<g[k - 1], k>>]) =
                        IF k = 0 THEN <<>> ELSE g[k - 1] \o Content(p, f[k].text)
    BY <1>2, <1>4, <2>1 DEF z
  <2>3. g = [k \in 0..n |-> IF k = 0 THEN z ELSE h[<<g[k - 1], k>>]]
    BY <1>5 DEF Follows
  <2> QED BY <2>2, <2>3
<1>7. Texts(p, f) = CHOOSE g0 : P(g0)
  BY DEF Texts
<1> DEFINE K == Texts(p, f)
<1> HIDE DEF P
<1>8. P(K)
  BY <1>6, <1>7
<1> HIDE DEF K
<1> USE DEF P
<1>9. \A k \in 1..n : K[k] = K[k - 1] \o C[k]
  <2>1. \A k \in 1..n : k \in 0..n /\ k # 0
    BY <1>1
  <2> QED BY <1>2, <1>8, <2>1
<1>10. K[0] = <<>>
  BY <1>1, <1>8
<1>11. K \in [0..n -> F]
  <2> DEFINE U == {k \in 0..n : K[k] \in F}
  <2>1. K = [k \in 0..n |-> K[k]]
    BY <1>8
  <2>2. 0 \in U
    BY <1>1, <1>3, <1>10 DEF z
  <2>3. ASSUME NEW k \in 0..(n - 1), k \in U PROVE k + 1 \in U
    <3>1. k + 1 \in 1..n /\ (k + 1) - 1 = k /\ k + 1 \in 0..n
      BY <1>1
    <3>2. K[k + 1] = K[k] \o C[k + 1] /\ C[k + 1] \in F
      BY <1>2, <1>9, <3>1
    <3>3. K[k + 1] \in Seq(Tokens)
      BY <2>3, <3>2, ConcatProperties DEF F
    <3> QED BY <3>1, <3>3 DEF F
  <2> HIDE DEF U
  <2>4. \A k \in 0..n : k \in U
    BY <1>1, <2>2, <2>3, UpTo
  <2>5. \A k \in 0..n : K[k] \in F
    BY <2>4 DEF U
  <2> QED BY <2>1, <2>5
<1> QED BY <1>1, <1>2, <1>9, <1>10, <1>11 DEF K, F

(* Events that begin alike have the same content that far.                 *)
LEMMA TextsAgree ==
  ASSUME NEW p, NEW f \in Seq(FoundIn(p)), NEW g \in Seq(FoundIn(p)),
         NEW n \in Nat, n <= Len(f), n <= Len(g), \A k \in 1..n : f[k] = g[k]
  PROVE  Texts(p, f)[n] = Texts(p, g)[n]
<1> DEFINE F == Texts(p, f)
           G == Texts(p, g)
           T == {k \in 0..n : F[k] = G[k]}
<1>0. Len(f) \in Nat /\ Len(g) \in Nat
  BY LenProperties
<1>1. /\ Len(f) \in Nat /\ F \in [0..Len(f) -> Seq(Tokens)] /\ F[0] = <<>>
      /\ \A k \in 1..Len(f) : F[k] = F[k - 1] \o Content(p, f[k].text)
  BY TextsIs
<1>2. /\ Len(g) \in Nat /\ G \in [0..Len(g) -> Seq(Tokens)] /\ G[0] = <<>>
      /\ \A k \in 1..Len(g) : G[k] = G[k - 1] \o Content(p, g[k].text)
  BY TextsIs
<1> HIDE DEF F, G
<1>3. 0 \in T
  BY <1>1, <1>2
<1>4. ASSUME NEW k \in 0..(n - 1), k \in T PROVE k + 1 \in T
  <2>1. k + 1 \in 1..n /\ k + 1 \in 0..n /\ (k + 1) - 1 = k
        /\ k + 1 \in 1..Len(f) /\ k + 1 \in 1..Len(g)
    <3> HIDE DEF T
    <3> QED BY <1>0
  <2>2. F[k + 1] = F[k] \o Content(p, f[k + 1].text) /\ G[k + 1] = G[k] \o Content(p, g[k + 1].text)
    BY <1>1, <1>2, <2>1
  <2>3. f[k + 1] = g[k + 1]
    BY <2>1
  <2> QED BY <1>4, <2>1, <2>2, <2>3
<1> HIDE DEF T
<1>5. \A k \in 0..n : k \in T
  BY <1>3, <1>4, UpTo
<1>6. n \in T
  BY <1>5
<1> QED BY <1>6 DEF T, F, G

----------------------------------------------------------------------------
(* What the frames of a stack say of the content: what was found before    *)
(* the item of a loop that has called is the content up to the item, and   *)
(* up to the separator before it; the data from the end of that of a       *)
(* bounded element to where its loop resumes is delimiters only; the       *)
(* outermost data is the whole input.  K is the content of the input by    *)
(* place, W that of what was found, by events.                             *)
Framed(K, W, m, c, e) ==
  /\ EndAbove(c, e, 0, m)
  /\ \A k \in 1..Len(c) :
       /\ CalledLoop(c[k]) => W[c[k].keep] = K[c[k].start] /\ W[c[k].keep] = K[c[k].before]
       /\ c[k].op = "complex" /\ c[k].bounded =>
            \E x \in 0..m : K[x] = K[c[k].resume] /\ EndAbove(c, e, k, x)

(* The data above a frame when the top returns.                            *)
LEMMA EndReturn ==
  ASSUME NEW p, NEW m, NEW c, NEW e, NEW f, Stack(p, m, c, e), c # <<>>,
         IF Up(c).op = "complex" /\ Up(c).bounded THEN f = Up(c).end ELSE f = e,
         NEW k \in 0..(Len(c) - 1), NEW x, EndAbove(c, e, k, x)
  PROVE  EndAbove(Rest(c), f, k, x)
<1> DEFINE d == Rest(c)  n == Len(c)
<1>1. n \in Nat /\ n > 0 /\ Len(d) = n - 1 /\ \A j \in 1..(n - 1) : d[j] = c[j]
  BY RestFacts DEF Stack
<1>2. Up(c) = c[n]
  BY DEF Up
<1>3. c[n].op = "complex" /\ ~c[n].bounded => c[n].end = e
  <2> SUFFICES ASSUME c[n].op = "complex", ~c[n].bounded PROVE c[n].end = e
    OBVIOUS
  <2>1. EndAbove(c, e, n, c[n].end)
    BY <1>1 DEF Stack, Ends
  <2> QED BY <2>1, <1>1 DEF EndAbove
<1> HIDE DEF d
<1>4. ASSUME \A j \in (k + 1)..Len(d) : d[j].op # "complex" PROVE x = f
  <2>1. \A j \in (k + 1)..(n - 1) : j \in 1..(n - 1) /\ d[j] = c[j]
    BY <1>1
  <2>2. \A j \in (k + 1)..(n - 1) : c[j].op # "complex"
    BY <1>1, <1>4, <2>1
  <2>3. CASE c[n].op = "complex"
    <3>1. x = c[n].end
      BY <1>1, <2>2, <2>3 DEF EndAbove
    <3> QED BY <1>2, <1>3, <2>3, <3>1
  <2>4. CASE c[n].op # "complex"
    <3>1. \A j \in (k + 1)..n : c[j].op # "complex"
      BY <1>1, <2>2, <2>4
    <3> QED BY <1>2, <2>4, <3>1 DEF EndAbove
  <2> QED BY <2>3, <2>4
<1>5. ASSUME NEW j \in (k + 1)..Len(d), d[j].op = "complex",
             \A i \in (k + 1)..(j - 1) : d[i].op # "complex"
      PROVE  x = d[j].end
  <2>1. j \in (k + 1)..n /\ d[j] = c[j]
    BY <1>1
  <2>2. \A i \in (k + 1)..(j - 1) : d[i] = c[i]
    BY <1>1
  <2>3. c[j].op = "complex" /\ \A i \in (k + 1)..(j - 1) : c[i].op # "complex"
    BY <1>5, <2>1, <2>2
  <2> QED BY <2>1, <2>3 DEF EndAbove
<1>6. EndAbove(d, f, k, x)
  BY <1>4, <1>5 DEF EndAbove
<1> QED BY <1>6 DEF d

(* The data above a frame when another is called.                          *)
LEMMA EndCall ==
  ASSUME NEW c \in Seq(Frames), NEW b \in Frames, NEW e, NEW f,
         b.op = "complex" => b.end = e, b.op = "complex" \/ f = e,
         NEW k \in 0..Len(c), NEW x, EndAbove(c, e, k, x)
  PROVE  EndAbove(Append(c, b), f, k, x)
<1> DEFINE d == Append(c, b)  n == Len(c)
<1>1. n \in Nat /\ Len(d) = n + 1 /\ d[n + 1] = b /\ \A j \in 1..n : d[j] = c[j]
  BY AppendProperties
<1> HIDE DEF d
<1>2. ASSUME \A j \in (k + 1)..(n + 1) : d[j].op # "complex" PROVE x = f
  <2>1. n + 1 \in (k + 1)..(n + 1) /\ \A j \in (k + 1)..n : j \in (k + 1)..(n + 1) /\ j \in 1..n
    BY <1>1
  <2>2. b.op # "complex" /\ \A j \in (k + 1)..n : c[j].op # "complex"
    BY <1>1, <1>2, <2>1
  <2> QED BY <2>2 DEF EndAbove
<1>3. ASSUME NEW j \in (k + 1)..(n + 1), d[j].op = "complex",
             \A i \in (k + 1)..(j - 1) : d[i].op # "complex"
      PROVE  x = d[j].end
  <2>1. \A i \in (k + 1)..(j - 1) : i \in 1..n /\ d[i] = c[i]
    BY <1>1
  <2>2. \A i \in (k + 1)..(j - 1) : c[i].op # "complex"
    BY <1>3, <2>1
  <2>3. CASE j = n + 1
    <3>1. x = e
      BY <1>1, <2>2, <2>3 DEF EndAbove
    <3> QED BY <1>1, <1>3, <2>3, <3>1
  <2>4. CASE j # n + 1
    <3>1. j \in (k + 1)..n /\ j \in 1..n /\ d[j] = c[j]
      BY <1>1, <2>4
    <3> QED BY <1>3, <2>2, <3>1 DEF EndAbove
  <2> QED BY <2>3, <2>4
<1>4. EndAbove(d, f, k, x)
  BY <1>1, <1>2, <1>3 DEF EndAbove
<1> QED BY <1>4 DEF d

(* The top returns.                                                        *)
LEMMA FramedRest ==
  ASSUME NEW p, NEW m, NEW c, NEW e, NEW f, Stack(p, m, c, e), c # <<>>,
         IF Up(c).op = "complex" /\ Up(c).bounded THEN f = Up(c).end ELSE f = e,
         NEW K, NEW W, NEW l, Framed(K, W, l, c, e)
  PROVE  Framed(K, W, l, Rest(c), f)
<1> DEFINE d == Rest(c)
<1>1. Len(c) \in Nat /\ Len(c) > 0 /\ Len(d) = Len(c) - 1 /\ \A j \in 1..(Len(c) - 1) : d[j] = c[j]
  BY RestFacts DEF Stack
<1>2. \A k \in 0..(Len(c) - 1) : \A x : EndAbove(c, e, k, x) => EndAbove(d, f, k, x)
  BY EndReturn
<1> HIDE DEF d
<1>3. EndAbove(d, f, 0, l)
  BY <1>1, <1>2 DEF Framed
<1>4. ASSUME NEW k \in 1..Len(d)
      PROVE  /\ CalledLoop(d[k]) => W[d[k].keep] = K[d[k].start] /\ W[d[k].keep] = K[d[k].before]
             /\ d[k].op = "complex" /\ d[k].bounded =>
                  \E x \in 0..l : K[x] = K[d[k].resume] /\ EndAbove(d, f, k, x)
  <2>1. k \in 1..Len(c) /\ k \in 0..(Len(c) - 1) /\ d[k] = c[k]
    BY <1>1
  <2>2. /\ CalledLoop(c[k]) => W[c[k].keep] = K[c[k].start] /\ W[c[k].keep] = K[c[k].before]
        /\ c[k].op = "complex" /\ c[k].bounded =>
             \E x \in 0..l : K[x] = K[c[k].resume] /\ EndAbove(c, e, k, x)
    BY <2>1 DEF Framed
  <2> QED BY <1>2, <2>1, <2>2
<1>5. Framed(K, W, l, d, f)
  BY <1>3, <1>4 DEF Framed
<1> QED BY <1>5 DEF d

(* A frame is called.                                                      *)
LEMMA FramedCall ==
  ASSUME NEW c \in Seq(Frames), NEW b \in Frames, NEW e, NEW f,
         b.op = "complex" => b.end = e, b.op = "complex" \/ f = e,
         NEW K, NEW W, NEW l, Framed(K, W, l, c, e),
         CalledLoop(b) => W[b.keep] = K[b.start] /\ W[b.keep] = K[b.before],
         b.op = "complex" /\ b.bounded => f \in 0..l /\ K[f] = K[b.resume]
  PROVE  Framed(K, W, l, Append(c, b), f)
<1> DEFINE d == Append(c, b)  n == Len(c)
<1>1. n \in Nat /\ Len(d) = n + 1 /\ d[n + 1] = b /\ \A j \in 1..n : d[j] = c[j]
  BY AppendProperties
<1>2. \A k \in 0..n : \A x : EndAbove(c, e, k, x) => EndAbove(d, f, k, x)
  BY EndCall
<1> HIDE DEF d
<1>3. EndAbove(d, f, 0, l)
  BY <1>1, <1>2 DEF Framed
<1>4. ASSUME NEW k \in 1..Len(d)
      PROVE  /\ CalledLoop(d[k]) => W[d[k].keep] = K[d[k].start] /\ W[d[k].keep] = K[d[k].before]
             /\ d[k].op = "complex" /\ d[k].bounded =>
                  \E x \in 0..l : K[x] = K[d[k].resume] /\ EndAbove(d, f, k, x)
  <2>1. CASE k = n + 1
    <3>1. EndAbove(d, f, k, f)
      BY <1>1, <2>1 DEF EndAbove
    <3> QED BY <1>1, <2>1, <3>1
  <2>2. CASE k # n + 1
    <3>1. k \in 1..n /\ k \in 0..n /\ d[k] = c[k]
      BY <1>1, <2>2
    <3>2. /\ CalledLoop(c[k]) => W[c[k].keep] = K[c[k].start] /\ W[c[k].keep] = K[c[k].before]
          /\ c[k].op = "complex" /\ c[k].bounded =>
               \E x \in 0..l : K[x] = K[c[k].resume] /\ EndAbove(c, e, k, x)
      BY <3>1 DEF Framed
    <3> QED BY <1>2, <3>1, <3>2
  <2> QED BY <2>1, <2>2
<1>5. Framed(K, W, l, d, f)
  BY <1>3, <1>4 DEF Framed
<1> QED BY <1>5 DEF d

(* Other events are found, after what was found before every item.         *)
LEMMA FramedFound ==
  ASSUME NEW K, NEW W, NEW V, NEW l, NEW c, NEW e, Framed(K, W, l, c, e),
         \A k \in 1..Len(c) : CalledLoop(c[k]) => V[c[k].keep] = W[c[k].keep]
  PROVE  Framed(K, V, l, c, e)
BY DEF Framed

----------------------------------------------------------------------------
(* Places that only delimiters are between.                                *)

Bare == Kept(prog, input)
Same(i, j) == Bare[i] = Bare[j]

(* A delimiter of the program.                                             *)
Delimiting(d) == d \in Seq(Tokens) /\ ToSet(d) \subseteq Delimiters(prog)

(* The delimiters of a node, and of none.                                  *)
LEMMA NodeDelimits ==
  ASSUME IsProgram(prog), NEW n \in DOMAIN prog \union {0}
  PROVE  Delimiting(Sep(n)) /\ Delimiting(Term(n))
<1>1. Sep(n) \in Seq(Tokens) /\ Term(n) \in Seq(Tokens)
  BY DelimiterFacts
<1>2. CASE n = 0
  <2>1. ToSet(<<>>) = {}
    BY DEF ToSet
  <2> QED BY <1>1, <1>2, <2>1 DEF Delimiting, Sep, Term, NoDelim
<1>3. CASE n # 0
  <2>1. n \in DOMAIN prog /\ Sep(n) = prog[n].sep /\ Term(n) = prog[n].term
    BY <1>3 DEF Sep, Term
  <2>2. ToSet(prog[n].sep) \union ToSet(prog[n].term) \subseteq Delimiters(prog)
    BY <2>1 DEF Delimiters
  <2> QED BY <1>1, <2>1, <2>2 DEF Delimiting
<1> QED BY <1>2, <1>3

(* Past a delimiter.                                                       *)
LEMMA PastSame ==
  ASSUME Shape, NEW d, Delimiting(d), NEW p \in 0..end
  PROVE  Same(Past(d, p), p)
<1>1. /\ input \in Seq(Tokens) /\ Len(input) \in Nat /\ end \in Nat /\ end <= Len(input)
      /\ d \in Seq(Tokens) /\ Len(d) \in Nat
  <2>1. input \in Seq(Tokens) /\ end \in 0..Len(input) /\ d \in Seq(Tokens)
    BY DEF Shape, Typed, Delimiting
  <2> QED BY <2>1, LenProperties
<1>2. CASE At(d, p)
  <2> DEFINE q == p + Len(d)
  <2>1. q \in p..Len(input) /\ p \in 0..Len(input)
    BY <1>1, <1>2 DEF At
  <2>2. ASSUME NEW k \in (p + 1)..q PROVE input[k] \in Delimiters(prog)
    <3>1. k - p \in 1..Len(d) /\ p + (k - p) = k
      BY <1>1
    <3>2. input[k] = d[k - p]
      BY <1>1, <1>2, <3>1 DEF At
    <3>3. d[k - p] \in ToSet(d)
      BY <1>1, <3>1 DEF ToSet
    <3> QED BY <3>2, <3>3 DEF Delimiting
  <2> HIDE DEF q
  <2>3. Clear(prog, input, p, q)
    BY <2>2 DEF Clear
  <2>4. Kept(prog, input)[q] = Kept(prog, input)[p]
    BY <1>1, <2>1, <2>3, KeptClear
  <2> QED BY <1>2, <2>4 DEF Past, Same, Bare, q
<1>3. CASE ~At(d, p)
  BY <1>3 DEF Past, Same
<1> QED BY <1>2, <1>3

(* Past as many of one as there are.                                       *)
LEMMA RepeatSame ==
  ASSUME Shape, NEW d, Delimiting(d), NEW p \in 0..end, NEW m \in Nat,
         \A j \in 0..(m - 1) : At(d, p + j * Len(d))
  PROVE  Same(p + m * Len(d), p)
<1> DEFINE n == Len(d)
           T == {j \in 0..m : p + j * n \in 0..end /\ Same(p + j * n, p)}
<1>1. n \in Nat /\ end \in Nat
  <2>1. input \in Seq(Tokens) /\ end \in 0..Len(input) /\ d \in Seq(Tokens)
    BY DEF Shape, Typed, Delimiting
  <2> QED BY <2>1, LenProperties
<1>2. 0 \in T
  <2>1. p + 0 * n = p /\ 0 \in 0..m
    BY <1>1
  <2> QED BY <2>1 DEF Same
<1>3. ASSUME NEW j \in 0..(m - 1), j \in T PROVE j + 1 \in T
  <2> DEFINE x == p + j * n
  <2>1. x \in 0..end /\ Same(x, p) /\ At(d, x)
    BY <1>3
  <2>2. Past(d, x) = x + n /\ x + n <= end
    BY <2>1 DEF Past, At
  <2>3. Same(x + n, x)
    BY <2>1, <2>2, PastSame
  <2>4. x + n = p + (j + 1) * n /\ j + 1 \in 0..m
    BY <1>1
  <2> HIDE DEF x, n
  <2>5. x + n \in 0..end /\ Same(x + n, p)
    BY <1>1, <2>1, <2>2, <2>3 DEF Same
  <2> QED BY <2>4, <2>5
<1> HIDE DEF T
<1>4. \A j \in 0..m : j \in T
  BY <1>2, <1>3, UpTo
<1>5. m \in T
  BY <1>4
<1> QED BY <1>5 DEF T

(* Past separators only.                                                   *)
LEMMA OnlySame ==
  ASSUME Shape, NEW d, Delimiting(d), NEW p \in 0..end, OnlySeparators(d, p)
  PROVE  Same(end, p)
<1>1. end \in Nat /\ d \in Seq(Tokens) /\ Len(d) \in Nat
  <2>1. input \in Seq(Tokens) /\ end \in 0..Len(input) /\ d \in Seq(Tokens)
    BY DEF Shape, Typed, Delimiting
  <2> QED BY <2>1, LenProperties
<1>2. CASE p = end
  BY <1>2 DEF Same
<1>3. CASE p # end
  <2> DEFINE n == Len(d)
             m == (end - p) \div n
  <2>1. /\ d # NoDelim /\ (end - p) % n = 0
        /\ \A j \in 0..(m - 1) : At(d, p + j * n)
    BY <1>3 DEF OnlySeparators
  <2>2. n \in Nat /\ n > 0
    <3>1. d # <<>>
      BY <2>1 DEF NoDelim
    <3> QED BY <1>1, <3>1, EmptySeq
  <2>3. m \in Nat /\ p + m * n = end
    <3> DEFINE x == end - p
    <3>1. x \in Nat /\ x % n = 0 /\ p + x = end
      BY <1>1, <2>1
    <3> HIDE DEF x, n
    <3>2. x \div n \in Nat /\ (x \div n) * n = x
      BY <2>2, <3>1
    <3> QED BY <3>1, <3>2 DEF x
  <2> HIDE DEF m
  <2>4. Same(p + m * n, p)
    BY <2>1, <2>3, RepeatSame
  <2> QED BY <2>3, <2>4
<1> QED BY <1>2, <1>3

(* Past the separators left after a child.                                 *)
LEMMA TrailingSame ==
  ASSUME Shape, NEW a, a.node \in DOMAIN prog, NEW p \in 0..end
  PROVE  Same(TrailingSeparators(a, p), p)
<1> DEFINE q == TrailingSeparators(a, p)
           s == Sep(a.node)
           n == Len(s)
           m == (q - p) \div n
<1>1. IsProgram(prog) /\ end \in Nat
  <2>1. IsProgram(prog) /\ input \in Seq(Tokens) /\ end \in 0..Len(input)
    BY ProgramsAssumption DEF Shape, Typed
  <2> QED BY <2>1, LenProperties
<1>2. q \in p..end /\ (q # p => /\ n \in Nat /\ n # 0 /\ (q - p) % n = 0
                                /\ \A j \in 0..(m - 1) : At(s, p + j * n))
  BY <1>1, TrailingIs
<1>3. Delimiting(s)
  BY <1>1, NodeDelimits
<1> HIDE DEF q, s
<1>4. CASE q # p
  <2>1. m \in Nat /\ p + m * n = q
    <3> DEFINE x == q - p
    <3>1. x \in Nat /\ x % n = 0 /\ p + x = q /\ n \in Nat /\ n > 0
      BY <1>1, <1>2, <1>4
    <3> HIDE DEF x, n
    <3>2. x \div n \in Nat /\ (x \div n) * n = x
      BY <3>1
    <3> QED BY <3>1, <3>2 DEF x
  <2>2. \A j \in 0..(m - 1) : At(s, p + j * n)
    BY <1>2, <1>4
  <2> HIDE DEF m
  <2>3. Same(p + m * n, p)
    BY <1>3, <2>1, <2>2, RepeatSame
  <2> QED BY <2>1, <2>3 DEF q
<1>5. CASE q = p
  BY <1>5 DEF Same, q
<1> QED BY <1>4, <1>5

(* After the separator of an occurrence.                                   *)
LEMMA SeparatorSame ==
  ASSUME Shape, NEW parent \in DOMAIN prog \union {0}, NEW node, NEW n, NEW t, NEW p \in 0..end
  PROVE  Same(OccurrenceSeparator(parent, node, n, t, p).pos, p)
<1> DEFINE q == Past(Sep(parent), p)
           no == [ok |-> FALSE, pos |-> p, taken |-> FALSE]
           s == OccurrenceSeparator(parent, node, n, t, p)
<1>1. Same(q, p)
  <2>1. IsProgram(prog)
    BY ProgramsAssumption DEF Shape, Typed
  <2> QED BY <2>1, PastSame, NodeDelimits
<1>2. s = Separated(q) \/ s = no \/ s = Separated(p)
  BY Zenon DEF OccurrenceSeparator
<1>3. \A x : Separated(x).pos = x
  BY DEF Separated
<1>4. no.pos = p
  OBVIOUS
<1> HIDE DEF s, no, q
<1>5. s.pos \in {p, q}
  BY <1>2, <1>3, <1>4
<1> QED BY <1>1, <1>5 DEF s, Same

(* After the separator of a child.                                         *)
LEMMA AfterSame ==
  ASSUME Shape, NEW a, a.node \in DOMAIN prog, NEW p \in 0..end
  PROVE  \A q \in AfterSeparator(a, p) : Same(q, p)
<1>1. IsProgram(prog)
  BY ProgramsAssumption DEF Shape, Typed
<1>2. Same(Past(Sep(a.node), p), p)
  BY <1>1, PastSame, NodeDelimits
<1>3. prog[a.node].at \in Positions
  BY <1>1, NodeFacts DEF Nodes
<1>4. Same(p, p)
  BY DEF Same
<1> QED BY <1>2, <1>3, <1>4 DEF AfterSeparator, Positions

----------------------------------------------------------------------------
(* The content of the input and what was found of it.                      *)

(* The content of all events of f.                                         *)
Told(f) == Texts(prog, f)[Len(f)]

(* So far the content is in what was found, but after an item that failed; *)
(* the answer to the root is at the end of the data.  Only a sequence is   *)
(* told that an element is absent.                                         *)
Accounts ==
  /\ Framed(Bare, Texts(prog, found), Len(input), calls, end)
  /\ signal \in {"run", "ok", "absent"} => Told(found) = Bare[pos]
  /\ signal = "absent" => Len(calls) > 0 /\ Up(calls).op = "sequence"
  /\ calls = <<>> /\ signal = "ok" => pos = end

(* Of what was found the first n events are kept, with those before every  *)
(* item under the top.                                                     *)
Continues(n) ==
  /\ n \in Nat /\ n <= Len(found) /\ Keeping(Below, n)
  /\ found' \in Seq(FoundIn(prog)) /\ n <= Len(found') /\ \A k \in 1..n : found'[k] = found[k]
  /\ prog' = prog /\ input' = input

(* What is under the top accounts for the same.                            *)
LEMMA BelowFramed ==
  ASSUME Shape, Accounts, calls # <<>>, NEW n, Continues(n), NEW f,
         IF Top.op = "complex" /\ Top.bounded THEN f = Top.end ELSE f = end
  PROVE  /\ Framed(Bare, Texts(prog, found'), Len(input), Below, f) /\ Below \in Seq(Frames)
         /\ Bare' = Bare /\ prog' = prog /\ input' = input
<1>1. /\ Top = Up(calls) /\ Below = Rest(calls) /\ Stack(prog, Len(input), calls, end)
  BY ShapeFacts
<1>2. Below \in Seq(Frames)
  BY <1>1, RestFacts DEF Stack
<1> DEFINE W == Texts(prog, found)
           V == Texts(prog, found')
           b == Below
<1>3. Framed(Bare, W, Len(input), b, f)
  <2>1. Framed(Bare, W, Len(input), calls, end)
    BY DEF Accounts
  <2>2. IF Up(calls).op = "complex" /\ Up(calls).bounded THEN f = Up(calls).end ELSE f = end
    BY <1>1
  <2> HIDE DEF W
  <2>3. Framed(Bare, W, Len(input), Rest(calls), f)
    BY <1>1, <2>1, <2>2, FramedRest
  <2> QED BY <1>1, <2>3
<1>4. ASSUME NEW k \in 1..Len(b), CalledLoop(b[k]) PROVE V[b[k].keep] = W[b[k].keep]
  <2>1. b[k] \in Frames
    BY <1>2
  <2>2. b[k].keep \in Nat
    BY <1>4, <2>1, KeepNat
  <2>3. Keeping(b, n) /\ n \in Nat /\ n <= Len(found) /\ n <= Len(found')
        /\ \A j \in 1..n : found'[j] = found[j]
    BY DEF Continues
  <2>4. b[k].keep < n
    BY <1>4, <2>3 DEF Keeping
  <2>5. found \in Seq(FoundIn(prog)) /\ found' \in Seq(FoundIn(prog))
    BY DEF Shape, Typed, Continues
  <2> DEFINE i == b[k].keep
             F == FoundIn(prog)
             g == found'
  <2>6. Len(found) \in Nat /\ Len(g) \in Nat
    BY <2>5, LenProperties
  <2> HIDE DEF i, V, W, b, F, g
  <2>7. i \in Nat /\ i <= Len(found) /\ i <= Len(g) /\ \A j \in 1..i : g[j] = found[j]
    BY <2>2, <2>3, <2>4, <2>6 DEF i, g
  <2>8. Texts(prog, g)[i] = Texts(prog, found)[i]
    BY <2>5, <2>7, TextsAgree DEF F, g
  <2> QED BY <2>8 DEF i, V, W, g
<1> HIDE DEF V, W, b
<1>5. Framed(Bare, V, Len(input), b, f)
  BY <1>3, <1>4, FramedFound
<1>6. prog' = prog /\ input' = input
  BY DEF Continues
<1>7. Bare' = Bare
  BY <1>6 DEF Bare
<1> QED BY <1>2, <1>5, <1>6, <1>7 DEF V, b

(* The top returns.                                                        *)
LEMMA ReturnAccounts ==
  ASSUME Shape, Accounts, calls # <<>>, NEW n, Continues(n), NEW r, Returns(r), r # "run",
         IF Top.op = "complex" /\ Top.bounded THEN end' = Top.end ELSE end' = end,
         r \in {"ok", "absent"} => Told(found') = Bare[pos'],
         r = "absent" => Len(Below) > 0 /\ Up(Below).op = "sequence",
         Below = <<>> /\ r = "ok" => pos' = end'
  PROVE  Accounts'
<1> DEFINE f == end'
           c == calls'
<1>1. IF Top.op = "complex" /\ Top.bounded THEN f = Top.end ELSE f = end
  OBVIOUS
<1>2. c = Below /\ signal' = r
  BY DEF Returns
<1> HIDE DEF f
<1>3. /\ Framed(Bare, Texts(prog, found'), Len(input), c, f)
      /\ Bare' = Bare /\ prog' = prog /\ input' = input
  BY <1>1, <1>2, BelowFramed
<1>4. signal' \in {"run", "ok", "absent"} => Texts(prog', found')[Len(found')] = Bare'[pos']
  BY <1>2, <1>3 DEF Told
<1>5. signal' = "absent" => Len(c) > 0 /\ Up(c).op = "sequence"
  BY <1>2
<1>6. c = <<>> /\ signal' = "ok" => pos' = end'
  BY <1>2
<1> QED BY <1>3, <1>4, <1>5, <1>6 DEF Accounts, Told, f, c

(* The top goes on.                                                        *)
LEMMA GoAccounts ==
  ASSUME Shape, Accounts, calls # <<>>, Top.op # "complex", NEW n, Continues(n),
         NEW b \in Frames, b.op # "complex", ~CalledLoop(b), calls' = Append(Below, b),
         signal' = "run", end' = end, Told(found') = Bare[pos']
  PROVE  Accounts'
<1> DEFINE c == Append(Below, b)
<1>1. /\ Framed(Bare, Texts(prog, found'), Len(input), Below, end) /\ Below \in Seq(Frames)
      /\ Bare' = Bare /\ prog' = prog /\ input' = input
  BY BelowFramed
<1>2. Framed(Bare, Texts(prog, found'), Len(input), c, end)
  <2> DEFINE V == Texts(prog, found')
  <2>1. Framed(Bare, V, Len(input), Below, end)
    BY <1>1
  <2> HIDE DEF V
  <2>2. Framed(Bare, V, Len(input), c, end)
    BY <1>1, <2>1, FramedCall
  <2> QED BY <2>2 DEF V
<1>3. c # <<>>
  BY <1>1, UpAppend
<1>4. calls' = c /\ signal' = "run" /\ end' = end
  OBVIOUS
<1>5. Texts(prog', found')[Len(found')] = Bare'[pos']
  BY <1>1 DEF Told
<1> HIDE DEF c
<1> QED BY <1>1, <1>2, <1>3, <1>4, <1>5 DEF Accounts, Told

(* The top calls.                                                          *)
LEMMA CallAccounts ==
  ASSUME Shape, Accounts, calls # <<>>, Top.op # "complex", NEW n, Continues(n),
         NEW b \in Frames, b.op # "complex", ~CalledLoop(b),
         NEW d \in Frames, d.op # "complex", ~CalledLoop(d),
         calls' = Append(Append(Below, b), d),
         signal' = "run", end' = end, Told(found') = Bare[pos']
  PROVE  Accounts'
<1> DEFINE u == Append(Below, b)
           c == Append(u, d)
           V == Texts(prog, found')
<1>1. /\ Framed(Bare, V, Len(input), Below, end) /\ Below \in Seq(Frames)
      /\ Bare' = Bare /\ prog' = prog /\ input' = input
  BY BelowFramed
<1> HIDE DEF V
<1>2. Framed(Bare, V, Len(input), u, end) /\ u \in Seq(Frames)
  BY <1>1, FramedCall, UpAppend
<1> HIDE DEF u
<1>3. Framed(Bare, V, Len(input), c, end) /\ c # <<>>
  BY <1>2, FramedCall, UpAppend
<1>4. calls' = c /\ signal' = "run" /\ end' = end
  BY DEF u
<1>5. Texts(prog', found')[Len(found')] = Bare'[pos']
  BY <1>1 DEF Told
<1> HIDE DEF c
<1> QED BY <1>1, <1>3, <1>4, <1>5 DEF Accounts, Told, V

(* A loop enters a complex element, over the data up to f.                 *)
LEMMA EnterAccounts ==
  ASSUME Shape, Accounts, calls # <<>>, Top.op # "complex", NEW n, Continues(n),
         NEW b \in Frames, b.op # "complex",
         Texts(prog, found')[b.keep] = Bare[b.start], Texts(prog, found')[b.keep] = Bare[b.before],
         NEW d \in Frames, d.op = "complex", d.end = end,
         NEW f \in 0..Len(input), d.bounded \/ f = end, d.bounded => Same(f, d.resume),
         NEW s \in Frames, s.op = "sequence",
         calls' = Below \o <<b, d, s>>,
         signal' = "run", end' = f, Told(found') = Bare[pos']
  PROVE  Accounts'
<1> DEFINE r == Below
           u == Append(r, b)
           v == Append(u, d)
           c == Append(v, s)
           V == Texts(prog, found')
<1>1. /\ Framed(Bare, V, Len(input), r, end) /\ r \in Seq(Frames)
      /\ Bare' = Bare /\ prog' = prog /\ input' = input
  BY BelowFramed
<1>2. V[b.keep] = Bare[b.start] /\ V[b.keep] = Bare[b.before]
  OBVIOUS
<1> HIDE DEF V
<1>3. r \o <<b, d, s>> = c
  <2> HIDE DEF r
  <2> QED BY <1>1
<1>4. Framed(Bare, V, Len(input), u, end) /\ u \in Seq(Frames)
  <2> HIDE DEF r
  <2> QED BY <1>1, <1>2, FramedCall, UpAppend
<1>5. Framed(Bare, V, Len(input), v, f) /\ v \in Seq(Frames)
  <2> HIDE DEF u
  <2>1. ~CalledLoop(d)
    BY DEF CalledLoop
  <2>2. Framed(Bare, V, Len(input), v, f)
    BY <1>4, <2>1, FramedCall DEF Same
  <2>3. v \in Seq(Frames)
    BY <1>4, UpAppend
  <2> QED BY <2>2, <2>3
<1>6. Framed(Bare, V, Len(input), c, f) /\ c # <<>>
  <2> HIDE DEF v
  <2>1. ~CalledLoop(s) /\ s.op # "complex"
    BY DEF CalledLoop
  <2>2. Framed(Bare, V, Len(input), c, f)
    BY <1>5, <2>1, FramedCall
  <2>3. c # <<>>
    BY <1>5, UpAppend
  <2> QED BY <2>2, <2>3
<1>7. calls' = c /\ signal' = "run" /\ end' = f
  BY <1>3
<1>8. Texts(prog', found')[Len(found')] = Bare'[pos']
  BY <1>1 DEF Told
<1> HIDE DEF c
<1> QED BY <1>1, <1>6, <1>7, <1>8 DEF Accounts, Told, V

(* A sequence has called the loop on top.                                  *)
LEMMA SequenceUnder ==
  ASSUME Shape, In("occurrences")
  PROVE  calls # <<>> /\ Top.op = "occurrences" /\ Len(Below) > 0 /\ Up(Below).op = "sequence"
<1>1. calls # <<>> /\ Top.op = "occurrences"
  BY DEF In
<1>2. /\ Top = Up(calls) /\ Below = Rest(calls) /\ Stack(prog, Len(input), calls, end)
      /\ Len(calls) > 0
  BY <1>1, ShapeFacts
<1>3. Len(calls) \in Nat /\ Len(Rest(calls)) = Len(calls) - 1
  BY <1>1, <1>2, RestFacts DEF Stack
<1>4. Len(calls) # 1
  <2>1. calls[1].op = "sequence"
    BY <1>2 DEF Stack
  <2> QED BY <1>1, <1>2, <2>1 DEF Up
<1>5. Len(Rest(calls)) > 0
  BY <1>2, <1>3, <1>4
<1>6. Good(prog, Len(input), Up(Rest(calls))) /\ Calls(prog, Up(Rest(calls)), Up(calls))
  BY <1>1, <1>2, <1>5, UnderTop
<1>7. Up(Rest(calls)).op = "sequence"
  <2>1. Up(Rest(calls)).op \in {"sequence", "occurrences", "complex"}
    BY <1>6, GoodOps
  <2> QED BY <1>1, <1>2, <1>6, <2>1 DEF Calls
<1> QED BY <1>1, <1>2, <1>5, <1>7

(* A loop goes on or returns.                                              *)
LEMMA LoopAccounts ==
  ASSUME Shape, Accounts, In("occurrences"), NEW n, Continues(n), NEW a, NEW k, end' = end,
         Goes(a, k) \/ \E r \in {"ok", "absent", "empty", "fail"} : Returns(r),
         signal' \in {"run", "ok", "absent"} => Told(found') = Bare[pos']
  PROVE  Accounts'
<1>1. calls # <<>> /\ Top.op = "occurrences" /\ Len(Below) > 0 /\ Up(Below).op = "sequence"
  BY SequenceUnder
<1>2. ASSUME Goes(a, k) PROVE Accounts'
  <2>1. PICK b \in LoopFrames : calls' = Append(Below, b) /\ signal' = "run" /\ ~b.called
    BY <1>2 DEF Goes
  <2>2. b \in Frames /\ b.op = "occurrences"
    BY DEF Frames, LoopFrames
  <2> QED BY <1>1, <2>1, <2>2, GoAccounts DEF CalledLoop
<1>3. ASSUME NEW r \in {"ok", "absent", "empty", "fail"}, Returns(r) PROVE Accounts'
  <2>1. Below # <<>>
    BY <1>1
  <2>2. signal' = r
    BY <1>3 DEF Returns
  <2> QED BY <1>1, <1>3, <2>1, <2>2, ReturnAccounts
<1> QED BY <1>2, <1>3

(* What has been found is the beginning of what will be.                   *)
LEMMA MoreFound ==
  ASSUME Shape, calls # <<>>, NEW kept \in Seq(FoundIn(prog)), NEW item \in Seq(FoundIn(prog)),
         Keeping(Below, Len(kept)), Len(kept) <= Len(found),
         \A k \in 1..Len(kept) : kept[k] = found[k],
         found' \in {kept, kept \o item}, prog' = prog, input' = input
  PROVE  Continues(Len(kept))
<1> DEFINE F == FoundIn(prog)
           both == kept \o item
<1>1. /\ both \in Seq(F) /\ Len(both) = Len(kept) + Len(item)
      /\ \A k \in 1..(Len(kept) + Len(item)) :
           both[k] = IF k <= Len(kept) THEN kept[k] ELSE item[k - Len(kept)]
  BY ConcatProperties
<1>2. Len(kept) \in Nat /\ Len(item) \in Nat /\ kept \in Seq(F)
  BY LenProperties
<1>3. found' \in {kept, both}
  OBVIOUS
<1> HIDE DEF both, F
<1>4. Len(kept) <= Len(both) /\ \A k \in 1..Len(kept) : both[k] = kept[k]
  BY <1>1, <1>2
<1>5. /\ found' \in Seq(F) /\ Len(kept) <= Len(found')
      /\ \A k \in 1..Len(kept) : found'[k] = kept[k]
  BY <1>1, <1>2, <1>3, <1>4
<1> QED BY <1>2, <1>5 DEF Continues, F

(* What an event adds to the content.                                      *)
LEMMA ToldMore ==
  ASSUME NEW f \in Seq(FoundIn(prog)), NEW e \in FoundIn(prog)
  PROVE  /\ Told(f \o <<e>>) = Told(f) \o Content(prog, e.text)
         /\ e.text = <<>> => Told(f \o <<e>>) = Told(f)
         /\ Append(f, e) = f \o <<e>>
<1> DEFINE F == FoundIn(prog)
           g == Append(f, e)
           n == Len(f)
<1>0. g = f \o <<e>>
  OBVIOUS
<1>1. g \in Seq(F) /\ n \in Nat /\ Len(g) = n + 1 /\ g[n + 1] = e /\ \A k \in 1..n : g[k] = f[k]
  BY AppendProperties, LenProperties
<1> HIDE DEF g
<1>2. Texts(prog, g)[n + 1] = Texts(prog, g)[n] \o Content(prog, e.text)
  <2>1. \A k \in 1..Len(g) : Texts(prog, g)[k] = Texts(prog, g)[k - 1] \o Content(prog, g[k].text)
    BY <1>1, TextsIs
  <2>2. n + 1 \in 1..Len(g) /\ (n + 1) - 1 = n
    BY <1>1
  <2> HIDE DEF n
  <2> QED BY <1>1, <2>1, <2>2
<1>3. Texts(prog, g)[n] = Texts(prog, f)[n]
  <2>1. f \in Seq(F) /\ n <= Len(f) /\ n <= Len(g)
    BY <1>1
  <2> HIDE DEF n
  <2> QED BY <1>1, <2>1, TextsAgree
<1>4. Told(g) = Told(f) \o Content(prog, e.text)
  BY <1>1, <1>2, <1>3 DEF Told
<1>5. ASSUME e.text = <<>> PROVE Told(g) = Told(f)
  <2>1. e.text \in Seq(Tokens)
    BY DEF FoundIn
  <2>2. Content(prog, e.text) = <<>>
    BY <1>5, <2>1, ContentFacts
  <2>3. Told(f) \in Seq(Tokens)
    <3>1. Texts(prog, f) \in [0..Len(f) -> Seq(Tokens)]
      BY TextsIs
    <3>2. Len(f) \in 0..Len(f)
      BY <1>1
    <3> QED BY <3>1, <3>2 DEF Told
  <2>4. Told(f) \o <<>> = Told(f)
    BY <2>3, ConcatEmptySeq
  <2> QED BY <1>4, <2>2, <2>4
<1>6. Told(f \o <<e>>) = Told(g)
  BY <1>0
<1>7. Append(f, e) = f \o <<e>>
  BY <1>0 DEF g
<1> QED BY <1>4, <1>5, <1>6, <1>7

(* A loop that goes on after a separator.                                  *)
LEMMA GoOnSame ==
  ASSUME Shape, NEW a, LoopAt(a), NEW t, NEW p \in 0..end, NEW d, GoOn(a, t, p, d)
  PROVE  Same(pos', p)
<1> DEFINE s == Separate(a, a.node, a.n, t, p)
<1>1. Same(s.pos, p)
  BY SeparatorSame DEF Separate, LoopAt
<1>2. pos' = s.pos
  BY DEF GoOn
<1> HIDE DEF s
<1> QED BY <1>1, <1>2

(* An item that has been decoded is in what was found if its text is       *)
(* behind the cursor, and not if the cursor is back before it, or nothing  *)
(* but delimiters is between.                                              *)
LEMMA DecodedSame ==
  ASSUME Shape, NEW a, LoopAt(a), NEW t, NEW p \in 0..end, NEW empty, NEW kept, NEW item,
         Decoded(a, t, p, empty, kept, item),
         Told(kept) = Bare[a.start], Told(kept) = Bare[a.before], Told(kept \o item) = Bare[p],
         empty => Same(p, a.start)
  PROVE  signal' \in {"run", "ok", "absent"} => Told(found') = Bare[pos']
<1> DEFINE c == prog[a.node]
           stuck == Endless(a) /\ p = a.start /\ p # end
           optional == c.min = 0 /\ empty
           excess == /\ empty /\ c.min > 0 /\ a.n >= c.min /\ Endless(a) /\ Infix(a.parent)
                     /\ \/ \A k \in DOMAIN Items(a) : Items(a)[k].text = <<>>
                        \/ OnlySeparators(Sep(a.parent), p)
           counts == ~stuck /\ ~optional /\ ~excess
           s == Separate(a, a.node, IF optional THEN a.n ELSE a.n + 1, t, p)
           pushed == [a EXCEPT !.n = @ + 1, !.called = FALSE]
           back == s.ok /\ s.pos = a.start
<1>1. Same(s.pos, p)
  BY SeparatorSame DEF Separate, LoopAt
<1>2. a.n \in Nat /\ c.min \in Nat
  <2>1. IsProgram(prog)
    BY ProgramsAssumption DEF Shape, Typed
  <2> QED BY <2>1, NodeFacts DEF LoopAt, LoopFrames
<1>3. found' = IF counts THEN kept \o item ELSE kept
  BY DEF Decoded
<1> DEFINE P1 == IF a.n >= c.min THEN Stop(a, t, a.before) ELSE Fail(t, p, "fail")
           P2 == Stop(a, s.taken, s.pos)
           P3 == GoOn(a, t, p, 0)
           P4 == /\ taken' = s.taken /\ pos' = s.pos
                 /\ IF s.ok THEN SetTop(Counted(pushed, p, s.pos)) /\ signal' = "run"
                            ELSE Return("fail")
           P5 == taken' = t /\ pos' = p /\ signal' = "run" /\ SetTop(pushed)
<1>5. (CASE stuck -> P1
        [] ~stuck /\ optional /\ s.ok /\ s.pos = a.start -> P2
        [] ~stuck /\ (excess \/ (optional /\ ~(s.ok /\ s.pos = a.start))) -> P3
        [] counts /\ Postfix(a.parent) -> P4
        [] counts /\ ~Postfix(a.parent) -> P5)
  BY DEF Decoded
<1>6. excess => ~optional
  BY <1>2
<1>7. /\ stuck => P1
      /\ ~stuck /\ optional /\ back => P2
      /\ ~stuck /\ (excess \/ (optional /\ ~back)) => P3
      /\ counts /\ Postfix(a.parent) => P4
      /\ counts /\ ~Postfix(a.parent) => P5
  <2> DEFINE post == Postfix(a.parent)  ok == s.ok  at == s.pos = a.start
  <2> HIDE DEF P1, P2, P3, P4, P5, stuck, optional, excess, post, ok, at
  <2> QED BY <1>5, <1>6 DEF ok, at, post
<1>8. (excess => empty) /\ (optional => empty)
  OBVIOUS
<1> HIDE DEF stuck, optional, excess, s, pushed
<1>9. CASE stuck
  <2>1. found' = kept
    BY <1>3, <1>9
  <2>2. Stop(a, t, a.before) \/ Fail(t, p, "fail")
    BY <1>7, <1>9
  <2>3. pos' = a.before \/ signal' = "fail"
    BY <2>2 DEF Stop, Fail, Return
  <2> QED BY <2>1, <2>3
<1>10. CASE ~stuck /\ optional /\ back
  <2>1. found' = kept /\ pos' = s.pos /\ s.pos = a.start
    BY <1>3, <1>7, <1>10 DEF Stop
  <2> QED BY <2>1
<1>11. CASE ~stuck /\ (excess \/ (optional /\ ~back))
  <2>1. found' = kept /\ GoOn(a, t, p, 0)
    BY <1>3, <1>7, <1>11
  <2>2. Same(pos', p)
    BY <2>1, GoOnSame
  <2>3. Same(p, a.start)
    BY <1>8, <1>11
  <2> QED BY <2>1, <2>2, <2>3 DEF Same
<1>12. CASE counts
  <2>1. found' = kept \o item
    BY <1>3, <1>12
  <2>2. pos' = s.pos \/ pos' = p
    BY <1>7, <1>12
  <2> QED BY <1>1, <2>1, <2>2 DEF Same
<1> QED BY <1>9, <1>10, <1>11, <1>12

(* An item that has failed is not in what was found, and the cursor is     *)
(* back before it, unless nothing but delimiters was there.                *)
LEMMA FailedSame ==
  ASSUME Shape, NEW a, LoopAt(a), NEW t, NEW p \in 0..end, NEW r \in {"absent", "empty", "fail"},
         NEW keep, Failed(a, t, p, r, keep),
         Told(keep) = Bare[a.start], Told(keep) = Bare[a.before],
         r = "absent" => Same(p, a.start)
  PROVE  signal' \in {"run", "ok", "absent"} => Told(found') = Bare[pos']
<1> DEFINE c == prog[a.node]
           b == [a EXCEPT !.called = FALSE]
           s == Separate(a, a.node, a.n, t, a.start)
           none == c.min = 0 /\ a.n = 0
           again == Never(a) /\ (r = "empty" \/ (r = "absent" /\ none))
           y == Counted(b, a.start, s.pos)
           over == IF Endless(a) \/ c.count = "implicit" THEN a.before ELSE a.start
<1>1. Same(s.pos, a.start)
  <2>1. a.start \in 0..end
    BY DEF LoopAt
  <2> QED BY <2>1, SeparatorSame DEF Separate, LoopAt
<1>2. a.n \in Nat /\ c.min \in Nat
  <2>1. IsProgram(prog)
    BY ProgramsAssumption DEF Shape, Typed
  <2> QED BY <2>1, NodeFacts DEF LoopAt, LoopFrames
<1>3. found' = keep
  BY DEF Failed
<1>7. ~(a.probe /\ a.n < c.min)
  BY <1>2 DEF LoopAt
<1>8. CASE ~a.probe /\ again
  <2>1. pos' = s.pos
    BY <1>8, <1>7 DEF Failed
  <2> HIDE DEF s
  <2> QED BY <1>1, <1>3, <2>1 DEF Same
<1>9. CASE ~again /\ none
  <2>1. IF r = "absent" THEN Return("absent") /\ pos' = a.start /\ taken' = t
        ELSE Stop(a, t, a.start)
    BY <1>9, <1>7 DEF Failed
  <2>2. pos' = a.start
    BY <2>1 DEF Stop
  <2> QED BY <1>3, <2>2
<1>10. CASE ~again /\ ~none /\ a.n >= c.min
  <2>1. IF r = "absent" THEN SetTop(b) /\ pos' = p /\ taken' = t /\ signal' = "run"
        ELSE Stop(a, t, over)
    BY <1>10, <1>7 DEF Failed
  <2>2. CASE r = "absent"
    <3>1. pos' = p
      BY <2>1, <2>2
    <3> QED BY <1>3, <2>2, <3>1 DEF Same
  <2>3. CASE r # "absent"
    <3>1. pos' = over
      BY <2>1, <2>3 DEF Stop
    <3>2. over = a.before \/ over = a.start
      OBVIOUS
    <3> HIDE DEF over
    <3> QED BY <1>3, <3>1, <3>2
  <2> QED BY <2>2, <2>3
<1>11. CASE ~(~a.probe /\ again) /\ ~(~again /\ none) /\ ~(~again /\ ~none /\ a.n >= c.min)
  <2>1. Return(IF r = "absent" THEN "fail" ELSE r)
    BY <1>11, <1>7 DEF Failed
  <2>2. signal' \in {"empty", "fail"}
    BY <2>1 DEF Return
  <2> QED BY <2>2
<1> QED BY <1>8, <1>9, <1>10, <1>11

(* The round that a loop begins is where the last one has ended.           *)
LEMMA ReadySame ==
  ASSUME Shape, Accounts, Round
  PROVE  /\ In("occurrences") /\ signal = "run" /\ Ready(Top).pos \in 0..end
         /\ Same(Ready(Top).pos, pos) /\ Told(found) = Bare[pos]
         /\ Told(found) = Bare[Ready(Top).pos]
<1> DEFINE r == Ready(Top)
<1>1. In("occurrences") /\ signal = "run"
  BY DEF Round
<1>2. /\ r.pos \in pos..end /\ Top.parent \in DOMAIN prog
  <2>1. GoodLoop(prog, Top) /\ r.pos \in pos..end
    BY <1>1, RoundFacts
  <2> HIDE DEF r
  <2> QED BY <2>1 DEF GoodLoop
<1>3. pos \in 0..end /\ end \in Nat
  BY <1>1, ShapeFacts DEF In
<1>4. Same(r.pos, pos)
  <2> DEFINE s == Separate(Top, Top.node, Top.n, taken, pos)
             k == [ok |-> TRUE, pos |-> pos, taken |-> taken]
  <2>1. Same(s.pos, pos)
    BY <1>2, <1>3, SeparatorSame DEF Separate
  <2>2. k.pos = pos
    OBVIOUS
  <2>3. r = s \/ r = k
    BY DEF Ready
  <2> HIDE DEF r, s, k
  <2> QED BY <2>1, <2>2, <2>3 DEF Same
<1>5. Told(found) = Bare[pos]
  BY <1>1 DEF Accounts
<1> HIDE DEF r
<1>6. r.pos \in 0..end /\ Told(found) = Bare[r.pos]
  BY <1>2, <1>3, <1>4, <1>5 DEF Same
<1> QED BY <1>1, <1>4, <1>5, <1>6 DEF r

(* All that has been found is kept.                                        *)
LEMMA AllContinues ==
  ASSUME Shape, calls # <<>>, NEW item \in Seq(FoundIn(prog)),
         found' \in {found, found \o item}, prog' = prog, input' = input
  PROVE  Continues(Len(found))
<1>1. found \in Seq(FoundIn(prog)) /\ Keeping(Below, Len(found)) /\ Len(found) \in Nat
  BY ShapeFacts DEF Shape, Typed
<1>2. Len(found) <= Len(found) /\ \A k \in 1..Len(found) : found[k] = found[k]
  BY <1>1
<1> QED BY <1>1, <1>2, MoreFound

(* The loop over the children of a sequence passes delimiters only.        *)
LEMMA SequenceStepAccounts ==
  ASSUME Shape, Accounts, SequenceStep
  PROVE  Accounts'
<1> DEFINE after == IF prog[Kid(Top)].kind \in Calcs \/ SkipsAfterParsed(Top, pos)
                    THEN {pos} ELSE AfterSeparator(Top, pos)
<1>1. /\ In("sequence") /\ signal = "run" /\ Top.i <= Len(Node.kids) /\ calls # <<>>
      /\ Top.op = "sequence"
      /\ prog' = prog /\ input' = input /\ end' = end /\ found' = found
  BY DEF SequenceStep, In
<1>2. Top \in SequenceFrames /\ Kid(Top) \in DOMAIN prog /\ ChildStops(Top) \in Seq(Nat)
  BY <1>1, AtKid
<1>3. /\ IsProgram(prog) /\ end \in Nat /\ pos \in 0..end /\ Top.node \in DOMAIN prog
      /\ Keeping(Below, Len(found)) /\ Len(found) \in Nat
  BY <1>1, ShapeFacts
<1>4. Continues(Len(found))
  BY <1>1, <1>3 DEF Continues, Shape, Typed
<1>5. \A q \in after : q \in 0..end /\ Same(q, pos)
  <2>1. \A q \in AfterSeparator(Top, pos) : q \in pos..end /\ Same(q, pos)
    BY <1>3, AfterIn, AfterSame
  <2>2. Same(pos, pos)
    BY DEF Same
  <2> QED BY <1>3, <2>1, <2>2
<1>6. Told(found) = Bare[pos]
  BY <1>1 DEF Accounts
<1>7. \/ Returns("fail")
      \/ \E p \in after : EmptySlot(Top, p) /\ pos' = PastSlot(Top, p) /\ SetTop(NextChild(Top))
                          /\ signal' = signal
      \/ \E p \in after : pos' = p /\ signal' = signal /\
           Call([Top EXCEPT !.called = TRUE],
                IF IsElement(Kid(Top))
                THEN Occurrences(Kid(Top), Top.node, ChildStops(Top))
                ELSE Sequence(Kid(Top), Top.node, ChildStops(Top)))
  BY Zenon DEF SequenceStep, Return, Returns
<1> HIDE DEF after
<1>8. CASE Returns("fail")
  BY <1>1, <1>4, <1>8, ReturnAccounts
<1>9. ASSUME NEW p \in after, pos' = PastSlot(Top, p), SetTop(NextChild(Top)), signal' = signal
      PROVE  Accounts'
  <2>1. Same(PastSlot(Top, p), p)
    <3>1. Same(Past(Sep(Top.node), p), p)
      BY <1>3, <1>5, PastSame, NodeDelimits
    <3>2. Same(p, p)
      BY DEF Same
    <3> QED BY <3>1, <3>2 DEF PastSlot
  <2>2. Told(found') = Bare[pos']
    BY <1>1, <1>5, <1>6, <1>9, <2>1 DEF Same
  <2>3. NextChild(Top) \in SequenceFrames /\ ~NextChild(Top).called
    BY <1>2, NextFrame
  <2>4. NextChild(Top) \in Frames /\ NextChild(Top).op = "sequence"
    BY <2>3 DEF Frames, SequenceFrames
  <2>5. calls' = Append(Below, NextChild(Top)) /\ signal' = "run"
    BY <1>1, <1>9 DEF SetTop
  <2> QED BY <1>1, <1>4, <2>2, <2>4, <2>5, GoAccounts DEF CalledLoop
<1>10. ASSUME NEW p \in after, pos' = p, signal' = signal,
              Call([Top EXCEPT !.called = TRUE],
                   IF IsElement(Kid(Top))
                   THEN Occurrences(Kid(Top), Top.node, ChildStops(Top))
                   ELSE Sequence(Kid(Top), Top.node, ChildStops(Top)))
       PROVE  Accounts'
  <2> DEFINE b == [Top EXCEPT !.called = TRUE]
             x == Occurrences(Kid(Top), Top.node, ChildStops(Top))
             y == Sequence(Kid(Top), Top.node, ChildStops(Top))
             d == IF IsElement(Kid(Top)) THEN x ELSE y
  <2>1. PICK yes \in BOOLEAN : yes = TRUE
    OBVIOUS
  <2>2. SequenceCalled(Top, yes) \in SequenceFrames
    <3>1. 0 \in Nat
      OBVIOUS
    <3> QED BY <1>2, <3>1, SequenceUpdates
  <2>3. b = SequenceCalled(Top, yes)
    BY <2>1 DEF SequenceCalled
  <2>4. x.op = "occurrences" /\ ~x.called /\ y.op = "sequence"
    BY DEF Occurrences, Sequence
  <2>5. prog[Kid(Top)].kind # "sequence" => Good(prog, Len(input), x)
    <3>1. Top.node \in Nat
      BY <1>3, NodeFacts
    <3> QED BY <1>2, <1>3, <3>1, NewFrames
  <2>6. prog[Kid(Top)].kind = "sequence" => Good(prog, Len(input), y)
    <3>1. Top.node \in Nat
      BY <1>3, NodeFacts
    <3> QED BY <1>2, <1>3, <3>1, NewFrames
  <2>7. calls' = Append(Append(Below, b), d)
    BY <1>10 DEF Call
  <2> HIDE DEF b, x, y
  <2>8. b \in Frames /\ b.op = "sequence"
    BY <2>2, <2>3 DEF Frames, SequenceFrames
  <2>9. d \in Frames /\ d.op # "complex" /\ ~CalledLoop(d)
    BY <2>4, <2>5, <2>6, GoodOps DEF IsElement, CalledLoop
  <2> HIDE DEF d
  <2>10. Told(found') = Bare[pos'] /\ signal' = "run"
    BY <1>1, <1>5, <1>6, <1>10 DEF Same
  <2> QED BY <1>1, <1>4, <2>7, <2>8, <2>9, <2>10, CallAccounts DEF CalledLoop
<1> QED BY <1>7, <1>8, <1>9, <1>10

(* A child that has answered.                                              *)
LEMMA SequenceChildAccounts ==
  ASSUME Shape, Accounts, SequenceChild
  PROVE  Accounts'
<1>1. /\ In("sequence") /\ calls # <<>> /\ Top.op = "sequence"
      /\ prog' = prog /\ input' = input /\ end' = end /\ found' = found
  BY DEF SequenceChild, In
<1>2. /\ IsProgram(prog) /\ end \in Nat /\ pos \in 0..end /\ Top.node \in DOMAIN prog
      /\ Keeping(Below, Len(found)) /\ Len(found) \in Nat
  BY <1>1, ShapeFacts
<1>3. Continues(Len(found))
  BY <1>1, <1>2 DEF Continues, Shape, Typed
<1>4. \/ Returns("fail") \/ Returns("empty")
      \/ /\ signal \in {"ok", "absent"} /\ signal' = "run"
         /\ \E b \in SequenceFrames : calls' = Append(Below, b) /\ ~b.called
  BY SequenceChildResult
<1>5. CASE Returns("fail")
  BY <1>1, <1>3, <1>5, ReturnAccounts
<1>6. CASE Returns("empty")
  BY <1>1, <1>3, <1>6, ReturnAccounts
<1>7. CASE signal \in {"ok", "absent"} /\ signal' = "run"
           /\ \E b \in SequenceFrames : calls' = Append(Below, b) /\ ~b.called
  <2>1. PICK b \in SequenceFrames : calls' = Append(Below, b)
    BY <1>7
  <2>2. b \in Frames /\ b.op = "sequence"
    BY DEF Frames, SequenceFrames
  <2>3. Told(found) = Bare[pos]
    BY <1>7 DEF Accounts
  <2>4. pos' = pos \/ pos' = TrailingSeparators(Top, pos)
    BY DEF SequenceChild
  <2>5. Same(TrailingSeparators(Top, pos), pos)
    BY <1>2, TrailingSame
  <2>6. Told(found') = Bare[pos']
    BY <1>1, <2>3, <2>4, <2>5 DEF Same
  <2> QED BY <1>1, <1>3, <1>7, <2>1, <2>2, <2>6, GoAccounts DEF CalledLoop
<1> QED BY <1>4, <1>5, <1>6, <1>7

(* The end of a sequence: that of the root is at the end of the input.     *)
LEMMA SequenceEndsAccounts ==
  ASSUME Shape, Accounts, SequenceEnds
  PROVE  Accounts'
<1> DEFINE matched == Node.term = NoDelim \/ At(Node.term, pos) \/ pos = end
           leftover == Len(calls) = 1 /\ pos' < end
           r == IF matched /\ ~leftover THEN "ok" ELSE "fail"
<1>1. /\ In("sequence") /\ calls # <<>> /\ Top.op = "sequence" /\ signal = "run"
      /\ pos' = Past(Node.term, pos) /\ Returns(r)
      /\ prog' = prog /\ input' = input /\ end' = end /\ found' = found
  BY Zenon DEF SequenceEnds, In, Return, Returns
<1>2. /\ IsProgram(prog) /\ end \in Nat /\ pos \in 0..end /\ Top.node \in DOMAIN prog
      /\ Node = prog[Top.node] /\ Top.node \in Nat
      /\ Keeping(Below, Len(found)) /\ Len(found) \in Nat /\ Below = Rest(calls)
      /\ Stack(prog, Len(input), calls, end)
  BY <1>1, ShapeFacts
<1>3. Continues(Len(found))
  BY <1>1, <1>2 DEF Continues, Shape, Typed
<1>4. Delimiting(Node.term) /\ Len(Node.term) \in Nat
  <2>1. Top.node # 0
    BY <1>2, NodeFacts
  <2>2. Term(Top.node) = Node.term
    BY <1>2, <2>1 DEF Term
  <2> QED BY <1>2, <2>2, NodeDelimits, DelimiterFacts
<1>5. pos' \in pos..end /\ Same(pos', pos)
  BY <1>1, <1>2, <1>4, PastIn, PastSame
<1>6. Told(found') = Bare[pos']
  BY <1>1, <1>5 DEF Accounts, Same
<1>7. r \in {"ok", "fail"} /\ (r = "ok" => ~leftover)
  OBVIOUS
<1>8. Below = <<>> => Len(calls) = 1
  <2>1. Len(calls) \in Nat /\ Len(Rest(calls)) = Len(calls) - 1
    BY <1>1, <1>2, RestFacts DEF Stack
  <2> QED BY <1>2, <2>1
<1>9. Below = <<>> /\ r = "ok" => pos' = end'
  BY <1>1, <1>2, <1>5, <1>7, <1>8
<1> HIDE DEF r
<1> QED BY <1>1, <1>3, <1>6, <1>7, <1>9, ReturnAccounts

(* A separator that is missing.                                            *)
LEMMA SeparatorMissingAccounts ==
  ASSUME Shape, Accounts, SeparatorMissing
  PROVE  Accounts'
<1>1. /\ calls # <<>> /\ Top.op = "occurrences" /\ Returns("fail")
      /\ prog' = prog /\ input' = input /\ end' = end /\ found' = found
  BY DEF SeparatorMissing, Round, In, Return, Returns
<1>2. Keeping(Below, Len(found)) /\ Len(found) \in Nat
  BY <1>1, ShapeFacts
<1>3. Continues(Len(found))
  BY <1>1, <1>2 DEF Continues, Shape, Typed
<1> QED BY <1>1, <1>3, ReturnAccounts

(* The end of a loop.                                                      *)
LEMMA OccurrencesEndAccounts ==
  ASSUME Shape, Accounts, OccurrencesEnd
  PROVE  Accounts'
<1>1. /\ In("occurrences") /\ signal = "run" /\ \E r \in {"fail", "absent", "ok"} : Returns(r)
      /\ found' = found \/ found' = Append(found, Empty(Top.node))
      /\ prog' = prog /\ input' = input /\ end' = end /\ pos' = pos
  <2>1. /\ In("occurrences") /\ signal = "run"
        /\ prog' = prog /\ input' = input /\ end' = end /\ pos' = pos
    BY DEF OccurrencesEnd
  <2>2. \E r \in {"fail", "absent", "ok"} : Returns(r)
    BY DEF OccurrencesEnd, Return, Returns
  <2>3. found' = found \/ found' = Append(found, Empty(Top.node))
    BY DEF OccurrencesEnd
  <2> QED BY <2>1, <2>2, <2>3
<1>2. Keeping(Below, Len(found)) /\ Len(found) \in Nat /\ Top.node \in DOMAIN prog /\ calls # <<>>
  BY <1>1, ShapeFacts DEF In
<1> DEFINE e == Empty(Top.node)
<1>3. found \in Seq(FoundIn(prog)) /\ e \in FoundIn(prog) /\ e.text = <<>>
  <2>1. <<>> \in Seq(Tokens)
    OBVIOUS
  <2> QED BY <1>2, <2>1, EventFacts DEF Shape, Typed, Empty
<1> HIDE DEF e
<1>4. Told(found \o <<e>>) = Told(found) /\ Append(found, e) = found \o <<e>>
  BY <1>3, ToldMore
<1>5. found' \in {found, found \o <<e>>}
  BY <1>1, <1>4 DEF e
<1>6. <<e>> \in Seq(FoundIn(prog))
  BY <1>3
<1>7. Continues(Len(found))
  BY <1>1, <1>2, <1>5, <1>6, AllContinues
<1>8. Told(found') = Bare[pos']
  <2>1. Told(found) = Bare[pos]
    BY <1>1 DEF Accounts
  <2> QED BY <1>1, <1>4, <1>5, <2>1
<1> QED BY <1>1, <1>7, <1>8, LoopAccounts

(* An empty slot.                                                          *)
LEMMA AtSlotAccounts ==
  ASSUME Shape, Accounts, AtSlot
  PROVE  Accounts'
<1> DEFINE r == Ready(Top)
           a == Started(Top, r.pos)
           e == Item(a.node, <<>>)
<1>1. /\ Round /\ prog' = prog /\ input' = input /\ end' = end
      /\ \/ GoOn(a, r.taken, r.pos, 0) /\ found' = found
         \/ GoOn(a, r.taken, r.pos, 1) /\ found' = Append(found, e)
  BY Zenon DEF AtSlot
<1>2. In("occurrences") /\ r.pos \in 0..end /\ Told(found) = Bare[r.pos]
  BY <1>1, ReadySame
<1>3. LoopAt(a) /\ a.node = Top.node
  BY <1>2, RoundFacts
<1>4. /\ IsProgram(prog) /\ end \in Nat /\ Top.node \in DOMAIN prog /\ calls # <<>>
  BY <1>2, ShapeFacts DEF In
<1>5. found \in Seq(FoundIn(prog)) /\ e \in FoundIn(prog) /\ e.text = <<>>
  <2>1. <<>> \in Seq(Tokens)
    OBVIOUS
  <2>2. e \in FoundIn(prog)
    BY <1>3, <1>4, <2>1, EventFacts
  <2> QED BY <2>2 DEF Shape, Typed, Item
<1> HIDE DEF a, r, e
<1>6. Told(found \o <<e>>) = Told(found) /\ Append(found, e) = found \o <<e>>
  BY <1>5, ToldMore
<1>7. <<e>> \in Seq(FoundIn(prog)) /\ found' \in {found, found \o <<e>>}
  BY <1>1, <1>5, <1>6
<1>8. Continues(Len(found))
  BY <1>1, <1>4, <1>7, AllContinues
<1>9. PICK d \in {0, 1} : GoOn(a, r.taken, r.pos, d)
  BY <1>1
<1>10. Goes(a, d) \/ Returns("fail")
  BY <1>2, <1>3, <1>4, <1>9, GoOnResult
<1>11. Told(found') = Bare[pos']
  <2>1. Same(pos', r.pos)
    BY <1>2, <1>3, <1>9, GoOnSame
  <2> QED BY <1>2, <1>6, <1>7, <2>1 DEF Same
<1> QED BY <1>1, <1>2, <1>8, <1>10, <1>11, LoopAccounts

(* What an item comes to.                                                  *)
LEMMA ItemAccounts ==
  ASSUME Shape, Accounts, In("occurrences"), NEW a, LoopAt(a),
         NEW kept \in Seq(FoundIn(prog)), NEW item \in Seq(FoundIn(prog)), Continues(Len(kept)),
         Told(kept) = Bare[a.start], Told(kept) = Bare[a.before],
         NEW t, NEW p \in 0..end,
         \/ \E empty : /\ Decoded(a, t, p, empty, kept, item)
                       /\ Told(kept \o item) = Bare[p] /\ (empty => Same(p, a.start))
         \/ \E r \in {"absent", "empty", "fail"} :
              Failed(a, t, p, r, kept) /\ (r = "absent" => Same(p, a.start)),
         end' = end
  PROVE  Accounts'
<1>1. IsProgram(prog) /\ end \in Nat
  BY ShapeFacts DEF In
<1>2. ASSUME NEW empty, Decoded(a, t, p, empty, kept, item),
             Told(kept \o item) = Bare[p], empty => Same(p, a.start)
      PROVE  Accounts'
  <2>1. Goes(a, 1) \/ Goes(a, 0) \/ Returns("fail")
    BY <1>1, <1>2, DecodedResult
  <2>2. signal' \in {"run", "ok", "absent"} => Told(found') = Bare[pos']
    BY <1>2, DecodedSame
  <2> QED BY <2>1, <2>2, LoopAccounts
<1>3. ASSUME NEW r \in {"absent", "empty", "fail"}, Failed(a, t, p, r, kept),
             r = "absent" => Same(p, a.start)
      PROVE  Accounts'
  <2>1. Goes(a, 0) \/ Returns("absent") \/ Returns("fail") \/ Returns("empty")
    BY <1>1, <1>3, FailedResult
  <2>2. signal' \in {"run", "ok", "absent"} => Told(found') = Bare[pos']
    BY <1>3, FailedSame
  <2> QED BY <2>1, <2>2, LoopAccounts
<1> QED BY <1>2, <1>3

(* The content up to the end of a field.                                   *)
LEMMA FieldContent ==
  ASSUME Shape, NEW p \in 0..end, NEW q \in p..end
  PROVE  Bare[q] = Bare[p] \o Content(prog, SubSeq(input, p + 1, q))
<1>1. input \in Seq(Tokens) /\ end \in 0..Len(input) /\ Len(input) \in Nat
  BY LenProperties DEF Shape, Typed
<1>2. p \in 0..Len(input) /\ q \in p..Len(input)
  BY <1>1
<1> DEFINE s == input  T == Tokens
<1>3. s \in Seq(T) /\ p \in 0..Len(s) /\ q \in p..Len(s)
  BY <1>1, <1>2
<1> HIDE DEF s, T
<1>4. Kept(prog, s)[q] = Kept(prog, s)[p] \o Content(prog, SubSeq(s, p + 1, q))
  BY <1>3, KeptText, Zenon
<1> QED BY <1>4 DEF Bare, s

(* A field: the content of its text is found, whatever ends it.            *)
LEMMA DecodeFieldAccounts ==
  ASSUME Shape, Accounts, DecodeField
  PROVE  Accounts'
<1> DEFINE r == Ready(Top)
           a == Started(Top, r.pos)
           q == IF Node.kind \in Calcs THEN r.pos ELSE ScanEnd(a.node, a.stops, r.pos)
           text == SubSeq(input, r.pos + 1, q)
           z == IF Node.kind \in Calcs THEN q ELSE Past(Node.term, q)
           empty == Node.kind = "text" /\ text = <<>>
           e == Item(a.node, text)
<1>1. /\ Round /\ prog' = prog /\ input' = input /\ end' = end
      /\ \/ Failed(a, r.taken, q, "fail", found)
         \/ Failed(a, r.taken, q, "empty", found)
         \/ Decoded(a, r.taken, z, empty, found, <<e>>)
  BY Zenon DEF DecodeField
<1>2. /\ In("occurrences") /\ r.pos \in 0..end
      /\ Told(found) = Bare[r.pos] /\ Told(found) = Bare[pos]
  BY <1>1, ReadySame
<1>3. LoopAt(a) /\ a.node = Top.node /\ a.start = r.pos /\ a.before = pos
  BY <1>2, RoundFacts
<1>4. /\ IsProgram(prog) /\ end \in Nat /\ Top.node \in DOMAIN prog /\ calls # <<>>
      /\ Node = prog[Top.node]
  BY <1>2, ShapeFacts DEF In
<1>5. q \in r.pos..end
  <2> HIDE DEF r, a
  <2>1. ScanEnd(a.node, a.stops, r.pos) \in r.pos..end
    BY <1>2, <1>4, ScanEndIn
  <2> QED BY <1>2, <1>4, <2>1
<1> HIDE DEF r, a, q
<1>6. q \in 0..end /\ text \in Seq(Tokens)
  <2>1. q \in 0..end
    BY <1>2, <1>4, <1>5
  <2>2. text \in Seq(Tokens)
    BY <1>2, <1>5, FieldFacts
  <2> QED BY <2>1, <2>2
<1>7. z \in 0..end /\ Same(z, q)
  <2>1. Delimiting(Node.term) /\ Len(Node.term) \in Nat
    <3>1. Top.node # 0
      BY <1>4, NodeFacts
    <3>2. Term(Top.node) = Node.term
      BY <1>4, <3>1 DEF Term
    <3> QED BY <1>4, <3>2, NodeDelimits, DelimiterFacts
  <2>2. Past(Node.term, q) \in q..end /\ Same(Past(Node.term, q), q)
    BY <1>4, <1>6, <2>1, PastIn, PastSame
  <2>3. Same(q, q)
    BY DEF Same
  <2> QED BY <1>4, <1>6, <2>2, <2>3
<1>8. Bare[q] = Bare[r.pos] \o Content(prog, text)
  BY <1>2, <1>5, FieldContent
<1> HIDE DEF z, text, empty
<1>9. found \in Seq(FoundIn(prog)) /\ e \in FoundIn(prog) /\ e.text = text
  <2>1. e \in FoundIn(prog)
    BY <1>3, <1>4, <1>6, EventFacts
  <2> QED BY <2>1 DEF Shape, Typed, Item
<1> HIDE DEF e
<1>10. /\ Told(found \o <<e>>) = Told(found) \o Content(prog, text)
       /\ text = <<>> => Told(found \o <<e>>) = Told(found)
  BY <1>9, ToldMore
<1>11. Told(found \o <<e>>) = Bare[z]
  BY <1>2, <1>7, <1>8, <1>10 DEF Same
<1>12. empty => Same(z, a.start)
  BY <1>2, <1>3, <1>10, <1>11 DEF Same, empty
<1>13. <<e>> \in Seq(FoundIn(prog)) /\ found' \in {found, found \o <<e>>}
  <2>1. <<e>> \in Seq(FoundIn(prog))
    BY <1>9
  <2>2. found' \in {found, found \o <<e>>}
    BY <1>1 DEF Failed, Decoded
  <2> QED BY <2>1, <2>2
<1>14. Continues(Len(found))
  BY <1>1, <1>4, <1>13, AllContinues
<1>15. Told(found) = Bare[a.start] /\ Told(found) = Bare[a.before]
  BY <1>2, <1>3
<1>16. CASE Failed(a, r.taken, q, "fail", found) \/ Failed(a, r.taken, q, "empty", found)
  BY <1>1, <1>2, <1>3, <1>6, <1>9, <1>13, <1>14, <1>15, <1>16, ItemAccounts
<1>17. CASE Decoded(a, r.taken, z, empty, found, <<e>>)
  BY <1>1, <1>2, <1>3, <1>7, <1>9, <1>11, <1>12, <1>13, <1>14, <1>15, <1>17, ItemAccounts
<1> QED BY <1>1, <1>16, <1>17

(* The answer of a complex item.                                           *)
LEMMA ComplexItemAccounts ==
  ASSUME Shape, Accounts, ComplexItem
  PROVE  Accounts'
<1> DEFINE kept == SubSeq(found, 1, Top.keep)
           item == SubSeq(found, Top.keep + 1, Len(found))
<1>1. /\ In("occurrences") /\ signal # "run" /\ Top.called /\ calls # <<>>
      /\ Top.op = "occurrences" /\ prog' = prog /\ input' = input /\ end' = end
      /\ IF signal = "ok" THEN Decoded(Top, taken, pos, FALSE, kept, item)
         ELSE Failed(Top, taken, pos, signal, kept)
  BY DEF ComplexItem, In
<1>2. /\ LoopAt(Top) /\ kept \in Seq(FoundIn(prog)) /\ Len(kept) = Top.keep /\ Top.keep \in Nat
      /\ Keeping(Below, Top.keep) /\ item \in Seq(FoundIn(prog)) /\ Top.keep < Len(found)
      /\ (\A k \in 1..Top.keep : kept[k] = found[k]) /\ kept \o item = found /\ CalledLoop(Top)
  BY <1>1, ItemFacts
<1>3. /\ pos \in 0..end /\ Top = Up(calls) /\ Stack(prog, Len(input), calls, end)
      /\ Len(calls) > 0 /\ Len(found) \in Nat
  BY <1>1, ShapeFacts
<1> HIDE DEF kept, item
<1>4. Told(kept) = Bare[Top.start] /\ Told(kept) = Bare[Top.before]
  <2>1. Len(calls) \in 1..Len(calls) /\ Top = calls[Len(calls)]
    BY <1>1, <1>3, RestFacts DEF Stack, Up
  <2>2. /\ Texts(prog, found)[Top.keep] = Bare[Top.start]
        /\ Texts(prog, found)[Top.keep] = Bare[Top.before]
    BY <1>2, <2>1 DEF Accounts, Framed
  <2>3. Texts(prog, kept)[Top.keep] = Texts(prog, found)[Top.keep]
    <3> DEFINE n == Top.keep
               F == FoundIn(prog)
    <3>1. /\ n \in Nat /\ n <= Len(kept) /\ n <= Len(found) /\ \A k \in 1..n : kept[k] = found[k]
          /\ kept \in Seq(F) /\ found \in Seq(F)
      BY <1>2, <1>3 DEF Shape, Typed
    <3> HIDE DEF n
    <3>2. Texts(prog, kept)[n] = Texts(prog, found)[n]
      BY <3>1, TextsAgree
    <3> QED BY <3>2 DEF n
  <2> QED BY <1>2, <2>2, <2>3 DEF Told
<1>5. found' \in {kept, kept \o item}
  BY <1>1 DEF Decoded, Failed
<1>6. Continues(Len(kept))
  <2>1. Keeping(Below, Len(kept)) /\ Len(kept) <= Len(found)
        /\ \A k \in 1..Len(kept) : kept[k] = found[k]
    BY <1>2, <1>3
  <2> QED BY <1>1, <1>2, <1>5, <2>1, MoreFound
<1>7. CASE signal = "ok"
  <2>1. Told(kept \o item) = Bare[pos]
    BY <1>2, <1>7 DEF Accounts
  <2>2. PICK empty \in BOOLEAN : empty = FALSE
    OBVIOUS
  <2>3. Decoded(Top, taken, pos, empty, kept, item)
    BY <1>1, <1>7, <2>2
  <2>4. empty => Same(pos, Top.start)
    BY <2>2
  <2>5. LoopAt(Top) /\ kept \in Seq(FoundIn(prog)) /\ item \in Seq(FoundIn(prog))
    BY <1>2
  <2>6. In("occurrences") /\ end' = end /\ pos \in 0..end
    BY <1>1, <1>3
  <2> HIDE DEF Decoded
  <2> QED BY <1>4, <1>6, <2>1, <2>3, <2>4, <2>5, <2>6, ItemAccounts
<1>8. CASE signal # "ok"
  <2>1. signal \in {"empty", "fail"}
    BY <1>1, <1>3, <1>8 DEF Accounts, Shape, Typed, Signals
  <2>2. \E r \in {"absent", "empty", "fail"} :
          Failed(Top, taken, pos, r, kept) /\ (r = "absent" => Same(pos, Top.start))
    BY <1>1, <1>8, <2>1
  <2> QED BY <1>1, <1>2, <1>3, <1>4, <1>6, <2>2, ItemAccounts
<1> QED BY <1>7, <1>8

(* A loop enters a complex element: what has been found is the content up  *)
(* to the item, whose event has no text.                                   *)
LEMMA OpenAccounts ==
  ASSUME Shape, Accounts, In("occurrences"), Node.kind = "complex",
         NEW a, LoopAt(a), a.node = Top.node,
         Told(found) = Bare[a.start], Told(found) = Bare[a.before],
         NEW bounded \in BOOLEAN, NEW resume \in 0..end, NEW sep \in BOOLEAN,
         NEW stops \in Seq(Nat), NEW f \in 0..end, bounded \/ f = end, bounded => Same(f, resume),
         prog' = prog, input' = input, pos' = a.start, signal' = "run", end' = f,
         found' = Append(found, Open(a.node)),
         calls' = Below \o <<[a EXCEPT !.called = TRUE, !.keep = Len(found)],
                             Complex(a.node, bounded, resume, sep),
                             Sequence(Node.kids[1], 0, stops)>>
  PROVE  Accounts'
<1> DEFINE b == [a EXCEPT !.called = TRUE, !.keep = Len(found)]
           d == Complex(a.node, bounded, resume, sep)
           s == Sequence(Node.kids[1], 0, stops)
           e == Open(a.node)
           n == Len(found)
<1>3. /\ IsProgram(prog) /\ end \in Nat /\ Top.node \in DOMAIN prog /\ calls # <<>>
      /\ Node = prog[Top.node] /\ Top.op = "occurrences" /\ n \in Nat
  BY ShapeFacts DEF In
<1>4. /\ b \in Frames /\ b.op = "occurrences" /\ b.keep = n
      /\ b.start = a.start /\ b.before = a.before
  <2>1. /\ Good(prog, Len(input), b) /\ b.op = "occurrences" /\ b.keep = Len(found)
        /\ b.start = a.start /\ b.before = a.before
    BY CallingLoop
  <2> HIDE DEF b
  <2> QED BY <2>1, GoodOps
<1>5. /\ d \in Frames /\ d.op = "complex" /\ d.end = end
      /\ d.bounded = bounded /\ d.resume = resume
  <2>1. /\ Good(prog, Len(input), d) /\ d.op = "complex" /\ d.end = end
        /\ d.bounded = bounded /\ d.resume = resume
    BY <1>3, ComplexFrame
  <2> HIDE DEF d
  <2> QED BY <2>1, GoodOps
<1>6. s \in Frames /\ s.op = "sequence"
  <2>1. Node.kids[1] \in DOMAIN prog /\ prog[Node.kids[1]].kind = "sequence"
    BY <1>3, SequenceOf
  <2>2. Good(prog, Len(input), s)
    BY <2>1, NewFrames
  <2>3. s.op = "sequence"
    BY DEF Sequence
  <2> HIDE DEF s
  <2> QED BY <2>2, <2>3, GoodOps
<1>7. found \in Seq(FoundIn(prog)) /\ e \in FoundIn(prog) /\ e.text = <<>>
  <2>1. <<>> \in Seq(Tokens)
    OBVIOUS
  <2> QED BY <1>3, <2>1, EventFacts DEF Shape, Typed, Open
<1>8. found' = Append(found, e) /\ calls' = Below \o <<b, d, s>>
  OBVIOUS
<1> HIDE DEF b, d, s, e
<1>9. Told(found') = Told(found) /\ found' = found \o <<e>> /\ <<e>> \in Seq(FoundIn(prog))
  <2>1. Told(found \o <<e>>) = Told(found) /\ Append(found, e) = found \o <<e>>
    BY <1>7, ToldMore
  <2>2. found' = found \o <<e>>
    BY <1>8, <2>1
  <2> QED BY <1>7, <2>1, <2>2
<1>10. Continues(n)
  BY <1>3, <1>9, AllContinues
<1>11. Texts(prog, found')[n] = Told(found)
  <2> DEFINE g == found'  F == FoundIn(prog)
  <2>1. /\ found \in Seq(F) /\ g \in Seq(F) /\ n <= Len(found) /\ n <= Len(g)
        /\ \A k \in 1..n : g[k] = found[k]
    BY <1>3, <1>7, <1>10 DEF Continues
  <2> HIDE DEF n, g
  <2>2. Texts(prog, g)[n] = Texts(prog, found)[n]
    BY <1>3, <2>1, TextsAgree
  <2> QED BY <2>2 DEF Told, n, g
<1>12. f \in 0..Len(input)
  <2>1. end \in 0..Len(input) /\ Len(input) \in Nat
    BY LenProperties DEF Shape, Typed
  <2> QED BY <2>1
<1>13. /\ Texts(prog, found')[b.keep] = Bare[b.start]
       /\ Texts(prog, found')[b.keep] = Bare[b.before]
  BY <1>4, <1>11
<1>14. Told(found') = Bare[pos']
  BY <1>9
<1>15. (d.bounded \/ f = end) /\ (d.bounded => Same(f, d.resume))
  BY <1>5
<1>16. Top.op # "complex" /\ b.op # "complex"
  BY <1>3, <1>4
<1> HIDE DEF n
<1> QED BY <1>3, <1>4, <1>5, <1>6, <1>8, <1>10, <1>12, <1>13, <1>14, <1>15, <1>16, EnterAccounts

(* A complex element without a bound.                                      *)
LEMMA DecodeComplexAccounts ==
  ASSUME Shape, Accounts, DecodeComplex
  PROVE  Accounts'
<1> DEFINE r == Ready(Top)
           a == Started(Top, r.pos)
           stops == IF Term(a.node) = NoDelim THEN a.stops ELSE Append(a.stops, a.node)
<1>1. /\ Round /\ Node.kind = "complex" /\ prog' = prog /\ input' = input /\ end' = end
      /\ pos' = r.pos /\ signal' = "run" /\ found' = Append(found, Open(a.node))
      /\ calls' = Below \o <<[a EXCEPT !.called = TRUE, !.keep = Len(found)],
                             Complex(a.node, FALSE, 0, FALSE),
                             Sequence(Node.kids[1], 0, stops)>>
  BY Zenon DEF DecodeComplex
<1>2. /\ LoopAt(a) /\ a.node = Top.node /\ a.stops \in Seq(Nat)
      /\ a.start = r.pos /\ a.before = pos
  BY <1>1, RoundFacts DEF Round
<1>3. end \in Nat /\ Top.node \in Nat
  BY <1>1, ShapeFacts DEF Round, In
<1> HIDE DEF r, a
<1>4. stops \in Seq(Nat)
  BY <1>2, <1>3, AppendProperties
<1>5. PICK no \in BOOLEAN : no = FALSE
  OBVIOUS
<1> HIDE DEF stops
<1>6. Complex(a.node, no, 0, no) = Complex(a.node, FALSE, 0, FALSE)
  BY <1>5, Zenon
<1>7. calls' = Below \o <<[a EXCEPT !.called = TRUE, !.keep = Len(found)],
                          Complex(a.node, no, 0, no), Sequence(Node.kids[1], 0, stops)>>
  BY <1>1, <1>6
<1>8. 0 \in 0..end /\ end \in 0..end /\ ~no
  BY <1>3, <1>5
<1>9. Told(found) = Bare[a.start] /\ Told(found) = Bare[a.before] /\ In("occurrences")
  BY <1>1, <1>2, ReadySame DEF r
<1> QED BY <1>1, <1>2, <1>4, <1>7, <1>8, <1>9, OpenAccounts

(* A bounded one: the data it runs over ends before the separator after    *)
(* which the loop resumes.                                                 *)
LEMMA DecodeBoundedAccounts ==
  ASSUME Shape, Accounts, DecodeBounded
  PROVE  Accounts'
<1> DEFINE r == Ready(Top)
           a == Started(Top, r.pos)
           q == ScanEnd(a.parent, a.stops, r.pos)
           resume == Past(Sep(a.parent), q)
<1>1. Round /\ In("occurrences") /\ Node.kind = "complex" /\ prog' = prog /\ input' = input
  BY DEF DecodeBounded, Round
<1>2. \/ /\ Failed(a, r.taken \/ resume > q, resume, "absent", found) /\ end' = end
         /\ q = r.pos
      \/ /\ pos' = r.pos /\ end' = q /\ signal' = "run"
         /\ found' = Append(found, Open(a.node))
         /\ calls' = Below \o <<[a EXCEPT !.called = TRUE, !.keep = Len(found)],
                                Complex(a.node, TRUE, resume, resume > q),
                                Sequence(Node.kids[1], 0, <<>>)>>
  BY Zenon DEF DecodeBounded
<1>3. LoopAt(a) /\ a.node = Top.node /\ a.start = r.pos /\ a.before = pos
  BY <1>1, RoundFacts
<1>4. /\ IsProgram(prog) /\ end \in Nat /\ Top.node \in DOMAIN prog /\ calls # <<>>
  BY <1>1, ShapeFacts DEF In
<1>5. r.pos \in 0..end /\ Told(found) = Bare[r.pos] /\ Told(found) = Bare[pos]
  BY <1>1, ReadySame
<1>6. a.parent \in DOMAIN prog
  BY <1>3 DEF LoopAt
<1> HIDE DEF r, a
<1>7. q \in r.pos..end
  BY <1>4, <1>5, ScanEndIn
<1>8. q \in 0..end
  BY <1>4, <1>5, <1>7
<1> HIDE DEF q
<1>9. resume \in q..end /\ Same(resume, q)
  <2>1. Delimiting(Sep(a.parent)) /\ Len(Sep(a.parent)) \in Nat
    BY <1>4, <1>6, NodeDelimits, DelimiterFacts
  <2> QED BY <1>4, <1>8, <2>1, PastIn, PastSame
<1> HIDE DEF resume
<1>10. resume \in 0..end
  BY <1>4, <1>8, <1>9
<1>11. CASE Failed(a, r.taken \/ resume > q, resume, "absent", found) /\ end' = end /\ q = r.pos
  <2>1. found \in Seq(FoundIn(prog)) /\ <<>> \in Seq(FoundIn(prog))
    BY DEF Shape, Typed
  <2> DEFINE t == r.taken \/ resume > q
  <2>2. Failed(a, t, resume, "absent", found) /\ end' = end /\ found' = found
    BY <1>11 DEF Failed
  <2> HIDE DEF t
  <2>3. Continues(Len(found))
    BY <1>1, <1>4, <2>1, <2>2, AllContinues
  <2>4. Same(resume, a.start) /\ Told(found) = Bare[a.start] /\ Told(found) = Bare[a.before]
    BY <1>3, <1>5, <1>9, <1>11
  <2> QED BY <1>1, <1>3, <1>10, <2>1, <2>2, <2>3, <2>4, ItemAccounts
<1>12. ASSUME pos' = r.pos, end' = q, signal' = "run", found' = Append(found, Open(a.node)),
              calls' = Below \o <<[a EXCEPT !.called = TRUE, !.keep = Len(found)],
                                  Complex(a.node, TRUE, resume, resume > q),
                                  Sequence(Node.kids[1], 0, <<>>)>>
       PROVE  Accounts'
  <2> DEFINE more == resume > q
  <2>1. PICK yes \in BOOLEAN : yes = TRUE
    OBVIOUS
  <2>2. PICK sep \in {more} : TRUE
    OBVIOUS
  <2>3. sep = more /\ sep \in BOOLEAN
    <3>1. more \in BOOLEAN
      BY <1>8, <1>9
    <3>2. sep = more
      BY <2>2
    <3> HIDE DEF more
    <3> QED BY <3>1, <3>2
  <2>4. Complex(a.node, yes, resume, sep) = Complex(a.node, TRUE, resume, more)
    <3> HIDE DEF more
    <3> QED BY <2>1, <2>3, Zenon
  <2> HIDE DEF more
  <2>5. calls' = Below \o <<[a EXCEPT !.called = TRUE, !.keep = Len(found)],
                            Complex(a.node, yes, resume, sep), Sequence(Node.kids[1], 0, <<>>)>>
    BY <1>12, <2>4 DEF more
  <2>6. <<>> \in Seq(Nat) /\ Same(q, resume)
    BY <1>9 DEF Same
  <2>7. Told(found) = Bare[a.start] /\ Told(found) = Bare[a.before] /\ pos' = a.start
    BY <1>3, <1>5, <1>12
  <2> QED BY <1>1, <1>3, <1>8, <1>10, <1>12, <2>1, <2>3, <2>5, <2>6, <2>7, OpenAccounts
<1> QED BY <1>2, <1>11, <1>12

(* The end of a complex element: a bounded one has left delimiters only,   *)
(* and the loop resumes after the next.                                    *)
LEMMA ComplexEndsAccounts ==
  ASSUME Shape, Accounts, ComplexEnds
  PROVE  Accounts'
<1> DEFINE fits == IF Top.bounded THEN OnlySeparators(Sep(Node.kids[1]), pos)
                   ELSE Node.term = NoDelim \/ At(Node.term, pos) \/ pos = end
           answer == IF signal = "ok" /\ ~fits THEN "fail" ELSE signal
           c == calls
<1>1. /\ calls # <<>> /\ Top.op = "complex" /\ signal # "run" /\ Returns(answer)
      /\ prog' = prog /\ input' = input /\ found' = found
      /\ IF Top.bounded THEN pos' = Top.resume /\ end' = Top.end
         ELSE /\ pos' = IF signal = "ok" THEN Past(Node.term, pos) ELSE pos
              /\ end' = end
  BY Zenon DEF ComplexEnds, In, Return, Returns
<1>2. /\ IsProgram(prog) /\ end \in Nat /\ pos \in 0..end /\ Top.node \in DOMAIN prog
      /\ Node = prog[Top.node] /\ Len(found) \in Nat
      /\ Top = Up(c) /\ Below = Rest(c) /\ Keeping(Below, Len(found))
      /\ Stack(prog, Len(input), c, end) /\ Good(prog, Len(input), Top)
  BY <1>1, ShapeFacts
<1>3. Len(c) \in Nat /\ Len(c) > 0 /\ Len(Rest(c)) = Len(c) - 1 /\ Top = c[Len(c)]
  BY <1>1, <1>2, RestFacts DEF Stack, Up
<1>4. Below # <<>>
  <2>1. c[1].op = "sequence"
    BY <1>2, <1>3 DEF Stack
  <2>2. Len(c) # 1
    BY <1>1, <1>3, <2>1
  <2> QED BY <1>2, <1>3, <2>2
<1>5. Continues(Len(found))
  BY <1>1, <1>2 DEF Continues, Shape, Typed
<1>6. signal # "absent"
  BY <1>1, <1>2 DEF Accounts
<1>7. answer # "run" /\ answer # "absent" /\ (answer = "ok" => signal = "ok" /\ fits)
  BY <1>1, <1>6
<1>8. ASSUME signal = "ok", fits PROVE Told(found) = Bare[pos']
  <2>1. Told(found) = Bare[pos]
    BY <1>8 DEF Accounts
  <2>2. CASE Top.bounded
    <3>1. PICK x \in 0..Len(input) : Bare[x] = Bare[Top.resume] /\ EndAbove(c, end, Len(c), x)
      <4>1. Len(c) \in 1..Len(c)
        BY <1>3
      <4> QED BY <1>1, <1>3, <2>2, <4>1 DEF Accounts, Framed
    <3>2. x = end
      BY <1>3, <3>1 DEF EndAbove
    <3>3. Same(end, pos)
      <4>1. Node.kids[1] \in DOMAIN prog
        <5>1. GoodComplex(prog, Len(input), Top)
          BY <1>1, <1>2, GoodOps
        <5> QED BY <1>2, <5>1, SequenceOf DEF GoodComplex
      <4>2. Delimiting(Sep(Node.kids[1])) /\ OnlySeparators(Sep(Node.kids[1]), pos)
        BY <1>2, <1>8, <2>2, <4>1, NodeDelimits
      <4> QED BY <1>2, <4>2, OnlySame
    <3>4. pos' = Top.resume
      BY <1>1, <2>2
    <3> QED BY <2>1, <3>1, <3>2, <3>3, <3>4 DEF Same
  <2>3. CASE ~Top.bounded
    <3>1. pos' = Past(Node.term, pos)
      BY <1>1, <1>8, <2>3
    <3>2. Delimiting(Node.term)
      <4>1. Top.node # 0 /\ Term(Top.node) = Node.term
        BY <1>2, NodeFacts DEF Term
      <4> QED BY <1>2, <4>1, NodeDelimits
    <3>3. Same(Past(Node.term, pos), pos)
      BY <1>2, <3>2, PastSame
    <3> QED BY <2>1, <3>1, <3>3 DEF Same
  <2> QED BY <2>2, <2>3
<1> HIDE DEF answer, fits, c
<1>9. IF Top.op = "complex" /\ Top.bounded THEN end' = Top.end ELSE end' = end
  BY <1>1
<1>10. answer \in {"ok", "absent"} => Told(found') = Bare[pos']
  BY <1>1, <1>7, <1>8
<1> QED BY <1>1, <1>4, <1>5, <1>7, <1>9, <1>10, ReturnAccounts

(* Where a decode begins nothing has been found.                           *)
LEMMA BeginTells ==
  ASSUME NEW p, NEW S, NEW s \in Seq(S), NEW m
  PROVE  LET c == <<Sequence(1, 0, <<>>)>> IN
         /\ Framed(Kept(p, s), Texts(p, <<>>), m, c, m) /\ c # <<>>
         /\ Texts(p, <<>>)[Len(<<>>)] = Kept(p, s)[0]
<1> DEFINE b == Sequence(1, 0, <<>>)
           c == <<b>>
<1>1. b.op = "sequence" /\ ~CalledLoop(b)
  BY DEF Sequence, CalledLoop
<1> HIDE DEF b
<1>2. Len(c) = 1 /\ c[1] = b /\ c # <<>>
  OBVIOUS
<1> HIDE DEF c
<1>3. Framed(Kept(p, s), Texts(p, <<>>), m, c, m)
  BY <1>1, <1>2 DEF Framed, EndAbove
<1>4. Texts(p, <<>>)[Len(<<>>)] = Kept(p, s)[0]
  <2>1. <<>> \in Seq(FoundIn(p)) /\ Len(<<>>) = 0
    OBVIOUS
  <2>2. Texts(p, <<>>)[0] = <<>>
    BY <2>1, TextsIs
  <2>3. Kept(p, s)[0] = <<>>
    BY KeptIs
  <2> QED BY <2>1, <2>2, <2>3
<1> QED BY <1>2, <1>3, <1>4 DEF b, c

(* A first decode and another one.                                         *)
LEMMA InitAccounts ==
  ASSUME Init
  PROVE  Accounts
<1>1. input \in Seq(Tokens)
  BY InitShape DEF Shape, Typed
<1> DEFINE c == <<Sequence(1, 0, <<>>)>>
<1>2. /\ Framed(Bare, Texts(prog, <<>>), Len(input), c, Len(input)) /\ c # <<>>
      /\ Texts(prog, <<>>)[Len(<<>>)] = Bare[0]
  BY <1>1, BeginTells DEF Bare
<1>3. /\ calls = c /\ signal = "run" /\ pos = 0 /\ end = Len(input) /\ found = <<>>
  BY DEF Init, Begin
<1> HIDE DEF c
<1> QED BY <1>2, <1>3 DEF Accounts, Told

LEMMA DecodeAgainAccounts ==
  ASSUME Shape, DecodeAgain
  PROVE  Accounts'
<1>1. input \in Seq(Tokens)
  BY DEF Shape, Typed
<1> DEFINE c == <<Sequence(1, 0, <<>>)>>
<1>2. /\ Framed(Bare, Texts(prog, <<>>), Len(input), c, Len(input)) /\ c # <<>>
      /\ Texts(prog, <<>>)[Len(<<>>)] = Bare[0]
  BY <1>1, BeginTells DEF Bare
<1>3. /\ calls' = c /\ signal' = "run" /\ pos' = 0 /\ end' = Len(input) /\ found' = <<>>
      /\ prog' = prog /\ input' = input
  BY DEF DecodeAgain
<1>4. Bare' = Bare
  BY <1>3 DEF Bare
<1> HIDE DEF c
<1> QED BY <1>2, <1>3, <1>4 DEF Accounts, Told

(* Every step accounts for the content.                                    *)
LEMMA NextAccounts ==
  ASSUME Shape, Accounts, [Next]_vars
  PROVE  Accounts'
<1>1. CASE SequenceStep BY <1>1, SequenceStepAccounts
<1>2. CASE SequenceChild BY <1>2, SequenceChildAccounts
<1>3. CASE SequenceEnds BY <1>3, SequenceEndsAccounts
<1>4. CASE SeparatorMissing BY <1>4, SeparatorMissingAccounts
<1>5. CASE AtSlot BY <1>5, AtSlotAccounts
<1>6. CASE DecodeField BY <1>6, DecodeFieldAccounts
<1>7. CASE DecodeBounded BY <1>7, DecodeBoundedAccounts
<1>8. CASE DecodeComplex BY <1>8, DecodeComplexAccounts
<1>9. CASE ComplexEnds BY <1>9, ComplexEndsAccounts
<1>10. CASE ComplexItem BY <1>10, ComplexItemAccounts
<1>11. CASE OccurrencesEnd BY <1>11, OccurrencesEndAccounts
<1>12. CASE DecodeAgain BY <1>12, DecodeAgainAccounts
<1>13. CASE UNCHANGED vars
  BY <1>13 DEF vars, Accounts, Told, Bare
<1> QED BY <1>1, <1>2, <1>3, <1>4, <1>5, <1>6, <1>7, <1>8, <1>9, <1>10, <1>11, <1>12, <1>13
        DEF Next, Run

(* Accounts is inductive, within Shape.                                    *)
LEMMA AlwaysAccounts == Spec => []Accounts
<1>1. Init => Accounts
  BY InitAccounts
<1>2. Shape /\ Accounts /\ [Next]_vars => Accounts'
  BY NextAccounts
<1> QED BY <1>1, <1>2, AlwaysShape, PTL DEF Spec

(* Every token of accepted data is a delimiter of the schema or in exactly *)
(* one item, in the order of the infoset: whatever was taken back, passed  *)
(* over, bounded by a separator or left as trailing separators, no text is *)
(* lost and none is found twice.                                           *)
THEOREM InputIsAccounted == Spec => []InputAccounted
<1>1. Shape /\ Accounts => InputAccounted
  <2> SUFFICES ASSUME Shape, Accounts, calls = <<>>, signal = "ok"
               PROVE  Told(found) = Content(prog, input)
    BY DEF InputAccounted, Done, Told
  <2>1. pos = end /\ Told(found) = Bare[pos] /\ EndAbove(<<>>, end, 0, Len(input))
    BY DEF Accounts, Framed
  <2>2. Len(input) = end
    BY <2>1 DEF EndAbove
  <2> QED BY <2>1, <2>2 DEF Bare, Content
<1> QED BY <1>1, AlwaysShape, AlwaysAccounts, PTL
============================================================================
