--------------------------- MODULE Encoder_proofs ---------------------------
(***************************************************************************)
(* Theorems about Encoder, for every set of schemas, every infoset, every  *)
(* number of encodes and every size of the thread's stack: what the        *)
(* encoder keeps in its two cells, the occurrence and the bit order, is    *)
(* right while it recurses, measures in scratch buffers and writes         *)
(* payloads it frames later.  The invariant Cells is about the whole       *)
(* stack: which activations have set the occurrence, which have put a      *)
(* buffer aside, and what is in those buffers.                             *)
(***************************************************************************)
EXTENDS Encoder, SequenceTheorems, TLAPS

----------------------------------------------------------------------------
(* Data.                                                                   *)

(* A sequence, of whatever it holds.                                       *)
IsList(s) == s \in Seq(ToSet(s))

(* What is a sequence over some set is a list.                             *)
LEMMA SomeList ==
  ASSUME NEW S, NEW s \in Seq(S)
  PROVE  IsList(s)
<1>1. s \in [1..Len(s) -> S] /\ Len(s) \in Nat
  OBVIOUS
<1>2. \A i \in 1..Len(s) : s[i] \in ToSet(s)
  BY <1>1 DEF ToSet
<1>3. s \in [1..Len(s) -> ToSet(s)]
  BY <1>1, <1>2
<1> QED BY <1>1, <1>3 DEF IsList

(* One element more.                                                       *)
LEMMA ListAppend ==
  ASSUME NEW s, IsList(s), NEW e
  PROVE  /\ IsList(Append(s, e)) /\ Len(Append(s, e)) = Len(s) + 1 /\ Len(s) \in Nat
         /\ Append(s, e)[Len(s) + 1] = e /\ \A i \in 1..Len(s) : Append(s, e)[i] = s[i]
<1> DEFINE S == ToSet(s) \union {e}
<1>1. s \in Seq(S)
  BY DEF IsList
<1> HIDE DEF S
<1>2. e \in S
  BY DEF S
<1>3. Append(s, e) \in Seq(S)
  BY <1>1, <1>2
<1>4. IsList(Append(s, e))
  BY <1>3, SomeList
<1> QED BY <1>1, <1>2, <1>4

(* All but the last.                                                       *)
LEMMA ListFront ==
  ASSUME NEW s, IsList(s), s # <<>>
  PROVE  LET u == SubSeq(s, 1, Len(s) - 1) IN
         /\ IsList(u) /\ Len(u) = Len(s) - 1 /\ Len(s) \in Nat /\ Len(s) > 0
         /\ (\A i \in 1..(Len(s) - 1) : u[i] = s[i]) /\ s = Append(u, Last(s)) /\ Last(s) = s[Len(s)]
<1> DEFINE S == ToSet(s)
           n == Len(s)
           u == SubSeq(s, 1, n - 1)
<1>1. s \in Seq(S)
  BY DEF IsList
<1> HIDE DEF S
<1>2. n \in Nat /\ n > 0
  BY <1>1
<1>3. u \in Seq(S) /\ Len(u) = n - 1 /\ \A i \in 1..(n - 1) : u[i] = s[i]
  <2> HIDE DEF n
  <2>1. 1 \in Int /\ n - 1 \in Int /\ \A i \in 1..(n - 1) : s[i] \in S
    BY <1>1, <1>2 DEF n
  <2>2. /\ u \in Seq(S) /\ Len(u) = IF 1 <= n - 1 THEN n - 1 - 1 + 1 ELSE 0
        /\ \A i \in 1..(n - 1 - 1 + 1) : u[i] = s[1 + i - 1]
    BY <2>1, SubSeqProperties
  <2>3. \A i \in 1..(n - 1) : i \in 1..(n - 1 - 1 + 1) /\ 1 + i - 1 = i
    BY <1>2
  <2> HIDE DEF u
  <2>4. Len(u) = n - 1
    BY <1>2, <2>2
  <2> QED BY <2>2, <2>3, <2>4
<1>4. Last(s) = s[n] /\ s[n] \in S
  BY <1>1, <1>2 DEF Last
<1>5. s = Append(u, s[n])
  <2>1. Append(u, s[n]) \in Seq(S) /\ Len(Append(u, s[n])) = n
    BY <1>2, <1>3, <1>4
  <2>2. \A i \in 1..n : Append(u, s[n])[i] = s[i]
    BY <1>2, <1>3, <1>4
  <2> QED BY <1>1, <2>1, <2>2, SeqEqual
<1> QED BY <1>2, <1>3, <1>4, <1>5, SomeList

(* Two lists.                                                              *)
LEMMA ListConcat ==
  ASSUME NEW s, IsList(s), NEW w, IsList(w)
  PROVE  /\ IsList(s \o w) /\ Len(s \o w) = Len(s) + Len(w) /\ Len(s) \in Nat /\ Len(w) \in Nat
         /\ (\A i \in 1..Len(s) : (s \o w)[i] = s[i])
         /\ \A i \in 1..Len(w) : (s \o w)[Len(s) + i] = w[i]
<1> DEFINE S == ToSet(s) \union ToSet(w)
<1>1. s \in Seq(S) /\ w \in Seq(S)
  BY DEF IsList
<1> HIDE DEF S
<1>2. s \o w \in Seq(S)
  BY <1>1
<1>3. IsList(s \o w)
  BY <1>2, SomeList
<1> QED BY <1>1, <1>3

(* What begins as s does up to n.                                          *)
LEMMA SameBeginning ==
  ASSUME NEW s, IsList(s), NEW w, IsList(w), NEW n \in Nat, n <= Len(s), n <= Len(w),
         \A i \in 1..n : s[i] = w[i]
  PROVE  SubSeq(s, 1, n) = SubSeq(w, 1, n)
<1> DEFINE S == ToSet(s) \union ToSet(w)
<1>1. s \in Seq(S) /\ w \in Seq(S)
  BY DEF IsList
<1> HIDE DEF S
<1>2. /\ SubSeq(s, 1, n) \in Seq(S) /\ Len(SubSeq(s, 1, n)) = n /\ \A i \in 1..n : SubSeq(s, 1, n)[i] = s[i]
      /\ SubSeq(w, 1, n) \in Seq(S) /\ Len(SubSeq(w, 1, n)) = n /\ \A i \in 1..n : SubSeq(w, 1, n)[i] = w[i]
  BY <1>1, SubSeqProperties
<1> QED BY <1>2, SeqEqual

----------------------------------------------------------------------------
(* The stack.                                                              *)

(* The activations that write to a buffer of their own and keep the one    *)
(* before it, and those that set the occurrence.                           *)
Saving(a) == a.fn = "measure" \/ (a.fn = "items" /\ a.how = "framed")
Counting(a) == a.fn = "items" /\ a.how = "occurrence"

IsFrame(a) ==
  /\ "fn" \in DOMAIN a
  /\ a.fn = "items" => {"how", "saved"} \subseteq DOMAIN a
  /\ a.fn = "measure" => "saved" \in DOMAIN a
  /\ Saving(a) => IsList(a.saved)

Shape ==
  /\ IsList(stack) /\ (\A i \in 1..Len(stack) : IsFrame(stack[i]))
  /\ IsList(out)
  /\ signal \in {"call", "ok", "err", "overflow"} /\ (signal = "overflow" => stack = <<>>)

(* The activations that wait for one above them or for its answer.         *)
Waits(c, r, i) == i < Len(c) \/ r # "call"
Running(c, r) == {i \in 1..Len(c) : Counting(c[i]) /\ Waits(c, r, i)}
Held(c, r) == {i \in 1..Len(c) : Saving(c[i]) /\ Waits(c, r, i)}

(* What a step does to the stack: the top one returns, goes on as b, goes  *)
(* on as b and calls c, or the call does not fit.                          *)
Pops == stack' = Under /\ signal' \in {"ok", "err"}
Sets(b) == stack' = Append(Under, b) /\ signal' = "call"
Calls(b, c) == stack' = Append(Append(Under, b), c) /\ signal' = "call"
Ends == stack' = <<>> /\ signal' = "overflow"

Moves ==
  /\ stack # <<>>
  /\ \/ Pops \/ Ends \/ \E b : Sets(b) /\ IsFrame(b)
     \/ \E b, c : Calls(b, c) /\ IsFrame(b) /\ IsFrame(c) /\ ~Saving(b) /\ ~Counting(b)

(* The top one waits for nothing that is kept.                             *)
Idle == signal = "call" \/ (~Saving(Top) /\ ~Counting(Top))

(* The stack below the top.                                                *)
LEMMA UnderFacts ==
  ASSUME Shape, stack # <<>>
  PROVE  /\ IsList(Under) /\ Len(Under) = Len(stack) - 1 /\ Len(stack) \in Nat /\ Len(stack) > 0
         /\ (\A i \in 1..(Len(stack) - 1) : Under[i] = stack[i])
         /\ Top = stack[Len(stack)] /\ stack = Append(Under, Top) /\ IsFrame(Top)
<1>1. IsList(stack)
  BY DEF Shape
<1>2. /\ IsList(Under) /\ Len(Under) = Len(stack) - 1 /\ Len(stack) \in Nat /\ Len(stack) > 0
      /\ (\A i \in 1..(Len(stack) - 1) : Under[i] = stack[i])
      /\ Top = stack[Len(stack)] /\ stack = Append(Under, Top)
  BY <1>1, ListFront DEF Under, Top
<1>3. Len(stack) \in 1..Len(stack)
  BY <1>2
<1> QED BY <1>2, <1>3 DEF Shape

(* The stack when the top one goes on.                                     *)
LEMMA SetsFacts ==
  ASSUME Shape, stack # <<>>, NEW b, Sets(b)
  PROVE  /\ IsList(stack') /\ Len(stack') = Len(stack) /\ stack'[Len(stack)] = b
         /\ \A i \in 1..(Len(stack) - 1) : stack'[i] = stack[i]
<1> DEFINE n == Len(stack)
           u == Under
           d == Append(u, b)
<1>1. IsList(u) /\ Len(u) = n - 1 /\ n \in Nat /\ \A i \in 1..(n - 1) : u[i] = stack[i]
  BY UnderFacts
<1> HIDE DEF u, n
<1>2. IsList(d) /\ Len(d) = Len(u) + 1 /\ d[Len(u) + 1] = b /\ \A i \in 1..Len(u) : d[i] = u[i]
  BY <1>1, ListAppend
<1>3. stack' = d
  BY DEF Sets, u
<1> HIDE DEF d
<1>4. Len(u) + 1 = n
  BY <1>1
<1>5. IsList(d) /\ Len(d) = n /\ d[n] = b /\ \A i \in 1..(n - 1) : d[i] = stack[i]
  BY <1>1, <1>2, <1>4
<1> QED BY <1>3, <1>5 DEF n

(* The stack when it calls.                                                *)
LEMMA CallsFacts ==
  ASSUME Shape, stack # <<>>, NEW b, NEW c, Calls(b, c)
  PROVE  /\ IsList(stack') /\ Len(stack') = Len(stack) + 1 /\ stack'[Len(stack)] = b
         /\ stack'[Len(stack) + 1] = c /\ \A i \in 1..(Len(stack) - 1) : stack'[i] = stack[i]
<1> DEFINE n == Len(stack)
           u == Under
           v == Append(u, b)
           d == Append(v, c)
<1>1. IsList(u) /\ Len(u) = n - 1 /\ n \in Nat /\ n > 0 /\ \A i \in 1..(n - 1) : u[i] = stack[i]
  BY UnderFacts
<1> HIDE DEF u, n
<1>2. IsList(v) /\ Len(v) = Len(u) + 1 /\ v[Len(u) + 1] = b /\ \A i \in 1..Len(u) : v[i] = u[i]
  BY <1>1, ListAppend
<1>3. Len(u) + 1 = n
  BY <1>1
<1>4. stack' = d
  BY DEF Calls, u
<1> HIDE DEF v
<1>5. IsList(d) /\ Len(d) = Len(v) + 1 /\ d[Len(v) + 1] = c /\ \A i \in 1..Len(v) : d[i] = v[i]
  BY <1>2, ListAppend
<1> HIDE DEF d
<1>6. Len(v) = n /\ v[n] = b /\ \A i \in 1..(n - 1) : v[i] = stack[i]
  BY <1>1, <1>2, <1>3
<1>7. n \in 1..n /\ \A i \in 1..(n - 1) : i \in 1..n
  BY <1>1
<1>8. IsList(d) /\ Len(d) = n + 1 /\ d[n] = b /\ d[n + 1] = c /\ \A i \in 1..(n - 1) : d[i] = stack[i]
  BY <1>5, <1>6, <1>7
<1> QED BY <1>4, <1>8 DEF n

(* The frames after a call are well formed.                                *)
LEMMA CallsShape ==
  ASSUME Shape, stack # <<>>, NEW b, NEW c, Calls(b, c), IsFrame(b), IsFrame(c), IsList(out')
  PROVE  Shape'
<1>1. /\ IsList(stack') /\ Len(stack') = Len(stack) + 1 /\ Len(stack) \in Nat
      /\ stack'[Len(stack)] = b /\ stack'[Len(stack) + 1] = c
      /\ \A i \in 1..(Len(stack) - 1) : stack'[i] = stack[i]
  BY CallsFacts, UnderFacts
<1>2. \A i \in 1..(Len(stack) + 1) : i = Len(stack) + 1 \/ i = Len(stack) \/ i \in 1..(Len(stack) - 1)
  BY <1>1
<1>3. \A i \in 1..(Len(stack) - 1) : i \in 1..Len(stack)
  BY <1>1
<1>4. signal' = "call"
  BY DEF Calls
<1> QED BY <1>1, <1>2, <1>3, <1>4 DEF Shape

(* The frames after a step are well formed.                                *)
LEMMA ShapeKept ==
  ASSUME Shape, Moves, IsList(out')
  PROVE  Shape'
<1>1. stack # <<>> /\ \A i \in 1..Len(stack) : IsFrame(stack[i])
  BY DEF Moves, Shape
<1> SUFFICES /\ IsList(stack') /\ (\A i \in 1..Len(stack') : IsFrame(stack'[i]))
             /\ signal' \in {"call", "ok", "err", "overflow"} /\ (signal' = "overflow" => stack' = <<>>)
  BY DEF Shape
<1>2. CASE Pops
  <2>1. /\ IsList(stack') /\ Len(stack') = Len(stack) - 1 /\ Len(stack) \in Nat
        /\ \A i \in 1..(Len(stack) - 1) : stack'[i] = stack[i]
    BY <1>1, <1>2, UnderFacts DEF Pops
  <2>2. \A i \in 1..(Len(stack) - 1) : i \in 1..Len(stack)
    BY <2>1
  <2> QED BY <1>1, <1>2, <2>1, <2>2 DEF Pops
<1>3. CASE Ends
  <2>1. <<>> \in Seq({})
    OBVIOUS
  <2>2. IsList(<<>>)
    BY <2>1, SomeList
  <2> QED BY <1>3, <2>2 DEF Ends
<1>4. ASSUME NEW b, Sets(b), IsFrame(b) PROVE Shape'
  <2>1. /\ IsList(stack') /\ Len(stack') = Len(stack) /\ Len(stack) \in Nat
        /\ stack'[Len(stack)] = b /\ \A i \in 1..(Len(stack) - 1) : stack'[i] = stack[i]
    BY <1>1, <1>4, SetsFacts, UnderFacts
  <2>2. \A i \in 1..Len(stack) : i = Len(stack) \/ i \in 1..(Len(stack) - 1)
    BY <2>1
  <2>3. signal' = "call"
    BY <1>4 DEF Sets
  <2> QED BY <1>1, <1>4, <2>1, <2>2, <2>3 DEF Shape
<1>5. ASSUME NEW b, NEW c, Calls(b, c), IsFrame(b), IsFrame(c) PROVE Shape'
  BY <1>1, <1>5, CallsShape
<1> QED BY <1>2, <1>3, <1>4, <1>5 DEF Moves, Shape

(* Who waits: those below the top as before, and nobody else that keeps    *)
(* something.                                                              *)
LEMMA WaitsKept ==
  ASSUME Shape, Moves, signal' # "overflow"
  PROVE  /\ Len(stack) \in Nat /\ Len(stack) > 0
         /\ \A i \in 1..(Len(stack) - 1) :
              /\ i \in 1..Len(stack) /\ i \in 1..Len(stack') /\ stack'[i] = stack[i]
              /\ Waits(stack, signal, i) /\ Waits(stack', signal', i)
         /\ \A i \in 1..Len(stack') : i \notin 1..(Len(stack) - 1) =>
              ~Waits(stack', signal', i) \/ (~Saving(stack'[i]) /\ ~Counting(stack'[i]))
<1>1. stack # <<>> /\ Len(stack) \in Nat /\ Len(stack) > 0
  BY UnderFacts DEF Moves
<1>2. \A i \in 1..(Len(stack) - 1) : i \in 1..Len(stack) /\ Waits(stack, signal, i)
  BY <1>1 DEF Waits
<1>3. CASE Pops
  <2>1. Len(stack') = Len(stack) - 1 /\ \A i \in 1..(Len(stack) - 1) : stack'[i] = stack[i]
    BY <1>1, <1>3, UnderFacts DEF Pops
  <2>2. signal' # "call"
    BY <1>3 DEF Pops
  <2> QED BY <1>1, <1>2, <2>1, <2>2 DEF Waits
<1>4. ASSUME NEW b, Sets(b) PROVE /\ Len(stack') = Len(stack) /\ signal' = "call"
                                  /\ \A i \in 1..(Len(stack) - 1) : stack'[i] = stack[i]
  BY <1>1, <1>4, SetsFacts DEF Sets
<1>5. CASE \E b : Sets(b)
  <2>1. /\ Len(stack') = Len(stack) /\ signal' = "call"
        /\ \A i \in 1..(Len(stack) - 1) : stack'[i] = stack[i]
    BY <1>4, <1>5
  <2>2. \A i \in 1..Len(stack') : i \notin 1..(Len(stack) - 1) => ~Waits(stack', signal', i)
    BY <1>1, <2>1 DEF Waits
  <2>3. \A i \in 1..(Len(stack) - 1) : i \in 1..Len(stack') /\ Waits(stack', signal', i)
    BY <1>1, <2>1 DEF Waits
  <2> QED BY <1>1, <1>2, <2>1, <2>2, <2>3
<1>6. ASSUME NEW b, NEW c, Calls(b, c), ~Saving(b), ~Counting(b)
      PROVE  /\ Len(stack') = Len(stack) + 1 /\ signal' = "call"
             /\ (\A i \in 1..(Len(stack) - 1) : stack'[i] = stack[i])
             /\ ~Saving(stack'[Len(stack)]) /\ ~Counting(stack'[Len(stack)])
  BY <1>1, <1>6, CallsFacts DEF Calls
<1>7. CASE \E b, c : Calls(b, c) /\ ~Saving(b) /\ ~Counting(b)
  <2>1. /\ Len(stack') = Len(stack) + 1 /\ signal' = "call"
        /\ (\A i \in 1..(Len(stack) - 1) : stack'[i] = stack[i])
        /\ ~Saving(stack'[Len(stack)]) /\ ~Counting(stack'[Len(stack)])
    BY <1>6, <1>7
  <2>2. \A i \in 1..Len(stack') : i \notin 1..(Len(stack) - 1) => i = Len(stack) \/ ~Waits(stack', signal', i)
    BY <1>1, <2>1 DEF Waits
  <2>3. \A i \in 1..(Len(stack) - 1) : i \in 1..Len(stack') /\ Waits(stack', signal', i)
    BY <1>1, <2>1 DEF Waits
  <2> QED BY <1>1, <1>2, <2>1, <2>2, <2>3
<1>8. ~Ends
  BY DEF Ends
<1> QED BY <1>3, <1>5, <1>7, <1>8 DEF Moves

(* What waits below the top goes on waiting, and nothing else that keeps   *)
(* something waits.                                                        *)
LEMMA MovesKeep ==
  ASSUME Shape, Moves, signal' # "overflow"
  PROVE  /\ Running(stack', signal') = Running(stack, signal) \intersect 1..(Len(stack) - 1)
         /\ Held(stack', signal') = Held(stack, signal) \intersect 1..(Len(stack) - 1)
         /\ \A i \in 1..(Len(stack) - 1) : stack'[i] = stack[i]
<1>1. /\ Len(stack) \in Nat /\ Len(stack) > 0
      /\ \A i \in 1..(Len(stack) - 1) :
              /\ i \in 1..Len(stack) /\ i \in 1..Len(stack') /\ stack'[i] = stack[i]
              /\ Waits(stack, signal, i) /\ Waits(stack', signal', i)
      /\ \A i \in 1..Len(stack') : i \notin 1..(Len(stack) - 1) =>
           ~Waits(stack', signal', i) \/ (~Saving(stack'[i]) /\ ~Counting(stack'[i]))
  BY WaitsKept
<1>2. \A i : i \in Running(stack', signal') <=> i \in Running(stack, signal) /\ i \in 1..(Len(stack) - 1)
  BY <1>1 DEF Running
<1>3. \A i : i \in Held(stack', signal') <=> i \in Held(stack, signal) /\ i \in 1..(Len(stack) - 1)
  BY <1>1 DEF Held
<1> QED BY <1>1, <1>2, <1>3

(* A call from b: it waits, and what it calls does not.                    *)
LEMMA CallsKeep ==
  ASSUME Shape, stack # <<>>, signal = "call", NEW b, NEW c, Calls(b, c)
  PROVE  /\ Running(stack', signal') = Running(stack, signal) \union (IF Counting(b) THEN {Len(stack)} ELSE {})
         /\ Held(stack', signal') = Held(stack, signal) \union (IF Saving(b) THEN {Len(stack)} ELSE {})
         /\ \A i \in Running(stack, signal) \union Held(stack, signal) : i < Len(stack) /\ stack'[i] = stack[i]
         /\ stack'[Len(stack)] = b
<1>1. /\ Len(stack') = Len(stack) + 1 /\ stack'[Len(stack)] = b /\ Len(stack) \in Nat /\ Len(stack) > 0
      /\ signal' = "call" /\ \A i \in 1..(Len(stack) - 1) : stack'[i] = stack[i]
  BY CallsFacts, UnderFacts DEF Calls
<1>2. \A i \in 1..Len(stack) : Waits(stack, signal, i) <=> i \in 1..(Len(stack) - 1)
  BY <1>1 DEF Waits
<1>3. \A i \in 1..Len(stack') : Waits(stack', signal', i) <=> i = Len(stack) \/ i \in 1..(Len(stack) - 1)
  BY <1>1 DEF Waits
<1>4. /\ Len(stack) \in 1..Len(stack')
      /\ \A i \in 1..(Len(stack) - 1) : i \in 1..Len(stack) /\ i \in 1..Len(stack') /\ i < Len(stack)
  BY <1>1
<1>5. \A i : i \in Running(stack', signal') <=> i \in Running(stack, signal) \/ (Counting(b) /\ i = Len(stack))
  BY <1>1, <1>2, <1>3, <1>4 DEF Running
<1>6. \A i : i \in Held(stack', signal') <=> i \in Held(stack, signal) \/ (Saving(b) /\ i = Len(stack))
  BY <1>1, <1>2, <1>3, <1>4 DEF Held
<1>7. \A i \in Running(stack, signal) \union Held(stack, signal) : i \in 1..(Len(stack) - 1)
  BY <1>2 DEF Running, Held
<1> QED BY <1>1, <1>4, <1>5, <1>6, <1>7

----------------------------------------------------------------------------
(* The cells.                                                              *)

(* The occurrence o is that of the innermost item.                         *)
Innermost(c, r, o) ==
  \E i \in Running(c, r) :
    o = <<c[i].i, Len(c[i].s)>> /\ \A j \in Running(c, r) : j <= i

OccurrenceFollows ==
  signal # "overflow" /\ occurrence # NoOccurrence => Innermost(stack, signal, occurrence)

(* In the buffer w orders change on byte boundaries; its last order is o;  *)
(* it has none.                                                            *)
OnBytes(w) ==
  \A i, j \in 1..Len(w) :
    (/\ i < j /\ w[i].order # "none" /\ w[j].order \notin {"none", w[i].order}
     /\ \A k \in (i + 1)..(j - 1) : w[k].order = "none")
    => Bits(SubSeq(w, 1, j - 1)) % 8 = 0
LastIs(w, o) ==
  \A i \in 1..Len(w) :
    w[i].order # "none" /\ (\A k \in (i + 1)..Len(w) : w[k].order = "none") => w[i].order = o
Plain(w) == \A i \in 1..Len(w) : w[i].order = "none"

(* Of the buffers only the one around all the others has values in an      *)
(* order, and the last of them is the one the cell holds.                  *)
Fits(w, o) == OnBytes(w) /\ LastIs(w, o)
Buffered(c, r, w, o) ==
  /\ Fits(w, o)
  /\ \A i \in Held(c, r) :
       Plain(w) /\ Fits(c[i].saved, o) /\ \A j \in Held(c, r) : i < j => Plain(c[j].saved)

OrderFollows == ~unseen => Buffered(stack, signal, out, order)

(* A step leaves the occurrence fresh unless the top one has set it.       *)
LEMMA FreshKept ==
  ASSUME Shape, Moves, signal = "call" \/ ~Counting(Top), OccurrenceFollows, occurrence' = occurrence
  PROVE  OccurrenceFollows'
<1> SUFFICES ASSUME signal' # "overflow", occurrence # NoOccurrence
             PROVE  Innermost(stack', signal', occurrence)
  BY DEF OccurrenceFollows
<1>1. /\ Running(stack', signal') = Running(stack, signal) \intersect 1..(Len(stack) - 1)
      /\ \A i \in 1..(Len(stack) - 1) : stack'[i] = stack[i]
  BY MovesKeep
<1>2. signal # "overflow" /\ Len(stack) \in Nat /\ Top = stack[Len(stack)]
  BY UnderFacts DEF Shape, Moves
<1>3. Innermost(stack, signal, occurrence)
  BY <1>2 DEF OccurrenceFollows
<1>4. \A i \in Running(stack, signal) : i \in 1..(Len(stack) - 1)
  BY <1>2 DEF Running, Waits
<1> QED BY <1>1, <1>3, <1>4 DEF Innermost

(* A step leaves the buffers that go on being kept as they are.            *)
LEMMA BuffersKept ==
  ASSUME Shape, Moves, NEW w, NEW o, Buffered(stack, signal, w, o)
  PROVE  Buffered(stack', signal', w, o)
<1>1. CASE signal' # "overflow"
  <2>1. /\ Held(stack', signal') = Held(stack, signal) \intersect 1..(Len(stack) - 1)
        /\ \A i \in 1..(Len(stack) - 1) : stack'[i] = stack[i]
    BY <1>1, MovesKeep
  <2> QED BY <2>1 DEF Buffered
<1>2. CASE signal' = "overflow"
  <2>1. stack' = <<>>
    <3>1. CASE Pops
      BY <1>2, <3>1 DEF Pops
    <3>2. ~(\E b : Sets(b)) /\ ~(\E b, c : Calls(b, c))
      BY <1>2 DEF Sets, Calls
    <3> QED BY <3>1, <3>2 DEF Moves, Ends
  <2>2. Held(stack', signal') = {}
    BY <2>1 DEF Held
  <2> QED BY <2>2 DEF Buffered
<1> QED BY <1>1, <1>2

(* A token in no order changes nothing.                                    *)
LEMMA PlainAppend ==
  ASSUME NEW w, IsList(w), NEW v, IsList(v), Plain(v), NEW o, Fits(w, o)
  PROVE  Fits(w \o v, o) /\ (Plain(w) => Plain(w \o v))
<1> DEFINE u == w \o v
           m == Len(w)
           n == Len(v)
<1>1. /\ IsList(u) /\ Len(u) = m + n /\ m \in Nat /\ n \in Nat
      /\ (\A i \in 1..m : u[i] = w[i]) /\ \A i \in 1..n : u[m + i] = v[i]
  BY ListConcat
<1> HIDE DEF u
<1>2. \A i \in 1..(m + n) : u[i].order # "none" => i \in 1..m
  <2> SUFFICES ASSUME NEW i \in 1..(m + n), i \notin 1..m PROVE u[i].order = "none"
    OBVIOUS
  <2>1. i - m \in 1..n /\ m + (i - m) = i
    BY <1>1
  <2>2. u[i] = v[i - m]
    BY <1>1, <2>1
  <2> QED BY <2>1, <2>2 DEF Plain
<1>3. \A i \in 1..m : i \in 1..(m + n)
  BY <1>1
<1>4. OnBytes(u)
  <2> SUFFICES ASSUME NEW i \in 1..(m + n), NEW j \in 1..(m + n),
                      i < j, u[i].order # "none", u[j].order \notin {"none", u[i].order},
                      \A k \in (i + 1)..(j - 1) : u[k].order = "none"
               PROVE  Bits(SubSeq(u, 1, j - 1)) % 8 = 0
    BY <1>1 DEF OnBytes
  <2>1. i \in 1..m /\ j \in 1..m
    BY <1>2
  <2>2. \A k \in (i + 1)..(j - 1) : k \in 1..m
    BY <1>1, <2>1
  <2>3. w[i] = u[i] /\ w[j] = u[j] /\ \A k \in (i + 1)..(j - 1) : w[k].order = "none"
    BY <1>1, <2>1, <2>2
  <2>4. Bits(SubSeq(w, 1, j - 1)) % 8 = 0
    BY <2>1, <2>3 DEF Fits, OnBytes
  <2>5. SubSeq(u, 1, j - 1) = SubSeq(w, 1, j - 1)
    <3>1. j - 1 \in Nat /\ j - 1 <= m /\ j - 1 <= m + n /\ \A k \in 1..(j - 1) : k \in 1..m
      BY <1>1, <2>1
    <3>2. \A k \in 1..(j - 1) : u[k] = w[k]
      BY <1>1, <3>1
    <3> QED BY <1>1, <3>1, <3>2, SameBeginning
  <2> QED BY <2>4, <2>5
<1>5. LastIs(u, o)
  <2> SUFFICES ASSUME NEW i \in 1..(m + n), u[i].order # "none",
                      \A k \in (i + 1)..(m + n) : u[k].order = "none"
               PROVE  u[i].order = o
    BY <1>1 DEF LastIs
  <2>1. i \in 1..m
    BY <1>2
  <2>2. \A k \in (i + 1)..m : k \in (i + 1)..(m + n) /\ k \in 1..m
    BY <1>1, <2>1
  <2>3. w[i] = u[i] /\ \A k \in (i + 1)..m : w[k].order = "none"
    BY <1>1, <2>1, <2>2
  <2> QED BY <2>1, <2>3 DEF Fits, LastIs
<1>6. ASSUME Plain(w) PROVE Plain(u)
  <2>1. \A i \in 1..m : u[i].order = "none"
    BY <1>1, <1>6 DEF Plain
  <2> QED BY <1>1, <1>2, <2>1 DEF Plain
<1> QED BY <1>4, <1>5, <1>6 DEF Fits, u

(* A token in the order o, where the cell allows it.                       *)
LEMMA OrderedAppend ==
  ASSUME NEW w, IsList(w), NEW o, Fits(w, o), NEW e, e.order # "none",
         o = "none" \/ e.order = o \/ Bits(w) % 8 = 0
  PROVE  Fits(Append(w, e), e.order)
<1> DEFINE u == Append(w, e)
           m == Len(w)
<1>1. /\ IsList(u) /\ Len(u) = m + 1 /\ m \in Nat
      /\ (\A i \in 1..m : u[i] = w[i]) /\ u[m + 1] = e
  BY ListAppend
<1> HIDE DEF u
<1>2. OnBytes(u)
  <2> SUFFICES ASSUME NEW i \in 1..(m + 1), NEW j \in 1..(m + 1),
                      i < j, u[i].order # "none", u[j].order \notin {"none", u[i].order},
                      \A k \in (i + 1)..(j - 1) : u[k].order = "none"
               PROVE  Bits(SubSeq(u, 1, j - 1)) % 8 = 0
    BY <1>1 DEF OnBytes
  <2>1. i \in 1..m /\ \A k \in (i + 1)..(j - 1) : k \in 1..m
    BY <1>1
  <2>2. w[i] = u[i] /\ \A k \in (i + 1)..(j - 1) : w[k].order = "none"
    BY <1>1, <2>1
  <2>3. SubSeq(u, 1, j - 1) = SubSeq(w, 1, j - 1)
    <3>1. j - 1 \in Nat /\ j - 1 <= m /\ j - 1 <= m + 1 /\ \A k \in 1..(j - 1) : k \in 1..m
      BY <1>1
    <3>2. \A k \in 1..(j - 1) : u[k] = w[k]
      BY <1>1, <3>1
    <3> QED BY <1>1, <3>1, <3>2, SameBeginning
  <2>4. CASE j \in 1..m
    <3>1. w[j] = u[j]
      BY <1>1, <2>4
    <3>2. Bits(SubSeq(w, 1, j - 1)) % 8 = 0
      BY <2>1, <2>2, <2>4, <3>1 DEF Fits, OnBytes
    <3> QED BY <2>3, <3>2
  <2>5. CASE j = m + 1
    <3>1. \A k \in (i + 1)..m : w[k].order = "none"
      BY <1>1, <2>2, <2>5
    <3>2. w[i].order = o
      BY <2>1, <2>2, <3>1 DEF Fits, LastIs
    <3>3. Bits(w) % 8 = 0
      BY <1>1, <2>2, <2>5, <3>2
    <3>4. SubSeq(w, 1, m) = w
      <4>1. w \in Seq(ToSet(w))
        BY DEF IsList
      <4> HIDE DEF m
      <4> QED BY <4>1, SubSeqFull DEF m
    <3>5. j - 1 = m
      BY <1>1, <2>5
    <3> QED BY <2>3, <3>3, <3>4, <3>5
  <2> QED BY <1>1, <2>4, <2>5
<1>3. LastIs(u, e.order)
  <2> SUFFICES ASSUME NEW i \in 1..(m + 1), u[i].order # "none",
                      \A k \in (i + 1)..(m + 1) : u[k].order = "none"
               PROVE  u[i].order = e.order
    BY <1>1 DEF LastIs
  <2>1. i = m + 1
    BY <1>1
  <2> QED BY <1>1, <2>1
<1> QED BY <1>2, <1>3 DEF Fits, u

----------------------------------------------------------------------------
(* Calls.                                                                  *)

(* A frame that keeps nothing.                                             *)
Bare(a) == "fn" \in DOMAIN a /\ a.fn \notin {"items", "measure"}

(* It is a frame, and neither keeps a buffer nor sets the occurrence.      *)
LEMMA BareFacts ==
  ASSUME NEW a, Bare(a)
  PROVE  IsFrame(a) /\ ~Saving(a) /\ ~Counting(a)
BY DEF Bare, IsFrame, Saving, Counting

(* The frames that are pushed.                                             *)
LEMMA NewFrames ==
  /\ \A x, y, z : Bare(ANode(x, y, z))
  /\ \A x, y, z, k : Bare(AParticle(x, y, z, k))
  /\ \A x, y, z, k : Bare(ASequence(x, y, z, k))
  /\ \A x, y : Bare(APrecompute(x, y))
  /\ \A x, y, z : Bare(AEval(x, y, z))
  /\ \A x, y, z : Bare(AResolve(x, y, z))
  /\ \A x, y, z : Bare(ASynth(x, y, z))
  /\ \A x, y : Bare(ABranch(x, y))
BY DEF Bare, ANode, AParticle, ASequence, APrecompute, AEval, AResolve, ASynth, ABranch

(* The frames that may keep something are pushed keeping nothing.          *)
LEMMA KeepingFrames ==
  /\ \A x, y, z : IsFrame(AMeasure(x, y, z))
  /\ \A x, y, z, h, l : IsFrame(AItems(x, y, z, h, l))
<1>1. IsList(<<>>)
  <2>1. <<>> \in Seq({})
    OBVIOUS
  <2> QED BY <2>1, SomeList
<1> QED BY <1>1 DEF IsFrame, AMeasure, AItems

(* Who is on top when an action runs.                                      *)
LEMMA TopBare ==
  ASSUME Shape, stack # <<>>, Top.fn \notin {"items", "measure"}
  PROVE  Bare(Top) /\ Idle
<1>1. IsFrame(Top)
  BY UnderFacts
<1>2. Bare(Top)
  BY <1>1 DEF IsFrame, Bare
<1> QED BY <1>2, BareFacts DEF Idle

(* The calls, in the forms the actions have them.                          *)
LEMMA ReturnMoves ==
  ASSUME stack # <<>>, NEW v, Return(v) \/ Throw(v)
  PROVE  Moves
BY DEF Return, Throw, Moves, Pops

(* The frame on top goes on.                                               *)
LEMMA SetMoves ==
  ASSUME stack # <<>>, NEW b, IsFrame(b), stack' = Append(Under, b), signal' = "call"
  PROVE  Moves
BY DEF Moves, Sets

(* The frame on top is replaced.                                           *)
LEMMA BecomeMoves ==
  ASSUME stack # <<>>, NEW a, IsFrame(a), Become(a)
  PROVE  Moves
BY DEF Become, Push, Moves, Sets, Ends

(* The frame on top goes on as b and calls a.                              *)
LEMMA CallFromMoves ==
  ASSUME stack # <<>>, NEW b, Bare(b), NEW a, IsFrame(a), Push(Append(Under, b), a)
  PROVE  Moves
BY BareFacts DEF Push, Moves, Calls, Ends

(* The frame on top calls a.                                               *)
LEMMA CallMoves ==
  ASSUME Shape, stack # <<>>, Bare(Top), NEW a, IsFrame(a), Call(a)
  PROVE  Moves
<1>1. stack = Append(Under, Top)
  BY UnderFacts
<1> QED BY <1>1, CallFromMoves DEF Call

(* The steps that write nothing.                                           *)
LEMMA EvalEntryMoves ==
  ASSUME Shape, EvalEntry
  PROVE  Moves /\ Idle
<1>1. stack # <<>> /\ Top.fn = "precompute" /\ signal = "call"
  BY DEF EvalEntry, Calling
<1>2. Bare(Top) /\ Idle
  BY <1>1, TopBare
<1>3. Bare([Top EXCEPT !.e = @ + 1])
  BY <1>2 DEF Bare
<1>4. \/ Throw("circular")
      \/ stack' = Append(Under, [Top EXCEPT !.e = @ + 1]) /\ signal' = signal
      \/ \E x, y, z : Call(AEval(x, y, z))
  BY DEF EvalEntry
<1> QED BY <1>1, <1>2, <1>3, <1>4, BareFacts, NewFrames, ReturnMoves, SetMoves, CallMoves

(* The other steps that precompute.                                        *)
LEMMA EntryMoves ==
  ASSUME Shape, EntryComputed \/ EntryFailed \/ PassDone
  PROVE  Moves /\ Idle
<1>1. stack # <<>> /\ Top.fn = "precompute"
  BY DEF EntryComputed, EntryFailed, PassDone, Calling, Returned, Failed
<1>2. Bare(Top) /\ Idle
  BY <1>1, TopBare
<1>3. CASE EntryComputed
  <2>1. \E b : Bare(b) /\ stack' = Append(Under, b) /\ signal' = "call"
    <3> DEFINE n == Node(Collected(Node(Top.id).kids)[Top.e])
               v == ForKind(n.kind, val)
               x == [Top EXCEPT !.e = @ + 1]
               y == [Top EXCEPT !.e = @ + 1, !.progress = TRUE, !.map = (n.name :> v) @@ @]
    <3>1. Bare(x) /\ Bare(y)
      BY <1>2 DEF Bare
    <3>2. (stack' = Append(Under, x) \/ stack' = Append(Under, y)) /\ signal' = "call"
      BY <1>3 DEF EntryComputed
    <3> QED BY <3>1, <3>2
  <2> QED BY <1>1, <1>2, <2>1, BareFacts, SetMoves
<1>4. CASE EntryFailed
  <2> DEFINE x == [Top EXCEPT !.e = @ + 1]
  <2>1. Bare(x)
    BY <1>2 DEF Bare
  <2>2. Throw(val) \/ (stack' = Append(Under, x) /\ signal' = "call")
    BY <1>4 DEF EntryFailed
  <2> QED BY <1>1, <1>2, <2>1, <2>2, BareFacts, ReturnMoves, SetMoves
<1>5. CASE PassDone
  <2> DEFINE x == [Top EXCEPT !.e = 1, !.pass = @ + 1, !.progress = FALSE]
  <2>1. Bare(x)
    BY <1>2 DEF Bare
  <2>2. \/ Return(MapOf(Top.map)) \/ Throw("circular")
        \/ stack' = Append(Under, x) /\ signal' = "call"
    BY <1>5 DEF PassDone, Calling
  <2> QED BY <1>1, <1>2, <2>1, <2>2, BareFacts, ReturnMoves, SetMoves
<1> QED BY <1>3, <1>4, <1>5

(* The steps that evaluate an outputValueCalc.                             *)
LEMMA EvalMoves ==
  ASSUME Shape, EvalCalc \/ EvalReturns
  PROVE  Moves /\ Idle
<1>1. stack # <<>> /\ Top.fn = "eval"
  BY DEF EvalCalc, EvalReturns, Calling, Returned
<1>2. Bare(Top) /\ Idle
  BY <1>1, TopBare
<1>3. CASE EvalCalc
  <2>1. \/ \E v : Return(v) \/ Throw(v)
        \/ \E x, y, z : Call(AMeasure(x, y, z))
        \/ \E x, y, z : Call(AResolve(x, y, z))
    BY <1>3 DEF EvalCalc
  <2> QED BY <1>1, <1>2, <2>1, BareFacts, NewFrames, KeepingFrames, ReturnMoves, CallMoves
<1>4. CASE EvalReturns
  <2>1. \E v : Return(v) \/ Throw(v)
    BY <1>4 DEF EvalReturns
  <2> QED BY <1>1, <1>2, <2>1, ReturnMoves
<1> QED BY <1>3, <1>4

(* The steps that resolve a path.                                          *)
LEMMA ResolveMoves ==
  ASSUME Shape, Resolve \/ ResolveReturns
  PROVE  Moves /\ Idle
<1>1. stack # <<>> /\ Top.fn = "resolve"
  BY DEF Resolve, ResolveReturns, Calling, Returned
<1>2. Bare(Top) /\ Idle
  BY <1>1, TopBare
<1>3. \/ \E v : Return(v) \/ Throw(v)
      \/ \E x, y, z : Call(ASynth(x, y, z))
  BY DEF Resolve, ResolveReturns
<1> QED BY <1>1, <1>2, <1>3, BareFacts, NewFrames, ReturnMoves, CallMoves

(* The steps that make up a value.                                         *)
LEMMA SynthMoves ==
  ASSUME Shape, Synthesize \/ SynthReturns
  PROVE  Moves /\ Idle
<1>1. stack # <<>> /\ Top.fn = "synth"
  BY DEF Synthesize, SynthReturns, Calling, Returned
<1>2. Bare(Top) /\ Idle
  BY <1>1, TopBare
<1>3. CASE Synthesize
  <2> DEFINE b == [Top EXCEPT !.i = @ + 1]
  <2>1. Bare(b)
    BY <1>2 DEF Bare
  <2>2. \/ \E v : Return(v) \/ Throw(v)
        \/ stack' = Append(Under, b) /\ signal' = "call"
        \/ \E x, y : Call(APrecompute(x, y))
        \/ \E x, y, z : Call(AEval(x, y, z))
        \/ \E x, y, z : Call(ASynth(x, y, z))
    BY <1>3 DEF Synthesize, Calling
  <2> QED BY <1>1, <1>2, <2>1, <2>2, BareFacts, NewFrames, ReturnMoves, SetMoves, CallMoves
<1>4. CASE SynthReturns
  <2> DEFINE n == Node(Top.id)
             x == [Top EXCEPT !.i = 1, !.made = val.f]
             y == [Top EXCEPT !.i = @ + 1, !.made = (Node(n.kids[Top.i]).name :> val) @@ @]
  <2>1. Bare(x) /\ Bare(y)
    BY <1>2 DEF Bare
  <2>2. \/ Return(val)
        \/ (stack' = Append(Under, x) \/ stack' = Append(Under, y)) /\ signal' = "call"
    BY <1>4 DEF SynthReturns
  <2> QED BY <1>1, <1>2, <2>1, <2>2, BareFacts, ReturnMoves, SetMoves
<1> QED BY <1>3, <1>4

(* A sequence, entered from the frame on top.                              *)
LEMMA EnterMoves ==
  ASSUME stack # <<>>, NEW x, NEW y, NEW z, NEW k, Enter(Under, x, y, z, k)
  PROVE  Moves
BY NewFrames, CallFromMoves, BareFacts DEF Enter

(* The steps of a sequence.                                                *)
LEMMA SequenceMoves ==
  ASSUME Shape, SequenceReady \/ SequenceChild \/ ChildReturns
  PROVE  Moves /\ Idle
<1>1. stack # <<>> /\ Top.fn = "sequence"
  BY DEF SequenceReady, SequenceChild, ChildReturns, Calling, Returned
<1>2. Bare(Top) /\ Idle
  BY <1>1, TopBare
<1> DEFINE b == [Top EXCEPT !.i = 1, !.map = val.f, !.marks = <<Bits(out)>>]
<1>3. Bare(b) /\ Bare(NextChild)
  BY <1>2 DEF Bare, NextChild
<1>4. \/ \E v : Return(v)
      \/ (stack' = Append(Under, b) \/ stack' = Append(Under, NextChild)) /\ signal' = "call"
      \/ \E x, y, z, k : Call(AParticle(x, y, z, k))
  BY DEF SequenceReady, SequenceChild, ChildReturns, Calling
<1> QED BY <1>1, <1>2, <1>3, <1>4, BareFacts, NewFrames, ReturnMoves, SetMoves, CallMoves

(* The steps of a particle, but for its writing.                           *)
LEMMA ParticleMoves ==
  ASSUME Shape, ParticleValue \/ ParticleComputed \/ ParticleCount \/ ParticleCounted \/ ParticleSequence
  PROVE  Moves /\ Idle
<1>1. stack # <<>> /\ Top.fn = "particle"
  BY DEF ParticleValue, ParticleComputed, ParticleCount, ParticleCounted, ParticleSequence, Calling, Returned
<1>2. Bare(Top) /\ Idle
  BY <1>1, TopBare
<1>3. \A p, v : Bare([Top EXCEPT !.phase = p, !.value = v]) /\ Bare([Top EXCEPT !.phase = p])
  BY <1>2 DEF Bare
<1>4. ASSUME NEW p, NEW v, Set(p, v), signal' = "call" PROVE Moves
  BY <1>1, <1>3, <1>4, BareFacts, SetMoves DEF Set
<1>5. ASSUME NEW p, NEW a, Bare(a), CallFrom([Top EXCEPT !.phase = p], a) PROVE Moves
  BY <1>1, <1>3, <1>5, BareFacts, CallFromMoves DEF CallFrom
<1>6. CASE ParticleValue
  <2>1. \/ \E v : Return(v) \/ Throw(v)
        \/ \E p, v : Set(p, v) /\ signal' = "call"
        \/ \E p, x, y, z : CallFrom([Top EXCEPT !.phase = p], AEval(x, y, z))
    BY <1>6 DEF ParticleValue, Calling
  <2> QED BY <1>1, <1>2, <1>4, <1>5, <2>1, NewFrames, ReturnMoves
<1>7. CASE ParticleComputed
  <2>1. \E p, v : Set(p, v) /\ signal' = "call"
    BY <1>7 DEF ParticleComputed
  <2> QED BY <1>2, <1>4, <2>1
<1>8. CASE ParticleCount
  <2>1. \E p, x, y, z : CallFrom([Top EXCEPT !.phase = p], AResolve(x, y, z))
    BY <1>8 DEF ParticleCount
  <2> QED BY <1>2, <1>5, <2>1, NewFrames
<1>9. CASE ParticleCounted
  <2>1. \/ \E v : Return(v)
        \/ \E p, v : Set(p, v) /\ signal' = "call"
    BY <1>9 DEF ParticleCounted
  <2> QED BY <1>1, <1>2, <1>4, <2>1, ReturnMoves
<1>10. CASE ParticleSequence
  BY <1>1, <1>2, <1>10, EnterMoves DEF ParticleSequence
<1> QED BY <1>6, <1>7, <1>8, <1>9, <1>10

(* A branch of a choice.                                                   *)
LEMMA MatchedMoves ==
  ASSUME stack # <<>>, NEW x, NEW y, NEW z, NEW k, Matched(x, y, z, k)
  PROVE  Moves
<1>1. \/ \E s, a, b, c, d : Push(Append(Under, ABranch(x, s)), AParticle(a, b, c, d))
      \/ \E s, a, b, c : Push(Append(Under, ABranch(x, s)), ANode(a, b, c))
  BY DEF Matched
<1> QED BY <1>1, NewFrames, CallFromMoves, BareFacts

(* A branch is found by its data, its key, or needs neither.               *)
LEMMA EncodeChoiceMoves ==
  ASSUME stack # <<>>, NEW x, NEW y, EncodeChoice(x, y)
  PROVE  Moves
<1>1. \/ \E a, b, c, d : Matched(a, b, c, d)
      \/ Throw("choice")
      \/ \E a, b, c : Become(ANode(a, b, c))
  BY DEF EncodeChoice
<1> QED BY <1>1, MatchedMoves, ReturnMoves, BecomeMoves, NewFrames, BareFacts

(* The steps that enter a choice or a sequence.                            *)
LEMMA ChoiceMoves ==
  ASSUME Shape, ParticleChoice \/ NodeChoice \/ NodeSequence
  PROVE  Moves /\ Idle
<1>1. stack # <<>> /\ Top.fn \in {"particle", "node"}
  BY DEF ParticleChoice, NodeChoice, NodeSequence, Calling
<1>2. Bare(Top) /\ Idle
  BY <1>1, TopBare
<1>3. \/ \E x, y : EncodeChoice(x, y)
      \/ \E x, y, z, k : Matched(x, y, z, k)
      \/ \E v : Throw(v)
      \/ \E x, y, z, k : Enter(Under, x, y, z, k)
  BY DEF ParticleChoice, NodeChoice, NodeSequence
<1> QED BY <1>1, <1>2, <1>3, EncodeChoiceMoves, MatchedMoves, ReturnMoves, EnterMoves

(* The end of the items, and an error that is passed on.                   *)
LEMMA OtherMoves ==
  ASSUME Shape, ItemsDone \/ Unwind
  PROVE  Moves /\ Idle
<1>1. CASE ItemsDone
  BY <1>1, ReturnMoves DEF ItemsDone, Calling, Idle
<1>2. CASE Unwind
  <2>1. stack # <<>> /\ Top.fn \notin {"items", "measure"}
    BY <1>2 DEF Unwind, Failed
  <2>2. \E v : Return(v) \/ Throw(v)
    BY <1>2 DEF Unwind
  <2> QED BY <2>1, <2>2, TopBare, ReturnMoves
<1> QED BY <1>1, <1>2

(* The steps that write nothing keep all that is true of the cells.        *)
LEMMA QuietKeeps ==
  ASSUME Shape, OccurrenceFollows, OrderFollows, Moves, Idle, Quiet
  PROVE  Shape' /\ OccurrenceFollows' /\ OrderFollows'
<1>1. out' = out /\ occurrence' = occurrence /\ order' = order /\ unseen' = unseen
  BY DEF Quiet
<1>2. Shape'
  BY <1>1, ShapeKept DEF Shape
<1>3. OccurrenceFollows'
  BY <1>1, FreshKept DEF Idle
<1>4. OrderFollows'
  BY <1>1, BuffersKept DEF OrderFollows
<1> QED BY <1>2, <1>3, <1>4

----------------------------------------------------------------------------
(* The steps that write.                                                   *)

(* Tokens in no order.                                                     *)
LEMMA PlainWrites ==
  ASSUME NEW c, NEW r, NEW w, IsList(w), NEW o, Buffered(c, r, w, o), NEW v, IsList(v), Plain(v)
  PROVE  Buffered(c, r, w \o v, o)
BY PlainAppend DEF Buffered

(* A token is a list of one.                                               *)
LEMMA OneToken ==
  ASSUME NEW w, IsList(w), NEW e
  PROVE  IsList(<<e>>) /\ Append(w, e) = w \o <<e>> /\ (e.order = "none" => Plain(<<e>>))
<1>1. <<e>> \in Seq({e}) /\ w \in Seq(ToSet(w) \union {e})
  BY DEF IsList
<1>2. IsList(<<e>>)
  BY <1>1, SomeList
<1>3. Append(w, e) = w \o <<e>>
  <2> DEFINE S == ToSet(w) \union {e}
  <2>1. e \in S /\ w \in Seq(S)
    BY <1>1
  <2> HIDE DEF S
  <2>2. Append(w, e) \in Seq(S) /\ w \o <<e>> \in Seq(S) /\ Len(w) \in Nat
        /\ Len(Append(w, e)) = Len(w) + 1 /\ Len(w \o <<e>>) = Len(w) + 1
    BY <2>1
  <2>3. \A i \in 1..(Len(w) + 1) : Append(w, e)[i] = (w \o <<e>>)[i]
    BY <2>1, <2>2
  <2> QED BY <2>2, <2>3, SeqEqual
<1>4. e.order = "none" => Plain(<<e>>)
  BY DEF Plain
<1> QED BY <1>2, <1>3, <1>4

(* A nil value, a prefix and padding are in no order.                      *)
LEMMA PlainTokens ==
  \A id, n : /\ Token(id, Null, n).order = "none" /\ Token(id, Filler("pad"), n).order = "none"
             /\ Token(id, Filler("cut"), n).order = "none" /\ Token(id, Filler("prefix"), n).order = "none"
BY DEF Token, Null, Filler

(* A payload in no order is in none when it is framed.                     *)
LEMMA FramedPlain ==
  ASSUME NEW id, NEW n, NEW w, IsList(w)
  PROVE  IsList(Framed(id, n, w)) /\ (Plain(w) => Plain(Framed(id, n, w)))
<1>1. ASSUME NEW u, IsList(u), NEW v, IsList(v), Plain(v)
      PROVE  /\ IsList(u \o v) /\ IsList(v \o u)
             /\ Plain(u) => Plain(u \o v) /\ Plain(v \o u)
  <2>1. /\ IsList(u \o v) /\ Len(u \o v) = Len(u) + Len(v) /\ Len(u) \in Nat /\ Len(v) \in Nat
        /\ (\A i \in 1..Len(u) : (u \o v)[i] = u[i])
        /\ \A i \in 1..Len(v) : (u \o v)[Len(u) + i] = v[i]
    BY <1>1, ListConcat
  <2>2. /\ IsList(v \o u) /\ Len(v \o u) = Len(v) + Len(u)
        /\ (\A i \in 1..Len(v) : (v \o u)[i] = v[i])
        /\ \A i \in 1..Len(u) : (v \o u)[Len(v) + i] = u[i]
    BY <1>1, ListConcat
  <2>3. \A i \in 1..(Len(u) + Len(v)) : i \in 1..Len(u) \/ (i - Len(u) \in 1..Len(v) /\ Len(u) + (i - Len(u)) = i)
    BY <2>1
  <2>4. \A i \in 1..(Len(v) + Len(u)) : i \in 1..Len(v) \/ (i - Len(v) \in 1..Len(u) /\ Len(v) + (i - Len(v)) = i)
    BY <2>1
  <2>5. Plain(u) => Plain(u \o v)
    <3> SUFFICES ASSUME Plain(u), NEW i \in 1..(Len(u) + Len(v)) PROVE (u \o v)[i].order = "none"
      BY <2>1 DEF Plain
    <3>1. CASE i \in 1..Len(u)
      BY <2>1, <3>1 DEF Plain
    <3>2. CASE i \notin 1..Len(u)
      <4>1. (u \o v)[i] = v[i - Len(u)] /\ i - Len(u) \in 1..Len(v)
        BY <2>1, <2>3, <3>2
      <4> QED BY <1>1, <4>1 DEF Plain
    <3> QED BY <3>1, <3>2
  <2>6. Plain(u) => Plain(v \o u)
    <3> SUFFICES ASSUME Plain(u), NEW i \in 1..(Len(v) + Len(u)) PROVE (v \o u)[i].order = "none"
      BY <2>2 DEF Plain
    <3>1. CASE i \in 1..Len(v)
      BY <1>1, <2>2, <3>1 DEF Plain
    <3>2. CASE i \notin 1..Len(v)
      <4>1. (v \o u)[i] = u[i - Len(v)] /\ i - Len(v) \in 1..Len(u)
        BY <2>2, <2>4, <3>2
      <4> QED BY <4>1 DEF Plain
    <3> QED BY <3>1, <3>2
  <2> QED BY <2>1, <2>2, <2>5, <2>6
<1>2. ASSUME NEW x, x.order = "none" PROVE IsList(<<x>>) /\ Plain(<<x>>)
  BY <1>2, OneToken
<1>3. \A what, k : Token(id, Filler("cut"), k).order = "none" /\ Token(id, Filler("prefix"), k).order = "none"
                   /\ Token(id, Filler("pad"), k).order = "none"
  BY PlainTokens
<1> DEFINE a == Token(id, Filler("prefix"), 8)
           b == Token(id, Filler("cut"), 8 * n)
           c == Token(id, Filler("pad"), 8 * n - Bits(w))
           e == Token(id, Filler("pad"), 8 * Bytes(w) - Bits(w))
<1>4. /\ IsList(<<a>>) /\ Plain(<<a>>) /\ IsList(<<b>>) /\ Plain(<<b>>) /\ IsList(<<c>>) /\ Plain(<<c>>)
      /\ IsList(<<e>>) /\ Plain(<<e>>)
  BY <1>2, <1>3
<1>5. Framed(id, n, w) \in {(<<a>> \o w) \o <<e>>, <<b>>, w \o <<c>>, w}
  BY DEF Framed
<1> HIDE DEF a, b, c, e
<1>6. IsList(<<a>> \o w) /\ (Plain(w) => Plain(<<a>> \o w))
  BY <1>1, <1>4
<1>7. IsList((<<a>> \o w) \o <<e>>) /\ (Plain(w) => Plain((<<a>> \o w) \o <<e>>))
  BY <1>1, <1>4, <1>6
<1> QED BY <1>1, <1>4, <1>5, <1>7

(* What is noted without a value in the output leaves nothing to check.    *)
LEMMA NotedUnseen ==
  ASSUME NEW n, NoteOrder(n, FALSE)
  PROVE  unseen' \/ (order' = order /\ unseen' = unseen)
BY DEF NoteOrder

(* A step that adds only tokens in no order.                               *)
LEMMA PlainKeeps ==
  ASSUME Shape, OrderFollows, Moves, NEW v, IsList(v), Plain(v), out' = out \o v,
         unseen' \/ (order' = order /\ unseen' = unseen)
  PROVE  Shape' /\ OrderFollows'
<1>1. IsList(out')
  BY ListConcat DEF Shape
<1>2. OrderFollows'
  <2> SUFFICES ASSUME ~unseen' PROVE Buffered(stack', signal', out', order')
    BY DEF OrderFollows
  <2>1. Buffered(stack, signal, out, order) /\ order' = order
    BY DEF OrderFollows
  <2>2. Buffered(stack, signal, out \o v, order)
    BY <2>1, PlainWrites DEF Shape
  <2> QED BY <2>1, <2>2, BuffersKept
<1> QED BY <1>1, <1>2, ShapeKept

(* A step that writes nothing.                                             *)
LEMMA NothingKeeps ==
  ASSUME Shape, OrderFollows, Moves, out' = out, unseen' \/ (order' = order /\ unseen' = unseen)
  PROVE  Shape' /\ OrderFollows'
<1>1. OrderFollows'
  <2> SUFFICES ASSUME ~unseen' PROVE Buffered(stack', signal', out', order')
    BY DEF OrderFollows
  <2>1. Buffered(stack, signal, out, order) /\ order' = order
    BY DEF OrderFollows
  <2> QED BY <2>1, BuffersKept
<1> QED BY <1>1, ShapeKept DEF Shape

(* A step that adds one token in no order.                                 *)
LEMMA TokenKeeps ==
  ASSUME Shape, OrderFollows, Moves, NEW e, e.order = "none", out' = Append(out, e),
         unseen' \/ (order' = order /\ unseen' = unseen)
  PROVE  Shape' /\ OrderFollows'
<1>1. IsList(<<e>>) /\ Append(out, e) = out \o <<e>> /\ Plain(<<e>>)
  BY OneToken DEF Shape
<1> QED BY <1>1, PlainKeeps

(* Outside the scratch buffers and the payloads nothing is held.           *)
LEMMA NoHeld ==
  ASSUME Shape, signal = "call", ~InScratch
  PROVE  Held(stack, signal) = {}
<1>1. DOMAIN stack = 1..Len(stack) /\ Len(stack) \in Nat
  <2>1. stack \in Seq(ToSet(stack))
    BY DEF Shape, IsList
  <2> QED BY <2>1
<1> SUFFICES ASSUME NEW i \in 1..Len(stack), Saving(stack[i]), i < Len(stack) PROVE FALSE
  BY DEF Held, Waits
<1> QED BY <1>1 DEF InScratch, Saving

(* A value is written in its order, which the cell then holds.             *)
LEMMA OrderedKeeps ==
  ASSUME Shape, OrderFollows, Moves, signal = "call",
         NEW id, NEW v, NEW n, v.t = "text" \/ v.t = "int", ~OrderRefused(Node(id)),
         out' = Append(out, Token(id, v, n)), NoteOrder(Node(id), TRUE)
  PROVE  Shape' /\ OrderFollows'
<1> DEFINE e == Token(id, v, n)
<1>1. e.order = Node(id).order
  BY DEF Token
<1> HIDE DEF e
<1>2. CASE e.order = "none"
  BY <1>1, <1>2, TokenKeeps DEF NoteOrder, e
<1>3. CASE e.order # "none"
  <2>1. order' = e.order /\ unseen' = (unseen \/ InScratch \/ ~TRUE)
    BY <1>1, <1>3 DEF NoteOrder
  <2>2. IsList(out')
    BY ListAppend DEF Shape, e
  <2>3. OrderFollows'
    <3> SUFFICES ASSUME ~unseen' PROVE Buffered(stack', signal', out', order')
      BY DEF OrderFollows
    <3>1. ~unseen /\ ~InScratch
      BY <2>1
    <3>2. Held(stack, signal) = {} /\ Fits(out, order)
      BY <3>1, NoHeld DEF OrderFollows, Buffered
    <3>3. order = "none" \/ e.order = order \/ Bits(out) % 8 = 0
      BY <1>1, <1>3 DEF OrderRefused
    <3>4. Fits(Append(out, e), e.order)
      BY <1>3, <3>2, <3>3, OrderedAppend DEF Shape
    <3>5. Buffered(stack, signal, out', order')
      BY <2>1, <3>2, <3>4 DEF Buffered, e
    <3> QED BY <3>5, BuffersKept
  <2> QED BY <2>2, <2>3, ShapeKept
<1> QED BY <1>2, <1>3

(* A simple value is written or refused.                                   *)
LEMMA SimpleKeeps ==
  ASSUME Shape, OrderFollows, Moves, signal = "call", NEW id, NEW v, NEW n,
         \/ UNCHANGED <<out, order, unseen>>
         \/ UNCHANGED out /\ NoteOrder(Node(id), FALSE)
         \/ /\ ~OrderRefused(Node(id)) /\ Width(Node(id), v, n) # NoLength
            /\ out' = Append(out, Token(id, v, Width(Node(id), v, n))) /\ NoteOrder(Node(id), TRUE)
  PROVE  Shape' /\ OrderFollows'
<1>1. Width(Node(id), v, n) # NoLength => v.t = "text" \/ v.t = "int"
  BY DEF Width
<1>2. CASE UNCHANGED <<out, order, unseen>>
  BY <1>2, NothingKeeps
<1>3. CASE UNCHANGED out /\ NoteOrder(Node(id), FALSE)
  BY <1>3, NothingKeeps, NotedUnseen
<1>4. CASE /\ ~OrderRefused(Node(id)) /\ Width(Node(id), v, n) # NoLength
           /\ out' = Append(out, Token(id, v, Width(Node(id), v, n))) /\ NoteOrder(Node(id), TRUE)
  <2> DEFINE w == Width(Node(id), v, n)
  <2>1. /\ v.t = "text" \/ v.t = "int"
        /\ ~OrderRefused(Node(id)) /\ out' = Append(out, Token(id, v, w)) /\ NoteOrder(Node(id), TRUE)
    BY <1>1, <1>4
  <2> HIDE DEF w
  <2> QED BY <2>1, OrderedKeeps
<1> QED BY <1>2, <1>3, <1>4

----------------------------------------------------------------------------
(* Buffers of their own.                                                   *)

(* An empty buffer fits any order.                                         *)
LEMMA EmptyFits ==
  IsList(<<>>) /\ Plain(<<>>) /\ \A o : Fits(<<>>, o)
<1>1. <<>> \in Seq({}) /\ Len(<<>>) = 0
  OBVIOUS
<1>2. IsList(<<>>)
  BY <1>1, SomeList
<1>3. \A i : i \notin 1..Len(<<>>)
  BY <1>1
<1> QED BY <1>2, <1>3 DEF Plain, Fits, OnBytes, LastIs

(* The buffer is kept by the one that calls, and a new one is begun.       *)
LEMMA SaveKeeps ==
  ASSUME Shape, OccurrenceFollows, OrderFollows, stack # <<>>, signal = "call",
         NEW b, IsFrame(b), Saving(b), ~Counting(b), b.saved = out,
         NEW a, Bare(a), Push(Append(Under, b), a),
         out' = <<>>, UNCHANGED <<occurrence, order, unseen>>
  PROVE  Shape' /\ OccurrenceFollows' /\ OrderFollows'
<1>1. IsList(out')
  BY EmptyFits
<1>2. CASE Ends
  <2>1. Moves
    BY <1>2 DEF Moves
  <2>2. OccurrenceFollows'
    BY <1>2 DEF Ends, OccurrenceFollows
  <2>3. Held(stack', signal') = {}
    BY <1>2 DEF Ends, Held
  <2>4. OrderFollows'
    BY <2>3, EmptyFits DEF OrderFollows, Buffered
  <2> QED BY <1>1, <2>1, <2>2, <2>4, ShapeKept
<1>3. CASE Calls(b, a)
  <2>1. Shape'
    BY <1>1, <1>3, CallsShape, BareFacts
  <2>2. /\ Running(stack', signal') = Running(stack, signal)
        /\ Held(stack', signal') = Held(stack, signal) \union {Len(stack)}
        /\ \A i \in Running(stack, signal) \union Held(stack, signal) : i < Len(stack) /\ stack'[i] = stack[i]
        /\ stack'[Len(stack)] = b
    BY <1>3, CallsKeep
  <2>3. OccurrenceFollows'
    BY <2>2 DEF OccurrenceFollows, Innermost
  <2>4. OrderFollows'
    <3> SUFFICES ASSUME ~unseen PROVE Buffered(stack', signal', <<>>, order)
      BY DEF OrderFollows
    <3>1. Buffered(stack, signal, out, order)
      BY DEF OrderFollows
    <3>2. ASSUME NEW i \in Held(stack, signal)
          PROVE  Fits(stack'[i].saved, order) /\ \A j \in Held(stack', signal') : i < j => Plain(stack'[j].saved)
      <4>1. /\ stack'[i] = stack[i] /\ Fits(stack[i].saved, order) /\ Plain(out)
            /\ \A j \in Held(stack, signal) : i < j => Plain(stack[j].saved)
        BY <2>2, <3>1 DEF Buffered
      <4>2. ASSUME NEW j \in Held(stack, signal), i < j PROVE Plain(stack'[j].saved)
        BY <2>2, <4>1, <4>2
      <4>3. Plain(stack'[Len(stack)].saved)
        BY <2>2, <4>1
      <4> QED BY <2>2, <4>1, <4>2, <4>3
    <3>3. /\ Fits(stack'[Len(stack)].saved, order)
          /\ \A j \in Held(stack', signal') : Len(stack) < j => Plain(stack'[j].saved)
      <4>1. Len(stack) \in Nat /\ \A j \in Held(stack, signal) : j \in Nat
        BY UnderFacts DEF Held
      <4>2. \A j \in Held(stack', signal') : ~(Len(stack) < j)
        BY <2>2, <4>1
      <4> QED BY <2>2, <3>1, <4>2 DEF Buffered
    <3> QED BY <2>2, <3>2, <3>3, EmptyFits DEF Buffered
  <2> QED BY <2>1, <2>3, <2>4
<1> QED BY <1>2, <1>3 DEF Push, Ends, Calls

(* The one that returns has written nothing in an order, and the buffer it *)
(* kept is whole again.                                                    *)
LEMMA RestoreKeeps ==
  ASSUME Shape, Moves, signal # "call", Saving(Top), NEW o, Buffered(stack, signal, out, o)
  PROVE  IsList(Top.saved) /\ Plain(out) /\ Buffered(stack', signal', Top.saved, o)
<1>1. /\ stack # <<>> /\ Len(stack) \in Nat /\ Len(stack) > 0 /\ Top = stack[Len(stack)] /\ IsFrame(Top)
  BY UnderFacts DEF Moves
<1>2. Len(stack) \in Held(stack, signal)
  BY <1>1 DEF Held, Waits
<1>3. Plain(out) /\ Fits(Top.saved, o) /\ IsList(Top.saved)
  BY <1>1, <1>2 DEF Buffered, IsFrame
<1>4. CASE signal' # "overflow"
  <2>1. /\ Held(stack', signal') = Held(stack, signal) \intersect 1..(Len(stack) - 1)
        /\ \A i \in 1..(Len(stack) - 1) : stack'[i] = stack[i]
    BY <1>4, MovesKeep
  <2>2. \A i \in Held(stack', signal') : i \in Held(stack, signal) /\ i < Len(stack) /\ stack'[i] = stack[i]
    BY <1>1, <2>1
  <2>3. \A i \in Held(stack', signal') : Plain(Top.saved)
    BY <1>1, <1>2, <2>2 DEF Buffered
  <2> QED BY <1>3, <2>2, <2>3 DEF Buffered
<1>5. CASE signal' = "overflow"
  <2>1. stack' = <<>>
    <3>1. ~Pops /\ ~(\E b : Sets(b)) /\ ~(\E b, c : Calls(b, c))
      BY <1>5 DEF Pops, Sets, Calls
    <3> QED BY <3>1 DEF Moves, Ends
  <2>2. Held(stack', signal') = {}
    BY <2>1 DEF Held
  <2> QED BY <1>3, <2>2 DEF Buffered
<1> QED BY <1>4, <1>5, <1>3

(* An item is entered with its occurrence.                                 *)
LEMMA EnterKeeps ==
  ASSUME Shape, OrderFollows, stack # <<>>, signal = "call", Counting(Top), ~Saving(Top),
         NEW a, Bare(a), Call(a), occurrence' = <<Top.i, Len(Top.s)>>, UNCHANGED <<out, order, unseen>>
  PROVE  Shape' /\ OccurrenceFollows' /\ OrderFollows'
<1>1. stack = Append(Under, Top) /\ IsFrame(Top) /\ Len(stack) \in Nat /\ Top = stack[Len(stack)]
  BY UnderFacts
<1>2. CASE Ends
  <2>1. Moves
    BY <1>2 DEF Moves
  <2>2. OccurrenceFollows'
    BY <1>2 DEF Ends, OccurrenceFollows
  <2> QED BY <2>1, <2>2, NothingKeeps
<1>3. CASE Calls(Top, a)
  <2>1. Shape'
    BY <1>1, <1>3, CallsShape, BareFacts DEF Shape
  <2>2. /\ Running(stack', signal') = Running(stack, signal) \union {Len(stack)}
        /\ Held(stack', signal') = Held(stack, signal)
        /\ \A i \in Running(stack, signal) \union Held(stack, signal) : i < Len(stack) /\ stack'[i] = stack[i]
        /\ stack'[Len(stack)] = Top
    BY <1>3, CallsKeep
  <2>3. \A i \in Running(stack', signal') : i <= Len(stack)
    BY <1>1, <2>2 DEF Running
  <2>4. OccurrenceFollows'
    BY <2>2, <2>3 DEF OccurrenceFollows, Innermost
  <2>5. OrderFollows'
    BY <2>2 DEF OrderFollows, Buffered
  <2> QED BY <2>1, <2>4, <2>5
<1> QED BY <1>1, <1>2, <1>3 DEF Call, Push, Ends, Calls

----------------------------------------------------------------------------
(* The steps that write, one by one.                                       *)

(* What they keep.                                                         *)
Cells == Shape /\ OccurrenceFollows /\ OrderFollows

(* The next item, and the one that keeps a buffer.                         *)
LEMMA ItemFrames ==
  ASSUME Shape, stack # <<>>, Top.fn = "items"
  PROVE  /\ IsFrame(NextItem)
         /\ \A s : IsList(s) =>
              /\ IsFrame([NextItem EXCEPT !.saved = s]) /\ IsFrame([Top EXCEPT !.saved = s])
              /\ [Top EXCEPT !.saved = s].saved = s
              /\ [Top EXCEPT !.saved = s].fn = "items" /\ [Top EXCEPT !.saved = s].how = Top.how
<1>1. IsFrame(Top) /\ {"fn", "how", "saved"} \subseteq DOMAIN Top
  BY UnderFacts DEF IsFrame
<1>2. IsFrame(NextItem)
  BY <1>1 DEF IsFrame, NextItem, Saving
<1>3. ASSUME NEW s, IsList(s), NEW a, IsFrame(a), {"fn", "how", "saved"} \subseteq DOMAIN a, a.fn = "items"
      PROVE  /\ IsFrame([a EXCEPT !.saved = s]) /\ [a EXCEPT !.saved = s].saved = s
             /\ [a EXCEPT !.saved = s].fn = "items" /\ [a EXCEPT !.saved = s].how = a.how
  BY <1>3 DEF IsFrame, Saving
<1>4. NextItem.fn = "items" /\ {"fn", "how", "saved"} \subseteq DOMAIN NextItem
  BY <1>1 DEF NextItem
<1> QED BY <1>1, <1>2, <1>3, <1>4

(* A simple item.                                                          *)
LEMMA SimpleItemKeeps ==
  ASSUME Cells, SimpleItem
  PROVE  Cells'
<1> DEFINE w == Width(Node(Top.id), Top.s[Top.i], Top.length)
<1>1. stack # <<>> /\ Top.fn = "items" /\ signal = "call" /\ occurrence' = occurrence
  BY DEF SimpleItem, Calling
<1>2. \/ \E e : Throw(e) /\ UNCHANGED <<out, order, unseen>>
      \/ /\ stack' = Append(Under, NextItem) /\ signal' = signal
         /\ ~OrderRefused(Node(Top.id)) /\ w # NoLength
         /\ out' = Append(out, Token(Top.id, Top.s[Top.i], w)) /\ NoteOrder(Node(Top.id), TRUE)
  BY DEF SimpleItem, WriteSimple
<1>3. Moves
  BY <1>1, <1>2, ItemFrames, ReturnMoves, SetMoves DEF Cells
<1>4. Shape' /\ OrderFollows'
  <2> HIDE DEF w
  <2>1. CASE UNCHANGED <<out, order, unseen>>
    BY <1>1, <1>3, <2>1, NothingKeeps DEF Cells
  <2>2. CASE /\ ~OrderRefused(Node(Top.id)) /\ w # NoLength
             /\ out' = Append(out, Token(Top.id, Top.s[Top.i], w)) /\ NoteOrder(Node(Top.id), TRUE)
    BY <1>1, <1>3, <2>2, SimpleKeeps DEF Cells, w
  <2> QED BY <1>2, <2>1, <2>2
<1>5. OccurrenceFollows'
  BY <1>1, <1>3, FreshKept DEF Cells
<1> QED BY <1>4, <1>5 DEF Cells

(* An item of an unframed complex element.                                 *)
LEMMA OccurrenceItemKeeps ==
  ASSUME Cells, OccurrenceItem
  PROVE  Cells'
<1>1. stack # <<>> /\ Top.fn = "items" /\ signal = "call" /\ Top.how = "occurrence"
  BY DEF OccurrenceItem, Calling
<1>2. CASE \E a : Bare(a) /\ Call(a) /\ occurrence' = <<Top.i, Len(Top.s)>> /\ UNCHANGED <<out, order, unseen>>
  BY <1>1, <1>2, EnterKeeps DEF Cells, Counting, Saving
<1>3. CASE occurrence' = occurrence /\ \E e : Throw(e) /\ UNCHANGED <<out, order, unseen>>
  <2>1. Moves
    BY <1>1, <1>3, ReturnMoves
  <2> QED BY <1>1, <1>3, <2>1, NothingKeeps, FreshKept DEF Cells
<1>4. CASE /\ occurrence' = occurrence /\ out' = Append(out, Token(Top.id, Null, 8))
           /\ stack' = Append(Under, NextItem) /\ NoteOrder(Node(Top.id), FALSE) /\ signal' = signal
  <2>1. Moves
    BY <1>1, <1>4, ItemFrames, SetMoves DEF Cells
  <2>2. Token(Top.id, Null, 8).order = "none"
    BY PlainTokens
  <2>3. unseen' \/ (order' = order /\ unseen' = unseen)
    BY <1>4, NotedUnseen
  <2> QED BY <1>1, <1>4, <2>1, <2>2, <2>3, TokenKeeps, FreshKept DEF Cells
<1>5. Bare(ANode(Node(Top.id).kids[1], Top.s[Top.i], Top.scope))
  BY NewFrames
<1> QED BY <1>2, <1>3, <1>4, <1>5 DEF OccurrenceItem, WriteNil, Context

(* A framed item: its payload is begun, or a nil one is framed at once.    *)
LEMMA FramedItemKeeps ==
  ASSUME Cells, FramedItem
  PROVE  Cells'
<1>1. /\ stack # <<>> /\ Top.fn = "items" /\ signal = "call" /\ Top.how = "framed"
      /\ UNCHANGED <<occurrence, order, unseen>>
  BY DEF FramedItem, Calling
<1> DEFINE v == Framed(Top.id, Top.length, <<Token(Top.id, Null, 8)>>)
           b == [Top EXCEPT !.saved = out]
           a == ANode(Node(Top.id).kids[1], Top.s[Top.i], Top.scope)
<1>2. CASE \E e : Throw(e) /\ UNCHANGED out
  <2>1. Moves
    BY <1>1, <1>2, ReturnMoves
  <2> QED BY <1>1, <1>2, <2>1, NothingKeeps, FreshKept DEF Cells
<1>3. CASE out' = out \o v /\ stack' = Append(Under, NextItem) /\ signal' = signal
  <2>1. Moves
    BY <1>1, <1>3, ItemFrames, SetMoves DEF Cells
  <2>2. IsList(v) /\ Plain(v)
    <3> DEFINE e == Token(Top.id, Null, 8)
    <3>1. e.order = "none"
      BY PlainTokens
    <3> HIDE DEF e
    <3>2. IsList(<<e>>) /\ Plain(<<e>>)
      BY <3>1, OneToken DEF Cells, Shape
    <3> QED BY <3>2, FramedPlain DEF e
  <2> HIDE DEF v
  <2> QED BY <1>1, <1>3, <2>1, <2>2, PlainKeeps, FreshKept DEF Cells
<1>4. CASE CallFrom(b, a) /\ out' = <<>>
  <2>1. IsFrame(b) /\ b.saved = out /\ b.fn = "items" /\ b.how = "framed"
    BY <1>1, ItemFrames DEF Cells, Shape
  <2>2. Bare(a)
    BY NewFrames
  <2>3. Push(Append(Under, b), a)
    BY <1>4 DEF CallFrom
  <2> HIDE DEF b, a
  <2> QED BY <1>1, <1>4, <2>1, <2>2, <2>3, SaveKeeps DEF Cells, Saving, Counting
<1> QED BY <1>2, <1>3, <1>4 DEF FramedItem

(* What an item returns to.                                                *)
LEMMA ItemReturnsKeeps ==
  ASSUME Cells, ItemReturns
  PROVE  Cells'
<1>1. stack # <<>> /\ Top.fn = "items" /\ signal = "ok"
  BY DEF ItemReturns, Returned
<1>2. CASE /\ Top.how = "framed" /\ UNCHANGED <<out, occurrence, order, unseen>>
           /\ \E e : Throw(e)
  <2>1. Moves
    BY <1>1, <1>2, ReturnMoves
  <2> QED BY <1>1, <1>2, <2>1, NothingKeeps, FreshKept DEF Cells, Counting
<1>3. CASE /\ Top.how = "framed" /\ UNCHANGED <<occurrence, order, unseen>>
           /\ stack' = Append(Under, [NextItem EXCEPT !.saved = <<>>]) /\ signal' = "call"
           /\ out' = Top.saved \o Framed(Top.id, Top.length, out)
  <2> DEFINE v == Framed(Top.id, Top.length, out)
  <2>1. Moves
    BY <1>1, <1>3, ItemFrames, EmptyFits, SetMoves DEF Cells
  <2>2. OccurrenceFollows'
    BY <1>1, <1>3, <2>1, FreshKept DEF Cells, Counting
  <2>3. IsList(v) /\ (Plain(out) => Plain(v))
    BY FramedPlain DEF Cells, Shape
  <2> HIDE DEF v
  <2>4. IsList(Top.saved)
    BY <1>1, <1>3, UnderFacts DEF Cells, IsFrame, Saving
  <2>5. Shape'
    BY <1>3, <2>1, <2>3, <2>4, ListConcat, ShapeKept DEF Cells, v
  <2>6. OrderFollows'
    <3> SUFFICES ASSUME ~unseen PROVE Buffered(stack', signal', Top.saved \o v, order)
      BY <1>3 DEF OrderFollows, v
    <3>1. Buffered(stack, signal, out, order)
      BY DEF Cells, OrderFollows
    <3>2. Plain(out) /\ Buffered(stack', signal', Top.saved, order)
      BY <1>1, <1>3, <2>1, <3>1, RestoreKeeps DEF Cells, Saving
    <3> QED BY <2>3, <2>4, <3>2, PlainWrites
  <2> QED BY <2>2, <2>5, <2>6 DEF Cells
<1>4. CASE /\ stack' = Append(Under, NextItem) /\ signal' = "call" /\ occurrence' = NoOccurrence
           /\ NoteOrder(Node(Top.id), FALSE) /\ out' = out
  <2>1. Moves
    BY <1>1, <1>4, ItemFrames, SetMoves DEF Cells
  <2>2. OccurrenceFollows'
    BY <1>4 DEF OccurrenceFollows
  <2>3. unseen' \/ (order' = order /\ unseen' = unseen)
    BY <1>4, NotedUnseen
  <2> QED BY <1>4, <2>1, <2>2, <2>3, NothingKeeps DEF Cells
<1> QED BY <1>2, <1>3, <1>4 DEF ItemReturns, AfterItem

(* An item that fails.                                                     *)
LEMMA ItemFailedKeeps ==
  ASSUME Cells, ItemFailed
  PROVE  Cells'
<1>1. stack # <<>> /\ Top.fn = "items" /\ Throw(val) /\ UNCHANGED <<out, order, unseen>>
  BY DEF ItemFailed, Failed
<1>2. Moves
  BY <1>1, ReturnMoves
<1>3. Shape' /\ OrderFollows'
  BY <1>1, <1>2, NothingKeeps DEF Cells
<1>4. CASE Top.how = "occurrence"
  <2>1. occurrence' = NoOccurrence
    BY <1>4 DEF ItemFailed, AfterItem
  <2> QED BY <1>3, <2>1 DEF Cells, OccurrenceFollows
<1>5. CASE Top.how # "occurrence"
  <2>1. occurrence' = occurrence
    BY <1>5 DEF ItemFailed
  <2> QED BY <1>2, <1>3, <1>5, <2>1, FreshKept DEF Cells, Counting
<1> QED BY <1>4, <1>5

(* The length of a value is measured in a buffer of its own.               *)
LEMMA MeasureKeeps ==
  ASSUME Cells, Measure
  PROVE  Cells'
<1>1. /\ stack # <<>> /\ Top.fn = "measure" /\ signal = "call"
      /\ UNCHANGED <<occurrence, order, unseen>>
  BY DEF Measure, Calling
<1>2. CASE out' = out /\ \E v : Return(v) \/ Throw(v)
  <2>1. Moves
    BY <1>1, <1>2, ReturnMoves
  <2> QED BY <1>1, <1>2, <2>1, NothingKeeps, FreshKept DEF Cells
<1>3. CASE out' = <<>> /\ \E x, y, z : CallFrom([Top EXCEPT !.saved = out], ANode(x, y, z))
  <2> DEFINE b == [Top EXCEPT !.saved = out]
  <2>1. PICK a : Bare(a) /\ CallFrom(b, a)
    BY <1>3, NewFrames
  <2>2. IsFrame(b) /\ b.saved = out /\ b.fn = "measure"
    <3>1. IsFrame(Top) /\ {"fn", "saved"} \subseteq DOMAIN Top /\ IsList(out)
      BY <1>1, UnderFacts DEF Cells, Shape, IsFrame
    <3> QED BY <1>1, <3>1 DEF IsFrame
  <2> HIDE DEF b
  <2>3. Push(Append(Under, b), a)
    BY <2>1 DEF CallFrom
  <2> QED BY <1>1, <1>3, <2>1, <2>2, <2>3, SaveKeeps DEF Cells, Saving, Counting
<1> QED BY <1>2, <1>3 DEF Measure

(* The scratch buffer is dropped, whether it was written or not.           *)
LEMMA MeasuredKeeps ==
  ASSUME Cells, Measured \/ MeasureFailed
  PROVE  Cells'
<1>1. /\ stack # <<>> /\ Top.fn = "measure" /\ signal # "call" /\ out' = Top.saved
      /\ UNCHANGED <<occurrence, order, unseen>> /\ \E v : Return(v) \/ Throw(v)
  BY DEF Measured, MeasureFailed, Returned, Failed
<1>2. Moves
  BY <1>1, ReturnMoves
<1>3. IsList(Top.saved)
  BY <1>1, UnderFacts DEF Cells, IsFrame, Saving
<1>4. Shape'
  BY <1>1, <1>2, <1>3, ShapeKept DEF Cells
<1>5. OccurrenceFollows'
  BY <1>1, <1>2, FreshKept DEF Cells, Counting
<1>6. OrderFollows'
  <2> SUFFICES ASSUME ~unseen PROVE Buffered(stack', signal', Top.saved, order)
    BY <1>1 DEF OrderFollows
  <2>1. Buffered(stack, signal, out, order)
    BY DEF Cells, OrderFollows
  <2> QED BY <1>1, <1>2, <2>1, RestoreKeeps DEF Cells, Saving
<1> QED BY <1>4, <1>5, <1>6 DEF Cells

(* An element's items are written next, or its nil value now.              *)
LEMMA ParticleWriteKeeps ==
  ASSUME Cells, ParticleWrite
  PROVE  Cells'
<1>1. stack # <<>> /\ signal = "call" /\ occurrence' = occurrence
  BY DEF ParticleWrite, Calling
<1>2. CASE /\ UNCHANGED <<out, order, unseen>>
           /\ \/ \E v : Return(v) \/ Throw(v)
              \/ \E x, y, z, h, l : Become(AItems(x, y, z, h, l))
  <2>1. Moves
    BY <1>1, <1>2, ReturnMoves, BecomeMoves, KeepingFrames
  <2> QED BY <1>1, <1>2, <2>1, NothingKeeps, FreshKept DEF Cells
<1>3. CASE /\ UNCHANGED <<order, unseen>> /\ out' = Append(out, Token(Top.id, Null, 8))
           /\ Return(Null)
  <2>1. Moves
    BY <1>1, <1>3, ReturnMoves
  <2>2. Token(Top.id, Null, 8).order = "none"
    BY PlainTokens
  <2> QED BY <1>1, <1>3, <2>1, <2>2, TokenKeeps, FreshKept DEF Cells
<1> QED BY <1>2, <1>3 DEF ParticleWrite, WriteNil

(* An element outside a sequence.                                          *)
LEMMA NodeElementKeeps ==
  ASSUME Cells, NodeElement
  PROVE  Cells'
<1> DEFINE w == Width(Node(Top.id), Top.value, Node(Top.id).length)
<1>1. stack # <<>> /\ signal = "call" /\ occurrence' = occurrence
  BY DEF NodeElement, Calling
<1>2. CASE /\ UNCHANGED <<out, order, unseen>>
           /\ \/ \E v : Throw(v)
              \/ \E x, y, z, h, l : Become(AItems(x, y, z, h, l))
  <2>1. Moves
    BY <1>1, <1>2, ReturnMoves, BecomeMoves, KeepingFrames
  <2> QED BY <1>1, <1>2, <2>1, NothingKeeps, FreshKept DEF Cells
<1>3. CASE /\ UNCHANGED <<order, unseen>> /\ out' = Append(out, Token(Top.id, Null, 8))
           /\ Return(Null)
  <2>1. Moves
    BY <1>1, <1>3, ReturnMoves
  <2>2. Token(Top.id, Null, 8).order = "none"
    BY PlainTokens
  <2> QED BY <1>1, <1>3, <2>1, <2>2, TokenKeeps, FreshKept DEF Cells
<1>4. CASE Throw("value") /\ UNCHANGED out /\ NoteOrder(Node(Top.id), FALSE)
  <2>1. Moves
    BY <1>1, <1>4, ReturnMoves
  <2> QED BY <1>1, <1>4, <2>1, NothingKeeps, NotedUnseen, FreshKept DEF Cells
<1>5. CASE /\ ~OrderRefused(Node(Top.id)) /\ w # NoLength /\ Return(Null)
           /\ out' = Append(out, Token(Top.id, Top.value, w)) /\ NoteOrder(Node(Top.id), TRUE)
  <2>1. Moves
    BY <1>1, <1>5, ReturnMoves
  <2>2. Shape' /\ OrderFollows'
    BY <1>1, <1>5, <2>1, SimpleKeeps DEF Cells
  <2> QED BY <1>1, <2>1, <2>2, FreshKept DEF Cells
<1> QED BY <1>2, <1>3, <1>4, <1>5 DEF NodeElement, WriteNil, WriteSimple

(* A branch is padded to the length of its choice.                         *)
LEMMA BranchReturnsKeeps ==
  ASSUME Cells, BranchReturns
  PROVE  Cells'
<1>1. /\ stack # <<>> /\ Top.fn = "branch" /\ UNCHANGED <<occurrence, order, unseen>>
      /\ \E v : Return(v) \/ Throw(v)
  BY DEF BranchReturns, Returned
<1>2. Moves
  BY <1>1, ReturnMoves
<1>3. OccurrenceFollows'
  BY <1>1, <1>2, FreshKept DEF Cells, Counting
<1>4. out' = out \/ \E n : out' = Append(out, Token(Top.id, Filler("pad"), n))
  BY DEF BranchReturns
<1>5. \A n : Token(Top.id, Filler("pad"), n).order = "none"
  BY PlainTokens
<1>6. Shape' /\ OrderFollows'
  BY <1>1, <1>2, <1>4, <1>5, NothingKeeps, TokenKeeps DEF Cells
<1> QED BY <1>3, <1>6 DEF Cells

----------------------------------------------------------------------------
(* Every step.                                                             *)

(* A stack of one frame, with nothing written.                             *)
LEMMA FreshEncode ==
  ASSUME NEW a, Bare(a)
  PROVE  /\ IsList(<<a>>) /\ (\A i \in 1..Len(<<a>>) : IsFrame(<<a>>[i]))
         /\ IsList(<<>>) /\ Held(<<a>>, "call") = {} /\ \A o : Buffered(<<a>>, "call", <<>>, o)
<1>1. <<a>> \in Seq({a}) /\ Len(<<a>>) = 1 /\ <<a>>[1] = a
  OBVIOUS
<1>2. IsList(<<a>>) /\ \A i \in 1..Len(<<a>>) : IsFrame(<<a>>[i])
  <2>1. IsList(<<a>>)
    BY <1>1, SomeList
  <2>2. IsFrame(a) /\ \A i \in 1..Len(<<a>>) : <<a>>[i] = a
    BY <1>1, BareFacts
  <2> QED BY <2>1, <2>2
<1>3. Held(<<a>>, "call") = {}
  BY <1>1, BareFacts DEF Held
<1> QED BY <1>2, <1>3, EmptyFits DEF Buffered

(* The first encode begins with the cells empty.                           *)
LEMMA InitCells == Init => Cells
<1> SUFFICES ASSUME Init PROVE Cells
  OBVIOUS
<1> DEFINE a == ANode(Root, infoset, NoFields)
<1>1. Bare(a)
  BY NewFrames
<1>2. stack = <<a>> /\ signal = "call" /\ out = <<>> /\ occurrence = NoOccurrence
  BY DEF Init
<1> HIDE DEF a
<1> QED BY <1>1, <1>2, FreshEncode DEF Cells, Shape, OccurrenceFollows, OrderFollows

(* Between two encodes no item is running, so no occurrence is set.        *)
LEMMA NextEncodeKeeps ==
  ASSUME Cells, NextEncode
  PROVE  Cells'
<1> DEFINE a == ANode(Root, infoset', NoFields)
<1>1. Bare(a)
  BY NewFrames
<1>2. stack' = <<a>> /\ signal' = "call" /\ out' = <<>> /\ occurrence' = occurrence
  BY DEF NextEncode
<1>3. occurrence = NoOccurrence
  <2>1. Running(stack, signal) = {}
    BY DEF NextEncode, Running
  <2> QED BY <2>1 DEF Cells, OccurrenceFollows, Innermost, NextEncode
<1> HIDE DEF a
<1> QED BY <1>1, <1>2, <1>3, FreshEncode DEF Cells, Shape, OccurrenceFollows, OrderFollows

(* Every step keeps the three invariants.                                  *)
LEMMA NextKeeps ==
  ASSUME Cells, [Next]_vars
  PROVE  Cells'
<1>1. CASE UNCHANGED vars
  BY <1>1 DEF vars, Cells, Shape, OccurrenceFollows, OrderFollows, Buffered
<1>2. ASSUME Moves, Idle, Quiet PROVE Cells'
  BY <1>2, QuietKeeps DEF Cells
<1>3. CASE \/ SequenceReady \/ SequenceChild \/ ChildReturns
  BY <1>2, <1>3, SequenceMoves DEF Cells, SequenceReady, SequenceChild, ChildReturns
<1>4. CASE ParticleValue \/ ParticleComputed \/ ParticleCount \/ ParticleCounted \/ ParticleSequence
  BY <1>2, <1>4, ParticleMoves
     DEF Cells, ParticleValue, ParticleComputed, ParticleCount, ParticleCounted, ParticleSequence
<1>5. CASE ParticleChoice \/ NodeChoice \/ NodeSequence
  BY <1>2, <1>5, ChoiceMoves DEF Cells, ParticleChoice, NodeChoice, NodeSequence
<1>6. CASE EvalEntry
  BY <1>2, <1>6, EvalEntryMoves DEF Cells, EvalEntry
<1>7. CASE EntryComputed \/ EntryFailed \/ PassDone
  BY <1>2, <1>7, EntryMoves DEF Cells, EntryComputed, EntryFailed, PassDone
<1>8. CASE EvalCalc \/ EvalReturns
  BY <1>2, <1>8, EvalMoves DEF Cells, EvalCalc, EvalReturns
<1>9. CASE Resolve \/ ResolveReturns
  BY <1>2, <1>9, ResolveMoves DEF Cells, Resolve, ResolveReturns
<1>10. CASE Synthesize \/ SynthReturns
  BY <1>2, <1>10, SynthMoves DEF Cells, Synthesize, SynthReturns
<1>11. CASE ItemsDone \/ Unwind
  BY <1>2, <1>11, OtherMoves DEF Cells, ItemsDone, Unwind
<1>12. CASE NextEncode
  BY <1>12, NextEncodeKeeps
<1>13. CASE NodeElement \/ ParticleWrite \/ BranchReturns
  BY <1>13, NodeElementKeeps, ParticleWriteKeeps, BranchReturnsKeeps
<1>14. CASE SimpleItem \/ OccurrenceItem \/ FramedItem \/ ItemReturns \/ ItemFailed
  BY <1>14, SimpleItemKeeps, OccurrenceItemKeeps, FramedItemKeeps, ItemReturnsKeeps, ItemFailedKeeps
<1>15. CASE Measure \/ Measured \/ MeasureFailed
  BY <1>15, MeasureKeeps, MeasuredKeeps
<1> QED BY <1>1, <1>3, <1>4, <1>5, <1>6, <1>7, <1>8, <1>9, <1>10, <1>11, <1>12, <1>13, <1>14, <1>15 DEF Next

(* The three invariants hold of every state of the encoder.                *)
LEMMA CellsHold == Spec => []Cells
<1>1. Init => Cells
  BY InitCells
<1>2. Cells /\ [Next]_vars => Cells'
  BY NextKeeps
<1> QED BY <1>1, <1>2, PTL DEF Spec

(* Whatever the schema and the infoset, an expression sees the occurrence  *)
(* of the innermost item that is being encoded, or none: the cell is set   *)
(* when an item is entered and cleared on each way out of it, also on      *)
(* errors and out of the scratch encodes that measure a length.            *)
THEOREM OccurrenceIsFresh == Spec => []OccurrenceFresh
<1>1. Cells => OccurrenceFresh
  <2> SUFFICES ASSUME Cells, signal # "overflow", occurrence # NoOccurrence
               PROVE  /\ Running(stack, signal) # {}
                      /\ LET a == stack[CHOOSE i \in Running(stack, signal) : \A j \in Running(stack, signal) : i >= j]
                         IN  occurrence = <<a.i, Len(a.s)>>
    <3>1. DOMAIN stack = 1..Len(stack)
      <4>1. Cells => stack \in Seq(ToSet(stack))
        BY DEF Cells, Shape, IsList
      <4> QED BY <4>1
    <3> QED BY <3>1 DEF OccurrenceFresh, Running, Counting, Waits
  <2> DEFINE R == Running(stack, signal)
  <2>1. PICK i \in R : occurrence = <<stack[i].i, Len(stack[i].s)>> /\ \A j \in R : j <= i
    BY DEF Cells, OccurrenceFollows, Innermost
  <2>2. \A j \in R : j \in Int
    BY DEF Running
  <2> HIDE DEF R
  <2> DEFINE c == CHOOSE k \in R : \A j \in R : k >= j
  <2>3. c \in R /\ \A j \in R : c >= j
    BY <2>1, <2>2
  <2> HIDE DEF c
  <2>4. c = i
    BY <2>1, <2>2, <2>3
  <2> QED BY <2>1, <2>4 DEF R, c
<1> QED BY <1>1, CellsHold, PTL

(* Whatever the schema and the infoset, the bit order changes on a byte    *)
(* boundary of the output, through scratch buffers and payloads that are   *)
(* begun, framed and dropped, as long as every order noted is that of a    *)
(* value in the output.                                                    *)
THEOREM OrdersChangeOnBytes == Spec => []OrderChangesOnBytes
<1>1. Cells => OrderChangesOnBytes
  <2> SUFFICES ASSUME Cells, ~unseen PROVE OnBytes(out)
    <3>1. Cells => DOMAIN out = 1..Len(out)
      <4>1. Cells => out \in Seq(ToSet(out))
        BY DEF Cells, Shape, IsList
      <4> QED BY <4>1
    <3> QED BY <3>1 DEF OrderChangesOnBytes, OnBytes
  <2> QED BY DEF Cells, OrderFollows, Buffered, Fits
<1> QED BY <1>1, CellsHold, PTL

=============================================================================
