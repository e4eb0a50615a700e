--------------------------- MODULE Decoder_proofs ---------------------------
(***************************************************************************)
(* Theorems about Decoder, for every program, every number of variables,   *)
(* every length of input and every number of decodes.                      *)
(***************************************************************************)
EXTENDS Decoder, SequenceTheorems, TLAPS

----------------------------------------------------------------------------
(* Sequences used as stacks.                                               *)

(* Pop keeps all but the last element.                                     *)
LEMMA PopFacts ==
  ASSUME NEW S, NEW s \in Seq(S), s # <<>>
  PROVE  /\ Pop(s) \in Seq(S)
         /\ Len(Pop(s)) = Len(s) - 1
         /\ \A k \in 1..(Len(s) - 1) : Pop(s)[k] = s[k]
<1>1. Len(s) \in Nat \ {0} /\ \A k \in 1..Len(s) : s[k] \in S
  BY EmptySeq, ElementOfSeq
<1>2. \A k \in 1..(Len(s) - 1) : s[k] \in S
  BY <1>1
<1>3. /\ Pop(s) \in Seq(S)
      /\ Len(Pop(s)) = IF 1 <= Len(s) - 1 THEN Len(s) - 1 - 1 + 1 ELSE 0
      /\ \A k \in 1..(Len(s) - 1 - 1 + 1) : Pop(s)[k] = s[1 + k - 1]
  <2> DEFINE n == Len(s) - 1
  <2>1. n \in Int /\ \A k \in 1..n : s[k] \in S
    BY <1>1, <1>2
  <2> HIDE DEF n
  <2>2. /\ SubSeq(s, 1, n) \in Seq(S)
        /\ Len(SubSeq(s, 1, n)) = IF 1 <= n THEN n - 1 + 1 ELSE 0
        /\ \A k \in 1..(n - 1 + 1) : SubSeq(s, 1, n)[k] = s[1 + k - 1]
    BY <2>1, SubSeqProperties
  <2>3. QED
    BY <2>2 DEF Pop, n
<1>4. Len(Pop(s)) = Len(s) - 1
  <2>1. \A L \in Nat \ {0} : (IF 1 <= L - 1 THEN L - 1 - 1 + 1 ELSE 0) = L - 1
    OBVIOUS
  <2>2. QED
    BY <1>1, <1>3, <2>1
<1>5. \A k \in 1..(Len(s) - 1) : k \in 1..(Len(s) - 1 - 1 + 1) /\ 1 + k - 1 = k
  BY <1>1
<1>6. ASSUME NEW k \in 1..(Len(s) - 1)
      PROVE  Pop(s)[k] = s[k]
  <2>1. Pop(s)[k] = s[1 + k - 1]
    BY <1>3, <1>5
  <2>2. QED
    BY <1>5, <2>1
<1>7. QED
  BY <1>3, <1>4, <1>6

(* Popping keeps the type, of the empty stack too.                         *)
LEMMA PopType ==
  ASSUME NEW S, NEW s \in Seq(S)
  PROVE  Pop(s) \in Seq(S)
<1>1. CASE s # <<>>
  BY <1>1, PopFacts
<1>2. CASE s = <<>>
  <2>1. Len(s) - 1 < 1 /\ Len(s) - 1 \in Int
    BY <1>2
  <2>2. Pop(s) = <<>>
    BY <2>1, SubSeqEmpty DEF Pop
  <2>3. QED
    BY <2>2
<1>3. QED
  BY <1>1, <1>2

(* The innermost activation, and replacing it.                             *)
LEMMA TopFacts ==
  ASSUME calls \in Seq(Activation), calls # <<>>
  PROVE  /\ Len(calls) \in Nat \ {0}
         /\ DOMAIN calls = 1..Len(calls)
         /\ Top = calls[Len(calls)]
         /\ Top \in Activation
<1>1. Len(calls) \in Nat \ {0} /\ DOMAIN calls = 1..Len(calls)
  BY EmptySeq, LenProperties
<1>2. QED
  BY <1>1, ElementOfSeq DEF Top

LEMMA SetTopFacts ==
  ASSUME calls \in Seq(Activation), calls # <<>>, NEW a \in Activation
  PROVE  /\ SetTop(a) \in Seq(Activation)
         /\ Len(SetTop(a)) = Len(calls)
         /\ SetTop(a)[Len(calls)] = a
         /\ \A k \in 1..(Len(calls) - 1) : SetTop(a)[k] = calls[k]
<1>1. Len(calls) \in Nat \ {0} /\ DOMAIN calls = 1..Len(calls)
  BY TopFacts
<1>2. \A m \in Nat \ {0} : m \in 1..m /\ \A k \in 1..(m - 1) : k \in 1..m /\ k # m
  OBVIOUS
<1>3. SetTop(a) \in Seq(Activation) /\ Len(SetTop(a)) = Len(calls)
      /\ \A k \in 1..Len(calls) : SetTop(a)[k] = IF k = Len(calls) THEN a ELSE calls[k]
  BY <1>1, ExceptSeq DEF SetTop
<1>4. SetTop(a)[Len(calls)] = a
  BY <1>1, <1>2, <1>3
<1>5. ASSUME NEW k \in 1..(Len(calls) - 1)
      PROVE  SetTop(a)[k] = calls[k]
  BY <1>1, <1>2, <1>3
<1>6. QED
  BY <1>3, <1>4, <1>5

----------------------------------------------------------------------------
(* Types of the operators.                                                 *)

LEMMA ActivateType ==
  ASSUME NEW op \in {"call", "sequence", "choice", "occurrences", "stuck", "single"},
         NEW n \in Node, NEW e \in Env
  PROVE  Activate(op, n, e) \in Activation
  BY DEF Activate, Activation

LEMMA PushType ==
  ASSUME NEW s \in Seq(Frame), NEW k \in {"Choice", "Occurrence"}
  PROVE  /\ Push(s, k) \in Seq(Frame)
         /\ Len(Push(s, k)) = Len(s) + 1
         /\ \A f \in 1..Len(s) : Push(s, k)[f] = s[f]
         /\ Push(s, k)[Len(s) + 1].kind = k
<1> DEFINE new == [kind |-> k, committed |-> FALSE]
<1>1. new \in Frame
  BY DEF Frame
<1>2. QED
  BY <1>1 DEF Push

LEMMA CommitType ==
  ASSUME NEW s \in Seq(Frame)
  PROVE  /\ CommitNearest(s) \in Seq(Frame)
         /\ Len(CommitNearest(s)) = Len(s)
         /\ \A f \in 1..Len(s) : CommitNearest(s)[f].kind = s[f].kind
<1> DEFINE R(k) == [kind |-> s[k].kind, committed |-> s[k].committed \/ k \in Reached(s)]
<1>1. DOMAIN s = 1..Len(s) /\ Len(s) \in Nat
  BY LenProperties
<1>2. \A k \in 1..Len(s) : s[k] \in Frame
  BY ElementOfSeq
<1>3. \A k \in 1..Len(s) : R(k) \in Frame
  BY <1>2 DEF Frame
<1>4. CommitNearest(s) = [k \in 1..Len(s) |-> R(k)]
  BY <1>1 DEF CommitNearest
<1>5. [k \in 1..Len(s) |-> R(k)] \in Seq(Frame)
  <2> HIDE DEF R
  <2>1. QED
    BY <1>1, <1>3, IsASeq
<1>6. QED
  BY <1>1, <1>4, <1>5

(* The variable tables that scopes and setVariable lead to.                *)
LEMMA AssignType ==
  ASSUME NEW f \in [Var -> Val], NEW D \in SUBSET Var, NEW g \in [D -> Val]
  PROVE  Assign(f, g) \in [Var -> Val]
BY DEF Assign

LEMMA PartialType ==
  ASSUME NEW vs \in SUBSET Var, NEW g \in Partial(vs)
  PROVE  DOMAIN g \in SUBSET Var /\ g \in [DOMAIN g -> Val]
BY DEF Partial

LEMMA ScopeType ==
  ASSUME NEW e \in Env, NEW n \in Node, NEW a \in ScopeResults(n, e)
  PROVE  a.res \in {"ok", "fail", "sde"} /\ a.env \in Env
<1>1. NewVars[n] \in SUBSET Var /\ e.vals \in [Var -> Val] /\ e.reads \in SUBSET Var
      /\ e.pos \in Nat
  BY VariableAssumption DEF Env
<1>2. \A D \in SUBSET Var : \A g \in [D -> Val] : NewInstances(e, g) \in Env
  BY <1>1, AssignType DEF Env, NewInstances
<1>3. \A g \in Partial(NewVars[n]) : NewInstances(e, g) \in Env
  BY <1>1, <1>2, PartialType
<1>4. \/ \E g \in [NewVars[n] -> Val] : a = [res |-> "ok", env |-> NewInstances(e, g)]
      \/ \E g \in Partial(NewVars[n]) :
           \E r \in {"fail", "sde"} : a = [res |-> r, env |-> NewInstances(e, g)]
  BY DEF ScopeResults
<1>5. QED
  BY <1>1, <1>2, <1>3, <1>4

LEMMA SetType ==
  ASSUME NEW e \in Env, NEW n \in Node, NEW a \in SetResults(n, e)
  PROVE  a.res \in {"ok", "fail", "sde"} /\ a.env \in Env
<1>1. SetVars[n] \in SUBSET Var /\ ReadVars[n] \in SUBSET Var /\ e.vals \in [Var -> Val]
      /\ e.reads \in SUBSET Var /\ e.pos \in Nat
  BY VariableAssumption DEF Env
<1>2. \A D \in SUBSET Var : \A g \in [D -> Val] : Updated(n, e, g) \in Env
  BY <1>1, AssignType DEF Env, Updated
<1>3. \A g \in Partial(SetVars[n]) : Updated(n, e, g) \in Env
  BY <1>1, <1>2, PartialType
<1>4. \/ a = [res |-> "sde", env |-> e]
      \/ \E g \in [SetVars[n] -> Val] : a = [res |-> "ok", env |-> Updated(n, e, g)]
      \/ \E g \in Partial(SetVars[n]) :
           \E r \in {"fail", "sde"} : a = [res |-> r, env |-> Updated(n, e, g)]
  BY DEF SetResults
<1>5. QED
  BY <1>1, <1>2, <1>3, <1>4

LEMMA LeaveType ==
  ASSUME NEW e \in Env, NEW o \in Env, NEW n \in Node
  PROVE  LeaveScope(n, o, e) \in Env
BY VariableAssumption DEF LeaveScope, Env

LEMMA AheadType ==
  ASSUME NEW q \in Nat, NEW p \in Ahead(q)
  PROVE  p \in Nat
BY BoundAssumption DEF Ahead

(* Moving the cursor and marking variables as read keep the type.          *)
LEMMA EnvUpdates ==
  ASSUME NEW e \in Env, NEW p \in Nat, NEW R \in SUBSET Var
  PROVE  /\ [e EXCEPT !.pos = p] \in Env
         /\ [e EXCEPT !.reads = @ \union R] \in Env
         /\ [e EXCEPT !.pos = p, !.reads = @ \union R] \in Env
BY DEF Env

----------------------------------------------------------------------------
(* How the stack of frames follows the call stack.                         *)

(* FramesMatchCalls in parts, of a call stack c of m activations and a     *)
(* stack p of n frames.                                                    *)
Numbered(c, m) == \A k \in 1..m : c[k].frame \in Nat

Attempting(c, m, running) ==
  \A k \in 1..m :
    c[k].frame # 0 <=>
      /\ c[k].op \in {"choice", "occurrences"}
      /\ c[k].op = "occurrences" => c[k].node \notin ZeroLength
      /\ k < m \/ ~running

OwnFrame(c, m, p, n) ==
  \A k \in 1..m : c[k].frame # 0 =>
    c[k].frame <= n /\ p[c[k].frame].kind = KindOf(c[k].op)

Ordered(c, m) ==
  \A j \in 1..m : \A k \in 1..m :
    c[j].frame # 0 /\ c[k].frame # 0 /\ j < k => c[j].frame < c[k].frame

NoOther(c, m, n) == \A f \in 1..n : \E k \in 1..m : c[k].frame = f

Matches(c, m, p, n, running) ==
  /\ Numbered(c, m) /\ Attempting(c, m, running)
  /\ OwnFrame(c, m, p, n) /\ Ordered(c, m) /\ NoOther(c, m, n)

(* The attempt in flight of the innermost activation has the top frame.    *)
LEMMA TopFrame ==
  ASSUME NEW m \in Nat, NEW n \in Nat, NEW c, NEW p,
         Numbered(c, m), OwnFrame(c, m, p, n), Ordered(c, m), NoOther(c, m, n), m > 0, c[m].frame # 0
  PROVE  /\ n > 0 /\ c[m].frame = n
         /\ \A k \in 1..(m - 1) : c[k].frame < n
<1>1. c[m].frame \in 1..n
  BY DEF Numbered, OwnFrame
<1>2. PICK k \in 1..m : c[k].frame = n
  BY <1>1 DEF NoOther
<1>3. c[m].frame = n
  BY <1>1, <1>2 DEF Ordered
<1>4. \A j \in 1..(m - 1) : c[j].frame < n
  BY <1>1, <1>3 DEF Ordered, Numbered
<1>5. QED
  BY <1>1, <1>3, <1>4

(* Only the innermost activation changes, and is not attempting anything   *)
(* afterwards: it was not before either, and marks are all that happens to *)
(* the frames ...                                                          *)
LEMMA GoesOn ==
  ASSUME NEW m \in Nat, NEW n \in Nat, NEW c, NEW d, NEW p, NEW q, NEW r \in BOOLEAN,
         Matches(c, m, p, n, r), m > 0, c[m].frame = 0, d[m].frame = 0,
         \A k \in 1..(m - 1) : d[k] = c[k],
         \A f \in 1..n : q[f].kind = p[f].kind
  PROVE  Matches(d, m, q, n, TRUE)
<1>1. Numbered(d, m) /\ Attempting(d, m, TRUE)
  BY DEF Matches, Numbered, Attempting
<1>2. OwnFrame(d, m, q, n)
  BY DEF Matches, Numbered, OwnFrame
<1>3. Ordered(d, m)
  BY DEF Matches, Ordered
<1>4. NoOther(d, m, n)
  BY DEF Matches, NoOther
<1>5. QED
  BY <1>1, <1>2, <1>3, <1>4 DEF Matches

(* ... or its frame is popped.                                             *)
LEMMA EndsAttempt ==
  ASSUME NEW m \in Nat, NEW n \in Nat, NEW c, NEW d, NEW p, NEW q, NEW r \in BOOLEAN,
         Matches(c, m, p, n, r), m > 0, c[m].frame # 0, d[m].frame = 0,
         \A k \in 1..(m - 1) : d[k] = c[k],
         \A f \in 1..(n - 1) : q[f] = p[f]
  PROVE  n > 0 /\ Matches(d, m, q, n - 1, TRUE)
<1>1. /\ n > 0 /\ c[m].frame = n
      /\ \A k \in 1..(m - 1) : c[k].frame < n
  BY TopFrame DEF Matches
<1>2. Numbered(d, m) /\ Attempting(d, m, TRUE)
  BY DEF Matches, Numbered, Attempting
<1>3. OwnFrame(d, m, q, n - 1)
  BY <1>1 DEF Matches, Numbered, OwnFrame
<1>4. Ordered(d, m)
  BY DEF Matches, Ordered
<1>5. NoOther(d, m, n - 1)
  BY <1>1 DEF Matches, NoOther
<1>6. QED
  BY <1>1, <1>2, <1>3, <1>4, <1>5 DEF Matches

(* The innermost activation returns, without a frame of its own ...        *)
LEMMA Returns ==
  ASSUME NEW m \in Nat, NEW n \in Nat, NEW c, NEW d, NEW p, NEW q, NEW r \in BOOLEAN,
         Matches(c, m, p, n, r), m > 0, c[m].frame = 0,
         \A k \in 1..(m - 1) : d[k] = c[k],
         \A f \in 1..n : q[f].kind = p[f].kind
  PROVE  Matches(d, m - 1, q, n, FALSE)
<1>1. Numbered(d, m - 1) /\ Attempting(d, m - 1, FALSE)
  BY DEF Matches, Numbered, Attempting
<1>2. OwnFrame(d, m - 1, q, n)
  BY DEF Matches, Numbered, OwnFrame
<1>3. Ordered(d, m - 1)
  BY DEF Matches, Ordered
<1>4. NoOther(d, m - 1, n)
  BY DEF Matches, NoOther
<1>5. QED
  BY <1>1, <1>2, <1>3, <1>4 DEF Matches

(* ... or with one, which is popped.                                       *)
LEMMA ReturnsPopping ==
  ASSUME NEW m \in Nat, NEW n \in Nat, NEW c, NEW d, NEW p, NEW q, NEW r \in BOOLEAN,
         Matches(c, m, p, n, r), m > 0, c[m].frame # 0,
         \A k \in 1..(m - 1) : d[k] = c[k],
         \A f \in 1..(n - 1) : q[f] = p[f]
  PROVE  n > 0 /\ Matches(d, m - 1, q, n - 1, FALSE)
<1>1. /\ n > 0 /\ c[m].frame = n
      /\ \A k \in 1..(m - 1) : c[k].frame < n
  BY TopFrame DEF Matches
<1>2. Numbered(d, m - 1) /\ Attempting(d, m - 1, FALSE)
  BY DEF Matches, Numbered, Attempting
<1>3. OwnFrame(d, m - 1, q, n - 1)
  BY <1>1 DEF Matches, Numbered, OwnFrame
<1>4. Ordered(d, m - 1)
  BY DEF Matches, Ordered
<1>5. NoOther(d, m - 1, n - 1)
  BY <1>1, SMTT(30) DEF Matches, NoOther
<1>6. QED
  BY <1>1, <1>2, <1>3, <1>4, <1>5 DEF Matches

(* The innermost activation makes a call: an attempt, with a frame ...     *)
LEMMA Attempts ==
  ASSUME NEW m \in Nat, NEW n \in Nat, NEW c, NEW d, NEW p, NEW q, NEW r \in BOOLEAN,
         Matches(c, m, p, n, r), m > 0, c[m].frame = 0, d[m + 1].frame = 0,
         \A k \in 1..(m - 1) : d[k] = c[k],
         d[m].frame = n + 1, d[m].op \in {"choice", "occurrences"},
         d[m].op = "occurrences" => d[m].node \notin ZeroLength,
         \A f \in 1..n : q[f].kind = p[f].kind,
         q[n + 1].kind = KindOf(d[m].op)
  PROVE  Matches(d, m + 1, q, n + 1, TRUE)
<1>1. Numbered(d, m + 1) /\ Attempting(d, m + 1, TRUE)
  BY DEF Matches, Numbered, Attempting
<1>2. OwnFrame(d, m + 1, q, n + 1)
  <2> SUFFICES ASSUME NEW k \in 1..(m + 1), d[k].frame # 0
               PROVE  d[k].frame <= n + 1 /\ q[d[k].frame].kind = KindOf(d[k].op)
    BY DEF OwnFrame
  <2>1. CASE k = m
    BY <2>1
  <2>2. CASE k < m
    BY <2>2 DEF Matches, Numbered, OwnFrame
  <2>3. QED
    BY <2>1, <2>2
<1>3. Ordered(d, m + 1)
  BY DEF Matches, Ordered, Numbered, OwnFrame
<1>4. NoOther(d, m + 1, n + 1)
  <2> SUFFICES ASSUME NEW f \in 1..(n + 1)
               PROVE  \E k \in 1..(m + 1) : d[k].frame = f
    BY DEF NoOther
  <2>1. CASE f = n + 1
    BY <2>1
  <2>2. CASE f # n + 1
    <3>1. f \in 1..n
      BY <2>2
    <3>2. PICK k \in 1..m : c[k].frame = f
      BY <3>1 DEF Matches, NoOther
    <3>3. k \in 1..(m + 1) /\ d[k].frame = f
      BY <3>1, <3>2
    <3>4. QED
      BY <3>3
  <2>3. QED
    BY <2>1, <2>2
<1>5. QED
  BY <1>1, <1>2, <1>3, <1>4 DEF Matches

(* ... or a call that needs none.                                          *)
LEMMA Invokes ==
  ASSUME NEW m \in Nat, NEW n \in Nat, NEW c, NEW d, NEW p, NEW r \in BOOLEAN,
         Matches(c, m, p, n, r), m > 0, c[m].frame = 0, d[m + 1].frame = 0,
         \A k \in 1..(m - 1) : d[k] = c[k],
         d[m].frame = 0,
         \/ d[m].op \notin {"choice", "occurrences"}
         \/ d[m].op = "occurrences" /\ d[m].node \in ZeroLength
  PROVE  Matches(d, m + 1, p, n, TRUE)
<1>1. Numbered(d, m + 1) /\ Attempting(d, m + 1, TRUE)
  BY DEF Matches, Numbered, Attempting
<1>2. OwnFrame(d, m + 1, p, n)
  BY DEF Matches, Numbered, OwnFrame
<1>3. Ordered(d, m + 1)
  BY DEF Matches, Ordered
<1>4. NoOther(d, m + 1, n)
  <2> SUFFICES ASSUME NEW f \in 1..n
               PROVE  \E k \in 1..(m + 1) : d[k].frame = f
    BY DEF NoOther
  <2>1. PICK k \in 1..m : c[k].frame = f
    BY DEF Matches, NoOther
  <2>2. k \in 1..(m + 1) /\ d[k].frame = f
    BY <2>1
  <2>3. QED
    BY <2>2
<1>5. QED
  BY <1>1, <1>2, <1>3, <1>4 DEF Matches

----------------------------------------------------------------------------
(* What the steps of the actions do to the two stacks.                     *)

Inv == TypeOK /\ FramesMatchCalls

(* The stack of frames is the same but for marks.                          *)
SameFrames ==
  /\ pou' \in Seq(Frame)
  /\ Len(pou') = Len(pou)
  /\ \A f \in 1..Len(pou) : pou'[f].kind = pou[f].kind

LEMMA TopTypes ==
  ASSUME TypeOK, calls # <<>>
  PROVE  /\ Top \in Activation /\ Top.node \in Node /\ Top.i \in Nat /\ Top.frame \in Nat
         /\ Top.outer \in Env /\ Top.saved \in Env /\ Top.entry \in Env
         /\ Top.op \in {"call", "sequence", "choice", "occurrences", "stuck", "single"}
<1>1. Top \in Activation
  BY TopFacts DEF TypeOK
<1>2. QED
  BY <1>1 DEF Activation

(* FramesMatchCalls and its parts, before a step ...                       *)
LEMMA FramesBefore ==
  ASSUME Inv
  PROVE  /\ Len(calls) \in Nat /\ Len(pou) \in Nat
         /\ signal = "run" => Matches(calls, Len(calls), pou, Len(pou), TRUE)
         /\ signal # "run" => Matches(calls, Len(calls), pou, Len(pou), FALSE)
<1>1. calls \in Seq(Activation) /\ pou \in Seq(Frame)
  BY DEF Inv, TypeOK
<1>2. /\ Len(calls) \in Nat /\ DOMAIN calls = 1..Len(calls)
      /\ Len(pou) \in Nat /\ DOMAIN pou = 1..Len(pou)
  BY <1>1, LenProperties
<1>3. Numbered(calls, Len(calls))
  <2>1. \A k \in 1..Len(calls) : calls[k] \in Activation
    BY <1>1, ElementOfSeq
  <2>2. \A a \in Activation : a.frame \in Nat
    BY DEF Activation
  <2>3. QED
    BY <2>1, <2>2 DEF Numbered
<1>4. OwnFrame(calls, Len(calls), pou, Len(pou))
  BY <1>2 DEF Inv, FramesMatchCalls, OwnFrame, InFlight
<1>5. Ordered(calls, Len(calls)) /\ NoOther(calls, Len(calls), Len(pou))
  BY <1>2 DEF Inv, FramesMatchCalls, Ordered, NoOther, InFlight
<1>6. /\ signal = "run" => Attempting(calls, Len(calls), TRUE)
      /\ signal # "run" => Attempting(calls, Len(calls), FALSE)
  BY <1>2 DEF Inv, FramesMatchCalls, Attempting
<1>7. QED
  BY <1>2, <1>3, <1>4, <1>5, <1>6 DEF Matches

(* ... and after it.                                                       *)
LEMMA FramesAfter ==
  ASSUME calls' \in Seq(Activation), pou' \in Seq(Frame), signal' = "idle" => calls' = <<>>,
         \/ signal' = "run" /\ Matches(calls', Len(calls'), pou', Len(pou'), TRUE)
         \/ signal' # "run" /\ Matches(calls', Len(calls'), pou', Len(pou'), FALSE)
  PROVE  FramesMatchCalls'
<1>1. /\ Len(calls') \in Nat /\ DOMAIN calls' = 1..Len(calls')
      /\ Len(pou') \in Nat /\ DOMAIN pou' = 1..Len(pou')
  BY LenProperties
<1>2. /\ Numbered(calls', Len(calls'))
      /\ OwnFrame(calls', Len(calls'), pou', Len(pou'))
      /\ Ordered(calls', Len(calls')) /\ NoOther(calls', Len(calls'), Len(pou'))
      /\ \/ signal' = "run" /\ Attempting(calls', Len(calls'), TRUE)
         \/ signal' # "run" /\ Attempting(calls', Len(calls'), FALSE)
  BY DEF Matches
<1>3. \A k \in DOMAIN calls' :
        calls'[k].frame # 0 <=>
          /\ calls'[k].op \in {"choice", "occurrences"}
          /\ calls'[k].op = "occurrences" => calls'[k].node \notin ZeroLength
          /\ k < Len(calls') \/ signal' # "run"
  BY <1>1, <1>2 DEF Attempting
<1>4. \A k \in InFlight' :
        /\ calls'[k].frame \in DOMAIN pou'
        /\ pou'[calls'[k].frame].kind = KindOf(calls'[k].op)
  BY <1>1, <1>2 DEF Numbered, OwnFrame, InFlight
<1>5. \A j, k \in InFlight' : j < k => calls'[j].frame < calls'[k].frame
  BY <1>1, <1>2 DEF Ordered, InFlight
<1>6. \A f \in DOMAIN pou' : \E k \in InFlight' : calls'[k].frame = f
  BY <1>1, <1>2 DEF NoOther, InFlight
<1>7. QED
  BY <1>3, <1>4, <1>5, <1>6 DEF FramesMatchCalls

(* An activation that runs has no attempt in flight; when a call it made   *)
(* has returned, it has one if the call was an attempt.                    *)
LEMMA RunFrame ==
  ASSUME Inv, calls # <<>>, signal = "run"
  PROVE  Top.frame = 0
<1>1. Len(calls) \in Nat \ {0} /\ Top = calls[Len(calls)]
  BY TopFacts DEF Inv, TypeOK
<1>2. Attempting(calls, Len(calls), TRUE)
  BY FramesBefore DEF Matches
<1>3. QED
  BY <1>1, <1>2 DEF Attempting

LEMMA BackFrame ==
  ASSUME Inv, calls # <<>>, signal \in Results
  PROVE  Top.frame # 0 <=> /\ Top.op \in {"choice", "occurrences"}
                           /\ Top.op = "occurrences" => Top.node \notin ZeroLength
<1>1. Len(calls) \in Nat \ {0} /\ Top = calls[Len(calls)]
  BY TopFacts DEF Inv, TypeOK
<1>2. Attempting(calls, Len(calls), FALSE)
  BY FramesBefore DEF Matches, Results
<1>3. QED
  BY <1>1, <1>2 DEF Attempting

(* The innermost activation returns.                                       *)
LEMMA ReturnStep ==
  ASSUME Inv, calls # <<>>, NEW res \in Results, NEW e \in Env, Return(res, e),
         \/ Top.frame = 0 /\ SameFrames
         \/ Top.frame # 0 /\ pou' = Pop(pou)
  PROVE  /\ calls' \in Seq(Activation) /\ signal' \in Results
         /\ env' \in Env /\ raised' \in BOOLEAN /\ pou' \in Seq(Frame)
         /\ FramesMatchCalls'
<1> DEFINE m == Len(calls)  n == Len(pou)
<1>1. calls' = Pop(calls) /\ signal' = res /\ env' = e /\ raised' = (raised \/ res = "sde")
  BY DEF Return, Signal
<1>2. calls \in Seq(Activation) /\ pou \in Seq(Frame) /\ Top = calls[m]
  BY DEF Inv, TypeOK, Top
<1>3. /\ m \in Nat /\ n \in Nat /\ m > 0
      /\ Matches(calls, m, pou, n, TRUE) \/ Matches(calls, m, pou, n, FALSE)
  <2>1. m \in Nat /\ m > 0
    BY <1>2, TopFacts
  <2>2. n \in Nat /\ (Matches(calls, m, pou, n, TRUE) \/ Matches(calls, m, pou, n, FALSE))
    BY FramesBefore
  <2>3. QED
    BY <2>1, <2>2
<1>4. /\ calls' \in Seq(Activation) /\ Len(calls') = m - 1
      /\ \A k \in 1..(m - 1) : calls'[k] = calls[k]
  BY <1>1, <1>2, PopFacts
<1>5. signal' \in Results /\ env' \in Env /\ raised' \in BOOLEAN
  BY <1>1
<1>6. signal' # "run" /\ signal' # "idle"
  BY <1>5 DEF Results
<1>7. pou' \in Seq(Frame) /\ Matches(calls', m - 1, pou', Len(pou'), FALSE)
  <2>1. CASE Top.frame = 0 /\ SameFrames
    <3>1. Len(pou') = n /\ \A f \in 1..n : pou'[f].kind = pou[f].kind
      BY <2>1 DEF SameFrames
    <3>2. Matches(calls', m - 1, pou', n, FALSE)
      BY <1>2, <1>3, <1>4, <2>1, <3>1, Returns
    <3>3. QED
      BY <2>1, <3>1, <3>2 DEF SameFrames
  <2>2. CASE Top.frame # 0 /\ pou' = Pop(pou)
    <3>1. n > 0
      BY <1>2, <1>3, <2>2, TopFrame DEF Matches
    <3>2. /\ pou' \in Seq(Frame) /\ Len(pou') = n - 1
          /\ \A f \in 1..(n - 1) : pou'[f] = pou[f]
      BY <1>2, <2>2, <3>1, PopFacts, EmptySeq
    <3>3. Matches(calls', m - 1, pou', n - 1, FALSE)
      BY <1>2, <1>3, <1>4, <2>2, <3>2, ReturnsPopping
    <3>4. QED
      BY <3>2, <3>3
  <2>3. QED
    BY <2>1, <2>2
<1>8. FramesMatchCalls'
  BY <1>4, <1>6, <1>7, FramesAfter
<1>9. QED
  BY <1>4, <1>5, <1>7, <1>8

(* The innermost activation goes on without an attempt in flight.          *)
LEMMA ResumeStep ==
  ASSUME Inv, calls # <<>>, NEW a \in Activation, a.frame = 0,
         calls' = SetTop(a), signal' = "run",
         \/ Top.frame = 0 /\ SameFrames
         \/ Top.frame # 0 /\ pou' = Pop(pou)
  PROVE  calls' \in Seq(Activation) /\ pou' \in Seq(Frame) /\ FramesMatchCalls'
<1> DEFINE m == Len(calls)  n == Len(pou)
<1>1. calls \in Seq(Activation) /\ pou \in Seq(Frame) /\ Top = calls[m]
  BY DEF Inv, TypeOK, Top
<1>2. /\ calls' \in Seq(Activation) /\ Len(calls') = m /\ m \in Nat /\ m > 0
      /\ \A k \in 1..(m - 1) : calls'[k] = calls[k]
      /\ calls'[m].frame = 0
  BY <1>1, TopFacts, SetTopFacts
<1>3. n \in Nat /\ (Matches(calls, m, pou, n, TRUE) \/ Matches(calls, m, pou, n, FALSE))
  BY FramesBefore
<1>4. pou' \in Seq(Frame) /\ Matches(calls', m, pou', Len(pou'), TRUE)
  <2>1. CASE Top.frame = 0 /\ SameFrames
    <3>1. Len(pou') = n /\ \A f \in 1..n : pou'[f].kind = pou[f].kind
      BY <2>1 DEF SameFrames
    <3>2. Matches(calls', m, pou', n, TRUE)
      BY <1>1, <1>2, <1>3, <2>1, <3>1, GoesOn, ZenonT(60)
    <3>3. QED
      BY <2>1, <3>1, <3>2 DEF SameFrames
  <2>2. CASE Top.frame # 0 /\ pou' = Pop(pou)
    <3>1. n > 0
      BY <1>1, <1>2, <1>3, <2>2, TopFrame DEF Matches
    <3>2. /\ pou' \in Seq(Frame) /\ Len(pou') = n - 1
          /\ \A f \in 1..(n - 1) : pou'[f] = pou[f]
      BY <1>1, <2>2, <3>1, PopFacts, EmptySeq
    <3>3. Matches(calls', m, pou', n - 1, TRUE)
      BY <1>1, <1>2, <1>3, <2>2, <3>2, EndsAttempt
    <3>4. QED
      BY <3>2, <3>3
  <2>3. QED
    BY <2>1, <2>2
<1>5. FramesMatchCalls'
  BY <1>2, <1>4, FramesAfter
<1>6. QED
  BY <1>2, <1>4, <1>5

(* The innermost activation makes a call that needs no frame ...           *)
LEMMA InvokeStep ==
  ASSUME Inv, calls # <<>>, signal = "run", NEW a \in Activation, a.frame = 0,
         NEW b \in Activation, b.frame = 0, calls' = Append(SetTop(a), b), signal' = "run",
         pou' = pou,
         \/ a.op \notin {"choice", "occurrences"}
         \/ a.op = "occurrences" /\ a.node \in ZeroLength
  PROVE  calls' \in Seq(Activation) /\ FramesMatchCalls'
<1> DEFINE m == Len(calls)  n == Len(pou)  s == SetTop(a)
<1>1. calls \in Seq(Activation) /\ pou \in Seq(Frame) /\ calls[m].frame = 0
  BY RunFrame DEF Inv, TypeOK, Top
<1>2. /\ s \in Seq(Activation) /\ Len(s) = m /\ m \in Nat /\ m > 0
      /\ \A k \in 1..(m - 1) : s[k] = calls[k]
      /\ s[m] = a
  BY <1>1, TopFacts, SetTopFacts
<1>3. n \in Nat /\ Matches(calls, m, pou, n, TRUE)
  BY FramesBefore
<1> HIDE DEF s
<1>4. /\ calls' \in Seq(Activation) /\ Len(calls') = m + 1
      /\ \A k \in 1..m : calls'[k] = s[k]
      /\ calls'[m + 1] = b
  BY <1>2, AppendProperties DEF s
<1>5. /\ \A k \in 1..(m - 1) : calls'[k] = calls[k]
      /\ calls'[m] = a
  BY <1>2, <1>4
<1>6. Matches(calls', m + 1, pou, n, TRUE)
  BY <1>1, <1>2, <1>3, <1>4, <1>5, Invokes
<1>7. FramesMatchCalls'
  BY <1>1, <1>4, <1>6, FramesAfter
<1>8. QED
  BY <1>4, <1>7

(* ... or an attempt, for which a frame is pushed.                         *)
LEMMA AttemptStep ==
  ASSUME Inv, calls # <<>>, signal = "run", NEW a \in Activation, a.frame = Len(pou) + 1,
         NEW b \in Activation, b.frame = 0, calls' = Append(SetTop(a), b), signal' = "run",
         a.op \in {"choice", "occurrences"},
         a.op = "occurrences" => a.node \notin ZeroLength,
         pou' \in Seq(Frame), Len(pou') = Len(pou) + 1,
         \A f \in 1..Len(pou) : pou'[f].kind = pou[f].kind,
         pou'[Len(pou) + 1].kind = KindOf(a.op)
  PROVE  calls' \in Seq(Activation) /\ FramesMatchCalls'
<1> DEFINE m == Len(calls)  n == Len(pou)  s == SetTop(a)
<1>1. calls \in Seq(Activation) /\ pou \in Seq(Frame) /\ calls[m].frame = 0
  BY RunFrame DEF Inv, TypeOK, Top
<1>2. /\ s \in Seq(Activation) /\ Len(s) = m /\ m \in Nat /\ m > 0
      /\ \A k \in 1..(m - 1) : s[k] = calls[k]
      /\ s[m] = a
  BY <1>1, TopFacts, SetTopFacts
<1>3. n \in Nat /\ Matches(calls, m, pou, n, TRUE)
  BY FramesBefore
<1> HIDE DEF s
<1>4. /\ calls' \in Seq(Activation) /\ Len(calls') = m + 1
      /\ \A k \in 1..m : calls'[k] = s[k]
      /\ calls'[m + 1] = b
  BY <1>2, AppendProperties DEF s
<1>5. /\ \A k \in 1..(m - 1) : calls'[k] = calls[k]
      /\ calls'[m] = a
  BY <1>2, <1>4
<1>6. Matches(calls', m + 1, pou', n + 1, TRUE)
  <2>1. /\ calls[m].frame = 0 /\ calls'[m + 1].frame = 0
        /\ calls'[m].frame = n + 1 /\ calls'[m].op \in {"choice", "occurrences"}
        /\ calls'[m].op = "occurrences" => calls'[m].node \notin ZeroLength
        /\ pou'[n + 1].kind = KindOf(calls'[m].op)
        /\ \A f \in 1..n : pou'[f].kind = pou[f].kind
    BY <1>1, <1>4, <1>5
  <2> HIDE DEF m, n
  <2>2. QED
    BY <1>2, <1>3, <1>5, <2>1, Attempts
<1>7. FramesMatchCalls'
  BY <1>1, <1>4, <1>6, FramesAfter
<1>8. QED
  BY <1>4, <1>7

----------------------------------------------------------------------------
(* The actions keep the invariant.                                         *)

(* What every action that changes the call stack establishes.              *)
Stepped ==
  /\ calls' \in Seq(Activation) /\ signal' \in {"run"} \union Results
  /\ env' \in Env /\ raised' \in BOOLEAN /\ pou' \in Seq(Frame)
  /\ FramesMatchCalls'

LEMMA InvAfter ==
  ASSUME Inv, Stepped, sticky' \in BOOLEAN, enclosing' \in Seq(Node),
         UNCHANGED <<decodes, root>>
  PROVE  Inv'
BY DEF Inv, TypeOK, Stepped

LEMMA Returned ==
  ASSUME Inv, calls # <<>>, NEW res \in Results, NEW e \in Env, Return(res, e),
         \/ Top.frame = 0 /\ SameFrames
         \/ Top.frame # 0 /\ pou' = Pop(pou)
  PROVE  Stepped
BY ReturnStep DEF Stepped

LEMMA Closed ==
  ASSUME Inv, calls # <<>>, NEW res \in Results, NEW e \in Env, CloseGroup(res, e),
         \/ Top.frame = 0 /\ SameFrames
         \/ Top.frame # 0 /\ pou' = Pop(pou)
  PROVE  Stepped
<1>1. LeaveScope(Top.node, Top.outer, e) \in Env
  BY TopTypes, LeaveType DEF Inv
<1>2. QED
  BY <1>1, Returned DEF CloseGroup

LEMMA Resumed ==
  ASSUME Inv, calls # <<>>, NEW a \in Activation, a.frame = 0, calls' = SetTop(a),
         signal' = "run", env' \in Env, raised' \in BOOLEAN,
         \/ Top.frame = 0 /\ SameFrames
         \/ Top.frame # 0 /\ pou' = Pop(pou)
  PROVE  Stepped
BY ResumeStep DEF Stepped

(* Without a commit the frames are the same, and with one only their marks *)
(* differ.                                                                 *)
LEMMA Unmarked ==
  ASSUME Inv, UNCHANGED pou
  PROVE  SameFrames
BY DEF SameFrames, Inv, TypeOK

LEMMA VerdictFrames ==
  ASSUME Inv, NEW n, NEW v, ApplyVerdict(n, v)
  PROVE  SameFrames /\ sticky' \in BOOLEAN
<1>1. pou \in Seq(Frame) /\ sticky \in BOOLEAN
  BY DEF Inv, TypeOK
<1>2. CASE Commit
  <2>1. pou' = CommitNearest(pou) /\ sticky' \in BOOLEAN
    BY <1>1, <1>2 DEF Commit
  <2>2. QED
    BY <1>1, <2>1, CommitType DEF SameFrames
<1>3. CASE UNCHANGED <<pou, sticky>>
  BY <1>1, <1>3 DEF SameFrames
<1>4. QED
  BY <1>2, <1>3 DEF ApplyVerdict

(* An activation that ends an attempt, or begins one, is still one.        *)
LEMMA EndedActivation ==
  ASSUME NEW a \in Activation, NEW j \in Nat
  PROVE  /\ [a EXCEPT !.i = j, !.frame = 0] \in Activation
         /\ [a EXCEPT !.i = j, !.frame = 0].frame = 0
BY DEF Activation

LEMMA BegunActivation ==
  ASSUME NEW a \in Activation, NEW f \in Nat, NEW e \in Env
  PROVE  /\ [a EXCEPT !.frame = f, !.saved = e] \in Activation
         /\ [a EXCEPT !.frame = f, !.saved = e].frame = f
         /\ [a EXCEPT !.frame = f, !.saved = e].op = a.op
         /\ [a EXCEPT !.frame = f, !.saved = e].node = a.node
BY DEF Activation

(* The types an action of the innermost activation starts from.            *)
LEMMA Types ==
  ASSUME Inv, calls # <<>>
  PROVE  /\ env \in Env /\ env.pos \in Nat /\ env.reads \in SUBSET Var
         /\ raised \in BOOLEAN /\ sticky \in BOOLEAN /\ enclosing \in Seq(Node)
         /\ pou \in Seq(Frame) /\ calls \in Seq(Activation)
         /\ Top \in Activation /\ Top.node \in Node /\ Top.i \in Nat
         /\ Top.outer \in Env /\ Top.saved \in Env /\ Top.entry \in Env
<1>1. env \in Env => env.pos \in Nat /\ env.reads \in SUBSET Var
  BY DEF Env
<1>2. QED
  BY <1>1, TopTypes DEF Inv, TypeOK

LEMMA OpenGroupInv ==
  ASSUME Inv, OpenGroup
  PROVE  Inv'
<1>1. /\ calls # <<>> /\ signal = "run" /\ Kind[Top.node] \in {"sequence", "choice"}
      /\ UNCHANGED <<pou, sticky, enclosing, decodes, root>>
  BY DEF OpenGroup, In
<1>2. /\ env \in Env /\ raised \in BOOLEAN /\ sticky \in BOOLEAN /\ enclosing \in Seq(Node)
      /\ Top \in Activation /\ Top.node \in Node
  BY <1>1, Types
<1> SUFFICES Stepped
  BY <1>1, <1>2, InvAfter
<1>3. Top.frame = 0 /\ SameFrames
  BY <1>1, RunFrame, Unmarked
<1>4. PICK a \in ScopeResults(Top.node, env) :
        IF a.res # "ok"
        THEN Return(a.res, a.env)
        ELSE \E b \in SetResults(Top.node, a.env) :
               IF b.res # "ok"
               THEN CloseGroup(b.res, b.env)
               ELSE /\ Signal("run")
                    /\ env' = b.env
                    /\ calls' = SetTop([Top EXCEPT !.op = Kind[Top.node],
                                                   !.saved = b.env, !.entry = b.env])
  BY DEF OpenGroup
<1>5. a.res \in {"ok", "fail", "sde"} /\ a.env \in Env
  BY <1>2, ScopeType
<1>6. CASE a.res # "ok"
  <2>1. a.res \in Results /\ Return(a.res, a.env)
    BY <1>4, <1>5, <1>6 DEF Results
  <2>2. QED
    BY <1>1, <1>3, <1>5, <2>1, Returned
<1>7. CASE a.res = "ok"
  <2>1. PICK b \in SetResults(Top.node, a.env) :
          IF b.res # "ok"
          THEN CloseGroup(b.res, b.env)
          ELSE /\ Signal("run")
               /\ env' = b.env
               /\ calls' = SetTop([Top EXCEPT !.op = Kind[Top.node],
                                              !.saved = b.env, !.entry = b.env])
    BY <1>4, <1>7
  <2>2. b.res \in {"ok", "fail", "sde"} /\ b.env \in Env
    BY <1>2, <1>5, SetType
  <2>3. CASE b.res # "ok"
    <3>1. b.res \in Results /\ CloseGroup(b.res, b.env)
      BY <2>1, <2>2, <2>3 DEF Results
    <3>2. QED
      BY <1>1, <1>3, <2>2, <3>1, Closed
  <2>4. CASE b.res = "ok"
    <3> DEFINE act == [Top EXCEPT !.op = Kind[Top.node], !.saved = b.env, !.entry = b.env]
    <3>1. act \in Activation /\ act.frame = 0
      BY <1>1, <1>2, <1>3, <2>2 DEF Activation
    <3>2. calls' = SetTop(act) /\ signal' = "run" /\ env' \in Env /\ raised' \in BOOLEAN
      BY <1>2, <2>1, <2>2, <2>4 DEF Signal
    <3> HIDE DEF act
    <3>3. QED
      BY <1>1, <1>3, <3>1, <3>2, Resumed
  <2>5. QED
    BY <2>3, <2>4
<1>8. QED
  BY <1>5, <1>6, <1>7

LEMMA SequenceHeaderInv ==
  ASSUME Inv, SequenceHeader
  PROVE  Inv'
<1>1. /\ calls # <<>> /\ signal = "run"
      /\ UNCHANGED <<enclosing, decodes, root>>
  BY DEF SequenceHeader, In
<1>2. /\ env \in Env /\ env.pos \in Nat /\ raised \in BOOLEAN /\ sticky \in BOOLEAN
      /\ enclosing \in Seq(Node) /\ Top \in Activation /\ Top.node \in Node
  BY <1>1, Types
<1>3. Top.frame = 0
  BY <1>1, RunFrame
<1> SUFFICES Stepped /\ sticky' \in BOOLEAN
  BY <1>1, <1>2, InvAfter
<1>4. CASE CloseGroup("fail", env) /\ UNCHANGED <<pou, sticky>>
  <2>1. SameFrames /\ "fail" \in Results
    BY <1>4, Unmarked DEF Results
  <2>2. QED
    BY <1>1, <1>2, <1>3, <1>4, <2>1, Closed
<1>5. ASSUME NEW p \in Ahead(env.pos), NEW v \in Verdicts(Top.node),
             ApplyVerdict(Top.node, v),
             LET e == [env EXCEPT !.pos = p, !.reads = @ \union ReadVars[Top.node]]
             IN IF v \in {"fail", "sde"}
                THEN CloseGroup(v, e)
                ELSE /\ Signal("run")
                     /\ calls' = SetTop([Top EXCEPT !.i = 1])
                     /\ env' = e
      PROVE  Stepped /\ sticky' \in BOOLEAN
  <2> DEFINE e == [env EXCEPT !.pos = p, !.reads = @ \union ReadVars[Top.node]]
             act == [Top EXCEPT !.i = 1]
  <2>1. SameFrames /\ sticky' \in BOOLEAN
    BY <1>5, VerdictFrames
  <2>2. p \in Nat /\ ReadVars[Top.node] \in SUBSET Var
    BY <1>2, <1>5, AheadType, VariableAssumption
  <2>3. e \in Env
    BY <1>2, <2>2, EnvUpdates
  <2>4. act \in Activation /\ act.frame = 0
    BY <1>2, <1>3 DEF Activation
  <2>5. CASE v \in {"fail", "sde"}
    <3>1. v \in Results /\ CloseGroup(v, e)
      BY <1>5, <2>5 DEF Results
    <3> HIDE DEF e
    <3>2. QED
      BY <1>1, <1>3, <2>1, <2>3, <3>1, Closed
  <2>6. CASE v \notin {"fail", "sde"}
    <3>1. calls' = SetTop(act) /\ signal' = "run" /\ env' \in Env /\ raised' \in BOOLEAN
      BY <1>2, <1>5, <2>3, <2>6 DEF Signal
    <3> HIDE DEF act
    <3>2. QED
      BY <1>1, <1>3, <2>1, <2>4, <3>1, Resumed
  <2>7. QED
    BY <2>5, <2>6
<1>6. QED
  BY <1>4, <1>5 DEF SequenceHeader

(* Calling a child, or the content of an element.                          *)
LEMMA Invoked ==
  ASSUME Inv, calls # <<>>, signal = "run", Top.op \notin {"choice", "occurrences"},
         NEW n \in Node, calls' = Append(calls, Call(n)), UNCHANGED <<signal, env, pou, raised>>
  PROVE  Stepped
<1>1. Top \in Activation /\ env \in Env /\ pou \in Seq(Frame) /\ raised \in BOOLEAN
      /\ Top.frame = 0 /\ calls \in Seq(Activation)
  BY Types, RunFrame
<1>2. Call(n) \in Activation /\ Call(n).frame = 0
  BY <1>1, ActivateType DEF Call, Activate
<1>3. SetTop(Top) = calls
  BY <1>1, TopFacts DEF SetTop
<1>4. calls' \in Seq(Activation) /\ FramesMatchCalls'
  BY <1>1, <1>2, <1>3, InvokeStep
<1>5. QED
  BY <1>1, <1>4 DEF Stepped

LEMMA NextChildInv ==
  ASSUME Inv, NextChild
  PROVE  Inv'
<1>1. /\ calls # <<>> /\ signal = "run" /\ Top.op = "sequence"
      /\ Top.i \in 1..Len(Kids[Top.node])
      /\ UNCHANGED <<pou, sticky, enclosing, decodes, root>>
  BY DEF NextChild, In
<1>2. /\ env \in Env /\ raised \in BOOLEAN /\ sticky \in BOOLEAN
      /\ enclosing \in Seq(Node) /\ Top \in Activation /\ Top.node \in Node /\ Top.i \in Nat
  BY <1>1, Types
<1>3. Top.frame = 0 /\ SameFrames
  BY <1>1, RunFrame, Unmarked
<1>4. Kids[Top.node][Top.i] \in Node
  BY <1>1, <1>2, ProgramAssumption, ElementOfSeq
<1> SUFFICES Stepped
  BY <1>1, <1>2, InvAfter
<1>5. CASE /\ calls' = Append(calls, Call(Kids[Top.node][Top.i]))
           /\ UNCHANGED <<signal, env, raised>>
  BY <1>1, <1>4, <1>5, Invoked
<1>6. CASE /\ calls' = SetTop([Top EXCEPT !.i = @ + 1])
           /\ UNCHANGED <<signal, env, raised>>
  <2> DEFINE act == [Top EXCEPT !.i = @ + 1]
  <2>1. act \in Activation /\ act.frame = 0
    BY <1>2, <1>3 DEF Activation
  <2>2. calls' = SetTop(act) /\ signal' = "run" /\ env' \in Env /\ raised' \in BOOLEAN
    BY <1>1, <1>2, <1>6
  <2> HIDE DEF act
  <2>3. QED
    BY <1>1, <1>3, <2>1, <2>2, Resumed
<1>7. CASE \E r \in {"fail", "sde"} : CloseGroup(r, env)
  <2>1. PICK r \in Results : CloseGroup(r, env)
    BY <1>7 DEF Results
  <2>2. QED
    BY <1>1, <1>2, <1>3, <2>1, Closed
<1>8. QED
  BY <1>5, <1>6, <1>7 DEF NextChild

LEMMA ChildReturnedInv ==
  ASSUME Inv, ChildReturned
  PROVE  Inv'
<1>1. /\ calls # <<>> /\ signal \in Results /\ Top.op = "sequence"
      /\ UNCHANGED <<pou, sticky, enclosing, decodes, root>>
  BY DEF ChildReturned, Back
<1>2. /\ env \in Env /\ raised \in BOOLEAN /\ sticky \in BOOLEAN
      /\ enclosing \in Seq(Node) /\ Top \in Activation /\ Top.node \in Node /\ Top.i \in Nat
  BY <1>1, Types
<1>3. Top.frame = 0 /\ SameFrames
  BY <1>1, <1>2, BackFrame, Unmarked DEF Activation
<1> SUFFICES Stepped
  BY <1>1, <1>2, InvAfter
<1>4. ASSUME NEW j \in Nat, Signal("run"), calls' = SetTop([Top EXCEPT !.i = j]), UNCHANGED env
      PROVE  Stepped
  <2> DEFINE act == [Top EXCEPT !.i = j]
  <2>1. act \in Activation /\ act.frame = 0
    BY <1>2, <1>3 DEF Activation
  <2>2. calls' = SetTop(act) /\ signal' = "run" /\ env' \in Env /\ raised' \in BOOLEAN
    BY <1>2, <1>4 DEF Signal
  <2> HIDE DEF act
  <2>3. QED
    BY <1>1, <1>3, <2>1, <2>2, Resumed
<1>5. \A r \in Results : CloseGroup(r, env) => Stepped
  BY <1>1, <1>2, <1>3, Closed
<1>6. Top.i + 1 \in Nat /\ Len(Kids[Top.node]) + 1 \in Nat /\ "fail" \in Results
  BY <1>2, ProgramAssumption, LenProperties DEF Results
<1>7. QED
  BY <1>1, <1>4, <1>5, <1>6 DEF ChildReturned

LEMMA EndSequenceInv ==
  ASSUME Inv, EndSequence
  PROVE  Inv'
<1>1. /\ calls # <<>> /\ signal = "run"
      /\ UNCHANGED <<pou, sticky, enclosing, decodes, root>>
  BY DEF EndSequence, In
<1>2. /\ env \in Env /\ env.pos \in Nat /\ sticky \in BOOLEAN /\ enclosing \in Seq(Node)
  BY <1>1, Types
<1>3. Top.frame = 0 /\ SameFrames
  BY <1>1, RunFrame, Unmarked
<1> SUFFICES Stepped
  BY <1>1, <1>2, InvAfter
<1>4. PICK r \in {"ok", "fail"}, p \in Ahead(env.pos) : CloseGroup(r, [env EXCEPT !.pos = p])
  BY DEF EndSequence
<1>5. r \in Results /\ [env EXCEPT !.pos = p] \in Env
  BY <1>2, <1>4, AheadType, EnvUpdates DEF Results
<1>6. QED
  BY <1>1, <1>3, <1>4, <1>5, Closed

LEMMA ChoiceHeaderInv ==
  ASSUME Inv, ChoiceHeader
  PROVE  Inv'
<1>1. /\ calls # <<>> /\ signal = "run"
      /\ UNCHANGED <<pou, sticky, enclosing, decodes, root>>
  BY DEF ChoiceHeader, In
<1>2. /\ env \in Env /\ raised \in BOOLEAN /\ sticky \in BOOLEAN /\ enclosing \in Seq(Node)
      /\ Top \in Activation
  BY <1>1, Types
<1>3. Top.frame = 0 /\ SameFrames
  BY <1>1, RunFrame, Unmarked
<1> SUFFICES Stepped
  BY <1>1, <1>2, InvAfter
<1>4. CASE Signal("run") /\ calls' = SetTop([Top EXCEPT !.i = 1]) /\ UNCHANGED env
  <2> DEFINE act == [Top EXCEPT !.i = 1]
  <2>1. act \in Activation /\ act.frame = 0
    BY <1>2, <1>3 DEF Activation
  <2>2. calls' = SetTop(act) /\ signal' = "run" /\ env' \in Env /\ raised' \in BOOLEAN
    BY <1>2, <1>4 DEF Signal
  <2> HIDE DEF act
  <2>3. QED
    BY <1>1, <1>3, <2>1, <2>2, Resumed
<1>5. CASE CloseGroup("fail", env)
  <2>1. "fail" \in Results
    BY DEF Results
  <2>2. QED
    BY <1>1, <1>2, <1>3, <1>5, <2>1, Closed
<1>6. QED
  BY <1>4, <1>5 DEF ChoiceHeader

(* Pushing a frame for a branch: it may be marked, or commit, at once.     *)
LEMMA PushedFrames ==
  ASSUME NEW s \in Seq(Frame), NEW q \in {Push(s, "Choice"), MarkTop(Push(s, "Choice")), CommitNearest(Push(s, "Choice"))}
  PROVE  /\ q \in Seq(Frame) /\ Len(q) = Len(s) + 1
         /\ \A f \in 1..Len(s) : q[f].kind = s[f].kind
         /\ q[Len(s) + 1].kind = "Choice"
<1> DEFINE u == Push(s, "Choice")
<1>1. /\ u \in Seq(Frame) /\ Len(u) = Len(s) + 1 /\ Len(s) \in Nat
      /\ \A f \in 1..Len(s) : u[f] = s[f]
      /\ u[Len(s) + 1].kind = "Choice"
  BY PushType, LenProperties
<1> HIDE DEF u
<1>2. \A f \in 1..(Len(s) + 1) : u[f] \in Frame
  BY <1>1, ElementOfSeq
<1>3. CASE q = u
  BY <1>1, <1>3
<1>4. CASE q = MarkTop(u)
  <2> DEFINE marked == [u[Len(u)] EXCEPT !.committed = TRUE]
  <2>1. marked \in Frame /\ marked.kind = u[Len(u)].kind
    <3>1. u[Len(u)] \in Frame
      BY <1>1, <1>2
    <3>2. QED
      BY <3>1 DEF Frame
  <2>2. q = [u EXCEPT ![Len(u)] = marked]
    BY <1>4 DEF MarkTop
  <2> HIDE DEF marked
  <2>3. /\ q \in Seq(Frame) /\ Len(q) = Len(u)
        /\ \A f \in 1..Len(u) : q[f] = IF f = Len(u) THEN marked ELSE u[f]
    BY <1>1, <2>1, <2>2, ExceptSeq
  <2>4. \A f \in 1..Len(u) : q[f].kind = u[f].kind
    BY <2>1, <2>3
  <2>5. QED
    BY <1>1, <2>3, <2>4
<1>5. CASE q = CommitNearest(u)
  <2>1. /\ q \in Seq(Frame) /\ Len(q) = Len(u)
        /\ \A f \in 1..Len(u) : q[f].kind = u[f].kind
    BY <1>1, <1>5, CommitType
  <2>2. QED
    BY <1>1, <2>1
<1>6. QED
  BY <1>3, <1>4, <1>5 DEF u

LEMMA EnteredBranch ==
  ASSUME Inv, calls # <<>>, signal = "run", Top.op = "choice",
         Top.i \in 1..Len(Kids[Top.node]),
         NEW stack \in {Push(pou, "Choice"), MarkTop(Push(pou, "Choice")),
                        CommitNearest(Push(pou, "Choice"))},
         EnterBranch(stack)
  PROVE  Stepped
<1> DEFINE act == [Top EXCEPT !.frame = Len(pou) + 1, !.saved = env]
           new == Call(Branch)
<1>1. /\ env \in Env /\ raised \in BOOLEAN /\ pou \in Seq(Frame)
      /\ Top \in Activation /\ Top.node \in Node
  BY Types
<1>2. Branch \in Node
  BY <1>1, ProgramAssumption, ElementOfSeq DEF Branch
<1>3. Len(pou) \in Nat /\ Len(pou) + 1 \in Nat
  BY <1>1, LenProperties
<1>4. act \in Activation /\ act.frame = Len(pou) + 1 /\ act.op = "choice"
  <2>1. \A a \in Activation, f \in Nat, e \in Env :
          /\ [a EXCEPT !.frame = f, !.saved = e] \in Activation
          /\ [a EXCEPT !.frame = f, !.saved = e].frame = f
          /\ [a EXCEPT !.frame = f, !.saved = e].op = a.op
    BY BegunActivation
  <2>2. ASSUME NEW f \in Nat
        PROVE  /\ [Top EXCEPT !.frame = f, !.saved = env] \in Activation
               /\ [Top EXCEPT !.frame = f, !.saved = env].frame = f
               /\ [Top EXCEPT !.frame = f, !.saved = env].op = Top.op
    BY <1>1, <2>1, ZenonT(60)
  <2>3. /\ act \in Activation
        /\ act.frame = Len(pou) + 1
    BY <1>3, <2>2
  <2>4. act.op = Top.op
    BY <1>3, <2>2
  <2>5. QED
    BY <2>3, <2>4
<1>5. new \in Activation /\ new.frame = 0
  BY <1>1, <1>2, ActivateType DEF Call, Activate
<1>6. /\ calls' = Append(SetTop(act), new) /\ pou' = stack
      /\ UNCHANGED <<signal, env, raised>>
  BY DEF EnterBranch
<1> HIDE DEF act, new
<1>7. /\ pou' \in Seq(Frame) /\ Len(pou') = Len(pou) + 1
      /\ \A f \in 1..Len(pou) : pou'[f].kind = pou[f].kind
      /\ pou'[Len(pou) + 1].kind = "Choice"
  BY <1>1, <1>6, PushedFrames
<1>8. KindOf(act.op) = "Choice"
  BY <1>4 DEF KindOf
<1>9. calls' \in Seq(Activation) /\ FramesMatchCalls'
  BY <1>4, <1>5, <1>6, <1>7, <1>8, AttemptStep
<1>10. QED
  BY <1>1, <1>6, <1>7, <1>9 DEF Stepped

LEMMA SkippedBranch ==
  ASSUME Inv, calls # <<>>, signal = "run", NEW R \in SUBSET Var, SkipBranch(R)
  PROVE  Stepped
<1> DEFINE act == [Top EXCEPT !.i = @ + 1]
<1>1. env \in Env /\ raised \in BOOLEAN /\ Top \in Activation /\ Top.i \in Nat
  BY Types
<1>2. Top.frame = 0 /\ SameFrames
  BY RunFrame, Unmarked DEF SkipBranch
<1>3. act \in Activation /\ act.frame = 0
  BY <1>1, <1>2 DEF Activation
<1>4. calls' = SetTop(act) /\ signal' = "run" /\ env' \in Env /\ raised' \in BOOLEAN
  BY <1>1, EnvUpdates DEF SkipBranch
<1> HIDE DEF act
<1>5. QED
  BY <1>2, <1>3, <1>4, Resumed

LEMMA TryBranchInv ==
  ASSUME Inv, TryBranch
  PROVE  Inv'
<1> DEFINE pushed == Push(pou, "Choice")
           pre == PreNode[Branch]
<1>1. /\ calls # <<>> /\ signal = "run" /\ Top.op = "choice"
      /\ Top.i \in 1..Len(Kids[Top.node])
      /\ UNCHANGED <<enclosing, decodes, root>>
  BY DEF TryBranch, In
<1>2. /\ env \in Env /\ sticky \in BOOLEAN /\ enclosing \in Seq(Node)
      /\ Top.node \in Node /\ Top.frame = 0
  BY <1>1, Types, RunFrame
<1>3. Branch \in Node
  BY <1>1, <1>2, ProgramAssumption, ElementOfSeq DEF Branch
<1>4. pre \in Node /\ ReadVars[pre] \in SUBSET Var /\ {} \in SUBSET Var
  BY <1>3, PreNodeAssumption, VariableAssumption
<1>5. \/ EnterBranch(pushed) \/ EnterBranch(MarkTop(pushed)) \/ EnterBranch(CommitNearest(pushed))
      \/ SkipBranch({}) \/ SkipBranch(ReadVars[pre])
      \/ CloseGroup("sde", env) /\ UNCHANGED <<pou, sticky>>
  BY DEF TryBranch
<1> SUFFICES Stepped /\ sticky' \in BOOLEAN
  BY <1>1, <1>2, InvAfter
<1>6. CASE \E q \in {pushed, MarkTop(pushed), CommitNearest(pushed)} : EnterBranch(q)
  <2>1. PICK q \in {pushed, MarkTop(pushed), CommitNearest(pushed)} : EnterBranch(q)
    BY <1>6
  <2>2. sticky' = sticky
    BY <2>1 DEF EnterBranch
  <2>3. QED
    BY <1>1, <1>2, <2>1, <2>2, EnteredBranch
<1>7. CASE \E R \in SUBSET Var : SkipBranch(R)
  <2>1. PICK R \in SUBSET Var : SkipBranch(R)
    BY <1>7
  <2>2. sticky' = sticky
    BY <2>1 DEF SkipBranch
  <2>3. QED
    BY <1>1, <1>2, <2>1, <2>2, SkippedBranch
<1>8. CASE CloseGroup("sde", env) /\ UNCHANGED <<pou, sticky>>
  <2>1. SameFrames /\ "sde" \in Results
    BY <1>8, Unmarked DEF Results
  <2>2. QED
    BY <1>1, <1>2, <1>8, <2>1, Closed
<1> HIDE DEF pushed
<1>9. QED
  BY <1>4, <1>5, <1>6, <1>7, <1>8

LEMMA BranchReturnedInv ==
  ASSUME Inv, BranchReturned
  PROVE  Inv'
<1>1. /\ calls # <<>> /\ signal \in Results /\ Top.op = "choice"
      /\ pou' = Pop(pou)
      /\ UNCHANGED <<sticky, enclosing, decodes, root>>
  BY DEF BranchReturned, Back
<1>2. /\ env \in Env /\ raised \in BOOLEAN /\ sticky \in BOOLEAN /\ enclosing \in Seq(Node)
      /\ Top \in Activation /\ Top.i \in Nat /\ Top.saved \in Env /\ Top.entry \in Env
      /\ Top.entry.pos \in Nat
  BY <1>1, Types DEF Env
<1>3. Top.frame # 0
  BY <1>1, BackFrame
<1> SUFFICES Stepped
  BY <1>1, <1>2, InvAfter
<1>4. \A r \in Results, e \in Env : CloseGroup(r, e) => Stepped
  BY <1>1, <1>3, Closed
<1>5. [env EXCEPT !.pos = Top.entry.pos] \in Env /\ {"ok", "fail", "sde"} \subseteq Results
  BY <1>2, EnvUpdates DEF Results
<1>6. NextAlternative => Stepped
  <2> SUFFICES ASSUME NextAlternative PROVE Stepped
    OBVIOUS
  <2> DEFINE act == [Top EXCEPT !.i = @ + 1, !.frame = 0]
  <2>1. act \in Activation /\ act.frame = 0
    <3>1. Top.i + 1 \in Nat
      BY <1>2
    <3>2. QED
      BY <1>2, <3>1, EndedActivation
  <2>2. Rollback \in Env
    BY <1>2, EnvUpdates DEF Rollback
  <2>3. calls' = SetTop(act) /\ signal' = "run" /\ env' \in Env /\ raised' \in BOOLEAN
    BY <1>2, <2>2 DEF NextAlternative, Signal
  <2> HIDE DEF act
  <2>4. QED
    BY <1>1, <1>3, <2>1, <2>3, Resumed
<1>7. CASE CloseGroup("ok", env)
  BY <1>2, <1>4, <1>5, <1>7
<1>8. CASE FailChoice("sde") \/ FailChoice("fail")
  BY <1>4, <1>5, <1>8 DEF FailChoice
<1>9. QED
  BY <1>6, <1>7, <1>8 DEF BranchReturned

LEMMA EndChoiceInv ==
  ASSUME Inv, EndChoice
  PROVE  Inv'
<1>1. /\ calls # <<>> /\ signal = "run"
      /\ CloseGroup("fail", [env EXCEPT !.pos = Top.entry.pos + ChoiceFrame[Top.node]])
      /\ UNCHANGED <<pou, sticky, enclosing, decodes, root>>
  BY DEF EndChoice, In
<1>2. /\ env \in Env /\ sticky \in BOOLEAN /\ enclosing \in Seq(Node)
      /\ Top.node \in Node /\ Top.entry \in Env
  BY <1>1, Types
<1>3. Top.frame = 0 /\ SameFrames
  BY <1>1, RunFrame, Unmarked
<1>4. Top.entry.pos + ChoiceFrame[Top.node] \in Nat
  BY <1>2, ProgramAssumption DEF Env
<1>5. [env EXCEPT !.pos = Top.entry.pos + ChoiceFrame[Top.node]] \in Env /\ "fail" \in Results
  BY <1>2, <1>4, EnvUpdates DEF Results
<1>6. Stepped
  BY <1>1, <1>3, <1>5, Closed
<1>7. QED
  BY <1>1, <1>2, <1>6, InvAfter

LEMMA OpenElementInv ==
  ASSUME Inv, OpenElement
  PROVE  Inv'
<1>1. /\ calls # <<>> /\ signal = "run"
      /\ UNCHANGED <<pou, sticky, enclosing, decodes, root>>
  BY DEF OpenElement, In
<1>2. /\ env \in Env /\ raised \in BOOLEAN /\ sticky \in BOOLEAN /\ enclosing \in Seq(Node)
      /\ Top \in Activation
  BY <1>1, Types
<1>3. Top.frame = 0 /\ SameFrames
  BY <1>1, RunFrame, Unmarked
<1> SUFFICES Stepped
  BY <1>1, <1>2, InvAfter
<1>4. CASE /\ calls' = SetTop([Top EXCEPT !.op = "occurrences"])
           /\ UNCHANGED <<signal, env, raised>>
  <2> DEFINE act == [Top EXCEPT !.op = "occurrences"]
  <2>1. act \in Activation /\ act.frame = 0
    BY <1>2, <1>3 DEF Activation
  <2>2. calls' = SetTop(act) /\ signal' = "run" /\ env' \in Env /\ raised' \in BOOLEAN
    BY <1>1, <1>2, <1>4
  <2> HIDE DEF act
  <2>3. QED
    BY <1>1, <1>3, <2>1, <2>2, Resumed
<1>5. CASE Return("sde", env)
  <2>1. "sde" \in Results
    BY DEF Results
  <2>2. QED
    BY <1>1, <1>2, <1>3, <1>5, <2>1, Returned
<1>6. QED
  BY <1>4, <1>5 DEF OpenElement

LEMMA EmptySlotInv ==
  ASSUME Inv, EmptySlot
  PROVE  Inv'
<1>1. /\ calls # <<>> /\ signal = "run"
      /\ UNCHANGED <<signal, pou, sticky, enclosing, decodes, raised, root>>
  BY DEF EmptySlot, In
<1>2. /\ env \in Env /\ env.pos \in Nat /\ raised \in BOOLEAN /\ sticky \in BOOLEAN
      /\ enclosing \in Seq(Node) /\ calls \in Seq(Activation)
      /\ Top \in Activation /\ Top.i \in Nat
  BY <1>1, Types
<1>3. Top.frame = 0 /\ SameFrames
  BY <1>1, RunFrame, Unmarked
<1> SUFFICES Stepped
  BY <1>1, <1>2, InvAfter
<1>4. PICK p \in Ahead(env.pos) :
        /\ env' = [env EXCEPT !.pos = p]
        /\ \/ calls' = SetTop([Top EXCEPT !.i = @ + 1])
           \/ calls' = SetTop([Top EXCEPT !.op = "stuck"])
           \/ calls' = calls
  BY DEF EmptySlot
<1>5. env' \in Env
  BY <1>2, <1>4, AheadType, EnvUpdates
<1>6. [Top EXCEPT !.i = @ + 1] \in Activation /\ [Top EXCEPT !.i = @ + 1].frame = 0
  <2>1. \A j \in Nat : [Top EXCEPT !.i = j] \in Activation /\ [Top EXCEPT !.i = j].frame = Top.frame
    BY <1>2 DEF Activation
  <2>2. Top.i + 1 \in Nat
    BY <1>2
  <2>3. QED
    BY <1>3, <2>1, <2>2
<1>7. [Top EXCEPT !.op = "stuck"] \in Activation /\ [Top EXCEPT !.op = "stuck"].frame = 0
  BY <1>2, <1>3 DEF Activation
<1>8. SetTop(Top) = calls
  BY <1>1, <1>2, TopFacts DEF SetTop
<1>9. PICK act \in Activation : act.frame = 0 /\ calls' = SetTop(act)
  BY <1>2, <1>3, <1>4, <1>6, <1>7, <1>8
<1>10. QED
  BY <1>1, <1>2, <1>3, <1>5, <1>9, Resumed

LEMMA StartOccurrenceInv ==
  ASSUME Inv, StartOccurrence
  PROVE  Inv'
<1> DEFINE framed == Top.node \notin ZeroLength
           act(f) == [Top EXCEPT !.frame = f, !.saved = env]
           new == Activate("single", Top.node, env)
<1>1. /\ calls # <<>> /\ signal = "run" /\ Top.op = "occurrences"
      /\ UNCHANGED <<sticky, enclosing, decodes, root>>
  BY DEF StartOccurrence, In
<1>2. /\ env \in Env /\ raised \in BOOLEAN /\ sticky \in BOOLEAN /\ enclosing \in Seq(Node)
      /\ pou \in Seq(Frame) /\ Top \in Activation /\ Top.node \in Node
  BY <1>1, Types
<1>3. Top.frame = 0 /\ Len(pou) \in Nat /\ Len(pou) + 1 \in Nat /\ 0 \in Nat
  BY <1>1, <1>2, RunFrame, LenProperties
<1> SUFFICES Stepped
  BY <1>1, <1>2, InvAfter
<1>4. CASE Return("fail", env) /\ UNCHANGED pou
  <2>1. SameFrames /\ "fail" \in Results
    BY <1>4, Unmarked DEF Results
  <2>2. QED
    BY <1>1, <1>2, <1>3, <1>4, <2>1, Returned
<1>5. new \in Activation /\ new.frame = 0
  BY <1>2, ActivateType DEF Activate
<1>6. ASSUME NEW f \in Nat
      PROVE  /\ act(f) \in Activation /\ act(f).frame = f
             /\ act(f).op = "occurrences" /\ act(f).node = Top.node
  <2>1. \A a \in Activation, e \in Env :
          /\ [a EXCEPT !.frame = f, !.saved = e] \in Activation
          /\ [a EXCEPT !.frame = f, !.saved = e].frame = f
          /\ [a EXCEPT !.frame = f, !.saved = e].op = a.op
          /\ [a EXCEPT !.frame = f, !.saved = e].node = a.node
    BY BegunActivation
  <2>2. QED
    BY <1>1, <1>2, <2>1
<1>7. CASE /\ pou' = IF framed THEN Push(pou, "Occurrence") ELSE pou
           /\ calls' = Append(SetTop(act(IF framed THEN Len(pou) + 1 ELSE 0)), new)
           /\ UNCHANGED <<env, signal, raised>>
  <2>1. CASE framed
    <3> DEFINE b == act(Len(pou) + 1)
    <3>1. /\ b \in Activation /\ b.frame = Len(pou) + 1
          /\ b.op = "occurrences" /\ b.node \notin ZeroLength
      <4> HIDE DEF act
      <4>1. QED
        BY <1>3, <1>6, <2>1
    <3>2. calls' = Append(SetTop(b), new) /\ pou' = Push(pou, "Occurrence")
      BY <1>7, <2>1
    <3>3. /\ pou' \in Seq(Frame) /\ Len(pou') = Len(pou) + 1
          /\ \A f \in 1..Len(pou) : pou'[f].kind = pou[f].kind
          /\ pou'[Len(pou) + 1].kind = "Occurrence"
      BY <1>2, <3>2, PushType
    <3> HIDE DEF b, new
    <3>4. KindOf(b.op) = "Occurrence" /\ signal' = "run"
      BY <1>1, <1>7, <3>1 DEF KindOf
    <3>5. calls' \in Seq(Activation) /\ FramesMatchCalls'
      BY <1>1, <1>5, <3>1, <3>2, <3>3, <3>4, AttemptStep
    <3>6. QED
      BY <1>1, <1>2, <1>7, <3>3, <3>5 DEF Stepped
  <2>2. CASE ~framed
    <3> DEFINE b == act(0)
    <3>1. /\ b \in Activation /\ b.frame = 0
          /\ b.op = "occurrences" /\ b.node \in ZeroLength
      BY <1>6, <2>2
    <3>2. calls' = Append(SetTop(b), new) /\ pou' = pou /\ signal' = "run"
      BY <1>1, <1>7, <2>2
    <3> HIDE DEF b, new
    <3>3. calls' \in Seq(Activation) /\ FramesMatchCalls'
      BY <1>1, <1>5, <3>1, <3>2, InvokeStep
    <3>4. QED
      BY <1>1, <1>2, <1>7, <3>2, <3>3 DEF Stepped
  <2>3. QED
    BY <2>1, <2>2
<1>8. QED
  BY <1>4, <1>7 DEF StartOccurrence

LEMMA LoopResultsType ==
  ASSUME NEW i
  PROVE  LoopResults(i) \subseteq Results
BY DEF LoopResults, Results

LEMMA EndOccurrencesInv ==
  ASSUME Inv, EndOccurrences
  PROVE  Inv'
<1>1. /\ calls # <<>> /\ signal = "run"
      /\ UNCHANGED <<pou, sticky, enclosing, decodes, root>>
  BY DEF EndOccurrences, In
<1>2. env \in Env /\ sticky \in BOOLEAN /\ enclosing \in Seq(Node)
  BY <1>1, Types
<1>3. Top.frame = 0 /\ SameFrames
  BY <1>1, RunFrame, Unmarked
<1>4. PICK r \in Results : Return(r, env)
  BY LoopResultsType DEF EndOccurrences
<1>5. Stepped
  BY <1>1, <1>2, <1>3, <1>4, Returned
<1>6. QED
  BY <1>1, <1>2, <1>5, InvAfter

(* The loop goes on after an attempt.                                      *)
LEMMA ResumedLoop ==
  ASSUME Inv, calls # <<>>, NEW i \in Nat, NEW e \in Env, Resume(i, e),
         \/ Top.frame = 0 /\ SameFrames
         \/ Top.frame # 0 /\ pou' = Pop(pou)
  PROVE  Stepped
<1> DEFINE act == [Top EXCEPT !.i = i, !.frame = 0]
<1>1. raised \in BOOLEAN /\ Top \in Activation
  BY Types
<1>2. act \in Activation /\ act.frame = 0
  BY <1>1, EndedActivation
<1>3. calls' = SetTop(act) /\ signal' = "run" /\ env' \in Env /\ raised' \in BOOLEAN
  BY <1>1 DEF Resume, Signal
<1> HIDE DEF act
<1>4. QED
  BY <1>2, <1>3, Resumed

LEMMA OccurrenceReturnedInv ==
  ASSUME Inv, OccurrenceReturned
  PROVE  Inv'
<1>1. /\ calls # <<>> /\ signal \in Results /\ Top.op = "occurrences"
      /\ Top.node \notin ZeroLength /\ pou' = Pop(pou)
      /\ UNCHANGED <<sticky, enclosing, decodes, root>>
  BY DEF OccurrenceReturned, Back
<1>2. /\ env \in Env /\ env.pos \in Nat /\ sticky \in BOOLEAN /\ enclosing \in Seq(Node)
      /\ Top.i \in Nat /\ Top.saved \in Env /\ Top.saved.pos \in Nat
  BY <1>1, Types DEF Env
<1>3. Top.frame # 0
  BY <1>1, BackFrame
<1> SUFFICES Stepped
  BY <1>1, <1>2, InvAfter
<1>4. \A r \in Results, e \in Env : Return(r, e) => Stepped
  BY <1>1, <1>3, Returned
<1>5. \A i \in Nat, e \in Env : Resume(i, e) => Stepped
  BY <1>1, <1>3, ResumedLoop
<1>6. \A p \in Nat : [env EXCEPT !.pos = p] \in Env
  BY <1>2, EnvUpdates
<1>7. Rewound \in Env
  BY <1>2, <1>6 DEF Rewound
<1>8. \A i \in Nat, q \in Nat : SkipSlot(i, q) => Stepped
  BY <1>5, <1>6, AheadType DEF SkipSlot
<1>9. \A i, r : r \in LoopResults(i) => r \in Results
  BY LoopResultsType
<1>10. {"ok", "absent", "fail", "sde"} \subseteq Results /\ Top.i + 1 \in Nat
  BY <1>2 DEF Results
<1>11. CASE AcceptOccurrence
  BY <1>2, <1>4, <1>5, <1>7, <1>8, <1>9, <1>10, <1>11 DEF AcceptOccurrence
<1>12. CASE Return("fail", env)
  BY <1>2, <1>4, <1>10, <1>12
<1>13. CASE AbandonOccurrence
  <2>1. CASE Return("sde", env) \/ Return("fail", env) \/ Return("absent", Rewound)
    BY <1>2, <1>4, <1>7, <1>10, <2>1
  <2>2. CASE \E i : \E r \in LoopResults(i) : Return(r, env) \/ Return(r, Rewound)
    BY <1>2, <1>4, <1>7, <1>9, <2>2
  <2>3. CASE SkipSlot(Top.i, Top.saved.pos) \/ SkipSlot(Top.i, env.pos) \/ Resume(Top.i, env)
    BY <1>2, <1>5, <1>8, <2>3
  <2>4. CASE \E p \in Ahead(Top.saved.pos) :
               IF p = InputLen /\ Top.i >= MinOccurs[Top.node]
               THEN \E r \in LoopResults(Top.i) : Return(r, [env EXCEPT !.pos = p])
               ELSE Resume(Top.i, [env EXCEPT !.pos = p])
    <3>1. PICK p \in Nat : \/ \E r \in LoopResults(Top.i) : Return(r, [env EXCEPT !.pos = p])
                          \/ Resume(Top.i, [env EXCEPT !.pos = p])
      BY <1>2, <2>4, AheadType
    <3>2. [env EXCEPT !.pos = p] \in Env
      BY <1>6, <3>1
    <3>3. QED
      BY <1>2, <1>4, <1>5, <1>9, <3>1, <3>2
  <2>5. QED
    BY <1>13, <2>1, <2>2, <2>3, <2>4 DEF AbandonOccurrence
<1>14. QED
  BY <1>11, <1>12, <1>13 DEF OccurrenceReturned

LEMMA ZeroLengthReturnedInv ==
  ASSUME Inv, ZeroLengthReturned
  PROVE  Inv'
<1>1. /\ calls # <<>> /\ signal \in Results /\ Top.op = "occurrences"
      /\ Top.node \in ZeroLength
      /\ UNCHANGED <<pou, sticky, enclosing, decodes, root>>
  BY DEF ZeroLengthReturned, Back
<1>2. /\ env \in Env /\ sticky \in BOOLEAN /\ enclosing \in Seq(Node)
      /\ Top.i \in Nat /\ Top.i + 1 \in Nat /\ "fail" \in Results
  BY <1>1, Types DEF Results
<1>3. Top.frame = 0 /\ SameFrames
  BY <1>1, BackFrame, Unmarked
<1> SUFFICES Stepped
  BY <1>1, <1>2, InvAfter
<1>4. \A r \in Results, e \in Env : Return(r, e) => Stepped
  BY <1>1, <1>3, Returned
<1>5. \A i \in Nat, e \in Env : Resume(i, e) => Stepped
  BY <1>1, <1>3, ResumedLoop
<1>6. QED
  BY <1>1, <1>2, <1>4, <1>5 DEF ZeroLengthReturned

(* decode_single_element: its own test and its setVariable statements.     *)
LEMMA Finished ==
  ASSUME Inv, calls # <<>>, Top.frame = 0, NEW e \in Env, FinishElement(e)
  PROVE  Stepped /\ sticky' \in BOOLEAN
<1> DEFINE read == [e EXCEPT !.reads = @ \union ReadVars[Top.node]]
<1>1. Top.node \in Node /\ ReadVars[Top.node] \in SUBSET Var
  BY Types, VariableAssumption
<1>2. read \in Env
  <2>1. \A R \in SUBSET Var : [e EXCEPT !.reads = @ \union R] \in Env
    BY DEF Env
  <2>2. QED
    BY <1>1, <2>1
<1>3. PICK v : /\ ApplyVerdict(Top.node, v)
               /\ IF v \in {"fail", "sde"}
                  THEN Return(v, read)
                  ELSE \E b \in SetResults(Top.node, read) : Return(b.res, b.env)
  BY DEF FinishElement
<1>4. SameFrames /\ sticky' \in BOOLEAN
  BY <1>3, VerdictFrames
<1> HIDE DEF read
<1>5. CASE v \in {"fail", "sde"}
  <2>1. v \in Results /\ Return(v, read)
    BY <1>3, <1>5 DEF Results
  <2>2. QED
    BY <1>2, <1>4, <2>1, Returned
<1>6. CASE v \notin {"fail", "sde"}
  <2>1. PICK b \in SetResults(Top.node, read) : Return(b.res, b.env)
    BY <1>3, <1>6
  <2>2. b.res \in Results /\ b.env \in Env
    BY <1>1, <1>2, SetType DEF Results
  <2>3. QED
    BY <1>4, <2>1, <2>2, Returned
<1>7. QED
  BY <1>5, <1>6

LEMMA ElementFailsInv ==
  ASSUME Inv, ElementFails
  PROVE  Inv'
<1>1. /\ calls # <<>> /\ signal = "run"
      /\ UNCHANGED <<pou, sticky, enclosing, decodes, root>>
  BY DEF ElementFails, In
<1>2. env \in Env /\ env.pos \in Nat /\ sticky \in BOOLEAN /\ enclosing \in Seq(Node)
  BY <1>1, Types
<1>3. Top.frame = 0 /\ SameFrames
  BY <1>1, RunFrame, Unmarked
<1>4. PICK r \in Results, p \in Ahead(env.pos) : Return(r, [env EXCEPT !.pos = p])
  BY DEF ElementFails, Results
<1>5. [env EXCEPT !.pos = p] \in Env
  BY <1>2, AheadType, EnvUpdates
<1>6. Stepped
  BY <1>1, <1>3, <1>4, <1>5, Returned
<1>7. QED
  BY <1>1, <1>2, <1>6, InvAfter

LEMMA ReadSimpleInv ==
  ASSUME Inv, ReadSimple
  PROVE  Inv'
<1>1. calls # <<>> /\ signal = "run" /\ UNCHANGED <<enclosing, decodes, root>>
  BY DEF ReadSimple, In
<1>2. env \in Env /\ env.pos \in Nat /\ enclosing \in Seq(Node) /\ Top.frame = 0
  BY <1>1, Types, RunFrame
<1>3. PICK p \in Ahead(env.pos) : FinishElement([env EXCEPT !.pos = p])
  BY DEF ReadSimple
<1>4. [env EXCEPT !.pos = p] \in Env
  BY <1>2, AheadType, EnvUpdates
<1>5. Stepped /\ sticky' \in BOOLEAN
  BY <1>1, <1>2, <1>3, <1>4, Finished
<1>6. QED
  BY <1>1, <1>2, <1>5, InvAfter

LEMMA ReadNilInv ==
  ASSUME Inv, ReadNil
  PROVE  Inv'
<1>1. /\ calls # <<>> /\ signal = "run"
      /\ UNCHANGED <<pou, sticky, enclosing, decodes, root>>
  BY DEF ReadNil, In
<1>2. /\ env \in Env /\ env.pos \in Nat /\ sticky \in BOOLEAN /\ enclosing \in Seq(Node)
      /\ Top.node \in Node
  BY <1>1, Types
<1>3. Top.frame = 0 /\ SameFrames
  BY <1>1, RunFrame, Unmarked
<1>4. PICK p \in Ahead(env.pos) :
        \E b \in SetResults(Top.node, [env EXCEPT !.pos = p]) : Return(b.res, b.env)
  BY DEF ReadNil
<1> DEFINE e == [env EXCEPT !.pos = p]
<1>5. e \in Env
  BY <1>2, AheadType, EnvUpdates
<1> HIDE DEF e
<1>6. PICK b \in SetResults(Top.node, e) : Return(b.res, b.env)
  BY <1>4 DEF e
<1>7. b.res \in Results /\ b.env \in Env
  BY <1>2, <1>5, SetType DEF Results
<1>8. Stepped
  BY <1>1, <1>3, <1>6, <1>7, Returned
<1>9. QED
  BY <1>1, <1>2, <1>8, InvAfter

LEMMA EnterComplexInv ==
  ASSUME Inv, EnterComplex
  PROVE  Inv'
<1>1. /\ calls # <<>> /\ signal = "run" /\ Top.op = "single" /\ Kids[Top.node] # <<>>
      /\ calls' = Append(calls, Call(Kids[Top.node][1]))
      /\ enclosing' = IF Top.node \in Framed THEN enclosing ELSE Append(enclosing, Top.node)
      /\ UNCHANGED <<signal, env, pou, sticky, decodes, raised, root>>
  BY DEF EnterComplex, In, Complex
<1>2. sticky \in BOOLEAN /\ enclosing \in Seq(Node) /\ Top.node \in Node
  BY <1>1, Types
<1>3. Kids[Top.node][1] \in Node
  <2>1. Kids[Top.node] \in Seq(Node)
    BY <1>2, ProgramAssumption
  <2>2. QED
    BY <1>1, <2>1, EmptySeq, ElementOfSeq
<1>4. Stepped
  BY <1>1, <1>3, Invoked
<1>5. enclosing' \in Seq(Node)
  BY <1>1, <1>2, AppendProperties
<1>6. QED
  BY <1>1, <1>2, <1>4, <1>5, InvAfter

LEMMA ContentReturnedInv ==
  ASSUME Inv, ContentReturned
  PROVE  Inv'
<1>1. /\ calls # <<>> /\ signal \in Results /\ Top.op = "single"
      /\ UNCHANGED <<decodes, root>>
  BY DEF ContentReturned, Back
<1>2. env \in Env /\ sticky \in BOOLEAN /\ enclosing \in Seq(Node)
  BY <1>1, Types
<1>3. Top.frame = 0
  BY <1>1, BackFrame
<1>4. enclosing' \in Seq(Node)
  BY <1>2, PopType DEF ContentReturned
<1> SUFFICES Stepped /\ sticky' \in BOOLEAN
  BY <1>1, <1>4, InvAfter
<1>5. CASE (\E r \in Results : Return(r, env)) /\ UNCHANGED <<pou, sticky>>
  <2>1. SameFrames
    BY <1>5, Unmarked
  <2>2. QED
    BY <1>1, <1>2, <1>3, <1>5, <2>1, Returned
<1>6. CASE FinishElement(env)
  BY <1>1, <1>2, <1>3, <1>6, Finished
<1>7. "fail" \in Results
  BY DEF Results
<1>8. QED
  BY <1>1, <1>5, <1>6, <1>7 DEF ContentReturned

LEMMA EndDecodeInv ==
  ASSUME Inv, EndDecode
  PROVE  Inv'
<1>1. /\ calls = <<>> /\ signal \in Results /\ signal' = "idle"
      /\ UNCHANGED <<calls, env, pou, sticky, enclosing, decodes, raised, root>>
  BY DEF EndDecode
<1>2. TypeOK'
  BY <1>1 DEF Inv, TypeOK
<1>3. FramesMatchCalls'
  BY <1>1 DEF Inv, FramesMatchCalls, InFlight, Results
<1>4. QED
  BY <1>2, <1>3 DEF Inv

(* A decode starts with empty stacks, and with every variable as declared. *)
LEMMA StartDecodeInv ==
  ASSUME Inv, StartDecode
  PROVE  Inv'
<1> DEFINE e == [env EXCEPT !.vals = [v \in Var |-> Default], !.pos = 0]
           first == Activate("call", root, e)
<1>1. /\ signal = "idle" /\ decodes' = decodes + 1 /\ env' = e /\ calls' = <<first>>
      /\ signal' = "run" /\ raised' = FALSE
      /\ UNCHANGED <<pou, sticky, enclosing, root>>
  BY DEF StartDecode
<1>2. root \in Node /\ decodes \in Nat /\ pou \in Seq(Frame) /\ env \in Env
      /\ sticky \in BOOLEAN /\ enclosing \in Seq(Node)
  BY DEF Inv, TypeOK
<1>3. e \in Env
  BY <1>2, VariableAssumption DEF Env
<1> HIDE DEF e
<1>4. first \in Activation /\ first.frame = 0
  BY <1>2, <1>3, ActivateType DEF Activate
<1> HIDE DEF first
<1>5. calls' \in Seq(Activation) /\ DOMAIN calls' = 1..1 /\ calls'[1] = first /\ Len(calls') = 1
  BY <1>1, <1>4
<1>6. TypeOK'
  <2>1. /\ decodes' \in Nat
        /\ env' \in Env
        /\ raised' \in BOOLEAN
    <3>1. decodes' \in Nat
      BY <1>1, <1>2
    <3>2. env' \in Env
      BY <1>1, <1>3, Zenon
    <3>3. QED
      BY <1>1, <3>1, <3>2
  <2>2. root' \in Node /\ pou' \in Seq(Frame) /\ sticky' \in BOOLEAN /\ enclosing' \in Seq(Node)
    BY <1>1, <1>2
  <2>3. QED
    BY <1>1, <1>5, <2>1, <2>2 DEF TypeOK
<1>7. DOMAIN pou = {}
  <2>1. DOMAIN calls = {}
    BY <1>1 DEF Inv, FramesMatchCalls
  <2>2. InFlight = {}
    BY <2>1 DEF InFlight
  <2>3. QED
    BY <2>2 DEF Inv, FramesMatchCalls
<1>8. InFlight' = {}
  BY <1>4, <1>5 DEF InFlight
<1>9. FramesMatchCalls'
  BY <1>1, <1>4, <1>5, <1>7, <1>8 DEF FramesMatchCalls
<1>10. QED
  BY <1>6, <1>9 DEF Inv

----------------------------------------------------------------------------
(* The theorems.                                                           *)

LEMMA InitInv == Init => Inv
<1> SUFFICES ASSUME Init PROVE Inv
  OBVIOUS
<1>1. env \in Env
  BY VariableAssumption DEF Init, Env
<1>2. TypeOK
  <2>1. /\ <<>> \in Seq(Activation) /\ <<>> \in Seq(Frame) /\ <<>> \in Seq(Node)
    BY EmptySeq
  <2>2. root \in Node
    BY ProgramAssumption DEF Init
  <2>3. QED
    BY <1>1, <2>1, <2>2 DEF Init, TypeOK
<1>3. FramesMatchCalls
  BY DEF Init, FramesMatchCalls, InFlight
<1>4. QED
  BY <1>2, <1>3 DEF Inv

LEMMA NextInv == Inv /\ [Next]_vars => Inv'
<1> SUFFICES ASSUME Inv, [Next]_vars PROVE Inv'
  OBVIOUS
<1>1. CASE StartDecode
  BY <1>1, StartDecodeInv
<1>2. CASE EndDecode
  BY <1>2, EndDecodeInv
<1>3. CASE OpenGroup
  BY <1>3, OpenGroupInv
<1>4. CASE SequenceHeader
  BY <1>4, SequenceHeaderInv
<1>5. CASE NextChild
  BY <1>5, NextChildInv
<1>6. CASE ChildReturned
  BY <1>6, ChildReturnedInv
<1>7. CASE EndSequence
  BY <1>7, EndSequenceInv
<1>8. CASE ChoiceHeader
  BY <1>8, ChoiceHeaderInv
<1>9. CASE TryBranch
  BY <1>9, TryBranchInv
<1>10. CASE BranchReturned
  BY <1>10, BranchReturnedInv
<1>11. CASE EndChoice
  BY <1>11, EndChoiceInv
<1>12. CASE OpenElement
  BY <1>12, OpenElementInv
<1>13. CASE EmptySlot
  BY <1>13, EmptySlotInv
<1>14. CASE StartOccurrence
  BY <1>14, StartOccurrenceInv
<1>15. CASE EndOccurrences
  BY <1>15, EndOccurrencesInv
<1>16. CASE OccurrenceReturned
  BY <1>16, OccurrenceReturnedInv
<1>17. CASE ZeroLengthReturned
  BY <1>17, ZeroLengthReturnedInv
<1>18. CASE ElementFails
  BY <1>18, ElementFailsInv
<1>19. CASE ReadSimple
  BY <1>19, ReadSimpleInv
<1>20. CASE ReadNil
  BY <1>20, ReadNilInv
<1>21. CASE EnterComplex
  BY <1>21, EnterComplexInv
<1>22. CASE ContentReturned
  BY <1>22, ContentReturnedInv
<1>23. CASE UNCHANGED vars
  BY <1>23 DEF vars, Inv, TypeOK, FramesMatchCalls, InFlight
<1>24. QED
  BY <1>1, <1>2, <1>3, <1>4, <1>5, <1>6, <1>7, <1>8, <1>9, <1>10, <1>11, <1>12, <1>13,
     <1>14, <1>15, <1>16, <1>17, <1>18, <1>19, <1>20, <1>21, <1>22, <1>23 DEF Next, Run

LEMMA Invariance == Spec => []Inv
  BY InitInv, NextInv, PTL DEF Spec

(* Type correctness: whatever the program and the input, the variables of  *)
(* the decoder hold values of their types.                                 *)
THEOREM TypeCorrect == Spec => []TypeOK
<1>1. Inv => TypeOK
  BY DEF Inv
<1>2. QED
  BY <1>1, Invariance, PTL

(* Every frame on choice_pou_stack belongs to the attempt in flight that   *)
(* pushed it, in the order of the calls, on every return path of every     *)
(* program: a pop never removes the frame of somebody else.                *)
THEOREM FramesCorrect == Spec => []FramesMatchCalls
<1>1. Inv => FramesMatchCalls
  BY DEF Inv
<1>2. QED
  BY <1>1, Invariance, PTL

----------------------------------------------------------------------------
(* Results passed on.                                                      *)

(* A return removes the innermost activation.                              *)
LEMMA ReturnPops ==
  ASSUME Inv, calls # <<>>, NEW res, NEW e, Return(res, e)
  PROVE  /\ signal' = res /\ Len(calls') = Len(calls) - 1
         /\ Len(calls) \notin DOMAIN calls'
<1>1. calls \in Seq(Activation) /\ calls' = Pop(calls) /\ signal' = res
  BY DEF Inv, TypeOK, Return, Signal
<1>2. calls' \in Seq(Activation) /\ Len(calls') = Len(calls) - 1 /\ Len(calls) \in Nat
  BY <1>1, PopFacts, TopFacts
<1>3. DOMAIN calls' = 1..(Len(calls) - 1)
  BY <1>2, LenProperties
<1>4. QED
  BY <1>1, <1>2, <1>3

(* The frame of the attempt that has just returned is the top one.         *)
LEMMA TopIsLast ==
  ASSUME Inv, calls # <<>>, Top.frame # 0
  PROVE  Top.frame = Len(pou) /\ signal \in Results
<1>1. Len(calls) \in Nat /\ Len(calls) > 0 /\ Top = calls[Len(calls)]
  BY TopFacts DEF Inv, TypeOK
<1>2. signal \in Results
  BY RunFrame DEF Inv, TypeOK, FramesMatchCalls
<1>3. Len(pou) \in Nat /\ Matches(calls, Len(calls), pou, Len(pou), FALSE)
  BY <1>2, FramesBefore DEF Results
<1>4. QED
  BY <1>1, <1>2, <1>3, TopFrame DEF Matches

(* A schema definition error reaches the caller of the decode: no choice   *)
(* and no occurrence loop tries anything else, whatever the program.       *)
THEOREM SdeCorrect == Spec => SdePropagates
<1> DEFINE Passed == signal' = "sde" /\ Len(calls') = Len(calls) - 1
           Populate == /\ Top.op = "occurrences" /\ Top.frame # 0
                       /\ pou[Top.frame].committed
<1>1. ASSUME Inv, [Next]_vars, signal = "sde", calls # <<>>
      PROVE  Passed \/ Populate \/ UNCHANGED vars
  <2>1. \A e : Return("sde", e) => Passed
    BY <1>1, ReturnPops
  <2>2. \A e : CloseGroup("sde", e) => Passed
    BY <2>1 DEF CloseGroup
  <2>3. CASE ChildReturned
    BY <1>1, <2>2, <2>3 DEF ChildReturned
  <2>4. CASE BranchReturned
    BY <1>1, <2>2, <2>4 DEF BranchReturned, FailChoice
  <2>5. CASE OccurrenceReturned
    <3>1. Top.op = "occurrences" /\ Top.node \notin ZeroLength
      BY <2>5 DEF OccurrenceReturned, Back
    <3>2. Top.frame # 0 /\ Top.frame = Len(pou)
      BY <1>1, <3>1, BackFrame, TopIsLast DEF Results
    <3>3. CASE pou[Len(pou)].committed
      BY <3>1, <3>2, <3>3
    <3>4. CASE ~pou[Len(pou)].committed
      <4>1. AbandonOccurrence
        BY <1>1, <2>5, <3>4 DEF OccurrenceReturned
      <4>2. QED
        BY <1>1, <2>1, <4>1 DEF AbandonOccurrence
    <3>5. QED
      BY <3>3, <3>4
  <2>6. CASE ZeroLengthReturned
    BY <1>1, <2>1, <2>6 DEF ZeroLengthReturned
  <2>7. CASE ContentReturned
    BY <1>1, <2>1, <2>7 DEF ContentReturned
  <2>8. ~StartDecode /\ ~EndDecode
    BY <1>1 DEF StartDecode, EndDecode
  <2>9. ~In("call") /\ ~In("sequence") /\ ~In("choice") /\ ~In("occurrences") /\ ~In("single")
    BY <1>1 DEF In
  <2>10. /\ ~OpenGroup /\ ~SequenceHeader /\ ~NextChild /\ ~EndSequence /\ ~ChoiceHeader
         /\ ~TryBranch /\ ~EndChoice /\ ~OpenElement /\ ~EmptySlot /\ ~StartOccurrence
         /\ ~EndOccurrences /\ ~ElementFails /\ ~ReadSimple /\ ~ReadNil /\ ~EnterComplex
    BY <2>9 DEF OpenGroup, SequenceHeader, NextChild, EndSequence, ChoiceHeader, TryBranch,
       EndChoice, OpenElement, EmptySlot, StartOccurrence, EndOccurrences, ElementFails,
       ReadSimple, ReadNil, EnterComplex
  <2>11. QED
    BY <1>1, <2>3, <2>4, <2>5, <2>6, <2>7, <2>8, <2>10 DEF Next, Run
<1>2. Inv /\ [Next]_vars =>
        [signal = "sde" /\ calls # <<>> => Passed \/ Populate]_vars
  BY <1>1
<1>3. QED
  BY <1>2, Invariance, PTL DEF Spec, SdePropagates

(* A committed attempt is the last one, whatever the program: backtracking *)
(* never goes back over a discriminator that held.                         *)
THEOREM CommitmentCorrect == Spec => CommittedIsFinal
<1> DEFINE Final(k) == /\ k \notin DOMAIN calls'
                       /\ signal # "ok" => signal' \in {"fail", "sde"}
<1>1. ASSUME Inv, [Next]_vars, NEW k \in InFlight, k = Len(calls),
             pou[calls[k].frame].committed, calls[k].op = "choice" \/ signal # "ok",
             ~UNCHANGED vars
      PROVE  Final(k)
  <2>1. calls # <<>> /\ Top = calls[k] /\ Top.frame # 0
    BY <1>1 DEF InFlight, Top
  <2>2. Top.frame = Len(pou) /\ signal \in Results /\ pou[Len(pou)].committed
    BY <1>1, <2>1, TopIsLast
  <2>3. /\ Top.op \in {"choice", "occurrences"}
        /\ Top.op = "occurrences" => Top.node \notin ZeroLength
    BY <1>1, <2>1, <2>2, BackFrame
  <2>4. \A r \in {"fail", "sde"} : \A e : Return(r, e) => Final(k)
    BY <1>1, <2>1, ReturnPops
  <2>5. \A r \in {"fail", "sde"} : \A e : CloseGroup(r, e) => Final(k)
    BY <2>4 DEF CloseGroup
  <2>6. CASE BranchReturned
    <3>1. CASE signal = "ok" /\ CloseGroup("ok", env)
      <4>1. Len(calls) \notin DOMAIN calls'
        BY <1>1, <2>1, <3>1, ReturnPops DEF CloseGroup
      <4>2. QED
        BY <1>1, <3>1, <4>1
    <3>2. CASE FailChoice("sde") \/ FailChoice("fail")
      BY <2>5, <3>2 DEF FailChoice
    <3>3. QED
      BY <2>2, <2>6, <3>1, <3>2 DEF BranchReturned
  <2>7. CASE OccurrenceReturned
    <3>1. Top.op = "occurrences" /\ signal # "ok"
      BY <1>1, <2>1, <2>7 DEF OccurrenceReturned, Back
    <3>2. Return("fail", env)
      BY <2>2, <2>7, <3>1 DEF OccurrenceReturned
    <3>3. QED
      BY <2>4, <3>2
  <2>8. ~ChildReturned /\ ~ZeroLengthReturned /\ ~ContentReturned
    BY <2>3 DEF ChildReturned, ZeroLengthReturned, ContentReturned, Back
  <2>9. ~StartDecode /\ ~EndDecode
    BY <2>1, <2>2 DEF StartDecode, EndDecode, Results
  <2>10. ~In("call") /\ ~In("sequence") /\ ~In("choice") /\ ~In("occurrences") /\ ~In("single")
    BY <2>2 DEF In, Results
  <2>11. /\ ~OpenGroup /\ ~SequenceHeader /\ ~NextChild /\ ~EndSequence /\ ~ChoiceHeader
         /\ ~TryBranch /\ ~EndChoice /\ ~OpenElement /\ ~EmptySlot /\ ~StartOccurrence
         /\ ~EndOccurrences /\ ~ElementFails /\ ~ReadSimple /\ ~ReadNil /\ ~EnterComplex
    BY <2>10 DEF OpenGroup, SequenceHeader, NextChild, EndSequence, ChoiceHeader, TryBranch,
       EndChoice, OpenElement, EmptySlot, StartOccurrence, EndOccurrences, ElementFails,
       ReadSimple, ReadNil, EnterComplex
  <2>12. QED
    BY <1>1, <2>6, <2>7, <2>8, <2>9, <2>11 DEF Next, Run
<1>2. Inv /\ [Next]_vars =>
        [\A k \in InFlight :
           /\ k = Len(calls) /\ pou[calls[k].frame].committed
           /\ calls[k].op = "choice" \/ signal # "ok"
           => Final(k)]_vars
  BY <1>1
<1>3. QED
  BY <1>2, Invariance, PTL DEF Spec, CommittedIsFinal

----------------------------------------------------------------------------
(* The branches of choices.  The invariant is about the whole call stack:  *)
(* wherever a choice is in flight, the environment its frame saved is like *)
(* the one the choice began with, but for the variables read by the        *)
(* messages of its branches.                                               *)

----------------------------------------------------------------------------
(* The call stack before and after a step.                                 *)

(* The innermost activation returns: the others stay.                      *)
LEMMA PoppedCalls ==
  ASSUME Inv, calls # <<>>, calls' = Pop(calls)
  PROVE  /\ Len(calls) \in Nat \ {0} /\ Len(calls') = Len(calls) - 1
         /\ \A k \in 1..(Len(calls) - 1) : calls'[k] = calls[k]
<1>1. calls \in Seq(Activation)
  BY DEF Inv, TypeOK
<1>2. QED
  BY <1>1, PopFacts, TopFacts

(* It is replaced, by whatever record.                                     *)
LEMMA SetTopAny ==
  ASSUME Inv, calls # <<>>, NEW a
  PROVE  /\ SetTop(a) \in Seq(Activation \union {a})
         /\ Len(calls) \in Nat \ {0} /\ Len(SetTop(a)) = Len(calls)
         /\ SetTop(a)[Len(calls)] = a
         /\ \A k \in 1..(Len(calls) - 1) : SetTop(a)[k] = calls[k]
<1> DEFINE S == Activation \union {a}
<1>1. calls \in Seq(Activation)
  BY DEF Inv, TypeOK
<1>2. Len(calls) \in Nat \ {0} /\ DOMAIN calls = 1..Len(calls)
  BY <1>1, TopFacts
<1>3. calls \in Seq(S) /\ a \in S
  <2>1. \A k \in 1..Len(calls) : calls[k] \in S
    BY <1>1, ElementOfSeq
  <2>2. calls = [k \in 1..Len(calls) |-> calls[k]]
    BY <1>1, <1>2
  <2> HIDE DEF S
  <2>3. [k \in 1..Len(calls) |-> calls[k]] \in Seq(S)
    BY <1>2, <2>1, IsASeq
  <2>4. calls \in Seq(S)
    BY <2>2, <2>3
  <2>5. QED
    BY <2>4 DEF S
<1> HIDE DEF S
<1>4. \A m \in Nat \ {0} : m \in 1..m /\ \A k \in 1..(m - 1) : k \in 1..m /\ k # m
  OBVIOUS
<1>5. SetTop(a) \in Seq(S) /\ Len(SetTop(a)) = Len(calls)
      /\ \A k \in 1..Len(calls) : SetTop(a)[k] = IF k = Len(calls) THEN a ELSE calls[k]
  BY <1>2, <1>3, <1>4, ExceptSeq DEF SetTop
<1>6. SetTop(a)[Len(calls)] = a
  BY <1>2, <1>4, <1>5
<1>7. ASSUME NEW k \in 1..(Len(calls) - 1)
      PROVE  SetTop(a)[k] = calls[k]
  BY <1>2, <1>4, <1>5
<1>8. QED
  BY <1>2, <1>5, <1>6, <1>7 DEF S

(* It makes a call: it is replaced, and another put on top.                *)
LEMMA CalledCalls ==
  ASSUME Inv, calls # <<>>, NEW a, NEW b, calls' = Append(SetTop(a), b)
  PROVE  /\ Len(calls) \in Nat \ {0} /\ Len(calls') = Len(calls) + 1
         /\ calls'[Len(calls)] = a /\ calls'[Len(calls) + 1] = b
         /\ \A k \in 1..(Len(calls) - 1) : calls'[k] = calls[k]
<1> DEFINE S == Activation \union {a} \union {b}  s == SetTop(a)
<1>1. s \in Seq(Activation \union {a}) /\ Len(calls) \in Nat \ {0} /\ Len(s) = Len(calls)
      /\ s[Len(calls)] = a /\ \A k \in 1..(Len(calls) - 1) : s[k] = calls[k]
  BY SetTopAny
<1>2. s \in Seq(S) /\ b \in S
  <2>1. \A k \in 1..Len(s) : s[k] \in S
    BY <1>1, ElementOfSeq
  <2>2. s = [k \in 1..Len(s) |-> s[k]] /\ Len(s) \in Nat
    <3> HIDE DEF s
    <3>1. QED
      BY <1>1, LenProperties
  <2> HIDE DEF S, s
  <2>3. [k \in 1..Len(s) |-> s[k]] \in Seq(S)
    BY <2>1, <2>2, IsASeq
  <2>4. s \in Seq(S)
    BY <2>2, <2>3
  <2>5. QED
    BY <2>4 DEF S
<1> HIDE DEF S, s
<1>3. /\ Len(calls') = Len(s) + 1
      /\ \A k \in 1..Len(s) : calls'[k] = s[k]
      /\ calls'[Len(s) + 1] = b
  BY <1>2, AppendProperties DEF s
<1>4. QED
  BY <1>1, <1>3

(* The same call when the innermost activation itself stays as it is.      *)
LEMMA SetTopSame ==
  ASSUME Inv, calls # <<>>
  PROVE  SetTop(Top) = calls
<1>1. calls \in Seq(Activation)
  BY DEF Inv, TypeOK
<1>2. Len(calls) \in DOMAIN calls
  BY <1>1, TopFacts
<1>3. QED
  BY <1>1, <1>2 DEF SetTop, Top

----------------------------------------------------------------------------
(* The invariant of the choices.                                           *)

(* Everything the branches before the i-th may have read for the messages  *)
(* of their discriminators.                                                *)
Messages(n, i) ==
  UNION {ReadVars[PreNode[b]] : b \in {Kids[n][j] : j \in 1..(i - 1) \intersect 1..Len(Kids[n])}}

(* Environment e is the one in which the choice of activation a began, but *)
(* for what those messages have read.                                      *)
Alike(a, e) ==
  /\ e.pos = a.entry.pos
  /\ e.vals = a.entry.vals
  /\ a.entry.reads \subseteq e.reads
  /\ e.reads \subseteq a.entry.reads \union Messages(a.node, a.i)

(* An activation counts from the start of its body, and a choice has left  *)
(* its header when it attempts a branch.                                   *)
Counted(a) ==
  /\ a.op = "call" => a.i = 0
  /\ a.op = "choice" /\ a.frame # 0 => a.i > 0

(* BranchesStartAlike is not inductive: a branch changes the environment   *)
(* and what is put back afterwards is the environment saved for the        *)
(* attempt.  So the saved environments of the choices with an attempt in   *)
(* flight must be alike as well.                                           *)
ChoicesHeld ==
  \A k \in 1..Len(calls) :
    /\ Counted(calls[k])
    /\ calls[k].op = "choice" =>
         Alike(calls[k], IF k = Len(calls) /\ signal = "run" THEN env ELSE calls[k].saved)

(* A return leaves a caller, which has its saved environment.              *)
LEMMA HeldPopped ==
  ASSUME Inv, ChoicesHeld, calls # <<>>, calls' = Pop(calls), signal' # "run"
  PROVE  ChoicesHeld'
<1>1. /\ Len(calls) \in Nat \ {0} /\ Len(calls') = Len(calls) - 1
      /\ \A k \in 1..(Len(calls) - 1) : calls'[k] = calls[k]
  BY PoppedCalls
<1>2. \A k \in 1..(Len(calls) - 1) : k \in 1..Len(calls) /\ k # Len(calls)
  BY <1>1
<1>3. ASSUME NEW k \in 1..Len(calls')
      PROVE  Counted(calls'[k]) /\ (calls'[k].op = "choice" => Alike(calls'[k], calls'[k].saved))
  <2>1. k \in 1..(Len(calls) - 1)
    BY <1>1
  <2>2. QED
    BY <1>1, <1>2, <1>3, <2>1 DEF ChoicesHeld
<1>4. QED
  BY <1>3 DEF ChoicesHeld

(* The innermost activation becomes a.                                     *)
LEMMA HeldSet ==
  ASSUME Inv, ChoicesHeld, calls # <<>>, NEW a, calls' = SetTop(a), signal' = "run",
         Counted(a), a.op = "choice" => Alike(a, env')
  PROVE  ChoicesHeld'
<1>1. /\ Len(calls) \in Nat \ {0} /\ Len(calls') = Len(calls)
      /\ calls'[Len(calls)] = a
      /\ \A k \in 1..(Len(calls) - 1) : calls'[k] = calls[k]
  BY SetTopAny
<1>2. \A m \in Nat \ {0} : \A k \in 1..m : k = m \/ (k \in 1..(m - 1) /\ k # m)
  OBVIOUS
<1>3. ASSUME NEW k \in 1..Len(calls')
      PROVE  /\ Counted(calls'[k])
             /\ calls'[k].op = "choice" =>
                  Alike(calls'[k],
                        IF k = Len(calls') /\ signal' = "run" THEN env' ELSE calls'[k].saved)
  <2>1. CASE k = Len(calls)
    BY <1>1, <1>3, <2>1
  <2>2. CASE k \in 1..(Len(calls) - 1) /\ k # Len(calls)
    BY <1>1, <1>3, <2>2 DEF ChoicesHeld
  <2>3. QED
    BY <1>1, <1>2, <2>1, <2>2
<1>4. QED
  BY <1>3 DEF ChoicesHeld

(* It becomes a and calls b.                                               *)
LEMMA HeldCalled ==
  ASSUME Inv, ChoicesHeld, calls # <<>>, NEW a, NEW b, calls' = Append(SetTop(a), b),
         Counted(a), Counted(b), b.op # "choice", a.op = "choice" => Alike(a, a.saved)
  PROVE  ChoicesHeld'
<1>1. /\ Len(calls) \in Nat \ {0} /\ Len(calls') = Len(calls) + 1
      /\ calls'[Len(calls)] = a /\ calls'[Len(calls) + 1] = b
      /\ \A k \in 1..(Len(calls) - 1) : calls'[k] = calls[k]
  BY CalledCalls
<1>2. \A m \in Nat \ {0} : \A k \in 1..(m + 1) :
        \/ k = m + 1
        \/ k = m /\ k # m + 1
        \/ k \in 1..(m - 1) /\ k # m /\ k # m + 1 /\ k \in 1..m
  OBVIOUS
<1>3. ASSUME NEW k \in 1..Len(calls')
      PROVE  /\ Counted(calls'[k])
             /\ calls'[k].op = "choice" =>
                  Alike(calls'[k],
                        IF k = Len(calls') /\ signal' = "run" THEN env' ELSE calls'[k].saved)
  <2>1. CASE k = Len(calls) + 1
    BY <1>1, <1>3, <2>1
  <2>2. CASE k = Len(calls) /\ k # Len(calls')
    BY <1>1, <1>3, <2>2
  <2>3. CASE k \in 1..(Len(calls) - 1) /\ k # Len(calls) /\ k # Len(calls') /\ k \in 1..Len(calls)
    BY <1>1, <1>3, <2>3 DEF ChoicesHeld
  <2>4. QED
    BY <1>1, <1>2, <2>1, <2>2, <2>3
<1>4. QED
  BY <1>3 DEF ChoicesHeld

(* The forms in which the actions use them.                                *)
LEMMA HeldReturn ==
  ASSUME Inv, ChoicesHeld, calls # <<>>, NEW res \in Results, NEW e,
         Return(res, e) \/ CloseGroup(res, e)
  PROVE  ChoicesHeld'
<1>1. calls' = Pop(calls) /\ signal' # "run"
  BY DEF CloseGroup, Return, Signal, Results
<1>2. QED
  BY <1>1, HeldPopped

(* In particular when that is neither a call nor a choice.                 *)
LEMMA HeldOther ==
  ASSUME Inv, ChoicesHeld, calls # <<>>, NEW a, calls' = SetTop(a), signal' = "run",
         a.op \notin {"call", "choice"}
  PROVE  ChoicesHeld'
BY HeldSet DEF Counted

(* An activation that is neither makes a call and stays as it is.          *)
LEMMA HeldCall ==
  ASSUME Inv, ChoicesHeld, calls # <<>>, Top.op \notin {"call", "choice"},
         NEW n, calls' = Append(calls, Call(n))
  PROVE  ChoicesHeld'
<1>1. /\ calls' = Append(SetTop(Top), Call(n))
      /\ Call(n).op # "choice" /\ Counted(Call(n)) /\ Counted(Top)
  BY SetTopSame DEF Call, Activate, Counted
<1>2. QED
  BY <1>1, HeldCalled

----------------------------------------------------------------------------
(* The actions keep it.                                                    *)

LEMMA OpenGroupHeld == Inv /\ ChoicesHeld /\ OpenGroup => ChoicesHeld'
<1> SUFFICES ASSUME Inv, ChoicesHeld, OpenGroup PROVE ChoicesHeld'
  OBVIOUS
<1>1. calls # <<>> /\ env \in Env /\ Top \in Activation /\ Top.node \in Node
  BY Types DEF OpenGroup, In
<1>2. PICK a \in ScopeResults(Top.node, env) :
        IF a.res # "ok"
        THEN Return(a.res, a.env)
        ELSE \E b \in SetResults(Top.node, a.env) :
               IF b.res # "ok"
               THEN CloseGroup(b.res, b.env)
               ELSE /\ Signal("run")
                    /\ env' = b.env
                    /\ calls' = SetTop([Top EXCEPT !.op = Kind[Top.node],
                                                   !.saved = b.env, !.entry = b.env])
  BY DEF OpenGroup
<1>3. a.res \in {"ok", "fail", "sde"} /\ a.env \in Env
  BY <1>1, ScopeType
<1>4. CASE a.res # "ok"
  BY <1>1, <1>2, <1>3, <1>4, HeldReturn DEF Results
<1>5. CASE a.res = "ok"
  <2>1. PICK b \in SetResults(Top.node, a.env) :
          IF b.res # "ok"
          THEN CloseGroup(b.res, b.env)
          ELSE /\ Signal("run")
               /\ env' = b.env
               /\ calls' = SetTop([Top EXCEPT !.op = Kind[Top.node],
                                              !.saved = b.env, !.entry = b.env])
    BY <1>2, <1>5
  <2>2. b.res \in {"ok", "fail", "sde"} /\ b.env \in Env
    BY <1>1, <1>3, SetType
  <2>3. CASE b.res # "ok"
    BY <1>1, <2>1, <2>2, <2>3, HeldReturn DEF Results
  <2>4. CASE b.res = "ok"
    <3> DEFINE t == [Top EXCEPT !.op = Kind[Top.node], !.saved = b.env, !.entry = b.env]
    <3>1. calls' = SetTop(t) /\ signal' = "run" /\ env' = b.env
      BY <2>1, <2>4 DEF Signal
    <3>2. t.entry = b.env /\ t.op \in {"sequence", "choice"} /\ t.frame = 0
      BY <1>1, RunFrame DEF Activation, OpenGroup, In
    <3> HIDE DEF t
    <3>3. Alike(t, env') /\ Counted(t)
      BY <3>1, <3>2 DEF Alike, Counted
    <3>4. QED
      BY <1>1, <3>1, <3>3, HeldSet
  <2>5. QED
    BY <2>3, <2>4
<1>6. QED
  BY <1>4, <1>5

(* The header of a sequence: it goes on, or returns.                       *)
LEMMA SequenceHeaderHeld == Inv /\ ChoicesHeld /\ SequenceHeader => ChoicesHeld'
<1> SUFFICES ASSUME Inv, ChoicesHeld, SequenceHeader PROVE ChoicesHeld'
  OBVIOUS
<1>1. calls # <<>> /\ Top \in Activation /\ Top.op = "sequence"
  BY Types DEF SequenceHeader, In
<1>2. CASE CloseGroup("fail", env)
  BY <1>1, <1>2, HeldReturn DEF Results
<1>3. CASE \E e : \E v \in {"fail", "sde"} : CloseGroup(v, e)
  BY <1>1, <1>3, HeldReturn DEF Results
<1>4. CASE signal' = "run" /\ calls' = SetTop([Top EXCEPT !.i = 1])
  <2>1. [Top EXCEPT !.i = 1].op \notin {"call", "choice"}
    BY <1>1 DEF Activation
  <2>2. QED
    BY <1>1, <1>4, <2>1, HeldOther
<1>5. QED
  BY <1>2, <1>3, <1>4 DEF SequenceHeader, Signal

(* A child is called, passed over, or missing.                             *)
LEMMA NextChildHeld == Inv /\ ChoicesHeld /\ NextChild => ChoicesHeld'
<1> SUFFICES ASSUME Inv, ChoicesHeld, NextChild PROVE ChoicesHeld'
  OBVIOUS
<1>1. calls # <<>> /\ signal = "run" /\ Top \in Activation /\ Top.op = "sequence"
  BY Types DEF NextChild, In
<1>2. CASE calls' = Append(calls, Call(Kids[Top.node][Top.i]))
  BY <1>1, <1>2, HeldCall
<1>3. CASE calls' = SetTop([Top EXCEPT !.i = @ + 1]) /\ UNCHANGED signal
  <2>1. [Top EXCEPT !.i = @ + 1].op \notin {"call", "choice"}
    BY <1>1 DEF Activation
  <2>2. QED
    BY <1>1, <1>3, <2>1, HeldOther
<1>4. CASE \E r \in {"fail", "sde"} : CloseGroup(r, env)
  BY <1>1, <1>4, HeldReturn DEF Results
<1>5. QED
  BY <1>2, <1>3, <1>4 DEF NextChild

(* A child has answered.                                                   *)
LEMMA ChildReturnedHeld == Inv /\ ChoicesHeld /\ ChildReturned => ChoicesHeld'
<1> SUFFICES ASSUME Inv, ChoicesHeld, ChildReturned PROVE ChoicesHeld'
  OBVIOUS
<1>1. calls # <<>> /\ Top \in Activation /\ Top.op = "sequence"
  BY Types DEF ChildReturned, Back
<1>2. CASE \E j : signal' = "run" /\ calls' = SetTop([Top EXCEPT !.i = j])
  <2>1. \A j : [Top EXCEPT !.i = j].op \notin {"call", "choice"}
    BY <1>1 DEF Activation
  <2>2. QED
    BY <1>1, <1>2, <2>1, HeldOther
<1>3. CASE \E r \in {"fail", "sde"} : CloseGroup(r, env)
  BY <1>1, <1>3, HeldReturn DEF Results
<1>4. QED
  BY <1>2, <1>3 DEF ChildReturned, Signal

(* A sequence ends.                                                        *)
LEMMA EndSequenceHeld == Inv /\ ChoicesHeld /\ EndSequence => ChoicesHeld'
<1> SUFFICES ASSUME Inv, ChoicesHeld, EndSequence PROVE ChoicesHeld'
  OBVIOUS
<1>1. calls # <<>> /\ \E r \in {"ok", "fail"} : \E e : CloseGroup(r, e)
  BY DEF EndSequence, In
<1>2. QED
  BY <1>1, HeldReturn DEF Results

(* The environment of a choice that runs, and of one whose attempt is over.*)
LEMMA ChoiceRuns ==
  ASSUME Inv, ChoicesHeld, In("choice")
  PROVE  Alike(Top, env)
<1>1. Len(calls) \in Nat \ {0} /\ Top = calls[Len(calls)]
  BY TopFacts DEF Inv, TypeOK, In
<1>2. QED
  BY <1>1 DEF In, ChoicesHeld

(* After an attempt it is the saved environment that is alike.             *)
LEMMA ChoiceBack ==
  ASSUME Inv, ChoicesHeld, Back("choice")
  PROVE  Alike(Top, Top.saved)
<1>1. Len(calls) \in Nat \ {0} /\ Top = calls[Len(calls)] /\ signal # "run"
  BY TopFacts DEF Inv, TypeOK, Back, Results
<1>2. QED
  BY <1>1 DEF Back, ChoicesHeld

(* A choice leaves its header in the environment it began with.            *)
LEMMA ChoiceHeaderHeld == Inv /\ ChoicesHeld /\ ChoiceHeader => ChoicesHeld'
<1> SUFFICES ASSUME Inv, ChoicesHeld, ChoiceHeader PROVE ChoicesHeld'
  OBVIOUS
<1>1. calls # <<>> /\ Top \in Activation /\ Top.i = 0 /\ Alike(Top, env)
  BY Types, ChoiceRuns DEF ChoiceHeader, In
<1>2. CASE CloseGroup("fail", env)
  BY <1>1, <1>2, HeldReturn DEF Results
<1>3. CASE Signal("run") /\ calls' = SetTop([Top EXCEPT !.i = 1]) /\ UNCHANGED env
  <2> DEFINE t == [Top EXCEPT !.i = 1]
  <2>1. t.entry = Top.entry /\ t.node = Top.node /\ t.i = 1 /\ t.op = "choice"
    BY <1>1 DEF Activation, ChoiceHeader, In
  <2>2. Messages(Top.node, 0) \subseteq Messages(Top.node, 1)
    BY DEF Messages
  <2> HIDE DEF t
  <2>3. Alike(t, env) /\ Counted(t)
    BY <1>1, <2>1, <2>2 DEF Alike, Counted
  <2>4. calls' = SetTop(t) /\ signal' = "run" /\ env' = env
    BY <1>3 DEF Signal, t
  <2>5. QED
    BY <1>1, <2>3, <2>4, HeldSet
<1>4. QED
  BY <1>2, <1>3 DEF ChoiceHeader

(* Going to the next branch adds what its message has read.                *)
LEMMA MoreMessages ==
  ASSUME NEW n \in Node, NEW i \in Nat
  PROVE  /\ Messages(n, i) \subseteq Messages(n, i + 1)
         /\ i \in 1..Len(Kids[n]) => ReadVars[PreNode[Kids[n][i]]] \subseteq Messages(n, i + 1)
<1>1. 1..(i - 1) \subseteq 1..(i + 1 - 1) /\ (i >= 1 => i \in 1..(i + 1 - 1))
  OBVIOUS
<1>2. QED
  BY <1>1 DEF Messages

(* A branch is attempted with the environment saved, or passed over: then  *)
(* only the reads of its message are added.                                *)
LEMMA TryBranchHeld == Inv /\ ChoicesHeld /\ TryBranch => ChoicesHeld'
<1> SUFFICES ASSUME Inv, ChoicesHeld, TryBranch PROVE ChoicesHeld'
  OBVIOUS
<1>1. /\ calls # <<>> /\ Top \in Activation /\ Top.node \in Node /\ Top.i \in Nat
      /\ Top.i \in 1..Len(Kids[Top.node]) /\ Top.op = "choice" /\ Alike(Top, env)
      /\ signal = "run" /\ env \in Env
  BY Types, ChoiceRuns DEF TryBranch, In
<1>2. CASE \E stack : EnterBranch(stack)
  <2> DEFINE t == [Top EXCEPT !.frame = Len(pou) + 1, !.saved = env]
  <2>1. /\ t.entry = Top.entry /\ t.node = Top.node /\ t.saved = env
        /\ t.i = Top.i /\ t.i > 0 /\ t.op = "choice"
    BY <1>1 DEF Activation
  <2>2. /\ calls' = Append(SetTop(t), Call(Branch))
        /\ Call(Branch).op # "choice" /\ Counted(Call(Branch))
    BY <1>2 DEF EnterBranch, Call, Activate, Counted
  <2> HIDE DEF t
  <2>3. Alike(t, t.saved) /\ Counted(t)
    BY <1>1, <2>1 DEF Alike, Counted
  <2>4. QED
    BY <1>1, <2>2, <2>3, HeldCalled
<1>3. ASSUME NEW R \in SUBSET Var, SkipBranch(R), R \subseteq Messages(Top.node, Top.i + 1)
      PROVE  ChoicesHeld'
  <2> DEFINE t == [Top EXCEPT !.i = @ + 1]
  <2>1. t.entry = Top.entry /\ t.node = Top.node /\ t.i = Top.i + 1 /\ t.i > 0 /\ t.op = "choice"
    BY <1>1 DEF Activation
  <2>2. calls' = SetTop(t) /\ signal' = "run" /\ env' = [env EXCEPT !.reads = @ \union R]
    BY <1>1, <1>3 DEF SkipBranch
  <2>3. env'.pos = env.pos /\ env'.vals = env.vals /\ env'.reads = env.reads \union R
    BY <1>1, <2>2 DEF Env
  <2>4. Messages(Top.node, Top.i) \subseteq Messages(Top.node, Top.i + 1)
    BY <1>1, MoreMessages
  <2> HIDE DEF t
  <2>5. Alike(t, env') /\ Counted(t)
    BY <1>1, <1>3, <2>1, <2>3, <2>4 DEF Alike, Counted
  <2>6. QED
    BY <1>1, <2>2, <2>5, HeldSet
<1>4. CASE SkipBranch({})
  BY <1>3, <1>4
<1>5. CASE SkipBranch(ReadVars[PreNode[Branch]])
  <2>1. Branch \in Node
    BY <1>1, ProgramAssumption, ElementOfSeq DEF Branch
  <2>2. ReadVars[PreNode[Branch]] \in SUBSET Var
    BY <2>1, PreNodeAssumption, VariableAssumption
  <2>3. ReadVars[PreNode[Branch]] \subseteq Messages(Top.node, Top.i + 1)
    BY <1>1, MoreMessages DEF Branch
  <2>4. QED
    BY <1>3, <1>5, <2>2, <2>3
<1>6. CASE CloseGroup("sde", env)
  BY <1>1, <1>6, HeldReturn DEF Results
<1>7. QED
  BY <1>2, <1>4, <1>5, <1>6 DEF TryBranch

(* What is put back after a branch is the environment of the choice.       *)
LEMMA BranchReturnedHeld == Inv /\ ChoicesHeld /\ BranchReturned => ChoicesHeld'
<1> SUFFICES ASSUME Inv, ChoicesHeld, BranchReturned PROVE ChoicesHeld'
  OBVIOUS
<1>1. /\ calls # <<>> /\ Top \in Activation /\ Top.node \in Node /\ Top.i \in Nat
      /\ Top.op = "choice" /\ Alike(Top, Top.saved) /\ Top.saved \in Env /\ Top.entry \in Env
  BY Types, ChoiceBack DEF BranchReturned, Back
<1>2. CASE \E r \in {"ok", "fail", "sde"} : \E e : CloseGroup(r, e)
  BY <1>1, <1>2, HeldReturn DEF Results
<1>3. CASE NextAlternative
  <2> DEFINE t == [Top EXCEPT !.i = @ + 1, !.frame = 0]
  <2>1. t.entry = Top.entry /\ t.node = Top.node /\ t.i = Top.i + 1 /\ t.i > 0 /\ t.op = "choice"
    BY <1>1 DEF Activation
  <2>2. calls' = SetTop(t) /\ signal' = "run" /\ env' = Rollback
    BY <1>3 DEF NextAlternative, Signal
  <2>3. /\ Rollback.pos = Top.entry.pos /\ Rollback.vals = Top.saved.vals
        /\ Rollback.reads = Top.saved.reads
    BY <1>1 DEF Rollback, Env
  <2>4. Messages(Top.node, Top.i) \subseteq Messages(Top.node, Top.i + 1)
    BY <1>1, MoreMessages
  <2> HIDE DEF t
  <2>5. Alike(t, env') /\ Counted(t)
    BY <1>1, <2>1, <2>2, <2>3, <2>4 DEF Alike, Counted
  <2>6. QED
    BY <1>1, <2>2, <2>5, HeldSet
<1>4. QED
  BY <1>2, <1>3 DEF BranchReturned, FailChoice

(* No branch is left.                                                      *)
LEMMA EndChoiceHeld == Inv /\ ChoicesHeld /\ EndChoice => ChoicesHeld'
<1> SUFFICES ASSUME Inv, ChoicesHeld, EndChoice PROVE ChoicesHeld'
  OBVIOUS
<1>1. calls # <<>> /\ \E e : CloseGroup("fail", e)
  BY DEF EndChoice, In
<1>2. QED
  BY <1>1, HeldReturn DEF Results

(* A call becomes the loop of an element.                                  *)
LEMMA OpenElementHeld == Inv /\ ChoicesHeld /\ OpenElement => ChoicesHeld'
<1> SUFFICES ASSUME Inv, ChoicesHeld, OpenElement PROVE ChoicesHeld'
  OBVIOUS
<1>1. calls # <<>> /\ signal = "run" /\ Top \in Activation
  BY Types DEF OpenElement, In
<1>2. CASE Return("sde", env)
  BY <1>1, <1>2, HeldReturn DEF Results
<1>3. CASE calls' = SetTop([Top EXCEPT !.op = "occurrences"]) /\ UNCHANGED signal
  <2>1. [Top EXCEPT !.op = "occurrences"].op \notin {"call", "choice"}
    BY <1>1 DEF Activation
  <2>2. QED
    BY <1>1, <1>3, <2>1, HeldOther
<1>4. QED
  BY <1>2, <1>3 DEF OpenElement

(* The loop meets an empty slot.                                           *)
LEMMA EmptySlotHeld == Inv /\ ChoicesHeld /\ EmptySlot => ChoicesHeld'
<1> SUFFICES ASSUME Inv, ChoicesHeld, EmptySlot PROVE ChoicesHeld'
  OBVIOUS
<1>1. /\ calls # <<>> /\ signal = "run" /\ signal' = "run"
      /\ Top \in Activation /\ Top.op = "occurrences"
  BY Types DEF EmptySlot, In
<1>2. \/ calls' = SetTop([Top EXCEPT !.i = @ + 1])
      \/ calls' = SetTop([Top EXCEPT !.op = "stuck"])
      \/ calls' = SetTop(Top)
  BY <1>1, SetTopSame DEF EmptySlot
<1>3. /\ [Top EXCEPT !.i = @ + 1].op \notin {"call", "choice"}
      /\ [Top EXCEPT !.op = "stuck"].op \notin {"call", "choice"}
  BY <1>1 DEF Activation
<1>4. QED
  BY <1>1, <1>2, <1>3, HeldOther

(* The loop attempts an occurrence.                                        *)
LEMMA StartOccurrenceHeld == Inv /\ ChoicesHeld /\ StartOccurrence => ChoicesHeld'
<1> SUFFICES ASSUME Inv, ChoicesHeld, StartOccurrence PROVE ChoicesHeld'
  OBVIOUS
<1>1. calls # <<>> /\ Top \in Activation /\ Top.op = "occurrences"
  BY Types DEF StartOccurrence, In
<1>2. CASE Return("fail", env)
  BY <1>1, <1>2, HeldReturn DEF Results
<1>3. CASE \E f : calls' = Append(SetTop([Top EXCEPT !.frame = f, !.saved = env]),
                                  Activate("single", Top.node, env))
  <2>1. PICK f : calls' = Append(SetTop([Top EXCEPT !.frame = f, !.saved = env]),
                                 Activate("single", Top.node, env))
    BY <1>3
  <2>2. /\ [Top EXCEPT !.frame = f, !.saved = env].op # "choice"
        /\ Counted([Top EXCEPT !.frame = f, !.saved = env])
    BY <1>1 DEF Activation, Counted
  <2>3. /\ Activate("single", Top.node, env).op # "choice"
        /\ Counted(Activate("single", Top.node, env))
    BY DEF Activate, Counted
  <2>4. QED
    BY <1>1, <2>1, <2>2, <2>3, HeldCalled
<1>4. QED
  BY <1>2, <1>3 DEF StartOccurrence

(* The loop ends.                                                          *)
LEMMA EndOccurrencesHeld == Inv /\ ChoicesHeld /\ EndOccurrences => ChoicesHeld'
<1> SUFFICES ASSUME Inv, ChoicesHeld, EndOccurrences PROVE ChoicesHeld'
  OBVIOUS
<1>1. calls # <<>> /\ \E r \in Results : Return(r, env)
  BY LoopResultsType DEF EndOccurrences, In
<1>2. QED
  BY <1>1, HeldReturn

(* However the loop takes the end of an attempt.                           *)
LoopGoesOn == \E i \in {Top.i, Top.i + 1} : \E e : Resume(i, e)
LoopEnds   == \E r \in Results : \E e : Return(r, e)

(* A value lets the loop go on, or ends it.                                *)
LEMMA AcceptForms == AcceptOccurrence => LoopGoesOn \/ LoopEnds
<1> SUFFICES ASSUME AcceptOccurrence PROVE LoopGoesOn \/ LoopEnds
  OBVIOUS
<1>1. CASE \E r \in LoopResults(Top.i) : Return(r, Rewound)
  BY <1>1, LoopResultsType DEF LoopEnds
<1>2. CASE Return("fail", env)
  BY <1>2 DEF LoopEnds, Results
<1>3. QED
  BY <1>1, <1>2 DEF AcceptOccurrence, SkipSlot, LoopGoesOn

(* So does an error that is not committed.                                 *)
LEMMA AbandonForms == signal \in Results /\ AbandonOccurrence => LoopGoesOn \/ LoopEnds
<1> SUFFICES ASSUME signal \in Results, AbandonOccurrence PROVE LoopGoesOn \/ LoopEnds
  OBVIOUS
<1>1. CASE \E j, e : \E r \in LoopResults(j) : Return(r, e)
  BY <1>1, LoopResultsType DEF LoopEnds
<1>2. CASE \E r \in {"sde", "fail", "absent"} : \E e : Return(r, e)
  BY <1>2 DEF LoopEnds, Results
<1>3. CASE LoopGoesOn
  BY <1>3
<1>4. \A q : SkipSlot(Top.i, q) => LoopGoesOn
  BY DEF SkipSlot, LoopGoesOn
<1>5. QED
  BY <1>1, <1>2, <1>3, <1>4 DEF AbandonOccurrence, LoopGoesOn

(* Neither touches a choice.                                               *)
LEMMA LoopHeld ==
  ASSUME Inv, ChoicesHeld, calls # <<>>, Top.op = "occurrences", LoopGoesOn \/ LoopEnds
  PROVE  ChoicesHeld'
<1>1. CASE LoopEnds
  BY <1>1, HeldReturn DEF LoopEnds
<1>2. CASE LoopGoesOn
  <2>1. PICK i : signal' = "run" /\ calls' = SetTop([Top EXCEPT !.i = i, !.frame = 0])
    BY <1>2 DEF LoopGoesOn, Resume, Signal
  <2>2. [Top EXCEPT !.i = i, !.frame = 0].op \notin {"call", "choice"}
    BY Types DEF Activation
  <2>3. QED
    BY <2>1, <2>2, HeldOther
<1>3. QED
  BY <1>1, <1>2

(* An occurrence has answered.                                             *)
LEMMA OccurrenceReturnedHeld == Inv /\ ChoicesHeld /\ OccurrenceReturned => ChoicesHeld'
<1> SUFFICES ASSUME Inv, ChoicesHeld, OccurrenceReturned PROVE ChoicesHeld'
  OBVIOUS
<1>1. calls # <<>> /\ Top.op = "occurrences" /\ signal \in Results
  BY DEF OccurrenceReturned, Back
<1>2. Return("fail", env) => LoopEnds
  BY DEF LoopEnds, Results
<1>3. AcceptOccurrence \/ AbandonOccurrence \/ Return("fail", env)
  BY DEF OccurrenceReturned
<1>4. QED
  BY <1>1, <1>2, <1>3, AcceptForms, AbandonForms, LoopHeld

(* An item of length 0 has answered.                                       *)
LEMMA ZeroLengthReturnedHeld == Inv /\ ChoicesHeld /\ ZeroLengthReturned => ChoicesHeld'
<1> SUFFICES ASSUME Inv, ChoicesHeld, ZeroLengthReturned PROVE ChoicesHeld'
  OBVIOUS
<1>1. calls # <<>> /\ Top.op = "occurrences" /\ signal \in Results
  BY DEF ZeroLengthReturned, Back
<1>2. Return("fail", env) => LoopEnds
  BY DEF LoopEnds, Results
<1>3. Return(signal, env) => LoopEnds
  BY <1>1 DEF LoopEnds
<1>4. LoopGoesOn \/ LoopEnds
  BY <1>2, <1>3 DEF ZeroLengthReturned, LoopGoesOn
<1>5. QED
  BY <1>1, <1>4, LoopHeld

(* One occurrence ends in a return.                                        *)
LEMMA SetResultsTypes ==
  ASSUME NEW n, NEW e, NEW b \in SetResults(n, e)
  PROVE  b.res \in Results
BY DEF SetResults, Results

(* The test and the setVariable statements of an element end in a return.  *)
LEMMA FinishForms == \A e : FinishElement(e) => LoopEnds
<1> SUFFICES ASSUME NEW e, FinishElement(e) PROVE LoopEnds
  OBVIOUS
<1>1. CASE \E v \in {"fail", "sde"} : \E f : Return(v, f)
  BY <1>1 DEF LoopEnds, Results
<1>2. CASE \E f : \E b \in SetResults(Top.node, f) : Return(b.res, b.env)
  BY <1>2, SetResultsTypes DEF LoopEnds
<1>3. QED
  BY <1>1, <1>2 DEF FinishElement

(* The actions of one occurrence call its content or return.               *)
LEMMA SingleHeld ==
  ASSUME Inv, ChoicesHeld, ElementFails \/ ReadSimple \/ ReadNil \/ EnterComplex \/ ContentReturned
  PROVE  ChoicesHeld'
<1>1. calls # <<>> /\ Top.op = "single"
  BY DEF ElementFails, ReadSimple, ReadNil, EnterComplex, ContentReturned, In, Back
<1>2. LoopEnds => ChoicesHeld'
  BY <1>1, HeldReturn DEF LoopEnds
<1>3. CASE ElementFails
  <2>1. \A r \in {"fail", "sde"} \union (IF Top.node \in MayBeAbsent THEN {"absent"} ELSE {}) :
          r \in Results
    BY DEF Results
  <2>2. QED
    BY <1>2, <1>3, <2>1 DEF ElementFails, LoopEnds
<1>4. CASE ReadSimple
  BY <1>2, <1>4, FinishForms DEF ReadSimple
<1>5. CASE ReadNil
  BY <1>2, <1>5, SetResultsTypes DEF ReadNil, LoopEnds
<1>6. CASE EnterComplex
  BY <1>1, <1>6, HeldCall DEF EnterComplex
<1>7. CASE ContentReturned
  <2>1. signal \in Results
    BY <1>7 DEF ContentReturned, Back
  <2>2. LoopEnds
    BY <1>7, <2>1, FinishForms DEF ContentReturned, LoopEnds, Results
  <2>3. QED
    BY <1>2, <2>2
<1>8. QED
  BY <1>3, <1>4, <1>5, <1>6, <1>7

(* A decode starts with a single call.                                     *)
LEMMA StartDecodeHeld == StartDecode => ChoicesHeld'
<1> SUFFICES ASSUME StartDecode PROVE ChoicesHeld'
  OBVIOUS
<1>1. PICK e : calls' = <<Activate("call", root, e)>>
  BY DEF StartDecode
<1>2. Len(calls') = 1 /\ calls'[1].op # "choice" /\ Counted(calls'[1])
  BY <1>1 DEF Activate, Counted
<1>3. \A k \in 1..1 : k = 1
  OBVIOUS
<1>4. \A k \in 1..Len(calls') : calls'[k].op # "choice" /\ Counted(calls'[k])
  BY <1>2, <1>3
<1>5. QED
  BY <1>4 DEF ChoicesHeld

(* Between decodes there is no activation.                                 *)
LEMMA NoCallsHeld ==
  ASSUME calls' = <<>>
  PROVE  ChoicesHeld'
<1>1. Len(calls') = 0
  BY EmptySeq
<1>2. \A k : k \notin 1..0
  OBVIOUS
<1>3. QED
  BY <1>1, <1>2 DEF ChoicesHeld

(* Every step keeps ChoicesHeld.                                           *)
LEMMA HeldInvariant == Inv /\ ChoicesHeld /\ [Next]_vars => ChoicesHeld'
<1> SUFFICES ASSUME Inv, ChoicesHeld, [Next]_vars PROVE ChoicesHeld'
  OBVIOUS
<1>1. CASE StartDecode
  BY <1>1, StartDecodeHeld
<1>2. CASE EndDecode
  BY <1>2, NoCallsHeld DEF EndDecode
<1>3. CASE OpenGroup \/ SequenceHeader \/ NextChild \/ ChildReturned \/ EndSequence
  BY <1>3, OpenGroupHeld, SequenceHeaderHeld, NextChildHeld, ChildReturnedHeld, EndSequenceHeld
<1>4. CASE ChoiceHeader \/ TryBranch \/ BranchReturned \/ EndChoice
  BY <1>4, ChoiceHeaderHeld, TryBranchHeld, BranchReturnedHeld, EndChoiceHeld
<1>5. CASE OpenElement \/ EmptySlot \/ StartOccurrence \/ EndOccurrences
  BY <1>5, OpenElementHeld, EmptySlotHeld, StartOccurrenceHeld, EndOccurrencesHeld
<1>6. CASE OccurrenceReturned \/ ZeroLengthReturned
  BY <1>6, OccurrenceReturnedHeld, ZeroLengthReturnedHeld
<1>7. CASE ElementFails \/ ReadSimple \/ ReadNil \/ EnterComplex \/ ContentReturned
  BY <1>7, SingleHeld
<1>8. CASE UNCHANGED vars
  BY <1>8 DEF vars, ChoicesHeld
<1>9. QED
  BY <1>1, <1>2, <1>3, <1>4, <1>5, <1>6, <1>7, <1>8 DEF Next, Run

(* It holds initially.                                                     *)
LEMMA HeldInitially == Init => ChoicesHeld
<1> SUFFICES ASSUME Init PROVE ChoicesHeld
  OBVIOUS
<1>1. Len(calls) = 0
  BY EmptySeq DEF Init
<1>2. \A k : k \notin 1..0
  OBVIOUS
<1>3. QED
  BY <1>1, <1>2 DEF ChoicesHeld

(* It always holds, with the invariant of the frames.                      *)
LEMMA HeldAlways == Spec => [](Inv /\ ChoicesHeld)
<1>1. Init => Inv /\ ChoicesHeld
  BY InitInv, HeldInitially
<1>2. Inv /\ ChoicesHeld /\ [Next]_vars => (Inv /\ ChoicesHeld)'
  BY NextInv, HeldInvariant
<1>3. QED
  BY <1>1, <1>2, PTL DEF Spec

(* Every branch of a choice starts with the cursor and the variables that  *)
(* the choice itself started with, whatever the branches before it did:    *)
(* choices inside choices, scopes that were half entered, branches that    *)
(* failed after they had set variables.                                    *)
THEOREM BranchesCorrect == Spec => []BranchesStartAlike
<1>1. Inv /\ ChoicesHeld => BranchesStartAlike
  <2> SUFFICES ASSUME Inv, ChoicesHeld, In("choice")
               PROVE  /\ env.pos = Top.entry.pos
                      /\ env.vals = Top.entry.vals
                      /\ Top.entry.reads \subseteq env.reads
                      /\ env.reads \subseteq Top.entry.reads \union Messages(Top.node, Top.i)
    BY DEF BranchesStartAlike, Messages
  <2>1. QED
    BY ChoiceRuns DEF Alike
<1>2. QED
  BY <1>1, HeldAlways, PTL
=============================================================================
