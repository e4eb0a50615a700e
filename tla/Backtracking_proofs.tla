------------------------ MODULE Backtracking_proofs ------------------------
(***************************************************************************)
(* The decoder implements ordered choice with cut (Backtracking), for every *)
(* program, every number of variables, every length of input and every number *)
(* of decodes. Each action of Decoder is a step of Backtracking or one that it *)
(* does not see; that a branch starts from the store its choice began with is *)
(* the invariant ChoicesHeld, and that a commit marks the attempts that    *)
(* Backtracking cuts is CommitCuts.                                        *)
(***************************************************************************)
EXTENDS Decoder_proofs

----------------------------------------------------------------------------
(* The decoder as ordered choice with cut.                                 *)

(* The values the variables of Backtracking have in a state of the decoder.*)
Tasks == [k \in DOMAIN calls |-> AsTask(calls[k])]

Answered ==
  CASE signal \in {"run", "idle"} -> "none"
    [] signal = "ok" -> "yes"
    [] OTHER -> "no"

TopTask   == Tasks[Len(Tasks)]
RestTasks == SubSeq(Tasks, 1, Len(Tasks) - 1)

Begun(kind, start) ==
  [kind |-> kind, done |-> 0, trying |-> FALSE, cut |-> FALSE, start |-> start]

OpenTasks(s) == {k \in DOMAIN s : s[k].kind = "choice" /\ s[k].trying /\ ~s[k].cut}

CutTasks(s) ==
  [k \in DOMAIN s |->
     [s[k] EXCEPT !.cut = @ \/ /\ s[k].trying
                               /\ \A c \in OpenTasks(s) : c <= k \/ \E d \in OpenTasks(s) : d > c]]

(* The actions of Backtracking, in those terms: a plain task goes on,      *)
(* calls, becomes a choice or a loop, or ends; and it may cut.             *)
LEMMA WorkStep ==
  ASSUME Tasks = <<>> \/ TopTask.kind = "task",
         NEW s \in {Tasks, Append(Tasks, Begun("task", {}))}
                     \union (IF Tasks = <<>> THEN {}
                             ELSE {RestTasks, Append(RestTasks, Begun("choice", {Store(env')})),
                                   Append(RestTasks, Begun("loop", {}))}),
         Tasks' = s \/ Tasks' = CutTasks(s)
  PROVE  Abstract!Next
BY DEF Abstract!Next, Abstract!Work, Abstract!Top, Abstract!Rest, Abstract!With, Abstract!Task,
       Abstract!Begin, Abstract!Cut, Abstract!OpenChoices, Tasks, TopTask, RestTasks, Begun,
       CutTasks, OpenTasks, Store

(* An alternative or an occurrence is attempted.                           *)
LEMMA AttemptTask ==
  ASSUME Tasks # <<>>, TopTask.kind \in {"choice", "loop"}, ~TopTask.trying, Answered = "none",
         NEW c \in BOOLEAN,
         Tasks' = Append(Append(RestTasks, [TopTask EXCEPT !.trying = TRUE, !.cut = c]),
                         Begun("task", {})),
         Answered' = "none", Store(env') = Store(env)
  PROVE  Abstract!Next
BY DEF Abstract!Next, Abstract!Attempt, Abstract!Runs, Abstract!Top, Abstract!Rest,
       Abstract!With, Abstract!Task, Abstract!Begin, Tasks, TopTask, RestTasks, Begun,
       Answered, Store

(* A choice passes over an alternative.                                    *)
LEMMA PassOverTask ==
  ASSUME Tasks # <<>>, TopTask.kind = "choice", ~TopTask.trying, Answered = "none",
         Tasks' = Append(RestTasks, [TopTask EXCEPT !.done = @ + 1]),
         Answered' = "none", Store(env') = Store(env)
  PROVE  Abstract!Next
BY DEF Abstract!Next, Abstract!PassOver, Abstract!Runs, Abstract!Top, Abstract!Rest,
       Abstract!With, Tasks, TopTask, RestTasks, Answered, Store

(* A choice gives up.                                                      *)
LEMMA GiveUpTask ==
  ASSUME Tasks # <<>>, TopTask.kind = "choice", ~TopTask.trying, Answered = "none",
         Tasks' = RestTasks, Answered' = "no"
  PROVE  Abstract!Next
BY DEF Abstract!Next, Abstract!GiveUp, Abstract!Runs, Abstract!Top, Abstract!Rest,
       Tasks, TopTask, RestTasks, Answered

(* An alternative has ended.                                               *)
LEMMA ChooseTask ==
  ASSUME Tasks # <<>>, TopTask.kind = "choice", TopTask.trying, Answered # "none",
         \/ Tasks' = RestTasks /\ Answered' = "yes" /\ Answered = "yes"
         \/ Tasks' = RestTasks /\ Answered' = "no"
         \/ /\ ~TopTask.cut
            /\ Tasks' = Append(RestTasks, [TopTask EXCEPT !.done = @ + 1, !.trying = FALSE])
            /\ Store(env') \in TopTask.start /\ Answered' = "none"
  PROVE  Abstract!Next
BY DEF Abstract!Next, Abstract!Choose, Abstract!Ended, Abstract!Top, Abstract!Rest,
       Abstract!With, Tasks, TopTask, RestTasks, Answered, Store

(* A loop steps over something, or ends.                                   *)
LEMMA IterateTask ==
  ASSUME Tasks # <<>>, TopTask.kind = "loop", ~TopTask.trying, Answered = "none",
         \/ /\ Answered' = "none"
            /\ \E j \in {0, 1} : Tasks' = Append(RestTasks, [TopTask EXCEPT !.done = @ + j])
         \/ Answered' # "none" /\ Tasks' = RestTasks
  PROVE  Abstract!Next
BY DEF Abstract!Next, Abstract!Iterate, Abstract!Runs, Abstract!Top, Abstract!Rest,
       Abstract!With, Tasks, TopTask, RestTasks, Answered

(* An occurrence has ended.                                                *)
LEMMA OccurTask ==
  ASSUME Tasks # <<>>, TopTask.kind = "loop", TopTask.trying, Answered # "none",
         TopTask.cut /\ Answered = "no" => Answered' = "no",
         \/ Answered' # "none" /\ Tasks' = RestTasks
         \/ /\ Answered' = "none"
            /\ \E j \in {0, 1} :
                 Tasks' = Append(RestTasks, [TopTask EXCEPT !.done = @ + j, !.trying = FALSE,
                                                            !.cut = FALSE])
  PROVE  Abstract!Next
BY DEF Abstract!Next, Abstract!Occur, Abstract!Ended, Abstract!Top, Abstract!Rest,
       Abstract!With, Tasks, TopTask, RestTasks, Answered

----------------------------------------------------------------------------
(* The stack of tasks, element by element.                                 *)

(* A stack of n elements, as a function.                                   *)
IsStack(T, n) == T = [k \in 1..n |-> T[k]]

(* A sequence is determined by its elements.                               *)
LEMMA SameStack ==
  ASSUME NEW S, NEW Q \in Seq(S), NEW n \in Nat, Len(Q) = n,
         NEW R, IsStack(R, n), \A k \in 1..n : R[k] = Q[k]
  PROVE  R = Q
<1>1. Q \in [1..n -> S]
  BY LenProperties
<1>2. Q = [k \in 1..n |-> Q[k]]
  BY <1>1
<1>3. QED
  BY <1>2 DEF IsStack

(* A function on 1..n is a sequence.                                       *)
LEMMA FunctionIsStack ==
  ASSUME NEW S, NEW n \in Nat, NEW T, IsStack(T, n), \A k \in 1..n : T[k] \in S
  PROVE  T \in Seq(S) /\ Len(T) = n
<1>0. T = [k \in 1..n |-> T[k]]
  BY DEF IsStack
<1>1. [k \in 1..n |-> T[k]] \in Seq(S)
  BY IsASeq
<1>2. T \in Seq(S) /\ DOMAIN T = 1..n
  BY <1>0, <1>1
<1>3. Len(T) \in Nat /\ 1..Len(T) = 1..n
  BY <1>2, LenProperties
<1>4. ASSUME NEW m \in Nat, 1..m = 1..n PROVE m = n
  <2>1. ~ m < n
    <3>1. m < n => n \in 1..n /\ n \notin 1..m
      OBVIOUS
    <3>2. QED
      BY <1>4, <3>1
  <2>2. ~ n < m
    <3>1. n < m => m \in 1..m /\ m \notin 1..n
      OBVIOUS
    <3>2. QED
      BY <1>4, <3>1
  <2>3. QED
    BY <2>1, <2>2
<1>5. QED
  BY <1>2, <1>3, <1>4

(* What a stack R of m elements is that agrees with one of n, T, below its *)
(* top.                                                                    *)
AgreesBelow(R, T, n) == \A k \in 1..(n - 1) : R[k] = T[k]

BuiltFrom(R, m, T, n) ==
  /\ m = n - 1 => R = Pop(T)
  /\ m = n => R = Append(Pop(T), R[n])
  /\ m = n + 1 => R = Append(Append(Pop(T), R[n]), R[n + 1])
  /\ m = n + 1 /\ R[n] = T[n] => R = Append(T, R[n + 1])

(* Such a stack is built from the other by popping and appending.          *)
LEMMA StackForms ==
  ASSUME NEW n \in Nat \ {0}, NEW T, IsStack(T, n), NEW m \in Nat, NEW R, IsStack(R, m),
         m >= n - 1, AgreesBelow(R, T, n)
  PROVE  BuiltFrom(R, m, T, n)
<1> DEFINE S == {T[k] : k \in 1..n} \union {R[k] : k \in 1..m}
           rest == Pop(T)
<1>1. /\ \A k \in 1..n : T[k] \in S
      /\ \A k \in 1..m : R[k] \in S
  OBVIOUS
<1> HIDE DEF S
<1>2. T \in Seq(S) /\ Len(T) = n /\ T # <<>>
  <2>1. T \in Seq(S) /\ Len(T) = n
    BY <1>1, FunctionIsStack
  <2>2. QED
    BY <2>1, EmptySeq
<1>3. /\ rest \in Seq(S) /\ Len(rest) = n - 1
      /\ \A k \in 1..(n - 1) : rest[k] = T[k]
  BY <1>2, PopFacts
<1>4. \A k \in 1..(n - 1) : R[k] = T[k]
  BY DEF AgreesBelow
<1> HIDE DEF rest
<1>5. ASSUME m = n - 1 PROVE R = rest
  <2>1. Len(rest) = m /\ \A k \in 1..m : R[k] = rest[k]
    BY <1>3, <1>4, <1>5
  <2>2. QED
    BY <1>3, <2>1, SameStack
<1>6. ASSUME m = n \/ m = n + 1
      PROVE  /\ Append(rest, R[n]) \in Seq(S) /\ Len(Append(rest, R[n])) = n
             /\ \A k \in 1..n : Append(rest, R[n])[k] = R[k]
  <2>1. R[n] \in S
    BY <1>1, <1>6
  <2> DEFINE A == Append(rest, R[n])
  <2>2. /\ A \in Seq(S) /\ Len(A) = n
        /\ \A k \in 1..(n - 1) : A[k] = rest[k]
        /\ A[n] = R[n]
    BY <1>3, <2>1, AppendProperties
  <2> HIDE DEF A
  <2>3. ASSUME NEW k \in 1..n PROVE A[k] = R[k]
    <3>1. k = n \/ k \in 1..(n - 1)
      OBVIOUS
    <3>2. QED
      BY <1>3, <1>4, <2>2, <3>1
  <2>4. QED
    BY <2>2, <2>3 DEF A
<1>7. ASSUME m = n PROVE R = Append(rest, R[n])
  BY <1>6, <1>7, SameStack
<1>8. ASSUME m = n + 1, NEW A \in Seq(S), Len(A) = n, \A k \in 1..n : A[k] = R[k]
      PROVE  R = Append(A, R[n + 1])
  <2>1. R[n + 1] \in S
    BY <1>1, <1>8
  <2> DEFINE B == Append(A, R[n + 1])
  <2>2. /\ B \in Seq(S) /\ Len(B) = n + 1
        /\ \A k \in 1..n : B[k] = A[k]
        /\ B[n + 1] = R[n + 1]
    BY <1>8, <2>1, AppendProperties
  <2> HIDE DEF B
  <2>3. ASSUME NEW k \in 1..(n + 1) PROVE B[k] = R[k]
    <3>1. k = n + 1 \/ k \in 1..n
      OBVIOUS
    <3>2. QED
      BY <1>8, <2>2, <3>1
  <2>4. R = B
    BY <1>8, <2>2, <2>3, SameStack
  <2>5. QED
    BY <2>4 DEF B
<1>9. ASSUME m = n + 1 PROVE R = Append(Append(rest, R[n]), R[n + 1])
  BY <1>6, <1>8, <1>9
<1>10. ASSUME m = n + 1, R[n] = T[n] PROVE R = Append(T, R[n + 1])
  <2>1. ASSUME NEW k \in 1..n PROVE T[k] = R[k]
    <3>1. k = n \/ k \in 1..(n - 1)
      OBVIOUS
    <3>2. QED
      BY <1>4, <1>10, <3>1
  <2>2. QED
    BY <1>2, <1>8, <1>10, <2>1
<1>11. QED
  BY <1>2, <1>5, <1>7, <1>9, <1>10 DEF rest, BuiltFrom

----------------------------------------------------------------------------
(* The task of an activation a when the stack of frames is p.              *)
Record(kind, done, trying, cut, start) ==
  [kind |-> kind, done |-> done, trying |-> trying, cut |-> cut, start |-> start]

Done(a) ==
  CASE a.op = "choice" /\ a.i > 0 -> a.i - 1
    [] TaskKind(a) = "loop" -> a.i
    [] OTHER -> 0

Start(a) == IF a.op = "choice" THEN {Store(a.entry)} ELSE {}

TaskOf(a, p) ==
  Record(TaskKind(a), Done(a), a.frame # 0, a.frame # 0 /\ p[a.frame].committed, Start(a))

TaskList(c, p) == [k \in DOMAIN c |-> TaskOf(c[k], p)]

(* The tasks are those of the call stack, before and after a step.         *)
LEMMA TasksAre == Tasks = TaskList(calls, pou) /\ Tasks' = TaskList(calls', pou')
BY DEF Tasks, TaskList, TaskOf, AsTask, Record, Done, Start

(* The fields of a task.                                                   *)
LEMMA RecordFields ==
  ASSUME NEW k, NEW d, NEW t, NEW x, NEW s
  PROVE  /\ Record(k, d, t, x, s).kind = k /\ Record(k, d, t, x, s).done = d
         /\ Record(k, d, t, x, s).trying = t /\ Record(k, d, t, x, s).cut = x
         /\ Record(k, d, t, x, s).start = s
BY DEF Record

(* A task with another mark.                                               *)
LEMMA RecordCut ==
  ASSUME NEW k, NEW d, NEW t, NEW x, NEW s, NEW y
  PROVE  [Record(k, d, t, x, s) EXCEPT !.cut = y] = Record(k, d, t, y, s)
BY DEF Record

(* A task with another count.                                              *)
LEMMA RecordDone ==
  ASSUME NEW k, NEW d, NEW t, NEW x, NEW s, NEW e
  PROVE  [Record(k, d, t, x, s) EXCEPT !.done = e] = Record(k, e, t, x, s)
BY DEF Record

(* A task that attempts, or no longer does.                                *)
LEMMA RecordTrying ==
  ASSUME NEW k, NEW d, NEW t, NEW x, NEW s, NEW u
  PROVE  [Record(k, d, t, x, s) EXCEPT !.trying = u] = Record(k, d, u, x, s)
BY DEF Record

(* A task that attempts nothing, one with an attempt in flight, one whose  *)
(* attempt has not been cut, and what is left of an attempt that is over.  *)
Waiting(kind, done, start)        == Record(kind, done, FALSE, FALSE, start)
Attempted(kind, done, cut, start) == Record(kind, done, TRUE, cut, start)
Uncut(kind, done, start)          == Record(kind, done, TRUE, FALSE, start)
Over(kind, done, cut, start)      == Record(kind, done, FALSE, cut, start)

(* A waiting task counts one more.                                         *)
LEMMA TaskCounts ==
  ASSUME NEW k, NEW d, NEW s, NEW e
  PROVE  [Waiting(k, d, s) EXCEPT !.done = e] = Waiting(k, e, s)
<1>1. PICK no : no = FALSE
  OBVIOUS
<1>2. [Record(k, d, no, no, s) EXCEPT !.done = e] = Record(k, e, no, no, s)
  BY RecordDone
<1>3. Record(k, d, no, no, s) = Waiting(k, d, s) /\ Record(k, e, no, no, s) = Waiting(k, e, s)
  BY <1>1 DEF Waiting
<1>4. QED
  BY <1>2, <1>3

(* An attempt begins.                                                      *)
LEMMA TaskAttempts ==
  ASSUME NEW k, NEW d, NEW s, NEW c
  PROVE  [Waiting(k, d, s) EXCEPT !.trying = TRUE, !.cut = c] = Attempted(k, d, c, s)
<1>1. PICK no : no = FALSE
  OBVIOUS
<1>2. PICK yes : yes = TRUE
  OBVIOUS
<1>3. [Record(k, d, no, no, s) EXCEPT !.trying = yes, !.cut = c] = Record(k, d, yes, c, s)
  <2> DEFINE r == Record(k, d, no, no, s)
  <2>1. [r EXCEPT !.trying = yes, !.cut = c] = [[r EXCEPT !.trying = yes] EXCEPT !.cut = c]
    OBVIOUS
  <2>2. [r EXCEPT !.trying = yes] = Record(k, d, yes, no, s)
    BY RecordTrying
  <2>3. [Record(k, d, yes, no, s) EXCEPT !.cut = c] = Record(k, d, yes, c, s)
    BY RecordCut
  <2>4. QED
    BY <2>1, <2>2, <2>3, Zenon
<1>4. Record(k, d, no, no, s) = Waiting(k, d, s) /\ Record(k, d, yes, c, s) = Attempted(k, d, c, s)
  BY <1>1, <1>2 DEF Waiting, Attempted
<1>5. [Waiting(k, d, s) EXCEPT !.trying = yes, !.cut = c] = Attempted(k, d, c, s)
  BY <1>3, <1>4
<1>6. QED
  BY <1>2, <1>5

(* A task with an attempt that was not cut counts one more.                *)
LEMMA UncutCounts ==
  ASSUME NEW k, NEW d, NEW s, NEW e
  PROVE  [Uncut(k, d, s) EXCEPT !.done = e] = Uncut(k, e, s)
<1>1. PICK no : no = FALSE
  OBVIOUS
<1>2. PICK yes : yes = TRUE
  OBVIOUS
<1>3. [Record(k, d, yes, no, s) EXCEPT !.done = e] = Record(k, e, yes, no, s)
  BY RecordDone, RecordTrying, RecordCut
<1>4. Record(k, d, yes, no, s) = Uncut(k, d, s) /\ Record(k, e, yes, no, s) = Uncut(k, e, s)
  BY <1>1, <1>2 DEF Waiting, Attempted, Uncut, Over
<1>5. [Uncut(k, d, s) EXCEPT !.done = e] = Uncut(k, e, s)
  BY <1>3, <1>4
<1>6. QED
  BY <1>1, <1>5

(* It gives the attempt up.                                                *)
LEMMA UncutEnds ==
  ASSUME NEW k, NEW d, NEW s
  PROVE  [Uncut(k, d, s) EXCEPT !.trying = FALSE] = Waiting(k, d, s)
<1>1. PICK no : no = FALSE
  OBVIOUS
<1>2. PICK yes : yes = TRUE
  OBVIOUS
<1>3. [Record(k, d, yes, no, s) EXCEPT !.trying = no] = Record(k, d, no, no, s)
  BY RecordDone, RecordTrying, RecordCut
<1>4. Record(k, d, yes, no, s) = Uncut(k, d, s) /\ Record(k, d, no, no, s) = Waiting(k, d, s)
  BY <1>1, <1>2 DEF Waiting, Attempted, Uncut, Over
<1>5. [Uncut(k, d, s) EXCEPT !.trying = no] = Waiting(k, d, s)
  BY <1>3, <1>4
<1>6. QED
  BY <1>1, <1>5

(* A task counts one more, cut or not.                                     *)
LEMMA AttemptedCounts ==
  ASSUME NEW k, NEW d, NEW c, NEW s, NEW e
  PROVE  [Attempted(k, d, c, s) EXCEPT !.done = e] = Attempted(k, e, c, s)
<1>1. PICK no : no = FALSE
  OBVIOUS
<1>2. PICK yes : yes = TRUE
  OBVIOUS
<1>3. [Record(k, d, yes, c, s) EXCEPT !.done = e] = Record(k, e, yes, c, s)
  BY RecordDone, RecordTrying, RecordCut
<1>4. Record(k, d, yes, c, s) = Attempted(k, d, c, s) /\ Record(k, e, yes, c, s) = Attempted(k, e, c, s)
  BY <1>1, <1>2 DEF Waiting, Attempted, Uncut, Over
<1>5. [Attempted(k, d, c, s) EXCEPT !.done = e] = Attempted(k, e, c, s)
  BY <1>3, <1>4
<1>6. QED
  BY <1>1, <1>5

(* Its attempt is over.                                                    *)
LEMMA AttemptedEnds ==
  ASSUME NEW k, NEW d, NEW c, NEW s
  PROVE  [Attempted(k, d, c, s) EXCEPT !.trying = FALSE] = Over(k, d, c, s)
<1>1. PICK no : no = FALSE
  OBVIOUS
<1>2. PICK yes : yes = TRUE
  OBVIOUS
<1>3. [Record(k, d, yes, c, s) EXCEPT !.trying = no] = Record(k, d, no, c, s)
  BY RecordDone, RecordTrying, RecordCut
<1>4. Record(k, d, yes, c, s) = Attempted(k, d, c, s) /\ Record(k, d, no, c, s) = Over(k, d, c, s)
  BY <1>1, <1>2 DEF Waiting, Attempted, Uncut, Over
<1>5. [Attempted(k, d, c, s) EXCEPT !.trying = no] = Over(k, d, c, s)
  BY <1>3, <1>4
<1>6. QED
  BY <1>1, <1>5

(* The mark of an attempt that is over is forgotten.                       *)
LEMMA OverForgets ==
  ASSUME NEW k, NEW d, NEW c, NEW s
  PROVE  [Over(k, d, c, s) EXCEPT !.cut = FALSE] = Waiting(k, d, s)
<1>1. PICK no : no = FALSE
  OBVIOUS
<1>2. PICK yes : yes = TRUE
  OBVIOUS
<1>3. [Record(k, d, no, c, s) EXCEPT !.cut = no] = Record(k, d, no, no, s)
  BY RecordDone, RecordTrying, RecordCut
<1>4. Record(k, d, no, c, s) = Over(k, d, c, s) /\ Record(k, d, no, no, s) = Waiting(k, d, s)
  BY <1>1, <1>2 DEF Waiting, Attempted, Uncut, Over
<1>5. [Over(k, d, c, s) EXCEPT !.cut = no] = Waiting(k, d, s)
  BY <1>3, <1>4
<1>6. QED
  BY <1>1, <1>5

(* The tasks of a call stack are a stack of the same length.               *)
LEMMA ListFacts ==
  ASSUME NEW c \in Seq(Activation), NEW p
  PROVE  /\ Len(c) \in Nat /\ Len(TaskList(c, p)) = Len(c)
         /\ DOMAIN TaskList(c, p) = 1..Len(c)
         /\ IsStack(TaskList(c, p), Len(c))
         /\ \A k \in 1..Len(c) : TaskList(c, p)[k] = TaskOf(c[k], p)
<1>1. Len(c) \in Nat /\ DOMAIN c = 1..Len(c)
  BY LenProperties
<1>2. /\ IsStack(TaskList(c, p), Len(c))
      /\ DOMAIN TaskList(c, p) = 1..Len(c)
      /\ \A k \in 1..Len(c) : TaskList(c, p)[k] = TaskOf(c[k], p)
  BY <1>1 DEF TaskList, IsStack
<1>3. Len(TaskList(c, p)) = Len(c)
  <2> DEFINE S == {TaskOf(c[k], p) : k \in 1..Len(c)}
  <2>1. \A k \in 1..Len(c) : TaskList(c, p)[k] \in S
    BY <1>2
  <2> HIDE DEF S
  <2>2. QED
    BY <1>1, <1>2, <2>1, FunctionIsStack
<1>4. QED
  BY <1>1, <1>2, <1>3

(* The innermost task is that of the innermost activation.                 *)
LEMMA TasksBefore ==
  ASSUME Inv, calls # <<>>
  PROVE  /\ Len(calls) \in Nat \ {0} /\ Len(Tasks) = Len(calls) /\ Tasks # <<>>
         /\ TopTask = TaskOf(Top, pou)
<1>1. calls \in Seq(Activation) /\ Len(calls) \in Nat \ {0} /\ Top = calls[Len(calls)]
  BY TopFacts DEF Inv, TypeOK
<1>2. /\ Len(Tasks) = Len(calls)
      /\ \A k \in 1..Len(calls) : Tasks[k] = TaskOf(calls[k], pou)
  BY <1>1, TasksAre, ListFacts
<1>3. Len(Tasks) # 0
  BY <1>1, <1>2
<1>4. Tasks # <<>>
  BY <1>3, EmptySeq
<1>5. TopTask = TaskOf(Top, pou)
  BY <1>1, <1>2 DEF TopTask
<1>6. QED
  BY <1>1, <1>2, <1>4, <1>5

(* The frames of the callers lie below that of the innermost activation.   *)
LEMMA Below ==
  ASSUME Inv, calls # <<>>
  PROVE  \A k \in 1..(Len(calls) - 1) :
           calls[k].frame \in 0..(IF Top.frame = 0 THEN Len(pou) ELSE Len(pou) - 1)
<1> DEFINE m == Len(calls)  n == Len(pou)
<1>1. m \in Nat /\ m > 0 /\ n \in Nat /\ Top = calls[m]
  BY FramesBefore, TopFacts DEF Inv, TypeOK
<1>2. Numbered(calls, m) /\ OwnFrame(calls, m, pou, n) /\ Ordered(calls, m) /\ NoOther(calls, m, n)
  BY FramesBefore DEF Matches
<1> HIDE DEF m, n
<1>3. \A k \in 1..(m - 1) : k \in 1..m
  BY <1>1
<1>4. CASE Top.frame = 0
  BY <1>1, <1>2, <1>3, <1>4 DEF Numbered, OwnFrame, m, n
<1>5. CASE Top.frame # 0
  <2>1. n > 0 /\ \A k \in 1..(m - 1) : calls[k].frame < n
    BY <1>1, <1>2, <1>5, TopFrame
  <2>2. QED
    BY <1>1, <1>2, <1>3, <1>5, <2>1 DEF Numbered, m, n
<1>6. QED
  BY <1>4, <1>5

(* The tasks of a call stack c whose callers are those of now, with frames *)
(* p whose marks below the innermost activation are those of now.          *)
LEMMA Stacked ==
  ASSUME Inv, calls # <<>>, NEW c \in Seq(Activation), NEW p,
         Len(c) >= Len(calls) - 1, \A k \in 1..(Len(calls) - 1) : c[k] = calls[k],
         \A f \in 1..(IF Top.frame = 0 THEN Len(pou) ELSE Len(pou) - 1) :
           p[f].committed = pou[f].committed
  PROVE  LET n == Len(calls)  T == TaskList(c, p) IN
         /\ Len(c) = n - 1 => T = RestTasks
         /\ Len(c) = n => T = Append(RestTasks, TaskOf(c[n], p))
         /\ Len(c) = n /\ TaskOf(c[n], p) = TopTask => T = Tasks
         /\ Len(c) = n + 1 =>
              T = Append(Append(RestTasks, TaskOf(c[n], p)), TaskOf(c[n + 1], p))
         /\ Len(c) = n + 1 /\ TaskOf(c[n], p) = TopTask => T = Append(Tasks, TaskOf(c[n + 1], p))
<1> DEFINE n == Len(calls)  m == Len(c)  T == TaskList(c, p)
<1>1. /\ n \in Nat \ {0} /\ Len(Tasks) = n /\ IsStack(Tasks, n)
      /\ \A k \in 1..n : Tasks[k] = TaskOf(calls[k], pou)
      /\ TopTask = Tasks[n]
  BY TasksBefore, TasksAre, ListFacts DEF Inv, TypeOK, TopTask
<1>2. /\ m \in Nat /\ IsStack(T, m) /\ Len(T) = m
      /\ \A k \in 1..m : T[k] = TaskOf(c[k], p)
  BY ListFacts
<1>3. ASSUME NEW k \in 1..(n - 1) PROVE T[k] = Tasks[k]
  <2>1. k \in 1..n /\ k \in 1..m
    BY <1>1, <1>2
  <2>2. c[k] = calls[k]
    OBVIOUS
  <2>3. (calls[k].frame # 0 /\ p[calls[k].frame].committed)
          = (calls[k].frame # 0 /\ pou[calls[k].frame].committed)
    <3>1. CASE calls[k].frame = 0
      BY <3>1
    <3>2. CASE calls[k].frame # 0
      <4>1. calls[k].frame \in 1..(IF Top.frame = 0 THEN Len(pou) ELSE Len(pou) - 1)
        BY <3>2, Below, FramesBefore
      <4>2. QED
        BY <4>1
    <3>3. QED
      BY <3>1, <3>2
  <2>4. TaskOf(calls[k], p) = TaskOf(calls[k], pou)
    BY <2>3 DEF TaskOf
  <2>5. QED
    BY <1>1, <1>2, <2>1, <2>2, <2>4
<1> HIDE DEF n, m, T
<1>4. /\ m = n - 1 => T = RestTasks
      /\ m = n => T = Append(RestTasks, T[n])
      /\ m = n + 1 => T = Append(Append(RestTasks, T[n]), T[n + 1])
      /\ m = n + 1 /\ T[n] = Tasks[n] => T = Append(Tasks, T[n + 1])
  <2>1. m >= n - 1
    BY DEF m, n
  <2>2. RestTasks = Pop(Tasks)
    BY DEF RestTasks, Pop
  <2>3. /\ m = n - 1 => T = Pop(Tasks)
        /\ m = n => T = Append(Pop(Tasks), T[n])
        /\ m = n + 1 => T = Append(Append(Pop(Tasks), T[n]), T[n + 1])
        /\ m = n + 1 /\ T[n] = Tasks[n] => T = Append(Tasks, T[n + 1])
    <3>1. n \in Nat \ {0} /\ IsStack(Tasks, n) /\ m \in Nat /\ IsStack(T, m)
      BY <1>1, <1>2
    <3>2. AgreesBelow(T, Tasks, n)
      BY <1>3 DEF AgreesBelow
    <3>3. BuiltFrom(T, m, Tasks, n)
      BY <2>1, <3>1, <3>2, StackForms
    <3>4. QED
      BY <3>3 DEF BuiltFrom
  <2>4. QED
    BY <2>2, <2>3, Zenon
<1>5. ASSUME m = n, T[n] = Tasks[n] PROVE T = Tasks
  <2>1. ASSUME NEW k \in 1..n PROVE T[k] = Tasks[k]
    <3>1. k = n \/ k \in 1..(n - 1)
      BY <1>1
    <3>2. QED
      BY <1>3, <1>5, <3>1
  <2>2. QED
    BY <1>1, <1>2, <1>5, <2>1 DEF IsStack
<1>6. (m = n \/ m = n + 1 => T[n] = TaskOf(c[n], p)) /\ (m = n + 1 => T[n + 1] = TaskOf(c[n + 1], p))
  BY <1>1, <1>2
<1>7. QED
  BY <1>1, <1>4, <1>5, <1>6 DEF n, m, T

(* A commit cuts: the frames it marks are those of the attempts that a cut *)
(* reaches.                                                                *)
LEMMA CommitCuts ==
  ASSUME NEW c \in Seq(Activation), NEW p \in Seq(Frame),
         Numbered(c, Len(c)), OwnFrame(c, Len(c), p, Len(p)), Ordered(c, Len(c)),
         NoOther(c, Len(c), Len(p))
  PROVE  TaskList(c, CommitNearest(p)) = CutTasks(TaskList(c, p))
<1> DEFINE m == Len(c)  n == Len(p)  T == TaskList(c, p)  q == CommitNearest(p)
           Cutting(k) == \A a \in OpenTasks(T) : a <= k \/ \E d \in OpenTasks(T) : d > a
<1>1. m \in Nat /\ n \in Nat /\ DOMAIN c = 1..m /\ DOMAIN p = 1..n
  BY LenProperties
<1>2. /\ DOMAIN T = 1..m
      /\ \A k \in 1..m : T[k] = TaskOf(c[k], p)
  BY ListFacts
<1>3. \A f \in 1..n : q[f].committed = (p[f].committed \/ f \in Reached(p))
  BY <1>1 DEF CommitNearest
<1>4. ASSUME NEW k \in 1..m, c[k].frame # 0
      PROVE  c[k].frame \in 1..n /\ p[c[k].frame].kind = KindOf(c[k].op)
  BY <1>1, <1>4 DEF Numbered, OwnFrame
<1>5. ASSUME NEW k \in 1..m
      PROVE  k \in OpenTasks(T) <=> c[k].frame # 0 /\ c[k].frame \in UncommittedChoices(p)
  <2>1. /\ T[k].kind = TaskKind(c[k]) /\ T[k].trying = (c[k].frame # 0)
        /\ T[k].cut = (c[k].frame # 0 /\ p[c[k].frame].committed)
    BY <1>2, RecordFields DEF TaskOf
  <2>2. TaskKind(c[k]) = "choice" <=> c[k].op = "choice"
    BY DEF TaskKind
  <2>3. KindOf(c[k].op) = "Choice" <=> c[k].op = "choice"
    BY DEF KindOf
  <2>4. QED
    BY <1>1, <1>2, <1>4, <2>1, <2>2, <2>3 DEF OpenTasks, UncommittedChoices
<1>6. OpenTasks(T) \subseteq 1..m /\ UncommittedChoices(p) \subseteq 1..n
  BY <1>1, <1>2 DEF OpenTasks, UncommittedChoices
<1>7. \A g \in UncommittedChoices(p) : \E j \in OpenTasks(T) : c[j].frame = g
  <2> SUFFICES ASSUME NEW g \in UncommittedChoices(p) PROVE \E j \in OpenTasks(T) : c[j].frame = g
    OBVIOUS
  <2>1. PICK j \in 1..m : c[j].frame = g
    BY <1>6 DEF NoOther
  <2>2. g # 0
    BY <1>1, <1>6
  <2>3. j \in OpenTasks(T)
    BY <1>5, <2>1, <2>2
  <2>4. QED
    BY <2>1, <2>3
<1>8. ASSUME NEW j \in 1..m, NEW k \in 1..m, c[j].frame # 0, c[k].frame # 0
      PROVE  j < k <=> c[j].frame < c[k].frame
  <2>1. (j < k => c[j].frame < c[k].frame) /\ (k < j => c[k].frame < c[j].frame)
    BY <1>8 DEF Ordered
  <2>2. c[j].frame \in 1..n /\ c[k].frame \in 1..n
    BY <1>4, <1>8
  <2>3. j < k \/ k < j \/ j = k
    BY <1>1
  <2>4. QED
    BY <1>1, <2>1, <2>2, <2>3
<1>9. ASSUME NEW k \in 1..m, c[k].frame # 0
      PROVE  c[k].frame \in Reached(p) <=> Cutting(k)
  <2>1. ASSUME c[k].frame \in Reached(p), NEW a \in OpenTasks(T), ~ a <= k
        PROVE  \E d \in OpenTasks(T) : d > a
    <3>1. a \in 1..m /\ k < a /\ c[a].frame \in UncommittedChoices(p) /\ c[a].frame # 0
      BY <1>1, <1>5, <1>6, <2>1
    <3>2. c[k].frame < c[a].frame /\ c[k].frame \in 1..n /\ c[a].frame \in 1..n
      BY <1>4, <1>8, <1>9, <3>1
    <3>3. PICK g \in UncommittedChoices(p) : ~ g <= c[a].frame
      BY <1>1, <2>1, <3>1, <3>2 DEF Reached
    <3>4. PICK d \in OpenTasks(T) : c[d].frame = g
      BY <1>7
    <3>5. g \in 1..n /\ c[a].frame < g /\ d \in 1..m /\ g # 0
      BY <1>1, <1>6, <3>2, <3>3
    <3>6. d > a
      BY <1>8, <3>1, <3>4, <3>5
    <3>7. QED
      BY <3>6
  <2>2. ASSUME Cutting(k), NEW g \in UncommittedChoices(p), \A d \in UncommittedChoices(p) : d <= g
        PROVE  c[k].frame >= g
    <3>1. PICK j \in OpenTasks(T) : c[j].frame = g
      BY <1>7
    <3>2. j \in 1..m /\ g \in 1..n /\ c[k].frame \in 1..n /\ g # 0
      BY <1>1, <1>4, <1>6, <1>9
    <3>3. ~ \E d \in OpenTasks(T) : d > j
      <4> SUFFICES ASSUME NEW d \in OpenTasks(T), d > j PROVE FALSE
        OBVIOUS
      <4>1. d \in 1..m /\ c[d].frame # 0 /\ c[d].frame \in UncommittedChoices(p)
        BY <1>5, <1>6
      <4>2. g < c[d].frame /\ c[d].frame \in 1..n
        BY <1>6, <1>8, <3>1, <3>2, <4>1
      <4>3. QED
        BY <1>1, <2>2, <3>2, <4>1, <4>2
    <3>4. j <= k
      BY <2>2, <3>1, <3>3
    <3>5. ~ c[k].frame < c[j].frame
      BY <1>8, <1>9, <3>1, <3>2, <3>4
    <3>6. QED
      BY <1>1, <3>1, <3>2, <3>5
  <2>3. c[k].frame \in DOMAIN p
    BY <1>1, <1>4, <1>9
  <2>4. QED
    BY <2>1, <2>2, <2>3 DEF Reached
<1>10. ASSUME NEW k \in 1..m
       PROVE  TaskOf(c[k], q) = [T[k] EXCEPT !.cut = @ \/ (T[k].trying /\ Cutting(k))]
  <2>1. T[k] = TaskOf(c[k], p)
    BY <1>2
  <2>2. (c[k].frame # 0 /\ q[c[k].frame].committed)
          = ((c[k].frame # 0 /\ p[c[k].frame].committed) \/ (c[k].frame # 0 /\ Cutting(k)))
    <3>1. CASE c[k].frame = 0
      BY <3>1
    <3>2. CASE c[k].frame # 0
      <4>1. c[k].frame \in 1..n
        BY <1>4, <3>2
      <4>2. q[c[k].frame].committed = (p[c[k].frame].committed \/ c[k].frame \in Reached(p))
        BY <1>3, <4>1
      <4>3. p[c[k].frame].committed \in BOOLEAN
        <5>1. p[c[k].frame] \in Frame
          BY <4>1, ElementOfSeq
        <5>2. QED
          BY <5>1 DEF Frame
      <4> HIDE DEF Cutting
      <4>4. (c[k].frame \in Reached(p)) <=> Cutting(k)
        BY <1>9, <3>2
      <4>5. QED
        BY <3>2, <4>2, <4>3, <4>4
    <3>3. QED
      BY <3>1, <3>2
  <2> HIDE DEF Cutting, T, q
  <2> DEFINE Cutted(x) == Record(TaskKind(c[k]), Done(c[k]), c[k].frame # 0, x, Start(c[k]))
  <2>3. \A x : [TaskOf(c[k], p) EXCEPT !.cut = x] = Cutted(x)
    BY RecordCut DEF TaskOf
  <2>4. TaskOf(c[k], q) = Cutted(c[k].frame # 0 /\ q[c[k].frame].committed)
    BY DEF TaskOf
  <2>5. (T[k].cut \/ (T[k].trying /\ Cutting(k)))
          = ((c[k].frame # 0 /\ p[c[k].frame].committed) \/ (c[k].frame # 0 /\ Cutting(k)))
    <3>1. /\ T[k].cut = (c[k].frame # 0 /\ p[c[k].frame].committed)
          /\ T[k].trying = (c[k].frame # 0)
      BY <2>1, RecordFields DEF TaskOf
    <3>2. QED
      BY <3>1, Zenon
  <2> HIDE DEF Cutted
  <2>6. [T[k] EXCEPT !.cut = @ \/ (T[k].trying /\ Cutting(k))]
          = Cutted(T[k].cut \/ (T[k].trying /\ Cutting(k)))
    BY <2>1, <2>3
  <2>7. QED
    BY <2>2, <2>4, <2>5, <2>6, Zenon
<1>11. TaskList(c, q) = [k \in 1..m |-> TaskOf(c[k], q)]
  BY <1>1 DEF TaskList
<1>12. CutTasks(T) = [k \in 1..m |-> [T[k] EXCEPT !.cut = @ \/ (T[k].trying /\ Cutting(k))]]
  BY <1>2 DEF CutTasks
<1>13. QED
  BY <1>10, <1>11, <1>12

----------------------------------------------------------------------------
(* What the steps of the decoder do to the tasks.                          *)

FramesFollow ==
  /\ Numbered(calls, Len(calls)) /\ OwnFrame(calls, Len(calls), pou, Len(pou))
  /\ Ordered(calls, Len(calls)) /\ NoOther(calls, Len(calls), Len(pou))

(* The frames follow the calls before a step ...                           *)
LEMMA FollowNow == Inv => FramesFollow
BY FramesBefore DEF Matches, FramesFollow

(* ... and after it.                                                       *)
LEMMA FollowNext == Inv' => FramesFollow'
BY FollowNow, PTL

(* The task of an activation that attempts nothing.                        *)
Idle(a) == Waiting(TaskKind(a), Done(a), Start(a))

(* It is the task of an activation without a frame.                        *)
LEMMA IdleTask ==
  ASSUME NEW a, NEW p, a.frame = 0
  PROVE  TaskOf(a, p) = Idle(a)
BY DEF TaskOf, Idle, Waiting

(* A task that has just begun waits.                                       *)
LEMMA BegunTask == \A k, s : Begun(k, s) = Waiting(k, 0, s)
BY DEF Begun, Record, Waiting

(* The task of an activation with an attempt in flight.                    *)
LEMMA AttemptedTask ==
  ASSUME NEW a, NEW p, a.frame # 0, p[a.frame].committed \in BOOLEAN
  PROVE  TaskOf(a, p) = Attempted(TaskKind(a), Done(a), p[a.frame].committed, Start(a))
<1>1. (a.frame # 0) = TRUE /\ (a.frame # 0 /\ p[a.frame].committed) = p[a.frame].committed
  OBVIOUS
<1>2. QED
  BY <1>1 DEF TaskOf, Attempted

(* An activation that is neither a choice nor a loop is a plain task.      *)
LEMMA PlainTask ==
  ASSUME NEW a, TaskKind(a) = "task"
  PROVE  Idle(a) = Begun("task", {})
<1>1. a.op # "choice"
  BY DEF TaskKind
<1>2. Done(a) = 0 /\ Start(a) = {}
  BY <1>1 DEF Done, Start
<1>3. QED
  BY <1>2, BegunTask DEF Idle

(* The fields of the innermost task.                                       *)
LEMMA Fields ==
  ASSUME Inv, calls # <<>>
  PROVE  /\ TopTask.kind = TaskKind(Top) /\ TopTask.done = Done(Top)
         /\ TopTask.trying = (Top.frame # 0) /\ TopTask.start = Start(Top)
         /\ TopTask.cut = (Top.frame # 0 /\ pou[Top.frame].committed)
BY TasksBefore, RecordFields DEF TaskOf

(* The marks of the frames below that of the innermost activation stay,    *)
(* whether its own is popped or not.                                       *)
LEMMA MarksKept ==
  ASSUME Inv, calls # <<>>, UNCHANGED pou \/ (Top.frame # 0 /\ pou' = Pop(pou))
  PROVE  \A f \in 1..(IF Top.frame = 0 THEN Len(pou) ELSE Len(pou) - 1) :
           pou'[f].committed = pou[f].committed
<1>1. CASE UNCHANGED pou
  BY <1>1
<1>2. CASE Top.frame # 0 /\ pou' = Pop(pou)
  <2>1. pou \in Seq(Frame)
    BY DEF Inv, TypeOK
  <2>2. pou # <<>>
    BY <1>2, TopIsLast, EmptySeq
  <2>3. \A f \in 1..(Len(pou) - 1) : pou'[f] = pou[f]
    BY <1>2, <2>1, <2>2, PopFacts
  <2>4. QED
    BY <1>2, <2>3
<1>3. QED
  BY <1>1, <1>2

(* The innermost activation returns.                                       *)
LEMMA TasksPop ==
  ASSUME Inv, calls # <<>>, calls' = Pop(calls),
         UNCHANGED pou \/ (Top.frame # 0 /\ pou' = Pop(pou))
  PROVE  Tasks' = RestTasks
<1>1. calls' \in Seq(Activation)
  BY PopType DEF Inv, TypeOK
<1>2. Tasks' = TaskList(calls', pou')
  BY TasksAre
<1>3. QED
  BY <1>1, <1>2, PoppedCalls, MarksKept, Stacked

(* It becomes a, which attempts nothing.                                   *)
LEMMA TasksSet ==
  ASSUME Inv, calls # <<>>, NEW a \in Activation, a.frame = 0, calls' = SetTop(a),
         UNCHANGED pou \/ (Top.frame # 0 /\ pou' = Pop(pou))
  PROVE  /\ Tasks' = Append(RestTasks, Idle(a))
         /\ Idle(a) = TopTask => Tasks' = Tasks
<1>1. /\ calls' \in Seq(Activation) /\ Len(calls') = Len(calls) /\ Len(calls) \in Nat \ {0}
      /\ calls'[Len(calls)] = a
      /\ \A k \in 1..(Len(calls) - 1) : calls'[k] = calls[k]
  BY SetTopFacts, TopFacts DEF Inv, TypeOK
<1>2. Tasks' = TaskList(calls', pou')
  BY TasksAre
<1>3. TaskOf(calls'[Len(calls)], pou') = Idle(a)
  BY <1>1, IdleTask
<1>4. Len(calls') >= Len(calls) - 1
  BY <1>1
<1>5. QED
  BY <1>1, <1>2, <1>3, <1>4, MarksKept, Stacked

(* It becomes a and calls b.                                               *)
LEMMA TasksCall ==
  ASSUME Inv, calls # <<>>, NEW a \in Activation, NEW b \in Activation, b.frame = 0,
         calls' = Append(SetTop(a), b),
         \A f \in 1..(IF Top.frame = 0 THEN Len(pou) ELSE Len(pou) - 1) :
           pou'[f].committed = pou[f].committed
  PROVE  /\ Tasks' = Append(Append(RestTasks, TaskOf(a, pou')), Idle(b))
         /\ TaskOf(a, pou') = TopTask => Tasks' = Append(Tasks, Idle(b))
<1>1. /\ Len(calls) \in Nat \ {0} /\ Len(calls') = Len(calls) + 1
      /\ calls'[Len(calls)] = a /\ calls'[Len(calls) + 1] = b
      /\ \A k \in 1..(Len(calls) - 1) : calls'[k] = calls[k]
  BY CalledCalls
<1>2. calls' \in Seq(Activation)
  BY SetTopFacts, AppendProperties DEF Inv, TypeOK
<1>3. Tasks' = TaskList(calls', pou')
  BY TasksAre
<1>4. TaskOf(calls'[Len(calls) + 1], pou') = Idle(b)
  BY <1>1, IdleTask
<1>5. Len(calls') >= Len(calls) - 1
  BY <1>1
<1>6. QED
  BY <1>1, <1>2, <1>3, <1>4, <1>5, Stacked, ZenonT(60)

(* The same two steps with a commit.                                       *)
LEMMA TasksCut ==
  ASSUME Inv, Inv', calls # <<>>, Top.frame = 0, pou' = CommitNearest(pou),
         NEW s,
         \/ calls' = Pop(calls) /\ s = RestTasks
         \/ /\ \E a \in Activation : calls' = SetTop(a) /\ a.frame = 0 /\ Idle(a) = TopTask
            /\ s = Tasks
  PROVE  Tasks' = CutTasks(s)
<1>1. /\ calls' \in Seq(Activation) /\ pou \in Seq(Frame)
      /\ Len(pou') = Len(pou)
      /\ \A f \in 1..Len(pou) : pou'[f].kind = pou[f].kind
  BY CommitType DEF Inv, TypeOK
<1>2. Numbered(calls', Len(calls')) /\ Ordered(calls', Len(calls'))
      /\ OwnFrame(calls', Len(calls'), pou', Len(pou'))
      /\ NoOther(calls', Len(calls'), Len(pou'))
  BY FollowNext DEF FramesFollow
<1>3. OwnFrame(calls', Len(calls'), pou, Len(pou)) /\ NoOther(calls', Len(calls'), Len(pou))
  <2>1. Len(pou) \in Nat
    BY <1>1, LenProperties
  <2>2. ASSUME NEW k \in 1..Len(calls'), calls'[k].frame # 0
        PROVE  calls'[k].frame <= Len(pou) /\ pou[calls'[k].frame].kind = KindOf(calls'[k].op)
    <3>1. /\ calls'[k].frame <= Len(pou) /\ calls'[k].frame \in Nat
          /\ pou'[calls'[k].frame].kind = KindOf(calls'[k].op)
      BY <1>1, <1>2, <2>2 DEF OwnFrame, Numbered
    <3>2. calls'[k].frame \in 1..Len(pou)
      BY <2>1, <2>2, <3>1
    <3>3. QED
      BY <1>1, <3>1, <3>2
  <2>3. QED
    BY <1>1, <1>2, <2>2 DEF OwnFrame
<1>4. Tasks' = CutTasks(TaskList(calls', pou))
  <2>1. Tasks' = TaskList(calls', CommitNearest(pou))
    BY TasksAre
  <2>2. QED
    BY <1>1, <1>2, <1>3, <2>1, CommitCuts
<1>5. TaskList(calls', pou) = s
  <2>1. CASE calls' = Pop(calls) /\ s = RestTasks
    BY <1>1, <2>1, PoppedCalls, Stacked
  <2>2. CASE /\ \E a \in Activation : calls' = SetTop(a) /\ a.frame = 0 /\ Idle(a) = TopTask
             /\ s = Tasks
    <3>1. PICK a \in Activation : calls' = SetTop(a) /\ a.frame = 0 /\ Idle(a) = TopTask
      BY <2>2
    <3>2. /\ Len(calls') = Len(calls) /\ Len(calls) \in Nat \ {0} /\ calls'[Len(calls)] = a
          /\ \A k \in 1..(Len(calls) - 1) : calls'[k] = calls[k]
      BY <3>1, SetTopFacts, TopFacts DEF Inv, TypeOK
    <3>3. TaskOf(calls'[Len(calls)], pou) = TopTask
      BY <3>1, <3>2, IdleTask
    <3>4. Len(calls') >= Len(calls) - 1
      BY <3>2
    <3>5. QED
      BY <1>1, <2>2, <3>2, <3>3, <3>4, Stacked
  <2>3. QED
    BY <2>1, <2>2
<1>6. QED
  BY <1>4, <1>5

----------------------------------------------------------------------------
(* Activations that are plain tasks.                                       *)

LEMMA ReturnedTask ==
  ASSUME Inv, Inv', calls # <<>>, Top.frame = 0, TaskKind(Top) = "task", calls' = Pop(calls),
         UNCHANGED pou \/ pou' = CommitNearest(pou)
  PROVE  Abstract!Next
<1>1. TopTask.kind = "task" /\ Tasks # <<>>
  BY Fields, TasksBefore
<1>2. Tasks' = RestTasks \/ Tasks' = CutTasks(RestTasks)
  BY TasksPop, TasksCut
<1>3. QED
  BY <1>1, <1>2, WorkStep

(* A plain task goes on as another one.                                    *)
LEMMA WorkingTask ==
  ASSUME Inv, Inv', calls # <<>>, Top.frame = 0, TaskKind(Top) = "task",
         NEW a \in Activation, a.frame = 0, TaskKind(a) = "task", calls' = SetTop(a),
         UNCHANGED pou \/ pou' = CommitNearest(pou)
  PROVE  Abstract!Next
<1>1. TopTask.kind = "task" /\ TopTask = Begun("task", {}) /\ Idle(a) = TopTask
  BY Fields, TasksBefore, IdleTask, PlainTask
<1>2. Tasks' = Tasks \/ Tasks' = CutTasks(Tasks)
  BY <1>1, TasksSet, TasksCut
<1>3. QED
  BY <1>1, <1>2, WorkStep

(* A plain task calls another.                                             *)
LEMMA CallingTask ==
  ASSUME Inv, calls # <<>>, Top.frame = 0, TaskKind(Top) = "task", UNCHANGED pou,
         NEW a \in Activation, a.frame = 0, TaskKind(a) = "task",
         NEW b \in Activation, b.frame = 0, TaskKind(b) = "task", calls' = Append(SetTop(a), b)
  PROVE  Abstract!Next
<1>1. TopTask.kind = "task" /\ TopTask = Begun("task", {})
  BY Fields, TasksBefore, IdleTask, PlainTask
<1>2. Idle(b) = Begun("task", {}) /\ TaskOf(a, pou') = TopTask
  BY <1>1, IdleTask, PlainTask
<1>3. Tasks' = Append(Tasks, Begun("task", {}))
  BY <1>2, TasksCall, MarksKept
<1>4. QED
  BY <1>1, <1>3, WorkStep

(* A call that becomes a choice or a loop.                                 *)
LEMMA BecomingTask ==
  ASSUME Inv, calls # <<>>, Top.frame = 0, TaskKind(Top) = "task", UNCHANGED pou,
         NEW a \in Activation, a.frame = 0, a.i = 0, calls' = SetTop(a),
         \/ a.op = "choice" /\ Store(a.entry) = Store(env')
         \/ TaskKind(a) = "loop"
  PROVE  Abstract!Next
<1>1. TopTask.kind = "task" /\ Tasks # <<>>
  BY Fields, TasksBefore
<1>2. Tasks' = Append(RestTasks, Idle(a))
  BY TasksSet
<1>3. CASE a.op = "choice" /\ Store(a.entry) = Store(env')
  <2>1. TaskKind(a) = "choice" /\ Done(a) = 0 /\ Start(a) = {Store(env')}
    BY <1>3 DEF TaskKind, Done, Start
  <2>2. Idle(a) = Begun("choice", {Store(env')})
    BY <2>1, BegunTask DEF Idle
  <2>3. QED
    BY <1>1, <1>2, <2>2, WorkStep
<1>4. CASE TaskKind(a) = "loop"
  <2>1. a.op # "choice"
    BY <1>4 DEF TaskKind
  <2>2. Done(a) = 0 /\ Start(a) = {}
    BY <1>4, <2>1 DEF Done, Start
  <2>3. Idle(a) = Begun("loop", {})
    BY <1>4, <2>2, BegunTask DEF Idle
  <2>4. QED
    BY <1>1, <1>2, <2>3, WorkStep
<1>5. QED
  BY <1>3, <1>4

(* What a return and a verdict do.                                         *)
LEMMA ReturnForm ==
  ASSUME NEW res, NEW e, Return(res, e) \/ CloseGroup(res, e)
  PROVE  calls' = Pop(calls) /\ signal' = res
BY DEF CloseGroup, Return, Signal

(* A verdict commits or leaves the frames alone.                           *)
LEMMA VerdictForm ==
  ASSUME NEW n, NEW v, ApplyVerdict(n, v)
  PROVE  UNCHANGED pou \/ pou' = CommitNearest(pou)
BY DEF ApplyVerdict, Commit

(* Calls, sequences and single occurrences are plain tasks, and have no    *)
(* frame.                                                                  *)
LEMMA PlainOps ==
  ASSUME Inv, calls # <<>>, Top.op \in {"call", "sequence", "single"}
  PROVE  TaskKind(Top) = "task" /\ (signal \in Results \/ signal = "run" => Top.frame = 0)
<1>1. TaskKind(Top) = "task"
  BY DEF TaskKind
<1>2. signal \in Results => Top.frame = 0
  BY BackFrame
<1>3. QED
  BY <1>1, <1>2, RunFrame

(* A call is a plain task.                                                 *)
LEMMA CallForm == \A n \in Node : env \in Env =>
  Call(n) \in Activation /\ Call(n).frame = 0 /\ TaskKind(Call(n)) = "task"
BY ActivateType DEF Call, Activate, TaskKind

(* Nothing that Backtracking speaks of changes.                            *)
LEMMA StutterStep ==
  ASSUME Tasks' = Tasks, Store(env') = Store(env), Answered' = Answered
  PROVE  UNCHANGED Abstract!vars
BY DEF Abstract!vars, Tasks, Store, Answered

----------------------------------------------------------------------------
(* The actions are steps of Backtracking.                                  *)

LEMMA OpenGroupImplements ==
  Inv /\ Inv' /\ ChoicesHeld /\ OpenGroup => Abstract!Next
<1> SUFFICES ASSUME Inv, Inv', ChoicesHeld, OpenGroup PROVE Abstract!Next
  OBVIOUS
<1>1. /\ calls # <<>> /\ signal = "run" /\ Top.op = "call" /\ UNCHANGED pou /\ env \in Env
      /\ Kind[Top.node] \in {"sequence", "choice"} /\ Top \in Activation /\ Top.node \in Node
  BY Types DEF OpenGroup, In
<1>2. Top.frame = 0 /\ TaskKind(Top) = "task" /\ Top.i = 0
  <2>1. Len(calls) \in Nat \ {0} /\ Top = calls[Len(calls)]
    BY <1>1, TopFacts DEF Inv, TypeOK
  <2>2. Top.i = 0
    BY <1>1, <2>1 DEF ChoicesHeld, Counted
  <2>3. QED
    BY <1>1, <2>2, PlainOps
<1>3. CASE \E r, e : Return(r, e) \/ CloseGroup(r, e)
  BY <1>1, <1>2, <1>3, ReturnForm, ReturnedTask
<1>4. CASE \E a \in ScopeResults(Top.node, env) : \E b \in SetResults(Top.node, a.env) :
             /\ env' = b.env
             /\ calls' = SetTop([Top EXCEPT !.op = Kind[Top.node],
                                            !.saved = b.env, !.entry = b.env])
  <2>1. PICK a \in ScopeResults(Top.node, env) : \E b \in SetResults(Top.node, a.env) :
             /\ env' = b.env
             /\ calls' = SetTop([Top EXCEPT !.op = Kind[Top.node],
                                            !.saved = b.env, !.entry = b.env])
    BY <1>4
  <2>2. PICK b \in SetResults(Top.node, a.env) :
             /\ env' = b.env
             /\ calls' = SetTop([Top EXCEPT !.op = Kind[Top.node],
                                            !.saved = b.env, !.entry = b.env])
    BY <2>1
  <2>3. b.env \in Env
    BY <1>1, ScopeType, SetType
  <2> DEFINE t == [Top EXCEPT !.op = Kind[Top.node], !.saved = b.env, !.entry = b.env]
  <2>4. /\ t \in Activation /\ t.frame = 0 /\ t.i = 0 /\ t.op = Kind[Top.node]
        /\ t.entry = env'
    BY <1>1, <1>2, <2>2, <2>3 DEF Activation
  <2>5. calls' = SetTop(t)
    BY <2>2
  <2> HIDE DEF t
  <2>6. CASE Kind[Top.node] = "choice"
    BY <1>1, <1>2, <2>4, <2>5, <2>6, BecomingTask
  <2>7. CASE Kind[Top.node] = "sequence"
    <3>1. TaskKind(t) = "task"
      BY <2>4, <2>7 DEF TaskKind
    <3>2. QED
      BY <1>1, <1>2, <2>4, <2>5, <3>1, WorkingTask
  <2>8. QED
    BY <1>1, <2>6, <2>7
<1>5. QED
  BY <1>3, <1>4 DEF OpenGroup

(* The actions of a sequence are those of a plain task.                    *)
LEMMA SequenceImplements ==
  ASSUME Inv, Inv', SequenceHeader \/ NextChild \/ ChildReturned \/ EndSequence
  PROVE  Abstract!Next
<1>1. /\ calls # <<>> /\ Top.op = "sequence" /\ (signal \in Results \/ signal = "run")
      /\ env \in Env /\ Top \in Activation /\ Top.node \in Node /\ Top.i \in Nat
  BY Types DEF SequenceHeader, NextChild, ChildReturned, EndSequence, In, Back
<1>2. TaskKind(Top) = "task" /\ Top.frame = 0
  BY <1>1, PlainOps
<1>3. UNCHANGED pou \/ pou' = CommitNearest(pou)
  BY VerdictForm DEF SequenceHeader, NextChild, ChildReturned, EndSequence
<1>4. CASE \E r, e : CloseGroup(r, e)
  BY <1>1, <1>2, <1>3, <1>4, ReturnForm, ReturnedTask
<1>5. CASE \E j \in Nat : calls' = SetTop([Top EXCEPT !.i = j])
  <2>1. PICK j \in Nat : calls' = SetTop([Top EXCEPT !.i = j])
    BY <1>5
  <2>2. /\ [Top EXCEPT !.i = j] \in Activation /\ [Top EXCEPT !.i = j].frame = 0
        /\ [Top EXCEPT !.i = j].op = "sequence"
    BY <1>1, <1>2 DEF Activation
  <2>3. TaskKind([Top EXCEPT !.i = j]) = "task"
    BY <2>2 DEF TaskKind
  <2>4. QED
    BY <1>1, <1>2, <1>3, <2>1, <2>2, <2>3, WorkingTask
<1>6. CASE UNCHANGED pou /\ \E n \in Node : calls' = Append(calls, Call(n))
  BY <1>1, <1>2, <1>6, SetTopSame, CallForm, CallingTask
<1>7. CASE SequenceHeader
  BY <1>4, <1>5, <1>7 DEF SequenceHeader
<1>8. CASE NextChild
  <2>1. Top.i \in 1..Len(Kids[Top.node]) => Kids[Top.node][Top.i] \in Node
    BY <1>1, ProgramAssumption, ElementOfSeq
  <2>2. Top.i + 1 \in Nat
    BY <1>1
  <2>3. QED
    BY <1>4, <1>5, <1>6, <1>8, <2>1, <2>2 DEF NextChild
<1>9. CASE ChildReturned
  <2>1. Top.i + 1 \in Nat /\ Len(Kids[Top.node]) + 1 \in Nat
    BY <1>1, ProgramAssumption, LenProperties
  <2>2. QED
    BY <1>4, <1>5, <1>9, <2>1 DEF ChildReturned
<1>10. CASE EndSequence
  BY <1>4, <1>10 DEF EndSequence
<1>11. QED
  BY <1>7, <1>8, <1>9, <1>10

(* So are those of one occurrence.                                         *)
LEMMA SingleImplements ==
  ASSUME Inv, Inv', ElementFails \/ ReadSimple \/ ReadNil \/ EnterComplex \/ ContentReturned
  PROVE  Abstract!Next
<1>1. /\ calls # <<>> /\ Top.op = "single" /\ (signal \in Results \/ signal = "run")
      /\ env \in Env /\ Top \in Activation /\ Top.node \in Node
  BY Types DEF ElementFails, ReadSimple, ReadNil, EnterComplex, ContentReturned, In, Back
<1>2. TaskKind(Top) = "task" /\ Top.frame = 0
  BY <1>1, PlainOps
<1>3. CASE (UNCHANGED pou \/ pou' = CommitNearest(pou)) /\ \E r, e : Return(r, e)
  BY <1>1, <1>2, <1>3, ReturnForm, ReturnedTask
<1>4. CASE EnterComplex
  <2>1. Kids[Top.node] # <<>> /\ calls' = Append(calls, Call(Kids[Top.node][1])) /\ UNCHANGED pou
    BY <1>4 DEF EnterComplex, Complex
  <2>2. Kids[Top.node][1] \in Node
    <3>1. Kids[Top.node] \in Seq(Node) /\ Len(Kids[Top.node]) \in Nat \ {0}
      BY <1>1, <2>1, ProgramAssumption, EmptySeq
    <3>2. QED
      BY <3>1, ElementOfSeq
  <2>3. QED
    BY <1>1, <1>2, <2>1, <2>2, SetTopSame, CallForm, CallingTask
<1>5. \A e : FinishElement(e) =>
               (UNCHANGED pou \/ pou' = CommitNearest(pou)) /\ \E r, f : Return(r, f)
  BY VerdictForm DEF FinishElement
<1>6. CASE ElementFails \/ ReadNil
  BY <1>3, <1>6 DEF ElementFails, ReadNil
<1>7. CASE ReadSimple
  BY <1>3, <1>5, <1>7 DEF ReadSimple
<1>8. CASE ContentReturned
  BY <1>3, <1>5, <1>8 DEF ContentReturned
<1>9. QED
  BY <1>4, <1>6, <1>7, <1>8

(* The innermost task, with nothing in flight and with an attempt.         *)
LEMMA TopForms ==
  ASSUME Inv, calls # <<>>
  PROVE  /\ Top.frame = 0 => TopTask = Waiting(TaskKind(Top), Done(Top), Start(Top))
         /\ Top.frame # 0 => /\ pou[Len(pou)].committed \in BOOLEAN
                             /\ TopTask.cut = pou[Len(pou)].committed
                             /\ TopTask = Attempted(TaskKind(Top), Done(Top),
                                                    pou[Len(pou)].committed, Start(Top))
<1>1. TopTask = TaskOf(Top, pou)
  BY TasksBefore
<1>2. ASSUME Top.frame # 0
      PROVE  Top.frame = Len(pou) /\ pou[Len(pou)].committed \in BOOLEAN
  <2>1. Top.frame = Len(pou) /\ pou \in Seq(Frame) /\ Top.frame \in Nat
    BY <1>2, TopIsLast, TopTypes DEF Inv, TypeOK
  <2>2. Len(pou) \in 1..Len(pou)
    BY <1>2, <2>1
  <2>3. pou[Len(pou)] \in Frame
    BY <2>1, <2>2, ElementOfSeq
  <2>4. QED
    BY <2>1, <2>3 DEF Frame
<1>3. Top.frame # 0 => TopTask.cut = pou[Len(pou)].committed
  BY <1>2, Fields
<1>4. QED
  BY <1>1, <1>2, <1>3, IdleTask, AttemptedTask DEF Idle

(* A choice: the branches it has disposed of are those before the i-th.    *)
LEMMA ChoiceTask ==
  ASSUME Inv, calls # <<>>, Top.op = "choice"
  PROVE  /\ TaskKind(Top) = "choice" /\ Start(Top) = {Store(Top.entry)}
         /\ Top.i = 0 => Done(Top) = 0
         /\ Top.i > 0 => Done(Top) = Top.i - 1 /\ TopTask.done + 1 = Top.i
         /\ Tasks # <<>> /\ TopTask.kind = "choice" /\ TopTask.trying = (Top.frame # 0)
<1>1. TaskKind(Top) = "choice" /\ Start(Top) = {Store(Top.entry)}
  BY DEF TaskKind, Start
<1>2. Tasks # <<>>
  BY TasksBefore
<1>3. Top.i \in Nat
  BY Types
<1>4. (Top.i = 0 => Done(Top) = 0) /\ (Top.i > 0 => Done(Top) = Top.i - 1)
  BY <1>1, <1>3 DEF Done
<1>5. Top.i > 0 => TopTask.done + 1 = Top.i
  BY <1>3, <1>4, Fields
<1>6. QED
  BY <1>1, <1>2, <1>4, <1>5, Fields

(* A choice with an updated count and nothing in flight.                   *)
LEMMA ChoiceAfter ==
  ASSUME NEW j, NEW a \in Activation, a.op = "choice", a.i > 0, a.i - 1 = j,
         a.entry = Top.entry
  PROVE  Idle(a) = Waiting("choice", j, {Store(Top.entry)})
<1>1. TaskKind(a) = "choice" /\ Start(a) = {Store(Top.entry)}
  BY DEF TaskKind, Start
<1>2. a.i \in Nat
  BY DEF Activation
<1>3. Done(a) = a.i - 1
  BY <1>1, <1>2 DEF Done
<1>4. QED
  BY <1>1, <1>3 DEF Idle

(* A choice answers without an attempt.                                    *)
LEMMA ChoiceGivesUp ==
  ASSUME Inv, In("choice"), calls' = Pop(calls), signal' \in {"fail", "sde"}, UNCHANGED pou
  PROVE  Abstract!Next
<1>1. calls # <<>> /\ signal = "run" /\ Top.op = "choice" /\ Top.frame = 0
  BY RunFrame DEF In
<1>2. Tasks # <<>> /\ TopTask.kind = "choice" /\ ~TopTask.trying
  BY <1>1, ChoiceTask
<1>3. Tasks' = RestTasks
  BY <1>1, TasksPop
<1>4. Answered = "none" /\ Answered' = "no"
  BY <1>1 DEF Answered
<1>5. QED
  BY <1>2, <1>3, <1>4, GiveUpTask

(* Leaving the header is not seen, or gives up.                            *)
LEMMA ChoiceHeaderImplements ==
  ASSUME Inv, ChoiceHeader
  PROVE  Abstract!Next \/ UNCHANGED Abstract!vars
<1>1. /\ calls # <<>> /\ signal = "run" /\ Top.op = "choice" /\ Top.frame = 0 /\ Top.i = 0
      /\ Top \in Activation /\ UNCHANGED pou /\ In("choice")
  BY Types, RunFrame DEF ChoiceHeader, In
<1>2. CASE CloseGroup("fail", env)
  BY <1>1, <1>2, ReturnForm, ChoiceGivesUp
<1>3. CASE Signal("run") /\ calls' = SetTop([Top EXCEPT !.i = 1]) /\ UNCHANGED env
  <2> DEFINE t == [Top EXCEPT !.i = 1]
  <2>1. t \in Activation /\ t.frame = 0 /\ t.op = "choice" /\ t.i = 1 /\ t.entry = Top.entry
    BY <1>1 DEF Activation
  <2>2. calls' = SetTop(t) /\ signal' = "run" /\ env' = env
    BY <1>3 DEF Signal
  <2> HIDE DEF t
  <2>3. Idle(t) = Waiting("choice", 0, {Store(Top.entry)})
    <3>1. t.i > 0 /\ t.i - 1 = 0
      BY <2>1
    <3>2. QED
      BY <2>1, <3>1, ChoiceAfter
  <2>4. TopTask = Waiting("choice", 0, {Store(Top.entry)})
    BY <1>1, ChoiceTask, TopForms
  <2>5. Tasks' = Tasks
    BY <1>1, <2>1, <2>2, <2>3, <2>4, TasksSet
  <2>6. QED
    BY <1>1, <2>2, <2>5, StutterStep DEF Answered
<1>4. QED
  BY <1>2, <1>3 DEF ChoiceHeader

(* The frame pushed for an attempt leaves the marks of the others as they  *)
(* are: a commit at once reaches no further than the new frame.            *)
LEMMA PushedMarks ==
  ASSUME Inv, NEW kind \in {"Choice", "Occurrence"}, NEW stack,
         \/ stack = Push(pou, kind)
         \/ stack = MarkTop(Push(pou, kind))
         \/ kind = "Choice" /\ stack = CommitNearest(Push(pou, kind))
  PROVE  /\ Len(pou) \in Nat /\ stack[Len(pou) + 1].committed \in BOOLEAN
         /\ stack = Push(pou, kind) => stack[Len(pou) + 1].committed = FALSE
         /\ \A f \in 1..Len(pou) : stack[f].committed = pou[f].committed
<1> DEFINE n == Len(pou)  new == [kind |-> kind, committed |-> FALSE]  q == Push(pou, kind)
<1>1. pou \in Seq(Frame) /\ n \in Nat /\ new \in Frame
  BY LenProperties DEF Inv, TypeOK, Frame
<1>2. q = Append(pou, new)
  BY DEF Push
<1> HIDE DEF n, new, q
<1>3. /\ q \in Seq(Frame) /\ Len(q) = n + 1
      /\ \A f \in 1..n : q[f] = pou[f]
      /\ q[n + 1] = new
  BY <1>1, <1>2, AppendProperties DEF n
<1>4. DOMAIN q = 1..(n + 1)
  BY <1>3, LenProperties
<1>5. new.kind = kind /\ new.committed = FALSE
  BY DEF new
<1>6. n + 1 \in 1..(n + 1) /\ \A f \in 1..n : f \in 1..(n + 1) /\ f # n + 1 /\ f < n + 1
  BY <1>1
<1>7. CASE stack = q
  BY <1>1, <1>3, <1>5, <1>7 DEF n, q
<1>8. CASE stack = MarkTop(q)
  <2>1. stack = [q EXCEPT ![n + 1] = [q[n + 1] EXCEPT !.committed = TRUE]]
    BY <1>3, <1>8 DEF MarkTop
  <2>2. (\A f \in 1..n : stack[f] = q[f]) /\ stack[n + 1] = [new EXCEPT !.committed = TRUE]
    BY <1>3, <1>4, <1>6, <2>1
  <2>3. stack[n + 1].committed = TRUE
    BY <2>2 DEF new
  <2>4. stack # q
    BY <1>3, <1>5, <2>3
  <2>5. QED
    BY <1>1, <1>3, <2>2, <2>3, <2>4 DEF n, q
<1>9. CASE kind = "Choice" /\ stack = CommitNearest(q)
  <2>1. stack = [k \in 1..(n + 1) |-> [kind |-> q[k].kind,
                                      committed |-> q[k].committed \/ k \in Reached(q)]]
    BY <1>4, <1>9 DEF CommitNearest
  <2>2. \A f \in 1..(n + 1) : stack[f].committed = (q[f].committed \/ f \in Reached(q))
    BY <2>1
  <2>3. n + 1 \in UncommittedChoices(q)
    BY <1>3, <1>4, <1>5, <1>6, <1>9 DEF UncommittedChoices
  <2>4. \A d \in UncommittedChoices(q) : d <= n + 1
    BY <1>1, <1>4 DEF UncommittedChoices
  <2>5. \A f \in 1..n : f \notin Reached(q)
    BY <1>1, <2>3, <2>4 DEF Reached
  <2>6. \A f \in 1..n : stack[f].committed = pou[f].committed
    <3>1. \A f \in 1..n : pou[f] \in Frame
      BY <1>1, ElementOfSeq DEF n
    <3>2. \A f \in 1..n : pou[f].committed \in BOOLEAN
      BY <3>1 DEF Frame
    <3>3. QED
      BY <1>3, <1>6, <2>2, <2>5, <3>2
  <2>7. n + 1 \in Reached(q)
    BY <1>1, <1>4, <1>6, <2>4 DEF Reached
  <2>8. stack[n + 1].committed = TRUE
    BY <1>6, <2>2, <2>7
  <2>9. stack # q
    BY <1>3, <1>5, <2>8
  <2>10. QED
    BY <1>1, <2>6, <2>8, <2>9 DEF n, q
<1>10. QED
  BY <1>7, <1>8, <1>9 DEF q

(* An activation that counts one more.                                     *)
LEMMA CountedActivation ==
  ASSUME NEW a \in Activation, NEW j \in Nat
  PROVE  LET t == [a EXCEPT !.i = j]  u == [a EXCEPT !.i = j, !.frame = 0] IN
         /\ t \in Activation /\ t.frame = a.frame /\ t.op = a.op /\ t.i = j
         /\ t.node = a.node /\ t.entry = a.entry
         /\ u \in Activation /\ u.frame = 0 /\ u.op = a.op /\ u.i = j
         /\ u.node = a.node /\ u.entry = a.entry
BY DEF Activation

(* A branch is attempted, passed over, or the choice gives up: a           *)
(* dispatched branch and one whose discriminator held are cut from the     *)
(* start.                                                                  *)
LEMMA TryBranchImplements == Inv /\ TryBranch => Abstract!Next
<1> SUFFICES ASSUME Inv, TryBranch PROVE Abstract!Next
  OBVIOUS
<1>1. /\ calls # <<>> /\ signal = "run" /\ Top.op = "choice" /\ Top.frame = 0 /\ env \in Env
      /\ Top.i \in Nat /\ Top.i > 0 /\ Top \in Activation /\ Top.node \in Node /\ In("choice")
      /\ Top.i \in 1..Len(Kids[Top.node])
  BY Types, RunFrame DEF TryBranch, In
<1>2. Tasks # <<>> /\ TopTask.kind = "choice" /\ ~TopTask.trying /\ Answered = "none"
  BY <1>1, ChoiceTask DEF Answered
<1>3. TopTask = Waiting("choice", Top.i - 1, {Store(Top.entry)})
  BY <1>1, ChoiceTask, TopForms
<1>4. ASSUME NEW stack \in {Push(pou, "Choice"), MarkTop(Push(pou, "Choice")),
                            CommitNearest(Push(pou, "Choice"))},
             EnterBranch(stack)
      PROVE  Abstract!Next
  <2>0. /\ Len(pou) \in Nat /\ stack[Len(pou) + 1].committed \in BOOLEAN
        /\ \A f \in 1..Len(pou) : stack[f].committed = pou[f].committed
    BY <1>4, PushedMarks
  <2> DEFINE t == [Top EXCEPT !.frame = Len(pou) + 1, !.saved = env]
             c == stack[Len(pou) + 1].committed
  <2>1. /\ Len(pou) \in Nat /\ c \in BOOLEAN
        /\ \A f \in 1..Len(pou) : pou'[f].committed = pou[f].committed
        /\ pou' = stack
    BY <1>4, <2>0 DEF EnterBranch
  <2>2. /\ t \in Activation /\ t.frame = Len(pou) + 1 /\ t.frame # 0 /\ t.op = "choice"
        /\ t.i = Top.i /\ t.entry = Top.entry
    <3>1. Len(pou) + 1 \in Nat /\ Len(pou) + 1 # 0
      BY <2>1
    <3>2. t \in Activation /\ t.frame = Len(pou) + 1 /\ t.op = Top.op
      BY <1>1, <3>1, BegunActivation, ZenonT(60)
    <3>3. t.i = Top.i /\ t.entry = Top.entry
      BY <1>1 DEF Activation
    <3>4. QED
      BY <1>1, <3>1, <3>2, <3>3
  <2>3. Branch \in Node
    BY <1>1, ProgramAssumption, ElementOfSeq DEF Branch
  <2>4. /\ calls' = Append(SetTop(t), Call(Branch)) /\ env' = env /\ signal' = signal
        /\ Call(Branch) \in Activation /\ Call(Branch).frame = 0
        /\ TaskKind(Call(Branch)) = "task"
    BY <1>1, <1>4, <2>3, CallForm DEF EnterBranch
  <2> HIDE DEF t, c
  <2>5. TaskOf(t, pou') = Attempted("choice", Top.i - 1, c, {Store(Top.entry)})
    <3>1. TaskKind(t) = "choice" /\ Start(t) = {Store(Top.entry)}
      BY <2>2 DEF TaskKind, Start
    <3>2. Done(t) = Top.i - 1
      BY <1>1, <2>2, <3>1 DEF Done
    <3>3. pou'[t.frame].committed = c
      BY <2>1, <2>2 DEF c
    <3>4. QED
      BY <2>1, <2>2, <3>1, <3>2, <3>3, AttemptedTask
  <2>6. TaskOf(t, pou') = [TopTask EXCEPT !.trying = TRUE, !.cut = c]
    BY <1>3, <2>5, TaskAttempts
  <2>7. Tasks' = Append(Append(RestTasks, [TopTask EXCEPT !.trying = TRUE, !.cut = c]),
                        Begun("task", {}))
    <3>1. Idle(Call(Branch)) = Begun("task", {})
      BY <2>4, PlainTask
    <3>2. Tasks' = Append(Append(RestTasks, TaskOf(t, pou')), Idle(Call(Branch)))
      BY <1>1, <2>1, <2>2, <2>4, TasksCall
    <3>3. QED
      BY <2>6, <3>1, <3>2
  <2>8. Answered' = "none" /\ Store(env') = Store(env)
    BY <1>1, <2>4 DEF Answered
  <2>9. QED
    BY <1>2, <2>1, <2>7, <2>8, AttemptTask
<1>5. ASSUME NEW R \in SUBSET Var, SkipBranch(R)
      PROVE  Abstract!Next
  <2> DEFINE t == [Top EXCEPT !.i = @ + 1]
  <2>1. /\ t \in Activation /\ t.frame = 0 /\ t.op = "choice" /\ t.i = Top.i + 1
        /\ t.entry = Top.entry
    <3>1. Top.i + 1 \in Nat
      BY <1>1
    <3>2. QED
      BY <1>1, <3>1, CountedActivation, ZenonT(60)
  <2>2. /\ calls' = SetTop(t) /\ signal' = "run" /\ UNCHANGED pou
        /\ env' = [env EXCEPT !.reads = @ \union R]
    BY <1>1, <1>5 DEF SkipBranch
  <2>3. env'.vals = env.vals /\ env'.pos = env.pos
    BY <1>1, <2>2 DEF Env
  <2> HIDE DEF t
  <2>4. Idle(t) = Waiting("choice", Top.i, {Store(Top.entry)})
    <3>1. t.i > 0 /\ t.i - 1 = Top.i
      BY <1>1, <2>1
    <3>2. QED
      BY <2>1, <3>1, ChoiceAfter
  <2>5. TopTask.done + 1 = Top.i
    BY <1>1, ChoiceTask
  <2>6. Idle(t) = [TopTask EXCEPT !.done = @ + 1]
    <3>1. [Waiting("choice", Top.i - 1, {Store(Top.entry)}) EXCEPT !.done = Top.i]
            = Waiting("choice", Top.i, {Store(Top.entry)})
      BY TaskCounts
    <3>2. Idle(t) = [TopTask EXCEPT !.done = Top.i]
      BY <1>3, <2>4, <3>1, Zenon
    <3>3. QED
      BY <2>5, <3>2
  <2>7. Tasks' = Append(RestTasks, [TopTask EXCEPT !.done = @ + 1])
    BY <1>1, <2>1, <2>2, <2>6, TasksSet
  <2>8. Answered' = "none" /\ Store(env') = Store(env)
    BY <2>2, <2>3 DEF Answered, Store
  <2>9. QED
    BY <1>2, <2>7, <2>8, PassOverTask
<1>6. SkipBranch(ReadVars[PreNode[Branch]]) => Abstract!Next
  <2>1. Branch \in Node
    BY <1>1, ProgramAssumption, ElementOfSeq DEF Branch
  <2>2. ReadVars[PreNode[Branch]] \in SUBSET Var
    BY <2>1, PreNodeAssumption, VariableAssumption
  <2>3. QED
    BY <1>5, <2>2
<1>7. CASE CloseGroup("sde", env) /\ UNCHANGED <<pou, sticky>>
  BY <1>1, <1>7, ReturnForm, ChoiceGivesUp
<1>8. QED
  BY <1>4, <1>5, <1>6, <1>7 DEF TryBranch

(* No branch is left: the choice gives up.                                 *)
LEMMA EndChoiceImplements == Inv /\ EndChoice => Abstract!Next
BY ReturnForm, ChoiceGivesUp DEF EndChoice

(* A branch has ended: the store is back where the choice began when the   *)
(* next one is tried.                                                      *)
LEMMA BranchReturnedImplements == Inv /\ ChoicesHeld /\ BranchReturned => Abstract!Next
<1> SUFFICES ASSUME Inv, ChoicesHeld, BranchReturned PROVE Abstract!Next
  OBVIOUS
<1>1. /\ calls # <<>> /\ signal \in Results /\ Top.op = "choice" /\ Top \in Activation
      /\ Top.i \in Nat /\ pou' = Pop(pou) /\ Alike(Top, Top.saved) /\ Top.entry \in Env
      /\ Top.saved \in Env
  BY Types, ChoiceBack DEF BranchReturned, Back
<1>2. Top.frame # 0 /\ Top.frame = Len(pou) /\ Top.i > 0
  <2>1. Top.frame # 0
    BY <1>1, BackFrame
  <2>2. Len(calls) \in Nat \ {0} /\ Top = calls[Len(calls)]
    BY <1>1, TopFacts DEF Inv, TypeOK
  <2>3. Counted(Top)
    BY <2>2 DEF ChoicesHeld
  <2>4. QED
    BY <1>1, <2>1, <2>3, TopIsLast DEF Counted
<1>3. /\ Tasks # <<>> /\ TopTask.kind = "choice" /\ TopTask.trying /\ Answered # "none"
      /\ TopTask.start = {Store(Top.entry)}
      /\ TopTask.cut = pou[Len(pou)].committed
  <2>1. Start(Top) = {Store(Top.entry)}
    BY <1>1 DEF Start
  <2>2. QED
    BY <1>1, <1>2, <2>1, ChoiceTask, TopForms, Fields DEF Answered, Results
<1>4. CASE signal = "ok" /\ CloseGroup("ok", env)
  <2>1. Tasks' = RestTasks
    BY <1>1, <1>2, <1>4, ReturnForm, TasksPop
  <2>2. Answered = "yes" /\ Answered' = "yes"
    BY <1>4, ReturnForm DEF Answered
  <2>3. QED
    BY <1>3, <2>1, <2>2, ChooseTask
<1>5. CASE FailChoice("sde") \/ FailChoice("fail")
  <2>1. Tasks' = RestTasks
    BY <1>1, <1>2, <1>5, ReturnForm, TasksPop DEF FailChoice
  <2>2. signal' \in {"sde", "fail"}
    BY <1>5, ReturnForm DEF FailChoice
  <2>3. Answered' = "no"
    BY <2>2 DEF Answered
  <2>4. QED
    BY <1>3, <2>1, <2>3, ChooseTask
<1>6. CASE NextAlternative /\ ~pou[Len(pou)].committed
  <2> DEFINE t == [Top EXCEPT !.i = @ + 1, !.frame = 0]
  <2>1. /\ t \in Activation /\ t.frame = 0 /\ t.op = "choice" /\ t.i = Top.i + 1
        /\ t.entry = Top.entry
    <3>1. Top.i + 1 \in Nat
      BY <1>1
    <3>2. QED
      BY <1>1, <3>1, CountedActivation
  <2>2. calls' = SetTop(t) /\ signal' = "run" /\ env' = Rollback
    BY <1>6 DEF NextAlternative, Signal
  <2>3. Store(env') = Store(Top.entry)
    <3>1. Rollback.pos = Top.entry.pos /\ Rollback.vals = Top.saved.vals
      BY <1>1 DEF Rollback, Env
    <3>2. QED
      BY <1>1, <2>2, <3>1 DEF Alike, Store
  <2> HIDE DEF t
  <2>4. Idle(t) = Waiting("choice", Top.i, {Store(Top.entry)})
    <3>1. t.i > 0 /\ t.i - 1 = Top.i
      BY <1>1, <2>1
    <3>2. QED
      BY <2>1, <3>1, ChoiceAfter
  <2>5. TopTask = Attempted("choice", Top.i - 1, pou[Len(pou)].committed, {Store(Top.entry)})
    BY <1>1, <1>2, ChoiceTask, TopForms
  <2>6. TopTask.done + 1 = Top.i
    BY <1>1, <1>2, ChoiceTask
  <2>7. Idle(t) = [TopTask EXCEPT !.done = @ + 1, !.trying = FALSE]
    <3>1. pou[Len(pou)].committed = FALSE
      BY <1>1, <1>2, <1>6, TopForms
    <3>2. TopTask = Uncut("choice", Top.i - 1, {Store(Top.entry)})
      BY <2>5, <3>1 DEF Attempted, Uncut
    <3>3. [Uncut("choice", Top.i - 1, {Store(Top.entry)}) EXCEPT !.done = Top.i]
            = Uncut("choice", Top.i, {Store(Top.entry)})
      BY UncutCounts
    <3>4. [Uncut("choice", Top.i, {Store(Top.entry)}) EXCEPT !.trying = FALSE]
            = Waiting("choice", Top.i, {Store(Top.entry)})
      BY UncutEnds
    <3>5. Idle(t) = [[TopTask EXCEPT !.done = Top.i] EXCEPT !.trying = FALSE]
      BY <2>4, <3>2, <3>3, <3>4, Zenon
    <3>6. Idle(t) = [TopTask EXCEPT !.done = Top.i, !.trying = FALSE]
      BY <3>5
    <3>7. QED
      BY <2>6, <3>6
  <2>8. Tasks' = Append(RestTasks, [TopTask EXCEPT !.done = @ + 1, !.trying = FALSE])
    BY <1>1, <1>2, <2>1, <2>2, <2>7, TasksSet
  <2>9. Answered' = "none" /\ ~TopTask.cut
    BY <1>3, <1>6, <2>2 DEF Answered
  <2>10. QED
    BY <1>3, <2>3, <2>8, <2>9, ChooseTask
<1>7. QED
  BY <1>4, <1>5, <1>6 DEF BranchReturned
----------------------------------------------------------------------------
(* The loop over the occurrences of an element.                            *)

(* A loop: what it has counted are its items.                              *)
LEMMA LoopTask ==
  ASSUME NEW a \in Activation, TaskKind(a) = "loop"
  PROVE  Done(a) = a.i /\ Start(a) = {} /\ Idle(a) = Waiting("loop", a.i, {})
<1>1. a.op # "choice"
  BY DEF TaskKind
<1>2. Done(a) = a.i /\ Start(a) = {}
  BY <1>1 DEF Done, Start
<1>3. QED
  BY <1>2 DEF Idle

(* The element of an activation tells whether it has attempts.             *)
LEMMA LoopKind ==
  ASSUME NEW a \in Activation, a.op \in {"occurrences", "stuck"}
  PROVE  /\ a.node \notin ZeroLength => TaskKind(a) = "loop"
         /\ a.node \in ZeroLength => TaskKind(a) = "task"
BY DEF TaskKind

(* The loop steps over something.                                          *)
LEMMA IteratingTask ==
  ASSUME Inv, Inv', calls # <<>>, signal = "run", signal' = "run", Top.op = "occurrences",
         UNCHANGED pou, NEW a \in Activation, a.frame = 0, a.op \in {"occurrences", "stuck"},
         a.node = Top.node, a.i = Top.i \/ a.i = Top.i + 1, calls' = SetTop(a)
  PROVE  Abstract!Next
<1>1. Top.frame = 0 /\ Top \in Activation /\ Top.i \in Nat
  BY Types, RunFrame
<1>2. CASE Top.node \in ZeroLength
  <2>1. TaskKind(Top) = "task" /\ TaskKind(a) = "task"
    BY <1>1, <1>2, LoopKind
  <2>2. QED
    BY <1>1, <2>1, WorkingTask
<1>3. CASE Top.node \notin ZeroLength
  <2>1. TaskKind(Top) = "loop" /\ TaskKind(a) = "loop"
    BY <1>1, <1>3, LoopKind
  <2>2. Idle(a) = Waiting("loop", a.i, {}) /\ TopTask = Waiting("loop", Top.i, {})
    BY <1>1, <2>1, LoopTask, TopForms
  <2>3. /\ Tasks # <<>> /\ TopTask.kind = "loop" /\ ~TopTask.trying /\ TopTask.done = Top.i
        /\ Answered = "none" /\ Answered' = "none"
    BY <1>1, <2>1, TasksBefore, Fields, LoopTask DEF Answered
  <2>4. PICK j \in {0, 1} : a.i = Top.i + j
    <3>1. Top.i + 0 = Top.i
      BY <1>1
    <3>2. QED
      BY <3>1
  <2>5. Idle(a) = [TopTask EXCEPT !.done = @ + j]
    <3>1. [Waiting("loop", Top.i, {}) EXCEPT !.done = a.i] = Waiting("loop", a.i, {})
      BY TaskCounts
    <3>2. Idle(a) = [TopTask EXCEPT !.done = a.i]
      BY <2>2, <3>1, Zenon
    <3>3. QED
      BY <2>3, <2>4, <3>2
  <2>6. Tasks' = Append(RestTasks, [TopTask EXCEPT !.done = @ + j])
    BY <1>1, <2>5, TasksSet
  <2>7. QED
    BY <2>3, <2>6, IterateTask
<1>4. QED
  BY <1>2, <1>3

(* The loop answers without an attempt.                                    *)
LEMMA EndingLoop ==
  ASSUME Inv, Inv', In("occurrences"), UNCHANGED pou, LoopEnds
  PROVE  Abstract!Next
<1>1. /\ calls # <<>> /\ signal = "run" /\ Top.op = "occurrences" /\ Top.frame = 0
      /\ Top \in Activation
  BY Types, RunFrame DEF In
<1>2. calls' = Pop(calls) /\ signal' \in Results
  BY ReturnForm DEF LoopEnds
<1>3. CASE Top.node \in ZeroLength
  BY <1>1, <1>2, <1>3, LoopKind, ReturnedTask
<1>4. CASE Top.node \notin ZeroLength
  <2>1. TaskKind(Top) = "loop"
    BY <1>1, <1>4, LoopKind
  <2>2. /\ Tasks # <<>> /\ TopTask.kind = "loop" /\ ~TopTask.trying
        /\ Answered = "none" /\ Answered' # "none" /\ Tasks' = RestTasks
    BY <1>1, <1>2, <2>1, TasksBefore, Fields, TasksPop DEF Answered, Results
  <2>3. QED
    BY <2>2, IterateTask
<1>5. QED
  BY <1>3, <1>4

(* An empty slot is stepped over.                                          *)
LEMMA EmptySlotImplements == Inv /\ Inv' /\ EmptySlot => Abstract!Next
<1> SUFFICES ASSUME Inv, Inv', EmptySlot PROVE Abstract!Next
  OBVIOUS
<1>1. /\ calls # <<>> /\ signal = "run" /\ signal' = "run" /\ Top.op = "occurrences"
      /\ Top.frame = 0 /\ Top \in Activation /\ UNCHANGED pou /\ Top.i \in Nat
  BY Types, RunFrame DEF EmptySlot, In
<1>2. CASE calls' = SetTop([Top EXCEPT !.i = @ + 1])
  <2>1. Top.i + 1 \in Nat
    BY <1>1
  <2> DEFINE t == [Top EXCEPT !.i = Top.i + 1]
  <2>2. /\ t \in Activation /\ t.frame = 0 /\ t.op = "occurrences" /\ t.i = Top.i + 1
        /\ t.node = Top.node
    BY <1>1, <2>1, CountedActivation
  <2>3. calls' = SetTop(t)
    BY <1>2
  <2> HIDE DEF t
  <2>4. QED
    BY <1>1, <2>2, <2>3, IteratingTask
<1>3. CASE calls' = SetTop([Top EXCEPT !.op = "stuck"])
  <2> DEFINE t == [Top EXCEPT !.op = "stuck"]
  <2>1. t \in Activation /\ t.frame = 0 /\ t.op = "stuck" /\ t.i = Top.i /\ t.node = Top.node
    BY <1>1 DEF Activation
  <2>2. calls' = SetTop(t)
    BY <1>3
  <2> HIDE DEF t
  <2>3. QED
    BY <1>1, <2>1, <2>2, IteratingTask
<1>4. CASE calls' = calls
  <2>1. calls' = SetTop(Top)
    BY <1>1, <1>4, SetTopSame
  <2>2. QED
    BY <1>1, <2>1, IteratingTask
<1>5. QED
  BY <1>2, <1>3, <1>4 DEF EmptySlot

(* The loop ends.                                                          *)
LEMMA EndOccurrencesImplements == Inv /\ Inv' /\ EndOccurrences => Abstract!Next
<1> SUFFICES ASSUME Inv, Inv', EndOccurrences PROVE Abstract!Next
  OBVIOUS
<1>1. In("occurrences") /\ UNCHANGED pou /\ \E r \in LoopResults(Top.i) : Return(r, env)
  BY DEF EndOccurrences
<1>2. LoopEnds
  BY <1>1, LoopResultsType DEF LoopEnds
<1>3. QED
  BY <1>1, <1>2, EndingLoop

(* An occurrence is attempted; one of length 0 is only called.             *)
LEMMA StartOccurrenceImplements == Inv /\ Inv' /\ StartOccurrence => Abstract!Next
<1> SUFFICES ASSUME Inv, Inv', StartOccurrence PROVE Abstract!Next
  OBVIOUS
<1>1. /\ calls # <<>> /\ signal = "run" /\ Top.op = "occurrences" /\ Top.frame = 0
      /\ Top \in Activation /\ Top.node \in Node /\ Top.i \in Nat /\ env \in Env
      /\ In("occurrences") /\ Len(pou) \in Nat
  BY Types, RunFrame, LenProperties DEF StartOccurrence, In
<1>2. CASE Return("fail", env) /\ UNCHANGED pou
  <2>1. LoopEnds
    BY <1>2 DEF LoopEnds, Results
  <2>2. QED
    BY <1>1, <1>2, <2>1, EndingLoop
<1> DEFINE b == Activate("single", Top.node, env)
<1>3. b \in Activation /\ b.frame = 0 /\ TaskKind(b) = "task"
  BY <1>1, ActivateType DEF Activate, TaskKind
<1>4. ASSUME NEW f \in Nat
      PROVE  LET t == [Top EXCEPT !.frame = f, !.saved = env] IN
             /\ t \in Activation /\ t.frame = f /\ t.op = "occurrences" /\ t.i = Top.i
             /\ t.node = Top.node
  <2> DEFINE t == [Top EXCEPT !.frame = f, !.saved = env]
  <2>1. t.i = Top.i
    BY <1>1 DEF Activation
  <2>2. t \in Activation /\ t.frame = f /\ t.op = Top.op
    BY <1>1 DEF Activation
  <2>3. t.node = Top.node
    BY <1>1 DEF Activation
  <2>4. QED
    BY <1>1, <2>1, <2>2, <2>3
<1> HIDE DEF b
<1>5. CASE /\ Top.node \in ZeroLength /\ UNCHANGED pou
           /\ calls' = Append(SetTop([Top EXCEPT !.frame = 0, !.saved = env]), b)
  <2> DEFINE t == [Top EXCEPT !.frame = 0, !.saved = env]
  <2>1. t \in Activation /\ t.frame = 0 /\ t.op = "occurrences" /\ t.node = Top.node
    BY <1>4
  <2>2. calls' = Append(SetTop(t), b)
    BY <1>5
  <2> HIDE DEF t
  <2>3. TaskKind(t) = "task" /\ TaskKind(Top) = "task"
    BY <1>1, <1>5, <2>1, LoopKind
  <2>4. QED
    BY <1>1, <1>3, <1>5, <2>1, <2>2, <2>3, CallingTask
<1>6. CASE /\ Top.node \notin ZeroLength /\ pou' = Push(pou, "Occurrence")
           /\ calls' = Append(SetTop([Top EXCEPT !.frame = Len(pou) + 1, !.saved = env]), b)
           /\ UNCHANGED <<env, signal>>
  <2> DEFINE t == [Top EXCEPT !.frame = Len(pou) + 1, !.saved = env]
             c == pou'[Len(pou) + 1].committed
  <2>1. Len(pou) + 1 \in Nat /\ Len(pou) + 1 # 0
    BY <1>1
  <2>2. /\ t \in Activation /\ t.frame = Len(pou) + 1 /\ t.op = "occurrences"
        /\ t.i = Top.i /\ t.node = Top.node /\ t.frame # 0
    BY <1>4, <2>1
  <2>3. calls' = Append(SetTop(t), b)
    BY <1>6
  <2>4. c \in BOOLEAN /\ \A f \in 1..Len(pou) : pou'[f].committed = pou[f].committed
    BY <1>6, PushedMarks
  <2> HIDE DEF t, c
  <2>5. TaskKind(t) = "loop" /\ TaskKind(Top) = "loop"
    BY <1>1, <1>6, <2>2, LoopKind
  <2>6. TopTask = Waiting("loop", Top.i, {})
    BY <1>1, <2>5, LoopTask, TopForms
  <2>7. TaskOf(t, pou') = Attempted("loop", Top.i, c, {})
    <3>1. Done(t) = Top.i /\ Start(t) = {}
      BY <2>2, <2>5, LoopTask
    <3>2. pou'[t.frame].committed = c
      BY <2>2 DEF c
    <3>3. QED
      BY <2>2, <2>4, <2>5, <3>1, <3>2, AttemptedTask
  <2>8. TaskOf(t, pou') = [TopTask EXCEPT !.trying = TRUE, !.cut = c]
    BY <2>6, <2>7, TaskAttempts
  <2>9. Tasks' = Append(Append(RestTasks, [TopTask EXCEPT !.trying = TRUE, !.cut = c]),
                        Begun("task", {}))
    <3>1. Idle(b) = Begun("task", {})
      BY <1>3, PlainTask
    <3>2. Tasks' = Append(Append(RestTasks, TaskOf(t, pou')), Idle(b))
      BY <1>1, <1>3, <2>2, <2>3, <2>4, TasksCall
    <3>3. QED
      BY <2>8, <3>1, <3>2
  <2>10. /\ Tasks # <<>> /\ TopTask.kind = "loop" /\ ~TopTask.trying
         /\ Answered = "none" /\ Answered' = "none" /\ Store(env') = Store(env)
    BY <1>1, <1>6, <2>5, TasksBefore, Fields DEF Answered
  <2>11. QED
    BY <2>4, <2>9, <2>10, AttemptTask
<1>7. QED
  BY <1>2, <1>5, <1>6 DEF StartOccurrence, b

(* An attempt is over: the loop goes on, or answers.                       *)
LEMMA OccurringTask ==
  ASSUME Inv, Inv', Back("occurrences"), Top.node \notin ZeroLength, pou' = Pop(pou),
         LoopGoesOn \/ LoopEnds,
         pou[Len(pou)].committed /\ signal # "ok" => Return("fail", env)
  PROVE  Abstract!Next
<1>1. /\ calls # <<>> /\ signal \in Results /\ Top.op = "occurrences"
      /\ Top \in Activation /\ Top.i \in Nat
  BY Types DEF Back
<1>2. Top.frame # 0 /\ TaskKind(Top) = "loop"
  BY <1>1, BackFrame, LoopKind
<1>3. /\ Tasks # <<>> /\ TopTask.kind = "loop" /\ TopTask.trying /\ Answered # "none"
      /\ TopTask.done = Top.i /\ TopTask.cut = pou[Len(pou)].committed
      /\ TopTask = Attempted("loop", Top.i, pou[Len(pou)].committed, {})
  BY <1>1, <1>2, TasksBefore, Fields, LoopTask, TopForms DEF Answered, Results
<1>4. TopTask.cut /\ Answered = "no" => Answered' = "no"
  <2>1. Return("fail", env) => Answered' = "no"
    BY ReturnForm DEF Answered
  <2>2. Answered = "no" => signal # "ok"
    BY DEF Answered
  <2>3. QED
    BY <1>3, <2>1, <2>2
<1>5. CASE LoopEnds
  <2>1. calls' = Pop(calls) /\ signal' \in Results
    BY <1>5, ReturnForm DEF LoopEnds
  <2>2. Tasks' = RestTasks /\ Answered' # "none"
    BY <1>1, <1>2, <2>1, TasksPop DEF Answered, Results
  <2>3. QED
    BY <1>3, <1>4, <2>2, OccurTask
<1>6. CASE LoopGoesOn
  <2>1. PICK i \in {Top.i, Top.i + 1} :
          signal' = "run" /\ calls' = SetTop([Top EXCEPT !.i = i, !.frame = 0])
    BY <1>6 DEF LoopGoesOn, Resume, Signal
  <2>2. PICK j \in {0, 1} : i = Top.i + j
    <3>1. Top.i + 0 = Top.i
      BY <1>1
    <3>2. QED
      BY <2>1, <3>1
  <2>3. i \in Nat
    BY <1>1, <2>1
  <2> DEFINE t == [Top EXCEPT !.i = i, !.frame = 0]
             c == pou[Len(pou)].committed
  <2>4. /\ t \in Activation /\ t.frame = 0 /\ t.op = "occurrences" /\ t.i = i
        /\ t.node = Top.node
    BY <1>1, <2>3, CountedActivation, ZenonT(60)
  <2>5. calls' = SetTop(t)
    BY <2>1
  <2> HIDE DEF t
  <2>6. Idle(t) = Waiting("loop", i, {})
    BY <2>4, LoopKind, LoopTask
  <2>7. Idle(t) = [TopTask EXCEPT !.done = @ + j, !.trying = FALSE, !.cut = FALSE]
    <3>1. [Attempted("loop", Top.i, c, {}) EXCEPT !.done = i] = Attempted("loop", i, c, {})
      BY AttemptedCounts
    <3>2. [Attempted("loop", i, c, {}) EXCEPT !.trying = FALSE] = Over("loop", i, c, {})
      BY AttemptedEnds
    <3>3. [Over("loop", i, c, {}) EXCEPT !.cut = FALSE] = Waiting("loop", i, {})
      BY OverForgets
    <3>4. Idle(t) = [[[TopTask EXCEPT !.done = i] EXCEPT !.trying = FALSE] EXCEPT !.cut = FALSE]
      BY <1>3, <2>6, <3>1, <3>2, <3>3, Zenon
    <3>5. Idle(t) = [TopTask EXCEPT !.done = i, !.trying = FALSE, !.cut = FALSE]
      BY <3>4
    <3>6. QED
      BY <1>3, <2>2, <3>5
  <2>8. Tasks' = Append(RestTasks, [TopTask EXCEPT !.done = @ + j, !.trying = FALSE,
                                                   !.cut = FALSE])
    BY <1>1, <1>2, <2>4, <2>5, <2>7, TasksSet
  <2>9. Answered' = "none"
    BY <2>1 DEF Answered
  <2>10. QED
    BY <1>3, <1>4, <2>8, <2>9, OccurTask
<1>7. QED
  BY <1>5, <1>6

(* An occurrence has ended: a committed one that failed fails the loop.    *)
LEMMA OccurrenceReturnedImplements == Inv /\ Inv' /\ OccurrenceReturned => Abstract!Next
<1> SUFFICES ASSUME Inv, Inv', OccurrenceReturned PROVE Abstract!Next
  OBVIOUS
<1>1. /\ Back("occurrences") /\ Top.node \notin ZeroLength /\ pou' = Pop(pou)
      /\ signal \in Results /\ calls # <<>> /\ Top.op = "occurrences"
  BY DEF OccurrenceReturned, Back
<1>2. pou[Len(pou)].committed \in BOOLEAN
  BY <1>1, BackFrame, TopForms
<1>3. /\ signal = "ok" => AcceptOccurrence
      /\ signal # "ok" /\ pou[Len(pou)].committed => Return("fail", env)
      /\ signal # "ok" /\ ~pou[Len(pou)].committed => AbandonOccurrence
  BY <1>2 DEF OccurrenceReturned
<1>4. Return("fail", env) => LoopEnds
  BY DEF LoopEnds, Results
<1>5. LoopGoesOn \/ LoopEnds
  BY <1>1, <1>2, <1>3, <1>4, AcceptForms, AbandonForms
<1>6. QED
  BY <1>1, <1>3, <1>5, OccurringTask

(* An item of length 0 has ended: its loop is a plain task.                *)
LEMMA ZeroLengthReturnedImplements == Inv /\ Inv' /\ ZeroLengthReturned => Abstract!Next
<1> SUFFICES ASSUME Inv, Inv', ZeroLengthReturned PROVE Abstract!Next
  OBVIOUS
<1>1. /\ calls # <<>> /\ signal \in Results /\ Top.op = "occurrences" /\ UNCHANGED pou
      /\ Top \in Activation /\ Top.i \in Nat /\ Top.node \in ZeroLength
  BY Types DEF ZeroLengthReturned, Back
<1>2. Top.frame = 0 /\ TaskKind(Top) = "task"
  BY <1>1, BackFrame, LoopKind
<1>3. CASE \E r, e : Return(r, e)
  BY <1>1, <1>2, <1>3, ReturnForm, ReturnedTask
<1>4. CASE Resume(Top.i + 1, env)
  <2> DEFINE t == [Top EXCEPT !.i = Top.i + 1, !.frame = 0]
  <2>1. Top.i + 1 \in Nat
    BY <1>1
  <2>2. t \in Activation /\ t.frame = 0 /\ t.op = "occurrences" /\ t.node = Top.node
    BY <1>1, <2>1, CountedActivation
  <2>3. calls' = SetTop(t)
    BY <1>4 DEF Resume
  <2> HIDE DEF t
  <2>4. TaskKind(t) = "task"
    BY <1>1, <2>2, LoopKind
  <2>5. QED
    BY <1>1, <1>2, <2>2, <2>3, <2>4, WorkingTask
<1>5. QED
  BY <1>3, <1>4 DEF ZeroLengthReturned

(* A call becomes a loop, or a plain task for an item of length 0.         *)
LEMMA OpenElementImplements == Inv /\ Inv' /\ ChoicesHeld /\ OpenElement => Abstract!Next
<1> SUFFICES ASSUME Inv, Inv', ChoicesHeld, OpenElement PROVE Abstract!Next
  OBVIOUS
<1>1. /\ calls # <<>> /\ signal = "run" /\ Top.op = "call" /\ UNCHANGED pou
      /\ Top \in Activation /\ Top.node \in Node
  BY Types DEF OpenElement, In
<1>2. Top.frame = 0 /\ TaskKind(Top) = "task" /\ Top.i = 0
  <2>1. Len(calls) \in Nat \ {0} /\ Top = calls[Len(calls)]
    BY <1>1, TopFacts DEF Inv, TypeOK
  <2>2. Top.i = 0
    BY <1>1, <2>1 DEF ChoicesHeld, Counted
  <2>3. QED
    BY <1>1, <2>2, PlainOps
<1>3. CASE Return("sde", env)
  BY <1>1, <1>2, <1>3, ReturnForm, ReturnedTask
<1>4. CASE calls' = SetTop([Top EXCEPT !.op = "occurrences"])
  <2> DEFINE t == [Top EXCEPT !.op = "occurrences"]
  <2>1. t \in Activation /\ t.frame = 0 /\ t.i = 0 /\ t.op = "occurrences" /\ t.node = Top.node
    BY <1>1, <1>2 DEF Activation
  <2>2. calls' = SetTop(t)
    BY <1>4
  <2> HIDE DEF t
  <2>3. TaskKind(t) = "loop" \/ TaskKind(t) = "task"
    BY <2>1, LoopKind
  <2>4. QED
    BY <1>1, <1>2, <2>1, <2>2, <2>3, BecomingTask, WorkingTask
<1>5. QED
  BY <1>3, <1>4 DEF OpenElement

----------------------------------------------------------------------------
(* A decode starts and ends.                                               *)

LEMMA NoTasks ==
  /\ calls = <<>> => Tasks = <<>>
  /\ calls' = <<>> => Tasks' = <<>>
<1>1. ASSUME NEW p PROVE TaskList(<<>>, p) = <<>>
  <2>1. TaskList(<<>>, p) = [k \in {} |-> TaskOf(<<>>[k], p)]
    BY DEF TaskList
  <2>2. <<>> = [k \in {} |-> TaskOf(<<>>[k], p)]
    OBVIOUS
  <2>3. QED
    BY <2>1, <2>2
<1>2. QED
  BY <1>1, TasksAre

(* A decode starts with a plain task.                                      *)
LEMMA StartDecodeImplements == Inv /\ Inv' /\ StartDecode => Abstract!Next
<1> SUFFICES ASSUME Inv, Inv', StartDecode PROVE Abstract!Next
  OBVIOUS
<1>1. calls = <<>> /\ Tasks = <<>>
  BY NoTasks DEF StartDecode, Inv, FramesMatchCalls
<1>2. PICK e : calls' = <<Activate("call", root, e)>>
  BY DEF StartDecode
<1> DEFINE b == Activate("call", root, e)
<1>3. calls' = <<b>> /\ b.frame = 0 /\ TaskKind(b) = "task"
  BY <1>2 DEF Activate, TaskKind
<1> HIDE DEF b
<1>4. Tasks' = Append(Tasks, Begun("task", {}))
  <2>1. calls' \in Seq(Activation) /\ Len(calls') = 1 /\ calls'[1] = b
    BY <1>3 DEF Inv, TypeOK
  <2>2. /\ IsStack(Tasks', 1) /\ Tasks'[1] = TaskOf(b, pou')
    BY <2>1, TasksAre, ListFacts
  <2>3. Tasks'[1] = Begun("task", {})
    BY <1>3, <2>2, IdleTask, PlainTask
  <2>4. Tasks' = [k \in 1..1 |-> Tasks'[k]]
    BY <2>2 DEF IsStack
  <2>5. Tasks' = <<Begun("task", {})>>
    BY <2>3, <2>4
  <2>6. QED
    BY <1>1, <2>5
<1>5. QED
  BY <1>1, <1>4, WorkStep

(* It ends with none.                                                      *)
LEMMA EndDecodeImplements == EndDecode => Abstract!Next
<1> SUFFICES ASSUME EndDecode PROVE Abstract!Next
  OBVIOUS
<1>1. Tasks = <<>> /\ Tasks' = <<>>
  BY NoTasks DEF EndDecode
<1>2. QED
  BY <1>1, WorkStep

----------------------------------------------------------------------------
(* Every step is a step of Backtracking, or one it does not see.           *)

LEMMA StepImplements ==
  Inv /\ Inv' /\ ChoicesHeld /\ [Next]_vars => Abstract!Next \/ UNCHANGED Abstract!vars
<1> SUFFICES ASSUME Inv, Inv', ChoicesHeld, [Next]_vars
             PROVE  Abstract!Next \/ UNCHANGED Abstract!vars
  OBVIOUS
<1>1. CASE UNCHANGED vars
  <2>1. Tasks' = Tasks /\ Store(env') = Store(env) /\ Answered' = Answered
    BY <1>1 DEF vars, Tasks, AsTask, Answered
  <2>2. QED
    BY <2>1, StutterStep
<1>2. CASE Next
  BY <1>2, OpenGroupImplements, SequenceImplements, ChoiceHeaderImplements, TryBranchImplements,
     BranchReturnedImplements, EndChoiceImplements, OpenElementImplements, EmptySlotImplements,
     StartOccurrenceImplements, EndOccurrencesImplements, OccurrenceReturnedImplements,
     ZeroLengthReturnedImplements, SingleImplements, StartDecodeImplements, EndDecodeImplements
     DEF Next, Run
<1>3. QED
  BY <1>1, <1>2

(* Nor is there one initially.                                             *)
LEMMA InitImplements == Init => Abstract!Init
<1> SUFFICES ASSUME Init PROVE Abstract!Init
  OBVIOUS
<1>1. Tasks = <<>> /\ Answered = "none"
  BY NoTasks DEF Init, Answered
<1>2. QED
  BY <1>1 DEF Abstract!Init, Tasks, Answered

(* Choices and occurrence loops, as the decoder runs them with its frames, *)
(* saved environments and commits, are ordered choice with cut.            *)
THEOREM BacktracksCorrect == Spec => Backtracks
<1>1. Inv /\ Inv' /\ ChoicesHeld /\ [Next]_vars => [Abstract!Next]_(Abstract!vars)
  BY StepImplements
<1>2. QED
  BY <1>1, InitImplements, HeldAlways, PTL DEF Spec, Backtracks, Abstract!Spec
=============================================================================
