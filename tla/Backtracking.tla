---------------------------- MODULE Backtracking ----------------------------
(***************************************************************************)
(* What the decoder's backtracking promises: ordered choice with cut over a*)
(* store.                                                                  *)
(*                                                                         *)
(* Tasks run on a stack.  A choice attempts its alternatives one after the *)
(* other, each from the store in which the choice began; it answers yes    *)
(* when one does.  An attempt that has been cut is the last one.  A loop   *)
(* attempts the same thing again and again; a cut attempt that answers no  *)
(* ends it.  Any other task may do anything to the store, and may cut: the *)
(* attempts in flight from the nearest choice outwards that was not cut.   *)
(***************************************************************************)
EXTENDS Naturals, Sequences

VARIABLES
  stack,     (* the tasks, innermost last                                  *)
  store,     (* what an abandoned alternative must not change              *)
  answer     (* "none" while a task runs; the answer of one that has ended *)

vars == <<stack, store, answer>>

(* A task: done counts the alternatives disposed of, or the items; start   *)
(* holds the store in which a choice began.                                *)
Begin(kind, start) ==
  [kind |-> kind, done |-> 0, trying |-> FALSE, cut |-> FALSE, start |-> start]

Task == Begin("task", {})

Top     == stack[Len(stack)]
Rest    == SubSeq(stack, 1, Len(stack) - 1)
With(t) == Append(Rest, t)

Runs(kind)  == stack # <<>> /\ Top.kind = kind /\ answer = "none" /\ ~Top.trying
Ended(kind) == stack # <<>> /\ Top.kind = kind /\ answer # "none" /\ Top.trying

(* The attempts that a cut reaches.                                        *)
OpenChoices(s) == {k \in DOMAIN s : s[k].kind = "choice" /\ s[k].trying /\ ~s[k].cut}

Cut(s) ==
  [k \in DOMAIN s |->
     [s[k] EXCEPT !.cut = @ \/ /\ s[k].trying
                               /\ \A c \in OpenChoices(s) : c <= k \/ \E d \in OpenChoices(s) : d > c]]

(* An alternative or an occurrence is attempted by a task of its own.      *)
Attempt ==
  /\ Runs("choice") \/ Runs("loop")
  /\ \E cut \in BOOLEAN :
       stack' = Append(With([Top EXCEPT !.trying = TRUE, !.cut = cut]), Task)
  /\ UNCHANGED <<store, answer>>

(* A choice passes over an alternative, or gives up.                       *)
PassOver ==
  /\ Runs("choice")
  /\ stack' = With([Top EXCEPT !.done = @ + 1])
  /\ UNCHANGED <<store, answer>>

GiveUp ==
  /\ Runs("choice")
  /\ stack' = Rest /\ answer' = "no"

(* An alternative has ended: the choice answers with it, or fails, or, when*)
(* it was not cut, goes on from where it began.                            *)
Choose ==
  /\ Ended("choice")
  /\ \/ answer = "yes" /\ stack' = Rest /\ answer' = "yes"
     \/ stack' = Rest /\ answer' = "no"
     \/ /\ ~Top.cut
        /\ stack' = With([Top EXCEPT !.done = @ + 1, !.trying = FALSE])
        /\ store' \in Top.start /\ answer' = "none"

(* A loop steps over something, or ends.                                   *)
Iterate ==
  /\ Runs("loop")
  /\ \/ answer' = "none" /\ \E n \in {0, 1} : stack' = With([Top EXCEPT !.done = @ + n])
     \/ answer' # "none" /\ stack' = Rest

(* An occurrence has ended: the loop goes on, unless it was cut and failed.*)
Occur ==
  /\ Ended("loop")
  /\ Top.cut /\ answer = "no" => answer' = "no"
  /\ \/ answer' # "none" /\ stack' = Rest
     \/ /\ answer' = "none"
        /\ \E n \in {0, 1} :
             stack' = With([Top EXCEPT !.done = @ + n, !.trying = FALSE, !.cut = FALSE])

(* Any other task does what it likes: it calls another, becomes a choice or*)
(* a loop, ends, or goes on; and it may cut.                               *)
Work ==
  /\ stack = <<>> \/ Top.kind = "task"
  /\ \E s \in {stack, Append(stack, Task)}
              \union (IF stack = <<>> THEN {}
                      ELSE {Rest, With(Begin("choice", {store'})), With(Begin("loop", {}))}) :
       stack' \in {s, Cut(s)}

Init == stack = <<>> /\ answer = "none"

Next == Attempt \/ PassOver \/ GiveUp \/ Choose \/ Iterate \/ Occur \/ Work

Spec == Init /\ [][Next]_vars
============================================================================
