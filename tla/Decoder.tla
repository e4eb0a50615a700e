------------------------------ MODULE Decoder ------------------------------
(***************************************************************************)
(* The backtracking core of the DFDL decoder (src/dfdl-vm/src/vm/decoder). *)
(*                                                                         *)
(* A Decoder walks the IR program recursively: sequences, choices and      *)
(* occurrence loops over elements.  Choices and occurrences are points of  *)
(* uncertainty; each keeps a frame on choice_pou_stack while one of its    *)
(* attempts is in flight, and a discriminator that holds commits frames of *)
(* that stack.  A failed attempt is abandoned only when its frame is not   *)
(* committed, and a choice then puts the variables, the set of variables   *)
(* read and the cursor back before it tries the next branch.               *)
(*                                                                         *)
(* The recursion of the Rust code is an explicit stack of activations; the *)
(* program is a constant, and what the input decides (does a delimiter     *)
(* match, does a test hold) is a nondeterministic choice.                  *)
(***************************************************************************)
EXTENDS Naturals, Sequences, FiniteSets

CONSTANTS
  Node,         (* IR node ids.                                            *)
  Roots,        (* the programs checked, each by its IrProgram.root        *)
  Kind,         (* "sequence", "choice" or "element", per node             *)
  Kids,         (* children of a sequence, branches of a choice, the child *)
                (* of a complex element (<<>> for a simple one)            *)
  Test,         (* "none", "assert" or "discriminator", per node           *)
  PreNode,      (* the node whose discriminator is evaluated before a      *)
                (* branch is decoded, per branch                           *)
  MinOccurs,    (* occurs_min, per element                                 *)
  MaxOccurs,    (* occurs_max, per element (finite: bounds the loop)       *)
  Dispatch,     (* the choices that have a dispatch key                    *)
  Framed,       (* the complex elements decoded in a sub-cursor            *)
  MayBeAbsent,  (* the complex elements that may answer ElementAbsent: the *)
                (* parent's separator follows at once                      *)
  Slots,        (* the simple elements delimited by their surroundings: an *)
                (* empty slot may stand for an occurrence                  *)
  NeverSuppressed, (* the array elements whose separators are never        *)
                (* suppressed (separatorSuppressionPolicy never)           *)
  Nillable,     (* the elements that may be nil                            *)
  ZeroLength,   (* the elements of explicit length 0                       *)
  ChoiceFrame,  (* bytes of an explicit-length choice, 0 when implicit     *)
  NewVars,      (* newVariableInstance declarations, per node              *)
  SetVars,      (* setVariable statements, per node                        *)
  ReadVars,     (* variables the node's expressions read                   *)
  Var, Val,     (* DFDL variables and their values                         *)
  Default,      (* the value every variable has when a decode starts       *)
  InputLen,     (* length of the input: bounds the cursor                  *)
  MaxDecodes    (* number of decode() calls on the handle: bounds the model*)

Kinds == {"sequence", "choice", "element"}

ASSUME ProgramAssumption ==
  /\ Roots \subseteq Node
  /\ Kind \in [Node -> Kinds]
  /\ Kids \in [Node -> Seq(Node)]
  /\ Test \in [Node -> {"none", "assert", "discriminator"}]
  /\ MinOccurs \in [Node -> Nat]
  /\ MaxOccurs \in [Node -> Nat]
  /\ ChoiceFrame \in [Node -> Nat]
  /\ Dispatch \subseteq Node /\ Framed \subseteq Node /\ MayBeAbsent \subseteq Node
  /\ Slots \subseteq Node /\ NeverSuppressed \subseteq Node
  /\ Nillable \subseteq Node /\ ZeroLength \subseteq Node

(* choice_branch_element_props: down the first children of the sequences   *)
(* that have no discriminator of their own.                                *)
ASSUME PreNodeAssumption ==
  /\ PreNode \in [Node -> Node]
  /\ \A n \in Node :
       PreNode[n] = IF Kind[n] = "sequence" /\ Test[n] # "discriminator" /\ Kids[n] # <<>>
                    THEN PreNode[Kids[n][1]] ELSE n

ASSUME VariableAssumption ==
  /\ NewVars \in [Node -> SUBSET Var]
  /\ SetVars \in [Node -> SUBSET Var]
  /\ ReadVars \in [Node -> SUBSET Var]
  /\ Default \in Val

ASSUME BoundAssumption == InputLen \in Nat /\ MaxDecodes \in Nat

VARIABLES
  root,       (* the root of the program the handle was made for           *)
  calls,      (* the call stack, innermost activation last                 *)
  signal,     (* "run": the innermost activation goes on; a Result: the    *)
              (* one it called has just returned it; "idle": no decode     *)
  env,        (* what backtracking puts back: runtime_variables,           *)
              (* read_variables and the cursor position                    *)
  pou,        (* choice_pou_stack                                          *)
  sticky,     (* discriminator_committed_branch                            *)
  enclosing,  (* the stack of enclosing complex elements                   *)
  decodes,    (* decode() calls so far                                     *)
  raised      (* history: a schema definition error arose in this decode   *)

vars == <<root, calls, signal, env, pou, sticky, enclosing, decodes, raised>>

Results == {"ok", "absent", "fail", "sde"}
Env     == [vals : [Var -> Val], reads : SUBSET Var, pos : Nat]
Frame   == [kind : {"Choice", "Occurrence"}, committed : BOOLEAN]

(* One activation of the recursive decoder; a "call" has not started its   *)
(* body.  i counts children, branches or items; frame is the index of its  *)
(* frame on the stack, 0 when none is pushed; outer, saved and entry are   *)
(* the state at scope entry (VariableScopeGuard), the state saved for the  *)
(* attempt in flight, and the state in which the first attempt began.  A   *)
(* "stuck" activation repeats the same iteration for ever.                 *)
Activation ==
  [op    : {"call", "sequence", "choice", "occurrences", "stuck", "single"},
   node  : Node,
   i     : Nat,
   frame : Nat,
   outer : Env, saved : Env, entry : Env]

TypeOK ==
  /\ root \in Node
  /\ calls \in Seq(Activation)
  /\ signal \in {"idle", "run"} \union Results
  /\ env \in Env
  /\ pou \in Seq(Frame)
  /\ sticky \in BOOLEAN
  /\ enclosing \in Seq(Node)
  /\ decodes \in Nat
  /\ raised \in BOOLEAN

----------------------------------------------------------------------------
(* The call stack.                                                         *)

Top         == calls[Len(calls)]
Pop(s)      == SubSeq(s, 1, Len(s) - 1)
SetTop(a)   == [calls EXCEPT ![Len(calls)] = a]
In(op)      == calls # <<>> /\ signal = "run" /\ Top.op = op
Back(op)    == calls # <<>> /\ signal \in Results /\ Top.op = op

Activate(op, n, e) ==
  [op |-> op, node |-> n, i |-> 0, frame |-> 0, outer |-> e, saved |-> e, entry |-> e]

Call(n) == Activate("call", n, env)

(* Raising is recorded so that properties can speak of the whole decode.   *)
Signal(s) == signal' = s /\ raised' = (raised \/ s = "sde")

(* The cursor after something that consumes a little input, or nothing.    *)
Ahead(p) == {p} \union ({p + 1} \intersect 0..InputLen)

----------------------------------------------------------------------------
(* The stack of points of uncertainty.                                     *)

Push(stack, kind) == Append(stack, [kind |-> kind, committed |-> FALSE])

MarkTop(stack) == [stack EXCEPT ![Len(stack)].committed = TRUE]

(* The frames a commit reaches: down from the top to the first choice that *)
(* is not committed, or all of them when every choice is.                  *)
UncommittedChoices(stack) ==
  {k \in DOMAIN stack : stack[k].kind = "Choice" /\ ~stack[k].committed}

Reached(stack) ==
  {k \in DOMAIN stack : \A c \in UncommittedChoices(stack) :
      (\A d \in UncommittedChoices(stack) : d <= c) => k >= c}

(* Mutant: a commit reaches the outermost attempt.                         *)
CommitEvery(stack) == [k \in DOMAIN stack |-> [stack[k] EXCEPT !.committed = TRUE]]

CommitNearest(stack) ==
  [k \in DOMAIN stack |->
     [kind |-> stack[k].kind,
      committed |-> stack[k].committed \/ k \in Reached(stack)]]

Commit ==
  /\ pou' = CommitNearest(pou)
  /\ sticky' = (sticky \/ pou = <<>>)

(* validate_particle_discriminator: a test that holds commits, whether it  *)
(* is a discriminator or an assert; a failed assert may be recoverable.    *)
Verdicts(n) ==
  CASE Test[n] = "none"          -> {"none"}
    [] Test[n] = "assert"        -> {"holds", "fail", "recovered", "sde"}
    [] Test[n] = "discriminator" -> {"holds", "fail", "sde"}

Commits(n, v) == v = "holds"

ApplyVerdict(n, v) ==
  IF Commits(n, v) THEN Commit ELSE UNCHANGED <<pou, sticky>>

----------------------------------------------------------------------------
(* Variables.                                                              *)

(* Mutant: the table is replaced, not updated.                             *)
AssignReplacing(f, g) == g

Assign(f, g) == [v \in Var |-> IF v \in DOMAIN g THEN g[v] ELSE f[v]]

(* The values given to some of the variables vs before an error.           *)
Partial(vs) == UNION {[D -> Val] : D \in (SUBSET vs) \ {vs}}

NewInstances(e, g) == [e EXCEPT !.vals = Assign(@, g), !.reads = @ \ DOMAIN g]

(* enter_variable_scope: every new instance gets its value and counts as   *)
(* unread; an error part-way returns before the guard exists, so the       *)
(* instances made so far stay.                                             *)
ScopeResults(n, e) ==
  {[res |-> "ok", env |-> NewInstances(e, g)] : g \in [NewVars[n] -> Val]}
  \union
  UNION {{[res |-> r, env |-> NewInstances(e, g)] : r \in {"fail", "sde"}}
           : g \in Partial(NewVars[n])}

(* Dropping the VariableScopeGuard of node n: the shadowed values and      *)
(* "already read" marks come back; marks made inside are not removed.      *)
LeaveScope(n, outer, e) ==
  [e EXCEPT !.vals  = [v \in Var |-> IF v \in NewVars[n] THEN outer.vals[v] ELSE @[v]],
            !.reads = @ \union (outer.reads \intersect NewVars[n])]

Refused(n, e) == SetVars[n] \intersect e.reads # {}

Updated(n, e, g) ==
  [e EXCEPT !.vals  = Assign(@, g),
            !.reads = @ \union (IF SetVars[n] = {} THEN {} ELSE ReadVars[n])]

(* evaluate_and_set_variables: refused when one of them has been read,     *)
(* otherwise assigned one after the other until an expression fails.       *)
SetResults(n, e) ==
  IF Refused(n, e)
  THEN {[res |-> "sde", env |-> e]}
  ELSE {[res |-> "ok", env |-> Updated(n, e, g)] : g \in [SetVars[n] -> Val]}
       \union
       UNION {{[res |-> r, env |-> Updated(n, e, g)] : r \in {"fail", "sde"}}
                : g \in Partial(SetVars[n])}

----------------------------------------------------------------------------
(* decode_with_tdml_options: a decode starts on a handle and ends.         *)

StartDecode ==
  /\ signal = "idle" /\ decodes < MaxDecodes
  /\ decodes' = decodes + 1
  /\ LET e == [env EXCEPT !.vals = [v \in Var |-> Default], !.pos = 0] IN
       /\ env' = e
       /\ calls' = <<Activate("call", root, e)>>
  /\ signal' = "run" /\ raised' = FALSE
  /\ UNCHANGED <<pou, sticky, enclosing, root>>

(* The root returned: leftover input may still turn success into an error. *)
EndDecode ==
  /\ calls = <<>> /\ signal \in Results
  /\ signal' = "idle"
  /\ UNCHANGED <<calls, env, pou, sticky, enclosing, decodes, raised, root>>

----------------------------------------------------------------------------
(* Sequences and choices.                                                  *)

(* Returning to the caller with environment e.                             *)
Return(res, e) ==
  /\ Signal(res)
  /\ env' = e
  /\ calls' = Pop(calls)

(* Returning from a group drops its scope guard.                           *)
CloseGroup(res, e) == Return(res, LeaveScope(Top.node, Top.outer, e))

(* Entering either: variable scope, then setVariable.                      *)
OpenGroup ==
  /\ In("call") /\ Kind[Top.node] \in {"sequence", "choice"}
  /\ \E a \in ScopeResults(Top.node, env) :
       IF a.res # "ok"
       THEN Return(a.res, a.env)
       ELSE \E b \in SetResults(Top.node, a.env) :
              IF b.res # "ok"
              THEN CloseGroup(b.res, b.env)
              ELSE /\ Signal("run")
                   /\ env' = b.env
                   /\ calls' = SetTop([Top EXCEPT !.op = Kind[Top.node],
                                                  !.saved = b.env, !.entry = b.env])
  /\ UNCHANGED <<pou, sticky, enclosing, decodes, root>>

(* The sequence's pattern assert and initiator, then its discriminator.    *)
SequenceHeader ==
  /\ In("sequence") /\ Top.i = 0
  /\ \/ /\ CloseGroup("fail", env)
        /\ UNCHANGED <<pou, sticky>>
     \/ \E p \in Ahead(env.pos), v \in Verdicts(Top.node) :
          LET e == [env EXCEPT !.pos = p, !.reads = @ \union ReadVars[Top.node]] IN
          /\ ApplyVerdict(Top.node, v)
          /\ IF v \in {"fail", "sde"}
             THEN CloseGroup(v, e)
             ELSE /\ Signal("run")
                  /\ calls' = SetTop([Top EXCEPT !.i = 1])
                  /\ env' = e
  /\ UNCHANGED <<enclosing, decodes, root>>

(* The next child: its separator may be missing, or an empty trailing slot *)
(* may stand for it.                                                       *)
NextChild ==
  /\ In("sequence") /\ Top.i \in 1..Len(Kids[Top.node])
  /\ \/ /\ calls' = Append(calls, Call(Kids[Top.node][Top.i]))
        /\ UNCHANGED <<signal, env, raised>>
     \/ /\ calls' = SetTop([Top EXCEPT !.i = @ + 1])
        /\ UNCHANGED <<signal, env, raised>>
     \/ \E r \in {"fail", "sde"} : CloseGroup(r, env)
  /\ UNCHANGED <<pou, sticky, enclosing, decodes, root>>

ChildReturned ==
  /\ Back("sequence")
  /\ \/ /\ signal \in {"ok", "absent"}
        /\ Signal("run")
        /\ calls' = SetTop([Top EXCEPT !.i = @ + 1])
        /\ UNCHANGED env
     \/ /\ signal = "ok"           \* only separators follow: the loop ends
        /\ Signal("run")
        /\ calls' = SetTop([Top EXCEPT !.i = Len(Kids[Top.node]) + 1])
        /\ UNCHANGED env
     \/ /\ signal = "absent"       \* trailingEmptyStrict
        /\ Kind[Kids[Top.node][Top.i]] = "element"
        /\ CloseGroup("fail", env)
     \/ /\ signal \in {"fail", "sde"}
        /\ CloseGroup(signal, env)
  /\ UNCHANGED <<pou, sticky, enclosing, decodes, root>>

EndSequence ==
  /\ In("sequence") /\ Top.i > Len(Kids[Top.node])
  /\ \E r \in {"ok", "fail"}, p \in Ahead(env.pos) :
       CloseGroup(r, [env EXCEPT !.pos = p])
  /\ UNCHANGED <<pou, sticky, enclosing, decodes, root>>

----------------------------------------------------------------------------
(* The branch loop of decode_choice.                                       *)

(* The dispatch key is worked out once, before the first branch.           *)
ChoiceHeader ==
  /\ In("choice") /\ Top.i = 0
  /\ \/ /\ Signal("run")
        /\ calls' = SetTop([Top EXCEPT !.i = 1])
        /\ UNCHANGED env
     \/ /\ Top.node \in Dispatch
        /\ CloseGroup("fail", env)
  /\ UNCHANGED <<pou, sticky, enclosing, decodes, root>>

Branch == Kids[Top.node][Top.i]

(* The frame of this attempt is pushed, and the branch is entered with the *)
(* variables saved.                                                        *)
EnterBranch(stack) ==
  /\ pou' = stack
  /\ calls' = Append(SetTop([Top EXCEPT !.frame = Len(pou) + 1, !.saved = env]),
                     Call(Branch))
  /\ UNCHANGED <<signal, env, sticky, raised>>

(* Mutant: the frame stays on the stack.                                   *)
SkipBranchWithoutPop(reads) ==
  /\ calls' = SetTop([Top EXCEPT !.i = @ + 1])
  /\ pou' = Push(pou, "Choice")
  /\ env' = [env EXCEPT !.reads = @ \union reads]
  /\ UNCHANGED <<signal, sticky, raised>>

(* The frame is popped again and the next branch is looked at.             *)
SkipBranch(reads) ==
  /\ calls' = SetTop([Top EXCEPT !.i = @ + 1])
  /\ env' = [env EXCEPT !.reads = @ \union reads]
  /\ UNCHANGED <<signal, pou, sticky, raised>>

TryBranch ==
  /\ In("choice") /\ Top.i \in 1..Len(Kids[Top.node])
  /\ LET pushed == Push(pou, "Choice")
         pre    == PreNode[Branch]
     IN IF Top.node \in Dispatch
        THEN EnterBranch(MarkTop(pushed)) \/ SkipBranch({})
        ELSE \/ EnterBranch(pushed)                \* no test, or undecided
             \/ /\ Test[pre] = "discriminator"
                /\ \/ EnterBranch(CommitNearest(pushed))
                   \/ SkipBranch(ReadVars[pre])    \* reads of its message
                   \/ /\ CloseGroup("sde", env)
                      /\ UNCHANGED <<pou, sticky>>
  /\ UNCHANGED <<enclosing, decodes, root>>

(* Mutants: the variables, or the marks of those read, are not put back.   *)
RollbackCursorOnly == [env EXCEPT !.pos = Top.entry.pos]
RollbackKeepingReads == [env EXCEPT !.pos = Top.entry.pos, !.vals = Top.saved.vals]

(* What an abandoned branch leaves behind: nothing.                        *)
Rollback == [Top.saved EXCEPT !.pos = Top.entry.pos]

(* Mutant: the same branch again.                                          *)
SameAlternative ==
  /\ Signal("run")
  /\ calls' = SetTop([Top EXCEPT !.frame = 0])
  /\ env' = Rollback

NextAlternative ==
  /\ Signal("run")
  /\ calls' = SetTop([Top EXCEPT !.i = @ + 1, !.frame = 0])
  /\ env' = Rollback

(* Every error leaves the caller's cursor where the choice began: branches *)
(* are decoded on a clone.                                                 *)
FailChoice(res) == CloseGroup(res, [env EXCEPT !.pos = Top.entry.pos])

(* Mutants: a committed branch, or a schema definition error, is taken for *)
(* an ordinary failure.                                                    *)
BranchReturnedUncommitted ==
  /\ Back("choice")
  /\ pou' = Pop(pou)
  /\ \/ signal = "ok" /\ CloseGroup("ok", env)
     \/ signal = "sde" /\ FailChoice("sde")
     \/ signal # "sde" /\ NextAlternative
  /\ UNCHANGED <<sticky, enclosing, decodes, root>>

BranchReturnedAnyError ==
  /\ Back("choice")
  /\ pou' = Pop(pou)
  /\ LET committed == pou[Len(pou)].committed IN
     \/ signal = "ok" /\ CloseGroup("ok", env)
     \/ IF committed THEN FailChoice("fail") ELSE NextAlternative
  /\ UNCHANGED <<sticky, enclosing, decodes, root>>

BranchReturned ==
  /\ Back("choice")
  /\ pou' = Pop(pou)
  /\ LET committed == pou[Len(pou)].committed IN
     \/ signal = "ok" /\ CloseGroup("ok", env)
     \/ signal = "sde" /\ FailChoice("sde")
     \/ /\ signal # "sde"       \* an error, or a value its facets refuse
        /\ IF committed THEN FailChoice("fail") ELSE NextAlternative
  /\ UNCHANGED <<sticky, enclosing, decodes, root>>

EndChoice ==
  /\ In("choice") /\ Top.i > Len(Kids[Top.node])
  /\ CloseGroup("fail", [env EXCEPT !.pos = Top.entry.pos + ChoiceFrame[Top.node]])
  /\ UNCHANGED <<pou, sticky, enclosing, decodes, root>>

----------------------------------------------------------------------------
(* decode_element_occurrences: the loop over the occurrences of an element. *)

OpenElement ==
  /\ In("call") /\ Kind[Top.node] = "element"
  /\ \/ /\ calls' = SetTop([Top EXCEPT !.op = "occurrences"])
        /\ UNCHANGED <<signal, env, raised>>
     \/ Return("sde", env)                     \* occursCount expression
  /\ UNCHANGED <<pou, sticky, enclosing, decodes, root>>

(* What the loop answers with i items: too few, none, or the value.        *)
LoopResults(i) ==
  IF i < MinOccurs[Top.node] THEN {"fail"}
  ELSE IF i = 0 THEN {"ok", "absent", "fail"} ELSE {"ok", "fail"}

(* An empty slot is an empty item while items are required.  In an optional*)
(* array only its separator is consumed and the loop goes on; when nothing *)
(* is (the slot ends in a terminator, say) the loop finds the same slot    *)
(* again, and so on for ever.                                              *)
EmptySlot ==
  /\ In("occurrences") /\ Top.i < MaxOccurs[Top.node] /\ Top.node \in Slots
  /\ \E p \in Ahead(env.pos) :
       /\ env' = [env EXCEPT !.pos = p]
       /\ \/ /\ Top.i < MinOccurs[Top.node]
             /\ calls' = SetTop([Top EXCEPT !.i = @ + 1])
          \/ /\ MinOccurs[Top.node] = 0 /\ env.pos < InputLen
             /\ calls' = IF p > env.pos THEN calls ELSE SetTop([Top EXCEPT !.op = "stuck"])
  /\ UNCHANGED <<signal, pou, sticky, enclosing, decodes, raised, root>>

(* At the end of the input only a required or a first occurrence is tried. *)
(* A separator may be missing before an occurrence; then the occurrence is *)
(* attempted under a frame of its own, unless its length is 0.             *)
StartOccurrence ==
  /\ In("occurrences") /\ Top.i < MaxOccurs[Top.node]
  /\ env.pos < InputLen \/ Top.i < MinOccurs[Top.node] \/ Top.i = 0
  /\ \/ /\ Top.i > 0
        /\ Return("fail", env)
        /\ UNCHANGED pou
     \/ LET framed == Top.node \notin ZeroLength IN
        /\ pou' = IF framed THEN Push(pou, "Occurrence") ELSE pou
        /\ calls' = Append(SetTop([Top EXCEPT !.frame = IF framed THEN Len(pou) + 1 ELSE 0,
                                              !.saved = env]),
                           Activate("single", Top.node, env))
        /\ UNCHANGED <<env, signal, raised>>
  /\ UNCHANGED <<sticky, enclosing, decodes, root>>

EndOccurrences ==
  /\ In("occurrences") /\ Top.i >= MinOccurs[Top.node]
  /\ \E r \in LoopResults(Top.i) : Return(r, env)
  /\ UNCHANGED <<pou, sticky, enclosing, decodes, root>>

(* The attempt is over: the loop goes on with i items and environment e.   *)
Resume(i, e) ==
  /\ Signal("run")
  /\ calls' = SetTop([Top EXCEPT !.i = i, !.frame = 0])
  /\ env' = e

(* Back to the cursor of the attempt; what it did to the variables stays.  *)
Rewound == [env EXCEPT !.pos = Top.saved.pos]

(* A separator after q is consumed for a slot that holds no item.          *)
SkipSlot(i, q) ==
  \E p \in Ahead(q) \ {q} : Resume(i, [env EXCEPT !.pos = p])

(* What the attempt's error leads to when its frame is not committed.      *)
AbandonOccurrence ==
  LET i == Top.i  min == MinOccurs[Top.node] IN
  \/ signal = "sde" /\ Return("sde", env)
  \/ /\ signal # "sde" /\ i < min
     /\ \/ Return("fail", env)
        \/ \E r \in LoopResults(i + 1) : Return(r, env)    \* default value
  \/ /\ signal = "absent" /\ i >= min
     /\ IF i = 0 THEN Return("absent", Rewound) \/ SkipSlot(i, Top.saved.pos)
                 ELSE Resume(i, env)                       \* not rewound
  \/ /\ signal = "fail" /\ Top.node \in NeverSuppressed
     /\ \E p \in Ahead(Top.saved.pos) :
          IF p = InputLen /\ i >= min
          THEN \E r \in LoopResults(i) : Return(r, [env EXCEPT !.pos = p])
          ELSE Resume(i, [env EXCEPT !.pos = p])
  \/ /\ signal = "fail" /\ i >= min
     /\ \/ \E r \in LoopResults(i) : Return(r, Rewound)
        \/ Return("fail", env)                             \* initiator mismatch
        \/ SkipSlot(i, IF i = 0 THEN Top.saved.pos ELSE env.pos)

(* A value may end the loop: a postfix separator or an occursIndex assert  *)
(* fails, nothing was consumed, or it is an empty one to be dropped.       *)
AcceptOccurrence ==
  \/ Resume(Top.i + 1, env)
  \/ Return("fail", env)
  \/ MinOccurs[Top.node] <= Top.i /\ env.pos > Top.saved.pos /\ Resume(Top.i, env)
  \/ SkipSlot(Top.i, env.pos)
  \/ /\ MinOccurs[Top.node] <= Top.i
     /\ \E r \in LoopResults(Top.i) : Return(r, Rewound)

(* Mutants: the frame's mark is not looked at; an error skips the pop.     *)
OccurrenceReturnedUncommitted ==
  /\ Back("occurrences") /\ Top.node \notin ZeroLength
  /\ pou' = Pop(pou)
  /\ IF signal = "ok" THEN AcceptOccurrence ELSE AbandonOccurrence
  /\ UNCHANGED <<sticky, enclosing, decodes, root>>

OccurrenceReturnedWithoutPop ==
  /\ Back("occurrences") /\ Top.node \notin ZeroLength
  /\ IF signal = "ok" THEN pou' = Pop(pou) /\ AcceptOccurrence
     ELSE /\ UNCHANGED pou
          /\ IF pou[Len(pou)].committed THEN Return("fail", env) ELSE AbandonOccurrence
  /\ UNCHANGED <<sticky, enclosing, decodes, root>>

OccurrenceReturned ==
  /\ Back("occurrences") /\ Top.node \notin ZeroLength
  /\ pou' = Pop(pou)
  /\ CASE signal = "ok"              -> AcceptOccurrence
       [] signal # "ok" /\ pou[Len(pou)].committed
                                     -> Return("fail", env)  \* Failed to populate
       [] signal # "ok" /\ ~pou[Len(pou)].committed
                                     -> AbandonOccurrence
  /\ UNCHANGED <<sticky, enclosing, decodes, root>>

(* An item of length 0 has no frame: its errors are the loop's.            *)
ZeroLengthReturned ==
  /\ Back("occurrences") /\ Top.node \in ZeroLength
  /\ \/ signal = "ok" /\ (Resume(Top.i + 1, env) \/ Return("fail", env))
     \/ signal # "ok" /\ Return(signal, env)
  /\ UNCHANGED <<pou, sticky, enclosing, decodes, root>>

----------------------------------------------------------------------------
(* decode_single_element: one occurrence.                                  *)

Complex(n) == Kids[n] # <<>>

(* The element's own test, then its setVariable statements.  A framed      *)
(* element's test is not evaluated.                                        *)
FinishElement(e) ==
  \E v \in (IF Top.node \in Framed THEN {"none"} ELSE Verdicts(Top.node)) :
    LET read == [e EXCEPT !.reads = @ \union ReadVars[Top.node]] IN
    /\ ApplyVerdict(Top.node, v)
    /\ IF v \in {"fail", "sde"}
       THEN Return(v, read)
       ELSE \E b \in SetResults(Top.node, read) : Return(b.res, b.env)

(* Framing, initiator or content fail before anything else has happened.   *)
ElementFails ==
  /\ In("single")
  /\ \E r \in {"fail", "sde"} \union (IF Top.node \in MayBeAbsent THEN {"absent"} ELSE {}),
        p \in Ahead(env.pos) :
       Return(r, [env EXCEPT !.pos = p])
  /\ UNCHANGED <<pou, sticky, enclosing, decodes, root>>

(* A simple element's value is read, or calculated from the variables.     *)
ReadSimple ==
  /\ In("single") /\ ~Complex(Top.node) /\ NewVars[Top.node] = {}
  /\ \E p \in Ahead(env.pos) : FinishElement([env EXCEPT !.pos = p])
  /\ UNCHANGED <<enclosing, decodes, root>>

(* Neither is that of a nil element.                                       *)
ReadNil ==
  /\ In("single") /\ Top.node \in Nillable /\ NewVars[Top.node] = {}
  /\ \E p \in Ahead(env.pos) :
       \E b \in SetResults(Top.node, [env EXCEPT !.pos = p]) : Return(b.res, b.env)
  /\ UNCHANGED <<pou, sticky, enclosing, decodes, root>>

(* A complex element decodes its child; a framed one does so in a cursor   *)
(* of its own and is not noted in enclosing.                               *)
EnterComplex ==
  /\ In("single") /\ Complex(Top.node) /\ NewVars[Top.node] = {}
  /\ calls' = Append(calls, Call(Kids[Top.node][1]))
  /\ enclosing' = IF Top.node \in Framed THEN enclosing ELSE Append(enclosing, Top.node)
  /\ UNCHANGED <<signal, env, pou, sticky, decodes, raised, root>>

(* An error of the child skips the pop of enclosing.                       *)
ContentReturned ==
  /\ Back("single")
  /\ \/ /\ signal # "ok"
        /\ Return(signal, env)
        /\ UNCHANGED <<pou, sticky, enclosing>>
     \/ /\ signal = "ok"
        /\ enclosing' = IF Top.node \in Framed THEN enclosing ELSE Pop(enclosing)
        /\ \/ FinishElement(env)
           \/ /\ Return("fail", env)                  \* terminator, trailing bytes
              /\ UNCHANGED <<pou, sticky>>
  /\ UNCHANGED <<decodes, root>>

----------------------------------------------------------------------------

Init ==
  /\ root \in Roots
  /\ calls = <<>> /\ signal = "idle"
  /\ env = [vals |-> [v \in Var |-> Default], reads |-> {}, pos |-> 0]
  /\ pou = <<>> /\ sticky = FALSE /\ enclosing = <<>>
  /\ decodes = 0 /\ raised = FALSE

Run ==
  \/ OpenGroup \/ SequenceHeader \/ NextChild \/ ChildReturned \/ EndSequence
  \/ ChoiceHeader \/ TryBranch \/ BranchReturned \/ EndChoice
  \/ OpenElement \/ EmptySlot \/ StartOccurrence \/ EndOccurrences \/ OccurrenceReturned
  \/ ZeroLengthReturned \/ ElementFails \/ ReadSimple \/ ReadNil \/ EnterComplex \/ ContentReturned
  \/ EndDecode

Next == StartDecode \/ Run

Spec == Init /\ [][Next]_vars

(* A decode is one call of a sequential function: once started it runs.    *)
FairSpec == Spec /\ WF_vars(Run)

----------------------------------------------------------------------------
(* Properties.                                                             *)

(* Frames and activations match: a choice or an occurrence loop has a frame*)
(* of its kind on choice_pou_stack exactly while one of its attempts is in *)
(* flight, in the order of the calls, and the stack holds nothing else.    *)
(* So every pop_choice_pou removes the frame its own attempt pushed, on    *)
(* every return path, and both stacks are empty between decodes.           *)
InFlight == {k \in DOMAIN calls : calls[k].frame # 0}

KindOf(op) == IF op = "choice" THEN "Choice" ELSE "Occurrence"

FramesMatchCalls ==
  /\ \A k \in DOMAIN calls :
       calls[k].frame # 0 <=>
         /\ calls[k].op \in {"choice", "occurrences"}
         /\ calls[k].op = "occurrences" => calls[k].node \notin ZeroLength
         /\ k < Len(calls) \/ signal # "run"
  /\ \A k \in InFlight :
       /\ calls[k].frame \in DOMAIN pou
       /\ pou[calls[k].frame].kind = KindOf(calls[k].op)
  /\ \A j, k \in InFlight : j < k => calls[j].frame < calls[k].frame
  /\ \A f \in DOMAIN pou : \E k \in InFlight : calls[k].frame = f
  /\ signal = "idle" => calls = <<>>

(* A committed attempt is the last one: when it is over its choice answers,*)
(* whatever the result, and its occurrence loop answers with an error      *)
(* unless the occurrence succeeded.                                        *)
CommittedIsFinal ==
  [][\A k \in InFlight :
       /\ k = Len(calls) /\ pou[calls[k].frame].committed
       /\ calls[k].op = "choice" \/ signal # "ok"
       => /\ k \notin DOMAIN calls'
          /\ signal # "ok" => signal' \in {"fail", "sde"}]_vars

(* Every branch of a choice starts where the choice itself started: same   *)
(* cursor, same variable values, and nothing more marked as read than what *)
(* the messages of rejected discriminators have read.                      *)
BranchesStartAlike ==
  In("choice") =>
    LET earlier == {Kids[Top.node][j] : j \in 1..(Top.i - 1) \intersect 1..Len(Kids[Top.node])}
        messages == UNION {ReadVars[PreNode[b]] : b \in earlier}
    IN /\ env.pos = Top.entry.pos
       /\ env.vals = Top.entry.vals
       /\ Top.entry.reads \subseteq env.reads
       /\ env.reads \subseteq Top.entry.reads \union messages

(* A schema definition error ends the decode: choices and occurrence loops *)
(* pass it on instead of trying something else.  The one exception is the  *)
(* error of a committed occurrence, reported as "Failed to populate".      *)
SdePropagates ==
  [][signal = "sde" /\ calls # <<>> =>
       \/ signal' = "sde" /\ Len(calls') = Len(calls) - 1
       \/ Top.op = "occurrences" /\ Top.frame # 0 /\ pou[Top.frame].committed]_vars

(* A decode that has started ends, or is in the loop of an element that may*)
(* repeat an iteration without getting anywhere: an optional element that  *)
(* may be an empty slot, a repeated element that may be absent, an array   *)
(* whose separators are never suppressed.  Nothing else goes round.        *)
MayRepeat ==
  {n \in Slots : MinOccurs[n] = 0} \union MayBeAbsent \union NeverSuppressed

Repeating ==
  \E k \in DOMAIN calls :
    calls[k].op \in {"occurrences", "stuck"} /\ calls[k].node \in MayRepeat

OnlySlotsRepeat == signal = "run" ~> signal = "idle" \/ Repeating

(* A decode that has started ends: particle.rs reports a repeating element *)
(* that made no progress as an error.                                      *)
DecodeTerminates == signal = "run" ~> signal = "idle"

(* A schema definition error is not swallowed by backtracking: a decode in *)
(* which one was raised does not succeed.                                  *)
SdeNotSwallowed == calls = <<>> /\ raised => signal # "ok"

----------------------------------------------------------------------------
(* The decoder implements ordered choice with cut.  Its activations are the*)
(* tasks; the loop over an item of length 0 has no attempts.  The store is *)
(* the variables and the cursor; which variables were read is left out, as *)
(* the message of a rejected discriminator reads some.                     *)
Store(e) == [vals |-> e.vals, pos |-> e.pos]

TaskKind(a) ==
  CASE a.op = "choice" -> "choice"
    [] a.op \in {"occurrences", "stuck"} /\ a.node \notin ZeroLength -> "loop"
    [] OTHER -> "task"

AsTask(a) ==
  [kind   |-> TaskKind(a),
   done   |-> CASE a.op = "choice" /\ a.i > 0 -> a.i - 1
                [] TaskKind(a) = "loop" -> a.i
                [] OTHER -> 0,
   trying |-> a.frame # 0,
   cut    |-> a.frame # 0 /\ pou[a.frame].committed,
   start  |-> IF a.op = "choice" THEN {Store(a.entry)} ELSE {}]

Abstract == INSTANCE Backtracking WITH
  stack  <- [k \in DOMAIN calls |-> AsTask(calls[k])],
  store  <- Store(env),
  answer <- CASE signal \in {"run", "idle"} -> "none"
              [] signal = "ok" -> "yes"
              [] OTHER -> "no"

(* Choices and occurrence loops of the decoder are ordered choice with cut:*)
(* alternatives in order, each from the store the choice began with, none  *)
(* after a cut, and the answer is that of the last one attempted.          *)
Backtracks == Abstract!Spec

============================================================================
