----------------------------- MODULE Unordered -----------------------------
(***************************************************************************)
(* Sequences whose children come in an order the data decides              *)
(* (src/dfdl-vm/src/vm/decoder/sequence.rs): unordered sequences, by a     *)
(* scan for initiators or by a search with backtracking, and initiated     *)
(* content, ordered or not.                                                *)
(*                                                                         *)
(* The input is a sequence of tokens.  A child matches its words (its      *)
(* initiator, then its content) or answers the error it is given; the      *)
(* recursion of the search is the stack of its levels.                     *)
(***************************************************************************)
EXTENDS Integers, Sequences, FiniteSets

CONSTANTS
  Programs,     (* the sequences checked                                   *)
  Inputs,       (* the inputs they decode                                  *)
  NoTag,        (* a child without an initiator                            *)
  Separator,    (* the token that separates items                          *)
  Newline,      (* CR or LF, skipped between the items of initiated content*)
  Terminator,   (* the token that ends a sequence with a terminator        *)
  Unbounded,    (* maxOccurs unbounded; larger than any input              *)
  MaxDecodes    (* number of decodes on the handle: bounds the model       *)

(* A child: its initiator, the tokens of its content, after how many words *)
(* its discriminator is evaluated (0: it has none), its occurrence limits  *)
(* and how it answers when its words do not match ("refused": decoded, but *)
(* its facets say no; only the search asks them).                          *)
Errors == {"fail", "absent", "sde", "refused"}

IsSequence(s) == s \in Seq({s[k] : k \in DOMAIN s})

IsChild(c) ==
  /\ DOMAIN c = {"tag", "body", "cut", "min", "max", "error"}
  /\ IsSequence(c.body)
  /\ c.cut \in 0..(Len(c.body) + 1) /\ c.min \in Nat /\ c.max \in Nat
  /\ c.error \in Errors

(* A program: how its children are found, whether its own test holds (and  *)
(* commits), the position of its separator, whether it has a terminator    *)
(* and whether choice_pou_stack holds frames when it starts.               *)
IsProgram(p) ==
  /\ p.mode \in {"scan", "search", "initiated"}
  /\ p.ordered \in BOOLEAN /\ p.test \in BOOLEAN
  /\ p.separated \in {"no", "prefix", "infix", "postfix"}
  /\ p.terminated \in BOOLEAN /\ p.enclosed \in BOOLEAN
  /\ IsSequence(p.kids)
  /\ \A i \in DOMAIN p.kids : IsChild(p.kids[i])

ASSUME ProgramsAssumption == \A p \in Programs : IsProgram(p)
ASSUME InputsAssumption == \A s \in Inputs : IsSequence(s) /\ Len(s) < Unbounded
ASSUME BoundAssumption == Unbounded \in Nat /\ MaxDecodes \in Nat \ {0}

VARIABLES
  prog, input,
  pos,       (* the cursor                                                 *)
  map,       (* the items of each child: the spans they were read from     *)
  levels,    (* the activations of unordered_unseparated_backtrack         *)
  lower,     (* initiated_block_lower_indices                              *)
  signal,    (* "header", "scan", "search", or the result                  *)
  sticky,    (* discriminator_committed_branch                             *)
  decodes

vars == <<prog, input, pos, map, levels, lower, signal, sticky, decodes>>

Kid == DOMAIN prog.kids
Span == [from : Nat, to : Nat]

(* A level of the search: the child it tries (0 before the first), the     *)
(* cursor and map it started with, and whether that child is visited: then *)
(* the level above searches for the rest.  "taking" is the loop over the   *)
(* occurrences of a repeating child.                                       *)
Level == [i : Nat, pos : Nat, map : [Kid -> Seq(Span)],
          phase : {"trying", "taking", "visited"}, took : BOOLEAN]

TypeOK ==
  /\ prog \in Programs /\ input \in Inputs
  /\ pos \in 0..Len(input)
  /\ map \in [Kid -> Seq(Span)]
  /\ levels \in Seq(Level)
  /\ lower \in Nat
  /\ signal \in {"header", "scan", "search", "ok", "fail"}
  /\ sticky \in BOOLEAN /\ decodes \in 1..MaxDecodes

----------------------------------------------------------------------------
(* One occurrence of a child.                                              *)

Words(c) == (IF c.tag = NoTag THEN <<>> ELSE <<c.tag>>) \o c.body

(* How many words of c the input has at p.                                 *)
Matched(c, p) ==
  CHOOSE n \in 0..Len(Words(c)) :
    /\ p + n <= Len(input)
    /\ \A k \in 1..n : input[p + k] = Words(c)[k]
    /\ \/ n = Len(Words(c)) \/ p + n = Len(input)
       \/ input[p + n + 1] # Words(c)[n + 1]

Complete(c, p) == Matched(c, p) = Len(Words(c))

(* Its discriminator has held.                                             *)
Cut(c, p) == c.cut > 0 /\ Matched(c, p) >= c.cut

InitiatorPresent(c, p) == c.tag # NoTag /\ Matched(c, p) > 0

(* decode_element_occurrences with maxOccurs 1, under a frame of its own:  *)
(* the error of a committed occurrence is a failure, and so is that of an  *)
(* optional element whose initiator is not there, unless the input ends.   *)
Occurrence(c, p, min) ==
  IF min = 0 /\ p = Len(input) THEN "absent"
  ELSE IF Complete(c, p) THEN "ok"
  ELSE IF c.error = "refused" \/ Cut(c, p) THEN "fail"
  ELSE IF c.error = "sde" THEN "sde"
  ELSE IF min = 0 /\ (c.tag = NoTag \/ InitiatorPresent(c, p)) THEN "absent"
  ELSE "fail"

(* decode_one_element_occurrence: required when its initiator is there.    *)
OneOccurrence(c, p) ==
  Occurrence(c, p, IF InitiatorPresent(c, p) THEN 1 ELSE 0)

(* Mutant: the cursor ends one token further on.                           *)
AfterOneMore(c, p) == p + Len(Words(c)) + 1

After(c, p) == p + Len(Words(c))

Add(m, i, from, to) == [m EXCEPT ![i] = Append(@, [from |-> from, to |-> to])]

Multi(c) == c.max > 1

----------------------------------------------------------------------------
(* The sequence starts: its own test, evaluated with no choice open, sets  *)
(* the flag for good.                                                      *)
Header ==
  /\ signal = "header"
  /\ sticky' = (sticky \/ (prog.test /\ ~prog.enclosed))
  /\ signal' = IF prog.mode = "search" THEN "search" ELSE "scan"
  /\ levels' = IF prog.mode = "search"
               THEN <<[i |-> 0, pos |-> pos, map |-> map, phase |-> "trying", took |-> FALSE]>>
               ELSE <<>>
  /\ UNCHANGED <<prog, input, pos, map, lower, decodes>>

----------------------------------------------------------------------------
(* Scan and initiated content: a loop that takes the first child whose     *)
(* initiator is at the cursor.                                             *)

Items == UNION {{<<i, k>> : k \in DOMAIN map[i]} : i \in Kid}

(* The end of a run of the token t at p.                                   *)
PastAll(t, p) ==
  CHOOSE q \in p..Len(input) :
    /\ \A k \in p + 1 .. q : input[k] = t
    /\ q = Len(input) \/ input[q + 1] # t

PastOne(t, p) == IF p < Len(input) /\ input[p + 1] = t THEN p + 1 ELSE p

(* Separators are taken where they are; one that is missing is no error.   *)
(* A scan takes one after each item, wherever separators are placed;       *)
(* initiated content also skips the newlines that follow.                  *)
PastSeparators(p) ==
  CASE prog.separated = "no" -> p
    [] prog.separated # "no" /\ prog.mode = "scan" ->
         IF Items = {} THEN p ELSE PastOne(Separator, p)
    [] prog.separated = "prefix" /\ prog.mode = "initiated" -> PastOne(Separator, p)
    [] prog.separated = "infix" /\ prog.mode = "initiated" ->
         IF Items = {} THEN p ELSE PastOne(Separator, p)
    [] prog.separated = "postfix" /\ prog.mode = "initiated" ->
         IF Len(prog.kids) = 1 THEN p ELSE PastAll(Separator, p)

ItemStart(p) ==
  IF p = Len(input) \/ prog.mode = "scan" THEN PastSeparators(p)
  ELSE PastAll(Newline, PastSeparators(p))

(* Mutant: the lower bound is not looked at.                               *)
CandidatesAnyOrder(p) == {i \in Kid : InitiatorPresent(prog.kids[i], p)}

Candidates(p) ==
  {i \in Kid : InitiatorPresent(prog.kids[i], p)
               /\ (prog.mode = "initiated" /\ prog.ordered => i >= lower)}

First(S) == CHOOSE i \in S : \A j \in S : i <= j

(* validate_initiated_unordered_min_occurs.                                *)
EnoughOfEach(m) == \A i \in Kid : Len(m[i]) >= prog.kids[i].min

(* The terminator, or the end of the input in its place; -1 when neither.  *)
PastTerminator(p) ==
  IF ~prog.terminated \/ p = Len(input) THEN p
  ELSE IF input[p + 1] = Terminator THEN p + 1 ELSE -1

(* The sequence ends at p, if its terminator and its counts allow.         *)
Finish(p, enough) ==
  LET q == PastTerminator(p) IN
  IF enough /\ q # -1 THEN signal' = "ok" /\ pos' = q
                      ELSE signal' = "fail" /\ pos' = p

(* A repeating child may come again; maxOccurs unbounded is not repeating  *)
(* here.                                                                   *)
Repeating(c) == c.max > 1 /\ c.max # Unbounded

(* An initiated child that answers that it is absent leaves its turn to the*)
(* next, unless it is optional, repeats and has not come yet.              *)
LeavesTurn(i, p) ==
  LET c == prog.kids[i] IN
  /\ prog.mode = "initiated" /\ ~Complete(c, p) /\ c.error = "absent"
  /\ c.min > 0 \/ c.max = 1 \/ map[i] # <<>>

(* Initiated content decodes its children without a frame, so that a       *)
(* discriminator inside one may set the flag.                              *)
MayCommit(tried, p) ==
  /\ prog.mode = "initiated" /\ ~prog.enclosed /\ p < Len(input)
  /\ \E i \in tried : Cut(prog.kids[i], p)

(* One round of the loop: the first child whose initiator is there and that*)
(* keeps its turn is decoded; when there is none, the sequence ends.       *)
Round ==
  LET p     == ItemStart(pos)
      open  == {i \in Candidates(p) : ~LeavesTurn(i, p)}
      tried == {i \in Candidates(p) : open = {} \/ i <= First(open)}
      i     == First(open)
      c     == prog.kids[i]
  IN /\ sticky' = (sticky \/ MayCommit(tried, p))
     /\ \/ /\ p = Len(input) \/ open = {}
           /\ Finish(p, EnoughOfEach(map))
           /\ UNCHANGED <<map, lower>>
        \/ /\ p < Len(input) /\ open # {} /\ Complete(c, p)
           /\ map' = Add(map, i, p, After(c, p)) /\ pos' = After(c, p)
           /\ lower' = IF Repeating(c) THEN i ELSE i + 1
           /\ UNCHANGED signal
        \/ /\ p < Len(input) /\ open # {} /\ ~Complete(c, p)
           /\ signal' = "fail"
           /\ UNCHANGED <<map, pos, lower>>

ScanStep ==
  /\ signal = "scan" /\ prog.mode = "scan"
  /\ Round
  /\ UNCHANGED <<prog, input, levels, decodes>>

InitiatedStep ==
  /\ signal = "scan" /\ prog.mode = "initiated"
  /\ Round
  /\ UNCHANGED <<prog, input, levels, decodes>>

----------------------------------------------------------------------------
(* The search: unordered_unseparated_backtrack.                            *)

Top        == levels[Len(levels)]
Below      == SubSeq(levels, 1, Len(levels) - 1)
SetTop(l)  == Append(Below, l)
Current    == prog.kids[Top.i]
Visited    == {levels[k].i : k \in {j \in DOMAIN levels : levels[j].phase = "visited"}}

NewLevel(p, m) == [i |-> 0, pos |-> p, map |-> m, phase |-> "trying", took |-> FALSE]

(* Mutants: the items of the abandoned trial stay in the map; the cursor   *)
(* stays where the trial left it.                                          *)
GiveUpKeepingItems(level) == pos' = level.pos /\ UNCHANGED map
GiveUpKeepingCursor(level) == map' = level.map /\ UNCHANGED pos

(* The trial of a child at this level is undone.                           *)
GiveUp(level) == pos' = level.pos /\ map' = level.map

Trying == signal = "search" /\ Top.phase = "trying"

Unvisited(i) == i \in Kid \ Visited

(* Every child is visited: success, through all the levels.                *)
AllVisited ==
  /\ Trying /\ Visited = Kid
  /\ Finish(pos, TRUE) /\ levels' = <<>>
  /\ UNCHANGED <<prog, input, map, lower, sticky, decodes>>

(* The level has an answer that is no success: the one that called it      *)
(* undoes its trial and goes on, whatever the error was.                   *)
LevelFails ==
  /\ IF Len(levels) = 1
     THEN signal' = "fail" /\ levels' = <<>> /\ UNCHANGED <<pos, map>>
     ELSE /\ levels' = [Below EXCEPT ![Len(Below)].phase = "trying"]
          /\ GiveUp(Below[Len(Below)])
          /\ UNCHANGED signal

NoChildLeft ==
  /\ Trying /\ Visited # Kid
  /\ ~\E i \in Kid : i > Top.i /\ Unvisited(i)
  /\ LevelFails
  /\ UNCHANGED <<prog, input, lower, sticky, decodes>>

(* The child is visited and the rest is searched for by a new level.       *)
Descend(i, p, m) ==
  /\ levels' = Append(SetTop([Top EXCEPT !.i = i, !.phase = "visited"]), NewLevel(p, m))
  /\ pos' = p /\ map' = m

Skip(i) ==
  /\ levels' = SetTop([Top EXCEPT !.i = i])
  /\ GiveUp(Top)

(* Mutant: the child that has just failed is tried again.                  *)
NextKidAgain(i) ==
  /\ i >= Top.i /\ Unvisited(i)
  /\ \A j \in Kid : j >= Top.i /\ Unvisited(j) => i <= j

(* The next child that is not visited.                                     *)
NextKid(i) ==
  /\ i > Top.i /\ Unvisited(i)
  /\ \A j \in Kid : j > Top.i /\ Unvisited(j) => i <= j

TryScalar ==
  /\ Trying /\ Visited # Kid
  /\ \E i \in Kid :
       /\ NextKid(i) /\ ~Multi(prog.kids[i])
       /\ LET c == prog.kids[i]  r == Occurrence(c, pos, c.min) IN
          \/ r = "ok" /\ Descend(i, After(c, pos), Add(map, i, pos, After(c, pos)))
          \/ r = "absent" /\ c.min = 0 /\ Descend(i, pos, map)
          \/ r # "ok" /\ ~(r = "absent" /\ c.min = 0) /\ Skip(i)
  /\ UNCHANGED <<prog, input, signal, lower, sticky, decodes>>

StartTaking ==
  /\ Trying /\ Visited # Kid
  /\ \E i \in Kid :
       /\ NextKid(i) /\ Multi(prog.kids[i])
       /\ levels' = SetTop([Top EXCEPT !.i = i, !.phase = "taking", !.took = FALSE])
  /\ UNCHANGED <<prog, input, pos, map, signal, lower, sticky, decodes>>

(* Mutant: the rest is searched for although the child has no occurrence.  *)
StopTakingAnyway == Descend(Top.i, pos, map) /\ UNCHANGED signal

(* The occurrences are over: with one at least, or an optional child, the  *)
(* rest is searched for; minOccurs above 1 is not looked at.               *)
StopTaking ==
  /\ IF Top.took \/ Current.min = 0
     THEN Descend(Top.i, pos, map)
     ELSE /\ levels' = SetTop([Top EXCEPT !.phase = "trying"])
          /\ GiveUp(Top)
  /\ UNCHANGED signal

(* Another occurrence: an empty one is the last.                           *)
Take(c) ==
  LET next == After(c, pos)  taken == Add(map, Top.i, pos, next) IN
  /\ map' = taken /\ pos' = next
  /\ levels' = IF next > pos THEN SetTop([Top EXCEPT !.took = TRUE])
               ELSE Append(SetTop([Top EXCEPT !.took = TRUE, !.phase = "visited"]),
                           NewLevel(next, taken))
  /\ UNCHANGED signal

(* An error is the end of the occurrences, or of the level when the flag   *)
(* says that a discriminator has committed.                                *)
TakeOccurrence ==
  /\ signal = "search" /\ Top.phase = "taking"
  /\ LET r == OneOccurrence(Current, pos) IN
     IF Len(map[Top.i]) >= Current.max THEN StopTaking
     ELSE IF r = "ok" THEN Take(Current)
     ELSE IF Current.error # "refused" /\ sticky THEN LevelFails
     ELSE StopTaking
  /\ UNCHANGED <<prog, input, lower, sticky, decodes>>

----------------------------------------------------------------------------
(* The same input once more with the handle: all but the flag is new.      *)
DecodeAgain ==
  /\ signal \in {"ok", "fail"} /\ decodes < MaxDecodes
  /\ decodes' = decodes + 1
  /\ pos' = 0 /\ map' = [i \in Kid |-> <<>>] /\ lower' = 1
  /\ signal' = "header" /\ levels' = <<>>
  /\ UNCHANGED <<prog, input, sticky>>

Init ==
  /\ prog \in Programs /\ input \in Inputs
  /\ pos = 0 /\ map = [i \in Kid |-> <<>>] /\ lower = 1
  /\ levels = <<>> /\ signal = "header" /\ sticky = FALSE /\ decodes = 1

Run ==
  Header \/ ScanStep \/ InitiatedStep \/ AllVisited \/ NoChildLeft \/ TryScalar \/ StartTaking \/ TakeOccurrence

Next == Run \/ DecodeAgain

Spec == Init /\ [][Next]_vars

(* A decode is one call of a sequential function.                          *)
FairSpec == Spec /\ WF_vars(Run)

----------------------------------------------------------------------------
(* Properties.                                                             *)

Done == signal \in {"ok", "fail"}

Spans == {map[x[1]][x[2]] : x \in Items}

(* What backtracking leaves: the items of a sequence that was decoded lie  *)
(* side by side, no token in two of them, and every token that was consumed*)
(* is in one of them or is a separator, a newline or the terminator.  So   *)
(* no abandoned trial has left an item or moved the cursor.                *)
ItemsTile ==
  signal = "ok" =>
    /\ \A x, y \in Items :
         LET a == map[x[1]][x[2]]  b == map[y[1]][y[2]] IN
         x # y => a.to <= b.from \/ b.to <= a.from
    /\ \A k \in 1..pos :
         \/ \E a \in Spans : a.from < k /\ k <= a.to
         \/ input[k] \in {Separator, Newline, Terminator}

(* A repeating child has n occurrences one after the other at p: an empty  *)
(* one is the last.                                                        *)
Takes(c, p, n) ==
  /\ n <= c.max /\ (Words(c) = <<>> => n <= 1)
  /\ \A k \in 0..(n - 1) : OneOccurrence(c, p + k * Len(Words(c))) = "ok"

(* As many as there are.                                                   *)
Greedy(c, p) ==
  CHOOSE n \in 0..(Len(input) + 1) : Takes(c, p, n) /\ ~Takes(c, p, n + 1)

(* Where the rest may start when child i starts at p: nowhere when it is   *)
(* required and not there.                                                 *)
Ends(i, p) ==
  LET c == prog.kids[i]  r == Occurrence(c, p, c.min) IN
  CASE Multi(c) -> IF Greedy(c, p) > 0 \/ c.min = 0
                   THEN {p + Greedy(c, p) * Len(Words(c))} ELSE {}
    [] ~Multi(c) /\ r = "ok" -> {After(c, p)}
    [] OTHER -> IF r = "absent" /\ c.min = 0 THEN {p} ELSE {}

(* The places from which there is an order of the children in S in which   *)
(* each, in its turn, has its occurrences where those before it end.       *)
Works[S \in SUBSET Kid] ==
  {p \in 0..Len(input) :
     S = {} \/ \E i \in S : \E q \in Ends(i, p) : q \in Works[S \ {i}]}

Solvable == 0 \in Works[Kid]

(* The search finds an order of the children whenever there is one, and    *)
(* only then, as long as no discriminator outside a choice has set the     *)
(* flag that ends it early.                                                *)
SearchDecides ==
  prog.mode = "search" /\ Done /\ ~sticky =>
    /\ signal = "ok" => Solvable
    /\ signal = "fail" => ~Solvable \/ prog.terminated

(* Ordered initiated content: the items come in the order of the schema.   *)
InitiatedInOrder ==
  prog.mode = "initiated" /\ prog.ordered =>
    \A x, y \in Items : x[1] < y[1] => map[x[1]][x[2]].to <= map[y[1]][y[2]].from

(* A decoded sequence has the occurrences its children require: as many as *)
(* minOccurs when found by initiator, at least one when searched for.      *)
RequiredPresent ==
  signal = "ok" =>
    \A i \in Kid : Len(map[i]) >= IF prog.mode = "search" /\ prog.kids[i].min > 0
                                  THEN 1 ELSE prog.kids[i].min

(* Scan, initiated content and search end, whatever the input: every round *)
(* consumes a token or visits a child.                                     *)
DecodeEnds == signal = "header" ~> Done

============================================================================
