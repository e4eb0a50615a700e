----------------------------- MODULE Separators -----------------------------
(***************************************************************************)
(* Separators, occurrences and the delimiters in scope: the loop over the  *)
(* children of an ordered sequence, the loop over the occurrences of an    *)
(* element and the complex elements bounded by their parent's separator    *)
(* (src/dfdl-vm/src/vm/decoder/sequence.rs, particle.rs and element.rs).   *)
(* The encoder's side of the same rules is in SeparatorsEncoder.           *)
(*                                                                         *)
(* Data is a sequence of tokens; a delimiter is one token or several.  The *)
(* decoder's recursion is a stack of activations; one step is one round of *)
(* a loop.  What was decoded is the list of events in the order of the     *)
(* infoset, so that an abandoned attempt is a truncated list.              *)
(***************************************************************************)
EXTENDS Integers, FiniteSets, SequencesExt

CONSTANTS
  Tokens,       (* what data is made of                                    *)
  Digits,       (* the tokens a number is made of                          *)
  Programs,     (* the schemas checked: see IsProgram                      *)
  Samples(_),   (* the values of a program that were encoded: their data   *)
                (* and the events that decoding it is to find              *)
  Inputs,       (* inputs that are decoded as they are                     *)
  Unbounded,    (* maxOccurs unbounded; larger than any input              *)
  MaxDecodes    (* number of decodes on the handle: bounds the model       *)

Kinds == {"text", "number", "calc", "calcText", "complex", "sequence"}
Calcs == {"calc", "calcText"}
Positions == {"prefix", "infix", "postfix"}
Policies == {"unset", "never", "trailingEmpty", "trailingEmptyStrict", "anyEmpty"}
NoDelim == <<>>

(* A node: an element has occurrence limits, a count kind and a terminator;*)
(* a complex one has a sequence as its only kid.  A sequence has a         *)
(* separator, where it goes, whether it is suppressed, a terminator and    *)
(* kids.  "calc" and "calcText" have inputValueCalc of a number, a string. *)
Nodes ==
  [kind : Kinds, min : Nat, max : Nat, count : {"implicit", "fixed", "parsed"},
   term : Seq(Tokens), sep : Seq(Tokens), at : Positions, policy : Policies, kids : Seq(Nat)]

(* A program is a sequence of nodes; the first is the root sequence.       *)
IsProgram(p) ==
  /\ p \in Seq(Nodes) /\ p # <<>> /\ p[1].kind = "sequence"
  /\ \A n \in DOMAIN p :
       /\ ToSet(p[n].kids) \subseteq DOMAIN p
       /\ p[n].kind = "complex" => Len(p[n].kids) = 1 /\ p[p[n].kids[1]].kind = "sequence"

(* The children of the root are particles of their own, numbered in the    *)
(* order of the schema.                                                    *)
Rooted(p) ==
  /\ \A i, j \in DOMAIN p[1].kids : i < j => p[1].kids[i] < p[1].kids[j]
  /\ \A n \in DOMAIN p :
       /\ 1 \notin ToSet(p[n].kids)
       /\ n # 1 => ToSet(p[n].kids) \intersect ToSet(p[1].kids) = {}

ASSUME ProgramsAssumption == \A p \in Programs : IsProgram(p)
ASSUME RootedAssumption == \A p \in Programs : Rooted(p)
ASSUME InputsAssumption == \A s \in Inputs : s \in Seq(Tokens) /\ Len(s) < Unbounded
ASSUME SamplesAssumption == \A p \in Programs : \A v \in Samples(p) : v.data \in Seq(Tokens)
ASSUME UnboundedAssumption == Unbounded \in Nat

VARIABLES
  prog, input,
  sample,     (* the value input was encoded from, if it was               *)
  calls,      (* activations: sequences, occurrence loops, bounded elements*)
  signal,     (* "run", or the result of the activation that ended         *)
  pos, end,   (* the cursor and the end of the data it runs over           *)
  found,      (* the events so far                                         *)
  taken,      (* postfix_bounded_parent_sep_consumed                       *)
  broken,     (* history: a complex element has failed                     *)
  enclosing,  (* Decoder::enclosing                                        *)
  decodes

vars == <<prog, input, sample, calls, signal, pos, end, found, taken, broken, enclosing, decodes>>

----------------------------------------------------------------------------
(* Delimiters.                                                             *)

At(delim, p) ==
  /\ delim # NoDelim /\ p + Len(delim) <= end
  /\ \A k \in DOMAIN delim : input[p + k] = delim[k]

(* Mutant: the cursor is advanced whether the delimiter is there or not.   *)
PastUnseen(delim, p) == p + Len(delim)

Past(delim, p) == IF At(delim, p) THEN p + Len(delim) ELSE p

Sep(n) == IF n = 0 THEN NoDelim ELSE prog[n].sep
Term(n) == IF n = 0 THEN NoDelim ELSE prog[n].term
Postfix(n) == Sep(n) # NoDelim /\ prog[n].at = "postfix"
Infix(n) == Sep(n) # NoDelim /\ prog[n].at = "infix"

(* The nodes of stops whose delimiters end a field.                        *)
AtStop(n, stops, p) ==
  \/ At(Term(n), p) \/ At(Sep(n), p)
  \/ \E k \in DOMAIN stops : At(Term(stops[k]), p) \/ At(Sep(stops[k]), p)

AtTerminatorStop(stops, p) == \E k \in DOMAIN stops : At(Term(stops[k]), p)

(* The separators of the sequences around, but the parent's own, unless it *)
(* is postfix.                                                             *)
AtSeparatorStop(stops, parent, p) ==
  \E k \in DOMAIN stops :
    /\ At(Sep(stops[k]), p)
    /\ Sep(stops[k]) # Sep(parent) \/ Postfix(parent)

(* read_until_any_delimiter: to the first delimiter in scope, or the end.  *)
ScanEnd(n, stops, p) ==
  CHOOSE q \in p..end :
    /\ q = end \/ AtStop(n, stops, q)
    /\ \A r \in p..(q - 1) : ~AtStop(n, stops, r)

(* A separator where the terminator of something around it matches at least*)
(* as much: separator_enclosing_delimiter_conflict.                        *)
Conflict(s, stops, p) ==
  LET around == {Term(stops[k]) : k \in DOMAIN stops}
                  \union (IF enclosing = <<>> THEN {} ELSE {Term(enclosing[Len(enclosing)])})
  IN At(Sep(s), p) /\ \E t \in around :
       t # Sep(s) /\ At(t, p) /\ Len(t) >= Len(Sep(s))

----------------------------------------------------------------------------
(* Activations.  A sequence: the index of its child, how many of those so  *)
(* far are physical, its stops and its own parent.  An occurrence loop: the*)
(* items, the separators counted under policy never, the place before the  *)
(* separator of the item in flight, the item's start and the probe of an   *)
(* implicit element at the end of the data.  A complex element: whether it *)
(* is bounded by its parent's separator and where to resume then.          *)

Sequence(n, parent, stops) ==
  [op |-> "sequence", node |-> n, parent |-> parent, stops |-> stops,
   i |-> 1, index |-> 0, called |-> FALSE]

Occurrences(n, parent, stops) ==
  [op |-> "occurrences", node |-> n, parent |-> parent, stops |-> stops,
   n |-> 0, nseps |-> 0, before |-> 0, start |-> 0, probe |-> FALSE,
   mark |-> Len(found), keep |-> 0, called |-> FALSE]

Complex(n, bounded, resume, sep) ==
  [op |-> "complex", node |-> n, bounded |-> bounded, resume |-> resume,
   end |-> end, sep |-> sep]

Top == calls[Len(calls)]
Node == prog[Top.node]
Below == SubSeq(calls, 1, Len(calls) - 1)
SetTop(a) == calls' = Append(Below, a)
Call(a, b) == calls' = Append(Append(Below, a), b)
Return(r) == calls' = Below /\ signal' = r
In(op) == calls # <<>> /\ Top.op = op

Item(n, text) == [node |-> n, what |-> "item", text |-> text]
Open(n) == [node |-> n, what |-> "open", text |-> <<>>]
Empty(n) == [node |-> n, what |-> "none", text |-> <<>>]

Depth == Cardinality({k \in DOMAIN calls : calls[k].op = "occurrences"})

----------------------------------------------------------------------------
(* Mutant: the flag is used and not reset.                                 *)
SeparatedKeepingFlag(p) == [ok |-> TRUE, pos |-> p, taken |-> taken]

Separated(p) == [ok |-> TRUE, pos |-> p, taken |-> FALSE]

(* consume_occurrence_separator: the place after it, whether the flag was  *)
(* used instead (t), or an error.  n is the number of items so far, node 0 *)
(* when the item is not known.                                             *)
OccurrenceSeparator(parent, node, n, t, p) ==
  LET s    == Sep(parent)
      here == At(s, p)
      yes  == Separated(Past(s, p))
      no   == [ok |-> FALSE, pos |-> p, taken |-> FALSE]
      c    == prog[node]
      short   == node # 0 /\ n > 0 /\ ~Postfix(parent) /\ c.count # "parsed" /\ n < c.min
      nested  == Depth > 1
      owed    == node # 0 /\ n > 0 /\ Postfix(parent) /\ c.kind \notin Calcs
  IN CASE t -> Separated(p)
       [] ~t /\ s = NoDelim -> yes
       [] ~t /\ s # NoDelim /\ short -> IF here \/ (nested /\ p # end) THEN yes ELSE no
       [] ~t /\ s # NoDelim /\ owed -> IF here THEN yes ELSE no
       [] OTHER -> IF Postfix(parent) /\ Conflict(parent, <<>>, p) THEN no ELSE yes

----------------------------------------------------------------------------
(* The loop over the children of a sequence.                               *)

Kid(a) == prog[a.node].kids[a.i]
IsElement(n) == prog[n].kind # "sequence"
Physical(s) == Cardinality({k \in DOMAIN prog[s].kids : prog[prog[s].kids[k]].kind \notin Calcs})

ChildStops(a) ==
  IF Sep(a.node) # NoDelim \/ Term(a.node) # NoDelim THEN Append(a.stops, a.node) ELSE a.stops

(* skip_infix_sep_after_parsed_unbounded_array.                            *)
SkipsAfterParsed(a, p) ==
  /\ a.i > 1 /\ p # end /\ Infix(a.node) /\ a.index > 0
  /\ LET c == prog[prog[a.node].kids[a.i - 1]] IN
     IsElement(prog[a.node].kids[a.i - 1]) /\ c.count = "parsed" /\ c.max > 1
  /\ ~At(Sep(a.node), p)

Written(s, index) ==
  CASE prog[s].at = "prefix" -> index < Physical(s)
    [] prog[s].at = "infix" -> index > 0
    [] prog[s].at = "postfix" -> index > 0 /\ index < Physical(s)

(* consume_separator: the places the cursor may be at, none on an error.   *)
AfterSeparator(a, p) ==
  LET s == a.node  stops == ChildStops(a)  last == a.index + 1 >= Physical(s) IN
  IF Sep(s) = NoDelim \/ ~Written(s, a.index) THEN {p}
  ELSE IF Conflict(s, stops, p) THEN {}
  ELSE IF At(Sep(s), p) THEN {Past(Sep(s), p)}
  ELSE CASE prog[s].at = "infix" ->
              IF \/ last /\ (p = end \/ AtTerminatorStop(stops, p))
                 \/ AtSeparatorStop(stops, 0, p) THEN {p} ELSE {}
         [] prog[s].at = "postfix" -> {p}
         [] prog[s].at = "prefix" -> {}

ImplicitOptional(n) == prog[n].count = "implicit" /\ prog[n].min = 0

(* Under trailingEmpty an optional child at an empty slot has its separator*)
(* taken and is not decoded.                                               *)
EmptySlot(a, p) ==
  /\ prog[a.node].policy = "trailingEmpty" /\ IsElement(Kid(a)) /\ ImplicitOptional(Kid(a))
  /\ AtStop(Kid(a), ChildStops(a), p) \/ (Infix(a.node) /\ At(Sep(a.node), p))

PastSlot(a, p) ==
  IF a.index + 1 < Physical(a.node) /\ Infix(a.node) THEN Past(Sep(a.node), p) ELSE p

(* The separators left after a repeating implicit child, taken with it.    *)
TrailingSeparators(a, p) ==
  CHOOSE q \in p..end :
    LET s == Sep(a.node)  n == Len(s) IN
    IF ~(prog[a.node].policy \in {"trailingEmpty", "trailingEmptyStrict"} /\ Infix(a.node)
         /\ IsElement(Kid(a)) /\ prog[Kid(a)].count = "implicit" /\ prog[Kid(a)].max > 1)
    THEN q = p
    ELSE /\ (q - p) % n = 0 /\ ~At(s, q)
         /\ \A j \in 0..((q - p) \div n - 1) : At(s, p + j * n)

(* Mutant: a calculated child counts as a position.                        *)
NextChildCounted(a) == [a EXCEPT !.i = @ + 1, !.called = FALSE, !.index = @ + 1]

NextChild(a) == [a EXCEPT !.i = @ + 1, !.called = FALSE,
                          !.index = IF prog[Kid(a)].kind \in Calcs THEN @ ELSE @ + 1]

SequenceStep ==
  /\ In("sequence") /\ signal = "run" /\ ~Top.called
  /\ Top.i <= Len(Node.kids)
  /\ LET after == IF prog[Kid(Top)].kind \in Calcs \/ SkipsAfterParsed(Top, pos)
                  THEN {pos} ELSE AfterSeparator(Top, pos)
     IN \/ /\ after = {}
           /\ Return("fail") /\ UNCHANGED pos
        \/ \E p \in after :
             IF EmptySlot(Top, p)
             THEN /\ pos' = PastSlot(Top, p)
                  /\ SetTop(NextChild(Top)) /\ UNCHANGED signal
             ELSE /\ pos' = p
                  /\ Call([Top EXCEPT !.called = TRUE],
                          IF IsElement(Kid(Top))
                          THEN Occurrences(Kid(Top), Top.node, ChildStops(Top))
                          ELSE Sequence(Kid(Top), Top.node, ChildStops(Top)))
                  /\ UNCHANGED signal
  /\ UNCHANGED <<prog, input, sample, end, found, taken, broken, enclosing, decodes>>

(* A child has answered.  Separators taken after a repeating child end the *)
(* sequence; a child that is absent does not count as a position.          *)
SequenceChild ==
  /\ In("sequence") /\ signal # "run" /\ Top.called
  /\ \/ /\ signal = "ok"
        /\ LET p == TrailingSeparators(Top, pos) IN
           /\ pos' = p
           /\ SetTop(IF p # pos THEN [NextChild(Top) EXCEPT !.i = Len(Node.kids) + 1]
                     ELSE NextChild(Top))
        /\ signal' = "run"
     \/ /\ signal = "absent"
        /\ IF /\ Node.policy = "trailingEmptyStrict" /\ IsElement(Kid(Top))
              /\ ImplicitOptional(Kid(Top))
              /\ Infix(Top.parent) /\ At(Sep(Top.parent), pos)
           THEN Return("fail")
           ELSE /\ SetTop([Top EXCEPT !.i = @ + 1, !.called = FALSE])
                /\ signal' = "run"
        /\ UNCHANGED pos
     \/ signal \in {"fail", "empty"} /\ Return(signal) /\ UNCHANGED pos
  /\ UNCHANGED <<prog, input, sample, end, found, taken, broken, enclosing, decodes>>

(* The terminator of a sequence may be missing at the end of the data.  The*)
(* root must have consumed all of it (strict_eos).                         *)
SequenceEnds ==
  /\ In("sequence") /\ signal = "run" /\ ~Top.called
  /\ Top.i > Len(Node.kids)
  /\ pos' = Past(Node.term, pos)
  /\ LET matched == Node.term = NoDelim \/ At(Node.term, pos) \/ pos = end
         leftover == Len(calls) = 1 /\ pos' < end
     IN Return(IF matched /\ ~leftover THEN "ok" ELSE "fail")
  /\ UNCHANGED <<prog, input, sample, end, found, taken, broken, enclosing, decodes>>

----------------------------------------------------------------------------
(* The loop over the occurrences of an element.                            *)

(* A parsed count has no limit, but where minOccurs equals maxOccurs: then *)
(* one more may follow of a field that ends with its terminator, between   *)
(* commas (framing_extra_occurrence).                                      *)
BetweenCommas(p, n) ==
  \E s \in DOMAIN p : p[s].kind = "sequence" /\ n \in ToSet(p[s].kids) /\ p[s].sep = <<",">>

Limit(n) ==
  LET e == prog[n] IN
  CASE e.count # "parsed" \/ e.max = 1 -> e.max
    [] e.count = "parsed" /\ e.min = e.max /\ e.max \notin {0, 1, Unbounded} ->
         IF e.term # NoDelim /\ e.kind # "complex" /\ BetweenCommas(prog, n) THEN e.max + 1 ELSE e.max
    [] OTHER -> Unbounded
Endless(a) == Limit(a.node) = Unbounded

(* Policy never asks for all the separators of a bounded array.            *)
Never(a) ==
  a.parent # 0 /\ prog[a.parent].policy = "never"
  /\ prog[a.node].max > 1 /\ prog[a.node].max # Unbounded

Items(a) == SubSeq(found, a.mark + 1, Len(found))

Slot(a, p) ==
  AtStop(a.node, a.stops, p) \/ (Infix(a.parent) /\ At(Sep(a.parent), p))

Separate(a, node, n, t, p) == OccurrenceSeparator(a.parent, node, n, t, p)

Counted(a, from, to) ==
  [a EXCEPT !.nseps = IF Never(a) /\ to > from THEN @ + 1 ELSE @]

(* The loop goes on after a separator, or the separator is an error.       *)
GoOn(a, t, p, items) ==
  LET s == Separate(a, a.node, a.n, t, p)
      b == Counted(a, p, s.pos)
  IN /\ taken' = s.taken /\ pos' = s.pos
     /\ IF s.ok THEN SetTop([b EXCEPT !.n = @ + items, !.called = FALSE])
                     /\ signal' = "run"
                ELSE Return("fail")

(* Mutant: the loop does not stop.                                         *)
StopNot(a, t, p) ==
  /\ taken' = t /\ pos' = p /\ signal' = "run"
  /\ SetTop([a EXCEPT !.called = FALSE])

Stop(a, t, p) ==
  /\ taken' = t /\ pos' = p /\ signal' = "run"
  /\ SetTop([a EXCEPT !.start = -1, !.called = FALSE])

Fail(t, p, r) == taken' = t /\ pos' = p /\ Return(r)

(* Mutant: one more than maxOccurs.                                        *)
OverOneMore(a) ==
  \/ a.n > Limit(a.node) \/ a.start = -1
  \/ a.n >= Node.min
     /\ \/ pos = end /\ ~(Node.count = "implicit" /\ a.n = 0 /\ ~a.probe)
        \/ Endless(a) /\ AtTerminatorStop(a.stops, pos)
        \/ AtSeparatorStop(a.stops, a.parent, pos) /\ ~(Endless(a) /\ Postfix(a.parent))

Over(a) ==
  \/ a.n >= Limit(a.node) \/ a.start = -1
  \/ a.n >= Node.min
     /\ \/ pos = end /\ ~(Node.count = "implicit" /\ a.n = 0 /\ ~a.probe)
        \/ Endless(a) /\ AtTerminatorStop(a.stops, pos)
        \/ AtSeparatorStop(a.stops, a.parent, pos) /\ ~(Endless(a) /\ Postfix(a.parent))

(* After the separator before an item that is not the first.               *)
Ready(a) ==
  IF a.n > 0 /\ ~Postfix(a.parent) THEN Separate(a, a.node, a.n, taken, pos)
  ELSE [ok |-> TRUE, pos |-> pos, taken |-> taken]

Started(a, p) ==
  [Counted(a, pos, p) EXCEPT !.before = pos, !.start = p,
                             !.probe = @ \/ (a.n >= Node.min /\ pos = end)]

Round == In("occurrences") /\ signal = "run" /\ ~Over(Top)

SeparatorMissing ==
  /\ Round /\ ~Ready(Top).ok
  /\ Return("fail")
  /\ UNCHANGED <<prog, input, sample, pos, end, found, taken, broken, enclosing, decodes>>

SkipsSlot(a, p) == Node.min = 0 /\ Node.kind # "complex" /\ Slot(a, p)
EmptyItem(a, p) == a.n < Node.min /\ Node.kind \in {"text", "calcText"} /\ Slot(a, p)

(* An empty slot: an optional item is passed over, a required text is "".  *)
AtSlot ==
  /\ Round /\ Ready(Top).ok
  /\ LET r == Ready(Top)  a == Started(Top, r.pos) IN
     /\ SkipsSlot(a, r.pos) \/ EmptyItem(a, r.pos)
     /\ IF SkipsSlot(a, r.pos)
        THEN GoOn(a, r.taken, r.pos, 0) /\ UNCHANGED found
        ELSE GoOn(a, r.taken, r.pos, 1) /\ found' = Append(found, Item(a.node, <<>>))
  /\ UNCHANGED <<prog, input, sample, broken, end, enclosing, decodes>>

(* Mutant: only what comes first is looked at.                             *)
FirstSeparatorOnly(delim, p) == p = end \/ At(delim, p)

OnlySeparators(delim, p) ==
  \/ p = end
  \/ /\ delim # NoDelim /\ (end - p) % Len(delim) = 0
     /\ \A j \in 0..((end - p) \div Len(delim) - 1) : At(delim, p + j * Len(delim))

(* An item has been decoded up to p; kept is what was found before it.     *)
(* Without progress a loop with no limit ends where the item began; an     *)
(* optional empty item and an empty one in excess are passed over; any     *)
(* other is taken, with its postfix separator.                             *)
Decoded(a, t, p, empty, kept, item) ==
  LET c == prog[a.node]
      stuck == Endless(a) /\ p = a.start /\ p # end
      optional == c.min = 0 /\ empty
      excess == /\ empty /\ c.min > 0 /\ a.n >= c.min /\ Endless(a) /\ Infix(a.parent)
                /\ \/ \A k \in DOMAIN Items(a) : Items(a)[k].text = <<>>
                   \/ OnlySeparators(Sep(a.parent), p)
      counts == ~stuck /\ ~optional /\ ~excess
      s == Separate(a, a.node, IF optional THEN a.n ELSE a.n + 1, t, p)
      pushed == [a EXCEPT !.n = @ + 1, !.called = FALSE]
  IN /\ found' = IF counts THEN kept \o item ELSE kept
     /\ CASE stuck -> IF a.n >= c.min THEN Stop(a, t, a.before) ELSE Fail(t, p, "fail")
          [] ~stuck /\ optional /\ s.ok /\ s.pos = a.start -> Stop(a, s.taken, s.pos)
          [] ~stuck /\ (excess \/ (optional /\ ~(s.ok /\ s.pos = a.start))) ->
               GoOn(a, t, p, 0)
          [] counts /\ Postfix(a.parent) ->
               /\ taken' = s.taken /\ pos' = s.pos
               /\ IF s.ok THEN SetTop(Counted(pushed, p, s.pos)) /\ signal' = "run"
                          ELSE Return("fail")
          [] counts /\ ~Postfix(a.parent) ->
               taken' = t /\ pos' = p /\ signal' = "run" /\ SetTop(pushed)

(* An item has failed with the answer r and the cursor at p; keep is what  *)
(* was found before it.  Absence after the first item does not rewind.     *)
Failed(a, t, p, r, keep) ==
  LET c == prog[a.node]
      b == [a EXCEPT !.called = FALSE]
      s == Separate(a, a.node, a.n, t, a.start)
      none == c.min = 0 /\ a.n = 0
      again == Never(a) /\ (r = "empty" \/ (r = "absent" /\ none))
  IN /\ found' = keep
     /\ CASE a.probe /\ a.n < c.min -> Return(r) /\ pos' = p /\ taken' = t
          [] ~a.probe /\ again ->
               /\ pos' = s.pos /\ taken' = s.taken
               /\ IF s.ok THEN SetTop(Counted(b, a.start, s.pos)) /\ signal' = "run"
                          ELSE Return("fail")
          [] ~again /\ none ->
               IF r = "absent" THEN Return("absent") /\ pos' = a.start /\ taken' = t
                               ELSE Stop(a, t, a.start)
          [] ~again /\ ~none /\ a.n >= c.min ->
               IF r = "absent" THEN SetTop(b) /\ pos' = p /\ taken' = t /\ signal' = "run"
               ELSE Stop(a, t, IF Endless(a) \/ c.count = "implicit" THEN a.before ELSE a.start)
          [] OTHER -> Return(IF r = "absent" THEN "fail" ELSE r) /\ pos' = p /\ taken' = t

Ordinary(a, p) == ~SkipsSlot(a, p) /\ ~EmptyItem(a, p)

(* A field: text up to the first delimiter in scope and its own terminator,*)
(* which may be missing at the end of the data when others are in scope.   *)
DecodeField ==
  /\ Round /\ Ready(Top).ok /\ Node.kind \in {"text", "number"} \union Calcs
  /\ LET r == Ready(Top)
         a == Started(Top, r.pos)
         q == IF Node.kind \in Calcs THEN r.pos ELSE ScanEnd(a.node, a.stops, r.pos)
         text == SubSeq(input, r.pos + 1, q)
     IN /\ Ordinary(a, r.pos)
        /\ IF Node.term # NoDelim /\ a.stops = <<>> /\ q = end /\ q > r.pos
           THEN Failed(a, r.taken, q, "fail", found)
           ELSE IF Node.kind = "number" /\ text = <<>>
           THEN Failed(a, r.taken, q, "empty", found)
           ELSE IF Node.kind = "number" /\ \E k \in DOMAIN text : text[k] \notin Digits
           THEN Failed(a, r.taken, q, "fail", found)
           ELSE Decoded(a, r.taken, IF Node.kind \in Calcs THEN q ELSE Past(Node.term, q),
                        Node.kind = "text" /\ text = <<>>, found, <<Item(a.node, text)>>)
  /\ UNCHANGED <<prog, input, sample, broken, end, enclosing, decodes>>

FirstMin(s) ==
  IF prog[s].kids = <<>> \/ prog[prog[s].kids[1]].kind = "sequence" THEN 0
  ELSE prog[prog[s].kids[1]].min

(* A complex element under a postfix separator runs over the data up to the*)
(* next delimiter around it; nothing there and nothing required is absence,*)
(* with the separator taken.                                               *)
Bounded(a) == Postfix(a.parent) /\ Sep(Node.kids[1]) # Sep(a.parent)

DecodeBounded ==
  /\ Round /\ Ready(Top).ok /\ Node.kind = "complex" /\ Bounded(Top)
  /\ LET r == Ready(Top)
         a == Started(Top, r.pos)
         q == ScanEnd(a.parent, a.stops, r.pos)
         resume == Past(Sep(a.parent), q)
     IN IF q = r.pos /\ FirstMin(Node.kids[1]) = 0
        THEN /\ Failed(a, r.taken \/ resume > q, resume, "absent", found)
             /\ broken' = TRUE /\ UNCHANGED end
        ELSE /\ UNCHANGED broken
             /\ pos' = r.pos /\ end' = q /\ taken' = r.taken /\ signal' = "run"
             /\ found' = Append(found, Open(a.node))
             /\ calls' = Below \o <<[a EXCEPT !.called = TRUE, !.keep = Len(found)],
                                    Complex(a.node, TRUE, resume, resume > q),
                                    Sequence(Node.kids[1], 0, <<>>)>>
  /\ UNCHANGED <<prog, input, sample, enclosing, decodes>>

DecodeComplex ==
  /\ Round /\ Ready(Top).ok /\ Node.kind = "complex" /\ ~Bounded(Top)
  /\ LET r == Ready(Top)
         a == Started(Top, r.pos)
     IN /\ pos' = r.pos /\ taken' = r.taken /\ signal' = "run"
        /\ enclosing' = Append(enclosing, a.node)
        /\ found' = Append(found, Open(a.node))
        /\ calls' = Below \o <<[a EXCEPT !.called = TRUE, !.keep = Len(found)],
                               Complex(a.node, FALSE, 0, FALSE),
                               Sequence(Node.kids[1], 0,
                                        IF Term(a.node) = NoDelim THEN a.stops
                                        ELSE Append(a.stops, a.node))>>
  /\ UNCHANGED <<prog, input, sample, broken, end, decodes>>

(* The sequence of a complex element has answered.  Bounded: what it left  *)
(* must be separators of its own, and the flag says that the parent's      *)
(* separator is taken.  Otherwise the element's terminator is next; on an  *)
(* error the element stays in enclosing.                                   *)
ComplexEnds ==
  /\ In("complex") /\ signal # "run"
  /\ LET fits == IF Top.bounded THEN OnlySeparators(Sep(Node.kids[1]), pos)
                 ELSE Node.term = NoDelim \/ At(Node.term, pos) \/ pos = end
         answer == IF signal = "ok" /\ ~fits THEN "fail" ELSE signal
     IN /\ Return(answer)
        /\ broken' = (broken \/ answer # "ok")
  /\ IF Top.bounded
     THEN /\ pos' = Top.resume /\ end' = Top.end
          /\ taken' = (taken \/ (signal = "ok" /\ Top.sep))
          /\ UNCHANGED enclosing
     ELSE /\ pos' = IF signal = "ok" THEN Past(Node.term, pos) ELSE pos
          /\ enclosing' = IF signal = "ok" THEN Front(enclosing) ELSE enclosing
          /\ UNCHANGED <<end, taken>>
  /\ UNCHANGED <<prog, input, sample, found, decodes>>

(* The complex item has answered: what it found is the item.               *)
ComplexItem ==
  /\ In("occurrences") /\ signal # "run" /\ Top.called
  /\ LET kept == SubSeq(found, 1, Top.keep)
         item == SubSeq(found, Top.keep + 1, Len(found))
     IN IF signal = "ok" THEN Decoded(Top, taken, pos, FALSE, kept, item)
        ELSE Failed(Top, taken, pos, signal, kept)
  /\ UNCHANGED <<prog, input, sample, broken, end, enclosing, decodes>>

(* The loop is over: too few items are an error, none is absence or an     *)
(* empty array.                                                            *)
OccurrencesEnd ==
  /\ In("occurrences") /\ signal = "run" /\ Over(Top)
  /\ LET none == Top.n = 0
         array == \/ Node.max > 1 /\ Node.max # Unbounded
                  \/ Node.count = "parsed" /\ Node.max = Unbounded
         short == \/ Top.n < Node.min
                  \/ Never(Top) /\ IF none THEN Top.nseps # Node.max - 1 ELSE Top.n < Node.max
     IN /\ Return(IF short THEN "fail" ELSE IF none /\ ~array THEN "absent" ELSE "ok")
        /\ found' = IF ~short /\ none /\ array THEN Append(found, Empty(Top.node)) ELSE found
  /\ UNCHANGED <<prog, input, sample, broken, pos, end, taken, enclosing, decodes>>

----------------------------------------------------------------------------
(* A decode of the whole input, and another with the same handle.          *)

NoSample == [encoded |-> FALSE, events |-> <<>>]

Begin == /\ calls = <<Sequence(1, 0, <<>>)>> /\ signal = "run" /\ pos = 0

Init ==
  /\ prog \in Programs
  /\ \/ input \in Inputs /\ sample = NoSample
     \/ \E v \in Samples(prog) :
          input = v.data /\ sample = [encoded |-> TRUE, events |-> v.events]
  /\ Begin /\ end = Len(input) /\ found = <<>>
  /\ taken = FALSE /\ broken = FALSE /\ enclosing = <<>> /\ decodes = 1

Done == calls = <<>>

DecodeAgain ==
  /\ Done /\ decodes < MaxDecodes
  /\ decodes' = decodes + 1
  /\ calls' = <<Sequence(1, 0, <<>>)>> /\ signal' = "run"
  /\ pos' = 0 /\ found' = <<>> /\ end' = Len(input)
  /\ UNCHANGED <<prog, input, sample, taken, broken, enclosing>>

Run ==
  \/ SequenceStep \/ SequenceChild \/ SequenceEnds
  \/ SeparatorMissing \/ AtSlot \/ DecodeField \/ DecodeBounded \/ DecodeComplex
  \/ ComplexEnds \/ ComplexItem \/ OccurrencesEnd

Next == Run \/ DecodeAgain

Spec == Init /\ [][Next]_vars

FairSpec == Spec /\ WF_vars(Run)

----------------------------------------------------------------------------
(* Properties.                                                             *)

TypeOK ==
  /\ pos \in 0..end /\ end \in 0..Len(input)
  /\ signal \in {"run", "ok", "absent", "empty", "fail"}
  /\ \A k \in DOMAIN found : found[k].node \in DOMAIN prog

(* Where no choice is left to the decoder - every child but the last of an *)
(* infix sequence, every child under prefix, is one required field, and no *)
(* text is empty - it finds what was encoded.                              *)
Scalar(n) == prog[n].min = 1 /\ prog[n].max = 1

Positional ==
  /\ prog[1].at # "postfix"
  /\ \A n \in DOMAIN prog : prog[n].kind # "calcText"
  /\ \A k \in DOMAIN prog[1].kids :
       \/ Scalar(prog[1].kids[k])
       \/ prog[1].at = "infix" /\ prog[1].policy # "never" /\ k = Len(prog[1].kids)

RoundTrip ==
  Done /\ sample.encoded /\ Positional =>
    signal = "ok" /\ SelectSeq(found, LAMBDA e : e.what # "none") = sample.events

(* Every token of accepted data is a delimiter or in exactly one item, in  *)
(* order: the data without its delimiters is the texts found, one after    *)
(* another, without theirs.                                                *)
Delimiters(p) == UNION {ToSet(p[n].sep) \union ToSet(p[n].term) : n \in DOMAIN p}

(* What the first k tokens of s are without the delimiters of p.           *)
Kept(p, s) ==
  LET kept[k \in 0..Len(s)] ==
        IF k = 0 THEN <<>>
        ELSE IF s[k] \in Delimiters(p) THEN kept[k - 1] ELSE Append(kept[k - 1], s[k])
  IN kept

Content(p, s) == Kept(p, s)[Len(s)]

(* The same of the texts of the first k events of f.                       *)
Texts(p, f) ==
  LET texts[k \in 0..Len(f)] ==
        IF k = 0 THEN <<>> ELSE texts[k - 1] \o Content(p, f[k].text)
  IN texts

InputAccounted ==
  Done /\ signal = "ok" => Texts(prog, found)[Len(found)] = Content(prog, input)

ItemsOf(n) == {k \in DOMAIN found : found[k].node = n /\ found[k].what # "none"}

(* In accepted data each child of the root occurs as often as the schema   *)
(* allows, and before the children after it, whatever was skipped, taken   *)
(* back or stopped on the way - but under the policies where separators    *)
(* left after a repeating child end the sequence (sequence.rs:590), which  *)
(* can leave out a required last child.                                    *)
OccursInRange ==
  Done /\ signal = "ok" /\ prog[1].policy \notin {"trailingEmpty", "trailingEmptyStrict"} =>
    \A n \in ToSet(prog[1].kids) : prog[n].kind # "sequence" =>
      LET c == Cardinality(ItemsOf(n)) IN
      /\ c >= prog[n].min /\ (prog[n].kind \in Calcs \/ c <= Limit(n))
      /\ \A m \in ToSet(prog[1].kids) : m < n => \A i \in ItemsOf(m), j \in ItemsOf(n) : i < j

(* However the loops, the data in bounds and the separators taken ahead    *)
(* nest, postfix_bounded_parent_sep_consumed and enclosing are back to     *)
(* what they were when the decode ends, unless a complex element failed.   *)
FlagsClean == Done /\ ~broken => ~taken /\ enclosing = <<>>

(* Every decode ends, but for an optional element before a delimiter that  *)
(* is not its separator: the loop passes over the slot and stays there.    *)
AtSlotForever ==
  /\ Round /\ Ready(Top).ok /\ Ready(Top).pos = pos /\ SkipsSlot(Top, pos)
  /\ Separate(Top, Top.node, Top.n, FALSE, pos).pos = pos

DecodeEnds == []<>(Done \/ AtSlotForever)
============================================================================
