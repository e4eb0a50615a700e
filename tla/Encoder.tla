------------------------------ MODULE Encoder ------------------------------
(***************************************************************************)
(* The encoder (src/dfdl-vm/src/vm/encoder): it walks the compiled schema  *)
(* and an infoset together, computes the elements with an outputValueCalc  *)
(* before each sequence, chooses the branches of choices by the fields the *)
(* infoset has, and writes the elements.  The length of a value is found   *)
(* by encoding it into a scratch buffer with the same encoder, so its      *)
(* cells (occurrence context, bit order) see the scratch writes too.       *)
(*                                                                         *)
(* A value is Text(n), a text of n bytes; Num(n); MapOf(f), the fields of  *)
(* a sequence; List(s); Branch(name, v); or Null.  What is written is a    *)
(* sequence of tokens: the element, its value and its width in bits.       *)
(* The calls of the recursion are the activations of stack.  Separators    *)
(* are the subject of Separators and are not written here.                 *)
(***************************************************************************)
EXTENDS Integers, Sequences, FiniteSets, TLC, SequencesExt

CONSTANTS
  Programs,     (* the schemas checked, each with the infosets it encodes  *)
  MaxDepth,     (* calls that fit on the thread's stack                    *)
  MaxEncodes    (* encodes on one Encoder: bounds the model                *)

NoName == ""
NoLength == -1
NoOccurrence == <<0, 0>>

Text(n) == [t |-> "text", n |-> n]
Num(n) == [t |-> "int", n |-> n]
MapOf(f) == [t |-> "map", f |-> f]
List(s) == [t |-> "list", s |-> s]
Branch(name, v) == [t |-> "branch", of |-> name, v |-> v]
Null == [t |-> "null"]
Filler(what) == [t |-> what]      (* "pad", "cut" or "prefix": no data      *)
NoFields == [x \in {} |-> Null]

(* "xpath" and "conditional" are the expressions that are only kept as     *)
(* text (output_value_calc_conditional), with that text or without it.     *)
Calcs == {"none", "constant", "length", "path", "count", "concat", "substring", "index", "repeat",
          "error", "xpath", "conditional"}
IsElement(n) == n.kind \in {"text", "number", "complex"}

(* A node: its kind and name; how its value is calculated (calc, of the    *)
(* sibling named of, plus add); its occurrence limits and the sibling that *)
(* counts them; its frame, fixed length or the sibling that holds its      *)
(* length; the order and width of its bits; its children.                  *)
IsNode(n) ==
  /\ n.kind \in {"text", "number", "complex", "sequence", "choice"}
  /\ n.calc \in Calcs /\ n.add \in Int /\ n.hidden \in BOOLEAN /\ n.ivc \in BOOLEAN
  /\ n.min \in Nat /\ n.length \in Nat \union {NoLength}
  /\ n.frame \in {"none", "explicit", "prefixed", "delimited"}
  /\ n.order \in {"none", "msb", "lsb"} /\ n.bits \in Nat

ASSUME ProgramsAssumption ==
  \A p \in Programs : \A i \in DOMAIN p.nodes : IsNode(p.nodes[i])

VARIABLES
  prog,
  infoset,     (* the value being encoded                                  *)
  stack,       (* the activations, innermost last                          *)
  signal,      (* "call": run the top activation; "ok", "err": it returned *)
  val,         (* what it returned: a value, or the kind of the error      *)
  out,         (* the buffer being written                                 *)
  occurrence,  (* array_occurrence_for_ovc                                 *)
  order,       (* seq_bit_order                                            *)
  unseen,      (* an order was noted that no value in the output has       *)
  encodes

vars == <<prog, infoset, stack, signal, val, out, occurrence, order, unseen, encodes>>

Node(id) == prog.nodes[id]
Root == 1
Top == Last(stack)

(* Mutant: an outer field hides the inner one of the same name.            *)
OuterWins(outer, inner) == outer @@ inner

(* merged_encode_lookup: the innermost field of a name is seen.            *)
Merged(outer, inner) == inner @@ outer

Bits(w) == LET sum[i \in 0..Len(w)] == IF i = 0 THEN 0 ELSE sum[i - 1] + w[i].bits IN sum[Len(w)]

(* Mutant: a part of a byte does not count.                                *)
WholeBytes(w) == Bits(w) \div 8

Bytes(w) == (Bits(w) + 7) \div 8

(***************************************************************************)
(* Looking things up.                                                      *)
(***************************************************************************)
(* A field of the map, or of a map nested in it, up to 16 deep (names are  *)
(* unique in each infoset, so the order of the search does not matter).    *)
MaxNesting == 16
SiblingValues(map, name) ==
  LET Nested(m) == {m[k].f : k \in {x \in DOMAIN m : m[x].t = "map"}}
      searched[d \in 0..MaxNesting] ==
        IF d = 0 THEN {map} ELSE UNION {Nested(m) : m \in {x \in searched[d - 1] : name \notin DOMAIN x}}
  IN {m[name] : m \in {x \in UNION {searched[d] : d \in 0..MaxNesting} : name \in DOMAIN x}}

(* The first that was found; 0 if none was.                                *)
FirstFound(s) ==
  LET S == {i \in DOMAIN s : s[i] # 0} IN IF S = {} THEN 0 ELSE s[Min(S)]

(* find_particle_by_local_name enters choices; find_descendant_element_by_ *)
(* local, used to measure a length, does not.                              *)
FindParticle(ids, name, choices) ==
  LET found[id \in DOMAIN prog.nodes] ==
        LET n == Node(id) IN
        IF IsElement(n) /\ n.name = name THEN id
        ELSE IF n.kind = "choice" /\ ~choices THEN 0
        ELSE FirstFound([i \in DOMAIN n.kids |-> found[n.kids[i]]])
  IN FirstFound([i \in DOMAIN ids |-> found[ids[i]]])

FindDescendant(ids, name) == FindParticle(ids, name, FALSE)
RootChildren == IF Node(Root).kids = <<>> THEN <<>> ELSE Node(Node(Root).kids[1]).kids

HasCalc(n) == n.calc # "none"
Deferred(n) == n.calc = "index"     (* ovc_deferred_to_encode_occurrence    *)
MaxPasses(n) == IF 2 * n > 4 THEN 2 * n ELSE 4

(* The calculated elements below ids, in schema order; choices are not     *)
(* entered.                                                                *)
Collected(ids) ==
  LET calculated[id \in DOMAIN prog.nodes] ==
        LET n == Node(id) IN
        (IF IsElement(n) /\ HasCalc(n) THEN <<id>> ELSE <<>>)
        \o (IF n.kind = "choice" THEN <<>> ELSE FlattenSeq([i \in DOMAIN n.kids |-> calculated[n.kids[i]]]))
  IN FlattenSeq([i \in DOMAIN ids |-> calculated[ids[i]]])

CountOf(v) == CASE v.t = "list" -> Len(v.s) [] v.t = "null" -> 0 [] v.t = "int" -> v.n [] OTHER -> 1
Digits(n) == IF n < 10 THEN 1 ELSE 2
ForKind(kind, v) == IF kind = "text" /\ v.t = "int" THEN Text(Digits(v.n)) ELSE v

(* The characters of a value as text (lookup_sibling_string_in_encode_map):*)
(* a record or a list has none.  A substring is taken of texts only.       *)
Chars(n, v) ==
  LET w == IF v.t = "branch" /\ n.calc # "substring" THEN v.v ELSE v IN
  CASE w.t = "text" -> w.n
    [] w.t # "text" /\ n.calc = "substring" -> NoLength
    [] w.t = "int" /\ n.calc # "substring" -> Digits(w.n)
    [] OTHER -> 0
Pieces(n, v) ==       (* a literal appended, or the first characters        *)
  IF n.calc = "substring" THEN Text(IF Chars(n, v) < n.add THEN Chars(n, v) ELSE n.add) ELSE Text(Chars(n, v) + n.add)

ByteLength(v) == IF v.t = "text" THEN v.n ELSE NoLength    (* else an error *)

(***************************************************************************)
(* Calls.                                                                  *)
(***************************************************************************)
Under == SubSeq(stack, 1, Len(stack) - 1)

(* A call that no longer fits ends the process.                            *)
Push(below, a) ==
  IF Len(below) >= MaxDepth
  THEN stack' = <<>> /\ signal' = "overflow" /\ UNCHANGED val
  ELSE stack' = Append(below, a) /\ signal' = "call" /\ UNCHANGED val
Call(a) == Push(stack, a)
CallFrom(me, a) == Push(Append(Under, me), a)
Become(a) == Push(Under, a)
Return(v) == stack' = Under /\ signal' = "ok" /\ val' = v
Throw(e) == stack' = Under /\ signal' = "err" /\ val' = e

Keep == UNCHANGED <<prog, infoset, encodes>>
Quiet == Keep /\ UNCHANGED <<out, occurrence, order, unseen>>

ANode(id, v, scope) == [fn |-> "node", id |-> id, value |-> v, scope |-> scope]
AParticle(id, map, scope, kids) ==
  [fn |-> "particle", id |-> id, map |-> map, scope |-> scope, kids |-> kids,
   phase |-> "value", value |-> Null]
ASequence(id, map, scope, nested) ==
  [fn |-> "sequence", id |-> id, map |-> map, scope |-> scope, nested |-> nested, i |-> 0, marks |-> <<>>]
APrecompute(id, map) ==
  [fn |-> "precompute", id |-> id, map |-> map, e |-> 1, pass |-> 1, progress |-> FALSE]
AEval(id, map, kids) == [fn |-> "eval", id |-> id, map |-> map, kids |-> kids]
AResolve(name, map, kids) == [fn |-> "resolve", name |-> name, map |-> map, kids |-> kids]
ASynth(id, map, kids) ==
  [fn |-> "synth", id |-> id, map |-> map, kids |-> kids, i |-> 0, made |-> NoFields]
AMeasure(id, v, map) == [fn |-> "measure", id |-> id, value |-> v, map |-> map, saved |-> <<>>]
AItems(id, s, scope, how, length) ==
  [fn |-> "items", id |-> id, s |-> s, i |-> 1, scope |-> scope, how |-> how,
   length |-> length, saved |-> <<>>]
ABranch(id, start) == [fn |-> "branch", id |-> id, start |-> start]

Calling(fn) == stack # <<>> /\ Top.fn = fn /\ signal = "call"
Returned(fn) == stack # <<>> /\ Top.fn = fn /\ signal = "ok"
Failed(fn) == stack # <<>> /\ Top.fn = fn /\ signal = "err"

(***************************************************************************)
(* Calculated values (ovc.rs).                                             *)
(***************************************************************************)
(* The pass over the entries, each evaluated over what is known so far; a  *)
(* value that cannot be had yet is tried again in the next pass.           *)
EvalEntry ==
  /\ Calling("precompute")
  /\ LET entries == Collected(Node(Top.id).kids)
         unready == \E i \in DOMAIN entries : Node(entries[i]).calc = "conditional" IN
     IF unready THEN Throw("circular")
     ELSE
     /\ Top.e <= Len(entries)
     /\ IF Deferred(Node(entries[Top.e]))
        THEN stack' = Append(Under, [Top EXCEPT !.e = @ + 1]) /\ UNCHANGED <<signal, val>>
        ELSE Call(AEval(entries[Top.e], Top.map, Node(Top.id).kids))
  /\ Quiet

EntryComputed ==
  /\ Returned("precompute")
  /\ LET n == Node(Collected(Node(Top.id).kids)[Top.e])
         v == ForKind(n.kind, val)
         same == n.name \in DOMAIN Top.map /\ Top.map[n.name] = v IN
     stack' = Append(Under,
       IF same THEN [Top EXCEPT !.e = @ + 1]
       ELSE [Top EXCEPT !.e = @ + 1, !.progress = TRUE, !.map = (n.name :> v) @@ @])
  /\ signal' = "call" /\ UNCHANGED val /\ Quiet

EntryFailed ==
  /\ Failed("precompute")
  /\ IF Node(Collected(Node(Top.id).kids)[Top.e]).calc = "error" THEN Throw(val)
     ELSE /\ stack' = Append(Under, [Top EXCEPT !.e = @ + 1])
          /\ signal' = "call" /\ UNCHANGED val
  /\ Quiet

(* Mutant: one pass is taken to be enough.                                 *)
OnePass(a, n) == TRUE

(* The loop ends when a pass changes nothing, or at its limit.             *)
LastPass(a, n) == ~a.progress \/ a.pass = MaxPasses(n)

PassDone ==
  /\ Calling("precompute")
  /\ LET entries == Collected(Node(Top.id).kids)
         valued == \A i \in DOMAIN entries : Deferred(Node(entries[i])) \/ Node(entries[i]).name \in DOMAIN Top.map IN
     /\ \A i \in DOMAIN entries : Node(entries[i]).calc # "conditional"
     /\ Top.e > Len(entries)
     /\ IF ~LastPass(Top, Len(entries))
        THEN /\ stack' = Append(Under, [Top EXCEPT !.e = 1, !.pass = @ + 1, !.progress = FALSE])
             /\ UNCHANGED <<signal, val>>
        ELSE IF valued THEN Return(MapOf(Top.map)) ELSE Throw("circular")
  /\ Quiet

(* eval_output_value_calc.  The length of a sibling is measured; a path is *)
(* resolved, which may calculate the element it names.                     *)
EvalCalc ==
  /\ Calling("eval")
  /\ LET n == Node(Top.id)
         siblings == SiblingValues(Top.map, n.of)
         sibling == CHOOSE v \in siblings : TRUE
         target == FindDescendant(Top.kids, n.of) IN
     CASE n.calc = "constant" -> Return(Num(n.add))
       [] n.calc \in {"error", "conditional"} -> Throw("calc")
       [] n.calc = "length" ->
            IF siblings = {} THEN Throw("calc")
            ELSE IF target # 0 THEN Call(AMeasure(target, sibling, Top.map))
            ELSE IF ByteLength(sibling) = NoLength THEN Throw("calc")
            ELSE Return(Num(ByteLength(sibling) + n.add))
       [] n.calc \in {"concat", "substring", "xpath"} ->
            IF siblings = {} \/ Chars(n, sibling) = NoLength THEN Throw("calc") ELSE Return(Pieces(n, sibling))
       [] n.calc \in {"path", "count"} -> Call(AResolve(n.of, Top.map, Top.kids))
       [] OTHER ->
            IF occurrence = NoOccurrence THEN Throw("calc")
            ELSE IF n.calc = "index" THEN Return(Num(occurrence[1] + n.add))
            ELSE Return(Num(IF occurrence[1] < occurrence[2] THEN 1 ELSE 0))
  /\ Quiet

EvalReturns ==
  /\ Returned("eval")
  /\ LET n == Node(Top.id) IN
     CASE n.calc = "count" -> Return(Num(CountOf(val)))
       [] n.calc = "path" /\ n.add = 0 -> Return(val)
       [] val.t = "int" -> Return(Num(val.n + n.add))
       [] OTHER -> Throw("calc")
  /\ Quiet

(* resolve_output_value_calc_path_value, for a path of one step.           *)
Resolve ==
  /\ Calling("resolve")
  /\ LET kids == IF Top.kids = <<>> THEN RootChildren ELSE Top.kids
         found == FindParticle(kids, Top.name, TRUE) IN
     IF Top.name \in DOMAIN Top.map THEN Return(Top.map[Top.name])
     ELSE IF found # 0 THEN Call(ASynth(found, Top.map, kids))
     ELSE Throw("calc")
  /\ Quiet

ResolveReturns == Returned("resolve") /\ Return(val) /\ Quiet

(* synthesize_element_subtree_value: the value an element without one in   *)
(* the infoset would have.                                                 *)
Synthesize ==
  /\ Calling("synth")
  /\ LET n == Node(Top.id) IN
     IF n.kind = "choice" THEN Throw("calc")
     ELSE IF n.kind = "sequence" THEN
       IF Top.i = 0 THEN Call(APrecompute(Top.id, Top.map))
       ELSE IF Top.i > Len(n.kids) THEN Return(MapOf(Top.made))
       ELSE LET k == Node(n.kids[Top.i]) IN
            IF ~IsElement(k) \/ k.name \in DOMAIN Top.made
            THEN stack' = Append(Under, [Top EXCEPT !.i = @ + 1]) /\ UNCHANGED <<signal, val>>
            ELSE Call(ASynth(n.kids[Top.i], Top.map, Top.kids))
     ELSE IF n.name \in DOMAIN Top.map THEN Return(Top.map[n.name])
     ELSE IF HasCalc(n) THEN Call(AEval(Top.id, Top.map, Top.kids))
     ELSE IF n.kids # <<>> THEN Call(ASynth(n.kids[1], Top.map, Top.kids))
     ELSE Throw("calc")
  /\ Quiet

SynthReturns ==
  /\ Returned("synth")
  /\ LET n == Node(Top.id) IN
     IF n.kind # "sequence" THEN Return(val)
     ELSE /\ stack' = Append(Under,
               IF Top.i = 0 THEN [Top EXCEPT !.i = 1, !.made = val.f]
               ELSE [Top EXCEPT !.i = @ + 1, !.made = (Node(n.kids[Top.i]).name :> val) @@ @])
          /\ signal' = "call" /\ UNCHANGED val
  /\ Quiet

(* The length of a value: of a delimited text, its bytes; of anything else *)
(* what it takes in a scratch buffer, or if that fails the bytes of its    *)
(* text.  A complex element is measured without its own frame.             *)
EncodeTarget(id) ==
  LET target[k \in DOMAIN prog.nodes] ==
        IF Node(k).kind = "complex" /\ Node(k).kids # <<>> THEN target[Node(k).kids[1]] ELSE k
  IN target[id]

Measure ==
  /\ Calling("measure")
  /\ LET n == Node(Top.id) IN
     IF n.kind = "text" /\ n.length = NoLength /\ n.lengthOf = NoName
     THEN /\ IF ByteLength(Top.value) = NoLength THEN Throw("calc") ELSE Return(Num(Top.value.n))
          /\ UNCHANGED out
     ELSE /\ CallFrom([Top EXCEPT !.saved = out],
               ANode(IF Top.value.t = "map" THEN EncodeTarget(Top.id) ELSE Top.id,
                     Top.value, Top.map))
          /\ out' = <<>>
  /\ Keep /\ UNCHANGED <<occurrence, order, unseen>>

Measured ==
  /\ Returned("measure")
  /\ Return(Num(Bytes(out)))
  /\ out' = Top.saved
  /\ Keep /\ UNCHANGED <<occurrence, order, unseen>>

MeasureFailed ==
  /\ Failed("measure")
  /\ IF ByteLength(Top.value) = NoLength THEN Throw("calc") ELSE Return(Num(Top.value.n))
  /\ out' = Top.saved
  /\ Keep /\ UNCHANGED <<occurrence, order, unseen>>

(***************************************************************************)
(* Writing.                                                                *)
(***************************************************************************)
(* check_bit_order_change: a change of order needs a byte boundary.        *)
OrderRefused(n) ==
  n.order # "none" /\ order # "none" /\ n.order # order /\ Bits(out) % 8 # 0

InScratch == \E i \in DOMAIN stack :
  stack[i].fn = "measure" \/ (stack[i].fn = "items" /\ stack[i].how = "framed" /\ i # Len(stack))

(* Mutant: the order of an element is forgotten.                           *)
ForgetOrder(n, written) == UNCHANGED <<order, unseen>>

(* note_bit_order, after a value of n was written or without one.          *)
NoteOrder(n, written) ==
  IF n.order = "none" THEN UNCHANGED <<order, unseen>>
  ELSE order' = n.order /\ unseen' = (unseen \/ InScratch \/ ~written)

(* Nil values, prefixes and padding are bytes: they are in no bit order.   *)
Token(id, v, bits) ==
  [id |-> id, v |-> v, bits |-> bits, order |-> IF v.t \in {"text", "int"} THEN Node(id).order ELSE "none"]

(* What write_simple writes: a text, padded to its length if it has one,   *)
(* or a number of the node's width; NoLength if it refuses.                *)
Width(n, v, length) ==
  CASE n.kind = "text" /\ v.t = "text" ->
         IF Bits(out) % 8 # 0 \/ (n.lengthOf # NoName /\ length = NoLength) THEN NoLength
         ELSE IF length = NoLength THEN 8 * v.n
         ELSE IF v.n > length THEN NoLength ELSE 8 * length
    [] n.kind = "number" /\ v.t = "int" -> n.bits
    [] OTHER -> NoLength

(* encode_simple_occurrences notes the order of what was written,          *)
(* encode_node also that of a value that was refused.                      *)
WriteSimple(id, v, length, next, refused) ==
  LET n == Node(id)  w == Width(n, v, length) IN
  IF OrderRefused(n) THEN Throw("order") /\ UNCHANGED <<out, order, unseen>>
  ELSE IF w = NoLength THEN Throw("value") /\ UNCHANGED out /\ refused
  ELSE out' = Append(out, Token(id, v, w)) /\ NoteOrder(n, TRUE) /\ next

(* encode_nil_element, write_byte_aligned: a nil value needs a byte        *)
(* boundary, and no order.                                                 *)
WriteNil(id, next) ==
  IF Bits(out) % 8 # 0 THEN Throw("value") /\ UNCHANGED <<out, order, unseen>>
  ELSE out' = Append(out, Token(id, Null, 8)) /\ next

ItemsOf(v) == IF v.t = "list" THEN v.s ELSE <<v>>
Payload(v, name) == IF v.t = "map" /\ name \in DOMAIN v.f THEN v.f[name] ELSE v

(* Mutant: the index of an item counts from 0.                             *)
FromZero(i, n) == <<i - 1, n>>

Context(i, n) == <<i, n>>

(* Mutant: the occurrence of the last item stays set.                      *)
KeepOccurrence(now) == now

(* with_array_occurrence clears the cell after the item, whatever it held  *)
(* before.                                                                 *)
AfterItem(now) == NoOccurrence

NextItem == [Top EXCEPT !.i = @ + 1]

ItemsDone ==
  /\ Calling("items") /\ Top.i > Len(Top.s)
  /\ Return(Null) /\ Quiet

SimpleItem ==
  /\ Calling("items") /\ Top.i <= Len(Top.s) /\ Top.how = "simple"
  /\ WriteSimple(Top.id, Top.s[Top.i], Top.length,
       stack' = Append(Under, NextItem) /\ UNCHANGED <<signal, val>>,
       UNCHANGED <<order, unseen>>)
  /\ Keep /\ UNCHANGED occurrence

(* encode_element_occurrences: each item of an unframed complex element is *)
(* encoded with its index and the number of items.                         *)
OccurrenceItem ==
  /\ Calling("items") /\ Top.i <= Len(Top.s) /\ Top.how = "occurrence"
  /\ IF OrderRefused(Node(Top.id)) THEN Throw("order") /\ UNCHANGED <<out, occurrence, order, unseen>>
     ELSE IF Top.s[Top.i] = Null
     THEN /\ WriteNil(Top.id, stack' = Append(Under, NextItem) /\ NoteOrder(Node(Top.id), FALSE) /\ UNCHANGED <<signal, val>>)
          /\ UNCHANGED occurrence
     ELSE /\ Call(ANode(Node(Top.id).kids[1], Top.s[Top.i], Top.scope))
          /\ occurrence' = Context(Top.i, Len(Top.s)) /\ UNCHANGED <<out, order, unseen>>
  /\ Keep

(* write_framed_payload: a prefix, or the payload cut or padded to the     *)
(* length; both need a byte boundary, and the length must be known.        *)
FrameRefused(n, length, before) ==
  \/ n.frame \in {"explicit", "prefixed"} /\ Bits(before) % 8 # 0
  \/ n.frame = "explicit" /\ length = NoLength

(* write_prefixed_bytes, write_explicit_payload: whole bytes are written.  *)
Framed(id, length, w) ==
  CASE Node(id).frame = "prefixed" ->
         (<<Token(id, Filler("prefix"), 8)>> \o w) \o <<Token(id, Filler("pad"), 8 * Bytes(w) - Bits(w))>>
    [] Node(id).frame = "explicit" /\ Bits(w) > 8 * length -> <<Token(id, Filler("cut"), 8 * length)>>
    [] Node(id).frame = "explicit" -> w \o <<Token(id, Filler("pad"), 8 * length - Bits(w))>>
    [] OTHER -> w

(* encode_framed_element: the item goes to a payload of its own.           *)
FramedItem ==
  /\ Calling("items") /\ Top.i <= Len(Top.s) /\ Top.how = "framed"
  /\ IF Top.s[Top.i] = Null /\ FrameRefused(Node(Top.id), Top.length, out)
     THEN Throw("value") /\ UNCHANGED out
     ELSE IF Top.s[Top.i] = Null
     THEN /\ out' = out \o Framed(Top.id, Top.length, <<Token(Top.id, Null, 8)>>)
          /\ stack' = Append(Under, NextItem) /\ UNCHANGED <<signal, val>>
     ELSE /\ CallFrom([Top EXCEPT !.saved = out], ANode(Node(Top.id).kids[1], Top.s[Top.i], Top.scope))
          /\ out' = <<>>
  /\ Keep /\ UNCHANGED <<occurrence, order, unseen>>

ItemReturns ==
  /\ Returned("items")
  /\ LET n == Node(Top.id) IN
     IF Top.how = "framed"
     THEN IF FrameRefused(n, Top.length, Top.saved)
          THEN Throw("value") /\ UNCHANGED <<out, occurrence, order, unseen>>
          ELSE /\ stack' = Append(Under, [NextItem EXCEPT !.saved = <<>>])
               /\ signal' = "call" /\ UNCHANGED <<val, occurrence, order, unseen>>
               /\ out' = Top.saved \o Framed(Top.id, Top.length, out)
     ELSE /\ stack' = Append(Under, NextItem) /\ signal' = "call"
          /\ occurrence' = AfterItem(occurrence)
          /\ NoteOrder(n, FALSE) /\ UNCHANGED <<val, out>>
  /\ Keep

(* An error leaves the item by the same way: the cell is cleared.          *)
ItemFailed ==
  /\ Failed("items") /\ Throw(val)
  /\ occurrence' = IF Top.how = "occurrence" THEN AfterItem(occurrence) ELSE occurrence
  /\ Keep /\ UNCHANGED <<out, order, unseen>>

(***************************************************************************)
(* Sequences and their children.                                           *)
(***************************************************************************)
(* The fields a sequence is encoded from.                                  *)
NoMap == [t |-> "no map"]
AsMap(v) ==
  CASE v.t = "map" -> v
    [] v.t = "text" /\ v.n = 0 -> MapOf(NoFields)
    [] v.t = "branch" /\ v.v.t = "map" -> v.v
    [] v.t = "list" /\ Len(v.s) = 1 /\ v.s[1].t = "map" -> v.s[1]
    [] OTHER -> NoMap

(* The calculated values are computed first.                               *)
Enter(below, id, map, scope, nested) ==
  Push(Append(below, ASequence(id, map, Merged(scope, map), nested)), APrecompute(id, map))

SequenceReady ==
  /\ Returned("sequence") /\ Top.i = 0
  /\ stack' = Append(Under, [Top EXCEPT !.i = 1, !.map = val.f, !.marks = <<Bits(out)>>])
  /\ signal' = "call" /\ UNCHANGED val /\ Quiet

Absent(n, map) ==
  IsElement(n) /\ n.min = 0 /\ n.calc \in {"none", "xpath", "conditional"} /\ ~n.hidden /\ n.name \notin DOMAIN map

NextChild == [Top EXCEPT !.i = @ + 1, !.marks = Append(@, Bits(out))]

(* The children of a sequence that is a child of one do not see its        *)
(* calculated values around them (encode_sequence_particle).               *)
ScopeBelow(a) == IF a.nested THEN a.scope ELSE Merged(a.scope, a.map)

SequenceChild ==
  /\ Calling("sequence")
  /\ LET kids == Node(Top.id).kids IN
     IF Top.i > Len(kids) THEN Return(Null)
     ELSE LET n == Node(kids[Top.i]) IN
          IF n.ivc \/ Absent(n, Top.map)
          THEN stack' = Append(Under, NextChild) /\ UNCHANGED <<signal, val>>
          ELSE Call(AParticle(kids[Top.i], Top.map, ScopeBelow(Top), kids))
  /\ Quiet

ChildReturns ==
  /\ Returned("sequence") /\ Top.i > 0
  /\ stack' = Append(Under, NextChild)
  /\ signal' = "call" /\ UNCHANGED val /\ Quiet

Visible(a) == Merged(a.scope, a.map)

(* element_encode_value, for an element whose value needs no computing.    *)
Known(n, map) ==
  CASE HasCalc(n) -> map[n.name]
    [] n.hidden /\ ~HasCalc(n) -> IF n.kind = "complex" THEN MapOf(NoFields) ELSE Text(0)
    [] OTHER -> map[n.name]

Set(phase, v) == stack' = Append(Under, [Top EXCEPT !.phase = phase, !.value = v])

(* The value of an element: its calculated value, computed now if it is    *)
(* deferred; or the infoset's.                                             *)
ParticleValue ==
  /\ Calling("particle") /\ Top.phase = "value" /\ IsElement(Node(Top.id))
  /\ LET n == Node(Top.id)
         now == Deferred(n) \/ n.calc \in {"xpath", "conditional"}
         there == n.name \in DOMAIN Visible(Top) IN
     IF HasCalc(n) /\ (now \/ ~there)
     THEN CallFrom([Top EXCEPT !.phase = "computed"], AEval(Top.id, Visible(Top), Top.kids))
     ELSE IF there \/ n.hidden
     THEN Set("counted", Known(n, Visible(Top))) /\ UNCHANGED <<signal, val>>
     ELSE IF n.min = 0 THEN Return(Null)
     ELSE IF n.length = 0 THEN Set("counted", Text(0)) /\ UNCHANGED <<signal, val>>
     ELSE Throw("missing")
  /\ Quiet

ParticleComputed ==
  /\ Returned("particle") /\ Top.phase = "computed"
  /\ Set("counted", ForKind(Node(Top.id).kind, val))
  /\ signal' = "call" /\ UNCHANGED val /\ Quiet

(* value_for_occurrence_encode: the count cuts the items to as many.       *)
ParticleCount ==
  /\ Calling("particle") /\ Top.phase = "counted" /\ Node(Top.id).count # NoName
  /\ CallFrom([Top EXCEPT !.phase = "counting"], AResolve(Node(Top.id).count, Visible(Top), Top.kids))
  /\ Quiet

Cut(v, n) ==
  IF n = 0 THEN List(<<>>)
  ELSE IF v.t = "list" /\ Len(v.s) > n THEN List(SubSeq(v.s, 1, n)) ELSE v

ParticleCounted ==
  /\ Returned("particle") /\ Top.phase = "counting"
  /\ LET v == Cut(Top.value, CountOf(val)) IN
     IF v = List(<<>>) /\ Node(Top.id).min = 0 THEN Return(Null)
     ELSE Set("write", v) /\ signal' = "call" /\ UNCHANGED val
  /\ Quiet

(* resolve_length_props_encode: the length a sibling holds; NoLength if    *)
(* the sibling has none to give.                                           *)
Length(n, map) ==
  IF n.lengthOf = NoName THEN n.length
  ELSE IF n.lengthOf \in DOMAIN map /\ map[n.lengthOf].t = "int" /\ map[n.lengthOf].n >= 0
  THEN map[n.lengthOf].n ELSE NoLength

ParticleWrite ==
  /\ Calling("particle") /\ IsElement(Node(Top.id))
  /\ \/ Top.phase = "write"
     \/ Top.phase = "counted" /\ Node(Top.id).count = NoName
  /\ LET n == Node(Top.id)
         length == Length(n, Visible(Top))
         field == Payload(Top.value, n.name) IN
     IF n.lengthOf # NoName /\ length = NoLength THEN Throw("calc") /\ UNCHANGED <<out, order, unseen>>
     ELSE IF Top.value = Null THEN WriteNil(Top.id, Return(Null) /\ UNCHANGED <<order, unseen>>)
     ELSE /\ UNCHANGED <<out, order, unseen>>
          /\ IF n.kind # "complex" /\ Top.value = Text(0) /\ length <= 0 THEN Return(Null)
             ELSE IF n.kind # "complex" THEN Become(AItems(Top.id, ItemsOf(Top.value), Top.scope, "simple", length))
             ELSE Become(AItems(Top.id, ItemsOf(field), Top.scope,
                     IF n.frame = "none" THEN "occurrence" ELSE "framed", length))
  /\ Keep /\ UNCHANGED occurrence

ParticleSequence ==
  /\ Calling("particle") /\ Node(Top.id).kind = "sequence"
  /\ Enter(Under, Top.id, Top.map, Top.scope, TRUE)
  /\ Quiet

(***************************************************************************)
(* Choices.                                                                *)
(***************************************************************************)
(* The first field of the branch the infoset has, in schema order.         *)
DataKey(id, map) ==
  LET key[k \in DOMAIN prog.nodes] ==
        LET n == Node(k)
            keyed == {i \in DOMAIN n.kids : key[n.kids[i]] # NoName} IN
        IF IsElement(n) THEN (IF ~n.hidden /\ n.name \in DOMAIN map THEN n.name ELSE NoName)
        ELSE IF n.kind = "choice" \/ keyed = {} THEN NoName ELSE key[n.kids[Min(keyed)]]
  IN key[id]

(* ir_props_encodable_without_infoset.                                     *)
NeedsNoData(n) == ~n.ivc /\ (HasCalc(n) \/ n.min = 0)

(* infoset_particle_can_absent_enc and ir_branch_encodable_without_infoset.*)
CanBeAbsent(id) ==
  LET absent[k \in DOMAIN prog.nodes] ==
        LET n == Node(k)
            kids == {absent[n.kids[i]] : i \in DOMAIN n.kids} IN
        CASE n.kind = "sequence" -> FALSE \notin kids
          [] n.kind = "choice" -> TRUE \in kids
          [] OTHER -> NeedsNoData(n) \/ (n.kind = "complex" /\ n.kids # <<>> /\ TRUE \in kids)
  IN absent[id]

(* choice_branch_infoset_local_key_enc: the first field of the branch that *)
(* has to come from the infoset.                                           *)
InfosetKey(id) ==
  LET key[k \in DOMAIN prog.nodes] ==
        LET n == Node(k)
            keyed == {i \in DOMAIN n.kids : key[n.kids[i]] # NoName} IN
        IF IsElement(n) THEN (IF NeedsNoData(n) THEN NoName ELSE n.name)
        ELSE IF keyed = {} THEN NoName ELSE key[n.kids[Min(keyed)]]
  IN key[id]

First(kids, P(_)) ==
  LET S == {i \in DOMAIN kids : P(kids[i])} IN
  IF S = {} THEN 0 ELSE CHOOSE i \in S : \A j \in S : i <= j

WithData(n, map) == LET HasData(id) == DataKey(id, map) # NoName IN First(n.kids, HasData)

(* select_choice_branch: the first branch whose required field the map has.*)
WithKey(n, map) ==
  LET Keyed(id) == InfosetKey(id) \in DOMAIN map
      hidden == \A i \in DOMAIN n.kids : IsElement(Node(n.kids[i])) /\ Node(n.kids[i]).hidden IN
  IF hidden THEN 0 ELSE First(n.kids, Keyed)

(* Without data: the first empty sequence, else the first branch that can  *)
(* be absent.                                                              *)
WithoutData(n) ==
  LET Empty(id) == Node(id).kind = "sequence" /\ Node(id).kids = <<>> IN
  IF First(n.kids, Empty) # 0 THEN First(n.kids, Empty) ELSE First(n.kids, CanBeAbsent)

(* encode_choice_matched_branch.                                           *)
Matched(id, kid, v, map) ==
  LET n == Node(kid)
      own == IF v.t = "map" THEN Merged(map, v.f)
             ELSE IF HasCalc(n) \/ n.hidden THEN map ELSE Merged(map, n.name :> v)
      below == Append(Under, ABranch(id, Bits(out))) IN
  IF IsElement(n) THEN Push(below, AParticle(kid, own, own, <<>>))
  ELSE Push(below, ANode(kid, IF v.t = "map" \/ n.kind # "sequence" THEN v ELSE MapOf(map), map))

EncodeChoice(id, map) ==
  LET n == Node(id)
      data == WithData(n, map)  key == WithKey(n, map)  none == WithoutData(n)
      keyed == Node(n.kids[key]).name IN
  IF data # 0 THEN Matched(id, n.kids[data], map[DataKey(n.kids[data], map)], map)
  ELSE IF key # 0 THEN Matched(id, n.kids[key], IF keyed \in DOMAIN map THEN map[keyed] ELSE MapOf(NoFields), map)
  ELSE IF none = 0 THEN Throw("choice")
  ELSE IF Node(n.kids[none]).kind = "sequence" /\ Node(n.kids[none]).kids = <<>>
  THEN Become(ANode(n.kids[none], MapOf(NoFields), NoFields))
  ELSE Matched(id, n.kids[none], MapOf(NoFields), map)

ParticleChoice ==
  /\ Calling("particle") /\ Node(Top.id).kind = "choice"
  /\ EncodeChoice(Top.id, Top.map)
  /\ Quiet

(* pad_choice_explicit_frame: the branch fills the length of the choice.   *)
BranchReturns ==
  /\ Returned("branch")
  /\ LET n == Node(Top.id)
         wrote == (Bits(out) - Top.start + 7) \div 8 IN
     IF n.length = NoLength THEN Return(Null) /\ UNCHANGED out
     ELSE IF Bits(out) % 8 # 0 \/ wrote > n.length THEN Throw("choice") /\ UNCHANGED out
     ELSE Return(Null) /\ out' = Append(out, Token(Top.id, Filler("pad"), 8 * (n.length - wrote)))
  /\ Keep /\ UNCHANGED <<occurrence, order, unseen>>

(***************************************************************************)
(* encode_node.                                                            *)
(***************************************************************************)
NodeSequence ==
  /\ Calling("node") /\ Node(Top.id).kind = "sequence"
  /\ IF AsMap(Top.value) = NoMap THEN Throw("value")
     ELSE Enter(Under, Top.id, AsMap(Top.value).f, Top.scope, FALSE)
  /\ Quiet

NodeChoice ==
  /\ Calling("node") /\ Node(Top.id).kind = "choice"
  /\ LET n == Node(Top.id)
         Named(id) == IsElement(Node(id)) /\ Node(id).name = Top.value.of IN
     IF Top.value.t = "branch"
     THEN IF First(n.kids, Named) = 0 THEN Throw("choice")
          ELSE Matched(Top.id, n.kids[First(n.kids, Named)], Top.value.v, NoFields)
     ELSE EncodeChoice(Top.id, IF Top.value.t = "map" THEN Top.value.f ELSE NoFields)
  /\ Quiet

NodeElement ==
  /\ Calling("node") /\ IsElement(Node(Top.id))
  /\ LET n == Node(Top.id) IN
     IF Top.value = Null THEN WriteNil(Top.id, Return(Null) /\ UNCHANGED <<order, unseen>>)
     ELSE IF n.kind # "complex"
     THEN WriteSimple(Top.id, Top.value, n.length, Return(Null), NoteOrder(n, FALSE))
     ELSE /\ Become(AItems(Top.id, ItemsOf(Payload(Top.value, n.name)), Top.scope,
                IF n.frame = "none" THEN "occurrence" ELSE "framed", n.length))
          /\ UNCHANGED <<out, order, unseen>>
  /\ Keep /\ UNCHANGED occurrence

(* An error no activation below answers goes to the caller.                *)
Unwind ==
  /\ \E fn \in {"eval", "resolve", "synth", "sequence", "particle", "branch", "node"} : Failed(fn)
  /\ IF Top.fn = "particle" /\ Top.phase = "computed" /\ val = "missing" /\ Node(Top.id).min = 0
     THEN Return(Null) ELSE Throw(val)
  /\ Quiet

(***************************************************************************)
(* An encode, and the next on the same encoder.                            *)
(***************************************************************************)
Init ==
  /\ prog \in Programs /\ infoset \in prog.infosets
  /\ stack = <<ANode(Root, infoset, NoFields)>>
  /\ signal = "call" /\ val = Null /\ out = <<>>
  /\ occurrence = NoOccurrence /\ order = "none" /\ unseen = FALSE /\ encodes = 1

NextEncode ==
  /\ stack = <<>> /\ signal # "overflow" /\ encodes < MaxEncodes
  /\ encodes' = encodes + 1
  /\ infoset' \in prog.infosets
  /\ stack' = <<ANode(Root, infoset', NoFields)>>
  /\ signal' = "call" /\ val' = Null /\ out' = <<>> /\ unseen' = FALSE
  /\ UNCHANGED <<prog, occurrence, order>>

Next ==
  \/ NextEncode \/ NodeSequence \/ NodeChoice \/ NodeElement
  \/ SequenceReady \/ SequenceChild \/ ChildReturns
  \/ ParticleValue \/ ParticleComputed \/ ParticleCount \/ ParticleCounted
  \/ ParticleWrite \/ ParticleSequence \/ ParticleChoice \/ BranchReturns
  \/ ItemsDone \/ SimpleItem \/ OccurrenceItem \/ FramedItem \/ ItemReturns \/ ItemFailed
  \/ EvalEntry \/ EntryComputed \/ EntryFailed \/ PassDone
  \/ EvalCalc \/ EvalReturns \/ Resolve \/ ResolveReturns
  \/ Synthesize \/ SynthReturns \/ Measure \/ Measured \/ MeasureFailed
  \/ Unwind

Spec == Init /\ [][Next]_vars /\ WF_vars(Next)

(***************************************************************************)
(* Properties.                                                             *)
(***************************************************************************)
(* The state of the encoder is well formed, and no encode of an acyclic    *)
(* schema needs more calls than the stack has.                             *)
TypeOK ==
  /\ \A i \in DOMAIN stack : stack[i].fn \in
       {"node", "particle", "sequence", "precompute", "eval", "resolve", "synth", "measure", "items", "branch"}
  /\ signal \in {"call", "ok", "err"}
  /\ occurrence = NoOccurrence \/ occurrence[1] \in 1..occurrence[2]
  /\ order \in {"none", "msb", "lsb"} /\ unseen \in BOOLEAN
  /\ \A i \in DOMAIN out : out[i].bits \in Nat

(* When a sequence is written, each child calculated as the length of a    *)
(* sibling (without a frame of its own or a fixed length) holds the number *)
(* of bytes that sibling took in the output: a receiver that trusts the    *)
(* length finds the end of the data, whatever was computed from what.      *)
LengthAgrees ==
  (Calling("sequence") /\ Top.i > Len(Node(Top.id).kids)) =>
    LET kids == Node(Top.id).kids IN
    \A i, j \in DOMAIN kids :
      LET k == Node(kids[i])  s == Node(kids[j]) IN
      (/\ k.calc = "length" /\ k.kind = "number" /\ k.name \in DOMAIN Top.map
       /\ s.name = k.of /\ s.name \in DOMAIN Top.map
       /\ s.lengthOf # NoName \/ (s.frame \in {"none", "delimited"} /\ s.length = NoLength))
      => Top.map[k.name] = Num((Top.marks[j + 1] - Top.marks[j] + 7) \div 8 + k.add)

(* The occurrence an expression would see is that of the innermost item    *)
(* being encoded, or none: never the index of an array that has ended.     *)
OccurrenceFresh ==
  LET running == {i \in DOMAIN stack :
        /\ stack[i].fn = "items" /\ stack[i].how = "occurrence"
        /\ i < Len(stack) \/ signal # "call"} IN
  signal # "overflow" /\ occurrence # NoOccurrence =>
    /\ running # {}
    /\ LET a == stack[CHOOSE i \in running : \A j \in running : i >= j] IN
       occurrence = <<a.i, Len(a.s)>>

(* In what is written, a change of bit order falls on a byte boundary,     *)
(* unless the cell the check reads has been told the order of something    *)
(* else: of a scratch buffer, or of a complex element after its content.   *)
OrderChangesOnBytes ==
  ~unseen =>
    \A i, j \in DOMAIN out :
      (/\ i < j /\ out[i].order # "none" /\ out[j].order \notin {"none", out[i].order}
       /\ \A k \in (i + 1)..(j - 1) : out[k].order = "none")
      => Bits(SubSeq(out, 1, j - 1)) % 8 = 0

=============================================================================
