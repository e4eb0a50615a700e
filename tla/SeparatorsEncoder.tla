------------------------- MODULE SeparatorsEncoder -------------------------
(***************************************************************************)
(* The encoder's side of Separators: the separators it writes between the  *)
(* children of a sequence and the occurrences of an element                *)
(* (src/dfdl-vm/src/vm/encoder), and what decoding a value is to find.     *)
(***************************************************************************)
EXTENDS Separators

(* The encoder.  The value of a sequence gives for each kid whether the    *)
(* infoset has it and its items; an item is a text or the value of the     *)
(* sequence of a complex element; that of a sequence among the kids is its *)
(* only item.                                                              *)

RECURSIVE EncodeSequence(_, _, _), Events(_, _, _)

(* write_sequence_separator, before the kid i.                             *)
SequenceSeparator(p, s, i) ==
  IF p[s].at = "prefix" \/ i > 1 THEN p[s].sep ELSE <<>>

(* write_occurrence_separator, with the item i of n.                       *)
OccurrenceMark(p, s, i) == IF p[s].at = "infix" /\ i = 1 THEN <<>> ELSE p[s].sep

Missing(p, s, v, i) ==
  p[p[s].kids[i]].kind # "sequence" /\ p[p[s].kids[i]].min = 0 /\ ~v[i].has

Skipped(p, s, i) == p[p[s].kids[i]].kind \in Calcs

(* trailing_empty_absent_position_slot.                                    *)
KeepsSlot(p, s, v, i) ==
  LET c == p[p[s].kids[i]] IN
  /\ p[s].policy = "trailingEmpty" /\ p[s].at = "infix"
  /\ c.min = 0 /\ c.count = "implicit" /\ c.max = 1
  /\ \E j \in i + 1 .. Len(p[s].kids) : ~Skipped(p, s, j) /\ ~Missing(p, s, v, j)

Deferred(c) == c.kind # "sequence" /\ (c.max > 1 \/ c.min > 1)

EmptyText(c, item) == c.kind \in {"text", "number"} /\ item = <<>>

(* trailing_suppressed_count.                                              *)
KeptItems(p, s, c, items) ==
  IF p[s].policy \in {"trailingEmpty", "trailingEmptyStrict", "anyEmpty"}
  THEN CHOOSE n \in 0..Len(items) :
         /\ \A k \in n + 1 .. Len(items) : EmptyText(c, items[k])
         /\ n = 0 \/ ~EmptyText(c, items[n])
  ELSE Len(items)

(* should_suppress_occurrence_separator.                                   *)
Suppressed(p, s, c, items, k) ==
  /\ p[s].policy = "anyEmpty"
  /\ EmptyText(c, items[k]) \/ (p[s].at = "infix" /\ k > 1 /\ EmptyText(c, items[k-1]))

(* encode_simple_occurrences and encode_element_occurrences: an empty item *)
(* of a field is passed over with its postfix separator; a field alone has *)
(* no separators of its own, a complex element alone has.                  *)
EncodeItem(p, s, k, c, items, j, n) ==
  LET sep  == IF Suppressed(p, s, c, items, j) \/ (c.kind # "complex" /\ n = 1) THEN <<>>
              ELSE OccurrenceMark(p, s, j)
      body == IF c.kind = "complex" THEN EncodeSequence(p, c.kids[1], items[j]) \o c.term
              ELSE items[j] \o c.term
  IN IF p[s].at = "postfix"
     THEN IF EmptyText(c, items[j]) THEN <<>> ELSE body \o sep
     ELSE sep \o (IF EmptyText(c, items[j]) THEN <<>> ELSE body)

EncodeItems(p, s, k, items) ==
  LET c == p[k]  n == KeptItems(p, s, c, items)
      upto[j \in 0..n] ==
        IF j = 0 THEN <<>> ELSE upto[j-1] \o EncodeItem(p, s, k, c, items, j, n)
  IN IF Len(items) = 1 /\ EmptyText(c, items[1]) THEN <<>> ELSE upto[n]

(* The loop over the children of a sequence.                               *)
EncodeSequence(p, s, v) ==
  LET kids == p[s].kids
      absent(i) == Skipped(p, s, i) \/ (Missing(p, s, v, i) /\ ~KeepsSlot(p, s, v, i))
      wrote(i) == \E j \in 1..(i - 1) : ~absent(j)
      before(i) ==
        IF Deferred(p[kids[i]]) /\ ~Missing(p, s, v, i)
        THEN IF p[s].at = "infix" THEN SequenceSeparator(p, s, i) ELSE <<>>
        ELSE IF wrote(i) \/ p[s].at = "prefix" \/ Missing(p, s, v, i)
        THEN SequenceSeparator(p, s, i) ELSE <<>>
      body(i) ==
        IF Missing(p, s, v, i) THEN <<>>
        ELSE IF p[kids[i]].kind = "sequence" THEN EncodeSequence(p, kids[i], v[i].items[1])
        ELSE EncodeItems(p, s, kids[i], v[i].items)
      upto[i \in 0..Len(kids)] ==
        IF i = 0 THEN <<>>
        ELSE IF absent(i) THEN upto[i-1] ELSE upto[i-1] \o before(i) \o body(i)
  IN upto[Len(kids)] \o p[s].term

(* The events of a value: what decoding it is to find.                     *)
Events(p, s, v) ==
  LET kids == p[s].kids
      item(i, x) ==
        CASE p[kids[i]].kind = "complex" -> <<Open(kids[i])>> \o Events(p, p[kids[i]].kids[1], x)
          [] p[kids[i]].kind = "sequence" -> Events(p, kids[i], x)
          [] OTHER -> <<Item(kids[i], x)>>
      all(i) ==
        LET items == v[i].items
            upto[j \in 0..Len(items)] == IF j = 0 THEN <<>> ELSE upto[j-1] \o item(i, items[j])
        IN IF p[kids[i]].kind \in Calcs THEN <<Item(kids[i], <<>>)>>
           ELSE IF v[i].has /\ items = <<>> THEN <<Empty(kids[i])>> ELSE upto[Len(items)]
      upto[i \in 0..Len(kids)] == IF i = 0 THEN <<>> ELSE upto[i-1] \o all(i)
  IN upto[Len(kids)]

(* A value of a program as an input: its data, and what is to be found.    *)
Encoded(p, v) == [data |-> EncodeSequence(p, 1, v), events |-> Events(p, 1, v)]

============================================================================
