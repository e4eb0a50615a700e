--------------------------- MODULE BitStreamLayout ---------------------------
(***************************************************************************)
(* The programs of BitStream whose messages are read back, told from their *)
(* text alone.                                                             *)
(*                                                                         *)
(* A layout says what the encoder has before a token: its open buffers,    *)
(* innermost last, the order it noted and the fields it wrote.  A slot is  *)
(* a buffer: where it starts in the message, the bits it has, where it     *)
(* must end, the bit order of its last bits and the orders of its fields.  *)
(* A program is regular when it can be laid out so that every token lies   *)
(* where the decoder looks for it, whatever the values are.                *)
(***************************************************************************)
EXTENDS BitStream

Slot ==
  [start : Nat, len : Nat, end : Nat, order : Orders \union {"none"}, orders : SUBSET Orders]

Layout == [slots : Seq(Slot), noted : Orders \union {"none"}, fields : Nat]

(* Bits of order o may follow: they do not meet others in a byte.          *)
Orderly(s, o) == s.len % 8 = 0 \/ s.order = o

(* The slot with n more bits of order o, those of fields in the orders     *)
(* used.                                                                   *)
Grown(s, n, o, used) ==
  [start |-> s.start, len |-> s.len + n, end |-> s.end,
   order |-> o, orders |-> s.orders \union used]

(* The slot when token t begins, after the bits that align it.             *)
Begun(s, t) ==
  IF Skip(s.len, t.align) = 0 THEN s ELSE Grown(s, Skip(s.len, t.align), t.bitOrder, {})

Inner(l) == Last(l.slots)
Outer(l) == l.slots[Len(l.slots) - 1]
StartOf(l, t) == Inner(l).start + Begun(Inner(l), t).len

Changes(l, t) == t.declared /\ l.noted # "none" /\ l.noted # t.bitOrder

(* A token begins where the decoder looks for it: bits are skipped alike   *)
(* in the buffer and in the message, and an order changes at a byte of     *)
(* both.  It ends within its buffer.                                       *)
Begins(l, t, width) ==
  LET s == Inner(l) IN
  /\ Skip(s.start + s.len, t.align) = Skip(s.len, t.align)
  /\ FramedStart(t, s.start + s.len) = StartOf(l, t)
  /\ Skip(s.len, t.align) # 0 => Orderly(s, t.bitOrder)
  /\ StartOf(l, t) + width <= s.end

ChangesAtByte(l, t) ==
  Changes(l, t) => Begun(Inner(l), t).len % 8 = 0 /\ StartOf(l, t) % 8 = 0

(* The content fills a frame that is exact, and may be copied in the order *)
(* of the frame: it has no other, or it is whole bytes.                    *)
Closes(l, t) ==
  LET s == Inner(l)  o == Outer(l) IN
  /\ Len(l.slots) > 1 /\ s.end = s.start + t.width
  /\ t.exact => s.start + s.len = s.end
  /\ Orderly(o, t.bitOrder)
  /\ s.orders \subseteq {t.bitOrder} \/ (o.len % 8 = 0 /\ s.len % 8 = 0)

Fits(l, t) ==
  /\ t.op = "field" => /\ Begins(l, t, t.width) /\ ChangesAtByte(l, t)
                       /\ Orderly(Begun(Inner(l), t), t.bitOrder)
                       /\ ~(ByBytes(t) /\ t.kind = "Long")
  /\ t.op = "frame" => Begins(l, t, t.width)
  /\ t.op = "group" => Begins(l, t, 0) /\ ChangesAtByte(l, t)
  /\ t.op = "endframe" => Closes(l, t)

ReplaceInner(l, s) == [l.slots EXCEPT ![Len(l.slots)] = s]

(* The layout after a token.                                               *)
After(l, t) ==
  LET b == Begun(Inner(l), t)
      noted == IF t.declared THEN t.bitOrder ELSE l.noted
  IN CASE t.op = "field" ->
            [slots  |-> ReplaceInner(l, Grown(b, t.width, t.bitOrder, {t.bitOrder})),
             noted  |-> noted,
             fields |-> l.fields + 1]
       [] t.op = "frame" ->
            [l EXCEPT !.slots = Append(ReplaceInner(l, b),
               [start |-> b.start + b.len, len |-> 0, end |-> b.start + b.len + t.width,
                order |-> "none", orders |-> {}])]
       [] t.op = "endframe" ->
            [l EXCEPT !.slots = [Front(l.slots) EXCEPT ![Len(l.slots) - 1] =
               Grown(Outer(l), t.width, t.bitOrder, Inner(l).orders \union {t.bitOrder})]]
       [] t.op = "group" -> [l EXCEPT !.slots = ReplaceInner(l, b)]
       [] t.op = "endgroup" -> [l EXCEPT !.noted = noted]

(* Layouts of the tokens of p, to the end, or to a token that the encoder  *)
(* refuses for its bit order.                                              *)
LaidOut(ls, p) ==
  /\ ls # <<>> /\ Len(ls) <= Len(p) + 1
  /\ Len(ls[1].slots) = 1 /\ ls[1].noted = "none" /\ ls[1].fields = 0
  /\ LET s == ls[1].slots[1] IN s.start = 0 /\ s.len = 0 /\ s.order = "none" /\ s.orders = {}
  /\ \A k \in 1..(Len(ls) - 1) : Fits(ls[k], p[k]) /\ ls[k + 1] = After(ls[k], p[k])
  /\ LET l == ls[Len(ls)] IN
     IF Len(ls) = Len(p) + 1
     THEN Len(l.slots) = 1 /\ l.slots[1].len = l.slots[1].end
     ELSE /\ p[Len(ls)].op \in {"field", "group"}
          /\ Changes(l, p[Len(ls)]) /\ Begun(Inner(l), p[Len(ls)]).len % 8 # 0

Regular(p) == \E ls \in Seq(Layout) : LaidOut(ls, p)

============================================================================
