--------------------------- MODULE BitStream_proofs ---------------------------
(***************************************************************************)
(* Proofs about BitStream: its types, that no reader leaves the data, that *)
(* a field is read back as it was written, whatever its width and place;   *)
(* and that what the encoder wrote is read back, for every regular program,*)
(* every value of its fields and every message that arrives whole, while   *)
(* nothing that was cut is accepted.                                       *)
(***************************************************************************)
EXTENDS BitStreamLayout, SequenceTheorems, TLAPS

----------------------------------------------------------------------------
(* Places.                                                                 *)

(* The bits skipped for alignment are a natural number.                    *)
LEMMA SkipType ==
  ASSUME NEW i \in Nat, NEW a \in Nat
  PROVE  Skip(i, a) \in Nat
<1>1. CASE a <= 1
  BY <1>1 DEF Skip
<1>2. CASE a > 1
  <2> DEFINE m == i % a
  <2>1. m \in 0..(a - 1)
    BY <1>2
  <2>2. a - m \in Nat
    BY <2>1
  <2>3. (a - m) % a \in 0..(a - 1)
    BY <2>2, <1>2
  <2> QED BY <2>3, <1>2 DEF Skip
<1> QED BY <1>1, <1>2

(* An aligned element starts at a bit of the input, not after the bits     *)
(* that were skipped.                                                      *)
LEMMA FramedStartBound ==
  ASSUME NEW t \in Token, NEW i \in Nat
  PROVE  FramedStart(t, i) \in Nat /\ FramedStart(t, i) <= i + Skip(i, t.align)
<1>1. Skip(i, t.align) \in Nat
  BY SkipType DEF Token
<1> QED BY <1>1 DEF FramedStart

----------------------------------------------------------------------------
(* Types of the operators on bits.                                         *)

LEMMA BitAtType ==
  ASSUME NEW i \in Nat, NEW o \in Orders
  PROVE  BitAt(i, o) \in 0..7
BY DEF BitAt, Orders

LEMMA StreamOfType ==
  ASSUME NEW ones, NEW i \in Nat, NEW n \in Nat, NEW o
  PROVE  StreamOf(ones, i, n, o) \subseteq 0..(n - 1)
BY DEF StreamOf

LEMMA WriteBitsType ==
  ASSUME NEW buf \in Bytes, NEW n \in Nat, NEW o \in Orders, NEW stream \in SUBSET Nat
  PROVE  WriteBits(buf, stream, n, o) \in Bytes
<1>1. \A k \in stream : <<(buf.len + k) \div 8, BitAt(buf.len + k, o)>> \in Nat \X (0..7)
  <2> TAKE k \in stream
  <2>1. buf.len + k \in Nat
    BY DEF Bytes
  <2>2. (buf.len + k) \div 8 \in Nat
    BY <2>1
  <2> QED BY <2>1, <2>2, BitAtType
<1>2. buf.ones \in SUBSET (Nat \X (0..7)) /\ buf.len + n \in Nat
  BY DEF Bytes
<1>3. WriteBits(buf, stream, n, o).ones \in SUBSET (Nat \X (0..7))
  BY <1>1, <1>2 DEF WriteBits
<1> QED BY <1>2, <1>3 DEF WriteBits, Bytes

LEMMA NumberType ==
  ASSUME NEW v \in SUBSET Nat, NEW w \in Nat, NEW kind
  PROVE  Number(v, w, kind) \in SUBSET Nat
<1>1. (v \union w..63) \in SUBSET Nat
  OBVIOUS
<1> QED BY <1>1 DEF Number, SignExtend

LEMMA FieldStreamType ==
  ASSUME NEW t \in Token, NEW v \in SUBSET (0..(t.width - 1))
  PROVE  FieldStream(v, t) \in SUBSET Nat
<1>1. t.width \in Nat
  BY DEF Token
<1>2. CASE t.byteOrder = "le"
  BY <1>1, <1>2, StreamOfType DEF FieldStream
<1>3. CASE t.byteOrder # "le"
  <2>1. {t.width - 1 - b : b \in v} \in SUBSET Nat
    BY <1>1
  <2>2. v \in SUBSET Nat
    BY <1>1
  <2> QED BY <1>3, <2>1, <2>2 DEF FieldStream
<1> QED BY <1>2, <1>3

LEMMA FieldValueType ==
  ASSUME NEW t \in Token, NEW i \in Nat, data \in Bytes
  PROVE  FieldValue(t, i) \in SUBSET Nat
<1> DEFINE stream == StreamOf(data.ones, i, t.width, t.bitOrder)
           bytes  == BytesOf(stream, t.bitOrder)
           raw    == IF t.bitOrder = "msbf" THEN {t.width - 1 - k : k \in stream} ELSE stream
           packed == DecodePacked(bytes, t.width, t.bitOrder)
<1>1. t.width \in Nat /\ t.bitOrder \in Orders
  BY DEF Token
<1>2. stream \subseteq 0..(t.width - 1)
  BY <1>1, StreamOfType
<1>3. raw \in SUBSET Nat
  BY <1>1, <1>2
<1>4. packed \in SUBSET Nat
  BY <1>1 DEF DecodePacked
<1>5. {8 * x[1] + x[2] : x \in bytes} \in SUBSET Nat
  <2>1. \A k \in stream : k \in Nat /\ k \div 8 \in Nat
    BY <1>1, <1>2
  <2>2. \A k \in stream : BitAt(k, t.bitOrder) \in 0..7
    BY <2>1, <1>1, BitAtType
  <2>3. \A x \in bytes : x[1] \in Nat /\ x[2] \in 0..7
    BY <2>1, <2>2 DEF BytesOf
  <2> QED BY <2>3
<1>6. Number(raw, t.width, t.kind) \in SUBSET Nat
  BY <1>1, <1>3, NumberType
<1>7. Number(packed, t.width, t.kind) \in SUBSET Nat
  BY <1>1, <1>4, NumberType
<1> HIDE DEF raw, packed
<1>8. FieldValue(t, i) = IF ~ByBytes(t) THEN Number(raw, t.width, t.kind)
                         ELSE IF t.kind = "Long" THEN {8 * x[1] + x[2] : x \in bytes}
                         ELSE Number(packed, t.width, t.kind)
  BY DEF FieldValue, raw, packed
<1> QED BY <1>5, <1>6, <1>7, <1>8

----------------------------------------------------------------------------
(* The types and the cursor.  Before the message arrives the cursor is at  *)
(* the start, so that it is within the data once the data is there.        *)

Inv ==
  /\ TypeOK
  /\ CursorWithinData
  /\ bufs # <<>>
  /\ phase \in {"encode", "sent"} => idx = 0

LEMMA TokType ==
  ASSUME TypeOK, More
  PROVE  Tok \in Token /\ at + 1 \in 1..(Len(program) + 1)
<1>1. program \in Seq(Token)
  BY ProgramsAssumption DEF TypeOK
<1>2. at \in 1..Len(program)
  BY <1>1 DEF TypeOK, More
<1>3. program[at] \in Token
  BY <1>1, <1>2
<1> QED BY <1>1, <1>2, <1>3 DEF Tok

LEMMA AlignedType ==
  ASSUME NEW buf \in Bytes, NEW t \in Token
  PROVE  Aligned(buf, t) \in Bytes
<1>1. buf.len \in Nat /\ t.align \in Nat /\ t.bitOrder \in Orders
  BY DEF Bytes, Token
<1> DEFINE n == Skip(buf.len, t.align)
           fill == IF FillBit = 1 THEN 0..(n - 1) ELSE {}
<1>2. n \in Nat
  BY <1>1, SkipType
<1>3. fill \in SUBSET Nat
  BY <1>2
<1> HIDE DEF n, fill
<1>4. WriteBits(buf, fill, n, t.bitOrder) \in Bytes
  BY <1>1, <1>2, <1>3, WriteBitsType
<1> QED BY <1>4 DEF Aligned, n, fill

LEMMA WithPayloadType ==
  ASSUME NEW buf \in Bytes, NEW payload \in Bytes, NEW t \in Token
  PROVE  WithPayload(buf, payload, t) \in Bytes
<1>1. payload.len \in Nat /\ t.width \in Nat /\ t.bitOrder \in Orders
  BY DEF Bytes, Token
<1> DEFINE n == IF payload.len < t.width THEN payload.len ELSE t.width
           stream == StreamOf(payload.ones, 0, n, t.bitOrder)
<1>2. n \in Nat
  BY <1>1
<1>3. stream \in SUBSET Nat
  BY <1>2, StreamOfType
<1> HIDE DEF n, stream
<1>4. WriteBits(buf, stream, t.width, t.bitOrder) \in Bytes
  BY <1>1, <1>3, WriteBitsType
<1> QED BY <1>4 DEF WithPayload, n, stream

LEMMA FrontType ==
  ASSUME NEW S, NEW s \in Seq(S), s # <<>>
  PROVE  /\ Last(s) \in S
         /\ Front(s) \in Seq(S)
         /\ Len(Front(s)) = Len(s) - 1
<1>1. Len(s) \in Nat \ {0}
  BY EmptySeq
<1>2. s[Len(s)] \in S
  BY <1>1
<1>3. \A i \in 1..(Len(s) - 1) : s[i] \in S
  BY <1>1
<1>4. /\ SubSeq(s, 1, Len(s) - 1) \in Seq(S)
      /\ Len(SubSeq(s, 1, Len(s) - 1))
           = IF 1 <= Len(s) - 1 THEN Len(s) - 1 - 1 + 1 ELSE 0
  BY <1>1, <1>3, SubSeqProperties
<1>5. Len(SubSeq(s, 1, Len(s) - 1)) = Len(s) - 1
  <2> DEFINE n == Len(s)
             front == Len(SubSeq(s, 1, n - 1))
  <2>1. n \in Nat \ {0} /\ front = IF 1 <= n - 1 THEN n - 1 - 1 + 1 ELSE 0
    BY <1>1, <1>4
  <2> HIDE DEF n, front
  <2>2. front = n - 1
    BY <2>1
  <2> QED BY <2>2 DEF n, front
<1> QED BY <1>2, <1>4, <1>5, Zenon DEF Last, Front

LEMMA SetLastType ==
  ASSUME TypeOK, bufs # <<>>, NEW buf \in Bytes
  PROVE  SetLast(buf) \in Seq(Bytes) /\ Len(SetLast(buf)) = Len(bufs)
<1>1. bufs \in Seq(Bytes) /\ Len(bufs) \in 1..Len(bufs)
  BY EmptySeq DEF TypeOK
<1> QED BY <1>1, ExceptSeq DEF SetLast

LEMMA InitInv == Init => Inv
<1> SUFFICES ASSUME Init PROVE Inv
  OBVIOUS
<1>1. program \in Seq(Token) /\ 1 \in 1..(Len(program) + 1)
  BY ProgramsAssumption DEF Init
<1>2. [ones |-> {}, len |-> 0] \in Bytes
  BY DEF Bytes
<1> QED BY <1>1, <1>2 DEF Init, Inv, TypeOK, CursorWithinData, Bytes, Orders

LEMMA WriteInv ==
  ASSUME Inv,
         \/ WriteField \/ WriteFrame \/ WriteFrameEnd
         \/ WriteGroup \/ WriteGroupEnd \/ FinishEncode
  PROVE  Inv'
<1> USE DEF Inv
<1>1. /\ phase = "encode" /\ idx = 0 /\ data \in Bytes
      /\ bufs \in Seq(Bytes) /\ Len(bufs) \in Nat \ {0} /\ Last(bufs) \in Bytes
  BY FrontType, EmptySeq
     DEF TypeOK, WriteField, WriteFrame, WriteFrameEnd, WriteGroup, WriteGroupEnd,
         FinishEncode, Writing
<1>2. ASSUME Refuse PROVE Inv'
  BY <1>1, <1>2 DEF Refuse, TypeOK, CursorWithinData
<1>3. ASSUME More PROVE Aligned(Last(bufs), Tok) \in Bytes /\ Tok \in Token
  BY <1>1, <1>3, TokType, AlignedType
<1>4. ASSUME More, EncodeStep, bufs' \in Seq(Bytes), bufs' # <<>>,
             written' \in Seq(SUBSET Nat), order' \in Orders \union {"none"}
      PROVE  Inv'
  BY <1>1, <1>4, TokType DEF EncodeStep, TypeOK, CursorWithinData
<1>5. ASSUME More PROVE Noted(Tok) \in Orders \union {"none"}
  BY <1>3, <1>5 DEF Noted, TypeOK, Token
<1>6. CASE WriteField
  <2> DEFINE buf == Aligned(Last(bufs), Tok)
  <2>1. More
    BY <1>6 DEF WriteField, Writing
  <2>2. buf \in Bytes /\ Tok \in Token
    BY <2>1, <1>3
  <2>3. CASE ~ChangeAllowed(Tok, buf.len)
    BY <1>2, <1>6, <2>3 DEF WriteField
  <2>4. CASE ChangeAllowed(Tok, buf.len)
    <3>1. PICK p \in Patterns :
            LET v == p \intersect 0..(Tok.width - 1) IN
            /\ bufs' = SetLast(WriteBits(buf, FieldStream(v, Tok), Tok.width, Tok.bitOrder))
            /\ written' = Append(written, Number(v, Tok.width, Tok.kind))
            /\ order' = Noted(Tok)
            /\ EncodeStep
      BY <1>6, <2>4 DEF WriteField
    <3> DEFINE v == p \intersect 0..(Tok.width - 1)
               new == WriteBits(buf, FieldStream(v, Tok), Tok.width, Tok.bitOrder)
               num == Number(v, Tok.width, Tok.kind)
    <3>2. Tok.width \in Nat /\ Tok.bitOrder \in Orders /\ v \in SUBSET Nat
      BY <2>2 DEF Token
    <3>3. new \in Bytes
      BY <2>2, <3>2, FieldStreamType, WriteBitsType
    <3>4. num \in SUBSET Nat
      BY <3>2, NumberType
    <3> HIDE DEF new, num, v
    <3>5. SetLast(new) \in Seq(Bytes) /\ SetLast(new) # <<>>
      BY <1>1, <3>3, SetLastType, EmptySeq
    <3>6. Append(written, num) \in Seq(SUBSET Nat)
      BY <3>4 DEF TypeOK
    <3>7. bufs' = SetLast(new) /\ written' = Append(written, num) /\ order' = Noted(Tok)
          /\ EncodeStep
      BY <3>1 DEF new, num, v
    <3> QED BY <1>4, <1>5, <2>1, <3>5, <3>6, <3>7
  <2> QED BY <2>3, <2>4
<1>7. CASE WriteFrame
  <2>1. More /\ EncodeStep /\ UNCHANGED <<written, order>>
    BY <1>7 DEF WriteFrame, Writing
  <2>2. SetLast(Aligned(Last(bufs), Tok)) \in Seq(Bytes)
    BY <1>1, <1>3, <2>1, SetLastType
  <2>3. [ones |-> {}, len |-> 0] \in Bytes
    BY DEF Bytes
  <2>4. bufs' \in Seq(Bytes) /\ bufs' # <<>>
    BY <1>7, <2>2, <2>3, AppendProperties DEF WriteFrame
  <2> QED BY <1>4, <2>1, <2>4 DEF TypeOK
<1>8. CASE WriteFrameEnd
  <2>1. More /\ EncodeStep /\ UNCHANGED <<written, order>> /\ Len(bufs) > 1
    BY <1>8 DEF WriteFrameEnd, Writing
  <2>2. Front(bufs) \in Seq(Bytes) /\ Len(Front(bufs)) = Len(bufs) - 1
    BY <1>1, FrontType, EmptySeq
  <2> DEFINE outer == Front(bufs)[Len(bufs) - 1]
             new == WithPayload(outer, Last(bufs), Tok)
  <2>3. outer \in Bytes
    BY <1>1, <2>1, <2>2
  <2>4. new \in Bytes
    BY <1>1, <1>3, <2>1, <2>3, WithPayloadType
  <2>5. bufs' = [Front(bufs) EXCEPT ![Len(bufs) - 1] = new]
    BY <1>8 DEF WriteFrameEnd
  <2> HIDE DEF new, outer
  <2>6. bufs' \in Seq(Bytes) /\ Len(bufs') = Len(bufs) - 1
    <3>1. Len(bufs) - 1 \in 1..Len(Front(bufs))
      BY <1>1, <2>1, <2>2
    <3> QED BY <2>2, <2>4, <2>5, <3>1, ExceptSeq
  <2>7. bufs' # <<>>
    BY <1>1, <2>1, <2>6, EmptySeq
  <2> QED BY <1>4, <2>1, <2>6, <2>7 DEF TypeOK
<1>9. CASE WriteGroup
  <2> DEFINE buf == Aligned(Last(bufs), Tok)
  <2>1. More
    BY <1>9 DEF WriteGroup, Writing
  <2>2. CASE ~ChangeAllowed(Tok, buf.len)
    BY <1>2, <1>9, <2>2 DEF WriteGroup
  <2>3. CASE ChangeAllowed(Tok, buf.len)
    <3>1. SetLast(buf) \in Seq(Bytes) /\ SetLast(buf) # <<>>
      BY <1>1, <1>3, <2>1, SetLastType, EmptySeq
    <3> QED BY <1>4, <1>9, <2>1, <2>3, <3>1 DEF WriteGroup, TypeOK
  <2> QED BY <2>2, <2>3
<1>10. CASE WriteGroupEnd
  <2>1. More /\ EncodeStep /\ UNCHANGED <<bufs, written>> /\ order' = Noted(Tok)
    BY <1>10 DEF WriteGroupEnd, Writing
  <2> QED BY <1>1, <1>4, <1>5, <2>1 DEF TypeOK
<1>11. CASE FinishEncode
  BY <1>1, <1>11 DEF FinishEncode, TypeOK, CursorWithinData
<1> QED BY <1>6, <1>7, <1>8, <1>9, <1>10, <1>11

LEMMA ReceiveInv ==
  ASSUME Inv, Receive \/ ReceiveForeign
  PROVE  Inv'
<1>1. PICK ones, n, frame :
        /\ ones \in SUBSET (Nat \X (0..7)) /\ n \in Nat /\ frame \in Seq(Nat)
        /\ Start(ones, n, frame)
        /\ idx = 0
  <2>1. CASE Receive
    <3>1. bufs[1] \in Bytes
      BY EmptySeq DEF Inv, TypeOK
    <3>2. bufs[1].ones \in SUBSET (Nat \X (0..7)) /\ bufs[1].len \in Nat
      BY <3>1 DEF Bytes
    <3>3. CeilBytes(bufs[1].len) \in Nat
      BY <3>2 DEF CeilBytes
    <3>4. 0..(Sent + Extra) \subseteq Nat
      BY <3>3, InputAssumption DEF Sent
    <3>5. <<>> \in Seq(Nat) /\ <<bufs[1].len>> \in Seq(Nat)
      BY <3>2
    <3>6. PICK n \in 0..(Sent + Extra), frame \in {<<>>, <<bufs[1].len>>} :
            Start(bufs[1].ones, n, frame)
      BY <2>1 DEF Receive
    <3>7. n \in Nat /\ frame \in Seq(Nat)
      BY <3>4, <3>5
    <3> QED BY <2>1, <3>2, <3>6, <3>7 DEF Receive, Inv
  <2>2. CASE ReceiveForeign
    <3>1. PICK n \in 0..MaxBytes : Start({}, n, <<>>)
      BY <2>2 DEF ReceiveForeign
    <3>2. n \in Nat /\ <<>> \in Seq(Nat)
      BY InputAssumption
    <3> QED BY <2>2, <3>1, <3>2 DEF ReceiveForeign, Inv
  <2> QED BY <2>1, <2>2
<1>2. [ones |-> {x \in ones : x[1] < n}, len |-> n] \in Bytes
  BY <1>1 DEF Bytes
<1>3. 1 \in 1..(Len(program) + 1)
  BY DEF Inv, TypeOK
<1>4. TypeOK'
  BY <1>1, <1>2, <1>3 DEF Inv, TypeOK, Start
<1>5. CursorWithinData'
  BY <1>1 DEF Start, CursorWithinData
<1> QED BY <1>1, <1>4, <1>5 DEF Inv, Start

(* An element that starts after bits that can be read starts in the data.  *)
LEMMA StartWithinData ==
  ASSUME NEW t \in Token, Inv, Readable(idx, Skip(idx, t.align))
  PROVE  /\ FramedStart(t, idx) \in Nat
         /\ FramedStart(t, idx) <= 8 * data.len
<1>1. idx \in Nat /\ data.len \in Nat /\ idx <= 8 * data.len
  BY DEF Inv, TypeOK, CursorWithinData, Bytes
<1>2. Skip(idx, t.align) \in Nat
  BY <1>1, SkipType DEF Token
<1>3. idx + Skip(idx, t.align) <= 8 * data.len
  BY <1>1, <1>2 DEF Readable, InData
<1>4. FramedStart(t, idx) \in Nat /\ FramedStart(t, idx) <= idx + Skip(idx, t.align)
  BY <1>1, FramedStartBound
<1> QED BY <1>1, <1>2, <1>3, <1>4

LEMMA ReadInv ==
  ASSUME Inv,
         \/ ReadField \/ ReadFrame \/ ReadFrameEnd
         \/ ReadGroup \/ ReadGroupEnd \/ FinishDecode
  PROVE  Inv'
<1>1. phase = "decode" /\ idx \in Nat /\ data \in Bytes /\ data.len \in Nat
  BY DEF Inv, TypeOK, Bytes, ReadField, ReadFrame, ReadFrameEnd, ReadGroup,
         ReadGroupEnd, FinishDecode, Reading
<1>2. ASSUME Reject PROVE Inv'
  BY <1>1, <1>2 DEF Reject, Inv, TypeOK, CursorWithinData
<1>3. ASSUME More, DecodeStep, idx' \in Nat, idx' <= 8 * data.len,
             order' \in Orders \union {"none"}, limits' \in Seq(Nat),
             values' \in Seq(SUBSET Nat)
      PROVE  Inv'
  <2>1. TypeOK'
    BY <1>3, TokType DEF DecodeStep, Inv, TypeOK
  <2> QED BY <1>1, <1>3, <2>1 DEF DecodeStep, Inv, CursorWithinData
<1>4. ASSUME More PROVE /\ Tok \in Token /\ Tok.width \in Nat
                        /\ Noted(Tok) \in Orders \union {"none"}
  BY <1>4, TokType DEF Inv, TypeOK, Noted, Token
<1>5. CASE ReadField
  <2> DEFINE i == FramedStart(Tok, idx)
             ok == /\ Readable(idx, Skip(idx, Tok.align))
                   /\ ChangeAllowed(Tok, i)
                   /\ FieldReadable(Tok, i)
  <2>1. More
    BY <1>5 DEF ReadField, Reading
  <2>2. CASE ~ok
    BY <1>2, <1>5, <2>2 DEF ReadField
  <2>3. CASE ok
    <3>1. i \in Nat /\ i <= 8 * data.len
      BY <1>4, <2>1, <2>3, StartWithinData
    <3>2. i + Tok.width \in Nat /\ i + Tok.width <= 8 * data.len
      BY <1>1, <1>4, <2>1, <2>3, <3>1 DEF FieldReadable, InData
    <3>3. FieldValue(Tok, i) \in SUBSET Nat
      BY <1>1, <1>4, <2>1, <3>1, FieldValueType
    <3>4. Append(values, FieldValue(Tok, i)) \in Seq(SUBSET Nat)
      BY <3>3 DEF Inv, TypeOK
    <3>5. /\ idx' = i + Tok.width /\ values' = Append(values, FieldValue(Tok, i))
          /\ order' = Noted(Tok) /\ limits' = limits /\ DecodeStep
      BY <1>5, <2>3 DEF ReadField
    <3>6. limits \in Seq(Nat)
      BY DEF Inv, TypeOK
    <3> HIDE DEF i, ok
    <3> QED BY <1>3, <1>4, <2>1, <3>2, <3>4, <3>5, <3>6
  <2> QED BY <2>2, <2>3
<1>6. CASE ReadFrame
  <2>1. More
    BY <1>6 DEF ReadFrame, Reading
  <2>2. CASE ~Readable(idx, Skip(idx, Tok.align))
    BY <1>2, <1>6, <2>2 DEF ReadFrame
  <2>3. CASE Readable(idx, Skip(idx, Tok.align))
    <3> DEFINE i == FramedStart(Tok, idx)
    <3>1. i \in Nat /\ i <= 8 * data.len /\ i + Tok.width \in Nat
      BY <1>4, <2>1, <2>3, StartWithinData
    <3>2. /\ idx' = i /\ limits' = Append(limits, i + Tok.width) /\ order' = "none"
          /\ values' = values /\ DecodeStep
      BY <1>6, <2>3 DEF ReadFrame
    <3>3. limits' \in Seq(Nat)
      BY <3>1, <3>2 DEF Inv, TypeOK
    <3> QED BY <1>3, <2>1, <3>1, <3>2, <3>3 DEF Inv, TypeOK
  <2> QED BY <2>2, <2>3
<1>7. CASE ReadFrameEnd
  <2> DEFINE n == IF Last(limits) > idx THEN Last(limits) - idx ELSE 0
             ok == Readable(idx, n) /\ (Tok.exact => n = 0)
  <2>1. More /\ limits \in Seq(Nat) /\ limits # <<>>
    BY <1>7 DEF ReadFrameEnd, Reading, Inv, TypeOK
  <2>2. CASE ~ok
    BY <1>2, <1>7, <2>2 DEF ReadFrameEnd
  <2>3. CASE ok
    <3>1. Last(limits) \in Nat /\ Front(limits) \in Seq(Nat)
      BY <2>1, FrontType
    <3>2. n \in Nat
      BY <1>1, <3>1
    <3>3. idx + n <= 8 * data.len
      BY <1>1, <2>3, <3>2 DEF Readable, InData, Inv, CursorWithinData
    <3>4. /\ idx' = idx + n /\ limits' = Front(limits) /\ order' = "none"
          /\ values' = values /\ DecodeStep
      BY <1>7, <2>3 DEF ReadFrameEnd
    <3> HIDE DEF n, ok
    <3> QED BY <1>1, <1>3, <2>1, <3>1, <3>2, <3>3, <3>4 DEF Inv, TypeOK
  <2> QED BY <2>2, <2>3
<1>8. CASE ReadGroup
  <2>1. More
    BY <1>8 DEF ReadGroup, Reading
  <2>2. CASE ~Readable(idx, Skip(idx, Tok.align))
    BY <1>2, <1>8, <2>2 DEF ReadGroup
  <2>3. CASE Readable(idx, Skip(idx, Tok.align))
    <3>1. FramedStart(Tok, idx) \in Nat /\ FramedStart(Tok, idx) <= 8 * data.len
      BY <1>4, <2>1, <2>3, StartWithinData
    <3>2. /\ idx' = FramedStart(Tok, idx) /\ order' = "none"
          /\ UNCHANGED <<limits, values>> /\ DecodeStep
      BY <1>8, <2>3 DEF ReadGroup
    <3> QED BY <1>3, <2>1, <3>1, <3>2 DEF Inv, TypeOK
  <2> QED BY <2>2, <2>3
<1>9. CASE ReadGroupEnd
  <2>1. More /\ DecodeStep /\ order' = "none" /\ UNCHANGED <<idx, limits, values>>
    BY <1>9 DEF ReadGroupEnd, Reading
  <2> QED BY <1>1, <1>3, <2>1 DEF Inv, TypeOK, CursorWithinData
<1>10. CASE FinishDecode
  BY <1>1, <1>10 DEF FinishDecode, Inv, TypeOK, CursorWithinData
<1> QED BY <1>5, <1>6, <1>7, <1>8, <1>9, <1>10

LEMMA Invariance == Spec => []Inv
<1>1. Init => Inv
  BY InitInv
<1>2. Inv /\ [Next]_vars => Inv'
  <2> SUFFICES ASSUME Inv, [Next]_vars PROVE Inv'
    OBVIOUS
  <2>1. CASE UNCHANGED vars
    BY <2>1 DEF vars, Inv, TypeOK, CursorWithinData
  <2> QED BY <2>1, WriteInv, ReceiveInv, ReadInv DEF Next
<1> QED BY <1>1, <1>2, PTL DEF Spec

(* The buffers, the cursor, the limits and the values have their types in  *)
(* every state, for every program and every message.                       *)
THEOREM TypesCorrect == Spec => []TypeOK
BY Invariance, PTL DEF Inv

(* No read path, aligned or not, framed or not, leaves the input, for      *)
(* every program, every cut of the encoder's message and every message     *)
(* from elsewhere.                                                         *)
THEOREM CursorCorrect == Spec => []CursorWithinData
BY Invariance, PTL DEF Inv

----------------------------------------------------------------------------
(* A little-endian field of any width.  Place(b, w, o) is where bit b of   *)
(* the number ends up in the bytes of the field: the bytes are in the      *)
(* order of the bits, and the fragment of the last byte is moved to its    *)
(* more significant end when that end comes first.                         *)

Fragment(b, w, o) == w % 8 # 0 /\ o = "msbf" /\ b \div 8 = CeilBytes(w) - 1

Place(b, w, o) ==
  <<b \div 8, (b % 8) + (IF Fragment(b, w, o) THEN 8 - (w % 8) ELSE 0)>>

(* Byte and bit of a bit of the number.                                    *)
LEMMA WidthFacts ==
  ASSUME NEW w \in Nat, NEW b \in 0..(w - 1)
  PROVE  /\ CeilBytes(w) \in Nat \ {0}
         /\ b \div 8 \in 0..(CeilBytes(w) - 1) /\ b % 8 \in 0..7
         /\ b = 8 * (b \div 8) + (b % 8)
         /\ w % 8 \in 0..7
         /\ w % 8 # 0 => w = 8 * (CeilBytes(w) - 1) + (w % 8)
         /\ w <= 8 => CeilBytes(w) = 1
         /\ (w % 8 # 0 /\ b \div 8 = CeilBytes(w) - 1) => b % 8 < w % 8
BY DEF CeilBytes

LEMMA PlaceType ==
  ASSUME NEW w \in Nat, NEW b \in 0..(w - 1), NEW o \in Orders
  PROVE  Place(b, w, o) \in Nat \X (0..7)
BY WidthFacts DEF Place, Fragment

LEMMA PlaceInjective ==
  ASSUME NEW w \in Nat, NEW b \in 0..(w - 1), NEW c \in 0..(w - 1), NEW o \in Orders,
         Place(b, w, o) = Place(c, w, o)
  PROVE  b = c
BY WidthFacts DEF Place, Fragment

(* Places of the w bits are where the w first bits of a stream go.         *)
LEMMA PlaceInStream ==
  ASSUME NEW w \in Nat, NEW b \in 0..(w - 1), NEW o \in Orders
  PROVE  \E k \in 0..(w - 1) : Place(b, w, o) = <<k \div 8, BitAt(k, o)>>
<1> DEFINE q == b \div 8
           r == b % 8
           n == CeilBytes(w)
           f == w % 8
<1>1. /\ n \in Nat \ {0} /\ q \in 0..(n - 1) /\ r \in 0..7 /\ b = 8 * q + r
      /\ f \in 0..7 /\ (f # 0 => w = 8 * (n - 1) + f)
      /\ (f # 0 /\ q = n - 1) => r < f
  BY WidthFacts
<1>2. w <= 8 * n /\ (f = 0 => w = 8 * n)
  BY DEF CeilBytes
<1>3. CASE o = "lsbf"
  <2>1. Place(b, w, o) = <<b \div 8, BitAt(b, o)>>
    BY <1>3 DEF Place, Fragment, BitAt
  <2> QED BY <2>1
<1>4. CASE o = "msbf" /\ f # 0 /\ q = n - 1
  <2> DEFINE k == 8 * q + (f - 1 - r)
  <2> HIDE DEF q, r, n, f
  <2>1. k \in 0..(w - 1) /\ k \div 8 = q /\ k % 8 = f - 1 - r
    BY <1>1, <1>4
  <2>2. 7 - (k % 8) = r + (8 - f)
    BY <2>1, <1>1
  <2>3. Place(b, w, o) = <<q, r + (8 - f)>>
    BY <1>4 DEF Place, Fragment, q, r, n, f
  <2>4. BitAt(k, o) = 7 - (k % 8)
    BY <1>4 DEF BitAt
  <2> QED BY <2>1, <2>2, <2>3, <2>4
<1>5. CASE o = "msbf" /\ ~(f # 0 /\ q = n - 1)
  <2> DEFINE k == 8 * q + (7 - r)
  <2> HIDE DEF q, r, n, f
  <2>1. k \in 0..(w - 1) /\ k \div 8 = q /\ k % 8 = 7 - r
    BY <1>1, <1>2, <1>5
  <2>2. 7 - (k % 8) = r
    BY <2>1, <1>1
  <2>3. Place(b, w, o) = <<q, r + 0>>
    BY <1>5 DEF Place, Fragment, q, r, n, f
  <2>4. BitAt(k, o) = 7 - (k % 8)
    BY <1>5 DEF BitAt
  <2> QED BY <1>1, <2>1, <2>2, <2>3, <2>4
<1> QED BY <1>3, <1>4, <1>5 DEF Orders

(* The bits of a field narrower than a byte are in the order of the stream.*)
LEMMA NarrowPlaces ==
  ASSUME NEW w \in Nat, w < 8, NEW k \in 0..(w - 1), NEW b \in 0..(w - 1), NEW o \in Orders
  PROVE  (<<k \div 8, BitAt(k, o)>> = Place(b, w, o))
         <=> (b = IF o = "msbf" THEN w - 1 - k ELSE k)
<1>1. /\ b \div 8 = 0 /\ b % 8 = b /\ k \div 8 = 0 /\ k % 8 = k
      /\ w % 8 = w /\ w # 0 /\ CeilBytes(w) = 1
  BY DEF CeilBytes
<1>2. CASE o = "msbf"
  <2>1. Place(b, w, o) = <<0, b + (8 - w)>>
    BY <1>1, <1>2 DEF Place, Fragment
  <2>2. BitAt(k, o) = 7 - k
    BY <1>1, <1>2 DEF BitAt
  <2> QED BY <1>1, <1>2, <2>1, <2>2
<1>3. CASE o # "msbf"
  <2>1. Place(b, w, o) = <<0, b + 0>>
    BY <1>1, <1>3 DEF Place, Fragment
  <2>2. BitAt(k, o) = k
    BY <1>1, <1>3 DEF BitAt
  <2> QED BY <1>1, <1>3, <2>1, <2>2
<1> QED BY <1>2, <1>3

(* Different bits of a stream go to different places.                      *)
LEMMA StreamPlaceInjective ==
  ASSUME NEW i \in Nat, NEW j \in Nat, NEW o \in Orders,
         i \div 8 = j \div 8, BitAt(i, o) = BitAt(j, o)
  PROVE  i = j
BY DEF BitAt, Orders

(* encode_packed_bit_field_bytes puts every bit at its place.              *)
LEMMA EncodedPlaces ==
  ASSUME NEW w \in Nat, NEW v \in SUBSET (0..(w - 1)), NEW o \in Orders
  PROVE  EncodePacked(v, w, o) = {Place(b, w, o) : b \in v}
<1> DEFINE n   == CeilBytes(w)
           f   == w % 8
           be  == {<<n - 1 - (b \div 8), b % 8>> : b \in v}
           big(b) == <<n - 1 - (b \div 8), Place(b, w, o)[2]>>
           cut == IF f # 0 /\ o = "msbf" THEN FirstShiftedLeft(be, 8 - f) ELSE be
<1>1. \A b \in v : /\ n \in Nat \ {0} /\ b \div 8 \in 0..(n - 1) /\ b % 8 \in 0..7
                   /\ f \in 0..7 /\ (w <= 8 => n = 1)
                   /\ (f # 0 /\ b \div 8 = n - 1) => b % 8 < f
  BY WidthFacts
<1>2. cut = {big(b) : b \in v}
  <2>1. CASE ~(f # 0 /\ o = "msbf")
    <3>1. \A b \in v : big(b) = <<n - 1 - (b \div 8), b % 8>>
      BY <1>1, <2>1 DEF Place, Fragment
    <3> QED BY <2>1, <3>1
  <2>2. CASE f # 0 /\ o = "msbf"
    <3>1. \A b \in v : big(b) = IF b \div 8 = n - 1 THEN <<0, (b % 8) + (8 - f)>>
                                ELSE <<n - 1 - (b \div 8), b % 8>>
      BY <1>1, <2>2 DEF Place, Fragment
    <3>2. cut = {x \in be : x[1] # 0} \union
                {<<0, s + (8 - f)>> : s \in {t \in 0..(7 - (8 - f)) : <<0, t>> \in be}}
      BY <2>2 DEF FirstShiftedLeft
    <3>3. ASSUME NEW b \in v PROVE big(b) \in cut
      <4>0. <<n - 1 - (b \div 8), b % 8>> \in be
        OBVIOUS
      <4>1. CASE b \div 8 = n - 1
        <5>1. <<0, b % 8>> \in be /\ b % 8 \in 0..(7 - (8 - f))
          BY <1>1, <2>2, <4>0, <4>1
        <5> HIDE DEF be, big, n, f
        <5> QED BY <3>1, <3>2, <4>1, <5>1
      <4>2. CASE b \div 8 # n - 1
        <5>1. n - 1 - (b \div 8) # 0
          BY <1>1, <4>2
        <5> HIDE DEF be, big, n, f
        <5> QED BY <3>1, <3>2, <4>0, <4>2, <5>1
      <4> QED BY <4>1, <4>2
    <3>4. ASSUME NEW x \in cut PROVE \E b \in v : x = big(b)
      <4>1. CASE x \in be /\ x[1] # 0
        <5>1. PICK b \in v : x = <<n - 1 - (b \div 8), b % 8>>
          BY <4>1
        <5>2. b \div 8 # n - 1
          BY <1>1, <4>1, <5>1
        <5> QED BY <3>1, <5>1, <5>2
      <4>2. CASE ~(x \in be /\ x[1] # 0)
        <5>1. PICK s \in 0..(7 - (8 - f)) : <<0, s>> \in be /\ x = <<0, s + (8 - f)>>
          <6> HIDE DEF be, n, f
          <6> QED BY <3>2, <3>4, <4>2
        <5>2. PICK b \in v : <<0, s>> = <<n - 1 - (b \div 8), b % 8>>
          BY <5>1
        <5>3. b \div 8 = n - 1 /\ b % 8 = s
          BY <1>1, <5>2
        <5> QED BY <3>1, <5>1, <5>3
      <4> QED BY <4>1, <4>2
    <3> HIDE DEF cut, big
    <3> QED BY <3>3, <3>4
  <2> QED BY <2>1, <2>2
<1>3. \A b \in v : n - 1 - (n - 1 - (b \div 8)) = b \div 8
  BY <1>1
<1>4. CASE w > 8
  <2>1. EncodePacked(v, w, o) = Reversed(cut, n)
    BY <1>4 DEF EncodePacked
  <2>2. Reversed(cut, n) = {<<n - 1 - big(b)[1], big(b)[2]>> : b \in v}
    <3> HIDE DEF cut, big, n
    <3> QED BY <1>2 DEF Reversed
  <2>3. \A b \in v : <<n - 1 - big(b)[1], big(b)[2]>> = Place(b, w, o)
    BY <1>3 DEF Place
  <2> HIDE DEF cut, big, n
  <2> QED BY <2>1, <2>2, <2>3
<1>5. CASE ~(w > 8)
  <2>1. EncodePacked(v, w, o) = cut
    BY <1>5 DEF EncodePacked
  <2>2. \A b \in v : big(b) = Place(b, w, o)
    BY <1>1, <1>5 DEF Place
  <2> QED BY <1>2, <2>1, <2>2
<1> QED BY <1>4, <1>5

(* decode_packed_bit_field_u64 looks for every bit at its place.           *)
LEMMA DecodedPlaces ==
  ASSUME NEW w \in Nat, NEW ones \in SUBSET (Nat \X (0..7)), NEW o \in Orders
  PROVE  DecodePacked(ones, w, o) = {b \in 0..(w - 1) : Place(b, w, o) \in ones}
<1> DEFINE n   == CeilBytes(w)
           f   == w % 8
           be  == IF w > 8 THEN Reversed(ones, n) ELSE ones
           cut == IF f # 0 /\ o = "msbf" THEN FirstShiftedRight(be, 8 - f) ELSE be
<1> SUFFICES ASSUME NEW b \in 0..(w - 1)
             PROVE  (<<n - 1 - (b \div 8), b % 8>> \in cut) <=> (Place(b, w, o) \in ones)
  BY DEF DecodePacked
<1> DEFINE q == b \div 8
           r == b % 8
           s == Place(b, w, o)[2]
<1>1. /\ n \in Nat \ {0} /\ q \in 0..(n - 1) /\ r \in 0..7 /\ f \in 0..7
      /\ (w <= 8 => n = 1)
      /\ (f # 0 /\ q = n - 1) => r < f
  BY WidthFacts
<1>2. Place(b, w, o) = <<q, s>> /\ s \in 0..7
  BY PlaceType DEF Place
<1>3. (<<n - 1 - q, s>> \in be) <=> (<<q, s>> \in ones)
  <2>1. CASE w > 8
    <3>1. be = {<<n - 1 - x[1], x[2]>> : x \in ones}
      BY <2>1 DEF Reversed
    <3>2. ASSUME <<q, s>> \in ones PROVE <<n - 1 - q, s>> \in be
      BY <3>1, <3>2
    <3>3. ASSUME <<n - 1 - q, s>> \in be PROVE <<q, s>> \in ones
      <4>1. PICK x \in ones : <<n - 1 - q, s>> = <<n - 1 - x[1], x[2]>>
        BY <3>1, <3>3
      <4>2. x = <<x[1], x[2]>> /\ x[1] \in Nat
        OBVIOUS
      <4> HIDE DEF q, s, n
      <4>3. x[1] = q /\ x[2] = s
        BY <1>1, <4>1, <4>2
      <4> QED BY <4>2, <4>3
    <3> QED BY <3>2, <3>3
  <2>2. CASE ~(w > 8)
    <3>1. be = ones /\ n - 1 - q = q
      BY <1>1, <2>2
    <3> QED BY <3>1
  <2> QED BY <2>1, <2>2
<1>4. (<<n - 1 - q, r>> \in cut) <=> (<<n - 1 - q, s>> \in be)
  <2>1. CASE ~(f # 0 /\ o = "msbf")
    <3>1. s = r
      BY <1>1, <2>1 DEF Place, Fragment
    <3>2. cut = be
      BY <2>1
    <3> HIDE DEF cut, be, n, q, r, s, f
    <3> QED BY <3>1, <3>2
  <2>2. CASE f # 0 /\ o = "msbf" /\ q # n - 1
    <3>1. s = r /\ n - 1 - q # 0
      BY <1>1, <2>2 DEF Place, Fragment
    <3>2. cut = {x \in be : x[1] # 0} \union
                {<<0, t - (8 - f)>> : t \in {u \in (8 - f)..7 : <<0, u>> \in be}}
      BY <2>2 DEF FirstShiftedRight
    <3> HIDE DEF cut, be, n, q, r, s, f
    <3> QED BY <3>1, <3>2
  <2>3. CASE f # 0 /\ o = "msbf" /\ q = n - 1
    <3>1. s = r + (8 - f) /\ n - 1 - q = 0 /\ s \in (8 - f)..7 /\ r = s - (8 - f)
      BY <1>1, <2>3 DEF Place, Fragment
    <3>2. cut = {x \in be : x[1] # 0} \union
                {<<0, t - (8 - f)>> : t \in {u \in (8 - f)..7 : <<0, u>> \in be}}
      BY <2>3 DEF FirstShiftedRight
    <3> HIDE DEF cut, be, n, q, r, s
    <3>3. ASSUME <<0, s>> \in be PROVE <<0, r>> \in cut
      BY <3>1, <3>2, <3>3
    <3>4. ASSUME <<0, r>> \in cut PROVE <<0, s>> \in be
      <4>1. PICK t \in (8 - f)..7 : <<0, t>> \in be /\ <<0, r>> = <<0, t - (8 - f)>>
        BY <3>2, <3>4
      <4>2. t = s
        BY <1>1, <3>1, <4>1
      <4> QED BY <4>1, <4>2
    <3> QED BY <3>1, <3>3, <3>4
  <2> QED BY <2>1, <2>2, <2>3
<1> QED BY <1>2, <1>3, <1>4

(* The stream of a packed number holds its bits at their places, and       *)
(* nothing else: reading it into bytes gives the packed bytes back.        *)
LEMMA PackedThroughStream ==
  ASSUME NEW w \in Nat, NEW v \in SUBSET (0..(w - 1)), NEW o \in Orders
  PROVE  BytesOf(StreamOf(EncodePacked(v, w, o), 0, w, o), o) = EncodePacked(v, w, o)
<1> DEFINE ones   == EncodePacked(v, w, o)
           stream == StreamOf(ones, 0, w, o)
<1>1. \A k \in 0..(w - 1) : 0 + k = k
  OBVIOUS
<1>2. stream = {k \in 0..(w - 1) : <<k \div 8, BitAt(k, o)>> \in ones}
  BY <1>1 DEF StreamOf
<1>3. ASSUME NEW x \in ones
      PROVE  \E k \in 0..(w - 1) : x = <<k \div 8, BitAt(k, o)>>
  <2>1. ones = {Place(b, w, o) : b \in v}
    BY EncodedPlaces
  <2> HIDE DEF ones
  <2>2. PICK b \in v : x = Place(b, w, o)
    BY <2>1
  <2>3. b \in 0..(w - 1)
    OBVIOUS
  <2>4. PICK k \in 0..(w - 1) : Place(b, w, o) = <<k \div 8, BitAt(k, o)>>
    BY <2>3, PlaceInStream
  <2> QED BY <2>2, <2>4
<1> HIDE DEF ones, stream
<1>4. BytesOf(stream, o) = {<<k \div 8, BitAt(k, o)>> : k \in stream}
  BY DEF BytesOf
<1>5. BytesOf(stream, o) = ones
  <2>1. ASSUME NEW x \in ones PROVE x \in BytesOf(stream, o)
    <3>1. PICK k \in 0..(w - 1) : x = <<k \div 8, BitAt(k, o)>>
      BY <1>3
    <3>2. k \in stream
      BY <1>2, <3>1
    <3> QED BY <1>4, <3>1, <3>2
  <2>2. ASSUME NEW x \in BytesOf(stream, o) PROVE x \in ones
    BY <1>2, <1>4
  <2> QED BY <2>1, <2>2
<1> QED BY <1>5 DEF ones, stream

(* What one half of the codec packs the other unpacks: for every width,    *)
(* bit order and value of a little-endian field.                           *)
THEOREM PackedRoundTrip ==
  ASSUME NEW w \in Nat, NEW v \in SUBSET (0..(w - 1)), NEW o \in Orders
  PROVE  DecodePacked(EncodePacked(v, w, o), w, o) = v
<1>1. EncodePacked(v, w, o) = {Place(b, w, o) : b \in v}
  BY EncodedPlaces
<1>2. EncodePacked(v, w, o) \in SUBSET (Nat \X (0..7))
  BY <1>1, PlaceType
<1>3. DecodePacked(EncodePacked(v, w, o), w, o)
        = {b \in 0..(w - 1) : Place(b, w, o) \in EncodePacked(v, w, o)}
  BY <1>2, DecodedPlaces
<1>4. \A b \in 0..(w - 1) : Place(b, w, o) \in {Place(c, w, o) : c \in v} <=> b \in v
  BY PlaceInjective
<1> QED BY <1>1, <1>3, <1>4

(* The bits of a field are still to be written: none of its places is set. *)
Free(buf, n, o) ==
  \A k \in 0..(n - 1) :
    <<(buf.len + k) \div 8, BitAt(buf.len + k, o)>> \notin buf.ones

(* What is written after a buffer is read back from there, whatever the    *)
(* place in its byte and the bit order.                                    *)
LEMMA StreamWritten ==
  ASSUME NEW buf \in Bytes, NEW n \in Nat, NEW o \in Orders,
         NEW stream \in SUBSET (0..(n - 1)), Free(buf, n, o)
  PROVE  StreamOf(WriteBits(buf, stream, n, o).ones, buf.len, n, o) = stream
<1> DEFINE place(k) == <<(buf.len + k) \div 8, BitAt(buf.len + k, o)>>
           after == buf.ones \union {place(k) : k \in stream}
<1>1. WriteBits(buf, stream, n, o).ones = after
  BY DEF WriteBits
<1>2. StreamOf(after, buf.len, n, o) = {k \in 0..(n - 1) : place(k) \in after}
  BY DEF StreamOf
<1>3. ASSUME NEW j \in 0..(n - 1), NEW k \in 0..(n - 1), place(j) = place(k) PROVE j = k
  <2>1. buf.len + j \in Nat /\ buf.len + k \in Nat
    BY DEF Bytes
  <2>2. buf.len + j = buf.len + k
    BY <1>3, <2>1, StreamPlaceInjective
  <2> QED BY <2>2 DEF Bytes
<1>4. \A k \in 0..(n - 1) : place(k) \notin buf.ones
  BY DEF Free
<1> HIDE DEF place
<1>5. \A k \in 0..(n - 1) : place(k) \in after <=> k \in stream
  BY <1>3, <1>4
<1> QED BY <1>1, <1>2, <1>5

(* The stream of a field has its width.                                    *)
LEMMA FieldStreamWidth ==
  ASSUME NEW t \in Token, NEW v \in SUBSET (0..(t.width - 1))
  PROVE  FieldStream(v, t) \in SUBSET (0..(t.width - 1))
<1>1. t.width \in Nat
  BY DEF Token
<1>2. CASE t.byteOrder = "le"
  BY <1>1, <1>2, StreamOfType DEF FieldStream
<1>3. CASE t.byteOrder # "le"
  BY <1>1, <1>3 DEF FieldStream
<1> QED BY <1>2, <1>3

(* The decoder takes the bits of a field for its value.                    *)
LEMMA FieldReadBack ==
  ASSUME NEW t \in Token, NEW v \in SUBSET (0..(t.width - 1)), NEW i \in Nat,
         StreamOf(data.ones, i, t.width, t.bitOrder) = FieldStream(v, t),
         ~(ByBytes(t) /\ t.kind = "Long")
  PROVE  FieldValue(t, i) = Number(v, t.width, t.kind)
<1> DEFINE w == t.width
           o == t.bitOrder
           sent == FieldStream(v, t)
           stream == StreamOf(data.ones, i, w, o)
           bytes  == BytesOf(stream, o)
           raw    == IF o = "msbf" THEN {w - 1 - k : k \in stream} ELSE stream
<1>1. w \in Nat /\ o \in Orders /\ t.byteOrder \in {"le", "be"}
  BY DEF Token
<1>2. sent \in SUBSET (0..(w - 1))
  BY FieldStreamWidth
<1>3. stream = sent
  OBVIOUS
<1>4. CASE ByBytes(t)
  <2>1. sent = StreamOf(EncodePacked(v, w, o), 0, w, o)
    BY <1>4 DEF ByBytes, FieldStream
  <2>2. bytes = EncodePacked(v, w, o)
    BY <1>1, <1>3, <2>1, PackedThroughStream
  <2>3. DecodePacked(bytes, w, o) = v
    BY <1>1, <2>2, PackedRoundTrip
  <2>4. FieldValue(t, i) = Number(DecodePacked(bytes, w, o), w, t.kind)
    BY <1>4 DEF FieldValue
  <2> QED BY <2>3, <2>4
<1>5. CASE ~ByBytes(t)
  <2>1. raw = v
    <3>1. CASE t.byteOrder # "le"
      <4>1. sent = IF o = "msbf" THEN {w - 1 - b : b \in v} ELSE v
        BY <3>1 DEF FieldStream
      <4>2. \A b \in v : w - 1 - (w - 1 - b) = b
        BY <1>1
      <4>3. CASE o = "msbf"
        <5>1. sent = {w - 1 - b : b \in v} /\ raw = {w - 1 - k : k \in sent}
          BY <1>3, <4>1, <4>3
        <5> HIDE DEF w, o, sent, stream, raw
        <5> QED BY <4>2, <5>1, ZenonT(60)
      <4>4. CASE o # "msbf"
        BY <1>3, <4>1, <4>4
      <4> QED BY <4>3, <4>4
    <3>2. CASE t.byteOrder = "le"
      <4>1. w < 8
        BY <1>1, <1>5, <3>2 DEF ByBytes
      <4>2. sent = {k \in 0..(w - 1) : <<k \div 8, BitAt(k, o)>> \in EncodePacked(v, w, o)}
        <5>1. \A k \in 0..(w - 1) : 0 + k = k
          OBVIOUS
        <5> QED BY <3>2, <5>1 DEF FieldStream, StreamOf
      <4>3. EncodePacked(v, w, o) = {Place(b, w, o) : b \in v}
        BY <1>1, EncodedPlaces
      <4>4. \A k, b \in 0..(w - 1) :
              (<<k \div 8, BitAt(k, o)>> = Place(b, w, o))
              <=> (b = IF o = "msbf" THEN w - 1 - k ELSE k)
        BY <1>1, <4>1, NarrowPlaces
      <4>5. \A k \in 0..(w - 1) :
              k \in sent <=> (IF o = "msbf" THEN w - 1 - k ELSE k) \in v
        <5> DEFINE at8(k) == <<k \div 8, BitAt(k, o)>>
                   bit(k) == IF o = "msbf" THEN w - 1 - k ELSE k
        <5>1. \A k \in 0..(w - 1) : bit(k) \in 0..(w - 1)
          BY <1>1
        <5>2. \A k, b \in 0..(w - 1) : at8(k) = Place(b, w, o) <=> b = bit(k)
          BY <4>4
        <5>3. v \subseteq 0..(w - 1)
          OBVIOUS
        <5>4. \A k \in 0..(w - 1) : k \in sent <=> \E b \in v : at8(k) = Place(b, w, o)
          <6>1. sent = {k \in 0..(w - 1) : at8(k) \in {Place(b, w, o) : b \in v}}
            BY <1>1, <4>2, <4>3
          <6> HIDE DEF w, o, sent, at8
          <6> QED BY <6>1
        <5> HIDE DEF w, o, sent, at8, bit
        <5>5. \A k \in 0..(w - 1) : k \in sent <=> bit(k) \in v
          BY <5>1, <5>2, <5>3, <5>4
        <5> QED BY <5>5 DEF bit
      <4>6. CASE o = "msbf"
        <5>1. \A b \in v : w - 1 - b \in 0..(w - 1) /\ w - 1 - (w - 1 - b) = b
          BY <1>1
        <5>2. \A b \in v : w - 1 - b \in sent
          BY <4>5, <4>6, <5>1
        <5>3. \A k \in sent : w - 1 - k \in v
          BY <1>2, <4>5, <4>6
        <5>4. raw = {w - 1 - k : k \in sent}
          BY <1>3, <4>6
        <5> HIDE DEF w, o, sent, stream, raw
        <5> QED BY <5>1, <5>2, <5>3, <5>4
      <4>7. CASE o # "msbf"
        <5>1. raw = sent
          BY <1>3, <4>7
        <5>2. v \subseteq 0..(w - 1)
          OBVIOUS
        <5> HIDE DEF w, o, sent, stream, raw
        <5> QED BY <1>2, <4>5, <4>7, <5>1, <5>2
      <4> QED BY <4>6, <4>7
    <3> QED BY <3>1, <3>2
  <2>2. FieldValue(t, i) = Number(raw, w, t.kind)
    BY <1>5 DEF FieldValue
  <2> QED BY <2>1, <2>2
<1> QED BY <1>4, <1>5

(* A field read where it was written has the value that was written: for   *)
(* every width, place, byte order and bit order, and every kind but a      *)
(* little-endian Long of a byte or more, which is read by whole bytes.     *)
THEOREM FieldRoundTrip ==
  ASSUME NEW t \in Token, NEW v \in SUBSET (0..(t.width - 1)), NEW buf \in Bytes,
         Free(buf, t.width, t.bitOrder),
         data.ones = WriteBits(buf, FieldStream(v, t), t.width, t.bitOrder).ones,
         ~(ByBytes(t) /\ t.kind = "Long")
  PROVE  FieldValue(t, buf.len) = Number(v, t.width, t.kind)
<1> DEFINE w == t.width
           o == t.bitOrder
           sent == FieldStream(v, t)
<1>1. w \in Nat /\ o \in Orders /\ buf.len \in Nat
  BY DEF Token, Bytes
<1>2. sent \in SUBSET (0..(w - 1))
  BY FieldStreamWidth
<1>3. StreamOf(data.ones, buf.len, w, o) = sent
  <2> HIDE DEF w, o, sent
  <2>1. data.ones = WriteBits(buf, sent, w, o).ones /\ Free(buf, w, o)
    BY DEF w, o, sent
  <2> QED BY <1>1, <1>2, <2>1, StreamWritten
<1> QED BY <1>1, <1>3, FieldReadBack

----------------------------------------------------------------------------
(* Buffers.                                                                *)

(* Every bit set is in a whole byte or is a bit written in order o.        *)
Clean(buf, o) ==
  \A x \in buf.ones :
    x[1] < buf.len \div 8 \/ \E j \in 0..(buf.len - 1) : x = <<j \div 8, BitAt(j, o)>>

(* The n bits at i are written, in order o, and are stream; what follows   *)
(* the buffer in order last does not meet them.                            *)
Keeps(buf, last, i, n, o, stream) ==
  /\ i + n <= buf.len
  /\ i + n <= 8 * (buf.len \div 8) \/ last = o
  /\ StreamOf(buf.ones, i, n, o) = stream

(* Bits that follow in an order that fits are free.                        *)
LEMMA CleanIsFree ==
  ASSUME NEW buf \in Bytes, NEW p, Clean(buf, p), NEW o \in Orders, NEW n \in Nat,
         buf.len % 8 = 0 \/ p = o
  PROVE  Free(buf, n, o)
<1> SUFFICES ASSUME NEW k \in 0..(n - 1),
                    <<(buf.len + k) \div 8, BitAt(buf.len + k, o)>> \in buf.ones
             PROVE  FALSE
  BY DEF Free
<1>1. buf.len \in Nat /\ buf.len + k \in Nat /\ (buf.len + k) \div 8 >= buf.len \div 8
  BY DEF Bytes
<1>2. PICK j \in 0..(buf.len - 1) :
        <<(buf.len + k) \div 8, BitAt(buf.len + k, o)>> = <<j \div 8, BitAt(j, p)>>
  BY <1>1 DEF Clean
<1>3. (buf.len + k) \div 8 = j \div 8 /\ BitAt(buf.len + k, o) = BitAt(j, p)
  BY <1>2
<1>4. j \in Nat /\ j < buf.len
  BY <1>1
<1>5. CASE p = o
  <2>1. buf.len + k = j
    BY <1>1, <1>3, <1>4, <1>5, StreamPlaceInjective
  <2> QED BY <1>1, <1>4, <2>1
<1>6. CASE buf.len % 8 = 0
  BY <1>1, <1>3, <1>4, <1>6
<1> QED BY <1>5, <1>6

(* A buffer is clean after what is written.                                *)
LEMMA CleanAfter ==
  ASSUME NEW buf \in Bytes, NEW p, Clean(buf, p), NEW o \in Orders, NEW n \in Nat,
         NEW stream \in SUBSET (0..(n - 1)), buf.len % 8 = 0 \/ p = o
  PROVE  Clean(WriteBits(buf, stream, n, o), o)
<1> DEFINE new == WriteBits(buf, stream, n, o)
<1>1. /\ buf.len \in Nat /\ new.len = buf.len + n
      /\ new.ones = buf.ones \union
           {<<(buf.len + k) \div 8, BitAt(buf.len + k, o)>> : k \in stream}
  BY DEF WriteBits, Bytes
<1> SUFFICES ASSUME NEW x \in new.ones
             PROVE  \/ x[1] < (buf.len + n) \div 8
                    \/ \E j \in 0..(buf.len + n - 1) : x = <<j \div 8, BitAt(j, o)>>
  BY <1>1 DEF Clean
<1> HIDE DEF new
<1>2. CASE x \in buf.ones
  <2>1. buf.len \div 8 <= (buf.len + n) \div 8
    BY <1>1
  <2>2. CASE x[1] < buf.len \div 8
    <3>1. x[1] \in Nat
      BY <1>2 DEF Bytes
    <3> QED BY <1>1, <2>1, <2>2, <3>1
  <2>3. CASE ~(x[1] < buf.len \div 8)
    <3>1. PICK j \in 0..(buf.len - 1) : x = <<j \div 8, BitAt(j, p)>>
      BY <1>2, <2>3 DEF Clean
    <3>2. x[1] = j \div 8
      BY <3>1
    <3>3. p = o
      BY <1>1, <2>3, <3>2
    <3>4. j \in 0..(buf.len + n - 1)
      BY <1>1
    <3> QED BY <3>1, <3>3, <3>4
  <2> QED BY <2>2, <2>3
<1>3. CASE x \notin buf.ones
  <2>1. PICK k \in stream : x = <<(buf.len + k) \div 8, BitAt(buf.len + k, o)>>
    BY <1>1, <1>3
  <2>2. buf.len + k \in 0..(buf.len + n - 1)
    BY <1>1
  <2> QED BY <2>1, <2>2
<1> QED BY <1>2, <1>3

(* What was written stays as it is when more is written.                   *)
LEMMA KeptAfter ==
  ASSUME NEW buf \in Bytes, NEW p, NEW o \in Orders, NEW n \in Nat,
         NEW stream \in SUBSET (0..(n - 1)), buf.len % 8 = 0 \/ p = o,
         NEW i \in Nat, NEW w \in Nat, NEW q \in Orders, NEW s, Keeps(buf, p, i, w, q, s)
  PROVE  Keeps(WriteBits(buf, stream, n, o), o, i, w, q, s)
<1> DEFINE new == WriteBits(buf, stream, n, o)
           at8(k) == <<(buf.len + k) \div 8, BitAt(buf.len + k, o)>>
           here(k) == <<(i + k) \div 8, BitAt(i + k, q)>>
<1>1. /\ buf.len \in Nat /\ new.len = buf.len + n
      /\ new.ones = buf.ones \union {at8(k) : k \in stream}
  BY DEF WriteBits, Bytes
<1>2. i + w <= buf.len /\ (i + w <= 8 * (buf.len \div 8) \/ p = q)
  BY DEF Keeps
<1>3. i + w <= new.len /\ (i + w <= 8 * (new.len \div 8) \/ o = q)
  <2> HIDE DEF new
  <2>1. CASE buf.len % 8 = 0
    BY <1>1, <1>2, <2>1
  <2>2. CASE p = o
    BY <1>1, <1>2, <2>2
  <2> QED BY <2>1, <2>2
<1>4. ASSUME NEW k \in 0..(w - 1), NEW m \in stream, here(k) = at8(m)
      PROVE  FALSE
  <2>1. (i + k) \div 8 = (buf.len + m) \div 8 /\ BitAt(i + k, q) = BitAt(buf.len + m, o)
    BY <1>4
  <2>2. i + k \in Nat /\ buf.len + m \in Nat /\ i + k < buf.len /\ i + k < i + w
    BY <1>1, <1>2
  <2>3. i + k >= 8 * (buf.len \div 8)
    BY <1>1, <2>1, <2>2
  <2>4. p = q
    BY <1>1, <1>2, <2>2, <2>3
  <2>5. buf.len % 8 # 0
    BY <1>1, <2>2, <2>3
  <2>6. i + k = buf.len + m
    BY <2>1, <2>2, <2>4, <2>5, StreamPlaceInjective
  <2> QED BY <1>1, <2>2, <2>6
<1>5. \A k \in 0..(w - 1) : here(k) \in new.ones <=> here(k) \in buf.ones
  <2> HIDE DEF here, at8, new
  <2> QED BY <1>1, <1>4
<1>6. StreamOf(new.ones, i, w, q) = StreamOf(buf.ones, i, w, q)
  BY <1>5 DEF StreamOf
<1> QED BY <1>3, <1>6 DEF Keeps

(* What is written is there.                                               *)
LEMMA KeptNew ==
  ASSUME NEW buf \in Bytes, NEW p, Clean(buf, p), NEW o \in Orders, NEW n \in Nat,
         NEW stream \in SUBSET (0..(n - 1)), buf.len % 8 = 0 \/ p = o
  PROVE  Keeps(WriteBits(buf, stream, n, o), o, buf.len, n, o, stream)
<1>1. Free(buf, n, o)
  BY CleanIsFree
<1>2. StreamOf(WriteBits(buf, stream, n, o).ones, buf.len, n, o) = stream
  BY <1>1, StreamWritten
<1>3. WriteBits(buf, stream, n, o).len = buf.len + n /\ buf.len \in Nat
  BY DEF WriteBits, Bytes
<1> QED BY <1>2, <1>3 DEF Keeps

(* Bits of a payload come with it, in their order or as whole bytes.       *)
LEMMA KeptMoved ==
  ASSUME NEW buf \in Bytes, NEW p, Clean(buf, p), NEW payload \in Bytes, NEW q,
         NEW t \in Token, buf.len % 8 = 0 \/ p = t.bitOrder, payload.len <= t.width,
         NEW i \in Nat, NEW w \in Nat, NEW r \in Orders, NEW s, Keeps(payload, q, i, w, r, s),
         r = t.bitOrder \/ (buf.len % 8 = 0 /\ payload.len % 8 = 0)
  PROVE  Keeps(WithPayload(buf, payload, t), t.bitOrder, buf.len + i, w, r, s)
<1> DEFINE o == t.bitOrder
           stream == StreamOf(payload.ones, 0, payload.len, o)
           new == WriteBits(buf, stream, t.width, o)
           from(k) == <<k \div 8, BitAt(k, o)>>
           at8(k) == <<(buf.len + k) \div 8, BitAt(buf.len + k, o)>>
           old(k) == <<(i + k) \div 8, BitAt(i + k, r)>>
           here(k) == <<(buf.len + i + k) \div 8, BitAt(buf.len + i + k, r)>>
<1>1. /\ buf.len \in Nat /\ payload.len \in Nat /\ t.width \in Nat /\ o \in Orders
      /\ i + w <= payload.len
  BY DEF Bytes, Token, Keeps
<1>2. WithPayload(buf, payload, t) = new
  <2>1. (IF payload.len < t.width THEN payload.len ELSE t.width) = payload.len
    BY <1>1
  <2> QED BY <2>1 DEF WithPayload
<1>3. /\ new.len = buf.len + t.width
      /\ new.ones = buf.ones \union {at8(k) : k \in stream}
  BY DEF WriteBits
<1>4. stream = {k \in 0..(payload.len - 1) : from(k) \in payload.ones}
  <2>1. \A k \in 0..(payload.len - 1) : 0 + k = k
    BY <1>1
  <2> QED BY <2>1 DEF StreamOf
<1>5. \A k \in 0..(payload.len - 1) : at8(k) \notin buf.ones
  <2>1. Free(buf, t.width, o)
    BY <1>1, CleanIsFree
  <2>2. \A k \in 0..(payload.len - 1) : k \in 0..(t.width - 1)
    BY <1>1
  <2> QED BY <2>1, <2>2 DEF Free
<1>6. \A k, m \in 0..(payload.len - 1) : at8(k) = at8(m) => k = m
  <2> TAKE k, m \in 0..(payload.len - 1)
  <2> HAVE at8(k) = at8(m)
  <2>1. /\ buf.len + k \in Nat /\ buf.len + m \in Nat
        /\ (buf.len + k) \div 8 = (buf.len + m) \div 8
        /\ BitAt(buf.len + k, o) = BitAt(buf.len + m, o)
    BY <1>1
  <2>2. buf.len + k = buf.len + m
    BY <1>1, <2>1, StreamPlaceInjective
  <2> QED BY <1>1, <2>2
<1>7. ASSUME NEW k \in 0..(w - 1)
      PROVE  \E m \in 0..(payload.len - 1) : from(m) = old(k) /\ at8(m) = here(k)
  <2>1. i + k \in 0..(payload.len - 1)
    BY <1>1
  <2>2. CASE r = o
    <3>1. buf.len + i + k = buf.len + (i + k)
      BY <1>1
    <3>2. from(i + k) = old(k) /\ at8(i + k) = here(k)
      BY <2>2, <3>1
    <3> QED BY <2>1, <3>2
  <2>3. CASE r # o
    <3> DEFINE m == 8 * ((i + k) \div 8) + (7 - ((i + k) % 8))
    <3>1. buf.len % 8 = 0 /\ payload.len % 8 = 0
      BY <2>3
    <3>2. m \in 0..(payload.len - 1) /\ m \div 8 = (i + k) \div 8 /\ m % 8 = 7 - ((i + k) % 8)
      BY <1>1, <2>1, <3>1
    <3>3. /\ (buf.len + m) \div 8 = (buf.len + i + k) \div 8
          /\ (buf.len + m) % 8 = 7 - ((buf.len + i + k) % 8)
      BY <1>1, <2>1, <3>1, <3>2
    <3> HIDE DEF m
    <3>4. (r = "msbf" /\ o = "lsbf") \/ (r = "lsbf" /\ o = "msbf")
      BY <1>1, <2>3 DEF Orders
    <3>5. BitAt(m, o) = BitAt(i + k, r) /\ BitAt(buf.len + m, o) = BitAt(buf.len + i + k, r)
      BY <1>1, <2>1, <3>2, <3>3, <3>4 DEF BitAt
    <3>6. from(m) = old(k) /\ at8(m) = here(k)
      BY <3>2, <3>3, <3>5
    <3> QED BY <3>2, <3>6
  <2> QED BY <2>2, <2>3
<1>8. ASSUME NEW k \in 0..(w - 1)
      PROVE  here(k) \in new.ones <=> old(k) \in payload.ones
  <2>1. PICK m \in 0..(payload.len - 1) : from(m) = old(k) /\ at8(m) = here(k)
    BY <1>7
  <2>2. m \in stream <=> from(m) \in payload.ones
    BY <1>4
  <2>3. \A j \in stream : j \in 0..(payload.len - 1)
    BY <1>4
  <2> HIDE DEF here, old, at8, from, new, stream
  <2> QED BY <1>3, <1>5, <1>6, <2>1, <2>2, <2>3
<1>9. StreamOf(new.ones, buf.len + i, w, r) = StreamOf(payload.ones, i, w, r)
  BY <1>8 DEF StreamOf
<1>10. /\ buf.len + i + w <= new.len
       /\ buf.len + i + w <= 8 * (new.len \div 8) \/ o = r
  <2> HIDE DEF new
  <2>1. buf.len + i + w <= new.len
    BY <1>1, <1>3
  <2>2. CASE r # o
    BY <1>1, <1>3, <2>2
  <2> QED BY <2>1, <2>2
<1> QED BY <1>2, <1>9, <1>10 DEF Keeps

----------------------------------------------------------------------------
(* Layouts.                                                                *)

(* Slots lie in each other, from the start of the message on.              *)
Proper(l) ==
  /\ l \in Layout /\ l.slots # <<>> /\ l.slots[1].start = 0
  /\ \A d \in 1..Len(l.slots) :
       /\ l.slots[d].start + l.slots[d].len <= l.slots[d].end
       /\ l.slots[d].end <= l.slots[1].end
  /\ \A d \in 1..(Len(l.slots) - 1) :
       /\ l.slots[d + 1].start = l.slots[d].start + l.slots[d].len
       /\ l.slots[d + 1].end <= l.slots[d].end

(* The slots of a layout, and the innermost.                               *)
LEMMA InnerFacts ==
  ASSUME NEW l, Proper(l)
  PROVE  /\ l.slots \in Seq(Slot) /\ Len(l.slots) \in Nat \ {0}
         /\ l.noted \in Orders \union {"none"} /\ l.fields \in Nat
         /\ \A d \in 1..Len(l.slots) : l.slots[d] \in Slot
         /\ Inner(l) = l.slots[Len(l.slots)] /\ Inner(l) \in Slot
<1>1. l.slots \in Seq(Slot) /\ l.slots # <<>> /\ l.noted \in Orders \union {"none"} /\ l.fields \in Nat
  BY DEF Proper, Layout
<1>2. Len(l.slots) \in Nat \ {0}
  BY <1>1, EmptySeq
<1>3. \A d \in 1..Len(l.slots) : l.slots[d] \in Slot
  BY <1>1, ElementOfSeq
<1>4. Inner(l) = l.slots[Len(l.slots)]
  BY DEF Inner, Last
<1> QED BY <1>1, <1>2, <1>3, <1>4

(* A slot that grows stays where it is.                                    *)
LEMMA GrownType ==
  ASSUME NEW s \in Slot, NEW n \in Nat, NEW o \in Orders, NEW used \in SUBSET Orders
  PROVE  /\ Grown(s, n, o, used) \in Slot
         /\ Grown(s, n, o, used).start = s.start /\ Grown(s, n, o, used).end = s.end
         /\ Grown(s, n, o, used).len = s.len + n
         /\ Grown(s, n, o, used).order = o /\ Grown(s, n, o, used).orders = s.orders \union used
<1>1. /\ s.start \in Nat /\ s.len \in Nat /\ s.end \in Nat /\ s.orders \in SUBSET Orders
      /\ s.len + n \in Nat
  BY DEF Slot
<1> QED BY <1>1 DEF Grown, Slot

(* Beginning a token moves the end of the slot, by the bits skipped.       *)
LEMMA BegunFacts ==
  ASSUME NEW s \in Slot, NEW t \in Token
  PROVE  /\ Begun(s, t) \in Slot /\ Skip(s.len, t.align) \in Nat
         /\ Begun(s, t).start = s.start /\ Begun(s, t).end = s.end
         /\ Begun(s, t).orders = s.orders
         /\ Begun(s, t).len = s.len + Skip(s.len, t.align)
         /\ Skip(s.len, t.align) = 0 => Begun(s, t) = s
         /\ Skip(s.len, t.align) # 0 => Begun(s, t).order = t.bitOrder
<1>1. s.len \in Nat /\ t.align \in Nat /\ t.bitOrder \in Orders
  BY DEF Slot, Token
<1>2. Skip(s.len, t.align) \in Nat
  BY <1>1, SkipType
<1>3. CASE Skip(s.len, t.align) = 0
  BY <1>1, <1>2, <1>3 DEF Begun
<1>4. CASE Skip(s.len, t.align) # 0
  <2> DEFINE n == Skip(s.len, t.align)
             none == {}
             b == Grown(s, n, t.bitOrder, none)
  <2>1. Begun(s, t) = b
    BY <1>4 DEF Begun
  <2>2. n \in Nat /\ none \in SUBSET Orders /\ s.orders \union none = s.orders
    BY <1>2
  <2> HIDE DEF n, none
  <2>3. /\ b \in Slot /\ b.start = s.start /\ b.end = s.end /\ b.orders = s.orders \union none
        /\ b.len = s.len + n /\ b.order = t.bitOrder
    BY <1>1, <2>2, GrownType
  <2> HIDE DEF b
  <2> QED BY <1>2, <1>4, <2>1, <2>2, <2>3 DEF n
<1> QED BY <1>3, <1>4

(* A layout whose innermost slot is another one at the same place.         *)
LEMMA Replaced ==
  ASSUME NEW l, Proper(l), NEW m \in Layout, NEW s \in Slot, m.slots = ReplaceInner(l, s),
         s.start = Inner(l).start, s.end = Inner(l).end, s.start + s.len <= s.end
  PROVE  /\ Proper(m) /\ Len(m.slots) = Len(l.slots)
         /\ \A d \in 1..(Len(l.slots) - 1) : m.slots[d] = l.slots[d]
         /\ m.slots[Len(l.slots)] = s
         /\ m.slots[1].end = l.slots[1].end
<1> DEFINE n == Len(l.slots)
<1>1. l.slots \in Seq(Slot) /\ n \in Nat \ {0} /\ Inner(l) = l.slots[n]
  BY InnerFacts
<1>2. m.slots = [l.slots EXCEPT ![n] = s]
  BY DEF ReplaceInner
<1>3. /\ m.slots \in Seq(Slot) /\ Len(m.slots) = n
      /\ m.slots[n] = s /\ \A d \in 1..n : d # n => m.slots[d] = l.slots[d]
  BY <1>1, <1>2, ExceptSeq
<1> HIDE DEF n
<1>4. \A d \in 1..n : /\ m.slots[d].start = l.slots[d].start /\ m.slots[d].end = l.slots[d].end
                      /\ m.slots[d].start + m.slots[d].len <= m.slots[d].end
  BY <1>1, <1>3 DEF Proper, n
<1>5. \A d \in 1..(n - 1) : m.slots[d].len = l.slots[d].len /\ d \in 1..n /\ d + 1 \in 1..n
  BY <1>1, <1>3
<1>6. m.slots # <<>> /\ 1 \in 1..n
  BY <1>1, <1>3, EmptySeq
<1>7. \A d \in 1..n : m.slots[d].end <= m.slots[1].end
  BY <1>4, <1>6 DEF Proper, n
<1>8. \A d \in 1..(n - 1) : /\ m.slots[d + 1].start = m.slots[d].start + m.slots[d].len
                            /\ m.slots[d + 1].end <= m.slots[d].end
  BY <1>1, <1>4, <1>5 DEF Proper, n
<1>9. m.slots[1].start = 0 /\ m.slots[1].end = l.slots[1].end
  BY <1>4, <1>6 DEF Proper
<1>10. Proper(m)
  BY <1>3, <1>4, <1>6, <1>8, <1>9, <1>7 DEF Proper
<1> QED BY <1>1, <1>3, <1>9, <1>10 DEF n

(* The slot of a buffer that field t was written to.                       *)
WithField(b, t) == Grown(b, t.width, t.bitOrder, {t.bitOrder})

NotedIn(l, t) == IF t.declared THEN t.bitOrder ELSE l.noted

(* After a field.                                                          *)
LEMMA AfterField ==
  ASSUME NEW l, Proper(l), NEW t \in Token, t.op = "field", Fits(l, t)
  PROVE  LET m == After(l, t)  n == Len(l.slots) IN
         /\ Proper(m) /\ Len(m.slots) = n
         /\ \A d \in 1..(n - 1) : m.slots[d] = l.slots[d]
         /\ m.slots[n] = WithField(Begun(Inner(l), t), t)
         /\ m.slots[1].end = l.slots[1].end
         /\ m.noted = NotedIn(l, t) /\ m.fields = l.fields + 1
<1> DEFINE b == Begun(Inner(l), t)
           c == WithField(b, t)
           m == [slots |-> ReplaceInner(l, c), noted |-> NotedIn(l, t), fields |-> l.fields + 1]
<1>1. After(l, t) = m
  BY DEF After, WithField, NotedIn
<1>2. /\ Inner(l) \in Slot /\ l.slots \in Seq(Slot) /\ Len(l.slots) \in Nat \ {0}
      /\ l.noted \in Orders \union {"none"} /\ l.fields \in Nat
  BY InnerFacts
<1>3. b \in Slot /\ b.start = Inner(l).start /\ b.end = Inner(l).end
  BY <1>2, BegunFacts
<1>4. b.start + b.len + t.width <= b.end
  BY <1>3 DEF Fits, Begins, StartOf
<1> HIDE DEF b
<1>5. t.width \in Nat /\ t.bitOrder \in Orders /\ t.declared \in BOOLEAN
  BY DEF Token
<1>6. c \in Slot /\ c.start = b.start /\ c.end = b.end /\ c.len = b.len + t.width
  BY <1>3, <1>5, GrownType DEF WithField
<1>7. c.start + c.len <= c.end
  BY <1>3, <1>4, <1>5, <1>6 DEF Slot
<1> HIDE DEF c
<1>8. ReplaceInner(l, c) \in Seq(Slot)
  BY <1>2, <1>6, ExceptSeq DEF ReplaceInner
<1>9. m \in Layout
  BY <1>2, <1>5, <1>8 DEF Layout, NotedIn
<1>10. m.slots = ReplaceInner(l, c) /\ m.noted = NotedIn(l, t) /\ m.fields = l.fields + 1
  OBVIOUS
<1> HIDE DEF m
<1>11. /\ Proper(m) /\ Len(m.slots) = Len(l.slots)
       /\ \A d \in 1..(Len(l.slots) - 1) : m.slots[d] = l.slots[d]
       /\ m.slots[Len(l.slots)] = c /\ m.slots[1].end = l.slots[1].end
  BY <1>3, <1>6, <1>7, <1>9, <1>10, Replaced
<1> QED BY <1>1, <1>10, <1>11 DEF c, b

(* After the start of a group.                                             *)
LEMMA AfterGroup ==
  ASSUME NEW l, Proper(l), NEW t \in Token, t.op = "group", Fits(l, t)
  PROVE  LET m == After(l, t)  n == Len(l.slots) IN
         /\ Proper(m) /\ Len(m.slots) = n
         /\ \A d \in 1..(n - 1) : m.slots[d] = l.slots[d]
         /\ m.slots[n] = Begun(Inner(l), t)
         /\ m.slots[1].end = l.slots[1].end
         /\ m.noted = l.noted /\ m.fields = l.fields
<1> DEFINE b == Begun(Inner(l), t)
           m == [l EXCEPT !.slots = ReplaceInner(l, b)]
<1>1. After(l, t) = m
  BY DEF After
<1>2. /\ Inner(l) \in Slot /\ l.slots \in Seq(Slot) /\ Len(l.slots) \in Nat \ {0}
  BY InnerFacts
<1>3. b \in Slot /\ b.start = Inner(l).start /\ b.end = Inner(l).end
  BY <1>2, BegunFacts
<1>4. b.start + b.len + 0 <= b.end
  BY <1>3 DEF Fits, Begins, StartOf
<1>5. b.start + b.len <= b.end
  BY <1>3, <1>4 DEF Slot
<1> HIDE DEF b
<1>6. ReplaceInner(l, b) \in Seq(Slot)
  BY <1>2, <1>3, ExceptSeq DEF ReplaceInner
<1>7. l \in Layout
  BY DEF Proper
<1>8. m \in Layout /\ m.slots = ReplaceInner(l, b) /\ m.noted = l.noted /\ m.fields = l.fields
  BY <1>6, <1>7 DEF Layout
<1> HIDE DEF m
<1>9. /\ Proper(m) /\ Len(m.slots) = Len(l.slots)
      /\ \A d \in 1..(Len(l.slots) - 1) : m.slots[d] = l.slots[d]
      /\ m.slots[Len(l.slots)] = b /\ m.slots[1].end = l.slots[1].end
  BY <1>3, <1>5, <1>8, Replaced
<1> QED BY <1>1, <1>8, <1>9 DEF b

(* After the end of a group.                                               *)
LEMMA AfterGroupEnd ==
  ASSUME NEW l, Proper(l), NEW t \in Token, t.op = "endgroup"
  PROVE  LET m == After(l, t) IN
         /\ Proper(m) /\ m.slots = l.slots
         /\ m.noted = NotedIn(l, t) /\ m.fields = l.fields
<1> DEFINE m == [l EXCEPT !.noted = NotedIn(l, t)]
<1>1. After(l, t) = m
  BY DEF After, NotedIn
<1>2. l \in Layout /\ NotedIn(l, t) \in Orders \union {"none"}
  BY DEF Proper, NotedIn, Layout, Token
<1>3. m \in Layout /\ m.slots = l.slots /\ m.noted = NotedIn(l, t) /\ m.fields = l.fields
  BY <1>2 DEF Layout
<1> HIDE DEF m
<1>4. Proper(m)
  BY <1>3 DEF Proper
<1> QED BY <1>1, <1>3, <1>4

(* After the start of a frame: a new slot, where the frame begins.         *)
LEMMA AfterFrame ==
  ASSUME NEW l, Proper(l), NEW t \in Token, t.op = "frame", Fits(l, t)
  PROVE  LET m == After(l, t)  n == Len(l.slots)  b == Begun(Inner(l), t) IN
         /\ Proper(m) /\ Len(m.slots) = n + 1
         /\ \A d \in 1..(n - 1) : m.slots[d] = l.slots[d]
         /\ m.slots[n] = b
         /\ m.slots[n + 1] = [start |-> b.start + b.len, len |-> 0,
                              end |-> b.start + b.len + t.width,
                              order |-> "none", orders |-> {}]
         /\ m.slots[1].end = l.slots[1].end
         /\ m.noted = l.noted /\ m.fields = l.fields
<1> DEFINE n == Len(l.slots)
           b == Begun(Inner(l), t)
           new == [start |-> b.start + b.len, len |-> 0, end |-> b.start + b.len + t.width,
                   order |-> "none", orders |-> {}]
           k == [l EXCEPT !.slots = ReplaceInner(l, b)]
           m == [l EXCEPT !.slots = Append(ReplaceInner(l, b), new)]
<1>1. After(l, t) = m
  BY DEF After
<1>2. /\ Inner(l) \in Slot /\ l.slots \in Seq(Slot) /\ Len(l.slots) \in Nat \ {0}
  BY InnerFacts
<1>3. b \in Slot /\ b.start = Inner(l).start /\ b.end = Inner(l).end
  BY <1>2, BegunFacts
<1>4. b.start + b.len + t.width <= b.end
  BY <1>3 DEF Fits, Begins, StartOf
<1> HIDE DEF b
<1>5. b.start \in Nat /\ b.len \in Nat /\ b.end \in Nat /\ t.width \in Nat
  BY <1>3 DEF Slot, Token
<1>6. b.start + b.len <= b.end
  BY <1>4, <1>5
<1>7. new \in Slot
  BY <1>5 DEF Slot
<1>8. new.start = b.start + b.len /\ new.len = 0 /\ new.end = b.start + b.len + t.width
  OBVIOUS
<1> HIDE DEF new
<1>9. ReplaceInner(l, b) \in Seq(Slot)
  BY <1>2, <1>3, ExceptSeq DEF ReplaceInner
<1>10. l \in Layout
  BY DEF Proper
<1>11. k \in Layout /\ k.slots = ReplaceInner(l, b)
  BY <1>9, <1>10 DEF Layout
<1>12. Append(ReplaceInner(l, b), new) \in Seq(Slot)
  BY <1>7, <1>9
<1>13. /\ m \in Layout /\ m.slots = Append(ReplaceInner(l, b), new)
       /\ m.noted = l.noted /\ m.fields = l.fields
  BY <1>10, <1>12 DEF Layout
<1> HIDE DEF k, m
<1>14. /\ Proper(k) /\ Len(k.slots) = n
       /\ \A d \in 1..(n - 1) : k.slots[d] = l.slots[d]
       /\ k.slots[n] = b /\ k.slots[1].end = l.slots[1].end
  BY <1>3, <1>6, <1>11, Replaced
<1>15. k.slots \in Seq(Slot) /\ n \in Nat \ {0}
  BY <1>2, <1>9, <1>11
<1> HIDE DEF n
<1>16. /\ Len(m.slots) = n + 1 /\ m.slots[n + 1] = new
       /\ \A d \in 1..n : m.slots[d] = k.slots[d]
  BY <1>7, <1>11, <1>13, <1>14, <1>15
<1>17. \A d \in 1..n : m.slots[d].start + m.slots[d].len <= m.slots[d].end
  BY <1>14, <1>16 DEF Proper
<1>18. m.slots[n + 1].start + m.slots[n + 1].len <= m.slots[n + 1].end
  BY <1>5, <1>8, <1>16
<1>19. \A d \in 1..(n - 1) : /\ m.slots[d + 1].start = m.slots[d].start + m.slots[d].len
                             /\ m.slots[d + 1].end <= m.slots[d].end
  <2> TAKE d \in 1..(n - 1)
  <2>1. d \in 1..n /\ d + 1 \in 1..n
    BY <1>15
  <2>2. m.slots[d] = k.slots[d] /\ m.slots[d + 1] = k.slots[d + 1]
    BY <1>16, <2>1
  <2> QED BY <1>14, <2>2 DEF Proper
<1>20. m.slots[n] = b
  BY <1>14, <1>15, <1>16
<1>21. /\ m.slots[n + 1].start = m.slots[n].start + m.slots[n].len
       /\ m.slots[n + 1].end <= m.slots[n].end
  BY <1>4, <1>8, <1>16, <1>20
<1>22. \A d \in 1..((n + 1) - 1) : d \in 1..(n - 1) \/ d = n
  BY <1>15
<1>23. \A d \in 1..(n + 1) : d \in 1..n \/ d = n + 1
  BY <1>15
<1>24. m.slots # <<>> /\ m.slots[1] = k.slots[1]
  BY <1>15, <1>16
<1>25. m.slots[1].start = 0 /\ m.slots[1].end = l.slots[1].end
  BY <1>14, <1>24 DEF Proper
<1>26. \A d \in 1..(n + 1) : m.slots[d].end <= m.slots[1].end
  <2>1. \A d \in 1..n : k.slots[d].end <= k.slots[1].end /\ k.slots[d].end \in Nat
    <3>1. \A d \in 1..n : k.slots[d] \in Slot
      BY <1>14, <1>15, ElementOfSeq
    <3>2. \A d \in 1..n : k.slots[d].end \in Nat
      BY <3>1 DEF Slot
    <3> QED BY <1>14, <3>2 DEF Proper
  <2>2. \A d \in 1..n : m.slots[d].end <= m.slots[1].end /\ m.slots[d].end \in Nat
    BY <1>16, <1>24, <2>1
  <2>3. n \in 1..n /\ 1 \in 1..n
    BY <1>15
  <2>4. m.slots[n + 1].end \in Nat
    BY <1>5, <1>8, <1>16
  <2>5. m.slots[n + 1].end <= m.slots[1].end
    BY <1>21, <2>2, <2>3, <2>4
  <2> QED BY <1>23, <2>2, <2>5
<1>27. Proper(m)
  BY <1>13, <1>16, <1>17, <1>18, <1>19, <1>21, <1>22, <1>23, <1>24, <1>25, <1>26 DEF Proper
<1>28. \A d \in 1..(n - 1) : m.slots[d] = l.slots[d]
  <2> TAKE d \in 1..(n - 1)
  <2>1. d \in 1..n
    BY <1>15
  <2> QED BY <1>14, <1>16, <2>1
<1> QED BY <1>1, <1>13, <1>16, <1>20, <1>25, <1>27, <1>28 DEF n, b, new

(* After the end of a frame: its slot is part of the one around it.        *)
LEMMA AfterFrameEnd ==
  ASSUME NEW l, Proper(l), NEW t \in Token, t.op = "endframe", Fits(l, t)
  PROVE  LET m == After(l, t)  n == Len(l.slots) IN
         /\ n \in Nat /\ n > 1 /\ Inner(l) \in Slot /\ Outer(l) \in Slot
         /\ Inner(l).start = Outer(l).start + Outer(l).len
         /\ Inner(l).start + Inner(l).len <= Inner(l).end
         /\ Proper(m) /\ Len(m.slots) = n - 1
         /\ \A d \in 1..(n - 2) : m.slots[d] = l.slots[d]
         /\ m.slots[n - 1] =
              Grown(Outer(l), t.width, t.bitOrder, Inner(l).orders \union {t.bitOrder})
         /\ m.slots[1].end = l.slots[1].end
         /\ m.noted = l.noted /\ m.fields = l.fields
<1> DEFINE n == Len(l.slots)
           s == Inner(l)
           o == Outer(l)
           g == Grown(o, t.width, t.bitOrder, s.orders \union {t.bitOrder})
           f == Front(l.slots)
           m == [l EXCEPT !.slots = [f EXCEPT ![n - 1] = g]]
<1>1. After(l, t) = m
  BY DEF After
<1>2. /\ s \in Slot /\ l.slots \in Seq(Slot) /\ n \in Nat \ {0} /\ s = l.slots[n]
      /\ \A d \in 1..n : l.slots[d] \in Slot
  BY InnerFacts
<1>3. /\ n > 1 /\ s.end = s.start + t.width /\ o = l.slots[n - 1]
  BY DEF Fits, Closes, Outer
<1>4. l.slots # <<>>
  BY DEF Proper
<1>5. f \in Seq(Slot) /\ Len(f) = n - 1 /\ \A d \in 1..(n - 1) : f[d] = l.slots[d]
  <2>1. f \in Seq(Slot) /\ Len(f) = n - 1
    BY <1>2, <1>4, FrontType
  <2>2. \A d \in 1..(n - 1) : f[d] = l.slots[d]
    BY <1>2 DEF Front
  <2> QED BY <2>1, <2>2
<1> HIDE DEF n, s, o, f
<1>6. n - 1 \in 1..n /\ n - 1 \in 1..(n - 1) /\ (n - 1) + 1 = n
  BY <1>2, <1>3
<1>7. /\ o \in Slot /\ s.start = o.start + o.len /\ s.end <= o.end /\ s.start + s.len <= s.end
  BY <1>2, <1>3, <1>6 DEF Proper, n
<1>8. t.width \in Nat /\ t.bitOrder \in Orders
  BY DEF Token
<1>9. s.orders \union {t.bitOrder} \in SUBSET Orders
  BY <1>2, <1>8 DEF Slot
<1>10. g \in Slot /\ g.start = o.start /\ g.end = o.end /\ g.len = o.len + t.width
  BY <1>7, <1>8, <1>9, GrownType
<1> HIDE DEF g
<1>11. g.start + g.len <= g.end
  <2>1. o.start \in Nat /\ o.len \in Nat /\ o.end \in Nat /\ s.start \in Nat /\ s.end \in Nat
    BY <1>2, <1>7 DEF Slot
  <2> QED BY <1>3, <1>7, <1>8, <1>10, <2>1
<1>12. /\ [f EXCEPT ![n - 1] = g] \in Seq(Slot) /\ Len([f EXCEPT ![n - 1] = g]) = n - 1
       /\ [f EXCEPT ![n - 1] = g][n - 1] = g
       /\ \A d \in 1..(n - 1) : d # n - 1 => [f EXCEPT ![n - 1] = g][d] = f[d]
  BY <1>5, <1>6, <1>10, ExceptSeq
<1>13. l \in Layout
  BY DEF Proper
<1>14. /\ m \in Layout /\ m.slots = [f EXCEPT ![n - 1] = g]
       /\ m.noted = l.noted /\ m.fields = l.fields
  BY <1>12, <1>13 DEF Layout
<1> HIDE DEF m
<1>15. /\ Len(m.slots) = n - 1 /\ m.slots[n - 1] = g
       /\ \A d \in 1..(n - 1) : d # n - 1 => m.slots[d] = l.slots[d]
  BY <1>5, <1>12, <1>14
<1>16. \A d \in 1..(n - 1) : m.slots[d].start = l.slots[d].start /\ m.slots[d].end = l.slots[d].end
  BY <1>3, <1>10, <1>15
<1>17. \A d \in 1..(n - 1) : m.slots[d].start + m.slots[d].len <= m.slots[d].end
  <2> TAKE d \in 1..(n - 1)
  <2>1. CASE d = n - 1
    BY <1>11, <1>15, <2>1
  <2>2. CASE d # n - 1
    <3>1. m.slots[d] = l.slots[d] /\ d \in 1..n
      BY <1>2, <1>15, <2>2
    <3> QED BY <3>1 DEF Proper, n
  <2> QED BY <2>1, <2>2
<1>18. \A d \in 1..(n - 1 - 1) : /\ m.slots[d + 1].start = m.slots[d].start + m.slots[d].len
                                 /\ m.slots[d + 1].end <= m.slots[d].end
  <2> TAKE d \in 1..(n - 1 - 1)
  <2>1. d \in 1..(n - 1) /\ d + 1 \in 1..(n - 1) /\ d # n - 1
    BY <1>2
  <2>2. m.slots[d] = l.slots[d]
    BY <1>15, <2>1
  <2>3. l.slots[d + 1].start = l.slots[d].start + l.slots[d].len /\ l.slots[d + 1].end <= l.slots[d].end
    BY <2>1 DEF Proper, n
  <2> QED BY <1>16, <2>1, <2>2, <2>3
<1>19. m.slots # <<>> /\ 1 \in 1..(n - 1)
  BY <1>2, <1>3, <1>15
<1>20. m.slots[1].start = 0 /\ m.slots[1].end = l.slots[1].end
  BY <1>16, <1>19 DEF Proper
<1>21. \A d \in 1..(n - 1) : m.slots[d].end <= m.slots[1].end
  <2>1. \A d \in 1..(n - 1) : d \in 1..n
    BY <1>2
  <2>2. \A d \in 1..n : l.slots[d].end <= l.slots[1].end
    BY DEF Proper, n
  <2> QED BY <1>16, <1>19, <2>1, <2>2
<1>22. Proper(m)
  BY <1>14, <1>15, <1>17, <1>18, <1>19, <1>20, <1>21 DEF Proper
<1>23. \A d \in 1..(n - 2) : m.slots[d] = l.slots[d]
  BY <1>2, <1>15
<1> QED BY <1>1, <1>2, <1>3, <1>7, <1>14, <1>15, <1>20, <1>22, <1>23 DEF n, s, o, g

----------------------------------------------------------------------------
(* Buffers at their slots.                                                 *)

(* Buffer buf, which lies at slot s, has the field t that begins at bit i  *)
(* of the message.                                                         *)
Has(buf, s, i, t, stream) ==
  /\ s.start <= i /\ t.bitOrder \in s.orders
  /\ Keeps(buf, s.order, i - s.start, t.width, t.bitOrder, stream)

(* What is written to a buffer leaves the fields it has.                   *)
LEMMA HasAfter ==
  ASSUME NEW buf \in Bytes, NEW s \in Slot, NEW g \in Slot, NEW o \in Orders, NEW n \in Nat,
         NEW new \in SUBSET (0..(n - 1)), buf.len % 8 = 0 \/ s.order = o,
         g.start = s.start, g.order = o, s.orders \subseteq g.orders,
         NEW i \in Nat, NEW f \in Token, NEW stream, Has(buf, s, i, f, stream)
  PROVE  Has(WriteBits(buf, new, n, o), g, i, f, stream)
<1>1. s.start \in Nat /\ f.width \in Nat /\ f.bitOrder \in Orders
  BY DEF Slot, Token
<1>2. s.start <= i /\ f.bitOrder \in s.orders
      /\ Keeps(buf, s.order, i - s.start, f.width, f.bitOrder, stream)
  BY DEF Has
<1>3. i - s.start \in Nat
  BY <1>1, <1>2
<1>4. Keeps(WriteBits(buf, new, n, o), o, i - s.start, f.width, f.bitOrder, stream)
  BY <1>1, <1>2, <1>3, KeptAfter
<1> QED BY <1>2, <1>4 DEF Has

(* The bits that align a token follow the buffer.                          *)
LEMMA AlignedAt ==
  ASSUME NEW buf \in Bytes, NEW s \in Slot, NEW t \in Token, buf.len = s.len,
         Clean(buf, s.order), Skip(s.len, t.align) # 0 => Orderly(s, t.bitOrder)
  PROVE  /\ Aligned(buf, t) \in Bytes /\ Aligned(buf, t).len = Begun(s, t).len
         /\ Clean(Aligned(buf, t), Begun(s, t).order)
         /\ \A i \in Nat, f \in Token : \A stream :
              Has(buf, s, i, f, stream) => Has(Aligned(buf, t), Begun(s, t), i, f, stream)
<1> DEFINE n == Skip(s.len, t.align)
           b == Begun(s, t)
           fill == IF FillBit = 1 THEN 0..(n - 1) ELSE {}
           a == WriteBits(buf, fill, n, t.bitOrder)
<1>1. Aligned(buf, t) = a /\ Aligned(buf, t) \in Bytes
  BY AlignedType DEF Aligned
<1>2. /\ b \in Slot /\ n \in Nat /\ b.start = s.start /\ b.orders = s.orders
      /\ b.len = s.len + n
      /\ n = 0 => b = s
      /\ n # 0 => b.order = t.bitOrder
  BY BegunFacts
<1>3. t.bitOrder \in Orders /\ s.len \in Nat
  BY DEF Token, Slot
<1> HIDE DEF b, n
<1>4. fill \in SUBSET (0..(n - 1))
  OBVIOUS
<1> HIDE DEF fill
<1>5. a.len = b.len
  BY <1>2 DEF WriteBits
<1>6. CASE n = 0
  <2>1. \A k : k \notin fill
    <3>1. 0..(n - 1) = {}
      BY <1>6
    <3> QED BY <1>4, <3>1
  <2>2. a.ones = buf.ones
    BY <2>1 DEF WriteBits
  <2>3. a.len = buf.len
    BY <1>2, <1>3, <1>5, <1>6
  <2> HIDE DEF a
  <2>4. Clean(a, b.order)
    BY <1>2, <1>6, <2>2, <2>3 DEF Clean
  <2>5. \A i \in Nat, f \in Token : \A stream : Has(buf, s, i, f, stream) => Has(a, b, i, f, stream)
    BY <1>2, <1>6, <2>2, <2>3 DEF Has, Keeps
  <2> QED BY <1>1, <1>5, <2>4, <2>5 DEF b
<1>7. CASE n # 0
  <2>1. buf.len % 8 = 0 \/ s.order = t.bitOrder
    BY <1>7 DEF Orderly, n
  <2>2. Clean(a, t.bitOrder)
    BY <1>2, <1>3, <1>4, <2>1, CleanAfter
  <2>3. \A i \in Nat, f \in Token : \A stream : Has(buf, s, i, f, stream) => Has(a, b, i, f, stream)
    BY <1>2, <1>3, <1>4, <1>7, <2>1, HasAfter
  <2> HIDE DEF a
  <2> QED BY <1>1, <1>2, <1>5, <1>7, <2>2, <2>3 DEF b
<1> QED BY <1>6, <1>7

(* A field follows the buffer, and the buffer has it.                      *)
LEMMA FieldAt ==
  ASSUME NEW buf \in Bytes, NEW b \in Slot, NEW t \in Token, buf.len = b.len,
         Clean(buf, b.order), Orderly(b, t.bitOrder), NEW new \in SUBSET (0..(t.width - 1))
  PROVE  LET g == WriteBits(buf, new, t.width, t.bitOrder)  c == WithField(b, t) IN
         /\ g.len = c.len /\ Clean(g, c.order)
         /\ \A i \in Nat, f \in Token : \A stream : Has(buf, b, i, f, stream) => Has(g, c, i, f, stream)
         /\ Has(g, c, b.start + b.len, t, new)
<1> DEFINE g == WriteBits(buf, new, t.width, t.bitOrder)
           c == WithField(b, t)
<1>1. t.width \in Nat /\ t.bitOrder \in Orders /\ b.start \in Nat /\ b.len \in Nat
  BY DEF Token, Slot
<1>2. /\ c \in Slot /\ c.start = b.start /\ c.len = b.len + t.width /\ c.order = t.bitOrder
      /\ c.orders = b.orders \union {t.bitOrder}
  BY <1>1, GrownType DEF WithField
<1>3. buf.len % 8 = 0 \/ b.order = t.bitOrder
  BY DEF Orderly
<1>4. g.len = c.len
  BY <1>2 DEF WriteBits
<1> HIDE DEF c
<1>5. Clean(g, c.order)
  BY <1>1, <1>2, <1>3, CleanAfter
<1>6. \A i \in Nat, f \in Token : \A stream : Has(buf, b, i, f, stream) => Has(g, c, i, f, stream)
  BY <1>1, <1>2, <1>3, HasAfter
<1>7. Keeps(g, t.bitOrder, buf.len, t.width, t.bitOrder, new)
  BY <1>1, <1>3, KeptNew
<1> HIDE DEF g
<1>8. Has(g, c, b.start + b.len, t, new)
  <2>1. (b.start + b.len) - c.start = buf.len /\ c.start <= b.start + b.len
    BY <1>1, <1>2
  <2>2. Keeps(g, c.order, (b.start + b.len) - c.start, t.width, t.bitOrder, new)
    BY <1>2, <1>7, <2>1
  <2> QED BY <1>2, <2>1, <2>2 DEF Has
<1> QED BY <1>4, <1>5, <1>6, <1>8 DEF g, c

(* A payload is copied into the buffer around it, with its fields.         *)
LEMMA PayloadAt ==
  ASSUME NEW buf \in Bytes, NEW payload \in Bytes, NEW o \in Slot, NEW s \in Slot,
         NEW t \in Token, buf.len = o.len, payload.len = s.len, Clean(buf, o.order),
         s.start = o.start + o.len, s.start + s.len <= s.end, s.end = s.start + t.width,
         Orderly(o, t.bitOrder),
         s.orders \subseteq {t.bitOrder} \/ (o.len % 8 = 0 /\ s.len % 8 = 0)
  PROVE  LET g == WithPayload(buf, payload, t)
             c == Grown(o, t.width, t.bitOrder, s.orders \union {t.bitOrder})
         IN /\ g.len = c.len /\ Clean(g, c.order)
            /\ \A i \in Nat, f \in Token : \A stream :
                 Has(buf, o, i, f, stream) \/ Has(payload, s, i, f, stream) => Has(g, c, i, f, stream)
<1> DEFINE stream0 == StreamOf(payload.ones, 0, payload.len, t.bitOrder)
           used == s.orders \union {t.bitOrder}
           g == WithPayload(buf, payload, t)
           c == Grown(o, t.width, t.bitOrder, used)
<1>1. /\ t.width \in Nat /\ t.bitOrder \in Orders
      /\ o.start \in Nat /\ o.len \in Nat /\ s.start \in Nat /\ s.len \in Nat /\ s.end \in Nat
  BY DEF Token, Slot
<1>2. used \in SUBSET Orders /\ s.orders \subseteq used
  BY <1>1 DEF Slot
<1> HIDE DEF used
<1>3. /\ c \in Slot /\ c.start = o.start /\ c.len = o.len + t.width /\ c.order = t.bitOrder
      /\ c.orders = o.orders \union used
  BY <1>1, <1>2, GrownType
<1>4. buf.len % 8 = 0 \/ o.order = t.bitOrder
  BY DEF Orderly
<1>5. payload.len <= t.width
  BY <1>1
<1>6. g = WriteBits(buf, stream0, t.width, t.bitOrder)
  <2>1. (IF payload.len < t.width THEN payload.len ELSE t.width) = payload.len
    BY <1>1, <1>5
  <2> QED BY <2>1 DEF WithPayload
<1>7. stream0 \in SUBSET (0..(t.width - 1))
  <2>1. stream0 \subseteq 0..(payload.len - 1)
    BY <1>1, StreamOfType
  <2> HIDE DEF stream0
  <2> QED BY <1>1, <1>5, <2>1
<1> HIDE DEF stream0, c
<1>8. g.len = c.len
  BY <1>3, <1>6 DEF WriteBits
<1>9. Clean(g, c.order)
  BY <1>1, <1>3, <1>4, <1>6, <1>7, CleanAfter
<1>10. ASSUME NEW i \in Nat, NEW f \in Token, NEW stream, Has(buf, o, i, f, stream)
       PROVE  Has(g, c, i, f, stream)
  BY <1>1, <1>3, <1>4, <1>6, <1>7, <1>10, HasAfter
<1> HIDE DEF g
<1>11. ASSUME NEW i \in Nat, NEW f \in Token, NEW stream, Has(payload, s, i, f, stream)
       PROVE  Has(g, c, i, f, stream)
  <2>1. /\ s.start <= i /\ f.bitOrder \in s.orders
        /\ Keeps(payload, s.order, i - s.start, f.width, f.bitOrder, stream)
    BY <1>11 DEF Has
  <2>2. f.width \in Nat /\ f.bitOrder \in Orders
    BY DEF Token
  <2>3. i - s.start \in Nat /\ buf.len + (i - s.start) = i - c.start /\ c.start <= i
    BY <1>1, <1>3, <2>1
  <2>4. f.bitOrder = t.bitOrder \/ (buf.len % 8 = 0 /\ payload.len % 8 = 0)
    BY <2>1
  <2>5. Keeps(g, t.bitOrder, buf.len + (i - s.start), f.width, f.bitOrder, stream)
    BY <1>4, <1>5, <2>1, <2>2, <2>3, <2>4, KeptMoved DEF g
  <2>6. f.bitOrder \in c.orders
    BY <1>2, <1>3, <2>1
  <2>7. Keeps(g, c.order, i - c.start, f.width, f.bitOrder, stream)
    BY <1>3, <2>3, <2>5
  <2> QED BY <2>3, <2>6, <2>7 DEF Has
<1> QED BY <1>8, <1>9, <1>10, <1>11 DEF g, c, used

----------------------------------------------------------------------------
(* The encoder.                                                            *)

(* The value of the field at token k is the one written, and a buffer has  *)
(* its bits.                                                               *)
Stored(ls, k) ==
  LET t == program[k] IN
  /\ ls[k].fields + 1 \in 1..Len(written) /\ StartOf(ls[k], t) \in Nat
  /\ \E v \in SUBSET (0..(t.width - 1)) :
       /\ written[ls[k].fields + 1] = Number(v, t.width, t.kind)
       /\ \E d \in 1..Len(bufs) :
            Has(bufs[d], ls[at].slots[d], StartOf(ls[k], t), t, FieldStream(v, t))

(* Buffers that lie at the slots of layout l.                              *)
Fills(buffers, l) ==
  /\ Len(buffers) = Len(l.slots)
  /\ \A d \in 1..Len(buffers) :
       buffers[d].len = l.slots[d].len /\ Clean(buffers[d], l.slots[d].order)

(* What the buffers at layout l have, others have at layout m.             *)
Carried(buffers, l, others, m) ==
  \A i \in Nat, f \in Token : \A stream : \A d \in 1..Len(buffers) :
    Has(buffers[d], l.slots[d], i, f, stream) =>
      \E e \in 1..Len(others) : Has(others[e], m.slots[e], i, f, stream)

(* The values vs begin with the values us.                                 *)
Extends(vs, us) == Len(us) <= Len(vs) /\ \A i \in 1..Len(us) : vs[i] = us[i]

(* The encoder follows the layout.                                         *)
Encoding(ls) ==
  /\ at <= Len(ls)
  /\ Proper(ls[at]) /\ ls[at].slots[1].end = ls[1].slots[1].end
  /\ order = ls[at].noted /\ Len(written) = ls[at].fields
  /\ Fills(bufs, ls[at])
  /\ \A k \in 1..(at - 1) : program[k].op = "field" => Stored(ls, k)

(* A token that is not refused has a layout after it.                      *)
LEMMA NotRefused ==
  ASSUME NEW ls \in Seq(Layout), LaidOut(ls, program), Inv, More,
         at <= Len(ls), order = ls[at].noted,
         Tok.op \in {"field", "group"} => ChangeAllowed(Tok, Begun(Inner(ls[at]), Tok).len)
  PROVE  /\ at \in 1..(Len(ls) - 1) /\ Fits(ls[at], Tok) /\ ls[at + 1] = After(ls[at], Tok)
<1>1. at \in Nat \ {0} /\ Len(program) \in Nat /\ at <= Len(program) /\ Len(ls) \in Nat
  BY ProgramsAssumption DEF Inv, TypeOK, More
<1>2. at # Len(ls)
  <2> SUFFICES ASSUME at = Len(ls) PROVE FALSE
    OBVIOUS
  <2>1. Len(ls) # Len(program) + 1
    BY <1>1
  <2>2. /\ Tok.op \in {"field", "group"}
        /\ Changes(ls[at], Tok) /\ Begun(Inner(ls[at]), Tok).len % 8 # 0
    BY <2>1 DEF LaidOut, Tok
  <2> QED BY <2>2 DEF ChangeAllowed, Changes
<1>3. at \in 1..(Len(ls) - 1)
  BY <1>1, <1>2
<1> QED BY <1>3 DEF LaidOut, Tok

(* The encoder follows the layout over a token.                            *)
LEMMA EncodingGoesOn ==
  ASSUME NEW ls, Inv, Encoding(ls), EncodeStep, More,
         at + 1 <= Len(ls), Proper(ls[at + 1]), ls[at + 1].slots[1].end = ls[at].slots[1].end,
         order' = ls[at + 1].noted, Len(written') = ls[at + 1].fields, Extends(written', written),
         Fills(bufs', ls[at + 1]), Carried(bufs, ls[at], bufs', ls[at + 1]),
         Tok.op = "field" => \A j : j = at => Stored(ls, j)'
  PROVE  Encoding(ls)'
<1> DEFINE m == ls[at + 1]
<1>1. at' = at + 1 /\ program' = program /\ at \in Nat
  BY DEF EncodeStep, Inv, TypeOK
<1>2. program \in Seq(Token) /\ at \in 1..Len(program)
  BY ProgramsAssumption DEF Inv, TypeOK, More
<1>3. ASSUME NEW k \in 1..(at - 1), program[k].op = "field" PROVE Stored(ls, k)'
  <2>1. Stored(ls, k) /\ program[k] \in Token
    BY <1>2, <1>3 DEF Encoding
  <2>2. Len(written) \in Nat /\ Len(written') \in Nat /\ Len(written) <= Len(written')
    BY InnerFacts DEF Encoding, Inv, TypeOK, Extends
  <2> DEFINE t == program[k]
             i == StartOf(ls[k], t)
             x == ls[k].fields + 1
  <2>3. x \in 1..Len(written) /\ i \in Nat
    BY <2>1 DEF Stored
  <2>4. PICK v \in SUBSET (0..(t.width - 1)) :
          /\ written[x] = Number(v, t.width, t.kind)
          /\ \E d \in 1..Len(bufs) : Has(bufs[d], ls[at].slots[d], i, t, FieldStream(v, t))
    BY <2>1 DEF Stored
  <2>5. PICK d \in 1..Len(bufs) : Has(bufs[d], ls[at].slots[d], i, t, FieldStream(v, t))
    BY <2>4
  <2> HIDE DEF i, x, t
  <2>6. \E e \in 1..Len(bufs') : Has(bufs'[e], m.slots[e], i, t, FieldStream(v, t))
    BY <2>1, <2>3, <2>5 DEF t, Carried
  <2>7. x \in 1..Len(written') /\ written'[x] = written[x]
    BY <2>2, <2>3 DEF Extends
  <2> QED BY <1>1, <2>3, <2>4, <2>6, <2>7 DEF Stored, i, x, t
<1>4. \A k \in 1..(at' - 1) : k \in 1..(at - 1) \/ k = at
  BY <1>1, <1>2
<1>5. \A k \in 1..(at' - 1) : program'[k].op = "field" => Stored(ls, k)'
  BY <1>1, <1>3, <1>4 DEF Tok
<1>6. m.slots[1].end = ls[1].slots[1].end
  BY DEF Encoding
<1>7. ls[at'] = m /\ at' <= Len(ls)
  BY <1>1
<1>8. /\ at' <= Len(ls)
      /\ Proper(ls[at']) /\ ls[at'].slots[1].end = ls[1].slots[1].end
      /\ order' = ls[at'].noted /\ Len(written') = ls[at'].fields
      /\ Fills(bufs', ls[at'])
  BY <1>6, <1>7
<1> QED BY <1>5, <1>8 DEF Encoding

(* What the steps of the encoder have in common.                           *)
LEMMA EncodingFacts ==
  ASSUME NEW ls \in Seq(Layout), LaidOut(ls, program), Inv, Encoding(ls), More
  PROVE  LET l == ls[at]  n == Len(bufs)  b == Begun(Inner(l), Tok)  a == Aligned(Last(bufs), Tok) IN
         /\ n \in Nat \ {0} /\ n = Len(l.slots) /\ bufs \in Seq(Bytes) /\ Last(bufs) = bufs[n]
         /\ Tok \in Token /\ Proper(l) /\ Inner(l) = l.slots[n] /\ Inner(l) \in Slot
         /\ bufs[n] \in Bytes /\ bufs[n].len = Inner(l).len /\ Clean(bufs[n], Inner(l).order)
         /\ b \in Slot /\ a \in Bytes
         /\ (Skip(Inner(l).len, Tok.align) # 0 => Orderly(Inner(l), Tok.bitOrder)) =>
              /\ a.len = b.len /\ Clean(a, b.order)
              /\ \A i \in Nat, f \in Token : \A stream :
                   Has(bufs[n], Inner(l), i, f, stream) => Has(a, b, i, f, stream)
<1> DEFINE l == ls[at]
           n == Len(bufs)
<1>1. Proper(l) /\ n = Len(l.slots) /\ bufs \in Seq(Bytes) /\ Tok \in Token
  BY TokType DEF Encoding, Fills, Inv, TypeOK
<1>2. n \in Nat \ {0} /\ Inner(l) = l.slots[n] /\ Inner(l) \in Slot
  BY <1>1, InnerFacts
<1>3. bufs[n] \in Bytes /\ Last(bufs) = bufs[n]
  BY <1>1, <1>2 DEF Last
<1>4. bufs[n].len = Inner(l).len /\ Clean(bufs[n], Inner(l).order)
  BY <1>2 DEF Encoding, Fills
<1> HIDE DEF l, n
<1>5. Begun(Inner(l), Tok) \in Slot /\ Aligned(Last(bufs), Tok) \in Bytes
  BY <1>1, <1>2, <1>3, BegunFacts, AlignedType
<1>6. (Skip(Inner(l).len, Tok.align) # 0 => Orderly(Inner(l), Tok.bitOrder)) =>
        /\ Aligned(Last(bufs), Tok).len = Begun(Inner(l), Tok).len
        /\ Clean(Aligned(Last(bufs), Tok), Begun(Inner(l), Tok).order)
        /\ \A i \in Nat, f \in Token : \A stream :
             Has(bufs[n], Inner(l), i, f, stream) =>
               Has(Aligned(Last(bufs), Tok), Begun(Inner(l), Tok), i, f, stream)
  BY <1>1, <1>2, <1>3, <1>4, AlignedAt
<1> QED BY <1>1, <1>2, <1>3, <1>4, <1>5, <1>6 DEF l, n

(* A field.                                                                *)
LEMMA EncodingField ==
  ASSUME NEW ls \in Seq(Layout), LaidOut(ls, program), Inv, Encoding(ls), WriteField
  PROVE  phase' = "refused" \/ Encoding(ls)'
<1> DEFINE l == ls[at]
           n == Len(bufs)
           b == Begun(Inner(l), Tok)
           a == Aligned(Last(bufs), Tok)
           c == WithField(b, Tok)
           m == After(l, Tok)
<1>1. More /\ Tok.op = "field"
  BY DEF WriteField, Writing
<1>2. /\ n \in Nat \ {0} /\ n = Len(l.slots) /\ bufs \in Seq(Bytes) /\ Last(bufs) = bufs[n]
      /\ Tok \in Token /\ Proper(l) /\ Inner(l) = l.slots[n] /\ Inner(l) \in Slot
      /\ bufs[n] \in Bytes /\ b \in Slot /\ a \in Bytes
  BY <1>1, EncodingFacts
<1>3. CASE ~ChangeAllowed(Tok, a.len)
  BY <1>3 DEF WriteField, Refuse
<1>4. CASE ChangeAllowed(Tok, a.len)
  <2>1. a.len = b.len
    <3>1. b.len = Inner(l).len + Skip(Inner(l).len, Tok.align)
      BY <1>2, BegunFacts
    <3>2. a.len = bufs[n].len + Skip(bufs[n].len, Tok.align)
      BY <1>2 DEF Aligned, WriteBits
    <3>3. bufs[n].len = Inner(l).len
      BY <1>1, EncodingFacts
    <3> QED BY <3>1, <3>2, <3>3
  <2>2. at <= Len(ls) /\ order = l.noted
    BY DEF Encoding
  <2>3. at \in 1..(Len(ls) - 1) /\ Fits(l, Tok) /\ ls[at + 1] = m
    BY <1>1, <1>4, <2>1, <2>2, NotRefused
  <2>4. /\ Skip(Inner(l).len, Tok.align) # 0 => Orderly(Inner(l), Tok.bitOrder)
        /\ Orderly(b, Tok.bitOrder)
    BY <1>1, <2>3 DEF Fits, Begins
  <2>5. /\ a.len = b.len /\ Clean(a, b.order)
        /\ \A i \in Nat, f \in Token : \A stream :
             Has(bufs[n], Inner(l), i, f, stream) => Has(a, b, i, f, stream)
    BY <1>1, <2>4, EncodingFacts
  <2>6. /\ Proper(m) /\ Len(m.slots) = n
        /\ \A d \in 1..(n - 1) : m.slots[d] = l.slots[d]
        /\ m.slots[n] = c /\ m.slots[1].end = l.slots[1].end
        /\ m.noted = NotedIn(l, Tok) /\ m.fields = l.fields + 1
    BY <1>1, <1>2, <2>3, AfterField
  <2>7. PICK p \in Patterns :
          LET v == p \intersect 0..(Tok.width - 1) IN
          /\ bufs' = SetLast(WriteBits(a, FieldStream(v, Tok), Tok.width, Tok.bitOrder))
          /\ written' = Append(written, Number(v, Tok.width, Tok.kind))
          /\ order' = Noted(Tok)
          /\ EncodeStep
    BY <1>4 DEF WriteField
  <2> DEFINE v == p \intersect 0..(Tok.width - 1)
             new == FieldStream(v, Tok)
             g == WriteBits(a, new, Tok.width, Tok.bitOrder)
  <2>8. v \in SUBSET (0..(Tok.width - 1)) /\ new \in SUBSET (0..(Tok.width - 1))
    BY <1>2, FieldStreamWidth
  <2>9. /\ bufs' = [bufs EXCEPT ![n] = g] /\ EncodeStep
        /\ written' = Append(written, Number(v, Tok.width, Tok.kind))
        /\ order' = m.noted
    BY <2>2, <2>6, <2>7 DEF SetLast, Noted, NotedIn
  <2>10. Len(written) = l.fields /\ l.fields \in Nat /\ written \in Seq(SUBSET Nat)
    BY <1>2, InnerFacts DEF Encoding, Inv, TypeOK
  <2>11. Number(v, Tok.width, Tok.kind) \in SUBSET Nat
    <3>1. v \in SUBSET Nat /\ Tok.width \in Nat
      BY <1>2, <2>8 DEF Token
    <3> QED BY <3>1, NumberType
  <2> HIDE DEF v, new
  <2>12. /\ g.len = c.len /\ Clean(g, c.order)
         /\ \A i \in Nat, f \in Token : \A stream : Has(a, b, i, f, stream) => Has(g, c, i, f, stream)
         /\ Has(g, c, b.start + b.len, Tok, new)
    BY <1>2, <2>4, <2>5, <2>8, FieldAt
  <2>13. StartOf(l, Tok) = b.start + b.len /\ b.start \in Nat /\ b.len \in Nat
    BY <1>2, BegunFacts DEF StartOf, Slot
  <2> HIDE DEF g, a, b, c, m, l, n
  <2>14. Len(bufs') = n /\ bufs'[n] = g /\ \A d \in 1..(n - 1) : bufs'[d] = bufs[d]
    BY <1>2, <2>9 DEF n
  <2>15. /\ Len(written') = l.fields + 1
         /\ written'[l.fields + 1] = Number(v, Tok.width, Tok.kind)
         /\ \A i \in 1..Len(written) : written'[i] = written[i]
    BY <2>9, <2>10, <2>11
  <2>16. Len(written') = m.fields /\ Extends(written', written)
    BY <2>6, <2>10, <2>15 DEF Extends
  <2>17. \A d \in 1..n : d \in 1..(n - 1) \/ d = n
    BY <1>2
  <2>18. Fills(bufs', m)
    <3>1. \A d \in 1..(n - 1) : bufs[d].len = l.slots[d].len /\ Clean(bufs[d], l.slots[d].order)
      BY <1>2 DEF Encoding, Fills, l, n
    <3> QED BY <2>6, <2>12, <2>14, <2>17, <3>1 DEF Fills
  <2>19. ASSUME NEW i \in Nat, NEW f \in Token, NEW stream, NEW d \in 1..n,
                Has(bufs[d], l.slots[d], i, f, stream)
         PROVE  Has(bufs'[d], m.slots[d], i, f, stream)
    <3>1. CASE d = n
      BY <1>2, <2>5, <2>6, <2>12, <2>14, <2>19, <3>1
    <3>2. CASE d # n
      BY <2>6, <2>14, <2>17, <2>19, <3>2
    <3> QED BY <3>1, <3>2
  <2>20. \A j : j = at => Stored(ls, j)'
    <3> SUFFICES ASSUME NEW j, j = at PROVE Stored(ls, j)'
      OBVIOUS
    <3>1. program' = program /\ at' = at + 1
      BY <2>9 DEF EncodeStep
    <3>2. program'[j] = Tok /\ ls[j] = l /\ ls[at'] = m
      BY <2>3, <3>1 DEF Tok, l
    <3>3. l.fields + 1 \in 1..Len(written') /\ StartOf(l, Tok) \in Nat
      BY <2>10, <2>13, <2>15
    <3>4. Has(bufs'[n], m.slots[n], StartOf(l, Tok), Tok, new) /\ n \in 1..Len(bufs')
      BY <1>2, <2>6, <2>12, <2>13, <2>14
    <3>5. \E e \in 1..Len(bufs') : Has(bufs'[e], m.slots[e], StartOf(l, Tok), Tok, FieldStream(v, Tok))
      BY <3>4 DEF new
    <3> QED BY <2>8, <2>15, <3>2, <3>3, <3>5 DEF Stored
  <2>21. Carried(bufs, l, bufs', m)
    BY <2>14, <2>19 DEF Carried, n
  <2>22. at + 1 <= Len(ls)
    BY <2>3
  <2> QED BY <1>1, <2>3, <2>6, <2>9, <2>16, <2>18, <2>20, <2>21, <2>22, EncodingGoesOn DEF l
<1> QED BY <1>3, <1>4

(* A step that leaves the values leaves what they begin with.              *)
LEMMA SameExtends ==
  ASSUME Inv, UNCHANGED written
  PROVE  Extends(written', written)
<1>1. Len(written) \in Nat
  BY DEF Inv, TypeOK
<1> QED BY <1>1 DEF Extends

(* The start of a group.                                                   *)
LEMMA EncodingGroup ==
  ASSUME NEW ls \in Seq(Layout), LaidOut(ls, program), Inv, Encoding(ls), WriteGroup
  PROVE  phase' = "refused" \/ Encoding(ls)'
<1> DEFINE l == ls[at]
           n == Len(bufs)
           b == Begun(Inner(l), Tok)
           a == Aligned(Last(bufs), Tok)
           m == After(l, Tok)
<1>1. More /\ Tok.op = "group" /\ Tok.op # "field"
  BY DEF WriteGroup, Writing
<1>2. /\ n \in Nat \ {0} /\ n = Len(l.slots) /\ bufs \in Seq(Bytes) /\ Last(bufs) = bufs[n]
      /\ Tok \in Token /\ Proper(l) /\ Inner(l) = l.slots[n] /\ Inner(l) \in Slot
      /\ bufs[n] \in Bytes /\ b \in Slot /\ a \in Bytes
  BY <1>1, EncodingFacts
<1>3. CASE ~ChangeAllowed(Tok, a.len)
  BY <1>3 DEF WriteGroup, Refuse
<1>4. CASE ChangeAllowed(Tok, a.len)
  <2>1. a.len = b.len
    <3>1. b.len = Inner(l).len + Skip(Inner(l).len, Tok.align)
      BY <1>2, BegunFacts
    <3>2. a.len = bufs[n].len + Skip(bufs[n].len, Tok.align)
      BY <1>2 DEF Aligned, WriteBits
    <3>3. bufs[n].len = Inner(l).len
      BY <1>1, EncodingFacts
    <3> QED BY <3>1, <3>2, <3>3
  <2>2. at <= Len(ls) /\ order = l.noted /\ Len(written) = l.fields
    BY DEF Encoding
  <2>3. at \in 1..(Len(ls) - 1) /\ Fits(l, Tok) /\ ls[at + 1] = m
    BY <1>1, <1>4, <2>1, <2>2, NotRefused
  <2>4. Skip(Inner(l).len, Tok.align) # 0 => Orderly(Inner(l), Tok.bitOrder)
    BY <1>1, <2>3 DEF Fits, Begins
  <2>5. /\ a.len = b.len /\ Clean(a, b.order)
        /\ \A i \in Nat, f \in Token : \A stream :
             Has(bufs[n], Inner(l), i, f, stream) => Has(a, b, i, f, stream)
    BY <1>1, <2>4, EncodingFacts
  <2>6. /\ Proper(m) /\ Len(m.slots) = n
        /\ \A d \in 1..(n - 1) : m.slots[d] = l.slots[d]
        /\ m.slots[n] = b /\ m.slots[1].end = l.slots[1].end
        /\ m.noted = l.noted /\ m.fields = l.fields
    BY <1>1, <1>2, <2>3, AfterGroup
  <2>7. /\ bufs' = [bufs EXCEPT ![n] = a] /\ EncodeStep
        /\ UNCHANGED <<written, order>>
    BY <1>4 DEF WriteGroup, SetLast
  <2> HIDE DEF a, b, m, l, n
  <2>8. Len(bufs') = n /\ bufs'[n] = a /\ \A d \in 1..(n - 1) : bufs'[d] = bufs[d]
    BY <1>2, <2>7 DEF n
  <2>9. \A d \in 1..n : d \in 1..(n - 1) \/ d = n
    BY <1>2
  <2>10. Fills(bufs', m)
    <3>1. \A d \in 1..(n - 1) : bufs[d].len = l.slots[d].len /\ Clean(bufs[d], l.slots[d].order)
      BY <1>2 DEF Encoding, Fills, l, n
    <3> QED BY <2>5, <2>6, <2>8, <2>9, <3>1 DEF Fills
  <2>11. ASSUME NEW i \in Nat, NEW f \in Token, NEW stream, NEW d \in 1..n,
                Has(bufs[d], l.slots[d], i, f, stream)
         PROVE  Has(bufs'[d], m.slots[d], i, f, stream)
    <3>1. CASE d = n
      BY <1>2, <2>5, <2>6, <2>8, <2>11, <3>1
    <3>2. CASE d # n
      BY <2>6, <2>8, <2>9, <2>11, <3>2
    <3> QED BY <3>1, <3>2
  <2>12. Carried(bufs, l, bufs', m)
    BY <2>8, <2>11 DEF Carried, n
  <2>13. at + 1 <= Len(ls) /\ order' = m.noted /\ Len(written') = m.fields /\ Extends(written', written)
    BY <2>2, <2>3, <2>6, <2>7, SameExtends
  <2> QED BY <1>1, <2>3, <2>6, <2>7, <2>10, <2>12, <2>13, EncodingGoesOn DEF l
<1> QED BY <1>3, <1>4

(* The end of a group.                                                     *)
LEMMA EncodingGroupEnd ==
  ASSUME NEW ls \in Seq(Layout), LaidOut(ls, program), Inv, Encoding(ls), WriteGroupEnd
  PROVE  Encoding(ls)'
<1> DEFINE l == ls[at]
           m == After(l, Tok)
<1>1. More /\ Tok.op = "endgroup" /\ Tok.op # "field" /\ Tok.op # "group"
  BY DEF WriteGroupEnd, Writing
<1>2. Tok \in Token /\ Proper(l)
  BY <1>1, EncodingFacts
<1>3. at <= Len(ls) /\ order = l.noted /\ Len(written) = l.fields /\ Fills(bufs, l)
  BY DEF Encoding
<1>4. at \in 1..(Len(ls) - 1) /\ Fits(l, Tok) /\ ls[at + 1] = m
  BY <1>1, <1>3, NotRefused
<1>5. Proper(m) /\ m.slots = l.slots /\ m.noted = NotedIn(l, Tok) /\ m.fields = l.fields
  BY <1>1, <1>2, AfterGroupEnd
<1>6. order' = m.noted /\ UNCHANGED <<bufs, written>> /\ EncodeStep
  BY <1>3, <1>5 DEF WriteGroupEnd, Noted, NotedIn
<1> HIDE DEF m, l
<1>7. Fills(bufs', m)
  BY <1>3, <1>5, <1>6 DEF Fills
<1>8. Carried(bufs, l, bufs', m)
  BY <1>5, <1>6 DEF Carried
<1>9. /\ at + 1 <= Len(ls) /\ Len(written') = m.fields /\ Extends(written', written)
      /\ m.slots[1].end = l.slots[1].end
  BY <1>3, <1>4, <1>5, <1>6, SameExtends
<1> QED BY <1>1, <1>4, <1>5, <1>6, <1>7, <1>8, <1>9, EncodingGoesOn DEF l

(* The start of a frame.                                                   *)
LEMMA EncodingFrame ==
  ASSUME NEW ls \in Seq(Layout), LaidOut(ls, program), Inv, Encoding(ls), WriteFrame
  PROVE  Encoding(ls)'
<1> DEFINE l == ls[at]
           n == Len(bufs)
           b == Begun(Inner(l), Tok)
           a == Aligned(Last(bufs), Tok)
           empty == [ones |-> {}, len |-> 0]
           m == After(l, Tok)
<1>1. More /\ Tok.op = "frame" /\ Tok.op # "field" /\ Tok.op # "group"
  BY DEF WriteFrame, Writing
<1>2. /\ n \in Nat \ {0} /\ n = Len(l.slots) /\ bufs \in Seq(Bytes) /\ Last(bufs) = bufs[n]
      /\ Tok \in Token /\ Proper(l) /\ Inner(l) = l.slots[n] /\ Inner(l) \in Slot
      /\ bufs[n] \in Bytes /\ b \in Slot /\ a \in Bytes
  BY <1>1, EncodingFacts
<1>3. at <= Len(ls) /\ order = l.noted /\ Len(written) = l.fields
  BY DEF Encoding
<1>4. at \in 1..(Len(ls) - 1) /\ Fits(l, Tok) /\ ls[at + 1] = m
  BY <1>1, <1>3, NotRefused
<1>5. Skip(Inner(l).len, Tok.align) # 0 => Orderly(Inner(l), Tok.bitOrder)
  BY <1>1, <1>4 DEF Fits, Begins
<1>6. /\ a.len = b.len /\ Clean(a, b.order)
      /\ \A i \in Nat, f \in Token : \A stream :
           Has(bufs[n], Inner(l), i, f, stream) => Has(a, b, i, f, stream)
  BY <1>1, <1>5, EncodingFacts
<1>7. /\ Proper(m) /\ Len(m.slots) = n + 1
      /\ \A d \in 1..(n - 1) : m.slots[d] = l.slots[d]
      /\ m.slots[n] = b
      /\ m.slots[n + 1] = [start |-> b.start + b.len, len |-> 0,
                           end |-> b.start + b.len + Tok.width,
                           order |-> "none", orders |-> {}]
      /\ m.slots[1].end = l.slots[1].end
      /\ m.noted = l.noted /\ m.fields = l.fields
  BY <1>1, <1>2, <1>4, AfterFrame
<1>8. /\ bufs' = Append([bufs EXCEPT ![n] = a], empty) /\ EncodeStep
      /\ UNCHANGED <<written, order>>
  BY DEF WriteFrame, SetLast
<1>9. empty \in Bytes /\ empty.len = 0 /\ empty.ones = {}
  BY DEF Bytes
<1>10. m.slots[n + 1].len = 0
  BY <1>7
<1> HIDE DEF a, b, m, l, n, empty
<1>11. [bufs EXCEPT ![n] = a] \in Seq(Bytes) /\ Len([bufs EXCEPT ![n] = a]) = n
  BY <1>2, ExceptSeq DEF n
<1>12. /\ Len(bufs') = n + 1 /\ bufs'[n] = a /\ bufs'[n + 1] = empty
       /\ \A d \in 1..(n - 1) : bufs'[d] = bufs[d]
  BY <1>2, <1>8, <1>9, <1>11 DEF n
<1>13. \A d \in 1..(n + 1) : d \in 1..(n - 1) \/ d = n \/ d = n + 1
  BY <1>2
<1>14. Fills(bufs', m)
  <2>1. \A d \in 1..(n - 1) : bufs[d].len = l.slots[d].len /\ Clean(bufs[d], l.slots[d].order)
    BY <1>2 DEF Encoding, Fills, l, n
  <2>2. Clean(empty, m.slots[n + 1].order)
    BY <1>9 DEF Clean
  <2>3. Len(bufs') = Len(m.slots)
    BY <1>7, <1>12
  <2>4. \A d \in 1..(n - 1) : bufs'[d].len = m.slots[d].len /\ Clean(bufs'[d], m.slots[d].order)
    BY <1>7, <1>12, <2>1
  <2>5. bufs'[n].len = m.slots[n].len /\ Clean(bufs'[n], m.slots[n].order)
    BY <1>6, <1>7, <1>12
  <2>6. bufs'[n + 1].len = m.slots[n + 1].len /\ Clean(bufs'[n + 1], m.slots[n + 1].order)
    BY <1>9, <1>10, <1>12, <2>2
  <2> QED BY <1>12, <1>13, <2>3, <2>4, <2>5, <2>6 DEF Fills
<1>15. ASSUME NEW i \in Nat, NEW f \in Token, NEW stream, NEW d \in 1..n,
              Has(bufs[d], l.slots[d], i, f, stream)
       PROVE  Has(bufs'[d], m.slots[d], i, f, stream) /\ d \in 1..(n + 1)
  <2>1. d \in 1..(n + 1)
    BY <1>2
  <2>2. CASE d = n
    BY <1>2, <1>6, <1>7, <1>12, <1>15, <2>1, <2>2
  <2>3. CASE d # n
    <3>1. d \in 1..(n - 1)
      BY <1>2, <2>3
    <3> QED BY <1>7, <1>12, <1>15, <2>1, <3>1
  <2> QED BY <2>2, <2>3
<1>16. Carried(bufs, l, bufs', m)
  BY <1>12, <1>15 DEF Carried, n
<1>17. at + 1 <= Len(ls) /\ order' = m.noted /\ Len(written') = m.fields /\ Extends(written', written)
  BY <1>3, <1>4, <1>7, <1>8, SameExtends
<1> QED BY <1>1, <1>4, <1>7, <1>8, <1>14, <1>16, <1>17, EncodingGoesOn DEF l

(* The end of a frame.                                                     *)
LEMMA EncodingFrameEnd ==
  ASSUME NEW ls \in Seq(Layout), LaidOut(ls, program), Inv, Encoding(ls), WriteFrameEnd
  PROVE  Encoding(ls)'
<1> DEFINE l == ls[at]
           n == Len(bufs)
           m == After(l, Tok)
           s == Inner(l)
           o == Outer(l)
           c == Grown(o, Tok.width, Tok.bitOrder, s.orders \union {Tok.bitOrder})
           g == WithPayload(bufs[n - 1], bufs[n], Tok)
<1>1. More /\ Tok.op = "endframe" /\ Tok.op # "field" /\ Tok.op # "group" /\ n > 1
  BY DEF WriteFrameEnd, Writing
<1>2. /\ n \in Nat \ {0} /\ n = Len(l.slots) /\ bufs \in Seq(Bytes) /\ Last(bufs) = bufs[n]
      /\ Tok \in Token /\ Proper(l) /\ s = l.slots[n] /\ s \in Slot
      /\ bufs[n] \in Bytes
  BY <1>1, EncodingFacts
<1>3. at <= Len(ls) /\ order = l.noted /\ Len(written) = l.fields /\ Fills(bufs, l)
  BY DEF Encoding
<1>4. at \in 1..(Len(ls) - 1) /\ Fits(l, Tok) /\ ls[at + 1] = m
  BY <1>1, <1>3, NotRefused
<1>5. /\ o \in Slot /\ s.start = o.start + o.len /\ s.start + s.len <= s.end
      /\ Proper(m) /\ Len(m.slots) = n - 1
      /\ \A d \in 1..(n - 2) : m.slots[d] = l.slots[d]
      /\ m.slots[n - 1] = c
      /\ m.slots[1].end = l.slots[1].end
      /\ m.noted = l.noted /\ m.fields = l.fields
  <2> DEFINE k == Len(l.slots)
  <2>1. Proper(l) /\ Tok \in Token /\ Tok.op = "endframe" /\ Fits(l, Tok)
    BY <1>1, <1>2, <1>4
  <2> HIDE DEF l
  <2>2. /\ o \in Slot /\ s.start = o.start + o.len /\ s.start + s.len <= s.end
        /\ Proper(m) /\ Len(m.slots) = k - 1
        /\ \A d \in 1..(k - 2) : m.slots[d] = l.slots[d]
        /\ m.slots[k - 1] = c
        /\ m.slots[1].end = l.slots[1].end
        /\ m.noted = l.noted /\ m.fields = l.fields
    BY <2>1, AfterFrameEnd
  <2>3. k = n
    BY <1>2
  <2> HIDE DEF k, n, m, c, s, o
  <2> QED BY <2>2, <2>3
<1>6. /\ s.end = s.start + Tok.width /\ Orderly(o, Tok.bitOrder)
      /\ s.orders \subseteq {Tok.bitOrder} \/ (o.len % 8 = 0 /\ s.len % 8 = 0)
      /\ o = l.slots[n - 1]
  BY <1>1, <1>2, <1>4 DEF Fits, Closes, Outer
<1>7. n - 1 \in 1..n /\ n \in 1..n /\ bufs[n - 1] \in Bytes
  BY <1>1, <1>2
<1>8. /\ bufs[n - 1].len = o.len /\ Clean(bufs[n - 1], o.order) /\ bufs[n].len = s.len
  BY <1>2, <1>3, <1>6, <1>7 DEF Fills
<1>9. /\ bufs' = [Front(bufs) EXCEPT ![n - 1] = WithPayload(@, bufs[n], Tok)] /\ EncodeStep
      /\ UNCHANGED <<written, order>>
  BY <1>2 DEF WriteFrameEnd
<1>10. Front(bufs) \in Seq(Bytes) /\ Len(Front(bufs)) = n - 1 /\ \A d \in 1..(n - 1) : Front(bufs)[d] = bufs[d]
  <2>1. bufs # <<>>
    BY DEF Inv
  <2>2. Front(bufs) \in Seq(Bytes) /\ Len(Front(bufs)) = n - 1
    BY <1>2, <2>1, FrontType
  <2>3. \A d \in 1..(n - 1) : Front(bufs)[d] = bufs[d]
    BY <1>2 DEF Front
  <2> QED BY <2>2, <2>3
<1> HIDE DEF l, s, o, c, m, g, n
<1>11. /\ g.len = c.len /\ Clean(g, c.order)
       /\ \A i \in Nat, f \in Token : \A stream :
            Has(bufs[n - 1], o, i, f, stream) \/ Has(bufs[n], s, i, f, stream) => Has(g, c, i, f, stream)
  <2> DEFINE x == bufs[n - 1]
             y == bufs[n]
  <2>1. /\ x \in Bytes /\ y \in Bytes /\ o \in Slot /\ s \in Slot /\ Tok \in Token
        /\ x.len = o.len /\ y.len = s.len /\ Clean(x, o.order)
        /\ s.start = o.start + o.len /\ s.start + s.len <= s.end /\ s.end = s.start + Tok.width
        /\ Orderly(o, Tok.bitOrder)
        /\ s.orders \subseteq {Tok.bitOrder} \/ (o.len % 8 = 0 /\ s.len % 8 = 0)
    BY <1>2, <1>5, <1>6, <1>7, <1>8
  <2>2. g = WithPayload(x, y, Tok)
    BY DEF g
  <2>3. c = Grown(o, Tok.width, Tok.bitOrder, s.orders \union {Tok.bitOrder})
    BY DEF c
  <2> HIDE DEF x, y
  <2>4. /\ g.len = c.len /\ Clean(g, c.order)
        /\ \A i \in Nat, f \in Token : \A stream :
             Has(x, o, i, f, stream) \/ Has(y, s, i, f, stream) => Has(g, c, i, f, stream)
    <3> DEFINE G == WithPayload(x, y, Tok)
               C == Grown(o, Tok.width, Tok.bitOrder, s.orders \union {Tok.bitOrder})
    <3>1. /\ G.len = C.len /\ Clean(G, C.order)
          /\ \A i \in Nat, f \in Token : \A stream :
               Has(x, o, i, f, stream) \/ Has(y, s, i, f, stream) => Has(G, C, i, f, stream)
      BY <2>1, PayloadAt
    <3> HIDE DEF G, C
    <3> QED BY <2>2, <2>3, <3>1 DEF G, C
  <2> QED BY <2>4 DEF x, y
<1>12. n - 1 \in 1..(n - 1) /\ bufs' = [Front(bufs) EXCEPT ![n - 1] = g]
  <2>1. n - 1 \in 1..(n - 1)
    BY <1>1, <1>2
  <2>2. bufs' = [Front(bufs) EXCEPT ![n - 1] = WithPayload(Front(bufs)[n - 1], bufs[n], Tok)]
    BY <1>9
  <2> QED BY <1>10, <2>1, <2>2 DEF g
<1>13. /\ Len(bufs') = n - 1 /\ bufs'[n - 1] = g
       /\ \A d \in 1..(n - 2) : bufs'[d] = bufs[d] /\ d \in 1..n
  <2> DEFINE f == Front(bufs)
  <2>1. f \in Seq(Bytes) /\ Len(f) = n - 1 /\ bufs' = [f EXCEPT ![n - 1] = g]
    BY <1>10, <1>12
  <2>2. /\ \A d \in 1..(n - 2) : d \in 1..n /\ d \in 1..(n - 1) /\ d # n - 1
        /\ n - 1 \in 1..(n - 1)
    BY <1>1, <1>2
  <2>3. \A d \in 1..(n - 1) : f[d] = bufs[d]
    BY <1>10
  <2> HIDE DEF f
  <2>4. /\ Len(bufs') = n - 1 /\ bufs'[n - 1] = g
        /\ \A d \in 1..(n - 1) : d # n - 1 => bufs'[d] = f[d]
    BY <2>1, <2>2
  <2> QED BY <2>2, <2>3, <2>4
<1>14. /\ \A d \in 1..n : d \in 1..(n - 2) \/ d = n - 1 \/ d = n
       /\ \A d \in 1..(n - 1) : d \in 1..(n - 2) \/ d = n - 1
  BY <1>1, <1>2
<1>15. Fills(bufs', m)
  <2>1. \A d \in 1..(n - 2) : bufs[d].len = l.slots[d].len /\ Clean(bufs[d], l.slots[d].order)
    BY <1>3, <1>13 DEF Fills, n
  <2> QED BY <1>5, <1>11, <1>13, <1>14, <2>1 DEF Fills
<1>16. ASSUME NEW i \in Nat, NEW f \in Token, NEW stream, NEW d \in 1..n,
              Has(bufs[d], l.slots[d], i, f, stream)
       PROVE  \E e \in 1..(n - 1) : Has(bufs'[e], m.slots[e], i, f, stream)
  <2>1. CASE d = n \/ d = n - 1
    <3>1. Has(bufs'[n - 1], m.slots[n - 1], i, f, stream)
      BY <1>2, <1>5, <1>6, <1>11, <1>13, <1>16, <2>1
    <3> QED BY <1>12, <3>1
  <2>2. CASE d \in 1..(n - 2)
    <3>1. Has(bufs'[d], m.slots[d], i, f, stream) /\ d \in 1..(n - 1)
      BY <1>1, <1>2, <1>5, <1>13, <1>16, <2>2
    <3> QED BY <3>1
  <2> QED BY <1>14, <2>1, <2>2
<1>17. Carried(bufs, l, bufs', m)
  BY <1>13, <1>16 DEF Carried, n
<1>18. at + 1 <= Len(ls) /\ order' = m.noted /\ Len(written') = m.fields /\ Extends(written', written)
  BY <1>3, <1>4, <1>5, <1>9, SameExtends
<1> QED BY <1>1, <1>4, <1>5, <1>9, <1>15, <1>17, <1>18, EncodingGoesOn DEF l

(* The layout before the first token.                                      *)
LEMMA LayoutBegins ==
  ASSUME NEW ls \in Seq(Layout), NEW p, LaidOut(ls, p)
  PROVE  /\ Len(ls) \in Nat \ {0} /\ Proper(ls[1]) /\ Len(ls[1].slots) = 1
         /\ ls[1].slots[1].start = 0 /\ ls[1].slots[1].len = 0
         /\ ls[1].noted = "none" /\ ls[1].fields = 0
<1> DEFINE l == ls[1]
           s == l.slots[1]
<1>1. /\ ls # <<>> /\ Len(l.slots) = 1 /\ l.noted = "none" /\ l.fields = 0
      /\ s.start = 0 /\ s.len = 0
  BY DEF LaidOut
<1>2. Len(ls) \in Nat \ {0}
  BY <1>1, EmptySeq
<1>3. l \in Layout
  BY <1>2, ElementOfSeq
<1>4. l.slots \in Seq(Slot)
  BY <1>3 DEF Layout
<1>5. s \in Slot /\ l.slots # <<>>
  BY <1>1, <1>4, ElementOfSeq
<1>6. s.end \in Nat
  BY <1>5 DEF Slot
<1> HIDE DEF s
<1>7. \A d \in 1..1 : d = 1
  OBVIOUS
<1>8. s.start + s.len <= s.end /\ s.end <= s.end
  BY <1>1, <1>6
<1>9. Proper(l)
  BY <1>1, <1>3, <1>5, <1>7, <1>8 DEF Proper, s
<1> QED BY <1>1, <1>2, <1>9 DEF s

(* Before the first token.                                                 *)
LEMMA EncodingBegins ==
  ASSUME NEW ls \in Seq(Layout), LaidOut(ls, program), Init
  PROVE  Encoding(ls)
<1> DEFINE l == ls[1]
           buf == [ones |-> {}, len |-> 0]
<1>1. at = 1 /\ bufs = <<buf>> /\ written = <<>> /\ order = "none"
  BY DEF Init
<1>2. /\ Len(ls) \in Nat \ {0} /\ Proper(l) /\ Len(l.slots) = 1 /\ l.slots[1].len = 0
      /\ l.noted = "none" /\ l.fields = 0
  BY LayoutBegins
<1>3. Len(bufs) = 1 /\ bufs[1] = buf /\ buf.len = 0
  BY <1>1
<1>4. Clean(buf, l.slots[1].order)
  BY DEF Clean
<1> HIDE DEF buf, l
<1>5. Fills(bufs, l)
  <2>1. bufs[1].len = l.slots[1].len /\ Clean(bufs[1], l.slots[1].order)
    BY <1>2, <1>3, <1>4
  <2>2. \A d \in 1..1 : d = 1
    OBVIOUS
  <2> QED BY <1>2, <1>3, <2>1, <2>2 DEF Fills
<1>6. Len(written) = 0 /\ at <= Len(ls) /\ 1..(at - 1) = {}
  BY <1>1, <1>2
<1> QED BY <1>1, <1>2, <1>5, <1>6 DEF Encoding, l

(* The message has the fields where the layout says.                       *)
Message(ls) ==
  /\ Len(ls) = Len(program) + 1
  /\ bufs[1].len = ls[1].slots[1].end /\ Len(written) = ls[Len(ls)].fields
  /\ \A k \in 1..Len(program) : program[k].op = "field" =>
       LET t == program[k] IN
       /\ ls[k].fields + 1 \in 1..Len(written) /\ StartOf(ls[k], t) \in Nat
       /\ \E v \in SUBSET (0..(t.width - 1)) :
            /\ written[ls[k].fields + 1] = Number(v, t.width, t.kind)
            /\ StreamOf(bufs[1].ones, StartOf(ls[k], t), t.width, t.bitOrder) = FieldStream(v, t)

(* After the last token.                                                   *)
LEMMA EncodingEnds ==
  ASSUME NEW ls \in Seq(Layout), LaidOut(ls, program), Inv, Encoding(ls), ~More
  PROVE  Message(ls)
<1>1. program \in Seq(Token) /\ Len(program) \in Nat /\ Len(ls) \in Nat
  BY ProgramsAssumption DEF Inv, TypeOK
<1>2. at = Len(program) + 1
  BY <1>1 DEF Inv, TypeOK, More
<1>3. Len(ls) = Len(program) + 1 /\ at = Len(ls)
  BY <1>1, <1>2 DEF Encoding, LaidOut
<1> DEFINE l == ls[at]
           s == l.slots[1]
<1>4. Len(l.slots) = 1 /\ s.len = s.end
  BY <1>3 DEF LaidOut
<1>5. s.end = ls[1].slots[1].end /\ s.start = 0 /\ Len(bufs) = 1 /\ bufs[1].len = s.len
  BY <1>4 DEF Encoding, Fills, Proper
<1>6. Len(written) = ls[Len(ls)].fields
  BY <1>3 DEF Encoding
<1> HIDE DEF s, l
<1>7. ASSUME NEW k \in 1..Len(program), program[k].op = "field"
      PROVE  LET t == program[k] IN
             /\ ls[k].fields + 1 \in 1..Len(written) /\ StartOf(ls[k], t) \in Nat
             /\ \E v \in SUBSET (0..(t.width - 1)) :
                  /\ written[ls[k].fields + 1] = Number(v, t.width, t.kind)
                  /\ StreamOf(bufs[1].ones, StartOf(ls[k], t), t.width, t.bitOrder) = FieldStream(v, t)
  <2> DEFINE t == program[k]
             i == StartOf(ls[k], t)
  <2>1. Stored(ls, k)
    BY <1>1, <1>2, <1>7 DEF Encoding
  <2>2. PICK v \in SUBSET (0..(t.width - 1)) :
          /\ written[ls[k].fields + 1] = Number(v, t.width, t.kind)
          /\ \E d \in 1..Len(bufs) : Has(bufs[d], l.slots[d], i, t, FieldStream(v, t))
    BY <2>1 DEF Stored, l
  <2>3. ls[k].fields + 1 \in 1..Len(written) /\ i \in Nat
    BY <2>1 DEF Stored
  <2> HIDE DEF i, t
  <2>4. Has(bufs[1], s, i, t, FieldStream(v, t))
    BY <1>5, <2>2 DEF s
  <2>5. i - s.start = i
    BY <1>5, <2>3
  <2>6. StreamOf(bufs[1].ones, i, t.width, t.bitOrder) = FieldStream(v, t)
    BY <2>4, <2>5 DEF Has, Keeps
  <2> QED BY <2>2, <2>3, <2>6 DEF i, t
<1> QED BY <1>3, <1>4, <1>5, <1>6, <1>7 DEF Message

----------------------------------------------------------------------------
(* The decoder.                                                            *)

(* The limits of the decoder are the ends of the slots, the outermost      *)
(* excepted when the number of bits was not given.                         *)
Limited(lims, l) ==
  \E e \in {0, 1} :
    /\ Len(lims) + e = Len(l.slots)
    /\ \A d \in 1..Len(lims) : lims[d] = l.slots[d + e].end

(* The decoder follows the layout, and when the message is whole it has    *)
(* read what was written.                                                  *)
Decoding(ls) ==
  /\ Proper(ls[at]) /\ ls[at].slots[1].end = ls[1].slots[1].end
  /\ data.ones = {x \in bufs[1].ones : x[1] < data.len}
  /\ idx = Inner(ls[at]).start + Inner(ls[at]).len
  /\ order \in {"none", ls[at].noted}
  /\ Limited(limits, ls[at])
  /\ Len(values) = ls[at].fields
  /\ data.len >= Sent => \A i \in 1..Len(values) : values[i] = written[i]

(* The decoder stops early only when bytes are missing.                    *)
Stopped == phase' = "rejected" /\ ~(data.len >= Sent)

(* The current limit is the end of the innermost slot.                     *)
LEMMA LimitIsEnd ==
  ASSUME NEW l, Proper(l), NEW lims \in Seq(Nat), Limited(lims, l), lims # <<>>
  PROVE  Last(lims) = Inner(l).end
<1>1. PICK e \in {0, 1} : /\ Len(lims) + e = Len(l.slots)
                          /\ \A d \in 1..Len(lims) : lims[d] = l.slots[d + e].end
  BY DEF Limited
<1>2. Len(lims) \in Nat \ {0}
  BY EmptySeq
<1>3. Len(lims) \in 1..Len(lims)
  BY <1>2
<1>4. lims[Len(lims)] = l.slots[Len(lims) + e].end
  BY <1>1, <1>3
<1> QED BY <1>1, <1>4 DEF Last, Inner

(* Bits of the innermost slot may be read, when they are there.            *)
LEMMA ReadableInSlot ==
  ASSUME NEW ls, Inv, Message(ls), Decoding(ls), NEW i \in Nat, NEW n \in Nat,
         i + n <= Inner(ls[at]).end
  PROVE  InFrame(i, n) /\ (data.len >= Sent => InData(i, n))
<1> DEFINE l == ls[at]
<1>1. Proper(l) /\ Limited(limits, l) /\ limits \in Seq(Nat)
  BY DEF Decoding, Inv, TypeOK
<1>2. InFrame(i, n)
  BY <1>1, LimitIsEnd DEF InFrame
<1>3. /\ Inner(l) = l.slots[Len(l.slots)] /\ Len(l.slots) \in Nat \ {0}
      /\ \A d \in 1..Len(l.slots) : l.slots[d] \in Slot
  BY <1>1, InnerFacts
<1>4. Len(l.slots) \in 1..Len(l.slots) /\ 1 \in 1..Len(l.slots)
  BY <1>3
<1>5. Inner(l).end <= l.slots[1].end /\ Inner(l).end \in Nat /\ l.slots[1].end \in Nat
  BY <1>1, <1>3, <1>4 DEF Proper, Slot
<1>6. l.slots[1].end = bufs[1].len
  BY DEF Decoding, Message
<1>7. data.len \in Nat
  BY DEF Inv, TypeOK, Bytes
<1> HIDE DEF l
<1>8. i + n <= bufs[1].len /\ bufs[1].len \in Nat
  BY <1>5, <1>6 DEF l
<1>9. data.len >= Sent => i + n <= 8 * data.len
  BY <1>7, <1>8 DEF Sent, CeilBytes
<1> QED BY <1>2, <1>9 DEF InData

(* A token that the decoder reads is one that the encoder wrote.           *)
LEMMA DecodingFacts ==
  ASSUME NEW ls \in Seq(Layout), LaidOut(ls, program), Inv, Message(ls), Decoding(ls), More
  PROVE  /\ at \in 1..(Len(ls) - 1) /\ at \in 1..Len(program) /\ Tok = program[at] /\ Tok \in Token
         /\ Fits(ls[at], Tok) /\ ls[at + 1] = After(ls[at], Tok)
         /\ Proper(ls[at]) /\ Inner(ls[at]) \in Slot
<1>1. program \in Seq(Token) /\ at \in 1..Len(program) /\ Len(program) \in Nat
  BY ProgramsAssumption DEF Inv, TypeOK, More
<1>2. at \in 1..(Len(ls) - 1)
  BY <1>1 DEF Message
<1>3. Proper(ls[at])
  BY DEF Decoding
<1>4. Tok \in Token
  BY TokType DEF Inv
<1> QED BY <1>1, <1>2, <1>3, <1>4, InnerFacts DEF LaidOut, Tok

(* A token begins where the encoder began it.                              *)
LEMMA BeginsThere ==
  ASSUME NEW ls, Inv, Message(ls), Decoding(ls), Tok \in Token, Inner(ls[at]) \in Slot,
         NEW n \in Nat, Begins(ls[at], Tok, n)
  PROVE  LET i == StartOf(ls[at], Tok)  k == Skip(idx, Tok.align)  b == Begun(Inner(ls[at]), Tok) IN
         /\ i \in Nat /\ i = FramedStart(Tok, idx) /\ i = b.start + b.len
         /\ b.start = Inner(ls[at]).start /\ b.end = Inner(ls[at]).end
         /\ InFrame(idx, k) /\ InFrame(i, n)
         /\ data.len >= Sent => InData(idx, k) /\ InData(i, n)
<1> DEFINE s == Inner(ls[at])
           b == Begun(s, Tok)
           i == StartOf(ls[at], Tok)
           k == Skip(idx, Tok.align)
<1>1. idx = s.start + s.len
  BY DEF Decoding
<1>2. /\ Skip(s.start + s.len, Tok.align) = Skip(s.len, Tok.align)
      /\ FramedStart(Tok, s.start + s.len) = i
      /\ i + n <= s.end
  BY DEF Begins
<1>3. k = Skip(s.len, Tok.align) /\ FramedStart(Tok, idx) = i
  BY <1>1, <1>2
<1>4. /\ b.start = s.start /\ b.end = s.end /\ b.len = s.len + Skip(s.len, Tok.align)
      /\ Skip(s.len, Tok.align) \in Nat
  BY BegunFacts
<1>5. i = s.start + b.len /\ i = b.start + b.len
  BY <1>4 DEF StartOf
<1> HIDE DEF i, k, b
<1>6. s.start \in Nat /\ s.len \in Nat /\ s.end \in Nat
  BY DEF Slot
<1> HIDE DEF s
<1>7. i \in Nat /\ k \in Nat /\ idx \in Nat /\ idx + k <= s.end
  BY <1>1, <1>2, <1>3, <1>4, <1>5, <1>6
<1>8. InFrame(idx, k) /\ (data.len >= Sent => InData(idx, k))
  BY <1>7, ReadableInSlot DEF s
<1>9. InFrame(i, n) /\ (data.len >= Sent => InData(i, n))
  BY <1>2, <1>7, ReadableInSlot DEF s
<1> QED BY <1>3, <1>4, <1>5, <1>7, <1>8, <1>9 DEF i, k, b, s

(* The decoder follows the layout over a token.                            *)
LEMMA DecodingGoesOn ==
  ASSUME NEW ls, Inv, Message(ls), Decoding(ls), DecodeStep,
         Proper(ls[at + 1]), ls[at + 1].slots[1].end = ls[at].slots[1].end,
         idx' = Inner(ls[at + 1]).start + Inner(ls[at + 1]).len,
         order' \in {"none", ls[at + 1].noted}, Limited(limits', ls[at + 1]),
         Len(values') = ls[at + 1].fields,
         data.len >= Sent => \A i \in 1..Len(values') : values'[i] = written[i]
  PROVE  Decoding(ls)'
<1>1. /\ at' = at + 1 /\ UNCHANGED <<bufs, written, data>>
  BY DEF DecodeStep
<1>2. Sent' = Sent
  BY <1>1 DEF Sent
<1>3. ls[at + 1].slots[1].end = ls[1].slots[1].end
  BY DEF Decoding
<1>4. data'.ones = {x \in bufs'[1].ones : x[1] < data'.len}
  BY <1>1 DEF Decoding
<1>5. data'.len >= Sent' => \A i \in 1..Len(values') : values'[i] = written'[i]
  BY <1>1, <1>2
<1> QED BY <1>1, <1>3, <1>4, <1>5 DEF Decoding

(* The limits are those of a layout with the same ends.                    *)
LEMMA LimitedAlike ==
  ASSUME NEW lims, NEW l, NEW m, Len(lims) \in Nat, Limited(lims, l), Len(m.slots) = Len(l.slots),
         \A d \in 1..Len(l.slots) : m.slots[d].end = l.slots[d].end
  PROVE  Limited(lims, m)
<1>1. PICK e \in {0, 1} : /\ Len(lims) + e = Len(l.slots)
                          /\ \A d \in 1..Len(lims) : lims[d] = l.slots[d + e].end
  BY DEF Limited
<1>2. \A d \in 1..Len(lims) : d + e \in 1..Len(l.slots)
  BY <1>1
<1>3. \A d \in 1..Len(lims) : lims[d] = m.slots[d + e].end
  BY <1>1, <1>2
<1> QED BY <1>1, <1>3 DEF Limited

(* The values read grow by the one written.                                *)
LEMMA ValuesGrow ==
  ASSUME NEW vs \in Seq(SUBSET Nat), NEW v \in SUBSET Nat, NEW us,
         \A i \in 1..Len(vs) : vs[i] = us[i], us[Len(vs) + 1] = v
  PROVE  \A i \in 1..Len(Append(vs, v)) : Append(vs, v)[i] = us[i]
<1>1. Len(Append(vs, v)) = Len(vs) + 1 /\ Len(vs) \in Nat
  OBVIOUS
<1>2. \A i \in 1..Len(vs) : Append(vs, v)[i] = vs[i]
  OBVIOUS
<1>3. Append(vs, v)[Len(vs) + 1] = v
  OBVIOUS
<1>4. \A i \in 1..(Len(vs) + 1) : i \in 1..Len(vs) \/ i = Len(vs) + 1
  BY <1>1
<1> QED BY <1>1, <1>2, <1>3, <1>4

(* The bits of a field that arrived are those of the message.              *)
LEMMA SameStream ==
  ASSUME Inv, NEW ls, Decoding(ls), NEW i \in Nat, NEW n \in Nat, NEW o \in Orders, InData(i, n)
  PROVE  StreamOf(data.ones, i, n, o) = StreamOf(bufs[1].ones, i, n, o)
<1>1. data.len \in Nat
  BY DEF Inv, TypeOK, Bytes
<1>2. data.ones = {x \in bufs[1].ones : x[1] < data.len}
  BY DEF Decoding
<1>3. \A k \in 0..(n - 1) : (i + k) \div 8 < data.len
  <2> TAKE k \in 0..(n - 1)
  <2>1. n # 0 /\ i + n <= 8 * data.len /\ i + k < i + n
    BY DEF InData
  <2>2. i + k \in Nat /\ i + k < 8 * data.len
    BY <1>1, <2>1
  <2> QED BY <1>1, <2>2
<1> DEFINE x(k) == <<(i + k) \div 8, BitAt(i + k, o)>>
<1>4. \A k \in 0..(n - 1) : x(k)[1] < data.len
  BY <1>3
<1>5. \A k \in 0..(n - 1) : x(k) \in data.ones <=> x(k) \in bufs[1].ones
  <2> HIDE DEF x
  <2> QED BY <1>2, <1>4
<1> QED BY <1>5 DEF StreamOf

(* A field.                                                                *)
LEMMA DecodingField ==
  ASSUME NEW ls \in Seq(Layout), LaidOut(ls, program), Inv, Message(ls), Decoding(ls), ReadField
  PROVE  Stopped \/ (phase' = "decode" /\ Decoding(ls)')
<1> DEFINE l == ls[at]
           m == After(l, Tok)
           n == Len(l.slots)
           b == Begun(Inner(l), Tok)
           c == WithField(b, Tok)
           i == StartOf(l, Tok)
           k == Skip(idx, Tok.align)
<1>1. More /\ Tok.op = "field" /\ phase = "decode"
  BY DEF ReadField, Reading
<1>2. /\ at \in 1..(Len(ls) - 1) /\ at \in 1..Len(program) /\ Tok = program[at] /\ Tok \in Token
      /\ Fits(l, Tok) /\ ls[at + 1] = m /\ Proper(l) /\ Inner(l) \in Slot
  BY <1>1, DecodingFacts
<1>3. /\ Begins(l, Tok, Tok.width) /\ ChangesAtByte(l, Tok) /\ ~(ByBytes(Tok) /\ Tok.kind = "Long")
  BY <1>1, <1>2 DEF Fits
<1>4. Tok.width \in Nat /\ Tok.bitOrder \in Orders
  BY <1>2 DEF Token
<1>5. /\ i \in Nat /\ i = FramedStart(Tok, idx) /\ i = b.start + b.len
      /\ b.start = Inner(l).start /\ b.end = Inner(l).end
      /\ InFrame(idx, k) /\ InFrame(i, Tok.width)
      /\ data.len >= Sent => InData(idx, k) /\ InData(i, Tok.width)
  BY <1>2, <1>3, <1>4, BeginsThere
<1>6. ChangeAllowed(Tok, i)
  BY <1>3 DEF ChangeAllowed, ChangesAtByte, Changes, Decoding
<1>7. CASE phase' = "rejected"
  <2>1. ~(Readable(idx, k) /\ ChangeAllowed(Tok, i) /\ FieldReadable(Tok, i))
    BY <1>1, <1>5, <1>7 DEF ReadField, DecodeStep
  <2>2. ~(data.len >= Sent)
    BY <1>5, <1>6, <2>1 DEF Readable, FieldReadable
  <2> QED BY <1>7, <2>2 DEF Stopped
<1>8. CASE phase' # "rejected"
  <2>1. /\ idx' = i + Tok.width /\ values' = Append(values, FieldValue(Tok, i))
        /\ order' = Noted(Tok) /\ limits' = limits /\ DecodeStep /\ InData(i, Tok.width)
    BY <1>5, <1>8 DEF ReadField, Reject, FieldReadable
  <2>2. /\ Proper(m) /\ Len(m.slots) = n
        /\ \A d \in 1..(n - 1) : m.slots[d] = l.slots[d]
        /\ m.slots[n] = c /\ m.slots[1].end = l.slots[1].end
        /\ m.noted = NotedIn(l, Tok) /\ m.fields = l.fields + 1
    BY <1>1, <1>2, AfterField
  <2>3. b \in Slot /\ n \in Nat \ {0} /\ Inner(l) = l.slots[n]
    BY <1>2, BegunFacts, InnerFacts
  <2>4. c.start = b.start /\ c.end = b.end /\ c.len = b.len + Tok.width
    BY <1>4, <2>3, GrownType DEF WithField
  <2>5. b.start \in Nat /\ b.len \in Nat
    BY <2>3 DEF Slot
  <2>6. Inner(m) = c
    BY <2>2 DEF Inner, Last
  <2>7. StreamOf(data.ones, i, Tok.width, Tok.bitOrder) = StreamOf(bufs[1].ones, i, Tok.width, Tok.bitOrder)
    BY <1>4, <1>5, <2>1, SameStream
  <2>8. /\ l.fields + 1 \in 1..Len(written)
        /\ \E v \in SUBSET (0..(Tok.width - 1)) :
             /\ written[l.fields + 1] = Number(v, Tok.width, Tok.kind)
             /\ StreamOf(bufs[1].ones, i, Tok.width, Tok.bitOrder) = FieldStream(v, Tok)
    BY <1>1, <1>2 DEF Message
  <2>9. PICK v \in SUBSET (0..(Tok.width - 1)) :
          /\ written[l.fields + 1] = Number(v, Tok.width, Tok.kind)
          /\ StreamOf(bufs[1].ones, i, Tok.width, Tok.bitOrder) = FieldStream(v, Tok)
    BY <2>8
  <2>10. FieldValue(Tok, i) = Number(v, Tok.width, Tok.kind)
    BY <1>2, <1>3, <1>5, <2>7, <2>9, FieldReadBack
  <2>11. Number(v, Tok.width, Tok.kind) \in SUBSET Nat
    <3>1. v \in SUBSET Nat /\ Tok.width \in Nat
      BY <1>4
    <3> QED BY <3>1, NumberType
  <2>12. order' \in {"none", m.noted} /\ Len(values) = l.fields /\ Limited(limits, l)
         /\ values \in Seq(SUBSET Nat) /\ limits \in Seq(Nat)
    BY <2>1, <2>2 DEF Decoding, Noted, NotedIn, Inv, TypeOK
  <2>13. data.len >= Sent => \A j \in 1..Len(values) : values[j] = written[j]
    BY DEF Decoding
  <2> HIDE DEF l, m, n, b, c, i
  <2>14. idx' = Inner(m).start + Inner(m).len
    BY <1>4, <1>5, <2>1, <2>4, <2>5, <2>6
  <2>15. \A d \in 1..n : m.slots[d].end = l.slots[d].end
    <3>1. \A d \in 1..n : d \in 1..(n - 1) \/ d = n
      BY <2>3
    <3> QED BY <1>5, <2>2, <2>3, <2>4, <3>1
  <2>16. Limited(limits', m)
    <3>1. /\ Len(limits') \in Nat /\ Limited(limits', l) /\ Len(m.slots) = Len(l.slots)
          /\ \A d \in 1..Len(l.slots) : m.slots[d].end = l.slots[d].end
      BY <2>1, <2>2, <2>12, <2>15 DEF n
    <3> QED BY <3>1, LimitedAlike
  <2>17. Len(values') = m.fields
    BY <2>1, <2>2, <2>10, <2>11, <2>12
  <2>18. data.len >= Sent => \A j \in 1..Len(values') : values'[j] = written[j]
    BY <2>1, <2>9, <2>10, <2>11, <2>12, <2>13, ValuesGrow
  <2>19. phase' = "decode"
    BY <1>1, <2>1 DEF DecodeStep
  <2>20. Decoding(ls)'
    BY <1>2, <2>1, <2>2, <2>12, <2>14, <2>16, <2>17, <2>18, DecodingGoesOn DEF l
  <2> QED BY <2>19, <2>20
<1> QED BY <1>7, <1>8

(* The start of a group.                                                   *)
LEMMA DecodingGroup ==
  ASSUME NEW ls \in Seq(Layout), LaidOut(ls, program), Inv, Message(ls), Decoding(ls), ReadGroup
  PROVE  Stopped \/ (phase' = "decode" /\ Decoding(ls)')
<1> DEFINE l == ls[at]
           m == After(l, Tok)
           n == Len(l.slots)
           b == Begun(Inner(l), Tok)
           i == StartOf(l, Tok)
           k == Skip(idx, Tok.align)
<1>1. More /\ Tok.op = "group" /\ phase = "decode"
  BY DEF ReadGroup, Reading
<1>2. /\ at \in 1..(Len(ls) - 1) /\ Tok \in Token
      /\ Fits(l, Tok) /\ ls[at + 1] = m /\ Proper(l) /\ Inner(l) \in Slot
  BY <1>1, DecodingFacts
<1>3. Begins(l, Tok, 0)
  BY <1>1, <1>2 DEF Fits
<1>4. /\ i \in Nat /\ i = FramedStart(Tok, idx) /\ i = b.start + b.len
      /\ b.start = Inner(l).start /\ b.end = Inner(l).end
      /\ InFrame(idx, k)
      /\ data.len >= Sent => InData(idx, k)
  <2>1. 0 \in Nat
    OBVIOUS
  <2> QED BY <1>2, <1>3, <2>1, BeginsThere
<1>5. CASE phase' = "rejected"
  <2>1. ~Readable(idx, k)
    BY <1>1, <1>5 DEF ReadGroup, DecodeStep
  <2>2. ~(data.len >= Sent)
    BY <1>4, <2>1 DEF Readable
  <2> QED BY <1>5, <2>2 DEF Stopped
<1>6. CASE phase' # "rejected"
  <2>1. idx' = i /\ values' = values /\ order' = "none" /\ limits' = limits /\ DecodeStep
    BY <1>4, <1>6 DEF ReadGroup, Reject
  <2>2. /\ Proper(m) /\ Len(m.slots) = n
        /\ \A d \in 1..(n - 1) : m.slots[d] = l.slots[d]
        /\ m.slots[n] = b /\ m.slots[1].end = l.slots[1].end
        /\ m.noted = l.noted /\ m.fields = l.fields
    BY <1>1, <1>2, AfterGroup
  <2>3. n \in Nat \ {0} /\ Inner(l) = l.slots[n]
    BY <1>2, InnerFacts
  <2>4. Inner(m) = b
    BY <2>2 DEF Inner, Last
  <2>5. Len(values) = l.fields /\ Limited(limits, l) /\ limits \in Seq(Nat)
    BY DEF Decoding, Inv, TypeOK
  <2>6. data.len >= Sent => \A j \in 1..Len(values) : values[j] = written[j]
    BY DEF Decoding
  <2> HIDE DEF l, m, n, b, i
  <2>7. idx' = Inner(m).start + Inner(m).len
    BY <1>4, <2>1, <2>4
  <2>8. \A d \in 1..n : m.slots[d].end = l.slots[d].end
    <3>1. \A d \in 1..n : d \in 1..(n - 1) \/ d = n
      BY <2>3
    <3> QED BY <1>4, <2>2, <2>3, <3>1
  <2>9. Limited(limits', m)
    <3>1. /\ Len(limits') \in Nat /\ Limited(limits', l) /\ Len(m.slots) = Len(l.slots)
          /\ \A d \in 1..Len(l.slots) : m.slots[d].end = l.slots[d].end
      BY <2>1, <2>2, <2>5, <2>8 DEF n
    <3> QED BY <3>1, LimitedAlike
  <2>10. /\ Len(values') = m.fields /\ order' \in {"none", m.noted}
         /\ data.len >= Sent => \A j \in 1..Len(values') : values'[j] = written[j]
    BY <2>1, <2>2, <2>5, <2>6
  <2>11. phase' = "decode"
    BY <1>1, <2>1 DEF DecodeStep
  <2>12. Decoding(ls)'
    BY <1>2, <2>1, <2>2, <2>7, <2>9, <2>10, DecodingGoesOn DEF l
  <2> QED BY <2>11, <2>12
<1> QED BY <1>5, <1>6

(* The end of a group.                                                     *)
LEMMA DecodingGroupEnd ==
  ASSUME NEW ls \in Seq(Layout), LaidOut(ls, program), Inv, Message(ls), Decoding(ls), ReadGroupEnd
  PROVE  phase' = "decode" /\ Decoding(ls)'
<1> DEFINE l == ls[at]
           m == After(l, Tok)
<1>1. /\ More /\ Tok.op = "endgroup" /\ phase = "decode"
      /\ order' = "none" /\ UNCHANGED <<idx, limits, values>> /\ DecodeStep
  BY DEF ReadGroupEnd, Reading
<1>2. Tok \in Token /\ ls[at + 1] = m /\ Proper(l)
  BY <1>1, DecodingFacts
<1>3. Proper(m) /\ m.slots = l.slots /\ m.fields = l.fields
  BY <1>1, <1>2, AfterGroupEnd
<1>4. /\ idx = Inner(l).start + Inner(l).len /\ Limited(limits, l) /\ Len(values) = l.fields
      /\ data.len >= Sent => \A j \in 1..Len(values) : values[j] = written[j]
  BY DEF Decoding
<1> HIDE DEF l, m
<1>5. Inner(m) = Inner(l)
  BY <1>3 DEF Inner
<1>6. Limited(limits', m)
  BY <1>1, <1>3, <1>4 DEF Limited
<1>7. /\ idx' = Inner(m).start + Inner(m).len /\ Len(values') = m.fields
      /\ order' \in {"none", m.noted} /\ m.slots[1].end = l.slots[1].end
      /\ data.len >= Sent => \A j \in 1..Len(values') : values'[j] = written[j]
  BY <1>1, <1>3, <1>4, <1>5
<1>8. phase' = "decode"
  BY <1>1 DEF DecodeStep
<1>9. Decoding(ls)'
  BY <1>1, <1>2, <1>3, <1>6, <1>7, DecodingGoesOn DEF l
<1> QED BY <1>8, <1>9

(* The start of a frame.                                                   *)
LEMMA DecodingFrame ==
  ASSUME NEW ls \in Seq(Layout), LaidOut(ls, program), Inv, Message(ls), Decoding(ls), ReadFrame
  PROVE  Stopped \/ (phase' = "decode" /\ Decoding(ls)')
<1> DEFINE l == ls[at]
           m == After(l, Tok)
           n == Len(l.slots)
           b == Begun(Inner(l), Tok)
           i == StartOf(l, Tok)
           k == Skip(idx, Tok.align)
           new == [start |-> b.start + b.len, len |-> 0, end |-> b.start + b.len + Tok.width,
                   order |-> "none", orders |-> {}]
<1>1. More /\ Tok.op = "frame" /\ phase = "decode"
  BY DEF ReadFrame, Reading
<1>2. /\ at \in 1..(Len(ls) - 1) /\ Tok \in Token
      /\ Fits(l, Tok) /\ ls[at + 1] = m /\ Proper(l) /\ Inner(l) \in Slot
  BY <1>1, DecodingFacts
<1>3. Begins(l, Tok, Tok.width) /\ Tok.width \in Nat
  BY <1>1, <1>2 DEF Fits, Token
<1>4. /\ i \in Nat /\ i = FramedStart(Tok, idx) /\ i = b.start + b.len
      /\ b.start = Inner(l).start /\ b.end = Inner(l).end
      /\ InFrame(idx, k)
      /\ data.len >= Sent => InData(idx, k)
  BY <1>2, <1>3, BeginsThere
<1>5. CASE phase' = "rejected"
  <2>1. ~Readable(idx, k)
    BY <1>1, <1>5 DEF ReadFrame, DecodeStep
  <2>2. ~(data.len >= Sent)
    BY <1>4, <2>1 DEF Readable
  <2> QED BY <1>5, <2>2 DEF Stopped
<1>6. CASE phase' # "rejected"
  <2>1. /\ idx' = i /\ values' = values /\ order' = "none" /\ DecodeStep
        /\ limits' = Append(limits, i + Tok.width)
    BY <1>4, <1>6 DEF ReadFrame, Reject
  <2>2. /\ Proper(m) /\ Len(m.slots) = n + 1
        /\ \A d \in 1..(n - 1) : m.slots[d] = l.slots[d]
        /\ m.slots[n] = b
        /\ m.slots[n + 1] = new
        /\ m.slots[1].end = l.slots[1].end
        /\ m.noted = l.noted /\ m.fields = l.fields
    BY <1>1, <1>2, AfterFrame
  <2>3. n \in Nat \ {0} /\ Inner(l) = l.slots[n] /\ b \in Slot
    BY <1>2, InnerFacts, BegunFacts
  <2>4. Inner(m) = new
    BY <2>2 DEF Inner, Last
  <2>5. Len(values) = l.fields /\ Limited(limits, l) /\ limits \in Seq(Nat)
    BY DEF Decoding, Inv, TypeOK
  <2>6. data.len >= Sent => \A j \in 1..Len(values) : values[j] = written[j]
    BY DEF Decoding
  <2>7. new.start = i /\ new.len = 0 /\ new.end = i + Tok.width
    BY <1>4
  <2> HIDE DEF l, m, n, b, i, new
  <2>8. idx' = Inner(m).start + Inner(m).len
    BY <1>4, <2>1, <2>4, <2>7
  <2>9. \A d \in 1..n : m.slots[d].end = l.slots[d].end
    <3>1. \A d \in 1..n : d \in 1..(n - 1) \/ d = n
      BY <2>3
    <3> QED BY <1>4, <2>2, <2>3, <3>1
  <2>10. Limited(limits', m)
    <3>1. PICK e \in {0, 1} : /\ Len(limits) + e = n
                              /\ \A d \in 1..Len(limits) : limits[d] = l.slots[d + e].end
      BY <2>5 DEF Limited, n
    <3>2. /\ Len(limits) \in Nat /\ Len(limits') = Len(limits) + 1
          /\ limits'[Len(limits) + 1] = i + Tok.width
          /\ \A d \in 1..Len(limits) : limits'[d] = limits[d]
      BY <1>3, <1>4, <2>1, <2>5
    <3>3. \A d \in 1..Len(limits) : d + e \in 1..n
      BY <3>1, <3>2
    <3>4. \A d \in 1..Len(limits) : limits'[d] = m.slots[d + e].end
      BY <2>9, <3>1, <3>2, <3>3
    <3>5. limits'[Len(limits) + 1] = m.slots[(Len(limits) + 1) + e].end
      <4>1. (Len(limits) + 1) + e = n + 1
        BY <3>1, <3>2
      <4> QED BY <2>2, <2>7, <3>2, <4>1
    <3>6. \A d \in 1..Len(limits') : d \in 1..Len(limits) \/ d = Len(limits) + 1
      BY <3>2
    <3>7. Len(limits') + e = Len(m.slots)
      BY <2>2, <3>1, <3>2
    <3>8. \A d \in 1..Len(limits') : limits'[d] = m.slots[d + e].end
      BY <3>4, <3>5, <3>6
    <3> QED BY <3>7, <3>8 DEF Limited
  <2>11. /\ Len(values') = m.fields /\ order' \in {"none", m.noted}
         /\ data.len >= Sent => \A j \in 1..Len(values') : values'[j] = written[j]
    BY <2>1, <2>2, <2>5, <2>6
  <2>12. phase' = "decode"
    BY <1>1, <2>1 DEF DecodeStep
  <2>13. Decoding(ls)'
    BY <1>2, <2>1, <2>2, <2>8, <2>10, <2>11, DecodingGoesOn DEF l
  <2> QED BY <2>12, <2>13
<1> QED BY <1>5, <1>6

(* The end of a frame: the rest of it is skipped.                          *)
LEMMA DecodingFrameEnd ==
  ASSUME NEW ls \in Seq(Layout), LaidOut(ls, program), Inv, Message(ls), Decoding(ls), ReadFrameEnd
  PROVE  Stopped \/ (phase' = "decode" /\ Decoding(ls)')
<1> DEFINE l == ls[at]
           m == After(l, Tok)
           n == Len(l.slots)
           s == Inner(l)
           o == Outer(l)
           c == Grown(o, Tok.width, Tok.bitOrder, s.orders \union {Tok.bitOrder})
           k == IF Last(limits) > idx THEN Last(limits) - idx ELSE 0
<1>1. More /\ Tok.op = "endframe" /\ phase = "decode" /\ limits # <<>>
  BY DEF ReadFrameEnd, Reading
<1>2. /\ at \in 1..(Len(ls) - 1) /\ Tok \in Token
      /\ Fits(l, Tok) /\ ls[at + 1] = m /\ Proper(l) /\ s \in Slot
  BY <1>1, DecodingFacts
<1>3. /\ n \in Nat /\ n > 1 /\ o \in Slot
      /\ s.start = o.start + o.len /\ s.start + s.len <= s.end
      /\ Proper(m) /\ Len(m.slots) = n - 1
      /\ \A d \in 1..(n - 2) : m.slots[d] = l.slots[d]
      /\ m.slots[n - 1] = c
      /\ m.slots[1].end = l.slots[1].end
      /\ m.noted = l.noted /\ m.fields = l.fields
  BY <1>1, <1>2, AfterFrameEnd
<1>4. /\ s.end = s.start + Tok.width /\ (Tok.exact => s.start + s.len = s.end)
      /\ o = l.slots[n - 1]
  BY <1>1, <1>2 DEF Fits, Closes, Outer
<1>5. /\ Len(values) = l.fields /\ Limited(limits, l) /\ limits \in Seq(Nat) /\ idx = s.start + s.len
  BY DEF Decoding, Inv, TypeOK
<1>6. Last(limits) = s.end
  BY <1>1, <1>2, <1>5, LimitIsEnd
<1>7. /\ s.start \in Nat /\ s.len \in Nat /\ s.end \in Nat /\ o.start \in Nat /\ o.len \in Nat
      /\ Tok.width \in Nat /\ Tok.bitOrder \in Orders
  BY <1>2, <1>3 DEF Slot, Token
<1>8. s.orders \union {Tok.bitOrder} \in SUBSET Orders
  BY <1>2, <1>7 DEF Slot
<1>9. c.start = o.start /\ c.end = o.end /\ c.len = o.len + Tok.width
  <2> DEFINE used == s.orders \union {Tok.bitOrder}
  <2>1. used \in SUBSET Orders /\ o \in Slot /\ Tok.width \in Nat /\ Tok.bitOrder \in Orders
    BY <1>3, <1>7, <1>8
  <2> HIDE DEF used, o
  <2>2. LET g == Grown(o, Tok.width, Tok.bitOrder, used) IN
        g.start = o.start /\ g.end = o.end /\ g.len = o.len + Tok.width
    BY <2>1, GrownType
  <2> QED BY <2>2 DEF used
<1> HIDE DEF s, o, c
<1>10. k \in Nat /\ idx \in Nat /\ idx + k = s.end /\ (Tok.exact => k = 0)
  <2>1. k = IF s.end > idx THEN s.end - idx ELSE 0
    BY <1>6
  <2> HIDE DEF k
  <2>2. idx \in Nat
    BY <1>5, <1>7
  <2>3. idx <= s.end
    BY <1>3, <1>5
  <2>4. Tok.exact => idx = s.end
    BY <1>4, <1>5
  <2> QED BY <1>7, <2>1, <2>2, <2>3, <2>4
<1> HIDE DEF k
<1>11. InFrame(idx, k) /\ (data.len >= Sent => InData(idx, k))
  <2>1. idx + k <= Inner(ls[at]).end
    BY <1>7, <1>10 DEF s
  <2> QED BY <1>10, <2>1, ReadableInSlot
<1>12. CASE phase' = "rejected"
  <2>1. ~(Readable(idx, k) /\ (Tok.exact => k = 0))
    BY <1>1, <1>12 DEF ReadFrameEnd, DecodeStep, k
  <2>2. ~(data.len >= Sent)
    BY <1>10, <1>11, <2>1 DEF Readable
  <2> QED BY <1>12, <2>2 DEF Stopped
<1>13. CASE phase' # "rejected"
  <2>1. /\ idx' = idx + k /\ values' = values /\ order' = "none" /\ DecodeStep
        /\ limits' = Front(limits)
    BY <1>13 DEF ReadFrameEnd, Reject, k
  <2>2. Inner(m) = c
    BY <1>3 DEF Inner, Last
  <2>3. data.len >= Sent => \A j \in 1..Len(values) : values[j] = written[j]
    BY DEF Decoding
  <2> HIDE DEF l, m, n
  <2>4. idx' = Inner(m).start + Inner(m).len
    <3>1. s.end = c.start + c.len
      <4>1. s.start = o.start + o.len
        BY <1>3
      <4>2. s.end = s.start + Tok.width
        BY <1>4
      <4>3. c.start + c.len = o.start + (o.len + Tok.width)
        BY <1>9
      <4> QED BY <1>7, <4>1, <4>2, <4>3
    <3>2. idx' = s.end
      BY <1>10, <2>1
    <3> QED BY <2>2, <3>1, <3>2
  <2>5. \A d \in 1..(n - 1) : m.slots[d].end = l.slots[d].end
    <3>1. \A d \in 1..(n - 1) : d \in 1..(n - 2) \/ d = n - 1
      BY <1>3
    <3> QED BY <1>3, <1>4, <1>9, <3>1
  <2>6. Limited(limits', m)
    <3>1. PICK e \in {0, 1} : /\ Len(limits) + e = n
                              /\ \A d \in 1..Len(limits) : limits[d] = l.slots[d + e].end
      BY <1>5 DEF Limited, n
    <3>2. Len(limits) \in Nat \ {0}
      BY <1>1, <1>5, EmptySeq
    <3>3. Len(limits') = Len(limits) - 1
      BY <1>1, <1>5, <2>1, FrontType
    <3>4. \A d \in 1..(Len(limits) - 1) : limits'[d] = limits[d]
      BY <1>5, <2>1, <3>2 DEF Front
    <3>5. \A d \in 1..(Len(limits) - 1) : d \in 1..Len(limits) /\ d + e \in 1..(n - 1)
      BY <3>1, <3>2
    <3>6. \A d \in 1..Len(limits') : limits'[d] = m.slots[d + e].end
      BY <2>5, <3>1, <3>3, <3>4, <3>5
    <3>7. Len(limits') + e = Len(m.slots)
      BY <1>3, <3>1, <3>2, <3>3
    <3> QED BY <3>6, <3>7 DEF Limited
  <2>7. /\ Len(values') = m.fields /\ order' \in {"none", m.noted}
        /\ data.len >= Sent => \A j \in 1..Len(values') : values'[j] = written[j]
    BY <1>3, <1>5, <2>1, <2>3
  <2>8. phase' = "decode"
    BY <1>1, <2>1 DEF DecodeStep
  <2>9. Decoding(ls)'
    BY <1>2, <1>3, <2>1, <2>4, <2>6, <2>7, DecodingGoesOn DEF l
  <2> QED BY <2>8, <2>9
<1> QED BY <1>12, <1>13

(* After the last token the cursor is at the end of the message: it was    *)
(* whole, the values are those written, and nothing is left over unless    *)
(* more than the message arrived.                                          *)
LEMMA DecodingEnds ==
  ASSUME NEW ls \in Seq(Layout), LaidOut(ls, program), Inv, Message(ls), Decoding(ls), ~More
  PROVE  data.len >= Sent /\ values = written /\ (Leftover => data.len # Sent)
<1> DEFINE l == ls[at]
           s == Inner(l)
<1>1. program \in Seq(Token) /\ Len(program) \in Nat /\ Len(ls) \in Nat
  BY ProgramsAssumption DEF Inv, TypeOK
<1>2. at = Len(ls) /\ Len(ls) = Len(program) + 1
  BY <1>1 DEF Inv, TypeOK, More, Message
<1>3. Len(l.slots) = 1 /\ l.slots[1].len = l.slots[1].end
  BY <1>2 DEF LaidOut
<1>4. s = l.slots[1] /\ s \in Slot
  BY <1>3, InnerFacts DEF Decoding
<1>5. Proper(l) /\ Limited(limits, l) /\ limits \in Seq(Nat) /\ idx = s.start + s.len
  BY DEF Decoding, Inv, TypeOK
<1>6. s.start = 0 /\ s.len \in Nat /\ s.end \in Nat /\ s.end = bufs[1].len
  BY <1>4, <1>5 DEF Proper, Slot, Decoding, Message
<1>7. limits # <<>> => Last(limits) = s.end
  BY <1>5, LimitIsEnd
<1>8. Len(values) = Len(written)
  BY <1>2 DEF Decoding, Message
<1>9. s.len = s.end
  BY <1>3, <1>4
<1> HIDE DEF l, s
<1>10. idx = bufs[1].len /\ idx \in Nat
  BY <1>5, <1>6, <1>9
<1>11. data.len \in Nat /\ idx <= 8 * data.len
  BY DEF Inv, TypeOK, Bytes, CursorWithinData
<1>12. data.len >= Sent
  BY <1>10, <1>11 DEF Sent, CeilBytes
<1>13. values \in Seq(SUBSET Nat) /\ written \in Seq(SUBSET Nat)
  BY DEF Inv, TypeOK
<1>14. \A i \in 1..Len(values) : values[i] = written[i]
  BY <1>12 DEF Decoding
<1>15. values = written
  BY <1>8, <1>13, <1>14
<1>16. Leftover => data.len # Sent
  <2> SUFFICES ASSUME Leftover PROVE data.len # Sent
    OBVIOUS
  <2>1. idx % 8 = 0 /\ idx < 8 * data.len
    BY <1>6, <1>7, <1>9, <1>10 DEF Leftover
  <2>2. Sent = (idx + 7) \div 8
    BY <1>10 DEF Sent, CeilBytes
  <2>3. 8 * ((idx + 7) \div 8) = idx
    BY <1>10, <2>1
  <2>4. 8 * Sent = idx
    BY <2>2, <2>3
  <2> QED BY <1>11, <2>1, <2>4
<1> QED BY <1>12, <1>15, <1>16

(* The decoder begins with the whole message or its beginning.             *)
LEMMA DecodingBegins ==
  ASSUME NEW ls \in Seq(Layout), LaidOut(ls, program), Inv, Message(ls), values = <<>>, Receive
  PROVE  phase' = "decode" /\ Decoding(ls)'
<1> DEFINE l == ls[1]
<1>1. /\ Len(ls) \in Nat \ {0} /\ Proper(l) /\ Len(l.slots) = 1
      /\ l.slots[1].start = 0 /\ l.slots[1].len = 0 /\ l.fields = 0
  BY LayoutBegins
<1>2. PICK n \in 0..(Sent + Extra), frame \in {<<>>, <<bufs[1].len>>} : Start(bufs[1].ones, n, frame)
  BY DEF Receive
<1>3. /\ phase' = "decode" /\ at' = 1 /\ limits' = frame /\ order' = "none"
      /\ data' = [ones |-> {x \in bufs[1].ones : x[1] < n}, len |-> n]
      /\ UNCHANGED <<program, bufs, written, idx, values>>
  BY <1>2 DEF Start
<1>4. data'.ones = {x \in bufs'[1].ones : x[1] < data'.len}
  BY <1>3
<1>5. Inner(l) = l.slots[1]
  BY <1>1 DEF Inner, Last
<1>6. idx' = Inner(l).start + Inner(l).len
  <2>1. idx = 0
    BY DEF Inv, Receive
  <2> QED BY <1>1, <1>3, <1>5, <2>1
<1>7. bufs[1].len = l.slots[1].end
  BY DEF Message
<1> HIDE DEF l
<1>8. Limited(limits', l)
  <2>1. CASE frame = <<>>
    <3>1. Len(limits') + 1 = Len(l.slots) /\ 1..Len(limits') = {}
      BY <1>1, <1>3, <2>1
    <3> QED BY <3>1 DEF Limited
  <2>2. CASE frame = <<bufs[1].len>>
    <3>1. Len(limits') + 0 = Len(l.slots)
      BY <1>1, <1>3, <2>2
    <3>2. \A d \in 1..Len(limits') : limits'[d] = l.slots[d + 0].end
      BY <1>3, <1>7, <2>2
    <3> QED BY <3>1, <3>2 DEF Limited
  <2> QED BY <2>1, <2>2
<1>9. Len(values') = l.fields /\ 1..Len(values') = {}
  BY <1>1, <1>3
<1> QED BY <1>1, <1>3, <1>4, <1>6, <1>8, <1>9 DEF Decoding, l

----------------------------------------------------------------------------
(* The two walks follow one layout.                                        *)

Follows(ls) ==
  /\ phase \in {"encode", "sent"} => values = <<>>
  /\ phase = "encode" => Encoding(ls)
  /\ phase = "sent" => Message(ls)
  /\ phase = "decode" /\ FromEncoder => Message(ls) /\ Decoding(ls)

Followed ==
  /\ \E ls \in Seq(Layout) : LaidOut(ls, program) /\ Follows(ls)
  /\ RoundTrip /\ EncodedIsAccepted /\ ShortIsRejected

(* The steps of the encoder: it goes on, or refuses.                       *)
LEMMA EncoderFollows ==
  ASSUME NEW ls \in Seq(Layout), LaidOut(ls, program), Inv, Follows(ls),
         WriteField \/ WriteFrame \/ WriteFrameEnd \/ WriteGroup \/ WriteGroupEnd
  PROVE  Follows(ls)' /\ phase' \in {"encode", "refused"} /\ program' = program
<1>1. phase = "encode" /\ Encoding(ls) /\ values = <<>>
  BY DEF Follows, WriteField, WriteFrame, WriteFrameEnd, WriteGroup, WriteGroupEnd, Writing
<1>2. phase' \in {"encode", "refused"} /\ UNCHANGED <<program, values>>
  BY <1>1 DEF WriteField, WriteFrame, WriteFrameEnd, WriteGroup, WriteGroupEnd, EncodeStep, Refuse
<1>3. phase' = "refused" \/ Encoding(ls)'
  BY <1>1, EncodingField, EncodingFrame, EncodingFrameEnd, EncodingGroup, EncodingGroupEnd
<1> QED BY <1>1, <1>2, <1>3 DEF Follows

(* The message does not change once it is sent.                            *)
LEMMA MessageStays ==
  ASSUME NEW ls, Message(ls), UNCHANGED <<program, bufs, written>>
  PROVE  Message(ls)'
BY DEF Message

(* The steps of the decoder: it goes on, or stops for want of bytes.       *)
LEMMA DecoderFollows ==
  ASSUME NEW ls \in Seq(Layout), LaidOut(ls, program), Inv, Message(ls), Decoding(ls),
         ReadField \/ ReadFrame \/ ReadFrameEnd \/ ReadGroup \/ ReadGroupEnd
  PROVE  /\ Stopped \/ (phase' = "decode" /\ Decoding(ls)')
         /\ UNCHANGED <<program, bufs, written, data>>
<1>1. UNCHANGED <<program, bufs, written, data>>
  BY DEF ReadField, ReadFrame, ReadFrameEnd, ReadGroup, ReadGroupEnd, DecodeStep, Reject
<1> QED BY <1>1, DecodingField, DecodingFrame, DecodingFrameEnd, DecodingGroup, DecodingGroupEnd

(* The first state.                                                        *)
LEMMA FollowedAtFirst ==
  ASSUME \A p \in Programs : Regular(p), Init
  PROVE  Followed
<1>1. PICK ls \in Seq(Layout) : LaidOut(ls, program)
  BY DEF Init, Regular
<1>2. phase = "encode" /\ values = <<>> /\ Encoding(ls)
  BY <1>1, EncodingBegins DEF Init
<1>3. RoundTrip /\ EncodedIsAccepted /\ ShortIsRejected
  BY <1>2 DEF RoundTrip, EncodedIsAccepted, ShortIsRejected
<1>4. Follows(ls)
  BY <1>2 DEF Follows
<1> QED BY <1>1, <1>3, <1>4 DEF Followed

(* Every step.                                                             *)
LEMMA FollowedStep ==
  ASSUME Inv, Followed, [Next]_vars
  PROVE  Followed'
<1>1. PICK ls \in Seq(Layout) : LaidOut(ls, program) /\ Follows(ls)
  BY DEF Followed
<1>2. RoundTrip /\ EncodedIsAccepted /\ ShortIsRejected
  BY DEF Followed
<1> SUFFICES /\ Follows(ls)' /\ program' = program
             /\ RoundTrip' /\ EncodedIsAccepted' /\ ShortIsRejected'
  BY <1>1 DEF Followed
<1>3. ASSUME phase' \notin {"done", "rejected"}
      PROVE  RoundTrip' /\ EncodedIsAccepted' /\ ShortIsRejected'
  BY <1>3 DEF RoundTrip, EncodedIsAccepted, ShortIsRejected
<1>4. CASE WriteField \/ WriteFrame \/ WriteFrameEnd \/ WriteGroup \/ WriteGroupEnd
  <2>1. Follows(ls)' /\ phase' \in {"encode", "refused"} /\ program' = program
    BY <1>1, <1>4, EncoderFollows
  <2>2. phase' \notin {"done", "rejected"}
    BY <2>1
  <2> QED BY <1>3, <2>1, <2>2
<1>5. CASE FinishEncode
  <2>1. /\ phase' = "sent" /\ values = <<>> /\ Encoding(ls) /\ ~More
        /\ UNCHANGED <<program, bufs, written, values>>
    BY <1>1, <1>5 DEF FinishEncode, Follows
  <2>2. Message(ls)'
    BY <1>1, <2>1, EncodingEnds, MessageStays
  <2>3. Follows(ls)'
    BY <2>1, <2>2 DEF Follows
  <2> QED BY <1>3, <2>1, <2>3
<1>6. CASE Receive
  <2>1. Message(ls) /\ values = <<>>
    BY <1>1, <1>6 DEF Follows, Receive
  <2>2. phase' = "decode" /\ Decoding(ls)'
    BY <1>1, <1>6, <2>1, DecodingBegins
  <2>3. UNCHANGED <<program, bufs, written>>
    BY <1>6 DEF Receive, Start
  <2>4. Message(ls)'
    BY <2>1, <2>3, MessageStays
  <2>5. Follows(ls)'
    BY <2>2, <2>4 DEF Follows
  <2> QED BY <1>3, <2>2, <2>3, <2>5
<1>7. CASE ReceiveForeign
  <2>1. phase' = "decode" /\ UNCHANGED <<program, written>> /\ at = 1 /\ Encoding(ls)
    BY <1>1, <1>7 DEF ReceiveForeign, Start, Follows
  <2>2. Len(written) = 0 /\ written \in Seq(SUBSET Nat)
    BY <1>1, <2>1, LayoutBegins DEF Encoding, Inv, TypeOK
  <2>3. ~FromEncoder'
    BY <2>1, <2>2 DEF FromEncoder
  <2>4. Follows(ls)'
    BY <2>1, <2>3 DEF Follows
  <2> QED BY <1>3, <2>1, <2>4
<1>8. CASE ReadField \/ ReadFrame \/ ReadFrameEnd \/ ReadGroup \/ ReadGroupEnd
  <2>1. /\ phase = "decode" /\ phase' \in {"decode", "rejected"}
        /\ UNCHANGED <<program, bufs, written, data>>
    BY <1>8 DEF ReadField, ReadFrame, ReadFrameEnd, ReadGroup, ReadGroupEnd,
                Reading, DecodeStep, Reject
  <2>2. FromEncoder' = FromEncoder /\ Sent' = Sent /\ data' = data
    BY <2>1 DEF FromEncoder, Sent
  <2>3. CASE ~FromEncoder
    <3>1. Follows(ls)'
      BY <2>1, <2>2, <2>3 DEF Follows
    <3>2. RoundTrip' /\ EncodedIsAccepted' /\ ShortIsRejected'
      BY <2>2, <2>3 DEF RoundTrip, EncodedIsAccepted, ShortIsRejected
    <3> QED BY <2>1, <3>1, <3>2
  <2>4. CASE FromEncoder
    <3>1. Message(ls) /\ Decoding(ls)
      BY <1>1, <2>1, <2>4 DEF Follows
    <3>2. Stopped \/ (phase' = "decode" /\ Decoding(ls)')
      BY <1>1, <1>8, <3>1, DecoderFollows
    <3>3. Message(ls)'
      BY <2>1, <3>1, MessageStays
    <3>4. CASE Stopped
      <4>1. phase' = "rejected" /\ ~(data.len >= Sent)
        BY <3>4 DEF Stopped
      <4>2. Follows(ls)'
        BY <4>1 DEF Follows
      <4>3. data'.len # Sent'
        <5>1. data.len \in Nat
          BY DEF Inv, TypeOK, Bytes
        <5> QED BY <2>2, <4>1, <5>1
      <4> QED BY <2>1, <4>1, <4>2, <4>3 DEF RoundTrip, EncodedIsAccepted, ShortIsRejected
    <3>5. CASE phase' = "decode" /\ Decoding(ls)'
      <4>1. Follows(ls)'
        BY <3>3, <3>5 DEF Follows
      <4> QED BY <1>3, <2>1, <3>5, <4>1
    <3> QED BY <3>2, <3>4, <3>5
  <2> QED BY <2>3, <2>4
<1>9. CASE FinishDecode
  <2>1. /\ phase = "decode" /\ ~More /\ phase' = IF Leftover THEN "rejected" ELSE "done"
        /\ UNCHANGED <<program, bufs, written, data, values>>
    BY <1>9 DEF FinishDecode
  <2>2. FromEncoder' = FromEncoder /\ Sent' = Sent /\ data' = data /\ values' = values /\ written' = written
    BY <2>1 DEF FromEncoder, Sent
  <2>3. Follows(ls)'
    BY <2>1 DEF Follows
  <2>4. CASE ~FromEncoder
    BY <2>1, <2>2, <2>3, <2>4 DEF RoundTrip, EncodedIsAccepted, ShortIsRejected
  <2>5. CASE FromEncoder
    <3>1. Message(ls) /\ Decoding(ls)
      BY <1>1, <2>1, <2>5 DEF Follows
    <3>2. data.len >= Sent /\ values = written /\ (Leftover => data.len # Sent)
      BY <1>1, <2>1, <3>1, DecodingEnds
    <3>3. phase' = "rejected" => Leftover
      BY <2>1
    <3> QED BY <2>1, <2>2, <2>3, <3>2, <3>3 DEF RoundTrip, EncodedIsAccepted, ShortIsRejected
  <2> QED BY <2>4, <2>5
<1>10. CASE UNCHANGED vars
  <2>1. /\ UNCHANGED <<program, phase, at, bufs, written, order, data, idx, limits, values>>
    BY <1>10 DEF vars
  <2>2. Sent' = Sent /\ FromEncoder' = FromEncoder
    BY <2>1 DEF Sent, FromEncoder
  <2>3. Encoding(ls)' <=> Encoding(ls)
    BY <2>1 DEF Encoding, Stored, Fills
  <2>4. Message(ls)' <=> Message(ls)
    BY <2>1 DEF Message
  <2>5. Decoding(ls)' <=> Decoding(ls)
    BY <2>1, <2>2 DEF Decoding
  <2>6. Follows(ls)'
    BY <1>1, <2>1, <2>2, <2>3, <2>4, <2>5 DEF Follows
  <2>7. RoundTrip' /\ EncodedIsAccepted' /\ ShortIsRejected'
    BY <1>2, <2>1, <2>2 DEF RoundTrip, EncodedIsAccepted, ShortIsRejected
  <2> QED BY <2>1, <2>6, <2>7
<1> QED BY <1>4, <1>5, <1>6, <1>7, <1>8, <1>9, <1>10 DEF Next

(* The invariant of the two walks.                                         *)
LEMMA WalksFollow ==
  ASSUME \A p \in Programs : Regular(p)
  PROVE  Spec => []Followed
<1>1. Init => Followed
  BY FollowedAtFirst
<1>2. Inv /\ Followed /\ [Next]_vars => Followed'
  BY FollowedStep
<1> QED BY <1>1, <1>2, Invariance, PTL DEF Spec

(* Of a regular program, every message that arrives whole gives the values *)
(* that were written: whatever the values, the widths, the bit orders, the *)
(* byte orders, the alignment and the nesting of frames.                   *)
THEOREM WrittenIsRead ==
  ASSUME \A p \in Programs : Regular(p)
  PROVE  Spec => []RoundTrip
<1>1. Followed => RoundTrip
  BY DEF Followed
<1> QED BY <1>1, WalksFollow, PTL

(* Of a regular program, whatever the encoder wrote is accepted: no check  *)
(* of the decoder on bit orders, alignment, lengths or leftover bits stops *)
(* at a message that arrives as it was written.                            *)
THEOREM WrittenIsAccepted ==
  ASSUME \A p \in Programs : Regular(p)
  PROVE  Spec => []EncodedIsAccepted
<1>1. Followed => EncodedIsAccepted
  BY DEF Followed
<1> QED BY <1>1, WalksFollow, PTL

(* Of a regular program, a message that lost its last bytes is rejected.   *)
THEOREM CutIsRejected ==
  ASSUME \A p \in Programs : Regular(p)
  PROVE  Spec => []ShortIsRejected
<1>1. Followed => ShortIsRejected
  BY DEF Followed
<1> QED BY <1>1, WalksFollow, PTL

============================================================================
