------------------------------ MODULE BitStream ------------------------------
(***************************************************************************)
(* Binary fields measured in bits and the frames around them, written by   *)
(* the encoder and read back by the decoder (vm/runtime/cursor.rs, bits.rs *)
(* and binary.rs; the framed elements of both walks).                      *)
(*                                                                         *)
(* The two sides count differently.  The encoder writes the content of a   *)
(* complex element of explicit length into a buffer of its own and copies  *)
(* the buffer, cut or filled to the length, bit by bit.  The decoder has   *)
(* one cursor over the whole input and a limit that the frame sets.  Bits  *)
(* go into a byte from either end, the bytes of a field come in either     *)
(* order, and some readers look at the limit while others do not.          *)
(*                                                                         *)
(* A program is the flat list of tokens of the schema walk.  A number is   *)
(* the set of its bits; bytes are a set of <<byte, bit>> pairs.            *)
(***************************************************************************)
EXTENDS Integers, Sequences, FiniteSets

CONSTANTS
  Programs,   (* the schemas checked: sequences of tokens                  *)
  Patterns,   (* the values written, each cut to the width of its field    *)
  FillBit,    (* fill_byte & 1                                             *)
  MaxBytes,   (* length of a message from elsewhere: bounds the input      *)
  Extra       (* bytes after the message: bounds the input                 *)

Orders == {"msbf", "lsbf"}

(* A field; a frame (a complex element of explicit length, width bits) and *)
(* its end; a group (a complex element of implicit length) and its end.    *)
Token ==
  [op        : {"field", "frame", "endframe", "group", "endgroup"},
   width     : Nat,
   byteOrder : {"be", "le"},
   bitOrder  : Orders,
   declared  : BOOLEAN,      \* bit_order_defined
   align     : Nat,          \* in bits
   exact     : BOOLEAN,      \* truncate_specified_length_string
   kind      : {"UnsignedInt", "Int", "Long"}]

ASSUME ProgramsAssumption == Programs \subseteq Seq(Token)

ASSUME InputAssumption ==
  /\ \A p \in Patterns : p \subseteq Nat
  /\ FillBit \in {0, 1} /\ MaxBytes \in Nat /\ Extra \in Nat

VARIABLES
  program,  (* the schema of this run                                      *)
  phase,    (* "encode", "sent", "decode"; then "refused" by the encoder,  *)
            (* "rejected" by the decoder or "done"                         *)
  at,       (* the next token                                              *)
  bufs,     (* output buffers, the innermost frame's payload last          *)
  written,  (* the values written                                          *)
  order,    (* seq_bit_order of the side at work, "none" when unset        *)
  data,     (* what the decoder was given: bytes and their number          *)
  idx,      (* absolute_bit_index of the cursor                            *)
  limits,   (* frame_bit_limit of the cursor and the limits saved by the   *)
            (* open frames, the current one last                           *)
  values    (* the values read                                             *)

vars == <<program, phase, at, bufs, written, order, data, idx, limits, values>>

Bytes == [ones : SUBSET (Nat \X (0..7)), len : Nat]

TypeOK ==
  /\ program \in Programs
  /\ phase \in {"encode", "sent", "decode", "refused", "rejected", "done"}
  /\ at \in 1..(Len(program) + 1)
  /\ bufs \in Seq(Bytes)
  /\ written \in Seq(SUBSET Nat)
  /\ order \in Orders \union {"none"}
  /\ data \in Bytes
  /\ idx \in Nat
  /\ limits \in Seq(Nat)
  /\ values \in Seq(SUBSET Nat)

----------------------------------------------------------------------------
(* Bits in bytes.                                                          *)

CeilBytes(n) == (n + 7) \div 8

(* The bit of its byte that stream bit i is.                               *)
BitAt(i, o) == IF o = "msbf" THEN 7 - (i % 8) ELSE i % 8

(* The n stream bits of the bytes from bit i on, as offsets.               *)
StreamOf(ones, i, n, o) ==
  {k \in 0..(n - 1) : <<(i + k) \div 8, BitAt(i + k, o)>> \in ones}

BytesOf(stream, o) == {<<k \div 8, BitAt(k, o)>> : k \in stream}

(* write_stream_bit: bits are or-ed into the last byte.                    *)
WriteBits(buf, stream, n, o) ==
  [ones |-> buf.ones \union {<<(buf.len + k) \div 8, BitAt(buf.len + k, o)>> : k \in stream},
   len  |-> buf.len + n]

----------------------------------------------------------------------------
(* A number as a little-endian field, and back.                            *)

Reversed(ones, n) == {<<n - 1 - x[1], x[2]>> : x \in ones}

(* byte <<= k and byte >>= k for the first byte.                           *)
FirstShiftedLeft(ones, k) ==
  {x \in ones : x[1] # 0} \union
  {<<0, s + k>> : s \in {t \in 0..(7 - k) : <<0, t>> \in ones}}

FirstShiftedRight(ones, k) ==
  {x \in ones : x[1] # 0} \union
  {<<0, s - k>> : s \in {t \in k..7 : <<0, t>> \in ones}}

EncodePacked(v, w, o) ==
  LET n   == CeilBytes(w)
      be  == {<<n - 1 - (b \div 8), b % 8>> : b \in v}
      cut == IF w % 8 # 0 /\ o = "msbf" THEN FirstShiftedLeft(be, 8 - (w % 8)) ELSE be
  IN IF w > 8 THEN Reversed(cut, n) ELSE cut

(* Mutant: the shift of the fragment is forgotten.                         *)
DecodePackedUnshifted(ones, w, o) ==
  LET n == CeilBytes(w)
      be == IF w > 8 THEN Reversed(ones, n) ELSE ones
  IN {b \in 0..(w - 1) : <<n - 1 - (b \div 8), b % 8>> \in be}

DecodePacked(ones, w, o) ==
  LET n   == CeilBytes(w)
      be  == IF w > 8 THEN Reversed(ones, n) ELSE ones
      cut == IF w % 8 # 0 /\ o = "msbf" THEN FirstShiftedRight(be, 8 - (w % 8)) ELSE be
  IN {b \in 0..(w - 1) : <<n - 1 - (b \div 8), b % 8>> \in cut}

SignExtend(v, w) == IF w > 1 /\ (w - 1) \in v THEN v \union w..63 ELSE v

(* The 64 bits of the number whose low w bits are v.                       *)
Number(v, w, kind) == IF kind = "UnsignedInt" THEN v ELSE SignExtend(v, w)

----------------------------------------------------------------------------
(* The two walks.                                                          *)

More  == at <= Len(program)
Tok   == program[at]
Last(s) == s[Len(s)]
Front(s) == SubSeq(s, 1, Len(s) - 1)

Skip(i, a) == IF a <= 1 THEN 0 ELSE (a - (i % a)) % a

(* check_bit_order_change: an order may change at a byte boundary only.    *)
ChangeAllowed(t, i) ==
  t.declared /\ order # "none" /\ order # t.bitOrder => i % 8 = 0

Noted(t) == IF t.declared THEN t.bitOrder ELSE order

Writing(op) == phase = "encode" /\ More /\ Tok.op = op
Reading(op) == phase = "decode" /\ More /\ Tok.op = op

EncodeStep ==
  /\ at' = at + 1
  /\ UNCHANGED <<program, phase, data, idx, limits, values>>

Refuse ==
  /\ phase' = "refused"
  /\ UNCHANGED <<program, at, bufs, written, order, data, idx, limits, values>>

----------------------------------------------------------------------------
(* Encoder.                                                                *)

(* The bits of value v as the field's stream.                              *)
FieldStream(v, t) ==
  IF t.byteOrder = "le" THEN StreamOf(EncodePacked(v, t.width, t.bitOrder), 0, t.width, t.bitOrder)
  ELSE IF t.bitOrder = "msbf" THEN {t.width - 1 - b : b \in v} ELSE v

(* Alignment counts from the start of the innermost buffer.                *)
Aligned(buf, t) ==
  LET n == Skip(buf.len, t.align)
  IN WriteBits(buf, IF FillBit = 1 THEN 0..(n - 1) ELSE {}, n, t.bitOrder)

SetLast(buf) == [bufs EXCEPT ![Len(bufs)] = buf]

WriteField ==
  /\ Writing("field")
  /\ LET buf == Aligned(Last(bufs), Tok) IN
     IF ~ChangeAllowed(Tok, buf.len) THEN Refuse
     ELSE \E p \in Patterns :
            LET v == p \intersect 0..(Tok.width - 1) IN
            /\ bufs' = SetLast(WriteBits(buf, FieldStream(v, Tok), Tok.width, Tok.bitOrder))
            /\ written' = Append(written, Number(v, Tok.width, Tok.kind))
            /\ order' = Noted(Tok)
            /\ EncodeStep

(* encode_framed_element: the content goes to a buffer of its own.         *)
WriteFrame ==
  /\ Writing("frame")
  /\ bufs' = Append(SetLast(Aligned(Last(bufs), Tok)), [ones |-> {}, len |-> 0])
  /\ UNCHANGED <<written, order>>
  /\ EncodeStep

(* write_explicit_payload: the payload is cut to the length, or zero bits  *)
(* follow it (mutant: they do not).                                        *)
WithPayloadUnpadded(buf, payload, t) ==
  LET n == IF payload.len < t.width THEN payload.len ELSE t.width
  IN WriteBits(buf, StreamOf(payload.ones, 0, n, t.bitOrder), n, t.bitOrder)

WithPayload(buf, payload, t) ==
  LET n == IF payload.len < t.width THEN payload.len ELSE t.width
  IN WriteBits(buf, StreamOf(payload.ones, 0, n, t.bitOrder), t.width, t.bitOrder)

WriteFrameEnd ==
  /\ Writing("endframe") /\ Len(bufs) > 1
  /\ bufs' = [Front(bufs) EXCEPT ![Len(bufs) - 1] = WithPayload(@, Last(bufs), Tok)]
  /\ UNCHANGED <<written, order>>
  /\ EncodeStep

WriteGroup ==
  /\ Writing("group")
  /\ LET buf == Aligned(Last(bufs), Tok) IN
     IF ~ChangeAllowed(Tok, buf.len) THEN Refuse
     ELSE /\ bufs' = SetLast(buf)
          /\ UNCHANGED <<written, order>>
          /\ EncodeStep

WriteGroupEnd ==
  /\ Writing("endgroup")
  /\ order' = Noted(Tok)
  /\ UNCHANGED <<bufs, written>>
  /\ EncodeStep

FinishEncode ==
  /\ phase = "encode" /\ ~More
  /\ phase' = "sent"
  /\ UNCHANGED <<program, at, bufs, written, order, data, idx, limits, values>>

----------------------------------------------------------------------------
(* Between the two: the message may lose bytes at its end or be followed   *)
(* by others; the number of its bits may be given (decode_with_bit_limit); *)
(* or there was no encoder and the message comes from elsewhere.           *)

Sent == CeilBytes(bufs[1].len)

Start(ones, n, frame) ==
  /\ phase' = "decode" /\ at' = 1
  /\ data' = [ones |-> {x \in ones : x[1] < n}, len |-> n]
  /\ limits' = frame
  /\ order' = "none"
  /\ UNCHANGED <<program, bufs, written, idx, values>>

Receive ==
  /\ phase = "sent"
  /\ \E n \in 0..(Sent + Extra), frame \in {<<>>, <<bufs[1].len>>} :
       Start(bufs[1].ones, n, frame)

ReceiveForeign ==
  /\ phase = "encode" /\ at = 1
  /\ \E n \in 0..MaxBytes : Start({}, n, <<>>)

----------------------------------------------------------------------------
(* Decoder.                                                                *)

(* Mutant: only the first bit is looked for.                               *)
InDataFirst(i, n) == n = 0 \/ i < 8 * data.len

InData(i, n) == n = 0 \/ i + n <= 8 * data.len

(* read_stream_bit looks at the limit and at the end of the data; the byte *)
(* and chunk paths of read_hex_binary_bits at the end of the data only.    *)
InFrame(i, n) == n = 0 \/ limits = <<>> \/ i + n <= Last(limits)

Readable(i, n) == InData(i, n) /\ InFrame(i, n)

ByBytes(t) == t.byteOrder = "le" /\ t.width >= 8

LooksAtLimit(t, i) == ~ByBytes(t) \/ (t.bitOrder = "msbf" /\ i % 8 # 0)

FieldReadable(t, i) ==
  InData(i, t.width) /\ (LooksAtLimit(t, i) => InFrame(i, t.width))

(* Mutant: the first bit of an msbf field counts for one place less.       *)
FieldValueOneLess(t, i) ==
  LET stream == StreamOf(data.ones, i, t.width, t.bitOrder)
  IN IF t.bitOrder = "msbf" THEN {t.width - 2 - k : k \in stream} ELSE stream

FieldValue(t, i) ==
  LET stream == StreamOf(data.ones, i, t.width, t.bitOrder)
      bytes  == BytesOf(stream, t.bitOrder)
      raw    == IF t.bitOrder = "msbf" THEN {t.width - 1 - k : k \in stream} ELSE stream
  IN IF ~ByBytes(t)         THEN Number(raw, t.width, t.kind)
     ELSE IF t.kind = "Long" THEN {8 * x[1] + x[2] : x \in bytes}   \* whole bytes
     ELSE Number(DecodePacked(bytes, t.width, t.bitOrder), t.width, t.kind)

(* consume_element_framing: alignment counts from the start of the input,  *)
(* and a field aligned to 4 bits that starts at bit 4 goes back by 3.      *)
FramedStart(t, i) ==
  LET j == i + Skip(i, t.align)
  IN IF t.bitOrder = "lsbf" /\ t.align = 4 /\ j = 4 THEN 1 ELSE j

DecodeStep ==
  /\ at' = at + 1
  /\ UNCHANGED <<program, phase, bufs, written, data>>

Reject ==
  /\ phase' = "rejected"
  /\ UNCHANGED <<program, at, bufs, written, order, data, idx, limits, values>>

ReadField ==
  /\ Reading("field")
  /\ LET i == FramedStart(Tok, idx) IN
     IF /\ Readable(idx, Skip(idx, Tok.align))
        /\ ChangeAllowed(Tok, i)
        /\ FieldReadable(Tok, i)
     THEN /\ idx' = i + Tok.width
          /\ values' = Append(values, FieldValue(Tok, i))
          /\ order' = Noted(Tok)
          /\ UNCHANGED limits
          /\ DecodeStep
     ELSE Reject

(* A complex element: its sequence starts without a bit order.             *)
ReadFrame ==
  /\ Reading("frame")
  /\ LET i == FramedStart(Tok, idx) IN
     IF Readable(idx, Skip(idx, Tok.align))
     THEN /\ idx' = i
          /\ limits' = Append(limits, i + Tok.width)
          /\ order' = "none"
          /\ UNCHANGED values
          /\ DecodeStep
     ELSE Reject

(* skip_to_bit_index, and the limit of the enclosing frame is put back.    *)
(* Mutant: the rest of the frame is not skipped.                           *)
ReadFrameEndWithoutSkip ==
  /\ Reading("endframe") /\ limits # <<>>
  /\ limits' = Front(limits)
  /\ order' = "none"
  /\ UNCHANGED <<idx, values>>
  /\ DecodeStep

ReadFrameEnd ==
  /\ Reading("endframe") /\ limits # <<>>
  /\ LET n == IF Last(limits) > idx THEN Last(limits) - idx ELSE 0 IN
     IF Readable(idx, n) /\ (Tok.exact => n = 0)
     THEN /\ idx' = idx + n
          /\ limits' = Front(limits)
          /\ order' = "none"
          /\ UNCHANGED values
          /\ DecodeStep
     ELSE Reject

ReadGroup ==
  /\ Reading("group")
  /\ IF Readable(idx, Skip(idx, Tok.align))
     THEN /\ idx' = FramedStart(Tok, idx)
          /\ order' = "none"
          /\ UNCHANGED <<limits, values>>
          /\ DecodeStep
     ELSE Reject

ReadGroupEnd ==
  /\ Reading("endgroup")
  /\ order' = "none"
  /\ UNCHANGED <<idx, limits, values>>
  /\ DecodeStep

(* strict_eos: bits left in the frame of the message, or whole bytes left  *)
(* when the cursor is at a byte boundary, are an error.                    *)
Leftover ==
  IF limits # <<>> THEN idx < Last(limits) ELSE idx % 8 = 0 /\ idx < 8 * data.len

FinishDecode ==
  /\ phase = "decode" /\ ~More
  /\ phase' = IF Leftover THEN "rejected" ELSE "done"
  /\ UNCHANGED <<program, at, bufs, written, order, data, idx, limits, values>>

----------------------------------------------------------------------------

Init ==
  /\ program \in Programs
  /\ phase = "encode" /\ at = 1
  /\ bufs = <<[ones |-> {}, len |-> 0]>> /\ written = <<>>
  /\ order = "none"
  /\ data = [ones |-> {}, len |-> 0]
  /\ idx = 0 /\ limits = <<>> /\ values = <<>>

Next ==
  \/ WriteField \/ WriteFrame \/ WriteFrameEnd \/ WriteGroup \/ WriteGroupEnd
  \/ FinishEncode \/ Receive \/ ReceiveForeign
  \/ ReadField \/ ReadFrame \/ ReadFrameEnd \/ ReadGroup \/ ReadGroupEnd
  \/ FinishDecode

Spec == Init /\ [][Next]_vars

----------------------------------------------------------------------------
(* Properties.                                                             *)

FromEncoder == written # <<>>

(* What the encoder wrote is read back: a message that arrives whole gives *)
(* the values that were written, field by field, across bit orders, byte   *)
(* orders, alignment and nested frames.                                    *)
RoundTrip ==
  phase = "done" /\ FromEncoder /\ data.len >= Sent => values = written

(* The decoder accepts whatever the encoder wrote: the checks on bit       *)
(* orders, on alignment and on lengths that each side makes agree.         *)
EncodedIsAccepted ==
  phase = "rejected" /\ FromEncoder => data.len # Sent

(* A message that lost its last bytes is never taken for a whole one, also *)
(* when only the filling of a frame was lost.                              *)
ShortIsRejected ==
  phase = "done" /\ FromEncoder => data.len >= Sent

(* No reader goes past the end of the data, whatever the message and the   *)
(* lengths of the frames.                                                  *)
CursorWithinData == idx <= 8 * data.len

(* cursor.rs: frame_bit_limit "must not be read past".                     *)
CursorWithinFrame ==
  phase = "decode" /\ limits # <<>> => idx <= Last(limits)

============================================================================
