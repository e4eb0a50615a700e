--------------------------- MODULE BinaryNumbers ---------------------------
(***************************************************************************)
(* Numbers, booleans and byte strings in binary (vm/packed_decimal.rs,     *)
(* vm/runtime/binary.rs, the binary prefixes of framed_payload.rs): what a *)
(* field writes for a value and what it reads from bytes.                  *)
(*                                                                         *)
(* A number is two's complement, BCD, packed or IBM 4690 decimal, of the   *)
(* length of its type or as long as its digits, behind a length prefix or  *)
(* up to a delimiter.  Writer and reader are separate code with cases of   *)
(* their own for each kind, length and representation.                     *)
(*                                                                         *)
(* Integers are TLC's: Size scales the types down, with every comparison   *)
(* of a length with the size of the type as in the code.                   *)
(***************************************************************************)
EXTENDS Integers, Sequences, SequencesExt

CONSTANTS
  Size,        (* type_size: the bytes of each kind                        *)
  MaxMagnitude (* what digits_to_u64 and checked_mul still take            *)

ASSUME SizeAssumption == \A kind \in DOMAIN Size : Size[kind] \in Nat /\ 256^Size[kind] \in Nat

Unsigned == {"ubyte", "ushort", "uint"}
Signed == {"byte", "short", "int", "long"}

Refused == [t |-> "refused"]
Whole(n) == [t |-> "num", n |-> n]
Decimal(neg, m, s) == [t |-> "dec", neg |-> neg, m |-> m, s |-> s]
Boolean(b) == [t |-> "bool", b |-> b]
Raw(b) == [t |-> "bytes", b |-> b]

(* A binary field.  len: the bytes of a field of explicit length;          *)
(* prefix: the bytes of its length prefix; vp: the virtual decimal point.  *)
IsBinaryField(f) ==
  /\ f.kind \in Unsigned \union Signed \union {"decimal", "integer", "boolean", "hex", "blob"}
  /\ f.rep \in {"binary", "bcd", "packed", "ibm"}
  /\ f.length \in {"implicit", "explicit", "prefixed", "delimited"}
  /\ f.len \in Nat /\ f.prefix \in Nat /\ f.vp \in Int
  /\ {f.le, f.includes, f.signed, f.trueEmpty} \subseteq BOOLEAN
  /\ f.policy \in {"strict", "lax"}

----------------------------------------------------------------------------
(* Digits and nibbles.                                                     *)

Bad == [ok |-> FALSE, neg |-> FALSE, digits |-> <<>>]
Good(neg, digits) == [ok |-> TRUE, neg |-> neg, digits |-> digits]

DigitsOf(m) ==
  LET n == CHOOSE k \in 1..10 : m < 10^k /\ (k = 1 \/ m >= 10^(k - 1))
  IN [i \in 1..n |-> (m \div 10^(n - i)) % 10]

(* digits_to_u64: the magnitude, or -1 if it is too large.                 *)
MagnitudeOf(digits) ==
  LET Add(m, d) == IF m < 0 \/ m > (MaxMagnitude - d) \div 10 THEN -1 ELSE 10 * m + d
  IN FoldLeft(Add, 0, digits)

Nibbles(b) == [i \in 1..(2 * Len(b)) |-> IF i % 2 = 1 THEN b[(i + 1) \div 2] \div 16 ELSE b[i \div 2] % 16]
Packed(n) == [i \in 1..(Len(n) \div 2) |-> 16 * n[2 * i - 1] + n[2 * i]]

(* The last n, after fillers where there are fewer.                        *)
Fit(s, n, filler) ==
  [i \in 1..n |-> IF Len(s) - n + i < 1 THEN filler ELSE s[Len(s) - n + i]]

(* order_bytes.                                                            *)
Ordered(b, le) == IF le THEN Reverse(b) ELSE b

AreDigits(n) == \A i \in DOMAIN n : n[i] <= 9

(* PackedSignCodes: positive, negative, unsigned and zero; a lax check     *)
(* takes all the usual codes, too.                                         *)
SignCodes(spec, policy) ==
  LET lax(s) == IF policy = "lax" THEN s ELSE {} IN
  [negative |-> {spec[2]} \union lax({11, 13}),
   other |-> {spec[1], spec[3], spec[4]} \union lax({10, 12, 14, 15, 0})]

BcdDigits(b, le) ==
  LET n == Nibbles(Ordered(b, le)) IN IF AreDigits(n) THEN Good(FALSE, n) ELSE Bad

PackedDigits(b, le, codes) ==
  LET n == Nibbles(Ordered(b, le))
      sign == n[Len(n)]
      digits == SubSeq(n, 1, Len(n) - 1) IN
  IF b = <<>> \/ sign \notin codes.negative \union codes.other \/ ~AreDigits(digits) THEN Bad
  ELSE Good(sign \in codes.negative, digits)

(* Fillers, a sign, digits.                                                *)
IbmDigits(b, le) ==
  LET n == Nibbles(Ordered(b, le))
      fill == CHOOSE k \in 0..Len(n) : (\A i \in 1..k : n[i] = 15) /\ (k = Len(n) \/ n[k + 1] # 15)
      neg == fill < Len(n) /\ n[fill + 1] = 13
      digits == SubSeq(n, (IF neg THEN fill + 2 ELSE fill + 1), Len(n)) IN
  IF AreDigits(digits) THEN Good(neg, digits) ELSE Bad

BcdBytes(m, width, le) == Ordered(Packed(Fit(DigitsOf(m), 2 * width, 0)), le)

(* Mutant: zero takes the sign of positive numbers for unsigned ones.      *)
SwapSigns(m, neg, width, le, spec) ==
  LET sign == IF m = 0 THEN spec[4] ELSE IF neg THEN spec[1] ELSE spec[2]
  IN Ordered(Packed(Fit(DigitsOf(m), 2 * width - 1, 0) \o <<sign>>), le)

PackedBytes(m, neg, width, le, spec) ==
  LET sign == IF m = 0 THEN spec[4] ELSE IF neg THEN spec[2] ELSE spec[1]
  IN Ordered(Packed(Fit(DigitsOf(m), 2 * width - 1, 0) \o <<sign>>), le)

IbmBytes(m, neg, width, le) ==
  Ordered(Packed(Fit((IF neg THEN <<13>> ELSE <<>>) \o DigitsOf(m), 2 * width, 15)), le)

----------------------------------------------------------------------------
(* Two's complement.                                                       *)

(* int_bytes: the low bytes of v.                                          *)
IntBytes(v, size, le) == Ordered([i \in 1..size |-> (v \div 256^(size - i)) % 256], le)

UnsignedOf(b, le) == FoldLeft(LAMBDA v, x : 256 * v + x, 0, Ordered(b, le))

SignExtended(v, bytes) == IF bytes > 0 /\ v >= 128 * 256^(bytes - 1) THEN v - 256^bytes ELSE v

(* The macro int!: the last bytes of b in a buffer of the type's size, at  *)
(* its low end; no sign is extended.                                       *)
InBuffer(b, kind, le) ==
  LET n == IF Len(b) < Size[kind] THEN Len(b) ELSE Size[kind]
      v == UnsignedOf(SubSeq(b, Len(b) - n + 1, Len(b)), le) IN
  IF kind \in Signed THEN SignExtended(v, Size[kind]) ELSE v

(* decode_binary_bytes: an int shorter than its type has its sign          *)
(* extended, a short or a long has not; an integer has any length.         *)
FromTwos(kind, b, f) ==
  CASE kind = "int" /\ Len(b) < Size.int -> Whole(SignExtended(UnsignedOf(b, f.le), Len(b)))
    [] kind = "integer" -> Whole(IF f.signed THEN SignExtended(UnsignedOf(b, f.le), Len(b)) ELSE UnsignedOf(b, f.le))
    [] kind = "hex" -> Raw(b)
    [] OTHER -> Whole(InBuffer(b, kind, f.le))

FitsType(n, kind) ==
  kind \notin Signed \/ (-128 * 256^(Size[kind] - 1) <= n /\ n < 128 * 256^(Size[kind] - 1))

(* format_binary_decimal_magnitude: the digits around the virtual point.   *)
WithPoint(neg, m, vp) ==
  IF vp < 0 THEN Decimal(neg, m * 10^(-vp), 0) ELSE Decimal(neg, m, vp)

(* signed_magnitude_to_dfdl: signed types are checked for their range,     *)
(* unsigned ones only for the sign and then cut.                           *)
FromMagnitude(read, kind, vp) ==
  LET m == MagnitudeOf(read.digits)
      n == IF read.neg THEN -m ELSE m IN
  IF ~read.ok \/ m < 0 THEN Refused
  ELSE IF kind = "decimal" THEN WithPoint(read.neg, m, vp)
  ELSE IF kind \in Unsigned THEN (IF read.neg THEN Refused ELSE Whole(n % 256^Size[kind]))
  ELSE IF kind \in Signed \union {"integer"} /\ FitsType(n, kind) THEN Whole(n)
  ELSE Refused

----------------------------------------------------------------------------
(* Widths.                                                                 *)

MinimalWidth(m) == CHOOSE k \in 1..4 : m < 256^k /\ (k = 1 \/ m >= 256^(k - 1))

(* Mutant: no room for the sign of a packed number.                        *)
NoSignRoom(m, rep) ==
  LET d == Len(DigitsOf(m)) IN IF rep = "binary" THEN MinimalWidth(m) ELSE (d + 1) \div 2

(* auto_width_for_rep: a packed number has room for its sign.              *)
AutoWidth(m, rep) ==
  LET d == Len(DigitsOf(m)) IN
  CASE rep = "binary" -> MinimalWidth(m)
    [] rep = "packed" -> (d + 2) \div 2
    [] OTHER -> (d + 1) \div 2

(* encode_signed_magnitude_binary, of the width of binary_payload_width.   *)
MagnitudeBytes(m, neg, f) ==
  LET width == AutoWidth(m, f.rep) IN
  CASE f.rep = "binary" -> IntBytes(IF neg THEN -m ELSE m, width, f.le)
    [] f.rep = "bcd" -> BcdBytes(m, width, f.le)
    [] f.rep = "packed" -> PackedBytes(m, neg, width, f.le, f.codes)
    [] OTHER -> IbmBytes(m, neg, width, f.le)

Magnitude(n) == IF n < 0 THEN -n ELSE n

(* encode_integer_binary, encode_unsigned_binary.                          *)
NumberBytes(n, f) == MagnitudeBytes(Magnitude(n), n < 0, f)

(* parse_virtual_decimal: the digits behind the virtual point are cut or   *)
(* filled; -1 on overflow.                                                 *)
ToVirtual(v, vp) ==
  IF v.s > 0 /\ vp = 0 THEN -1
  ELSE IF v.s >= vp THEN v.m \div 10^(v.s - vp)
  ELSE IF v.m > MaxMagnitude \div 10^(vp - v.s) THEN -1
  ELSE v.m * 10^(vp - v.s)

Point(f) == IF f.vp > 0 THEN f.vp ELSE 0     \* binary_decimal_virtual_point

(* validate_decimal_unparse_sign.                                          *)
SignAllowed(neg, f) == ~neg \/ (f.signed /\ f.rep # "bcd")

----------------------------------------------------------------------------
(* Booleans and byte strings.                                              *)

(* encode_binary_boolean_sl: a true without a value is every bit false has *)
(* not, of the implicit width whatever the length.                         *)
BooleanNumber(b, f) ==
  IF ~b THEN f.falseRep
  ELSE IF f.trueEmpty THEN 256^Size.boolean - 1 - f.falseRep
  ELSE f.trueRep

FromBoolean(n, f) ==
  IF f.trueEmpty THEN Boolean(n # f.falseRep)
  ELSE IF n = f.trueRep THEN Boolean(TRUE)
  ELSE IF n = f.falseRep THEN Boolean(FALSE)
  ELSE Refused

Padded(b, size, fill) == b \o [i \in 1..(IF size > Len(b) THEN size - Len(b) ELSE 0) |-> fill]

(* pad_hex_binary_value; a field without a length has a least one.         *)
PaddedHex(b, f) ==
  IF f.length = "explicit" THEN SubSeq(Padded(b, f.len, f.fill), 1, f.len) ELSE Padded(b, f.len, f.fill)

(* write_blob_scalar.                                                      *)
BlobBytes(b, f) == IF Len(b) > f.len THEN Refused ELSE Raw(Padded(b, f.len, f.fill))

----------------------------------------------------------------------------
(* Length prefixes.                                                        *)

(* adjust_prefix_value_for_includes.                                       *)
PrefixValue(payload, f) == Len(payload) + (IF f.includes THEN f.prefix ELSE 0)

(* write_binary_prefix_field: the low bytes of the value, or its digits.   *)
PrefixBytes(n, f) ==
  LET digits == Ordered(BcdBytes(n, AutoWidth(n, "bcd"), f.le), FALSE)
      zeros == [i \in 1..(f.prefix - Len(digits)) |-> 0] IN
  IF ~f.prefixBcd THEN IntBytes(n, f.prefix, f.le)
  ELSE IF Len(digits) > f.prefix THEN SubSeq(digits, Len(digits) - f.prefix + 1, Len(digits))
  ELSE IF f.le THEN zeros \o digits ELSE digits \o zeros

WithPrefix(payload, f) == PrefixBytes(PrefixValue(payload, f), f) \o payload

NoSpan == -1

(* read_prefixed_span: the prefix is read as a binary number.              *)
Span(wire, f) ==
  LET n == UnsignedOf(SubSeq(wire, 1, f.prefix), f.le)
      span == IF f.includes THEN n - f.prefix ELSE n IN
  IF Len(wire) < f.prefix \/ span < 0 \/ span > Len(wire) - f.prefix THEN NoSpan ELSE span

----------------------------------------------------------------------------
(* Writing and reading a field.                                            *)

(* encode_binary_payload_bytes.                                            *)
Payload(v, f) ==
  CASE f.kind \in {"hex", "blob"} /\ v.t = "bytes" -> v
    [] f.kind = "boolean" /\ v.t = "bool" -> Raw(<<IF v.b THEN 1 ELSE 0>>)
    [] f.kind \in Unsigned \union Signed /\ v.t = "num" -> Raw(NumberBytes(v.n, f))
    [] f.kind = "decimal" /\ v.t = "dec" ->
         LET m == ToVirtual(v, Point(f)) IN
         IF m < 0 \/ ~SignAllowed(v.neg, f) THEN Refused ELSE Raw(MagnitudeBytes(m, v.neg, f))
    [] OTHER -> Refused

SizeOf(f) == IF f.length = "implicit" THEN Size[f.kind] ELSE f.len

(* The fields of a given size are binary whatever their representation.    *)
SizedBytes(v, f) ==
  CASE f.kind = "hex" /\ v.t = "bytes" -> Raw(PaddedHex(v.b, f))
    [] f.kind = "boolean" /\ v.t = "bool" -> Raw(IntBytes(BooleanNumber(v.b, f), SizeOf(f), f.le))
    [] f.kind \in Unsigned \union Signed /\ v.t = "num" -> Raw(IntBytes(v.n, SizeOf(f), f.le))
    [] f.kind = "decimal" /\ v.t = "dec" ->
         LET m == ToVirtual(v, Point(f)) IN
         IF m < 0 \/ ~SignAllowed(v.neg, f) THEN Refused
         ELSE Raw(IntBytes(IF v.neg THEN -m ELSE m, SizeOf(f), f.le))
    [] OTHER -> Refused

(* coerce_value_for_kind: an int of the infoset becomes a value of the     *)
(* type; a short is cut where the others refuse.                           *)
Coerced(v, f) ==
  IF v.t # "num" \/ f.kind \notin Unsigned \union Signed THEN v
  ELSE IF f.kind = "short" THEN Whole(SignExtended(v.n % 256^Size.short, Size.short))
  ELSE IF f.kind \in Unsigned /\ (v.n < 0 \/ v.n >= 256^Size[f.kind]) THEN Refused
  ELSE IF FitsType(v.n, f.kind) THEN v ELSE Refused

(* validate_unparse_scalar_lexical: an explicit length holds the bytes.    *)
TooLong(v, f) == f.kind = "hex" /\ v.t = "bytes" /\ f.length = "explicit" /\ Len(v.b) > f.len

WriteBinary(value, f) ==
  LET v == Coerced(value, f)
      payload == Payload(v, f) IN
  IF v = Refused \/ TooLong(v, f) THEN Refused
  ELSE CASE f.kind = "blob" -> BlobBytes(v.b, f)
         [] f.length = "prefixed" -> IF payload = Refused THEN Refused ELSE Raw(WithPrefix(payload.b, f))
         [] f.length = "delimited" ->
              IF payload = Refused \/ (f.kind # "hex" /\ f.rep = "binary") THEN Refused
              ELSE Raw(IF f.kind = "hex" THEN PaddedHex(payload.b, f) ELSE payload.b)
         [] OTHER -> SizedBytes(v, f)

(* decode_decimal_binary; a binary decimal has no sign.                    *)
FromDecimal(b, f) ==
  LET read == CASE f.rep = "bcd" -> BcdDigits(b, f.le)
                [] f.rep = "ibm" -> IbmDigits(b, f.le)
                [] OTHER -> PackedDigits(b, f.le, SignCodes(f.codes, f.policy)) IN
  IF f.rep = "binary" THEN WithPoint(FALSE, UnsignedOf(b, f.le), f.vp)
  ELSE IF read.neg /\ ~f.signed THEN Refused
  ELSE FromMagnitude(read, "decimal", f.vp)

(* decode_binary_scalar.                                                   *)
FromBytes(b, f) ==
  CASE f.kind = "decimal" -> FromDecimal(b, f)
    [] f.kind = "blob" -> Raw(b)
    [] f.rep = "bcd" -> FromMagnitude(BcdDigits(b, f.le), f.kind, 0)
    [] f.rep = "ibm" -> FromMagnitude(IbmDigits(b, f.le), f.kind, 0)
    [] f.rep = "packed" -> FromMagnitude(PackedDigits(b, f.le, SignCodes(f.codes, f.policy)), f.kind, 0)
    [] f.kind = "boolean" -> FromBoolean(UnsignedOf(b, f.le), f)
    [] OTHER -> FromTwos(f.kind, b, f)

(* read_binary_scalar: what is read, and how many bytes it took.  The      *)
(* delimiter of a delimited field ends the wire.                           *)
ReadBinary(wire, f) ==
  LET span == Span(wire, f)
      size == IF f.length = "delimited" THEN Len(wire) ELSE SizeOf(f)
      short == IF f.length = "prefixed" THEN span = NoSpan
               ELSE Len(wire) < size \/ (size = 0 /\ f.length # "delimited" /\ f.kind \notin {"hex", "blob"})
      took == IF f.length = "prefixed" THEN f.prefix + span ELSE size IN
  IF short THEN [value |-> Refused, took |-> 0]
  ELSE [value |-> FromBytes(SubSeq(wire, took - (IF f.length = "prefixed" THEN span ELSE size) + 1, took), f),
        took |-> took]
=============================================================================
