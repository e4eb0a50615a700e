------------------------------- MODULE Values -------------------------------
(***************************************************************************)
(* The life of a value: it is written for its field, read back, written    *)
(* again and read again (the round trip of encoder/scalar.rs and           *)
(* decoder/element.rs for one simple element), or a wire of unknown origin *)
(* is read first.                                                          *)
(*                                                                         *)
(* A field is binary, a text or a calendar; the codecs are operators of    *)
(* BinaryNumbers, TextNumbers and Calendars.                               *)
(***************************************************************************)
EXTENDS Calendars

CONSTANTS
  Fields,     (* the fields: [of |-> binary, text or calendar, f |-> it]   *)
  Samples(_), (* the values a field is given                               *)
  Inputs(_)   (* the wires a field reads without having written them       *)

ASSUME FieldsAssumption ==
  \A x \in Fields :
    CASE x.of = "binary" -> IsBinaryField(x.f)
      [] x.of = "text" -> IsTextField(x.f)
      [] x.of = "calendar" -> IsCalendarField(x.f)

ASSUME InputsAssumption ==
  \A x \in Fields : x.of = "calendar" => Inputs(x) \subseteq Seq(Nat)

VARIABLES
  field,   (* the field                                                    *)
  value,   (* what was given, or what the first reading found              *)
  wire,    (* the bytes or characters, Refused if writing failed           *)
  read,    (* the last reading: the value and how much it took             *)
  phase    (* new, written, received, known, rewritten, done               *)

vars == <<field, value, wire, read, phase>>

Nothing == [t |-> "nothing"]
Unread == [value |-> Nothing, took |-> 0]

Written(v, x) ==
  CASE x.of = "binary" -> WriteBinary(v, x.f)
    [] x.of = "text" -> WriteText(v, x.f)
    [] OTHER -> WriteCalendar(v, x.f)
ReadOf(w, x) ==
  CASE x.of = "binary" -> ReadBinary(w.b, x.f)
    [] x.of = "text" -> ReadText(w.b, x.f)
    [] OTHER -> ReadCalendar(w.b, x.f)

Init ==
  /\ field \in Fields
  /\ value = Nothing /\ wire = Refused /\ read = Unread /\ phase = "new"

(* The encoder writes a value of the infoset.                              *)
Write ==
  /\ phase = "new"
  /\ \E v \in Samples(field) : value' = v /\ wire' = Written(v, field)
  /\ phase' = "written"
  /\ UNCHANGED <<field, read>>

(* A wire comes from elsewhere.                                            *)
Receive ==
  /\ phase = "new"
  /\ \E w \in Inputs(field) : wire' = Raw(w)
  /\ phase' = "received"
  /\ UNCHANGED <<field, value, read>>

(* The decoder reads the wire, the one given or the one written again.    *)
Read ==
  /\ phase \in {"written", "received", "rewritten"} /\ wire # Refused
  /\ read' = ReadOf(wire, field)
  /\ phase' = IF phase = "rewritten" THEN "done" ELSE "known"
  /\ UNCHANGED <<field, value, wire>>

(* What was read is written and read again.                                *)
Rewrite ==
  /\ phase = "known" /\ read.value # Refused
  /\ value' = read.value
  /\ wire' = Written(read.value, field)
  /\ phase' = "rewritten"
  /\ UNCHANGED <<field, read>>

Next == Write \/ Receive \/ Read \/ Rewrite

Spec == Init /\ [][Next]_vars


----------------------------------------------------------------------------

(* What a field can hold.  The encoder and the decoder disagree about the  *)
(* rest, which the README lists.                                           *)

InKind(n, kind) == IF kind \in Unsigned THEN n \in 0..(256^Size[kind] - 1) ELSE FitsType(n, kind)

(* A number as long as its digits: no sign in the binary and BCD forms,    *)
(* which keep none, room for it in the others.                             *)
SignKept(m, neg, f) ==
  CASE f.rep = "packed" -> TRUE
    [] f.rep = "ibm" -> ~neg \/ Len(DigitsOf(m)) % 2 = 1
    [] f.rep = "bcd" -> ~neg
    [] OTHER -> ~neg /\ (f.kind = "int" => m < 128 * 256^(MinimalWidth(m) - 1))

HoldsBinary(v, f) ==
  /\ f.length = "prefixed" => ~f.prefixBcd \/ f.prefix = 1
  /\ CASE f.kind = "boolean" -> f.length # "prefixed"
       [] f.kind = "blob" -> f.length = "explicit" /\ Len(v.b) = f.len
       [] f.kind = "hex" -> f.length # "prefixed" => Len(v.b) = f.len
       [] f.kind = "decimal" ->
            /\ f.length # "explicit" /\ SignKept(ToVirtual(v, f.vp), v.neg, f)
            /\ v.m % 10^(IF v.s > f.vp THEN v.s - f.vp ELSE 0) = 0
       [] OTHER ->
            /\ InKind(v.n, f.kind)
            /\ f.length = "explicit" => \/ f.len = Size[f.kind]
                                        \/ f.len < Size[f.kind] /\ v.n \in 0..(128 * 256^(f.len - 1) - 1)
            /\ f.length \in {"prefixed", "delimited"} => SignKept(Magnitude(v.n), v.n < 0, f)

Larger(a, b) == IF a > b THEN a ELSE b

(* A number under a tenth, which an increment rounds to a multiple without *)
(* the zeros behind its point.                                             *)
UnderTenth(d) == d.m > 0 /\ 10 * d.m < 10^d.s

(* A number the increment and the digits of the pattern leave as it is.    *)
IsRounded(d, f) ==
  LET inc == f.increment
      s == Larger(d.s, inc.s) IN
  /\ d.s <= f.pattern.frac.max
  /\ inc.m > 0 => /\ AtScale(d, s) % AtScale(inc, s) = 0 /\ ~UnderTenth(d) /\ ~f.pattern.exp.on
                  /\ inc.s <= f.pattern.frac.max \/ d.m > 0

(* A text: rounded already, without scaling or a virtual point; a strict   *)
(* reading asks for the point and the groups of the pattern.               *)
Groups(f) == Len(f.pattern.runs)
HoldsNumber(d, f) ==
  LET p == f.pattern IN
  /\ ~p.v.on /\ p.p.left = 0 /\ p.p.right = 0
  /\ IsRounded(d, f)
  /\ d.neg => f.rep # "zoned" /\ p.prefix = <<>> /\ p.neg.t = "none"
  /\ f.group # f.point
  /\ f.kind = "int" => p.frac.min = 0 /\ f.group # Dot
  /\ p.point /\ ~f.lax => p.frac.min > 0 \/ d.s > 0
  /\ Groups(f) > 1 => f.group # None
  /\ Groups(f) > 1 /\ ~f.lax => Groups(f) = (Len(DigitsOf(d.m \div 10^d.s)) + 2) \div 3
  /\ p.exp.on => d.s = 0 /\ f.kind = "decimal" /\ Len(DigitsOf(d.m)) <= p.frac.max + 1

HoldsText(v, f) ==
  CASE f.kind = "boolean" ->
         /\ f.trim # "none"
         /\ \A i \in DOMAIN f.trueReps, j \in DOMAIN f.falseReps : f.trueReps[i][1] # f.falseReps[j][1]
    [] f.base # 10 -> v.n >= 0
    [] OTHER -> /\ HoldsNumber(AsDecimal(v), f)
                /\ f.length = "explicit" => ~f.cuts /\ (f.trim = "pad" \/ (f.trim = "both" /\ f.pad = Blank)) /\ f.pad \notin {None, 0}
                /\ f.length = "implicit" => f.pattern.prefix = <<>> /\ f.pattern.suffix = <<>>

(* A date or time: what the pattern says of it is all there is.            *)
Says(p, c) == c \in LettersIn(p)
HoldsDate(date, f) ==
  /\ f.foreign => date[2] \in f.shared
  /\ \A i \in DOMAIN f.pattern :
       /\ f.pattern[i].c = "E" => f.pattern[i].w >= 3
       /\ f.pattern[i].c = "y" /\ f.pattern[i].w < 4 => date[1] \in (1900 + f.century)..(1999 + f.century)
HoldsTime(time, p) ==
  /\ Says(p, "h") => time[1] \in 1..11
  /\ Says(p, "K") => time[1] <= 12
  /\ ~Says(p, "k")
  /\ ~Says(p, "m") => time[2] = 0
  /\ ~Says(p, "s") => time[3] = 0
HoldsZone(zone, f) ==
  LET letters == {i \in DOMAIN f.pattern : f.pattern[i].c \in ZoneLetters} IN
  IF letters = {} THEN zone = f.zone
  ELSE /\ zone # NoZone
       /\ \A i \in letters : f.pattern[i].w >= 4 \/ f.pattern[i].c = "Z" \/ zone = 0
                             \/ (f.pattern[i].c # "V" /\ zone % 60 = 0)

HoldsCalendar(v, f) ==
  \/ f.pattern = <<>>
  \/ /\ v.date # NoDate => HoldsDate(v.date, f)
     /\ v.time # NoTime => HoldsTime(v.time, f.pattern) /\ HoldsZone(v.zone, f)

Holds(v, x) ==
  CASE x.of = "binary" -> HoldsBinary(v, x.f)
    [] x.of = "text" -> HoldsText(v, x.f)
    [] OTHER -> HoldsCalendar(v, x.f)

(* The same number, whatever its scale; a zero has no sign.                *)
Same(v, w) ==
  \/ v = w
  \/ /\ v.t = "dec" /\ w.t = "dec"
     /\ v.m * 10^w.s = w.m * 10^v.s
     /\ v.neg = w.neg \/ v.m = 0

(* What is written is read back, and all of it.                            *)
ReadsBack ==
  (phase = "known" /\ value # Nothing /\ Holds(value, field)) =>
    Same(read.value, value) /\ read.took = Len(wire.b)

(* An accepted wire, read and written again, is read as the same value.    *)
Stable == (phase = "done" /\ Holds(value, field)) => Same(read.value, value)

----------------------------------------------------------------------------
(* Rounding, told from the text.                                           *)

(* The number a text shows.                                                *)
Shown(text, f) ==
  LET body == IF AtChar(text, 1) = Minus THEN Tail(text) ELSE text
      point == Past(body, 1, Digits) IN
  Decimal(AtChar(text, 1) = Minus, NumberOf(Without(body, f.point)), IF point > Len(body) THEN 0 ELSE Len(body) - point)

(* The modes the writer rounds by.  Up and down are those of a value that  *)
(* is not negative; the halves come with an increment; an unnecessary      *)
(* rounding is one of digits.                                              *)
Rounds(d, f) ==
  /\ f.kind = "decimal" /\ f.rep = "standard" /\ f.base = 10 /\ f.length = "delimited"
  /\ Len(f.pattern.runs) = 1 /\ f.pattern.runs[1].min = 1 /\ f.pattern.prefix = <<>> /\ f.pattern.suffix = <<>>
  /\ ~f.pattern.exp.on /\ ~f.pattern.v.on /\ f.pattern.p.left + f.pattern.p.right = 0
  /\ f.pattern.frac.max >= f.increment.s /\ f.zeros = <<>>
  /\ f.mode \in {"up", "down"} => ~d.neg
  /\ f.mode \in {"halfUp", "halfDown"} => f.increment.m > 0
  /\ f.mode = "unnecessary" => f.increment.m = 0

(* The multiple r of a unit is the one a rounding mode asks for n.         *)
IsRight(r, n, unit, mode) ==
  LET off == r - n
      tie == 2 * Magnitude(off) = unit IN
  CASE mode \in {"up", "ceiling"} -> off \in 0..(unit - 1)
    [] mode \in {"down", "floor"} -> -off \in 0..(unit - 1)
    [] mode = "unnecessary" -> off = 0
    [] OTHER ->
         /\ 2 * Magnitude(off) <= unit
         /\ tie /\ mode = "halfUp" => Magnitude(r) > Magnitude(n)
         /\ tie /\ mode = "halfDown" => Magnitude(r) < Magnitude(n)
         /\ tie /\ mode = "halfEven" => (r \div unit) % 2 = 0

(* A number as an increment leaves it: one under a tenth, 0.04 say, shows  *)
(* its digits right behind the point, as 0.4.                              *)
Stepped(d, f) ==
  IF f.increment.m > 0 /\ UnderTenth(d) THEN Decimal(d.neg, d.m, Len(DigitsOf(d.m))) ELSE d

(* What is written is a multiple of the increment, or of the last digit    *)
(* the pattern has, and the one the rounding mode asks for, but for the    *)
(* zeros an increment loses of a multiple under a tenth.                   *)
RoundsRight ==
  (phase = "written" /\ field.of = "text" /\ wire # Refused /\ value.t = "dec" /\ Rounds(value, field.f)) =>
    LET f == field.f
        step == IF f.increment.m > 0 THEN f.increment ELSE Decimal(FALSE, 1, f.pattern.frac.max)
        scale == Larger(value.s, step.s)
        unit == AtScale(step, scale)
        n == (IF value.neg THEN -1 ELSE 1) * AtScale(value, scale)
        below == unit * (n \div unit) IN
    \E r \in {below, below + unit} :
      /\ IsRight(r, n, unit, f.mode)
      /\ Same(Shown(wire.b, f), Stepped(Canonical(r < 0 \/ (r = 0 /\ value.neg), Magnitude(r), scale), f))

----------------------------------------------------------------------------
(* Dates, counted: the days since the year 1 by the Gregorian rule, none   *)
(* of the algorithms of the code.                                          *)

Before(m) == <<0, 31, 59, 90, 120, 151, 181, 212, 243, 273, 304, 334, 365>>[m]
LeapYear(y) == y % 4 = 0 /\ (y % 100 = 0 => y % 400 = 0)
DayNumber(date) ==
  LET y == date[1] - 1 IN
  365 * y + y \div 4 - y \div 100 + y \div 400 + Before(date[2]) + date[3]
    + (IF date[2] > 2 /\ LeapYear(date[1]) THEN 1 ELSE 0)
Monday1 == 1         \* 1 January of the year 1
SecondsOf(time) == 3600 * time[1] + 60 * time[2] + time[3]

(* The day the first week begins: the week with the given day in it.       *)
WeekStart(day, first) == day - ((day - Monday1 + 1 - first) % 7)

Gotten(text, f) == FoldLeft(LAMBDA w, item : TakeItem(w, item, text, f), Start, f.pattern).got

(* The date of a tick is the epoch's and the days since; the date of a     *)
(* week is the first day of it, counted from the week that has enough days *)
(* in its year or month.                                                   *)
TicksTrue(v, f) ==
  LET n == SignExtended(UnsignedOf(wire.b, f.le), Size[f.rep])
      seconds == IF f.rep = "millis" THEN n \div Ticks ELSE n IN
  86400 * (DayNumber(v.date) - DayNumber(f.epoch.date)) + SecondsOf(v.time) - SecondsOf(f.epoch.time) = seconds

InWeek(got, v, f) ==
  LET year == Or(IF got["y"] # None THEN got["y"] ELSE got["Y"], 1970)
      from == IF Says(f.pattern, "w") THEN <<year, 1, f.firstWeek>> ELSE <<year, got["M"], f.firstWeek>>
      week == IF Says(f.pattern, "w") THEN got["w"] ELSE got["W"] IN
  DayNumber(v.date) = WeekStart(DayNumber(from), f.first) + 7 * (week - 1)
WeeksTrue(v, f) == InWeek(Gotten(NoBlanks(wire.b), f), v, f)

(* The dates of weeks are those of the count from March of the year 0 on:  *)
(* Zeller's congruence, with / and % that cut towards zero, is a weekday   *)
(* ahead before that month, in which its year 0 begins.                    *)
IsCounted(got, f) ==
  LET year == Or(IF got["y"] # None THEN got["y"] ELSE got["Y"], 1970) IN
  year > 0 \/ (~Says(f.pattern, "w") /\ year = 0 /\ got["M"] > 2)

(* The texts whose date is that of a week: no day of the year and no era   *)
(* besides, no time carried into it, and not digits alone, of which the    *)
(* code reads no week.                                                     *)
IsWeek(f) ==
  /\ f.rep = "text" /\ ~f.implicit /\ (Says(f.pattern, "w") \/ Says(f.pattern, "W"))
  /\ ~Says(f.pattern, "D") /\ ~Says(f.pattern, "G") /\ (f.lax => f.kind # "dateTime")
  /\ \E i \in DOMAIN wire.b : wire.b[i] \notin Digits
  /\ IsCounted(Gotten(NoBlanks(wire.b), f), f)

DatesTrue ==
  (phase = "known" /\ field.of = "calendar" /\ read.value # Refused) =>
    LET f == field.f IN
    /\ f.rep \in {"seconds", "millis"} /\ Len(wire.b) = Size[f.rep] => TicksTrue(read.value, f)
    /\ IsWeek(f) => WeeksTrue(read.value, f)

----------------------------------------------------------------------------
(* Numbers of a text, in order.                                            *)
NumbersIn(text) ==
  LET add(s, i) == IF text[i] \notin Digits THEN s
                   ELSE IF i > 1 /\ text[i - 1] \in Digits THEN [s EXCEPT ![Len(s)] = 10 * @ + text[i]]
                   ELSE Append(s, text[i])
  IN FoldLeft(add, <<>>, [i \in DOMAIN text |-> i])

(* A lax reading takes too large a month, day, hour, minute or second for  *)
(* the date and time as much later: nothing of it is lost, and the date is *)
(* one of the calendar, unless there are more days than the months gone    *)
(* through have.                                                           *)
LaxCarries ==
  (phase = "known" /\ field.of = "calendar" /\ field.f.lax /\ read.value # Refused
     /\ \E i \in DOMAIN wire.b : wire.b[i] \notin Digits) =>
    LET v == read.value
        n == NumbersIn(wire.b)
        dated == v.date # NoDate
        months == 12 * n[1] + n[2] - 1
        time == IF v.time = NoTime THEN <<0, 0, 0>>
                ELSE LET k == IF dated THEN 3 ELSE 0 IN <<n[k + 1], n[k + 2], IF Len(n) > k + 2 THEN n[k + 3] ELSE 0>>
        seconds == SecondsOf(time) IN
    /\ dated /\ n[3] + seconds \div 86400 <= 28 * (MaxRolls + 1) =>
         /\ DayNumber(v.date) = DayNumber(<<months \div 12, (months % 12) + 1, n[3]>>) + seconds \div 86400
         /\ v.date[3] <= Before(v.date[2] + 1) - Before(v.date[2]) + (IF v.date[2] = 2 /\ LeapYear(v.date[1]) THEN 1 ELSE 0)
    /\ v.time # NoTime => SecondsOf(v.time) = seconds % 86400
=============================================================================
