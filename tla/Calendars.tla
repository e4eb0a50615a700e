----------------------------- MODULE Calendars -----------------------------
(***************************************************************************)
(* Dates and times (vm/calendar_binary.rs, runtime/calendar_text.rs):      *)
(* seconds from an epoch, packed digits, texts under a pattern, texts of   *)
(* the XSD form.  The civil calendar is computed four times: days from and *)
(* to a date, the weekday, the days of a month; they must agree.           *)
(*                                                                         *)
(* A value is a record of numbers; its zone is in minutes.  A word of a    *)
(* text, the name of a month say, is one character.                        *)
(***************************************************************************)
EXTENDS TextNumbers, FiniteSets

CONSTANTS
  Ticks,       (* binaryMilliseconds: a second                             *)
  FirstDay, LastDay, (* ICU_CALENDAR_MIN_MILLIS, ICU_CALENDAR_MAX_MILLIS, which are whole days *)
  MinYear, MaxYear,  (* the tunables minValidYear, maxValidYear            *)
  MaxRolls     (* the months normalize_lenient_ymd goes through, 512       *)

ASSUME CalendarAssumption ==
  /\ Ticks \in Nat \ {0} /\ MaxRolls \in Nat /\ {FirstDay, LastDay, MinYear, MaxYear} \subseteq Int
  /\ {"seconds", "millis"} \subseteq DOMAIN Size

Colon == 60
LetterT == 61
LetterZ == 62
Gmt == 63
Unk == 64            \* the zone a writer does not know
AM == 70
PM == 71
AD == 72
BC == 73
Month(m) == 100 + m          \* the name of a month
Weekday(d) == 120 + d
ZoneNames == 140..142        \* EST, PST, a long name
Foreign == 199               \* a name of another language

NoZone == 10000
Zulu == 10001        \* the letter Z, which is not taken for a zone
Junk == 10002        \* whatever follows a time

Unreadable == [t |-> "refused"]
Moment(date, time, zone) == [t |-> "calendar", date |-> date, time |-> time, zone |-> zone]
NoDate == <<>>
NoTime == <<>>

DateLetters == {"y", "Y", "M", "d", "D", "E", "e", "F", "w", "W", "G"}
HourLetters == {"H", "h", "k", "K"}
ZoneLetters == {"z", "Z", "v", "V"}
FieldLetters == {"E", "M", "d", "D", "F", "w", "W", "m", "y", "Y", "H", "h", "s", "e", "k", "K", "S"}

(* pattern: letters with their widths, and literals.                       *)
Items == [c : FieldLetters \union ZoneLetters \union {"a", "G", "literal"}, w : Nat \ {0}, char : Nat \union {None}]
IsCalendarField(f) ==
  /\ f.kind \in {"date", "time", "dateTime"}
  /\ f.rep \in {"text", "bcd", "packed", "ibm", "seconds", "millis"}
  /\ {f.lax, f.implicit, f.le} \subseteq BOOLEAN
  /\ f.first \in 1..7 /\ f.firstWeek \in 1..7 /\ f.century \in 0..99
  /\ f.zone \in -900..900 \union {NoZone}
  /\ f.policy \in {"strict", "lax"}
  /\ f.pattern \in Seq(Items) /\ \A i \in DOMAIN f.pattern : f.pattern[i].c = "literal" => f.pattern[i].char # None
  /\ f.epoch.date \in Int \X (1..12) \X Int /\ f.epoch.time \in Int \X Int \X Int /\ f.epoch.zone \in Int

----------------------------------------------------------------------------
(* The civil calendar.                                                     *)

(* days_from_civil; a year begins in March.                                *)
DaysOf(y, m, d) ==
  LET shifted == IF m <= 2 THEN y - 1 ELSE y
      era == shifted \div 400
      yoe == shifted % 400
      doy == (153 * (IF m > 2 THEN m - 3 ELSE m + 9) + 2) \div 5 + d - 1
  IN era * 146097 + yoe * 365 + yoe \div 4 - yoe \div 100 + doy - 719468

(* civil_from_days: the year of a day of an era of 400 years, the month of *)
(* a day of a year that begins in March, and the date.                     *)
YearOfEra(doe) == (doe - doe \div 1460 + doe \div 36524 - doe \div 146096) \div 365
MonthOf(doy) == LET mp == (5 * doy + 2) \div 153 IN IF mp < 10 THEN mp + 3 ELSE mp - 9

CivilOf(days) ==
  LET z == days + 719468
      era == z \div 146097
      doe == z % 146097
      yoe == YearOfEra(doe)
      doy == doe - (365 * yoe + yoe \div 4 - yoe \div 100)
      m == MonthOf(doy)
  IN <<yoe + era * 400 + (IF m <= 2 THEN 1 ELSE 0), m, doy - (153 * ((5 * doy + 2) \div 153) + 2) \div 5 + 1>>

IsLeap(y) == (y % 4 = 0 /\ y % 100 # 0) \/ y % 400 = 0

(* Mutant: every fourth year is a leap year.                               *)
JulianMonth(y, m) ==
  CASE m \in {4, 6, 9, 11} -> 30
    [] m = 2 -> IF y % 4 = 0 THEN 29 ELSE 28
    [] OTHER -> 31

(* days_in_month; a month that is none has 30.                             *)
DaysInMonth(y, m) ==
  CASE m \in {1, 3, 5, 7, 8, 10, 12} -> 31
    [] m = 2 -> IF IsLeap(y) THEN 29 ELSE 28
    [] OTHER -> 30

(* The operators / and % of the code on signed numbers cut towards zero.   *)
Quot(a, b) == IF a >= 0 THEN a \div b ELSE -((-a) \div b)
Rem(a, b) == a - b * Quot(a, b)

(* weekday_of_ymd: Zeller's congruence, Monday 1.                          *)
WeekdayOf(y0, m0, d) ==
  LET y == IF m0 <= 2 THEN y0 - 1 ELSE y0
      m == IF m0 <= 2 THEN m0 + 12 ELSE m0
      k == Rem(y, 100)
      j == Quot(y, 100)
      h == (d + (13 * (m + 1)) \div 5 + k + Quot(k, 4) + Quot(j, 4) + 5 * j) % 7
  IN ((h + 5) % 7) + 1

WeekdayOfDay(z) == LET c == CivilOf(z) IN WeekdayOf(c[1], c[2], c[3])

Nth(S, n) == {x \in S : Cardinality({z \in S : z <= x}) = n}
Only(S) == CHOOSE x \in S : TRUE

(* month_day_from_ordinal: the date of a day of the year.                  *)
OfOrdinal(y, n) ==
  LET before[m \in 1..13] == IF m = 1 THEN 0 ELSE before[m - 1] + DaysInMonth(y, m - 1)
      m == CHOOSE k \in 1..12 : before[k] < n /\ n <= before[k + 1] IN
  IF n = 0 \/ n > before[13] THEN NoDate ELSE <<y, m, n - before[m]>>

(* Mutant: a week counts for the year it begins in.                        *)
OfWeekBegun(y, week, first, least) ==
  LET starts == {z \in DaysOf(y, 1, 1)..DaysOf(y, 12, 31) : WeekdayOfDay(z) = first}
      nth == Nth(starts, week) IN
  IF nth = {} THEN NoDate ELSE CivilOf(Only(nth))

(* date_from_week_of_year: the first day of a week, which counts for the   *)
(* year when enough of its days are in it.                                 *)
OfWeek(y, week, first, least) ==
  LET counts(z) == Cardinality({i \in 0..6 : CivilOf(z + i)[1] = y}) >= least
      starts == {z \in (DaysOf(y, 1, 1) - 14)..(DaysOf(y, 12, 31) + 14) : WeekdayOfDay(z) = first /\ counts(z)}
      nth == Nth(starts, week) IN
  IF nth = {} THEN NoDate ELSE CivilOf(Only(nth))

(* date_from_week_of_month, ymd_from_day_offset; a week that begins in the *)
(* month before has its date there.                                        *)
OfMonthWeek(y, m, week, first, least) ==
  LET dim == DaysInMonth(y, m)
      start == 1 - ((WeekdayOf(y, m, 1) + 7 - first) % 7)
      counts(s) == Cardinality({i \in 0..6 : s + i \in 1..dim}) >= least
      nth == Nth({s \in {start + 7 * k : k \in 0..6} : s <= dim + 7 /\ counts(s)}, week)
      before == IF m = 1 THEN <<y - 1, 12>> ELSE <<y, m - 1>> IN
  IF m \notin 1..12 \/ nth = {} THEN NoDate
  ELSE IF Only(nth) >= 1 THEN <<y, m, Only(nth)>>
  ELSE <<before[1], before[2], DaysInMonth(before[1], before[2]) + Only(nth)>>

(* nth_weekday_in_month, first_weekday_in_month, infer_day_from_weekday.   *)
NthWeekday(y, m, n, weekday) ==
  LET nth == Nth({d \in 1..DaysInMonth(y, m) : WeekdayOf(y, m, d) = weekday}, n) IN
  IF m \notin 1..12 \/ nth = {} THEN NoDate ELSE <<y, m, Only(nth)>>

(* weekday_from_localized_index.                                           *)
Localized(n, first) == ((first - 1 + (IF n = 0 THEN 0 ELSE n - 1)) % 7) + 1

(* normalize_lenient_ymd: months beyond the year, then days beyond months, *)
(* a month at a time and MaxRolls times at most; what is left then stays.  *)
RollOnce(date) ==
  LET y == date[1]
      m == date[2]
      dim == DaysInMonth(y, m)
      prev == IF m = 1 THEN <<y - 1, 12>> ELSE <<y, m - 1>>
      next == IF m = 12 THEN <<y + 1, 1>> ELSE <<y, m + 1>> IN
  IF date[3] \in 1..dim THEN date
  ELSE IF date[3] < 1 THEN <<prev[1], prev[2], date[3] + DaysInMonth(prev[1], prev[2])>>
  ELSE <<next[1], next[2], date[3] - dim>>

Rolled(date) ==
  LET after[n \in 0..MaxRolls] == IF n = 0 THEN date ELSE RollOnce(after[n - 1])
  IN after[MaxRolls]

LenientDate(y, m, d) ==
  Rolled(<<IF m < 1 THEN y + (m - 12) \div 12 ELSE y + (m - 1) \div 12, ((m - 1) % 12) + 1, d>>)

(* normalize_lenient_hms_with_day_carry: the time, and the days beyond.    *)
LenientTime(h, n, s) ==
  LET minutes == n + s \div 60
      hours == h + minutes \div 60
  IN [time |-> <<hours % 24, minutes % 60, s % 60>>, days |-> hours \div 24]

TrueDate(date) == date[2] \in 1..12 /\ date[3] \in 1..DaysInMonth(date[1], date[2])
TrueTime(time) == time[1] <= 23 /\ time[2] <= 59 /\ time[3] <= 59

----------------------------------------------------------------------------
(* Seconds from an epoch.                                                  *)

(* A number of seconds as days and the seconds of a day.                   *)
Instant(days, secs) == <<days + secs \div 86400, secs % 86400>>
Later(at, secs) == Instant(at[1], at[2] + secs)

(* unix_from_utc_ymdhms, and back format_unix_datetime_utc_millis.         *)
UnixOf(date, time) ==
  Instant(DaysOf(date[1], date[2], date[3]), time[1] * 3600 + time[2] * 60 + time[3])
ShownDate(at) == CivilOf(at[1])
ShownTime(at) == <<at[2] \div 3600, (at[2] % 3600) \div 60, at[2] % 60>>

(* validate_calendar_year_tunables: the year of a text that begins with a  *)
(* minus is taken for 0.                                                   *)
ValidYear(y) == (IF y < 0 THEN 0 ELSE y) \in MinYear..MaxYear

(* format_binary_calendar_from_millis_delta: nothing from the last day on  *)
(* and nothing up to the first moment of the first one.                    *)
OutOfRange(at, ticks) ==
  at[1] >= LastDay \/ at[1] < FirstDay \/ (at = <<FirstDay, 0>> /\ ticks % Ticks = 0)

(* parse_calendar_epoch_unix, format_binary_calendar_datetime: the date is *)
(* shown in the zone of the epoch; an epoch without a zone has none.       *)
SinceEpoch(epoch, ticks) ==
  LET offset == IF epoch.zone = NoZone THEN 0 ELSE 60 * epoch.zone
      utc == Later(UnixOf(epoch.date, epoch.time), ticks \div Ticks - offset)
      shown == Later(utc, offset) IN
  IF OutOfRange(utc, ticks) \/ ~ValidYear(ShownDate(shown)[1]) THEN Unreadable
  ELSE Moment(ShownDate(shown), ShownTime(shown), IF epoch.zone = 0 \/ offset # 0 THEN epoch.zone ELSE NoZone)

(* decode_binary_calendar: a short number of milliseconds is taken for the *)
(* first bytes of a long one.                                              *)
FromTicks(b, f) ==
  LET wide == Size[f.rep]
      full == IF Len(b) < wide THEN b \o [i \in 1..(wide - Len(b)) |-> 0] ELSE b
      n == SignExtended(UnsignedOf(full, f.le), wide) IN
  IF Len(b) # wide /\ ~(f.rep = "millis" /\ 2 * Len(b) = wide) THEN Unreadable
  ELSE SinceEpoch(f.epoch, IF f.rep = "millis" THEN n ELSE Ticks * n)

----------------------------------------------------------------------------
(* Writing a text.                                                         *)

Two(n) == IF n < 10 THEN <<0, n>> ELSE DigitsOf(n)
Four(n) == Times(0, 4 - Len(DigitsOf(n))) \o DigitsOf(n)
Wide(n, w) == IF w >= 2 THEN Two(n) ELSE DigitsOf(n)

ZoneText(zone) ==
  IF zone = NoZone THEN <<>>
  ELSE <<IF zone < 0 THEN Minus ELSE Plus>> \o Two(Magnitude(zone) \div 60) \o <<Colon>> \o Two(Magnitude(zone) % 60)

DateText(date) == Four(date[1]) \o <<Minus>> \o Two(date[2]) \o <<Minus>> \o Two(date[3])
TimeText(time) == Two(time[1]) \o <<Colon>> \o Two(time[2]) \o <<Colon>> \o Two(time[3])

MomentText(v) ==
  (IF v.date = NoDate THEN <<>> ELSE DateText(v.date))
    \o (IF v.date # NoDate /\ v.time # NoTime THEN <<LetterT>> ELSE <<>>)
    \o (IF v.time = NoTime THEN <<>> ELSE TimeText(v.time)) \o ZoneText(v.zone)

(* emit_calendar_tz_unparse.                                               *)
ZoneField(zone, c, w) ==
  LET sign == <<IF zone < 0 THEN Minus ELSE Plus>>
      hours == Magnitude(zone) \div 60 IN
  IF zone = NoZone THEN <<>>
  ELSE CASE c \in {"z", "v"} -> <<Gmt>> \o (IF w >= 4 THEN ZoneText(zone) ELSE sign \o DigitsOf(hours))
         [] c = "Z" -> sign \o Two(hours) \o Two(Magnitude(zone) % 60)
         [] OTHER -> IF zone = 0 THEN <<Gmt>> ELSE IF w >= 4 THEN <<Gmt>> \o ZoneText(zone) ELSE <<Unk>>

(* unparse_iso_date_to_calendar_pattern; names shorter than three letters  *)
(* are those of no day.                                                    *)
DateField(item, date, f) ==
  CASE item.c = "E" -> <<IF item.w >= 3 /\ ~f.foreign THEN Weekday(WeekdayOf(date[1], date[2], date[3])) ELSE Foreign>>
    [] item.c = "M" /\ item.w >= 3 -> <<IF f.foreign /\ date[2] \notin f.shared THEN Foreign ELSE Month(date[2])>>
    [] item.c = "M" -> Two(date[2])
    [] item.c = "d" -> Wide(date[3], item.w)
    [] OTHER -> IF item.w >= 4 THEN Four(date[1]) ELSE Two(date[1] % 100)

(* unparse_iso_time_to_calendar_pattern.                                   *)
TimeField(item, time) ==
  CASE item.c \in {"h", "K"} -> Wide(IF time[1] > 12 THEN time[1] % 12 ELSE time[1], item.w)
    [] item.c \in {"H", "k"} -> Wide(time[1], item.w)
    [] item.c = "m" -> Wide(time[2], item.w)
    [] item.c = "s" -> Wide(time[3], item.w)
    [] OTHER -> Times(0, item.w)

LettersIn(p) == {p[i].c : i \in DOMAIN p}

(* calendar_pattern_time_only.                                             *)
TimeOnly(p) ==
  LettersIn(p) \cap DateLetters = {} /\ LettersIn(p) \cap (HourLetters \union {"m", "s", "S"}) # {}

(* validate_unparse_scalar_lexical: days up to 31 in every month.          *)
IsLexical(v, f) ==
  /\ f.kind # "time" => v.date # NoDate /\ v.date[1] >= 0 /\ v.date[2] \in 1..12 /\ v.date[3] \in 1..31
  /\ f.kind # "date" => v.time # NoTime /\ TrueTime(v.time)

WriteCalendar(v, f) ==
  LET timed == TimeOnly(f.pattern) \/ f.kind = "time"
      allowed == IF timed THEN HourLetters \union ZoneLetters \union {"m", "s", "S", "literal"}
                 ELSE {"E", "M", "d", "y", "Y", "literal"}
      text(item) ==
        CASE item.c = "literal" -> <<item.char>>
          [] item.c \in ZoneLetters -> ZoneField(v.zone, item.c, item.w)
          [] OTHER -> IF timed THEN TimeField(item, v.time) ELSE DateField(item, v.date, f) IN
  IF f.rep # "text" \/ ~IsLexical(v, f) THEN Refused
  ELSE IF f.pattern = <<>> THEN Raw(MomentText(v))
  ELSE IF ~(LettersIn(f.pattern) \subseteq allowed) \/ (timed /\ v.date # NoDate) THEN Refused
  ELSE Raw(FlattenSeq([i \in DOMAIN f.pattern |-> text(f.pattern[i])]))

----------------------------------------------------------------------------
(* Reading a text under a pattern.                                         *)

WordEnd(text, i) ==
  CHOOSE j \in i..(Len(text) + 1) :
    /\ AtChar(text, j) \in {None, Blank, Minus, Colon, Comma}
    /\ \A k \in i..(j - 1) : text[k] \notin {Blank, Minus, Colon, Comma}

(* expand_calendar_year: a year of two digits is one of the hundred years  *)
(* that begin with the century start.                                      *)
Expanded(digits, century) ==
  LET y == NumberOf(digits) IN
  IF Len(digits) # 2 THEN y ELSE IF y >= century THEN 1900 + y ELSE 2000 + y

(* parse_calendar_tz_offset: hh:mm, hhmm, hh or h behind a sign.           *)
Offset(text, i) ==
  LET n == CHOOSE k \in 0..4 : (\A j \in 1..k : AtChar(text, i + j) \in Digits)
                               /\ (k = 4 \/ AtChar(text, i + k + 1) \notin Digits)
      at(j) == text[i + j]
      colon == n = 2 /\ AtChar(text, i + 3) = Colon /\ AtChar(text, i + 4) \in Digits /\ AtChar(text, i + 5) \in Digits
      sized(hours, minutes, took) ==
        [zone |-> (IF text[i] = Minus THEN -1 ELSE 1) * (60 * hours + minutes), next |-> i + 1 + took] IN
  IF AtChar(text, i) \notin {Plus, Minus} \/ n = 0 THEN [zone |-> NoZone, next |-> i]
  ELSE IF n = 1 THEN sized(at(1), 0, 1)
  ELSE IF colon THEN sized(10 * at(1) + at(2), 10 * at(4) + at(5), 5)
  ELSE IF n = 4 THEN sized(10 * at(1) + at(2), 10 * at(3) + at(4), 4)
  ELSE sized(10 * at(1) + at(2), 0, 2)

ZoneOfName(c) == CASE c = 140 -> -300 [] c = 141 -> -480 [] OTHER -> -480

(* read_calendar_timezone, read_calendar_timezone_name: a zone no writer   *)
(* knew is taken for UTC.                                                  *)
ReadZone(text, start, item) ==
  LET i == Past(text, start, {Blank})
      gmt == AtChar(text, i) = Gmt
      next == IF gmt THEN Past(text, i + 1, {Blank}) ELSE i
      offset == Offset(text, next)
      named == AtChar(text, i) \in ZoneNames /\ (item.c # "V" => (item.w >= 4 \/ text[i] # 142)) /\ (item.c = "V" => item.w >= 4 /\ text[i] = 142) IN
  IF offset.zone # NoZone /\ (gmt \/ item.c # "V") THEN offset
  ELSE IF gmt /\ (next > Len(text) \/ item.c \notin {"Z", "V"}) THEN [zone |-> 0, next |-> IF next > Len(text) THEN next ELSE i + 1]
  ELSE IF item.c = "V" /\ AtChar(text, i) = Unk THEN [zone |-> 0, next |-> i + 1]
  ELSE IF item.c # "Z" /\ named THEN [zone |-> ZoneOfName(text[i]), next |-> i + 1]
  ELSE [zone |-> NoZone, next |-> 0]

NoFields == [c \in FieldLetters \union {"a", "G"} |-> None]
Start == [ok |-> TRUE, i |-> 1, got |-> NoFields, hour |-> None, zone |-> NoZone]

Took(w, i, c, n) == [w EXCEPT !.i = i, !.got[c] = n]

(* read_calendar_field: digits.                                            *)
TakeDigits(w, item, text, f) ==
  LET most == IF item.w = 1 /\ item.c \notin {"k", "K", "S"} THEN 4 ELSE item.w
      n == CHOOSE k \in 0..most : (\A j \in 0..(k - 1) : AtChar(text, w.i + j) \in Digits)
                                  /\ (k = most \/ AtChar(text, w.i + k) \notin Digits)
      digits == SubSeq(text, w.i, w.i + n - 1)
      value == IF item.c \in {"y", "Y"} THEN Expanded(digits, f.century) ELSE NumberOf(digits)
      next == Took(w, w.i + n, item.c, value) IN
  IF n = 0 \/ (item.w > 1 /\ n # item.w /\ item.c \notin HourLetters \union {"m", "s", "S", "d", "M"}) THEN Mismatch(w)
  ELSE IF item.c \in HourLetters THEN [next EXCEPT !.hour = value] ELSE next

(* read_calendar_field: a name, which may be one nobody knows; a weekday   *)
(* is known when it is needed.                                             *)
TakeName(w, item, text) ==
  LET i == Past(text, w.i, {Blank})
      end == WordEnd(text, i)
      c == IF end = i + 1 THEN text[i] ELSE Foreign
      names == IF item.c = "E" THEN 121..127 ELSE 101..112
      known == c \in names IN
  IF end = i \/ (item.c = "M" /\ ~known) THEN Mismatch(w)
  ELSE Took(w, end, item.c, IF ~known THEN 0 ELSE IF item.c = "E" THEN c - 120 ELSE c - 100)

TakeWord(w, item, text, words) ==
  LET i == Past(text, w.i, {Blank}) IN
  IF AtChar(text, i) \notin words THEN Mismatch(w) ELSE Took(w, i + 1, item.c, text[i])

TakeZone(w, item, text) ==
  LET r == ReadZone(text, w.i, item) IN
  IF r.zone = NoZone THEN Mismatch(w) ELSE [w EXCEPT !.i = r.next, !.zone = r.zone]

TakeItem(w, item, text, f) ==
  IF ~w.ok THEN w
  ELSE CASE item.c = "literal" /\ item.char = Blank -> [w EXCEPT !.i = Past(text, w.i, {Blank})]
         [] item.c = "literal" /\ item.char # Blank ->
              IF AtChar(text, w.i) = item.char THEN [w EXCEPT !.i = @ + 1] ELSE Mismatch(w)
         [] item.c \in ZoneLetters -> TakeZone(w, item, text)
         [] item.c = "G" -> TakeWord(w, item, text, {AD, BC})
         [] item.c = "a" -> TakeWord(w, item, text, {AM, PM})
         [] item.c = "E" \/ (item.c = "M" /\ item.w >= 3) -> TakeName(w, item, text)
         [] OTHER -> TakeDigits(w, item, text, f)

(* finalize_calendar_hour_fields, apply_hour12; -1 where it fails.         *)
HourOf(w, p) ==
  LET has(c) == c \in LettersIn(p)
      pm == w.got["a"] = PM
      h == IF w.hour = None THEN 0 ELSE w.hour IN
  IF has("a") /\ has("H") /\ ~has("h") THEN IF pm THEN 12 ELSE 0
  ELSE IF has("K") THEN IF has("a") /\ h = 12 THEN -1 ELSE IF pm THEN h + 12 ELSE h
  ELSE IF has("k") THEN IF h \in {0, 24} THEN 0 ELSE h - 1
  ELSE IF ~has("h") THEN h
  ELSE IF pm THEN (IF h = 12 THEN 12 ELSE h + 12) ELSE IF h = 12 THEN 0 ELSE h

Or(n, default) == IF n = None THEN default ELSE n

(* The date of the fields: a day of the year before a week of the year, a  *)
(* week of the month, a day, a weekday.                                    *)
DateOf(w, f) ==
  LET has(c) == c \in LettersIn(f.pattern)
      given == IF w.got["y"] # None THEN w.got["y"] ELSE w.got["Y"]
      y == IF w.got["G"] = BC THEN 1 - Or(given, 1970) ELSE Or(given, 1970)
      m == IF has("M") THEN w.got["M"] ELSE 1
      week == IF w.got["W"] # None THEN w.got["W"] ELSE w.got["F"] IN
  CASE has("D") -> OfOrdinal(IF given = None THEN 1970 ELSE y, w.got["D"])
    [] has("w") /\ ~has("D") -> OfWeek(Or(given, 1970), w.got["w"], f.first, f.firstWeek)
    [] (has("F") \/ has("W")) /\ ~has("D") /\ ~has("w") ->
         IF ~has("M") THEN NoDate
         ELSE IF has("W") THEN OfMonthWeek(y, m, week, f.first, f.firstWeek)
         ELSE NthWeekday(y, m, week, f.first)
    [] OTHER ->
         IF has("d") THEN <<y, m, w.got["d"]>>
         ELSE IF has("e") THEN NthWeekday(y, m, 1, Localized(w.got["e"], f.first))
         ELSE IF has("E") THEN NthWeekday(y, m, 1, w.got["E"])
         ELSE <<y, m, 1>>

(* format_calendar_text: the time alone, or a date that may have a time;   *)
(* a lax reading carries what is too much to the next larger unit.         *)
Together(w, d, t, text, f) ==
  LET has(c) == c \in LettersIn(f.pattern)
      timed == \E c \in HourLetters \union {"m", "s"} : has(c)
      dated == \E c \in DateLetters \ {"e", "G"} : has(c)
      lenient == LenientTime(t[1], t[2], t[3])
      time == IF f.lax THEN lenient.time ELSE t
      more == IF f.lax /\ f.kind = "dateTime" /\ timed THEN lenient.days ELSE 0
      day == IF f.lax THEN LenientDate(d[1], d[2], d[3]) ELSE d IN
  IF ~w.ok \/ Past(text, w.i, {Blank}) <= Len(text) \/ t[1] < 0 \/ (has("h") /\ w.hour = None) THEN Unreadable
  ELSE IF timed /\ ~dated THEN Moment(NoDate, time, w.zone)
  ELSE IF d = NoDate \/ (timed /\ w.hour = None /\ ~has("k") /\ ~has("K")) THEN Unreadable
  ELSE IF timed THEN Moment(IF more = 0 THEN day ELSE LenientDate(day[1], day[2], day[3] + more), time, w.zone)
  ELSE Moment(day, IF f.kind = "dateTime" /\ has("W") THEN <<0, 0, 0>> ELSE NoTime, NoZone)
Gathered(w, text, f) ==
  Together(w, DateOf(w, f), <<HourOf(w, f.pattern), Or(w.got["m"], 0), Or(w.got["s"], 0)>>, text, f)
Blankless(text, f) == Gathered(FoldLeft(LAMBDA x, item : TakeItem(x, item, text, f), Start, f.pattern), text, f)
PatternMoment(input, f) == Blankless(NoBlanks(input), f)

(* format_calendar_pattern: digits alone; every character of the pattern   *)
(* stands for one, an hour is the one of the day, nothing is checked but   *)
(* the day of a year.                                                      *)
DigitMoment(text, f) ==
  LET p == f.pattern
      width(item) == IF item.c = "literal" THEN 1 ELSE item.w
      from(i) == FoldLeft(LAMBDA n, item : n + width(item), 1, SubSeq(p, 1, i - 1))
      field(c) == {i \in DOMAIN p : p[i].c = c}
      has(c) == field(c) # {}
      last(c) == CHOOSE i \in field(c) : \A j \in field(c) : j <= i
      digits(c) == SubSeq(text, from(last(c)), from(last(c)) + width(p[last(c)]) - 1)
      first(cs) == IF cs = {} THEN 0 ELSE NumberOf(digits(CHOOSE c \in cs : TRUE))
      y == IF has("y") THEN Expanded(digits("y"), f.century) ELSE IF has("Y") THEN Expanded(digits("Y"), f.century) ELSE 1970
      m == IF has("M") THEN NumberOf(digits("M")) ELSE 1
      hours == LettersIn(p) \cap HourLetters
      time == <<first(hours), first(LettersIn(p) \cap {"m"}), first(LettersIn(p) \cap {"s"})>>
      whole == hours # {} /\ has("m") /\ has("s")
      date == IF has("D") THEN OfOrdinal(y, NumberOf(digits("D")))
              ELSE IF has("d") THEN <<y, m, NumberOf(digits("d"))>>
              ELSE IF has("e") THEN NthWeekday(y, m, 1, Localized(NumberOf(digits("e")), f.first))
              ELSE <<y, m, 1>> IN
  IF Len(text) < from(Len(p) + 1) - 1 THEN Unreadable
  ELSE IF LettersIn(p) \cap {"y", "Y", "M", "d", "e", "D"} # {}
       THEN IF date = NoDate THEN Unreadable ELSE Moment(date, IF whole THEN time ELSE NoTime, NoZone)
  ELSE IF TimeOnly(p) THEN Moment(NoDate, time, NoZone) ELSE Unreadable

----------------------------------------------------------------------------
(* The XSD form (process_implicit_calendar_text).                          *)

Part(text, i, sep) ==
  LET end == CHOOSE j \in i..(Len(text) + 1) : AtChar(text, j) \in {None, sep} /\ \A k \in i..(j - 1) : text[k] # sep
  IN IF i > Len(text) THEN <<>> ELSE SubSeq(text, i, end - 1)

(* Three numbers with a separator between them.                            *)
Three(text, sep) ==
  LET a == Part(text, 1, sep)
      b == Part(text, Len(a) + 2, sep)
      c == SubSeq(text, Len(a) + Len(b) + 3, Len(text))
      number(t) == t # <<>> /\ \A i \in DOMAIN t : t[i] \in Digits IN
  IF number(a) /\ number(b) /\ number(c) THEN <<NumberOf(a), NumberOf(b), NumberOf(c)>> ELSE <<>>

(* normalize_implicit_tz_suffix: what is no zone is kept as it is.         *)
SuffixZone(raw) ==
  LET text == NoBlanks(raw)
      gmt == IF AtChar(text, 1) = Gmt THEN NoBlanks(Tail(text)) ELSE text
      offset == Offset(gmt, 1)
      digits == Len(gmt) - 1
      full == offset.zone # NoZone /\ offset.next > Len(gmt) IN
  IF text = <<>> THEN NoZone
  ELSE IF text = <<LetterZ>> THEN Zulu
  ELSE IF gmt = <<>> THEN 0
  ELSE IF full /\ (gmt # text \/ digits >= 4) THEN offset.zone
  ELSE Junk

XsdTime(text) ==
  LET core == SubSeq(text, 1, 8) IN
  IF Len(text) < 8 \/ AtChar(text, 3) # Colon \/ AtChar(text, 6) # Colon \/ Three(core, Colon) = <<>> THEN Unreadable
  ELSE Moment(NoDate, Three(core, Colon), SuffixZone(SubSeq(text, 9, Len(text))))

ImplicitDate(date, f) ==
  IF date = <<>> \/ ~ValidYear(date[1]) THEN Unreadable
  ELSE IF f.lax THEN Moment(LenientDate(date[1], date[2], date[3]), NoTime, NoZone)
  ELSE IF TrueDate(date) THEN Moment(date, NoTime, NoZone) ELSE Unreadable
ImplicitTime(time, f) ==
  CASE time = Unreadable -> Unreadable
    [] time # Unreadable /\ f.lax ->
         Moment(NoDate, LenientTime(time.time[1], time.time[2], time.time[3]).time, time.zone)
    [] OTHER -> IF TrueTime(time.time) THEN time ELSE Unreadable
ImplicitBoth(date, time, rest, f) ==
  LET h == time.time[1]
      n == time.time[2]
      s == time.time[3] IN
  IF date = <<>> \/ ~ValidYear(date[1]) \/ time = Unreadable
     \/ (\E i \in DOMAIN rest : rest[i] \in {Blank, LetterZ, Gmt, Unk})
     \/ (time.zone = 0 /\ \E i \in 9..Len(rest) : rest[i] = Minus) THEN Unreadable
  ELSE IF f.lax
       THEN Moment(LenientDate(date[1], date[2], date[3] + LenientTime(h, n, s).days), LenientTime(h, n, s).time, time.zone)
  ELSE IF TrueDate(date) /\ TrueTime(time.time) THEN Moment(date, time.time, time.zone) ELSE Unreadable
Halves(date, rest, f) == ImplicitBoth(Three(date, Minus), XsdTime(rest), rest, f)
ImplicitMoment(input, f) ==
  LET text == NoBlanks(input) IN
  CASE f.kind = "date" -> ImplicitDate(Three(text, Minus), f)
    [] f.kind = "time" -> ImplicitTime(XsdTime(text), f)
    [] OTHER -> Halves(Part(text, 1, LetterT), SubSeq(text, Len(Part(text, 1, LetterT)) + 2, Len(text)), f)

----------------------------------------------------------------------------
(* Reading a field.                                                        *)

(* append_packed_calendar_timezone: the zone of the property; else a date  *)
(* with a time is in UTC.                                                  *)
InZone(v, f, utc) ==
  IF v = Unreadable \/ v.zone \notin {NoZone, Zulu} THEN v
  ELSE IF v.zone = Zulu THEN (IF f.zone = NoZone THEN v ELSE [v EXCEPT !.zone = Junk])
  ELSE IF f.zone # NoZone THEN [v EXCEPT !.zone = f.zone]
  ELSE IF utc /\ v.date # NoDate /\ v.time # NoTime THEN [v EXCEPT !.zone = 0] ELSE v

(* decode_binary_calendar of packed digits: leading zeros of packed ones   *)
(* are lost and filled again; only a strict check looks at the ranges.     *)
Checked(v, f) ==
  LET inRange == /\ f.kind # "time" => v.date # NoDate /\ TrueDate(v.date)
                 /\ f.kind = "dateTime" => v.time # NoTime
                 /\ v.time # NoTime => TrueTime(v.time) IN
  IF v = Unreadable \/ (f.policy = "strict" /\ ~f.lax /\ ~inRange) THEN Unreadable
  ELSE InZone(v, f, f.rep = "packed" /\ f.kind = "dateTime")
FromDigits(digits, f) ==
  LET need == FoldLeft(LAMBDA n, item : n + item.w, 0, f.pattern) IN
  Checked(DigitMoment(Times(0, need - Len(digits)) \o digits, f), f)
Significant(digits) ==
  LET cut == SubSeq(digits, Past(digits, 1, {0}), Len(digits)) IN IF cut = <<>> THEN <<0>> ELSE cut
FromPackedDigits(read, f) ==
  IF ~read.ok \/ read.neg THEN Unreadable
  ELSE FromDigits(IF f.rep = "packed" THEN Significant(read.digits) ELSE read.digits, f)
FromPacked(b, f) ==
  FromPackedDigits(CASE f.rep = "bcd" -> BcdDigits(b, f.le)
                     [] f.rep = "ibm" -> IbmDigits(b, f.le)
                     [] OTHER -> PackedDigits(b, f.le, SignCodes(f.codes, f.policy)), f)

ReadCalendar(wire, f) ==
  LET digits == wire # <<>> /\ \A i \in DOMAIN wire : wire[i] \in Digits IN
  [took |-> Len(wire),
   value |-> CASE f.rep \in {"seconds", "millis"} -> FromTicks(wire, f)
               [] f.rep \in {"bcd", "packed", "ibm"} -> FromPacked(wire, f)
               [] f.rep = "text" /\ f.pattern = <<>> /\ ~f.implicit -> ImplicitMoment(wire, f)
               [] OTHER -> InZone(CASE f.implicit -> ImplicitMoment(wire, f)
                                    [] ~f.implicit /\ digits -> DigitMoment(wire, f)
                                    [] OTHER -> PatternMoment(wire, f),
                                  f, ~f.implicit /\ f.kind = "dateTime")]
=============================================================================
