--------------------------- MODULE Calendars_proofs ---------------------------
(***************************************************************************)
(* What the calendar algorithms of Calendars compute, for every year:      *)
(* DayNumber of Values counts the days from 1 January of the year 1 by the *)
(* Gregorian rule, and each algorithm of vm/calendar_binary.rs and         *)
(* runtime/calendar_text.rs is shown to give the day that count asks for.  *)
(*                                                                         *)
(* Then what is read of a field: a pattern walked over a text gives        *)
(* numbers, a count of ticks is one, and so every date that a field reads  *)
(* as a week or as a count of ticks is the one that count asks for.        *)
(*                                                                         *)
(* The proofs turn divisions rounded down into inequalities over integers, *)
(* recursive functions and folds into an induction up to a number.         *)
(***************************************************************************)
EXTENDS Values, SequenceTheorems, WellFoundedInduction, FiniteSetTheorems, TLAPS

(* The days of the years up to y, and of a year that begins in March up to *)
(* month m, as days_from_civil counts them.                                *)
DaysBefore(y) == 365 * y + y \div 4 - y \div 100 + y \div 400
MonthStart(m) == (153 * (IF m > 2 THEN m - 3 ELSE m + 9) + 2) \div 5

(* The twelve months of a year that begins in March (the 153 of            *)
(* days_from_civil).                                                       *)
LEMMA MonthStarts ==
  /\ MonthStart(3) = 0 /\ MonthStart(4) = 31 /\ MonthStart(5) = 61 /\ MonthStart(6) = 92 /\ MonthStart(7) = 122
  /\ MonthStart(8) = 153 /\ MonthStart(9) = 184 /\ MonthStart(10) = 214 /\ MonthStart(11) = 245
  /\ MonthStart(12) = 275 /\ MonthStart(1) = 306 /\ MonthStart(2) = 337
  BY DEF MonthStart

(* The days before each month of a year that is no leap year.              *)
LEMMA Befores ==
  /\ Before(1) = 0 /\ Before(2) = 31 /\ Before(3) = 59 /\ Before(4) = 90 /\ Before(5) = 120 /\ Before(6) = 151
  /\ Before(7) = 181 /\ Before(8) = 212 /\ Before(9) = 243 /\ Before(10) = 273 /\ Before(11) = 304 /\ Before(12) = 334
  BY DEF Before

(* The months counted from March and those counted from January differ by  *)
(* the same days, 29 February apart.                                       *)
LEMMA MonthBefore ==
  ASSUME NEW m \in 1..12
  PROVE MonthStart(m) = Before(m) + (IF m <= 2 THEN 306 ELSE -59) /\ MonthStart(m) \in Int /\ Before(m) \in Int
<1>1. m \in {1,2,3,4,5,6,7,8,9,10,11,12} OBVIOUS
<1>2. Before(m) \in Int BY <1>1, Befores
<1> QED BY <1>1, <1>2, MonthStarts, Befores

(* The days before a year, counted by eras of 400 years as days_from_civil *)
(* does.                                                                   *)
EraDays(s) == (s \div 400) * 146097 + (s % 400) * 365 + (s % 400) \div 4 - (s % 400) \div 100

(* Counting by eras is counting by years.                                  *)
LEMMA ErasCounted ==
  ASSUME NEW s \in Int
  PROVE  EraDays(s) = DaysBefore(s) /\ DaysBefore(s) \in Int
<1>1. s \div 4 = 100 * (s \div 400) + (s % 400) \div 4
  OBVIOUS
<1>2. s \div 100 = 4 * (s \div 400) + (s % 400) \div 100
  OBVIOUS
<1>3. s = 400 * (s \div 400) + (s % 400) /\ s \div 400 \in Int /\ s % 400 \in 0..399
  OBVIOUS
<1> QED BY <1>1, <1>2, <1>3 DEF DaysBefore, EraDays

(* A year has 365 days, a leap year one more.                              *)
LEMMA LeapDay ==
  ASSUME NEW y \in Int
  PROVE DaysBefore(y) = DaysBefore(y - 1) + 365 + (IF LeapYear(y) THEN 1 ELSE 0)
<1>1. y \div 4 = (y - 1) \div 4 + (IF y % 4 = 0 THEN 1 ELSE 0) OBVIOUS
<1>2. y \div 100 = (y - 1) \div 100 + (IF y % 100 = 0 THEN 1 ELSE 0) OBVIOUS
<1>3. y \div 400 = (y - 1) \div 400 + (IF y % 400 = 0 THEN 1 ELSE 0) OBVIOUS
<1>4. (y % 100 = 0 => y % 4 = 0) /\ (y % 400 = 0 => y % 100 = 0) OBVIOUS
<1> QED BY <1>1, <1>2, <1>3, <1>4 DEF DaysBefore, LeapYear

(* days_from_civil counts the days of the Gregorian calendar: of every     *)
(* year, also before the year 1, and for a day that is none of its month.  *)
THEOREM DaysCounted ==
  ASSUME NEW y \in Int, NEW m \in 1..12, NEW d \in Int
  PROVE DaysOf(y, m, d) = DayNumber(<<y, m, d>>) - 719163 /\ DaysOf(y, m, d) \in Int
<1>1. /\ MonthStart(m) = Before(m) + (IF m <= 2 THEN 306 ELSE -59)
      /\ MonthStart(m) \in Int /\ Before(m) \in Int
  BY MonthBefore
<1>2. DayNumber(<<y, m, d>>) = DaysBefore(y - 1) + Before(m) + d + (IF m > 2 /\ LeapYear(y) THEN 1 ELSE 0)
  BY DEF DayNumber, DaysBefore
<1>3. /\ EraDays(y - 1) = DaysBefore(y - 1) /\ DaysBefore(y - 1) \in Int
      /\ EraDays(y) = DaysBefore(y) /\ DaysBefore(y) \in Int
  BY ErasCounted
<1>4. CASE m <= 2
  <2>1. DaysOf(y, m, d) = EraDays(y - 1) + (MonthStart(m) + d - 1) - 719468
    BY <1>4 DEF DaysOf, MonthStart, EraDays
  <2> QED BY <1>1, <1>2, <1>3, <1>4, <2>1
<1>5. CASE m > 2
  <2>1. DaysOf(y, m, d) = EraDays(y) + (MonthStart(m) + d - 1) - 719468
    BY <1>5 DEF DaysOf, MonthStart, EraDays
  <2> QED BY <1>1, <1>2, <1>3, <1>5, <2>1, LeapDay
<1> QED BY <1>4, <1>5

(* The days before year q of an era.                                       *)
YearStart(q) == 365 * q + q \div 4 - q \div 100

(* What a division rounded down is.                                        *)
LEMMA Quotient ==
  ASSUME NEW n \in Int, NEW k \in Nat, k > 0
  PROVE  n \div k \in Int /\ k * (n \div k) <= n /\ n < k * (n \div k) + k
OBVIOUS

(* Day n of an era is of century c, of cycle a of four years and of year   *)
(* y, as the divisions of civil_from_days find them.                       *)
Cycles(n, c, a, y) ==
  /\ 0 <= c /\ c <= 3 /\ 36524 * c <= n /\ n < 36524 * c + 36524
  /\ 1460 * a <= n /\ n < 1460 * a + 1460
  /\ 365 * y <= n - a + c /\ n - a + c < 365 * y + 365

(* Day n of an era is one of year y of it.                                 *)
YearHas(n, y) ==
  n - YearStart(y) \in Nat /\ n - YearStart(y) <= IF LeapYear(y + 1) THEN 365 ELSE 364

(* The year so found is one of the century, and the day is one of it.      *)
LEMMA InCentury ==
  ASSUME NEW n \in Int, NEW c \in Int, NEW a \in Int, NEW y \in Int, Cycles(n, c, a, y)
  PROVE  100 * c <= y /\ y <= 100 * c + 99 /\ YearHas(n, y)
<1> USE DEF Cycles
<1>1. PICK q \in Int : q = y \div 4
  OBVIOUS
<1>2. 4 * q <= y /\ y <= 4 * q + 3
  BY <1>1
<1>3. 100 * c <= y /\ y <= 100 * c + 99
  BY SMTT(60)
<1>4. 365 * y + q - c <= n
  BY <1>2, SMTT(60)
<1>5. n <= 365 * y + q - c + (IF y = 4 * q + 3 /\ y # 100 * c + 99 THEN 365 ELSE 364)
  BY <1>2, SMTT(60)
<1>6. y \div 100 = c
  BY <1>3
<1>7. YearStart(y) = 365 * y + q - c
  BY <1>1, <1>6 DEF YearStart
<1>8. ASSUME y = 4 * q + 3, y # 100 * c + 99 PROVE LeapYear(y + 1)
  <2>1. (y + 1) % 4 = 0
    BY <1>8
  <2>2. (y + 1) % 100 = y + 1 - 100 * c
    BY <1>3, <1>8
  <2> QED BY <1>8, <2>1, <2>2 DEF LeapYear
<1> QED BY <1>2, <1>3, <1>4, <1>5, <1>7, <1>8 DEF YearHas

(* YearOfEra finds the year of a day of an era: the three corrections of   *)
(* its numerator are those of the leap years.                              *)
LEMMA EraYears ==
  ASSUME NEW n \in Int, 0 <= n, n <= 146096
  PROVE  YearOfEra(n) \in 0..399 /\ YearHas(n, YearOfEra(n))
<1>1. CASE n = 146096
  <2>1. YearOfEra(n) = 399
    BY <1>1 DEF YearOfEra
  <2>2. YearStart(399) = 145731
    BY DEF YearStart
  <2>3. LeapYear(399 + 1)
    BY DEF LeapYear
  <2> QED BY <1>1, <2>1, <2>2, <2>3 DEF YearHas
<1>2. CASE n # 146096
  <2>1. PICK a \in Int : a = n \div 1460
    OBVIOUS
  <2>2. PICK c \in Int : c = n \div 36524
    OBVIOUS
  <2>3. PICK e \in Int : e = n \div 146096
    OBVIOUS
  <2>4. PICK y \in Int : y = YearOfEra(n)
    BY DEF YearOfEra
  <2>5. 1460 * a <= n /\ n < 1460 * a + 1460
    BY <2>1
  <2>6. 36524 * c <= n /\ n < 36524 * c + 36524
    BY <2>2
  <2>7. 146096 * e <= n /\ n < 146096 * e + 146096
    BY <2>3
  <2>8. 0 <= c /\ c <= 3 /\ e = 0
    BY <1>2, <2>6, <2>7
  <2>9. y = (n - a + c) \div 365
    BY <2>1, <2>2, <2>3, <2>4, <2>8 DEF YearOfEra
  <2>10. 365 * y <= n - a + c /\ n - a + c < 365 * y + 365
    BY <2>9
  <2>11. Cycles(n, c, a, y)
    BY <2>5, <2>6, <2>8, <2>10 DEF Cycles
  <2>12. 100 * c <= y /\ y <= 100 * c + 99 /\ YearHas(n, y)
    BY <2>11, InCentury
  <2>13. y \in 0..399
    BY <2>8, <2>12
  <2> QED BY <2>4, <2>12, <2>13
<1> QED BY <1>1, <1>2

(* Both definitions of a leap year are the same.                           *)
LEMMA LeapYears == ASSUME NEW y \in Int PROVE IsLeap(y) <=> LeapYear(y)
<1>1. y % 400 = 0 => y % 4 = 0 /\ y % 100 = 0
  OBVIOUS
<1> QED BY <1>1 DEF IsLeap, LeapYear

(* The days of a month that February may have.                             *)
MonthLength(m) == IF m = 2 THEN 29 ELSE IF m \in {4, 6, 9, 11} THEN 30 ELSE 31

(* days_in_month, told by leap years.                                      *)
LEMMA MonthLengths ==
  ASSUME NEW y \in Int, NEW m \in 1..12
  PROVE  DaysInMonth(y, m) = MonthLength(m) - (IF m = 2 /\ ~LeapYear(y) THEN 1 ELSE 0) /\ DaysInMonth(y, m) \in 28..31
BY LeapYears DEF DaysInMonth, MonthLength

(* A month has 28 days at least and 31 at most.                            *)
LEMMA LengthsFit == \A m \in 1..12 : MonthLength(m) \in 28..31
BY DEF MonthLength

(* The month and the day of it are found from a day of a year that begins  *)
(* in March.                                                               *)
LEMMA MonthOfYear ==
  ASSUME NEW k \in Nat, k <= 365
  PROVE  LET p == (5 * k + 2) \div 153
             m == MonthOf(k) IN
         /\ m \in 1..12 /\ p \in 0..11 /\ MonthStart(m) = (153 * p + 2) \div 5
         /\ MonthStart(m) <= k /\ k < MonthStart(m) + MonthLength(m)
<1>1. PICK p \in Int : p = (5 * k + 2) \div 153
  OBVIOUS
<1>2. 153 * p <= 5 * k + 2 /\ 5 * k + 2 < 153 * p + 153
  BY <1>1
<1>3. p \in {0, 1, 2, 3, 4, 5, 6, 7, 8, 9, 10, 11}
  BY <1>2
<1>4. MonthOf(k) = IF p < 10 THEN p + 3 ELSE p - 9
  BY <1>1 DEF MonthOf
<1>5. CASE p \in {0, 1, 2, 3}
  BY <1>1, <1>2, <1>4, <1>5, MonthStarts DEF MonthLength
<1>6. CASE p \in {4, 5, 6, 7}
  BY <1>1, <1>2, <1>4, <1>6, MonthStarts DEF MonthLength
<1>7. CASE p \in {8, 9, 10, 11}
  BY <1>1, <1>2, <1>4, <1>7, MonthStarts DEF MonthLength
<1> QED BY <1>3, <1>5, <1>6, <1>7

(* civil_from_days gives a date of the calendar for every day, the one     *)
(* days_from_civil gives that day for: the date of a tick count is never   *)
(* one the calendar does not have.                                         *)
THEOREM CivilIsTrue ==
  ASSUME NEW z \in Int
  PROVE  LET c == CivilOf(z) IN
         c = <<c[1], c[2], c[3]>> /\ c[1] \in Int /\ TrueDate(c) /\ DaysOf(c[1], c[2], c[3]) = z
<1>1. PICK n \in Int : n = (z + 719468) % 146097
  OBVIOUS
<1>2. PICK era \in Int : era = (z + 719468) \div 146097
  OBVIOUS
<1>3. z + 719468 = 146097 * era + n /\ 0 <= n /\ n <= 146096
  BY <1>1, <1>2
<1>4. PICK q \in Int : q = YearOfEra(n)
  BY <1>1 DEF YearOfEra
<1>5. q \in 0..399 /\ YearHas(n, q)
  BY <1>3, <1>4, EraYears
<1>6. PICK k \in Nat : k = n - YearStart(q)
  BY <1>5 DEF YearHas
<1>7. k <= IF LeapYear(q + 1) THEN 365 ELSE 364
  BY <1>5, <1>6 DEF YearHas
<1>8. PICK m : m = MonthOf(k)
  OBVIOUS
<1>9. /\ m \in 1..12 /\ MonthStart(m) = (153 * ((5 * k + 2) \div 153) + 2) \div 5
      /\ MonthStart(m) <= k /\ k < MonthStart(m) + MonthLength(m)
  BY <1>7, <1>8, MonthOfYear
<1> DEFINE y == q + era * 400 + (IF m <= 2 THEN 1 ELSE 0)
           d == k - MonthStart(m) + 1
<1>10. CivilOf(z) = <<y, m, d>>
  <2>1. CivilOf(z) = LET r == n - YearStart(YearOfEra(n)) IN
          <<YearOfEra(n) + era * 400 + (IF MonthOf(r) <= 2 THEN 1 ELSE 0), MonthOf(r),
            r - (153 * ((5 * r + 2) \div 153) + 2) \div 5 + 1>>
    BY <1>1, <1>2 DEF CivilOf, YearStart
  <2> QED BY <1>4, <1>6, <1>8, <1>9, <2>1
<1>11. y \in Int /\ MonthStart(m) \in Int /\ d \in Int /\ d >= 1
  BY <1>9, MonthBefore
<1>12. m = 2 /\ k = 365 => LeapYear(y)
  <2> SUFFICES ASSUME m = 2, k = 365 PROVE LeapYear(y)
    OBVIOUS
  <2>1. LeapYear(q + 1)
    BY <1>7
  <2>2. y = (q + 1) + 400 * era /\ q + 1 \in Int
    OBVIOUS
  <2>3. y % 4 = (q + 1) % 4 /\ y % 100 = (q + 1) % 100 /\ y % 400 = (q + 1) % 400
    BY <2>2
  <2> QED BY <2>1, <2>3 DEF LeapYear
<1>13. d <= DaysInMonth(y, m)
  <2>1. MonthStart(2) = 337
    BY MonthStarts
  <2>2. d <= MonthLength(m) /\ (m = 2 => d = k - 336)
    BY <1>9, <1>11, <2>1, LengthsFit
  <2> HIDE DEF y, d
  <2>3. CASE m = 2 /\ ~LeapYear(y)
    BY <1>7, <1>9, <1>11, <1>12, <2>2, <2>3, MonthLengths DEF MonthLength
  <2>4. CASE ~(m = 2 /\ ~LeapYear(y))
    BY <1>9, <1>11, <2>2, <2>4, MonthLengths, LengthsFit
  <2> QED BY <2>3, <2>4
<1>14. DaysOf(y, m, d) = z
  <2>1. PICK s \in Int : s = q + era * 400
    OBVIOUS
  <2>2. s = IF m <= 2 THEN y - 1 ELSE y
    BY <1>9, <2>1
  <2>3. s \div 400 = era /\ s % 400 = q
    BY <1>5, <2>1
  <2>4. DaysOf(y, m, d) = era * 146097 + q * 365 + q \div 4 - q \div 100 + (MonthStart(m) + d - 1) - 719468
    BY <2>2, <2>3 DEF DaysOf, MonthStart
  <2>5. DaysOf(y, m, d) = era * 146097 + YearStart(q) + k - 719468
    BY <1>5, <1>11, <2>4 DEF YearStart
  <2>6. n = YearStart(q) + k
    BY <1>5, <1>6 DEF YearHas, YearStart
  <2>7. YearStart(q) \in Int
    BY DEF YearStart
  <2> HIDE DEF y, d
  <2> QED BY <1>3, <2>5, <2>6, <2>7
<1> HIDE DEF y, d
<1>15. TrueDate(<<y, m, d>>)
  BY <1>9, <1>11, <1>13, MonthLengths DEF TrueDate
<1> QED BY <1>10, <1>11, <1>14, <1>15

(* The days of a year and those before a month in Zeller's congruence      *)
(* (weekday_of_ymd), and the year it counts January in.                    *)
YearSum(s) == (s % 100) + (s % 100) \div 4 + (s \div 100) \div 4 + 5 * (s \div 100)
MonthSum(m) == (13 * ((IF m <= 2 THEN m + 12 ELSE m) + 1)) \div 5
YearOf(y, m) == IF m <= 2 THEN y - 1 ELSE y

(* The sum for the year is the days before it, whole weeks apart.          *)
LEMMA YearSums ==
  ASSUME NEW s \in Int
  PROVE  YearSum(s) \in Int /\ DaysBefore(s) \in Int /\ \E c \in Int : DaysBefore(s) = YearSum(s) + 7 * c
<1>1. PICK j \in Int, k \in Int : j = s \div 100 /\ k = s % 100
  OBVIOUS
<1>2. s = 100 * j + k /\ k \in 0..99
  BY <1>1
<1>3. PICK e \in Int, f \in Int : e = j \div 4 /\ f = k \div 4
  OBVIOUS
<1>4. 4 * e <= j /\ j <= 4 * e + 3 /\ 4 * f <= k /\ k <= 4 * f + 3
  BY <1>3
<1>5. s \div 4 = 25 * j + f
  BY <1>2, <1>4
<1>6. s \div 400 = e
  BY <1>2, <1>4
<1>7. DaysBefore(s) = 365 * (100 * j + k) + (25 * j + f) - j + e
  BY <1>1, <1>2, <1>5, <1>6 DEF DaysBefore
<1>8. YearSum(s) = k + f + e + 5 * j
  BY <1>1, <1>3 DEF YearSum
<1>9. DaysBefore(s) = YearSum(s) + 7 * (5217 * j + 52 * k)
  BY <1>7, <1>8
<1>10. 5217 * j + 52 * k \in Int
  BY <1>2
<1>11. YearSum(s) \in Int
  BY <1>1, <1>3, <1>8
<1>12. DaysBefore(s) \in Int
  BY ErasCounted
<1>13. PICK c \in Int : c = 5217 * j + 52 * k
  BY <1>10
<1>14. DaysBefore(s) = YearSum(s) + 7 * c
  BY <1>9, <1>13
<1> QED BY <1>11, <1>12, <1>14

(* The sum for the month is the days before it, whole weeks apart.         *)
LEMMA MonthSums ==
  ASSUME NEW m \in 1..12
  PROVE  MonthSum(m) \in Int /\ \E c \in Int : MonthStart(m) - 312 = MonthSum(m) + 7 * c
<1>1. m \in {1, 2, 3, 4, 5, 6, 7, 8, 9, 10, 11, 12}
  OBVIOUS
<1>2. /\ MonthSum(1) = 36 /\ MonthSum(2) = 39 /\ MonthSum(3) = 10 /\ MonthSum(4) = 13 /\ MonthSum(5) = 15 /\ MonthSum(6) = 18
      /\ MonthSum(7) = 20 /\ MonthSum(8) = 23 /\ MonthSum(9) = 26 /\ MonthSum(10) = 28 /\ MonthSum(11) = 31 /\ MonthSum(12) = 33
  BY DEF MonthSum
<1>3. (MonthStart(m) - 312 - MonthSum(m)) % 7 = 0 /\ MonthStart(m) - 312 - MonthSum(m) \in Int /\ MonthSum(m) \in Int
  BY <1>1, <1>2, MonthStarts
<1>4. PICK x \in Int : x = MonthStart(m) - 312 - MonthSum(m)
  BY <1>3
<1>5. x = 7 * (x \div 7) /\ x \div 7 \in Int
  BY <1>3, <1>4
<1>6. MonthStart(m) - 312 = MonthSum(m) + 7 * (x \div 7)
  BY <1>3, <1>4, <1>5, MonthBefore
<1> QED BY <1>3, <1>5, <1>6

(* The days of year y before month m.                                      *)
MonthBegins(y, m) == Before(m) + (IF m > 2 /\ LeapYear(y) THEN 1 ELSE 0)

(* The number of a day, by the days before its year and before its month.  *)
LEMMA DayOfYear ==
  ASSUME NEW y \in Int, NEW m \in 1..12, NEW d \in Int
  PROVE  /\ MonthBegins(y, m) \in Int /\ DaysBefore(y - 1) \in Int
         /\ DayNumber(<<y, m, d>>) = DaysBefore(y - 1) + MonthBegins(y, m) + d
<1>1. DayNumber(<<y, m, d>>) = DaysBefore(y - 1) + Before(m) + d + (IF m > 2 /\ LeapYear(y) THEN 1 ELSE 0)
  BY DEF DayNumber, DaysBefore
<1>2. Before(m) \in Int /\ DaysBefore(y - 1) \in Int
  BY MonthBefore, ErasCounted
<1> QED BY <1>1, <1>2 DEF MonthBegins

(* The number of a day, by the days before the year and the month that     *)
(* begin in March.                                                         *)
LEMMA DayNumberIs ==
  ASSUME NEW y \in Int, NEW m \in 1..12, NEW d \in Int
  PROVE  DayNumber(<<y, m, d>>) = DaysBefore(YearOf(y, m)) + MonthStart(m) + d - 306 /\ DayNumber(<<y, m, d>>) \in Int
<1>1. DayNumber(<<y, m, d>>) = DaysBefore(y - 1) + Before(m) + d + (IF m > 2 /\ LeapYear(y) THEN 1 ELSE 0)
  BY DEF DayNumber, DaysBefore
<1>2. DaysBefore(y - 1) \in Int /\ DaysBefore(y) \in Int
  BY ErasCounted
<1>3. /\ MonthStart(m) = Before(m) + (IF m <= 2 THEN 306 ELSE -59)
      /\ MonthStart(m) \in Int /\ Before(m) \in Int
  BY MonthBefore
<1> QED BY <1>1, <1>2, <1>3, LeapDay DEF YearOf

(* The weekday of a day, Monday 1: 1 January of the year 1 was one.         *)
WeekdayNumber(n) == ((n - 1) % 7) + 1

(* The days of a year in the congruence as the code counts them, with / and *)
(* % that cut towards zero.                                                *)
CutSum(s) == Rem(s, 100) + Quot(Rem(s, 100), 4) + Quot(Quot(s, 100), 4) + 5 * Quot(s, 100)

(* From the year 0 on nothing is cut another way; the year before it is a  *)
(* day too long, whole weeks apart.                                        *)
LEMMA CutSums ==
  ASSUME NEW s \in Int
  PROVE  (s >= 0 => CutSum(s) = YearSum(s)) /\ (s = -1 => CutSum(s) = YearSum(s) - 7 * 17 + 1)
<1>1. ASSUME s >= 0 PROVE CutSum(s) = YearSum(s)
  <2>1. PICK j \in Int, k \in Int : j = s \div 100 /\ k = s % 100
    OBVIOUS
  <2>2. s = 100 * j + k /\ 0 <= k /\ k <= 99 /\ j >= 0
    BY <1>1, <2>1
  <2>3. Quot(s, 100) = j /\ Rem(s, 100) = k
    BY <1>1, <2>1, <2>2 DEF Quot, Rem
  <2>4. Quot(k, 4) = k \div 4 /\ Quot(j, 4) = j \div 4
    BY <2>2 DEF Quot
  <2> QED BY <2>1, <2>3, <2>4 DEF CutSum, YearSum
<1>2. ASSUME s = -1 PROVE CutSum(s) = -1 /\ YearSum(s) = 117
  <2>1. Quot(s, 100) = 0 /\ Rem(s, 100) = -1
    BY <1>2 DEF Quot, Rem
  <2>2. Quot(-1, 4) = 0 /\ Quot(0, 4) = 0
    BY DEF Quot
  <2>3. PICK j \in Int, k \in Int : j = s \div 100 /\ k = s % 100
    OBVIOUS
  <2>4. s = 100 * j + k /\ 0 <= k /\ k <= 99
    BY <2>3
  <2>5. j = -1 /\ k = 99
    BY <1>2, <2>4
  <2>6. k \div 4 = 24 /\ j \div 4 = -1
    <3>1. PICK x \in Int, z \in Int : x = j \div 4 /\ z = j % 4
      OBVIOUS
    <3>2. j = 4 * x + z /\ 0 <= z /\ z <= 3
      BY <3>1
    <3>3. x = -1
      BY <2>5, <3>2
    <3>4. k \div 4 = 24
      BY <2>5
    <3> QED BY <3>1, <3>3, <3>4
  <2>7. CutSum(s) = -1
    BY <2>1, <2>2 DEF CutSum
  <2>8. YearSum(s) = k + k \div 4 + j \div 4 + 5 * j
    BY <2>3 DEF YearSum
  <2> QED BY <2>5, <2>6, <2>7, <2>8
<1> QED BY <1>1, <1>2

(* weekday_of_ymd is the weekday of the day counted from Monday, 1 January *)
(* of the year 1, from March of the year 0 on: Zeller's congruence and the *)
(* count of days agree.  January and February of the year 0, which it      *)
(* counts in the year before, are one weekday ahead.                       *)
THEOREM WeekdaysCounted ==
  ASSUME NEW y \in Int, NEW m \in 1..12, NEW d \in Int
  PROVE  /\ YearOf(y, m) >= 0 => WeekdayOf(y, m, d) = WeekdayNumber(DayNumber(<<y, m, d>>))
         /\ YearOf(y, m) = -1 => WeekdayOf(y, m, d) = WeekdayNumber(DayNumber(<<y, m, d>>) + 1)
<1> DEFINE s == YearOf(y, m)
<1>1. s \in Int
  BY DEF YearOf
<1>2. WeekdayOf(y, m, d) = ((((d + MonthSum(m) + CutSum(s)) % 7) + 5) % 7) + 1
  <2> DEFINE k == Rem(s, 100)
             j == Quot(s, 100)
             x == Quot(k, 4)
             z == Quot(j, 4)
  <2>1. WeekdayOf(y, m, d) = ((((d + MonthSum(m) + k + x + z + 5 * j) % 7) + 5) % 7) + 1
    BY DEF WeekdayOf, MonthSum, YearOf
  <2>2. MonthSum(m) \in Int /\ k \in Int /\ j \in Int /\ x \in Int /\ z \in Int
    BY <1>1, MonthSums DEF Rem, Quot
  <2>3. CutSum(s) = k + x + z + 5 * j
    BY DEF CutSum
  <2> HIDE DEF k, j, x, z, s
  <2>4. d + MonthSum(m) + k + x + z + 5 * j = d + MonthSum(m) + CutSum(s)
    BY <2>2, <2>3
  <2> QED BY <2>1, <2>4
<1> HIDE DEF s
<1>3. PICK a \in Int : DaysBefore(s) = YearSum(s) + 7 * a
  BY <1>1, YearSums
<1>4. PICK b \in Int : MonthStart(m) - 312 = MonthSum(m) + 7 * b
  BY MonthSums
<1>5. MonthSum(m) \in Int /\ YearSum(s) \in Int /\ MonthStart(m) \in Int /\ DaysBefore(s) \in Int
  BY <1>1, MonthSums, YearSums, MonthBefore
<1>6. DayNumber(<<y, m, d>>) = DaysBefore(s) + MonthStart(m) + d - 306
  BY DayNumberIs DEF s
<1>7. DayNumber(<<y, m, d>>) - 1 = d + MonthSum(m) + YearSum(s) + 5 + 7 * (a + b)
  BY <1>3, <1>4, <1>5, <1>6
<1>8. PICK n \in Int : n = DayNumber(<<y, m, d>>)
  BY <1>5, <1>6
<1>9. ASSUME NEW c \in Int, NEW e \in Int, CutSum(s) = YearSum(s) - 7 * c + e
      PROVE  WeekdayOf(y, m, d) = WeekdayNumber(n + e)
  <2>1. PICK h \in Int : h = d + MonthSum(m) + CutSum(s)
    BY <1>5, <1>9
  <2>2. (n + e) - 1 = h + 5 + 7 * (a + b + c)
    BY <1>5, <1>7, <1>8, <1>9, <2>1
  <2>3. PICK w \in Int : w = a + b + c
    OBVIOUS
  <2>4. ((h % 7) + 5) % 7 = (h + 5 + 7 * w) % 7
    OBVIOUS
  <2> QED BY <1>2, <2>1, <2>2, <2>3, <2>4 DEF WeekdayNumber
<1>10. ASSUME s >= 0 PROVE WeekdayOf(y, m, d) = WeekdayNumber(n)
  <2>1. CutSum(s) = YearSum(s) - 7 * 0 + 0
    BY <1>1, <1>5, <1>10, CutSums
  <2>2. 0 \in Int /\ n + 0 = n
    OBVIOUS
  <2>3. WeekdayOf(y, m, d) = WeekdayNumber(n + 0)
    BY <1>9, <2>1, <2>2
  <2> QED BY <2>2, <2>3
<1>11. ASSUME s = -1 PROVE WeekdayOf(y, m, d) = WeekdayNumber(n + 1)
  <2>1. CutSum(s) = YearSum(s) - 7 * 17 + 1
    BY <1>1, <1>11, CutSums
  <2>2. 17 \in Int /\ 1 \in Int
    OBVIOUS
  <2> QED BY <1>9, <2>1, <2>2
<1> QED BY <1>8, <1>10, <1>11 DEF s

(* A later year begins later.                                              *)
LEMMA YearsGrow ==
  ASSUME NEW x \in Int, NEW y \in Int, x <= y
  PROVE  DaysBefore(x) <= DaysBefore(y)
BY DEF DaysBefore

(* A month ends before a later one of its year begins.                     *)
LEMMA MonthsGrow ==
  ASSUME NEW y \in Int, NEW m \in 1..12, NEW n \in 1..12, m < n
  PROVE  MonthBegins(y, m) + DaysInMonth(y, m) <= MonthBegins(y, n)
<1>1. m \in {1, 2, 3, 4, 5, 6, 7, 8, 9, 10, 11} /\ n \in {2, 3, 4, 5, 6, 7, 8, 9, 10, 11, 12}
  OBVIOUS
<1> QED BY <1>1, Befores, MonthLengths DEF MonthBegins, MonthLength

(* A date of the calendar is one of the days of its year.                  *)
LEMMA YearHolds ==
  ASSUME NEW y \in Int, NEW m \in 1..12, NEW d \in Int, TrueDate(<<y, m, d>>)
  PROVE  DaysBefore(y - 1) < DayNumber(<<y, m, d>>) /\ DayNumber(<<y, m, d>>) <= DaysBefore(y)
<1>1. DayNumber(<<y, m, d>>) = DaysBefore(y - 1) + MonthBegins(y, m) + d
  BY DayOfYear
<1>2. MonthBegins(y, m) \in Nat /\ MonthBegins(y, m) + DaysInMonth(y, m) <= 365 + (IF LeapYear(y) THEN 1 ELSE 0)
  <2>1. m \in {1, 2, 3, 4, 5, 6, 7, 8, 9, 10, 11, 12}
    OBVIOUS
  <2> QED BY <2>1, Befores, MonthLengths DEF MonthBegins, MonthLength
<1>3. DaysBefore(y) = DaysBefore(y - 1) + 365 + (IF LeapYear(y) THEN 1 ELSE 0)
  BY LeapDay
<1>4. DaysBefore(y - 1) \in Int /\ DaysInMonth(y, m) \in Int /\ 1 <= d /\ d <= DaysInMonth(y, m)
  BY ErasCounted, MonthLengths DEF TrueDate
<1> QED BY <1>1, <1>2, <1>3, <1>4

(* Two dates of the calendar that are the same day are the same.           *)
LEMMA SameDay ==
  ASSUME NEW y \in Int, NEW m \in 1..12, NEW d \in Int, TrueDate(<<y, m, d>>),
         NEW x \in Int, NEW n \in 1..12, NEW e \in Int, TrueDate(<<x, n, e>>),
         DayNumber(<<y, m, d>>) = DayNumber(<<x, n, e>>)
  PROVE  y = x /\ m = n /\ d = e
<1>1. /\ DaysBefore(y - 1) \in Int /\ DaysBefore(y) \in Int /\ DaysBefore(x - 1) \in Int /\ DaysBefore(x) \in Int
      /\ DayNumber(<<y, m, d>>) \in Int
  BY ErasCounted, DayNumberIs
<1>2. ~(y < x)
  <2> SUFFICES ASSUME y <= x - 1 PROVE FALSE
    OBVIOUS
  <2>1. DaysBefore(y) <= DaysBefore(x - 1)
    BY YearsGrow
  <2> QED BY <1>1, <2>1, YearHolds
<1>3. ~(x < y)
  <2> SUFFICES ASSUME x <= y - 1 PROVE FALSE
    OBVIOUS
  <2>1. DaysBefore(x) <= DaysBefore(y - 1)
    BY YearsGrow
  <2> QED BY <1>1, <2>1, YearHolds
<1>4. y = x
  BY <1>2, <1>3
<1>5. /\ MonthBegins(y, m) \in Int /\ MonthBegins(y, n) \in Int
      /\ DayNumber(<<y, m, d>>) = DaysBefore(y - 1) + MonthBegins(y, m) + d
      /\ DayNumber(<<y, n, e>>) = DaysBefore(y - 1) + MonthBegins(y, n) + e
  <2>1. /\ MonthBegins(y, m) \in Int
        /\ DayNumber(<<y, m, d>>) = DaysBefore(y - 1) + MonthBegins(y, m) + d
    BY DayOfYear
  <2>2. /\ MonthBegins(y, n) \in Int
        /\ DayNumber(<<y, n, e>>) = DaysBefore(y - 1) + MonthBegins(y, n) + e
    BY DayOfYear
  <2> QED BY <2>1, <2>2
<1>6. MonthBegins(y, m) + d = MonthBegins(y, n) + e
  <2>1. DayNumber(<<y, m, d>>) = DayNumber(<<y, n, e>>)
    BY <1>4
  <2> QED BY <1>1, <1>5, <2>1
<1>7. /\ DaysInMonth(y, m) \in Int /\ DaysInMonth(y, n) \in Int
      /\ 1 <= d /\ d <= DaysInMonth(y, m) /\ 1 <= e /\ e <= DaysInMonth(y, n)
  BY <1>4, MonthLengths DEF TrueDate
<1>8. ~(m < n)
  <2> SUFFICES ASSUME m < n PROVE FALSE
    OBVIOUS
  <2>1. MonthBegins(y, m) + DaysInMonth(y, m) <= MonthBegins(y, n)
    BY MonthsGrow
  <2> QED BY <1>5, <1>6, <1>7, <2>1
<1>9. ~(n < m)
  <2> SUFFICES ASSUME n < m PROVE FALSE
    OBVIOUS
  <2>1. MonthBegins(y, n) + DaysInMonth(y, n) <= MonthBegins(y, m)
    BY MonthsGrow
  <2> QED BY <1>5, <1>6, <1>7, <2>1
<1>10. m = n
  BY <1>8, <1>9
<1> QED BY <1>4, <1>5, <1>6, <1>10

(* The month after and the month before.                                   *)
After(y, m) == IF m = 12 THEN <<y + 1, 1>> ELSE <<y, m + 1>>
Prior(y, m) == IF m = 1 THEN <<y - 1, 12>> ELSE <<y, m - 1>>

(* A day behind the last one of a month is one of the month after.         *)
LEMMA MonthsMeet ==
  ASSUME NEW y \in Int, NEW m \in 1..12, NEW e \in Int
  PROVE  /\ DaysInMonth(y, m) \in 28..31
         /\ DayNumber(<<y, m, DaysInMonth(y, m) + e>>) = DayNumber(<<After(y, m)[1], After(y, m)[2], e>>)
<1>1. DaysInMonth(y, m) \in 28..31
  BY MonthLengths
<1>2. CASE m = 12
  <2>1. DaysInMonth(y, 12) = 31 /\ MonthBegins(y, 12) = 334 + (IF LeapYear(y) THEN 1 ELSE 0) /\ MonthBegins(y + 1, 1) = 0
    BY Befores DEF DaysInMonth, MonthBegins
  <2>2. DayNumber(<<y, 12, 31 + e>>) = DaysBefore(y - 1) + MonthBegins(y, 12) + (31 + e) /\ DaysBefore(y - 1) \in Int
    BY DayOfYear
  <2>3. DayNumber(<<y + 1, 1, e>>) = DaysBefore((y + 1) - 1) + MonthBegins(y + 1, 1) + e
    BY DayOfYear
  <2>4. (y + 1) - 1 = y /\ DaysBefore(y) = DaysBefore(y - 1) + 365 + (IF LeapYear(y) THEN 1 ELSE 0)
    BY LeapDay
  <2> QED BY <1>1, <1>2, <2>1, <2>2, <2>3, <2>4 DEF After
<1>3. CASE m # 12
  <2>1. m \in {1, 2, 3, 4, 5, 6, 7, 8, 9, 10, 11} /\ m + 1 \in 1..12
    BY <1>3
  <2>2. MonthBegins(y, m) + DaysInMonth(y, m) = MonthBegins(y, m + 1)
    BY <2>1, Befores, MonthLengths DEF MonthBegins, MonthLength
  <2> DEFINE l == DaysInMonth(y, m)
  <2>3. l \in Int
    BY <1>1
  <2>4. After(y, m) = <<y, m + 1>>
    BY <1>3 DEF After
  <2> HIDE DEF l
  <2>5. /\ MonthBegins(y, m) \in Int /\ DaysBefore(y - 1) \in Int
        /\ DayNumber(<<y, m, l + e>>) = DaysBefore(y - 1) + MonthBegins(y, m) + (l + e)
    BY <2>3, DayOfYear
  <2>6. /\ MonthBegins(y, m + 1) \in Int
        /\ DayNumber(<<y, m + 1, e>>) = DaysBefore(y - 1) + MonthBegins(y, m + 1) + e
    BY <2>1, DayOfYear
  <2>7. MonthBegins(y, m) + l = MonthBegins(y, m + 1)
    BY <2>2 DEF l
  <2>8. DayNumber(<<y, m, l + e>>) = DayNumber(<<y, m + 1, e>>)
    BY <2>3, <2>5, <2>6, <2>7
  <2> QED BY <1>1, <2>4, <2>8 DEF l
<1> QED BY <1>1, <1>2, <1>3

(* The month before is a month, the one this month is after.               *)
LEMMA PriorBefore ==
  ASSUME NEW y \in Int, NEW m \in 1..12
  PROVE  /\ Prior(y, m) = <<Prior(y, m)[1], Prior(y, m)[2]>> /\ Prior(y, m)[1] \in Int /\ Prior(y, m)[2] \in 1..12
         /\ After(y, m)[1] \in Int /\ After(y, m)[2] \in 1..12
         /\ After(Prior(y, m)[1], Prior(y, m)[2]) = <<y, m>>
BY DEF Prior, After

(* The dates a roll goes through, and those k rolls make true. *)
Dates == Int \X (1..12) \X Int
Left(date, k) == date[3] \in (1 - 28 * k)..(28 * k + 28) \/ date[3] \in 1..DaysInMonth(date[1], date[2])

(* RollOnce, a turn of the loop of normalize_lenient_ymd, keeps the day    *)
(* and leaves a month less to go through.                                  *)
LEMMA RollKeeps ==
  ASSUME NEW date \in Dates
  PROVE  /\ RollOnce(date) \in Dates /\ DayNumber(RollOnce(date)) = DayNumber(date)
         /\ \A k \in Nat : Left(date, k + 1) => Left(RollOnce(date), k)
<1>1. PICK y \in Int, m \in 1..12, d \in Int : date = <<y, m, d>>
  BY DEF Dates
<1>2. DaysInMonth(y, m) \in 28..31
  BY MonthLengths
<1>3. CASE d \in 1..DaysInMonth(y, m)
  BY <1>1, <1>2, <1>3 DEF RollOnce, Left
<1>4. CASE d < 1
  <2> DEFINE p == Prior(y, m)
             l == DaysInMonth(p[1], p[2])
  <2>1. p[1] \in Int /\ p[2] \in 1..12 /\ After(p[1], p[2]) = <<y, m>>
    BY PriorBefore
  <2>2. l \in 28..31 /\ DayNumber(<<p[1], p[2], l + d>>) = DayNumber(<<y, m, d>>)
    <3> HIDE DEF p
    <3>1. \A x \in Int, n \in 1..12 :
            /\ DaysInMonth(x, n) \in 28..31
            /\ DayNumber(<<x, n, DaysInMonth(x, n) + d>>) = DayNumber(<<After(x, n)[1], After(x, n)[2], d>>)
      BY MonthsMeet
    <3>2. PICK x \in Int, n \in 1..12 : x = p[1] /\ n = p[2]
      BY <2>1
    <3>3. After(x, n) = <<y, m>>
      BY <2>1, <3>2
    <3>4. After(x, n)[1] = y /\ After(x, n)[2] = m
      BY <3>3
    <3>5. /\ DaysInMonth(x, n) \in 28..31
          /\ DayNumber(<<x, n, DaysInMonth(x, n) + d>>) = DayNumber(<<After(x, n)[1], After(x, n)[2], d>>)
      BY <3>1
    <3>6. DayNumber(<<x, n, DaysInMonth(x, n) + d>>) = DayNumber(<<y, m, d>>)
      BY <3>4, <3>5
    <3> QED BY <3>2, <3>5, <3>6
  <2>3. RollOnce(date) = <<p[1], p[2], d + l>>
    BY <1>1, <1>2, <1>4 DEF RollOnce, Prior
  <2> HIDE DEF p
  <2>4. RollOnce(date) \in Dates
    BY <2>1, <2>2, <2>3 DEF Dates
  <2>5. DayNumber(RollOnce(date)) = DayNumber(date)
    <3>1. l + d = d + l
      BY <2>2
    <3> QED BY <1>1, <2>2, <2>3, <3>1
  <2>6. ASSUME NEW k \in Nat, Left(date, k + 1) PROVE Left(RollOnce(date), k)
    <3> HIDE DEF l
    <3>1. d >= 1 - 28 * (k + 1)
      BY <1>1, <1>4, <2>6 DEF Left
    <3>2. d + l \in (1 - 28 * k)..(28 * k + 28) \/ d + l \in 1..l
      BY <1>4, <2>2, <3>1
    <3> QED BY <2>3, <3>2 DEF Left, l
  <2> QED BY <2>4, <2>5, <2>6
<1>5. CASE d > DaysInMonth(y, m)
  <2> DEFINE l == DaysInMonth(y, m)
             n == After(y, m)
  <2>1. n[1] \in Int /\ n[2] \in 1..12
    BY PriorBefore
  <2>2. RollOnce(date) = <<n[1], n[2], d - l>>
    BY <1>1, <1>2, <1>5 DEF RollOnce, After
  <2>3. d - l \in Int /\ l + (d - l) = d
    BY <1>2
  <2>4. DayNumber(<<y, m, l + (d - l)>>) = DayNumber(<<n[1], n[2], d - l>>)
    BY <2>3, MonthsMeet
  <2> HIDE DEF l, n
  <2>5. RollOnce(date) \in Dates
    BY <2>1, <2>2, <2>3 DEF Dates
  <2>6. DayNumber(RollOnce(date)) = DayNumber(date)
    BY <1>1, <2>2, <2>3, <2>4
  <2>7. ASSUME NEW k \in Nat, Left(date, k + 1) PROVE Left(RollOnce(date), k)
    <3>1. d <= 28 * (k + 1) + 28
      BY <1>1, <1>2, <1>5, <2>7 DEF Left
    <3>2. d - l \in (1 - 28 * k)..(28 * k + 28)
      BY <1>2, <1>5, <3>1 DEF l
    <3> QED BY <2>2, <3>2 DEF Left
  <2> QED BY <2>5, <2>6, <2>7
<1> QED BY <1>2, <1>3, <1>4, <1>5

(* A set of numbers that is not empty has a least one.                     *)
LEMMA Least ==
  ASSUME NEW T \in SUBSET Nat, T # {}
  PROVE  \E x \in T : \A y \in T : x <= y
<1>1. PICK x \in T : \A y \in T : ~(<<y, x>> \in OpToRel(<, Nat))
  BY NatLessThanWellFounded, WFMin
<1>2. ASSUME NEW y \in T PROVE x <= y
  <2>1. <<y, x>> \notin OpToRel(<, Nat)
    BY <1>1
  <2>2. <<y, x>> \in Nat \X Nat
    OBVIOUS
  <2>3. ~(y < x)
    BY <2>1, <2>2 DEF OpToRel
  <2> QED BY <2>3
<1> QED BY <1>2

(* Numbers that hold 0, and with each below a limit the next, hold all     *)
(* up to it.                                                               *)
LEMMA UpTo ==
  ASSUME NEW n \in Nat, NEW T, 0 \in T, \A k \in 0..(n - 1) : k \in T => k + 1 \in T
  PROVE  n \in T
<1> DEFINE rest == {k \in 0..n : k \notin T}
<1> SUFFICES ASSUME rest # {} PROVE FALSE
  OBVIOUS
<1>1. PICK x \in rest : \A k \in rest : x <= k
  <2>1. rest \in SUBSET Nat
    OBVIOUS
  <2> HIDE DEF rest
  <2> QED BY <2>1, Least
<1>2. x \in 0..n /\ x # 0 /\ x - 1 \in 0..(n - 1) /\ ~(x <= x - 1) /\ (x - 1) + 1 = x
  BY <1>1
<1> QED BY <1>1, <1>2

(* What is done n times to a value of a set.                               *)
Repeats(g, n, z, h) == g = [k \in 0..n |-> IF k = 0 THEN z ELSE h[g[k - 1]]]

(* Doing it again and again defines one value for each number of times.    *)
LEMMA Repeated ==
  ASSUME NEW S, NEW n \in Nat, NEW z \in S, NEW h \in [S -> S]
  PROVE  \E g \in [0..n -> S] : Repeats(g, n, z, h)
<1> DEFINE Defined(g, m) == g[0] = z /\ \A k \in 1..m : g[k] = h[g[k - 1]]
           T == {m \in 0..n : \E g \in [0..n -> S] : Defined(g, m)}
<1>1. 0 \in T
  <2> DEFINE g == [k \in 0..n |-> z]
  <2>1. g \in [0..n -> S] /\ Defined(g, 0) /\ 0 \in 0..n
    OBVIOUS
  <2> HIDE DEF g
  <2> QED BY <2>1
<1>2. ASSUME NEW m \in 0..(n - 1), m \in T PROVE m + 1 \in T
  <2>1. PICK g \in [0..n -> S] : Defined(g, m)
    BY <1>2
  <2> DEFINE f == [g EXCEPT ![m + 1] = h[g[m]]]
  <2>2. m \in 0..n /\ m + 1 \in 1..n /\ g[m] \in S /\ h[g[m]] \in S
    OBVIOUS
  <2>3. f \in [0..n -> S] /\ f[m + 1] = h[g[m]] /\ \A k \in 0..m : f[k] = g[k]
    BY <2>2
  <2> HIDE DEF f
  <2>4. ASSUME NEW k \in 1..(m + 1) PROVE f[k] = h[f[k - 1]]
    BY <2>1, <2>2, <2>3
  <2>5. Defined(f, m + 1)
    BY <2>1, <2>2, <2>3, <2>4
  <2> QED BY <2>2, <2>3, <2>5
<1>3. n \in T
  <2> HIDE DEF T
  <2> QED BY <1>1, <1>2, UpTo
<1>4. PICK g \in [0..n -> S] : Defined(g, n)
  BY <1>3
<1>5. g = [k \in 0..n |-> IF k = 0 THEN z ELSE h[g[k - 1]]]
  BY <1>4
<1> QED BY <1>5 DEF Repeats

(* What the loop of normalize_lenient_ymd ends with is a date of the       *)
(* calendar and the same day, when the months it goes through are enough.  *)
LEMMA RolledIs ==
  ASSUME NEW date \in Dates, Left(date, MaxRolls)
  PROVE  Rolled(date) \in Dates /\ TrueDate(Rolled(date)) /\ DayNumber(Rolled(date)) = DayNumber(date)
<1> DEFINE h == [x \in Dates |-> RollOnce(x)]
           after == CHOOSE g : g = [n \in 0..MaxRolls |-> IF n = 0 THEN date ELSE RollOnce(g[n - 1])]
<1>0. MaxRolls \in Nat
  BY CalendarAssumption
<1>1. h \in [Dates -> Dates]
  BY RollKeeps
<1>2. \E g \in [0..MaxRolls -> Dates] : g = [n \in 0..MaxRolls |-> IF n = 0 THEN date ELSE RollOnce(g[n - 1])]
  <2>1. PICK g \in [0..MaxRolls -> Dates] : Repeats(g, MaxRolls, date, h)
    <3> HIDE DEF h
    <3> QED BY <1>0, <1>1, Repeated
  <2>2. \A k \in 0..MaxRolls : k # 0 => h[g[k - 1]] = RollOnce(g[k - 1])
    BY <1>0
  <2> HIDE DEF h
  <2>3. g = [k \in 0..MaxRolls |-> IF k = 0 THEN date ELSE RollOnce(g[k - 1])]
    BY <2>1, <2>2 DEF Repeats
  <2> QED BY <2>3
<1>3. Rolled(date) = after[MaxRolls]
  BY DEF Rolled
<1>4. after = [n \in 0..MaxRolls |-> IF n = 0 THEN date ELSE RollOnce(after[n - 1])]
  BY <1>2
<1> HIDE DEF after
<1> DEFINE T == {k \in 0..MaxRolls : /\ after[k] \in Dates /\ DayNumber(after[k]) = DayNumber(date)
                                     /\ Left(after[k], MaxRolls - k)}
<1>5. 0 \in T
  BY <1>0, <1>4
<1>6. ASSUME NEW k \in 0..(MaxRolls - 1), k \in T PROVE k + 1 \in T
  <2>1. after[k + 1] = RollOnce(after[k])
    BY <1>0, <1>4
  <2>2. MaxRolls - (k + 1) \in Nat /\ (MaxRolls - (k + 1)) + 1 = MaxRolls - k /\ k + 1 \in 0..MaxRolls
    BY <1>0
  <2>3. after[k] \in Dates /\ DayNumber(after[k]) = DayNumber(date) /\ Left(after[k], (MaxRolls - (k + 1)) + 1)
    BY <1>6, <2>2
  <2> QED BY <2>1, <2>2, <2>3, RollKeeps
<1>7. MaxRolls \in T
  <2> HIDE DEF T
  <2> QED BY <1>0, <1>5, <1>6, UpTo
<1>8. PICK y \in Int, m \in 1..12, d \in Int : Rolled(date) = <<y, m, d>>
  BY <1>3, <1>7 DEF Dates
<1>9. Left(Rolled(date), 0)
  BY <1>0, <1>3, <1>7
<1>10. TrueDate(Rolled(date))
  BY <1>8, <1>9, MonthLengths DEF Left, TrueDate
<1> QED BY <1>3, <1>7, <1>10

(* A lax date is one of the calendar, and the day the numbers stand for:   *)
(* months beyond December are months of the years after, and days beyond   *)
(* the month are days of the months after, as long as the code looks.      *)
THEOREM LenientDateIsTrue ==
  ASSUME NEW y \in Int, NEW m \in Nat, NEW d \in (1 - 28 * MaxRolls)..(28 * (MaxRolls + 1))
  PROVE  LET months == 12 * y + m - 1 IN
         /\ TrueDate(LenientDate(y, m, d))
         /\ DayNumber(LenientDate(y, m, d)) = DayNumber(<<months \div 12, (months % 12) + 1, d>>)
<1> DEFINE x == (12 * y + m - 1) \div 12
           n == ((12 * y + m - 1) % 12) + 1
<1>0. MaxRolls \in Nat
  BY CalendarAssumption
<1>1. x \in Int /\ n \in 1..12 /\ d \in Int
  BY <1>0
<1>2. n = ((m - 1) % 12) + 1 /\ x = IF m < 1 THEN y + (m - 12) \div 12 ELSE y + (m - 1) \div 12
  OBVIOUS
<1>3. LenientDate(y, m, d) = Rolled(<<x, n, d>>)
  BY <1>2 DEF LenientDate
<1> HIDE DEF x, n
<1>4. <<x, n, d>> \in Dates /\ Left(<<x, n, d>>, MaxRolls)
  BY <1>0, <1>1 DEF Dates, Left
<1>5. TrueDate(LenientDate(y, m, d)) /\ DayNumber(LenientDate(y, m, d)) = DayNumber(<<x, n, d>>)
  BY <1>3, <1>4, RolledIs
<1> QED BY <1>5 DEF x, n

(* Days a week apart, from s on and not after e. *)
Weekly(S, s, e) == S = {x \in Int : x <= e /\ \E k \in Nat : x = s + 7 * k}

(* The nth of days a week apart.                                           *)
LEMMA NthOfWeekly ==
  ASSUME NEW S, NEW s \in Int, NEW e \in Int, Weekly(S, s, e), NEW n \in Int
  PROVE  Nth(S, n) = IF n >= 1 /\ s + 7 * (n - 1) <= e THEN {s + 7 * (n - 1)} ELSE {}
<1>1. ASSUME NEW k \in Nat, s + 7 * k <= e
      PROVE  Cardinality({z \in S : z <= s + 7 * k}) = k + 1
  <2> DEFINE upTo == {z \in S : z <= s + 7 * k}
             f == [j \in 0..k |-> s + 7 * j]
  <2>1. f \in Bijection(0..k, upTo)
    <3>1. \A j \in 0..k : f[j] \in upTo
      BY <1>1 DEF Weekly
    <3>2. \A i, j \in 0..k : f[i] = f[j] => i = j
      OBVIOUS
    <3>3. \A z \in upTo : \E j \in 0..k : f[j] = z
      <4> SUFFICES ASSUME NEW z \in upTo PROVE \E j \in 0..k : f[j] = z
        OBVIOUS
      <4>1. PICK j \in Nat : z = s + 7 * j
        BY DEF Weekly
      <4>2. j \in 0..k
        BY <4>1
      <4> QED BY <4>1, <4>2
    <3>4. f \in [0..k -> upTo]
      BY <3>1
    <3> HIDE DEF f, upTo
    <3> QED BY <3>2, <3>3, <3>4 DEF Bijection, Injection, Surjection, IsInjective
  <2>2. IsFiniteSet(0..k) /\ Cardinality(0..k) = k + 1
    BY FS_Interval
  <2> HIDE DEF f, upTo
  <2>3. Cardinality(upTo) = k + 1
    BY <2>1, <2>2, FS_Bijection DEF ExistsBijection
  <2> QED BY <2>3 DEF upTo
<1>2. ASSUME NEW x \in Nth(S, n) PROVE n >= 1 /\ x = s + 7 * (n - 1) /\ x <= e
  <2>1. x \in S /\ Cardinality({z \in S : z <= x}) = n
    BY DEF Nth
  <2>2. PICK k \in Nat : x = s + 7 * k /\ x <= e
    BY <2>1 DEF Weekly
  <2>3. n = k + 1
    BY <1>1, <2>1, <2>2
  <2> QED BY <2>2, <2>3
<1>3. ASSUME n >= 1, s + 7 * (n - 1) <= e PROVE s + 7 * (n - 1) \in Nth(S, n)
  <2>1. n - 1 \in Nat /\ (n - 1) + 1 = n
    BY <1>3
  <2>2. Cardinality({z \in S : z <= s + 7 * (n - 1)}) = n
    BY <1>1, <1>3, <2>1
  <2>3. s + 7 * (n - 1) \in S
    BY <1>3, <2>1 DEF Weekly
  <2> QED BY <2>2, <2>3 DEF Nth
<1> QED BY <1>2, <1>3

(* The day of the week that first day begins. *)
LEMMA WeekStartIs ==
  ASSUME NEW day \in Int, NEW first \in 1..7
  PROVE  LET s == WeekStart(day, first) IN
         /\ s \in Int /\ s <= day /\ day < s + 7
         /\ \A x \in Int : WeekdayNumber(x) = first <=> \E k \in Int : x = s + 7 * k
<1> DEFINE s == WeekStart(day, first)
<1>1. PICK q \in Int : q = (day - first) \div 7
  OBVIOUS
<1>2. 7 * q <= day - first /\ day - first < 7 * q + 7
  BY <1>1
<1>3. (day - Monday1 + 1 - first) % 7 = (day - first) - 7 * q
  BY <1>1 DEF Monday1
<1>4. s = first + 7 * q
  BY <1>3 DEF WeekStart
<1>5. ASSUME NEW x \in Int PROVE WeekdayNumber(x) = first <=> \E k \in Int : x = s + 7 * k
  <2>1. ASSUME WeekdayNumber(x) = first PROVE \E k \in Int : x = s + 7 * k
    <3>1. PICK p \in Int : p = (x - 1) \div 7
      OBVIOUS
    <3>2. x = first + 7 * p
      BY <2>1, <3>1 DEF WeekdayNumber
    <3>3. x = s + 7 * (p - q) /\ p - q \in Int
      BY <1>4, <3>2
    <3> HIDE DEF s
    <3> QED BY <3>3
  <2>2. ASSUME NEW k \in Int, x = s + 7 * k PROVE WeekdayNumber(x) = first
    <3>1. x - 1 = (first - 1) + 7 * (q + k)
      BY <1>4, <2>2
    <3> QED BY <3>1 DEF WeekdayNumber
  <2> QED BY <2>1, <2>2
<1> QED BY <1>2, <1>4, <1>5

(* Days are counted from 1970 by the code and from the year 1 here. *)
Shift == 719163

(* Both counts of days differ by those from the year 1 to 1970.            *)
LEMMA DaysShifted ==
  Shift \in Int /\ \A y \in Int, m \in 1..12, d \in Int : DaysOf(y, m, d) = DayNumber(<<y, m, d>>) - Shift
<1>1. ASSUME NEW y \in Int, NEW m \in 1..12, NEW d \in Int PROVE DaysOf(y, m, d) = DayNumber(<<y, m, d>>) - 719163
  BY DaysCounted, SMT
<1> QED BY <1>1, SMT DEF Shift

(* Of seven days from z on, at least so many are of lo to hi. *)
LEMMA DaysInside ==
  ASSUME NEW z \in Int, NEW lo \in Int, NEW hi \in Int, lo + 6 <= hi, NEW least \in 1..7
  PROVE  Cardinality({i \in 0..6 : z + i \in lo..hi}) >= least <=> lo + least - 7 <= z /\ z <= hi + 1 - least
<1> DEFINE from == IF lo > z THEN lo - z ELSE 0
           to == IF hi - z < 6 THEN hi - z ELSE 6
<1>1. PICK a \in Int : a = from
  <2>1. from \in Int
    OBVIOUS
  <2> HIDE DEF from
  <2> QED BY <2>1
<1>2. PICK b \in Int : b = to
  <2>1. to \in Int
    OBVIOUS
  <2> HIDE DEF to
  <2> QED BY <2>1
<1>3. {i \in 0..6 : z + i \in lo..hi} = a..b
  BY <1>1, <1>2
<1>4. Cardinality(a..b) = IF a > b THEN 0 ELSE b - a + 1
  BY FS_Interval
<1>5. PICK c \in Int : c = Cardinality(a..b) /\ (a > b => c = 0) /\ (a <= b => c = b - a + 1)
  BY <1>4
<1>6. c >= least <=> lo + least - 7 <= z /\ z <= hi + 1 - least
  BY <1>1, <1>2, <1>5
<1> QED BY <1>3, <1>5, <1>6

(* Days before March of the year 0 have a number below that of its first.  *)
LEMMA FromMarch ==
  ASSUME NEW y \in Int, NEW m \in 1..12, NEW d \in Int, TrueDate(<<y, m, d>>), DayNumber(<<y, m, d>>) >= -305
  PROVE  YearOf(y, m) >= 0
<1>1. PICK s \in Int : s = YearOf(y, m)
  BY DEF YearOf
<1>2. DaysBefore(-1) = -366
  <2>1. ASSUME NEW n \in Nat \ {0, 1} PROVE (-1) \div n = -1
    <3>1. PICK x \in Int, z \in Int : x = (-1) \div n /\ z = (-1) % n
      OBVIOUS
    <3>2. -1 = n * x + z /\ 0 <= z /\ z < n
      BY <3>1
    <3>3. ~(x >= 0)
      <4>1. x >= 0 => n * x >= 0
        OBVIOUS
      <4> QED BY <3>2, <4>1
    <3>4. ~(x <= -2)
      <4>1. x <= -2 => n * x <= n * (-2)
        OBVIOUS
      <4> QED BY <3>2, <4>1
    <3> QED BY <3>1, <3>3, <3>4
  <2>2. (-1) \div 4 = -1
    <3>1. 4 \in Nat \ {0, 1}
      OBVIOUS
    <3> QED BY <2>1, <3>1
  <2>3. (-1) \div 100 = -1
    <3>1. 100 \in Nat \ {0, 1}
      OBVIOUS
    <3> QED BY <2>1, <3>1
  <2>4. (-1) \div 400 = -1
    <3>1. 400 \in Nat \ {0, 1}
      OBVIOUS
    <3> QED BY <2>1, <3>1
  <2> QED BY <2>2, <2>3, <2>4 DEF DaysBefore
<1>3. s <= -1 => DaysBefore(s) <= -366
  BY <1>2, YearsGrow
<1>4. DayNumber(<<y, m, d>>) = DaysBefore(s) + MonthStart(m) + d - 306 /\ DaysBefore(s) \in Int
  BY <1>1, DayNumberIs, ErasCounted
<1>5. MonthStart(m) + MonthLength(m) <= 366 /\ MonthStart(m) \in Int /\ MonthLength(m) \in Int
  <2>1. m \in {1, 2, 3, 4, 5, 6, 7, 8, 9, 10, 11, 12}
    OBVIOUS
  <2> QED BY <2>1, MonthStarts DEF MonthLength
<1>6. d <= MonthLength(m)
  BY <1>5, MonthLengths DEF TrueDate
<1> QED BY <1>1, <1>3, <1>4, <1>5, <1>6

(* A day as a date, with its weekday from March of the year 0 on.          *)
LEMMA CivilNumbers ==
  ASSUME NEW z \in Int
  PROVE  /\ CivilOf(z)[1] \in Int /\ CivilOf(z) \in Dates /\ TrueDate(CivilOf(z)) /\ CivilOf(z) # NoDate
         /\ DayNumber(CivilOf(z)) = z + Shift
         /\ z + Shift >= -305 => WeekdayOfDay(z) = WeekdayNumber(z + Shift)
<1>1. PICK c : c = CivilOf(z)
  OBVIOUS
<1>2. c = <<c[1], c[2], c[3]>> /\ c[1] \in Int /\ TrueDate(c) /\ DaysOf(c[1], c[2], c[3]) = z
  BY <1>1, CivilIsTrue
<1>3. PICK y \in Int, m \in 1..12, d \in {c[3]} : c = <<y, m, d>>
  BY <1>2 DEF TrueDate
<1>4. d \in Int /\ TrueDate(<<y, m, d>>) /\ DaysOf(y, m, d) = z
  <2>1. d \in 1..DaysInMonth(y, m) /\ DaysInMonth(y, m) \in 28..31
    BY <1>2, <1>3, MonthLengths DEF TrueDate
  <2> QED BY <1>2, <1>3, <2>1
<1>5. DayNumber(<<y, m, d>>) = z + Shift
  <2>1. DaysOf(y, m, d) = DayNumber(<<y, m, d>>) - Shift /\ DayNumber(<<y, m, d>>) \in Int
    BY <1>4, DaysShifted, DayNumberIs
  <2> QED BY <1>4, <2>1, DaysShifted
<1>6. z + Shift >= -305 => WeekdayOf(y, m, d) = WeekdayNumber(z + Shift)
  BY <1>4, <1>5, FromMarch, WeekdaysCounted
<1>7. WeekdayOfDay(z) = WeekdayOf(c[1], c[2], c[3])
  BY <1>1 DEF WeekdayOfDay
<1>8. c # NoDate /\ c \in Dates
  BY <1>3, <1>4 DEF NoDate, Dates
<1> QED BY <1>1, <1>2, <1>3, <1>5, <1>6, <1>7, <1>8

(* The first and the last day of a year in both counts.                    *)
LEMMA YearEnds ==
  ASSUME NEW y \in Int
  PROVE  /\ DaysBefore(y - 1) \in Int /\ DaysBefore(y) \in Int /\ DaysBefore(y - 1) + 365 <= DaysBefore(y)
         /\ \A d \in Int : DayNumber(<<y, 1, d>>) = DaysBefore(y - 1) + d
         /\ DayNumber(<<y, 12, 31>>) = DaysBefore(y)
         /\ DaysOf(y, 1, 1) = DaysBefore(y - 1) + 1 - Shift
         /\ DaysOf(y, 12, 31) = DaysBefore(y) - Shift
<1>1. DaysBefore(y - 1) \in Int /\ DaysBefore(y) \in Int
  BY ErasCounted
<1>2. DaysBefore(y) = DaysBefore(y - 1) + 365 + (IF LeapYear(y) THEN 1 ELSE 0)
  BY LeapDay
<1>3. ASSUME NEW d \in Int PROVE DayNumber(<<y, 1, d>>) = DaysBefore(y - 1) + d
  <2>1. MonthBegins(y, 1) = 0
    BY Befores DEF MonthBegins
  <2> QED BY <1>1, <2>1, DayOfYear
<1>4. DayNumber(<<y, 12, 31>>) = DaysBefore(y)
  <2>1. MonthBegins(y, 12) = 334 + (IF LeapYear(y) THEN 1 ELSE 0)
    BY Befores DEF MonthBegins
  <2>2. DayNumber(<<y, 12, 31>>) = DaysBefore(y - 1) + MonthBegins(y, 12) + 31
    BY DayOfYear
  <2> QED BY <1>1, <1>2, <2>1, <2>2
<1>5. DaysOf(y, 1, 1) = DayNumber(<<y, 1, 1>>) - Shift /\ DaysOf(y, 12, 31) = DayNumber(<<y, 12, 31>>) - Shift
  BY DaysShifted
<1> QED BY <1>1, <1>2, <1>3, <1>4, <1>5, DaysShifted

(* The days with a date in a year are those from its first to its last.    *)
LEMMA InYear ==
  ASSUME NEW y \in Int, NEW z \in Int
  PROVE  CivilOf(z)[1] = y <=> z \in DaysOf(y, 1, 1)..DaysOf(y, 12, 31)
<1>1. PICK x \in Int, m \in 1..12, d \in Int : CivilOf(z) = <<x, m, d>> /\ TrueDate(<<x, m, d>>)
  <2>1. PICK c : c = CivilOf(z)
    OBVIOUS
  <2>2. c = <<c[1], c[2], c[3]>> /\ c[1] \in Int /\ TrueDate(c)
    BY <2>1, CivilIsTrue
  <2>3. c[2] \in 1..12 /\ c[3] \in Int
    BY <2>2, MonthLengths DEF TrueDate
  <2> QED BY <2>1, <2>2, <2>3
<1>2. DaysBefore(x - 1) < z + Shift /\ z + Shift <= DaysBefore(x)
  <2>1. DayNumber(<<x, m, d>>) = z + Shift
    BY <1>1, CivilNumbers
  <2>2. DaysBefore(x - 1) < DayNumber(<<x, m, d>>) /\ DayNumber(<<x, m, d>>) <= DaysBefore(x)
    BY <1>1, YearHolds
  <2> QED BY <2>1, <2>2
<1>3. /\ DaysBefore(y - 1) \in Int /\ DaysBefore(y) \in Int /\ DaysBefore(x - 1) \in Int /\ DaysBefore(x) \in Int
      /\ DaysOf(y, 1, 1) = DaysBefore(y - 1) + 1 - Shift /\ DaysOf(y, 12, 31) = DaysBefore(y) - Shift
  BY YearEnds
<1>4. x = y => z \in DaysOf(y, 1, 1)..DaysOf(y, 12, 31)
  BY <1>2, <1>3, DaysShifted
<1>5. x < y => DaysBefore(x) <= DaysBefore(y - 1)
  BY YearsGrow
<1>6. y < x => DaysBefore(y) <= DaysBefore(x - 1)
  BY YearsGrow
<1>7. z \in DaysOf(y, 1, 1)..DaysOf(y, 12, 31) => ~(x < y) /\ ~(y < x)
  BY <1>2, <1>3, <1>5, <1>6, DaysShifted
<1> QED BY <1>1, <1>4, <1>7

(* Days between two days that are a given weekday. *)
LEMMA FirstDays ==
  ASSUME NEW day \in Int, NEW hi \in Int, NEW first \in 1..7, NEW off \in Int, NEW S,
         \A x : x \in S <=> x \in Int /\ day - 6 <= x + off /\ x <= hi /\ WeekdayNumber(x + off) = first
  PROVE  WeekStart(day, first) \in Int /\ Weekly(S, WeekStart(day, first) - off, hi)
<1>1. PICK s : s = WeekStart(day, first)
  OBVIOUS
<1>2. /\ s \in Int /\ s <= day /\ day < s + 7
      /\ \A x \in Int : WeekdayNumber(x) = first <=> \E k \in Int : x = s + 7 * k
  <2> DEFINE w == WeekStart(day, first)
  <2>1. /\ w \in Int /\ w <= day /\ day < w + 7
        /\ \A x \in Int : WeekdayNumber(x) = first <=> \E k \in Int : x = w + 7 * k
    BY WeekStartIs
  <2>2. s = w
    BY <1>1
  <2> HIDE DEF w
  <2> QED BY <2>1, <2>2
<1>3. ASSUME NEW x \in S PROVE x \in Int /\ x <= hi /\ \E k \in Nat : x = (s - off) + 7 * k
  <2>1. x \in Int /\ day - 6 <= x + off /\ x <= hi /\ WeekdayNumber(x + off) = first
    OBVIOUS
  <2>2. x + off \in Int
    BY <2>1
  <2>3. PICK k \in Int : x + off = s + 7 * k
    BY <1>2, <2>1, <2>2
  <2>4. k \in Nat /\ x = (s - off) + 7 * k
    BY <1>2, <2>1, <2>3
  <2> QED BY <2>1, <2>4
<1>4. ASSUME NEW k \in Nat, (s - off) + 7 * k <= hi PROVE (s - off) + 7 * k \in S
  <2> DEFINE x == (s - off) + 7 * k
  <2>1. x \in Int /\ x + off = s + 7 * k /\ day - 6 <= x + off /\ x <= hi
    BY <1>2, <1>4
  <2> HIDE DEF x
  <2>2. WeekdayNumber(x + off) = first
    <3>1. x + off \in Int /\ k \in Int
      BY <2>1
    <3> QED BY <1>2, <2>1, <3>1
  <2>3. x \in S
    BY <2>1, <2>2
  <2> QED BY <2>3 DEF x
<1>5. s - off \in Int
  BY <1>2
<1>6. Weekly(S, s - off, hi)
  <2> DEFINE t == s - off
  <2>1. \A x \in S : x \in Int /\ x <= hi /\ \E k \in Nat : x = t + 7 * k
    BY <1>3
  <2>2. \A k \in Nat : t + 7 * k <= hi => t + 7 * k \in S
    BY <1>4
  <2> HIDE DEF t
  <2>3. S = {x \in Int : x <= hi /\ \E k \in Nat : x = t + 7 * k}
    BY <2>1, <2>2
  <2> QED BY <2>3 DEF Weekly, t
<1> QED BY <1>1, <1>2, <1>6

(* date_from_week_of_year gives the first day of a week: the one that      *)
(* begins the week with day least of January in it, and so many weeks      *)
(* later.  There is such a date exactly when the week is one of the year   *)
(* by the rule of least days, from 1 to its last.  The year is one from 1  *)
(* on: the weeks of the year 0 begin in months whose weekdays are off.     *)
THEOREM WeekOfYearIsTrue ==
  ASSUME NEW y \in Nat \ {0}, NEW week \in Int, NEW first \in 1..7, NEW least \in 1..7
  PROVE  LET date == OfWeek(y, week, first, least)
             day == WeekStart(DayNumber(<<y, 1, least>>), first) + 7 * (week - 1) IN
         /\ date # NoDate <=> week >= 1 /\ day + least - 1 <= DayNumber(<<y, 12, 31>>)
         /\ date # NoDate => date \in Dates /\ TrueDate(date) /\ DayNumber(date) = day
<1> DEFINE lo == DaysOf(y, 1, 1)
           hi == DaysOf(y, 12, 31)
           starts == {z \in (lo - 14)..(hi + 14) :
                        WeekdayOfDay(z) = first /\ Cardinality({i \in 0..6 : CivilOf(z + i)[1] = y}) >= least}
           w == WeekStart(DayNumber(<<y, 1, least>>), first)
           off == Shift
           date == OfWeek(y, week, first, least)
           last == DayNumber(<<y, 12, 31>>)
<1>1. /\ lo \in Int /\ hi \in Int /\ lo + 6 <= hi /\ off \in Int
      /\ DayNumber(<<y, 1, least>>) = lo + off + least - 1 /\ last = hi + off /\ lo + off >= 1
  <2>1. DaysBefore(0) = 0 /\ DaysBefore(0) <= DaysBefore(y - 1)
    <3>1. DaysBefore(0) = 0
      BY DEF DaysBefore
    <3>2. 0 \in Int /\ y - 1 \in Int /\ 0 <= y - 1
      OBVIOUS
    <3> QED BY <3>1, <3>2, YearsGrow
  <2> QED BY <2>1, YearEnds, DaysShifted
<1>2. date = IF Nth(starts, week) = {} THEN NoDate ELSE CivilOf(Only(Nth(starts, week)))
  BY DEF OfWeek
<1> HIDE DEF lo, hi, date, last
<1>3. ASSUME NEW x \in Int
      PROVE  Cardinality({i \in 0..6 : CivilOf(x + i)[1] = y}) >= least <=> lo + least - 7 <= x /\ x <= hi + 1 - least
  <2>1. {i \in 0..6 : CivilOf(x + i)[1] = y} = {i \in 0..6 : x + i \in lo..hi}
    <3>1. \A i \in 0..6 : CivilOf(x + i)[1] = y <=> x + i \in lo..hi
      BY InYear DEF lo, hi
    <3> QED BY <3>1
  <2> QED BY <1>1, <2>1, DaysInside
<1>4. ASSUME NEW x
      PROVE  x \in starts <=> /\ x \in Int /\ (lo + off + least - 1) - 6 <= x + off /\ x <= hi + 1 - least
                              /\ WeekdayNumber(x + off) = first
  <2>1. x \in starts <=> x \in (lo - 14)..(hi + 14) /\ WeekdayOfDay(x) = first /\ lo + least - 7 <= x /\ x <= hi + 1 - least
    <3>1. x \in (lo - 14)..(hi + 14) => x \in Int
      BY <1>1
    <3> QED BY <1>3, <3>1
  <2>2. x \in Int /\ x >= lo - 14 => WeekdayOfDay(x) = WeekdayNumber(x + off)
    BY <1>1, CivilNumbers
  <2> HIDE DEF starts, off
  <2> QED BY <1>1, <2>1, <2>2
<1> HIDE DEF starts, off
<1>5. w \in Int /\ Weekly(starts, w - off, hi + 1 - least)
  <2>1. lo + off + least - 1 \in Int /\ hi + 1 - least \in Int
    BY <1>1
  <2> DEFINE first0 == lo + off + least - 1
             end == hi + 1 - least
  <2> HIDE DEF first0, end
  <2>2. \A x : x \in starts <=> x \in Int /\ first0 - 6 <= x + off /\ x <= end /\ WeekdayNumber(x + off) = first
    BY <1>4 DEF first0, end
  <2>3. WeekStart(first0, first) \in Int /\ Weekly(starts, WeekStart(first0, first) - off, end)
    BY <1>1, <2>1, <2>2, FirstDays DEF first0, end
  <2> QED BY <1>1, <2>3 DEF first0, end
<1> HIDE DEF w
<1>6. Nth(starts, week) = IF week >= 1 /\ (w - off) + 7 * (week - 1) <= hi + 1 - least THEN {(w - off) + 7 * (week - 1)} ELSE {}
  <2>1. w - off \in Int /\ hi + 1 - least \in Int
    BY <1>1, <1>5
  <2> QED BY <1>5, <2>1, NthOfWeekly
<1> DEFINE day == w + 7 * (week - 1)
<1>7. (w - off) + 7 * (week - 1) = day - off /\ day \in Int
  BY <1>1, <1>5
<1> HIDE DEF day
<1>8. (day - off <= hi + 1 - least) <=> day + least - 1 <= last
  BY <1>1, <1>7
<1>9. CASE week >= 1 /\ day + least - 1 <= last
  <2>1. Nth(starts, week) = {day - off}
    BY <1>6, <1>7, <1>8, <1>9
  <2>2. date = CivilOf(day - off)
    BY <1>2, <2>1 DEF Only
  <2>3. /\ CivilOf(day - off) # NoDate /\ CivilOf(day - off) \in Dates /\ TrueDate(CivilOf(day - off))
        /\ DayNumber(CivilOf(day - off)) = (day - off) + off
    <3>1. day - off \in Int
      BY <1>1, <1>7
    <3> QED BY <3>1, CivilNumbers DEF off
  <2>4. date # NoDate /\ date \in Dates /\ TrueDate(date) /\ DayNumber(date) = day
    BY <1>1, <1>7, <2>2, <2>3
  <2> QED BY <1>9, <2>4 DEF date, day, w, last
<1>10. CASE ~(week >= 1 /\ day + least - 1 <= last)
  <2>1. date = NoDate
    BY <1>2, <1>6, <1>7, <1>8, <1>10
  <2> QED BY <1>10, <2>1 DEF date, day, w, last
<1> QED BY <1>9, <1>10

(* The days of a month follow each other.                                  *)
LEMMA DaysFollow ==
  ASSUME NEW y \in Int, NEW m \in 1..12
  PROVE  DayNumber(<<y, m, 0>>) \in Int /\ \A d \in Int : DayNumber(<<y, m, d>>) = DayNumber(<<y, m, 0>>) + d
<1>1. MonthBegins(y, m) \in Int /\ DaysBefore(y - 1) \in Int /\ DayNumber(<<y, m, 0>>) = DaysBefore(y - 1) + MonthBegins(y, m) + 0
  BY DayOfYear
<1>2. ASSUME NEW d \in Int PROVE DayNumber(<<y, m, d>>) = DayNumber(<<y, m, 0>>) + d
  <2>1. DayNumber(<<y, m, d>>) = DaysBefore(y - 1) + MonthBegins(y, m) + d
    BY DayOfYear
  <2> QED BY <1>1, <2>1
<1> QED BY <1>1, <1>2

(* nth_weekday_in_month gives the nth of the days of a month that are a    *)
(* given weekday, and a date exactly when the month has that many.  The    *)
(* month is one from March of the year 0 on.                               *)
THEOREM NthWeekdayIsTrue ==
  ASSUME NEW y \in Int, NEW m \in 1..12, NEW n \in Int, NEW weekday \in 1..7, YearOf(y, m) >= 0
  PROVE  LET date == NthWeekday(y, m, n, weekday)
             day == WeekStart(DayNumber(<<y, m, 7>>), weekday) + 7 * (n - 1) IN
         /\ date # NoDate <=> n >= 1 /\ day <= DayNumber(<<y, m, DaysInMonth(y, m)>>)
         /\ date # NoDate => TrueDate(date) /\ DayNumber(date) = day
<1> DEFINE dim == DaysInMonth(y, m)
           off == DayNumber(<<y, m, 0>>)
           days == {d \in 1..dim : WeekdayOf(y, m, d) = weekday}
           w == WeekStart(DayNumber(<<y, m, 7>>), weekday)
           day == w + 7 * (n - 1)
           date == NthWeekday(y, m, n, weekday)
           last == DayNumber(<<y, m, DaysInMonth(y, m)>>)
<1>1. dim \in 28..31 /\ off \in Int /\ last = off + dim /\ DayNumber(<<y, m, 7>>) = off + 7
      /\ \A d \in Int : DayNumber(<<y, m, d>>) = off + d
  <2>1. dim \in 28..31
    BY MonthLengths
  <2>2. DayNumber(<<y, m, 0>>) \in Int /\ \A d \in Int : DayNumber(<<y, m, d>>) = DayNumber(<<y, m, 0>>) + d
    BY DaysFollow
  <2> QED BY <2>1, <2>2
<1>2. date = IF Nth(days, n) = {} THEN NoDate ELSE <<y, m, Only(Nth(days, n))>>
  BY DEF NthWeekday
<1> HIDE DEF date, last
<1>3. ASSUME NEW x
      PROVE  x \in days <=> x \in Int /\ (off + 7) - 6 <= x + off /\ x <= dim /\ WeekdayNumber(x + off) = weekday
  <2>1. x \in Int => WeekdayOf(y, m, x) = WeekdayNumber(x + off)
    <3>1. \A d \in Int : off + d = d + off
      BY <1>1
    <3>2. x \in Int => WeekdayOf(y, m, x) = WeekdayNumber(DayNumber(<<y, m, x>>)) /\ DayNumber(<<y, m, x>>) = off + x
      BY <1>1, WeekdaysCounted
    <3> HIDE DEF off
    <3> QED BY <3>1, <3>2
  <2> HIDE DEF off, dim
  <2> QED BY <1>1, <2>1
<1> HIDE DEF days, dim
<1>4. w \in Int /\ Weekly(days, w - off, dim)
  <2>1. off + 7 \in Int /\ dim \in Int
    BY <1>1
  <2> HIDE DEF off
  <2> DEFINE first0 == off + 7
  <2> HIDE DEF first0
  <2>2. \A x : x \in days <=> x \in Int /\ first0 - 6 <= x + off /\ x <= dim /\ WeekdayNumber(x + off) = weekday
    BY <1>3 DEF first0
  <2>3. WeekStart(first0, weekday) \in Int /\ Weekly(days, WeekStart(first0, weekday) - off, dim)
    BY <1>1, <2>1, <2>2, FirstDays DEF first0
  <2> QED BY <1>1, <2>3 DEF first0
<1> HIDE DEF w, off
<1>5. Nth(days, n) = IF n >= 1 /\ (w - off) + 7 * (n - 1) <= dim THEN {(w - off) + 7 * (n - 1)} ELSE {}
  <2>1. w - off \in Int /\ dim \in Int
    BY <1>1, <1>4
  <2> QED BY <1>4, <2>1, NthOfWeekly
<1>6. /\ (w - off) + 7 * (n - 1) = day - off /\ day \in Int
      /\ (day - off <= dim) <=> day <= last
  BY <1>1, <1>4
<1>7. CASE n >= 1 /\ day <= last
  <2> HIDE DEF day
  <2>1. Nth(days, n) = {day - off}
    BY <1>5, <1>6, <1>7
  <2>2. date = <<y, m, day - off>> /\ day - off \in days
    BY <1>2, <2>1 DEF Only, Nth
  <2>3. DayNumber(<<y, m, day - off>>) = off + (day - off)
    BY <1>1, <1>6
  <2>4. day - off \in 1..dim
    BY <2>2 DEF days
  <2>5. TrueDate(date) /\ DayNumber(date) = day /\ date # NoDate
    BY <1>1, <1>6, <2>2, <2>3, <2>4 DEF TrueDate, dim, NoDate
  <2> QED BY <1>7, <2>5 DEF date, day, w, last
<1>8. CASE ~(n >= 1 /\ day <= last)
  <2> HIDE DEF day
  <2>1. date = NoDate
    BY <1>2, <1>5, <1>6, <1>8
  <2> QED BY <1>8, <2>1 DEF date, day, w, last
<1> QED BY <1>7, <1>8

(* date_from_week_of_month gives the first day of a week, counted from the *)
(* one with day least of the month in it; it may be of the month before.   *)
(* There is such a date exactly when the week has enough days in the       *)
(* month.  The month is one from March of the year 0 on.                   *)
THEOREM WeekOfMonthIsTrue ==
  ASSUME NEW y \in Int, NEW m \in 1..12, NEW week \in Int, NEW first \in 1..7, NEW least \in 1..7, YearOf(y, m) >= 0
  PROVE  LET date == OfMonthWeek(y, m, week, first, least)
             day == WeekStart(DayNumber(<<y, m, least>>), first) + 7 * (week - 1) IN
         /\ date # NoDate <=> week >= 1 /\ day + least - 1 <= DayNumber(<<y, m, DaysInMonth(y, m)>>)
         /\ date # NoDate => date \in Dates /\ TrueDate(date) /\ DayNumber(date) = day
<1> DEFINE dim == DaysInMonth(y, m)
           off == DayNumber(<<y, m, 0>>)
           start == 1 - ((WeekdayOf(y, m, 1) + 7 - first) % 7)
           starts == {s \in {start + 7 * k : k \in 0..6} :
                        s <= dim + 7 /\ Cardinality({i \in 0..6 : s + i \in 1..dim}) >= least}
           w == WeekStart(DayNumber(<<y, m, least>>), first)
           day == w + 7 * (week - 1)
           date == OfMonthWeek(y, m, week, first, least)
           last == DayNumber(<<y, m, DaysInMonth(y, m)>>)
           p == Prior(y, m)
<1>1. dim \in 28..31 /\ off \in Int /\ last = off + dim /\ DayNumber(<<y, m, least>>) = off + least
      /\ \A d \in Int : DayNumber(<<y, m, d>>) = off + d
  <2>1. dim \in 28..31
    BY MonthLengths
  <2>2. DayNumber(<<y, m, 0>>) \in Int /\ \A d \in Int : DayNumber(<<y, m, d>>) = DayNumber(<<y, m, 0>>) + d
    BY DaysFollow
  <2> QED BY <2>1, <2>2
<1>2. date = IF Nth(starts, week) = {} THEN NoDate
             ELSE IF Only(Nth(starts, week)) >= 1 THEN <<y, m, Only(Nth(starts, week))>>
             ELSE <<p[1], p[2], DaysInMonth(p[1], p[2]) + Only(Nth(starts, week))>>
  BY DEF OfMonthWeek, Prior
<1>3. /\ start \in Int /\ start <= 1 /\ 1 < start + 7
      /\ \A x \in Int : WeekdayNumber(x + off) = first <=> \E k \in Int : x = start + 7 * k
  <2>1. PICK u \in Int : u = off + 1
    BY <1>1
  <2>2. WeekdayOf(y, m, 1) = WeekdayNumber(u)
    <3>1. WeekdayOf(y, m, 1) = WeekdayNumber(DayNumber(<<y, m, 1>>))
      BY WeekdaysCounted
    <3>2. DayNumber(<<y, m, 1>>) = u
      BY <1>1, <2>1
    <3> QED BY <3>1, <3>2
  <2>3. start = 1 - ((u - first) % 7)
    <3>1. (WeekdayNumber(u) + 7 - first) % 7 = (u - first) % 7
      BY DEF WeekdayNumber
    <3> QED BY <2>2, <3>1
  <2>4. WeekStart(u, first) = start + off
    BY <1>1, <2>1, <2>3 DEF WeekStart, Monday1
  <2>5. start \in Int
    BY <2>3
  <2> DEFINE s == WeekStart(u, first)
  <2>6. /\ s \in Int /\ s <= u /\ u < s + 7
        /\ \A x \in Int : WeekdayNumber(x) = first <=> \E k \in Int : x = s + 7 * k
    BY WeekStartIs
  <2> HIDE DEF s, start, off
  <2>7. ASSUME NEW x \in Int PROVE WeekdayNumber(x + off) = first <=> \E k \in Int : x = start + 7 * k
    <3>1. x + off \in Int /\ \A k \in Int : x + off = s + 7 * k <=> x = start + 7 * k
      BY <1>1, <2>4, <2>5, <2>6 DEF s
    <3> QED BY <2>6, <3>1
  <2> QED BY <1>1, <2>1, <2>4, <2>5, <2>6, <2>7 DEF s
<1> HIDE DEF start, date, last, dim, off
<1>4. ASSUME NEW x
      PROVE  x \in starts <=> x \in Int /\ (off + least) - 6 <= x + off /\ x <= dim + 1 - least /\ WeekdayNumber(x + off) = first
  <2>1. x \in Int => (Cardinality({i \in 0..6 : x + i \in 1..dim}) >= least <=> 1 + least - 7 <= x /\ x <= dim + 1 - least)
    <3>1. 1 \in Int /\ dim \in Int /\ 1 + 6 <= dim
      BY <1>1
    <3> SUFFICES ASSUME x \in Int
                 PROVE  Cardinality({i \in 0..6 : x + i \in 1..dim}) >= least <=> 1 + least - 7 <= x /\ x <= dim + 1 - least
      OBVIOUS
    <3> QED BY <3>1, DaysInside
  <2>2. ASSUME x \in starts PROVE x \in Int /\ (off + least) - 6 <= x + off /\ x <= dim + 1 - least /\ WeekdayNumber(x + off) = first
    <3>1. PICK k \in 0..6 : x = start + 7 * k
      BY <2>2
    <3>2. x \in Int /\ Cardinality({i \in 0..6 : x + i \in 1..dim}) >= least /\ k \in Int
      BY <1>3, <2>2, <3>1
    <3> HIDE DEF starts
    <3>3. WeekdayNumber(x + off) = first
      BY <1>3, <3>1, <3>2
    <3> QED BY <1>1, <2>1, <3>2, <3>3
  <2>3. ASSUME x \in Int, (off + least) - 6 <= x + off, x <= dim + 1 - least, WeekdayNumber(x + off) = first PROVE x \in starts
    <3>1. PICK k \in Int : x = start + 7 * k
      BY <1>3, <2>3
    <3>2. k \in 0..6 /\ x <= dim + 7 /\ 1 + least - 7 <= x
      BY <1>1, <1>3, <2>3, <3>1
    <3>3. Cardinality({i \in 0..6 : x + i \in 1..dim}) >= least
      BY <2>1, <2>3, <3>2
    <3> QED BY <3>1, <3>2, <3>3
  <2> QED BY <2>2, <2>3
<1> HIDE DEF starts
<1>5. w \in Int /\ Weekly(starts, w - off, dim + 1 - least)
  <2>1. off + least \in Int /\ dim + 1 - least \in Int
    BY <1>1
  <2> DEFINE first0 == off + least
             end == dim + 1 - least
  <2> HIDE DEF first0, end
  <2>2. \A x : x \in starts <=> x \in Int /\ first0 - 6 <= x + off /\ x <= end /\ WeekdayNumber(x + off) = first
    BY <1>4 DEF first0, end
  <2>3. WeekStart(first0, first) \in Int /\ Weekly(starts, WeekStart(first0, first) - off, end)
    BY <1>1, <2>1, <2>2, FirstDays DEF first0, end
  <2> QED BY <1>1, <2>3 DEF first0, end
<1>6. w - off >= least - 6
  <2>1. PICK u \in Int : u = DayNumber(<<y, m, least>>)
    BY <1>1
  <2>2. u < WeekStart(u, first) + 7 /\ WeekStart(u, first) \in Int
    BY WeekStartIs
  <2>3. off + least < w + 7
    BY <1>1, <2>1, <2>2
  <2> HIDE DEF w
  <2> QED BY <1>1, <1>5, <2>3
<1> HIDE DEF w
<1>7. Nth(starts, week) = IF week >= 1 /\ (w - off) + 7 * (week - 1) <= dim + 1 - least THEN {(w - off) + 7 * (week - 1)} ELSE {}
  <2>1. w - off \in Int /\ dim + 1 - least \in Int
    BY <1>1, <1>5
  <2> QED BY <1>5, <2>1, NthOfWeekly
<1>8. /\ (w - off) + 7 * (week - 1) = day - off /\ day \in Int
      /\ (day - off <= dim + 1 - least) <=> day + least - 1 <= last
  BY <1>1, <1>5
<1>9. CASE week >= 1 /\ day + least - 1 <= last
  <2>1. day - off >= -5 /\ day - off <= dim /\ day - off \in Int
    BY <1>1, <1>5, <1>6, <1>8, <1>9
  <2> HIDE DEF day
  <2>2. Nth(starts, week) = {day - off}
    BY <1>7, <1>8, <1>9
  <2>3. Only(Nth(starts, week)) = day - off
    BY <2>2 DEF Only
  <2>4. CASE day - off >= 1
    <3>1. date = <<y, m, day - off>>
      BY <1>2, <2>2, <2>3, <2>4
    <3>2. DayNumber(<<y, m, day - off>>) = off + (day - off)
      BY <1>1, <2>1
    <3>3. date \in Dates /\ TrueDate(date) /\ DayNumber(date) = day /\ date # NoDate
      BY <1>1, <1>8, <2>1, <2>4, <3>1, <3>2 DEF TrueDate, dim, NoDate, Dates
    <3> QED BY <1>9, <3>3 DEF date, day, w, last
  <2>5. CASE day - off < 1
    <3>1. PICK x \in Int, n \in 1..12 : x = p[1] /\ n = p[2] /\ After(x, n) = <<y, m>>
      BY PriorBefore
    <3>2. PICK l \in 28..31 : l = DaysInMonth(x, n)
      BY MonthLengths
    <3>3. date = <<x, n, l + (day - off)>>
      <4> HIDE DEF p
      <4>1. ~(day - off >= 1)
        BY <2>1, <2>5
      <4> QED BY <1>2, <2>2, <2>3, <3>1, <3>2, <4>1
    <3>4. DayNumber(<<x, n, l + (day - off)>>) = DayNumber(<<y, m, day - off>>)
      <4>1. After(x, n)[1] = y /\ After(x, n)[2] = m
        BY <3>1
      <4>2. DayNumber(<<x, n, DaysInMonth(x, n) + (day - off)>>) = DayNumber(<<After(x, n)[1], After(x, n)[2], day - off>>)
        BY <2>1, MonthsMeet
      <4> QED BY <3>2, <4>1, <4>2
    <3>5. DayNumber(<<y, m, day - off>>) = off + (day - off)
      BY <1>1, <2>1
    <3>6. l + (day - off) \in 1..l
      BY <2>1, <2>5
    <3>7. date \in Dates /\ TrueDate(date) /\ DayNumber(date) = day /\ date # NoDate
      BY <1>1, <1>8, <3>2, <3>3, <3>4, <3>5, <3>6 DEF TrueDate, NoDate, Dates
    <3> QED BY <1>9, <3>7 DEF date, day, w, last
  <2> QED BY <2>1, <2>4, <2>5
<1>10. CASE ~(week >= 1 /\ day + least - 1 <= last)
  <2> HIDE DEF day
  <2>1. date = NoDate
    BY <1>2, <1>7, <1>8, <1>10
  <2> QED BY <1>10, <2>1 DEF date, day, w, last
<1> QED BY <1>9, <1>10

(* month_day_from_ordinal gives the date of a day of the year, of the days *)
(* 1 to 365, or 366 in a leap year, and of no other.                       *)
THEOREM OrdinalIsTrue ==
  ASSUME NEW y \in Int, NEW n \in Nat
  PROVE  LET date == OfOrdinal(y, n) IN
         /\ date # NoDate <=> n >= 1 /\ n <= IF LeapYear(y) THEN 366 ELSE 365
         /\ date # NoDate => TrueDate(date) /\ date[1] = y /\ DayNumber(date) = DayNumber(<<y, 1, n>>)
<1> DEFINE leap == IF LeapYear(y) THEN 1 ELSE 0
           sums == [m \in 1..13 |-> IF m = 13 THEN 365 + leap ELSE MonthBegins(y, m)]
           before == CHOOSE g : g = [m \in 1..13 |-> IF m = 1 THEN 0 ELSE g[m - 1] + DaysInMonth(y, m - 1)]
           month == CHOOSE k \in 1..12 : before[k] < n /\ n <= before[k + 1]
           date == OfOrdinal(y, n)
<1>1. date = IF n = 0 \/ n > before[13] THEN NoDate ELSE <<y, month, n - before[month]>>
  BY DEF OfOrdinal
<1>2. /\ sums[1] = 0 /\ sums[2] = 31 /\ sums[3] = 59 + leap /\ sums[4] = 90 + leap /\ sums[5] = 120 + leap
      /\ sums[6] = 151 + leap /\ sums[7] = 181 + leap /\ sums[8] = 212 + leap /\ sums[9] = 243 + leap
      /\ sums[10] = 273 + leap /\ sums[11] = 304 + leap /\ sums[12] = 334 + leap /\ sums[13] = 365 + leap
  <2>1. \A m \in 1..12 : MonthBegins(y, m) = Before(m) + (IF m > 2 THEN leap ELSE 0)
    BY DEF MonthBegins
  <2> HIDE DEF leap
  <2> QED BY <2>1, Befores
<1>3. \A m \in 2..13 : sums[m] = sums[m - 1] + DaysInMonth(y, m - 1)
  <2> SUFFICES ASSUME NEW m \in 2..13 PROVE sums[m] = sums[m - 1] + DaysInMonth(y, m - 1)
    OBVIOUS
  <2>1. m \in {2, 3, 4, 5, 6, 7, 8, 9, 10, 11, 12, 13} /\ m - 1 \in 1..12
    OBVIOUS
  <2>2. leap \in 0..1 /\ (LeapYear(y) <=> leap = 1)
    OBVIOUS
  <2>3. DaysInMonth(y, m - 1) = MonthLength(m - 1) - (IF m - 1 = 2 /\ ~LeapYear(y) THEN 1 ELSE 0)
    BY <2>1, MonthLengths
  <2> HIDE DEF sums, leap
  <2> QED BY <1>2, <2>1, <2>2, <2>3 DEF MonthLength
<1>4. before = sums
  <2>1. sums = [m \in 1..13 |-> IF m = 1 THEN 0 ELSE sums[m - 1] + DaysInMonth(y, m - 1)]
    <3>1. \A m \in 1..13 : sums[m] = IF m = 1 THEN 0 ELSE sums[m - 1] + DaysInMonth(y, m - 1)
      <4> SUFFICES ASSUME NEW m \in 1..13 PROVE sums[m] = IF m = 1 THEN 0 ELSE sums[m - 1] + DaysInMonth(y, m - 1)
        OBVIOUS
      <4>1. m = 1 \/ m \in 2..13
        OBVIOUS
      <4> HIDE DEF sums
      <4> QED BY <1>2, <1>3, <4>1
    <3>2. sums = [m \in 1..13 |-> sums[m]]
      OBVIOUS
    <3> HIDE DEF sums
    <3> QED BY <3>1, <3>2
  <2>2. before = [m \in 1..13 |-> IF m = 1 THEN 0 ELSE before[m - 1] + DaysInMonth(y, m - 1)]
    <3> HIDE DEF sums
    <3> QED BY <2>1
  <2> HIDE DEF before, sums
  <2> DEFINE T == {k \in 0..12 : before[k + 1] = sums[k + 1]}
  <2>3. 0 \in T
    BY <1>2, <2>2
  <2>4. ASSUME NEW k \in 0..(12 - 1), k \in T PROVE k + 1 \in T
    <3>1. k + 1 \in 0..12 /\ (k + 1) + 1 \in 2..13 /\ (k + 1) + 1 # 1 /\ ((k + 1) + 1) - 1 = k + 1
      OBVIOUS
    <3>2. before[(k + 1) + 1] = before[k + 1] + DaysInMonth(y, k + 1)
      BY <2>2, <3>1
    <3>3. sums[(k + 1) + 1] = sums[k + 1] + DaysInMonth(y, k + 1)
      BY <1>3, <3>1
    <3>4. before[k + 1] = sums[k + 1]
      BY <2>4
    <3> QED BY <3>1, <3>2, <3>3, <3>4
  <2>5. \A k \in 0..12 : k \in T
    <3> SUFFICES ASSUME NEW j \in 0..12 PROVE j \in T
      OBVIOUS
    <3> HIDE DEF T
    <3>1. \A k \in 0..(j - 1) : k \in T => k + 1 \in T
      BY <2>4
    <3> QED BY <2>3, <3>1, UpTo
  <2>6. \A m \in 1..13 : before[m] = sums[m]
    <3> SUFFICES ASSUME NEW m \in 1..13 PROVE before[m] = sums[m]
      OBVIOUS
    <3>1. m - 1 \in 0..12 /\ (m - 1) + 1 = m
      OBVIOUS
    <3> QED BY <2>5, <3>1
  <2>7. before = [m \in 1..13 |-> before[m]] /\ sums = [m \in 1..13 |-> sums[m]]
    BY <2>2 DEF sums
  <2> QED BY <2>6, <2>7
<1> HIDE DEF before
<1>5. leap \in 0..1 /\ 365 + leap = IF LeapYear(y) THEN 366 ELSE 365
  OBVIOUS
<1> HIDE DEF sums, leap, date
<1>6. CASE n = 0 \/ n > 365 + leap
  BY <1>1, <1>2, <1>4, <1>5, <1>6 DEF date
<1>7. CASE n >= 1 /\ n <= 365 + leap
  <2>1. \E k \in 1..12 : sums[k] < n /\ n <= sums[k + 1]
    <3>1. CASE n <= 151 + leap
      BY <1>2, <1>5, <1>7, <3>1
    <3>2. CASE n > 151 + leap /\ n <= 273 + leap
      BY <1>2, <1>5, <1>7, <3>2
    <3>3. CASE n > 273 + leap
      BY <1>2, <1>5, <1>7, <3>3
    <3> QED BY <1>5, <3>1, <3>2, <3>3
  <2>2. month \in 1..12 /\ sums[month] < n /\ n <= sums[month + 1]
    BY <1>4, <2>1
  <2> HIDE DEF month
  <2>3. PICK m \in 1..12 : m = month
    BY <2>2
  <2>4. date = <<y, m, n - sums[m]>>
    BY <1>1, <1>2, <1>4, <1>5, <1>7, <2>3
  <2>5. sums[m] = MonthBegins(y, m) /\ MonthBegins(y, m) \in Int /\ DaysBefore(y - 1) \in Int
    <3>1. m \in 1..13 /\ m # 13
      OBVIOUS
    <3>2. sums[m] = MonthBegins(y, m)
      BY <3>1 DEF sums
    <3>3. MonthBegins(y, m) \in Int /\ DaysBefore(y - 1) \in Int
      BY DayOfYear, 0 \in Int
    <3> QED BY <3>2, <3>3
  <2>6. sums[m + 1] = sums[m] + DaysInMonth(y, m) /\ DaysInMonth(y, m) \in 28..31
    <3>1. m + 1 \in 2..13 /\ (m + 1) - 1 = m
      OBVIOUS
    <3> QED BY <1>3, <3>1, MonthLengths
  <2>7. n - sums[m] \in 1..DaysInMonth(y, m)
    BY <2>2, <2>3, <2>5, <2>6
  <2>8. TrueDate(date)
    BY <2>4, <2>7 DEF TrueDate
  <2>9. DayNumber(<<y, m, n - sums[m]>>) = DaysBefore(y - 1) + MonthBegins(y, m) + (n - sums[m])
    BY <2>7, DayOfYear
  <2>10. DayNumber(<<y, 1, n>>) = DaysBefore(y - 1) + n
    <3>1. \A d \in Int : DayNumber(<<y, 1, d>>) = DaysBefore(y - 1) + d
      BY YearEnds
    <3>2. n \in Int
      OBVIOUS
    <3> QED BY <3>1, <3>2
  <2>11. DayNumber(date) = DayNumber(<<y, 1, n>>)
    BY <2>4, <2>5, <2>9, <2>10
  <2>12. date # NoDate /\ date[1] = y
    BY <2>4 DEF NoDate
  <2> QED BY <1>5, <1>7, <2>8, <2>11, <2>12 DEF date
<1>8. n \in Int
  OBVIOUS
<1> QED BY <1>5, <1>6, <1>7, <1>8

(* The hours, minutes and seconds of a number of seconds of a day.         *)
LEMMA ClockOf ==
  ASSUME NEW r \in Int, 0 <= r, r <= 86399
  PROVE  /\ r \div 3600 \in 0..23 /\ (r % 3600) \div 60 \in 0..59 /\ r % 60 \in 0..59
         /\ r = 3600 * (r \div 3600) + 60 * ((r % 3600) \div 60) + (r % 60)
<1>1. PICK h \in Int : h = r \div 3600
  OBVIOUS
<1>2. PICK w \in Int : w = r % 3600
  OBVIOUS
<1>3. r = 3600 * h + w /\ 0 <= w /\ w <= 3599
  BY <1>1, <1>2
<1>4. PICK i \in Int : i = w \div 60
  OBVIOUS
<1>5. PICK u \in Int : u = w % 60
  OBVIOUS
<1>6. w = 60 * i + u /\ 0 <= u /\ u <= 59
  BY <1>4, <1>5
<1>7. h \in 0..23 /\ i \in 0..59 /\ u \in 0..59
  BY <1>3, <1>6
<1>8. r % 60 = u
  <2>1. r = 60 * (60 * h + i) + u
    BY <1>3, <1>6
  <2>2. PICK j \in Int : j = 60 * h + i
    OBVIOUS
  <2>3. r = 60 * j + u
    BY <2>1, <2>2
  <2> QED BY <1>6, <2>3
<1>9. r = 3600 * h + 60 * i + u
  BY <1>3, <1>6
<1>10. (r % 3600) \div 60 = i
  BY <1>2, <1>4
<1> QED BY <1>1, <1>7, <1>8, <1>9, <1>10

(* A number of seconds is one of days and the seconds of a day.            *)
LEMMA DayAndClock ==
  ASSUME NEW s \in Int
  PROVE  \E z \in Int, r \in Int : z = s \div 86400 /\ r = s % 86400 /\ s = 86400 * z + r /\ 0 <= r /\ r <= 86399
<1>1. PICK z \in Int : z = s \div 86400
  OBVIOUS
<1>2. PICK r \in Int : r = s % 86400
  OBVIOUS
<1>3. s = 86400 * z + r /\ 0 <= r /\ r <= 86399
  BY <1>1, <1>2
<1> QED BY <1>1, <1>2, <1>3

(* A time of the day.                                                      *)
TimeOfDay(time) == time \in (0..23) \X (0..59) \X (0..59)

(* An instant is a day and a second of it.                                 *)
IsInstant(at) == \E z \in Int, r \in Int : at = <<z, r>> /\ 0 <= r /\ r <= 86399
SecondsAt(at) == 86400 * at[1] + at[2]

(* Seconds are carried to days and are not lost.                           *)
LEMMA InstantIs ==
  ASSUME NEW days \in Int, NEW secs \in Int
  PROVE  IsInstant(Instant(days, secs)) /\ SecondsAt(Instant(days, secs)) = 86400 * days + secs
<1>1. PICK z \in Int, r \in Int : z = secs \div 86400 /\ r = secs % 86400 /\ secs = 86400 * z + r /\ 0 <= r /\ r <= 86399
  BY DayAndClock
<1>2. Instant(days, secs) = <<days + z, r>>
  BY <1>1 DEF Instant
<1> QED BY <1>1, <1>2 DEF IsInstant, SecondsAt

(* Seconds later.                                                          *)
LEMMA LaterIs ==
  ASSUME NEW at, IsInstant(at), NEW secs \in Int
  PROVE  IsInstant(Later(at, secs)) /\ SecondsAt(Later(at, secs)) = SecondsAt(at) + secs
<1>1. PICK z \in Int, r \in Int : at = <<z, r>> /\ 0 <= r /\ r <= 86399
  BY DEF IsInstant
<1>2. Later(at, secs) = Instant(z, r + secs) /\ r + secs \in Int
  BY <1>1 DEF Later
<1>3. SecondsAt(at) = 86400 * z + r
  BY <1>1 DEF SecondsAt
<1> QED BY <1>1, <1>2, <1>3, InstantIs

(* As many seconds are the same instant.                                   *)
LEMMA SameInstant ==
  ASSUME NEW a, NEW b, IsInstant(a), IsInstant(b), SecondsAt(a) = SecondsAt(b)
  PROVE  a = b
<1>1. PICK x \in Int, r \in Int : a = <<x, r>> /\ 0 <= r /\ r <= 86399
  BY DEF IsInstant
<1>2. PICK z \in Int, u \in Int : b = <<z, u>> /\ 0 <= u /\ u <= 86399
  BY DEF IsInstant
<1>3. 86400 * x + r = 86400 * z + u
  BY <1>1, <1>2 DEF SecondsAt
<1> QED BY <1>1, <1>2, <1>3

(* format_unix_datetime_utc_millis shows a date of the calendar and a time *)
(* of the day, and they are as many seconds as it was given.               *)
LEMMA ShownIs ==
  ASSUME NEW at, IsInstant(at)
  PROVE  /\ TrueDate(ShownDate(at)) /\ ShownDate(at)[1] \in Int /\ DayNumber(ShownDate(at)) \in Int
         /\ TimeOfDay(ShownTime(at)) /\ SecondsOf(ShownTime(at)) \in Int
         /\ 86400 * DayNumber(ShownDate(at)) + SecondsOf(ShownTime(at)) = SecondsAt(at) + 86400 * Shift
<1>1. PICK z \in Int, r \in Int : at = <<z, r>> /\ 0 <= r /\ r <= 86399
  BY DEF IsInstant
<1> DEFINE h == r \div 3600
           i == (r % 3600) \div 60
           u == r % 60
<1>2. h \in 0..23 /\ i \in 0..59 /\ u \in 0..59 /\ r = 3600 * h + 60 * i + u
  BY <1>1, ClockOf
<1>3. ShownDate(at) = CivilOf(z)
  BY <1>1 DEF ShownDate
<1>4. ShownTime(at) = <<h, i, u>>
  BY <1>1 DEF ShownTime
<1> HIDE DEF h, i, u
<1>5. TimeOfDay(<<h, i, u>>) /\ SecondsOf(<<h, i, u>>) = r
  BY <1>2 DEF TimeOfDay, SecondsOf
<1>6. Shift \in Int /\ TrueDate(CivilOf(z)) /\ CivilOf(z)[1] \in Int /\ DayNumber(CivilOf(z)) = z + Shift
  BY DaysShifted, CivilNumbers
<1>7. 86400 * (z + Shift) + r = SecondsAt(at) + 86400 * Shift
  BY <1>1, <1>6 DEF SecondsAt
<1> QED BY <1>1, <1>3, <1>4, <1>5, <1>6, <1>7

(* An epoch: the day may be none of its month.                             *)
IsEpoch(epoch) ==
  epoch.date \in Dates /\ epoch.time \in Int \X Int \X Int /\ epoch.zone \in Int

(* unix_from_utc_ymdhms counts the seconds of an epoch, also when its day  *)
(* is none of its month.                                                   *)
LEMMA EpochCounted ==
  ASSUME NEW epoch, IsEpoch(epoch)
  PROVE  /\ DayNumber(epoch.date) \in Int /\ SecondsOf(epoch.time) \in Int
         /\ IsInstant(UnixOf(epoch.date, epoch.time))
         /\ SecondsAt(UnixOf(epoch.date, epoch.time)) = 86400 * DayNumber(epoch.date) + SecondsOf(epoch.time) - 86400 * Shift
<1>1. PICK y \in Int, m \in 1..12, d \in Int : epoch.date = <<y, m, d>>
  BY DEF IsEpoch, Dates
<1>2. PICK a \in Int, b \in Int, c \in Int : epoch.time = <<a, b, c>>
  BY DEF IsEpoch
<1>3. PICK n \in Int : n = DayNumber(<<y, m, d>>) /\ DaysOf(y, m, d) = n - Shift
  BY DaysShifted, DayNumberIs
<1>4. UnixOf(epoch.date, epoch.time) = Instant(n - Shift, a * 3600 + b * 60 + c)
  BY <1>1, <1>2, <1>3 DEF UnixOf
<1>5. SecondsOf(epoch.time) = 3600 * a + 60 * b + c
  BY <1>2 DEF SecondsOf
<1>6. DayNumber(epoch.date) = n
  BY <1>1, <1>3
<1>7. n - Shift \in Int /\ a * 3600 + b * 60 + c \in Int
  BY DaysShifted
<1>8. PICK x \in Int, u \in Int : x = n - Shift /\ u = a * 3600 + b * 60 + c
  BY <1>7
<1>9. IsInstant(Instant(x, u)) /\ SecondsAt(Instant(x, u)) = 86400 * x + u
  BY InstantIs
<1> QED BY <1>4, <1>5, <1>6, <1>8, <1>9, DaysShifted

(* The year of a date that is shown: one of the tunables, or before the    *)
(* year 0 where 0 is one.                                                  *)
YearShown(y) == y \in MinYear..MaxYear \/ (y < 0 /\ 0 \in MinYear..MaxYear)

(* The zone of an epoch is taken off and put back: what is shown is so     *)
(* many seconds after the epoch.                                           *)
LEMMA SinceEpochIs ==
  ASSUME NEW epoch, IsEpoch(epoch), NEW ticks, ticks \div Ticks \in Int
  PROVE  LET at == Later(UnixOf(epoch.date, epoch.time), ticks \div Ticks)
             v == SinceEpoch(epoch, ticks) IN
         v # Unreadable => v.date = ShownDate(at) /\ v.time = ShownTime(at) /\ YearShown(v.date[1])
<1> DEFINE q == ticks \div Ticks
           offset == IF epoch.zone = NoZone THEN 0 ELSE 60 * epoch.zone
           begin == UnixOf(epoch.date, epoch.time)
           utc == Later(begin, q - offset)
           shown == Later(utc, offset)
           v == SinceEpoch(epoch, ticks)
<1>1. v = IF OutOfRange(utc, ticks) \/ ~ValidYear(ShownDate(shown)[1]) THEN Unreadable
          ELSE Moment(ShownDate(shown), ShownTime(shown), IF epoch.zone = 0 \/ offset # 0 THEN epoch.zone ELSE NoZone)
  BY DEF SinceEpoch
<1>2. offset \in Int /\ IsInstant(begin) /\ q \in Int
  BY EpochCounted DEF IsEpoch
<1>3. SecondsAt(begin) \in Int
  BY <1>2 DEF IsInstant, SecondsAt
<1> HIDE DEF offset, begin, v, q
<1>4. IsInstant(utc) /\ SecondsAt(utc) = SecondsAt(begin) + (q - offset)
  <2>1. q - offset \in Int
    BY <1>2
  <2> QED BY <1>2, <2>1, LaterIs
<1> HIDE DEF utc
<1>5. IsInstant(shown) /\ SecondsAt(shown) = SecondsAt(utc) + offset
  BY <1>2, <1>4, LaterIs
<1> HIDE DEF shown
<1>6. IsInstant(Later(begin, q)) /\ SecondsAt(Later(begin, q)) = SecondsAt(begin) + q
  BY <1>2, LaterIs
<1>7. SecondsAt(shown) = SecondsAt(Later(begin, q))
  BY <1>2, <1>3, <1>4, <1>5, <1>6
<1>8. shown = Later(begin, q)
  BY <1>5, <1>6, <1>7, SameInstant
<1>9. v # Unreadable => v.date = ShownDate(shown) /\ v.time = ShownTime(shown) /\ ValidYear(ShownDate(shown)[1])
  BY <1>1 DEF Moment
<1>10. ValidYear(ShownDate(shown)[1]) => YearShown(ShownDate(shown)[1])
  BY DEF ValidYear, YearShown
<1> QED BY <1>8, <1>9, <1>10 DEF v, begin, q

(* The date of a tick count, if there is one: it is one of the calendar,   *)
(* its time one of the day, and together they are exactly so many seconds  *)
(* after the epoch.  Its year is one of the tunables, or before the year 0 *)
(* where the tunables allow 0: validate_calendar_year_tunables reads the   *)
(* text of such a year as 0.                                               *)
THEOREM TicksAreTrue ==
  ASSUME NEW epoch, IsEpoch(epoch), NEW ticks \in Int
  PROVE  LET v == SinceEpoch(epoch, ticks) IN
         v # Unreadable =>
           /\ TrueDate(v.date) /\ YearShown(v.date[1]) /\ TimeOfDay(v.time)
           /\ 86400 * (DayNumber(v.date) - DayNumber(epoch.date)) + SecondsOf(v.time) - SecondsOf(epoch.time)
                = ticks \div Ticks
<1> DEFINE q == ticks \div Ticks
           u == UnixOf(epoch.date, epoch.time)
           at == Later(u, q)
           v == SinceEpoch(epoch, ticks)
<1>1. q \in Int
  BY CalendarAssumption
<1>2. v # Unreadable => v.date = ShownDate(at) /\ v.time = ShownTime(at) /\ YearShown(v.date[1])
  BY <1>1, SinceEpochIs
<1> HIDE DEF q, v
<1>3. /\ DayNumber(epoch.date) \in Int /\ SecondsOf(epoch.time) \in Int /\ Shift \in Int /\ IsInstant(u)
      /\ SecondsAt(u) = 86400 * DayNumber(epoch.date) + SecondsOf(epoch.time) - 86400 * Shift
  BY EpochCounted, DaysShifted
<1> HIDE DEF u
<1>4. IsInstant(at) /\ SecondsAt(at) = SecondsAt(u) + q
  <2>1. IsInstant(u)
    BY <1>3
  <2> QED BY <1>1, <2>1, LaterIs
<1> HIDE DEF at
<1> DEFINE date == ShownDate(at)
           time == ShownTime(at)
<1>5. /\ TrueDate(date) /\ DayNumber(date) \in Int /\ TimeOfDay(time) /\ SecondsOf(time) \in Int
      /\ 86400 * DayNumber(date) + SecondsOf(time) = SecondsAt(at) + 86400 * Shift
  BY <1>4, ShownIs
<1> HIDE DEF date, time
<1>6. 86400 * (DayNumber(date) - DayNumber(epoch.date)) + SecondsOf(time) - SecondsOf(epoch.time) = q
  <2>1. PICK a \in Int, b \in Int, c \in Int, x \in Int :
          a = DayNumber(epoch.date) /\ b = SecondsOf(epoch.time) /\ c = DayNumber(date) /\ x = SecondsOf(time)
    BY <1>3, <1>5
  <2>2. 86400 * c + x = (86400 * a + b - 86400 * Shift + q) + 86400 * Shift
    BY <1>3, <1>4, <1>5, <2>1
  <2>3. Shift \in Int
    BY DaysShifted
  <2>4. 86400 * (c - a) + x - b = q
    BY <1>1, <2>2, <2>3
  <2> QED BY <2>1, <2>4
<1>7. ASSUME v # Unreadable
      PROVE  /\ TrueDate(v.date) /\ YearShown(v.date[1]) /\ TimeOfDay(v.time)
             /\ 86400 * (DayNumber(v.date) - DayNumber(epoch.date)) + SecondsOf(v.time) - SecondsOf(epoch.time) = q
  <2>1. v.date = date /\ v.time = time /\ YearShown(v.date[1])
    BY <1>2, <1>7 DEF date, time
  <2> QED BY <1>5, <1>6, <2>1
<1> QED BY <1>7 DEF q, v

(* The largest of numbers up to n.                                         *)
LEMMA MaxIs ==
  ASSUME NEW n \in Nat, NEW t \in SUBSET (1..n), t # {}
  PROVE  Max(t) \in t /\ Max(t) \in 1..n /\ \A x \in t : x <= Max(t)
<1> DEFINE gaps == {n - x : x \in t}
<1>1. gaps # {}
  OBVIOUS
<1>2. gaps \in SUBSET Nat
  <2>1. \A x \in t : n - x \in Nat
    OBVIOUS
  <2> QED BY <2>1
<1>3. PICK g \in gaps : \A x \in gaps : g <= x
  <2> HIDE DEF gaps
  <2> QED BY <1>1, <1>2, Least
<1>4. PICK x \in t : g = n - x
  OBVIOUS
<1>5. \A y \in t : x >= y
  <2> SUFFICES ASSUME NEW y \in t PROVE x >= y
    OBVIOUS
  <2>1. n - x <= n - y
    BY <1>3, <1>4
  <2>2. x \in Int /\ y \in Int
    OBVIOUS
  <2> QED BY <2>1, <2>2
<1>6. Max(t) \in t /\ \A y \in t : Max(t) >= y
  <2>1. \E z \in t : \A y \in t : z >= y
    BY <1>5
  <2> HIDE DEF gaps
  <2> QED BY <2>1, Zenon DEF Max
<1>7. \A y \in t : y \in 1..n
  OBVIOUS
<1>8. Max(t) \in 1..n
  BY <1>6, <1>7
<1>9. \A y \in t : y <= Max(t)
  <2> SUFFICES ASSUME NEW y \in t PROVE y <= Max(t)
    OBVIOUS
  <2>1. Max(t) >= y /\ Max(t) \in Int /\ y \in Int
    BY <1>6, <1>7, <1>8
  <2> QED BY <2>1
<1> QED BY <1>6, <1>8, <1>9

(* The numbers up to k and their largest.                                  *)
LEMMA MaxOfSegment ==
  ASSUME NEW k \in Nat, k > 0
  PROVE  Max(1..k) = k /\ (1..k) \ {k} = 1..(k - 1) /\ 1..k # {}
<1>1. k \in 1..k
  OBVIOUS
<1>2. Max(1..k) \in 1..k /\ k <= Max(1..k)
  <2>1. (1..k) \in SUBSET (1..k) /\ 1..k # {}
    BY <1>1
  <2> QED BY <1>1, <2>1, MaxIs
<1>3. Max(1..k) = k
  BY <1>2
<1> QED BY <1>1, <1>3

(* A function of the sets of numbers up to n: what follows from a set      *)
(* without its largest number.                                             *)
Folding(g, n, z, h) == g = [t \in SUBSET (1..n) |-> IF t = {} THEN z ELSE h[<<g[t \ {Max(t)}], Max(t)>>]]

(* There is such a function, of the type its step has.                     *)
LEMMA FoldExists ==
  ASSUME NEW S, NEW n \in Nat, NEW z \in S, NEW h \in [S \X (1..n) -> S]
  PROVE  \E g \in [SUBSET (1..n) -> S] : Folding(g, n, z, h)
<1> DEFINE Defined(g, m) == \A t \in SUBSET (1..m) : g[t] = IF t = {} THEN z ELSE h[<<g[t \ {Max(t)}], Max(t)>>]
           T == {m \in 0..n : \E g \in [SUBSET (1..n) -> S] : Defined(g, m)}
<1>1. 0 \in T
  <2> DEFINE g == [t \in SUBSET (1..n) |-> z]
  <2>1. \A t \in SUBSET (1..0) : t = {}
    OBVIOUS
  <2>2. g \in [SUBSET (1..n) -> S] /\ g[{}] = z
    OBVIOUS
  <2> HIDE DEF g
  <2>3. ASSUME NEW t \in SUBSET (1..0)
        PROVE g[t] = IF t = {} THEN z ELSE h[<<g[t \ {Max(t)}], Max(t)>>]
    <3>1. t = {}
      BY <2>1
    <3> QED BY <2>2, <3>1
  <2>4. Defined(g, 0)
    BY <2>3, Zenon
  <2>5. 0 \in 0..n
    OBVIOUS
  <2> HIDE DEF Defined
  <2> QED BY <2>2, <2>4, <2>5
<1>2. ASSUME NEW m \in 0..(n - 1), m \in T PROVE m + 1 \in T
  <2>1. PICK g \in [SUBSET (1..n) -> S] : Defined(g, m)
    BY <1>2
  <2> DEFINE top(t) == m + 1 \in t /\ t \subseteq 1..(m + 1)
             f == [t \in SUBSET (1..n) |-> IF top(t) THEN h[<<g[t \ {m + 1}], m + 1>>] ELSE g[t]]
  <2>2. m \in 0..n /\ m + 1 \in 1..n /\ m + 1 \in 0..n /\ m + 1 \in Nat
    OBVIOUS
  <2>3. f \in [SUBSET (1..n) -> S]
    <3> SUFFICES ASSUME NEW t \in SUBSET (1..n) PROVE (IF top(t) THEN h[<<g[t \ {m + 1}], m + 1>>] ELSE g[t]) \in S
      OBVIOUS
    <3>1. t \ {m + 1} \in SUBSET (1..n)
      OBVIOUS
    <3>2. g[t] \in S /\ g[t \ {m + 1}] \in S
      BY <3>1
    <3> HIDE DEF top
    <3> QED BY <2>2, <3>2
  <2>4. ASSUME NEW t \in SUBSET (1..(m + 1))
        PROVE  f[t] = IF t = {} THEN z ELSE h[<<f[t \ {Max(t)}], Max(t)>>]
    <3>1. 1..(m + 1) \subseteq 1..n
      BY <2>2
    <3>2. t \in SUBSET (1..n)
      BY <3>1
    <3>3. ASSUME NEW x PROVE t \ {x} \in SUBSET (1..n)
      BY <3>2
    <3>4. CASE m + 1 \in t
      <4>1. Max(t) = m + 1
        <5>1. Max(t) \in 1..(m + 1) /\ m + 1 <= Max(t)
          BY <2>2, <3>4, MaxIs
        <5> QED BY <2>2, <5>1
      <4>2. f[t] = h[<<g[t \ {m + 1}], m + 1>>]
        BY <3>2, <3>4
      <4>3. f[t \ {m + 1}] = g[t \ {m + 1}]
        BY <3>3
      <4> HIDE DEF f
      <4> QED BY <3>4, <4>1, <4>2, <4>3
    <3>5. CASE m + 1 \notin t
      <4>1. t \in SUBSET (1..m)
        BY <2>2, <3>5
      <4>2. f[t] = g[t] /\ f[t \ {Max(t)}] = g[t \ {Max(t)}]
        BY <3>2, <3>3, <3>5
      <4>3. g[t] = IF t = {} THEN z ELSE h[<<g[t \ {Max(t)}], Max(t)>>]
        BY <2>1, <4>1
      <4> HIDE DEF f
      <4> QED BY <4>2, <4>3
    <3> QED BY <3>4, <3>5
  <2> HIDE DEF f
  <2>5. Defined(f, m + 1)
    BY <2>4
  <2> HIDE DEF Defined
  <2> QED BY <2>2, <2>3, <2>5
<1>3. n \in T
  <2> HIDE DEF T
  <2> QED BY <1>1, <1>2, UpTo
<1>4. PICK g \in [SUBSET (1..n) -> S] : Defined(g, n)
  BY <1>3
<1>5. g = [t \in SUBSET (1..n) |-> IF t = {} THEN z ELSE h[<<g[t \ {Max(t)}], Max(t)>>]]
  <2>1. g = [t \in SUBSET (1..n) |-> g[t]]
    OBVIOUS
  <2> QED BY <1>4, <2>1
<1> QED BY <1>5 DEF Folding

(* Digits make a natural number.                                           *)
LEMMA NumberFold ==
  ASSUME NEW s \in Seq(Nat)
  PROVE  NumberOf(s) \in Nat
<1> DEFINE n == Len(s)
           h == [x \in Nat \X (1..n) |-> 10 * x[1] + s[x[2]]]
           P(g) == g = [t \in SUBSET (DOMAIN s) |-> IF t = {} THEN 0 ELSE 10 * g[t \ {Max(t)}] + s[Max(t)]]
           iter == CHOOSE g : P(g)
<1>1. NumberOf(s) = iter[DOMAIN s]
  BY DEF NumberOf, FoldLeft, MapThenFoldSet
<1>2. n \in Nat /\ DOMAIN s = 1..n /\ \A k \in 1..n : s[k] \in Nat
  BY LenProperties
<1>3. h \in [Nat \X (1..n) -> Nat]
  <2>1. \A x \in Nat \X (1..n) : 10 * x[1] + s[x[2]] \in Nat
    BY <1>2
  <2> QED BY <2>1
<1>4. \E g : P(g)
  <2>1. PICK g \in [SUBSET (1..n) -> Nat] : Folding(g, n, 0, h)
    <3> HIDE DEF n, h
    <3>1. 0 \in Nat
      OBVIOUS
    <3> QED BY <1>2, <1>3, <3>1, FoldExists
  <2>2. ASSUME NEW t \in SUBSET (1..n), t # {}
        PROVE  h[<<g[t \ {Max(t)}], Max(t)>>] = 10 * g[t \ {Max(t)}] + s[Max(t)]
    <3>1. Max(t) \in 1..n
      BY <1>2, <2>2, MaxIs
    <3>2. g[t \ {Max(t)}] \in Nat
      <4>1. t \ {Max(t)} \in SUBSET (1..n)
        OBVIOUS
      <4> QED BY <4>1
    <3> QED BY <3>1, <3>2
  <2> HIDE DEF h
  <2>3. P(g)
    BY <1>2, <2>1, <2>2 DEF Folding
  <2> QED BY <2>3
<1> HIDE DEF h
<1>5. P(iter)
  <2> HIDE DEF P
  <2> QED BY <1>4
<1> HIDE DEF iter
<1>6. iter[{}] = 0 /\ \A k \in 1..n : iter[1..k] = 10 * iter[1..(k - 1)] + s[k]
  <2>1. iter[{}] = 0
    <3>1. {} \in SUBSET (DOMAIN s)
      OBVIOUS
    <3> QED BY <1>5, <3>1
  <2>2. ASSUME NEW k \in 1..n PROVE iter[1..k] = 10 * iter[1..(k - 1)] + s[k]
    <3>1. 1..k \in SUBSET (DOMAIN s) /\ k \in Nat /\ k > 0
      BY <1>2
    <3>2. Max(1..k) = k /\ (1..k) \ {k} = 1..(k - 1) /\ 1..k # {}
      BY <3>1, MaxOfSegment
    <3>3. iter[1..k] = IF 1..k = {} THEN 0 ELSE 10 * iter[(1..k) \ {Max(1..k)}] + s[Max(1..k)]
      BY <1>5, <3>1
    <3> QED BY <3>2, <3>3
  <2> QED BY <2>1, <2>2
<1> DEFINE T == {k \in 0..n : iter[1..k] \in Nat}
<1>7. n \in T
  <2>1. 0 \in T
    <3>1. 1..0 = {}
      OBVIOUS
    <3> QED BY <1>2, <1>6, <3>1
  <2>2. ASSUME NEW k \in 0..(n - 1), k \in T PROVE k + 1 \in T
    <3>1. k + 1 \in 1..n /\ k + 1 \in 0..n /\ (k + 1) - 1 = k
      BY <1>2
    <3>2. iter[1..(k + 1)] = 10 * iter[1..k] + s[k + 1]
      BY <1>6, <3>1
    <3> QED BY <1>2, <2>2, <3>1, <3>2
  <2> HIDE DEF T, n
  <2> QED BY <1>2, <2>1, <2>2, UpTo
<1> QED BY <1>1, <1>2, <1>7

(* How many of the first numbers are of a set, up to most.                 *)
LEMMA LongestRun ==
  ASSUME NEW most \in Nat, NEW Q
  PROVE  \E k \in 0..most : (\A j \in 0..(k - 1) : j \in Q) /\ (k = most \/ k \notin Q)
<1> DEFINE ends == {k \in 0..most : k = most \/ k \notin Q}
<1>1. ends \in SUBSET Nat /\ most \in ends
  OBVIOUS
<1>2. PICK k \in ends : \A y \in ends : k <= y
  <2> HIDE DEF ends
  <2> QED BY <1>1, Least
<1>3. ASSUME NEW j \in 0..(k - 1) PROVE j \in Q
  <2>1. j \in 0..most /\ k \in Nat /\ j < k
    BY <1>2
  <2>2. j \notin ends
    BY <1>2, <2>1
  <2> QED BY <2>1, <2>2
<1> QED BY <1>2, <1>3

(* A character is one of the text or none.                                 *)
LEMMA Characters ==
  ASSUME NEW text \in Seq(Nat), NEW i \in Nat \ {0}
  PROVE  /\ Len(text) \in Nat
         /\ i <= Len(text) => AtChar(text, i) = text[i] /\ text[i] \in Nat
         /\ i > Len(text) => AtChar(text, i) = None
<1>1. Len(text) \in Nat /\ DOMAIN text = 1..Len(text) /\ \A k \in 1..Len(text) : text[k] \in Nat
  BY LenProperties
<1> QED BY <1>1 DEF AtChar

(* A character that is not none is there.                                  *)
LEMMA CharacterThere ==
  ASSUME NEW text \in Seq(Nat), NEW i \in Nat \ {0}, AtChar(text, i) # None
  PROVE  i <= Len(text) /\ AtChar(text, i) = text[i]
BY Characters

(* Past is a position of the text or the one behind it.                    *)
LEMMA PastIs ==
  ASSUME NEW text \in Seq(Nat), NEW i \in 1..(Len(text) + 1)
  PROVE  Past(text, i, {Blank}) \in i..(Len(text) + 1)
<1> DEFINE n == Len(text)
           Q == {j \in Nat : AtChar(text, i + j) \in {Blank}}
<1>1. n \in Nat /\ i \in Nat /\ 1 <= i /\ i <= n + 1
  BY Characters
<1> HIDE DEF n
<1>2. PICK k \in 0..(n + 1 - i) : (\A j \in 0..(k - 1) : j \in Q) /\ (k = n + 1 - i \/ k \notin Q)
  <2>1. n + 1 - i \in Nat
    BY <1>1
  <2> HIDE DEF Q
  <2> QED BY <2>1, LongestRun
<1>3. i + k \in i..(n + 1) /\ i + k \in Nat /\ i + k > 0 /\ k \in Nat
  BY <1>1, <1>2
<1>4. AtChar(text, i + k) \notin {Blank}
  <2>1. CASE k \notin Q
    BY <1>3, <2>1
  <2>2. CASE k = n + 1 - i
    <3>1. i + k > n
      BY <1>1, <2>2
    <3>2. AtChar(text, i + k) = None
      BY <1>3, <3>1, Characters DEF n
    <3> QED BY <3>2 DEF None, Blank
  <2> QED BY <1>2, <2>1, <2>2
<1>5. ASSUME NEW m \in i..((i + k) - 1) PROVE text[m] \in {Blank}
  <2>1. m - i \in 0..(k - 1) /\ i + (m - i) = m /\ m \in Nat /\ m > 0 /\ m <= n
    BY <1>1, <1>3
  <2>2. AtChar(text, m) \in {Blank}
    BY <1>2, <2>1
  <2>3. AtChar(text, m) = text[m]
    BY <2>1, Characters DEF n
  <2> QED BY <2>2, <2>3
<1>6. \E j \in i..(n + 1) : AtChar(text, j) \notin {Blank} /\ \A m \in i..(j - 1) : text[m] \in {Blank}
  BY <1>3, <1>4, <1>5
<1> QED BY <1>6, Zenon DEF Past, n

(* A word ends in the text or behind it.                                   *)
LEMMA WordEndIs ==
  ASSUME NEW text \in Seq(Nat), NEW i \in 1..(Len(text) + 1)
  PROVE  WordEnd(text, i) \in i..(Len(text) + 1)
<1> DEFINE n == Len(text)
           Q == {j \in Nat : AtChar(text, i + j) \notin {None, Blank, Minus, Colon, Comma}}
<1>1. n \in Nat /\ i \in Nat /\ 1 <= i /\ i <= n + 1
  BY Characters
<1> HIDE DEF n
<1>2. PICK k \in 0..(n + 1 - i) : (\A j \in 0..(k - 1) : j \in Q) /\ (k = n + 1 - i \/ k \notin Q)
  <2>1. n + 1 - i \in Nat
    BY <1>1
  <2> HIDE DEF Q
  <2> QED BY <2>1, LongestRun
<1>3. i + k \in i..(n + 1) /\ i + k \in Nat /\ i + k > 0 /\ k \in Nat
  BY <1>1, <1>2
<1>4. AtChar(text, i + k) \in {None, Blank, Minus, Colon, Comma}
  <2>1. CASE k \notin Q
    BY <1>3, <2>1
  <2>2. CASE k = n + 1 - i
    <3>1. i + k > n
      BY <1>1, <2>2
    <3>2. AtChar(text, i + k) = None
      BY <1>3, <3>1, Characters DEF n
    <3> QED BY <3>2
  <2> QED BY <1>2, <2>1, <2>2
<1>5. ASSUME NEW m \in i..((i + k) - 1) PROVE text[m] \notin {Blank, Minus, Colon, Comma}
  <2>1. m - i \in 0..(k - 1) /\ i + (m - i) = m /\ m \in Nat /\ m > 0 /\ m <= n
    BY <1>1, <1>3
  <2>2. AtChar(text, m) \notin {None, Blank, Minus, Colon, Comma}
    BY <1>2, <2>1
  <2>3. AtChar(text, m) = text[m]
    BY <2>1, Characters DEF n
  <2> QED BY <2>2, <2>3
<1>6. \E j \in i..(n + 1) : /\ AtChar(text, j) \in {None, Blank, Minus, Colon, Comma}
                            /\ \A m \in i..(j - 1) : text[m] \notin {Blank, Minus, Colon, Comma}
  BY <1>3, <1>4, <1>5
<1> QED BY <1>6, Zenon DEF WordEnd, n

(* The digits of a field of the pattern.                                   *)
LEMMA DigitsAre ==
  ASSUME NEW text \in Seq(Nat), NEW i \in 1..(Len(text) + 1), NEW most \in Nat
  PROVE  LET n == CHOOSE k \in 0..most : (\A j \in 0..(k - 1) : AtChar(text, i + j) \in Digits)
                                         /\ (k = most \/ AtChar(text, i + k) \notin Digits) IN
         n \in 0..most /\ i + n \in 1..(Len(text) + 1) /\ SubSeq(text, i, i + n - 1) \in Seq(Nat)
<1> DEFINE Q == {j \in Nat : AtChar(text, i + j) \in Digits}
           n == CHOOSE k \in 0..most : (\A j \in 0..(k - 1) : AtChar(text, i + j) \in Digits)
                                       /\ (k = most \/ AtChar(text, i + k) \notin Digits)
<1>1. Len(text) \in Nat /\ i \in Nat /\ 1 <= i /\ i <= Len(text) + 1 /\ DOMAIN text = 1..Len(text)
      /\ \A k \in 1..Len(text) : text[k] \in Nat
  BY LenProperties
<1>2. PICK k \in 0..most : (\A j \in 0..(k - 1) : j \in Q) /\ (k = most \/ k \notin Q)
  <2> HIDE DEF Q
  <2> QED BY LongestRun
<1>3. \E x \in 0..most : (\A j \in 0..(x - 1) : AtChar(text, i + j) \in Digits) /\ (x = most \/ AtChar(text, i + x) \notin Digits)
  <2>1. \A j \in 0..(k - 1) : AtChar(text, i + j) \in Digits
    BY <1>2
  <2>2. k \in Nat /\ (k = most \/ AtChar(text, i + k) \notin Digits)
    BY <1>2
  <2> QED BY <2>1, <2>2
<1>4. n \in 0..most /\ \A j \in 0..(n - 1) : AtChar(text, i + j) \in Digits
  BY <1>3, Zenon
<1> HIDE DEF n
<1>5. n \in Nat
  BY <1>4
<1>6. i + n <= Len(text) + 1
  <2>1. CASE n = 0
    BY <1>1, <2>1
  <2>2. CASE n > 0
    <3>1. n - 1 \in 0..(n - 1) /\ i + (n - 1) \in Nat \ {0}
      BY <1>1, <1>5, <2>2
    <3>2. AtChar(text, i + (n - 1)) \in Digits
      BY <1>4, <3>1
    <3>3. AtChar(text, i + (n - 1)) # None
      BY <3>2 DEF Digits, None
    <3>4. i + (n - 1) <= Len(text)
      BY <3>1, <3>3, CharacterThere
    <3> QED BY <1>1, <1>5, <3>4
  <2> QED BY <1>5, <2>1, <2>2
<1>7. SubSeq(text, i, i + n - 1) \in Seq(Nat)
  <2>1. i + n - 1 \in 0..Len(text) /\ i + n - 1 \in Int
    BY <1>1, <1>5, <1>6
  <2> QED BY <1>1, <2>1, SubSeqProperties
<1>8. i + n \in 1..(Len(text) + 1)
  BY <1>1, <1>5, <1>6
<1> QED BY <1>4, <1>7, <1>8 DEF n

(* A zone that is read ends in the text or behind it.                      *)
LEMMA OffsetIs ==
  ASSUME NEW text \in Seq(Nat), NEW i \in 1..(Len(text) + 1)
  PROVE  Offset(text, i).next \in 1..(Len(text) + 1)
<1> DEFINE n == CHOOSE k \in 0..4 : (\A j \in 1..k : AtChar(text, i + j) \in Digits)
                                    /\ (k = 4 \/ AtChar(text, i + k + 1) \notin Digits)
           colon == n = 2 /\ AtChar(text, i + 3) = Colon /\ AtChar(text, i + 4) \in Digits /\ AtChar(text, i + 5) \in Digits
           r == Offset(text, i)
<1>1. Len(text) \in Nat /\ i \in Nat /\ 1 <= i /\ i <= Len(text) + 1
  BY Characters
<1>2. n \in 0..4 /\ \A j \in 1..n : AtChar(text, i + j) \in Digits
  <2> DEFINE Q == {j \in Nat : AtChar(text, i + j + 1) \in Digits}
  <2>1. PICK k \in 0..4 : (\A j \in 0..(k - 1) : j \in Q) /\ (k = 4 \/ k \notin Q)
    <3>1. 4 \in Nat
      OBVIOUS
    <3> HIDE DEF Q
    <3> QED BY <3>1, LongestRun
  <2>2. ASSUME NEW j \in 1..k PROVE AtChar(text, i + j) \in Digits
    <3>1. j - 1 \in 0..(k - 1) /\ i + (j - 1) + 1 = i + j
      BY <1>1, <2>1
    <3> QED BY <2>1, <3>1
  <2>3. k = 4 \/ AtChar(text, i + k + 1) \notin Digits
    BY <2>1
  <2>4. \E x \in 0..4 : (\A j \in 1..x : AtChar(text, i + j) \in Digits) /\ (x = 4 \/ AtChar(text, i + x + 1) \notin Digits)
    BY <2>2, <2>3
  <2> QED BY <2>4, Zenon
<1> HIDE DEF n
<1>3. \A j \in 1..5 : AtChar(text, i + j) \in Digits => i + j <= Len(text)
  <2> SUFFICES ASSUME NEW j \in 1..5, AtChar(text, i + j) \in Digits PROVE i + j <= Len(text)
    OBVIOUS
  <2>1. i + j \in Nat \ {0} /\ AtChar(text, i + j) # None
    BY <1>1 DEF Digits, None
  <2> QED BY <2>1, CharacterThere
<1>4. \/ r.next = i
      \/ n = 1 /\ r.next = i + 1 + 1
      \/ colon /\ r.next = i + 1 + 5
      \/ n = 4 /\ r.next = i + 1 + 4
      \/ n \in {2, 3} /\ r.next = i + 1 + 2
  <2>1. r = IF AtChar(text, i) \notin {Plus, Minus} \/ n = 0 THEN [zone |-> NoZone, next |-> i]
            ELSE IF n = 1 THEN [zone |-> (IF text[i] = Minus THEN -1 ELSE 1) * (60 * text[i + 1] + 0), next |-> i + 1 + 1]
            ELSE IF colon THEN [zone |-> (IF text[i] = Minus THEN -1 ELSE 1) * (60 * (10 * text[i + 1] + text[i + 2]) + (10 * text[i + 4] + text[i + 5])), next |-> i + 1 + 5]
            ELSE IF n = 4 THEN [zone |-> (IF text[i] = Minus THEN -1 ELSE 1) * (60 * (10 * text[i + 1] + text[i + 2]) + (10 * text[i + 3] + text[i + 4])), next |-> i + 1 + 4]
            ELSE [zone |-> (IF text[i] = Minus THEN -1 ELSE 1) * (60 * (10 * text[i + 1] + text[i + 2]) + 0), next |-> i + 1 + 2]
    BY DEF Offset, n
  <2> HIDE DEF r, colon
  <2>2. n \in {0, 1, 2, 3, 4}
    BY <1>2
  <2> QED BY <2>1, <2>2
<1> SUFFICES r.next \in 1..(Len(text) + 1)
  OBVIOUS
<1> HIDE DEF r
<1>5. CASE colon
  BY <1>1, <1>3, <1>4, <1>5
<1>6. CASE ~colon /\ n \in {1, 2, 3, 4}
  <2>1. AtChar(text, i + n) \in Digits
    BY <1>2, <1>6
  <2>2. i + n <= Len(text)
    BY <1>3, <1>6, <2>1
  <2>3. n >= 2 => i + 2 <= Len(text)
    BY <1>1, <1>6, <2>2
  <2> QED BY <1>1, <1>4, <1>6, <2>2, <2>3
<1>7. CASE n = 0
  BY <1>1, <1>4, <1>7
<1> QED BY <1>2, <1>5, <1>6, <1>7

(* A zone that is read, by name or by offset, ends in the text or behind   *)
(* it.                                                                     *)
LEMMA ReadZoneIs ==
  ASSUME NEW text \in Seq(Nat), NEW i \in 1..(Len(text) + 1), NEW item, ReadZone(text, i, item).zone # NoZone
  PROVE  ReadZone(text, i, item).next \in 1..(Len(text) + 1)
<1> DEFINE p == Past(text, i, {Blank})
           gmt == AtChar(text, p) = Gmt
           next == IF gmt THEN Past(text, p + 1, {Blank}) ELSE p
           offset == Offset(text, next)
           named == /\ AtChar(text, p) \in ZoneNames
                    /\ (item.c # "V" => (item.w >= 4 \/ text[p] # 142)) /\ (item.c = "V" => item.w >= 4 /\ text[p] = 142)
           r == ReadZone(text, i, item)
<1>1. r = IF offset.zone # NoZone /\ (gmt \/ item.c # "V") THEN offset
          ELSE IF gmt /\ (next > Len(text) \/ item.c \notin {"Z", "V"}) THEN [zone |-> 0, next |-> IF next > Len(text) THEN next ELSE p + 1]
          ELSE IF item.c = "V" /\ AtChar(text, p) = Unk THEN [zone |-> 0, next |-> p + 1]
          ELSE IF item.c # "Z" /\ named THEN [zone |-> ZoneOfName(text[p]), next |-> p + 1]
          ELSE [zone |-> NoZone, next |-> 0]
  BY Zenon DEF ReadZone
<1>2. Len(text) \in Nat /\ p \in 1..(Len(text) + 1)
  <2>1. Len(text) \in Nat /\ p \in i..(Len(text) + 1)
    BY LenProperties, PastIs
  <2> QED BY <2>1
<1> HIDE DEF p
<1>3. AtChar(text, p) # None => p + 1 \in 1..(Len(text) + 1)
  <2> SUFFICES ASSUME AtChar(text, p) # None PROVE p + 1 \in 1..(Len(text) + 1)
    OBVIOUS
  <2>1. p \in Nat \ {0}
    BY <1>2
  <2>2. p <= Len(text)
    BY <2>1, CharacterThere
  <2> QED BY <1>2, <2>1, <2>2
<1>4. /\ gmt => AtChar(text, p) # None
      /\ AtChar(text, p) = Unk => AtChar(text, p) # None
      /\ named => AtChar(text, p) # None
  BY DEF Gmt, Unk, ZoneNames, None
<1>5. next \in 1..(Len(text) + 1)
  <2>1. CASE gmt
    <3>1. p + 1 \in 1..(Len(text) + 1)
      BY <1>3, <1>4, <2>1
    <3>2. Past(text, p + 1, {Blank}) \in (p + 1)..(Len(text) + 1)
      BY <3>1, PastIs
    <3> QED BY <1>2, <2>1, <3>2
  <2>2. CASE ~gmt
    BY <1>2, <2>2
  <2> QED BY <2>1, <2>2
<1> HIDE DEF next
<1>6. offset.next \in 1..(Len(text) + 1)
  BY <1>5, OffsetIs
<1> HIDE DEF offset, gmt, named, r
<1>7. r.zone # NoZone
  BY DEF r
<1>8. r.next \in 1..(Len(text) + 1)
  BY <1>1, <1>3, <1>4, <1>5, <1>6, <1>7
<1> QED BY <1>8 DEF r

(* How far a text of n characters is read: the position, the fields so far *)
(* and a zone of Z.                                                        *)
FieldNames == FieldLetters \union {"a", "G"}
Walked(n, Z) == [ok : BOOLEAN, i : 1..(n + 1), got : [FieldNames -> Int], hour : Int, zone : Z]

(* An item that is read gives its week of the month, and leaves the week   *)
(* and the era alone when it is another one.                               *)
Follows(w, x, item) ==
  x.ok => /\ w.ok
          /\ IF item.c = "W" THEN x.got["W"] \in Nat ELSE x.got["W"] = w.got["W"]
          /\ item.c # "G" => x.got["G"] = w.got["G"]

(* A field that is taken is one of those read, and the others are what     *)
(* they were.                                                              *)
LEMMA TookKeeps ==
  ASSUME NEW n \in Nat, NEW Z, NEW w \in Walked(n, Z), NEW i \in 1..(n + 1), NEW c \in FieldNames, NEW v \in Int
  PROVE  /\ Took(w, i, c, v) \in Walked(n, Z) /\ Took(w, i, c, v).ok = w.ok
         /\ \A d \in FieldNames : Took(w, i, c, v).got[d] = IF d = c THEN v ELSE w.got[d]
<1> DEFINE got == [w.got EXCEPT ![c] = v]
<1>1. w.got \in [FieldNames -> Int]
  BY DEF Walked
<1>2. got \in [FieldNames -> Int] /\ \A d \in FieldNames : got[d] = IF d = c THEN v ELSE w.got[d]
  BY <1>1
<1>3. Took(w, i, c, v) = [w EXCEPT !.i = i, !.got = got]
  BY DEF Took, Walked
<1> HIDE DEF got
<1>4. [w EXCEPT !.i = i, !.got = got] \in Walked(n, Z) /\ [w EXCEPT !.i = i, !.got = got].ok = w.ok
      /\ [w EXCEPT !.i = i, !.got = got].got = got
  BY <1>2 DEF Walked
<1> QED BY <1>2, <1>3, <1>4

(* A mismatch keeps what was read.                                         *)
LEMMA MismatchKeeps ==
  ASSUME NEW n, NEW Z, NEW w \in Walked(n, Z), NEW item
  PROVE  Mismatch(w) \in Walked(n, Z) /\ Follows(w, Mismatch(w), item)
BY DEF Mismatch, Walked, Follows

(* Moving on, with a zone or without one, takes no field.                  *)
LEMMA MovedKeeps ==
  ASSUME NEW n, NEW Z, NEW w \in Walked(n, Z), NEW i \in 1..(n + 1), NEW z \in Z, NEW item, item.c # "W"
  PROVE  /\ [w EXCEPT !.i = i] \in Walked(n, Z) /\ Follows(w, [w EXCEPT !.i = i], item)
         /\ [w EXCEPT !.i = i, !.zone = z] \in Walked(n, Z) /\ Follows(w, [w EXCEPT !.i = i, !.zone = z], item)
BY DEF Walked, Follows

(* A field that is taken is the one of its item.                           *)
LEMMA TookFollows ==
  ASSUME NEW n \in Nat, NEW Z, NEW w \in Walked(n, Z), NEW i \in 1..(n + 1), NEW item, item.c \in FieldNames,
         NEW v \in Int, item.c = "W" => v \in Nat
  PROVE  Took(w, i, item.c, v) \in Walked(n, Z) /\ Follows(w, Took(w, i, item.c, v), item)
<1>1. "W" \in FieldNames /\ "G" \in FieldNames
  BY DEF FieldNames, FieldLetters
<1> DEFINE x == Took(w, i, item.c, v)
<1>2. x \in Walked(n, Z) /\ x.ok = w.ok /\ \A d \in FieldNames : x.got[d] = IF d = item.c THEN v ELSE w.got[d]
  BY TookKeeps
<1> HIDE DEF x
<1>3. Follows(w, x, item)
  BY <1>1, <1>2 DEF Follows
<1> QED BY <1>2, <1>3 DEF x

(* read_calendar_field of digits: they make a number, of a position in the *)
(* text.                                                                   *)
LEMMA TakeDigitsKeeps ==
  ASSUME NEW text \in Seq(Nat), NEW item \in Items, item.c \in FieldLetters, NEW f, NEW Z, NEW w \in Walked(Len(text), Z)
  PROVE  TakeDigits(w, item, text, f) \in Walked(Len(text), Z) /\ Follows(w, TakeDigits(w, item, text, f), item)
<1> DEFINE most == IF item.w = 1 /\ item.c \notin {"k", "K", "S"} THEN 4 ELSE item.w
           n == CHOOSE k \in 0..most : (\A j \in 0..(k - 1) : AtChar(text, w.i + j) \in Digits)
                                       /\ (k = most \/ AtChar(text, w.i + k) \notin Digits)
           digits == SubSeq(text, w.i, w.i + n - 1)
           number == IF item.c \in {"y", "Y"} THEN Expanded(digits, f.century) ELSE NumberOf(digits)
           next == Took(w, w.i + n, item.c, number)
           x == TakeDigits(w, item, text, f)
<1>1. x = IF n = 0 \/ (item.w > 1 /\ n # item.w /\ item.c \notin HourLetters \union {"m", "s", "S", "d", "M"}) THEN Mismatch(w)
          ELSE IF item.c \in HourLetters THEN [next EXCEPT !.hour = number] ELSE next
  BY Zenon DEF TakeDigits
<1>2. most \in Nat /\ Len(text) \in Nat
  BY LenProperties DEF Items
<1>3. w.i \in 1..(Len(text) + 1)
  BY DEF Walked
<1> HIDE DEF most
<1>4. w.i + n \in 1..(Len(text) + 1) /\ digits \in Seq(Nat)
  BY <1>2, <1>3, DigitsAre
<1> HIDE DEF n, digits
<1>5. NumberOf(digits) \in Nat
  BY <1>4, NumberFold
<1>6. number \in Int /\ (item.c = "W" => number \in Nat)
  BY <1>5 DEF Expanded
<1> HIDE DEF number
<1>7. next \in Walked(Len(text), Z) /\ Follows(w, next, item)
  <2>1. item.c \in FieldNames
    BY DEF FieldNames
  <2> QED BY <1>2, <1>4, <1>6, <2>1, TookFollows
<1> HIDE DEF next
<1>8. [next EXCEPT !.hour = number] \in Walked(Len(text), Z) /\ Follows(w, [next EXCEPT !.hour = number], item)
  BY <1>6, <1>7 DEF Walked, Follows
<1>9. Mismatch(w) \in Walked(Len(text), Z) /\ Follows(w, Mismatch(w), item)
  BY MismatchKeeps
<1> HIDE DEF x
<1>10. x \in {Mismatch(w), next, [next EXCEPT !.hour = number]}
  BY <1>1
<1>11. x \in Walked(Len(text), Z) /\ Follows(w, x, item)
  BY <1>7, <1>8, <1>9, <1>10, Zenon
<1> QED BY <1>11 DEF x

(* read_calendar_field of a name: it is that of a month or of a day, or of *)
(* none.                                                                   *)
LEMMA TakeNameKeeps ==
  ASSUME NEW text \in Seq(Nat), NEW item, item.c \in {"E", "M"}, NEW Z, NEW w \in Walked(Len(text), Z)
  PROVE  TakeName(w, item, text) \in Walked(Len(text), Z) /\ Follows(w, TakeName(w, item, text), item)
<1> DEFINE i == Past(text, w.i, {Blank})
           end == WordEnd(text, i)
           c == IF end = i + 1 THEN text[i] ELSE Foreign
           names == IF item.c = "E" THEN 121..127 ELSE 101..112
           known == c \in names
           number == IF ~known THEN 0 ELSE IF item.c = "E" THEN c - 120 ELSE c - 100
           x == TakeName(w, item, text)
<1>1. x = IF end = i \/ (item.c = "M" /\ ~known) THEN Mismatch(w) ELSE Took(w, end, item.c, number)
  BY Zenon DEF TakeName
<1>2. Len(text) \in Nat /\ w.i \in 1..(Len(text) + 1)
  BY LenProperties DEF Walked
<1>3. i \in 1..(Len(text) + 1)
  <2>1. i \in w.i..(Len(text) + 1)
    BY <1>2, PastIs
  <2> HIDE DEF i
  <2> QED BY <1>2, <2>1
<1> HIDE DEF i
<1>4. end \in 1..(Len(text) + 1)
  <2>1. end \in i..(Len(text) + 1)
    BY <1>3, WordEndIs
  <2> HIDE DEF end
  <2> QED BY <1>2, <1>3, <2>1
<1> HIDE DEF end, c
<1>5. number \in Int
  BY SMT
<1> HIDE DEF number, known
<1>6. item.c \in FieldNames /\ item.c # "W"
  BY DEF FieldNames, FieldLetters
<1>7. Took(w, end, item.c, number) \in Walked(Len(text), Z) /\ Follows(w, Took(w, end, item.c, number), item)
  BY <1>2, <1>4, <1>5, <1>6, TookFollows
<1>8. Mismatch(w) \in Walked(Len(text), Z) /\ Follows(w, Mismatch(w), item)
  BY MismatchKeeps
<1> HIDE DEF x
<1>9. x \in {Mismatch(w), Took(w, end, item.c, number)}
  BY <1>1
<1>10. x \in Walked(Len(text), Z) /\ Follows(w, x, item)
  BY <1>7, <1>8, <1>9, Zenon
<1> QED BY <1>10 DEF x

(* read_calendar_field of a word: an era, or a half of the day.            *)
LEMMA TakeWordKeeps ==
  ASSUME NEW text \in Seq(Nat), NEW item, item.c \in {"G", "a"}, NEW words \in SUBSET Nat, NEW Z, NEW w \in Walked(Len(text), Z)
  PROVE  TakeWord(w, item, text, words) \in Walked(Len(text), Z) /\ Follows(w, TakeWord(w, item, text, words), item)
<1> DEFINE i == Past(text, w.i, {Blank})
           x == TakeWord(w, item, text, words)
<1>1. x = IF AtChar(text, i) \notin words THEN Mismatch(w) ELSE Took(w, i + 1, item.c, text[i])
  BY Zenon DEF TakeWord
<1>2. Len(text) \in Nat /\ w.i \in 1..(Len(text) + 1)
  BY LenProperties DEF Walked
<1>3. i \in 1..(Len(text) + 1)
  <2>1. i \in w.i..(Len(text) + 1)
    BY <1>2, PastIs
  <2> HIDE DEF i
  <2> QED BY <1>2, <2>1
<1> HIDE DEF i
<1>4. AtChar(text, i) \in words => i + 1 \in 1..(Len(text) + 1) /\ text[i] \in Int
  <2> SUFFICES ASSUME AtChar(text, i) \in words PROVE i + 1 \in 1..(Len(text) + 1) /\ text[i] \in Int
    OBVIOUS
  <2>1. i \in Nat \ {0} /\ AtChar(text, i) # None
    BY <1>2, <1>3 DEF None
  <2>2. i <= Len(text) /\ AtChar(text, i) = text[i]
    BY <2>1, CharacterThere
  <2> QED BY <1>2, <2>1, <2>2
<1>5. item.c \in FieldNames /\ item.c # "W"
  BY DEF FieldNames, FieldLetters
<1>6. AtChar(text, i) \in words => Took(w, i + 1, item.c, text[i]) \in Walked(Len(text), Z) /\ Follows(w, Took(w, i + 1, item.c, text[i]), item)
  BY <1>2, <1>4, <1>5, TookFollows
<1>7. Mismatch(w) \in Walked(Len(text), Z) /\ Follows(w, Mismatch(w), item)
  BY MismatchKeeps
<1> HIDE DEF x
<1>8. x \in Walked(Len(text), Z) /\ Follows(w, x, item)
  BY <1>1, <1>6, <1>7, Zenon
<1> QED BY <1>8 DEF x

(* Every item of a pattern keeps what was read in its type, and gives its  *)
(* own field.                                                              *)
LEMMA TakeItemKeeps ==
  ASSUME NEW text \in Seq(Nat), NEW item \in Items, item.c = "literal" => item.char # None, NEW f, NEW Z,
         NEW w \in Walked(Len(text), Z), \A i \in 1..(Len(text) + 1) : ReadZone(text, i, item).zone \in Z
  PROVE  TakeItem(w, item, text, f) \in Walked(Len(text), Z) /\ Follows(w, TakeItem(w, item, text, f), item)
<1> DEFINE x == TakeItem(w, item, text, f)
           Kept(y) == y \in Walked(Len(text), Z) /\ Follows(w, y, item)
<1>1. Len(text) \in Nat /\ w.i \in 1..(Len(text) + 1) /\ w.zone \in Z /\ w.ok \in BOOLEAN
  BY LenProperties DEF Walked
<1>2. CASE ~w.ok
  <2>1. x = w
    BY <1>2 DEF TakeItem
  <2> QED BY <1>2, <2>1 DEF Follows
<1>3. CASE w.ok /\ item.c = "literal" /\ item.char = Blank
  <2>1. x = [w EXCEPT !.i = Past(text, w.i, {Blank})]
    BY <1>3 DEF TakeItem, ZoneLetters
  <2>2. Past(text, w.i, {Blank}) \in w.i..(Len(text) + 1)
    BY <1>1, PastIs
  <2>3. Past(text, w.i, {Blank}) \in 1..(Len(text) + 1)
    BY <1>1, <2>2
  <2>4. item.c # "W"
    BY <1>3
  <2> DEFINE i == Past(text, w.i, {Blank})
  <2> HIDE DEF i, x
  <2>5. x \in Walked(Len(text), Z) /\ Follows(w, x, item)
    BY <1>1, <2>1, <2>3, <2>4, MovedKeeps DEF i
  <2> QED BY <2>5 DEF x
<1>4. CASE w.ok /\ item.c = "literal" /\ item.char # Blank
  <2>1. x = IF AtChar(text, w.i) = item.char THEN [w EXCEPT !.i = w.i + 1] ELSE Mismatch(w)
    BY <1>4 DEF TakeItem, ZoneLetters
  <2>2. AtChar(text, w.i) = item.char => w.i + 1 \in 1..(Len(text) + 1)
    <3> SUFFICES ASSUME AtChar(text, w.i) = item.char PROVE w.i + 1 \in 1..(Len(text) + 1)
      OBVIOUS
    <3>1. w.i \in Nat \ {0} /\ AtChar(text, w.i) # None
      BY <1>1, <1>4
    <3>2. w.i <= Len(text)
      BY <3>1, CharacterThere
    <3> QED BY <1>1, <3>1, <3>2
  <2>3. AtChar(text, w.i) = item.char => Kept([w EXCEPT !.i = w.i + 1])
    BY <1>1, <1>4, <2>2, MovedKeeps
  <2>4. Kept(Mismatch(w))
    BY MismatchKeeps
  <2> HIDE DEF x, Kept
  <2>5. Kept(x)
    BY <2>1, <2>3, <2>4
  <2> QED BY <2>5 DEF Kept, x
<1>5. CASE w.ok /\ item.c \in ZoneLetters
  <2> DEFINE r == ReadZone(text, w.i, item)
  <2>1. item.c # "literal" /\ item.c # "W"
    BY <1>5 DEF ZoneLetters
  <2>2. x = IF r.zone = NoZone THEN Mismatch(w) ELSE [w EXCEPT !.i = r.next, !.zone = r.zone]
    BY <1>5, <2>1 DEF TakeItem, TakeZone, ZoneLetters
  <2>3. r.zone \in Z
    BY <1>1
  <2>4. r.zone # NoZone => r.next \in 1..(Len(text) + 1)
    BY <1>1, ReadZoneIs
  <2> HIDE DEF r
  <2>5. r.zone # NoZone => Kept([w EXCEPT !.i = r.next, !.zone = r.zone])
    BY <1>1, <2>1, <2>3, <2>4, MovedKeeps
  <2>6. Kept(Mismatch(w))
    BY MismatchKeeps
  <2> HIDE DEF x, Kept
  <2>7. Kept(x)
    BY <2>2, <2>5, <2>6
  <2> QED BY <2>7 DEF Kept, x
<1>6. CASE w.ok /\ item.c = "G"
  <2>1. x = TakeWord(w, item, text, {AD, BC})
    BY <1>6 DEF TakeItem, ZoneLetters
  <2>2. {AD, BC} \in SUBSET Nat
    BY DEF AD, BC
  <2> QED BY <1>6, <2>1, <2>2, TakeWordKeeps
<1>7. CASE w.ok /\ item.c = "a"
  <2>1. x = TakeWord(w, item, text, {AM, PM})
    BY <1>7 DEF TakeItem, ZoneLetters
  <2>2. {AM, PM} \in SUBSET Nat
    BY DEF AM, PM
  <2> QED BY <1>7, <2>1, <2>2, TakeWordKeeps
<1>8. CASE w.ok /\ (item.c = "E" \/ (item.c = "M" /\ item.w >= 3))
  <2>1. x = TakeName(w, item, text)
    BY <1>8 DEF TakeItem, ZoneLetters
  <2> QED BY <1>8, <2>1, TakeNameKeeps
<1>9. CASE /\ w.ok /\ item.c \notin ZoneLetters \union {"literal", "G", "a", "E"} /\ ~(item.c = "M" /\ item.w >= 3)
  <2>1. x = TakeDigits(w, item, text, f)
    BY <1>9 DEF TakeItem
  <2>2. item.c \in FieldLetters
    BY <1>9 DEF Items
  <2> QED BY <2>1, <2>2, TakeDigitsKeeps
<1> QED BY <1>1, <1>2, <1>3, <1>4, <1>5, <1>6, <1>7, <1>8, <1>9

(* The items of a pattern, taken one after the other.                      *)
IsPattern(p) == p \in Seq(Items) /\ \A i \in DOMAIN p : p[i].c = "literal" => p[i].char # None
WalkOf(text, f) == FoldLeft(LAMBDA x, item : TakeItem(x, item, text, f), Start, f.pattern)

(* What a pattern has read of a text: every field is a number, the week of *)
(* a month that the pattern has is there, and an era that it has not is    *)
(* none.                                                                   *)
LEMMA WalkIs ==
  ASSUME NEW text \in Seq(Nat), NEW f, IsPattern(f.pattern)
  PROVE  /\ \E Z : WalkOf(text, f) \in Walked(Len(text), Z)
         /\ WalkOf(text, f).ok /\ "W" \in LettersIn(f.pattern) => WalkOf(text, f).got["W"] \in Nat
         /\ WalkOf(text, f).ok /\ "G" \notin LettersIn(f.pattern) => WalkOf(text, f).got["G"] = None
<1> DEFINE p == f.pattern
           n == Len(p)
           m == Len(text)
           Z == {NoZone} \union UNION {{ReadZone(text, i, p[k]).zone : i \in 1..(m + 1)} : k \in 1..n}
           S == Walked(m, Z)
           h == [x \in S \X (1..n) |-> TakeItem(x[1], p[x[2]], text, f)]
           P(g) == g = [t \in SUBSET (DOMAIN p) |-> IF t = {} THEN Start ELSE TakeItem(g[t \ {Max(t)}], p[Max(t)], text, f)]
           iter == CHOOSE g : P(g)
<1>1. WalkOf(text, f) = iter[DOMAIN p]
  BY DEF WalkOf, FoldLeft, MapThenFoldSet
<1>2. /\ n \in Nat /\ m \in Nat /\ DOMAIN p = 1..n
      /\ \A k \in 1..n : p[k] \in Items /\ (p[k].c = "literal" => p[k].char # None)
  BY LenProperties DEF IsPattern
<1>3. \A k \in 1..n, i \in 1..(m + 1) : ReadZone(text, i, p[k]).zone \in Z
  OBVIOUS
<1>4. Start \in S /\ Start.ok = TRUE /\ Start.got["G"] = None
  <2>1. NoZone \in Z /\ 1 \in 1..(m + 1)
    BY <1>2
  <2>2. NoFields \in [FieldNames -> Int] /\ None \in Int
    BY DEF NoFields, FieldNames, None
  <2> HIDE DEF Z
  <2>3. NoFields["G"] = None
    BY DEF NoFields
  <2> QED BY <2>1, <2>2, <2>3 DEF Start, Walked
<1> HIDE DEF Z
<1>5. ASSUME NEW x \in S, NEW k \in 1..n
      PROVE  TakeItem(x, p[k], text, f) \in S /\ Follows(x, TakeItem(x, p[k], text, f), p[k])
  <2>1. p[k] \in Items /\ (p[k].c = "literal" => p[k].char # None)
    BY <1>2
  <2>2. \A i \in 1..(Len(text) + 1) : ReadZone(text, i, p[k]).zone \in Z
    BY <1>3
  <2> HIDE DEF p
  <2> QED BY <2>1, <2>2, TakeItemKeeps
<1> HIDE DEF S
<1>6. h \in [S \X (1..n) -> S]
  <2>1. ASSUME NEW y \in S \X (1..n) PROVE TakeItem(y[1], p[y[2]], text, f) \in S
    <3>1. y[1] \in S /\ y[2] \in 1..n
      OBVIOUS
    <3> QED BY <1>5, <3>1
  <2> QED BY <2>1
<1>7. \E g : P(g)
  <2>1. PICK g \in [SUBSET (1..n) -> S] : Folding(g, n, Start, h)
    <3> HIDE DEF n, h
    <3> QED BY <1>2, <1>4, <1>6, FoldExists
  <2>2. ASSUME NEW t \in SUBSET (1..n), t # {}
        PROVE  h[<<g[t \ {Max(t)}], Max(t)>>] = TakeItem(g[t \ {Max(t)}], p[Max(t)], text, f)
    <3>1. Max(t) \in 1..n
      BY <1>2, <2>2, MaxIs
    <3>2. g[t \ {Max(t)}] \in S
      <4>1. t \ {Max(t)} \in SUBSET (1..n)
        OBVIOUS
      <4> QED BY <4>1
    <3> QED BY <3>1, <3>2
  <2> HIDE DEF h
  <2>3. P(g)
    BY <1>2, <2>1, <2>2 DEF Folding
  <2> QED BY <2>3
<1> HIDE DEF h
<1>8. P(iter)
  <2> HIDE DEF P
  <2> QED BY <1>7
<1> HIDE DEF iter
<1>9. iter[{}] = Start /\ \A k \in 1..n : iter[1..k] = TakeItem(iter[1..(k - 1)], p[k], text, f)
  <2>1. iter[{}] = Start
    <3>1. {} \in SUBSET (DOMAIN p)
      OBVIOUS
    <3> QED BY <1>8, <3>1
  <2>2. ASSUME NEW k \in 1..n PROVE iter[1..k] = TakeItem(iter[1..(k - 1)], p[k], text, f)
    <3>1. 1..k \in SUBSET (DOMAIN p) /\ k \in Nat /\ k > 0
      BY <1>2
    <3>2. Max(1..k) = k /\ (1..k) \ {k} = 1..(k - 1) /\ 1..k # {}
      BY <3>1, MaxOfSegment
    <3>3. iter[1..k] = IF 1..k = {} THEN Start ELSE TakeItem(iter[(1..k) \ {Max(1..k)}], p[Max(1..k)], text, f)
      BY <1>8, <3>1
    <3> QED BY <3>2, <3>3
  <2> QED BY <2>1, <2>2
<1> DEFINE Taken(k) == /\ iter[1..k] \in S
                       /\ iter[1..k].ok /\ (\E j \in 1..k : p[j].c = "W") => iter[1..k].got["W"] \in Nat
                       /\ iter[1..k].ok /\ (\A j \in 1..k : p[j].c # "G") => iter[1..k].got["G"] = None
           T == {k \in 0..n : Taken(k)}
<1>10. n \in T
  <2>1. 0 \in T
    <3>1. 1..0 = {}
      OBVIOUS
    <3> QED BY <1>2, <1>4, <1>9, <3>1
  <2>2. ASSUME NEW k \in 0..(n - 1), k \in T PROVE k + 1 \in T
    <3>1. k + 1 \in 1..n /\ k + 1 \in 0..n /\ (k + 1) - 1 = k /\ 1..(k + 1) = (1..k) \union {k + 1}
      BY <1>2
    <3>2. iter[1..(k + 1)] = TakeItem(iter[1..k], p[k + 1], text, f)
      BY <1>9, <3>1
    <3>3. Taken(k)
      BY <2>2
    <3>4. iter[1..(k + 1)] \in S /\ Follows(iter[1..k], iter[1..(k + 1)], p[k + 1])
      BY <1>5, <3>1, <3>2, <3>3
    <3>5. ASSUME iter[1..(k + 1)].ok, \E j \in 1..(k + 1) : p[j].c = "W" PROVE iter[1..(k + 1)].got["W"] \in Nat
      BY <3>1, <3>3, <3>4, <3>5 DEF Follows
    <3>6. ASSUME iter[1..(k + 1)].ok, \A j \in 1..(k + 1) : p[j].c # "G" PROVE iter[1..(k + 1)].got["G"] = None
      <4>1. p[k + 1].c # "G" /\ \A j \in 1..k : p[j].c # "G"
        BY <3>1, <3>6
      <4> QED BY <3>3, <3>4, <3>6, <4>1 DEF Follows
    <3>7. Taken(k + 1)
      BY <3>4, <3>5, <3>6
    <3> HIDE DEF Taken
    <3> QED BY <3>1, <3>7
  <2> HIDE DEF T, n
  <2> QED BY <1>2, <2>1, <2>2, UpTo
<1>11. Taken(n)
  BY <1>10
<1>12. /\ "W" \in LettersIn(p) => \E j \in 1..n : p[j].c = "W"
       /\ "G" \notin LettersIn(p) => \A j \in 1..n : p[j].c # "G"
  BY <1>2 DEF LettersIn
<1> QED BY <1>1, <1>2, <1>11, <1>12 DEF S

(* Bytes make a natural number, in either order.                           *)
LEMMA UnsignedFold ==
  ASSUME NEW b, NEW le, Ordered(b, le) \in Seq(Nat)
  PROVE  UnsignedOf(b, le) \in Nat
<1> DEFINE s == Ordered(b, le)
           n == Len(s)
           h == [x \in Nat \X (1..n) |-> 256 * x[1] + s[x[2]]]
           P(g) == g = [t \in SUBSET (DOMAIN s) |-> IF t = {} THEN 0 ELSE 256 * g[t \ {Max(t)}] + s[Max(t)]]
           iter == CHOOSE g : P(g)
<1>1. UnsignedOf(b, le) = iter[DOMAIN s]
  BY DEF UnsignedOf, FoldLeft, MapThenFoldSet
<1> HIDE DEF s
<1>2. n \in Nat /\ DOMAIN s = 1..n /\ \A k \in 1..n : s[k] \in Nat
  <2>1. s \in Seq(Nat)
    BY DEF s
  <2> QED BY <2>1, LenProperties
<1>3. h \in [Nat \X (1..n) -> Nat]
  <2>1. \A x \in Nat \X (1..n) : 256 * x[1] + s[x[2]] \in Nat
    BY <1>2
  <2> QED BY <2>1
<1>4. \E g : P(g)
  <2>1. PICK g \in [SUBSET (1..n) -> Nat] : Folding(g, n, 0, h)
    <3> HIDE DEF n, h
    <3>1. 0 \in Nat
      OBVIOUS
    <3> QED BY <1>2, <1>3, <3>1, FoldExists
  <2>2. ASSUME NEW t \in SUBSET (1..n), t # {}
        PROVE  h[<<g[t \ {Max(t)}], Max(t)>>] = 256 * g[t \ {Max(t)}] + s[Max(t)]
    <3>1. Max(t) \in 1..n
      BY <1>2, <2>2, MaxIs
    <3>2. g[t \ {Max(t)}] \in Nat
      <4>1. t \ {Max(t)} \in SUBSET (1..n)
        OBVIOUS
      <4> QED BY <4>1
    <3> QED BY <3>1, <3>2
  <2> HIDE DEF h
  <2>3. P(g)
    BY <1>2, <2>1, <2>2 DEF Folding
  <2> QED BY <2>3
<1> HIDE DEF h
<1>5. P(iter)
  <2> HIDE DEF P
  <2> QED BY <1>4
<1> HIDE DEF iter
<1>6. iter[{}] = 0 /\ \A k \in 1..n : iter[1..k] = 256 * iter[1..(k - 1)] + s[k]
  <2>1. iter[{}] = 0
    <3>1. {} \in SUBSET (DOMAIN s)
      OBVIOUS
    <3> QED BY <1>5, <3>1
  <2>2. ASSUME NEW k \in 1..n PROVE iter[1..k] = 256 * iter[1..(k - 1)] + s[k]
    <3>1. 1..k \in SUBSET (DOMAIN s) /\ k \in Nat /\ k > 0
      BY <1>2
    <3>2. Max(1..k) = k /\ (1..k) \ {k} = 1..(k - 1) /\ 1..k # {}
      BY <3>1, MaxOfSegment
    <3>3. iter[1..k] = IF 1..k = {} THEN 0 ELSE 256 * iter[(1..k) \ {Max(1..k)}] + s[Max(1..k)]
      BY <1>5, <3>1
    <3> QED BY <3>2, <3>3
  <2> QED BY <2>1, <2>2
<1> DEFINE T == {k \in 0..n : iter[1..k] \in Nat}
<1>7. n \in T
  <2>1. 0 \in T
    <3>1. 1..0 = {}
      OBVIOUS
    <3> QED BY <1>2, <1>6, <3>1
  <2>2. ASSUME NEW k \in 0..(n - 1), k \in T PROVE k + 1 \in T
    <3>1. k + 1 \in 1..n /\ k + 1 \in 0..n /\ (k + 1) - 1 = k
      BY <1>2
    <3>2. iter[1..(k + 1)] = 256 * iter[1..k] + s[k + 1]
      BY <1>6, <3>1
    <3> QED BY <1>2, <2>2, <3>1, <3>2
  <2> HIDE DEF T, n
  <2> QED BY <1>2, <2>1, <2>2, UpTo
<1> QED BY <1>1, <1>2, <1>7

(* What is left of a text without its blanks is a text.                    *)
LEMMA NoBlanksIs ==
  ASSUME NEW text \in Seq(Nat)
  PROVE  NoBlanks(text) \in Seq(Nat)
<1> DEFINE n == Len(text)
           P(j) == (j = 0 \/ text[j] # Blank) /\ \A k \in (j + 1)..n : text[k] = Blank
           last == CHOOSE j \in 0..n : P(j)
           from == Past(text, 1, {Blank})
           T == {t \in 0..n : P(n - t)}
           Q == {t \in Nat : t < n /\ text[n - t] = Blank}
<1>1. n \in Nat
  BY LenProperties
<1> HIDE DEF n
<1>2. \E j \in 0..n : P(j)
  <2>1. PICK t \in 0..n : (\A u \in 0..(t - 1) : u \in Q) /\ (t = n \/ t \notin Q)
    <3> HIDE DEF Q
    <3> QED BY <1>1, LongestRun
  <2>2. n - t \in 0..n /\ t \in Nat
    BY <1>1, <2>1
  <2>3. n - t = 0 \/ text[n - t] # Blank
    BY <1>1, <2>1, <2>2
  <2>4. ASSUME NEW k \in ((n - t) + 1)..n PROVE text[k] = Blank
    <3>1. n - k \in 0..(t - 1) /\ n - (n - k) = k
      BY <1>1, <2>2
    <3> QED BY <2>1, <3>1
  <2> QED BY <2>2, <2>3, <2>4
<1>3. last \in 0..n
  <2> HIDE DEF P
  <2> QED BY <1>2
<1>4. from \in 1..(n + 1)
  <2>1. 1 \in 1..(Len(text) + 1)
    BY <1>1 DEF n
  <2> QED BY <2>1, PastIs DEF n
<1>5. NoBlanks(text) = SubSeq(text, from, last)
  BY Zenon DEF NoBlanks, n
<1> HIDE DEF from, last
<1>6. SubSeq(text, from, last) \in Seq(Nat)
  <2>1. text \in [1..n -> Nat]
    BY LenProperties DEF n
  <2> QED BY <1>1, <1>3, <1>4, SubSeqProperties DEF n
<1> QED BY <1>5, <1>6

(* A lax reading leaves a date of the calendar the day it is.              *)
LEMMA LenientDateKeeps ==
  ASSUME NEW date \in Dates, TrueDate(date)
  PROVE  LET d == LenientDate(date[1], date[2], date[3]) IN TrueDate(d) /\ DayNumber(d) = DayNumber(date)
<1>1. PICK y \in Int, m \in 1..12, d \in Int : date = <<y, m, d>>
  BY DEF Dates
<1>2. y + (m - 1) \div 12 = y /\ ((m - 1) % 12) + 1 = m /\ ~(m < 1)
  OBVIOUS
<1>3. LenientDate(y, m, d) = Rolled(<<y, m, d>>)
  BY <1>2 DEF LenientDate
<1>4. <<y, m, d>> \in Dates /\ Left(<<y, m, d>>, MaxRolls)
  BY <1>1 DEF Left, TrueDate
<1>5. TrueDate(Rolled(<<y, m, d>>)) /\ DayNumber(Rolled(<<y, m, d>>)) = DayNumber(<<y, m, d>>)
  BY <1>4, RolledIs
<1>6. LenientDate(date[1], date[2], date[3]) = Rolled(date)
  BY <1>1, <1>3
<1> QED BY <1>1, <1>5, <1>6

(* A text turned round is a text.                                          *)
LEMMA ReverseIs ==
  ASSUME NEW s \in Seq(Nat)
  PROVE  Reverse(s) \in Seq(Nat)
<1>1. Len(s) \in Nat /\ \A i \in 1..Len(s) : s[i] \in Nat /\ Len(s) - i + 1 \in 1..Len(s)
  BY LenProperties
<1>2. Reverse(s) \in [1..Len(s) -> Nat]
  BY <1>1 DEF Reverse
<1> QED BY <1>1, <1>2, SeqDef

(* The number that the bytes of a tick count are.                          *)
LEMMA TicksAreNumbers ==
  ASSUME NEW kind \in DOMAIN Size, NEW b \in Seq(Nat), NEW le
  PROVE  SignExtended(UnsignedOf(b, le), Size[kind]) \in Int
<1>1. Ordered(b, le) \in Seq(Nat)
  BY ReverseIs DEF Ordered
<1>2. UnsignedOf(b, le) \in Nat
  BY <1>1, UnsignedFold
<1> DEFINE u == UnsignedOf(b, le)
           p == 256^Size[kind]
           q == 256^(Size[kind] - 1)
<1>3. p \in Nat
  BY SizeAssumption
<1>4. SignExtended(u, Size[kind]) \in {u, u - p}
  BY DEF SignExtended
<1> HIDE DEF u, p
<1>5. u - p \in Int /\ u \in Int
  BY <1>2, <1>3 DEF u
<1> QED BY <1>4, <1>5 DEF u

(* The numbers a pattern with a week and without a day of the year or an   *)
(* era has read.                                                           *)
WeekRead(got, p) ==
  /\ got \in [FieldNames -> Int] /\ got["G"] = None
  /\ "w" \in LettersIn(p) \/ "W" \in LettersIn(p)
  /\ "D" \notin LettersIn(p)
  /\ "W" \in LettersIn(p) => got["W"] \in Nat

(* The date of such fields is that of the week they name, where weekdays   *)
(* are those of the count.                                                 *)
LEMMA DateOfWeek ==
  ASSUME NEW f, f.first \in 1..7, f.firstWeek \in 1..7,
         NEW w, WeekRead(w.got, f.pattern), IsCounted(w.got, f), DateOf(w, f) # NoDate,
         NEW v, DayNumber(v.date) = DayNumber(DateOf(w, f))
  PROVE  DateOf(w, f) \in Dates /\ TrueDate(DateOf(w, f)) /\ InWeek(w.got, v, f)
<1> DEFINE p == LettersIn(f.pattern)
           given == IF w.got["y"] # None THEN w.got["y"] ELSE w.got["Y"]
           year == Or(given, 1970)
           d == DateOf(w, f)
<1>1. \A c \in {"y", "Y", "M", "w", "W", "G"} : w.got[c] \in Int
  BY DEF WeekRead, FieldNames, FieldLetters
<1>2. year \in Int
  BY <1>1 DEF Or
<1>9. year > 0 \/ ("w" \notin p /\ year = 0 /\ w.got["M"] > 2)
  BY DEF IsCounted, Says
<1>3. w.got["G"] = None /\ "D" \notin p /\ ("w" \in p \/ "W" \in p) /\ ("W" \in p => w.got["W"] \in Nat)
  BY DEF WeekRead
<1>4. CASE "w" \in p
  <2>1. d = OfWeek(year, w.got["w"], f.first, f.firstWeek)
    BY <1>3, <1>4 DEF DateOf
  <2> DEFINE day == WeekStart(DayNumber(<<year, 1, f.firstWeek>>), f.first) + 7 * (w.got["w"] - 1)
  <2>2. d \in Dates /\ TrueDate(d) /\ DayNumber(d) = day
    <3> HIDE DEF year, d
    <3>1. PICK y \in Nat \ {0}, week \in Int : y = year /\ week = w.got["w"]
      BY <1>1, <1>2, <1>9, <1>4
    <3>2. /\ d = OfWeek(y, week, f.first, f.firstWeek) /\ d # NoDate
          /\ day = WeekStart(DayNumber(<<y, 1, f.firstWeek>>), f.first) + 7 * (week - 1)
      BY <2>1, <3>1 DEF d
    <3> HIDE DEF day
    <3> QED BY <3>2, WeekOfYearIsTrue
  <2>3. InWeek(w.got, v, f) <=> DayNumber(v.date) = day
    BY <1>4 DEF InWeek, Says
  <2> QED BY <2>2, <2>3
<1>5. CASE "w" \notin p
  <2>1. "W" \in p /\ w.got["W"] # None
    BY <1>3, <1>5 DEF None
  <2>2. d = IF "M" \notin p THEN NoDate ELSE OfMonthWeek(year, w.got["M"], w.got["W"], f.first, f.firstWeek)
    <3>1. w.got["G"] # BC
      BY <1>3 DEF None, BC
    <3> QED BY <1>3, <1>5, <2>1, <3>1 DEF DateOf
  <2>3. d = OfMonthWeek(year, w.got["M"], w.got["W"], f.first, f.firstWeek)
    BY <2>2
  <2>4. w.got["M"] \in 1..12
    BY <2>3 DEF OfMonthWeek
  <2> DEFINE day == WeekStart(DayNumber(<<year, w.got["M"], f.firstWeek>>), f.first) + 7 * (w.got["W"] - 1)
  <2>5. d \in Dates /\ TrueDate(d) /\ DayNumber(d) = day
    <3> HIDE DEF year, d
    <3>1. PICK y \in Int, m \in 1..12, week \in Int : y = year /\ m = w.got["M"] /\ week = w.got["W"]
      BY <1>1, <1>2, <2>4
    <3>3. YearOf(y, m) >= 0
      BY <1>9, <3>1 DEF YearOf
    <3>2. /\ d = OfMonthWeek(y, m, week, f.first, f.firstWeek) /\ d # NoDate
          /\ day = WeekStart(DayNumber(<<y, m, f.firstWeek>>), f.first) + 7 * (week - 1)
      BY <2>3, <3>1 DEF d
    <3> HIDE DEF day
    <3> QED BY <3>2, <3>3, WeekOfMonthIsTrue
  <2>6. InWeek(w.got, v, f) <=> DayNumber(v.date) = day
    BY <1>5 DEF InWeek, Says
  <2> QED BY <2>5, <2>6
<1> QED BY <1>4, <1>5

(* What a reading of a week gives has the date of it, or the same day.     *)
LEMMA TogetherIs ==
  ASSUME NEW f, f.lax \in BOOLEAN, f.lax => f.kind # "dateTime",
         "w" \in LettersIn(f.pattern) \/ "W" \in LettersIn(f.pattern),
         NEW w, NEW d, NEW t, NEW text, Together(w, d, t, text, f) # Unreadable
  PROVE  /\ w.ok /\ d # NoDate
         /\ Together(w, d, t, text, f).date = IF f.lax THEN LenientDate(d[1], d[2], d[3]) ELSE d
         /\ \E time, zone : Together(w, d, t, text, f) = Moment(IF f.lax THEN LenientDate(d[1], d[2], d[3]) ELSE d, time, zone)
<1> DEFINE has(c) == c \in LettersIn(f.pattern)
           timed == \E c \in HourLetters \union {"m", "s"} : has(c)
           dated == \E c \in DateLetters \ {"e", "G"} : has(c)
           lenient == LenientTime(t[1], t[2], t[3])
           time == IF f.lax THEN lenient.time ELSE t
           more == IF f.lax /\ f.kind = "dateTime" /\ timed THEN lenient.days ELSE 0
           day == IF f.lax THEN LenientDate(d[1], d[2], d[3]) ELSE d
           v == Together(w, d, t, text, f)
<1>1. v = IF ~w.ok \/ Past(text, w.i, {Blank}) <= Len(text) \/ t[1] < 0 \/ (has("h") /\ w.hour = None) THEN Unreadable
          ELSE IF timed /\ ~dated THEN Moment(NoDate, time, w.zone)
          ELSE IF d = NoDate \/ (timed /\ w.hour = None /\ ~has("k") /\ ~has("K")) THEN Unreadable
          ELSE IF timed THEN Moment(IF more = 0 THEN day ELSE LenientDate(day[1], day[2], day[3] + more), time, w.zone)
          ELSE Moment(day, IF f.kind = "dateTime" /\ has("W") THEN <<0, 0, 0>> ELSE NoTime, NoZone)
  BY Zenon DEF Together
<1>2. dated
  BY DEF DateLetters
<1>3. more = 0
  OBVIOUS
<1>4. v # Unreadable
  OBVIOUS
<1> HIDE DEF dated, more, v, timed, day, time
<1>5. /\ w.ok /\ d # NoDate
      /\ v \in {Moment(day, time, w.zone), Moment(day, IF f.kind = "dateTime" /\ has("W") THEN <<0, 0, 0>> ELSE NoTime, NoZone)}
  BY <1>1, <1>2, <1>3, <1>4
<1>6. \E a, b : v = Moment(day, a, b)
  BY <1>5
<1>7. v.date = day
  BY <1>6 DEF Moment
<1> QED BY <1>5, <1>6, <1>7 DEF day, v

(* The zone of the property leaves the date alone.                         *)
LEMMA InZoneIs ==
  ASSUME NEW f, NEW utc, NEW v, InZone(v, f, utc) # Unreadable,
         v # Unreadable => \E date, time, zone : v = Moment(date, time, zone)
  PROVE  v # Unreadable /\ InZone(v, f, utc).date = v.date
<1>1. v # Unreadable
  <2>1. v = Unreadable => InZone(v, f, utc) = Unreadable
    BY DEF InZone
  <2> QED BY <2>1
<1>2. PICK date, time, zone : v = Moment(date, time, zone)
  BY <1>1
<1>3. \A z : [v EXCEPT !.zone = z].date = v.date
  BY <1>2 DEF Moment
<1>4. InZone(v, f, utc) = v \/ \E z : InZone(v, f, utc) = [v EXCEPT !.zone = z]
  BY <1>1 DEF InZone
<1> QED BY <1>1, <1>3, <1>4

(* The date of a tick count, read from its bytes.                          *)
LEMMA TicksRead ==
  ASSUME NEW f, IsCalendarField(f), f.rep \in {"seconds", "millis"}, NEW b \in Seq(Nat), Len(b) = Size[f.rep],
         NEW v, v = ReadCalendar(b, f).value, v # Unreadable
  PROVE  LET n == SignExtended(UnsignedOf(b, f.le), Size[f.rep]) IN
         86400 * (DayNumber(v.date) - DayNumber(f.epoch.date)) + SecondsOf(v.time) - SecondsOf(f.epoch.time)
           = IF f.rep = "millis" THEN n \div Ticks ELSE n
<1> DEFINE n == SignExtended(UnsignedOf(b, f.le), Size[f.rep])
           ticks == IF f.rep = "millis" THEN n ELSE Ticks * n
<1>1. IsEpoch(f.epoch)
  BY DEF IsEpoch, IsCalendarField, Dates
<1>2. n \in Int /\ Ticks \in Nat \ {0}
  <2>1. f.rep \in DOMAIN Size
    BY CalendarAssumption
  <2> QED BY <2>1, TicksAreNumbers, CalendarAssumption
<1>3. v = SinceEpoch(f.epoch, ticks)
  <2>1. v = FromTicks(b, f)
    BY DEF ReadCalendar
  <2>2. ~(Len(b) < Size[f.rep])
    <3>1. Len(b) \in Nat
      BY LenProperties
    <3> QED BY <3>1
  <2> QED BY <2>1, <2>2 DEF FromTicks
<1> HIDE DEF n
<1>4. ticks \in Int /\ ticks \div Ticks = IF f.rep = "millis" THEN n \div Ticks ELSE n
  BY <1>2
<1> HIDE DEF ticks
<1>5. 86400 * (DayNumber(v.date) - DayNumber(f.epoch.date)) + SecondsOf(v.time) - SecondsOf(f.epoch.time) = ticks \div Ticks
  BY <1>1, <1>3, <1>4, TicksAreTrue
<1> QED BY <1>4, <1>5 DEF n

(* The date of a week, read from a text.                                   *)
LEMMA WeekIsRead ==
  ASSUME NEW f, IsCalendarField(f), f.rep = "text", ~f.implicit, Says(f.pattern, "w") \/ Says(f.pattern, "W"),
         ~Says(f.pattern, "D"), ~Says(f.pattern, "G"), f.lax => f.kind # "dateTime",
         NEW b \in Seq(Nat), \E i \in DOMAIN b : b[i] \notin Digits, IsCounted(Gotten(NoBlanks(b), f), f),
         NEW v, v = ReadCalendar(b, f).value, v # Unreadable
  PROVE  InWeek(Gotten(NoBlanks(b), f), v, f)
<1> DEFINE text == NoBlanks(b)
           w == WalkOf(text, f)
           d == DateOf(w, f)
           u == PatternMoment(b, f)
           t == <<HourOf(w, f.pattern), Or(w.got["m"], 0), Or(w.got["s"], 0)>>
           day == IF f.lax THEN LenientDate(d[1], d[2], d[3]) ELSE d
<1>1. IsPattern(f.pattern) /\ f.first \in 1..7 /\ f.firstWeek \in 1..7 /\ f.lax \in BOOLEAN
  BY DEF IsCalendarField, IsPattern
<1>2. "w" \in LettersIn(f.pattern) \/ "W" \in LettersIn(f.pattern)
  BY DEF Says
<1>3. v = InZone(u, f, ~f.implicit /\ f.kind = "dateTime")
  <2>1. f.pattern # <<>>
    BY <1>2 DEF LettersIn
  <2> QED BY <2>1 DEF ReadCalendar
<1>4. u = Together(w, d, t, text, f)
  BY Zenon DEF PatternMoment, Blankless, Gathered, WalkOf
<1>5. w.got = Gotten(text, f)
  BY Zenon DEF WalkOf, Gotten
<1>6. text \in Seq(Nat) /\ IsCounted(w.got, f)
  BY <1>5, NoBlanksIs
<1> HIDE DEF text, d, w, t, u
<1>7. u # Unreadable => w.ok /\ d # NoDate /\ u.date = day /\ \E time, zone : u = Moment(day, time, zone)
  BY <1>1, <1>2, <1>4, TogetherIs
<1> HIDE DEF day
<1>8. u # Unreadable /\ v.date = u.date
  <2>1. InZone(u, f, ~f.implicit /\ f.kind = "dateTime") # Unreadable
    BY <1>3
  <2>2. u # Unreadable => \E date, time, zone : u = Moment(date, time, zone)
    BY <1>7
  <2> QED BY <1>3, <2>1, <2>2, InZoneIs
<1>9. WeekRead(w.got, f.pattern)
  <2>1. \E Z : w \in Walked(Len(text), Z)
    BY <1>1, <1>6, WalkIs DEF w
  <2>2. w.ok /\ "W" \in LettersIn(f.pattern) => w.got["W"] \in Nat
    BY <1>1, <1>6, WalkIs DEF w
  <2>3. w.ok /\ "G" \notin LettersIn(f.pattern) => w.got["G"] = None
    BY <1>1, <1>6, WalkIs DEF w
  <2>4. w.got \in [FieldNames -> Int]
    BY <2>1 DEF Walked
  <2> QED BY <1>2, <1>7, <1>8, <2>2, <2>3, <2>4 DEF WeekRead, Says
<1>10. d \in Dates /\ TrueDate(d) /\ \A x : DayNumber(x.date) = DayNumber(d) => InWeek(w.got, x, f)
  <2>1. DateOf(w, f) # NoDate
    BY <1>7, <1>8 DEF d
  <2>2. \A x : DayNumber(x.date) = DayNumber(DateOf(w, f)) =>
               DateOf(w, f) \in Dates /\ TrueDate(DateOf(w, f)) /\ InWeek(w.got, x, f)
    BY <1>1, <1>6, <1>9, <2>1, DateOfWeek
  <2>3. \E x : x.date = d
    <3>1. [date |-> d].date = d
      OBVIOUS
    <3> QED BY <3>1
  <2> QED BY <2>2, <2>3 DEF d
<1>11. DayNumber(day) = DayNumber(d)
  <2>1. f.lax => DayNumber(LenientDate(d[1], d[2], d[3])) = DayNumber(d)
    BY <1>10, LenientDateKeeps
  <2> QED BY <1>1, <2>1 DEF day
<1>12. DayNumber(v.date) = DayNumber(d)
  BY <1>7, <1>8, <1>11
<1> QED BY <1>5, <1>10, <1>12 DEF text

(* The encoder writes no week and no count of ticks.                       *)
LEMMA NoWeekWritten ==
  ASSUME NEW f, NEW v, WriteCalendar(v, f) # Refused
  PROVE  f.rep = "text" /\ ~Says(f.pattern, "w") /\ ~Says(f.pattern, "W")
<1> DEFINE timed == TimeOnly(f.pattern) \/ f.kind = "time"
           allowed == IF timed THEN HourLetters \union ZoneLetters \union {"m", "s", "S", "literal"}
                      ELSE {"E", "M", "d", "y", "Y", "literal"}
<1>1. f.rep = "text" /\ (f.pattern = <<>> \/ LettersIn(f.pattern) \subseteq allowed)
  BY DEF WriteCalendar
<1>2. "w" \notin allowed /\ "W" \notin allowed
  BY DEF HourLetters, ZoneLetters
<1>3. f.pattern = <<>> => LettersIn(f.pattern) = {}
  BY DEF LettersIn
<1> HIDE DEF allowed
<1> QED BY <1>1, <1>2, <1>3 DEF Says

(* A wire comes from the encoder or from elsewhere, and what is known of a *)
(* field is what the decoder reads from its wire.                          *)
WireIsKnown ==
  /\ field \in Fields
  /\ \/ wire = Refused
     \/ \E w \in Inputs(field) : wire = Raw(w)
     \/ \E v : wire = Written(v, field)
  /\ phase = "known" => wire # Refused /\ read = ReadOf(wire, field)

(* Every step keeps what is known of the wire.                             *)
LEMMA WireKnown == Spec => []WireIsKnown
<1>1. Init => WireIsKnown
  BY DEF Init, WireIsKnown
<1>2. WireIsKnown /\ [Next]_vars => WireIsKnown'
  <2> SUFFICES ASSUME WireIsKnown, [Next]_vars PROVE WireIsKnown'
    OBVIOUS
  <2>1. CASE Write
    BY <2>1 DEF WireIsKnown, Write
  <2>2. CASE Receive
    BY <2>2 DEF WireIsKnown, Receive
  <2>3. CASE Read
    BY <2>3 DEF WireIsKnown, Read
  <2>4. CASE Rewrite
    BY <2>4 DEF WireIsKnown, Rewrite
  <2>5. CASE UNCHANGED vars
    BY <2>5 DEF WireIsKnown, vars
  <2> QED BY <2>1, <2>2, <2>3, <2>4, <2>5 DEF Next
<1> QED BY <1>1, <1>2, PTL DEF Spec

(* Every date read of a count of ticks of full width is as many seconds    *)
(* from the epoch as the count says, and every date read of a week in a    *)
(* text is in the week its year or month has, if IsWeek says that the text *)
(* names one and that weekdays are those of the count there.               *)
THEOREM DatesAreTrue == Spec => []DatesTrue
<1>1. WireIsKnown => DatesTrue
  <2> SUFFICES ASSUME WireIsKnown, phase = "known", field.of = "calendar", read.value # Refused
               PROVE  LET f == field.f IN
                      /\ f.rep \in {"seconds", "millis"} /\ Len(wire.b) = Size[f.rep] => TicksTrue(read.value, f)
                      /\ IsWeek(f) => WeeksTrue(read.value, f)
    BY DEF DatesTrue
  <2> DEFINE f == field.f
             b == wire.b
             v == read.value
  <2>1. IsCalendarField(f)
    BY FieldsAssumption DEF WireIsKnown
  <2>2. read = ReadCalendar(b, f) /\ v = ReadCalendar(b, f).value /\ v # Unreadable
    BY DEF WireIsKnown, ReadOf, Refused, Unreadable
  <2>3. CASE \E w \in Inputs(field) : wire = Raw(w)
    <3>1. b \in Seq(Nat)
      BY <2>3, InputsAssumption DEF WireIsKnown, Raw
    <3> HIDE DEF b, f, v
    <3>2. f.rep \in {"seconds", "millis"} /\ Len(b) = Size[f.rep] => TicksTrue(v, f)
      BY <2>1, <2>2, <3>1, TicksRead DEF TicksTrue, b
    <3>3. IsWeek(f) => WeeksTrue(v, f)
      <4> SUFFICES ASSUME IsWeek(f) PROVE WeeksTrue(v, f)
        OBVIOUS
      <4>1. /\ f.rep = "text" /\ ~f.implicit /\ (Says(f.pattern, "w") \/ Says(f.pattern, "W"))
            /\ ~Says(f.pattern, "D") /\ ~Says(f.pattern, "G") /\ (f.lax => f.kind # "dateTime")
            /\ (\E i \in DOMAIN b : b[i] \notin Digits) /\ IsCounted(Gotten(NoBlanks(b), f), f)
        BY DEF IsWeek, b
      <4>2. InWeek(Gotten(NoBlanks(b), f), v, f)
        BY <2>1, <2>2, <3>1, <4>1, WeekIsRead
      <4> QED BY <4>2 DEF WeeksTrue, b
    <3> QED BY <3>2, <3>3 DEF b, f, v
  <2>4. CASE \E w : wire = Written(w, field)
    <3>1. \E w : WriteCalendar(w, f) # Refused
      BY <2>4 DEF WireIsKnown, Written
    <3>2. f.rep = "text" /\ ~Says(f.pattern, "w") /\ ~Says(f.pattern, "W")
      BY <3>1, NoWeekWritten
    <3> QED BY <3>2 DEF IsWeek
  <2> QED BY <2>3, <2>4 DEF WireIsKnown
<1> QED BY <1>1, WireKnown, PTL
=============================================================================
