------------------------------ MODULE MCValues ------------------------------
(***************************************************************************)
(* Fields, values and wires for Values.                                    *)
(***************************************************************************)
EXTENDS Values

(* 2 November of the year before 0 and 1 May 2024, in days from 1970.      *)
MCFirstDay == -719588
MCLastDay == 19844

MCSize ==
  [ubyte |-> 1, ushort |-> 2, uint |-> 3, byte |-> 1, short |-> 2, int |-> 3, long |-> 3, boolean |-> 2,
   seconds |-> 3, millis |-> 2]

Bin(kind, rep) ==
  [of |-> "binary",
   f |-> [kind |-> kind, rep |-> rep, length |-> "implicit", len |-> 2, prefix |-> 1, prefixBcd |-> FALSE,
          includes |-> FALSE, le |-> FALSE, vp |-> 0, signed |-> TRUE, policy |-> "strict",
          codes |-> <<12, 13, 15, 12>>, trueEmpty |-> FALSE, trueRep |-> 1, falseRep |-> 0, fill |-> 0]]

Ordered2(fields) == fields \union {[x EXCEPT !.f.le = TRUE] : x \in fields}

Implicits == {Bin(k, "binary") : k \in {"ubyte", "ushort", "byte", "short", "int"}}
Explicits == {[Bin(k, "binary") EXCEPT !.f.length = "explicit", !.f.len = n] :
                k \in {"ushort", "short", "int", "long"}, n \in {1, 2, 3}}
Prefixed == {[Bin(k, r) EXCEPT !.f.length = "prefixed", !.f.prefix = n, !.f.includes = i, !.f.prefixBcd = d] :
               k \in {"ushort", "short", "int"}, r \in {"binary", "bcd", "packed", "ibm"}, n \in {1, 2},
               i \in BOOLEAN, d \in BOOLEAN}
Packs == {[Bin(k, r) EXCEPT !.f.length = "delimited"] : k \in {"ushort", "short", "int"}, r \in {"bcd", "packed", "ibm"}}
Decimals == {[Bin("decimal", r) EXCEPT !.f.length = l, !.f.vp = v] :
               r \in {"binary", "bcd", "packed", "ibm"}, l \in {"prefixed", "delimited", "explicit"}, v \in {0, 2}}
Booleans == {[Bin("boolean", "binary") EXCEPT !.f.length = l, !.f.trueEmpty = e, !.f.falseRep = r] :
               l \in {"implicit", "explicit", "prefixed"}, e \in BOOLEAN, r \in {0, 2}}
Strings == {[Bin(k, "binary") EXCEPT !.f.length = l] : k \in {"hex", "blob"}, l \in {"explicit", "prefixed", "delimited"}}

Binaries == Ordered2(Implicits \union Explicits \union Prefixed \union Packs \union Decimals) \union Booleans \union Strings

NoNeg == [t |-> "none", prefix |-> <<>>, suffix |-> <<>>]
Whole0 ==
  [prefix |-> <<>>, suffix |-> <<>>, runs |-> <<[min |-> 1, max |-> 1]>>, point |-> FALSE,
   frac |-> [min |-> 0, max |-> 0], exp |-> [on |-> FALSE, min |-> 1, plus |-> FALSE], neg |-> NoNeg,
   v |-> [on |-> FALSE, before |-> 0, behind |-> 0], p |-> [left |-> 0, right |-> 0], sign |-> "end"]
Frac(p, min, max) == [p EXCEPT !.point = TRUE, !.frac = [min |-> min, max |-> max]]
Grouping(p, n) == [p EXCEPT !.runs = [i \in 1..n |-> IF i < n THEN [min |-> 0, max |-> 1] ELSE [min |-> 1, max |-> 3]]]
Lit(c, q) == [c |-> c, quoted |-> q]

Tex(kind, p) ==
  [of |-> "text",
   f |-> [kind |-> kind, rep |-> "standard", base |-> 10, style |-> "standard", length |-> "delimited", len |-> 4,
          lax |-> FALSE, cuts |-> FALSE, mode |-> "halfEven", increment |-> Decimal(FALSE, 0, 0), trim |-> "none",
          justify |-> "right", pad |-> None, point |-> Dot, group |-> Comma, exponent |-> Exponent, zeros |-> <<>>,
          trueReps |-> <<>>, falseReps |-> <<>>, pattern |-> p]]

Laxer(fields) == fields \union {[x EXCEPT !.f.lax = TRUE] : x \in fields}

Patterns ==
  {Whole0, Frac(Whole0, 1, 2), Frac(Whole0, 0, 1), Grouping(Whole0, 2), Frac(Grouping(Whole0, 2), 0, 2),
   [Whole0 EXCEPT !.prefix = <<Lit(Dollar, FALSE)>>], [Whole0 EXCEPT !.suffix = <<Lit(Star, TRUE)>>],
   [Whole0 EXCEPT !.runs = <<[min |-> 3, max |-> 3]>>],
   [Whole0 EXCEPT !.neg = [t |-> "affixes", prefix |-> <<Minus>>, suffix |-> <<>>]],
   [Whole0 EXCEPT !.neg = [t |-> "affixes", prefix |-> <<Star>>, suffix |-> <<Dollar>>]],
   [Whole0 EXCEPT !.neg = [t |-> "empty", prefix |-> <<>>, suffix |-> <<>>]],
   [Frac(Whole0, 0, 2) EXCEPT !.exp = [on |-> TRUE, min |-> 1, plus |-> FALSE]],
   [Whole0 EXCEPT !.exp = [on |-> TRUE, min |-> 2, plus |-> TRUE]],
   [Whole0 EXCEPT !.v = [on |-> TRUE, before |-> 3, behind |-> 1]],
   [Whole0 EXCEPT !.p = [left |-> 1, right |-> 0]]}

Plains == Laxer({Tex(k, p) : k \in {"int", "integer", "decimal"}, p \in Patterns})
Padded2 == {[Tex(k, Whole0) EXCEPT !.f.length = "explicit", !.f.trim = t, !.f.justify = j, !.f.pad = c, !.f.cuts = x] :
             k \in {"int", "decimal"}, t \in {"none", "pad", "both"}, j \in {"left", "right", "center"},
             c \in {0, Blank, Star}, x \in BOOLEAN}
Modes == {[Tex("decimal", Frac(Whole0, 0, 1)) EXCEPT !.f.mode = m, !.f.increment = i] :
           m \in {"unnecessary", "up", "down", "ceiling", "floor", "halfUp", "halfDown", "halfEven"},
           i \in {Decimal(FALSE, 0, 0), Decimal(FALSE, 5, 1), Decimal(FALSE, 2, 0)}}
Steps == {[Tex("decimal", Frac(Whole0, n, 2)) EXCEPT !.f.mode = m, !.f.increment = i] :
           n \in {1, 2}, m \in {"up", "down", "ceiling", "floor", "halfUp", "halfDown", "halfEven"},
           i \in {Decimal(FALSE, 2, 2), Decimal(FALSE, 25, 2), Decimal(FALSE, 5, 2)}}
Separated == {[Tex(k, p) EXCEPT !.f.point = d, !.f.group = g] :
               k \in {"int", "decimal"}, p \in {Frac(Grouping(Whole0, 2), 0, 1), Frac(Whole0, 0, 1), Grouping(Whole0, 2)},
               d \in {Dot, Comma}, g \in {None, Comma, Dot, Star}}
Radixes == {[Tex(k, Whole0) EXCEPT !.f.base = b] : k \in {"int", "uint"}, b \in {2, 16}}
Zoned == {[Tex(k, [Whole0 EXCEPT !.sign = e]) EXCEPT !.f.rep = "zoned", !.f.style = s] :
           k \in {"int", "decimal"}, e \in {"start", "end"}, s \in {"standard", "EBCDIC"}}
Implied == {[Tex(k, p) EXCEPT !.f.length = "implicit"] : k \in {"int", "decimal"}, p \in Patterns}
Zeros == {[Tex("int", Whole0) EXCEPT !.f.zeros = z] : z \in {<<<<Star>>>>, <<<<0, 0>>, <<Star>>>>}}
Truths == {[Tex("boolean", Whole0) EXCEPT !.f.trueReps = t, !.f.falseReps = e, !.f.length = l, !.f.trim = m, !.f.pad = Blank, !.f.len = 2] :
            t \in {<<<<1>>>>, <<<<Dollar, 1>>, <<1>>>>}, e \in {<<<<0>>>>, <<<<Dollar>>>>, <<<<Star, 0>>>>},
            l \in {"delimited", "explicit"}, m \in {"none", "both"}}

Writings == Plains \union Padded2 \union Modes \union Steps \union Separated \union Radixes \union Zoned \union Implied \union Zeros \union Truths

(* Calendars, each with the wires it reads.                                *)
I(c, n) == [c |-> c, w |-> n, char |-> None]
L(char) == [c |-> "literal", w |-> 1, char |-> char]
Ymd == <<I("y", 4), L(Minus), I("M", 2), L(Minus), I("d", 2)>>
Hms == <<I("H", 2), L(Colon), I("m", 2), L(Colon), I("s", 2)>>
Twelve == <<I("h", 2), L(Colon), I("m", 2), L(Blank), I("a", 1)>>

Cal(kind, pattern) ==
  [of |-> "calendar",
   f |-> [kind |-> kind, rep |-> "text", lax |-> FALSE, implicit |-> FALSE, le |-> FALSE, first |-> 1, firstWeek |-> 4,
          century |-> 53, zone |-> NoZone, policy |-> "strict", codes |-> <<12, 13, 15, 12>>,
          epoch |-> Moment(<<1970, 1, 1>>, <<0, 0, 0>>, 0), pattern |-> pattern, foreign |-> FALSE, shared |-> {4}]]
Case(fields, wires) == {[x |-> x, wires |-> wires] : x \in fields}
Either(fields) == fields \union {[x EXCEPT !.f.lax = TRUE] : x \in fields}

Epochs == {Moment(<<1970, 1, 1>>, <<0, 0, 0>>, 0), Moment(<<2000, 2, 29>>, <<12, 30, 30>>, -300),
           Moment(<<1999, 12, 31>>, <<23, 59, 59>>, NoZone), Moment(<<2024, 3, 1>>, <<0, 0, 0>>, 330),
           Moment(<<0, 1, 10>>, <<12, 0, 0>>, 60)}
Edges == {0, 1, 127, 128, 255}
Seconds == Case({[Cal("dateTime", <<>>) EXCEPT !.f.rep = "seconds", !.f.epoch = e, !.f.le = l] : e \in Epochs, l \in BOOLEAN},
                {<<a, b, c>> : a, b, c \in Edges} \union {<<1>>})
Millis == Case({[Cal("dateTime", <<>>) EXCEPT !.f.rep = "millis", !.f.epoch = e] : e \in Epochs},
               {<<a, b>> : a, b \in Edges} \union {<<a>> : a \in Edges})

TwoBcd(a, b) == <<16 * (a \div 10) + (a % 10), 16 * (b \div 10) + (b % 10)>>
PackedDates == {<<25, 153>> \o TwoBcd(m, d) : m \in {0, 2, 12, 13}, d \in {0, 28, 29, 31}} \union {<<32>> \o TwoBcd(0, 22) \o <<156>>, <<2, 2, 9, 18>>}
Packeds == Case({[Cal("date", <<I("y", 4), I("M", 2), I("d", 2)>>) EXCEPT !.f.rep = r, !.f.policy = o, !.f.zone = z] :
                   r \in {"bcd", "packed", "ibm"}, o \in {"strict", "lax"}, z \in {NoZone, 60}}, PackedDates)

Dates == {Four(y) \o <<Minus>> \o Two(m) \o <<Minus>> \o Two(d) :
            y \in {0, 1900, 1999, 2000}, m \in {0, 1, 2, 12, 13, 25}, d \in {0, 1, 28, 29, 31, 60, 99}}
Times0 == {Two(h) \o <<Colon>> \o Two(n) \o <<Colon>> \o Two(s) : h \in {0, 12, 23, 24, 30}, n \in {0, 59, 75}, s \in {0, 59, 99}}
Zones0 == {<<>>, <<LetterZ>>, <<Plus, 0, 5, Colon, 3, 0>>, <<Minus, 0, 8, 0, 0>>, <<Gmt>>, <<Gmt, Minus, 7>>, <<Unk>>}
TextDates == Case(Either({Cal("date", Ymd), [Cal("date", Ymd) EXCEPT !.f.implicit = TRUE]}), Dates \union {<<1, 9, 9, 9, 0, 1, 2, 2, 9, 9>>})
Named == Case({[Cal("date", <<I("E", 3), L(Blank), I("d", 1), L(Blank), I("M", 3), L(Blank), I("y", 2)>>) EXCEPT !.f.foreign = e] : e \in BOOLEAN},
              {<<Weekday(d), Blank, 2, Blank, Month(m), Blank, 5, y>> : d \in {1, 7}, m \in {1, 4}, y \in {2, 3}} \union {<<Foreign, Blank, 2, Blank, Foreign, Blank, 5, 3>>})
TextTimes == Case(Either({Cal("time", p) : p \in {Hms, <<I("K", 2), L(Colon), I("m", 2)>>}} \union {[Cal("time", Hms) EXCEPT !.f.implicit = TRUE, !.f.zone = z] : z \in {NoZone, 60}}),
                  Times0 \union {t \o z : t \in {<<1, 2, Colon, 3, 0, Colon, 0, 0>>}, z \in Zones0} \union {<<1, 2, 3, 0, 0, 0, 0, 0>>})
Zoned2 == Case({Cal("time", <<I("H", 2), L(Colon), I("m", 2), I(c, n)>>) : c \in ZoneLetters, n \in {1, 4}},
               {<<1, 2, Colon, 3, 0>> \o z : z \in Zones0 \union {<<140>>, <<142>>}})
Clocks == Case({Cal("time", Twelve), Cal("time", <<I("a", 1), I("K", 2), L(Colon), I("m", 2)>>), Cal("time", <<I("h", 2), L(Colon), I("m", 2)>>), Cal("time", <<I("a", 1), I("H", 2)>>)},
               {Two(h) \o <<Colon, 3, 0>> \o a : h \in {0, 1, 11, 12}, a \in {<<>>, <<Blank, AM>>, <<Blank, PM>>}} \union
               {<<a>> \o Two(h) \o <<Colon, 3, 0>> : h \in {0, 11, 12}, a \in {AM, PM}} \union {<<PM, 1, 1>>})
Both == Case(Either({Cal("dateTime", Ymd \o <<L(LetterT)>> \o Hms), [Cal("dateTime", <<>>) EXCEPT !.f.implicit = TRUE]}),
             {d \o <<LetterT>> \o t \o z : d \in {<<1, 9, 9, 9, Minus, 1, 2, Minus, 3, 1>>, <<2, 0, 0, 0, Minus, 0, 2, Minus, 3, 0>>}, t \in Times0, z \in {<<>>, <<LetterZ>>, <<Plus, 0, 5, Colon, 3, 0>>}})
WeekOf == Case({[Cal("date", <<I("y", 4), L(Minus), I("w", 2)>>) EXCEPT !.f.first = s, !.f.firstWeek = n] : s \in {1, 7}, n \in {1, 4, 7}},
               {Four(y) \o <<Minus>> \o Two(w) : y \in {0, 1, 1999, 2004, 2012}, w \in {0, 1, 2, 52, 53, 54}})
MonthWeeks == Case({[Cal("date", <<I("y", 4), L(Minus), I("M", 2), L(Minus), I(c, 1)>>) EXCEPT !.f.first = s, !.f.firstWeek = n] : c \in {"W", "F", "e"}, s \in {1, 7}, n \in {1, 4}},
                   {Four(y) \o <<Minus>> \o Two(m) \o <<Minus, w>> : y \in {0, 1, 1999, 2004}, m \in {1, 2, 3, 12}, w \in {0, 1, 4, 6}})
Ordinals == Case({Cal("date", <<I("y", 4), L(Minus), I("D", 3)>>)},
                 {Four(y) \o <<Minus>> \o <<0, 6, 0>> : y \in {1900, 2000}} \union {<<2, 0, 0, 0, Minus, 3, 6, 6>>, <<2, 0, 0, 1, Minus, 3, 6, 6>>, <<2, 0, 0, 1, Minus, 0, 0, 0>>})
Eras == Case({Cal("date", <<I("y", 4), L(Blank), I("G", 1)>>), Cal("date", <<I("y", 4), L(Blank), I("M", 2), L(Blank), I("E", 1)>>)},
             {<<0, 0, 4, 4, Blank, e>> : e \in {AD, BC}} \union {<<1, 9, 9, 9, Blank, 0, 2, Blank, Weekday(3)>>})

Cases == Seconds \union Millis \union Packeds \union TextDates \union Named \union TextTimes \union Zoned2 \union Clocks
           \union Both \union WeekOf \union MonthWeeks \union Ordinals \union Eras
Diary == {c.x : c \in Cases}

MCFields == Binaries \union Writings \union Diary

Numbers == {0, 1, 9, 10, 99, 100, 127, 128, 200, 255, 256, 999, 1000, 32767, 32768, 65535,
            -1, -9, -10, -127, -128, -129, -999, -32768}

MCSamples(x) ==
  CASE x.of = "calendar" ->
         LET dates == IF x.f.kind = "time" THEN {NoDate} ELSE {<<1999, 12, 31>>, <<2000, 2, 29>>, <<1947, 4, 5>>}
             times == IF x.f.kind = "date" THEN {NoTime} ELSE {<<0, 0, 0>>, <<13, 5, 9>>, <<12, 30, 0>>, <<23, 59, 59>>}
             zones == {NoZone, 0, 330, -480} IN
         {Moment(d, t, z) : d \in dates, t \in times, z \in IF x.f.kind = "date" THEN {NoZone} ELSE zones}
    [] x.f.kind = "boolean" -> {Boolean(TRUE), Boolean(FALSE)}
    [] x.f.kind \in {"hex", "blob"} -> {Raw(b) : b \in {<<>>, <<7>>, <<0, 255>>, <<1, 2, 3>>}}
    [] x.f.kind = "decimal" ->
         IF x.of = "calendar" THEN UNION {c.wires : c \in {k \in Cases : k.x = x}}
  ELSE IF x.of = "binary" THEN {Decimal(n, m, s) : n \in BOOLEAN, m \in {0, 5, 12, 105, 999}, s \in {0, 1, 2, 3}}
         ELSE {Canonical(n, m, s) : n \in BOOLEAN, m \in {0, 5, 12, 25, 35, 48, 105, 125, 251, 999, 1250}, s \in {0, 1, 2, 3}}
    [] OTHER -> IF x.of = "binary" THEN {Whole(n) : n \in Numbers} ELSE {Whole(n) : n \in {0, 7, 10, 42, 999, 1234, 20000, -7, -10, -1234}}

Letters0 == 20

MCInputs(x) ==
  IF x.of = "calendar" THEN UNION {c.wires : c \in {k \in Cases : k.x = x}}
  ELSE IF x.of = "binary" THEN {<<>>, <<0>>, <<1>>, <<18, 60>>, <<18, 61>>, <<255, 18>>, <<1, 127>>, <<2, 18, 52>>, <<210, 1>>}
  ELSE {<<>>, <<0>>, <<Blank, 7>>, <<7, Blank>>, <<Minus, 0>>, <<0, 7>>, <<1, Dot, 5>>, <<7, Dot, 0>>, <<1, Comma, 2, 3, 4>>, <<1, 2, 3, 4>>,
        <<Dollar, 7>>, <<7, Star>>, <<Star, 7, Dollar>>, <<1, Dot, 5, Exponent, 1>>, <<1, 5, Exponent, Minus, 1>>, <<Plus, 5>>,
        <<Minus, 5>>, <<Letters0, 1>>, <<Blank, 0>>, <<Star, 0>>, <<0, 0, 0, 0>>, <<Dot, 5, Blank, Blank>>, <<1, 36>>, <<36, 1>>,
        <<1, 0, 0, Blank>>, <<Comma, 5>>, <<1, Comma, 5>>}

=============================================================================
