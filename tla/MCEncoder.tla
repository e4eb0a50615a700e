------------------------------ MODULE MCEncoder ------------------------------
(***************************************************************************)
(* Schemas and infosets for Encoder.                                       *)
(***************************************************************************)
EXTENDS EncoderContent

Blank(kind, name) ==
  [kind |-> kind, name |-> name, calc |-> "none", of |-> NoName, add |-> 0, hidden |-> FALSE,
   ivc |-> FALSE, min |-> 1, frame |-> "none", length |-> NoLength, lengthOf |-> NoName,
   count |-> NoName, order |-> "none", bits |-> 0, kids |-> <<>>]

T(name) == Blank("text", name)
N(name) == [Blank("number", name) EXCEPT !.bits = 8]
Calc(name, calc, of, add) == [N(name) EXCEPT !.calc = calc, !.of = of, !.add = add]
Opt(n) == [n EXCEPT !.min = 0]
Of(name, kid) == [Blank("complex", name) EXCEPT !.kids = <<kid>>]
FramedBy(name, frame, kid) == [Of(name, kid) EXCEPT !.frame = frame]
Seq0(kids) == [Blank("sequence", NoName) EXCEPT !.kids = kids]
Alt(kids) == [Blank("choice", NoName) EXCEPT !.kids = kids]
BitsOf(name, n, o) == [N(name) EXCEPT !.bits = n, !.order = o]

Schema(nodes, infosets) == [nodes |-> <<Of("root", 2)>> \o nodes, infosets |-> infosets]
M1(a, x) == MapOf(a :> x)
M2(a, x, b, y) == MapOf((a :> x) @@ (b :> y))
M3(a, x, b, y, c, z) == MapOf((a :> x) @@ (b :> y) @@ (c :> z))

Texts == {Text(1), Text(3)}

(* A length before a text, with a text of that length, and before a record *)
(* that has calculations of its own.                                       *)
Lengths ==
  {Schema(<<Seq0(<<3, 4>>), Calc("len", "length", "data", add), d>>,
          {M1("data", t) : t \in Texts} \union {M2("len", Num(2), "data", Text(3)), M1("len", Num(2))}) :
     <<add, d>> \in {<<0, T("data")>>, <<1, T("data")>>, <<0, [T("data") EXCEPT !.lengthOf = "len"]>>}}
  \union
  {Schema(<<Seq0(<<3, 4>>), Calc("len", "length", "body", 0), b, Seq0(<<6, 7, 8>>),
            Calc("m", "length", "text", 0), T("text"), BitsOf("flag", 4, "none")>>,
          {M1("body", M2("text", t, "flag", Num(1))) : t \in Texts}
          \union {M1("body", M1("text", Text(1))), M2("len", Num(9), "body", M3("m", Num(9), "text", Text(1), "flag", Num(0)))}) :
     b \in {Of("body", 5), [FramedBy("body", "explicit", 5) EXCEPT !.lengthOf = "len"],
            [FramedBy("body", "explicit", 5) EXCEPT !.length = 2], FramedBy("body", "prefixed", 5)}}

(* A chain of calculations against the order of declaration, one that goes *)
(* in a circle, and those that cannot be computed.                         *)
Chains ==
  {Schema(<<Seq0(<<3, 4, 5, 6>>), Calc("a", "path", "b", 1), Calc("b", "path", "c", k),
            Calc("c", "count", "x", 0), Opt(T("x"))>>,
          {M1("x", List(<<Text(1), Text(2)>>)), M1("x", Text(1)), MapOf(NoFields),
           M2("a", Num(7), "x", Text(1))}) : k \in {0, 1}}
  \union
  {Schema(<<Seq0(<<3, 4, 5>>), a, Calc("b", "path", "a", 1), T("x")>>,
          {M1("x", Text(1)), M2("a", Num(1), "x", Text(1)), Text(0), Null, M1("root", M1("x", Text(1)))}) :
     a \in {Calc("a", "constant", NoName, 4), Calc("a", "error", NoName, 0),
            Calc("a", "conditional", NoName, 0), Calc("a", "path", "x", 0),
            [Calc("a", "path", "x", 1) EXCEPT !.kind = "text"], Calc("a", "length", "b", 0),
            Calc("a", "length", "zz", 0), [Calc("a", "constant", NoName, 12) EXCEPT !.kind = "text"]}}
  \union
  {Schema(<<Seq0(<<3, 5>>), c, Seq0(<<6>>), Calc("e", "path", of, 0),
            [k EXCEPT !.calc = "constant", !.add = 2]>>, {MapOf(NoFields), M1("c", M1("k", Num(1)))}) :
     of \in {"c", "k", "zz"}, k \in {N("k"), T("k")}, c \in {Opt(Of("c", 4))}}

Pieced ==
  {Schema(<<Seq0(<<3, 4, 5, 6>>), [Calc("a", p, "b", 2) EXCEPT !.kind = "text"],
            [Calc("b", q, "c", k) EXCEPT !.kind = "text"], c, Opt(T("x"))>>,
          {M1("x", Text(3)), M2("x", Text(1), "c", Num(12)), M2("b", Text(9), "x", Text(2))}) :
     p \in {"concat", "substring", "xpath"}, q \in {"concat", "xpath"}, k \in {0, 1},
     c \in {Opt(Calc("c", "length", "x", 0)), Opt(Calc("c", "path", "x", 0)), Opt(N("c"))}}

(* Items with their index, before and after arrays inside them; counted    *)
(* items; frames.                                                          *)
Inner == {M1("y", Text(1)), M2("inner", List(<<M1("z", Text(1)), M1("z", Text(2))>>), "y", Text(1))}
Arrays ==
  {Schema(<<Seq0(<<3>>), o, Seq0(kids), Opt(Of("inner", 6)), Seq0(<<7>>), T("z"),
            Calc("i", op, NoName, 0), T("y")>>,
          {M1("item", List(s)) : s \in {<<a, b>> : a, b \in Inner} \union {<<Null>>, <<>>}} \union {M1("item", a) : a \in Inner}) :
     op \in {"index", "repeat"}, kids \in {<<8, 5, 9>>, <<5, 8, 9>>},
     o \in {Of("item", 4), FramedBy("item", "delimited", 4)}}
  \union
  {Schema(<<Seq0(<<3, 4>>), n, [Opt(T("x")) EXCEPT !.count = "n"]>>,
          {M1("x", List(<<Text(1), Text(2)>>)), M2("n", Num(1), "x", List(<<Text(1), Text(2)>>)),
           M2("n", Num(0), "x", Text(1)), M1("n", Num(2))}) :
     n \in {N("n"), Calc("n", "count", "x", 0)}}
  \union
  {Schema(<<Seq0(<<3>>), Of("rec", 4), Seq0(<<5, 6>>), Calc("len", "length", "data", 0), T("data")>>,
          {M1("rec", M1("data", Text(3)))})}
  \union
  {Schema(<<Seq0(kids), Seq0(<<4, 5>>), Calc("k", op, "x", 2), Of("rec", 6), Seq0(<<7, 8>>), T("x"),
            [Calc("p", "xpath", "k", 0) EXCEPT !.kind = "text"]>>,
          {M1("rec", M1("x", Text(1))), M2("x", Text(3), "rec", M1("x", Text(1)))}) :
     kids \in {<<3>>, <<4, 5>>}, op \in {"constant", "concat"}}
  \union
  {Schema(<<Seq0(<<3, 4>>), T("x"), Of("rec", 5), Seq0(<<6, 7>>), Opt(T("v")), T("x")>>,
          {M2("x", Text(1), "rec", M1("x", Text(3))), M2("x", Text(2), "rec", List(<<M2("v", Text(1), "x", Text(2))>>))})}

(* Choices: by a field, by a record, by nothing; hidden and calculated     *)
(* branches; a branch of a given length.                                   *)
Selections ==
  {Schema(<<c, T("x"), Of("y", 5), Seq0(<<6>>), T("z"), d, Seq0(<<9, 10>>), T("p"), Opt(N("q"))>>,
          {M1("x", Text(1)), M1("y", M1("z", Text(3))), MapOf(NoFields), M1("p", Text(1)),
           M2("p", Text(1), "q", Num(1)), M1("k", Text(1)), Branch("x", Text(1)), Branch("y", M1("z", Text(1))), Branch("w", Text(1))}) :
     c \in {[Alt(<<3, 4, 7, 8>>) EXCEPT !.length = n] : n \in {NoLength, 2}},
     d \in {Seq0(<<>>), Calc("k", "constant", NoName, 1), [T("k") EXCEPT !.hidden = TRUE],
            [N("k") EXCEPT !.hidden = TRUE], Opt(T("k")), N("k")}}
  \union
  {Schema(<<Seq0(<<3, 6, 7>>), Alt(<<4, 5>>), T("x"), T("y"), T("w"), [T("v") EXCEPT !.ivc = TRUE]>>,
          {M2("x", Text(1), "w", Text(2)), M2("y", Text(3), "w", Text(2)), M1("w", Text(1)),
           MapOf(NoFields), M2("y", Text(3), "w", Null)})}

(* Bit orders, in one sequence and in one nested in it.                    *)
Orders ==
  {Schema(<<Seq0(<<3, 4, 5>>), BitsOf("a", n, "msb"), BitsOf("b", 4, o), Seq0(<<6, 7>>),
            BitsOf("c", 4, "msb"), Calc("len", "length", "b", 0)>>,
          {M3("a", Num(1), "b", Num(1), "c", Num(1)), M2("a", Num(1), "b", Num(1)),
           M3("a", Num(1), "b", Null, "c", Num(1)), M3("a", Num(1), "b", Text(1), "c", Num(1))}) :
     n \in {4, 8}, o \in {"msb", "lsb", "none"}}
  \union
  {Schema(<<Seq0(<<3, 4>>), BitsOf("a", n, "msb"), b, Seq0(<<6>>), BitsOf("c", 4, "lsb")>>,
          {M2("a", Num(1), "b", Null), M2("a", Num(1), "b", List(<<M1("c", Num(1)), Null>>))}) :
     n \in {4, 8}, b \in {Of("b", 5), [Of("b", 5) EXCEPT !.order = "msb"],
       FramedBy("b", "delimited", 5), FramedBy("b", "prefixed", 5)}}

MCPrograms == Lengths \union Chains \union Pieced \union Arrays \union Selections \union Orders
=============================================================================
