------------------------------ MODULE MCFields ------------------------------
(***************************************************************************)
(* Sequences and samples for Fields.                                       *)
(***************************************************************************)
EXTENDS Fields

MCNil == <<"the nil value">>

Caret == [NoScheme EXCEPT !.kind = "character", !.esc = <<"^">>]
CaretStar == [Caret EXCEPT !.ee = <<"*">>]
CaretCaret == [Caret EXCEPT !.ee = <<"^">>]
Braces == [NoScheme EXCEPT !.kind = "block", !.start = <<"(">>, !.end = <<")">>, !.ee = <<"^">>]
Quotes == [Braces EXCEPT !.start = <<"'">>, !.end = <<"'">>]
Doubled == [Quotes EXCEPT !.ee = <<"'">>]
Besides == [Braces EXCEPT !.extra = {"b"}]

Plainly == [init |-> <<>>, term |-> <<>>, nilKind |-> "none", nils |-> <<>>, scheme |-> NoScheme, length |-> 0]
Twice(f) ==
  [fields |-> <<f, f>>, sep |-> <<>>, at |-> "infix", term |-> <<>>, enc |-> "utf-8", onl |-> NoNewLine,
   ic |-> FALSE, letters |-> <<"a">>, most |-> 2]

CrLf == <<"%CR;", "%LF;">>
Seps == {<<",">>, <<",", " ", ";">>, <<";", ";">>, <<"%NL;">>, <<"%NL;", ",", " ", ",">>, <<"%NL;", " ", ",">>, <<"%WSP+;">>,
         <<"a", " ", "B">>, <<",", "%WSP*;">>, <<"%SP;">>, <<";", "+">>}
Separated == {[Twice(Plainly) EXCEPT !.sep = s, !.at = a, !.onl = o, !.letters = <<"a", ",", ";">>] :
                s \in Seps, a \in {"prefix", "infix"}, o \in {NoNewLine, CrLf}}

Escaped ==
  {[Twice([Plainly EXCEPT !.scheme = s, !.term = t]) EXCEPT !.sep = <<",">>, !.letters = <<"a", ",", "^", "*">>, !.most = 3] :
     s \in {Caret, CaretStar, CaretCaret}, t \in {<<>>, <<"*">>, <<";">>}}
  \union
  {[Twice([Plainly EXCEPT !.scheme = s]) EXCEPT !.sep = <<"*", " ", ",">>, !.letters = <<"a", ",", "^", "*">>] :
     s \in {Caret, CaretStar, CaretCaret}}
  \union {[Twice([Plainly EXCEPT !.scheme = Caret]) EXCEPT !.sep = <<"^", " ", ",">>]}
Blocked ==
  {[Twice([Plainly EXCEPT !.scheme = s]) EXCEPT !.sep = <<",">>, !.letters = <<",", "^">> \o s.start \o s.end, !.most = 3] :
     s \in {Braces, Quotes, Doubled, Besides}}
Framed ==
  {[Twice([Plainly EXCEPT !.init = n, !.term = t]) EXCEPT !.term = u, !.ic = (n # <<>>), !.letters = <<"a", "B">>] :
     n \in {<<>>, <<"a", " ", "B">>, <<"(", "%WSP*;">>}, t \in {<<>>, <<";">>, <<"b", " ", "!">>, <<",", ";">>, <<"%NL;">>},
     u \in {<<>>, <<";">>, <<"%NL;", " ", "A">>}}
Nulls ==
  {[Twice([Plainly EXCEPT !.nilKind = k, !.nils = n, !.init = i0, !.term = t]) EXCEPT !.sep = <<",">>, !.term = u, !.letters = <<"a", "b">>] :
     k \in {"literalValue"}, n \in {<<"a">>, <<"a", "b">>, <<"%ES;">>, <<"b", " ", "a">>, <<"%NL;">>}, i0 \in {<<>>, <<"(">>}, t \in {<<>>, <<";">>},
     u \in {<<>>, <<";">>}}
Filled0 ==
  {[Twice([Plainly EXCEPT !.nilKind = k, !.nils = <<"b">>, !.length = l, !.term = t]) EXCEPT !.sep = p, !.letters = <<"a", "b", ";">>] :
     k \in {"none", "literalValue", "literalCharacter"}, l \in {0, 1, 2}, t \in {<<>>, <<";">>, <<",", " ", ";">>}, p \in {<<>>, <<",">>}}
WideOnes ==
  {[Twice([Plainly EXCEPT !.length = l, !.term = t, !.init = n]) EXCEPT !.term = u, !.enc = e, !.onl = o, !.letters = <<"a", ";">>] :
     l \in {0, 2}, n \in {<<>>, <<"(">>}, t \in {<<>>, <<";">>, <<"b", " ", ";">>, <<"%NL;">>}, u \in {<<>>, <<"%NL;">>}, e \in Wide, o \in {CrLf}}

Texts(p) == UNION {[1..k -> Listed(p.letters)] : k \in 0..p.most}
Nils(f) == IF f.nilKind = "none" THEN {} ELSE {Nil}
MCSamples(p) ==
  {<<t, u>> : t \in Texts(p) \union Nils(p.fields[1]), u \in (IF p.fields[2].length = 2 THEN {<<"b", "b">>} ELSE {<<"b">>, <<>>}) \union Nils(p.fields[2])}

MCPrograms == Separated \union Escaped \union Blocked \union Framed \union Nulls \union Filled0 \union WideOnes
=============================================================================
