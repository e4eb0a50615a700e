---------------------------- MODULE MCSeparators ----------------------------
(***************************************************************************)
(* Schemas for Separators over the tokens a, 1 and the delimiters.         *)
(***************************************************************************)
EXTENDS SeparatorsEncoder

CONSTANT MaxLen

(* All short inputs, and three fields between commas.                     *)
MCInputs ==
  UNION {[1..n -> Tokens] : n \in 0..MaxLen}
  \union {<<"a", ",", "1", ",", "1">>, <<";", ",", ";", ",", ";">>,
          <<"a", ";", ",", "a", ";", ",", "a", ";">>}

Node0(kind, min, max, count, term) ==
  [kind |-> kind, min |-> min, max |-> max, count |-> count, term |-> term,
   sep |-> NoDelim, at |-> "infix", policy |-> "unset", kids |-> <<>>]

Field(kind, min, max, count) == Node0(kind, min, max, count, NoDelim)
Text1  == Field("text", 1, 1, "implicit")
Text01 == Field("text", 0, 1, "implicit")
Num(min, max) == Field("number", min, max, "implicit")
Text(min, max) == Field("text", min, max, "implicit")
TermText == Node0("text", 1, 1, "implicit", <<";">>)
Calc == Field("calc", 1, 1, "implicit")
CalcText == Field("calcText", 1, 1, "implicit")
Of(min, max, term, kid) == [Node0("complex", min, max, "implicit", term) EXCEPT !.kids = <<kid>>]
Seq0(sep, at, policy, term, kids) ==
  [Node0("sequence", 1, 1, "implicit", term) EXCEPT
     !.sep = sep, !.at = at, !.policy = policy, !.kids = kids]

C == <<",">>   S == <<";">>  SS == <<";", ";">>

(* Three fields under each position and policy.                            *)
Flat ==
  {<<Seq0(C, at, "unset", <<>>, <<2, 3, 4>>), Text1, b, c>> :
     at \in Positions, b \in {Text1}, c \in {Text1, Text(1, 2), Num(0, Unbounded)}}
  \union
  {<<Seq0(C, at, "unset", <<>>, <<2, 3, 4>>), Text1, b, Text1>> : at \in Positions, b \in {Calc, CalcText}}
  \union
  {<<Seq0(C, "infix", pol, <<>>, <<2, 3, 4>>), Text1, b, c>> :
     pol \in {"never", "trailingEmpty", "anyEmpty"},
     b \in {Text1, Text01}, c \in {Num(0, 2), Text(2, 3)}}
  \union
  {<<Seq0(C, "infix", "trailingEmptyStrict", S, <<2, 3>>), Text1, Num(0, 2)>>,
   <<Seq0(C, "infix", "unset", <<>>, <<2, 3>>), TermText, [Num(1, 2) EXCEPT !.count = "parsed"]>>}
  \union
  {<<Seq0(sep, at, "unset", <<>>, <<2, 3>>), Node0("text", 2, 2, "parsed", t), b>> :
     <<sep, t>> \in {<<C, S>>, <<C, <<>>>>, <<S, C>>}, at \in {"infix", "postfix"}, b \in {Text01}}
  \union
  {<<Seq0(C, "infix", "unset", <<>>, <<2, 3>>), Text1, [Num(0, 0) EXCEPT !.count = "parsed"]>>}

(* Complex elements: repeated with a separator of their own, under a       *)
(* terminator, bounded by a postfix separator, and where a terminator      *)
(* begins like a separator.                                                *)
Nested ==
  {<<Seq0(C, "infix", "unset", <<>>, <<2, 6>>), Of(mn, mx, <<>>, 3),
     Seq0(S, "infix", "unset", <<>>, <<4, 5>>), Text1, Num(0, 1), Num(0, 1)>> : mn \in {0, 1}, mx \in {1, 2}}
  \union
  {<<Seq0(C, "postfix", "unset", <<>>, <<2, 5>>), Of(mn, mx, <<>>, 3),
     Seq0(S, "infix", "unset", <<>>, <<4>>), f, Text1>> :
     mn \in {0, 1}, mx \in {1, Unbounded}, f \in {Text1, Num(0, 1)}}
  \union
  {<<Seq0(C, "postfix", "unset", <<>>, <<2>>), Of(1, 1, <<>>, 3),
     Seq0(S, "infix", "unset", <<>>, <<4>>), Text1>>}
  \union
  {<<Seq0(C, "infix", "unset", <<>>, <<2, 5>>), Of(mn, 1, S, 3),
     Seq0(C, "infix", "unset", <<>>, <<4, 4>>), Text1, Text1>> : mn \in {0, 1}}
  \union
  {<<Seq0(S, "infix", "unset", <<>>, <<2, 5>>), Of(mn, 1, SS, 3),
     Seq0(S, "infix", "unset", <<>>, <<4>>), Text(1, 2), Text1>> : mn \in {0, 1}}
  \union
  {<<Seq0(C, "infix", "unset", <<>>, <<2, 5>>), Of(mn, Unbounded, <<>>, 3),
     Seq0(S, "infix", "unset", <<>>, <<4>>), Num(0, 1), Text1>> : mn \in {0, 1}}
  \union
  {<<Seq0(C, "infix", "unset", <<>>, <<2, 3>>), Text1, Seq0(S, "prefix", "unset", <<>>, <<4, 5>>), Text1, Num(0, 1)>>}

MCPrograms == Flat \union Nested

(* Values of each kid of a program of fields.                              *)
KidValues(p, k) ==
  LET c == p[k]
      one == IF c.kind = "number" THEN {<<"1">>} ELSE {<<"a">>, <<"1", "a">>}
      counts == {n \in 0..3 : n >= c.min /\ n <= c.max}
  IN IF c.kind \in Calcs THEN {[has |-> FALSE, items |-> <<>>]}
     ELSE UNION {{[has |-> n > 0, items |-> t] : t \in [1..n -> one]} : n \in counts}

MCSamples(p) ==
  LET kids == p[1].kids IN
  IF \A k \in DOMAIN kids : p[kids[k]].kind \notin {"complex", "sequence"}
  THEN {Encoded(p, v) :
          v \in {v \in [DOMAIN kids -> UNION {KidValues(p, kids[k]) : k \in DOMAIN kids}] :
                   \A k \in DOMAIN kids : v[k] \in KidValues(p, kids[k])}}
  ELSE {}
============================================================================
