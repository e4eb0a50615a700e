---------------------------- MODULE MCUnordered ----------------------------
(***************************************************************************)
(* Sequences for Unordered: scans, searches and initiated content over the *)
(* tokens a, b, c and the separators; every input up to MaxLen tokens.     *)
(***************************************************************************)
EXTENDS Unordered

CONSTANTS Tokens, MaxLen

MCInputs == UNION {[1..n -> Tokens] : n \in 0..MaxLen}

Child(tag, body, cut, min, max, error) ==
  [tag |-> tag, body |-> body, cut |-> cut, min |-> min, max |-> max, error |-> error]

(* Initiated by a or b, required or optional, repeating or not.            *)
A1  == Child("a", <<>>, 0, 1, 1, "fail")
A01 == Child("a", <<"c">>, 0, 0, 1, "absent")
A02 == Child("a", <<>>, 1, 0, 2, "fail")
AN  == Child("a", <<"c">>, 1, 0, Unbounded, "absent")
A2N == Child("a", <<>>, 0, 2, Unbounded, "fail")
B1  == Child("b", <<>>, 1, 1, 1, "fail")
B13 == Child("b", <<"c">>, 2, 1, 3, "absent")
B01 == Child("b", <<"c">>, 1, 0, 1, "fail")
(* Found by their content alone; E may be empty.                           *)
XA  == Child(NoTag, <<"a">>, 0, 1, 1, "fail")
XAB == Child(NoTag, <<"a", "b">>, 1, 1, 1, "fail")
XN  == Child(NoTag, <<"b", "c">>, 1, 1, Unbounded, "fail")
X0N == Child(NoTag, <<"b">>, 0, 0, Unbounded, "refused")
XS  == Child(NoTag, <<"c">>, 0, 0, 1, "sde")
E   == Child(NoTag, <<>>, 0, 1, 2, "fail")

Program(mode, ordered, test, separated, terminated, enclosed, kids) ==
  [mode |-> mode, ordered |-> ordered, test |-> test, separated |-> separated,
   terminated |-> terminated, enclosed |-> enclosed, kids |-> kids]

MCPrograms ==
  {Program("scan", FALSE, FALSE, "no", TRUE, FALSE, <<A1, B13>>),
   Program("scan", FALSE, FALSE, "infix", FALSE, FALSE, <<A02, B01, Child("c", <<>>, 0, 0, 1, "fail")>>),
   Program("search", FALSE, FALSE, "no", FALSE, FALSE, <<XA, XAB, X0N>>),
   Program("search", FALSE, FALSE, "no", FALSE, TRUE, <<XN, A01, XA>>),
   Program("search", FALSE, FALSE, "no", TRUE, FALSE, <<E, A2N, B1>>),
   Program("search", FALSE, TRUE, "no", FALSE, FALSE, <<XN, XS>>),
   Program("search", FALSE, FALSE, "no", FALSE, FALSE, <<XS, XA, B01>>),
   Program("initiated", TRUE, FALSE, "no", TRUE, FALSE, <<A01, B13, A1>>),
   Program("initiated", TRUE, FALSE, "infix", FALSE, FALSE, <<A02, B1, AN>>),
   Program("initiated", FALSE, FALSE, "prefix", FALSE, TRUE, <<AN, B1>>),
   Program("initiated", FALSE, FALSE, "postfix", FALSE, FALSE, <<A01, B1>>),
   Program("initiated", TRUE, TRUE, "postfix", FALSE, FALSE, <<A2N>>)}
============================================================================
