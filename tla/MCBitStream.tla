---------------------------- MODULE MCBitStream ----------------------------
(***************************************************************************)
(* Schemas for BitStream.                                                  *)
(***************************************************************************)
EXTENDS BitStreamLayout

Tk(op, w, by, bi, a, k) ==
  [op |-> op, width |-> w, byteOrder |-> by, bitOrder |-> bi, declared |-> TRUE,
   align |-> a, exact |-> FALSE, kind |-> k]

F(w, by, bi)     == Tk("field", w, by, bi, 1, "UnsignedInt")
FA(w, by, bi, a) == Tk("field", w, by, bi, a, "Int")
Fr(n, bi)        == Tk("frame", n, "be", bi, 1, "Int")
EFr(n, bi)       == Tk("endframe", n, "be", bi, 1, "Int")
G(bi)            == Tk("group", 0, "be", bi, 1, "Int")
EG(bi)           == Tk("endgroup", 0, "be", bi, 1, "Int")

M == "msbf"
L == "lsbf"

(* Fields of odd widths at odd places, each byte and bit order.            *)
Flat ==
  { <<F(3, "be", M), F(12, "le", M), F(9, "be", M)>>,
    <<F(3, "le", L), F(12, "le", L), FA(9, "le", L, 8)>>,
    <<FA(4, "le", L, 4), F(5, "le", L)>>,
    <<F(8, "be", M), F(10, "le", L), F(6, "le", L), F(7, "le", M), FA(11, "le", M, 1)>>,
    <<Tk("field", 12, "be", M, 1, "Long"), [F(4, "be", M) EXCEPT !.declared = FALSE]>> }

(* Frames off the byte boundary, filled, nested, with another bit order    *)
(* inside; groups.                                                         *)
Nested ==
  { <<F(4, "be", M), Fr(20, M), F(4, "be", M), F(12, "le", M), EFr(20, M), FA(8, "be", M, 8)>>,
    <<Fr(24, M), F(9, "le", L), F(7, "le", L), EFr(24, M), F(5, "be", M)>>,
    <<F(2, "be", M), Fr(21, M), F(3, "be", M), Fr(13, M), F(11, "be", M), EFr(13, M), EFr(21, M),
      F(2, "le", M)>>,
    <<F(3, "be", M), [Fr(24, M) EXCEPT !.align = 8], F(9, "be", M), EFr(24, M)>>,
    <<Fr(16, M), F(16, "le", L), [EFr(16, M) EXCEPT !.exact = TRUE]>>,
    <<G(M), F(8, "be", M), EG(M), G(L), F(9, "le", L), EG(L)>>,
    <<[G(L) EXCEPT !.align = 4], F(4, "le", L), EG(L)>> }

(* Refused by both sides: the order changes inside a byte.                 *)
Changing ==
  { <<F(4, "be", M), F(8, "le", L)>>,
    <<F(4, "be", M), G(L), F(4, "le", L), EG(L)>> }

PassPrograms == Flat \union Nested \union Changing

OverrunPrograms == { <<Fr(4, M), F(8, "le", M), EFr(4, M), F(8, "be", M)>> }
OrderPrograms   == { <<G(M), F(4, "be", M), EG(M), F(8, "le", L)>> }
LeftoverPrograms == { <<F(4, "be", M)>> }

AllPatterns == { {}, 0..63, {0, 3, 4, 9, 11} }

(* The layouts of a program whose message has n bits, to its end or to a   *)
(* token that is refused: the witness for Regular.                         *)
LayoutFrom(p, n) ==
  LET ls[k \in 1..(Len(p) + 1)] ==
        IF k = 1
        THEN [slots |-> <<[start |-> 0, len |-> 0, end |-> n, order |-> "none", orders |-> {}]>>,
              noted |-> "none", fields |-> 0]
        ELSE After(ls[k - 1], p[k - 1])
      stops == {k \in 1..Len(p) : p[k].op \in {"field", "group"}
                  /\ Changes(ls[k], p[k]) /\ Begun(Inner(ls[k]), p[k]).len % 8 # 0}
      last == CHOOSE k \in stops \union {Len(p) + 1} : \A j \in stops : k <= j
  IN [k \in 1..last |-> ls[k]]

LayoutOf(p) ==
  LET ls == LayoutFrom(p, 0) IN LayoutFrom(p, ls[Len(ls)].slots[1].len)

(* The programs checked are programs that the theorems of BitStream_proofs *)
(* are about.                                                              *)
ASSUME RegularPrograms ==
  \A p \in PassPrograms : LayoutOf(p) \in Seq(Layout) /\ LaidOut(LayoutOf(p), p)

============================================================================
