----------------------------- MODULE MCDecoder -----------------------------
(***************************************************************************)
(* Three programs for Decoder.                                             *)
(*                                                                         *)
(* Root 1: a choice between a sequence (2), which begins with a choice (3) *)
(* of a field with a discriminator (4) and an array of complex elements    *)
(* (5), and a sequence (8) with its own instance of the variable.          *)
(* Root 11: a sequence of a choice by dispatch (12), one of whose branches *)
(* is a complex element with its own cursor (14), and a text array (18).   *)
(* Root 21: the elements whose loop may go round without getting anywhere: *)
(* complex elements that may be absent (22), an optional field that may be *)
(* an empty slot (23), an array whose separators are never suppressed (24);*)
(* and an item of length 0 with a discriminator (27).                      *)
(***************************************************************************)
EXTENDS Decoder

MCNode == 1..28

Sequences1 == {2, 6, 8, 11, 15, 21, 25}
Choices1   == {1, 3, 12, 26}

MCKind ==
  [n \in MCNode |-> IF n \in Sequences1 THEN "sequence"
                    ELSE IF n \in Choices1 THEN "choice" ELSE "element"]

MCKids ==
  [n \in MCNode |->
     CASE n = 1  -> <<2, 8>>
       [] n = 2  -> <<3, 10>>
       [] n = 3  -> <<4, 5>>
       [] n = 5  -> <<6>>
       [] n = 6  -> <<7>>
       [] n = 8  -> <<9>>
       [] n = 11 -> <<12, 18>>
       [] n = 12 -> <<13, 14>>
       [] n = 14 -> <<15>>
       [] n = 15 -> <<16>>
       [] n = 21 -> <<22, 26>>
       [] n = 22 -> <<25>>
       [] n = 25 -> <<27>>
       [] n = 26 -> <<23, 24>>
       [] OTHER  -> <<>>]

MCTest ==
  [n \in MCNode |-> CASE n \in {4, 6, 27} -> "discriminator"
                      [] n \in {7, 16} -> "assert"
                      [] OTHER -> "none"]

MCPreNode[n \in MCNode] ==
  IF n \in Sequences1 /\ MCTest[n] # "discriminator" THEN MCPreNode[MCKids[n][1]] ELSE n

MCMin == [n \in MCNode |-> IF n \in {5, 22, 23} THEN 0 ELSE 1]
MCMax == [n \in MCNode |-> IF n \in {5, 18, 22, 24} THEN 2 ELSE 1]

MCChoiceFrame == [n \in MCNode |-> IF n = 12 THEN 1 ELSE 0]

MCNew  == [n \in MCNode |-> IF n = 8 THEN {"x"} ELSE {}]
MCSet  == [n \in MCNode |-> IF n \in {2, 8} THEN {"x"} ELSE {}]
MCRead == [n \in MCNode |-> IF n \in {4, 9} THEN {"x"} ELSE {}]
============================================================================
