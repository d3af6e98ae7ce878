--------------------------- MODULE MCFarewellMonitor ---------------------------
(* Model values for FarewellMonitor.  Ali and AliArabic are one name in two  *)
(* spellings; Dots is punctuation only, so its normal form is blank.         *)
EXTENDS FarewellMonitor

CONSTANTS Ali, AliArabic, Maryam, Sara, Dots

MCNormalForm == [n \in Names |-> CASE n = AliArabic -> Ali [] n = Dots -> Nobody [] OTHER -> n]

FreshRoom == {<<>>}

(* The room still shows how its last meeting ended.                          *)
UsedRoom == {<<>>, <<[name |-> Ali, farewell |-> TRUE, markup |-> 1],
                     [name |-> Maryam, farewell |-> TRUE, markup |-> 1]>>}
=============================================================================
