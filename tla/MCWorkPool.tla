----------------------------- MODULE MCWorkPool -----------------------------
(* A small instance of WorkPool for TLC: more jobs than workers, a last     *)
(* batch cut short, an index listed twice, a list that is not sorted.       *)
EXTENDS WorkPool

ShuffledList == <<9, 2, 7, 4, 2, 5, 1>>
EvenAndNine == {2, 4, 9}
SevenOrTwo == {7, 2}
=============================================================================
