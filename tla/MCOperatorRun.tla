---------------------------- MODULE MCOperatorRun ----------------------------
(***************************************************************************)
(* Instances of OperatorRun: an operator with two controllers and one that *)
(* registers a name twice; flags that run all, all but one, one, the first *)
(* of two contradicting elements, none, and an unknown one.                *)
(***************************************************************************)
EXTENDS OperatorRun

MCRegistrations == {<<2, 1>>, <<1, 1>>}
MCFlagLists == {<<Star>>, <<Star, Off(1)>>, <<On(2)>>, <<Off(2), On(2), On(1)>>, <<>>, <<On(3)>>}
=============================================================================
