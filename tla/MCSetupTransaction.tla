------------------------- MODULE MCSetupTransaction -------------------------
(***************************************************************************)
(* Bounded instances of SetupTransaction.                                  *)
(***************************************************************************)
EXTENDS SetupTransaction, TLC

\* With integration and without it; an empty plan, one out of order, one with a
\* step twice and one with an unknown step; one whose third action has no Apply.
AllPlans == {<<1, 2, 3, 4, 5, 6>>, <<1, 2, 6>>, <<>>, <<2, 1, 6>>, <<1, 2, 2, 6>>,
             <<1, 7>>, <<1, 2, 5, 6>>}
ThirdMissing == {<<<<1, 2, 5, 6>>, 3>>}
=============================================================================
