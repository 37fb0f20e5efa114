-------------------------- MODULE MCPriceEnrichment --------------------------
(* Two reports that may share minutes.  With one call of two minutes three *)
(* wanted minutes exceed the budget.  The provider has a candle for each   *)
(* minute that has begun; the later ones are the minutes without a candle. *)
EXTENDS PriceEnrichment, TLC

CONSTANTS r1, r2

ThreeMinutes == 0..2
OnlyOne == {1}
Symmetry == Permutations(Reports)
=============================================================================
