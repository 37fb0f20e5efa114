---------------------------- MODULE MCQualityReport ----------------------------
(* Twelve minutes of prices with a gap; six records, up to three of them   *)
(* in a dataset; windows of three minutes, pages of two candles.           *)
EXTENDS QualityReport

MCMinutes == 0..1500
MCTraded == (0..4) \cup (6..9) \cup {15, 16}
MCPrice ==
  [m \in MCTraded |-> IF m = 1 THEN 2001 ELSE IF m = 7 THEN 2010 ELSE IF m = 16 THEN 1990
                      ELSE 2000]

(* Three epsilons above its price: directions depend on which one is used. *)
MCUnfinished == [m \in MCTraded |-> MCPrice[m] + 3]

(* Two candles of an earlier time, now these and now those, one candle beyond *)
(* window, none.                                                           *)
MCOddPages == {{0, 1}, {1, 2}, {9}, {}}

MCRecord(id, timestamp, score, bias, relevance) ==
  [recordId |-> id, timestamp |-> timestamp, score |-> score, bias |-> bias,
   relevance |-> relevance]

MCRecords ==
  {MCRecord(1, 0, 4, "LONG", "RELEVANT"), MCRecord(2, 1, 0, "FLAT", "RELEVANT"),
   MCRecord(3, 2, 0, "FLAT", "NOISE"), MCRecord(4, 8, -5, "SHORT", "RELEVANT"),
   MCRecord(5, 12, 4, "LONG", "RELEVANT"), MCRecord(6, 16, -5, "SHORT", "RELEVANT")}

MCHorizons == {<<1, "minutes">>, <<15, "minutes">>, <<1, "days">>}

MCEnvironment(quality, price, runtime) ==
  [quality |-> quality, price |-> price, runtime |-> runtime]

MCEnvironments ==
  {MCEnvironment("", "", "production"), MCEnvironment("", "fixture", "local"),
   MCEnvironment("", "fixture", "production"), MCEnvironment("fixture", "", "local"),
   MCEnvironment("fixture", "", "production")}
=============================================================================
