--------------------------- MODULE SentimentPolicy ---------------------------
(***************************************************************************)
(* The rules of sentiment_policy: relevance, score, directional bias and   *)
(* classification confidence of one article.  A text is the set of terms   *)
(* it contains (a text with "etf approval" also contains "approval").      *)
(* Scores are in hundredths and confidences in ten-thousandths, which is   *)
(* what the code rounds to.                                                *)
(***************************************************************************)
EXTENDS Integers, FiniteSetsExt

BtcTerms == {"btc", "btcusd", "bitcoin", "xbt"}
NoiseTerms ==
  {"sponsored", "advertisement", "promo", "placeholder", "test post", "duplicate"}

PositiveWeights ==
  [approval |-> 20, adoption |-> 18, accumulation |-> 18, bullish |-> 30,
   breakout |-> 24, inflows |-> 22, rally |-> 24, surge |-> 22, support |-> 14,
   upgrade |-> 16, etf_approval |-> 35, institutional_inflows |-> 30]

NegativeWeights ==
  [ban |-> 28, bearish |-> 30, crackdown |-> 30, exploit |-> 28, hack |-> 34,
   lawsuit |-> 22, liquidation |-> 24, outflows |-> 22, rejection |-> 20,
   selloff |-> 30, regulatory_crackdown |-> 36]

RelevanceForText(terms, hasSource) ==
  CASE terms \cap NoiseTerms # {} \/ ~hasSource -> "NOISE"
    [] terms \cap NoiseTerms = {} /\ hasSource /\ terms \cap BtcTerms # {} -> "RELEVANT"
    [] OTHER -> "IRRELEVANT"

Clamp(low, high, n) ==
  IF n \in low..high THEN n ELSE IF n < low THEN low ELSE high

WeightOf(weights, terms) ==
  MapThenSumSet(LAMBDA t : weights[t], terms \cap DOMAIN weights)

ScoreText(terms) ==
  Clamp(-100, 100, WeightOf(PositiveWeights, terms) - WeightOf(NegativeWeights, terms))

LongThreshold == 20
ShortThreshold == -20

DirectionalBiasForScore(score) ==
  CASE score >= LongThreshold -> "LONG"
    [] score <= ShortThreshold -> "SHORT"
    [] OTHER -> "FLAT"

RelevanceBonus == [RELEVANT |-> 1500, IRRELEVANT |-> -500, NOISE |-> -1500]

(* A normalized record always has a headline.                              *)
ClassificationConfidence(score, relevance, hasSource) ==
  LET strength == IF score < 0 THEN -score ELSE score
  IN  Clamp(0, 10000, 3500 + 40 * strength + RelevanceBonus[relevance] + 500
                      + (IF hasSource THEN 500 ELSE -1000))
=============================================================================
