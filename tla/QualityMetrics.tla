---------------------------- MODULE QualityMetrics ----------------------------
(***************************************************************************)
(* What a quality report computes from one record and its candles, and     *)
(* what it shows of all of them.  Timestamps are in ticks of a part of a   *)
(* minute; prices and scores are integers in small units, so that returns  *)
(* are compared exactly.                                                   *)
(***************************************************************************)
EXTENDS Integers, Sequences, FiniteSets

CONSTANTS
  TicksPerMinute,            \* resolution of timestamps
  EpsilonInverse,            \* 1 / PRICE_MOVEMENT_FLAT_EPSILON
  MaxRepresentativeRecords,  \* MAX_REPRESENTATIVE_RECORDS
  MaxChartPoints             \* MAX_CHART_POINTS

ASSUME TicksAssumption == TicksPerMinute \in Nat \ {0}
ASSUME MaxAssumption == MaxRepresentativeRecords \in Nat /\ MaxChartPoints \in Nat

NoReturn == <<>>
NoDirection == "NONE"

FloorToMinute(t) == t \div TicksPerMinute
HorizonTarget(t, horizon) == FloorToMinute(t + horizon * TicksPerMinute)

(* required_candle_open_times                                              *)
RequiredOpenTimes(timestamps, horizon) ==
  UNION {{FloorToMinute(t), HorizonTarget(t, horizon)} : t \in timestamps}

(* The change from one close price to another is later - first over first. *)
ClassifyRealizedDirection(first, later) ==
  IF (later - first) * EpsilonInverse > first THEN "UP"
  ELSE IF (first - later) * EpsilonInverse > first THEN "DOWN"
  ELSE "FLAT"

(* compute_price_movement: a PriceCandle has a positive, finite close      *)
(* price, so its two other missing reasons do not occur.                   *)
Movement(t, horizon, candles, price) ==
  LET event == FloorToMinute(t)
      target == HorizonTarget(t, horizon)
  IN  IF event \notin candles
        THEN [reason |-> "MISSING_EVENT_CANDLE", laterReturn |-> NoReturn,
              direction |-> NoDirection]
      ELSE IF target \notin candles
        THEN [reason |-> "MISSING_HORIZON_CANDLE", laterReturn |-> NoReturn,
              direction |-> NoDirection]
      ELSE [reason |-> "none",
            laterReturn |-> <<price[target] - price[event], price[event]>>,
            direction |-> ClassifyRealizedDirection(price[event], price[target])]

IsHit(bias, direction) ==
  <<bias, direction>> \in {<<"LONG", "UP">>, <<"SHORT", "DOWN">>, <<"FLAT", "FLAT">>}

SameReturn(a, b) == a[1] * b[2] = b[1] * a[2]

(* _pearson_correlation: None for less than two pairs, or when one side    *)
(* does not vary.  Its value is a float and left out.                      *)
HasCorrelation(pairs) ==
  /\ \E i, j \in DOMAIN pairs : pairs[i][1] # pairs[j][1]
  /\ \E i, j \in DOMAIN pairs : ~SameReturn(pairs[i][2], pairs[j][2])

(* Wrong variant: the last record is never shown.                          *)
SampleIndexEarly(k, n, max) == (k * (n - 1)) \div max

(* _sample_chart_points and _sample_representative_records: max of the     *)
(* records, counted from 0, evenly spread.                                 *)
SampleIndex(k, n, max) == (k * (n - 1)) \div (max - 1)

Sample(seq, max) ==
  IF Len(seq) <= max THEN seq
  ELSE IF max = 0 THEN <<>>
  ELSE IF max = 1 THEN <<seq[1]>>
  ELSE [k \in 1..max |-> seq[SampleIndex(k - 1, Len(seq), max) + 1]]

(* The key (event_timestamp, record_id, headline): within a run the        *)
(* record_id decides.                                                      *)
Earlier(r, q) ==
  \/ r.timestamp < q.timestamp
  \/ r.timestamp = q.timestamp /\ r.recordId < q.recordId

(* What sorted() returns of the records.                                   *)
Sorted(rs) ==
  {s \in [1..Cardinality(rs) -> rs] : \A i, j \in DOMAIN s : i < j => Earlier(s[i], s[j])}
=============================================================================
