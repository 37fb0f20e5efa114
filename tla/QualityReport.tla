----------------------------- MODULE QualityReport -----------------------------
(***************************************************************************)
(* GET .../quality from the request to its answer: the route, the provider *)
(* of quality inputs, the enrichment with prices (whose calls are          *)
(* KlinePages) and the loop of build_quality_report over the records.      *)
(***************************************************************************)
EXTENDS KlinePages, QualityMetrics

CONSTANTS
  Price,      \* close price of each traded minute
  Unfinished, \* bound: the one close price its candle had while it ran
  Records,    \* records of completed datasets
  MaxRecords, \* bound: records of a dataset
  MaxEarly,   \* bound: candles cached before their minute ended
  Horizons,   \* <<value, unit>> a request may ask for
  Environments  \* QSA_BACKTEST_QUALITY_PROVIDER, QSA_PRICE_PROVIDER, QSA_RUNTIME_ENV

ASSUME PriceAssumption ==
  Price \in [Traded -> Nat \ {0}] /\ Unfinished \in [Traded -> Nat \ {0}]

Biases == {"LONG", "SHORT", "FLAT"}
Relevance == {"RELEVANT", "NOISE", "IRRELEVANT"}
StoredRecord ==
  [recordId : Nat, timestamp : Nat, score : Int, bias : Biases, relevance : Relevance]

ASSUME RecordsAssumption == IsFiniteSet(Records) /\ Records \subseteq StoredRecord
ASSUME MaxRecordsAssumption == MaxRecords \in Nat

VARIABLES
  request,   \* what is asked, and the stored state it meets
  phase,     \* what get_backtest_quality_report does next
  warnings,  \* of the enrichment and of the report
  inputs,    \* QualityInputBatch.records, in the order of the report
  at,        \* how many of them the loop has counted
  counts,    \* the counters of the loop
  pairs,     \* correlation_pairs
  points,    \* chart_points: their outcomes
  answer     \* HTTP status of the answer, 0 while there is none

requestVars == <<phase, warnings, inputs, at, counts, pairs, points, answer>>
vars == <<pagesVars, request, requestVars>>

(* SUPPORTED_QUALITY_HORIZON_PRESETS                                       *)
SupportedHorizons ==
  {<<1, "minutes">>, <<15, "minutes">>, <<1, "hours">>, <<4, "hours">>, <<24, "hours">>}

(* horizon_to_timedelta, in minutes                                        *)
HorizonMinutes(h) ==
  h[1] * (CASE h[2] = "minutes" -> 1 [] h[2] = "hours" -> 60 [] h[2] = "days" -> 1440)

(* get_quality_input_provider; QSA_BACKTEST_QUALITY_PROVIDER and           *)
(* QSA_RUNTIME_ENV                                                         *)
QualityInputProvider(configured, runtime) ==
  IF configured = "fixture" /\ runtime = "local" THEN "fixture"
  ELSE IF configured # "" THEN "not ready"
  ELSE "completed"

(* get_historical_price_provider                                           *)
HistoricalPriceProvider(configured, runtime) ==
  IF configured \in {"", "binance"} THEN "binance"
  ELSE IF configured = "fixture" /\ runtime = "local" THEN "fixture"
  ELSE "misconfigured"

(* _local_fixture_records: scores in tenths, returns in hundredths         *)
Fixture(k, score, bias, laterReturn, direction, relevance) ==
  [recordId |-> k, timestamp |-> k * TicksPerMinute, score |-> score, bias |-> bias,
   laterReturn |-> laterReturn, direction |-> direction, relevance |-> relevance]

FixtureInputs ==
  << Fixture(1, 8, "LONG", <<4, 100>>, "UP", "RELEVANT"),
     Fixture(2, -6, "SHORT", <<-3, 100>>, "DOWN", "RELEVANT"),
     Fixture(3, 0, "FLAT", <<0, 100>>, "FLAT", "RELEVANT"),
     Fixture(4, 5, "LONG", NoReturn, NoDirection, "RELEVANT"),
     Fixture(5, -9, "SHORT", <<-2, 100>>, "DOWN", "NOISE") >>

Timestamps(rs) == {r.timestamp : r \in rs}

(* What is stored under the run                                            *)
Stored ==
  {[dataset |-> d, records |-> {}] : d \in {"none", "limitation"}}
  \cup {[dataset |-> "completed", records |-> rs] :
          rs \in {x \in SUBSET Records : Cardinality(x) <= MaxRecords}}

(* early are the cached candles of a minute that had not ended when it was *)
(* cached; running is the last minute when it has not ended yet.           *)
Request(h, env, stored, cached, early, running, cacheFails) ==
  [horizon |-> h, dataset |-> stored.dataset, records |-> stored.records,
   provider |-> QualityInputProvider(env.quality, env.runtime),
   prices |-> HistoricalPriceProvider(env.price, env.runtime),
   cached |-> cached, early |-> early, running |-> running, cacheFails |-> cacheFails]

(* The fixture provider knows no minute that runs.                         *)
MayRun(env) == HistoricalPriceProvider(env.price, env.runtime) = "binance"
LastTraded == {m \in Traded : \A k \in Traded : k <= m}

EarlyOf(cached, running) ==
  {e \in SUBSET cached : Cardinality(e) <= MaxEarly /\ running \cap cached \subseteq e}

NoCounts ==
  [hit |-> 0, miss |-> 0, missing |-> 0, flat |-> 0, noise |-> 0]

(* The request, the environment of its process and the rows it meets; what *)
(* will be missing follows from them.                                      *)
ReportInit ==
  /\ \E h \in Horizons, env \in Environments, stored \in Stored, cacheFails \in BOOLEAN :
       LET timestamps == Timestamps(stored.records)
           required == RequiredOpenTimes(timestamps, HorizonMinutes(h))
       IN \E cached \in SUBSET (required \cap Traded),
             running \in SUBSET (required \cap LastTraded) :
            \E early \in EarlyOf(cached, running) :
              /\ cacheFails => cached = {}
              /\ early \cup running # {} => MayRun(env)
              /\ request = Request(h, env, stored, cached, early, running, cacheFails)
              /\ missing = required \ cached
  /\ PagesInit
  /\ phase = "asked"
  /\ warnings = {} /\ inputs = <<>> /\ at = 0
  /\ counts = NoCounts /\ pairs = <<>> /\ points = <<>> /\ answer = 0

Nothing == UNCHANGED <<inputs, at, counts, pairs, points>>

-----------------------------------------------------------------------------
(* The route and get_quality_inputs: what ends the request with an error.  *)
Refusal ==
  IF request.horizon \notin SupportedHorizons THEN 422
  ELSE IF request.provider = "not ready" THEN 409
  ELSE IF request.provider = "fixture" THEN 0
  ELSE IF request.dataset = "none" THEN 404
  ELSE IF request.dataset = "limitation" \/ request.records = {} THEN 409
  ELSE 0

Refuse ==
  /\ phase = "asked" /\ Refusal # 0
  /\ phase' = "answered" /\ answer' = Refusal
  /\ Nothing /\ UNCHANGED <<pagesVars, request, warnings>>

UseFixture ==
  /\ phase = "asked" /\ Refusal = 0 /\ request.provider = "fixture"
  /\ phase' = "count" /\ inputs' = FixtureInputs
  /\ UNCHANGED <<pagesVars, request, warnings, at, counts, pairs, points, answer>>

(* _read_cached_candles; with every candle cached no call is made.         *)
ReadCache ==
  /\ phase = "asked" /\ Refusal = 0 /\ request.provider = "completed"
  /\ phase' = "fetch"
  /\ warnings' = IF request.cacheFails THEN {"cache read failed"} ELSE {}
  /\ Nothing /\ UNCHANGED <<pagesVars, request, answer>>

Fetch ==
  /\ phase = "fetch"
  /\ \/ LayOut
     \/ request.prices = "binance" /\ (FetchPage \/ PageUnavailable \/ PageUnusable)
     \/ request.prices = "misconfigured" /\ ConfigurationFails
     \/ request.prices = "fixture" /\ FixtureCall
  /\ UNCHANGED <<request, requestVars>>

-----------------------------------------------------------------------------
Candles == request.cached \cup fetched

(* Wrong variant: a cached candle is kept beside a fetched one.            *)
IsUnfinishedCached(m) ==
  IF m \in request.cached THEN m \in request.early ELSE m \in request.running

(* A fetched candle replaces the cached one of its minute.                 *)
IsUnfinished(m) ==
  IF m \in fetched THEN m \in request.running ELSE m \in request.early

ClosePrices == [m \in Traded |-> IF IsUnfinished(m) THEN Unfinished[m] ELSE Price[m]]

MovementOf(r, candles, prices) ==
  Movement(r.timestamp, HorizonMinutes(request.horizon), candles, prices)

Input(r) ==
  LET m == MovementOf(r, Candles, ClosePrices) IN
  [recordId |-> r.recordId, timestamp |-> r.timestamp, score |-> r.score, bias |-> r.bias,
   laterReturn |-> m.laterReturn, direction |-> m.direction, relevance |-> r.relevance]

Reasons ==
  {MovementOf(r, Candles, ClosePrices).reason : r \in request.records} \ {"none"}

(* The end of enrich_quality_inputs: cached and fetched candles together,  *)
(* and the warnings of what is missing.  The order of the dataset is that  *)
(* of the report.                                                          *)
Enrich ==
  /\ phase = "fetch" /\ FetchEnded
  /\ \E ordered \in Sorted(request.records) :
       inputs' = [i \in DOMAIN ordered |-> Input(ordered[i])]
  /\ warnings' = warnings \cup Reasons
       \cup (IF rest = {} THEN {} ELSE {"fetch budget reached"})
       \cup (IF failure = "none" THEN {} ELSE {failure})
       \cup (IF failure # "none" /\ calls + 1 < Len(windows)
               THEN {"windows skipped after failure"} ELSE {})
  /\ phase' = "count"
  /\ UNCHANGED <<pagesVars, request, at, counts, pairs, points, answer>>

-----------------------------------------------------------------------------
(* build_quality_report, one record                                        *)
Plus(flag) == IF flag THEN 1 ELSE 0

Outcome(r) ==
  IF r.relevance # "RELEVANT" THEN "EXCLUDED"
  ELSE IF r.direction # NoDirection /\ IsHit(r.bias, r.direction) THEN "HIT"
  ELSE "MISS"

(* Wrong variant: every record with a movement is a pair.                  *)
AddPairAlways(r) ==
  IF r.laterReturn # NoReturn THEN Append(pairs, <<r.score, r.laterReturn>>) ELSE pairs

AddPair(r) ==
  IF r.relevance = "RELEVANT" /\ r.laterReturn # NoReturn
    THEN Append(pairs, <<r.score, r.laterReturn>>) ELSE pairs

Counted(r) ==
  LET relevant == r.relevance = "RELEVANT" IN
  [hit |-> counts.hit + Plus(Outcome(r) = "HIT"),
   miss |-> counts.miss + Plus(Outcome(r) = "MISS"),
   missing |-> counts.missing + Plus(relevant /\ r.direction = NoDirection),
   flat |-> counts.flat + Plus(relevant /\ r.bias = "FLAT"),
   noise |-> counts.noise + Plus(~relevant)]

CountRecord ==
  /\ phase = "count" /\ at < Len(inputs)
  /\ at' = at + 1
  /\ LET r == inputs[at + 1] IN
       /\ counts' = Counted(r)
       /\ pairs' = AddPair(r)
       /\ points' = Append(points, <<r.recordId, Outcome(r)>>)
  /\ UNCHANGED <<pagesVars, request, phase, warnings, inputs, answer>>

ChartPoints == Sample(points, MaxChartPoints)
RepresentativeRecords == Sample(inputs, MaxRepresentativeRecords)

BuildWarnings ==
  warnings
  \cup (IF counts.missing = 0 THEN {} ELSE {"missing movements"})
  \cup (IF counts.noise = 0 THEN {} ELSE {"noise excluded"})
  \cup (IF HasCorrelation(pairs) THEN {} ELSE {"no correlation"})

Answer ==
  /\ phase = "count" /\ at = Len(inputs)
  /\ warnings' = BuildWarnings
  /\ phase' = "answered" /\ answer' = 200
  /\ Nothing /\ UNCHANGED <<pagesVars, request>>

Proceed == Refuse \/ UseFixture \/ ReadCache \/ Fetch \/ Enrich \/ CountRecord \/ Answer

ReportSpec == ReportInit /\ [][Proceed]_vars /\ WF_vars(Proceed)

-----------------------------------------------------------------------------
(* A price movement in a report is the exchange's, however the missing     *)
(* minutes fell into windows and pages, but for two kinds of minutes: one  *)
(* that runs while it is fetched, and one that was cached before it ended  *)
(* and not fetched again.  A movement that is left out does not exist, or  *)
(* the fetch did not end well.                                             *)
KnownEarly == (request.early \ fetched) \cup (request.running \cap fetched)

PricesButEarly == [m \in Traded |-> IF m \in KnownEarly THEN Unfinished[m] ELSE Price[m]]

ReportsAreOfPrices ==
  phase \in {"count", "answered"} /\ request.provider = "completed" =>
    \A i \in DOMAIN inputs :
      LET m == MovementOf(inputs[i], Traded, PricesButEarly) IN
      \/ inputs[i].laterReturn = m.laterReturn /\ inputs[i].direction = m.direction
      \/ /\ inputs[i].laterReturn = NoReturn /\ inputs[i].direction = NoDirection
         /\ exchange = "odd" \/ rest # {} \/ failure # "none"

(* The counters agree with each other and with the chart at every record   *)
(* of the loop: each sample has a return or is counted as missing, the     *)
(* missing and the flat ones are samples, and the excluded ones are noise. *)
PointsWith(outcome) == {i \in DOMAIN points : points[i][2] = outcome}

CountersAddUp ==
  /\ counts.hit + counts.miss = Len(pairs) + counts.missing
  /\ counts.hit + counts.miss + counts.noise = at
  /\ counts.missing <= counts.miss
  /\ counts.flat <= counts.hit + counts.miss
  /\ counts.hit = Cardinality(PointsWith("HIT"))
  /\ counts.noise = Cardinality(PointsWith("EXCLUDED"))

(* What the report shows of a dataset larger than its limit spans it: from *)
(* the first record to the last, in order and without repeating one.       *)
SamplesSpan ==
  phase = "answered" /\ answer = 200 =>
    /\ \A k, l \in DOMAIN RepresentativeRecords :
         k < l => Earlier(RepresentativeRecords[k], RepresentativeRecords[l])
    /\ Len(ChartPoints) = IF at < MaxChartPoints THEN at ELSE MaxChartPoints
    /\ MaxChartPoints >= 2 =>
         /\ ChartPoints[1] = points[1]
         /\ ChartPoints[Len(ChartPoints)] = points[at]

(* Every request is answered: an exchange that repeats its pages is left.  *)
ReportEnds == <>(phase = "answered")
=============================================================================
