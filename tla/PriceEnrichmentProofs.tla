------------------------- MODULE PriceEnrichmentProofs -------------------------
(***************************************************************************)
(* Reports that share the candle cache, for any number of them, any        *)
(* minutes, windows and budget: upserts never wait for each other in a     *)
(* circle, no fetched candle is silently lost, and what a report leaves    *)
(* out without a word on a failure does not exist.                         *)
(***************************************************************************)
EXTENDS PriceEnrichment, TLAPS, FiniteSetTheorems, WellFoundedInduction

(* A report that writes holds the rows before the next one, and only a     *)
(* report that writes holds any.                                           *)
LocksAreBehind ==
  \A r \in Reports, m \in Minutes :
    locks[m] = r => /\ At(r, "write") /\ ~report[r].aborted
                    /\ \A n \in report[r].toWrite : m < n

(* What a report fetched is with it until its write ended, and in the      *)
(* cache when that succeeded.                                              *)
FetchedIsKept ==
  \A r \in Reports :
    /\ report[r].step \in {"new", "read"} =>
         report[r].fetched = NoCandles /\ report[r].rest = {}
    /\ report[r].step \in {"reread", "finish", "done"}
         /\ "cache write failed" \notin report[r].warnings
       => Has(report[r].fetched) \subseteq Has(cache)

(* Where a wanted minute's candle is, if there is one.                     *)
Known(r, m) == m \in Has(report[r].candles) \/ m \notin Traded \/ m > report[r].askedAt

WantedIsKnownOrWarned ==
  \A r \in Reports :
    /\ ~At(r, "new") => report[r].askedAt <= clock
    /\ report[r].step \in {"fetch", "merge"} /\ "fetch budget reached" \notin report[r].warnings
       => \A m \in report[r].wanted :
            \/ Known(r, m) \/ m \in Has(report[r].fetched) \/ m \in report[r].rest
    /\ At(r, "merge") => report[r].rest = {} \/ "provider failed" \in report[r].warnings
    /\ /\ report[r].step \in {"write", "reread", "finish", "done"}
       /\ {"fetch budget reached", "provider failed"} \cap report[r].warnings = {}
       => \A m \in report[r].wanted : Known(r, m)

EnrichmentInv ==
  TypeOK /\ LocksAreBehind /\ FetchedIsKept /\ WantedIsKnownOrWarned

-----------------------------------------------------------------------------
(* Minutes are finitely many, so any of them have a latest one.            *)
LEMMA LatestMinute ==
  ASSUME NEW T \in SUBSET Minutes, T # {}
  PROVE  \E m \in T : \A n \in T : n <= m
<1> DEFINE HasLatest(U) == \E m \in U : \A n \in U : n <= m
           Bad == {U \in FiniteSubsetsOf(Minutes) : U # {} /\ ~HasLatest(U)}
<1>0. Minutes \subseteq Nat
  BY MinutesAssumption
<1>1. SUFFICES ASSUME Bad # {} PROVE FALSE
  BY <1>1, MinutesAreFinite, FS_FiniteSubsetsOfFinite
<1>2. PICK U \in Bad : \A V \in Bad : <<V, U>> \notin StrictSubsetOrdering(Minutes)
  <2>1. Bad \subseteq FiniteSubsetsOf(Minutes)
    OBVIOUS
  <2>2. IsWellFoundedOn(StrictSubsetOrdering(Minutes), FiniteSubsetsOf(Minutes))
    BY FS_StrictSubsetOrderingWellFounded
  <2> HIDE DEF Bad
  <2> QED
    BY <1>1, <2>1, <2>2, WFMin
<1>3. PICK x \in U : TRUE
  OBVIOUS
<1>4. U \ {x} \in FiniteSubsetsOf(Minutes) /\ U \subseteq Nat
  BY <1>0, FS_RemoveElement DEF FiniteSubsetsOf
<1>5. <<U \ {x}, U>> \in StrictSubsetOrdering(Minutes)
  BY <1>3, <1>4 DEF FiniteSubsetsOf, StrictSubsetOrdering
<1>6. U \ {x} = {} \/ HasLatest(U \ {x})
  BY <1>2, <1>4, <1>5
<1>7. HasLatest(U)
  BY <1>3, <1>4, <1>6
<1> QED
  BY <1>7

(* Overlaying candles loses none.                                          *)
LEMMA OverlayHas ==
  ASSUME NEW old \in Candles, NEW new \in Candles
  PROVE  Overlay(old, new) \in Candles /\ Has(Overlay(old, new)) = Has(old) \cup Has(new)
BY DEF Candles, Overlay, Has, Price

(* Of several reports that write at a time, one waits for none of them:    *)
(* whoever has the latest next row holds no row another one waits for.     *)
LEMMA LatestRowIsFree == TypeOK /\ LocksAreBehind => NoUpsertDeadlock
<1> SUFFICES ASSUME TypeOK, LocksAreBehind, NEW S \in SUBSET Reports, S # {},
                    \A r \in S : \E s \in S : WaitsFor(r, s)
             PROVE  FALSE
  BY DEF NoUpsertDeadlock
<1> DEFINE T == {m \in Minutes : \E r \in S : NextRow(r, m)}
<1>1. \A r \in S : \E m \in Minutes, s \in S : NextRow(r, m) /\ locks[m] = s
  BY DEF WaitsFor, Writes, NextRow, TypeOK
<1>2. PICK m \in T : \A n \in T : n <= m
  <2>1. T # {}
    BY <1>1
  <2> QED
    BY <2>1, LatestMinute
<1>3. PICK r \in S : NextRow(r, m)
  BY <1>2
<1>4. PICK s \in S : locks[m] = s
  <2>1. PICK n \in Minutes, s \in S : NextRow(r, n) /\ locks[n] = s
    BY <1>1, <1>3
  <2>2. n = m
    BY <1>2, <1>3, <2>1, MinutesAssumption DEF NextRow, TypeOK
  <2> QED
    BY <2>1, <2>2
<1>5. PICK n \in Minutes : NextRow(s, n)
  BY <1>1, <1>4
<1>6. m < n
  BY <1>4, <1>5 DEF LocksAreBehind, NextRow
<1> QED
  BY <1>2, <1>5, <1>6, MinutesAssumption

-----------------------------------------------------------------------------
(* No candle is no candle.                                                 *)
LEMMA NothingYet == NoCandles \in Candles /\ Has(NoCandles) = {}
BY DEF NoCandles, Candles, Has, Price

LEMMA InitEnrichment == Init => EnrichmentInv
<1> SUFFICES ASSUME Init PROVE EnrichmentInv
  OBVIOUS
<1>1. TypeOK
  <2>1. NewReport \in [step : Step, askedAt : Nat, wanted : SUBSET Minutes,
          candles : Candles, rest : SUBSET Minutes, fetched : Candles,
          toWrite : SUBSET Minutes, aborted : BOOLEAN, warnings : SUBSET Warning]
    BY NothingYet DEF NewReport, Step
  <2>2. NewReport.rest \subseteq NewReport.wanted
        /\ NewReport.toWrite \subseteq Has(NewReport.fetched)
    BY DEF NewReport
  <2>3. \A r \in Reports : report[r] = NewReport
    BY DEF Init
  <2> QED
    BY NothingYet, <2>1, <2>2, <2>3 DEF Init, TypeOK
<1>2. LocksAreBehind /\ FetchedIsKept /\ WantedIsKnownOrWarned
  BY NobodyAssumption DEF Init, NewReport, LocksAreBehind, FetchedIsKept,
     WantedIsKnownOrWarned, At
<1> QED
  BY <1>1, <1>2 DEF EnrichmentInv

(* What is to show of a step of report r: the others know what they knew,  *)
(* the cache lost nothing, and r's own part of the invariant.              *)
OthersKnow(r) ==
  /\ report' = [report EXCEPT ![r] = report'[r]]
  /\ clock' = clock
  /\ cache' \in Candles /\ Has(cache) \subseteq Has(cache')
  /\ \A m \in Minutes : locks'[m] = locks[m] \/ (locks[m] = r /\ locks'[m] = Nobody)
                        \/ locks'[m] = r
  /\ locks' \in [Minutes -> Reports \cup {Nobody}]

Typed(known) ==
  /\ known \in [step : Step, askedAt : Nat, wanted : SUBSET Minutes,
                candles : Candles, rest : SUBSET Minutes, fetched : Candles,
                toWrite : SUBSET Minutes, aborted : BOOLEAN, warnings : SUBSET Warning]
  /\ known.rest \subseteq known.wanted
  /\ known.toWrite \subseteq Has(known.fetched)

OwnPart(r) ==
  /\ Typed(report'[r])
  /\ \A m \in Minutes : locks'[m] = r =>
       /\ report'[r].step = "write" /\ ~report'[r].aborted
       /\ \A n \in report'[r].toWrite : m < n
  /\ report'[r].step \in {"new", "read"} =>
       report'[r].fetched = NoCandles /\ report'[r].rest = {}
  /\ report'[r].step \in {"reread", "finish", "done"}
       /\ "cache write failed" \notin report'[r].warnings
     => Has(report'[r].fetched) \subseteq Has(cache')
  /\ report'[r].step # "new" => report'[r].askedAt <= clock
  /\ report'[r].step \in {"fetch", "merge"} /\ "fetch budget reached" \notin report'[r].warnings
     => \A m \in report'[r].wanted :
          \/ m \in Has(report'[r].candles) \/ m \notin Traded \/ m > report'[r].askedAt
          \/ m \in Has(report'[r].fetched) \/ m \in report'[r].rest
  /\ report'[r].step = "merge" =>
       report'[r].rest = {} \/ "provider failed" \in report'[r].warnings
  /\ /\ report'[r].step \in {"write", "reread", "finish", "done"}
     /\ {"fetch budget reached", "provider failed"} \cap report'[r].warnings = {}
     => \A m \in report'[r].wanted :
          m \in Has(report'[r].candles) \/ m \notin Traded \/ m > report'[r].askedAt

LEMMA StepKeeps ==
  ASSUME EnrichmentInv, NEW r \in Reports, OthersKnow(r), OwnPart(r)
  PROVE  EnrichmentInv'
<1> USE DEF EnrichmentInv, OthersKnow
<1>0. report \in [Reports -> [step : Step, askedAt : Nat, wanted : SUBSET Minutes,
        candles : Candles, rest : SUBSET Minutes, fetched : Candles,
        toWrite : SUBSET Minutes, aborted : BOOLEAN, warnings : SUBSET Warning]]
  BY DEF TypeOK
<1>1. \A q \in Reports : q # r => report'[q] = report[q]
  BY <1>0
<1>2. TypeOK'
  <2>1. \A q \in Reports : Typed(report'[q])
    BY <1>1 DEF OwnPart, Typed, TypeOK
  <2>2. DOMAIN report' = Reports /\ report' = [q \in Reports |-> report'[q]]
    BY <1>0
  <2>3. report' \in [Reports -> [step : Step, askedAt : Nat, wanted : SUBSET Minutes,
          candles : Candles, rest : SUBSET Minutes, fetched : Candles,
          toWrite : SUBSET Minutes, aborted : BOOLEAN, warnings : SUBSET Warning]]
    BY <2>1, <2>2 DEF Typed
  <2>4. \A q \in Reports : /\ report'[q].rest \subseteq report'[q].wanted
                           /\ report'[q].toWrite \subseteq Has(report'[q].fetched)
    BY <2>1 DEF Typed
  <2>5. clock' \in Minutes /\ cache' \in Candles /\ locks' \in [Minutes -> Reports \cup {Nobody}]
    BY DEF TypeOK
  <2> QED
    BY <2>3, <2>4, <2>5 DEF TypeOK, Has
<1>3. LocksAreBehind'
  <2> SUFFICES ASSUME NEW q \in Reports, NEW m \in Minutes, locks'[m] = q
               PROVE  /\ report'[q].step = "write" /\ ~report'[q].aborted
                      /\ \A n \in report'[q].toWrite : m < n
    BY DEF LocksAreBehind, At
  <2>1. CASE q = r
    BY <2>1 DEF OwnPart
  <2>2. CASE q # r
    BY <1>1, <2>2, NobodyAssumption DEF LocksAreBehind, At
  <2> QED
    BY <2>1, <2>2
<1>4. FetchedIsKept'
  <2>1. ASSUME NEW q \in Reports, report'[q].step \in {"new", "read"}
        PROVE  report'[q].fetched = NoCandles /\ report'[q].rest = {}
    BY <1>1, <2>1 DEF OwnPart, FetchedIsKept
  <2>2. ASSUME NEW q \in Reports, report'[q].step \in {"reread", "finish", "done"},
               "cache write failed" \notin report'[q].warnings
        PROVE  Has(report'[q].fetched) \subseteq Has(cache')
    BY <1>1, <2>2 DEF OwnPart, FetchedIsKept
  <2> QED
    BY <2>1, <2>2 DEF FetchedIsKept, Has, NoCandles
<1>5. WantedIsKnownOrWarned'
  <2> SUFFICES ASSUME NEW q \in Reports
               PROVE  /\ report'[q].step # "new" => report'[q].askedAt <= clock
                      /\ /\ report'[q].step \in {"fetch", "merge"}
                         /\ "fetch budget reached" \notin report'[q].warnings
                         => \A m \in report'[q].wanted :
                              \/ m \in Has(report'[q].candles) \/ m \notin Traded
                              \/ m > report'[q].askedAt
                              \/ m \in Has(report'[q].fetched) \/ m \in report'[q].rest
                      /\ report'[q].step = "merge" =>
                           report'[q].rest = {} \/ "provider failed" \in report'[q].warnings
                      /\ /\ report'[q].step \in {"write", "reread", "finish", "done"}
                         /\ {"fetch budget reached", "provider failed"}
                              \cap report'[q].warnings = {}
                         => \A m \in report'[q].wanted :
                              \/ m \in Has(report'[q].candles) \/ m \notin Traded
                              \/ m > report'[q].askedAt
    BY DEF WantedIsKnownOrWarned, Known, At, Has
  <2>1. CASE q = r
    BY <2>1 DEF OwnPart
  <2>2. CASE q # r
    BY <1>1, <2>2 DEF WantedIsKnownOrWarned, Known, At
  <2> QED
    BY <2>1, <2>2
<1> QED
  BY <1>2, <1>3, <1>4, <1>5

-----------------------------------------------------------------------------
(* What the invariant says of report r, for the steps that read it.        *)
LEMMA OwnKnowledge ==
  ASSUME EnrichmentInv, NEW r \in Reports
  PROVE  /\ Typed(report[r])
         /\ report[r].step \in {"new", "read"} =>
              report[r].fetched = NoCandles /\ report[r].rest = {}
         /\ report[r].step # "new" => report[r].askedAt <= clock
         /\ report[r].step # "write" => \A m \in Minutes : locks[m] # r
BY DEF EnrichmentInv, TypeOK, Typed, LocksAreBehind, FetchedIsKept, WantedIsKnownOrWarned, At

(* A step that changes only what r knows.                                  *)
LEMMA OnlyOwnStep ==
  ASSUME EnrichmentInv, NEW r \in Reports, NEW known, Becomes(r, known), OnlyReport
  PROVE  OthersKnow(r) /\ report'[r] = known /\ cache' = cache /\ locks' = locks
         /\ clock' = clock
BY DEF EnrichmentInv, TypeOK, Becomes, OnlyReport, OthersKnow

LEMMA AskStep ==
  ASSUME EnrichmentInv, NEW r \in Reports, Ask(r)
  PROVE  OthersKnow(r) /\ OwnPart(r)
<1> PICK events \in SUBSET Minutes, h \in Horizons :
      /\ Required(events, h) \subseteq Minutes
      /\ Becomes(r, [report[r] EXCEPT !.step = "read", !.askedAt = clock,
                                      !.wanted = Required(events, h)])
  BY DEF Ask
<1> DEFINE known == [report[r] EXCEPT !.step = "read", !.askedAt = clock,
                                      !.wanted = Required(events, h)]
<1>1. OthersKnow(r) /\ report'[r] = known /\ cache' = cache /\ locks' = locks
  BY OnlyOwnStep DEF Ask
<1>2. Typed(report[r]) /\ report[r].step = "new" /\ report[r].fetched = NoCandles
      /\ \A m \in Minutes : locks[m] # r
  BY OwnKnowledge DEF Ask, At
<1>3. report[r].rest = {} /\ clock \in Nat
  BY OwnKnowledge, MinutesAssumption DEF EnrichmentInv, TypeOK, Ask, At
<1>4. Typed(known) /\ known.step = "read" /\ known.fetched = NoCandles /\ known.askedAt = clock
  BY <1>2, <1>3 DEF Typed, Step
<1> QED
  BY <1>1, <1>2, <1>3, <1>4 DEF OwnPart

(* Laying out the windows: without the budget warning every missing minute *)
(* is in one of them.                                                      *)
LEMMA WindowsCoverMissing ==
  ASSUME NEW known, Typed(known), NEW candles \in Candles
  PROVE  LET k == FetchMissing(known, candles) IN
         /\ Typed(k)
         /\ k.fetched = known.fetched /\ k.askedAt = known.askedAt /\ k.wanted = known.wanted
         /\ k.step \in {"finish", "fetch"}
         /\ k.step = "finish" => k.wanted \subseteq Has(k.candles)
         /\ "fetch budget reached" \notin k.warnings =>
              \A m \in k.wanted : m \in Has(k.candles) \/ m \in k.rest
<1> DEFINE missing == known.wanted \ Has(candles)
           left == OverBudget(missing)
           k == FetchMissing(known, candles)
<1> HIDE DEF left
<1>1. k = [known EXCEPT !.candles = candles, !.rest = missing \ left,
             !.step = IF missing = {} THEN "finish" ELSE "fetch",
             !.warnings = @ \cup (IF left = {} THEN {} ELSE {"fetch budget reached"})]
  BY DEF FetchMissing, left
<1>2. known \in [step : Step, askedAt : Nat, wanted : SUBSET Minutes,
                candles : Candles, rest : SUBSET Minutes, fetched : Candles,
                toWrite : SUBSET Minutes, aborted : BOOLEAN, warnings : SUBSET Warning]
  BY DEF Typed
<1>3. /\ k.step = IF missing = {} THEN "finish" ELSE "fetch"
      /\ k.askedAt = known.askedAt /\ k.wanted = known.wanted /\ k.candles = candles
      /\ k.rest = missing \ left /\ k.fetched = known.fetched /\ k.toWrite = known.toWrite
      /\ k.aborted = known.aborted
      /\ k.warnings = known.warnings \cup (IF left = {} THEN {} ELSE {"fetch budget reached"})
  BY <1>1, <1>2
<1>4. k \in [step : Step, askedAt : Nat, wanted : SUBSET Minutes,
             candles : Candles, rest : SUBSET Minutes, fetched : Candles,
             toWrite : SUBSET Minutes, aborted : BOOLEAN, warnings : SUBSET Warning]
  <2>1. known.warnings \cup (IF left = {} THEN {} ELSE {"fetch budget reached"})
          \in SUBSET Warning
    BY <1>2 DEF Warning
  <2>2. missing \ left \in SUBSET Minutes
    BY <1>2
  <2>3. (IF missing = {} THEN "finish" ELSE "fetch") \in Step
    BY DEF Step
  <2> QED
    BY <1>1, <1>2, <2>1, <2>2, <2>3
<1> HIDE DEF k
<1>5. Typed(k)
  BY <1>3, <1>4 DEF Typed
<1>6. k.step = "finish" => k.wanted \subseteq Has(k.candles)
  BY <1>3
<1>7. ASSUME "fetch budget reached" \notin k.warnings, NEW m \in k.wanted
      PROVE  m \in Has(k.candles) \/ m \in k.rest
  BY <1>3, <1>7
<1> QED
  BY <1>3, <1>5, <1>6, <1>7 DEF k

LEMMA FetchMissingStep ==
  ASSUME EnrichmentInv, NEW r \in Reports, At(r, "read"), NEW known, Typed(known),
         known.fetched = report[r].fetched, known.askedAt = report[r].askedAt,
         NEW candles \in Candles, Becomes(r, FetchMissing(known, candles)), OnlyReport
  PROVE  OthersKnow(r) /\ OwnPart(r)
<1> DEFINE k == FetchMissing(known, candles)
<1>1. /\ Typed(k)
      /\ k.fetched = known.fetched /\ k.askedAt = known.askedAt /\ k.wanted = known.wanted
      /\ k.step \in {"finish", "fetch"}
      /\ k.step = "finish" => k.wanted \subseteq Has(k.candles)
      /\ "fetch budget reached" \notin k.warnings =>
           \A m \in k.wanted : m \in Has(k.candles) \/ m \in k.rest
  BY WindowsCoverMissing
<1>2. report'[r] = k /\ OthersKnow(r) /\ cache' = cache /\ locks' = locks
  BY OnlyOwnStep
<1>3. k.fetched = NoCandles /\ k.askedAt <= clock /\ \A m \in Minutes : locks[m] # r
  BY <1>1, OwnKnowledge DEF At
<1> HIDE DEF k
<1> QED
  BY <1>1, <1>2, <1>3, NothingYet DEF OwnPart

LEMMA ReadCacheStep ==
  ASSUME EnrichmentInv, NEW r \in Reports, ReadCache(r)
  PROVE  OthersKnow(r) /\ OwnPart(r)
<1> DEFINE found == [m \in Minutes |->
                       IF m \in report[r].wanted THEN cache[m] ELSE "missing"]
<1>1. found \in Candles
  BY DEF EnrichmentInv, TypeOK, Candles, Price
<1>2. Becomes(r, FetchMissing(report[r], found)) /\ OnlyReport /\ At(r, "read")
  BY DEF ReadCache
<1> HIDE DEF found
<1> QED
  BY <1>1, <1>2, OwnKnowledge, FetchMissingStep

LEMMA ReadCacheFailsStep ==
  ASSUME EnrichmentInv, NEW r \in Reports, ReadCacheFails(r)
  PROVE  OthersKnow(r) /\ OwnPart(r)
<1> PICK aborted \in BOOLEAN :
      Becomes(r, FetchMissing([report[r] EXCEPT !.aborted = aborted,
                                 !.warnings = @ \cup {"cache read failed"}], NoCandles))
  BY DEF ReadCacheFails
<1> DEFINE known == [report[r] EXCEPT !.aborted = aborted,
                                      !.warnings = @ \cup {"cache read failed"}]
<1>1. Typed(known) /\ known.fetched = report[r].fetched
      /\ known.askedAt = report[r].askedAt
  BY OwnKnowledge DEF Typed, Warning
<1>2. Becomes(r, FetchMissing(known, NoCandles)) /\ OnlyReport /\ At(r, "read")
  BY DEF ReadCacheFails
<1> HIDE DEF known
<1> QED
  BY <1>1, <1>2, NothingYet, FetchMissingStep

(* The provider's answer covers its window up to the current minute.       *)
LEMMA WindowIsAnswered ==
  ASSUME TypeOK, NEW w \in Minutes \X Minutes
  PROVE  /\ Provided(w) \in Candles
         /\ \A m \in Minutes : m \in Traded /\ w[1] <= m /\ m <= w[2] /\ m <= clock =>
              m \in Has(Provided(w))
<1>1. clock \in Nat /\ w[1] \in Nat /\ w[2] \in Nat /\ Minutes \subseteq Nat
  BY MinutesAssumption DEF TypeOK
<1>2. ASSUME NEW m \in Minutes, m \in Traded, w[1] <= m, m <= w[2], m <= clock
      PROVE  Provided(w)[m] # "missing"
  <2>1. m \in Nat /\ ~(m < w[1]) /\ ~(m > w[2]) /\ ~(m > clock)
    BY <1>1, <1>2
  <2> QED
    BY <1>2, <2>1 DEF Provided
<1>3. Provided(w) \in Candles
  BY DEF Provided, Candles, Price
<1> QED
  BY <1>2, <1>3 DEF Has

LEMMA FetchWindowStep ==
  ASSUME EnrichmentInv, NEW r \in Reports, FetchWindow(r)
  PROVE  OthersKnow(r) /\ OwnPart(r)
<1> PICK w \in report[r].rest \X report[r].rest :
      /\ IsNextWindow(w, report[r].rest)
      /\ Becomes(r, [report[r] EXCEPT !.fetched = Overlay(@, Provided(w)),
                                      !.rest = Beyond(w, @)])
  BY DEF FetchWindow
<1> DEFINE known == [report[r] EXCEPT !.fetched = Overlay(@, Provided(w)),
                                      !.rest = Beyond(w, @)]
<1>1. OthersKnow(r) /\ report'[r] = known /\ cache' = cache /\ locks' = locks
  BY OnlyOwnStep DEF FetchWindow
<1>2. Typed(report[r]) /\ report[r].step = "fetch" /\ report[r].askedAt <= clock
      /\ \A m \in Minutes : locks[m] # r
  BY OwnKnowledge DEF FetchWindow, At
<1>3. report[r] \in [step : Step, askedAt : Nat, wanted : SUBSET Minutes,
                candles : Candles, rest : SUBSET Minutes, fetched : Candles,
                toWrite : SUBSET Minutes, aborted : BOOLEAN, warnings : SUBSET Warning]
  BY <1>2 DEF Typed
<1>4. /\ Overlay(report[r].fetched, Provided(w)) \in Candles
      /\ Has(Overlay(report[r].fetched, Provided(w)))
           = Has(report[r].fetched) \cup Has(Provided(w))
      /\ \A m \in report[r].rest :
           m \in Traded /\ m <= clock =>
             m \in Has(Provided(w)) \/ m \in Beyond(w, report[r].rest)
  <2>1. w \in Minutes \X Minutes /\ TypeOK
    BY <1>3 DEF EnrichmentInv
  <2>2. \A m \in report[r].rest : w[1] <= m
    BY DEF IsNextWindow
  <2>3. \A m \in report[r].rest : m \in Minutes /\ (m <= w[2] \/ m > w[2])
    BY <1>3, <2>1, MinutesAssumption
  <2>4. /\ Provided(w) \in Candles
        /\ \A m \in Minutes : m \in Traded /\ w[1] <= m /\ m <= w[2] /\ m <= clock =>
              m \in Has(Provided(w))
    BY <2>1, WindowIsAnswered
  <2> QED
    BY <1>3, <2>2, <2>3, <2>4, OverlayHas DEF Beyond
<1>5. /\ known.step = "fetch" /\ known.askedAt = report[r].askedAt
      /\ known.wanted = report[r].wanted /\ known.candles = report[r].candles
      /\ known.rest = Beyond(w, report[r].rest) /\ known.toWrite = report[r].toWrite
      /\ known.fetched = Overlay(report[r].fetched, Provided(w))
      /\ known.warnings = report[r].warnings
  BY <1>2, <1>3
<1>6. known \in [step : Step, askedAt : Nat, wanted : SUBSET Minutes,
                candles : Candles, rest : SUBSET Minutes, fetched : Candles,
                toWrite : SUBSET Minutes, aborted : BOOLEAN, warnings : SUBSET Warning]
  BY <1>3, <1>4 DEF Beyond
<1> HIDE DEF known
<1>7. Typed(known)
  BY <1>2, <1>4, <1>5, <1>6 DEF Typed, Beyond
<1>8. ASSUME "fetch budget reached" \notin known.warnings, NEW m \in known.wanted
      PROVE  \/ m \in Has(known.candles) \/ m \notin Traded \/ m > known.askedAt
             \/ m \in Has(known.fetched) \/ m \in known.rest
  <2>1. \/ m \in Has(report[r].candles) \/ m \notin Traded \/ m > report[r].askedAt
        \/ m \in Has(report[r].fetched) \/ m \in report[r].rest
    BY <1>2, <1>5, <1>8 DEF EnrichmentInv, WantedIsKnownOrWarned, Known
  <2>2. m > report[r].askedAt \/ m <= clock
    <3>1. m \in Nat /\ clock \in Nat /\ report[r].askedAt \in Nat
      BY <1>3, <1>5, MinutesAssumption DEF EnrichmentInv, TypeOK
    <3> QED
      BY <1>2, <3>1
  <2> QED
    BY <1>4, <1>5, <2>1, <2>2
<1> QED
  BY <1>1, <1>2, <1>5, <1>7, <1>8 DEF OwnPart

LEMMA FetchFailsStep ==
  ASSUME EnrichmentInv, NEW r \in Reports, FetchFails(r)
  PROVE  OthersKnow(r) /\ OwnPart(r)
<1> DEFINE known == [report[r] EXCEPT !.step = "merge",
                                      !.warnings = @ \cup {"provider failed"}]
<1>1. OthersKnow(r) /\ report'[r] = known /\ cache' = cache /\ locks' = locks
  BY OnlyOwnStep DEF FetchFails
<1>2. Typed(report[r]) /\ report[r].step = "fetch" /\ report[r].askedAt <= clock
      /\ \A m \in Minutes : locks[m] # r
  BY OwnKnowledge DEF FetchFails, At
<1>3. Typed(known)
  BY <1>2 DEF Typed, Step, Warning
<1>4. /\ known.step = "merge" /\ known.askedAt = report[r].askedAt
      /\ known.wanted = report[r].wanted /\ known.candles = report[r].candles
      /\ known.rest = report[r].rest /\ known.fetched = report[r].fetched
      /\ known.warnings = report[r].warnings \cup {"provider failed"}
  BY <1>2 DEF Typed
<1> HIDE DEF known
<1>5. ASSUME "fetch budget reached" \notin known.warnings, NEW m \in known.wanted
      PROVE  \/ m \in Has(known.candles) \/ m \notin Traded \/ m > known.askedAt
             \/ m \in Has(known.fetched) \/ m \in known.rest
  BY <1>2, <1>4, <1>5 DEF EnrichmentInv, WantedIsKnownOrWarned, Known
<1> QED
  BY <1>1, <1>2, <1>3, <1>4, <1>5 DEF OwnPart

LEMMA FetchDoneStep ==
  ASSUME EnrichmentInv, NEW r \in Reports, FetchDone(r)
  PROVE  OthersKnow(r) /\ OwnPart(r)
<1> DEFINE known == [report[r] EXCEPT !.step = "merge"]
<1>1. OthersKnow(r) /\ report'[r] = known /\ cache' = cache /\ locks' = locks
  BY OnlyOwnStep DEF FetchDone
<1>2. Typed(report[r]) /\ report[r].step = "fetch" /\ report[r].askedAt <= clock
      /\ report[r].rest = {} /\ \A m \in Minutes : locks[m] # r
  BY OwnKnowledge DEF FetchDone, At
<1>3. Typed(known)
  BY <1>2 DEF Typed, Step
<1>4. /\ known.step = "merge" /\ known.askedAt = report[r].askedAt
      /\ known.wanted = report[r].wanted /\ known.candles = report[r].candles
      /\ known.rest = report[r].rest /\ known.fetched = report[r].fetched
      /\ known.warnings = report[r].warnings
  BY <1>2 DEF Typed
<1> HIDE DEF known
<1>5. ASSUME "fetch budget reached" \notin known.warnings, NEW m \in known.wanted
      PROVE  \/ m \in Has(known.candles) \/ m \notin Traded \/ m > known.askedAt
             \/ m \in Has(known.fetched) \/ m \in known.rest
  BY <1>2, <1>4, <1>5 DEF EnrichmentInv, WantedIsKnownOrWarned, Known
<1> QED
  BY <1>1, <1>2, <1>3, <1>4, <1>5 DEF OwnPart

LEMMA MergeStep ==
  ASSUME EnrichmentInv, NEW r \in Reports, Merge(r)
  PROVE  OthersKnow(r) /\ OwnPart(r)
<1> DEFINE fetched == report[r].fetched
           known == [report[r] EXCEPT
             !.candles = Overlay(@, fetched), !.toWrite = Has(fetched),
             !.step = IF fetched = NoCandles THEN "finish" ELSE "write"]
<1>1. OthersKnow(r) /\ report'[r] = known /\ cache' = cache /\ locks' = locks
  <2>1. Becomes(r, known) /\ OnlyReport
    BY DEF Merge
  <2> QED
    BY <2>1, OnlyOwnStep
<1>2. Typed(report[r]) /\ report[r].step = "merge" /\ report[r].askedAt <= clock
      /\ \A m \in Minutes : locks[m] # r
  BY OwnKnowledge DEF Merge, At
<1>3. report[r] \in [step : Step, askedAt : Nat, wanted : SUBSET Minutes,
                candles : Candles, rest : SUBSET Minutes, fetched : Candles,
                toWrite : SUBSET Minutes, aborted : BOOLEAN, warnings : SUBSET Warning]
  BY <1>2 DEF Typed
<1>4. /\ Overlay(report[r].candles, fetched) \in Candles
      /\ Has(Overlay(report[r].candles, fetched)) = Has(report[r].candles) \cup Has(fetched)
  BY <1>3, OverlayHas
<1>5. /\ known.step = IF fetched = NoCandles THEN "finish" ELSE "write"
      /\ known.askedAt = report[r].askedAt
      /\ known.wanted = report[r].wanted
      /\ known.candles = Overlay(report[r].candles, fetched)
      /\ known.rest = report[r].rest /\ known.fetched = fetched
      /\ known.toWrite = Has(fetched)
      /\ known.warnings = report[r].warnings
  BY <1>3
<1>6. known \in [step : Step, askedAt : Nat, wanted : SUBSET Minutes,
                candles : Candles, rest : SUBSET Minutes, fetched : Candles,
                toWrite : SUBSET Minutes, aborted : BOOLEAN, warnings : SUBSET Warning]
  <2>1. Has(fetched) \in SUBSET Minutes
    BY DEF Has
  <2>2. (IF fetched = NoCandles THEN "finish" ELSE "write") \in Step
    BY DEF Step
  <2> QED
    BY <1>3, <1>4, <2>1, <2>2
<1>7. Typed(known)
  BY <1>2, <1>5, <1>6 DEF Typed
<1> HIDE DEF known
<1>8. ASSUME {"fetch budget reached", "provider failed"} \cap known.warnings = {},
             NEW m \in known.wanted
      PROVE  m \in Has(known.candles) \/ m \notin Traded \/ m > known.askedAt
  <2>1. \/ m \in Has(report[r].candles) \/ m \notin Traded \/ m > report[r].askedAt
        \/ m \in Has(report[r].fetched) \/ m \in report[r].rest
    BY <1>2, <1>5, <1>8 DEF EnrichmentInv, WantedIsKnownOrWarned, Known
  <2>2. report[r].rest = {}
    BY <1>2, <1>5, <1>8 DEF EnrichmentInv, WantedIsKnownOrWarned, At
  <2> QED
    BY <1>4, <1>5, <2>1, <2>2
<1>9. known.step = "finish" => Has(known.fetched) \subseteq Has(cache)
  BY <1>5, NothingYet
<1> QED
  BY <1>1, <1>2, <1>5, <1>7, <1>8, <1>9 DEF OwnPart

(* What holds of a report that writes and of each of its rows.             *)
LEMMA WritingKnowledge ==
  ASSUME EnrichmentInv, NEW r \in Reports, At(r, "write")
  PROVE  /\ Typed(report[r]) /\ report[r].askedAt <= clock
         /\ \A m \in Minutes : locks[m] = r => \A n \in report[r].toWrite : m < n
         /\ {"fetch budget reached", "provider failed"} \cap report[r].warnings = {} =>
              \A m \in report[r].wanted :
                m \in Has(report[r].candles) \/ m \notin Traded \/ m > report[r].askedAt
BY DEF EnrichmentInv, TypeOK, Typed, LocksAreBehind, WantedIsKnownOrWarned, Known, At

LEMMA UpsertRowStep ==
  ASSUME EnrichmentInv, NEW r \in Reports, UpsertRow(r)
  PROVE  OthersKnow(r) /\ OwnPart(r)
<1> PICK m \in report[r].toWrite :
      /\ Writes(r, m) /\ locks[m] = Nobody
      /\ locks' = [locks EXCEPT ![m] = r]
      /\ Becomes(r, [report[r] EXCEPT !.toWrite = @ \ {m}])
  BY DEF UpsertRow
<1> DEFINE known == [report[r] EXCEPT !.toWrite = @ \ {m}]
<1>1. /\ Typed(report[r]) /\ report[r].askedAt <= clock
      /\ \A n \in Minutes : locks[n] = r => \A o \in report[r].toWrite : n < o
      /\ {"fetch budget reached", "provider failed"} \cap report[r].warnings = {} =>
           \A n \in report[r].wanted :
             n \in Has(report[r].candles) \/ n \notin Traded \/ n > report[r].askedAt
      /\ report[r].step = "write" /\ ~report[r].aborted
  BY WritingKnowledge DEF UpsertRow, At
<1>2. /\ clock' = clock /\ cache' = cache
      /\ locks \in [Minutes -> Reports \cup {Nobody}] /\ cache \in Candles
      /\ m \in Minutes /\ report'[r] = known
      /\ report' = [report EXCEPT ![r] = report'[r]]
  BY <1>1 DEF UpsertRow, Becomes, EnrichmentInv, TypeOK, Typed
<1>3. OthersKnow(r)
  BY <1>2 DEF OthersKnow
<1>4. /\ known.step = "write" /\ ~known.aborted /\ known.askedAt = report[r].askedAt
      /\ known.wanted = report[r].wanted /\ known.candles = report[r].candles
      /\ known.rest = report[r].rest /\ known.fetched = report[r].fetched
      /\ known.toWrite = report[r].toWrite \ {m} /\ known.warnings = report[r].warnings
  BY <1>1 DEF Typed
<1>5. Typed(known)
  BY <1>1 DEF Typed
<1> HIDE DEF known
<1>6. ASSUME NEW n \in Minutes, locks'[n] = r, NEW o \in known.toWrite
      PROVE  n < o
  <2>1. o \in report[r].toWrite /\ o # m /\ o \in Nat /\ m \in Nat
    BY <1>1, <1>2, <1>4, MinutesAssumption DEF Typed
  <2>2. CASE n = m
    BY <2>1, <2>2 DEF Writes, NextRow
  <2>3. CASE n # m
    BY <1>1, <1>2, <1>6, <2>1, <2>3
  <2> QED
    BY <2>2, <2>3
<1> QED
  BY <1>1, <1>2, <1>3, <1>4, <1>5, <1>6 DEF OwnPart

(* The end of r's transaction frees its rows and no others.                *)
LEMMA UnlockFrees ==
  ASSUME TypeOK, NEW r \in Reports, Unlock(r)
  PROVE  /\ locks' \in [Minutes -> Reports \cup {Nobody}]
         /\ \A m \in Minutes : locks'[m] = locks[m] \/ (locks[m] = r /\ locks'[m] = Nobody)
         /\ \A m \in Minutes : locks'[m] # r
BY NobodyAssumption DEF TypeOK, Unlock

LEMMA UpsertCommitStep ==
  ASSUME EnrichmentInv, NEW r \in Reports, UpsertCommit(r)
  PROVE  OthersKnow(r) /\ OwnPart(r)
<1> DEFINE known == [report[r] EXCEPT !.step = "reread"]
<1>1. /\ Typed(report[r]) /\ report[r].askedAt <= clock
      /\ {"fetch budget reached", "provider failed"} \cap report[r].warnings = {} =>
           \A n \in report[r].wanted :
             n \in Has(report[r].candles) \/ n \notin Traded \/ n > report[r].askedAt
  BY WritingKnowledge DEF UpsertCommit
<1>2. /\ locks' \in [Minutes -> Reports \cup {Nobody}]
      /\ \A m \in Minutes : locks'[m] = locks[m] \/ (locks[m] = r /\ locks'[m] = Nobody)
      /\ \A m \in Minutes : locks'[m] # r
  BY UnlockFrees DEF UpsertCommit, EnrichmentInv
<1>3. /\ cache' \in Candles /\ Has(cache') = Has(cache) \cup Has(report[r].fetched)
  <2>1. cache \in Candles /\ report[r].fetched \in Candles
    BY <1>1 DEF EnrichmentInv, TypeOK, Typed
  <2> QED
    BY <2>1, OverlayHas DEF UpsertCommit
<1>4. clock' = clock /\ report'[r] = known /\ report' = [report EXCEPT ![r] = report'[r]]
  BY DEF UpsertCommit, Becomes, EnrichmentInv, TypeOK
<1>5. OthersKnow(r)
  BY <1>2, <1>3, <1>4 DEF OthersKnow
<1>6. /\ known.step = "reread" /\ known.askedAt = report[r].askedAt
      /\ known.wanted = report[r].wanted /\ known.candles = report[r].candles
      /\ known.fetched = report[r].fetched /\ known.warnings = report[r].warnings
  BY <1>1 DEF Typed
<1>7. Typed(known)
  BY <1>1 DEF Typed, Step
<1> HIDE DEF known
<1> QED
  BY <1>1, <1>2, <1>3, <1>4, <1>5, <1>6, <1>7 DEF OwnPart

LEMMA UpsertFailsStep ==
  ASSUME EnrichmentInv, NEW r \in Reports, UpsertFails(r)
  PROVE  OthersKnow(r) /\ OwnPart(r)
<1> DEFINE known == [report[r] EXCEPT !.step = "finish", !.toWrite = {}, !.aborted = FALSE,
                                      !.warnings = @ \cup {"cache write failed"}]
<1>1. /\ Typed(report[r]) /\ report[r].askedAt <= clock
      /\ {"fetch budget reached", "provider failed"} \cap report[r].warnings = {} =>
           \A n \in report[r].wanted :
             n \in Has(report[r].candles) \/ n \notin Traded \/ n > report[r].askedAt
  BY WritingKnowledge DEF UpsertFails
<1>2. /\ locks' \in [Minutes -> Reports \cup {Nobody}]
      /\ \A m \in Minutes : locks'[m] = locks[m] \/ (locks[m] = r /\ locks'[m] = Nobody)
      /\ \A m \in Minutes : locks'[m] # r
  BY UnlockFrees DEF UpsertFails, EnrichmentInv
<1>3. /\ clock' = clock /\ cache' = cache /\ cache \in Candles /\ report'[r] = known
      /\ report' = [report EXCEPT ![r] = report'[r]]
  BY DEF UpsertFails, Becomes, EnrichmentInv, TypeOK
<1>4. OthersKnow(r)
  BY <1>2, <1>3 DEF OthersKnow
<1>5. /\ known.step = "finish" /\ known.askedAt = report[r].askedAt
      /\ known.wanted = report[r].wanted /\ known.candles = report[r].candles
      /\ known.warnings = report[r].warnings \cup {"cache write failed"}
  BY <1>1 DEF Typed
<1>6. Typed(known)
  BY <1>1 DEF Typed, Step, Warning
<1> HIDE DEF known
<1> QED
  BY <1>1, <1>2, <1>3, <1>4, <1>5, <1>6 DEF OwnPart

LEMMA RereadStep ==
  ASSUME EnrichmentInv, NEW r \in Reports, Reread(r)
  PROVE  OthersKnow(r) /\ OwnPart(r)
<1> PICK failed \in SUBSET {"cache write failed"} :
      Becomes(r, [report[r] EXCEPT !.step = "finish", !.warnings = @ \cup failed])
  BY DEF Reread
<1> DEFINE known == [report[r] EXCEPT !.step = "finish", !.warnings = @ \cup failed]
<1>1. OthersKnow(r) /\ report'[r] = known /\ cache' = cache /\ locks' = locks
  BY OnlyOwnStep DEF Reread
<1>2. Typed(report[r]) /\ report[r].step = "reread" /\ report[r].askedAt <= clock
      /\ \A m \in Minutes : locks[m] # r
  BY OwnKnowledge DEF Reread, At
<1>3. Typed(known)
  BY <1>2 DEF Typed, Step, Warning
<1>4. /\ known.step = "finish" /\ known.askedAt = report[r].askedAt
      /\ known.wanted = report[r].wanted /\ known.candles = report[r].candles
      /\ known.fetched = report[r].fetched /\ known.warnings = report[r].warnings \cup failed
  BY <1>2 DEF Typed
<1> HIDE DEF known
<1>5. /\ "cache write failed" \notin known.warnings =>
           Has(known.fetched) \subseteq Has(cache)
      /\ {"fetch budget reached", "provider failed"} \cap known.warnings = {} =>
           \A m \in known.wanted :
             m \in Has(known.candles) \/ m \notin Traded \/ m > known.askedAt
  BY <1>2, <1>4 DEF EnrichmentInv, FetchedIsKept, WantedIsKnownOrWarned, Known
<1> QED
  BY <1>1, <1>2, <1>3, <1>4, <1>5 DEF OwnPart

LEMMA FinishStep ==
  ASSUME EnrichmentInv, NEW r \in Reports, Finish(r)
  PROVE  OthersKnow(r) /\ OwnPart(r)
<1> DEFINE left == report[r].wanted \ Has(report[r].candles)
           told == IF left = {} THEN {} ELSE {"candle missing"}
           known == [report[r] EXCEPT !.step = "done", !.warnings = @ \cup told]
<1>1. Becomes(r, known) /\ OnlyReport
  BY DEF Finish
<1>2. told \subseteq {"candle missing"}
  OBVIOUS
<1> HIDE DEF told
<1>3. OthersKnow(r) /\ report'[r] = known /\ cache' = cache /\ locks' = locks
  BY <1>1, OnlyOwnStep
<1>4. Typed(report[r]) /\ report[r].step = "finish" /\ report[r].askedAt <= clock
      /\ \A m \in Minutes : locks[m] # r
  BY OwnKnowledge DEF Finish, At
<1>5. Typed(known)
  BY <1>2, <1>4 DEF Typed, Step, Warning
<1>6. /\ known.step = "done" /\ known.askedAt = report[r].askedAt
      /\ known.wanted = report[r].wanted /\ known.candles = report[r].candles
      /\ known.fetched = report[r].fetched /\ known.warnings = report[r].warnings \cup told
  BY <1>4 DEF Typed
<1> HIDE DEF known
<1>7. /\ "cache write failed" \notin known.warnings =>
           Has(known.fetched) \subseteq Has(cache)
      /\ {"fetch budget reached", "provider failed"} \cap known.warnings = {} =>
           \A m \in known.wanted :
             m \in Has(known.candles) \/ m \notin Traded \/ m > known.askedAt
  BY <1>2, <1>4, <1>6 DEF EnrichmentInv, FetchedIsKept, WantedIsKnownOrWarned, Known
<1> QED
  BY <1>3, <1>4, <1>5, <1>6, <1>7 DEF OwnPart

-----------------------------------------------------------------------------
(* The minute after: what was asked before it began stays known.           *)
LEMMA TickKeeps == EnrichmentInv /\ Tick => EnrichmentInv'
<1> SUFFICES ASSUME EnrichmentInv, Tick PROVE EnrichmentInv'
  OBVIOUS
<1>1. clock \in Nat /\ clock' \in Minutes /\ clock <= clock'
      /\ cache' = cache /\ locks' = locks /\ report' = report
  BY MinutesAssumption DEF EnrichmentInv, TypeOK, Tick
<1>2. TypeOK'
  BY <1>1 DEF EnrichmentInv, TypeOK, Has
<1>3. LocksAreBehind' /\ FetchedIsKept'
  BY <1>1 DEF EnrichmentInv, LocksAreBehind, FetchedIsKept, At, Has
<1>4. WantedIsKnownOrWarned'
  <2>1. \A r \in Reports : report[r].askedAt \in Nat
    BY DEF EnrichmentInv, TypeOK
  <2>2. ASSUME NEW r \in Reports, report[r].step # "new"
        PROVE  report[r].askedAt <= clock'
    <3>1. report[r].askedAt <= clock
      BY <2>2 DEF EnrichmentInv, WantedIsKnownOrWarned, At
    <3>2. report[r].askedAt \in Nat /\ clock' \in Nat
      BY <1>1, <2>1, MinutesAssumption
    <3> QED
      BY <1>1, <3>1, <3>2
  <2> QED
    BY <1>1, <2>2 DEF EnrichmentInv, WantedIsKnownOrWarned, Known, At, Has
<1> QED
  BY <1>2, <1>3, <1>4 DEF EnrichmentInv

LEMMA NextEnrichment == EnrichmentInv /\ [Next]_vars => EnrichmentInv'
<1> SUFFICES ASSUME EnrichmentInv, [Next]_vars PROVE EnrichmentInv'
  OBVIOUS
<1>1. CASE Tick
  BY <1>1, TickKeeps
<1>2. CASE UNCHANGED vars
  BY <1>2 DEF vars, EnrichmentInv, TypeOK, LocksAreBehind, FetchedIsKept,
     WantedIsKnownOrWarned, Known, At, Has
<1>3. ASSUME NEW r \in Reports,
             \/ Ask(r) \/ Proceed(r)
             \/ ReadCacheFails(r) \/ FetchFails(r) \/ UpsertFails(r)
      PROVE  OthersKnow(r) /\ OwnPart(r)
  BY <1>3, AskStep, ReadCacheStep, ReadCacheFailsStep, FetchWindowStep, FetchFailsStep,
     FetchDoneStep, MergeStep, UpsertRowStep, UpsertCommitStep, UpsertFailsStep,
     RereadStep, FinishStep DEF Proceed
<1> QED
  BY <1>1, <1>2, <1>3, StepKeeps DEF Next

(* The invariant every reachable state of the shared cache satisfies, for  *)
(* any reports, minutes, window length and budget.                         *)
THEOREM EnrichmentInvariant == Spec => []EnrichmentInv
<1> QED
  BY InitEnrichment, NextEnrichment, PTL DEF Spec

(* Upserts of reports whose windows overlap never wait for each other in a *)
(* circle (upsert_candles writes the rows in the order of their times).    *)
THEOREM UpsertsNeverDeadlock == Spec => []NoUpsertDeadlock
<1>1. EnrichmentInv => NoUpsertDeadlock
  BY LatestRowIsFree DEF EnrichmentInv
<1> QED
  BY <1>1, EnrichmentInvariant, PTL

(* A report without the cache write warning leaves every candle it fetched *)
(* to the reports after it.                                                *)
THEOREM SilentWritesReachTheCache == Spec => []SilentWritesAreCached
<1>1. EnrichmentInv => SilentWritesAreCached
  BY DEF EnrichmentInv, FetchedIsKept, SilentWritesAreCached, At
<1> QED
  BY <1>1, EnrichmentInvariant, PTL

(* What a report leaves out without a warning of the budget, the provider  *)
(* or the cache read was not traded, or had not begun when it was asked.   *)
THEOREM MissingWasNotTraded == Spec => []MissingMeansUntraded
<1>0. \A a, b \in Nat : a <= b => ~(a > b)
  OBVIOUS
<1>1. ASSUME EnrichmentInv PROVE MissingMeansUntraded
  <2> SUFFICES ASSUME NEW r \in Reports, At(r, "done"),
                      report[r].warnings \cap Failures \subseteq {"cache write failed"},
                      NEW m \in report[r].wanted, m \in Traded, m <= report[r].askedAt
               PROVE  m \in Has(report[r].candles)
    BY DEF MissingMeansUntraded
  <2>1. {"fetch budget reached", "provider failed"} \cap report[r].warnings = {}
    BY DEF Failures, Warning
  <2>2. m \in Has(report[r].candles) \/ m > report[r].askedAt
    BY <1>1, <2>1 DEF EnrichmentInv, WantedIsKnownOrWarned, Known, At
  <2>3. report[r].wanted \subseteq Nat /\ report[r].askedAt \in Nat
    BY <1>1, OwnKnowledge, MinutesAssumption DEF Typed
  <2>4. ~(m > report[r].askedAt)
    <3>1. m \in Nat
      BY <2>3
    <3> QED
      BY <1>0, <2>3, <3>1, Zenon
  <2> QED
    BY <2>2, <2>4
<1> QED
  BY <1>1, EnrichmentInvariant, PTL
=============================================================================
