---------------------------- MODULE PriceEnrichment ----------------------------
(***************************************************************************)
(* Quality reports that share the price candle cache.  Each reads the      *)
(* cache, asks the price provider for the missing minutes window by window *)
(* and writes what it fetched back, one row lock after another.  The       *)
(* minute that has not ended yet has a candle too, whose close price is    *)
(* not final: Price tells the two apart.                                   *)
(***************************************************************************)
EXTENDS CandleWindows, FiniteSets

CONSTANTS
  Reports,   \* requests for a quality report
  Traded,    \* the minutes the provider has a candle for
  Horizons,  \* in minutes
  Nobody     \* holds no row lock

ASSUME MinutesAreFinite == IsFiniteSet(Minutes)  \* datetime ends with the year 9999
ASSUME TradedAssumption == Traded \subseteq Minutes
ASSUME HorizonAssumption == Horizons \subseteq Nat \ {0}
ASSUME NobodyAssumption == Nobody \notin Reports

VARIABLES
  clock,   \* the minute it is
  cache,   \* price_candles as committed
  locks,   \* who holds the row of a minute until its transaction ends
  report   \* what each request knows, per request

vars == <<clock, cache, locks, report>>

Price == {"missing", "unfinished", "close"}
Candles == [Minutes -> Price]
NoCandles == [m \in Minutes |-> "missing"]
Has(candles) == {m \in Minutes : candles[m] # "missing"}

Overlay(old, new) == [m \in Minutes |-> IF m \in Has(new) THEN new[m] ELSE old[m]]

Warning == {"cache read failed", "fetch budget reached", "provider failed",
            "cache write failed", "candle missing"}
Step == {"new", "read", "fetch", "merge", "write", "reread", "finish", "done"}

NewReport ==
  [step |-> "new", askedAt |-> 0, wanted |-> {}, candles |-> NoCandles,
   rest |-> {}, fetched |-> NoCandles, toWrite |-> {}, aborted |-> FALSE,
   warnings |-> {}]

TypeOK ==
  /\ clock \in Minutes
  /\ cache \in Candles
  /\ locks \in [Minutes -> Reports \cup {Nobody}]
  /\ report \in [Reports ->
       [step : Step, askedAt : Nat, wanted : SUBSET Minutes,
        candles : Candles, rest : SUBSET Minutes, fetched : Candles,
        toWrite : SUBSET Minutes, aborted : BOOLEAN, warnings : SUBSET Warning]]
  /\ \A r \in Reports : /\ report[r].rest \subseteq report[r].wanted
                       /\ report[r].toWrite \subseteq Has(report[r].fetched)

Init ==
  /\ clock \in Minutes
  /\ cache = NoCandles
  /\ locks = [m \in Minutes |-> Nobody]
  /\ report = [r \in Reports |-> NewReport]

Tick ==
  /\ clock + 1 \in Minutes
  /\ clock' = clock + 1
  /\ UNCHANGED <<cache, locks, report>>

(* Request r changes only what it knows itself.                            *)
At(r, step) == report[r].step = step
Becomes(r, known) == report' = [report EXCEPT ![r] = known]
OnlyReport == UNCHANGED <<clock, cache, locks>>

-----------------------------------------------------------------------------
(* required_candle_open_times: the minute of each event and of its horizon.*)
Required(events, h) == events \cup {m + h : m \in events}

Ask(r) ==
  /\ At(r, "new")
  /\ \E events \in SUBSET Minutes, h \in Horizons :
       /\ events # {} /\ Required(events, h) \subseteq Minutes
       /\ Becomes(r, [report[r] EXCEPT !.step = "read", !.askedAt = clock,
                                       !.wanted = Required(events, h)])
  /\ OnlyReport

(* Wrong variant: what the budget leaves out is not reported.              *)
FetchWithoutBudgetWarning(known, candles) ==
  LET missing == known.wanted \ Has(candles) IN
  [known EXCEPT !.candles = candles,
     !.rest = missing \ OverBudget(missing),
     !.step = IF missing = {} THEN "finish" ELSE "fetch"]

(* The windows are laid out before the first call; with nothing missing no *)
(* call is made.                                                           *)
FetchMissing(known, candles) ==
  LET missing == known.wanted \ Has(candles)
      left == OverBudget(missing) IN
  [known EXCEPT !.candles = candles,
     !.rest = missing \ left,
     !.step = IF missing = {} THEN "finish" ELSE "fetch",
     !.warnings = @ \cup (IF left = {} THEN {} ELSE {"fetch budget reached"})]

ReadCache(r) ==
  /\ At(r, "read")
  /\ LET found == [m \in Minutes |->
                     IF m \in report[r].wanted THEN cache[m] ELSE "missing"]
     IN Becomes(r, FetchMissing(report[r], found))
  /\ OnlyReport

(* The error is caught, but a failed statement may leave the transaction   *)
(* aborted: the session's next statement then fails too.                   *)
ReadCacheFails(r) ==
  /\ At(r, "read")
  /\ \E aborted \in BOOLEAN :
       Becomes(r, FetchMissing([report[r] EXCEPT !.aborted = aborted,
                                 !.warnings = @ \cup {"cache read failed"}],
                               NoCandles))
  /\ OnlyReport

(* One call of fetch_price_candles: every candle of the window, wanted or  *)
(* not, the current minute's included.                                     *)
Provided(w) ==
  [m \in Minutes |->
     IF m \notin Traded \/ m < w[1] \/ m > w[2] \/ m > clock THEN "missing"
     ELSE IF m = clock THEN "unfinished" ELSE "close"]

FetchWindow(r) ==
  /\ At(r, "fetch")
  /\ \E w \in report[r].rest \X report[r].rest :
       /\ IsNextWindow(w, report[r].rest)
       /\ Becomes(r, [report[r] EXCEPT !.fetched = Overlay(@, Provided(w)),
                                       !.rest = Beyond(w, @)])
  /\ OnlyReport

(* A provider error ends the loop; what was fetched before it is kept.     *)
FetchFails(r) ==
  /\ At(r, "fetch") /\ report[r].rest # {}
  /\ Becomes(r, [report[r] EXCEPT !.step = "merge",
                                  !.warnings = @ \cup {"provider failed"}])
  /\ OnlyReport

FetchDone(r) ==
  /\ At(r, "fetch") /\ report[r].rest = {}
  /\ Becomes(r, [report[r] EXCEPT !.step = "merge"])
  /\ OnlyReport

Merge(r) ==
  /\ At(r, "merge")
  /\ LET fetched == report[r].fetched IN
     Becomes(r, [report[r] EXCEPT
        !.candles = Overlay(@, fetched), !.toWrite = Has(fetched),
        !.step = IF fetched = NoCandles THEN "finish" ELSE "write"])
  /\ OnlyReport

-----------------------------------------------------------------------------
(* upsert_candles: the rows in the order of their open times, in one       *)
(* transaction.  A row another transaction has written is waited for.      *)
NextRow(r, m) ==
  /\ m \in report[r].toWrite
  /\ \A n \in report[r].toWrite : m <= n

(* Wrong variant: fetched candles written in any order.                    *)
AnyRow(r, m) == m \in report[r].toWrite

Writes(r, m) == NextRow(r, m)

UpsertRow(r) ==
  /\ At(r, "write") /\ ~report[r].aborted
  /\ \E m \in report[r].toWrite :
       /\ Writes(r, m)
       /\ locks[m] = Nobody
       /\ locks' = [locks EXCEPT ![m] = r]
       /\ Becomes(r, [report[r] EXCEPT !.toWrite = @ \ {m}])
  /\ UNCHANGED <<clock, cache>>

(* Wrong variant: the locks outlive the transaction.                       *)
KeepsLocks(r) == UNCHANGED locks

Unlock(r) == locks' = [m \in Minutes |-> IF locks[m] = r THEN Nobody ELSE locks[m]]

(* Wrong variant: the session ends without its commit.                     *)
UpsertUncommitted(r) ==
  /\ At(r, "write") /\ ~report[r].aborted /\ report[r].toWrite = {}
  /\ Unlock(r)
  /\ Becomes(r, [report[r] EXCEPT !.step = "reread"])
  /\ UNCHANGED <<clock, cache>>

UpsertCommit(r) ==
  /\ At(r, "write") /\ ~report[r].aborted /\ report[r].toWrite = {}
  /\ cache' = Overlay(cache, report[r].fetched)
  /\ Unlock(r)
  /\ Becomes(r, [report[r] EXCEPT !.step = "reread"])
  /\ UNCHANGED clock

(* A statement or the commit fails: rollback, and the report goes on with  *)
(* what it fetched.                                                        *)
UpsertFails(r) ==
  /\ At(r, "write")
  /\ Unlock(r)
  /\ Becomes(r, [report[r] EXCEPT !.step = "finish", !.toWrite = {}, !.aborted = FALSE,
                                  !.warnings = @ \cup {"cache write failed"}])
  /\ UNCHANGED <<clock, cache>>

(* upsert_candles ends with a read of the rows; its failure is reported as *)
(* a failed write although the rows are committed.                         *)
Reread(r) ==
  /\ At(r, "reread")
  /\ \E failed \in SUBSET {"cache write failed"} :
       Becomes(r, [report[r] EXCEPT !.step = "finish", !.warnings = @ \cup failed])
  /\ OnlyReport

Finish(r) ==
  /\ At(r, "finish")
  /\ LET left == report[r].wanted \ Has(report[r].candles) IN
     Becomes(r, [report[r] EXCEPT !.step = "done",
        !.warnings = @ \cup (IF left = {} THEN {} ELSE {"candle missing"})])
  /\ OnlyReport

-----------------------------------------------------------------------------
(* What a request does by itself, without a failure of the database or the *)
(* provider; an aborted transaction can only fail.                         *)
Proceed(r) ==
  \/ ReadCache(r) \/ FetchWindow(r) \/ FetchDone(r) \/ Merge(r)
  \/ UpsertRow(r) \/ UpsertCommit(r) \/ Reread(r) \/ Finish(r)
  \/ report[r].aborted /\ UpsertFails(r)

Next ==
  \/ Tick
  \/ \E r \in Reports : \/ Ask(r) \/ Proceed(r)
                        \/ ReadCacheFails(r) \/ FetchFails(r) \/ UpsertFails(r)

Spec == Init /\ [][Next]_vars

(* A request that was asked runs in its worker thread until it answers.    *)
FairSpec == Spec /\ \A r \in Reports : WF_vars(Proceed(r))

-----------------------------------------------------------------------------
(* Two reports whose windows overlap lock the same rows.  Among any that   *)
(* are writing at the same time one waits for none of the others: writing  *)
(* in the order of the open times makes a deadlock impossible.             *)
WaitsFor(r, s) ==
  /\ At(r, "write")
  /\ \E m \in report[r].toWrite :
       /\ Writes(r, m)
       /\ locks[m] = s
       /\ ~ \E n \in report[r].toWrite : Writes(r, n) /\ locks[n] = Nobody

NoUpsertDeadlock ==
  \A S \in SUBSET Reports :
    S # {} => \E r \in S : \A s \in S : ~WaitsFor(r, s)

(* A report that does not mention its cache write leaves every candle it   *)
(* fetched to the next report, and the next report of the same minutes     *)
(* makes no call for them.                                                 *)
SilentWritesAreCached ==
  \A r \in Reports :
    At(r, "done") /\ "cache write failed" \notin report[r].warnings =>
      Has(report[r].fetched) \subseteq Has(cache)

(* When a report only says that candles are missing, they do not exist: a  *)
(* minute it leaves out had no trade, or had not begun when it was asked.  *)
Failures == Warning \ {"candle missing"}

MissingMeansUntraded ==
  \A r \in Reports :
    At(r, "done") /\ report[r].warnings \cap Failures \subseteq {"cache write failed"} =>
      \A m \in report[r].wanted :
        m \in Traded /\ m <= report[r].askedAt => m \in Has(report[r].candles)

(* Every report that was asked is answered, whatever fails on its way (an  *)
(* answered report is not asked again).                                    *)
ReportsEnd == []<>(\A r \in Reports : At(r, "new") \/ At(r, "done"))

(* "use the close price of that 1 minute candle": a report asked after a   *)
(* minute ended uses its final price.  The code does not keep this: a      *)
(* candle fetched within its minute is cached for ever.                    *)
EndedMinutesUseTheClosePrice ==
  \A r \in Reports :
    At(r, "done") =>
      \A m \in report[r].wanted :
        m < report[r].askedAt => report[r].candles[m] # "unfinished"
=============================================================================
