------------------------------ MODULE KlinePages ------------------------------
(***************************************************************************)
(* PriceEnrichmentService._fetch_missing_candles over                      *)
(* BinanceKlineClient.fetch_price_candles: each window is one call of the  *)
(* client, each call is as many pages as it takes.  A candle is named by   *)
(* its open time.                                                          *)
(***************************************************************************)
EXTENDS FetchWindows, FiniteSets

CONSTANTS
  Traded,     \* the minutes the exchange has a candle for
  PageLimit,  \* BINANCE_KLINE_LIMIT
  OddPages    \* pages of an exchange that lists other candles than asked

ASSUME TradedAssumption == Traded \subseteq Minutes
ASSUME PageLimitAssumption == PageLimit \in Nat \ {0}
ASSUME OddPagesAssumption == OddPages \subseteq SUBSET Traded

VARIABLES
  exchange,  \* auxiliary: whether this request meets an honest exchange
  calls,     \* how many windows were fetched
  current,   \* current_start_ms of the call
  page,      \* candles_by_open_time of the call
  fetched,   \* the candles of the calls that returned
  failure    \* the provider error that ended the loop, or "none"

callVars == <<calls, current, page, fetched, failure>>
pagesVars == <<windowVars, exchange, callVars>>

Failures == {"none", "unavailable", "limitation", "configuration"}

PagesInit ==
  /\ Init
  /\ exchange \in {"honest", "odd"}
  /\ calls = 0 /\ current = 0 /\ page = {} /\ fetched = {} /\ failure = "none"

-----------------------------------------------------------------------------
LaidOut == rest = {} \/ Len(windows) = MaxWindows

LayOut == AddWindow /\ UNCHANGED <<exchange, callVars>>

InCall == LaidOut /\ failure = "none" /\ calls < Len(windows)
FetchEnded == LaidOut /\ (failure # "none" \/ calls = Len(windows))

Window == windows[calls + 1]
FromMs == IF current = 0 THEN Window[1] ELSE current

(* startTime, endTime and limit of a klines request: the first candles of  *)
(* the interval, all of them when they fit on the page                     *)
Listed(from, to) == {m \in Traded : from <= m /\ m <= to}

IsListing(p, from, to) ==
  /\ Cardinality(p) <= PageLimit
  /\ \A m \in p, k \in Listed(from, to) : k <= m => k \in p
  /\ Cardinality(p) < PageLimit => p = Listed(from, to)

Pages ==
  IF exchange = "odd" THEN OddPages
  ELSE {p \in SUBSET Listed(FromMs, Window[2]) : IsListing(p, FromMs, Window[2])}

Inside(p) == {m \in p : Window[1] <= m /\ m <= Window[2]}

IsLast(m, p) == m \in p /\ \A k \in p : k <= m

Ends(p) ==
  \/ Cardinality(p) < PageLimit
  \/ \E m \in p : IsLast(m, p) /\ m + 1 > Window[2]

(* Wrong variant: the next page starts a minute too late.                  *)
NextStartLate(m) == m + 2

NextStart(m) == m + 1

(* An empty or short page, or the end of the window: the call returns.     *)
Return(p) ==
  /\ Ends(p)
  /\ fetched' = fetched \cup page \cup Inside(p)
  /\ calls' = calls + 1
  /\ page' = {} /\ current' = 0
  /\ UNCHANGED failure

(* Wrong variant: the client does not ask whether it advances.             *)
AdvanceUnchecked(p) ==
  /\ ~Ends(p)
  /\ \E m \in p : IsLast(m, p) /\ current' = NextStart(m)
  /\ page' = page \cup Inside(p)
  /\ UNCHANGED <<calls, fetched, failure>>

(* A full page is followed by the one after its last candle ...            *)
Advance(p) ==
  /\ ~Ends(p)
  /\ \E m \in p : /\ IsLast(m, p)
                  /\ NextStart(m) > FromMs
                  /\ current' = NextStart(m)
  /\ page' = page \cup Inside(p)
  /\ UNCHANGED <<calls, fetched, failure>>

(* Any provider error ends the loop over the windows; the candles of the   *)
(* call's earlier pages are lost with it.                                  *)
Fail(error) ==
  /\ failure' = error
  /\ page' = {} /\ current' = 0
  /\ UNCHANGED <<calls, fetched>>

(* ... unless that would not advance.                                      *)
DoesNotAdvance(p) ==
  /\ ~Ends(p)
  /\ \E m \in p : IsLast(m, p) /\ NextStart(m) <= FromMs
  /\ Fail("limitation")

FetchPage ==
  /\ InCall
  /\ \E p \in Pages : Return(p) \/ Advance(p) \/ DoesNotAdvance(p)
  /\ UNCHANGED <<windowVars, exchange>>

(* HTTPError, URLError and OSError of the page's request                   *)
PageUnavailable ==
  /\ InCall
  /\ Fail("unavailable")
  /\ UNCHANGED <<windowVars, exchange>>

(* An answer that cannot be parsed, is no list, or has a row that is no    *)
(* candle                                                                  *)
PageUnusable ==
  /\ InCall
  /\ Fail("limitation")
  /\ UNCHANGED <<windowVars, exchange>>

(* ConfigurationFailurePriceProvider and FixturePriceProvider stand in for *)
(* the client: the first only fails, the second answers a call at once.    *)
ConfigurationFails ==
  /\ InCall
  /\ Fail("configuration")
  /\ UNCHANGED <<windowVars, exchange>>

FixtureCall ==
  /\ InCall /\ current = 0
  /\ fetched' = fetched \cup Inside(Traded)
  /\ calls' = calls + 1
  /\ UNCHANGED <<windowVars, exchange, page, current, failure>>

Step == LayOut \/ FetchPage
PagesNext ==
  Step \/ PageUnavailable \/ PageUnusable \/ ConfigurationFails \/ FixtureCall

PagesSpec == PagesInit /\ [][PagesNext]_pagesVars

-----------------------------------------------------------------------------
(* Every candle that the exchange has in a window whose call returned was  *)
(* fetched, however the window fell into pages, and no other: the missing  *)
(* price of a report without a failure is one that does not exist.         *)
InWindow(m, k) == windows[k][1] <= m /\ m <= windows[k][2]

PagesAreComplete ==
  exchange = "honest" =>
    fetched = {m \in Traded : \E k \in 1..calls : InWindow(m, k)}

PagesTypeOK ==
  /\ exchange \in {"honest", "odd"}
  /\ calls \in 0..Len(windows)
  /\ current \in Nat
  /\ page \subseteq Minutes
  /\ fetched \subseteq Minutes
  /\ failure \in Failures

(* The inductive invariant: in the middle of a call, every minute before   *)
(* `current` that the exchange has was on an earlier page.                 *)
NoPageYet == page = {} /\ current = 0

PagesInv ==
  /\ PagesTypeOK
  /\ PagesAreComplete
  /\ ~LaidOut => calls = 0
  /\ calls = Len(windows) \/ ~LaidOut \/ current = 0 => NoPageYet
  /\ current # 0 => Window[1] < current /\ current <= Window[2]
  /\ calls < Len(windows) /\ exchange = "honest" =>
       page = {m \in Traded : InWindow(m, calls + 1) /\ m < current}
=============================================================================
