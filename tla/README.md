# Quantitative sentiment analysis: verification project

TLA+ models of the BTCUSD BACKTEST service in this repository, model-checked
with TLC on small instances, and theorems about them checked with TLAPS.
`PROJECT.json` lists the runs, the mutants, the source lines of every
definition, the hazards and the findings. Source paths below are relative to
`src/quantitative_sentiment_analysis/` unless they start with `frontend/`,
`migrations/` or `context/`.

## 1. The system and its parts

A workspace's user saves BACKTEST configurations, creates draft runs from them,
runs the dataset of a draft (news fetched from a provider, normalised, scored,
stored), exports it as JSONL and asks for a quality report, which needs prices.
The backend is a FastAPI application whose synchronous handlers run in a thread
pool; all they share is PostgreSQL (READ COMMITTED) and the engine's connection
pool. The frontend is a React page per route.

| component | state | operations | interacts with | hard behaviour |
|---|---|---|---|---|
| dataset store (`backtest_dataset/orchestrator.py`, `repository.py`) | tables `dataset_runs`, `dataset_records` | `POST dataset/run`: fetch, normalise, `save_run` | news provider, PostgreSQL | concurrent saves of one run, row locks, unique index, foreign-key cascade, rollback, deadlock victims |
| dataset readers (`router.py`, `export.py`, `backtest_quality/repository.py`) | none | preview, export, quality inputs | the same tables | several statements per answer, a save commits between them |
| saved configurations (`backtest_configs`) | table `backtest_configs` | create, update, delete, draft from config | draft runs | read-merge-validate-write, deletes in between |
| draft runs and history (`backtest_shell`) | table `backtest_runs` | create draft, list | configurations, dataset summaries | run number computed by reading, timestamps taken before the insert |
| news client (`backtest_dataset/sharpe.py`) | offset, records kept | paging by offset | provider | the feed moves while it is paged |
| normalisation and sentiment policy | none | sort, deduplicate, score, name | dataset store | order independence, unique names |
| price enrichment (`price_enrichment`) | table `price_candles` | cache read, window grouping, paged fetch, upsert | Binance, quality | partial failure, call budget, lock order, pages that do not advance, the candle of a minute that has not ended |
| quality metrics (`backtest_quality/metrics.py`) | none | movements, counters, correlation, sampling | price enrichment | counters kept side by side, sampling boundaries |
| authentication (`auth`) | `users`, `sessions`, `workspaces` | login, logout, the checks of each request, seed | every route | revocation, expiry, disabling, seeding races |
| database sessions (`persistence/database.py`) | connection pool | check-out, check-in, time-out | every route | a request that holds one connection and asks for another |
| frontend pages (`frontend/src`) | React state per page | load, save, delete, run, download, select | HTTP API | late and reordered answers, states shared by handlers |
| HTTP application (`main.py`), contracts | none | routing, origin guard, validation | | pure functions of one request |
| migrations, `tools/codex-review-agent`, CI | | | | outside the running system |

What makes each part correct:

* store: the committed records of a run are those of its committed summary; a
  save is atomic to readers; a failed save leaves nothing; every request ends.
* readers: an answer carries one dataset; export and quality never use a
  provider limitation; a stored dataset is found.
* configurations and runs: run numbers have no gap or duplicate, history order
  is number order, stored runs never change, a draft is within the range limit,
  an update keeps the fields it does not name.
* news and normalisation: no article is lost but to a withdrawal, and how the
  pages fell does not show in the dataset.
* prices and quality: every missing minute is fetched, left to a later retry or
  reported; a movement is that of its own two minutes; the numbers of a report
  agree; reports do not deadlock and end.
* access: a logged-out, expired or disabled user is not served; a seed command
  takes effect as a whole or not at all; nobody waits for ever.
* pages: a page shows an answer under what it was asked for, never waits for an
  answer that is not to come, and agrees with what is stored once at rest.

## 2. Modules

| module | models | extends, uses or implements |
|---|---|---|
| `DatasetRegister` | the in-memory repository: `save_run` replaces a run's dataset at once | abstract specification |
| `DatasetStore` | `POST dataset/run` statement by statement on both tables | implements `DatasetRegister` |
| `DatasetReaders` | preview, export and quality requests between those statements | extends `DatasetStore` |
| `RunShell` | saved configurations and draft runs, read and write apart | |
| `NewsFeed` | the paging loop of the Sharpe client over a feed that moves | |
| `SentimentPolicy` | relevance, score, bias and confidence of one text | |
| `NewsDataset` | a dataset request from the first page to its records | extends `NewsFeed`, `SentimentPolicy` |
| `CandleWindows` | one provider call's window | |
| `FetchWindows` | the loop of `_bounded_fetch_windows` | extends `CandleWindows` |
| `KlinePages` | the calls of one report and the pages of each call | extends `FetchWindows` |
| `QualityMetrics` | movement of one record, samples, order | |
| `QualityReport` | a quality request from the route to its report | extends `KlinePages`, `QualityMetrics` |
| `PriceEnrichment` | quality reports sharing the candle cache | extends `CandleWindows` |
| `SeedUser` | concurrent runs of the seed command | |
| `ConnectionPool` | connections taken, waited for and returned | |
| `AuthSessions` | login, logout and every other request's checks | extends `SeedUser`, `ConnectionPool` |
| `DatasetCalls` | a page's requests and the service that answers them | `DatasetRegister` as the service |
| `ShellPage`, `HistoryPage`, `ConfigPage` | the handlers of the page of that name | extend `DatasetCalls` |
| `QualityPage` | `BacktestQualityPage` | |
| `BrowserPages` | the page that a route shows | extends `QualityPage`, instances of the other three pages |
| `*Proofs` | theorems about the module of that name and those it extends (`DatasetStore`, `DatasetReaders`, `RunShell`, `NewsDataset`, `QualityReport`, `PriceEnrichment`, `AuthSessions`, `BrowserPages`) | |
| `MC*` | constants and symmetry for TLC | |

### DatasetStore

State: `datasetRuns` and `datasetRecords` are the committed tables; `payload` is
what each request saves, `recordTargets` and `runTarget` are the rows its DELETEs
found, `deletedRecords` and `deletedRun` the rows its open transaction has
deleted, `pc` says where it is. Each SQL statement of `save_run`
(`repository.py` 151-199) is an action: delete the records, delete the run (with
the cascade), insert the run, insert the records, commit. A DELETE that finds a
row another transaction deleted waits for it and continues when it ended; an
INSERT of a taken key waits and then fails: these are the READ COMMITTED rules
the code relies on, marked external in the map. Failures: provider errors (saved
as a limitation without records), records that cannot be normalised, a lost
connection, a deadlock victim; each rolls back. Abstractions: a dataset is its
summary and a number of records; a DELETE that scans several rows locks them in
one step; the refresh of ORM objects is left out (`expire_on_commit=False`).

### DatasetReaders

`get_run` and `list_records` each read one committed state per SELECT. The
existence query of `list_records` is merged with its record query. The answer of
a save is the re-read after its commit.

### RunShell

`configs`, `runs` are the tables; a request reads in one step and writes, in its
one transaction, in a later one. `WriteUpdate` sends only the fields that
changed, as the ORM does; `WriteDelete` sets `config_id` of runs to NULL
(`ON DELETE SET NULL`); `NextRunId` reads the last run id, `TakeStamp` takes
`created_at`, `InsertDraft` inserts both. `InsertFails` is the unique constraint
or the foreign key refusing the row. Timestamps are days, names are model values.

### NewsFeed, NewsDataset, SentimentPolicy

An article is numbered in the order of its publication, `feed` is what the
provider lists, and the client asks for `limit` articles from `offset`. Between
two pages the provider may publish an article or withdraw one; during a page it
may not, since a page is one answer. One action handles one article of a page,
as the loop does. `NewsDataset` continues with what was kept: it sorts by the
key of `_sort_key`, keeps the first record of each provider id, scores, and
names records. A missing key or list of articles and an unavailable provider are
saved as a limitation; any other exception, of an answer that ends early or is
no object (`PageBreaks`), passes through and saves nothing (`PassOn`). A
text is the set of policy terms it contains; ids, sources and headlines are
numbered in the order in which the code compares their strings; a zone is an
offset added to the instant, because `isoformat()` sorts by local time. Scores
and confidences are integers in the unit the code rounds to.

### FetchWindows, KlinePages, QualityMetrics, QualityReport

`FetchWindows` is the grouping loop alone: one action adds one window.
`KlinePages` fetches each window page by page: the exchange is honest (a page
lists the first traded minutes of the interval, all of them if they fit) or odd
(any page of `OddPages`, traded minutes other than those asked for, to reach the
client's check that it advances and its filter by the window). Errors
end the loop over the windows, and the earlier pages of the failing call are
lost with it. The provider that is not configured and the fixture provider stand
in for the client. `QualityReport` puts the whole request together: the route's
checks and the provider of inputs, cache read, fetch, enrichment, one action per
record counted, answer. A cached candle has the price it was stored with: that of
a moment inside its minute when it was fetched before the minute ended (`early`;
`running` is the minute that runs during the request), and a candle fetched now
replaces it. The records are put in an order that `Sorted` allows, the one by time
and record id. Timestamps are in ticks, a return is a pair (difference,
first price) so that returns are compared exactly; of the correlation only
whether it exists is modelled.

### PriceEnrichment

A report reads the cache, lays out its windows (`OverBudget` is what the call
budget leaves out), fetches them one by one, merges and upserts in one
transaction that takes the row locks in the order of the open times. A candle is
missing, unfinished (fetched within its minute) or final. Failures: cache read
(it may leave the transaction aborted), provider call, upsert, re-read. A minute
is a natural number, an event is its minute, the pages of one window are one
call (`KlinePages` has them).

### SeedUser, ConnectionPool, AuthSessions

`upsert_seed_user` is one transaction: each SELECT reads what is committed, each
write waits for whoever has written the row or inserted the key, unique indexes
refuse, and the UPDATE of the user names only the columns that changed. A seed
command that found its user disabled enables it again; one that did not see it
disabled leaves it so. `AuthSessions` runs requests beside it: login creates a
session, logout revokes it, every other request resolves the session, loads the
user and its workspace, and a quality request then opens a second database
session. `held` counts the connections a request has taken, `Taken` is the set of
all that are taken and `Free` what the pool has left; a commit returns the
connection of its session, the end of the request returns all. The upsert of a
quality request commits and returns the second one while the first stays taken,
and the re-read of what was cached asks the pool for it again (`UpsertCandles`,
`RereadCandles`). A request without a free connection waits until one is
returned or the pool's time-out ends it; at the re-read the time-out is a
warning of the report and the request goes on (`RereadTimeout`). Tokens
are never drawn twice (48 random bytes). Password hashing, cookie settings and
the origin guard are left out: whether a password is right is a choice.

### DatasetCalls and the pages

JavaScript runs one handler at a time up to its next `await`, so a page is a
state and a set of requests under way: an action is a handler up to its `await`
or from it, and other handlers run in between. In `DatasetCalls` a request sits
in a slot, the service serves it in one step (a save is `SaveRun` of
`DatasetRegister`, which the SQL statements implement) and the page takes the
answer in a later one; a request or its answer may fail, the service having
acted or not. A rejected promise carries a preview (provider limitation) or
not, as `readError` decides. The guards of the handlers are the conditions
under which the page renders their buttons enabled. `HistoryPage` keeps one
`runState` and one `exportState` for all cards, as the code does; `abandoned`
remembers the runs whose refresh failed inside the catch block, where the
handler's promise rejects and nothing is set, until another run is started. In `ShellPage` `overlapped` tells
whether the last draft was asked for while a dataset was running, the one case
in which a preview of another run can appear. In `ConfigPage` the requests about
configurations are in `ask`, which also keeps what a handler's closure has kept
(the form of the rendering in which "Confirm delete" was pressed); `disturbed`
collects the five cases in which the page and the service part: the list could
not be loaded, an answer was lost after the service had acted, something was
saved while the list was loading, a configuration was saved twice at a time, or
was opened in the form while it was being deleted. Without any one of the five,
`ShownConfigsAreStored` fails. In `QualityPage` an effect runs after the
rendering of a new selection, `isCurrent` is the number of the effect's run, and
the session history is a sequence of search strings. React runs the effects of a
rendering before it handles the next event, but answers may come in between.
`BrowserPages` shows one of the four: the links between pages are plain
`<a href>`, so a page always starts anew. Within a load the route changes when
the user logs out, which unmounts the page, and when a login mounts the history
page (`LogOut`, `LogIn`). Going back to an older path after that mounts its page
as a load of that path does and is not a step of its own. Text filters and the
fields of a form are left out (a form is valid or not).

## 3. Runs

| run | instance | shows |
|---|---|---|
| `store` | 2 runs, 3 saves, at most 1 record, fair | tables hold whole datasets, the statements implement the register, every save ends |
| `readers` | 1 run, 2 saves, 1 reading request, at most 2 records | answers carry one dataset, coherent when undisturbed, quality uses a completed dataset, a saved run is found |
| `shell` | 3 requests, 2 configurations, 2 names, 3 days, limit 1 day | gapless numbers, ordered history, drafts within the limit, runs auditable, updates keep other fields |
| `news` | up to 3 listed of 7 kinds of entry, pages of 2, 1 published, 1 withdrawn, fair | nothing is missed but by withdrawal and repeated but by publication, the dataset does not show how the pages fell, names are unique, relevant records are more confident, the request ends |
| `report` | datasets of up to 3 of 6 records, every cache, 1 candle cached before its minute ended, 1 minute that runs, 3 horizons, 5 environments, windows of 3 minutes, 2 calls, pages of 2, samples of 2 and 3, fair | calls cover the missing minutes and suffice, pages are complete, movements are the exchange's but at unfinished minutes, counters agree, samples span, the request is answered |
| `enrichment` | 2 reports, 3 minutes, windows of 2, 1 call, fair | no upsert deadlock, silent writes are cached, a report without a warning has every candle, every report is answered |
| `access` | 2 emails, 2 workspaces, 2 tokens, a clock of 0..1; two seed commands, or one and a request, or two requests over a pool of 2, fair | seeds are atomic, only logged-in users are served, only quality requests that wait for a second connection can starve each other, everybody is answered |
| `pages` | 2 runs, 2 configurations, 3 requests under way (2 on the history page), 3 horizons, 4 moves, logout and login, symmetric, fair | reports and previews are of what is selected or shown, whatever is busy is awaited, the list at rest is what is stored, a refresh shows its outcome, the quality page settles |
| `stale_refresh` | violation | an older refresh takes an outcome off the history |
| `foreign_preview` | violation | a preview arrives under another draft, with an export that does not exist |
| `export_torn` | violation | an export serves the records of another dataset than its summary |
| `unfinished_candle` | violation | a price taken within its minute is used for ever |

Why the bounds are enough. Three saves give a waiter for a transaction that
itself waits, with a second run for cross effects; a record more or less per
dataset already tells a dataset from a mix. Two concurrent requests give each
read-write race in `RunShell`, the third deletes or overtakes. Three articles on
pages of two give a full page, a short one and an article that crosses from one
to the other, in either direction. Records at six times, with horizons of one
and fifteen minutes and any cache, give missing minutes that need fewer, exactly
and more calls than the budget, with gaps inside, between and after windows;
windows of three and pages of two give a call of two pages, and the gap in
trading falls at the start, inside and at the end of a page. Two reports over
three minutes overlap in any way, three wanted minutes exceed a budget of one
call. Two seed commands on two emails and two workspaces give every pair of the
same or another user and slug; a second seed beside two requests adds no order
that one of the three pairs of actors does not have, as requests write no row
that a seed command reads. A pool of two is the smallest in which two requests
with one connection each starve. Three requests on a page give two handlers and
a third that overtakes; the history page, whose two cards share their states,
has two in `pages` (two cards busy, or one twice) and three in `stale_refresh`; four moves give more reports in flight than any pair of
them needs to be answered out of order, and, on the configuration page, two
deletes with their confirmations. Symmetry is used on requests and
interchangeable runs and configurations; in `pages`, whose one liveness property
is about the quality page, no symmetric value occurs in the states the property
tells apart (see `MCBrowserPages`). `CHECK_DEADLOCK FALSE` stands in runs whose
requests all end: then nothing is left to do.

Fairness: weak fairness on each request's own progress. A handler runs in its
own thread until it answers, and PostgreSQL resumes a waiting statement when the
lock is free. A seed command is its own process and goes on likewise; nothing
makes it fail. Nothing is assumed of failures, of new requests, of the clock or
of what the news provider publishes. For `store` the deadlock detector is part
of the progress (PostgreSQL ends each wait cycle after `deadlock_timeout`), and
for `access` the pool's time-out is: `pool_timeout` ends a wait. On the quality
page React runs each scheduled effect and every fetch settles; the user makes
finitely many moves (`MaxMoves`).

Each property has a mutant in `PROJECT.json`: an operator of the module, marked
"Wrong variant", that changes the code's behaviour the way a slip would and
makes that property fail.

## 4. Proofs

Every invariant and every action property that the passing runs check is proved
for all values of the constants that satisfy the named ASSUMEs; TLC evaluates
these in the runs. Each inductive invariant was checked by TLC on the instances
above before it was proved (`RepeatInv` with two publications), except
`RefreshInv`, which is only proved.

### DatasetStoreProofs

For any sets of runs and requests: the type invariant, the inductive invariant
`StoreInv`, and from it that committed datasets are whole, that one transaction
writes a run at a time, that a rollback is complete, and that the statements
implement `DatasetRegister` (initial states map to initial states, a commit maps
to `SaveRun`, every other step to a stutter). `OneDatasetPerRun` is not
inductive: it needs what each transaction has done so far at each program point
(`RowsAreCommitted`, `RowLocks`, `NoRecordLeftBehind`), in particular that a
transaction that has deleted the run's rows excludes every other one from
inserting before it ends.

### DatasetReadersProofs

Over `StoreInv`, for any number of readers: `ReadersInv` adds that a request
follows its handler (`HandlersAreOrderly`), that what a SELECT found once is not
missing later (`FoundStaysFound`: a committed `save_run` deletes and inserts in
one commit), that an undisturbed request has seen the current summary
(`UndisturbedSeesCurrent`) and that quality inputs have records. From it come
the four properties of the readers. `AnswersCarryOneDataset` rests on
`OneDatasetPerRun`, as each SELECT reads one committed state.

### RunShellProofs

For any numbers of requests, configurations and days: the inductive invariant
`ShellInv`, and from it gapless run numbers, ordered history, drafts within the
range, valid links and auditable runs. The range of a draft needs that
`ReadForDraft` validates the row it read, since stored configurations may exceed
the limit; the order of the history needs that a stamp is never earlier than
those of the stored runs its number follows (`StampsFollowStoredRuns`). That
links stay valid follows from the delete and the unlinking being one
transaction. `NoLostUpdate` follows from the update writing only the columns its
request changes.

### NewsDatasetProofs

The paging loop, for any feed, page size and numbers of articles published and
withdrawn. `ClientInv` has three parts. `FeedInv`: while nothing is withdrawn,
each article of the timeframe is kept, still to be read on this page, or listed
behind it; publishing only moves articles to later offsets. `LossInv`: the
articles the client can no longer come across (`Lost`) are at most as many as
were withdrawn. Its step is that withdrawing one article moves one other, the
first that is listed behind the page, in front of it; for this the feed must be
in order of publication and the page be what the feed lists at the offset.
`RecordsInv`: what is kept is wanted, and while nothing is withdrawn an article
is kept only after every newer one that was listed when the request began.
`RepeatInv` counts repetitions: an article still ahead of the client may be a
repetition only if it is as new as one that was kept, and those to come and
those kept are together no more than the articles published meanwhile. Its steps
are that a page is read from newer to older, that publishing one article moves
one other behind the client, and that withdrawing brings none back; from it
`RepeatsArePublications`. `DatasetFetches` shows that `DatasetSpec` implements `FeedSpec`, so the
theorems about the feed hold for dataset requests.

The dataset. The sort key is a strict order of the raw records
(`BeforeIsAnOrder`; positions decide between equal keys), so one record of each
provider id survives, survivors have different deterministic indexes, and
different survivors have different names (`NamesDiffer`): `NamesAreUnique`.
For `ShiftsChangeNothing`, the records a request kept repeat the list of a feed
at rest, each one after all that the list has before it (`Repeats`, from
`RecordsInv` and `FeedInv`); a first occurrence then survives exactly when its
article survives in the list. This is where order matters: two versions of an
article with the same key are told apart by position only.
`RelevantRecordsLead` bounds a relevant record's confidence by 0.6 from below
and any other's by 0.4 from above. `ArticlesAssumption` says that what is no
junk has integer fields, with `NoTime` where a time is missing.

### QualityReportProofs

Windows: for any sets of minutes, window sizes and budgets, what is left to
group lies a whole window beyond the start of each call, and `Len(windows)`
windows beyond some missing minute (`FetchInv`). From it, calls are disjoint and
cover what is not left, and with 50 calls of 1000 minutes no run of at most 30
days with its horizon is cut short. Pages: for any traded minutes, page size and
windows, `PagesInv` says that in the middle of a call every traded minute before
`current` was on an earlier page. A full page is followed by the minute after
its last candle, and a listing has no gap before its last candle, so the union
of the pages is the window's listing when the call returns (`NoCandleIsLost`).
Samples: for every length and limit, sample indices start at the first record,
end at the last and increase strictly (`SampleSpans`); the division is handled
by lemmas on `\div` with the bounds of its remainder.

The report (`ReportInv`): what was asked for (`RequestInv`: both minutes of each
record are cached or missing), that fetched candles are the exchange's
(`CandlesAreTraded`, also from odd pages), that the report's records are in
order and have a return exactly when they have a direction (`InputsInv`), and
the state of the counting loop (`LoopInv`: one point per record counted).
`ReportsAreOfPrices` needs that a movement over candles which hold every traded
minute it asks for is the movement over all of them (`MovementType` and the
lemma after it), at the prices the report knew (`PricesButEarly`: the close,
except at a minute that ran while it was fetched or was cached before it ended
and not fetched again, the case that `unfinished_candle` shows); `CountersAddUp` needs `InputsInv`, because a record counted as
a hit must have had a return for the correlation's pairs. `ReportMakesPages`
shows that a report takes the steps of `FetchWindows` and `KlinePages`, so
windows and pages are covered there too (`ReportsLoseNoCandle`).

### PriceEnrichmentProofs

For any number of reports over any minutes: `EnrichmentInv` says that a row lock
belongs to a report that is writing and has all its remaining rows after that
one (`LocksAreBehind`), that what a report fetched stays with it until its write
ended (`FetchedIsKept`), and where a wanted candle is at each program point
(`WantedIsKnownOrWarned`). `UpsertsNeverDeadlock` follows from the first: of the
minutes that the reports of a wait cycle wait for take the latest (there is one,
as the minutes are finitely many); whoever holds it waits for a later one.

### AuthSessionsProofs

Seeds: for any numbers of emails, workspaces and seed commands, `SeedInv` says
that whoever holds a lock is past that write and not yet past its end, and that
a command past its writes still finds what it read; from it a command takes
effect as a whole or not at all and no workspace changes its owner
(`SeedCommandsAreAtomic`). `SeedsBesideSessions` shows that `AuthSpec` takes the
steps of the seed command only, so the same holds beside any requests.

Sessions (`AuthInv`): a login's token is nobody else's (`DrawsToken`), a token
past the lookup was issued (`HasSession`), a logged-out token is revoked
(`LogoutsAreKept`), and, the heart of it, whatever made a session or its user
unfit since the request began is still there to see when the check comes
(`UnfitIsSeen`): revocation, expiry and disabling are only undone by a seed
command, which enables its own user. `OnlySessionsAreServed` follows.
`OnlyQualityStarves` counts the taken connections: only a quality request takes
a second one, so with none free and every holder waiting, each of `PoolSize`
holders is a quality request with one, about to read its inputs or to read again
what it cached.

### BrowserPagesProofs

For any horizons, runs, configurations, requests and moves, whatever the other
pages did before: one invariant per page, which holds while the route shows it;
a login starts the history page where its `Init` does.

* Quality (`PageInv`): the request of the current run of the effect is for the
  selected horizon unless an effect is due, so no late report is shown under
  another horizon, and a loading page has a request under way.
* Draft run page (`ShellInv`): one draft is asked for at a time, and unless a
  draft overlapped, a dataset request under way is for the run shown.
* History (`HistoryInv`, `RefreshInv`): a busy card has its request under way; a
  refresh is sent after its dataset is stored, and what the service has stored
  is never taken back, so the refresh shows it.
* Configurations (`ConfigInv`): every busy label waits for an answer
  (`BusyInv`), and unless `disturbed`, the page agrees with what is stored
  (`Agreement`). The last has five parts, each needed for the next: what the
  page knows of was stored once (`KnownInv`); nothing changes while the list is
  loading (`LoadInv`); one save at most is about a configuration, and its answer
  is what is stored (`SaveInv`); a removed configuration's answer closes its
  form (`RemoveInv`); and the list differs from what is stored by answers still
  to come only (`ListInv`). When none is to come, `ShownConfigsAreStored`.

### Only model-checked

Liveness (`SavesEnd`, `RequestEnds`, `ReportEnds`, `ReportsEnd`,
`EverybodyIsAnswered`, `PageSettles`), which is out of the prover's reach under
fairness. What the sum of a text's weights is (`MapThenSumSet`) is an induction
over data: the proofs use only that the score is clamped to -100..100.

## 5. Known limits of the code

Besides the findings of the violation runs, these were met while modelling and
are not contradicted by any document:

* two updates of a saved configuration, one of its start and one of its end, are
  each validated with the row they read and can leave a range over the limit
  (drafts made from it are refused, `RunsWithinRange`);
* a draft whose configuration is deleted between the read and the INSERT is
  answered 500 by the foreign key instead of 404;
* quality requests hold one connection while they wait for a second one, twice
  when they cache candles, and enough of them starve each other until the pool's
  time-out (`StarvedByQualityOnly` says that nothing else does);
* when the re-read after a committed upsert fails, by that time-out for one, the
  report warns that its candles were not cached although they were;
* the five cases of `disturbed` in `ConfigPage`, and a save that resets a form
  opened for another configuration meanwhile;
* a correlation of two pairs may be rounded beyond 1, which the report's schema
  refuses.

## 6. Not modelled

* `main.py` (routing, origin guard, middleware), `contracts`: pure functions of
  one request without state.
* The rest of the application's session state (`App.tsx`, `LoginPage.tsx`): its
  loading, a refused login and the error of a logout, with nothing else rendered
  meanwhile; the route, logout and login are in `BrowserPages`, the service side
  in `AuthSessions`.
* Floating-point arithmetic (the value of the correlation, rounding), hashing,
  formatting, the JSONL lines, drawing and text filters.
* `list` and `get` of configurations read one committed state and change
  nothing.
* Migrations: what they create is the initial state and the constraints of the
  modules; running and downgrading them, and the index of `0002`, are left out.
* `tools/codex-review-agent` and CI: development tools.

## 7. What is left

Theorems that relate modules, beyond those of section 4: that the atomic
`SaveRun` with which `DatasetCalls` serves a page is all that a page can tell of
`DatasetStore`'s statements; and that `PriceEnrichment`, whose provider call is
one step, is what two `QualityReport`s over one cache do. The rest of the shell
(`App.tsx`) is sequential and has nothing to interleave.
