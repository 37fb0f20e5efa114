------------------------------- MODULE RunShell -------------------------------
(***************************************************************************)
(* One workspace's saved BACKTEST configurations and draft BACKTEST runs:  *)
(* BacktestConfigRepository and PostgresBacktestShellRepository under      *)
(* concurrent requests.  A request reads in one step and writes in a later *)
(* one, so it writes on what it read; a write is the one transaction the   *)
(* request commits (READ COMMITTED, constraints checked by the database).  *)
(* Timestamps are days, draft-run-%06d is its number.                      *)
(***************************************************************************)
EXTENDS Naturals

CONSTANTS
  Requests,        \* the HTTP requests
  ConfigIds,       \* uuids of backtest_configs rows, never used twice
  Names,           \* configuration names
  Days,            \* timeframe ends
  MaxRange,        \* MAX_BACKTEST_RANGE
  InitialConfigs,  \* configurations saved earlier
  NoConfig,        \* no row, or config_id NULL
  Keep             \* a field an update request leaves out

Timeframe == [start : Days, end : Days]
Config == [name : Names, start : Days, end : Days]

(* _require_valid_backtest_timeframe                                       *)
ValidTimeframe(start, end) == start <= end /\ end <= start + MaxRange

ASSUME RangeAssumption == MaxRange \in Nat /\ Days \subseteq Nat
ASSUME KeepAssumption == Keep \notin Names /\ Keep \notin Days
ASSUME NoConfigAssumption == NoConfig \notin ConfigIds \cup Config \cup Timeframe
ASSUME InitialConfigsAssumption ==
  /\ InitialConfigs \in [ConfigIds -> Config \cup {NoConfig}]
  /\ \A c \in ConfigIds :
       InitialConfigs[c] # NoConfig =>
         ValidTimeframe(InitialConfigs[c].start, InitialConfigs[c].end)
  /\ \A c, d \in ConfigIds :
       InitialConfigs[c] # NoConfig /\ InitialConfigs[d] # NoConfig
       /\ InitialConfigs[c].name = InitialConfigs[d].name => c = d

VARIABLES
  configs,  \* backtest_configs
  usedIds,  \* config uuids handed out so far
  runs,     \* backtest_runs
  clock,    \* datetime.now(UTC)
  pc,       \* where each request is
  op,       \* its endpoint
  target,   \* the config it is about
  seen,     \* the config row it read
  wanted,   \* the config row it wants, or the timeframe of its draft
  number,   \* the run number it computed
  stamp,    \* the created_at it took
  code      \* its HTTP status

tables == <<configs, usedIds, runs>>
locals == <<target, seen, wanted, number, stamp>>
vars == <<configs, usedIds, runs, clock, pc, op, target, seen, wanted, number, stamp, code>>

Run == [id : Nat, config : ConfigIds \cup {NoConfig}, start : Days, end : Days, created : Nat]
Ops == {"none", "create", "update", "delete", "draft", "draft_from_config"}

TypeOK ==
  /\ configs \in [ConfigIds -> Config \cup {NoConfig}]
  /\ usedIds \subseteq ConfigIds
  /\ runs \subseteq Run
  /\ clock \in Nat
  /\ pc \in [Requests -> {"idle", "write", "refresh", "next_id", "stamp", "insert", "done"}]
  /\ op \in [Requests -> Ops]
  /\ target \in [Requests -> ConfigIds \cup {NoConfig}]
  /\ seen \in [Requests -> Config \cup {NoConfig}]
  /\ wanted \in [Requests -> Config \cup Timeframe \cup {NoConfig}]
  /\ number \in [Requests -> Nat]
  /\ stamp \in [Requests -> Nat]
  /\ code \in [Requests -> {"none", "200", "204", "404", "409", "500"}]

Init ==
  /\ configs = InitialConfigs
  /\ usedIds = {c \in ConfigIds : InitialConfigs[c] # NoConfig}
  /\ runs = {}
  /\ clock = 0
  /\ pc = [q \in Requests |-> "idle"]
  /\ op = [q \in Requests |-> "none"]
  /\ target = [q \in Requests |-> NoConfig]
  /\ seen = [q \in Requests |-> NoConfig]
  /\ wanted = [q \in Requests |-> NoConfig]
  /\ number = [q \in Requests |-> 0]
  /\ stamp = [q \in Requests |-> 0]
  /\ code = [q \in Requests |-> "none"]

-----------------------------------------------------------------------------
Answer(q, c) ==
  /\ pc' = [pc EXCEPT ![q] = "done"]
  /\ code' = [code EXCEPT ![q] = c]

Continue(q, label) ==
  /\ pc' = [pc EXCEPT ![q] = label]
  /\ UNCHANGED code

(* uq_backtest_configs_workspace_name                                      *)
NameTaken(name, except) ==
  \E d \in ConfigIds \ {except} : configs[d] # NoConfig /\ configs[d].name = name

(* create: one INSERT; the request schema has validated the timeframe.     *)
CreateConfig(q) ==
  /\ pc[q] = "idle"
  /\ op' = [op EXCEPT ![q] = "create"]
  /\ \E c \in ConfigIds \ usedIds, row \in Config :
       /\ ValidTimeframe(row.start, row.end)
       /\ target' = [target EXCEPT ![q] = c]
       /\ IF NameTaken(row.name, c)
            THEN Answer(q, "409") /\ UNCHANGED <<configs, usedIds>>
            ELSE /\ configs' = [configs EXCEPT ![c] = row]
                 /\ usedIds' = usedIds \cup {c}
                 /\ Continue(q, "refresh")
  /\ UNCHANGED <<runs, clock, seen, wanted, number, stamp>>

(* session.refresh after the commit of create and update: the row may have *)
(* been deleted by then, an InvalidRequestError.                           *)
RefreshConfig(q) ==
  /\ pc[q] = "refresh"
  /\ Answer(q, IF configs[target[q]] = NoConfig THEN "500" ELSE "200")
  /\ UNCHANGED <<tables, clock, op, locals>>

Merged(row, patch) ==
  [name  |-> IF patch.name = Keep THEN row.name ELSE patch.name,
   start |-> IF patch.start = Keep THEN row.start ELSE patch.start,
   end   |-> IF patch.end = Keep THEN row.end ELSE patch.end]

(* What UpdateBacktestConfigRequest lets through: any fields may be absent,*)
(* a pair of timestamps is validated.                                      *)
Patches ==
  {p \in [name : Names \cup {Keep}, start : Days \cup {Keep}, end : Days \cup {Keep}] :
     p.start = Keep \/ p.end = Keep \/ ValidTimeframe(p.start, p.end)}

(* update: SELECT, merge, validate the merged timeframe.  Its pydantic     *)
(* ValidationError is not among the errors the router maps.                *)
ReadForUpdate(q) ==
  /\ pc[q] = "idle"
  /\ op' = [op EXCEPT ![q] = "update"]
  /\ \E c \in ConfigIds, patch \in Patches :
       /\ target' = [target EXCEPT ![q] = c]
       /\ IF configs[c] = NoConfig
            THEN Answer(q, "404") /\ UNCHANGED <<seen, wanted>>
          ELSE LET row == Merged(configs[c], patch) IN
            /\ seen' = [seen EXCEPT ![q] = configs[c]]
            /\ wanted' = [wanted EXCEPT ![q] = row]
            /\ IF ValidTimeframe(row.start, row.end)
                 THEN Continue(q, "write") ELSE Answer(q, "500")
  /\ UNCHANGED <<tables, clock, number, stamp>>

(* Wrong variant: the UPDATE writes every column of the merged row.        *)
UpdatedWholeRow(q) == wanted[q]

(* update: the UPDATE names only the columns whose value changed since the *)
(* SELECT; ck_backtest_configs_timeframe_order and the unique name are     *)
(* checked on the row that results.  A row that is gone is a               *)
(* StaleDataError.                                                         *)
Updated(q) ==
  LET row == configs[target[q]]
      new(old, was, want) == IF want = was THEN old ELSE want
  IN  [name  |-> new(row.name, seen[q].name, wanted[q].name),
       start |-> new(row.start, seen[q].start, wanted[q].start),
       end   |-> new(row.end, seen[q].end, wanted[q].end)]

WriteUpdate(q) ==
  /\ pc[q] = "write" /\ op[q] = "update"
  /\ IF configs[target[q]] = NoConfig
       THEN Answer(q, "500") /\ UNCHANGED configs
     ELSE IF Updated(q).end < Updated(q).start \/ NameTaken(Updated(q).name, target[q])
       THEN Answer(q, "409") /\ UNCHANGED configs
     ELSE /\ configs' = [configs EXCEPT ![target[q]] = Updated(q)]
          /\ Continue(q, "refresh")
  /\ UNCHANGED <<usedIds, runs, clock, op, locals>>

(* delete: SELECT                                                          *)
ReadForDelete(q) ==
  /\ pc[q] = "idle"
  /\ op' = [op EXCEPT ![q] = "delete"]
  /\ \E c \in ConfigIds :
       /\ target' = [target EXCEPT ![q] = c]
       /\ IF configs[c] = NoConfig THEN Answer(q, "404") ELSE Continue(q, "write")
  /\ UNCHANGED <<tables, clock, seen, wanted, number, stamp>>

(* delete: the config's runs lose their config_id, the row is deleted.     *)
Unlinked(c) ==
  {[x EXCEPT !.config = IF x.config = c THEN NoConfig ELSE x.config] : x \in runs}

(* Wrong variant: the runs go with their config.                           *)
WriteDeleteCascades(q) ==
  /\ pc[q] = "write" /\ op[q] = "delete"
  /\ configs' = [configs EXCEPT ![target[q]] = NoConfig]
  /\ runs' = {x \in runs : x.config # target[q]}
  /\ Answer(q, "204")
  /\ UNCHANGED <<usedIds, clock, op, locals>>

WriteDelete(q) ==
  /\ pc[q] = "write" /\ op[q] = "delete"
  /\ configs' = [configs EXCEPT ![target[q]] = NoConfig]
  /\ runs' = Unlinked(target[q])
  /\ Answer(q, "204")
  /\ UNCHANGED <<usedIds, clock, op, locals>>

(* Wrong variant: the row is trusted because it was validated when saved.  *)
ReadForDraftUnvalidated(q) ==
  /\ pc[q] = "idle"
  /\ op' = [op EXCEPT ![q] = "draft_from_config"]
  /\ \E c \in ConfigIds :
       /\ target' = [target EXCEPT ![q] = c]
       /\ wanted' = [wanted EXCEPT ![q] = configs[c]]
       /\ IF configs[c] = NoConfig THEN Answer(q, "404") ELSE Continue(q, "next_id")
  /\ UNCHANGED <<tables, clock, seen, number, stamp>>

(* create_draft_from_config: SELECT; the row is validated again as a       *)
(* CreateBacktestRunRequest, whose ValidationError no handler maps.        *)
ReadForDraft(q) ==
  /\ pc[q] = "idle"
  /\ op' = [op EXCEPT ![q] = "draft_from_config"]
  /\ \E c \in ConfigIds :
       /\ target' = [target EXCEPT ![q] = c]
       /\ wanted' = [wanted EXCEPT ![q] = configs[c]]
       /\ IF configs[c] = NoConfig THEN Answer(q, "404")
          ELSE IF ValidTimeframe(configs[c].start, configs[c].end)
            THEN Continue(q, "next_id") ELSE Answer(q, "500")
  /\ UNCHANGED <<tables, clock, seen, number, stamp>>

(* create_draft_run: the schema has validated the request.                 *)
AskForDraft(q) ==
  /\ pc[q] = "idle"
  /\ op' = [op EXCEPT ![q] = "draft"]
  /\ \E frame \in Timeframe :
       /\ ValidTimeframe(frame.start, frame.end)
       /\ wanted' = [wanted EXCEPT ![q] = frame]
  /\ Continue(q, "next_id")
  /\ UNCHANGED <<tables, clock, target, seen, number, stamp>>

(* _next_run_id: one more than the highest committed number.               *)
NextRunId(q) ==
  /\ pc[q] = "next_id"
  /\ \E n \in {x.id : x \in runs} \cup {0} :
       /\ \A x \in runs : x.id <= n
       /\ number' = [number EXCEPT ![q] = n + 1]
  /\ Continue(q, "stamp")
  /\ UNCHANGED <<tables, clock, op, target, seen, wanted, stamp>>

(* created_at=self._clock(): the clock may have advanced.                  *)
TakeStamp(q) ==
  /\ pc[q] = "stamp"
  /\ clock' \in {clock, clock + 1}
  /\ stamp' = [stamp EXCEPT ![q] = clock']
  /\ Continue(q, "insert")
  /\ UNCHANGED <<tables, op, target, seen, wanted, number>>

(* Wrong variant: no unique (workspace_id, run_id).                        *)
InsertFailsOnConfigOnly(q) == target[q] # NoConfig /\ configs[target[q]] = NoConfig

(* INSERT and COMMIT.  uq_backtest_runs_workspace_run_id or the config's   *)
(* foreign key fails as BacktestShellUnsupportedError, which only the      *)
(* drafts router maps to 409.                                              *)
InsertFails(q) ==
  \/ \E x \in runs : x.id = number[q]
  \/ target[q] # NoConfig /\ configs[target[q]] = NoConfig

DraftRow(q) ==
  [id |-> number[q], config |-> target[q], start |-> wanted[q].start,
   end |-> wanted[q].end, created |-> stamp[q]]

(* Wrong variant: a taken number is replaced by the next one, unread.      *)
InsertDraftRetries(q) ==
  /\ pc[q] = "insert"
  /\ runs' = runs \cup
       {[DraftRow(q) EXCEPT !.id = IF InsertFails(q) THEN @ + 1 ELSE @]}
  /\ Answer(q, "200")
  /\ UNCHANGED <<configs, usedIds, clock, op, locals>>

InsertDraft(q) ==
  /\ pc[q] = "insert"
  /\ IF InsertFails(q)
       THEN Answer(q, IF op[q] = "draft" THEN "409" ELSE "500") /\ UNCHANGED runs
       ELSE runs' = runs \cup {DraftRow(q)} /\ Answer(q, "200")
  /\ UNCHANGED <<configs, usedIds, clock, op, locals>>

RequestStep(q) ==
  \/ CreateConfig(q) \/ RefreshConfig(q)
  \/ ReadForUpdate(q) \/ WriteUpdate(q)
  \/ ReadForDelete(q) \/ WriteDelete(q)
  \/ ReadForDraft(q) \/ AskForDraft(q)
  \/ NextRunId(q) \/ TakeStamp(q) \/ InsertDraft(q)

Next == \E q \in Requests : RequestStep(q)

Spec == Init /\ [][Next]_vars

-----------------------------------------------------------------------------
(* Run ids identify runs and have no gaps, although every request computes *)
(* its id from a read made before its INSERT.                              *)
RunIdsAreGapless ==
  /\ \A x, y \in runs : x.id = y.id => x = y
  /\ \A x \in runs : x.id > 0 /\ \A n \in 1..x.id : \E y \in runs : y.id = n

(* The run history (created_at descending, then run_id) lists runs in the  *)
(* order of their numbers: created_at is taken after the number is read,   *)
(* and a number whose predecessor is not committed yet cannot be stored.   *)
HistoryOrderIsIdOrder ==
  \A x, y \in runs : x.id < y.id => x.created <= y.created

(* Every stored draft run is ordered and within 30 days, even when it was  *)
(* made from a configuration other requests were changing.                 *)
RunsWithinRange == \A x \in runs : ValidTimeframe(x.start, x.end)

(* A run refers to a saved configuration or to none.                       *)
RunConfigsExist ==
  \A x \in runs : x.config # NoConfig => configs[x.config] # NoConfig

(* No lost update: a saved update changes only the fields its request      *)
(* gave new values, so a request working on a stale row never reverts what *)
(* another request saved in the other fields.                              *)
UpdatesKeepOtherFields ==
  [][\A c \in ConfigIds :
       configs[c] # NoConfig /\ configs'[c] \notin {NoConfig, configs[c]} =>
         \E q \in Requests :
           /\ target[q] = c /\ pc[q] = "write" /\ op[q] = "update"
           /\ \A f \in {"name", "start", "end"} :
                configs'[c][f] # configs[c][f] =>
                  wanted[q][f] # seen[q][f] /\ configs'[c][f] = wanted[q][f]]_vars

(* Delete removes the saved config only: a run is never removed, and all   *)
(* that may change of it is that it loses a configuration that is deleted. *)
RunsStayAuditable ==
  [][\A x \in runs :
       \/ x \in runs'
       \/ /\ configs'[x.config] = NoConfig
          /\ [x EXCEPT !.config = NoConfig] \in runs']_vars

(* What makes the properties above inductive.                              *)

(* A request that goes on to write knows the row it is about.              *)
RequestsAreAboutConfigs ==
  \A q \in Requests :
    /\ pc[q] \in {"write", "refresh"} => target[q] \in ConfigIds
    /\ pc[q] = "write" /\ op[q] = "update" => seen[q] \in Config /\ wanted[q] \in Config
    /\ pc[q] \in {"next_id", "stamp", "insert"} =>
         wanted[q] # NoConfig /\ ValidTimeframe(wanted[q].start, wanted[q].end)

(* Every number below the one a request computed is already stored.        *)
NumbersFollowStoredRuns ==
  \A q \in Requests :
    pc[q] \in {"stamp", "insert"} =>
      number[q] > 0 /\ \A n \in 1..(number[q] - 1) : \E x \in runs : x.id = n

(* A stamp is not in the future, and not before a run with a lower number. *)
StampsFollowStoredRuns ==
  /\ \A x \in runs : x.created <= clock
  /\ \A q \in Requests :
       pc[q] = "insert" =>
         stamp[q] <= clock /\ \A x \in runs : x.id < number[q] => x.created <= stamp[q]

ShellInv ==
  /\ TypeOK
  /\ RequestsAreAboutConfigs
  /\ NumbersFollowStoredRuns
  /\ RunIdsAreGapless
  /\ StampsFollowStoredRuns
  /\ HistoryOrderIsIdOrder
  /\ RunsWithinRange
  /\ RunConfigsExist

=============================================================================
