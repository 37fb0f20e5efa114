----------------------------- MODULE DatasetStore -----------------------------
(***************************************************************************)
(* POST /{run_id}/dataset/run: DatasetOrchestrator.run_dataset followed by *)
(* PostgresCompletedDatasetRepository.save_run, for several requests at    *)
(* once.  A step is one SQL statement of save_run's transaction, executed  *)
(* by PostgreSQL at its default isolation level, READ COMMITTED (create_   *)
(* engine sets no other): a statement sees what was committed when it      *)
(* began; a DELETE that meets a row another open transaction deleted waits *)
(* for that transaction and skips the row if it commits; an INSERT whose   *)
(* unique key another open transaction inserted or deleted waits for it    *)
(* and fails if a row with the key remains.                                *)
(*                                                                         *)
(* A request saves once, so its name also names the dataset_runs row it    *)
(* inserts, and <<s, i>> is the i-th dataset_records row it inserts.       *)
(***************************************************************************)
EXTENDS Naturals, FiniteSets

CONSTANTS
  Runs,        \* (workspace_id, run_id) keys of stored draft BACKTEST runs
  Savers,      \* the dataset/run requests
  Relevance,   \* RelevanceLabel
  MaxRecords,  \* bound on the records one provider answer normalizes to
  NoRow        \* no dataset_runs row

ASSUME SaversAssumption == NoRow \notin Savers
ASSUME MaxRecordsAssumption == MaxRecords \in Nat

VARIABLES
  datasetRuns,     \* committed dataset_runs: run key -> row or NoRow
  datasetRecords,  \* committed dataset_records: run key -> set of rows
  pc,              \* what each request does next
  runOf,           \* the run key of each request
  payload,         \* the summary and records each request saves
  recordTargets,   \* rows DELETE FROM dataset_records found in its snapshot
  runTarget,       \* row DELETE FROM dataset_runs found in its snapshot
  deletedRecords,  \* dataset_records rows the open transaction deleted
  deletedRun       \* dataset_runs row the open transaction deleted

tables == <<datasetRuns, datasetRecords>>
targets == <<recordTargets, runTarget>>
deletions == <<deletedRecords, deletedRun>>
storeVars == <<datasetRuns, datasetRecords, pc, runOf, payload, recordTargets,
               runTarget, deletedRecords, deletedRun>>

(* A dataset as run_dataset builds it: the status and, per record, its     *)
(* relevance; the summary's counts are computed from the records.          *)
Payloads ==
  [status : {"COMPLETED"}, labels : UNION {[1..n -> Relevance] : n \in 0..MaxRecords}]
ProviderLimitation == [status |-> "FAILED_PROVIDER_LIMITATION", labels |-> [i \in 1..0 |-> i]]
AllPayloads == Payloads \cup {ProviderLimitation}

RowsOf(s) == {<<s, i>> : i \in DOMAIN payload[s].labels}
Rows == Savers \X (1..MaxRecords)

InTransaction ==
  {"delete_records", "deleting_records", "delete_run", "deleting_run",
   "cascading", "inserting_run", "inserting_records", "committing"}
PC == InTransaction \cup {"idle", "committed", "failed"}

TypeOK ==
  /\ datasetRuns \in [Runs -> Savers \cup {NoRow}]
  /\ datasetRecords \in [Runs -> SUBSET Rows]
  /\ pc \in [Savers -> PC]
  /\ runOf \in [Savers -> Runs]
  /\ payload \in [Savers -> AllPayloads]
  /\ recordTargets \in [Savers -> SUBSET Rows]
  /\ runTarget \in [Savers -> Savers \cup {NoRow}]
  /\ deletedRecords \in [Savers -> SUBSET Rows]
  /\ deletedRun \in [Savers -> Savers \cup {NoRow}]

Init ==
  /\ datasetRuns = [r \in Runs |-> NoRow]
  /\ datasetRecords = [r \in Runs |-> {}]
  /\ pc = [s \in Savers |-> "idle"]
  /\ runOf \in [Savers -> Runs]
  /\ payload = [s \in Savers |-> ProviderLimitation]
  /\ recordTargets = [s \in Savers |-> {}]
  /\ runTarget = [s \in Savers |-> NoRow]
  /\ deletedRecords = [s \in Savers |-> {}]
  /\ deletedRun = [s \in Savers |-> NoRow]

-----------------------------------------------------------------------------
(* Which open transactions the current statement of s waits for.           *)

HasInsertedRun(t) == pc[t] \in {"inserting_records", "committing"}

BlockedBy(s) ==
  {t \in Savers \ {s} :
     \/ /\ pc[s] = "deleting_records"
        /\ recordTargets[s] \cap deletedRecords[t] # {}
     \/ /\ pc[s] = "deleting_run"
        /\ runTarget[s] # NoRow
        /\ deletedRun[t] = runTarget[s]
     \/ /\ pc[s] = "cascading"
        /\ datasetRecords[runOf[s]] \cap deletedRecords[t] # {}
     \/ /\ pc[s] = "inserting_run"
        /\ runOf[t] = runOf[s]
        /\ HasInsertedRun(t) \/ deletedRun[t] # NoRow}

Goto(s, label) == pc' = [pc EXCEPT ![s] = label]

(* Wrong variant: the failed transaction stays open and keeps its locks.   *)
RollbackForgotten(s) ==
  /\ Goto(s, "failed")
  /\ UNCHANGED <<tables, targets, deletions, runOf, payload>>

(* session.rollback(): the tables keep what was committed.                 *)
Rollback(s) ==
  /\ Goto(s, "failed")
  /\ deletedRecords' = [deletedRecords EXCEPT ![s] = {}]
  /\ deletedRun' = [deletedRun EXCEPT ![s] = NoRow]
  /\ UNCHANGED <<tables, targets, runOf, payload>>

-----------------------------------------------------------------------------
(* run_dataset up to save_run: the provider's records are normalized and   *)
(* summarised, or a limitation, a missing configuration or an unavailable  *)
(* provider is saved as FAILED_PROVIDER_LIMITATION with no records.        *)
FetchDataset(s) ==
  /\ pc[s] = "idle"
  /\ \E p \in Payloads : payload' = [payload EXCEPT ![s] = p]
  /\ Goto(s, "delete_records")
  /\ UNCHANGED <<tables, targets, deletions, runOf>>

SaveProviderLimitation(s) ==
  /\ pc[s] = "idle"
  /\ payload' = [payload EXCEPT ![s] = ProviderLimitation]
  /\ Goto(s, "delete_records")
  /\ UNCHANGED <<tables, targets, deletions, runOf>>

(* ProviderNormalizationError leaves run_dataset before anything is saved. *)
NormalizationFails(s) ==
  /\ pc[s] = "idle"
  /\ Goto(s, "failed")
  /\ UNCHANGED <<tables, targets, deletions, runOf, payload>>

(* DELETE FROM dataset_records WHERE workspace_id = .. AND run_id = ..     *)
DeleteRecords(s) ==
  /\ pc[s] = "delete_records"
  /\ recordTargets' = [recordTargets EXCEPT ![s] = datasetRecords[runOf[s]]]
  /\ Goto(s, "deleting_records")
  /\ UNCHANGED <<tables, runTarget, deletions, runOf, payload>>

DeleteRecordsDone(s) ==
  /\ pc[s] = "deleting_records"
  /\ BlockedBy(s) = {}
  /\ deletedRecords' = [deletedRecords EXCEPT
                          ![s] = recordTargets[s] \cap datasetRecords[runOf[s]]]
  /\ Goto(s, "delete_run")
  /\ UNCHANGED <<tables, targets, deletedRun, runOf, payload>>

(* DELETE FROM dataset_runs WHERE workspace_id = .. AND run_id = ..        *)
DeleteRun(s) ==
  /\ pc[s] = "delete_run"
  /\ runTarget' = [runTarget EXCEPT ![s] = datasetRuns[runOf[s]]]
  /\ Goto(s, "deleting_run")
  /\ UNCHANGED <<tables, recordTargets, deletions, runOf, payload>>

(* Wrong variant: the delete is committed by itself.                       *)
DeleteRunAutocommits(s) ==
  /\ pc[s] = "deleting_run"
  /\ BlockedBy(s) = {}
  /\ datasetRuns' = [datasetRuns EXCEPT ![runOf[s]] = NoRow]
  /\ Goto(s, "inserting_run")
  /\ UNCHANGED <<datasetRecords, targets, deletions, runOf, payload>>

DeleteRunDone(s) ==
  /\ pc[s] = "deleting_run"
  /\ BlockedBy(s) = {}
  /\ IF runTarget[s] # NoRow /\ runTarget[s] = datasetRuns[runOf[s]]
       THEN /\ deletedRun' = [deletedRun EXCEPT ![s] = runTarget[s]]
            /\ Goto(s, "cascading")
       ELSE /\ Goto(s, "inserting_run")
            /\ UNCHANGED deletedRun
  /\ UNCHANGED <<tables, targets, deletedRecords, runOf, payload>>

(* Wrong variant: a foreign key that leaves the records.                   *)
CascadeToNothing(s) ==
  /\ pc[s] = "cascading"
  /\ Goto(s, "inserting_run")
  /\ UNCHANGED <<tables, targets, deletions, runOf, payload>>

(* ON DELETE CASCADE of fk_dataset_records_dataset_run                     *)
CascadeToRecords(s) ==
  /\ pc[s] = "cascading"
  /\ BlockedBy(s) = {}
  /\ deletedRecords' = [deletedRecords EXCEPT ![s] = datasetRecords[runOf[s]]]
  /\ Goto(s, "inserting_run")
  /\ UNCHANGED <<tables, targets, deletedRun, runOf, payload>>

(* INSERT INTO dataset_runs under uq_dataset_runs_workspace_run_id         *)
RunKeyTaken(s) == datasetRuns[runOf[s]] \notin {NoRow, deletedRun[s]}

InsertRun(s) ==
  /\ pc[s] = "inserting_run"
  /\ BlockedBy(s) = {}
  /\ ~RunKeyTaken(s)
  /\ Goto(s, "inserting_records")
  /\ UNCHANGED <<tables, targets, deletions, runOf, payload>>

InsertRunConflicts(s) ==
  /\ pc[s] = "inserting_run"
  /\ BlockedBy(s) = {}
  /\ RunKeyTaken(s)
  /\ Rollback(s)

(* INSERT INTO dataset_records, flushed by session.commit()                *)
InsertRecords(s) ==
  /\ pc[s] = "inserting_records"
  /\ Goto(s, "committing")
  /\ UNCHANGED <<tables, targets, deletions, runOf, payload>>

(* Wrong variant: the old records stay.                                    *)
CommitKeepsOldRecords(s) ==
  /\ pc[s] = "committing"
  /\ datasetRuns' = [datasetRuns EXCEPT ![runOf[s]] = s]
  /\ datasetRecords' = [datasetRecords EXCEPT ![runOf[s]] = @ \cup RowsOf(s)]
  /\ deletedRecords' = [deletedRecords EXCEPT ![s] = {}]
  /\ deletedRun' = [deletedRun EXCEPT ![s] = NoRow]
  /\ Goto(s, "committed")
  /\ UNCHANGED <<targets, runOf, payload>>

Commit(s) ==
  /\ pc[s] = "committing"
  /\ datasetRuns' = [datasetRuns EXCEPT ![runOf[s]] = s]
  /\ datasetRecords' = [datasetRecords EXCEPT
                          ![runOf[s]] = (@ \ deletedRecords[s]) \cup RowsOf(s)]
  /\ deletedRecords' = [deletedRecords EXCEPT ![s] = {}]
  /\ deletedRun' = [deletedRun EXCEPT ![s] = NoRow]
  /\ Goto(s, "committed")
  /\ UNCHANGED <<targets, runOf, payload>>

(* The process or its connection dies inside the transaction.              *)
ConnectionLost(s) ==
  /\ pc[s] \in InTransaction
  /\ Rollback(s)

(* PostgreSQL's deadlock detector ends one transaction of a wait cycle.    *)
WaitCycle(D) == D # {} /\ \A s \in D : BlockedBy(s) \cap D # {}

DeadlockVictim(s) ==
  /\ \E D \in SUBSET Savers :
       /\ s \in D
       /\ WaitCycle(D)
       /\ \A E \in SUBSET D : WaitCycle(E) => E = D
  /\ Rollback(s)

-----------------------------------------------------------------------------
Statement(s) ==
  \/ DeleteRecords(s) \/ DeleteRecordsDone(s)
  \/ DeleteRun(s) \/ DeleteRunDone(s) \/ CascadeToRecords(s)
  \/ InsertRun(s) \/ InsertRunConflicts(s)
  \/ InsertRecords(s) \/ Commit(s)

SaverNext(s) ==
  \/ FetchDataset(s) \/ SaveProviderLimitation(s) \/ NormalizationFails(s)
  \/ Statement(s) \/ ConnectionLost(s) \/ DeadlockVictim(s)

Next == \E s \in Savers : SaverNext(s)

(* PostgreSQL runs every statement that does not wait, and its deadlock    *)
(* detector runs after deadlock_timeout.                                   *)
StoreFairness == \A s \in Savers : WF_storeVars(Statement(s) \/ DeadlockVictim(s))

Spec == Init /\ [][Next]_storeVars
FairSpec == Spec /\ StoreFairness

-----------------------------------------------------------------------------
(* The committed tables always hold one whole dataset per run: the summary *)
(* row of one save_run and exactly the records of that same save_run       *)
(* (Regula #1; save_run must be atomic for summary plus records), however  *)
(* the statements of concurrent saves interleave.                          *)
OneDatasetPerRun ==
  \A r \in Runs :
    datasetRecords[r] = IF datasetRuns[r] = NoRow THEN {} ELSE RowsOf(datasetRuns[r])

(* A request that failed left no row behind, neither in dataset_runs nor   *)
(* in dataset_records.                                                     *)
FailedSaveLeavesNoRow ==
  \A s \in Savers, r \in Runs :
    pc[s] \in {"idle", "failed"} =>
      datasetRuns[r] # s /\ \A i \in 1..MaxRecords : <<s, i>> \notin datasetRecords[r]

(* No two requests have both inserted a summary row for the same run: the  *)
(* unique index admits one writer at a time, so a commit never overwrites  *)
(* a dataset that its transaction did not delete.                          *)
OneInserterPerRun ==
  /\ \A s, t \in Savers :
       HasInsertedRun(s) /\ HasInsertedRun(t) /\ runOf[s] = runOf[t] => s = t
  /\ \A s \in Savers : HasInsertedRun(s) => ~RunKeyTaken(s)

(* What makes OneDatasetPerRun and OneInserterPerRun inductive.            *)

(* A row is only in the committed tables once its transaction committed.   *)
RowsAreCommitted ==
  \A s \in Savers, r \in Runs : datasetRuns[r] = s => pc[s] = "committed" /\ runOf[s] = r

(* A deleted summary row is the committed one of the run, it is deleted by *)
(* one transaction only, and the cascade starts from such a row.           *)
RowLocks ==
  /\ \A s \in Savers :
       deletedRun[s] # NoRow =>
         /\ pc[s] \in {"cascading", "inserting_run", "inserting_records", "committing"}
         /\ deletedRun[s] = datasetRuns[runOf[s]]
  /\ \A s, t \in Savers : deletedRun[s] = deletedRun[t] => s = t \/ deletedRun[s] = NoRow
  /\ \A s \in Savers : pc[s] = "cascading" => deletedRun[s] # NoRow

(* Past the cascade a transaction has deleted every record of the summary  *)
(* row it deleted: uq_dataset_records_workspace_run_record_id cannot fail  *)
(* on a record left over from the dataset being replaced.                  *)
NoRecordLeftBehind ==
  \A s \in Savers :
    /\ pc[s] \in {"inserting_run", "inserting_records", "committing"}
    /\ deletedRun[s] # NoRow \/ HasInsertedRun(s)
    => datasetRecords[runOf[s]] \subseteq deletedRecords[s]

StoreInv ==
  /\ TypeOK
  /\ OneDatasetPerRun
  /\ OneInserterPerRun
  /\ RowsAreCommitted
  /\ RowLocks
  /\ NoRecordLeftBehind

(* Every request that entered save_run ends, although statements wait for  *)
(* each other's locks (an ended request does not begin again).             *)
SavesEnd ==
  []<>(\A s \in Savers : pc[s] \notin InTransaction)

-----------------------------------------------------------------------------
(* The tables implement the register of whole datasets.                    *)
DatasetOf(s, p) ==
  [status |-> p.status, labels |-> p.labels, rows |-> {<<s, i>> : i \in DOMAIN p.labels}]

AcceptedDatasets == {DatasetOf(s, p) : s \in Savers, p \in AllPayloads}

Stored ==
  [r \in Runs |->
     IF datasetRuns[r] = NoRow THEN NoRow
     ELSE [status |-> payload[datasetRuns[r]].status,
           labels |-> payload[datasetRuns[r]].labels,
           rows   |-> datasetRecords[r]]]

Register == INSTANCE DatasetRegister WITH
  stored <- Stored,
  Datasets <- AcceptedDatasets,
  NoDataset <- NoRow

(* Every step of the transactions either leaves the register alone or      *)
(* replaces one run's dataset by a whole new one.                          *)
ImplementsRegister == Register!Spec
=============================================================================
