-------------------------- MODULE DatasetStoreProofs --------------------------
(***************************************************************************)
(* StoreInv is inductive for every number of requests, runs and records;   *)
(* OneDatasetPerRun and the implementation of DatasetRegister follow.      *)
(***************************************************************************)
EXTENDS DatasetStore, TLAPS

(* A request's record rows are rows.                                       *)
LEMMA RowsOfType ==
  ASSUME TypeOK, NEW s \in Savers
  PROVE  RowsOf(s) \subseteq Rows
<1>1. \A p \in AllPayloads : \A i \in DOMAIN p.labels : i \in 1..MaxRecords
  BY MaxRecordsAssumption DEF AllPayloads, Payloads, ProviderLimitation
<1> QED
  BY <1>1 DEF TypeOK, RowsOf, Rows

(* The declared types hold initially.                                      *)
LEMMA InitType == Init => TypeOK
BY DEF Init, TypeOK, PC, AllPayloads

(* Every step keeps the declared types.                                    *)
LEMMA NextType == TypeOK /\ [Next]_storeVars => TypeOK'
<1> SUFFICES ASSUME TypeOK, [Next]_storeVars PROVE TypeOK'
  OBVIOUS
<1> USE DEF TypeOK, tables, targets, deletions, Goto, PC, InTransaction
<1>1. CASE UNCHANGED storeVars
  BY <1>1 DEF storeVars
<1>2. ASSUME NEW s \in Savers, SaverNext(s) PROVE TypeOK'
  <2>1. CASE FetchDataset(s)
    BY <2>1 DEF FetchDataset, AllPayloads
  <2>2. CASE SaveProviderLimitation(s)
    BY <2>2 DEF SaveProviderLimitation, AllPayloads
  <2>3. CASE NormalizationFails(s)
    BY <2>3 DEF NormalizationFails
  <2>4. CASE DeleteRecords(s)
    BY <2>4 DEF DeleteRecords
  <2>5. CASE DeleteRecordsDone(s)
    BY <2>5 DEF DeleteRecordsDone
  <2>6. CASE DeleteRun(s)
    BY <2>6 DEF DeleteRun
  <2>7. CASE DeleteRunDone(s)
    BY <2>7 DEF DeleteRunDone
  <2>8. CASE CascadeToRecords(s)
    BY <2>8 DEF CascadeToRecords
  <2>9. CASE InsertRun(s)
    BY <2>9 DEF InsertRun
  <2>10. CASE InsertRunConflicts(s) \/ ConnectionLost(s) \/ DeadlockVictim(s)
    BY <2>10 DEF InsertRunConflicts, ConnectionLost, DeadlockVictim, Rollback
  <2>11. CASE InsertRecords(s)
    BY <2>11 DEF InsertRecords
  <2>12. CASE Commit(s)
    <3>1. RowsOf(s) \subseteq Rows
      BY RowsOfType
    <3> QED
      BY <2>12, <3>1 DEF Commit
  <2> QED
    BY <1>2, <2>1, <2>2, <2>3, <2>4, <2>5, <2>6, <2>7, <2>8, <2>9, <2>10, <2>11, <2>12
    DEF SaverNext, Statement
<1> QED
  BY <1>1, <1>2 DEF Next

(* Type correctness: the tables and the requests keep their declared       *)
(* types, so a rolled back or half-done save_run never leaves a malformed  *)
(* row.                                                                    *)
THEOREM TypeCorrect == Spec => []TypeOK
BY InitType, NextType, PTL DEF Spec

-----------------------------------------------------------------------------
(* Initially there is no row and no transaction.                           *)
LEMMA InitStoreInv == Init => StoreInv
<1> SUFFICES ASSUME Init PROVE StoreInv
  OBVIOUS
<1>1. TypeOK
  BY InitType
<1>2. OneDatasetPerRun
  BY DEF Init, OneDatasetPerRun
<1>3. OneInserterPerRun
  BY DEF Init, OneInserterPerRun, HasInsertedRun
<1>4. RowsAreCommitted /\ RowLocks /\ NoRecordLeftBehind
  BY SaversAssumption
  DEF Init, RowsAreCommitted, RowLocks, NoRecordLeftBehind, HasInsertedRun
<1> QED
  BY <1>1, <1>2, <1>3, <1>4 DEF StoreInv

(* A step that leaves the tables, the deletions and the run keys alone and *)
(* moves one request that holds nothing keeps the invariant; this covers   *)
(* everything before the first lock and every rollback.                    *)
LEMMA IdleStep ==
  ASSUME StoreInv, TypeOK', NEW s \in Savers,
         UNCHANGED <<datasetRuns, datasetRecords, runOf>>,
         \A t \in Savers \ {s} : /\ pc'[t] = pc[t]
                                 /\ payload'[t] = payload[t]
                                 /\ deletedRun'[t] = deletedRun[t]
                                 /\ deletedRecords'[t] = deletedRecords[t],
         pc[s] # "committed", deletedRun'[s] = NoRow,
         pc'[s] \in {"delete_records", "deleting_records", "delete_run",
                     "deleting_run", "inserting_run", "failed"}
  PROVE  StoreInv'
<1> USE DEF StoreInv
<1>1. \A r \in Runs : datasetRuns[r] # s
  BY DEF RowsAreCommitted
<1>2. OneDatasetPerRun'
  BY <1>1 DEF OneDatasetPerRun, RowsOf, TypeOK
<1>3. OneInserterPerRun'
  BY DEF OneInserterPerRun, HasInsertedRun, RunKeyTaken, TypeOK
<1>4. RowsAreCommitted'
  BY <1>1 DEF RowsAreCommitted, TypeOK
<1>5. RowLocks'
  BY DEF RowLocks, TypeOK
<1>6. NoRecordLeftBehind'
  BY DEF NoRecordLeftBehind, HasInsertedRun, TypeOK
<1> QED
  BY <1>2, <1>3, <1>4, <1>5, <1>6

(* Before it deleted a summary row a request holds none.                   *)
LEMMA NoLockBefore ==
  ASSUME StoreInv, NEW s \in Savers,
         pc[s] \notin {"cascading", "inserting_run", "inserting_records", "committing"}
  PROVE  deletedRun[s] = NoRow
BY DEF StoreInv, RowLocks

(* DELETE FROM dataset_runs locks a row nobody else deleted.               *)
LEMMA DeleteRunDoneInv ==
  ASSUME StoreInv, TypeOK', NEW s \in Savers, DeleteRunDone(s)
  PROVE  StoreInv'
<1> USE DEF StoreInv
<1>1. deletedRun[s] = NoRow
  BY NoLockBefore DEF DeleteRunDone
<1>2. CASE runTarget[s] # NoRow /\ runTarget[s] = datasetRuns[runOf[s]]
  <2>1. /\ deletedRun' = [deletedRun EXCEPT ![s] = runTarget[s]]
        /\ pc' = [pc EXCEPT ![s] = "cascading"]
        /\ pc[s] = "deleting_run"
        /\ UNCHANGED <<datasetRuns, datasetRecords, runOf, payload, deletedRecords>>
    BY <1>2 DEF DeleteRunDone, Goto, tables, targets
  <2>2. \A t \in Savers \ {s} : deletedRun[t] # runTarget[s]
    BY <1>2, <2>1 DEF DeleteRunDone, BlockedBy
  <2>3. OneDatasetPerRun'
    BY <2>1 DEF OneDatasetPerRun, RowsOf
  <2>4. OneInserterPerRun'
    BY <2>1 DEF OneInserterPerRun, HasInsertedRun, RunKeyTaken, TypeOK
  <2>5. RowsAreCommitted'
    BY <2>1 DEF RowsAreCommitted, TypeOK
  <2>6. RowLocks'
    BY <1>2, <2>1, <2>2 DEF RowLocks, TypeOK
  <2>7. NoRecordLeftBehind'
    BY <2>1 DEF NoRecordLeftBehind, HasInsertedRun, TypeOK
  <2> QED
    BY <2>3, <2>4, <2>5, <2>6, <2>7
<1>3. CASE ~(runTarget[s] # NoRow /\ runTarget[s] = datasetRuns[runOf[s]])
  <2>1. /\ deletedRun' = deletedRun
        /\ pc' = [pc EXCEPT ![s] = "inserting_run"]
        /\ pc[s] = "deleting_run"
        /\ UNCHANGED <<datasetRuns, datasetRecords, runOf, payload, deletedRecords>>
    BY <1>3 DEF DeleteRunDone, Goto, tables, targets
  <2> QED
    BY <1>1, <2>1, IdleStep DEF TypeOK
<1> QED
  BY <1>2, <1>3

(* The cascade deletes what is left of the run's records.                  *)
LEMMA CascadeInv ==
  ASSUME StoreInv, TypeOK', NEW s \in Savers, CascadeToRecords(s)
  PROVE  StoreInv'
<1> USE DEF StoreInv, CascadeToRecords, Goto, tables, targets
<1>1. OneDatasetPerRun'
  BY DEF OneDatasetPerRun, RowsOf
<1>2. OneInserterPerRun'
  BY DEF OneInserterPerRun, HasInsertedRun, RunKeyTaken, TypeOK
<1>3. RowsAreCommitted'
  BY DEF RowsAreCommitted, TypeOK
<1>4. RowLocks'
  BY DEF RowLocks, TypeOK
<1>5. NoRecordLeftBehind'
  BY DEF NoRecordLeftBehind, HasInsertedRun, TypeOK
<1> QED
  BY <1>1, <1>2, <1>3, <1>4, <1>5

(* The unique index lets a summary row in only when no other transaction   *)
(* holds the key.                                                          *)
LEMMA InsertRunInv ==
  ASSUME StoreInv, TypeOK', NEW s \in Savers, InsertRun(s)
  PROVE  StoreInv'
<1> USE DEF StoreInv, InsertRun, Goto, tables, targets, deletions
<1>1. OneDatasetPerRun'
  BY DEF OneDatasetPerRun, RowsOf
<1>2. \A t \in Savers \ {s} : runOf[t] = runOf[s] => ~HasInsertedRun(t)
  BY DEF BlockedBy
<1>3. OneInserterPerRun'
  BY <1>2 DEF OneInserterPerRun, HasInsertedRun, RunKeyTaken, TypeOK
<1>4. RowsAreCommitted'
  BY DEF RowsAreCommitted, TypeOK
<1>5. RowLocks'
  BY DEF RowLocks, TypeOK
<1>6. NoRecordLeftBehind'
  <2>1. datasetRecords[runOf[s]] \subseteq deletedRecords[s]
    BY DEF NoRecordLeftBehind, RunKeyTaken, OneDatasetPerRun, TypeOK
  <2> QED
    BY <2>1 DEF NoRecordLeftBehind, HasInsertedRun, TypeOK
<1> QED
  BY <1>1, <1>3, <1>4, <1>5, <1>6

(* Inserting the records moves no lock.                                    *)
LEMMA InsertRecordsInv ==
  ASSUME StoreInv, TypeOK', NEW s \in Savers, InsertRecords(s)
  PROVE  StoreInv'
<1> USE DEF StoreInv, InsertRecords, Goto, tables, targets, deletions
<1>1. OneDatasetPerRun'
  BY DEF OneDatasetPerRun, RowsOf
<1>2. OneInserterPerRun'
  BY DEF OneInserterPerRun, HasInsertedRun, RunKeyTaken, TypeOK
<1>3. RowsAreCommitted' /\ RowLocks'
  BY DEF RowsAreCommitted, RowLocks, TypeOK
<1>4. NoRecordLeftBehind'
  BY DEF NoRecordLeftBehind, HasInsertedRun, TypeOK
<1> QED
  BY <1>1, <1>2, <1>3, <1>4

(* What the committing request replaces is all it deleted.                 *)
LEMMA CommitReplaces ==
  ASSUME StoreInv, NEW s \in Savers, Commit(s)
  PROVE  datasetRecords' = [datasetRecords EXCEPT ![runOf[s]] = RowsOf(s)]
<1>1. datasetRecords[runOf[s]] \subseteq deletedRecords[s]
  BY DEF StoreInv, NoRecordLeftBehind, Commit, HasInsertedRun
<1> QED
  BY <1>1 DEF Commit

(* Nobody else can hold the run's summary row or its key at a commit.      *)
LEMMA CommitInv ==
  ASSUME StoreInv, TypeOK', NEW s \in Savers, Commit(s)
  PROVE  StoreInv'
<1> USE DEF StoreInv
<1>1. /\ pc[s] = "committing"
      /\ pc' = [pc EXCEPT ![s] = "committed"]
      /\ datasetRuns' = [datasetRuns EXCEPT ![runOf[s]] = s]
      /\ datasetRecords' = [datasetRecords EXCEPT ![runOf[s]] = RowsOf(s)]
      /\ deletedRecords' = [deletedRecords EXCEPT ![s] = {}]
      /\ deletedRun' = [deletedRun EXCEPT ![s] = NoRow]
      /\ UNCHANGED <<runOf, payload>>
  BY CommitReplaces DEF Commit, Goto, targets
<1>2. \A t \in Savers \ {s} : HasInsertedRun(t) => runOf[t] # runOf[s]
  BY <1>1 DEF OneInserterPerRun, HasInsertedRun
<1>3. \A t \in Savers \ {s} : deletedRun[t] # NoRow => runOf[t] # runOf[s]
  <2> SUFFICES ASSUME NEW t \in Savers \ {s}, deletedRun[t] # NoRow, runOf[t] = runOf[s]
               PROVE FALSE
    OBVIOUS
  <2>1. deletedRun[t] = datasetRuns[runOf[s]]
    BY DEF RowLocks
  <2>2. deletedRun[s] = datasetRuns[runOf[s]]
    BY <1>1, <2>1 DEF OneInserterPerRun, HasInsertedRun, RunKeyTaken
  <2> QED
    BY <2>1, <2>2 DEF RowLocks
<1>4. OneDatasetPerRun'
  <2> SUFFICES ASSUME NEW r \in Runs
               PROVE datasetRecords'[r] =
                       IF datasetRuns'[r] = NoRow THEN {}
                       ELSE {<<datasetRuns'[r], i>> : i \in DOMAIN payload'[datasetRuns'[r]].labels}
    BY DEF OneDatasetPerRun, RowsOf
  <2>1. s # NoRow
    BY SaversAssumption
  <2>2. CASE r = runOf[s]
    BY <1>1, <2>1, <2>2 DEF RowsOf, TypeOK
  <2>3. CASE r # runOf[s]
    BY <1>1, <2>3 DEF OneDatasetPerRun, RowsOf, TypeOK
  <2> QED
    BY <2>2, <2>3
<1>5. OneInserterPerRun'
  BY <1>1, <1>2 DEF OneInserterPerRun, HasInsertedRun, RunKeyTaken, TypeOK
<1>6. RowsAreCommitted'
  BY <1>1 DEF RowsAreCommitted, TypeOK
<1>7. RowLocks'
  BY <1>1, <1>3 DEF RowLocks, TypeOK
<1>8. NoRecordLeftBehind'
  BY <1>1, <1>2, <1>3 DEF NoRecordLeftBehind, HasInsertedRun, TypeOK
<1> QED
  BY <1>4, <1>5, <1>6, <1>7, <1>8

(* StoreInv is inductive.                                                  *)
LEMMA NextStoreInv == StoreInv /\ [Next]_storeVars => StoreInv'
<1> SUFFICES ASSUME StoreInv, [Next]_storeVars PROVE StoreInv'
  OBVIOUS
<1>0. TypeOK /\ TypeOK'
  BY NextType DEF StoreInv
<1>1. CASE UNCHANGED storeVars
  BY <1>1 DEF storeVars, StoreInv, TypeOK, OneDatasetPerRun, OneInserterPerRun,
     RowsAreCommitted, RowLocks, NoRecordLeftBehind, HasInsertedRun, RunKeyTaken, RowsOf
<1>2. ASSUME NEW s \in Savers, SaverNext(s) PROVE StoreInv'
  <2>1. CASE FetchDataset(s) \/ SaveProviderLimitation(s) \/ NormalizationFails(s)
             \/ DeleteRecords(s) \/ DeleteRecordsDone(s) \/ DeleteRun(s)
    <3>1. pc[s] \in {"idle", "delete_records", "deleting_records", "delete_run"}
      BY <2>1 DEF FetchDataset, SaveProviderLimitation, NormalizationFails,
         DeleteRecords, DeleteRecordsDone, DeleteRun
    <3>2. deletedRun[s] = NoRow
      BY <3>1, NoLockBefore
    <3> QED
      BY <1>0, <2>1, <3>1, <3>2, IdleStep
      DEF FetchDataset, SaveProviderLimitation, NormalizationFails, DeleteRecords,
          DeleteRecordsDone, DeleteRun, Goto, tables, targets, deletions, TypeOK
  <2>2. CASE DeleteRunDone(s)
    BY <1>0, <2>2, DeleteRunDoneInv
  <2>3. CASE CascadeToRecords(s)
    BY <1>0, <2>3, CascadeInv
  <2>4. CASE InsertRun(s)
    BY <1>0, <2>4, InsertRunInv
  <2>5. CASE InsertRunConflicts(s) \/ ConnectionLost(s) \/ DeadlockVictim(s)
    <3>1. Rollback(s)
      BY <2>5 DEF InsertRunConflicts, ConnectionLost, DeadlockVictim
    <3>2. pc[s] # "committed"
      <4>1. CASE InsertRunConflicts(s) \/ ConnectionLost(s)
        BY <4>1 DEF InsertRunConflicts, ConnectionLost, InTransaction
      <4>2. CASE DeadlockVictim(s)
        BY <4>2 DEF DeadlockVictim, WaitCycle, BlockedBy
      <4> QED
        BY <2>5, <4>1, <4>2
    <3> QED
      BY <1>0, <3>1, <3>2, IdleStep DEF Rollback, Goto, tables, targets, TypeOK
  <2>6. CASE InsertRecords(s)
    BY <1>0, <2>6, InsertRecordsInv
  <2>7. CASE Commit(s)
    BY <1>0, <2>7, CommitInv
  <2> QED
    BY <1>2, <2>1, <2>2, <2>3, <2>4, <2>5, <2>6, <2>7 DEF SaverNext, Statement
<1> QED
  BY <1>1, <1>2 DEF Next

(* The inductive invariant holds of every reachable state.                 *)
THEOREM StoreInvariant == Spec => []StoreInv
BY InitStoreInv, NextStoreInv, PTL DEF Spec

(* Whatever the number of concurrent dataset/run requests, the runs and    *)
(* the interleaving of their statements, crashes included, the committed   *)
(* tables hold per run exactly one save_run's summary and records.         *)
THEOREM CommittedDatasetsAreWhole == Spec => []OneDatasetPerRun
<1>1. StoreInv => OneDatasetPerRun
  BY DEF StoreInv
<1> QED
  BY <1>1, StoreInvariant, PTL

(* The unique index admits one writer per run at a time.                   *)
THEOREM OneWriterPerRun == Spec => []OneInserterPerRun
<1>1. StoreInv => OneInserterPerRun
  BY DEF StoreInv
<1> QED
  BY <1>1, StoreInvariant, PTL

(* A request whose save failed has no row in either table.                 *)
THEOREM RollbackIsComplete == Spec => []FailedSaveLeavesNoRow
<1>1. StoreInv => FailedSaveLeavesNoRow
  BY DEF StoreInv, FailedSaveLeavesNoRow, OneDatasetPerRun, RowsAreCommitted, RowsOf, TypeOK
<1> QED
  BY <1>1, StoreInvariant, PTL

-----------------------------------------------------------------------------
(* A request's dataset is one the register accepts.                        *)
LEMMA CommitIsRegisterSave ==
  ASSUME StoreInv, StoreInv', NEW s \in Savers, Commit(s)
  PROVE  Register!Next
<1> DEFINE d == DatasetOf(s, payload[s])
<1>1. d \in AcceptedDatasets
  BY DEF AcceptedDatasets, StoreInv, TypeOK
<1>2. runOf[s] \in Runs
  BY DEF StoreInv, TypeOK
<1>3. /\ datasetRuns' = [datasetRuns EXCEPT ![runOf[s]] = s]
      /\ datasetRecords' = [datasetRecords EXCEPT ![runOf[s]] = RowsOf(s)]
      /\ payload' = payload
  BY CommitReplaces DEF Commit
<1>4. d = [status |-> payload[s].status, labels |-> payload[s].labels, rows |-> RowsOf(s)]
  BY DEF DatasetOf, RowsOf
<1>5. s # NoRow
  BY SaversAssumption
<1>6. Stored' = [Stored EXCEPT ![runOf[s]] = d]
  <2> HIDE DEF d
  <2> QED
    BY <1>2, <1>3, <1>4, <1>5 DEF Stored, StoreInv, TypeOK
<1> QED
  <2> HIDE DEF d
  <2> QED
    BY <1>1, <1>2, <1>6 DEF Register!Next, Register!SaveRun

(* Every step of the transactions is a step of the register or leaves it.  *)
LEMMA StepIsRegisterStep ==
  StoreInv /\ StoreInv' /\ [Next]_storeVars => [Register!Next]_Stored
<1> SUFFICES ASSUME StoreInv, StoreInv', [Next]_storeVars PROVE [Register!Next]_Stored
  OBVIOUS
<1>1. CASE UNCHANGED storeVars
  BY <1>1 DEF storeVars, Stored
<1>2. ASSUME NEW s \in Savers, SaverNext(s) PROVE [Register!Next]_Stored
  <2>1. CASE Commit(s)
    BY <2>1, CommitIsRegisterSave
  <2>2. CASE FetchDataset(s) \/ SaveProviderLimitation(s)
    <3>1. /\ UNCHANGED <<datasetRuns, datasetRecords>>
          /\ pc[s] = "idle"
          /\ \A t \in Savers \ {s} : payload'[t] = payload[t]
      BY <2>2 DEF FetchDataset, SaveProviderLimitation, tables, StoreInv, TypeOK
    <3>2. \A r \in Runs : datasetRuns[r] # s
      BY <3>1 DEF StoreInv, RowsAreCommitted
    <3>3. \A r \in Runs : datasetRuns[r] # NoRow =>
                            payload'[datasetRuns[r]] = payload[datasetRuns[r]]
      BY <3>1, <3>2 DEF StoreInv, TypeOK
    <3>4. Stored' = Stored
      BY <3>1, <3>3 DEF Stored
    <3> QED
      BY <3>4
  <2>3. CASE ~(Commit(s) \/ FetchDataset(s) \/ SaveProviderLimitation(s))
    <3>1. UNCHANGED <<datasetRuns, datasetRecords, payload>>
      BY <1>2, <2>3 DEF SaverNext, Statement, NormalizationFails, DeleteRecords,
         DeleteRecordsDone, DeleteRun, DeleteRunDone, CascadeToRecords, InsertRun,
         InsertRunConflicts, InsertRecords, ConnectionLost, DeadlockVictim, Rollback,
         tables
    <3> QED
      BY <3>1 DEF Stored
  <2> QED
    BY <2>1, <2>2, <2>3
<1> QED
  BY <1>1, <1>2 DEF Next

(* The Postgres repository implements the register of whole datasets.      *)
THEOREM StoreImplementsRegister == Spec => ImplementsRegister
<1>1. Init => Register!Init
  BY DEF Init, Register!Init, Stored
<1> QED
  BY <1>1, StepIsRegisterStep, StoreInvariant, PTL DEF Spec, ImplementsRegister, Register!Spec
=============================================================================
