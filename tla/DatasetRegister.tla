--------------------------- MODULE DatasetRegister ---------------------------
(***************************************************************************)
(* What a CompletedDatasetRepository promises: per BACKTEST run, one       *)
(* dataset (a summary with all of its records) that is replaced as a whole.*)
(* InMemoryCompletedDatasetRepository is this module: save_run assigns the *)
(* preview and the records under one lock.                                 *)
(***************************************************************************)
CONSTANTS
  Runs,        \* (workspace_id, run_id) keys
  Datasets,    \* the values save_run accepts
  NoDataset    \* nothing saved under the key yet

VARIABLE stored   \* what get_run and list_records answer from

TypeOK == stored \in [Runs -> Datasets \cup {NoDataset}]

Init == stored = [r \in Runs |-> NoDataset]

(* save_run, both dictionary assignments under self._lock *)
SaveRun(r, d) == stored' = [stored EXCEPT ![r] = d]

Next == \E r \in Runs, d \in Datasets : SaveRun(r, d)

Spec == Init /\ [][Next]_stored
=============================================================================
