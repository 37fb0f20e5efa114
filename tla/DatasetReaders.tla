---------------------------- MODULE DatasetReaders ----------------------------
(***************************************************************************)
(* DatasetStore with the requests that read it: GET /dataset, GET          *)
(* /dataset/export.jsonl, GET /quality, and the get_run with which         *)
(* save_run answers after its commit.  Each SELECT is a step and sees what *)
(* is committed when it runs, so a save may commit between two of them.    *)
(***************************************************************************)
EXTENDS DatasetStore

CONSTANTS
  Readers,      \* the reading requests
  PreviewLimit  \* MAX_DATASET_PREVIEW_RECORDS

ASSUME ReadersAssumption == Readers \cap Savers = {}
ASSUME PreviewLimitAssumption == PreviewLimit \in Nat

VARIABLES
  step,        \* what each request reads next
  kind,        \* which handler it runs
  readRun,     \* the run it asks for
  previews,    \* how many get_run calls it still makes
  sawRun,      \* the summary row its last get_run read
  sawRecords,  \* the record rows its last list_records read
  answer,      \* its HTTP status
  disturbed    \* auxiliary: a save of its run committed while it was reading

readerVars == <<step, kind, readRun, previews, sawRun, sawRecords, answer, disturbed>>
vars == <<storeVars, readerVars>>

Requests == Readers \cup Savers
Kinds == {"preview", "export", "quality"}

ReadersTypeOK ==
  /\ TypeOK
  /\ step \in [Requests -> {"idle", "summary", "records", "body", "done"}]
  /\ kind \in [Requests -> Kinds]
  /\ readRun \in [Requests -> Runs]
  /\ previews \in [Requests -> 0..2]
  /\ sawRun \in [Requests -> Savers \cup {NoRow}]
  /\ sawRecords \in [Requests -> SUBSET Rows]
  /\ answer \in [Requests -> {"none", "200", "404", "409", "500"}]
  /\ disturbed \in [Requests -> BOOLEAN]

ReadersInit ==
  /\ Init
  /\ step = [p \in Requests |-> "idle"]
  /\ kind = [p \in Requests |-> "preview"]
  /\ readRun \in {f \in [Requests -> Runs] : \A s \in Savers : f[s] = runOf[s]}
  /\ previews = [p \in Requests |-> 0]
  /\ sawRun = [p \in Requests |-> NoRow]
  /\ sawRecords = [p \in Requests |-> {}]
  /\ answer = [p \in Requests |-> "none"]
  /\ disturbed = [p \in Requests |-> FALSE]

-----------------------------------------------------------------------------
Label(row) == payload[row[1]].labels[row[2]]
CountOf(l, rows) == Cardinality({row \in rows : Label(row) = l})

(* Wrong variant: the record count must exceed what is shown.              *)
PreviewMatchesStrictly(run, rows) ==
  Cardinality({row \in rows : row[2] <= PreviewLimit}) < Cardinality(RowsOf(run))

(* DatasetRunPreview.records_must_match_summary over the first             *)
(* MAX_DATASET_PREVIEW_RECORDS records                                     *)
PreviewMatches(run, rows) ==
  LET shown == {row \in rows : row[2] <= PreviewLimit}
  IN  /\ Cardinality(shown) <= Cardinality(RowsOf(run))
      /\ \A l \in Relevance : CountOf(l, shown) <= CountOf(l, RowsOf(run))

IsCompleted(run) == payload[run].status = "COMPLETED"

(* The existence query of get_run, repeated by list_records                *)
NotFound(p) == datasetRuns[readRun[p]] = NoRow

Respond(p, code) ==
  /\ step' = [step EXCEPT ![p] = "done"]
  /\ answer' = [answer EXCEPT ![p] = code]

(* A GET request arrives; the export route calls get_run once for its      *)
(* headers and once more in export_dataset_jsonl_bytes.                    *)
Ask(p) ==
  /\ p \in Readers
  /\ step[p] = "idle"
  /\ \E k \in Kinds :
       /\ kind' = [kind EXCEPT ![p] = k]
       /\ previews' = [previews EXCEPT ![p] = IF k = "export" THEN 2 ELSE 1]
  /\ step' = [step EXCEPT ![p] = "summary"]
  /\ UNCHANGED <<readRun, sawRun, sawRecords, answer, disturbed>>

(* save_run ends with get_run, outside the transaction it committed.       *)
AnswerSave(s) ==
  /\ s \in Savers
  /\ pc[s] = "committed"
  /\ step[s] = "idle"
  /\ previews' = [previews EXCEPT ![s] = 1]
  /\ step' = [step EXCEPT ![s] = "summary"]
  /\ UNCHANGED <<kind, readRun, sawRun, sawRecords, answer, disturbed>>

(* get_run: SELECT .. FROM dataset_runs                                    *)
ReadSummary(p) ==
  /\ step[p] = "summary"
  /\ sawRun' = [sawRun EXCEPT ![p] = datasetRuns[readRun[p]]]
  /\ IF NotFound(p)
       THEN Respond(p, "404")
       ELSE step' = [step EXCEPT ![p] = "records"] /\ UNCHANGED answer
  /\ UNCHANGED <<kind, readRun, previews, sawRecords, disturbed>>

(* get_run: list_records, then the preview is built.  A summary with fewer *)
(* records than were read is a ValidationError no handler catches.  The    *)
(* status is checked where the handler asks for the records of the run.    *)
ReadPreview(p) ==
  LET rows == datasetRecords[readRun[p]] IN
  /\ step[p] = "records"
  /\ sawRecords' = [sawRecords EXCEPT ![p] = rows]
  /\ previews' = [previews EXCEPT ![p] = @ - 1]
  /\ IF NotFound(p) THEN Respond(p, "404")
     ELSE IF ~PreviewMatches(sawRun[p], rows) THEN Respond(p, "500")
     ELSE IF previews[p] > 1
       THEN step' = [step EXCEPT ![p] = "summary"] /\ UNCHANGED answer
     ELSE IF kind[p] = "preview" THEN Respond(p, "200")
     ELSE IF kind[p] = "export" /\ ~IsCompleted(sawRun[p]) THEN Respond(p, "409")
     ELSE step' = [step EXCEPT ![p] = "body"] /\ UNCHANGED answer
  /\ UNCHANGED <<kind, readRun, sawRun, disturbed>>

(* export_dataset_jsonl_bytes: the list_records whose rows are serialized  *)
ReadExportBody(p) ==
  /\ step[p] = "body" /\ kind[p] = "export"
  /\ sawRecords' = [sawRecords EXCEPT ![p] = datasetRecords[readRun[p]]]
  /\ Respond(p, IF NotFound(p) THEN "404" ELSE "200")
  /\ UNCHANGED <<kind, readRun, previews, sawRun, disturbed>>

(* Wrong variant: no check that the completed dataset has records.         *)
ReadQualityInputsUnchecked(p) ==
  /\ step[p] = "body" /\ kind[p] = "quality"
  /\ sawRecords' = [sawRecords EXCEPT ![p] = datasetRecords[readRun[p]]]
  /\ Respond(p, IF IsCompleted(sawRun[p]) THEN "200" ELSE "409")
  /\ UNCHANGED <<kind, readRun, previews, sawRun, disturbed>>

(* get_quality_inputs: list_records, then the status and emptiness checks  *)
ReadQualityInputs(p) ==
  LET rows == datasetRecords[readRun[p]] IN
  /\ step[p] = "body" /\ kind[p] = "quality"
  /\ sawRecords' = [sawRecords EXCEPT ![p] = rows]
  /\ IF NotFound(p) THEN Respond(p, "404")
     ELSE IF IsCompleted(sawRun[p]) /\ rows # {} THEN Respond(p, "200")
     ELSE Respond(p, "409")
  /\ UNCHANGED <<kind, readRun, previews, sawRun, disturbed>>

Read(p) == ReadSummary(p) \/ ReadPreview(p) \/ ReadExportBody(p) \/ ReadQualityInputs(p)

-----------------------------------------------------------------------------
Reading(p) ==
  \/ step[p] \in {"summary", "records", "body"}
  \/ step[p] = "idle" /\ p \in Savers /\ pc[p] = "committed"

Overtakes(s, p) == Commit(s) /\ p # s /\ readRun[p] = runOf[s] /\ Reading(p)

(* A step of a saving request; `disturbed` notes the requests it overtakes.*)
SaverStep(s) ==
  /\ SaverNext(s)
  /\ disturbed' = [p \in Requests |-> disturbed[p] \/ Overtakes(s, p)]
  /\ UNCHANGED <<step, kind, readRun, previews, sawRun, sawRecords, answer>>

ReaderStep(p) ==
  /\ Ask(p) \/ AnswerSave(p) \/ Read(p)
  /\ UNCHANGED storeVars

ReadersNext ==
  \/ \E s \in Savers : SaverStep(s)
  \/ \E p \in Requests : ReaderStep(p)

ReadersSpec == ReadersInit /\ [][ReadersNext]_vars

-----------------------------------------------------------------------------
(* The records a 200 answer carries are never a mixture or a part: they    *)
(* are all the records of one save_run that committed for the run.         *)
AnswersCarryOneDataset ==
  \A p \in Requests :
    answer[p] = "200" =>
      \E s \in Savers : /\ pc[s] = "committed" /\ runOf[s] = readRun[p]
                        /\ sawRecords[p] = RowsOf(s)

(* A request during which no save of its run commits sees one whole        *)
(* dataset: its summary belongs to its records and it is not a 500.        *)
UndisturbedReadsAreCoherent ==
  \A p \in Requests :
    step[p] = "done" /\ ~disturbed[p] =>
      /\ answer[p] # "500"
      /\ sawRun[p] # NoRow => sawRecords[p] = RowsOf(sawRun[p])
      /\ p \in Savers => sawRun[p] = p

(* A quality report is computed from all records of one COMPLETED dataset, *)
(* even when a save commits between the status check's SELECT and the      *)
(* records' SELECT.                                                        *)
QualityUsesACompletedDataset ==
  \A p \in Requests :
    kind[p] = "quality" /\ answer[p] = "200" =>
      \E s \in Savers : IsCompleted(s) /\ RowsOf(s) # {} /\ sawRecords[p] = RowsOf(s)

(* Once a run has a dataset no request ever finds it missing: neither the  *)
(* answer to a committed save_run nor any later SELECT of a request that   *)
(* found the run is a 404, although saves delete and insert the same rows  *)
(* meanwhile.                                                              *)
SavedRunIsFound ==
  /\ \A s \in Savers : answer[s] # "404"
  /\ \A p \in Requests : answer[p] = "404" => sawRun[p] = NoRow

(* Regula #1: a dataset is exported only when the summary and the records  *)
(* form one run, with record_count equal to the number of records.         *)
ExportMatchesSummary ==
  \A p \in Requests :
    kind[p] = "export" /\ answer[p] = "200" =>
      Cardinality(sawRecords[p]) = Cardinality(RowsOf(sawRun[p]))
=============================================================================
