------------------------------- MODULE ShellPage -------------------------------
(***************************************************************************)
(* The handlers of BacktestShellPage: draft creation, dataset generation   *)
(* and download, each with one await (a request of DatasetCalls).          *)
(***************************************************************************)
EXTENDS DatasetCalls

VARIABLES
  invalid,       \* a validationMessage is shown
  submitState,   \* status and the run of the created draft
  datasetState,  \* status and the run the preview is of
  exportState,   \* status
  overlapped     \* the last draft was asked for while a dataset was running

pageVars == <<invalid, submitState, datasetState, exportState, overlapped>>
vars == <<callVars, pageVars>>

Idle == [status |-> "idle", run |-> NoRun]
Of(s, r) == [status |-> s, run |-> r]

Previews == {"completed", "provider-limited"}

TypeOK ==
  /\ CallsTypeOK
  /\ invalid \in BOOLEAN
  /\ submitState \in {Idle, Of("submitting", NoRun), Of("error", NoRun)}
                       \cup {Of("created", r) : r \in created}
  /\ datasetState \in {Idle, Of("running", NoRun), Of("error", NoRun)}
                        \cup {Of(s, r) : s \in Previews, r \in created}
  /\ exportState \in {"idle", "downloading", "error"}
  /\ overlapped \in BOOLEAN

Init ==
  /\ created = {}
  /\ status = [r \in Runs |-> "none"]
  /\ call = [s \in Slots |-> NoCall]
  /\ invalid = FALSE
  /\ submitState = Idle
  /\ datasetState = Idle
  /\ exportState = "idle"
  /\ overlapped = FALSE

(* The run whose summary and buttons the page shows.                       *)
Shows(r) == submitState = Of("created", r)

(* handleSubmit: validateTimeframe refuses the form.                       *)
SubmitInvalid ==
  /\ submitState.status # "submitting"
  /\ invalid' = TRUE
  /\ UNCHANGED <<callVars, submitState, datasetState, exportState, overlapped>>

(* handleSubmit up to its await.                                           *)
SubmitValid(s) ==
  /\ submitState.status # "submitting"
  /\ Free(s)
  /\ invalid' = FALSE
  /\ submitState' = Of("submitting", NoRun)
  /\ call' = [call EXCEPT ![s] = Waiting("create", NoRun)]
  /\ overlapped' = (\E t \in Slots : call[t].kind = "run")
  /\ UNCHANGED <<created, status, datasetState, exportState>>

(* Wrong variant: the panel of the last draft is kept.                     *)
DraftCreatedKeepingPanel(s) ==
  /\ Settled(s, {"create"}) /\ call[s].result = "ok"
  /\ call' = [call EXCEPT ![s] = NoCall]
  /\ submitState' = Of("created", call[s].run)
  /\ UNCHANGED <<created, status, invalid, datasetState, exportState, overlapped>>

DraftCreated(s) ==
  /\ Settled(s, {"create"}) /\ call[s].result = "ok"
  /\ call' = [call EXCEPT ![s] = NoCall]
  /\ submitState' = Of("created", call[s].run)
  /\ datasetState' = Idle
  /\ exportState' = "idle"
  /\ UNCHANGED <<created, status, invalid, overlapped>>

DraftRefused(s) ==
  /\ Settled(s, {"create"}) /\ call[s].result = "error"
  /\ call' = [call EXCEPT ![s] = NoCall]
  /\ submitState' = Of("error", NoRun)
  /\ UNCHANGED <<created, status, invalid, datasetState, exportState, overlapped>>

(* handleRunDataset up to its await.                                       *)
HandleRunDataset(s, r) ==
  /\ Shows(r) /\ datasetState.status # "running" /\ Free(s)
  /\ call' = [call EXCEPT ![s] = Waiting("run", r)]
  /\ datasetState' = Of("running", NoRun)
  /\ exportState' = "idle"
  /\ UNCHANGED <<created, status, invalid, submitState, overlapped>>

(* The answer's preview goes into datasetState, whichever run is shown.    *)
DatasetAnswered(s) ==
  /\ Settled(s, {"run"})
  /\ call' = [call EXCEPT ![s] = NoCall]
  /\ datasetState' = CASE call[s].result = "ok"      -> Of("completed", call[s].run)
                       [] call[s].result = "limited" -> Of("provider-limited", call[s].run)
                       [] call[s].result = "error"   -> Of("error", NoRun)
  /\ UNCHANGED <<created, status, invalid, submitState, exportState, overlapped>>

(* The dataset panel has a download button, of the run shown.              *)
OffersDownload(r) ==
  Shows(r) /\ datasetState.status = "completed" /\ exportState # "downloading"

(* handleDownloadDatasetExport up to its await.                            *)
HandleDownload(s, r) ==
  /\ OffersDownload(r) /\ Free(s)
  /\ call' = [call EXCEPT ![s] = Waiting("export", r)]
  /\ exportState' = "downloading"
  /\ UNCHANGED <<created, status, invalid, submitState, datasetState, overlapped>>

DownloadAnswered(s) ==
  /\ Settled(s, {"export"})
  /\ call' = [call EXCEPT ![s] = NoCall]
  /\ exportState' = IF call[s].result = "ok" THEN "idle" ELSE "error"
  /\ UNCHANGED <<created, status, invalid, submitState, datasetState, overlapped>>

Next ==
  \/ Serve /\ UNCHANGED pageVars
  \/ SubmitInvalid
  \/ \E s \in Slots :
       \/ SubmitValid(s) \/ DraftCreated(s) \/ DraftRefused(s)
       \/ DatasetAnswered(s) \/ DownloadAnswered(s)
       \/ \E r \in Runs : HandleRunDataset(s, r) \/ HandleDownload(s, r)

Spec == Init /\ [][Next]_vars

-----------------------------------------------------------------------------
(* A preview, and the quality link and download beside it, are of the run  *)
(* shown, unless its draft was asked for while a dataset was running.      *)
PreviewIsOfShownRun ==
  \A r \in Runs :
    Shows(r) /\ datasetState.status \in Previews /\ ~overlapped => datasetState.run = r

(* A page that says the dataset of the run shown is running waits for its  *)
(* answer: the button never stays disabled for nothing, even when answers  *)
(* are of drafts that are no longer shown.                                 *)
RunningIsAwaited ==
  \A r \in Runs :
    Shows(r) /\ datasetState.status = "running" =>
      \E s \in Slots : call[s].kind = "run" /\ call[s].run = r

(* "downloads JSONL export only after completed dataset generation": the   *)
(* page offers a run's export and report only when the run has a dataset.  *)
(* It fails when a draft is created while another's dataset is running.    *)
DownloadOnlyAfterGeneration ==
  \A r \in Runs :
    Shows(r) /\ datasetState.status = "completed" => status[r] # "none"
=============================================================================
