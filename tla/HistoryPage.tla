------------------------------ MODULE HistoryPage ------------------------------
(***************************************************************************)
(* The handlers of BacktestRunHistoryPage.  Each await is a request of     *)
(* DatasetCalls; several handlers are under way at a time, on one runState *)
(* and one exportState for all cards.                                      *)
(***************************************************************************)
EXTENDS DatasetCalls

VARIABLES
  loadState,    \* status of the list
  shown,        \* dataset_status of each card
  runState,     \* status and run
  exportState,  \* status and run
  abandoned     \* runs whose refresh failed in the catch block since a run was started

pageVars == <<loadState, shown, runState, exportState, abandoned>>
vars == <<callVars, pageVars>>

Idle == [status |-> "idle", run |-> NoRun]
Of(s, r) == [status |-> s, run |-> r]

TypeOK ==
  /\ CallsTypeOK
  /\ loadState \in {"loading", "loaded", "error"}
  /\ shown \in [Runs -> Status]
  /\ runState \in {Idle} \cup {Of(s, r) : s \in {"running", "error"}, r \in Runs}
  /\ exportState \in {Idle} \cup {Of(s, r) : s \in {"downloading", "error"}, r \in Runs}
  /\ abandoned \subseteq Runs

(* The page mounts, over runs that may have datasets, and asks for them.   *)
Init ==
  /\ created = Runs
  /\ status \in [Runs -> Status]
  /\ \E s \in Slots :
       call = [t \in Slots |-> IF t = s THEN Waiting("list", NoRun) ELSE NoCall]
  /\ loadState = "loading"
  /\ shown = [r \in Runs |-> "none"]
  /\ runState = Idle
  /\ exportState = Idle
  /\ abandoned = {}

(* The effect's answer.                                                    *)
HistoryLoaded(s) ==
  /\ Settled(s, {"list"})
  /\ call' = [call EXCEPT ![s] = NoCall]
  /\ IF call[s].result = "ok"
       THEN loadState' = "loaded" /\ shown' = call[s].seen
       ELSE loadState' = "error" /\ UNCHANGED shown
  /\ UNCHANGED <<created, status, runState, exportState, abandoned>>

CanRunDataset(r) ==
  loadState = "loaded" /\ shown[r] = "none" /\ runState # Of("running", r)

(* Wrong variant: the refresh is sent without awaiting the dataset.        *)
HandleRunDatasetWithoutAwait(s, r) ==
  /\ CanRunDataset(r) /\ Free(s)
  /\ \E t \in Slots \ {s} :
       /\ Free(t)
       /\ call' = [call EXCEPT ![s] = Waiting("run", r), ![t] = Waiting("refresh", r)]
  /\ runState' = Of("running", r)
  /\ exportState' = Idle
  /\ abandoned' = {}
  /\ UNCHANGED <<created, status, loadState, shown>>

(* handleRunDataset up to its first await.                                 *)
HandleRunDataset(s, r) ==
  /\ CanRunDataset(r) /\ Free(s)
  /\ call' = [call EXCEPT ![s] = Waiting("run", r)]
  /\ runState' = Of("running", r)
  /\ exportState' = Idle
  /\ abandoned' = {}
  /\ UNCHANGED <<created, status, loadState, shown>>

(* The dataset's answer: both outcomes refresh the history, the limitation *)
(* from the catch block.                                                   *)
DatasetAnswered(s) ==
  /\ Settled(s, {"run"})
  /\ \/ /\ call[s].result = "ok"
        /\ call' = [call EXCEPT ![s] = Waiting("refresh", call[s].run)]
        /\ UNCHANGED runState
     \/ /\ call[s].result = "limited"
        /\ call' = [call EXCEPT ![s] = Waiting("refreshLimited", call[s].run)]
        /\ UNCHANGED runState
     \/ /\ call[s].result = "error"
        /\ call' = [call EXCEPT ![s] = NoCall]
        /\ runState' = Of("error", call[s].run)
  /\ UNCHANGED <<created, status, loadState, shown, exportState, abandoned>>

(* Wrong variant: the limited branch returns before setRunState.           *)
RefreshedButStillRunning(s) ==
  /\ Settled(s, {"refresh", "refreshLimited"}) /\ call[s].result = "ok"
  /\ call' = [call EXCEPT ![s] = NoCall]
  /\ loadState' = "loaded"
  /\ shown' = call[s].seen
  /\ runState' = IF call[s].kind = "refresh" THEN Idle ELSE runState
  /\ UNCHANGED <<created, status, exportState, abandoned>>

(* refreshHistory resolved: the history and then runState are replaced.    *)
Refreshed(s) ==
  /\ Settled(s, {"refresh", "refreshLimited"}) /\ call[s].result = "ok"
  /\ call' = [call EXCEPT ![s] = NoCall]
  /\ loadState' = "loaded"
  /\ shown' = call[s].seen
  /\ runState' = Idle
  /\ UNCHANGED <<created, status, exportState, abandoned>>

(* refreshHistory rejected: caught in the try block; from the catch block  *)
(* the handler's promise rejects and nothing is set.                       *)
RefreshFailed(s) ==
  /\ Settled(s, {"refresh", "refreshLimited"}) /\ call[s].result = "error"
  /\ call' = [call EXCEPT ![s] = NoCall]
  /\ \/ /\ call[s].kind = "refresh"
        /\ runState' = Of("error", call[s].run)
        /\ UNCHANGED abandoned
     \/ /\ call[s].kind = "refreshLimited"
        /\ abandoned' = abandoned \cup {call[s].run}
        /\ UNCHANGED runState
  /\ UNCHANGED <<created, status, loadState, shown, exportState>>

CanDownload(r) ==
  /\ loadState = "loaded" /\ shown[r] = "COMPLETED"
  /\ exportState # Of("downloading", r)

(* handleDownloadDatasetExport up to its await.                            *)
HandleDownload(s, r) ==
  /\ CanDownload(r) /\ Free(s)
  /\ call' = [call EXCEPT ![s] = Waiting("export", r)]
  /\ exportState' = Of("downloading", r)
  /\ UNCHANGED <<created, status, loadState, shown, runState, abandoned>>

DownloadAnswered(s) ==
  /\ Settled(s, {"export"})
  /\ call' = [call EXCEPT ![s] = NoCall]
  /\ exportState' = IF call[s].result = "ok" THEN Idle ELSE Of("error", call[s].run)
  /\ UNCHANGED <<created, status, loadState, shown, runState, abandoned>>

Next ==
  \/ Serve /\ UNCHANGED pageVars
  \/ \E s \in Slots :
       \/ HistoryLoaded(s) \/ DatasetAnswered(s) \/ Refreshed(s)
       \/ RefreshFailed(s) \/ DownloadAnswered(s)
       \/ \E r \in Runs : HandleRunDataset(s, r) \/ HandleDownload(s, r)

Spec == Init /\ [][Next]_vars

-----------------------------------------------------------------------------
(* The refresh of a handler shows the outcome it waited for: the history   *)
(* is read after the dataset is stored, so the card does not fall back to  *)
(* "Run deterministic BACKTEST dataset" when its own run has ended.        *)
OwnRefreshStep ==
  \A s \in Slots :
    Settled(s, {"refresh", "refreshLimited"}) /\ call[s].result = "ok"
      /\ call'[s] = NoCall
    => shown'[call[s].run] # "none"

(* A card that says it is running or downloading has a handler under way,  *)
(* although all cards share one runState and one exportState and handlers  *)
(* end in any order.  The exception is a refresh that failed in the catch  *)
(* block: that card stays running until another run is started.            *)
BusyCardsHaveHandlers ==
  \A r \in Runs :
    /\ runState = Of("running", r) /\ r \notin abandoned =>
         \E s \in Slots : call[s].run = r /\ call[s].kind \in {"run", "refresh", "refreshLimited"}
    /\ exportState = Of("downloading", r) =>
         \E s \in Slots : call[s].run = r /\ call[s].kind = "export"

(* "runs deterministic dataset ... and refreshes history": a refresh never *)
(* takes an outcome back that the page has shown.  It does, when an older  *)
(* refresh is answered after a newer one.                                  *)
RefreshesNeverGoBack ==
  [][\A r \in Runs : shown[r] # "none" => shown'[r] # "none"]_vars
=============================================================================
