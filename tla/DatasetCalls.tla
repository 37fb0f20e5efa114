----------------------------- MODULE DatasetCalls -----------------------------
(***************************************************************************)
(* The requests a page of the browser has under way, and the service that  *)
(* answers them.  The service replaces a run's dataset at once, as         *)
(* DatasetRegister says (theorem StoreImplementsRegister); its answers     *)
(* reach the page in any order, or not at all.                             *)
(***************************************************************************)
CONSTANTS
  Runs,   \* the workspace's BACKTEST runs
  NoRun,
  Slots   \* bound: requests under way at a time

VARIABLES
  created,  \* runs the service has created
  status,   \* dataset_status of each run
  call      \* the request in each slot

callVars == <<created, status, call>>

Terminal == {"COMPLETED", "FAILED_PROVIDER_LIMITATION"}
Status == Terminal \cup {"none"}

Server == INSTANCE DatasetRegister
            WITH Datasets <- Terminal, NoDataset <- "none", stored <- status

(* What a handler does once its request is answered, see the pages.        *)
Kinds == {"create", "run", "export", "list", "refresh", "refreshLimited"}
Listings == {"list", "refresh", "refreshLimited"}

(* A settled promise: resolved, rejected with the preview of a provider    *)
(* limitation as payload, or rejected without one.                         *)
Results == {"ok", "limited", "error"}

NoCall == [kind |-> "none", run |-> NoRun, result |-> "none",
           seen |-> [r \in Runs |-> "none"]]

Waiting(kind, r) == [NoCall EXCEPT !.kind = kind, !.run = r, !.result = "waiting"]

Call == {NoCall} \cup [kind : Kinds, run : Runs \cup {NoRun},
                       result : Results \cup {"waiting"}, seen : [Runs -> Status]]

CallsTypeOK ==
  /\ created \subseteq Runs
  /\ Server!TypeOK
  /\ call \in [Slots -> Call]

Free(s) == call[s] = NoCall
Serving(s, kinds) == call[s].kind \in kinds /\ call[s].result = "waiting"
Settled(s, kinds) == call[s].kind \in kinds /\ call[s].result \in Results

(* createBacktestRunShell: POST drafts; the answer may be lost afterwards. *)
ServeCreate(s) ==
  /\ Serving(s, {"create"})
  /\ \/ \E r \in Runs \ created :
          /\ created' = created \cup {r}
          /\ \/ call' = [call EXCEPT ![s].run = r, ![s].result = "ok"]
             \/ call' = [call EXCEPT ![s].result = "error"]
     \/ /\ call' = [call EXCEPT ![s].result = "error"]
        /\ UNCHANGED created
  /\ UNCHANGED status

(* runBacktestDataset: POST dataset/run saves a dataset and answers 200 or *)
(* 409 with its preview; the request or its answer may fail.               *)
ServeRun(s) ==
  /\ Serving(s, {"run"})
  /\ \/ \E d \in Terminal :
          /\ Server!SaveRun(call[s].run, d)
          /\ \E result \in {IF d = "COMPLETED" THEN "ok" ELSE "limited", "error"} :
               call' = [call EXCEPT ![s].result = result]
     \/ /\ call' = [call EXCEPT ![s].result = "error"]
        /\ UNCHANGED status
  /\ UNCHANGED created

(* downloadBacktestDatasetExport: refused unless the dataset is completed. *)
ServeExport(s) ==
  /\ Serving(s, {"export"})
  /\ \/ /\ status[call[s].run] = "COMPLETED"
        /\ call' = [call EXCEPT ![s].result = "ok"]
     \/ call' = [call EXCEPT ![s].result = "error"]
  /\ UNCHANGED <<created, status>>

(* fetchBacktestRunHistory: one query reads the statuses of all runs.      *)
ServeList(s) ==
  /\ Serving(s, Listings)
  /\ \/ call' = [call EXCEPT ![s].result = "ok", ![s].seen = status]
     \/ call' = [call EXCEPT ![s].result = "error"]
  /\ UNCHANGED <<created, status>>

Serve == \E s \in Slots : ServeCreate(s) \/ ServeRun(s) \/ ServeExport(s) \/ ServeList(s)
=============================================================================
