----------------------------- MODULE BrowserPages -----------------------------
(***************************************************************************)
(* ProtectedRoute of App: a load of the application shows the page its     *)
(* path names; the links between pages are <a href>, so a page starts anew *)
(* each time, over whatever the service has stored.  Within one load the   *)
(* route changes when the user logs out, and in again.                     *)
(* The quality page is extended, the others are instances: a page that is  *)
(* not shown stays as a load would start it, or is NotMounted.             *)
(***************************************************************************)
EXTENDS QualityPage

CONSTANTS
  Runs, NoRun, Slots,                     \* DatasetCalls
  HistorySlots,                           \* bound: requests of the history page
  ConfigIds, NoConfig, Contents,          \* ConfigPage
  NotMounted                              \* the state of a page that is not mounted

ASSUME RunsAssumption == NoRun \notin Runs
ASSUME HistorySlotsAssumption == HistorySlots \subseteq Slots
ASSUME ContentsAssumption == Contents \cap {"none", "deleted"} = {}
ASSUME NoConfigAssumption == NoConfig \notin ConfigIds

VARIABLES
  route,                                       \* route.kind
  created, status, call,                       \* DatasetCalls
  exportState, loadState, invalid,             \* of the page shown, if it has them
  shown, runState, abandoned,                  \* HistoryPage
  submitState, datasetState, overlapped,       \* ShellPage
  configs, ask, list, editing, saveState, deleteState, draftState, disturbed \* ConfigPage

callVars == <<created, status, call>>
historyVars == <<shown, runState, abandoned>>
shellVars == <<submitState, datasetState, overlapped>>
configVars == <<configs, ask, list, editing, saveState, deleteState, draftState, disturbed>>
qualityVars == <<entries, position, selected, effectDue, runs, requests, state>>
pagesVars == <<route, callVars, exportState, loadState, invalid, moves,
               historyVars, shellVars, configVars, qualityVars>>

History == INSTANCE HistoryPage WITH Slots <- HistorySlots
Shell == INSTANCE ShellPage
Config == INSTANCE ConfigPage

HistoryAbsent ==
  /\ shown = NotMounted /\ runState = NotMounted /\ abandoned = NotMounted

ShellAbsent ==
  /\ submitState = NotMounted /\ datasetState = NotMounted /\ overlapped = NotMounted

ConfigAbsent ==
  /\ configs = NotMounted /\ ask = NotMounted /\ list = NotMounted
  /\ editing = NotMounted /\ saveState = NotMounted /\ deleteState = NotMounted
  /\ draftState = NotMounted /\ disturbed = NotMounted

QualityStarts ==
  /\ entries = <<NoHorizon>> /\ position = 1 /\ selected = DefaultHorizon
  /\ effectDue = TRUE /\ runs = 0 /\ requests = {} /\ state = Loading

NothingAsked ==
  /\ created = {}
  /\ status = [r \in Runs |-> "none"]
  /\ call = [s \in Slots |-> Shell!NoCall]

PagesInit ==
  \/ /\ route = "history" /\ History!Init
     /\ invalid = NotMounted /\ moves = 0
     /\ ShellAbsent /\ ConfigAbsent /\ QualityStarts
  \/ /\ route = "shell" /\ Shell!Init
     /\ loadState = NotMounted /\ moves = 0
     /\ HistoryAbsent /\ ConfigAbsent /\ QualityStarts
  \/ /\ route = "configs" /\ Config!Init
     /\ HistoryAbsent /\ ShellAbsent /\ QualityStarts
  \/ /\ route = "quality" /\ Init /\ NothingAsked
     /\ exportState = NotMounted /\ loadState = NotMounted /\ invalid = NotMounted
     /\ HistoryAbsent /\ ShellAbsent /\ ConfigAbsent

OnQualityPage(Action) ==
  /\ route = "quality"
  /\ Action
  /\ UNCHANGED <<route, callVars, exportState, loadState, invalid,
                 historyVars, shellVars, configVars>>

PageStep ==
  \/ /\ route = "history"
     /\ History!Next
     /\ UNCHANGED <<route, invalid, moves, shellVars, configVars, qualityVars>>
  \/ /\ route = "shell"
     /\ Shell!Next
     /\ UNCHANGED <<route, loadState, moves, historyVars, configVars, qualityVars>>
  \/ /\ route = "configs"
     /\ Config!Next
     /\ UNCHANGED <<route, historyVars, shellVars, qualityVars>>
  \/ OnQualityPage(Next)

(* handleLogout: the login page is rendered in the place of the page, and  *)
(* what the page had asked for is answered to no one.                      *)
LogOut ==
  /\ route # "login" /\ route' = "login"
  /\ created' = {} /\ status' = [r \in Runs |-> "none"]
  /\ call' = [s \in Slots |-> Shell!NoCall]
  /\ exportState' = NotMounted /\ loadState' = NotMounted /\ invalid' = NotMounted
  /\ shown' = NotMounted /\ runState' = NotMounted /\ abandoned' = NotMounted
  /\ submitState' = NotMounted /\ datasetState' = NotMounted /\ overlapped' = NotMounted
  /\ configs' = NotMounted /\ ask' = NotMounted /\ list' = NotMounted
  /\ editing' = NotMounted /\ saveState' = NotMounted /\ deleteState' = NotMounted
  /\ draftState' = NotMounted /\ disturbed' = NotMounted
  /\ entries' = <<NoHorizon>> /\ position' = 1 /\ selected' = DefaultHorizon
  /\ effectDue' = TRUE /\ runs' = 0 /\ requests' = {} /\ state' = Loading /\ moves' = 0

(* handleLoginSuccess: defaultWorkspacePath is the history page, mounted   *)
(* over whatever the service has stored since.                             *)
LogIn ==
  /\ route = "login" /\ route' = "history"
  /\ created' = Runs
  /\ status' \in [Runs -> History!Status]
  /\ \E s \in HistorySlots :
       call' = [t \in HistorySlots |->
                  IF t = s THEN History!Waiting("list", NoRun) ELSE History!NoCall]
  /\ loadState' = "loading" /\ shown' = [r \in Runs |-> "none"]
  /\ runState' = History!Idle /\ exportState' = History!Idle /\ abandoned' = {}
  /\ UNCHANGED <<invalid, moves, shellVars, configVars, qualityVars>>

PagesNext ==
  \/ PageStep
  \/ LogOut \/ LogIn

(* The fairness of QualityPage: React runs effects and fetches settle.     *)
PagesSpec == PagesInit /\ [][PagesNext]_pagesVars
FairPagesSpec ==
  /\ PagesSpec
  /\ WF_pagesVars(OnQualityPage(RunEffect))
  /\ WF_pagesVars(OnQualityPage(\E request \in requests : Answered(request)))

-----------------------------------------------------------------------------
(* The properties of the pages, of the page shown; each is explained in    *)
(* its module.  ReportIsOfSelected and LoadingIsAwaited are QualityPage's. *)

(* Once the user stops moving, the quality page ends with a report or an   *)
(* error (QualityPage).                                                    *)
PageSettles == <>[](route = "quality" => HasSettled)

(* A handler's own refresh shows the outcome it waited for (HistoryPage).  *)
OwnRefreshShowsOutcome ==
  [][route = "history" /\ route' = "history" => History!OwnRefreshStep]_pagesVars

(* A preview is of the run shown, unless drafts overlap (ShellPage).       *)
PreviewIsOfShownRun == route = "shell" => Shell!PreviewIsOfShownRun

(* Whatever a page says it is doing, it waits for an answer to it: a busy  *)
(* card, a running dataset and a busy label have their request under way   *)
(* (HistoryPage, ShellPage, ConfigPage).                                   *)
BusyIsAwaited ==
  /\ route = "history" => History!BusyCardsHaveHandlers
  /\ route = "shell" => Shell!RunningIsAwaited
  /\ route = "configs" => Config!BusyIsAwaited

(* The list of configurations at rest is what is stored, and the form      *)
(* edits none that is gone (ConfigPage).                                   *)
ShownConfigsAreStored == route = "configs" => Config!ShownConfigsAreStored
=============================================================================
