------------------------------ MODULE QualityPage ------------------------------
(***************************************************************************)
(* The asynchronous part of BacktestQualityPage: the selected horizon lives*)
(* in the URL and in React state, an effect requests the report of each    *)
(* selection, and answers arrive in any order.                             *)
(***************************************************************************)
EXTENDS Integers, Sequences

CONSTANTS
  Horizons,        \* SUPPORTED_QUALITY_HORIZONS
  DefaultHorizon,  \* DEFAULT_QUALITY_HORIZON
  NoHorizon,       \* a search string without a supported horizon
  MaxMoves         \* bound: selections, back and forward moves of the user

ASSUME HorizonAssumption == DefaultHorizon \in Horizons /\ NoHorizon \notin Horizons
ASSUME MovesAssumption == MaxMoves \in Nat

VARIABLES
  entries,    \* the session history: a search string per entry
  position,   \* the entry window.location is at
  selected,   \* selectedHorizon
  effectDue,  \* the page rendered a selection its effect has not run for
  runs,       \* how often the effect ran; isCurrent is true in the last run only
  requests,   \* reports asked for and not answered
  state,      \* LoadState, with the horizon of the report it holds
  moves

vars == <<entries, position, selected, effectDue, runs, requests, state, moves>>

Search == Horizons \cup {NoHorizon}
Request == [run : 1..(MaxMoves + 1), horizon : Horizons]
Loading == [status |-> "loading", horizon |-> NoHorizon]
Failed == [status |-> "error", horizon |-> NoHorizon]
Loaded(h) == [status |-> "loaded", horizon |-> h]

TypeOK ==
  /\ entries \in Seq(Search)
  /\ position \in 1..Len(entries)
  /\ selected \in Horizons
  /\ effectDue \in BOOLEAN
  /\ runs \in 0..(MaxMoves + 1)
  /\ requests \subseteq Request
  /\ state \in {Loading, Failed} \cup {Loaded(h) : h \in Horizons}
  /\ moves \in 0..MaxMoves

HorizonFromSearch(search) == IF search \in Horizons THEN search ELSE DefaultHorizon

Init ==
  /\ entries \in {<<s>> : s \in Search}
  /\ position = 1
  /\ selected = HorizonFromSearch(entries[1])
  /\ effectDue = TRUE
  /\ runs = 0
  /\ requests = {}
  /\ state = Loading
  /\ moves = 0

(* React renders again, and then runs the effect, when the value changed;  *)
(* it runs the effects of a rendering before it handles the next event.    *)
SetSelected(h) ==
  /\ ~effectDue
  /\ selected' = h
  /\ effectDue' = (h # selected)

(* handleHorizonChange: pushState drops the entries ahead.                 *)
HandleHorizonChange(h) ==
  /\ moves < MaxMoves
  /\ SetSelected(h)
  /\ entries' = Append(SubSeq(entries, 1, position), h)
  /\ position' = position + 1
  /\ moves' = moves + 1
  /\ UNCHANGED <<runs, requests, state>>

(* The user goes back or forward: handlePopState reads the new search.     *)
HandlePopState(p) ==
  /\ moves < MaxMoves
  /\ p \in {position - 1, position + 1} \cap (1..Len(entries))
  /\ position' = p
  /\ SetSelected(HorizonFromSearch(entries[p]))
  /\ moves' = moves + 1
  /\ UNCHANGED <<entries, runs, requests, state>>

(* The effect, after the cleanup of its last run cleared isCurrent.        *)
RunEffect ==
  /\ effectDue
  /\ effectDue' = FALSE
  /\ runs' = runs + 1
  /\ requests' = requests \cup {[run |-> runs + 1, horizon |-> selected]}
  /\ state' = Loading
  /\ UNCHANGED <<entries, position, selected, moves>>

(* Wrong variants: every answer counts; the cleanup clears the flag of the *)
(* run that just started; a failure is not shown (AnsweredOrIgnored).      *)
AlwaysCurrent(request) == TRUE
ClearedTooLate(request) == request.run < runs

IsCurrent(request) == request.run = runs

AnsweredOrIgnored(request) ==
  /\ requests' = requests \ {request}
  /\ state' \in IF IsCurrent(request) THEN {Loaded(request.horizon), state}
                                      ELSE {state}
  /\ UNCHANGED <<entries, position, selected, effectDue, runs, moves>>

(* The promise of a request settles: its report, or an error.              *)
Answered(request) ==
  /\ requests' = requests \ {request}
  /\ state' \in IF IsCurrent(request) THEN {Loaded(request.horizon), Failed}
                                      ELSE {state}
  /\ UNCHANGED <<entries, position, selected, effectDue, runs, moves>>

UserMoves ==
  \/ \E h \in Horizons : HandleHorizonChange(h)
  \/ \E p \in 1..Len(entries) : HandlePopState(p)

Next == UserMoves \/ RunEffect \/ \E request \in requests : Answered(request)

Spec == Init /\ [][Next]_vars

-----------------------------------------------------------------------------
(* A report on the page is the report of the horizon the selector shows,   *)
(* whatever the order in which answers, renders and effects happen: a late *)
(* answer of an earlier selection is ignored (isCurrent).                  *)
ReportIsOfSelected ==
  ~effectDue /\ state.status = "loaded" => state.horizon = selected

(* While the page says it is loading, the answer it waits for is to come:  *)
(* ignoring answers never leaves it waiting for nothing.                   *)
LoadingIsAwaited ==
  state.status = "loading" /\ ~effectDue => \E request \in requests : IsCurrent(request)

(* The page shows a report or an error.                                    *)
HasSettled == state.status # "loading" /\ ~effectDue
=============================================================================
