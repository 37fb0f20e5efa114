--------------------------- MODULE BrowserPagesProofs ---------------------------
(***************************************************************************)
(* Whatever the horizons, runs and configurations, and however many moves  *)
(* and requests: the report on the quality page is the selected horizon's, *)
(* a preview on the draft run page is of the run shown, no page waits for  *)
(* nothing, a refresh of the history shows what its handler waited for, and*)
(* the list of configurations agrees with what is stored once it can.      *)
(*                                                                         *)
(* One invariant per page: PageInv (quality), ShellInv (draft run),        *)
(* HistoryInv and RefreshInv (history), ConfigInv (configurations).        *)
(***************************************************************************)
EXTENDS BrowserPages, TLAPS

(* What the run of the effect that is current asked for, and that no       *)
(* request is of a run to come.                                            *)
PageInv ==
  /\ runs \in Nat /\ effectDue \in BOOLEAN /\ selected \in Horizons
  /\ \A r \in requests : /\ r.run \in Nat /\ r.run <= runs
                         /\ IsCurrent(r) /\ ~effectDue => r.horizon = selected
  /\ ReportIsOfSelected
  /\ LoadingIsAwaited

(* A search string always yields a supported horizon.                      *)
LEMMA HorizonIsSupported == \A s : HorizonFromSearch(s) \in Horizons
BY HorizonAssumption DEF HorizonFromSearch

(* Selecting a horizon, from the list or by going back, keeps PageInv.     *)
LEMMA SelectingKeeps ==
  ASSUME PageInv, NEW h \in Horizons, SetSelected(h),
         runs' = runs, requests' = requests, state' = state
  PROVE  PageInv'
<1>1. CASE h = selected
  BY <1>1 DEF PageInv, SetSelected, ReportIsOfSelected, LoadingIsAwaited, IsCurrent
<1>2. CASE h # selected
  BY <1>2 DEF PageInv, SetSelected, ReportIsOfSelected, LoadingIsAwaited, IsCurrent
<1> QED
  BY <1>1, <1>2

(* Every step keeps PageInv.                                               *)
LEMMA PageNext == PageInv /\ [Next]_vars => PageInv'
<1> SUFFICES ASSUME PageInv, [Next]_vars PROVE PageInv'
  OBVIOUS
<1>1. ASSUME NEW h \in Horizons, HandleHorizonChange(h) PROVE PageInv'
  BY <1>1, SelectingKeeps DEF HandleHorizonChange
<1>2. ASSUME NEW p \in 1..Len(entries), HandlePopState(p) PROVE PageInv'
  BY <1>2, SelectingKeeps, HorizonIsSupported DEF HandlePopState
<1>3. CASE RunEffect
  <2> DEFINE asked == [run |-> runs + 1, horizon |-> selected]
  <2>1. /\ runs' = runs + 1 /\ runs \in Nat /\ effectDue' = FALSE
        /\ selected' = selected /\ selected \in Horizons
        /\ requests' = requests \cup {asked} /\ asked.run = runs + 1
        /\ asked.horizon = selected /\ state'.status = "loading"
    BY <1>3 DEF RunEffect, PageInv, Loading
  <2>2. \A r \in requests' : /\ r.run \in Nat /\ r.run <= runs'
                             /\ r.run = runs' => r.horizon = selected'
    BY <2>1 DEF PageInv
  <2> QED
    BY <2>1, <2>2 DEF PageInv, ReportIsOfSelected, LoadingIsAwaited, IsCurrent
<1>4. ASSUME NEW r \in requests, Answered(r) PROVE PageInv'
  <2>1. /\ requests' = requests \ {r} /\ runs' = runs
        /\ effectDue' = effectDue /\ selected' = selected
    BY <1>4 DEF Answered
  <2>2. CASE IsCurrent(r)
    <3>1. state' = Loaded(r.horizon) \/ state' = Failed
      BY <1>4, <2>2 DEF Answered
    <3> QED
      BY <2>1, <2>2, <3>1
         DEF PageInv, ReportIsOfSelected, LoadingIsAwaited, IsCurrent, Loaded, Failed
  <2>3. CASE ~IsCurrent(r)
    <3>1. state' = state
      BY <1>4, <2>3 DEF Answered
    <3> QED
      BY <2>1, <2>3, <3>1 DEF PageInv, ReportIsOfSelected, LoadingIsAwaited, IsCurrent
  <2> QED
    BY <2>2, <2>3
<1>5. CASE UNCHANGED vars
  BY <1>5 DEF PageInv, ReportIsOfSelected, LoadingIsAwaited, IsCurrent, vars
<1> QED
  BY <1>1, <1>2, <1>3, <1>4, <1>5 DEF Next, UserMoves

(* PageInv holds where the quality page starts, shown or not, and steps of *)
(* the other pages leave its variables alone.                              *)
THEOREM PageInvariant == PagesSpec => []PageInv
<1>1. Init => PageInv
  BY HorizonIsSupported DEF Init, PageInv, ReportIsOfSelected, LoadingIsAwaited, Loading
<1>2. QualityStarts => PageInv
  BY HorizonAssumption
     DEF QualityStarts, PageInv, ReportIsOfSelected, LoadingIsAwaited, Loading
<1>3. PagesInit => PageInv
  BY <1>1, <1>2 DEF PagesInit
<1>4. PageInv /\ [PagesNext]_pagesVars => PageInv' \/ QualityStarts'
  <2> SUFFICES ASSUME PageInv, [PagesNext]_pagesVars PROVE PageInv' \/ QualityStarts'
    OBVIOUS
  <2>1. ASSUME OnQualityPage(Next) PROVE PageInv'
    BY <2>1, PageNext DEF OnQualityPage
  <2>2. ASSUME UNCHANGED qualityVars PROVE PageInv'
    BY <2>2 DEF qualityVars, PageInv, ReportIsOfSelected, LoadingIsAwaited, IsCurrent
  <2>3. ASSUME LogOut PROVE QualityStarts'
    BY <2>3 DEF LogOut, QualityStarts, Loading
  <2> QED
    BY <2>1, <2>2, <2>3 DEF PagesNext, PageStep, LogIn, pagesVars
<1> QED
  BY <1>2, <1>3, <1>4, PTL DEF PagesSpec

(* No late answer is shown under another horizon.                          *)
THEOREM LateReportsAreIgnored == PagesSpec => []ReportIsOfSelected
<1>1. PageInv => ReportIsOfSelected
  BY DEF PageInv
<1> QED
  BY <1>1, PageInvariant, PTL

(* The page is never loading with no answer to come.                       *)
THEOREM LoadingEnds == PagesSpec => []LoadingIsAwaited
<1>1. PageInv => LoadingIsAwaited
  BY DEF PageInv
<1> QED
  BY <1>1, PageInvariant, PTL

-----------------------------------------------------------------------------
(* The requests of the other pages.                                        *)
DatasetStatus == {"COMPLETED", "FAILED_PROVIDER_LIMITATION", "none"}

CallRecord ==
  [kind : {"none", "create", "run", "export", "list", "refresh", "refreshLimited"},
   run : Runs \cup {NoRun}, result : {"none", "waiting", "ok", "limited", "error"},
   seen : [Runs -> DatasetStatus]]

CallsInv(S) == call \in [S -> CallRecord] /\ status \in [Runs -> DatasetStatus]

(* The service answers; what a request is about stays, but for a draft.    *)
Serves(S) ==
  /\ CallsInv(S)'
  /\ \A t \in S : /\ call'[t].kind = call[t].kind
                  /\ call[t].kind # "create" => call'[t].run = call[t].run

LEMMA NoCallIsACall ==
  /\ Shell!NoCall \in CallRecord /\ Shell!NoCall.kind = "none"
  /\ \A k \in {"create", "run", "export", "list", "refresh", "refreshLimited"},
        r \in Runs \cup {NoRun} :
       LET w == Shell!Waiting(k, r) IN
       w \in CallRecord /\ w.kind = k /\ w.run = r
BY DEF Shell!NoCall, Shell!Waiting, CallRecord, DatasetStatus

LEMMA AnswerServes ==
  ASSUME NEW S, CallsInv(S), NEW s \in S, NEW q \in {"ok", "limited", "error"},
         status' \in [Runs -> DatasetStatus],
         \/ call' = [call EXCEPT ![s].result = q]
         \/ call' = [call EXCEPT ![s].result = q, ![s].seen = status]
         \/ /\ call[s].kind = "create"
            /\ \E r \in Runs : call' = [call EXCEPT ![s].run = r, ![s].result = q]
  PROVE  Serves(S)
<1> USE DEF CallsInv, CallRecord, Serves
<1>1. CASE call' = [call EXCEPT ![s].result = q]
  BY <1>1
<1>2. CASE call' = [call EXCEPT ![s].result = q, ![s].seen = status]
  <2>1. DOMAIN call = S /\ DOMAIN call' = S /\ \A t \in S \ {s} : call'[t] = call[t]
    BY <1>2
  <2>2. call'[s] = [call[s] EXCEPT !.result = q, !.seen = status]
    BY <1>2
  <2>3. call[s] \in CallRecord /\ status \in [Runs -> DatasetStatus]
    OBVIOUS
  <2>4. call'[s] \in CallRecord /\ call'[s].kind = call[s].kind /\ call'[s].run = call[s].run
    BY <2>2, <2>3
  <2>5. call' \in [S -> CallRecord]
    BY <1>2, <2>1, <2>4
  <2> QED
    BY <2>1, <2>4, <2>5
<1>3. ASSUME NEW r \in Runs, call' = [call EXCEPT ![s].run = r, ![s].result = q],
             call[s].kind = "create"
      PROVE  Serves(S)
  <2>1. DOMAIN call = S /\ DOMAIN call' = S /\ \A t \in S \ {s} : call'[t] = call[t]
    BY <1>3
  <2>2. call'[s] = [call[s] EXCEPT !.run = r, !.result = q]
    BY <1>3
  <2>3. call[s] \in CallRecord /\ call'[s] \in CallRecord /\ call'[s].kind = call[s].kind
    BY <2>2
  <2>4. call' \in [S -> CallRecord]
    BY <1>3, <2>1, <2>3
  <2> QED
    BY <1>3, <2>1, <2>3, <2>4
<1> QED
  BY <1>1, <1>2, <1>3

LEMMA ServiceOfShell ==
  ASSUME CallsInv(Slots), Shell!Serve
  PROVE  Serves(Slots)
<1>1. PICK s \in Slots : \/ Shell!ServeCreate(s) \/ Shell!ServeRun(s)
                         \/ Shell!ServeExport(s) \/ Shell!ServeList(s)
  BY DEF Shell!Serve
<1>2. status' \in [Runs -> DatasetStatus]
  <2>1. CASE Shell!ServeRun(s)
    BY <2>1 DEF CallsInv, Shell!ServeRun, Shell!Terminal, Shell!Server!SaveRun, DatasetStatus
  <2>2. CASE Shell!ServeCreate(s) \/ Shell!ServeExport(s) \/ Shell!ServeList(s)
    BY <2>2 DEF CallsInv, Shell!ServeCreate, Shell!ServeExport, Shell!ServeList
  <2> QED
    BY <1>1, <2>1, <2>2
<1>3. \E q \in {"ok", "limited", "error"} :
        \/ call' = [call EXCEPT ![s].result = q]
        \/ call' = [call EXCEPT ![s].result = q, ![s].seen = status]
        \/ /\ call[s].kind = "create"
           /\ \E r \in Runs : call' = [call EXCEPT ![s].run = r, ![s].result = q]
  <2>1. CASE Shell!ServeCreate(s)
    BY <2>1, Zenon DEF Shell!ServeCreate, Shell!Serving
  <2>2. CASE Shell!ServeRun(s)
    BY <2>2, Zenon DEF Shell!ServeRun
  <2>3. CASE Shell!ServeExport(s)
    BY <2>3, Zenon DEF Shell!ServeExport
  <2>4. CASE Shell!ServeList(s)
    BY <2>4, Zenon DEF Shell!ServeList
  <2> QED
    BY <1>1, <2>1, <2>2, <2>3, <2>4
<1> QED
  BY <1>2, <1>3, AnswerServes

-----------------------------------------------------------------------------
(* The draft run page.  One request at most creates a draft, and only while*)
(* the page is submitting.  When no dataset was running then, every request*)
(* for a dataset is of the run shown.                                      *)
ShellInv ==
  /\ CallsInv(Slots)
  /\ overlapped \in BOOLEAN
  /\ \A s \in Slots : call[s].kind = "create" => submitState.status = "submitting"
  /\ \A s, t \in Slots : call[s].kind = "create" /\ call[t].kind = "create" => s = t
  /\ ~overlapped =>
       \A s \in Slots : call[s].kind = "run" =>
         /\ submitState.status # "submitting"
         /\ \A r \in Runs : Shell!Shows(r) => call[s].run = r
  /\ Shell!PreviewIsOfShownRun
  /\ Shell!RunningIsAwaited

LEMMA ShellInitially == Shell!Init => ShellInv
<1> SUFFICES ASSUME Shell!Init PROVE ShellInv
  OBVIOUS
<1>1. CallsInv(Slots) /\ \A s \in Slots : call[s].kind = "none"
  BY NoCallIsACall DEF Shell!Init, CallsInv, DatasetStatus
<1>2. \A r \in Runs : ~Shell!Shows(r)
  BY DEF Shell!Init, Shell!Shows, Shell!Idle, Shell!Of
<1> QED
  BY <1>1, <1>2 DEF Shell!Init, ShellInv, Shell!PreviewIsOfShownRun, Shell!RunningIsAwaited

LEMMA ShellServeKeeps ==
  ASSUME ShellInv, Shell!Serve, UNCHANGED Shell!pageVars
  PROVE  ShellInv'
<1>1. Serves(Slots)
  BY ServiceOfShell DEF ShellInv
<1>2. UNCHANGED <<submitState, datasetState, overlapped>>
  BY DEF Shell!pageVars
<1> QED
  BY <1>1, <1>2 DEF ShellInv, Serves, Shell!PreviewIsOfShownRun, Shell!RunningIsAwaited,
     Shell!Shows

LEMMA SubmitValidKeeps ==
  ASSUME ShellInv, NEW s \in Slots, Shell!SubmitValid(s)
  PROVE  ShellInv'
<1>1. /\ call' = [call EXCEPT ![s] = Shell!Waiting("create", NoRun)]
      /\ submitState.status # "submitting" /\ submitState' = Shell!Of("submitting", NoRun)
      /\ overlapped' = (\E t \in Slots : call[t].kind = "run")
      /\ UNCHANGED <<status, datasetState>>
  BY DEF Shell!SubmitValid
<1>2. /\ CallsInv(Slots)' /\ call'[s].kind = "create"
      /\ \A t \in Slots \ {s} : call'[t] = call[t]
  BY <1>1, NoCallIsACall DEF ShellInv, CallsInv
<1>3. submitState'.status = "submitting" /\ \A r \in Runs : ~(Shell!Shows(r)')
  BY <1>1 DEF Shell!Of, Shell!Shows
<1>4. overlapped' \in BOOLEAN
  BY <1>1
<1>5. ~overlapped' => \A t \in Slots : call'[t].kind # "run"
  BY <1>1, <1>2
<1> QED
  BY <1>1, <1>2, <1>3, <1>4, <1>5
     DEF ShellInv, Shell!PreviewIsOfShownRun, Shell!RunningIsAwaited

LEMMA DraftAnswerKeeps ==
  ASSUME ShellInv, NEW s \in Slots, Shell!DraftCreated(s) \/ Shell!DraftRefused(s)
  PROVE  ShellInv'
<1>1. /\ call' = [call EXCEPT ![s] = Shell!NoCall] /\ call[s].kind = "create"
      /\ UNCHANGED <<status, overlapped>>
      /\ \/ submitState' = Shell!Of("created", call[s].run) /\ datasetState' = Shell!Idle
         \/ submitState' = Shell!Of("error", NoRun)
  BY DEF Shell!DraftCreated, Shell!DraftRefused, Shell!Settled
<1>2. /\ CallsInv(Slots)' /\ call'[s].kind = "none"
      /\ \A t \in Slots \ {s} : call'[t] = call[t]
  BY <1>1, NoCallIsACall DEF ShellInv, CallsInv
<1>3. submitState.status = "submitting" /\ \A t \in Slots : call'[t].kind # "create"
  BY <1>1, <1>2 DEF ShellInv
<1>4. ~overlapped' => \A t \in Slots : call'[t].kind # "run"
  BY <1>1, <1>2, <1>3 DEF ShellInv
<1>5. \A r \in Runs : Shell!Shows(r)' => datasetState'.status = "idle"
  BY <1>1 DEF Shell!Shows, Shell!Of, Shell!Idle
<1> QED
  BY <1>1, <1>2, <1>3, <1>4, <1>5
     DEF ShellInv, Shell!PreviewIsOfShownRun, Shell!RunningIsAwaited, Shell!Previews

LEMMA ShellRunKeeps ==
  ASSUME ShellInv, NEW s \in Slots, NEW r \in Runs, Shell!HandleRunDataset(s, r)
  PROVE  ShellInv'
<1>1. /\ call' = [call EXCEPT ![s] = Shell!Waiting("run", r)]
      /\ submitState = Shell!Of("created", r) /\ datasetState' = Shell!Of("running", NoRun)
      /\ UNCHANGED <<status, submitState, overlapped>>
  BY DEF Shell!HandleRunDataset, Shell!Shows
<1>2. /\ CallsInv(Slots)' /\ call'[s].kind = "run" /\ call'[s].run = r
      /\ \A t \in Slots \ {s} : call'[t] = call[t]
  BY <1>1, NoCallIsACall DEF ShellInv, CallsInv
<1>3. /\ submitState'.status # "submitting" /\ datasetState'.status = "running"
      /\ \A q \in Runs : Shell!Shows(q)' => q = r
  BY <1>1 DEF Shell!Shows, Shell!Of
<1>4. \A q \in Runs : Shell!Shows(q)' <=> Shell!Shows(q)
  BY <1>1 DEF Shell!Shows
<1> QED
  BY <1>1, <1>2, <1>3, <1>4
     DEF ShellInv, Shell!PreviewIsOfShownRun, Shell!RunningIsAwaited, Shell!Previews

LEMMA ShellAnswerKeeps ==
  ASSUME ShellInv, NEW s \in Slots, Shell!DatasetAnswered(s)
  PROVE  ShellInv'
<1>1. /\ call' = [call EXCEPT ![s] = Shell!NoCall] /\ call[s].kind = "run"
      /\ UNCHANGED <<status, submitState, overlapped>>
      /\ \/ \E p \in Shell!Previews : datasetState' = Shell!Of(p, call[s].run)
         \/ datasetState' = Shell!Of("error", NoRun)
  BY DEF Shell!DatasetAnswered, Shell!Settled, Shell!Results, Shell!Previews
<1>2. /\ CallsInv(Slots)' /\ call'[s].kind = "none"
      /\ \A t \in Slots \ {s} : call'[t] = call[t]
  BY <1>1, NoCallIsACall DEF ShellInv, CallsInv
<1>3. /\ datasetState'.status # "running"
      /\ datasetState'.status \in Shell!Previews => datasetState'.run = call[s].run
  BY <1>1 DEF Shell!Of, Shell!Previews
<1>4. \A r \in Runs : Shell!Shows(r)' <=> Shell!Shows(r)
  BY <1>1 DEF Shell!Shows
<1> QED
  BY <1>1, <1>2, <1>3, <1>4
     DEF ShellInv, Shell!PreviewIsOfShownRun, Shell!RunningIsAwaited

LEMMA ShellDownloadKeeps ==
  ASSUME ShellInv, NEW s \in Slots,
         \/ \E r \in Runs : Shell!HandleDownload(s, r)
         \/ Shell!DownloadAnswered(s)
  PROVE  ShellInv'
<1>1. /\ UNCHANGED <<status, submitState, datasetState, overlapped>>
      /\ \/ call' = [call EXCEPT ![s] = Shell!NoCall]
         \/ \E r \in Runs : call' = [call EXCEPT ![s] = Shell!Waiting("export", r)]
      /\ call[s].kind \in {"none", "export"}
  BY DEF Shell!HandleDownload, Shell!DownloadAnswered, Shell!Settled, Shell!Free, Shell!NoCall
<1>2. /\ CallsInv(Slots)' /\ call'[s].kind \in {"none", "export"}
      /\ \A t \in Slots \ {s} : call'[t] = call[t]
  BY <1>1, NoCallIsACall DEF ShellInv, CallsInv
<1>3. \A r \in Runs : Shell!Shows(r)' <=> Shell!Shows(r)
  BY <1>1 DEF Shell!Shows
<1> QED
  BY <1>1, <1>2, <1>3
     DEF ShellInv, Shell!PreviewIsOfShownRun, Shell!RunningIsAwaited

LEMMA ShellKeeps ==
  ASSUME ShellInv, Shell!Next
  PROVE  ShellInv'
<1>1. CASE Shell!Serve /\ UNCHANGED Shell!pageVars
  BY <1>1, ShellServeKeeps
<1>2. CASE Shell!SubmitInvalid
  BY <1>2 DEF Shell!SubmitInvalid, Shell!callVars, ShellInv, CallsInv,
     Shell!PreviewIsOfShownRun, Shell!RunningIsAwaited, Shell!Shows
<1>3. ASSUME NEW s \in Slots, Shell!SubmitValid(s) PROVE ShellInv'
  BY <1>3, SubmitValidKeeps
<1>4. ASSUME NEW s \in Slots, Shell!DraftCreated(s) \/ Shell!DraftRefused(s) PROVE ShellInv'
  BY <1>4, DraftAnswerKeeps
<1>5. ASSUME NEW s \in Slots, Shell!DatasetAnswered(s) PROVE ShellInv'
  BY <1>5, ShellAnswerKeeps
<1>6. ASSUME NEW s \in Slots,
             Shell!DownloadAnswered(s) \/ \E r \in Runs : Shell!HandleDownload(s, r)
      PROVE  ShellInv'
  BY <1>6, ShellDownloadKeeps
<1>7. ASSUME NEW s \in Slots, NEW r \in Runs, Shell!HandleRunDataset(s, r) PROVE ShellInv'
  BY <1>7, ShellRunKeeps
<1> QED
  BY <1>1, <1>2, <1>3, <1>4, <1>5, <1>6, <1>7 DEF Shell!Next

-----------------------------------------------------------------------------
(* The history page: a busy card has the request of its handler.           *)
LEMMA ServiceOfHistory ==
  ASSUME CallsInv(HistorySlots), History!Serve
  PROVE  Serves(HistorySlots)
<1>1. PICK s \in HistorySlots : \/ History!ServeCreate(s) \/ History!ServeRun(s)
                         \/ History!ServeExport(s) \/ History!ServeList(s)
  BY DEF History!Serve
<1>2. status' \in [Runs -> DatasetStatus]
  <2>1. CASE History!ServeRun(s)
    BY <2>1 DEF CallsInv, History!ServeRun, History!Terminal, History!Server!SaveRun,
       DatasetStatus
  <2>2. CASE History!ServeCreate(s) \/ History!ServeExport(s) \/ History!ServeList(s)
    BY <2>2 DEF CallsInv, History!ServeCreate, History!ServeExport, History!ServeList
  <2> QED
    BY <1>1, <2>1, <2>2
<1>3. \E q \in {"ok", "limited", "error"} :
        \/ call' = [call EXCEPT ![s].result = q]
        \/ call' = [call EXCEPT ![s].result = q, ![s].seen = status]
        \/ /\ call[s].kind = "create"
           /\ \E r \in Runs : call' = [call EXCEPT ![s].run = r, ![s].result = q]
  <2>1. CASE History!ServeCreate(s)
    BY <2>1, Zenon DEF History!ServeCreate, History!Serving
  <2>2. CASE History!ServeRun(s)
    BY <2>2, Zenon DEF History!ServeRun
  <2>3. CASE History!ServeExport(s)
    BY <2>3, Zenon DEF History!ServeExport
  <2>4. CASE History!ServeList(s)
    BY <2>4, Zenon DEF History!ServeList
  <2> QED
    BY <1>1, <2>1, <2>2, <2>3, <2>4
<1> QED
  BY <1>2, <1>3, AnswerServes

HistoryInv == CallsInv(HistorySlots) /\ History!BusyCardsHaveHandlers

LEMMA HistoryInitially == History!Init => HistoryInv
<1> SUFFICES ASSUME History!Init PROVE HistoryInv
  OBVIOUS
<1>1. status \in [Runs -> DatasetStatus]
  BY DEF History!Init, History!Status, History!Terminal, DatasetStatus
<1>2. History!NoCall \in CallRecord /\ History!Waiting("list", NoRun) \in CallRecord
  BY DEF History!NoCall, History!Waiting, CallRecord, DatasetStatus
<1>3. CallsInv(HistorySlots)
  BY <1>1, <1>2 DEF History!Init, CallsInv
<1>4. \A r \in Runs :
        runState # History!Of("running", r) /\ exportState # History!Of("downloading", r)
  BY DEF History!Init, History!Of, History!Idle
<1> QED
  BY <1>3, <1>4 DEF HistoryInv, History!BusyCardsHaveHandlers

(* A step that changes one request and leaves the others.                  *)
LEMMA HistoryCall ==
  ASSUME HistoryInv, NEW s \in HistorySlots, NEW c \in CallRecord,
         call' = [call EXCEPT ![s] = c], UNCHANGED status
  PROVE  /\ CallsInv(HistorySlots)' /\ call'[s] = c
         /\ \A t \in HistorySlots \ {s} : call'[t] = call[t]
BY DEF HistoryInv, CallsInv

LEMMA HistoryCalls ==
  /\ History!NoCall \in CallRecord /\ History!NoCall.kind = "none"
  /\ \A k \in {"create", "run", "export", "list", "refresh", "refreshLimited"},
        r \in Runs \cup {NoRun} :
       LET w == History!Waiting(k, r) IN
       w \in CallRecord /\ w.kind = k /\ w.run = r
BY DEF History!NoCall, History!Waiting, CallRecord, DatasetStatus

LEMMA HistorySends ==
  ASSUME HistoryInv, NEW s \in HistorySlots, UNCHANGED status,
         NEW k \in {"run", "export", "refresh", "refreshLimited"}, NEW r \in Runs \cup {NoRun},
         call' = [call EXCEPT ![s] = History!Waiting(k, r)]
  PROVE  /\ CallsInv(HistorySlots)' /\ call'[s].kind = k /\ call'[s].run = r
         /\ \A t \in HistorySlots \ {s} : call'[t] = call[t]
<1> DEFINE w == History!Waiting(k, r)
<1>1. w \in CallRecord /\ w.kind = k /\ w.run = r
  BY HistoryCalls
<1>2. call' = [call EXCEPT ![s] = w]
  OBVIOUS
<1> HIDE DEF w
<1>3. /\ CallsInv(HistorySlots)' /\ call'[s] = w
      /\ \A t \in HistorySlots \ {s} : call'[t] = call[t]
  BY <1>1, <1>2, HistoryCall
<1> QED
  BY <1>1, <1>3

(* The labels of the cards.                                                *)
LEMMA HistoryLabels ==
  /\ \A r, q : History!Of("running", r) = History!Of("running", q) => r = q
  /\ \A r, q : History!Of("downloading", r) = History!Of("downloading", q) => r = q
  /\ \A r, q : History!Of("running", r) # History!Of("error", q)
  /\ \A r, q : History!Of("downloading", r) # History!Of("error", q)
  /\ \A r : History!Of("running", r) # History!Idle
  /\ \A r : History!Of("downloading", r) # History!Idle
BY DEF History!Of, History!Idle

LEMMA HistoryServeKeeps ==
  ASSUME HistoryInv, History!Serve, UNCHANGED History!pageVars
  PROVE  HistoryInv'
<1>1. Serves(HistorySlots)
  BY ServiceOfHistory DEF HistoryInv
<1>2. UNCHANGED <<runState, exportState, abandoned>>
  BY DEF History!pageVars
<1> QED
  BY <1>1, <1>2 DEF HistoryInv, Serves, History!BusyCardsHaveHandlers

(* The answer to a request that no busy card waits for.                    *)
LEMMA HistoryLoadedKeeps ==
  ASSUME HistoryInv, NEW s \in HistorySlots, History!HistoryLoaded(s)
  PROVE  HistoryInv'
<1>1. /\ call' = [call EXCEPT ![s] = History!NoCall] /\ call[s].kind = "list"
      /\ UNCHANGED <<status, runState, exportState, abandoned>>
  BY DEF History!HistoryLoaded, History!Settled
<1>2. /\ CallsInv(HistorySlots)'
      /\ \A t \in HistorySlots \ {s} : call'[t] = call[t]
  BY <1>1, HistoryCall, HistoryCalls
<1> QED
  BY <1>1, <1>2 DEF HistoryInv, History!BusyCardsHaveHandlers

LEMMA HistoryRunKeeps ==
  ASSUME HistoryInv, NEW s \in HistorySlots, NEW r \in Runs, History!HandleRunDataset(s, r)
  PROVE  HistoryInv'
<1>1. /\ call' = [call EXCEPT ![s] = History!Waiting("run", r)] /\ call[s] = History!NoCall
      /\ runState' = History!Of("running", r) /\ exportState' = History!Idle
      /\ UNCHANGED status
  BY DEF History!HandleRunDataset, History!Free
<1>2. /\ CallsInv(HistorySlots)' /\ call'[s].kind = "run" /\ call'[s].run = r
  BY <1>1, HistorySends
<1> QED
  BY <1>1, <1>2, HistoryLabels DEF HistoryInv, History!BusyCardsHaveHandlers

LEMMA HistoryDatasetKeeps ==
  ASSUME HistoryInv, NEW s \in HistorySlots, History!DatasetAnswered(s)
  PROVE  HistoryInv'
<1>1. call[s].kind = "run" /\ UNCHANGED <<status, exportState, abandoned>>
  BY DEF History!DatasetAnswered, History!Settled
<1>2. call[s].run \in Runs \cup {NoRun}
  BY DEF HistoryInv, CallsInv, CallRecord
<1>3. ASSUME NEW k \in {"refresh", "refreshLimited"},
             call' = [call EXCEPT ![s] = History!Waiting(k, call[s].run)], UNCHANGED runState
      PROVE  HistoryInv'
  <2>1. /\ CallsInv(HistorySlots)' /\ call'[s].kind = k /\ call'[s].run = call[s].run
        /\ \A t \in HistorySlots \ {s} : call'[t] = call[t]
    BY <1>1, <1>2, <1>3, HistorySends
  <2> QED
    BY <1>1, <1>3, <2>1 DEF HistoryInv, History!BusyCardsHaveHandlers
<1>4. CASE /\ call' = [call EXCEPT ![s] = History!NoCall]
           /\ runState' = History!Of("error", call[s].run)
  <2>1. CallsInv(HistorySlots)' /\ \A t \in HistorySlots \ {s} : call'[t] = call[t]
    BY <1>1, <1>4, HistoryCall, HistoryCalls
  <2> QED
    BY <1>1, <1>4, <2>1, HistoryLabels DEF HistoryInv, History!BusyCardsHaveHandlers
<1> QED
  BY <1>3, <1>4 DEF History!DatasetAnswered

(* A refresh ends: its card is idle, in error or abandoned, and no other   *)
(* card waits for it.                                                      *)
LEMMA HistoryRefreshKeeps ==
  ASSUME HistoryInv, NEW s \in HistorySlots, History!Refreshed(s) \/ History!RefreshFailed(s)
  PROVE  HistoryInv'
<1>1. /\ call' = [call EXCEPT ![s] = History!NoCall]
      /\ call[s].kind \in {"refresh", "refreshLimited"}
      /\ UNCHANGED <<status, exportState>>
      /\ \/ runState' = History!Idle /\ UNCHANGED abandoned
         \/ runState' = History!Of("error", call[s].run) /\ UNCHANGED abandoned
         \/ runState' = runState /\ abandoned' = abandoned \cup {call[s].run}
  BY DEF History!Refreshed, History!RefreshFailed, History!Settled
<1>2. CallsInv(HistorySlots)' /\ \A t \in HistorySlots \ {s} : call'[t] = call[t]
  BY <1>1, HistoryCall, HistoryCalls
<1> QED
  BY <1>1, <1>2, HistoryLabels DEF HistoryInv, History!BusyCardsHaveHandlers

LEMMA HistoryDownloadKeeps ==
  ASSUME HistoryInv, NEW s \in HistorySlots, NEW r \in Runs, History!HandleDownload(s, r)
  PROVE  HistoryInv'
<1>1. /\ call' = [call EXCEPT ![s] = History!Waiting("export", r)] /\ call[s] = History!NoCall
      /\ exportState' = History!Of("downloading", r)
      /\ UNCHANGED <<status, runState, abandoned>>
  BY DEF History!HandleDownload, History!Free
<1>2. /\ CallsInv(HistorySlots)' /\ call'[s].kind = "export" /\ call'[s].run = r
      /\ \A t \in HistorySlots \ {s} : call'[t] = call[t]
  BY <1>1, HistorySends
<1>3. call[s].kind = "none"
  BY <1>1, HistoryCalls
<1> QED
  BY <1>1, <1>2, <1>3, HistoryLabels DEF HistoryInv, History!BusyCardsHaveHandlers

LEMMA HistoryDownloadedKeeps ==
  ASSUME HistoryInv, NEW s \in HistorySlots, History!DownloadAnswered(s)
  PROVE  HistoryInv'
<1>1. /\ call' = [call EXCEPT ![s] = History!NoCall] /\ call[s].kind = "export"
      /\ exportState' \in {History!Idle, History!Of("error", call[s].run)}
      /\ UNCHANGED <<status, runState, abandoned>>
  BY DEF History!DownloadAnswered, History!Settled
<1>2. CallsInv(HistorySlots)' /\ \A t \in HistorySlots \ {s} : call'[t] = call[t]
  BY <1>1, HistoryCall, HistoryCalls
<1> QED
  BY <1>1, <1>2, HistoryLabels DEF HistoryInv, History!BusyCardsHaveHandlers

LEMMA HistoryKeeps ==
  ASSUME HistoryInv, History!Next
  PROVE  HistoryInv'
<1>1. CASE History!Serve /\ UNCHANGED History!pageVars
  BY <1>1, HistoryServeKeeps
<1>2. ASSUME NEW s \in HistorySlots, History!HistoryLoaded(s) PROVE HistoryInv'
  BY <1>2, HistoryLoadedKeeps
<1>3. ASSUME NEW s \in HistorySlots, History!DatasetAnswered(s) PROVE HistoryInv'
  BY <1>3, HistoryDatasetKeeps
<1>4. ASSUME NEW s \in HistorySlots, History!Refreshed(s) \/ History!RefreshFailed(s)
      PROVE  HistoryInv'
  BY <1>4, HistoryRefreshKeeps
<1>5. ASSUME NEW s \in HistorySlots, History!DownloadAnswered(s) PROVE HistoryInv'
  BY <1>5, HistoryDownloadedKeeps
<1>6. ASSUME NEW s \in HistorySlots, NEW r \in Runs,
             History!HandleRunDataset(s, r) \/ History!HandleDownload(s, r)
      PROVE  HistoryInv'
  BY <1>6, HistoryRunKeeps, HistoryDownloadKeeps
<1> QED
  BY <1>1, <1>2, <1>3, <1>4, <1>5, <1>6 DEF History!Next


(* A refresh is sent once the dataset of its run is stored, and reads the  *)
(* statuses after that.                                                    *)
RefreshInv ==
  \A s \in HistorySlots :
    /\ call[s].kind \in {"run", "refresh", "refreshLimited"} => call[s].run \in Runs
    /\ call[s].kind = "run" /\ call[s].result \in {"ok", "limited"} =>
         status[call[s].run] # "none"
    /\ call[s].kind \in {"refresh", "refreshLimited"} =>
         /\ status[call[s].run] # "none"
         /\ call[s].result = "ok" => call[s].seen[call[s].run] # "none"

LEMMA RefreshInitially == History!Init => RefreshInv
<1> SUFFICES ASSUME History!Init PROVE RefreshInv
  OBVIOUS
<1> DEFINE w == History!Waiting("list", NoRun)
<1>1. PICK s \in HistorySlots :
        call = [t \in HistorySlots |-> IF t = s THEN w ELSE History!NoCall]
  BY DEF History!Init
<1>2. w.kind = "list" /\ History!NoCall.kind = "none"
  BY HistoryCalls
<1> HIDE DEF w
<1> QED
  BY <1>1, <1>2 DEF RefreshInv

(* What the service does to the request of one slot, and to the statuses.  *)
LEMMA RefreshServed ==
  ASSUME HistoryInv, RefreshInv, History!Serve
  PROVE  RefreshInv'
<1>1. PICK s \in HistorySlots : \/ History!ServeCreate(s) \/ History!ServeRun(s)
                                \/ History!ServeExport(s) \/ History!ServeList(s)
  BY DEF History!Serve
<1>2. call \in [HistorySlots -> CallRecord] /\ status \in [Runs -> DatasetStatus]
  BY DEF HistoryInv, CallsInv
<1>3. Serves(HistorySlots)
  BY ServiceOfHistory DEF HistoryInv
<1>4. ASSUME \A r \in Runs : status[r] # "none" => status'[r] # "none",
             \A t \in HistorySlots \ {s} : call'[t] = call[t],
             call[s].kind = "run" /\ call'[s].result \in {"ok", "limited"} =>
               status'[call[s].run] # "none",
             call[s].kind \in {"refresh", "refreshLimited"} /\ call'[s].result = "ok" =>
               call'[s].seen[call[s].run] # "none"
      PROVE  RefreshInv'
  <2>1. ASSUME NEW t \in HistorySlots
        PROVE  /\ call'[t].kind \in {"run", "refresh", "refreshLimited"} => call'[t].run \in Runs
               /\ call'[t].kind = "run" /\ call'[t].result \in {"ok", "limited"} =>
                    status'[call'[t].run] # "none"
               /\ call'[t].kind \in {"refresh", "refreshLimited"} =>
                    /\ status'[call'[t].run] # "none"
                    /\ call'[t].result = "ok" => call'[t].seen[call'[t].run] # "none"
    BY <1>3, <1>4 DEF RefreshInv, Serves
  <2> QED
    BY <2>1 DEF RefreshInv
<1>5. CASE History!ServeRun(s)
  <2>1. call[s].kind = "run" /\ call[s].run \in Runs
    BY <1>5 DEF History!ServeRun, History!Serving, RefreshInv
  <2>2. CASE call' = [call EXCEPT ![s].result = "error"] /\ status' = status
    <3>1. call'[s].result = "error" /\ \A t \in HistorySlots \ {s} : call'[t] = call[t]
      BY <1>2, <2>2 DEF CallRecord
    <3> QED
      BY <1>4, <2>1, <2>2, <3>1
  <2>3. ASSUME NEW d \in {"COMPLETED", "FAILED_PROVIDER_LIMITATION"}, NEW q,
               call' = [call EXCEPT ![s].result = q],
               status' = [status EXCEPT ![call[s].run] = d]
        PROVE  RefreshInv'
    <3>1. \A t \in HistorySlots \ {s} : call'[t] = call[t]
      BY <1>2, <2>3
    <3>2. status'[call[s].run] = d /\ \A r \in Runs \ {call[s].run} : status'[r] = status[r]
      BY <1>2, <2>1, <2>3
    <3> QED
      BY <1>4, <2>1, <3>1, <3>2
  <2> QED
    BY <1>5, <2>2, <2>3 DEF History!ServeRun, History!Terminal, History!Server!SaveRun
<1>6. CASE History!ServeCreate(s) \/ History!ServeExport(s)
  <2>1. call[s].kind \in {"create", "export"} /\ status' = status
    BY <1>6 DEF History!ServeCreate, History!ServeExport, History!Serving
  <2>2. \A t \in HistorySlots \ {s} : call'[t] = call[t]
    BY <1>2, <1>6 DEF History!ServeCreate, History!ServeExport
  <2> QED
    BY <1>4, <2>1, <2>2
<1>7. CASE History!ServeList(s)
  <2>1. call[s].kind \in {"list", "refresh", "refreshLimited"} /\ status' = status
    BY <1>7 DEF History!ServeList, History!Serving, History!Listings
  <2>2. CASE call' = [call EXCEPT ![s].result = "error"]
    <3>1. call'[s].result = "error" /\ \A t \in HistorySlots \ {s} : call'[t] = call[t]
      BY <1>2, <2>2 DEF CallRecord
    <3> QED
      BY <1>4, <2>1, <3>1
  <2>3. CASE call' = [call EXCEPT ![s].result = "ok", ![s].seen = status]
    <3>1. call'[s].seen = status /\ \A t \in HistorySlots \ {s} : call'[t] = call[t]
      BY <1>2, <2>3 DEF CallRecord
    <3>2. call[s].kind \in {"refresh", "refreshLimited"} => status[call[s].run] # "none"
      BY DEF RefreshInv
    <3> QED
      BY <1>4, <2>1, <3>1, <3>2
  <2> QED
    BY <1>7, <2>2, <2>3 DEF History!ServeList
<1> QED
  BY <1>1, <1>5, <1>6, <1>7

(* The handlers send a refresh only after an answer that says the dataset  *)
(* of the run is stored.                                                   *)
LEMMA RefreshKeeps ==
  ASSUME HistoryInv, RefreshInv, History!Next
  PROVE  RefreshInv'
<1>1. CASE History!Serve
  BY <1>1, RefreshServed
<1>2. ASSUME NEW s \in HistorySlots, NEW c \in CallRecord, call' = [call EXCEPT ![s] = c],
             UNCHANGED status,
             c.kind \in {"run", "refresh", "refreshLimited"} =>
               c.run \in Runs /\ c.result = "waiting",
             c.kind \in {"refresh", "refreshLimited"} => status[c.run] # "none"
      PROVE  RefreshInv'
  <2>1. /\ call'[s] = c /\ \A t \in HistorySlots \ {s} : call'[t] = call[t]
        /\ status' = status
    BY <1>2, HistoryCall
  <2> QED
    BY <1>2, <2>1 DEF RefreshInv
<1>3. ASSUME NEW s \in HistorySlots, UNCHANGED status, call' = [call EXCEPT ![s] = History!NoCall]
      PROVE  RefreshInv'
  BY <1>2, <1>3, HistoryCalls
<1>4. ASSUME NEW s \in HistorySlots, UNCHANGED status,
             NEW k \in {"run", "export", "refresh", "refreshLimited"}, NEW r \in Runs,
             call' = [call EXCEPT ![s] = History!Waiting(k, r)],
             k \in {"refresh", "refreshLimited"} => status[r] # "none"
      PROVE  RefreshInv'
  <2> DEFINE w == History!Waiting(k, r)
  <2>1. w \in CallRecord /\ w.kind = k /\ w.run = r
    BY HistoryCalls
  <2>2. w.result = "waiting"
    BY DEF History!Waiting, History!NoCall
  <2>3. call' = [call EXCEPT ![s] = w]
    BY <1>4
  <2> HIDE DEF w
  <2> QED
    BY <1>2, <1>4, <2>1, <2>2, <2>3
<1>5. ASSUME NEW s \in HistorySlots, History!DatasetAnswered(s) PROVE RefreshInv'
  <2>1. call[s].kind = "run" /\ call[s].run \in Runs /\ UNCHANGED status
    BY <1>5 DEF History!DatasetAnswered, History!Settled, RefreshInv
  <2>2. call[s].result \in {"ok", "limited"} => status[call[s].run] # "none"
    BY <2>1 DEF RefreshInv
  <2> QED
    BY <1>3, <1>4, <1>5, <2>1, <2>2 DEF History!DatasetAnswered
<1>6. ASSUME NEW s \in HistorySlots,
             \/ History!HistoryLoaded(s) \/ History!Refreshed(s)
             \/ History!RefreshFailed(s) \/ History!DownloadAnswered(s)
      PROVE  RefreshInv'
  BY <1>3, <1>6 DEF History!HistoryLoaded, History!Refreshed, History!RefreshFailed,
     History!DownloadAnswered
<1>7. ASSUME NEW s \in HistorySlots, NEW r \in Runs,
             History!HandleRunDataset(s, r) \/ History!HandleDownload(s, r)
      PROVE  RefreshInv'
  BY <1>4, <1>7 DEF History!HandleRunDataset, History!HandleDownload
<1> QED
  BY <1>1, <1>5, <1>6, <1>7 DEF History!Next

(* A slot whose refresh has succeeded is emptied by Refreshed only.        *)
LEMMA RefreshShows ==
  ASSUME HistoryInv, RefreshInv, History!Next
  PROVE  History!OwnRefreshStep
<1> SUFFICES ASSUME NEW s \in HistorySlots,
                    call[s].kind \in {"refresh", "refreshLimited"}, call[s].result = "ok",
                    call'[s] = History!NoCall
             PROVE  shown'[call[s].run] # "none"
  BY DEF History!OwnRefreshStep, History!Settled
<1>1. call[s].seen[call[s].run] # "none"
  BY DEF RefreshInv
<1>2. call'[s] # call[s] /\ call'[s].kind = "none"
  BY HistoryCalls
<1>3. CASE History!Serve
  BY <1>2, <1>3, ServiceOfHistory DEF HistoryInv, Serves
<1>4. call \in [HistorySlots -> CallRecord]
  BY DEF HistoryInv, CallsInv
<1>5. ASSUME NEW t \in HistorySlots, NEW c, call' = [call EXCEPT ![t] = c] PROVE t = s
  BY <1>2, <1>4, <1>5
<1>6. CASE History!Refreshed(s)
  BY <1>1, <1>6 DEF History!Refreshed
<1>7. ASSUME NEW t \in HistorySlots,
             \/ History!HistoryLoaded(t) \/ History!DatasetAnswered(t) \/ History!Refreshed(t)
             \/ History!RefreshFailed(t) \/ History!DownloadAnswered(t)
             \/ \E r \in Runs : History!HandleRunDataset(t, r) \/ History!HandleDownload(t, r)
      PROVE  shown'[call[s].run] # "none"
  <2>1. t = s
    BY <1>5, <1>7 DEF History!HistoryLoaded, History!DatasetAnswered, History!Refreshed,
       History!RefreshFailed, History!DownloadAnswered, History!HandleRunDataset,
       History!HandleDownload
  <2>2. call[t] # History!NoCall
    BY <2>1, HistoryCalls
  <2>3. History!Refreshed(s)
    BY <1>7, <2>1, <2>2 DEF History!HistoryLoaded, History!DatasetAnswered,
       History!RefreshFailed, History!DownloadAnswered, History!HandleRunDataset,
       History!HandleDownload, History!Settled, History!Free
  <2> QED
    BY <1>6, <2>3
<1> QED
  BY <1>3, <1>7 DEF History!Next

-----------------------------------------------------------------------------
(* The configuration page.                                                 *)
AskRecord ==
  [kind : {"none", "load", "save", "remove", "draft"}, config : ConfigIds \cup {NoConfig},
   content : Contents \cup {"none"}, editing : ConfigIds \cup {NoConfig},
   seen : [ConfigIds -> Contents \cup {"none"}], result : {"none", "waiting", "ok", "error"}]

ConfigTypes ==
  /\ CallsInv(Slots)
  /\ ask \in [Slots -> AskRecord]
  /\ configs \in [ConfigIds -> Contents \cup {"none", "deleted"}]
  /\ list \in [ConfigIds -> Contents \cup {"none"}]
  /\ editing \in ConfigIds \cup {NoConfig}
  /\ disturbed \in BOOLEAN

(* A slot holds one request, or the two halves of a draft's.               *)
BusyInv ==
  /\ \A s \in Slots :
       /\ ask[s].kind = "draft" => call[s].kind = "create"
       /\ ask[s].kind \in {"load", "save", "remove"} => call[s].kind = "none"
  /\ \A s, t \in Slots : ask[s].kind = "load" /\ ask[t].kind = "load" => s = t
  /\ Config!BusyIsAwaited

SaveDone(s, c) == ask[s].kind = "save" /\ ask[s].result = "ok" /\ ask[s].config = c
RemoveDone(s, c) == ask[s].kind = "remove" /\ ask[s].result = "ok" /\ ask[s].config = c

(* What the page knows of was stored once.                                 *)
KnownInv ==
  /\ \A c \in ConfigIds : list[c] # "none" => configs[c] # "none"
  /\ editing # NoConfig => configs[editing] # "none"
  /\ \A s \in Slots : ask[s].kind \in {"save", "remove"} /\ ask[s].config # NoConfig =>
       configs[ask[s].config] # "none"

(* While the list is loading nothing changes what it will hold.            *)
LoadInv ==
  /\ loadState \in {"loading", "loaded"}
  /\ \A s \in Slots : ask[s].kind = "load" =>
       /\ loadState = "loading"
       /\ ask[s].result = "ok" => \A c \in ConfigIds : ask[s].seen[c] = Config!StoredAs(c)
  /\ loadState = "loading" =>
       editing = NoConfig /\ \A s \in Slots : ask[s].kind \notin {"save", "remove"}

(* One save at most is about a configuration, and what it was answered is  *)
(* what is stored, unless it was deleted since.  A new configuration is    *)
(* not listed before its answer, and so cannot be deleted before.          *)
SaveInv ==
  /\ \A s \in Slots : ask[s].kind = "save" =>
       /\ ask[s].content \in Contents
       /\ ask[s].editing \in {NoConfig, ask[s].config}
       /\ ask[s].editing = NoConfig /\ ask[s].config # NoConfig => ask[s].result = "ok"
       /\ ask[s].result = "ok" =>
            /\ ask[s].config \in ConfigIds
            /\ configs[ask[s].config] \in Contents => configs[ask[s].config] = ask[s].content
  /\ \A s, t \in Slots :
       /\ ask[s].kind = "save" /\ ask[t].kind = "save"
       /\ ask[s].config = ask[t].config /\ ask[s].config # NoConfig
       => s = t
  /\ \A s \in Slots, c \in ConfigIds : SaveDone(s, c) /\ ask[s].editing = NoConfig =>
       /\ configs[c] \in Contents /\ list[c] = "none"
       /\ \A t \in Slots : ~(ask[t].kind = "remove" /\ ask[t].config = c)

(* A configuration that is being deleted was in the form when its deletion *)
(* was confirmed, if it is in the form at all.                             *)
RemoveInv ==
  \A s \in Slots : ask[s].kind = "remove" =>
    /\ ask[s].config \in ConfigIds
    /\ ask[s].result = "ok" => configs[ask[s].config] = "deleted"
    /\ editing = ask[s].config => ask[s].editing = ask[s].config

(* The list and the form differ from what is stored only by answers that   *)
(* are still to come.                                                      *)
ListInv ==
  /\ loadState = "loaded" =>
       \A c \in ConfigIds :
         /\ list[c] # "none" => configs[c] \in Contents \/ \E s \in Slots : RemoveDone(s, c)
         /\ configs[c] \in Contents /\ list[c] # configs[c] =>
              \E s \in Slots : SaveDone(s, c) /\ (ask[s].editing = NoConfig <=> list[c] = "none")
  /\ editing # NoConfig =>
       configs[editing] \in Contents \/ \E s \in Slots : RemoveDone(s, editing)

Agreement == KnownInv /\ LoadInv /\ SaveInv /\ RemoveInv /\ ListInv

StoredInv == ~disturbed => Agreement

-----------------------------------------------------------------------------
LEMMA ServiceOfConfig ==
  ASSUME CallsInv(Slots), NEW s \in Slots,
         Config!ServeCreate(s) \/ Config!ServeRun(s) \/ Config!ServeExport(s)
  PROVE  Serves(Slots)
<1>1. status' \in [Runs -> DatasetStatus]
  <2>1. CASE Config!ServeRun(s)
    BY <2>1 DEF CallsInv, Config!ServeRun, Config!Terminal, Config!Server!SaveRun,
       DatasetStatus
  <2>2. CASE Config!ServeCreate(s) \/ Config!ServeExport(s)
    BY <2>2 DEF CallsInv, Config!ServeCreate, Config!ServeExport
  <2> QED
    BY <2>1, <2>2
<1>2. \E q \in {"ok", "limited", "error"} :
        \/ call' = [call EXCEPT ![s].result = q]
        \/ call' = [call EXCEPT ![s].result = q, ![s].seen = status]
        \/ /\ call[s].kind = "create"
           /\ \E r \in Runs : call' = [call EXCEPT ![s].run = r, ![s].result = q]
  <2>1. CASE Config!ServeCreate(s)
    BY <2>1, Zenon DEF Config!ServeCreate, Config!Serving
  <2>2. CASE Config!ServeRun(s)
    BY <2>2, Zenon DEF Config!ServeRun
  <2>3. CASE Config!ServeExport(s)
    BY <2>3, Zenon DEF Config!ServeExport
  <2> QED
    BY <2>1, <2>2, <2>3
<1> QED
  BY <1>1, <1>2, AnswerServes

LEMMA ConfigLabels ==
  /\ \A p, q, x, y : Config!Of(p, x) = Config!Of(q, y) => p = q /\ x = y
  /\ Config!Idle = Config!Of("idle", NoConfig)
BY DEF Config!Of, Config!Idle

(* One request about configurations changes, the others stay.              *)
AskChanges(s) ==
  /\ ask' \in [Slots -> AskRecord]
  /\ \A t \in Slots \ {s} : ask'[t] = ask[t]

CallChanges(s) ==
  /\ CallsInv(Slots)'
  /\ \A t \in Slots \ {s} : call'[t] = call[t]

LEMMA NoAskIsAnAsk ==
  /\ Config!NoAsk \in AskRecord
  /\ Config!NoAsk.kind = "none" /\ Config!NoAsk.config = NoConfig
BY DEF Config!NoAsk, AskRecord

LEMMA AskSet ==
  ASSUME ConfigTypes, NEW s \in Slots, NEW a \in AskRecord, ask' = [ask EXCEPT ![s] = a]
  PROVE  AskChanges(s) /\ ask'[s] = a
BY DEF ConfigTypes, AskChanges

LEMMA CallSet ==
  ASSUME ConfigTypes, NEW s \in Slots, NEW c \in CallRecord, call' = [call EXCEPT ![s] = c],
         UNCHANGED status
  PROVE  CallChanges(s) /\ call'[s] = c
BY DEF ConfigTypes, CallChanges, CallsInv

LEMMA Forgets ==
  ASSUME ConfigTypes, NEW s \in Slots, Config!Forget(s)
  PROVE  AskChanges(s) /\ ask'[s].kind = "none"
BY AskSet, NoAskIsAnAsk DEF Config!Forget

LEMMA Unused ==
  ASSUME NEW s \in Slots, ~Config!Underway(s)
  PROVE  call[s].kind = "none" /\ ask[s].kind = "none"
BY DEF Config!Underway, Config!NoCall, Config!NoAsk

LEMMA SendsSave ==
  ASSUME ConfigTypes, NEW s \in Slots, NEW content \in Contents, Config!SubmitValid(s, content)
  PROVE  /\ AskChanges(s) /\ ask[s].kind = "none" /\ call[s].kind = "none"
         /\ ask'[s].kind = "save" /\ ask'[s].config = editing /\ ask'[s].editing = editing
         /\ ask'[s].content = content /\ ask'[s].result = "waiting"
<1> DEFINE a == [[Config!NoAsk EXCEPT !.kind = "save", !.config = editing, !.content = content,
                                      !.editing = editing] EXCEPT !.result = "waiting"]
<1>1. /\ a \in AskRecord
      /\ a.kind = "save" /\ a.config = editing /\ a.editing = editing
      /\ a.content = content /\ a.result = "waiting"
  BY DEF Config!NoAsk, AskRecord, ConfigTypes
<1>2. ~Config!Underway(s) /\ ask' = [ask EXCEPT ![s] = a]
  BY DEF Config!SubmitValid, Config!Send
<1> HIDE DEF a
<1> QED
  BY <1>1, <1>2, AskSet, Unused

LEMMA SendsRemove ==
  ASSUME ConfigTypes, NEW s \in Slots, NEW c \in ConfigIds, Config!ConfirmDelete(s, c)
  PROVE  /\ AskChanges(s) /\ ask[s].kind = "none" /\ call[s].kind = "none"
         /\ ask'[s].kind = "remove" /\ ask'[s].config = c /\ ask'[s].editing = editing
         /\ ask'[s].result = "waiting"
<1> DEFINE a == [[Config!NoAsk EXCEPT !.kind = "remove", !.config = c, !.editing = editing,
                                      !.seen = list] EXCEPT !.result = "waiting"]
<1>1. /\ a \in AskRecord
      /\ a.kind = "remove" /\ a.config = c /\ a.editing = editing /\ a.result = "waiting"
  BY DEF Config!NoAsk, AskRecord, ConfigTypes
<1>2. ~Config!Underway(s) /\ ask' = [ask EXCEPT ![s] = a]
  BY DEF Config!ConfirmDelete, Config!Send
<1> HIDE DEF a
<1> QED
  BY <1>1, <1>2, AskSet, Unused

LEMMA SendsDraft ==
  ASSUME ConfigTypes, NEW s \in Slots, NEW c \in ConfigIds, Config!HandleCreateDraft(s, c)
  PROVE  /\ AskChanges(s) /\ ask[s].kind = "none" /\ call[s].kind = "none"
         /\ ask'[s].kind = "draft" /\ ask'[s].config = c
         /\ CallChanges(s) /\ call'[s].kind = "create"
<1> DEFINE a == [Config!NoAsk EXCEPT !.kind = "draft", !.config = c]
<1> DEFINE w == Config!Waiting("create", NoRun)
<1>1. a \in AskRecord /\ a.kind = "draft" /\ a.config = c
  BY DEF Config!NoAsk, AskRecord
<1>2. w \in CallRecord /\ w.kind = "create"
  BY DEF Config!NoCall, Config!Waiting, CallRecord, DatasetStatus
<1>3. /\ ~Config!Underway(s) /\ ask' = [ask EXCEPT ![s] = a]
      /\ call' = [call EXCEPT ![s] = w] /\ UNCHANGED status
  BY DEF Config!HandleCreateDraft, Config!Panel
<1> HIDE DEF a, w
<1> QED
  BY <1>1, <1>2, <1>3, AskSet, CallSet, Unused

LEMMA SendsRun ==
  ASSUME ConfigTypes, NEW s \in Slots, NEW r \in Runs,
         Config!HandleRunDataset(s, r) \/ Config!HandleDownload(s, r)
  PROVE  /\ call[s].kind = "none" /\ ask[s].kind = "none"
         /\ CallChanges(s) /\ call'[s].run = r
         /\ Config!HandleRunDataset(s, r) => call'[s].kind = "run"
         /\ Config!HandleDownload(s, r) => call'[s].kind = "export"
<1> DEFINE w(k) == Config!Waiting(k, r)
<1>1. \A k \in {"run", "export"} : w(k) \in CallRecord /\ w(k).kind = k /\ w(k).run = r
  BY DEF Config!NoCall, Config!Waiting, CallRecord, DatasetStatus
<1>2. /\ ~Config!Underway(s) /\ UNCHANGED status
      /\ Config!HandleRunDataset(s, r) => call' = [call EXCEPT ![s] = w("run")]
      /\ Config!HandleDownload(s, r) => call' = [call EXCEPT ![s] = w("export")]
  BY DEF Config!HandleRunDataset, Config!HandleDownload, Config!Panel
<1> HIDE DEF w
<1> QED
  BY <1>1, <1>2, CallSet, Unused

LEMMA Dones ==
  ASSUME ConfigTypes, NEW s \in Slots, Config!Done(s)
  PROVE  AskChanges(s) /\ ask'[s].kind = "none" /\ CallChanges(s) /\ call'[s].kind = "none"
<1> DEFINE w == Config!NoCall
<1>1. w \in CallRecord /\ w.kind = "none"
  BY DEF Config!NoCall, CallRecord, DatasetStatus
<1>2. Config!Forget(s) /\ call' = [call EXCEPT ![s] = w] /\ UNCHANGED status
  BY DEF Config!Done
<1> HIDE DEF w
<1> QED
  BY <1>1, <1>2, CallSet, Forgets

(* What a request about configurations is of stays while it is served, but *)
(* that a new configuration gets its id.                                   *)
AskServed ==
  \A t \in Slots :
    /\ ask'[t].kind = ask[t].kind /\ ask'[t].editing = ask[t].editing
    /\ ask'[t].content = ask[t].content
    /\ ask'[t].config # ask[t].config => ask[t].kind = "save"

LEMMA Replies ==
  ASSUME ConfigTypes, NEW s \in Slots, NEW q \in {"ok", "error"}, Config!Reply(s, q)
  PROVE  /\ AskChanges(s) /\ AskServed
         /\ ask'[s].result = q /\ ask'[s].config = ask[s].config /\ ask'[s].seen = ask[s].seen
<1>1. ask \in [Slots -> AskRecord]
  BY DEF ConfigTypes
<1> DEFINE a == [ask[s] EXCEPT !.result = q]
<1>2. ask[s] \in AskRecord
  BY <1>1
<1>3. /\ a \in AskRecord /\ a.kind = ask[s].kind /\ a.editing = ask[s].editing
      /\ a.content = ask[s].content /\ a.config = ask[s].config /\ a.seen = ask[s].seen
      /\ a.result = q
  BY <1>2 DEF AskRecord
<1>4. ask' = [ask EXCEPT ![s] = a]
  BY DEF Config!Reply
<1> HIDE DEF a
<1>5. AskChanges(s) /\ ask'[s] = a
  BY <1>3, <1>4, AskSet
<1> QED
  BY <1>3, <1>5 DEF AskServed, AskChanges

LEMMA LoadServed ==
  ASSUME ConfigTypes, NEW s \in Slots, Config!ServeLoad(s)
  PROVE  /\ AskChanges(s) /\ AskServed /\ UNCHANGED <<configs, disturbed>>
         /\ ask[s].kind = "load"
         /\ ask'[s].result = "ok" => \A c \in ConfigIds : ask'[s].seen[c] = Config!StoredAs(c)
<1> DEFINE seen == [c \in ConfigIds |-> IF Config!Exists(c) THEN configs[c] ELSE "none"]
<1>1. ask[s].kind = "load"
  BY DEF Config!ServeLoad, Config!Asks
<1>2. CASE Config!Fails(s)
  BY <1>1, <1>2, Replies DEF Config!Fails
<1>3. CASE /\ ask' = [ask EXCEPT ![s].result = "ok", ![s].seen = seen]
           /\ UNCHANGED <<configs, disturbed>>
  <2>1. seen \in [ConfigIds -> Contents \cup {"none"}]
    BY DEF Config!Exists
  <2>2. \A c \in ConfigIds : seen[c] = Config!StoredAs(c)
    BY DEF Config!StoredAs
  <2> HIDE DEF seen
  <2> DEFINE a == [ask[s] EXCEPT !.result = "ok", !.seen = seen]
  <2>3. ask[s] \in AskRecord
    BY DEF ConfigTypes
  <2>4. /\ a \in AskRecord /\ a.kind = ask[s].kind /\ a.editing = ask[s].editing
        /\ a.content = ask[s].content /\ a.config = ask[s].config /\ a.seen = seen
    BY <2>1, <2>3 DEF AskRecord
  <2>5. ask' = [ask EXCEPT ![s] = a]
    BY <1>3
  <2> HIDE DEF a
  <2>6. AskChanges(s) /\ ask'[s] = a
    BY <2>4, <2>5, AskSet
  <2>7. AskServed
    BY <2>4, <2>6 DEF AskServed, AskChanges
  <2> QED
    BY <1>1, <1>3, <2>2, <2>4, <2>6, <2>7
<1> QED
  BY <1>2, <1>3 DEF Config!ServeLoad

SaveEffect(s) ==
         /\ AskChanges(s) /\ AskServed
         /\ ask[s].kind = "save" /\ ask[s].result = "waiting"
         /\ ask'[s].result \in {"ok", "error"}
         /\ configs' \in [ConfigIds -> Contents \cup {"none", "deleted"}]
         /\ disturbed' \in BOOLEAN /\ (disturbed => disturbed')
         /\ \/ /\ ask'[s].result = "error" /\ UNCHANGED <<configs, disturbed>>
               /\ ask'[s].config = ask[s].config
            \/ disturbed'
            \/ /\ ask'[s].result = "ok" /\ ~disturbed'
               /\ \E c \in ConfigIds :
                    /\ ask'[s].config = c
                    /\ \/ ask[s].config = NoConfig /\ configs[c] = "none"
                       \/ ask[s].config = c /\ configs[c] \in Contents
                    /\ configs' = [configs EXCEPT ![c] = ask[s].content]

LEMMA SaveServed ==
  ASSUME ConfigTypes, NEW s \in Slots, Config!ServeSave(s)
  PROVE  SaveEffect(s)
<1> USE DEF SaveEffect
<1>1. ask[s].kind = "save" /\ ask[s].result = "waiting"
      /\ ask[s].content \in Contents \cup {"none"}
  BY DEF Config!ServeSave, Config!Asks, ConfigTypes, AskRecord
<1>2. CASE Config!Fails(s)
  BY <1>1, <1>2, Replies DEF Config!Fails, ConfigTypes
<1>3. ASSUME NEW c \in ConfigIds, ask[s].config = NoConfig, configs[c] = "none",
             configs' = [configs EXCEPT ![c] = ask[s].content],
             \/ /\ ask' = [ask EXCEPT ![s].result = "ok", ![s].config = c]
                /\ UNCHANGED disturbed
             \/ Config!Reply(s, "error") /\ disturbed' = TRUE
      PROVE  SaveEffect(s)
  <2>1. configs' \in [ConfigIds -> Contents \cup {"none", "deleted"}]
    BY <1>1, <1>3 DEF ConfigTypes
  <2>2. CASE Config!Reply(s, "error") /\ disturbed' = TRUE
    BY <1>1, <2>1, <2>2, Replies
  <2>3. CASE ask' = [ask EXCEPT ![s].result = "ok", ![s].config = c] /\ UNCHANGED disturbed
    <3>1. /\ AskChanges(s) /\ AskServed
          /\ ask'[s].result = "ok" /\ ask'[s].config = c
      <4> DEFINE a == [ask[s] EXCEPT !.result = "ok", !.config = c]
      <4>1. ask[s] \in AskRecord
        BY DEF ConfigTypes
      <4>2. /\ a \in AskRecord /\ a.kind = ask[s].kind /\ a.editing = ask[s].editing
            /\ a.content = ask[s].content /\ a.config = c /\ a.result = "ok"
        BY <4>1 DEF AskRecord
      <4>3. ask' = [ask EXCEPT ![s] = a]
        BY <2>3
      <4> HIDE DEF a
      <4>4. AskChanges(s) /\ ask'[s] = a
        BY <4>2, <4>3, AskSet
      <4> QED
        BY <1>1, <4>2, <4>4 DEF AskServed, AskChanges
    <3> QED
      BY <1>1, <1>3, <2>1, <2>3, <3>1 DEF ConfigTypes
  <2> QED
    BY <1>3, <2>2, <2>3
<1>4. CASE /\ Config!Exists(ask[s].config)
           /\ configs' = [configs EXCEPT ![ask[s].config] = ask[s].content]
           /\ Config!Acted(s)
  <2>1. /\ ask[s].config \in ConfigIds /\ configs[ask[s].config] \in Contents
        /\ configs' \in [ConfigIds -> Contents \cup {"none", "deleted"}]
    BY <1>1, <1>4 DEF ConfigTypes, Config!Exists
  <2>2. CASE Config!Reply(s, "ok") /\ UNCHANGED disturbed
    BY <1>1, <1>4, <2>1, <2>2, Replies DEF ConfigTypes
  <2>3. CASE Config!Reply(s, "error") /\ disturbed' = TRUE
    BY <1>1, <2>1, <2>3, Replies
  <2> QED
    BY <1>4, <2>2, <2>3 DEF Config!Acted
<1> QED
  BY <1>2, <1>3, <1>4 DEF Config!ServeSave

LEMMA RemoveServed ==
  ASSUME ConfigTypes, NEW s \in Slots, Config!ServeRemove(s)
  PROVE  /\ AskChanges(s) /\ AskServed
         /\ ask[s].kind = "remove" /\ ask[s].result = "waiting"
         /\ ask'[s].result \in {"ok", "error"} /\ ask'[s].config = ask[s].config
         /\ configs' \in [ConfigIds -> Contents \cup {"none", "deleted"}]
         /\ disturbed' \in BOOLEAN /\ (disturbed => disturbed')
         /\ \/ ask'[s].result = "error" /\ UNCHANGED <<configs, disturbed>>
            \/ disturbed'
            \/ /\ ask'[s].result = "ok" /\ ~disturbed'
               /\ ask[s].config \in ConfigIds /\ configs[ask[s].config] \in Contents
               /\ configs' = [configs EXCEPT ![ask[s].config] = "deleted"]
<1>1. ask[s].kind = "remove" /\ ask[s].result = "waiting"
  BY DEF Config!ServeRemove, Config!Asks
<1>2. CASE Config!Fails(s)
  BY <1>1, <1>2, Replies DEF Config!Fails, ConfigTypes
<1>3. CASE /\ Config!Exists(ask[s].config)
           /\ configs' = [configs EXCEPT ![ask[s].config] = "deleted"]
           /\ Config!Acted(s)
  <2>1. /\ ask[s].config \in ConfigIds /\ configs[ask[s].config] \in Contents
        /\ configs' \in [ConfigIds -> Contents \cup {"none", "deleted"}]
    BY <1>1, <1>3 DEF ConfigTypes, Config!Exists
  <2>2. CASE Config!Reply(s, "ok") /\ UNCHANGED disturbed
    BY <1>1, <1>3, <2>1, <2>2, Replies DEF ConfigTypes
  <2>3. CASE Config!Reply(s, "error") /\ disturbed' = TRUE
    BY <1>1, <2>1, <2>3, Replies
  <2> QED
    BY <1>3, <2>2, <2>3 DEF Config!Acted
<1> QED
  BY <1>2, <1>3 DEF Config!ServeRemove

-----------------------------------------------------------------------------
(* Every busy label has its request, per kind of step.                     *)
LEMMA BusyServed ==
  ASSUME ConfigTypes, BusyInv, AskServed, Serves(Slots), UNCHANGED Config!pageVars
  PROVE  BusyInv'
<1>1. UNCHANGED <<loadState, saveState, deleteState, draftState, exportState>>
  BY DEF Config!pageVars, Config!listVars, Config!formVars, Config!panelVars
<1> QED
  BY <1>1 DEF BusyInv, AskServed, Serves, Config!BusyIsAwaited

LEMMA ServeKeepsTypes ==
  ASSUME ConfigTypes, BusyInv, Config!ServePage
  PROVE  ConfigTypes' /\ BusyInv'
<1>1. PICK s \in Slots :
        \/ Config!ServeLoad(s) /\ UNCHANGED callVars
        \/ Config!ServeSave(s) /\ UNCHANGED callVars
        \/ Config!ServeRemove(s) /\ UNCHANGED callVars
        \/ /\ Config!ServeDraft(s) \/ Config!ServeRun(s) \/ Config!ServeExport(s)
           /\ UNCHANGED <<configs, ask, disturbed>>
  BY DEF Config!ServePage, callVars, Config!callVars
<1>2. UNCHANGED <<list, editing>> /\ UNCHANGED Config!pageVars
  BY DEF Config!ServePage, Config!pageVars, Config!listVars, Config!formVars
<1>3. ASSUME UNCHANGED callVars PROVE Serves(Slots)
  BY <1>3 DEF callVars, Serves, ConfigTypes, CallsInv
<1>4. CASE Config!ServeLoad(s) /\ UNCHANGED callVars
  <2>1. /\ ask' \in [Slots -> AskRecord] /\ AskServed /\ UNCHANGED <<configs, disturbed>>
    BY <1>4, LoadServed DEF AskChanges
  <2> QED
    BY <1>2, <1>3, <1>4, <2>1, BusyServed DEF ConfigTypes, Serves
<1>5. CASE Config!ServeSave(s) /\ UNCHANGED callVars
  <2>1. /\ ask' \in [Slots -> AskRecord] /\ AskServed
        /\ configs' \in [ConfigIds -> Contents \cup {"none", "deleted"}] /\ disturbed' \in BOOLEAN
    BY <1>5, SaveServed DEF SaveEffect, AskChanges
  <2> QED
    BY <1>2, <1>3, <1>5, <2>1, BusyServed DEF ConfigTypes, Serves
<1>6. CASE Config!ServeRemove(s) /\ UNCHANGED callVars
  <2>1. /\ ask' \in [Slots -> AskRecord] /\ AskServed
        /\ configs' \in [ConfigIds -> Contents \cup {"none", "deleted"}] /\ disturbed' \in BOOLEAN
    BY <1>6, RemoveServed DEF AskChanges
  <2> QED
    BY <1>2, <1>3, <1>6, <2>1, BusyServed DEF ConfigTypes, Serves
<1>7. CASE /\ Config!ServeDraft(s) \/ Config!ServeRun(s) \/ Config!ServeExport(s)
           /\ UNCHANGED <<configs, ask, disturbed>>
  <2>1. Serves(Slots)
    BY <1>7, ServiceOfConfig DEF ConfigTypes, Config!ServeDraft
  <2>2. AskServed
    BY <1>7 DEF AskServed
  <2> QED
    BY <1>2, <1>7, <2>1, <2>2, BusyServed DEF ConfigTypes, Serves
<1> QED
  BY <1>1, <1>4, <1>5, <1>6, <1>7

FormMoves ==
  \/ Config!CancelEdit \/ Config!SubmitInvalid
  \/ \E c \in ConfigIds :
       Config!HandleEdit(c) \/ Config!RequestDelete(c) \/ Config!CancelDelete(c)

LEMMA FormKeepsTypes ==
  ASSUME ConfigTypes, BusyInv, FormMoves
  PROVE  ConfigTypes' /\ BusyInv'
<1>1. /\ UNCHANGED <<configs, ask, call, status, loadState, list, draftState, exportState>>
      /\ editing' \in ConfigIds \cup {NoConfig} /\ disturbed' \in BOOLEAN
      /\ saveState' \in {"idle", saveState}
      /\ \A c \in ConfigIds : deleteState' = Config!Of("deleting", c) => deleteState' = deleteState
  <2> DEFINE Kept == UNCHANGED <<configs, ask, call, status, loadState, list, draftState,
                                 exportState>>
  <2>1. Kept
    BY DEF FormMoves, Config!HandleEdit, Config!CancelEdit,
       Config!SubmitInvalid, Config!RequestDelete, Config!CancelDelete, Config!serviceVars,
       Config!callVars, Config!listVars, Config!panelVars
  <2>2. editing' \in ConfigIds \cup {NoConfig} /\ saveState' \in {"idle", saveState}
    BY DEF FormMoves, ConfigTypes, Config!HandleEdit, Config!CancelEdit,
       Config!SubmitInvalid, Config!RequestDelete, Config!CancelDelete, Config!formVars
  <2>3. disturbed' \in BOOLEAN
    BY DEF FormMoves, ConfigTypes, Config!HandleEdit, Config!CancelEdit,
       Config!SubmitInvalid, Config!RequestDelete, Config!CancelDelete
  <2>4. \/ deleteState' = deleteState \/ deleteState' = Config!Idle
        \/ \E c \in ConfigIds : deleteState' = Config!Of("confirm", c)
    BY DEF FormMoves, Config!HandleEdit, Config!CancelEdit,
       Config!SubmitInvalid, Config!RequestDelete, Config!CancelDelete, Config!listVars
  <2> QED
    BY <2>1, <2>2, <2>3, <2>4, ConfigLabels
<1>2. ConfigTypes'
  BY <1>1 DEF ConfigTypes, CallsInv
<1>3. BusyInv'
  BY <1>1 DEF BusyInv, Config!BusyIsAwaited
<1> QED
  BY <1>2, <1>3

LEMMA SubmitKeepsTypes ==
  ASSUME ConfigTypes, BusyInv, NEW s \in Slots, NEW content \in Contents,
         Config!SubmitValid(s, content)
  PROVE  ConfigTypes' /\ BusyInv'
<1>1. /\ AskChanges(s) /\ ask[s].kind = "none" /\ call[s].kind = "none" /\ ask'[s].kind = "save"
  BY SendsSave
<1>2. /\ UNCHANGED <<configs, call, status, loadState, list, editing, deleteState, draftState,
                     exportState>>
      /\ disturbed' \in BOOLEAN
  BY DEF ConfigTypes, Config!SubmitValid, Config!serviceVars, Config!callVars, Config!listVars,
     Config!panelVars
<1>3. ConfigTypes'
  BY <1>1, <1>2 DEF ConfigTypes, CallsInv, AskChanges
<1>4. BusyInv'
  BY <1>1, <1>2 DEF BusyInv, Config!BusyIsAwaited, AskChanges
<1> QED
  BY <1>3, <1>4

LEMMA ConfirmKeepsTypes ==
  ASSUME ConfigTypes, BusyInv, NEW s \in Slots, NEW c \in ConfigIds, Config!ConfirmDelete(s, c)
  PROVE  ConfigTypes' /\ BusyInv'
<1>1. /\ AskChanges(s) /\ ask[s].kind = "none" /\ call[s].kind = "none"
      /\ ask'[s].kind = "remove" /\ ask'[s].config = c
  BY SendsRemove
<1>2. /\ UNCHANGED <<configs, call, status, loadState, list, editing, saveState, draftState,
                     exportState, disturbed>>
      /\ deleteState' = Config!Of("deleting", c)
  BY DEF Config!ConfirmDelete, Config!serviceVars, Config!callVars, Config!formVars,
     Config!panelVars
<1>3. ConfigTypes'
  BY <1>1, <1>2 DEF ConfigTypes, CallsInv, AskChanges
<1>4. BusyInv'
  BY <1>1, <1>2, ConfigLabels DEF BusyInv, Config!BusyIsAwaited, AskChanges
<1> QED
  BY <1>3, <1>4

ConfigAnswers(s) ==
  \/ Config!ConfigsLoaded(s) \/ Config!SaveAnswered(s) \/ Config!SaveRefused(s)
  \/ Config!Deleted(s) \/ Config!DeleteRefused(s)

(* The list after an answer.                                               *)
LEMMA ListedTyped ==
  ASSUME ConfigTypes, NEW s \in Slots
  PROVE  /\ Config!ListedWith(s) \in [ConfigIds -> Contents \cup {"none"}]
         /\ Config!ListedWithout(s) \in [ConfigIds -> Contents \cup {"none"}]
         /\ ask[s].seen \in [ConfigIds -> Contents \cup {"none"}]
<1>1. /\ ask[s].content \in Contents \cup {"none"}
      /\ ask[s].seen \in [ConfigIds -> Contents \cup {"none"}]
      /\ list \in [ConfigIds -> Contents \cup {"none"}]
  BY DEF ConfigTypes, AskRecord
<1> QED
  BY <1>1 DEF Config!ListedWith, Config!ListedWithout

LEMMA AnswersKeepTypes ==
  ASSUME ConfigTypes, BusyInv, NEW s \in Slots, ConfigAnswers(s)
  PROVE  ConfigTypes' /\ BusyInv'
<1>1. Config!Forget(s) /\ UNCHANGED <<configs, call, status, draftState, exportState>>
  BY DEF ConfigAnswers, Config!ConfigsLoaded, Config!SaveAnswered, Config!SaveRefused,
     Config!Deleted, Config!DeleteRefused, Config!serviceVars, Config!callVars, Config!panelVars
<1>2. AskChanges(s) /\ ask'[s].kind = "none"
  BY <1>1, Forgets
<1>3. list' \in [ConfigIds -> Contents \cup {"none"}]
  BY ListedTyped DEF ConfigAnswers, ConfigTypes, Config!ConfigsLoaded, Config!SaveAnswered,
     Config!SaveRefused, Config!Deleted, Config!DeleteRefused, Config!listVars
<1>4. editing' \in ConfigIds \cup {NoConfig} /\ disturbed' \in BOOLEAN
  BY DEF ConfigAnswers, ConfigTypes, Config!ConfigsLoaded, Config!SaveAnswered,
     Config!SaveRefused, Config!Deleted, Config!DeleteRefused, Config!formVars
<1>5. ConfigTypes'
  BY <1>1, <1>2, <1>3, <1>4 DEF ConfigTypes, CallsInv, AskChanges
<1>6. ask[s].kind \in {"load", "save", "remove"}
  BY DEF ConfigAnswers, Config!ConfigsLoaded, Config!SaveAnswered, Config!SaveRefused,
     Config!Deleted, Config!DeleteRefused, Config!Answers
<1>7. loadState' = "loading" => loadState = "loading" /\ ask[s].kind # "load"
  BY DEF ConfigAnswers, Config!ConfigsLoaded, Config!SaveAnswered, Config!SaveRefused,
     Config!Deleted, Config!DeleteRefused, Config!Answers, Config!listVars
<1>8. saveState' = "saving" => saveState = "saving" /\ ask[s].kind # "save"
  BY DEF ConfigAnswers, Config!ConfigsLoaded, Config!SaveAnswered, Config!SaveRefused,
     Config!Deleted, Config!DeleteRefused, Config!Answers, Config!formVars
<1>9. \/ deleteState' = deleteState /\ ask[s].kind # "remove"
      \/ deleteState' = Config!Idle \/ deleteState' = Config!Of("error", NoConfig)
  BY DEF ConfigAnswers, Config!ConfigsLoaded, Config!SaveAnswered, Config!SaveRefused,
     Config!Deleted, Config!DeleteRefused, Config!Answers, Config!listVars
<1>10. \A c \in ConfigIds : deleteState' = Config!Of("deleting", c) =>
         deleteState = Config!Of("deleting", c) /\ ask[s].kind # "remove"
  BY <1>9, ConfigLabels
<1>11. BusyInv'
  BY <1>1, <1>2, <1>6, <1>7, <1>8, <1>10 DEF BusyInv, Config!BusyIsAwaited, AskChanges
<1> QED
  BY <1>5, <1>11

(* The panel: what it changes, but for its own labels.                     *)
PanelMoves(s) ==
  \/ \E c \in ConfigIds : Config!HandleCreateDraft(s, c)
  \/ \E r \in Runs : Config!HandleRunDataset(s, r) \/ Config!HandleDownload(s, r)
  \/ Config!DraftAnswered(s) \/ Config!DatasetAnswered(s) \/ Config!DownloadAnswered(s)

PanelChanges(s) ==
  /\ AskChanges(s) /\ CallChanges(s)
  /\ ask[s].kind \in {"none", "draft"} /\ ask'[s].kind \in {"none", "draft"}
  /\ UNCHANGED <<configs, loadState, list, editing, disturbed, saveState, deleteState>>

LEMMA PanelStep ==
  ASSUME ConfigTypes, BusyInv, NEW s \in Slots, PanelMoves(s)
  PROVE  PanelChanges(s)
<1>1. UNCHANGED <<configs, loadState, list, editing, disturbed, saveState, deleteState>>
  BY DEF PanelMoves, Config!HandleCreateDraft, Config!HandleRunDataset, Config!HandleDownload,
     Config!DraftAnswered, Config!DatasetAnswered, Config!DownloadAnswered, Config!Panel,
     Config!Done, Config!listVars, Config!formVars
<1>2. CASE \E c \in ConfigIds : Config!HandleCreateDraft(s, c)
  BY <1>1, <1>2, SendsDraft DEF PanelChanges
<1>3. CASE \E r \in Runs : Config!HandleRunDataset(s, r) \/ Config!HandleDownload(s, r)
  <2>1. CallChanges(s) /\ ask[s].kind = "none"
    BY <1>3, SendsRun
  <2>2. ask' = ask
    BY <1>3 DEF Config!HandleRunDataset, Config!HandleDownload
  <2> QED
    BY <1>1, <2>1, <2>2 DEF PanelChanges, AskChanges, ConfigTypes
<1>4. CASE Config!DraftAnswered(s) \/ Config!DatasetAnswered(s) \/ Config!DownloadAnswered(s)
  <2>1. Config!Done(s) /\ call[s].kind \in {"create", "run", "export"}
    BY <1>4 DEF Config!DraftAnswered, Config!DatasetAnswered, Config!DownloadAnswered,
       Config!Settled
  <2>2. ask[s].kind \in {"none", "draft"}
    BY <2>1 DEF BusyInv, ConfigTypes, AskRecord
  <2> QED
    BY <1>1, <2>1, <2>2, Dones DEF PanelChanges
<1> QED
  BY <1>2, <1>3, <1>4 DEF PanelMoves

(* The labels of the panel that remain have not lost their request.        *)
LEMMA PanelKeepsTypes ==
  ASSUME ConfigTypes, BusyInv, NEW s \in Slots, PanelMoves(s)
  PROVE  ConfigTypes' /\ BusyInv'
<1>1. PanelChanges(s)
  BY PanelStep
<1>2. ConfigTypes'
  BY <1>1 DEF ConfigTypes, PanelChanges, AskChanges, CallChanges
<1>3. ASSUME ask'[s].kind = "draft" => call'[s].kind = "create",
             \A c \in ConfigIds : draftState' = Config!Of("creating", c) =>
               \E t \in Slots : ask'[t].kind = "draft" /\ ask'[t].config = c,
             \A r \in Runs : draftState' = Config!Of("running", r) =>
               \E t \in Slots : call'[t].kind = "run" /\ call'[t].run = r,
             exportState' = "downloading" => \E t \in Slots : call'[t].kind = "export"
      PROVE  BusyInv'
  BY <1>1, <1>3 DEF BusyInv, Config!BusyIsAwaited, PanelChanges, AskChanges, CallChanges
<1>4. ASSUME NEW c \in ConfigIds, Config!HandleCreateDraft(s, c) PROVE BusyInv'
  <2>1. ask'[s].kind = "draft" /\ ask'[s].config = c /\ call'[s].kind = "create"
    BY <1>4, SendsDraft
  <2>2. draftState' = Config!Of("creating", c) /\ exportState' = "idle"
    BY <1>4 DEF Config!HandleCreateDraft
  <2> QED
    BY <1>3, <2>1, <2>2, ConfigLabels
<1>5. ASSUME NEW r \in Runs, Config!HandleRunDataset(s, r) PROVE BusyInv'
  <2>1. ask[s].kind = "none" /\ call'[s].run = r /\ call'[s].kind = "run" /\ ask' = ask
    BY <1>5, SendsRun DEF Config!HandleRunDataset
  <2>2. draftState' = Config!Of("running", r) /\ exportState' = "idle"
    BY <1>5 DEF Config!HandleRunDataset
  <2> QED
    BY <1>3, <2>1, <2>2, ConfigLabels
<1>6. ASSUME NEW r \in Runs, Config!HandleDownload(s, r) PROVE BusyInv'
  <2>1. /\ ask[s].kind = "none" /\ call[s].kind = "none" /\ call'[s].kind = "export"
        /\ ask' = ask /\ draftState = Config!Of("completed", r) /\ draftState' = draftState
    BY <1>6, SendsRun DEF Config!HandleDownload
  <2> QED
    BY <1>3, <2>1, ConfigLabels
<1>7. CASE Config!DraftAnswered(s) \/ Config!DatasetAnswered(s)
  <2>1. /\ ask'[s].kind = "none" /\ call[s].kind \in {"create", "run"} /\ exportState' = exportState
        /\ \A t \in Slots \ {s} : call'[t] = call[t]
    BY <1>7, Dones DEF Config!DraftAnswered, Config!DatasetAnswered, Config!Settled, CallChanges
  <2>2. \E p \in {"created", "completed", "provider-limited", "error"} :
          \E x : draftState' = Config!Of(p, x)
    BY <1>7 DEF Config!DraftAnswered, Config!DatasetAnswered, Config!Settled, Config!Results
  <2>3. \A x : draftState' # Config!Of("creating", x) /\ draftState' # Config!Of("running", x)
    BY <2>2, ConfigLabels
  <2>4. exportState = "downloading" => \E t \in Slots : call[t].kind = "export"
    BY DEF BusyInv, Config!BusyIsAwaited
  <2> QED
    BY <1>2, <1>3, <2>1, <2>3, <2>4
<1>8. CASE Config!DownloadAnswered(s)
  <2>1. /\ ask'[s].kind = "none" /\ call[s].kind = "export" /\ exportState' # "downloading"
        /\ draftState' = draftState
        /\ \A t \in Slots \ {s} : call'[t] = call[t] /\ ask'[t] = ask[t]
    BY <1>8, Dones DEF Config!DownloadAnswered, Config!Settled, CallChanges, AskChanges
  <2>2. ask[s].kind # "draft"
    BY <2>1 DEF BusyInv
  <2>3. /\ \A c \in ConfigIds : draftState = Config!Of("creating", c) =>
             \E t \in Slots : ask[t].kind = "draft" /\ ask[t].config = c
        /\ \A r \in Runs : draftState = Config!Of("running", r) =>
             \E t \in Slots : call[t].kind = "run" /\ call[t].run = r
    BY DEF BusyInv, Config!BusyIsAwaited
  <2> QED
    BY <1>2, <1>3, <2>1, <2>2, <2>3
<1> QED
  BY <1>2, <1>4, <1>5, <1>6, <1>7, <1>8 DEF PanelMoves

(* Requests that neither load, save nor remove, and those that were        *)
(* refused, can come and go.                                               *)
LEMMA QuietAgrees ==
  ASSUME ConfigTypes, Agreement, NEW s \in Slots, AskChanges(s),
         ask[s].kind \in {"none", "draft"} \/ ask[s].result # "ok",
         ask'[s].kind \in {"none", "draft"},
         UNCHANGED <<configs, loadState, list, editing>>
  PROVE  Agreement'
<1> USE DEF AskChanges
<1>1. KnownInv'
  BY DEF Agreement, KnownInv
<1>2. LoadInv'
  BY DEF Agreement, LoadInv, Config!StoredAs, Config!Exists
<1>5. SaveInv'
  BY DEF Agreement, SaveInv, SaveDone
<1>6. RemoveInv'
  BY DEF Agreement, RemoveInv
<1>7. ListInv'
  <2>1. \A c \in ConfigIds : \A t \in Slots : SaveDone(t, c) => SaveDone(t, c)' /\ ask'[t] = ask[t]
    BY DEF SaveDone
  <2>2. \A c \in ConfigIds : \A t \in Slots : RemoveDone(t, c) => RemoveDone(t, c)'
    BY DEF RemoveDone
  <2> QED
    BY <2>1, <2>2 DEF Agreement, ListInv, ConfigTypes
<1> QED
  BY <1>1, <1>2, <1>5, <1>6, <1>7 DEF Agreement

LEMMA CancelAgrees ==
  ASSUME ConfigTypes, Agreement, UNCHANGED <<ask, configs, loadState, list>>,
         editing' \in {editing, NoConfig}
  PROVE  Agreement'
<1>1. KnownInv'
  BY DEF Agreement, KnownInv
<1>2. LoadInv'
  BY DEF Agreement, LoadInv, Config!StoredAs, Config!Exists
<1>3. SaveInv'
  BY DEF Agreement, SaveInv, SaveDone
<1>4. RemoveInv'
  BY NoConfigAssumption DEF Agreement, RemoveInv
<1>5. ListInv'
  BY DEF Agreement, ListInv, SaveDone, RemoveDone
<1> QED
  BY <1>1, <1>2, <1>3, <1>4, <1>5 DEF Agreement

LEMMA LoadedAgrees ==
  ASSUME ConfigTypes, BusyInv, Agreement, NEW s \in Slots, Config!ConfigsLoaded(s), ~disturbed'
  PROVE  Agreement'
<1>1. /\ ask[s].kind = "load" /\ ask[s].result = "ok"
      /\ loadState' = "loaded" /\ list' = ask[s].seen
      /\ AskChanges(s) /\ ask'[s].kind = "none" /\ UNCHANGED <<configs, editing>>
  BY Forgets DEF Config!ConfigsLoaded, Config!Answers, Config!serviceVars, Config!formVars
<1>2. /\ \A t \in Slots : ask'[t].kind \notin {"load", "save", "remove"}
      /\ editing = NoConfig
      /\ \A c \in ConfigIds : list'[c] = Config!StoredAs(c)
  BY <1>1 DEF AskChanges, BusyInv, Agreement, LoadInv
<1>3. KnownInv'
  BY <1>1, <1>2, ContentsAssumption DEF KnownInv, Config!StoredAs, Config!Exists
<1>4. LoadInv' /\ SaveInv' /\ RemoveInv'
  BY <1>1, <1>2 DEF LoadInv, SaveInv, RemoveInv, SaveDone
<1>5. ListInv'
  BY <1>1, <1>2 DEF ListInv, Config!StoredAs, Config!Exists
<1> QED
  BY <1>3, <1>4, <1>5 DEF Agreement

LEMMA EditAgrees ==
  ASSUME ConfigTypes, Agreement, NEW c \in ConfigIds, Config!HandleEdit(c), ~disturbed'
  PROVE  Agreement'
<1>1. /\ loadState = "loaded" /\ list[c] # "none" /\ editing' = c
      /\ \A s \in Slots : ask[s].kind = "remove" => ask[s].config # c
      /\ UNCHANGED <<ask, configs, loadState, list>>
  BY DEF Config!HandleEdit, Config!Listed, Config!serviceVars, Config!listVars
<1>2. KnownInv'
  BY <1>1 DEF Agreement, KnownInv
<1>3. LoadInv'
  BY <1>1 DEF Agreement, LoadInv, Config!StoredAs, Config!Exists
<1>4. SaveInv'
  BY <1>1 DEF Agreement, SaveInv, SaveDone
<1>5. RemoveInv'
  BY <1>1 DEF Agreement, RemoveInv
<1>6. ListInv'
  BY <1>1 DEF Agreement, ListInv, SaveDone, RemoveDone
<1> QED
  BY <1>2, <1>3, <1>4, <1>5, <1>6 DEF Agreement

LEMMA SubmitAgrees ==
  ASSUME ConfigTypes, Agreement, NEW s \in Slots, NEW content \in Contents,
         Config!SubmitValid(s, content), ~disturbed'
  PROVE  Agreement'
<1>1. /\ AskChanges(s) /\ ask[s].kind = "none"
      /\ ask'[s].kind = "save" /\ ask'[s].config = editing /\ ask'[s].editing = editing
      /\ ask'[s].content = content /\ ask'[s].result = "waiting"
  BY SendsSave
<1>2. /\ loadState # "loading"
      /\ \A t \in Slots : ask[t].kind = "save" /\ editing # NoConfig => ask[t].config # editing
      /\ UNCHANGED <<configs, loadState, list, editing>>
  BY DEF Config!SubmitValid, Config!Overtaken, Config!serviceVars, Config!listVars
<1> USE DEF AskChanges
<1>3. KnownInv'
  BY <1>1, <1>2 DEF Agreement, KnownInv
<1>4. LoadInv'
  BY <1>1, <1>2 DEF Agreement, LoadInv, Config!StoredAs, Config!Exists
<1>5. SaveInv'
  BY <1>1, <1>2 DEF Agreement, SaveInv, SaveDone
<1>6. RemoveInv'
  BY <1>1, <1>2 DEF Agreement, RemoveInv
<1>7. ListInv'
  BY <1>1, <1>2 DEF Agreement, ListInv, SaveDone, RemoveDone
<1> QED
  BY <1>3, <1>4, <1>5, <1>6, <1>7 DEF Agreement

LEMMA ConfirmAgrees ==
  ASSUME ConfigTypes, Agreement, NEW s \in Slots, NEW c \in ConfigIds, Config!ConfirmDelete(s, c)
  PROVE  Agreement'
<1>1. /\ AskChanges(s) /\ ask[s].kind = "none"
      /\ ask'[s].kind = "remove" /\ ask'[s].config = c /\ ask'[s].editing = editing
      /\ ask'[s].result = "waiting"
  BY SendsRemove
<1>2. /\ loadState = "loaded" /\ list[c] # "none"
      /\ UNCHANGED <<configs, loadState, list, editing>>
  BY DEF Config!ConfirmDelete, Config!Listed, Config!serviceVars, Config!formVars
<1> USE DEF AskChanges
<1>3. KnownInv'
  BY <1>1, <1>2 DEF Agreement, KnownInv
<1>4. LoadInv'
  BY <1>1, <1>2 DEF Agreement, LoadInv, Config!StoredAs, Config!Exists
<1>5. SaveInv'
  BY <1>1, <1>2 DEF Agreement, SaveInv, SaveDone
<1>6. RemoveInv'
  BY <1>1, <1>2 DEF Agreement, RemoveInv
<1>7. ListInv'
  BY <1>1, <1>2 DEF Agreement, ListInv, SaveDone, RemoveDone
<1> QED
  BY <1>3, <1>4, <1>5, <1>6, <1>7 DEF Agreement

(* What SaveInv says of a save that is answered.                           *)
LEMMA SaveOf ==
  ASSUME ConfigTypes, Agreement, NEW s \in Slots, ask[s].kind = "save", ask[s].result = "ok"
  PROVE  /\ ask[s].config \in ConfigIds /\ ask[s].content \in Contents
         /\ ask[s].editing \in {NoConfig, ask[s].config}
         /\ configs[ask[s].config] \in Contents => configs[ask[s].config] = ask[s].content
         /\ \A t \in Slots \ {s} : ask[t].kind = "save" => ask[t].config # ask[s].config
         /\ ask[s].editing = NoConfig =>
              /\ configs[ask[s].config] \in Contents /\ list[ask[s].config] = "none"
         /\ loadState = "loaded"
         /\ \A t \in Slots : ask[t].kind # "load"
<1>1. /\ ask[s].config \in ConfigIds /\ ask[s].content \in Contents
      /\ ask[s].editing \in {NoConfig, ask[s].config}
      /\ configs[ask[s].config] \in Contents => configs[ask[s].config] = ask[s].content
  BY DEF Agreement, SaveInv
<1>2. \A t \in Slots \ {s} : ask[t].kind = "save" => ask[t].config # ask[s].config
  BY <1>1, NoConfigAssumption DEF Agreement, SaveInv
<1>3. ask[s].editing = NoConfig =>
        configs[ask[s].config] \in Contents /\ list[ask[s].config] = "none"
  BY <1>1 DEF Agreement, SaveInv, SaveDone
<1>4. loadState = "loaded" /\ \A t \in Slots : ask[t].kind # "load"
  BY DEF Agreement, LoadInv
<1> QED
  BY <1>1, <1>2, <1>3, <1>4

LEMMA SavedAgrees ==
  ASSUME ConfigTypes, Agreement, NEW s \in Slots, Config!SaveAnswered(s)
  PROVE  Agreement'
<1> DEFINE c == ask[s].config
<1>1. /\ ask[s].kind = "save" /\ ask[s].result = "ok"
      /\ list' = Config!ListedWith(s) /\ editing' = NoConfig
      /\ loadState' = IF ask[s].editing = NoConfig THEN "loaded" ELSE loadState
      /\ AskChanges(s) /\ ask'[s].kind = "none" /\ UNCHANGED <<configs>>
  BY Forgets DEF Config!SaveAnswered, Config!Answers, Config!serviceVars
<1>2. /\ c \in ConfigIds /\ ask[s].content \in Contents
      /\ ask[s].editing \in {NoConfig, c}
      /\ configs[c] \in Contents => configs[c] = ask[s].content
      /\ \A t \in Slots \ {s} : ask[t].kind = "save" => ask[t].config # c
      /\ ask[s].editing = NoConfig => configs[c] \in Contents /\ list[c] = "none"
      /\ loadState = "loaded"
      /\ \A t \in Slots : ask[t].kind # "load"
  BY <1>1, SaveOf
<1>3. loadState' = "loaded"
  BY <1>1, <1>2
<1>4. list \in [ConfigIds -> Contents \cup {"none"}]
  BY DEF ConfigTypes
<1>5. /\ \A d \in ConfigIds \ {c} : list'[d] = list[d]
      /\ list'[c] = IF ask[s].editing = NoConfig \/ list[c] # "none" THEN ask[s].content
                    ELSE "none"
  BY <1>1, <1>2, <1>4 DEF Config!ListedWith, Config!Listed
<1>6. list'[c] # "none" => configs[c] # "none"
  <2>1. CASE ask[s].editing = NoConfig
    BY <1>2, <2>1, ContentsAssumption
  <2>2. CASE ask[s].editing # NoConfig /\ list[c] # "none"
    BY <1>2, <2>2 DEF Agreement, KnownInv
  <2> QED
    BY <1>5, <2>1, <2>2
<1>7. configs[c] \in Contents => list'[c] = configs[c]
  <2>1. CASE ask[s].editing = NoConfig \/ list[c] # "none"
    BY <1>2, <1>5, <2>1
  <2>2. CASE ask[s].editing # NoConfig /\ list[c] = "none"
    <3>1. SUFFICES ASSUME configs[c] \in Contents PROVE FALSE
      OBVIOUS
    <3>2. list[c] # configs[c]
      BY <2>2, <3>1, ContentsAssumption
    <3>3. PICK t \in Slots : SaveDone(t, c) /\ ask[t].editing = NoConfig
      BY <1>2, <2>2, <3>1, <3>2 DEF Agreement, ListInv
    <3> QED
      BY <1>2, <2>2, <3>3 DEF SaveDone
  <2> QED
    BY <2>1, <2>2
<1>8. list'[c] # "none" => configs[c] \in Contents \/ \E t \in Slots : RemoveDone(t, c)
  BY <1>2, <1>5 DEF Agreement, ListInv
<1> HIDE DEF c
<1> USE DEF AskChanges
<1>9. KnownInv'
  <2>1. \A d \in ConfigIds : list'[d] # "none" => configs[d] # "none"
    BY <1>5, <1>6 DEF Agreement, KnownInv
  <2> QED
    BY <1>1, <2>1 DEF Agreement, KnownInv
<1>10. LoadInv'
  BY <1>1, <1>2, <1>3 DEF LoadInv
<1>11. SaveInv'
  <2>1. \A t \in Slots : ask'[t].kind = "save" => t # s /\ ask'[t] = ask[t] /\ ask[t].config # c
    BY <1>1, <1>2
  <2>2. \A t \in Slots : ask'[t].kind = "save" =>
          /\ ask'[t].content \in Contents
          /\ ask'[t].editing \in {NoConfig, ask'[t].config}
          /\ ask'[t].editing = NoConfig /\ ask'[t].config # NoConfig => ask'[t].result = "ok"
          /\ ask'[t].result = "ok" =>
               /\ ask'[t].config \in ConfigIds
               /\ configs'[ask'[t].config] \in Contents =>
                    configs'[ask'[t].config] = ask'[t].content
    BY <1>1, <2>1 DEF Agreement, SaveInv
  <2>3. \A t, u \in Slots :
          /\ ask'[t].kind = "save" /\ ask'[u].kind = "save"
          /\ ask'[t].config = ask'[u].config /\ ask'[t].config # NoConfig
          => t = u
    BY <2>1 DEF Agreement, SaveInv
  <2>4. ASSUME NEW t \in Slots, NEW d \in ConfigIds, SaveDone(t, d)', ask'[t].editing = NoConfig
        PROVE  /\ configs'[d] \in Contents /\ list'[d] = "none"
               /\ \A u \in Slots : ~(ask'[u].kind = "remove" /\ ask'[u].config = d)
    <3>1. SaveDone(t, d) /\ ask[t].editing = NoConfig /\ d # c
      BY <2>1, <2>4 DEF SaveDone
    <3>2. /\ configs[d] \in Contents /\ list[d] = "none"
          /\ \A u \in Slots : ~(ask[u].kind = "remove" /\ ask[u].config = d)
      BY <3>1 DEF Agreement, SaveInv
    <3> QED
      BY <1>1, <1>5, <3>1, <3>2
  <2> QED
    BY <2>2, <2>3, <2>4 DEF SaveInv
<1>12. RemoveInv'
  BY <1>1, NoConfigAssumption DEF Agreement, RemoveInv
<1>13. ListInv'
  <2>1. \A t \in Slots, d \in ConfigIds :
          /\ RemoveDone(t, d) => RemoveDone(t, d)'
          /\ d # c /\ SaveDone(t, d) => SaveDone(t, d)' /\ ask'[t] = ask[t]
    BY <1>1 DEF SaveDone, RemoveDone, c
  <2>2. ASSUME NEW d \in ConfigIds
        PROVE  /\ list'[d] # "none" => configs'[d] \in Contents \/ \E t \in Slots : RemoveDone(t, d)'
               /\ configs'[d] \in Contents /\ list'[d] # configs'[d] =>
                    \E t \in Slots : SaveDone(t, d)'
                                     /\ (ask'[t].editing = NoConfig <=> list'[d] = "none")
    <3>1. CASE d = c
      BY <1>1, <1>7, <1>8, <2>1, <3>1
    <3>2. CASE d # c
      BY <1>1, <1>2, <1>5, <2>1, <3>2 DEF Agreement, ListInv
    <3> QED
      BY <3>1, <3>2
  <2> QED
    BY <1>1, <2>2 DEF ListInv
<1> QED
  BY <1>9, <1>10, <1>11, <1>12, <1>13 DEF Agreement

LEMMA DeletedAgrees ==
  ASSUME ConfigTypes, Agreement, NEW s \in Slots, Config!Deleted(s)
  PROVE  Agreement'
<1> DEFINE c == ask[s].config
<1>1. /\ ask[s].kind = "remove" /\ ask[s].result = "ok"
      /\ list' = [list EXCEPT ![c] = "none"]
      /\ editing' = IF ask[s].editing = c THEN NoConfig ELSE editing
      /\ AskChanges(s) /\ ask'[s].kind = "none" /\ UNCHANGED <<configs, loadState>>
  BY Forgets DEF Config!Deleted, Config!Answers, Config!serviceVars, Config!ListedWithout
<1>2. /\ c \in ConfigIds /\ configs[c] = "deleted" /\ configs[c] \notin Contents
      /\ editing = c => ask[s].editing = c
  BY <1>1, ContentsAssumption DEF Agreement, RemoveInv
<1>3. editing' \in {editing, NoConfig} /\ editing' # c
  BY <1>1, <1>2, NoConfigAssumption
<1>4. /\ list'[c] = "none"
      /\ \A d \in ConfigIds \ {c} : list'[d] = list[d]
  BY <1>1, <1>2 DEF ConfigTypes
<1>5. \A t \in Slots, d \in ConfigIds : d # c =>
        /\ RemoveDone(t, d) => RemoveDone(t, d)'
        /\ SaveDone(t, d) => SaveDone(t, d)' /\ ask'[t] = ask[t]
  BY <1>1 DEF SaveDone, RemoveDone, AskChanges
<1> HIDE DEF c
<1> USE DEF AskChanges
<1>6. KnownInv'
  <2>1. \A d \in ConfigIds : list'[d] # "none" => configs[d] # "none"
    BY <1>4 DEF Agreement, KnownInv
  <2> QED
    BY <1>1, <1>3, <2>1 DEF Agreement, KnownInv
<1>7. LoadInv'
  BY <1>1, <1>3 DEF Agreement, LoadInv, Config!StoredAs, Config!Exists
<1>8. SaveInv'
  <2>1. \A t \in Slots : ask'[t].kind \in {"save", "remove"} => t # s /\ ask'[t] = ask[t]
    BY <1>1
  <2>2. \A d \in ConfigIds : list[d] = "none" => list'[d] = "none"
    BY <1>4
  <2> QED
    BY <1>1, <2>1, <2>2 DEF Agreement, SaveInv, SaveDone
<1>9. RemoveInv'
  BY <1>1, <1>3, NoConfigAssumption DEF Agreement, RemoveInv
<1>10. ListInv'
  <2>1. ASSUME NEW d \in ConfigIds, loadState = "loaded"
        PROVE  /\ list'[d] # "none" => configs'[d] \in Contents \/ \E t \in Slots : RemoveDone(t, d)'
               /\ configs'[d] \in Contents /\ list'[d] # configs'[d] =>
                    \E t \in Slots : SaveDone(t, d)'
                                     /\ (ask'[t].editing = NoConfig <=> list'[d] = "none")
    <3>1. CASE d = c
      BY <1>1, <1>2, <1>4, <3>1
    <3>2. CASE d # c
      BY <1>1, <1>4, <1>5, <2>1, <3>2 DEF Agreement, ListInv
    <3> QED
      BY <3>1, <3>2
  <2>2. editing' # NoConfig =>
          configs'[editing'] \in Contents \/ \E t \in Slots : RemoveDone(t, editing)'
    BY <1>1, <1>3, <1>5 DEF Agreement, ListInv, ConfigTypes, RemoveDone
  <2> QED
    BY <1>1, <2>1, <2>2 DEF ListInv
<1> QED
  BY <1>6, <1>7, <1>8, <1>9, <1>10 DEF Agreement

(* The service answers the request for the list.                           *)
LEMMA LoadServedAgrees ==
  ASSUME ConfigTypes, Agreement, NEW s \in Slots, Config!ServeLoad(s),
         UNCHANGED <<loadState, list, editing>>
  PROVE  Agreement'
<1>1. /\ AskChanges(s) /\ AskServed /\ UNCHANGED <<configs, disturbed>>
      /\ ask[s].kind = "load"
      /\ ask'[s].result = "ok" => \A c \in ConfigIds : ask'[s].seen[c] = Config!StoredAs(c)
  BY LoadServed
<1> USE DEF AskChanges
<1>2. KnownInv'
  BY <1>1 DEF Agreement, KnownInv, AskServed
<1>3. LoadInv'
  BY <1>1 DEF Agreement, LoadInv, AskServed, Config!StoredAs, Config!Exists
<1>4. \A t \in Slots : ask'[t].kind \in {"save", "remove"} => ask'[t] = ask[t] /\ t # s
  BY <1>1 DEF AskServed
<1>5. SaveInv'
  BY <1>1, <1>4 DEF Agreement, SaveInv, SaveDone
<1>6. RemoveInv'
  BY <1>1, <1>4 DEF Agreement, RemoveInv
<1>7. \A t \in Slots, c \in ConfigIds :
        /\ RemoveDone(t, c) => RemoveDone(t, c)'
        /\ SaveDone(t, c) => SaveDone(t, c)' /\ ask'[t] = ask[t]
  BY <1>1 DEF SaveDone, RemoveDone
<1>8. ListInv'
  BY <1>1, <1>7 DEF Agreement, ListInv, ConfigTypes
<1> QED
  BY <1>2, <1>3, <1>5, <1>6, <1>8 DEF Agreement

(* A request that fails and changes nothing.                               *)
LEMMA FailedAgrees ==
  ASSUME ConfigTypes, Agreement, NEW s \in Slots, AskChanges(s), AskServed,
         ask[s].kind \in {"save", "remove"}, ask[s].result = "waiting",
         ask'[s].result = "error", ask'[s].config = ask[s].config,
         UNCHANGED <<configs, loadState, list, editing>>
  PROVE  Agreement'
<1> USE DEF AskChanges
<1>1. \A t \in Slots : /\ ask'[t].kind = ask[t].kind /\ ask'[t].config = ask[t].config
                       /\ ask'[t].editing = ask[t].editing /\ ask'[t].content = ask[t].content
                       /\ ask'[t].result # "error" => ask'[t] = ask[t]
  BY DEF AskServed
<1>2. KnownInv'
  BY <1>1 DEF Agreement, KnownInv
<1>3. LoadInv'
  BY <1>1 DEF Agreement, LoadInv, Config!StoredAs, Config!Exists
<1>4. \A t \in Slots, c \in ConfigIds :
        /\ RemoveDone(t, c)' <=> RemoveDone(t, c)
        /\ SaveDone(t, c)' <=> SaveDone(t, c)
  BY <1>1 DEF SaveDone, RemoveDone
<1>5. SaveInv'
  <2>1. \A t \in Slots : ask'[t].kind = "save" =>
          (ask'[t].editing = NoConfig /\ ask'[t].config # NoConfig => ask'[t].result = "ok")
    BY <1>1 DEF Agreement, SaveInv
  <2>2. \A t \in Slots : ask'[t].kind = "save" =>
          /\ ask'[t].content \in Contents
          /\ ask'[t].editing \in {NoConfig, ask'[t].config}
          /\ ask'[t].result = "ok" =>
               /\ ask'[t].config \in ConfigIds
               /\ (configs'[ask'[t].config] \in Contents =>
                     configs'[ask'[t].config] = ask'[t].content)
    BY <1>1 DEF Agreement, SaveInv
  <2> QED
    BY <1>1, <1>4, <2>1, <2>2 DEF Agreement, SaveInv
<1>6. RemoveInv'
  BY <1>1 DEF Agreement, RemoveInv
<1>7. ListInv'
  <2>1. \A t \in Slots : ask'[t].editing = ask[t].editing
    BY <1>1
  <2> QED
    BY <1>4, <2>1 DEF Agreement, ListInv, ConfigTypes
<1> QED
  BY <1>2, <1>3, <1>5, <1>6, <1>7 DEF Agreement

(* A save that is stored and answered: the configuration is new, and       *)
(* nothing knows of it, or it exists and this is the only save of it.      *)
LEMMA StoredAgrees ==
  ASSUME ConfigTypes, Agreement, NEW s \in Slots, AskChanges(s), AskServed,
         ask[s].kind = "save", ask[s].result = "waiting", ask'[s].result = "ok",
         NEW c \in ConfigIds, ask'[s].config = c,
         \/ ask[s].config = NoConfig /\ configs[c] = "none"
         \/ ask[s].config = c /\ configs[c] \in Contents,
         configs' = [configs EXCEPT ![c] = ask[s].content],
         UNCHANGED <<loadState, list, editing>>
  PROVE  Agreement'
<1> USE DEF AskChanges
<1>1. /\ ask'[s].kind = "save" /\ ask'[s].content = ask[s].content
      /\ ask'[s].editing = ask[s].editing
      /\ ask[s].content \in Contents /\ ask[s].content # "none"
      /\ ask[s].editing = ask[s].config
      /\ loadState = "loaded" /\ \A t \in Slots : ask[t].kind # "load"
  BY ContentsAssumption DEF AskServed, Agreement, SaveInv, LoadInv
<1>2. configs'[c] = ask[s].content /\ \A d \in ConfigIds \ {c} : configs'[d] = configs[d]
  BY DEF ConfigTypes
<1>3. \A t \in Slots \ {s} : ask[t].kind = "save" => ask[t].config # c
  BY NoConfigAssumption DEF Agreement, SaveInv, KnownInv
<1>4. \A t \in Slots : ~RemoveDone(t, c)
  BY ContentsAssumption DEF Agreement, RemoveInv, RemoveDone
<1>5. ask[s].config = NoConfig =>
        /\ list[c] = "none" /\ editing # c
        /\ \A t \in Slots : ~(ask[t].kind = "remove" /\ ask[t].config = c)
  BY NoConfigAssumption, ContentsAssumption DEF Agreement, KnownInv
<1>6. ask[s].config = c => list[c] # "none"
  <2>1. SUFFICES ASSUME ask[s].config = c, list[c] = "none" PROVE FALSE
    OBVIOUS
  <2>2. configs[c] \in Contents /\ configs[c] # "none"
    BY <2>1, NoConfigAssumption, ContentsAssumption
  <2>3. PICK t \in Slots : SaveDone(t, c)
    BY <1>1, <2>1, <2>2 DEF Agreement, ListInv
  <2> QED
    BY <1>3, <2>3 DEF SaveDone
<1>7. KnownInv'
  <2>1. \A d \in ConfigIds : configs[d] # "none" => configs'[d] # "none"
    BY <1>1, <1>2
  <2>2. configs'[c] # "none"
    BY <1>1, <1>2
  <2>3. \A t \in Slots : ask'[t].kind \in {"save", "remove"} /\ ask'[t].config # NoConfig =>
          configs'[ask'[t].config] # "none"
    BY <2>1, <2>2 DEF Agreement, KnownInv, ConfigTypes, AskRecord
  <2>4. editing # NoConfig => configs'[editing] # "none"
    BY <2>1 DEF Agreement, KnownInv, ConfigTypes
  <2> QED
    BY <2>1, <2>3, <2>4 DEF Agreement, KnownInv
<1>8. LoadInv'
  BY <1>1 DEF LoadInv, AskServed
<1>9. \A t \in Slots : t # s /\ ask[t].kind = "save" /\ ask[t].config \in ConfigIds =>
        configs'[ask[t].config] = configs[ask[t].config]
  BY <1>2, <1>3
<1>10. SaveInv'
  <2>1. \A t \in Slots : ask'[t].kind = "save" =>
          /\ ask'[t].content \in Contents
          /\ ask'[t].editing \in {NoConfig, ask'[t].config}
          /\ ask'[t].editing = NoConfig /\ ask'[t].config # NoConfig => ask'[t].result = "ok"
    BY <1>1 DEF Agreement, SaveInv
  <2>2. \A t \in Slots : ask'[t].kind = "save" /\ ask'[t].result = "ok" =>
          /\ ask'[t].config \in ConfigIds
          /\ configs'[ask'[t].config] \in Contents => configs'[ask'[t].config] = ask'[t].content
    BY <1>1, <1>2, <1>9 DEF Agreement, SaveInv
  <2>3. \A t, u \in Slots :
          /\ ask'[t].kind = "save" /\ ask'[u].kind = "save"
          /\ ask'[t].config = ask'[u].config /\ ask'[t].config # NoConfig
          => t = u
    BY <1>3 DEF Agreement, SaveInv
  <2>4. ASSUME NEW t \in Slots, NEW d \in ConfigIds, SaveDone(t, d)', ask'[t].editing = NoConfig
        PROVE  /\ configs'[d] \in Contents /\ list[d] = "none"
               /\ \A u \in Slots : ~(ask'[u].kind = "remove" /\ ask'[u].config = d)
    <3>1. CASE t = s
      <4>1. d = c /\ ask[s].config = NoConfig
        BY <1>1, <2>4, <3>1 DEF SaveDone
      <4> QED
        BY <1>1, <1>2, <1>5, <4>1
    <3>2. CASE t # s
      <4>1. SaveDone(t, d) /\ ask[t].editing = NoConfig /\ d # c
        BY <1>3, <2>4, <3>2 DEF SaveDone
      <4>2. /\ configs[d] \in Contents /\ list[d] = "none"
            /\ \A u \in Slots : ~(ask[u].kind = "remove" /\ ask[u].config = d)
        BY <4>1 DEF Agreement, SaveInv
      <4> QED
        BY <1>1, <1>2, <4>1, <4>2
    <3> QED
      BY <3>1, <3>2
  <2> QED
    BY <2>1, <2>2, <2>3, <2>4 DEF SaveInv
<1>11. RemoveInv'
  <2>1. \A t \in Slots : ask'[t].kind = "remove" => ask'[t] = ask[t]
    BY <1>1
  <2>2. \A t \in Slots : RemoveDone(t, ask[t].config) => ask[t].config # c
    BY <1>4
  <2> QED
    BY <1>2, <2>1, <2>2 DEF Agreement, RemoveInv, RemoveDone
<1>12. ListInv'
  <2>1. \A t \in Slots, d \in ConfigIds :
          /\ RemoveDone(t, d) => RemoveDone(t, d)'
          /\ SaveDone(t, d) => SaveDone(t, d)' /\ ask'[t] = ask[t]
    BY <1>1 DEF SaveDone, RemoveDone
  <2>2. SaveDone(s, c)' /\ (ask'[s].editing = NoConfig <=> list[c] = "none")
    BY <1>1, <1>5, <1>6, NoConfigAssumption DEF SaveDone
  <2>3. ASSUME NEW d \in ConfigIds
        PROVE  /\ list[d] # "none" => configs'[d] \in Contents \/ \E t \in Slots : RemoveDone(t, d)'
               /\ configs'[d] \in Contents /\ list[d] # configs'[d] =>
                    \E t \in Slots : SaveDone(t, d)'
                                     /\ (ask'[t].editing = NoConfig <=> list[d] = "none")
    <3>1. CASE d = c
      BY <1>1, <1>2, <2>2, <3>1
    <3>2. CASE d # c
      BY <1>1, <1>2, <2>1, <3>2 DEF Agreement, ListInv
    <3> QED
      BY <3>1, <3>2
  <2>4. editing # NoConfig =>
          configs'[editing] \in Contents \/ \E t \in Slots : RemoveDone(t, editing)'
    BY <1>1, <1>2, <2>1 DEF Agreement, ListInv, ConfigTypes
  <2> QED
    BY <2>3, <2>4 DEF ListInv
<1> QED
  BY <1>7, <1>8, <1>10, <1>11, <1>12 DEF Agreement

(* A configuration that is deleted and answered: no new one, and no other  *)
(* deletion of it was done before.                                         *)
LEMMA RemovedAgrees ==
  ASSUME ConfigTypes, Agreement, NEW s \in Slots, AskChanges(s), AskServed,
         ask[s].kind = "remove", ask[s].result = "waiting", ask'[s].result = "ok",
         ask'[s].config = ask[s].config, ask[s].config \in ConfigIds,
         configs[ask[s].config] \in Contents,
         configs' = [configs EXCEPT ![ask[s].config] = "deleted"],
         UNCHANGED <<loadState, list, editing>>
  PROVE  Agreement'
<1>c. PICK c \in ConfigIds : c = ask[s].config
  OBVIOUS
<1> USE DEF AskChanges
<1>1. /\ ask'[s].kind = "remove" /\ ask'[s].editing = ask[s].editing
      /\ loadState = "loaded" /\ \A t \in Slots : ask[t].kind # "load"
  BY DEF AskServed, Agreement, LoadInv
<1>2. /\ configs'[c] = "deleted" /\ configs'[c] \notin Contents
      /\ \A d \in ConfigIds \ {c} : configs'[d] = configs[d]
  BY <1>c, ContentsAssumption DEF ConfigTypes
<1>3. \A t \in Slots : ask'[t].kind = "save" => t # s /\ ask'[t] = ask[t]
  BY <1>1
<1>4. RemoveDone(s, c)'
  BY <1>1, <1>c DEF RemoveDone
<1>5. \A t \in Slots, d \in ConfigIds :
        /\ RemoveDone(t, d) => RemoveDone(t, d)'
        /\ SaveDone(t, d) => SaveDone(t, d)' /\ ask'[t] = ask[t]
  BY <1>1 DEF SaveDone, RemoveDone
<1>7. KnownInv'
  <2>1. \A d \in ConfigIds : configs[d] # "none" => configs'[d] # "none"
    BY <1>2
  <2>2. \A t \in Slots : ask'[t].kind = ask[t].kind /\ ask'[t].config = ask[t].config
    BY <1>1
  <2>3. \A t \in Slots : ask'[t].kind \in {"save", "remove"} /\ ask'[t].config # NoConfig =>
          configs'[ask'[t].config] # "none"
    BY <2>1, <2>2 DEF Agreement, KnownInv, ConfigTypes, AskRecord
  <2>4. editing # NoConfig => configs'[editing] # "none"
    BY <2>1 DEF Agreement, KnownInv, ConfigTypes
  <2> QED
    BY <2>1, <2>3, <2>4 DEF Agreement, KnownInv
<1>8. LoadInv'
  BY <1>1 DEF LoadInv, AskServed
<1>9. SaveInv'
  <2>1. \A t \in Slots : ask'[t].kind = "save" =>
          /\ ask'[t].content \in Contents
          /\ ask'[t].editing \in {NoConfig, ask'[t].config}
          /\ ask'[t].editing = NoConfig /\ ask'[t].config # NoConfig => ask'[t].result = "ok"
    BY <1>3 DEF Agreement, SaveInv
  <2>2. \A t \in Slots : ask'[t].kind = "save" /\ ask'[t].result = "ok" =>
          /\ ask'[t].config \in ConfigIds
          /\ configs'[ask'[t].config] \in Contents => configs'[ask'[t].config] = ask'[t].content
    BY <1>2, <1>3 DEF Agreement, SaveInv
  <2>3. \A t, u \in Slots :
          /\ ask'[t].kind = "save" /\ ask'[u].kind = "save"
          /\ ask'[t].config = ask'[u].config /\ ask'[t].config # NoConfig
          => t = u
    BY <1>3 DEF Agreement, SaveInv
  <2>4. ASSUME NEW t \in Slots, NEW d \in ConfigIds, SaveDone(t, d)', ask'[t].editing = NoConfig
        PROVE  /\ configs'[d] \in Contents /\ list[d] = "none"
               /\ \A u \in Slots : ~(ask'[u].kind = "remove" /\ ask'[u].config = d)
    <3>1. SaveDone(t, d) /\ ask[t].editing = NoConfig
      BY <1>3, <2>4 DEF SaveDone
    <3>2. /\ configs[d] \in Contents /\ list[d] = "none"
          /\ \A u \in Slots : ~(ask[u].kind = "remove" /\ ask[u].config = d)
      BY <3>1 DEF Agreement, SaveInv
    <3>3. d # c
      BY <1>c, <3>2
    <3>4. \A u \in Slots : ask'[u].kind = "remove" =>
            ask[u].kind = "remove" /\ ask'[u].config = ask[u].config
      BY <1>1
    <3> QED
      BY <1>2, <3>2, <3>3, <3>4
  <2> QED
    BY <2>1, <2>2, <2>3, <2>4 DEF SaveInv
<1>10. RemoveInv'
  <2>1. \A t \in Slots : ask'[t].kind = "remove" =>
          /\ ask[t].kind = "remove" /\ ask'[t].config = ask[t].config
          /\ ask'[t].editing = ask[t].editing
          /\ ask'[t].result = "ok" => t = s \/ ask[t].result = "ok"
    BY <1>1
  <2>2. \A d \in ConfigIds : configs[d] = "deleted" => configs'[d] = "deleted"
    BY <1>2
  <2>3. configs'[ask[s].config] = "deleted"
    BY <1>c, <1>2
  <2> QED
    BY <2>1, <2>2, <2>3 DEF Agreement, RemoveInv
<1>11. ListInv'
  <2>1. ASSUME NEW d \in ConfigIds
        PROVE  /\ list[d] # "none" => configs'[d] \in Contents \/ \E t \in Slots : RemoveDone(t, d)'
               /\ configs'[d] \in Contents /\ list[d] # configs'[d] =>
                    \E t \in Slots : SaveDone(t, d)'
                                     /\ (ask'[t].editing = NoConfig <=> list[d] = "none")
    <3>1. CASE d = c
      BY <1>2, <1>4, <3>1
    <3>2. CASE d # c
      BY <1>1, <1>2, <1>5, <3>2 DEF Agreement, ListInv
    <3> QED
      BY <3>1, <3>2
  <2>2. editing # NoConfig =>
          configs'[editing] \in Contents \/ \E t \in Slots : RemoveDone(t, editing)'
    BY <1>2, <1>4, <1>5 DEF Agreement, ListInv, ConfigTypes
  <2> QED
    BY <2>1, <2>2 DEF ListInv
<1> QED
  BY <1>7, <1>8, <1>9, <1>10, <1>11 DEF Agreement

(* Whatever the service does.                                              *)
LEMMA ServeKeepsStored ==
  ASSUME ConfigTypes, StoredInv, Config!ServePage
  PROVE  StoredInv'
<1>1. SUFFICES ASSUME ~disturbed' PROVE Agreement'
  BY DEF StoredInv
<1>2. UNCHANGED <<loadState, list, editing>>
  BY DEF Config!ServePage, Config!pageVars, Config!listVars, Config!formVars
<1>3. PICK s \in Slots :
        \/ Config!ServeLoad(s)
        \/ Config!ServeSave(s)
        \/ Config!ServeRemove(s)
        \/ UNCHANGED <<configs, ask, disturbed>>
  BY DEF Config!ServePage
<1>4. CASE Config!ServeLoad(s)
  <2>1. ~disturbed
    BY <1>1, <1>4, LoadServed
  <2> QED
    BY <1>2, <1>4, <2>1, LoadServedAgrees DEF StoredInv
<1>5. CASE Config!ServeSave(s)
  <2>1. SaveEffect(s)
    BY <1>5, SaveServed
  <2>2. Agreement /\ AskChanges(s) /\ AskServed /\ ask[s].kind = "save" /\ ask[s].result = "waiting"
    BY <1>1, <2>1 DEF SaveEffect, StoredInv, ConfigTypes
  <2>3. CASE /\ ask'[s].result = "error" /\ UNCHANGED configs /\ ask'[s].config = ask[s].config
    BY <1>2, <2>2, <2>3, FailedAgrees
  <2>4. ASSUME NEW c \in ConfigIds, ask'[s].result = "ok", ask'[s].config = c,
               \/ ask[s].config = NoConfig /\ configs[c] = "none"
               \/ ask[s].config = c /\ configs[c] \in Contents,
               configs' = [configs EXCEPT ![c] = ask[s].content]
        PROVE  Agreement'
    BY <1>2, <2>2, <2>4, StoredAgrees
  <2> QED
    BY <1>1, <2>1, <2>3, <2>4 DEF SaveEffect
<1>6. CASE Config!ServeRemove(s)
  <2>1. /\ AskChanges(s) /\ AskServed
        /\ ask[s].kind = "remove" /\ ask[s].result = "waiting"
        /\ ask'[s].config = ask[s].config
        /\ disturbed => disturbed'
        /\ \/ ask'[s].result = "error" /\ UNCHANGED configs
           \/ /\ ask'[s].result = "ok"
              /\ ask[s].config \in ConfigIds /\ configs[ask[s].config] \in Contents
              /\ configs' = [configs EXCEPT ![ask[s].config] = "deleted"]
    BY <1>1, <1>6, RemoveServed
  <2>2. Agreement
    BY <1>1, <2>1 DEF StoredInv
  <2>3. CASE ask'[s].result = "error" /\ UNCHANGED configs
    BY <1>2, <2>1, <2>2, <2>3, FailedAgrees
  <2>4. CASE /\ ask'[s].result = "ok"
             /\ ask[s].config \in ConfigIds /\ configs[ask[s].config] \in Contents
             /\ configs' = [configs EXCEPT ![ask[s].config] = "deleted"]
    BY <1>2, <2>1, <2>2, <2>4, RemovedAgrees
  <2> QED
    BY <2>1, <2>3, <2>4
<1>7. CASE UNCHANGED <<configs, ask, disturbed>>
  BY <1>1, <1>2, <1>7, CancelAgrees DEF StoredInv
<1> QED
  BY <1>3, <1>4, <1>5, <1>6, <1>7

ConfigInv == ConfigTypes /\ BusyInv /\ StoredInv

(* The page mounts, and has only its request for the list.                 *)
LEMMA ConfigInitially == Config!Init => ConfigInv
<1> SUFFICES ASSUME Config!Init PROVE ConfigInv
  OBVIOUS
<1>1. PICK s \in Slots :
        ask = [t \in Slots |->
                 IF t = s THEN [Config!NoAsk EXCEPT !.kind = "load", !.result = "waiting"]
                 ELSE Config!NoAsk]
  BY DEF Config!Init
<1> DEFINE a == [Config!NoAsk EXCEPT !.kind = "load", !.result = "waiting"]
<1>2. a \in AskRecord /\ a.kind = "load" /\ a.result = "waiting"
  BY DEF Config!NoAsk, AskRecord
<1>3. ask = [t \in Slots |-> IF t = s THEN a ELSE Config!NoAsk]
  BY <1>1
<1> HIDE DEF a
<1>4. /\ ask \in [Slots -> AskRecord] /\ ask[s].kind = "load" /\ ask[s].result = "waiting"
      /\ \A t \in Slots \ {s} : ask[t].kind = "none"
  BY <1>2, <1>3, NoAskIsAnAsk
<1>5. CallsInv(Slots) /\ \A t \in Slots : call[t].kind = "none"
  BY NoCallIsACall DEF Config!Init, CallsInv, DatasetStatus, Config!NoCall, Shell!NoCall
<1>6. /\ loadState = "loading" /\ editing = NoConfig /\ saveState = "idle"
      /\ deleteState = Config!Idle /\ draftState = Config!Idle /\ exportState = "idle"
      /\ disturbed = FALSE
      /\ list = [c \in ConfigIds |-> "none"]
      /\ configs \in [ConfigIds -> Contents \cup {"none"}]
  BY DEF Config!Init
<1>7. ConfigTypes
  BY <1>4, <1>5, <1>6 DEF ConfigTypes
<1>8. BusyInv
  BY <1>4, <1>5, <1>6, ConfigLabels DEF BusyInv, Config!BusyIsAwaited
<1>9. Agreement
  BY <1>4, <1>6 DEF Agreement, KnownInv, LoadInv, SaveInv, RemoveInv, ListInv, SaveDone
<1> QED
  BY <1>7, <1>8, <1>9 DEF ConfigInv, StoredInv

LEMMA FormKeepsStored ==
  ASSUME ConfigTypes, StoredInv, FormMoves
  PROVE  StoredInv'
<1>1. SUFFICES ASSUME ~disturbed' PROVE Agreement'
  BY DEF StoredInv
<1>2. ASSUME NEW c \in ConfigIds, Config!HandleEdit(c) PROVE Agreement'
  <2>1. ~disturbed
    BY <1>1, <1>2 DEF Config!HandleEdit
  <2> QED
    BY <1>1, <1>2, <2>1, EditAgrees DEF StoredInv
<1>3. ASSUME \/ Config!CancelEdit \/ Config!SubmitInvalid
             \/ \E c \in ConfigIds : Config!RequestDelete(c) \/ Config!CancelDelete(c)
      PROVE  Agreement'
  <2>1. /\ UNCHANGED <<ask, configs, loadState, list, disturbed>>
        /\ editing' \in {editing, NoConfig}
    BY <1>3 DEF Config!CancelEdit, Config!SubmitInvalid, Config!RequestDelete,
       Config!CancelDelete, Config!serviceVars, Config!listVars, Config!formVars
  <2> QED
    BY <1>1, <2>1, CancelAgrees DEF StoredInv
<1> QED
  BY <1>2, <1>3 DEF FormMoves

LEMMA AnswersKeepStored ==
  ASSUME ConfigTypes, BusyInv, StoredInv, NEW s \in Slots, ConfigAnswers(s)
  PROVE  StoredInv'
<1>1. SUFFICES ASSUME ~disturbed' PROVE Agreement'
  BY DEF StoredInv
<1>2. ~disturbed
  BY <1>1 DEF ConfigAnswers, Config!ConfigsLoaded, Config!SaveAnswered, Config!SaveRefused,
     Config!Deleted, Config!DeleteRefused
<1>3. Agreement
  BY <1>2 DEF StoredInv
<1>4. CASE Config!SaveRefused(s) \/ Config!DeleteRefused(s)
  <2>1. /\ ask[s].result = "error" /\ Config!Forget(s)
        /\ UNCHANGED <<configs, loadState, list, editing>>
    BY <1>4 DEF Config!SaveRefused, Config!DeleteRefused, Config!Answers, Config!serviceVars,
       Config!listVars, Config!formVars
  <2> QED
    BY <1>3, <2>1, Forgets, QuietAgrees
<1> QED
  BY <1>1, <1>3, <1>4, LoadedAgrees, SavedAgrees, DeletedAgrees DEF ConfigAnswers

LEMMA ConfigKeeps ==
  ASSUME ConfigInv, Config!Next
  PROVE  ConfigInv'
<1> USE DEF ConfigInv
<1>1. CASE Config!ServePage
  BY <1>1, ServeKeepsTypes, ServeKeepsStored
<1>2. CASE FormMoves
  BY <1>2, FormKeepsTypes, FormKeepsStored
<1>3. ASSUME NEW s \in Slots, NEW content \in Contents, Config!SubmitValid(s, content)
      PROVE  ConfigInv'
  <2>1. ~disturbed' => ~disturbed
    BY <1>3 DEF Config!SubmitValid
  <2> QED
    BY <1>3, <2>1, SubmitKeepsTypes, SubmitAgrees DEF StoredInv
<1>4. ASSUME NEW s \in Slots, NEW c \in ConfigIds, Config!ConfirmDelete(s, c)
      PROVE  ConfigInv'
  <2>1. disturbed' = disturbed
    BY <1>4 DEF Config!ConfirmDelete
  <2> QED
    BY <1>4, <2>1, ConfirmKeepsTypes, ConfirmAgrees DEF StoredInv
<1>5. ASSUME NEW s \in Slots, ConfigAnswers(s) PROVE ConfigInv'
  BY <1>5, AnswersKeepTypes, AnswersKeepStored
<1>6. ASSUME NEW s \in Slots, PanelMoves(s) PROVE ConfigInv'
  <2>1. PanelChanges(s)
    BY <1>6, PanelStep
  <2>2. Agreement => Agreement'
    BY <2>1, QuietAgrees DEF PanelChanges
  <2>3. disturbed' = disturbed
    BY <2>1 DEF PanelChanges
  <2> QED
    BY <1>6, <2>2, <2>3, PanelKeepsTypes DEF StoredInv
<1> QED
  BY <1>1, <1>2, <1>3, <1>4, <1>5, <1>6
     DEF Config!Next, FormMoves, ConfigAnswers, PanelMoves

(* Nothing under way for configurations: the list has been loaded, and     *)
(* what answers could still change is settled.                             *)
LEMMA AgreementShows == ConfigInv => Config!ShownConfigsAreStored
<1> SUFFICES ASSUME ConfigInv, ~disturbed, \A s \in Slots : ask[s].kind \in {"none", "draft"}
             PROVE  /\ \A c \in ConfigIds : Config!Shown(c) = Config!StoredAs(c)
                    /\ editing # NoConfig => Config!Exists(editing)
  BY DEF Config!ShownConfigsAreStored
<1>1. /\ \A s \in Slots : ask[s].kind \notin {"load", "save", "remove"}
      /\ \A s \in Slots, c \in ConfigIds : ~SaveDone(s, c) /\ ~RemoveDone(s, c)
  BY DEF SaveDone, RemoveDone
<1>2. loadState = "loaded"
  BY <1>1 DEF ConfigInv, StoredInv, Agreement, LoadInv, BusyInv, Config!BusyIsAwaited
<1>3. \A c \in ConfigIds : /\ list[c] # "none" => configs[c] \in Contents
                           /\ configs[c] \in Contents => list[c] = configs[c]
  BY <1>1, <1>2 DEF ConfigInv, StoredInv, Agreement, ListInv
<1>4. \A c \in ConfigIds : Config!Shown(c) = Config!StoredAs(c)
  BY <1>2, <1>3, ContentsAssumption
     DEF Config!Shown, Config!StoredAs, Config!Listed, Config!Exists
<1>5. editing # NoConfig => Config!Exists(editing)
  BY <1>1 DEF ConfigInv, ConfigTypes, StoredInv, Agreement, ListInv, Config!Exists
<1> QED
  BY <1>4, <1>5

-----------------------------------------------------------------------------
(* The pages: the one shown keeps its invariant, until the user logs out.  *)
PagesInv ==
  /\ route = "history" => HistoryInv /\ RefreshInv
  /\ route = "shell" => ShellInv
  /\ route = "configs" => ConfigInv

THEOREM PagesInvariant == PagesSpec => []PagesInv
<1>0. route = "history" /\ History!Init => PagesInv
  BY HistoryInitially, RefreshInitially DEF PagesInv
<1>1. PagesInit => PagesInv
  <2> SUFFICES ASSUME PagesInit PROVE PagesInv
    OBVIOUS
  <2>1. CASE route = "history"
    BY <1>0, <2>1 DEF PagesInit
  <2>2. CASE route = "shell"
    <3>1. Shell!Init
      BY <2>2 DEF PagesInit
    <3> QED
      BY <2>2, <3>1, ShellInitially DEF PagesInv
  <2>3. CASE route = "configs"
    <3>1. Config!Init
      BY <2>3 DEF PagesInit
    <3> QED
      BY <2>3, <3>1, ConfigInitially DEF PagesInv
  <2> QED
    BY <2>1, <2>2, <2>3 DEF PagesInv
<1>2. PagesInv /\ [PagesNext]_pagesVars => PagesInv' \/ (route = "history" /\ History!Init)'
  <2> SUFFICES ASSUME PagesInv, [PagesNext]_pagesVars
               PROVE  PagesInv' \/ (route = "history" /\ History!Init)'
    OBVIOUS
  <2>1. PageStep \/ UNCHANGED pagesVars => route' = route
    BY DEF PageStep, OnQualityPage, pagesVars
  <2>2. ASSUME UNCHANGED pagesVars PROVE PagesInv'
    <3>1. UNCHANGED HistoryInv /\ UNCHANGED RefreshInv
      BY <2>2 DEF pagesVars, callVars, historyVars, HistoryInv, CallsInv,
         History!BusyCardsHaveHandlers, RefreshInv
    <3>2. UNCHANGED ShellInv
      BY <2>2 DEF pagesVars, callVars, shellVars, ShellInv, CallsInv,
         Shell!PreviewIsOfShownRun, Shell!RunningIsAwaited, Shell!Shows
    <3>3. UNCHANGED ConfigInv
      <4>1. UNCHANGED <<ask, call, status, configs, list, editing, disturbed, loadState,
                        saveState, deleteState, draftState, exportState>>
        BY <2>2 DEF pagesVars, callVars, configVars
      <4>2. UNCHANGED ConfigTypes /\ UNCHANGED BusyInv
        BY <4>1 DEF ConfigTypes, CallsInv, BusyInv, Config!BusyIsAwaited
      <4>3. UNCHANGED StoredInv
        BY <4>1 DEF StoredInv, Agreement, KnownInv, LoadInv, SaveInv, RemoveInv, ListInv,
           SaveDone, RemoveDone, Config!StoredAs, Config!Exists
      <4> QED
        BY <4>2, <4>3 DEF ConfigInv
    <3> QED
      BY <2>1, <2>2, <3>1, <3>2, <3>3 DEF PagesInv
  <2>3. CASE PageStep /\ route = "history" /\ History!Next
    BY <2>1, <2>3, HistoryKeeps, RefreshKeeps DEF PagesInv
  <2>4. CASE PageStep /\ route = "shell" /\ Shell!Next
    BY <2>1, <2>4, ShellKeeps DEF PagesInv
  <2>5. CASE PageStep /\ route = "configs" /\ Config!Next
    BY <2>1, <2>5, ConfigKeeps DEF PagesInv
  <2>6. CASE PageStep /\ route = "quality"
    BY <2>1, <2>6 DEF PagesInv
  <2>7. CASE LogOut
    BY <2>7 DEF LogOut, PagesInv
  <2>8. CASE LogIn
    BY <2>8 DEF LogIn, History!Init
  <2>9. CASE PageStep
    BY <2>3, <2>4, <2>5, <2>6, <2>9 DEF PageStep, OnQualityPage
  <2> QED
    BY <2>2, <2>7, <2>8, <2>9 DEF PagesNext
<1> QED
  BY <1>0, <1>1, <1>2, PTL DEF PagesSpec

(* A preview on the draft run page is of the run it shows.                 *)
THEOREM PreviewsAreOfTheirRun == PagesSpec => []PreviewIsOfShownRun
<1>1. PagesInv => PreviewIsOfShownRun
  BY DEF PagesInv, ShellInv, PreviewIsOfShownRun
<1> QED
  BY <1>1, PagesInvariant, PTL

(* No page is busy with no answer to come.                                 *)
THEOREM BusyEnds == PagesSpec => []BusyIsAwaited
<1>1. PagesInv => BusyIsAwaited
  BY DEF PagesInv, HistoryInv, ShellInv, ConfigInv, BusyInv, BusyIsAwaited
<1> QED
  BY <1>1, PagesInvariant, PTL

(* The list of configurations at rest is what is stored.                   *)
THEOREM ListAgreesWithStore == PagesSpec => []ShownConfigsAreStored
<1>1. PagesInv => ShownConfigsAreStored
  BY AgreementShows DEF PagesInv, ShownConfigsAreStored
<1> QED
  BY <1>1, PagesInvariant, PTL

(* The refresh of a handler shows the outcome the handler waited for.      *)
THEOREM RefreshesShowOutcomes == PagesSpec => OwnRefreshShowsOutcome
<1>1. PagesInv /\ [PagesNext]_pagesVars =>
        [route = "history" /\ route' = "history" => History!OwnRefreshStep]_pagesVars
  BY RefreshShows DEF PagesInv, PagesNext, PageStep, LogOut, LogIn, OnQualityPage
<1> QED
  BY <1>1, PagesInvariant, PTL DEF PagesSpec, OwnRefreshShowsOutcome
=============================================================================
