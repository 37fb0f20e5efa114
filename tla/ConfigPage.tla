------------------------------ MODULE ConfigPage ------------------------------
(***************************************************************************)
(* The handlers of BacktestConfigPage: the list of saved configurations,   *)
(* the form that creates or edits one, and the panel of the draft run made *)
(* from one.  The requests for configurations are `ask`; draft runs,       *)
(* datasets and downloads are requests of DatasetCalls.                    *)
(***************************************************************************)
EXTENDS DatasetCalls, Naturals

CONSTANTS
  ConfigIds,
  NoConfig,
  Contents,  \* what a configuration can hold: its name and range
  MaxMoves   \* bound: what the user does

VARIABLES
  configs,      \* the service's configurations: "none", "deleted" or a content
  ask,          \* the request in each slot that is about configurations
  loadState,    \* status of the list
  list,         \* the configurations of the list, "none" for others
  editing,      \* formState.editingConfigId
  invalid,      \* a validationMessage is shown
  saveState,    \* status
  deleteState,  \* status and configuration
  draftState,   \* status, and the run of the draft or what it is made from
  exportState,  \* status
  disturbed,    \* auxiliary: see Disturbs
  moves         \* auxiliary: how much the user did

formVars == <<editing, invalid, saveState>>
panelVars == <<draftState, exportState>>
listVars == <<loadState, list, deleteState>>
serviceVars == <<callVars, configs>>
pageVars == <<listVars, formVars, panelVars, moves>>
vars == <<serviceVars, ask, pageVars, disturbed>>

Idle == [status |-> "idle", of |-> NoConfig]
Of(s, x) == [status |-> s, of |-> x]

NoAsk == [kind |-> "none", config |-> NoConfig, content |-> "none", editing |-> NoConfig,
          seen |-> [c \in ConfigIds |-> "none"], result |-> "none"]

Exists(c) == c \in ConfigIds /\ configs[c] \in Contents
Listed(c) == loadState = "loaded" /\ list[c] # "none"
Underway(s) == call[s] # NoCall \/ ask[s] # NoAsk

TypeOK ==
  /\ CallsTypeOK
  /\ configs \in [ConfigIds -> Contents \cup {"none", "deleted"}]
  /\ ask \in [Slots -> [kind : {"none", "load", "save", "remove", "draft"},
                        config : ConfigIds \cup {NoConfig}, content : Contents \cup {"none"},
                        editing : ConfigIds \cup {NoConfig},
                        seen : [ConfigIds -> Contents \cup {"none"}],
                        result : {"none", "waiting", "ok", "error"}]]
  /\ loadState \in {"loading", "loaded", "error"}
  /\ list \in [ConfigIds -> Contents \cup {"none"}]
  /\ editing \in ConfigIds \cup {NoConfig}
  /\ invalid \in BOOLEAN
  /\ saveState \in {"idle", "saving", "error"}
  /\ deleteState \in {Idle, Of("error", NoConfig)}
                       \cup {Of(s, c) : s \in {"confirm", "deleting"}, c \in ConfigIds}
  /\ draftState \in {Idle, Of("error", NoConfig)} \cup {Of("creating", c) : c \in ConfigIds}
       \cup {Of(s, r) : s \in {"created", "running", "completed", "provider-limited"},
                        r \in created}
  /\ exportState \in {"idle", "downloading", "error"}
  /\ disturbed \in BOOLEAN
  /\ moves \in 0..MaxMoves

(* The page mounts, over any configurations, and asks for them.            *)
Init ==
  /\ created = {}
  /\ status = [r \in Runs |-> "none"]
  /\ call = [s \in Slots |-> NoCall]
  /\ configs \in [ConfigIds -> Contents \cup {"none"}]
  /\ \E s \in Slots :
       ask = [t \in Slots |-> IF t = s THEN [NoAsk EXCEPT !.kind = "load", !.result = "waiting"]
                              ELSE NoAsk]
  /\ loadState = "loading"
  /\ list = [c \in ConfigIds |-> "none"]
  /\ editing = NoConfig /\ invalid = FALSE /\ saveState = "idle"
  /\ deleteState = Idle /\ draftState = Idle /\ exportState = "idle"
  /\ disturbed = FALSE
  /\ moves = 0

Move == moves < MaxMoves /\ moves' = moves + 1

Asks(s, kind) == ask[s].kind = kind /\ ask[s].result = "waiting"
Answers(s, kind, result) == ask[s].kind = kind /\ ask[s].result = result
Send(s, request) ==
  /\ ~Underway(s)
  /\ ask' = [ask EXCEPT ![s] = [request EXCEPT !.result = "waiting"]]
Forget(s) == ask' = [ask EXCEPT ![s] = NoAsk]

-----------------------------------------------------------------------------
(* The service                                                             *)
Reply(s, result) == ask' = [ask EXCEPT ![s].result = result]

(* The request fails before the service acts, or is refused by it.         *)
Fails(s) == Reply(s, "error") /\ UNCHANGED <<configs, disturbed>>

(* The service has acted; the answer may be lost.                          *)
Acted(s) ==
  \/ Reply(s, "ok") /\ UNCHANGED disturbed
  \/ Reply(s, "error") /\ disturbed' = TRUE

ServeLoad(s) ==
  /\ Asks(s, "load")
  /\ \/ /\ ask' = [ask EXCEPT ![s].result = "ok",
             ![s].seen = [c \in ConfigIds |-> IF Exists(c) THEN configs[c] ELSE "none"]]
        /\ UNCHANGED <<configs, disturbed>>
     \/ Fails(s)

(* createBacktestConfig draws a new id, updateBacktestConfig refuses one   *)
(* that is gone.                                                           *)
ServeSave(s) ==
  /\ Asks(s, "save")
  /\ \/ Fails(s)
     \/ /\ ask[s].config = NoConfig
        /\ \E c \in ConfigIds :
             /\ configs[c] = "none"
             /\ configs' = [configs EXCEPT ![c] = ask[s].content]
             /\ \/ /\ ask' = [ask EXCEPT ![s].result = "ok", ![s].config = c]
                   /\ UNCHANGED disturbed
                \/ Reply(s, "error") /\ disturbed' = TRUE
     \/ /\ Exists(ask[s].config)
        /\ configs' = [configs EXCEPT ![ask[s].config] = ask[s].content]
        /\ Acted(s)

ServeRemove(s) ==
  /\ Asks(s, "remove")
  /\ \/ Fails(s)
     \/ /\ Exists(ask[s].config)
        /\ configs' = [configs EXCEPT ![ask[s].config] = "deleted"]
        /\ Acted(s)

(* createDraftFromBacktestConfig reads the configuration first.            *)
ServeDraft(s) == ServeCreate(s) /\ (created' = created \/ Exists(ask[s].config))

ServePage ==
  /\ \E s \in Slots :
       \/ ServeLoad(s) /\ UNCHANGED callVars
       \/ ServeSave(s) /\ UNCHANGED callVars
       \/ ServeRemove(s) /\ UNCHANGED callVars
       \/ (ServeDraft(s) \/ ServeRun(s) \/ ServeExport(s)) /\ UNCHANGED <<configs, ask, disturbed>>
  /\ UNCHANGED pageVars

-----------------------------------------------------------------------------
(* The effect's answer.                                                    *)
ConfigsLoaded(s) ==
  /\ \/ Answers(s, "load", "ok") /\ loadState' = "loaded" /\ list' = ask[s].seen
        /\ UNCHANGED disturbed
     \/ Answers(s, "load", "error") /\ loadState' = "error" /\ disturbed' = TRUE
        /\ list' = [c \in ConfigIds |-> "none"]
  /\ Forget(s)
  /\ UNCHANGED <<serviceVars, deleteState, formVars, panelVars, moves>>

-----------------------------------------------------------------------------
(* The form                                                                *)
HandleEdit(c) ==
  /\ Listed(c) /\ Move
  /\ editing' = c /\ invalid' = FALSE /\ saveState' = "idle"
  /\ disturbed' = (disturbed \/ \E s \in Slots : ask[s].kind = "remove" /\ ask[s].config = c)
  /\ UNCHANGED <<serviceVars, ask, listVars, panelVars>>

CancelEdit ==
  /\ editing # NoConfig /\ Move
  /\ editing' = NoConfig /\ invalid' = FALSE
  /\ UNCHANGED <<serviceVars, ask, listVars, saveState, panelVars, disturbed>>

(* handleSubmit: validateForm refuses the form.                            *)
SubmitInvalid ==
  /\ saveState # "saving" /\ Move
  /\ invalid' = TRUE
  /\ UNCHANGED <<serviceVars, ask, listVars, editing, saveState, panelVars, disturbed>>

(* Saves whose answers may find the list changed by what they do not know. *)
Overtaken(c) ==
  \/ loadState = "loading"
  \/ \E s \in Slots : ask[s].kind = "save" /\ ask[s].config = c /\ c # NoConfig

(* handleSubmit up to its await.                                           *)
SubmitValid(s, content) ==
  /\ saveState # "saving" /\ Move
  /\ Send(s, [NoAsk EXCEPT !.kind = "save", !.config = editing, !.content = content,
                           !.editing = editing])
  /\ invalid' = FALSE /\ saveState' = "saving"
  /\ disturbed' = (disturbed \/ Overtaken(editing))
  /\ UNCHANGED <<serviceVars, listVars, editing, panelVars>>

(* appendConfig and replaceConfig                                          *)
ListedWith(s) ==
  IF ask[s].editing = NoConfig
    THEN IF loadState = "loaded" THEN [list EXCEPT ![ask[s].config] = ask[s].content]
         ELSE [c \in ConfigIds |-> IF c = ask[s].config THEN ask[s].content ELSE "none"]
  ELSE IF Listed(ask[s].config) THEN [list EXCEPT ![ask[s].config] = ask[s].content]
  ELSE list

(* The form is reset, whatever it holds by then.                           *)
SaveAnswered(s) ==
  /\ Answers(s, "save", "ok")
  /\ list' = ListedWith(s)
  /\ loadState' = IF ask[s].editing = NoConfig THEN "loaded" ELSE loadState
  /\ editing' = NoConfig /\ saveState' = "idle"
  /\ Forget(s)
  /\ UNCHANGED <<serviceVars, deleteState, invalid, panelVars, disturbed, moves>>

SaveRefused(s) ==
  /\ Answers(s, "save", "error")
  /\ saveState' = "error"
  /\ Forget(s)
  /\ UNCHANGED <<serviceVars, listVars, editing, invalid, panelVars, disturbed, moves>>

-----------------------------------------------------------------------------
(* The buttons of a card: "Delete" asks for a confirmation first.          *)
RequestDelete(c) ==
  /\ Listed(c) /\ deleteState \notin {Of("deleting", c), Of("confirm", c)} /\ Move
  /\ deleteState' = Of("confirm", c)
  /\ UNCHANGED <<serviceVars, ask, loadState, list, formVars, panelVars, disturbed>>

CancelDelete(c) ==
  /\ Listed(c) /\ deleteState = Of("confirm", c) /\ Move
  /\ deleteState' = Idle
  /\ UNCHANGED <<serviceVars, ask, loadState, list, formVars, panelVars, disturbed>>

(* confirmDelete up to its await; it keeps the form of this rendering.     *)
ConfirmDelete(s, c) ==
  /\ Listed(c) /\ deleteState = Of("confirm", c) /\ Move
  /\ Send(s, [NoAsk EXCEPT !.kind = "remove", !.config = c, !.editing = editing, !.seen = list])
  /\ deleteState' = Of("deleting", c)
  /\ UNCHANGED <<serviceVars, loadState, list, formVars, panelVars, disturbed>>

(* Wrong variant: the card is taken from the list of the rendering in      *)
(* which the button was pressed.                                           *)
ListedWithoutOld(s) == [ask[s].seen EXCEPT ![ask[s].config] = "none"]

(* removeConfigFromList takes the list as it is by then.                   *)
ListedWithout(s) == [list EXCEPT ![ask[s].config] = "none"]

Deleted(s) ==
  /\ Answers(s, "remove", "ok")
  /\ list' = ListedWithout(s)
  /\ IF ask[s].editing = ask[s].config
       THEN editing' = NoConfig /\ invalid' = FALSE
       ELSE UNCHANGED <<editing, invalid>>
  /\ deleteState' = Idle
  /\ Forget(s)
  /\ UNCHANGED <<serviceVars, loadState, saveState, panelVars, disturbed, moves>>

DeleteRefused(s) ==
  /\ Answers(s, "remove", "error")
  /\ deleteState' = Of("error", NoConfig)
  /\ Forget(s)
  /\ UNCHANGED <<serviceVars, loadState, list, formVars, panelVars, disturbed, moves>>

-----------------------------------------------------------------------------
(* The draft panel                                                         *)
Panel(s) ==
  /\ ~Underway(s) /\ Move
  /\ UNCHANGED <<created, status, configs, listVars, formVars, disturbed>>

HandleCreateDraft(s, c) ==
  /\ Listed(c) /\ draftState # Of("creating", c) /\ Panel(s)
  /\ call' = [call EXCEPT ![s] = Waiting("create", NoRun)]
  /\ ask' = [ask EXCEPT ![s] = [NoAsk EXCEPT !.kind = "draft", !.config = c]]
  /\ draftState' = Of("creating", c)
  /\ exportState' = "idle"

HandleRunDataset(s, r) ==
  /\ draftState = Of("created", r) /\ Panel(s)
  /\ call' = [call EXCEPT ![s] = Waiting("run", r)]
  /\ draftState' = Of("running", r)
  /\ exportState' = "idle"
  /\ UNCHANGED ask

HandleDownload(s, r) ==
  /\ draftState = Of("completed", r) /\ exportState # "downloading" /\ Panel(s)
  /\ call' = [call EXCEPT ![s] = Waiting("export", r)]
  /\ exportState' = "downloading"
  /\ UNCHANGED <<ask, draftState>>

Done(s) ==
  /\ call' = [call EXCEPT ![s] = NoCall]
  /\ Forget(s)
  /\ UNCHANGED <<created, status, configs, listVars, formVars, disturbed, moves>>

DraftAnswered(s) ==
  /\ Settled(s, {"create"}) /\ Done(s)
  /\ draftState' = IF call[s].result = "ok" THEN Of("created", call[s].run)
                   ELSE Of("error", NoConfig)
  /\ UNCHANGED exportState

DatasetAnswered(s) ==
  /\ Settled(s, {"run"}) /\ Done(s)
  /\ draftState' = CASE call[s].result = "ok"      -> Of("completed", call[s].run)
                     [] call[s].result = "limited" -> Of("provider-limited", call[s].run)
                     [] call[s].result = "error"   -> Of("error", NoConfig)
  /\ UNCHANGED exportState

DownloadAnswered(s) ==
  /\ Settled(s, {"export"}) /\ Done(s)
  /\ exportState' = IF call[s].result = "ok" THEN "idle" ELSE "error"
  /\ UNCHANGED draftState

Next ==
  \/ ServePage
  \/ CancelEdit \/ SubmitInvalid
  \/ \E c \in ConfigIds : HandleEdit(c) \/ RequestDelete(c) \/ CancelDelete(c)
  \/ \E s \in Slots :
       \/ ConfigsLoaded(s) \/ SaveAnswered(s) \/ SaveRefused(s)
       \/ Deleted(s) \/ DeleteRefused(s)
       \/ DraftAnswered(s) \/ DatasetAnswered(s) \/ DownloadAnswered(s)
       \/ \E content \in Contents : SubmitValid(s, content)
       \/ \E c \in ConfigIds : ConfirmDelete(s, c) \/ HandleCreateDraft(s, c)
       \/ \E r \in Runs : HandleRunDataset(s, r) \/ HandleDownload(s, r)

Spec == Init /\ [][Next]_vars

-----------------------------------------------------------------------------
(* A busy label of the page ("Saving...", "Deleting...", a draft being     *)
(* created or its dataset running, a download) has its request under way,  *)
(* although later handlers write the same states.                          *)
BusyIsAwaited ==
  /\ loadState = "loading" => \E s \in Slots : ask[s].kind = "load"
  /\ saveState = "saving" => \E s \in Slots : ask[s].kind = "save"
  /\ \A c \in ConfigIds :
       /\ deleteState = Of("deleting", c) =>
            \E s \in Slots : ask[s].kind = "remove" /\ ask[s].config = c
       /\ draftState = Of("creating", c) =>
            \E s \in Slots : ask[s].kind = "draft" /\ ask[s].config = c
  /\ \A r \in Runs : draftState = Of("running", r) =>
       \E s \in Slots : call[s].kind = "run" /\ call[s].run = r
  /\ exportState = "downloading" => \E s \in Slots : call[s].kind = "export"

(* Once no request for configurations is under way, the list is what the   *)
(* service has stored, whatever overlapped and in whatever order it was    *)
(* answered, and the form edits no configuration that is gone.  `disturbed`*)
(* names the exceptions the code has: the list could not be loaded, an     *)
(* answer was lost after the service had acted, a configuration was saved  *)
(* while the list was loading or saved twice at a time, or was opened in   *)
(* the form while it was being deleted.                                    *)
Shown(c) == IF Listed(c) THEN list[c] ELSE "none"
StoredAs(c) == IF Exists(c) THEN configs[c] ELSE "none"

ShownConfigsAreStored ==
  ~disturbed /\ (\A s \in Slots : ask[s].kind \in {"none", "draft"}) =>
    /\ \A c \in ConfigIds : Shown(c) = StoredAs(c)
    /\ editing # NoConfig => Exists(editing)
=============================================================================
