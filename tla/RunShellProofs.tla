----------------------------- MODULE RunShellProofs -----------------------------
(***************************************************************************)
(* ShellInv is inductive for every number of requests, configurations and  *)
(* days; the numbering and ordering of the run history follow from it.     *)
(***************************************************************************)
EXTENDS RunShell, TLAPS

(* Updating a row keeps it a row.                                          *)
LEMMA UpdatedType ==
  ASSUME TypeOK, RequestsAreAboutConfigs, NEW q \in Requests,
         pc[q] = "write", op[q] = "update", configs[target[q]] # NoConfig
  PROVE  Updated(q) \in Config
<1>1. target[q] \in ConfigIds /\ seen[q] \in Config /\ wanted[q] \in Config
  BY DEF RequestsAreAboutConfigs
<1>2. configs[target[q]] \in Config
  BY <1>1 DEF TypeOK
<1> QED
  BY <1>1, <1>2 DEF Updated, Config

(* A patched row is a row.                                                 *)
LEMMA MergedType ==
  ASSUME NEW row \in Config, NEW patch \in Patches
  PROVE  Merged(row, patch) \in Config
BY DEF Merged, Patches, Config

(* Taking a configuration away leaves runs of the same identity.           *)
LEMMA UnlinkedType ==
  ASSUME TypeOK, NEW c \in ConfigIds
  PROVE  Unlinked(c) \subseteq Run
BY DEF TypeOK, Unlinked, Run

(* Who is who among the runs does not change with their configurations.    *)
LEMMA UnlinkedRuns ==
  ASSUME TypeOK, NEW c \in ConfigIds
  PROVE  /\ \A x \in Unlinked(c) : \E y \in runs :
              /\ x.id = y.id /\ x.start = y.start /\ x.end = y.end /\ x.created = y.created
              /\ x.config = IF y.config = c THEN NoConfig ELSE y.config
              /\ x = [y EXCEPT !.config = x.config]
         /\ \A y \in runs : \E x \in Unlinked(c) : x.id = y.id
<1> DEFINE Free(y) == [y EXCEPT !.config = IF y.config = c THEN NoConfig ELSE y.config]
<1>1. ASSUME NEW y \in runs
      PROVE  /\ Free(y).id = y.id /\ Free(y).start = y.start /\ Free(y).end = y.end
             /\ Free(y).created = y.created
             /\ Free(y).config = IF y.config = c THEN NoConfig ELSE y.config
             /\ Free(y) = [y EXCEPT !.config = Free(y).config]
  BY DEF TypeOK, Run
<1>2. Unlinked(c) = {Free(y) : y \in runs}
  BY DEF Unlinked
<1> HIDE DEF Free
<1> QED
  BY <1>1, <1>2

(* The declared types hold initially and are kept by every step.           *)
LEMMA InitType == Init => TypeOK
BY InitialConfigsAssumption DEF Init, TypeOK, Ops

(* Every step keeps the declared types.                                    *)
LEMMA NextType ==
  TypeOK /\ RequestsAreAboutConfigs /\ [Next]_vars => TypeOK'
<1> SUFFICES ASSUME TypeOK, RequestsAreAboutConfigs, [Next]_vars PROVE TypeOK'
  OBVIOUS
<1> USE DEF Answer, Continue, tables, locals, Ops
<1>1. CASE UNCHANGED vars
  BY <1>1 DEF vars, TypeOK
<1>2. ASSUME NEW q \in Requests, RequestStep(q) PROVE TypeOK'
  <2>1. CASE CreateConfig(q)
    BY <2>1 DEF CreateConfig, TypeOK
  <2>2. CASE RefreshConfig(q)
    BY <2>2 DEF RefreshConfig, TypeOK
  <2>3. CASE ReadForUpdate(q)
    <3>1. PICK c \in ConfigIds, patch \in Patches :
            /\ target' = [target EXCEPT ![q] = c]
            /\ IF configs[c] = NoConfig
                 THEN Answer(q, "404") /\ UNCHANGED <<seen, wanted>>
                 ELSE LET row == Merged(configs[c], patch) IN
                   /\ seen' = [seen EXCEPT ![q] = configs[c]]
                   /\ wanted' = [wanted EXCEPT ![q] = row]
                   /\ IF ValidTimeframe(row.start, row.end)
                        THEN Continue(q, "write") ELSE Answer(q, "500")
      BY <2>3 DEF ReadForUpdate
    <3>2. configs[c] # NoConfig =>
            configs[c] \in Config /\ Merged(configs[c], patch) \in Config
      BY MergedType DEF TypeOK
    <3> QED
      BY <2>3, <3>1, <3>2 DEF ReadForUpdate, TypeOK
  <2>4. CASE WriteUpdate(q)
    <3>1. configs[target[q]] # NoConfig => Updated(q) \in Config
      BY <2>4, UpdatedType DEF WriteUpdate
    <3> QED
      BY <2>4, <3>1 DEF WriteUpdate, TypeOK
  <2>5. CASE ReadForDelete(q)
    BY <2>5 DEF ReadForDelete, TypeOK
  <2>6. CASE WriteDelete(q)
    <3>1. target[q] \in ConfigIds
      BY <2>6 DEF WriteDelete, RequestsAreAboutConfigs
    <3>2. Unlinked(target[q]) \subseteq Run
      BY <3>1, UnlinkedType
    <3> QED
      BY <2>6, <3>2 DEF WriteDelete, TypeOK
  <2>7. CASE ReadForDraft(q)
    BY <2>7 DEF ReadForDraft, TypeOK
  <2>8. CASE AskForDraft(q)
    BY <2>8 DEF AskForDraft, TypeOK
  <2>9. CASE NextRunId(q)
    BY <2>9 DEF NextRunId, TypeOK, Run
  <2>10. CASE TakeStamp(q)
    BY <2>10 DEF TakeStamp, TypeOK
  <2>11. CASE InsertDraft(q)
    <3>1. wanted[q] \in Config \cup Timeframe
      BY <2>11 DEF InsertDraft, RequestsAreAboutConfigs, TypeOK
    <3>2. DraftRow(q) \in Run
      BY <3>1 DEF TypeOK, DraftRow, Run, Config, Timeframe
    <3> QED
      BY <2>11, <3>2 DEF InsertDraft, TypeOK
  <2> QED
    BY <1>2, <2>1, <2>2, <2>3, <2>4, <2>5, <2>6, <2>7, <2>8, <2>9, <2>10, <2>11
    DEF RequestStep
<1> QED
  BY <1>1, <1>2 DEF Next

-----------------------------------------------------------------------------
(* How a step may change the stored runs: not at all, by one deleted       *)
(* configuration, or by one run whose number is free.                      *)
LEMMA RunsChange ==
  ASSUME ShellInv, NEW q \in Requests, RequestStep(q)
  PROVE  \/ runs' = runs
         \/ /\ WriteDelete(q) /\ target[q] \in ConfigIds /\ runs' = Unlinked(target[q])
         \/ /\ InsertDraft(q) /\ pc[q] = "insert" /\ ~InsertFails(q)
            /\ runs' = runs \cup {DraftRow(q)} /\ UNCHANGED configs
<1>1. CASE WriteDelete(q)
  BY <1>1 DEF WriteDelete, ShellInv, RequestsAreAboutConfigs
<1>2. CASE InsertDraft(q)
  BY <1>2 DEF InsertDraft
<1>3. CASE ~WriteDelete(q) /\ ~InsertDraft(q)
  BY <1>3 DEF RequestStep, CreateConfig, RefreshConfig, ReadForUpdate, WriteUpdate,
     ReadForDelete, ReadForDraft, AskForDraft, NextRunId, TakeStamp, tables
<1> QED
  BY <1>1, <1>2, <1>3

(* A stored number stays stored.                                           *)
LEMMA IdsStay ==
  ASSUME ShellInv, NEW q \in Requests, RequestStep(q), NEW x \in runs
  PROVE  \E y \in runs' : y.id = x.id
<1>1. CASE runs' = Unlinked(target[q]) /\ target[q] \in ConfigIds
  BY <1>1, UnlinkedRuns DEF ShellInv
<1> QED
  BY <1>1, RunsChange

(* The new run's number is the first free one.                             *)
LEMMA InsertedIsNext ==
  ASSUME ShellInv, NEW q \in Requests, pc[q] = "insert", ~InsertFails(q)
  PROVE  \A x \in runs : x.id < number[q]
<1> SUFFICES ASSUME NEW x \in runs, ~(x.id < number[q]) PROVE FALSE
  OBVIOUS
<1>1. number[q] \in Nat /\ number[q] > 0 /\ x.id \in Nat
  BY DEF ShellInv, TypeOK, Run, NumbersFollowStoredRuns
<1>2. number[q] \in 1..x.id
  BY <1>1
<1>3. \E y \in runs : y.id = number[q]
  BY <1>2 DEF ShellInv, RunIdsAreGapless
<1> QED
  BY <1>3 DEF InsertFails

-----------------------------------------------------------------------------
(* Each part of ShellInv is kept by every request's step.                  *)

(* RequestsAreAboutConfigs: a request goes on with what it checked.        *)
LEMMA KeepsRequests ==
  ASSUME ShellInv, TypeOK', NEW q \in Requests, RequestStep(q)
  PROVE  RequestsAreAboutConfigs'
<1> USE DEF ShellInv, RequestsAreAboutConfigs, Answer, Continue, tables, locals
<1>1. CASE CreateConfig(q)
  BY <1>1 DEF CreateConfig, TypeOK
<1>2. CASE RefreshConfig(q)
  BY <1>2 DEF RefreshConfig, TypeOK
<1>3. CASE ReadForUpdate(q)
  <2>1. PICK c \in ConfigIds, patch \in Patches :
          /\ target' = [target EXCEPT ![q] = c]
          /\ IF configs[c] = NoConfig
               THEN Answer(q, "404") /\ UNCHANGED <<seen, wanted>>
               ELSE LET row == Merged(configs[c], patch) IN
                 /\ seen' = [seen EXCEPT ![q] = configs[c]]
                 /\ wanted' = [wanted EXCEPT ![q] = row]
                 /\ IF ValidTimeframe(row.start, row.end)
                      THEN Continue(q, "write") ELSE Answer(q, "500")
    BY <1>3 DEF ReadForUpdate
  <2>2. configs[c] # NoConfig =>
          configs[c] \in Config /\ Merged(configs[c], patch) \in Config
    BY MergedType DEF TypeOK
  <2> QED
    BY <1>3, <2>1, <2>2 DEF ReadForUpdate, TypeOK
<1>4. CASE WriteUpdate(q)
  BY <1>4 DEF WriteUpdate, TypeOK
<1>5. CASE ReadForDelete(q)
  BY <1>5 DEF ReadForDelete, TypeOK
<1>6. CASE WriteDelete(q)
  BY <1>6 DEF WriteDelete, TypeOK
<1>7. CASE ReadForDraft(q)
  BY <1>7 DEF ReadForDraft, TypeOK
<1>8. CASE AskForDraft(q)
  BY <1>8, NoConfigAssumption DEF AskForDraft, TypeOK
<1>9. CASE NextRunId(q)
  BY <1>9 DEF NextRunId, TypeOK
<1>10. CASE TakeStamp(q)
  BY <1>10 DEF TakeStamp, TypeOK
<1>11. CASE InsertDraft(q)
  BY <1>11 DEF InsertDraft, TypeOK
<1> QED
  BY <1>1, <1>2, <1>3, <1>4, <1>5, <1>6, <1>7, <1>8, <1>9, <1>10, <1>11 DEF RequestStep

(* A step other than NextRunId leaves the numbers, and lets nobody pass    *)
(* from before to after the reading of the number.                         *)
LEMMA NumberIsRead ==
  ASSUME TypeOK, NEW q \in Requests, RequestStep(q), ~NextRunId(q), NEW p \in Requests,
         pc'[p] \in {"stamp", "insert"}
  PROVE  number' = number /\ pc[p] \in {"stamp", "insert"}
BY DEF RequestStep, CreateConfig, RefreshConfig, ReadForUpdate, WriteUpdate, ReadForDelete,
   WriteDelete, ReadForDraft, AskForDraft, TakeStamp, InsertDraft,
   Answer, Continue, tables, locals, TypeOK

(* NumbersFollowStoredRuns: stored runs stay, so a number read stays next. *)
LEMMA KeepsNumbers ==
  ASSUME ShellInv, NEW q \in Requests, RequestStep(q)
  PROVE  NumbersFollowStoredRuns'
<1> SUFFICES ASSUME NEW p \in Requests, pc'[p] \in {"stamp", "insert"}
             PROVE  /\ number'[p] > 0
                    /\ \A n \in 1..(number'[p] - 1) : \E x \in runs' : x.id = n
  BY DEF NumbersFollowStoredRuns
<1> USE DEF ShellInv
<1>1. CASE ~NextRunId(q) \/ p # q
  <2>1. number'[p] = number[p] /\ pc[p] \in {"stamp", "insert"}
    BY <1>1, NumberIsRead DEF NextRunId, Continue, TypeOK
  <2>2. number[p] > 0 /\ \A n \in 1..(number[p] - 1) : \E x \in runs : x.id = n
    BY <2>1 DEF NumbersFollowStoredRuns
  <2> QED
    BY <2>1, <2>2, IdsStay
<1>2. CASE NextRunId(q) /\ p = q
  <2>1. PICK m \in {x.id : x \in runs} \cup {0} : number'[q] = m + 1
    BY <1>2 DEF NextRunId, TypeOK
  <2>2. runs' = runs /\ m \in Nat
    BY <1>2, <2>1 DEF NextRunId, tables, TypeOK, Run
  <2>3. \A n \in 1..m : \E x \in runs : x.id = n
    BY <2>1, <2>2 DEF RunIdsAreGapless
  <2> QED
    BY <1>2, <2>1, <2>2, <2>3
<1> QED
  BY <1>1, <1>2

(* RunIdsAreGapless: the run inserted is the next one.                     *)
LEMMA KeepsGapless ==
  ASSUME ShellInv, TypeOK', NEW q \in Requests, RequestStep(q)
  PROVE  RunIdsAreGapless'
<1> USE DEF ShellInv
<1>1. CASE runs' = runs
  BY <1>1 DEF RunIdsAreGapless
<1>2. CASE target[q] \in ConfigIds /\ runs' = Unlinked(target[q])
  <2>1. \A x, y \in runs' : x.id = y.id => x = y
    BY <1>2, UnlinkedRuns DEF RunIdsAreGapless
  <2>2. \A x \in runs' : x.id > 0 /\ \A n \in 1..x.id : \E y \in runs' : y.id = n
    BY <1>2, UnlinkedRuns DEF RunIdsAreGapless
  <2> QED
    BY <2>1, <2>2 DEF RunIdsAreGapless
<1>3. CASE pc[q] = "insert" /\ ~InsertFails(q) /\ runs' = runs \cup {DraftRow(q)}
  <2>1. DraftRow(q).id = number[q] /\ number[q] \in Nat
    BY DEF DraftRow, TypeOK
  <2>2. /\ number[q] > 0
        /\ \A n \in 1..(number[q] - 1) : \E x \in runs : x.id = n
    BY <1>3 DEF NumbersFollowStoredRuns
  <2>3. \A x \in runs : x.id # number[q]
    BY <1>3 DEF InsertFails
  <2>4. \A n \in 1..number[q] : \E y \in runs' : y.id = n
    <3> SUFFICES ASSUME NEW n \in 1..number[q] PROVE \E y \in runs' : y.id = n
      OBVIOUS
    <3>1. CASE n = number[q]
      BY <1>3, <2>1, <3>1
    <3>2. CASE n # number[q]
      BY <1>3, <2>1, <2>2, <3>2
    <3> QED
      BY <3>1, <3>2
  <2> QED
    BY <1>3, <2>1, <2>2, <2>3, <2>4 DEF RunIdsAreGapless
<1> QED
  BY <1>1, <1>2, <1>3, RunsChange

(* Stamps and clock change in TakeStamp only, numbers in NextRunId only.   *)
LEMMA StampIsTaken ==
  ASSUME TypeOK, NEW q \in Requests, RequestStep(q), ~TakeStamp(q)
  PROVE  /\ clock' = clock
         /\ \A p \in Requests :
              pc'[p] = "insert" => stamp'[p] = stamp[p] /\ number'[p] = number[p]
                                   /\ pc[p] = "insert"
BY DEF RequestStep, CreateConfig, RefreshConfig, ReadForUpdate, WriteUpdate, ReadForDelete,
   WriteDelete, ReadForDraft, AskForDraft, NextRunId, InsertDraft,
   Answer, Continue, tables, locals, TypeOK

(* StampsFollowStoredRuns: stamps are taken after numbers are read.        *)
LEMMA KeepsStamps ==
  ASSUME ShellInv, TypeOK', NEW q \in Requests, RequestStep(q)
  PROVE  StampsFollowStoredRuns'
<1> USE DEF ShellInv
<1>1. CASE TakeStamp(q)
  <2>1. /\ runs' = runs /\ number' = number
        /\ stamp' = [stamp EXCEPT ![q] = clock'] /\ pc' = [pc EXCEPT ![q] = "insert"]
        /\ clock \in Nat /\ clock' \in {clock, clock + 1}
    BY <1>1 DEF TakeStamp, Continue, tables, TypeOK
  <2>2. \A x \in runs : x.created \in Nat /\ x.created <= clock
    BY DEF StampsFollowStoredRuns, TypeOK, Run
  <2>3. \A x \in runs' : x.created <= clock'
    BY <2>1, <2>2
  <2>4. ASSUME NEW p \in Requests, pc'[p] = "insert"
        PROVE  /\ stamp'[p] <= clock'
               /\ \A x \in runs' : x.id < number'[p] => x.created <= stamp'[p]
    <3>1. CASE p = q
      BY <2>1, <2>3, <3>1 DEF TypeOK
    <3>2. CASE p # q
      <4>1. pc[p] = "insert" /\ stamp'[p] = stamp[p] /\ stamp[p] \in Nat
        BY <2>1, <2>4, <3>2 DEF TypeOK
      <4> QED
        BY <2>1, <4>1 DEF StampsFollowStoredRuns
    <3> QED
      BY <3>1, <3>2
  <2> QED
    BY <2>3, <2>4 DEF StampsFollowStoredRuns
<1>2. CASE ~TakeStamp(q)
  <2>1. /\ clock' = clock
        /\ \A p \in Requests :
             pc'[p] = "insert" => stamp'[p] = stamp[p] /\ number'[p] = number[p]
                                  /\ pc[p] = "insert"
    BY <1>2, StampIsTaken
  <2>2. CASE runs' = runs
    BY <2>1, <2>2 DEF StampsFollowStoredRuns
  <2>3. CASE target[q] \in ConfigIds /\ runs' = Unlinked(target[q])
    BY <2>1, <2>3, UnlinkedRuns DEF StampsFollowStoredRuns
  <2>4. CASE pc[q] = "insert" /\ ~InsertFails(q) /\ runs' = runs \cup {DraftRow(q)}
    <3>1. DraftRow(q).created = stamp[q] /\ DraftRow(q).id = number[q]
      BY DEF DraftRow
    <3>2. stamp[q] <= clock
      BY <2>4 DEF StampsFollowStoredRuns
    <3>3. ASSUME NEW p \in Requests, pc[p] = "insert"
          PROVE  ~(number[q] < number[p])
      <4> SUFFICES ASSUME number[q] < number[p] PROVE FALSE
        OBVIOUS
      <4>1. number[q] > 0 /\ number[q] \in Nat /\ number[p] \in Nat
        BY <2>4 DEF NumbersFollowStoredRuns, TypeOK
      <4>2. number[q] \in 1..(number[p] - 1)
        BY <4>1
      <4>3. \E x \in runs : x.id = number[q]
        BY <3>3, <4>2 DEF NumbersFollowStoredRuns
      <4> QED
        BY <2>4, <4>3 DEF InsertFails
    <3> QED
      BY <2>1, <2>4, <3>1, <3>2, <3>3 DEF StampsFollowStoredRuns
  <2> QED
    BY <2>2, <2>3, <2>4, RunsChange
<1> QED
  BY <1>1, <1>2

(* HistoryOrderIsIdOrder: the run inserted is the latest one.              *)
LEMMA KeepsHistoryOrder ==
  ASSUME ShellInv, TypeOK', NEW q \in Requests, RequestStep(q)
  PROVE  HistoryOrderIsIdOrder'
<1> USE DEF ShellInv
<1>1. CASE runs' = runs
  BY <1>1 DEF HistoryOrderIsIdOrder
<1>2. CASE target[q] \in ConfigIds /\ runs' = Unlinked(target[q])
  BY <1>2, UnlinkedRuns DEF HistoryOrderIsIdOrder
<1>3. CASE pc[q] = "insert" /\ ~InsertFails(q) /\ runs' = runs \cup {DraftRow(q)}
  <2>1. DraftRow(q).created = stamp[q] /\ DraftRow(q).id = number[q] /\ number[q] \in Nat
        /\ stamp[q] \in Nat
    BY DEF DraftRow, TypeOK
  <2>2. \A x \in runs : x.id < number[q] /\ x.created <= stamp[q] /\ x.id \in Nat
    BY <1>3, InsertedIsNext DEF StampsFollowStoredRuns, TypeOK, Run
  <2> QED
    BY <1>3, <2>1, <2>2 DEF HistoryOrderIsIdOrder
<1> QED
  BY <1>1, <1>2, <1>3, RunsChange

(* RunsWithinRange: only validated timeframes are inserted.                *)
LEMMA KeepsRange ==
  ASSUME ShellInv, NEW q \in Requests, RequestStep(q)
  PROVE  RunsWithinRange'
<1> USE DEF ShellInv
<1>1. CASE runs' = runs
  BY <1>1 DEF RunsWithinRange
<1>2. CASE target[q] \in ConfigIds /\ runs' = Unlinked(target[q])
  BY <1>2, UnlinkedRuns DEF RunsWithinRange
<1>3. CASE pc[q] = "insert" /\ runs' = runs \cup {DraftRow(q)}
  BY <1>3 DEF RunsWithinRange, RequestsAreAboutConfigs, DraftRow
<1> QED
  BY <1>1, <1>2, <1>3, RunsChange

(* Only WriteDelete takes a configuration away.                            *)
LEMMA ConfigsStay ==
  ASSUME ShellInv, NEW q \in Requests, RequestStep(q), ~WriteDelete(q),
         NEW c \in ConfigIds, configs[c] # NoConfig
  PROVE  configs'[c] # NoConfig
<1> USE DEF ShellInv
<1>1. CASE CreateConfig(q)
  BY <1>1, NoConfigAssumption DEF CreateConfig, TypeOK
<1>2. CASE WriteUpdate(q)
  <2>1. configs[target[q]] # NoConfig => Updated(q) \in Config
    BY <1>2, UpdatedType DEF WriteUpdate
  <2> QED
    BY <1>2, <2>1, NoConfigAssumption DEF WriteUpdate, TypeOK
<1>3. CASE ~CreateConfig(q) /\ ~WriteUpdate(q)
  BY <1>3 DEF RequestStep, RefreshConfig, ReadForUpdate, ReadForDelete, ReadForDraft,
     AskForDraft, NextRunId, TakeStamp, InsertDraft, tables
<1> QED
  BY <1>1, <1>2, <1>3

(* RunConfigsExist: a deleted configuration is unlinked from its runs.     *)
LEMMA KeepsRunConfigs ==
  ASSUME ShellInv, TypeOK', NEW q \in Requests, RequestStep(q)
  PROVE  RunConfigsExist'
<1> USE DEF ShellInv
<1>1. CASE WriteDelete(q)
  <2>1. target[q] \in ConfigIds /\ runs' = Unlinked(target[q])
        /\ configs' = [configs EXCEPT ![target[q]] = NoConfig]
    BY <1>1 DEF WriteDelete, RequestsAreAboutConfigs
  <2> QED
    BY <2>1, UnlinkedRuns DEF RunConfigsExist, TypeOK, Run
<1>2. CASE ~WriteDelete(q) /\ runs' = runs
  BY <1>2, ConfigsStay DEF RunConfigsExist, TypeOK, Run
<1>3. CASE ~WriteDelete(q) /\ ~InsertFails(q) /\ runs' = runs \cup {DraftRow(q)}
           /\ configs' = configs
  BY <1>3 DEF RunConfigsExist, DraftRow, InsertFails
<1> QED
  BY <1>1, <1>2, <1>3, RunsChange

-----------------------------------------------------------------------------
(* The invariant holds initially.                                          *)
LEMMA InitShellInv == Init => ShellInv
<1> SUFFICES ASSUME Init PROVE ShellInv
  OBVIOUS
<1>1. TypeOK
  BY InitType
<1>2. RequestsAreAboutConfigs /\ NumbersFollowStoredRuns /\ StampsFollowStoredRuns
  BY DEF Init, RequestsAreAboutConfigs, NumbersFollowStoredRuns, StampsFollowStoredRuns
<1>3. RunIdsAreGapless /\ HistoryOrderIsIdOrder /\ RunsWithinRange /\ RunConfigsExist
  BY DEF Init, RunIdsAreGapless, HistoryOrderIsIdOrder, RunsWithinRange, RunConfigsExist
<1> QED
  BY <1>1, <1>2, <1>3 DEF ShellInv

(* Every step keeps the invariant.                                         *)
LEMMA NextShellInv == ShellInv /\ [Next]_vars => ShellInv'
<1> SUFFICES ASSUME ShellInv, [Next]_vars PROVE ShellInv'
  OBVIOUS
<1>1. TypeOK'
  BY NextType DEF ShellInv
<1>2. CASE UNCHANGED vars
  BY <1>2 DEF vars, ShellInv, TypeOK, RequestsAreAboutConfigs, NumbersFollowStoredRuns,
     StampsFollowStoredRuns, RunIdsAreGapless, HistoryOrderIsIdOrder, RunsWithinRange,
     RunConfigsExist
<1>3. ASSUME NEW q \in Requests, RequestStep(q) PROVE ShellInv'
  BY <1>1, <1>3, KeepsRequests, KeepsNumbers, KeepsGapless, KeepsStamps,
     KeepsHistoryOrder, KeepsRange, KeepsRunConfigs DEF ShellInv
<1> QED
  BY <1>2, <1>3 DEF Next

(* The inductive invariant: whatever requests interleave, each one writes  *)
(* on facts that were true when it read them and that stay true.           *)
THEOREM ShellInvariant == Spec => []ShellInv
BY InitShellInv, NextShellInv, PTL DEF Spec

(* create_draft_run numbers the runs of a workspace 1, 2, 3, .. without a  *)
(* duplicate or a gap, for any number of concurrent requests.              *)
THEOREM NumbersAreGapless == Spec => []RunIdsAreGapless
<1>1. ShellInv => RunIdsAreGapless
  BY DEF ShellInv
<1> QED
  BY <1>1, ShellInvariant, PTL

(* list_runs' order by created_at never contradicts the run numbers.       *)
THEOREM HistoryIsOrdered == Spec => []HistoryOrderIsIdOrder
<1>1. ShellInv => HistoryOrderIsIdOrder
  BY DEF ShellInv
<1> QED
  BY <1>1, ShellInvariant, PTL

(* No stored draft run is out of range, although saved configurations can  *)
(* be.                                                                     *)
THEOREM DraftsAreWithinRange == Spec => []RunsWithinRange
<1>1. ShellInv => RunsWithinRange
  BY DEF ShellInv
<1> QED
  BY <1>1, ShellInvariant, PTL

(* Deleting a configuration never deletes or changes a run otherwise.      *)
THEOREM RunsAreAuditable == Spec => RunsStayAuditable
<1>1. ASSUME ShellInv, [Next]_vars
      PROVE  [\A x \in runs :
                \/ x \in runs'
                \/ /\ configs'[x.config] = NoConfig
                   /\ [x EXCEPT !.config = NoConfig] \in runs']_vars
  <2>1. CASE UNCHANGED vars
    BY <2>1
  <2>2. ASSUME NEW q \in Requests, RequestStep(q), NEW x \in runs, x \notin runs'
        PROVE  configs'[x.config] = NoConfig /\ [x EXCEPT !.config = NoConfig] \in runs'
    <3>1. WriteDelete(q) /\ target[q] \in ConfigIds /\ runs' = Unlinked(target[q])
      BY <1>1, <2>2, RunsChange
    <3>2. [x EXCEPT !.config = IF x.config = target[q] THEN NoConfig ELSE x.config] \in runs'
      BY <2>2, <3>1 DEF Unlinked
    <3>3. x \in Run
      BY <1>1, <2>2 DEF ShellInv, TypeOK
    <3>4. x.config = target[q]
      <4> SUFFICES ASSUME x.config # target[q] PROVE FALSE
        OBVIOUS
      <4>1. [x EXCEPT !.config = x.config] \in runs'
        BY <3>2
      <4>2. [x EXCEPT !.config = x.config] = x
        BY <3>3 DEF Run
      <4> QED
        BY <2>2, <4>1, <4>2
    <3> QED
      BY <1>1, <3>1, <3>2, <3>4 DEF WriteDelete, ShellInv, TypeOK
  <2> QED
    BY <1>1, <2>1, <2>2 DEF Next
<1> QED
  BY <1>1, ShellInvariant, PTL DEF Spec, RunsStayAuditable

(* A run never refers to a configuration that was deleted, whichever of    *)
(* the draft and the delete comes first.                                   *)
THEOREM RunLinksAreValid == Spec => []RunConfigsExist
<1>1. ShellInv => RunConfigsExist
  BY DEF ShellInv
<1> QED
  BY <1>1, ShellInvariant, PTL

-----------------------------------------------------------------------------
(* Ids of stored configurations have been handed out, so that creating one *)
(* never replaces another.                                                 *)
SavedIdsAreUsed == \A c \in ConfigIds : configs[c] # NoConfig => c \in usedIds

(* It holds initially and is kept by every step.                           *)
LEMMA SavedIds == Spec => []SavedIdsAreUsed
<1>1. Init => SavedIdsAreUsed
  BY DEF Init, SavedIdsAreUsed
<1>2. ASSUME ShellInv, SavedIdsAreUsed, [Next]_vars PROVE SavedIdsAreUsed'
  <2>1. CASE UNCHANGED vars
    BY <1>2, <2>1 DEF vars, SavedIdsAreUsed
  <2>2. ASSUME NEW q \in Requests, RequestStep(q) PROVE SavedIdsAreUsed'
    <3> USE <1>2 DEF ShellInv, SavedIdsAreUsed
    <3>1. CASE CreateConfig(q)
      BY <3>1 DEF CreateConfig, TypeOK
    <3>2. CASE WriteUpdate(q)
      BY <3>2 DEF WriteUpdate, TypeOK
    <3>3. CASE WriteDelete(q)
      BY <3>3 DEF WriteDelete, TypeOK
    <3>4. CASE ~CreateConfig(q) /\ ~WriteUpdate(q) /\ ~WriteDelete(q)
      BY <2>2, <3>4 DEF RequestStep, RefreshConfig, ReadForUpdate, ReadForDelete,
         ReadForDraft, AskForDraft, NextRunId, TakeStamp, InsertDraft, tables
    <3> QED
      BY <3>1, <3>2, <3>3, <3>4
  <2> QED
    BY <1>2, <2>1, <2>2 DEF Next
<1> QED
  BY <1>1, <1>2, ShellInvariant, PTL DEF Spec

(* A step that changes a stored configuration without deleting it is the   *)
(* write of an update to it.                                               *)
LEMMA OnlyUpdatesChange ==
  ASSUME ShellInv, SavedIdsAreUsed, NEW q \in Requests, RequestStep(q),
         NEW c \in ConfigIds, configs[c] # NoConfig,
         configs'[c] # NoConfig, configs'[c] # configs[c]
  PROVE  /\ target[q] = c /\ pc[q] = "write" /\ op[q] = "update"
         /\ configs'[c] = Updated(q)
<1> USE DEF ShellInv
<1>1. CASE CreateConfig(q)
  BY <1>1 DEF CreateConfig, TypeOK, SavedIdsAreUsed
<1>2. CASE WriteUpdate(q)
  BY <1>2 DEF WriteUpdate, TypeOK
<1>3. CASE WriteDelete(q)
  BY <1>3 DEF WriteDelete, TypeOK
<1>4. CASE ~CreateConfig(q) /\ ~WriteUpdate(q) /\ ~WriteDelete(q)
  BY <1>4 DEF RequestStep, RefreshConfig, ReadForUpdate, ReadForDelete, ReadForDraft,
     AskForDraft, NextRunId, TakeStamp, InsertDraft, tables
<1> QED
  BY <1>1, <1>2, <1>3, <1>4

(* An update written on a stale row reverts no field that another request  *)
(* saved meanwhile.                                                        *)
THEOREM NoLostUpdate == Spec => UpdatesKeepOtherFields
<1> DEFINE Kept(c, q) ==
      /\ target[q] = c /\ pc[q] = "write" /\ op[q] = "update"
      /\ \A f \in {"name", "start", "end"} :
           configs'[c][f] # configs[c][f] =>
             wanted[q][f] # seen[q][f] /\ configs'[c][f] = wanted[q][f]
<1>1. ASSUME ShellInv, SavedIdsAreUsed, [Next]_vars
      PROVE  [\A c \in ConfigIds :
                configs[c] # NoConfig /\ configs'[c] \notin {NoConfig, configs[c]} =>
                  \E q \in Requests : Kept(c, q)]_vars
  <2>1. CASE UNCHANGED vars
    BY <2>1
  <2>2. ASSUME NEW q \in Requests, RequestStep(q), NEW c \in ConfigIds,
               configs[c] # NoConfig, configs'[c] \notin {NoConfig, configs[c]}
        PROVE  Kept(c, q)
    <3>1. /\ target[q] = c /\ pc[q] = "write" /\ op[q] = "update"
          /\ configs'[c] = Updated(q)
      BY <1>1, <2>2, OnlyUpdatesChange
    <3>2. \A f \in {"name", "start", "end"} :
            Updated(q)[f] = IF wanted[q][f] = seen[q][f] THEN configs[c][f] ELSE wanted[q][f]
      BY <3>1 DEF Updated
    <3> QED
      BY <3>1, <3>2
  <2> QED
    BY <1>1, <2>1, <2>2 DEF Next
<1> QED
  BY <1>1, ShellInvariant, SavedIds, PTL DEF Spec, UpdatesKeepOtherFields
=============================================================================
