------------------------- MODULE DatasetReadersProofs -------------------------
(***************************************************************************)
(* What requests that read datasets while others save them can rely on,    *)
(* for any number of requests, runs and records.                           *)
(***************************************************************************)
EXTENDS DatasetReaders, DatasetStoreProofs, FiniteSetTheorems

(* The reading requests follow their handlers: an answer ends them, a get_ *)
(* run that is under way is counted, and a saving request reads its own run*)
(* after its commit.                                                       *)
HandlersAreOrderly ==
  \A p \in Requests :
    /\ answer[p] # "none" => step[p] = "done"
    /\ step[p] \in {"summary", "records"} => previews[p] \in {1, 2}
    /\ p \in Savers => /\ readRun[p] = runOf[p]
                       /\ step[p] # "idle" => pc[p] = "committed"

(* A committed save_run leaves a dataset for good, so what a SELECT found  *)
(* once is not missing later.                                              *)
FoundStaysFound ==
  /\ \A s \in Savers : pc[s] = "committed" => datasetRuns[runOf[s]] # NoRow
  /\ \A p \in Requests : sawRun[p] # NoRow =>
       /\ datasetRuns[readRun[p]] # NoRow
       /\ sawRun[p] \in Savers /\ pc[sawRun[p]] = "committed"

(* As long as no save of its run overtakes a request, the summary it read  *)
(* is the current one, and a saving request's own.                         *)
UndisturbedSeesCurrent ==
  \A p \in Requests : ~disturbed[p] =>
    /\ step[p] \in {"records", "body"} =>
         sawRun[p] = datasetRuns[readRun[p]] /\ sawRun[p] # NoRow
    /\ p \in Savers /\ pc[p] = "committed" /\ step[p] # "done" => datasetRuns[runOf[p]] = p

(* A quality report has records.                                           *)
QualityHasRecords ==
  \A p \in Requests : kind[p] = "quality" /\ answer[p] = "200" => sawRecords[p] # {}

ReadersInv ==
  /\ StoreInv
  /\ ReadersTypeOK
  /\ HandlersAreOrderly
  /\ FoundStaysFound
  /\ UndisturbedSeesCurrent
  /\ QualityHasRecords
  /\ AnswersCarryOneDataset
  /\ UndisturbedReadsAreCoherent
  /\ SavedRunIsFound

-----------------------------------------------------------------------------
(* Statements of save_run never take back a commit, nor what it saved; the *)
(* committed summary of a run changes by a commit only.                    *)
LEMMA CommitsAreFinal ==
  ASSUME StoreInv, StoreInv', NEW s \in Savers, SaverNext(s)
  PROVE  /\ runOf' = runOf
         /\ \A t \in Savers : pc[t] = "committed" =>
              pc'[t] = "committed" /\ payload'[t] = payload[t]
         /\ \/ /\ Commit(s) /\ pc[s] # "committed" /\ pc'[s] = "committed"
               /\ datasetRuns' = [datasetRuns EXCEPT ![runOf[s]] = s]
            \/ ~Commit(s) /\ datasetRuns' = datasetRuns /\ datasetRecords' = datasetRecords
         /\ \A t \in Savers : pc'[t] = "committed" /\ pc[t] # "committed" => Commit(s) /\ t = s
<1> USE DEF StoreInv, TypeOK, Goto, tables, targets, deletions
<1>0. ASSUME pc[s] # "committing" PROVE ~Commit(s)
  BY <1>0 DEF Commit
<1>1. CASE Commit(s)
  BY <1>1 DEF Commit
<1>2. CASE FetchDataset(s) \/ SaveProviderLimitation(s)
  BY <1>0, <1>2 DEF FetchDataset, SaveProviderLimitation
<1>3. CASE NormalizationFails(s) \/ DeleteRecords(s) \/ DeleteRecordsDone(s) \/ DeleteRun(s)
  BY <1>0, <1>3 DEF NormalizationFails, DeleteRecords, DeleteRecordsDone, DeleteRun
<1>4. CASE DeleteRunDone(s)
  BY <1>0, <1>4 DEF DeleteRunDone
<1>5. CASE CascadeToRecords(s) \/ InsertRun(s) \/ InsertRecords(s)
  BY <1>0, <1>5 DEF CascadeToRecords, InsertRun, InsertRecords
<1>6. CASE InsertRunConflicts(s) \/ ConnectionLost(s) \/ DeadlockVictim(s)
  <2>1. Rollback(s)
    BY <1>6 DEF InsertRunConflicts, ConnectionLost, DeadlockVictim
  <2>2. pc[s] # "committed"
    <3>1. CASE InsertRunConflicts(s) \/ ConnectionLost(s)
      BY <3>1 DEF InsertRunConflicts, ConnectionLost, InTransaction
    <3>2. CASE DeadlockVictim(s)
      BY <3>2 DEF DeadlockVictim, WaitCycle, BlockedBy
    <3> QED
      BY <1>6, <3>1, <3>2
  <2>3. ~Commit(s)
    BY <2>1 DEF Rollback, Commit
  <2> QED
    BY <2>1, <2>2, <2>3 DEF Rollback
<1> QED
  BY <1>1, <1>2, <1>3, <1>4, <1>5, <1>6 DEF SaverNext, Statement

(* The records of a dataset are finitely many.                             *)
LEMMA RowsAreFinite ==
  ASSUME TypeOK, NEW s \in Savers
  PROVE  IsFiniteSet(RowsOf(s))
<1>1. PICK n \in 0..MaxRecords : DOMAIN payload[s].labels = 1..n
  <2>1. payload[s] \in AllPayloads
    BY DEF TypeOK
  <2>2. CASE payload[s] = ProviderLimitation
    <3>1. DOMAIN payload[s].labels = 1..0
      BY <2>2 DEF ProviderLimitation
    <3> QED
      BY <3>1, MaxRecordsAssumption
  <2>3. CASE payload[s] \in Payloads
    BY <2>3 DEF Payloads
  <2> QED
    BY <2>1, <2>2, <2>3 DEF AllPayloads
<1>2. IsFiniteSet(1..n)
  BY <1>1, FS_Interval, MaxRecordsAssumption
<1>3. RowsOf(s) = {<<s, i>> : i \in 1..n}
  BY <1>1 DEF RowsOf
<1> DEFINE row == [i \in 1..n |-> <<s, i>>]
<1>4. row \in Surjection(1..n, RowsOf(s))
  BY <1>3 DEF Surjection
<1> QED
  BY <1>2, <1>4, FS_Surjection

(* A SELECT sees nothing or one committed dataset.                         *)
LEMMA SelectSeesOneDataset ==
  ASSUME StoreInv, NEW r \in Runs, datasetRuns[r] # NoRow
  PROVE  /\ datasetRuns[r] \in Savers
         /\ pc[datasetRuns[r]] = "committed" /\ runOf[datasetRuns[r]] = r
         /\ datasetRecords[r] = RowsOf(datasetRuns[r])
BY DEF StoreInv, TypeOK, OneDatasetPerRun, RowsAreCommitted

(* A dataset always passes the checks against its own summary.             *)
LEMMA OwnPreviewMatches ==
  ASSUME TypeOK, NEW s \in Savers
  PROVE  PreviewMatches(s, RowsOf(s))
<1> DEFINE shown == {row \in RowsOf(s) : row[2] <= PreviewLimit}
<1>1. IsFiniteSet(RowsOf(s))
  BY RowsAreFinite
<1>2. Cardinality(shown) <= Cardinality(RowsOf(s))
  BY <1>1, FS_Subset
<1>3. ASSUME NEW l \in Relevance PROVE CountOf(l, shown) <= CountOf(l, RowsOf(s))
  <2> DEFINE labelled == {row \in RowsOf(s) : Label(row) = l}
             labelledShown == {row \in shown : Label(row) = l}
  <2>1. IsFiniteSet(labelled)
    BY <1>1, FS_Subset
  <2>2. labelledShown \in SUBSET labelled
    OBVIOUS
  <2>3. Cardinality(labelledShown) <= Cardinality(labelled)
    BY <2>1, <2>2, FS_Subset
  <2> QED
    BY <2>3 DEF CountOf
<1> QED
  BY <1>2, <1>3 DEF PreviewMatches

(* Nobody has read anything yet.                                           *)
LEMMA InitReadersInv == ReadersInit => ReadersInv
<1> SUFFICES ASSUME ReadersInit PROVE ReadersInv
  OBVIOUS
<1> USE DEF ReadersInit
<1>1. StoreInv /\ TypeOK
  BY InitStoreInv DEF StoreInv
<1>2. ReadersTypeOK
  BY <1>1 DEF ReadersTypeOK, Kinds
<1>3. HandlersAreOrderly
  BY DEF HandlersAreOrderly, Requests
<1>4. FoundStaysFound /\ UndisturbedSeesCurrent
  BY DEF FoundStaysFound, UndisturbedSeesCurrent, Init, Requests
<1>5. QualityHasRecords /\ AnswersCarryOneDataset /\ UndisturbedReadsAreCoherent
      /\ SavedRunIsFound
  BY DEF QualityHasRecords, AnswersCarryOneDataset, UndisturbedReadsAreCoherent,
         SavedRunIsFound, Requests
<1> QED
  BY <1>1, <1>2, <1>3, <1>4, <1>5 DEF ReadersInv

(* A statement of a save keeps what the readers rely on: a commit of their *)
(* run marks them as overtaken, any other statement they do not see.       *)
LEMMA SaverStepKeeps ==
  ASSUME ReadersInv, StoreInv', NEW s \in Savers, SaverStep(s)
  PROVE  ReadersInv'
<1> USE DEF ReadersInv
<1>0. /\ StoreInv /\ SaverNext(s)
      /\ UNCHANGED <<step, kind, readRun, previews, sawRun, sawRecords, answer>>
      /\ disturbed' = [p \in Requests |-> disturbed[p] \/ Overtakes(s, p)]
  BY DEF SaverStep
<1>1. /\ runOf' = runOf
      /\ \A t \in Savers : pc[t] = "committed" =>
           pc'[t] = "committed" /\ payload'[t] = payload[t]
      /\ \/ /\ Commit(s) /\ pc[s] # "committed" /\ pc'[s] = "committed"
            /\ datasetRuns' = [datasetRuns EXCEPT ![runOf[s]] = s]
         \/ ~Commit(s) /\ datasetRuns' = datasetRuns /\ datasetRecords' = datasetRecords
      /\ \A t \in Savers : pc'[t] = "committed" /\ pc[t] # "committed" => Commit(s) /\ t = s
  BY <1>0, CommitsAreFinal
<1>2. /\ datasetRuns \in [Runs -> Savers \cup {NoRow}] /\ runOf \in [Savers -> Runs]
      /\ readRun \in [Requests -> Runs] /\ s # NoRow /\ NoRow \notin Savers
      /\ disturbed \in [Requests -> BOOLEAN]
  BY SaversAssumption DEF ReadersTypeOK, TypeOK
<1>3. \A p \in Requests : ~disturbed'[p] => ~disturbed[p] /\ ~Overtakes(s, p)
  BY <1>0
<1>4. ReadersTypeOK'
  BY <1>0, <1>2 DEF ReadersTypeOK, StoreInv
<1>5. HandlersAreOrderly'
  BY <1>0, <1>1 DEF HandlersAreOrderly
<1>6. FoundStaysFound'
  <2>1. \A r \in Runs : datasetRuns[r] # NoRow => datasetRuns'[r] # NoRow
    BY <1>1, <1>2
  <2>2. \A t \in Savers : pc'[t] = "committed" => datasetRuns'[runOf[t]] # NoRow
    BY <1>1, <1>2, <2>1 DEF FoundStaysFound
  <2> QED
    BY <1>0, <1>1, <1>2, <2>1, <2>2 DEF FoundStaysFound
<1>7. \A t \in Savers : pc[t] = "committed" => RowsOf(t)' = RowsOf(t)
  BY <1>1 DEF RowsOf
<1>8. UndisturbedSeesCurrent'
  <2> SUFFICES ASSUME NEW p \in Requests, ~disturbed'[p]
               PROVE  /\ step[p] \in {"records", "body"} =>
                           sawRun[p] = datasetRuns'[readRun[p]] /\ sawRun[p] # NoRow
                      /\ p \in Savers /\ pc'[p] = "committed" /\ step[p] # "done"
                           => datasetRuns'[runOf[p]] = p
    BY <1>0, <1>1 DEF UndisturbedSeesCurrent
  <2>1. ~disturbed[p] /\ ~Overtakes(s, p)
    BY <1>3
  <2>2. CASE Commit(s) /\ datasetRuns' = [datasetRuns EXCEPT ![runOf[s]] = s] /\ pc[s] # "committed"
    <3>1. CASE p = s
      <4>1. s \in Savers /\ step[s] = "idle"
        BY <2>2, <3>1 DEF HandlersAreOrderly
      <4> QED
        BY <1>2, <2>2, <3>1, <4>1
    <3>2. CASE p # s
      <4>1. readRun[p] = runOf[s] => ~Reading(p)
        BY <2>1, <2>2, <3>2 DEF Overtakes
      <4>2. ASSUME step[p] \in {"records", "body"}
            PROVE  sawRun[p] = datasetRuns'[readRun[p]] /\ sawRun[p] # NoRow
        BY <1>2, <2>1, <2>2, <4>1, <4>2 DEF Reading, UndisturbedSeesCurrent
      <4>3. ASSUME p \in Savers, pc'[p] = "committed", step[p] # "done"
            PROVE  datasetRuns'[runOf[p]] = p
        <5>1. pc[p] = "committed"
          BY <1>1, <3>2, <4>3
        <5>2. Reading(p) /\ readRun[p] = runOf[p]
          BY <4>3, <5>1 DEF Reading, ReadersTypeOK, HandlersAreOrderly
        <5> QED
          BY <1>2, <2>1, <2>2, <4>1, <4>3, <5>1, <5>2 DEF UndisturbedSeesCurrent
      <4> QED
        BY <4>2, <4>3
    <3> QED
      BY <3>1, <3>2
  <2>3. CASE ~Commit(s)
    BY <1>1, <2>1, <2>3 DEF UndisturbedSeesCurrent
  <2> QED
    BY <1>1, <2>2, <2>3
<1>9. QualityHasRecords'
  BY <1>0 DEF QualityHasRecords
<1>10. AnswersCarryOneDataset'
  BY <1>0, <1>1, <1>7 DEF AnswersCarryOneDataset
<1>11. UndisturbedReadsAreCoherent'
  BY <1>0, <1>2, <1>3, <1>7 DEF UndisturbedReadsAreCoherent, FoundStaysFound
<1>12. SavedRunIsFound'
  BY <1>0 DEF SavedRunIsFound
<1> QED
  BY <1>4, <1>5, <1>6, <1>8, <1>9, <1>10, <1>11, <1>12

-----------------------------------------------------------------------------
(* What a step of p leaves to show: the store and the other requests stay  *)
(* as they are, so each part of ReadersInv is only to be shown of p.       *)
OthersStay(p) ==
  /\ \A q \in Requests \ {p} :
       /\ step'[q] = step[q] /\ kind'[q] = kind[q] /\ previews'[q] = previews[q]
       /\ sawRun'[q] = sawRun[q] /\ sawRecords'[q] = sawRecords[q] /\ answer'[q] = answer[q]
  /\ UNCHANGED <<readRun, disturbed>>

HandlerGoesOn(p) ==
  /\ step[p] # "done"
  /\ answer'[p] # "none" => step'[p] = "done"
  /\ step'[p] \in {"summary", "records"} => previews'[p] \in {1, 2}
  /\ p \in Savers /\ step'[p] # "idle" => pc[p] = "committed"

SeesTheStore(p) ==
  /\ sawRun'[p] # NoRow => sawRun'[p] \in {sawRun[p], datasetRuns[readRun[p]]}
  /\ ~disturbed[p] /\ step'[p] \in {"records", "body"} =>
       sawRun'[p] = datasetRuns[readRun[p]] /\ sawRun'[p] # NoRow

AnswersRight(p) ==
  /\ kind'[p] = "quality" /\ answer'[p] = "200" => sawRecords'[p] # {}
  /\ answer'[p] = "200" =>
       datasetRuns[readRun[p]] # NoRow /\ sawRecords'[p] = datasetRecords[readRun[p]]
  /\ step'[p] = "done" /\ ~disturbed[p] =>
       /\ answer'[p] # "500"
       /\ sawRun'[p] # NoRow => sawRecords'[p] = RowsOf(sawRun'[p])
       /\ p \in Savers => sawRun'[p] = p
  /\ answer'[p] = "404" => datasetRuns[readRun[p]] = NoRow

LEMMA ReaderStepKeeps ==
  ASSUME ReadersInv, ReadersTypeOK', NEW p \in Requests, UNCHANGED storeVars,
         OthersStay(p), HandlerGoesOn(p), SeesTheStore(p), AnswersRight(p)
  PROVE  ReadersInv'
<1> USE DEF ReadersInv, OthersStay, HandlerGoesOn, SeesTheStore, AnswersRight
<1>1. StoreInv' /\ StoreInv
  BY DEF storeVars, StoreInv, TypeOK, OneDatasetPerRun, OneInserterPerRun,
     RowsAreCommitted, RowLocks, NoRecordLeftBehind, HasInsertedRun, RunKeyTaken, RowsOf
<1>2. UNCHANGED <<datasetRuns, datasetRecords, pc, runOf, payload, readRun, disturbed>>
  BY DEF storeVars
<1>3. \A q \in Requests : readRun[q] \in Runs
  BY DEF ReadersTypeOK
<1>4. HandlersAreOrderly'
  BY <1>2 DEF HandlersAreOrderly
<1>5. \A q \in Requests : datasetRuns[readRun[q]] # NoRow =>
        /\ datasetRuns[readRun[q]] \in Savers /\ pc[datasetRuns[readRun[q]]] = "committed"
        /\ runOf[datasetRuns[readRun[q]]] = readRun[q]
        /\ datasetRecords[readRun[q]] = RowsOf(datasetRuns[readRun[q]])
  BY <1>1, <1>3, SelectSeesOneDataset
<1>6. FoundStaysFound'
  BY <1>2, <1>5 DEF FoundStaysFound
<1>7. UndisturbedSeesCurrent'
  BY <1>2 DEF UndisturbedSeesCurrent
<1>8. QualityHasRecords'
  BY <1>2 DEF QualityHasRecords
<1>9. \A q \in Savers : RowsOf(q)' = RowsOf(q)
  BY <1>2 DEF RowsOf
<1>10. AnswersCarryOneDataset'
  <2> SUFFICES ASSUME NEW q \in Requests, answer'[q] = "200"
               PROVE  \E s \in Savers : /\ pc[s] = "committed" /\ runOf[s] = readRun[q]
                                        /\ sawRecords'[q] = RowsOf(s)
    BY <1>2, <1>9 DEF AnswersCarryOneDataset
  <2>1. CASE q = p
    BY <1>5, <2>1
  <2>2. CASE q # p
    BY <2>2 DEF AnswersCarryOneDataset
  <2> QED
    BY <2>1, <2>2
<1>11. UndisturbedReadsAreCoherent'
  <2> SUFFICES ASSUME NEW q \in Requests, step'[q] = "done", ~disturbed[q]
               PROVE  /\ answer'[q] # "500"
                      /\ sawRun'[q] # NoRow => sawRecords'[q] = RowsOf(sawRun'[q])
                      /\ q \in Savers => sawRun'[q] = q
    BY <1>2, <1>6, <1>9 DEF UndisturbedReadsAreCoherent, FoundStaysFound
  <2>1. CASE q = p
    BY <2>1
  <2>2. CASE q # p
    BY <2>2 DEF UndisturbedReadsAreCoherent
  <2> QED
    BY <2>1, <2>2
<1>12. SavedRunIsFound'
  <2>1. \A q \in Savers : answer'[q] # "404"
    <3> SUFFICES ASSUME NEW q \in Savers, answer'[q] = "404" PROVE FALSE
      OBVIOUS
    <3>1. q = p
      BY DEF SavedRunIsFound, Requests
    <3>2. pc[p] = "committed" /\ readRun[p] = runOf[p]
      BY <1>4, <3>1 DEF HandlersAreOrderly, Requests
    <3> QED
      BY <3>1, <3>2 DEF FoundStaysFound
  <2>2. \A q \in Requests : answer'[q] = "404" => sawRun'[q] = NoRow
    <3> SUFFICES ASSUME NEW q \in Requests, answer'[q] = "404" PROVE sawRun'[q] = NoRow
      OBVIOUS
    <3>1. CASE q = p
      BY <1>2, <1>6, <3>1 DEF FoundStaysFound
    <3>2. CASE q # p
      BY <3>2 DEF SavedRunIsFound
    <3> QED
      BY <3>1, <3>2
  <2> QED
    BY <2>1, <2>2 DEF SavedRunIsFound
<1> QED
  BY <1>1, <1>4, <1>6, <1>7, <1>8, <1>10, <1>11, <1>12

(* The types of the requests, of any step that leaves the store alone.     *)
LEMMA ReadersNextType ==
  ASSUME ReadersInv, NEW p \in Requests, Ask(p) \/ AnswerSave(p) \/ Read(p),
         UNCHANGED storeVars
  PROVE  ReadersTypeOK'
<1> USE DEF ReadersInv, ReadersTypeOK, Respond
<1>1. TypeOK'
  BY DEF storeVars, TypeOK
<1>2. /\ datasetRuns[readRun[p]] \in Savers \cup {NoRow}
      /\ datasetRecords[readRun[p]] \in SUBSET Rows
  BY DEF TypeOK
<1>3. CASE Ask(p)
  BY <1>1, <1>3 DEF Ask
<1>4. CASE AnswerSave(p)
  BY <1>1, <1>4 DEF AnswerSave
<1>5. CASE ReadSummary(p)
  BY <1>1, <1>2, <1>5 DEF ReadSummary
<1>6. CASE ReadPreview(p)
  <2>1. previews[p] \in {1, 2}
    BY <1>6 DEF ReadPreview, HandlersAreOrderly
  <2>2. previews' \in [Requests -> 0..2] /\ sawRecords' \in [Requests -> SUBSET Rows]
    BY <1>2, <1>6, <2>1 DEF ReadPreview
  <2>3. /\ step' \in [Requests -> {"idle", "summary", "records", "body", "done"}]
        /\ answer' \in [Requests -> {"none", "200", "404", "409", "500"}]
        /\ UNCHANGED <<kind, readRun, sawRun, disturbed>>
    BY <1>6 DEF ReadPreview
  <2> QED
    BY <1>1, <2>2, <2>3
<1>7. CASE ReadExportBody(p)
  BY <1>1, <1>2, <1>7 DEF ReadExportBody
<1>8. CASE ReadQualityInputs(p)
  BY <1>1, <1>2, <1>8 DEF ReadQualityInputs
<1> QED
  BY <1>3, <1>4, <1>5, <1>6, <1>7, <1>8 DEF Read

(* Every step of a request keeps ReadersInv.                               *)
LEMMA ReaderKeeps ==
  ASSUME ReadersInv, NEW p \in Requests, ReaderStep(p)
  PROVE  ReadersInv'
<1> USE DEF Respond, NotFound
<1> DEFINE rows == datasetRecords[readRun[p]]
           run == datasetRuns[readRun[p]]
<1>0. /\ UNCHANGED storeVars /\ ReadersTypeOK' /\ ReadersTypeOK
      /\ Ask(p) \/ AnswerSave(p) \/ Read(p)
  BY ReadersNextType DEF ReaderStep, ReadersInv
<1>1. /\ readRun[p] \in Runs /\ (step[p] # "idle" /\ p \in Savers => pc[p] = "committed")
      /\ step[p] # "done" => answer[p] = "none"
      /\ p \in Savers => readRun[p] = runOf[p]
      /\ step[p] \in {"summary", "records"} => previews[p] \in {1, 2}
      /\ pc[p] = "committed" /\ p \in Savers => run # NoRow
  BY DEF ReadersInv, ReadersTypeOK, HandlersAreOrderly, FoundStaysFound
<1>2. CASE Ask(p)
  <2>1. p \notin Savers
    BY <1>2, ReadersAssumption DEF Ask
  <2>2. /\ step[p] = "idle" /\ step'[p] = "summary" /\ previews'[p] \in {1, 2}
        /\ UNCHANGED <<readRun, sawRun, sawRecords, answer, disturbed>> /\ OthersStay(p)
    BY <1>0, <1>2 DEF Ask, OthersStay, ReadersTypeOK
  <2>3. HandlerGoesOn(p) /\ SeesTheStore(p) /\ AnswersRight(p)
    BY <1>1, <2>1, <2>2 DEF HandlerGoesOn, SeesTheStore, AnswersRight
  <2> QED
    BY <1>0, <2>2, <2>3, ReaderStepKeeps
<1>3. CASE AnswerSave(p)
  <2>1. /\ step[p] = "idle" /\ pc[p] = "committed"
        /\ step'[p] = "summary" /\ previews'[p] = 1 /\ OthersStay(p)
        /\ UNCHANGED <<kind, readRun, sawRun, sawRecords, answer, disturbed>>
    BY <1>0, <1>3 DEF AnswerSave, OthersStay, ReadersTypeOK
  <2>2. HandlerGoesOn(p) /\ SeesTheStore(p) /\ AnswersRight(p)
    BY <1>1, <2>1 DEF HandlerGoesOn, SeesTheStore, AnswersRight
  <2> QED
    BY <1>0, <2>1, <2>2, ReaderStepKeeps
<1>4. CASE ReadSummary(p)
  <2>1. /\ step[p] = "summary" /\ sawRun'[p] = run
        /\ UNCHANGED <<kind, readRun, previews, sawRecords, disturbed>> /\ OthersStay(p)
        /\ \/ run = NoRow /\ step'[p] = "done" /\ answer'[p] = "404"
           \/ run # NoRow /\ step'[p] = "records" /\ answer'[p] = answer[p]
    BY <1>0, <1>4 DEF ReadSummary, OthersStay, ReadersTypeOK
  <2>2. HandlerGoesOn(p) /\ SeesTheStore(p) /\ AnswersRight(p)
    BY <1>1, <2>1 DEF HandlerGoesOn, SeesTheStore, AnswersRight
  <2> QED
    BY <1>0, <2>1, <2>2, ReaderStepKeeps
<1>5. step[p] \in {"records", "body"} /\ ~disturbed[p] =>
        /\ sawRun[p] = run /\ run \in Savers /\ rows = RowsOf(run)
        /\ p \in Savers => run = p
  <2>1. run # NoRow => run \in Savers /\ rows = RowsOf(run)
    BY <1>1, SelectSeesOneDataset DEF ReadersInv
  <2> QED
    BY <1>1, <2>1 DEF UndisturbedSeesCurrent, ReadersInv
<1>6. CASE ReadPreview(p)
  <2>1. /\ step[p] = "records" /\ OthersStay(p) /\ sawRecords'[p] = rows
        /\ previews'[p] = previews[p] - 1
        /\ UNCHANGED <<kind, readRun, sawRun, disturbed>>
    <3>1. previews'[p] = previews[p] - 1 /\ sawRecords'[p] = rows
      BY <1>0, <1>6 DEF ReadPreview, ReadersTypeOK
    <3>2. OthersStay(p)
      BY <1>0, <1>6 DEF ReadPreview, OthersStay, ReadersTypeOK
    <3> QED
      BY <1>6, <3>1, <3>2 DEF ReadPreview
  <2>2. \/ step'[p] = "done" /\ answer'[p] = "404" /\ run = NoRow
        \/ step'[p] = "done" /\ answer'[p] = "500" /\ ~PreviewMatches(sawRun[p], rows)
        \/ step'[p] = "summary" /\ answer'[p] = answer[p] /\ previews[p] > 1
        \/ step'[p] = "done" /\ answer'[p] = "200" /\ run # NoRow /\ kind[p] = "preview"
        \/ step'[p] = "done" /\ answer'[p] = "409"
        \/ step'[p] = "body" /\ answer'[p] = answer[p] /\ run # NoRow
    BY <1>0, <1>6 DEF ReadPreview, ReadersTypeOK
  <2>3. ~disturbed[p] => PreviewMatches(sawRun[p], rows)
    BY <1>5, <2>1, OwnPreviewMatches DEF StoreInv, ReadersInv
  <2> HIDE DEF rows, run
  <2>4. HandlerGoesOn(p)
    BY <1>1, <2>1, <2>2 DEF HandlerGoesOn
  <2>5. SeesTheStore(p) /\ AnswersRight(p)
    BY <1>1, <1>5, <2>1, <2>2, <2>3, SaversAssumption DEF SeesTheStore, AnswersRight, rows, run
  <2> QED
    BY <1>0, <2>1, <2>4, <2>5, ReaderStepKeeps
<1>7. CASE ReadExportBody(p)
  <2>1. /\ step[p] = "body" /\ OthersStay(p) /\ sawRecords'[p] = rows
        /\ kind[p] = "export" /\ step'[p] = "done"
        /\ answer'[p] = IF run = NoRow THEN "404" ELSE "200"
        /\ UNCHANGED <<kind, readRun, previews, sawRun, disturbed>>
    BY <1>0, <1>7 DEF ReadExportBody, OthersStay, ReadersTypeOK
  <2>2. HandlerGoesOn(p) /\ SeesTheStore(p) /\ AnswersRight(p)
    BY <1>1, <1>5, <2>1 DEF HandlerGoesOn, SeesTheStore, AnswersRight
  <2> QED
    BY <1>0, <2>1, <2>2, ReaderStepKeeps
<1>8. CASE ReadQualityInputs(p)
  <2>1. /\ step[p] = "body" /\ OthersStay(p) /\ sawRecords'[p] = rows /\ step'[p] = "done"
        /\ \/ answer'[p] = "404" /\ run = NoRow
           \/ answer'[p] = "200" /\ run # NoRow /\ rows # {}
           \/ answer'[p] = "409"
        /\ UNCHANGED <<kind, readRun, previews, sawRun, disturbed>>
    BY <1>0, <1>8 DEF ReadQualityInputs, OthersStay, ReadersTypeOK
  <2>2. HandlerGoesOn(p) /\ SeesTheStore(p) /\ AnswersRight(p)
    BY <1>1, <1>5, <2>1 DEF HandlerGoesOn, SeesTheStore, AnswersRight
  <2> QED
    BY <1>0, <2>1, <2>2, ReaderStepKeeps
<1> QED
  BY <1>0, <1>2, <1>3, <1>4, <1>6, <1>7, <1>8 DEF Read

(* ReadersInv is inductive.                                                *)
LEMMA NextReadersInv == ReadersInv /\ [ReadersNext]_vars => ReadersInv'
<1> SUFFICES ASSUME ReadersInv, [ReadersNext]_vars PROVE ReadersInv'
  OBVIOUS
<1>1. CASE UNCHANGED vars
  BY <1>1 DEF vars, readerVars, storeVars, ReadersInv, StoreInv, TypeOK, OneDatasetPerRun,
     OneInserterPerRun, RowsAreCommitted, RowLocks, NoRecordLeftBehind, HasInsertedRun,
     RunKeyTaken, RowsOf, ReadersTypeOK, HandlersAreOrderly, FoundStaysFound,
     UndisturbedSeesCurrent, QualityHasRecords, AnswersCarryOneDataset,
     UndisturbedReadsAreCoherent, SavedRunIsFound
<1>2. ASSUME NEW s \in Savers, SaverStep(s) PROVE ReadersInv'
  <2>1. StoreInv'
    BY <1>2, NextStoreInv DEF SaverStep, Next, ReadersInv
  <2> QED
    BY <1>2, <2>1, SaverStepKeeps
<1>3. ASSUME NEW p \in Requests, ReaderStep(p) PROVE ReadersInv'
  BY <1>3, ReaderKeeps
<1> QED
  BY <1>1, <1>2, <1>3 DEF ReadersNext

(* ReadersInv holds in every reachable state.                              *)
THEOREM ReadersInvariant == ReadersSpec => []ReadersInv
BY InitReadersInv, NextReadersInv, PTL DEF ReadersSpec

(* The records of a 200 answer are those of one committed save_run of the  *)
(* run, however many saves ran while the request read.                     *)
THEOREM AnswersAreWhole == ReadersSpec => []AnswersCarryOneDataset
<1>1. ReadersInv => AnswersCarryOneDataset
  BY DEF ReadersInv
<1> QED
  BY <1>1, ReadersInvariant, PTL

(* A request that no save of its run overtakes reads one dataset whole.    *)
THEOREM UndisturbedRequestsAreCoherent == ReadersSpec => []UndisturbedReadsAreCoherent
<1>1. ReadersInv => UndisturbedReadsAreCoherent
  BY DEF ReadersInv
<1> QED
  BY <1>1, ReadersInvariant, PTL

(* Once a run has a dataset no request misses it.                          *)
THEOREM DatasetsStayAvailable == ReadersSpec => []SavedRunIsFound
<1>1. ReadersInv => SavedRunIsFound
  BY DEF ReadersInv
<1> QED
  BY <1>1, ReadersInvariant, PTL

(* A quality report is made from a COMPLETED dataset with records.         *)
THEOREM QualityInputsAreCompleted == ReadersSpec => []QualityUsesACompletedDataset
<1>1. ASSUME ReadersInv PROVE QualityUsesACompletedDataset
  <2> SUFFICES ASSUME NEW p \in Requests, kind[p] = "quality", answer[p] = "200"
               PROVE  \E s \in Savers : /\ IsCompleted(s) /\ RowsOf(s) # {}
                                        /\ sawRecords[p] = RowsOf(s)
    BY DEF QualityUsesACompletedDataset
  <2>1. PICK s \in Savers : sawRecords[p] = RowsOf(s)
    BY <1>1 DEF ReadersInv, AnswersCarryOneDataset
  <2>2. RowsOf(s) # {}
    BY <1>1, <2>1 DEF ReadersInv, QualityHasRecords
  <2>3. payload[s] \in AllPayloads
    BY <1>1 DEF ReadersInv, StoreInv, TypeOK
  <2>4. payload[s] # ProviderLimitation
    BY <2>2 DEF RowsOf, ProviderLimitation
  <2>5. IsCompleted(s)
    BY <2>3, <2>4 DEF AllPayloads, Payloads, IsCompleted
  <2> QED
    BY <2>1, <2>2, <2>5
<1> QED
  BY <1>1, ReadersInvariant, PTL
=============================================================================
