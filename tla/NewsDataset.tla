----------------------------- MODULE NewsDataset -----------------------------
(***************************************************************************)
(* DatasetOrchestrator.run_dataset from the provider's answer to what it   *)
(* hands to save_run: normalize_provider_records sorts the raw records and *)
(* drops repeated provider ids, then each record is scored and named.  A   *)
(* raw record is                                                           *)
(*   published  its instant, zone the UTC offset it is written with        *)
(*   id         the provider's id, 0 when it has none                      *)
(*   source     its source, 0 when it has none                             *)
(*   headline   its case-folded headline, 0 when it has none               *)
(*   terms      the policy terms in its title and body                     *)
(* Texts are compared as strings by the code; here they are numbered in    *)
(* the order of those strings.                                             *)
(***************************************************************************)
EXTENDS NewsFeed, SentimentPolicy

(* Junk has no fields; what else is no valid article lacks a headline or a *)
(* time.                                                                   *)
ASSUME ArticlesAssumption ==
  /\ NoTime \notin Int
  /\ \A a \in Articles \ {Junk} :
       /\ a.published \in Int \cup {NoTime} /\ a.zone \in Int
       /\ a.id \in Nat /\ a.source \in Nat /\ a.headline \in Nat

VARIABLES
  outcome,  \* how run_dataset ended
  dataset   \* the records it saves

vars == <<feedVars, outcome, dataset>>

Outcomes ==
  {"running", "COMPLETED", "FAILED_PROVIDER_LIMITATION", "ProviderNormalizationError", "error"}

DatasetInit == Init /\ outcome = "running" /\ dataset = {}

-----------------------------------------------------------------------------
(* normalize_provider_records over a sequence of raw records               *)

LexLess(s, t) ==
  \E k \in DOMAIN s : s[k] < t[k] /\ \A j \in 1..(k - 1) : s[j] = t[j]

(* isoformat() starts with the local date and time and ends with the       *)
(* offset; the original index is the last resort.                          *)
SortKey(raw, i) ==
  <<raw[i].published + raw[i].zone, raw[i].zone, raw[i].id, raw[i].source,
    raw[i].headline, i>>

Before(raw, i, j) == LexLess(SortKey(raw, i), SortKey(raw, j))

IsValid(article) == article.published # NoTime /\ article.headline # 0

(* _dedupe_exact_provider_ids keeps the first record of each provider id.  *)
Survives(raw, i) ==
  \/ raw[i].id = 0
  \/ \A j \in DOMAIN raw : raw[j].id = raw[i].id => j = i \/ Before(raw, i, j)

Survivors(raw) == {i \in DOMAIN raw : Survives(raw, i)}

DeterministicIndex(raw, i) == Cardinality({j \in Survivors(raw) : Before(raw, j, i)})

-----------------------------------------------------------------------------
(* Wrong variant: the generated name leaves the index out.                 *)
RecordIdWithoutIndex(raw, i) ==
  IF raw[i].id # 0 THEN <<"provider", raw[i].id>>
  ELSE <<"generated", raw[i].published, raw[i].zone, raw[i].headline, raw[i].source>>

(* _record_id; the digest of the input fingerprint is the dataset's own.   *)
RecordId(raw, i) ==
  IF raw[i].id # 0 THEN <<"provider", raw[i].id>>
  ELSE <<"generated", raw[i].published, raw[i].zone, raw[i].headline, raw[i].source,
         DeterministicIndex(raw, i)>>

(* Wrong variant: the score is kept whatever the relevance.                *)
DatasetRecordScored(raw, i) ==
  LET hasSource == raw[i].source # 0
      relevance == RelevanceForText(raw[i].terms, hasSource)
      score == ScoreText(raw[i].terms)
  IN  [recordId |-> RecordId(raw, i), timestamp |-> raw[i].published,
       relevance |-> relevance, score |-> score,
       bias |-> DirectionalBiasForScore(score),
       confidence |-> ClassificationConfidence(score, relevance, hasSource)]

(* _dataset_record: only relevant records have a score of their own.       *)
DatasetRecord(raw, i) ==
  LET hasSource == raw[i].source # 0
      relevance == RelevanceForText(raw[i].terms, hasSource)
      score == IF relevance = "RELEVANT" THEN ScoreText(raw[i].terms) ELSE 0
  IN  [recordId |-> RecordId(raw, i), timestamp |-> raw[i].published,
       relevance |-> relevance, score |-> score,
       bias |-> DirectionalBiasForScore(score),
       confidence |-> ClassificationConfidence(score, relevance, hasSource)]

RecordsOf(raw) == {DatasetRecord(raw, i) : i \in Survivors(raw)}

-----------------------------------------------------------------------------
RawRecords == [i \in DOMAIN records |-> content[records[i]]]

BuildDataset ==
  /\ state = "fetched" /\ outcome = "running"
  /\ IF \A i \in DOMAIN RawRecords : IsValid(RawRecords[i])
       THEN outcome' = "COMPLETED" /\ dataset' = RecordsOf(RawRecords)
       ELSE outcome' = "ProviderNormalizationError" /\ UNCHANGED dataset
  /\ UNCHANGED feedVars

(* Limitations, a missing configuration and an unavailable provider are    *)
(* all saved as a limitation with no records.                              *)
SaveProviderLimitation ==
  /\ state \in {"limitation", "unavailable"} /\ outcome = "running"
  /\ outcome' = "FAILED_PROVIDER_LIMITATION"
  /\ UNCHANGED <<feedVars, dataset>>

(* Any other exception passes through run_dataset: the request is answered *)
(* 500 and nothing is saved.                                               *)
PassOn ==
  /\ state = "broken" /\ outcome = "running"
  /\ outcome' = "error"
  /\ UNCHANGED <<feedVars, dataset>>

RunDataset == BuildDataset \/ SaveProviderLimitation \/ PassOn

Request ==
  \/ Fetch /\ UNCHANGED <<outcome, dataset>>
  \/ RunDataset

DatasetNext ==
  \/ Request
  \/ Provider /\ UNCHANGED <<outcome, dataset>>

(* The request's process takes its next step; nothing is asked of the      *)
(* provider, which need not publish or answer well.                        *)
DatasetSpec == DatasetInit /\ [][DatasetNext]_vars /\ WF_vars(Request)

-----------------------------------------------------------------------------
DatasetTypeOK ==
  /\ TypeOK
  /\ outcome \in Outcomes
  /\ outcome # "COMPLETED" => dataset = {}

(* uq_dataset_records_workspace_run_record_id never fails for a dataset:   *)
(* its records are as many as their names, also when the feed shifted and  *)
(* listed articles without an id twice.                                    *)
RecordIdsAreUnique ==
  outcome = "COMPLETED" =>
    /\ Cardinality({r.recordId : r \in dataset}) = Cardinality(Survivors(RawRecords))
    /\ Cardinality(dataset) = Cardinality(Survivors(RawRecords))

(* The raw records of a feed that does not move while it is read           *)
Unshifted ==
  LET wanted == {n \in 1..listed : Wanted(content[n])}
  IN  [i \in 1..Cardinality(wanted) |->
         content[CHOOSE n \in wanted : Cardinality({k \in wanted : k >= n}) = i]]

(* While the articles published meanwhile lie outside the timeframe and    *)
(* none is withdrawn, a feed at rest would have given a dataset too, with  *)
(* the same records of provider ids, whatever pages the request saw.       *)
ShiftedPagesChangeNothing ==
  /\ outcome = "COMPLETED" /\ withdrawn = 0
  /\ \A n \in (listed + 1)..Len(content) : ~Wanted(content[n])
  => /\ \A i \in DOMAIN Unshifted : IsValid(Unshifted[i])
     /\ {r \in dataset : r.recordId[1] = "provider"} =
          {r \in RecordsOf(Unshifted) : r.recordId[1] = "provider"}

(* A relevant record has a higher classification confidence than any other *)
(* record of the dataset, whatever the two texts say.                      *)
ConfidenceFollowsRelevance ==
  \A r, q \in dataset :
    r.relevance = "RELEVANT" /\ q.relevance # "RELEVANT" => r.confidence > q.confidence

(* fetch_historical_news ends although the feed grows while it is read:    *)
(* the pages overtake the articles published meanwhile.                    *)
RequestEnds == <>(outcome # "running")
=============================================================================
