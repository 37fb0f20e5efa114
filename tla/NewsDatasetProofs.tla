--------------------------- MODULE NewsDatasetProofs ---------------------------
(***************************************************************************)
(* For every feed, page limit and timeframe: what the client may lose of a *)
(* feed, and what the dataset made of its answer holds.                    *)
(***************************************************************************)
EXTENDS NewsDataset, FiniteSetTheorems, WellFoundedInduction, TLAPS

(* A page holds articles that are listed.                                  *)
LEMMA PageType ==
  ASSUME TypeOK, NEW o \in Nat
  PROVE  /\ PageAt(o) \in Seq(1..Len(content))
         /\ Len(PageAt(o)) \in Nat
         /\ \A k \in 1..Len(PageAt(o)) : PageAt(o)[k] = feed[Len(feed) - o + 1 - k]
         /\ Len(feed) - o < PageLimit => Len(PageAt(o)) = IF Len(feed) < o THEN 0 ELSE Len(feed) - o
         /\ Len(feed) - o >= PageLimit => Len(PageAt(o)) = PageLimit
<1> DEFINE left == Len(feed) - o
           size == IF left < 0 THEN 0 ELSE IF left < PageLimit THEN left ELSE PageLimit
<1>1. left \in Int /\ size \in Nat /\ (left >= 0 => size <= left) /\ (left < 0 => size = 0)
  BY PageLimitAssumption DEF TypeOK
<1>2. \A k \in 1..size : left + 1 - k \in 1..Len(feed)
  BY <1>1, SMT DEF TypeOK
<1>3. \A k \in 1..size : feed[left + 1 - k] \in 1..Len(content)
  <2>1. \A i \in 1..Len(feed) : feed[i] \in 1..Len(content)
    BY DEF TypeOK
  <2> HIDE DEF left, size
  <2> QED
    BY <1>2, <2>1, Zenon
<1>4. PageAt(o) = [k \in 1..size |-> feed[left + 1 - k]]
  BY DEF PageAt
<1>5. PageAt(o) \in Seq(1..Len(content)) /\ Len(PageAt(o)) = size
  BY <1>1, <1>3, <1>4
<1> QED
  BY <1>1, <1>4, <1>5, PageLimitAssumption

LEMMA InitFeedInv == Init => FeedInv
<1> SUFFICES ASSUME Init PROVE FeedInv
  OBVIOUS
<1>1. PICK n \in 0..MaxListed : content \in [1..n -> Articles]
  BY DEF Init
<1>2. content \in Seq(Articles) /\ Len(content) = n
  BY <1>1
<1>3. feed \in Seq(1..Len(content)) /\ Len(feed) = Len(content)
  BY <1>2 DEF Init
<1>4. TypeOK
  BY <1>2, <1>3 DEF Init, TypeOK, States, Ended
<1>5. NoneLost
  BY <1>2, <1>3 DEF Init, NoneLost, Behind
<1> QED
  BY <1>4, <1>5 DEF FeedInv

LEMMA PublishFeedInv ==
  ASSUME FeedInv, NEW a \in Articles, Publish(a)
  PROVE  FeedInv'
<1> USE DEF FeedInv
<1>1. content' \in Seq(Articles) /\ Len(content') = Len(content) + 1
  BY DEF TypeOK, Publish
<1>2. /\ feed' \in Seq(1..Len(content')) /\ Len(feed') = Len(feed) + 1
      /\ \A k \in 1..Len(feed) : feed'[k] = feed[k]
      /\ feed'[Len(feed) + 1] = Len(content) + 1
  <2>1. feed \in Seq(1..(Len(content) + 1)) /\ Len(content) + 1 \in 1..(Len(content) + 1)
    BY DEF TypeOK
  <2> QED
    BY <2>1, <1>1 DEF Publish
<1>3. page' \in Seq(1..Len(content')) /\ records' \in Seq(1..Len(content'))
  BY <1>1 DEF TypeOK, Publish, client
<1>4. TypeOK'
  BY <1>1, <1>2, <1>3 DEF TypeOK, Publish, client, States
<1>5. ASSUME withdrawn' = 0 PROVE NoneLost'
  <2>1. NoneLost /\ withdrawn = 0
    BY <1>5 DEF Publish
  <2>2. feed' = [n \in 1..Len(content') |-> n]
    <3>1. Len(feed) = Len(content)
      BY <2>1 DEF NoneLost, TypeOK
    <3>a. \A k \in 1..Len(feed) : feed[k] = k
      BY <2>1, <3>1 DEF NoneLost
    <3>b. Len(content) \in Nat
      BY DEF TypeOK
    <3>2. \A k \in 1..Len(content') : feed'[k] = k
      BY <3>a, <3>b, <3>1, <1>1, <1>2
    <3>3. DOMAIN feed' = 1..Len(content')
      BY <1>1, <1>2, <3>1
    <3> QED
      BY <3>2, <3>3, <1>2
  <2>3. \A n \in 1..listed : content'[n] = content[n]
    BY DEF TypeOK, Publish
  <2>4. Kept' = Kept /\ ToRead' = ToRead
    BY DEF Kept, ToRead, Publish, client
  <2>5. Behind \subseteq Behind'
    BY <1>2 DEF Behind, Publish, client, TypeOK
  <2> QED
    BY <2>1, <2>2, <2>3, <2>4, <2>5 DEF NoneLost, Wanted, IsInsideTimeframe, Publish, client
<1> QED
  BY <1>4, <1>5 DEF NoneLost

LEMMA WithdrawFeedInv ==
  ASSUME FeedInv, NEW i \in DOMAIN feed, Withdraw(i)
  PROVE  FeedInv'
<1> USE DEF FeedInv
<1>1. i \in 1..Len(feed) /\ Len(feed) - 1 \in Nat
  BY DEF TypeOK
<1>2. \A k \in 1..(Len(feed) - 1) : (IF k < i THEN feed[k] ELSE feed[k + 1]) \in 1..Len(content)
  <2>1. \A k \in 1..Len(feed) : feed[k] \in 1..Len(content)
    BY DEF TypeOK
  <2>2. Len(feed) \in Nat
    BY DEF TypeOK
  <2>3. ASSUME NEW k \in 1..(Len(feed) - 1)
        PROVE  (IF k < i THEN feed[k] ELSE feed[k + 1]) \in 1..Len(content)
    <3>1. k \in 1..Len(feed) /\ k + 1 \in 1..Len(feed)
      BY <2>2
    <3>2. feed[k] \in 1..Len(content) /\ feed[k + 1] \in 1..Len(content)
      BY <2>1, <3>1, Zenon
    <3> QED
      BY <3>2, Zenon
  <2> QED
    BY <2>3, Zenon
<1>3. feed' \in Seq(1..Len(content))
  <2>1. feed' = [k \in 1..(Len(feed) - 1) |-> IF k < i THEN feed[k] ELSE feed[k + 1]]
    BY DEF Withdraw
  <2>2. feed' \in [1..(Len(feed) - 1) -> 1..Len(content)]
    BY <1>2, <2>1, Zenon
  <2> QED
    BY <1>1, <2>2
<1>4. withdrawn' \in Nat /\ withdrawn' # 0
  BY DEF TypeOK, Withdraw
<1> QED
  BY <1>3, <1>4 DEF TypeOK, NoneLost, Withdraw, client

LEMMA FetchPageFeedInv ==
  ASSUME FeedInv, FetchPage
  PROVE  FeedInv'
<1> USE DEF FeedInv
<1>1. TypeOK'
  BY PageType DEF TypeOK, FetchPage, service, States
<1>2. ASSUME withdrawn' = 0 PROVE NoneLost'
  <2>1. /\ NoneLost /\ withdrawn = 0 /\ Len(feed) = Len(content)
        /\ Behind = 1..(Len(feed) - offset)
    BY <1>2 DEF FetchPage, service, NoneLost, TypeOK, Behind
  <2>2. ASSUME NEW n \in Behind, n \notin 1..(Len(feed) - offset - PageLimit)
        PROVE  n \in ToRead'
    <3> DEFINE k == Len(feed) - offset + 1 - n
               here == PageAt(offset)
    <3>0. /\ n \in 1..(Len(feed) - offset) /\ n > Len(feed) - offset - PageLimit
          /\ Len(feed) \in Nat /\ offset \in Nat
      BY <2>1, <2>2, PageLimitAssumption DEF TypeOK
    <3>a. /\ Len(here) \in Nat
          /\ \A j \in 1..Len(here) : here[j] = feed[Len(feed) - offset + 1 - j]
          /\ Len(feed) - offset < PageLimit =>
               Len(here) = IF Len(feed) < offset THEN 0 ELSE Len(feed) - offset
          /\ Len(feed) - offset >= PageLimit => Len(here) = PageLimit
      BY PageType DEF TypeOK
    <3>1. k \in 1..Len(here)
      BY <3>0, <3>a, PageLimitAssumption
    <3>2. here[k] = feed[n]
      <4>1. Len(feed) - offset + 1 - k = n
        BY <3>0
      <4> HIDE DEF k, here
      <4> QED
        BY <3>1, <3>a, <4>1
    <3>3. feed[n] = n
      BY <2>1 DEF NoneLost, TypeOK
    <3> QED
      BY <3>0, <3>1, <3>2, <3>3 DEF ToRead, FetchPage
  <2>3. Kept' = Kept /\ ToRead \subseteq ToRead' \cup Kept
    <3>1. page = <<>>
      BY DEF TypeOK, FetchPage
    <3>2. ToRead = {}
      BY <3>1 DEF ToRead, TypeOK
    <3> QED
      BY <3>2 DEF Kept, FetchPage
  <2>4. Behind' = 1..(Len(feed) - offset - PageLimit)
    BY DEF Behind, FetchPage, service
  <2> QED
    BY <2>1, <2>2, <2>3, <2>4 DEF NoneLost, FetchPage, service, Wanted, IsInsideTimeframe, PageAt
<1> QED
  BY <1>1, <1>2 DEF NoneLost
LEMMA KeepArticleFeedInv ==
  ASSUME FeedInv, KeepArticle
  PROVE  FeedInv'
<1> USE DEF FeedInv
<1> DEFINE n == page[at + 1]
<1>1. n \in 1..Len(content) /\ at + 1 \in 1..Len(page)
  BY DEF TypeOK, KeepArticle
<1>2. records' \in Seq(1..Len(content))
  <2>1. records' = IF Wanted(content[n]) THEN Append(records, n) ELSE records
    BY DEF KeepArticle
  <2>2. records \in Seq(1..Len(content))
    BY DEF TypeOK
  <2>3. Append(records, n) \in Seq(1..Len(content))
    <3> HIDE DEF n
    <3> QED
      BY <1>1, <2>2
  <2> QED
    BY <2>1, <2>2, <2>3
<1>3. TypeOK'
  <2>1. /\ at' = at + 1
        /\ UNCHANGED <<content, feed, listed, withdrawn, state, offset, page>>
    BY DEF KeepArticle, service
  <2>3. at' \in 0..Len(page)
    <3>1. at \in Nat /\ Len(page) \in Nat /\ at < Len(page)
      BY DEF TypeOK, KeepArticle
    <3> QED
      BY <2>1, <3>1
  <2>2. state = "reading"
    BY DEF KeepArticle
  <2> QED
    BY <1>2, <2>1, <2>2, <2>3 DEF TypeOK
<1>4. Kept \subseteq Kept' /\ (Wanted(content[n]) => n \in Kept')
  <2>1. CASE Wanted(content[n])
    <3>1. /\ Len(records') = Len(records) + 1 /\ records'[Len(records) + 1] = n
          /\ \A i \in 1..Len(records) : records'[i] = records[i]
          /\ Len(records) \in Nat
      BY <1>1, <2>1 DEF TypeOK, KeepArticle
    <3>2. /\ DOMAIN records = 1..Len(records) /\ DOMAIN records' = 1..Len(records')
      BY <1>2 DEF TypeOK
    <3>3. Len(records) + 1 \in DOMAIN records' /\ DOMAIN records \subseteq DOMAIN records'
      BY <3>1, <3>2
    <3> QED
      BY <3>1, <3>2, <3>3 DEF Kept
  <2>2. CASE ~Wanted(content[n])
    BY <2>2 DEF Kept, KeepArticle
  <2> QED
    BY <2>1, <2>2
<1>5. ToRead \subseteq ToRead' \cup {n}
  <2>1. \A k \in (at + 1)..Len(page) : k = at + 1 \/ k \in (at + 2)..Len(page)
    BY DEF TypeOK
  <2>2. at' + 1 = at + 2 /\ page' = page
    BY DEF TypeOK, KeepArticle
  <2> QED
    BY <2>1, <2>2 DEF ToRead
<1>6. Behind' = Behind
  BY DEF Behind, KeepArticle, service
<1>7. NoneLost'
  BY <1>4, <1>5, <1>6 DEF NoneLost, KeepArticle, service, PageAt, Wanted, IsInsideTimeframe
<1> QED
  BY <1>3, <1>7

LEMMA NextPageFeedInv ==
  ASSUME FeedInv, NextPage
  PROVE  FeedInv'
<1> USE DEF FeedInv
<1>1. TypeOK'
  BY PageLimitAssumption DEF TypeOK, NextPage, service, States, Ended
<1>2. ASSUME withdrawn' = 0 PROVE NoneLost'
  <2>1. /\ NoneLost /\ withdrawn = 0
        /\ Len(feed) \in Nat /\ offset \in Nat
    BY <1>2 DEF NextPage, service, TypeOK
  <2>2. /\ page = PageAt(offset) /\ Behind = 1..(Len(feed) - offset - PageLimit)
        /\ ToRead = {}
    BY <2>1 DEF NextPage, NoneLost, ToRead, Behind, TypeOK
  <2>3. Kept' = Kept
    BY DEF Kept, NextPage
  <2>4. CASE Len(page) < PageLimit
    <3>0. Len(feed) - offset >= PageLimit => Len(PageAt(offset)) = PageLimit
      BY PageType, <2>1
    <3>1. Len(feed) - offset < PageLimit
      BY <2>1, <2>2, <2>4, <3>0, PageLimitAssumption
    <3>2. Behind = {}
      BY <2>1, <2>2, <3>1, PageLimitAssumption
    <3> QED
      BY <2>1, <2>2, <2>3, <2>4, <3>2 DEF NoneLost, NextPage, service, Wanted, IsInsideTimeframe
  <2>5. CASE Len(page) >= PageLimit
    <3>1. Behind' = Behind
      <4>1. /\ state' = "fetching" /\ offset' = offset + PageLimit /\ feed' = feed
        BY <2>5, PageLimitAssumption DEF NextPage, service, TypeOK
      <4>2. Len(feed) - offset - PageLimit = Len(feed) - (offset + PageLimit)
        BY <2>1, PageLimitAssumption
      <4> QED
        BY <4>1, <4>2, <2>2 DEF Behind
    <3> QED
      BY <2>1, <2>2, <2>3, <2>5, <3>1
      DEF NoneLost, NextPage, service, TypeOK, Wanted, IsInsideTimeframe
  <2> QED
    BY <2>4, <2>5, PageLimitAssumption DEF TypeOK
<1> QED
  BY <1>1, <1>2 DEF NoneLost

(* A check of the key or a page that is no list of articles reads nothing. *)
LEMMA NoPageFeedInv ==
  ASSUME FeedInv, CheckKey \/ PageUnavailable \/ PageBreaks \/ UnexpectedPayload
  PROVE  FeedInv'
<1> USE DEF FeedInv, CheckKey, PageUnavailable, PageBreaks, UnexpectedPayload, service
<1>1. TypeOK'
  BY DEF TypeOK, States, Ended
<1>2. ToRead' = ToRead /\ Kept' = Kept
  BY DEF ToRead, Kept
<1>3. Behind' = Behind
  BY DEF Behind
<1> QED
  BY <1>1, <1>2, <1>3 DEF NoneLost, Wanted, IsInsideTimeframe

-----------------------------------------------------------------------------
(* Articles of the timeframe that are listed, and that the client will not *)
(* come across any more: neither kept, nor on its page, nor behind it.     *)
Lost ==
  {n \in 1..listed :
     /\ Wanted(content[n]) /\ n \notin Kept \cup ToRead
     /\ \E k \in DOMAIN feed : feed[k] = n
     /\ \A k \in Behind : feed[k] # n}

LossInv ==
  /\ \A j, k \in DOMAIN feed : j < k => feed[j] < feed[k]
  /\ state = "reading" => page = PageAt(offset)
  /\ Cardinality(Lost) <= withdrawn

LEMMA LostIsFinite ==
  ASSUME TypeOK
  PROVE  IsFiniteSet(Lost) /\ Cardinality(Lost) \in Nat
<1>1. IsFiniteSet(1..listed) /\ Lost \in SUBSET (1..listed)
  BY FS_Interval DEF Lost, TypeOK
<1> QED
  BY <1>1, FS_Subset, FS_CardinalityType

LEMMA LostShrinks ==
  ASSUME TypeOK, LossInv, NEW S \in SUBSET Lost
  PROVE  Cardinality(S) <= withdrawn
<1>1. Cardinality(S) <= Cardinality(Lost) /\ Cardinality(S) \in Nat
  BY LostIsFinite, FS_Subset, FS_CardinalityType
<1> QED
  BY <1>1, LostIsFinite DEF LossInv, TypeOK

LEMMA FeedDomain == ASSUME TypeOK PROVE DOMAIN feed = 1..Len(feed) /\ Len(feed) \in Nat
BY DEF TypeOK

LEMMA InitLoss == Init => LossInv
<1> SUFFICES ASSUME Init PROVE LossInv
  OBVIOUS
<1>1. TypeOK
  BY InitFeedInv DEF FeedInv
<1>2. \A j, k \in DOMAIN feed : j < k => feed[j] < feed[k]
  BY DEF Init
<1>3. Behind = DOMAIN feed
  BY <1>1, FeedDomain DEF Init, Behind
<1>4. Lost = {}
  BY <1>3 DEF Lost
<1> QED
  BY <1>2, <1>4, FS_EmptySet DEF LossInv, Init

LEMMA PublishLoss ==
  ASSUME TypeOK, LossInv, NEW a \in Articles, Publish(a)
  PROVE  LossInv'
<1>1. /\ state = "fetching" /\ content' = Append(content, a)
      /\ feed' = Append(feed, Len(content) + 1)
      /\ UNCHANGED <<listed, withdrawn, state, offset, page, at, records>>
  BY DEF Publish, client
<1>2. /\ Len(feed') = Len(feed) + 1 /\ Len(feed) \in Nat
      /\ \A k \in 1..Len(feed) : feed'[k] = feed[k] /\ feed[k] <= Len(content)
      /\ feed'[Len(feed) + 1] = Len(content) + 1 /\ Len(content) \in Nat
      /\ DOMAIN feed' = 1..(Len(feed) + 1) /\ DOMAIN feed = 1..Len(feed)
      /\ \A n \in 1..listed : content'[n] = content[n] /\ n <= Len(content)
      /\ offset \in Nat
  BY <1>1 DEF TypeOK
<1>3. \A j, k \in DOMAIN feed' : j < k => feed'[j] < feed'[k]
  <2> SUFFICES ASSUME NEW j \in DOMAIN feed', NEW k \in DOMAIN feed', j < k
               PROVE  feed'[j] < feed'[k]
    OBVIOUS
  <2>1. CASE k \in 1..Len(feed)
    <3>1. j \in 1..Len(feed) /\ feed[j] < feed[k]
      BY <1>2, <2>1 DEF LossInv
    <3> QED
      BY <1>2, <2>1, <3>1
  <2>2. CASE k = Len(feed) + 1
    <3>1. j \in 1..Len(feed)
      BY <1>2, <2>2
    <3>2. feed'[j] <= Len(content) /\ feed'[j] \in Nat
      BY <1>2, <3>1 DEF TypeOK
    <3> QED
      BY <1>2, <2>2, <3>2
  <2> QED
    BY <1>2, <2>1, <2>2
<1>4. Kept' = Kept /\ ToRead' = ToRead
  BY <1>1 DEF Kept, ToRead
<1>5. Behind \subseteq Behind' /\ Behind \subseteq 1..Len(feed)
  BY <1>1, <1>2 DEF Behind
<1>6. Lost' \subseteq Lost
  <2> SUFFICES ASSUME NEW n \in Lost' PROVE n \in Lost
    OBVIOUS
  <2>1. /\ n \in 1..listed /\ Wanted(content[n]) /\ n \notin Kept \cup ToRead
        /\ \E k \in DOMAIN feed' : feed'[k] = n
        /\ \A k \in Behind' : feed'[k] # n
    BY <1>1, <1>2, <1>4 DEF Lost, Wanted, IsInsideTimeframe
  <2>2. \E k \in DOMAIN feed : feed[k] = n
    BY <1>2, <2>1
  <2>3. \A k \in Behind : feed[k] # n
    BY <1>2, <1>5, <2>1
  <2> QED
    BY <2>1, <2>2, <2>3 DEF Lost
<1>7. Cardinality(Lost') <= withdrawn'
  BY <1>1, <1>6, LostShrinks
<1> QED
  BY <1>1, <1>3, <1>7 DEF LossInv

(* What the withdrawal moves to the page before is lost.                   *)
LEMMA WithdrawLoss ==
  ASSUME TypeOK, LossInv, NEW i \in DOMAIN feed, Withdraw(i)
  PROVE  LossInv'
<1>1. /\ state = "fetching" /\ withdrawn' = withdrawn + 1
      /\ feed' = [k \in 1..(Len(feed) - 1) |-> IF k < i THEN feed[k] ELSE feed[k + 1]]
      /\ UNCHANGED <<content, listed, state, offset, page, at, records>>
  BY DEF Withdraw, client
<1>2. /\ i \in 1..Len(feed) /\ Len(feed) \in Nat /\ DOMAIN feed = 1..Len(feed)
      /\ Len(feed') = Len(feed) - 1 /\ DOMAIN feed' = 1..(Len(feed) - 1)
      /\ \A k \in 1..(Len(feed) - 1) : feed'[k] = IF k < i THEN feed[k] ELSE feed[k + 1]
      /\ offset \in Nat
  <2>1. i \in 1..Len(feed) /\ Len(feed) \in Nat /\ DOMAIN feed = 1..Len(feed) /\ offset \in Nat
    BY FeedDomain DEF TypeOK
  <2> QED
    BY <1>1, <2>1
<1>3. \A j, k \in DOMAIN feed' : j < k => feed'[j] < feed'[k]
  <2> SUFFICES ASSUME NEW j \in 1..(Len(feed) - 1), NEW k \in 1..(Len(feed) - 1), j < k
               PROVE  feed'[j] < feed'[k]
    BY <1>2
  <2>1. PICK p \in 1..Len(feed), q \in 1..Len(feed) :
          p < q /\ feed'[j] = feed[p] /\ feed'[k] = feed[q]
    <3>1. CASE k < i
      BY <1>2, <3>1
    <3>2. CASE j < i /\ ~(k < i)
      <4>1. feed'[j] = feed[j] /\ feed'[k] = feed[k + 1] /\ k + 1 \in 1..Len(feed) /\ j < k + 1
            /\ j \in 1..Len(feed)
        BY <1>2, <3>2
      <4> QED
        BY <4>1
    <3>3. CASE ~(j < i)
      <4>1. /\ feed'[j] = feed[j + 1] /\ feed'[k] = feed[k + 1] /\ k + 1 \in 1..Len(feed)
            /\ j + 1 \in 1..Len(feed) /\ j + 1 < k + 1
        BY <1>2, <3>3
      <4> QED
        BY <4>1
    <3> QED
      BY <1>2, <3>1, <3>2, <3>3
  <2> QED
    BY <1>2, <2>1 DEF LossInv
<1>4. Kept' = Kept /\ ToRead' = ToRead
  BY <1>1 DEF Kept, ToRead
<1>5. Behind = 1..(Len(feed) - offset) /\ Behind' = 1..(Len(feed) - 1 - offset)
  BY <1>1, <1>2 DEF Behind
<1>6. Lost' \subseteq Lost \cup {feed[Len(feed) - offset]}
  <2> SUFFICES ASSUME NEW n \in Lost', n # feed[Len(feed) - offset] PROVE n \in Lost
    OBVIOUS
  <2>1. /\ n \in 1..listed /\ Wanted(content[n]) /\ n \notin Kept \cup ToRead
        /\ \A k \in Behind' : feed'[k] # n
    BY <1>1, <1>4 DEF Lost, Wanted, IsInsideTimeframe
  <2>2. PICK k \in 1..(Len(feed) - 1) : feed'[k] = n
    BY <1>2 DEF Lost
  <2>3. PICK p \in 1..Len(feed) : feed[p] = n /\ p # i
    BY <1>2, <2>2
  <2>4. ASSUME NEW j \in Behind, feed[j] = n PROVE FALSE
    <3>1. j \in 1..Len(feed) /\ j <= Len(feed) - offset
      BY <1>2, <1>5, <2>4
    <3>2. j = p
      <4>1. ~(j < p) /\ ~(p < j)
        <5>1. j < p => feed[j] < feed[p]
          BY <1>2, <3>1 DEF LossInv
        <5>2. p < j => feed[p] < feed[j]
          BY <1>2, <3>1 DEF LossInv
        <5> QED
          BY <2>1, <2>3, <2>4, <5>1, <5>2
      <4> QED
        BY <1>2, <3>1, <4>1
    <3>3. j # Len(feed) - offset
      BY <2>4
    <3>4. CASE j < i
      <4>1. j \in 1..(Len(feed) - 1) /\ j \in 1..(Len(feed) - 1 - offset)
        BY <1>2, <3>1, <3>3, <3>4
      <4>2. feed'[j] = feed[j]
        BY <1>2, <3>4, <4>1
      <4> QED
        BY <1>5, <2>1, <2>4, <4>1, <4>2
    <3>5. CASE j > i
      <4>1. /\ j - 1 \in Behind' /\ j - 1 \in 1..(Len(feed) - 1)
            /\ feed'[j - 1] = feed[j - 1 + 1] /\ j - 1 + 1 = j
        BY <1>2, <1>5, <3>1, <3>5
      <4> QED
        BY <2>1, <2>4, <4>1
    <3> QED
      BY <1>2, <2>3, <3>1, <3>2, <3>4, <3>5
  <2> QED
    BY <1>2, <2>1, <2>3, <2>4 DEF Lost
<1>7. Cardinality(Lost') <= withdrawn + 1
  <2> DEFINE last == feed[Len(feed) - offset]
             more == Lost \cup {last}
  <2> HIDE DEF last
  <2>0. IsFiniteSet(Lost) /\ Cardinality(Lost) \in Nat
    BY LostIsFinite
  <2>1. IsFiniteSet(more) /\ Cardinality(more) <= Cardinality(Lost) + 1
    <3>1. IsFiniteSet(more)
      BY <2>0, FS_AddElement
    <3>2. Cardinality(more) = IF last \in Lost THEN Cardinality(Lost) ELSE Cardinality(Lost) + 1
      BY <2>0, FS_AddElement
    <3> HIDE DEF more
    <3> QED
      BY <2>0, <3>1, <3>2
  <2>2. Cardinality(Lost') <= Cardinality(more) /\ Cardinality(Lost') \in Nat
    <3>1. Lost' \in SUBSET more
      BY <1>6 DEF last
    <3> HIDE DEF more
    <3> QED
      BY <2>1, <3>1, FS_Subset, FS_CardinalityType
  <2>3. Cardinality(more) \in Nat /\ Cardinality(Lost) \in Nat /\ withdrawn \in Nat
        /\ Cardinality(Lost) <= withdrawn
    BY <2>0, <2>1, FS_CardinalityType DEF TypeOK, LossInv
  <2> HIDE DEF more
  <2> QED
    BY <2>1, <2>2, <2>3
<1> QED
  BY <1>1, <1>3, <1>7 DEF LossInv

LEMMA FetchPageLoss ==
  ASSUME TypeOK, LossInv, FetchPage
  PROVE  LossInv'
<1>1. /\ state = "fetching" /\ state' = "reading" /\ page' = PageAt(offset) /\ at' = 0
      /\ page = <<>>
      /\ UNCHANGED <<content, feed, listed, withdrawn, offset, records>>
  BY DEF FetchPage, service, TypeOK
<1>2. Len(feed) \in Nat /\ DOMAIN feed = 1..Len(feed) /\ offset \in Nat
      /\ PageLimit \in Nat \ {0}
  BY FeedDomain, PageLimitAssumption DEF TypeOK
<1>3. /\ Behind = 1..(Len(feed) - offset)
      /\ Behind' = 1..(Len(feed) - offset - PageLimit)
      /\ Kept' = Kept
  BY <1>1 DEF Behind, Kept
<1>4. Lost' \subseteq Lost
  <2> SUFFICES ASSUME NEW n \in Lost' PROVE n \in Lost
    OBVIOUS
  <2>1. /\ n \in 1..listed /\ Wanted(content[n]) /\ n \notin Kept /\ n \notin ToRead'
        /\ \E k \in DOMAIN feed : feed[k] = n
        /\ \A k \in Behind' : feed[k] # n
    BY <1>1, <1>3 DEF Lost, Wanted, IsInsideTimeframe
  <2>2. n \notin ToRead
    BY <1>1 DEF ToRead, TypeOK
  <2>3. ASSUME NEW k \in Behind, feed[k] = n PROVE FALSE
    <3> DEFINE here == PageAt(offset)
               j == Len(feed) - offset + 1 - k
    <3>1. k \in 1..(Len(feed) - offset) /\ k > Len(feed) - offset - PageLimit
      BY <1>2, <1>3, <2>1, <2>3
    <3>2. /\ Len(here) \in Nat
          /\ \A q \in 1..Len(here) : here[q] = feed[Len(feed) - offset + 1 - q]
          /\ Len(feed) - offset < PageLimit =>
               Len(here) = IF Len(feed) < offset THEN 0 ELSE Len(feed) - offset
          /\ Len(feed) - offset >= PageLimit => Len(here) = PageLimit
      BY PageType DEF TypeOK
    <3>3. j \in 1..Len(here)
      <4> HIDE DEF here
      <4>1. j >= 1 /\ j <= PageLimit /\ j <= Len(feed) - offset /\ j \in Int
        BY <1>2, <3>1
      <4>2. ~(Len(feed) < offset)
        BY <1>2, <3>1
      <4>3. /\ Len(feed) - offset < PageLimit => Len(here) = Len(feed) - offset
            /\ Len(feed) - offset >= PageLimit => Len(here) = PageLimit
            /\ Len(here) \in Nat
        BY <3>2, <4>2
      <4> DEFINE left == Len(feed) - offset
                 size == Len(here)
      <4> HIDE DEF j
      <4>4. left \in Int /\ (left < PageLimit \/ left >= PageLimit)
        BY <1>2
      <4>5. j <= size /\ size \in Nat
        <5>1. CASE left < PageLimit
          BY <4>1, <4>3, <5>1
        <5>2. CASE left >= PageLimit
          BY <4>1, <4>3, <5>2
        <5> QED
          BY <4>4, <5>1, <5>2
      <4> HIDE DEF size
      <4>6. j \in 1..size
        BY <4>1, <4>5
      <4> QED
        BY <4>6 DEF size
    <3>4. here[j] = n
      <4>1. Len(feed) - offset + 1 - j = k
        BY <1>2, <3>1
      <4> HIDE DEF j, here
      <4> QED
        BY <2>3, <3>2, <3>3, <4>1
    <3> QED
      BY <1>1, <2>1, <3>3, <3>4 DEF ToRead
  <2> QED
    BY <2>1, <2>2, <2>3 DEF Lost
<1>5. Cardinality(Lost') <= withdrawn'
  BY <1>1, <1>4, LostShrinks
<1>6. PageAt(offset)' = PageAt(offset)
  BY <1>1 DEF PageAt
<1> QED
  BY <1>1, <1>5, <1>6 DEF LossInv

(* What is read of a page and where the article goes.                      *)
LEMMA ReadArticle ==
  ASSUME TypeOK, KeepArticle
  PROVE  /\ page[at + 1] \in 1..Len(content)
         /\ Kept \subseteq Kept' /\ Kept' \subseteq Kept \cup {page[at + 1]}
         /\ page[at + 1] \in Kept' <=> page[at + 1] \in Kept \/ Wanted(content[page[at + 1]])
         /\ ToRead = ToRead' \cup {page[at + 1]}
<1> DEFINE n == page[at + 1]
<1>1. n \in 1..Len(content) /\ at + 1 \in 1..Len(page)
  BY DEF TypeOK, KeepArticle
<1>2. /\ Kept \subseteq Kept' /\ Kept' \subseteq Kept \cup {n}
      /\ n \in Kept' <=> n \in Kept \/ Wanted(content[n])
  <2>1. CASE Wanted(content[n])
    <3>1. /\ Len(records') = Len(records) + 1 /\ records'[Len(records) + 1] = n
          /\ \A i \in 1..Len(records) : records'[i] = records[i]
          /\ Len(records) \in Nat
          /\ DOMAIN records = 1..Len(records) /\ DOMAIN records' = 1..(Len(records) + 1)
      BY <1>1, <2>1 DEF TypeOK, KeepArticle
    <3>2. Len(records) + 1 \in DOMAIN records' /\ DOMAIN records \subseteq DOMAIN records'
      BY <3>1
    <3>3. \A i \in DOMAIN records' : i \in DOMAIN records \/ i = Len(records) + 1
      BY <3>1
    <3> QED
      BY <2>1, <3>1, <3>2, <3>3 DEF Kept
  <2>2. CASE ~Wanted(content[n])
    BY <2>2 DEF Kept, KeepArticle
  <2> QED
    BY <2>1, <2>2
<1>3. ToRead = ToRead' \cup {n}
  <2>1. (at + 1)..Len(page) = {at + 1} \cup (at + 2)..Len(page)
    BY <1>1 DEF TypeOK
  <2>2. at' + 1 = at + 2 /\ page' = page
    BY DEF TypeOK, KeepArticle
  <2>3. ToRead' = {page[k] : k \in (at + 2)..Len(page)}
    BY <2>2 DEF ToRead
  <2> QED
    BY <2>1, <2>3 DEF ToRead
<1> QED
  BY <1>1, <1>2, <1>3

LEMMA KeepArticleLoss ==
  ASSUME TypeOK, LossInv, KeepArticle
  PROVE  LossInv'
<1>1. /\ state = "reading"
      /\ UNCHANGED <<content, feed, listed, withdrawn, state, offset, page>>
  BY DEF KeepArticle, service
<1>2. Behind' = Behind /\ PageAt(offset)' = PageAt(offset)
  BY <1>1 DEF Behind, PageAt
<1>3. Lost' \subseteq Lost
  <2> SUFFICES ASSUME NEW n \in Lost' PROVE n \in Lost
    OBVIOUS
  <2>1. /\ n \in 1..listed /\ Wanted(content[n]) /\ n \notin Kept' /\ n \notin ToRead'
        /\ \E k \in DOMAIN feed : feed[k] = n
        /\ \A k \in Behind : feed[k] # n
    BY <1>1, <1>2 DEF Lost, Wanted, IsInsideTimeframe
  <2>2. n \notin Kept \cup ToRead
    BY <2>1, ReadArticle
  <2> QED
    BY <2>1, <2>2 DEF Lost
<1>4. Cardinality(Lost') <= withdrawn'
  BY <1>1, <1>3, LostShrinks
<1> QED
  BY <1>1, <1>2, <1>4 DEF LossInv

LEMMA NextPageLoss ==
  ASSUME TypeOK, LossInv, NextPage
  PROVE  LossInv'
<1>1. /\ state = "reading" /\ at = Len(page) /\ page' = <<>> /\ page = PageAt(offset)
      /\ UNCHANGED <<content, feed, listed, withdrawn, records>>
      /\ \/ Len(page) < PageLimit /\ state' = "fetched"
         \/ /\ Len(page) >= PageLimit /\ state' = "fetching" /\ offset' = offset + PageLimit
  <2>1. Len(page) < PageLimit \/ Len(page) >= PageLimit
    BY PageLimitAssumption DEF TypeOK
  <2>2. state = "reading" /\ page = PageAt(offset)
    BY DEF NextPage, LossInv
  <2> QED
    BY <2>1, <2>2 DEF NextPage, service
<1>2. Len(feed) \in Nat /\ offset \in Nat /\ Len(page) \in Nat /\ PageLimit \in Nat \ {0}
  BY PageLimitAssumption DEF TypeOK
<1>3. Behind = 1..(Len(feed) - offset - PageLimit) /\ Kept' = Kept /\ ToRead = {}
  BY <1>1, <1>2 DEF Behind, Kept, ToRead
<1>4. Behind \subseteq Behind'
  <2>1. CASE Len(page) < PageLimit /\ state' = "fetched"
    <3>1. Len(feed) - offset >= PageLimit => Len(PageAt(offset)) = PageLimit
      BY PageType, <1>2
    <3>2. Behind = {}
      BY <1>1, <1>2, <1>3, <2>1, <3>1
    <3> QED
      BY <3>2
  <2>2. CASE state' = "fetching" /\ offset' = offset + PageLimit
    BY <1>1, <1>2, <1>3, <2>2 DEF Behind
  <2> QED
    BY <1>1, <2>1, <2>2
<1>5. Lost' \subseteq Lost
  <2> SUFFICES ASSUME NEW n \in Lost' PROVE n \in Lost
    OBVIOUS
  <2>1. /\ n \in 1..listed /\ Wanted(content[n]) /\ n \notin Kept
        /\ \E k \in DOMAIN feed : feed[k] = n
        /\ \A k \in Behind' : feed[k] # n
    BY <1>1, <1>3 DEF Lost, Wanted, IsInsideTimeframe
  <2> QED
    BY <1>3, <1>4, <2>1 DEF Lost
<1>6. Cardinality(Lost') <= withdrawn'
  BY <1>1, <1>5, LostShrinks
<1> QED
  BY <1>1, <1>6 DEF LossInv

LEMMA NoPageLoss ==
  ASSUME TypeOK, LossInv, CheckKey \/ PageUnavailable \/ PageBreaks \/ UnexpectedPayload
  PROVE  LossInv'
<1>1. /\ state \in {"asked", "fetching"}
      /\ state' \in {"fetching", "limitation", "unavailable", "broken"}
      /\ UNCHANGED <<content, feed, listed, withdrawn, offset, page, at, records>>
  BY DEF CheckKey, PageUnavailable, PageBreaks, UnexpectedPayload, service
<1>2. Behind' = Behind /\ Kept' = Kept /\ ToRead' = ToRead
  BY <1>1 DEF Behind, Kept, ToRead
<1>3. Lost' = Lost
  BY <1>1, <1>2 DEF Lost, Wanted, IsInsideTimeframe
<1> QED
  BY <1>1, <1>3 DEF LossInv

(* At the end there is nothing left to read, and what is missed is lost.   *)
LEMMA LossBounds == TypeOK /\ LossInv => MissedOnlyByWithdrawal
<1> SUFFICES ASSUME TypeOK, LossInv, state = "fetched"
             PROVE  Cardinality(Missed) <= withdrawn
  BY DEF MissedOnlyByWithdrawal
<1>1. ToRead = {} /\ Behind = {}
  BY DEF TypeOK, ToRead, Behind
<1>2. Missed = Lost
  BY <1>1 DEF Missed, Lost
<1> QED
  BY <1>2 DEF LossInv

(* An article listed when the request began is kept before every older one *)
(* while nothing is withdrawn.                                             *)
NewestFirst ==
  \A i \in DOMAIN records, n \in 1..listed :
    Wanted(content[n]) /\ n > records[i] => \E j \in 1..(i - 1) : records[j] = n

RecordsInv ==
  /\ \A i \in DOMAIN records : Wanted(content[records[i]])
  /\ withdrawn = 0 => NewestFirst

ClientInv == FeedInv /\ LossInv /\ RecordsInv

LEMMA InitRecords == Init => RecordsInv
BY DEF Init, RecordsInv, NewestFirst

(* The page's next article is older than all that is still to come.        *)
LEMMA NewerIsKept ==
  ASSUME FeedInv, KeepArticle, withdrawn = 0,
         NEW n \in 1..listed, Wanted(content[n]), n > page[at + 1]
  PROVE  n \in Kept
<1> DEFINE left == Len(feed) - offset
<1>1. /\ left \in Int /\ PageLimit \in Nat \ {0} /\ at \in Nat /\ at + 1 \in 1..Len(page)
      /\ Len(feed) = Len(content) /\ n \in Int /\ Len(page) \in Nat
  <2>1. /\ Len(feed) \in Nat /\ offset \in Nat /\ Len(page) \in Nat /\ at \in 0..Len(page)
        /\ n \in Int
    BY DEF FeedInv, TypeOK
  <2>2. at < Len(page)
    BY DEF KeepArticle
  <2>3. Len(content) \in Nat /\ feed = [m \in 1..Len(content) |-> m]
    BY DEF FeedInv, TypeOK, NoneLost
  <2>4. Len(feed) = Len(content)
    BY <2>3
  <2> QED
    BY <2>1, <2>2, <2>4, PageLimitAssumption
<1>2. /\ \A k \in 1..Len(page) : page[k] = feed[left + 1 - k]
      /\ left < PageLimit => Len(page) = IF Len(feed) < offset THEN 0 ELSE left
      /\ left >= PageLimit => Len(page) = PageLimit
  <2>1. page = PageAt(offset) /\ offset \in Nat
    BY DEF FeedInv, NoneLost, TypeOK, KeepArticle
  <2> QED
    BY <2>1, PageType DEF FeedInv
<1>3. \A k \in 1..Len(page) : left + 1 - k \in 1..Len(feed)
  <2> SUFFICES ASSUME NEW k \in 1..Len(page) PROVE left + 1 - k \in 1..Len(feed)
    OBVIOUS
  <2> DEFINE size == Len(page)
  <2>1. offset \in Nat /\ Len(feed) \in Nat /\ PageLimit \in Nat
    BY <1>1 DEF FeedInv, TypeOK
  <2>2. size = 0 \/ size = left \/ (size = PageLimit /\ left >= PageLimit)
    BY <1>1, <1>2
  <2>3. size \in Nat /\ k \in 1..size
    BY <1>1
  <2> HIDE DEF size
  <2>4. k \in Int /\ k >= 1 /\ k <= left
    <3>1. CASE size = 0
      BY <2>3, <3>1
    <3>2. CASE size = left
      BY <2>3, <3>2
    <3>3. CASE size = PageLimit /\ left >= PageLimit
      BY <2>1, <2>3, <3>3
    <3> QED
      BY <2>2, <3>1, <3>2, <3>3
  <2> QED
    BY <2>1, <2>4
<1>4. \A k \in 1..Len(page) : page[k] = left + 1 - k
  <2>1. \A k \in 1..Len(feed) : feed[k] = k
    BY <1>1 DEF FeedInv, NoneLost
  <2> QED
    BY <1>2, <1>3, <2>1
<1>5. n \notin ToRead
  <2> SUFFICES ASSUME NEW k \in (at + 1)..Len(page), n = page[k] PROVE FALSE
    BY DEF ToRead
  <2>1. k \in 1..Len(page) /\ k >= at + 1
    BY <1>1
  <2> QED
    BY <1>1, <1>4, <2>1
<1>6. n \notin Behind
  <2> SUFFICES ASSUME n \in 1..(left - PageLimit) PROVE FALSE
    BY DEF Behind, KeepArticle
  <2>1. Len(page) = PageLimit
    BY <1>1, <1>2
  <2> QED
    BY <1>1, <1>4, <2>1
<1> QED
  BY <1>5, <1>6 DEF FeedInv, NoneLost

LEMMA KeepArticleRecords ==
  ASSUME FeedInv, RecordsInv, KeepArticle
  PROVE  RecordsInv'
<1> DEFINE m == page[at + 1]
<1>1. UNCHANGED <<content, listed, withdrawn>>
  BY DEF KeepArticle, service
<1>2. m \in 1..Len(content) /\ records \in Seq(1..Len(content))
  BY DEF FeedInv, TypeOK, KeepArticle
<1>3. CASE ~Wanted(content[m])
  <2>1. records' = records
    BY <1>3 DEF KeepArticle
  <2> QED
    BY <1>1, <2>1 DEF RecordsInv, NewestFirst, Wanted, IsInsideTimeframe
<1>4. CASE Wanted(content[m])
  <2>1. records' = Append(records, m)
    BY <1>4 DEF KeepArticle
  <2> HIDE DEF m
  <2>2. /\ DOMAIN records = 1..Len(records) /\ DOMAIN records' = 1..(Len(records) + 1)
        /\ \A i \in 1..Len(records) : records'[i] = records[i]
        /\ records'[Len(records) + 1] = m /\ Len(records) \in Nat
    BY <1>2, <2>1
  <2>3. \A i \in DOMAIN records' : Wanted(content'[records'[i]])
    <3>1. \A i \in DOMAIN records : Wanted(content[records[i]])
      BY DEF RecordsInv
    <3>2. \A i \in DOMAIN records' : i \in 1..Len(records) \/ i = Len(records) + 1
      BY <2>2
    <3> QED
      BY <1>1, <1>4, <2>2, <3>1, <3>2
  <2>4. ASSUME withdrawn = 0, NEW i \in DOMAIN records', NEW n \in 1..listed,
               Wanted(content[n]), n > records'[i]
        PROVE  \E j \in 1..(i - 1) : records'[j] = n
    <3>1. CASE i \in 1..Len(records)
      <4>1. PICK j \in 1..(i - 1) : records[j] = n
        BY <2>2, <2>4, <3>1 DEF RecordsInv, NewestFirst
      <4>2. j \in 1..Len(records)
        BY <2>2, <3>1
      <4> QED
        BY <2>2, <4>1, <4>2
    <3>2. CASE i = Len(records) + 1
      <4>1. n \in Kept
        BY <2>2, <2>4, <3>2, NewerIsKept DEF m
      <4>2. PICK j \in DOMAIN records : records[j] = n
        BY <4>1 DEF Kept
      <4>3. j \in 1..(i - 1) /\ records'[j] = n
        BY <2>2, <3>2, <4>2
      <4> QED
        BY <4>3
    <3> QED
      BY <2>2, <3>1, <3>2
  <2>5. withdrawn' = 0 => NewestFirst'
    BY <1>1, <2>4, Zenon DEF NewestFirst, Wanted, IsInsideTimeframe
  <2> QED
    BY <1>1, <2>3, <2>5 DEF RecordsInv, Wanted, IsInsideTimeframe
<1> QED
  BY <1>3, <1>4

LEMMA PublishRecords ==
  ASSUME FeedInv, RecordsInv, NEW a \in Articles, Publish(a)
  PROVE  RecordsInv'
<1>1. /\ UNCHANGED <<records, listed, withdrawn>>
      /\ \A n \in 1..Len(content) : content'[n] = content[n]
      /\ listed \in 0..Len(content) /\ Len(content) \in Nat
      /\ \A i \in DOMAIN records : records[i] \in 1..Len(content)
  BY DEF Publish, client, FeedInv, TypeOK
<1>2. \A i \in DOMAIN records' : Wanted(content'[records'[i]])
  BY <1>1 DEF RecordsInv, Wanted, IsInsideTimeframe
<1>3. \A n \in 1..listed : n \in 1..Len(content)
  BY <1>1
<1>4. withdrawn' = 0 => NewestFirst'
  BY <1>1, <1>3 DEF RecordsInv, NewestFirst, Wanted, IsInsideTimeframe
<1> QED
  BY <1>2, <1>4 DEF RecordsInv

(* The other steps keep nothing and change no article.                     *)
LEMMA OtherRecords ==
  ASSUME RecordsInv, UNCHANGED <<content, listed, records>>, withdrawn' = 0 => withdrawn = 0
  PROVE  RecordsInv'
BY DEF RecordsInv, NewestFirst, Wanted, IsInsideTimeframe

LEMMA ClientInvStep ==
  ASSUME ClientInv, [Fetch \/ Provider]_feedVars
  PROVE  ClientInv'
<1> USE DEF ClientInv
<1>0. TypeOK
  BY DEF FeedInv
<1>1. CASE CheckKey \/ PageUnavailable \/ PageBreaks \/ UnexpectedPayload
  <2>1. UNCHANGED <<content, listed, records, withdrawn>>
    BY <1>1 DEF CheckKey, PageUnavailable, PageBreaks, UnexpectedPayload, service
  <2> QED
    BY <1>0, <1>1, <2>1, NoPageFeedInv, NoPageLoss, OtherRecords
<1>2. CASE FetchPage
  <2>1. UNCHANGED <<content, listed, records, withdrawn>>
    BY <1>2 DEF FetchPage, service
  <2> QED
    BY <1>0, <1>2, <2>1, FetchPageFeedInv, FetchPageLoss, OtherRecords
<1>3. CASE KeepArticle
  BY <1>0, <1>3, KeepArticleFeedInv, KeepArticleLoss, KeepArticleRecords
<1>4. CASE NextPage
  <2>1. UNCHANGED <<content, listed, records, withdrawn>>
    BY <1>4 DEF NextPage, service
  <2> QED
    BY <1>0, <1>4, <2>1, NextPageFeedInv, NextPageLoss, OtherRecords
<1>5. CASE \E a \in Articles : Publish(a)
  BY <1>0, <1>5, PublishFeedInv, PublishLoss, PublishRecords
<1>6. ASSUME NEW i \in DOMAIN feed, Withdraw(i) PROVE ClientInv'
  <2>1. UNCHANGED <<content, listed, records>> /\ (withdrawn' = 0 => withdrawn = 0)
    BY <1>0, <1>6 DEF Withdraw, client, TypeOK
  <2> QED
    BY <1>0, <1>6, <2>1, WithdrawFeedInv, WithdrawLoss, OtherRecords
<1>7. CASE UNCHANGED feedVars
  <2>1. FeedInv'
    BY <1>7 DEF FeedInv, TypeOK, NoneLost, Kept, ToRead, Behind, PageAt, Wanted,
       IsInsideTimeframe, feedVars, service, client
  <2>2. LossInv'
    BY <1>7 DEF LossInv, Lost, Kept, ToRead, Behind, PageAt, Wanted,
       IsInsideTimeframe, feedVars, service, client
  <2>3. RecordsInv'
    BY <1>7, OtherRecords DEF feedVars, service, client
  <2> QED
    BY <2>1, <2>2, <2>3
<1> QED
  BY <1>1, <1>2, <1>3, <1>4, <1>5, <1>6, <1>7 DEF Fetch, Provider

(* What the paging loop holds and keeps, and what it lost so far.          *)
THEOREM FeedInvariant == FeedSpec => []ClientInv
<1>1. Init => ClientInv
  BY InitFeedInv, InitLoss, InitRecords DEF ClientInv
<1> QED
  BY <1>1, ClientInvStep, PTL DEF FeedSpec

(* A dataset request reads the feed as fetch_historical_news does.         *)
THEOREM DatasetFetches == DatasetSpec => FeedSpec
<1>1. [DatasetNext]_vars => [Fetch \/ Provider]_feedVars
  BY DEF DatasetNext, Request, RunDataset, BuildDataset, SaveProviderLimitation, PassOn, vars
<1> QED
  BY <1>1, PTL DEF DatasetSpec, DatasetInit, FeedSpec

(* Each withdrawal costs the answer one article at most.                   *)
THEOREM LossesAreWithdrawals == DatasetSpec => []MissedOnlyByWithdrawal
<1>1. ClientInv => MissedOnlyByWithdrawal
  BY LossBounds DEF ClientInv, FeedInv
<1> QED
  BY <1>1, FeedInvariant, DatasetFetches, PTL

-----------------------------------------------------------------------------
(* What the client will still come across, and what of it may be there a   *)
(* second time: an article as new as one that is kept.                     *)
Ahead == ToRead \cup {feed[k] : k \in Behind}
MayRepeat == {n \in Ahead : \E m \in Kept : m <= n}

(* The repetitions so far and those to come are paid for by publications.  *)
RepeatInv ==
  Len(records) + Cardinality(MayRepeat) <= Cardinality(Kept) + (Len(content) - listed)

LEMMA BehindIsListed ==
  ASSUME TypeOK
  PROVE  Behind \subseteq 1..Len(feed)
BY PageLimitAssumption DEF TypeOK, Behind

LEMMA AheadIsFinite ==
  ASSUME TypeOK
  PROVE  /\ Ahead \subseteq 1..Len(content) /\ Kept \subseteq 1..Len(content)
         /\ Len(content) \in Nat /\ listed \in Nat /\ Len(records) \in Nat
         /\ IsFiniteSet(MayRepeat) /\ Cardinality(MayRepeat) \in Nat
         /\ IsFiniteSet(Kept) /\ Cardinality(Kept) \in Nat
<1>1. Len(content) \in Nat /\ listed \in Nat /\ Len(records) \in Nat
  BY DEF TypeOK
<1>2. Kept \subseteq 1..Len(content)
  <2>1. \A i \in DOMAIN records : records[i] \in 1..Len(content)
    BY DEF TypeOK
  <2> QED
    BY <2>1 DEF Kept
<1>3. ToRead \subseteq 1..Len(content)
  <2>1. \A k \in (at + 1)..Len(page) : page[k] \in 1..Len(content)
    BY DEF TypeOK
  <2> QED
    BY <2>1 DEF ToRead
<1>4. {feed[k] : k \in Behind} \subseteq 1..Len(content)
  <2>1. \A k \in 1..Len(feed) : feed[k] \in 1..Len(content)
    BY DEF TypeOK
  <2> QED
    BY <2>1, BehindIsListed
<1>5. Ahead \subseteq 1..Len(content)
  BY <1>3, <1>4 DEF Ahead
<1>6. IsFiniteSet(1..Len(content)) /\ MayRepeat \in SUBSET (1..Len(content))
  <2>1. 0 \in Int /\ 1 \in Int /\ Len(content) \in Int
    BY <1>1
  <2>2. IsFiniteSet(1..Len(content))
    BY <2>1, FS_Interval
  <2>3. MayRepeat \in SUBSET Ahead
    BY DEF MayRepeat
  <2> QED
    BY <1>5, <2>2, <2>3
<1>7. Kept \in SUBSET (1..Len(content))
  BY <1>2
<1>8. IsFiniteSet(MayRepeat) /\ IsFiniteSet(Kept)
  BY <1>6, <1>7, FS_Subset
<1> QED
  BY <1>1, <1>2, <1>5, <1>8, FS_CardinalityType

(* A step that keeps nothing and publishes nothing brings nothing back.    *)
LEMMA NothingComesBack ==
  ASSUME TypeOK, RepeatInv, UNCHANGED <<content, listed, records>>, Ahead' \subseteq Ahead
  PROVE  RepeatInv'
<1>1. Kept' = Kept /\ MayRepeat' \subseteq MayRepeat
  BY DEF Kept, MayRepeat
<1>2. Cardinality(MayRepeat') <= Cardinality(MayRepeat) /\ Cardinality(MayRepeat') \in Nat
  BY <1>1, AheadIsFinite, FS_Subset, FS_CardinalityType
<1> DEFINE before == Cardinality(MayRepeat)
           after == Cardinality(MayRepeat')
           kept == Cardinality(Kept)
<1>3. /\ after <= before /\ after \in Nat /\ before \in Nat /\ kept \in Nat
      /\ Len(records) \in Nat /\ Len(content) \in Nat /\ listed \in Nat
      /\ Len(records) + before <= kept + (Len(content) - listed)
  BY <1>2, AheadIsFinite DEF RepeatInv
<1> HIDE DEF before, after, kept
<1>4. Len(records) + after <= kept + (Len(content) - listed)
  BY <1>3
<1> QED
  BY <1>1, <1>4 DEF RepeatInv, after, kept

LEMMA FetchPageRepeats ==
  ASSUME TypeOK, FetchPage
  PROVE  Ahead' \subseteq Ahead
<1>1. /\ state = "fetching" /\ state' = "reading" /\ page' = PageAt(offset) /\ at' = 0
      /\ feed' = feed /\ offset' = offset
  BY DEF FetchPage, service
<1>2. Len(feed) \in Nat /\ offset \in Nat /\ PageLimit \in Nat \ {0}
  BY PageLimitAssumption DEF TypeOK
<1>3. Behind = 1..(Len(feed) - offset) /\ Behind' \subseteq Behind
  BY <1>1, <1>2 DEF Behind
<1>4. ASSUME NEW k \in 1..Len(page') PROVE \E j \in Behind : page'[k] = feed[j]
  <2> DEFINE here == PageAt(offset)
             left == Len(feed) - offset
  <2>1. /\ Len(here) \in Nat /\ here[k] = feed[left + 1 - k] /\ k \in 1..Len(here)
        /\ left < PageLimit => Len(here) = IF Len(feed) < offset THEN 0 ELSE left
        /\ left >= PageLimit => Len(here) = PageLimit
    BY <1>1, <1>2, <1>4, PageType
  <2>2. Len(here) <= left
    <3> DEFINE size == Len(here)
    <3> HIDE DEF here
    <3>1. size >= 1 /\ size \in Nat
      BY <2>1
    <3> HIDE DEF size
    <3>2. CASE left < PageLimit
      BY <1>2, <2>1, <3>1, <3>2 DEF size
    <3>3. CASE left >= PageLimit
      BY <2>1, <3>3
    <3> QED
      BY <1>2, <3>2, <3>3
  <2>3. left + 1 - k \in Behind
    <3> DEFINE size == Len(here)
    <3>1. size \in Nat /\ size <= left /\ k \in 1..size
      BY <2>1, <2>2
    <3> HIDE DEF size, here
    <3> QED
      BY <1>2, <1>3, <3>1
  <2> QED
    BY <1>1, <2>1, <2>3
<1>5. ToRead' \subseteq {feed[k] : k \in Behind}
  BY <1>1, <1>4 DEF ToRead
<1> QED
  BY <1>1, <1>3, <1>5 DEF Ahead

LEMMA NextPageRepeats ==
  ASSUME TypeOK, NextPage
  PROVE  Ahead' \subseteq Ahead
<1>1. ToRead' = {}
  BY DEF ToRead, NextPage
<1>2. Behind' \subseteq Behind /\ feed' = feed
  BY PageLimitAssumption DEF Behind, NextPage, service, TypeOK
<1> QED
  BY <1>1, <1>2 DEF Ahead

LEMMA NoPageRepeats ==
  ASSUME CheckKey \/ PageUnavailable \/ PageBreaks \/ UnexpectedPayload
  PROVE  Ahead' \subseteq Ahead
<1>1. /\ state \in {"asked", "fetching"} /\ state' \notin {"reading", "fetched"}
      /\ UNCHANGED <<feed, offset, page, at>>
  BY DEF CheckKey, PageUnavailable, PageBreaks, UnexpectedPayload, service
<1>2. Behind' = Behind /\ ToRead' = ToRead
  BY <1>1 DEF Behind, ToRead
<1> QED
  BY <1>1, <1>2 DEF Ahead

LEMMA WithdrawRepeats ==
  ASSUME TypeOK, NEW i \in DOMAIN feed, Withdraw(i)
  PROVE  Ahead' \subseteq Ahead
<1>1. /\ state = "fetching" /\ Len(feed) \in Nat /\ offset \in Nat
      /\ feed' = [k \in 1..(Len(feed) - 1) |-> IF k < i THEN feed[k] ELSE feed[k + 1]]
      /\ UNCHANGED <<state, offset, page, at>>
  BY DEF Withdraw, client, TypeOK
<1>2. Len(feed) - 1 \in Nat /\ Len(feed') = Len(feed) - 1
  BY <1>1, FeedDomain
<1>3. Behind = 1..(Len(feed) - offset) /\ Behind' = 1..(Len(feed) - 1 - offset)
  BY <1>1, <1>2 DEF Behind
<1>4. ASSUME NEW k \in Behind' PROVE \E j \in Behind : feed'[k] = feed[j]
  <2>1. k \in 1..(Len(feed) - 1) /\ k \in Behind /\ k + 1 \in Behind
    BY <1>1, <1>3
  <2> QED
    BY <1>1, <2>1
<1>5. ToRead' = ToRead
  BY <1>1 DEF ToRead
<1> QED
  BY <1>4, <1>5 DEF Ahead

(* One more article is listed behind the client: the one that the new one  *)
(* moved there.                                                            *)
LEMMA PublishRepeats ==
  ASSUME TypeOK, RepeatInv, NEW a \in Articles, Publish(a)
  PROVE  RepeatInv'
<1>1. /\ state = "fetching" /\ content' = Append(content, a)
      /\ feed' = Append(feed, Len(content) + 1)
      /\ UNCHANGED <<listed, state, offset, page, at, records>>
  BY DEF Publish, client
<1>2. /\ Len(feed) \in Nat /\ offset \in Nat /\ Len(feed') = Len(feed) + 1
      /\ Len(content') = Len(content) + 1
      /\ \A k \in 1..Len(feed) : feed'[k] = feed[k]
  BY <1>1 DEF TypeOK
<1> DEFINE last == Len(feed) + 1 - offset
           moved == feed'[last]
<1>3. Behind = 1..(Len(feed) - offset) /\ Behind' = 1..last
  BY <1>1, <1>2 DEF Behind
<1>4. Ahead' \subseteq Ahead \cup {moved}
  <2>1. ASSUME NEW k \in Behind', k # last PROVE k \in Behind /\ feed'[k] = feed[k]
    BY <1>2, <1>3, <2>1
  <2>2. ToRead' = ToRead
    BY <1>1 DEF ToRead
  <2> QED
    BY <2>1, <2>2 DEF Ahead
<1> HIDE DEF moved, last
<1>5. Kept' = Kept /\ MayRepeat' \subseteq MayRepeat \cup {moved}
  <2>1. Kept' = Kept
    BY <1>1 DEF Kept
  <2> QED
    BY <1>4, <2>1 DEF MayRepeat
<1> DEFINE before == Cardinality(MayRepeat)
           after == Cardinality(MayRepeat')
           kept == Cardinality(Kept)
<1>6. after <= before + 1 /\ after \in Nat
  <2> DEFINE more == MayRepeat \cup {moved}
  <2>1. IsFiniteSet(more) /\ Cardinality(more) <= before + 1 /\ Cardinality(more) \in Nat
    <3>1. IsFiniteSet(MayRepeat) /\ before \in Nat
      BY AheadIsFinite
    <3>2. /\ IsFiniteSet(more)
          /\ Cardinality(more) = IF moved \in MayRepeat THEN before ELSE before + 1
      BY <3>1, FS_AddElement
    <3> HIDE DEF more, before
    <3> QED
      BY <3>1, <3>2
  <2>2. MayRepeat' \in SUBSET more
    BY <1>5
  <2> HIDE DEF more
  <2>3. Cardinality(MayRepeat') <= Cardinality(more) /\ Cardinality(MayRepeat') \in Nat
    BY <2>1, <2>2, FS_Subset, FS_CardinalityType
  <2>4. before \in Nat
    BY AheadIsFinite
  <2> HIDE DEF before
  <2> QED
    BY <2>1, <2>3, <2>4
<1>7. /\ before \in Nat /\ kept \in Nat
      /\ Len(records) \in Nat /\ Len(content) \in Nat /\ listed \in Nat
      /\ Len(records) + before <= kept + (Len(content) - listed)
  BY AheadIsFinite DEF RepeatInv
<1> HIDE DEF before, after, kept
<1>8. Len(records) + after <= kept + ((Len(content) + 1) - listed)
  BY <1>6, <1>7
<1>9. /\ Len(records') = Len(records) /\ Len(content') = Len(content) + 1
      /\ Cardinality(Kept') = kept /\ listed' = listed
  BY <1>1, <1>2, <1>5 DEF kept
<1>10. Len(records') + Cardinality(MayRepeat') <= Cardinality(Kept') + (Len(content') - listed')
  BY <1>8, <1>9 DEF after
<1> QED
  BY <1>10 DEF RepeatInv

(* What is left to read of a page and behind it is older than the article  *)
(* at hand.                                                                *)
LEMMA PageIsDescending ==
  ASSUME TypeOK, LossInv, KeepArticle
  PROVE  /\ Ahead' \subseteq Ahead
         /\ page[at + 1] \in Ahead
         /\ \A m \in Ahead' : m < page[at + 1]
<1> DEFINE left == Len(feed) - offset
           size == Len(page)
           n == page[at + 1]
<1>1. /\ state = "reading" /\ page = PageAt(offset) /\ at + 1 \in 1..size /\ at \in Nat
      /\ UNCHANGED <<feed, state, offset, page>> /\ at' = at + 1
  BY DEF KeepArticle, LossInv, service, TypeOK
<1>2. Len(feed) \in Nat /\ offset \in Nat /\ PageLimit \in Nat \ {0} /\ left \in Int
  BY PageLimitAssumption DEF TypeOK
<1>3. /\ size \in Nat /\ \A k \in 1..size : page[k] = feed[left + 1 - k]
      /\ left < PageLimit => size = IF Len(feed) < offset THEN 0 ELSE left
      /\ left >= PageLimit => size = PageLimit
  BY <1>1, <1>2, PageType
<1>4. Behind' = Behind /\ Behind = 1..(left - PageLimit)
  BY <1>1 DEF Behind
<1>5. size <= left /\ left - PageLimit <= left - size
  <2> HIDE DEF size, left
  <2>1. size >= 1
    BY <1>1, <1>3
  <2>2. left < PageLimit \/ left >= PageLimit
    BY <1>2
  <2>3. CASE left >= PageLimit
    BY <1>2, <1>3, <2>3
  <2>4. CASE left < PageLimit
    <3>1. size = left
      BY <1>3, <2>1, <2>4
    <3> QED
      BY <1>2, <2>4, <3>1
  <2> QED
    BY <2>2, <2>3, <2>4
<1>6. ToRead = ToRead' \cup {n}
  BY ReadArticle
<1>7. Ahead' \subseteq Ahead /\ n \in Ahead
  BY <1>1, <1>4, <1>6 DEF Ahead
<1>8. left + 1 - (at + 1) \in 1..Len(feed) /\ n = feed[left + 1 - (at + 1)]
  <2>1. n = feed[left + 1 - (at + 1)]
    BY <1>1, <1>3
  <2>2. left <= Len(feed)
    BY <1>2
  <2> HIDE DEF size, left, n
  <2>3. left + 1 - (at + 1) \in 1..Len(feed)
    BY <1>1, <1>2, <1>3, <1>5, <2>2
  <2> QED
    BY <2>1, <2>3
<1>9. ASSUME NEW j \in 1..Len(feed), j < left + 1 - (at + 1) PROVE feed[j] < n
  BY <1>8, <1>9, FeedDomain DEF LossInv
<1>10. ASSUME NEW m \in ToRead' PROVE m < n
  <2>1. PICK k \in (at + 2)..size : m = page[k]
    BY <1>1 DEF ToRead
  <2>2. k \in 1..size /\ m = feed[left + 1 - k]
    BY <1>1, <1>3, <2>1
  <2>3. left + 1 - k \in 1..Len(feed) /\ left + 1 - k < left + 1 - (at + 1)
    <3>1. left <= Len(feed)
      BY <1>2
    <3> HIDE DEF size, left, n
    <3> QED
      BY <1>1, <1>2, <1>3, <1>5, <2>1, <2>2, <3>1
  <2> QED
    BY <1>9, <2>2, <2>3
<1>11. ASSUME NEW k \in Behind' PROVE feed'[k] < n
  <2>1. k \in 1..(left - PageLimit) /\ feed'[k] = feed[k]
    BY <1>1, <1>4
  <2>2. k \in 1..Len(feed) /\ k < left + 1 - (at + 1)
    <3>1. left <= Len(feed)
      BY <1>2
    <3> HIDE DEF size, left, n
    <3> QED
      BY <1>1, <1>2, <1>3, <1>5, <2>1, <3>1
  <2> QED
    BY <1>9, <2>1, <2>2
<1>12. \A m \in Ahead' : m < n
  BY <1>10, <1>11 DEF Ahead
<1> QED
  BY <1>7, <1>12

(* The article at hand is new, or its repetition was paid for.             *)
LEMMA KeepArticleRepeats ==
  ASSUME TypeOK, LossInv, RepeatInv, KeepArticle
  PROVE  RepeatInv'
<1> DEFINE n == page[at + 1]
           before == Cardinality(MayRepeat)
           after == Cardinality(MayRepeat')
           kept == Cardinality(Kept)
<1>1. /\ Ahead' \subseteq Ahead /\ n \in Ahead /\ \A m \in Ahead' : m < n
  BY PageIsDescending
<1>2. /\ n \in 1..Len(content) /\ Kept \subseteq Kept' /\ Kept' \subseteq Kept \cup {n}
      /\ n \in Kept' <=> n \in Kept \/ Wanted(content[n])
  BY ReadArticle
<1>3. content' = content /\ listed' = listed
  BY DEF KeepArticle, service
<1>4. Ahead \subseteq Int /\ n \in Int
  BY <1>1, AheadIsFinite
<1>5. MayRepeat' \subseteq MayRepeat \ {n}
  <2> SUFFICES ASSUME NEW m \in Ahead', NEW q \in Kept', q <= m
               PROVE  m \in MayRepeat /\ m # n
    BY DEF MayRepeat
  <2>1. m < n /\ m \in Ahead /\ m \in Int
    BY <1>1, <1>4
  <2>2. q # n
    BY <1>4, <2>1
  <2>3. q \in Kept
    BY <1>2, <2>2
  <2>4. m # n
    BY <1>4, <2>1
  <2> HIDE DEF n
  <2> QED
    BY <2>1, <2>3, <2>4 DEF MayRepeat
<1>6. /\ IsFiniteSet(MayRepeat) /\ before \in Nat /\ IsFiniteSet(Kept) /\ kept \in Nat
      /\ Len(records) \in Nat /\ Len(content) \in Nat /\ listed \in Nat
      /\ Len(records) + before <= kept + (Len(content) - listed)
  BY AheadIsFinite DEF RepeatInv
<1>7. /\ after \in Nat /\ after <= before
      /\ n \in MayRepeat => after <= before - 1
  <2>1. MayRepeat' \subseteq MayRepeat
    BY <1>5
  <2>2. after \in Nat /\ after <= before
    BY <1>6, <2>1, FS_Subset, FS_CardinalityType
  <2>3. ASSUME n \in MayRepeat PROVE after <= before - 1
    <3>1. IsFiniteSet(MayRepeat \ {n}) /\ Cardinality(MayRepeat \ {n}) = before - 1
      BY <1>6, <2>3, FS_RemoveElement
    <3> QED
      BY <1>5, <3>1, FS_Subset
  <2> QED
    BY <2>2, <2>3
<1>8. CASE ~Wanted(content[n])
  <2>1. records' = records /\ Kept' = Kept
    BY <1>8 DEF KeepArticle, Kept
  <2> HIDE DEF before, after, kept
  <2>2. Len(records) + after <= kept + (Len(content) - listed)
    BY <1>6, <1>7
  <2> QED
    BY <1>3, <2>1, <2>2 DEF RepeatInv, after, kept
<1>9. CASE Wanted(content[n])
  <2>1. records' = Append(records, n) /\ Len(records') = Len(records) + 1
    BY <1>2, <1>9 DEF KeepArticle, TypeOK
  <2>2. Kept' = Kept \cup {n}
    BY <1>2, <1>9
  <2>3. CASE n \in Kept
    <3>1. n \in MayRepeat
      BY <1>1, <1>4, <2>3 DEF MayRepeat
    <3>2. Kept' = Kept
      BY <2>2, <2>3
    <3> HIDE DEF before, after, kept
    <3>3. (Len(records) + 1) + after <= kept + (Len(content) - listed)
      BY <1>6, <1>7, <3>1
    <3> QED
      BY <1>3, <2>1, <3>2, <3>3 DEF RepeatInv, after, kept
  <2>4. CASE n \notin Kept
    <3>1. Cardinality(Kept') = kept + 1
      BY <1>6, <2>2, <2>4, FS_AddElement
    <3> HIDE DEF before, after, kept
    <3>2. (Len(records) + 1) + after <= (kept + 1) + (Len(content) - listed)
      BY <1>6, <1>7
    <3> QED
      BY <1>3, <2>1, <3>1, <3>2 DEF RepeatInv, after, kept
  <2> QED
    BY <2>3, <2>4
<1> QED
  BY <1>8, <1>9

LEMMA RepeatStep ==
  ASSUME ClientInv, RepeatInv, [Fetch \/ Provider]_feedVars
  PROVE  RepeatInv'
<1>0. TypeOK /\ LossInv
  BY DEF ClientInv, FeedInv
<1>1. CASE CheckKey \/ PageUnavailable \/ PageBreaks \/ UnexpectedPayload
  <2>1. UNCHANGED <<content, listed, records>>
    BY <1>1 DEF CheckKey, PageUnavailable, PageBreaks, UnexpectedPayload, service
  <2> QED
    BY <1>0, <1>1, <2>1, NoPageRepeats, NothingComesBack
<1>2. CASE FetchPage
  <2>1. UNCHANGED <<content, listed, records>>
    BY <1>2 DEF FetchPage, service
  <2> QED
    BY <1>0, <1>2, <2>1, FetchPageRepeats, NothingComesBack
<1>3. CASE KeepArticle
  BY <1>0, <1>3, KeepArticleRepeats
<1>4. CASE NextPage
  <2>1. UNCHANGED <<content, listed, records>>
    BY <1>4 DEF NextPage, service
  <2> QED
    BY <1>0, <1>4, <2>1, NextPageRepeats, NothingComesBack
<1>5. CASE \E a \in Articles : Publish(a)
  BY <1>0, <1>5, PublishRepeats
<1>6. ASSUME NEW i \in DOMAIN feed, Withdraw(i) PROVE RepeatInv'
  <2>1. UNCHANGED <<content, listed, records>>
    BY <1>6 DEF Withdraw, client
  <2> QED
    BY <1>0, <1>6, <2>1, WithdrawRepeats, NothingComesBack
<1>7. CASE UNCHANGED feedVars
  BY <1>7 DEF RepeatInv, MayRepeat, Ahead, Kept, ToRead, Behind, feedVars, service, client
<1> QED
  BY <1>1, <1>2, <1>3, <1>4, <1>5, <1>6, <1>7 DEF Fetch, Provider

LEMMA InitRepeats == Init => RepeatInv
<1> SUFFICES ASSUME Init PROVE RepeatInv
  OBVIOUS
<1>1. records = <<>> /\ Len(content) - listed = 0 /\ Kept = {}
  BY InitFeedInv DEF Init, Kept, FeedInv, TypeOK
<1>2. MayRepeat = {}
  BY <1>1 DEF MayRepeat
<1>3. Cardinality(MayRepeat) = 0 /\ Cardinality(Kept) = 0
  BY <1>1, <1>2, FS_EmptySet
<1> QED
  BY <1>1, <1>3 DEF RepeatInv

(* Each publication costs the answer one repetition at most, whatever is   *)
(* withdrawn and however the pages fall.                                   *)
THEOREM RepeatsArePublications == DatasetSpec => []RepeatsOnlyByPublication
<1>1. ClientInv /\ RepeatInv => RepeatsOnlyByPublication
  <2> SUFFICES ASSUME ClientInv, RepeatInv PROVE RepeatsOnlyByPublication
    OBVIOUS
  <2>1. /\ Cardinality(MayRepeat) \in Nat /\ Cardinality(Kept) \in Nat
        /\ Len(records) \in Nat /\ Len(content) \in Nat /\ listed \in Nat
    BY AheadIsFinite DEF ClientInv, FeedInv
  <2> QED
    BY <2>1 DEF RepeatInv, RepeatsOnlyByPublication
<1>2. FeedSpec => []RepeatInv
  BY FeedInvariant, InitRepeats, RepeatStep, PTL DEF FeedSpec
<1> QED
  BY <1>1, <1>2, FeedInvariant, DatasetFetches, PTL

-----------------------------------------------------------------------------
(* A raw record that passed the normalisation's checks                     *)
IsRaw(a) ==
  /\ a.published \in Int /\ a.zone \in Int
  /\ a.id \in Nat /\ a.source \in Nat /\ a.headline \in Nat

RawSequence(raw) ==
  \E n \in Nat : DOMAIN raw = 1..n /\ \A i \in 1..n : IsRaw(raw[i])

(* What of a sort key the record itself decides                            *)
SameKey(a, b) ==
  /\ a.published + a.zone = b.published + b.zone /\ a.zone = b.zone
  /\ a.id = b.id /\ a.source = b.source /\ a.headline = b.headline

SmallerKey(a, b) ==
  \/ a.published + a.zone < b.published + b.zone
  \/ /\ a.published + a.zone = b.published + b.zone
     /\ \/ a.zone < b.zone
        \/ /\ a.zone = b.zone
           /\ \/ a.id < b.id
              \/ /\ a.id = b.id
                 /\ \/ a.source < b.source
                    \/ a.source = b.source /\ a.headline < b.headline

LEMMA SixLess ==
  ASSUME NEW a1, NEW a2, NEW a3, NEW a4, NEW a5, NEW a6,
         NEW b1, NEW b2, NEW b3, NEW b4, NEW b5, NEW b6
  PROVE  LexLess(<<a1, a2, a3, a4, a5, a6>>, <<b1, b2, b3, b4, b5, b6>>) <=>
           \/ a1 < b1
           \/ a1 = b1 /\ a2 < b2
           \/ a1 = b1 /\ a2 = b2 /\ a3 < b3
           \/ a1 = b1 /\ a2 = b2 /\ a3 = b3 /\ a4 < b4
           \/ a1 = b1 /\ a2 = b2 /\ a3 = b3 /\ a4 = b4 /\ a5 < b5
           \/ a1 = b1 /\ a2 = b2 /\ a3 = b3 /\ a4 = b4 /\ a5 = b5 /\ a6 < b6
<1> DEFINE s == <<a1, a2, a3, a4, a5, a6>>
           t == <<b1, b2, b3, b4, b5, b6>>
           Same(k) == \A j \in 1..(k - 1) : s[j] = t[j]
<1>1. /\ s[1] = a1 /\ s[2] = a2 /\ s[3] = a3 /\ s[4] = a4 /\ s[5] = a5 /\ s[6] = a6
      /\ t[1] = b1 /\ t[2] = b2 /\ t[3] = b3 /\ t[4] = b4 /\ t[5] = b5 /\ t[6] = b6
      /\ DOMAIN s = 1..6
  OBVIOUS
<1> HIDE DEF s, t
<1>2. LexLess(s, t) <=> \E k \in 1..6 : s[k] < t[k] /\ Same(k)
  BY <1>1 DEF LexLess
<1>3. Same(1)
  OBVIOUS
<1>4. Same(2) <=> s[1] = t[1]
  <2>1. 1..(2 - 1) = {1}
    OBVIOUS
  <2> QED
    BY <2>1
<1>5. Same(3) <=> s[1] = t[1] /\ s[2] = t[2]
  <2>1. 1..(3 - 1) = {1, 2}
    OBVIOUS
  <2> QED
    BY <2>1
<1>6. Same(4) <=> s[1] = t[1] /\ s[2] = t[2] /\ s[3] = t[3]
  <2>1. 1..(4 - 1) = {1, 2, 3}
    OBVIOUS
  <2> QED
    BY <2>1
<1>7. Same(5) <=> s[1] = t[1] /\ s[2] = t[2] /\ s[3] = t[3] /\ s[4] = t[4]
  <2>1. 1..(5 - 1) = {1, 2, 3, 4}
    OBVIOUS
  <2> QED
    BY <2>1
<1>8. Same(6) <=> s[1] = t[1] /\ s[2] = t[2] /\ s[3] = t[3] /\ s[4] = t[4] /\ s[5] = t[5]
  <2>1. 1..(6 - 1) = {1, 2, 3, 4, 5}
    OBVIOUS
  <2> QED
    BY <2>1
<1>9. 1..6 = {1, 2, 3, 4, 5, 6}
  OBVIOUS
<1> HIDE DEF Same
<1>10. LexLess(s, t) <=>
         \/ s[1] < t[1] /\ Same(1)
         \/ s[2] < t[2] /\ Same(2)
         \/ s[3] < t[3] /\ Same(3)
         \/ s[4] < t[4] /\ Same(4)
         \/ s[5] < t[5] /\ Same(5)
         \/ s[6] < t[6] /\ Same(6)
  BY <1>2, <1>9
<1>11. LexLess(s, t) <=>
           \/ a1 < b1
           \/ a1 = b1 /\ a2 < b2
           \/ a1 = b1 /\ a2 = b2 /\ a3 < b3
           \/ a1 = b1 /\ a2 = b2 /\ a3 = b3 /\ a4 < b4
           \/ a1 = b1 /\ a2 = b2 /\ a3 = b3 /\ a4 = b4 /\ a5 < b5
           \/ a1 = b1 /\ a2 = b2 /\ a3 = b3 /\ a4 = b4 /\ a5 = b5 /\ a6 < b6
  BY <1>1, <1>3, <1>4, <1>5, <1>6, <1>7, <1>8, <1>10
<1> QED
  BY <1>11 DEF s, t

(* The sort is by key, and by position where keys are the same.            *)
LEMMA BeforeIsByKey ==
  ASSUME NEW raw, NEW i, NEW j
  PROVE  Before(raw, i, j) <=>
           SmallerKey(raw[i], raw[j]) \/ (SameKey(raw[i], raw[j]) /\ i < j)
<1> DEFINE a == raw[i]
           b == raw[j]
<1>1. Before(raw, i, j) <=>
        \/ a.published + a.zone < b.published + b.zone
        \/ a.published + a.zone = b.published + b.zone /\ a.zone < b.zone
        \/ a.published + a.zone = b.published + b.zone /\ a.zone = b.zone /\ a.id < b.id
        \/ /\ a.published + a.zone = b.published + b.zone /\ a.zone = b.zone /\ a.id = b.id
           /\ a.source < b.source
        \/ /\ a.published + a.zone = b.published + b.zone /\ a.zone = b.zone /\ a.id = b.id
           /\ a.source = b.source /\ a.headline < b.headline
        \/ /\ a.published + a.zone = b.published + b.zone /\ a.zone = b.zone /\ a.id = b.id
           /\ a.source = b.source /\ a.headline = b.headline /\ i < j
  BY SixLess DEF Before, SortKey
<1> HIDE DEF a, b
<1>2. Before(raw, i, j) <=> SmallerKey(a, b) \/ (SameKey(a, b) /\ i < j)
  BY <1>1 DEF SmallerKey, SameKey
<1> QED
  BY <1>2 DEF a, b

(* Keys are ordered strictly and completely.                               *)
LEMMA KeysAreOrdered ==
  ASSUME NEW a, NEW b, NEW c, IsRaw(a), IsRaw(b), IsRaw(c)
  PROVE  /\ SmallerKey(a, b) \/ SameKey(a, b) \/ SmallerKey(b, a)
         /\ ~(SmallerKey(a, b) /\ (SameKey(a, b) \/ SmallerKey(b, a)))
         /\ SmallerKey(a, b) /\ (SmallerKey(b, c) \/ SameKey(b, c)) => SmallerKey(a, c)
         /\ SameKey(a, b) /\ SmallerKey(b, c) => SmallerKey(a, c)
         /\ SameKey(a, b) => SameKey(b, a)
         /\ SameKey(a, b) /\ SameKey(b, c) => SameKey(a, c)
<1>1. a.published + a.zone \in Int /\ b.published + b.zone \in Int /\ c.published + c.zone \in Int
  BY DEF IsRaw
<1> QED
  BY <1>1 DEF IsRaw, SmallerKey, SameKey

LEMMA BeforeIsAnOrder ==
  ASSUME NEW raw, RawSequence(raw),
         NEW i \in DOMAIN raw, NEW j \in DOMAIN raw, NEW k \in DOMAIN raw
  PROVE  /\ i # j => Before(raw, i, j) \/ Before(raw, j, i)
         /\ ~(Before(raw, i, j) /\ Before(raw, j, i))
         /\ ~Before(raw, i, i)
         /\ Before(raw, i, j) /\ Before(raw, j, k) => Before(raw, i, k)
<1>1. /\ i \in Nat /\ j \in Nat /\ k \in Nat
      /\ IsRaw(raw[i]) /\ IsRaw(raw[j]) /\ IsRaw(raw[k])
  BY DEF RawSequence
<1>2. (i < j \/ i = j \/ j < i) /\ ~(i < j /\ j < i) /\ (i < j /\ j < k => i < k) /\ ~(i < i)
  BY <1>1
<1>3. /\ i # j => Before(raw, i, j) \/ Before(raw, j, i)
      /\ ~(Before(raw, i, j) /\ Before(raw, j, i))
  <2> HIDE DEF IsRaw
  <2> QED
    BY <1>1, <1>2, BeforeIsByKey, KeysAreOrdered, Zenon
<1>4. ~Before(raw, i, i)
    BY <1>1, <1>2, BeforeIsByKey, KeysAreOrdered, Zenon
<1>5. Before(raw, i, j) /\ Before(raw, j, k) => Before(raw, i, k)
    BY <1>1, <1>2, BeforeIsByKey, KeysAreOrdered, Zenon
<1> QED
  BY <1>3, <1>4, <1>5

(* One record survives of each provider id.                                *)
LEMMA OneSurvivorPerId ==
  ASSUME NEW raw, RawSequence(raw),
         NEW i \in Survivors(raw), NEW j \in Survivors(raw),
         raw[i].id = raw[j].id, raw[i].id # 0
  PROVE  i = j
<1>1. i \in DOMAIN raw /\ j \in DOMAIN raw /\ Survives(raw, i) /\ Survives(raw, j)
  BY DEF Survivors
<1>2. (j = i \/ Before(raw, i, j)) /\ (i = j \/ Before(raw, j, i))
  BY <1>1 DEF Survives
<1> QED
  BY <1>1, <1>2, BeforeIsAnOrder

LEMMA SurvivorsAreFinite ==
  ASSUME NEW raw, RawSequence(raw)
  PROVE  IsFiniteSet(Survivors(raw)) /\ Survivors(raw) \subseteq DOMAIN raw
<1>1. PICK n \in Nat : DOMAIN raw = 1..n
  BY DEF RawSequence
<1>2. IsFiniteSet(DOMAIN raw)
  BY <1>1, FS_Interval
<1>3. Survivors(raw) \in SUBSET DOMAIN raw
  BY DEF Survivors
<1> QED
  BY <1>2, <1>3, FS_Subset

(* Survivors have different indexes.                                       *)
LEMMA IndexesDiffer ==
  ASSUME NEW raw, RawSequence(raw),
         NEW i \in Survivors(raw), NEW j \in Survivors(raw), Before(raw, i, j)
  PROVE  DeterministicIndex(raw, i) # DeterministicIndex(raw, j)
<1> DEFINE Earlier(k) == {m \in Survivors(raw) : Before(raw, m, k)}
<1>1. i \in DOMAIN raw /\ j \in DOMAIN raw /\ IsFiniteSet(Survivors(raw))
  BY SurvivorsAreFinite
<1>2. Earlier(i) \subseteq Earlier(j)
  BY <1>1, SurvivorsAreFinite, BeforeIsAnOrder
<1>3. i \in Earlier(j) /\ i \notin Earlier(i)
  BY <1>1, BeforeIsAnOrder
<1>4. IsFiniteSet(Earlier(j))
  BY <1>1, FS_Subset
<1>5. Earlier(i) \in SUBSET Earlier(j) /\ Earlier(i) # Earlier(j)
  BY <1>2, <1>3
<1>6. DeterministicIndex(raw, i) = Cardinality(Earlier(i)) /\ DeterministicIndex(raw, j) = Cardinality(Earlier(j))
  BY DEF DeterministicIndex
<1> HIDE DEF Earlier
<1> QED
  BY <1>4, <1>5, <1>6, FS_Subset

(* Different survivors have different names.                               *)
LEMMA NamesDiffer ==
  ASSUME NEW raw, RawSequence(raw),
         NEW i \in Survivors(raw), NEW j \in Survivors(raw), i # j
  PROVE  RecordId(raw, i) # RecordId(raw, j)
<1>1. i \in DOMAIN raw /\ j \in DOMAIN raw
  BY DEF Survivors
<1>2. DeterministicIndex(raw, i) # DeterministicIndex(raw, j)
  <2>1. Before(raw, i, j) \/ Before(raw, j, i)
    BY <1>1, BeforeIsAnOrder
  <2> QED
    BY <2>1, IndexesDiffer
<1>3. CASE raw[i].id # 0 /\ raw[j].id # 0
  <2>1. raw[i].id # raw[j].id
    BY <1>3, OneSurvivorPerId
  <2> QED
    BY <1>3, <2>1 DEF RecordId
<1>4. CASE raw[i].id # 0 /\ raw[j].id = 0
  BY <1>4 DEF RecordId
<1>5. CASE raw[i].id = 0 /\ raw[j].id # 0
  BY <1>5 DEF RecordId
<1>6. CASE raw[i].id = 0 /\ raw[j].id = 0
  BY <1>2, <1>6 DEF RecordId
<1> QED
  BY <1>3, <1>4, <1>5, <1>6

(* The image of a finite set under names that differ is as large as it.    *)
LEMMA SameSize ==
  ASSUME NEW S, IsFiniteSet(S), NEW f, f = [x \in S |-> f[x]],
         \A x, y \in S : x # y => f[x] # f[y]
  PROVE  Cardinality({f[x] : x \in S}) = Cardinality(S)
<1> DEFINE T == {f[x] : x \in S}
<1>1. f \in [S -> T] /\ IsInjective(f)
  BY Zenon DEF IsInjective
<1>2. f \in Bijection(S, T)
  BY <1>1 DEF Bijection, Injection, Surjection
<1> QED
  BY <1>2, FS_Bijection DEF ExistsBijection

(* What a request saved is made of all it kept.                            *)
DatasetInv ==
  /\ outcome \in Outcomes
  /\ outcome # "COMPLETED" => dataset = {}
  /\ outcome = "COMPLETED" =>
       /\ state = "fetched" /\ dataset = RecordsOf(RawRecords)
       /\ \A i \in DOMAIN RawRecords : IsValid(RawRecords[i])

LEMMA DatasetInvStep ==
  ASSUME DatasetInv, [DatasetNext]_vars
  PROVE  DatasetInv'
<1>1. CASE BuildDataset
  <2>1. UNCHANGED <<state, content, records>>
    BY <1>1 DEF BuildDataset, feedVars, client, service
  <2>2. RawRecords' = RawRecords
    BY <2>1 DEF RawRecords
  <2>3. /\ state = "fetched" /\ dataset = {}
    BY <1>1 DEF BuildDataset, DatasetInv
  <2>4. CASE \A i \in DOMAIN RawRecords : IsValid(RawRecords[i])
    <3>1. outcome' = "COMPLETED" /\ dataset' = RecordsOf(RawRecords)
      BY <1>1, <2>4 DEF BuildDataset
    <3>2. dataset' = RecordsOf(RawRecords')
      BY <2>2, <3>1
    <3>3. \A i \in DOMAIN RawRecords' : IsValid(RawRecords'[i])
      BY <2>2, <2>4
    <3> QED
      BY <2>1, <2>3, <3>1, <3>2, <3>3 DEF DatasetInv, Outcomes
  <2>5. CASE ~(\A i \in DOMAIN RawRecords : IsValid(RawRecords[i]))
    BY <1>1, <2>3, <2>5 DEF BuildDataset, DatasetInv, Outcomes
  <2> QED
    BY <2>4, <2>5
<1>2. CASE SaveProviderLimitation
  BY <1>2 DEF SaveProviderLimitation, DatasetInv, Outcomes
<1>3. CASE PassOn
  BY <1>3 DEF PassOn, DatasetInv, Outcomes
<1>4. CASE (Fetch \/ Provider) /\ UNCHANGED <<outcome, dataset>>
  <2>1. CASE outcome = "COMPLETED"
    <3>1. state = "fetched"
      BY <2>1 DEF DatasetInv
    <3>2. FALSE
      BY <1>4, <3>1 DEF Fetch, Provider, CheckKey, FetchPage, PageUnavailable, PageBreaks,
         UnexpectedPayload, KeepArticle, NextPage, Publish, Withdraw
    <3> QED
      BY <3>2
  <2>2. CASE outcome # "COMPLETED"
    BY <1>4, <2>2 DEF DatasetInv
  <2> QED
    BY <2>1, <2>2
<1>5. CASE UNCHANGED vars
  <2>1. UNCHANGED <<state, content, records, outcome, dataset>>
    BY <1>5 DEF vars, feedVars, client, service
  <2>2. RawRecords' = RawRecords
    BY <2>1 DEF RawRecords
  <2> QED
    BY <2>1, <2>2 DEF DatasetInv
<1> QED
  BY <1>1, <1>2, <1>3, <1>4, <1>5 DEF DatasetNext, Request, RunDataset

(* The types of the request's state, and what its dataset is made of.      *)
THEOREM DatasetInvariant == DatasetSpec => [](ClientInv /\ DatasetInv)
<1>1. DatasetInit => DatasetInv
  BY DEF DatasetInit, DatasetInv, Outcomes
<1>2. DatasetSpec => []DatasetInv
  BY <1>1, DatasetInvStep, PTL DEF DatasetSpec
<1> QED
  BY <1>2, FeedInvariant, DatasetFetches, PTL

(* A dataset is made of valid records only.                                *)
LEMMA RawRecordsAreRaw ==
  ASSUME ClientInv, DatasetInv, outcome = "COMPLETED"
  PROVE  RawSequence(RawRecords) /\ DOMAIN RawRecords = DOMAIN records
<1>1. TypeOK /\ \A i \in DOMAIN records : Wanted(content[records[i]])
  BY DEF ClientInv, FeedInv, RecordsInv
<1>2. DOMAIN records = 1..Len(records) /\ Len(records) \in Nat
  BY <1>1 DEF TypeOK
<1>3. /\ DOMAIN RawRecords = DOMAIN records
      /\ \A i \in DOMAIN records : RawRecords[i] = content[records[i]]
  BY DEF RawRecords
<1>4. ASSUME NEW i \in DOMAIN records PROVE IsRaw(RawRecords[i])
  <2>1. records[i] \in 1..Len(content)
    BY <1>1 DEF TypeOK
  <2>2. content[records[i]] \in Articles /\ content[records[i]] # Junk
    BY <1>1, <2>1 DEF TypeOK, Wanted
  <2>3. RawRecords[i].published # NoTime
    BY <1>3 DEF DatasetInv, IsValid
  <2> QED
    BY <1>3, <2>2, <2>3, ArticlesAssumption DEF IsRaw
<1> QED
  BY <1>2, <1>3, <1>4, Zenon DEF RawSequence

LEMMA RecordsAreAsManyAsNames ==
  ASSUME NEW raw, RawSequence(raw)
  PROVE  /\ Cardinality({r.recordId : r \in RecordsOf(raw)}) = Cardinality(Survivors(raw))
         /\ Cardinality(RecordsOf(raw)) = Cardinality(Survivors(raw))
<1> DEFINE S == Survivors(raw)
           names == [i \in S |-> RecordId(raw, i)]
           made == [i \in S |-> DatasetRecord(raw, i)]
<1>1. IsFiniteSet(S)
  BY SurvivorsAreFinite
<1>2. \A i \in S : DatasetRecord(raw, i).recordId = RecordId(raw, i)
  BY DEF DatasetRecord
<1>3. \A i, j \in S : i # j => names[i] # names[j]
  BY NamesDiffer
<1>4. \A i, j \in S : i # j => made[i] # made[j]
  BY <1>2, <1>3
<1>5. {r.recordId : r \in RecordsOf(raw)} = {names[i] : i \in S}
  BY <1>2 DEF RecordsOf
<1>6. RecordsOf(raw) = {made[i] : i \in S}
  BY DEF RecordsOf
<1>7. names = [i \in S |-> names[i]] /\ made = [i \in S |-> made[i]]
  OBVIOUS
<1> HIDE DEF S, names, made
<1>8. Cardinality({names[i] : i \in S}) = Cardinality(S)
  BY <1>1, <1>3, <1>7, SameSize
<1>9. Cardinality({made[i] : i \in S}) = Cardinality(S)
  BY <1>1, <1>4, <1>7, SameSize
<1> QED
  BY <1>5, <1>6, <1>8, <1>9 DEF S

(* Saving a dataset never breaks the uniqueness of its record ids, however *)
(* often the pages repeated an article.                                    *)
THEOREM NamesAreUnique == DatasetSpec => []RecordIdsAreUnique
<1>1. ClientInv /\ DatasetInv => RecordIdsAreUnique
  BY RawRecordsAreRaw, RecordsAreAsManyAsNames DEF RecordIdsAreUnique, DatasetInv
<1> QED
  BY <1>1, DatasetInvariant, PTL

-----------------------------------------------------------------------------
LEMMA ScoreIsBounded == ASSUME NEW terms PROVE ScoreText(terms) \in -100..100
BY DEF ScoreText, Clamp

(* A relevant record's confidence is 0.6 or more, any other's 0.4 or less. *)
LEMMA ConfidenceIsBounded ==
  ASSUME NEW relevance \in {"RELEVANT", "IRRELEVANT", "NOISE"}, NEW hasSource \in BOOLEAN,
         NEW score \in -100..100,
         relevance = "RELEVANT" => hasSource, relevance # "RELEVANT" => score = 0
  PROVE  /\ ClassificationConfidence(score, relevance, hasSource) \in Int
         /\ relevance = "RELEVANT" => ClassificationConfidence(score, relevance, hasSource) >= 6000
         /\ relevance # "RELEVANT" => ClassificationConfidence(score, relevance, hasSource) <= 4000
<1> DEFINE strength == IF score < 0 THEN -score ELSE score
           bonus == RelevanceBonus[relevance]
           sourced == IF hasSource THEN 500 ELSE -1000
           sum == 3500 + 40 * strength + bonus + 500 + sourced
<1>1. ClassificationConfidence(score, relevance, hasSource) = Clamp(0, 10000, sum)
  BY DEF ClassificationConfidence
<1>2. strength \in 0..100 /\ (score = 0 => strength = 0)
  OBVIOUS
<1>3. CASE relevance = "RELEVANT"
  <2>1. bonus = 1500 /\ sourced = 500
    BY <1>3 DEF RelevanceBonus
  <2> HIDE DEF strength, bonus, sourced
  <2>2. sum \in 6000..10000
    BY <1>2, <2>1
  <2> HIDE DEF sum
  <2>3. Clamp(0, 10000, sum) = sum
    BY <2>2 DEF Clamp
  <2>4. sum \in Int /\ sum >= 6000
    BY <2>2
  <2> QED
    BY <1>1, <1>3, <2>3, <2>4
<1>4. CASE relevance # "RELEVANT"
  <2>1. bonus = -1500 \/ bonus = -500
    <3>1. relevance = "NOISE" \/ relevance = "IRRELEVANT"
      BY <1>4
    <3> QED
      BY <3>1 DEF RelevanceBonus
  <2>2. sourced = 500 \/ sourced = -1000
    OBVIOUS
  <2>3. strength = 0
    BY <1>2, <1>4
  <2> HIDE DEF strength, bonus, sourced
  <2>4. sum \in 0..4000
    BY <2>1, <2>2, <2>3
  <2> HIDE DEF sum
  <2>5. Clamp(0, 10000, sum) = sum
    BY <2>4 DEF Clamp
  <2>6. sum \in Int /\ sum <= 4000
    BY <2>4
  <2> QED
    BY <1>1, <1>4, <2>5, <2>6
<1> QED
  BY <1>3, <1>4

LEMMA ConfidenceOfRecord ==
  ASSUME NEW raw, NEW r \in RecordsOf(raw)
  PROVE  \E c \in Int :
           /\ r.confidence = c
           /\ r.relevance = "RELEVANT" => c >= 6000
           /\ r.relevance # "RELEVANT" => c <= 4000
<1>1. PICK i \in Survivors(raw) : r = DatasetRecord(raw, i)
  BY DEF RecordsOf
<1> DEFINE hasSource == raw[i].source # 0
           relevance == RelevanceForText(raw[i].terms, hasSource)
           score == IF relevance = "RELEVANT" THEN ScoreText(raw[i].terms) ELSE 0
           c == ClassificationConfidence(score, relevance, hasSource)
<1>2. r.relevance = relevance /\ r.confidence = c
  BY <1>1 DEF DatasetRecord
<1>3. /\ relevance \in {"NOISE", "RELEVANT", "IRRELEVANT"}
      /\ relevance = "RELEVANT" => hasSource
  BY DEF RelevanceForText
<1>4. score \in -100..100 /\ (relevance # "RELEVANT" => score = 0) /\ hasSource \in BOOLEAN
  BY ScoreIsBounded
<1> HIDE DEF relevance, score, hasSource
<1>5. /\ c \in Int
      /\ relevance = "RELEVANT" => c >= 6000
      /\ relevance # "RELEVANT" => c <= 4000
  BY <1>3, <1>4, ConfidenceIsBounded
<1> HIDE DEF c
<1> QED
  BY <1>2, <1>5

(* Whatever the texts say, confidence separates the relevant records from  *)
(* the others.                                                             *)
THEOREM RelevantRecordsLead == DatasetSpec => []ConfidenceFollowsRelevance
<1>1. DatasetInv => ConfidenceFollowsRelevance
  <2> SUFFICES ASSUME DatasetInv, NEW r \in dataset, NEW q \in dataset,
                      r.relevance = "RELEVANT", q.relevance # "RELEVANT"
               PROVE  r.confidence > q.confidence
    BY DEF ConfidenceFollowsRelevance
  <2>1. dataset = RecordsOf(RawRecords)
    BY DEF DatasetInv
  <2>2. PICK c \in Int : r.confidence = c /\ c >= 6000
    BY <2>1, ConfidenceOfRecord
  <2>3. PICK d \in Int : q.confidence = d /\ d <= 4000
    BY <2>1, ConfidenceOfRecord
  <2> QED
    BY <2>2, <2>3
<1> QED
  BY <1>1, DatasetInvariant, PTL

-----------------------------------------------------------------------------
LEMMA LeastElement ==
  ASSUME NEW T \in SUBSET Nat, T # {}
  PROVE  \E x \in T : \A y \in T : x <= y
<1>1. PICK x \in T : \A y \in T : ~(<<y, x>> \in OpToRel(<, Nat))
  BY NatLessThanWellFounded, WFMin
<1>2. \A y \in T : ~(y < x)
  BY <1>1 DEF OpToRel
<1> QED
  BY <1>2

LEMMA ProviderRecords ==
  ASSUME NEW raw, NEW i
  PROVE  /\ DatasetRecord(raw, i).recordId[1] = "provider" <=> raw[i].id # 0
         /\ \A other, j : other[j] = raw[i] /\ raw[i].id # 0 =>
              DatasetRecord(other, j) = DatasetRecord(raw, i)
<1>1. DatasetRecord(raw, i).recordId[1] = RecordId(raw, i)[1]
  BY DEF DatasetRecord
<1>2. RecordId(raw, i)[1] = "provider" <=> raw[i].id # 0
  BY DEF RecordId
<1>3. ASSUME NEW other, NEW j, other[j] = raw[i], raw[i].id # 0
      PROVE  DatasetRecord(other, j) = DatasetRecord(raw, i)
  <2>1. RecordId(other, j) = RecordId(raw, i)
    BY <1>3 DEF RecordId
  <2> QED
    BY <1>3, <2>1 DEF DatasetRecord
<1> QED
  BY <1>1, <1>2, <1>3

(* A list without repetitions and one with, in which each record appears   *)
(* after all that the first list has before it.                            *)
Repeats(raw, once, p) ==
  /\ p \in [DOMAIN raw -> DOMAIN once]
  /\ \A i \in DOMAIN raw : once[p[i]] = raw[i]
  /\ \A u \in DOMAIN once : \E i \in DOMAIN raw : p[i] = u
  /\ \A i \in DOMAIN raw, u \in DOMAIN once :
       u < p[i] => \E j \in DOMAIN raw : j < i /\ p[j] = u

LEMMA SurvivorsOfRepeats ==
  ASSUME NEW raw, RawSequence(raw), NEW once, RawSequence(once), NEW p, Repeats(raw, once, p),
         NEW i \in Survivors(raw), raw[i].id # 0
  PROVE  p[i] \in Survivors(once)
<1>1. i \in DOMAIN raw /\ Survives(raw, i) /\ p[i] \in DOMAIN once /\ once[p[i]] = raw[i]
  BY DEF Survivors, Repeats
<1>2. /\ \A j \in DOMAIN raw : j \in Nat /\ IsRaw(raw[j])
      /\ \A u \in DOMAIN once : u \in Nat
  BY DEF RawSequence
<1>3. ASSUME NEW v \in DOMAIN once, once[v].id = raw[i].id, v # p[i]
      PROVE  Before(once, p[i], v)
  <2>1. PICK j \in DOMAIN raw : p[j] = v
    BY DEF Repeats
  <2>2. once[v] = raw[j] /\ j # i
    BY <1>3, <2>1 DEF Repeats
  <2>3. Before(raw, i, j)
    BY <1>1, <1>3, <2>2 DEF Survives
  <2>4. CASE SmallerKey(raw[i], raw[j])
    BY <1>1, <2>2, <2>4, BeforeIsByKey
  <2>5. CASE SameKey(raw[i], raw[j])
    <3>1. ~(v < p[i])
      <4> SUFFICES ASSUME v < p[i] PROVE FALSE
        OBVIOUS
      <4>1. PICK k \in DOMAIN raw : k < i /\ p[k] = v
        BY <1>1 DEF Repeats
      <4>2. raw[k] = raw[j]
        BY <2>2, <4>1 DEF Repeats
      <4>3. k # i /\ ~(i < k)
        BY <1>1, <1>2, <4>1
      <4>4. Before(raw, i, k)
        BY <1>1, <1>3, <2>2, <4>2, <4>3 DEF Survives
      <4>5. SmallerKey(raw[i], raw[j])
        BY <4>2, <4>3, <4>4, BeforeIsByKey
      <4> QED
        BY <1>1, <1>2, <2>5, <4>5, KeysAreOrdered
    <3>2. p[i] < v
      BY <1>1, <1>2, <1>3, <3>1
    <3> QED
      BY <1>1, <2>2, <2>5, <3>2, BeforeIsByKey
  <2> QED
    BY <2>3, <2>4, <2>5, BeforeIsByKey
<1> QED
  BY <1>1, <1>3 DEF Survivors, Survives

LEMMA SurvivorsOfOnce ==
  ASSUME NEW raw, RawSequence(raw), NEW once, RawSequence(once), NEW p, Repeats(raw, once, p),
         NEW u \in Survivors(once), once[u].id # 0
  PROVE  \E i \in Survivors(raw) : p[i] = u
<1>1. u \in DOMAIN once /\ Survives(once, u)
  BY DEF Survivors
<1>2. /\ \A j \in DOMAIN raw : j \in Nat /\ IsRaw(raw[j])
      /\ DOMAIN raw \subseteq Nat
  BY DEF RawSequence
<1>3. PICK i \in DOMAIN raw : p[i] = u /\ \A j \in DOMAIN raw : p[j] = u => i <= j
  <2> DEFINE places == {j \in DOMAIN raw : p[j] = u}
  <2>1. places # {} /\ places \in SUBSET Nat
    BY <1>1, <1>2 DEF Repeats
  <2> HIDE DEF places
  <2>2. PICK i \in places : \A j \in places : i <= j
    BY <2>1, LeastElement
  <2> QED
    BY <2>2 DEF places
<1>4. raw[i] = once[u]
  BY <1>3 DEF Repeats
<1>5. ASSUME NEW j \in DOMAIN raw, raw[j].id = raw[i].id, j # i
      PROVE  Before(raw, i, j)
  <2>1. p[j] \in DOMAIN once /\ once[p[j]] = raw[j]
    BY DEF Repeats
  <2>2. CASE p[j] = u
    <3>1. i < j
      BY <1>2, <1>3, <1>5, <2>2
    <3>2. SameKey(raw[i], raw[j])
      BY <1>4, <2>1, <2>2 DEF SameKey
    <3> QED
      BY <3>1, <3>2, BeforeIsByKey
  <2>3. CASE p[j] # u
    <3>1. Before(once, u, p[j])
      BY <1>1, <1>4, <1>5, <2>1, <2>3 DEF Survives
    <3>2. CASE SmallerKey(raw[i], raw[j])
      BY <3>2, BeforeIsByKey
    <3>3. CASE SameKey(raw[i], raw[j]) /\ u < p[j]
      <4>1. PICK k \in DOMAIN raw : k < j /\ p[k] = u
        BY <1>1, <3>3 DEF Repeats
      <4>2. i < j
        BY <1>2, <1>3, <4>1
      <4> QED
        BY <3>3, <4>2, BeforeIsByKey
    <3> QED
      BY <1>4, <2>1, <3>1, <3>2, <3>3, BeforeIsByKey
  <2> QED
    BY <2>2, <2>3
<1> QED
  BY <1>3, <1>5 DEF Survivors, Survives

(* Repetitions do not change which records are made of provider ids.       *)
LEMMA RepeatsChangeNothing ==
  ASSUME NEW raw, RawSequence(raw), NEW once, RawSequence(once), NEW p, Repeats(raw, once, p)
  PROVE  {r \in RecordsOf(raw) : r.recordId[1] = "provider"} =
           {r \in RecordsOf(once) : r.recordId[1] = "provider"}
<1>1. ASSUME NEW r \in RecordsOf(raw), r.recordId[1] = "provider"
      PROVE  r \in RecordsOf(once)
  <2>1. PICK i \in Survivors(raw) : r = DatasetRecord(raw, i)
    BY DEF RecordsOf
  <2>2. raw[i].id # 0
    BY <1>1, <2>1, ProviderRecords
  <2>3. p[i] \in Survivors(once) /\ once[p[i]] = raw[i]
    BY <2>2, SurvivorsOfRepeats DEF Repeats, Survivors
  <2>4. DatasetRecord(once, p[i]) = r
    BY <2>1, <2>2, <2>3, ProviderRecords
  <2> QED
    BY <2>3, <2>4 DEF RecordsOf
<1>2. ASSUME NEW r \in RecordsOf(once), r.recordId[1] = "provider"
      PROVE  r \in RecordsOf(raw)
  <2>1. PICK u \in Survivors(once) : r = DatasetRecord(once, u)
    BY DEF RecordsOf
  <2>2. once[u].id # 0
    BY <1>2, <2>1, ProviderRecords
  <2>3. PICK i \in Survivors(raw) : p[i] = u
    BY <2>2, SurvivorsOfOnce
  <2>4. raw[i] = once[u]
    BY <2>3 DEF Repeats, Survivors
  <2>5. DatasetRecord(raw, i) = r
    BY <2>1, <2>2, <2>4, ProviderRecords
  <2> QED
    BY <2>5 DEF RecordsOf
<1> QED
  BY <1>1, <1>2

-----------------------------------------------------------------------------
(* The place of number n in W, counted from the largest                    *)
Rank(W, n) == Cardinality({k \in W : k >= n})

LEMMA RanksCount ==
  ASSUME NEW W, IsFiniteSet(W), W \subseteq Nat
  PROVE  /\ Cardinality(W) \in Nat
         /\ \A n \in W : Rank(W, n) \in 1..Cardinality(W)
         /\ \A n, m \in W : n > m => Rank(W, n) < Rank(W, m)
         /\ \A i \in 1..Cardinality(W) : \E n \in W : Rank(W, n) = i
<1> DEFINE From(n) == {k \in W : k >= n}
<1>1. \A n \in W : n \in From(n) /\ From(n) \in SUBSET W /\ IsFiniteSet(From(n))
  BY FS_Subset
<1>2. ASSUME NEW n \in W PROVE Cardinality(From(n)) \in 1..Cardinality(W)
  <2>1. /\ Cardinality(From(n)) <= Cardinality(W) /\ Cardinality(From(n)) \in Nat
        /\ Cardinality(W) \in Nat /\ From(n) # {} /\ IsFiniteSet(From(n))
    BY <1>1, FS_Subset, FS_CardinalityType
  <2> HIDE DEF From
  <2>2. Cardinality(From(n)) # 0
    BY <2>1, FS_EmptySet
  <2> QED
    BY <2>1, <2>2
<1>3. ASSUME NEW n \in W, NEW m \in W, n > m
      PROVE  Cardinality(From(n)) < Cardinality(From(m))
  <2>1. From(n) \subseteq From(m) /\ m \notin From(n) /\ m \in From(m)
    <3>1. n \in Nat /\ m \in Nat /\ \A k \in W : k \in Nat
      OBVIOUS
    <3>2. \A k \in W : k >= n => k >= m
      BY <1>3, <3>1
    <3>3. m >= m /\ ~(m >= n)
      BY <1>3, <3>1
    <3> QED
      BY <3>2, <3>3
  <2>2. IsFiniteSet(From(m)) /\ Cardinality(From(m)) \in Nat /\ Cardinality(From(n)) \in Nat
    BY <1>1, FS_CardinalityType
  <2>3. From(n) \in SUBSET From(m) /\ From(n) # From(m)
    BY <2>1
  <2> HIDE DEF From
  <2>4. Cardinality(From(n)) <= Cardinality(From(m)) /\ Cardinality(From(n)) # Cardinality(From(m))
    BY <2>2, <2>3, FS_Subset
  <2> QED
    BY <2>2, <2>4
<1>4. ASSUME NEW i \in 1..Cardinality(W) PROVE \E n \in W : Cardinality(From(n)) = i
  <2> DEFINE f == [n \in W |-> Cardinality(From(n))]
             T == 1..Cardinality(W)
  <2>1. f \in [W -> T]
    BY <1>2
  <2>2. \A n, m \in W : f[n] = f[m] => n = m
    <3> SUFFICES ASSUME NEW n \in W, NEW m \in W, Cardinality(From(n)) = Cardinality(From(m)), n # m
                 PROVE  FALSE
      OBVIOUS
    <3>1. n > m \/ m > n
      OBVIOUS
    <3>2. Cardinality(From(n)) \in Int /\ Cardinality(From(m)) \in Int
      BY <1>2, FS_CardinalityType
    <3> HIDE DEF From
    <3> QED
      BY <1>3, <3>1, <3>2
  <2>3. IsFiniteSet(T) /\ Cardinality(T) = Cardinality(W)
    <3>1. Cardinality(W) \in Nat
      BY FS_CardinalityType
    <3> QED
      BY <3>1, FS_Interval
  <2> HIDE DEF f, T
  <2>4. f \in Injection(W, T)
    BY <2>1, <2>2 DEF Injection, IsInjective
  <2>5. f \in Surjection(W, T)
    BY <2>3, <2>4, FS_Injection
  <2>6. \E n \in W : f[n] = i
    BY <2>5 DEF Surjection, T
  <2> QED
    BY <2>6 DEF f
<1> QED
  BY <1>2, <1>3, <1>4, FS_CardinalityType DEF Rank

-----------------------------------------------------------------------------
WantedNumbers == {n \in 1..listed : Wanted(content[n])}

LEMMA UnshiftedIsByRank ==
  ASSUME TypeOK
  PROVE  /\ DOMAIN Unshifted = 1..Cardinality(WantedNumbers)
         /\ Cardinality(WantedNumbers) \in Nat
         /\ \A n \in WantedNumbers :
              /\ Rank(WantedNumbers, n) \in DOMAIN Unshifted
              /\ Unshifted[Rank(WantedNumbers, n)] = content[n]
         /\ \A n, m \in WantedNumbers :
              n > m => Rank(WantedNumbers, n) < Rank(WantedNumbers, m)
         /\ \A u \in DOMAIN Unshifted : \E n \in WantedNumbers : Rank(WantedNumbers, n) = u
<1> DEFINE W == WantedNumbers
           At(i) == CHOOSE n \in W : Rank(W, n) = i
<1>1. IsFiniteSet(W) /\ W \subseteq Nat
  <2>1. W \in SUBSET (1..listed) /\ listed \in Nat
    BY DEF WantedNumbers, TypeOK
  <2>2. IsFiniteSet(1..listed) /\ 1..listed \subseteq Nat
    BY <2>1, FS_Interval
  <2> QED
    BY <2>1, <2>2, FS_Subset
<1>2. Unshifted = [i \in 1..Cardinality(W) |-> content[At(i)]]
  BY DEF Unshifted, WantedNumbers, Rank
<1> HIDE DEF W
<1>3. /\ Cardinality(W) \in Nat
      /\ \A n \in W : Rank(W, n) \in 1..Cardinality(W)
      /\ \A n, m \in W : n > m => Rank(W, n) < Rank(W, m)
      /\ \A i \in 1..Cardinality(W) : \E n \in W : Rank(W, n) = i
  BY <1>1, RanksCount
<1>4. ASSUME NEW n \in W PROVE At(Rank(W, n)) = n
  <2>1. At(Rank(W, n)) \in W /\ Rank(W, At(Rank(W, n))) = Rank(W, n)
    OBVIOUS
  <2> HIDE DEF At
  <2>2. At(Rank(W, n)) \in Nat /\ n \in Nat
    BY <1>1, <2>1
  <2>3. ~(At(Rank(W, n)) > n) /\ ~(n > At(Rank(W, n)))
    <3>1. Rank(W, n) \in Nat /\ ~(Rank(W, n) < Rank(W, n))
      BY <1>3
    <3> QED
      BY <1>3, <2>1, <3>1
  <2> QED
    BY <2>2, <2>3
<1>5. \A n \in W : Unshifted[Rank(W, n)] = content[n]
  BY <1>2, <1>3, <1>4
<1> QED
  BY <1>2, <1>3, <1>5 DEF W

LEMMA PagesRepeatTheFeed ==
  ASSUME ClientInv, DatasetInv, outcome = "COMPLETED", withdrawn = 0,
         \A n \in (listed + 1)..Len(content) : ~Wanted(content[n])
  PROVE  /\ \A i \in DOMAIN records : records[i] \in WantedNumbers
         /\ \A n \in WantedNumbers : \E i \in DOMAIN records : records[i] = n
         /\ \A i \in DOMAIN records, n \in WantedNumbers :
              n > records[i] => \E j \in DOMAIN records : j < i /\ records[j] = n
<1>1. TypeOK /\ RecordsInv /\ state = "fetched"
  BY DEF ClientInv, FeedInv, DatasetInv
<1>2. DOMAIN records = 1..Len(records) /\ Len(records) \in Nat
  BY <1>1 DEF TypeOK
<1>3. ASSUME NEW i \in DOMAIN records PROVE records[i] \in WantedNumbers
  <2>1. /\ records[i] \in 1..Len(content) /\ Wanted(content[records[i]])
        /\ listed \in 0..Len(content)
    BY <1>1 DEF TypeOK, RecordsInv
  <2>2. records[i] \notin (listed + 1)..Len(content)
    BY <2>1
  <2> QED
    BY <2>1, <2>2 DEF WantedNumbers
<1>4. ASSUME NEW n \in WantedNumbers PROVE \E i \in DOMAIN records : records[i] = n
  <2>1. ToRead = {} /\ Behind = {}
    BY <1>1 DEF TypeOK, ToRead, Behind
  <2>2. n \in Kept
    BY <2>1 DEF ClientInv, FeedInv, NoneLost, WantedNumbers
  <2> QED
    BY <2>2 DEF Kept
<1>5. ASSUME NEW i \in DOMAIN records, NEW n \in WantedNumbers, n > records[i]
      PROVE  \E j \in DOMAIN records : j < i /\ records[j] = n
  <2>1. PICK j \in 1..(i - 1) : records[j] = n
    BY <1>1, <1>5 DEF RecordsInv, NewestFirst, WantedNumbers
  <2> QED
    BY <1>2, <2>1
<1> QED
  BY <1>3, <1>4, <1>5

(* Pages that shift under the client repeat articles and lose none; what   *)
(* the dataset says of articles with a provider id is what it would have   *)
(* said of a feed at rest.                                                 *)
THEOREM ShiftsChangeNothing == DatasetSpec => []ShiftedPagesChangeNothing
<1>1. ClientInv /\ DatasetInv => ShiftedPagesChangeNothing
  <2> SUFFICES ASSUME ClientInv, DatasetInv, outcome = "COMPLETED", withdrawn = 0,
                      \A n \in (listed + 1)..Len(content) : ~Wanted(content[n])
               PROVE  /\ \A i \in DOMAIN Unshifted : IsValid(Unshifted[i])
                      /\ {r \in dataset : r.recordId[1] = "provider"} =
                           {r \in RecordsOf(Unshifted) : r.recordId[1] = "provider"}
    BY DEF ShiftedPagesChangeNothing
  <2> DEFINE W == WantedNumbers
             p == [i \in DOMAIN RawRecords |-> Rank(W, records[i])]
  <2>1. RawSequence(RawRecords) /\ DOMAIN RawRecords = DOMAIN records
    BY RawRecordsAreRaw
  <2>2. \A i \in DOMAIN records : RawRecords[i] = content[records[i]]
    BY DEF RawRecords
  <2>3. /\ DOMAIN Unshifted = 1..Cardinality(W) /\ Cardinality(W) \in Nat
        /\ \A n \in W : Rank(W, n) \in DOMAIN Unshifted /\ Unshifted[Rank(W, n)] = content[n]
        /\ \A n, m \in W : n > m => Rank(W, n) < Rank(W, m)
        /\ \A u \in DOMAIN Unshifted : \E n \in W : Rank(W, n) = u
    BY UnshiftedIsByRank DEF ClientInv, FeedInv
  <2>4. /\ \A i \in DOMAIN records : records[i] \in W
        /\ \A n \in W : \E i \in DOMAIN records : records[i] = n
        /\ \A i \in DOMAIN records, n \in W :
             n > records[i] => \E j \in DOMAIN records : j < i /\ records[j] = n
    BY PagesRepeatTheFeed
  <2>5. \A n \in W : n \in Nat
    BY DEF WantedNumbers, ClientInv, FeedInv, TypeOK
  <2> HIDE DEF W
  <2>6. \A u \in DOMAIN Unshifted : \E i \in DOMAIN RawRecords : p[i] = u /\ RawRecords[i] = Unshifted[u]
    BY <2>1, <2>2, <2>3, <2>4
  <2>7. Repeats(RawRecords, Unshifted, p)
    <3>1. p \in [DOMAIN RawRecords -> DOMAIN Unshifted]
      BY <2>1, <2>3, <2>4
    <3>2. \A i \in DOMAIN RawRecords : Unshifted[p[i]] = RawRecords[i]
      BY <2>1, <2>2, <2>3, <2>4
    <3>3. ASSUME NEW i \in DOMAIN RawRecords, NEW u \in DOMAIN Unshifted, u < p[i]
          PROVE  \E j \in DOMAIN RawRecords : j < i /\ p[j] = u
      <4>1. PICK n \in W : Rank(W, n) = u
        BY <2>3
      <4>2. records[i] \in W /\ p[i] = Rank(W, records[i])
        BY <2>1, <2>4
      <4>3. n > records[i]
        <5>1. u \in Nat /\ p[i] \in Nat
          BY <2>3, <3>1
        <5>2. ~(records[i] > n) /\ records[i] # n
          BY <2>3, <3>3, <4>1, <4>2, <5>1
        <5> QED
          BY <2>5, <4>2, <5>2
      <4>4. PICK j \in DOMAIN records : j < i /\ records[j] = n
        BY <2>1, <2>4, <4>3
      <4> QED
        BY <2>1, <4>1, <4>4
    <3> QED
      BY <2>6, <3>1, <3>2, <3>3, Zenon DEF Repeats
  <2>8. RawSequence(Unshifted)
    <3>1. \A u \in DOMAIN Unshifted : IsRaw(Unshifted[u])
      BY <2>1, <2>6 DEF RawSequence
    <3> QED
      BY <2>3, <3>1, Zenon DEF RawSequence
  <2>9. \A u \in DOMAIN Unshifted : IsValid(Unshifted[u])
    <3>1. \A i \in DOMAIN RawRecords : IsValid(RawRecords[i])
      BY DEF DatasetInv
    <3> QED
      BY <2>6, <3>1
  <2>10. dataset = RecordsOf(RawRecords)
    BY DEF DatasetInv
  <2> HIDE DEF p
  <2> QED
    BY <2>1, <2>7, <2>8, <2>9, <2>10, RepeatsChangeNothing
<1> QED
  BY <1>1, DatasetInvariant, PTL
=============================================================================
