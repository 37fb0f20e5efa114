------------------------------- MODULE NewsFeed -------------------------------
(***************************************************************************)
(* SharpeTerminalClient.fetch_historical_news: the client pages by offset  *)
(* through a feed that lists the newest article first.  While it pages,    *)
(* articles are published at the head of the feed, which moves all others  *)
(* to later offsets, and the provider may withdraw one, which moves the    *)
(* older ones back.  The client has no cursor: a page is whatever the feed *)
(* lists at its offset when the page is asked for.                         *)
(***************************************************************************)
EXTENDS Integers, Sequences, FiniteSets

CONSTANTS
  Articles,      \* what a list entry can be: raw articles, and Junk
  Junk,          \* an entry of data.articles that is not an object
  NoTime,        \* `published` missing, not ISO-8601 or without a time zone
  FrameStart,    \* request.timeframe_start
  FrameEnd,      \* request.timeframe_end
  PageLimit,     \* SHARPE_PAGE_LIMIT
  MaxListed,     \* bound: articles the feed lists when the request begins
  MaxPublished,  \* bound: articles published while the client pages
  MaxWithdrawn   \* bound: articles withdrawn while the client pages

ASSUME PageLimitAssumption == PageLimit \in Nat \ {0}
ASSUME ListedAssumption == MaxListed \in Nat /\ MaxPublished \in Nat /\ MaxWithdrawn \in Nat

VARIABLES
  content,    \* every article ever listed, in order of publication
  feed,       \* the numbers of the articles listed now, the newest last
  listed,     \* auxiliary: how many articles there were when the request began
  withdrawn,  \* auxiliary: how many articles were withdrawn since
  state,      \* what fetch_historical_news does next, or how it ended
  offset,     \* offset of the next page
  page,       \* the articles of the page being read
  at,         \* how many of them the loop has seen
  records     \* the raw records kept so far

service == <<content, feed, listed, withdrawn>>
client == <<state, offset, page, at, records>>
feedVars == <<service, client>>

Ended == {"fetched", "limitation", "unavailable", "broken"}
States == {"asked", "fetching", "reading"} \cup Ended

TypeOK ==
  /\ content \in Seq(Articles)
  /\ feed \in Seq(1..Len(content))
  /\ listed \in 0..Len(content)
  /\ withdrawn \in Nat
  /\ state \in States
  /\ offset \in Nat
  /\ page \in Seq(1..Len(content))
  /\ at \in 0..Len(page)
  /\ state # "reading" => page = <<>>
  /\ records \in Seq(1..Len(content))

Init ==
  /\ content \in UNION {[1..n -> Articles] : n \in 0..MaxListed}
  /\ feed = [n \in 1..Len(content) |-> n]
  /\ listed = Len(content)
  /\ withdrawn = 0
  /\ state = "asked"
  /\ offset = 0
  /\ page = <<>>
  /\ at = 0
  /\ records = <<>>

-----------------------------------------------------------------------------
(* The provider.  What it lists matters when a page is fetched, so its     *)
(* moves are steps between two pages only.                                 *)

Publish(a) ==
  /\ state = "fetching"
  /\ Len(content) - listed < MaxPublished
  /\ content' = Append(content, a)
  /\ feed' = Append(feed, Len(content) + 1)
  /\ UNCHANGED <<listed, withdrawn, client>>

Withdraw(i) ==
  /\ state = "fetching"
  /\ withdrawn < MaxWithdrawn
  /\ withdrawn' = withdrawn + 1
  /\ feed' = [k \in 1..(Len(feed) - 1) |-> IF k < i THEN feed[k] ELSE feed[k + 1]]
  /\ UNCHANGED <<content, listed, client>>

(* limit=PageLimit&offset=o of the feed, newest first                      *)
PageAt(o) ==
  LET left == Len(feed) - o
      size == IF left < 0 THEN 0 ELSE IF left < PageLimit THEN left ELSE PageLimit
  IN  [k \in 1..size |-> feed[left + 1 - k]]

-----------------------------------------------------------------------------
(* The client                                                              *)

(* _is_inside_timeframe: an article without a usable time is kept          *)
IsInsideTimeframe(a) ==
  a.published = NoTime \/ (FrameStart <= a.published /\ a.published <= FrameEnd)

Wanted(a) == a # Junk /\ IsInsideTimeframe(a)

(* Without an API key the request ends before the first page.              *)
CheckKey ==
  /\ state = "asked"
  /\ state' \in {"fetching", "limitation"}
  /\ UNCHANGED <<service, offset, page, at, records>>

FetchPage ==
  /\ state = "fetching"
  /\ page' = PageAt(offset)
  /\ at' = 0
  /\ state' = "reading"
  /\ UNCHANGED <<service, offset, records>>

(* HTTPError, URLError, OSError and ValueError of the page's request       *)
PageUnavailable ==
  /\ state = "fetching"
  /\ state' = "unavailable"
  /\ UNCHANGED <<service, offset, page, at, records>>

(* What else the call or its payload raises, an answer that ends early or  *)
(* is no object, is not caught.                                            *)
PageBreaks ==
  /\ state = "fetching"
  /\ state' = "broken"
  /\ UNCHANGED <<service, offset, page, at, records>>

(* _articles_from_payload: no data.articles list                           *)
UnexpectedPayload ==
  /\ state = "fetching"
  /\ state' = "limitation"
  /\ UNCHANGED <<service, offset, page, at, records>>

(* Wrong variant: the loop stops at the first article out of the timeframe.*)
KeepArticleUntilOutside ==
  /\ state = "reading" /\ at < Len(page)
  /\ LET n == page[at + 1] IN
       IF Wanted(content[n]) THEN records' = Append(records, n) /\ at' = at + 1
       ELSE at' = Len(page) /\ UNCHANGED records
  /\ UNCHANGED <<service, state, offset, page>>

(* One turn of the loop over the page's articles                           *)
KeepArticle ==
  /\ state = "reading" /\ at < Len(page)
  /\ LET n == page[at + 1] IN
       records' = IF Wanted(content[n]) THEN Append(records, n) ELSE records
  /\ at' = at + 1
  /\ UNCHANGED <<service, state, offset, page>>

(* Wrong variants: the next page starts one article late or one early, or  *)
(* the offset stays.                                                       *)
NextPageSkipping ==
  /\ state = "reading" /\ at = Len(page)
  /\ IF Len(page) < PageLimit
       THEN state' = "fetched" /\ UNCHANGED offset
       ELSE state' = "fetching" /\ offset' = offset + PageLimit + 1
  /\ page' = <<>> /\ at' = 0
  /\ UNCHANGED <<service, records>>

NextPageOverlapping ==
  /\ state = "reading" /\ at = Len(page)
  /\ IF Len(page) < PageLimit
       THEN state' = "fetched" /\ UNCHANGED offset
       ELSE state' = "fetching" /\ offset' = offset + PageLimit - 1
  /\ page' = <<>> /\ at' = 0
  /\ UNCHANGED <<service, records>>

NextPageAtSameOffset ==
  /\ state = "reading" /\ at = Len(page)
  /\ state' = IF Len(page) < PageLimit THEN "fetched" ELSE "fetching"
  /\ page' = <<>> /\ at' = 0
  /\ UNCHANGED <<service, offset, records>>

(* A short page is the last one.                                           *)
NextPage ==
  /\ state = "reading" /\ at = Len(page)
  /\ IF Len(page) < PageLimit
       THEN state' = "fetched" /\ UNCHANGED offset
       ELSE state' = "fetching" /\ offset' = offset + PageLimit
  /\ page' = <<>> /\ at' = 0
  /\ UNCHANGED <<service, records>>

Fetch ==
  \/ CheckKey \/ FetchPage \/ PageUnavailable \/ PageBreaks \/ UnexpectedPayload
  \/ KeepArticle \/ NextPage

Provider ==
  \/ \E a \in Articles : Publish(a)
  \/ \E i \in DOMAIN feed : Withdraw(i)

FeedSpec == Init /\ [][Fetch \/ Provider]_feedVars

-----------------------------------------------------------------------------
Kept == {records[i] : i \in DOMAIN records}

(* Articles of the timeframe that were listed when the request began, are  *)
(* still listed and are not in the answer.                                 *)
Missed ==
  {n \in 1..listed :
     /\ Wanted(content[n]) /\ n \notin Kept
     /\ \E k \in DOMAIN feed : feed[k] = n}

(* Paging by offset loses an article only when the provider withdraws one  *)
(* meanwhile, and at most one for each: articles published while the       *)
(* client pages move others to later pages, never past the client.         *)
MissedOnlyByWithdrawal ==
  state = "fetched" => Cardinality(Missed) <= withdrawn

(* The answer holds an article twice only when others are published        *)
(* meanwhile, and has at most one repetition for each of them: what is     *)
(* withdrawn never brings an article back to a later page.                 *)
RepeatsOnlyByPublication ==
  Len(records) <= Cardinality(Kept) + (Len(content) - listed)

(* Where an article of the timeframe is before the answer is complete:     *)
(* kept, still to be read on this page, or listed behind it.               *)
ToRead == {page[k] : k \in (at + 1)..Len(page)}
Behind ==
  IF state = "reading" THEN 1..(Len(feed) - offset - PageLimit)
  ELSE IF state = "fetched" THEN {}
  ELSE 1..(Len(feed) - offset)

(* While nothing is withdrawn no article is lost on the way.               *)
NoneLost ==
  withdrawn = 0 =>
    /\ feed = [n \in 1..Len(content) |-> n]
    /\ state = "reading" => page = PageAt(offset)
    /\ \A n \in 1..listed : Wanted(content[n]) => n \in Kept \cup ToRead \cup Behind

FeedInv == TypeOK /\ NoneLost
=============================================================================
