---------------------------- MODULE MCNewsDataset ----------------------------
(* A feed of at most three articles, pages of two, one article published   *)
(* and one withdrawn meanwhile.                                            *)
EXTENDS NewsDataset

Article(id, published, zone, source, headline, terms) ==
  [id |-> id, published |-> published, zone |-> zone, source |-> source,
   headline |-> headline, terms |-> terms]

(* Two versions of article 1, one written in another zone, two articles    *)
(* without an id that differ in their source only, one without a time, one *)
(* after the timeframe, and an entry that is no article.                   *)
MCArticles ==
  {Article(1, 1, 0, 1, 1, {"btc", "etf_approval", "approval"}),
   Article(1, 1, 2, 1, 2, {"btc"}),
   Article(0, 2, 0, 1, 1, {"bullish", "rally"}),
   Article(0, 2, 0, 0, 1, {"btc", "hack"}),
   Article(0, NoTime, 0, 1, 1, {}),
   Article(2, 3, 0, 1, 1, {"btc"}),
   Junk}
=============================================================================
