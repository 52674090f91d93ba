----------------------------- MODULE CrawlBase ------------------------------
(* What the crawlers of the KAATS backend share (BaseCrawler).              *)
EXTENDS Site

CONSTANTS
  PageLimits, \* the values of max_pages a job may have
  Batch       \* pages between two saves (10 of the web crawler, 5 of the other)

VARIABLES
  max_pages,   \* of the configuration of this crawl
  pc,          \* how far the crawler has come
  pages,       \* _pages
  flow_graph,  \* _flow_graph
  error_count, \* _error_count
  rows,        \* crawl_pages in Azure SQL: how many rows the i-th page has
  unsaved      \* history: the pages with a failed save

\* Every page is saved with an INSERT of its own, under a fresh id and whatever
\* is there already; the i-th insert fails for i in bad, which is only logged.
SaveCrawlPages(n, bad) ==
  [i \in 1 .. n |-> (IF i \in DOMAIN rows THEN rows[i] ELSE 0) + (IF i \in bad THEN 0 ELSE 1)]

\* Bound: at most one of the inserts of a batch fails.
FailedSaves(n) == {{}} \cup {{i} : i \in 1 .. n}

\* All pages are saved again.
PersistPageBatch(ps) ==
  \E bad \in FailedSaves(Len(ps)) :
    /\ rows' = SaveCrawlPages(Len(ps), bad)
    /\ unsaved' = unsaved \cup bad

\* The rows before the new pages among the n are saved.
Unsaved(n) == [i \in 1 .. n |-> IF i \in DOMAIN rows THEN rows[i] ELSE 0]

\* run() turns the i-th page into the flow flow-000i, of one step.
Flows(ps) == [i \in DOMAIN ps |-> [flow_id |-> i, url |-> ps[i].url]]
=============================================================================
