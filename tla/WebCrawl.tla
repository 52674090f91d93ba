------------------------------ MODULE WebCrawl ------------------------------
(***************************************************************************)
(* One web crawl of the KAATS backend (WebUICrawler): a breadth-first      *)
(* search of a site that is only discovered by visiting it.  The queue     *)
(* holds links with the depth and the page they were found at; a URL is    *)
(* marked visited when its visit succeeds, so it may stand in the queue    *)
(* several times and a failed visit is tried again from another referrer.  *)
(* The pages are saved to Azure SQL every Batch pages and at the end, each *)
(* time all of them, and a save that fails is only logged.                 *)
(*                                                                         *)
(* What a page links to and where a visit ends are the site's choices.     *)
(***************************************************************************)
EXTENDS CrawlBase, FiniteSets

CONSTANTS
  Start,      \* target_url
  Origin,     \* the URLs same_origin_only lets through
  Patterned,  \* the URLs include_patterns and exclude_patterns let through
  Anchors,    \* the lists of anchors a page may have, in the order of the document
  Redirects,  \* pairs <<u, v>>: a visit of u may end at v
  Login,      \* where the site sends a visitor without a session
  AuthTypes,  \* the types of auth_config a job may have
  MaxDepth,   \* max_depth
  None

ASSUME UrlAssumption ==
  /\ {Start, Login} \cup Origin \cup Patterned \subseteq Urls
  /\ None \notin Urls
  /\ Redirects \subseteq Urls \X Urls
ASSUME AnchorAssumption == Anchors \subseteq Seq(Urls)
ASSUME BoundAssumption == MaxDepth \in Nat /\ PageLimits \subseteq Nat /\ Batch \in Nat \ {0}

VARIABLES
  session,     \* whether the browser has authenticated
  queue,       \* _queue
  visited,     \* _visited
  page_index,  \* _page_index, which names the screenshots
  failed       \* history: the URLs with a failed visit

site == <<visited, pages, flow_graph, page_index>>
saved == <<rows, unsaved>>
vars == <<max_pages, pc, session, queue, site, error_count, saved, failed>>

Entry(u, d, r) == [url |-> u, depth |-> d, referrer |-> r]
Entries == [url : Urls, depth : 0 .. MaxDepth, referrer : Urls \cup {None}]
\* key is the URL asked for, url the one the browser ended at.
Pages == [key : Urls, url : Urls, depth : 0 .. MaxDepth, links : Seq(Urls), screenshot : Nat]

Init ==
  /\ max_pages \in PageLimits
  /\ pc = "new"
  /\ session = FALSE
  /\ queue = <<>>
  /\ visited = {} /\ pages = <<>> /\ flow_graph = {} /\ page_index = 0
  /\ error_count = 0
  /\ rows = <<>>
  /\ failed = {}
  /\ unsaved = {}

\* Only the form login can raise; the exception is logged and the crawl goes on.
HandleAuthentication ==
  /\ pc = "new"
  /\ \E type \in AuthTypes, ok \in BOOLEAN :
       /\ ok \/ type = "form"
       /\ session' = ok
  /\ pc' = "crawl"
  /\ queue' = <<Entry(Start, 0, None)>>
  /\ UNCHANGED <<max_pages, site, error_count, saved, failed>>

\* Mutant: failed visits count against max_pages.
Crawling_CountErrors == pc = "crawl" /\ queue # <<>> /\ Len(pages) + error_count < max_pages

Crawling == pc = "crawl" /\ queue # <<>> /\ Len(pages) < max_pages

Popped == Head(queue)

\* The checks of an entry before its visit.
Wanted(e) ==
  /\ e.url \notin visited
  /\ e.depth =< MaxDepth
  /\ e.url \in Origin \cap Patterned

\* Mutant: a link that is not wanted now is kept for later.
Skip_Requeue ==
  /\ Crawling
  /\ ~Wanted(Popped)
  /\ queue' = Append(Tail(queue), Popped)
  /\ UNCHANGED <<max_pages, pc, session, site, error_count, saved, failed>>

Skip ==
  /\ Crawling
  /\ ~Wanted(Popped)
  /\ queue' = Tail(queue)
  /\ UNCHANGED <<max_pages, pc, session, site, error_count, saved, failed>>

-----------------------------------------------------------------------------

NoPersist(ps) == rows' = Unsaved(Len(ps)) /\ UNCHANGED unsaved

\* _extract_links: no anchor to another origin, none twice, none at all after an error.
ExtractLinks ==
  {l \in Anchors : /\ \A i \in DOMAIN l : l[i] \in Origin
                   /\ \A i, j \in DOMAIN l : l[i] = l[j] => i = j}

AnalyzePage(e, actual, links) ==
  [key |-> e.url, url |-> actual, depth |-> e.depth, links |-> links, screenshot |-> page_index + 1]

EndsAt(u) == {u} \cup {v \in Urls : <<u, v>> \in Redirects} \cup (IF session THEN {} ELSE {Login})

\* Mutant: a page found earlier in the crawl is queued first.
Enqueue_Front(e, links) ==
  LET fresh == Outside(links, visited \cup {e.url})
  IN  (IF e.depth < MaxDepth THEN [i \in DOMAIN fresh |-> Entry(fresh[i], e.depth + 1, e.url)]
                             ELSE <<>>) \o Tail(queue)

\* The queue without e and with the links of its page, unless they would be too deep.
Enqueue(e, links) ==
  LET fresh == Outside(links, visited \cup {e.url})
  IN  Tail(queue) \o (IF e.depth < MaxDepth
                        THEN [i \in DOMAIN fresh |-> Entry(fresh[i], e.depth + 1, e.url)]
                        ELSE <<>>)

VisitPage(actual, links) ==
  LET e == Popped
      ps == Append(pages, AnalyzePage(e, actual, links))
  IN  /\ Crawling
      /\ Wanted(e)
      /\ actual \in EndsAt(e.url)
      /\ page_index' = page_index + 1
      /\ visited' = visited \cup {e.url}
      /\ pages' = ps
      /\ flow_graph' = flow_graph \cup ({<<e.referrer, e.url>>} \ {<<None, e.url>>})
      /\ IF Len(ps) % Batch = 0 THEN PersistPageBatch(ps) ELSE NoPersist(ps)
      /\ queue' = Enqueue(e, links)
      /\ UNCHANGED <<max_pages, pc, session, error_count, failed>>

\* A navigation or an evaluation on the page raised: the entry is dropped.
VisitError ==
  /\ Crawling
  /\ Wanted(Popped)
  /\ page_index' = page_index + 1
  /\ error_count' = error_count + 1
  /\ queue' = Tail(queue)
  /\ failed' = failed \cup {Popped.url}
  /\ UNCHANGED <<max_pages, pc, session, visited, pages, flow_graph, saved>>

\* Reading the title or evaluating a script has no timeout: a page that keeps its
\* script busy never answers, and the crawl stays with it.
BrowserHangs ==
  /\ Crawling
  /\ Wanted(Popped)
  /\ page_index' = page_index + 1
  /\ pc' = "hung"
  /\ UNCHANGED <<max_pages, session, queue, visited, pages, flow_graph, error_count, saved, failed>>

\* Mutant: nothing is saved after the last batch.
Finish_NoSave ==
  /\ pc = "crawl"
  /\ ~Crawling
  /\ NoPersist(pages)
  /\ pc' = "done"
  /\ UNCHANGED <<max_pages, session, queue, site, error_count, failed>>

\* The remaining pages are saved and the result is returned.
Finish ==
  /\ pc = "crawl"
  /\ ~Crawling
  /\ PersistPageBatch(pages)
  /\ pc' = "done"
  /\ UNCHANGED <<max_pages, session, queue, site, error_count, failed>>

Crawl ==
  \/ HandleAuthentication
  \/ Skip
  \/ \E actual \in Urls, links \in ExtractLinks : VisitPage(actual, links)
  \/ VisitError
  \/ Finish

Next == Crawl \/ BrowserHangs

\* The crawler is a sequential program: every call returns or raises, but for the
\* one that BrowserHangs is about.
Spec == Init /\ [][Next]_vars /\ WF_vars(Crawl)

-----------------------------------------------------------------------------

TypeOK ==
  /\ max_pages \in PageLimits
  /\ pc \in {"new", "crawl", "hung", "done"}
  /\ session \in BOOLEAN
  /\ queue \in Seq(Entries)
  /\ visited \subseteq Urls
  /\ pages \in Seq(Pages)
  /\ flow_graph \subseteq Urls \X Urls
  /\ page_index \in Nat
  /\ error_count \in Nat
  /\ rows \in Seq(Nat)
  /\ failed \subseteq Urls
  /\ unsaved \subseteq Nat

\* The search is breadth first although a URL may be queued from several pages
\* and at several depths: a page is found at most one step deeper than any page
\* that links to it, unless an earlier visit of it failed.
ShortestDepth ==
  \A i, j \in DOMAIN pages :
    (\E k \in DOMAIN pages[i].links : pages[i].links[k] = pages[j].key)
      => pages[j].depth =< pages[i].depth + 1 \/ pages[j].key \in failed

\* A crawl that stops before max_pages has missed nothing: each link of a page
\* less deep than max_depth that the configuration lets through has been visited,
\* or its visit failed.
Exhaustive ==
  pc = "done" /\ Len(pages) < max_pages =>
    \A i \in DOMAIN pages : \A k \in DOMAIN pages[i].links :
      LET u == pages[i].links[k]
      IN  pages[i].depth < MaxDepth /\ u \in Origin \cap Patterned => u \in visited \cup failed

\* The pages of a finished crawl are in Azure SQL, those of the last incomplete
\* batch too; only a save that failed can lose one.
PagesPersisted == pc = "done" => \A i \in DOMAIN pages : rows[i] > 0 \/ i \in unsaved

\* A crawl ends, whatever the site links to and whichever visits fail, unless a page
\* never answers.
CrawlEnds == <>(pc = "done") \/ <>(pc = "hung")

-----------------------------------------------------------------------------
(* The inductive invariant *)

\* The queue is a frontier of breadth-first search: it grows by at most one in
\* depth, and no page is deeper than what is still queued.
FrontierInv ==
  /\ \A i, j \in DOMAIN queue :
       /\ i =< j => queue[i].depth =< queue[j].depth
       /\ queue[j].depth =< queue[i].depth + 1
  /\ \A i \in DOMAIN pages, j \in DOMAIN queue : pages[i].depth =< queue[j].depth

\* What a page links to is behind the crawler or still in its queue, no deeper
\* than one step below the page.
PendingInv ==
  \A i \in DOMAIN pages : \A k \in DOMAIN pages[i].links :
    LET u == pages[i].links[k]
    IN  pages[i].depth < MaxDepth /\ u \in Origin \cap Patterned =>
          \/ u \in visited \cup failed
          \/ \E j \in DOMAIN queue : /\ queue[j].url = u
                                     /\ queue[j].depth =< pages[i].depth + 1

\* A page is a successful visit of a URL that the configuration lets through.
VisitedInv == \A i \in DOMAIN pages : pages[i].key \in visited \cap Origin \cap Patterned

\* Every page has its count of rows, and the crawl ends for one of two reasons.
EndInv ==
  /\ Len(rows) = Len(pages)
  /\ pc = "new" => pages = <<>> /\ queue = <<>>
  /\ pc = "done" => queue = <<>> \/ Len(pages) >= max_pages

IInv ==
  /\ TypeOK /\ FrontierInv /\ PendingInv /\ VisitedInv /\ EndInv
  /\ ShortestDepth /\ PagesPersisted
=============================================================================
