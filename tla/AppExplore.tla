----------------------------- MODULE AppExplore -----------------------------
(***************************************************************************)
(* The exploration of an application by the legacy UAT application (task   *)
(* explore_app): a breadth-first walk that keeps one row per URL and       *)
(* replaces the elements of each page it visits.  Nothing keeps two tasks  *)
(* from exploring the same application.  Each action ends in a commit or   *)
(* in the query it is named for; LegacyApp composes the walk with what    *)
(* reads its rows.                                                         *)
(***************************************************************************)
EXTENDS Site, FiniteSets

CONSTANTS
  Base,         \* the application's base_url, without its fragment
  Links,        \* what each page links to, in order, fragments taken off
  Foreign,      \* the URLs should_visit refuses; all, if base_url has a fragment
  MaxPages,
  Explorers     \* tasks

ASSUME SiteAssumption ==
  /\ Base \in Urls /\ Foreign \subseteq Urls
  /\ Links \in [Urls -> Seq(Urls)]
  /\ MaxPages \in Nat \ {0}

VARIABLES
  page_rows,  \* table pages: the URL of each row
  elements,   \* table elements: how many copies of its elements a row has
  ex,         \* the tasks: [pc, queue, seen, url, row]
  overlap     \* history: two tasks ran at once

xvars == <<page_rows, elements, ex, overlap>>

Waiting == [pc |-> "waiting", queue |-> <<>>, seen |-> {}, url |-> Base, row |-> 0]

ExploreInit ==
  /\ page_rows = <<>>
  /\ elements = <<>>
  /\ ex = [e \in Explorers |-> Waiting]
  /\ overlap = FALSE

Running(e) == ex[e].pc \notin {"waiting", "done", "dead"}

-----------------------------------------------------------------------------

\* A new task takes the place of one that is over.
StartExplore(e) ==
  /\ ~Running(e)
  /\ ex' = [ex EXCEPT ![e] = [Waiting EXCEPT !.pc = "walk", !.queue = <<Base>>]]
  /\ overlap' = (overlap \/ \E o \in Explorers : Running(o))
  /\ UNCHANGED <<page_rows, elements>>

Walking(e) == ex[e].pc = "walk" /\ ex[e].queue # <<>> /\ Cardinality(ex[e].seen) < MaxPages

NextUrl(e) == Head(ex[e].queue)

ShouldVisit(u, e) == u \notin Foreign /\ u \notin ex[e].seen

SkipUrl(e) ==
  /\ Walking(e)
  /\ ~ShouldVisit(NextUrl(e), e)
  /\ ex' = [ex EXCEPT ![e].queue = Tail(@)]
  /\ UNCHANGED <<page_rows, elements, overlap>>

\* The rows the query for an existing page may return; 0 stands for none.
Found(u) ==
  LET rows == {i \in DOMAIN page_rows : page_rows[i] = u}
  IN  IF rows = {} THEN {0} ELSE rows

\* The page is fetched and its row looked up.
FetchPage(e) ==
  /\ Walking(e)
  /\ ShouldVisit(NextUrl(e), e)
  /\ \E row \in Found(NextUrl(e)) :
       ex' = [ex EXCEPT ![e] = [pc |-> "save", queue |-> Tail(@.queue), url |-> NextUrl(e),
                                seen |-> @.seen \cup {NextUrl(e)}, row |-> row]]
  /\ UNCHANGED <<page_rows, elements, overlap>>

\* Mutant: the row that was found is not used.
SavePage_Insert(e) ==
  /\ ex[e].pc = "save"
  /\ page_rows' = Append(page_rows, ex[e].url)
  /\ elements' = Append(elements, 0)
  /\ ex' = [ex EXCEPT ![e].pc = "delete", ![e].row = Len(page_rows) + 1,
                      ![e].queue = @ \o Outside(Links[ex[e].url], Foreign \cup ex[e].seen)]
  /\ UNCHANGED overlap

\* The row is updated or inserted, and the links still to visit are queued.
SavePage(e) ==
  LET new == ex[e].row = 0 IN
  /\ ex[e].pc = "save"
  /\ page_rows' = IF new THEN Append(page_rows, ex[e].url) ELSE page_rows
  /\ elements' = IF new THEN Append(elements, 0) ELSE elements
  /\ ex' = [ex EXCEPT ![e] = [pc |-> "delete", url |-> @.url, seen |-> @.seen,
                              row |-> IF new THEN Len(page_rows) + 1 ELSE @.row,
                              queue |-> @.queue \o Outside(Links[@.url], Foreign \cup @.seen)]]
  /\ UNCHANGED overlap

DeleteElements(e) ==
  /\ ex[e].pc = "delete"
  /\ elements' = [elements EXCEPT ![ex[e].row] = 0]
  /\ ex' = [ex EXCEPT ![e].pc = "insert"]
  /\ UNCHANGED <<page_rows, overlap>>

InsertElements(e) ==
  /\ ex[e].pc = "insert"
  /\ elements' = [elements EXCEPT ![ex[e].row] = @ + 1]
  /\ ex' = [ex EXCEPT ![e].pc = "walk"]
  /\ UNCHANGED <<page_rows, overlap>>

ExploreDone(e) ==
  /\ ex[e].pc = "walk" /\ ~Walking(e)
  /\ ex' = [ex EXCEPT ![e].pc = "done"]
  /\ UNCHANGED <<page_rows, elements, overlap>>

\* A page that does not load, a failed statement or the end of the worker: the task
\* is not tried again, and what it committed stays.
ExploreFails(e) ==
  /\ Running(e)
  /\ ex' = [ex EXCEPT ![e].pc = "dead"]
  /\ UNCHANGED <<page_rows, elements, overlap>>

ExploreApp(e) ==
  \/ SkipUrl(e) \/ FetchPage(e) \/ SavePage(e) \/ DeleteElements(e) \/ InsertElements(e)
  \/ ExploreDone(e)

ExploreNext == \E e \in Explorers : StartExplore(e) \/ ExploreApp(e) \/ ExploreFails(e)

\* The walks alone; whatever else happens in LegacyApp leaves them as they are.
ExploreSpec == ExploreInit /\ [][ExploreNext]_xvars

-----------------------------------------------------------------------------

Tasks ==
  [pc : {"waiting", "walk", "save", "delete", "insert", "done", "dead"},
   queue : Seq(Urls), seen : SUBSET (Urls \ Foreign), url : Urls, row : Nat]

ExploreTypeOK ==
  /\ page_rows \in Seq(Urls)
  /\ elements \in [DOMAIN page_rows -> Nat]
  /\ ex \in [Explorers -> Tasks]
  /\ \A e \in Explorers : ex[e].row \in 0 .. Len(page_rows) /\ Cardinality(ex[e].seen) =< MaxPages
  /\ overlap \in BOOLEAN

HasRow(u) == \E i \in DOMAIN page_rows : page_rows[i] = u

\* Each URL has one row and its elements once.
OneRowEach ==
  /\ \A i, j \in DOMAIN page_rows : page_rows[i] = page_rows[j] => i = j
  /\ \A i \in DOMAIN elements : elements[i] =< 1

\* As long as no two tasks ran at once, exploring an application again, after a task that
\* failed anywhere too, leaves one row per URL and its elements once at most; and a task
\* that ended below its limit, alone or not, has a row for every page that can be reached
\* from the base URL, unless that itself is refused (explore_app: the query for an
\* existing row, the replacement of the elements, and what is queued).
RescanReplaces ==
  /\ ~overlap => OneRowEach
  /\ \A e \in Explorers :
       ex[e].pc = "done" /\ Cardinality(ex[e].seen) < MaxPages =>
         /\ Base \in ex[e].seen \cup Foreign
         /\ \A u \in ex[e].seen :
              /\ HasRow(u)
              /\ \A k \in DOMAIN Links[u] : Links[u][k] \in ex[e].seen \cup Foreign

-----------------------------------------------------------------------------
(* The inductive invariant *)

\* A task is at a row of the URL it visits, and ends for one of two reasons.
AtItsRow(e) ==
  /\ IsFiniteSet(ex[e].seen)
  /\ ex[e].pc \in {"delete", "insert"} => ex[e].row # 0
  /\ ex[e].pc \in {"save", "delete", "insert"} => ex[e].url \in ex[e].seen
  /\ ex[e].pc \in {"save", "delete", "insert"} /\ ex[e].row # 0 => page_rows[ex[e].row] = ex[e].url
  /\ ex[e].pc = "done" => ex[e].queue = <<>> \/ Cardinality(ex[e].seen) >= MaxPages

\* What the task has seen or will come to.
Ahead(u, e) == u \in ex[e].seen \/ \E i \in DOMAIN ex[e].queue : ex[e].queue[i] = u

\* Behind the walk every page has its row, and its links are seen, queued or refused;
\* the page that is being saved is still to get there.
Covered(e) ==
  ex[e].pc \notin {"waiting", "dead"} =>
    /\ Base \in Foreign \/ Ahead(Base, e)
    /\ \A u \in ex[e].seen :
         \/ ex[e].pc = "save" /\ u = ex[e].url
         \/ /\ HasRow(u)
            /\ \A k \in DOMAIN Links[u] : Links[u][k] \in Foreign \/ Ahead(Links[u][k], e)

\* A task that is alone: nobody adds the row it did not find, or elements to the row
\* it has emptied.
Undisturbed(e) ==
  /\ ex[e].pc = "save" /\ ex[e].row = 0 => ~HasRow(ex[e].url)
  /\ ex[e].pc = "insert" => elements[ex[e].row] = 0

AloneInv ==
  ~overlap =>
    /\ \A e, o \in Explorers : Running(e) /\ Running(o) => e = o
    /\ OneRowEach
    /\ \A e \in Explorers : Undisturbed(e)

ExploreInv ==
  /\ ExploreTypeOK
  /\ \A e \in Explorers : AtItsRow(e) /\ Covered(e)
  /\ AloneInv
=============================================================================
