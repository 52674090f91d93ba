------------------------------ MODULE SapCrawl ------------------------------
(***************************************************************************)
(* One crawl of an SAP Fiori launchpad by the KAATS backend                *)
(* (SAPFioriCrawler): the tiles of the launchpad are opened one after the  *)
(* other, and from the page of a tile a row's detail page with its edit    *)
(* form, and a create form.                                                *)
(*                                                                         *)
(* Clicking is trial and error: each view is looked for with a list of     *)
(* selectors, an exception moves on to the next one, and one raised after  *)
(* a page was taken (going back failed) takes another page.  Where a click *)
(* leads is the launchpad's choice.  _page_index, which only names the     *)
(* screenshots, is left out.                                               *)
(***************************************************************************)
EXTENDS CrawlBase, FiniteSets

CONSTANTS
  Launchpad,       \* launchpad_url
  Launchpads,      \* what the launchpad may show: sequences of [group, title]
  TileFilter,      \* tile_groups; empty for all
  PageTypes,       \* what _classify_sap_page answers
  RowSelectors, EditTexts, CreateTexts  \* how many each loop tries (5, 3, 5)

Tiles == UNION {{l[i] : i \in DOMAIN l} : l \in Launchpads}

ASSUME LaunchpadAssumption == Launchpad \in Urls
ASSUME TilesAssumption == Launchpads \subseteq Seq(Tiles)
ASSUME TypesAssumption == {"LIST", "FORM"} \subseteq PageTypes
ASSUME SelectorAssumption ==
  /\ PageLimits \subseteq Nat
  /\ {RowSelectors, EditTexts, CreateTexts, Batch} \subseteq Nat \ {0}

VARIABLES
  tiles,       \* the tiles still to be opened
  tile_count,  \* those explored
  tries,       \* the selectors left in the loop over rows, edit or create buttons
  app,         \* the page of the tile that is explored
  discovered   \* _explore_tile_app: the tile's pages

tile == <<tries, app, discovered>>
result == <<pages, flow_graph, error_count>>
svars == <<max_pages, pc, tiles, tile_count, tile, result, rows, unsaved>>

SapPages == [url : Urls, depth : 0 .. 3]
NoPage == [url |-> Launchpad, depth |-> 0]

SapInit ==
  /\ max_pages \in PageLimits
  /\ pc = "authenticate"
  /\ tiles = <<>> /\ tile_count = 0
  /\ tries = [row |-> 0, edit |-> 0, create |-> 0]
  /\ app = NoPage
  /\ discovered = <<>>
  /\ pages = <<>> /\ flow_graph = {} /\ error_count = 0
  /\ rows = <<>> /\ unsaved = {}

\* The login form is missing, or the launchpad does not load: an empty result.
AuthenticateError ==
  /\ pc = "authenticate"
  /\ pc' = "refused"
  /\ error_count' = 1
  /\ UNCHANGED <<max_pages, tiles, tile_count, tile, pages, flow_graph, rows, unsaved>>

Authenticate ==
  /\ pc = "authenticate"
  /\ pc' = "launchpad"
  /\ UNCHANGED <<max_pages, tiles, tile_count, tile, result, rows, unsaved>>

AnalyzeFioriApp(url, depth) == [url |-> url, depth |-> depth]

\* The tiles of the groups the job asks for.
EnumerateTileGroups(shown) ==
  Outside(shown, {t \in Tiles : TileFilter # {} /\ t.group \notin TileFilter})

\* The launchpad is the first page; it has no screenshot.
VisitLaunchpad ==
  /\ pc = "launchpad"
  /\ \E url \in Urls, shown \in Launchpads :
       /\ pages' = <<AnalyzeFioriApp(url, 0)>>
       /\ tiles' = EnumerateTileGroups(shown)
  /\ rows' = Unsaved(1)
  /\ pc' = "tiles"
  /\ UNCHANGED <<max_pages, tile_count, tile, flow_graph, error_count, unsaved>>

\* Reading its title raised: no result, the exception leaves the crawler.
LaunchpadError ==
  /\ pc = "launchpad"
  /\ pc' = "raised"
  /\ UNCHANGED <<max_pages, tiles, tile_count, tile, result, rows, unsaved>>

\* Mutant: the limit is one tile off.
TilesLeft_OffByOne == tiles # <<>> /\ tile_count < max_pages

\* The limit on pages counts tiles.
TilesLeft == tiles # <<>> /\ tile_count + 1 < max_pages

-----------------------------------------------------------------------------

Taken == {pages[i].url : i \in DOMAIN pages} \cup {discovered[i].url : i \in DOMAIN discovered}

\* A view is taken: its page, and the edge that leads to it.
Discover(url, depth, from) ==
  /\ discovered' = Append(discovered, AnalyzeFioriApp(url, depth))
  /\ flow_graph' = flow_graph \cup {<<from, url>>}
  /\ UNCHANGED <<max_pages, tiles, tile_count, app, pages, error_count, rows, unsaved>>

\* Mutant: the edge is recorded before the page is analysed, which may raise.
TileError_Edge ==
  /\ pc = "tiles" /\ TilesLeft
  /\ \E url \in Urls : flow_graph' = flow_graph \cup {<<Launchpad, url>>}
  /\ tiles' = Tail(tiles)
  /\ error_count' = error_count + 1
  /\ UNCHANGED <<max_pages, pc, tile_count, tile, pages, rows, unsaved>>

\* No selector finds the tile, or its page cannot be read: it is counted as an
\* error, not as explored.
TileError ==
  /\ pc = "tiles" /\ TilesLeft
  /\ tiles' = Tail(tiles)
  /\ error_count' = error_count + 1
  /\ UNCHANGED <<max_pages, pc, tile_count, tile, pages, flow_graph, rows, unsaved>>

\* The tile opens: a list is explored by its first row, then, as anything but a
\* form, by its create button.
OpenTile(url, type) ==
  /\ pc = "tiles" /\ TilesLeft
  /\ app' = AnalyzeFioriApp(url, 1)
  /\ discovered' = <<AnalyzeFioriApp(url, 1)>>
  /\ flow_graph' = flow_graph \cup {<<Launchpad, url>>}
  /\ tiles' = Tail(tiles)
  /\ tries' = [row |-> RowSelectors, edit |-> 0, create |-> CreateTexts]
  /\ pc' = CASE type = "LIST" -> "row" [] type = "FORM" -> "collect" [] OTHER -> "create"
  /\ UNCHANGED <<max_pages, tile_count, pages, error_count, rows, unsaved>>

\* The loop of a view tries its next selector, or is over and continues at next.
NextSelector(view, next) ==
  /\ pc = view
  /\ tries[view] > 0
  /\ tries' = [tries EXCEPT ![view] = @ - 1]
  /\ pc' = IF tries[view] = 1 THEN next ELSE view
  /\ UNCHANGED <<max_pages, tiles, tile_count, app, discovered, result, rows, unsaved>>

\* A click that stays on the page ends the loop.
StayOnPage(view, next) ==
  /\ pc = view
  /\ tries' = [tries EXCEPT ![view] = 0]
  /\ pc' = next
  /\ UNCHANGED <<max_pages, tiles, tile_count, app, discovered, result, rows, unsaved>>

ExploreListDetail(url) ==
  /\ pc = "row"
  /\ url # app.url
  /\ Discover(url, 2, app.url)
  /\ tries' = [tries EXCEPT !.row = @ - 1, !.edit = EditTexts]
  /\ pc' = "edit"

\* The edit form may share the URL of the detail page.
ExploreEditForm(url) ==
  /\ pc = "edit"
  /\ Discover(url, 3, discovered[Len(discovered)].url)
  /\ tries' = [tries EXCEPT !.edit = 0]
  /\ pc' = "back"

\* Back to the list; an exception makes the loop try the rows that are left.
GoBackToList(ok) ==
  /\ pc = "back"
  /\ pc' = IF ok \/ tries.row = 0 THEN "create" ELSE "row"
  /\ UNCHANGED <<max_pages, tiles, tile_count, tile, result, rows, unsaved>>

\* Going back from the form ends the loop, unless it raises.
ExploreCreateForm(url, back) ==
  /\ pc = "create"
  /\ url # app.url
  /\ Discover(url, 2, app.url)
  /\ tries' = [tries EXCEPT !.create = IF back THEN 0 ELSE @ - 1]
  /\ pc' = IF back \/ tries.create = 1 THEN "collect" ELSE "create"

\* The pages of the tile go to the result one by one, and every Batch pages to SQL.
CollectPage ==
  LET ps == Append(pages, Head(discovered))
  IN  /\ pc = "collect" /\ discovered # <<>>
      /\ pages' = ps
      /\ discovered' = Tail(discovered)
      /\ IF Len(ps) % Batch = 0
           THEN PersistPageBatch(ps)
           ELSE rows' = Unsaved(Len(ps)) /\ UNCHANGED unsaved
      /\ UNCHANGED <<max_pages, pc, tiles, tile_count, tries, app, flow_graph, error_count>>

TileExplored ==
  /\ pc = "collect" /\ discovered = <<>>
  /\ tile_count' = tile_count + 1
  /\ app' = NoPage
  /\ tries' = [row |-> 0, edit |-> 0, create |-> 0]
  /\ pc' = "tiles"
  /\ UNCHANGED <<max_pages, tiles, discovered, result, rows, unsaved>>

SapFinish ==
  /\ pc = "tiles" /\ ~TilesLeft
  /\ PersistPageBatch(pages)
  /\ pc' = "done"
  /\ UNCHANGED <<max_pages, tiles, tile_count, tile, result>>

ExploreTileApp ==
  \/ \E url \in Urls, type \in PageTypes : OpenTile(url, type)
  \/ \E url \in Urls : ExploreListDetail(url) \/ ExploreEditForm(url)
  \/ \E url \in Urls, back \in BOOLEAN : ExploreCreateForm(url, back)
  \/ \E ok \in BOOLEAN : GoBackToList(ok)
  \/ NextSelector("row", "create") \/ NextSelector("edit", "back") \/ NextSelector("create", "collect")
  \/ StayOnPage("row", "create") \/ StayOnPage("create", "collect")

SapNext ==
  \/ Authenticate \/ AuthenticateError
  \/ VisitLaunchpad \/ LaunchpadError
  \/ TileError \/ ExploreTileApp \/ CollectPage \/ TileExplored
  \/ SapFinish

SapSpec == SapInit /\ [][SapNext]_svars

-----------------------------------------------------------------------------

SapTypeOK ==
  /\ max_pages \in PageLimits
  /\ pc \in {"authenticate", "refused", "launchpad", "raised", "tiles", "row", "edit", "back",
             "create", "collect", "done"}
  /\ tiles \in Seq(Tiles) /\ tile_count \in Nat
  /\ tries \in [row : 0 .. RowSelectors, edit : 0 .. EditTexts, create : 0 .. CreateTexts]
  /\ app \in SapPages /\ discovered \in Seq(SapPages)
  /\ pages \in Seq(SapPages) /\ flow_graph \subseteq Urls \X Urls
  /\ error_count \in Nat
  /\ rows \in Seq(Nat) /\ unsaved \subseteq Nat

\* SapPages and edges are collected in different places and an exception discards the
\* pages of a tile: still, an edge never leads to or, but for the launchpad, from
\* a page the crawl does not have.
EdgesHavePages ==
  \A e \in flow_graph : e[2] \in Taken /\ e[1] \in Taken \cup {Launchpad}

\* What exploring one tile can bring: its page, a detail page with its edit form for
\* each row selector, and a form for each create button; and n tiles, with the
\* launchpad.
TilePages == 1 + 2 * RowSelectors + CreateTexts
Allowance(n) == 1 + n * TilePages

\* What bounds a crawl: max_pages - 1 tiles, whatever each of them brings.
PageBudget == Len(pages) =< Allowance(IF max_pages = 0 THEN 0 ELSE max_pages - 1)

-----------------------------------------------------------------------------
(* The inductive invariant *)

\* Between two tiles nothing is collected, while one is explored its first page is;
\* a loop that runs has a selector left, and the loops to come have all of them.
LoopInv ==
  /\ pc \in {"authenticate", "refused", "launchpad", "raised"} =>
       pages = <<>> /\ flow_graph = {} /\ tile_count = 0
  /\ pc \notin {"row", "edit", "back", "create", "collect"} => discovered = <<>>
  /\ pc \in {"row", "edit", "back", "create"} =>
       /\ tries.create > 0
       /\ \E i \in DOMAIN discovered : discovered[i] = app
  /\ pc = "row" => tries.row > 0

\* How many pages the loops may still add to the tile.
ToCome ==
  CASE pc \in {"row", "back"} -> 2 * tries.row + tries.create
    [] pc = "edit"            -> 1 + 2 * tries.row + tries.create
    [] pc = "create"          -> tries.create
    [] OTHER                  -> 0

\* The tiles explored so far, and the current one with what may come of it, are
\* within what so many tiles can bring.
BudgetInv ==
  /\ tile_count > 0 => tile_count < max_pages
  /\ pc \in {"tiles", "done"} => Len(pages) =< Allowance(tile_count)
  /\ pc \in {"row", "edit", "back", "create", "collect"} =>
       /\ tile_count + 1 < max_pages
       /\ Len(pages) + Len(discovered) + ToCome =< Allowance(tile_count + 1)

SapIInv == SapTypeOK /\ LoopInv /\ BudgetInv /\ EdgesHavePages
=============================================================================
