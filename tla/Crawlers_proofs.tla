-------------------------- MODULE Crawlers_proofs --------------------------
(***************************************************************************)
(* The inductive invariants of the three walks over pages.  WebCrawl: a    *)
(* breadth-first search of a site that is only discovered on the way, with *)
(* visits that fail.  SapCrawl: what is collected of the tiles of a        *)
(* launchpad.  AppExplore: the search of the legacy program, which saves   *)
(* as it goes and may be repeated.  They keep what they have in common in  *)
(* the variables and operators of CrawlBase and Lists, shared here.        *)
(***************************************************************************)
EXTENDS WebCrawl, SapCrawl, AppExplore, Integers, NaturalsInduction, SequenceTheorems,
        FiniteSetTheorems, WellFoundedInduction, TLAPS

(***************************************************************************)
(* What a crawler goes on with                                             *)
(***************************************************************************)

(* A set that has 0 and the successors of its members has every natural      *)
(* number: a number it has not would have a least one beside it.              *)
LEMMA Inductive ==
  ASSUME NEW T, 0 \in T, \A n \in Nat : n \in T => n + 1 \in T
  PROVE  Nat \subseteq T
<1> SUFFICES ASSUME Nat \ T # {} PROVE FALSE
  OBVIOUS
<1>1. PICK x \in Nat \ T : \A y \in Nat \ T : ~(<<y, x>> \in OpToRel(<, Nat))
  BY NatLessThanWellFounded, WFMin
<1>2. x # 0 /\ x - 1 \in Nat
  OBVIOUS
<1>3. x - 1 \in T
  <2>1. <<x - 1, x>> \in OpToRel(<, Nat)
    BY <1>2 DEF OpToRel
  <2> QED BY <1>1, <1>2, <2>1
<1> QED BY <1>2, <1>3

(* Outside is what its recursion says: for each prefix of the sequence there is a *)
(* function that satisfies it.                                                    *)
LEMMA OutsideRecursion ==
  ASSUME NEW U, NEW found \in Seq(U), NEW S
  PROVE  \E f : /\ Outside(found, S) = f[Len(found)]
                /\ f[0] = <<>>
                /\ \A n \in 1 .. Len(found) :
                     f[n] = IF found[n] \in S THEN f[n - 1] ELSE Append(f[n - 1], found[n])
<1> DEFINE Body(g, n) == IF n = 0 THEN <<>>
                         ELSE IF found[n] \in S THEN g[n - 1] ELSE Append(g[n - 1], found[n])
           Fun(g, m) == [n \in 0 .. m |-> Body(g, n)]
           T == {m \in Nat : \E g : g = Fun(g, m)}
           f == CHOOSE g : g = Fun(g, Len(found))
<1>1. 0 \in T
  <2> DEFINE g == [n \in 0 .. 0 |-> <<>>]
  <2>1. g = Fun(g, 0)
    OBVIOUS
  <2> QED BY <2>1
<1>2. ASSUME NEW m \in Nat, m \in T PROVE m + 1 \in T
  <2>1. PICK g : g = Fun(g, m)
    BY <1>2
  <2> DEFINE h == [n \in 0 .. m + 1 |-> IF n = m + 1 THEN Body(g, m + 1) ELSE g[n]]
  <2>2. \A n \in 0 .. m + 1 : h[n] = Body(h, n)
    <3> SUFFICES ASSUME NEW n \in 0 .. m + 1 PROVE h[n] = Body(h, n)
      OBVIOUS
    <3>1. CASE n = 0
      BY <2>1, <3>1
    <3>2. CASE n = m + 1
      BY <3>2
    <3>3. CASE n \in 1 .. m
      <4>0. \A k \in 0 .. m : g[k] = Body(g, k)
        BY <2>1
      <4>1. g[n] = Body(g, n) /\ h[n] = g[n]
        BY <3>3, <4>0
      <4>2. h[n - 1] = g[n - 1]
        BY <3>3
      <4> QED BY <3>3, <4>1, <4>2
    <3> QED BY <3>1, <3>2, <3>3
  <2>3. h = Fun(h, m + 1)
    BY <2>2
  <2> HIDE DEF h, Fun
  <2> QED BY <2>3
<1>3. Len(found) \in T
  <2> HIDE DEF T
  <2> QED BY <1>1, <1>2, Inductive
<1>4. f = Fun(f, Len(found))
  BY <1>3
<1>5. Outside(found, S) = f[Len(found)]
  BY DEF Outside
<1>6. \A n \in 0 .. Len(found) : f[n] = Body(f, n)
  <2> HIDE DEF f
  <2> QED BY <1>4
<1> HIDE DEF f
<1>7. f[0] = <<>> /\ \A n \in 1 .. Len(found) : f[n] = Body(f, n)
  BY <1>6
<1> QED BY <1>5, <1>7

(* Outside loses nothing that is not in S. *)
LEMMA OutsideElements ==
  ASSUME NEW U, NEW found \in Seq(U), NEW S
  PROVE  LET fresh == Outside(found, S)
         IN  /\ fresh \in Seq(U)
             /\ \A k \in DOMAIN found : found[k] \notin S =>
                  \E i \in DOMAIN fresh : fresh[i] = found[k]
<1>1. PICK f : /\ Outside(found, S) = f[Len(found)]
               /\ f[0] = <<>>
               /\ \A n \in 1 .. Len(found) :
                    f[n] = IF found[n] \in S THEN f[n - 1] ELSE Append(f[n - 1], found[n])
  BY OutsideRecursion
<1> DEFINE Good(n) == /\ f[n] \in Seq(U)
                      /\ \A k \in 1 .. n : found[k] \notin S =>
                           \E i \in DOMAIN f[n] : f[n][i] = found[k]
           T == {n \in Nat : n =< Len(found) => Good(n)}
<1>2. 0 \in T
  <2>1. \A k \in 1 .. 0 : FALSE
    OBVIOUS
  <2>2. f[0] \in Seq(U)
    BY <1>1
  <2> QED BY <2>1, <2>2
<1>3. ASSUME NEW n \in Nat, n \in T PROVE n + 1 \in T
  <2> SUFFICES ASSUME n + 1 =< Len(found) PROVE Good(n + 1)
    OBVIOUS
  <2>1. Good(n)
    BY <1>3
  <2>2. found[n + 1] \in U
    OBVIOUS
  <2>3. CASE found[n + 1] \in S
    BY <1>1, <2>1, <2>3
  <2>4. CASE found[n + 1] \notin S
    <3>1. f[n + 1] = Append(f[n], found[n + 1])
      <4>1. n + 1 \in 1 .. Len(found) /\ (n + 1) - 1 = n
        OBVIOUS
      <4> QED BY <1>1, <2>4, <4>1
    <3>2. f[n + 1] \in Seq(U)
      BY <2>1, <2>2, <3>1
    <3>3. ASSUME NEW k \in 1 .. n + 1, found[k] \notin S
          PROVE  \E i \in DOMAIN f[n + 1] : f[n + 1][i] = found[k]
      <4>1. CASE k = n + 1
        BY <2>1, <2>2, <3>1, <4>1
      <4>2. CASE k \in 1 .. n
        <5>1. PICK i \in DOMAIN f[n] : f[n][i] = found[k]
          BY <2>1, <3>3, <4>2
        <5>2. i \in DOMAIN f[n + 1] /\ f[n + 1][i] = found[k]
          BY <2>1, <2>2, <3>1, <5>1
        <5> QED BY <5>2
      <4> QED BY <4>1, <4>2
    <3> QED BY <3>2, <3>3
  <2> QED BY <2>3, <2>4
<1>4. Len(found) \in T
  <2> HIDE DEF T
  <2> QED BY <1>2, <1>3, Inductive
<1> QED BY <1>1, <1>4

(* The queue after a visit: what was behind the visited entry, and then the links *)
(* of its page, one step deeper.                                                  *)
LEMMA EnqueueFacts ==
  ASSUME TypeOK, queue # <<>>, NEW links \in Seq(Urls)
  PROVE  LET q == Enqueue(Popped, links)
         IN  /\ q \in Seq(Entries)
             /\ \A j \in DOMAIN q :
                  \/ j < Len(queue) /\ q[j] = queue[j + 1]
                  \/ j >= Len(queue) /\ q[j].depth = Popped.depth + 1
             /\ \A i \in 2 .. Len(queue) : \E j \in DOMAIN q : q[j] = queue[i]
             /\ Popped.depth < MaxDepth =>
                  \A k \in DOMAIN links : links[k] \notin visited \cup {Popped.url} =>
                    \E j \in DOMAIN q : q[j].url = links[k] /\ q[j].depth = Popped.depth + 1
<1> DEFINE e == Popped
           fresh == Outside(links, visited \cup {e.url})
           new == IF e.depth < MaxDepth
                    THEN [i \in DOMAIN fresh |-> Entry(fresh[i], e.depth + 1, e.url)]
                    ELSE <<>>
           t == Tail(queue)
           q == t \o new
<1>1. queue \in Seq(Entries) /\ t \in Seq(Entries) /\ Len(t) = Len(queue) - 1
      /\ Len(queue) \in Nat \ {0}
      /\ (\A j \in 1 .. Len(t) : t[j] = queue[j + 1])
      /\ e \in Entries
  BY DEF TypeOK, Popped
<1>2. e.url \in Urls /\ e.depth \in Nat /\ e.depth =< MaxDepth /\ MaxDepth \in Nat
  BY <1>1, BoundAssumption DEF Entries
<1>3. /\ fresh \in Seq(Urls)
      /\ \A k \in DOMAIN links : links[k] \notin visited \cup {e.url} =>
           \E i \in DOMAIN fresh : fresh[i] = links[k]
  <2> DEFINE S == visited \cup {e.url}
  <2> HIDE DEF S
  <2>1. /\ Outside(links, S) \in Seq(Urls)
        /\ \A k \in DOMAIN links : links[k] \notin S =>
             \E i \in DOMAIN Outside(links, S) : Outside(links, S)[i] = links[k]
    BY OutsideElements
  <2> QED BY <2>1 DEF S
<1> HIDE DEF e, fresh, t
<1>4. /\ new \in Seq(Entries)
      /\ \A i \in DOMAIN new : new[i].depth = e.depth + 1
      /\ e.depth < MaxDepth => DOMAIN new = DOMAIN fresh
      /\ e.depth < MaxDepth => \A i \in DOMAIN fresh : new[i].url = fresh[i]
  <2>1. CASE e.depth < MaxDepth
    <3>1. new = [i \in 1 .. Len(fresh) |-> Entry(fresh[i], e.depth + 1, e.url)]
      BY <1>3, <2>1
    <3>2. \A i \in 1 .. Len(fresh) : Entry(fresh[i], e.depth + 1, e.url) \in Entries
      BY <1>2, <1>3, <2>1 DEF Entry, Entries
    <3>3. new \in Seq(Entries)
      BY <3>1, <3>2, <1>3
    <3> HIDE DEF new
    <3>4. DOMAIN new = DOMAIN fresh
      BY <3>1, <1>3
    <3>5. \A i \in DOMAIN fresh : new[i] = Entry(fresh[i], e.depth + 1, e.url)
      BY <3>1, <1>3
    <3> QED BY <3>3, <3>4, <3>5 DEF Entry
  <2>2. CASE ~(e.depth < MaxDepth)
    BY <2>2
  <2> QED BY <2>1, <2>2
<1> HIDE DEF new
<1>5. q = Enqueue(Popped, links)
  BY DEF Enqueue, e, fresh, new, t
<1>6. /\ q \in Seq(Entries) /\ Len(q) = Len(t) + Len(new)
      /\ \A j \in 1 .. Len(t) : q[j] = t[j]
      /\ \A j \in 1 .. Len(new) : q[Len(t) + j] = new[j]
  <2>1. Len(t) \in Nat /\ Len(new) \in Nat
    BY <1>1, <1>4
  <2>2. /\ q \in Seq(Entries) /\ Len(q) = Len(t) + Len(new)
        /\ \A i \in 1 .. Len(t) + Len(new) : q[i] = IF i =< Len(t) THEN t[i] ELSE new[i - Len(t)]
    BY <1>1, <1>4, ConcatProperties
  <2> HIDE DEF q
  <2> QED BY <2>1, <2>2
<1> HIDE DEF q
<1>7. ASSUME NEW j \in DOMAIN q
      PROVE  \/ j < Len(queue) /\ q[j] = queue[j + 1]
             \/ j >= Len(queue) /\ q[j].depth = e.depth + 1
  <2>1. CASE j \in 1 .. Len(t)
    BY <1>1, <1>6, <2>1
  <2>2. CASE j \notin 1 .. Len(t)
    <3>1. j - Len(t) \in 1 .. Len(new) /\ j = Len(t) + (j - Len(t)) /\ j >= Len(queue)
      BY <1>1, <1>4, <1>6, <2>2
    <3> QED BY <1>4, <1>6, <3>1
  <2> QED BY <2>1, <2>2
<1>8. ASSUME NEW i \in 2 .. Len(queue) PROVE \E j \in DOMAIN q : q[j] = queue[i]
  <2>1. i - 1 \in 1 .. Len(t) /\ (i - 1) + 1 = i /\ i - 1 \in DOMAIN q
    BY <1>1, <1>4, <1>6
  <2> QED BY <1>1, <1>6, <2>1
<1>9. ASSUME e.depth < MaxDepth, NEW k \in DOMAIN links, links[k] \notin visited \cup {e.url}
      PROVE  \E j \in DOMAIN q : q[j].url = links[k] /\ q[j].depth = e.depth + 1
  <2>1. PICK i \in DOMAIN fresh : fresh[i] = links[k]
    BY <1>3, <1>9
  <2>2. i \in DOMAIN new /\ new[i].url = links[k] /\ new[i].depth = e.depth + 1
    BY <1>4, <1>9, <2>1
  <2>3. Len(t) + i \in DOMAIN q /\ q[Len(t) + i] = new[i]
    <3>1. i \in 1 .. Len(new) /\ Len(new) \in Nat
      BY <1>4, <2>2
    <3> QED BY <1>1, <1>6, <3>1
  <2> QED BY <2>2, <2>3
<1> QED BY <1>5, <1>6, <1>7, <1>8, <1>9 DEF e

-----------------------------------------------------------------------------
(* Saving pages *)

(* After a save every one of the n pages has a row or is among the failed ones. *)
LEMMA PersistFacts ==
  ASSUME TypeOK, NEW ps, Len(ps) \in Nat, PersistPageBatch(ps)
  PROVE  /\ rows' \in Seq(Nat) /\ Len(rows') = Len(ps)
         /\ unsaved' \subseteq Nat
         /\ \A i \in 1 .. Len(ps) : rows'[i] > 0 \/ i \in unsaved'
<1>1. PICK bad \in FailedSaves(Len(ps)) :
        /\ rows' = SaveCrawlPages(Len(ps), bad)
        /\ unsaved' = unsaved \cup bad
  BY DEF PersistPageBatch
<1>2. bad \subseteq Nat
  BY DEF FailedSaves
<1> DEFINE n == Len(ps)
           value(i) == (IF i \in DOMAIN rows THEN rows[i] ELSE 0) + (IF i \in bad THEN 0 ELSE 1)
<1>3. \A i \in 1 .. n : value(i) \in Nat /\ (i \notin bad => value(i) > 0)
  BY DEF TypeOK
<1>4. rows' = [i \in 1 .. n |-> value(i)]
  BY <1>1 DEF SaveCrawlPages
<1> HIDE DEF value
<1>5. rows' \in Seq(Nat) /\ Len(rows') = n
  BY <1>3, <1>4
<1>6. \A i \in 1 .. n : rows'[i] > 0 \/ i \in unsaved'
  BY <1>1, <1>3, <1>4
<1> QED BY <1>1, <1>2, <1>5, <1>6 DEF TypeOK

(* Between two saves the new page has no row yet. *)
LEMMA NoPersistFacts ==
  ASSUME TypeOK, NEW ps, Len(ps) \in Nat, NoPersist(ps)
  PROVE  /\ rows' \in Seq(Nat) /\ Len(rows') = Len(ps)
         /\ unsaved' \subseteq Nat
<1> DEFINE n == Len(ps)
           value(i) == IF i \in DOMAIN rows THEN rows[i] ELSE 0
<1>1. \A i \in 1 .. n : value(i) \in Nat
  BY DEF TypeOK
<1>2. rows' = [i \in 1 .. n |-> value(i)]
  BY DEF NoPersist, Unsaved
<1> HIDE DEF value
<1> QED BY <1>1, <1>2 DEF NoPersist, TypeOK

-----------------------------------------------------------------------------
(* Initial states and steps *)

LEMMA InitIInv == Init => IInv
<1> SUFFICES ASSUME Init PROVE IInv
  OBVIOUS
<1>1. /\ queue = <<>> /\ pages = <<>> /\ rows = <<>>
      /\ DOMAIN queue = {} /\ DOMAIN pages = {} /\ Len(rows) = Len(pages)
  BY DEF Init
<1>2. <<>> \in Seq(Entries) /\ <<>> \in Seq(Pages) /\ <<>> \in Seq(Nat)
  OBVIOUS
<1>3. TypeOK
  BY <1>1, <1>2 DEF Init, TypeOK
<1>4. FrontierInv /\ PendingInv /\ VisitedInv
  BY <1>1 DEF FrontierInv, PendingInv, VisitedInv
<1>5. EndInv /\ ShortestDepth /\ PagesPersisted
  BY <1>1 DEF Init, EndInv, ShortestDepth, PagesPersisted
<1> QED BY <1>3, <1>4, <1>5 DEF IInv

(* The queue holds one entry when the crawl starts, and there is no page. *)
LEMMA HandleAuthenticationStep == IInv /\ HandleAuthentication => IInv'
<1> SUFFICES ASSUME IInv, HandleAuthentication PROVE IInv'
  OBVIOUS
<1>t. TypeOK /\ EndInv
  BY DEF IInv
<1>1. pages' = <<>> /\ DOMAIN pages' = {} /\ pages' \in Seq(Pages) /\ pc' = "crawl"
  BY <1>t DEF HandleAuthentication, EndInv, site, TypeOK
<1>2. /\ queue' \in Seq(Entries) /\ DOMAIN queue' = {1}
      /\ queue'[1].depth = 0
  <2>1. Entry(Start, 0, None) \in Entries
    BY UrlAssumption, BoundAssumption DEF Entry, Entries
  <2>2. queue' = <<Entry(Start, 0, None)>>
    BY DEF HandleAuthentication
  <2>3. Entry(Start, 0, None).depth = 0
    BY DEF Entry
  <2> QED BY <2>1, <2>2, <2>3
<1>3. TypeOK'
  BY <1>t, <1>1, <1>2 DEF HandleAuthentication, TypeOK, site, saved
<1>4. FrontierInv'
  BY <1>1, <1>2 DEF FrontierInv
<1>5. PendingInv' /\ VisitedInv' /\ ShortestDepth' /\ PagesPersisted'
  BY <1>1 DEF PendingInv, VisitedInv, ShortestDepth, PagesPersisted
<1>6. EndInv'
  BY <1>t, <1>1 DEF HandleAuthentication, EndInv, site, saved
<1> QED BY <1>3, <1>4, <1>5, <1>6 DEF IInv

(* An entry leaves the queue without a page: because its URL is behind the crawler *)
(* or not let through, or because the visit failed.                                *)
LEMMA DropStep ==
  ASSUME IInv, Crawling, queue' = Tail(queue),
         failed \subseteq failed', failed' \subseteq Urls,
         error_count' \in Nat, page_index' \in Nat,
         Popped.url \in Origin \cap Patterned => Popped.url \in visited \cup failed',
         UNCHANGED <<max_pages, pc, session, visited, pages, flow_graph, saved>>
  PROVE  IInv'
<1>t. TypeOK /\ FrontierInv /\ PendingInv /\ VisitedInv /\ EndInv /\ ShortestDepth
  BY DEF IInv
<1>q. queue \in Seq(Entries) /\ queue # <<>> /\ Popped = queue[1] /\ pc = "crawl"
  BY <1>t DEF TypeOK, Crawling, Popped
<1>1. /\ queue' \in Seq(Entries)
      /\ Len(queue') = Len(queue) - 1
      /\ \A j \in DOMAIN queue' : j + 1 \in DOMAIN queue /\ queue'[j] = queue[j + 1]
      /\ \A i \in DOMAIN queue : i # 1 => i - 1 \in DOMAIN queue' /\ queue'[i - 1] = queue[i]
  BY <1>q, HeadTailProperties
<1>2. TypeOK'
  BY <1>t, <1>1 DEF TypeOK, saved
<1>3. FrontierInv'
  <2>1. \A i \in DOMAIN queue, j \in DOMAIN queue : i \in Nat /\ j \in Nat
    BY <1>q
  <2>2. ASSUME NEW i \in DOMAIN queue', NEW j \in DOMAIN queue'
        PROVE  /\ i =< j => queue'[i].depth =< queue'[j].depth
               /\ queue'[j].depth =< queue'[i].depth + 1
    <3>1. i \in Nat /\ j \in Nat /\ (i =< j => i + 1 =< j + 1)
      BY <1>1
    <3> QED BY <1>t, <1>1, <3>1 DEF FrontierInv
  <2>3. ASSUME NEW i \in DOMAIN pages', NEW j \in DOMAIN queue'
        PROVE  pages'[i].depth =< queue'[j].depth
    BY <1>t, <1>1 DEF FrontierInv
  <2> QED BY <2>2, <2>3 DEF FrontierInv
<1>4. PendingInv'
  <2> SUFFICES ASSUME NEW i \in DOMAIN pages, NEW k \in DOMAIN pages[i].links,
                      pages[i].depth < MaxDepth,
                      pages[i].links[k] \in Origin \cap Patterned,
                      pages[i].links[k] \notin visited \cup failed'
               PROVE  \E j \in DOMAIN queue' : /\ queue'[j].url = pages[i].links[k]
                                               /\ queue'[j].depth =< pages[i].depth + 1
    BY DEF PendingInv
  <2>1. PICK j \in DOMAIN queue : /\ queue[j].url = pages[i].links[k]
                                  /\ queue[j].depth =< pages[i].depth + 1
    BY <1>t DEF PendingInv
  <2>2. j # 1
    BY <1>q, <2>1
  <2> QED BY <1>1, <2>1, <2>2
<1>5. VisitedInv' /\ EndInv' /\ PagesPersisted'
  BY <1>t, <1>q DEF VisitedInv, EndInv, PagesPersisted, saved
<1>6. ShortestDepth'
  BY <1>t DEF ShortestDepth
<1> QED BY <1>2, <1>3, <1>4, <1>5, <1>6 DEF IInv

LEMMA SkipStep == IInv /\ Skip => IInv'
<1> SUFFICES ASSUME IInv, Skip PROVE IInv'
  OBVIOUS
<1>1. TypeOK
  BY DEF IInv
<1>2. Popped \in Entries
  BY <1>1 DEF Skip, Crawling, Popped, TypeOK
<1>3. Popped.url \in Origin \cap Patterned => Popped.url \in visited
  BY <1>2, BoundAssumption DEF Skip, Wanted, Entries
<1> QED BY <1>1, <1>3, DropStep DEF Skip, TypeOK, site, saved

LEMMA VisitErrorStep == IInv /\ VisitError => IInv'
<1> SUFFICES ASSUME IInv, VisitError PROVE IInv'
  OBVIOUS
<1>1. TypeOK
  BY DEF IInv
<1>2. Popped \in Entries
  BY <1>1 DEF VisitError, Crawling, Popped, TypeOK
<1>3. Popped.url \in Urls
  BY <1>2 DEF Entries
<1> QED BY <1>1, <1>3, DropStep DEF VisitError, TypeOK

(* All pages are saved once more; the queue and the pages stay. *)
LEMMA FinishStep == IInv /\ Finish => IInv'
<1> SUFFICES ASSUME IInv, Finish PROVE IInv'
  OBVIOUS
<1>t. TypeOK /\ FrontierInv /\ PendingInv /\ VisitedInv /\ EndInv /\ ShortestDepth
  BY DEF IInv
<1>1. Len(pages) \in Nat /\ DOMAIN pages = 1 .. Len(pages)
  BY <1>t DEF TypeOK
<1>2. /\ rows' \in Seq(Nat) /\ Len(rows') = Len(pages)
      /\ unsaved' \subseteq Nat
      /\ \A i \in 1 .. Len(pages) : rows'[i] > 0 \/ i \in unsaved'
  BY <1>t, <1>1, PersistFacts DEF Finish
<1>3. TypeOK'
  BY <1>t, <1>2 DEF Finish, TypeOK, site
<1>4. FrontierInv' /\ PendingInv' /\ VisitedInv' /\ ShortestDepth'
  BY <1>t DEF Finish, site, FrontierInv, PendingInv, VisitedInv, ShortestDepth
<1>5. PagesPersisted'
  BY <1>1, <1>2 DEF Finish, site, PagesPersisted
<1>6. EndInv'
  <2>1. max_pages \in Nat
    BY <1>t, BoundAssumption DEF TypeOK
  <2> QED BY <1>t, <1>1, <1>2, <2>1 DEF Finish, Crawling, site, EndInv
<1> QED BY <1>3, <1>4, <1>5, <1>6 DEF IInv

(* The visited page is the deepest so far and no deeper than what stays queued; its *)
(* links are queued one step below it.  Whichever page first links to its URL had    *)
(* it queued at most one step below itself, and the queue is in order of depth.      *)
LEMMA VisitPageStep ==
  ASSUME IInv, NEW actual \in Urls, NEW links \in ExtractLinks, VisitPage(actual, links)
  PROVE  IInv'
<1>t. TypeOK /\ FrontierInv /\ PendingInv /\ VisitedInv /\ EndInv /\ ShortestDepth
  BY DEF IInv
<1> DEFINE e == Popped
           new == AnalyzePage(e, actual, links)
           ps == Append(pages, new)
           n == Len(pages)
<1>1. /\ queue \in Seq(Entries) /\ queue # <<>> /\ pc = "crawl" /\ pc' = "crawl"
      /\ e = queue[1] /\ e \in Entries /\ 1 \in DOMAIN queue
      /\ e.url \in Urls /\ e.url \in Origin \cap Patterned /\ e.depth \in 0 .. MaxDepth
  <2>1. /\ queue \in Seq(Entries) /\ queue # <<>> /\ pc = "crawl" /\ pc' = "crawl"
        /\ Popped.url \in Origin \cap Patterned
    BY <1>t DEF VisitPage, Crawling, Wanted, TypeOK
  <2>2. /\ Popped = queue[1] /\ Popped \in Entries /\ 1 \in DOMAIN queue
    BY <2>1 DEF Popped
  <2> QED BY <2>1, <2>2 DEF Entries
<1>2. links \in Seq(Urls) /\ new \in Pages
  <2>1. links \in Seq(Urls)
    BY AnchorAssumption DEF ExtractLinks
  <2> QED BY <1>t, <1>1, <2>1 DEF AnalyzePage, Pages, TypeOK
<1>3. new.key = e.url /\ new.depth = e.depth /\ new.links = links
  BY DEF AnalyzePage
<1>4. /\ pages' = ps /\ n \in Nat
      /\ pages \in Seq(Pages)
      /\ visited' = visited \cup {e.url} /\ failed' = failed /\ max_pages' = max_pages
      /\ queue' = Enqueue(e, links)
  BY <1>t DEF VisitPage, TypeOK
<1>5. /\ pages' \in Seq(Pages)
      /\ DOMAIN pages' = 1 .. n + 1 /\ DOMAIN pages = 1 .. n
      /\ \A i \in 1 .. n : pages'[i] = pages[i]
      /\ pages'[n + 1] = new
      /\ Len(ps) = n + 1
  <2> HIDE DEF new
  <2> QED BY <1>2, <1>4
<1>6. /\ queue' \in Seq(Entries)
      /\ \A j \in DOMAIN queue' :
           \/ j < Len(queue) /\ queue'[j] = queue[j + 1]
           \/ j >= Len(queue) /\ queue'[j].depth = e.depth + 1
      /\ \A i \in 2 .. Len(queue) : \E j \in DOMAIN queue' : queue'[j] = queue[i]
      /\ e.depth < MaxDepth =>
           \A k \in DOMAIN links : links[k] \notin visited \cup {e.url} =>
             \E j \in DOMAIN queue' : queue'[j].url = links[k] /\ queue'[j].depth = e.depth + 1
  <2>1. queue' = Enqueue(Popped, links)
    BY <1>4
  <2> QED BY <1>t, <1>1, <1>2, <2>1, EnqueueFacts
<1>7. rows' \in Seq(Nat) /\ Len(rows') = n + 1 /\ unsaved' \subseteq Nat
  <2> HIDE DEF ps
  <2>1. PersistPageBatch(ps) \/ NoPersist(ps)
    BY DEF VisitPage, ps
  <2>2. Len(ps) \in Nat
    BY <1>4, <1>5
  <2> QED BY <1>t, <1>5, <2>1, <2>2, PersistFacts, NoPersistFacts
<1>8. TypeOK'
  <2>1. flow_graph' \subseteq Urls \X Urls
    <3>1. e.referrer \in Urls \cup {None}
      BY <1>1 DEF Entries
    <3> QED BY <1>t, <1>1, <3>1 DEF VisitPage, TypeOK
  <2>2. visited' \subseteq Urls
    BY <1>t, <1>1, <1>4 DEF TypeOK
  <2>3. page_index' \in Nat
    BY <1>t DEF VisitPage, TypeOK
  <2> HIDE DEF e, new, ps
  <2> QED BY <1>t, <1>5, <1>6, <1>7, <2>1, <2>2, <2>3 DEF VisitPage, TypeOK
<1> HIDE DEF e, new, ps, n
<1>9. \A i \in DOMAIN pages : pages[i].depth \in 0 .. MaxDepth
                              /\ pages[i].depth =< e.depth
  <2> SUFFICES ASSUME NEW i \in DOMAIN pages
               PROVE  pages[i].depth \in 0 .. MaxDepth /\ pages[i].depth =< e.depth
    OBVIOUS
  <2>1. pages[i] \in Pages
    BY <1>4
  <2> QED BY <1>t, <1>1, <2>1 DEF Pages, FrontierInv
<1>10. \A j \in DOMAIN queue : /\ queue[j].depth \in 0 .. MaxDepth
                               /\ e.depth =< queue[j].depth
                               /\ queue[j].depth =< e.depth + 1
  <2> SUFFICES ASSUME NEW j \in DOMAIN queue
               PROVE  /\ queue[j].depth \in 0 .. MaxDepth
                      /\ e.depth =< queue[j].depth
                      /\ queue[j].depth =< e.depth + 1
    OBVIOUS
  <2>1. queue[j] \in Entries /\ 1 =< j
    BY <1>1
  <2> QED BY <1>t, <1>1, <2>1 DEF FrontierInv, Entries
<1>11. \A j \in DOMAIN queue' : e.depth =< queue'[j].depth /\ queue'[j].depth =< e.depth + 1
  <2> SUFFICES ASSUME NEW j \in DOMAIN queue'
               PROVE  e.depth =< queue'[j].depth /\ queue'[j].depth =< e.depth + 1
    OBVIOUS
  <2>1. CASE j < Len(queue) /\ queue'[j] = queue[j + 1]
    <3>1. j + 1 \in DOMAIN queue
      BY <1>1, <1>6, <2>1
    <3> QED BY <1>10, <2>1, <3>1
  <2>2. CASE queue'[j].depth = e.depth + 1
    BY <1>1, <2>2
  <2> QED BY <1>6, <2>1, <2>2
<1>12. FrontierInv'
  <2>1. ASSUME NEW i \in DOMAIN queue', NEW j \in DOMAIN queue', i =< j
        PROVE  queue'[i].depth =< queue'[j].depth
    <3>0. i \in Nat \ {0} /\ j \in Nat \ {0} /\ Len(queue) \in Nat
      BY <1>1, <1>6
    <3>1. CASE j < Len(queue)
      <4>1. /\ queue'[i] = queue[i + 1] /\ queue'[j] = queue[j + 1]
            /\ i + 1 \in DOMAIN queue /\ j + 1 \in DOMAIN queue /\ i + 1 =< j + 1
        BY <1>1, <1>6, <2>1, <3>0, <3>1
      <4> QED BY <1>t, <4>1 DEF FrontierInv
    <3>2. CASE j >= Len(queue)
      <4>1. queue'[j].depth = e.depth + 1
        BY <1>6, <3>0, <3>2
      <4> QED BY <1>11, <4>1
    <3> QED BY <3>0, <3>1, <3>2
  <2>2. ASSUME NEW i \in DOMAIN queue', NEW j \in DOMAIN queue'
        PROVE  queue'[j].depth =< queue'[i].depth + 1
    <3>1. queue'[i] \in Entries /\ queue'[j] \in Entries
      BY <1>6
    <3>2. queue'[i].depth \in Nat /\ queue'[j].depth \in Nat /\ e.depth \in Nat
      BY <1>1, <3>1, BoundAssumption DEF Entries
    <3> QED BY <1>11, <3>2
  <2>3. ASSUME NEW i \in DOMAIN pages', NEW j \in DOMAIN queue'
        PROVE  pages'[i].depth =< queue'[j].depth
    <3>1. pages'[i].depth =< e.depth /\ pages'[i].depth \in Nat
      BY <1>1, <1>3, <1>4, <1>5, <1>9, BoundAssumption
    <3>2. e.depth =< queue'[j].depth /\ e.depth \in Nat
      BY <1>1, <1>11, BoundAssumption
    <3>3. queue'[j].depth \in Nat
      <4>1. queue'[j] \in Entries
        BY <1>6
      <4> QED BY <4>1, BoundAssumption DEF Entries
    <3> QED BY <3>1, <3>2, <3>3
  <2> QED BY <2>1, <2>2, <2>3 DEF FrontierInv
<1>13. PendingInv'
  <2> SUFFICES ASSUME NEW i \in DOMAIN pages', NEW k \in DOMAIN pages'[i].links,
                      pages'[i].depth < MaxDepth,
                      pages'[i].links[k] \in Origin \cap Patterned,
                      pages'[i].links[k] \notin visited' \cup failed'
               PROVE  \E j \in DOMAIN queue' : /\ queue'[j].url = pages'[i].links[k]
                                               /\ queue'[j].depth =< pages'[i].depth + 1
    BY DEF PendingInv
  <2>1. CASE i = n + 1
    <3>1. PICK j \in DOMAIN queue' : queue'[j].url = links[k] /\ queue'[j].depth = e.depth + 1
      BY <1>3, <1>4, <1>5, <1>6, <2>1
    <3> QED BY <1>1, <1>3, <1>5, <2>1, <3>1
  <2>2. CASE i \in 1 .. n
    <3>0. pages'[i] = pages[i] /\ i \in DOMAIN pages
      BY <1>5, <2>2
    <3>1. PICK j \in DOMAIN queue : /\ queue[j].url = pages[i].links[k]
                                    /\ queue[j].depth =< pages[i].depth + 1
      BY <1>t, <1>4, <3>0 DEF PendingInv
    <3>2. j # 1
      BY <1>1, <1>4, <3>0, <3>1
    <3>3. j \in 2 .. Len(queue)
      BY <1>1, <3>2
    <3> QED BY <1>6, <3>0, <3>1, <3>3
  <2> QED BY <1>4, <1>5, <2>1, <2>2
<1>14. VisitedInv'
  <2> SUFFICES ASSUME NEW i \in DOMAIN pages'
               PROVE  pages'[i].key \in visited' \cap Origin \cap Patterned
    BY DEF VisitedInv
  <2>1. CASE i = n + 1
    BY <1>1, <1>3, <1>4, <1>5, <2>1
  <2>2. CASE i \in 1 .. n
    BY <1>t, <1>4, <1>5, <2>2 DEF VisitedInv
  <2> QED BY <1>4, <1>5, <2>1, <2>2
<1>15. ShortestDepth'
  <2> SUFFICES ASSUME NEW i \in DOMAIN pages', NEW j \in DOMAIN pages',
                      NEW k \in DOMAIN pages'[i].links,
                      pages'[i].links[k] = pages'[j].key
               PROVE  pages'[j].depth =< pages'[i].depth + 1 \/ pages'[j].key \in failed'
    BY DEF ShortestDepth
  <2>0. MaxDepth \in Nat /\ e.depth \in Nat /\ n \in Nat
    BY <1>1, <1>4, BoundAssumption
  <2>1. CASE i \in 1 .. n /\ j \in 1 .. n
    BY <1>t, <1>4, <1>5, <2>1 DEF ShortestDepth
  <2>2. CASE i = n + 1
    <3>1. pages'[i].depth = e.depth
      BY <1>3, <1>5, <2>2
    <3>2. CASE j = n + 1
      BY <2>0, <2>2, <3>1, <3>2
    <3>3. CASE j \in 1 .. n
      BY <1>5, <1>9, <2>0, <3>1, <3>3
    <3> QED BY <1>5, <2>0, <3>2, <3>3
  <2>3. CASE i \in 1 .. n /\ j = n + 1
    <3>0. /\ pages'[i] = pages[i] /\ i \in DOMAIN pages
          /\ pages'[j].depth = e.depth /\ pages'[j].key = e.url
          /\ pages[i].depth \in 0 .. MaxDepth
      BY <1>3, <1>5, <1>9, <2>3
    <3>1. CASE pages[i].depth = MaxDepth
      BY <1>1, <2>0, <3>0, <3>1
    <3>2. CASE pages[i].depth < MaxDepth /\ e.url \notin failed
      <4>1. e.url \notin visited
        BY DEF VisitPage, Wanted, e
      <4>2. PICK q \in DOMAIN queue : queue[q].depth =< pages[i].depth + 1
        BY <1>t, <1>1, <3>0, <3>2, <4>1 DEF PendingInv
      <4>3. e.depth =< queue[q].depth /\ queue[q].depth \in 0 .. MaxDepth
        BY <1>10
      <4> QED BY <2>0, <3>0, <4>2, <4>3
    <3>3. CASE e.url \in failed
      BY <1>4, <3>0, <3>3
    <3> QED BY <2>0, <3>0, <3>1, <3>2, <3>3
  <2> QED BY <1>5, <2>0, <2>1, <2>2, <2>3
<1>16. EndInv' /\ PagesPersisted'
  <2>1. Len(pages') = n + 1
    BY <1>4, <1>5
  <2> QED BY <1>1, <1>7, <2>1 DEF EndInv, PagesPersisted
<1> QED BY <1>8, <1>12, <1>13, <1>14, <1>15, <1>16 DEF IInv

LEMMA BrowserHangsStep == IInv /\ BrowserHangs => IInv'
<1> SUFFICES ASSUME IInv, BrowserHangs PROVE IInv'
  OBVIOUS
<1>1. /\ pc' = "hung" /\ page_index' = page_index + 1
      /\ UNCHANGED <<max_pages, session, queue, visited, pages, flow_graph, error_count,
                     rows, unsaved, failed>>
  BY DEF BrowserHangs, saved
<1>2. TypeOK' /\ EndInv' /\ VisitedInv'
  BY <1>1 DEF IInv, TypeOK, EndInv, VisitedInv
<1>3. FrontierInv' /\ PendingInv'
  BY <1>1 DEF IInv, FrontierInv, PendingInv
<1>4. ShortestDepth' /\ PagesPersisted'
  BY <1>1 DEF IInv, ShortestDepth, PagesPersisted
<1> QED BY <1>2, <1>3, <1>4 DEF IInv

LEMMA StepIInv == IInv /\ [Next]_vars => IInv'
<1> SUFFICES ASSUME IInv, [Next]_vars PROVE IInv'
  OBVIOUS
<1>1. CASE Next
  BY <1>1, HandleAuthenticationStep, SkipStep, VisitPageStep, VisitErrorStep, FinishStep,
     BrowserHangsStep
  DEF Next, Crawl
<1>2. CASE UNCHANGED vars
  <2> USE <1>2 DEF vars, site, saved
  <2>1. TypeOK' /\ EndInv' /\ VisitedInv'
    BY DEF IInv, TypeOK, EndInv, VisitedInv
  <2>2. FrontierInv' /\ PendingInv'
    BY DEF IInv, FrontierInv, PendingInv
  <2>3. ShortestDepth' /\ PagesPersisted'
    BY DEF IInv, ShortestDepth, PagesPersisted
  <2> QED BY <2>1, <2>2, <2>3 DEF IInv
<1> QED BY <1>1, <1>2

(***************************************************************************)
(* Theorems about the web crawler                                          *)
(***************************************************************************)

(* The invariant holds in every reachable state. *)
THEOREM WebInvariance == Spec => []IInv
BY InitIInv, StepIInv, PTL DEF Spec

(* Every variable keeps its type: no entry is deeper than max_depth, and every row *)
(* count belongs to a page.                                                         *)
THEOREM WebTypeCorrect == Spec => []TypeOK
<1>1. IInv => TypeOK
  BY DEF IInv
<1> QED BY <1>1, WebInvariance, PTL

(* For every site, every depth and whichever visits fail: a page is found at most  *)
(* one step deeper than any page that links to it, unless an earlier visit failed. *)
THEOREM BreadthFirst == Spec => []ShortestDepth
<1>1. IInv => ShortestDepth
  BY DEF IInv
<1> QED BY <1>1, WebInvariance, PTL

(* A crawl that stops before max_pages has missed no link it was allowed to follow. *)
THEOREM NothingMissed == Spec => []Exhaustive
<1>1. IInv => Exhaustive
  <2> SUFFICES ASSUME IInv, pc = "done", Len(pages) < max_pages,
                      NEW i \in DOMAIN pages, NEW k \in DOMAIN pages[i].links,
                      pages[i].depth < MaxDepth,
                      pages[i].links[k] \in Origin \cap Patterned
               PROVE  pages[i].links[k] \in visited \cup failed
    BY DEF Exhaustive
  <2>1. Len(pages) \in Nat /\ max_pages \in Nat
    BY BoundAssumption DEF IInv, TypeOK
  <2>2. queue = <<>>
    BY <2>1 DEF IInv, EndInv
  <2>3. DOMAIN queue = {}
    BY <2>2
  <2> QED BY <2>3 DEF IInv, PendingInv
<1> QED BY <1>1, WebInvariance, PTL

(* The pages of a finished crawl are in SQL, but for those with a failed save. *)
THEOREM PagesAreSaved == Spec => []PagesPersisted
<1>1. IInv => PagesPersisted
  BY DEF IInv
<1> QED BY <1>1, WebInvariance, PTL

(***************************************************************************)
(* The SAP Fiori crawler                                                   *)
(***************************************************************************)

InLoops == {"row", "edit", "back", "create"}

(* The tiles of the groups asked for are tiles of the launchpad. *)
LEMMA SapTiles ==
  ASSUME NEW shown \in Launchpads
  PROVE  EnumerateTileGroups(shown) \in Seq(Tiles)
<1> DEFINE others == {t \in Tiles : TileFilter # {} /\ t.group \notin TileFilter}
<1>1. shown \in Seq(Tiles)
  BY TilesAssumption
<1>2. EnumerateTileGroups(shown) = Outside(shown, others)
  BY DEF EnumerateTileGroups
<1> HIDE DEF others
<1> QED BY <1>1, <1>2, OutsideElements

LEMMA TilePagesNat ==
  /\ TilePages \in Nat
  /\ RowSelectors \in Nat \ {0} /\ EditTexts \in Nat \ {0} /\ CreateTexts \in Nat \ {0}
  /\ TilePages = 1 + 2 * RowSelectors + CreateTexts
  /\ PageLimits \subseteq Nat
BY SelectorAssumption DEF TilePages

(* One tile more can bring TilePages pages more. *)
LEMMA AllowanceFacts ==
  ASSUME NEW n \in Nat
  PROVE  /\ Allowance(n) \in Nat /\ Allowance(n) > 0 /\ Allowance(n + 1) \in Nat
         /\ Allowance(n + 1) = Allowance(n) + TilePages
         /\ \A m \in Nat : n =< m => Allowance(n) =< Allowance(m)
<1>1. TilePages \in Nat
  BY TilePagesNat
<1> DEFINE k == TilePages
<1> HIDE DEF k
<1>2. n * k \in Nat /\ (n + 1) * k = n * k + k
  BY <1>1 DEF k
<1>3. ASSUME NEW m \in Nat, n =< m PROVE n * k =< m * k
  BY <1>1, <1>3 DEF k
<1> QED BY <1>1, <1>2, <1>3 DEF Allowance, k

(* What n tiles can bring is within the budget when the limit admits n tiles. *)
LEMMA Fits ==
  ASSUME Len(pages) \in Nat, max_pages \in Nat,
         NEW n \in Nat, n =< IF max_pages = 0 THEN 0 ELSE max_pages - 1,
         Len(pages) =< Allowance(n)
  PROVE  PageBudget
<1> DEFINE m == IF max_pages = 0 THEN 0 ELSE max_pages - 1
           a == Allowance(n)
           b == Allowance(m)
           p == Len(pages)
<1>1. m \in Nat /\ n =< m
  OBVIOUS
<1>2. a \in Nat /\ b \in Nat /\ a =< b /\ p \in Nat /\ p =< a
  <2> HIDE DEF m
  <2> QED BY <1>1, AllowanceFacts
<1> HIDE DEF a, b, p
<1>3. p =< b
  BY <1>2
<1> QED BY <1>3 DEF p, b, PageBudget

LEMMA ToComeNat ==
  ASSUME SapTypeOK
  PROVE  ToCome \in Nat
<1>1. tries.row \in Nat /\ tries.create \in Nat
  BY TilePagesNat DEF SapTypeOK
<1> DEFINE r == tries.row  c == tries.create
<1> HIDE DEF r, c
<1>2. r \in Nat /\ c \in Nat
  BY <1>1 DEF r, c
<1>3. 2 * r + c \in Nat /\ 1 + 2 * r + c \in Nat
  BY <1>2
<1>4. ToCome \in {2 * r + c, 1 + 2 * r + c, c, 0}
  BY DEF ToCome, r, c
<1> QED BY <1>2, <1>3, <1>4

LEMMA ToComeNatNext ==
  ASSUME SapTypeOK'
  PROVE  ToCome' \in Nat
<1>1. tries'.row \in Nat /\ tries'.create \in Nat
  BY TilePagesNat DEF SapTypeOK
<1> DEFINE r == tries'.row  c == tries'.create
<1> HIDE DEF r, c
<1>2. r \in Nat /\ c \in Nat
  BY <1>1 DEF r, c
<1>3. 2 * r + c \in Nat /\ 1 + 2 * r + c \in Nat
  BY <1>2
<1>4. ToCome' \in {2 * r + c, 1 + 2 * r + c, c, 0}
  BY DEF ToCome, r, c
<1> QED BY <1>2, <1>3, <1>4

LEMMA SapInitially ==
  ASSUME SapInit
  PROVE  SapIInv
<1>1. /\ pages = <<>> /\ discovered = <<>> /\ tiles = <<>> /\ rows = <<>>
      /\ flow_graph = {} /\ pc = "authenticate" /\ tile_count = 0
  BY DEF SapInit
<1>2. /\ <<>> \in Seq(SapPages) /\ <<>> \in Seq(Tiles) /\ <<>> \in Seq(Nat)
  OBVIOUS
<1>3. NoPage \in SapPages
  BY LaunchpadAssumption DEF NoPage, SapPages
<1>4. tries \in [row : 0 .. RowSelectors, edit : 0 .. EditTexts, create : 0 .. CreateTexts]
  BY TilePagesNat DEF SapInit
<1>5. SapTypeOK
  BY <1>1, <1>2, <1>3, <1>4 DEF SapInit, SapTypeOK
<1>6. LoopInv /\ BudgetInv /\ EdgesHavePages
  BY <1>1 DEF LoopInv, BudgetInv, EdgesHavePages
<1> QED BY <1>5, <1>6 DEF SapIInv

(* Before the first tile. *)
LEMMA SapStartStep ==
  ASSUME SapIInv,
         Authenticate \/ AuthenticateError \/ LaunchpadError
  PROVE  SapIInv'
<1>t. SapTypeOK /\ LoopInv /\ BudgetInv /\ EdgesHavePages
  BY DEF SapIInv
<1>1. /\ pc \in {"authenticate", "launchpad"} /\ pc' \in {"refused", "launchpad", "raised"}
      /\ error_count' \in Nat
      /\ UNCHANGED <<max_pages, tiles, tile_count, tries, app, discovered, pages, flow_graph,
                     rows, unsaved>>
  BY <1>t DEF Authenticate, AuthenticateError, LaunchpadError, tile, result,
              SapTypeOK
<1>2. SapTypeOK'
  BY <1>t, <1>1 DEF SapTypeOK
<1>3. LoopInv' /\ BudgetInv'
  BY <1>t, <1>1 DEF LoopInv, BudgetInv
<1>4. EdgesHavePages'
  BY <1>t, <1>1 DEF EdgesHavePages, Taken
<1> QED BY <1>2, <1>3, <1>4 DEF SapIInv

(* The launchpad is the first page; there are no edges yet. *)
LEMMA SapLaunchpadStep ==
  ASSUME SapIInv, VisitLaunchpad
  PROVE  SapIInv'
<1>t. SapTypeOK /\ LoopInv /\ BudgetInv /\ EdgesHavePages
  BY DEF SapIInv
<1>1. PICK url \in Urls, shown \in Launchpads :
        /\ pages' = <<AnalyzeFioriApp(url, 0)>>
        /\ tiles' = EnumerateTileGroups(shown)
  BY DEF VisitLaunchpad
<1>2. AnalyzeFioriApp(url, 0) \in SapPages
  BY DEF AnalyzeFioriApp, SapPages
<1>3. pages' \in Seq(SapPages) /\ Len(pages') = 1
  BY <1>1, <1>2
<1>4. rows' \in Seq(Nat)
  <2>1. rows' = [i \in 1 .. 1 |-> IF i \in DOMAIN rows THEN rows[i] ELSE 0]
    BY DEF VisitLaunchpad, Unsaved
  <2>2. \A i \in 1 .. 1 : (IF i \in DOMAIN rows THEN rows[i] ELSE 0) \in Nat
    BY <1>t DEF SapTypeOK
  <2> QED BY <2>1, <2>2
<1>5. SapTypeOK'
  BY <1>t, <1>1, <1>3, <1>4, SapTiles
  DEF VisitLaunchpad, SapTypeOK, tile
<1>6. LoopInv' /\ EdgesHavePages'
  BY <1>t DEF VisitLaunchpad, tile, LoopInv, EdgesHavePages
<1>7. BudgetInv'
  BY <1>t, <1>3, AllowanceFacts
  DEF VisitLaunchpad, tile, LoopInv, BudgetInv
<1> QED BY <1>5, <1>6, <1>7 DEF SapIInv

LEMMA SapTileErrorStep ==
  ASSUME SapIInv, TileError
  PROVE  SapIInv'
<1>t. SapTypeOK /\ LoopInv /\ BudgetInv /\ EdgesHavePages
  BY DEF SapIInv
<1>1. SapTypeOK'
  BY <1>t DEF TileError, TilesLeft, SapTypeOK, tile
<1>2. LoopInv' /\ BudgetInv'
  BY <1>t DEF TileError, tile, LoopInv, BudgetInv
<1>3. EdgesHavePages'
  BY <1>t DEF TileError, tile, EdgesHavePages, Taken
<1> QED BY <1>1, <1>2, <1>3 DEF SapIInv

(* The page of a tile is the first one of it; the loops have all their selectors. *)
LEMMA SapOpenTileStep ==
  ASSUME SapIInv, NEW url \in Urls, NEW type \in PageTypes,
         OpenTile(url, type)
  PROVE  SapIInv'
<1>t. SapTypeOK /\ LoopInv /\ BudgetInv /\ EdgesHavePages
  BY DEF SapIInv
<1> DEFINE new == AnalyzeFioriApp(url, 1)
<1>1. /\ pc = "tiles" /\ tiles # <<>> /\ tile_count + 1 < max_pages
      /\ app' = new /\ discovered' = <<new>>
      /\ flow_graph' = flow_graph \cup {<<Launchpad, url>>}
      /\ tiles' = Tail(tiles)
      /\ tries' = [row |-> RowSelectors, edit |-> 0, create |-> CreateTexts]
      /\ UNCHANGED <<max_pages, tile_count, pages, error_count, rows, unsaved>>
  BY DEF OpenTile, TilesLeft
<1>2. pc' \in {"row", "collect", "create"}
  BY DEF OpenTile
<1>3. new \in SapPages /\ new.url = url
  BY DEF AnalyzeFioriApp, SapPages
<1> HIDE DEF new
<1>4. /\ discovered' \in Seq(SapPages) /\ Len(discovered') = 1 /\ DOMAIN discovered' = {1}
      /\ discovered'[1] = new
  BY <1>1, <1>3
<1>5. tries'.row = RowSelectors /\ tries'.create = CreateTexts
      /\ tries' \in [row : 0 .. RowSelectors, edit : 0 .. EditTexts, create : 0 .. CreateTexts]
  BY <1>1, TilePagesNat
<1>6. SapTypeOK'
  <2>1. flow_graph' \subseteq Urls \X Urls
    BY <1>t, <1>1, LaunchpadAssumption DEF SapTypeOK
  <2> QED BY <1>t, <1>1, <1>2, <1>3, <1>4, <1>5, <2>1 DEF SapTypeOK
<1>7. LoopInv'
  BY <1>1, <1>2, <1>4, <1>5, TilePagesNat DEF LoopInv
<1>8. BudgetInv'
  <2>1. tile_count \in Nat /\ Len(pages) \in Nat /\ max_pages \in Nat
    BY <1>t, TilePagesNat DEF SapTypeOK
  <2>2. /\ TilePages \in Nat /\ Allowance(tile_count) \in Nat
        /\ Allowance(tile_count + 1) = Allowance(tile_count) + TilePages
    BY <2>1, TilePagesNat, AllowanceFacts
  <2>3. ToCome' \in Nat /\ 1 + ToCome' =< TilePages
    BY <1>2, <1>5, TilePagesNat DEF ToCome
  <2>4. Len(pages) =< Allowance(tile_count)
    BY <1>t, <1>1 DEF BudgetInv
  <2>5. (Len(pages) + Len(discovered) + ToCome =< Allowance(tile_count + 1))'
    <3> DEFINE p == Len(pages)
               more == ToCome'
               a == Allowance(tile_count)
               b == Allowance(tile_count + 1)
               k == TilePages
    <3>1. /\ p \in Nat /\ more \in Nat /\ a \in Nat /\ k \in Nat
          /\ b = a + k /\ 1 + more =< k /\ p =< a
      BY <2>1, <2>2, <2>3, <2>4
    <3> HIDE DEF p, more, a, b, k
    <3>2. p + 1 + more =< b
      BY <3>1
    <3>3. Len(pages) + 1 + ToCome' =< Allowance(tile_count + 1)
      BY <3>2 DEF p, more, b
    <3> QED BY <1>1, <1>4, <3>3
  <2> QED BY <1>t, <1>1, <1>2, <2>5 DEF BudgetInv
<1>9. EdgesHavePages'
  <2>1. discovered = <<>> /\ DOMAIN discovered = {}
    BY <1>t, <1>1 DEF LoopInv
  <2>2. Taken' = Taken \cup {url}
    BY <1>1, <1>3, <1>4, <2>1 DEF Taken
  <2> QED BY <1>t, <1>1, <2>2 DEF EdgesHavePages
<1> QED BY <1>6, <1>7, <1>8, <1>9 DEF SapIInv

(* A loop tries its next selector or is over; the pages stay. *)
LEMMA SapLoopStep ==
  ASSUME SapIInv, pc \in InLoops, pc' \in InLoops \cup {"collect"},
         tries' \in [row : 0 .. RowSelectors, edit : 0 .. EditTexts, create : 0 .. CreateTexts],
         pc' = "row" => tries'.row > 0, pc' \in InLoops => tries'.create > 0,
         ToCome' =< ToCome,
         UNCHANGED <<max_pages, tiles, tile_count, app, discovered, pages, flow_graph,
                     error_count, rows, unsaved>>
  PROVE  SapIInv'
<1>t. SapTypeOK /\ LoopInv /\ BudgetInv /\ EdgesHavePages
  BY DEF SapIInv
<1>1. SapTypeOK'
  BY <1>t DEF SapTypeOK, InLoops
<1>2. LoopInv'
  BY <1>t DEF LoopInv, InLoops
<1>3. BudgetInv'
  <2>1. tile_count \in Nat /\ Len(pages) \in Nat /\ Len(discovered) \in Nat
    BY <1>t DEF SapTypeOK
  <2>2. Allowance(tile_count + 1) \in Nat
    BY <2>1, AllowanceFacts
  <2>3. ToCome \in Nat /\ ToCome' \in Nat
    BY <1>t, <1>1, ToComeNat, ToComeNatNext
  <2>4. Len(pages) + Len(discovered) + ToCome =< Allowance(tile_count + 1)
    BY <1>t DEF BudgetInv, InLoops
  <2>5. (Len(pages) + Len(discovered) + ToCome =< Allowance(tile_count + 1))'
    BY <2>1, <2>2, <2>3, <2>4
  <2> QED BY <1>t, <2>5 DEF BudgetInv, InLoops
<1>4. EdgesHavePages'
  BY <1>t DEF EdgesHavePages, Taken
<1> QED BY <1>1, <1>2, <1>3, <1>4 DEF SapIInv

LEMMA SapSelectorStep ==
  ASSUME SapIInv,
         \/ \E ok \in BOOLEAN : GoBackToList(ok)
         \/ NextSelector("row", "create")
         \/ NextSelector("edit", "back")
         \/ NextSelector("create", "collect")
         \/ StayOnPage("row", "create")
         \/ StayOnPage("create", "collect")
  PROVE  SapIInv'
<1>t. SapTypeOK /\ LoopInv
  BY DEF SapIInv
<1>1. /\ tries \in [row : 0 .. RowSelectors, edit : 0 .. EditTexts, create : 0 .. CreateTexts]
      /\ tries.row \in Nat /\ tries.edit \in Nat /\ tries.create \in Nat
  BY <1>t, TilePagesNat DEF SapTypeOK
<1>2. pc \in InLoops => tries.create > 0
  BY <1>t DEF LoopInv, InLoops
<1> USE DEF InLoops, tile, result
<1>3. ASSUME NEW ok \in BOOLEAN, GoBackToList(ok) PROVE SapIInv'
  <2>1. /\ pc = "back" /\ tries' = tries
        /\ pc' \in {"create", "row"} /\ (pc' = "row" => tries.row # 0)
    BY <1>3 DEF GoBackToList
  <2>2. ToCome' =< ToCome
    BY <1>1, <2>1 DEF ToCome
  <2> QED BY <1>1, <1>2, <1>3, <2>1, <2>2, SapLoopStep DEF GoBackToList
<1>4. CASE NextSelector("row", "create") \/ StayOnPage("row", "create")
  <2>1. /\ pc = "row" /\ pc' \in {"row", "create"} /\ tries'.row =< tries.row
        /\ tries'.row \in Nat
        /\ tries'.create = tries.create /\ (pc' = "row" => tries'.row > 0)
        /\ tries' \in [row : 0 .. RowSelectors, edit : 0 .. EditTexts, create : 0 .. CreateTexts]
    BY <1>1, <1>4, TilePagesNat DEF NextSelector, StayOnPage
  <2>2. ToCome' =< ToCome
    BY <1>1, <2>1 DEF ToCome
  <2> QED BY <1>1, <1>2, <1>4, <2>1, <2>2, SapLoopStep DEF NextSelector, StayOnPage
<1>5. CASE NextSelector("edit", "back")
  <2>1. /\ pc = "edit" /\ pc' \in {"edit", "back"} /\ tries'.row = tries.row
        /\ tries'.create = tries.create
        /\ tries' \in [row : 0 .. RowSelectors, edit : 0 .. EditTexts, create : 0 .. CreateTexts]
    BY <1>1, <1>5, TilePagesNat DEF NextSelector
  <2>2. ToCome' =< ToCome
    BY <1>1, <2>1 DEF ToCome
  <2> QED BY <1>1, <1>2, <1>5, <2>1, <2>2, SapLoopStep DEF NextSelector
<1>6. CASE NextSelector("create", "collect") \/ StayOnPage("create", "collect")
  <2>1. /\ pc = "create" /\ pc' \in {"create", "collect"} /\ tries'.row = tries.row
        /\ tries'.create =< tries.create /\ (pc' = "create" => tries'.create > 0)
        /\ tries' \in [row : 0 .. RowSelectors, edit : 0 .. EditTexts, create : 0 .. CreateTexts]
    BY <1>1, <1>6, TilePagesNat DEF NextSelector, StayOnPage
  <2>2. ToCome' =< ToCome
    BY <1>1, <2>1 DEF ToCome
  <2> QED BY <1>1, <1>2, <1>6, <2>1, <2>2, SapLoopStep DEF NextSelector, StayOnPage
<1> QED BY <1>3, <1>4, <1>5, <1>6

(* A page is taken while a loop runs: the edge comes from a page of the tile, and  *)
(* the loop has a selector less or what it may add is over.                        *)
LEMMA SapDiscoverStep ==
  ASSUME SapIInv,
         NEW url \in Urls, NEW depth \in 0 .. 3, NEW from \in Urls,
         pc \in {"row", "edit", "create"}, pc' \in {"edit", "back", "create", "collect"},
         \E i \in DOMAIN discovered : discovered[i].url = from,
         Discover(url, depth, from),
         tries' \in [row : 0 .. RowSelectors, edit : 0 .. EditTexts, create : 0 .. CreateTexts],
         pc' # "collect" => tries'.create > 0,
         ToCome' + 1 =< ToCome
  PROVE  SapIInv'
<1>t. SapTypeOK /\ LoopInv /\ BudgetInv /\ EdgesHavePages
  BY DEF SapIInv
<1> DEFINE new == AnalyzeFioriApp(url, depth)
           n == Len(discovered)
<1>1. /\ discovered' = Append(discovered, new)
      /\ flow_graph' = flow_graph \cup {<<from, url>>}
      /\ UNCHANGED <<max_pages, tiles, tile_count, app, pages, error_count, rows, unsaved>>
  BY DEF Discover
<1>2. new \in SapPages /\ new.url = url
  BY DEF AnalyzeFioriApp, SapPages
<1> HIDE DEF new
<1>3. /\ n \in Nat /\ DOMAIN discovered = 1 .. n
      /\ discovered' \in Seq(SapPages) /\ Len(discovered') = n + 1
      /\ DOMAIN discovered' = 1 .. n + 1
      /\ \A i \in 1 .. n : discovered'[i] = discovered[i]
      /\ discovered'[n + 1] = new
  BY <1>t, <1>1, <1>2 DEF SapTypeOK
<1>4. SapTypeOK'
  <2> QED BY <1>t, <1>1, <1>3 DEF SapTypeOK
<1>5. LoopInv'
  <2>1. \E i \in DOMAIN discovered' : discovered'[i] = app'
    <3>1. PICK i \in DOMAIN discovered : discovered[i] = app
      BY <1>t DEF LoopInv
    <3>2. i \in DOMAIN discovered' /\ discovered'[i] = app'
      BY <1>1, <1>3, <3>1
    <3> QED BY <3>2
  <2> QED BY <2>1 DEF LoopInv
<1>6. BudgetInv'
  <2>1. tile_count \in Nat /\ Len(pages) \in Nat
    BY <1>t DEF SapTypeOK
  <2>2. Allowance(tile_count + 1) \in Nat
    BY <2>1, AllowanceFacts
  <2>3. ToCome \in Nat /\ ToCome' \in Nat
    BY <1>t, <1>4, ToComeNat, ToComeNatNext
  <2>4. Len(pages) + n + ToCome =< Allowance(tile_count + 1)
    BY <1>t DEF BudgetInv
  <2>5. (Len(pages) + Len(discovered) + ToCome =< Allowance(tile_count + 1))'
    <3> DEFINE p == Len(pages)
               more == ToCome
               less == ToCome'
               b == Allowance(tile_count + 1)
    <3>1. /\ p \in Nat /\ more \in Nat /\ less \in Nat /\ b \in Nat /\ n \in Nat
          /\ less + 1 =< more /\ p + n + more =< b
      BY <1>3, <2>1, <2>2, <2>3, <2>4
    <3> HIDE DEF p, more, less, b, n
    <3>2. p + (n + 1) + less =< b
      BY <3>1
    <3>3. Len(pages) + (n + 1) + ToCome' =< Allowance(tile_count + 1)
      BY <3>2 DEF p, less, b
    <3> QED BY <1>1, <1>3, <3>3
  <2> QED BY <1>t, <1>1, <2>5 DEF BudgetInv
<1>7. EdgesHavePages'
  <2>1. Taken' = Taken \cup {url}
    BY <1>1, <1>2, <1>3 DEF Taken
  <2>2. from \in Taken
    BY DEF Taken
  <2> QED BY <1>t, <1>1, <2>1, <2>2 DEF EdgesHavePages
<1> QED BY <1>4, <1>5, <1>6, <1>7 DEF SapIInv

LEMMA SapExploreStep ==
  ASSUME SapIInv, NEW url \in Urls,
         \/ ExploreListDetail(url)
         \/ ExploreEditForm(url)
         \/ \E back \in BOOLEAN : ExploreCreateForm(url, back)
  PROVE  SapIInv'
<1>t. SapTypeOK /\ LoopInv
  BY DEF SapIInv
<1>1. /\ tries \in [row : 0 .. RowSelectors, edit : 0 .. EditTexts, create : 0 .. CreateTexts]
      /\ tries.row \in Nat /\ tries.edit \in Nat /\ tries.create \in Nat
      /\ app \in SapPages /\ discovered \in Seq(SapPages)
  BY <1>t, TilePagesNat DEF SapTypeOK
<1>2. pc \in InLoops => tries.create > 0 /\ \E i \in DOMAIN discovered : discovered[i] = app
  BY <1>t DEF LoopInv, InLoops
<1>3. app.url \in Urls
  BY <1>1 DEF SapPages
<1>4. CASE ExploreListDetail(url)
  <2>1. /\ pc = "row" /\ pc' = "edit"
        /\ tries'.row = tries.row - 1 /\ tries'.create = tries.create
        /\ tries' \in [row : 0 .. RowSelectors, edit : 0 .. EditTexts, create : 0 .. CreateTexts]
        /\ Discover(url, 2, app.url)
    <3>1. pc = "row" => tries.row > 0
      BY <1>t DEF LoopInv
    <3>2. /\ pc = "row" /\ pc' = "edit" /\ Discover(url, 2, app.url)
          /\ tries' = [tries EXCEPT !.row = tries.row - 1, !.edit = EditTexts]
      BY <1>4 DEF ExploreListDetail
    <3>3. tries.row - 1 \in 0 .. RowSelectors /\ EditTexts \in 0 .. EditTexts
      <4>1. tries.row \in 0 .. RowSelectors
        BY <1>1
      <4> QED BY <3>1, <3>2, <4>1, TilePagesNat
    <3> QED BY <1>1, <3>2, <3>3
  <2>2. ToCome' + 1 =< ToCome
    BY <1>1, <2>1 DEF ToCome
  <2>3. tries'.create > 0 /\ \E i \in DOMAIN discovered : discovered[i].url = app.url
    BY <1>2, <2>1 DEF InLoops
  <2> QED BY <1>3, <2>1, <2>2, <2>3, SapDiscoverStep
<1>5. CASE ExploreEditForm(url)
  <2> DEFINE last == discovered[Len(discovered)]
  <2>1. /\ pc = "edit" /\ pc' = "back"
        /\ tries'.row = tries.row /\ tries'.create = tries.create
        /\ tries' \in [row : 0 .. RowSelectors, edit : 0 .. EditTexts, create : 0 .. CreateTexts]
        /\ Discover(url, 3, last.url)
    BY <1>1, <1>5, TilePagesNat DEF ExploreEditForm
  <2>2. ToCome' + 1 =< ToCome
    BY <1>1, <2>1 DEF ToCome
  <2>3. Len(discovered) \in DOMAIN discovered /\ tries'.create > 0
    <3>1. PICK i \in DOMAIN discovered : TRUE
      BY <1>2, <2>1 DEF InLoops
    <3> QED BY <1>1, <1>2, <2>1, <3>1 DEF InLoops
  <2>4. last \in SapPages
    BY <1>1, <2>3
  <2>5. last.url \in Urls /\ \E i \in DOMAIN discovered : discovered[i].url = last.url
    BY <2>3, <2>4 DEF SapPages
  <2> HIDE DEF last
  <2> QED BY <2>1, <2>2, <2>3, <2>5, SapDiscoverStep
<1>6. ASSUME NEW back \in BOOLEAN, ExploreCreateForm(url, back) PROVE SapIInv'
  <2>1. /\ pc = "create" /\ pc' \in {"create", "collect"}
        /\ tries' \in [row : 0 .. RowSelectors, edit : 0 .. EditTexts, create : 0 .. CreateTexts]
        /\ tries'.create \in Nat /\ tries'.create + 1 =< tries.create
        /\ pc' = "create" => tries'.create > 0
        /\ Discover(url, 2, app.url)
    <3>1. pc = "create"
      BY <1>6 DEF ExploreCreateForm
    <3>2. tries.create > 0
      BY <1>2, <3>1 DEF InLoops
    <3>3. CASE back
      BY <1>1, <1>6, <3>2, <3>3, TilePagesNat DEF ExploreCreateForm
    <3>4. CASE ~back
      BY <1>1, <1>6, <3>2, <3>4, TilePagesNat DEF ExploreCreateForm
    <3> QED BY <3>3, <3>4
  <2>2. ToCome' + 1 =< ToCome
    BY <1>1, <2>1 DEF ToCome
  <2>3. \E i \in DOMAIN discovered : discovered[i].url = app.url
    BY <1>2, <2>1 DEF InLoops
  <2> QED BY <1>3, <2>1, <2>2, <2>3, SapDiscoverStep
<1> QED BY <1>4, <1>5, <1>6

LEMMA SapPersistFacts ==
  ASSUME SapTypeOK, NEW ps, Len(ps) \in Nat,
         PersistPageBatch(ps) \/ (rows' = Unsaved(Len(ps)) /\ UNCHANGED unsaved)
  PROVE  rows' \in Seq(Nat) /\ unsaved' \subseteq Nat
<1> DEFINE n == Len(ps)
           old(i) == IF i \in DOMAIN rows THEN rows[i] ELSE 0
<1>0. \A i \in 1 .. n : old(i) \in Nat
  BY DEF SapTypeOK
<1>1. CASE PersistPageBatch(ps)
  <2>1. PICK bad \in FailedSaves(n) :
          /\ rows' = SaveCrawlPages(n, bad)
          /\ unsaved' = unsaved \cup bad
    BY <1>1 DEF PersistPageBatch
  <2>2. bad \subseteq Nat
    BY DEF FailedSaves
  <2> DEFINE value(i) == old(i) + (IF i \in bad THEN 0 ELSE 1)
  <2>3. rows' = [i \in 1 .. n |-> value(i)]
    BY <2>1 DEF SaveCrawlPages
  <2>4. \A i \in 1 .. n : value(i) \in Nat
    <3> HIDE DEF old
    <3> QED BY <1>0
  <2> HIDE DEF value
  <2> QED BY <2>1, <2>2, <2>3, <2>4 DEF SapTypeOK
<1>2. CASE rows' = Unsaved(n) /\ UNCHANGED unsaved
  <2>1. rows' = [i \in 1 .. n |-> old(i)]
    BY <1>2 DEF Unsaved
  <2> HIDE DEF old
  <2> QED BY <1>0, <1>2, <2>1 DEF SapTypeOK
<1> QED BY <1>1, <1>2

(* A page moves from the tile to the result: nothing that was taken is lost. *)
LEMMA SapCollectStep ==
  ASSUME SapIInv, CollectPage
  PROVE  SapIInv'
<1>t. SapTypeOK /\ LoopInv /\ BudgetInv /\ EdgesHavePages
  BY DEF SapIInv
<1> DEFINE d == Head(discovered)
           n == Len(pages)
           m == Len(discovered)
           ps == Append(pages, d)
<1>1. /\ pc = "collect" /\ pc' = "collect" /\ discovered # <<>>
      /\ pages' = ps /\ discovered' = Tail(discovered)
      /\ UNCHANGED <<max_pages, tiles, tile_count, tries, app, flow_graph, error_count>>
  BY DEF CollectPage
<1>2. discovered \in Seq(SapPages) /\ pages \in Seq(SapPages) /\ n \in Nat /\ m \in Nat
  BY <1>t DEF SapTypeOK
<1>3. /\ d \in SapPages /\ d = discovered[1] /\ m > 0
      /\ discovered' \in Seq(SapPages) /\ Len(discovered') = m - 1
      /\ \A i \in 1 .. m - 1 : discovered'[i] = discovered[i + 1]
  BY <1>1, <1>2, HeadTailProperties
<1> HIDE DEF d
<1>4. /\ pages' \in Seq(SapPages) /\ Len(pages') = n + 1 /\ Len(ps) = n + 1
      /\ \A i \in 1 .. n : pages'[i] = pages[i]
      /\ pages'[n + 1] = d
  BY <1>1, <1>2, <1>3
<1>5. rows' \in Seq(Nat) /\ unsaved' \subseteq Nat
  <2>1. PersistPageBatch(ps) \/ (rows' = Unsaved(Len(ps)) /\ UNCHANGED unsaved)
    BY DEF CollectPage, d
  <2> HIDE DEF ps
  <2>2. Len(ps) \in Nat
    BY <1>2, <1>4
  <2> QED BY <1>t, <2>1, <2>2, SapPersistFacts
<1>6. SapTypeOK'
  BY <1>t, <1>1, <1>3, <1>4, <1>5 DEF SapTypeOK
<1>7. LoopInv'
  BY <1>1 DEF LoopInv
<1>8. BudgetInv'
  <2>1. ToCome = 0 /\ ToCome' = 0
    BY <1>1 DEF ToCome
  <2>2. n + m + 0 =< Allowance(tile_count + 1)
    BY <1>t, <1>1, <2>1 DEF BudgetInv
  <2>3. (n + 1) + (m - 1) + 0 = n + m + 0
    BY <1>2
  <2>4. (Len(pages) + Len(discovered) + ToCome =< Allowance(tile_count + 1))'
    BY <1>1, <1>3, <1>4, <2>1, <2>2, <2>3
  <2> QED BY <1>t, <1>1, <2>4 DEF BudgetInv
<1>9. EdgesHavePages'
  <2>1. ASSUME NEW u \in Taken PROVE u \in Taken'
    <3>1. CASE \E i \in DOMAIN pages : u = pages[i].url
      <4>1. PICK i \in DOMAIN pages : u = pages[i].url
        BY <3>1
      <4>2. i \in DOMAIN pages' /\ pages'[i] = pages[i]
        BY <1>2, <1>4
      <4> QED BY <4>1, <4>2 DEF Taken
    <3>2. CASE \E i \in DOMAIN discovered : u = discovered[i].url
      <4>1. PICK i \in DOMAIN discovered : u = discovered[i].url
        BY <3>2
      <4>2. CASE i = 1
        <5>1. n + 1 \in DOMAIN pages' /\ pages'[n + 1].url = u
          BY <1>2, <1>3, <1>4, <4>1, <4>2
        <5> QED BY <5>1 DEF Taken
      <4>3. CASE i # 1
        <5>1. i - 1 \in 1 .. m - 1 /\ (i - 1) + 1 = i
          BY <1>2, <4>3
        <5>2. i - 1 \in DOMAIN discovered' /\ discovered'[i - 1].url = u
          BY <1>3, <4>1, <5>1
        <5> QED BY <5>2 DEF Taken
      <4> QED BY <4>2, <4>3
    <3> QED BY <3>1, <3>2 DEF Taken
  <2> QED BY <1>t, <1>1, <2>1 DEF EdgesHavePages
<1> QED BY <1>6, <1>7, <1>8, <1>9 DEF SapIInv

(* All pages of the tile are collected. *)
LEMMA SapTileExploredStep ==
  ASSUME SapIInv, TileExplored
  PROVE  SapIInv'
<1>t. SapTypeOK /\ LoopInv /\ BudgetInv /\ EdgesHavePages
  BY DEF SapIInv
<1>1. /\ pc = "collect" /\ pc' = "tiles" /\ discovered = <<>>
      /\ tile_count' = tile_count + 1 /\ tile_count \in Nat
      /\ Len(pages) \in Nat /\ max_pages \in Nat
      /\ UNCHANGED <<max_pages, tiles, discovered, pages, flow_graph, error_count, rows, unsaved>>
  BY <1>t, TilePagesNat DEF TileExplored, SapTypeOK, result
<1>2. SapTypeOK'
  <2>1. NoPage \in SapPages
    BY LaunchpadAssumption DEF NoPage, SapPages
  <2>2. tries' \in [row : 0 .. RowSelectors, edit : 0 .. EditTexts, create : 0 .. CreateTexts]
    BY TilePagesNat DEF TileExplored
  <2>3. app' = NoPage
    BY DEF TileExplored
  <2> QED BY <1>t, <1>1, <2>1, <2>2, <2>3 DEF SapTypeOK
<1>3. LoopInv'
  BY <1>1 DEF LoopInv
<1>4. BudgetInv'
  <2>1. ToCome = 0
    BY <1>1 DEF ToCome
  <2>2. Len(pages) + 0 + 0 =< Allowance(tile_count + 1) /\ tile_count + 1 < max_pages
    BY <1>t, <1>1, <2>1 DEF BudgetInv
  <2>3. (Len(pages) =< Allowance(tile_count))'
    BY <1>1, <2>2
  <2> QED BY <1>1, <2>2, <2>3 DEF BudgetInv
<1>5. EdgesHavePages'
  BY <1>t, <1>1 DEF EdgesHavePages, Taken
<1> QED BY <1>2, <1>3, <1>4, <1>5 DEF SapIInv

LEMMA SapFinishStep ==
  ASSUME SapIInv, SapFinish
  PROVE  SapIInv'
<1>t. SapTypeOK /\ LoopInv /\ BudgetInv /\ EdgesHavePages
  BY DEF SapIInv
<1>1. /\ pc = "tiles" /\ pc' = "done"
      /\ UNCHANGED <<max_pages, tiles, tile_count, tries, app, discovered, pages, flow_graph,
                     error_count>>
  BY DEF SapFinish, tile, result
<1>2. rows' \in Seq(Nat) /\ unsaved' \subseteq Nat
  <2>1. Len(pages) \in Nat
    BY <1>t DEF SapTypeOK
  <2> QED BY <1>t, <2>1, SapPersistFacts DEF SapFinish
<1>3. SapTypeOK'
  BY <1>t, <1>1, <1>2 DEF SapTypeOK
<1>4. LoopInv' /\ BudgetInv'
  BY <1>t, <1>1 DEF LoopInv, BudgetInv
<1>5. EdgesHavePages'
  BY <1>t, <1>1 DEF EdgesHavePages, Taken
<1> QED BY <1>3, <1>4, <1>5 DEF SapIInv

LEMMA SapStep ==
  ASSUME SapIInv, [SapNext]_svars
  PROVE  SapIInv'
<1>1. CASE SapNext
  BY <1>1, SapStartStep, SapLaunchpadStep, SapTileErrorStep, SapOpenTileStep, SapSelectorStep,
     SapExploreStep, SapCollectStep, SapTileExploredStep, SapFinishStep
  DEF SapNext, ExploreTileApp
<1>2. CASE UNCHANGED svars
  <2> USE <1>2 DEF svars, tile, result
  <2>1. SapTypeOK' /\ LoopInv'
    BY DEF SapIInv, SapTypeOK, LoopInv
  <2>2. BudgetInv'
    BY DEF SapIInv, BudgetInv, ToCome
  <2>3. EdgesHavePages'
    BY DEF SapIInv, EdgesHavePages, Taken
  <2> QED BY <2>1, <2>2, <2>3 DEF SapIInv
<1> QED BY <1>1, <1>2

(***************************************************************************)
(* Theorems about the SAP Fiori crawler                                    *)
(***************************************************************************)

(* The invariant holds in every reachable state. *)
THEOREM SapInvariance == SapSpec => []SapIInv
<1>1. SapInit => SapIInv
  BY SapInitially
<1>2. SapIInv /\ [SapNext]_svars => SapIInv'
  BY SapStep
<1> QED BY <1>1, <1>2, PTL DEF SapSpec

(* Every variable keeps its type: no loop goes on past its last selector. *)
THEOREM SapTypeCorrect == SapSpec => []SapTypeOK
<1>1. SapIInv => SapTypeOK
  BY DEF SapIInv
<1> QED BY <1>1, SapInvariance, PTL

(* Whatever raises and wherever: an edge never leads to, or comes from, a page the *)
(* crawl does not have.                                                            *)
THEOREM EdgesAreBacked == SapSpec => []EdgesHavePages
<1>1. SapIInv => EdgesHavePages
  BY DEF SapIInv
<1> QED BY <1>1, SapInvariance, PTL

(* The pages of a crawl are bounded by max_pages - 1 tiles and by how many selectors *)
(* the loops try, although the limit counts neither pages nor failed tiles.          *)
THEOREM PagesAreBounded == SapSpec => []PageBudget
<1>1. ASSUME SapIInv PROVE PageBudget
  <2> DEFINE limit == IF max_pages = 0 THEN 0 ELSE max_pages - 1
  <2>1. /\ tile_count \in Nat /\ Len(pages) \in Nat /\ Len(discovered) \in Nat
        /\ max_pages \in Nat /\ limit \in Nat
    BY <1>1, TilePagesNat DEF SapIInv, SapTypeOK
  <2>2. ToCome \in Nat
    BY <1>1, ToComeNat DEF SapIInv
  <2>3. \A n \in Nat : /\ Allowance(n) \in Nat /\ Allowance(n) > 0
                       /\ \A m \in Nat : n =< m => Allowance(n) =< Allowance(m)
    BY AllowanceFacts
  <2>4. pc \in {"authenticate", "refused", "launchpad", "raised", "tiles", "row", "edit", "back",
                "create", "collect", "done"}
    BY <1>1 DEF SapIInv, SapTypeOK
  <2>5. CASE pc \in {"authenticate", "refused", "launchpad", "raised"}
    <3>1. Len(pages) = 0
      BY <1>1, <2>5 DEF SapIInv, LoopInv
    <3> QED BY <2>1, <2>3, <3>1 DEF PageBudget
  <2>6. CASE pc \in {"tiles", "done"}
    <3>1. tile_count =< limit /\ Len(pages) =< Allowance(tile_count)
      BY <1>1, <2>1, <2>6 DEF SapIInv, BudgetInv
    <3> QED BY <2>1, <3>1, Fits
  <2>7. CASE pc \in {"row", "edit", "back", "create", "collect"}
    <3>1. /\ tile_count + 1 =< limit /\ tile_count + 1 \in Nat
          /\ Len(pages) + Len(discovered) + ToCome =< Allowance(tile_count + 1)
      BY <1>1, <2>1, <2>7 DEF SapIInv, BudgetInv
    <3>2. Len(pages) =< Allowance(tile_count + 1)
      BY <2>1, <2>2, <2>3, <3>1
    <3> QED BY <2>1, <3>1, <3>2, Fits
  <2> QED BY <2>4, <2>5, <2>6, <2>7
<1> QED BY <1>1, SapInvariance, PTL

(***************************************************************************)
(* The exploration of the legacy application                               *)
(***************************************************************************)

LEMMA ExploreInitially ==
  ASSUME ExploreInit
  PROVE  ExploreInv
<1>0. Base \in Urls /\ MaxPages \in Nat
  BY SiteAssumption
<1>1. Waiting \in Tasks
  BY <1>0 DEF Waiting, Tasks
<1>2. IsFiniteSet({}) /\ Cardinality({}) = 0
  BY FS_EmptySet
<1>3. /\ page_rows = <<>> /\ elements = <<>> /\ overlap = FALSE
      /\ Len(page_rows) = 0 /\ DOMAIN page_rows = {} /\ DOMAIN elements = {}
  BY DEF ExploreInit
<1>4. \A e \in Explorers : /\ ex[e] = Waiting /\ ex[e].pc = "waiting"
                           /\ ex[e].seen = {} /\ ex[e].row = 0
  BY DEF ExploreInit, Waiting
<1>5. ExploreTypeOK
  <2>1. ex \in [Explorers -> Tasks]
    BY <1>1 DEF ExploreInit
  <2>2. elements \in [DOMAIN page_rows -> Nat]
    BY <1>3
  <2>3. \A e \in Explorers : ex[e].row \in 0 .. Len(page_rows) /\ Cardinality(ex[e].seen) =< MaxPages
    <3>1. 0 \in 0 .. 0 /\ 0 =< MaxPages
      BY <1>0
    <3>2. \A e \in Explorers : ex[e].row = 0 /\ ex[e].seen = {}
      BY <1>4
    <3> QED BY <1>2, <1>3, <3>1, <3>2
  <2>4. page_rows \in Seq(Urls) /\ overlap \in BOOLEAN
    <3>1. <<>> \in Seq(Urls)
      OBVIOUS
    <3> QED BY <3>1 DEF ExploreInit
  <2> QED BY <2>1, <2>2, <2>3, <2>4 DEF ExploreTypeOK
<1>6. \A e \in Explorers : AtItsRow(e) /\ Covered(e)
  BY <1>2, <1>4 DEF AtItsRow, Covered
<1>7. AloneInv
  BY <1>3, <1>4 DEF AloneInv, OneRowEach, Undisturbed, Running
<1> QED BY <1>5, <1>6, <1>7 DEF ExploreInv

(* The rows of the table after a step: it only grows. *)
RowsGrow ==
  /\ page_rows' \in Seq(Urls)
  /\ Len(page_rows) =< Len(page_rows')
  /\ \A i \in DOMAIN page_rows : i \in DOMAIN page_rows' /\ page_rows'[i] = page_rows[i]

LEMMA RowsStay ==
  ASSUME ExploreTypeOK, UNCHANGED page_rows
  PROVE  RowsGrow
BY DEF ExploreTypeOK, RowsGrow

(* What one task does leaves the others where they are. *)
LEMMA OthersStay ==
  ASSUME ExploreInv, RowsGrow, NEW o \in Explorers, ex'[o] = ex[o]
  PROVE  AtItsRow(o)' /\ Covered(o)'
<1>1. AtItsRow(o) /\ Covered(o) /\ ex[o] \in Tasks
  BY DEF ExploreInv, ExploreTypeOK
<1>2. ex[o].row # 0 => ex[o].row \in DOMAIN page_rows
  BY DEF ExploreInv, ExploreTypeOK
<1>3. AtItsRow(o)'
  BY <1>1, <1>2 DEF AtItsRow, RowsGrow
<1>4. \A u : HasRow(u) => HasRow(u)'
  BY DEF HasRow, RowsGrow
<1>5. \A u : Ahead(u, o) => Ahead(u, o)'
  BY DEF Ahead
<1>6. Covered(o)'
  BY <1>1, <1>4, <1>5 DEF Covered
<1> QED BY <1>3, <1>6

(* A step of a running task preserves the invariant if it does so for that task. *)
LEMMA TaskStep ==
  ASSUME ExploreInv, NEW e \in Explorers, Running(e),
         NEW t \in Tasks, ex' = [ex EXCEPT ![e] = t],
         UNCHANGED overlap, RowsGrow, elements' \in [DOMAIN page_rows' -> Nat],
         t.row \in 0 .. Len(page_rows'), Cardinality(t.seen) =< MaxPages,
         AtItsRow(e)', Covered(e)',
         ~overlap => OneRowEach' /\ Undisturbed(e)'
  PROVE  ExploreInv'
<1>1. /\ ex \in [Explorers -> Tasks] /\ ex' \in [Explorers -> Tasks] /\ ex'[e] = t
      /\ \A o \in Explorers \ {e} : ex'[o] = ex[o]
  BY DEF ExploreInv, ExploreTypeOK
<1>2. ExploreTypeOK'
  <2>1. ASSUME NEW o \in Explorers
        PROVE  ex'[o].row \in 0 .. Len(page_rows') /\ Cardinality(ex'[o].seen) =< MaxPages
    <3>1. CASE o = e
      BY <1>1, <3>1
    <3>2. CASE o # e
      <4>1. ex[o].row \in 0 .. Len(page_rows) /\ Cardinality(ex[o].seen) =< MaxPages
        BY DEF ExploreInv, ExploreTypeOK
      <4>2. Len(page_rows) \in Nat /\ Len(page_rows') \in Nat /\ Len(page_rows) =< Len(page_rows')
        BY DEF ExploreInv, ExploreTypeOK, RowsGrow
      <4> QED BY <1>1, <3>2, <4>1, <4>2
    <3> QED BY <3>1, <3>2
  <2> QED BY <1>1, <2>1 DEF ExploreInv, ExploreTypeOK, RowsGrow
<1>3. \A o \in Explorers : AtItsRow(o)' /\ Covered(o)'
  BY <1>1, OthersStay
<1>4. AloneInv'
  <2> SUFFICES ASSUME ~overlap
               PROVE  (/\ \A p, o \in Explorers : Running(p) /\ Running(o) => p = o
                       /\ OneRowEach
                       /\ \A o \in Explorers : Undisturbed(o))'
    BY DEF AloneInv
  <2>1. \A o \in Explorers \ {e} : ~Running(o) /\ ~Running(o)'
    BY <1>1 DEF ExploreInv, AloneInv, Running
  <2>2. \A o \in Explorers \ {e} : Undisturbed(o)'
    BY <2>1 DEF Undisturbed, Running
  <2> QED BY <2>1, <2>2
<1> QED BY <1>2, <1>3, <1>4 DEF ExploreInv

LEMMA StartExploreStep ==
  ASSUME ExploreInv, NEW e \in Explorers, StartExplore(e)
  PROVE  ExploreInv'
<1> DEFINE t == [Waiting EXCEPT !.pc = "walk", !.queue = <<Base>>]
<1>0. Base \in Urls /\ MaxPages \in Nat
  BY SiteAssumption
<1>1. /\ t \in Tasks /\ t.pc = "walk" /\ t.queue = <<Base>> /\ t.seen = {} /\ t.row = 0
  <2>1. t = [pc |-> "walk", queue |-> <<Base>>, seen |-> {}, url |-> Base, row |-> 0]
    <3>1. Waiting = [pc |-> "waiting", queue |-> <<>>, seen |-> {}, url |-> Base, row |-> 0]
      BY DEF Waiting
    <3> DEFINE q == <<Base>>
               n == <<>>
    <3> HIDE DEF q, n
    <3>2. [[pc |-> "waiting", queue |-> n, seen |-> {}, url |-> Base, row |-> 0] EXCEPT !.pc = "walk"]
            = [pc |-> "walk", queue |-> n, seen |-> {}, url |-> Base, row |-> 0]
      OBVIOUS
    <3>3. [[pc |-> "walk", queue |-> n, seen |-> {}, url |-> Base, row |-> 0] EXCEPT !.queue = q]
            = [pc |-> "walk", queue |-> q, seen |-> {}, url |-> Base, row |-> 0]
      OBVIOUS
    <3> QED BY <3>1, <3>2, <3>3 DEF q, n
  <2>2. <<Base>> \in Seq(Urls)
    BY <1>0
  <2> HIDE DEF t
  <2> QED BY <1>0, <2>1, <2>2 DEF Tasks
<1>2. ex' = [ex EXCEPT ![e] = t]
  BY DEF StartExplore
<1> HIDE DEF t
<1>3. /\ ex \in [Explorers -> Tasks] /\ ex' \in [Explorers -> Tasks] /\ ex'[e] = t
      /\ \A o \in Explorers \ {e} : ex'[o] = ex[o]
      /\ UNCHANGED <<page_rows, elements>>
  BY <1>1, <1>2 DEF ExploreInv, ExploreTypeOK, StartExplore
<1>4. IsFiniteSet({}) /\ Cardinality({}) = 0
  BY FS_EmptySet
<1>5. overlap' \in BOOLEAN /\ (~overlap' => ~overlap /\ \A o \in Explorers : ~Running(o))
  BY DEF StartExplore, ExploreInv, ExploreTypeOK
<1>6. ExploreTypeOK'
  <2>1. ASSUME NEW o \in Explorers
        PROVE  ex'[o].row \in 0 .. Len(page_rows) /\ Cardinality(ex'[o].seen) =< MaxPages
    <3>1. CASE o = e
      <4>1. Len(page_rows) \in Nat
        BY DEF ExploreInv, ExploreTypeOK
      <4>2. ex'[o].row = 0 /\ ex'[o].seen = {}
        BY <1>1, <1>3, <3>1
      <4> QED BY <1>0, <1>4, <4>1, <4>2
    <3>2. CASE o # e
      BY <1>3, <3>2 DEF ExploreInv, ExploreTypeOK
    <3> QED BY <3>1, <3>2
  <2> QED BY <1>3, <1>5, <2>1 DEF ExploreInv, ExploreTypeOK
<1>7. AtItsRow(e)' /\ Covered(e)'
  <2>1. AtItsRow(e)'
    BY <1>1, <1>3, <1>4 DEF AtItsRow
  <2>2. Ahead(Base, e)'
    <3>1. 1 \in DOMAIN t.queue /\ t.queue[1] = Base
      BY <1>1
    <3> QED BY <1>3, <3>1 DEF Ahead
  <2> QED BY <1>1, <1>3, <2>1, <2>2 DEF Covered
<1>8. \A o \in Explorers : AtItsRow(o)' /\ Covered(o)'
  BY <1>3, <1>7, OthersStay, RowsStay DEF ExploreInv
<1>9. AloneInv'
  <2> SUFFICES ASSUME ~overlap'
               PROVE  (/\ \A p, o \in Explorers : Running(p) /\ Running(o) => p = o
                       /\ OneRowEach
                       /\ \A o \in Explorers : Undisturbed(o))'
    BY DEF AloneInv
  <2>1. \A o \in Explorers \ {e} : ~Running(o)'
    BY <1>3, <1>5 DEF Running
  <2>2. OneRowEach'
    BY <1>3, <1>5 DEF ExploreInv, AloneInv, OneRowEach
  <2>3. \A o \in Explorers : Undisturbed(o)'
    <3>1. Undisturbed(e)'
      BY <1>1, <1>3 DEF Undisturbed
    <3> QED BY <2>1, <3>1 DEF Undisturbed, Running
  <2> QED BY <2>1, <2>2, <2>3
<1> QED BY <1>6, <1>8, <1>9 DEF ExploreInv

LEMMA SkipUrlStep ==
  ASSUME ExploreInv, NEW e \in Explorers, SkipUrl(e)
  PROVE  ExploreInv'
<1> DEFINE t == [ex[e] EXCEPT !.queue = Tail(ex[e].queue)]
<1>0. /\ ex[e] \in Tasks /\ ex[e].queue \in Seq(Urls) /\ ex[e].queue # <<>> /\ ex[e].pc = "walk"
      /\ AtItsRow(e) /\ Covered(e) /\ ex \in [Explorers -> Tasks]
  BY DEF SkipUrl, Walking, ExploreInv, ExploreTypeOK, Tasks
<1>1. ex' = [ex EXCEPT ![e] = t]
  BY DEF SkipUrl
<1>2. /\ t \in Tasks /\ t.pc = "walk" /\ t.queue = Tail(ex[e].queue)
      /\ t.seen = ex[e].seen /\ t.row = ex[e].row /\ t.url = ex[e].url
  <2>1. Tail(ex[e].queue) \in Seq(Urls)
    BY <1>0
  <2> QED BY <1>0, <2>1 DEF Tasks
<1> HIDE DEF t
<1>3. ex'[e] = t
  BY <1>0, <1>1
<1>4. AtItsRow(e)'
  BY <1>0, <1>2, <1>3 DEF AtItsRow, SkipUrl
<1>n. PICK next : next = NextUrl(e)
  OBVIOUS
<1>5. \A u : Ahead(u, e) => Ahead(u, e)' \/ u = next
  <2> SUFFICES ASSUME NEW i \in DOMAIN ex[e].queue, ex[e].queue[i] # next
               PROVE  \E j \in DOMAIN Tail(ex[e].queue) : Tail(ex[e].queue)[j] = ex[e].queue[i]
    BY <1>2, <1>3 DEF Ahead
  <2> DEFINE j == i - 1
  <2>1. i \in 1 .. Len(ex[e].queue) /\ i # 1
    BY <1>0, <1>n DEF NextUrl
  <2>2. j \in DOMAIN Tail(ex[e].queue) /\ Tail(ex[e].queue)[j] = ex[e].queue[i]
    BY <1>0, <2>1
  <2> QED BY <2>2
<1>6. next \in Foreign \/ Ahead(next, e)'
  BY <1>2, <1>3, <1>n DEF SkipUrl, ShouldVisit, Ahead
<1>7. Covered(e)'
  <2>1. \A u \in ex[e].seen :
          HasRow(u) /\ \A k \in DOMAIN Links[u] : Links[u][k] \in Foreign \/ Ahead(Links[u][k], e)
    BY <1>0 DEF Covered
  <2>2. Base \in Foreign \/ Ahead(Base, e)'
    BY <1>0, <1>5, <1>6, SiteAssumption DEF Covered
  <2>3. \A u \in ex'[e].seen :
          HasRow(u)' /\ \A k \in DOMAIN Links[u] : Links[u][k] \in Foreign \/ Ahead(Links[u][k], e)'
    BY <1>2, <1>3, <1>5, <1>6, <2>1 DEF HasRow, SkipUrl
  <2> QED BY <2>2, <2>3 DEF Covered
<1>8. Running(e) /\ RowsGrow
  BY <1>0, RowsStay DEF Running, SkipUrl, ExploreInv
<1>9. /\ elements' \in [DOMAIN page_rows' -> Nat] /\ t.row \in 0 .. Len(page_rows')
      /\ Cardinality(t.seen) =< MaxPages
  BY <1>2 DEF SkipUrl, ExploreInv, ExploreTypeOK
<1>10. ~overlap => OneRowEach' /\ Undisturbed(e)'
  BY <1>2, <1>3 DEF ExploreInv, AloneInv, OneRowEach, Undisturbed, SkipUrl
<1>11. UNCHANGED overlap
  BY DEF SkipUrl
<1> QED BY <1>1, <1>2, <1>4, <1>7, <1>8, <1>9, <1>10, <1>11, TaskStep

LEMMA FetchPageStep ==
  ASSUME ExploreInv, NEW e \in Explorers, FetchPage(e)
  PROVE  ExploreInv'
<1> DEFINE next == NextUrl(e)
           seen == ex[e].seen \cup {next}
<1>0. /\ ex[e] \in Tasks /\ ex[e].queue \in Seq(Urls) /\ ex[e].queue # <<>> /\ ex[e].pc = "walk"
      /\ AtItsRow(e) /\ Covered(e) /\ ex \in [Explorers -> Tasks]
      /\ next \notin Foreign /\ next \notin ex[e].seen /\ Cardinality(ex[e].seen) < MaxPages
      /\ UNCHANGED <<page_rows, elements, overlap>>
  BY DEF FetchPage, Walking, ShouldVisit, ExploreInv, ExploreTypeOK, Tasks
<1>1. PICK row \in Found(next) :
        ex' = [ex EXCEPT ![e] = [pc |-> "save", queue |-> Tail(ex[e].queue), url |-> next,
                                 seen |-> seen, row |-> row]]
  BY DEF FetchPage
<1> DEFINE t == [pc |-> "save", queue |-> Tail(ex[e].queue), url |-> next,
                 seen |-> seen, row |-> row]
<1>2. next \in Urls /\ next = ex[e].queue[1] /\ Tail(ex[e].queue) \in Seq(Urls)
  BY <1>0 DEF NextUrl
<1>3. /\ row \in 0 .. Len(page_rows) /\ row \in Nat
      /\ row # 0 => page_rows[row] = next
      /\ row = 0 => ~HasRow(next)
  <2>1. page_rows \in Seq(Urls)
    BY DEF ExploreInv, ExploreTypeOK
  <2>2. DOMAIN page_rows = 1 .. Len(page_rows) /\ Len(page_rows) \in Nat
    BY <2>1
  <2> QED BY <2>2 DEF Found, HasRow
<1>4. ex[e].seen \subseteq Urls \ Foreign /\ IsFiniteSet(ex[e].seen)
  BY <1>0 DEF Tasks, AtItsRow
<1>5. seen \subseteq Urls \ Foreign
  BY <1>0, <1>2, <1>4
<1>6. IsFiniteSet(seen) /\ Cardinality(seen) =< MaxPages
  <2>1. IsFiniteSet(seen) /\ Cardinality(seen) = Cardinality(ex[e].seen) + 1
    BY <1>0, <1>4, FS_AddElement
  <2>2. Cardinality(ex[e].seen) \in Nat
    BY <1>4, FS_CardinalityType
  <2> QED BY <1>0, <2>1, <2>2, SiteAssumption
<1>7. t \in Tasks
  BY <1>2, <1>3, <1>5 DEF Tasks
<1>8. ex'[e] = t
  BY <1>0, <1>1
<1>9. /\ t.pc = "save" /\ t.queue = Tail(ex[e].queue) /\ t.url = next /\ t.seen = seen
      /\ t.row = row
  OBVIOUS
<1>10. ex' = [ex EXCEPT ![e] = t]
  BY <1>1
<1> HIDE DEF t
<1>11. AtItsRow(e)'
  BY <1>0, <1>3, <1>6, <1>8, <1>9 DEF AtItsRow
<1>12. \A u : Ahead(u, e) => Ahead(u, e)'
  <2> SUFFICES ASSUME NEW i \in DOMAIN ex[e].queue, ex[e].queue[i] # next
               PROVE  \E j \in DOMAIN Tail(ex[e].queue) : Tail(ex[e].queue)[j] = ex[e].queue[i]
    BY <1>8, <1>9 DEF Ahead
  <2> DEFINE j == i - 1
  <2>1. i \in 1 .. Len(ex[e].queue) /\ i # 1
    BY <1>0, <1>2
  <2>2. j \in DOMAIN Tail(ex[e].queue) /\ Tail(ex[e].queue)[j] = ex[e].queue[i]
    BY <1>0, <2>1
  <2> QED BY <2>2
<1>13. Covered(e)'
  <2>1. /\ Base \in Foreign \/ Ahead(Base, e)
        /\ \A u \in ex[e].seen :
             HasRow(u) /\ \A k \in DOMAIN Links[u] : Links[u][k] \in Foreign \/ Ahead(Links[u][k], e)
    BY <1>0 DEF Covered
  <2>2. \A u \in ex[e].seen :
          HasRow(u)' /\ \A k \in DOMAIN Links[u] : Links[u][k] \in Foreign \/ Ahead(Links[u][k], e)'
    BY <1>0, <1>12, <2>1 DEF HasRow
  <2>3. \A u \in ex'[e].seen : u \in ex[e].seen \/ (ex'[e].pc = "save" /\ u = ex'[e].url)
    BY <1>8, <1>9
  <2> QED BY <1>12, <2>1, <2>2, <2>3 DEF Covered
<1>14. Running(e) /\ RowsGrow
  BY <1>0, RowsStay DEF Running, ExploreInv
<1>15. /\ elements' \in [DOMAIN page_rows' -> Nat] /\ t.row \in 0 .. Len(page_rows')
       /\ Cardinality(t.seen) =< MaxPages
  BY <1>0, <1>3, <1>6, <1>9 DEF ExploreInv, ExploreTypeOK
<1>16. ~overlap => OneRowEach' /\ Undisturbed(e)'
  BY <1>0, <1>3, <1>8, <1>9 DEF ExploreInv, AloneInv, OneRowEach, Undisturbed, HasRow
<1> QED BY <1>0, <1>7, <1>10, <1>11, <1>13, <1>14, <1>15, <1>16, TaskStep

LEMMA SavePageStep ==
  ASSUME ExploreInv, NEW e \in Explorers, SavePage(e)
  PROVE  ExploreInv'
<1>u. PICK url : url = ex[e].url
  OBVIOUS
<1> DEFINE waiting == ex[e].queue
           fresh == Outside(Links[url], Foreign \cup ex[e].seen)
           row == IF ex[e].row = 0 THEN Len(page_rows) + 1 ELSE ex[e].row
           t == [pc |-> "delete", queue |-> waiting \o fresh, seen |-> ex[e].seen, url |-> url,
                 row |-> row]
<1>0. /\ ex[e] \in Tasks /\ waiting \in Seq(Urls) /\ url \in Urls /\ ex[e].pc = "save"
      /\ ex[e].row \in 0 .. Len(page_rows) /\ Cardinality(ex[e].seen) =< MaxPages
      /\ AtItsRow(e) /\ Covered(e) /\ ex \in [Explorers -> Tasks]
      /\ page_rows \in Seq(Urls) /\ elements \in [DOMAIN page_rows -> Nat]
      /\ UNCHANGED overlap
  BY <1>u DEF SavePage, ExploreInv, ExploreTypeOK, Tasks
<1>1. /\ ex' = [ex EXCEPT ![e] = t]
      /\ page_rows' = IF ex[e].row = 0 THEN Append(page_rows, url) ELSE page_rows
      /\ elements' = IF ex[e].row = 0 THEN Append(elements, 0) ELSE elements
  BY <1>u DEF SavePage
<1>2. Links[url] \in Seq(Urls)
  BY <1>0, SiteAssumption
<1>3. /\ fresh \in Seq(Urls)
      /\ \A k \in DOMAIN Links[url] : Links[url][k] \notin Foreign \cup ex[e].seen =>
           \E i \in DOMAIN fresh : fresh[i] = Links[url][k]
  <2> DEFINE S == Foreign \cup ex[e].seen
  <2> HIDE DEF S
  <2>1. LET f == Outside(Links[url], S)
        IN  /\ f \in Seq(Urls)
            /\ \A k \in DOMAIN Links[url] : Links[url][k] \notin S =>
                 \E i \in DOMAIN f : f[i] = Links[url][k]
    BY <1>2, OutsideElements
  <2> QED BY <2>1 DEF S
<1> HIDE DEF fresh
<1>4. /\ waiting \o fresh \in Seq(Urls)
      /\ \A i \in DOMAIN waiting : i \in DOMAIN (waiting \o fresh) /\ (waiting \o fresh)[i] = waiting[i]
      /\ \A i \in DOMAIN fresh : /\ Len(waiting) + i \in DOMAIN (waiting \o fresh)
                                 /\ (waiting \o fresh)[Len(waiting) + i] = fresh[i]
  BY <1>0, <1>3, ConcatProperties
<1>5. /\ row \in Nat /\ row # 0 /\ row \in DOMAIN page_rows' /\ page_rows'[row] = url /\ RowsGrow
      /\ row \in 0 .. Len(page_rows')
  <2>0. Len(page_rows) \in Nat /\ DOMAIN page_rows = 1 .. Len(page_rows)
    BY <1>0
  <2>1. CASE ex[e].row = 0
    <3>1. /\ page_rows' \in Seq(Urls) /\ Len(page_rows') = Len(page_rows) + 1
          /\ \A i \in 1 .. Len(page_rows) : page_rows'[i] = page_rows[i]
          /\ page_rows'[Len(page_rows) + 1] = url
      BY <1>0, <1>1, <2>1, AppendProperties
    <3>2. DOMAIN page_rows' = 1 .. Len(page_rows')
      BY <3>1
    <3> QED BY <2>0, <2>1, <3>1, <3>2 DEF RowsGrow
  <2>2. CASE ex[e].row # 0
    <3>1. page_rows[ex[e].row] = url
      BY <1>0, <1>u, <2>2 DEF AtItsRow
    <3> QED BY <1>0, <1>1, <2>0, <2>2, <3>1 DEF RowsGrow
  <2> QED BY <2>1, <2>2
<1>6. /\ t \in Tasks /\ t.pc = "delete" /\ t.queue = waiting \o fresh
      /\ t.seen = ex[e].seen /\ t.url = url /\ t.row = row
  BY <1>0, <1>4, <1>5 DEF Tasks
<1> HIDE DEF t, row
<1>7. ex'[e] = t
  BY <1>0, <1>1
<1>8. AtItsRow(e)'
  BY <1>0, <1>5, <1>6, <1>7, <1>u DEF AtItsRow
<1>9. \A u : Ahead(u, e) => Ahead(u, e)'
  BY <1>4, <1>6, <1>7 DEF Ahead
<1>10. \A k \in DOMAIN Links[url] : Links[url][k] \in Foreign \/ Ahead(Links[url][k], e)'
  <2> SUFFICES ASSUME NEW k \in DOMAIN Links[url], Links[url][k] \notin Foreign \cup ex[e].seen
               PROVE  \E i \in DOMAIN (waiting \o fresh) : (waiting \o fresh)[i] = Links[url][k]
    BY <1>6, <1>7 DEF Ahead
  <2>1. PICK i \in DOMAIN fresh : fresh[i] = Links[url][k]
    BY <1>3
  <2>2. /\ Len(waiting) + i \in DOMAIN (waiting \o fresh)
        /\ (waiting \o fresh)[Len(waiting) + i] = Links[url][k]
    BY <1>4, <2>1
  <2> QED BY <2>2
<1>11. Covered(e)'
  <2>1. /\ Base \in Foreign \/ Ahead(Base, e)
        /\ \A u \in ex[e].seen \ {url} :
             HasRow(u) /\ \A k \in DOMAIN Links[u] : Links[u][k] \in Foreign \/ Ahead(Links[u][k], e)
    BY <1>0, <1>u DEF Covered
  <2>2. \A u \in ex'[e].seen \ {url} :
          HasRow(u)' /\ \A k \in DOMAIN Links[u] : Links[u][k] \in Foreign \/ Ahead(Links[u][k], e)'
    BY <1>5, <1>6, <1>7, <1>9, <2>1 DEF HasRow, RowsGrow
  <2>3. HasRow(url)'
    BY <1>5 DEF HasRow
  <2> QED BY <1>9, <1>10, <2>1, <2>2, <2>3 DEF Covered
<1>12. elements \in Seq(Nat) /\ Len(elements) = Len(page_rows)
  BY <1>0
<1>13. /\ elements' \in [DOMAIN page_rows' -> Nat]
       /\ \A i \in DOMAIN elements' : \/ i \in DOMAIN elements /\ elements'[i] = elements[i]
                                      \/ elements'[i] = 0
  <2>1. CASE ex[e].row = 0
    <3>1. /\ elements' \in Seq(Nat) /\ Len(elements') = Len(elements) + 1
          /\ \A i \in 1 .. Len(elements) : elements'[i] = elements[i]
          /\ elements'[Len(elements) + 1] = 0
      BY <1>1, <1>12, <2>1, AppendProperties
    <3>2. /\ page_rows' \in Seq(Urls) /\ Len(page_rows') = Len(page_rows) + 1
      BY <1>0, <1>1, <2>1, AppendProperties
    <3>3. /\ DOMAIN page_rows' = DOMAIN elements'
          /\ DOMAIN elements' = 1 .. Len(elements) + 1 /\ DOMAIN elements = 1 .. Len(elements)
          /\ Len(elements) \in Nat
      BY <1>12, <3>1, <3>2
    <3> QED BY <3>1, <3>3
  <2>2. CASE ex[e].row # 0
    BY <1>0, <1>1, <2>2
  <2> QED BY <2>1, <2>2
<1>14. ASSUME ~overlap PROVE OneRowEach' /\ Undisturbed(e)'
  <2>1. OneRowEach /\ Undisturbed(e)
    BY <1>14 DEF ExploreInv, AloneInv
  <2>2. \A i \in DOMAIN elements' : elements'[i] =< 1
    BY <1>0, <1>13, <2>1 DEF OneRowEach
  <2>3. \A i, j \in DOMAIN page_rows' : page_rows'[i] = page_rows'[j] => i = j
    <3>1. CASE ex[e].row = 0
      <4>1. /\ DOMAIN page_rows' = 1 .. Len(page_rows) + 1 /\ Len(page_rows) \in Nat
            /\ DOMAIN page_rows = 1 .. Len(page_rows)
            /\ \A i \in 1 .. Len(page_rows) : page_rows'[i] = page_rows[i]
            /\ page_rows'[Len(page_rows) + 1] = url
        BY <1>0, <1>1, <3>1
      <4>2. \A i \in 1 .. Len(page_rows) : page_rows[i] # url
        BY <1>0, <1>u, <2>1, <3>1, <4>1 DEF Undisturbed, HasRow
      <4> QED BY <2>1, <4>1, <4>2 DEF OneRowEach
    <3>2. CASE ex[e].row # 0
      BY <1>1, <2>1, <3>2 DEF OneRowEach
    <3> QED BY <3>1, <3>2
  <2>4. Undisturbed(e)'
    BY <1>6, <1>7 DEF Undisturbed
  <2> QED BY <2>2, <2>3, <2>4 DEF OneRowEach
<1>15. Running(e)
  BY <1>0 DEF Running
<1> QED BY <1>0, <1>1, <1>5, <1>6, <1>8, <1>11, <1>13, <1>14, <1>15, TaskStep

(* A step that leaves the rows, the waiting and what is seen leaves the cover. *)
LEMMA CoverStays ==
  ASSUME ExploreInv, NEW e \in Explorers, Running(e), ex[e].pc # "save",
         UNCHANGED page_rows, ex'[e].queue = ex[e].queue, ex'[e].seen = ex[e].seen
  PROVE  Covered(e)'
<1>1. Covered(e) /\ ex[e].pc \notin {"waiting", "dead"}
  BY DEF ExploreInv, Running
<1>2. \A u : Ahead(u, e)' <=> Ahead(u, e)
  BY DEF Ahead
<1>3. \A u : HasRow(u)' <=> HasRow(u)
  BY DEF HasRow
<1> QED BY <1>1, <1>2, <1>3 DEF Covered

LEMMA ElementsStep ==
  ASSUME ExploreInv, NEW e \in Explorers, DeleteElements(e) \/ InsertElements(e)
  PROVE  ExploreInv'
<1> DEFINE i == ex[e].row
           n == IF ex[e].pc = "delete" THEN 0 ELSE elements[i] + 1
           next == IF ex[e].pc = "delete" THEN "insert" ELSE "walk"
           t == [ex[e] EXCEPT !.pc = next]
<1>0. /\ ex[e] \in Tasks /\ ex[e].pc \in {"delete", "insert"} /\ i \in DOMAIN page_rows
      /\ AtItsRow(e) /\ ex \in [Explorers -> Tasks] /\ elements \in [DOMAIN page_rows -> Nat]
      /\ page_rows \in Seq(Urls)
      /\ i \in 0 .. Len(page_rows) /\ Cardinality(ex[e].seen) =< MaxPages
  BY DEF ExploreInv, ExploreTypeOK, AtItsRow, DeleteElements, InsertElements
<1>1. /\ ex' = [ex EXCEPT ![e] = t] /\ elements' = [elements EXCEPT ![i] = n]
      /\ UNCHANGED <<page_rows, overlap>>
  BY DEF DeleteElements, InsertElements
<1>2. next \in {"insert", "walk"}
  OBVIOUS
<1>3. /\ t \in Tasks
      /\ t.pc = next /\ t.queue = ex[e].queue /\ t.seen = ex[e].seen /\ t.url = ex[e].url
      /\ t.row = i
  <2> HIDE DEF next
  <2> QED BY <1>0, <1>2 DEF Tasks
<1> HIDE DEF t
<1>4. ex'[e] = t
  BY <1>0, <1>1
<1>5. n \in Nat /\ elements' \in [DOMAIN page_rows' -> Nat]
  BY <1>0, <1>1
<1>6. AtItsRow(e)'
  BY <1>0, <1>1, <1>3, <1>4 DEF AtItsRow
<1>7. Running(e) /\ RowsGrow
  BY <1>0, <1>1, RowsStay DEF Running, ExploreInv
<1>8. Covered(e)'
  BY <1>0, <1>1, <1>3, <1>4, <1>7, CoverStays
<1>9. ASSUME ~overlap PROVE OneRowEach' /\ Undisturbed(e)'
  <2>1. OneRowEach /\ Undisturbed(e)
    BY <1>9 DEF ExploreInv, AloneInv
  <2>2. n =< 1 /\ (next = "insert" => n = 0)
    BY <1>0, <2>1 DEF Undisturbed
  <2>3. \A k \in DOMAIN elements' : elements'[k] =< 1
    BY <1>0, <1>1, <2>1, <2>2 DEF OneRowEach
  <2>4. Undisturbed(e)'
    BY <1>0, <1>1, <1>3, <1>4, <2>2 DEF Undisturbed
  <2> QED BY <1>1, <2>1, <2>3, <2>4 DEF OneRowEach
<1> QED BY <1>0, <1>1, <1>2, <1>3, <1>5, <1>6, <1>7, <1>8, <1>9, TaskStep

LEMMA EndStep ==
  ASSUME ExploreInv, NEW e \in Explorers, ExploreDone(e) \/ ExploreFails(e)
  PROVE  ExploreInv'
<1>0. /\ ex[e] \in Tasks /\ AtItsRow(e) /\ Covered(e) /\ ex \in [Explorers -> Tasks]
      /\ elements \in [DOMAIN page_rows -> Nat]
      /\ ex[e].row \in 0 .. Len(page_rows) /\ Cardinality(ex[e].seen) =< MaxPages
      /\ UNCHANGED <<page_rows, elements, overlap>> /\ Running(e)
  BY DEF ExploreInv, ExploreTypeOK, ExploreDone, ExploreFails, Running
<1>1. PICK next \in {"done", "dead"} :
        /\ ex' = [ex EXCEPT ![e] = [ex[e] EXCEPT !.pc = next]]
        /\ next = "done" => ex[e].pc = "walk" /\ ~Walking(e)
  BY DEF ExploreDone, ExploreFails
<1> DEFINE t == [ex[e] EXCEPT !.pc = next]
<1>2. /\ t \in Tasks
      /\ t.pc = next /\ t.queue = ex[e].queue /\ t.seen = ex[e].seen /\ t.url = ex[e].url
      /\ t.row = ex[e].row
  BY <1>0 DEF Tasks
<1>3. ex'[e] = t
  BY <1>0, <1>1
<1>4. ex' = [ex EXCEPT ![e] = t]
  BY <1>1
<1> HIDE DEF t
<1>5. next = "done" => ex[e].queue = <<>> \/ Cardinality(ex[e].seen) >= MaxPages
  <2>1. Cardinality(ex[e].seen) \in Nat /\ MaxPages \in Nat
    BY <1>0, FS_CardinalityType, SiteAssumption DEF AtItsRow
  <2> QED BY <1>1, <2>1 DEF Walking
<1>6. AtItsRow(e)'
  BY <1>0, <1>2, <1>3, <1>5 DEF AtItsRow
<1>7. Covered(e)'
  <2>1. CASE next = "dead"
    BY <1>2, <1>3, <2>1 DEF Covered
  <2>2. CASE next = "done"
    BY <1>0, <1>1, <1>2, <1>3, <2>2, CoverStays
  <2> QED BY <2>1, <2>2
<1>8. RowsGrow
  BY <1>0, RowsStay DEF ExploreInv
<1>9. ~overlap => OneRowEach' /\ Undisturbed(e)'
  BY <1>0, <1>2, <1>3 DEF ExploreInv, AloneInv, OneRowEach, Undisturbed
<1> QED BY <1>0, <1>2, <1>4, <1>6, <1>7, <1>8, <1>9, TaskStep

LEMMA ExploreStep ==
  ASSUME ExploreInv, [ExploreNext]_xvars
  PROVE  ExploreInv'
<1>1. CASE ExploreNext
  BY <1>1, StartExploreStep, SkipUrlStep, FetchPageStep, SavePageStep, ElementsStep, EndStep
  DEF ExploreNext, ExploreApp
<1>2. CASE UNCHANGED xvars
  <2> USE <1>2 DEF xvars
  <2>1. ExploreTypeOK'
    BY DEF ExploreInv, ExploreTypeOK
  <2>2. \A e \in Explorers : AtItsRow(e)' /\ Covered(e)'
    BY <2>1, OthersStay, RowsStay DEF ExploreInv
  <2>3. AloneInv'
    BY DEF ExploreInv, AloneInv, OneRowEach, Undisturbed, HasRow, Running
  <2> QED BY <2>1, <2>2, <2>3 DEF ExploreInv
<1> QED BY <1>1, <1>2

(***************************************************************************)
(* Theorems about the exploration of the legacy application                *)
(***************************************************************************)

(* The invariant holds in every reachable state, for any number of tasks. *)
THEOREM ExploreInvariance == ExploreSpec => []ExploreInv
<1>1. ExploreInit => ExploreInv
  BY ExploreInitially
<1>2. ExploreInv /\ [ExploreNext]_xvars => ExploreInv'
  BY ExploreStep
<1> QED BY <1>1, <1>2, PTL DEF ExploreSpec

(* Exploring an application again leaves one row per URL, and its elements once,  *)
(* at most, as long as no two tasks ran at once; and a task that ended below its  *)
(* limit has a row for every page that can be reached, unless base_url is refused. *)
THEOREM ExploringAgain == ExploreSpec => []RescanReplaces
<1>1. ExploreInv => RescanReplaces
  <2> SUFFICES ASSUME ExploreInv
               PROVE  RescanReplaces
    OBVIOUS
  <2>1. ~overlap => OneRowEach
    BY DEF ExploreInv, AloneInv
  <2>2. ASSUME NEW e \in Explorers, ex[e].pc = "done", Cardinality(ex[e].seen) < MaxPages
        PROVE  /\ Base \in ex[e].seen \cup Foreign
               /\ \A u \in ex[e].seen :
                    /\ HasRow(u)
                    /\ \A k \in DOMAIN Links[u] : Links[u][k] \in ex[e].seen \cup Foreign
    <3>1. AtItsRow(e) /\ Covered(e)
      BY DEF ExploreInv
    <3>2. Cardinality(ex[e].seen) \in Nat /\ MaxPages \in Nat
      BY <3>1, FS_CardinalityType, SiteAssumption DEF AtItsRow
    <3>3. ex[e].queue = <<>>
      BY <2>2, <3>1, <3>2 DEF AtItsRow
    <3>4. \A u : Ahead(u, e) => u \in ex[e].seen
      BY <3>3 DEF Ahead
    <3> QED BY <2>2, <3>1, <3>4 DEF Covered
  <2> QED BY <2>1, <2>2 DEF RescanReplaces
<1> QED BY <1>1, ExploreInvariance, PTL
=============================================================================
