------------------------------- MODULE Lists --------------------------------
(* A list filtered by its members, as the crawlers of the KAATS backend       *)
(* (CrawlBase) and of the legacy application (AppExplore) filter what they     *)
(* find on a page.                                                             *)
EXTENDS Naturals, Sequences

\* Of a list, what is not in S, in order: the links or tiles a crawler goes on with.
Outside(found, S) ==
  LET f[n \in 0 .. Len(found)] ==
        IF n = 0 THEN <<>>
        ELSE IF found[n] \in S THEN f[n - 1] ELSE Append(f[n - 1], found[n])
  IN  f[Len(found)]
=============================================================================
