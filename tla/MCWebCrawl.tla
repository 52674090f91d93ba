----------------------------- MODULE MCWebCrawl -----------------------------
(* A small site for WebCrawl: home is also where the login form is, form   *)
(* redirects to list, away belongs to another origin and skip matches an   *)
(* exclude pattern.                                                        *)
EXTENDS WebCrawl

CONSTANTS home, list, form, away, skip

MCUrls == {home, list, form, away, skip}
MCOrigin == MCUrls \ {away}
MCPatterned == MCUrls \ {skip}
MCRedirects == {<<form, list>>}

\* At most three anchors; two of them in any order, or next to the excluded one.
MCAnchors ==
  {<<>>, <<away>>, <<skip, form>>, <<list, form, list>>} \cup
  {<<u, v>> : u, v \in {home, list, form}}
=============================================================================
