-------------------------------- MODULE Site --------------------------------
(* What a crawler walks over, for CrawlBase and AppExplore.                    *)
EXTENDS Lists

CONSTANT Urls  \* the URLs of the site and of what it links to, normalised
=============================================================================
