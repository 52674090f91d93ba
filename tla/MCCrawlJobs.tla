---------------------------- MODULE MCCrawlJobs -----------------------------
(* Small instances of CrawlJobs for TLC.                                    *)
EXTENDS CrawlJobs
=============================================================================
