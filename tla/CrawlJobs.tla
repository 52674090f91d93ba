----------------------------- MODULE CrawlJobs ------------------------------
(***************************************************************************)
(* Crawl jobs of the KAATS backend, from the request (CrawlerService) over *)
(* the topic crawl-jobs to a worker replica (JobWorker._handle_crawl_job). *)
(* A crawl itself, the subject of WebCrawl and SapCrawl, is here what it   *)
(* leaves behind: the pages found, saved to SQL in the middle and at the   *)
(* end, and the exception it may end with.                                 *)
(*                                                                         *)
(* The request publishes before its row is committed.  The worker keeps    *)
(* its status in table jobs, where a crawl job has no row: the updates do  *)
(* nothing, and the row in crawl_jobs stays as the API left it.            *)
(***************************************************************************)
EXTENDS Naturals, FiniteSets

CONSTANTS
  Jobs, Workers,
  Pages,        \* what the sites have
  MaxDelivery,  \* of the subscription
  None

ASSUME DeliveryAssumption == MaxDelivery \in Nat \ {0}
ASSUME NoneAssumption == None \notin Jobs

VARIABLES
  row,    \* crawl_jobs: the status of each job; "OPEN" before the commit
  msg,    \* the message of each job: [state, count of deliveries, generate_scripts]
  wk,     \* the worker replicas: [pc, job, lock, found]
  rows,   \* crawl_pages: the pages of a job that have a row, or several
  maps,   \* Cosmos DB: the pages of the document crawl-{job_id}
  lost    \* history: the pages of a job that a save failed for

stores == <<rows, maps, lost>>
vars == <<row, msg, wk, rows, maps, lost>>

Listening == [pc |-> "listening", job |-> None, lock |-> 0, found |-> {}]

Init ==
  /\ row = [j \in Jobs |-> "ABSENT"]
  /\ msg = [j \in Jobs |-> [state |-> "none", count |-> 0, generate_scripts |-> FALSE]]
  /\ wk = [w \in Workers |-> Listening]
  /\ rows = [j \in Jobs |-> {}]
  /\ maps = [j \in Jobs |-> None]
  /\ lost = [j \in Jobs |-> {}]

-----------------------------------------------------------------------------
(* The API *)

\* The row is flushed and the message published in the request's transaction.
\* The 422 answers for a missing URL change nothing and are left out.
StartCrawlJob(j, generate) ==
  /\ row[j] = "ABSENT" /\ msg[j].state = "none"
  /\ row' = [row EXCEPT ![j] = "OPEN"]
  /\ msg' = [msg EXCEPT ![j] = [state |-> "ready", count |-> 0, generate_scripts |-> generate]]
  /\ UNCHANGED <<wk, stores>>

CommitRequest(j) ==
  /\ row[j] = "OPEN"
  /\ row' = [row EXCEPT ![j] = "PENDING"]
  /\ UNCHANGED <<msg, wk, stores>>

\* The commit fails: the row is gone, the message is not.
AbortRequest(j) ==
  /\ row[j] = "OPEN"
  /\ row' = [row EXCEPT ![j] = "ABSENT"]
  /\ UNCHANGED <<msg, wk, stores>>

\* Only PENDING and PROCESSING may be cancelled; the worker is not told.
CancelJob(j) ==
  /\ row[j] \in {"PENDING", "PROCESSING"}
  /\ row' = [row EXCEPT ![j] = "CANCELLED"]
  /\ UNCHANGED <<msg, wk, stores>>

Committed(j) == row[j] \in {"PENDING", "CANCELLED"}

-----------------------------------------------------------------------------
(* The worker *)

HoldsLock(w) == msg[wk[w].job].state = "locked" /\ msg[wk[w].job].count = wk[w].lock

\* The handler's first update finds no row in table jobs.
HandleCrawlJob(w, j) ==
  /\ wk[w].pc = "listening"
  /\ msg[j].state = "ready"
  /\ msg' = [msg EXCEPT ![j].state = "locked", ![j].count = @ + 1]
  /\ wk' = [wk EXCEPT ![w] = [pc |-> "crawl", job |-> j, lock |-> msg[j].count + 1, found |-> {}]]
  /\ UNCHANGED <<row, stores>>

\* The pages found so far are saved once more, each in a session of its own.  A save
\* that fails is only logged; without the job's row the foreign key fails them all.
SavePages(j, found) ==
  \E saved \in SUBSET found :
    /\ ~Committed(j) => saved = {}
    /\ rows' = [rows EXCEPT ![j] = @ \cup saved]
    /\ lost' = [lost EXCEPT ![j] = @ \cup (found \ saved)]

PersistBatch(w) ==
  /\ wk[w].pc = "crawl"
  /\ \E found \in (SUBSET Pages) \ {{}} :
       /\ SavePages(wk[w].job, found)
       /\ wk' = [wk EXCEPT ![w].pc = "crawling", ![w].found = found]
  /\ UNCHANGED <<row, msg, maps>>

\* Mutant: the pages after the last batch are not saved.
RunCrawler_NoSave(w) ==
  /\ wk[w].pc \in {"crawl", "crawling"}
  /\ \E found \in SUBSET Pages :
       /\ wk[w].found \subseteq found
       /\ wk' = [wk EXCEPT ![w].pc = "store", ![w].found = found]
  /\ UNCHANGED <<row, msg, stores>>

RunCrawler(w) ==
  /\ wk[w].pc \in {"crawl", "crawling"}
  /\ \E found \in SUBSET Pages :
       /\ wk[w].found \subseteq found
       /\ SavePages(wk[w].job, found)
       /\ wk' = [wk EXCEPT ![w].pc = "store", ![w].found = found]
  /\ UNCHANGED <<row, msg, maps>>

StoreCrawlMap(w) ==
  /\ wk[w].pc = "store"
  /\ maps' = [maps EXCEPT ![wk[w].job] = wk[w].found]
  /\ wk' = [wk EXCEPT ![w].pc = "scripts"]
  /\ UNCHANGED <<row, msg, rows, lost>>

WantsScripts(w) == msg[wk[w].job].generate_scripts /\ wk[w].found # {}

\* No scripts are asked for, or there is no flow to write them for.
SkipScripts(w) ==
  /\ wk[w].pc = "scripts"
  /\ ~WantsScripts(w)
  /\ wk' = [wk EXCEPT ![w].pc = "ack"]
  /\ UNCHANGED <<row, msg, stores>>

\* _generate_scripts_from_crawl: the message names no project, uuid.UUID("") raises.
GenerateScripts(w) ==
  /\ wk[w].pc = "scripts"
  /\ WantsScripts(w)
  /\ wk' = [wk EXCEPT ![w].pc = "nack"]
  /\ UNCHANGED <<row, msg, stores>>

\* The browser, the crawler, the store or the update to COMPLETED raises; the update
\* to FAILED finds no row.
Raise(w) ==
  /\ wk[w].pc \in {"crawl", "crawling", "store", "scripts"}
  /\ wk' = [wk EXCEPT ![w].pc = "nack"]
  /\ UNCHANGED <<row, msg, stores>>

\* A call to the page that has no timeout does not return (title, evaluate, content).
BrowserHangs(w) ==
  /\ wk[w].pc \in {"crawl", "crawling"}
  /\ wk' = [wk EXCEPT ![w].pc = "hung"]
  /\ UNCHANGED <<row, msg, stores>>

\* complete_message or dead_letter_message settles under the lock.  Without it,
\* completing raises and the message is to be dead-lettered; dead-lettering
\* raises and the consumer ends, until the platform starts the replica again.
CompleteMessage(w) ==
  /\ wk[w].pc = "ack"
  /\ IF HoldsLock(w)
       THEN /\ msg' = [msg EXCEPT ![wk[w].job].state = "done"]
            /\ wk' = [wk EXCEPT ![w] = Listening]
       ELSE /\ wk' = [wk EXCEPT ![w].pc = "nack"]
            /\ UNCHANGED msg
  /\ UNCHANGED <<row, stores>>

\* Mutant: the message is abandoned and the delivery not counted.
DeadLetterMessage_Abandon(w) ==
  /\ wk[w].pc = "nack"
  /\ IF HoldsLock(w) THEN msg' = [msg EXCEPT ![wk[w].job].state = "ready", ![wk[w].job].count = @ - 1]
                     ELSE UNCHANGED msg
  /\ wk' = [wk EXCEPT ![w] = Listening]
  /\ UNCHANGED <<row, stores>>

DeadLetterMessage(w) ==
  /\ wk[w].pc = "nack"
  /\ IF HoldsLock(w) THEN msg' = [msg EXCEPT ![wk[w].job].state = "dead"] ELSE UNCHANGED msg
  /\ wk' = [wk EXCEPT ![w] = Listening]
  /\ UNCHANGED <<row, stores>>

Crash(w) ==
  /\ wk[w].pc # "listening"
  /\ wk' = [wk EXCEPT ![w] = Listening]
  /\ UNCHANGED <<row, msg, stores>>

\* A lock is never renewed: it also runs out under a crawl that takes its time.
LockExpires(j) ==
  /\ msg[j].state = "locked"
  /\ msg' = [msg EXCEPT ![j].state = IF msg[j].count >= MaxDelivery THEN "dead" ELSE "ready"]
  /\ UNCHANGED <<row, wk, stores>>

-----------------------------------------------------------------------------

Handle(w) ==
  \/ PersistBatch(w) \/ RunCrawler(w) \/ StoreCrawlMap(w)
  \/ SkipScripts(w) \/ GenerateScripts(w) \/ Raise(w)
  \/ CompleteMessage(w) \/ DeadLetterMessage(w)

Take(w) == \E j \in Jobs : HandleCrawlJob(w, j)

Next ==
  \/ \E j \in Jobs : \/ \E generate \in BOOLEAN : StartCrawlJob(j, generate)
                     \/ CommitRequest(j) \/ AbortRequest(j) \/ CancelJob(j)
                     \/ LockExpires(j)
  \/ \E w \in Workers : Take(w) \/ Handle(w) \/ BrowserHangs(w) \/ Crash(w)

\* Each call of the handler returns or raises, unless the browser hangs, the receiver
\* hands out what is ready and the broker releases locks.
Spec ==
  /\ Init /\ [][Next]_vars
  /\ \A w \in Workers : WF_vars(Take(w)) /\ WF_vars(Handle(w))
  /\ \A j \in Jobs : WF_vars(LockExpires(j))

TypeOK ==
  /\ row \in [Jobs -> {"ABSENT", "OPEN", "PENDING", "CANCELLED"}]
  /\ msg \in [Jobs -> [state : {"none", "ready", "locked", "done", "dead"},
                       count : 0 .. MaxDelivery, generate_scripts : BOOLEAN]]
  /\ wk \in [Workers -> [pc : {"listening", "crawl", "crawling", "store", "scripts", "ack", "nack", "hung"},
                         job : Jobs \cup {None}, lock : 0 .. MaxDelivery, found : SUBSET Pages]]
  /\ rows \in [Jobs -> SUBSET Pages]
  /\ maps \in [Jobs -> (SUBSET Pages) \cup {None}]
  /\ lost \in [Jobs -> SUBSET Pages]

\* The crawl map and the page rows live in two stores, and several replicas may
\* crawl for one job: a page the map lists is in SQL all the same, or a save of this
\* page was tried and failed.
MapBackedByRows ==
  \A j \in Jobs : maps[j] # None =>
    maps[j] \subseteq rows[j] \cup lost[j]

\* Every published message is acknowledged or dead-lettered in the end, through
\* crashes, exceptions, lost locks and replicas that hang, unless all of them hang.
CrawlSettles ==
  \A j \in Jobs : (msg[j].state = "ready") ~>
    (msg[j].state \in {"done", "dead"} \/ \A w \in Workers : wk[w].pc = "hung")

\* How often a message can still move: in and out of each delivery it has left.
MovesLeft(m) ==
  2 * (MaxDelivery - m.count) + (IF m.state \in {"none", "locked"} THEN 1 ELSE 0)

\* Why CrawlSettles holds while a replica listens: whatever moves a message, a lock that
\* runs out included, uses up one of a bounded number of moves, and one that has none
\* left is settled.
MessageAdvances ==
  [][\A j \in Jobs :
       msg'[j] # msg[j] =>
         /\ MovesLeft(msg'[j]) \in 0 .. MovesLeft(msg[j]) - 1
         /\ msg[j].state \notin {"done", "dead"}
         /\ MovesLeft(msg'[j]) = 0 => msg'[j].state \in {"done", "dead"}]_vars

-----------------------------------------------------------------------------
(* The inductive invariant *)

\* A message that waits has a delivery left, one that was not sent has had none, and
\* only a delivery sets a worker off.
DeliveryInv ==
  /\ \A j \in Jobs : /\ msg[j].state = "ready" => msg[j].count < MaxDelivery
                     /\ msg[j].state = "none" => msg[j].count = 0
  /\ \A w \in Workers : wk[w].pc # "listening" => wk[w].job \in Jobs

\* Between the last batch and the map, what the worker is about to store is saved, or
\* its save failed.
FoundSaved ==
  \A w \in Workers : wk[w].pc = "store" =>
    wk[w].found \subseteq rows[wk[w].job] \cup lost[wk[w].job]

IInv == TypeOK /\ DeliveryInv /\ FoundSaved /\ MapBackedByRows
=============================================================================
