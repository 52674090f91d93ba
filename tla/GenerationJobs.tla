--------------------------- MODULE GenerationJobs ---------------------------
(***************************************************************************)
(* The AI generation pipeline of the KAATS backend: an API request creates *)
(* a row of table jobs and publishes a message; a worker replica receives  *)
(* the message under a Service Bus peek-lock, runs the per-requirement     *)
(* pipeline of JobWorker._handle_ai_job and settles the message.           *)
(*                                                                         *)
(* Each step of a worker is one transaction or one call to another store,  *)
(* so a crash, an exception or another actor can come between any two.     *)
(* The AI calls touch no shared state: their outcome is the choice between *)
(* SkipRequirement, GenerateScripts and Raise.                             *)
(*                                                                         *)
(* The documents are also reviewed (ScriptReview) and deleted.  A review   *)
(* replaces a document by a changed copy that is for the same requirement; *)
(* between two requirements that share an id's prefix it may be for the    *)
(* other one, which is left out.                                           *)
(***************************************************************************)
EXTENDS Naturals, FiniteSets

CONSTANTS
  GenJobs,      \* jobs requested by POST .../generation-jobs
  TriggerJobs,  \* jobs requested by POST .../requirements/{id}/generate-scripts
  Reqs,         \* the requirements
  Deletable,    \* those of them a client may delete
  Erasable,     \* those whose documents a client may delete
  Requested,    \* requirement_ids of each job's input_payload
  Prefix,       \* req_id[:8], the part of a requirement id a document id keeps
  Workers,      \* worker replicas
  None,
  Gone,         \* a document that a client has deleted
  MaxDelivery,  \* maxDeliveryCount of the subscription
  EnumColumns,  \* do enum columns load as enum members (String(20): no)
  EnforceFK,    \* does the database check foreign keys (SQL Server: yes)
  Faults        \* the failures the environment may cause

Jobs == GenJobs \cup TriggerJobs

ASSUME JobsAssumption ==
  /\ Deletable \subseteq Reqs
  /\ Erasable \subseteq Reqs
  /\ Requested \in [Jobs -> SUBSET Reqs]
ASSUME DeliveryAssumption == MaxDelivery \in Nat \ {0}
ASSUME FaultsAssumption == Faults \subseteq {"exception", "crash", "lockloss", "shutdown"}

VARIABLES
  api,         \* the request that creates each job
  cancelling,  \* jobs a DELETE request has found cancellable, not yet committed
  row,         \* table jobs: [status, result] of each job's committed row
  msg,         \* the broker: [state, count] of each job's message
  wk,          \* the worker replicas
  docs,        \* Cosmos DB: the requirement each test_script document is for;
               \* history: None only as long as there was no document
  index,       \* Cosmos DB: the document ids each generation_result lists
  scripts,     \* table test_scripts: a row per job, requirement and attempt
  present,     \* table requirements: the requirements that have a row
  marked       \* requirements the pipeline has set to PROCESSED

vars == <<api, cancelling, row, msg, wk, docs, index, scripts, present, marked>>
artifacts == <<docs, index, scripts, present, marked>>

(***************************************************************************)
(* Values                                                                  *)
(***************************************************************************)

Statuses == {"ABSENT", "PENDING", "PROCESSING", "COMPLETED", "FAILED", "CANCELLED"}

\* Mutant: the id leaves the requirement out.
DocId_JobOnly(j, r) == <<j, None>>

\* f"ts-gen-{job_id}-{req_id[:8]}"
DocId(j, r) == <<j, Prefix[r]>>
DocIds == {DocId(j, r) : j \in Jobs, r \in Reqs}

ASSUME NoneAssumption ==
  /\ None \notin Jobs \cup Reqs
  /\ Gone \notin Reqs \cup {None}
  /\ \A ids \in SUBSET DocIds : None # ids

\* Where _handle_ai_job's try block is when it can raise.
InTry == {"load", "empty", "gen", "store", "row", "mark", "finish"}
Handling == InTry \cup {"claimed", "failing", "ack", "nack"}

Fresh == [pc |-> "listening", term |-> FALSE, job |-> None, lock |-> 0,
          todo |-> {}, cur |-> None, stored |-> {}]

Committed(j) == row[j].status # "ABSENT"

\* A lock is one delivery: it is lost once the broker has given the message
\* up or handed it out again.
HoldsLock(w) ==
  LET m == msg[wk[w].job]
  IN  m.state = "locked" /\ m.count = wk[w].lock

Init ==
  /\ api = [j \in Jobs |-> "new"]
  /\ cancelling = {}
  /\ row = [j \in Jobs |-> [status |-> "ABSENT", result |-> FALSE]]
  /\ msg = [j \in Jobs |-> [state |-> "none", count |-> 0]]
  /\ wk = [w \in Workers |-> Fresh]
  /\ docs = [d \in DocIds |-> None]
  /\ index = [j \in Jobs |-> None]
  /\ scripts = {}
  /\ present = Reqs
  /\ marked = {}

(***************************************************************************)
(* The API process.  The row is only flushed when the message is sent: the *)
(* commit comes after the handler returns (get_tenant_db), and may fail.   *)
(***************************************************************************)

\* AIGenerationService.create_generation_job.  A send that raises rolls the
\* request back, whether or not the broker took the message.
CreateGenerationJob(j) ==
  /\ j \in GenJobs
  /\ api[j] = "new"
  /\ \E sent, raised \in BOOLEAN :
        /\ sent \/ raised
        /\ raised => "exception" \in Faults
        /\ api' = [api EXCEPT ![j] = IF raised THEN "rolledback" ELSE "flushed"]
        /\ msg' = IF sent THEN [msg EXCEPT ![j].state = "ready"] ELSE msg
  /\ UNCHANGED <<cancelling, row, wk, artifacts>>

\* RequirementService.trigger_generate_scripts.  It passes publish_ai_job an
\* argument that function does not have; the TypeError is swallowed, so the
\* request goes on without a message.
TriggerGenerateScripts(j) ==
  /\ j \in TriggerJobs
  /\ api[j] = "new"
  /\ Requested[j] \subseteq present \ marked
  /\ api' = [api EXCEPT ![j] = "flushed"]
  /\ UNCHANGED <<cancelling, row, msg, wk, artifacts>>

CommitRequest(j) ==
  /\ api[j] = "flushed"
  /\ api' = [api EXCEPT ![j] = "committed"]
  /\ row' = [row EXCEPT ![j].status = "PENDING"]
  /\ UNCHANGED <<cancelling, msg, wk, artifacts>>

AbortRequest(j) ==
  /\ "exception" \in Faults
  /\ api[j] = "flushed"
  /\ api' = [api EXCEPT ![j] = "rolledback"]
  /\ UNCHANGED <<cancelling, row, msg, wk, artifacts>>

\* AIGenerationService.cancel_job reads the status in one statement and
\* writes CANCELLED when its transaction ends.
CancelCheck(j) ==
  /\ row[j].status \in {"PENDING", "PROCESSING"}
  /\ cancelling' = cancelling \cup {j}
  /\ UNCHANGED <<api, row, msg, wk, artifacts>>

CancelCommit(j) ==
  /\ j \in cancelling
  /\ cancelling' = cancelling \ {j}
  /\ row' = [row EXCEPT ![j].status = "CANCELLED"]
  /\ UNCHANGED <<api, msg, wk, artifacts>>

CancelRollback(j) ==
  /\ j \in cancelling
  /\ cancelling' = cancelling \ {j}
  /\ UNCHANGED <<api, row, msg, wk, artifacts>>

\* RequirementService.delete_requirement.  With a script row it fails: the ORM
\* sets that row's requirement_id to NULL, which the column does not allow.
DeleteRequirement(r) ==
  /\ r \in present \cap Deletable
  /\ \A s \in scripts : s.req # r
  /\ present' = present \ {r}
  /\ UNCHANGED <<api, cancelling, row, msg, wk, docs, index, scripts, marked>>

\* TestScriptService.delete_script.  Rows and indexes that name the document stay.
DeleteScript(j, r) ==
  /\ r \in Erasable
  /\ docs[DocId(j, r)] \notin {None, Gone}
  /\ docs' = [docs EXCEPT ![DocId(j, r)] = Gone]
  /\ UNCHANGED <<api, cancelling, row, msg, wk, index, scripts, present, marked>>

(***************************************************************************)
(* The consumer of the ai-jobs topic (JobWorker._consume_topic)            *)
(***************************************************************************)

Receive(w, j) ==
  /\ wk[w].pc = "listening"
  /\ ~wk[w].term
  /\ msg[j].state = "ready"
  /\ msg' = [msg EXCEPT ![j] = [state |-> "locked", count |-> @.count + 1]]
  /\ wk' = [wk EXCEPT ![w].pc = "claimed", ![w].job = j,
                      ![w].lock = msg[j].count + 1, ![w].stored = {}]
  /\ UNCHANGED <<api, cancelling, row, artifacts>>

\* Mutant: the delivery is not counted.
Abandon_Uncounted(w, j) ==
  /\ wk[w].pc = "listening" /\ wk[w].term /\ msg[j].state = "ready"
  /\ wk' = [wk EXCEPT ![w].pc = "stopped"]
  /\ UNCHANGED <<api, cancelling, row, msg, artifacts>>

\* A message that arrives after SIGTERM goes back to the subscription, which
\* counts the delivery, and the loop ends.
Abandon(w, j) ==
  /\ wk[w].pc = "listening"
  /\ wk[w].term
  /\ msg[j].state = "ready"
  /\ msg' = [msg EXCEPT ![j] =
               [state |-> IF @.count + 1 >= MaxDelivery THEN "dead" ELSE "ready",
                count |-> @.count + 1]]
  /\ wk' = [wk EXCEPT ![w].pc = "stopped"]
  /\ UNCHANGED <<api, cancelling, row, artifacts>>

\* The handler returned: complete_message, which raises if the lock is lost.
CompleteMessage(w) ==
  /\ wk[w].pc = "ack"
  /\ IF HoldsLock(w)
       THEN /\ msg' = [msg EXCEPT ![wk[w].job].state = "done"]
            /\ wk' = [wk EXCEPT ![w].pc = "listening", ![w].job = None]
       ELSE /\ wk' = [wk EXCEPT ![w].pc = "nack"]
            /\ UNCHANGED msg
  /\ UNCHANGED <<api, cancelling, row, artifacts>>

\* The handler or complete_message raised: dead_letter_message.  If that
\* raises too, the exception ends the consumer (gather keeps it).
DeadLetterMessage(w) ==
  /\ wk[w].pc = "nack"
  /\ IF HoldsLock(w)
       THEN /\ msg' = [msg EXCEPT ![wk[w].job].state = "dead"]
            /\ wk' = [wk EXCEPT ![w].pc = "listening", ![w].job = None]
       ELSE /\ wk' = [wk EXCEPT ![w].pc = "stopped", ![w].job = None]
            /\ UNCHANGED msg
  /\ UNCHANGED <<api, cancelling, row, artifacts>>

\* max_wait_time=5: the receiver's iterator ends when no message is waiting.
IdleExit(w) ==
  /\ wk[w].pc = "listening"
  /\ \A j \in Jobs : msg[j].state # "ready"
  /\ wk' = [wk EXCEPT ![w].pc = "stopped"]
  /\ UNCHANGED <<api, cancelling, row, msg, artifacts>>

Sigterm(w) ==
  /\ "shutdown" \in Faults
  /\ wk[w].pc # "stopped"
  /\ ~wk[w].term
  /\ wk' = [wk EXCEPT ![w].term = TRUE]
  /\ UNCHANGED <<api, cancelling, row, msg, artifacts>>

(***************************************************************************)
(* The handler (JobWorker._handle_ai_job)                                  *)
(***************************************************************************)

\* Mutant: every update writes the result pointer.
UpdateJobStatus_Overwrite(j, status, result) ==
  row' = IF Committed(j)
           THEN [row EXCEPT ![j] = [status |-> status, result |-> result]]
           ELSE row

\* _update_job_status: no row, no effect; a result pointer is only ever set.
UpdateJobStatus(j, status, result) ==
  row' = IF Committed(j)
           THEN [row EXCEPT ![j] = [status |-> status,
                                    result |-> @.result \/ result]]
           ELSE row

StartProcessing(w) ==
  /\ wk[w].pc = "claimed"
  /\ UpdateJobStatus(wk[w].job, "PROCESSING", FALSE)
  /\ wk' = [wk EXCEPT ![w].pc = "load"]
  /\ UNCHANGED <<api, cancelling, msg, artifacts>>

\* Mutant: the row is not needed.
LoadJob_Unchecked(w) ==
  /\ wk[w].pc = "load"
  /\ wk' = [wk EXCEPT ![w].pc = "gen", ![w].todo = Requested[wk[w].job] \cap present]
  /\ UNCHANGED <<api, cancelling, row, msg, artifacts>>

\* A missing row surfaces as job.input_payload on None, a column that loads as
\* text as project.system_type.value on a str.
LoadJob(w) ==
  LET found == Requested[wk[w].job] \cap present
  IN  /\ wk[w].pc = "load"
      /\ wk' = IF ~(Committed(wk[w].job) /\ EnumColumns)
                 THEN [wk EXCEPT ![w].pc = "failing"]
               ELSE IF found = {} THEN [wk EXCEPT ![w].pc = "empty"]
               ELSE [wk EXCEPT ![w].pc = "gen", ![w].todo = found]
      /\ UNCHANGED <<api, cancelling, row, msg, artifacts>>

FailEmptyJob(w) ==
  /\ wk[w].pc = "empty"
  /\ UpdateJobStatus(wk[w].job, "FAILED", FALSE)
  /\ wk' = [wk EXCEPT ![w].pc = "ack"]
  /\ UNCHANGED <<api, cancelling, msg, artifacts>>

\* UNTESTABLE, no test cases, or no format produced a script.
SkipRequirement(w) ==
  /\ wk[w].pc = "gen"
  /\ \E r \in wk[w].todo : wk' = [wk EXCEPT ![w].todo = @ \ {r}]
  /\ UNCHANGED <<api, cancelling, row, msg, artifacts>>

GenerateScripts(w) ==
  /\ wk[w].pc = "gen"
  /\ \E r \in wk[w].todo :
        wk' = [wk EXCEPT ![w].pc = "store", ![w].cur = r, ![w].todo = @ \ {r}]
  /\ UNCHANGED <<api, cancelling, row, msg, artifacts>>

\* Mutant: a failed upsert is only logged.
StoreTestScript_Swallow(w) ==
  LET d == DocId(wk[w].job, wk[w].cur)
  IN  /\ wk[w].pc = "store"
      /\ docs' \in {docs, [docs EXCEPT ![d] = wk[w].cur]}
      /\ wk' = [wk EXCEPT ![w].pc = "row", ![w].stored = @ \cup {d}]
      /\ UNCHANGED <<api, cancelling, row, msg, index, scripts, present, marked>>

\* upsert_item replaces whatever document has the id.
StoreTestScript(w) ==
  LET d == DocId(wk[w].job, wk[w].cur)
  IN  /\ wk[w].pc = "store"
      /\ docs' = [docs EXCEPT ![d] = wk[w].cur]
      /\ wk' = [wk EXCEPT ![w].pc = "row", ![w].stored = @ \cup {d}]
      /\ UNCHANGED <<api, cancelling, row, msg, index, scripts, present, marked>>

\* Mutants: a failed insert is only logged; the transaction is retried after a
\* commit whose reply was lost.
CreateTestScriptRow_Swallow(w) ==
  /\ wk[w].pc = "row"
  /\ wk' = [wk EXCEPT ![w].pc = "mark"]
  /\ UNCHANGED <<api, cancelling, row, msg, artifacts>>

CreateTestScriptRow_Retry(w) ==
  /\ wk[w].pc = "row"
  /\ scripts' = scripts \cup {[job |-> wk[w].job, req |-> wk[w].cur, attempt |-> wk[w].lock]}
  /\ \E next \in {"mark", "row"} : wk' = [wk EXCEPT ![w].pc = next]
  /\ UNCHANGED <<api, cancelling, row, msg, docs, index, present, marked>>

\* The row's created_by is the job's id, which is the id of no user.
CreateTestScriptRow(w) ==
  /\ wk[w].pc = "row"
  /\ IF EnforceFK
       THEN /\ wk' = [wk EXCEPT ![w].pc = "failing"]
            /\ UNCHANGED scripts
       ELSE /\ wk' = [wk EXCEPT ![w].pc = "mark"]
            /\ scripts' = scripts \cup {[job |-> wk[w].job, req |-> wk[w].cur,
                                         attempt |-> wk[w].lock]}
  /\ UNCHANGED <<api, cancelling, row, msg, docs, index, present, marked>>

\* Mutant: the requirement is worked on again.
MarkRequirementProcessed_Again(w) ==
  /\ wk[w].pc = "mark"
  /\ marked' = marked \cup {wk[w].cur}
  /\ wk' = [wk EXCEPT ![w].pc = "gen", ![w].todo = @ \cup {wk[w].cur}, ![w].cur = None]
  /\ UNCHANGED <<api, cancelling, row, msg, docs, index, scripts, present>>

MarkRequirementProcessed(w) ==
  /\ wk[w].pc = "mark"
  /\ marked' = marked \cup ({wk[w].cur} \cap present)
  /\ wk' = [wk EXCEPT ![w].pc = "gen", ![w].cur = None]
  /\ UNCHANGED <<api, cancelling, row, msg, docs, index, scripts, present>>

\* Mutant: no index when nothing was generated.
StoreIndex_NonEmpty(w) ==
  /\ wk[w].pc = "gen" /\ wk[w].todo = {}
  /\ index' = IF wk[w].stored = {} THEN index ELSE [index EXCEPT ![wk[w].job] = wk[w].stored]
  /\ wk' = [wk EXCEPT ![w].pc = "finish"]
  /\ UNCHANGED <<api, cancelling, row, msg, docs, scripts, present, marked>>

StoreIndex(w) ==
  /\ wk[w].pc = "gen"
  /\ wk[w].todo = {}
  /\ index' = [index EXCEPT ![wk[w].job] = wk[w].stored]
  /\ wk' = [wk EXCEPT ![w].pc = "finish"]
  /\ UNCHANGED <<api, cancelling, row, msg, docs, scripts, present, marked>>

\* A commit whose reply is lost has changed the row and raises all the same.
CompleteJob(w) ==
  /\ wk[w].pc = "finish"
  /\ UpdateJobStatus(wk[w].job, "COMPLETED", TRUE)
  /\ \E next \in {"ack"} \cup IF "exception" \in Faults THEN {"failing"} ELSE {} :
        wk' = [wk EXCEPT ![w].pc = next]
  /\ UNCHANGED <<api, cancelling, msg, artifacts>>

\* Mutant: the exception is not raised again.
FailJob_Return(w) ==
  /\ wk[w].pc = "failing"
  /\ UpdateJobStatus(wk[w].job, "FAILED", FALSE)
  /\ wk' = [wk EXCEPT ![w].pc = "ack", ![w].todo = {}, ![w].cur = None]
  /\ UNCHANGED <<api, cancelling, msg, artifacts>>

FailJob(w) ==
  /\ wk[w].pc = "failing"
  /\ UpdateJobStatus(wk[w].job, "FAILED", FALSE)
  /\ wk' = [wk EXCEPT ![w].pc = "nack", ![w].todo = {}, ![w].cur = None]
  /\ UNCHANGED <<api, cancelling, msg, artifacts>>

\* A call to SQL, Cosmos DB, Azure OpenAI or the broker raises.
Raise(w) ==
  /\ "exception" \in Faults
  /\ \/ /\ wk[w].pc \in InTry
        /\ wk' = [wk EXCEPT ![w].pc = "failing"]
     \/ /\ wk[w].pc \in {"claimed", "failing", "ack"}
        /\ wk' = [wk EXCEPT ![w].pc = "nack", ![w].todo = {}, ![w].cur = None]
     \/ /\ wk[w].pc = "nack"
        /\ wk' = [wk EXCEPT ![w].pc = "stopped", ![w].job = None]
  /\ UNCHANGED <<api, cancelling, row, msg, artifacts>>

(***************************************************************************)
(* The platform: processes die and are started again, locks run out        *)
(***************************************************************************)

Crash(w) ==
  /\ "crash" \in Faults
  /\ wk[w].pc \in Handling
  /\ wk' = [wk EXCEPT ![w] = [Fresh EXCEPT !.pc = "stopped"]]
  /\ UNCHANGED <<api, cancelling, row, msg, artifacts>>

Restart(w) ==
  /\ wk[w].pc = "stopped"
  /\ wk' = [wk EXCEPT ![w] = Fresh]
  /\ UNCHANGED <<api, cancelling, row, msg, artifacts>>

\* No renewal: a lock also runs out under a worker that is merely slow.
LockExpires(j) ==
  /\ msg[j].state = "locked"
  /\ \/ "lockloss" \in Faults
     \/ ~\E w \in Workers : wk[w].job = j /\ wk[w].lock = msg[j].count
  /\ msg' = [msg EXCEPT ![j].state = IF msg[j].count >= MaxDelivery THEN "dead" ELSE "ready"]
  /\ UNCHANGED <<api, cancelling, row, wk, artifacts>>

-----------------------------------------------------------------------------

Client(j) ==
  \/ CreateGenerationJob(j) \/ TriggerGenerateScripts(j)
  \/ CommitRequest(j) \/ AbortRequest(j)
  \/ CancelCheck(j) \/ CancelCommit(j) \/ CancelRollback(j)

Remove(r) == DeleteRequirement(r) \/ \E j \in Jobs : DeleteScript(j, r)

Take(w) == \E j \in Jobs : Receive(w, j) \/ Abandon(w, j)

Handle(w) ==
  \/ StartProcessing(w) \/ LoadJob(w) \/ FailEmptyJob(w)
  \/ SkipRequirement(w) \/ GenerateScripts(w)
  \/ StoreTestScript(w) \/ CreateTestScriptRow(w) \/ MarkRequirementProcessed(w)
  \/ StoreIndex(w) \/ CompleteJob(w) \/ FailJob(w) \/ Raise(w)
  \/ CompleteMessage(w) \/ DeadLetterMessage(w)

Platform(w) == IdleExit(w) \/ Sigterm(w) \/ Crash(w) \/ Restart(w)

Next ==
  \/ \E j \in Jobs : Client(j) \/ LockExpires(j)
  \/ \E r \in Reqs : Remove(r)
  \/ \E w \in Workers : Take(w) \/ Handle(w) \/ Platform(w)

Spec == Init /\ [][Next]_vars

\* Every call of the handler returns or raises; the receiver hands out what
\* is waiting; the broker releases locks; the platform restarts what exited.
Fairness ==
  /\ \A w \in Workers : WF_vars(Take(w)) /\ WF_vars(Handle(w)) /\ WF_vars(Restart(w))
  /\ \A j \in Jobs : WF_vars(LockExpires(j))

FairSpec == Spec /\ Fairness

(***************************************************************************)
(* Properties                                                              *)
(***************************************************************************)

PCs == Handling \cup {"listening", "stopped"}

WorkerStates ==
  [pc : PCs, term : BOOLEAN, job : Jobs \cup {None}, lock : 0 .. MaxDelivery,
   todo : SUBSET Reqs, cur : Reqs \cup {None}, stored : SUBSET DocIds]

\* Every variable keeps its type; the broker never counts more deliveries of
\* a message than the subscription allows.
TypeOK ==
  /\ api \in [Jobs -> {"new", "flushed", "committed", "rolledback"}]
  /\ cancelling \subseteq Jobs
  /\ row \in [Jobs -> [status : Statuses, result : BOOLEAN]]
  /\ msg \in [Jobs -> [state : {"none", "ready", "locked", "done", "dead"},
                       count : 0 .. MaxDelivery]]
  /\ wk \in [Workers -> WorkerStates]
  /\ docs \in [DocIds -> Reqs \cup {None, Gone}]
  /\ index \in [Jobs -> (SUBSET DocIds) \cup {None}]
  /\ scripts \subseteq [job : Jobs, req : Reqs, attempt : 1 .. MaxDelivery]
  /\ present \subseteq Reqs
  /\ marked \subseteq Reqs

\* The message can be handled before the request that sent it commits, or
\* after it rolled back: even then a job without a row leaves no document,
\* no result index and no script row behind.
NoOrphanArtifacts ==
  /\ \A j \in Jobs, r \in Reqs : docs[DocId(j, r)] # None => Committed(j)
  /\ \A j \in Jobs : index[j] # None => Committed(j)
  /\ \A s \in scripts : Committed(s.job)

\* A job a client sees COMPLETED has a result pointer, and a pointer leads to
\* an index document, whatever attempts, cancellations and crashes came since.
CompletedIsIndexed ==
  \A j \in Jobs :
    /\ row[j].status = "COMPLETED" => row[j].result
    /\ row[j].result => index[j] # None

\* The result index lists only documents that were stored, though attempts of
\* one job may overwrite each other's index; one that is missing was deleted by
\* a client (delete_script leaves the index alone).
IndexListsStored ==
  \A j \in Jobs : index[j] # None => \A d \in index[j] : docs[d] # None

\* A row of test_scripts points at a document of the row's own requirement, or at
\* one a client has deleted.  It needs document ids to be injective: two
\* requirements of a job with one prefix overwrite each other's document.
RowMatchesDocument ==
  \A s \in scripts : docs[DocId(s.job, s.req)] \in {s.req, Gone}

\* The pipeline marks a requirement PROCESSED (which makes the API answer
\* "Requirement already has generated scripts.") only once it has a script.
MarkedHasRow ==
  \A r \in marked : \E s \in scripts : s.req = r

\* A message is completed only for a job whose row exists and was worked on:
\* a handler that met no row must not acknowledge the message.
AckedJobIsStarted ==
  \A j \in Jobs : msg[j].state = "done" => row[j].status \notin {"ABSENT", "PENDING"}

\* One delivery of a job's message inserts at most one row per requirement,
\* so redelivery is the only source of duplicate scripts.
OneRowPerAttempt ==
  \A w \in Workers :
    wk[w].pc = "row" =>
      [job |-> wk[w].job, req |-> wk[w].cur, attempt |-> wk[w].lock] \notin scripts

\* Rows of table jobs behave as JobLifecycle promises the polling client.
Abs == INSTANCE JobLifecycle
         WITH status <- [j \in Jobs |-> row[j].status],
              result <- {j \in Jobs : row[j].result}

ImplementsJobLifecycle == Abs!Spec

\* A worker that took a message stops handling it: every path of the handler
\* reaches the settlement of the message or the end of the consumer.
HandlerEnds ==
  \A w \in Workers : wk[w].pc \in Handling ~> wk[w].pc \in {"listening", "stopped"}

\* A message that was sent is settled, however often workers are told to
\* stop, crash, or let its lock run out.
MessageSettles ==
  \A j \in Jobs : msg[j].state = "ready" ~> msg[j].state \in {"done", "dead"}

\* How much of the handler lies ahead: its stages, and within a requirement's turn the
\* steps to its end.
Stage(pc) ==
  CASE pc = "claimed"                         -> 5
    [] pc = "load"                            -> 4
    [] pc \in {"gen", "store", "row", "mark"} -> 3
    [] pc \in {"empty", "finish"}             -> 2
    [] pc \in {"failing", "ack"}              -> 1
    [] pc = "nack"                            -> 0

Turn(pc) ==
  CASE pc = "store" -> 3 [] pc = "row" -> 2 [] pc = "mark" -> 1 [] OTHER -> 0

\* Why HandlerEnds holds: as long as it handles a message, whatever a worker does or
\* raises brings it to a later stage, a shorter list of requirements, or forward in
\* the turn of one; besides, it may once be told to stop.
HandlerAdvances ==
  [][\A w \in Workers :
       {wk[w].pc, wk'[w].pc} \subseteq Handling /\ wk'[w] # wk[w] =>
         \/ ~wk[w].term /\ wk'[w] = [wk[w] EXCEPT !.term = TRUE]
         \/ Stage(wk'[w].pc) < Stage(wk[w].pc)
         \/ /\ Stage(wk'[w].pc) = Stage(wk[w].pc)
            /\ \/ wk'[w].todo \in (SUBSET wk[w].todo) \ {wk[w].todo}
               \/ wk'[w].todo = wk[w].todo /\ Turn(wk'[w].pc) < Turn(wk[w].pc)]_vars

\* How often a message can still move: in and out of each delivery it has left.
MovesLeft(m) ==
  2 * (MaxDelivery - m.count) + (IF m.state \in {"none", "locked"} THEN 1 ELSE 0)

\* Why MessageSettles holds: whatever moves a message, a worker that stops and a lock
\* that expires included, uses up one of a bounded number of moves, and one that has
\* none left is settled.
MessageAdvances ==
  [][\A j \in Jobs :
       msg'[j] # msg[j] =>
         /\ MovesLeft(msg'[j]) \in 0 .. MovesLeft(msg[j]) - 1
         /\ msg[j].state \notin {"done", "dead"}
         /\ MovesLeft(msg'[j]) = 0 => msg'[j].state \in {"done", "dead"}]_vars

(***************************************************************************)
(* What the repository says and the code does not do                       *)
(***************************************************************************)

\* ADR 001: Service Bus is there so that "no AI generation or crawl job is
\* silently dropped".  Once its message is settled and nobody works on it, a
\* generation job has a final status, even if no call ever fails.
NoJobDropped ==
  \A j \in GenJobs :
    /\ Committed(j)
    /\ msg[j].state \in {"done", "dead"}
    /\ \A w \in Workers : wk[w].job # j
    => row[j].status \in {"COMPLETED", "FAILED", "CANCELLED"}

(***************************************************************************)
(* The inductive invariant                                                 *)
(***************************************************************************)

\* A row exists exactly when its request has committed.
RequestInv ==
  \A j \in Jobs :
    /\ Committed(j) <=> api[j] = "committed"
    /\ api[j] # "committed" => ~row[j].result
    /\ j \in cancelling => Committed(j)
    /\ api[j] = "new" => msg[j] = [state |-> "none", count |-> 0]

\* Each delivery has a lock of its own: the broker waits for the last one to
\* end before it hands the message out again.
DeliveryInv ==
  /\ \A j \in Jobs : msg[j].state = "ready" => msg[j].count < MaxDelivery
  /\ \A w \in Workers :
        /\ wk[w].job # None <=> wk[w].pc \in Handling
        /\ wk[w].job # None => wk[w].lock \in 1 .. msg[wk[w].job].count
  /\ \A v, w \in Workers :
        v # w /\ wk[v].job # None /\ wk[v].job = wk[w].job => wk[v].lock # wk[w].lock
  /\ \A s \in scripts : s.attempt <= msg[s.job].count

\* A document's id keeps the prefix of the requirement it is for, and a row is
\* only inserted once the document it names has been stored.
DocumentInv ==
  /\ \A j \in Jobs, r \in Reqs :
       docs[DocId(j, r)] \notin {None, Gone} => Prefix[docs[DocId(j, r)]] = Prefix[r]
  /\ \A s \in scripts : docs[DocId(s.job, s.req)] # None

\* What a worker knows at each point of the handler.
Knows(w) ==
  LET pc == wk[w].pc
      j == wk[w].job
      r == wk[w].cur
  IN  /\ pc \in {"empty", "gen", "store", "row", "mark", "finish"} => Committed(j)
      /\ pc = "ack" => row[j].status \notin {"ABSENT", "PENDING"}
      /\ pc \in {"store", "row", "mark"} => r \in Reqs \ wk[w].todo
      /\ pc \in {"row", "mark"} => docs[DocId(j, r)] # None
      /\ pc = "mark" => \E s \in scripts : s.req = r
      /\ pc = "finish" => index[j] # None
      /\ \A d \in wk[w].stored : docs[d] # None

AttemptInv == \A w \in Workers : Knows(w)

\* The rows of a delivery in progress are of requirements it is done with.
RowInv ==
  \A w \in Workers, s \in scripts :
    wk[w].pc \in Handling /\ s.job = wk[w].job /\ s.attempt = wk[w].lock =>
      /\ wk[w].pc \notin {"claimed", "load", "empty"}
      /\ s.req \notin wk[w].todo
      /\ wk[w].pc \in {"store", "row"} => s.req # wk[w].cur

IInv ==
  /\ TypeOK
  /\ RequestInv /\ DeliveryInv /\ DocumentInv /\ AttemptInv /\ RowInv
  /\ NoOrphanArtifacts /\ CompletedIsIndexed /\ IndexListsStored
  /\ MarkedHasRow /\ AckedJobIsStarted

=============================================================================
