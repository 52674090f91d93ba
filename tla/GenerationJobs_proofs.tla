------------------------ MODULE GenerationJobs_proofs ------------------------
(***************************************************************************)
(* Proofs about GenerationJobs for any jobs, requirements, workers,        *)
(* delivery limit and faults.                                              *)
(***************************************************************************)
EXTENDS GenerationJobs, TLAPS

USE DEF Jobs

LEMMA DocIdType == \A j \in Jobs, r \in Reqs : DocId(j, r) \in DocIds
BY DEF DocIds

LEMMA PCsDef ==
  /\ PCs = {"listening", "stopped", "claimed", "load", "empty", "gen", "store", "row",
            "mark", "finish", "failing", "ack", "nack"}
  /\ Handling = PCs \ {"listening", "stopped"}
BY DEF PCs, Handling, InTry

(* What the handler's assignments to its local state do to one worker.      *)

LEMMA ClaimType ==
  ASSUME NEW x \in WorkerStates, NEW p \in PCs, NEW j \in Jobs, NEW n \in 0 .. MaxDelivery
  PROVE  [x EXCEPT !.pc = p, !.job = j, !.lock = n, !.stored = {}] \in WorkerStates
BY DEF WorkerStates

LEMMA LocalsType ==
  ASSUME NEW x \in WorkerStates, NEW p \in PCs, NEW t \in SUBSET Reqs,
         NEW r \in Reqs \cup {None}
  PROVE  /\ [x EXCEPT !.pc = p, !.todo = t, !.cur = r] \in WorkerStates
         /\ [x EXCEPT !.pc = p, !.todo = t] \in WorkerStates
         /\ [x EXCEPT !.pc = p, !.cur = r] \in WorkerStates
BY DEF WorkerStates

LEMMA ProgressType ==
  ASSUME NEW x \in WorkerStates, NEW p \in PCs
  PROVE  [x EXCEPT !.pc = p] \in WorkerStates
BY DEF WorkerStates

LEMMA StoredType ==
  ASSUME NEW x \in WorkerStates, NEW p \in PCs, NEW d \in DocIds
  PROVE  [x EXCEPT !.pc = p, !.stored = @ \cup {d}] \in WorkerStates
BY DEF WorkerStates

LEMMA SettledType ==
  ASSUME NEW x \in WorkerStates, NEW p \in PCs
  PROVE  [x EXCEPT !.pc = p, !.job = None] \in WorkerStates
BY DEF WorkerStates

LEMMA FreshType == Fresh \in WorkerStates
BY DeliveryAssumption, PCsDef DEF WorkerStates, Fresh

-----------------------------------------------------------------------------
(* Type correctness, one step per action.                                   *)

LEMMA TypeInit == Init => TypeOK
<1> SUFFICES ASSUME Init PROVE TypeOK
  OBVIOUS
<1>1. wk \in [Workers -> WorkerStates]
  BY DeliveryAssumption, PCsDef DEF Init, Fresh, WorkerStates
<1> QED
  BY <1>1, NoneAssumption, DeliveryAssumption DEF Init, TypeOK, Statuses, DocIds

LEMMA TypeClient ==
  ASSUME TypeOK, NEW j \in Jobs, Client(j)
  PROVE  TypeOK'
<1>1. CASE CreateGenerationJob(j)
  BY <1>1 DEF TypeOK, CreateGenerationJob, artifacts
<1>2. CASE TriggerGenerateScripts(j)
  BY <1>2 DEF TypeOK, TriggerGenerateScripts, artifacts
<1>3. CASE CommitRequest(j)
  BY <1>3 DEF TypeOK, CommitRequest, artifacts, Statuses
<1>4. CASE AbortRequest(j)
  BY <1>4 DEF TypeOK, AbortRequest, artifacts
<1>5. CASE CancelCheck(j) \/ CancelRollback(j)
  BY <1>5 DEF TypeOK, CancelCheck, CancelRollback, artifacts
<1>6. CASE CancelCommit(j)
  BY <1>6 DEF TypeOK, CancelCommit, artifacts, Statuses
<1> QED BY <1>1, <1>2, <1>3, <1>4, <1>5, <1>6 DEF Client

LEMMA TypeTake ==
  ASSUME TypeOK, DeliveryInv, NEW w \in Workers, Take(w)
  PROVE  TypeOK'
<1> PICK j \in Jobs : Receive(w, j) \/ Abandon(w, j)
  BY DEF Take
<1>t. wk \in [Workers -> WorkerStates]
  BY DEF TypeOK
<1>c. msg[j].count + 1 \in 0 .. MaxDelivery
  BY DeliveryAssumption DEF TypeOK, DeliveryInv, Receive, Abandon
<1>1. CASE Receive(w, j)
  <2>1. wk' \in [Workers -> WorkerStates]
    BY <1>1, <1>t, <1>c, PCsDef, ClaimType DEF Receive
  <2> QED BY <1>1, <1>c, <2>1 DEF TypeOK, Receive, artifacts
<1>2. CASE Abandon(w, j)
  <2>1. wk' \in [Workers -> WorkerStates]
    BY <1>2, <1>t, PCsDef DEF Abandon, WorkerStates
  <2> QED BY <1>2, <1>c, <2>1 DEF TypeOK, Abandon, artifacts
<1> QED BY <1>1, <1>2

LEMMA TypePlatform ==
  ASSUME TypeOK, NEW w \in Workers, Platform(w)
  PROVE  TypeOK'
<1>t. wk \in [Workers -> WorkerStates]
  BY DEF TypeOK
<1>1. wk' \in [Workers -> WorkerStates]
  <2>1. CASE IdleExit(w)
    BY <2>1, <1>t, PCsDef, ProgressType DEF IdleExit
  <2>2. CASE Sigterm(w)
    BY <2>2, <1>t DEF Sigterm, WorkerStates
  <2>3. CASE Crash(w)
    <3>1. [Fresh EXCEPT !.pc = "stopped"] \in WorkerStates
      BY FreshType, ProgressType, PCsDef
    <3> QED BY <2>3, <3>1, <1>t DEF Crash
  <2>4. CASE Restart(w)
    BY <2>4, <1>t, FreshType DEF Restart
  <2> QED BY <2>1, <2>2, <2>3, <2>4 DEF Platform
<1> QED
  BY <1>1 DEF TypeOK, Platform, IdleExit, Sigterm, Crash, Restart, artifacts

LEMMA TypeLockExpires ==
  ASSUME TypeOK, NEW j \in Jobs, LockExpires(j)
  PROVE  TypeOK'
BY DEF TypeOK, LockExpires, artifacts

LEMMA TypeRemove ==
  ASSUME TypeOK, NEW r \in Reqs, Remove(r)
  PROVE  TypeOK'
BY DEF TypeOK, Remove, DeleteRequirement, DeleteScript

LEMMA HandlerFacts ==
  ASSUME TypeOK, DeliveryInv, NEW w \in Workers, wk[w].pc \in Handling
  PROVE  /\ wk[w].job \in Jobs
         /\ wk[w].lock \in 1 .. MaxDelivery
BY DeliveryAssumption DEF TypeOK, WorkerStates, DeliveryInv

LEMMA RowType ==
  ASSUME TypeOK, NEW j \in Jobs, NEW status \in Statuses, NEW result \in BOOLEAN,
         UpdateJobStatus(j, status, result)
  PROVE  row' \in [Jobs -> [status : Statuses, result : BOOLEAN]]
BY DEF TypeOK, UpdateJobStatus

LEMMA TypeHandle ==
  ASSUME TypeOK, AttemptInv, DeliveryInv, NEW w \in Workers, Handle(w)
  PROVE  TypeOK'
<1>t. wk \in [Workers -> WorkerStates]
  BY DEF TypeOK
<1>j. wk[w].pc \in Handling
  BY PCsDef DEF Handle, StartProcessing, LoadJob, FailEmptyJob, SkipRequirement,
     GenerateScripts, StoreTestScript, CreateTestScriptRow, MarkRequirementProcessed,
     StoreIndex, CompleteJob, FailJob, Raise, CompleteMessage, DeadLetterMessage, InTry
<1>h. wk[w].job \in Jobs /\ wk[w].lock \in 1 .. MaxDelivery
  BY <1>j, HandlerFacts
<1>r. wk[w].pc \in {"store", "row", "mark"} => wk[w].cur \in Reqs
  BY DEF AttemptInv, Knows
<1>1. CASE StartProcessing(w)
  <2>1. wk' \in [Workers -> WorkerStates]
    BY <1>1, <1>t, PCsDef DEF StartProcessing, WorkerStates
  <2>2. row' \in [Jobs -> [status : Statuses, result : BOOLEAN]]
    BY <1>1, <1>h, RowType DEF StartProcessing, Statuses
  <2> QED BY <1>1, <2>1, <2>2 DEF TypeOK, StartProcessing, artifacts
<1>2. CASE LoadJob(w)
  <2>1. wk' \in [Workers -> WorkerStates]
    <3> DEFINE found == Requested[wk[w].job] \cap present
    <3>1. /\ found \in SUBSET Reqs /\ wk[w] \in WorkerStates
          /\ {"failing", "empty", "gen"} \subseteq PCs
      BY <1>t, PCsDef DEF TypeOK
    <3>2. /\ [wk[w] EXCEPT !.pc = "failing"] \in WorkerStates
          /\ [wk[w] EXCEPT !.pc = "empty"] \in WorkerStates
          /\ [wk[w] EXCEPT !.pc = "gen", !.todo = found] \in WorkerStates
      BY <3>1, LocalsType, ProgressType
    <3> QED BY <1>2, <3>2, <1>t DEF LoadJob
  <2> QED BY <1>2, <1>h, <2>1 DEF TypeOK, LoadJob, artifacts
<1>3. CASE FailEmptyJob(w)
  <2>1. wk' \in [Workers -> WorkerStates]
    BY <1>3, <1>t, PCsDef DEF FailEmptyJob, WorkerStates
  <2>2. row' \in [Jobs -> [status : Statuses, result : BOOLEAN]]
    BY <1>3, <1>h, RowType DEF FailEmptyJob, Statuses
  <2> QED BY <1>3, <2>1, <2>2 DEF TypeOK, FailEmptyJob, artifacts
<1>4. CASE SkipRequirement(w)
  <2>1. wk' \in [Workers -> WorkerStates]
    BY <1>4, <1>t, PCsDef DEF SkipRequirement, WorkerStates
  <2> QED BY <1>4, <1>h, <2>1 DEF TypeOK, SkipRequirement, artifacts
<1>5. CASE GenerateScripts(w)
  <2>1. wk' \in [Workers -> WorkerStates]
    BY <1>5, <1>t, PCsDef DEF GenerateScripts, WorkerStates
  <2> QED BY <1>5, <1>h, <2>1 DEF TypeOK, GenerateScripts, artifacts
<1>6. CASE StoreTestScript(w)
  <2>1. wk' \in [Workers -> WorkerStates]
    BY <1>6, <1>t, <1>h, <1>r, DocIdType, PCsDef, StoredType DEF StoreTestScript
  <2> QED BY <1>6, <1>h, <1>r, <2>1, DocIdType DEF TypeOK, StoreTestScript
<1>7. CASE CreateTestScriptRow(w)
  <2>1. wk' \in [Workers -> WorkerStates]
    BY <1>7, <1>t, PCsDef DEF CreateTestScriptRow, WorkerStates
  <2> QED BY <1>7, <1>h, <1>r, <2>1, DocIdType DEF TypeOK, CreateTestScriptRow
<1>8. CASE MarkRequirementProcessed(w)
  <2>1. wk' \in [Workers -> WorkerStates]
    BY <1>8, <1>t, PCsDef, LocalsType DEF MarkRequirementProcessed
  <2> QED BY <1>8, <1>h, <2>1 DEF TypeOK, MarkRequirementProcessed
<1>9. CASE StoreIndex(w)
  <2>1. wk' \in [Workers -> WorkerStates]
    BY <1>9, <1>t, PCsDef DEF StoreIndex, WorkerStates
  <2>2. wk[w].stored \in SUBSET DocIds
    BY <1>t DEF WorkerStates
  <2> QED BY <1>9, <1>h, <2>1, <2>2 DEF TypeOK, StoreIndex
<1>10. CASE CompleteJob(w)
  <2>1. wk' \in [Workers -> WorkerStates]
    BY <1>10, <1>t, PCsDef DEF CompleteJob, WorkerStates
  <2>2. row' \in [Jobs -> [status : Statuses, result : BOOLEAN]]
    BY <1>10, <1>h, RowType DEF CompleteJob, Statuses
  <2> QED BY <1>10, <2>1, <2>2 DEF TypeOK, CompleteJob, artifacts
<1>11. CASE FailJob(w)
  <2>1. wk' \in [Workers -> WorkerStates]
    BY <1>11, <1>t, PCsDef, LocalsType DEF FailJob
  <2>2. row' \in [Jobs -> [status : Statuses, result : BOOLEAN]]
    BY <1>11, <1>h, RowType DEF FailJob, Statuses
  <2> QED BY <1>11, <2>1, <2>2 DEF TypeOK, FailJob, artifacts
<1>12. CASE Raise(w)
  <2>1. wk' \in [Workers -> WorkerStates]
    <3>1. CASE wk' = [wk EXCEPT ![w].pc = "failing"]
      BY <3>1, <1>t, PCsDef, ProgressType
    <3>2. CASE wk' = [wk EXCEPT ![w].pc = "nack", ![w].todo = {}, ![w].cur = None]
      BY <3>2, <1>t, PCsDef, LocalsType
    <3>3. CASE wk' = [wk EXCEPT ![w].pc = "stopped", ![w].job = None]
      BY <3>3, <1>t, PCsDef, SettledType
    <3> QED BY <1>12, <3>1, <3>2, <3>3 DEF Raise
  <2> QED BY <1>12, <1>h, <2>1 DEF TypeOK, Raise, artifacts
<1>13. CASE CompleteMessage(w)
  <2>1. wk' \in [Workers -> WorkerStates]
    BY <1>13, <1>t, PCsDef DEF CompleteMessage, WorkerStates
  <2> QED BY <1>13, <1>h, <2>1 DEF TypeOK, CompleteMessage, artifacts
<1>14. CASE DeadLetterMessage(w)
  <2>1. wk' \in [Workers -> WorkerStates]
    BY <1>14, <1>t, PCsDef DEF DeadLetterMessage, WorkerStates
  <2> QED BY <1>14, <1>h, <2>1 DEF TypeOK, DeadLetterMessage, artifacts
<1> QED
  BY <1>1, <1>2, <1>3, <1>4, <1>5, <1>6, <1>7, <1>8, <1>9, <1>10, <1>11, <1>12,
     <1>13, <1>14 DEF Handle

-----------------------------------------------------------------------------
(* What no step undoes, and what a worker's step leaves to the others.      *)

LEMMA UpdateCommitted ==
  ASSUME TypeOK, NEW j \in Jobs, NEW status \in Statuses \ {"ABSENT", "PENDING"},
         NEW result \in BOOLEAN, UpdateJobStatus(j, status, result)
  PROVE  \A k \in Jobs :
           /\ row[k].status = "ABSENT" <=> row'[k].status = "ABSENT"
           /\ row[k].status \notin {"ABSENT", "PENDING"}
                => row'[k].status \notin {"ABSENT", "PENDING"}
           /\ row[k].result => row'[k].result
           /\ row'[k].result => row[k].result \/ (result /\ k = j /\ Committed(k))
           /\ k # j => row'[k] = row[k]
           /\ k = j /\ Committed(j) => row'[k].status = status
BY DEF TypeOK, UpdateJobStatus, Committed

LEMMA HandleRow ==
  ASSUME TypeOK, DeliveryInv, NEW w \in Workers, Handle(w)
  PROVE  /\ wk[w].pc \in Handling
         /\ \/ row' = row
            \/ \E status \in {"PROCESSING", "FAILED"} :
                  UpdateJobStatus(wk[w].job, status, FALSE)
            \/ /\ wk[w].pc = "finish"
               /\ UpdateJobStatus(wk[w].job, "COMPLETED", TRUE)
         /\ UNCHANGED <<api, cancelling, present>>
BY PCsDef DEF Handle, StartProcessing, LoadJob, FailEmptyJob, SkipRequirement,
     GenerateScripts, StoreTestScript, CreateTestScriptRow, MarkRequirementProcessed,
     StoreIndex, CompleteJob, FailJob, Raise, CompleteMessage, DeadLetterMessage, InTry,
     artifacts

LEMMA HandleMsg ==
  ASSUME TypeOK, DeliveryInv, NEW w \in Workers, Handle(w)
  PROVE  \/ msg' = msg
         \/ /\ HoldsLock(w)
            /\ \/ wk[w].pc = "ack" /\ msg' = [msg EXCEPT ![wk[w].job].state = "done"]
               \/ wk[w].pc = "nack" /\ msg' = [msg EXCEPT ![wk[w].job].state = "dead"]
BY DEF Handle, StartProcessing, LoadJob, FailEmptyJob, SkipRequirement,
     GenerateScripts, StoreTestScript, CreateTestScriptRow, MarkRequirementProcessed,
     StoreIndex, CompleteJob, FailJob, Raise, CompleteMessage, DeadLetterMessage

LEMMA OtherWorkers ==
  ASSUME TypeOK, NEW w \in Workers, Take(w) \/ Handle(w) \/ Platform(w)
  PROVE  \A v \in Workers : v # w => wk'[v] = wk[v]
<1>1. wk \in [Workers -> WorkerStates]
  BY DEF TypeOK
<1>2. CASE Take(w)
  BY <1>1, <1>2 DEF Take, Receive, Abandon
<1>3. CASE Handle(w)
  BY <1>1, <1>3 DEF Handle, StartProcessing, LoadJob, FailEmptyJob, SkipRequirement,
     GenerateScripts, StoreTestScript, CreateTestScriptRow, MarkRequirementProcessed,
     StoreIndex, CompleteJob, FailJob, Raise, CompleteMessage, DeadLetterMessage
<1>4. CASE Platform(w)
  BY <1>1, <1>4 DEF Platform, IdleExit, Sigterm, Crash, Restart
<1> QED BY <1>2, <1>3, <1>4

-----------------------------------------------------------------------------
(* Requests, rows and messages.                                             *)

LEMMA RequestStep ==
  ASSUME TypeOK, RequestInv, DeliveryInv, Next
  PROVE  RequestInv'
<1>1. ASSUME NEW j \in Jobs, Client(j) PROVE RequestInv'
  <2>1. CASE CreateGenerationJob(j)
    BY <2>1 DEF TypeOK, RequestInv, Committed, CreateGenerationJob
  <2>2. CASE TriggerGenerateScripts(j)
    BY <2>2 DEF TypeOK, RequestInv, Committed, TriggerGenerateScripts
  <2>3. CASE CommitRequest(j)
    BY <2>3 DEF TypeOK, RequestInv, Committed, CommitRequest
  <2>4. CASE AbortRequest(j)
    BY <2>4 DEF TypeOK, RequestInv, Committed, AbortRequest
  <2>5. CASE CancelCheck(j) \/ CancelRollback(j)
    BY <2>5 DEF TypeOK, RequestInv, Committed, CancelCheck, CancelRollback
  <2>6. CASE CancelCommit(j)
    BY <2>6 DEF TypeOK, RequestInv, Committed, CancelCommit
  <2> QED BY <1>1, <2>1, <2>2, <2>3, <2>4, <2>5, <2>6 DEF Client
<1>2. ASSUME NEW j \in Jobs, LockExpires(j) PROVE RequestInv'
  BY <1>2 DEF TypeOK, RequestInv, Committed, LockExpires
<1>3. ASSUME NEW r \in Reqs, Remove(r) PROVE RequestInv'
  BY <1>3 DEF RequestInv, Committed, Remove, DeleteRequirement, DeleteScript
<1>4. ASSUME NEW w \in Workers, Take(w) PROVE RequestInv'
  BY <1>4 DEF TypeOK, RequestInv, Committed, Take, Receive, Abandon
<1>5. ASSUME NEW w \in Workers, Platform(w) PROVE RequestInv'
  BY <1>5 DEF RequestInv, Committed, Platform, IdleExit, Sigterm, Crash, Restart
<1>6. ASSUME NEW w \in Workers, Handle(w) PROVE RequestInv'
  <2> DEFINE j == wk[w].job
  <2>1. j \in Jobs /\ UNCHANGED <<api, cancelling>>
    BY <1>6, HandleRow, HandlerFacts
  <2>2. \A k \in Jobs : /\ row[k].status = "ABSENT" <=> row'[k].status = "ABSENT"
                        /\ row'[k].result => row[k].result \/ Committed(k)
    <3>1. CASE row' = row
      BY <3>1
    <3>2. ASSUME NEW status \in {"PROCESSING", "FAILED"}, UpdateJobStatus(j, status, FALSE)
          PROVE  <2>2
      BY <2>1, <3>2, UpdateCommitted DEF Statuses
    <3>3. CASE UpdateJobStatus(j, "COMPLETED", TRUE)
      BY <2>1, <3>3, UpdateCommitted DEF Statuses
    <3> QED BY <1>6, <3>1, <3>2, <3>3, HandleRow
  <2>3. \A k \in Jobs : msg[k] = [state |-> "none", count |-> 0] => msg'[k] = msg[k]
    <3>1. CASE msg' = msg
      BY <3>1
    <3>2. ASSUME HoldsLock(w), NEW s, msg' = [msg EXCEPT ![j].state = s]
          PROVE  <2>3
      BY <2>1, <3>2 DEF TypeOK, HoldsLock
    <3> QED BY <1>6, <3>1, <3>2, HandleMsg
  <2> SUFFICES ASSUME NEW k \in Jobs
               PROVE  /\ row'[k].status # "ABSENT" <=> api[k] = "committed"
                      /\ api[k] # "committed" => ~row'[k].result
                      /\ k \in cancelling => row'[k].status # "ABSENT"
                      /\ api[k] = "new" => msg'[k] = [state |-> "none", count |-> 0]
    BY <2>1 DEF RequestInv, Committed
  <2> QED BY <2>2, <2>3 DEF RequestInv, Committed
<1> QED BY <1>1, <1>2, <1>3, <1>4, <1>5, <1>6 DEF Next

-----------------------------------------------------------------------------
(* Deliveries and their locks.                                              *)

LEMMA HandleLocal ==
  ASSUME TypeOK, DeliveryInv, NEW w \in Workers, Handle(w)
  PROVE  /\ wk'[w].lock = wk[w].lock
         /\ \/ wk'[w].pc \in Handling /\ wk'[w].job = wk[w].job
            \/ wk'[w].pc \notin Handling /\ wk'[w].job = None
<1>1. wk \in [Workers -> WorkerStates] /\ wk[w].pc \in Handling
  BY HandleRow DEF TypeOK
<1> USE <1>1, PCsDef DEF WorkerStates
<1>2. CASE StartProcessing(w)
  BY <1>2 DEF StartProcessing
<1>3. CASE LoadJob(w)
  BY <1>3 DEF LoadJob
<1>4. CASE FailEmptyJob(w)
  BY <1>4 DEF FailEmptyJob
<1>5. CASE SkipRequirement(w)
  BY <1>5 DEF SkipRequirement
<1>6. CASE GenerateScripts(w)
  BY <1>6 DEF GenerateScripts
<1>7. CASE StoreTestScript(w)
  BY <1>7 DEF StoreTestScript
<1>8. CASE CreateTestScriptRow(w)
  BY <1>8 DEF CreateTestScriptRow
<1>9. CASE MarkRequirementProcessed(w)
  BY <1>9 DEF MarkRequirementProcessed
<1>10. CASE StoreIndex(w)
  BY <1>10 DEF StoreIndex
<1>11. CASE CompleteJob(w)
  BY <1>11 DEF CompleteJob
<1>12. CASE FailJob(w)
  BY <1>12 DEF FailJob
<1>13. CASE Raise(w)
  BY <1>13 DEF Raise, InTry
<1>14. CASE CompleteMessage(w)
  BY <1>14 DEF CompleteMessage
<1>15. CASE DeadLetterMessage(w)
  BY <1>15 DEF DeadLetterMessage
<1> QED
  BY <1>2, <1>3, <1>4, <1>5, <1>6, <1>7, <1>8, <1>9, <1>10, <1>11, <1>12, <1>13,
     <1>14, <1>15 DEF Handle

LEMMA HandleScripts ==
  ASSUME TypeOK, DeliveryInv, NEW w \in Workers, Handle(w)
  PROVE  \/ scripts' = scripts
         \/ /\ CreateTestScriptRow(w)
            /\ scripts' = scripts \cup {[job |-> wk[w].job, req |-> wk[w].cur,
                                         attempt |-> wk[w].lock]}
BY DEF Handle, StartProcessing, LoadJob, FailEmptyJob, SkipRequirement,
     GenerateScripts, StoreTestScript, CreateTestScriptRow, MarkRequirementProcessed,
     StoreIndex, CompleteJob, FailJob, Raise, CompleteMessage, DeadLetterMessage, artifacts

LEMMA DeliveryStep ==
  ASSUME TypeOK, RequestInv, DeliveryInv, Next
  PROVE  DeliveryInv'
<1>1. ASSUME NEW j \in Jobs, Client(j) PROVE DeliveryInv'
  <2>1. CASE CreateGenerationJob(j)
    BY <2>1, DeliveryAssumption DEF TypeOK, RequestInv, DeliveryInv, CreateGenerationJob, artifacts
  <2>2. CASE UNCHANGED <<msg, wk, scripts>>
    BY <2>2 DEF DeliveryInv
  <2> QED BY <1>1, <2>1, <2>2 DEF Client, TriggerGenerateScripts, CommitRequest,
          AbortRequest, CancelCheck, CancelCommit, CancelRollback, artifacts
<1>2. ASSUME NEW j \in Jobs, LockExpires(j) PROVE DeliveryInv'
  BY <1>2, DeliveryAssumption DEF TypeOK, DeliveryInv, LockExpires, artifacts
<1>3. ASSUME NEW r \in Reqs, Remove(r) PROVE DeliveryInv'
  BY <1>3 DEF DeliveryInv, Remove, DeleteRequirement, DeleteScript
<1>4. ASSUME NEW w \in Workers, Take(w) PROVE DeliveryInv'
  <2> PICK j \in Jobs : Receive(w, j) \/ Abandon(w, j)
    BY <1>4 DEF Take
  <2>1. \A v \in Workers : v # w => wk'[v] = wk[v]
    BY <1>4, OtherWorkers
  <2>2. wk[w].job = None /\ scripts' = scripts /\ scripts \subseteq [job : Jobs, req : Reqs, attempt : 1 .. MaxDelivery]
    BY PCsDef DEF TypeOK, DeliveryInv, Receive, Abandon, artifacts
  <2>3. \A k \in Jobs : /\ msg[k].count \in Nat /\ msg'[k].count \in Nat
                        /\ msg[k].count <= msg'[k].count
                        /\ k # j => msg'[k] = msg[k]
    BY DeliveryAssumption DEF TypeOK, Receive, Abandon
  <2>4. \A k \in Jobs : msg'[k].state = "ready" => msg'[k].count < MaxDelivery
    BY <2>3, DeliveryAssumption DEF TypeOK, DeliveryInv, Receive, Abandon
  <2>5. \A s \in scripts : s.attempt <= msg'[s.job].count
    BY <2>2, <2>3, DeliveryAssumption DEF DeliveryInv
  <2>6. CASE Receive(w, j)
    <3>1. /\ wk'[w].pc \in Handling /\ wk'[w].job = j
          /\ wk'[w].lock = msg[j].count + 1 /\ msg'[j].count = msg[j].count + 1
      BY <2>6, PCsDef DEF TypeOK, WorkerStates, Receive
    <3>2. \A v \in Workers : v # w /\ wk[v].job # None => wk[v].lock \in 1 .. msg'[wk[v].job].count
      BY <2>3 DEF TypeOK, WorkerStates, DeliveryInv
    <3>3. j # None /\ msg[j].count \in Nat
      BY <2>3, NoneAssumption
    <3>4. \A v \in Workers : v # w /\ wk[v].job = j => wk[v].lock <= msg[j].count
      BY <3>3 DEF TypeOK, WorkerStates, DeliveryInv
    <3> QED
      BY <2>1, <2>2, <2>4, <2>5, <3>1, <3>2, <3>3, <3>4 DEF TypeOK, WorkerStates, DeliveryInv
  <2>7. CASE Abandon(w, j)
    <3>1. wk'[w].pc \notin Handling /\ wk'[w].job = None
      BY <2>2, <2>7, PCsDef DEF TypeOK, WorkerStates, Abandon
    <3>2. \A v \in Workers : v # w /\ wk[v].job # None => wk[v].lock \in 1 .. msg'[wk[v].job].count
      BY <2>3 DEF TypeOK, WorkerStates, DeliveryInv
    <3> QED
      BY <2>1, <2>2, <2>4, <2>5, <3>1, <3>2 DEF TypeOK, WorkerStates, DeliveryInv
  <2> QED BY <2>6, <2>7
<1>5. ASSUME NEW w \in Workers, Platform(w) PROVE DeliveryInv'
  <2>1. \A v \in Workers : v # w => wk'[v] = wk[v]
    BY <1>5, OtherWorkers
  <2>2. /\ \/ wk'[w].pc \notin Handling /\ wk'[w].job = None
           \/ /\ wk'[w].pc = wk[w].pc /\ wk'[w].job = wk[w].job
              /\ wk'[w].lock = wk[w].lock
        /\ UNCHANGED <<msg, scripts>>
    BY <1>5, PCsDef DEF TypeOK, WorkerStates, DeliveryInv, Platform, IdleExit, Sigterm, Crash, Restart, Fresh, artifacts
  <2> QED BY <2>1, <2>2 DEF DeliveryInv
<1>6. ASSUME NEW w \in Workers, Handle(w) PROVE DeliveryInv'
  <2> DEFINE j == wk[w].job
  <2>1. \A v \in Workers : v # w => wk'[v] = wk[v]
    BY <1>6, OtherWorkers
  <2>2. /\ wk'[w].lock = wk[w].lock
        /\ \/ wk'[w].pc \in Handling /\ wk'[w].job = j
           \/ wk'[w].pc \notin Handling /\ wk'[w].job = None
    BY <1>6, HandleLocal
  <2>3. j \in Jobs /\ wk[w].pc \in Handling /\ j # None
    BY <1>6, HandleRow, HandlerFacts, NoneAssumption
  <2>4. \A k \in Jobs : /\ msg'[k].count = msg[k].count
                        /\ msg'[k].state = "ready" => msg[k].state = "ready"
    <3>1. CASE msg' = msg
      BY <3>1
    <3>2. ASSUME NEW s \in {"done", "dead"}, msg' = [msg EXCEPT ![j].state = s]
          PROVE  <2>4
      BY <2>3, <3>2 DEF TypeOK
    <3> QED BY <1>6, <3>1, <3>2, HandleMsg
  <2>5. \A s \in scripts' : s.attempt <= msg[s.job].count /\ s.job \in Jobs
    <3>1. wk[w].lock <= msg[j].count
      BY <2>3 DEF TypeOK, WorkerStates, DeliveryInv
    <3> QED BY <1>6, <2>3, <3>1, HandleScripts DEF TypeOK, DeliveryInv
  <2>6. \A v \in Workers : wk[v].job # None => wk[v].job \in Jobs
    BY DEF TypeOK, WorkerStates
  <2> QED BY <2>1, <2>2, <2>3, <2>4, <2>5, <2>6 DEF DeliveryInv
<1> QED BY <1>1, <1>2, <1>3, <1>4, <1>5, <1>6 DEF Next

-----------------------------------------------------------------------------
(* Documents, rows and indexes are only written by handlers; a client may   *)
(* delete a document.                                                       *)

LEMMA OnlyHandlersWrite ==
  ASSUME Next
  PROVE  \/ UNCHANGED <<docs, index, scripts, marked>>
         \/ \E w \in Workers : Handle(w)
         \/ \E j \in Jobs, r \in Reqs : DeleteScript(j, r)
<1>1. ASSUME NEW j \in Jobs, Client(j)
      PROVE  UNCHANGED <<docs, index, scripts, marked>>
  BY <1>1 DEF Client, CreateGenerationJob, TriggerGenerateScripts, CommitRequest,
     AbortRequest, CancelCheck, CancelCommit, CancelRollback, artifacts
<1>2. ASSUME NEW j \in Jobs, LockExpires(j)
      PROVE  UNCHANGED <<docs, index, scripts, marked>>
  BY <1>2 DEF LockExpires, artifacts
<1>3. ASSUME NEW r \in Reqs, Remove(r)
      PROVE  UNCHANGED <<docs, index, scripts, marked>> \/ \E j \in Jobs : DeleteScript(j, r)
  BY <1>3 DEF Remove, DeleteRequirement
<1>4. ASSUME NEW w \in Workers, Take(w)
      PROVE  UNCHANGED <<docs, index, scripts, marked>>
  BY <1>4 DEF Take, Receive, Abandon, artifacts
<1>5. ASSUME NEW w \in Workers, Platform(w)
      PROVE  UNCHANGED <<docs, index, scripts, marked>>
  BY <1>5 DEF Platform, IdleExit, Sigterm, Crash, Restart, artifacts
<1> QED BY <1>1, <1>2, <1>3, <1>4, <1>5 DEF Next

LEMMA HandleArtifacts ==
  ASSUME TypeOK, DeliveryInv, AttemptInv, NEW w \in Workers, Handle(w)
  PROVE  /\ \/ docs' = docs
            \/ /\ wk[w].pc = "store" /\ wk[w].cur \in Reqs
               /\ docs' = [docs EXCEPT ![DocId(wk[w].job, wk[w].cur)] = wk[w].cur]
         /\ \/ index' = index
            \/ /\ wk[w].pc = "gen"
               /\ index' = [index EXCEPT ![wk[w].job] = wk[w].stored]
         /\ \/ scripts' = scripts
            \/ /\ wk[w].pc = "row" /\ wk'[w].pc = "mark" /\ wk[w].cur \in Reqs
               /\ scripts' = scripts \cup {[job |-> wk[w].job, req |-> wk[w].cur,
                                            attempt |-> wk[w].lock]}
         /\ \/ marked' = marked
            \/ /\ wk[w].pc = "mark"
               /\ marked' \subseteq marked \cup {wk[w].cur}
<1>1. wk[w].pc \in {"store", "row"} => wk[w].cur \in Reqs
  BY DEF AttemptInv, Knows
<1>2. CASE StoreTestScript(w)
  BY <1>1, <1>2 DEF StoreTestScript
<1>3. CASE CreateTestScriptRow(w)
  <2>1. wk[w].pc = "row" /\ UNCHANGED <<docs, index, marked>>
    BY <1>3 DEF CreateTestScriptRow
  <2>2. CASE scripts' = scripts
    BY <2>1, <2>2
  <2>3. CASE scripts' # scripts
    BY <1>1, <1>3, <2>1, <2>3 DEF TypeOK, WorkerStates, CreateTestScriptRow
  <2> QED BY <2>2, <2>3
<1>4. CASE MarkRequirementProcessed(w)
  BY <1>4 DEF MarkRequirementProcessed
<1>5. CASE StoreIndex(w)
  BY <1>5 DEF StoreIndex
<1>6. CASE UNCHANGED <<docs, index, scripts, marked>>
  BY <1>6
<1> QED
  BY <1>2, <1>3, <1>4, <1>5, <1>6 DEF Handle, StartProcessing, LoadJob, FailEmptyJob,
     SkipRequirement, GenerateScripts, CompleteJob, FailJob, Raise, CompleteMessage,
     DeadLetterMessage, artifacts

\* Rows and artifacts, once there, stay, and no row becomes PENDING again.
LEMMA Monotone ==
  ASSUME TypeOK, RequestInv, DeliveryInv, AttemptInv, Next
  PROVE  /\ \A j \in Jobs :
              /\ row[j].status # "ABSENT" => row'[j].status # "ABSENT"
              /\ row[j].status \notin {"ABSENT", "PENDING"}
                   => row'[j].status \notin {"ABSENT", "PENDING"}
              /\ index[j] # None => index'[j] # None
         /\ \A d \in DocIds : docs[d] # None => docs'[d] # None
         /\ scripts \subseteq scripts'
<1>1. /\ \A j \in Jobs : index[j] # None => index'[j] # None
      /\ \A d \in DocIds : docs[d] # None => docs'[d] # None
      /\ scripts \subseteq scripts'
  <2>1. ASSUME NEW w \in Workers, Handle(w) PROVE <1>1
    <3>1. wk[w].job \in Jobs /\ wk[w].stored \in SUBSET DocIds
      BY <2>1, HandleRow, HandlerFacts DEF TypeOK, WorkerStates
    <3> QED BY <2>1, <3>1, HandleArtifacts, DocIdType, NoneAssumption DEF TypeOK
  <2>2. ASSUME NEW j \in Jobs, NEW r \in Reqs, DeleteScript(j, r) PROVE <1>1
    BY <2>2, DocIdType, NoneAssumption DEF TypeOK, DeleteScript
  <2> QED BY <2>1, <2>2, OnlyHandlersWrite
<1>2. \A j \in Jobs :
        /\ row[j].status # "ABSENT" => row'[j].status # "ABSENT"
        /\ row[j].status \notin {"ABSENT", "PENDING"}
             => row'[j].status \notin {"ABSENT", "PENDING"}
  <2>1. CASE row' = row
    BY <2>1
  <2>2. ASSUME NEW j \in Jobs, Client(j) PROVE <1>2
    BY <2>2 DEF TypeOK, RequestInv, Committed, Client, CreateGenerationJob,
       TriggerGenerateScripts, CommitRequest, AbortRequest, CancelCheck, CancelCommit,
       CancelRollback
  <2>3. ASSUME NEW w \in Workers, Handle(w) PROVE <1>2
    <3>1. wk[w].job \in Jobs
      BY <2>3, HandleRow, HandlerFacts
    <3>2. ASSUME NEW status \in {"PROCESSING", "FAILED"},
                 UpdateJobStatus(wk[w].job, status, FALSE)
          PROVE  <1>2
      BY <3>1, <3>2, UpdateCommitted DEF Statuses
    <3>3. CASE UpdateJobStatus(wk[w].job, "COMPLETED", TRUE)
      BY <3>1, <3>3, UpdateCommitted DEF Statuses
    <3> QED BY <2>1, <2>3, <3>2, <3>3, HandleRow
  <2> QED BY <2>1, <2>2, <2>3 DEF Next, Take, Platform, Remove, DeleteRequirement, DeleteScript, Receive,
          Abandon, IdleExit, Sigterm, Crash, Restart, LockExpires
<1> QED BY <1>1, <1>2

LEMMA DocumentStep ==
  ASSUME TypeOK, RequestInv, DeliveryInv, AttemptInv, DocumentInv, Next
  PROVE  DocumentInv'
<1>1. ASSUME NEW w \in Workers, Handle(w) PROVE DocumentInv'
  <2> DEFINE j == wk[w].job
             r == wk[w].cur
  <2>1. j \in Jobs
    BY <1>1, HandleRow, HandlerFacts
  <2>2. ASSUME NEW k \in Jobs, NEW q \in Reqs, docs'[DocId(k, q)] \notin {None, Gone}
        PROVE  Prefix[docs'[DocId(k, q)]] = Prefix[q]
    <3>1. CASE docs' = docs
      BY <2>2, <3>1 DEF DocumentInv
    <3>2. CASE r \in Reqs /\ docs' = [docs EXCEPT ![DocId(j, r)] = r]
      <4>1. CASE DocId(k, q) = DocId(j, r)
        BY <2>1, <3>2, <4>1, DocIdType DEF TypeOK, DocId
      <4>2. CASE DocId(k, q) # DocId(j, r)
        BY <2>2, <3>2, <4>2, DocIdType DEF TypeOK, DocumentInv
      <4> QED BY <4>1, <4>2
    <3> QED BY <1>1, <3>1, <3>2, HandleArtifacts
  <2>3. ASSUME NEW s \in scripts' PROVE docs'[DocId(s.job, s.req)] # None
    <3>1. CASE s \in scripts
      BY <3>1, Monotone, DocIdType DEF TypeOK, DocumentInv
    <3>2. CASE /\ wk[w].pc = "row" /\ r \in Reqs
               /\ s = [job |-> j, req |-> r, attempt |-> wk[w].lock]
      BY <2>1, <3>2, Monotone, DocIdType DEF AttemptInv, Knows
    <3> QED BY <1>1, <3>1, <3>2, HandleArtifacts
  <2> QED BY <2>2, <2>3 DEF DocumentInv
<1>2. ASSUME NEW j \in Jobs, NEW r \in Reqs, DeleteScript(j, r) PROVE DocumentInv'
  BY <1>2, DocIdType, NoneAssumption DEF TypeOK, DocumentInv, DeleteScript
<1> QED BY <1>1, <1>2, OnlyHandlersWrite DEF DocumentInv

LEMMA OrphanStep ==
  ASSUME TypeOK, RequestInv, DeliveryInv, AttemptInv, NoOrphanArtifacts, Next
  PROVE  NoOrphanArtifacts'
<1>1. ASSUME NEW w \in Workers, Handle(w) PROVE NoOrphanArtifacts'
  <2> DEFINE j == wk[w].job
  <2>1. j \in Jobs /\ (wk[w].pc \in {"store", "row", "gen"} => row[j].status # "ABSENT")
    BY <1>1, HandleRow, HandlerFacts DEF AttemptInv, Knows, Committed
  <2>2. ASSUME NEW k \in Jobs, NEW q \in Reqs, docs'[DocId(k, q)] # None
        PROVE  row'[k].status # "ABSENT"
    <3>1. CASE docs[DocId(k, q)] # None
      BY <3>1, Monotone DEF NoOrphanArtifacts, Committed
    <3>2. CASE docs[DocId(k, q)] = None
      <4>1. wk[w].pc = "store" /\ DocId(k, q) = DocId(j, wk[w].cur)
        BY <1>1, <2>1, <2>2, <3>2, HandleArtifacts, DocIdType DEF TypeOK
      <4> QED BY <2>1, <4>1, Monotone DEF DocId
    <3> QED BY <3>1, <3>2
  <2>3. ASSUME NEW k \in Jobs, index'[k] # None PROVE row'[k].status # "ABSENT"
    <3>1. CASE index[k] # None
      BY <3>1, Monotone DEF NoOrphanArtifacts, Committed
    <3>2. CASE index[k] = None
      <4>1. wk[w].pc = "gen" /\ k = j
        BY <1>1, <2>1, <2>3, <3>2, HandleArtifacts DEF TypeOK
      <4> QED BY <2>1, <4>1, Monotone
    <3> QED BY <3>1, <3>2
  <2>4. ASSUME NEW s \in scripts' PROVE row'[s.job].status # "ABSENT"
    <3>1. CASE s \in scripts
      BY <3>1, Monotone DEF TypeOK, NoOrphanArtifacts, Committed
    <3>2. CASE s \notin scripts
      <4>1. wk[w].pc = "row" /\ s.job = j
        BY <1>1, <2>4, <3>2, HandleArtifacts
      <4> QED BY <2>1, <4>1, Monotone
    <3> QED BY <3>1, <3>2
  <2> QED BY <2>2, <2>3, <2>4 DEF NoOrphanArtifacts, Committed
<1>2. CASE UNCHANGED <<docs, index, scripts, marked>>
  BY <1>2, Monotone DEF TypeOK, NoOrphanArtifacts, Committed
<1>3. ASSUME NEW j \in Jobs, NEW r \in Reqs, DeleteScript(j, r) PROVE NoOrphanArtifacts'
  BY <1>3, DocIdType DEF TypeOK, NoOrphanArtifacts, Committed, DeleteScript
<1> QED BY <1>1, <1>2, <1>3, OnlyHandlersWrite

LEMMA IndexStep ==
  ASSUME TypeOK, RequestInv, DeliveryInv, AttemptInv, IndexListsStored, Next
  PROVE  IndexListsStored'
<1>1. ASSUME NEW w \in Workers, Handle(w) PROVE IndexListsStored'
  <2>1. wk[w].job \in Jobs /\ wk[w].stored \in SUBSET DocIds
    BY <1>1, HandleRow, HandlerFacts DEF TypeOK, WorkerStates
  <2>2. ASSUME NEW k \in Jobs, index'[k] # None, NEW d \in index'[k] PROVE docs'[d] # None
    <3>1. CASE index'[k] = index[k]
      BY <2>2, <3>1, Monotone DEF TypeOK, IndexListsStored
    <3>2. CASE index'[k] = wk[w].stored
      BY <2>1, <2>2, <3>2, Monotone DEF AttemptInv, Knows
    <3> QED BY <1>1, <2>1, <3>1, <3>2, HandleArtifacts DEF TypeOK
  <2> QED BY <2>2 DEF IndexListsStored
<1>2. ASSUME NEW j \in Jobs, NEW r \in Reqs, DeleteScript(j, r) PROVE IndexListsStored'
  BY <1>2, Monotone DEF TypeOK, IndexListsStored, DeleteScript
<1> QED BY <1>1, <1>2, OnlyHandlersWrite DEF IndexListsStored

LEMMA MarkedStep ==
  ASSUME TypeOK, RequestInv, DeliveryInv, AttemptInv, MarkedHasRow, Next
  PROVE  MarkedHasRow'
<1>1. ASSUME NEW w \in Workers, Handle(w) PROVE MarkedHasRow'
  <2>1. ASSUME NEW r \in marked' PROVE \E s \in scripts : s.req = r
    <3>1. CASE r \in marked
      BY <3>1 DEF MarkedHasRow
    <3>2. CASE wk[w].pc = "mark" /\ r = wk[w].cur
      BY <3>2 DEF AttemptInv, Knows
    <3> QED BY <1>1, <3>1, <3>2, HandleArtifacts
  <2> QED BY <2>1, Monotone DEF MarkedHasRow
<1> QED BY <1>1, OnlyHandlersWrite DEF MarkedHasRow, DeleteScript

LEMMA CompletedStep ==
  ASSUME TypeOK, RequestInv, DeliveryInv, AttemptInv, CompletedIsIndexed, Next
  PROVE  CompletedIsIndexed'
<1>1. ASSUME NEW w \in Workers, Handle(w) PROVE CompletedIsIndexed'
  <2> DEFINE j == wk[w].job
  <2>1. j \in Jobs /\ (wk[w].pc = "finish" => index[j] # None)
    BY <1>1, HandleRow, HandlerFacts DEF AttemptInv, Knows
  <2>2. CASE row' = row
    BY <2>2, Monotone DEF CompletedIsIndexed
  <2>3. ASSUME NEW status \in {"PROCESSING", "FAILED"}, UpdateJobStatus(j, status, FALSE)
        PROVE  CompletedIsIndexed'
    <3>1. \A k \in Jobs : /\ row'[k].result => row[k].result
                          /\ row'[k].status = "COMPLETED" => row'[k].result
      BY <2>1, <2>3 DEF TypeOK, UpdateJobStatus, CompletedIsIndexed
    <3> QED BY <3>1, Monotone DEF CompletedIsIndexed
  <2>4. CASE wk[w].pc = "finish" /\ UpdateJobStatus(j, "COMPLETED", TRUE)
    <3>1. \A k \in Jobs : /\ row'[k].result => row[k].result \/ k = j
                          /\ row'[k].status = "COMPLETED" => row'[k].result
      BY <2>1, <2>4 DEF TypeOK, UpdateJobStatus, CompletedIsIndexed
    <3> QED BY <2>1, <2>4, <3>1, Monotone DEF CompletedIsIndexed
  <2> QED BY <1>1, <2>2, <2>3, <2>4, HandleRow
<1>2. ASSUME NEW j \in Jobs, Client(j) PROVE CompletedIsIndexed'
  <2>1. CASE row' = row
    BY <2>1, Monotone DEF CompletedIsIndexed
  <2>2. CASE CommitRequest(j) \/ CancelCommit(j)
    BY <2>2, Monotone DEF TypeOK, CompletedIsIndexed, CommitRequest, CancelCommit
  <2> QED BY <1>2, <2>1, <2>2 DEF Client, CreateGenerationJob, TriggerGenerateScripts,
          AbortRequest, CancelCheck, CancelRollback
<1>3. CASE row' = row
  BY <1>3, Monotone DEF CompletedIsIndexed
<1> QED BY <1>1, <1>2, <1>3 DEF Next, Take, Platform, Remove, DeleteRequirement, DeleteScript, Receive,
        Abandon, IdleExit, Sigterm, Crash, Restart, LockExpires

LEMMA AckedStep ==
  ASSUME TypeOK, RequestInv, DeliveryInv, AttemptInv, AckedJobIsStarted, Next
  PROVE  AckedJobIsStarted'
<1>1. ASSUME NEW j \in Jobs, msg'[j].state = "done"
      PROVE  row[j].status \notin {"ABSENT", "PENDING"}
  <2>1. CASE msg[j].state = "done"
    BY <2>1 DEF AckedJobIsStarted
  <2>2. CASE msg[j].state # "done"
    <3>1. PICK w \in Workers : Handle(w)
      <4>1. ASSUME NEW k \in Jobs, Client(k) \/ LockExpires(k) PROVE FALSE
        BY <1>1, <2>2, <4>1 DEF TypeOK, Client, CreateGenerationJob,
           TriggerGenerateScripts, CommitRequest, AbortRequest, CancelCheck,
           CancelCommit, CancelRollback, LockExpires
      <4>2. ASSUME NEW w \in Workers, Take(w) PROVE FALSE
        BY <1>1, <2>2, <4>2 DEF TypeOK, Take, Receive, Abandon
      <4>3. ASSUME msg' = msg PROVE FALSE
        BY <1>1, <2>2, <4>3
      <4> QED BY <4>1, <4>2, <4>3 DEF Next, Platform, Remove, DeleteRequirement, DeleteScript, IdleExit,
              Sigterm, Crash, Restart
    <3>2. wk[w].job \in Jobs
      BY <3>1, HandleRow, HandlerFacts
    <3>3. wk[w].pc = "ack" /\ wk[w].job = j
      <4>1. CASE msg' = msg
        BY <1>1, <2>2, <4>1
      <4>2. CASE wk[w].pc = "ack" /\ msg' = [msg EXCEPT ![wk[w].job].state = "done"]
        BY <1>1, <2>2, <3>2, <4>2 DEF TypeOK
      <4>3. CASE msg' = [msg EXCEPT ![wk[w].job].state = "dead"]
        BY <1>1, <2>2, <3>2, <4>3 DEF TypeOK
      <4> QED BY <3>1, <4>1, <4>2, <4>3, HandleMsg
    <3> QED BY <3>3 DEF AttemptInv, Knows
  <2> QED BY <2>1, <2>2
<1> QED BY <1>1, Monotone DEF AckedJobIsStarted

-----------------------------------------------------------------------------
(* What a worker knows, one step per action of its own.                     *)

LEMMA AttemptStep ==
  ASSUME TypeOK, RequestInv, DeliveryInv, AttemptInv, Next
  PROVE  AttemptInv'
<1> SUFFICES ASSUME NEW v \in Workers PROVE Knows(v)'
  BY DEF AttemptInv
<1>t. wk \in [Workers -> WorkerStates]
  BY DEF TypeOK
<1>k. /\ Knows(v)
      /\ wk[v].pc \in Handling => wk[v].job \in Jobs
      /\ wk[v].pc \in {"store", "row", "mark"} => wk[v].cur \in Reqs
      /\ wk[v].stored \subseteq DocIds
  BY HandlerFacts DEF AttemptInv, Knows, TypeOK, WorkerStates
<1>1. CASE wk'[v] = wk[v]
  BY <1>1, <1>k, PCsDef, DocIdType, Monotone DEF Knows, Committed
<1>2. CASE wk'[v].pc \in {"listening", "stopped"} /\ wk'[v].stored = wk[v].stored
  BY <1>2, <1>k, Monotone DEF Knows
<1>3. CASE Handle(v)
  <2>1. wk[v].pc \in Handling
    BY <1>3, HandleRow
  <2>2. CASE StartProcessing(v)
    BY <2>1, <2>2, <1>t, <1>k, PCsDef, DocIdType, Monotone
    DEF Knows, Committed, WorkerStates, StartProcessing
  <2>3. CASE LoadJob(v)
    BY <2>1, <2>3, <1>t, <1>k, PCsDef, DocIdType, Monotone
    DEF Knows, Committed, WorkerStates, LoadJob
  <2>4. CASE FailEmptyJob(v)
    BY <2>1, <2>4, <1>t, <1>k, PCsDef, DocIdType, Monotone
    DEF Knows, Committed, WorkerStates, FailEmptyJob, UpdateJobStatus, TypeOK
  <2>5. CASE SkipRequirement(v)
    BY <2>1, <2>5, <1>t, <1>k, PCsDef, DocIdType, Monotone
    DEF Knows, Committed, WorkerStates, SkipRequirement
  <2>6. CASE GenerateScripts(v)
    BY <2>1, <2>6, <1>t, <1>k, PCsDef, DocIdType, Monotone
    DEF Knows, Committed, WorkerStates, GenerateScripts
  <2>7. CASE StoreTestScript(v)
    BY <2>1, <2>7, <1>t, <1>k, PCsDef, DocIdType, Monotone
    DEF Knows, Committed, WorkerStates, StoreTestScript
  <2>8. CASE CreateTestScriptRow(v)
    <3>1. CASE wk' = [wk EXCEPT ![v].pc = "failing"]
      BY <2>1, <2>8, <3>1, <1>t, <1>k, PCsDef, Monotone DEF Knows, WorkerStates
    <3>2. CASE wk' # [wk EXCEPT ![v].pc = "failing"]
      <4>1. /\ wk[v].pc = "row" /\ wk' = [wk EXCEPT ![v].pc = "mark"]
            /\ [job |-> wk[v].job, req |-> wk[v].cur, attempt |-> wk[v].lock] \in scripts'
        BY <2>8, <3>2 DEF CreateTestScriptRow
      <4>2. \E s \in scripts' : s.req = wk[v].cur
        BY <4>1
      <4> QED
        BY <2>1, <4>1, <4>2, <1>t, <1>k, PCsDef, DocIdType, Monotone
        DEF Knows, Committed, WorkerStates
    <3> QED BY <3>1, <3>2
  <2>9. CASE MarkRequirementProcessed(v)
    BY <2>1, <2>9, <1>t, <1>k, PCsDef, DocIdType, Monotone
    DEF Knows, Committed, WorkerStates, MarkRequirementProcessed
  <2>10. CASE StoreIndex(v)
    <3>1. index'[wk[v].job] # None
      BY <2>1, <2>10, <1>k, NoneAssumption DEF TypeOK, StoreIndex
    <3> QED
      BY <2>1, <2>10, <3>1, <1>t, <1>k, PCsDef, Monotone
      DEF Knows, Committed, WorkerStates, StoreIndex
  <2>11. CASE CompleteJob(v)
    BY <2>1, <2>11, <1>t, <1>k, PCsDef, DocIdType, Monotone
    DEF Knows, Committed, WorkerStates, CompleteJob, UpdateJobStatus, TypeOK
  <2>12. CASE FailJob(v)
    BY <2>1, <2>12, <1>t, <1>k, PCsDef, DocIdType, Monotone
    DEF Knows, Committed, WorkerStates, FailJob
  <2>13. CASE Raise(v)
    BY <2>1, <2>13, <1>t, <1>k, PCsDef, DocIdType, Monotone
    DEF Knows, Committed, WorkerStates, Raise, InTry
  <2>14. CASE CompleteMessage(v)
    BY <2>1, <2>14, <1>t, <1>k, PCsDef, DocIdType, Monotone
    DEF Knows, Committed, WorkerStates, CompleteMessage
  <2>15. CASE DeadLetterMessage(v)
    BY <2>1, <2>15, <1>t, <1>k, PCsDef, DocIdType, Monotone
    DEF Knows, Committed, WorkerStates, DeadLetterMessage
  <2> QED
    BY <1>3, <2>2, <2>3, <2>4, <2>5, <2>6, <2>7, <2>8, <2>9, <2>10, <2>11, <2>12, <2>13,
       <2>14, <2>15 DEF Handle
<1>4. CASE Take(v)
  BY <1>4, <1>t, <1>k, PCsDef, Monotone DEF Knows, WorkerStates, Take, Receive, Abandon
<1>5. CASE Platform(v)
  <2>1. CASE Sigterm(v)
    BY <2>1, <1>t, <1>k, PCsDef, DocIdType, Monotone DEF Knows, Committed, WorkerStates, Sigterm
  <2>2. CASE IdleExit(v)
    BY <2>2, <1>t, <1>2 DEF WorkerStates, IdleExit
  <2>3. CASE Crash(v) \/ Restart(v)
    BY <2>3, <1>t DEF Knows, Crash, Restart, Fresh
  <2> QED BY <1>5, <2>1, <2>2, <2>3 DEF Platform
<1>6. \/ Handle(v) \/ Take(v) \/ Platform(v) \/ wk'[v] = wk[v]
  <2>1. ASSUME NEW w \in Workers, Take(w) \/ Handle(w) \/ Platform(w)
        PROVE  w = v \/ wk'[v] = wk[v]
    BY <2>1, OtherWorkers
  <2>2. CASE wk' = wk
    BY <2>2
  <2> QED BY <2>1, <2>2 DEF Next, Client, CreateGenerationJob, TriggerGenerateScripts,
          CommitRequest, AbortRequest, CancelCheck, CancelCommit, CancelRollback,
          Remove, DeleteRequirement, DeleteScript, LockExpires
<1> QED BY <1>1, <1>3, <1>4, <1>5, <1>6

LEMMA RowStep ==
  ASSUME TypeOK, RequestInv, DeliveryInv, AttemptInv, RowInv, Next
  PROVE  RowInv'
<1>t. wk \in [Workers -> WorkerStates]
  BY DEF TypeOK
<1> SUFFICES ASSUME NEW v \in Workers, NEW s \in scripts',
                    wk'[v].pc \in Handling, s.job = wk'[v].job, s.attempt = wk'[v].lock
             PROVE  /\ wk'[v].pc \notin {"claimed", "load", "empty"}
                    /\ s.req \notin wk'[v].todo
                    /\ wk'[v].pc \in {"store", "row"} => s.req # wk'[v].cur
  BY DEF RowInv
<1>1. CASE wk'[v] = wk[v] /\ s \in scripts
  BY <1>1 DEF RowInv
<1>2. CASE wk'[v] = wk[v] /\ s \notin scripts
  <2>1. PICK w \in Workers : Handle(w)
    BY <1>2, OnlyHandlersWrite DEF DeleteScript
  <2>2. wk'[w].pc = "mark" /\ wk[w].pc = "row" /\ s.job = wk[w].job /\ s.attempt = wk[w].lock
    BY <1>2, <2>1, HandleArtifacts
  <2>3. w # v
    BY <1>2, <2>2
  <2> QED BY <1>2, <2>1, <2>2, <2>3, HandleRow, HandlerFacts, NoneAssumption DEF DeliveryInv
<1>3. CASE Handle(v)
  <2>1. /\ wk[v].pc \in Handling
        /\ wk'[v].lock = wk[v].lock /\ wk'[v].job = wk[v].job
    BY <1>3, HandleRow, HandleLocal
  <2>2. /\ Knows(v)
        /\ s \in scripts =>
             /\ wk[v].pc \notin {"claimed", "load", "empty"}
             /\ s.req \notin wk[v].todo
             /\ wk[v].pc \in {"store", "row"} => s.req # wk[v].cur
    BY <2>1 DEF RowInv, AttemptInv
  <2>3. CASE s \notin scripts
    <3>1. CreateTestScriptRow(v) /\ s.req = wk[v].cur /\ wk'[v].pc = "mark" /\ wk[v].pc = "row"
      BY <1>3, <2>3, HandleArtifacts, HandleScripts
    <3> QED BY <3>1, <2>2, <1>t DEF CreateTestScriptRow, Knows, WorkerStates
  <2>4. CASE s \in scripts
    <3>1. CASE StartProcessing(v)
      BY <2>1, <2>2, <2>4, <3>1, <1>t DEF WorkerStates, StartProcessing
    <3>2. CASE LoadJob(v)
      BY <2>1, <2>2, <2>4, <3>2, <1>t DEF WorkerStates, LoadJob
    <3>3. CASE FailEmptyJob(v)
      BY <2>1, <2>2, <2>4, <3>3, <1>t DEF WorkerStates, FailEmptyJob
    <3>4. CASE SkipRequirement(v)
      BY <2>1, <2>2, <2>4, <3>4, <1>t DEF WorkerStates, SkipRequirement
    <3>5. CASE GenerateScripts(v)
      BY <2>1, <2>2, <2>4, <3>5, <1>t DEF WorkerStates, GenerateScripts
    <3>6. CASE StoreTestScript(v)
      BY <2>1, <2>2, <2>4, <3>6, <1>t DEF WorkerStates, StoreTestScript
    <3>7. CASE CreateTestScriptRow(v)
      BY <2>1, <2>2, <2>4, <3>7, <1>t DEF WorkerStates, CreateTestScriptRow
    <3>8. CASE MarkRequirementProcessed(v)
      BY <2>1, <2>2, <2>4, <3>8, <1>t DEF WorkerStates, MarkRequirementProcessed
    <3>9. CASE StoreIndex(v)
      BY <2>1, <2>2, <2>4, <3>9, <1>t DEF WorkerStates, StoreIndex
    <3>10. CASE CompleteJob(v)
      BY <2>1, <2>2, <2>4, <3>10, <1>t DEF WorkerStates, CompleteJob
    <3>11. CASE FailJob(v)
      BY <2>1, <2>2, <2>4, <3>11, <1>t DEF WorkerStates, FailJob
    <3>12. CASE Raise(v)
      BY <2>1, <2>2, <2>4, <3>12, <1>t DEF WorkerStates, Raise, InTry
    <3>13. CASE CompleteMessage(v)
      BY <2>1, <2>2, <2>4, <3>13, <1>t DEF WorkerStates, CompleteMessage
    <3>14. CASE DeadLetterMessage(v)
      BY <2>1, <2>2, <2>4, <3>14, <1>t DEF WorkerStates, DeadLetterMessage
    <3> QED
      BY <1>3, <3>1, <3>2, <3>3, <3>4, <3>5, <3>6, <3>7, <3>8, <3>9, <3>10, <3>11, <3>12,
         <3>13, <3>14 DEF Handle
  <2> QED BY <2>3, <2>4
<1>4. CASE Take(v)
  <2> PICK j \in Jobs : Receive(v, j)
    BY <1>4, <1>t, PCsDef DEF Take, Abandon, WorkerStates
  <2>1. scripts' = scripts /\ wk'[v].job = j /\ wk'[v].lock = msg[j].count + 1
    BY <1>t DEF Receive, WorkerStates, artifacts
  <2>2. s.attempt <= msg[j].count /\ msg[j].count \in Nat /\ s.attempt \in Nat
    BY <2>1, DeliveryAssumption DEF TypeOK, DeliveryInv
  <2> QED BY <2>1, <2>2
<1>5. CASE Platform(v)
  <2>1. scripts' = scripts
    BY <1>5 DEF Platform, IdleExit, Sigterm, Crash, Restart, artifacts
  <2>2. Sigterm(v)
    BY <1>5, <1>t, PCsDef DEF Platform, IdleExit, Crash, Restart, WorkerStates, Fresh
  <2> QED BY <2>1, <2>2, <1>t DEF Sigterm, RowInv, WorkerStates
<1>6. \/ Handle(v) \/ Take(v) \/ Platform(v) \/ wk'[v] = wk[v]
  <2>1. ASSUME NEW w \in Workers, Take(w) \/ Handle(w) \/ Platform(w)
        PROVE  w = v \/ wk'[v] = wk[v]
    BY <2>1, OtherWorkers
  <2>2. CASE wk' = wk
    BY <2>2
  <2> QED BY <2>1, <2>2 DEF Next, Client, CreateGenerationJob, TriggerGenerateScripts,
          CommitRequest, AbortRequest, CancelCheck, CancelCommit, CancelRollback,
          Remove, DeleteRequirement, DeleteScript, LockExpires
<1> QED BY <1>1, <1>2, <1>3, <1>4, <1>5, <1>6

-----------------------------------------------------------------------------

LEMMA TypeStep ==
  ASSUME TypeOK, DeliveryInv, AttemptInv, Next
  PROVE  TypeOK'
BY TypeClient, TypeTake, TypePlatform, TypeLockExpires, TypeRemove, TypeHandle
DEF Next

LEMMA InitIInv == Init => IInv
<1> SUFFICES ASSUME Init PROVE IInv
  OBVIOUS
<1>1. TypeOK
  BY TypeInit
<1>2. \A w \in Workers : wk[w].pc = "listening" /\ wk[w].job = None /\ wk[w].stored = {}
  BY DEF Init, Fresh
<1>3. DeliveryInv /\ AttemptInv /\ RowInv
  BY <1>2, PCsDef DEF Init, DeliveryInv, AttemptInv, Knows, RowInv
<1>4. RequestInv /\ DocumentInv /\ MarkedHasRow /\ AckedJobIsStarted
  BY DocIdType DEF Init, RequestInv, DocumentInv, MarkedHasRow, AckedJobIsStarted, Committed
<1>5. NoOrphanArtifacts /\ CompletedIsIndexed /\ IndexListsStored
  BY DocIdType DEF Init, NoOrphanArtifacts, CompletedIsIndexed, IndexListsStored, Committed
<1> QED BY <1>1, <1>3, <1>4, <1>5 DEF IInv

LEMMA StepIInv == IInv /\ [Next]_vars => IInv'
<1> SUFFICES ASSUME IInv, [Next]_vars PROVE IInv'
  OBVIOUS
<1>1. CASE Next
  BY <1>1, TypeStep, RequestStep, DeliveryStep, DocumentStep, AttemptStep, RowStep,
     OrphanStep, CompletedStep, IndexStep, MarkedStep, AckedStep DEF IInv
<1>2. CASE UNCHANGED vars
  BY <1>2 DEF vars, IInv, TypeOK, RequestInv, DeliveryInv, DocumentInv, AttemptInv, Knows,
     RowInv, NoOrphanArtifacts, CompletedIsIndexed, IndexListsStored, MarkedHasRow,
     AckedJobIsStarted, Committed
<1> QED BY <1>1, <1>2

\* The inductive invariant holds in every reachable state.
THEOREM Invariance == Spec => []IInv
BY InitIInv, StepIInv, PTL DEF Spec

\* Every variable keeps its type, and no delivery is counted past the limit.
THEOREM TypeCorrect == Spec => []TypeOK
BY Invariance, PTL DEF IInv

\* A job whose request never commits leaves nothing behind, though its message
\* may be handled before the commit or after the rollback.
THEOREM NoOrphans == Spec => []NoOrphanArtifacts
BY Invariance, PTL DEF IInv

\* COMPLETED carries a result pointer and a pointer leads to an index document.
THEOREM CompletedHasIndex == Spec => []CompletedIsIndexed
BY Invariance, PTL DEF IInv

\* An index lists documents only that were stored, and are, unless a client deleted
\* them.
THEOREM IndexIsSound == Spec => []IndexListsStored
BY Invariance, PTL DEF IInv

\* A requirement the pipeline marked PROCESSED has a script row.
THEOREM MarkedIsSound == Spec => []MarkedHasRow
BY Invariance, PTL DEF IInv

\* A completed message is that of a job that was worked on.
THEOREM AckedIsStarted == Spec => []AckedJobIsStarted
BY Invariance, PTL DEF IInv

\* One delivery inserts at most one row per requirement.
THEOREM AtMostOneRow == Spec => []OneRowPerAttempt
<1>1. IInv => OneRowPerAttempt
  BY PCsDef DEF IInv, RowInv, OneRowPerAttempt
<1> QED BY <1>1, Invariance, PTL

\* If no two requirements share the eight digits a document id keeps, each
\* script row points at a document of its own requirement, or at a deleted one.
THEOREM RowsMatchDocuments ==
  ASSUME \A r, q \in Reqs : Prefix[r] = Prefix[q] => r = q
  PROVE  Spec => []RowMatchesDocument
<1>1. IInv => RowMatchesDocument
  <2> SUFFICES ASSUME IInv, NEW s \in scripts
               PROVE  docs[DocId(s.job, s.req)] \in {s.req, Gone}
    BY DEF RowMatchesDocument
  <2>1. s.job \in Jobs /\ s.req \in Reqs /\ DocId(s.job, s.req) \in DocIds
    BY DocIdType DEF IInv, TypeOK
  <2>2. docs[DocId(s.job, s.req)] \in Reqs \cup {Gone}
    BY <2>1 DEF IInv, TypeOK, DocumentInv
  <2> QED BY <2>1, <2>2 DEF IInv, DocumentInv
<1> QED BY <1>1, Invariance, PTL

-----------------------------------------------------------------------------
(* Refinement of JobLifecycle.                                              *)

LEMMA UpdateMaps ==
  ASSUME TypeOK, NEW j \in Jobs, NEW status \in {"PROCESSING", "FAILED"},
         \/ UpdateJobStatus(j, status, FALSE)
         \/ UpdateJobStatus(j, "COMPLETED", TRUE)
  PROVE  [Abs!Next]_(Abs!vars)
<1>1. CASE row' = row
  BY <1>1 DEF Abs!vars
<1>2. CASE row' # row
  <2>1. Committed(j)
    BY <1>2 DEF UpdateJobStatus
  <2>2. CASE UpdateJobStatus(j, status, FALSE)
    <3>1. [k \in Jobs |-> row'[k].status]
            = [[k \in Jobs |-> row[k].status] EXCEPT ![j] = status]
      BY <2>1, <2>2 DEF TypeOK, UpdateJobStatus
    <3>2. {k \in Jobs : row'[k].result} = {k \in Jobs : row[k].result}
      BY <2>1, <2>2 DEF TypeOK, UpdateJobStatus
    <3> QED BY <2>1, <3>1, <3>2 DEF Abs!Next, Abs!Move, Committed
  <2>3. CASE UpdateJobStatus(j, "COMPLETED", TRUE)
    <3>1. [k \in Jobs |-> row'[k].status]
            = [[k \in Jobs |-> row[k].status] EXCEPT ![j] = "COMPLETED"]
      BY <2>1, <2>3 DEF TypeOK, UpdateJobStatus
    <3>2. {k \in Jobs : row'[k].result} = {k \in Jobs : row[k].result} \cup {j}
      BY <2>1, <2>3 DEF TypeOK, UpdateJobStatus
    <3> QED BY <2>1, <3>1, <3>2 DEF Abs!Next, Abs!Complete, Committed
  <2> QED BY <2>2, <2>3
<1> QED BY <1>1, <1>2

LEMMA StepMaps == IInv /\ [Next]_vars => [Abs!Next]_(Abs!vars)
<1> SUFFICES ASSUME IInv, [Next]_vars PROVE [Abs!Next]_(Abs!vars)
  OBVIOUS
<1>t. TypeOK /\ RequestInv /\ DeliveryInv
  BY DEF IInv
<1>1. CASE row' = row
  BY <1>1 DEF Abs!vars
<1>2. ASSUME NEW j \in Jobs, CommitRequest(j) PROVE [Abs!Next]_(Abs!vars)
  <2>1. row[j].status = "ABSENT"
    BY <1>t, <1>2 DEF RequestInv, CommitRequest, Committed
  <2>2. [k \in Jobs |-> row'[k].status]
          = [[k \in Jobs |-> row[k].status] EXCEPT ![j] = "PENDING"]
    BY <1>t, <1>2 DEF TypeOK, CommitRequest
  <2>3. {k \in Jobs : row'[k].result} = {k \in Jobs : row[k].result}
    BY <1>t, <1>2 DEF TypeOK, CommitRequest
  <2> QED BY <2>1, <2>2, <2>3 DEF Abs!Next, Abs!Submit
<1>3. ASSUME NEW j \in Jobs, CancelCommit(j) PROVE [Abs!Next]_(Abs!vars)
  <2>1. row[j].status # "ABSENT"
    BY <1>t, <1>3 DEF RequestInv, CancelCommit, Committed
  <2>2. [k \in Jobs |-> row'[k].status]
          = [[k \in Jobs |-> row[k].status] EXCEPT ![j] = "CANCELLED"]
    BY <1>t, <1>3 DEF TypeOK, CancelCommit
  <2>3. {k \in Jobs : row'[k].result} = {k \in Jobs : row[k].result}
    BY <1>t, <1>3 DEF TypeOK, CancelCommit
  <2> QED BY <2>1, <2>2, <2>3 DEF Abs!Next, Abs!Move
<1>4. ASSUME NEW w \in Workers, Handle(w) PROVE [Abs!Next]_(Abs!vars)
  <2>1. wk[w].job \in Jobs
    BY <1>t, <1>4, HandleRow, HandlerFacts
  <2> QED BY <1>t, <1>1, <1>4, <2>1, HandleRow, UpdateMaps
<1> QED
  BY <1>1, <1>2, <1>3, <1>4 DEF Next, vars, Client, Take, Platform, CreateGenerationJob,
     TriggerGenerateScripts, AbortRequest, CancelCheck, CancelRollback, Remove, DeleteRequirement, DeleteScript,
     Receive, Abandon, IdleExit, Sigterm, Crash, Restart, LockExpires

\* What the API process, the broker and the workers do to table jobs is what
\* JobLifecycle allows.
THEOREM Refinement == Spec => ImplementsJobLifecycle
<1>1. Init => Abs!Init
  BY DEF Init, Abs!Init
<1> QED BY <1>1, StepMaps, Invariance, PTL DEF Spec, ImplementsJobLifecycle, Abs!Spec
-----------------------------------------------------------------------------
(* The variant of MessageSettles.                                           *)

Message == [state : {"none", "ready", "locked", "done", "dead"}, count : 0 .. MaxDelivery]

(* How a message moves: it is sent, delivered, given back, and settled or   *)
(* released.                                                                *)
Moves(m, n) ==
  \/ m.state = "none" /\ n.state = "ready" /\ m.count = 0 /\ n.count = 0
  \/ m.state = "ready" /\ n.state \in {"locked", "ready", "dead"} /\ n.count = m.count + 1
  \/ m.state = "locked" /\ n.state \in {"ready", "done", "dead"} /\ n.count = m.count

LEMMA MovesLeftDecreases ==
  ASSUME NEW m \in Message, NEW n \in Message, Moves(m, n),
         n.state = "ready" => n.count < MaxDelivery
  PROVE  /\ MovesLeft(n) \in 0 .. MovesLeft(m) - 1
         /\ m.state \notin {"done", "dead"}
         /\ MovesLeft(n) = 0 => n.state \in {"done", "dead"}
<1>1. m.count \in 0 .. MaxDelivery /\ n.count \in 0 .. MaxDelivery /\ MaxDelivery \in Nat
  BY DeliveryAssumption DEF Message
<1>2. MovesLeft(m) = 2 * (MaxDelivery - m.count) + (IF m.state \in {"none", "locked"} THEN 1 ELSE 0)
      /\ MovesLeft(n) = 2 * (MaxDelivery - n.count) + (IF n.state \in {"none", "locked"} THEN 1 ELSE 0)
  BY DEF MovesLeft
<1>3. CASE m.state = "none" /\ n.state = "ready" /\ m.count = 0 /\ n.count = 0
  BY <1>1, <1>2, <1>3
<1>4. CASE m.state = "ready" /\ n.count = m.count + 1 /\ n.state = "locked"
  BY <1>1, <1>2, <1>4
<1>5. CASE m.state = "ready" /\ n.count = m.count + 1 /\ n.state = "ready"
  BY <1>1, <1>2, <1>5
<1>6. CASE m.state = "ready" /\ n.count = m.count + 1 /\ n.state = "dead"
  BY <1>1, <1>2, <1>6
<1>7. CASE m.state = "locked" /\ n.count = m.count /\ n.state = "ready"
  BY <1>1, <1>2, <1>7
<1>8. CASE m.state = "locked" /\ n.count = m.count /\ n.state \in {"done", "dead"}
  <2>1. n.state \notin {"none", "locked"}
    BY <1>8
  <2>2. n.count = m.count /\ m.state \in {"none", "locked"}
    BY <1>8
  <2> QED BY <1>1, <1>2, <1>8, <2>1, <2>2
<1> QED BY <1>3, <1>4, <1>5, <1>6, <1>7, <1>8 DEF Moves

(* No step of the API, the broker, a worker or the platform does anything   *)
(* else to a message.                                                       *)
LEMMA MessagesMove ==
  ASSUME IInv, [Next]_vars, NEW j \in Jobs, msg'[j] # msg[j]
  PROVE  Moves(msg[j], msg'[j])
<1>t. TypeOK /\ RequestInv /\ DeliveryInv /\ msg \in [Jobs -> Message]
  BY DEF IInv, TypeOK, Message
<1>1. ASSUME NEW k \in Jobs, Client(k) PROVE Moves(msg[j], msg'[j])
  <2>1. CASE CreateGenerationJob(k)
    BY <1>t, <2>1 DEF CreateGenerationJob, RequestInv, Message, Moves
  <2>2. CASE msg' = msg
    BY <2>2
  <2> QED BY <1>1, <2>1, <2>2 DEF Client, TriggerGenerateScripts, CommitRequest,
          AbortRequest, CancelCheck, CancelCommit, CancelRollback
<1>2. ASSUME NEW k \in Jobs, LockExpires(k) PROVE Moves(msg[j], msg'[j])
  BY <1>t, <1>2 DEF LockExpires, Message, Moves
<1>3. ASSUME NEW w \in Workers, Take(w) PROVE Moves(msg[j], msg'[j])
  BY <1>t, <1>3 DEF Take, Receive, Abandon, Message, Moves
<1>4. ASSUME NEW w \in Workers, Handle(w) PROVE Moves(msg[j], msg'[j])
  <2>1. wk[w].job \in Jobs
    BY <1>t, <1>4, HandleRow, HandlerFacts
  <2>2. PICK state \in {"done", "dead"} :
           /\ msg[wk[w].job].state = "locked"
           /\ msg' = [msg EXCEPT ![wk[w].job].state = state]
    BY <1>t, <1>4, HandleMsg DEF HoldsLock
  <2> QED BY <1>t, <2>1, <2>2 DEF Message, Moves
<1>5. ASSUME NEW w \in Workers, Platform(w) PROVE msg' = msg
  BY <1>5 DEF Platform, IdleExit, Sigterm, Crash, Restart
<1>6. ASSUME NEW r \in Reqs, Remove(r) PROVE msg' = msg
  BY <1>6 DEF Remove, DeleteRequirement, DeleteScript
<1> QED BY <1>1, <1>2, <1>3, <1>4, <1>5, <1>6 DEF Next, vars

\* What MessageSettles rests on: no message moves more than 2 * MaxDelivery + 1
\* times, whatever workers stop, crash or lose their locks, and the last move
\* settles it.  That it does move on is what the fairness of the receivers, the
\* handler, the broker and the platform adds.
THEOREM EveryMoveCounts == Spec => MessageAdvances
<1>1. IInv /\ IInv' /\ [Next]_vars =>
        [\A j \in Jobs :
           msg'[j] # msg[j] =>
             /\ MovesLeft(msg'[j]) \in 0 .. MovesLeft(msg[j]) - 1
             /\ msg[j].state \notin {"done", "dead"}
             /\ MovesLeft(msg'[j]) = 0 => msg'[j].state \in {"done", "dead"}]_vars
  <2> SUFFICES ASSUME IInv, IInv', [Next]_vars, NEW j \in Jobs, msg'[j] # msg[j]
               PROVE  /\ MovesLeft(msg'[j]) \in 0 .. MovesLeft(msg[j]) - 1
                      /\ msg[j].state \notin {"done", "dead"}
                      /\ MovesLeft(msg'[j]) = 0 => msg'[j].state \in {"done", "dead"}
    OBVIOUS
  <2>1. msg[j] \in Message /\ msg'[j] \in Message
    BY DEF IInv, TypeOK, Message
  <2>2. msg'[j].state = "ready" => msg'[j].count < MaxDelivery
    BY DEF IInv, DeliveryInv
  <2>3. Moves(msg[j], msg'[j])
    BY MessagesMove
  <2> QED BY <2>1, <2>2, <2>3, MovesLeftDecreases
<1> QED BY <1>1, Invariance, PTL DEF Spec, MessageAdvances

-----------------------------------------------------------------------------
(* The variant of HandlerEnds.                                              *)

(* One worker gets ahead in its handler, from x to y. *)
Ahead(x, y) ==
  \/ ~x.term /\ y = [x EXCEPT !.term = TRUE]
  \/ Stage(y.pc) < Stage(x.pc)
  \/ /\ Stage(y.pc) = Stage(x.pc)
     /\ \/ y.todo \in (SUBSET x.todo) \ {x.todo}
        \/ y.todo = x.todo /\ Turn(y.pc) < Turn(x.pc)

LEMMA StageDef ==
  /\ Stage("claimed") = 5 /\ Stage("load") = 4
  /\ Stage("gen") = 3 /\ Stage("store") = 3 /\ Stage("row") = 3 /\ Stage("mark") = 3
  /\ Stage("empty") = 2 /\ Stage("finish") = 2
  /\ Stage("failing") = 1 /\ Stage("ack") = 1 /\ Stage("nack") = 0
  /\ Turn("store") = 3 /\ Turn("row") = 2 /\ Turn("mark") = 1 /\ Turn("gen") = 0
BY DEF Stage, Turn

LEMMA HandleAdvances ==
  ASSUME TypeOK, DeliveryInv, NEW w \in Workers, Handle(w), wk'[w].pc \in Handling
  PROVE  Ahead(wk[w], wk'[w])
<1>1. wk \in [Workers -> WorkerStates]
  BY DEF TypeOK
<1> USE <1>1, PCsDef, StageDef DEF WorkerStates
<1>2. CASE StartProcessing(w) \/ FailEmptyJob(w)
  <2>1. \/ wk[w].pc = "claimed" /\ wk'[w].pc = "load"
        \/ wk[w].pc = "empty" /\ wk'[w].pc = "ack"
    BY <1>2 DEF StartProcessing, FailEmptyJob
  <2> QED BY <2>1 DEF Ahead
<1>3. CASE StoreIndex(w)
  BY <1>3 DEF StoreIndex, Ahead
<1>4. CASE CompleteJob(w)
  <2>1. wk[w].pc = "finish" /\ wk'[w].pc \in {"ack", "failing"}
    BY <1>4 DEF CompleteJob
  <2> QED BY <2>1 DEF Ahead
<1>5. CASE FailJob(w)
  BY <1>5 DEF FailJob, Ahead
<1>6. CASE LoadJob(w)
  BY <1>6 DEF LoadJob, Ahead
<1>7. CASE SkipRequirement(w)
  BY <1>7 DEF SkipRequirement, Ahead
<1>8. CASE GenerateScripts(w)
  BY <1>8 DEF GenerateScripts, Ahead
<1>9. CASE StoreTestScript(w) \/ CreateTestScriptRow(w) \/ MarkRequirementProcessed(w)
  BY <1>9 DEF StoreTestScript, CreateTestScriptRow, MarkRequirementProcessed, Ahead
<1>10. CASE Raise(w)
  BY <1>10 DEF Raise, InTry, Ahead
<1>11. CASE CompleteMessage(w) \/ DeadLetterMessage(w)
  BY <1>11 DEF CompleteMessage, DeadLetterMessage, Ahead
<1> QED
  BY <1>2, <1>3, <1>4, <1>5, <1>6, <1>7, <1>8, <1>9, <1>10, <1>11 DEF Handle

\* What HandlerEnds rests on: as long as it handles a message a worker only gets
\* ahead, through the stages of the handler and the list of requirements, whatever
\* raises; its handler cannot go on for ever.
THEOREM HandlersAdvance == Spec => HandlerAdvances
<1>1. IInv /\ [Next]_vars =>
        [\A w \in Workers :
           {wk[w].pc, wk'[w].pc} \subseteq Handling /\ wk'[w] # wk[w] =>
             Ahead(wk[w], wk'[w])]_vars
  <2> SUFFICES ASSUME IInv, Next, NEW w \in Workers,
                      wk[w].pc \in Handling, wk'[w].pc \in Handling, wk'[w] # wk[w]
               PROVE  Ahead(wk[w], wk'[w])
    OBVIOUS
  <2>t. TypeOK /\ DeliveryInv /\ wk \in [Workers -> WorkerStates]
    BY DEF IInv, TypeOK
  <2>1. PICK v \in Workers : Take(v) \/ Handle(v) \/ Platform(v)
    BY DEF Next, Client, CreateGenerationJob, TriggerGenerateScripts, CommitRequest,
       AbortRequest, CancelCheck, CancelCommit, CancelRollback, LockExpires,
       Remove, DeleteRequirement, DeleteScript
  <2>2. v = w
    BY <2>t, <2>1, OtherWorkers
  <2>3. CASE Handle(w)
    BY <2>t, <2>3, HandleAdvances
  <2>4. CASE Platform(w)
    BY <2>t, <2>4, PCsDef DEF Platform, IdleExit, Sigterm, Crash, Restart, Fresh,
       WorkerStates, Ahead
  <2>5. ~Take(w)
    BY PCsDef DEF Take, Receive, Abandon
  <2> QED BY <2>1, <2>2, <2>3, <2>4, <2>5
<1> QED BY <1>1, Invariance, PTL DEF Spec, HandlerAdvances, Ahead
=============================================================================
