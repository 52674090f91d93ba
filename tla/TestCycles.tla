----------------------------- MODULE TestCycles -----------------------------
(***************************************************************************)
(* Test cycles of the KAATS backend: a cycle, the executions (assignments) *)
(* in it, the result a tester submits for one and the evidence attached to *)
(* the result (TestCycleService and its router).                           *)
(*                                                                         *)
(* A request runs in one transaction.  Its reads see what is committed, it *)
(* writes nothing before its flush (autoflush is off), and the flush and   *)
(* the commit that follows are one step here: row locks keep other writers *)
(* out between the two.  The ORM updates only the columns whose value      *)
(* differs from the one the request loaded, and no row has a version, so   *)
(* what matters of a request in flight is what it loaded.  403 and 404     *)
(* answers change nothing and are left out.                                *)
(***************************************************************************)
EXTENDS Naturals, FiniteSets

CONSTANTS
  Cycles, Assignments, Files,
  Requests,  \* the transactions that can be open at a time
  Outcomes,  \* members of ExecutionStatus a client sends
  None

ASSUME OutcomesAssumption == "NOT_STARTED" \in Outcomes
ASSUME NoneAssumption == None \notin Outcomes \cup Cycles \cup Assignments \cup Files

VARIABLES
  cycle,     \* table test_cycles: the status of each
  asg,       \* table test_assignments: [cycle, status] of each
  result,    \* table test_results: the status of each assignment's row
  evidence,  \* table execution_evidence: what each row points at
  blobs,     \* the evidence files in the tenant's blob container
  req,       \* the requests in flight
  overtaken, \* history: those that another commit on their execution has overtaken
  apart      \* history: the executions whose status and result were last written by
             \* log_result or by a submission that was overtaken

vars == <<cycle, asg, result, evidence, blobs, req, overtaken, apart>>
executions == <<asg, result, evidence, blobs, apart>>

CycleStatus == {"DRAFT", "ACTIVE", "COMPLETED", "LOCKED"}

Idle == [op |-> "idle", on |-> None, loaded |-> None, body |-> None, found |-> None]

Init ==
  /\ cycle = [c \in Cycles |-> "ABSENT"]
  /\ asg = [a \in Assignments |-> [cycle |-> None, status |-> "NOT_STARTED"]]
  /\ result = [a \in Assignments |-> None]
  /\ evidence = {}
  /\ blobs = {}
  /\ req = [q \in Requests |-> Idle]
  /\ overtaken = {} /\ apart = {}

Exists(a) == asg[a].cycle # None

\* The request loads a row and is left with op, the loaded status and the
\* status it is to write.
Begin(q, op, on, loaded, body) ==
  /\ req[q] = Idle
  /\ req' = [req EXCEPT ![q] = [op |-> op, on |-> on, loaded |-> loaded,
                                body |-> body, found |-> None]]
  /\ UNCHANGED overtaken

End(q) ==
  /\ req' = [req EXCEPT ![q] = Idle]
  /\ overtaken' = overtaken \ {q}

\* The request commits to its execution, ahead of the others on it.
Overtake(q) ==
  /\ req' = [req EXCEPT ![q] = Idle]
  /\ overtaken' = (overtaken \cup {p \in Requests : req[p].on = req[q].on}) \ {q}

\* The ORM's UPDATE of a status column: omitted when the value is the loaded one.
Updated(stored, loaded, value) == IF value = loaded THEN stored ELSE value

(***************************************************************************)
(* Cycles                                                                  *)
(***************************************************************************)

CreateCycle(c) ==
  /\ cycle[c] = "ABSENT"
  /\ cycle' = [cycle EXCEPT ![c] = "DRAFT"]
  /\ UNCHANGED <<req, overtaken, executions>>

\* Mutant: a LOCKED cycle can be edited.
UpdateCycle_Locked(q, c) ==
  /\ cycle[c] # "ABSENT"
  /\ \E s \in CycleStatus : Begin(q, "cycle", c, cycle[c], s)
  /\ UNCHANGED <<cycle, executions>>

\* update_cycle: a body without a status leaves it as loaded.
UpdateCycle(q, c) ==
  /\ cycle[c] \notin {"ABSENT", "LOCKED"}
  /\ \E s \in CycleStatus : Begin(q, "cycle", c, cycle[c], s)
  /\ UNCHANGED <<cycle, executions>>

ActivateCycle(q, c) ==
  /\ cycle[c] = "DRAFT"
  /\ Begin(q, "cycle", c, cycle[c], "ACTIVE")
  /\ UNCHANGED <<cycle, executions>>

\* close_cycle asks nothing of the status.
CloseCycle(q, c) ==
  /\ cycle[c] # "ABSENT"
  /\ Begin(q, "cycle", c, cycle[c], "LOCKED")
  /\ UNCHANGED <<cycle, executions>>

CommitCycle(q) ==
  /\ req[q].op = "cycle"
  /\ cycle' = [cycle EXCEPT ![req[q].on] = Updated(@, req[q].loaded, req[q].body)]
  /\ End(q)
  /\ UNCHANGED executions

(***************************************************************************)
(* Executions                                                              *)
(***************************************************************************)

\* add_execution, and bulk_assign for several in one transaction: the cycle's
\* foreign key is all that is asked of the cycle.
AddExecutions(c, new) ==
  /\ cycle[c] # "ABSENT"
  /\ \A a \in new : ~Exists(a)
  /\ asg' = [a \in Assignments |->
               IF a \in new THEN [cycle |-> c, status |-> "NOT_STARTED"] ELSE asg[a]]
  /\ UNCHANGED <<cycle, result, evidence, blobs, req, overtaken, apart>>

\* log_result and update_assignment.
LogResult(q, a) ==
  /\ Exists(a)
  /\ \E s \in Outcomes : Begin(q, "log", a, asg[a].status, s)
  /\ UNCHANGED <<cycle, executions>>

CommitLog(q) ==
  /\ req[q].op = "log"
  /\ asg' = [asg EXCEPT ![req[q].on].status = Updated(@, req[q].loaded, req[q].body)]
  /\ apart' = apart \cup {req[q].on}
  /\ Overtake(q)
  /\ UNCHANGED <<cycle, result, evidence, blobs>>

SubmitResult(q, a) ==
  /\ Exists(a)
  /\ \E s \in Outcomes : Begin(q, "submit", a, asg[a].status, s)
  /\ UNCHANGED <<cycle, executions>>

\* The second statement of submit_result: is there a result already?
FindResult(q) ==
  /\ req[q].op = "submit"
  /\ req' = [req EXCEPT ![q] = [op |-> "write", on |-> @.on, loaded |-> @.loaded,
                                body |-> @.body, found |-> result[@.on]]]
  /\ UNCHANGED <<cycle, overtaken, executions>>

\* Mutant: a result that is there keeps its status.
WriteSubmission_KeepResult(q) ==
  LET a == req[q].on
      s == req[q].body
  IN  /\ asg' = [asg EXCEPT ![a].status = Updated(@, req[q].loaded, s)]
      /\ result' = [result EXCEPT ![a] = IF req[q].found = None THEN s ELSE @]
      /\ apart' = IF q \in overtaken THEN apart \cup {a} ELSE apart \ {a}
      /\ Overtake(q)

WriteSubmission(q) ==
  LET a == req[q].on
      s == req[q].body
  IN  /\ asg' = [asg EXCEPT ![a].status = Updated(@, req[q].loaded, s)]
      /\ result' = [result EXCEPT ![a] =
                      IF req[q].found = None THEN s ELSE Updated(@, req[q].found, s)]
      /\ apart' = IF q \in overtaken THEN apart \cup {a} ELSE apart \ {a}
      /\ Overtake(q)

\* Mutant: assignment_id is not unique.
CommitSubmit_Upsert(q) ==
  /\ req[q].op = "write"
  /\ WriteSubmission(q)
  /\ UNCHANGED <<cycle, evidence, blobs>>

\* An insert that meets a row violates unique(assignment_id) and rolls the
\* whole transaction back (RejectSubmit).
CommitSubmit(q) ==
  /\ req[q].op = "write"
  /\ req[q].found = None => result[req[q].on] = None
  /\ WriteSubmission(q)
  /\ UNCHANGED <<cycle, evidence, blobs>>

RejectSubmit(q) ==
  /\ req[q].op = "write"
  /\ req[q].found = None
  /\ result[req[q].on] # None
  /\ End(q)
  /\ UNCHANGED <<cycle, executions>>

(***************************************************************************)
(* Evidence                                                                *)
(***************************************************************************)

\* upload_evidence needs a result to attach to.
UploadEvidence(q, a) ==
  /\ Exists(a)
  /\ result[a] # None
  /\ \E f \in Files : Begin(q, "upload", a, None, f)
  /\ UNCHANGED <<cycle, executions>>

\* Mutant: a failed upload is only logged.
StoreBlob_Swallow(q) ==
  /\ req[q].op = "upload"
  /\ req' = [req EXCEPT ![q].op = "attach"]
  /\ UNCHANGED <<cycle, overtaken, executions>>

\* BlobService.upload replaces a blob of the same path.
StoreBlob(q) ==
  /\ req[q].op = "upload"
  /\ blobs' = blobs \cup {[asg |-> req[q].on, file |-> req[q].body]}
  /\ req' = [req EXCEPT ![q].op = "attach"]
  /\ UNCHANGED <<cycle, asg, result, evidence, overtaken, apart>>

AttachEvidence(q) ==
  /\ req[q].op = "attach"
  /\ evidence' = evidence \cup {[asg |-> req[q].on, file |-> req[q].body]}
  /\ End(q)
  /\ UNCHANGED <<cycle, asg, result, blobs, apart>>

\* An exception, a lost connection or the end of the process: the transaction
\* is rolled back, a stored blob stays.
Rollback(q) ==
  /\ req[q] # Idle
  /\ End(q)
  /\ UNCHANGED <<cycle, executions>>

-----------------------------------------------------------------------------

Manage(q) ==
  \/ \E c \in Cycles : UpdateCycle(q, c) \/ ActivateCycle(q, c) \/ CloseCycle(q, c)
  \/ CommitCycle(q)

Execute(q) ==
  \/ \E a \in Assignments : LogResult(q, a) \/ SubmitResult(q, a) \/ UploadEvidence(q, a)
  \/ CommitLog(q)
  \/ FindResult(q) \/ CommitSubmit(q) \/ RejectSubmit(q)
  \/ StoreBlob(q) \/ AttachEvidence(q)

Next ==
  \/ \E c \in Cycles :
        \/ CreateCycle(c)
        \/ \E new \in (SUBSET Assignments) \ {{}} : AddExecutions(c, new)
  \/ \E q \in Requests : Manage(q) \/ Execute(q) \/ Rollback(q)

Spec == Init /\ [][Next]_vars

(***************************************************************************)
(* Properties                                                              *)
(***************************************************************************)

RequestStates ==
  {Idle}
  \cup [op : {"cycle"}, on : Cycles, loaded : CycleStatus, body : CycleStatus, found : {None}]
  \cup [op : {"log", "submit"}, on : Assignments, loaded : Outcomes, body : Outcomes,
        found : {None}]
  \cup [op : {"write"}, on : Assignments, loaded : Outcomes, body : Outcomes,
        found : Outcomes \cup {None}]
  \cup [op : {"upload", "attach"}, on : Assignments, loaded : {None}, body : Files,
        found : {None}]

\* Every variable keeps its type, and so does what each request carries.
TypeOK ==
  /\ cycle \in [Cycles -> CycleStatus \cup {"ABSENT"}]
  /\ asg \in [Assignments -> [cycle : Cycles \cup {None}, status : Outcomes]]
  /\ result \in [Assignments -> Outcomes \cup {None}]
  /\ evidence \subseteq [asg : Assignments, file : Files]
  /\ blobs \subseteq [asg : Assignments, file : Files]
  /\ req \in [Requests -> RequestStates]
  /\ overtaken \subseteq Requests /\ apart \subseteq Assignments

\* A row of execution_evidence never dangles: its file is in blob storage and
\* the execution has a result to hold it, although file and row are written to
\* two stores and either request may be rolled back in between.
EvidenceIsBacked ==
  \A e \in evidence : e \in blobs /\ result[e.asg] # None

\* Requests that loaded the cycle before it was locked and may still write it.
Stale(c) ==
  {q \in Requests : req[q].op = "cycle" /\ req[q].on = c /\ req[q].loaded # "LOCKED"}

\* "LOCKED cycles cannot be modified": true once the requests that loaded the
\* cycle before it was locked are over.  They are the only ones to reopen it.
LockSettles ==
  [][\A c \in Cycles : cycle[c] = "LOCKED" /\ Stale(c) = {} =>
       cycle'[c] = "LOCKED" /\ Stale(c)' = {}]_vars

\* A result is replaced only by a submission that saw one: of two testers'
\* first submissions the later is refused, whole, by the unique key.
NoBlindOverwrite ==
  [][\A a \in Assignments : result[a] # None /\ result'[a] # result[a] =>
       \E q \in Requests : req[q].op = "write" /\ req[q].on = a /\ req[q].found # None]_vars

\* "Update assignment status to match result": they match in every execution that was
\* last written by a submission no other commit on the execution overtook, whatever was
\* done to it before.  Only log_result, or a submission that read before another one's
\* commit and so may leave out a column, takes them apart.
StatusMatchesResult ==
  \A a \in Assignments : result[a] # None /\ a \notin apart => asg[a].status = result[a]

(***************************************************************************)
(* The inductive invariant                                                 *)
(***************************************************************************)

\* What a request in flight has made sure of: the result an upload will hang
\* on exists and is never removed, the file to attach is stored, and whoever
\* loaded a LOCKED cycle writes nothing else.
RequestInv ==
  \A q \in Requests :
    /\ req[q].op \in {"upload", "attach"} => result[req[q].on] # None
    /\ req[q].op = "attach" => [asg |-> req[q].on, file |-> req[q].body] \in blobs
    /\ req[q].op = "cycle" /\ req[q].loaded = "LOCKED" => req[q].body = "LOCKED"

\* Only executions that exist are worked on, and what a request that was not overtaken
\* has read of them is current.
ReadsInv ==
  /\ \A a \in Assignments : result[a] # None => Exists(a)
  /\ \A q \in Requests :
       req[q].op \in {"log", "submit", "write"} =>
         /\ Exists(req[q].on)
         /\ q \notin overtaken => req[q].loaded = asg[req[q].on].status
  /\ \A q \in Requests \ overtaken :
       req[q].op = "write" => req[q].found = result[req[q].on]

IInv == TypeOK /\ EvidenceIsBacked /\ RequestInv /\ ReadsInv /\ StatusMatchesResult

=============================================================================
