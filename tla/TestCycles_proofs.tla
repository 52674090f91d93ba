-------------------------- MODULE TestCycles_proofs --------------------------
(***************************************************************************)
(* Proofs about TestCycles, for any number of cycles, executions, files    *)
(* and open transactions.                                                  *)
(***************************************************************************)
EXTENDS TestCycles, TLAPS

LEMMA IdleState == Idle \in RequestStates /\ Idle.op = "idle"
BY DEF Idle, RequestStates

(* What the op of a request says about its other fields. *)
LEMMA RequestShape ==
  ASSUME NEW r \in RequestStates
  PROVE  /\ r.op \in {"idle", "cycle", "log", "submit", "write", "upload", "attach"}
         /\ r.op = "idle" <=> r = Idle
         /\ r.op = "cycle" => r.on \in Cycles /\ r.loaded \in CycleStatus /\ r.body \in CycleStatus
         /\ r.op \in {"log", "submit", "write"} =>
              r.on \in Assignments /\ r.loaded \in Outcomes /\ r.body \in Outcomes
         /\ r.op = "write" => r.found \in Outcomes \cup {None}
         /\ r.op \in {"upload", "attach"} => r.on \in Assignments /\ r.body \in Files
BY DEF RequestStates, Idle

(* StoreBlob moves a request on and keeps its other fields. *)
LEMMA RequestMoves ==
  ASSUME NEW r \in RequestStates, r.op = "upload"
  PROVE  /\ [r EXCEPT !.op = "attach"] \in RequestStates
         /\ [r EXCEPT !.op = "attach"].op = "attach"
         /\ [r EXCEPT !.op = "attach"].on = r.on
         /\ [r EXCEPT !.op = "attach"].body = r.body
BY DEF RequestStates, Idle

(* Beginning and ending a request touch that request only. *)
LEMMA BeginStep ==
  ASSUME TypeOK, NEW q \in Requests, NEW op, NEW on, NEW loaded, NEW body,
         Begin(q, op, on, loaded, body)
  PROVE  /\ req'[q] = [op |-> op, on |-> on, loaded |-> loaded, body |-> body, found |-> None]
         /\ \A p \in Requests \ {q} : req'[p] = req[p]
         /\ req[q] = Idle
BY DEF TypeOK, Begin

LEMMA EndStep ==
  ASSUME TypeOK, NEW q \in Requests, End(q) \/ Overtake(q)
  PROVE  /\ req'[q] = Idle
         /\ \A p \in Requests \ {q} : req'[p] = req[p]
         /\ req' \in [Requests -> RequestStates]
         /\ overtaken' \subseteq Requests
BY IdleState DEF TypeOK, End, Overtake

LEMMA BeginTyped ==
  ASSUME TypeOK, NEW q \in Requests, NEW op, NEW on, NEW loaded, NEW body,
         Begin(q, op, on, loaded, body),
         [op |-> op, on |-> on, loaded |-> loaded, body |-> body, found |-> None] \in RequestStates
  PROVE  req' \in [Requests -> RequestStates]
BY DEF TypeOK, Begin

LEMMA UpdatedTyped ==
  ASSUME NEW S, NEW x \in S, NEW y \in S, NEW z
  PROVE  Updated(x, z, y) \in S
BY DEF Updated

(* A step of one request that writes no execution: what the others read stays current. *)
LEMMA QuietReads ==
  ASSUME IInv, NEW q \in Requests, UNCHANGED <<asg, result, apart>>,
         \A p \in Requests \ {q} : req'[p] = req[p], overtaken \ {q} \subseteq overtaken',
         req'[q].op \in {"log", "submit", "write"} =>
           /\ Exists(req'[q].on)
           /\ q \notin overtaken' => req'[q].loaded = asg[req'[q].on].status,
         q \notin overtaken' /\ req'[q].op = "write" => req'[q].found = result[req'[q].on]
  PROVE  ReadsInv' /\ StatusMatchesResult'
<1>1. ReadsInv /\ StatusMatchesResult
  BY DEF IInv
<1>2. \A a : Exists(a)' <=> Exists(a)
  BY DEF Exists
<1>3. ASSUME NEW p \in Requests
      PROVE  /\ req'[p].op \in {"log", "submit", "write"} =>
                  /\ Exists(req'[p].on)
                  /\ p \notin overtaken' => req'[p].loaded = asg'[req'[p].on].status
             /\ p \notin overtaken' /\ req'[p].op = "write" => req'[p].found = result'[req'[p].on]
  <2>1. CASE p = q
    BY <2>1
  <2>2. CASE p # q
    BY <1>1, <2>2 DEF ReadsInv
  <2> QED BY <2>1, <2>2
<1>4. \A a \in Assignments : result'[a] # None => Exists(a)'
  BY <1>1, <1>2 DEF ReadsInv
<1>5. ReadsInv'
  BY <1>2, <1>3, <1>4 DEF ReadsInv
<1>6. StatusMatchesResult'
  BY <1>1 DEF StatusMatchesResult
<1> QED BY <1>5, <1>6

(* The same for a request that ends. *)
LEMMA EndReads ==
  ASSUME IInv, NEW q \in Requests, End(q), UNCHANGED <<asg, result, apart>>
  PROVE  ReadsInv' /\ StatusMatchesResult'
<1>1. TypeOK
  BY DEF IInv
<1>2. req'[q].op = "idle" /\ \A p \in Requests \ {q} : req'[p] = req[p]
  BY <1>1, EndStep, IdleState
<1>3. overtaken \ {q} \subseteq overtaken'
  BY DEF End
<1> QED BY <1>2, <1>3, QuietReads

(* A commit to an execution: those that have read it are overtaken. *)
LEMMA OvertakeReads ==
  ASSUME IInv, NEW q \in Requests, NEW a \in Assignments, req[q].on = a, Overtake(q), Exists(a),
         asg' \in [Assignments -> [cycle : Cycles \cup {None}, status : Outcomes]],
         \A b \in Assignments : asg'[b].cycle = asg[b].cycle,
         \A b \in Assignments \ {a} : asg'[b] = asg[b] /\ result'[b] = result[b]
  PROVE  ReadsInv'
<1>1. ReadsInv /\ TypeOK
  BY DEF IInv
<1>2. \A b \in Assignments : Exists(b)' <=> Exists(b)
  BY DEF Exists
<1>3. /\ req'[q].op = "idle" /\ \A p \in Requests \ {q} : req'[p] = req[p]
      /\ \A p \in Requests \ {q} : p \notin overtaken' => p \notin overtaken /\ req[p].on # a
  BY <1>1, EndStep, IdleState DEF Overtake
<1>4. ASSUME NEW p \in Requests
      PROVE  /\ req'[p].op \in {"log", "submit", "write"} =>
                  /\ asg'[req'[p].on].cycle # None
                  /\ p \notin overtaken' => req'[p].loaded = asg'[req'[p].on].status
             /\ p \notin overtaken' /\ req'[p].op = "write" => req'[p].found = result'[req'[p].on]
  <2>1. CASE p = q
    BY <1>3, <2>1
  <2>2. CASE p # q
    <3>1. req[p].op \in {"log", "submit", "write"} => req[p].on \in Assignments
      BY <1>1, RequestShape DEF TypeOK
    <3>2. \A b \in Assignments : asg'[b].cycle # None <=> Exists(b)
      BY DEF Exists
    <3> QED BY <1>1, <1>3, <2>2, <3>1, <3>2 DEF ReadsInv
  <2> QED BY <2>1, <2>2
<1>5. \A b \in Assignments : result'[b] # None => Exists(b)'
  BY <1>1, <1>2 DEF ReadsInv
<1> QED BY <1>4, <1>5 DEF ReadsInv, Exists

-----------------------------------------------------------------------------

LEMMA InitIInv == Init => IInv
<1> SUFFICES ASSUME Init PROVE IInv
  OBVIOUS
<1>1. TypeOK
  BY IdleState, OutcomesAssumption DEF Init, TypeOK
<1>2. EvidenceIsBacked /\ RequestInv
  BY IdleState DEF Init, EvidenceIsBacked, RequestInv
<1>3. ReadsInv /\ StatusMatchesResult
  BY IdleState DEF Init, ReadsInv, StatusMatchesResult
<1> QED BY <1>1, <1>2, <1>3 DEF IInv

(* Requests about cycles: what they carry, and that LOCKED is written over a
   LOCKED that was loaded. *)
LEMMA ManageStep ==
  ASSUME IInv, NEW q \in Requests, Manage(q)
  PROVE  IInv'
<1>t. TypeOK /\ RequestInv /\ EvidenceIsBacked
  BY DEF IInv
<1>1. ASSUME NEW c \in Cycles, UpdateCycle(q, c) \/ ActivateCycle(q, c) \/ CloseCycle(q, c)
      PROVE  IInv'
  <2>1. PICK s \in CycleStatus :
          /\ Begin(q, "cycle", c, cycle[c], s)
          /\ cycle[c] = "LOCKED" => s = "LOCKED"
    BY <1>1, <1>t DEF UpdateCycle, ActivateCycle, CloseCycle, CycleStatus
  <2>2. cycle[c] \in CycleStatus
    BY <1>1, <1>t DEF UpdateCycle, ActivateCycle, CloseCycle, TypeOK, CycleStatus
  <2>3. UNCHANGED <<cycle, asg, result, evidence, blobs, overtaken, apart>>
    BY <1>1 DEF UpdateCycle, ActivateCycle, CloseCycle, executions, Begin
  <2>4. req' \in [Requests -> RequestStates]
    <3>1. [op |-> "cycle", on |-> c, loaded |-> cycle[c], body |-> s, found |-> None]
            \in RequestStates
      BY <2>2 DEF RequestStates
    <3> QED BY <3>1, <2>1, <1>t, BeginTyped
  <2>5. TypeOK'
    BY <2>3, <2>4, <1>t DEF TypeOK
  <2>6. EvidenceIsBacked'
    BY <2>3, <1>t DEF EvidenceIsBacked
  <2>7. /\ req'[q] = [op |-> "cycle", on |-> c, loaded |-> cycle[c], body |-> s, found |-> None]
        /\ \A p \in Requests \ {q} : req'[p] = req[p]
    BY <2>1, <1>t, BeginStep
  <2>8. RequestInv'
    BY <2>1, <2>3, <2>7, <1>t DEF RequestInv
  <2>9. ReadsInv' /\ StatusMatchesResult'
    BY <2>3, <2>7, QuietReads
  <2> QED BY <2>5, <2>6, <2>8, <2>9 DEF IInv
<1>2. CASE CommitCycle(q)
  <2>1. End(q) /\ UNCHANGED <<asg, result, evidence, blobs, apart>>
    BY <1>2 DEF CommitCycle, executions
  <2>2. req[q] \in RequestStates /\ req[q].op = "cycle"
    BY <1>2, <1>t DEF CommitCycle, TypeOK
  <2>3. req[q].on \in Cycles /\ req[q].body \in CycleStatus
    BY <2>2, RequestShape
  <2>4. Updated(cycle[req[q].on], req[q].loaded, req[q].body) \in CycleStatus \cup {"ABSENT"}
    BY <2>3, <1>t DEF TypeOK, Updated
  <2>5. cycle' \in [Cycles -> CycleStatus \cup {"ABSENT"}]
    BY <1>2, <2>3, <2>4, <1>t DEF CommitCycle, TypeOK
  <2>6. TypeOK'
    BY <2>1, <2>5, <1>t, EndStep DEF TypeOK
  <2>7. EvidenceIsBacked' /\ RequestInv'
    BY <2>1, <1>t, EndStep, IdleState DEF EvidenceIsBacked, RequestInv
  <2>8. ReadsInv' /\ StatusMatchesResult'
    BY <2>1, EndReads
  <2> QED BY <2>6, <2>7, <2>8 DEF IInv
<1> QED BY <1>1, <1>2 DEF Manage

(* Beginning to work on an execution. *)
LEMMA BeginExecutionStep ==
  ASSUME IInv, NEW q \in Requests, NEW a \in Assignments,
         LogResult(q, a) \/ SubmitResult(q, a) \/ UploadEvidence(q, a)
  PROVE  IInv'
<1>t. TypeOK /\ RequestInv /\ EvidenceIsBacked
  BY DEF IInv
<1>1. PICK op, loaded, body :
        /\ op \in {"log", "submit", "upload"}
        /\ Begin(q, op, a, loaded, body)
        /\ op \in {"log", "submit"} => loaded = asg[a].status /\ body \in Outcomes
        /\ op = "upload" => loaded = None /\ body \in Files /\ result[a] # None
        /\ Exists(a)
  BY DEF LogResult, SubmitResult, UploadEvidence
<1>2. UNCHANGED <<cycle, asg, result, evidence, blobs, overtaken, apart>>
  BY DEF LogResult, SubmitResult, UploadEvidence, executions, Begin
<1> DEFINE new == [op |-> op, on |-> a, loaded |-> loaded, body |-> body, found |-> None]
<1>3. asg[a].status \in Outcomes
  BY <1>t DEF TypeOK
<1>4. new \in RequestStates
  BY <1>1, <1>3 DEF RequestStates
<1>5. req' \in [Requests -> RequestStates]
  BY <1>1, <1>4, <1>t, BeginTyped
<1>6. req'[q] = new /\ \A p \in Requests \ {q} : req'[p] = req[p]
  BY <1>1, <1>t, BeginStep
<1>7. TypeOK'
  BY <1>2, <1>5, <1>t DEF TypeOK
<1>8. EvidenceIsBacked' /\ RequestInv'
  BY <1>1, <1>2, <1>6, <1>t DEF EvidenceIsBacked, RequestInv
<1>9. ReadsInv' /\ StatusMatchesResult'
  BY <1>1, <1>2, <1>6, QuietReads
<1> QED BY <1>7, <1>8, <1>9 DEF IInv

(* Requests that end without a write. *)
LEMMA EndOnlyStep ==
  ASSUME IInv, NEW q \in Requests, RejectSubmit(q) \/ Rollback(q)
  PROVE  IInv'
<1>t. TypeOK /\ RequestInv /\ EvidenceIsBacked
  BY DEF IInv
<1>1. End(q) /\ UNCHANGED <<cycle, asg, result, evidence, blobs, apart>>
  BY DEF RejectSubmit, Rollback, executions
<1>2. TypeOK'
  BY <1>1, <1>t, EndStep DEF TypeOK
<1>3. EvidenceIsBacked' /\ RequestInv'
  BY <1>1, <1>t, EndStep, IdleState DEF EvidenceIsBacked, RequestInv
<1>4. ReadsInv' /\ StatusMatchesResult'
  BY <1>1, EndReads
<1> QED BY <1>2, <1>3, <1>4 DEF IInv

(* A submission: a result that is there is never taken away. *)
LEMMA CommitSubmitStep ==
  ASSUME IInv, NEW q \in Requests, CommitSubmit(q)
  PROVE  IInv'
<1>t. TypeOK /\ RequestInv /\ EvidenceIsBacked
  BY DEF IInv
<1> DEFINE a == req[q].on
           s == req[q].body
<1>1. req[q] \in RequestStates /\ req[q].op = "write"
  BY <1>t DEF CommitSubmit, TypeOK
<1>2. a \in Assignments /\ s \in Outcomes /\ req[q].found \in Outcomes \cup {None}
  BY <1>1, RequestShape
<1>3. Overtake(q) /\ UNCHANGED <<cycle, evidence, blobs>>
  BY DEF CommitSubmit, WriteSubmission
<1>4. asg' \in [Assignments -> [cycle : Cycles \cup {None}, status : Outcomes]]
  <2>1. asg' = [asg EXCEPT ![a].status = Updated(@, req[q].loaded, s)]
    BY DEF CommitSubmit, WriteSubmission
  <2>2. Updated(asg[a].status, req[q].loaded, s) \in Outcomes
    BY <1>2, <1>t DEF TypeOK, Updated
  <2> QED BY <2>1, <2>2, <1>2, <1>t DEF TypeOK
<1> DEFINE x == IF req[q].found = None THEN s ELSE Updated(result[a], req[q].found, s)
<1>5. result' = [result EXCEPT ![a] = x]
  BY DEF CommitSubmit, WriteSubmission
<1>6. x \in Outcomes \cup {None} /\ (result[a] # None => x # None)
  BY <1>2, <1>t, NoneAssumption DEF TypeOK, Updated
<1>7. /\ result' \in [Assignments -> Outcomes \cup {None}]
      /\ \A b \in Assignments : result[b] # None => result'[b] # None
  BY <1>2, <1>5, <1>6, <1>t DEF TypeOK
<1>8. TypeOK'
  <2>1. apart' \subseteq Assignments
    BY <1>2, <1>t DEF CommitSubmit, WriteSubmission, TypeOK
  <2> QED BY <1>3, <1>4, <1>7, <2>1, <1>t, EndStep DEF TypeOK
<1>9. EvidenceIsBacked'
  BY <1>3, <1>7, <1>t DEF EvidenceIsBacked, TypeOK
<1>10. RequestInv'
  <2> SUFFICES ASSUME NEW p \in Requests
               PROVE  RequestInv!(p)'
    BY DEF RequestInv
  <2>1. req'[p] = Idle \/ req'[p] = req[p]
    BY <1>3, <1>t, EndStep
  <2>2. req[p].op \in {"upload", "attach"} => req[p].on \in Assignments
    BY <1>t, RequestShape DEF TypeOK
  <2> QED BY <2>1, <2>2, <1>3, <1>7, <1>t, IdleState DEF RequestInv
<1>11. /\ asg' = [asg EXCEPT ![a] = [asg[a] EXCEPT !.status = Updated(asg[a].status, req[q].loaded, s)]]
       /\ asg[a] \in [cycle : Cycles \cup {None}, status : Outcomes]
  BY <1>2, <1>t DEF CommitSubmit, WriteSubmission, TypeOK
<1>12. /\ asg'[a].status = Updated(asg[a].status, req[q].loaded, s) /\ result'[a] = x
       /\ \A b \in Assignments : asg'[b].cycle = asg[b].cycle
       /\ \A b \in Assignments \ {a} : asg'[b] = asg[b] /\ result'[b] = result[b]
  BY <1>2, <1>5, <1>11, <1>t DEF TypeOK
<1>13. ReadsInv'
  <2>1. Exists(a)
    BY <1>1 DEF IInv, ReadsInv
  <2> HIDE DEF a
  <2> QED BY <1>2, <1>3, <1>4, <1>12, <2>1, OvertakeReads DEF a
<1>14. StatusMatchesResult'
  <2>1. apart' = IF q \in overtaken THEN apart \cup {a} ELSE apart \ {a}
    BY DEF CommitSubmit, WriteSubmission
  <2>2. q \notin overtaken => req[q].loaded = asg[a].status /\ req[q].found = result[a]
    BY <1>1 DEF IInv, ReadsInv
  <2>3. q \notin overtaken => asg'[a].status = s /\ result'[a] = s
    BY <1>12, <2>2 DEF Updated
  <2>4. ASSUME NEW b \in Assignments, result'[b] # None, b \notin apart'
        PROVE  asg'[b].status = result'[b]
    <3>1. CASE b = a
      BY <2>1, <2>3, <2>4, <3>1
    <3>2. CASE b # a
      BY <1>12, <2>1, <2>4, <3>2 DEF IInv, StatusMatchesResult
    <3> QED BY <3>1, <3>2
  <2> QED BY <2>4 DEF StatusMatchesResult
<1> QED BY <1>8, <1>9, <1>10, <1>13, <1>14 DEF IInv

LEMMA CommitLogStep ==
  ASSUME IInv, NEW q \in Requests, CommitLog(q)
  PROVE  IInv'
<1>t. TypeOK /\ RequestInv /\ EvidenceIsBacked
  BY DEF IInv
<1>1. req[q] \in RequestStates /\ req[q].op = "log"
  BY <1>t DEF CommitLog, TypeOK
<1>2. req[q].on \in Assignments /\ req[q].body \in Outcomes
  BY <1>1, RequestShape
<1>3. Overtake(q) /\ UNCHANGED <<cycle, result, evidence, blobs>>
  BY DEF CommitLog
<1>4. asg' \in [Assignments -> [cycle : Cycles \cup {None}, status : Outcomes]]
  <2>1. asg' = [asg EXCEPT ![req[q].on].status = Updated(@, req[q].loaded, req[q].body)]
    BY DEF CommitLog
  <2>2. Updated(asg[req[q].on].status, req[q].loaded, req[q].body) \in Outcomes
    BY <1>2, <1>t DEF TypeOK, Updated
  <2> QED BY <2>1, <2>2, <1>2, <1>t DEF TypeOK
<1>5. TypeOK'
  <2>1. apart' \subseteq Assignments
    BY <1>2, <1>t DEF CommitLog, TypeOK
  <2> QED BY <1>3, <1>4, <2>1, <1>t, EndStep DEF TypeOK
<1>6. EvidenceIsBacked' /\ RequestInv'
  BY <1>3, <1>t, EndStep, IdleState DEF EvidenceIsBacked, RequestInv
<1> DEFINE a == req[q].on
<1>7. /\ \A b \in Assignments : asg'[b].cycle = asg[b].cycle
      /\ \A b \in Assignments \ {a} : asg'[b] = asg[b] /\ result'[b] = result[b]
  BY <1>2, <1>3, <1>t DEF CommitLog, TypeOK
<1>8. ReadsInv'
  <2>1. Exists(a)
    BY <1>1 DEF IInv, ReadsInv
  <2> HIDE DEF a
  <2> QED BY <1>2, <1>3, <1>4, <1>7, <2>1, OvertakeReads DEF a
<1>9. StatusMatchesResult'
  BY <1>3, <1>7 DEF IInv, StatusMatchesResult, CommitLog
<1> QED BY <1>5, <1>6, <1>8, <1>9 DEF IInv

LEMMA FindResultStep ==
  ASSUME IInv, NEW q \in Requests, FindResult(q)
  PROVE  IInv'
<1>t. TypeOK /\ RequestInv /\ EvidenceIsBacked
  BY DEF IInv
<1> DEFINE new == [op |-> "write", on |-> req[q].on, loaded |-> req[q].loaded,
                   body |-> req[q].body, found |-> result[req[q].on]]
<1>1. req[q] \in RequestStates /\ req[q].op = "submit"
  BY <1>t DEF FindResult, TypeOK
<1>2. /\ req[q].on \in Assignments /\ req[q].loaded \in Outcomes
      /\ req[q].body \in Outcomes
  BY <1>1, RequestShape
<1>3. new \in RequestStates
  BY <1>2, <1>t DEF RequestStates, TypeOK
<1>4. /\ req' = [req EXCEPT ![q] = new]
      /\ UNCHANGED <<cycle, asg, result, evidence, blobs, overtaken, apart>>
  BY DEF FindResult, executions
<1>5. TypeOK'
  BY <1>3, <1>4, <1>t DEF TypeOK
<1>6. EvidenceIsBacked'
  BY <1>4, <1>t DEF EvidenceIsBacked
<1>7. RequestInv'
  BY <1>4, <1>t DEF RequestInv, TypeOK
<1>8. ReadsInv' /\ StatusMatchesResult'
  <2>1. req'[q] = new /\ \A p \in Requests \ {q} : req'[p] = req[p]
    BY <1>4, <1>t DEF TypeOK
  <2>2. Exists(req[q].on) /\ (q \notin overtaken => req[q].loaded = asg[req[q].on].status)
    BY <1>1 DEF IInv, ReadsInv
  <2> QED BY <1>4, <2>1, <2>2, QuietReads
<1> QED BY <1>5, <1>6, <1>7, <1>8 DEF IInv

(* Evidence: first the file, then the row. *)
LEMMA StoreBlobStep ==
  ASSUME IInv, NEW q \in Requests, StoreBlob(q)
  PROVE  IInv'
<1>t. TypeOK /\ RequestInv /\ EvidenceIsBacked
  BY DEF IInv
<1>1. req[q] \in RequestStates /\ req[q].op = "upload"
  BY <1>t DEF StoreBlob, TypeOK
<1>2. req[q].on \in Assignments /\ req[q].body \in Files
  BY <1>1, RequestShape
<1> DEFINE new == [req[q] EXCEPT !.op = "attach"]
           file == [asg |-> req[q].on, file |-> req[q].body]
<1>3. /\ req' = [req EXCEPT ![q] = new]
      /\ blobs' = blobs \cup {file}
      /\ UNCHANGED <<cycle, asg, result, evidence, overtaken, apart>>
  BY DEF StoreBlob
<1>4. /\ new \in RequestStates /\ new.op = "attach"
      /\ new.on = req[q].on /\ new.body = req[q].body
  BY <1>1, RequestMoves
<1> HIDE DEF new
<1>5. TypeOK'
  BY <1>2, <1>3, <1>4, <1>t DEF TypeOK
<1>6. EvidenceIsBacked'
  BY <1>3, <1>t DEF EvidenceIsBacked
<1>7. RequestInv'
  BY <1>1, <1>3, <1>4, <1>t DEF RequestInv, TypeOK
<1>8. ReadsInv' /\ StatusMatchesResult'
  <2>1. req'[q].op = "attach" /\ \A p \in Requests \ {q} : req'[p] = req[p]
    BY <1>3, <1>4, <1>t DEF TypeOK
  <2> QED BY <1>3, <2>1, QuietReads
<1> QED BY <1>5, <1>6, <1>7, <1>8 DEF IInv

LEMMA AttachEvidenceStep ==
  ASSUME IInv, NEW q \in Requests, AttachEvidence(q)
  PROVE  IInv'
<1>t. TypeOK /\ RequestInv /\ EvidenceIsBacked
  BY DEF IInv
<1>1. req[q] \in RequestStates /\ req[q].op = "attach"
  BY <1>t DEF AttachEvidence, TypeOK
<1>2. req[q].on \in Assignments /\ req[q].body \in Files
  BY <1>1, RequestShape
<1>3. /\ End(q) /\ UNCHANGED <<cycle, asg, result, blobs, apart>>
      /\ evidence' = evidence \cup {[asg |-> req[q].on, file |-> req[q].body]}
  BY DEF AttachEvidence
<1>4. TypeOK'
  BY <1>2, <1>3, <1>t, EndStep DEF TypeOK
<1>5. EvidenceIsBacked'
  BY <1>1, <1>2, <1>3, <1>t DEF EvidenceIsBacked, RequestInv
<1>6. RequestInv'
  BY <1>3, <1>t, EndStep, IdleState DEF RequestInv
<1>7. ReadsInv' /\ StatusMatchesResult'
  BY <1>3, EndReads
<1> QED BY <1>4, <1>5, <1>6, <1>7 DEF IInv

(* What is done outside a request: a new cycle, new executions. *)
LEMMA CreateStep ==
  ASSUME IInv, NEW c \in Cycles,
         CreateCycle(c) \/ \E new \in (SUBSET Assignments) \ {{}} : AddExecutions(c, new)
  PROVE  IInv'
<1>t. TypeOK /\ RequestInv /\ EvidenceIsBacked
  BY DEF IInv
<1>1. UNCHANGED <<result, evidence, blobs, req, overtaken, apart>>
  BY DEF CreateCycle, AddExecutions, executions
<1>2. cycle' \in [Cycles -> CycleStatus \cup {"ABSENT"}]
  BY <1>t DEF CreateCycle, AddExecutions, TypeOK, CycleStatus
<1>3. asg' \in [Assignments -> [cycle : Cycles \cup {None}, status : Outcomes]]
  BY <1>t, OutcomesAssumption DEF CreateCycle, AddExecutions, executions, TypeOK
<1>4. TypeOK'
  BY <1>1, <1>2, <1>3, <1>t DEF TypeOK
<1>5. EvidenceIsBacked' /\ RequestInv'
  BY <1>1, <1>t DEF EvidenceIsBacked, RequestInv
<1>6. \A a \in Assignments : Exists(a) => asg'[a] = asg[a]
  BY <1>t DEF CreateCycle, AddExecutions, executions, TypeOK
<1>7. \A a \in Assignments : Exists(a) => Exists(a)'
  BY <1>6 DEF Exists
<1>8. \A q \in Requests : req[q].op \in {"log", "submit", "write"} => req[q].on \in Assignments
  BY <1>t, RequestShape DEF TypeOK
<1>9. ReadsInv'
  BY <1>1, <1>6, <1>7, <1>8 DEF IInv, ReadsInv
<1>10. StatusMatchesResult'
  BY <1>1, <1>6 DEF IInv, ReadsInv, StatusMatchesResult
<1> QED BY <1>4, <1>5, <1>9, <1>10 DEF IInv

LEMMA StepIInv == IInv /\ [Next]_vars => IInv'
<1> SUFFICES ASSUME IInv, [Next]_vars PROVE IInv'
  OBVIOUS
<1>1. ASSUME NEW q \in Requests, Execute(q) PROVE IInv'
  BY <1>1, BeginExecutionStep, CommitLogStep, FindResultStep, CommitSubmitStep, EndOnlyStep,
     StoreBlobStep, AttachEvidenceStep DEF Execute
<1>2. CASE UNCHANGED vars
  BY <1>2 DEF vars, IInv, TypeOK, EvidenceIsBacked, RequestInv, ReadsInv, StatusMatchesResult, Exists
<1> QED BY <1>1, <1>2, ManageStep, EndOnlyStep, CreateStep DEF Next

-----------------------------------------------------------------------------

(* The inductive invariant of test cycles holds in every reachable state. *)
THEOREM Invariance == Spec => []IInv
<1> QED BY InitIInv, StepIInv, PTL DEF Spec

(* Every reachable state is well typed. *)
THEOREM TypeCorrect == Spec => []TypeOK
<1>1. IInv => TypeOK
  BY DEF IInv
<1> QED BY <1>1, Invariance, PTL

(* No evidence row dangles: upload_evidence stores the file before the row and
   only for an execution with a result, and results stay. *)
THEOREM EvidenceBacked == Spec => []EvidenceIsBacked
<1>1. IInv => EvidenceIsBacked
  BY DEF IInv
<1> QED BY <1>1, Invariance, PTL

-----------------------------------------------------------------------------

(* A request that is about a cycle after a step was so before, or it has just
   loaded the cycle's status. *)
LEMMA LoadsCurrent ==
  ASSUME IInv, [Next]_vars, NEW p \in Requests, req'[p].op = "cycle"
  PROVE  req'[p] = req[p] \/ req'[p].loaded = cycle[req'[p].on]
<1>t. TypeOK
  BY DEF IInv
<1>1. ASSUME NEW q \in Requests, Manage(q) \/ Execute(q) \/ Rollback(q), q # p
      PROVE  req'[p] = req[p]
  BY <1>1, <1>t DEF Manage, UpdateCycle, ActivateCycle, CloseCycle, CommitCycle, Execute,
     LogResult, SubmitResult, UploadEvidence, CommitLog, FindResult, CommitSubmit,
     RejectSubmit, StoreBlob, AttachEvidence, Rollback, WriteSubmission, Begin, End, Overtake, TypeOK
<1>2. ASSUME NEW c \in Cycles, UpdateCycle(p, c) \/ ActivateCycle(p, c) \/ CloseCycle(p, c)
      PROVE  req'[p].loaded = cycle[req'[p].on]
  <2>1. PICK s : Begin(p, "cycle", c, cycle[c], s)
    BY <1>2 DEF UpdateCycle, ActivateCycle, CloseCycle
  <2>2. req'[p] = [op |-> "cycle", on |-> c, loaded |-> cycle[c], body |-> s, found |-> None]
    BY <2>1, <1>t, BeginStep
  <2> QED BY <2>2
<1>3. CASE \/ CommitCycle(p) \/ CommitLog(p) \/ CommitSubmit(p) \/ RejectSubmit(p)
           \/ AttachEvidence(p) \/ Rollback(p)
  <2>1. End(p) \/ Overtake(p)
    BY <1>3 DEF CommitCycle, CommitLog, CommitSubmit, WriteSubmission, RejectSubmit, AttachEvidence, Rollback
  <2> QED BY <2>1, <1>t, EndStep, IdleState
<1>4. ASSUME NEW a \in Assignments, LogResult(p, a) \/ SubmitResult(p, a) \/ UploadEvidence(p, a)
      PROVE  FALSE
  <2>1. PICK op, loaded, body :
          op \in {"log", "submit", "upload"} /\ Begin(p, op, a, loaded, body)
    BY <1>4 DEF LogResult, SubmitResult, UploadEvidence
  <2>2. req'[p] = [op |-> op, on |-> a, loaded |-> loaded, body |-> body, found |-> None]
    BY <2>1, <1>t, BeginStep
  <2> QED BY <2>1, <2>2
<1>5. CASE FindResult(p) \/ StoreBlob(p)
  <2>1. req'[p].op \in {"write", "attach"}
    <3>1. CASE FindResult(p)
      BY <3>1, <1>t DEF FindResult, TypeOK
    <3>2. CASE StoreBlob(p)
      <4>1. req'[p] = [req[p] EXCEPT !.op = "attach"]
        BY <3>2, <1>t DEF StoreBlob, TypeOK
      <4>2. req[p] \in RequestStates /\ req[p].op = "upload"
        BY <3>2, <1>t DEF StoreBlob, TypeOK
      <4> QED BY <4>1, <4>2, RequestMoves
    <3> QED BY <1>5, <3>1, <3>2
  <2> QED BY <2>1
<1>6. ASSUME NEW c \in Cycles, CreateCycle(c) \/ \E new \in (SUBSET Assignments) \ {{}} : AddExecutions(c, new)
      PROVE  req' = req
  BY <1>6 DEF CreateCycle, AddExecutions
<1>7. CASE UNCHANGED vars
  BY <1>7 DEF vars
<1> QED BY <1>1, <1>2, <1>3, <1>4, <1>5, <1>6, <1>7 DEF Next, Manage, Execute

(* Once the requests that loaded a cycle before it was locked are over, the
   cycle stays LOCKED: every write of the status comes from a request that
   loaded it LOCKED, and update_cycle and activate_cycle refuse to load that. *)
THEOREM LockIsFinal == Spec => LockSettles
<1>1. ASSUME IInv, [Next]_vars, NEW c \in Cycles, cycle[c] = "LOCKED", Stale(c) = {}
      PROVE  cycle'[c] = "LOCKED" /\ Stale(c)' = {}
  <2>t. TypeOK /\ RequestInv
    BY <1>1 DEF IInv
  <2>1. \A q \in Requests : req[q].op = "cycle" /\ req[q].on = c =>
          req[q].loaded = "LOCKED" /\ req[q].body = "LOCKED"
    BY <1>1, <2>t DEF Stale, RequestInv
  <2>2. cycle'[c] = "LOCKED"
    <3>1. ASSUME NEW q \in Requests, CommitCycle(q)
          PROVE  cycle'[c] = "LOCKED"
      <4>1. CASE req[q].on = c
        BY <3>1, <4>1, <2>1, <2>t, <1>1 DEF CommitCycle, Updated, TypeOK
      <4>2. CASE req[q].on # c
        BY <3>1, <4>2, <2>t, <1>1 DEF CommitCycle, TypeOK
      <4> QED BY <4>1, <4>2
    <3>2. ASSUME NEW d \in Cycles, CreateCycle(d)
          PROVE  cycle'[c] = "LOCKED"
      BY <3>2, <2>t, <1>1 DEF CreateCycle, TypeOK
    <3>3. CASE cycle' = cycle
      BY <3>3, <1>1
    <3>4. (\E q \in Requests : CommitCycle(q)) \/ (\E d \in Cycles : CreateCycle(d)) \/ cycle' = cycle
      BY <1>1 DEF Next, vars, AddExecutions, Manage, UpdateCycle, ActivateCycle, CloseCycle,
         Execute, LogResult, SubmitResult, UploadEvidence, CommitLog, FindResult, CommitSubmit,
         RejectSubmit, StoreBlob, AttachEvidence, Rollback
    <3> QED BY <3>1, <3>2, <3>3, <3>4
  <2>3. ASSUME NEW p \in Requests, req'[p].op = "cycle", req'[p].on = c
        PROVE  req'[p].loaded = "LOCKED"
    BY <2>3, <2>1, <1>1, LoadsCurrent
  <2>4. Stale(c)' = {}
    BY <2>3 DEF Stale
  <2> QED BY <2>2, <2>4
<1>2. IInv /\ [Next]_vars =>
        [\A c \in Cycles : cycle[c] = "LOCKED" /\ Stale(c) = {} =>
           cycle'[c] = "LOCKED" /\ Stale(c)' = {}]_vars
  BY <1>1
<1> QED BY <1>2, Invariance, PTL DEF Spec, LockSettles

(* Only a submission that saw a result replaces one. *)
THEOREM NoLostResult == Spec => NoBlindOverwrite
<1>1. ASSUME IInv, [Next]_vars, NEW a \in Assignments, result[a] # None, result'[a] # result[a]
      PROVE  \E q \in Requests : req[q].op = "write" /\ req[q].on = a /\ req[q].found # None
  <2>t. TypeOK
    BY <1>1 DEF IInv
  <2>1. PICK q \in Requests : CommitSubmit(q)
    BY <1>1 DEF Next, vars, executions, CreateCycle, AddExecutions, Manage, UpdateCycle,
       ActivateCycle, CloseCycle, CommitCycle, Execute, LogResult, SubmitResult,
       UploadEvidence, CommitLog, FindResult, RejectSubmit, StoreBlob, AttachEvidence, Rollback
  <2>2. req[q].op = "write" /\ (req[q].found = None => result[req[q].on] = None)
    BY <2>1 DEF CommitSubmit
  <2>3. req[q].on = a
    BY <1>1, <2>1, <2>t DEF CommitSubmit, WriteSubmission, TypeOK
  <2> QED BY <1>1, <2>2, <2>3
<1>2. IInv /\ [Next]_vars =>
        [\A a \in Assignments : result[a] # None /\ result'[a] # result[a] =>
           \E q \in Requests : req[q].op = "write" /\ req[q].on = a /\ req[q].found # None]_vars
  BY <1>1
<1> QED BY <1>2, Invariance, PTL DEF Spec, NoBlindOverwrite

(* An execution that was last written by a submission no other commit overtook has the *)
(* status of its result, although the ORM writes neither column if it was loaded with   *)
(* that value, and whoever else was at work on it before.                               *)
THEOREM SubmissionsAlign == Spec => []StatusMatchesResult
<1>1. IInv => StatusMatchesResult
  BY DEF IInv
<1> QED BY <1>1, Invariance, PTL
=============================================================================
