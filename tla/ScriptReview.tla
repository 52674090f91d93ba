---------------------------- MODULE ScriptReview ----------------------------
(***************************************************************************)
(* The review of generated test scripts in the KAATS backend: documents of *)
(* Cosmos DB that reviewers submit, approve and reject (TestScriptService) *)
(* while the worker may still write them: a message that is delivered      *)
(* again upserts the job's documents once more.                            *)
(*                                                                         *)
(* A transition reads a document, changes the copy and replaces the whole  *)
(* document, without an ETag.  create_script and update_script never store *)
(* anything: they read body.tags, which neither request body has.          *)
(***************************************************************************)
EXTENDS Naturals, FiniteSets

CONSTANTS
  Scripts,      \* ids of generated documents (ts-gen-...)
  Users,        \* the reviewers
  Requests,     \* the requests that can be open at a time
  MaxDelivery,  \* how often a job's message is delivered at most
  None

ASSUME DeliveryAssumption == MaxDelivery \in Nat \ {0}
ASSUME NoneAssumption == None \notin Scripts \cup Users

VARIABLES
  doc,       \* Cosmos DB: each document; its content is the attempt that wrote it
  attempts,  \* how many attempts of the job have stored the document
  req,       \* the requests in flight, with the copy each has read
  reviewed   \* history: the contents of each document that have been IN_REVIEW

vars == <<doc, attempts, req, reviewed>>

\* LOCKED is never set.
Statuses == {"DRAFT", "IN_REVIEW", "APPROVED", "REJECTED"}

Docs == [status : Statuses, content : 1 .. MaxDelivery,
         approved_by : Users \cup {None}, rejection_comments : BOOLEAN]

Idle == [op |-> "idle", script |-> None, doc |-> None]

Init ==
  /\ doc = [s \in Scripts |-> None]
  /\ attempts = [s \in Scripts |-> 0]
  /\ req = [q \in Requests |-> Idle]
  /\ reviewed = [s \in Scripts |-> {}]

Exists(s) == doc[s] # None

Generated(n) ==
  [status |-> "DRAFT", content |-> n, approved_by |-> None, rejection_comments |-> FALSE]

\* The worker's upsert: a draft, whatever has become of the document.
StoreTestScript(s) ==
  /\ attempts[s] < MaxDelivery
  /\ doc' = [doc EXCEPT ![s] = Generated(attempts[s] + 1)]
  /\ attempts' = [attempts EXCEPT ![s] = @ + 1]
  /\ UNCHANGED <<req, reviewed>>

DeleteScript(s) ==
  /\ Exists(s)
  /\ doc' = [doc EXCEPT ![s] = None]
  /\ UNCHANGED <<attempts, req, reviewed>>

-----------------------------------------------------------------------------

\* read_item, and the check of the status read.
Load(q, op, s, allowed) ==
  /\ req[q] = Idle
  /\ Exists(s)
  /\ doc[s].status \in allowed
  /\ req' = [req EXCEPT ![q] = [op |-> op, script |-> s, doc |-> doc[s]]]
  /\ UNCHANGED <<doc, attempts, reviewed>>

\* replace_item: raises when the document is gone.
Replace(q, new) ==
  LET s == req[q].script
  IN  /\ doc' = IF Exists(s) THEN [doc EXCEPT ![s] = new] ELSE doc
      /\ reviewed' = IF Exists(s) /\ new.status = "IN_REVIEW"
                       THEN [reviewed EXCEPT ![s] = @ \cup {new.content}]
                       ELSE reviewed
      /\ req' = [req EXCEPT ![q] = Idle]
      /\ UNCHANGED attempts

\* Mutant: the status is not checked.
SubmitForReview_Any(q, s) == Load(q, "submit", s, Statuses)

SubmitForReview(q, s) == Load(q, "submit", s, {"DRAFT"})

ApproveScript(q, s) == Load(q, "approve", s, {"IN_REVIEW"})

\* Mutant: a decision can be revised.
RejectScript_Decided(q, s) == Load(q, "reject", s, {"IN_REVIEW", "APPROVED", "REJECTED"})

RejectScript(q, s) == Load(q, "reject", s, {"IN_REVIEW"})

StoreSubmission(q) ==
  /\ req[q].op = "submit"
  /\ Replace(q, [req[q].doc EXCEPT !.status = "IN_REVIEW"])

\* Mutant: only the fields of the decision are written (patch_item).
StoreApproval_Patch(q) ==
  /\ req[q].op = "approve"
  /\ \E u \in Users :
       Replace(q, [doc[req[q].script] EXCEPT !.status = "APPROVED", !.approved_by = u])

StoreApproval(q) ==
  /\ req[q].op = "approve"
  /\ \E u \in Users :
       Replace(q, [req[q].doc EXCEPT !.status = "APPROVED", !.approved_by = u])

StoreRejection(q) ==
  /\ req[q].op = "reject"
  /\ Replace(q, [req[q].doc EXCEPT !.status = "REJECTED", !.rejection_comments = TRUE])

\* The request is cancelled, or a call to Cosmos DB raises.
Abort(q) ==
  /\ req[q] # Idle
  /\ req' = [req EXCEPT ![q] = Idle]
  /\ UNCHANGED <<doc, attempts, reviewed>>

-----------------------------------------------------------------------------

Review(q) ==
  \/ \E s \in Scripts : SubmitForReview(q, s) \/ ApproveScript(q, s) \/ RejectScript(q, s)
  \/ StoreSubmission(q) \/ StoreApproval(q) \/ StoreRejection(q)
  \/ Abort(q)

Next ==
  \/ \E s \in Scripts : StoreTestScript(s) \/ DeleteScript(s)
  \/ \E q \in Requests : Review(q)

Spec == Init /\ [][Next]_vars

(***************************************************************************)
(* Properties                                                              *)
(***************************************************************************)

RequestStates ==
  {Idle} \cup [op : {"submit", "approve", "reject"}, script : Scripts, doc : Docs]

\* Every variable keeps its type; a document's content is one of the attempts
\* the broker allows.
TypeOK ==
  /\ doc \in [Scripts -> Docs \cup {None}]
  /\ attempts \in [Scripts -> 0 .. MaxDelivery]
  /\ req \in [Requests -> RequestStates]
  /\ reviewed \in [Scripts -> SUBSET (1 .. MaxDelivery)]

\* A document names an approver exactly when it is APPROVED and carries
\* rejection comments exactly when it is REJECTED, although concurrent
\* transitions and the worker overwrite each other.
DecisionRecorded ==
  \A s \in Scripts :
    Exists(s) =>
      /\ doc[s].status = "APPROVED" <=> doc[s].approved_by # None
      /\ doc[s].status = "REJECTED" <=> doc[s].rejection_comments

\* What is approved or rejected has been submitted for review: a decision
\* never lands on the content of an attempt that no one has submitted.
DecidedWasReviewed ==
  \A s \in Scripts :
    Exists(s) /\ doc[s].status # "DRAFT" => doc[s].content \in reviewed[s]

\* Requests in flight that hold a copy of the document.
Copies(s) == {q \in Requests : req[q].script = s}

\* A decision settles: once no request holds a copy from before it, the
\* document changes only by deletion or by another attempt of the worker.
DecisionSettles ==
  [][\A s \in Scripts :
       Exists(s) /\ doc[s].status \in {"APPROVED", "REJECTED"} /\ Copies(s) = {} =>
         \/ doc'[s] = None
         \/ attempts'[s] > attempts[s]
         \/ doc'[s] = doc[s] /\ Copies(s)' = {}]_vars

(***************************************************************************)
(* The inductive invariant                                                 *)
(***************************************************************************)

\* A copy keeps the status that was checked, carries no decision, and has been
\* reviewed if it is to be decided on.
CopyInv ==
  \A q \in Requests :
    req[q] # Idle =>
      /\ req[q].doc.status = IF req[q].op = "submit" THEN "DRAFT" ELSE "IN_REVIEW"
      /\ req[q].doc.approved_by = None
      /\ ~req[q].doc.rejection_comments
      /\ req[q].op # "submit" => req[q].doc.content \in reviewed[req[q].script]

IInv == TypeOK /\ DecisionRecorded /\ DecidedWasReviewed /\ CopyInv

=============================================================================
