------------------------- MODULE ScriptReview_proofs ------------------------
(***************************************************************************)
(* The inductive invariant of ScriptReview, and that decisions settle;     *)
(* then the exports beside it. The review does not see the exports: what   *)
(* is proved of it alone holds in every behaviour of the two together, and *)
(* the invariant of the exports is inductive relative to its type          *)
(* invariant.                                                              *)
(***************************************************************************)
EXTENDS Exports, Integers, SequenceTheorems, FiniteSetTheorems, TLAPS

(* What a request holds is idle or a copy of a document. *)
LEMMA CopyShape ==
  ASSUME NEW r \in RequestStates
  PROVE  /\ r = Idle <=> r.op = "idle"
         /\ r # Idle => /\ r.op \in {"submit", "approve", "reject"}
                        /\ r.script \in Scripts
                        /\ r.doc \in Docs
         /\ r = Idle => r.script = None
BY DEF RequestStates, Idle

LEMMA IdleType == Idle \in RequestStates
BY DEF RequestStates

LEMMA InitIInv == Init => IInv
<1> SUFFICES ASSUME Init PROVE IInv
  OBVIOUS
<1>1. TypeOK
  BY IdleType, DeliveryAssumption DEF Init, TypeOK
<1>2. DecisionRecorded /\ DecidedWasReviewed
  BY DEF Init, DecisionRecorded, DecidedWasReviewed, Exists
<1>3. CopyInv
  BY DEF Init, CopyInv
<1> QED BY <1>1, <1>2, <1>3 DEF IInv

-----------------------------------------------------------------------------

(* The worker's upsert: a draft with no decision on it. *)
LEMMA StoreTestScriptStep ==
  ASSUME IInv, NEW s \in Scripts, StoreTestScript(s)
  PROVE  IInv'
<1>t. TypeOK /\ DecisionRecorded /\ DecidedWasReviewed /\ CopyInv
  BY DEF IInv
<1> DEFINE new == Generated(attempts[s] + 1)
<1>1. attempts[s] + 1 \in 1 .. MaxDelivery
  BY <1>t, DeliveryAssumption DEF StoreTestScript, TypeOK
<1>2. /\ new \in Docs /\ new.status = "DRAFT"
      /\ new.approved_by = None /\ ~new.rejection_comments
  BY <1>1 DEF Generated, Docs, Statuses
<1>3. doc' = [doc EXCEPT ![s] = new] /\ UNCHANGED <<req, reviewed>>
  BY DEF StoreTestScript
<1>4. attempts' \in [Scripts -> 0 .. MaxDelivery]
  BY <1>1, <1>t DEF StoreTestScript, TypeOK
<1> HIDE DEF new
<1>5. TypeOK'
  BY <1>2, <1>3, <1>4, <1>t DEF TypeOK
<1>6. \A x \in Scripts : doc'[x] = doc[x] \/ doc'[x] = new
  BY <1>3, <1>t DEF TypeOK
<1>7. DecisionRecorded' /\ DecidedWasReviewed'
  BY <1>2, <1>3, <1>6, <1>t DEF DecisionRecorded, DecidedWasReviewed, Exists
<1>8. CopyInv'
  BY <1>3, <1>t DEF CopyInv
<1> QED BY <1>5, <1>7, <1>8 DEF IInv

LEMMA DeleteScriptStep ==
  ASSUME IInv, NEW s \in Scripts, DeleteScript(s)
  PROVE  IInv'
<1>t. TypeOK /\ DecisionRecorded /\ DecidedWasReviewed /\ CopyInv
  BY DEF IInv
<1>1. TypeOK'
  BY <1>t DEF TypeOK, DeleteScript
<1>2. \A x \in Scripts : doc'[x] = doc[x] \/ doc'[x] = None
  BY <1>t DEF TypeOK, DeleteScript
<1>3. DecisionRecorded' /\ DecidedWasReviewed'
  BY <1>2, <1>t DEF DecisionRecorded, DecidedWasReviewed, Exists, DeleteScript
<1>4. CopyInv'
  BY <1>t DEF CopyInv, DeleteScript
<1> QED BY <1>1, <1>3, <1>4 DEF IInv

(* A request begins with a copy of what is stored. *)
LEMMA LoadStep ==
  ASSUME IInv, NEW q \in Requests, NEW s \in Scripts,
         NEW op \in {"submit", "approve", "reject"}, NEW allowed,
         allowed = IF op = "submit" THEN {"DRAFT"} ELSE {"IN_REVIEW"},
         Load(q, op, s, allowed)
  PROVE  IInv'
<1>t. TypeOK /\ DecisionRecorded /\ DecidedWasReviewed /\ CopyInv
  BY DEF IInv
<1> DEFINE new == [op |-> op, script |-> s, doc |-> doc[s]]
<1>1. doc[s] \in Docs /\ doc[s].status = IF op = "submit" THEN "DRAFT" ELSE "IN_REVIEW"
  BY <1>t DEF Load, TypeOK, Exists
<1>2. doc[s].approved_by = None /\ ~doc[s].rejection_comments
  BY <1>1, <1>t DEF Load, DecisionRecorded, Docs
<1>3. op # "submit" => doc[s].content \in reviewed[s]
  BY <1>1, <1>t DEF Load, DecidedWasReviewed
<1>4. new \in RequestStates
  BY <1>1 DEF RequestStates
<1>5. req' = [req EXCEPT ![q] = new] /\ UNCHANGED <<doc, attempts, reviewed>>
  BY DEF Load
<1>6. TypeOK'
  BY <1>4, <1>5, <1>t DEF TypeOK
<1>7. DecisionRecorded' /\ DecidedWasReviewed'
  BY <1>5, <1>t DEF DecisionRecorded, DecidedWasReviewed, Exists
<1>8. req'[q] = new /\ \A p \in Requests \ {q} : req'[p] = req[p]
  BY <1>5, <1>t DEF TypeOK
<1>9. CopyInv'
  BY <1>1, <1>2, <1>3, <1>5, <1>8, <1>t DEF CopyInv
<1> QED BY <1>6, <1>7, <1>9 DEF IInv

(* Replacing a document keeps the invariant if the new one is in order. *)
LEMMA ReplaceStep ==
  ASSUME IInv, NEW q \in Requests, NEW new \in Docs, req[q] # Idle,
         new.status # "DRAFT",
         new.status = "APPROVED" <=> new.approved_by # None,
         new.status = "REJECTED" <=> new.rejection_comments,
         new.status # "IN_REVIEW" => new.content \in reviewed[req[q].script],
         Replace(q, new)
  PROVE  IInv'
<1>t. TypeOK /\ DecisionRecorded /\ DecidedWasReviewed /\ CopyInv
  BY DEF IInv
<1> DEFINE s == req[q].script
<1>1. s \in Scripts
  BY CopyShape, <1>t DEF TypeOK
<1>2. new.content \in 1 .. MaxDelivery
  BY DEF Docs
<1>3. doc' \in [Scripts -> Docs \cup {None}]
  BY <1>1, <1>t DEF TypeOK, Replace
<1>4. reviewed' \in [Scripts -> SUBSET (1 .. MaxDelivery)]
  BY <1>1, <1>2, <1>t DEF TypeOK, Replace
<1>5. /\ req'[q] = Idle
      /\ \A p \in Requests \ {q} : req'[p] = req[p]
      /\ req' \in [Requests -> RequestStates]
  BY IdleType, <1>t DEF TypeOK, Replace
<1>6. TypeOK'
  BY <1>3, <1>4, <1>5, <1>t DEF TypeOK, Replace
<1>7. /\ \A x \in Scripts : doc'[x] = doc[x] \/ (x = s /\ doc'[x] = new /\ Exists(s))
      /\ \A x \in Scripts : reviewed[x] \subseteq reviewed'[x]
      /\ Exists(s) /\ new.status = "IN_REVIEW" => new.content \in reviewed'[s]
  BY <1>1, <1>t DEF TypeOK, Replace
<1>8. DecisionRecorded'
  BY <1>7, <1>t DEF DecisionRecorded, Exists
<1>9. DecidedWasReviewed'
  BY <1>1, <1>7, <1>t DEF DecidedWasReviewed, Exists
<1>10. CopyInv'
  <2> SUFFICES ASSUME NEW p \in Requests, req'[p] # Idle
               PROVE  /\ req'[p].doc.status = IF req'[p].op = "submit" THEN "DRAFT" ELSE "IN_REVIEW"
                      /\ req'[p].doc.approved_by = None
                      /\ ~req'[p].doc.rejection_comments
                      /\ req'[p].op # "submit" =>
                           req'[p].doc.content \in reviewed'[req'[p].script]
    BY DEF CopyInv
  <2>1. req'[p] = req[p] /\ req[p].script \in Scripts
    BY <1>5, <1>t, CopyShape DEF TypeOK
  <2> QED BY <2>1, <1>7, <1>t DEF CopyInv
<1> QED BY <1>6, <1>8, <1>9, <1>10 DEF IInv

LEMMA StoreStep ==
  ASSUME IInv, NEW q \in Requests, StoreSubmission(q) \/ StoreApproval(q) \/ StoreRejection(q)
  PROVE  IInv'
<1>t. TypeOK /\ CopyInv
  BY DEF IInv
<1>1. /\ req[q] # Idle
      /\ req[q].doc \in Docs
  BY <1>t, CopyShape DEF TypeOK, StoreSubmission, StoreApproval, StoreRejection
<1> DEFINE d == req[q].doc
<1>2. CASE StoreSubmission(q)
  <2> DEFINE new == [d EXCEPT !.status = "IN_REVIEW"]
  <2>1. new \in Docs /\ new.status = "IN_REVIEW" /\ new.approved_by = None /\ ~new.rejection_comments
    BY <1>1, <1>2, <1>t DEF Docs, Statuses, CopyInv, StoreSubmission
  <2>2. Replace(q, new)
    BY <1>2 DEF StoreSubmission
  <2> HIDE DEF new
  <2> QED BY <1>1, <2>1, <2>2, ReplaceStep
<1>3. CASE StoreApproval(q)
  <2>1. PICK u \in Users : Replace(q, [d EXCEPT !.status = "APPROVED", !.approved_by = u])
    BY <1>3 DEF StoreApproval
  <2> DEFINE new == [d EXCEPT !.status = "APPROVED", !.approved_by = u]
  <2>2. /\ new \in Docs /\ new.status = "APPROVED" /\ new.approved_by = u
        /\ ~new.rejection_comments /\ new.content = d.content
    BY <1>1, <1>t DEF Docs, Statuses, CopyInv
  <2>3. u # None
    BY NoneAssumption
  <2>4. d.content \in reviewed[req[q].script]
    BY <1>1, <1>3, <1>t DEF CopyInv, StoreApproval
  <2>5. Replace(q, new)
    BY <2>1
  <2> HIDE DEF new
  <2> QED BY <1>1, <2>2, <2>3, <2>4, <2>5, ReplaceStep
<1>4. CASE StoreRejection(q)
  <2> DEFINE new == [d EXCEPT !.status = "REJECTED", !.rejection_comments = TRUE]
  <2>1. /\ new \in Docs /\ new.status = "REJECTED" /\ new.approved_by = None
        /\ new.rejection_comments /\ new.content = d.content
    BY <1>1, <1>t DEF Docs, Statuses, CopyInv
  <2>2. d.content \in reviewed[req[q].script]
    BY <1>1, <1>4, <1>t DEF CopyInv, StoreRejection
  <2>3. Replace(q, new)
    BY <1>4 DEF StoreRejection
  <2> HIDE DEF new
  <2> QED BY <1>1, <2>1, <2>2, <2>3, ReplaceStep
<1> QED BY <1>2, <1>3, <1>4

LEMMA AbortStep ==
  ASSUME IInv, NEW q \in Requests, Abort(q)
  PROVE  IInv'
<1>t. TypeOK /\ DecisionRecorded /\ DecidedWasReviewed /\ CopyInv
  BY DEF IInv
<1>1. TypeOK'
  BY IdleType, <1>t DEF TypeOK, Abort
<1>2. DecisionRecorded' /\ DecidedWasReviewed'
  BY <1>t DEF DecisionRecorded, DecidedWasReviewed, Exists, Abort
<1>3. \A p \in Requests : req'[p] = req[p] \/ req'[p] = Idle
  BY <1>t DEF TypeOK, Abort
<1>4. CopyInv'
  BY <1>3, <1>t DEF CopyInv, Abort
<1> QED BY <1>1, <1>2, <1>4 DEF IInv

LEMMA StepIInv == IInv /\ [Next]_vars => IInv'
<1> SUFFICES ASSUME IInv, [Next]_vars PROVE IInv'
  OBVIOUS
<1>1. ASSUME NEW q \in Requests, NEW s \in Scripts,
             SubmitForReview(q, s) \/ ApproveScript(q, s) \/ RejectScript(q, s)
      PROVE  IInv'
  BY <1>1, LoadStep DEF SubmitForReview, ApproveScript, RejectScript
<1>2. CASE UNCHANGED vars
  BY <1>2 DEF vars, IInv, TypeOK, DecisionRecorded, DecidedWasReviewed, CopyInv, Exists
<1> QED BY <1>1, <1>2, StoreTestScriptStep, DeleteScriptStep, StoreStep, AbortStep
        DEF Next, Review

-----------------------------------------------------------------------------

(* The inductive invariant: for any documents, reviewers and requests. *)
THEOREM Invariance == Spec => []IInv
BY InitIInv, StepIInv, PTL DEF Spec

(* Every variable keeps its type. *)
THEOREM TypeCorrect == Spec => []TypeOK
<1>1. IInv => TypeOK
  BY DEF IInv
<1> QED BY <1>1, Invariance, PTL

(* The approver and the comments agree with the status, whoever overwrites whom. *)
THEOREM DecisionsRecorded == Spec => []DecisionRecorded
<1>1. IInv => DecisionRecorded
  BY DEF IInv
<1> QED BY <1>1, Invariance, PTL

(* No content is decided on that was never submitted for review. *)
THEOREM OnlyReviewedIsDecided == Spec => []DecidedWasReviewed
<1>1. IInv => DecidedWasReviewed
  BY DEF IInv
<1> QED BY <1>1, Invariance, PTL

-----------------------------------------------------------------------------

(* A decided document that no request holds a copy of stays as it is, unless it
   is deleted or generated again. *)
LEMMA SettledStep ==
  ASSUME IInv, [Next]_vars, NEW s \in Scripts,
         Exists(s), doc[s].status \in {"APPROVED", "REJECTED"}, Copies(s) = {}
  PROVE  \/ doc'[s] = None
         \/ attempts'[s] > attempts[s]
         \/ doc'[s] = doc[s] /\ Copies(s)' = {}
<1>t. TypeOK
  BY DEF IInv
<1>c. \A p \in Requests : req[p].script # s
  BY DEF Copies
<1>1. ASSUME NEW x \in Scripts, StoreTestScript(x)
      PROVE  attempts'[s] > attempts[s] \/ (doc'[s] = doc[s] /\ Copies(s)' = {})
  <2>1. CASE x = s
    <3>1. attempts[s] \in Nat /\ attempts'[s] = attempts[s] + 1
      BY <1>1, <2>1, <1>t, DeliveryAssumption DEF StoreTestScript, TypeOK
    <3> QED BY <3>1
  <2>2. CASE x # s
    BY <1>1, <2>2, <1>t, <1>c DEF StoreTestScript, TypeOK, Copies
  <2> QED BY <2>1, <2>2
<1>2. ASSUME NEW x \in Scripts, DeleteScript(x)
      PROVE  doc'[s] = None \/ (doc'[s] = doc[s] /\ Copies(s)' = {})
  BY <1>2, <1>t, <1>c DEF DeleteScript, TypeOK, Copies
<1>3. ASSUME NEW q \in Requests, NEW x \in Scripts,
             SubmitForReview(q, x) \/ ApproveScript(q, x) \/ RejectScript(q, x)
      PROVE  doc'[s] = doc[s] /\ Copies(s)' = {}
  <2>1. x # s
    BY <1>3 DEF SubmitForReview, ApproveScript, RejectScript, Load
  <2>2. /\ UNCHANGED doc
        /\ req'[q].script = x
        /\ \A p \in Requests \ {q} : req'[p] = req[p]
    BY <1>3, <1>t DEF SubmitForReview, ApproveScript, RejectScript, Load, TypeOK
  <2> QED BY <2>1, <2>2, <1>c DEF Copies
<1>4. ASSUME NEW q \in Requests,
             StoreSubmission(q) \/ StoreApproval(q) \/ StoreRejection(q) \/ Abort(q)
      PROVE  doc'[s] = doc[s] /\ Copies(s)' = {}
  <2>1. \A x \in Scripts : x # req[q].script => doc'[x] = doc[x]
    BY <1>4, <1>t DEF StoreSubmission, StoreApproval, StoreRejection, Abort, Replace, TypeOK
  <2>2. \A p \in Requests : req'[p] = req[p] \/ req'[p] = Idle
    BY <1>4, <1>t DEF StoreSubmission, StoreApproval, StoreRejection, Abort, Replace, TypeOK
  <2>3. Idle.script # s
    BY NoneAssumption DEF Idle
  <2> QED BY <2>1, <2>2, <2>3, <1>c DEF Copies
<1>5. CASE UNCHANGED vars
  BY <1>5, <1>c DEF vars, Copies
<1> QED BY <1>1, <1>2, <1>3, <1>4, <1>5 DEF Next, Review

(* Decisions settle, for any number of documents and concurrent requests. *)
THEOREM DecisionIsFinal == Spec => DecisionSettles
<1>1. IInv /\ [Next]_vars =>
        [\A s \in Scripts :
           Exists(s) /\ doc[s].status \in {"APPROVED", "REJECTED"} /\ Copies(s) = {} =>
             \/ doc'[s] = None
             \/ attempts'[s] > attempts[s]
             \/ doc'[s] = doc[s] /\ Copies(s)' = {}]_vars
  BY SettledStep
<1> QED BY <1>1, Invariance, PTL DEF Spec, DecisionSettles

(***************************************************************************)
(* Exports beside the review                                               *)
(***************************************************************************)

(* What the invariants say of one export, and of its file in the storage b. *)
At(x) == x.ids[Len(x.entries) + 1]

Accounts(x) ==
  /\ \A k \in DOMAIN x.entries : x.entries[k].row = x.ids[k]
  /\ x.count = Cardinality({k \in DOMAIN x.entries : x.entries[k].ok})

Saw(x) ==
  /\ \A s \in Scripts : Version(s) \in x.since[s]
  /\ x.file # None => Len(x.entries) < Len(x.ids) /\ x.file \in x.since[At(x)[1]]
  /\ x.uploaded => x.file # None

Links(x, b) == x.uploaded => b[<<At(x), x.fmt>>] \in x.overlap[At(x)[1]]

Files == [Rows \X ExportFormats -> Versions \cup {None}]

(* No export, or one with all its fields. *)
LEMMA ExportShape ==
  ASSUME NEW x \in ExportStates
  PROVE  /\ x = NoExport <=> x.op = "idle"
         /\ x # NoExport => x \in OpenExports
         /\ x.entries \in Seq(Entries)
         /\ Len(x.entries) \in Nat
<1>1. CASE x = NoExport
  <2>1. x.entries = <<>> /\ x.op = "idle"
    BY <1>1 DEF NoExport
  <2> QED BY <1>1, <2>1, EmptySeq
<1>2. CASE x # NoExport
  <2>1. x \in OpenExports
    BY <1>2 DEF ExportStates
  <2>2. x.entries \in Seq(Entries) /\ x.op # "idle"
    BY <2>1 DEF OpenExports
  <2> QED BY <1>2, <2>1, <2>2, LenProperties
<1> QED BY <1>1, <1>2

LEMMA VersionType ==
  ASSUME TypeOK, NEW s \in Scripts
  PROVE  Version(s) \in Versions
BY DeliveryAssumption DEF TypeOK, Version, Versions, Exists, Docs

LEMMA NextVersionType ==
  ASSUME TypeOK', NEW s \in Scripts
  PROVE  Version(s)' \in Versions
BY DeliveryAssumption DEF TypeOK, Version, Versions, Exists, Docs

LEMMA NoneIsNoVersion == None \notin Versions
BY ExportAssumption DEF Versions

(* No entries, nothing counted, nothing uploaded. *)
LEMMA NothingDone ==
  /\ NoExport \in ExportStates
  /\ Accounts(NoExport) /\ Len(NoExport.entries) =< Len(NoExport.ids)
  /\ ~NoExport.uploaded
<1>1. {k \in DOMAIN NoExport.entries : NoExport.entries[k].ok} = {}
  BY DEF NoExport
<1> QED BY <1>1, FS_EmptySet DEF Accounts, NoExport, ExportStates

(* One more entry counts when it is a script. *)
LEMMA CountOfAppend ==
  ASSUME NEW done \in Seq(Entries), NEW new \in Entries
  PROVE  Cardinality({k \in DOMAIN Append(done, new) : Append(done, new)[k].ok}) =
           Cardinality({k \in DOMAIN done : done[k].ok}) + (IF new.ok THEN 1 ELSE 0)
<1> DEFINE n == Len(done) + 1
           good == {k \in DOMAIN done : done[k].ok}
<1>1. Len(done) \in Nat /\ DOMAIN done = 1 .. Len(done)
  BY LenProperties
<1>2. /\ Len(Append(done, new)) = n
      /\ DOMAIN Append(done, new) = 1 .. n
      /\ \A k \in 1 .. Len(done) : Append(done, new)[k] = done[k]
      /\ Append(done, new)[n] = new
  BY AppendProperties, LenProperties
<1>3. IsFiniteSet(good) /\ n \notin good
  <2>1. IsFiniteSet(1 .. Len(done))
    BY <1>1, FS_Interval
  <2> QED BY <1>1, <2>1, FS_Subset
<1>4. Cardinality(good) \in Nat
  BY <1>3, FS_CardinalityType
<1>5. CASE new.ok
  <2>1. {k \in DOMAIN Append(done, new) : Append(done, new)[k].ok} = good \cup {n}
    BY <1>1, <1>2, <1>5
  <2>2. Cardinality(good \cup {n}) = Cardinality(good) + 1
    <3> HIDE DEF good, n
    <3> QED BY <1>3, FS_AddElement
  <2>3. Cardinality({k \in DOMAIN Append(done, new) : Append(done, new)[k].ok}) =
          Cardinality(good) + (IF new.ok THEN 1 ELSE 0)
    <3> HIDE DEF good, n
    <3> QED BY <2>1, <2>2, <1>5
  <2> QED BY <2>3
<1>6. CASE ~new.ok
  <2>1. {k \in DOMAIN Append(done, new) : Append(done, new)[k].ok} = good
    BY <1>1, <1>2, <1>6
  <2>2. Cardinality(good) = Cardinality(good) + 0
    <3> HIDE DEF good
    <3> QED BY <1>4
  <2>3. (IF new.ok THEN 1 ELSE 0) = 0
    BY <1>6
  <2> QED BY <2>1, <2>2, <2>3, Zenon
<1> QED BY <1>5, <1>6

(* The archive still accounts for its scripts with one more entry. *)
LEMMA AccountsAppend ==
  ASSUME NEW x \in ExportStates, x # NoExport, Accounts(x), Len(x.entries) < Len(x.ids),
         NEW new \in Entries, new.row = At(x),
         NEW y, y.entries = Append(x.entries, new), y.ids = x.ids,
         y.count = x.count + (IF new.ok THEN 1 ELSE 0)
  PROVE  Accounts(y)
<1> DEFINE done == x.entries
<1>1. done \in Seq(Entries) /\ Len(done) \in Nat /\ DOMAIN done = 1 .. Len(done)
  BY ExportShape, LenProperties
<1>2. /\ DOMAIN y.entries = 1 .. Len(done) + 1
      /\ \A k \in 1 .. Len(done) : y.entries[k] = done[k]
      /\ y.entries[Len(done) + 1] = new
  BY <1>1, AppendProperties, LenProperties
<1>3. y.count = Cardinality({k \in DOMAIN y.entries : y.entries[k].ok})
  <2>1. x.count = Cardinality({k \in DOMAIN done : done[k].ok})
    BY DEF Accounts
  <2> HIDE DEF done
  <2>2. Cardinality({k \in DOMAIN Append(done, new) : Append(done, new)[k].ok}) =
           x.count + (IF new.ok THEN 1 ELSE 0)
    BY <1>1, <2>1, CountOfAppend
  <2>3. y.entries = Append(done, new)
    BY DEF done
  <2> QED BY <2>2, <2>3
<1>4. \A k \in DOMAIN y.entries : y.entries[k].row = y.ids[k]
  BY <1>1, <1>2 DEF Accounts, At
<1> QED BY <1>3, <1>4 DEF Accounts

LEMMA InitExportInv == InitBoth => ExportInv
<1> SUFFICES ASSUME InitBoth PROVE ExportInv
  OBVIOUS
<1>1. \A e \in ExportRequests : exp[e] = NoExport
  BY DEF InitBoth, ExportInit
<1>2. ExportTypeOK
  BY <1>1, NothingDone DEF InitBoth, ExportInit, ExportTypeOK
<1>3. ArchiveAccounts
  BY <1>1, NothingDone DEF ArchiveAccounts, Accounts
<1>4. LinkIsFresh /\ SeenInv /\ OverlapInv
  BY <1>1, NothingDone DEF LinkIsFresh, SeenInv, OverlapInv
<1> QED BY <1>2, <1>3, <1>4 DEF ExportInv

(* What the invariant says of one export. *)
LEMMA OfOne ==
  ASSUME ExportInv, NEW e \in ExportRequests
  PROVE  /\ exp[e] \in ExportStates
         /\ Len(exp[e].entries) =< Len(exp[e].ids)
         /\ Accounts(exp[e])
         /\ exp[e] # NoExport => Saw(exp[e])
         /\ Links(exp[e], blob)
BY DEF ExportInv, ExportTypeOK, ArchiveAccounts, SeenInv, LinkIsFresh, Accounts, Saw, Links,
       Working, Current, At, Path

LEMMA StoreType == ExportInv => blob \in Files
BY DEF ExportInv, ExportTypeOK, Files

(* What has to be shown of each export after a step. *)
LEMMA OfAll ==
  ASSUME rows' \subseteq Rows, blob' \in Files,
         exp' = [e \in ExportRequests |-> exp'[e]], OverlapInv',
         \A e \in ExportRequests : /\ exp'[e] \in ExportStates
                                   /\ Len(exp'[e].entries) =< Len(exp'[e].ids)
                                   /\ Accounts(exp'[e])
                                   /\ exp'[e] # NoExport => Saw(exp[e])'
                                   /\ Links(exp'[e], blob')
  PROVE  ExportInv'
<1>1. ExportTypeOK'
  BY DEF ExportTypeOK, Files
<1>2. ArchiveAccounts'
  BY DEF ArchiveAccounts, Accounts
<1>3. SeenInv'
  <2> SUFFICES ASSUME NEW e \in ExportRequests, exp'[e] # NoExport
               PROVE  /\ \A s \in Scripts : Version(s)' \in exp'[e].since[s]
                      /\ exp'[e].file # None =>
                           Working(e)' /\ exp'[e].file \in exp'[e].since[Current(e)'[1]]
                      /\ exp'[e].uploaded => exp'[e].file # None
    BY DEF SeenInv
  <2>1. exp'[e].op # "idle"
    BY ExportShape
  <2> QED BY <2>1 DEF Saw, Working, Current, At
<1>4. LinkIsFresh'
  BY DEF LinkIsFresh, Links, Path, Current, At
<1> QED BY <1>1, <1>2, <1>3, <1>4 DEF ExportInv

(* A step of one export, while the documents stay as they are. *)
LEMMA OneExport ==
  ASSUME ExportInv, UNCHANGED vars, NEW e \in ExportRequests, NEW x \in ExportStates,
         Len(x.entries) =< Len(x.ids), Accounts(x), x # NoExport => Saw(x), Links(x, blob'),
         \A f \in ExportRequests : f # e => Links(exp[f], blob'),
         x # NoExport =>
           \A s \in Scripts :
             /\ x.since[s] \subseteq x.overlap[s]
             /\ \A f \in ExportRequests : f # e /\ exp[f] # NoExport =>
                  exp[f].since[s] \subseteq x.overlap[s] /\ x.since[s] \subseteq exp[f].overlap[s],
         exp' = [exp EXCEPT ![e] = x], rows' = rows, blob' \in Files
  PROVE  ExportInv'
<1>1. \A s \in Scripts : Version(s)' = Version(s)
  BY DEF vars, Version, Exists
<1>2. exp \in [ExportRequests -> ExportStates] /\ rows \subseteq Rows
  BY DEF ExportInv, ExportTypeOK
<1>3. exp' = [f \in ExportRequests |-> exp'[f]] /\ exp'[e] = x
      /\ \A f \in ExportRequests : f # e => exp'[f] = exp[f]
  BY <1>2
<1>4. \A f \in ExportRequests : /\ exp'[f] \in ExportStates
                                /\ Len(exp'[f].entries) =< Len(exp'[f].ids)
                                /\ Accounts(exp'[f])
                                /\ exp'[f] # NoExport => Saw(exp'[f])
                                /\ Links(exp'[f], blob')
  BY <1>3, OfOne
<1>5. \A f \in ExportRequests : exp'[f] # NoExport => Saw(exp[f])'
  BY <1>1, <1>4 DEF Saw, At
<1>6. OverlapInv'
  BY <1>3 DEF OverlapInv, ExportInv
<1> QED BY <1>2, <1>3, <1>4, <1>5, <1>6, OfAll

(* ... that keeps what the export has seen, and the storage. *)
LEMMA SameHistory ==
  ASSUME ExportInv, UNCHANGED vars, NEW e \in ExportRequests, exp[e] # NoExport,
         NEW x \in ExportStates,
         Len(x.entries) =< Len(x.ids), Accounts(x), Saw(x), Links(x, blob),
         x.since = exp[e].since, x.overlap = exp[e].overlap,
         exp' = [exp EXCEPT ![e] = x], rows' = rows, blob' = blob
  PROVE  ExportInv'
<1>1. \A s \in Scripts :
         /\ x.since[s] \subseteq x.overlap[s]
         /\ \A f \in ExportRequests : f # e /\ exp[f] # NoExport =>
              exp[f].since[s] \subseteq x.overlap[s] /\ x.since[s] \subseteq exp[f].overlap[s]
  BY DEF ExportInv, OverlapInv
<1> QED BY <1>1, OfOne, OneExport, StoreType

(* ... that ends it. *)
LEMMA EndStep ==
  ASSUME ExportInv, UNCHANGED vars, NEW e \in ExportRequests,
         exp' = [exp EXCEPT ![e] = NoExport], rows' = rows, blob' = blob
  PROVE  ExportInv'
<1>1. Links(NoExport, blob')
  BY NothingDone DEF Links
<1> QED BY <1>1, NothingDone, OfOne, OneExport, StoreType

-----------------------------------------------------------------------------

LEMMA OpenStep ==
  ASSUME TypeOK, ExportInv, UNCHANGED vars, NEW e \in ExportRequests,
         NEW op \in {"script", "bulk"}, NEW ids \in Seq(Rows), NEW fmt \in ExportFormats,
         Open(e, op, ids, fmt)
  PROVE  ExportInv'
<1> DEFINE since == [s \in Scripts |-> {Version(s)}]
           overlap == [s \in Scripts |-> {Version(s)} \cup Underway(s)]
           x == [NoExport EXCEPT !.op = op, !.fmt = fmt, !.ids = ids, !.since = since,
                                 !.overlap = overlap]
<1>1. exp' = [exp EXCEPT ![e] = x] /\ UNCHANGED <<rows, blob>> /\ exp[e] = NoExport
  BY Zenon DEF Open
<1>2. since \in [Scripts -> SUBSET Versions] /\ overlap \in [Scripts -> SUBSET Versions]
  <2>1. \A s \in Scripts : Underway(s) \subseteq Versions
    <3> SUFFICES ASSUME NEW s \in Scripts, NEW f \in ExportRequests, exp[f] # NoExport
                 PROVE  exp[f].since[s] \subseteq Versions
      BY DEF Underway
    <3>1. exp[f] \in OpenExports
      BY OfOne, ExportShape
    <3> QED BY <3>1 DEF OpenExports
  <2> QED BY <2>1, VersionType
<1>3. /\ \A s \in Scripts : since[s] = {Version(s)} /\ Version(s) \in overlap[s]
      /\ \A s \in Scripts : \A f \in ExportRequests :
           exp[f] # NoExport => exp[f].since[s] \subseteq overlap[s]
  BY DEF Underway
<1> HIDE DEF since, overlap
<1>4. /\ x \in OpenExports /\ x.ids = ids /\ x.since = since /\ x.overlap = overlap
      /\ x.file = None /\ ~x.uploaded /\ x.entries = <<>> /\ x.count = 0
  <2>1. <<>> \in Seq(Entries)
    BY EmptySeq
  <2>2. NoExport \in [op : {"idle"}, fmt : {None}, ids : {<<>>}, since : {None}, overlap : {None},
                      file : {None}, uploaded : {FALSE}, entries : {<<>>}, count : {0}]
    BY DEF NoExport
  <2> HIDE DEF NoExport
  <2>3. x \in [op : {op}, fmt : {fmt}, ids : {ids}, since : {since}, overlap : {overlap},
               file : {None}, uploaded : {FALSE}, entries : {<<>>}, count : {0}]
    BY <2>2
  <2> HIDE DEF x
  <2>4. x \in OpenExports
    <3> DEFINE Lists == Seq(Rows)
               Archives == Seq(Entries)
               Histories == [Scripts -> SUBSET Versions]
               Made == Versions \cup {None}
    <3>1. /\ ids \in Lists /\ <<>> \in Archives /\ since \in Histories /\ overlap \in Histories
          /\ None \in Made /\ 0 \in Nat
      BY <1>2, <2>1
    <3> HIDE DEF Lists, Archives, Histories, Made
    <3>2. x \in [op : {"script", "bulk"}, fmt : ExportFormats, ids : Lists, since : Histories,
                 overlap : Histories, file : Made, uploaded : BOOLEAN, entries : Archives,
                 count : Nat]
      BY <2>3, <3>1
    <3> QED BY <3>2 DEF Lists, Archives, Histories, Made, OpenExports
  <2> QED BY <2>3, <2>4
<1> HIDE DEF x
<1>5. Len(x.entries) =< Len(x.ids)
  BY <1>4, LenProperties, EmptySeq
<1>6. Accounts(x)
  <2>1. {k \in DOMAIN x.entries : x.entries[k].ok} = {}
    BY <1>4
  <2> QED BY <1>4, <2>1, FS_EmptySet DEF Accounts
<1>7. Saw(x) /\ Links(x, blob')
  BY <1>3, <1>4 DEF Saw, Links
<1>8. \A s \in Scripts :
         /\ x.since[s] \subseteq x.overlap[s]
         /\ \A f \in ExportRequests : f # e /\ exp[f] # NoExport =>
              exp[f].since[s] \subseteq x.overlap[s] /\ x.since[s] \subseteq exp[f].overlap[s]
  <2> SUFFICES ASSUME NEW s \in Scripts, NEW f \in ExportRequests, exp[f] # NoExport
               PROVE  Version(s) \in exp[f].overlap[s]
    BY <1>3, <1>4
  <2> QED BY OfOne DEF ExportInv, OverlapInv, Saw
<1>9. x \in ExportStates
  BY <1>4 DEF ExportStates
<1> QED BY <1>1, <1>5, <1>6, <1>7, <1>8, <1>9, OfOne, OneExport, StoreType

(* An export at work has a script it is at, and the entries of the scripts before. *)
LEMMA AtWork ==
  ASSUME TypeOK, ExportInv, NEW e \in ExportRequests, Working(e)
  PROVE  /\ exp[e] \in OpenExports /\ exp[e] \in ExportStates
         /\ exp[e] # NoExport /\ Accounts(exp[e]) /\ Saw(exp[e])
         /\ Len(exp[e].entries) \in Nat /\ Len(exp[e].entries) < Len(exp[e].ids)
         /\ Len(exp[e].ids) \in Nat
         /\ Current(e) \in Rows /\ Current(e)[1] \in Scripts
         /\ Current(e) = At(exp[e]) /\ Path(e) \in Rows \X ExportFormats
<1>1. exp[e] \in ExportStates /\ Accounts(exp[e]) /\ (exp[e] # NoExport => Saw(exp[e]))
  BY OfOne
<1>2. exp[e] # NoExport
  BY <1>1, ExportShape DEF Working
<1>3. exp[e] \in OpenExports
  BY <1>1, <1>2, ExportShape
<1>4. /\ exp[e].ids \in Seq(Rows) /\ Len(exp[e].ids) \in Nat /\ Len(exp[e].entries) \in Nat
      /\ Len(exp[e].entries) < Len(exp[e].ids) /\ exp[e].fmt \in ExportFormats
  BY <1>1, <1>3, ExportShape, LenProperties DEF Working, OpenExports
<1>5. exp[e].ids[Len(exp[e].entries) + 1] \in Rows
  <2>1. Len(exp[e].entries) + 1 \in 1 .. Len(exp[e].ids)
    BY <1>4
  <2> QED BY <1>4, <2>1, ElementOfSeq
<1>6. Current(e) \in Rows /\ Current(e)[1] \in Scripts
  BY <1>5 DEF Current, Rows
<1> QED BY <1>1, <1>2, <1>3, <1>4, <1>6 DEF Current, At, Path

LEMMA FileAtWork ==
  ASSUME ExportInv, NEW e \in ExportRequests, exp[e].file # None \/ exp[e].uploaded
  PROVE  /\ Working(e) /\ exp[e] # NoExport /\ exp[e].file # None
         /\ exp[e].file \in exp[e].since[Current(e)[1]]
<1>1. exp[e] # NoExport
  BY DEF NoExport
<1> QED BY <1>1 DEF ExportInv, SeenInv

LEMMA ProduceFileStep ==
  ASSUME TypeOK, ExportInv, UNCHANGED vars, NEW e \in ExportRequests, ProduceFile(e)
  PROVE  ExportInv'
<1> DEFINE x == [exp[e] EXCEPT !.file = Version(Current(e)[1])]
<1>1. exp' = [exp EXCEPT ![e] = x] /\ UNCHANGED <<rows, blob>> /\ Working(e)
      /\ exp[e].file = None
  <2>1. exp' = [exp EXCEPT ![e] = x]
    BY DEF ProduceFile
  <2> QED BY <2>1 DEF ProduceFile
<1>2. Version(Current(e)[1]) \in Versions
  BY <1>1, AtWork, VersionType
<1>3. /\ x \in ExportStates /\ x.file = Version(Current(e)[1]) /\ x.uploaded = exp[e].uploaded
      /\ x.ids = exp[e].ids /\ x.entries = exp[e].entries /\ x.fmt = exp[e].fmt
      /\ x.since = exp[e].since /\ x.overlap = exp[e].overlap /\ x.count = exp[e].count
  BY <1>1, <1>2, AtWork DEF ExportStates, OpenExports
<1> HIDE DEF x
<1>4. Accounts(x)
  BY <1>1, <1>3, AtWork DEF Accounts
<1>5. Saw(x) /\ Links(x, blob)
  BY <1>1, <1>3, AtWork DEF Saw, Links, At
<1>6. Len(x.entries) =< Len(x.ids)
  BY <1>1, <1>3, AtWork
<1> QED BY <1>1, <1>3, <1>4, <1>5, <1>6, AtWork, SameHistory

(* One more entry, or the answer to a request for one script. *)
LEMMA AnswerStep ==
  ASSUME TypeOK, ExportInv, UNCHANGED vars, NEW e \in ExportRequests, Working(e),
         NEW ok \in BOOLEAN, NEW counted, counted = IF ok THEN 1 ELSE 0,
         Answer(e, ok, counted), UNCHANGED <<rows, blob>>
  PROVE  ExportInv'
<1>1. CASE exp[e].op = "script"
  <2>1. exp' = [exp EXCEPT ![e] = NoExport]
    BY <1>1 DEF Answer
  <2> QED BY <2>1, EndStep
<1>2. CASE exp[e].op # "script"
  <2> DEFINE new == [row |-> Current(e), ok |-> ok]
             more == Append(exp[e].entries, new)
             n == exp[e].count + counted
             x == [exp[e] EXCEPT !.file = None, !.uploaded = FALSE, !.count = n,
                                 !.entries = more]
  <2>1. exp' = [exp EXCEPT ![e] = x]
    <3>1. exp' = [exp EXCEPT ![e] = [exp[e] EXCEPT !.file = None, !.uploaded = FALSE,
                    !.count = exp[e].count + counted,
                    !.entries = Append(exp[e].entries, [row |-> Current(e), ok |-> ok])]]
      BY <1>2, Zenon DEF Answer
    <3> QED BY <3>1, Zenon
  <2>2. new \in Entries /\ new.row = At(exp[e]) /\ new.ok = ok
    BY AtWork DEF Entries
  <2> HIDE DEF new
  <2>3. more \in Seq(Entries) /\ Len(more) = Len(exp[e].entries) + 1
    BY <2>2, AtWork, ExportShape, AppendProperties
  <2>4. n \in Nat /\ n = exp[e].count + (IF new.ok THEN 1 ELSE 0)
    <3>1. exp[e].count \in Nat
      BY AtWork DEF OpenExports
    <3> QED BY <2>2, <3>1
  <2>5. more = Append(exp[e].entries, new)
    OBVIOUS
  <2> HIDE DEF more, n
  <2>6. /\ x \in ExportStates /\ x.file = None /\ ~x.uploaded /\ x.ids = exp[e].ids
        /\ x.entries = more /\ x.count = n
        /\ x.since = exp[e].since /\ x.overlap = exp[e].overlap
    BY <2>3, <2>4, AtWork DEF ExportStates, OpenExports
  <2> HIDE DEF x
  <2>7. Len(x.entries) =< Len(x.ids)
    BY <2>3, <2>6, AtWork
  <2>8. Accounts(x)
    BY <2>2, <2>4, <2>5, <2>6, AtWork, AccountsAppend
  <2>9. Saw(x) /\ Links(x, blob)
    BY <2>6, AtWork DEF Saw, Links
  <2> QED BY <2>1, <2>6, <2>7, <2>8, <2>9, AtWork, SameHistory
<1> QED BY <1>1, <1>2

(* What an upload leaves at a path is something every export under way may serve. *)
LEMMA UploadStep ==
  ASSUME TypeOK, ExportInv, UNCHANGED vars, NEW e \in ExportRequests, Upload(e)
  PROVE  ExportInv'
<1> DEFINE x == [exp[e] EXCEPT !.uploaded = TRUE]
           stored == exp[e].file
<1>1. /\ exp' = [exp EXCEPT ![e] = x] /\ rows' = rows
      /\ blob' = [blob EXCEPT ![Path(e)] = stored]
  <2>1. exp' = [exp EXCEPT ![e] = x]
    BY DEF Upload
  <2> QED BY <2>1 DEF Upload
<1>2. /\ Working(e) /\ exp[e] # NoExport /\ stored # None
      /\ stored \in exp[e].since[Current(e)[1]]
  BY FileAtWork DEF Upload
<1>3. /\ x \in ExportStates /\ x.file = stored /\ x.uploaded
      /\ x.ids = exp[e].ids /\ x.entries = exp[e].entries /\ x.fmt = exp[e].fmt
      /\ x.since = exp[e].since /\ x.overlap = exp[e].overlap /\ x.count = exp[e].count
  BY <1>2, AtWork DEF ExportStates, OpenExports
<1>4. stored \in Versions \cup {None}
  BY <1>2, AtWork DEF OpenExports
<1> HIDE DEF x, stored
<1>5. blob \in Files /\ blob' \in Files
  BY <1>1, <1>2, <1>4, AtWork, StoreType DEF Files
<1>6. /\ blob'[Path(e)] = stored
      /\ \A path \in Rows \X ExportFormats : path # Path(e) => blob'[path] = blob[path]
  BY <1>1, <1>2, <1>5, AtWork DEF Files
<1>7. \A s \in Scripts :
         /\ x.since[s] \subseteq x.overlap[s]
         /\ \A f \in ExportRequests : f # e /\ exp[f] # NoExport =>
              exp[f].since[s] \subseteq x.overlap[s] /\ x.since[s] \subseteq exp[f].overlap[s]
  BY <1>2, <1>3 DEF ExportInv, OverlapInv
<1>8. Links(x, blob')
  <2>1. At(x) = Current(e) /\ Current(e)[1] \in Scripts /\ <<At(x), x.fmt>> = Path(e)
    BY <1>2, <1>3, AtWork DEF At, Path, Current
  <2> QED BY <1>2, <1>3, <1>6, <1>7, <2>1 DEF Links
<1>9. ASSUME NEW f \in ExportRequests, f # e PROVE Links(exp[f], blob')
  <2> SUFFICES ASSUME exp[f].uploaded
               PROVE  blob'[Path(f)] \in exp[f].overlap[Current(f)[1]]
    BY DEF Links, At, Path, Current
  <2>1. Working(f) /\ exp[f] # NoExport
    BY FileAtWork
  <2>2. Path(f) \in Rows \X ExportFormats
    BY <2>1, AtWork
  <2>3. CASE Path(f) = Path(e)
    <3>1. Current(f) = Current(e) /\ Current(e)[1] \in Scripts
      BY <1>2, <2>3, AtWork DEF Path
    <3>2. exp[e].since[Current(e)[1]] \subseteq exp[f].overlap[Current(e)[1]]
      BY <1>2, <2>1, <3>1 DEF ExportInv, OverlapInv
    <3> QED BY <1>2, <1>6, <2>3, <3>1, <3>2
  <2>4. CASE Path(f) # Path(e)
    <3>1. blob'[Path(f)] = blob[Path(f)]
      BY <1>6, <2>2, <2>4
    <3> QED BY <3>1 DEF ExportInv, LinkIsFresh
  <2> QED BY <2>3, <2>4
<1>10. Len(x.entries) =< Len(x.ids) /\ Accounts(x) /\ Saw(x)
  <2>1. /\ Len(exp[e].entries) \in Nat /\ Len(exp[e].ids) \in Nat
        /\ Len(exp[e].entries) < Len(exp[e].ids) /\ Accounts(exp[e]) /\ Saw(exp[e])
    BY <1>2, AtWork
  <2>2. Accounts(x)
    BY <1>3, <2>1 DEF Accounts
  <2>3. At(x) = At(exp[e]) /\ Current(e) = At(exp[e])
    BY <1>3 DEF At, Current
  <2>4. Saw(x)
    BY <1>2, <1>3, <2>1, <2>3 DEF Saw
  <2> QED BY <1>3, <2>1, <2>2, <2>4
<1> QED BY <1>1, <1>3, <1>5, <1>7, <1>8, <1>9, <1>10, OneExport

LEMMA ExportStepInv ==
  ASSUME TypeOK, ExportInv, UNCHANGED vars, NEW e \in ExportRequests, ExportStep(e)
  PROVE  ExportInv'
<1>1. CASE \E row \in ExportRows, fmt \in ExportFormats : ExportScript(e, row, fmt)
  <2>1. PICK row \in ExportRows, fmt \in ExportFormats : ExportScript(e, row, fmt)
    BY <1>1
  <2>2. row \in Rows
    BY ExportAssumption
  <2>3. <<row>> \in Seq(Rows)
    BY <2>2
  <2> QED BY <2>1, <2>3, OpenStep DEF ExportScript
<1>2. CASE \E ids \in BulkLists, fmt \in ExportFormats : ExportBulk(e, ids, fmt)
  <2>1. PICK ids \in BulkLists, fmt \in ExportFormats : ExportBulk(e, ids, fmt)
    BY <1>2
  <2>2. ids \in Seq(ExportRows) /\ ExportRows \subseteq Rows
    BY ExportAssumption
  <2>3. ids \in Seq(Rows)
    BY <2>2, SeqDef
  <2> QED BY <2>1, <2>3, OpenStep DEF ExportBulk
<1>3. CASE ProduceFile(e)
  BY <1>3, ProduceFileStep
<1>4. CASE FailScript(e)
  BY <1>4, AnswerStep DEF FailScript
<1>5. CASE Upload(e)
  BY <1>5, UploadStep
<1>6. CASE Sign(e)
  BY <1>6, FileAtWork, AnswerStep DEF Sign
<1>7. CASE UploadFails(e)
  BY <1>7, FileAtWork, AnswerStep DEF UploadFails
<1>8. CASE RespondBulk(e)
  BY <1>8, EndStep DEF RespondBulk
<1> QED BY <1>1, <1>2, <1>3, <1>4, <1>5, <1>6, <1>7, <1>8 DEF ExportStep

(* The documents, exports and files as they are. *)
LEMMA NothingSeen ==
  ASSUME ExportInv, UNCHANGED <<vars, blob, exp>>, rows' \subseteq Rows
  PROVE  ExportInv'
<1>1. \A t \in Scripts : Version(t)' = Version(t)
  BY DEF vars, Version, Exists
<1>2. exp' = [e \in ExportRequests |-> exp'[e]] /\ blob' \in Files
  BY StoreType DEF ExportInv, ExportTypeOK
<1>3. \A e \in ExportRequests : /\ exp'[e] \in ExportStates
                                /\ Len(exp'[e].entries) =< Len(exp'[e].ids)
                                /\ Accounts(exp'[e])
                                /\ exp'[e] # NoExport => Saw(exp[e])'
                                /\ Links(exp'[e], blob')
  BY <1>1, OfOne DEF Saw, At
<1>4. OverlapInv'
  BY DEF OverlapInv, ExportInv
<1> QED BY <1>2, <1>3, <1>4, OfAll

(* A step of the review or the worker, which every export sees. *)
LEMMA WatchStep ==
  ASSUME TypeOK, TypeOK', ExportInv, Watch, UNCHANGED <<rows, blob>>
  PROVE  ExportInv'
<1>1. exp' = [e \in ExportRequests |-> exp'[e]] /\ rows' \subseteq Rows /\ blob' \in Files
  BY StoreType DEF Watch, ExportInv, ExportTypeOK
<1>2. ASSUME NEW e \in ExportRequests, exp[e] = NoExport PROVE exp'[e] = NoExport
  BY <1>2 DEF Watch
<1>3. ASSUME NEW e \in ExportRequests, exp[e] # NoExport
      PROVE  /\ exp'[e] \in OpenExports
             /\ exp'[e].ids = exp[e].ids /\ exp'[e].entries = exp[e].entries
             /\ exp'[e].count = exp[e].count /\ exp'[e].file = exp[e].file
             /\ exp'[e].fmt = exp[e].fmt /\ exp'[e].uploaded = exp[e].uploaded
             /\ \A s \in Scripts : /\ exp'[e].since[s] = exp[e].since[s] \cup {Version(s)'}
                                   /\ exp'[e].overlap[s] = exp[e].overlap[s] \cup {Version(s)'}
  <2> DEFINE since == [s \in Scripts |-> exp[e].since[s] \cup {Version(s)'}]
             overlap == [s \in Scripts |-> exp[e].overlap[s] \cup {Version(s)'}]
  <2>1. exp'[e] = [exp[e] EXCEPT !.since = since, !.overlap = overlap]
    BY <1>3 DEF Watch
  <2>2. exp[e] \in OpenExports
    BY <1>3, OfOne, ExportShape
  <2>3. since \in [Scripts -> SUBSET Versions] /\ overlap \in [Scripts -> SUBSET Versions]
    BY <2>2, NextVersionType DEF OpenExports
  <2>4. \A s \in Scripts : /\ since[s] = exp[e].since[s] \cup {Version(s)'}
                           /\ overlap[s] = exp[e].overlap[s] \cup {Version(s)'}
    OBVIOUS
  <2> HIDE DEF since, overlap
  <2>5. exp'[e].since = since /\ exp'[e].overlap = overlap
    BY <2>1, <2>2 DEF OpenExports
  <2> QED BY <2>1, <2>2, <2>3, <2>4, <2>5 DEF OpenExports
<1>4. ASSUME NEW e \in ExportRequests
      PROVE  /\ exp'[e] \in ExportStates
             /\ Len(exp'[e].entries) =< Len(exp'[e].ids)
             /\ Accounts(exp'[e])
             /\ exp'[e] # NoExport => Saw(exp[e])'
             /\ Links(exp'[e], blob')
  <2>1. CASE exp[e] = NoExport
    BY <1>2, <2>1, NothingDone DEF Links
  <2>2. CASE exp[e] # NoExport
    <3>1. Accounts(exp[e]) /\ Saw(exp[e]) /\ Len(exp[e].entries) =< Len(exp[e].ids)
      BY <2>2, OfOne
    <3>2. Accounts(exp'[e])
      BY <1>3, <2>2, <3>1 DEF Accounts
    <3>3. At(exp'[e]) = At(exp[e])
      BY <1>3, <2>2 DEF At
    <3>4. (exp[e].file # None \/ exp[e].uploaded) =>
            At(exp[e])[1] \in Scripts /\ exp[e].file # None
      BY FileAtWork, AtWork
    <3>5. Saw(exp[e])'
      <4>1. \A s \in Scripts : Version(s)' \in exp'[e].since[s]
        BY <1>3, <2>2
      <4>2. exp'[e].file # None =>
              /\ Len(exp'[e].entries) < Len(exp'[e].ids)
              /\ exp'[e].file \in exp'[e].since[At(exp'[e])[1]]
        BY <1>3, <2>2, <3>1, <3>3, <3>4 DEF Saw
      <4>3. exp'[e].uploaded => exp'[e].file # None
        BY <1>3, <2>2, <3>4
      <4> QED BY <4>1, <4>2, <4>3 DEF Saw, At
    <3>6. Links(exp'[e], blob')
      BY <1>3, <2>2, <3>3, <3>4, OfOne DEF Links
    <3> QED BY <1>3, <2>2, <3>1, <3>2, <3>5, <3>6 DEF ExportStates
  <2> QED BY <2>1, <2>2
<1>5. OverlapInv'
  <2> SUFFICES ASSUME NEW e \in ExportRequests, NEW f \in ExportRequests,
                      exp'[e] # NoExport, exp'[f] # NoExport, NEW s \in Scripts
               PROVE  exp'[f].since[s] \subseteq exp'[e].overlap[s]
    BY DEF OverlapInv
  <2>1. exp[e] # NoExport /\ exp[f] # NoExport
    BY <1>2
  <2> QED BY <1>3, <2>1 DEF ExportInv, OverlapInv
<1> QED BY <1>1, <1>4, <1>5, OfAll

LEMMA BothStep ==
  ASSUME TypeOK, TypeOK', ExportInv, [ReviewOrExport]_<<vars, evars>>
  PROVE  ExportInv'
<1>1. CASE Next /\ Watch /\ UNCHANGED <<rows, blob>>
  BY <1>1, WatchStep
<1>2. CASE UNCHANGED vars /\ \E e \in ExportRequests : ExportStep(e)
  BY <1>2, ExportStepInv
<1>3. CASE UNCHANGED vars /\ \E row \in ExportRows : CreateTestScriptRow(row[1], row[2])
  <2>1. rows' \subseteq Rows /\ UNCHANGED <<blob, exp>>
    BY <1>3, ExportAssumption DEF CreateTestScriptRow, Rows, ExportInv, ExportTypeOK
  <2> QED BY <1>3, <2>1, NothingSeen
<1>4. CASE UNCHANGED <<vars, evars>>
  <2>1. rows' \subseteq Rows /\ UNCHANGED <<blob, exp>>
    BY <1>4 DEF evars, ExportInv, ExportTypeOK
  <2> QED BY <1>4, <2>1, NothingSeen
<1> QED BY <1>1, <1>2, <1>3, <1>4 DEF ReviewOrExport, ExportNext

-----------------------------------------------------------------------------

(* Exports leave the review as it is, and the review does not see them. *)
LEMMA ReviewBeside == ReviewAndExport => Spec
<1>1. InitBoth => Init
  BY DEF InitBoth
<1>2. [ReviewOrExport]_<<vars, evars>> => [Next]_vars
  BY DEF ReviewOrExport, ExportNext
<1> QED BY <1>1, <1>2, PTL DEF ReviewAndExport, Spec

(* Exports keep their invariant in every state of the review. *)
THEOREM ExportInvariance == ReviewAndExport => []ExportInv
<1>1. ReviewAndExport => []TypeOK
  BY ReviewBeside, TypeCorrect, PTL
<1>2. InitBoth => ExportInv
  BY InitExportInv
<1>3. TypeOK /\ TypeOK' /\ ExportInv /\ [ReviewOrExport]_<<vars, evars>> => ExportInv'
  BY BothStep
<1> QED BY <1>1, <1>2, <1>3, PTL DEF ReviewAndExport

(* Archives account for their scripts in every behaviour, for any number of exports, *)
(* scripts and reviewers (ExportService.export_bulk).                                *)
THEOREM ArchivesAccount == ReviewAndExport => []ArchiveAccounts
<1>1. ExportInv => ArchiveAccounts
  BY DEF ExportInv
<1> QED BY <1>1, ExportInvariance, PTL

(* Between upload and signature a path serves nothing older than the exports under  *)
(* way with its own, however many of them write it (_upload_and_sign).              *)
THEOREM LinksAreFresh == ReviewAndExport => []LinkIsFresh
<1>1. ExportInv => LinkIsFresh
  BY DEF ExportInv
<1> QED BY <1>1, ExportInvariance, PTL
=============================================================================
