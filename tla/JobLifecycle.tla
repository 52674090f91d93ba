---------------------------- MODULE JobLifecycle ----------------------------
(***************************************************************************)
(* What a client that polls GET /jobs/{job_id} may rely on: the status and *)
(* the result pointer of a row of table jobs, with nothing said about the  *)
(* API process, the broker or the workers that move them.                  *)
(*                                                                         *)
(* A row is submitted once and never disappears.  Delivery of the job's    *)
(* message is at-least-once, so an attempt may begin or end on a row in    *)
(* whatever state an earlier attempt or a cancellation left it, but no     *)
(* step returns it to PENDING, a result pointer once published stays, and  *)
(* COMPLETED always carries one.                                           *)
(***************************************************************************)

CONSTANT Jobs

VARIABLES
  status,   \* [Jobs -> Statuses]; ABSENT while no row is committed
  result    \* the jobs whose row has a cosmos_result_id

vars == <<status, result>>

Statuses == {"ABSENT", "PENDING", "PROCESSING", "COMPLETED", "FAILED", "CANCELLED"}

Init ==
  /\ status = [j \in Jobs |-> "ABSENT"]
  /\ result = {}

Submit(j) ==
  /\ status[j] = "ABSENT"
  /\ status' = [status EXCEPT ![j] = "PENDING"]
  /\ UNCHANGED result

\* An attempt begins or fails, or the client's cancellation is committed.
Move(j) ==
  /\ status[j] # "ABSENT"
  /\ \E s \in {"PROCESSING", "FAILED", "CANCELLED"} :
        status' = [status EXCEPT ![j] = s]
  /\ UNCHANGED result

Complete(j) ==
  /\ status[j] # "ABSENT"
  /\ status' = [status EXCEPT ![j] = "COMPLETED"]
  /\ result' = result \cup {j}

Next == \E j \in Jobs : Submit(j) \/ Move(j) \/ Complete(j)

Spec == Init /\ [][Next]_vars
=============================================================================
