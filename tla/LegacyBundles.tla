---------------------------- MODULE LegacyBundles ----------------------------
(***************************************************************************)
(* Test bundles of the legacy UAT application: a task generates one from   *)
(* what was explored (generate_bundle), requests extend it, edit its steps *)
(* and approve it, and a task executes it in a browser and keeps results   *)
(* and screenshots (execute_bundle).  Every commit is an action of its     *)
(* own; a task or request may end after any of them.                       *)
(*                                                                         *)
(* A step is its critical flag and its step_index, a test the sequence of  *)
(* its steps in the order of step_index.  Nothing makes the index unique:  *)
(* the stub counts, a model may answer with any number.                    *)
(***************************************************************************)
EXTENDS Integers, SequencesExt

CONSTANTS
  Accounts, Testers, Approvers,  \* those with a role that generates or approves
  MaxBundles, MaxCases,          \* bounds on the rows
  Editable,                      \* bound: the positions at which steps are edited
  LLMTests,                      \* what a language model may answer
  Writers,                       \* generations and developments, one each
  Runs,                          \* executions
  None

ASSUME RolesAssumption == Testers \subseteq Accounts /\ Approvers \subseteq Accounts

TestSteps == [critical : BOOLEAN, index : Int]

ASSUME TestsAssumption == LLMTests \subseteq Seq(Seq(TestSteps)) /\ MaxBundles \in Nat

VARIABLES
  bundles,   \* table test_bundles: [status, created_by]
  signing,   \* the approvals committed but not yet signed: <<user, bundle>>
  approvals, \* table approvals: <<user, bundle>>
  cases,     \* tables tests and test_steps: [bundle, steps]
  wr,        \* the writers: [pc, bundle, todo, case, by]
  run,       \* table runs and the tasks: [pc, status, bundle, tests, plan, any_fail], and
             \* the last screenshot (shot), if the step has bound the variable (bound)
  results,   \* table results, of each run: [at, status]
  evidence,  \* table evidence, of each run: [result, path, sha256]
  files      \* the evidence directory: what each path shows

review == <<signing, approvals>>
execution == <<run, results, evidence, files>>
vars == <<bundles, review, cases, wr, execution>>

NoWriter == [pc |-> "idle", bundle |-> 0, todo |-> <<>>, case |-> 0, by |-> None]

Init ==
  /\ bundles = <<>> /\ cases = <<>>
  /\ signing = {} /\ approvals = {}
  /\ wr = [w \in Writers |-> NoWriter]
  /\ run = [r \in Runs |-> [pc |-> "idle", status |-> "none", bundle |-> 0, tests |-> <<>>,
                            plan |-> <<>>, shot |-> {}, bound |-> FALSE, any_fail |-> FALSE]]
  /\ results = [r \in Runs |-> <<>>]
  /\ evidence = [r \in Runs |-> {}]
  /\ files = <<>>

-----------------------------------------------------------------------------
(* Generation *)

\* The stub's smoke test, and one interaction with what has been found, whose last step
\* is not critical.
GenerateTestsStub(extra) ==
  << [i \in 1 .. 2 |-> [critical |-> TRUE, index |-> i]],
     [i \in 1 .. extra + 2 |-> [critical |-> i < extra + 2, index |-> i]] >>

\* The explored elements, the subject of AppExplore, offer an input, a button, both
\* or nothing.
GenerateTests == LLMTests \cup {GenerateTestsStub(extra) : extra \in 0 .. 2}

\* generate_bundle up to the answer: nothing is stored yet.
GenerateBundle(w, u) ==
  /\ wr[w].pc = "idle" /\ u \in Testers
  /\ Len(bundles) < MaxBundles
  /\ \E tests \in GenerateTests :
       wr' = [wr EXCEPT ![w] = [@ EXCEPT !.pc = "bundle", !.todo = tests, !.by = u]]
  /\ UNCHANGED <<bundles, review, cases, execution>>

StoreBundle(w) ==
  /\ wr[w].pc = "bundle" /\ Len(bundles) < MaxBundles
  /\ bundles' = Append(bundles, [status |-> "Draft", created_by |-> wr[w].by])
  /\ wr' = [wr EXCEPT ![w] = [@ EXCEPT !.pc = "case", !.bundle = Len(bundles) + 1, !.by = None]]
  /\ UNCHANGED <<review, cases, execution>>

\* develop_test_script_submit: an existing bundle, whatever its status, is extended.
DevelopTestScript(w, u, b) ==
  /\ wr[w].pc = "idle" /\ u \in Testers
  /\ \E tests \in GenerateTests \ {<<>>} :
       wr' = [wr EXCEPT ![w] = [@ EXCEPT !.pc = "case", !.todo = tests, !.bundle = b]]
  /\ UNCHANGED <<bundles, review, cases, execution>>

StoreCase(w) ==
  /\ wr[w].pc = "case" /\ wr[w].todo # <<>>
  /\ Len(cases) < MaxCases
  /\ cases' = Append(cases, [bundle |-> wr[w].bundle, steps |-> <<>>])
  /\ wr' = [wr EXCEPT ![w] = [@ EXCEPT !.pc = "steps", !.case = Len(cases) + 1]]
  /\ UNCHANGED <<bundles, review, execution>>

StoreSteps(w) ==
  /\ wr[w].pc = "steps"
  /\ cases' = [cases EXCEPT ![wr[w].case].steps = Head(wr[w].todo)]
  /\ wr' = [wr EXCEPT ![w] = [@ EXCEPT !.pc = "case", !.case = 0, !.todo = Tail(wr[w].todo)]]
  /\ UNCHANGED <<bundles, review, execution>>

\* All is stored, or the writer failed: what was committed stays.
WriterEnds(w) ==
  /\ wr[w].pc # "idle"
  /\ wr' = [wr EXCEPT ![w] = NoWriter]
  /\ UNCHANGED <<bundles, review, cases, execution>>

-----------------------------------------------------------------------------
(* Review *)

\* edit_step: also in an approved bundle, also while it is executed.
EditStep(u, c, i) ==
  /\ u \in Testers /\ i \in Editable
  /\ cases' = [cases EXCEPT ![c].steps[i].critical = ~@]
  /\ UNCHANGED <<bundles, review, wr, execution>>

\* The creator is refused; any status will do.  The API signs in a second commit,
\* the user interface not at all.
ApproveBundle(u, b) ==
  /\ u \in Approvers /\ bundles[b].created_by # u
  /\ bundles' = [bundles EXCEPT ![b].status = "Approved"]
  /\ signing' \in {signing, signing \cup {<<u, b>>}}
  /\ UNCHANGED <<approvals, cases, wr, execution>>

\* The second commit, unless the request ended before.
SignApproval(s) ==
  /\ signing' = signing \ {s}
  /\ approvals' \in {approvals, approvals \cup {s}}
  /\ UNCHANGED <<bundles, cases, wr, execution>>

-----------------------------------------------------------------------------
(* Execution *)

\* Mutant: the status is not looked at.
ExecuteBundle_Any(r, u, b) ==
  /\ run[r].pc = "idle" /\ u \in Testers
  /\ run' = [run EXCEPT ![r] = [@ EXCEPT !.pc = "tests", !.status = "Running", !.bundle = b]]
  /\ UNCHANGED <<bundles, review, cases, wr, results, evidence, files>>

ExecuteBundle(r, u, b) ==
  /\ run[r].pc = "idle" /\ u \in Testers
  /\ bundles[b].status = "Approved"
  /\ run' = [run EXCEPT ![r] = [@ EXCEPT !.pc = "tests", !.status = "Running", !.bundle = b]]
  /\ UNCHANGED <<bundles, review, cases, wr, results, evidence, files>>

\* The rows of a bundle, in order.
CasesOf(b) == FlattenSeq([c \in DOMAIN cases |-> IF cases[c].bundle = b THEN <<c>> ELSE <<>>])

\* The tests are read before the steps: a test whose steps are not there yet has none.
LoadTests(r) ==
  /\ run[r].pc = "tests"
  /\ run' = [run EXCEPT ![r] = [@ EXCEPT !.pc = "steps", !.tests = CasesOf(run[r].bundle)]]
  /\ UNCHANGED <<bundles, review, cases, wr, results, evidence, files>>

\* The steps of a sequence of tests, as pairs of a test and a position.
StepsOf(tests) ==
  FlattenSeq([k \in DOMAIN tests |-> [i \in DOMAIN cases[tests[k]].steps |-> <<tests[k], i>>]])

\* One query for each test.
LoadSteps(r) ==
  /\ run[r].pc = "steps" /\ run[r].tests # <<>>
  /\ run' = [run EXCEPT ![r] = [@ EXCEPT !.tests = Tail(run[r].tests),
                                         !.plan = run[r].plan \o StepsOf(<<Head(run[r].tests)>>)]]
  /\ UNCHANGED <<bundles, review, cases, wr, results, evidence, files>>

LaunchBrowser(r) ==
  /\ run[r].pc = "steps" /\ run[r].tests = <<>>
  /\ run' = [run EXCEPT ![r] = [@ EXCEPT !.pc = "exec"]]
  /\ UNCHANGED <<bundles, review, cases, wr, results, evidence, files>>

Current(r) == run[r].plan[Len(results[r]) + 1]
Executing(r) == run[r].pc = "exec" /\ Len(results[r]) < Len(run[r].plan)

IndexOf(at) == cases[at[1]].steps[at[2]].index

\* Mutant: the file is named after the run and the step only.
Path_NoTest(r, at, fail) == <<r, IndexOf(at), fail>>

Path(r, at, fail) == <<r, at[1], IndexOf(at), fail>>

\* A screenshot of the current step replaces the file of that name: its own, or that of
\* another step of the test with the same index.
Screenshot(r, fail) ==
  LET path == Path(r, Current(r), fail)
      shown == [at |-> Current(r), failed |-> fail]
  IN  /\ files' = [p \in DOMAIN files \cup {path} |-> IF p = path THEN shown ELSE files[p]]
      /\ run' = [run EXCEPT ![r] = [@ EXCEPT !.pc = "attach", !.bound = TRUE,
                                            !.any_fail = run[r].any_fail \/ fail,
                                            !.shot = {[path |-> path, sha256 |-> shown]}]]

AddResult(r, status) ==
  /\ results' = [results EXCEPT ![r] = Append(@, [at |-> Current(r), status |-> status])]
  /\ UNCHANGED <<bundles, review, cases, wr, evidence>>

\* The row of the step is read again after each commit, so an edit made since the
\* approval, or the start, is what runs.
PassStep(r) ==
  /\ Executing(r)
  /\ AddResult(r, "PASS")
  /\ IF cases[Current(r)[1]].steps[Current(r)[2]].critical
       THEN Screenshot(r, FALSE)
       ELSE /\ run' = [run EXCEPT ![r] = [@ EXCEPT !.pc = "attach"]]
            /\ UNCHANGED files

\* Three attempts at the step failed, or its screenshot did; the screenshot of the
\* failure may fail as well.
FailStep(r) ==
  /\ Executing(r)
  /\ AddResult(r, "FAIL")
  /\ \/ Screenshot(r, TRUE)
     \/ /\ run' = [run EXCEPT ![r] = [@ EXCEPT !.pc = "attach", !.any_fail = TRUE,
                                               !.bound = TRUE, !.shot = {}]]
        /\ UNCHANGED files

\* The last screenshot, be it of an earlier step, becomes evidence of this result.
AttachEvidence(r) ==
  /\ run[r].pc = "attach" /\ run[r].bound
  /\ evidence' = [evidence EXCEPT ![r] = @ \cup
                    {[result |-> Len(results[r]), path |-> s.path, sha256 |-> s.sha256] :
                       s \in run[r].shot}]
  /\ run' = [run EXCEPT ![r] = [@ EXCEPT !.pc = "exec"]]
  /\ UNCHANGED <<bundles, review, cases, wr, results, files>>

\* Mutant: the flag is kept per test.
FinishRun_LastTest(r) ==
  /\ run[r].pc = "exec" /\ ~Executing(r)
  /\ LET last == {k \in DOMAIN results[r] :
                    results[r][k].at[1] = results[r][Len(results[r])].at[1]}
     IN run' = [run EXCEPT ![r].pc = "done", ![r].status =
                  IF \E k \in last : results[r][k].status = "FAIL" THEN "Failed" ELSE "Passed"]
  /\ UNCHANGED <<bundles, review, cases, wr, results, evidence, files>>

FinishRun(r) ==
  /\ run[r].pc = "exec" /\ ~Executing(r)
  /\ run' = [run EXCEPT ![r] = [@ EXCEPT !.pc = "done",
                                         !.status = IF run[r].any_fail THEN "Failed" ELSE "Passed"]]
  /\ UNCHANGED <<bundles, review, cases, wr, results, evidence, files>>

\* The browser or a statement raises, the worker ends, or the first result has no
\* screenshot to look at (ev_path is unbound): the row stays Running.
RunDies(r) ==
  /\ run[r].pc \in {"tests", "steps", "exec", "attach"}
  /\ run' = [run EXCEPT ![r] = [@ EXCEPT !.pc = "dead"]]
  /\ UNCHANGED <<bundles, review, cases, wr, results, evidence, files>>

-----------------------------------------------------------------------------

Write(w) ==
  \/ StoreBundle(w) \/ StoreCase(w) \/ StoreSteps(w) \/ WriterEnds(w)

Execute(r) ==
  \/ LoadTests(r) \/ LoadSteps(r) \/ LaunchBrowser(r) \/ PassStep(r) \/ FailStep(r)
  \/ AttachEvidence(r) \/ FinishRun(r) \/ RunDies(r)

Request(u) ==
  \/ \E w \in Writers : GenerateBundle(w, u) \/ \E b \in DOMAIN bundles : DevelopTestScript(w, u, b)
  \/ \E c \in DOMAIN cases : \E i \in DOMAIN cases[c].steps : EditStep(u, c, i)
  \/ \E b \in DOMAIN bundles : ApproveBundle(u, b) \/ \E r \in Runs : ExecuteBundle(r, u, b)

Next ==
  \/ \E u \in Accounts : Request(u)
  \/ \E w \in Writers : Write(w)
  \/ \E s \in signing : SignApproval(s)
  \/ \E r \in Runs : Execute(r)

Spec == Init /\ [][Next]_vars

-----------------------------------------------------------------------------

TablesOK ==
  /\ bundles \in Seq([status : {"Draft", "Approved"}, created_by : Accounts])
  /\ signing \cup approvals \subseteq Accounts \X DOMAIN bundles
  /\ cases \in Seq([bundle : DOMAIN bundles, steps : Seq(TestSteps)])

\* A run, its row and its results.
RunOK(t, res) ==
  /\ t.status \in {"none", "Running", "Passed", "Failed"}
  /\ (t.pc = "done") <=> (t.status \in {"Passed", "Failed"})
  /\ t.pc # "idle" => bundles[t.bundle].status = "Approved"
  /\ Len(res) =< Len(t.plan)

TypeOK == TablesOK /\ \A r \in Runs : RunOK(run[r], results[r])

\* Another step of the same test, with the same index, has taken the file.
Replaced(ev) ==
  LET old == ev.sha256
      new == files[ev.path]
  IN  /\ old.at # new.at /\ old.failed = new.failed
      /\ old.at[1] = new.at[1] /\ IndexOf(old.at) = IndexOf(new.at)

\* A row of evidence keeps the digest of the file its path names, for any number of
\* runs, tests and failures, unless two steps of one test share a step_index and the
\* later one replaced the screenshot of the other (execute_bundle: the paths, the two
\* commits, and the screenshots that replace files).
EvidenceMatchesFile ==
  \A r \in Runs : \A ev \in evidence[r] :
    ev.path \in DOMAIN files /\ (files[ev.path] = ev.sha256 \/ Replaced(ev))

\* The traceability matrix of a run: what build_rtm_xlsx writes for a step.
RtmResult(r, at) ==
  LET res == {k \in DOMAIN results[r] : results[r][k].at = at}
  IN  IF res = {} THEN "N/A" ELSE results[r][CHOOSE k \in res : \A l \in res : k =< l].status

\* The matrix of a run that ended, built at any later time from the bundle as it is
\* then, tells the run's verdict: a step is FAIL in a run that failed and in no other,
\* and N/A are only the steps that came after the run had read its plan (rtm.py over
\* what execute_bundle stored).
MatrixTellsVerdict ==
  \A r \in Runs : run[r].pc = "done" =>
    LET steps == {StepsOf(CasesOf(run[r].bundle))[k] :
                    k \in DOMAIN StepsOf(CasesOf(run[r].bundle))}
        plan == {run[r].plan[k] : k \in DOMAIN run[r].plan}
    IN  /\ (run[r].status = "Failed") <=> (\E at \in steps : RtmResult(r, at) = "FAIL")
        /\ \A at \in steps : RtmResult(r, at) = "N/A" <=> at \notin plan

-----------------------------------------------------------------------------
(* The inductive invariant *)

WriterRows == [pc : {"idle", "bundle", "case", "steps"}, bundle : Nat,
               todo : Seq(Seq(TestSteps)), case : Nat, by : Accounts \cup {None}]

\* A writer of a bundle that is there; the case whose steps it is about to store is
\* its own and has none yet.
WriterInv ==
  /\ wr \in [Writers -> WriterRows]
  /\ \A w \in Writers :
       /\ wr[w].pc = "bundle" => wr[w].by \in Accounts
       /\ wr[w].pc \in {"case", "steps"} => wr[w].bundle \in DOMAIN bundles
       /\ wr[w].pc = "steps" =>
            wr[w].todo # <<>> /\ wr[w].case \in DOMAIN cases /\ cases[wr[w].case].steps = <<>>
  /\ \A v, w \in Writers :
       wr[v].pc = "steps" /\ wr[w].pc = "steps" /\ wr[v].case = wr[w].case => v = w

IsStep(at, b) ==
  at[1] \in DOMAIN cases /\ cases[at[1]].bundle = b /\ at[2] \in DOMAIN cases[at[1]].steps

Pairs == Nat \X Nat
Images == [at : Pairs, failed : BOOLEAN]
Shots == [path : Runs \X Nat \X Int \X BOOLEAN, sha256 : Images]

RunRows == [pc : {"idle", "tests", "steps", "exec", "attach", "done", "dead"},
            status : {"none", "Running", "Passed", "Failed"}, bundle : Nat, tests : Seq(Nat),
            plan : Seq(Pairs), shot : SUBSET Shots, bound : BOOLEAN, any_fail : BOOLEAN]
ResultRows == [at : Pairs, status : {"PASS", "FAIL"}]

\* A run goes through the steps of its bundle once each, in the order of its plan; what
\* it has read stays a step of the bundle whatever is edited or added.
AsPlanned(t, res) ==
  /\ t.pc # "idle" => t.bundle \in DOMAIN bundles
  /\ t.pc \in {"idle", "tests"} => t.tests = <<>>
  /\ t.pc \in {"idle", "tests"} => t.plan = <<>>
  /\ t.pc \in {"idle", "tests", "steps"} => res = <<>>
  /\ IsInjective(t.tests)
  /\ \A k \in DOMAIN t.tests :
       t.tests[k] \in DOMAIN cases /\ cases[t.tests[k]].bundle = t.bundle
  /\ IsInjective(t.plan)
  /\ \A k \in DOMAIN t.plan : IsStep(t.plan[k], t.bundle) /\ t.plan[k][1] \notin Range(t.tests)
  /\ \A k \in DOMAIN res : res[k].at = t.plan[k]
  /\ t.any_fail <=> \E k \in DOMAIN res : res[k].status = "FAIL"
  /\ t.pc = "done" =>
       /\ Len(res) = Len(t.plan)
       /\ (t.status = "Failed") <=> t.any_fail

RunInv ==
  /\ run \in [Runs -> RunRows] /\ results \in [Runs -> Seq(ResultRows)]
  /\ \A r \in Runs : AsPlanned(run[r], results[r])

\* The file of a name shows a step that has the name.
Shows(path, image) ==
  /\ image \in Images
  /\ image.at[1] \in DOMAIN cases /\ image.at[2] \in DOMAIN cases[image.at[1]].steps
  /\ path = Path(path[1], image.at, image.failed)

FileInv ==
  /\ DOMAIN evidence = Runs
  /\ \A path \in DOMAIN files : Shows(path, files[path])
  /\ \A r \in Runs : \A s \in run[r].shot \cup evidence[r] :
       s.path \in DOMAIN files /\ Shows(s.path, s.sha256)

IInv == TypeOK /\ WriterInv /\ RunInv /\ FileInv
=============================================================================
