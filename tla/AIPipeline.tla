----------------------------- MODULE AIPipeline -----------------------------
(***************************************************************************)
(* How a worker replica of the KAATS backend turns a requirement into test *)
(* scripts: the quality gate, the test cases and one script per format     *)
(* (ai/chains.py), each a call to Azure OpenAI that is retried             *)
(* (ai/client.py), the first two through a cache that all jobs and tenants *)
(* of the process share.  A requirement is the unit here: a job runs them  *)
(* one after the other and ends with the first exception.                  *)
(*                                                                         *)
(* A reply is what the pipeline tells apart: its verdict, whether it names *)
(* test cases, and whether a script is clean, unsafe or not parseable.     *)
(***************************************************************************)
EXTENDS Naturals, Sequences, FiniteSets

CONSTANTS
  Requirements,
  Input,           \* what the prompt says of each: title, content, system type, domain, industry
  Key,             \* by stage, of an input: title and first 200 characters; of the cases the
                   \* system type as well
  Formats,         \* the script formats
  FormatLists,     \* the lists of output formats a job may have
  PythonFormats,   \* SELENIUM_PYTHON and PYTEST
  ScriptFormats,   \* PLAYWRIGHT_TS and PLAYWRIGHT_JS
  MaxAttempts,     \* stop_after_attempt (3)
  TTL,             \* _CACHE_TTL
  MaxTime,         \* bound: how far the clock runs
  None

Inputs == {Input[r] : r \in Requirements}
Stages == {"quality", "cases"}
Keys == {Key[s][i] : s \in Stages, i \in Inputs}

ASSUME InputAssumption == \A s \in Stages : Inputs \subseteq DOMAIN Key[s]
ASSUME FormatAssumption ==
  /\ FormatLists \subseteq Seq(Formats)
  /\ PythonFormats \cup ScriptFormats \subseteq Formats
ASSUME BoundAssumption == {MaxAttempts, TTL, MaxTime} \subseteq Nat /\ MaxAttempts > 0
ASSUME NoneAssumption == None \notin Requirements \cup Inputs

VARIABLES
  now,      \* time.monotonic()
  cache,    \* _cache, by stage and key: [value, ts, input (the test cases are for)]
  pc,       \* the stage the replica is in
  req,      \* the requirement it works on
  formats,  \* the formats still to be written
  attempt,  \* of the call in flight; 0 if none is
  cases,    \* the input of the test cases in hand
  age,      \* history: how old they were when they were taken
  scripts,  \* scripts_by_format; history: how each was checked
  doc       \* the document the last requirement led to: [req, input, age, scripts]

vars == <<now, cache, pc, req, formats, attempt, cases, age, scripts, doc>>

Contents == {"clean", "unsafe", "broken"}
Checks == {"done", "timeout", "skipped"}  \* how the check of a TypeScript file went

Init ==
  /\ now = 0
  /\ cache = [s \in Stages |-> [k \in Keys |-> None]]
  /\ pc = "idle" /\ req = None /\ formats = <<>> /\ attempt = 0
  /\ cases = None /\ age = 0 /\ scripts = {}
  /\ doc = None

Tick ==
  /\ now < MaxTime
  /\ now' = now + 1
  /\ UNCHANGED <<cache, pc, req, formats, attempt, cases, age, scripts, doc>>

StartRequirement(r, fs) ==
  /\ pc = "idle"
  /\ pc' = "quality" /\ req' = r /\ formats' = fs /\ doc' = None
  /\ UNCHANGED <<now, cache, attempt, cases, age, scripts>>

\* The requirement is left: skipped, stored, or by the exception that ends the job.
Leave ==
  /\ pc' = "idle" /\ req' = None /\ formats' = <<>> /\ attempt' = 0
  /\ cases' = None /\ age' = 0 /\ scripts' = {}

-----------------------------------------------------------------------------
(* The cache *)

\* Mutant: the key of the cases leaves out the system type, as that of the gate does.
Slot_NoSystem(stage) == Key["quality"][Input[req]]

\* The cache key of the requirement at hand.
Slot(stage) == Key[stage][Input[req]]

CacheGet(stage) ==
  LET e == cache[stage][Slot(stage)]
  IN  IF e = None \/ now - e.ts > TTL THEN None ELSE e

CacheSet(stage, value) ==
  cache' = [cache EXCEPT ![stage][Slot(stage)] =
              [value |-> value, ts |-> now, input |-> IF stage = "cases" THEN Input[req] ELSE None]]

\* The verdict lets the requirement through or drops it.
Judge(value) ==
  IF value = "UNTESTABLE"
    THEN Leave
    ELSE /\ pc' = "cases" /\ attempt' = 0
         /\ UNCHANGED <<req, formats, cases, age, scripts>>

\* Test cases are taken, fresh or from the cache; none leave nothing to write.
TakeCases(value, input, old) ==
  IF value = "EMPTY"
    THEN Leave
    ELSE /\ pc' = "scripts" /\ cases' = input /\ age' = old /\ attempt' = 0
         /\ UNCHANGED <<req, formats, scripts>>

CacheHit(stage) ==
  LET e == CacheGet(stage)
  IN  /\ pc = stage /\ attempt = 0
      /\ e # None
      /\ IF stage = "quality" THEN Judge(e.value) ELSE TakeCases(e.value, e.input, now - e.ts)
      /\ UNCHANGED <<now, cache, doc>>

-----------------------------------------------------------------------------
(* A call to the model *)

\* A prompt over the token limit raises ValueError before anything is sent.
BeginCall ==
  /\ pc \in Stages => CacheGet(pc) = None
  /\ pc \in Stages \cup {"scripts"} /\ attempt = 0
  /\ pc = "scripts" => formats # <<>>
  /\ attempt' = 1
  /\ cache' = IF pc \in Stages THEN [cache EXCEPT ![pc][Slot(pc)] = None] ELSE cache
  /\ UNCHANGED <<now, pc, req, formats, cases, age, scripts, doc>>

\* Mutant: the attempts are not counted.
Retry_Uncounted ==
  /\ attempt > 0
  /\ attempt' = IF attempt = 1 THEN 2 ELSE 1
  /\ UNCHANGED <<now, cache, pc, req, formats, cases, age, scripts, doc>>

\* RateLimitError and APIConnectionError are tried again.
Retry ==
  /\ attempt \in 1 .. MaxAttempts - 1
  /\ attempt' = attempt + 1
  /\ UNCHANGED <<now, cache, pc, req, formats, cases, age, scripts, doc>>

\* The gate only warns.
QualityCheckFailed ==
  /\ pc = "quality" /\ attempt > 0
  /\ pc' = "cases" /\ attempt' = 0
  /\ UNCHANGED <<now, cache, req, formats, cases, age, scripts, doc>>

\* Anything but a ValueError of a script ends the job: the last retry, another
\* error of the API, a reply that is not JSON.
CallFailed ==
  /\ pc \in {"cases", "scripts"} /\ attempt > 0
  /\ Leave
  /\ UNCHANGED <<now, cache, doc>>

CheckRequirementQuality(verdict) ==
  /\ pc = "quality" /\ attempt > 0
  /\ CacheSet("quality", verdict)
  /\ Judge(verdict)
  /\ UNCHANGED <<now, doc>>

\* An empty list is cached as well.
GenerateTestCases(value) ==
  /\ pc = "cases" /\ attempt > 0
  /\ CacheSet("cases", value)
  /\ TakeCases(value, Input[req], 0)
  /\ UNCHANGED <<now, doc>>

\* Mutant: the syntax is only checked if the content is unsafe.
Accepts_Either(content, f, check) == content # "unsafe" \/ f \in PythonFormats

\* validate_script: no violation, and no syntax error where there is a checker.
\* A check by node that cannot be made, since node is missing or anything else
\* raises, finds no error; one that takes too long finds one.
Accepts(content, f, check) ==
  /\ content # "unsafe"
  /\ f \in PythonFormats => content # "broken"
  /\ f \in ScriptFormats => \/ check = "skipped"
                            \/ check = "done" /\ content # "broken"

\* A script is kept, or a ValueError skips its format.
GenerateScript(content, check) ==
  /\ pc = "scripts" /\ attempt > 0
  /\ scripts' = IF Accepts(content, Head(formats), check)
                  THEN scripts \cup {[format |-> Head(formats), content |-> content,
                                      check |-> check]}
                  ELSE scripts
  /\ formats' = Tail(formats)
  /\ attempt' = 0
  /\ UNCHANGED <<now, cache, pc, req, cases, age, doc>>

PromptTooLong ==
  /\ pc = "scripts" /\ attempt = 0 /\ formats # <<>>
  /\ formats' = Tail(formats)
  /\ UNCHANGED <<now, cache, pc, req, attempt, cases, age, scripts, doc>>

\* The document of the requirement (its row and its status are in GenerationJobs).
Store ==
  /\ pc = "scripts" /\ attempt = 0 /\ formats = <<>>
  /\ doc' = IF scripts = {} THEN doc
            ELSE [req |-> req, input |-> cases, age |-> age, scripts |-> scripts]
  /\ Leave
  /\ UNCHANGED <<now, cache>>

-----------------------------------------------------------------------------

Pipeline ==
  \/ \E stage \in Stages : CacheHit(stage)
  \/ BeginCall \/ Retry \/ QualityCheckFailed \/ CallFailed
  \/ \E verdict \in {"GOOD", "UNTESTABLE"} : CheckRequirementQuality(verdict)
  \/ \E value \in {"CASES", "EMPTY"} : GenerateTestCases(value)
  \/ \E content \in Contents, check \in Checks : GenerateScript(content, check)
  \/ PromptTooLong \/ Store

Next ==
  \/ Tick
  \/ \E r \in Requirements, fs \in FormatLists : StartRequirement(r, fs)
  \/ Pipeline

\* Each call of the client returns or raises.
Spec == Init /\ [][Next]_vars /\ WF_vars(Pipeline)

Entries == [value : {"GOOD", "UNTESTABLE", "CASES", "EMPTY"}, ts : 0 .. MaxTime, input : Inputs \cup {None}]
Scripts == [format : Formats, content : Contents, check : Checks]

TypeOK ==
  /\ now \in 0 .. MaxTime
  /\ cache \in [Stages -> [Keys -> Entries \cup {None}]]
  /\ pc \in Stages \cup {"idle", "scripts"}
  /\ req \in Requirements \cup {None}
  /\ formats \in Seq(Formats)
  /\ attempt \in 0 .. MaxAttempts
  /\ cases \in Inputs \cup {None} /\ age \in Nat
  /\ scripts \subseteq Scripts
  /\ doc \in [req : Requirements, input : Inputs, age : Nat, scripts : SUBSET Scripts] \cup {None}

\* What is stored for a requirement was asked for an input with its title, the
\* beginning of its content and its system type, at most TTL before, although the
\* cache is shared by all jobs and tenants of the process.
CasesMatchKey ==
  LET key == Key["cases"]
  IN  doc # None => key[doc.input] = key[Input[doc.req]] /\ doc.age =< TTL

Checked(s) ==
  /\ s.content # "unsafe"
  /\ s.content = "broken" =>
       s.format \notin PythonFormats /\ (s.format \in ScriptFormats => s.check = "skipped")

\* No stored script has a safety violation, and one that does not parse is of a
\* format without a checker, or node's check of it could not be made, whatever
\* fails; every stored document has a script.
StoredScriptsChecked ==
  doc # None =>
    /\ doc.scripts # {}
    /\ \A s \in doc.scripts : Checked(s)

\* The replica gets rid of every requirement: retries end.
RequirementEnds == (pc # "idle") ~> (pc = "idle")

-----------------------------------------------------------------------------
(* The inductive invariant *)

\* Test cases lie under the key of the input they are for, with a time that is past.
CacheInv ==
  \A k \in Keys :
    LET e == cache["cases"][k]
    IN  e # None => e.input \in Inputs /\ Key["cases"][e.input] = k /\ e.ts =< now

\* What the replica has in hand: a requirement, the cases for its key, scripts that
\* were checked, and a format to write while a call for a script is in flight.
HandInv ==
  /\ pc # "idle" => req \in Requirements
  /\ pc = "scripts" => /\ cases \in Inputs
                       /\ Key["cases"][cases] = Key["cases"][Input[req]]
                       /\ age =< TTL
  /\ \A s \in scripts : Checked(s)
  /\ pc = "scripts" /\ attempt > 0 => formats # <<>>

IInv == TypeOK /\ CacheInv /\ HandInv /\ CasesMatchKey /\ StoredScriptsChecked
=============================================================================
