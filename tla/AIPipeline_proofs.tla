-------------------------- MODULE AIPipeline_proofs -------------------------
(* The inductive invariant of AIPipeline: the cache is keyed right, and what *)
(* is stored was checked.                                                    *)
EXTENDS AIPipeline, Integers, TLAPS

(* The variables that hold the requirement at hand have their types.         *)
HandType ==
  /\ pc \in Stages \cup {"idle", "scripts"}
  /\ req \in Requirements \cup {None}
  /\ formats \in Seq(Formats)
  /\ attempt \in 0 .. MaxAttempts
  /\ cases \in Inputs \cup {None} /\ age \in Nat
  /\ scripts \subseteq Scripts

CacheType == cache \in [Stages -> [Keys -> Entries \cup {None}]]
DocType ==
  doc \in [req : Requirements, input : Inputs, age : Nat, scripts : SUBSET Scripts] \cup {None}

Parts == /\ now \in 0 .. MaxTime /\ CacheType /\ HandType /\ DocType
         /\ CacheInv /\ HandInv /\ CasesMatchKey /\ StoredScriptsChecked

LEMMA IInvParts == IInv <=> Parts
BY DEF IInv, TypeOK, Parts, CacheType, HandType, DocType

LEMMA PartsPrimed == Parts' => IInv'
<1>1. Parts' => TypeOK'
  BY DEF Parts, TypeOK, CacheType, HandType, DocType
<1> QED BY <1>1 DEF Parts, IInv

LEMMA InitIInv == Init => IInv
<1> SUFFICES ASSUME Init PROVE Parts
  BY IInvParts
<1>1. HandType
  BY BoundAssumption DEF Init, HandType
<1>2. now \in 0 .. MaxTime /\ CacheType /\ DocType
  BY BoundAssumption DEF Init, CacheType, DocType
<1>3. CacheInv
  BY DEF Init, CacheInv, Stages
<1>4. HandInv /\ CasesMatchKey /\ StoredScriptsChecked
  BY DEF Init, HandInv, CasesMatchKey, StoredScriptsChecked
<1> QED BY <1>1, <1>2, <1>3, <1>4 DEF Parts

-----------------------------------------------------------------------------
(* The cache *)

(* The key at hand, and the one the test cases of an input lie under, are keys. *)
LEMMA SlotIsKey ==
  ASSUME req \in Requirements, NEW stage \in Stages
  PROVE  Input[req] \in Inputs /\ Slot(stage) \in Keys
BY DEF Slot, Keys, Inputs

(* What the cache answers is an entry of the stage, within its time to live; for  *)
(* the test cases it is for an input with the same key.                            *)
LEMMA CacheGetFresh ==
  ASSUME CacheType, CacheInv, req \in Requirements, now \in Nat,
         NEW stage \in Stages, CacheGet(stage) # None
  PROVE  LET e == CacheGet(stage)
         IN  /\ e \in Entries /\ now - e.ts =< TTL
             /\ stage = "cases" => /\ e.input \in Inputs
                                   /\ Key["cases"][e.input] = Key["cases"][Input[req]]
                                   /\ now - e.ts \in Nat
<1> DEFINE e == cache[stage][Slot(stage)]
<1>1. Slot(stage) \in Keys
  BY SlotIsKey
<1>2. CacheGet(stage) = e /\ e # None /\ ~(now - e.ts > TTL)
  BY DEF CacheGet
<1>3. e \in Entries
  BY <1>1, <1>2 DEF CacheType
<1>4. e.ts \in Nat /\ now - e.ts \in Int
  BY <1>3, BoundAssumption DEF Entries
<1>5. now - e.ts =< TTL
  BY <1>2, <1>4, BoundAssumption
<1>6. CASE stage = "cases"
  <2>1. e.input \in Inputs /\ Key["cases"][e.input] = Slot("cases") /\ e.ts =< now
    BY <1>1, <1>2, <1>6 DEF CacheInv
  <2> QED BY <1>2, <1>3, <1>4, <1>5, <2>1 DEF Slot
<1> QED BY <1>2, <1>3, <1>5, <1>6

(* Writing a reply puts it under the key of the requirement's own input. *)
LEMMA CacheSetKeeps ==
  ASSUME CacheType, CacheInv, req \in Requirements, now \in 0 .. MaxTime, now' = now,
         NEW stage \in Stages, NEW value \in {"GOOD", "UNTESTABLE", "CASES", "EMPTY"},
         CacheSet(stage, value)
  PROVE  CacheType' /\ CacheInv'
<1> DEFINE e == [value |-> value, ts |-> now,
                 input |-> IF stage = "cases" THEN Input[req] ELSE None]
           k == Slot(stage)
<1>1. k \in Keys /\ Input[req] \in Inputs
  BY SlotIsKey
<1>2. e \in Entries /\ e.ts = now /\ (stage = "cases" => e.input = Input[req])
  BY <1>1 DEF Entries
<1>3. cache' = [cache EXCEPT ![stage][k] = e]
  BY DEF CacheSet
<1>4. stage = "cases" => k = Key["cases"][Input[req]]
  BY DEF Slot
<1> HIDE DEF e, k
<1>5. CacheType'
  BY <1>1, <1>2, <1>3 DEF CacheType
<1>6. \A j \in Keys : cache'["cases"][j] = IF stage = "cases" /\ j = k THEN e ELSE cache["cases"][j]
  BY <1>1, <1>3 DEF CacheType, Stages
<1>7. now =< now
  BY DEF CacheType
<1>8. CacheInv'
  BY <1>1, <1>2, <1>4, <1>6, <1>7 DEF CacheInv
<1> QED BY <1>5, <1>8

-----------------------------------------------------------------------------
(* What is in hand *)

LEMMA LeaveHand ==
  ASSUME Leave PROVE HandType' /\ HandInv'
BY BoundAssumption DEF Leave, HandType, HandInv

LEMMA JudgeHand ==
  ASSUME HandType, HandInv, pc = "quality", NEW value, Judge(value)
  PROVE  HandType' /\ HandInv'
<1>1. CASE value = "UNTESTABLE"
  BY <1>1, LeaveHand DEF Judge
<1>2. CASE value # "UNTESTABLE"
  <2>1. /\ pc' = "cases" /\ attempt' = 0
        /\ UNCHANGED <<req, formats, cases, age, scripts>>
    BY <1>2 DEF Judge
  <2> QED BY <2>1, BoundAssumption DEF HandType, HandInv, Stages, Checked
<1> QED BY <1>1, <1>2

(* Test cases are taken for an input with the requirement's key, young enough. *)
LEMMA TakeCasesHand ==
  ASSUME HandType, HandInv, pc = "cases", NEW value, NEW input \in Inputs, NEW old \in Nat,
         Key["cases"][input] = Key["cases"][Input[req]], old =< TTL,
         TakeCases(value, input, old)
  PROVE  HandType' /\ HandInv'
<1>1. CASE value = "EMPTY"
  BY <1>1, LeaveHand DEF TakeCases
<1>2. CASE value # "EMPTY"
  <2>1. /\ pc' = "scripts" /\ cases' = input /\ age' = old /\ attempt' = 0
        /\ UNCHANGED <<req, formats, scripts>>
    BY <1>2 DEF TakeCases
  <2> QED BY <2>1, BoundAssumption DEF HandType, HandInv, Checked
<1> QED BY <1>1, <1>2

(* A step that keeps the document keeps what is said of it. *)
LEMMA DocKept ==
  ASSUME Parts, now' \in 0 .. MaxTime, doc' = doc \/ doc' = None,
         CacheType', CacheInv', HandType', HandInv'
  PROVE  IInv'
<1>1. DocType' /\ CasesMatchKey' /\ StoredScriptsChecked'
  BY DEF Parts, DocType, CasesMatchKey, StoredScriptsChecked, Checked
<1> QED BY <1>1, PartsPrimed DEF Parts

-----------------------------------------------------------------------------
(* The actions *)

LEMMA TickStep ==
  ASSUME IInv, Tick PROVE IInv'
<1>t. Parts
  BY IInvParts
<1>1. now \in Nat /\ now' = now + 1 /\ now' \in 0 .. MaxTime
  BY <1>t, BoundAssumption DEF Parts, Tick
<1>2. CacheType' /\ HandType' /\ HandInv'
  BY <1>t DEF Parts, Tick, CacheType, HandType, HandInv, Checked
<1>3. CacheInv'
  <2> SUFFICES ASSUME NEW k \in Keys, cache["cases"][k] # None
               PROVE  LET e == cache["cases"][k]
                      IN  e.input \in Inputs /\ Key["cases"][e.input] = k /\ e.ts =< now + 1
    BY <1>1 DEF CacheInv, Tick
  <2>1. cache["cases"][k] \in Entries
    BY <1>t DEF Parts, CacheType, Stages
  <2>2. cache["cases"][k].ts \in Nat
    BY <2>1 DEF Entries
  <2> QED BY <1>1, <2>2, <1>t DEF Parts, CacheInv
<1> QED BY <1>t, <1>1, <1>2, <1>3, DocKept DEF Tick

LEMMA StartRequirementStep ==
  ASSUME IInv, NEW r \in Requirements, NEW fs \in FormatLists, StartRequirement(r, fs)
  PROVE  IInv'
<1>t. Parts
  BY IInvParts
<1>1. HandType'
  BY <1>t, FormatAssumption DEF Parts, StartRequirement, HandType, Stages
<1>2. HandInv'
  BY <1>t DEF Parts, StartRequirement, HandInv, Checked
<1>3. CacheType' /\ CacheInv'
  BY <1>t DEF Parts, StartRequirement, CacheType, CacheInv
<1> QED BY <1>t, <1>1, <1>2, <1>3, DocKept DEF StartRequirement, Parts

LEMMA CacheHitStep ==
  ASSUME IInv, NEW stage \in Stages, CacheHit(stage)
  PROVE  IInv'
<1>t. Parts
  BY IInvParts
<1> DEFINE e == CacheGet(stage)
<1>1. /\ pc = stage /\ e # None
      /\ IF stage = "quality" THEN Judge(e.value) ELSE TakeCases(e.value, e.input, now - e.ts)
      /\ UNCHANGED <<now, cache, doc>>
  BY DEF CacheHit
<1>2. req \in Requirements /\ now \in Nat
  BY <1>1, <1>t DEF Parts, HandInv, Stages
<1>3. HandType' /\ HandInv'
  <2>1. CASE stage = "quality"
    BY <1>1, <1>t, <2>1, JudgeHand DEF Parts
  <2>2. CASE stage = "cases"
    <3>1. /\ now - e.ts =< TTL /\ now - e.ts \in Nat
          /\ e.input \in Inputs /\ Key["cases"][e.input] = Key["cases"][Input[req]]
      BY <1>1, <1>2, <1>t, <2>2, CacheGetFresh DEF Parts
    <3>2. TakeCases(e.value, e.input, now - e.ts)
      BY <1>1, <2>2
    <3> HIDE DEF e
    <3> QED BY <1>1, <1>t, <2>2, <3>1, <3>2, TakeCasesHand DEF Parts
  <2> QED BY <2>1, <2>2 DEF Stages
<1>4. CacheType' /\ CacheInv'
  BY <1>1, <1>t DEF Parts, CacheType, CacheInv
<1> QED BY <1>t, <1>1, <1>3, <1>4, DocKept DEF Parts

(* A call begins with the cache's entry gone, which nothing depends on. *)
LEMMA BeginCallStep ==
  ASSUME IInv, BeginCall PROVE IInv'
<1>t. Parts
  BY IInvParts
<1>1. /\ pc \in Stages \cup {"scripts"} /\ attempt' = 1 /\ (pc = "scripts" => formats # <<>>)
      /\ UNCHANGED <<now, pc, req, formats, cases, age, scripts, doc>>
  BY DEF BeginCall
<1>2. HandType'
  BY <1>1, <1>t, BoundAssumption DEF Parts, HandType
<1>3. HandInv'
  BY <1>1, <1>t DEF Parts, HandInv, Checked
<1>4. CacheType' /\ CacheInv'
  <2>1. CASE pc \in Stages
    <3>1. req \in Requirements
      BY <1>t, <2>1 DEF Parts, HandInv, Stages
    <3>2. Slot(pc) \in Keys
      BY <2>1, <3>1, SlotIsKey
    <3>3. cache' = [cache EXCEPT ![pc][Slot(pc)] = None]
      BY <2>1 DEF BeginCall
    <3>4. CacheType'
      BY <1>t, <2>1, <3>2, <3>3 DEF Parts, CacheType
    <3>5. \A j \in Keys : cache'["cases"][j] \in {cache["cases"][j], None}
      BY <1>t, <2>1, <3>2, <3>3 DEF Parts, CacheType, Stages
    <3> QED BY <1>1, <1>t, <3>4, <3>5 DEF Parts, CacheInv
  <2>2. CASE pc \notin Stages
    <3>1. cache' = cache
      BY <2>2 DEF BeginCall
    <3> QED BY <1>1, <1>t, <3>1 DEF Parts, CacheType, CacheInv
  <2> QED BY <2>1, <2>2
<1> QED BY <1>t, <1>1, <1>2, <1>3, <1>4, DocKept DEF Parts

(* A call that is tried again, that fails, or that is not made. *)
LEMMA NoReplyStep ==
  ASSUME IInv, Retry \/ QualityCheckFailed \/ CallFailed \/ PromptTooLong
  PROVE  IInv'
<1>t. Parts
  BY IInvParts
<1>1. UNCHANGED <<now, cache, doc>>
  BY DEF Retry, QualityCheckFailed, CallFailed, PromptTooLong
<1>2. CacheType' /\ CacheInv'
  BY <1>1, <1>t DEF Parts, CacheType, CacheInv
<1>3. HandType' /\ HandInv'
  <2>1. CASE Retry
    <3>1. attempt' \in 0 .. MaxAttempts
      BY <2>1, BoundAssumption DEF Retry
    <3>2. HandType'
      BY <2>1, <1>t, <3>1 DEF Retry, Parts, HandType
    <3>3. attempt > 0
      BY <2>1, BoundAssumption DEF Retry
    <3> QED BY <2>1, <1>t, <3>2, <3>3 DEF Retry, Parts, HandInv, Checked
  <2>2. CASE QualityCheckFailed
    <3>1. HandType'
      BY <2>2, <1>t, BoundAssumption DEF QualityCheckFailed, Parts, HandType, Stages
    <3> QED BY <2>2, <1>t, <3>1 DEF QualityCheckFailed, Parts, HandInv, Checked
  <2>3. CASE CallFailed
    BY <2>3, LeaveHand DEF CallFailed
  <2>4. CASE PromptTooLong
    <3>1. Tail(formats) \in Seq(Formats)
      BY <2>4, <1>t DEF PromptTooLong, Parts, HandType
    <3>2. HandType'
      BY <2>4, <1>t, <3>1 DEF PromptTooLong, Parts, HandType
    <3> QED BY <2>4, <1>t, <3>2 DEF PromptTooLong, Parts, HandInv, Checked
  <2> QED BY <2>1, <2>2, <2>3, <2>4
<1> QED BY <1>t, <1>1, <1>2, <1>3, DocKept DEF Parts

(* The model answers the gate or the request for test cases. *)
LEMMA ReplyStep ==
  ASSUME IInv,
         \/ \E verdict \in {"GOOD", "UNTESTABLE"} : CheckRequirementQuality(verdict)
         \/ \E value \in {"CASES", "EMPTY"} : GenerateTestCases(value)
  PROVE  IInv'
<1>t. Parts
  BY IInvParts
<1>1. ASSUME NEW verdict \in {"GOOD", "UNTESTABLE"}, CheckRequirementQuality(verdict)
      PROVE  IInv'
  <2>1. pc = "quality" /\ CacheSet("quality", verdict) /\ Judge(verdict) /\ UNCHANGED <<now, doc>>
    BY <1>1 DEF CheckRequirementQuality
  <2>2. req \in Requirements
    BY <2>1, <1>t DEF Parts, HandInv
  <2>3. CacheType' /\ CacheInv'
    BY <2>1, <2>2, <1>t, CacheSetKeeps DEF Parts, Stages
  <2>4. HandType' /\ HandInv'
    BY <2>1, <1>t, JudgeHand DEF Parts
  <2> QED BY <1>t, <2>1, <2>3, <2>4, DocKept DEF Parts
<1>2. ASSUME NEW value \in {"CASES", "EMPTY"}, GenerateTestCases(value)
      PROVE  IInv'
  <2>1. /\ pc = "cases" /\ CacheSet("cases", value) /\ TakeCases(value, Input[req], 0)
        /\ UNCHANGED <<now, doc>>
    BY <1>2 DEF GenerateTestCases
  <2>2. req \in Requirements /\ Input[req] \in Inputs
    BY <2>1, <1>t DEF Parts, HandInv, Inputs
  <2>3. CacheType' /\ CacheInv'
    BY <2>1, <2>2, <1>t, CacheSetKeeps DEF Parts, Stages
  <2>4. 0 \in Nat /\ 0 =< TTL
    BY BoundAssumption
  <2>5. HandType' /\ HandInv'
    BY <2>1, <2>2, <2>4, <1>t, TakeCasesHand DEF Parts
  <2> QED BY <1>t, <2>1, <2>3, <2>5, DocKept DEF Parts
<1> QED BY <1>1, <1>2

(* A script is kept only if the checks for its format let it through. *)
LEMMA GenerateScriptStep ==
  ASSUME IInv, NEW content \in Contents, NEW check \in Checks, GenerateScript(content, check)
  PROVE  IInv'
<1>t. Parts
  BY IInvParts
<1> DEFINE f == Head(formats)
           s == [format |-> f, content |-> content, check |-> check]
<1>1. formats # <<>> /\ formats \in Seq(Formats)
  BY <1>t DEF GenerateScript, Parts, HandInv, HandType
<1>2. f \in Formats /\ Tail(formats) \in Seq(Formats)
  BY <1>1
<1>3. s \in Scripts /\ (Accepts(content, f, check) => Checked(s))
  BY <1>2 DEF Scripts, Accepts, Checked, Contents, Checks
<1>4. /\ scripts' = IF Accepts(content, f, check) THEN scripts \cup {s} ELSE scripts
      /\ formats' = Tail(formats) /\ attempt' = 0 /\ pc = "scripts"
      /\ UNCHANGED <<now, cache, pc, req, cases, age, doc>>
  BY DEF GenerateScript
<1> HIDE DEF s, f
<1>5. HandType'
  BY <1>2, <1>3, <1>4, <1>t, BoundAssumption DEF Parts, HandType
<1>6. \A x \in scripts' : x \in scripts \/ Checked(x)
  BY <1>3, <1>4
<1>7. HandInv'
  BY <1>4, <1>6, <1>t DEF Parts, HandInv, Checked
<1>8. CacheType' /\ CacheInv'
  BY <1>4, <1>t DEF Parts, CacheType, CacheInv
<1> QED BY <1>t, <1>4, <1>5, <1>7, <1>8, DocKept DEF Parts

(* The document is made of what is in hand: the step both properties are about. *)
LEMMA StoreStep ==
  ASSUME IInv, Store PROVE IInv'
<1>t. Parts
  BY IInvParts
<1> DEFINE d == [req |-> req, input |-> cases, age |-> age, scripts |-> scripts]
<1>1. /\ pc = "scripts" /\ doc' = (IF scripts = {} THEN doc ELSE d)
      /\ Leave /\ UNCHANGED <<now, cache>>
  BY DEF Store
<1>2. HandType' /\ HandInv' /\ CacheType' /\ CacheInv' /\ now' \in 0 .. MaxTime
  BY <1>1, <1>t, LeaveHand DEF Parts, CacheType, CacheInv
<1>3. CASE scripts = {}
  BY <1>1, <1>2, <1>3, <1>t, DocKept
<1>4. CASE scripts # {}
  <2>1. /\ req \in Requirements /\ cases \in Inputs /\ age \in Nat /\ age =< TTL
        /\ Key["cases"][cases] = Key["cases"][Input[req]]
        /\ scripts \subseteq Scripts /\ \A s \in scripts : Checked(s)
    BY <1>1, <1>t DEF Parts, HandType, HandInv
  <2>2. /\ d \in [req : Requirements, input : Inputs, age : Nat, scripts : SUBSET Scripts]
        /\ d.req = req /\ d.input = cases /\ d.age = age /\ d.scripts = scripts
    BY <2>1
  <2>3. doc' = d
    BY <1>1, <1>4
  <2> HIDE DEF d
  <2>4. DocType' /\ CasesMatchKey' /\ StoredScriptsChecked'
    BY <1>4, <2>1, <2>2, <2>3 DEF DocType, CasesMatchKey, StoredScriptsChecked, Checked
  <2> QED BY <1>2, <2>4, PartsPrimed DEF Parts
<1> QED BY <1>3, <1>4

-----------------------------------------------------------------------------

LEMMA StepIInv == IInv /\ [Next]_vars => IInv'
<1> SUFFICES ASSUME IInv, [Next]_vars PROVE IInv'
  OBVIOUS
<1>1. CASE UNCHANGED vars
  BY <1>1 DEF vars, IInv, TypeOK, CacheInv, HandInv, CasesMatchKey, StoredScriptsChecked, Checked
<1>2. CASE Tick
  BY <1>2, TickStep
<1>3. ASSUME NEW r \in Requirements, NEW fs \in FormatLists, StartRequirement(r, fs)
      PROVE  IInv'
  BY <1>3, StartRequirementStep
<1>4. CASE Pipeline
  BY <1>4, CacheHitStep, BeginCallStep, NoReplyStep, ReplyStep, GenerateScriptStep, StoreStep
  DEF Pipeline
<1> QED BY <1>1, <1>2, <1>3, <1>4 DEF Next

(* The invariant holds in every reachable state. *)
THEOREM Invariance == Spec => []IInv
BY InitIInv, StepIInv, PTL DEF Spec

(* Every variable keeps its type: no call is tried more often than allowed, and   *)
(* no format is taken from an empty list.                                         *)
THEOREM TypeCorrect == Spec => []TypeOK
<1>1. IInv => TypeOK
  BY DEF IInv
<1> QED BY <1>1, Invariance, PTL

(* What is stored for a requirement was asked for an input with its key, at most   *)
(* TTL before, whatever other jobs and tenants put into the shared cache.          *)
THEOREM CacheIsSound == Spec => []CasesMatchKey
<1>1. IInv => CasesMatchKey
  BY DEF IInv
<1> QED BY <1>1, Invariance, PTL

(* Every stored document has a script, and each one passed the checks that there   *)
(* are for its format, unless node's check could not be made.                      *)
THEOREM OnlyCheckedStored == Spec => []StoredScriptsChecked
<1>1. IInv => StoredScriptsChecked
  BY DEF IInv
<1> QED BY <1>1, Invariance, PTL
=============================================================================
