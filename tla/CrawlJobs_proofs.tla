-------------------------- MODULE CrawlJobs_proofs --------------------------
(* The inductive invariant of CrawlJobs: what a crawl map lists is in SQL, or *)
(* a save of it failed.                                                      *)
EXTENDS CrawlJobs, TLAPS

Message == [state : {"none", "ready", "locked", "done", "dead"},
            count : 0 .. MaxDelivery, generate_scripts : BOOLEAN]
Replica == [pc : {"listening", "crawl", "crawling", "store", "scripts", "ack", "nack", "hung"},
            job : Jobs \cup {None}, lock : 0 .. MaxDelivery, found : SUBSET Pages]

(* What DeliveryInv says of one message. *)
Countable(m) == /\ m.state = "ready" => m.count < MaxDelivery
                /\ m.state = "none" => m.count = 0

LEMMA InitIInv == Init => IInv
<1> SUFFICES ASSUME Init PROVE IInv
  OBVIOUS
<1>1. 0 \in 0 .. MaxDelivery
  BY DeliveryAssumption
<1>2. TypeOK
  BY <1>1 DEF Init, TypeOK, Listening
<1>3. DeliveryInv /\ FoundSaved /\ MapBackedByRows
  BY DEF Init, DeliveryInv, FoundSaved, MapBackedByRows, Listening
<1> QED BY <1>2, <1>3 DEF IInv

-----------------------------------------------------------------------------
(* What a step on one message, and a step of one worker, preserve           *)

(* The broker or the API puts one message into a state of its own; the worker   *)
(* and the stores are as they were.                                              *)
LEMMA MessageStep ==
  ASSUME IInv, NEW j \in Jobs, NEW m \in Message,
         Countable(m),
         msg' = [msg EXCEPT ![j] = m],
         row' \in [Jobs -> {"ABSENT", "OPEN", "PENDING", "CANCELLED"}],
         UNCHANGED <<wk, stores>>
  PROVE  IInv'
<1>t. TypeOK /\ DeliveryInv /\ FoundSaved /\ MapBackedByRows
  BY DEF IInv
<1>1. TypeOK'
  BY <1>t DEF TypeOK, Message, stores
<1>2. DeliveryInv'
  BY <1>t DEF DeliveryInv, TypeOK, Countable, stores
<1>3. FoundSaved' /\ MapBackedByRows'
  BY <1>t DEF FoundSaved, MapBackedByRows, stores
<1> QED BY <1>1, <1>2, <1>3 DEF IInv

(* A worker moves on, and is at store only with pages that are saved.  Rows are  *)
(* only added, so the pages of the other workers stay saved.                     *)
LEMMA WorkerStep ==
  ASSUME IInv, NEW w \in Workers, NEW r \in Replica,
         r.pc # "listening" => r.job \in Jobs,
         wk' = [wk EXCEPT ![w] = r],
         DeliveryInv => \A j \in Jobs : Countable(msg'[j]),
         msg' \in [Jobs -> Message],
         rows' \in [Jobs -> SUBSET Pages],
         lost' \in [Jobs -> SUBSET Pages],
         \A j \in Jobs : rows[j] \subseteq rows'[j] /\ lost[j] \subseteq lost'[j],
         r.pc = "store" => r.found \subseteq rows'[r.job] \cup lost'[r.job],
         UNCHANGED <<row, maps>>
  PROVE  IInv'
<1>t. TypeOK /\ DeliveryInv /\ FoundSaved /\ MapBackedByRows
  BY DEF IInv
<1>1. TypeOK'
  BY <1>t DEF TypeOK, Message, Replica
<1>2. wk'[w] = r /\ \A v \in Workers \ {w} : wk'[v] = wk[v]
  BY <1>t DEF TypeOK
<1>3. DeliveryInv'
  BY <1>2, <1>t DEF DeliveryInv, Countable
<1>4. FoundSaved'
  <2> SUFFICES ASSUME NEW v \in Workers, wk'[v].pc = "store", NEW p \in wk'[v].found
               PROVE  p \in rows'[wk'[v].job] \cup lost'[wk'[v].job]
    BY DEF FoundSaved
  <2>1. CASE v = w
    BY <1>2, <2>1
  <2>2. CASE v # w
    <3>1. wk'[v] = wk[v] /\ wk[v].job \in Jobs /\ p \in Pages
      BY <1>2, <1>t, <2>2 DEF TypeOK, DeliveryInv
    <3>2. p \in rows[wk[v].job] \cup lost[wk[v].job]
      BY <1>t, <3>1 DEF FoundSaved
    <3> QED BY <3>1, <3>2
  <2> QED BY <2>1, <2>2
<1>5. MapBackedByRows'
  <2> SUFFICES ASSUME NEW j \in Jobs, maps[j] # None, NEW p \in maps[j]
               PROVE  p \in rows'[j] \cup lost'[j]
    BY DEF MapBackedByRows
  <2>1. p \in Pages
    BY <1>t DEF TypeOK
  <2> QED BY <2>1, <1>t DEF MapBackedByRows
<1> QED BY <1>1, <1>3, <1>4, <1>5 DEF IInv

(* Saving the pages of a job keeps every row, and each of the pages has one or is    *)
(* among those whose save failed.                                                   *)
LEMMA SavePagesAccounts ==
  ASSUME TypeOK, NEW j \in Jobs, NEW found \in SUBSET Pages, SavePages(j, found)
  PROVE  /\ rows' \in [Jobs -> SUBSET Pages]
         /\ lost' \in [Jobs -> SUBSET Pages]
         /\ \A i \in Jobs : rows[i] \subseteq rows'[i] /\ lost[i] \subseteq lost'[i]
         /\ found \subseteq rows'[j] \cup lost'[j]
BY DEF SavePages, TypeOK

-----------------------------------------------------------------------------
(* The actions *)

LEMMA RequestStep ==
  ASSUME IInv, NEW j \in Jobs,
         \/ \E generate \in BOOLEAN : StartCrawlJob(j, generate)
         \/ CommitRequest(j) \/ AbortRequest(j) \/ CancelJob(j)
  PROVE  IInv'
<1>t. TypeOK /\ DeliveryInv
  BY DEF IInv
<1>1. ASSUME NEW generate \in BOOLEAN, StartCrawlJob(j, generate)
      PROVE  IInv'
  <2> DEFINE m == [state |-> "ready", count |-> 0, generate_scripts |-> generate]
  <2>1. m \in Message /\ Countable(m)
    BY DeliveryAssumption DEF Message, Countable
  <2>2. row' \in [Jobs -> {"ABSENT", "OPEN", "PENDING", "CANCELLED"}]
    BY <1>1, <1>t DEF StartCrawlJob, TypeOK
  <2>3. msg' = [msg EXCEPT ![j] = m] /\ UNCHANGED <<wk, stores>>
    BY <1>1 DEF StartCrawlJob
  <2> HIDE DEF m
  <2> QED BY <2>1, <2>2, <2>3, MessageStep
<1>2. CASE CommitRequest(j) \/ AbortRequest(j) \/ CancelJob(j)
  <2>1. row' \in [Jobs -> {"ABSENT", "OPEN", "PENDING", "CANCELLED"}]
    BY <1>2, <1>t DEF CommitRequest, AbortRequest, CancelJob, TypeOK
  <2>2. UNCHANGED <<msg, wk, stores>>
    BY <1>2 DEF CommitRequest, AbortRequest, CancelJob
  <2>3. msg[j] \in Message /\ Countable(msg[j])
    BY <1>t DEF TypeOK, DeliveryInv, Countable, Message
  <2>4. msg' = [msg EXCEPT ![j] = msg[j]]
    BY <2>2, <1>t DEF TypeOK
  <2> QED BY <2>1, <2>2, <2>3, <2>4, MessageStep
<1> QED BY <1>1, <1>2

LEMMA LockExpiresStep ==
  ASSUME IInv, NEW j \in Jobs, LockExpires(j)
  PROVE  IInv'
<1>t. TypeOK
  BY DEF IInv
<1> DEFINE m == [msg[j] EXCEPT !.state = IF msg[j].count >= MaxDelivery THEN "dead" ELSE "ready"]
<1>1. msg[j] \in Message
  BY <1>t DEF TypeOK, Message
<1>2. m \in Message /\ Countable(m)
  BY <1>1, DeliveryAssumption DEF Message, Countable
<1>3. /\ msg' = [msg EXCEPT ![j] = m]
      /\ row' \in [Jobs -> {"ABSENT", "OPEN", "PENDING", "CANCELLED"}]
      /\ UNCHANGED <<wk, stores>>
  BY <1>t DEF LockExpires, TypeOK
<1> HIDE DEF m
<1> QED BY <1>2, <1>3, MessageStep

(* A delivery: the message has one left, since it is ready. *)
LEMMA HandleCrawlJobStep ==
  ASSUME IInv, NEW w \in Workers, NEW j \in Jobs, HandleCrawlJob(w, j)
  PROVE  IInv'
<1>t. TypeOK /\ DeliveryInv
  BY DEF IInv
<1> DEFINE r == [pc |-> "crawl", job |-> j, lock |-> msg[j].count + 1, found |-> {}]
           m == [msg[j] EXCEPT !.state = "locked", !.count = @ + 1]
<1>1. msg[j] \in Message /\ msg[j].count + 1 \in 0 .. MaxDelivery
  BY <1>t, DeliveryAssumption DEF HandleCrawlJob, TypeOK, DeliveryInv, Message
<1>2. r \in Replica /\ r.job \in Jobs /\ r.pc # "store"
  BY <1>1 DEF Replica
<1>3. m \in Message /\ Countable(m)
  BY <1>1 DEF Message, Countable
<1>4. /\ wk' = [wk EXCEPT ![w] = r] /\ msg' = [msg EXCEPT ![j] = m]
      /\ UNCHANGED <<row, rows, maps, lost>>
  BY <1>t DEF HandleCrawlJob, stores, TypeOK
<1> HIDE DEF r, m
<1>5. msg' \in [Jobs -> Message]
      /\ \A i \in Jobs : Countable(msg'[i])
  BY <1>3, <1>4, <1>t DEF TypeOK, DeliveryInv, Countable, Message
<1> QED BY <1>2, <1>4, <1>5, <1>t, WorkerStep DEF TypeOK

(* The crawler saves what it found, in the middle or at the end. *)
LEMMA CrawlStep ==
  ASSUME IInv, NEW w \in Workers, PersistBatch(w) \/ RunCrawler(w)
  PROVE  IInv'
<1>t. TypeOK /\ DeliveryInv
  BY DEF IInv
<1>1. PICK found \in SUBSET Pages, pc \in {"crawling", "store"} :
        /\ SavePages(wk[w].job, found)
        /\ wk' = [wk EXCEPT ![w].pc = pc, ![w].found = found]
        /\ UNCHANGED <<row, msg, maps>>
  BY DEF PersistBatch, RunCrawler
<1> DEFINE r == [wk[w] EXCEPT !.pc = pc, !.found = found]
<1>2. wk[w] \in Replica /\ wk[w].job \in Jobs
  BY <1>t DEF TypeOK, DeliveryInv, PersistBatch, RunCrawler, Replica
<1>3. r \in Replica /\ r.job = wk[w].job /\ r.found = found
  BY <1>2 DEF Replica
<1>4. wk' = [wk EXCEPT ![w] = r]
  BY <1>1, <1>t DEF TypeOK
<1> HIDE DEF r
<1>5. msg' \in [Jobs -> Message]
      /\ (DeliveryInv => \A i \in Jobs : Countable(msg'[i]))
  BY <1>1, <1>t DEF TypeOK, DeliveryInv, Countable, Message
<1>6. /\ rows' \in [Jobs -> SUBSET Pages]
      /\ lost' \in [Jobs -> SUBSET Pages]
      /\ \A i \in Jobs : rows[i] \subseteq rows'[i] /\ lost[i] \subseteq lost'[i]
      /\ found \subseteq rows'[wk[w].job] \cup lost'[wk[w].job]
  BY <1>1, <1>2, <1>t, SavePagesAccounts
<1> QED BY <1>1, <1>2, <1>3, <1>4, <1>5, <1>6, WorkerStep

(* The map is written from pages that are saved: the step MapBackedByRows is about. *)
LEMMA StoreCrawlMapStep ==
  ASSUME IInv, NEW w \in Workers, StoreCrawlMap(w)
  PROVE  IInv'
<1>t. TypeOK /\ DeliveryInv /\ FoundSaved /\ MapBackedByRows
  BY DEF IInv
<1>1. wk[w].job \in Jobs /\ wk[w].found \in SUBSET Pages /\ wk[w].pc = "store"
  BY <1>t DEF StoreCrawlMap, TypeOK, DeliveryInv
<1>2. TypeOK'
  <2>1. wk' \in [Workers -> Replica]
    <3>1. wk[w] \in Replica /\ wk' = [wk EXCEPT ![w] = [wk[w] EXCEPT !.pc = "scripts"]]
      BY <1>t DEF StoreCrawlMap, TypeOK, Replica
    <3>2. [wk[w] EXCEPT !.pc = "scripts"] \in Replica
      BY <3>1 DEF Replica
    <3> QED BY <3>1, <3>2, <1>t DEF TypeOK, Replica
  <2>2. maps' \in [Jobs -> (SUBSET Pages) \cup {None}]
    BY <1>1, <1>t DEF StoreCrawlMap, TypeOK
  <2> QED BY <2>1, <2>2, <1>t DEF StoreCrawlMap, TypeOK, Replica
<1>3. DeliveryInv'
  BY <1>1, <1>t DEF StoreCrawlMap, TypeOK, DeliveryInv
<1>4. FoundSaved'
  BY <1>1, <1>t DEF StoreCrawlMap, TypeOK, FoundSaved
<1>5. wk[w].found \subseteq rows[wk[w].job] \cup lost[wk[w].job]
  BY <1>1, <1>t DEF FoundSaved
<1>6. MapBackedByRows'
  BY <1>1, <1>5, <1>t DEF StoreCrawlMap, TypeOK, MapBackedByRows
<1> QED BY <1>2, <1>3, <1>4, <1>6 DEF IInv

(* The steps that neither save nor store, with the message settled or as it was. *)
LEMMA SettleStep ==
  ASSUME IInv, NEW w \in Workers,
         \/ SkipScripts(w) \/ GenerateScripts(w) \/ Raise(w) \/ BrowserHangs(w)
         \/ CompleteMessage(w) \/ DeadLetterMessage(w) \/ Crash(w)
  PROVE  IInv'
<1>t. TypeOK /\ DeliveryInv
  BY DEF IInv
<1>1. wk[w] \in Replica /\ wk[w].job \in Jobs
  <2>1. wk[w].pc # "listening"
    BY DEF SkipScripts, GenerateScripts, Raise, BrowserHangs, CompleteMessage, DeadLetterMessage, Crash
  <2> QED BY <2>1, <1>t DEF TypeOK, DeliveryInv, Replica
<1>2. PICK r \in Replica : /\ wk' = [wk EXCEPT ![w] = r]
                           /\ r.pc # "listening" => r.job \in Jobs
                           /\ r.pc # "store"
  <2>1. Listening \in Replica /\ Listening.pc = "listening"
    BY DeliveryAssumption DEF Listening, Replica
  <2>2. \A pc \in {"ack", "nack", "hung"} :
          LET r == [wk[w] EXCEPT !.pc = pc]
          IN  r \in Replica /\ r.pc = pc /\ r.job = wk[w].job
    BY <1>1 DEF Replica
  <2>3. \/ wk' = [wk EXCEPT ![w] = Listening]
        \/ \E pc \in {"ack", "nack", "hung"} : wk' = [wk EXCEPT ![w] = [wk[w] EXCEPT !.pc = pc]]
    BY <1>t DEF SkipScripts, GenerateScripts, Raise, BrowserHangs, CompleteMessage, DeadLetterMessage, Crash,
                TypeOK
  <2> QED BY <1>1, <2>1, <2>2, <2>3
<1>3. /\ msg' \in [Jobs -> Message]
      /\ \A i \in Jobs : Countable(msg'[i])
  <2>1. \/ msg' = msg
        \/ \E s \in {"done", "dead"} : msg' = [msg EXCEPT ![wk[w].job] = [@ EXCEPT !.state = s]]
    BY DEF SkipScripts, GenerateScripts, Raise, BrowserHangs, CompleteMessage, DeadLetterMessage, Crash
  <2>2. msg \in [Jobs -> Message]
    BY <1>t DEF TypeOK, Message
  <2>3. \A s \in {"done", "dead"}, j \in Jobs :
          LET m == [msg[j] EXCEPT !.state = s] IN m \in Message /\ Countable(m)
    BY <2>2 DEF Message, Countable
  <2>4. CASE msg' = msg
    BY <1>t, <2>2, <2>4 DEF DeliveryInv, Countable
  <2>5. ASSUME NEW m \in Message, Countable(m), msg' = [msg EXCEPT ![wk[w].job] = m]
        PROVE  /\ msg' \in [Jobs -> Message]
               /\ \A i \in Jobs : Countable(msg'[i])
    BY <1>1, <1>t, <2>2, <2>5 DEF DeliveryInv, Countable
  <2>6. ASSUME NEW s \in {"done", "dead"},
               msg' = [msg EXCEPT ![wk[w].job] = [@ EXCEPT !.state = s]]
        PROVE  \E m \in Message : Countable(m) /\ msg' = [msg EXCEPT ![wk[w].job] = m]
    BY <1>1, <2>2, <2>3, <2>6
  <2> QED BY <2>1, <2>4, <2>5, <2>6
<1>4. UNCHANGED <<row, rows, maps, lost>>
  BY DEF SkipScripts, GenerateScripts, Raise, BrowserHangs, CompleteMessage, DeadLetterMessage, Crash, stores
<1> QED BY <1>2, <1>3, <1>4, <1>t, WorkerStep DEF TypeOK

-----------------------------------------------------------------------------

LEMMA StepIInv == IInv /\ [Next]_vars => IInv'
<1> SUFFICES ASSUME IInv, [Next]_vars PROVE IInv'
  OBVIOUS
<1>1. CASE UNCHANGED vars
  BY <1>1 DEF vars, stores, IInv, TypeOK, DeliveryInv, FoundSaved, MapBackedByRows
<1>2. ASSUME NEW j \in Jobs,
             \/ \E generate \in BOOLEAN : StartCrawlJob(j, generate)
             \/ CommitRequest(j) \/ AbortRequest(j) \/ CancelJob(j)
      PROVE  IInv'
  BY <1>2, RequestStep
<1>3. ASSUME NEW j \in Jobs, LockExpires(j) PROVE IInv'
  BY <1>3, LockExpiresStep
<1>4. ASSUME NEW w \in Workers, Take(w) PROVE IInv'
  BY <1>4, HandleCrawlJobStep DEF Take
<1>5. ASSUME NEW w \in Workers, Handle(w) \/ BrowserHangs(w) \/ Crash(w) PROVE IInv'
  BY <1>5, CrawlStep, StoreCrawlMapStep, SettleStep DEF Handle
<1> QED BY <1>1, <1>2, <1>3, <1>4, <1>5 DEF Next

(* The invariant holds in every reachable state. *)
THEOREM Invariance == Spec => []IInv
BY InitIInv, StepIInv, PTL DEF Spec

(* Every variable keeps its type: no message is delivered more often than the    *)
(* subscription allows.                                                          *)
THEOREM TypeCorrect == Spec => []TypeOK
<1>1. IInv => TypeOK
  BY DEF IInv
<1> QED BY <1>1, Invariance, PTL

(* Whatever replicas crawl for one job, in whatever order, with crashes and lost *)
(* locks: a page that the map in Cosmos DB lists has its row in crawl_pages, or a *)
(* save of this page was tried and failed.                                       *)
THEOREM MapIsBacked == Spec => []MapBackedByRows
<1>1. IInv => MapBackedByRows
  BY DEF IInv
<1> QED BY <1>1, Invariance, PTL
-----------------------------------------------------------------------------
(* The variant of CrawlSettles *)

(* How a message moves: it is sent, delivered, and settled or released. *)
Moves(m, n) ==
  \/ m.state = "none" /\ n.state = "ready" /\ n.count = m.count
  \/ m.state = "ready" /\ n.state = "locked" /\ n.count = m.count + 1
  \/ m.state = "locked" /\ n.state \in {"ready", "done", "dead"} /\ n.count = m.count

LEMMA MovesLeftDecreases ==
  ASSUME NEW m \in Message, NEW n \in Message, Countable(n), Moves(m, n)
  PROVE  /\ MovesLeft(n) \in 0 .. MovesLeft(m) - 1
         /\ m.state \notin {"done", "dead"}
         /\ MovesLeft(n) = 0 => n.state \in {"done", "dead"}
<1>1. m.count \in 0 .. MaxDelivery /\ n.count \in 0 .. MaxDelivery /\ MaxDelivery \in Nat
  BY DeliveryAssumption DEF Message
<1>2. CASE m.state = "none" /\ n.state = "ready" /\ n.count = m.count
  BY <1>1, <1>2 DEF MovesLeft, Countable
<1>3. CASE m.state = "ready" /\ n.state = "locked" /\ n.count = m.count + 1
  BY <1>1, <1>3 DEF MovesLeft
<1>4. CASE m.state = "locked" /\ n.state \in {"ready", "done", "dead"} /\ n.count = m.count
  <2>1. CASE n.state = "ready"
    BY <1>1, <1>4, <2>1 DEF MovesLeft, Countable
  <2>2. CASE n.state \in {"done", "dead"}
    <3>1. /\ MovesLeft(m) = 2 * (MaxDelivery - m.count) + 1
          /\ MovesLeft(n) = 2 * (MaxDelivery - m.count)
      BY <1>1, <1>4, <2>2 DEF MovesLeft
    <3> QED BY <1>1, <1>4, <2>2, <3>1
  <2> QED BY <1>4, <2>1, <2>2
<1> QED BY <1>2, <1>3, <1>4 DEF Moves

(* No step of the API, the broker or a worker does anything else to a message. *)
LEMMA MessagesMove ==
  ASSUME IInv, [Next]_vars, NEW j \in Jobs, msg'[j] # msg[j]
  PROVE  Moves(msg[j], msg'[j])
<1>t. msg \in [Jobs -> Message] /\ DeliveryInv
  BY DEF IInv, TypeOK, Message
<1> USE <1>t DEF Message
<1>1. CASE UNCHANGED vars
  BY <1>1 DEF vars
<1>2. ASSUME NEW i \in Jobs, NEW generate \in BOOLEAN, StartCrawlJob(i, generate)
      PROVE  Moves(msg[j], msg'[j])
  BY <1>2 DEF StartCrawlJob, DeliveryInv, Moves
<1>3. ASSUME NEW i \in Jobs, CommitRequest(i) \/ AbortRequest(i) \/ CancelJob(i)
      PROVE  Moves(msg[j], msg'[j])
  BY <1>3 DEF CommitRequest, AbortRequest, CancelJob
<1>4. ASSUME NEW i \in Jobs, LockExpires(i)
      PROVE  Moves(msg[j], msg'[j])
  BY <1>4 DEF LockExpires, Moves
<1>5. ASSUME NEW w \in Workers, Take(w)
      PROVE  Moves(msg[j], msg'[j])
  BY <1>5 DEF Take, HandleCrawlJob, Moves
<1>6. ASSUME NEW w \in Workers, CompleteMessage(w) \/ DeadLetterMessage(w)
      PROVE  Moves(msg[j], msg'[j])
  BY <1>6 DEF CompleteMessage, DeadLetterMessage, HoldsLock, Moves
<1>7. ASSUME NEW w \in Workers,
             \/ PersistBatch(w) \/ RunCrawler(w) \/ StoreCrawlMap(w)
             \/ SkipScripts(w) \/ GenerateScripts(w) \/ Raise(w)
             \/ BrowserHangs(w) \/ Crash(w)
      PROVE  Moves(msg[j], msg'[j])
  BY <1>7 DEF PersistBatch, RunCrawler, StoreCrawlMap, SkipScripts, GenerateScripts, Raise,
     BrowserHangs, Crash
<1> QED BY <1>1, <1>2, <1>3, <1>4, <1>5, <1>6, <1>7 DEF Next, Handle

(* What CrawlSettles rests on: no message moves more than 2 * MaxDelivery + 1     *)
(* times, through crashes, exceptions and lost locks, and the last move settles   *)
(* it.  That a message does move on is what the fairness of the receiver, the     *)
(* handler and the broker adds.                                                   *)
THEOREM EveryMoveCounts == Spec => MessageAdvances
<1>1. IInv /\ IInv' /\ [Next]_vars =>
        [\A j \in Jobs :
           msg'[j] # msg[j] =>
             /\ MovesLeft(msg'[j]) \in 0 .. MovesLeft(msg[j]) - 1
             /\ msg[j].state \notin {"done", "dead"}
             /\ MovesLeft(msg'[j]) = 0 => msg'[j].state \in {"done", "dead"}]_vars
  <2> SUFFICES ASSUME IInv, IInv', [Next]_vars, NEW j \in Jobs, msg'[j] # msg[j]
               PROVE  /\ MovesLeft(msg'[j]) \in 0 .. MovesLeft(msg[j]) - 1
                      /\ msg[j].state \notin {"done", "dead"}
                      /\ MovesLeft(msg'[j]) = 0 => msg'[j].state \in {"done", "dead"}
    OBVIOUS
  <2>1. msg[j] \in Message
    BY DEF IInv, TypeOK, Message
  <2>2. msg'[j] \in Message /\ Countable(msg'[j])
    BY DEF IInv, TypeOK, DeliveryInv, Message, Countable
  <2>3. Moves(msg[j], msg'[j])
    BY MessagesMove
  <2> QED BY <2>1, <2>2, <2>3, MovesLeftDecreases
<1> QED BY <1>1, Invariance, PTL DEF Spec, MessageAdvances
=============================================================================
