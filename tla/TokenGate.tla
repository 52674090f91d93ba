------------------------------ MODULE TokenGate ------------------------------
(***************************************************************************)
(* What a request to the KAATS backend passes before it touches the        *)
(* database: the rate limit of get_current_user or, on the way to          *)
(* /auth/token, the throttle of failed exchanges, and the validation of    *)
(* its token with a signing key from the JWKS cache, which all requests    *)
(* of the process share and refresh one at a time.                         *)
(*                                                                         *)
(* The requests of the model come from one client address.  The token of   *)
(* a request names its signing key; the identity provider withdraws and    *)
(* publishes keys.  Access says what a validated request does.             *)
(*                                                                         *)
(* The code compares nothing but differences of times with limits, so a    *)
(* time is kept as its age, up to the least that exceeds the limit.        *)
(***************************************************************************)
EXTENDS Naturals, Sequences, FiniteSets

CONSTANTS
  Requests,      \* bound: the requests, each made once
  Ids,           \* identities in Entra ID (oid, one e-mail address each)
  Tenants,       \* the tenants of the active companies
  Work,          \* the endpoints in a tenant
  Asks,          \* bound: what a request may be
  Kids,          \* signing keys
  MaxRequests,   \* requests per window
  WindowSeconds,
  MaxFailures,   \* failed exchanges per window of the throttle
  ThrottleSeconds,
  Ttl,           \* _JWKS_TTL_SECONDS
  Timeout,       \* of the client that fetches the keys (10)
  None

ASSUME AskAssumption ==
  Asks \subseteq [kind : {"token", "logout", "tenants"} \cup Work, id : Ids, kid : Kids,
                 tenant : Tenants \cup {None}, whom : Ids]
ASSUME LimitAssumption ==
  {MaxRequests, WindowSeconds, MaxFailures, ThrottleSeconds, Ttl, Timeout} \subseteq Nat
ASSUME NoneAssumption == None \notin Requests \cup Tenants

VARIABLES
  window,    \* _rate_windows of the client's key
  failures,  \* _failures of the client
  jwks,      \* _jwks_cache: [keys, fetched_at]
  answer,    \* the provider's answer that is on its way: [keys, age]
  lock,      \* its lock: who holds it
  withdrawn, \* the provider's keys: 0 while published, n + 1 when withdrawn n seconds ago
  pc,        \* where each request stands
  ask        \* what it is: [kind, id, kid, tenant (None without the header), whom]

limits == <<window, failures>>
gate == <<limits, jwks, answer, lock, withdrawn>>

NoAnswer == [keys |-> {}, age |-> 0]
NoAsk == [kind |-> None, id |-> None, kid |-> None, tenant |-> None, whom |-> None]

GateInit ==
  /\ window = <<>> /\ failures = <<>>
  /\ jwks = [keys |-> {}, fetched_at |-> Ttl + 1] /\ answer = NoAnswer /\ lock = None
  /\ withdrawn = [k \in Kids |-> 0]
  /\ pc = [r \in Requests |-> "idle"]
  /\ ask = [r \in Requests |-> NoAsk]

Goto(r, l) == pc' = [pc EXCEPT ![r] = l]

\* The request is answered, well or badly.
Answer(r) == Goto(r, "done") /\ ask' = [ask EXCEPT ![r] = NoAsk]

\* The stamps of a sliding window a second later.  They are in the order of time, so
\* those that leave the window come first.
Aged(stamps, seconds) ==
  LET ages == [i \in 1 .. Len(stamps) |-> stamps[i] + 1]
      outside == {i \in 1 .. Len(stamps) : ages[i] >= seconds}
  IN  SubSeq(ages, Cardinality(outside) + 1, Len(stamps))

\* The answer 429 is given before anything is known of the request.
CheckRateLimit(r, a) ==
  /\ pc[r] = "idle" /\ a.kind # "token"
  /\ IF Len(window) >= MaxRequests
       THEN Answer(r) /\ UNCHANGED window
       ELSE /\ window' = Append(window, 0)
            /\ Goto(r, "key")
            /\ ask' = [ask EXCEPT ![r] = a]
  /\ UNCHANGED <<failures, jwks, answer, lock, withdrawn>>

IsBlocked == Len(failures) >= MaxFailures
RecordFailure == failures' = Append(failures, 0)

\* The authorization code is exchanged unless the client is blocked; a code the
\* provider refuses is a failure, an exception of the exchange is not.
ExchangeCode(r, a) ==
  /\ pc[r] = "idle" /\ a.kind = "token"
  /\ \/ ~IsBlocked /\ Goto(r, "key") /\ ask' = [ask EXCEPT ![r] = a] /\ UNCHANGED failures
     \/ ~IsBlocked /\ RecordFailure /\ Answer(r)
     \/ Answer(r) /\ UNCHANGED failures
  /\ UNCHANGED <<window, jwks, answer, lock, withdrawn>>

\* Mutant: a known key is never refreshed.
Stale_NoTtl(kid) == kid \notin jwks.keys

Stale(kid) == jwks.fetched_at > Ttl \/ kid \notin jwks.keys

\* Only a failed exchange is counted.
Refuse(r) ==
  /\ IF ask[r].kind = "token" THEN RecordFailure ELSE UNCHANGED failures
  /\ Answer(r)

\* jwt.decode with the key, if it is known; the token may be expired or foreign.  An
\* exchange that comes this far clears the client's failures.
Decode(r, keys) ==
  \/ /\ ask[r].kid \in keys
     /\ failures' = IF ask[r].kind = "token" THEN <<>> ELSE failures
     /\ Goto(r, "valid")
     /\ UNCHANGED ask
  \/ Refuse(r)

GetKey(r) ==
  /\ pc[r] = "key"
  /\ IF Stale(ask[r].kid)
       THEN Goto(r, "lock") /\ UNCHANGED <<failures, ask>>
       ELSE Decode(r, jwks.keys)
  /\ UNCHANGED <<window, jwks, answer, lock, withdrawn>>

\* The check is repeated under the lock.
LockCache(r) ==
  /\ pc[r] = "lock" /\ lock = None
  /\ IF Stale(ask[r].kid)
       THEN lock' = r /\ Goto(r, "fetch") /\ UNCHANGED <<failures, ask>>
       ELSE Decode(r, jwks.keys) /\ UNCHANGED lock
  /\ UNCHANGED <<window, jwks, answer, withdrawn>>

\* The provider answers with the keys it publishes at this moment.
ProviderAnswers(r) ==
  /\ pc[r] = "fetch"
  /\ answer' = [keys |-> {k \in Kids : withdrawn[k] = 0}, age |-> 0]
  /\ Goto(r, "fetched")
  /\ UNCHANGED <<limits, jwks, lock, withdrawn, ask>>

\* The answer is there: it replaces the cache, which is stamped with the time of its
\* arrival.
Refresh(r) ==
  /\ pc[r] = "fetched"
  /\ jwks' = [keys |-> answer.keys, fetched_at |-> 0]
  /\ answer' = NoAnswer /\ lock' = None
  /\ Decode(r, answer.keys)
  /\ UNCHANGED <<window, withdrawn>>

\* No answer within the timeout, or a bad one: not a ValueError, so not a refusal.
RefreshFails(r) ==
  /\ pc[r] \in {"fetch", "fetched"}
  /\ answer' = NoAnswer /\ lock' = None
  /\ Answer(r)
  /\ UNCHANGED <<limits, jwks, withdrawn>>

Validate(r) ==
  GetKey(r) \/ LockCache(r) \/ ProviderAnswers(r) \/ Refresh(r) \/ RefreshFails(r)

Arrive(r) == \E a \in Asks : CheckRateLimit(r, a) \/ ExchangeCode(r, a)

-----------------------------------------------------------------------------

\* The provider withdraws a key, or publishes it (again).
Rotate(k) ==
  /\ withdrawn' = [withdrawn EXCEPT ![k] = IF @ = 0 THEN 1 ELSE 0]
  /\ UNCHANGED <<limits, jwks, answer, lock, pc, ask>>

Older(age, limit) == IF age > limit THEN age ELSE age + 1

OnItsWay == \E r \in Requests : pc[r] = "fetched"

\* A second passes; an answer is on its way for no longer than the timeout.  (httpx
\* counts from byte to byte: an answer that trickles in for longer is left out.)
Tick ==
  /\ OnItsWay => answer.age < Timeout
  /\ answer' = [answer EXCEPT !.age = IF OnItsWay THEN @ + 1 ELSE @]
  /\ window' = Aged(window, WindowSeconds)
  /\ failures' = Aged(failures, ThrottleSeconds)
  /\ jwks' = [jwks EXCEPT !.fetched_at = Older(@, Ttl)]
  /\ withdrawn' = [k \in Kids |->
                     IF withdrawn[k] = 0 THEN 0 ELSE Older(withdrawn[k], Ttl + Timeout + 1)]
  /\ UNCHANGED <<lock, pc, ask>>

-----------------------------------------------------------------------------

\* Where a request may stand: first the token, then the sessions of Access.
Labels == {"idle", "key", "lock", "fetch", "fetched", "done", "valid", "select", "provision", "resolve",
           "session", "context", "work", "flush", "commit"}

GateTypeOK ==
  /\ window \in Seq(Nat) /\ Len(window) =< MaxRequests
  /\ failures \in Seq(Nat)
  /\ pc \in [Requests -> Labels] /\ ask \in [Requests -> Asks \cup {NoAsk}]
  /\ jwks \in [keys : SUBSET Kids, fetched_at : 0 .. Ttl + 1]
  /\ answer \in [keys : SUBSET Kids, age : 0 .. Timeout]
  /\ lock \in Requests \cup {None}
  /\ withdrawn \in [Kids -> 0 .. Ttl + Timeout + 2]
  /\ \A r \in Requests : ask[r] \in IF pc[r] \in {"idle", "done"} THEN {NoAsk} ELSE Asks

\* Whichever requests refresh the cache and whoever waits for the lock meanwhile, a
\* token is only accepted with a key the provider has not withdrawn for longer than
\* the time to live and the time its answer was on the way (_JwksCache and validate).
FreshKeys ==
  [][\A r \in Requests : pc[r] # "valid" /\ pc'[r] = "valid" =>
       withdrawn[ask[r].kid] =< Ttl + Timeout + 1]_<<gate, pc>>

-----------------------------------------------------------------------------
(* Parts of the inductive invariant *)

\* One request at a time fetches the keys: the one that holds the lock.
LockInv == \A r \in Requests : pc[r] \in {"fetch", "fetched"} <=> lock = r

\* A key in an answer was published when the provider gave it, and one in the cache
\* no longer than the timeout before the cache was filled.
KeyInv ==
  /\ \A k \in answer.keys : withdrawn[k] =< answer.age + 1
  /\ \A k \in jwks.keys : withdrawn[k] =< jwks.fetched_at + Timeout + 1
  /\ ~OnItsWay => answer = NoAnswer
=============================================================================
