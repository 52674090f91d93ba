---------------------------- MODULE Access_proofs ---------------------------
(* The inductive invariant of Access with TokenGate: sessions, tenants and   *)
(* the key cache.                                                            *)
EXTENDS Access, FiniteSetTheorems, SequenceTheorems, Integers, TLAPS

(* What is said of the gate, and of the database.                            *)
GateInv == GateTypeOK /\ LockInv /\ KeyInv

DataTypeOK ==
  /\ users \subseteq Users /\ roles \subseteq users \X Tenants
  /\ \A u, v \in users : u.oid = v.oid => u = v
  /\ conn \in [Conns -> Requests \cup {None}]
  /\ ctx \in [Conns -> Tenants \cup {None}]
  /\ tx \in [Requests -> WriteSets] /\ todo \in [Requests -> WriteSets]
  /\ held \in [Requests -> BOOLEAN]

LEMMA IInvParts ==
  IInv <=> /\ GateInv /\ DataTypeOK /\ ConnInv /\ WriteInv /\ OidInv
           /\ OwnTenantOnly /\ GrantedByRole
BY DEF IInv, TypeOK, GateInv, DataTypeOK

LEMMA PartsPrimed ==
  /\ GateInv' /\ DataTypeOK' /\ ConnInv' /\ WriteInv' /\ OidInv'
  /\ OwnTenantOnly' /\ GrantedByRole'
  => IInv'
BY DEF IInv, TypeOK, GateInv, DataTypeOK

(* What a request may be asked.                                              *)
LEMMA AskFields ==
  ASSUME NEW a \in Asks
  PROVE  a.id \in Ids /\ a.whom \in Ids /\ a.kid \in Kids /\ a.tenant \in Tenants \cup {None}
BY AskAssumption

LEMMA InitIInv == Init => IInv
<1> SUFFICES ASSUME Init PROVE IInv
  OBVIOUS
<1>1. GateTypeOK
  BY LimitAssumption DEF Init, GateInit, GateTypeOK, Labels, NoAnswer
<1>2. LockInv /\ KeyInv
  BY NoneAssumption DEF Init, GateInit, LockInv, KeyInv, NoAnswer
<1>3. NoWrites \in WriteSets
  BY DEF NoWrites, Writes, WriteSets
<1>4. users \subseteq Users /\ roles \subseteq users \X Tenants
  BY SeedAssumption DEF Init, Users, User
<1>5. \A u, v \in users : u.oid = v.oid => u = v
  BY DEF Init, User
<1>6. DataTypeOK
  BY <1>3, <1>4, <1>5 DEF Init, DataTypeOK
<1>7. ConnInv
  BY NoneAssumption DEF Init, GateInit, ConnInv, InSession
<1>8. WriteInv /\ OidInv
  BY DEF Init, GateInit, WriteInv, OidInv, NoWrites, Writes
<1>9. OwnTenantOnly /\ GrantedByRole
  BY DEF Init, GateInit, OwnTenantOnly, GrantedByRole
<1> QED BY <1>1, <1>2, <1>6, <1>7, <1>8, <1>9, IInvParts DEF GateInv

-----------------------------------------------------------------------------
(* The gate *)

(* A window only loses stamps as time goes by. *)
LEMMA AgedShortens ==
  ASSUME NEW stamps \in Seq(Nat), NEW seconds \in Nat
  PROVE  Aged(stamps, seconds) \in Seq(Nat) /\ Len(Aged(stamps, seconds)) =< Len(stamps)
<1> DEFINE n == Len(stamps)
           ages == [i \in 1 .. n |-> stamps[i] + 1]
           outside == {i \in 1 .. n : ages[i] >= seconds}
           k == Cardinality(outside)
<1>1. n \in Nat /\ \A i \in 1 .. n : ages[i] \in Nat
  OBVIOUS
<1>2. k \in Nat
  <2>1. IsFiniteSet(1 .. n)
    BY <1>1, FS_Interval
  <2> QED BY <2>1, FS_Subset, FS_CardinalityType
<1> HIDE DEF ages, outside, k
<1>3. \A i \in k + 1 .. n : ages[i] \in Nat
  BY <1>1, <1>2
<1>4. /\ SubSeq(ages, k + 1, n) \in Seq(Nat)
      /\ Len(SubSeq(ages, k + 1, n)) = IF k + 1 =< n THEN n - (k + 1) + 1 ELSE 0
  BY <1>1, <1>2, <1>3, SubSeqProperties
<1>5. Aged(stamps, seconds) = SubSeq(ages, k + 1, n)
  BY DEF Aged, ages, outside, k
<1> QED BY <1>1, <1>2, <1>4, <1>5

(* An identity that is asked of stays with the request, and its answer clears it. *)
AskFollows(r, l) ==
  \/ l # "done" /\ ask' = ask
  \/ l = "done" /\ ask' = [ask EXCEPT ![r] = NoAsk]

(* A decoded token is accepted with a key of those given, or refused. *)
LEMMA DecodeOutcome ==
  ASSUME GateTypeOK, NEW r \in Requests, NEW keys, Decode(r, keys)
  PROVE  /\ failures' \in Seq(Nat)
         /\ \E l \in {"valid", "done"} :
              /\ pc' = [pc EXCEPT ![r] = l]
              /\ l = "valid" => ask[r].kid \in keys
              /\ AskFollows(r, l)
<1>1. failures \in Seq(Nat) /\ Append(failures, 0) \in Seq(Nat) /\ <<>> \in Seq(Nat)
  BY DEF GateTypeOK
<1> QED BY <1>1 DEF Decode, Refuse, RecordFailure, Answer, Goto, AskFollows

(* Where the steps of the gate lead. *)
GateMoves(r) ==
  \E l \in {"key", "lock", "fetch", "fetched", "valid", "done"} :
    /\ pc[r] \in {"idle", "key", "lock", "fetch", "fetched"}
    /\ pc' = [pc EXCEPT ![r] = l]
    /\ \E a \in Asks \cup {NoAsk} : ask' = [ask EXCEPT ![r] = a]

LEMMA ArriveStep ==
  ASSUME GateInv, NEW r \in Requests, Arrive(r)
  PROVE  GateInv' /\ GateMoves(r)
<1>t. GateTypeOK
  BY DEF GateInv
<1>1. PICK a \in Asks : CheckRateLimit(r, a) \/ ExchangeCode(r, a)
  BY DEF Arrive
<1>2. PICK l \in {"key", "done"} :
        /\ pc[r] = "idle" /\ pc' = [pc EXCEPT ![r] = l]
        /\ ask' = [ask EXCEPT ![r] = IF l = "done" THEN NoAsk ELSE a]
  BY <1>1 DEF CheckRateLimit, ExchangeCode, Answer, Goto
<1>3. UNCHANGED <<jwks, answer, lock, withdrawn>>
  BY <1>1 DEF CheckRateLimit, ExchangeCode
<1>4. window' \in Seq(Nat) /\ Len(window') =< MaxRequests
  <2>1. CASE window' = window
    BY <2>1, <1>t DEF GateTypeOK
  <2>2. CASE window' # window
    <3>1. ~(Len(window) >= MaxRequests) /\ window' = Append(window, 0)
      BY <1>1, <2>2 DEF CheckRateLimit, ExchangeCode
    <3>2. window \in Seq(Nat) /\ Len(window) \in Nat
      BY <1>t DEF GateTypeOK
    <3> QED BY <3>1, <3>2, LimitAssumption
  <2> QED BY <2>1, <2>2
<1>5. failures' \in Seq(Nat)
  <2>1. failures \in Seq(Nat) /\ Append(failures, 0) \in Seq(Nat)
    BY <1>t DEF GateTypeOK
  <2> QED BY <1>1, <2>1 DEF CheckRateLimit, ExchangeCode, RecordFailure
<1>6. GateTypeOK'
  BY <1>2, <1>3, <1>4, <1>5, <1>t DEF GateTypeOK, Labels
<1>7. LockInv' /\ KeyInv'
  BY <1>2, <1>3, <1>t DEF GateInv, GateTypeOK, LockInv, KeyInv, OnItsWay
<1>8. GateMoves(r)
  BY <1>2 DEF GateMoves
<1> QED BY <1>6, <1>7, <1>8 DEF GateInv

(* A refresh fills the cache with keys that were published at most the timeout ago. *)
LEMMA ValidateStep ==
  ASSUME GateInv, NEW r \in Requests, Validate(r)
  PROVE  /\ GateInv' /\ GateMoves(r)
         /\ pc'[r] = "valid" => withdrawn[ask[r].kid] =< Ttl + Timeout + 1
<1>t. GateTypeOK /\ LockInv /\ KeyInv
  BY DEF GateInv
<1>w. /\ ask[r] \in Asks \cup {NoAsk} /\ Ttl \in Nat /\ Timeout \in Nat
      /\ \A k \in jwks.keys \cup answer.keys : k \in Kids /\ withdrawn[k] \in Nat
      /\ jwks.fetched_at \in Nat /\ answer.age \in Nat /\ answer.age =< Timeout
      /\ NoAnswer \in [keys : SUBSET Kids, age : 0 .. Timeout]
  BY <1>t, LimitAssumption DEF GateTypeOK, NoAnswer
<1>f. ~Stale(ask[r].kid) => withdrawn[ask[r].kid] =< Ttl + Timeout + 1
  <2> SUFFICES ASSUME ~Stale(ask[r].kid) PROVE withdrawn[ask[r].kid] =< Ttl + Timeout + 1
    OBVIOUS
  <2> DEFINE k == ask[r].kid
  <2>1. ~(jwks.fetched_at > Ttl) /\ k \in jwks.keys
    BY DEF Stale
  <2>2. withdrawn[k] =< jwks.fetched_at + Timeout + 1
    BY <2>1, <1>t DEF KeyInv
  <2> HIDE DEF k
  <2>3. withdrawn[k] =< Ttl + Timeout + 1
    BY <2>1, <2>2, <1>w
  <2> QED BY <2>3 DEF k
<1>1. CASE GetKey(r) \/ LockCache(r)
  <2>1. UNCHANGED <<window, jwks, answer, withdrawn>> /\ pc[r] \in {"key", "lock"}
    BY <1>1 DEF GetKey, LockCache
  <2>2. PICK l \in {"lock", "fetch", "valid", "done"} :
          /\ pc' = [pc EXCEPT ![r] = l] /\ AskFollows(r, l)
          /\ failures' \in Seq(Nat)
          /\ l = "valid" => ~Stale(ask[r].kid)
          /\ l = "fetch" => lock = None /\ lock' = r
          /\ l # "fetch" => lock' = lock
    <3>1. CASE Stale(ask[r].kid)
      <4>1. \E l \in {"lock", "fetch"} :
              /\ pc' = [pc EXCEPT ![r] = l] /\ UNCHANGED <<failures, ask>>
              /\ l = "fetch" => lock = None /\ lock' = r
              /\ l # "fetch" => lock' = lock
        BY <1>1, <3>1 DEF GetKey, LockCache, Goto
      <4> QED BY <4>1, <1>t DEF AskFollows, GateTypeOK
    <3>2. CASE ~Stale(ask[r].kid)
      <4>1. Decode(r, jwks.keys) /\ lock' = lock
        BY <1>1, <3>2 DEF GetKey, LockCache
      <4>2. PICK l \in {"valid", "done"} : pc' = [pc EXCEPT ![r] = l] /\ AskFollows(r, l)
        BY <4>1, <1>t, DecodeOutcome
      <4>3. failures' \in Seq(Nat)
        BY <4>1, <1>t, DecodeOutcome
      <4> QED BY <3>2, <4>1, <4>2, <4>3
    <3> QED BY <3>1, <3>2
  <2>3. GateTypeOK'
    BY <2>1, <2>2, <1>t DEF GateTypeOK, Labels, AskFollows
  <2>4. LockInv'
    BY <2>1, <2>2, <1>t, NoneAssumption DEF GateTypeOK, LockInv
  <2>5. KeyInv'
    BY <2>1, <2>2, <1>t DEF GateTypeOK, KeyInv, OnItsWay
  <2>6. GateMoves(r)
    BY <2>1, <2>2, <1>t, <1>w DEF GateMoves, AskFollows, GateTypeOK
  <2> QED BY <2>2, <2>3, <2>4, <2>5, <2>6, <1>f, <1>t DEF GateInv, GateTypeOK
<1>2. CASE ProviderAnswers(r)
  <2>1. /\ answer' = [keys |-> {k \in Kids : withdrawn[k] = 0}, age |-> 0]
        /\ pc[r] = "fetch" /\ pc' = [pc EXCEPT ![r] = "fetched"]
        /\ UNCHANGED <<window, failures, jwks, lock, withdrawn, ask>>
    BY <1>2 DEF ProviderAnswers, limits, Goto
  <2>2. answer' \in [keys : SUBSET Kids, age : 0 .. Timeout]
    BY <2>1, <1>w
  <2>3. GateTypeOK'
    BY <2>1, <2>2, <1>t DEF GateTypeOK, Labels
  <2>4. KeyInv'
    <3>1. OnItsWay'
      BY <2>1, <1>t DEF OnItsWay, GateTypeOK
    <3>2. \A k \in answer'.keys : withdrawn'[k] =< answer'.age + 1
      BY <2>1
    <3> QED BY <2>1, <3>1, <3>2, <1>t DEF KeyInv
  <2>5. LockInv'
    BY <2>1, <1>t DEF GateTypeOK, LockInv
  <2>6. GateMoves(r) /\ pc'[r] # "valid"
    BY <2>1, <1>t, <1>w DEF GateMoves, GateTypeOK
  <2> QED BY <2>3, <2>4, <2>5, <2>6 DEF GateInv
<1>3. CASE Refresh(r)
  <2> DEFINE keys == answer.keys
  <2>1. /\ jwks' = [keys |-> keys, fetched_at |-> 0] /\ answer' = NoAnswer /\ lock' = None
        /\ Decode(r, keys) /\ UNCHANGED <<window, withdrawn>> /\ pc[r] = "fetched"
    BY <1>3 DEF Refresh
  <2>2. \A k \in keys : withdrawn[k] \in Nat /\ withdrawn[k] =< Timeout + 1
    BY <1>t, <1>w DEF KeyInv
  <2>k. keys \in SUBSET Kids
    BY <1>w
  <2> HIDE DEF keys
  <2>3. PICK l \in {"valid", "done"} : /\ pc' = [pc EXCEPT ![r] = l] /\ AskFollows(r, l)
                                       /\ l = "valid" => ask[r].kid \in keys
    BY <2>1, <1>t, DecodeOutcome
  <2>4. failures' \in Seq(Nat)
    BY <2>1, <1>t, DecodeOutcome
  <2>5. GateTypeOK'
    BY <2>1, <2>3, <2>4, <2>k, <1>t, <1>w DEF GateTypeOK, Labels, AskFollows
  <2>6. KeyInv'
    <3>1. /\ answer' = NoAnswer /\ NoAnswer.keys = {}
          /\ jwks'.keys = keys /\ jwks'.fetched_at = 0 /\ withdrawn' = withdrawn
      BY <2>1 DEF NoAnswer
    <3>2. \A k \in jwks'.keys : withdrawn'[k] =< jwks'.fetched_at + Timeout + 1
      BY <2>2, <3>1, <1>w
    <3> QED BY <3>1, <3>2 DEF KeyInv
  <2>7. LockInv'
    BY <2>1, <2>3, <1>t, NoneAssumption DEF GateTypeOK, LockInv
  <2>8. GateMoves(r)
    BY <2>1, <2>3, <1>t, <1>w DEF GateMoves, AskFollows, GateTypeOK
  <2>9. pc'[r] = "valid" => withdrawn[ask[r].kid] =< Ttl + Timeout + 1
    <3>1. pc'[r] = "valid" => ask[r].kid \in keys
      BY <2>3, <1>t DEF GateTypeOK
    <3> QED BY <2>2, <3>1, <1>w
  <2> QED BY <2>5, <2>6, <2>7, <2>8, <2>9 DEF GateInv
<1>4. CASE RefreshFails(r)
  <2>1. /\ pc[r] \in {"fetch", "fetched"} /\ answer' = NoAnswer /\ lock' = None
        /\ UNCHANGED <<window, failures, jwks, withdrawn>>
        /\ pc' = [pc EXCEPT ![r] = "done"] /\ ask' = [ask EXCEPT ![r] = NoAsk]
    BY <1>4 DEF RefreshFails, Answer, Goto, limits
  <2>2. GateTypeOK'
    BY <2>1, <1>t, <1>w DEF GateTypeOK, Labels
  <2>3. LockInv' /\ KeyInv'
    BY <2>1, <1>t, NoneAssumption DEF GateTypeOK, LockInv, KeyInv, NoAnswer
  <2>4. GateMoves(r) /\ pc'[r] # "valid"
    BY <2>1, <1>t DEF GateMoves, GateTypeOK
  <2> QED BY <2>2, <2>3, <2>4 DEF GateInv
<1> QED BY <1>1, <1>2, <1>3, <1>4 DEF Validate

(* The provider's keys and the clock: nothing in the cache is older than the cache, *)
(* but for the time its answer was on the way.                                      *)
LEMMA ClockStep ==
  ASSUME GateInv, (\E k \in Kids : Rotate(k)) \/ Tick
  PROVE  GateInv' /\ UNCHANGED <<pc, ask>>
<1>t. GateTypeOK /\ LockInv /\ KeyInv
  BY DEF GateInv
<1>w. /\ Ttl \in Nat /\ Timeout \in Nat
      /\ jwks.fetched_at \in 0 .. Ttl + 1 /\ jwks.keys \subseteq Kids
      /\ answer \in [keys : SUBSET Kids, age : 0 .. Timeout]
      /\ withdrawn \in [Kids -> 0 .. Ttl + Timeout + 2]
  BY <1>t, LimitAssumption DEF GateTypeOK
<1>1. ASSUME NEW k \in Kids, Rotate(k) PROVE GateInv' /\ UNCHANGED <<pc, ask>>
  <2>1. /\ withdrawn' = [withdrawn EXCEPT ![k] = IF withdrawn[k] = 0 THEN 1 ELSE 0]
        /\ UNCHANGED <<window, failures, jwks, answer, lock, pc, ask>>
    BY <1>1 DEF Rotate, limits
  <2>2. withdrawn' \in [Kids -> 0 .. Ttl + Timeout + 2]
    BY <2>1, <1>w
  <2>3. \A i \in Kids : withdrawn'[i] = withdrawn[i] \/ withdrawn'[i] =< 1
    BY <2>1, <1>w
  <2>4. KeyInv'
    <3>1. \A i \in answer'.keys : withdrawn'[i] =< answer'.age + 1
      BY <2>1, <2>2, <2>3, <1>t, <1>w DEF KeyInv
    <3>2. \A i \in jwks'.keys : withdrawn'[i] =< jwks'.fetched_at + Timeout + 1
      BY <2>1, <2>2, <2>3, <1>t, <1>w DEF KeyInv
    <3> QED BY <2>1, <3>1, <3>2, <1>t DEF KeyInv, OnItsWay
  <2> QED BY <2>1, <2>2, <2>4, <1>t DEF GateInv, GateTypeOK, LockInv
<1>2. ASSUME Tick PROVE GateInv' /\ UNCHANGED <<pc, ask>>
  <2>1. /\ window' = Aged(window, WindowSeconds) /\ failures' = Aged(failures, ThrottleSeconds)
        /\ jwks' = [jwks EXCEPT !.fetched_at = Older(jwks.fetched_at, Ttl)]
        /\ withdrawn' = [k \in Kids |->
                           IF withdrawn[k] = 0 THEN 0 ELSE Older(withdrawn[k], Ttl + Timeout + 1)]
        /\ OnItsWay => answer.age < Timeout
        /\ answer' = [answer EXCEPT !.age = IF OnItsWay THEN answer.age + 1 ELSE answer.age]
        /\ UNCHANGED <<lock, pc, ask>>
    BY <1>2 DEF Tick
  <2>2. /\ window' \in Seq(Nat) /\ Len(window') =< MaxRequests /\ failures' \in Seq(Nat)
    <3>1. window \in Seq(Nat) /\ failures \in Seq(Nat) /\ Len(window) =< MaxRequests
      BY <1>t DEF GateTypeOK
    <3>2. /\ window' \in Seq(Nat) /\ Len(window') =< Len(window)
          /\ failures' \in Seq(Nat)
      BY <2>1, <3>1, AgedShortens, LimitAssumption
    <3> QED BY <3>1, <3>2, LimitAssumption
  <2>3. withdrawn' \in [Kids -> 0 .. Ttl + Timeout + 2]
    BY <2>1, <1>w DEF Older
  <2>4. /\ jwks'.keys = jwks.keys /\ jwks'.fetched_at = Older(jwks.fetched_at, Ttl)
        /\ jwks' \in [keys : SUBSET Kids, fetched_at : 0 .. Ttl + 1]
    <3> DEFINE older == Older(jwks.fetched_at, Ttl)
    <3>1. older \in 0 .. Ttl + 1
      BY <1>w DEF Older
    <3> HIDE DEF older
    <3>2. jwks' = [jwks EXCEPT !.fetched_at = older]
      BY <2>1 DEF older
    <3>3. /\ jwks'.keys = jwks.keys /\ jwks'.fetched_at = older
          /\ jwks' \in [keys : SUBSET Kids, fetched_at : 0 .. Ttl + 1]
      BY <3>1, <3>2, <1>t DEF GateTypeOK
    <3> QED BY <3>3 DEF older
  <2>5. /\ answer'.keys = answer.keys
        /\ OnItsWay => answer'.age = answer.age + 1
        /\ ~OnItsWay => answer' = answer
        /\ answer' \in [keys : SUBSET Kids, age : 0 .. Timeout]
    BY <2>1, <1>w
  <2>6. \A k \in Kids : withdrawn'[k] =< 0 \/ withdrawn'[k] =< withdrawn[k] + 1
    BY <2>1, <1>w DEF Older
  <2>7. \A k \in answer'.keys : withdrawn'[k] =< answer'.age + 1
    <3>1. CASE OnItsWay
      BY <2>3, <2>5, <2>6, <3>1, <1>t, <1>w DEF KeyInv
    <3>2. CASE ~OnItsWay
      BY <2>5, <3>2, <1>t DEF KeyInv, NoAnswer
    <3> QED BY <3>1, <3>2
  <2>8. \A k \in jwks'.keys : withdrawn'[k] =< jwks'.fetched_at + Timeout + 1
    <3> SUFFICES ASSUME NEW k \in jwks.keys
                 PROVE  withdrawn'[k] =< jwks'.fetched_at + Timeout + 1
      BY <2>4
    <3>1. withdrawn[k] =< jwks.fetched_at + Timeout + 1 /\ k \in Kids
      BY <1>t, <1>w DEF KeyInv
    <3>2. CASE jwks.fetched_at > Ttl
      <4>1. jwks'.fetched_at = Ttl + 1
        BY <2>4, <3>2, <1>w DEF Older
      <4> QED BY <2>3, <3>1, <4>1, <1>w
    <3>3. CASE ~(jwks.fetched_at > Ttl)
      <4>1. jwks'.fetched_at = jwks.fetched_at + 1
        BY <2>4, <3>3 DEF Older
      <4> QED BY <2>3, <2>6, <3>1, <4>1, <1>w
    <3> QED BY <3>2, <3>3
  <2>9. KeyInv'
    BY <2>1, <2>5, <2>7, <2>8, <1>t DEF KeyInv, OnItsWay
  <2> QED BY <2>1, <2>2, <2>3, <2>4, <2>5, <2>9, <1>t DEF GateInv, GateTypeOK, LockInv
<1> QED BY <1>1, <1>2

(* A request at the gate has no session: nothing is said of it yet. *)
LEMMA GateMovesStep ==
  ASSUME IInv, GateInv', NEW r \in Requests, GateMoves(r), UNCHANGED database
  PROVE  IInv'
<1>t. /\ GateTypeOK /\ DataTypeOK /\ ConnInv /\ WriteInv /\ OidInv
      /\ OwnTenantOnly /\ GrantedByRole
  BY IInvParts DEF GateInv
<1> DEFINE quiet == {"idle", "key", "lock", "fetch", "fetched", "valid", "done"}
<1>1. /\ pc[r] \in quiet /\ pc'[r] \in quiet
      /\ \A o \in Requests \ {r} : pc'[o] = pc[o] /\ ask'[o] = ask[o]
  BY <1>t DEF GateMoves, GateTypeOK
<1>2. UNCHANGED <<users, roles, conn, ctx, tx, todo, held>>
  BY DEF database, tables, pool
<1>3. DataTypeOK'
  BY <1>2, <1>t DEF DataTypeOK
<1>4. ConnInv'
  BY <1>1, <1>2, <1>t DEF ConnInv, InSession
<1>5. WriteInv'
  BY <1>1, <1>2, <1>t DEF WriteInv, NeedsTenant
<1>6. OidInv'
  BY <1>2, <1>t DEF OidInv
<1>7. OwnTenantOnly' /\ GrantedByRole'
  BY <1>1, <1>2, <1>t DEF OwnTenantOnly, GrantedByRole
<1> QED BY <1>3, <1>4, <1>5, <1>6, <1>7, PartsPrimed

LEMMA ClockOnlyStep ==
  ASSUME IInv, (\E k \in Kids : Rotate(k)) \/ Tick, UNCHANGED database
  PROVE  IInv'
<1>t. /\ GateInv /\ DataTypeOK /\ ConnInv /\ WriteInv /\ OidInv
      /\ OwnTenantOnly /\ GrantedByRole
  BY IInvParts
<1>1. GateInv' /\ UNCHANGED <<pc, ask>>
  BY <1>t, ClockStep
<1>2. UNCHANGED <<users, roles, conn, ctx, tx, todo, held>>
  BY DEF database, tables, pool
<1>3. DataTypeOK' /\ ConnInv' /\ WriteInv' /\ OidInv'
  BY <1>1, <1>2, <1>t DEF DataTypeOK, ConnInv, WriteInv, OidInv, NeedsTenant
<1>4. OwnTenantOnly' /\ GrantedByRole'
  BY <1>1, <1>2, <1>t DEF OwnTenantOnly, GrantedByRole
<1> QED BY <1>1, <1>3, <1>4, PartsPrimed

-----------------------------------------------------------------------------
(* A validated request *)

(* It moves on, or is answered; the key cache is not its concern any more. *)
Moves(r, l) ==
  /\ Validated(r) /\ l \in InSession \cup {"session", "done"}
  /\ pc' = [pc EXCEPT ![r] = l] /\ AskFollows(r, l)
  /\ UNCHANGED <<window, jwks, answer, lock, withdrawn>> /\ failures' \in Seq(Nat)

LEMMA MovesKeepGate ==
  ASSUME IInv, NEW r \in Requests, NEW l, Moves(r, l)
  PROVE  /\ GateInv' /\ pc'[r] = l
         /\ ask[r] \in Asks /\ ask[r].id \in Ids /\ ask[r].whom \in Ids
         /\ ask[r].tenant \in Tenants \cup {None}
         /\ l # "done" => ask'[r] = ask[r]
         /\ \A o \in Requests \ {r} : pc'[o] = pc[o] /\ ask'[o] = ask[o]
<1>t. GateTypeOK /\ LockInv /\ KeyInv
  BY IInvParts DEF GateInv
<1>1. ask[r] \in Asks
  BY <1>t DEF GateTypeOK, Moves, Validated
<1>2. GateTypeOK'
  BY <1>1, <1>t DEF GateTypeOK, Moves, Validated, AskFollows, Labels, InSession
<1>3. LockInv' /\ KeyInv'
  BY <1>t DEF LockInv, KeyInv, OnItsWay, GateTypeOK, Moves, Validated, InSession
<1>4. pc'[r] = l /\ \A o \in Requests \ {r} : pc'[o] = pc[o]
  BY <1>t DEF GateTypeOK, Moves
<1>5. (l # "done" => ask'[r] = ask[r]) /\ \A o \in Requests \ {r} : ask'[o] = ask[o]
  BY <1>t DEF GateTypeOK, Moves, AskFollows
<1> QED BY <1>1, <1>2, <1>3, <1>4, <1>5, AskFields DEF GateInv

(* Giving a connection back concerns nobody else's. *)
LEMMA ReleaseConn ==
  ASSUME DataTypeOK, NEW r \in Requests, Release(r)
  PROVE  /\ conn' \in [Conns -> Requests \cup {None}] /\ ctx' \in [Conns -> Tenants \cup {None}]
         /\ tx' \in [Requests -> WriteSets] /\ todo' \in [Requests -> WriteSets]
         /\ tx'[r] = NoWrites /\ todo'[r] = NoWrites
         /\ \A o \in Requests \ {r} : tx'[o] = tx[o] /\ todo'[o] = todo[o]
         /\ \A c \in Conns : conn'[c] # r
         /\ \A o \in Requests \ {r}, c \in Conns :
              /\ conn'[c] = o <=> conn[c] = o
              /\ conn[c] = o => ctx'[c] = ctx[c]
<1>1. conn' = [c \in Conns |-> IF conn[c] = r THEN None ELSE conn[c]]
      /\ ctx' \in {ctx, [c \in Conns |-> IF conn[c] = r THEN None ELSE ctx[c]]}
  BY DEF Release
<1>2. conn' \in [Conns -> Requests \cup {None}] /\ ctx' \in [Conns -> Tenants \cup {None}]
  BY <1>1 DEF DataTypeOK
<1>3. NoWrites \in WriteSets
  BY DEF NoWrites, Writes, WriteSets
<1>4. /\ tx' \in [Requests -> WriteSets] /\ todo' \in [Requests -> WriteSets]
      /\ tx'[r] = NoWrites /\ todo'[r] = NoWrites
      /\ \A o \in Requests \ {r} : tx'[o] = tx[o] /\ todo'[o] = todo[o]
  BY <1>3 DEF Release, DataTypeOK
<1>5. \A c \in Conns : conn'[c] # r
  BY <1>1, NoneAssumption
<1>6. \A o \in Requests \ {r}, c \in Conns :
        /\ conn'[c] = o <=> conn[c] = o
        /\ conn[c] = o => ctx'[c] = ctx[c]
  BY <1>1, NoneAssumption DEF DataTypeOK
<1> QED BY <1>2, <1>4, <1>5, <1>6

(* A session ends.  What its transaction has flushed is committed in part or not  *)
(* at all; whoever goes on has held what it was authorized for.                   *)
LEMMA EndStep ==
  ASSUME IInv, NEW r \in Requests, NEW l \in {"session", "done"}, Moves(r, l), Release(r),
         users' \in {users, users \cup tx[r].users},
         roles' \in {roles, (roles \ tx[r].revoked) \cup tx[r].roles},
         roles' # roles => users' = users \cup tx[r].users,
         held' \in [Requests -> BOOLEAN],
         \A o \in Requests \ {r} : held[o] => held'[o],
         l = "session" => ask[r].id \in GlobalAdmins \/ held'[r]
  PROVE  IInv'
<1>t. /\ DataTypeOK /\ ConnInv /\ WriteInv /\ OidInv /\ OwnTenantOnly /\ GrantedByRole
  BY IInvParts
<1>g. /\ GateInv' /\ pc'[r] = l
      /\ l # "done" => ask'[r] = ask[r]
      /\ \A o \in Requests \ {r} : pc'[o] = pc[o] /\ ask'[o] = ask[o]
  BY MovesKeepGate
<1>r. /\ conn' \in [Conns -> Requests \cup {None}] /\ ctx' \in [Conns -> Tenants \cup {None}]
      /\ tx' \in [Requests -> WriteSets] /\ todo' \in [Requests -> WriteSets]
      /\ tx'[r] = NoWrites /\ todo'[r] = NoWrites
      /\ \A o \in Requests \ {r} : tx'[o] = tx[o] /\ todo'[o] = todo[o]
      /\ \A c \in Conns : conn'[c] # r
      /\ \A o \in Requests \ {r}, c \in Conns :
           /\ conn'[c] = o <=> conn[c] = o
           /\ conn[c] = o => ctx'[c] = ctx[c]
  BY <1>t, ReleaseConn
<1>n. NoWrites.users = {} /\ NoWrites.roles = {}
  BY DEF NoWrites, Writes
<1>x. /\ tx[r].users \subseteq Users /\ tx[r].roles \subseteq Users \X Tenants
      /\ \A ro \in tx[r].roles : ro[1] \in users \cup tx[r].users
      /\ \A u, v \in tx[r].users : u = v
  <2>1. tx[r] \in WriteSets
    BY <1>t DEF DataTypeOK
  <2> QED BY <2>1, <1>t DEF WriteSets, WriteInv
<1>u. users \subseteq users' /\ users' \subseteq users \cup tx[r].users
  OBVIOUS
<1>1. DataTypeOK'
  <2>1. users' \subseteq Users
    BY <1>t, <1>x, <1>u DEF DataTypeOK
  <2>2. roles' \subseteq users' \X Tenants
    <3>1. CASE roles' = roles
      BY <3>1, <1>t, <1>u DEF DataTypeOK
    <3>2. CASE roles' # roles
      <4>1. users' = users \cup tx[r].users /\ roles' = (roles \ tx[r].revoked) \cup tx[r].roles
        BY <3>2
      <4>2. tx[r].roles \subseteq users' \X Tenants
        BY <4>1, <1>x
      <4> QED BY <4>1, <4>2, <1>t DEF DataTypeOK
    <3> QED BY <3>1, <3>2
  <2>3. \A u, v \in users' : u.oid = v.oid => u = v
    <3>1. \A u, v \in users : u.oid = v.oid => u = v
      BY <1>t DEF DataTypeOK
    <3>2. \A u \in tx[r].users, v \in users : u.oid # v.oid
      BY <1>t DEF OidInv
    <3>3. \A u, v \in tx[r].users : u = v
      BY <1>x
    <3> SUFFICES ASSUME NEW u \in users', NEW v \in users', u.oid = v.oid
                 PROVE  u = v
      OBVIOUS
    <3>4. (u \in users \/ u \in tx[r].users) /\ (v \in users \/ v \in tx[r].users)
      BY <1>u
    <3> QED BY <3>1, <3>2, <3>3, <3>4
  <2> QED BY <2>1, <2>2, <2>3, <1>r DEF DataTypeOK
<1>2. ConnInv'
  BY <1>g, <1>r, <1>t DEF ConnInv, InSession
<1>3. WriteInv'
  <2> SUFFICES ASSUME NEW o \in Requests
               PROVE  /\ \A w \in {tx'[o], todo'[o]} :
                           /\ \A u, v \in w.users : u = v
                           /\ \A ro \in w.roles : ro[1] \in users' \cup w.users
                      /\ pc'[o] = "provision" => todo'[o].revoked = {}
                      /\ pc'[o] = "resolve" => tx'[o].revoked = {}
                      /\ pc'[o] \in {"context", "work"} /\ NeedsTenant(o)' => ask'[o].tenant # None
                      /\ pc'[o] = "work" => NeedsTenant(o)'
    BY DEF WriteInv
  <2>1. CASE o = r
    BY <2>1, <1>g, <1>r, <1>n
  <2>2. CASE o # r
    BY <2>2, <1>g, <1>r, <1>t, <1>u DEF WriteInv, NeedsTenant
  <2> QED BY <2>1, <2>2
<1>4. OidInv'
  <2> SUFFICES ASSUME NEW o \in Requests, NEW u \in tx'[o].users
               PROVE  /\ \A v \in users' : u.oid # v.oid
                      /\ \A p \in Requests \ {o} : \A v \in tx'[p].users : u.oid # v.oid
    BY DEF OidInv
  <2>1. o # r /\ u \in tx[o].users
    BY <1>r, <1>n
  <2>2. \A v \in users \cup tx[r].users : u.oid # v.oid
    BY <2>1, <1>t DEF OidInv
  <2>3. \A p \in Requests \ {o} : \A v \in tx'[p].users : u.oid # v.oid
    BY <2>1, <1>r, <1>n, <1>t DEF OidInv
  <2> QED BY <2>2, <2>3, <1>u
<1>5. OwnTenantOnly'
  BY <1>g, <1>r, <1>t DEF OwnTenantOnly
<1>6. GrantedByRole'
  <2> SUFFICES ASSUME NEW o \in Requests, pc'[o] \in {"session", "context", "work", "flush", "commit"}
               PROVE  ask'[o].id \in GlobalAdmins \/ held'[o]
    BY DEF GrantedByRole
  <2>1. CASE o = r
    BY <2>1, <1>g
  <2>2. CASE o # r
    BY <2>2, <1>g, <1>t DEF GrantedByRole
  <2> QED BY <2>1, <2>2
<1> QED BY <1>g, <1>1, <1>2, <1>3, <1>4, <1>5, <1>6, PartsPrimed

(* What may be flushed: one user, and roles of users who are there or come along. *)
WellFormed(w) ==
  /\ w \in WriteSets
  /\ \A u, v \in w.users : u = v
  /\ \A ro \in w.roles : ro[1] \in users \cup w.users

LEMMA NothingWritten == WellFormed(NoWrites) /\ NoWrites.users = {} /\ NoWrites.revoked = {}
BY DEF WellFormed, NoWrites, Writes, WriteSets

LEMMA WritesAreWellFormed ==
  ASSUME IInv, NEW r \in Requests
  PROVE  WellFormed(tx[r]) /\ WellFormed(todo[r])
BY IInvParts DEF DataTypeOK, WriteInv, WellFormed

(* A session goes on, with the tables as they are. *)
LEMMA StayStep ==
  ASSUME IInv, NEW r \in Requests, NEW l \in InSession, Moves(r, l),
         pc[r] \in InSession, UNCHANGED <<users, roles, conn, held>>,
         ctx' \in [Conns -> Tenants \cup {None}],
         \A c \in Conns : conn[c] # r => ctx'[c] = ctx[c],
         NEW flushed, NEW planned, WellFormed(flushed), WellFormed(planned),
         tx' = [tx EXCEPT ![r] = flushed], todo' = [todo EXCEPT ![r] = planned],
         l = "provision" => planned.revoked = {},
         l = "resolve" => flushed.revoked = {},
         l = "work" => NeedsTenant(r) /\ ask[r].tenant # None,
         l # "context",
         \A u \in flushed.users : /\ \A v \in users : u.oid # v.oid
                                  /\ \A o \in Requests \ {r} : \A v \in tx[o].users : u.oid # v.oid,
         l \in {"work", "flush", "commit"} =>
           /\ \A c \in Conns : conn[c] = r => ctx'[c] = ask[r].tenant
           /\ ask[r].id \in GlobalAdmins \/ held[r]
  PROVE  IInv'
<1>t. /\ DataTypeOK /\ ConnInv /\ WriteInv /\ OidInv /\ OwnTenantOnly /\ GrantedByRole
  BY IInvParts
<1>g. /\ GateInv' /\ pc'[r] = l
      /\ ask'[r] = ask[r]
      /\ \A o \in Requests \ {r} : pc'[o] = pc[o] /\ ask'[o] = ask[o]
  BY MovesKeepGate DEF InSession
<1>x. /\ tx'[r] = flushed /\ todo'[r] = planned
      /\ \A o \in Requests \ {r} : tx'[o] = tx[o] /\ todo'[o] = todo[o]
  BY <1>t DEF DataTypeOK
<1>1. DataTypeOK'
  BY <1>t DEF DataTypeOK, WellFormed
<1>2. ConnInv'
  BY <1>g, <1>t DEF ConnInv
<1>3. WriteInv'
  <2> SUFFICES ASSUME NEW o \in Requests
               PROVE  /\ \A w \in {tx'[o], todo'[o]} :
                           /\ \A u, v \in w.users : u = v
                           /\ \A ro \in w.roles : ro[1] \in users' \cup w.users
                      /\ pc'[o] = "provision" => todo'[o].revoked = {}
                      /\ pc'[o] = "resolve" => tx'[o].revoked = {}
                      /\ pc'[o] \in {"context", "work"} /\ NeedsTenant(o)' => ask'[o].tenant # None
                      /\ pc'[o] = "work" => NeedsTenant(o)'
    BY DEF WriteInv
  <2>1. CASE o = r
    BY <2>1, <1>g, <1>x DEF WellFormed, NeedsTenant
  <2>2. CASE o # r
    BY <2>2, <1>g, <1>x, <1>t DEF WriteInv, NeedsTenant
  <2> QED BY <2>1, <2>2
<1>4. OidInv'
  <2> SUFFICES ASSUME NEW o \in Requests, NEW u \in tx'[o].users
               PROVE  /\ \A v \in users : u.oid # v.oid
                      /\ \A p \in Requests \ {o} : \A v \in tx'[p].users : u.oid # v.oid
    BY DEF OidInv
  <2>1. CASE o = r
    BY <2>1, <1>x
  <2>2. CASE o # r
    BY <2>2, <1>x, <1>t DEF OidInv
  <2> QED BY <2>1, <2>2
<1>5. OwnTenantOnly'
  <2> SUFFICES ASSUME NEW o \in Requests, pc'[o] \in {"work", "flush", "commit"}
               PROVE  \E c \in Conns : /\ conn[c] = o /\ ctx'[c] = ask'[o].tenant
                                       /\ \A d \in Conns : conn[d] = o => d = c
    BY DEF OwnTenantOnly
  <2>1. CASE o = r
    <3>1. PICK c \in Conns : conn[c] = r
      BY <1>t DEF ConnInv
    <3> QED BY <2>1, <3>1, <1>g, <1>t DEF ConnInv
  <2>2. CASE o # r
    <3>1. PICK c \in Conns : /\ conn[c] = o /\ ctx[c] = ask[o].tenant
                             /\ \A d \in Conns : conn[d] = o => d = c
      BY <2>2, <1>g, <1>t DEF OwnTenantOnly
    <3> QED BY <2>2, <3>1, <1>g
  <2> QED BY <2>1, <2>2
<1>6. GrantedByRole'
  <2> SUFFICES ASSUME NEW o \in Requests, pc'[o] \in {"session", "context", "work", "flush", "commit"}
               PROVE  ask'[o].id \in GlobalAdmins \/ held[o]
    BY DEF GrantedByRole
  <2>1. CASE o = r
    BY <2>1, <1>g DEF InSession
  <2>2. CASE o # r
    BY <2>2, <1>g, <1>t DEF GrantedByRole
  <2> QED BY <2>1, <2>2
<1> QED BY <1>g, <1>1, <1>2, <1>3, <1>4, <1>5, <1>6, PartsPrimed

(* A session begins: the connection was nobody's. *)
LEMMA AcquireStep ==
  ASSUME IInv, NEW r \in Requests,
         \/ Acquire(r, "valid", "select")
         \/ OpenSession(r)
  PROVE  IInv'
<1>t. /\ DataTypeOK /\ ConnInv /\ WriteInv /\ OidInv /\ OwnTenantOnly /\ GrantedByRole
  BY IInvParts
<1>1. PICK l \in {"select", "context"}, c \in Conns :
        /\ pc[r] \in {"valid", "session"} /\ pc' = [pc EXCEPT ![r] = l] /\ ask' = ask
        /\ l = "context" => pc[r] = "session" /\ (NeedsTenant(r) => ask[r].tenant # None)
        /\ conn[c] = None /\ conn' = [conn EXCEPT ![c] = r]
        /\ held' = [held EXCEPT ![r] = held[r] \/ HasRole(r, roles)]
        /\ UNCHANGED <<gate, tables, ctx, tx, todo>>
  BY DEF Acquire, OpenSession, Goto
<1>2. UNCHANGED <<window, failures, jwks, answer, lock, withdrawn, users, roles, ctx, tx, todo>>
  BY <1>1 DEF gate, limits, tables
<1>3. failures \in Seq(Nat)
  BY IInvParts DEF GateInv, GateTypeOK
<1>4. Moves(r, l)
  BY <1>1, <1>2, <1>3 DEF Moves, Validated, AskFollows, InSession
<1>g. /\ GateInv' /\ pc'[r] = l /\ ask'[r] = ask[r]
      /\ \A o \in Requests \ {r} : pc'[o] = pc[o] /\ ask'[o] = ask[o]
  BY <1>4, MovesKeepGate
<1>c. /\ conn' \in [Conns -> Requests \cup {None}] /\ conn'[c] = r
      /\ \A d \in Conns \ {c} : conn'[d] = conn[d] /\ conn[d] # r
      /\ \A o \in Requests \ {r}, d \in Conns : conn'[d] = o <=> conn[d] = o
  BY <1>1, <1>t, NoneAssumption DEF DataTypeOK, ConnInv, InSession
<1>h. /\ held' \in [Requests -> BOOLEAN] /\ \A o \in Requests : held[o] => held'[o]
  BY <1>1, <1>t, Zenon DEF DataTypeOK
<1>5. DataTypeOK'
  BY <1>2, <1>c, <1>h, <1>t DEF DataTypeOK
<1>6. ConnInv'
  <2> SUFFICES ASSUME NEW o \in Requests
               PROVE  /\ pc'[o] \in InSession <=> \E d \in Conns : conn'[d] = o
                      /\ \A d, e \in Conns : conn'[d] = o /\ conn'[e] = o => d = e
    BY DEF ConnInv
  <2>1. CASE o = r
    <3>1. pc'[r] \in InSession
      BY <1>g DEF InSession
    <3> QED BY <2>1, <3>1, <1>c
  <2>2. CASE o # r
    BY <2>2, <1>c, <1>g, <1>t DEF ConnInv
  <2> QED BY <2>1, <2>2
<1>7. WriteInv'
  BY <1>1, <1>2, <1>g, <1>t DEF WriteInv, NeedsTenant
<1>8. OidInv'
  BY <1>2, <1>t DEF OidInv
<1>9. OwnTenantOnly'
  <2> SUFFICES ASSUME NEW o \in Requests, pc'[o] \in {"work", "flush", "commit"}
               PROVE  \E d \in Conns : /\ conn'[d] = o /\ ctx'[d] = ask'[o].tenant
                                       /\ \A e \in Conns : conn'[e] = o => e = d
    BY DEF OwnTenantOnly
  <2>1. o # r
    BY <1>g
  <2> QED BY <2>1, <1>2, <1>c, <1>g, <1>t DEF OwnTenantOnly
<1>10. GrantedByRole'
  BY <1>1, <1>g, <1>h, <1>t DEF GrantedByRole
<1> QED BY <1>g, <1>5, <1>6, <1>7, <1>8, <1>9, <1>10, PartsPrimed

-----------------------------------------------------------------------------
(* The actions of a validated request *)

LEMMA GateUnchanged ==
  ASSUME IInv, UNCHANGED gate
  PROVE  UNCHANGED <<window, jwks, answer, lock, withdrawn>> /\ failures' \in Seq(Nat)
BY IInvParts DEF GateInv, GateTypeOK, gate, limits

(* Any exception, and the answers that end a session early. *)
LEMMA RollbackStep ==
  ASSUME IInv, NEW r \in Requests, Validated(r), Rollback(r)
  PROVE  IInv'
<1>1. /\ pc' = [pc EXCEPT ![r] = "done"] /\ ask' = [ask EXCEPT ![r] = NoAsk]
      /\ Release(r) /\ held' = [held EXCEPT ![r] = FALSE] /\ UNCHANGED <<gate, tables>>
  BY DEF Rollback, Answer, Goto
<1>2. Moves(r, "done")
  BY <1>1, GateUnchanged DEF Moves, AskFollows
<1>3. held' \in [Requests -> BOOLEAN] /\ \A o \in Requests \ {r} : held'[o] = held[o]
  BY <1>1, IInvParts DEF DataTypeOK
<1>4. users' = users /\ roles' = roles
  BY <1>1 DEF tables
<1> QED BY <1>1, <1>2, <1>3, <1>4, EndStep

(* The three commits.  A role of the caller's that the authorization saw is still   *)
(* there when it commits: the transaction itself revokes nothing.                    *)
LEMMA CommitStep ==
  ASSUME IInv, NEW r \in Requests, ExchangeToken(r) \/ GetCurrentUser(r) \/ CommitWork(r)
  PROVE  IInv'
<1>t. DataTypeOK /\ WriteInv
  BY IInvParts
<1>v. Validated(r)
  BY DEF ExchangeToken, GetCurrentUser, CommitWork, Validated
<1>1. CASE ExchangeToken(r)
  <2>1. /\ pc' = [pc EXCEPT ![r] = "done"] /\ ask' = [ask EXCEPT ![r] = NoAsk]
        /\ Release(r) /\ held' = [held EXCEPT ![r] = FALSE]
        /\ users' = users \cup tx[r].users /\ UNCHANGED <<gate, roles>>
    BY <1>1 DEF ExchangeToken, Answer, Goto
  <2>2. Moves(r, "done")
    BY <1>v, <2>1, GateUnchanged DEF Moves, AskFollows
  <2>3. held' \in [Requests -> BOOLEAN] /\ \A o \in Requests \ {r} : held'[o] = held[o]
    BY <2>1, <1>t DEF DataTypeOK
  <2> QED BY <2>1, <2>2, <2>3, EndStep
<1>2. CASE CommitWork(r)
  <2>1. /\ pc' = [pc EXCEPT ![r] = "done"] /\ ask' = [ask EXCEPT ![r] = NoAsk]
        /\ Release(r)
        /\ held' = [o \in Requests |-> o # r /\ (held[o] \/ (Validated(o) /\ HasRole(o, roles')))]
        /\ users' = users \cup tx[r].users /\ roles' = (roles \ tx[r].revoked) \cup tx[r].roles
        /\ UNCHANGED gate
    BY <1>2 DEF CommitWork, Answer, Goto
  <2>2. Moves(r, "done")
    BY <1>v, <2>1, GateUnchanged DEF Moves, AskFollows
  <2>3. held' \in [Requests -> BOOLEAN] /\ \A o \in Requests \ {r} : held[o] => held'[o]
    BY <2>1
  <2> QED BY <2>1, <2>2, <2>3, EndStep
<1>3. CASE GetCurrentUser(r) /\ ~Authorized(r)
  BY <1>3, <1>v, RollbackStep DEF GetCurrentUser
<1>4. CASE GetCurrentUser(r) /\ Authorized(r)
  <2> DEFINE rs == (roles \ tx[r].revoked) \cup tx[r].roles
  <2>1. /\ pc' = [pc EXCEPT ![r] = "session"] /\ ask' = ask /\ pc[r] = "resolve"
        /\ Release(r)
        /\ held' = [o \in Requests |-> held[o] \/ (Validated(o) /\ HasRole(o, rs))]
        /\ users' = users \cup tx[r].users /\ roles' = rs
        /\ UNCHANGED gate
    BY <1>4 DEF GetCurrentUser, Commit, Goto
  <2>2. Moves(r, "session")
    BY <1>v, <2>1, GateUnchanged DEF Moves, AskFollows
  <2>3. held' \in [Requests -> BOOLEAN] /\ \A o \in Requests \ {r} : held[o] => held'[o]
    BY <2>1, <1>t DEF DataTypeOK
  <2>4. ask[r].id \in GlobalAdmins \/ HasRole(r, roles)
    BY <1>4 DEF Authorized, Visible, HasRole
  <2>5. HasRole(r, roles) => HasRole(r, rs)
    BY <2>1, <1>t DEF WriteInv, HasRole
  <2>6. ask[r].id \in GlobalAdmins \/ held'[r]
    BY <2>1, <2>4, <2>5, <1>v
  <2> QED BY <2>1, <2>2, <2>3, <2>6, EndStep
<1> QED BY <1>1, <1>2, <1>3, <1>4

(* Answers from outside a session. *)
LEMMA LogoutStep ==
  ASSUME IInv, NEW r \in Requests, Logout(r)
  PROVE  IInv'
<1>t. /\ GateInv /\ DataTypeOK /\ ConnInv /\ WriteInv /\ OidInv /\ OwnTenantOnly /\ GrantedByRole
  BY IInvParts
<1>1. /\ pc[r] = "session" /\ pc' = [pc EXCEPT ![r] = "done"] /\ ask' = [ask EXCEPT ![r] = NoAsk]
      /\ failures' = <<>> /\ held' = [held EXCEPT ![r] = FALSE]
      /\ UNCHANGED <<window, jwks, answer, lock, withdrawn, users, roles, conn, ctx, tx, todo>>
  BY DEF Logout, Answer, Goto, tables, pool
<1>2. <<>> \in Seq(Nat)
  OBVIOUS
<1>3. Moves(r, "done")
  BY <1>1, <1>2 DEF Moves, AskFollows, Validated
<1>g. /\ GateInv' /\ pc'[r] = "done"
      /\ \A o \in Requests \ {r} : pc'[o] = pc[o] /\ ask'[o] = ask[o]
  BY <1>3, MovesKeepGate
<1>4. held' \in [Requests -> BOOLEAN] /\ \A o \in Requests \ {r} : held'[o] = held[o]
  BY <1>1, <1>t DEF DataTypeOK
<1>5. DataTypeOK'
  BY <1>1, <1>4, <1>t DEF DataTypeOK
<1>6. ConnInv'
  BY <1>1, <1>g, <1>t DEF ConnInv, InSession
<1>7. WriteInv'
  BY <1>1, <1>g, <1>t DEF WriteInv, NeedsTenant
<1>8. OidInv'
  BY <1>1, <1>t DEF OidInv
<1>9. OwnTenantOnly' /\ GrantedByRole'
  BY <1>1, <1>4, <1>g, <1>t DEF OwnTenantOnly, GrantedByRole
<1> QED BY <1>g, <1>5, <1>6, <1>7, <1>8, <1>9, PartsPrimed

LEMMA UpsertUserStep ==
  ASSUME IInv, NEW r \in Requests, UpsertUser(r)
  PROVE  IInv'
<1> DEFINE w == Writes({User(ask[r].id)} \ users, {}, {})
<1>t. DataTypeOK /\ OidInv
  BY IInvParts
<1>1. /\ pc[r] = "select" /\ todo' = [todo EXCEPT ![r] = w] /\ pc' = [pc EXCEPT ![r] = "provision"]
      /\ UNCHANGED <<gate, ask, users, roles, conn, ctx, tx, held>>
  BY DEF UpsertUser, Goto, tables, pool
<1>2. Moves(r, "provision")
  BY <1>1, GateUnchanged DEF Moves, AskFollows, Validated, InSession
<1>3. ask[r].id \in Ids
  BY <1>2, MovesKeepGate
<1>4. WellFormed(w) /\ w.revoked = {}
  BY <1>3 DEF WellFormed, Writes, WriteSets, Users, User
<1>5. tx' = [tx EXCEPT ![r] = tx[r]]
  BY <1>1, <1>t DEF DataTypeOK
<1> HIDE DEF w
<1>6. ctx' \in [Conns -> Tenants \cup {None}]
  BY <1>1, <1>t DEF DataTypeOK
<1>7. \A u \in tx[r].users : /\ \A v \in users : u.oid # v.oid
                             /\ \A o \in Requests \ {r} : \A v \in tx[o].users : u.oid # v.oid
  BY <1>t DEF OidInv
<1> QED BY <1>1, <1>2, <1>4, <1>5, <1>6, <1>7, StayStep, WritesAreWellFormed DEF InSession

(* The locks and the unique constraint: what gets flushed clashes with nothing. *)
LEMMA FlushStep ==
  ASSUME IInv, NEW r \in Requests,
         NEW from \in {"provision", "flush"}, NEW to \in {"resolve", "commit"},
         <<from, to>> \in {<<"provision", "resolve">>, <<"flush", "commit">>},
         Flush(r, from, to)
  PROVE  IInv'
<1>t. DataTypeOK /\ WriteInv /\ OidInv /\ OwnTenantOnly /\ GrantedByRole /\ ConnInv
  BY IInvParts
<1>v. pc[r] = from /\ Validated(r) /\ (to = "resolve" <=> from = "provision")
  BY DEF Flush, Validated
<1>1. CASE Conflict(r)
  BY <1>1, <1>v, RollbackStep DEF Flush
<1>2. CASE ~Conflict(r)
  <2>1. /\ tx' = [tx EXCEPT ![r] = todo[r]] /\ todo' = [todo EXCEPT ![r] = NoWrites]
        /\ pc' = [pc EXCEPT ![r] = to]
        /\ UNCHANGED <<gate, ask, users, roles, conn, ctx, held>>
    BY <1>2 DEF Flush, Goto, tables, pool
  <2>2. Moves(r, to)
    BY <1>v, <2>1, GateUnchanged DEF Moves, AskFollows, InSession
  <2>3. \A u \in todo[r].users : /\ \A v \in users : u.oid # v.oid
                                 /\ \A o \in Requests \ {r} : \A v \in tx[o].users : u.oid # v.oid
    <3>1. {u.oid : u \in todo[r].users} \cap {u.oid : u \in users} = {}
      BY <1>2 DEF Conflict
    <3>2. \A o \in Requests \ {r} :
            {u.oid : u \in todo[r].users} \cap {u.oid : u \in tx[o].users} = {}
      BY DEF Flush, Unlocked
    <3> QED BY <3>1, <3>2
  <2>4. ctx' \in [Conns -> Tenants \cup {None}]
    BY <2>1, <1>t DEF DataTypeOK
  <2>5. to = "resolve" => todo[r].revoked = {}
    BY <1>v, <1>t DEF WriteInv
  <2>6. to = "commit" => /\ \A c \in Conns : conn[c] = r => ctx'[c] = ask[r].tenant
                         /\ ask[r].id \in GlobalAdmins \/ held[r]
    <3> SUFFICES ASSUME to = "commit" PROVE /\ \A c \in Conns : conn[c] = r => ctx'[c] = ask[r].tenant
                                            /\ ask[r].id \in GlobalAdmins \/ held[r]
      OBVIOUS
    <3>1. pc[r] = "flush"
      BY <1>v
    <3> QED BY <2>1, <3>1, <1>t DEF OwnTenantOnly, GrantedByRole
  <2>7. pc[r] \in InSession /\ to \in InSession /\ to \notin {"provision", "work", "context", "flush"}
    BY <1>v DEF InSession
  <2> QED BY <2>1, <2>2, <2>3, <2>4, <2>5, <2>6, <2>7, StayStep, WritesAreWellFormed, NothingWritten
<1> QED BY <1>1, <1>2

(* The context is set on the connection at hand, and only if it has none. *)
LEMMA SetTenantContextStep ==
  ASSUME IInv, NEW r \in Requests, SetTenantContext(r)
  PROVE  IInv'
<1>t. DataTypeOK /\ WriteInv /\ OidInv /\ GrantedByRole
  BY IInvParts
<1>v. pc[r] = "context" /\ Validated(r) /\ NeedsTenant(r)
  BY DEF SetTenantContext, Validated
<1>1. CASE Rollback(r)
  BY <1>1, <1>v, RollbackStep
<1>2. CASE ~Rollback(r)
  <2>1. /\ ctx' = [c \in Conns |-> IF conn[c] = r THEN ask[r].tenant ELSE ctx[c]]
        /\ pc' = [pc EXCEPT ![r] = "work"]
        /\ UNCHANGED <<gate, ask, users, roles, conn, tx, todo, held>>
    BY <1>2 DEF SetTenantContext, Goto, tables
  <2>2. Moves(r, "work")
    BY <1>v, <2>1, GateUnchanged DEF Moves, AskFollows, InSession
  <2>3. ask[r].tenant \in Tenants \cup {None}
    BY <2>2, MovesKeepGate
  <2>4. ctx' \in [Conns -> Tenants \cup {None}]
    BY <2>1, <2>3, <1>t DEF DataTypeOK
  <2>5. tx' = [tx EXCEPT ![r] = tx[r]] /\ todo' = [todo EXCEPT ![r] = todo[r]]
    BY <2>1, <1>t DEF DataTypeOK
  <2>6. \A u \in tx[r].users : /\ \A v \in users : u.oid # v.oid
                               /\ \A o \in Requests \ {r} : \A v \in tx[o].users : u.oid # v.oid
    BY <1>t DEF OidInv
  <2>7. NeedsTenant(r) /\ ask[r].tenant # None /\ (ask[r].id \in GlobalAdmins \/ held[r])
    BY <1>v, <1>t DEF WriteInv, GrantedByRole
  <2>8. pc[r] \in InSession /\ "work" \in InSession
    BY <1>v DEF InSession
  <2>9. WellFormed(tx[r]) /\ WellFormed(todo[r])
    BY WritesAreWellFormed
  <2>10. /\ \A c \in Conns : conn[c] # r => ctx'[c] = ctx[c]
         /\ \A c \in Conns : conn[c] = r => ctx'[c] = ask[r].tenant
         /\ UNCHANGED <<users, roles, conn, held>>
    BY <2>1
  <2>11. \E l \in InSession : Moves(r, l) /\ l = "work"
    BY <2>2, <2>8
  <2> QED BY <2>4, <2>5, <2>6, <2>7, <2>8, <2>9, <2>10, <2>11, StayStep
<1> QED BY <1>1, <1>2

LEMMA PlanStep ==
  ASSUME IInv, NEW r \in Requests, NEW w, WellFormed(w), pc[r] = "work", Plan(r, w)
  PROVE  IInv'
<1>t. DataTypeOK /\ OidInv /\ OwnTenantOnly /\ GrantedByRole
  BY IInvParts
<1>1. /\ todo' = [todo EXCEPT ![r] = w] /\ pc' = [pc EXCEPT ![r] = "flush"]
      /\ UNCHANGED <<gate, ask, users, roles, conn, ctx, tx, held>>
  BY DEF Plan, Goto, tables, pool
<1>2. Moves(r, "flush")
  BY <1>1, GateUnchanged DEF Moves, AskFollows, Validated, InSession
<1>3. tx' = [tx EXCEPT ![r] = tx[r]] /\ ctx' \in [Conns -> Tenants \cup {None}]
  BY <1>1, <1>t DEF DataTypeOK
<1>4. \A u \in tx[r].users : /\ \A v \in users : u.oid # v.oid
                             /\ \A o \in Requests \ {r} : \A v \in tx[o].users : u.oid # v.oid
  BY <1>t DEF OidInv
<1>5. /\ \A c \in Conns : conn[c] = r => ctx'[c] = ask[r].tenant
      /\ ask[r].id \in GlobalAdmins \/ held[r]
  BY <1>1, <1>t DEF OwnTenantOnly, GrantedByRole
<1>6. pc[r] \in InSession /\ "flush" \in InSession
  BY DEF InSession
<1>7. WellFormed(tx[r])
  BY WritesAreWellFormed
<1>8. \E l \in InSession : Moves(r, l) /\ l = "flush"
  BY <1>2, <1>6
<1> QED BY <1>1, <1>3, <1>4, <1>5, <1>6, <1>7, <1>8, StayStep

(* What user_service means to write is well formed. *)
LEMMA WorkStep ==
  ASSUME IInv, NEW r \in Requests, CreateUser(r) \/ InviteUser(r) \/ Assign(r) \/ Revoke(r)
  PROVE  IInv'
<1>t. GateTypeOK /\ DataTypeOK /\ WriteInv
  BY IInvParts DEF GateInv
<1>1. pc[r] = "work" /\ Validated(r)
  BY DEF CreateUser, InviteUser, Assign, Revoke, Working, Validated
<1>2. ask[r] \in Asks
  BY <1>1, <1>t DEF GateTypeOK
<1>3. ask[r].whom \in Ids /\ ask[r].tenant \in Tenants
  BY <1>1, <1>2, <1>t, AskFields DEF WriteInv
<1>4. ASSUME NEW u \in Known(r), AssignRole(r, u) PROVE IInv'
  <2> DEFINE w == Writes({}, {<<u, ask[r].tenant>>} \ Visible(r), {})
  <2>1. u \in users /\ u \in Users
    BY <1>t DEF Known, DataTypeOK
  <2>2. WellFormed(w)
    BY <2>1, <1>3 DEF WellFormed, Writes, WriteSets
  <2>3. Plan(r, w)
    BY <1>4 DEF AssignRole
  <2> HIDE DEF w
  <2> QED BY <2>2, <2>3, <1>1, PlanStep
<1>5. ASSUME NEW new \in Users, AddUser(r, new) PROVE IInv'
  <2> DEFINE w == Writes({new}, {<<new, ask[r].tenant>>}, {})
  <2>1. CASE Known(r) = {}
    <3>1. WellFormed(w)
      BY <1>3 DEF WellFormed, Writes, WriteSets
    <3>2. Plan(r, w)
      BY <1>5, <2>1 DEF AddUser
    <3> HIDE DEF w
    <3> QED BY <3>1, <3>2, <1>1, PlanStep
  <2>2. CASE Known(r) # {}
    BY <1>4, <1>5, <2>2 DEF AddUser
  <2> QED BY <2>1, <2>2
<1>6. CASE CreateUser(r) \/ InviteUser(r)
  <2>1. User(ask[r].whom) \in Users /\ Placeholder(r, ask[r].whom) \in Users
    BY <1>3 DEF User, Placeholder, Users
  <2> QED BY <1>5, <1>6, <2>1 DEF CreateUser, InviteUser
<1>7. CASE Assign(r)
  BY <1>1, <1>4, <1>7, RollbackStep DEF Assign
<1>8. CASE Revoke(r)
  <2>1. Rollback(r) \/ \E ro \in Visible(r) : Plan(r, Writes({}, {}, {ro}))
    BY <1>8 DEF Revoke
  <2>2. ASSUME NEW ro \in Visible(r), Plan(r, Writes({}, {}, {ro})) PROVE IInv'
    <3> DEFINE w == Writes({}, {}, {ro})
    <3>1. ro \in Users \X Tenants
      BY <1>t DEF Visible, DataTypeOK
    <3>2. WellFormed(w)
      BY <3>1 DEF WellFormed, Writes, WriteSets
    <3>3. Plan(r, w)
      BY <2>2
    <3> HIDE DEF w
    <3> QED BY <3>2, <3>3, <1>1, PlanStep
  <2> QED BY <2>1, <2>2, <1>1, RollbackStep
<1> QED BY <1>6, <1>7, <1>8

-----------------------------------------------------------------------------

LEMMA ProceedStep ==
  ASSUME IInv, NEW r \in Requests, Proceed(r) \/ DatabaseError(r)
  PROVE  IInv'
<1>1. CASE Validate(r) /\ UNCHANGED database
  BY <1>1, ValidateStep, GateMovesStep, IInvParts
<1>2. CASE Acquire(r, "valid", "select") \/ OpenSession(r)
  BY <1>2, AcquireStep
<1>3. CASE Flush(r, "provision", "resolve") \/ Flush(r, "flush", "commit")
  BY <1>3, FlushStep
<1>4. CASE TenantRequired(r) \/ ListMyTenants(r) \/ DatabaseError(r)
  BY <1>4, RollbackStep DEF TenantRequired, ListMyTenants, DatabaseError, Validated
<1> QED BY <1>1, <1>2, <1>3, <1>4, UpsertUserStep, CommitStep, LogoutStep, SetTenantContextStep,
           WorkStep DEF Proceed

LEMMA StepIInv == IInv /\ [Next]_vars => IInv'
<1> SUFFICES ASSUME IInv, [Next]_vars PROVE IInv'
  OBVIOUS
<1>1. CASE UNCHANGED vars
  <2>1. UNCHANGED <<window, failures, jwks, answer, lock, withdrawn, pc, ask, users, roles, conn, ctx,
                    tx, todo, held>>
    BY <1>1 DEF vars, gate, limits, tables, pool
  <2>2. GateInv' /\ DataTypeOK' /\ ConnInv' /\ WriteInv' /\ OidInv'
    BY <2>1, IInvParts DEF GateInv, GateTypeOK, LockInv, KeyInv, OnItsWay, DataTypeOK, ConnInv,
                           WriteInv, OidInv, NeedsTenant
  <2>3. OwnTenantOnly' /\ GrantedByRole'
    BY <2>1, IInvParts DEF OwnTenantOnly, GrantedByRole
  <2> QED BY <2>2, <2>3, PartsPrimed
<1>2. ASSUME NEW r \in Requests, Arrive(r), UNCHANGED database PROVE IInv'
  BY <1>2, ArriveStep, GateMovesStep, IInvParts
<1>3. ASSUME NEW r \in Requests, Proceed(r) \/ DatabaseError(r) PROVE IInv'
  BY <1>3, ProceedStep
<1>4. ASSUME (\E k \in Kids : Rotate(k)) \/ Tick, UNCHANGED database PROVE IInv'
  BY <1>4, ClockOnlyStep
<1> QED BY <1>1, <1>2, <1>3, <1>4 DEF Next

(* The invariant holds in every reachable state. *)
THEOREM Invariance == Spec => []IInv
BY InitIInv, StepIInv, PTL DEF Spec

(* Every variable keeps its type: the rate window never exceeds its limit, a role is *)
(* of a user who is there, and no two users share an oid, whoever is created by       *)
(* whichever transactions at the same time.                                           *)
THEOREM TypeCorrect == Spec => []TypeOK
<1>1. IInv => TypeOK
  BY DEF IInv
<1> QED BY <1>1, Invariance, PTL

(* One request at a time refreshes the key cache: the one that holds its lock. *)
THEOREM OneRefresh == Spec => []LockInv
<1>1. IInv => LockInv
  BY DEF IInv
<1> QED BY <1>1, Invariance, PTL

(* Work in a tenant is done on a connection that shows that tenant's rows and that no *)
(* other request has.                                                                 *)
THEOREM TenantIsolation == Spec => []OwnTenantOnly
<1>1. IInv => OwnTenantOnly
  BY DEF IInv
<1> QED BY <1>1, Invariance, PTL

(* Whoever gets past authentication is a global administrator or held a role in the   *)
(* tenant at some moment since its token was validated.                               *)
THEOREM RolesAreChecked == Spec => []GrantedByRole
<1>1. IInv => GrantedByRole
  BY DEF IInv
<1> QED BY <1>1, Invariance, PTL

(* A request becomes valid by decoding only. *)
LEMMA BecomesValid ==
  ASSUME IInv, [Next]_vars, NEW r \in Requests, pc[r] # "valid", pc'[r] = "valid"
  PROVE  Validate(r)
<1>t. GateTypeOK
  BY IInvParts DEF GateInv
<1>n. "valid" \notin InSession \cup {"session", "done", "key"}
  BY DEF InSession
<1>1. CASE UNCHANGED vars
  BY <1>1 DEF vars
<1>2. ASSUME NEW o \in Requests, Arrive(o) PROVE Validate(r)
  <2>1. pc' = [pc EXCEPT ![o] = "key"] \/ pc' = [pc EXCEPT ![o] = "done"]
    BY <1>2 DEF Arrive, CheckRateLimit, ExchangeCode, Answer, Goto
  <2> QED BY <2>1, <1>t DEF GateTypeOK
<1>3. ASSUME NEW o \in Requests, Proceed(o) \/ DatabaseError(o), ~Validate(o) PROVE Validate(r)
  <2>1. \E l \in InSession \cup {"session", "done"} : pc' = [pc EXCEPT ![o] = l]
    BY <1>3 DEF Proceed, DatabaseError, Acquire, UpsertUser, Flush, ExchangeToken, GetCurrentUser,
      Logout, TenantRequired, OpenSession, ListMyTenants, SetTenantContext, CreateUser, InviteUser,
      Assign, Revoke, CommitWork, AddUser, AssignRole, Plan, Rollback, Answer, Goto, InSession
  <2> QED BY <2>1, <1>n, <1>t DEF GateTypeOK
<1>4. ASSUME NEW o \in Requests, Validate(o) PROVE Validate(r)
  <2>1. \E l : pc' = [pc EXCEPT ![o] = l]
    BY <1>4, <1>t, ValidateStep, IInvParts DEF GateMoves
  <2> QED BY <1>4, <2>1, <1>t DEF GateTypeOK
<1>5. ASSUME (\E k \in Kids : Rotate(k)) \/ Tick PROVE Validate(r)
  BY <1>5, ClockStep, IInvParts
<1> QED BY <1>1, <1>2, <1>3, <1>4, <1>5 DEF Next

(* A token is only accepted with a key that the provider has not withdrawn for longer *)
(* than the time to live of the cache and the timeout of its refresh.                 *)
THEOREM KeysAreFresh == Spec => FreshKeys
<1> DEFINE Fresh == \A r \in Requests : pc[r] # "valid" /\ pc'[r] = "valid" =>
                      withdrawn[ask[r].kid] =< Ttl + Timeout + 1
<1>1. IInv /\ [Next]_vars => [Fresh]_<<gate, pc>>
  <2> SUFFICES ASSUME IInv, [Next]_vars, NEW r \in Requests, pc[r] # "valid", pc'[r] = "valid"
               PROVE  withdrawn[ask[r].kid] =< Ttl + Timeout + 1
    OBVIOUS
  <2>1. Validate(r)
    BY BecomesValid
  <2> QED BY <2>1, ValidateStep, IInvParts
<1> QED BY <1>1, Invariance, PTL DEF Spec, FreshKeys

=============================================================================
