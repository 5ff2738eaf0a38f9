-------------------------- MODULE JwksCacheProofs --------------------------
(***************************************************************************)
(* Proofs about JwksCache, for every set of callers, kids and keys and     *)
(* every choice of the durations:                                          *)
(*   - IInv is inductive, and with it TypeOK and the mutual exclusion of   *)
(*     refreshes hold in every reachable state;                            *)
(*   - the cache implements KeyDirectory;                                  *)
(*   - lookups spare the origin, and are held off only for a failure.      *)
(***************************************************************************)
EXTENDS JwksCache, WellFoundedInduction, TLAPS

\* The number of retries is a natural number.
LEMMA LenNat == Len(RetryBackoff) \in Nat
  BY DurationsPositive

\* Every backoff lasts a natural number of ticks.
LEMMA BackoffNat ==
  ASSUME NEW i \in Nat, i >= 1, i <= Len(RetryBackoff)
  PROVE  RetryBackoff[i] \in Nat
<1>1. RetryBackoff \in Seq(Nat)
  BY DurationsPositive
<1>2. i \in 1..Len(RetryBackoff)
  BY LenNat
<1> QED
  BY <1>1, <1>2

\* The durations are positive, and the clock starts after 0.
LEMMA Durations ==
  /\ CacheTTL \in Nat /\ CacheTTL > 0
  /\ RefreshCooldown \in Nat /\ RefreshCooldown > 0
  /\ FailureCooldown \in Nat /\ FailureCooldown > 0
  /\ FetchTimeout \in Nat /\ FetchTimeout > 0
  /\ Epoch \in Nat /\ Epoch > 0
<1>1. {CacheTTL, RefreshCooldown, FailureCooldown, FetchTimeout} \subseteq Nat \ {0}
  BY DurationsPositive
<1>2. Epoch \in Nat /\ Epoch > 0
  BY ClockStartsLate
<1> QED
  BY <1>1, <1>2

\* What the directory's answers and document values are made of.
LEMMA Names ==
  /\ NoKey \in Value
  /\ Key \subseteq Value
  /\ {"none", "unknown", "refreshed", "missing kid", "failed", "held off"}
       \subseteq Dir!Outcome
  BY DEF Value, Dir!Value, Dir!Outcome, Dir!Unavailable

\* A document gives every kid a key or none.
LEMMA DocumentValue ==
  ASSUME NEW doc \in Document, NEW k \in Kid
  PROVE  doc[k] \in Value /\ (doc[k] # NoKey => doc[k] \in Key)
  BY DEF Document, Dir!Document, Value, Dir!Value

\* A cache that has fetched nothing satisfies the invariant (New).
LEMMA InitCoreInv == Init => CoreInv
<1> SUFFICES ASSUME Init PROVE CoreInv
  OBVIOUS
<1>1. keys \in Document /\ until \in [Kid -> [Value -> Nat]]
  BY Names DEF Init, Document, Dir!Document, Value
<1>2. attempt \in 0..(Len(RetryBackoff) + 1)
  BY LenNat DEF Init
<1>3. now \in Nat /\ now >= Epoch
  BY ClockStartsLate DEF Init
<1>4. settled \in Record
  BY DEF Init, Record, Good
<1>5. answer \in [Caller -> Key \cup Dir!Outcome]
  BY Names DEF Init
<1>6. TypeOK
  BY <1>1, <1>2, <1>3, <1>4, <1>5 DEF Init, TypeOK
<1>7. LockInv
  BY NamesDistinct DEF Init, LockInv
<1>8. RefreshInv /\ CacheInv
  BY DEF Init, RefreshInv, CacheInv
<1> QED
  BY <1>6, <1>7, <1>8 DEF CoreInv

-----------------------------------------------------------------------------
(* The environment's steps. *)

\* Time passes no further than the holder's timer.
LEMMA TickCoreInv == CoreInv /\ Tick => CoreInv'
<1> SUFFICES ASSUME CoreInv, Tick PROVE CoreInv'
  OBVIOUS
<1>1. TypeOK'
  BY Durations DEF CoreInv, TypeOK, Tick, env, cache, refreshing, calls
<1>2. LockInv'
  BY DEF CoreInv, LockInv, Tick, calls
<1>3. RefreshInv'
  <2> SUFFICES ASSUME mu # NoCaller PROVE RefreshInv'
    BY DEF RefreshInv, Tick
  <2>1. now' = now + 1 /\ now < timer /\ now \in Nat /\ timer \in Nat
    BY DEF Tick, CoreInv, TypeOK
  <2>2. now' <= timer /\ (timer <= now + FetchTimeout => timer <= now' + FetchTimeout)
    BY <2>1, Durations
  <2> QED
    BY <2>2 DEF CoreInv, RefreshInv, SaidSince, Tick, env, refreshing, calls
<1>4. CacheInv'
  <2>1. now' = now + 1 /\ now \in Nat /\ lastRefresh \in Nat
    BY DEF Tick, CoreInv, TypeOK
  <2>2. lastRefresh <= now => lastRefresh <= now'
    BY <2>1
  <2> QED
    BY <2>2 DEF CoreInv, CacheInv, SaidSince, Tick, env, cache
<1> QED
  BY <1>1, <1>2, <1>3, <1>4 DEF CoreInv

\* What the origin has said since t stays said, when it publishes a document
\* no earlier than t.
LEMMA PublishSaidSince ==
  ASSUME TypeOK, NEW doc \in Document, Publish(doc),
         NEW k \in Kid, NEW v \in Value, NEW t \in Int, t <= now, SaidSince(k, v, t)
  PROVE  SaidSince(k, v, t)'
<1>1. until' = [kk \in Kid |-> [vv \in Value |->
                 IF origin[kk] = vv /\ doc[kk] # vv THEN now ELSE until[kk][vv]]]
  BY DEF Publish, Dir!Publish, Value
<1>2. until'[k][v] = IF origin[k] = v /\ doc[k] # v THEN now ELSE until[k][v]
  BY <1>1
<1>3. origin' = doc
  BY DEF Publish, Dir!Publish
<1>4. CASE origin[k] = v /\ doc[k] # v
  BY <1>2, <1>4 DEF SaidSince
<1>5. CASE ~(origin[k] = v /\ doc[k] # v)
  BY <1>2, <1>3, <1>5 DEF SaidSince
<1> QED
  BY <1>4, <1>5

\* The gateway publishes another document: the cached one stays what it was.
LEMMA PublishCoreInv ==
  ASSUME CoreInv, NEW doc \in Document, Publish(doc)
  PROVE  CoreInv'
<1> USE DEF CoreInv
<1>1. /\ UNCHANGED <<now, mu, keys, expiry, lastRefresh, lastFailure, settled,
                    attempt, timer, reply, lockedAt, pc, ask, cancelled, answer>>
      /\ origin' = doc
  BY DEF Publish, Dir!Publish, cache, refreshing
<1>2. until' \in [Kid -> [Value -> Nat]]
  BY DEF Publish, Dir!Publish, TypeOK, Value
<1>3. TypeOK'
  BY <1>1, <1>2 DEF TypeOK
<1>4. LockInv'
  BY <1>1 DEF LockInv
<1>5. RefreshInv'
  <2> SUFFICES ASSUME mu # NoCaller PROVE RefreshInv'
    BY <1>1 DEF RefreshInv
  <2>1. ASSUME reply # NoReply, NEW k \in Kid
        PROVE  SaidSince(k, reply[k], timer - FetchTimeout)'
    <3>1. pc[mu] = "fetching"
      <4>1. mu \in Caller /\ pc[mu] \in {"fetching", "backoff"}
        BY DEF TypeOK, LockInv
      <4> QED
        BY <2>1, <4>1 DEF RefreshInv
    <3>2. timer - FetchTimeout \in Int /\ timer - FetchTimeout <= now
      BY <3>1, Durations DEF RefreshInv, TypeOK
    <3>3. reply \in Document
      BY <2>1 DEF TypeOK
    <3>4. reply[k] \in Value
      BY <3>3, DocumentValue
    <3>5. SaidSince(k, reply[k], timer - FetchTimeout)
      BY <2>1 DEF RefreshInv
    <3>6. \A t \in Int : t <= now /\ SaidSince(k, reply[k], t) => SaidSince(k, reply[k], t)'
      BY <3>4, PublishSaidSince, <1>1
    <3> QED
      BY <3>2, <3>5, <3>6, <1>1 DEF SaidSince
  <2> QED
    BY <2>1, <1>1 DEF RefreshInv
<1>6. CacheInv'
  <2> SUFFICES ASSUME expiry # 0 PROVE CacheInv'
    BY <1>1 DEF CacheInv
  <2>1. ASSUME NEW k \in Kid
        PROVE  SaidSince(k, keys[k], lastRefresh - FetchTimeout)'
    <3>1. lastRefresh - FetchTimeout \in Int /\ lastRefresh - FetchTimeout <= now
      BY Durations DEF CacheInv, TypeOK
    <3>2. keys[k] \in Value
      BY DocumentValue DEF TypeOK
    <3>3. SaidSince(k, keys[k], lastRefresh - FetchTimeout)
      BY DEF CacheInv
    <3>4. \A t \in Int : t <= now /\ SaidSince(k, keys[k], t) => SaidSince(k, keys[k], t)'
      BY <3>2, PublishSaidSince, <1>1
    <3> QED
      BY <3>1, <3>3, <3>4, <1>1 DEF SaidSince
  <2> QED
    BY <2>1, <1>1 DEF CacheInv
<1> QED
  BY <1>3, <1>4, <1>5, <1>6

-----------------------------------------------------------------------------
(* The steps of a call outside a refresh. *)

\* Only the calls change: what is left to show is about pc, ask and answer.
LEMMA CallsFrame ==
  ASSUME CoreInv, UNCHANGED <<now, env, mu, cache, refreshing>>,
         (pc \in [Caller -> {"idle", "called", "fetching", "backoff"}])',
         (ask \in [Caller -> Dir!Question \cup {"nothing"}])',
         (cancelled \in [Caller -> BOOLEAN])',
         (answer \in [Caller -> Key \cup Dir!Outcome])',
         LockInv',
         mu # NoCaller => pc'[mu] = pc[mu]
  PROVE  CoreInv'
<1> USE DEF CoreInv
<1>1. TypeOK'
  BY DEF TypeOK, env, cache, refreshing
<1>2. RefreshInv'
  BY DEF RefreshInv, SaidSince, env, cache, refreshing
<1>3. CacheInv'
  BY DEF CacheInv, SaidSince, env, cache
<1> QED
  BY <1>1, <1>2, <1>3

\* A call arrives and waits for the mutex.
LEMMA CallCoreInv ==
  ASSUME CoreInv, NEW c \in Caller, NEW q \in Dir!Question, Call(c, q)
  PROVE  CoreInv'
<1> USE DEF CoreInv, Call
<1>1. /\ (pc \in [Caller -> {"idle", "called", "fetching", "backoff"}])'
      /\ (ask \in [Caller -> Dir!Question \cup {"nothing"}])'
      /\ (cancelled \in [Caller -> BOOLEAN])'
      /\ (answer \in [Caller -> Key \cup Dir!Outcome])'
  BY Names DEF TypeOK
<1>2. q # "nothing"
  BY NamesDistinct DEF Dir!Question
<1>3. LockInv'
  BY <1>2 DEF LockInv, TypeOK
<1>4. mu # NoCaller => pc'[mu] = pc[mu]
  BY DEF LockInv, TypeOK
<1> QED
  BY <1>1, <1>3, <1>4, CallsFrame

\* A caller's context ends.
LEMMA CancelCoreInv ==
  ASSUME CoreInv, NEW c \in Caller, Cancel(c)
  PROVE  CoreInv'
<1>1. /\ (pc \in [Caller -> {"idle", "called", "fetching", "backoff"}])'
      /\ (ask \in [Caller -> Dir!Question \cup {"nothing"}])'
      /\ (cancelled \in [Caller -> BOOLEAN])'
      /\ (answer \in [Caller -> Key \cup Dir!Outcome])'
  BY DEF CoreInv, TypeOK, Cancel
<1>2. LockInv'
  BY DEF CoreInv, LockInv, Cancel
<1> QED
  BY <1>1, <1>2, CallsFrame DEF Cancel

\* A call that waits returns without having touched the cache.
LEMMA ReturnCoreInv ==
  ASSUME CoreInv, NEW c \in Caller, NEW a \in Key \cup Dir!Outcome,
         pc[c] = "called", Return(c, a),
         UNCHANGED <<now, env, mu, cache, refreshing>>
  PROVE  CoreInv'
<1> USE DEF CoreInv, Return
<1>1. /\ (pc \in [Caller -> {"idle", "called", "fetching", "backoff"}])'
      /\ (ask \in [Caller -> Dir!Question \cup {"nothing"}])'
      /\ (cancelled \in [Caller -> BOOLEAN])'
      /\ (answer \in [Caller -> Key \cup Dir!Outcome])'
  BY DEF TypeOK
<1>2. LockInv'
  BY DEF LockInv, TypeOK
<1>3. mu # NoCaller => pc'[mu] = pc[mu]
  BY DEF LockInv, TypeOK
<1> QED
  BY <1>1, <1>2, <1>3, CallsFrame

\* A lookup answered without a refresh (Key before fetchLocked).
LEMMA AnsweredCoreInv ==
  ASSUME CoreInv, NEW c \in Caller,
         RejectNoKid(c) \/ Hit(c) \/ RefuseUnknown(c) \/ HoldOff(c)
  PROVE  CoreInv'
<1>1. CASE RejectNoKid(c)
  BY <1>1, Names, ReturnCoreInv DEF RejectNoKid
<1>2. CASE Hit(c)
  <2>1. keys[ask[c]] \in Key
    BY <1>2, DocumentValue DEF Hit, Lookup, CoreInv, TypeOK
  <2> QED
    BY <1>2, <2>1, ReturnCoreInv DEF Hit, Lookup, MayEnter
<1>3. CASE RefuseUnknown(c)
  BY <1>3, Names, ReturnCoreInv DEF RefuseUnknown, Lookup, MayEnter
<1>4. CASE HoldOff(c)
  BY <1>4, Names, ReturnCoreInv DEF HoldOff, Lookup, MayEnter
<1> QED
  BY <1>1, <1>2, <1>3, <1>4

\* A caller takes the mutex for a refresh (fetchLocked, the first attempt).
LEMMA BeginRefreshCoreInv ==
  ASSUME CoreInv, NEW c \in Caller, BeginRefresh(c)
  PROVE  CoreInv'
<1> USE DEF CoreInv, BeginRefresh, MayEnter
<1>1. TypeOK'
  BY LenNat, Durations DEF TypeOK, env, cache
<1>2. ask[c] # "no kid"
  BY NamesDistinct
<1>3. LockInv'
  BY <1>2, NamesDistinct DEF LockInv, TypeOK
<1>4. RefreshInv'
  BY Durations DEF RefreshInv, TypeOK
<1>5. CacheInv'
  BY DEF CacheInv, SaidSince, env, cache
<1> QED
  BY <1>1, <1>3, <1>4, <1>5

-----------------------------------------------------------------------------
(* The steps of a refresh. *)

\* The response carries what the origin says within the attempt.
LEMMA OriginRepliesCoreInv ==
  ASSUME CoreInv, NEW c \in Caller, OriginReplies(c)
  PROVE  CoreInv'
<1> USE DEF CoreInv, OriginReplies
<1>1. TypeOK'
  BY DEF TypeOK, env, cache, calls
<1>2. LockInv'
  BY DEF LockInv, calls
<1>3. mu = c /\ mu # NoCaller
  BY NamesDistinct DEF LockInv
<1>4. \A k \in Kid : SaidSince(k, reply[k], timer - FetchTimeout)'
  BY DEF SaidSince, env
<1>5. RefreshInv'
  BY <1>3, <1>4 DEF RefreshInv, calls
<1>6. CacheInv'
  BY DEF CacheInv, SaidSince, env, cache
<1> QED
  BY <1>1, <1>2, <1>5, <1>6

\* A call that ends its refresh: it releases the mutex and returns.
LEMMA EndRefresh ==
  ASSUME CoreInv, NEW c \in Caller, NEW a \in Key \cup Dir!Outcome,
         pc[c] \in {"fetching", "backoff"}, Return(c, a), Unlock,
         UNCHANGED <<now, env>>, keys' \in Document,
         {expiry', lastRefresh', lastFailure'} \subseteq Nat,
         settled' \in Record
  PROVE  TypeOK' /\ LockInv' /\ RefreshInv'
<1> USE DEF CoreInv, Return, Unlock
<1>1. TypeOK'
  BY LenNat DEF TypeOK, env
<1>2. mu = c
  BY DEF LockInv
<1>3. LockInv'
  BY <1>2, NamesDistinct DEF LockInv, TypeOK
<1>4. RefreshInv'
  BY DEF RefreshInv
<1> QED
  BY <1>1, <1>3, <1>4

\* A refreshing call asked for a kid or for the refresh itself.
LEMMA RefreshingAsk ==
  ASSUME CoreInv, NEW c \in Caller, pc[c] \in {"fetching", "backoff"}
  PROVE  ask[c] \in Kid \cup {"refresh"} /\ mu = c /\ mu # NoCaller
  BY NamesDistinct DEF CoreInv, TypeOK, LockInv, Dir!Question

\* The response is installed: its document becomes the cached one.
LEMMA SucceedCoreInv ==
  ASSUME CoreInv, NEW c \in Caller, Succeed(c)
  PROVE  CoreInv'
<1> USE DEF Succeed, Install
<1>1. reply \in Document
  BY DEF CoreInv, TypeOK, Answered
<1>2. ask[c] \in Kid \cup {"refresh"} /\ mu = c /\ mu # NoCaller
  BY RefreshingAsk
<1>3. Resolve(ask[c], reply) \in Key \cup Dir!Outcome
  BY <1>1, <1>2, Names, NamesDistinct, DocumentValue DEF Resolve
<1>4. now \in Nat /\ now + CacheTTL \in Nat /\ 0 \in Nat
  BY Durations DEF CoreInv, TypeOK
<1>5. settled' \in Record
  BY <1>4 DEF Record, Good
<1>6. {expiry', lastRefresh', lastFailure'} \subseteq Nat
  BY <1>4
<1>7. TypeOK' /\ LockInv' /\ RefreshInv'
  BY <1>1, <1>3, <1>5, <1>6, EndRefresh
<1>8. CacheInv'
  <2>1. ASSUME NEW k \in Kid
        PROVE  SaidSince(k, keys[k], lastRefresh - FetchTimeout)'
    <3>1. SaidSince(k, reply[k], timer - FetchTimeout)
      BY <1>2 DEF CoreInv, RefreshInv, Answered
    <3>2. timer - FetchTimeout <= now /\ now <= timer /\ timer \in Nat
      BY <1>2, <1>4, Durations DEF CoreInv, RefreshInv, TypeOK
    <3>3. reply[k] \in Value /\ until[k][reply[k]] \in Nat
      BY <1>1, DocumentValue DEF CoreInv, TypeOK
    <3>4. SaidSince(k, reply[k], now - FetchTimeout)
      BY <3>1, <3>2, <3>3, <1>4, Durations DEF SaidSince
    <3> QED
      BY <3>4 DEF SaidSince, env
  <2>2. expiry' = lastRefresh' + CacheTTL /\ lastRefresh' <= now'
    BY <1>4
  <2> QED
    BY <2>1, <2>2 DEF CacheInv
<1> QED
  BY <1>7, <1>8 DEF CoreInv

\* A refresh that fails for good leaves the cached document alone.
LEMMA GiveUpCoreInv ==
  ASSUME CoreInv, NEW c \in Caller, GiveUp(c)
  PROVE  CoreInv'
<1> USE DEF GiveUp
<1>1. now \in Nat
  BY DEF CoreInv, TypeOK
<1>2. /\ UNCHANGED <<keys, expiry, lastRefresh>>
      /\ lastFailure' \in Nat
      /\ settled' \in Record
  <2>1. CASE cancelled[c]
    BY <2>1 DEF RecordFailure, cache, CoreInv, TypeOK
  <2>2. CASE ~cancelled[c]
    <3>1. Failed(c) \in Record
      BY <1>1 DEF Failed, Record, CoreInv, TypeOK
    <3>2. /\ UNCHANGED <<keys, expiry, lastRefresh>>
          /\ lastFailure' = now
          /\ settled' = Failed(c)
      BY <2>2, Zenon DEF RecordFailure
    <3> QED
      BY <1>1, <3>1, <3>2
  <2> QED
    BY <2>1, <2>2
<1>3. keys' \in Document /\ {expiry', lastRefresh', lastFailure'} \subseteq Nat
  BY <1>2 DEF CoreInv, TypeOK
<1>4. TypeOK' /\ LockInv' /\ RefreshInv'
  BY <1>2, <1>3, Names, EndRefresh
<1>5. CacheInv'
  BY <1>2 DEF CoreInv, CacheInv, SaidSince, env
<1> QED
  BY <1>4, <1>5 DEF CoreInv

\* A failed attempt's response is dropped before the backoff.
LEMMA AwaitRetryCoreInv ==
  ASSUME CoreInv, NEW c \in Caller, AwaitRetry(c)
  PROVE  CoreInv'
<1> USE DEF AwaitRetry
<1>1. mu = c /\ mu # NoCaller
  BY RefreshingAsk
<1>2. attempt \in Nat /\ attempt >= 1 /\ attempt <= Len(RetryBackoff)
  BY <1>1, LenNat DEF CoreInv, TypeOK, RefreshInv, RetriesLeft
<1>3. RetryBackoff[attempt] \in Nat
  BY <1>2, BackoffNat
<1>4. now \in Nat /\ timer' \in Nat /\ now <= timer'
  BY <1>3 DEF CoreInv, TypeOK
<1>5. TypeOK'
  BY <1>4 DEF CoreInv, TypeOK, env, cache
<1>6. LockInv'
  BY DEF CoreInv, LockInv, TypeOK
<1>7. RefreshInv'
  BY <1>1, <1>2, <1>4 DEF CoreInv, TypeOK, RefreshInv
<1>8. CacheInv'
  BY DEF CoreInv, CacheInv, SaidSince, env, cache
<1> QED
  BY <1>5, <1>6, <1>7, <1>8 DEF CoreInv

\* The next attempt starts with a timeout of its own.
LEMMA RetryCoreInv ==
  ASSUME CoreInv, NEW c \in Caller, Retry(c)
  PROVE  CoreInv'
<1> USE DEF Retry
<1>1. mu = c /\ mu # NoCaller
  BY RefreshingAsk
<1>2. /\ attempt \in Nat /\ attempt >= 1 /\ attempt <= Len(RetryBackoff)
      /\ reply = NoReply
  BY <1>1, LenNat DEF CoreInv, TypeOK, RefreshInv
<1>3. attempt' \in 0..(Len(RetryBackoff) + 1) /\ attempt' >= 1
  BY <1>2, LenNat
<1>4. now \in Nat /\ timer' \in Nat /\ now <= timer' /\ timer' <= now + FetchTimeout
  BY Durations DEF CoreInv, TypeOK
<1>5. TypeOK'
  BY <1>3, <1>4 DEF CoreInv, TypeOK, env, cache
<1>6. LockInv'
  BY DEF CoreInv, LockInv, TypeOK
<1>7. RefreshInv'
  BY <1>1, <1>2, <1>3, <1>4 DEF CoreInv, TypeOK, RefreshInv
<1>8. CacheInv'
  BY DEF CoreInv, CacheInv, SaidSince, env, cache
<1> QED
  BY <1>5, <1>6, <1>7, <1>8 DEF CoreInv

\* Nothing happens.
LEMMA StutterCoreInv == CoreInv /\ UNCHANGED vars => CoreInv'
<1> SUFFICES ASSUME CoreInv, UNCHANGED vars PROVE CoreInv'
  OBVIOUS
<1>1. UNCHANGED <<now, env, mu, cache, refreshing>> /\ UNCHANGED calls
  BY DEF vars
<1>2. /\ (pc \in [Caller -> {"idle", "called", "fetching", "backoff"}])'
      /\ (ask \in [Caller -> Dir!Question \cup {"nothing"}])'
      /\ (cancelled \in [Caller -> BOOLEAN])'
      /\ (answer \in [Caller -> Key \cup Dir!Outcome])'
      /\ LockInv'
  BY <1>1 DEF calls, CoreInv, TypeOK, LockInv
<1> QED
  BY <1>1, <1>2, CallsFrame DEF calls

\* Every step preserves the invariant.
LEMMA NextCoreInv == CoreInv /\ [Next]_vars => CoreInv'
<1> SUFFICES ASSUME CoreInv, [Next]_vars PROVE CoreInv'
  OBVIOUS
<1>1. CASE UNCHANGED vars
  BY <1>1, StutterCoreInv
<1>2. CASE Tick
  BY <1>2, TickCoreInv
<1>3. CASE \E doc \in Document : Publish(doc)
  BY <1>3, PublishCoreInv
<1>4. ASSUME NEW c \in Caller,
             \/ \E q \in Dir!Question : Call(c, q)
             \/ Cancel(c)
             \/ RejectNoKid(c)
             \/ Enter(c)
             \/ OriginReplies(c)
             \/ Refreshing(c)
      PROVE  CoreInv'
  BY <1>4, CallCoreInv, CancelCoreInv, AnsweredCoreInv, BeginRefreshCoreInv,
     OriginRepliesCoreInv, SucceedCoreInv, GiveUpCoreInv, AwaitRetryCoreInv, RetryCoreInv
     DEF Enter, Refreshing
<1> QED
  BY <1>1, <1>2, <1>3, <1>4 DEF Next

\* The inductive invariant holds in every reachable state.  It says that one
\* caller at a time refreshes (jwks.Cache.mu held across fetchLocked), that an
\* attempt is within its timeout, and that the cached document is one the
\* gateway published at most FetchTimeout before its lastRefresh stamp.
THEOREM CacheCore == Spec => []CoreInv
  BY InitCoreInv, NextCoreInv, PTL DEF Spec

\* Type correctness of the cache's fields, the refresh and the calls.
THEOREM CacheTypeOK == Spec => []TypeOK
<1>1. CoreInv => TypeOK
  BY DEF CoreInv
<1> QED
  BY <1>1, CacheCore, PTL

-----------------------------------------------------------------------------
(* The cache implements KeyDirectory. *)

\* What the origin has said since t, it said less than lag ago, if t is.
LEMMA SaidLately ==
  ASSUME TypeOK, NEW k \in Kid, NEW v \in Value, NEW t \in Int, NEW lag \in Nat,
         SaidSince(k, v, t), now - t < lag
  PROVE  Dir!Said(k, v, lag)
<1>1. until[k][v] \in Nat /\ now \in Nat
  BY DEF TypeOK
<1> QED
  BY <1>1 DEF SaidSince, Dir!Said

\* A key the origin said less than KeyLag ago is an allowed answer.
LEMMA AllowedKey ==
  ASSUME NEW k \in Kid, NEW v \in Key, Dir!Said(k, v, KeyLag)
  PROVE  v \in Dir!Allowed(k)
  BY DEF Dir!Allowed

\* So is unknown, for a kid the origin did not publish less than UnknownLag ago.
LEMMA AllowedUnknown ==
  ASSUME NEW k \in Kid, Dir!Said(k, NoKey, UnknownLag)
  PROVE  "unknown" \in Dir!Allowed(k)
  BY DEF Dir!Allowed

\* A failure is always an allowed answer.
LEMMA AllowedUnavailable ==
  ASSUME NEW q \in Kid \cup {"refresh"}
  PROVE  /\ "failed" \in Dir!Allowed(q)
         /\ q \in Kid => "held off" \in Dir!Allowed(q)
<1>1. CASE q \in Kid
  BY <1>1 DEF Dir!Allowed, Dir!Unavailable
<1>2. CASE q = "refresh" /\ q \notin Kid
  BY <1>2 DEF Dir!Allowed
<1> QED
  BY <1>1, <1>2

\* A call that returns an allowed answer is an Answer step of the directory.
LEMMA ReturnAnswers ==
  ASSUME NEW c \in Caller, NEW a \in Dir!Allowed(ask[c]),
         ask[c] # "nothing", Return(c, a), UNCHANGED <<now, env>>
  PROVE  Dir!Answer(c)
  BY DEF Return, Dir!Answer, env

\* A hit is an answer of the directory.
LEMMA HitAnswers ==
  ASSUME CoreInv, NEW c \in Caller, Hit(c)
  PROVE  Dir!Answer(c)
<1> DEFINE k == ask[c]
<1>1. k \in Kid /\ keys[k] \in Key /\ keys[k] \in Value /\ now < expiry
  BY DocumentValue DEF Hit, Lookup, Fresh, CoreInv, TypeOK
<1>2. /\ now \in Nat /\ expiry \in Nat /\ lastRefresh \in Nat
      /\ expiry = lastRefresh + CacheTTL
      /\ SaidSince(k, keys[k], lastRefresh - FetchTimeout)
  BY <1>1 DEF CoreInv, TypeOK, CacheInv
<1>3. /\ lastRefresh - FetchTimeout \in Int /\ KeyLag \in Nat
      /\ now - (lastRefresh - FetchTimeout) < KeyLag
  BY <1>1, <1>2, Durations DEF KeyLag
<1>4. Dir!Said(k, keys[k], KeyLag)
  BY <1>1, <1>2, <1>3, SaidLately DEF CoreInv
<1>5. keys[k] \in Dir!Allowed(k)
  BY <1>1, <1>4, AllowedKey
<1> QED
  BY <1>1, <1>5, NamesDistinct, ReturnAnswers DEF Hit

\* So is the refusal of an unknown kid within the refresh cooldown.
LEMMA RefuseUnknownAnswers ==
  ASSUME CoreInv, NEW c \in Caller, RefuseUnknown(c)
  PROVE  Dir!Answer(c)
<1> DEFINE k == ask[c]
<1>1. k \in Kid /\ keys[k] = NoKey /\ now < expiry /\ now - lastRefresh < RefreshCooldown
  BY DEF RefuseUnknown, Lookup, Fresh, RefreshedJustNow
<1>2. /\ now \in Nat /\ expiry \in Nat /\ lastRefresh \in Nat
      /\ SaidSince(k, NoKey, lastRefresh - FetchTimeout)
  BY <1>1 DEF CoreInv, TypeOK, CacheInv
<1>3. /\ lastRefresh - FetchTimeout \in Int /\ UnknownLag \in Nat
      /\ now - (lastRefresh - FetchTimeout) < UnknownLag
  BY <1>1, <1>2, Durations DEF UnknownLag
<1>4. Dir!Said(k, NoKey, UnknownLag)
  BY <1>1, <1>2, <1>3, Names, SaidLately DEF CoreInv
<1> QED
  BY <1>1, <1>4, AllowedUnknown, NamesDistinct, ReturnAnswers DEF RefuseUnknown

\* So is the answer from a document just installed.
LEMMA SucceedAnswers ==
  ASSUME CoreInv, NEW c \in Caller, Succeed(c)
  PROVE  Dir!Answer(c)
<1> DEFINE q == ask[c]
<1>1. /\ reply \in Document /\ q \in Kid \cup {"refresh"}
      /\ mu = c /\ mu # NoCaller /\ pc[mu] = "fetching"
  BY RefreshingAsk DEF Succeed, Answered, CoreInv, TypeOK
<1>2. /\ now \in Nat /\ timer \in Nat
      /\ timer - FetchTimeout \in Int /\ KeyLag \in Nat /\ UnknownLag \in Nat
      /\ now <= timer
      /\ now - (timer - FetchTimeout) < KeyLag
      /\ now - (timer - FetchTimeout) < UnknownLag
  <2>1. now \in Nat /\ timer \in Nat /\ now <= timer
    BY <1>1 DEF CoreInv, TypeOK, RefreshInv
  <2> QED
    BY <2>1, Durations DEF KeyLag, UnknownLag
<1>3. ASSUME q \in Kid
      PROVE  Resolve(q, reply) \in Dir!Allowed(q)
  <2>1. SaidSince(q, reply[q], timer - FetchTimeout)
    BY <1>1, <1>3 DEF Succeed, Answered, CoreInv, RefreshInv
  <2>2. reply[q] \in Value /\ (reply[q] # NoKey => reply[q] \in Key)
    BY <1>1, <1>3, DocumentValue
  <2>3. Dir!Said(q, reply[q], KeyLag) /\ Dir!Said(q, reply[q], UnknownLag)
    BY <1>2, <1>3, <2>1, <2>2, SaidLately DEF CoreInv
  <2>4. q # "refresh"
    BY <1>3, NamesDistinct
  <2>5. CASE reply[q] = NoKey
    BY <1>3, <2>3, <2>4, <2>5, AllowedUnknown DEF Resolve
  <2>6. CASE reply[q] # NoKey
    BY <1>3, <2>2, <2>3, <2>4, <2>6, AllowedKey DEF Resolve
  <2> QED
    BY <2>5, <2>6
<1>4. ASSUME q = "refresh"
      PROVE  Resolve(q, reply) \in Dir!Allowed(q)
  BY <1>4, NamesDistinct DEF Resolve, Dir!Allowed
<1> QED
  BY <1>1, <1>3, <1>4, NamesDistinct, ReturnAnswers DEF Succeed

\* So are a refused call without kid, a held off lookup and a failed refresh.
LEMMA RefusalAnswers ==
  ASSUME CoreInv, NEW c \in Caller, RejectNoKid(c) \/ HoldOff(c) \/ GiveUp(c)
  PROVE  Dir!Answer(c)
<1>1. CASE RejectNoKid(c)
  <2>1. "missing kid" \in Dir!Allowed("no kid")
    BY NamesDistinct DEF Dir!Allowed
  <2> QED
    BY <1>1, <2>1, ReturnAnswers DEF RejectNoKid
<1>2. CASE HoldOff(c)
  BY <1>2, NamesDistinct, AllowedUnavailable, ReturnAnswers DEF HoldOff, Lookup
<1>3. CASE GiveUp(c)
  <2>1. ask[c] \in Kid \cup {"refresh"}
    BY <1>3, RefreshingAsk DEF GiveUp
  <2> QED
    BY <1>3, <2>1, NamesDistinct, AllowedUnavailable, ReturnAnswers DEF GiveUp
<1> QED
  BY <1>1, <1>2, <1>3

\* The initial states are the directory's.
LEMMA InitRefines == Init => Dir!Init
  BY DEF Init, Dir!Init, Document, Value

\* Every step is a step of the directory or leaves it alone.
LEMMA NextRefines == CoreInv /\ [Next]_vars => [Dir!Next]_Dir!vars
<1> SUFFICES ASSUME CoreInv, [Next]_vars PROVE Dir!Next \/ UNCHANGED Dir!vars
  OBVIOUS
<1>1. CASE UNCHANGED vars
  BY <1>1 DEF vars, env, calls, Dir!vars
<1>2. CASE Tick
  BY <1>2 DEF Tick, env, calls, Dir!Next, Dir!Tick
<1>3. CASE \E doc \in Document : Publish(doc)
  BY <1>3 DEF Publish, Document, Dir!Next
<1>4. ASSUME NEW c \in Caller, NEW q \in Dir!Question, Call(c, q)
      PROVE  Dir!Next
  <2>1. ask[c] = "nothing"
    BY <1>4 DEF Call, CoreInv, LockInv
  <2>2. Dir!Ask(c, q)
    BY <1>4, <2>1 DEF Call, env, Dir!Ask
  <2> QED
    BY <2>2 DEF Dir!Next
<1>5. ASSUME NEW c \in Caller,
             \/ Cancel(c) \/ BeginRefresh(c) \/ OriginReplies(c)
             \/ AwaitRetry(c) \/ Retry(c)
      PROVE  UNCHANGED Dir!vars
  BY <1>5 DEF Cancel, BeginRefresh, OriginReplies, AwaitRetry, Retry, env, calls, Dir!vars
<1>6. ASSUME NEW c \in Caller,
             \/ RejectNoKid(c) \/ Hit(c) \/ RefuseUnknown(c)
             \/ HoldOff(c) \/ Succeed(c) \/ GiveUp(c)
      PROVE  Dir!Next
  <2>1. Dir!Answer(c)
    BY <1>6, HitAnswers, RefuseUnknownAnswers, SucceedAnswers, RefusalAnswers
  <2> QED
    BY <2>1 DEF Dir!Next
<1> QED
  BY <1>1, <1>2, <1>3, <1>4, <1>5, <1>6 DEF Next, Enter, Refreshing

\* jwks.Cache keeps KeyDirectory's promise for every set of callers and kids and
\* all durations: a withdrawn key outlives its withdrawal by less than CacheTTL
\* + FetchTimeout, a published kid is unknown for less than RefreshCooldown +
\* FetchTimeout.
THEOREM CacheImplementsDirectory == Spec => AnswersFollowOrigin
<1>1. Init => Dir!Init
  BY InitRefines
<1>2. CoreInv /\ [Next]_vars => [Dir!Next]_Dir!vars
  BY NextRefines
<1> QED
  BY <1>1, <1>2, CacheCore, PTL DEF Spec, Dir!Spec, AnswersFollowOrigin

-----------------------------------------------------------------------------
(* The rate limits. *)

\* Every step keeps the record of the last refresh in line with the cache.
LEMMA SettledStep == CoreInv /\ SettledInv /\ [Next]_vars => SettledInv'
<1> SUFFICES ASSUME CoreInv, SettledInv, [Next]_vars PROVE SettledInv'
  OBVIOUS
<1>1. now \in Nat /\ now > 0 /\ settled.at \in Nat /\ CacheTTL \in Nat /\ CacheTTL > 0
  BY Durations DEF CoreInv, TypeOK, Record
<1>2. ASSUME now' = now \/ now' = now + 1, UNCHANGED cache
      PROVE  SettledInv'
  BY <1>1, <1>2 DEF SettledInv, cache
<1>3. ASSUME NEW c \in Caller, Succeed(c)
      PROVE  SettledInv'
  <2>1. /\ settled'.at = now /\ settled'.ok = TRUE /\ settled'.gone = FALSE
        /\ lastFailure' = 0 /\ lastRefresh' = now /\ expiry' = now + CacheTTL
        /\ now' = now
    BY <1>3 DEF Succeed, Install, Good
  <2> QED
    BY <1>1, <2>1 DEF SettledInv
<1>4. ASSUME NEW c \in Caller, GiveUp(c), ~cancelled[c]
      PROVE  SettledInv'
  <2>1. /\ settled'.at = now /\ settled'.ok = FALSE /\ settled'.gone = FALSE
        /\ lastFailure' = now /\ now' = now
    BY <1>4 DEF GiveUp, RecordFailure, Failed, CoreInv, TypeOK
  <2> QED
    BY <1>1, <2>1 DEF SettledInv
<1>5. ASSUME NEW c \in Caller, GiveUp(c), cancelled[c]
      PROVE  SettledInv'
  BY <1>2, <1>5 DEF GiveUp, RecordFailure
<1>6. CASE UNCHANGED vars
  BY <1>2, <1>6 DEF vars
<1>7. CASE Tick
  BY <1>2, <1>7 DEF Tick
<1>8. ASSUME NEW doc \in Document, Publish(doc)
      PROVE  SettledInv'
  BY <1>2, <1>8 DEF Publish, Dir!Publish
<1>9. ASSUME NEW c \in Caller,
             \/ \E q \in Dir!Question : Call(c, q)
             \/ Cancel(c) \/ RejectNoKid(c) \/ Enter(c)
             \/ OriginReplies(c) \/ AwaitRetry(c) \/ Retry(c)
      PROVE  SettledInv'
  BY <1>2, <1>9 DEF Call, Cancel, RejectNoKid, Enter, Hit, RefuseUnknown,
     HoldOff, BeginRefresh, OriginReplies, AwaitRetry, Retry
<1> QED
  BY <1>3, <1>4, <1>5, <1>6, <1>7, <1>8, <1>9 DEF Next, Refreshing

\* lastRefresh, expiry and lastFailure tell when and how the last recorded
\* refresh ended (refreshOnce, fetchLocked).
THEOREM CacheSettled == Spec => []SettledInv
<1>1. Init => SettledInv
  BY Durations DEF Init, SettledInv, Good
<1> QED
  BY <1>1, SettledStep, CacheCore, PTL DEF Spec

\* Only BeginRefresh takes a call from waiting to fetching.
LEMMA OnlyBeginRefresh ==
  ASSUME CoreInv, [Next]_vars, NEW c \in Caller, pc[c] = "called", pc'[c] = "fetching"
  PROVE  BeginRefresh(c)
<1> USE DEF CoreInv, TypeOK
<1>1. pc' # pc
  OBVIOUS
<1>2. CASE Tick \/ \E doc \in Document : Publish(doc)
  BY <1>1, <1>2 DEF Tick, Publish, calls
<1>3. ASSUME NEW d \in Caller,
             \/ \E q \in Dir!Question : Call(d, q)
             \/ Cancel(d) \/ RejectNoKid(d) \/ Enter(d)
             \/ OriginReplies(d) \/ Refreshing(d),
             d # c
      PROVE  pc'[c] = pc[c]
  BY <1>3 DEF Call, Cancel, RejectNoKid, Enter, Hit, RefuseUnknown, HoldOff,
     BeginRefresh, OriginReplies, Refreshing, Succeed, AwaitRetry, Retry,
     GiveUp, Return, calls
<1>4. ASSUME \/ \E q \in Dir!Question : Call(c, q)
             \/ Cancel(c) \/ RejectNoKid(c) \/ Enter(c)
             \/ OriginReplies(c) \/ Refreshing(c)
      PROVE  BeginRefresh(c)
  BY <1>4 DEF Call, Cancel, RejectNoKid, Enter, Hit, RefuseUnknown, HoldOff,
     OriginReplies, Refreshing, Succeed, AwaitRetry, Retry,
     GiveUp, Return, calls
<1>5. CASE UNCHANGED vars
  BY <1>1, <1>5 DEF vars, calls
<1> QED
  BY <1>2, <1>3, <1>4, <1>5 DEF Next

\* A lookup's refresh keeps the rate limits of Cache.Key for all durations.
THEOREM CacheOriginSpared == Spec => OriginSpared
<1> DEFINE quiet == now - settled.at
           Spared(c) == pc[c] = "called" /\ pc'[c] = "fetching" /\ ask[c] \in Kid =>
                          IF settled.ok
                          THEN quiet >= CacheTTL \/ quiet >= RefreshCooldown
                          ELSE quiet >= FailureCooldown
<1>1. ASSUME CoreInv, SettledInv, [Next]_vars, NEW c \in Caller
      PROVE  Spared(c)
  <2> SUFFICES ASSUME pc[c] = "called", pc'[c] = "fetching", ask[c] \in Kid
               PROVE  IF settled.ok
                      THEN quiet >= CacheTTL \/ quiet >= RefreshCooldown
                      ELSE quiet >= FailureCooldown
    OBVIOUS
  <2>1. Misses(c) /\ ~FailedJustNow
    BY <1>1, OnlyBeginRefresh, NamesDistinct DEF BeginRefresh
  <2>2. /\ now \in Nat /\ now >= CacheTTL /\ settled.at \in Nat
        /\ lastRefresh \in Nat /\ lastFailure \in Nat /\ expiry \in Nat
    BY <1>1, ClockStartsLate, Durations DEF CoreInv, TypeOK, KeyLag, Record
  <2>3. CASE settled.ok
    <3>1. CASE expiry = 0
      BY <1>1, <2>2, <2>3, <3>1, Durations DEF SettledInv
    <3>2. CASE expiry # 0
      <4>1. settled.at = lastRefresh /\ expiry = lastRefresh + CacheTTL
        BY <1>1, <2>3, <3>2 DEF SettledInv, CoreInv, CacheInv
      <4>2. now >= expiry \/ now - lastRefresh >= RefreshCooldown
        BY <2>1, <2>2, Durations DEF Misses, Fresh, RefreshedJustNow
      <4> QED
        BY <2>2, <2>3, <4>1, <4>2, Durations
    <3> QED
      BY <3>1, <3>2
  <2>4. CASE ~settled.ok
    BY <1>1, <2>1, <2>2, <2>4, Durations DEF SettledInv, FailedJustNow
  <2> QED
    BY <2>3, <2>4
<1>2. CoreInv /\ SettledInv /\ [Next]_vars => \A c \in Caller : Spared(c)
  BY <1>1
<1> QED
  BY <1>2, CacheCore, CacheSettled, PTL DEF Spec, OriginSpared

\* Only HoldOff gives the answer of the failure cooldown.
LEMMA OnlyHoldOff ==
  ASSUME CoreInv, [Next]_vars, NEW c \in Caller,
         answer'[c] = "held off", answer[c] # "held off"
  PROVE  HoldOff(c)
<1> USE DEF CoreInv, TypeOK
<1>1. "held off" \notin Key
  BY NamesDistinct DEF Dir!Outcome, Dir!Unavailable
<1>2. CASE Tick \/ (\E doc \in Document : Publish(doc)) \/ UNCHANGED vars
  BY <1>2 DEF Tick, Publish, Dir!Publish, vars, calls
<1>3. ASSUME NEW d \in Caller,
             \/ \E q \in Dir!Question : Call(d, q)
             \/ Cancel(d) \/ RejectNoKid(d) \/ Enter(d)
             \/ OriginReplies(d) \/ AwaitRetry(d) \/ Retry(d) \/ GiveUp(d)
      PROVE  HoldOff(c)
  <2>1. ASSUME Hit(d)
        PROVE  keys[ask[d]] \in Key
    BY <2>1, DocumentValue DEF Hit, Lookup
  <2>2. d = c
    BY <1>3 DEF Call, Cancel, RejectNoKid, Enter, Hit, RefuseUnknown, HoldOff,
       BeginRefresh, OriginReplies, AwaitRetry, Retry, GiveUp, Return, calls
  <2> QED
    <3>1. ~Hit(d)
      <4> SUFFICES ASSUME Hit(d) PROVE FALSE
        OBVIOUS
      <4>1. answer' = [answer EXCEPT ![c] = keys[ask[d]]]
        BY <2>2 DEF Hit, Return
      <4>2. answer'[c] = keys[ask[d]]
        BY <4>1
      <4> QED
        BY <1>1, <2>1, <4>2
    <3> QED
      BY <1>3, <2>2, <3>1 DEF Call, Cancel, RejectNoKid, Enter,
         RefuseUnknown, BeginRefresh, OriginReplies, AwaitRetry, Retry, GiveUp,
         Return, calls
<1>4. ASSUME NEW d \in Caller, Succeed(d)
      PROVE  FALSE
  <2>1. reply \in Document /\ ask[d] \in Kid \cup {"refresh"}
    BY <1>4, RefreshingAsk DEF Succeed, Answered
  <2>2. Resolve(ask[d], reply) # "held off"
    <3>1. CASE ask[d] = "refresh"
      BY <3>1 DEF Resolve
    <3>2. CASE ask[d] # "refresh"
      <4>1. ask[d] \in Kid
        BY <2>1, <3>2
      <4>2. reply[ask[d]] # NoKey => reply[ask[d]] \in Key
        BY <2>1, <4>1, DocumentValue
      <4>3. Resolve(ask[d], reply) \in Key \cup {"unknown"}
        BY <3>2, <4>2 DEF Resolve
      <4> QED
        BY <1>1, <4>3
    <3> QED
      BY <3>1, <3>2
  <2> QED
    BY <1>4, <2>2 DEF Succeed, Return
<1> QED
  BY <1>2, <1>3, <1>4 DEF Next, Refreshing

\* Cache.Key refuses for the failure cooldown only while the last recorded refresh
\* is a failure of less than FailureCooldown ago whose caller was still there, for
\* all durations.
THEOREM CacheHeldOffForCause == Spec => HeldOffForCause
<1> DEFINE ForCause(c) == answer'[c] = "held off" /\ answer[c] # "held off" =>
                            ~settled.ok /\ ~settled.gone /\ now - settled.at < FailureCooldown
<1>1. ASSUME CoreInv, SettledInv, [Next]_vars, NEW c \in Caller
      PROVE  ForCause(c)
  <2> SUFFICES ASSUME answer'[c] = "held off", answer[c] # "held off"
               PROVE  /\ ~settled.ok /\ ~settled.gone
                      /\ now - settled.at < FailureCooldown
    OBVIOUS
  <2>1. FailedJustNow
    BY <1>1, OnlyHoldOff DEF HoldOff
  <2> QED
    BY <1>1, <2>1 DEF FailedJustNow, SettledInv
<1>2. CoreInv /\ SettledInv /\ [Next]_vars => \A c \in Caller : ForCause(c)
  BY <1>1
<1> QED
  BY <1>2, CacheCore, CacheSettled, PTL DEF Spec, HeldOffForCause
-----------------------------------------------------------------------------
(* How long the mutex is held.  Backoffs is recursive, and what it is is     *)
(* shown by induction on the naturals, in the form of the least number that  *)
(* a nonempty set of them has.                                               *)

\* A nonempty set of natural numbers has a least one.
LEMMA LeastNumber ==
  ASSUME NEW T, T \subseteq Nat, T # {}
  PROVE  \E x \in T : \A y \in T : x <= y
<1> DEFINE Less == {ss \in Nat \X Nat : ss[1] < ss[2]}
<1>1. IsWellFoundedOn(Less, Nat)
  BY NatLessThanWellFounded DEF OpToRel
<1> HIDE DEF Less
<1>2. PICK x \in T : \A y \in T : ~(<<y, x>> \in Less)
  BY <1>1, WFMin
<1>3. \A y \in T : ~(y < x)
  BY <1>2 DEF Less
<1> QED
  BY <1>3

\* What holds of 0 and of a number after each that it holds of, holds of them all.
LEMMA Inductive ==
  ASSUME NEW S, 0 \in S, \A n \in Nat : n \in S => n + 1 \in S
  PROVE  Nat \subseteq S
<1> SUFFICES ASSUME Nat \ S # {} PROVE FALSE
  OBVIOUS
<1>1. PICK x \in Nat \ S : \A y \in Nat \ S : x <= y
  BY LeastNumber
<1>2. x # 0 /\ x - 1 \in Nat /\ x - 1 \in S
  BY <1>1
<1> QED
  BY <1>1, <1>2

\* There is a function that adds up the first n backoffs, for any n.
LEMMA BackoffsExist ==
  \E f : f = [n \in 0..Len(RetryBackoff) |->
                IF n = 0 THEN 0 ELSE f[n - 1] + RetryBackoff[n]]
<1> DEFINE Adds(f, m) == f = [n \in 0..m |-> IF n = 0 THEN 0 ELSE f[n - 1] + RetryBackoff[n]]
           S == {m \in Nat : \E f : Adds(f, m)}
<1>1. 0 \in S
  <2>1. Adds([n \in 0..0 |-> 0], 0)
    OBVIOUS
  <2> QED
    BY <2>1
<1>2. ASSUME NEW m \in Nat, m \in S PROVE m + 1 \in S
  <2>1. PICK f : Adds(f, m)
    BY <1>2
  <2> DEFINE g == [n \in 0..(m + 1) |-> IF n = m + 1 THEN f[m] + RetryBackoff[m + 1] ELSE f[n]]
             h == [n \in 0..(m + 1) |-> IF n = 0 THEN 0 ELSE g[n - 1] + RetryBackoff[n]]
  <2>2. ASSUME NEW n \in 0..(m + 1) PROVE g[n] = h[n]
    <3>1. CASE n = m + 1
      <4>1. n # 0 /\ n - 1 = m /\ m \in 0..(m + 1) /\ m # m + 1
        BY <3>1
      <4> QED
        BY <3>1, <4>1
    <3>2. CASE n # m + 1
      <4>1. n \in 0..m /\ g[n] = f[n]
        BY <3>2
      <4>2. f[n] = IF n = 0 THEN 0 ELSE f[n - 1] + RetryBackoff[n]
        BY <2>1, <4>1
      <4>3. n # 0 => n - 1 \in 0..(m + 1) /\ n - 1 # m + 1
        BY <4>1
      <4> QED
        BY <4>1, <4>2, <4>3
    <3> QED
      BY <3>1, <3>2
  <2>3. g = h
    BY <2>2
  <2>4. Adds(g, m + 1)
    BY <2>3
  <2> HIDE DEF g, Adds
  <2> QED
    BY <2>4
<1>3. Len(RetryBackoff) \in S
  <2> HIDE DEF S
  <2> QED
    BY <1>1, <1>2, Inductive, LenNat
<1> QED
  BY <1>3

\* Each backoff adds to those before it.
LEMMA BackoffsAdd ==
  /\ Backoffs[0] = 0
  /\ \A n \in 1..Len(RetryBackoff) : Backoffs[n] = Backoffs[n - 1] + RetryBackoff[n]
<1>1. Backoffs = [n \in 0..Len(RetryBackoff) |->
                   IF n = 0 THEN 0 ELSE Backoffs[n - 1] + RetryBackoff[n]]
  BY BackoffsExist DEF Backoffs
<1> QED
  BY <1>1, LenNat

\* So the backoffs together are a natural number of ticks, ...
LEMMA BackoffsNat == \A n \in 0..Len(RetryBackoff) : Backoffs[n] \in Nat
<1> DEFINE S == {n \in Nat : n <= Len(RetryBackoff) => Backoffs[n] \in Nat}
<1>1. 0 \in S
  BY BackoffsAdd
<1>2. ASSUME NEW n \in Nat, n \in S PROVE n + 1 \in S
  <2> SUFFICES ASSUME n + 1 <= Len(RetryBackoff) PROVE Backoffs[n + 1] \in Nat
    OBVIOUS
  <2>1. n + 1 \in 1..Len(RetryBackoff) /\ n <= Len(RetryBackoff)
    BY LenNat
  <2>2. Backoffs[n + 1] = Backoffs[n] + RetryBackoff[n + 1]
    BY <2>1, BackoffsAdd
  <2>3. RetryBackoff[n + 1] \in Nat
    BY <2>1, BackoffNat
  <2> QED
    BY <1>2, <2>1, <2>2, <2>3
<1>3. Nat \subseteq S
  <2> HIDE DEF S
  <2> QED
    BY <1>1, <1>2, Inductive
<1> QED
  BY <1>3, LenNat

\* ... and the more the more attempts are made.
LEMMA BackoffsGrow == \A n \in 0..Len(RetryBackoff) : Backoffs[n] <= Backoffs[Len(RetryBackoff)]
<1> DEFINE N == Len(RetryBackoff)
           S == {d \in Nat : d <= N => Backoffs[N - d] <= Backoffs[N]}
<1>1. 0 \in S
  BY BackoffsNat, LenNat
<1>2. ASSUME NEW d \in Nat, d \in S PROVE d + 1 \in S
  <2> SUFFICES ASSUME d + 1 <= N PROVE Backoffs[N - (d + 1)] <= Backoffs[N]
    OBVIOUS
  <2>1. PICK n : n = N - d
    OBVIOUS
  <2>2. n \in 1..N /\ n - 1 \in 0..N /\ n \in 0..N /\ N \in 0..N /\ N - (d + 1) = n - 1
    BY <2>1, LenNat
  <2>3. Backoffs[n] = Backoffs[n - 1] + RetryBackoff[n]
    BY <2>2, BackoffsAdd
  <2>4. RetryBackoff[n] \in Nat
    BY <2>2, BackoffNat
  <2>5. Backoffs[n] <= Backoffs[N]
    BY <1>2, <2>1, LenNat
  <2>6. Backoffs[n] \in Nat /\ Backoffs[n - 1] \in Nat /\ Backoffs[N] \in Nat
    BY <2>2, BackoffsNat
  <2> QED
    BY <2>2, <2>3, <2>4, <2>5, <2>6
<1>3. Nat \subseteq S
  <2> HIDE DEF S
  <2> QED
    BY <1>1, <1>2, Inductive
<1>4. ASSUME NEW n \in 0..N PROVE Backoffs[n] <= Backoffs[N]
  <2>1. N - n \in Nat /\ N - n <= N /\ N - (N - n) = n
    BY LenNat
  <2>2. N - n \in S
    BY <1>3, <2>1
  <2> QED
    BY <2>1, <2>2
<1> QED
  BY <1>4

\* One more attempt takes one more timeout at the most.
LEMMA TimeoutsAdd ==
  /\ 1 * FetchTimeout = FetchTimeout
  /\ \A n \in Nat : /\ n * FetchTimeout \in Nat
                    /\ (n + 1) * FetchTimeout = n * FetchTimeout + FetchTimeout
                    /\ \A m \in Nat : n <= m => n * FetchTimeout <= m * FetchTimeout
<1>1. FetchTimeout \in Nat
  BY Durations
<1> QED
  BY <1>1

\* Every step keeps the deadline within what the attempts so far allow.
LEMMA HoldStep == CoreInv /\ HoldInv /\ [Next]_vars => HoldInv'
<1> SUFFICES ASSUME CoreInv, HoldInv, [Next]_vars PROVE HoldInv'
  OBVIOUS
<1>1. /\ now \in Nat /\ timer \in Nat /\ lockedAt \in Nat /\ attempt \in Nat
      /\ FetchTimeout \in Nat
  BY LenNat, Durations DEF CoreInv, TypeOK
<1>2. ASSUME UNCHANGED <<mu, timer, lockedAt, attempt>>, mu # NoCaller => pc'[mu] = pc[mu]
      PROVE  HoldInv'
  BY <1>2 DEF HoldInv
<1>3. ASSUME Unlock
      PROVE  HoldInv'
  BY <1>3 DEF HoldInv, Unlock
<1>4. ASSUME NEW c \in Caller, BeginRefresh(c)
      PROVE  HoldInv'
  <2>1. /\ attempt' = 1 /\ timer' = now + FetchTimeout /\ lockedAt' = now
        /\ mu' = c /\ pc'[c] = "fetching"
    BY <1>4 DEF BeginRefresh, CoreInv, TypeOK
  <2>2. Backoffs[1 - 1] = 0 /\ 1 * FetchTimeout = FetchTimeout
    BY BackoffsAdd, TimeoutsAdd
  <2> QED
    BY <1>1, <2>1, <2>2 DEF HoldInv
<1>5. ASSUME NEW c \in Caller, AwaitRetry(c)
      PROVE  HoldInv'
  <2>1. mu = c /\ mu # NoCaller /\ attempt >= 1 /\ attempt <= Len(RetryBackoff)
        /\ now <= timer /\ pc[c] = "fetching"
    BY <1>5, RefreshingAsk DEF AwaitRetry, CoreInv, RefreshInv, RetriesLeft
  <2>2. /\ timer' = now + RetryBackoff[attempt] /\ attempt' = attempt
        /\ lockedAt' = lockedAt /\ mu' = mu /\ pc'[c] = "backoff"
    BY <1>5 DEF AwaitRetry, CoreInv, TypeOK
  <2>3. timer <= lockedAt + attempt * FetchTimeout + Backoffs[attempt - 1]
    BY <2>1 DEF HoldInv
  <2>4. /\ Backoffs[attempt] = Backoffs[attempt - 1] + RetryBackoff[attempt]
        /\ Backoffs[attempt - 1] \in Nat /\ RetryBackoff[attempt] \in Nat
        /\ attempt * FetchTimeout \in Nat
    BY <1>1, <2>1, LenNat, BackoffsAdd, BackoffsNat, BackoffNat, TimeoutsAdd
  <2>5. ASSUME NEW spent \in Nat, NEW before \in Nat, NEW wait \in Nat,
               timer <= lockedAt + spent + before
        PROVE  now + wait <= lockedAt + spent + (before + wait)
    BY <1>1, <2>1, <2>5
  <2>6. now + RetryBackoff[attempt] <= lockedAt + attempt * FetchTimeout
                                         + (Backoffs[attempt - 1] + RetryBackoff[attempt])
    BY <2>3, <2>4, <2>5
  <2>7. timer' <= lockedAt + attempt * FetchTimeout + Backoffs[attempt]
    BY <2>2, <2>4, <2>6
  <2> QED
    BY <2>1, <2>2, <2>7 DEF HoldInv
<1>6. ASSUME NEW c \in Caller, Retry(c)
      PROVE  HoldInv'
  <2>1. mu = c /\ mu # NoCaller /\ attempt <= Len(RetryBackoff) /\ pc[c] = "backoff"
    BY <1>6, RefreshingAsk DEF Retry, CoreInv, RefreshInv
  <2>2. /\ timer' = timer + FetchTimeout /\ attempt' = attempt + 1
        /\ lockedAt' = lockedAt /\ mu' = mu /\ pc'[c] = "fetching"
    BY <1>6 DEF Retry, CoreInv, TypeOK
  <2>3. timer <= lockedAt + attempt * FetchTimeout + Backoffs[attempt]
    BY <2>1 DEF HoldInv
  <2>4. /\ (attempt + 1) * FetchTimeout = attempt * FetchTimeout + FetchTimeout
        /\ attempt * FetchTimeout \in Nat
        /\ Backoffs[attempt] \in Nat /\ (attempt + 1) - 1 = attempt
    BY <1>1, <2>1, LenNat, BackoffsNat, TimeoutsAdd
  <2>5. timer' <= lockedAt + attempt' * FetchTimeout + Backoffs[attempt' - 1]
    BY <1>1, <2>2, <2>3, <2>4
  <2> QED
    BY <2>1, <2>2, <2>5 DEF HoldInv
<1>7. CASE UNCHANGED vars \/ Tick \/ \E doc \in Document : Publish(doc)
  BY <1>2, <1>7 DEF vars, refreshing, calls, Tick, Publish
<1>8. ASSUME NEW c \in Caller,
             \/ \E q \in Dir!Question : Call(c, q)
             \/ RejectNoKid(c) \/ Hit(c) \/ RefuseUnknown(c) \/ HoldOff(c)
      PROVE  HoldInv'
  <2>1. mu # c
    BY <1>8, RefreshingAsk DEF CoreInv, LockInv, Call, RejectNoKid, Hit, RefuseUnknown,
       HoldOff, Lookup, MayEnter
  <2>2. UNCHANGED <<mu, refreshing>> /\ \E p : pc' = [pc EXCEPT ![c] = p]
    BY <1>8 DEF Call, RejectNoKid, Hit, RefuseUnknown, HoldOff, Return
  <2> QED
    BY <1>2, <2>1, <2>2 DEF refreshing, CoreInv, TypeOK
<1>9. ASSUME NEW c \in Caller, Cancel(c) \/ OriginReplies(c)
      PROVE  HoldInv'
  BY <1>2, <1>9 DEF Cancel, OriginReplies, refreshing, calls
<1>10. ASSUME NEW c \in Caller, Succeed(c) \/ GiveUp(c)
       PROVE  HoldInv'
  BY <1>3, <1>10 DEF Succeed, GiveUp
<1> QED
  BY <1>4, <1>5, <1>6, <1>7, <1>8, <1>9, <1>10 DEF Next, Enter, Refreshing
-----------------------------------------------------------------------------
\* The inductive invariant holds in every reachable state.  It says that one
\* caller at a time refreshes (jwks.Cache.mu held across fetchLocked), that an
\* attempt is within its timeout and the refresh within those of its attempts, that
\* the cached document is one the gateway published at most FetchTimeout before its
\* lastRefresh stamp, and that the stamps record how the last refresh ended.
THEOREM CacheConsistent == Spec => []IInv
<1>1. Init => HoldInv
  BY DEF Init, HoldInv
<1> QED
  BY <1>1, HoldStep, CacheCore, CacheSettled, PTL DEF Spec, IInv

\* For all durations and any number of retries, the mutex is held by one refresh for
\* no longer than its attempts' timeouts and its backoffs together.
THEOREM CacheLockHoldBounded == Spec => []LockHoldBounded
<1>1. IInv => LockHoldBounded
  <2> SUFFICES ASSUME IInv, mu # NoCaller
               PROVE  now - lockedAt <= (Len(RetryBackoff) + 1) * FetchTimeout
                                          + Backoffs[Len(RetryBackoff)]
    BY DEF LockHoldBounded
  <2>1. /\ now \in Nat /\ timer \in Nat /\ lockedAt \in Nat
        /\ attempt \in Nat /\ attempt <= Len(RetryBackoff) + 1
        /\ mu \in Caller
    BY LenNat DEF IInv, CoreInv, TypeOK
  <2>2. /\ now <= timer /\ attempt >= 1 /\ pc[mu] \in {"fetching", "backoff"}
        /\ pc[mu] = "backoff" => attempt <= Len(RetryBackoff)
    BY <2>1 DEF IInv, CoreInv, RefreshInv, LockInv
  <2>3. attempt * FetchTimeout <= (Len(RetryBackoff) + 1) * FetchTimeout
    BY <2>1, LenNat, TimeoutsAdd
  <2>4. PICK n \in 0..Len(RetryBackoff) :
          timer <= lockedAt + attempt * FetchTimeout + Backoffs[n]
    <3>1. CASE pc[mu] = "fetching"
      <4>1. attempt - 1 \in 0..Len(RetryBackoff)
        BY <2>1, <2>2, LenNat
      <4> QED
        BY <3>1, <4>1 DEF IInv, HoldInv
    <3>2. CASE pc[mu] = "backoff"
      <4>1. attempt \in 0..Len(RetryBackoff)
        BY <2>1, <2>2, <3>2, LenNat
      <4> QED
        BY <3>2, <4>1 DEF IInv, HoldInv
    <3> QED
      BY <2>2, <3>1, <3>2
  <2>5. Backoffs[n] <= Backoffs[Len(RetryBackoff)]
    BY BackoffsGrow
  <2>6. /\ attempt * FetchTimeout \in Nat /\ (Len(RetryBackoff) + 1) * FetchTimeout \in Nat
        /\ Backoffs[n] \in Nat /\ Backoffs[Len(RetryBackoff)] \in Nat
    BY <2>1, LenNat, TimeoutsAdd, BackoffsNat
  <2> QED
    BY <2>1, <2>2, <2>3, <2>4, <2>5, <2>6
<1> QED
  BY <1>1, CacheConsistent, PTL
=============================================================================
