------------------------------ MODULE JwksCache ------------------------------
(***************************************************************************)
(* jwks.Cache (jwks/cache.go): the verifier's view of the gateway's public *)
(* keys.  One mutex guards the cached document and is held across a whole  *)
(* refresh: every attempt, every backoff between attempts.                 *)
(*                                                                         *)
(* Time is a clock in ticks; 0 is Go's zero time.  A step at one instant   *)
(* takes no time, so only the network and the backoff let it pass.  The    *)
(* origin, the network and the callers' contexts are the environment: the  *)
(* document changes at any moment, an attempt may fail at any moment and   *)
(* the caller may be cancelled at any moment.                              *)
(***************************************************************************)
EXTENDS Integers, Sequences

CONSTANTS Caller, Kid, Key,
          NoKey,            \* a kid no key is known for
          NoCaller,         \* nobody holds the mutex
          NoReply,          \* the attempt has no response yet
          CacheTTL, RefreshCooldown, FailureCooldown, FetchTimeout,
          RetryBackoff,     \* the wait before each retry, a sequence
          Epoch,            \* the instant the process starts at
          MaxTime           \* BOUND: no call starts at or after this instant

VARIABLES
  now, origin, until,       \* the environment, as in KeyDirectory
  mu,                       \* the caller that holds Cache.mu, or NoCaller
  keys, expiry,             \* the cached document and when it stops being served
  lastRefresh, lastFailure,
  attempt,                  \* which attempt of the refresh is under way, from 1
  timer,                    \* its deadline, or the end of the backoff
  reply,                    \* the document its response carries, or NoReply
  pc, ask, cancelled,       \* each caller's control point, question and context
  answer,
  settled,                  \* HISTORY: the last recorded refresh, as in Record
  lockedAt                  \* HISTORY: when the mutex was last taken for a refresh

env == <<origin, until>>
cache == <<keys, expiry, lastRefresh, lastFailure, settled>>
refreshing == <<attempt, timer, reply, lockedAt>>
calls == <<pc, ask, cancelled, answer>>
vars == <<now, env, mu, cache, refreshing, calls>>

\* the first n backoffs together
Backoffs[n \in 0..Len(RetryBackoff)] ==
  IF n = 0 THEN 0 ELSE Backoffs[n - 1] + RetryBackoff[n]

KeyLag == CacheTTL + FetchTimeout
UnknownLag == RefreshCooldown + FetchTimeout

Dir == INSTANCE KeyDirectory
Value == Dir!Value
Document == Dir!Document

ASSUME DurationsPositive ==
  /\ {CacheTTL, RefreshCooldown, FailureCooldown, FetchTimeout} \subseteq Nat \ {0}
  /\ RetryBackoff \in Seq(Nat)

ASSUME ClockStartsLate ==
  /\ {Epoch, MaxTime} \subseteq Nat
  /\ Epoch >= KeyLag /\ Epoch >= UnknownLag /\ Epoch > 0

ASSUME NamesDistinct ==
  /\ NoKey \notin Key
  /\ NoCaller \notin Caller
  /\ NoReply \notin Document
  /\ Key \cap Dir!Outcome = {}
  /\ Kid \cap {"no kid", "refresh", "nothing"} = {}

\* HISTORY: when a recorded refresh ended, whether it succeeded, and whether its
\* caller had gone by then
Record == [at : Nat, ok : BOOLEAN, gone : BOOLEAN]
Good(t) == [at |-> t, ok |-> TRUE, gone |-> FALSE]
Failed(c) == [at |-> now, ok |-> FALSE, gone |-> cancelled[c]]

\* Documents, instants and control points are what the code's types allow; an
\* attempt is one of the first or of the configured retries.
TypeOK ==
  /\ now \in Nat /\ now >= Epoch
  /\ origin \in Document
  /\ until \in [Kid -> [Value -> Nat]]
  /\ mu \in Caller \cup {NoCaller}
  /\ keys \in Document
  /\ {expiry, lastRefresh, lastFailure, timer, lockedAt} \subseteq Nat
  /\ attempt \in 0..(Len(RetryBackoff) + 1)
  /\ reply \in Document \cup {NoReply}
  /\ pc \in [Caller -> {"idle", "called", "fetching", "backoff"}]
  /\ ask \in [Caller -> Dir!Question \cup {"nothing"}]
  /\ cancelled \in [Caller -> BOOLEAN]
  /\ answer \in [Caller -> Key \cup Dir!Outcome]
  /\ settled \in Record

Init ==
  /\ now = Epoch
  /\ origin \in Document
  /\ until = [k \in Kid |-> [v \in Value |-> 0]]
  /\ mu = NoCaller
  /\ keys = [k \in Kid |-> NoKey]
  /\ expiry = 0 /\ lastRefresh = 0 /\ lastFailure = 0
  /\ attempt = 0 /\ timer = 0 /\ reply = NoReply /\ lockedAt = 0
  /\ pc = [c \in Caller |-> "idle"]
  /\ ask = [c \in Caller |-> "nothing"]
  /\ cancelled = [c \in Caller |-> FALSE]
  /\ answer = [c \in Caller |-> "none"]
  /\ settled = Good(0)
-----------------------------------------------------------------------------
(* The environment. *)

\* Time stands still at the timer the mutex's holder waits for: an attempt
\* ends by its deadline, a backoff at its end.
Tick ==
  /\ now < MaxTime \/ mu # NoCaller
  /\ mu # NoCaller => now < timer
  /\ now' = now + 1
  /\ UNCHANGED <<env, mu, cache, refreshing, calls>>

Publish(doc) ==
  /\ Dir!Publish(doc)
  /\ UNCHANGED <<mu, cache, refreshing, pc, cancelled>>

\* The context of a call ends: its deadline passes or the caller gives up.
Cancel(c) ==
  /\ pc[c] # "idle" /\ ~cancelled[c]
  /\ cancelled' = [cancelled EXCEPT ![c] = TRUE]
  /\ UNCHANGED <<now, env, mu, cache, refreshing, pc, ask, answer>>

\* Key(ctx, keyID), keyID possibly empty, or Refresh(ctx)
Call(c, q) ==
  /\ pc[c] = "idle" /\ now < MaxTime
  /\ pc' = [pc EXCEPT ![c] = "called"]
  /\ ask' = [ask EXCEPT ![c] = q]
  /\ cancelled' = [cancelled EXCEPT ![c] = FALSE]
  /\ answer' = [answer EXCEPT ![c] = "none"]
  /\ UNCHANGED <<now, env, mu, cache, refreshing>>

Return(c, a) ==
  /\ pc' = [pc EXCEPT ![c] = "idle"]
  /\ ask' = [ask EXCEPT ![c] = "nothing"]
  /\ cancelled' = [cancelled EXCEPT ![c] = FALSE]
  /\ answer' = [answer EXCEPT ![c] = a]

RejectNoKid(c) ==
  /\ pc[c] = "called" /\ ask[c] = "no kid"
  /\ Return(c, "missing kid")
  /\ UNCHANGED <<now, env, mu, cache, refreshing>>
-----------------------------------------------------------------------------
(* A lookup decides what to do at the moment it acquires the mutex. *)

MayEnter(c) == pc[c] = "called" /\ mu = NoCaller

\* MUTANT of Fresh: the document is served at its expiry too
ServedAtExpiry == now <= expiry

Fresh == now < expiry

RefreshedJustNow == now - lastRefresh < RefreshCooldown

FailedJustNow == lastFailure # 0 /\ now - lastFailure < FailureCooldown

Lookup(c) == MayEnter(c) /\ ask[c] \in Kid

Misses(c) ==
  ~ (Fresh /\ (keys[ask[c]] # NoKey \/ RefreshedJustNow))

Hit(c) ==
  /\ Lookup(c) /\ Fresh /\ keys[ask[c]] # NoKey
  /\ Return(c, keys[ask[c]])
  /\ UNCHANGED <<now, env, mu, cache, refreshing>>

RefuseUnknown(c) ==
  /\ Lookup(c) /\ Fresh /\ keys[ask[c]] = NoKey /\ RefreshedJustNow
  /\ Return(c, "unknown")
  /\ UNCHANGED <<now, env, mu, cache, refreshing>>

HoldOff(c) ==
  /\ Lookup(c) /\ Misses(c) /\ FailedJustNow
  /\ Return(c, "held off")
  /\ UNCHANGED <<now, env, mu, cache, refreshing>>

\* Key falls through to fetchLocked; Refresh goes there at once.
BeginRefresh(c) ==
  /\ MayEnter(c)
  /\ \/ ask[c] \in Kid /\ Misses(c) /\ ~FailedJustNow
     \/ ask[c] = "refresh"
  /\ mu' = c
  /\ attempt' = 1 /\ timer' = now + FetchTimeout /\ reply' = NoReply
  /\ lockedAt' = now
  /\ pc' = [pc EXCEPT ![c] = "fetching"]
  /\ UNCHANGED <<now, env, cache, ask, cancelled, answer>>
-----------------------------------------------------------------------------
(* The refresh of the mutex's holder. *)

\* MUTANT of Unlock: a path that returns without releasing the mutex
KeepLocked ==
  /\ mu' = mu
  /\ attempt' = 0 /\ timer' = 0 /\ reply' = NoReply /\ lockedAt' = 0

Unlock ==
  /\ mu' = NoCaller
  /\ attempt' = 0 /\ timer' = 0 /\ reply' = NoReply /\ lockedAt' = 0

\* The origin reads its document for the response; the response arrives later.
OriginReplies(c) ==
  /\ pc[c] = "fetching" /\ reply = NoReply
  /\ reply' = origin
  /\ UNCHANGED <<now, env, mu, cache, attempt, timer, lockedAt, calls>>

Answered == reply # NoReply

Install(doc) ==
  /\ keys' = doc
  /\ expiry' = now + CacheTTL
  /\ lastRefresh' = now
  /\ lastFailure' = 0
  /\ settled' = Good(now)

\* The answer fetchLocked's success leads to.
Resolve(q, doc) ==
  IF q = "refresh" THEN "refreshed"
  ELSE IF doc[q] # NoKey THEN doc[q] ELSE "unknown"

\* The response is read, parsed and installed, the call answered from it.
Succeed(c) ==
  /\ pc[c] = "fetching" /\ Answered
  /\ Install(reply)
  /\ Return(c, Resolve(ask[c], reply))
  /\ Unlock
  /\ UNCHANGED <<now, env>>

RetriesLeft == attempt <= Len(RetryBackoff)

\* MUTANT of AwaitRetry: the failed attempt's response is kept for the next
AwaitRetryWithReply(c) ==
  /\ pc[c] = "fetching" /\ ~cancelled[c] /\ RetriesLeft
  /\ timer' = now + RetryBackoff[attempt]
  /\ reply' = reply
  /\ pc' = [pc EXCEPT ![c] = "backoff"]
  /\ UNCHANGED <<now, env, mu, cache, attempt, lockedAt, ask, cancelled, answer>>

\* A failure a later attempt may recover from: transport error, 429 or 5xx.
AwaitRetry(c) ==
  /\ pc[c] = "fetching" /\ ~cancelled[c] /\ RetriesLeft
  /\ timer' = now + RetryBackoff[attempt]
  /\ reply' = NoReply
  /\ pc' = [pc EXCEPT ![c] = "backoff"]
  /\ UNCHANGED <<now, env, mu, cache, attempt, lockedAt, ask, cancelled, answer>>

\* MUTANT of Retry: the attempts are not counted
RetryUncounted(c) ==
  /\ pc[c] = "backoff" /\ now = timer
  /\ timer' = now + FetchTimeout
  /\ pc' = [pc EXCEPT ![c] = "fetching"]
  /\ UNCHANGED <<now, env, mu, cache, attempt, reply, lockedAt, ask, cancelled, answer>>

Retry(c) ==
  /\ pc[c] = "backoff" /\ now = timer
  /\ attempt' = attempt + 1
  /\ timer' = now + FetchTimeout
  /\ pc' = [pc EXCEPT ![c] = "fetching"]
  /\ UNCHANGED <<now, env, mu, cache, reply, lockedAt, ask, cancelled, answer>>

\* MUTANT of RecordFailure: the failure is not remembered
ForgetFailure(c) ==
  IF cancelled[c]
  THEN UNCHANGED cache
  ELSE /\ settled' = Failed(c)
       /\ UNCHANGED <<keys, expiry, lastRefresh, lastFailure>>

\* MUTANT of RecordFailure: an abandoned call's failure is charged to the origin
ChargeEveryFailure(c) ==
  /\ lastFailure' = now
  /\ settled' = Failed(c)
  /\ UNCHANGED <<keys, expiry, lastRefresh>>

\* fetchLocked charges a failure to the origin unless the caller has gone.
RecordFailure(c) ==
  IF cancelled[c]
  THEN UNCHANGED cache
  ELSE /\ lastFailure' = now
       /\ settled' = Failed(c)
       /\ UNCHANGED <<keys, expiry, lastRefresh>>

\* The attempt fails for good, by a failure no retry recovers from, by being
\* the last one or because the caller has gone; or the caller goes during the
\* backoff.
GiveUp(c) ==
  /\ pc[c] = "fetching" \/ (pc[c] = "backoff" /\ cancelled[c])
  /\ RecordFailure(c)
  /\ Return(c, "failed")
  /\ Unlock
  /\ UNCHANGED <<now, env>>
-----------------------------------------------------------------------------
Refreshing(c) == Succeed(c) \/ AwaitRetry(c) \/ Retry(c) \/ GiveUp(c)

Enter(c) == Hit(c) \/ RefuseUnknown(c) \/ HoldOff(c) \/ BeginRefresh(c)

Next ==
  \/ Tick
  \/ \E doc \in Document : Publish(doc)
  \/ \E c \in Caller :
       \/ \E q \in Dir!Question : Call(c, q)
       \/ Cancel(c)
       \/ RejectNoKid(c)
       \/ Enter(c)
       \/ OriginReplies(c)
       \/ Refreshing(c)

Spec == Init /\ [][Next]_vars

(***************************************************************************)
(* Fairness.  The runtime runs a runnable goroutine, the attempt's context *)
(* and the backoff's timer fire, and sync.Mutex hands the lock to a waiter *)
(* that starves (its starvation mode), hence strong fairness of Enter.     *)
(***************************************************************************)
Fairness ==
  /\ WF_vars(Tick)
  /\ \A c \in Caller :
       /\ WF_vars(RejectNoKid(c))
       /\ SF_vars(Enter(c))
       /\ WF_vars(Refreshing(c))

FairSpec == Spec /\ Fairness
-----------------------------------------------------------------------------
(* The invariant the proofs rest on. *)

\* v is what the origin has said of k at some moment since t
SaidSince(k, v, t) == origin[k] = v \/ until[k][v] >= t

\* The mutex is held by exactly the caller whose refresh is under way.
LockInv ==
  \A c \in Caller : /\ pc[c] \in {"fetching", "backoff"} <=> mu = c
                    /\ pc[c] = "idle" <=> ask[c] = "nothing"
                    /\ pc[c] \in {"fetching", "backoff"} => ask[c] # "no kid"

\* An attempt is within its timeout, and its response was read within it.
RefreshInv ==
  mu # NoCaller =>
    /\ now <= timer
    /\ attempt >= 1
    /\ pc[mu] = "fetching" => timer <= now + FetchTimeout
    /\ pc[mu] = "backoff" => attempt <= Len(RetryBackoff) /\ reply = NoReply
    /\ reply # NoReply =>
         \A k \in Kid : SaidSince(k, reply[k], timer - FetchTimeout)

\* The cached document was the origin's at most FetchTimeout before it was
\* stamped, and is served for CacheTTL from the stamp.
CacheInv ==
  expiry # 0 =>
    /\ expiry = lastRefresh + CacheTTL
    /\ lastRefresh <= now
    /\ \A k \in Kid : SaidSince(k, keys[k], lastRefresh - FetchTimeout)

\* lastRefresh, expiry and lastFailure together record when and how the last
\* refresh ended, and no refresh of a caller that had gone is recorded.
SettledInv ==
  /\ settled.at <= now
  /\ settled.ok => /\ lastFailure = 0
                   /\ settled.at = IF expiry = 0 THEN 0 ELSE lastRefresh
  /\ ~settled.ok => lastFailure = settled.at /\ lastFailure # 0
  /\ ~settled.gone

\* An attempt's deadline, or the end of a backoff, is no later than the timeouts and
\* the backoffs so far allow.
HoldInv ==
  mu # NoCaller =>
    /\ pc[mu] = "fetching" => timer <= lockedAt + attempt * FetchTimeout + Backoffs[attempt - 1]
    /\ pc[mu] = "backoff" => timer <= lockedAt + attempt * FetchTimeout + Backoffs[attempt]

\* The mutex, the refresh under way and the cached document are consistent with
\* each other and with what the origin has said (Cache.fetchLocked, refresh).
CoreInv == TypeOK /\ LockInv /\ RefreshInv /\ CacheInv

\* ... and so are the record of the last refresh and the time under way.
IInv == CoreInv /\ SettledInv /\ HoldInv
-----------------------------------------------------------------------------
(* Properties. *)

\* The cache hands out a key for at most CacheTTL + FetchTimeout after the
\* gateway withdrew it, and calls a kid unknown for at most RefreshCooldown +
\* FetchTimeout after the gateway published it (Cache.Key, refreshOnce).
AnswersFollowOrigin == Dir!Spec

\* Every call of Key or Refresh returns, whatever the network and the other
\* callers do (the mutex, the attempt's timeout, the bounded retries).
EveryCallReturns == Dir!FairSpec

\* A lookup goes to the gateway only when FailureCooldown has passed since a
\* failed refresh, and the document's TTL or RefreshCooldown since a good one:
\* waiting lookups coalesce into one refresh, and neither unknown kids nor an
\* outage turn into a stream of requests.
OriginSpared ==
  [][\A c \in Caller :
       pc[c] = "called" /\ pc'[c] = "fetching" /\ ask[c] \in Kid =>
         LET quiet == now - settled.at
         IN  IF settled.ok THEN quiet >= CacheTTL \/ quiet >= RefreshCooldown
                           ELSE quiet >= FailureCooldown]_vars

\* A lookup is held off only while the last recorded refresh is a failure less
\* than FailureCooldown ago: a success in between lifts the cooldown, and a
\* failure whose caller had gone, which may be the caller's and not the gateway's,
\* never starts one.
HeldOffForCause ==
  [][\A c \in Caller :
       answer'[c] = "held off" /\ answer[c] # "held off" =>
         ~settled.ok /\ ~settled.gone /\ now - settled.at < FailureCooldown]_vars

\* One refresh holds the mutex, and so blocks every other lookup, known kid or
\* not, for at most its attempts' timeouts and its backoffs together.
LockHoldBounded ==
  mu # NoCaller =>
    now - lockedAt <= (Len(RetryBackoff) + 1) * FetchTimeout
                        + Backoffs[Len(RetryBackoff)]

\* What the comment on lastRefresh says: a failed refresh leaves the next
\* lookup free to retry at once.  A lookup the cache cannot serve then goes to
\* the gateway instead of being refused.
NextLookupRetries ==
  [][\A c \in Caller :
       Lookup(c) /\ Misses(c) /\ ~settled.ok /\ pc'[c] # "called" =>
         pc'[c] = "fetching"]_vars
=============================================================================
