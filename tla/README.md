# Internal JWT handling: models, checks and proofs

TLA+ models of the Go library `internal-jwt-handling`: the Service Gateway
issues a short-lived internal JWT for every hop between services, publishes its
verification keys as a JWKS, and every service verifies what it is called with.
The models are translated from the code; a line such as `cache.go:160` names a
line of it. `PROJECT.json` maps every definition to the lines it stands for.

## 1. Inventory

Gateway (issuing side) and services (verifying side) share a vocabulary and
meet in two places: the token in a request, and the JWKS document fetched over
HTTP.

```
 key files --> FileKeyProvider --> signer.sign --> token --> Verifier (service)
                      \---------> signer.jwks --> JWKS ----> jwks.Cache ---^
 verified external token --> Issuer --^                       |
 context token --> ContextVerifier --> Issuer (re-issue)      v
                                                   interceptor --> handler
```

| component | state | operations | what is hard | what makes it correct |
|---|---|---|---|---|
| JWKS cache (`jwks/cache.go`) | `keys`, `expiry`, `lastRefresh`, `lastFailure`, mutex | `Key`, `Refresh` | one mutex held across network, retries and backoffs; two cooldowns and a TTL; cancelled callers; a document replaced at any moment | bounded staleness of every answer, the origin is spared, every call returns |
| file key provider (`issuer/keys.go`) | `keys`, `loadedAt`, mutex | `NewFileKeyProvider`, `Current` | files change between the reads of one load; a load fails; crash and restart | keys in force follow the files; broken files cost no more than good ones |
| signer, JWKS publication (`issuer/signer.go`) | none | `sign`, `jwks` | the two read the key set separately, in several replicas; a rotation is a sequence of configurations | a live token's key is always published; a withdrawn key is forgotten |
| JWK representation (`jwk.go`) | none | `NewJWK`, `PublicKey` | every check has a counterpart on the other side; one bad entry | what is published is read back; a document is taken whole or not at all |
| issuer (`issuer/issuer.go`, `external.go`, `service.go`, `claims.go`) | clock, TTL | `IssueFromExternal`, `IssueUserOriginService`, `IssueMachineOriginService` | claims pass through several hops; sub-second instants truncated to seconds | a chain keeps its user, scope, binding and txn; lifetimes |
| verifier (`verifier/verifier.go`, `claims.go`) | clock, leeway | `Verify` | must accept exactly what the issuer derives, on every hop; clock skew; unknown kid is not an outage | everything issued is accepted until it expires |
| context verifier (`verifier/context.go`) | as the verifier | `Verify(token, presenter)` | verify and re-issue are two steps, one with a leeway and one without | no hop starts from an expired token or by another service |
| shared vocabulary (`claims.go`, `keys.go`, `context.go`) | none | `ValidateBinding`, context helpers | used by both sides | both sides agree |
| interceptor (`interceptor/interceptor.go`) | policy table, options | `New`, `wrap`/`authorize` on every call | precedence of three settings; outage told from rejection; keys and clock move on while a call waits for its key | a handler runs only for a permitted call, with that call's claims; a good token is refused for a reason |
| bearer header (`verifier/bearer.go`) | none | `BearerToken` | which headers carry a token at all | an input of the interceptor |
| generator (`jwtgen/*.go`) | key id and key | `NewGenerator`, `NewGeneratorWithKey`, `Generate` (two forms), `SignUnchecked`, `JWKS` | builds a context token of its own; two clock readings; lifetimes below a second; key ids that coincide | what is well formed is minted and verifies against its JWKS; a token accepted, whatever its claims, is continued in one way only |
| command (`cmd/jwtgen`), CI | none | flags, printing | - | - |

Interactions: `Verifier.keyFunc` calls `Cache.Key` (through `KeyResolver`);
`signer.sign` and `signer.jwks` each call `FileKeyProvider.Current`; the cache
fetches what `signer.jwks` returned to some replica's HTTP handler; the gateway
passes what `ContextVerifier.Verify` returned to `Issuer`. The two mutexes
(cache, provider) are never held together.

The hazards, each at its line and with the properties that would catch it, are
the `hazards` of `PROJECT.json`.

## 2. Modules

| module | what it is | depends on |
|---|---|---|
| `KeyDirectory` | abstract specification of the cache: answers may lag behind the origin, but only so far | - |
| `JwksCache` | the cache: mutex, refresh, retries, cooldowns, callers' contexts | instances `KeyDirectory` |
| `JwksCacheProofs` | proofs about it | `JwksCache` |
| `KeyRotation` | a staged rotation over the gateway's replicas, seen by services through the directory | instances `KeyDirectory` |
| `KeyRotationProofs` | proofs about it | `KeyRotation` |
| `KeyStore` | abstract specification of `issuer.KeyProvider`: one whole key set in force, replaced by a call that is due | - |
| `FileKeyProvider` | the gateway's key set, loaded file by file | instances `KeyStore` |
| `FileKeyProviderProofs` | proofs about it | `FileKeyProvider` |
| `JwksDocument` | `NewJWK`, `signer.jwks`, `PublicKey`, `parseKeys` | - |
| `JwksDocumentProofs` | proofs about it | `JwksDocument` |
| `InternalJwt` | token_use, `ValidateBinding`, dates | - |
| `Issuer` | the three derivations as operators | `InternalJwt` |
| `Verifier` | every check as an operator, and the form of claims it accepts (`SoundClaims`) | `InternalJwt` |
| `VerifierProofs` | what the checks come to together | `Verifier` |
| `TokenChain` | chains of tokens through services and the gateway | `Issuer`, `Verifier` |
| `TokenChainProofs` | proofs about it | `TokenChain`, `VerifierProofs` |
| `Interceptor` | the options and the decision on concurrent calls, with keys from the directory | `Verifier`, instances `KeyDirectory` |
| `InterceptorProofs` | proofs about it | `Interceptor`, `VerifierProofs` |
| `Generator` | `jwtgen` on top of the issuer, judged by the verifier | `Verifier`, instances `Issuer` |
| `GeneratorProofs` | proofs about it | `Generator`, `VerifierProofs` |
| `MC*` | small instances for TLC | one module each |

### The cache

State and code correspond one to one: `mu` is `Cache.mu` with its holder,
`keys`/`expiry`/`lastRefresh`/`lastFailure` are the fields, `attempt`, `timer`
and `reply` are the refresh under way (the loop of `refresh`, the attempt's
context or the backoff's timer, the response body), `pc`/`ask`/`cancelled` are
each caller's control point, arguments and `context.Context`.

A lookup decides in the step in which it gets the mutex, because the code reads
the clock and the fields after `Lock`: `Hit` (150-153), `RefuseUnknown`
(155-158), `HoldOff` (160-162) or `BeginRefresh`, to which `Refresh` goes
directly. The holder then goes through `OriginReplies` (the origin reads its
document; other documents may be published before the answer arrives),
`Succeed` (parse, install, reset the failure, answer from the new document,
unlock), `AwaitRetry` (a failure worth a retry, with retries left and a live
context), `Retry`, `GiveUp` (anything else; the failure is recorded unless the
caller's context has ended). Time passes freely, but while the mutex is held not beyond
the timer of the holder's attempt or backoff: the attempt's context and
`sleepContext` end there.

`settled` and `lockedAt` are history variables: the properties need to know
when and how the last recorded refresh ended, whether its caller had gone by then,
and when the mutex was taken.

`KeyDirectory` says what this adds up to. A key is handed out only if the
origin still says so or stopped saying so less than `CacheTTL + FetchTimeout`
ago; "unknown" only if the origin did not publish the kid at some moment of the
last `RefreshCooldown + FetchTimeout`; and a caller may always be told that keys
cannot be had. The mapping is the identity on the clock, the origin, the
questions and the answers; everything else is hidden. `FetchTimeout` is in both
bounds because a document is stamped when it has been read, not when the
origin wrote it.

### Rotation

`FileKeyProvider` takes its kids from its configuration, so a change of keys is
a release. `KeyRotation` rolls releases out replica by replica, back and forth
between the current and the previous one; each replica signs with its own
release's key and serves its own release's document, and a JWKS request reaches
whichever replica it is routed to. The directory's origin is the document of
that replica. The procedure of `docs/service_gateway_spec.md:237` is the
assumption `StagedRotation` on the plan: a key is configured one release before
it signs and one release after, and a release is left alone for `StageWait`
after its last deployment, at least `UnknownLag` and at least `TTL + Leeway`.

### Token chains

`Issuer` and `Verifier` translate the derivations and the checks; an absent
claim is the empty one. Identifiers are numbers, each drawn once. `TokenChain`
lets the gateway convert any external token of a set (inputs it must refuse
included), lets services receive any token at any time with a clock that is off
by up to `Skew`, present it as context, and ask for a re-issue of either origin
to any service. Verification and re-issue are separate steps with time between
them, as in the code, where each reads the clock. Instants are finer than a
second, and `NumericDate` truncates; neither the lifetime nor the end of an external
token need be whole seconds, since the code asks for neither (`issuer.go:72`,
`external.go:51`).

### Key files and documents

`FileKeyProvider` reads one file per step, so the files may change in between;
the reads hold the mutex and take up to `LoadTime`. `JwksDocument` goes through
the entries one after the other as the two loops of the code do: `Jwks` and
`ParseKeys` are recursive functions of the number of entries done, and their
steps, `AndThen` and `Add`, are the loops' bodies.

`KeyStore` leaves out the files, the mutex and the reading: a store is open or
not, has one whole key set standing while it is open, and a call is answered
with the set that stands when it returns, replaced by that call or not, and
replaced only an interval after the store last tried. The mapping is
`standing <- keys`, `triedAt <- loadedAt` and the callers that are not idle as
`waiting`; a start maps to `OpenWith`, a crash to `Close`, a load that fails to
`AnswerRenewed` with the set already standing. How closely that set follows the
files is not part of it: `CurrentFollowsDisk` says so of the provider itself.

### The interceptor

`settings` is `interceptor.options`, filled in any order before `New`. A call
goes through one of the refusals that need no key (`RefuseUnknownProcedure`,
`RefuseLevel`, `RefuseCredential`), is served without claims (`ServePublic`),
or asks the directory for the key its token names (`ResolveKey`). It waits in
"resolving" until `Cache.Key` returns (`Resolved`) and in "deciding" until it
goes on; documents are published and time passes in both. The verdict is
`Verifier`'s, on the clock of that moment, followed by the token_use and the
scopes, in the code's order. `Return` frees the call. A header is the sequence
of its parts between spaces; `handed` is what `ClaimsFromContext` gives the
handler. The cache stands behind the calls as `KeyDirectory`, which it is proved
to implement, so the answers are everything the cache may say and no more.

### The generator

A generator has a key id and a key. `Generate` reads the clock for what it
pretends to hold (`Prepare`: the external token's expiry, or the context token
it builds) and once more in the issuer (`Mint`, `RefuseMint`), so the two are
separate steps. The issuer of a call is an instance of `Issuer` with the
configuration's identifier and TTL; `Grants` and `ClaimsFor` choose the
derivation as `issue` does. `SignUnchecked` signs whatever claims it is given; the
set they come from, `UncheckedClaims`, is a constant without assumptions. `Gateway`
is the issuer that would re-issue from a token a service has accepted.

## 3. Runs

Each run checks what its properties say on the instance below; every property
has a mutant of the code that it catches.

| run | instance | what it shows |
|---|---|---|
| `cache_safety` | 2 callers, 1 kid, 1 key, TTL 2, cooldowns 1 and 2, timeout 1, one retry, 3 ticks plus the last refresh | `IInv`, `LockHoldBounded`, `OriginSpared`, `HeldOffForCause`, `AnswersFollowOrigin`: the cache implements `KeyDirectory` |
| `cache_liveness` | 2 callers, fair | `EveryCallReturns` |
| `cache_comment` | 1 caller | violated: see section 6 |
| `key_files` | 2 callers, 2 files, 2 keys, 16 contents of the disk (`TwoFiles`), interval 2, load time 1, fair | `IInv`, `CurrentFollowsDisk`, `LoadsAnIntervalApart`, `EveryCurrentReturns`, `KeysReplacedWhole`: the provider implements `KeyStore` |
| `key_rotation` | 2 replicas, 1 service, one whole rotation (4 releases) | `IInv`, `LiveTokensResolve`, `WithdrawnKeysForgotten` |
| `jwks_document` | 3 kids and the blank one, 2 points, a key of another curve and a nil key; up to 3 configured keys; entries wrong in each single way | `IInv`, `RoundTrip`, `WholeDocumentOrNone` |
| `token_chain` | 2 services, 9 external tokens (6 of them refused, one about to end), 3 tokens, a second of 2 ticks, a lifetime of a second and a half, leeway and skew 1 | `IInv`, `IssuedIsAccepted`, `ChainKeepsUser`, `ChainKeepsMachine`, `HopsFollowTheirContext`, `LifetimeFollowsSource` |
| `guard_policies` | 9 procedures (5 levels, one unnamed, own token_use lists, scopes), 3 lists for the two options, 13 headers, 1 call, fair | `InternalStaysInternal`, `NearestSettingDecides`, `ScopesGateUsers`, `EveryCallDecided` |
| `guard_calls` | 2 calls, 1 kid, 2 keys, 5 tokens (one issued later than now, one under the next key, one for another service), leeway 1 | `IInv`, `ServedForLiveKey`, `EntitledNotRefused`, `OutageIsNotBlamed` |
| `guard_comment` | as `guard_policies`, not fair | violated: see section 6 |
| `jwtgen_configs` | 1 generator, 1 call, every combination of the fields the issuer reads, and of the claims verifier and issuer read in a token signed unchecked (`AnyClaims`), a second of 2 ticks | `RefusedForCause`, `LifetimeAsAsked`, `MintedVerifies`, `AcceptedContinuesOneWay` |
| `jwtgen_calls` | 2 generators, 3 calls, 2 keys, 3 configurations, 2 sets of claims | `IInv`, `MintedAsConfigured` |

Bounds. `MaxTime` stops calls from starting (cache) or time from passing; the
other bounds are `MaxEntries`, `MaxTokens` and the sets. `Disks` leaves out
of all contents of the files only a second public key in the signing file and a
second private key in the published one, which load as the first of each does.
The durations are the smallest that keep the order of the defaults where a property depends on it
(TTL longer than the refresh cooldown, retries shorter than either), and
`MaxTime` leaves room for a document to expire and be fetched again, for both
cooldowns to begin and end, for a whole rotation, and for a context token to
expire between verification and re-issue. Two callers are enough for one to
hold the mutex and one to wait; what more callers add is more waiters. Three
tokens make a second hop, where `origin_sub` passes through instead of being
set; two replicas are enough to disagree. Two calls in flight are enough for
one to be decided between the two steps of another; calls share nothing but the
directory. Three calls of two generators mint under each, sign unchecked, and start
chains that have to differ. In `token_chain` an external token that ends at 7, with
seconds of two ticks, makes tokens that are dead when they are issued; a lifetime
below a second is in `jwtgen_configs` and the theorems. `guard_policies` lets no time pass, since no property of it is
about time; `guard_calls` has one procedure, since none of its is about policies.
Callers, calls and replicas are symmetric, and declared so where no property is a
liveness property. One key is enough in `cache_safety`, where a kid may still be
withdrawn and published again; `CacheImplementsDirectory` has any number.
The theorems of section 5 have no bounds.

Deadlock checking is off in `token_chain`, `jwtgen_configs` and `jwtgen_calls`
(time, tokens or calls run out) and `jwks_document` (a configuration that cannot
be described is the end).

## 4. Fairness

`FairSpec` of `JwksCache` asks for: weak fairness of the clock; of the steps of
a refresh (the runtime runs a runnable goroutine, the attempt's context and the
backoff's timer fire); and strong fairness of entering the mutex, because Go's
`sync.Mutex` hands the lock over to a waiter that has starved for a
millisecond. Nothing is asked of the origin, which may never answer, nor of the
callers, who may keep calling. `EveryCallReturns` is `KeyDirectory`'s `FairSpec`.

`FileKeyProvider` asks for weak fairness of the load under way (reading a file
takes finite time and a load has finitely many) and strong fairness of each
caller's turn at the mutex, for the same reason; not that the process is
started, stays up or that files are repaired. `Interceptor` asks for weak
fairness of the directory's answer, which is what `cache_liveness` shows of the
cache, and of a call that has its answer; nothing of callers or of the clock.

## 5. What is proved

With TLAPS, for every value of the constants under the named assumptions of the
modules. They ask for durations that are natural numbers (positive where the
code's constructors insist), a clock that starts later than any of them, names
that stand for nothing to be no names, and beyond that for this:

* `PlanAssumption`, `StagedRotation` (`KeyRotation`): the documented procedure.
* `ChainAssumption` (`TokenChain`): the clocks differ by no more than the leeway
  and the verifier trusts this issuer. Of the TTL only that it is positive
  (`issuer.go:72`), of the end of an external token nothing.
* `InterceptorAssumption`: the tokens counted as `Issued` have a kid, a
  signature, a key and `SoundClaims` for this service. That is what `ClaimsInv` of
  `TokenChain` says of every token the issuer derives, so `ChainConsistent`
  discharges it.
* `GeneratorAssumption`: the defaults are not blank, and a `txn` that is asked for
  is not one of those drawn later. Nothing is asked of what is signed unchecked.
* `Distinct` (`JwksDocument`): the outcome `Error` is none of the others.

Each component has an inductive invariant `IInv`, which a run checks as well, and
the theorems follow from it.

### The cache

* `CacheConsistent`: `JwksCache!IInv`. `TypeOK` alone is not inductive, and the
  bounds on answers need to know where a document comes from. `LockInv` ties the
  mutex to the one call that refreshes; `RefreshInv` says that the attempt is
  within its timeout and that its response was the origin's within the attempt;
  `CacheInv` carries that over to the cached document: each kid's entry was said
  at or after `lastRefresh - FetchTimeout`. `until` turns "was said since t"
  into a state predicate that survives every later publication. These three with
  `TypeOK` are inductive by themselves (`CoreInv`, theorem `CacheCore`);
  `SettledInv` and `HoldInv` are inductive relative to them.
* `CacheTypeOK`: type correctness.
* `CacheLockHoldBounded`: `HoldInv` gives the timer of attempt `n` as at most
  `n` timeouts and the first `n - 1` backoffs after the lock was taken, for any list
  of backoffs. The sum `Backoffs` is a recursive function; that it exists, is a
  natural number and grows is proved by induction (see below).
* `CacheImplementsDirectory`: `Spec => Dir!Spec`. Initial states map to initial
  states; every step is a directory step or a stutter; the steps that answer
  (`Hit`, `RefuseUnknown`, `HoldOff`, `Succeed`, `GiveUp`, `RejectNoKid`) give
  an answer `Allowed` at that moment, from `CacheInv` and the branch's guard.
* `CacheSettled`, `CacheOriginSpared`, `CacheHeldOffForCause`: `SettledInv`
  relates the code's three stamps to the history, and with it the two action
  properties follow from the guards of the one action that can violate each. That
  no refresh of a caller that had gone is recorded is its last conjunct.

### The key files and the rotation

* `ProviderConsistent`: `FileKeyProvider!IInv`. `ProcessInv` empties a provider that
  is not up; `LockInv` ties a load to the holder of the mutex and says that it
  began when it was due; `PartialInv` that what it has read are keys; `FollowInv`
  that what was loaded, or read so far, is what the files hold, unless they
  changed since the load began or a later one failed. `ProviderTypeOK` follows.
* `ProviderImplementsStore`: `Spec => Store!Spec`, one step of the proof for each
  action (see section 2 for the mapping). `PartialInv` makes what is installed a
  whole key set, and `LockInv` keeps `loadedAt` still while a load runs.
* `ProviderFollowsDisk`, `ProviderLoadsAnIntervalApart`: the two action properties,
  from the invariant and the guards of the three actions by which a call
  returns, and of the one that loads.
* `RotationInvariant`: `KeyRotation!IInv`. That live tokens resolve is not
  inductive: it needs to know that replicas run two neighbouring releases
  (`RolloutInv`), that only those releases' keys have live tokens and that once
  a release is rolled out the others' tokens are as old as the rollout
  (`SigningInv`), and the same for how long its keys have been in every document
  (`PublishedInv`). The wait is used in one place, `StartNextIInv`.
* `RotationLosesNoToken` and `RotationForgetsKeys`: the two properties of the
  rotation, from the invariant and the directory's `Allowed`.

Read together: a service's cache is a directory (`CacheImplementsDirectory`)
with `UnknownLag = RefreshCooldown + FetchTimeout`, and a rotation against such
directories loses no token when each stage waits that long and `TTL + Leeway`.
With the defaults (35 s; 120 s + 30 s) the documented 15 minutes are ample; a
withdrawn key may be accepted for `CacheTTL + FetchTimeout` = 305 s after its
withdrawal is deployed.

### Documents

* `DocumentConsistent`: `JwksDocument!IInv`, types and that the gateway's own
  document is `Jwks` of its key set.
* `DocumentRoundTrip`: for a key set of any size, what is published is read back
  kid by kid, and a set that cannot be described is published not at all.
* `DocumentTakenWhole`: the cache's keys change only to the keys of one document
  that is usable to its last entry.

The two loops are evaluated in closed form first: `JwksIs` (the entries of the
keys in order if all can be described, else an error) and `ParseIs` (the map of
the entries if all are usable and no kid comes twice, else an error), each by
induction on the number of entries done. `NewJWKIs` and `PublicKeyIs` say that
the two conversions are each other's inverse.

### Issuer and verifier

* `SoundClaimsAccepted`, `AcceptedClaims` (`VerifierProofs`): claims with the form
  `SoundClaims` are accepted by the audience's verifier from the leeway before
  they begin to the leeway after they end; and whatever is accepted is the
  trusted issuer's, for that audience, and has not ended but for the leeway.
* `ChainConsistent`: `TokenChain!IInv`. `IssuedIsAccepted` is not inductive, since
  a re-issue copies claims out of a context it knows little of. `IssuedInv` says
  that a chain starts with an accepted external token or with a service,
  `DatesInv` that a token begins with the second it was issued in and ends less than
  a second sooner than its lifetime or its source, `ClaimsInv` that its claims are `SoundClaims`; `ChainKeepsUser`,
  `ChainKeepsMachine` and `HopsFollowTheirContext` are part of the induction,
  because a hop's claims come from the hop before.
* `IssuerAndVerifierAgree`, `UserChainsKept`, `MachineChainsKept`, `HopsAuthorised`,
  `LifetimesBounded`: the properties the run checks, for chains of any length.
  `LifetimesBounded` says what truncation may cost: `exp` can be the second a token
  is issued in, and the token dead from the start, but only if less than a second
  was left of its lifetime or of its source. No token ends before it begins, and no
  ingress token outlives its source. Such a token cannot be continued either:
  `HopsAuthorised` has a hop begin strictly before its context ends.

### The interceptor

* `InterceptorConsistent`: `Interceptor!IInv`. `DirectoryInv` keeps the bookkeeping
  of the origin; `WaitingInv` says that a call waits only on a procedure that
  needs a key, with a token that names one; `AnswerInv` that what it was told was
  true of its kid when it was told, up to the directory's lag, whatever is
  published later; `OutcomeInv` why a call was served or denied. The proof goes call by call
  (`CallByCall`, `CallStep`): a step of one call leaves the others as they are.
* `NearestSettingAlwaysDecides`: of the policy's list, the option for the procedure,
  the service-wide option (authenticated procedures only) and the one value of the
  level, the first that is not empty decides alone whether a token that verifies is
  refused for its `token_use`. `NearestList` is the lemma: `AcceptedTokenUses`, a
  cascade of returns in the code, is that element of the list.
* `InternalProceduresStayInternal`,
  `UsersNeedTheirScopes` (about the policies), `GuardedServeLiveKeys`,
  `EntitledServed`, `OutagesNotBlamed` (about calls in flight while keys change).
  `EntitledServed` uses `SoundClaimsAccepted`, `GuardedServeLiveKeys` uses
  `AcceptedClaims`.

### The generator

* `GeneratorConsistent`: `Generator!IInv`. `CallInv` says of a call what its state
  promises of the configuration and of the two clock readings; what was minted is
  the issuer's grant for them. `UncheckedInv` says that what is signed unchecked
  are the claims given.
* `MintedIsAccepted`, `LivesAsAsked`, `SaysWhatWasAsked`, `RefusedOnlyForCause`: the
  properties of what is minted. `GrantedIsPromised`, the lemma behind them, goes
  through the three derivations of `Issuer`.
* `AcceptedContinued`: for any claims at all, what a verifier accepts for a service
  the issuer re-issues for it as a user's or as a machine's, exactly one of them,
  while it has not expired, and as neither from then on. It relates two sets of
  checks in two packages (`verifier/claims.go`, `issuer/service.go`) that agree
  nowhere by construction: the issuer excludes an event from a machine's context
  itself, the verifier only through `ValidateBinding` and the missing tenant.

### Induction and what is left to TLC

The library's induction theorems take an operator, which the provers cannot
instantiate. Where a proof needs induction over the natural numbers (`Backoffs`,
`Jwks`, `ParseKeys`), it is on a set: `Inductive` says that a set with 0 and with
the successor of each of its numbers has them all, from the well-foundedness of
`<` (`WFMin`, `NatLessThanWellFounded`). `Iteration` gets from it the existence of
a run of a loop. `JwksCacheProofs` and `JwksDocumentProofs` each have these lemmas.

Only model-checked: the liveness properties `EveryCallReturns`,
`EveryCurrentReturns` and `EveryCallDecided` (fairness and ENABLED are out of the
prover's reach). Every other property of a passing run is a theorem.

## 6. Findings

`cache.go:83` says of `lastRefresh` that "A failed refresh leaves it alone so
the next lookup may retry at once". It does leave it alone, but `Key` refuses
the next lookup for `FailureCooldown` (`cache.go:160`). `cache_comment` states
the comment as `NextLookupRetries` and TLC shows a lookup held off after a
refresh that failed every attempt. The specification of the services asks for
the cooldown (`docs/service_gateway_spec.md:236`): the comment is out of date.

`interceptor.go:105` says that `WithTokenUses` "replaces the token_use values one
procedure accepts" and "applies at every level". `acceptedTokenUses` looks at
the policy's own list first (`interceptor.go:260`) and never reaches the option
when there is one. `guard_comment` states the comment as `OptionReplacesUses`,
and TLC shows a call served with a token_use the option does not list. Either
order may be meant; the tests never combine the two.

Two behaviours that are by design but worth knowing, found while modelling: a
refresh whose caller's context ends records no failure (`cache.go:197`), so
callers with deadlines shorter than the attempts never start the cooldown; and
lookups of kids that are cached wait behind a refresh, up to
`(retries + 1) * FetchTimeout` and the backoffs, whatever their own deadline
(`cache.go:145`).

## 7. Not modelled

* Cryptography: a signature verifies under its own key only; UUIDs are new
  numbers and their generation does not fail.
* Base64, PEM, JSON and the compact form of a token, and which of several checks
  refused a token: the code tells its callers apart "invalid" and "keys cannot
  be had", and so do the models.
* The HTTP client beyond success, failure and timeout of an attempt.
* Constructors' checks of missing arguments, except where a caller's data reaches
  them (`jwtgen`). Options other than those that change a decision; the
  interceptor's error reporter, which only observes, and wording and logs.
* The flags and the printing of the `jwtgen` command, and CI: no state and no
  order of steps. A nil key from a resolver (`verifier.go:198`): no resolver of
  the repository gives one without an error.

The clock of one process is monotonic and two processes' clocks differ by at
most `Skew`. A kid names one key for ever in `KeyRotation`; a file replaced
under the same kid is in `FileKeyProvider` and, as a change of the origin, in
`JwksCache`.

## 8. Plan

Done, in this order: `KeyDirectory` and `JwksCache` (the only component with
real concurrency, and what every verification depends on), their proofs, the
token chain with the two claim modules, the key files, the rotation and its
proofs, the document; then the interceptor on top of verifier and directory,
the generator on top of issuer and verifier, and `KeyStore` with the liveness and
the proofs of the key files. The proofs of the token chain, the interceptor, the
generator and the document, and the bound on the cache's mutex, came last.

Left:

1. That the `Dir` part of `Interceptor` implements `KeyDirectory`, as a theorem
   rather than by construction.
2. The rotation for an interceptor: `EntitledNotRefused` against the documents of a
   staged rotation instead of a key that stays published.
