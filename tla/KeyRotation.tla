----------------------------- MODULE KeyRotation -----------------------------
(***************************************************************************)
(* A staged rotation of the signing key, across the gateway's replicas and *)
(* the caches of the services.                                             *)
(*                                                                         *)
(* A FileKeyProvider takes its kids from its configuration, so a change of *)
(* keys is a sequence of releases, each rolled out replica by replica and  *)
(* rolled back at will until the next one starts.  Every replica signs     *)
(* with its own release's key and serves its own release's document, and a *)
(* fetch of the JWKS reaches whichever replica it is routed to: to the     *)
(* caches, the origin is a document that changes with each rerouting.      *)
(* Services ask a KeyDirectory, which JwksCache implements.                *)
(***************************************************************************)
EXTENDS Integers, Sequences

CONSTANTS Gateway, Service,
          Kid,               \* a kid also stands for the one key it names
          NoKey,
          KeyLag, UnknownLag,
          Plan,              \* the releases: [sign : Kid, published : SUBSET Kid]
          TTL, Leeway,
          StageWait,         \* from a rollout's last step to the next release
          Epoch,
          MaxTime            \* BOUND: no time passes after this instant

VARIABLES
  now, origin, until, ask, answer,   \* as in KeyDirectory
  route,                  \* the replica that answers a fetch of the JWKS now
  stage,                  \* the release being rolled out
  release,                \* the release each replica runs
  deployedAt,             \* when a replica last changed its release
  expires                 \* expires[k], when the last token signed with k does

directory == <<now, origin, until, ask, answer>>
vars == <<directory, route, stage, release, deployedAt, expires>>

Dir == INSTANCE KeyDirectory WITH Caller <- Service, Key <- Kid

Release == DOMAIN Plan

ASSUME PlanAssumption ==
  /\ Plan \in Seq([sign : Kid, published : SUBSET Kid]) /\ Plan # <<>>
  /\ NoKey \notin Kid /\ Kid \cap Dir!Outcome = {}

\* the kids of a release's configuration: the signing key and the published
Configured(n) == {Plan[n].sign} \cup Plan[n].published

\* The procedure: a key is configured a release before it signs and a release
\* after, and a release is left alone long enough for the caches to learn its
\* keys and for the tokens of the release before to expire.
ASSUME StagedRotation ==
  /\ \A n \in Release \ {1} : /\ Plan[n].sign \in Configured(n - 1)
                              /\ Plan[n - 1].sign \in Configured(n)
  /\ {TTL, Leeway, StageWait, KeyLag, UnknownLag, Epoch, MaxTime} \subseteq Nat
  /\ StageWait >= UnknownLag /\ StageWait >= TTL + Leeway
  /\ Epoch >= UnknownLag /\ Epoch >= KeyLag /\ Epoch > Leeway

\* MUTANT of Publishes: the document describes the signing key only
PublishesSigningKey(n) == {Plan[n].sign}

\* MUTANT of Publishes: keys loaded before stay in the document
PublishesPrevious(n) == UNION {Configured(m) : m \in 1..n}

\* The kids signer.jwks describes under a release.
Publishes(n) == Configured(n)

DocumentOf(n) == [k \in Kid |-> IF k \in Publishes(n) THEN k ELSE NoKey]

\* Releases, documents and instants are what they are named for.
TypeOK ==
  /\ now \in Nat /\ now >= Epoch
  /\ origin \in Dir!Document
  /\ until \in [Kid -> [Dir!Value -> Nat]]
  /\ ask \in [Service -> Dir!Question \cup {"nothing"}]
  /\ answer \in [Service -> Kid \cup Dir!Outcome]
  /\ route \in Gateway
  /\ stage \in Release
  /\ release \in [Gateway -> Release]
  /\ deployedAt \in Nat
  /\ expires \in [Kid -> Nat]

Init ==
  /\ now = Epoch
  /\ origin = DocumentOf(1)
  /\ until = [k \in Kid |-> [v \in Dir!Value |-> 0]]
  /\ ask = [s \in Service |-> "nothing"]
  /\ answer = [s \in Service |-> "none"]
  /\ route \in Gateway
  /\ stage = 1
  /\ release = [g \in Gateway |-> 1]
  /\ deployedAt = 0
  /\ expires = [k \in Kid |-> 0]
-----------------------------------------------------------------------------
Tick ==
  /\ now < MaxTime
  /\ now' = now + 1
  /\ UNCHANGED <<origin, until, ask, answer, route, stage, release, deployedAt, expires>>

\* MUTANT of Serve: the document is computed once
ServeStale(doc) == UNCHANGED directory

Serve(doc) == Dir!Publish(doc) \/ (doc = origin /\ UNCHANGED directory)

\* Fetches of the JWKS are answered by another replica from now on.
Reroute(g) ==
  /\ g # route
  /\ route' = g
  /\ Serve(DocumentOf(release[g]))
  /\ UNCHANGED <<stage, release, deployedAt, expires>>

\* A replica is restarted with the files and kids of another release.
Deploy(g, n) ==
  /\ n \in {stage - 1, stage} \cap Release /\ release[g] # n
  /\ release' = [release EXCEPT ![g] = n]
  /\ deployedAt' = now
  /\ Serve(DocumentOf(release'[route]))
  /\ UNCHANGED <<route, stage, expires>>

StartNext ==
  /\ stage + 1 \in Release
  /\ \A g \in Gateway : release[g] = stage
  /\ now - deployedAt >= StageWait
  /\ stage' = stage + 1
  /\ UNCHANGED <<directory, route, release, deployedAt, expires>>

\* signer.sign: the key of the replica's own release, its kid in the header
Sign(g) ==
  /\ expires' = [expires EXCEPT ![Plan[release[g]].sign] = now + TTL]
  /\ UNCHANGED <<directory, route, stage, release, deployedAt>>

\* The verifier of a service asks its cache for the key of a token.
Receive(s, k) ==
  /\ expires[k] # 0
  /\ Dir!Ask(s, k)
  /\ UNCHANGED <<route, stage, release, deployedAt, expires>>

Learn(s) ==
  /\ Dir!Answer(s)
  /\ UNCHANGED <<route, stage, release, deployedAt, expires>>

Next ==
  \/ Tick
  \/ StartNext
  \/ \E g \in Gateway : Reroute(g) \/ Sign(g) \/ (\E n \in Release : Deploy(g, n))
  \/ \E s \in Service : Learn(s) \/ (\E k \in Kid : Receive(s, k))

Spec == Init /\ [][Next]_vars
-----------------------------------------------------------------------------
(* The invariant behind the properties. *)

InForce == {stage - 1, stage} \cap Release
RolledOut == \A g \in Gateway : release[g] = stage
Live(k) == now < expires[k] + Leeway

\* Replicas run the release being rolled out or the one before, and the JWKS
\* is the document of one of them.
RolloutInv ==
  /\ \A g \in Gateway : release[g] \in {stage - 1, stage}
  /\ deployedAt <= now
  /\ origin = DocumentOf(release[route])

\* Nothing is dated in the future, and no kid ever named another's key.
DatesInv ==
  /\ \A k \in Kid, v \in Dir!Value : until[k][v] <= now
  /\ \A k, v \in Kid : v # k => until[k][v] = 0
  /\ \A k \in Kid : expires[k] <= now + TTL

\* Only the keys of the releases in force have signed a token still alive; once
\* a release is rolled out, other keys' tokens are as old as the rollout.
SigningInv ==
  /\ \A k \in Kid : Live(k) => \E n \in InForce : k = Plan[n].sign
  /\ RolledOut =>
       \A k \in Kid : k # Plan[stage].sign => expires[k] <= deployedAt + TTL

\* A key both releases in force publish has been in every document for
\* UnknownLag; once a release is rolled out, so has each of its keys since then.
PublishedInv ==
  /\ \A k \in Kid :
       (\A n \in InForce : k \in Publishes(n)) => now - until[k][NoKey] >= UnknownLag
  /\ RolledOut => \A k \in Publishes(stage) : until[k][NoKey] <= deployedAt

\* A key no replica publishes was last published when a replica was redeployed.
WithdrawnInv ==
  \A k \in Kid :
    (\A g \in Gateway : k \notin Publishes(release[g])) => until[k][k] <= deployedAt

\* Replicas, documents, caches and tokens stay in step through a rotation
\* (signer.sign, signer.jwks under each release).
IInv ==
  TypeOK /\ RolloutInv /\ DatesInv /\ SigningInv /\ PublishedInv /\ WithdrawnInv
-----------------------------------------------------------------------------
(* Properties. *)

Given(s) == ask[s] # "nothing" /\ ask'[s] = "nothing"

\* No rotation step, half-done rollout or rollback makes a service refuse a
\* token for its key: while a token is within its lifetime and the verifier's
\* leeway, its kid resolves to its key, or the keys cannot be had.
LiveTokensResolve ==
  [][\A s \in Service :
       Given(s) /\ ask[s] \in Kid =>
         (Live(ask[s]) => answer'[s] \in {ask[s]} \cup Dir!Unavailable)]_vars

\* A withdrawn key is forgotten: once every replica has run, for KeyLag, a
\* release configured without it, no service is given it.
WithdrawnKeysForgotten ==
  [][\A s \in Service :
       Given(s) /\ answer'[s] \in Kid =>
         \/ \E g \in Gateway : answer'[s] \in Configured(release[g])
         \/ now - deployedAt < KeyLag]_vars
=============================================================================
