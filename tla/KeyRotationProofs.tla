-------------------------- MODULE KeyRotationProofs --------------------------
(***************************************************************************)
(* Proofs about KeyRotation, for every number of replicas and services,    *)
(* every rotation plan and every choice of the durations that satisfy      *)
(* StagedRotation: IInv is inductive, a live token's kid is never unknown, *)
(* and a withdrawn key is forgotten.                                       *)
(***************************************************************************)
EXTENDS KeyRotation, TLAPS

\* The durations are natural numbers.
LEMMA Durations ==
  /\ TTL \in Nat /\ Leeway \in Nat /\ StageWait \in Nat
  /\ KeyLag \in Nat /\ UnknownLag \in Nat /\ Epoch \in Nat
  /\ StageWait >= UnknownLag /\ StageWait >= TTL + Leeway
  /\ Epoch >= UnknownLag /\ Epoch >= KeyLag /\ Epoch > Leeway
  BY StagedRotation

\* Releases are numbered from 1 and configure kids.
LEMMA Releases ==
  /\ Release \subseteq Nat \ {0} /\ 1 \in Release
  /\ \A n \in Release : Plan[n].sign \in Kid /\ Configured(n) \subseteq Kid
<1> DEFINE Configuration == [sign : Kid, published : SUBSET Kid]
<1>1. Plan \in Seq(Configuration) /\ Plan # <<>>
  BY PlanAssumption
<1> HIDE DEF Configuration
<1>2. Release = 1..Len(Plan) /\ Len(Plan) \in Nat /\ Len(Plan) # 0
  BY <1>1 DEF Release
<1>3. \A n \in Release : Plan[n] \in Configuration
  BY <1>1, <1>2
<1>4. \A n \in Release : Plan[n].sign \in Kid /\ Plan[n].published \subseteq Kid
  BY <1>3 DEF Configuration
<1> QED
  BY <1>2, <1>4 DEF Configured

\* The document of a release names each kid it publishes by its own key.
LEMMA DocumentValue ==
  ASSUME NEW n
  PROVE  /\ DocumentOf(n) \in Dir!Document
         /\ \A k \in Kid : DocumentOf(n)[k] = IF k \in Configured(n) THEN k ELSE NoKey
  BY DEF DocumentOf, Publishes, Dir!Document, Dir!Value

\* What the initial state makes of the invariant.
LEMMA InitIInv == Init => IInv
<1> SUFFICES ASSUME Init PROVE IInv
  OBVIOUS
<1>1. InForce = {1}
  BY Releases DEF InForce, Init
<1>2. \A k \in Kid, v \in Dir!Value : until[k][v] = 0
  BY DEF Init
<1>3. \A k \in Kid : expires[k] = 0 /\ ~Live(k)
  BY Durations DEF Init, Live
<1>4. NoKey \in Dir!Value /\ Kid \subseteq Dir!Value
  BY DEF Dir!Value
<1>5. TypeOK
  <2>1. until \in [Kid -> [Dir!Value -> Nat]] /\ origin \in Dir!Document
    BY DocumentValue DEF Init
  <2>2. /\ ask \in [Service -> Dir!Question \cup {"nothing"}]
        /\ answer \in [Service -> Kid \cup Dir!Outcome]
    BY DEF Init, Dir!Outcome
  <2> QED
    BY <2>1, <2>2, Releases, Durations DEF Init, TypeOK
<1>6. RolloutInv
  BY Durations DEF Init, RolloutInv
<1>7. DatesInv
  BY <1>2, <1>3, <1>4, Durations DEF Init, DatesInv
<1>8. SigningInv
  BY <1>3, Durations DEF SigningInv, Init
<1>9. PublishedInv
  <2>1. \A k \in Kid : now - until[k][NoKey] >= UnknownLag /\ until[k][NoKey] <= deployedAt
    BY <1>2, <1>4, Durations DEF Init
  <2>2. Publishes(stage) \subseteq Kid
    BY Releases DEF Publishes, Init
  <2> QED
    BY <2>1, <2>2 DEF PublishedInv
<1>10. WithdrawnInv
  BY <1>2, <1>4 DEF WithdrawnInv, Init
<1> QED
  BY <1>5, <1>6, <1>7, <1>8, <1>9, <1>10 DEF IInv
-----------------------------------------------------------------------------
(* What the JWKS serves. *)

\* A change of the document dates what it stops saying, and nothing else.
LEMMA ServeDates ==
  ASSUME TypeOK, NEW doc \in Dir!Document, Serve(doc)
  PROVE  /\ UNCHANGED <<now, ask, answer>> /\ origin' = doc
         /\ until' \in [Kid -> [Dir!Value -> Nat]]
         /\ \A k \in Kid, v \in Dir!Value :
              until'[k][v] = IF origin[k] = v /\ doc[k] # v THEN now ELSE until[k][v]
<1>1. CASE Dir!Publish(doc)
  <2>1. until' = [k \in Kid |-> [v \in Dir!Value |->
                   IF origin[k] = v /\ doc[k] # v THEN now ELSE until[k][v]]]
    BY <1>1 DEF Dir!Publish
  <2> QED
    BY <1>1, <2>1 DEF Dir!Publish, TypeOK
<1>2. CASE doc = origin /\ UNCHANGED directory
  BY <1>2 DEF directory, TypeOK
<1> QED
  BY <1>1, <1>2 DEF Serve

\* Whatever the document changes to, dates stay in the past and no kid names
\* another's key.
LEMMA ServeDatesInv ==
  ASSUME IInv, NEW n, Serve(DocumentOf(n)), UNCHANGED expires
  PROVE  DatesInv'
<1>1. /\ now' = now /\ now \in Nat
      /\ \A k \in Kid, v \in Dir!Value :
           until'[k][v] = IF origin[k] = v /\ DocumentOf(n)[k] # v THEN now ELSE until[k][v]
  BY ServeDates, DocumentValue DEF IInv, TypeOK
<1>2. \A k, v \in Kid : v # k => origin[k] # v
  BY DocumentValue, PlanAssumption DEF IInv, RolloutInv
<1>3. Kid \subseteq Dir!Value
  BY DEF Dir!Value
<1> QED
  BY <1>1, <1>2, <1>3 DEF IInv, DatesInv

\* A kid both releases in force publish keeps its date while they are served.
LEMMA ServeKeepsPublished ==
  ASSUME IInv, NEW n, Serve(DocumentOf(n)), UNCHANGED stage,
         NEW k \in Kid, \A m \in InForce : k \in Publishes(m)
  PROVE  until'[k][NoKey] = until[k][NoKey]
<1>1. release[route] \in InForce
  BY DEF IInv, RolloutInv, TypeOK, InForce
<1>2. origin[k] # NoKey
  BY <1>1, DocumentValue, PlanAssumption DEF IInv, RolloutInv, Publishes
<1>3. NoKey \in Dir!Value
  BY DEF Dir!Value
<1> QED
  BY <1>2, <1>3, ServeDates, DocumentValue DEF IInv
-----------------------------------------------------------------------------
(* The steps. *)

\* The passing of time.
LEMMA TickIInv == IInv /\ Tick => IInv'
<1> SUFFICES ASSUME IInv, Tick PROVE IInv'
  OBVIOUS
<1> USE DEF IInv
<1>1. now' = now + 1 /\ now \in Nat /\ deployedAt \in Nat
  BY DEF Tick, TypeOK
<1>2. TypeOK'
  BY <1>1, Durations DEF Tick, TypeOK
<1>3. RolloutInv'
  BY <1>1 DEF Tick, RolloutInv
<1>4. \A k \in Kid : expires[k] \in Nat
  BY DEF TypeOK
<1>5. NoKey \in Dir!Value /\ Kid \subseteq Dir!Value
  BY DEF Dir!Value
<1>6. \A k \in Kid, v \in Dir!Value : until[k][v] \in Nat
  BY DEF TypeOK
<1>7. DatesInv'
  BY <1>1, <1>4, <1>6, Durations DEF Tick, DatesInv
<1>8. SigningInv'
  <2>1. \A k \in Kid : Live(k)' => Live(k)
    BY <1>1, <1>4, Durations DEF Live, Tick
  <2> QED
    BY <2>1 DEF SigningInv, Tick, RolledOut, InForce
<1>9. PublishedInv'
  BY <1>1, <1>5, <1>6, Durations DEF PublishedInv, Tick, RolledOut, InForce
<1>10. WithdrawnInv'
  BY DEF WithdrawnInv, Tick
<1> QED
  BY <1>2, <1>3, <1>7, <1>8, <1>9, <1>10

\* Fetches reach another replica.
LEMMA RerouteIInv ==
  ASSUME IInv, NEW g \in Gateway, Reroute(g)
  PROVE  IInv'
<1> USE DEF IInv
<1>1. /\ Serve(DocumentOf(release[g])) /\ route' = g
      /\ UNCHANGED <<stage, release, deployedAt, expires>>
  BY DEF Reroute
<1>2. /\ UNCHANGED <<now, ask, answer>> /\ origin' = DocumentOf(release[g])
      /\ until' \in [Kid -> [Dir!Value -> Nat]]
      /\ \A k \in Kid, v \in Dir!Value :
           until'[k][v] = IF origin[k] = v /\ DocumentOf(release[g])[k] # v
                          THEN now ELSE until[k][v]
  BY <1>1, ServeDates, DocumentValue
<1>3. TypeOK'
  BY <1>1, <1>2, DocumentValue DEF TypeOK
<1>4. RolloutInv'
  BY <1>1, <1>2 DEF RolloutInv
<1>5. DatesInv'
  BY <1>1, ServeDatesInv
<1>6. SigningInv'
  BY <1>1, <1>2 DEF SigningInv, Live, RolledOut, InForce
<1>7. NoKey \in Dir!Value /\ Kid \subseteq Dir!Value
  BY DEF Dir!Value
<1>8. PublishedInv'
  <2>1. ASSUME NEW k \in Kid, \A n \in InForce : k \in Publishes(n)
        PROVE  now - until'[k][NoKey] >= UnknownLag
    BY <2>1, <1>1, ServeKeepsPublished DEF PublishedInv
  <2>2. ASSUME RolledOut, NEW k \in Publishes(stage)
        PROVE  until'[k][NoKey] <= deployedAt
    <3>1. k \in Kid
      BY Releases DEF TypeOK, Publishes
    <3>2. origin = DocumentOf(stage)
      BY <2>2 DEF RolloutInv, TypeOK, RolledOut
    <3>3. origin[k] # NoKey
      BY <3>1, <3>2, DocumentValue, PlanAssumption DEF Publishes
    <3> QED
      BY <1>2, <1>7, <2>2, <3>1, <3>3 DEF PublishedInv
  <2> QED
    BY <1>1, <1>2, <2>1, <2>2 DEF PublishedInv, RolledOut, InForce, Publishes, Configured
<1>9. WithdrawnInv'
  <2>1. ASSUME NEW k \in Kid, \A h \in Gateway : k \notin Publishes(release[h])
        PROVE  until'[k][k] <= deployedAt
    <3>1. origin[k] # k
      BY <2>1, DocumentValue, PlanAssumption DEF RolloutInv, TypeOK, Publishes
    <3> QED
      BY <1>2, <1>7, <2>1, <3>1 DEF WithdrawnInv
  <2> QED
    BY <1>1, <2>1 DEF WithdrawnInv, Publishes, Configured
<1> QED
  BY <1>3, <1>4, <1>5, <1>6, <1>8, <1>9

\* A replica is restarted with another of the releases in force.
LEMMA DeployIInv ==
  ASSUME IInv, NEW g \in Gateway, NEW n \in Release, Deploy(g, n)
  PROVE  IInv'
<1> USE DEF IInv
<1> DEFINE served == release'[route]
<1>1. /\ n \in {stage - 1, stage} \cap Release
      /\ release' = [release EXCEPT ![g] = n] /\ deployedAt' = now
      /\ Serve(DocumentOf(served))
      /\ UNCHANGED <<route, stage, expires>>
  BY DEF Deploy
<1>2. /\ UNCHANGED <<now, ask, answer>> /\ origin' = DocumentOf(served)
      /\ until' \in [Kid -> [Dir!Value -> Nat]]
  BY <1>1, ServeDates, DocumentValue
<1> HIDE DEF served
<1>3. TypeOK'
  BY <1>1, <1>2, DocumentValue DEF TypeOK
<1>4. RolloutInv'
  <2>1. now \in Nat
    BY DEF TypeOK
  <2> QED
    BY <1>1, <1>2, <2>1 DEF RolloutInv, TypeOK, served
<1>5. DatesInv'
  BY <1>1, ServeDatesInv
<1>6. NoKey \in Dir!Value /\ Kid \subseteq Dir!Value
  BY DEF Dir!Value
<1>7. \A k \in Kid : until'[k][NoKey] <= deployedAt' /\ until'[k][k] <= deployedAt'
  BY <1>1, <1>2, <1>5, <1>6 DEF DatesInv
<1>8. SigningInv'
  <2>1. \A k \in Kid : Live(k)' <=> Live(k)
    BY <1>1, <1>2 DEF Live
  <2>2. \A k \in Kid : expires'[k] <= deployedAt' + TTL
    BY <1>1 DEF DatesInv
  <2> QED
    BY <1>1, <2>1, <2>2 DEF SigningInv, InForce
<1>9. PublishedInv'
  <2>1. ASSUME NEW k \in Kid, \A m \in InForce : k \in Publishes(m)
        PROVE  now - until'[k][NoKey] >= UnknownLag
    BY <2>1, <1>1, ServeKeepsPublished DEF PublishedInv
  <2>2. Publishes(stage) \subseteq Kid
    BY Releases DEF TypeOK, Publishes
  <2> QED
    BY <1>1, <1>2, <1>7, <2>1, <2>2 DEF PublishedInv, InForce, Publishes, Configured
<1>10. WithdrawnInv'
  BY <1>7 DEF WithdrawnInv
<1> QED
  BY <1>3, <1>4, <1>5, <1>8, <1>9, <1>10

\* The next release starts: what the wait is for.
LEMMA StartNextIInv == IInv /\ StartNext => IInv'
<1> SUFFICES ASSUME IInv, StartNext PROVE IInv'
  OBVIOUS
<1> USE DEF IInv
<1>1. /\ stage' = stage + 1 /\ stage + 1 \in Release /\ stage \in Release
      /\ RolledOut /\ now - deployedAt >= StageWait
      /\ UNCHANGED <<now, origin, until, ask, answer, route, release, deployedAt, expires>>
  BY DEF StartNext, RolledOut, directory, TypeOK
<1>2. stage \in Nat /\ stage # 0
  BY <1>1, Releases
<1>3. InForce' = {stage, stage + 1}
  BY <1>1, <1>2 DEF InForce
<1>4. ~RolledOut'
  <2>1. release[route] = stage /\ route \in Gateway
    BY <1>1 DEF RolledOut, TypeOK
  <2> QED
    BY <1>1, <1>2, <2>1 DEF RolledOut
<1>5. now \in Nat /\ deployedAt \in Nat
  BY DEF TypeOK
<1>6. TypeOK'
  BY <1>1 DEF TypeOK
<1>7. RolloutInv'
  BY <1>1, <1>2 DEF RolloutInv, RolledOut
<1>8. DatesInv'
  BY <1>1 DEF DatesInv
<1>9. SigningInv'
  <2>1. ASSUME NEW k \in Kid, k # Plan[stage].sign PROVE ~Live(k)
    <3>1. expires[k] <= deployedAt + TTL /\ expires[k] \in Nat
      BY <1>1, <2>1 DEF SigningInv, TypeOK
    <3> QED
      BY <1>1, <1>5, <3>1, Durations DEF Live
  <2>2. \A k \in Kid : Live(k)' <=> Live(k)
    BY <1>1 DEF Live
  <2> QED
    BY <1>3, <1>4, <2>1, <2>2 DEF SigningInv
<1>10. PublishedInv'
  <2>1. ASSUME NEW k \in Kid, k \in Publishes(stage)
        PROVE  now - until[k][NoKey] >= UnknownLag
    <3>1. until[k][NoKey] <= deployedAt
      BY <1>1, <2>1 DEF PublishedInv
    <3>2. until[k][NoKey] \in Nat
      BY DEF TypeOK, Dir!Value
    <3> QED
      BY <1>1, <1>5, <3>1, <3>2, Durations
  <2> QED
    BY <1>1, <1>3, <1>4, <2>1 DEF PublishedInv, Publishes, Configured
<1>11. WithdrawnInv'
  BY <1>1 DEF WithdrawnInv, Publishes, Configured
<1> QED
  BY <1>6, <1>7, <1>8, <1>9, <1>10, <1>11

\* A replica signs a token.
LEMMA SignIInv ==
  ASSUME IInv, NEW g \in Gateway, Sign(g)
  PROVE  IInv'
<1> USE DEF IInv
<1> DEFINE kid == Plan[release[g]].sign
<1>1. /\ expires' = [expires EXCEPT ![kid] = now + TTL]
      /\ UNCHANGED <<now, origin, until, ask, answer, route, stage, release, deployedAt>>
  BY DEF Sign, directory
<1>2. release[g] \in Release /\ kid \in Kid
  BY Releases DEF TypeOK
<1> HIDE DEF kid
<1>3. now \in Nat /\ now + TTL \in Nat
  BY Durations DEF TypeOK
<1>4. TypeOK'
  BY <1>1, <1>2, <1>3 DEF TypeOK
<1>5. RolloutInv' /\ WithdrawnInv'
  BY <1>1 DEF RolloutInv, WithdrawnInv, Publishes, Configured
<1>6. DatesInv'
  BY <1>1, <1>2, <1>3 DEF DatesInv, TypeOK
<1>7. SigningInv'
  <2>1. \E n \in InForce : kid = Plan[n].sign
    BY <1>2 DEF RolloutInv, InForce, kid
  <2>2. \A k \in Kid : k # kid => expires'[k] = expires[k]
    BY <1>1 DEF TypeOK
  <2>3. RolledOut => kid = Plan[stage].sign
    BY DEF RolledOut, kid
  <2> QED
    BY <1>1, <2>1, <2>2, <2>3 DEF SigningInv, Live, InForce, RolledOut
<1>8. PublishedInv'
  BY <1>1 DEF PublishedInv, InForce, RolledOut, Publishes, Configured
<1> QED
  BY <1>4, <1>5, <1>6, <1>7, <1>8

\* A service asks, or learns.
LEMMA CallIInv ==
  ASSUME IInv, NEW s \in Service, Learn(s) \/ \E k \in Kid : Receive(s, k)
  PROVE  IInv'
<1> USE DEF IInv
<1>1. UNCHANGED <<now, origin, until, route, stage, release, deployedAt, expires>>
  BY DEF Learn, Receive, Dir!Answer, Dir!Ask
<1>2. TypeOK'
  <2>1. CASE Learn(s)
    BY <1>1, <2>1 DEF Learn, Dir!Answer, Dir!Allowed, Dir!Outcome, Dir!Unavailable, TypeOK
  <2>2. CASE \E k \in Kid : Receive(s, k)
    BY <1>1, <2>2 DEF Receive, Dir!Ask, Dir!Question, Dir!Outcome, TypeOK
  <2> QED
    BY <2>1, <2>2
<1>3. RolloutInv' /\ DatesInv' /\ WithdrawnInv'
  BY <1>1 DEF RolloutInv, DatesInv, WithdrawnInv, Publishes, Configured
<1>4. SigningInv' /\ PublishedInv'
  BY <1>1 DEF SigningInv, PublishedInv, Live, InForce, RolledOut, Publishes, Configured
<1> QED
  BY <1>2, <1>3, <1>4

\* Every step preserves the invariant.
LEMMA NextIInv == IInv /\ [Next]_vars => IInv'
<1> SUFFICES ASSUME IInv, [Next]_vars PROVE IInv'
  OBVIOUS
<1>1. CASE Tick
  BY <1>1, TickIInv
<1>2. CASE StartNext
  BY <1>2, StartNextIInv
<1>3. ASSUME NEW g \in Gateway, Reroute(g) PROVE IInv'
  BY <1>3, RerouteIInv
<1>4. ASSUME NEW g \in Gateway, Sign(g) PROVE IInv'
  BY <1>4, SignIInv
<1>5. ASSUME NEW g \in Gateway, NEW n \in Release, Deploy(g, n) PROVE IInv'
  BY <1>5, DeployIInv
<1>6. ASSUME NEW s \in Service, Learn(s) \/ \E k \in Kid : Receive(s, k) PROVE IInv'
  BY <1>6, CallIInv
<1>7. CASE UNCHANGED vars
  BY <1>7 DEF vars, directory, IInv, TypeOK, RolloutInv, DatesInv, SigningInv,
              PublishedInv, WithdrawnInv, Live, InForce, RolledOut, Publishes, Configured
<1> QED
  BY <1>1, <1>2, <1>3, <1>4, <1>5, <1>6, <1>7 DEF Next

\* The rollout, the documents and the tokens stay in step through a rotation.
THEOREM RotationInvariant == Spec => []IInv
<1> QED
  BY InitIInv, NextIInv, PTL DEF Spec
-----------------------------------------------------------------------------
(* What a service is told. *)

\* A key that signed a live token is published by both releases in force.
LEMMA LiveKeyPublished ==
  ASSUME IInv, NEW k \in Kid, Live(k)
  PROVE  \A n \in InForce : k \in Publishes(n)
<1>1. PICK m \in InForce : k = Plan[m].sign
  BY DEF IInv, SigningInv
<1> SUFFICES ASSUME NEW n \in InForce PROVE k \in Configured(n)
  BY DEF Publishes
<1>2. stage \in Nat /\ Release \subseteq Nat \ {0}
  BY Releases DEF IInv, TypeOK
<1>3. m \in Release /\ n \in Release /\ (m = n \/ m = n - 1 \/ n = m - 1)
  BY <1>2 DEF InForce
<1>4. CASE m = n
  BY <1>1, <1>4 DEF Configured
<1>5. CASE m = n - 1
  <2>1. n \in Release \ {1}
    BY <1>2, <1>3, <1>5
  <2> QED
    BY <1>1, <1>5, <2>1, StagedRotation
<1>6. CASE n = m - 1
  <2>1. m \in Release \ {1}
    BY <1>2, <1>3, <1>6
  <2> QED
    BY <1>1, <1>6, <2>1, StagedRotation
<1> QED
  BY <1>3, <1>4, <1>5, <1>6

\* Only Learn gives an answer, one the directory allows.
LEMMA GivenByDirectory ==
  ASSUME IInv, Next, NEW s \in Service, Given(s)
  PROVE  answer'[s] \in Dir!Allowed(ask[s])
<1> USE DEF IInv
<1>1. CASE \E t \in Service : Learn(t)
  <2>1. PICK t \in Service : Learn(t)
    BY <1>1
  <2>2. t = s
    BY <2>1 DEF Learn, Dir!Answer, Given, TypeOK
  <2> QED
    BY <2>1, <2>2 DEF Learn, Dir!Answer, TypeOK
<1>2. CASE \E t \in Service, k \in Kid : Receive(t, k)
  <2>1. PICK t \in Service, k \in Kid : Receive(t, k)
    BY <1>2
  <2>2. ask[t] = "nothing" /\ ask' = [ask EXCEPT ![t] = k]
    BY <2>1 DEF Receive, Dir!Ask
  <2>3. s # t
    BY <2>2 DEF Given
  <2> QED
    BY <2>2, <2>3 DEF Given, TypeOK
<1>3. CASE Tick \/ StartNext
  BY <1>3 DEF Tick, StartNext, directory, Given
<1>4. ASSUME NEW g \in Gateway, Reroute(g) PROVE FALSE
  BY <1>4, ServeDates, DocumentValue DEF Reroute, Given
<1>5. ASSUME NEW g \in Gateway, NEW n \in Release, Deploy(g, n) PROVE FALSE
  BY <1>5, ServeDates, DocumentValue DEF Deploy, Given
<1>6. ASSUME NEW g \in Gateway, Sign(g) PROVE FALSE
  BY <1>6 DEF Sign, directory, Given
<1> QED
  BY <1>1, <1>2, <1>3, <1>4, <1>5, <1>6 DEF Next

\* No key but its own can be given for a kid.
LEMMA OwnKeyOnly ==
  ASSUME IInv, NEW k \in Kid, NEW v \in Kid, Dir!Said(k, v, KeyLag)
  PROVE  v = k
<1>1. SUFFICES ASSUME v # k PROVE FALSE
  OBVIOUS
<1>2. origin[k] # v
  BY <1>1, DocumentValue, PlanAssumption DEF IInv, RolloutInv
<1>3. until[k][v] = 0 /\ now \in Nat /\ now >= Epoch
  BY <1>1 DEF IInv, DatesInv, TypeOK
<1> QED
  BY <1>2, <1>3, Durations DEF Dir!Said

\* No step of a rotation makes a service refuse a live token for its key.
THEOREM RotationLosesNoToken == Spec => LiveTokensResolve
<1>1. ASSUME IInv, Next, NEW s \in Service, Given(s), ask[s] \in Kid, Live(ask[s])
      PROVE  answer'[s] \in {ask[s]} \cup Dir!Unavailable
  <2> DEFINE k == ask[s]
  <2>1. answer'[s] \in Dir!Allowed(k)
    BY <1>1, GivenByDirectory
  <2>2. \A n \in InForce : k \in Publishes(n)
    BY <1>1, LiveKeyPublished
  <2>3. ~Dir!Said(k, NoKey, UnknownLag)
    <3>1. now - until[k][NoKey] >= UnknownLag
      BY <1>1, <2>2 DEF IInv, PublishedInv
    <3>2. release[route] \in InForce
      BY <1>1 DEF IInv, RolloutInv, TypeOK, InForce
    <3>3. origin[k] # NoKey
      BY <1>1, <2>2, <3>2, DocumentValue, PlanAssumption DEF IInv, RolloutInv, Publishes
    <3>4. now \in Nat /\ until[k][NoKey] \in Nat
      BY <1>1 DEF IInv, TypeOK, Dir!Value
    <3> QED
      BY <3>1, <3>3, <3>4, Durations DEF Dir!Said
  <2> QED
    BY <1>1, <2>1, <2>3, OwnKeyOnly DEF Dir!Allowed
<1>2. IInv /\ [Next]_vars =>
        [\A s \in Service :
           Given(s) /\ ask[s] \in Kid =>
             (Live(ask[s]) => answer'[s] \in {ask[s]} \cup Dir!Unavailable)]_vars
  BY <1>1
<1> QED
  BY <1>2, RotationInvariant, PTL DEF Spec, LiveTokensResolve

\* A withdrawn key is forgotten KeyLag after its withdrawal is rolled out.
THEOREM RotationForgetsKeys == Spec => WithdrawnKeysForgotten
<1>1. ASSUME IInv, Next, NEW s \in Service, Given(s), answer'[s] \in Kid,
             \A g \in Gateway : answer'[s] \notin Configured(release[g])
      PROVE  now - deployedAt < KeyLag
  <2> DEFINE k == answer'[s]
  <2>1. k \notin Dir!Outcome
    BY <1>1, PlanAssumption
  <2>2. ask[s] \in Kid /\ Dir!Said(ask[s], k, KeyLag)
    BY <1>1, <2>1, GivenByDirectory DEF Dir!Allowed, Dir!Outcome, Dir!Unavailable
  <2>3. Dir!Said(k, k, KeyLag)
    BY <1>1, <2>2, OwnKeyOnly
  <2>4. origin[k] # k
    BY <1>1, DocumentValue, PlanAssumption DEF IInv, RolloutInv, TypeOK
  <2>5. until[k][k] <= deployedAt
    BY <1>1 DEF IInv, WithdrawnInv, Publishes
  <2>6. until[k][k] \in Nat /\ deployedAt \in Nat /\ now \in Nat
    BY <1>1 DEF IInv, TypeOK, Dir!Value
  <2> QED
    BY <2>3, <2>4, <2>5, <2>6, Durations DEF Dir!Said
<1>2. IInv /\ [Next]_vars =>
        [\A s \in Service :
           Given(s) /\ answer'[s] \in Kid =>
             \/ \E g \in Gateway : answer'[s] \in Configured(release[g])
             \/ now - deployedAt < KeyLag]_vars
  BY <1>1
<1> QED
  BY <1>2, RotationInvariant, PTL DEF Spec, WithdrawnKeysForgotten
=============================================================================
