-------------------------- MODULE TokenChainProofs --------------------------
(***************************************************************************)
(* Proofs about TokenChain, for any services, external tokens, durations,  *)
(* clock skew within the leeway, and number of tokens: IInv is inductive,  *)
(* and with it what a chain keeps holds of every token of every chain.     *)
(***************************************************************************)
EXTENDS TokenChain, VerifierProofs, TLAPS

\* The durations and the bounds are natural numbers.
LEMMA Numbers ==
  /\ Second \in Nat \ {0} /\ TTL \in Nat \ {0}
  /\ Leeway \in Nat /\ Skew \in Nat /\ Skew <= Leeway
  /\ Epoch \in Nat /\ Epoch >= Second /\ Epoch > Leeway + Skew
  /\ MaxTokens \in Nat /\ MaxTime \in Nat
  BY ChainAssumption, SecondPositive, TTLPositive, LeewayNatural

\* A date is the instant rounded down to its second.
LEMMA DateBounds ==
  ASSUME NEW t \in Nat
  PROVE  /\ NumericDate(t) \in Nat
         /\ NumericDate(t) <= t /\ t < NumericDate(t) + Second
         /\ t >= Second => NumericDate(t) > 0
  BY SecondPositive DEF NumericDate

\* From the epoch on, no date is the absent one.
LEMMA DatePositive ==
  ASSUME IInv PROVE NumericDate(now) \in Nat \ {0}
<1>1. now \in Nat /\ now >= Second
  BY Numbers DEF IInv, TypeOK, Time, IssuedInv
<1> QED
  BY <1>1, DateBounds

\* A later instant has a later date or the same.
LEMMA DateMonotone ==
  ASSUME NEW s \in Nat, NEW t \in Nat, s <= t
  PROVE  NumericDate(s) <= NumericDate(t)
  BY SecondPositive DEF NumericDate

\* A token issued with the whole lifetime ends with it, less the fraction of a
\* second, and not before the second it is issued in.
LEMMA WholeLifetime ==
  ASSUME NEW t \in Nat
  PROVE  /\ NumericDate(t + TTL) \in Nat /\ NumericDate(t) <= NumericDate(t + TTL)
         /\ NumericDate(t + TTL) <= t + TTL /\ t + TTL < NumericDate(t + TTL) + Second
<1>1. t + TTL \in Nat /\ t <= t + TTL
  BY Numbers
<1> QED
  BY <1>1, DateBounds, DateMonotone

\* A token converted from an external one ends with its lifetime or with the
\* external one, whichever is sooner, less the fraction of a second.
LEMMA ConvertedLifetime ==
  ASSUME NEW t \in Nat, NEW x \in External, x.sourceExp > t
  PROVE  LET exp == NumericDate(ConversionExpiry(x, t))
         IN  /\ exp \in Nat /\ NumericDate(t) <= exp
             /\ exp <= t + TTL /\ exp <= x.sourceExp
             /\ exp <= NumericDate(x.sourceExp)
             /\ exp + Second > t + TTL \/ exp + Second > x.sourceExp
<1> DEFINE end == ConversionExpiry(x, t)
<1>1. x.sourceExp \in Nat /\ t + TTL \in Nat
  BY ChainAssumption, Numbers
<1>2. /\ end \in Nat /\ t <= end /\ end <= t + TTL /\ end <= x.sourceExp
      /\ end = t + TTL \/ end = x.sourceExp
  BY <1>1, Numbers DEF ConversionExpiry, Earlier
<1> HIDE DEF end
<1>3. /\ NumericDate(end) \in Nat
      /\ NumericDate(end) <= end /\ end < NumericDate(end) + Second
  BY <1>2, DateBounds
<1>4. NumericDate(t) <= NumericDate(end) /\ NumericDate(end) <= NumericDate(x.sourceExp)
  BY <1>1, <1>2, DateMonotone
<1>5. NumericDate(end) <= t + TTL /\ NumericDate(end) <= x.sourceExp
  BY <1>1, <1>2, <1>3
<1>6. NumericDate(end) + Second > t + TTL \/ NumericDate(end) + Second > x.sourceExp
  BY <1>2, <1>3
<1> QED
  BY <1>3, <1>4, <1>5, <1>6 DEF end

\* Issue adds one token and leaves the others as they are.
LEMMA IssueAppends ==
  ASSUME IInv, NEW claims, NEW parent, NEW origin, Issue(claims, parent, origin)
  PROVE  /\ Len(issued) \in Nat /\ Token = 1..Len(issued)
         /\ Token' = 1..Next1 /\ Next1 = Len(issued) + 1 /\ Len(issued') = Next1
         /\ Next1 <= MaxTokens
         /\ \A n \in Token : issued'[n] = issued[n]
         /\ issued'[Next1] = [claims |-> claims, born |-> now,
                              parent |-> parent, origin |-> origin]
         /\ issued' \in Seq({issued'[n] : n \in Token'})
<1> DEFINE e == [claims |-> claims, born |-> now, parent |-> parent, origin |-> origin]
           S == {issued[n] : n \in Token}
<1>1. issued \in Seq(S) /\ S \subseteq S \cup {e} /\ e \in S \cup {e}
  BY DEF IInv, IssuedInv
<1>2. issued \in Seq(S \cup {e})
  BY <1>1
<1>3. issued' = Append(issued, e) /\ Len(issued) < MaxTokens
  BY DEF Issue
<1> HIDE DEF e
<1>4. Len(issued) \in Nat /\ Token = 1..Len(issued)
  BY <1>2 DEF Token
<1>5. /\ issued' \in Seq(S \cup {e})
      /\ Len(issued') = Len(issued) + 1
      /\ \A n \in 1..Len(issued) : issued'[n] = issued[n]
      /\ issued'[Len(issued) + 1] = e
  BY <1>1, <1>2, <1>3
<1>6. Token' = 1..(Len(issued) + 1)
  BY <1>4, <1>5 DEF Token
<1>7. {issued'[n] : n \in Token'} = S \cup {e}
  BY <1>4, <1>5, <1>6
<1>8. Next1 = Len(issued) + 1 /\ Next1 <= MaxTokens
  BY <1>3, <1>4, Numbers DEF Next1
<1>9. issued' \in Seq({issued'[n] : n \in Token'})
  BY <1>5, <1>7
<1> QED
  BY <1>4, <1>5, <1>6, <1>8, <1>9 DEF e
-----------------------------------------------------------------------------
(* What a derivation owes the chain, and that it is enough. *)

\* The parent comes before the token, and the root is one that was accepted.
WellRooted(parent, origin) ==
  /\ parent \in 0..Len(issued)
  /\ \/ origin = MachineOrigin
     \/ origin \in External /\ ValidExternalToken(origin)

\* It enters with the external token at the root.
Entering(parent, origin) == parent = 0 /\ origin # MachineOrigin

\* Its dates and numbers are those of a token issued now.
WellDated(c, parent, origin) ==
  /\ c.iat = NumericDate(now)
  /\ c.exp \in Nat /\ c.iat <= c.exp /\ c.exp <= now + TTL
  /\ c.srcExp \in Nat
  /\ Entering(parent, origin) => c.exp <= origin.sourceExp /\ c.exp <= c.srcExp
  /\ \/ c.exp + Second > now + TTL
     \/ Entering(parent, origin) /\ c.exp + Second > origin.sourceExp
  /\ c.jti = Next1 /\ c.txn \in 1..Next1

\* It carries what the chain keeps.
KeepsUser(c, parent, origin) ==
  origin # MachineOrigin =>
    /\ c.scope = origin.scope /\ c.tenant = origin.tenant /\ c.event = origin.event
    /\ parent = 0 => c.sub = origin.subject /\ c.originSub = Blank
    /\ parent # 0 => /\ c.originSub = origin.subject /\ c.srcJti = parent
                     /\ c.txn = issued[parent].claims.txn

KeepsMachine(c, parent, origin) ==
  /\ origin = MachineOrigin <=>
       /\ c.use = TokenUseService
       /\ c.originSub = Blank /\ c.scope = Blank /\ c.srcJti = NoId
       /\ c.tenant = Blank /\ c.event = Blank
  /\ origin = MachineOrigin /\ parent # 0 => c.txn = issued[parent].claims.txn

FollowsContext(c, parent) ==
  parent # 0 => /\ now < issued[parent].claims.exp
                /\ issued[parent].claims.aud = <<c.client>>

\* What LifetimeFollowsSource and DatesInv ask of one token.
LifetimeOf(t) ==
  /\ t.claims.iat <= t.claims.exp /\ t.claims.exp <= t.born + TTL
  /\ Entering(t.parent, t.origin) =>
       t.claims.exp <= t.origin.sourceExp /\ t.claims.exp <= t.claims.srcExp
  /\ \/ t.claims.exp + Second > t.born + TTL
     \/ Entering(t.parent, t.origin) /\ t.claims.exp + Second > t.origin.sourceExp

\* DatesInv, token by token.
LEMMA DatesTokenByToken ==
  DatesInv <=> \A n \in Token : /\ issued[n].claims.iat = NumericDate(issued[n].born)
                                /\ LifetimeOf(issued[n])
  BY DEF DatesInv, LifetimeFollowsSource, Ingress, LifetimeOf, Entering

\* Issuing such a token keeps the invariant.
LEMMA IssueIInv ==
  ASSUME IInv, NEW c, NEW parent, NEW origin, Issue(c, parent, origin),
         WellRooted(parent, origin), WellDated(c, parent, origin), SoundClaims(c, c.aud[1]),
         KeepsUser(c, parent, origin), KeepsMachine(c, parent, origin),
         FollowsContext(c, parent),
         now' = now, held' = held,
         context' \in [Service -> Token \cup {NoContext}]
  PROVE  IInv'
<1>1. /\ Len(issued) \in Nat /\ Token = 1..Len(issued)
      /\ Token' = 1..Next1 /\ Next1 = Len(issued) + 1 /\ Len(issued') = Next1
      /\ Next1 <= MaxTokens
      /\ \A n \in Token : issued'[n] = issued[n]
      /\ issued'[Next1] = [claims |-> c, born |-> now,
                           parent |-> parent, origin |-> origin]
      /\ issued' \in Seq({issued'[n] : n \in Token'})
  BY IssueAppends
<1>2. \A n \in Token' : n \in Token \/ n = Next1
  BY <1>1
<1>3. \A n \in Token : n \in Nat /\ n # 0 /\ issued[n].parent \in 0..(n - 1)
  BY <1>1 DEF IInv, TypeOK
<1>4. \A n \in Token : issued[n].parent # 0 => issued'[issued[n].parent] = issued[issued[n].parent]
  <2> SUFFICES ASSUME NEW n \in Token, NEW p, p = issued[n].parent, p # 0
               PROVE  issued'[p] = issued[p]
    OBVIOUS
  <2>1. n \in 1..Len(issued) /\ p \in 0..(n - 1)
    BY <1>1, <1>3
  <2>2. p \in Token
    BY <1>1, <2>1
  <2> QED
    BY <1>1, <2>2
<1>5. parent # 0 => issued'[parent] = issued[parent]
  BY <1>1 DEF WellRooted
<1>6. now \in Nat /\ NumericDate(now) \in Nat
  BY DateBounds DEF IInv, TypeOK, Time
<1>7. TypeOK'
  <2>1. now' \in Time /\ Len(issued') <= MaxTokens
    BY <1>1, <1>6 DEF Time
  <2>2. \A n \in Token' :
         /\ {issued'[n].claims.iat, issued'[n].claims.exp, issued'[n].claims.srcExp} \subseteq Time
         /\ issued'[n].claims.jti = n /\ issued'[n].claims.txn \in 1..n
         /\ issued'[n].parent \in 0..(n - 1)
    <3> SUFFICES ASSUME NEW n \in Token'
                 PROVE  /\ {issued'[n].claims.iat, issued'[n].claims.exp, issued'[n].claims.srcExp} \subseteq Time
                        /\ issued'[n].claims.jti = n /\ issued'[n].claims.txn \in 1..n
                        /\ issued'[n].parent \in 0..(n - 1)
      OBVIOUS
    <3>1. CASE n \in Token
      BY <1>1, <3>1 DEF IInv, TypeOK
    <3>2. CASE n = Next1
      BY <1>1, <1>6, <3>2 DEF WellDated, WellRooted, Time
    <3> QED
      BY <1>2, <3>1, <3>2
  <2>3. Token \subseteq Token'
    BY <1>1
  <2>4. held' \in [Service -> SUBSET Token']
    BY <2>3 DEF IInv, TypeOK
  <2>5. context' \in [Service -> Token' \cup {NoContext}]
    BY <2>3
  <2> QED
    BY <2>1, <2>2, <2>4, <2>5 DEF TypeOK, Token
<1>8. IssuedInv'
  <2>1. now' >= Epoch
    BY DEF IInv, IssuedInv
  <2>2. \A n \in Token' :
         /\ issued'[n].born \in Epoch..now
         /\ \/ issued'[n].origin = MachineOrigin
            \/ issued'[n].origin \in External /\ ValidExternalToken(issued'[n].origin)
    <3> SUFFICES ASSUME NEW n \in Token'
                 PROVE  /\ issued'[n].born \in Epoch..now
                        /\ \/ issued'[n].origin = MachineOrigin
                           \/ /\ issued'[n].origin \in External
                              /\ ValidExternalToken(issued'[n].origin)
      OBVIOUS
    <3>1. CASE n \in Token
      BY <1>1, <3>1 DEF IInv, IssuedInv
    <3>2. CASE n = Next1
      <4>1. now \in Epoch..now
        BY <1>6, Numbers DEF IInv, IssuedInv
      <4> QED
        BY <1>1, <3>2, <4>1 DEF WellRooted
    <3> QED
      BY <1>2, <3>1, <3>2
  <2> QED
    BY <1>1, <2>1, <2>2 DEF IssuedInv, Token
<1>9. DatesInv'
  <2>1. \A n \in Token' :
         /\ issued'[n].claims.iat = NumericDate(issued'[n].born)
         /\ LifetimeOf(issued'[n])
    BY <1>1, <1>2, DatesTokenByToken DEF IInv, WellDated, LifetimeOf
  <2> QED
    BY <2>1 DEF DatesInv, LifetimeFollowsSource, Ingress, LifetimeOf, Entering, Token
<1>10. ClaimsInv'
  <2>1. \A n \in Token' : SoundClaims(issued'[n].claims, issued'[n].claims.aud[1])
    BY <1>1, <1>2 DEF IInv, ClaimsInv
  <2> QED
    BY <2>1 DEF ClaimsInv, Token
<1>11. ChainKeepsUser'
  <2> SUFFICES ASSUME NEW n \in Token', issued'[n].origin # MachineOrigin
               PROVE  LET d == issued'[n].claims
                          x == issued'[n].origin
                      IN  /\ d.scope = x.scope /\ d.tenant = x.tenant /\ d.event = x.event
                          /\ IF issued'[n].parent = 0
                             THEN d.sub = x.subject /\ d.originSub = Blank
                             ELSE /\ d.originSub = x.subject
                                  /\ d.srcJti = issued'[n].parent
                                  /\ d.txn = issued'[issued'[n].parent].claims.txn
    BY DEF ChainKeepsUser, Token
  <2>1. CASE n \in Token
    <3>1. issued'[n] = issued[n]
      BY <1>1, <2>1
    <3>2. issued[n].parent # 0 => issued'[issued[n].parent] = issued[issued[n].parent]
      BY <1>4, <2>1
    <3> QED
      BY <2>1, <3>1, <3>2 DEF IInv, ChainKeepsUser
  <2>2. CASE n = Next1
    BY <1>1, <1>5, <2>2 DEF KeepsUser
  <2> QED
    BY <1>2, <2>1, <2>2
<1>12. ChainKeepsMachine'
  <2> SUFFICES ASSUME NEW n \in Token'
               PROVE  LET d == issued'[n].claims
                          p == issued'[n].parent
                      IN  /\ issued'[n].origin = MachineOrigin <=>
                               /\ d.use = TokenUseService
                               /\ d.originSub = Blank /\ d.scope = Blank /\ d.srcJti = NoId
                               /\ d.tenant = Blank /\ d.event = Blank
                          /\ issued'[n].origin = MachineOrigin /\ p # 0 =>
                               d.txn = issued'[p].claims.txn
    BY DEF ChainKeepsMachine, Token
  <2>1. CASE n \in Token
    <3>1. issued'[n] = issued[n]
      BY <1>1, <2>1
    <3>2. issued[n].parent # 0 => issued'[issued[n].parent] = issued[issued[n].parent]
      BY <1>4, <2>1
    <3> QED
      BY <2>1, <3>1, <3>2 DEF IInv, ChainKeepsMachine
  <2>2. CASE n = Next1
    BY <1>1, <1>5, <2>2 DEF KeepsMachine
  <2> QED
    BY <1>2, <2>1, <2>2
<1>13. HopsFollowTheirContext'
  <2>1. \A n \in Token' :
         issued'[n].parent # 0 =>
           /\ issued'[n].born < issued'[issued'[n].parent].claims.exp
           /\ issued'[issued'[n].parent].claims.aud = <<issued'[n].claims.client>>
    <3> SUFFICES ASSUME NEW n \in Token', NEW p, p = issued'[n].parent, p # 0
                 PROVE  /\ issued'[n].born < issued'[p].claims.exp
                        /\ issued'[p].claims.aud = <<issued'[n].claims.client>>
      OBVIOUS
    <3>1. CASE n \in Token
      <4>1. issued'[n] = issued[n]
        BY <1>1, <3>1
      <4>2. issued'[p] = issued[p]
        BY <1>4, <3>1, <4>1
      <4> QED
        BY <3>1, <4>1, <4>2 DEF IInv, HopsFollowTheirContext
    <3>2. CASE n = Next1
      BY <1>1, <1>5, <3>2 DEF FollowsContext
    <3> QED
      BY <1>2, <3>1, <3>2
  <2> QED
    BY <2>1 DEF HopsFollowTheirContext, Token
<1> QED
  BY <1>7, <1>8, <1>9, <1>10, <1>11, <1>12, <1>13 DEF IInv
-----------------------------------------------------------------------------
(* IInv is inductive. *)

\* The chain starts with no token.
LEMMA InitIInv == Init => IInv
<1> SUFFICES ASSUME Init PROVE IInv
  OBVIOUS
<1>1. Len(issued) = 0 /\ Token = {}
  BY DEF Init, Token
<1>2. now \in Nat /\ now >= Epoch
  BY Numbers DEF Init
<1>3. TypeOK
  BY <1>1, <1>2, Numbers DEF Init, TypeOK, Time
<1>4. IssuedInv
  BY <1>1, <1>2 DEF Init, IssuedInv
<1> QED
  BY <1>1, <1>3, <1>4 DEF IInv, DatesInv, LifetimeFollowsSource, ClaimsInv, ChainKeepsUser,
     ChainKeepsMachine, HopsFollowTheirContext

\* What leaves the tokens alone keeps what holds of them.
LEMMA TokensKept ==
  ASSUME IInv, issued' = issued
  PROVE  Token' = Token /\ DatesInv' /\ ClaimsInv'
         /\ ChainKeepsUser' /\ ChainKeepsMachine' /\ HopsFollowTheirContext'
  BY DEF IInv, Token, DatesInv, LifetimeFollowsSource, Ingress, ClaimsInv, ChainKeepsUser,
     ChainKeepsMachine, HopsFollowTheirContext

\* Time passes over the tokens issued.
LEMMA TickIInv == ASSUME IInv, Tick PROVE IInv'
<1> USE DEF Tick, IInv
<1>1. now \in Nat /\ now' = now + 1
  BY DEF TypeOK, Time
<1>2. TypeOK'
  BY <1>1, TokensKept DEF TypeOK, Time
<1>3. IssuedInv'
  <2>1. \A n \in Token : issued[n].born \in Epoch..now'
    BY <1>1, Numbers DEF IssuedInv
  <2>2. now' >= Epoch
    BY <1>1, Numbers DEF IssuedInv
  <2> QED
    BY <2>1, <2>2, TokensKept DEF IssuedInv
<1> QED
  BY <1>2, <1>3, TokensKept

\* A service that verifies a token holds one that was issued.
LEMMA ReceiveIInv ==
  ASSUME IInv, NEW s \in Service, NEW n \in Token, NEW skew \in -Skew..Skew,
         Receive(s, n, skew)
  PROVE  IInv'
<1>1. TypeOK'
  BY TokensKept DEF Receive, IInv, TypeOK
<1>2. IssuedInv'
  BY TokensKept DEF Receive, IInv, IssuedInv
<1> QED
  BY <1>1, <1>2, TokensKept DEF Receive, IInv

\* The context a service presents is a token it holds.
LEMMA PresentIInv ==
  ASSUME IInv, NEW s \in Service, NEW n \in Token, Present(s, n)
  PROVE  IInv'
<1>1. TypeOK'
  BY TokensKept DEF Present, IInv, TypeOK
<1>2. IssuedInv'
  BY TokensKept DEF Present, IInv, IssuedInv
<1> QED
  BY <1>1, <1>2, TokensKept DEF Present, IInv

\* A refusal drops the context.
LEMMA RefuseIInv ==
  ASSUME IInv, NEW s \in Service, NEW to \in Service, Refuse(s, to)
  PROVE  IInv'
<1>1. TypeOK'
  BY TokensKept DEF Refuse, IInv, TypeOK, NoContext
<1>2. IssuedInv'
  BY TokensKept DEF Refuse, IInv, IssuedInv
<1> QED
  BY <1>1, <1>2, TokensKept DEF Refuse, IInv

\* A conversion starts the user's chain.
LEMMA ConvertIInv ==
  ASSUME IInv, NEW x \in External, Convert(x)
  PROVE  IInv'
<1> DEFINE exp == NumericDate(ConversionExpiry(x, now))
<1>1. now \in Nat /\ x.sourceExp > now /\ ValidExternalToken(x)
  BY DEF IInv, TypeOK, Time, Convert, MayConvert
<1>2. /\ exp \in Nat /\ NumericDate(now) <= exp
      /\ exp <= now + TTL /\ exp <= x.sourceExp /\ exp <= NumericDate(x.sourceExp)
      /\ exp + Second > now + TTL \/ exp + Second > x.sourceExp
  BY <1>1, ConvertedLifetime
<1> HIDE DEF exp
<1>12. x.sourceExp \in Nat /\ NumericDate(x.sourceExp) \in Nat
  BY <1>1, ChainAssumption, DateBounds
<1>13. NumericDate(now) \in Nat \ {0}
  BY DatePositive
<1>3. PICK c : c = ExternalTokenClaims(x, now, Next1, Next1)
  OBVIOUS
<1>4. /\ c.iss = IssuerID /\ c.sub = x.subject /\ c.aud = <<x.audience>>
      /\ c.jti = Next1 /\ c.txn = Next1
      /\ c.iat = NumericDate(now) /\ c.nbf = NumericDate(now) /\ c.exp = exp
      /\ c.use = x.use /\ c.client = x.client /\ c.scope = x.scope
      /\ c.srcJti = x.sourceJti /\ c.srcExp = NumericDate(x.sourceExp)
      /\ c.originSub = Blank /\ c.tenant = x.tenant /\ c.event = x.event
  BY <1>2, <1>3 DEF ExternalTokenClaims, SignedClaims, exp
<1>5. x # MachineOrigin
  BY <1>1 DEF MachineOrigin, ValidExternalToken
<1>6. Issue(c, 0, x) /\ Len(issued) \in Nat /\ Next1 = Len(issued) + 1
  BY <1>3, IssueAppends DEF Convert
<1>7. WellRooted(0, x)
  BY <1>1, <1>6 DEF WellRooted
<1>8. WellDated(c, 0, x)
  BY <1>1, <1>2, <1>4, <1>5, <1>6, <1>12 DEF WellDated, Entering
<1>9. SoundClaims(c, c.aud[1])
  <2>1. c.aud = <<c.aud[1]>>
    BY <1>4
  <2>2. ValidateOriginClaims(c)
    <3>1. c.srcExp # NoTime
      BY <1>2, <1>4, <1>12, <1>13 DEF NoTime
    <3> QED
      BY <1>1, <1>4, <3>1 DEF ValidExternalToken, ValidateOriginClaims,
         ValidateExternalOriginClaims
  <2> QED
    BY <1>1, <1>2, <1>4, <1>6, <1>13, <2>1, <2>2, ChainAssumption
       DEF SoundClaims, ValidExternalToken, NoId, NoTime
<1>10. KeepsUser(c, 0, x) /\ KeepsMachine(c, 0, x) /\ FollowsContext(c, 0)
  BY <1>1, <1>4, <1>5 DEF KeepsUser, KeepsMachine, FollowsContext, ValidExternalToken
<1>11. now' = now /\ held' = held /\ context' \in [Service -> Token \cup {NoContext}]
  BY DEF Convert, IInv, TypeOK
<1> QED
  BY <1>6, <1>7, <1>8, <1>9, <1>10, <1>11, IssueIInv

\* A context presented is a token, and its presenter has a name.
LEMMA ContextIsToken ==
  ASSUME IInv, NEW s \in Service, context[s] # NoContext
  PROVE  /\ context[s] \in Token /\ context[s] \in 1..Len(issued)
         /\ Len(issued) \in Nat /\ s # Blank
<1>1. context[s] \in Token
  BY DEF IInv, TypeOK
<1>2. issued \in Seq({issued[n] : n \in Token})
  BY DEF IInv, IssuedInv
<1> QED
  BY <1>1, <1>2, ChainAssumption DEF Token

\* The token a hop continues is alive and addressed to the caller alone.
LEMMA ContextFollowed ==
  ASSUME IInv, NEW s \in Service, NEW n \in Token,
         ValidContextToken(issued[n].claims, s, now)
  PROVE  now < issued[n].claims.exp /\ issued[n].claims.aud = <<s>>
<1>1. issued[n].claims.aud = <<issued[n].claims.aud[1]>>
  BY DEF IInv, ClaimsInv, SoundClaims
<1>2. PICK i \in DOMAIN issued[n].claims.aud : issued[n].claims.aud[i] = s
  BY DEF ValidContextToken, Names
<1>3. i = 1
  BY <1>1, <1>2
<1>4. now < issued[n].claims.exp
  BY DEF ValidContextToken, IInv, TypeOK, Time
<1> QED
  BY <1>1, <1>2, <1>3, <1>4

\* A re-issue continues a user's chain, never a machine's.
LEMMA ReissueUserIInv ==
  ASSUME IInv, NEW s \in Service, NEW to \in Service, ReissueUser(s, to)
  PROVE  IInv'
<1> DEFINE p == issued[context[s]].claims
           x == issued[context[s]].origin
<1>1. /\ context[s] # NoContext /\ to # Blank /\ s # Blank
      /\ ValidContextToken(p, s, now) /\ ValidUserOriginContext(p)
  BY DEF ReissueUser, MayReissueUser
<1>2. context[s] \in Token /\ context[s] \in 1..Len(issued) /\ Len(issued) \in Nat
  BY <1>1, ContextIsToken
<1>3. now \in Nat /\ p.jti = context[s] /\ p.txn \in 1..context[s]
  BY <1>2 DEF IInv, TypeOK, Time
<1>4. now < p.exp /\ p.aud = <<s>>
  BY <1>1, <1>2, ContextFollowed
<1>5. PICK c : c = UserOriginServiceClaims(to, s, p, now, Next1)
  OBVIOUS
<1>6. /\ c.iss = IssuerID /\ c.sub = s /\ c.aud = <<to>>
      /\ c.jti = Next1 /\ c.txn = p.txn
      /\ c.iat = NumericDate(now) /\ c.nbf = NumericDate(now)
      /\ c.exp = NumericDate(now + TTL)
      /\ c.use = TokenUseService /\ c.client = s /\ c.scope = p.scope
      /\ c.srcJti = p.jti /\ c.srcExp = NoTime
      /\ c.originSub = OriginSub(p) /\ c.tenant = p.tenant /\ c.event = p.event
  BY <1>5 DEF UserOriginServiceClaims, SignedClaims
<1>7. /\ Issue(c, context[s], x) /\ now' = now /\ held' = held
      /\ context' = [context EXCEPT ![s] = NoContext]
  BY <1>5 DEF ReissueUser
<1>8. Next1 = Len(issued) + 1
  BY DEF Next1
<1>9. x # MachineOrigin /\ x \in External /\ ValidExternalToken(x)
  <2>1. x # MachineOrigin
    BY <1>1, <1>2 DEF IInv, ChainKeepsMachine, ValidUserOriginContext, ExternalTokenUse,
       TokenUseService, TokenUseTenantAccess, TokenUseEventAccess, TokenUseRegistration
  <2> QED
    BY <1>2, <2>1 DEF IInv, IssuedInv
<1>10. OriginSub(p) = x.subject /\ x.subject # Blank
  <2>1. x.subject # Blank
    BY <1>9 DEF ValidExternalToken
  <2>2. \/ p.sub = x.subject /\ p.originSub = Blank
        \/ p.originSub = x.subject
    BY <1>2, <1>9 DEF IInv, ChainKeepsUser
  <2> QED
    BY <2>1, <2>2 DEF OriginSub
<1>11. WellRooted(context[s], x)
  BY <1>2, <1>9 DEF WellRooted
<1>12. WellDated(c, context[s], x)
  <2>1. c.txn \in 1..Next1 /\ context[s] # 0
    BY <1>2, <1>3, <1>6, <1>8
  <2> QED
    BY <1>3, <1>6, <2>1, WholeLifetime DEF WellDated, Entering, NoTime
<1>13. SoundClaims(c, c.aud[1])
  <2>1. c.aud = <<c.aud[1]>>
    BY <1>6
  <2>2. ValidateBinding(c.use, c.tenant, c.event)
    BY <1>1, <1>6 DEF ValidUserOriginContext, ValidateBinding
  <2>3. ValidateOriginClaims(c)
    BY <1>1, <1>6, <1>10 DEF ValidUserOriginContext, ValidateOriginClaims,
       ValidateServiceClaims
  <2> QED
    BY <1>1, <1>3, <1>6, <1>8, <1>12, <2>1, <2>2, <2>3, DatePositive, ChainAssumption
       DEF SoundClaims, WellDated, NoId, NoTime
<1>14. KeepsUser(c, context[s], x)
  <2>1. p.scope = x.scope /\ p.tenant = x.tenant /\ p.event = x.event
    BY <1>2, <1>9 DEF IInv, ChainKeepsUser
  <2> QED
    BY <1>2, <1>3, <1>6, <1>10, <2>1 DEF KeepsUser
<1>15. KeepsMachine(c, context[s], x)
  BY <1>6, <1>9, <1>10 DEF KeepsMachine
<1>16. FollowsContext(c, context[s])
  BY <1>4, <1>6 DEF FollowsContext
<1>17. context' \in [Service -> Token \cup {NoContext}]
  BY <1>7 DEF IInv, TypeOK, NoContext
<1> QED
  BY <1>7, <1>11, <1>12, <1>13, <1>14, <1>15, <1>16, <1>17, IssueIInv

\* A token of machine origin is sound wherever it comes in a machine's chain.
LEMMA MachineTokenIInv ==
  ASSUME IInv, NEW s \in Service, NEW to \in Service, NEW parent, NEW txn,
         parent \in 0..Len(issued), txn \in 1..Next1,
         parent # 0 => txn = issued[parent].claims.txn,
         FollowsContext([client |-> s], parent),
         Issue(MachineOriginServiceClaims(to, s, txn, now, Next1), parent, MachineOrigin),
         now' = now, held' = held,
         context' \in [Service -> Token \cup {NoContext}]
  PROVE  IInv'
<1>1. PICK c : c = MachineOriginServiceClaims(to, s, txn, now, Next1)
  OBVIOUS
<1>2. /\ c.iss = IssuerID /\ c.sub = s /\ c.aud = <<to>>
      /\ c.jti = Next1 /\ c.txn = txn
      /\ c.iat = NumericDate(now) /\ c.nbf = NumericDate(now)
      /\ c.exp = NumericDate(now + TTL)
      /\ c.use = TokenUseService /\ c.client = s /\ c.scope = Blank
      /\ c.srcJti = NoId /\ c.srcExp = NoTime
      /\ c.originSub = Blank /\ c.tenant = Blank /\ c.event = Blank
  BY <1>1 DEF MachineOriginServiceClaims, SignedClaims
<1>3. Issue(c, parent, MachineOrigin)
  BY <1>1
<1>4. s # Blank /\ to # Blank
  BY ChainAssumption
<1>5. now \in Nat
  BY DEF IInv, TypeOK, Time
<1>6. WellRooted(parent, MachineOrigin)
  BY DEF WellRooted
<1>7. WellDated(c, parent, MachineOrigin)
  BY <1>2, <1>5, WholeLifetime DEF WellDated, Entering, NoTime
<1>8. SoundClaims(c, c.aud[1])
  <2>1. c.aud = <<c.aud[1]>>
    BY <1>2
  <2>2. ValidateBinding(c.use, c.tenant, c.event) /\ ValidateOriginClaims(c)
    BY <1>2 DEF ValidateBinding, ValidateOriginClaims, ValidateServiceClaims,
       ValidateMachineOriginClaims
  <2> QED
    BY <1>2, <1>4, <1>5, <1>7, <2>1, <2>2, DatePositive, ChainAssumption
       DEF SoundClaims, WellDated, NoId, NoTime
<1>9. KeepsUser(c, parent, MachineOrigin) /\ KeepsMachine(c, parent, MachineOrigin)
  BY <1>2 DEF KeepsUser, KeepsMachine
<1>10. FollowsContext(c, parent)
  BY <1>2 DEF FollowsContext
<1> QED
  BY <1>3, <1>6, <1>7, <1>8, <1>9, <1>10, IssueIInv

\* A service starts a machine's chain.
LEMMA StartMachineIInv ==
  ASSUME IInv, NEW s \in Service, NEW to \in Service, StartMachine(s, to)
  PROVE  IInv'
<1>1. Len(issued) \in Nat /\ Next1 = Len(issued) + 1
  BY IssueAppends DEF StartMachine
<1>2. 0 \in 0..Len(issued) /\ Next1 \in 1..Next1
  BY <1>1
<1>3. FollowsContext([client |-> s], 0)
  BY DEF FollowsContext
<1>4. context' \in [Service -> Token \cup {NoContext}]
  BY DEF StartMachine, IInv, TypeOK
<1> QED
  BY <1>2, <1>3, <1>4, MachineTokenIInv DEF StartMachine

\* A re-issue as a machine's continues a machine's chain, never a user's.
LEMMA ReissueMachineIInv ==
  ASSUME IInv, NEW s \in Service, NEW to \in Service, ReissueMachine(s, to)
  PROVE  IInv'
<1> DEFINE p == issued[context[s]].claims
<1>1. /\ context[s] # NoContext
      /\ ValidContextToken(p, s, now) /\ ValidMachineOriginContext(p)
      /\ now' = now /\ held' = held
      /\ context' = [context EXCEPT ![s] = NoContext]
      /\ Issue(MachineOriginServiceClaims(to, s, p.txn, now, Next1), context[s],
               issued[context[s]].origin)
  BY DEF ReissueMachine, MayReissueMachine
<1>2. context[s] \in Token /\ context[s] \in 1..Len(issued) /\ Len(issued) \in Nat
  BY <1>1, ContextIsToken
<1>3. context[s] \in 0..Len(issued) /\ p.txn \in 1..Next1
  BY <1>2 DEF IInv, TypeOK, Next1
<1>4. issued[context[s]].origin = MachineOrigin
  BY <1>1, <1>2 DEF ValidMachineOriginContext, IInv, ChainKeepsMachine
<1>5. FollowsContext([client |-> s], context[s])
  BY <1>1, <1>2, ContextFollowed DEF FollowsContext
<1>6. context' \in [Service -> Token \cup {NoContext}]
  BY <1>1 DEF IInv, TypeOK, NoContext
<1> QED
  BY <1>1, <1>3, <1>4, <1>5, <1>6, MachineTokenIInv

\* Every step keeps the invariant.
LEMMA StepIInv == IInv /\ [Next]_vars => IInv'
<1> SUFFICES ASSUME IInv, [Next]_vars PROVE IInv'
  OBVIOUS
<1>1. CASE Tick
  BY <1>1, TickIInv
<1>2. ASSUME NEW x \in External, Convert(x) PROVE IInv'
  BY <1>2, ConvertIInv
<1>3. ASSUME NEW s \in Service, NEW n \in Token, NEW skew \in -Skew..Skew,
             Receive(s, n, skew)
      PROVE  IInv'
  BY <1>3, ReceiveIInv
<1>4. ASSUME NEW s \in Service, NEW n \in Token, Present(s, n) PROVE IInv'
  BY <1>4, PresentIInv
<1>5. ASSUME NEW s \in Service, NEW to \in Service, ReissueUser(s, to) PROVE IInv'
  BY <1>5, ReissueUserIInv
<1>6. ASSUME NEW s \in Service, NEW to \in Service, ReissueMachine(s, to) PROVE IInv'
  BY <1>6, ReissueMachineIInv
<1>7. ASSUME NEW s \in Service, NEW to \in Service, StartMachine(s, to) PROVE IInv'
  BY <1>7, StartMachineIInv
<1>8. ASSUME NEW s \in Service, NEW to \in Service, Refuse(s, to) PROVE IInv'
  BY <1>8, RefuseIInv
<1>9. CASE UNCHANGED vars
  BY <1>9, TokensKept DEF vars, IInv, TypeOK, IssuedInv
<1> QED
  BY <1>1, <1>2, <1>3, <1>4, <1>5, <1>6, <1>7, <1>8, <1>9 DEF Next
-----------------------------------------------------------------------------
(* What holds of every token of every chain. *)

\* Every token is what its derivation promises, in every reachable state.
THEOREM ChainConsistent == Spec => []IInv
<1>1. Init => IInv
  BY InitIInv
<1>2. IInv /\ [Next]_vars => IInv'
  BY StepIInv
<1> QED
  BY <1>1, <1>2, PTL DEF Spec

\* A user's chain stays the user's, whatever the hops.
THEOREM UserChainsKept == Spec => []ChainKeepsUser
<1>1. IInv => ChainKeepsUser
  BY DEF IInv
<1> QED
  BY <1>1, ChainConsistent, PTL

\* A machine's chain stays a machine's, and no user's chain becomes one.
THEOREM MachineChainsKept == Spec => []ChainKeepsMachine
<1>1. IInv => ChainKeepsMachine
  BY DEF IInv
<1> QED
  BY <1>1, ChainConsistent, PTL

\* A hop continues a token that was alive, of which its service is the audience.
THEOREM HopsAuthorised == Spec => []HopsFollowTheirContext
<1>1. IInv => HopsFollowTheirContext
  BY DEF IInv
<1> QED
  BY <1>1, ChainConsistent, PTL

\* No token outlives its lifetime or what it stands for, and none ends a second
\* or more before both.
THEOREM LifetimesBounded == Spec => []LifetimeFollowsSource
<1>1. IInv => LifetimeFollowsSource
  BY DEF IInv, DatesInv
<1> QED
  BY <1>1, ChainConsistent, PTL

\* A token passes every check of its audience while it lives, on a clock that
\* is off by no more than the skew.
LEMMA AliveIsAccepted ==
  ASSUME IInv, NEW n \in Token, NEW skew \in -Skew..Skew, now < issued[n].claims.exp
  PROVE  Verify(issued[n].claims, issued[n].claims.aud[1], now + skew, "key") = "accepted"
<1> DEFINE c == issued[n].claims
           born == issued[n].born
<1>1. now \in Nat /\ born \in Nat /\ born <= now
  BY Numbers DEF IInv, TypeOK, Time, IssuedInv
<1>2. c.iat \in Nat /\ c.iat <= born /\ c.exp \in Nat
  BY <1>1, DateBounds DEF IInv, DatesInv, TypeOK, Time
<1>3. SoundClaims(c, c.aud[1])
  BY DEF IInv, ClaimsInv
<1>4. now + skew \in Int /\ c.iat - Leeway <= now + skew /\ now + skew < c.exp + Leeway
  BY <1>1, <1>2, Numbers
<1>5. ClaimsAccepted(c, c.aud[1], now + skew)
  BY <1>3, <1>4, SoundClaimsAccepted
<1> QED
  BY <1>5 DEF Verify

\* Issuer and verifier agree on every token, whatever the number of hops.
THEOREM IssuerAndVerifierAgree == Spec => []IssuedIsAccepted
<1>1. IInv => IssuedIsAccepted
  BY AliveIsAccepted DEF IssuedIsAccepted
<1> QED
  BY <1>1, ChainConsistent, PTL
=============================================================================
