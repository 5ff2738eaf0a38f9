-------------------------- MODULE GeneratorProofs --------------------------
(***************************************************************************)
(* Proofs about Generator, for any number of generators and calls, and any *)
(* configurations, keys and defaults: IInv is inductive, and what is       *)
(* minted is what was asked for, for as long, and verifies.                *)
(***************************************************************************)
EXTENDS Generator, VerifierProofs, TLAPS

\* The constants' kinds.
LEMMA Numbers ==
  /\ Second \in Nat \ {0} /\ Leeway \in Nat
  /\ DefaultTTL \in Nat \ {0} /\ DefaultSourceJTI \in Nat \ {0}
  /\ Epoch \in Nat /\ Epoch >= Second /\ Epoch > 0
  /\ Call \subseteq Nat \ {0}
  BY GeneratorAssumption, SecondPositive, LeewayNatural

\* The issuer of a call speaks of tokens as the generator and the verifier do.
LEMMA Vocabulary ==
  ASSUME NEW config
  PROVE  /\ Iss(config)!Blank = Blank /\ Iss(config)!NoId = NoId
         /\ Iss(config)!NoTime = NoTime
         /\ Iss(config)!TokenUseService = TokenUseService
         /\ Iss(config)!ExternalTokenUse = ExternalTokenUse
         /\ \A t : Iss(config)!NumericDate(t) = NumericDate(t)
         /\ \A use, tenant, event :
              Iss(config)!ValidateBinding(use, tenant, event)
                <=> ValidateBinding(use, tenant, event)
  BY DEF Blank, NoId, NoTime, NumericDate, ValidateBinding, ExternalTokenUse,
     TokenUseService, TokenUseTenantAccess, TokenUseEventAccess, TokenUseRegistration,
     Iss!Blank, Iss!NoId, Iss!NoTime, Iss!NumericDate, Iss!ValidateBinding,
     Iss!ExternalTokenUse, Iss!TokenUseService, Iss!TokenUseTenantAccess,
     Iss!TokenUseEventAccess, Iss!TokenUseRegistration

\* The identifiers drawn for a call are its own, and no configuration's.
LEMMA FreshIds ==
  ASSUME NEW c \in Call
  PROVE  /\ FreshJti(c) \in Nat \ {0} /\ FreshTxn(c) \in Nat \ {0}
         /\ FreshTxn(c) > DefaultSourceJTI
         /\ \A d \in Call : d # c => FreshTxn(d) # FreshTxn(c)
  BY Numbers DEF FreshJti, FreshTxn

\* A date is the instant rounded down to its second.
LEMMA DateBounds ==
  ASSUME NEW t \in Nat
  PROVE  /\ NumericDate(t) \in Nat
         /\ NumericDate(t) <= t /\ t < NumericDate(t) + Second
         /\ t >= Second => NumericDate(t) > 0
  BY SecondPositive DEF NumericDate

\* What is put for a claim that is not given is not absent.
LEMMA Defaults ==
  ASSUME NEW config
  PROVE  /\ Caller(config) # Blank
         /\ OrDefault(config.subject, DefaultSubject) # Blank
         /\ DefaultClientID # Blank
         /\ \A keyID : KeyIDFor(keyID) # Blank
         /\ \A keyID \in KeyID : KeyIDFor(keyID) \in (KeyID \cup {DefaultKeyID}) \ {Blank}
  BY GeneratorAssumption DEF Caller, OrDefault, KeyIDFor

\* A configuration that is admitted has a positive lifetime.
LEMMA AdmittedConfig ==
  ASSUME NEW config \in Config
  PROVE  /\ TTLFor(config) \in Int
         /\ TTLFor(config) > 0 <=> config.ttl >= 0
         /\ config.txn \in Nat /\ config.txn < DefaultSourceJTI /\ config.keyID \in KeyID
  BY GeneratorAssumption, Numbers DEF TTLFor
-----------------------------------------------------------------------------
(* What the issuer signs for a configuration. *)

\* What the claims of a call owe its configuration, minted at an instant for a
\* token pretended at an earlier one.
Promised(claims, config, c, from, at) ==
  LET ttl == TTLFor(config)
  IN  /\ WellFormed(config)
      /\ config.issuer = TrustedIssuer /\ claims.exp # NoTime =>
           SoundClaims(claims, config.audience)
      /\ claims.iat = NumericDate(at) /\ claims.exp \in Nat
      /\ from + ttl < claims.exp + Second /\ claims.exp <= at + ttl
      /\ External(config) => claims.exp <= from + ttl
      /\ claims.use = config.use /\ claims.aud = <<config.audience>>
      /\ claims.originSub = config.originSub /\ claims.txn = TxnFor(config, c)
      /\ <<claims.scope, claims.tenant, claims.event>> =
           IF MachineOrigin(config) THEN <<Blank, Blank, Blank>>
           ELSE <<config.scope, config.tenant, config.event>>
      /\ {"jti", "aud"} \subseteq DOMAIN claims

\* A converted token.
LEMMA ExternalPromised ==
  ASSUME NEW config \in Config, Admitted(config), External(config),
         NEW c \in Call, NEW from \in Nat, NEW at \in Nat, Epoch <= from, from <= at,
         Iss(config)!MayConvert(ExternalInput(config, from), at)
  PROVE  Promised(Iss(config)!ExternalTokenClaims(ExternalInput(config, from), at,
                    FreshJti(c), FreshTxn(c)), config, c, from, at)
<1> DEFINE input == ExternalInput(config, from)
           ttl == TTLFor(config)
           exp == NumericDate(from + ttl)
<1>1. /\ input.audience = config.audience /\ input.use = config.use
      /\ input.subject = OrDefault(config.subject, DefaultSubject)
      /\ input.client = DefaultClientID /\ input.scope = config.scope
      /\ input.sourceJti = DefaultSourceJTI /\ input.sourceExp = from + ttl
      /\ input.tenant = config.tenant /\ input.event = config.event
  BY DEF ExternalInput
<1>2. ttl \in Nat /\ ttl > 0 /\ config.ttl >= 0
  BY AdmittedConfig DEF Admitted
<1>3. /\ config.audience # Blank /\ config.scope # Blank
      /\ config.use # TokenUseService
      /\ ValidateBinding(config.use, config.tenant, config.event)
  BY <1>1, Vocabulary DEF Iss!MayConvert, Iss!ValidExternalToken
<1>4. Iss(config)!ConversionExpiry(input, at) = from + ttl
  BY <1>1, <1>2 DEF Iss!ConversionExpiry, Iss!Earlier
<1> HIDE DEF input, exp
<1>5. PICK claims : claims = Iss(config)!ExternalTokenClaims(input, at, FreshJti(c), FreshTxn(c))
  OBVIOUS
<1>6. /\ claims.iss = config.issuer /\ claims.sub = input.subject
      /\ claims.aud = <<config.audience>> /\ claims.jti = FreshJti(c)
      /\ claims.iat = NumericDate(at) /\ claims.nbf = NumericDate(at)
      /\ claims.exp = exp /\ claims.use = config.use /\ claims.client = DefaultClientID
      /\ claims.txn = FreshTxn(c) /\ claims.scope = config.scope
      /\ claims.srcJti = DefaultSourceJTI /\ claims.srcExp = exp
      /\ claims.originSub = Blank /\ claims.tenant = config.tenant
      /\ claims.event = config.event
      /\ {"jti", "aud"} \subseteq DOMAIN claims
  BY <1>1, <1>4, <1>5, Vocabulary
     DEF Iss!ExternalTokenClaims, Iss!SignedClaims, exp
<1>7. from + ttl \in Nat /\ from + ttl >= Second /\ at >= Second
  BY <1>2, Numbers
<1>8. exp \in Nat /\ exp <= from + ttl /\ from + ttl < exp + Second /\ exp > 0
  BY <1>7, DateBounds DEF exp
<1>9. NumericDate(at) \in Nat /\ NumericDate(at) > 0
  BY <1>7, DateBounds
<1>10. WellFormed(config)
  <2>1. config.originSub = Blank /\ config.txn = NoId /\ config.issuer # Blank
    BY DEF Admitted, External
  <2>2. /\ config.use \in ExternalTokenUse
        /\ config.use \in {TokenUseTenantAccess, TokenUseEventAccess} <=> config.tenant # Blank
        /\ config.use = TokenUseEventAccess <=> config.event # Blank
    BY <1>3 DEF ValidateBinding, ExternalTokenUse, TokenUseService, TokenUseTenantAccess,
       TokenUseEventAccess, TokenUseRegistration
  <2> QED
    BY <1>2, <1>3, <2>1, <2>2 DEF WellFormed, External
<1>11. config.issuer = TrustedIssuer => SoundClaims(claims, config.audience)
  <2>1. claims.sub # Blank /\ claims.client # Blank
    BY <1>1, <1>6, Defaults
  <2>2. claims.jti # NoId /\ claims.txn # NoId /\ claims.srcJti # NoId
    BY <1>6, FreshIds, Numbers DEF NoId
  <2>3. ValidateOriginClaims(claims)
    BY <1>3, <1>6, <1>8, <2>2 DEF ValidateOriginClaims, ValidateExternalOriginClaims, NoTime
  <2> QED
    BY <1>3, <1>6, <1>8, <1>9, <2>1, <2>2, <2>3 DEF SoundClaims, NoTime
<1>12. /\ claims.originSub = config.originSub /\ claims.txn = TxnFor(config, c)
       /\ ~MachineOrigin(config)
  BY <1>6 DEF Admitted, External, TxnFor, MachineOrigin
<1>13. exp <= at + ttl
  BY <1>2, <1>8
<1>14. Promised(claims, config, c, from, at)
  BY <1>6, <1>8, <1>10, <1>11, <1>12, <1>13 DEF Promised
<1> QED
  BY <1>5, <1>14 DEF input

\* The context a service token is minted from has the dates of its instant.
LEMMA ContextDates ==
  ASSUME NEW config \in Config, Admitted(config), NEW from \in Nat, Epoch <= from,
         NEW at \in Nat, from <= at
  PROVE  /\ TTLFor(config) \in Nat /\ TTLFor(config) > 0 /\ config.ttl >= 0
         /\ NumericDate(from + TTLFor(config)) \in Nat
         /\ NumericDate(from + TTLFor(config)) > 0
         /\ from + TTLFor(config) < NumericDate(from + TTLFor(config)) + Second
         /\ NumericDate(at) \in Nat /\ NumericDate(at) > 0
         /\ NumericDate(at + TTLFor(config)) \in Nat
         /\ at + TTLFor(config) < NumericDate(at + TTLFor(config)) + Second
         /\ NumericDate(at + TTLFor(config)) <= at + TTLFor(config)
<1>1. TTLFor(config) \in Nat /\ TTLFor(config) > 0 /\ config.ttl >= 0
  BY AdmittedConfig DEF Admitted
<1>2. /\ from + TTLFor(config) \in Nat /\ from + TTLFor(config) >= Second
      /\ at + TTLFor(config) \in Nat /\ at >= Second
  BY <1>1, Numbers
<1> QED
  BY <1>1, <1>2, DateBounds, Numbers

\* A re-issue has a txn, its configuration's or its own.
LEMMA TxnPresent ==
  ASSUME NEW config, NEW c \in Call
  PROVE  TxnFor(config, c) # NoId
  BY FreshIds DEF TxnFor, NoId

\* A machine's token, whether it starts the chain or continues it.
LEMMA MachinePromised ==
  ASSUME NEW config \in Config, Admitted(config), MachineOrigin(config),
         config.audience # Blank,
         NEW c \in Call, NEW from \in Nat, NEW at \in Nat, Epoch <= from, from <= at
  PROVE  Promised(Iss(config)!MachineOriginServiceClaims(config.audience, Caller(config),
                    TxnFor(config, c), at, FreshJti(c)), config, c, from, at)
<1> DEFINE exp == NumericDate(at + TTLFor(config))
<1>1. /\ TTLFor(config) \in Nat /\ config.ttl >= 0
      /\ NumericDate(at) \in Nat /\ NumericDate(at) > 0
      /\ exp \in Nat /\ at + TTLFor(config) < exp + Second /\ exp <= at + TTLFor(config)
  BY ContextDates
<1> HIDE DEF exp
<1>2. PICK claims : claims = Iss(config)!MachineOriginServiceClaims(config.audience,
                               Caller(config), TxnFor(config, c), at, FreshJti(c))
  OBVIOUS
<1>3. /\ claims.iss = config.issuer /\ claims.sub = Caller(config)
      /\ claims.aud = <<config.audience>> /\ claims.jti = FreshJti(c)
      /\ claims.iat = NumericDate(at) /\ claims.nbf = NumericDate(at)
      /\ claims.exp = exp /\ claims.use = TokenUseService
      /\ claims.client = Caller(config) /\ claims.txn = TxnFor(config, c)
      /\ claims.scope = Blank /\ claims.srcJti = NoId /\ claims.originSub = Blank
      /\ claims.tenant = Blank /\ claims.event = Blank
      /\ {"jti", "aud"} \subseteq DOMAIN claims
  BY <1>2, Vocabulary DEF Iss!MachineOriginServiceClaims, Iss!SignedClaims, exp
<1>4. config.use = TokenUseService /\ config.originSub = Blank /\ ~External(config)
  BY DEF MachineOrigin, External
<1>5. WellFormed(config)
  BY <1>1, <1>4 DEF WellFormed, Admitted
<1>6. config.issuer = TrustedIssuer /\ exp # NoTime => SoundClaims(claims, config.audience)
  <2>1. claims.sub # Blank /\ claims.client # Blank
    BY <1>3, Defaults
  <2>2. claims.jti # NoId /\ claims.txn # NoId
    BY <1>3, FreshIds, TxnPresent DEF NoId
  <2>3. ValidateBinding(claims.use, claims.tenant, claims.event)
        /\ ValidateOriginClaims(claims)
    BY <1>3 DEF ValidateBinding, ValidateOriginClaims, ValidateServiceClaims,
       ValidateMachineOriginClaims
  <2> QED
    BY <1>1, <1>3, <2>1, <2>2, <2>3 DEF SoundClaims, NoTime
<1>7. from + TTLFor(config) < exp + Second
  BY <1>1, Numbers
<1>8. Promised(claims, config, c, from, at)
  BY <1>1, <1>3, <1>4, <1>5, <1>6, <1>7 DEF Promised
<1> QED
  BY <1>2, <1>8

\* A user's token, continued from the context pretended.
LEMMA UserPromised ==
  ASSUME NEW config \in Config, Admitted(config), ~External(config), ~MachineOrigin(config),
         NEW c \in Call, NEW from \in Nat, NEW at \in Nat, Epoch <= from, from <= at,
         Iss(config)!MayReissueUser(config.audience, Caller(config),
           UserContext(config, from, c), at)
  PROVE  Promised(Iss(config)!UserOriginServiceClaims(config.audience, Caller(config),
                    UserContext(config, from, c), at, FreshJti(c)), config, c, from, at)
<1> DEFINE exp == NumericDate(at + TTLFor(config))
           context == UserContext(config, from, c)
<1>1. /\ TTLFor(config) \in Nat /\ config.ttl >= 0
      /\ NumericDate(at) \in Nat /\ NumericDate(at) > 0
      /\ exp \in Nat /\ at + TTLFor(config) < exp + Second /\ exp <= at + TTLFor(config)
  BY ContextDates
<1>2. /\ context.txn = TxnFor(config, c) /\ context.scope = config.scope
      /\ context.jti = DefaultSourceJTI /\ context.originSub = config.originSub
      /\ context.tenant = config.tenant /\ context.event = config.event
      /\ context.use = TokenUseService
  BY DEF UserContext, ServiceContext
<1>3. config.use = TokenUseService /\ config.originSub # Blank
  BY DEF MachineOrigin, External
<1>4. /\ config.audience # Blank /\ config.scope # Blank
      /\ ValidateBinding(TokenUseService, config.tenant, config.event)
  BY <1>2, Vocabulary DEF Iss!MayReissueUser, Iss!ValidUserOriginContext
<1>5. Iss(config)!OriginSub(context) = config.originSub
  BY <1>2, <1>3, Vocabulary DEF Iss!OriginSub
<1> HIDE DEF exp, context
<1>6. PICK claims : claims = Iss(config)!UserOriginServiceClaims(config.audience,
                               Caller(config), context, at, FreshJti(c))
  OBVIOUS
<1>7. /\ claims.iss = config.issuer /\ claims.sub = Caller(config)
      /\ claims.aud = <<config.audience>> /\ claims.jti = FreshJti(c)
      /\ claims.iat = NumericDate(at) /\ claims.nbf = NumericDate(at)
      /\ claims.exp = exp /\ claims.use = TokenUseService
      /\ claims.client = Caller(config) /\ claims.txn = TxnFor(config, c)
      /\ claims.scope = config.scope /\ claims.srcJti = DefaultSourceJTI
      /\ claims.originSub = config.originSub
      /\ claims.tenant = config.tenant /\ claims.event = config.event
      /\ {"jti", "aud"} \subseteq DOMAIN claims
  BY <1>2, <1>5, <1>6, Vocabulary DEF Iss!UserOriginServiceClaims, Iss!SignedClaims, exp
<1>8. WellFormed(config)
  <2>1. config.event # Blank => config.tenant # Blank
    BY <1>4 DEF ValidateBinding, TokenUseService, TokenUseTenantAccess,
       TokenUseEventAccess, TokenUseRegistration
  <2> QED
    BY <1>1, <1>4, <2>1 DEF WellFormed, Admitted
<1>9. config.issuer = TrustedIssuer /\ exp # NoTime => SoundClaims(claims, config.audience)
  <2>1. claims.sub # Blank /\ claims.client # Blank
    BY <1>7, Defaults
  <2>2. claims.jti # NoId /\ claims.txn # NoId /\ claims.srcJti # NoId
    BY <1>7, FreshIds, TxnPresent, Numbers DEF NoId
  <2>3. ValidateOriginClaims(claims)
    BY <1>3, <1>4, <1>7, <2>2 DEF ValidateOriginClaims, ValidateServiceClaims
  <2> QED
    BY <1>1, <1>4, <1>7, <2>1, <2>2, <2>3 DEF SoundClaims, NoTime
<1>10. from + TTLFor(config) < exp + Second
  BY <1>1, Numbers
<1>11. Promised(claims, config, c, from, at)
  BY <1>1, <1>3, <1>7, <1>8, <1>9, <1>10 DEF Promised
<1> QED
  BY <1>6, <1>11 DEF context

\* So whatever call the issuer grants, the claims are what it was promised.
LEMMA GrantedIsPromised ==
  ASSUME NEW c \in Call, job[c].config \in Config, Admitted(job[c].config),
         job[c].at \in Nat, Epoch <= job[c].at, NEW at \in Nat, job[c].at <= at,
         Grants(c, at)
  PROVE  Promised(ClaimsFor(c, at), job[c].config, c, job[c].at, at)
<1> PICK config, from : config = job[c].config /\ from = job[c].at
  OBVIOUS
<1>1. CASE External(config)
  BY <1>1, ExternalPromised DEF Grants, ClaimsFor
<1>2. CASE MachineOrigin(config)
  <2>1. ~External(config) /\ config.audience # Blank
    BY <1>2, Vocabulary
       DEF Grants, MachineOrigin, Iss!MayStartMachine, Iss!MayReissueMachine
  <2> QED
    BY <1>2, <2>1, MachinePromised DEF ClaimsFor
<1>3. CASE ~External(config) /\ ~MachineOrigin(config)
  <2>1. ~NewChain(config)
    BY <1>3 DEF NewChain
  <2> QED
    BY <1>3, <2>1, UserPromised DEF Grants, ClaimsFor
<1> QED
  BY <1>1, <1>2, <1>3

\* What is well formed is admitted.
LEMMA WellFormedAdmitted ==
  ASSUME NEW config \in Config, WellFormed(config)
  PROVE  Admitted(config)
  BY AdmittedConfig DEF WellFormed, Admitted, External

\* A service token's context is refused, as far as its dates and its audience go,
\* only when it has expired.
LEMMA ContextExpired ==
  ASSUME NEW config \in Config, Admitted(config), NEW context, NEW from \in Nat,
         Epoch <= from, NEW at \in Nat, from <= at,
         context.exp = NumericDate(from + TTLFor(config)),
         context.aud = <<Caller(config)>>,
         ~Iss(config)!ValidContextToken(context, Caller(config), at)
  PROVE  from + TTLFor(config) < at + Second
<1>1. /\ context.exp \in Nat /\ context.exp # NoTime
      /\ from + TTLFor(config) < context.exp + Second
  BY ContextDates DEF NoTime
<1>2. Iss(config)!Names(context.aud, Caller(config))
  BY DEF Iss!Names
<1>3. ~(context.exp > at)
  BY <1>1, <1>2, Vocabulary DEF Iss!ValidContextToken
<1>4. TTLFor(config) \in Int /\ Second \in Nat
  BY AdmittedConfig, Numbers
<1> QED
  BY <1>1, <1>3, <1>4

\* The issuer refuses what is well formed only for the time that has passed.
LEMMA RefusedIsLate ==
  ASSUME NEW c \in Call, job[c].config \in Config, WellFormed(job[c].config),
         job[c].at \in Nat, Epoch <= job[c].at, NEW at \in Nat, job[c].at <= at,
         ~Grants(c, at)
  PROVE  /\ ~NewChain(job[c].config)
         /\ job[c].at + TTLFor(job[c].config) < at + Second
<1> PICK config, from : config = job[c].config /\ from = job[c].at
  OBVIOUS
<1>1. Admitted(config)
  BY WellFormedAdmitted
<1>2. config.audience # Blank /\ Caller(config) # Blank
  BY Defaults DEF WellFormed
<1>3. TTLFor(config) \in Nat /\ Second \in Nat /\ Second > 0 /\ from > 0
  BY <1>1, ContextDates, Numbers
<1>4. CASE External(config)
  <2> DEFINE input == ExternalInput(config, from)
  <2>1. /\ input.audience = config.audience /\ input.use = config.use
        /\ input.subject = OrDefault(config.subject, DefaultSubject)
        /\ input.client = DefaultClientID /\ input.scope = config.scope
        /\ input.sourceJti = DefaultSourceJTI
        /\ input.sourceExp = from + TTLFor(config)
        /\ input.tenant = config.tenant /\ input.event = config.event
    BY DEF ExternalInput
  <2> HIDE DEF input
  <2>2. config.use # TokenUseService /\ config.scope # Blank
        /\ ValidateBinding(config.use, config.tenant, config.event)
    BY <1>4 DEF WellFormed, External, ExternalTokenUse, ValidateBinding
  <2>3. input.subject # Blank /\ input.client # Blank
    BY <2>1, Defaults
  <2>4. input.sourceJti # NoId /\ input.sourceExp # NoTime
    BY <1>3, <2>1, Numbers DEF NoId, NoTime
  <2>5. Iss(config)!ValidExternalToken(input)
    BY <1>2, <2>1, <2>2, <2>3, <2>4, Vocabulary DEF Iss!ValidExternalToken
  <2>6. ~(input.sourceExp > at)
    BY <1>4, <2>5 DEF Grants, Iss!MayConvert, input
  <2>7. ~NewChain(config)
    BY <1>4 DEF NewChain, MachineOrigin
  <2> QED
    BY <1>3, <2>1, <2>6, <2>7
<1>5. CASE MachineOrigin(config)
  <2>1. ~External(config)
    BY <1>5 DEF MachineOrigin
  <2>2. ~NewChain(config)
    BY <1>2, <2>1, Vocabulary DEF Grants, Iss!MayStartMachine
  <2> DEFINE context == ServiceContext(config, from, config.txn)
  <2>3. /\ context.exp = NumericDate(from + TTLFor(config))
        /\ context.aud = <<Caller(config)>>
    BY DEF ServiceContext
  <2>4. Iss(config)!ValidMachineOriginContext(context)
    BY <1>5, <2>2, Vocabulary
       DEF ServiceContext, NewChain, Iss!ValidMachineOriginContext
  <2>5. ~Iss(config)!ValidContextToken(context, Caller(config), at)
    BY <1>2, <1>5, <2>1, <2>2, <2>4, Vocabulary DEF Grants, Iss!MayReissueMachine
  <2> HIDE DEF context
  <2>6. from + TTLFor(config) < at + Second
    BY <1>1, <2>3, <2>5, ContextExpired
  <2> QED
    BY <2>2, <2>6
<1>6. CASE ~External(config) /\ ~MachineOrigin(config)
  <2>1. ~NewChain(config)
    BY <1>6 DEF NewChain
  <2> DEFINE context == UserContext(config, from, c)
  <2>2. /\ context.exp = NumericDate(from + TTLFor(config))
        /\ context.aud = <<Caller(config)>>
        /\ context.use = TokenUseService /\ context.originSub = config.originSub
        /\ context.tenant = config.tenant /\ context.event = config.event
        /\ context.scope = config.scope /\ context.txn = TxnFor(config, c)
        /\ context.srcJti = DefaultSourceJTI /\ context.jti = DefaultSourceJTI
        /\ context.sub = Caller(config)
    BY DEF UserContext, ServiceContext
  <2> HIDE DEF context
  <2>3. config.originSub # Blank
    BY <1>6 DEF MachineOrigin
  <2>4. config.scope # Blank
        /\ ValidateBinding(TokenUseService, config.tenant, config.event)
    BY <1>6, <2>3 DEF WellFormed, ValidateBinding
  <2>5. DefaultSourceJTI # NoId /\ TxnFor(config, c) # NoId
    BY Numbers, TxnPresent DEF NoId
  <2>6. Iss(config)!ValidUserOriginContext(context)
    BY <1>2, <2>2, <2>3, <2>4, <2>5, Vocabulary DEF Iss!ValidUserOriginContext
  <2>7. ~Iss(config)!ValidContextToken(context, Caller(config), at)
    BY <1>2, <1>6, <2>1, <2>6, Vocabulary DEF Grants, Iss!MayReissueUser, context
  <2>8. from + TTLFor(config) < at + Second
    BY <1>1, <2>2, <2>7, ContextExpired
  <2> QED
    BY <2>1, <2>8
<1> QED
  BY <1>4, <1>5, <1>6
-----------------------------------------------------------------------------
(* IInv is inductive. *)

\* The parts of the invariant that are about one call.
OneCall(c) ==
  LET config == job[c].config
  IN  /\ pc[c] # "new" => job[c].generator \in Created /\ job[c].at \in Epoch..now
      /\ Signed(c) => Resolvable(output[c])
      /\ pc[c] \in {"prepared", "minted", "refused"} => config \in Config
      /\ pc[c] \in {"prepared", "minted"} => Admitted(config)
      /\ pc[c] = "minted" =>
           \E at \in job[c].at..now :
             Grants(c, at) /\ output[c] = Sign(job[c].generator, ClaimsFor(c, at))
      /\ pc[c] = "refused" /\ Admitted(config) =>
           \E at \in job[c].at..now : ~Grants(c, at)
      /\ pc[c] = "unchecked" =>
           \E claims \in UncheckedClaims : output[c] = Sign(job[c].generator, claims)

\* ... and those about the kinds of the variables.
Kinds ==
  /\ now \in Nat /\ now >= Epoch
  /\ generators \in [Generator -> GeneratorRecord \cup {NoGenerator}]
  /\ pc \in [Call -> {"new", "prepared", "minted", "refused", "unchecked"}]
  /\ DOMAIN job = Call /\ DOMAIN output = Call

\* Together they are the invariant.
LEMMA CallByCall == IInv <=> Kinds /\ \A c \in Call : OneCall(c)
  BY DEF IInv, Kinds, TypeOK, CallInv, UncheckedInv, OneCall

Kept(c) == pc'[c] = pc[c] /\ job'[c] = job[c] /\ output'[c] = output[c]

\* What every step does: time does not go back, and generators stay what they are.
Onwards ==
  /\ now' \in Nat /\ now <= now'
  /\ \A g \in Created : g \in Created' /\ generators'[g] = generators[g]

\* Such a step keeps what holds of a call it leaves alone.
LEMMA CallKept ==
  ASSUME IInv, Onwards, NEW c \in Call, Kept(c)
  PROVE  OneCall(c)'
<1> DEFINE config == job[c].config
<1>1. OneCall(c)
  BY CallByCall
<1>2. now \in Nat /\ now' \in Nat /\ now <= now'
  BY DEF Onwards, IInv, TypeOK
<1>3. pc'[c] = pc[c] /\ job'[c] = job[c] /\ output'[c] = output[c]
  BY DEF Kept
<1>4. pc'[c] # "new" => job'[c].generator \in Created' /\ job'[c].at \in Epoch..now'
  BY <1>1, <1>2, <1>3, Numbers DEF OneCall, Onwards
<1>5. \A at : /\ Grants(c, at)' <=> Grants(c, at)
              /\ ClaimsFor(c, at)' = ClaimsFor(c, at)
  BY <1>3 DEF Grants, ClaimsFor
<1>6. pc[c] # "new" => generators'[job'[c].generator] = generators[job[c].generator]
  BY <1>1, <1>3 DEF OneCall, Onwards
<1>7. pc[c] # "new" => job[c].at \in Nat
  BY <1>1, Numbers DEF OneCall
<1>8. pc'[c] = "minted" =>
        \E at \in job'[c].at..now' :
          /\ Grants(c, at)'
          /\ output'[c] = Sign(job[c].generator, ClaimsFor(c, at))'
  <2> SUFFICES ASSUME pc[c] = "minted"
               PROVE  \E at \in job'[c].at..now' :
                        /\ Grants(c, at)'
                        /\ output'[c] = Sign(job[c].generator, ClaimsFor(c, at))'
    BY <1>3
  <2>1. PICK at \in job[c].at..now :
          Grants(c, at) /\ output[c] = Sign(job[c].generator, ClaimsFor(c, at))
    BY <1>1 DEF OneCall
  <2>2. at \in job'[c].at..now'
    BY <1>2, <1>3, <1>7, <2>1
  <2>3. Grants(c, at)' /\ output'[c] = Sign(job[c].generator, ClaimsFor(c, at))'
    BY <1>3, <1>5, <1>6, <2>1 DEF Sign
  <2> QED
    BY <2>2, <2>3
<1>9. pc'[c] = "refused" /\ Admitted(job'[c].config) =>
        \E at \in job'[c].at..now' : ~Grants(c, at)'
  BY <1>1, <1>2, <1>3, <1>5, <1>7 DEF OneCall
<1>10. pc'[c] = "unchecked" =>
         \E claims \in UncheckedClaims : output'[c] = Sign(job[c].generator, claims)'
  <2>1. pc[c] # "new" => \A claims : Sign(job[c].generator, claims)'
                                       = Sign(job[c].generator, claims)
    BY <1>3, <1>6 DEF Sign
  <2> QED
    BY <1>1, <1>3, <2>1 DEF OneCall
<1>11. Signed(c)' => Resolvable(output'[c])
  BY <1>1, <1>3 DEF OneCall, Signed
<1> QED
  BY <1>1, <1>3, <1>4, <1>8, <1>9, <1>10, <1>11 DEF OneCall

\* Such a step keeps the invariant when it keeps what holds of every call, ...
LEMMA EveryCall ==
  ASSUME IInv, Kinds', \A d \in Call : OneCall(d)'
  PROVE  IInv'
  BY DEF IInv, Kinds, TypeOK, CallInv, UncheckedInv, OneCall

\* ... as when it leaves all of them alone, ...
LEMMA NoCallStep ==
  ASSUME IInv, Onwards, Kinds', \A d \in Call : Kept(d)
  PROVE  IInv'
  BY CallKept, EveryCall

\* ... or all but one.
LEMMA CallStep ==
  ASSUME IInv, Onwards, Kinds',
         NEW c \in Call, OneCall(c)', \A d \in Call \ {c} : Kept(d)
  PROVE  IInv'
<1>1. \A d \in Call : OneCall(d)'
  <2> TAKE d \in Call
  <2>1. CASE d = c
    BY <2>1
  <2>2. CASE d # c
    BY <2>2, CallKept
  <2> QED
    BY <2>1, <2>2
<1> QED
  BY <1>1, EveryCall

\* A new generator leaves the others as they are.
LEMMA CreateStep ==
  ASSUME IInv, NEW g \in Generator, NEW keyID \in KeyID, NEW key, Create(g, keyID, key)
  PROVE  /\ generators' \in [Generator -> GeneratorRecord \cup {NoGenerator}]
         /\ \A h \in Created : h \in Created' /\ generators'[h] = generators[h]
         /\ g \in Created'
<1> DEFINE new == [keyID |-> KeyIDFor(keyID), key |-> key]
<1>1. generators \in [Generator -> GeneratorRecord \cup {NoGenerator}]
  BY DEF IInv, TypeOK
<1>2. new \in GeneratorRecord /\ new # NoGenerator
  BY Defaults, GeneratorAssumption DEF Create, GeneratorRecord
<1>3. generators[g] = NoGenerator /\ generators' = [generators EXCEPT ![g] = new]
  BY DEF Create
<1> HIDE DEF new
<1>4. generators' \in [Generator -> GeneratorRecord \cup {NoGenerator}]
  BY <1>1, <1>2, <1>3
<1>5. generators'[g] = new /\ \A h \in Generator \ {g} : generators'[h] = generators[h]
  BY <1>1, <1>3
<1>6. Created' = Created \cup {g} /\ g \notin Created
  BY <1>2, <1>3, <1>5 DEF Created
<1>7. \A h \in Created : h \in Created' /\ generators'[h] = generators[h]
  BY <1>5, <1>6 DEF Created
<1> QED
  BY <1>4, <1>6, <1>7

\* A step without a new generator keeps what holds of generators.
LEMMA SameGenerators ==
  ASSUME IInv, UNCHANGED generators
  PROVE  /\ generators' \in [Generator -> GeneratorRecord \cup {NoGenerator}]
         /\ \A h \in Created : h \in Created' /\ generators'[h] = generators[h]
         /\ Created' = Created
  BY DEF IInv, TypeOK, Created

\* Time passes.
LEMMA TickStep ==
  ASSUME IInv, Tick
  PROVE  IInv'
<1>1. now' \in Nat /\ now <= now'
  BY DEF IInv, TypeOK, Tick
<1>2. \A d \in Call : Kept(d)
  BY DEF Tick, Kept
<1>3. Onwards /\ Kinds'
  BY <1>1, <1>2, SameGenerators, Numbers DEF IInv, TypeOK, Tick, Onwards, Kinds
<1> QED
  BY <1>2, <1>3, NoCallStep

\* A generator is made, under a given key or a new one.
LEMMA NewGeneratorStep ==
  ASSUME IInv, NEW g \in Generator, NEW keyID \in KeyID,
         NewGenerator(g, keyID) \/ \E key : NewGeneratorWithKey(g, keyID, key)
  PROVE  IInv'
<1>1. UNCHANGED <<now, pc, job, output>>
  BY DEF NewGenerator, NewGeneratorWithKey
<1>2. \E key : Create(g, keyID, key)
  BY DEF NewGenerator, NewGeneratorWithKey
<1>3. \A d \in Call : Kept(d)
  BY <1>1 DEF Kept
<1>4. Onwards /\ Kinds'
  BY <1>1, <1>2, <1>3, CreateStep DEF IInv, TypeOK, Onwards, Kinds
<1> QED
  BY <1>3, <1>4, NoCallStep

\* What a step makes of one call leaves the others alone.
LEMMA OthersKept ==
  ASSUME IInv, NEW c \in Call, NEW p, pc' = [pc EXCEPT ![c] = p],
         UNCHANGED job \/ \E j : job' = [job EXCEPT ![c] = j],
         UNCHANGED output \/ \E t : output' = [output EXCEPT ![c] = t]
  PROVE  /\ \A d \in Call \ {c} : Kept(d)
         /\ DOMAIN job' = Call /\ DOMAIN output' = Call /\ pc'[c] = p
<1>1. DOMAIN pc = Call /\ DOMAIN job = Call /\ DOMAIN output = Call
  BY DEF IInv, TypeOK
<1>2. \A d \in Call \ {c} : Kept(d)
  BY <1>1 DEF Kept
<1> QED
  BY <1>1, <1>2

\* A call is made of a generator, made before or for it, and its configuration is
\* refused or stands.
LEMMA AskStep ==
  ASSUME IInv, NEW c \in Call, NEW g, NEW config \in Config,
         RefuseConfig(c, g, config) \/ Prepare(c, g, config), g \in Created',
         generators' \in [Generator -> GeneratorRecord \cup {NoGenerator}],
         \A h \in Created : h \in Created' /\ generators'[h] = generators[h]
  PROVE  IInv'
<1>1. /\ pc[c] = "new" /\ UNCHANGED <<now, output>>
      /\ job' = [job EXCEPT ![c] = [generator |-> g, config |-> config, at |-> now]]
  BY DEF RefuseConfig, Prepare, Ask
<1>2. PICK p \in {"prepared", "refused"} :
        /\ pc' = [pc EXCEPT ![c] = p]
        /\ p = "prepared" <=> Admitted(config)
  BY DEF RefuseConfig, Prepare
<1>3. /\ \A d \in Call \ {c} : Kept(d)
      /\ DOMAIN job' = Call /\ DOMAIN output' = Call /\ pc'[c] = p
  BY <1>1, <1>2, OthersKept
<1>4. job'[c] = [generator |-> g, config |-> config, at |-> now]
  BY <1>1 DEF IInv, TypeOK
<1>5. now \in Nat /\ Epoch <= now /\ now' = now
  BY <1>1 DEF IInv, TypeOK
<1>6. Onwards /\ Kinds'
  BY <1>1, <1>2, <1>3, <1>5 DEF IInv, TypeOK, Onwards, Kinds
<1>7. OneCall(c)'
  BY <1>2, <1>3, <1>4, <1>5, Numbers DEF OneCall, Signed
<1> QED
  BY <1>3, <1>6, <1>7, CallStep

\* Generate, on a generator or on one of its own.
LEMMA GenerateStep ==
  ASSUME IInv, NEW c \in Call, NEW g \in Generator, NEW config \in Config,
         GenerateWith(c, g, config) \/ GenerateOnce(c, g, config)
  PROVE  IInv'
<1>1. RefuseConfig(c, g, config) \/ Prepare(c, g, config)
  BY DEF GenerateWith, GenerateOnce
<1>2. CASE GenerateWith(c, g, config)
  BY <1>1, <1>2, SameGenerators, AskStep DEF GenerateWith
<1>3. CASE GenerateOnce(c, g, config)
  <2>1. PICK key \in FreshKeys : Create(g, config.keyID, key)
    BY <1>3 DEF GenerateOnce
  <2>2. config.keyID \in KeyID
    BY AdmittedConfig
  <2> QED
    BY <1>1, <2>1, <2>2, CreateStep, AskStep
<1> QED
  BY <1>2, <1>3

\* What a generator signs has the header a verifier resolves.
LEMMA SignedResolves ==
  ASSUME IInv, NEW g \in Created, NEW claims
  PROVE  Resolvable(Sign(g, claims))
<1>1. generators[g] \in GeneratorRecord
  BY DEF IInv, TypeOK, Created
<1>2. generators[g].keyID # Blank
  BY <1>1 DEF GeneratorRecord
<1> QED
  BY <1>2 DEF Resolvable, Sign

\* The issuer grants a call, or refuses it.
LEMMA MintStep ==
  ASSUME IInv, NEW c \in Call, Mint(c) \/ RefuseMint(c)
  PROVE  IInv'
<1>1. pc[c] = "prepared" /\ UNCHANGED <<now, generators, job>>
  BY DEF Mint, RefuseMint
<1>2. /\ job[c].generator \in Created /\ job[c].at \in Epoch..now
      /\ job[c].config \in Config /\ Admitted(job[c].config)
      /\ now \in Nat /\ now' \in Nat /\ now <= now'
  BY <1>1, CallByCall DEF OneCall, Kinds
<1>3. /\ UNCHANGED output \/ \E t : output' = [output EXCEPT ![c] = t]
      /\ \E p \in {"minted", "refused"} : pc' = [pc EXCEPT ![c] = p]
  BY DEF Mint, RefuseMint
<1>4. /\ \A d \in Call \ {c} : Kept(d)
      /\ DOMAIN job' = Call /\ DOMAIN output' = Call
  BY <1>1, <1>3, OthersKept
<1>5. Onwards /\ Kinds'
  BY <1>1, <1>2, <1>3, <1>4, SameGenerators DEF IInv, TypeOK, Onwards, Kinds
<1>6. now \in job'[c].at..now' /\ job'[c] = job[c]
  BY <1>1, <1>2, Numbers
<1>7. \A at : /\ Grants(c, at)' <=> Grants(c, at)
              /\ ClaimsFor(c, at)' = ClaimsFor(c, at)
  BY <1>1 DEF Grants, ClaimsFor
<1>8. CASE Mint(c)
  <2>1. pc'[c] = "minted" /\ Grants(c, now)
        /\ output'[c] = Sign(job[c].generator, ClaimsFor(c, now))
    BY <1>8 DEF Mint, IInv, TypeOK
  <2>2. Resolvable(output'[c])
    BY <1>2, <2>1, SignedResolves
  <2>3. /\ Grants(c, now)' /\ now' = now
        /\ output'[c] = Sign(job[c].generator, ClaimsFor(c, now))'
    BY <1>1, <1>7, <2>1 DEF Sign
  <2>4. OneCall(c)'
    BY <1>2, <1>5, <1>6, <1>7, <2>1, <2>2, <2>3 DEF OneCall, Onwards, Sign
  <2> QED
    BY <1>4, <1>5, <2>4, CallStep
<1>9. CASE RefuseMint(c)
  <2>1. pc'[c] = "refused" /\ ~Grants(c, now)
    BY <1>9 DEF RefuseMint, IInv, TypeOK
  <2>2. OneCall(c)'
    BY <1>1, <1>2, <1>5, <1>6, <1>7, <2>1 DEF OneCall, Onwards, Signed
  <2> QED
    BY <1>4, <1>5, <2>2, CallStep
<1> QED
  BY <1>8, <1>9

\* A test has claims signed as they are.
LEMMA UncheckedStep ==
  ASSUME IInv, NEW c \in Call, NEW g \in Generator, NEW claims \in UncheckedClaims,
         SignUnchecked(c, g, claims)
  PROVE  IInv'
<1>1. /\ pc[c] = "new" /\ g \in Created /\ UNCHANGED <<now, generators>>
      /\ job' = [job EXCEPT ![c] = [generator |-> g, config |-> NoCall, at |-> now]]
      /\ pc' = [pc EXCEPT ![c] = "unchecked"]
  BY DEF SignUnchecked
<1>3. output' = [output EXCEPT ![c] = Sign(g, claims)]
  BY DEF SignUnchecked
<1>4. /\ \A e \in Call \ {c} : Kept(e)
      /\ DOMAIN job' = Call /\ DOMAIN output' = Call /\ pc'[c] = "unchecked"
  BY <1>1, <1>3, OthersKept
<1>5. /\ job'[c] = [generator |-> g, config |-> NoCall, at |-> now]
      /\ output'[c] = Sign(g, claims)
  BY <1>1, <1>3 DEF IInv, TypeOK
<1>6. now \in Nat /\ Epoch <= now /\ now' = now
  BY <1>1 DEF IInv, TypeOK
<1>7. Onwards /\ Kinds'
  BY <1>1, <1>4, <1>6, SameGenerators DEF IInv, TypeOK, Onwards, Kinds
<1>9. output'[c] = Sign(job[c].generator, claims)'
  BY <1>1, <1>5 DEF Sign
<1>10. OneCall(c)'
  <2>1. Resolvable(output'[c])
    BY <1>1, <1>5, SignedResolves
  <2>2. job'[c].generator \in Created' /\ job'[c].at \in Epoch..now'
    BY <1>1, <1>5, <1>6, <1>7, Numbers DEF Onwards
  <2> QED
    BY <1>3, <1>4, <1>9, <2>1, <2>2 DEF OneCall
<1> QED
  BY <1>4, <1>7, <1>10, CallStep

\* At first there is no generator and no call.
LEMMA InitIInv == Init => IInv
<1> SUFFICES ASSUME Init PROVE IInv
  OBVIOUS
<1>1. Kinds
  BY Numbers DEF Init, Kinds
<1>4. \A c \in Call : OneCall(c)
  BY DEF Init, OneCall, Signed
<1> QED
  BY <1>1, <1>4, CallByCall

\* Every step keeps it.
LEMMA StepIInv == IInv /\ [Next]_vars => IInv'
<1> SUFFICES ASSUME IInv, [Next]_vars PROVE IInv'
  OBVIOUS
<1>1. CASE Tick
  BY <1>1, TickStep
<1>2. ASSUME NEW g \in Generator, NEW keyID \in KeyID,
             \/ NewGenerator(g, keyID)
             \/ \E key \in SigningKey \cup {UnusableKey} : NewGeneratorWithKey(g, keyID, key)
      PROVE  IInv'
  BY <1>2, NewGeneratorStep
<1>3. ASSUME NEW c \in Call, NEW g \in Generator, NEW config \in Config,
             GenerateWith(c, g, config) \/ GenerateOnce(c, g, config)
      PROVE  IInv'
  BY <1>3, GenerateStep
<1>4. ASSUME NEW c \in Call, Mint(c) \/ RefuseMint(c)
      PROVE  IInv'
  BY <1>4, MintStep
<1>5. ASSUME NEW c \in Call, NEW g \in Generator, NEW claims \in UncheckedClaims,
             SignUnchecked(c, g, claims)
      PROVE  IInv'
  BY <1>5, UncheckedStep
<1>6. CASE UNCHANGED vars
  <2>1. \A d \in Call : Kept(d)
    BY <1>6 DEF vars, Kept
  <2>2. Onwards /\ Kinds'
    BY <1>6, <2>1, SameGenerators, Numbers
       DEF vars, IInv, TypeOK, Onwards, Kinds
  <2> QED
    BY <2>1, <2>2, NoCallStep
<1> QED
  BY <1>1, <1>2, <1>3, <1>4, <1>5, <1>6 DEF Next

\* Whatever generators are made and however the calls and the clock interleave,
\* every token is the one its issuer grants for its configuration between the call
\* and now, or was signed as it was given.
THEOREM GeneratorConsistent == Spec => []IInv
  BY InitIInv, StepIInv, PTL DEF Spec
-----------------------------------------------------------------------------
(* What is minted. *)

\* A minted token's claims are what its configuration was promised.
LEMMA MintedIsPromised ==
  ASSUME IInv, NEW c \in Minted
  PROVE  /\ c \in Call /\ job[c].config \in Config /\ Admitted(job[c].config)
         /\ now \in Nat /\ job[c].at \in Nat /\ Epoch <= job[c].at
         /\ \E at \in Nat : /\ job[c].at <= at /\ at <= now
                            /\ Promised(output[c].claims, job[c].config, c, job[c].at, at)
<1>1. c \in Call /\ pc[c] = "minted"
  BY DEF Minted
<1>2. OneCall(c) /\ now \in Nat
  BY <1>1, CallByCall DEF Kinds
<1>3. /\ job[c].config \in Config /\ Admitted(job[c].config)
      /\ job[c].at \in Epoch..now
  BY <1>1, <1>2 DEF OneCall
<1>4. PICK at \in job[c].at..now :
        Grants(c, at) /\ output[c] = Sign(job[c].generator, ClaimsFor(c, at))
  BY <1>1, <1>2 DEF OneCall
<1>5. /\ job[c].at \in Nat /\ Epoch <= job[c].at
      /\ at \in Nat /\ job[c].at <= at /\ at <= now
  BY <1>2, <1>3, <1>4, Numbers
<1>6. output[c].claims = ClaimsFor(c, at)
  BY <1>4 DEF Sign
<1>7. Promised(output[c].claims, job[c].config, c, job[c].at, at)
  BY <1>1, <1>3, <1>4, <1>5, <1>6, GrantedIsPromised
<1> QED
  BY <1>1, <1>2, <1>3, <1>5, <1>7

\* A signed token has its generator's key and key id.
LEMMA SignedByItsGenerator ==
  ASSUME IInv, NEW c \in Call, Signed(c)
  PROVE  /\ job[c].generator \in Created /\ Resolvable(output[c])
         /\ output[c].key = generators[job[c].generator].key
         /\ ResolutionBy(job[c].generator, output[c]) = "key"
<1>1. OneCall(c) /\ pc[c] \in {"minted", "unchecked"}
  BY CallByCall DEF Signed
<1>2. \E claims : output[c] = Sign(job[c].generator, claims)
  BY <1>1 DEF OneCall
<1>3. job[c].generator \in Created /\ Resolvable(output[c])
  BY <1>1 DEF OneCall, Signed
<1> QED
  BY <1>2, <1>3 DEF Sign, ResolutionBy

\* So its generator's JWKS has it judged by its claims alone.
LEMMA OwnVerdict ==
  ASSUME IInv, NEW c \in Call, Signed(c), NEW audience
  PROVE  VerdictBy(job[c].generator, output[c], audience) = "accepted"
           <=> ClaimsAccepted(output[c].claims, audience, now)
<1>1. Resolvable(output[c]) /\ ResolutionBy(job[c].generator, output[c]) = "key"
  BY SignedByItsGenerator
<1> QED
  BY <1>1 DEF VerdictBy, VerifyToken, Verify

\* The verifier of the service a token is for accepts it until it expires.
THEOREM MintedIsAccepted == Spec => []MintedVerifies
<1>1. IInv => MintedVerifies
  <2> SUFFICES ASSUME IInv, NEW c \in Minted, job[c].config.issuer = TrustedIssuer,
                      now < output[c].claims.exp
               PROVE  VerdictBy(job[c].generator, output[c], job[c].config.audience) = "accepted"
    BY DEF MintedVerifies
  <2> DEFINE claims == output[c].claims
             audience == job[c].config.audience
  <2>1. c \in Call /\ Signed(c) /\ now \in Nat
    BY MintedIsPromised DEF Minted, Signed
  <2>2. PICK at \in Nat : /\ at <= now
                          /\ Promised(claims, job[c].config, c, job[c].at, at)
    BY MintedIsPromised
  <2>3. claims.iat = NumericDate(at) /\ claims.exp \in Nat
    BY <2>2 DEF Promised
  <2>4. claims.exp # NoTime
    BY <2>1, <2>3 DEF NoTime
  <2>5. SoundClaims(claims, audience)
    BY <2>2, <2>4 DEF Promised
  <2>6. claims.iat \in Nat /\ claims.iat <= at
    BY <2>2, <2>3, DateBounds
  <2>7. claims.iat - Leeway <= now /\ now < claims.exp + Leeway
    BY <2>1, <2>2, <2>3, <2>6, Numbers
  <2>8. now \in Int
    BY <2>1
  <2> HIDE DEF claims, audience
  <2>9. ClaimsAccepted(claims, audience, now)
    BY <2>5, <2>7, <2>8, SoundClaimsAccepted
  <2> QED
    BY <2>1, <2>9, OwnVerdict DEF claims, audience
<1> QED
  BY <1>1, GeneratorConsistent, PTL

\* A token lives as long as was asked for, less the fractions its dates lose.
THEOREM LivesAsAsked == Spec => []LifetimeAsAsked
<1>1. IInv => LifetimeAsAsked
  <2> SUFFICES ASSUME IInv, NEW c \in Minted
               PROVE  LET claims == output[c].claims
                          ttl == TTLFor(job[c].config)
                      IN  /\ job[c].at + ttl < claims.exp + Second
                          /\ claims.exp - claims.iat <= ttl + Second - 1
                          /\ External(job[c].config) => claims.exp <= job[c].at + ttl
    BY DEF LifetimeAsAsked
  <2> DEFINE claims == output[c].claims
             ttl == TTLFor(job[c].config)
  <2>1. PICK at \in Nat : Promised(claims, job[c].config, c, job[c].at, at)
    BY MintedIsPromised
  <2>2. ttl \in Int
    BY MintedIsPromised, AdmittedConfig
  <2>3. /\ job[c].at + ttl < claims.exp + Second /\ claims.exp <= at + ttl
        /\ External(job[c].config) => claims.exp <= job[c].at + ttl
        /\ claims.iat = NumericDate(at) /\ claims.exp \in Nat
    BY <2>1 DEF Promised
  <2>4. NumericDate(at) \in Nat /\ at < NumericDate(at) + Second /\ Second \in Nat
    BY DateBounds, Numbers
  <2> HIDE DEF claims, ttl
  <2>5. claims.exp - claims.iat <= ttl + Second - 1
    BY <2>2, <2>3, <2>4
  <2> QED
    BY <2>3, <2>5 DEF claims, ttl
<1> QED
  BY <1>1, GeneratorConsistent, PTL

\* The token says what was asked for, and a chain it starts is no other's.
THEOREM SaysWhatWasAsked == Spec => []MintedAsConfigured
<1>1. IInv => MintedAsConfigured
  <2> SUFFICES ASSUME IInv, NEW c \in Minted
               PROVE  LET config == job[c].config
                          claims == output[c].claims
                      IN  /\ claims.use = config.use /\ claims.aud = <<config.audience>>
                          /\ claims.originSub = config.originSub
                          /\ config.txn # NoId => claims.txn = config.txn
                          /\ config.txn = NoId =>
                               \A d \in Minted \ {c} : output[d].claims.txn # claims.txn
                          /\ <<claims.scope, claims.tenant, claims.event>> =
                               IF MachineOrigin(config) THEN <<Blank, Blank, Blank>>
                               ELSE <<config.scope, config.tenant, config.event>>
    BY DEF MintedAsConfigured
  <2>1. \A d \in Minted : /\ d \in Call /\ job[d].config \in Config
                          /\ output[d].claims.txn = TxnFor(job[d].config, d)
    BY MintedIsPromised DEF Promised
  <2>2. /\ output[c].claims.use = job[c].config.use
        /\ output[c].claims.aud = <<job[c].config.audience>>
        /\ output[c].claims.originSub = job[c].config.originSub
        /\ <<output[c].claims.scope, output[c].claims.tenant, output[c].claims.event>> =
             IF MachineOrigin(job[c].config) THEN <<Blank, Blank, Blank>>
             ELSE <<job[c].config.scope, job[c].config.tenant, job[c].config.event>>
    BY MintedIsPromised DEF Promised
  <2>3. job[c].config.txn # NoId => output[c].claims.txn = job[c].config.txn
    BY <2>1 DEF TxnFor
  <2>4. ASSUME job[c].config.txn = NoId, NEW d \in Minted \ {c}
        PROVE  output[d].claims.txn # output[c].claims.txn
    <3>1. output[c].claims.txn = FreshTxn(c) /\ c \in Call /\ d \in Call
      BY <2>1, <2>4 DEF TxnFor
    <3>2. CASE job[d].config.txn = NoId
      <4>1. output[d].claims.txn = FreshTxn(d)
        BY <2>1, <3>2 DEF TxnFor
      <4> QED
        BY <3>1, <4>1, FreshIds
    <3>3. CASE job[d].config.txn # NoId
      <4>1. output[d].claims.txn = job[d].config.txn
        BY <2>1, <3>3 DEF TxnFor
      <4>2. job[d].config.txn \in Nat /\ job[d].config.txn < DefaultSourceJTI
        BY <2>1, AdmittedConfig
      <4>3. FreshTxn(c) \in Nat /\ FreshTxn(c) > DefaultSourceJTI
        BY <3>1, FreshIds
      <4> QED
        BY <3>1, <4>1, <4>2, <4>3, Numbers
    <3> QED
      BY <3>2, <3>3
  <2> QED
    BY <2>2, <2>3, <2>4
<1> QED
  BY <1>1, GeneratorConsistent, PTL

\* Only what is well formed is minted, and it is refused only for the time passed.
THEOREM RefusedOnlyForCause == Spec => []RefusedForCause
<1>1. IInv => RefusedForCause
  <2> SUFFICES ASSUME IInv, NEW c \in Call
               PROVE  /\ pc[c] = "minted" => WellFormed(job[c].config)
                      /\ pc[c] = "refused" /\ WellFormed(job[c].config) =>
                           /\ ~NewChain(job[c].config)
                           /\ job[c].at + TTLFor(job[c].config) < now + Second
    BY DEF RefusedForCause
  <2>1. ASSUME pc[c] = "minted" PROVE WellFormed(job[c].config)
    BY <2>1, MintedIsPromised DEF Minted, Promised
  <2>2. ASSUME pc[c] = "refused", WellFormed(job[c].config)
        PROVE  /\ ~NewChain(job[c].config)
               /\ job[c].at + TTLFor(job[c].config) < now + Second
    <3>1. OneCall(c) /\ now \in Nat
      BY CallByCall DEF Kinds
    <3>2. job[c].config \in Config /\ job[c].at \in Epoch..now
      BY <2>2, <3>1 DEF OneCall
    <3>3. Admitted(job[c].config)
      BY <2>2, <3>2, WellFormedAdmitted
    <3>4. PICK at \in job[c].at..now : ~Grants(c, at)
      BY <2>2, <3>1, <3>3 DEF OneCall
    <3>5. /\ job[c].at \in Nat /\ Epoch <= job[c].at
          /\ at \in Nat /\ job[c].at <= at /\ at <= now
      BY <3>1, <3>2, <3>4, Numbers
    <3>6. /\ ~NewChain(job[c].config)
          /\ job[c].at + TTLFor(job[c].config) < at + Second
      BY <2>2, <3>2, <3>4, <3>5, RefusedIsLate
    <3>7. TTLFor(job[c].config) \in Int /\ Second \in Nat
      BY <3>2, AdmittedConfig, Numbers
    <3> QED
      BY <3>1, <3>5, <3>6, <3>7
  <2> QED
    BY <2>1, <2>2
<1> QED
  BY <1>1, GeneratorConsistent, PTL

\* The gateway speaks of tokens as the generator and the verifier do.
LEMMA GatewayVocabulary ==
  /\ Gateway!Blank = Blank /\ Gateway!NoId = NoId /\ Gateway!NoTime = NoTime
  /\ Gateway!TokenUseService = TokenUseService
  /\ Gateway!ExternalTokenUse = ExternalTokenUse
  /\ \A use, tenant, event :
       Gateway!ValidateBinding(use, tenant, event) <=> ValidateBinding(use, tenant, event)
  BY DEF Blank, NoId, NoTime, ValidateBinding, ExternalTokenUse,
     TokenUseService, TokenUseTenantAccess, TokenUseEventAccess, TokenUseRegistration,
     Gateway!Blank, Gateway!NoId, Gateway!NoTime, Gateway!ValidateBinding,
     Gateway!ExternalTokenUse, Gateway!TokenUseService, Gateway!TokenUseTenantAccess,
     Gateway!TokenUseEventAccess, Gateway!TokenUseRegistration

\* The claims a verifier accepts are a user's context for the issuer or a machine's.
LEMMA AcceptedOneWay ==
  ASSUME NEW claims, NEW service, NEW at, ClaimsAccepted(claims, service, at)
  PROVE  ~(Gateway!ValidUserOriginContext(claims) <=> Gateway!ValidMachineOriginContext(claims))
<1>1. /\ ValidateBinding(claims.use, claims.tenant, claims.event)
      /\ ValidateOriginClaims(claims)
      /\ claims.sub # Blank /\ claims.jti # NoId /\ claims.txn # NoId
  BY DEF ClaimsAccepted, ValidateRegisteredClaims, ValidateCommonClaims
<1>2. CASE claims.use # TokenUseService
  <2>1. claims.use \in ExternalTokenUse /\ claims.scope # Blank /\ claims.srcJti # NoId
    BY <1>1, <1>2 DEF ValidateBinding, ExternalTokenUse, ValidateOriginClaims,
       ValidateExternalOriginClaims
  <2> QED
    BY <1>1, <1>2, <2>1, GatewayVocabulary
       DEF Gateway!ValidUserOriginContext, Gateway!ValidMachineOriginContext
<1>3. CASE claims.use = TokenUseService /\ claims.originSub # Blank
  <2>1. claims.scope # Blank /\ claims.srcJti # NoId
    BY <1>1, <1>3 DEF ValidateOriginClaims, ValidateServiceClaims
  <2> QED
    BY <1>1, <1>3, <2>1, GatewayVocabulary
       DEF Gateway!ValidUserOriginContext, Gateway!ValidMachineOriginContext
<1>4. CASE claims.use = TokenUseService /\ claims.originSub = Blank
  <2>1. claims.scope = Blank /\ claims.srcJti = NoId /\ claims.tenant = Blank
    BY <1>1, <1>4 DEF ValidateOriginClaims, ValidateServiceClaims, ValidateMachineOriginClaims
  <2>2. claims.event = Blank
    BY <1>1, <1>4, <2>1 DEF ValidateBinding, TokenUseService, TokenUseTenantAccess,
       TokenUseEventAccess, TokenUseRegistration
  <2>3. claims.use \notin ExternalTokenUse
    BY <1>4 DEF ExternalTokenUse, TokenUseService, TokenUseTenantAccess,
       TokenUseEventAccess, TokenUseRegistration
  <2> QED
    BY <1>1, <1>4, <2>1, <2>2, <2>3, GatewayVocabulary
       DEF Gateway!ValidUserOriginContext, Gateway!ValidMachineOriginContext
<1> QED
  BY <1>2, <1>3, <1>4

\* A context token the verifier accepts is unexpired for the issuer, and names the
\* service, exactly until it expires.
LEMMA AcceptedUntilExpiry ==
  ASSUME NEW claims, NEW service, NEW at, ClaimsAccepted(claims, service, at)
  PROVE  Gateway!ValidContextToken(claims, service, at) <=> at < claims.exp
<1>1. claims.exp # NoTime /\ \E i \in DOMAIN claims.aud : claims.aud[i] = service
  BY DEF ClaimsAccepted, ParserAccepts, MatchAudience
<1>2. claims.exp > at <=> at < claims.exp
  OBVIOUS
<1> QED
  BY <1>1, <1>2, GatewayVocabulary DEF Gateway!ValidContextToken, Gateway!Names

\* Whatever claims a token carries, the service it is accepted for can have it
\* continued in one way until it expires, and in none afterwards.
THEOREM AcceptedContinued == Spec => []AcceptedContinuesOneWay
<1>1. IInv => AcceptedContinuesOneWay
  <2> SUFFICES ASSUME IInv, NEW c \in Call, Signed(c), NEW service, service # Blank,
                      VerdictBy(job[c].generator, output[c], service) = "accepted"
               PROVE  LET claims == output[c].claims
                          user == Gateway!MayReissueUser(DefaultCaller, service, claims, now)
                          machine == Gateway!MayReissueMachine(DefaultCaller, service, claims, now)
                      IN  IF now < claims.exp THEN ~(user <=> machine) ELSE ~user /\ ~machine
    BY DEF AcceptedContinuesOneWay
  <2> DEFINE claims == output[c].claims
  <2>1. ClaimsAccepted(claims, service, now)
    BY OwnVerdict
  <2>2. DefaultCaller # Gateway!Blank /\ service # Gateway!Blank
    BY GatewayVocabulary, GeneratorAssumption
  <2> HIDE DEF claims
  <2>3. Gateway!ValidContextToken(claims, service, now) <=> now < claims.exp
    BY <2>1, AcceptedUntilExpiry
  <2>4. ~(Gateway!ValidUserOriginContext(claims) <=> Gateway!ValidMachineOriginContext(claims))
    BY <2>1, AcceptedOneWay
  <2>5. /\ Gateway!MayReissueUser(DefaultCaller, service, claims, now) <=>
             now < claims.exp /\ Gateway!ValidUserOriginContext(claims)
        /\ Gateway!MayReissueMachine(DefaultCaller, service, claims, now) <=>
             now < claims.exp /\ Gateway!ValidMachineOriginContext(claims)
    BY <2>2, <2>3 DEF Gateway!MayReissueUser, Gateway!MayReissueMachine
  <2> QED
    BY <2>4, <2>5 DEF claims
<1> QED
  BY <1>1, GeneratorConsistent, PTL
============================================================================
