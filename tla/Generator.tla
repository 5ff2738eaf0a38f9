------------------------------ MODULE Generator ------------------------------
(***************************************************************************)
(* jwtgen: tokens minted for tests and for the command line, through the   *)
(* issuer itself.  A generator has one key for ever, so its calls only     *)
(* share the clock, which a call reads twice: once here, for the token it  *)
(* pretends to hold, and once in the issuer.  An issuer refuses what has   *)
(* expired in between, and every expiry has lost its fraction of a second. *)
(***************************************************************************)
EXTENDS Verifier

CONSTANTS
  Generator, Call,        \* calls are natural numbers, each made once
  Config,                 \* the configurations Generate is given
  KeyID,                  \* the key ids NewGenerator is given, Blank among them
  SigningKey, UnusableKey,  \* UnusableKey: none, or on another curve
  NoGenerator, NoCall, NoToken,
  DefaultKeyID, DefaultTTL, DefaultSubject, DefaultCaller, DefaultClientID,
  DefaultSourceJTI,       \* above every txn of a configuration
  UncheckedClaims,        \* BOUND: the claims SignUnchecked is given, of any kind
  Epoch, MaxTime          \* BOUND: time runs from Epoch to MaxTime

GeneratorRecord == [keyID : (KeyID \cup {DefaultKeyID}) \ {Blank}, key : SigningKey]

ASSUME GeneratorAssumption ==
  /\ Call \subseteq Nat \ {0} /\ NoGenerator \notin GeneratorRecord
  /\ Blank \notin {DefaultKeyID, DefaultSubject, DefaultCaller, DefaultClientID}
  /\ {DefaultTTL, DefaultSourceJTI, Epoch} \subseteq Nat \ {0} /\ MaxTime \in Nat
  /\ Epoch >= Second
  /\ \A config \in Config :
       /\ config.ttl \in Int /\ config.keyID \in KeyID
       /\ config.txn \in Nat /\ config.txn < DefaultSourceJTI

VARIABLES
  now,
  generators,   \* [Generator -> GeneratorRecord \cup {NoGenerator}]
  pc,           \* "new", "prepared", "minted", "refused", "unchecked"
  job,          \* each call's generator, configuration and first clock reading
  output        \* the token, which is Output.Token with Output.Claims

vars == <<now, generators, pc, job, output>>

OrDefault(value, fallback) == IF value = Blank THEN fallback ELSE value

\* newTxn and the issuer's jti: identifiers nothing else has.  The fixed txn newTxn
\* falls back to without randomness is not modelled: crypto/rand does not fail.
FreshJti(c) == DefaultSourceJTI + 2 * c
FreshTxn(c) == DefaultSourceJTI + 2 * c + 1

Init ==
  /\ now = Epoch
  /\ generators = [g \in Generator |-> NoGenerator]
  /\ pc = [c \in Call |-> "new"]
  /\ job = [c \in Call |-> NoCall]
  /\ output = [c \in Call |-> NoToken]
-----------------------------------------------------------------------------
(* Generators. *)

\* MUTANT of KeyIDFor: an empty key id is kept
KeyIDAsGiven(keyID) == keyID

KeyIDFor(keyID) == OrDefault(keyID, DefaultKeyID)

Create(g, keyID, key) ==
  /\ generators[g] = NoGenerator
  /\ key \in SigningKey
  /\ generators' = [generators EXCEPT ![g] = [keyID |-> KeyIDFor(keyID), key |-> key]]

Created == {g \in Generator : generators[g] # NoGenerator}

\* ecdsa.GenerateKey gives a key nobody has
FreshKeys == SigningKey \ {generators[g].key : g \in Created}

NewGeneratorWithKey(g, keyID, key) ==
  Create(g, keyID, key) /\ UNCHANGED <<now, pc, job, output>>

NewGenerator(g, keyID) ==
  /\ \E key \in FreshKeys : Create(g, keyID, key)
  /\ UNCHANGED <<now, pc, job, output>>
-----------------------------------------------------------------------------
(* What a configuration asks for. *)

TTLFor(config) == IF config.ttl = 0 THEN DefaultTTL ELSE config.ttl

\* the issuer built for one call
Iss(config) == INSTANCE Issuer WITH IssuerID <- config.issuer, TTL <- TTLFor(config)

Caller(config) == OrDefault(config.subject, DefaultCaller)

\* Generate's own checks and those of issuer.New
Admitted(config) ==
  /\ config.use # TokenUseService => config.originSub = Blank /\ config.txn = NoId
  /\ config.issuer # Blank
  /\ TTLFor(config) > 0

\* MUTANT of ExternalInput: the pretended token lives for the default lifetime
ExternalInputOfDefaultTTL(config, at) ==
  [audience |-> config.audience, use |-> config.use,
   subject |-> OrDefault(config.subject, DefaultSubject),
   client |-> DefaultClientID, scope |-> config.scope,
   sourceJti |-> DefaultSourceJTI, sourceExp |-> at + DefaultTTL,
   tenant |-> config.tenant, event |-> config.event]

\* The external token the gateway would have been shown.
ExternalInput(config, at) ==
  [audience |-> config.audience, use |-> config.use,
   subject |-> OrDefault(config.subject, DefaultSubject),
   client |-> DefaultClientID, scope |-> config.scope,
   sourceJti |-> DefaultSourceJTI, sourceExp |-> at + TTLFor(config),
   tenant |-> config.tenant, event |-> config.event]

\* A service token the caller would hold, addressed to it.
ServiceContext(config, at, txn) ==
  [iss |-> config.issuer, sub |-> Caller(config), aud |-> <<Caller(config)>>,
   jti |-> DefaultSourceJTI,
   iat |-> NumericDate(at), nbf |-> NumericDate(at),
   exp |-> NumericDate(at + TTLFor(config)),
   use |-> TokenUseService, client |-> Caller(config), txn |-> txn,
   scope |-> Blank, srcJti |-> NoId, srcExp |-> NoTime,
   originSub |-> Blank, tenant |-> Blank, event |-> Blank]

\* MUTANT of TxnFor: a re-issue starts a chain of its own
AlwaysFreshTxn(config, c) == FreshTxn(c)

TxnFor(config, c) == IF config.txn # NoId THEN config.txn ELSE FreshTxn(c)

\* MUTANT of UserContext: the context is addressed to the destination
MisaddressedContext(config, at, c) ==
  [ServiceContext(config, at, TxnFor(config, c)) EXCEPT
     !.aud = <<config.audience>>, !.scope = config.scope, !.srcJti = DefaultSourceJTI,
     !.originSub = config.originSub, !.tenant = config.tenant, !.event = config.event]

\* ... and which a user's call reached it with.
UserContext(config, at, c) ==
  [ServiceContext(config, at, TxnFor(config, c)) EXCEPT
     !.scope = config.scope, !.srcJti = DefaultSourceJTI,
     !.originSub = config.originSub, !.tenant = config.tenant, !.event = config.event]

External(config) == config.use # TokenUseService
MachineOrigin(config) == ~External(config) /\ config.originSub = Blank
NewChain(config) == MachineOrigin(config) /\ config.txn = NoId
-----------------------------------------------------------------------------
(* Generate. *)

Ask(c, g, config) ==
  /\ pc[c] = "new"
  /\ job' = [job EXCEPT ![c] = [generator |-> g, config |-> config, at |-> now]]
  /\ UNCHANGED <<now, output>>

RefuseConfig(c, g, config) ==
  /\ ~Admitted(config)
  /\ Ask(c, g, config) /\ pc' = [pc EXCEPT ![c] = "refused"]

\* The configuration stands and the clock is read for what it pretends.
Prepare(c, g, config) ==
  /\ Admitted(config)
  /\ Ask(c, g, config) /\ pc' = [pc EXCEPT ![c] = "prepared"]

\* Generator.Generate
GenerateWith(c, g, config) ==
  /\ g \in Created /\ UNCHANGED generators
  /\ RefuseConfig(c, g, config) \/ Prepare(c, g, config)

\* Generate: one call under a key of its own, as the jwtgen command makes it.
GenerateOnce(c, g, config) ==
  /\ \E key \in FreshKeys : Create(g, config.keyID, key)
  /\ RefuseConfig(c, g, config) \/ Prepare(c, g, config)

\* Whether the issuer grants the call at an instant, and the claims it then signs.
Grants(c, at) ==
  LET config == job[c].config
  IN  IF External(config) THEN Iss(config)!MayConvert(ExternalInput(config, job[c].at), at)
      ELSE IF NewChain(config) THEN Iss(config)!MayStartMachine(config.audience, Caller(config))
      ELSE IF MachineOrigin(config)
           THEN Iss(config)!MayReissueMachine(config.audience, Caller(config),
                  ServiceContext(config, job[c].at, config.txn), at)
           ELSE Iss(config)!MayReissueUser(config.audience, Caller(config),
                  UserContext(config, job[c].at, c), at)

ClaimsFor(c, at) ==
  LET config == job[c].config
  IN  IF External(config)
      THEN Iss(config)!ExternalTokenClaims(ExternalInput(config, job[c].at), at,
             FreshJti(c), FreshTxn(c))
      ELSE IF MachineOrigin(config)
      THEN Iss(config)!MachineOriginServiceClaims(config.audience, Caller(config),
             TxnFor(config, c), at, FreshJti(c))
      ELSE Iss(config)!UserOriginServiceClaims(config.audience, Caller(config),
             UserContext(config, job[c].at, c), at, FreshJti(c))

\* MUTANT of Sign: the header names the default key id
SignUnderDefault(g, claims) ==
  [alg |-> "ES256", typ |-> "JWT", kid |-> DefaultKeyID,
   key |-> generators[g].key, claims |-> claims]

Sign(g, claims) ==
  [alg |-> "ES256", typ |-> "JWT", kid |-> generators[g].keyID,
   key |-> generators[g].key, claims |-> claims]

Mint(c) ==
  /\ pc[c] = "prepared" /\ Grants(c, now)
  /\ output' = [output EXCEPT ![c] = Sign(job[c].generator, ClaimsFor(c, now))]
  /\ pc' = [pc EXCEPT ![c] = "minted"]
  /\ UNCHANGED <<now, generators, job>>

RefuseMint(c) ==
  /\ pc[c] = "prepared" /\ ~Grants(c, now)
  /\ pc' = [pc EXCEPT ![c] = "refused"]
  /\ UNCHANGED <<now, generators, job, output>>

Minted == {c \in Call : pc[c] = "minted"}

\* SignUnchecked: a test's own claims, whatever they say, go under the generator's
\* key as they are; an empty claim is absent from the token.
SignUnchecked(c, g, claims) ==
  /\ pc[c] = "new" /\ g \in Created
  /\ output' = [output EXCEPT ![c] = Sign(g, claims)]
  /\ job' = [job EXCEPT ![c] = [generator |-> g, config |-> NoCall, at |-> now]]
  /\ pc' = [pc EXCEPT ![c] = "unchecked"]
  /\ UNCHANGED <<now, generators>>
-----------------------------------------------------------------------------
Tick ==
  /\ now < MaxTime
  /\ now' = now + 1
  /\ UNCHANGED <<generators, pc, job, output>>

Next ==
  \/ Tick
  \/ \E g \in Generator, keyID \in KeyID :
       \/ NewGenerator(g, keyID)
       \/ \E key \in SigningKey \cup {UnusableKey} : NewGeneratorWithKey(g, keyID, key)
  \/ \E c \in Call :
       \/ \E g \in Generator, config \in Config :
            GenerateWith(c, g, config) \/ GenerateOnce(c, g, config)
       \/ Mint(c) \/ RefuseMint(c)
       \/ \E g \in Generator, claims \in UncheckedClaims : SignUnchecked(c, g, claims)

Spec == Init /\ [][Next]_vars
-----------------------------------------------------------------------------
(* Properties. *)

Signed(c) == pc[c] \in {"minted", "unchecked"}

\* A call has a generator once it is made, and a token, with the key id a verifier
\* asks for, once it has been signed.
TypeOK ==
  /\ now \in Nat /\ now >= Epoch
  /\ generators \in [Generator -> GeneratorRecord \cup {NoGenerator}]
  /\ pc \in [Call -> {"new", "prepared", "minted", "refused", "unchecked"}]
  /\ DOMAIN job = Call /\ DOMAIN output = Call
  /\ \A c \in Call :
       /\ pc[c] # "new" => job[c].generator \in Created /\ job[c].at \in Epoch..now
       /\ Signed(c) => Resolvable(output[c])

\* what a verifier learns of a token's kid from the JWKS of generator g
ResolutionBy(g, token) ==
  IF token.kid = generators[g].keyID /\ token.key = generators[g].key THEN "key" ELSE "unknown"

VerdictBy(g, token, audience) ==
  VerifyToken(token, audience, now, ResolutionBy(g, token))

\* Every token the generator minted passes the verifier of the service it is for,
\* against the generator's one JWKS, until it expires: whatever the issuer derives
\* from a configuration meets every check the verifier makes.
MintedVerifies ==
  \A c \in Minted :
    LET t == output[c]
        config == job[c].config
    IN  config.issuer = TrustedIssuer /\ now < t.claims.exp =>
          VerdictBy(job[c].generator, t, config.audience) = "accepted"

\* the gateway that re-issues from what its verifier has accepted
Gateway == INSTANCE Issuer WITH IssuerID <- TrustedIssuer, TTL <- DefaultTTL

\* The verifier's checks and the issuer's divide the tokens in the same way, though
\* neither package sees the other's: whatever claims a token carries, minted or
\* signed unchecked, the service it is accepted for can have it continued as a
\* user's call or as a machine's until it expires, never both; and not at all from
\* then on, though the verifier accepts it for the leeway longer.
AcceptedContinuesOneWay ==
  \A c \in Call :
    Signed(c) =>
      LET t == output[c]
      IN  \A i \in DOMAIN t.claims.aud :
            LET service == t.claims.aud[i]
                user == Gateway!MayReissueUser(DefaultCaller, service, t.claims, now)
                machine == Gateway!MayReissueMachine(DefaultCaller, service, t.claims, now)
            IN  service # Blank /\ VerdictBy(job[c].generator, t, service) = "accepted" =>
                  IF now < t.claims.exp THEN ~(user <=> machine) ELSE ~user /\ ~machine

\* The configurations the flags of the jwtgen command describe.
WellFormed(config) ==
  /\ config.issuer # Blank /\ config.audience # Blank /\ config.ttl >= 0
  /\ External(config) =>
       /\ config.originSub = Blank /\ config.txn = NoId /\ config.scope # Blank
       /\ config.use \in {TokenUseTenantAccess, TokenUseEventAccess} <=> config.tenant # Blank
       /\ config.use = TokenUseEventAccess <=> config.event # Blank
       /\ config.use \in ExternalTokenUse
  /\ ~External(config) /\ config.originSub # Blank =>
       config.scope # Blank /\ (config.event # Blank => config.tenant # Blank)

\* Nothing ill-formed is minted, and what is well formed is refused only when less
\* than a second of the token it pretends to hold was left at the second reading.
RefusedForCause ==
  \A c \in Call :
    /\ pc[c] = "minted" => WellFormed(job[c].config)
    /\ pc[c] = "refused" /\ WellFormed(job[c].config) =>
         /\ ~NewChain(job[c].config)
         /\ job[c].at + TTLFor(job[c].config) < now + Second

\* The token says what was asked for: the user and the chain of a re-issue pass
\* through the context it pretends, and a machine's token carries no user's grant.
MintedAsConfigured ==
  \A c \in Minted :
    LET config == job[c].config
        claims == output[c].claims
    IN  /\ claims.use = config.use /\ claims.aud = <<config.audience>>
        /\ claims.originSub = config.originSub
        /\ config.txn # NoId => claims.txn = config.txn
        /\ config.txn = NoId => \A d \in Minted \ {c} : output[d].claims.txn # claims.txn
        /\ <<claims.scope, claims.tenant, claims.event>> =
             IF MachineOrigin(config) THEN <<Blank, Blank, Blank>>
             ELSE <<config.scope, config.tenant, config.event>>

\* A token lives from its second for the lifetime asked for, less at most the
\* fraction of a second its dates lose, and a converted one not past the lifetime
\* counted from the first clock reading.
LifetimeAsAsked ==
  \A c \in Minted :
    LET claims == output[c].claims
        ttl == TTLFor(job[c].config)
    IN  /\ job[c].at + ttl < claims.exp + Second
        /\ claims.exp - claims.iat <= ttl + Second - 1
        /\ External(job[c].config) => claims.exp <= job[c].at + ttl
-----------------------------------------------------------------------------
(* The invariant the proofs rest on. *)

\* A call was granted or refused by the issuer at an instant between its two
\* readings of the clock and now, and its token is what the issuer signs at it.
CallInv ==
  \A c \in Call :
    LET config == job[c].config
    IN  /\ pc[c] \in {"prepared", "minted", "refused"} => config \in Config
        /\ pc[c] \in {"prepared", "minted"} => Admitted(config)
        /\ pc[c] = "minted" =>
             \E at \in job[c].at..now :
               Grants(c, at) /\ output[c] = Sign(job[c].generator, ClaimsFor(c, at))
        /\ pc[c] = "refused" /\ Admitted(config) =>
             \E at \in job[c].at..now : ~Grants(c, at)

\* What is signed unchecked are the claims given.
UncheckedInv ==
  \A c \in Call :
    pc[c] = "unchecked" =>
      \E claims \in UncheckedClaims : output[c] = Sign(job[c].generator, claims)

\* Every token is the issuer's for its configuration, or signed as it was given.
IInv == TypeOK /\ CallInv /\ UncheckedInv
=============================================================================
