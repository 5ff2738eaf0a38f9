------------------------------- MODULE Issuer -------------------------------
(***************************************************************************)
(* issuer.Issuer: what the gateway signs.  One operator per derivation     *)
(* gives the claims, one condition per derivation says when it is refused. *)
(* jti and txn are handed in: the code draws a fresh UUIDv7 for each.      *)
(***************************************************************************)
EXTENDS InternalJwt

CONSTANTS IssuerID, TTL

ASSUME TTLPositive == TTL \in Nat \ {0}

\* signer.registeredClaims joined with the private claims of the internal JWT
SignedClaims(registered, private) ==
  [iss |-> IssuerID,
   sub |-> registered.sub, aud |-> <<registered.aud>>, jti |-> registered.jti,
   iat |-> NumericDate(registered.now), nbf |-> NumericDate(registered.now),
   exp |-> NumericDate(registered.exp),
   use |-> private.use, client |-> private.client, txn |-> private.txn,
   scope |-> private.scope, srcJti |-> private.srcJti, srcExp |-> private.srcExp,
   originSub |-> private.originSub, tenant |-> private.tenant, event |-> private.event]
-----------------------------------------------------------------------------
(* Conversion of a verified external token. *)

\* MUTANT of ValidExternalToken: the scope is not required
ValidWithoutScope(input) ==
  /\ input.audience # Blank /\ input.subject # Blank /\ input.client # Blank
  /\ input.sourceJti # NoId /\ input.sourceExp # NoTime
  /\ input.use # TokenUseService
  /\ ValidateBinding(input.use, input.tenant, input.event)

ValidExternalToken(input) ==
  /\ input.audience # Blank /\ input.subject # Blank /\ input.client # Blank
  /\ input.scope # Blank /\ input.sourceJti # NoId /\ input.sourceExp # NoTime
  /\ input.use # TokenUseService
  /\ ValidateBinding(input.use, input.tenant, input.event)

Earlier(s, t) == IF s < t THEN s ELSE t

\* MUTANT of ConversionExpiry: the external token's own expiry is ignored
UnboundedExpiry(input, now) == now + TTL

\* The token never outlives the external one it is converted from.
ConversionExpiry(input, now) == Earlier(input.sourceExp, now + TTL)

MayConvert(input, now) == ValidExternalToken(input) /\ input.sourceExp > now

ExternalTokenClaims(input, now, jti, txn) ==
  SignedClaims(
    [sub |-> input.subject, aud |-> input.audience, jti |-> jti, now |-> now,
     exp |-> ConversionExpiry(input, now)],
    [use |-> input.use, client |-> input.client, txn |-> txn, scope |-> input.scope,
     srcJti |-> input.sourceJti, srcExp |-> NumericDate(input.sourceExp),
     originSub |-> Blank, tenant |-> input.tenant, event |-> input.event])
-----------------------------------------------------------------------------
(* Re-issue from a context token. *)

Names(aud, service) == \E i \in DOMAIN aud : aud[i] = service

\* MUTANT of ValidContextToken: the expiry check gets the verifier's slack
ContextWithinSecond(context, caller, now) ==
  /\ context.exp # NoTime /\ context.exp + Second > now
  /\ Names(context.aud, caller)

\* Every context token is unexpired and addressed to the service now calling.
ValidContextToken(context, caller, now) ==
  /\ context.exp # NoTime /\ context.exp > now
  /\ Names(context.aud, caller)

ValidUserOriginContext(context) ==
  /\ \/ context.use \in ExternalTokenUse
     \/ context.use = TokenUseService /\ context.originSub # Blank
  /\ ValidateBinding(context.use, context.tenant, context.event)
  /\ context.scope # Blank /\ context.txn # NoId /\ context.srcJti # NoId
  /\ context.jti # NoId /\ context.sub # Blank

MayReissueUser(audience, caller, context, now) ==
  /\ audience # Blank /\ caller # Blank
  /\ ValidContextToken(context, caller, now)
  /\ ValidUserOriginContext(context)

\* MUTANT of OriginSub: the user is taken from the presented token every time
OriginSubOfContext(context) == context.sub

\* origin_sub passes through; the first re-issue takes the context's sub.
OriginSub(context) ==
  IF context.originSub # Blank THEN context.originSub ELSE context.sub

\* MUTANT of UserOriginServiceClaims: txn is taken from the wrong claim
UserClaimsWithSourceTxn(audience, caller, context, now, jti) ==
  SignedClaims(
    [sub |-> caller, aud |-> audience, jti |-> jti, now |-> now, exp |-> now + TTL],
    [use |-> TokenUseService, client |-> caller, txn |-> context.srcJti,
     scope |-> context.scope, srcJti |-> context.jti, srcExp |-> NoTime,
     originSub |-> OriginSub(context),
     tenant |-> context.tenant, event |-> context.event])

UserOriginServiceClaims(audience, caller, context, now, jti) ==
  SignedClaims(
    [sub |-> caller, aud |-> audience, jti |-> jti, now |-> now, exp |-> now + TTL],
    [use |-> TokenUseService, client |-> caller, txn |-> context.txn,
     scope |-> context.scope, srcJti |-> context.jti, srcExp |-> NoTime,
     originSub |-> OriginSub(context),
     tenant |-> context.tenant, event |-> context.event])

\* MUTANT of ValidMachineOriginContext: any service token starts a machine hop
AnyServiceContext(context) ==
  context.txn # NoId /\ context.use = TokenUseService

ValidMachineOriginContext(context) ==
  /\ context.txn # NoId
  /\ context.use = TokenUseService
  /\ context.scope = Blank /\ context.srcJti = NoId /\ context.originSub = Blank
  /\ context.tenant = Blank /\ context.event = Blank

MayStartMachine(audience, caller) == audience # Blank /\ caller # Blank

MayReissueMachine(audience, caller, context, now) ==
  /\ audience # Blank /\ caller # Blank
  /\ ValidContextToken(context, caller, now)
  /\ ValidMachineOriginContext(context)

\* txn is the context's, or fresh for a new machine origin
MachineOriginServiceClaims(audience, caller, txn, now, jti) ==
  SignedClaims(
    [sub |-> caller, aud |-> audience, jti |-> jti, now |-> now, exp |-> now + TTL],
    [use |-> TokenUseService, client |-> caller, txn |-> txn,
     scope |-> Blank, srcJti |-> NoId, srcExp |-> NoTime,
     originSub |-> Blank, tenant |-> Blank, event |-> Blank])
=============================================================================
