------------------------------ MODULE Verifier ------------------------------
(***************************************************************************)
(* verifier.Verifier and verifier.ContextVerifier: the checks a token      *)
(* passes, in their order as far as the outcome tells them apart.  The     *)
(* interceptor only asks whether the key could not be resolved, so a       *)
(* rejection is one outcome whatever check gave it.                        *)
(***************************************************************************)
EXTENDS InternalJwt

CONSTANTS TrustedIssuer, Leeway

ASSUME LeewayNatural == Leeway \in Nat

Verdict == {"accepted", "rejected", "unresolved"}

\* What the key resolver says of the token's kid: its key, an unknown kid, or
\* that the keys cannot be had (jwks.Cache.Key).
Resolution == {"key", "unknown", "unavailable"}

\* MUTANT of ParserAccepts: nbf and iat are compared without the leeway
ParserStrictOnStart(claims, now) ==
  /\ claims.iss = TrustedIssuer
  /\ claims.exp # NoTime /\ now < claims.exp + Leeway
  /\ claims.nbf # NoTime => now >= claims.nbf
  /\ claims.iat # NoTime => now >= claims.iat

\* golang-jwt's own checks: iss, exp required, nbf and iat when present, all
\* three within the leeway.
ParserAccepts(claims, now) ==
  /\ claims.iss = TrustedIssuer
  /\ claims.exp # NoTime /\ now < claims.exp + Leeway
  /\ claims.nbf # NoTime => now >= claims.nbf - Leeway
  /\ claims.iat # NoTime => now >= claims.iat - Leeway

MatchAudience(claims, want) == \E i \in DOMAIN claims.aud : claims.aud[i] = want

ValidateRegisteredClaims(claims) ==
  /\ claims.sub # Blank /\ claims.jti # NoId
  /\ claims.nbf # NoTime /\ claims.iat # NoTime
  /\ Len(claims.aud) = 1

ValidateCommonClaims(claims) ==
  claims.use # Blank /\ claims.client # Blank /\ claims.txn # NoId

ValidateExternalOriginClaims(claims) ==
  /\ claims.scope # Blank /\ claims.srcJti # NoId /\ claims.srcExp # NoTime
  /\ claims.originSub = Blank

\* MUTANT of ValidateMachineOriginClaims: a machine's token may carry a tenant
MachineOriginWithTenant(claims) == claims.scope = Blank /\ claims.srcJti = NoId

ValidateMachineOriginClaims(claims) ==
  claims.scope = Blank /\ claims.srcJti = NoId /\ claims.tenant = Blank

ValidateServiceClaims(claims) ==
  /\ IF claims.originSub = Blank
     THEN ValidateMachineOriginClaims(claims)
     ELSE claims.scope # Blank /\ claims.srcJti # NoId
  /\ claims.client = claims.sub

ValidateOriginClaims(claims) ==
  IF claims.use = TokenUseService
  THEN ValidateServiceClaims(claims)
  ELSE ValidateExternalOriginClaims(claims)

ClaimsAccepted(claims, audience, now) ==
  /\ ParserAccepts(claims, now)
  /\ MatchAudience(claims, audience)
  /\ ValidateRegisteredClaims(claims)
  /\ ValidateCommonClaims(claims)
  /\ ValidateBinding(claims.use, claims.tenant, claims.event)
  /\ ValidateOriginClaims(claims)

\* The resolution is "key" only when the token's signature verifies with it.
Verify(claims, audience, now, resolution) ==
  IF resolution = "unavailable" THEN "unresolved"
  ELSE IF resolution = "key" /\ ClaimsAccepted(claims, audience, now)
       THEN "accepted" ELSE "rejected"

\* MUTANT of Resolvable: the kid may be missing
ResolvableWithoutKid(token) == token.alg = "ES256" /\ token.typ = "JWT"

\* A token as presented is its header, the key that signed it and its claims.
\* A key is asked for only when the header is that of an internal JWT.
Resolvable(token) == token.alg = "ES256" /\ token.typ = "JWT" /\ token.kid # Blank

VerifyToken(token, audience, now, resolution) ==
  IF Resolvable(token) THEN Verify(token.claims, audience, now, resolution)
                       ELSE "rejected"

\* The gateway verifies a context token for the service that presents it.
VerifyContext(claims, presenter, now, resolution) ==
  IF presenter = Blank THEN "rejected"
  ELSE Verify(claims, presenter, now, resolution)
-----------------------------------------------------------------------------
\* The claims that pass every check of their audience while they are valid.  The
\* issuer's tokens have them: TokenChain states that, and Interceptor relies on it.
SoundClaims(claims, audience) ==
  /\ claims.iss = TrustedIssuer /\ claims.aud = <<audience>>
  /\ {claims.iat, claims.exp} \subseteq Nat \ {NoTime} /\ claims.nbf = claims.iat
  /\ claims.sub # Blank /\ claims.jti # NoId
  /\ claims.client # Blank /\ claims.txn # NoId
  /\ ValidateBinding(claims.use, claims.tenant, claims.event)
  /\ ValidateOriginClaims(claims)
=============================================================================
