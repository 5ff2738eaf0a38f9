--------------------------- MODULE VerifierProofs ---------------------------
(***************************************************************************)
(* What the verifier's checks come to, for any claims, audience and        *)
(* leeway.  The proofs about TokenChain and Interceptor rest on it.        *)
(***************************************************************************)
EXTENDS Verifier, TLAPS

\* No token_use that has a binding is absent.
LEMMA BoundUse ==
  ASSUME NEW use, NEW tenant, NEW event, ValidateBinding(use, tenant, event)
  PROVE  use # Blank /\ use \in TokenUse
  BY DEF ValidateBinding, Blank, TokenUse, ExternalTokenUse, TokenUseService,
     TokenUseTenantAccess, TokenUseEventAccess, TokenUseRegistration

\* Sound claims are accepted from the leeway before they start to the leeway
\* after they end.
THEOREM SoundClaimsAccepted ==
  ASSUME NEW c, NEW audience, SoundClaims(c, audience),
         NEW at \in Int, c.iat - Leeway <= at, at < c.exp + Leeway
  PROVE  ClaimsAccepted(c, audience, at)
<1>1. ParserAccepts(c, at)
  BY DEF ParserAccepts, SoundClaims
<1>2. MatchAudience(c, audience) /\ Len(c.aud) = 1
  BY DEF MatchAudience, SoundClaims
<1>3. ValidateRegisteredClaims(c)
  BY <1>2 DEF ValidateRegisteredClaims, SoundClaims
<1>4. ValidateCommonClaims(c)
  BY BoundUse DEF ValidateCommonClaims, SoundClaims
<1> QED
  BY <1>1, <1>2, <1>3, <1>4 DEF ClaimsAccepted, SoundClaims

\* What is accepted is addressed to the audience alone, is the trusted issuer's,
\* and has not ended but for the leeway.
THEOREM AcceptedClaims ==
  ASSUME NEW c, NEW audience, NEW at \in Int, ClaimsAccepted(c, audience, at),
         c.aud \in Seq({c.aud[i] : i \in DOMAIN c.aud})
  PROVE  /\ c.aud = <<audience>> /\ c.iss = TrustedIssuer
         /\ c.exp # NoTime /\ at < c.exp + Leeway
<1>1. Len(c.aud) = 1 /\ DOMAIN c.aud = 1..1
  BY DEF ClaimsAccepted, ValidateRegisteredClaims
<1>2. c.aud[1] = audience
  BY <1>1 DEF ClaimsAccepted, MatchAudience
<1>3. c.aud = <<audience>>
  BY <1>1, <1>2
<1> QED
  BY <1>3 DEF ClaimsAccepted, ParserAccepts

\* A token is accepted only when the key resolved for it verifies it.
LEMMA AcceptedNeedsKey ==
  ASSUME NEW token, NEW audience, NEW at, NEW resolution,
         VerifyToken(token, audience, at, resolution) = "accepted"
  PROVE  resolution = "key" /\ ClaimsAccepted(token.claims, audience, at)
  BY DEF VerifyToken, Verify
=============================================================================
