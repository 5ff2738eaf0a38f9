----------------------------- MODULE InternalJwt -----------------------------
(***************************************************************************)
(* The vocabulary of the internal JWT (claims.go): the claim set and the   *)
(* rule on tenant_id and event_id that the issuing and the verifying side  *)
(* share.                                                                  *)
(*                                                                         *)
(* A name is a string or a model value, an identifier (jti, txn) a natural *)
(* number, an instant a natural number of ticks; Blank, NoId and NoTime    *)
(* stand for a claim that is absent, which is how an empty one is sent.    *)
(***************************************************************************)
EXTENDS Integers, Sequences

CONSTANT Second       \* how many ticks a second has

ASSUME SecondPositive == Second \in Nat \ {0}

Blank == ""
NoId == 0
NoTime == 0

TokenUseTenantAccess == "tenant_access"
TokenUseEventAccess  == "event_access"
TokenUseService      == "service"
TokenUseRegistration == "registration"
ExternalTokenUse == {TokenUseTenantAccess, TokenUseEventAccess, TokenUseRegistration}
TokenUse == ExternalTokenUse \cup {TokenUseService}

\* jwt.NewNumericDate keeps whole seconds
NumericDate(t) == t - (t % Second)

\* The binding each token_use requires and forbids.
ValidateBinding(use, tenant, event) ==
  \/ use = TokenUseTenantAccess /\ tenant # Blank /\ event = Blank
  \/ use = TokenUseEventAccess  /\ tenant # Blank /\ event # Blank
  \/ use = TokenUseRegistration /\ tenant = Blank /\ event = Blank
  \/ use = TokenUseService      /\ (event # Blank => tenant # Blank)
=============================================================================
