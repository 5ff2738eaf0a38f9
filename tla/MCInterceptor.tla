--------------------------- MODULE MCInterceptor ---------------------------
(* Small instances of Interceptor for TLC.  The gateway's tokens are what the *)
(* issuer derives.                                                            *)
EXTENDS Interceptor, Issuer, TLC

CONSTANTS c1, c2, a, b, k1, v1, v2, u1, web, t1, e1, s1, s2, both, spaces

Calls == {c1, c2}
AnyCall == Permutations(Calls)

ScopeClaims == [s \in {s1, s2, both, spaces, Blank} |->
  IF s = both THEN {s1, s2} ELSE IF s \in {s1, s2} THEN {s} ELSE {}]

Converted(audience, use, scope, tenantID, eventID, at) ==
  ExternalTokenClaims(
    [audience |-> audience, use |-> use, subject |-> u1, client |-> web, scope |-> scope,
     sourceJti |-> 9, sourceExp |-> at + 20, tenant |-> tenantID, event |-> eventID],
    at, 1, 1)

Signed(claims) == [alg |-> "ES256", typ |-> "JWT", kid |-> k1, key |-> v1, claims |-> claims]

TenantClaims == Converted(a, "tenant_access", s1, t1, Blank, Epoch)

\* what callers present
tenant       == Signed(TenantClaims)
event        == Signed(Converted(a, "event_access", both, t1, e1, Epoch))
registration == Signed(Converted(a, "registration", s2, Blank, Blank, Epoch))
blankScope   == Signed(Converted(a, "tenant_access", spaces, t1, Blank, Epoch))
machine      == Signed(MachineOriginServiceClaims(a, b, 1, Epoch, 2))
userService  == Signed(UserOriginServiceClaims(a, b,
                  Converted(b, "tenant_access", s1, t1, Blank, Epoch), Epoch, 2))
elsewhere    == Signed(Converted(b, "tenant_access", s1, t1, Blank, Epoch))
early        == Signed(Converted(a, "tenant_access", s1, t1, Blank, Epoch + 3))
replaced     == [early EXCEPT !.key = v2]
untyped      == [tenant EXCEPT !.typ = Blank]
unsigned     == [tenant EXCEPT !.alg = "none"]
kidless      == [tenant EXCEPT !.kid = Blank]

Bearers(tokens) == {<<"Bearer", t>> : t \in tokens}
BadHeaders == {<<Blank>>, <<"Bearer">>, <<"Basic", tenant>>, <<"Bearer", NoToken>>,
               <<"Bearer", tenant, tenant>>}

\* every level, lists of the policy's own, and one procedure the table lacks
PolicyTable ==
  "open"     :> [level |-> "public", tokenUses |-> {}, requiredScopes |-> {}] @@
  "nolevel"  :> [level |-> "unspecified", tokenUses |-> {"service"}, requiredScopes |-> {}] @@
  "newlevel" :> [level |-> "unheard of", tokenUses |-> {}, requiredScopes |-> {}] @@
  "read"     :> [level |-> "authenticated", tokenUses |-> {}, requiredScopes |-> {s1}] @@
  "write"    :> [level |-> "authenticated", tokenUses |-> {}, requiredScopes |-> {s1, s2}] @@
  "join"     :> [level |-> "authenticated", tokenUses |-> {"registration", "service"},
                 requiredScopes |-> {s2}] @@
  "push"     :> [level |-> "internal", tokenUses |-> {}, requiredScopes |-> {s1}] @@
  "sync"     :> [level |-> "internal", tokenUses |-> {"service", "event_access"},
                 requiredScopes |-> {s2}]
AllProcedures == DOMAIN PolicyTable \cup {"missing"}
SomeUses == {{"event_access"}, {"service", "registration"}, {}}

PolicyTokens == {tenant, event, registration, machine, userService, blankScope, kidless}
PolicyHeaders == Bearers(PolicyTokens) \cup {<<"bearer", event>>} \cup BadHeaders

CallTable == [p \in {"read"} |-> PolicyTable[p]]
CallTokens == {tenant, early, replaced, elsewhere, kidless}
PolicyIssued == {tenant}
CallIssued == {tenant, early, replaced}
CallHeaders == Bearers(CallTokens)
NoUses == {{}}
=============================================================================
