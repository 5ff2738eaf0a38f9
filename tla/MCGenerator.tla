----------------------------- MODULE MCGenerator -----------------------------
(* Small instances of Generator for TLC. *)
EXTENDS Generator, TLC

CONSTANTS g1, g2, k, v1, v2, a, b, u1, s1, t1, e1

Alike == Permutations({g1, g2}) \cup Permutations({v1, v2})

Asked(use, tenant, event, scope, originSub, txn, ttl) ==
  [issuer |-> TrustedIssuer, audience |-> a, use |-> use, tenant |-> tenant,
   event |-> event, scope |-> scope, originSub |-> originSub, txn |-> txn,
   subject |-> Blank, keyID |-> Blank, ttl |-> ttl]

\* every combination of the fields the issuer looks at, lifetimes from half a
\* second, and a few with the rest given or missing
Plain == Asked("tenant_access", t1, Blank, s1, Blank, NoId, 2)
AllConfigs ==
  {Asked(use, tenant, event, scope, originSub, txn, ttl) :
     use \in TokenUse \cup {"unheard of"}, tenant \in {Blank, t1}, event \in {Blank, e1},
     scope \in {Blank, s1}, originSub \in {Blank, u1}, txn \in {NoId, 1}, ttl \in {0, 1, 2}}
  \cup {[Plain EXCEPT !.issuer = Blank], [Plain EXCEPT !.issuer = "elsewhere"],
        [Plain EXCEPT !.audience = Blank], [Plain EXCEPT !.ttl = -1],
        [Plain EXCEPT !.subject = b, !.keyID = k]}

\* a token of a user's second hop, and every combination of what the verifier and
\* the issuer look at in a token, with the rest as it should be or one thing wrong
Hop == [iss |-> TrustedIssuer, sub |-> b, aud |-> <<a>>, jti |-> 90,
        iat |-> Epoch, nbf |-> Epoch, exp |-> Epoch + 2,
        use |-> "service", client |-> b, txn |-> 91, scope |-> s1,
        srcJti |-> 92, srcExp |-> Epoch + 2, originSub |-> u1,
        tenant |-> t1, event |-> Blank]
AnyClaims ==
  {[Hop EXCEPT !.use = use, !.tenant = tenant, !.event = event, !.scope = scope,
               !.srcJti = srcJti, !.originSub = originSub] :
     use \in TokenUse \cup {Blank}, tenant \in {Blank, t1}, event \in {Blank, e1},
     scope \in {Blank, s1}, srcJti \in {NoId, 92}, originSub \in {Blank, u1}}
  \cup {[Hop EXCEPT !.jti = NoId], [Hop EXCEPT !.txn = NoId], [Hop EXCEPT !.client = a],
        [Hop EXCEPT !.aud = <<a, b>>], [Hop EXCEPT !.aud = <<Blank>>], [Hop EXCEPT !.aud = <<>>],
        [Hop EXCEPT !.exp = NoTime], [Hop EXCEPT !.nbf = NoTime], [Hop EXCEPT !.iat = Epoch + 2],
        [Hop EXCEPT !.iss = "elsewhere"], [Hop EXCEPT !.use = "tenant_access",
         !.originSub = Blank, !.srcExp = NoTime]}
FewClaims == {Hop, [Hop EXCEPT !.tenant = Blank]}

FewConfigs ==
  {Plain, [Plain EXCEPT !.audience = b, !.keyID = k],
   Asked("service", Blank, Blank, s1, u1, 1, 0)}
=============================================================================
