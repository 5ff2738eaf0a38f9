---------------------------- MODULE MCTokenChain ----------------------------
(* Small instances of TokenChain for TLC. *)
EXTENDS TokenChain

CONSTANTS a, b, u1, u2, web, s1, s2, t1, e1

Input(use, subject, scope, tenant, event, exp) ==
  [audience |-> a, use |-> use, subject |-> subject, client |-> web,
   scope |-> scope, sourceJti |-> ExternalJti, sourceExp |-> exp,
   tenant |-> tenant, event |-> event]

\* two users' tokens, one of which ends within a second, a registration, and
\* inputs the issuer must refuse
ExternalTokens ==
  {Input("tenant_access", u1, s1, t1, Blank, 10),
   Input("event_access", u2, s2, t1, e1, 7),
   Input("registration", u1, s2, Blank, Blank, 10),
   Input("tenant_access", u1, Blank, t1, Blank, 10),
   Input("tenant_access", u1, s1, t1, e1, 10),
   Input("event_access", u1, s1, Blank, e1, 10),
   Input("registration", u1, s1, t1, Blank, 10),
   Input("service", u1, s1, t1, Blank, 10),
   Input("tenant_access", Blank, s1, t1, Blank, 10)}
=============================================================================
