----------------------------- MODULE Interceptor -----------------------------
(***************************************************************************)
(* interceptor.New and the decision it makes on every call of a service:   *)
(* the policy of the procedure, the bearer token, its verification against *)
(* the cache of the gateway's keys, the token_use and the scopes.          *)
(*                                                                         *)
(* Calls are concurrent.  A call asks the key directory (which JwksCache   *)
(* implements) and goes on later: documents are published, keys are        *)
(* withdrawn and tokens expire in between.                                 *)
(***************************************************************************)
EXTENDS Verifier

CONSTANTS
  Call,                   \* the calls that may be in flight
  Audience,               \* the service
  Procedure,
  Policies,               \* [the procedures it names -> Policy], authz.Policies
  Configurable,           \* BOUND: the procedures WithTokenUses is given for
  TokenUses,              \* the token_use lists an option may be given, as sets
  Scope,
  Granted,                \* [a scope claim -> the scopes in it], strings.Fields
  Token,                  \* the tokens callers may present
  Header,                 \* the Authorization values, in parts (see BearerToken)
  Issued,                 \* the tokens the gateway issued for this service
  Kid, Key, NoKey, NoToken, NoClaims,
  KeyLag, UnknownLag,
  Epoch,
  MaxTime                 \* BOUND: from this instant on no time passes and
                          \*   nothing is published

VARIABLES
  now, origin, until, ask, answer,  \* as in KeyDirectory, asked by the calls
  serving,                          \* New has returned
  settings,                         \* interceptor.options
  pc,                               \* "idle", "resolving", "deciding", "done"
  request,                          \* each call's procedure and header
  outcome,                          \* "served" or the code of the refusal
  handed,                           \* the claims in the handler's context
  resolvedAt                        \* HISTORY: when the call's key was resolved

directory == <<now, origin, until, ask, answer>>
calls == <<pc, request, outcome, handed>>
vars == <<directory, serving, settings, calls, resolvedAt>>

Dir == INSTANCE KeyDirectory WITH Caller <- Call

Level == {"unspecified", "public", "internal", "authenticated", "unheard of"}
Policy == [level : Level, tokenUses : SUBSET TokenUse, requiredScopes : SUBSET Scope]
Settings == [authenticated : SUBSET TokenUse, procedure : [Procedure -> SUBSET TokenUse]]
Refusal == {"internal", "unauthenticated", "denied", "unavailable"}

Named(p) == p \in DOMAIN Policies

ASSUME InterceptorAssumption ==
  /\ Policies \in [DOMAIN Policies -> Policy] /\ DOMAIN Policies \subseteq Procedure
  /\ Configurable \subseteq Procedure
  /\ TokenUses \subseteq SUBSET TokenUse
  /\ \A t \in Token :
       /\ t.kid \in Kid \cup {Blank} /\ t.key \notin Dir!Outcome
       /\ t.claims # NoClaims
       /\ t.claims.aud \in Seq({t.claims.aud[i] : i \in DOMAIN t.claims.aud})
  /\ Issued \subseteq Token /\ NoToken \notin Token
  /\ \A t \in Issued :
       Resolvable(t) /\ t.key \in Key /\ SoundClaims(t.claims, Audience)
  /\ \A h \in Header : h # <<>> /\ (Len(h) = 2 => h[2] \in Token \cup {NoToken})
  /\ Key \cap Dir!Outcome = {} /\ NoKey \notin Key /\ "nothing" \notin Kid
  /\ Blank \notin Kid
  /\ {KeyLag, UnknownLag} \subseteq Nat \ {0}
  /\ {Epoch, MaxTime} \subseteq Nat /\ Epoch >= KeyLag /\ Epoch >= UnknownLag

NoRequest == [procedure |-> Blank, header |-> <<Blank>>]

\* Calls are at one of their waits or done; claims are handed over as verified.
TypeOK ==
  /\ now \in Nat
  /\ origin \in Dir!Document
  /\ ask \in [Call -> Kid \cup {"nothing"}]
  /\ answer \in [Call -> Key \cup Dir!Outcome]
  /\ serving \in BOOLEAN
  /\ settings \in Settings
  /\ pc \in [Call -> {"idle", "resolving", "deciding", "done"}]
  /\ request \in [Call -> [procedure : Procedure, header : Header] \cup {NoRequest}]
  /\ outcome \in [Call -> {"none", "served"} \cup Refusal]
  /\ handed \in [Call -> {t.claims : t \in Token} \cup {NoClaims}]
  /\ resolvedAt \in [Call -> Nat]

Init ==
  /\ Dir!Init
  /\ serving = FALSE
  /\ settings = [authenticated |-> {}, procedure |-> [p \in Procedure |-> {}]]
  /\ pc = [c \in Call |-> "idle"]
  /\ request = [c \in Call |-> NoRequest]
  /\ outcome = [c \in Call |-> "none"]
  /\ handed = [c \in Call |-> NoClaims]
  /\ resolvedAt = [c \in Call |-> 0]
-----------------------------------------------------------------------------
(* New and its options, in the order the caller gives them. *)

WithAuthenticatedTokenUses(uses) ==
  /\ ~serving
  /\ settings' = [settings EXCEPT !.authenticated = uses]
  /\ UNCHANGED <<directory, serving, calls, resolvedAt>>

WithTokenUses(p, uses) ==
  /\ ~serving
  /\ settings' = [settings EXCEPT !.procedure[p] = uses]
  /\ UNCHANGED <<directory, serving, calls, resolvedAt>>

New ==
  /\ ~serving /\ DOMAIN Policies # {}
  /\ serving' = TRUE
  /\ UNCHANGED <<directory, settings, calls, resolvedAt>>
-----------------------------------------------------------------------------
(* The policy's demands. *)

DefaultTokenUses(level) ==
  IF level = "internal" THEN {TokenUseService} ELSE {TokenUseTenantAccess}

\* MUTANT of AcceptedTokenUses: the service-wide setting reaches every level
AcceptedEverywhere(policy, p) ==
  IF policy.tokenUses # {} THEN policy.tokenUses
  ELSE IF settings.procedure[p] # {} THEN settings.procedure[p]
  ELSE IF settings.authenticated # {} THEN settings.authenticated
  ELSE DefaultTokenUses(policy.level)

\* MUTANT of AcceptedTokenUses: the service-wide setting is never looked at
ServiceWideIgnored(policy, p) ==
  IF policy.tokenUses # {} THEN policy.tokenUses
  ELSE IF settings.procedure[p] # {} THEN settings.procedure[p]
  ELSE DefaultTokenUses(policy.level)

\* A list that is empty counts as not given; the policy's own goes first.
AcceptedTokenUses(policy, p) ==
  IF policy.tokenUses # {} THEN policy.tokenUses
  ELSE IF settings.procedure[p] # {} THEN settings.procedure[p]
  ELSE IF policy.level = "authenticated" /\ settings.authenticated # {}
       THEN settings.authenticated
  ELSE DefaultTokenUses(policy.level)

MissingScopes(required, scope) == required \ Granted[scope]

\* MUTANT of ScopesSuffice: a service token must carry the scopes too
ScopesOfEveryToken(policy, claims) ==
  MissingScopes(policy.requiredScopes, claims.scope) = {}

\* The scope of a service token says what its origin was granted and decides
\* nothing here.
ScopesSuffice(policy, claims) ==
  \/ claims.use = TokenUseService
  \/ MissingScopes(policy.requiredScopes, claims.scope) = {}
-----------------------------------------------------------------------------
(* A call of a procedure, with its Authorization header. *)

\* verifier.BearerToken.  A header is the parts between its spaces, an absent
\* one is <<Blank>>: the scheme, one space, and a token (NoToken when nothing
\* follows the space) without spaces.
BearerToken(h) ==
  IF Len(h) = 2 /\ h[1] \in {"Bearer", "bearer"} THEN h[2] ELSE NoToken

TokenOf(c) == BearerToken(request[c].header)
PolicyOf(c) == Policies[request[c].procedure]

Arrive(c, p, h) ==
  /\ request' = [request EXCEPT ![c] = [procedure |-> p, header |-> h]]
  /\ UNCHANGED <<serving, settings>>

Finish(c, result, claims) ==
  /\ pc' = [pc EXCEPT ![c] = "done"]
  /\ outcome' = [outcome EXCEPT ![c] = result]
  /\ handed' = [handed EXCEPT ![c] = claims]

Refuse(c, code) == Finish(c, code, NoClaims)

RefuseUnknownProcedure(c, p, h) ==
  /\ ~Named(p) /\ Arrive(c, p, h)
  /\ Refuse(c, "internal")
  /\ UNCHANGED <<directory, resolvedAt>>

\* The handler runs in the context the call came with.
ServePublic(c, p, h) ==
  /\ Named(p) /\ Policies[p].level = "public" /\ Arrive(c, p, h)
  /\ Finish(c, "served", NoClaims)
  /\ UNCHANGED <<directory, resolvedAt>>

Guarded(p) == Named(p) /\ Policies[p].level \in {"internal", "authenticated"}

RefuseLevel(c, p, h) ==
  /\ Named(p) /\ Policies[p].level # "public" /\ ~Guarded(p) /\ Arrive(c, p, h)
  /\ Refuse(c, "internal")
  /\ UNCHANGED <<directory, resolvedAt>>

Usable(h) == BearerToken(h) # NoToken /\ Resolvable(BearerToken(h))

\* No bearer token, or one no key is asked for.
RefuseCredential(c, p, h) ==
  /\ Guarded(p) /\ ~Usable(h) /\ Arrive(c, p, h)
  /\ Refuse(c, "unauthenticated")
  /\ UNCHANGED <<directory, resolvedAt>>

ResolveKey(c, p, h) ==
  /\ Guarded(p) /\ Usable(h) /\ Arrive(c, p, h)
  /\ Dir!Ask(c, BearerToken(h).kid)
  /\ pc' = [pc EXCEPT ![c] = "resolving"]
  /\ UNCHANGED <<outcome, handed, resolvedAt>>

\* KeyResolver.Key returns.
Resolved(c) ==
  /\ pc[c] = "resolving"
  /\ Dir!Answer(c)
  /\ pc' = [pc EXCEPT ![c] = "deciding"]
  /\ resolvedAt' = [resolvedAt EXCEPT ![c] = now]
  /\ UNCHANGED <<serving, settings, request, outcome, handed>>

\* MUTANT of ResolutionOf: every failure to resolve is an invalid token
ResolutionBlamed(c) ==
  IF answer[c] = TokenOf(c).key THEN "key" ELSE "unknown"

\* A signature verifies with the key that made it only; an unknown kid is an
\* invalid token, any other failure is the directory's.
ResolutionOf(c) ==
  IF answer[c] = TokenOf(c).key THEN "key"
  ELSE IF answer[c] \in Dir!Unavailable THEN "unavailable" ELSE "unknown"

\* MUTANT of VerdictOn: the claims are read against an earlier clock reading
VerdictAsResolved(c) ==
  VerifyToken(TokenOf(c), Audience, resolvedAt[c], ResolutionOf(c))

\* The claims are read against the clock after the key has been resolved.
VerdictOn(c) == VerifyToken(TokenOf(c), Audience, now, ResolutionOf(c))

UseAccepted(c) ==
  TokenOf(c).claims.use \in AcceptedTokenUses(PolicyOf(c), request[c].procedure)

Decide(c, verdict) ==
  /\ pc[c] = "deciding" /\ VerdictOn(c) = verdict
  /\ UNCHANGED <<directory, serving, settings, request, resolvedAt>>

\* MUTANT of RefuseUnresolved: the key is asked for again, without limit
RetryUnresolved(c) ==
  /\ pc[c] = "deciding" /\ VerdictOn(c) = "unresolved"
  /\ Dir!Ask(c, TokenOf(c).kid)
  /\ pc' = [pc EXCEPT ![c] = "resolving"]
  /\ UNCHANGED <<serving, settings, request, outcome, handed, resolvedAt>>

RefuseUnresolved(c) == Decide(c, "unresolved") /\ Refuse(c, "unavailable")

RefuseToken(c) == Decide(c, "rejected") /\ Refuse(c, "unauthenticated")

RefuseTokenUse(c) ==
  Decide(c, "accepted") /\ ~UseAccepted(c) /\ Refuse(c, "unauthenticated")

RefuseScope(c) ==
  /\ Decide(c, "accepted") /\ UseAccepted(c)
  /\ ~ScopesSuffice(PolicyOf(c), TokenOf(c).claims)
  /\ Refuse(c, "denied")

\* The handler finds the verified claims in its context.
Serve(c) ==
  /\ Decide(c, "accepted") /\ UseAccepted(c)
  /\ ScopesSuffice(PolicyOf(c), TokenOf(c).claims)
  /\ Finish(c, "served", TokenOf(c).claims)

\* The call returns to its client and leaves nothing behind: the interceptor
\* keeps no state of its own.
Return(c) ==
  /\ pc[c] = "done"
  /\ pc' = [pc EXCEPT ![c] = "idle"]
  /\ request' = [request EXCEPT ![c] = NoRequest]
  /\ outcome' = [outcome EXCEPT ![c] = "none"]
  /\ handed' = [handed EXCEPT ![c] = NoClaims]
  /\ resolvedAt' = [resolvedAt EXCEPT ![c] = 0]
  /\ UNCHANGED <<directory, serving, settings>>
-----------------------------------------------------------------------------
Environment ==
  /\ serving /\ now < MaxTime
  /\ Dir!Tick \/ \E doc \in Dir!Document : Dir!Publish(doc)
  /\ UNCHANGED <<serving, settings, calls, resolvedAt>>

Decided(c) ==
  \/ RefuseUnresolved(c) \/ RefuseToken(c) \/ RefuseTokenUse(c)
  \/ RefuseScope(c) \/ Serve(c)

Begin(c) ==
  /\ serving /\ pc[c] = "idle"
  /\ \E p \in Procedure, h \in Header :
       \/ RefuseUnknownProcedure(c, p, h) \/ ServePublic(c, p, h)
       \/ RefuseLevel(c, p, h) \/ RefuseCredential(c, p, h) \/ ResolveKey(c, p, h)

Next ==
  \/ Environment
  \/ \E uses \in TokenUses : WithAuthenticatedTokenUses(uses)
  \/ \E p \in Configurable, uses \in TokenUses : WithTokenUses(p, uses)
  \/ New
  \/ \E c \in Call : Begin(c) \/ Resolved(c) \/ Decided(c) \/ Return(c)

Spec == Init /\ [][Next]_vars

\* The cache answers in the end (JwksCache!EveryCallReturns), and a call that
\* can go on does.
FairSpec ==
  Spec /\ \A c \in Call : WF_vars(Resolved(c)) /\ WF_vars(Decided(c))
-----------------------------------------------------------------------------
(* Properties. *)

\* No option opens an internal procedure to users by accident: a token that is
\* not a service token reaches its handler only if the procedure's own policy or
\* the option for this procedure names its token_use.  And only a level the code
\* knows has a handler run at all, only a public one without claims.
InternalStaysInternal ==
  \A c \in Call :
    outcome[c] = "served" =>
      /\ Named(request[c].procedure)
      /\ PolicyOf(c).level \in {"public", "internal", "authenticated"}
      /\ handed[c] = NoClaims <=> PolicyOf(c).level = "public"
      /\ PolicyOf(c).level = "internal" =>
           \/ handed[c].use = TokenUseService
           \/ handed[c].use \in
                PolicyOf(c).tokenUses \cup settings.procedure[request[c].procedure]

\* A user's token reaches a handler only with every scope the procedure asks
\* for, and a service token is never refused for a scope.
ScopesGateUsers ==
  \A c \in Call :
    /\ outcome[c] = "served" /\ handed[c] # NoClaims /\ handed[c].use # TokenUseService =>
         PolicyOf(c).requiredScopes \subseteq Granted[handed[c].scope]
    /\ outcome[c] = "denied" => TokenOf(c).claims.use # TokenUseService

\* What the comment on WithTokenUses says: the option replaces the token_use
\* values of its procedure, at every level.  It does not: the list of a policy
\* that names its own goes first, and the option has no effect there.
OptionReplacesUses ==
  \A c \in Call :
    LET uses == settings.procedure[request[c].procedure]
    IN  outcome[c] = "served" /\ handed[c] # NoClaims /\ uses # {} => handed[c].use \in uses

Decision(c) == pc[c] = "deciding" /\ pc'[c] = "done"

\* What may say which token_use values a guarded call's procedure accepts, nearest
\* first: its policy, the option for it, the service-wide option, which speaks for
\* authenticated procedures only, and the one value its level has by itself.
TokenUseLists(c) ==
  LET user == PolicyOf(c).level = "authenticated"
  IN  <<PolicyOf(c).tokenUses,
        settings.procedure[request[c].procedure],
        IF user THEN settings.authenticated ELSE {},
        IF user THEN {TokenUseTenantAccess} ELSE {TokenUseService}>>

\* Whatever options were given, in whatever order and how often, the nearest
\* setting that is not empty decides alone: a token that verifies is refused for
\* its token_use exactly when that setting does not list it.
NearestSettingDecides ==
  [][\A c \in Call :
       Decision(c) /\ VerdictOn(c) = "accepted" =>
         LET lists == TokenUseLists(c)
         IN  \E i \in 1..4 :
               /\ lists[i] # {} /\ \A j \in 1..(i - 1) : lists[j] = {}
               /\ outcome'[c] = "unauthenticated" <=>
                    TokenOf(c).claims.use \notin lists[i]]_vars

\* A guarded handler runs with the claims of its own call's token, for this
\* service, unexpired but for the leeway when it starts, signed with a key the
\* gateway named by its kid less than KeyLag before the key was resolved.
ServedForLiveKey ==
  [][\A c \in Call :
       Decision(c) /\ outcome'[c] = "served" =>
         LET t == TokenOf(c)
         IN  /\ handed'[c] = t.claims
             /\ t.claims.aud = <<Audience>>
             /\ now < t.claims.exp + Leeway
             /\ \/ origin[t.kid] = t.key
                \/ resolvedAt[c] - until[t.kid][t.key] < KeyLag]_vars

\* The kid has named this key, and no other, for as long as a cache may lag.
Established(k, v, at) ==
  /\ origin[k] = v
  /\ \A other \in Key \ {v} : at - until[k][other] >= KeyLag
  /\ at - until[k][NoKey] >= UnknownLag

\* A token the gateway issued for this service is not refused for itself while
\* it lives, on clocks that differ by the leeway, and its key is established:
\* the call is served, or the keys cannot be had, or the policy refuses it.
EntitledNotRefused ==
  [][\A c \in Call :
       Decision(c) /\ TokenOf(c) \in Issued /\ outcome'[c] = "unauthenticated" =>
         LET t == TokenOf(c)
         IN  \/ now >= t.claims.exp \/ now < t.claims.iat - Leeway
             \/ ~Established(t.kid, t.key, resolvedAt[c])
             \/ ~UseAccepted(c)]_vars

\* A caller hears "unavailable" exactly when the keys could not be had, so an
\* outage never looks like a bad token nor a bad token like an outage.
OutageIsNotBlamed ==
  [][\A c \in Call :
       Decision(c) => (outcome'[c] = "unavailable" <=> answer[c] \in Dir!Unavailable)]_vars

\* Every call is served or refused once the cache has answered it.
EveryCallDecided ==
  \A c \in Call : pc[c] = "resolving" ~> pc[c] = "done"
-----------------------------------------------------------------------------
(* The invariant the proofs rest on. *)

\* The directory dates what it withdraws, and a call waits for the kid of its
\* token.
DirectoryInv ==
  /\ until \in [Kid -> [Dir!Value -> Nat]]
  /\ \A k \in Kid, v \in Dir!Value : until[k][v] <= now
  /\ \A c \in Call :
       /\ ask[c] = IF pc[c] = "resolving" THEN TokenOf(c).kid ELSE "nothing"
       /\ resolvedAt[c] <= now

\* A call that still has a key or a verdict to wait for is one that must.
WaitingInv ==
  \A c \in Call :
    /\ pc[c] # "idle" =>
         serving /\ request[c] \in [procedure : Procedure, header : Header]
    /\ pc[c] # "done" => outcome[c] = "none" /\ handed[c] = NoClaims
    /\ pc[c] \in {"resolving", "deciding"} =>
         Guarded(request[c].procedure) /\ Usable(request[c].header)

\* What a call was told was true of its kid when it was told, give or take how
\* far the directory may lag; nothing that is published later changes that.
Told(c) ==
  LET k == TokenOf(c).kid
      Recent(v, lag) == origin[k] = v \/ resolvedAt[c] - until[k][v] < lag
  IN  \/ answer[c] \in Dir!Unavailable
      \/ answer[c] \in Key /\ Recent(answer[c], KeyLag)
      \/ answer[c] = "unknown" /\ Recent(NoKey, UnknownLag)

AnswerInv == \A c \in Call : pc[c] = "deciding" => Told(c)

\* A call was served for one of two reasons: its procedure is public, or its
\* token passed; and a token lacked a scope only if it is a user's.
OutcomeInv ==
  \A c \in Call :
    /\ outcome[c] = "served" =>
         /\ Named(request[c].procedure)
         /\ \/ PolicyOf(c).level = "public" /\ handed[c] = NoClaims
            \/ /\ PolicyOf(c).level \in {"internal", "authenticated"}
               /\ TokenOf(c) \in Token /\ handed[c] = TokenOf(c).claims
               /\ UseAccepted(c) /\ ScopesSuffice(PolicyOf(c), handed[c])
    /\ outcome[c] = "denied" => TokenOf(c).claims.use # TokenUseService

\* Every decision is taken on what was asked, answered and configured.
IInv == TypeOK /\ DirectoryInv /\ WaitingInv /\ AnswerInv /\ OutcomeInv
=============================================================================
