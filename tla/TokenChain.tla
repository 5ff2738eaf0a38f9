----------------------------- MODULE TokenChain -----------------------------
(***************************************************************************)
(* Internal JWTs through a processing chain.  The gateway converts an      *)
(* external token for the first service; a service presents the token it   *)
(* was called with as context, and the gateway re-issues it for the next   *)
(* hop; or a service starts a chain no user is behind.                     *)
(*                                                                         *)
(* The gateway verifies a context token (verifier.ContextVerifier) and     *)
(* re-issues from its claims (issuer.Issuer) in two steps, each reading    *)
(* the clock.  A service's clock differs from the gateway's by up to Skew. *)
(* Tokens are delivered at any time, any number of times, to any service.  *)
(***************************************************************************)
EXTENDS Issuer, Verifier

CONSTANTS Service, External,  \* the external tokens, as ExternalTokenInput
          Skew,               \* how far a service's clock is off
          Epoch,
          MaxTime,            \* BOUND: no time passes after this instant
          MaxTokens           \* BOUND: no token is issued after this many

VARIABLES now, issued, held, context

vars == <<now, issued, held, context>>

\* issued[n] is the n-th token: its claims and, for the properties only, when
\* it was issued, from which token (0: none) and by which derivation.
Token == DOMAIN issued

NoContext == 0

ASSUME ChainAssumption ==
  /\ {Skew, MaxTime, MaxTokens} \subseteq Nat /\ Skew <= Leeway
  /\ Epoch \in Nat /\ Epoch > Leeway + Skew /\ Epoch >= Second
  /\ TrustedIssuer = IssuerID /\ IssuerID # Blank
  /\ Blank \notin Service
  /\ \A x \in External : x.sourceExp \in Nat

\* an external token's jti is not one of the gateway's
ExternalJti == MaxTokens + 1

Time == Nat
Id == 0..ExternalJti

\* Every token has a jti of its own, a txn drawn for it or for a token before it,
\* and a parent issued before it (signer.registeredClaims, the derivations).
TypeOK ==
  /\ now \in Time
  /\ Len(issued) <= MaxTokens
  /\ \A n \in Token :
       /\ {issued[n].claims.iat, issued[n].claims.exp, issued[n].claims.srcExp} \subseteq Time
       /\ issued[n].claims.jti = n /\ issued[n].claims.txn \in 1..n
       /\ issued[n].parent \in 0..(n - 1)
  /\ held \in [Service -> SUBSET Token]
  /\ context \in [Service -> Token \cup {NoContext}]

Init ==
  /\ now \in Epoch..(Epoch + Second - 1)
  /\ issued = <<>>
  /\ held = [s \in Service |-> {}]
  /\ context = [s \in Service |-> NoContext]
-----------------------------------------------------------------------------
Tick ==
  /\ now < MaxTime
  /\ now' = now + 1
  /\ UNCHANGED <<issued, held, context>>

Next1 == Len(issued) + 1

Issue(claims, parent, origin) ==
  /\ Len(issued) < MaxTokens
  /\ issued' = Append(issued, [claims |-> claims, born |-> now,
                               parent |-> parent, origin |-> origin])

\* IssueFromExternal: a new chain, so the txn is fresh.
Convert(x) ==
  /\ MayConvert(x, now)
  /\ Issue(ExternalTokenClaims(x, now, Next1, Next1), 0, x)
  /\ UNCHANGED <<now, held, context>>

\* A service verifies a token it is called with.
Receive(s, n, skew) ==
  /\ Verify(issued[n].claims, s, now + skew, "key") = "accepted"
  /\ n \notin held[s]
  /\ held' = [held EXCEPT ![s] = @ \cup {n}]
  /\ UNCHANGED <<now, issued, context>>

\* The service presents it, and the gateway verifies it for this presenter.
Present(s, n) ==
  /\ n \in held[s] /\ context[s] = NoContext
  /\ VerifyContext(issued[n].claims, s, now, "key") = "accepted"
  /\ context' = [context EXCEPT ![s] = n]
  /\ UNCHANGED <<now, issued, held>>

\* IssueUserOriginService from the context presented.
ReissueUser(s, to) ==
  LET claims == issued[context[s]].claims IN
  /\ context[s] # NoContext
  /\ MayReissueUser(to, s, claims, now)
  /\ Issue(UserOriginServiceClaims(to, s, claims, now, Next1),
           context[s], issued[context[s]].origin)
  /\ context' = [context EXCEPT ![s] = NoContext]
  /\ UNCHANGED <<now, held>>

\* IssueMachineOriginService from the context presented: txn passes through.
ReissueMachine(s, to) ==
  LET claims == issued[context[s]].claims IN
  /\ context[s] # NoContext
  /\ MayReissueMachine(to, s, claims, now)
  /\ Issue(MachineOriginServiceClaims(to, s, claims.txn, now, Next1),
           context[s], issued[context[s]].origin)
  /\ context' = [context EXCEPT ![s] = NoContext]
  /\ UNCHANGED <<now, held>>

\* The gateway refuses the derivation asked for.
Refuse(s, to) ==
  LET claims == issued[context[s]].claims IN
  /\ context[s] # NoContext
  /\ ~MayReissueUser(to, s, claims, now) \/ ~MayReissueMachine(to, s, claims, now)
  /\ context' = [context EXCEPT ![s] = NoContext]
  /\ UNCHANGED <<now, issued, held>>

\* IssueMachineOriginService without a context: a service starts a chain.
MachineOrigin == [use |-> TokenUseService]

StartMachine(s, to) ==
  /\ MayStartMachine(to, s)
  /\ Issue(MachineOriginServiceClaims(to, s, Next1, now, Next1), 0, MachineOrigin)
  /\ UNCHANGED <<now, held, context>>

Next ==
  \/ Tick
  \/ \E x \in External : Convert(x)
  \/ \E s \in Service :
       \/ \E n \in Token, skew \in -Skew..Skew : Receive(s, n, skew)
       \/ \E n \in Token : Present(s, n)
       \/ \E to \in Service : ReissueUser(s, to)
       \/ \E to \in Service : ReissueMachine(s, to)
       \/ \E to \in Service : StartMachine(s, to)
       \/ \E to \in Service : Refuse(s, to)

Spec == Init /\ [][Next]_vars
-----------------------------------------------------------------------------
(* Properties. *)

\* Issuer and verifier agree: every token the gateway issues passes every check
\* of the service it is addressed to until it expires, whatever that service's
\* clock within the tolerated skew.
IssuedIsAccepted ==
  \A n \in Token : \A skew \in -Skew..Skew :
    now < issued[n].claims.exp =>
      Verify(issued[n].claims, issued[n].claims.aud[1], now + skew, "key") = "accepted"

\* A user's chain stays the user's: every hop carries the txn of its parent and
\* the scope, tenant, event and user of the external token at the root.
ChainKeepsUser ==
  \A n \in Token :
    issued[n].origin # MachineOrigin =>
      LET c == issued[n].claims
          x == issued[n].origin
      IN  /\ c.scope = x.scope /\ c.tenant = x.tenant /\ c.event = x.event
          /\ IF issued[n].parent = 0
             THEN c.sub = x.subject /\ c.originSub = Blank
             ELSE /\ c.originSub = x.subject
                  /\ c.srcJti = issued[n].parent
                  /\ c.txn = issued[issued[n].parent].claims.txn

\* A machine's chain never acquires a user, a scope or a tenant, and a user's
\* chain never loses them by being re-issued as a machine's; and each hop of a
\* machine's chain carries the txn of the hop before.
ChainKeepsMachine ==
  \A n \in Token :
    LET c == issued[n].claims
        parent == issued[n].parent
    IN  /\ issued[n].origin = MachineOrigin <=>
             /\ c.use = TokenUseService
             /\ c.originSub = Blank /\ c.scope = Blank /\ c.srcJti = NoId
             /\ c.tenant = Blank /\ c.event = Blank
        /\ issued[n].origin = MachineOrigin /\ parent # 0 =>
             c.txn = issued[parent].claims.txn

\* A hop begins before the token it continues expires, leeway or not, and only
\* the service that token was addressed to begins it.
HopsFollowTheirContext ==
  \A n \in Token :
    issued[n].parent # 0 =>
      LET c == issued[n].claims
          p == issued[issued[n].parent].claims
      IN  issued[n].born < p.exp /\ p.aud = <<c.client>>

\* the token that enters with an external one, not a later hop or a machine's
Ingress(n) == issued[n].parent = 0 /\ issued[n].origin # MachineOrigin

\* A token ends no later than the lifetime given to it allows, and an ingress
\* token no later than the external token it stands for, as a date (src_exp) and
\* as the instant it was; and less than a second sooner than that, since exp
\* keeps whole seconds.  So a token is dead when it is issued only if less than a
\* second was left to it: a lifetime below one second, or a source about to end.
LifetimeFollowsSource ==
  \A n \in Token :
    LET c == issued[n].claims
        x == issued[n].origin
        end == issued[n].born + TTL
    IN  /\ c.iat <= c.exp /\ c.exp <= end
        /\ Ingress(n) => c.exp <= x.sourceExp /\ c.exp <= c.srcExp
        /\ \/ c.exp + Second > end
           \/ Ingress(n) /\ c.exp + Second > x.sourceExp
-----------------------------------------------------------------------------
(* The invariant the proofs rest on. *)

\* Tokens are numbered as they are issued, the clock has not gone back, and at
\* the root of a chain is an external token that was accepted, or a service.
IssuedInv ==
  /\ issued \in Seq({issued[n] : n \in Token})
  /\ now >= Epoch
  /\ \A n \in Token :
       /\ issued[n].born \in Epoch..now
       /\ \/ issued[n].origin = MachineOrigin
          \/ issued[n].origin \in External /\ ValidExternalToken(issued[n].origin)

\* A token starts with the second it was issued in and ends as it should.
DatesInv ==
  /\ LifetimeFollowsSource
  /\ \A n \in Token : issued[n].claims.iat = NumericDate(issued[n].born)

\* Whatever derivation it comes from, a token has what its one audience asks for.
ClaimsInv ==
  \A n \in Token : SoundClaims(issued[n].claims, issued[n].claims.aud[1])

\* Every token of every chain is what its derivation promises.
IInv ==
  /\ TypeOK /\ IssuedInv /\ DatesInv /\ ClaimsInv
  /\ ChainKeepsUser /\ ChainKeepsMachine /\ HopsFollowTheirContext
=============================================================================
