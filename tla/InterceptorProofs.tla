-------------------------- MODULE InterceptorProofs --------------------------
(***************************************************************************)
(* Proofs about Interceptor, for any number of calls in flight and any     *)
(* procedures, policies, options, tokens and keys: IInv is inductive, and  *)
(* with it every decision the interceptor takes is the right one.          *)
(***************************************************************************)
EXTENDS Interceptor, VerifierProofs, TLAPS

\* The constants' kinds, and the names that are no key and no kid.
LEMMA Kinds ==
  /\ KeyLag \in Nat \ {0} /\ UnknownLag \in Nat \ {0}
  /\ Epoch \in Nat /\ MaxTime \in Nat /\ Leeway \in Nat
  /\ "nothing" \notin Kid /\ Blank \notin Kid
  /\ Dir!Outcome = {"none", "missing kid", "unknown", "refreshed", "failed", "held off"}
  /\ Dir!Unavailable = {"failed", "held off"}
  /\ Dir!Value = Key \cup {NoKey}
  /\ Dir!Document = [Kid -> Key \cup {NoKey}]
  /\ \A v \in Key : v \notin Dir!Outcome
  BY InterceptorAssumption, LeewayNatural
     DEF Dir!Outcome, Dir!Unavailable, Dir!Value, Dir!Document

\* The directory's lags are spans of time.
LEMMA Lags == KeyLag \in Int /\ UnknownLag \in Int
  BY InterceptorAssumption

\* A header that is usable carries a token, and the token a kid to ask for.
LEMMA UsableToken ==
  ASSUME NEW h \in Header, Usable(h)
  PROVE  /\ BearerToken(h) \in Token /\ BearerToken(h).kid \in Kid
         /\ Resolvable(BearerToken(h))
<1>1. BearerToken(h) # NoToken /\ Resolvable(BearerToken(h))
  BY DEF Usable
<1>2. BearerToken(h) \in Token
  BY <1>1, InterceptorAssumption DEF BearerToken
<1> QED
  BY <1>1, <1>2, InterceptorAssumption DEF Resolvable

\* So the token of a call that waits is one callers may present, and its kid one
\* the directory knows of.
LEMMA WaitingToken ==
  ASSUME IInv, NEW c \in Call, pc[c] \in {"resolving", "deciding"}
  PROVE  /\ TokenOf(c) \in Token /\ TokenOf(c).kid \in Kid /\ Resolvable(TokenOf(c))
         /\ request[c].procedure \in Procedure /\ Named(request[c].procedure)
         /\ PolicyOf(c).level \in {"internal", "authenticated"}
<1>1. /\ request[c] \in [procedure : Procedure, header : Header]
      /\ Guarded(request[c].procedure) /\ Usable(request[c].header)
  BY DEF IInv, WaitingInv
<1>2. request[c].header \in Header /\ request[c].procedure \in Procedure
  BY <1>1
<1> QED
  BY <1>1, <1>2, UsableToken DEF TokenOf, PolicyOf, Guarded
-----------------------------------------------------------------------------
(* IInv is inductive. *)

\* No call is there at first, and nothing has been withdrawn.
LEMMA InitIInv == Init => IInv
<1> SUFFICES ASSUME Init PROVE IInv
  OBVIOUS
<1> USE DEF Init, Dir!Init
<1>1. TypeOK
  <2>1. now \in Nat /\ origin \in Dir!Document /\ serving \in BOOLEAN
    BY Kinds
  <2>2. settings \in Settings
    BY DEF Settings
  <2>3. ask \in [Call -> Kid \cup {"nothing"}] /\ answer \in [Call -> Key \cup Dir!Outcome]
    BY Kinds
  <2>4. /\ pc \in [Call -> {"idle", "resolving", "deciding", "done"}]
        /\ request \in [Call -> [procedure : Procedure, header : Header] \cup {NoRequest}]
        /\ outcome \in [Call -> {"none", "served"} \cup Refusal]
        /\ handed \in [Call -> {t.claims : t \in Token} \cup {NoClaims}]
        /\ resolvedAt \in [Call -> Nat]
    OBVIOUS
  <2> QED
    BY <2>1, <2>2, <2>3, <2>4 DEF TypeOK
<1>2. DirectoryInv
  <2>1. /\ until \in [Kid -> [Dir!Value -> Nat]]
        /\ \A k \in Kid, v \in Dir!Value : until[k][v] = 0
    OBVIOUS
  <2>2. now \in Nat
    BY Kinds
  <2> QED
    BY <2>1, <2>2 DEF DirectoryInv
<1>3. WaitingInv /\ AnswerInv /\ OutcomeInv
  BY DEF WaitingInv, AnswerInv, OutcomeInv
<1> QED
  BY <1>1, <1>2, <1>3 DEF IInv

\* Until New has returned no call is there to be decided.
LEMMA NoCallYet ==
  ASSUME IInv, ~serving
  PROVE  \A c \in Call : pc[c] = "idle" /\ outcome[c] = "none" /\ handed[c] = NoClaims
  BY DEF IInv, WaitingInv

\* An option changes the settings before any call is there.
LEMMA OptionIInv ==
  ASSUME IInv, ~serving, settings' \in Settings,
         UNCHANGED <<directory, serving, calls, resolvedAt>>
  PROVE  IInv'
<1> USE DEF directory, calls
<1>1. TypeOK'
  BY DEF IInv, TypeOK
<1>2. DirectoryInv'
  BY DEF IInv, DirectoryInv, TokenOf
<1>3. WaitingInv' /\ AnswerInv' /\ OutcomeInv'
  BY NoCallYet DEF IInv, WaitingInv, AnswerInv, OutcomeInv
<1> QED
  BY <1>1, <1>2, <1>3 DEF IInv

\* The options keep the settings sets of token_use values.
LEMMA OptionsIInv ==
  ASSUME IInv, NEW uses \in TokenUses,
         WithAuthenticatedTokenUses(uses) \/ \E p \in Configurable : WithTokenUses(p, uses)
  PROVE  IInv'
<1>1. uses \in SUBSET TokenUse
  BY InterceptorAssumption
<1>2. settings' \in Settings
  <2>1. CASE WithAuthenticatedTokenUses(uses)
    BY <1>1, <2>1 DEF WithAuthenticatedTokenUses, IInv, TypeOK, Settings
  <2>2. ASSUME NEW p \in Configurable, WithTokenUses(p, uses)
        PROVE  settings' \in Settings
    BY <1>1, <2>2 DEF WithTokenUses, IInv, TypeOK, Settings
  <2> QED
    BY <2>1, <2>2
<1>3. ~serving /\ UNCHANGED <<directory, serving, calls, resolvedAt>>
  BY DEF WithAuthenticatedTokenUses, WithTokenUses
<1> QED
  BY <1>2, <1>3, OptionIInv

\* New returns, and the settings are what they are from then on.
LEMMA NewIInv == ASSUME IInv, New PROVE IInv'
<1> USE DEF New, directory, calls
<1>1. TypeOK' /\ DirectoryInv'
  BY DEF IInv, TypeOK, DirectoryInv, TokenOf
<1>2. WaitingInv' /\ AnswerInv' /\ OutcomeInv'
  BY NoCallYet DEF IInv, WaitingInv, AnswerInv, OutcomeInv
<1> QED
  BY <1>1, <1>2 DEF IInv

\* Time passes over the calls: what they were told does not age.
LEMMA TickIInv ==
  ASSUME IInv, Dir!Tick, UNCHANGED <<serving, settings, calls, resolvedAt>>
  PROVE  IInv'
<1> USE DEF Dir!Tick, calls
<1>1. now \in Nat /\ now' = now + 1
  BY DEF IInv, TypeOK
<1>2. TypeOK'
  BY <1>1 DEF IInv, TypeOK
<1>3. DirectoryInv'
  <2>1. \A k \in Kid, v \in Dir!Value : until[k][v] \in Nat /\ until[k][v] <= now'
    BY <1>1 DEF IInv, DirectoryInv
  <2>2. \A c \in Call : resolvedAt[c] \in Nat /\ resolvedAt[c] <= now'
    BY <1>1 DEF IInv, DirectoryInv, TypeOK
  <2> QED
    BY <2>1, <2>2 DEF IInv, DirectoryInv, TokenOf
<1>4. WaitingInv' /\ OutcomeInv'
  BY DEF IInv, WaitingInv, OutcomeInv, TokenOf, PolicyOf, UseAccepted, AcceptedTokenUses
<1>5. AnswerInv'
  BY DEF IInv, AnswerInv, Told, TokenOf
<1> QED
  BY <1>2, <1>3, <1>4, <1>5 DEF IInv

\* Another document is published: what a call was told of its kid is now dated.
LEMMA PublishIInv ==
  ASSUME IInv, NEW doc \in Dir!Document, Dir!Publish(doc),
         UNCHANGED <<serving, settings, calls, resolvedAt>>
  PROVE  IInv'
<1> USE DEF Dir!Publish, calls
<1>1. now \in Nat /\ now' = now
  BY DEF IInv, TypeOK
<1>2. TypeOK'
  BY DEF IInv, TypeOK
<1>3. \A k \in Kid, v \in Dir!Value :
        until'[k][v] = IF origin[k] = v /\ doc[k] # v THEN now ELSE until[k][v]
  OBVIOUS
<1>4. until' \in [Kid -> [Dir!Value -> Nat]]
  BY <1>1 DEF IInv, DirectoryInv
<1>5. DirectoryInv'
  <2>1. \A k \in Kid, v \in Dir!Value : until'[k][v] <= now'
    BY <1>1, <1>3 DEF IInv, DirectoryInv
  <2> QED
    BY <1>4, <2>1 DEF IInv, DirectoryInv, TokenOf
<1>6. WaitingInv' /\ OutcomeInv'
  BY DEF IInv, WaitingInv, OutcomeInv, TokenOf, PolicyOf, UseAccepted, AcceptedTokenUses
<1>7. AnswerInv'
  <2> SUFFICES ASSUME NEW c \in Call, pc[c] = "deciding" PROVE Told(c)'
    BY DEF AnswerInv
  <2> DEFINE k == TokenOf(c).kid
  <2>1. Told(c) /\ k \in Kid
    BY WaitingToken DEF IInv, AnswerInv
  <2>2. TokenOf(c)' = TokenOf(c) /\ answer'[c] = answer[c] /\ resolvedAt'[c] = resolvedAt[c]
    BY DEF TokenOf
  <2>3. resolvedAt[c] \in Nat /\ resolvedAt[c] <= now
    BY DEF IInv, TypeOK, DirectoryInv
  <2>4. ASSUME NEW v \in Dir!Value, NEW lag \in Nat \ {0},
               origin[k] = v \/ resolvedAt[c] - until[k][v] < lag
        PROVE  origin'[k] = v \/ resolvedAt[c] - until'[k][v] < lag
    BY <1>1, <1>3, <2>1, <2>3, <2>4
  <2> QED
    BY <2>1, <2>2, <2>4, Kinds DEF Told
<1> QED
  BY <1>2, <1>5, <1>6, <1>7 DEF IInv

\* What the calls other than c are doing is left alone.
Others(c) ==
  /\ serving' = serving /\ settings' = settings
  /\ \A d \in Call \ {c} :
       /\ pc'[d] = pc[d] /\ request'[d] = request[d] /\ outcome'[d] = outcome[d]
       /\ handed'[d] = handed[d] /\ resolvedAt'[d] = resolvedAt[d]
       /\ ask'[d] = ask[d] /\ answer'[d] = answer[d]

\* The parts of the invariant that are about one call.
CallInv(c) ==
  /\ ask[c] = IF pc[c] = "resolving" THEN TokenOf(c).kid ELSE "nothing"
  /\ resolvedAt[c] <= now
  /\ pc[c] # "idle" =>
       serving /\ request[c] \in [procedure : Procedure, header : Header]
  /\ pc[c] # "done" => outcome[c] = "none" /\ handed[c] = NoClaims
  /\ pc[c] \in {"resolving", "deciding"} =>
       Guarded(request[c].procedure) /\ Usable(request[c].header)
  /\ pc[c] = "deciding" => Told(c)
  /\ outcome[c] = "served" =>
       /\ Named(request[c].procedure)
       /\ \/ PolicyOf(c).level = "public" /\ handed[c] = NoClaims
          \/ /\ PolicyOf(c).level \in {"internal", "authenticated"}
             /\ TokenOf(c) \in Token /\ handed[c] = TokenOf(c).claims
             /\ UseAccepted(c) /\ ScopesSuffice(PolicyOf(c), handed[c])
  /\ outcome[c] = "denied" => TokenOf(c).claims.use # TokenUseService

\* The invariant says it of every call, and nothing else but what the directory
\* holds.
LEMMA CallByCall ==
  IInv <=> /\ TypeOK
           /\ until \in [Kid -> [Dir!Value -> Nat]]
           /\ \A k \in Kid, v \in Dir!Value : until[k][v] <= now
           /\ \A c \in Call : CallInv(c)
  BY DEF IInv, DirectoryInv, WaitingInv, AnswerInv, OutcomeInv, CallInv

\* So a step of one call, at an instant, has only that call to answer for.
LEMMA CallStep ==
  ASSUME IInv, NEW c \in Call, UNCHANGED <<now, origin, until>>, Others(c),
         TypeOK', CallInv(c)'
  PROVE  IInv'
<1>1. ASSUME NEW d \in Call \ {c} PROVE CallInv(d)'
  <2>1. CallInv(d)
    BY CallByCall
  <2>2. /\ TokenOf(d)' = TokenOf(d) /\ PolicyOf(d)' = PolicyOf(d)
        /\ UseAccepted(d)' = UseAccepted(d) /\ Told(d)' = Told(d)
    BY DEF Others, TokenOf, PolicyOf, UseAccepted, AcceptedTokenUses, Told
  <2> QED
    BY <2>1, <2>2 DEF CallInv, Others
<1>2. \A d \in Call : CallInv(d)'
  BY <1>1
<1>3. /\ until' \in [Kid -> [Dir!Value -> Nat]]
      /\ \A k \in Kid, v \in Dir!Value : until'[k][v] <= now'
  BY DEF IInv, DirectoryInv
<1> QED
  BY <1>2, <1>3 DEF IInv, DirectoryInv, WaitingInv, AnswerInv, OutcomeInv, CallInv

\* A call that is decided as it arrives, without its token being looked into.
LEMMA DecidedAtOnce ==
  ASSUME IInv, NEW c \in Call, NEW p \in Procedure, NEW h \in Header,
         NEW result \in {"served"} \cup Refusal,
         serving, pc[c] = "idle", Arrive(c, p, h), Finish(c, result, NoClaims),
         UNCHANGED <<directory, resolvedAt>>,
         result = "served" => Named(p) /\ Policies[p].level = "public",
         result # "denied"
  PROVE  IInv'
<1> USE DEF Arrive, Finish, directory
<1>1. request'[c] = [procedure |-> p, header |-> h] /\ pc'[c] = "done"
      /\ outcome'[c] = result /\ handed'[c] = NoClaims
  BY DEF IInv, TypeOK
<1>2. TypeOK'
  BY DEF IInv, TypeOK
<1>3. Others(c)
  BY DEF Others, IInv, TypeOK
<1>4. CallInv(c)'
  <2>1. ask'[c] = "nothing" /\ resolvedAt'[c] <= now'
    BY CallByCall DEF CallInv
  <2>2. PolicyOf(c)' = Policies[p]
    BY <1>1 DEF PolicyOf
  <2> QED
    BY <1>1, <2>1, <2>2 DEF CallInv
<1> QED
  BY <1>2, <1>3, <1>4, CallStep DEF directory

\* A call that arrives at a guarded procedure with a usable token asks for the
\* key of its kid.
LEMMA ResolveKeyIInv ==
  ASSUME IInv, NEW c \in Call, NEW p \in Procedure, NEW h \in Header,
         serving, pc[c] = "idle", ResolveKey(c, p, h)
  PROVE  IInv'
<1> USE DEF ResolveKey, Arrive, Dir!Ask
<1>1. BearerToken(h) \in Token /\ BearerToken(h).kid \in Kid
  BY UsableToken
<1>2. request'[c] = [procedure |-> p, header |-> h] /\ pc'[c] = "resolving"
      /\ ask'[c] = BearerToken(h).kid
  BY DEF IInv, TypeOK
<1>3. TypeOK'
  <2>1. /\ ask' \in [Call -> Kid \cup {"nothing"}]
        /\ answer' \in [Call -> Key \cup Dir!Outcome]
    BY <1>1, Kinds DEF IInv, TypeOK
  <2>2. request' \in [Call -> [procedure : Procedure, header : Header] \cup {NoRequest}]
        /\ pc' \in [Call -> {"idle", "resolving", "deciding", "done"}]
    BY DEF IInv, TypeOK
  <2> QED
    BY <2>1, <2>2 DEF IInv, TypeOK
<1>4. Others(c)
  BY DEF Others, IInv, TypeOK
<1>5. CallInv(c)'
  <2>1. outcome'[c] = "none" /\ handed'[c] = NoClaims /\ resolvedAt'[c] <= now'
    BY CallByCall DEF CallInv
  <2>2. TokenOf(c)' = BearerToken(h)
    BY <1>2 DEF TokenOf
  <2> QED
    BY <1>2, <2>1, <2>2 DEF CallInv
<1> QED
  BY <1>3, <1>4, <1>5, CallStep

\* What a call is told is true of its kid at that instant, as far as the
\* directory promises.
LEMMA ResolvedIInv ==
  ASSUME IInv, NEW c \in Call, Resolved(c)
  PROVE  IInv'
<1> USE DEF Resolved, Dir!Answer
<1>1. TokenOf(c).kid \in Kid /\ ask[c] = TokenOf(c).kid /\ now \in Nat
  BY WaitingToken DEF IInv, DirectoryInv, TypeOK
<1>2. PICK told \in Dir!Allowed(ask[c]) : answer' = [answer EXCEPT ![c] = told]
  OBVIOUS
<1>3. told \in Key \cup Dir!Outcome
  BY <1>1, <1>2, Kinds DEF Dir!Allowed
<1>4. answer'[c] = told /\ resolvedAt'[c] = now /\ pc'[c] = "deciding"
      /\ ask'[c] = "nothing"
  BY <1>2 DEF IInv, TypeOK
<1>5. TypeOK'
  BY <1>2, <1>3 DEF IInv, TypeOK
<1>6. Others(c)
  BY <1>2 DEF Others, IInv, TypeOK
<1>7. TokenOf(c)' = TokenOf(c)
  BY DEF TokenOf
<1>8. Told(c)'
  BY <1>1, <1>2, <1>4, <1>7, Kinds DEF Told, Dir!Allowed, Dir!Said
<1>9. CallInv(c)'
  <2>1. CallInv(c)
    BY CallByCall
  <2> QED
    BY <1>1, <1>4, <1>8, <2>1 DEF CallInv
<1> QED
  BY <1>5, <1>6, <1>9, CallStep

\* A call that is decided on its token.
LEMMA DecidedOnToken ==
  ASSUME IInv, NEW c \in Call, NEW result \in {"served"} \cup Refusal,
         NEW claims \in {t.claims : t \in Token} \cup {NoClaims},
         pc[c] = "deciding", Finish(c, result, claims),
         UNCHANGED <<directory, serving, settings, request, resolvedAt>>,
         result = "served" =>
           /\ claims = TokenOf(c).claims /\ UseAccepted(c)
           /\ ScopesSuffice(PolicyOf(c), TokenOf(c).claims),
         result = "denied" => ~ScopesSuffice(PolicyOf(c), TokenOf(c).claims)
  PROVE  IInv'
<1> USE DEF Finish, directory
<1>1. pc'[c] = "done" /\ outcome'[c] = result /\ handed'[c] = claims
  BY DEF IInv, TypeOK
<1>2. TypeOK'
  BY DEF IInv, TypeOK
<1>3. Others(c)
  BY DEF Others, IInv, TypeOK
<1>4. CallInv(c)'
  <2>1. CallInv(c)
    BY CallByCall
  <2>2. /\ TokenOf(c)' = TokenOf(c) /\ PolicyOf(c)' = PolicyOf(c)
        /\ UseAccepted(c)' = UseAccepted(c)
    BY DEF TokenOf, PolicyOf, UseAccepted, AcceptedTokenUses
  <2>3. /\ TokenOf(c) \in Token /\ Named(request[c].procedure)
        /\ PolicyOf(c).level \in {"internal", "authenticated"}
    BY WaitingToken
  <2>4. result = "denied" => TokenOf(c).claims.use # TokenUseService
    BY DEF ScopesSuffice
  <2> QED
    BY <1>1, <2>1, <2>2, <2>3, <2>4 DEF CallInv
<1> QED
  BY <1>2, <1>3, <1>4, CallStep DEF directory

\* A call that returns leaves nothing behind.
LEMMA ReturnIInv ==
  ASSUME IInv, NEW c \in Call, Return(c)
  PROVE  IInv'
<1> USE DEF Return, directory
<1>1. /\ pc'[c] = "idle" /\ outcome'[c] = "none" /\ handed'[c] = NoClaims
      /\ resolvedAt'[c] = 0
  BY DEF IInv, TypeOK
<1>2. TypeOK'
  BY DEF IInv, TypeOK
<1>3. Others(c)
  BY DEF Others, IInv, TypeOK
<1>4. CallInv(c)'
  <2>1. ask'[c] = "nothing" /\ now' \in Nat
    BY CallByCall DEF CallInv, IInv, TypeOK
  <2> QED
    BY <1>1, <2>1 DEF CallInv
<1> QED
  BY <1>2, <1>3, <1>4, CallStep DEF directory

\* Whichever way a call begins, ...
LEMMA BeginIInv ==
  ASSUME IInv, NEW c \in Call, Begin(c)
  PROVE  IInv'
<1> PICK p \in Procedure, h \in Header :
      \/ RefuseUnknownProcedure(c, p, h) \/ ServePublic(c, p, h)
      \/ RefuseLevel(c, p, h) \/ RefuseCredential(c, p, h) \/ ResolveKey(c, p, h)
  BY DEF Begin
<1>1. serving /\ pc[c] = "idle"
  BY DEF Begin
<1>2. /\ "served" \in {"served"} \cup Refusal /\ "internal" \in {"served"} \cup Refusal
      /\ "unauthenticated" \in {"served"} \cup Refusal
  BY DEF Refusal
<1>3. CASE RefuseUnknownProcedure(c, p, h)
  BY <1>1, <1>2, <1>3, DecidedAtOnce DEF RefuseUnknownProcedure, Refuse
<1>4. CASE ServePublic(c, p, h)
  BY <1>1, <1>2, <1>4, DecidedAtOnce DEF ServePublic
<1>5. CASE RefuseLevel(c, p, h)
  BY <1>1, <1>2, <1>5, DecidedAtOnce DEF RefuseLevel, Refuse
<1>6. CASE RefuseCredential(c, p, h)
  BY <1>1, <1>2, <1>6, DecidedAtOnce DEF RefuseCredential, Refuse
<1>7. CASE ResolveKey(c, p, h)
  BY <1>1, <1>7, ResolveKeyIInv
<1> QED
  BY <1>3, <1>4, <1>5, <1>6, <1>7

\* ... and whichever way it is decided.
LEMMA DecidedIInv ==
  ASSUME IInv, NEW c \in Call, Decided(c)
  PROVE  IInv'
<1>1. /\ "served" \in {"served"} \cup Refusal /\ "unavailable" \in {"served"} \cup Refusal
      /\ "unauthenticated" \in {"served"} \cup Refusal
      /\ "denied" \in {"served"} \cup Refusal
  BY DEF Refusal
<1>2. NoClaims \in {t.claims : t \in Token} \cup {NoClaims}
  OBVIOUS
<1>3. CASE RefuseUnresolved(c)
  BY <1>1, <1>2, <1>3, DecidedOnToken DEF RefuseUnresolved, Decide, Refuse
<1>4. CASE RefuseToken(c)
  BY <1>1, <1>2, <1>4, DecidedOnToken DEF RefuseToken, Decide, Refuse
<1>5. CASE RefuseTokenUse(c)
  BY <1>1, <1>2, <1>5, DecidedOnToken DEF RefuseTokenUse, Decide, Refuse
<1>6. CASE RefuseScope(c)
  BY <1>1, <1>2, <1>6, DecidedOnToken DEF RefuseScope, Decide, Refuse
<1>7. CASE Serve(c)
  <2>1. pc[c] = "deciding"
    BY <1>7 DEF Serve, Decide
  <2>2. TokenOf(c).claims \in {t.claims : t \in Token} \cup {NoClaims}
    BY <2>1, WaitingToken
  <2> QED
    BY <1>1, <1>7, <2>1, <2>2, DecidedOnToken DEF Serve, Decide
<1> QED
  BY <1>3, <1>4, <1>5, <1>6, <1>7 DEF Decided

\* Every step keeps the invariant.
LEMMA StepIInv == IInv /\ [Next]_vars => IInv'
<1> SUFFICES ASSUME IInv, [Next]_vars PROVE IInv'
  OBVIOUS
<1>1. CASE Environment
  <2>1. UNCHANGED <<serving, settings, calls, resolvedAt>>
    BY <1>1 DEF Environment
  <2>2. CASE Dir!Tick
    BY <2>1, <2>2, TickIInv
  <2>3. ASSUME NEW doc \in Dir!Document, Dir!Publish(doc) PROVE IInv'
    BY <2>1, <2>3, PublishIInv
  <2> QED
    BY <1>1, <2>2, <2>3 DEF Environment
<1>2. ASSUME NEW uses \in TokenUses, WithAuthenticatedTokenUses(uses) PROVE IInv'
  BY <1>2, OptionsIInv
<1>3. ASSUME NEW p \in Configurable, NEW uses \in TokenUses, WithTokenUses(p, uses)
      PROVE  IInv'
  BY <1>3, OptionsIInv
<1>4. CASE New
  BY <1>4, NewIInv
<1>5. ASSUME NEW c \in Call, Begin(c) \/ Resolved(c) \/ Decided(c) \/ Return(c)
      PROVE  IInv'
  BY <1>5, BeginIInv, ResolvedIInv, DecidedIInv, ReturnIInv
<1>6. CASE UNCHANGED vars
  <2>1. TypeOK' /\ DirectoryInv'
    BY <1>6 DEF vars, directory, calls, IInv, TypeOK, DirectoryInv, TokenOf
  <2>2. WaitingInv' /\ OutcomeInv'
    BY <1>6 DEF vars, directory, calls, IInv, WaitingInv, OutcomeInv, TokenOf, PolicyOf,
       UseAccepted, AcceptedTokenUses
  <2>3. AnswerInv'
    BY <1>6 DEF vars, directory, calls, IInv, AnswerInv, Told, TokenOf
  <2> QED
    BY <2>1, <2>2, <2>3 DEF IInv
<1> QED
  BY <1>1, <1>2, <1>3, <1>4, <1>5, <1>6 DEF Next
-----------------------------------------------------------------------------
(* Who reaches a handler. *)

\* Every decision is taken on what was asked, answered and configured, in every
\* reachable state.
THEOREM InterceptorConsistent == Spec => []IInv
<1>1. Init => IInv
  BY InitIInv
<1>2. IInv /\ [Next]_vars => IInv'
  BY StepIInv
<1> QED
  BY <1>1, <1>2, PTL DEF Spec

\* Calls are at one of their waits or done, and hand over what was verified.
THEOREM InterceptorTypes == Spec => []TypeOK
<1>1. IInv => TypeOK
  BY DEF IInv
<1> QED
  BY <1>1, InterceptorConsistent, PTL

\* What a call whose handler runs with claims has been checked for.
LEMMA ServedWithClaims ==
  ASSUME IInv, NEW c \in Call, outcome[c] = "served", PolicyOf(c).level # "public"
  PROVE  /\ TokenOf(c) \in Token /\ handed[c] = TokenOf(c).claims
         /\ handed[c].use \in AcceptedTokenUses(PolicyOf(c), request[c].procedure)
         /\ ScopesSuffice(PolicyOf(c), handed[c])
  BY DEF IInv, OutcomeInv, UseAccepted

\* No option opens an internal procedure to users by accident, and no handler runs
\* at a level nobody knows.
THEOREM InternalProceduresStayInternal == Spec => []InternalStaysInternal
<1>1. IInv => InternalStaysInternal
  <2> SUFFICES ASSUME IInv, NEW c \in Call, outcome[c] = "served"
               PROVE  /\ Named(request[c].procedure)
                      /\ PolicyOf(c).level \in {"public", "internal", "authenticated"}
                      /\ handed[c] = NoClaims <=> PolicyOf(c).level = "public"
                      /\ PolicyOf(c).level = "internal" =>
                           \/ handed[c].use = TokenUseService
                           \/ handed[c].use \in PolicyOf(c).tokenUses
                                \cup settings.procedure[request[c].procedure]
    BY DEF InternalStaysInternal
  <2>1. /\ Named(request[c].procedure)
        /\ PolicyOf(c).level \in {"public", "internal", "authenticated"}
        /\ PolicyOf(c).level = "public" => handed[c] = NoClaims
    BY DEF IInv, OutcomeInv
  <2>2. CASE PolicyOf(c).level = "public"
    BY <2>1, <2>2
  <2>3. CASE PolicyOf(c).level # "public"
    <3>1. handed[c] # NoClaims
      BY <2>3, ServedWithClaims, InterceptorAssumption
    <3>2. handed[c].use \in AcceptedTokenUses(PolicyOf(c), request[c].procedure)
      BY <2>3, ServedWithClaims
    <3> QED
      BY <2>1, <2>3, <3>1, <3>2 DEF AcceptedTokenUses, DefaultTokenUses
  <2> QED
    BY <2>2, <2>3
<1> QED
  BY <1>1, InterceptorConsistent, PTL

\* A user's token needs every scope the procedure asks for, a service token none.
THEOREM UsersNeedTheirScopes == Spec => []ScopesGateUsers
<1>1. IInv => ScopesGateUsers
  <2> SUFFICES ASSUME IInv, NEW c \in Call
               PROVE  /\ outcome[c] = "served" /\ handed[c] # NoClaims
                         /\ handed[c].use # TokenUseService =>
                           PolicyOf(c).requiredScopes \subseteq Granted[handed[c].scope]
                      /\ outcome[c] = "denied" => TokenOf(c).claims.use # TokenUseService
    BY DEF ScopesGateUsers
  <2>1. outcome[c] = "denied" => TokenOf(c).claims.use # TokenUseService
    BY DEF IInv, OutcomeInv
  <2>2. outcome[c] = "served" /\ handed[c] # NoClaims => ScopesSuffice(PolicyOf(c), handed[c])
    BY DEF IInv, OutcomeInv
  <2> QED
    BY <2>1, <2>2 DEF ScopesSuffice, MissingScopes
<1> QED
  BY <1>1, InterceptorConsistent, PTL
-----------------------------------------------------------------------------
(* What a decision is taken on. *)

\* Only Decided takes a call from its answer to its end.
LEMMA DecisionIsDecided ==
  ASSUME IInv, [Next]_vars, NEW c \in Call, Decision(c)
  PROVE  Decided(c)
<1>1. pc[c] = "deciding" /\ pc'[c] = "done"
  BY DEF Decision
<1>2. pc \in [Call -> {"idle", "resolving", "deciding", "done"}]
  BY DEF IInv, TypeOK
<1>3. ~(UNCHANGED pc)
  BY <1>1
<1>4. PICK d \in Call : Begin(d) \/ Resolved(d) \/ Decided(d) \/ Return(d)
  BY <1>3 DEF Next, vars, calls, Environment, WithAuthenticatedTokenUses, WithTokenUses, New
<1>5. CASE Begin(d)
  <2>1. pc[d] = "idle" /\ \E v : pc' = [pc EXCEPT ![d] = v]
    BY <1>5 DEF Begin, RefuseUnknownProcedure, ServePublic, RefuseLevel, RefuseCredential,
       ResolveKey, Refuse, Finish
  <2> QED
    BY <1>1, <1>2, <2>1
<1>6. CASE Resolved(d)
  BY <1>1, <1>2, <1>6 DEF Resolved
<1>7. CASE Return(d)
  BY <1>1, <1>2, <1>7 DEF Return
<1>8. CASE Decided(d)
  <2>1. \E v : pc' = [pc EXCEPT ![d] = v]
    BY <1>8 DEF Decided, RefuseUnresolved, RefuseToken, RefuseTokenUse, RefuseScope, Serve,
       Refuse, Finish
  <2>2. d = c
    BY <1>1, <1>2, <2>1
  <2> QED
    BY <1>8, <2>2
<1> QED
  BY <1>4, <1>5, <1>6, <1>7, <1>8

\* Which outcome a decision has, and which verdict it follows from.
LEMMA DecisionFollowsVerdict ==
  ASSUME IInv, NEW c \in Call, Decided(c)
  PROVE  /\ outcome'[c] = "unavailable" <=> VerdictOn(c) = "unresolved"
         /\ outcome'[c] = "unauthenticated" =>
              VerdictOn(c) = "rejected" \/ ~UseAccepted(c)
         /\ VerdictOn(c) = "accepted" =>
              (outcome'[c] = "unauthenticated" <=> ~UseAccepted(c))
         /\ outcome'[c] = "served" =>
              VerdictOn(c) = "accepted" /\ handed'[c] = TokenOf(c).claims
<1>1. /\ outcome \in [Call -> {"none", "served"} \cup Refusal]
      /\ handed \in [Call -> {t.claims : t \in Token} \cup {NoClaims}]
  BY DEF IInv, TypeOK
<1>2. CASE RefuseUnresolved(c)
  BY <1>1, <1>2 DEF RefuseUnresolved, Decide, Refuse, Finish
<1>3. CASE RefuseToken(c)
  BY <1>1, <1>3 DEF RefuseToken, Decide, Refuse, Finish
<1>4. CASE RefuseTokenUse(c)
  BY <1>1, <1>4 DEF RefuseTokenUse, Decide, Refuse, Finish
<1>5. CASE RefuseScope(c)
  BY <1>1, <1>5 DEF RefuseScope, Decide, Refuse, Finish
<1>6. CASE Serve(c)
  BY <1>1, <1>6 DEF Serve, Decide, Finish
<1> QED
  BY <1>2, <1>3, <1>4, <1>5, <1>6 DEF Decided

\* The token_use a guarded call needs is one of the nearest list that is not empty.
LEMMA NearestList ==
  ASSUME IInv, NEW c \in Call, pc[c] = "deciding"
  PROVE  LET lists == TokenUseLists(c)
         IN  \E i \in 1..4 :
               /\ lists[i] # {} /\ \A j \in 1..(i - 1) : lists[j] = {}
               /\ UseAccepted(c) <=> TokenOf(c).claims.use \in lists[i]
<1> DEFINE policy == PolicyOf(c)
           p == request[c].procedure
           lists == TokenUseLists(c)
<1>1. policy.level \in {"internal", "authenticated"}
  BY DEF IInv, WaitingInv, Guarded, PolicyOf
<1>2. /\ lists[1] = policy.tokenUses
      /\ lists[2] = settings.procedure[p]
      /\ lists[3] = IF policy.level = "authenticated" THEN settings.authenticated ELSE {}
      /\ lists[4] = IF policy.level = "authenticated" THEN {TokenUseTenantAccess}
                    ELSE {TokenUseService}
  BY DEF TokenUseLists
<1>3. lists[4] = DefaultTokenUses(policy.level) /\ lists[4] # {}
  BY <1>1, <1>2 DEF DefaultTokenUses
<1>4. AcceptedTokenUses(policy, p) =
        IF lists[1] # {} THEN lists[1] ELSE IF lists[2] # {} THEN lists[2]
        ELSE IF lists[3] # {} THEN lists[3] ELSE lists[4]
  BY <1>2, <1>3 DEF AcceptedTokenUses
<1> HIDE DEF lists
<1>5. \E i \in 1..4 : /\ lists[i] # {} /\ \A j \in 1..(i - 1) : lists[j] = {}
                      /\ AcceptedTokenUses(policy, p) = lists[i]
  <2>1. CASE lists[1] # {}
    BY <1>4, <2>1
  <2>2. CASE lists[1] = {} /\ lists[2] # {}
    BY <1>4, <2>2
  <2>3. CASE lists[1] = {} /\ lists[2] = {} /\ lists[3] # {}
    BY <1>4, <2>3
  <2>4. CASE lists[1] = {} /\ lists[2] = {} /\ lists[3] = {}
    BY <1>3, <1>4, <2>4
  <2> QED
    BY <2>1, <2>2, <2>3, <2>4
<1> QED
  BY <1>5 DEF UseAccepted, lists

\* Whatever options were given and in whatever order, the nearest setting that is
\* not empty decides alone which token_use values a procedure accepts.
THEOREM NearestSettingAlwaysDecides == Spec => NearestSettingDecides
<1>1. IInv /\ [Next]_vars =>
        [\A c \in Call :
           Decision(c) /\ VerdictOn(c) = "accepted" =>
             LET lists == TokenUseLists(c)
             IN  \E i \in 1..4 :
                   /\ lists[i] # {} /\ \A j \in 1..(i - 1) : lists[j] = {}
                   /\ outcome'[c] = "unauthenticated" <=>
                        TokenOf(c).claims.use \notin lists[i]]_vars
  <2> SUFFICES ASSUME IInv, [Next]_vars, NEW c \in Call, Decision(c),
                      VerdictOn(c) = "accepted"
               PROVE  \E i \in 1..4 :
                        /\ TokenUseLists(c)[i] # {}
                        /\ \A j \in 1..(i - 1) : TokenUseLists(c)[j] = {}
                        /\ outcome'[c] = "unauthenticated" <=>
                             TokenOf(c).claims.use \notin TokenUseLists(c)[i]
    OBVIOUS
  <2>1. outcome'[c] = "unauthenticated" <=> ~UseAccepted(c)
    BY DecisionIsDecided, DecisionFollowsVerdict
  <2> QED
    BY <2>1, NearestList DEF Decision
<1> QED
  BY <1>1, InterceptorConsistent, PTL DEF Spec, NearestSettingDecides

\* A call that is served was told, of its token's kid, its token's key.
LEMMA ServedIsLive ==
  ASSUME IInv, NEW c \in Call, Decided(c), pc[c] = "deciding", outcome'[c] = "served"
  PROVE  LET t == TokenOf(c)
         IN  /\ handed'[c] = t.claims
             /\ t.claims.aud = <<Audience>>
             /\ now < t.claims.exp + Leeway
             /\ \/ origin[t.kid] = t.key
                \/ resolvedAt[c] - until[t.kid][t.key] < KeyLag
<1> DEFINE t == TokenOf(c)
<1>1. t \in Token /\ t.key \notin Dir!Outcome
  BY WaitingToken, InterceptorAssumption
<1>2. VerifyToken(t, Audience, now, ResolutionOf(c)) = "accepted" /\ handed'[c] = t.claims
  BY DecisionFollowsVerdict DEF VerdictOn
<1>3. ResolutionOf(c) = "key" /\ ClaimsAccepted(t.claims, Audience, now)
  BY <1>2, AcceptedNeedsKey
<1>4. now \in Int
  BY DEF IInv, TypeOK
<1>5. t.claims.aud = <<Audience>> /\ now < t.claims.exp + Leeway
  BY <1>1, <1>3, <1>4, AcceptedClaims, InterceptorAssumption
<1>6. answer[c] = t.key
  BY <1>3 DEF ResolutionOf
<1>7. Told(c)
  BY DEF IInv, AnswerInv
<1>8. origin[t.kid] = t.key \/ resolvedAt[c] - until[t.kid][t.key] < KeyLag
  BY <1>1, <1>6, <1>7, Kinds DEF Told
<1> QED
  BY <1>2, <1>5, <1>8

\* A guarded handler runs with the claims of its own call's token only, and for
\* a key that is live.
THEOREM GuardedServeLiveKeys == Spec => ServedForLiveKey
<1>1. IInv /\ [Next]_vars =>
        [\A c \in Call :
           Decision(c) /\ outcome'[c] = "served" =>
             LET t == TokenOf(c)
             IN  /\ handed'[c] = t.claims
                 /\ t.claims.aud = <<Audience>>
                 /\ now < t.claims.exp + Leeway
                 /\ \/ origin[t.kid] = t.key
                    \/ resolvedAt[c] - until[t.kid][t.key] < KeyLag]_vars
  BY DecisionIsDecided, ServedIsLive DEF Decision
<1> QED
  BY <1>1, InterceptorConsistent, PTL DEF Spec, ServedForLiveKey

\* The gateway's token is refused for itself only when it is not valid yet or no
\* longer, or its key is not established.
LEMMA EntitledRefusal ==
  ASSUME IInv, NEW c \in Call, Decided(c), pc[c] = "deciding", TokenOf(c) \in Issued,
         outcome'[c] = "unauthenticated"
  PROVE  LET t == TokenOf(c)
         IN  \/ now >= t.claims.exp \/ now < t.claims.iat - Leeway
             \/ ~Established(t.kid, t.key, resolvedAt[c])
             \/ ~UseAccepted(c)
<1> DEFINE t == TokenOf(c)
<1> SUFFICES ASSUME ~(now >= t.claims.exp), ~(now < t.claims.iat - Leeway), UseAccepted(c),
                    Established(t.kid, t.key, resolvedAt[c])
             PROVE  FALSE
  OBVIOUS
<1>1. Resolvable(t) /\ t.key \in Key /\ SoundClaims(t.claims, Audience)
  BY InterceptorAssumption
<1>2. now \in Int /\ t.claims.iat \in Int /\ t.claims.exp \in Int /\ Leeway \in Nat
  BY <1>1, LeewayNatural DEF IInv, TypeOK, SoundClaims
<1>3. ClaimsAccepted(t.claims, Audience, now)
  BY <1>1, <1>2, SoundClaimsAccepted
<1>4. VerifyToken(t, Audience, now, ResolutionOf(c)) = "rejected"
  BY DecisionFollowsVerdict DEF VerdictOn
<1>5. ResolutionOf(c) = "unknown"
  BY <1>1, <1>3, <1>4 DEF VerifyToken, Verify, ResolutionOf
<1>6. answer[c] # t.key /\ answer[c] \notin Dir!Unavailable
  BY <1>5 DEF ResolutionOf
<1>7. Told(c) /\ resolvedAt[c] \in Nat /\ t.kid \in Kid
      /\ until \in [Kid -> [Key \cup {NoKey} -> Nat]]
  BY WaitingToken, Kinds DEF IInv, AnswerInv, TypeOK, DirectoryInv
<1>8. t.key # NoKey
  BY <1>1, InterceptorAssumption
<1>9. KeyLag \in Int /\ UnknownLag \in Int
  BY Lags
<1>10. CASE answer[c] \in Key
  <2>1. \/ origin[t.kid] = answer[c]
        \/ resolvedAt[c] - until[t.kid][answer[c]] < KeyLag
    BY <1>6, <1>7, <1>10, Kinds DEF Told
  <2>2. answer[c] \in Key \ {t.key} /\ until[t.kid][answer[c]] \in Nat
    BY <1>6, <1>7, <1>10
  <2>3. /\ origin[t.kid] = t.key
        /\ resolvedAt[c] - until[t.kid][answer[c]] >= KeyLag
    BY <2>2 DEF Established
  <2>4. KeyLag \in Int /\ resolvedAt[c] - until[t.kid][answer[c]] \in Int
    BY <1>7, <1>9, <2>2
  <2> QED
    BY <1>6, <2>1, <2>3, <2>4
<1>11. CASE answer[c] = "unknown"
  <2>1. \/ origin[t.kid] = NoKey
        \/ resolvedAt[c] - until[t.kid][NoKey] < UnknownLag
    BY <1>6, <1>7, <1>11, Kinds DEF Told
  <2>2. until[t.kid][NoKey] \in Nat
    BY <1>7
  <2>3. origin[t.kid] = t.key /\ resolvedAt[c] - until[t.kid][NoKey] >= UnknownLag
    BY DEF Established
  <2>4. UnknownLag \in Int /\ resolvedAt[c] - until[t.kid][NoKey] \in Int
    BY <1>7, <1>9, <2>2
  <2> QED
    BY <1>8, <2>1, <2>3, <2>4
<1> QED
  BY <1>6, <1>7, <1>10, <1>11 DEF Told

\* A token the gateway issued for this service is not refused for itself while
\* it lives and its key is established.
THEOREM EntitledServed == Spec => EntitledNotRefused
<1>1. IInv /\ [Next]_vars =>
        [\A c \in Call :
           Decision(c) /\ TokenOf(c) \in Issued /\ outcome'[c] = "unauthenticated" =>
             LET t == TokenOf(c)
             IN  \/ now >= t.claims.exp \/ now < t.claims.iat - Leeway
                 \/ ~Established(t.kid, t.key, resolvedAt[c])
                 \/ ~UseAccepted(c)]_vars
  BY DecisionIsDecided, EntitledRefusal DEF Decision
<1> QED
  BY <1>1, InterceptorConsistent, PTL DEF Spec, EntitledNotRefused

\* The verdict is that the keys cannot be had exactly when that was the answer.
LEMMA UnresolvedIsUnavailable ==
  ASSUME IInv, NEW c \in Call, pc[c] = "deciding"
  PROVE  VerdictOn(c) = "unresolved" <=> answer[c] \in Dir!Unavailable
<1>1. Resolvable(TokenOf(c)) /\ TokenOf(c).key \notin Dir!Outcome
  BY WaitingToken, InterceptorAssumption
<1>2. Dir!Unavailable \subseteq Dir!Outcome
  BY DEF Dir!Unavailable, Dir!Outcome
<1> QED
  BY <1>1, <1>2 DEF VerdictOn, VerifyToken, Verify, ResolutionOf

\* An outage never looks like a bad token, nor a bad token like an outage.
THEOREM OutagesNotBlamed == Spec => OutageIsNotBlamed
<1>1. IInv /\ [Next]_vars =>
        [\A c \in Call :
           Decision(c) => (outcome'[c] = "unavailable" <=> answer[c] \in Dir!Unavailable)]_vars
  BY DecisionIsDecided, DecisionFollowsVerdict, UnresolvedIsUnavailable DEF Decision
<1> QED
  BY <1>1, InterceptorConsistent, PTL DEF Spec, OutageIsNotBlamed
=============================================================================
