---------------------------- MODULE KeyDirectory ----------------------------
(***************************************************************************)
(* What jwks.Cache promises its callers, without any of its machinery.     *)
(*                                                                         *)
(* The origin (the Service Gateway's JWKS endpoint) publishes a document   *)
(* that gives every kid a key or none, and replaces it at any moment.      *)
(* Callers ask for the key of a kid, or for a warm-up refresh.  An answer  *)
(* may lag behind the origin, but only so far: a key is one the origin     *)
(* still publishes under that kid or withdrew less than KeyLag ago, and    *)
(* "unknown" is given only for a kid the origin does not publish or first  *)
(* published less than UnknownLag ago.  A caller may always be told that   *)
(* the keys cannot be had.                                                 *)
(***************************************************************************)
EXTENDS Integers

CONSTANTS Caller, Kid, Key,
          NoKey,        \* what the origin says of a kid it does not publish
          KeyLag,       \* how long a withdrawn key may still be handed out
          UnknownLag,   \* how long a newly published kid may be unknown
          Epoch         \* the instant the model starts at; 0 is "never"

VARIABLES now,      \* the clock
          origin,   \* [Kid -> Key \cup {NoKey}], the published document
          until,    \* until[k][v], the last instant the origin said v of k and
                    \* then stopped saying it; 0 if that never happened
          ask,      \* ask[c], what c is waiting for, or "nothing"
          answer    \* answer[c], what c was last told

vars == <<now, origin, until, ask, answer>>

Value == Key \cup {NoKey}
Document == [Kid -> Value]

\* the calls: Key(ctx, kid), Key(ctx, ""), Refresh(ctx)
Question == Kid \cup {"no kid", "refresh"}

\* the outcomes that carry no key
Unavailable == {"failed", "held off"}
Outcome == {"none", "missing kid", "unknown", "refreshed"} \cup Unavailable

\* the origin says v of k now, or stopped saying so less than lag ago
Said(k, v, lag) == origin[k] = v \/ now - until[k][v] < lag

\* the answers a question may be given at this moment
Allowed(q) ==
  IF q \in Kid
  THEN {v \in Key : Said(q, v, KeyLag)}
         \cup {u \in {"unknown"} : Said(q, NoKey, UnknownLag)}
         \cup Unavailable
  ELSE IF q = "no kid" THEN {"missing kid"} ELSE {"refreshed", "failed"}
-----------------------------------------------------------------------------
Init ==
  /\ now = Epoch
  /\ origin \in Document
  /\ until = [k \in Kid |-> [v \in Value |-> 0]]
  /\ ask = [c \in Caller |-> "nothing"]
  /\ answer = [c \in Caller |-> "none"]

Tick ==
  /\ now' = now + 1
  /\ UNCHANGED <<origin, until, ask, answer>>

\* The gateway publishes another document; what it no longer says of a kid is
\* dated with this instant.
Publish(doc) ==
  /\ doc # origin
  /\ origin' = doc
  /\ until' = [k \in Kid |-> [v \in Value |->
                 IF origin[k] = v /\ doc[k] # v THEN now ELSE until[k][v]]]
  /\ UNCHANGED <<now, ask, answer>>

Ask(c, q) ==
  /\ ask[c] = "nothing"
  /\ ask' = [ask EXCEPT ![c] = q]
  /\ answer' = [answer EXCEPT ![c] = "none"]
  /\ UNCHANGED <<now, origin, until>>

Answer(c) ==
  /\ ask[c] # "nothing"
  /\ \E a \in Allowed(ask[c]) : answer' = [answer EXCEPT ![c] = a]
  /\ ask' = [ask EXCEPT ![c] = "nothing"]
  /\ UNCHANGED <<now, origin, until>>

Next ==
  \/ Tick
  \/ \E doc \in Document : Publish(doc)
  \/ \E c \in Caller : \E q \in Question : Ask(c, q)
  \/ \E c \in Caller : Answer(c)

Spec == Init /\ [][Next]_vars

\* every question is answered in the end
FairSpec == Spec /\ \A c \in Caller : WF_vars(Answer(c))
=============================================================================
