------------------------------ MODULE KeyStore ------------------------------
(***************************************************************************)
(* What issuer.KeyProvider promises the issuer, without the files.         *)
(*                                                                         *)
(* A store that is open always has one whole key set in force.  A call is  *)
(* given the set in force when it returns, and a set is replaced whole, by *)
(* a call, no sooner than RefreshInterval after the store last tried.      *)
(***************************************************************************)
EXTENDS Integers

CONSTANTS Caller, File, Key, NoKey, RefreshInterval, Epoch

VARIABLES now,
          standing,   \* the key set in force, [File -> Key], or NoKeys
          triedAt,    \* when the store last tried to replace it, or was opened
          waiting,    \* the callers that wait for an answer
          got         \* what each caller was last given

vars == <<now, standing, triedAt, waiting, got>>

KeySet == [File -> Key]
NoKeys == [f \in File |-> NoKey]
Open == standing # NoKeys

Init ==
  /\ now = Epoch /\ triedAt = 0
  /\ standing = NoKeys
  /\ waiting = {}
  /\ got = [c \in Caller |-> NoKeys]

Tick == now' = now + 1 /\ UNCHANGED <<standing, triedAt, waiting, got>>

OpenWith(keySet) ==
  /\ ~Open
  /\ standing' = keySet /\ triedAt' = now
  /\ UNCHANGED <<now, waiting, got>>

\* The process ends, and its calls with it.
Close ==
  /\ Open
  /\ standing' = NoKeys /\ triedAt' = 0 /\ waiting' = {}
  /\ got' = [c \in Caller |-> NoKeys]
  /\ UNCHANGED now

Ask(c) ==
  /\ Open /\ c \notin waiting
  /\ waiting' = waiting \cup {c}
  /\ got' = [got EXCEPT ![c] = NoKeys]
  /\ UNCHANGED <<now, standing, triedAt>>

Answer(c) ==
  /\ c \in waiting
  /\ waiting' = waiting \ {c}
  /\ got' = [got EXCEPT ![c] = standing']
  /\ UNCHANGED now

AnswerStanding(c) == Answer(c) /\ UNCHANGED <<standing, triedAt>>

\* The call tries to replace the set, and may end up with the one it has.
AnswerRenewed(c, keySet) ==
  /\ standing' = keySet
  /\ triedAt' \in triedAt + RefreshInterval .. now
  /\ Answer(c)

Next ==
  \/ Tick \/ Close
  \/ \E keySet \in KeySet : OpenWith(keySet)
  \/ \E c \in Caller :
       \/ Ask(c) \/ AnswerStanding(c)
       \/ \E keySet \in KeySet : AnswerRenewed(c, keySet)

Spec == Init /\ [][Next]_vars
=============================================================================
