--------------------------- MODULE FileKeyProvider ---------------------------
(***************************************************************************)
(* issuer.FileKeyProvider (issuer/keys.go): the gateway's key set, read    *)
(* from PEM files and re-read once the refresh interval has passed.        *)
(*                                                                         *)
(* A load reads the files one after the other while they may change on     *)
(* disk, holding the provider's mutex.  The first load is the              *)
(* constructor's and must succeed; a later one that fails keeps the keys   *)
(* loaded before and waits out another interval.  The process may crash    *)
(* and be restarted at any moment.                                         *)
(***************************************************************************)
EXTENDS Integers, Sequences, FiniteSets

CONSTANTS Caller, Kid, Key,
          NoKid, NoKey, NoCaller,
          FileCount,         \* file 1 is the signing key, the rest are published
          RefreshInterval,
          LoadTime,          \* how long reading the files may take
          Epoch,
          Disks,             \* BOUND: what the files may hold together
          MaxTime            \* BOUND: no time passes after this instant

File == 1..FileCount

\* What a file holds: one half of a key, or nothing a key can be read from
\* (missing, truncated, not PEM, another curve or key type).
Broken == [half |-> "none", key |-> NoKey]
Content == [half : {"private", "public"}, key : Key] \cup {Broken}

VARIABLES
  now, disk,
  kidOf,                  \* the configured kid of each file
  process,                \* "down", "starting", "up"
  keys, loadedAt,         \* FileKeyProvider's fields; keys[f] is file f's key
  mu,                     \* the caller that holds the provider's mutex
  reading,                \* the file a load reads next; 0: no load
  partial, began,         \* what the load has read, and its clock reading
  pc,                     \* each caller: "idle", "called" or "loading"
  got,                    \* HISTORY: the key set each call was last given
  changedAt,              \* HISTORY: when the files last changed
  startup,                \* HISTORY: keys are those of the constructor
  failedAt, lastBegan     \* HISTORY: the clock reading of the last failed load,
                          \* and of the last load or the end of the first

provider == <<kidOf, process, keys, loadedAt>>
loading == <<mu, reading, partial, began>>
history == <<changedAt, startup, failedAt, lastBegan>>
vars == <<now, disk, provider, loading, pc, got, history>>

ASSUME ProviderAssumption ==
  /\ {FileCount, RefreshInterval} \subseteq Nat \ {0}
  /\ {LoadTime, Epoch, MaxTime} \subseteq Nat /\ Epoch >= RefreshInterval + LoadTime
  /\ Disks \subseteq [File -> Content]
  /\ NoKey \notin Key /\ NoKid \notin Kid /\ NoCaller \notin Caller

NoKeys == [f \in File |-> NoKey]
KeySet == [File -> Key]

\* A provider that is up has a key for every configured file, whatever loads
\* failed since (NewFileKeyProvider, Current).
TypeOK ==
  /\ {now, loadedAt, began, changedAt, failedAt, lastBegan} \subseteq Nat
  /\ disk \in [File -> Content]
  /\ kidOf \in [File -> Kid \cup {NoKid}]
  /\ process \in {"down", "starting", "up"}
  /\ keys \in KeySet \cup {NoKeys} /\ (process = "up" => keys \in KeySet)
  /\ mu \in Caller \cup {NoCaller}
  /\ reading \in 0..(FileCount + 1)
  /\ partial \in [File -> Key \cup {NoKey}]
  /\ pc \in [Caller -> {"idle", "called", "loading"}]
  /\ got \in [Caller -> KeySet \cup {NoKeys}]
  /\ startup \in BOOLEAN

Init ==
  /\ now = Epoch
  /\ disk \in Disks
  /\ kidOf \in [File -> Kid \cup {NoKid}]
  /\ process = "down"
  /\ keys = NoKeys /\ loadedAt = 0
  /\ mu = NoCaller /\ reading = 0 /\ partial = NoKeys /\ began = 0
  /\ pc = [c \in Caller |-> "idle"]
  /\ got = [c \in Caller |-> NoKeys]
  /\ changedAt = 0 /\ startup = TRUE /\ failedAt = 0 /\ lastBegan = 0
-----------------------------------------------------------------------------
(* The environment. *)

Tick ==
  /\ now < MaxTime
  /\ reading # 0 => now < began + LoadTime
  /\ now' = now + 1
  /\ UNCHANGED <<disk, provider, loading, pc, got, history>>

\* Files are written, swapped or removed, one or several at once.
ChangeFiles(d) ==
  /\ d # disk
  /\ disk' = d /\ changedAt' = now
  /\ UNCHANGED <<now, provider, loading, pc, got, startup, failedAt, lastBegan>>

NoLoad == mu' = NoCaller /\ reading' = 0 /\ partial' = NoKeys /\ began' = 0

Down ==
  /\ process' = "down"
  /\ keys' = NoKeys /\ loadedAt' = 0
  /\ NoLoad
  /\ pc' = [c \in Caller |-> "idle"]
  /\ got' = [c \in Caller |-> NoKeys]
  /\ startup' = TRUE /\ failedAt' = 0 /\ lastBegan' = 0
  /\ UNCHANGED <<now, disk, kidOf, changedAt>>

Crash == process # "down" /\ Down
-----------------------------------------------------------------------------
(* load: the files in order, the signing key first. *)

KidTaken(f) == \E g \in 1..(f - 1) : kidOf[g] = kidOf[f]

\* The signing file must hold the private half; a published one may.
Loadable(f) ==
  /\ kidOf[f] # NoKid /\ ~KidTaken(f)
  /\ disk[f] # Broken
  /\ f = 1 => disk[f].half = "private"

BeginLoad ==
  /\ reading' = 1 /\ partial' = NoKeys /\ began' = now

ReadFile ==
  /\ reading \in File /\ Loadable(reading)
  /\ partial' = [partial EXCEPT ![reading] = disk[reading].key]
  /\ reading' = reading + 1
  /\ UNCHANGED <<now, disk, provider, mu, began, pc, got, history>>

LoadFails == reading \in File /\ ~Loadable(reading)
LoadSucceeds == reading = FileCount + 1
-----------------------------------------------------------------------------
(* NewFileKeyProvider. *)

Start ==
  /\ process = "down"
  /\ process' = "starting"
  /\ BeginLoad
  /\ UNCHANGED <<now, disk, kidOf, keys, loadedAt, mu, pc, got, history>>

StartFails == process = "starting" /\ LoadFails /\ Down

\* The constructor stamps its load with a later reading of the clock.
StartSucceeds ==
  /\ process = "starting" /\ LoadSucceeds
  /\ process' = "up"
  /\ keys' = partial /\ loadedAt' = now
  /\ NoLoad
  /\ startup' = TRUE /\ lastBegan' = now
  /\ UNCHANGED <<now, disk, kidOf, pc, got, changedAt, failedAt>>
-----------------------------------------------------------------------------
(* Current, for signing or for the JWKS. *)

Call(c) ==
  /\ process = "up" /\ pc[c] = "idle"
  /\ pc' = [pc EXCEPT ![c] = "called"]
  /\ got' = [got EXCEPT ![c] = NoKeys]
  /\ UNCHANGED <<now, disk, provider, loading, history>>

\* MUTANT of Due: the interval is over one tick late
DueLate == now - loadedAt > RefreshInterval

Due == now - loadedAt >= RefreshInterval

MayEnter(c) == pc[c] = "called" /\ mu = NoCaller

Give(c, keySet) ==
  /\ pc' = [pc EXCEPT ![c] = "idle"]
  /\ got' = [got EXCEPT ![c] = keySet]

Serve(c) ==
  /\ MayEnter(c) /\ ~Due
  /\ Give(c, keys)
  /\ UNCHANGED <<now, disk, provider, loading, history>>

Reload(c) ==
  /\ MayEnter(c) /\ Due
  /\ mu' = c /\ BeginLoad
  /\ pc' = [pc EXCEPT ![c] = "loading"]
  /\ lastBegan' = now
  /\ UNCHANGED <<now, disk, provider, got, changedAt, startup, failedAt>>

\* MUTANT of ReloadSucceeds: the call is answered with the keys it found
AnswerBeforeInstalling(c) ==
  /\ pc[c] = "loading" /\ LoadSucceeds
  /\ keys' = partial /\ loadedAt' = began
  /\ Give(c, keys)
  /\ NoLoad
  /\ startup' = FALSE
  /\ UNCHANGED <<now, disk, kidOf, process, changedAt, failedAt, lastBegan>>

ReloadSucceeds(c) ==
  /\ pc[c] = "loading" /\ LoadSucceeds
  /\ keys' = partial /\ loadedAt' = began
  /\ Give(c, partial)
  /\ NoLoad
  /\ startup' = FALSE
  /\ UNCHANGED <<now, disk, kidOf, process, changedAt, failedAt, lastBegan>>

\* MUTANT of KeepLastGood: the keys read before the failure are installed
InstallPartial(c) ==
  /\ keys' = [f \in File |-> partial[f]]
  /\ loadedAt' = began
  /\ Give(c, keys)

\* MUTANT of KeepLastGood: a failure does not postpone the next attempt
RetryAtOnce(c) ==
  /\ Give(c, keys)
  /\ UNCHANGED <<keys, loadedAt>>

\* The last good keys stay in force, for another interval.
KeepLastGood(c) ==
  /\ loadedAt' = began
  /\ Give(c, keys)
  /\ UNCHANGED keys

\* MUTANT of ReloadFails: the mutex is kept on the way out of a failure
HoldAfterFailure(c) ==
  /\ pc[c] = "loading" /\ LoadFails
  /\ KeepLastGood(c)
  /\ reading' = 0 /\ partial' = NoKeys /\ began' = 0
  /\ failedAt' = began
  /\ UNCHANGED <<now, disk, kidOf, process, changedAt, startup, lastBegan, mu>>

ReloadFails(c) ==
  /\ pc[c] = "loading" /\ LoadFails
  /\ KeepLastGood(c)
  /\ NoLoad
  /\ failedAt' = began
  /\ UNCHANGED <<now, disk, kidOf, process, changedAt, startup, lastBegan>>
-----------------------------------------------------------------------------
Next ==
  \/ Tick
  \/ \E d \in Disks : ChangeFiles(d)
  \/ Crash
  \/ Start \/ StartFails \/ StartSucceeds \/ ReadFile
  \/ \E c \in Caller :
       Call(c) \/ Serve(c) \/ Reload(c) \/ ReloadSucceeds(c) \/ ReloadFails(c)

Spec == Init /\ [][Next]_vars

\* the next step of the load under way, whatever the file read then holds
LoadStep ==
  \/ ReadFile \/ StartFails \/ StartSucceeds
  \/ \E c \in Caller : ReloadSucceeds(c) \/ ReloadFails(c)

\* Reading a file takes finite time, and a sync.Mutex that is free again and
\* again goes to each waiter in the end.  Nothing makes the process crash, be
\* started or be called, nor the files change.
Fairness ==
  /\ WF_vars(LoadStep)
  /\ \A c \in Caller : SF_vars(Serve(c) \/ Reload(c))

FairSpec == Spec /\ Fairness
-----------------------------------------------------------------------------
(* Properties. *)

\* What the files hold, when every one of them can be loaded.
OnDisk(keySet) == \A f \in File : Loadable(f) /\ keySet[f] = disk[f].key

\* A call is given what the files hold, if they have not changed for a refresh
\* interval at the moment it looks at the keys (for the constructor's keys, for
\* an interval and its load), or a load has failed within that interval.  So
\* half of a rotation read by one load heals within one interval of its end.
CurrentFollowsDisk ==
  [][\A c \in Caller :
       pc[c] # "idle" /\ pc'[c] = "idle" /\ process' = "up" =>
         LET at == IF pc[c] = "loading" THEN began ELSE now
         IN  \/ OnDisk(got'[c])
             \/ at - changedAt < RefreshInterval + (IF startup THEN LoadTime ELSE 0)
             \/ failedAt' # 0 /\ at - failedAt' < RefreshInterval]_vars

\* The files are read at most once an interval, broken or not.
LoadsAnIntervalApart ==
  [][\A c \in Caller :
       pc[c] = "called" /\ pc'[c] = "loading" => now - lastBegan >= RefreshInterval]_vars

\* Every call for the keys returns, whatever the files hold, though it waits for
\* the mutex behind the loads of others; and every start ends, in a provider
\* that is up or in an error.
EveryCurrentReturns ==
  /\ \A c \in Caller : pc[c] # "idle" ~> pc[c] = "idle"
  /\ process = "starting" ~> process # "starting"

\* Outside a provider that is up there are no keys, calls or answers, and a load
\* only in the constructor.
ProcessInv ==
  /\ process # "up" =>
       /\ keys = NoKeys /\ loadedAt = 0 /\ mu = NoCaller
       /\ pc = [c \in Caller |-> "idle"] /\ got = [c \in Caller |-> NoKeys]
  /\ process = "down" => reading = 0
  /\ process = "starting" => reading # 0

\* The mutex belongs to the one call that loads, a load is under way as long as it
\* is held, and it began when it was due.
LockInv ==
  /\ \A c \in Caller : pc[c] = "loading" <=> mu = c
  /\ process = "up" =>
       /\ mu # NoCaller <=> reading # 0
       /\ mu # NoCaller => began >= loadedAt + RefreshInterval /\ lastBegan = began
       /\ mu = NoCaller => lastBegan = loadedAt

\* What a load has read so far are keys, one for each file before the next.
PartialInv ==
  reading # 0 => began <= now /\ \A f \in 1..(reading - 1) : partial[f] \in Key

\* What has been loaded, or read so far, is still what the files hold, or they have
\* changed since it was read, or a later load has failed.
FollowInv ==
  /\ now >= Epoch /\ loadedAt <= now
  /\ reading # 0 =>
       /\ now <= began + LoadTime
       /\ \/ \A f \in 1..(reading - 1) : Loadable(f) /\ partial[f] = disk[f].key
          \/ changedAt >= began
  /\ process = "up" =>
       \/ OnDisk(keys)
       \/ changedAt + (IF startup THEN LoadTime ELSE 0) >= loadedAt
       \/ failedAt # 0 /\ failedAt >= loadedAt

\* What a provider is between any two steps: the set in force is whole, and the
\* one being loaded belongs to the holder of the mutex until it is.
IInv == TypeOK /\ ProcessInv /\ LockInv /\ PartialInv /\ FollowInv

Store == INSTANCE KeyStore WITH
  standing <- keys, triedAt <- loadedAt, waiting <- {c \in Caller : pc[c] # "idle"}

\* Whatever interleaves with a load, and however it ends, the provider is a
\* KeyStore: one whole key set is in force while it is up, a call is given the set
\* in force when it returns, and only a call due for it replaces the set.
KeysReplacedWhole == Store!Spec
=============================================================================
