------------------------ MODULE FileKeyProviderProofs ------------------------
(***************************************************************************)
(* Proofs about FileKeyProvider, for any number of callers and files and   *)
(* every choice of the durations: IInv is inductive, the provider          *)
(* implements KeyStore, and the keys it gives follow the files.            *)
(***************************************************************************)
EXTENDS FileKeyProvider, TLAPS

\* The durations and the number of files are natural numbers.
LEMMA Numbers ==
  /\ FileCount \in Nat \ {0} /\ RefreshInterval \in Nat \ {0}
  /\ LoadTime \in Nat /\ Epoch \in Nat /\ Epoch >= RefreshInterval + LoadTime
  /\ File = 1..FileCount /\ 1 \in File
  BY ProviderAssumption DEF File

\* The files hold contents, whichever of the possible disks they are.
LEMMA DiskContents == \A d \in Disks : d \in [File -> Content]
  BY ProviderAssumption

\* No key set is the absence of keys.
LEMMA KeySetIsOpen == \A keySet \in KeySet : keySet # NoKeys
  BY ProviderAssumption, Numbers DEF KeySet, NoKeys

\* A file that can be loaded holds a key.
LEMMA LoadableHoldsKey ==
  ASSUME TypeOK, NEW f \in File, Loadable(f)
  PROVE  disk[f].key \in Key
  BY DEF TypeOK, Loadable, Content

\* A load that has read every file has a whole key set.
LEMMA LoadedIsKeySet ==
  ASSUME IInv, LoadSucceeds
  PROVE  /\ partial \in KeySet
         /\ began <= now /\ now <= began + LoadTime
         /\ OnDisk(partial) \/ changedAt >= began
<1>1. reading = FileCount + 1 /\ reading # 0 /\ File = 1..(reading - 1)
  BY Numbers DEF LoadSucceeds
<1>2. \A f \in File : partial[f] \in Key
  BY <1>1 DEF IInv, PartialInv
<1>3. partial \in KeySet
  BY <1>2 DEF IInv, TypeOK, KeySet
<1> QED
  BY <1>1, <1>3 DEF IInv, PartialInv, FollowInv, OnDisk
-----------------------------------------------------------------------------
(* IInv is inductive. *)

\* The provider starts in a state of the invariant.
LEMMA InitIInv == Init => IInv
<1> SUFFICES ASSUME Init PROVE IInv
  OBVIOUS
<1>1. TypeOK
  <2>1. disk \in [File -> Content]
    BY DiskContents DEF Init
  <2>2. NoKeys \in [File -> Key \cup {NoKey}]
    BY DEF NoKeys
  <2> QED
    BY <2>1, <2>2, Numbers DEF Init, TypeOK
<1>2. ProcessInv
  BY DEF Init, ProcessInv
<1>3. LockInv
  BY ProviderAssumption DEF Init, LockInv
<1>4. PartialInv /\ FollowInv
  BY Numbers DEF Init, PartialInv, FollowInv
<1> QED
  BY <1>1, <1>2, <1>3, <1>4 DEF IInv

\* Time keeps the invariant: a load under way holds it back.
LEMMA TickIInv == ASSUME IInv, Tick PROVE IInv'
<1> USE Numbers DEF Tick, IInv, provider, loading, history
<1>1. TypeOK'
  BY DEF TypeOK
<1>2. ProcessInv' /\ LockInv'
  BY DEF ProcessInv, LockInv
<1>3. PartialInv'
  BY DEF PartialInv, TypeOK
<1>4. FollowInv'
  <2>1. \A f \in File : Loadable(f)' <=> Loadable(f)
    BY DEF Loadable, KidTaken
  <2>2. \A f : Loadable(f)' <=> Loadable(f)
    BY DEF Loadable, KidTaken
  <2>3. OnDisk(keys)' <=> OnDisk(keys)
    BY <2>1 DEF OnDisk
  <2>4. now \in Nat /\ began \in Nat /\ loadedAt \in Nat
    BY DEF TypeOK
  <2>5. now' >= Epoch /\ loadedAt' <= now'
    BY <2>4 DEF FollowInv
  <2>6. reading' # 0 =>
          /\ now' <= began' + LoadTime
          /\ \/ \A f \in 1..(reading' - 1) : Loadable(f)' /\ partial'[f] = disk'[f].key
             \/ changedAt' >= began'
    BY <2>2, <2>4 DEF FollowInv
  <2> QED
    BY <2>3, <2>5, <2>6 DEF FollowInv
<1> QED
  BY <1>1, <1>2, <1>3, <1>4

\* So do the files, whatever they become: they have changed now.
LEMMA ChangeFilesIInv == ASSUME IInv, NEW d \in Disks, ChangeFiles(d) PROVE IInv'
<1> USE Numbers DEF ChangeFiles, IInv, provider, loading
<1>1. TypeOK'
  BY DiskContents DEF TypeOK
<1>2. ProcessInv' /\ LockInv'
  BY DEF ProcessInv, LockInv
<1>3. PartialInv'
  BY DEF PartialInv
<1>4. FollowInv'
  BY DEF FollowInv, PartialInv, TypeOK
<1> QED
  BY <1>1, <1>2, <1>3, <1>4

\* A process that ends leaves nothing.
LEMMA DownIInv == ASSUME IInv, Down PROVE IInv'
<1> USE Numbers DEF Down, NoLoad, IInv
<1>1. TypeOK'
  <2>1. NoKeys \in [File -> Key \cup {NoKey}]
    BY DEF NoKeys
  <2> QED
    BY <2>1 DEF TypeOK
<1>2. ProcessInv'
  BY DEF ProcessInv
<1>3. LockInv'
  BY ProviderAssumption DEF LockInv
<1>4. PartialInv' /\ FollowInv'
  BY DEF PartialInv, FollowInv, TypeOK
<1> QED
  BY <1>1, <1>2, <1>3, <1>4

\* A start begins a load that no call has asked for.
LEMMA StartIInv == ASSUME IInv, Start PROVE IInv'
<1> USE Numbers DEF Start, BeginLoad, IInv, history
<1>1. TypeOK'
  <2>1. NoKeys \in [File -> Key \cup {NoKey}]
    BY DEF NoKeys
  <2> QED
    BY <2>1 DEF TypeOK
<1>2. ProcessInv' /\ LockInv'
  BY DEF ProcessInv, LockInv
<1>3. PartialInv' /\ FollowInv'
  BY DEF PartialInv, FollowInv, TypeOK
<1> QED
  BY <1>1, <1>2, <1>3

\* A read adds the key of the file that is read, and of no other.
LEMMA ReadFileIInv == ASSUME IInv, ReadFile PROVE IInv'
<1> USE Numbers DEF ReadFile, IInv, provider, history
<1>1. disk[reading].key \in Key
  BY LoadableHoldsKey
<1>2. TypeOK'
  BY <1>1 DEF TypeOK
<1>3. ProcessInv' /\ LockInv'
  BY DEF ProcessInv, LockInv
<1>4. \A f \in 1..(reading' - 1) :
        \/ f = reading /\ partial'[f] = disk[f].key
        \/ f \in 1..(reading - 1) /\ partial'[f] = partial[f]
  BY DEF TypeOK
<1>5. PartialInv'
  BY <1>1, <1>4 DEF PartialInv, TypeOK
<1>6. FollowInv'
  <2>1. \A f : Loadable(f)' <=> Loadable(f)
    BY DEF Loadable, KidTaken
  <2>2. OnDisk(keys)' <=> OnDisk(keys)
    BY <2>1 DEF OnDisk
  <2> QED
    BY <1>4, <2>1, <2>2 DEF FollowInv, TypeOK
<1> QED
  BY <1>2, <1>3, <1>5, <1>6

\* The constructor's load becomes the key set in force.
LEMMA StartSucceedsIInv == ASSUME IInv, StartSucceeds PROVE IInv'
<1> USE Numbers DEF StartSucceeds, NoLoad, IInv
<1>1. /\ partial \in KeySet /\ began <= now /\ now <= began + LoadTime
      /\ OnDisk(partial) \/ changedAt >= began
  BY LoadedIsKeySet
<1>2. TypeOK'
  <2>1. NoKeys \in [File -> Key \cup {NoKey}]
    BY DEF NoKeys
  <2> QED
    BY <1>1, <2>1 DEF TypeOK
<1>3. ProcessInv' /\ LockInv'
  BY DEF ProcessInv, LockInv
<1>4. PartialInv'
  BY DEF PartialInv
<1>5. FollowInv'
  <2>1. OnDisk(keys)' <=> OnDisk(partial)
    BY DEF OnDisk, Loadable, KidTaken
  <2> QED
    BY <1>1, <2>1 DEF FollowInv, TypeOK
<1> QED
  BY <1>2, <1>3, <1>4, <1>5

\* A call comes in, and nothing else changes.
LEMMA CallIInv == ASSUME IInv, NEW c \in Caller, Call(c) PROVE IInv'
<1> USE Numbers DEF Call, IInv, provider, loading, history
<1>1. TypeOK'
  BY DEF TypeOK
<1>2. ProcessInv' /\ LockInv'
  BY DEF ProcessInv, LockInv, TypeOK
<1>3. PartialInv' /\ FollowInv'
  <2>1. \A f : Loadable(f)' <=> Loadable(f)
    BY DEF Loadable, KidTaken
  <2>2. OnDisk(keys)' <=> OnDisk(keys)
    BY <2>1 DEF OnDisk
  <2> QED
    BY <2>1, <2>2 DEF PartialInv, FollowInv
<1> QED
  BY <1>1, <1>2, <1>3

\* A call is given the set in force.
LEMMA ServeIInv == ASSUME IInv, NEW c \in Caller, Serve(c) PROVE IInv'
<1> USE Numbers DEF Serve, MayEnter, Give, IInv, provider, loading, history
<1>1. TypeOK'
  BY DEF TypeOK
<1>2. ProcessInv' /\ LockInv'
  BY DEF ProcessInv, LockInv, TypeOK
<1>3. PartialInv' /\ FollowInv'
  <2>1. \A f : Loadable(f)' <=> Loadable(f)
    BY DEF Loadable, KidTaken
  <2>2. OnDisk(keys)' <=> OnDisk(keys)
    BY <2>1 DEF OnDisk
  <2> QED
    BY <2>1, <2>2 DEF PartialInv, FollowInv
<1> QED
  BY <1>1, <1>2, <1>3

\* A call that finds the keys due takes the mutex and begins to load.
LEMMA ReloadIInv == ASSUME IInv, NEW c \in Caller, Reload(c) PROVE IInv'
<1> USE Numbers DEF Reload, MayEnter, Due, BeginLoad, IInv, provider
<1>1. process = "up" /\ mu = NoCaller /\ c # NoCaller /\ mu' = c
  BY ProviderAssumption DEF ProcessInv, TypeOK
<1>2. TypeOK'
  <2>1. NoKeys \in [File -> Key \cup {NoKey}]
    BY DEF NoKeys
  <2> QED
    BY <2>1 DEF TypeOK
<1>3. ProcessInv'
  BY <1>1 DEF ProcessInv
<1>4. LockInv'
  <2>1. \A d \in Caller : pc'[d] = "loading" <=> mu' = d
    BY <1>1, ProviderAssumption DEF LockInv, TypeOK
  <2>2. now \in Nat /\ loadedAt \in Nat /\ now - loadedAt >= RefreshInterval
    BY DEF TypeOK
  <2> QED
    BY <1>1, <2>1, <2>2 DEF LockInv
<1>5. PartialInv' /\ FollowInv'
  <2>1. OnDisk(keys)' <=> OnDisk(keys)
    BY DEF OnDisk, Loadable, KidTaken
  <2> QED
    BY <2>1 DEF PartialInv, FollowInv, TypeOK
<1> QED
  BY <1>2, <1>3, <1>4, <1>5

\* The set it has loaded is put in force whole.
LEMMA ReloadSucceedsIInv == ASSUME IInv, NEW c \in Caller, ReloadSucceeds(c) PROVE IInv'
<1> USE Numbers DEF ReloadSucceeds, Give, NoLoad, IInv
<1>1. process = "up" /\ mu = c /\ c # NoCaller
  BY ProviderAssumption DEF ProcessInv, LockInv
<1>2. /\ partial \in KeySet /\ began <= now
      /\ OnDisk(partial) \/ changedAt >= began
  BY LoadedIsKeySet
<1>3. TypeOK'
  <2>1. NoKeys \in [File -> Key \cup {NoKey}]
    BY DEF NoKeys
  <2>2. got' \in [Caller -> KeySet \cup {NoKeys}]
    BY <1>2 DEF TypeOK
  <2>3. pc' \in [Caller -> {"idle", "called", "loading"}]
    BY DEF TypeOK
  <2>4. {now, loadedAt, began, changedAt, failedAt, lastBegan}' \subseteq Nat
    BY DEF TypeOK
  <2>5. keys' \in KeySet /\ mu' \in Caller \cup {NoCaller} /\ reading' \in 0..(FileCount + 1)
    BY <1>2
  <2>6. partial' \in [File -> Key \cup {NoKey}] /\ startup' \in BOOLEAN
    BY <2>1
  <2> QED
    BY <2>2, <2>3, <2>4, <2>5, <2>6 DEF TypeOK
<1>4. ProcessInv'
  BY <1>1 DEF ProcessInv
<1>5. LockInv'
  BY <1>1, ProviderAssumption DEF LockInv, TypeOK
<1>6. PartialInv' /\ FollowInv'
  <2>1. OnDisk(keys)' <=> OnDisk(partial)
    BY DEF OnDisk, Loadable, KidTaken
  <2> QED
    BY <1>2, <2>1 DEF PartialInv, FollowInv, TypeOK
<1> QED
  BY <1>3, <1>4, <1>5, <1>6

\* A load that fails leaves the set in force, and its failure on record.
LEMMA ReloadFailsIInv == ASSUME IInv, NEW c \in Caller, ReloadFails(c) PROVE IInv'
<1> USE Numbers DEF ReloadFails, KeepLastGood, Give, NoLoad, IInv
<1>1. process = "up" /\ mu = c /\ c # NoCaller
  BY ProviderAssumption DEF ProcessInv, LockInv
<1>2. TypeOK'
  <2>1. NoKeys \in [File -> Key \cup {NoKey}]
    BY DEF NoKeys
  <2> QED
    BY <1>1, <2>1 DEF TypeOK
<1>3. ProcessInv'
  BY <1>1 DEF ProcessInv
<1>4. LockInv'
  BY <1>1, ProviderAssumption DEF LockInv, TypeOK
<1>5. reading # 0 /\ began <= now /\ now <= began + LoadTime /\ began # 0
  BY DEF LoadFails, File, FollowInv, PartialInv, TypeOK
<1>6. PartialInv' /\ FollowInv'
  BY <1>5 DEF PartialInv, FollowInv, TypeOK
<1> QED
  BY <1>2, <1>3, <1>4, <1>6

\* Every step keeps the invariant.
LEMMA NextIInv == ASSUME IInv, [Next]_vars PROVE IInv'
<1>1. CASE Tick
  BY <1>1, TickIInv
<1>2. ASSUME NEW d \in Disks, ChangeFiles(d) PROVE IInv'
  BY <1>2, ChangeFilesIInv
<1>3. CASE Crash \/ StartFails
  BY <1>3, DownIInv DEF Crash, StartFails
<1>4. CASE Start
  BY <1>4, StartIInv
<1>5. CASE StartSucceeds
  BY <1>5, StartSucceedsIInv
<1>6. CASE ReadFile
  BY <1>6, ReadFileIInv
<1>7. ASSUME NEW c \in Caller, Call(c) \/ Serve(c) \/ Reload(c) PROVE IInv'
  BY <1>7, CallIInv, ServeIInv, ReloadIInv
<1>8. ASSUME NEW c \in Caller, ReloadSucceeds(c) \/ ReloadFails(c) PROVE IInv'
  BY <1>8, ReloadSucceedsIInv, ReloadFailsIInv
<1>9. CASE UNCHANGED vars
  <2> USE <1>9 DEF vars, provider, loading, history
  <2>1. TypeOK' /\ ProcessInv' /\ LockInv' /\ PartialInv'
    BY DEF IInv, TypeOK, ProcessInv, LockInv, PartialInv
  <2>2. \A f : Loadable(f)' <=> Loadable(f)
    BY DEF Loadable, KidTaken
  <2>3. OnDisk(keys)' <=> OnDisk(keys)
    BY <2>2 DEF OnDisk
  <2>4. FollowInv'
    BY <2>2, <2>3 DEF IInv, FollowInv
  <2> QED
    BY <2>1, <2>4 DEF IInv
<1> QED
  BY <1>1, <1>2, <1>3, <1>4, <1>5, <1>6, <1>7, <1>8, <1>9 DEF Next

\* Between any two steps a provider that is up has one whole key set in force, and
\* a set being loaded belongs to the holder of the mutex (FileKeyProvider, load).
THEOREM ProviderConsistent == Spec => []IInv
<1>1. Init => IInv
  BY InitIInv
<1>2. IInv /\ [Next]_vars => IInv'
  BY NextIInv
<1> QED
  BY <1>1, <1>2, PTL DEF Spec

\* The variables keep their types (NewFileKeyProvider, Current): a provider that is
\* up has a key for every configured file.
THEOREM ProviderTypeOK == Spec => []TypeOK
<1>1. IInv => TypeOK
  BY DEF IInv
<1> QED
  BY <1>1, ProviderConsistent, PTL
-----------------------------------------------------------------------------
(* The provider implements KeyStore. *)

\* The provider starts as a store that is not open.
LEMMA InitStore == Init => Store!Init
<1> SUFFICES ASSUME Init PROVE Store!Init
  OBVIOUS
<1>1. {c \in Caller : pc[c] # "idle"} = {}
  BY DEF Init
<1> QED
  BY <1>1 DEF Init, Store!Init, Store!NoKeys, NoKeys

\* A call that returns with the set in force is answered by the store.
LEMMA GiveAnswers ==
  ASSUME IInv, NEW c \in Caller, pc[c] # "idle", Give(c, keys'), now' = now
  PROVE  Store!Answer(c)
<1>1. {d \in Caller : pc'[d] # "idle"} = {d \in Caller : pc[d] # "idle"} \ {c}
  BY DEF Give, IInv, TypeOK
<1> QED
  BY <1>1 DEF Give, Store!Answer

\* Every step of the provider is a step of the store, or changes nothing of it.
LEMMA NextStore == ASSUME IInv, [Next]_vars PROVE [Store!Next]_(Store!vars)
<1> USE DEF IInv
<1>1. Store!KeySet = KeySet /\ Store!NoKeys = NoKeys
  BY DEF Store!KeySet, Store!NoKeys, KeySet, NoKeys
<1>2. process = "up" => Store!Open
  BY <1>1, KeySetIsOpen DEF Store!Open, TypeOK
<1>3. process # "up" => keys = NoKeys /\ {c \in Caller : pc[c] # "idle"} = {}
  BY DEF ProcessInv
<1>4. CASE Tick
  BY <1>4 DEF Tick, Store!Next, Store!Tick, provider
<1>5. ASSUME NEW d \in Disks, ChangeFiles(d) PROVE UNCHANGED Store!vars
  BY <1>5 DEF ChangeFiles, Store!vars, provider
<1>6. ASSUME Down PROVE [Store!Next]_(Store!vars)
  <2>1. {c \in Caller : pc'[c] # "idle"} = {}
    BY <1>6 DEF Down
  <2>2. CASE process = "up"
    <3>1. Store!Close
      BY <1>1, <1>2, <1>6, <2>1, <2>2 DEF Down, Store!Close
    <3> QED
      BY <3>1 DEF Store!Next
  <2>3. CASE process # "up"
    BY <1>3, <1>6, <2>1, <2>3 DEF Down, ProcessInv, Store!vars
  <2> QED
    BY <2>2, <2>3
<1>7. CASE Start \/ ReadFile
  BY <1>7 DEF Start, ReadFile, Store!vars, provider
<1>8. CASE StartSucceeds
  <2>1. partial \in Store!KeySet
    BY <1>1, <1>8, LoadedIsKeySet DEF StartSucceeds
  <2>2. Store!OpenWith(partial)
    BY <1>1, <1>3, <1>8 DEF StartSucceeds, Store!OpenWith, Store!Open
  <2> QED
    BY <2>1, <2>2 DEF Store!Next
<1>9. ASSUME NEW c \in Caller, Call(c) PROVE Store!Next
  <2>1. {d \in Caller : pc'[d] # "idle"} = {d \in Caller : pc[d] # "idle"} \cup {c}
    BY <1>9 DEF Call, TypeOK
  <2>2. Store!Ask(c)
    BY <1>1, <1>2, <1>9, <2>1 DEF Call, provider, Store!Ask
  <2> QED
    BY <2>2 DEF Store!Next
<1>10. ASSUME NEW c \in Caller, Serve(c) PROVE Store!Next
  <2>1. Store!AnswerStanding(c)
    BY <1>10, GiveAnswers DEF Serve, MayEnter, Give, provider, Store!AnswerStanding
  <2> QED
    BY <2>1 DEF Store!Next
<1>11. ASSUME NEW c \in Caller, Reload(c) PROVE UNCHANGED Store!vars
  <2>1. {d \in Caller : pc'[d] # "idle"} = {d \in Caller : pc[d] # "idle"}
    BY <1>11 DEF Reload, MayEnter, TypeOK
  <2> QED
    BY <1>11, <2>1 DEF Reload, provider, Store!vars
<1>12. ASSUME NEW c \in Caller, ReloadSucceeds(c) \/ ReloadFails(c) PROVE Store!Next
  <2>1. /\ process = "up" /\ c # NoCaller /\ mu = c
        /\ began >= loadedAt + RefreshInterval /\ keys \in KeySet
    BY <1>12, ProviderAssumption
    DEF ReloadSucceeds, ReloadFails, ProcessInv, LockInv, TypeOK
  <2>2. reading # 0 /\ began <= now /\ began \in Nat /\ now \in Nat /\ loadedAt \in Nat
    BY <2>1 DEF LockInv, PartialInv, TypeOK
  <2>3. began \in loadedAt + RefreshInterval .. now
    BY <2>1, <2>2, Numbers
  <2>4. keys' \in Store!KeySet
    BY <1>1, <1>12, <2>1, LoadedIsKeySet DEF ReloadSucceeds, ReloadFails, KeepLastGood
  <2>5. Store!Answer(c)
    BY <1>12, GiveAnswers DEF ReloadSucceeds, ReloadFails, KeepLastGood
  <2>6. Store!AnswerRenewed(c, keys')
    BY <1>12, <2>3, <2>5 DEF ReloadSucceeds, ReloadFails, KeepLastGood, Store!AnswerRenewed
  <2> QED
    BY <2>4, <2>6 DEF Store!Next
<1>13. CASE UNCHANGED vars
  BY <1>13 DEF vars, provider, Store!vars
<1> QED
  BY <1>4, <1>5, <1>6, <1>7, <1>8, <1>9, <1>10, <1>11, <1>12, <1>13
  DEF Next, Crash, StartFails

\* Whatever interleaves with a load, and however it ends, FileKeyProvider is the
\* KeyProvider the issuer relies on.
THEOREM ProviderImplementsStore == Spec => KeysReplacedWhole
<1>1. Init => Store!Init
  BY InitStore
<1>2. IInv /\ [Next]_vars => [Store!Next]_(Store!vars)
  BY NextStore
<1> QED
  BY <1>1, <1>2, ProviderConsistent, PTL DEF Spec, KeysReplacedWhole, Store!Spec
-----------------------------------------------------------------------------
(* What the keys are, and how often the files are read. *)

\* Only Reload takes a call from waiting to loading, and only when it is due.
LEMMA LoadIsDue ==
  ASSUME IInv, [Next]_vars, NEW c \in Caller, pc[c] = "called", pc'[c] = "loading"
  PROVE  now - lastBegan >= RefreshInterval
<1> USE DEF IInv
<1>1. Reload(c)
  <2>1. pc' # pc
    OBVIOUS
  <2>2. ~Down
    BY DEF Down
  <2>3. ASSUME NEW d \in Caller, Call(d) \/ Serve(d) \/ ReloadSucceeds(d) \/ ReloadFails(d)
        PROVE  FALSE
    BY <2>3 DEF Call, Serve, ReloadSucceeds, ReloadFails, KeepLastGood, Give, TypeOK
  <2>4. ASSUME NEW d \in Caller, d # c, Reload(d) PROVE FALSE
    BY <2>4 DEF Reload, TypeOK
  <2> QED
    BY <2>1, <2>2, <2>3, <2>4
    DEF Next, vars, Tick, ChangeFiles, Crash, Start, StartFails, StartSucceeds, ReadFile
<1>2. process = "up" /\ mu = NoCaller /\ Due
  BY <1>1 DEF Reload, MayEnter, ProcessInv, TypeOK
<1> QED
  BY <1>2 DEF Due, LockInv

\* The files are read at most once an interval, broken or not (Current).
THEOREM ProviderLoadsAnIntervalApart == Spec => LoadsAnIntervalApart
<1>1. IInv /\ [Next]_vars =>
        [\A c \in Caller :
           pc[c] = "called" /\ pc'[c] = "loading" => now - lastBegan >= RefreshInterval]_vars
  BY LoadIsDue
<1> QED
  BY <1>1, ProviderConsistent, PTL DEF Spec, LoadsAnIntervalApart

\* What CurrentFollowsDisk promises of a call that returns.
Follows(c) ==
  LET at == IF pc[c] = "loading" THEN began ELSE now
  IN  \/ OnDisk(got'[c])
      \/ at - changedAt < RefreshInterval + (IF startup THEN LoadTime ELSE 0)
      \/ failedAt' # 0 /\ at - failedAt' < RefreshInterval

\* A call served without a load: the keys are not due, so what has happened to the
\* files since they were loaded happened within the interval.
LEMMA ServeFollows == ASSUME IInv, NEW c \in Caller, Serve(c) PROVE Follows(c)
<1> USE Numbers DEF IInv
<1>1. pc[c] = "called" /\ got'[c] = keys /\ failedAt' = failedAt /\ process = "up"
  BY DEF Serve, MayEnter, Give, history, ProcessInv, TypeOK
<1>2. {now, loadedAt, changedAt, failedAt} \subseteq Nat /\ startup \in BOOLEAN
  BY DEF TypeOK
<1>3. now - loadedAt < RefreshInterval
  BY <1>2 DEF Serve, Due
<1> QED
  BY <1>1, <1>2, <1>3 DEF Follows, FollowInv

\* A call that loaded the files itself is given what they held, unless they have
\* changed since it began.
LEMMA ReloadFollows ==
  ASSUME IInv, NEW c \in Caller, ReloadSucceeds(c) \/ ReloadFails(c)
  PROVE  Follows(c)
<1> USE Numbers DEF IInv
<1>1. pc[c] = "loading"
  BY DEF ReloadSucceeds, ReloadFails
<1>2. {now, began, changedAt, failedAt} \subseteq Nat /\ startup \in BOOLEAN
  BY DEF TypeOK
<1>3. CASE ReloadSucceeds(c)
  <2>1. got'[c] = partial
    BY <1>3 DEF ReloadSucceeds, Give, TypeOK
  <2>2. OnDisk(partial) \/ changedAt >= began
    BY <1>3, LoadedIsKeySet DEF ReloadSucceeds
  <2> QED
    BY <1>1, <1>2, <2>1, <2>2 DEF Follows
<1>4. CASE ReloadFails(c)
  <2>1. failedAt' = began /\ began # 0
    BY <1>2, <1>4 DEF ReloadFails, LoadFails, File, FollowInv
  <2> QED
    BY <1>1, <1>2, <2>1 DEF Follows
<1> QED
  BY <1>3, <1>4

\* Those are the ways a call returns.
LEMMA ReturnFollows ==
  ASSUME IInv, [Next]_vars, NEW c \in Caller,
         pc[c] # "idle", pc'[c] = "idle", process' = "up"
  PROVE  Follows(c)
<1> USE DEF IInv
<1>1. pc' # pc /\ ~Down
  BY DEF Down
<1>2. ASSUME NEW d \in Caller, Call(d) \/ Reload(d) PROVE FALSE
  BY <1>2 DEF Call, Reload, TypeOK
<1>3. ASSUME NEW d \in Caller, Serve(d) \/ ReloadSucceeds(d) \/ ReloadFails(d) PROVE d = c
  BY <1>3 DEF Serve, ReloadSucceeds, ReloadFails, KeepLastGood, Give, TypeOK
<1>4. Serve(c) \/ ReloadSucceeds(c) \/ ReloadFails(c)
  BY <1>1, <1>2, <1>3
  DEF Next, vars, Tick, ChangeFiles, Crash, Start, StartFails, StartSucceeds, ReadFile
<1> QED
  BY <1>4, ServeFollows, ReloadFollows

\* A call is given what the files hold, unless they changed within the interval or a
\* load failed within it (Current, load).
THEOREM ProviderFollowsDisk == Spec => CurrentFollowsDisk
<1>1. IInv /\ [Next]_vars =>
        [\A c \in Caller :
           pc[c] # "idle" /\ pc'[c] = "idle" /\ process' = "up" =>
             LET at == IF pc[c] = "loading" THEN began ELSE now
             IN  \/ OnDisk(got'[c])
                 \/ at - changedAt < RefreshInterval + (IF startup THEN LoadTime ELSE 0)
                 \/ failedAt' # 0 /\ at - failedAt' < RefreshInterval]_vars
  BY ReturnFollows DEF Follows
<1> QED
  BY <1>1, ProviderConsistent, PTL DEF Spec, CurrentFollowsDisk
=============================================================================
