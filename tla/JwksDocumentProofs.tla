------------------------- MODULE JwksDocumentProofs -------------------------
(***************************************************************************)
(* Proofs about JwksDocument, for any names, points, foreign entries and   *)
(* any number of entries: what a gateway publishes of a key set is what a  *)
(* cache reads back, and a document is taken whole or not at all.          *)
(***************************************************************************)
EXTENDS JwksDocument, WellFoundedInduction, TLAPS

\* A nonempty set of natural numbers has a least one.
LEMMA LeastNumber ==
  ASSUME NEW T, T \subseteq Nat, T # {}
  PROVE  \E x \in T : \A y \in T : x <= y
<1> DEFINE Less == {ss \in Nat \X Nat : ss[1] < ss[2]}
<1>1. IsWellFoundedOn(Less, Nat)
  BY NatLessThanWellFounded DEF OpToRel
<1> HIDE DEF Less
<1>2. PICK x \in T : \A y \in T : ~(<<y, x>> \in Less)
  BY <1>1, WFMin
<1>3. \A y \in T : ~(y < x)
  BY <1>2 DEF Less
<1> QED
  BY <1>3

\* What holds of 0 and of a number after each that it holds of, holds of them all.
LEMMA Inductive ==
  ASSUME NEW S, 0 \in S, \A n \in Nat : n \in S => n + 1 \in S
  PROVE  Nat \subseteq S
<1> SUFFICES ASSUME Nat \ S # {} PROVE FALSE
  OBVIOUS
<1>1. PICK x \in Nat \ S : \A y \in Nat \ S : x <= y
  BY LeastNumber
<1>2. x # 0 /\ x - 1 \in Nat /\ x - 1 \in S
  BY <1>1
<1> QED
  BY <1>1, <1>2

\* N steps from a value of X to the next, and the values of a run that takes them.
IsSteps(step, N, X) == step \in [1..N -> [X -> X]]
IsRun(f, N, X, first, step) ==
  f \in [0..N -> X] /\ \A n \in 0..N : f[n] = IF n = 0 THEN first ELSE step[n][f[n - 1]]

\* Whatever the steps are, there is a run that takes them, one after the other.
LEMMA Iteration ==
  ASSUME NEW N \in Nat, NEW X, NEW first \in X, NEW step, IsSteps(step, N, X)
  PROVE  \E f : IsRun(f, N, X, first, step)
<1> USE DEF IsSteps
<1> DEFINE Steps(f, m) == \A n \in 0..m : f[n] = IF n = 0 THEN first ELSE step[n][f[n - 1]]
           S == {m \in Nat : m <= N => \E f \in [0..m -> X] : Steps(f, m)}
<1>1. 0 \in S
  <2>1. [n \in 0..0 |-> first] \in [0..0 -> X] /\ Steps([n \in 0..0 |-> first], 0)
    OBVIOUS
  <2> HIDE DEF Steps
  <2> QED
    BY <2>1
<1>2. ASSUME NEW m \in Nat, m \in S PROVE m + 1 \in S
  <2> SUFFICES ASSUME m + 1 <= N PROVE \E f \in [0..(m + 1) -> X] : Steps(f, m + 1)
    OBVIOUS
  <2>1. PICK f \in [0..m -> X] : Steps(f, m)
    BY <1>2
  <2> DEFINE g == [n \in 0..(m + 1) |-> IF n = m + 1 THEN step[m + 1][f[m]] ELSE f[n]]
  <2>2. step[m + 1][f[m]] \in X
    <3>1. m + 1 \in 1..N /\ f[m] \in X
      OBVIOUS
    <3> QED
      BY <3>1
  <2>3. g \in [0..(m + 1) -> X]
    BY <2>2
  <2>4. ASSUME NEW n \in 0..(m + 1)
        PROVE  g[n] = IF n = 0 THEN first ELSE step[n][g[n - 1]]
    <3>1. CASE n = m + 1
      <4>1. n # 0 /\ n - 1 = m /\ m \in 0..(m + 1) /\ m # m + 1
        BY <3>1
      <4> QED
        BY <3>1, <4>1
    <3>2. CASE n # m + 1
      <4>1. n \in 0..m /\ g[n] = f[n]
        BY <3>2
      <4>2. f[n] = IF n = 0 THEN first ELSE step[n][f[n - 1]]
        BY <2>1, <4>1
      <4>3. n # 0 => n - 1 \in 0..(m + 1) /\ n - 1 # m + 1
        BY <4>1
      <4> QED
        BY <4>1, <4>2, <4>3
    <3> QED
      BY <3>1, <3>2
  <2>5. Steps(g, m + 1)
    BY <2>4
  <2> HIDE DEF g, Steps
  <2> QED
    BY <2>3, <2>5
<1>3. PICK f \in [0..N -> X] : Steps(f, N)
  <2>1. N \in S
    <3> HIDE DEF S
    <3> QED
      BY <1>1, <1>2, Inductive
  <2> QED
    BY <2>1
<1> QED
  BY <1>3 DEF IsRun
-----------------------------------------------------------------------------
(* The gateway. *)

\* A key with a kid, on P-256, is described by an entry of its own.
LEMMA NewJWKIs ==
  ASSUME NEW kid \in KeyID, NEW key
  PROVE  /\ kid # Blank /\ key \in PublicKeyOf =>
              /\ NewJWK(kid, key) \in Entry /\ NewJWK(kid, key) # Error
              /\ NewJWK(kid, key).kid = kid /\ PublicKey(NewJWK(kid, key)) = key
         /\ ~(kid # Blank /\ key \in PublicKeyOf) => NewJWK(kid, key) = Error
<1>1. ASSUME kid # Blank, key \in PublicKeyOf
      PROVE  /\ NewJWK(kid, key) \in Entry /\ NewJWK(kid, key) # Error
             /\ NewJWK(kid, key).kid = kid /\ PublicKey(NewJWK(kid, key)) = key
  <2>1. NewJWK(kid, key) = [kty |-> "EC", crv |-> "P-256", kid |-> kid,
                            use |-> "sig", alg |-> "ES256", at |-> key.at]
    BY <1>1 DEF NewJWK
  <2>2. key.at \in Point /\ key = [curve |-> "P-256", at |-> key.at]
    BY <1>1 DEF PublicKeyOf
  <2>3. NewJWK(kid, key) \in Entry
    BY <2>1, <2>2 DEF Entry
  <2> QED
    BY <1>1, <2>1, <2>2, <2>3, Distinct DEF PublicKey
<1> QED
  BY <1>1 DEF NewJWK

\* The key sets a gateway may be given, and their keys in order of publication.
KeySets == [signing : NamedKey, published : Seq(NamedKey)]
NamedOf(set) == <<set.signing>> \o set.published

\* The keys of a set, one after the other.
LEMMA NamedIs ==
  ASSUME NEW set \in KeySets
  PROVE  /\ Len(set.published) \in Nat /\ NamedOf(set) \in Seq(NamedKey)
         /\ DOMAIN NamedOf(set) = 1..(Len(set.published) + 1)
         /\ NamedOf(set)[1] = set.signing
         /\ \A n \in 1..Len(set.published) : /\ set.published[n] \in NamedKey
                                             /\ NamedOf(set)[n + 1] = set.published[n]
         /\ \A i \in DOMAIN NamedOf(set) : NamedOf(set)[i] \in NamedKey
<1>1. set.signing \in NamedKey /\ set.published \in Seq(NamedKey)
  BY DEF KeySets
<1>2. NamedOf(set) \in Seq(NamedKey) /\ Len(NamedOf(set)) = Len(set.published) + 1
  BY <1>1 DEF NamedOf
<1> QED
  BY <1>1, <1>2 DEF NamedOf

\* jwks goes through the published keys one by one.
LEMMA JwksRuns ==
  ASSUME NEW set \in KeySets
  PROVE  \E f : /\ f[0] = IF NewJWK(set.signing.kid, set.signing.key) = Error THEN Error
                          ELSE <<NewJWK(set.signing.kid, set.signing.key)>>
                /\ \A n \in 1..Len(set.published) : f[n] = AndThen(f[n - 1], set.published[n])
                /\ Jwks(set) = f[Len(set.published)]
<1> DEFINE N == Len(set.published)
           X == Seq(Entry) \cup {Error}
           signing == NewJWK(set.signing.kid, set.signing.key)
           first == IF signing = Error THEN Error ELSE <<signing>>
           step == [n \in 1..N |-> [e \in X |-> AndThen(e, set.published[n])]]
           Runs(f) == f = [n \in 0..N |-> IF n = 0 THEN first
                                          ELSE AndThen(f[n - 1], set.published[n])]
<1>1. N \in Nat /\ set.signing \in NamedKey /\ \A n \in 1..N : set.published[n] \in NamedKey
  BY NamedIs DEF KeySets
<1>2. first \in X
  <2>1. signing # Error => signing \in Entry
    BY <1>1, NewJWKIs DEF NamedKey
  <2> QED
    BY <2>1
<1>3. \A e \in X, n \in 1..N : AndThen(e, set.published[n]) \in X
  <2> TAKE e \in X, n \in 1..N
  <2>1. NewJWK(set.published[n].kid, set.published[n].key) \in Entry \cup {Error}
    BY <1>1, NewJWKIs DEF NamedKey
  <2> QED
    BY <2>1 DEF AndThen, Describes
<1>4. IsSteps(step, N, X)
  BY <1>3 DEF IsSteps
<1> HIDE DEF N, X, first, step
<1>5. PICK f : IsRun(f, N, X, first, step)
  BY <1>1, <1>2, <1>4, Iteration
<1>6. ASSUME NEW n \in 0..N, n # 0
      PROVE  step[n][f[n - 1]] = AndThen(f[n - 1], set.published[n])
  <2>1. n \in 1..N /\ f[n - 1] \in X
    BY <1>1, <1>5, <1>6 DEF IsRun
  <2> QED
    BY <2>1 DEF step
<1>7. Runs(f)
  <2>1. f = [n \in 0..N |-> f[n]]
    BY <1>5 DEF IsRun
  <2> QED
    BY <1>5, <1>6, <2>1 DEF IsRun
<1>8. PICK h : Runs(h) /\ Jwks(set) = h[N]
  BY <1>7 DEF Jwks, N, first
<1>9. /\ h[0] = first /\ \A n \in 1..N : h[n] = AndThen(h[n - 1], set.published[n])
  BY <1>1, <1>8
<1> QED
  BY <1>8, <1>9 DEF N, first

\* The first n + 1 keys of a set can be described: each has a kid of its own and
\* is on P-256.
DescribableUpTo(named, n) ==
  /\ \A i \in 1..(n + 1) : named[i].kid # Blank /\ named[i].key \in PublicKeyOf
  /\ \A i, j \in 1..(n + 1) : named[i].kid = named[j].kid => i = j

\* One more key can be described when it has an entry and none of those before has
\* its kid.
LEMMA OneMoreKey ==
  ASSUME NEW set \in KeySets, NEW n \in Nat, n + 1 \in 1..Len(set.published),
         NEW p, p = set.published[n + 1]
  PROVE  DescribableUpTo(NamedOf(set), n + 1) <=>
           /\ DescribableUpTo(NamedOf(set), n)
           /\ NewJWK(p.kid, p.key) # Error
           /\ \A i \in 1..(n + 1) : NamedOf(set)[i].kid # p.kid
<1> PICK named : named = NamedOf(set)
  OBVIOUS
<1>1. named[(n + 1) + 1] = p /\ p \in NamedKey
  BY NamedIs
<1>2. NewJWK(p.kid, p.key) # Error <=> p.kid # Blank /\ p.key \in PublicKeyOf
  BY <1>1, NewJWKIs DEF NamedKey
<1>3. \A i : i \in 1..((n + 1) + 1) <=> i \in 1..(n + 1) \/ i = (n + 1) + 1
  OBVIOUS
<1>4. (n + 1) + 1 \notin 1..(n + 1)
  OBVIOUS
<1> QED
  BY <1>1, <1>2, <1>3, <1>4 DEF DescribableUpTo

\* The entries of the first n + 1 keys, and what is published of them.
EntriesOf(named, n) == [i \in 1..(n + 1) |-> NewJWK(named[i].kid, named[i].key)]
Published(named, n) == IF DescribableUpTo(named, n) THEN EntriesOf(named, n) ELSE Error

\* What a gateway publishes is the entries of its keys in order, if all of them can be
\* described, and nothing otherwise.
LEMMA JwksIs ==
  ASSUME NEW set \in KeySets
  PROVE  Jwks(set) = Published(NamedOf(set), Len(set.published))
<1> DEFINE N == Len(set.published)
           named == NamedOf(set)
           Entries(n) == EntriesOf(named, n)
<1>1. PICK f : /\ f[0] = IF NewJWK(set.signing.kid, set.signing.key) = Error THEN Error
                         ELSE <<NewJWK(set.signing.kid, set.signing.key)>>
               /\ \A n \in 1..N : f[n] = AndThen(f[n - 1], set.published[n])
               /\ Jwks(set) = f[N]
  BY JwksRuns
<1> DEFINE S == {n \in Nat : n <= N => f[n] = Published(named, n)}
<1>2. /\ N \in Nat /\ named[1] = set.signing
      /\ \A n \in 1..N : set.published[n] \in NamedKey /\ named[n + 1] = set.published[n]
      /\ \A i \in 1..(N + 1) : named[i] \in NamedKey
  BY NamedIs
<1> HIDE DEF named, N
<1>3. 0 \in S
  <2>1. set.signing \in NamedKey /\ 1 \in 1..(0 + 1) /\ \A i \in 1..(0 + 1) : i = 1
    BY DEF KeySets
  <2>2. NewJWK(set.signing.kid, set.signing.key) # Error <=>
          set.signing.kid # Blank /\ set.signing.key \in PublicKeyOf
    BY <2>1, NewJWKIs DEF NamedKey
  <2>3. DescribableUpTo(named, 0) <=> NewJWK(set.signing.kid, set.signing.key) # Error
    BY <1>2, <2>1, <2>2 DEF DescribableUpTo
  <2>4. Entries(0) = <<NewJWK(set.signing.kid, set.signing.key)>>
    BY <1>2 DEF EntriesOf
  <2> QED
    BY <1>1, <2>3, <2>4 DEF Published
<1>4. ASSUME NEW n \in Nat, n \in S PROVE n + 1 \in S
  <2> SUFFICES ASSUME n + 1 <= N
               PROVE  f[n + 1] = Published(named, n + 1)
    OBVIOUS
  <2> PICK p : p = set.published[n + 1]
    OBVIOUS
  <2>1. n + 1 \in 1..N /\ n <= N /\ (n + 1) - 1 = n
    BY <1>2
  <2>2. f[n + 1] = AndThen(f[n], p) /\ p \in NamedKey /\ named[(n + 1) + 1] = p
    BY <1>1, <1>2, <2>1
  <2>3. f[n] = IF DescribableUpTo(named, n) THEN Entries(n) ELSE Error
    BY <1>4, <2>1 DEF Published
  <2>4. DescribableUpTo(named, n + 1) <=>
          /\ DescribableUpTo(named, n)
          /\ NewJWK(p.kid, p.key) # Error
          /\ \A i \in 1..(n + 1) : named[i].kid # p.kid
    BY <2>1, OneMoreKey DEF named, N
  <2>5. CASE ~DescribableUpTo(named, n)
    BY <2>2, <2>3, <2>4, <2>5 DEF AndThen, Published
  <2>6. CASE DescribableUpTo(named, n)
    <3>1. \A i \in 1..(n + 1) : Entries(n)[i] \in Entry /\ Entries(n)[i].kid = named[i].kid
      <4> TAKE i \in 1..(n + 1)
      <4>1. named[i] \in NamedKey /\ named[i].kid # Blank /\ named[i].key \in PublicKeyOf
        BY <1>2, <2>1, <2>6 DEF DescribableUpTo
      <4> QED
        BY <4>1, NewJWKIs DEF NamedKey, EntriesOf
    <3>2. Entries(n) \in Seq(Entry) /\ Len(Entries(n)) = n + 1 /\ DOMAIN Entries(n) = 1..(n + 1)
      BY <3>1 DEF EntriesOf
    <3>3. Entries(n) # Error
      BY <3>2, Distinct
    <3>4. Describes(Entries(n), p) <=> DescribableUpTo(named, n + 1)
      BY <2>4, <2>6, <3>1, <3>2 DEF Describes
    <3>5. Append(Entries(n), NewJWK(p.kid, p.key)) = Entries(n + 1)
      BY <2>2, <3>2 DEF EntriesOf
    <3> HIDE DEF Entries
    <3> QED
      BY <2>2, <2>3, <2>6, <3>3, <3>4, <3>5, <2>4 DEF AndThen, Published, Entries
  <2> QED
    BY <2>5, <2>6
<1>5. N \in S
  <2> HIDE DEF S
  <2> QED
    BY <1>2, <1>3, <1>4, Inductive
<1> QED
  BY <1>1, <1>2, <1>5 DEF named, N
-----------------------------------------------------------------------------
(* The service. *)

\* The maps a cache may hold, and the outcomes of reading one entry more.
Maps == [KeyID -> PublicKeyOf \cup {NoKey}]

\* An entry has a key exactly when it is usable, and it is the key at its point.
LEMMA PublicKeyIs ==
  ASSUME NEW e \in Entry
  PROVE  /\ e.kid \in KeyID
         /\ Usable(e) => /\ PublicKey(e) = [curve |-> "P-256", at |-> e.at]
                         /\ PublicKey(e) \in PublicKeyOf
                         /\ PublicKey(e) # Error /\ PublicKey(e) # NoKey
                         /\ e.kid \in Name
         /\ ~Usable(e) => PublicKey(e) = Error
<1>1. e = [kty |-> e.kty, crv |-> e.crv, kid |-> e.kid, use |-> e.use, alg |-> e.alg,
           at |-> e.at] /\ e.kid \in KeyID
  BY DEF Entry
<1>2. Usable(e) <=> /\ e.kid # Blank /\ e.kty = "EC" /\ e.crv = "P-256"
                    /\ e.alg = "ES256" /\ e.use = "sig" /\ e.at \in Point
  BY <1>1, Distinct DEF Usable, KeyID
<1>3. CASE Usable(e)
  <2>1. PublicKey(e) = [curve |-> "P-256", at |-> e.at] /\ e.at \in Point
    BY <1>2, <1>3 DEF PublicKey
  <2>2. PublicKey(e) \in PublicKeyOf /\ PublicKey(e) \in EcdsaKey
    BY <2>1 DEF PublicKeyOf, EcdsaKey
  <2>3. e.kid \in Name
    BY <1>1, <1>2, <1>3 DEF KeyID
  <2> QED
    BY <1>1, <1>3, <2>1, <2>2, <2>3, Distinct
<1>4. CASE ~Usable(e)
  BY <1>1, <1>2, <1>4 DEF PublicKey
<1> QED
  BY <1>3, <1>4

\* One entry more leaves a map or an error.
LEMMA AddIsMap ==
  ASSUME NEW m \in Maps \cup {Error}, NEW e \in Entry
  PROVE  Add(m, e) \in Maps \cup {Error}
<1>1. m = Error => Add(m, e) = Error
  BY DEF Add
<1>2. ASSUME m \in Maps PROVE Add(m, e) \in Maps \cup {Error}
  <2>1. PublicKey(e) \in PublicKeyOf \cup {Error} /\ e.kid \in KeyID
    BY PublicKeyIs
  <2> QED
    BY <1>2, <2>1 DEF Add, Maps
<1> QED
  BY <1>1, <1>2

\* parseKeys goes through the entries one by one.
LEMMA ParseRuns ==
  ASSUME NEW entries \in Seq(Entry)
  PROVE  \E f : /\ f[0] = NoKeys
                /\ \A n \in 1..Len(entries) : f[n] = Add(f[n - 1], entries[n])
                /\ ParseKeys(entries) = f[Len(entries)]
<1> DEFINE N == Len(entries)
           X == Maps \cup {Error}
           first == NoKeys
           step == [n \in 1..N |-> [m \in X |-> Add(m, entries[n])]]
           Runs(f) == f = [n \in 0..N |-> IF n = 0 THEN NoKeys ELSE Add(f[n - 1], entries[n])]
<1>1. N \in Nat /\ \A n \in 1..N : entries[n] \in Entry
  OBVIOUS
<1>2. first \in X
  BY DEF NoKeys, Maps
<1>3. IsSteps(step, N, X)
  BY <1>1, AddIsMap DEF IsSteps
<1> HIDE DEF N, X, first, step
<1>4. PICK f : IsRun(f, N, X, first, step)
  BY <1>1, <1>2, <1>3, Iteration
<1>5. ASSUME NEW n \in 0..N, n # 0
      PROVE  step[n][f[n - 1]] = Add(f[n - 1], entries[n])
  <2>1. n \in 1..N /\ f[n - 1] \in X
    BY <1>1, <1>4, <1>5 DEF IsRun
  <2> QED
    BY <2>1 DEF step
<1>6. Runs(f)
  <2>1. f = [n \in 0..N |-> f[n]]
    BY <1>4 DEF IsRun
  <2> QED
    BY <1>4, <1>5, <2>1 DEF IsRun, first
<1>7. PICK h : Runs(h) /\ ParseKeys(entries) = h[N]
  BY <1>6 DEF ParseKeys, N
<1>8. /\ h[0] = NoKeys /\ \A n \in 1..N : h[n] = Add(h[n - 1], entries[n])
  BY <1>1, <1>7
<1> QED
  BY <1>7, <1>8 DEF N

\* The first n entries of a document are usable, and no two have the same kid.
UsableUpTo(entries, n) ==
  /\ \A i \in 1..n : Usable(entries[i])
  /\ \A i, j \in 1..n : entries[i].kid = entries[j].kid => i = j

\* A map has the key of each of the first n entries, and no other.
IsMapOf(m, entries, n) ==
  /\ m \in Maps
  /\ \A i \in 1..n : m[entries[i].kid] = PublicKey(entries[i])
  /\ \A k \in KeyID : m[k] # NoKey => \E i \in 1..n : entries[i].kid = k

\* What there is after n entries: their map, or an error.
IsParsed(m, entries, n) ==
  IF UsableUpTo(entries, n) THEN IsMapOf(m, entries, n) ELSE m = Error

\* Reading one entry more.
LEMMA ParsedOneMore ==
  ASSUME NEW entries \in Seq(Entry), NEW n \in Nat, n + 1 \in 1..Len(entries),
         NEW m, IsParsed(m, entries, n)
  PROVE  IsParsed(Add(m, entries[n + 1]), entries, n + 1)
<1> PICK e \in Entry : e = entries[n + 1]
  OBVIOUS
<1>1. \A i : i \in 1..(n + 1) <=> i \in 1..n \/ i = n + 1
  OBVIOUS
<1>2. n + 1 \notin 1..n /\ \A i \in 1..n : i \in 1..Len(entries) /\ entries[i] \in Entry
  OBVIOUS
<1>3. Error \notin Maps
  BY Distinct DEF Maps
<1>4. CASE ~UsableUpTo(entries, n)
  <2>1. m = Error /\ Add(m, entries[n + 1]) = Error
    BY <1>4 DEF IsParsed, Add
  <2>2. ~UsableUpTo(entries, n + 1)
    BY <1>1, <1>4 DEF UsableUpTo
  <2> QED
    BY <2>1, <2>2 DEF IsParsed
<1>5. CASE UsableUpTo(entries, n)
  <2>1. IsMapOf(m, entries, n) /\ m \in Maps /\ m # Error
    BY <1>3, <1>5 DEF IsParsed, IsMapOf
  <2>2. \A i \in 1..n : Usable(entries[i]) /\ m[entries[i].kid] # NoKey
    BY <1>2, <1>5, <2>1, PublicKeyIs DEF UsableUpTo, IsMapOf
  <2>3. m[e.kid] = NoKey <=> \A i \in 1..n : entries[i].kid # e.kid
    BY <2>1, <2>2, PublicKeyIs DEF IsMapOf
  <2>4. UsableUpTo(entries, n + 1) <=> Usable(e) /\ m[e.kid] = NoKey
    BY <1>1, <1>2, <1>5, <2>3 DEF UsableUpTo
  <2>5. CASE ~UsableUpTo(entries, n + 1)
    <3>1. Add(m, e) = Error
      BY <2>4, <2>5, PublicKeyIs DEF Add
    <3> QED
      BY <2>5, <3>1 DEF IsParsed
  <2>6. CASE UsableUpTo(entries, n + 1)
    <3>1. /\ Add(m, e) = [m EXCEPT ![e.kid] = PublicKey(e)]
          /\ PublicKey(e) \in PublicKeyOf /\ e.kid \in KeyID
      BY <2>1, <2>4, <2>6, PublicKeyIs DEF Add
    <3> PICK mm : mm = Add(m, e)
      OBVIOUS
    <3>2. mm \in Maps /\ mm[e.kid] = PublicKey(e)
      BY <2>1, <3>1 DEF Maps
    <3>3. \A k \in KeyID : k # e.kid => mm[k] = m[k]
      BY <2>1, <3>1 DEF Maps
    <3>4. \A i \in 1..(n + 1) : mm[entries[i].kid] = PublicKey(entries[i])
      <4> TAKE i \in 1..(n + 1)
      <4>1. CASE i = n + 1
        BY <3>2, <4>1
      <4>2. CASE i # n + 1
        <5>1. i \in 1..n /\ entries[i].kid # e.kid /\ entries[i].kid \in KeyID
          BY <1>1, <1>2, <2>3, <2>4, <2>6, <4>2, PublicKeyIs
        <5> QED
          BY <2>1, <3>3, <5>1 DEF IsMapOf
      <4> QED
        BY <4>1, <4>2
    <3>5. ASSUME NEW k \in KeyID, mm[k] # NoKey PROVE \E i \in 1..(n + 1) : entries[i].kid = k
      BY <1>1, <2>1, <3>3, <3>5 DEF IsMapOf
    <3> QED
      BY <2>6, <3>2, <3>4, <3>5 DEF IsParsed, IsMapOf
  <2> QED
    BY <2>5, <2>6
<1> QED
  BY <1>4, <1>5

\* A document is read as the map of its entries' keys if all of them are usable and
\* have kids of their own, and fails otherwise.
LEMMA ParseIs ==
  ASSUME NEW entries \in Seq(Entry)
  PROVE  IsParsed(ParseKeys(entries), entries, Len(entries))
<1> DEFINE N == Len(entries)
<1>1. PICK f : /\ f[0] = NoKeys
               /\ \A n \in 1..N : f[n] = Add(f[n - 1], entries[n])
               /\ ParseKeys(entries) = f[N]
  BY ParseRuns
<1> DEFINE S == {n \in Nat : n <= N => IsParsed(f[n], entries, n)}
<1>2. 0 \in S
  <2>1. NoKeys \in Maps /\ \A k \in KeyID : NoKeys[k] = NoKey
    BY DEF NoKeys, Maps
  <2> QED
    BY <1>1, <2>1 DEF IsParsed, UsableUpTo, IsMapOf
<1>3. ASSUME NEW n \in Nat, n \in S PROVE n + 1 \in S
  <2> SUFFICES ASSUME n + 1 <= N PROVE IsParsed(f[n + 1], entries, n + 1)
    OBVIOUS
  <2>1. n + 1 \in 1..N /\ n <= N /\ (n + 1) - 1 = n
    OBVIOUS
  <2>2. f[n + 1] = Add(f[n], entries[n + 1]) /\ IsParsed(f[n], entries, n)
    BY <1>1, <1>3, <2>1
  <2> QED
    BY <2>1, <2>2, ParsedOneMore
<1>4. N \in S
  <2>1. N \in Nat
    OBVIOUS
  <2> HIDE DEF S, N
  <2> QED
    BY <1>2, <1>3, <2>1, Inductive
<1> QED
  BY <1>1, <1>4
-----------------------------------------------------------------------------
(* The invariant. *)

\* The document of a key set is a sequence of entries, or an error.
LEMMA JwksType ==
  ASSUME NEW set \in KeySets
  PROVE  Jwks(set) # Error => Jwks(set) \in Seq(Entry)
<1> DEFINE N == Len(set.published)
           named == NamedOf(set)
<1>1. N \in Nat /\ \A i \in 1..(N + 1) : named[i] \in NamedKey
  BY NamedIs
<1>2. Jwks(set) = Published(named, N)
  BY JwksIs
<1> HIDE DEF N, named
<1>3. ASSUME DescribableUpTo(named, N) PROVE EntriesOf(named, N) \in Seq(Entry)
  <2>1. \A i \in 1..(N + 1) : NewJWK(named[i].kid, named[i].key) \in Entry
    BY <1>1, <1>3, NewJWKIs DEF NamedKey, DescribableUpTo
  <2> QED
    BY <1>1, <2>1 DEF EntriesOf
<1> QED
  BY <1>2, <1>3 DEF Published

\* What the cache takes from a document is a map without a blank kid.
LEMMA ParsedType ==
  ASSUME NEW entries \in Seq(Entry), ParseKeys(entries) # Error
  PROVE  /\ ParseKeys(entries) \in [KeyID -> PublicKeyOf \cup {NoKey}]
         /\ ParseKeys(entries)[Blank] = NoKey
<1> PICK m : m = ParseKeys(entries)
  OBVIOUS
<1>1. UsableUpTo(entries, Len(entries)) /\ IsMapOf(m, entries, Len(entries))
  BY ParseIs DEF IsParsed
<1>2. \A i \in 1..Len(entries) : entries[i] \in Entry
  OBVIOUS
<1>3. \A i \in 1..Len(entries) : entries[i].kid # Blank
  BY <1>1, <1>2, PublicKeyIs, Distinct DEF UsableUpTo
<1>4. m[Blank] = NoKey
  BY <1>1, <1>3 DEF IsMapOf, KeyID
<1> QED
  BY <1>1, <1>4 DEF IsMapOf, Maps

\* A gateway starts with its signing key alone.
LEMMA InitIInv == Init => IInv
<1> SUFFICES ASSUME Init PROVE IInv
  OBVIOUS
<1>1. keySet \in KeySets /\ Len(keySet.published) = 0
  BY DEF Init, KeySets
<1>2. keys \in [KeyID -> PublicKeyOf \cup {NoKey}] /\ keys[Blank] = NoKey
  BY DEF Init, NoKeys, KeyID
<1>3. document = Jwks(keySet) /\ foreign \in BOOLEAN
  BY DEF Init
<1>4. Len(keySet.published) <= MaxEntries
  BY <1>1, Distinct
<1>5. document # Error => document \in Seq(Entry)
  BY <1>1, <1>3, JwksType
<1> QED
  BY <1>1, <1>2, <1>3, <1>4, <1>5 DEF IInv, TypeOK, KeySets

\* Every step keeps it.
LEMMA StepIInv == IInv /\ [Next]_vars => IInv'
<1> SUFFICES ASSUME IInv, [Next]_vars PROVE IInv'
  OBVIOUS
<1>1. /\ keySet \in KeySets /\ Len(keySet.published) <= MaxEntries
      /\ document # Error => document \in Seq(Entry)
      /\ foreign \in BOOLEAN
      /\ keys \in [KeyID -> PublicKeyOf \cup {NoKey}] /\ keys[Blank] = NoKey
      /\ ~foreign => document = Jwks(keySet)
  BY DEF IInv, TypeOK, KeySets
<1>2. ASSUME NEW named \in NamedKey, AddPublished(named) PROVE IInv'
  <2>1. keySet' = [keySet EXCEPT !.published = Append(@, named)]
    BY <1>2 DEF AddPublished
  <2>2. keySet' \in KeySets /\ Len(keySet'.published) <= MaxEntries
    <3>1. keySet.signing \in NamedKey /\ keySet.published \in Seq(NamedKey)
      BY <1>1 DEF KeySets
    <3>2. keySet' = [signing |-> keySet.signing, published |-> Append(keySet.published, named)]
      BY <1>1, <2>1 DEF KeySets
    <3>3. Len(Append(keySet.published, named)) <= MaxEntries
      BY <1>2, <3>1, Distinct DEF AddPublished
    <3> QED
      BY <3>1, <3>2, <3>3 DEF KeySets
  <2>3. document' = Jwks(keySet') /\ foreign' = foreign /\ keys' = keys
    BY <1>2 DEF AddPublished
  <2> QED
    BY <1>1, <2>2, <2>3, JwksType DEF IInv, TypeOK, KeySets
<1>3. ASSUME NEW entry \in ForeignEntry, AddForeign(entry) PROVE IInv'
  <2>1. entry \in Entry
    BY Distinct
  <2> QED
    BY <1>1, <1>3, <2>1 DEF AddForeign, IInv, TypeOK, KeySets
<1>4. CASE Fetch
  <2>1. document \in Seq(Entry)
    BY <1>1, <1>4 DEF Fetch
  <2>2. keys' \in [KeyID -> PublicKeyOf \cup {NoKey}] /\ keys'[Blank] = NoKey
    BY <1>1, <1>4, <2>1, ParsedType DEF Fetch
  <2> QED
    BY <1>1, <1>4, <2>2 DEF Fetch, IInv, TypeOK, KeySets
<1>5. CASE UNCHANGED vars
  BY <1>1, <1>5 DEF vars, IInv, TypeOK, KeySets
<1> QED
  BY <1>2, <1>3, <1>4, <1>5 DEF Next

\* The cache never holds a key off P-256 or under a blank kid, and the gateway's own
\* document is at all times that of the key set it was given (signer.jwks).
THEOREM DocumentConsistent == Spec => []IInv
<1> QED
  BY InitIInv, StepIInv, PTL DEF Spec
-----------------------------------------------------------------------------
(* What the invariant gives. *)

\* A key set that can be described is read back whole.
LEMMA PublishedIsRead ==
  ASSUME NEW set \in KeySets, NEW named, named = NamedOf(set), NEW N, N = Len(set.published),
         DescribableUpTo(named, N)
  PROVE  /\ Jwks(set) # Error
         /\ \A k \in KeyID, key \in PublicKeyOf :
              ParseKeys(Jwks(set))[k] = key <=>
                \E i \in 1..(N + 1) : named[i] = [kid |-> k, key |-> key]
<1>1. N \in Nat /\ \A i \in 1..(N + 1) : named[i] \in NamedKey
  BY NamedIs
<1> PICK entries : entries = EntriesOf(named, N)
  OBVIOUS
<1>2. Jwks(set) = entries
  BY JwksIs DEF Published
<1>3. \A i \in 1..(N + 1) : /\ entries[i] \in Entry /\ entries[i].kid = named[i].kid
                            /\ PublicKey(entries[i]) = named[i].key
                            /\ PublicKey(entries[i]) # Error
  <2> TAKE i \in 1..(N + 1)
  <2>1. /\ named[i].kid \in KeyID /\ named[i].kid # Blank
        /\ named[i].key \in PublicKeyOf
    BY <1>1 DEF NamedKey, DescribableUpTo
  <2>2. entries[i] = NewJWK(named[i].kid, named[i].key) /\ named[i].key # Error
    BY <2>1, Distinct DEF EntriesOf, EcdsaKey
  <2> QED
    BY <2>1, <2>2, NewJWKIs
<1>4. entries \in Seq(Entry) /\ Len(entries) = N + 1
  BY <1>1, <1>3 DEF EntriesOf
<1>5. UsableUpTo(entries, N + 1)
  BY <1>3, PublicKeyIs DEF UsableUpTo, DescribableUpTo
<1>6. PICK m : m = ParseKeys(entries) /\ IsMapOf(m, entries, N + 1)
  BY <1>4, <1>5, ParseIs DEF IsParsed
<1>7. ASSUME NEW k \in KeyID, NEW key \in PublicKeyOf
      PROVE  m[k] = key <=> \E i \in 1..(N + 1) : named[i] = [kid |-> k, key |-> key]
  <2>1. ASSUME m[k] = key PROVE \E i \in 1..(N + 1) : named[i] = [kid |-> k, key |-> key]
    <3>1. m[k] # NoKey
      BY <2>1, Distinct DEF EcdsaKey
    <3>2. PICK i \in 1..(N + 1) : entries[i].kid = k
      BY <1>6, <3>1 DEF IsMapOf
    <3>3. named[i].kid = k /\ named[i].key = key
      BY <1>3, <1>6, <2>1, <3>2 DEF IsMapOf
    <3> QED
      BY <1>1, <3>3 DEF NamedKey
  <2>2. ASSUME NEW i \in 1..(N + 1), named[i] = [kid |-> k, key |-> key] PROVE m[k] = key
    BY <1>3, <1>6, <2>2 DEF IsMapOf
  <2> QED
    BY <2>1, <2>2
<1>8. Jwks(set) # Error
  BY <1>2, <1>4, Distinct
<1> QED
  BY <1>2, <1>6, <1>7, <1>8

\* What a gateway publishes of a key set it can describe, a cache reads back, each kid
\* with its key; of any other key set it publishes nothing (NewJWK, jwks, parseKeys).
THEOREM DocumentRoundTrip == Spec => []RoundTrip
<1>1. IInv => RoundTrip
  <2> SUFFICES ASSUME IInv, ~foreign
               PROVE  IF Describable
                      THEN /\ document # Error
                           /\ \A k \in KeyID, key \in PublicKeyOf :
                                ParseKeys(document)[k] = key <=>
                                  [kid |-> k, key |-> key] \in {Named[i] : i \in DOMAIN Named}
                      ELSE document = Error
    BY DEF RoundTrip
  <2>1. keySet \in KeySets /\ document = Jwks(keySet)
    BY DEF IInv, TypeOK, KeySets
  <2> PICK N : N = Len(keySet.published)
    OBVIOUS
  <2>2. Named = NamedOf(keySet) /\ DOMAIN Named = 1..(N + 1)
    BY <2>1, NamedIs DEF Named, NamedOf
  <2>3. Describable <=> DescribableUpTo(Named, N)
    BY <2>2 DEF Describable, DescribableUpTo
  <2>4. CASE Describable
    <3>1. /\ document # Error
          /\ \A k \in KeyID, key \in PublicKeyOf :
               ParseKeys(document)[k] = key <=>
                 \E i \in 1..(N + 1) : Named[i] = [kid |-> k, key |-> key]
      BY <2>1, <2>2, <2>3, <2>4, PublishedIsRead
    <3> QED
      BY <2>2, <2>4, <3>1
  <2>5. CASE ~Describable
    BY <2>1, <2>2, <2>3, <2>5, JwksIs DEF Published
  <2> QED
    BY <2>4, <2>5
<1> QED
  BY <1>1, DocumentConsistent, PTL

\* The cache's keys change only to what every entry of one document says, one key for
\* one kid (parseKeys, refreshOnce).
THEOREM DocumentTakenWhole == Spec => WholeDocumentOrNone
<1> DEFINE Whole == /\ \A i \in DOMAIN document : Usable(document[i])
                    /\ \A k \in KeyID :
                         {document[i].at : i \in {j \in DOMAIN document : document[j].kid = k}}
                           = {keys'[k].at : key \in {keys'[k]} \ {NoKey}}
                    /\ \A i, j \in DOMAIN document : document[i].kid = document[j].kid => i = j
<1>1. IInv /\ [Next]_vars => (keys' # keys => Whole)
  <2> SUFFICES ASSUME IInv, [Next]_vars, keys' # keys PROVE Whole
    OBVIOUS
  <2>1. Fetch
    BY DEF Next, AddPublished, AddForeign, vars
  <2>2. document \in Seq(Entry) /\ ParseKeys(document) # Error /\ keys' = ParseKeys(document)
    BY <2>1 DEF Fetch, IInv, TypeOK
  <2> PICK N : N = Len(document)
    OBVIOUS
  <2>3. UsableUpTo(document, N) /\ IsMapOf(keys', document, N) /\ DOMAIN document = 1..N
    BY <2>2, ParseIs DEF IsParsed
  <2>4. \A i \in 1..N : document[i] \in Entry
    BY <2>2
  <2>5. ASSUME NEW k \in KeyID
        PROVE  {document[i].at : i \in {j \in DOMAIN document : document[j].kid = k}}
                 = {keys'[k].at : key \in {keys'[k]} \ {NoKey}}
    <3>1. CASE \E j \in 1..N : document[j].kid = k
      <4>1. PICK j \in 1..N : document[j].kid = k
        BY <3>1
      <4>2. {i \in DOMAIN document : document[i].kid = k} = {j}
        BY <2>3, <4>1 DEF UsableUpTo
      <4>3. /\ keys'[k] = [curve |-> "P-256", at |-> document[j].at]
            /\ keys'[k] # NoKey
        BY <2>3, <2>4, <4>1, PublicKeyIs DEF UsableUpTo, IsMapOf
      <4> QED
        BY <4>2, <4>3
    <3>2. CASE ~\E j \in 1..N : document[j].kid = k
      <4>1. keys'[k] = NoKey
        BY <2>3, <3>2 DEF IsMapOf
      <4> QED
        BY <2>3, <3>2, <4>1
    <3> QED
      BY <3>1, <3>2
  <2> QED
    BY <2>3, <2>5 DEF UsableUpTo
<1> QED
  BY <1>1, DocumentConsistent, PTL DEF Spec, WholeDocumentOrNone
=============================================================================
