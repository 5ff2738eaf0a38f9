---------------------------- MODULE JwksDocument ----------------------------
(***************************************************************************)
(* The JWKS document from the gateway's key set to the cache's map of keys *)
(* (jwk.go, signer.jwks, jwks.parseKeys).  The entries of a document are   *)
(* read one by one, and one bad entry fails the whole document.            *)
(*                                                                         *)
(* The document may come from another publisher, with entries this code    *)
(* never writes, or have entries repeated by what merges documents.        *)
(***************************************************************************)
EXTENDS Sequences, Integers

CONSTANTS Name,       \* the kids that are not blank
          Point,      \* the points of P-256, a key's x and y together
          NoKey,      \* a nil key, or a kid without one
          Error,      \* the outcome of a conversion that fails
          ForeignEntry, \* the entries another publisher's document has
          MaxEntries  \* BOUND: published keys, and entries of a document

Blank == ""
KeyID == Name \cup {Blank}

\* an ECDSA public key: on P-256, or on another curve
PublicKeyOf == [curve : {"P-256"}, at : Point]
OtherKey == [curve |-> "P-384", at |-> "elsewhere"]
EcdsaKey == PublicKeyOf \cup {OtherKey}

\* An entry as the document carries it; at is its x and y, "undecodable" if
\* they are not coordinates, "elsewhere" if they are not on the curve.
Entry == [kty : {"EC", "RSA"}, crv : {"P-256", "P-384"}, kid : KeyID,
          use : {"sig", "enc"}, alg : {"ES256", "ES384"},
          at : Point \cup {"undecodable", "elsewhere"}]

ASSUME Distinct ==
  /\ Point \cap {"undecodable", "elsewhere"} = {} /\ Blank \notin Name
  /\ NoKey \notin EcdsaKey /\ ForeignEntry \subseteq Entry
  /\ Error \notin EcdsaKey \cup {NoKey} \cup Entry \cup Seq(Entry)
                 \cup [KeyID -> PublicKeyOf \cup {NoKey}]
  /\ MaxEntries \in Nat
-----------------------------------------------------------------------------
(* The gateway: internaljwt.NewJWK and signer.jwks. *)

NewJWK(keyID, key) ==
  IF keyID # Blank /\ key \in PublicKeyOf
  THEN [kty |-> "EC", crv |-> "P-256", kid |-> keyID,
        use |-> "sig", alg |-> "ES256", at |-> key.at]
  ELSE Error

\* MUTANT of Describes: a published kid is not compared with the signing key's
DescribesPublished(entries, published) ==
  /\ NewJWK(published.kid, published.key) # Error
  /\ \A i \in 2..Len(entries) : entries[i].kid # published.kid

Describes(entries, published) ==
  /\ NewJWK(published.kid, published.key) # Error
  /\ \A i \in DOMAIN entries : entries[i].kid # published.kid

AndThen(entries, published) ==
  IF entries # Error /\ Describes(entries, published)
  THEN Append(entries, NewJWK(published.kid, published.key))
  ELSE Error

\* The signing key first, then the published keys; any failure fails it all.
Jwks(set) ==
  LET signing == NewJWK(set.signing.kid, set.signing.key)
      entries[n \in 0..Len(set.published)] ==
        IF n = 0 THEN IF signing = Error THEN Error ELSE <<signing>>
        ELSE AndThen(entries[n - 1], set.published[n])
  IN  entries[Len(set.published)]
-----------------------------------------------------------------------------
(* The service: internaljwt.PublicKey and jwks.parseKeys. *)

\* MUTANT of PublicKey: the coordinates are not checked against the curve
PublicKeyAnywhere(entry) ==
  IF /\ entry.kid # Blank
     /\ entry.kty = "EC" /\ entry.crv = "P-256"
     /\ entry.alg = "ES256" /\ entry.use = "sig"
     /\ entry.at # "undecodable"
  THEN [curve |-> "P-256", at |-> entry.at]
  ELSE Error

PublicKey(entry) ==
  IF /\ entry.kid # Blank
     /\ entry.kty = "EC" /\ entry.crv = "P-256"
     /\ entry.alg = "ES256" /\ entry.use = "sig"
     /\ entry.at \in Point
  THEN [curve |-> "P-256", at |-> entry.at]
  ELSE Error

NoKeys == [k \in KeyID |-> NoKey]

\* MUTANT of Add: an entry the cache cannot use is passed over
AddUsable(map, entry) ==
  IF PublicKey(entry) # Error /\ map[entry.kid] = NoKey
  THEN [map EXCEPT ![entry.kid] = PublicKey(entry)]
  ELSE map

Add(map, entry) ==
  IF map # Error /\ PublicKey(entry) # Error /\ map[entry.kid] = NoKey
  THEN [map EXCEPT ![entry.kid] = PublicKey(entry)]
  ELSE Error

\* Entry by entry, into a map that starts empty.
ParseKeys(entries) ==
  LET map[n \in 0..Len(entries)] == IF n = 0 THEN NoKeys ELSE Add(map[n - 1], entries[n])
  IN  map[Len(entries)]
-----------------------------------------------------------------------------
(* A gateway is configured key by key, its document fetched and parsed. *)

VARIABLES keySet,     \* issuer.KeySet
          document,   \* the document served, or Error
          foreign,    \* whether it is another publisher's
          keys        \* the cache's keys: those of the last document it took

vars == <<keySet, document, foreign, keys>>

NamedKey == [kid : KeyID, key : EcdsaKey \cup {NoKey}]

\* The cache holds keys on P-256 only, and none under a blank kid (PublicKey).
TypeOK ==
  /\ keySet \in [signing : NamedKey, published : Seq(NamedKey)]
  /\ Len(keySet.published) <= MaxEntries
  /\ document # Error => document \in Seq(Entry)
  /\ foreign \in BOOLEAN
  /\ keys \in [KeyID -> PublicKeyOf \cup {NoKey}] /\ keys[Blank] = NoKey

Init ==
  /\ \E signing \in NamedKey : keySet = [signing |-> signing, published |-> <<>>]
  /\ document = Jwks(keySet)
  /\ foreign = FALSE
  /\ keys = NoKeys

\* The configuration gets one more published key.
AddPublished(named) ==
  /\ ~foreign /\ Len(keySet.published) < MaxEntries
  /\ keySet' = [keySet EXCEPT !.published = Append(@, named)]
  /\ document' = Jwks(keySet')
  /\ UNCHANGED <<foreign, keys>>

\* Another publisher's entry joins the document.
AddForeign(entry) ==
  /\ document # Error /\ Len(document) <= MaxEntries
  /\ document' = Append(document, entry)
  /\ foreign' = TRUE
  /\ UNCHANGED <<keySet, keys>>

\* A refresh: a document that fails to parse leaves the cache as it was.
Fetch ==
  /\ document # Error
  /\ keys' = IF ParseKeys(document) = Error THEN keys ELSE ParseKeys(document)
  /\ UNCHANGED <<keySet, document, foreign>>

Next ==
  \/ \E named \in NamedKey : AddPublished(named)
  \/ \E entry \in ForeignEntry : AddForeign(entry)
  \/ Fetch

Spec == Init /\ [][Next]_vars
-----------------------------------------------------------------------------
(* Properties. *)

Named == <<keySet.signing>> \o keySet.published

\* Every key has a kid of its own and is on P-256.
Describable ==
  /\ \A i \in DOMAIN Named : Named[i].kid # Blank /\ Named[i].key \in PublicKeyOf
  /\ \A i, j \in DOMAIN Named : Named[i].kid = Named[j].kid => i = j

\* What a gateway publishes of a key set it can describe, a cache reads back:
\* each kid its key, the signing key among them, and no other kid; of any
\* other key set it publishes nothing (NewJWK, signer.jwks, parseKeys).
RoundTrip ==
  ~foreign =>
    IF Describable
    THEN /\ document # Error
         /\ \A k \in KeyID, key \in PublicKeyOf :
              ParseKeys(document)[k] = key <=> [kid |-> k, key |-> key] \in {Named[i] : i \in DOMAIN Named}
    ELSE document = Error

Usable(entry) ==
  entry \in [kty : {"EC"}, crv : {"P-256"}, kid : Name, use : {"sig"},
             alg : {"ES256"}, at : Point]

\* A document replaces the cache's keys as a whole or not at all: when the keys
\* change, every entry of the document was usable and each kid has the key of
\* the one entry that names it (parseKeys, refreshOnce).
WholeDocumentOrNone ==
  [][keys' # keys =>
       /\ \A i \in DOMAIN document : Usable(document[i])
       /\ \A k \in KeyID :
            {document[i].at : i \in {j \in DOMAIN document : document[j].kid = k}}
              = {keys'[k].at : key \in {keys'[k]} \ {NoKey}}
       /\ \A i, j \in DOMAIN document : document[i].kid = document[j].kid => i = j]_vars
-----------------------------------------------------------------------------
(* The invariant the proofs rest on. *)

\* The gateway's own document is that of its key set.
IInv == TypeOK /\ (~foreign => document = Jwks(keySet))
=============================================================================
