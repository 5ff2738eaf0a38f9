------------------------- MODULE MCFileKeyProvider -------------------------
(* A small instance of FileKeyProvider for TLC. *)
EXTENDS FileKeyProvider

CONSTANTS c1, c2, kid1, kid2, v1, v2

Callers == {c1, c2}

\* the signing file: either private key, a public one or nothing usable; the
\* published file: either public key, a private one or nothing usable
Private(v) == [half |-> "private", key |-> v]
Public(v) == [half |-> "public", key |-> v]
TwoFiles ==
  {<<signing, published>> :
     signing \in {Private(v1), Private(v2), Public(v1), Broken},
     published \in {Public(v1), Public(v2), Private(v2), Broken}}
=============================================================================
