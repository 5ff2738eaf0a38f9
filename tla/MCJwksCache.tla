---------------------------- MODULE MCJwksCache ----------------------------
(* Small instances of JwksCache for TLC. *)
EXTENDS JwksCache, TLC

CONSTANTS c1, c2, k1, k2, v1, v2

Callers == {c1, c2}
AnyCaller == Permutations(Callers)
NoBackoff == <<>>
OneRetry == <<1>>
=============================================================================
