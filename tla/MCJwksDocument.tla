--------------------------- MODULE MCJwksDocument ---------------------------
(* A small instance of JwksDocument for TLC. *)
EXTENDS JwksDocument

CONSTANTS k1, k2, k3, p1, p2

\* a good entry, and one wrong in each way
Good == [kty |-> "EC", crv |-> "P-256", kid |-> k3, use |-> "sig",
         alg |-> "ES256", at |-> p1]
Foreign ==
  {Good,
   [Good EXCEPT !.kid = k1], [Good EXCEPT !.kid = Blank],
   [Good EXCEPT !.kty = "RSA"], [Good EXCEPT !.crv = "P-384"],
   [Good EXCEPT !.use = "enc"], [Good EXCEPT !.alg = "ES384"],
   [Good EXCEPT !.at = "elsewhere"], [Good EXCEPT !.at = "undecodable"]}
=============================================================================
