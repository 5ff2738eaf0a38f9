--------------------------- MODULE MCKeyRotation ---------------------------
(* A small instance of KeyRotation for TLC: one whole rotation. *)
EXTENDS KeyRotation, TLC

CONSTANTS g1, g2, s1, old, new

Replicas == {g1, g2}
AnyReplica == Permutations(Replicas)

Rotation ==
  <<[sign |-> old, published |-> {}],
    [sign |-> old, published |-> {new}],
    [sign |-> new, published |-> {old}],
    [sign |-> new, published |-> {}]>>
=============================================================================
