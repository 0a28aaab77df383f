----------------------------- MODULE MCRouting -----------------------------
\* The devices that are not Me are interchangeable.  One thing fails; next to
\* the other network there are at most two devices of this one.
EXTENDS Routing, TLC
Small ==
  /\ crashes + errors <= 1
  /\ Created(subnets) = Networks => Cardinality(Known(promised)) <= 2
Symmetric == Permutations(Others)
=============================================================================
