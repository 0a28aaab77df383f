----------------------------- MODULE MCRegistry -----------------------------
\* Small instances of Registry: which faults may happen, and how often.
EXTENDS Registry, TLC

CONSTANTS c1, c2, B
\* One client does not know the password of one network.
WrongPasswords == {<<c2, B>>}

\* How often a client may start or move.
Addresses21 == (c1 :> 2) @@ (c2 :> 1)

\* Everything may fail but the delivery of a peer list.
ListsArrive == FaultKinds \ {"lose list"}
=============================================================================
