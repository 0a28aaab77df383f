---------------------------- MODULE MCHandshake ----------------------------
\* Small instances of Handshake: which faults may happen, and how often.
EXTENDS Handshake

Bounds(lose, init, reply, forget) ==
  [kind \in FaultKinds |-> CASE kind = "lose"         -> lose
                             [] kind = "repeat init"  -> init
                             [] kind = "repeat reply" -> reply
                             [] kind = "forget"       -> forget]

\* What the protocol recovers from when its retries come late enough.
Tolerated == Bounds(2, 0, 2, 2)
\* A perfect network, and nodes that stay.
NoFault == Bounds(0, 0, 0, 0)
\* A perfect network, and one loss of memory.
OneForgets == Bounds(0, 0, 0, 1)
=============================================================================
