\* MaxNonce 7 is more than twice the window: counters fall out of it, jumps
\* of exactly the window, of one less and of one more all happen, and the
\* sealing end reaches its last nonce.
SPECIFICATION Spec
CONSTANTS
  WindowSize = 3
  WordBits = 3
  MaxNonce = 7
INVARIANTS
  TypeOK
  AtMostOnce
  WindowExact
  NoLockout
PROPERTY
  RefinesGuard
