---------------------------- MODULE ReplayWindow ----------------------------
(***************************************************************************)
(* One direction of a session (internal/session/session.go): the sealing   *)
(* end hands out counters, the opening end keeps a bitmap of the last      *)
(* WindowSize counters below the highest one it accepted.                  *)
(*                                                                         *)
(* Between them is UDP.  Every packet ever sealed may arrive at any later  *)
(* moment, any number of times or never, so no packet in flight needs to   *)
(* be remembered: the sealed counters are exactly 0 .. counter - 1.  A     *)
(* packet may also arrive damaged, with any value in its counter field.    *)
(*                                                                         *)
(* seen is the uint64 of the code, as the set of its bits that are set.    *)
(***************************************************************************)
EXTENDS Integers

CONSTANTS WindowSize,   \* replayWindowSize, 64 in the code
          WordBits,     \* width of the word seen is stored in, 64 in the code
          MaxNonce      \* the last nonce noise encrypts under, 2^64 - 2

ASSUME WindowAssumption ==
  /\ WindowSize \in Nat \ {0}
  /\ WordBits \in Nat
  /\ WindowSize <= WordBits
  /\ MaxNonce \in Nat

VARIABLES
  counter,    \* sealing end: the next nonce to send
  anyRecvd,   \* opening end: has anything been accepted
  highest,    \* opening end: highest counter accepted so far
  seen,       \* opening end: bit b is set when highest - b was accepted
  delivered,  \* how often each counter was handed to the caller of Open
  verdict     \* what the last Open returned, and for which counter

window == <<anyRecvd, highest, seen>>
vars == <<counter, anyRecvd, highest, seen, delivered, verdict>>

\* The uint64 counter field.  Noise reserves the last value.
Counters == 0 .. MaxNonce + 1
Bits     == 0 .. WordBits - 1
Outcomes == {"none", "delivered", "replayed", "outside window", "not authentic"}

TypeOK ==
  /\ counter \in Counters
  /\ anyRecvd \in BOOLEAN
  /\ highest \in Counters
  /\ seen \in SUBSET Bits
  /\ delivered \in [Counters -> Nat]
  /\ verdict \in [counter : Counters, outcome : Outcomes]

Init ==
  /\ counter = 0
  /\ anyRecvd = FALSE
  /\ highest = 0
  /\ seen = {}
  /\ delivered = [c \in Counters |-> 0]
  /\ verdict = [counter |-> 0, outcome |-> "none"]

-----------------------------------------------------------------------------
\* Mutant: Seal that advances the counter whatever Encrypt returned.
SealIgnoringError ==
  /\ counter' = counter + 1
  /\ UNCHANGED <<anyRecvd, highest, seen, delivered, verdict>>

\* Seal: encrypt under the next nonce, then advance it.  Past MaxNonce the
\* cipher state returns an error and nothing changes.
Seal ==
  /\ counter <= MaxNonce
  /\ counter' = counter + 1
  /\ UNCHANGED <<anyRecvd, highest, seen, delivered, verdict>>

-----------------------------------------------------------------------------
\* Mutant: a window one counter wider than the word that remembers it.
CheckReplayOneWider(c) ==
  IF ~anyRecvd \/ c > highest THEN "fresh"
  ELSE IF highest - c > WindowSize THEN "outside window"
  ELSE IF (highest - c) \in seen THEN "replayed"
  ELSE "fresh"

\* checkReplay, as the reason it returns or "fresh" for nil.
CheckReplay(c) ==
  IF ~anyRecvd \/ c > highest THEN "fresh"
  ELSE IF highest - c >= WindowSize THEN "outside window"
  ELSE IF (highest - c) \in seen THEN "replayed"
  ELSE "fresh"

\* Mutant: the bit of the newest counter does not move with the window.
ShiftAllButNewest(bits, shift) == {b + shift : b \in bits \ {0}} \cap Bits

\* seen <<= shift: the bits that leave the word are gone.
ShiftLeft(bits, shift) == {b + shift : b \in bits} \cap Bits

\* Mutant: a jump past the whole window keeps the old bits.
AcceptCounterKeepingBits(c) ==
  /\ anyRecvd' = TRUE
  /\ highest' = IF ~anyRecvd \/ c > highest THEN c ELSE highest
  /\ seen' = IF ~anyRecvd THEN {0}
             ELSE IF c > highest
                  THEN (IF c - highest >= WindowSize THEN seen
                        ELSE ShiftLeft(seen, c - highest)) \cup {0}
             ELSE seen \cup {highest - c}

\* acceptCounter: the window follows a newer counter and marks an older one.
AcceptCounter(c) ==
  /\ anyRecvd' = TRUE
  /\ highest' = IF ~anyRecvd \/ c > highest THEN c ELSE highest
  /\ seen' = IF ~anyRecvd THEN {0}
             ELSE IF c > highest
                  THEN (IF c - highest >= WindowSize THEN {}
                        ELSE ShiftLeft(seen, c - highest)) \cup {0}
             ELSE seen \cup {highest - c}

Return(c, outcome) == verdict' = [counter |-> c, outcome |-> outcome]

\* Open refuses before decrypting when checkReplay does.
OpenRefused(c) ==
  /\ CheckReplay(c) # "fresh"
  /\ Return(c, CheckReplay(c))
  /\ UNCHANGED <<counter, anyRecvd, highest, seen, delivered>>

\* Mutant: the window moves before the tag is verified.
OpenDamagedAfterAccept(c) ==
  /\ CheckReplay(c) = "fresh"
  /\ AcceptCounter(c)
  /\ Return(c, "not authentic")
  /\ UNCHANGED <<counter, delivered>>

\* Open of a packet whose tag does not verify returns before acceptCounter.
OpenDamaged(c) ==
  /\ CheckReplay(c) = "fresh"
  /\ Return(c, "not authentic")
  /\ UNCHANGED <<counter, anyRecvd, highest, seen, delivered>>

\* Open of an authentic packet: the window moves and the caller gets it.
OpenAuthentic(c) ==
  /\ c < counter
  /\ CheckReplay(c) = "fresh"
  /\ AcceptCounter(c)
  /\ delivered' = [delivered EXCEPT ![c] = @ + 1]
  /\ Return(c, "delivered")
  /\ UNCHANGED counter

Open(c) == OpenRefused(c) \/ OpenDamaged(c) \/ OpenAuthentic(c)

Next == Seal \/ \E c \in Counters : Open(c)

Spec == Init /\ [][Next]_vars

-----------------------------------------------------------------------------
Accepted == {c \in Counters : delivered[c] > 0}

\* No packet reaches the caller twice, however often the network repeats it
\* and however far the window has moved in between (Open, checkReplay).
AtMostOnce == \A c \in Counters : delivered[c] <= 1

\* Inside the window the bitmap is exactly the set of delivered counters: no
\* bit is lost by the shifts of acceptCounter and none is set for a packet
\* that was not delivered.
WindowExact ==
  IF anyRecvd
    THEN \A b \in 0 .. WindowSize - 1 :
           (b \in seen) <=> (highest - b \in Accepted)
    ELSE seen = {} /\ Accepted = {}

\* The newest accepted counter is one the peer really used, so a damaged
\* packet with a large counter cannot shut the window on real traffic (the
\* reason acceptCounter runs after the tag is verified).
NoLockout ==
  anyRecvd => /\ highest < counter
              /\ highest \in Accepted
              /\ \A c \in Accepted : c <= highest

\* What Open decides about every packet, replayed, stale, damaged or new, is
\* what a receiver that remembers every accepted counter would decide: the
\* session implements the promise of ReplayGuard with its bitmap.
Guard == INSTANCE ReplayGuard WITH accepted <- Accepted
RefinesGuard == Guard!Spec
=============================================================================
