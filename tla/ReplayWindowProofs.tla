------------------------- MODULE ReplayWindowProofs -------------------------
(***************************************************************************)
(* Proofs about ReplayWindow for every window size, word width and nonce   *)
(* space that satisfy WindowAssumption.                                    *)
(*                                                                         *)
(* Inv is inductive.  AtMostOnce alone is not: from an arbitrary window    *)
(* the next Open could deliver a counter again, so it needs WindowExact    *)
(* (a clear bit means not delivered) and NoLockout (nothing above highest  *)
(* was delivered).                                                         *)
(***************************************************************************)
EXTENDS ReplayWindow, TLAPS

Inv == TypeOK /\ AtMostOnce /\ WindowExact /\ NoLockout

\* A counter that checkReplay lets through was never delivered: this is where
\* the bitmap and the highest counter together stand for the whole history.
LEMMA FreshIsNew ==
  ASSUME Inv, NEW c \in Counters, CheckReplay(c) = "fresh"
  PROVE  c \notin Accepted
<1>1. CASE ~anyRecvd
  BY <1>1 DEF Inv, WindowExact
<1>2. CASE anyRecvd /\ c > highest
  BY <1>2, WindowAssumption DEF Inv, TypeOK, NoLockout, Counters, Accepted
<1>3. CASE anyRecvd /\ ~(c > highest)
  <2>1. /\ ~(highest - c >= WindowSize)
        /\ (highest - c) \notin seen
    BY <1>3 DEF CheckReplay
  <2>2. /\ (highest - c) \in 0 .. WindowSize - 1
        /\ highest - (highest - c) = c
    BY <1>3, <2>1, WindowAssumption DEF Inv, TypeOK, Counters
  <2> QED BY <1>3, <2>1, <2>2 DEF Inv, WindowExact
<1> QED BY <1>1, <1>2, <1>3 DEF Inv, TypeOK

\* Delivering c adds exactly c to the accepted counters.
LEMMA AcceptedGrows ==
  ASSUME TypeOK, NEW c \in Counters,
         delivered' = [delivered EXCEPT ![c] = @ + 1]
  PROVE  Accepted' = Accepted \cup {c}
<1>1. \A d \in Counters : delivered'[d] > 0 <=> (delivered[d] > 0 \/ d = c)
  BY DEF TypeOK
<1> QED BY <1>1 DEF Accepted

LEMMA InitInv == Init => Inv
<1> SUFFICES ASSUME Init PROVE Inv
  OBVIOUS
<1>1. 0 \in Counters
  BY WindowAssumption DEF Counters
<1>2. \A c \in Counters : delivered[c] = 0
  BY DEF Init
<1>3. Accepted = {}
  BY <1>2 DEF Accepted
<1>4. TypeOK
  <2>1. delivered \in [Counters -> Nat]
    BY DEF Init
  <2>2. verdict \in [counter : Counters, outcome : Outcomes]
    BY <1>1 DEF Init, Outcomes
  <2> QED BY <1>1, <2>1, <2>2 DEF Init, TypeOK
<1>5. AtMostOnce
  BY <1>2 DEF AtMostOnce
<1>6. WindowExact /\ NoLockout
  BY <1>3 DEF Init, WindowExact, NoLockout
<1> QED BY <1>4, <1>5, <1>6 DEF Inv

\* Seal only moves the sealing end forward.
LEMMA SealInv == Inv /\ Seal => Inv'
<1> SUFFICES ASSUME Inv, Seal PROVE Inv'
  OBVIOUS
<1>1. /\ counter' \in Counters
      /\ counter' > counter
  BY WindowAssumption DEF Inv, TypeOK, Seal, Counters
<1>2. TypeOK'
  BY <1>1 DEF Inv, TypeOK, Seal, Counters, Bits
<1>3. Accepted' = Accepted
  BY DEF Seal, Accepted
<1>4. AtMostOnce' /\ WindowExact'
  BY <1>3 DEF Inv, Seal, AtMostOnce, WindowExact
<1>5. NoLockout'
  BY <1>1, <1>3, WindowAssumption DEF Inv, TypeOK, NoLockout, Seal, Counters
<1> QED BY <1>2, <1>4, <1>5 DEF Inv

\* A call of Open that returns an error leaves the window alone.
LEMMA OpenErrorInv ==
  ASSUME Inv, NEW c \in Counters, OpenRefused(c) \/ OpenDamaged(c)
  PROVE  Inv'
<1>1. UNCHANGED <<counter, anyRecvd, highest, seen, delivered>>
  BY DEF OpenRefused, OpenDamaged
<1>2. verdict' \in [counter : Counters, outcome : Outcomes]
  <2>1. CheckReplay(c) \in Outcomes \/ CheckReplay(c) = "fresh"
    BY DEF CheckReplay, Outcomes
  <2>2. "not authentic" \in Outcomes
    BY DEF Outcomes
  <2>3. \E o \in Outcomes : verdict' = [counter |-> c, outcome |-> o]
    BY <2>1, <2>2 DEF OpenRefused, OpenDamaged, Return
  <2> QED BY <2>3
<1>3. TypeOK'
  BY <1>1, <1>2 DEF Inv, TypeOK, Counters, Bits, Outcomes
<1>4. Accepted' = Accepted
  BY <1>1 DEF Accepted
<1> QED BY <1>1, <1>3, <1>4 DEF Inv, AtMostOnce, WindowExact, NoLockout

\* An authentic packet: the four shapes of acceptCounter, one case each.
LEMMA AcceptInv ==
  ASSUME Inv, NEW c \in Counters, OpenAuthentic(c)
  PROVE  Inv'
<1> DEFINE jump == c - highest
<1>1. Accepted' = Accepted \cup {c}
  BY AcceptedGrows DEF Inv, OpenAuthentic
<1>2. c \notin Accepted
  BY FreshIsNew DEF OpenAuthentic
<1>3. /\ anyRecvd' = TRUE
      /\ highest' = IF ~anyRecvd \/ c > highest THEN c ELSE highest
      /\ counter' = counter
      /\ c < counter
  BY DEF OpenAuthentic, AcceptCounter
<1>4. /\ c \in Int /\ highest \in Int /\ counter \in Int
      /\ highest \in Counters /\ anyRecvd \in BOOLEAN
      /\ WindowSize \in Int /\ WindowSize > 0
      /\ WordBits \in Int /\ WindowSize <= WordBits
  BY WindowAssumption DEF Inv, TypeOK, Counters
<1>5. seen \in SUBSET Bits
  BY DEF Inv, TypeOK
<1>6. \A a \in Accepted : a \in Int
  BY WindowAssumption DEF Accepted, Counters
<1>7. AtMostOnce'
  <2>1. delivered[c] = 0
    BY <1>2 DEF Inv, TypeOK, Accepted
  <2>2. \A d \in Counters :
          delivered'[d] = IF d = c THEN delivered[c] + 1 ELSE delivered[d]
    BY DEF Inv, TypeOK, OpenAuthentic
  <2> QED BY <2>1, <2>2 DEF Inv, AtMostOnce
<1>8. NoLockout'
  <2>1. CASE ~anyRecvd
    BY <1>1, <1>3, <1>4, <2>1 DEF Inv, WindowExact, NoLockout
  <2>2. CASE anyRecvd
    BY <1>1, <1>3, <1>4, <1>6, <2>2 DEF Inv, NoLockout
  <2> QED BY <1>4, <2>1, <2>2
<1>9. seen' \in SUBSET Bits /\ WindowExact'
  <2>1. CASE ~anyRecvd
    <3>1. seen' = {0} /\ highest' = c /\ Accepted' = {c}
      BY <1>1, <1>3, <2>1 DEF OpenAuthentic, AcceptCounter, Inv, WindowExact
    <3> QED BY <1>3, <1>4, <3>1 DEF WindowExact, Bits
  <2>2. CASE anyRecvd /\ c > highest /\ jump >= WindowSize
    <3>1. seen' = {0} /\ highest' = c
      BY <1>3, <2>2 DEF OpenAuthentic, AcceptCounter
    <3>2. \A b \in 1 .. WindowSize - 1 : c - b \notin Accepted /\ c - b # c
      BY <1>4, <2>2 DEF Inv, NoLockout
    <3> QED BY <1>1, <1>3, <1>4, <3>1, <3>2 DEF WindowExact, Bits
  <2>3. CASE anyRecvd /\ c > highest /\ ~(jump >= WindowSize)
    <3>1. seen' = ShiftLeft(seen, jump) \cup {0} /\ highest' = c
      BY <1>3, <2>3 DEF OpenAuthentic, AcceptCounter
    <3>2. \A b \in 0 .. WindowSize - 1 :
            b \in ShiftLeft(seen, jump) <=> b - jump \in seen
      BY <1>4, <1>5 DEF ShiftLeft, Bits
    <3>3. ASSUME NEW b \in 0 .. WindowSize - 1
          PROVE  b \in seen' <=> c - b \in Accepted \cup {c}
      <4>1. CASE b = 0
        BY <1>4, <3>1, <4>1
      <4>2. CASE b > 0 /\ b < jump
        <5>1. b - jump \notin seen
          BY <1>4, <1>5, <4>2 DEF Bits
        <5>2. c - b \notin Accepted
          BY <1>4, <2>3, <4>2 DEF Inv, NoLockout
        <5> QED BY <1>4, <3>1, <3>2, <4>2, <5>1, <5>2
      <4>3. CASE b >= jump
        <5>1. b - jump \in 0 .. WindowSize - 1 /\ b > 0
          BY <1>4, <2>3, <4>3
        <5>2. b - jump \in seen <=> highest - (b - jump) \in Accepted
          BY <2>3, <5>1 DEF Inv, WindowExact
        <5>3. highest - (b - jump) = c - b
          BY <1>4
        <5> QED BY <1>4, <3>1, <3>2, <5>1, <5>2, <5>3
      <4> QED BY <1>4, <4>1, <4>2, <4>3
    <3>4. seen' \in SUBSET Bits
      BY <1>4, <3>1 DEF ShiftLeft, Bits
    <3> QED BY <1>1, <1>3, <3>1, <3>3, <3>4 DEF WindowExact
  <2>4. CASE anyRecvd /\ ~(c > highest)
    <3>1. seen' = seen \cup {highest - c} /\ highest' = highest
      BY <1>3, <2>4 DEF OpenAuthentic, AcceptCounter
    <3>2. highest - c \in 0 .. WindowSize - 1
      BY <1>4, <2>4 DEF OpenAuthentic, CheckReplay
    <3>3. ASSUME NEW b \in 0 .. WindowSize - 1
          PROVE  b \in seen' <=> highest - b \in Accepted \cup {c}
      BY <1>4, <2>4, <3>1 DEF Inv, WindowExact
    <3>4. seen' \in SUBSET Bits
      BY <1>4, <1>5, <3>1, <3>2 DEF Bits
    <3> QED BY <1>1, <1>3, <3>1, <3>3, <3>4 DEF WindowExact
  <2> QED BY <1>4, <2>1, <2>2, <2>3, <2>4
<1>10. TypeOK'
  <2>1. delivered' \in [Counters -> Nat]
    BY DEF OpenAuthentic, Inv, TypeOK
  <2>2. verdict' \in [counter : Counters, outcome : Outcomes]
    BY DEF OpenAuthentic, Return, Outcomes
  <2>3. counter' \in Counters /\ anyRecvd' \in BOOLEAN /\ highest' \in Counters
    BY <1>3, <1>4 DEF Inv, TypeOK
  <2> QED BY <1>9, <2>1, <2>2, <2>3 DEF TypeOK, Counters, Bits, Outcomes
<1> QED BY <1>7, <1>8, <1>9, <1>10 DEF Inv

LEMMA NextInv == Inv /\ [Next]_vars => Inv'
<1> SUFFICES ASSUME Inv, [Next]_vars PROVE Inv'
  OBVIOUS
<1>1. CASE Seal
  BY <1>1, SealInv
<1>2. ASSUME NEW c \in Counters, Open(c) PROVE Inv'
  BY <1>2, OpenErrorInv, AcceptInv DEF Open
<1>3. CASE UNCHANGED vars
  BY <1>3 DEF vars, Inv, TypeOK, AtMostOnce, WindowExact, NoLockout, Accepted,
              Counters, Bits, Outcomes
<1> QED BY <1>1, <1>2, <1>3 DEF Next

\* Every reachable state of a session satisfies the inductive invariant.
THEOREM SessionInvariant == Spec => []Inv
BY InitInv, NextInv, PTL DEF Spec

\* The state of a session keeps its types, the word's width included.
THEOREM SessionTypes == Spec => []TypeOK
<1>1. Inv => TypeOK
  BY DEF Inv
<1> QED BY <1>1, SessionInvariant, PTL

\* No packet is handed to the caller of Open twice, for any window size.
THEOREM NoPacketTwice == Spec => []AtMostOnce
<1>1. Inv => AtMostOnce
  BY DEF Inv
<1> QED BY <1>1, SessionInvariant, PTL

\* The bitmap is the history: checkReplay answers from seen and highest alone.
THEOREM BitmapIsHistory == Spec => []WindowExact
<1>1. Inv => WindowExact
  BY DEF Inv
<1> QED BY <1>1, SessionInvariant, PTL

\* Nothing that is not authentic moves the window.
THEOREM WindowFollowsPeer == Spec => []NoLockout
<1>1. Inv => NoLockout
  BY DEF Inv
<1> QED BY <1>1, SessionInvariant, PTL

-----------------------------------------------------------------------------
\* One call of Open is one step of the promise.
LEMMA OpenRefines ==
  ASSUME Inv, NEW c \in Counters, Open(c)
  PROVE  Guard!Next
<1>1. c \in Guard!Counters
  BY DEF Counters, Guard!Counters
<1>2. /\ c \in Int /\ highest \in Int
      /\ WindowSize \in Int /\ WindowSize > 0
      /\ \A a \in Accepted : a \in Int
      /\ anyRecvd \in BOOLEAN
  BY WindowAssumption DEF Inv, TypeOK, Counters, Accepted
<1>3. CheckReplay(c) = "outside window" <=> Guard!OutOfReach(c)
  <2>1. CASE ~anyRecvd
    BY <2>1 DEF CheckReplay, Guard!OutOfReach, Inv, WindowExact
  <2>2. CASE anyRecvd
    BY <1>2, <2>2 DEF CheckReplay, Guard!OutOfReach, Inv, NoLockout
  <2> QED BY <1>2, <2>1, <2>2
<1>4. CASE OpenRefused(c)
  <2>1. UNCHANGED Accepted
    BY <1>4 DEF OpenRefused, Accepted
  <2>2. CASE CheckReplay(c) = "outside window"
    <3>1. Guard!RefuseStale(c)
      BY <1>3, <1>4, <2>1, <2>2
         DEF OpenRefused, Return, Guard!RefuseStale, Guard!Judge
    <3> QED BY <1>1, <3>1 DEF Guard!Next
  <2>3. CASE CheckReplay(c) = "replayed"
    <3>1. /\ anyRecvd /\ ~(c > highest) /\ ~(highest - c >= WindowSize)
          /\ (highest - c) \in seen
      BY <2>3 DEF CheckReplay
    <3>2. /\ highest - c \in 0 .. WindowSize - 1
          /\ highest - (highest - c) = c
      BY <1>2, <3>1
    <3>3. c \in Accepted
      BY <3>1, <3>2 DEF Inv, WindowExact
    <3>4. Guard!RefuseReplay(c)
      BY <1>3, <1>4, <2>1, <2>3, <3>3
         DEF OpenRefused, Return, Guard!RefuseReplay, Guard!Judge
    <3> QED BY <1>1, <3>4 DEF Guard!Next
  <2> QED BY <1>4, <2>2, <2>3 DEF OpenRefused, CheckReplay
<1>5. CASE OpenDamaged(c)
  <2>1. UNCHANGED Accepted
    BY <1>5 DEF OpenDamaged, Accepted
  <2>2. c \notin Accepted
    BY <1>5, FreshIsNew DEF OpenDamaged
  <2>3. Guard!RefuseDamaged(c)
    BY <1>3, <1>5, <2>1, <2>2
       DEF OpenDamaged, Return, Guard!RefuseDamaged, Guard!Judge
  <2> QED BY <1>1, <2>3 DEF Guard!Next
<1>6. CASE OpenAuthentic(c)
  <2>1. Accepted' = Accepted \cup {c}
    BY <1>6, AcceptedGrows DEF Inv, OpenAuthentic
  <2>2. c \notin Accepted
    BY <1>6, FreshIsNew DEF OpenAuthentic
  <2>3. Guard!Deliver(c)
    BY <1>3, <1>6, <2>1, <2>2
       DEF OpenAuthentic, Return, Guard!Deliver, Guard!Judge
  <2> QED BY <1>1, <2>3 DEF Guard!Next
<1> QED BY <1>4, <1>5, <1>6 DEF Open

\* The session implements ReplayGuard: with 64 bits it answers every call of
\* Open as a receiver that remembers every counter it ever accepted would.
THEOREM SessionImplementsGuard == Spec => RefinesGuard
<1>1. Init => Guard!Init
  <2> SUFFICES ASSUME Init PROVE Guard!Init
    OBVIOUS
  <2>1. Accepted = {}
    BY DEF Init, Accepted
  <2> QED BY <2>1 DEF Init, Guard!Init
<1>2. Inv /\ [Next]_vars => [Guard!Next]_Guard!vars
  <2> SUFFICES ASSUME Inv, [Next]_vars PROVE [Guard!Next]_Guard!vars
    OBVIOUS
  <2>1. CASE Seal
    BY <2>1 DEF Seal, Guard!vars, Accepted
  <2>2. ASSUME NEW c \in Counters, Open(c) PROVE Guard!Next
    BY <2>2, OpenRefines
  <2>3. CASE UNCHANGED vars
    BY <2>3 DEF vars, Guard!vars, Accepted
  <2> QED BY <2>1, <2>2, <2>3 DEF Next
<1> QED BY <1>1, <1>2, SessionInvariant, PTL DEF Spec, RefinesGuard, Guard!Spec
=============================================================================
