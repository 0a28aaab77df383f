---------------------------- MODULE ReplayGuard ----------------------------
(***************************************************************************)
(* What the receiving half of a session promises about the packets it is   *)
(* handed, said without a bitmap: it remembers every counter it accepted,  *)
(* refuses a counter it has accepted before, refuses one that is           *)
(* WindowSize or more behind the highest accepted one, and accepts every   *)
(* other authentic packet.  A packet that is not authentic changes         *)
(* nothing.  ReplayWindow, the module of session.go, implements this.      *)
(***************************************************************************)
EXTENDS Integers

CONSTANTS WindowSize,   \* how far behind the newest counter is still accepted
          MaxNonce      \* the largest counter a cipher state accepts

VARIABLES accepted,     \* the counters accepted so far
          verdict       \* what the last call decided, and about which counter

vars == <<accepted, verdict>>

\* Every value of the wire's unsigned counter field.
Counters == 0 .. MaxNonce + 1

\* A counter is out of reach once something WindowSize ahead was accepted.
OutOfReach(c) == \E a \in accepted : a - c >= WindowSize

Judge(c, outcome) == verdict' = [counter |-> c, outcome |-> outcome]

Init ==
  /\ accepted = {}
  /\ verdict = [counter |-> 0, outcome |-> "none"]

Deliver(c) ==
  /\ c \notin accepted
  /\ ~OutOfReach(c)
  /\ accepted' = accepted \cup {c}
  /\ Judge(c, "delivered")

RefuseReplay(c) ==
  /\ c \in accepted
  /\ ~OutOfReach(c)
  /\ Judge(c, "replayed")
  /\ UNCHANGED accepted

RefuseStale(c) ==
  /\ OutOfReach(c)
  /\ Judge(c, "outside window")
  /\ UNCHANGED accepted

RefuseDamaged(c) ==
  /\ c \notin accepted
  /\ ~OutOfReach(c)
  /\ Judge(c, "not authentic")
  /\ UNCHANGED accepted

Next == \E c \in Counters :
          \/ Deliver(c)
          \/ RefuseReplay(c)
          \/ RefuseStale(c)
          \/ RefuseDamaged(c)

Spec == Init /\ [][Next]_vars
=============================================================================
