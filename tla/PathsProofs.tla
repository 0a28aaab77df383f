----------------------------- MODULE PathsProofs -----------------------------
(***************************************************************************)
(* Proofs about Paths for any intervals, addresses and number of events:   *)
(* type correctness, that no path is used that does not work, and that one *)
(* that works is kept.                                                     *)
(***************************************************************************)
EXTENDS Paths, FiniteSetTheorems, TLAPS

-----------------------------------------------------------------------------
(* Operators. *)

\* There are two clients, each the other's other.
LEMMA OtherIs ==
  ASSUME NEW c \in Clients
  PROVE  /\ Other(c) \in Clients /\ Other(c) # c
         /\ Other(Other(c)) = c
         /\ \A d \in Clients : d = c \/ d = Other(c)
<1>1. IsFiniteSet(Clients \ {c}) /\ Cardinality(Clients \ {c}) = 1
  BY FS_RemoveElement, PathsAssumption
<1>2. PICK d : Clients \ {c} = {d}
  BY <1>1, FS_Singleton
<1>3. d \in Clients /\ d # c /\ \A e \in Clients : e = c \/ e = d
  BY <1>2
<1>4. Other(c) = d /\ Other(d) = c
  BY <1>3 DEF Other
<1> QED
  BY <1>3, <1>4

\* A counter that stops at its limit stays in its range.
LEMMA UpToType ==
  ASSUME NEW limit \in Nat, NEW n \in 0 .. limit
  PROVE  /\ UpTo(n + 1, limit) \in 0 .. limit
         /\ UpTo(n + 1, limit) = n + 1 \/ (n = limit /\ UpTo(n + 1, limit) = n)
BY DEF UpTo

LEMMA Bounds ==
  /\ PunchInterval \in Nat /\ PathKeepalive \in Nat /\ PathDeadline \in Nat
  /\ PunchAttempts \in Nat /\ NatTimeout \in Nat /\ MaxAddress \in Nat
  /\ MaxEvents \in Nat /\ None \notin Nat
BY PathsAssumption

LEMMA DirectType ==
  ASSUME at \in [Clients -> Addresses],
         NEW c \in Clients, NEW dst \in Addresses,
         NEW t \in {"punch", "ack", "handshake"}
  PROVE  /\ Direct(t, c, dst) \in Datagram
         /\ Direct(t, c, dst).type = t /\ Direct(t, c, dst).to = Other(c)
         /\ Direct(t, c, dst).src = at[c] /\ Direct(t, c, dst).dst = dst
BY OtherIs DEF Direct, Datagram

\* A request or an invitation is no datagram between the two.
LEMMA Kinds ==
  ASSUME NEW m \in Datagram \cup Control
  PROVE  /\ m.type \in {"punch", "ack", "handshake"} <=> m \in Datagram
         /\ m \in Datagram => /\ m.to \in Clients /\ m.src \in Addresses
                              /\ m.dst \in Addresses
         /\ m \notin Datagram => m.who \in Clients
BY DEF Datagram, Control

-----------------------------------------------------------------------------
(* Type correctness. *)

LEMMA OpensType ==
  ASSUME binding \in [Clients -> 0 .. NatTimeout], NEW c \in Clients, NEW dst,
         Opens(c, dst)
  PROVE  /\ binding' \in [Clients -> 0 .. NatTimeout]
         /\ \A d \in Clients : binding'[d] = 0 \/ binding'[d] = binding[d]
         /\ dst = at[Other(c)] => binding'[c] = 0
         /\ \A d \in Clients : d # c => binding'[d] = binding[d]
BY Bounds DEF Opens

LEMMA PunchType ==
  ASSUME TypeOK, NEW c \in Clients, NEW w \in SUBSET (Datagram \cup Control),
         NEW asks, Punch(c, w, asks)
  PROVE  /\ lastPunch' \in [Clients -> 0 .. PunchLimit]
         /\ rounds' \in [Clients -> 0 .. PunchAttempts + 1]
         /\ wire' \in SUBSET (Datagram \cup Control)
         /\ binding' \in [Clients -> 0 .. NatTimeout]
         /\ lastPunch'[c] = 0
         /\ \A d \in Clients : d # c => lastPunch'[d] = lastPunch[d]
<1>1. lastPunch' = [lastPunch EXCEPT ![c] = 0] /\ PunchLimit \in Nat
  BY Bounds DEF Punch, PunchLimit
<1>2. lastPunch' \in [Clients -> 0 .. PunchLimit]
  BY <1>1 DEF TypeOK
<1>3. rounds' \in [Clients -> 0 .. PunchAttempts + 1]
  <2>1. UpTo(rounds[c] + 1, PunchAttempts + 1) \in 0 .. PunchAttempts + 1
    BY Bounds DEF UpTo, TypeOK
  <2> QED
    BY <2>1 DEF Punch, TypeOK
<1>4. wire' \in SUBSET (Datagram \cup Control)
  <2>1. Direct("punch", c, publicEP[c]) \in Datagram /\ ToServer(c) \in Control
    BY DirectType DEF TypeOK, ToServer, Control
  <2> QED
    BY <2>1 DEF Punch
<1>5. binding' \in [Clients -> 0 .. NatTimeout]
  BY OpensType DEF Punch, TypeOK
<1> QED
  BY <1>1, <1>2, <1>3, <1>4, <1>5 DEF TypeOK

LEMMA EventType ==
  ASSUME TypeOK, NEW kind, Event(kind)
  PROVE  calm' \in 0 .. CalmLimit /\ events' \in 0 .. MaxEvents
BY Bounds DEF TypeOK, Event, CalmLimit

LEMMA TickTypes == ASSUME TypeOK, NEW c \in Clients, Tick(c) PROVE TypeOK'
<1>1. lastPunch' \in [Clients -> 0 .. PunchLimit]
  BY Bounds DEF Tick, TypeOK, UpTo, PunchLimit
<1>2. /\ directPath' \in [Clients -> Addresses \cup {None}]
      /\ lastAck' \in [Clients -> 0 .. AckLimit]
      /\ rounds' \in [Clients -> 0 .. PunchAttempts + 1]
      /\ todo' \in [Clients -> {"nothing", "keepalive", "probe"}]
  <2>1. PICK acked \in Elapsed(lastAck[c] + 1),
             punched \in Elapsed(lastPunch[c] + 1) :
       \/ /\ directPath[c] # None /\ PathLost(acked)
          /\ LosePath(c)
          /\ rounds' = [rounds EXCEPT ![c] = 0]
          /\ Decide(c, "probe")
       \/ /\ directPath[c] # None /\ ~PathLost(acked)
          /\ lastAck' = [lastAck EXCEPT ![c] = @ + 1]
          /\ IF KeepaliveDue(punched) THEN Decide(c, "keepalive")
                                      ELSE UNCHANGED todo
          /\ UNCHANGED <<directPath, rounds>>
       \/ /\ directPath[c] = None
          /\ IF ProbeDue(c, punched) THEN Decide(c, "probe") ELSE UNCHANGED todo
          /\ UNCHANGED <<path, rounds>>
    BY DEF Tick
  <2>2. acked >= lastAck[c] /\ lastAck[c] \in Nat /\ acked \in Int
    BY Bounds DEF Elapsed, TypeOK
  <2>3. CASE directPath[c] # None /\ ~PathLost(acked)
    BY <2>1, <2>2, <2>3, Bounds DEF TypeOK, PathLost, AckLimit, Decide
  <2>4. CASE directPath[c] # None /\ PathLost(acked)
    BY <2>1, <2>4, Bounds DEF TypeOK, AckLimit, Decide, LosePath
  <2>5. CASE directPath[c] = None
    BY <2>1, <2>5 DEF TypeOK, Decide, path
  <2> QED
    BY <2>3, <2>4, <2>5
<1> QED
  BY <1>1, <1>2 DEF Tick, TypeOK, network

LEMMA ConfirmType ==
  ASSUME TypeOK, NEW c \in Clients, NEW via \in Addresses \cup {None},
         \/ Confirm(c, via)
         \/ LosePath(c)
  PROVE  /\ directPath' \in [Clients -> Addresses \cup {None}]
         /\ lastAck' \in [Clients -> 0 .. AckLimit]
         /\ lastAck'[c] = 0 /\ directPath'[c] \in {via, None}
         /\ \A d \in Clients : d # c => /\ lastAck'[d] = lastAck[d]
                                        /\ directPath'[d] = directPath[d]
BY Bounds DEF TypeOK, Confirm, LosePath, AckLimit

LEMMA ClientTypes ==
  ASSUME TypeOK, NEW c \in Clients,
         \/ Act(c) \/ Wake(c) \/ SendDirect(c) \/ WriteFails(c) \/ GiveUpPath(c)
         \/ Move(c) \/ MergePeers(c)
  PROVE  TypeOK'
<1> USE DEF client, path, probing, acting, network
<1>1. CASE Act(c)
  <2>1. todo' \in [Clients -> {"nothing", "keepalive", "probe"}]
    BY <1>1 DEF Act, Decide, TypeOK
  <2> QED
    BY <1>1, <2>1, PunchType DEF Act, TypeOK
<1>2. CASE Wake(c)
  BY <1>2, PunchType, EventType DEF Wake, TypeOK
<1>3. CASE SendDirect(c)
  <2>0. directPath[c] \in Addresses
    BY <1>3 DEF SendDirect, TypeOK
  <2>1. Direct("handshake", c, directPath[c]) \in Datagram
    BY <2>0, DirectType DEF TypeOK
  <2>2. binding' \in [Clients -> 0 .. NatTimeout]
    BY <1>3, OpensType DEF SendDirect, TypeOK
  <2> QED
    BY <1>3, <2>1, <2>2, EventType DEF SendDirect, TypeOK
<1>4. CASE WriteFails(c)
  BY <1>4, EventType DEF WriteFails, TypeOK
<1>5. CASE GiveUpPath(c)
  BY <1>5, ConfirmType DEF GiveUpPath, TypeOK
<1>6. CASE Move(c)
  <2>1. at' \in [Clients -> Addresses]
    BY <1>6, Bounds DEF Move, TypeOK, Addresses
  <2>2. binding' \in [Clients -> 0 .. NatTimeout]
    BY <1>6, Bounds DEF Move
  <2> QED
    BY <1>6, <2>1, <2>2, EventType DEF Move, TypeOK
<1>7. CASE MergePeers(c)
  <2>1. publicEP' \in [Clients -> Addresses]
    BY <1>7, OtherIs DEF MergePeers, TypeOK
  <2>2. /\ rounds' \in [Clients -> 0 .. PunchAttempts + 1]
          /\ calm' \in 0 .. CalmLimit
    BY <1>7, Bounds DEF MergePeers, TypeOK, CalmLimit
  <2> QED
    BY <1>7, <2>1, <2>2, ConfirmType DEF MergePeers, TypeOK
<1> QED
  BY <1>1, <1>2, <1>3, <1>4, <1>5, <1>6, <1>7

LEMMA DatagramTypes ==
  ASSUME TypeOK,
         \/ \E m \in wire : Deliver(m) \/ Drop(m) \/ Delay(m)
         \/ \E m \in late : Arrive(m)
  PROVE  TypeOK'
<1> USE DEF client, path, probing, acting, network
<1>1. ASSUME NEW m \in wire, ReceivePunch(m)
      PROVE  TypeOK'
  <2>1. m \in Datagram
    BY <1>1, Kinds DEF ReceivePunch, TypeOK
  <2>2. /\ Direct("ack", m.to, m.src) \in Datagram
        /\ binding' \in [Clients -> 0 .. NatTimeout]
    BY <1>1, <2>1, Kinds, DirectType, OpensType DEF ReceivePunch, TypeOK
  <2> QED
    BY <1>1, <2>2 DEF ReceivePunch, TypeOK
<1>2. ASSUME NEW m \in wire, ReceiveConfirmation(m)
      PROVE  TypeOK'
  <2>1. m \in Datagram
    BY <1>2, Kinds DEF ReceiveConfirmation, TypeOK
  <2> QED
    BY <1>2, <2>1, Kinds, ConfirmType DEF ReceiveConfirmation, TypeOK
<1>3. ASSUME NEW m \in wire, HandlePunchReq(m)
      PROVE  TypeOK'
  BY <1>3 DEF HandlePunchReq, TypeOK, Control
<1>4. ASSUME NEW m \in wire, ReceiveInvite(m)
      PROVE  TypeOK'
  <2>1. m.who \in Clients
    BY <1>4, Kinds DEF ReceiveInvite, TypeOK
  <2>2. wire \ {m} \in SUBSET (Datagram \cup Control)
    BY DEF TypeOK
  <2> QED
    BY <1>4, <2>1, <2>2, PunchType DEF ReceiveInvite, TypeOK
<1>5. ASSUME NEW m \in wire, Drop(m) \/ Delay(m)
      PROVE  TypeOK'
  BY <1>5, EventType DEF Drop, Delay, TypeOK
<1>6. ASSUME NEW m \in late, Arrive(m)
      PROVE  TypeOK'
  BY <1>6, Bounds DEF Arrive, TypeOK, CalmLimit
<1> QED
  BY <1>1, <1>2, <1>3, <1>4, <1>5, <1>6 DEF Deliver

LEMMA NextTypes == TypeOK /\ [Next]_vars => TypeOK'
<1> SUFFICES ASSUME TypeOK, [Next]_vars PROVE TypeOK'
  OBVIOUS
<1> USE DEF client, path, probing, acting, network
<1>1. CASE Round
  <2>1. binding' \in [Clients -> 0 .. NatTimeout]
    BY <1>1, Bounds DEF Round, TypeOK, UpTo
  <2>2. calm' \in 0 .. CalmLimit
    BY <1>1, Bounds DEF Round, TypeOK, UpTo, CalmLimit
  <2> QED
    BY <1>1, <2>1, <2>2 DEF Round, TypeOK
<1>2. CASE Block \/ Unblock
  <2>1. calm' \in 0 .. CalmLimit /\ events' \in 0 .. MaxEvents
    BY <1>2, EventType, Bounds DEF Block, Unblock, TypeOK, CalmLimit
  <2> QED
    BY <1>2, <2>1 DEF Block, Unblock, TypeOK
<1>3. CASE UNCHANGED vars
  BY <1>3 DEF vars, TypeOK
<1> QED
  BY <1>1, <1>2, <1>3, TickTypes, ClientTypes, DatagramTypes DEF Next

\* Every path, timer, binding and datagram is of the kind the code has there,
\* and the timers stop at the limits named for them (Peer, maintainPeers).
THEOREM PathsTypes == Spec => []TypeOK
<1>1. ASSUME Init PROVE TypeOK
  <2>1. /\ 0 \in Addresses /\ 0 \in 0 .. AckLimit /\ 0 \in 0 .. PunchLimit
        /\ 1 \in 0 .. PunchAttempts + 1 /\ 0 \in 0 .. CalmLimit
        /\ 0 \in 0 .. NatTimeout /\ 0 \in 0 .. MaxEvents
    BY Bounds DEF Addresses, AckLimit, PunchLimit, CalmLimit
  <2>2. wire \in SUBSET (Datagram \cup Control)
    BY <1>1 DEF Init, ToServer, Control
  <2> QED
    BY <1>1, <2>1, <2>2 DEF Init, TypeOK
<1> QED
  BY <1>1, NextTypes, PTL DEF Spec

-----------------------------------------------------------------------------
(* A path that does not work is not used for long.                         *)
(*                                                                         *)
(* Since the network was last disturbed, calm rounds ago, every client has *)
(* had calm ticks, but for the one that this round still brings.  So a path*)
(* that nothing has confirmed since then is at least that old, and no path *)
(* gets older than pathDeadline.                                           *)

\* The tick a client has still to come in this round.
Behind(c) == IF c \in ticked THEN 0 ELSE 1

\* Once calm, all that is under way has been sent from where its sender is.
WireFresh == calm > 0 => \A m \in wire \cap Datagram : m.src = at[Other(m.to)]

\* A path is younger than the deadline, and one that does not work is at least
\* as old as the disturbance.
PathAges ==
  \A c \in Clients : directPath[c] # None =>
    /\ lastAck[c] <= PathDeadline
    /\ blocked \/ directPath[c] # at[Other(c)] => lastAck[c] + Behind(c) >= calm

AgesInv == TypeOK /\ WireFresh /\ PathAges

\* A step that sends no datagram, or one from where its sender is.
LEMMA FreshKept ==
  ASSUME AgesInv, NEW t \in {"punch", "ack", "handshake"}, NEW c \in Clients,
         NEW dst \in Addresses,
         \/ wire' \cap Datagram \subseteq wire \cup {Direct(t, c, dst)}
         \/ calm' = 0,
         at' = at \/ calm' = 0, calm' = calm \/ calm' = 0
  PROVE  WireFresh'
<1>1. CASE calm' = 0
  BY <1>1 DEF WireFresh
<1>2. CASE calm' # 0
  <2>1. Direct(t, c, dst).src = at[Other(Direct(t, c, dst).to)]
    BY DirectType, OtherIs DEF AgesInv, TypeOK
  <2>2. calm > 0
    BY <1>2, Bounds DEF AgesInv, TypeOK, CalmLimit
  <2> QED
    BY <1>2, <2>1, <2>2 DEF WireFresh, AgesInv
<1> QED
  BY <1>1, <1>2

\* A step that makes no path and disturbs nothing.
LEMMA AgesKept ==
  ASSUME AgesInv, TypeOK', ticked' = ticked, at' = at, blocked' = blocked,
         calm' = calm,
         \A c \in Clients :
           directPath'[c] = None \/ (/\ directPath'[c] = directPath[c]
                                     /\ lastAck'[c] = lastAck[c])
  PROVE  PathAges'
BY DEF AgesInv, PathAges, Behind

\* A step that disturbs: there is no need for a path to be of any age.
LEMMA AgesDisturbed ==
  ASSUME AgesInv, TypeOK', calm' = 0,
         \A c \in Clients :
           directPath'[c] = None \/ (/\ directPath'[c] = directPath[c]
                                     /\ lastAck'[c] = lastAck[c])
  PROVE  PathAges'
<1> SUFFICES ASSUME NEW c \in Clients, directPath'[c] # None
             PROVE  /\ lastAck'[c] <= PathDeadline
                    /\ lastAck'[c] + Behind(c)' >= calm'
  BY DEF PathAges
<1> QED
  BY Bounds DEF AgesInv, PathAges, Behind, TypeOK, AckLimit

LEMMA TickAges ==
  ASSUME AgesInv, TypeOK', NEW c \in Clients, Tick(c)
  PROVE  AgesInv'
<1>1. WireFresh'
  BY DEF Tick, network, AgesInv, WireFresh
<1>2. \A d \in Clients : d # c => /\ directPath'[d] = directPath[d]
                                  /\ lastAck'[d] = lastAck[d]
                                  /\ d \in ticked' <=> d \in ticked
  BY DEF Tick, AgesInv, TypeOK, LosePath, path
<1>3. directPath'[c] = None \/ (/\ directPath'[c] = directPath[c]
                                /\ lastAck'[c] = lastAck[c] + 1
                                /\ lastAck[c] + 1 <= PathDeadline)
  <2>1. PICK acked \in Elapsed(lastAck[c] + 1) :
       \/ directPath[c] # None /\ LosePath(c)
       \/ /\ ~PathLost(acked)
          /\ lastAck' = [lastAck EXCEPT ![c] = @ + 1]
          /\ UNCHANGED directPath
       \/ directPath[c] = None /\ UNCHANGED path
    BY DEF Tick
  <2>2. acked >= lastAck[c] /\ lastAck[c] \in Nat /\ acked \in Int
    BY Bounds DEF Elapsed, AgesInv, TypeOK
  <2> QED
    BY <2>1, <2>2, Bounds DEF PathLost, LosePath, path, AgesInv, TypeOK
<1>4. c \notin ticked /\ c \in ticked'
  BY DEF Tick
<1>5. at' = at /\ blocked' = blocked /\ calm' = calm
  BY DEF Tick, network
<1>6. PathAges'
  BY <1>2, <1>3, <1>4, <1>5 DEF PathAges, Behind, AgesInv, TypeOK
<1> QED
  BY <1>1, <1>6 DEF AgesInv

LEMMA ClientAges ==
  ASSUME AgesInv, TypeOK', NEW c \in Clients,
         \/ Act(c) \/ Wake(c) \/ SendDirect(c) \/ WriteFails(c) \/ GiveUpPath(c)
         \/ Move(c) \/ MergePeers(c)
  PROVE  AgesInv'
<1> USE DEF client, path, probing, acting, network
<1>1. publicEP[c] \in Addresses /\ ToServer(c) \notin Datagram
  BY DEF AgesInv, TypeOK, ToServer, Datagram
<1>2. \A d \in Clients :
         directPath'[d] = None \/ (/\ directPath'[d] = directPath[d]
                                   /\ lastAck'[d] = lastAck[d])
  BY DEF Act, Wake, SendDirect, WriteFails, GiveUpPath, Move, MergePeers,
         LosePath, AgesInv, TypeOK
<1>3. CASE Act(c) \/ Wake(c)
  <2>1. /\ wire' \cap Datagram \subseteq
             wire \cup {Direct("punch", c, publicEP[c])}
        /\ calm' = calm
    BY <1>1, <1>3 DEF Act, Wake, Punch, Event, Faults
  <2>2. WireFresh'
    BY <1>1, <1>3, <2>1, FreshKept DEF Act, Wake
  <2>3. PathAges'
    BY <1>2, <1>3, <2>1, AgesKept DEF Act, Wake
  <2> QED
    BY <2>2, <2>3 DEF AgesInv
<1>4. CASE SendDirect(c)
  <2>1. /\ wire' \cap Datagram \subseteq
             wire \cup {Direct("handshake", c, directPath[c])}
        /\ calm' = calm /\ directPath[c] \in Addresses
    BY <1>4 DEF SendDirect, Event, Faults, AgesInv, TypeOK
  <2>2. WireFresh'
    BY <1>4, <2>1, FreshKept DEF SendDirect
  <2>3. PathAges'
    BY <1>2, <1>4, <2>1, AgesKept DEF SendDirect
  <2> QED
    BY <2>2, <2>3 DEF AgesInv
<1>5. CASE GiveUpPath(c)
  <2>1. WireFresh'
    BY <1>5 DEF GiveUpPath, AgesInv, WireFresh
  <2>2. PathAges'
    BY <1>2, <1>5, AgesKept DEF GiveUpPath
  <2> QED
    BY <2>1, <2>2 DEF AgesInv
<1>6. CASE WriteFails(c) \/ Move(c) \/ MergePeers(c)
  <2>1. calm' = 0
    BY <1>6 DEF WriteFails, Move, MergePeers, Event, Faults
  <2>2. PathAges'
    BY <1>2, <2>1, AgesDisturbed
  <2> QED
    BY <2>1, <2>2 DEF AgesInv, WireFresh
<1> QED
  BY <1>3, <1>4, <1>5, <1>6

LEMMA DatagramAges ==
  ASSUME AgesInv, TypeOK',
         \/ \E m \in wire : Deliver(m) \/ Drop(m) \/ Delay(m)
         \/ \E m \in late : Arrive(m)
  PROVE  AgesInv'
<1> USE DEF client, path, probing, acting, network
<1>1. ASSUME NEW m \in wire, ReceivePunch(m)
      PROVE  AgesInv'
  <2>1. m \in Datagram
    BY <1>1, Kinds DEF ReceivePunch, AgesInv, TypeOK
  <2>2. m.to \in Clients /\ m.src \in Addresses
    BY <2>1, Kinds
  <2>3. WireFresh'
    BY <1>1, <2>2, FreshKept DEF ReceivePunch
  <2>4. PathAges'
    BY <1>1, AgesKept DEF ReceivePunch
  <2> QED
    BY <2>3, <2>4 DEF AgesInv
<1>2. ASSUME NEW m \in wire, ReceiveConfirmation(m)
      PROVE  AgesInv'
  <2>1. m \in Datagram /\ m.to \in Clients /\ m.src \in Addresses
    BY <1>2, Kinds DEF ReceiveConfirmation, AgesInv, TypeOK
  <2>2. /\ lastAck'[m.to] = 0 /\ directPath'[m.to] = m.src
        /\ \A d \in Clients : d # m.to => /\ lastAck'[d] = lastAck[d]
                                          /\ directPath'[d] = directPath[d]
    BY <1>2, <2>1 DEF ReceiveConfirmation, Confirm, AgesInv, TypeOK
  <2>3. ~blocked /\ (calm > 0 => m.src = at[Other(m.to)])
    BY <1>2, <2>1 DEF ReceiveConfirmation, MayPass, AgesInv, WireFresh
  <2>4. /\ at' = at /\ blocked' = blocked /\ calm' = calm /\ ticked' = ticked
        /\ wire' \subseteq wire
    BY <1>2 DEF ReceiveConfirmation
  <2>5. WireFresh'
    BY <2>4 DEF AgesInv, WireFresh
  <2>6. PathAges'
    BY <2>2, <2>3, <2>4, Bounds DEF AgesInv, PathAges, Behind, TypeOK, CalmLimit
  <2> QED
    BY <2>5, <2>6 DEF AgesInv
<1>3. ASSUME NEW m \in wire, HandlePunchReq(m)
      PROVE  AgesInv'
  <2>1. wire' \cap Datagram \subseteq wire
    BY <1>3 DEF HandlePunchReq, Datagram
  <2>2. WireFresh'
    BY <1>3, <2>1 DEF HandlePunchReq, AgesInv, WireFresh
  <2>3. PathAges'
    BY <1>3, AgesKept DEF HandlePunchReq
  <2> QED
    BY <2>2, <2>3 DEF AgesInv
<1>4. ASSUME NEW m \in wire, ReceiveInvite(m)
      PROVE  AgesInv'
  <2>1. m.who \in Clients /\ publicEP[m.who] \in Addresses
    BY <1>4, Kinds DEF ReceiveInvite, AgesInv, TypeOK
  <2>2. WireFresh'
    BY <1>4, <2>1, FreshKept DEF ReceiveInvite, Punch
  <2>3. PathAges'
    BY <1>4, AgesKept DEF ReceiveInvite
  <2> QED
    BY <2>2, <2>3 DEF AgesInv
<1>5. ASSUME NEW m \in wire, Drop(m)
      PROVE  AgesInv'
  <2>1. WireFresh'
    BY <1>5 DEF Drop, Event, Faults, AgesInv, WireFresh
  <2>2. PathAges'
    BY <1>5, AgesKept, AgesDisturbed DEF Drop, Event, Faults
  <2> QED
    BY <2>1, <2>2 DEF AgesInv
<1>6. ASSUME \/ \E m \in wire : Delay(m)
             \/ \E m \in late : Arrive(m)
      PROVE  AgesInv'
  BY <1>6, AgesDisturbed DEF Delay, Arrive, Event, Faults, AgesInv, WireFresh
<1> QED
  BY <1>1, <1>2, <1>3, <1>4, <1>5, <1>6 DEF Deliver

LEMMA NextAges == AgesInv /\ TypeOK' /\ [Next]_vars => AgesInv'
<1> SUFFICES ASSUME AgesInv, TypeOK', [Next]_vars PROVE AgesInv'
  OBVIOUS
<1> USE DEF client, path, probing, acting, network
<1>1. CASE Round
  <2>1. WireFresh'
    BY <1>1 DEF Round, WireFresh
  <2>2. PathAges'
    BY <1>1, Bounds
       DEF Round, AgesInv, PathAges, Behind, TypeOK, UpTo, CalmLimit
  <2> QED
    BY <2>1, <2>2 DEF AgesInv
<1>2. CASE Block \/ Unblock
  BY <1>2, AgesDisturbed DEF Block, Unblock, Event, Faults, AgesInv, WireFresh
<1>3. CASE UNCHANGED vars
  <2>1. PathAges'
    BY <1>3, AgesKept DEF vars
  <2> QED
    BY <1>3, <2>1 DEF vars, AgesInv, WireFresh
<1> QED
  BY <1>1, <1>2, <1>3, TickAges, ClientAges, DatagramAges DEF Next

LEMMA AgesHold == Spec => []AgesInv
<1>1. Init => WireFresh /\ PathAges
  BY DEF Init, WireFresh, PathAges
<1>2. TypeOK /\ WireFresh /\ PathAges <=> AgesInv
  BY DEF AgesInv
<1> QED
  BY <1>1, <1>2, NextAges, PathsTypes, PTL DEF Spec

\* However the three intervals are chosen, and whatever is lost, late, blocked
\* or moved: a path that has stopped working is left for the relay at the
\* latest one tick after pathDeadline (maintainPeers, handlePeerMessage).
THEOREM NoBlackHoles == Spec => []NoBlackHole
<1>1. AgesInv => NoBlackHole
  BY Bounds DEF AgesInv, PathAges, Behind, NoBlackHole, TypeOK, AckLimit,
                CalmLimit
<1> QED
  BY <1>1, AgesHold, PTL

-----------------------------------------------------------------------------
(* A path that works is kept.                                              *)
(*                                                                         *)
(* A probe opens the binding of its sender, and the answer that of the     *)
(* other end; once calm nothing is under way that a binding would stop.  So*)
(* a path that was confirmed since the last disturbance is confirmed again *)
(* in the very round of each probe: it never gets older than the last probe*)
(* under pathKeepalive, and the binding at the other end no older than it. *)

\* A probe and its answer fit into the deadline, and into what a NAT remembers.
IntervalsFit ==
  /\ PunchInterval > 0
  /\ PathKeepalive + 1 < PathDeadline /\ PathKeepalive + 1 < NatTimeout

\* Once calm, who has sent something has an open binding, and an answer finds
\* the one that asked.
WireOpen ==
  calm > 0 => \A m \in wire \cap Datagram :
    /\ m.dst = at[m.to] => binding[Other(m.to)] = 0
    /\ m.type = "ack" => m.dst = at[m.to] /\ binding[m.to] = 0

\* A write that fails does so in a round that is not calm.
WritesDisturb == \A c \in Clients : writing[c] # None => calm = 0

\* A probe of c, or the answer to one.
UnderWay(c) ==
  \E m \in wire \cap Datagram :
    \/ m.type = "punch" /\ m.to = Other(c) /\ m.dst = at[Other(c)]
    \/ m.type = "ack" /\ m.to = c

\* The path of c works, and has been confirmed since the last disturbance.
Works(c) == /\ ~blocked /\ publicEP[c] = at[Other(c)] /\ directPath[c] # None
            /\ lastAck[c] + Behind(c) < calm

Lively(c) ==
  /\ binding[Other(c)] <= lastAck[c] + Behind(c)
  /\ lastAck[c] <= lastPunch[c] \/ UnderWay(c)
  /\ c \in ticked /\ todo[c] = "nothing" /\ lastAck[c] > 0 =>
       lastPunch[c] <= PathKeepalive
  /\ lastAck[c] + Behind(c) <= PathKeepalive + 1

WorkingLively == \A c \in Clients : Works(c) => Lively(c)

KeptInv == AgesInv /\ WireOpen /\ WritesDisturb /\ WorkingLively

\* A step after which the network is not calm.
LEMMA KeptDisturbed ==
  ASSUME AgesInv', calm' = 0
  PROVE  KeptInv'
BY Bounds DEF AgesInv, KeptInv, WireOpen, WritesDisturb, WorkingLively, Works,
              Behind, TypeOK, AckLimit

\* A step that does nothing to a path but to probe it.
LEMMA LivelyKept ==
  ASSUME KeptInv, TypeOK', NEW c \in Clients,
         at' = at, publicEP' = publicEP, blocked' = blocked, calm' = calm,
         ticked' = ticked,
         directPath'[c] = None \/ (/\ directPath'[c] = directPath[c]
                                   /\ lastAck'[c] = lastAck[c]),
         binding'[Other(c)] <= binding[Other(c)],
         \/ lastPunch'[c] = lastPunch[c] /\ todo'[c] = todo[c]
            /\ (Works(c) /\ UnderWay(c) => UnderWay(c)')
         \/ lastPunch'[c] = 0 /\ (Works(c)' => UnderWay(c)')
  PROVE  Works(c)' => Lively(c)'
<1> SUFFICES ASSUME Works(c)' PROVE Lively(c)'
  OBVIOUS
<1>1. directPath'[c] = directPath[c] /\ lastAck'[c] = lastAck[c]
  BY DEF Works
<1>2. Works(c) /\ Behind(c)' = Behind(c)
  BY <1>1 DEF Works, Behind
<1>3. Lively(c)
  BY <1>2 DEF KeptInv, WorkingLively
<1>4. /\ Other(c) \in Clients /\ binding[Other(c)] \in Nat
      /\ binding'[Other(c)] \in Nat /\ lastAck[c] \in Nat /\ Behind(c) \in Nat
  BY OtherIs, Bounds DEF KeptInv, AgesInv, TypeOK, AckLimit, Behind
<1> QED
  BY <1>1, <1>2, <1>3, <1>4, Bounds DEF Lively

\* Whatever passes is not stopped, and what a step sends, its sender has opened
\* the binding for.
LEMMA OpenKept ==
  ASSUME KeptInv, TypeOK', at' = at, calm' = calm, NEW c \in Clients,
         NEW t \in {"punch", "handshake"}, NEW dst \in Addresses,
         Opens(c, dst),
         wire' \cap Datagram \subseteq wire \cup {Direct(t, c, dst)}
  PROVE  WireOpen'
<1> SUFFICES ASSUME calm > 0, NEW m \in wire' \cap Datagram
             PROVE  /\ m.dst = at[m.to] => binding'[Other(m.to)] = 0
                    /\ m.type = "ack" => m.dst = at[m.to] /\ binding'[m.to] = 0
  BY DEF WireOpen
<1>1. /\ \A d \in Clients : binding'[d] = 0 \/ binding'[d] = binding[d]
      /\ dst = at[Other(c)] => binding'[c] = 0
  BY OpensType DEF KeptInv, AgesInv, TypeOK
<1>2. CASE m \in wire
  <2>1. m.to \in Clients /\ Other(m.to) \in Clients
    BY Kinds, OtherIs
  <2> QED
    BY <1>1, <1>2, <2>1 DEF KeptInv, WireOpen
<1>3. CASE m = Direct(t, c, dst)
  <2>1. m.to = Other(c) /\ m.dst = dst /\ m.type # "ack" /\ Other(Other(c)) = c
    BY <1>3, DirectType, OtherIs DEF KeptInv, AgesInv, TypeOK
  <2> QED
    BY <1>1, <2>1
<1> QED
  BY <1>2, <1>3

\* What a probe of c that works sends is on its way, and stays there.
LEMMA PunchUnderWay ==
  ASSUME KeptInv, at' = at, publicEP' = publicEP, NEW c \in Clients,
         NEW w \in SUBSET (Datagram \cup Control), NEW asks, Punch(c, w, asks)
  PROVE  /\ Works(c)' => UnderWay(c)'
         /\ wire \cap Datagram \subseteq w =>
              \A d \in Clients : UnderWay(d) => UnderWay(d)'
         /\ wire' \cap Datagram \subseteq
              w \cup {Direct("punch", c, publicEP[c])}
<1>1. publicEP[c] \in Addresses /\ ToServer(c) \notin Datagram
  BY DEF KeptInv, AgesInv, TypeOK, ToServer, Datagram
<1>2. Direct("punch", c, publicEP[c]) \in wire' \cap Datagram
  BY <1>1, DirectType DEF Punch, KeptInv, AgesInv, TypeOK
<1>3. /\ Direct("punch", c, publicEP[c]).type = "punch"
      /\ Direct("punch", c, publicEP[c]).to = Other(c)
      /\ Direct("punch", c, publicEP[c]).dst = publicEP[c]
  BY <1>1, DirectType DEF KeptInv, AgesInv, TypeOK
<1>4. Works(c)' => UnderWay(c)'
  BY <1>2, <1>3 DEF Works, UnderWay
<1>5. wire \cap Datagram \subseteq w =>
        \A d \in Clients : UnderWay(d) => UnderWay(d)'
  BY DEF UnderWay, Punch
<1> QED
  BY <1>1, <1>4, <1>5 DEF Punch

LEMMA TickLively ==
  ASSUME IntervalsFit, KeptInv, TypeOK', AgesInv', NEW c \in Clients, Tick(c)
  PROVE  KeptInv'
<1>1. UNCHANGED <<publicEP, writing, binding, wire, network>>
  BY DEF Tick
<1>2. WireOpen' /\ WritesDisturb'
  BY <1>1 DEF KeptInv, WireOpen, WritesDisturb, network
<1>3. ASSUME NEW d \in Clients, d # c
      PROVE  Works(d)' => Lively(d)'
  <2>1. /\ directPath'[d] = directPath[d] /\ lastAck'[d] = lastAck[d]
        /\ lastPunch'[d] = lastPunch[d] /\ todo'[d] = todo[d]
        /\ d \in ticked' <=> d \in ticked
    BY <1>3 DEF Tick, LosePath, Decide, path, KeptInv, AgesInv, TypeOK
  <2> QED
    BY <1>1, <2>1 DEF KeptInv, WorkingLively, Works, Lively, Behind, UnderWay,
                      network
<1>4. ASSUME Works(c)'
      PROVE  Lively(c)'
  <2>1. c \notin ticked /\ c \in ticked'
    BY DEF Tick
  <2>2. lastPunch' = [lastPunch EXCEPT ![c] = UpTo(@ + 1, PunchLimit)]
    BY DEF Tick
  <2>3. directPath'[c] # None /\ ~blocked /\ publicEP[c] = at[Other(c)]
    BY <1>1, <1>4 DEF Works, network
  <2>4. PICK punched \in Elapsed(lastPunch[c] + 1) :
          /\ directPath[c] # None /\ UNCHANGED directPath
          /\ lastAck' = [lastAck EXCEPT ![c] = @ + 1]
          /\ IF KeepaliveDue(punched) THEN Decide(c, "keepalive")
                                      ELSE UNCHANGED todo
    BY <2>3 DEF Tick, LosePath, path, KeptInv, AgesInv, TypeOK
  <2>5. /\ lastAck[c] \in Nat /\ lastAck'[c] = lastAck[c] + 1
        /\ lastPunch[c] \in 0 .. PunchLimit /\ PunchLimit \in Nat
        /\ lastPunch'[c] = UpTo(lastPunch[c] + 1, PunchLimit)
    BY <2>2, <2>4, Bounds DEF KeptInv, AgesInv, TypeOK, PunchLimit
  <2>6. Works(c)
    BY <1>1, <1>4, <2>1, <2>3, <2>4, <2>5, Bounds
       DEF Works, Behind, network, KeptInv, AgesInv, TypeOK, CalmLimit
  <2>7. Lively(c)
    BY <2>6 DEF KeptInv, WorkingLively
  <2>8. binding'[Other(c)] <= lastAck'[c] + Behind(c)'
    BY <1>1, <2>1, <2>5, <2>7, OtherIs, Bounds
       DEF Lively, Behind, KeptInv, AgesInv, TypeOK
  <2>9. lastAck'[c] + Behind(c)' <= PathKeepalive + 1
    BY <2>1, <2>5, <2>7, Bounds DEF Lively, Behind
  <2>10. lastAck'[c] <= lastPunch'[c] \/ UnderWay(c)'
    <3>1. CASE UnderWay(c)
      BY <1>1, <3>1 DEF UnderWay, network
    <3>2. CASE lastAck[c] <= lastPunch[c]
      BY <2>1, <2>5, <2>9, <3>2, Bounds
         DEF IntervalsFit, UpTo, PunchLimit, Behind
    <3> QED
      BY <2>7, <3>1, <3>2 DEF Lively
  <2>11. todo'[c] = "nothing" => lastPunch'[c] <= PathKeepalive
    <3>1. todo'[c] = "nothing" => ~KeepaliveDue(punched)
      BY <2>4 DEF Decide, KeptInv, AgesInv, TypeOK
    <3>2. ~KeepaliveDue(punched) => lastPunch[c] < PathKeepalive
      BY <2>5, Bounds DEF KeepaliveDue, Elapsed
    <3> QED
      BY <2>5, <3>1, <3>2, UpToType, Bounds DEF UpTo
  <2> QED
    BY <2>8, <2>9, <2>10, <2>11 DEF Lively
<1> QED
  BY <1>2, <1>3, <1>4 DEF KeptInv, WorkingLively

LEMMA ClientLively ==
  ASSUME IntervalsFit, KeptInv, TypeOK', AgesInv', NEW c \in Clients,
         \/ Act(c) \/ Wake(c) \/ SendDirect(c) \/ WriteFails(c) \/ GiveUpPath(c)
         \/ Move(c) \/ MergePeers(c)
  PROVE  KeptInv'
<1> USE DEF client, path, probing, acting, network
<1>1. CASE Act(c) \/ Wake(c)
  <2>1. /\ UNCHANGED <<at, publicEP, directPath, lastAck, writing>>
        /\ UNCHANGED <<blocked, ticked>>
        /\ calm' = calm
    BY <1>1 DEF Act, Wake, Event, Faults
  <2>2. PICK asks : Punch(c, wire, asks)
    BY <1>1 DEF Act, Wake
  <2>3. wire \in SUBSET (Datagram \cup Control) /\ publicEP[c] \in Addresses
    BY DEF KeptInv, AgesInv, TypeOK
  <2>4. /\ Works(c)' => UnderWay(c)'
        /\ \A d \in Clients : UnderWay(d) => UnderWay(d)'
        /\ wire' \cap Datagram \subseteq
             wire \cup {Direct("punch", c, publicEP[c])}
    BY <2>1, <2>2, <2>3, PunchUnderWay
  <2>5. WireOpen'
    BY <2>1, <2>2, <2>3, <2>4, OpenKept DEF Punch
  <2>6. /\ lastPunch'[c] = 0
        /\ \A d \in Clients : d # c => /\ lastPunch'[d] = lastPunch[d]
                                       /\ todo'[d] = todo[d]
    BY <1>1, <2>2, <2>3, PunchType
       DEF Act, Wake, Decide, KeptInv, AgesInv, TypeOK
  <2>7. \A d \in Clients : /\ Other(d) \in Clients
                           /\ binding'[Other(d)] <= binding[Other(d)]
    BY <2>2, OpensType, OtherIs, Bounds DEF Punch, KeptInv, AgesInv, TypeOK
  <2>8. \A d \in Clients : Works(d)' => Lively(d)'
    BY <2>1, <2>4, <2>6, <2>7, LivelyKept
  <2> QED
    BY <2>1, <2>5, <2>8 DEF KeptInv, WritesDisturb, WorkingLively
<1>2. CASE SendDirect(c)
  <2>1. /\ UNCHANGED <<at, publicEP, path, probing, acting, blocked, ticked>>
        /\ calm' = calm /\ directPath[c] \in Addresses
        /\ wire' \cap Datagram \subseteq
             wire \cup {Direct("handshake", c, directPath[c])}
        /\ wire \subseteq wire' /\ Opens(c, directPath[c])
    BY <1>2 DEF SendDirect, Event, Faults, KeptInv, AgesInv, TypeOK
  <2>2. WireOpen'
    BY <2>1, OpenKept
  <2>3. \A d \in Clients : /\ Other(d) \in Clients
                           /\ binding'[Other(d)] <= binding[Other(d)]
    BY <2>1, OpensType, OtherIs, Bounds DEF KeptInv, AgesInv, TypeOK
  <2>4. \A d \in Clients : UnderWay(d) => UnderWay(d)'
    BY <2>1 DEF UnderWay
  <2>5. \A d \in Clients : Works(d)' => Lively(d)'
    BY <2>1, <2>3, <2>4, LivelyKept
  <2> QED
    BY <2>1, <2>2, <2>5 DEF KeptInv, WritesDisturb, WorkingLively
<1>3. CASE GiveUpPath(c)
  <2>1. UNCHANGED <<publicEP, probing, todo, binding, wire, ticked, network>>
    BY <1>3 DEF GiveUpPath
  <2>2. \A d \in Clients :
          directPath'[d] = None \/ (/\ directPath'[d] = directPath[d]
                                    /\ lastAck'[d] = lastAck[d])
    BY <1>3 DEF GiveUpPath, LosePath, KeptInv, AgesInv, TypeOK
  <2>3. \A d \in Clients : /\ UnderWay(d) => UnderWay(d)'
                           /\ binding'[Other(d)] <= binding[Other(d)]
    BY <2>1, OtherIs, Bounds DEF UnderWay, KeptInv, AgesInv, TypeOK
  <2>4. \A d \in Clients : Works(d)' => Lively(d)'
    BY <2>1, <2>2, <2>3, LivelyKept
  <2>5. WritesDisturb'
    BY <1>3 DEF GiveUpPath, KeptInv, WritesDisturb, AgesInv, TypeOK
  <2> QED
    BY <2>1, <2>4, <2>5 DEF KeptInv, WireOpen, WorkingLively
<1>4. CASE WriteFails(c) \/ Move(c) \/ MergePeers(c)
  <2>1. calm' = 0
    BY <1>4 DEF WriteFails, Move, MergePeers, Event, Faults
  <2> QED
    BY <2>1, KeptDisturbed
<1> QED
  BY <1>1, <1>2, <1>3, <1>4

LEMMA ReceivePunchLively ==
  ASSUME IntervalsFit, KeptInv, TypeOK', AgesInv', NEW m \in wire,
         ReceivePunch(m)
  PROVE  KeptInv'
<1> USE DEF client, path, probing, acting, network
<1> DEFINE ack == Direct("ack", m.to, m.src)
<1>1. UNCHANGED <<client, ticked, network>>
  BY DEF ReceivePunch
<1>2. /\ m \in Datagram /\ m.type = "punch" /\ m.to \in Clients
      /\ m.src \in Addresses /\ m.dst = at[m.to]
  BY Kinds DEF ReceivePunch, MayPass, KeptInv, AgesInv, TypeOK
<1>3. /\ ack \in Datagram /\ ack.type = "ack" /\ ack.to = Other(m.to)
      /\ ack.dst = m.src
  BY <1>2, DirectType DEF KeptInv, AgesInv, TypeOK
<1>4. wire' = (wire \ {m}) \cup {ack} /\ Opens(m.to, m.src)
  BY DEF ReceivePunch
<1>5. /\ \A d \in Clients : /\ Other(d) \in Clients
                            /\ binding'[d] = 0 \/ binding'[d] = binding[d]
                            /\ binding'[Other(d)] <= binding[Other(d)]
      /\ m.src = at[Other(m.to)] => binding'[m.to] = 0
  BY <1>2, <1>4, OpensType, OtherIs, Bounds DEF KeptInv, AgesInv, TypeOK
<1> HIDE DEF ack
<1>6. WireOpen'
  <2> SUFFICES ASSUME calm > 0, NEW n \in wire' \cap Datagram
               PROVE  /\ n.dst = at[n.to] => binding'[Other(n.to)] = 0
                      /\ n.type = "ack" =>
                           n.dst = at[n.to] /\ binding'[n.to] = 0
    BY <1>1 DEF WireOpen
  <2>1. CASE n \in wire
    <3>1. n.to \in Clients /\ Other(n.to) \in Clients
      BY Kinds, OtherIs
    <3> QED
      BY <1>5, <2>1, <3>1 DEF KeptInv, WireOpen
  <2>2. CASE n = ack
    <3>1. m.src = at[Other(m.to)]
      BY <1>2 DEF KeptInv, AgesInv, WireFresh
    <3>2. binding[Other(m.to)] = 0
      BY <1>2 DEF KeptInv, WireOpen
    <3>3. Other(Other(m.to)) = m.to /\ Other(m.to) \in Clients
      BY <1>2, OtherIs
    <3> QED
      BY <1>3, <1>5, <2>2, <3>1, <3>2, <3>3
  <2> QED
    BY <1>4, <2>1, <2>2
<1>7. \A d \in Clients : UnderWay(d) => UnderWay(d)'
  <2> SUFFICES ASSUME NEW d \in Clients, UnderWay(d)
               PROVE  UnderWay(d)'
    OBVIOUS
  <2>1. PICK n \in wire \cap Datagram :
          \/ n.type = "punch" /\ n.to = Other(d) /\ n.dst = at[Other(d)]
          \/ n.type = "ack" /\ n.to = d
    BY DEF UnderWay
  <2>2. CASE n = m
    <3>1. ack.to = d
      BY <1>2, <1>3, <2>1, <2>2, OtherIs
    <3> QED
      BY <1>3, <1>4, <3>1 DEF UnderWay
  <2>3. CASE n # m
    BY <1>1, <1>4, <2>1, <2>3 DEF UnderWay
  <2> QED
    BY <2>2, <2>3
<1>8. \A d \in Clients : Works(d)' => Lively(d)'
  BY <1>1, <1>5, <1>7, LivelyKept
<1> QED
  BY <1>1, <1>6, <1>8 DEF KeptInv, WritesDisturb, WorkingLively

LEMMA ReceiveConfirmationLively ==
  ASSUME IntervalsFit, KeptInv, TypeOK', AgesInv', NEW m \in wire,
         ReceiveConfirmation(m)
  PROVE  KeptInv'
<1> USE DEF client, path, probing, acting, network
<1>1. UNCHANGED <<publicEP, probing, acting, binding, ticked, network>>
  BY DEF ReceiveConfirmation
<1>2. /\ m \in Datagram /\ m.type # "punch" /\ m.to \in Clients
      /\ m.dst = at[m.to] /\ wire' = wire \ {m}
  BY Kinds DEF ReceiveConfirmation, MayPass, KeptInv, AgesInv, TypeOK
<1>3. WireOpen' /\ WritesDisturb'
  BY <1>1, <1>2 DEF KeptInv, WireOpen, WritesDisturb
<1>4. ASSUME NEW d \in Clients, d # m.to
      PROVE  Works(d)' => Lively(d)'
  <2>1. lastAck'[d] = lastAck[d] /\ directPath'[d] = directPath[d]
    BY <1>4 DEF ReceiveConfirmation, Confirm, KeptInv, AgesInv, TypeOK
  <2>2. UnderWay(d) => UnderWay(d)'
    BY <1>1, <1>2, <1>4 DEF UnderWay
  <2>3. binding'[Other(d)] <= binding[Other(d)]
    BY <1>1, OtherIs, Bounds DEF KeptInv, AgesInv, TypeOK
  <2> QED
    BY <1>1, <2>1, <2>2, <2>3, LivelyKept
<1>5. ASSUME Works(m.to)'
      PROVE  Lively(m.to)'
  <2>1. lastAck'[m.to] = 0
    BY <1>2 DEF ReceiveConfirmation, Confirm, KeptInv, AgesInv, TypeOK
  <2>2. calm > 0
    BY <1>1, <1>5, <2>1, Bounds DEF Works, Behind, KeptInv, AgesInv, TypeOK,
       CalmLimit
  <2>3. binding'[Other(m.to)] = 0
    BY <1>1, <1>2, <2>2 DEF KeptInv, WireOpen
  <2>4. lastPunch'[m.to] \in Nat
    BY <1>2, Bounds DEF TypeOK, PunchLimit
  <2> QED
    BY <2>1, <2>3, <2>4, Bounds DEF Lively, Behind
<1> QED
  BY <1>3, <1>4, <1>5 DEF KeptInv, WorkingLively

\* Nothing that a working path depends on is stopped on its way.
LEMMA DropLively ==
  ASSUME IntervalsFit, KeptInv, TypeOK', AgesInv', NEW m \in wire, Drop(m)
  PROVE  KeptInv'
<1> USE DEF client, path, probing, acting, network
<1>1. CASE calm' = 0
  BY <1>1, KeptDisturbed
<1>2. CASE calm' # 0
  <2>1. /\ UNCHANGED <<at, client, binding, late, blocked, ticked, calm>>
        /\ m \in Datagram /\ (~MayPass(m) \/ m.src # at[Other(m.to)])
        /\ wire' = wire \ {m}
    BY <1>2 DEF Drop, Event, Faults
  <2>2. calm > 0
    BY <1>2, <2>1, Bounds DEF KeptInv, AgesInv, TypeOK, CalmLimit
  <2>3. m.src = at[Other(m.to)] /\ ~MayPass(m)
    BY <2>1, <2>2 DEF KeptInv, AgesInv, WireFresh
  <2>4. WireOpen' /\ WritesDisturb'
    BY <2>1 DEF KeptInv, WireOpen, WritesDisturb
  <2>5. ASSUME NEW d \in Clients, Works(d), UnderWay(d)
        PROVE  UnderWay(d)'
    <3>1. PICK n \in wire \cap Datagram :
            \/ n.type = "punch" /\ n.to = Other(d) /\ n.dst = at[Other(d)]
            \/ n.type = "ack" /\ n.to = d
      BY <2>5 DEF UnderWay
    <3>2. n.dst = at[n.to] /\ binding[n.to] < NatTimeout
      <4>1. CASE n.type = "punch"
        <5>1. Lively(d)
          BY <2>5 DEF KeptInv, WorkingLively
        <5>2. n.to = Other(d) /\ n.dst = at[Other(d)]
          BY <3>1, <4>1
        <5>3. /\ Other(d) \in Clients /\ binding[Other(d)] \in Nat
              /\ lastAck[d] \in Nat /\ Behind(d) \in Nat
          BY OtherIs, Bounds DEF KeptInv, AgesInv, TypeOK, AckLimit, Behind
        <5> QED
          BY <5>1, <5>2, <5>3, Bounds DEF Lively, IntervalsFit
      <4>2. CASE n.type = "ack"
        BY <2>2, <4>2, Bounds DEF KeptInv, WireOpen, IntervalsFit
      <4> QED
        BY <3>1, <4>1, <4>2
    <3>3. n # m
      BY <2>3, <2>5, <3>2 DEF MayPass, Works
    <3> QED
      BY <2>1, <3>1, <3>3 DEF UnderWay
  <2>6. \A d \in Clients : binding'[Other(d)] <= binding[Other(d)]
    BY <2>1, OtherIs, Bounds DEF KeptInv, AgesInv, TypeOK
  <2>7. \A d \in Clients : Works(d)' => Lively(d)'
    BY <2>1, <2>5, <2>6, LivelyKept
  <2> QED
    BY <2>4, <2>7 DEF KeptInv, WorkingLively
<1> QED
  BY <1>1, <1>2

LEMMA ServerLively ==
  ASSUME IntervalsFit, KeptInv, TypeOK', AgesInv', NEW m \in wire,
         HandlePunchReq(m) \/ ReceiveInvite(m)
  PROVE  KeptInv'
<1> USE DEF client, path, probing, acting, network
<1>1. m \notin Datagram
  BY Kinds DEF HandlePunchReq, ReceiveInvite, KeptInv, AgesInv, TypeOK
<1>2. CASE HandlePunchReq(m)
  <2>1. UNCHANGED <<client, binding, ticked, network>>
    BY <1>2 DEF HandlePunchReq
  <2>2. wire' \cap Datagram = wire \cap Datagram
    BY <1>1, <1>2 DEF HandlePunchReq, Datagram
  <2>3. /\ WireOpen' /\ WritesDisturb'
        /\ \A d \in Clients : UnderWay(d)' = UnderWay(d)
    BY <2>1, <2>2 DEF KeptInv, WireOpen, WritesDisturb, UnderWay
  <2>4. \A d \in Clients : binding'[Other(d)] <= binding[Other(d)]
    BY <2>1, OtherIs, Bounds DEF KeptInv, AgesInv, TypeOK
  <2>5. \A d \in Clients : Works(d)' => Lively(d)'
    BY <2>1, <2>3, <2>4, LivelyKept
  <2> QED
    BY <2>3, <2>5 DEF KeptInv, WorkingLively
<1>3. CASE ReceiveInvite(m)
  <2> DEFINE c == m.who
  <2>1. UNCHANGED <<publicEP, path, acting, ticked, network>>
        /\ Punch(c, wire \ {m}, FALSE)
    BY <1>3 DEF ReceiveInvite
  <2>2. /\ c \in Clients /\ wire \ {m} \in SUBSET (Datagram \cup Control)
        /\ publicEP[c] \in Addresses
    BY <1>1, Kinds DEF KeptInv, AgesInv, TypeOK
  <2> HIDE DEF c
  <2>3. wire \cap Datagram \subseteq wire \ {m}
    BY <1>1
  <2>4. /\ Works(c)' => UnderWay(c)'
        /\ \A d \in Clients : UnderWay(d) => UnderWay(d)'
        /\ wire' \cap Datagram \subseteq
             wire \cup {Direct("punch", c, publicEP[c])}
    BY <2>1, <2>2, <2>3, PunchUnderWay
  <2>5. WireOpen'
    BY <2>1, <2>2, <2>4, OpenKept DEF Punch
  <2>6. /\ lastPunch'[c] = 0
        /\ \A d \in Clients : d # c => lastPunch'[d] = lastPunch[d]
    BY <2>1, <2>2, PunchType DEF KeptInv, AgesInv
  <2>7. \A d \in Clients : /\ Other(d) \in Clients
                           /\ binding'[Other(d)] <= binding[Other(d)]
    BY <2>1, <2>2, OpensType, OtherIs, Bounds
       DEF Punch, KeptInv, AgesInv, TypeOK
  <2>8. \A d \in Clients : Works(d)' => Lively(d)'
    BY <2>1, <2>4, <2>6, <2>7, LivelyKept
  <2> QED
    BY <2>1, <2>5, <2>8 DEF KeptInv, WritesDisturb, WorkingLively
<1> QED
  BY <1>2, <1>3

\* A round ends when every probe has been answered.
LEMMA RoundLively ==
  ASSUME IntervalsFit, KeptInv, TypeOK', AgesInv', Round
  PROVE  KeptInv'
<1> USE DEF client, path, probing, acting
<1>1. WireOpen' /\ WritesDisturb'
  BY DEF Round, WireOpen, WritesDisturb
<1>2. ASSUME NEW c \in Clients, Works(c)'
      PROVE  Lively(c)'
  <2>1. /\ UNCHANGED <<at, client, blocked>> /\ ticked = Clients /\ ticked' = {}
        /\ wire = {} /\ todo[c] = "nothing" /\ calm' = UpTo(calm + 1, CalmLimit)
    BY DEF Round
  <2>2. /\ lastAck[c] \in Nat /\ lastPunch[c] \in Nat /\ calm \in 0 .. CalmLimit
        /\ CalmLimit = PathDeadline + PathKeepalive + 3
    BY Bounds DEF KeptInv, AgesInv, TypeOK, AckLimit, PunchLimit, CalmLimit
  <2>3. Works(c)
    <3>1. directPath[c] # None /\ ~blocked /\ publicEP[c] = at[Other(c)]
      BY <1>2, <2>1 DEF Works
    <3>2. lastAck[c] <= PathDeadline
      BY <3>1 DEF KeptInv, AgesInv, PathAges
    <3>3. lastAck[c] + 1 < UpTo(calm + 1, CalmLimit)
      BY <1>2, <2>1 DEF Works, Behind
    <3>4. lastAck[c] < calm
      BY <2>2, <3>2, <3>3, Bounds DEF UpTo
    <3> QED
      BY <2>1, <2>2, <3>1, <3>4 DEF Works, Behind
  <2>4. Lively(c)
    BY <2>3 DEF KeptInv, WorkingLively
  <2>5. ~UnderWay(c)
    BY <2>1 DEF UnderWay
  <2>6. lastAck[c] <= lastPunch[c] /\ lastAck[c] <= PathKeepalive
    BY <2>1, <2>2, <2>4, <2>5, Bounds DEF Lively, Behind
  <2>7. binding'[Other(c)] <= lastAck[c] + 1
    <3>1. Other(c) \in Clients /\ binding[Other(c)] \in Nat
      BY OtherIs, Bounds DEF KeptInv, AgesInv, TypeOK
    <3>2. binding'[Other(c)] = UpTo(binding[Other(c)] + 1, NatTimeout)
      BY <3>1 DEF Round
    <3>3. binding[Other(c)] <= lastAck[c]
      BY <2>1, <2>2, <2>4, <3>1 DEF Lively, Behind
    <3> QED
      BY <2>2, <3>1, <3>2, <3>3, Bounds DEF UpTo
  <2> QED
    BY <2>1, <2>2, <2>6, <2>7, Bounds DEF Lively, Behind
<1> QED
  BY <1>1, <1>2 DEF KeptInv, WorkingLively

LEMMA NextLively ==
  ASSUME IntervalsFit, KeptInv, TypeOK', AgesInv', [Next]_vars
  PROVE  KeptInv'
<1> USE DEF client, path, probing, acting, network
<1>1. ASSUME NEW m \in wire, Deliver(m) \/ Drop(m) \/ Delay(m)
      PROVE  KeptInv'
  <2>1. CASE Delay(m)
    BY <2>1, KeptDisturbed DEF Delay, Event, Faults
  <2> QED
    BY <1>1, <2>1, ReceivePunchLively, ReceiveConfirmationLively, DropLively,
       ServerLively DEF Deliver
<1>2. ASSUME NEW m \in late, Arrive(m)
      PROVE  KeptInv'
  BY <1>2, KeptDisturbed DEF Arrive
<1>3. CASE Block \/ Unblock
  BY <1>3, KeptDisturbed DEF Block, Unblock, Event, Faults
<1>4. CASE UNCHANGED vars
  BY <1>4 DEF vars, KeptInv, WireOpen, WritesDisturb, WorkingLively, Works,
              Lively, Behind, UnderWay
<1> QED
  BY <1>1, <1>2, <1>3, <1>4, TickLively, ClientLively, RoundLively DEF Next

LEMMA KeptHolds == ASSUME IntervalsFit PROVE Spec => []KeptInv
<1>1. Init /\ AgesInv => KeptInv
  BY DEF Init, KeptInv, WireOpen, WritesDisturb, WorkingLively, Works, Behind
<1>2. KeptInv /\ TypeOK' /\ AgesInv' /\ [Next]_vars => KeptInv'
  BY NextLively
<1> QED
  BY <1>1, <1>2, PathsTypes, AgesHold, PTL DEF Spec

\* If a probe and its answer fit into the deadline and into what a NAT
\* remembers, as 15 ticks fit into 30, then a path that works is never given
\* up: neither maintain nor anything that arrives does it (maintainPeers,
\* handlePeerMessage, mergePeers, sendToPeer).
THEOREM WorkingPathsAreKept == ASSUME IntervalsFit PROVE Spec => PathsKept
<1> USE DEF client, path, probing, acting, network
<1>1. ASSUME KeptInv, [Next]_vars, NEW c \in Clients,
             calm = CalmLimit, ~blocked, publicEP[c] = at[Other(c)],
             directPath[c] # None, directPath'[c] = None
      PROVE  FALSE
  <2>1. /\ lastAck[c] \in Nat /\ lastAck[c] <= PathDeadline
        /\ CalmLimit = PathDeadline + PathKeepalive + 3
    BY <1>1, Bounds DEF KeptInv, AgesInv, PathAges, TypeOK, AckLimit, CalmLimit
  <2>2. Works(c)
    BY <1>1, <2>1, Bounds DEF Works, Behind
  <2>3. Lively(c)
    BY <1>1, <2>2 DEF KeptInv, WorkingLively
  <2>4. ~Tick(c)
    <3> SUFFICES ASSUME Tick(c) PROVE FALSE
      OBVIOUS
    <3>1. c \notin ticked
      BY DEF Tick
    <3>2. PICK acked \in Elapsed(lastAck[c] + 1) : PathLost(acked)
      BY <1>1 DEF Tick
    <3> QED
      BY <2>1, <2>3, <3>1, <3>2, Bounds
         DEF Lively, Behind, Elapsed, PathLost, IntervalsFit
  <2>5. ~GiveUpPath(c)
    BY <1>1, <2>1, Bounds DEF GiveUpPath, KeptInv, WritesDisturb
  <2>6. ~MergePeers(c)
    BY <1>1 DEF MergePeers
  <2>7. \A d \in Clients : d # c => ~Tick(d) /\ ~GiveUpPath(d) /\ ~MergePeers(d)
    BY <1>1 DEF Tick, GiveUpPath, MergePeers, LosePath, KeptInv, AgesInv, TypeOK
  <2>8. ASSUME NEW m \in wire, ReceiveConfirmation(m)
        PROVE  FALSE
    <3>0. m \in Datagram \cup Control /\ m.type \in {"ack", "handshake"}
      BY <1>1, <2>8 DEF ReceiveConfirmation, KeptInv, AgesInv, TypeOK
    <3>1. m \in Datagram
      BY <3>0, Kinds
    <3>2. m.to \in Clients /\ m.src \in Addresses
      BY <3>1, Kinds
    <3> QED
      BY <1>1, <2>8, <3>2, Bounds DEF ReceiveConfirmation, Confirm, KeptInv,
         AgesInv, TypeOK, Addresses
  <2>9. directPath' # directPath
    BY <1>1
  <2> QED
    BY <1>1, <2>4, <2>5, <2>6, <2>7, <2>8, <2>9
       DEF Next, Act, Wake, SendDirect, WriteFails, Move, Deliver, ReceivePunch,
           HandlePunchReq, ReceiveInvite, Drop, Delay, Arrive, Round, Block,
           Unblock, vars
<1>2. KeptInv /\ [Next]_vars =>
        [\A c \in Clients :
           /\ calm = CalmLimit /\ ~blocked /\ publicEP[c] = at[Other(c)]
           /\ directPath[c] # None
           => directPath'[c] # None]_vars
  BY <1>1
<1> QED
  BY <1>2, KeptHolds, PTL DEF Spec, PathsKept
=============================================================================
