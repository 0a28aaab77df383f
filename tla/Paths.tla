-------------------------------- MODULE Paths --------------------------------
(***************************************************************************)
(* The direct path between two peers (internal/client): opened by probes   *)
(* that both send, kept by probes that are acknowledged, given up when the *)
(* acknowledgements stop, with the relay in between.                       *)
(*                                                                         *)
(* Time passes in rounds of one maintainTick; in a round maintain runs     *)
(* once at each client.  The code compares the tick's own time with times  *)
(* taken while something was handled, between two ticks: after n ticks     *)
(* such a time is more than n - 1 ticks old, and less than n or, when the  *)
(* last tick is late, a little more.  Elapsed is what that is in whole     *)
(* ticks.                                                                  *)
(*                                                                         *)
(* The network is what the code expects of it.  A NAT lets a datagram in   *)
(* when its own client has sent to the same address less than NatTimeout   *)
(* ago.  A client that moves has a new address, and new bindings.          *)
(*                                                                         *)
(* Two peers that list each other (Registry says when they do), with one   *)
(* candidate each: LAN candidates differ only in that no NAT is between.   *)
(* The first startConnect is over when the model begins.                   *)
(***************************************************************************)
EXTENDS Integers, FiniteSets

CONSTANTS
  Clients,
  None,
  PunchInterval, PathKeepalive, PathDeadline,  \* in ticks
  PunchAttempts,
  NatTimeout,  \* how long a NAT keeps a binding without traffic, in rounds
  MaxAddress,  \* how many addresses a client may have
  Events,      \* what may happen besides: faults, packets and handshakes
  MaxEvents    \* how often in all

Faults == {"lose", "delay", "block", "move", "write"}

ASSUME PathsAssumption ==
  /\ IsFiniteSet(Clients) /\ Cardinality(Clients) = 2 /\ None \notin Nat
  /\ {PunchInterval, PathKeepalive, PathDeadline, PunchAttempts} \subseteq Nat
  /\ {NatTimeout, MaxAddress, MaxEvents} \subseteq Nat
  /\ Events \subseteq Faults \cup {"traffic"}

VARIABLES
  at,         \* the public address of each client
  publicEP,   \* the address each has for the other, from the peer list
  directPath, \* where each sends to, or None while it uses the relay
  lastAck,    \* ticks since the path was last confirmed
  lastPunch,  \* ticks since the last probe
  rounds,     \* punchRounds
  todo,       \* what maintainPeers has decided and not done yet
  writing,    \* the path sendToPeer has read for a write that fails, or None
  binding,    \* rounds since each has sent to where the other is
  wire,       \* datagrams under way; they arrive within the round
  late,       \* those that will take longer
  blocked,    \* is the way between the two cut
  ticked,     \* whose tick of this round is over
  calm,       \* rounds since the network last changed or failed
  events      \* how many Events have happened

path    == <<directPath, lastAck>>
probing == <<lastPunch, rounds>>
acting  == <<todo, writing>>
client  == <<publicEP, path, probing, acting>>
network == <<at, late, blocked, calm, events>>
vars    == <<client, binding, wire, ticked, network>>

Other(c) == CHOOSE d \in Clients : d # c

Addresses == 0 .. MaxAddress
Datagram  == [type : {"punch", "ack", "handshake"}, to : Clients,
              src : Addresses, dst : Addresses]
Control   == [type : {"request", "invite"}, who : Clients]

\* Counters stop where no comparison can tell the difference.
AckLimit   == PathDeadline + 1
PunchLimit == PathKeepalive + PunchInterval
CalmLimit  == PathDeadline + PathKeepalive + 3
UpTo(n, limit) == IF n < limit THEN n ELSE limit

TypeOK ==
  /\ at \in [Clients -> Addresses] /\ publicEP \in [Clients -> Addresses]
  /\ directPath \in [Clients -> Addresses \cup {None}]
  /\ lastAck \in [Clients -> 0 .. AckLimit]
  /\ lastPunch \in [Clients -> 0 .. PunchLimit]
  /\ rounds \in [Clients -> 0 .. PunchAttempts + 1]
  /\ todo \in [Clients -> {"nothing", "keepalive", "probe"}]
  /\ writing \in [Clients -> Addresses \cup {None}]
  /\ binding \in [Clients -> 0 .. NatTimeout]
  /\ wire \in SUBSET (Datagram \cup Control) /\ late \in SUBSET Datagram
  /\ blocked \in BOOLEAN /\ ticked \in SUBSET Clients
  /\ calm \in 0 .. CalmLimit /\ events \in 0 .. MaxEvents

Direct(t, c, dst) ==
  [type |-> t, to |-> Other(c), src |-> at[c], dst |-> dst]
ToServer(c) == [type |-> "request", who |-> c]

\* Both have probed and asked for an invitation as they came to list each other,
\* and their first probes have come to nothing.
Init ==
  /\ at = [c \in Clients |-> 0] /\ publicEP = at
  /\ directPath = [c \in Clients |-> None]
  /\ lastAck = [c \in Clients |-> 0]
  /\ lastPunch = [c \in Clients |-> 0] /\ rounds = [c \in Clients |-> 1]
  /\ todo = [c \in Clients |-> "nothing"]
  /\ writing = [c \in Clients |-> None]
  /\ binding = [c \in Clients |-> 0]
  /\ wire = {ToServer(c) : c \in Clients} /\ late = {}
  /\ blocked = FALSE /\ ticked = {} /\ calm = 0 /\ events = 0

Event(kind) ==
  /\ kind \in Events /\ events < MaxEvents
  /\ events' = events + 1
  /\ calm' = IF kind \in Faults THEN 0 ELSE calm

-----------------------------------------------------------------------------
(* Sending and time. *)

\* Whatever c sends to where the other is keeps its NAT's binding open.
Opens(c, dst) ==
  binding' = IF dst = at[Other(c)] THEN [binding EXCEPT ![c] = 0] ELSE binding

\* How many ticks have gone by since a time taken n ticks ago.
Elapsed(n) == {n - 1, n}

\* punch, and requestPunch when the caller asks the server as well.
Punch(c, w, asks) ==
  /\ lastPunch' = [lastPunch EXCEPT ![c] = 0]
  /\ rounds' = [rounds EXCEPT ![c] = UpTo(@ + 1, PunchAttempts + 1)]
  /\ wire' = w \cup {Direct("punch", c, publicEP[c])}
               \cup (IF asks THEN {ToServer(c)} ELSE {})
  /\ Opens(c, publicEP[c])

-----------------------------------------------------------------------------
(* maintainPeers.  It decides under the lock and acts after it. *)

\* Mutant: the deadline starts with the first probe that fails.
PathLostLate(acked) == acked >= PathDeadline + PathKeepalive
PathLost(acked) == acked >= PathDeadline

\* Mutant: a path is probed only when it should be gone.
KeepaliveDueLate(punched) == punched >= PathDeadline
KeepaliveDue(punched) == punched >= PathKeepalive

\* Mutant: punching ends after the first rounds.
ProbeDueAtFirst(c, punched) ==
  punched >= PunchInterval /\ rounds[c] <= PunchAttempts
ProbeDue(c, punched) == punched >= PunchInterval

Decide(c, what) == todo' = [todo EXCEPT ![c] = what]

LosePath(c) ==
  /\ directPath' = [directPath EXCEPT ![c] = None]
  /\ lastAck' = [lastAck EXCEPT ![c] = 0]

Tick(c) ==
  /\ c \notin ticked
  /\ ticked' = ticked \cup {c}
  /\ lastPunch' = [lastPunch EXCEPT ![c] = UpTo(@ + 1, PunchLimit)]
  /\ \E acked \in Elapsed(lastAck[c] + 1),
        punched \in Elapsed(lastPunch[c] + 1) :
       \/ /\ directPath[c] # None /\ PathLost(acked)
          /\ LosePath(c)
          /\ rounds' = [rounds EXCEPT ![c] = 0]
          /\ Decide(c, "probe")
       \/ /\ directPath[c] # None /\ ~PathLost(acked)
          /\ lastAck' = [lastAck EXCEPT ![c] = @ + 1]
          /\ IF KeepaliveDue(punched) THEN Decide(c, "keepalive")
                                      ELSE UNCHANGED todo
          /\ UNCHANGED <<directPath, rounds>>
       \/ /\ directPath[c] = None
          /\ IF ProbeDue(c, punched) THEN Decide(c, "probe") ELSE UNCHANGED todo
          /\ UNCHANGED <<path, rounds>>
  /\ UNCHANGED <<publicEP, writing, binding, wire, network>>

\* Mutant: a path that is probed counts as confirmed.
ActConfirming(c) ==
  /\ todo[c] # "nothing"
  /\ Decide(c, "nothing")
  /\ Punch(c, wire, todo[c] = "probe" /\ rounds[c] + 1 <= PunchAttempts)
  /\ lastAck' = [lastAck EXCEPT ![c] = 0]
  /\ UNCHANGED <<publicEP, directPath, writing, ticked, network>>

\* After the unlock: probe, and ask the server during the first rounds.
Act(c) ==
  /\ todo[c] # "nothing"
  /\ Decide(c, "nothing")
  /\ Punch(c, wire, todo[c] = "probe" /\ rounds[c] + 1 <= PunchAttempts)
  /\ UNCHANGED <<publicEP, path, writing, ticked, network>>

\* A packet without a session: wake, unless the last probe is recent.
Wake(c) ==
  /\ Event("traffic")
  /\ lastPunch[c] >= PunchInterval
  /\ Punch(c, wire, TRUE)
  /\ UNCHANGED <<at, publicEP, path, acting, late, blocked, ticked>>

\* All that is due in a round happens in it.
Round ==
  /\ ticked = Clients /\ wire = {}
  /\ \A c \in Clients : todo[c] = "nothing" /\ writing[c] = None
  /\ ticked' = {}
  /\ binding' = [c \in Clients |-> UpTo(binding[c] + 1, NatTimeout)]
  /\ calm' = UpTo(calm + 1, CalmLimit)
  /\ UNCHANGED <<at, client, wire, late, blocked, events>>

-----------------------------------------------------------------------------
(* Datagrams between the two. *)

\* What was sent from an address its sender has left finds an old binding or
\* none.
MayPass(m) ==
  /\ ~blocked /\ m.dst = at[m.to]
  /\ m.src = at[Other(m.to)] => binding[m.to] < NatTimeout

Confirm(c, via) ==
  /\ directPath' = [directPath EXCEPT ![c] = via]
  /\ lastAck' = [lastAck EXCEPT ![c] = 0]

\* handlePeerMessage, Punch: answered on the way it came.
ReceivePunch(m) ==
  /\ m.type = "punch" /\ MayPass(m)
  /\ wire' = (wire \ {m}) \cup {Direct("ack", m.to, m.src)}
  /\ Opens(m.to, m.src)
  /\ UNCHANGED <<client, ticked, network>>

\* handlePeerMessage, PunchAck; handleHandshake, of a message that came direct.
ReceiveConfirmation(m) ==
  /\ m.type \in {"ack", "handshake"} /\ MayPass(m)
  /\ Confirm(m.to, m.src)
  /\ wire' = wire \ {m}
  /\ UNCHANGED <<publicEP, probing, acting, binding, ticked, network>>

\* handlePunchReq: an invitation for each.  While the server does not know
\* where the requester is it does nothing.
HandlePunchReq(m) ==
  /\ m.type = "request"
  /\ \/ wire' = (wire \ {m}) \cup
           {[type |-> "invite", who |-> c] : c \in Clients}
     \/ publicEP[Other(m.who)] # at[m.who] /\ wire' = wire \ {m}
  /\ UNCHANGED <<client, binding, ticked, network>>

\* handlePunchInv.
ReceiveInvite(m) ==
  /\ m.type = "invite"
  /\ Punch(m.who, wire \ {m}, FALSE)
  /\ UNCHANGED <<publicEP, path, acting, ticked, network>>

\* sendToPeer on a known path: a handshake message, or a packet, which only
\* keeps the binding open.
SendDirect(c) ==
  /\ Event("traffic")
  /\ directPath[c] # None
  /\ \/ wire' = wire \cup {Direct("handshake", c, directPath[c])}
     \/ UNCHANGED wire
  /\ Opens(c, directPath[c])
  /\ UNCHANGED <<at, client, late, blocked, ticked>>

\* sendToPeer when the write fails: the path is read in one lock section and
\* given up in another.
WriteFails(c) ==
  /\ directPath[c] # None /\ writing[c] = None
  /\ Event("write")
  /\ writing' = [writing EXCEPT ![c] = directPath[c]]
  /\ UNCHANGED <<at, publicEP, path, probing, todo, binding>>
  /\ UNCHANGED <<wire, late, blocked, ticked>>

GiveUpPath(c) ==
  /\ writing[c] # None
  /\ writing' = [writing EXCEPT ![c] = None]
  /\ LosePath(c)
  /\ UNCHANGED <<publicEP, probing, todo, binding, wire, ticked, network>>

-----------------------------------------------------------------------------
(* The network and the coordinator. *)

\* A client moves to another address; the other's list does not say so yet.
Move(c) ==
  /\ at[c] < MaxAddress
  /\ Event("move")
  /\ at' = [at EXCEPT ![c] = @ + 1]
  /\ binding' = [d \in Clients |-> NatTimeout]
  /\ UNCHANGED <<client, wire, late, blocked, ticked>>

\* mergePeers with the new endpoint: the old path is stale.
MergePeers(c) ==
  /\ publicEP[c] # at[Other(c)]
  /\ publicEP' = [publicEP EXCEPT ![c] = at[Other(c)]]
  /\ LosePath(c)
  /\ rounds' = [rounds EXCEPT ![c] = 0]
  /\ calm' = 0
  /\ UNCHANGED <<at, lastPunch, acting, binding, wire, late, blocked, ticked,
                 events>>

Block ==
  /\ ~blocked /\ Event("block")
  /\ blocked' = TRUE
  /\ UNCHANGED <<at, client, binding, wire, late, ticked>>

Unblock ==
  /\ blocked
  /\ blocked' = FALSE /\ calm' = 0
  /\ UNCHANGED <<at, client, binding, wire, late, ticked, events>>

\* A datagram ends where nobody takes it, or it is lost.
Drop(m) ==
  /\ \/ m \in Datagram /\ (~MayPass(m) \/ m.src # at[Other(m.to)])
        /\ UNCHANGED <<calm, events>>
     \/ Event("lose")
  /\ wire' = wire \ {m}
  /\ UNCHANGED <<at, client, binding, late, blocked, ticked>>

\* A datagram takes longer than a round, and may arrive at any time then.
Delay(m) ==
  /\ m \in Datagram /\ Event("delay")
  /\ wire' = wire \ {m} /\ late' = late \cup {m}
  /\ UNCHANGED <<at, client, binding, blocked, ticked>>

Arrive(m) ==
  /\ late' = late \ {m} /\ wire' = wire \cup {m}
  /\ calm' = 0
  /\ UNCHANGED <<at, client, binding, blocked, ticked, events>>

-----------------------------------------------------------------------------
Deliver(m) == \/ ReceivePunch(m) \/ ReceiveConfirmation(m)
              \/ HandlePunchReq(m) \/ ReceiveInvite(m)

Next ==
  \/ \E c \in Clients : \/ Tick(c) \/ Act(c) \/ Wake(c)
                        \/ SendDirect(c) \/ WriteFails(c) \/ GiveUpPath(c)
                        \/ Move(c) \/ MergePeers(c)
  \/ \E m \in wire : Deliver(m) \/ Drop(m) \/ Delay(m)
  \/ \E m \in late : Arrive(m)
  \/ Round \/ Block \/ Unblock

Spec == Init /\ [][Next]_vars

\* maintain keeps running, the network delivers what it lets pass, lists
\* arrive, and no outage lasts for ever.
Fairness ==
  /\ \A c \in Clients : /\ WF_vars(Tick(c)) /\ WF_vars(Act(c))
                        /\ WF_vars(GiveUpPath(c)) /\ WF_vars(MergePeers(c))
  /\ WF_vars(\E m \in wire :
       Deliver(m) \/ (m \in Datagram /\ ~MayPass(m) /\ Drop(m)))
  /\ WF_vars(Round) /\ WF_vars(Unblock)

FairSpec == Spec /\ Fairness

-----------------------------------------------------------------------------
\* A path that has stopped working, because nothing gets through or because
\* the peer has moved away, is left for the relay: at the latest one tick after
\* pathDeadline.
NoBlackHole ==
  \A c \in Clients :
    calm > PathDeadline + 1 /\ directPath[c] # None =>
      ~blocked /\ directPath[c] = at[Other(c)]

\* When nothing has gone wrong for a while, a path that is there is kept: the
\* probes of both ends keep the bindings open, and they come often enough for
\* the acknowledgements (pathKeepalive against pathDeadline and the NAT).
PathsKept ==
  [][\A c \in Clients :
       /\ calm = CalmLimit /\ ~blocked /\ publicEP[c] = at[Other(c)]
       /\ directPath[c] # None
       => directPath'[c] # None]_vars

\* In the end both send directly, wherever they have moved and whatever was
\* lost, although the server invites them in the first rounds only.
BothDirect == <>[](\A c \in Clients : directPath[c] = at[Other(c)])
=============================================================================
