----------------------------- MODULE Handshake -----------------------------
(***************************************************************************)
(* How two clients come to share a session (internal/client/client.go).    *)
(*                                                                         *)
(* Of every two peers the one with the lower ID is the designated          *)
(* initiator.  It sends an init with a fresh ephemeral key; the other end  *)
(* answers with a fresh key of its own, and from then on has a session     *)
(* under the two keys; the initiator has it once the reply matches the     *)
(* handshake it remembers.  Whoever has a session uses it until something  *)
(* replaces it, so two ends whose sessions differ drop each other's        *)
(* packets.                                                                *)
(*                                                                         *)
(* Three goroutines of a client reach a peer's handshake state:            *)
(*   readSocket   handles datagrams one by one: peer lists, inits, replies *)
(*   maintain     retries a handshake punchInterval after the last hello   *)
(*   readDevice   wakes a peer it has a packet for and no session with     *)
(* Each takes the lock for a read or a write only, so what one decided or  *)
(* read is acted upon later: jobs and reading hold what is between.        *)
(*                                                                         *)
(* The network is UDP, direct or through the relay: messages overtake each *)
(* other, are lost and repeated.  Replies that do not verify are dropped   *)
(* without effect, which is a loss.  Which path a message takes, and the   *)
(* lastPunch timer that limits wake, are not kept here: wake may fire      *)
(* whenever a packet is routed to a peer without a session, unless Prompt  *)
(* says that the interval between two attempts is long enough for one.     *)
(***************************************************************************)
EXTENDS Integers, FiniteSets

CONSTANTS
  Nodes,      \* the clients' peer IDs, ordered as isInitiatorFor orders them
  Ids,        \* ephemeral public keys; as many can be in use at a time
  None,       \* nil
  Traffic,    \* does readDevice route packets to a peer without a session
  Prompt,     \* does an attempt always end within punchInterval, so that
              \* neither a retry nor wake begins another one during it
  Forgetful,  \* the nodes that may restart, or be told of a peer's absence
  MaxFaults   \* how often each kind of fault may happen

FaultKinds == {"lose", "repeat init", "repeat reply", "forget"}

ASSUME HandshakeAssumption ==
  /\ Nodes \subseteq Nat
  /\ None \notin Nodes \cup Ids
  /\ Traffic \in BOOLEAN /\ Prompt \in BOOLEAN
  /\ Forgetful \subseteq Nodes
  /\ MaxFaults \in [FaultKinds -> Nat]

VARIABLES
  listed,     \* listed[n]: the keys of n's peers table
  sess,       \* sess[n][m]: the session n uses with m, or None
  handshake,  \* handshake[n][m]: the ephemeral key n awaits m's reply to
  helloDue,   \* pairs whose lastHello is punchInterval or more ago
  jobs,       \* handshakes a goroutine has decided to start
  reading,    \* what readSocket holds between p.handshake and the result
  wire,       \* messages in flight
  faults      \* how often each kind of fault has happened

vars == <<listed, sess, handshake, helloDue, jobs, reading, wire, faults>>

\* Both ephemeral keys go into a session's key, so they name the session.
Session  == [init : Ids, reply : Ids]
InitMsg  == [type : {"init"}, from : Nodes, to : Nodes, init : Ids]
ReplyMsg == [type : {"reply"}, from : Nodes, to : Nodes, sess : Session]
\* live: the peer object the job holds is still the one in the peers table.
Job      == [node : Nodes, peer : Nodes, live : BOOLEAN,
             by : {"readSocket", "maintain", "readDevice"}]
Reading  == [peer : Nodes, handshake : Ids, reply : Session]

TypeOK ==
  /\ listed \in [Nodes -> SUBSET Nodes]
  /\ sess \in [Nodes -> [Nodes -> Session \cup {None}]]
  /\ handshake \in [Nodes -> [Nodes -> Ids \cup {None}]]
  /\ helloDue \in SUBSET (Nodes \X Nodes)
  /\ jobs \in SUBSET Job
  /\ reading \in [Nodes -> Reading \cup {None}]
  /\ wire \in SUBSET (InitMsg \cup ReplyMsg)
  /\ faults \in [FaultKinds -> Nat]

Init ==
  /\ listed = [n \in Nodes |-> {}]
  /\ sess = [n \in Nodes |-> [m \in Nodes |-> None]]
  /\ handshake = [n \in Nodes |-> [m \in Nodes |-> None]]
  /\ helloDue = {}
  /\ jobs = {}
  /\ reading = [n \in Nodes |-> None]
  /\ wire = {}
  /\ faults = [k \in FaultKinds |-> 0]

-----------------------------------------------------------------------------
\* Mutant: both ends start.
EverybodyInitiates(n, m) == n # m

isInitiatorFor(n, m) == n < m

\* The reply from r that i is about to finish a handshake with, if any.
BeingRead(i, r) ==
  {got \in {reading[i]} : got # None /\ got.peer = r}

Between(msg, i, r) ==
  (msg.from = i /\ msg.to = r) \/ (msg.from = r /\ msg.to = i)

\* An attempt of i to reach r is in progress somewhere.
Busy(i, r) ==
  \/ \E j \in jobs : j.node = i /\ j.peer = r
  \/ \E msg \in wire : Between(msg, i, r)
  \/ BeingRead(i, r) # {}
Quiet(i, r) == ~Busy(i, r)

\* readSocket is one goroutine: it takes the next datagram when it is done
\* with the last one.
SocketIdle(n) ==
  /\ reading[n] = None
  /\ \A j \in jobs : ~(j.node = n /\ j.by = "readSocket")

Fault(kind) ==
  /\ faults[kind] < MaxFaults[kind]
  /\ faults' = [faults EXCEPT ![kind] = @ + 1]

\* A delivered message is gone unless the network repeats it.
Deliver(msg, sent) ==
  \/ wire' = (wire \ {msg}) \cup sent /\ UNCHANGED faults
  \/ /\ Fault(IF msg.type = "init" THEN "repeat init" ELSE "repeat reply")
     /\ wire' = wire \cup sent

\* Ephemeral keys never collide with one that is still remembered or in
\* flight between the two ends.
SessionsOf(i, r) ==
  ({sess[i][r], sess[r][i]} \ {None})
    \cup {got.reply : got \in BeingRead(i, r)}
    \cup {msg.sess : msg \in
            {w \in wire : w.type = "reply" /\ w.to = i /\ w.from = r}}
FreshInit(i, r) ==
  Ids \ ({s.init : s \in SessionsOf(i, r)}
           \cup {handshake[i][r]}
           \cup {got.handshake : got \in BeingRead(i, r)}
           \cup {msg.init : msg \in
                   {w \in wire : w.type = "init" /\ w.from = i /\ w.to = r}})
FreshReply(i, r) == Ids \ {s.reply : s \in SessionsOf(i, r)}
Pick(ids) == CHOOSE id \in ids : TRUE

-----------------------------------------------------------------------------
\* Forgetting the peers outside L loses their objects and all they hold.
Keep(table, n, L) ==
  [table EXCEPT ![n] = [m \in Nodes |-> IF m \in L THEN table[n][m] ELSE None]]

\* A goroutine may still hold a peer object that has left the peers table.
Orphan(n, gone) ==
  {IF j.node = n /\ j.peer \in gone THEN [j EXCEPT !.live = FALSE] ELSE j :
     j \in jobs}

\* mergePeers: add who is new and start connecting to them, drop who is gone.
\* A new object has never said hello, so a retry is due from the start.
MergePeers(n, L) ==
  LET new  == L \ listed[n]
      gone == listed[n] \ L
  IN
  /\ SocketIdle(n)
  /\ L # listed[n]
  /\ listed' = [listed EXCEPT ![n] = L]
  /\ sess' = Keep(sess, n, L)
  /\ handshake' = Keep(handshake, n, L)
  /\ helloDue' = (helloDue \ ({n} \X gone)) \cup ({n} \X new)
  /\ jobs' = Orphan(n, gone)
       \cup {[node |-> n, peer |-> m, live |-> TRUE, by |-> "readSocket"] :
               m \in {k \in new : isInitiatorFor(n, k)}}
  /\ IF gone = {} THEN UNCHANGED faults
     ELSE /\ n \in Forgetful
          /\ Fault("forget")
          /\ Prompt => \A m \in gone : Quiet(n, m) /\ Quiet(m, n)
  /\ UNCHANGED <<reading, wire>>

\* The process ends and a new one registers.  Its socket is a new one, but
\* what is in flight may still reach it: the relay addresses a peer by ID.
Restart(n) ==
  /\ n \in Forgetful
  /\ listed[n] # {}
  /\ Fault("forget")
  /\ Prompt => \A m \in Nodes : Quiet(n, m) /\ Quiet(m, n)
  /\ listed' = [listed EXCEPT ![n] = {}]
  /\ sess' = Keep(sess, n, {})
  /\ handshake' = Keep(handshake, n, {})
  /\ helloDue' = helloDue \ ({n} \X Nodes)
  /\ jobs' = {j \in jobs : j.node # n}
  /\ reading' = [reading EXCEPT ![n] = None]
  /\ UNCHANGED wire

-----------------------------------------------------------------------------
\* punchInterval passes after the last hello.
Elapse(n, m) ==
  /\ m \in listed[n]
  /\ isInitiatorFor(n, m)
  /\ <<n, m>> \notin helloDue
  /\ helloDue' = helloDue \cup {<<n, m>>}
  /\ UNCHANGED <<listed, sess, handshake, jobs, reading, wire, faults>>

\* Mutant: a retry waits until the handshake before it has been answered.
OverdueIfNonePending(n) ==
  {m \in listed[n] : /\ sess[n][m] = None
                     /\ handshake[n][m] = None
                     /\ isInitiatorFor(n, m)
                     /\ <<n, m>> \in helloDue}

\* The peers maintainPeers has to say hello to again.
Overdue(n) ==
  {m \in listed[n] : /\ sess[n][m] = None
                     /\ isInitiatorFor(n, m)
                     /\ <<n, m>> \in helloDue}

\* maintainPeers decides under the lock whom to say hello to, and does so
\* after it has let go of the lock, one peer after another.
MaintainPeers(n) ==
  /\ \A j \in jobs : ~(j.node = n /\ j.by = "maintain")
  /\ Overdue(n) # {}
  /\ Prompt => \A m \in Overdue(n) : Quiet(n, m)
  /\ jobs' = jobs \cup
       {[node |-> n, peer |-> m, live |-> TRUE, by |-> "maintain"] :
          m \in Overdue(n)}
  /\ UNCHANGED <<listed, sess, handshake, helloDue, reading, wire, faults>>

\* sendPacket finds no session and wakes the peer (readDevice).
Wake(n, m) ==
  /\ Traffic
  /\ \A j \in jobs : ~(j.node = n /\ j.by = "readDevice")
  /\ m \in listed[n]
  /\ sess[n][m] = None
  /\ isInitiatorFor(n, m)
  /\ Prompt => Quiet(n, m)
  /\ jobs' = jobs \cup
       {[node |-> n, peer |-> m, live |-> TRUE, by |-> "readDevice"]}
  /\ UNCHANGED <<listed, sess, handshake, helloDue, reading, wire, faults>>

\* startHandshake: whatever was pending before is replaced.
StartHandshake(j) ==
  /\ FreshInit(j.node, j.peer) # {}
  /\ LET e == Pick(FreshInit(j.node, j.peer)) IN
       /\ wire' = wire \cup {[type |-> "init", from |-> j.node,
                              to |-> j.peer, init |-> e]}
       /\ IF j.live
            THEN /\ handshake' = [handshake EXCEPT ![j.node][j.peer] = e]
                 /\ helloDue' = helloDue \ {<<j.node, j.peer>>}
            ELSE UNCHANGED <<handshake, helloDue>>
  /\ jobs' = jobs \ {j}
  /\ UNCHANGED <<listed, sess, reading, faults>>

-----------------------------------------------------------------------------
\* Mutant: a responder that has a session keeps it, but replies.
ReceiveInitKeepingSession(n, msg) ==
  LET i == msg.from IN
  /\ SocketIdle(n)
  /\ msg.type = "init" /\ msg.to = n
  /\ i \in listed[n]
  /\ FreshReply(i, n) # {}
  /\ LET s == [init |-> msg.init, reply |-> Pick(FreshReply(i, n))]
     IN /\ sess' = IF sess[n][i] = None THEN [sess EXCEPT ![n][i] = s] ELSE sess
        /\ Deliver(msg, {[type |-> "reply", from |-> n, to |-> i, sess |-> s]})
  /\ handshake' = [handshake EXCEPT ![n][i] = None]
  /\ UNCHANGED <<listed, helloDue, jobs, reading>>

\* handleHandshake, HandshakeInit: the responder has a session at once, and
\* replies.  Nothing tells an init that was overtaken from a new one.
ReceiveInit(n, msg) ==
  LET i == msg.from IN
  /\ SocketIdle(n)
  /\ msg.type = "init" /\ msg.to = n
  /\ i \in listed[n]
  /\ FreshReply(i, n) # {}
  /\ LET s == [init |-> msg.init, reply |-> Pick(FreshReply(i, n))]
     IN /\ sess' = [sess EXCEPT ![n][i] = s]
        /\ Deliver(msg, {[type |-> "reply", from |-> n, to |-> i, sess |-> s]})
  /\ handshake' = [handshake EXCEPT ![n][i] = None]
  /\ UNCHANGED <<listed, helloDue, jobs, reading>>

\* Mutant: a reply is finished with whatever p.handshake holds, nil too.
ReceiveReplyUnchecked(n, msg) ==
  LET r == msg.from IN
  /\ SocketIdle(n)
  /\ msg.type = "reply" /\ msg.to = n
  /\ r \in listed[n]
  /\ reading' = [reading EXCEPT ![n] =
       [peer |-> r, handshake |-> handshake[n][r], reply |-> msg.sess]]
  /\ Deliver(msg, {})
  /\ UNCHANGED <<listed, sess, handshake, helloDue, jobs>>

\* handleHandshake, HandshakeResp, up to the unlock: p.handshake is copied.
ReceiveReply(n, msg) ==
  LET r == msg.from IN
  /\ SocketIdle(n)
  /\ msg.type = "reply" /\ msg.to = n
  /\ r \in listed[n]
  /\ handshake[n][r] # None
  /\ reading' = [reading EXCEPT ![n] =
       [peer |-> r, handshake |-> handshake[n][r], reply |-> msg.sess]]
  /\ Deliver(msg, {})
  /\ UNCHANGED <<listed, sess, handshake, helloDue, jobs>>

\* Mutant: the handshake stays pending after it has been finished.
FinishKeepingHandshake(n) ==
  LET got == reading[n] IN
  /\ got # None
  /\ sess' = IF got.handshake = got.reply.init
               THEN [sess EXCEPT ![n][got.peer] = got.reply]
               ELSE sess
  /\ reading' = [reading EXCEPT ![n] = None]
  /\ UNCHANGED <<listed, handshake, helloDue, jobs, wire, faults>>

\* Finish, outside the lock, and the result stored under it: the session, if
\* the reply answers the copied handshake.  Either way no handshake is
\* pending afterwards, not even one that was started in between.
FinishHandshake(n) ==
  LET got == reading[n] IN
  /\ got # None
  /\ sess' = IF got.handshake = got.reply.init
               THEN [sess EXCEPT ![n][got.peer] = got.reply]
               ELSE sess
  /\ handshake' = [handshake EXCEPT ![n][got.peer] = None]
  /\ reading' = [reading EXCEPT ![n] = None]
  /\ UNCHANGED <<listed, helloDue, jobs, wire, faults>>

\* A message from a peer that is not listed, or a reply nobody waits for.
Discard(n, msg) ==
  /\ SocketIdle(n)
  /\ msg.to = n
  /\ \/ msg.from \notin listed[n]
     \/ msg.type = "reply" /\ handshake[n][msg.from] = None
  /\ Deliver(msg, {})
  /\ UNCHANGED <<listed, sess, handshake, helloDue, jobs, reading>>

Lose(msg) ==
  /\ Fault("lose")
  /\ wire' = wire \ {msg}
  /\ UNCHANGED <<listed, sess, handshake, helloDue, jobs, reading>>

-----------------------------------------------------------------------------
Receive(n, msg) ==
  ReceiveInit(n, msg) \/ ReceiveReply(n, msg) \/ Discard(n, msg)

\* A list names other nodes only: the server leaves out whom it writes to.
Next ==
  \/ \E n \in Nodes :
       \/ \E L \in SUBSET (Nodes \ {n}) : MergePeers(n, L)
       \/ Restart(n)
       \/ MaintainPeers(n)
       \/ FinishHandshake(n)
       \/ \E m \in Nodes : Elapse(n, m) \/ Wake(n, m)
       \/ \E msg \in wire : Receive(n, msg)
  \/ \E j \in jobs : StartHandshake(j)
  \/ \E msg \in wire : Lose(msg)

Spec == Init /\ [][Next]_vars

\* Goroutines run, timers elapse, what is not lost arrives, and the server's
\* list of everybody who is online reaches every node.
Fairness ==
  /\ \A n \in Nodes :
       /\ WF_vars(MergePeers(n, Nodes \ {n}))
       /\ WF_vars(MaintainPeers(n))
       /\ WF_vars(FinishHandshake(n))
       /\ \A m \in Nodes :
            /\ WF_vars(Elapse(n, m))
            /\ WF_vars(\E j \in jobs : j.node = n /\ j.peer = m
                                          /\ StartHandshake(j))
            /\ WF_vars(\E msg \in wire : msg.from = m /\ Receive(n, msg))

FairSpec == Spec /\ Fairness

-----------------------------------------------------------------------------
\* No glare: inits travel from the lower ID to the higher and replies back,
\* and only the lower ID has, starts or reads anything half-finished
\* (startConnect, maintainPeers and wake all ask isInitiatorFor).
OneInitiator ==
  /\ \A msg \in wire : IF msg.type = "init" THEN msg.from < msg.to
                                            ELSE msg.to < msg.from
  /\ \A j \in jobs : j.node < j.peer
  /\ \A n, m \in Nodes : handshake[n][m] # None => n < m
  /\ \A n \in Nodes : reading[n] # None => n < reading[n].peer

\* An initiator's handshake is finished at most once: one that is pending or
\* being finished is never the one its session came from.  Finishing it again
\* with a repeated reply would bring the same keys back with their counters
\* at zero (handleHandshake clears p.handshake with the session it stores).
FinishedOnce ==
  \A i, r \in Nodes :
    i < r /\ sess[i][r] # None =>
      /\ handshake[i][r] # sess[i][r].init
      /\ reading[i] # None /\ reading[i].peer = r =>
           reading[i].handshake # sess[i][r].init

\* What an initiator would encrypt with, its peer can decrypt: the key the
\* lower ID uses is the key the higher ID uses (handleHandshake, both cases).
Agreed ==
  \A i, r \in Nodes : i < r /\ sess[i][r] # None => sess[r][i] = sess[i][r]

\* Two peers that list each other, with nothing under way between them, where
\* the initiator has a session the other end does not: no retry is due ever
\* again, so no packet will pass between them.
Stranded(i, r) ==
  /\ i < r
  /\ r \in listed[i] /\ i \in listed[r]
  /\ Quiet(i, r)
  /\ sess[i][r] # None
  /\ sess[r][i] # sess[i][r]

\* The handshake between two peers never comes to rest unfinished: what is
\* missing is retried (maintainPeers, "Retry a handshake that never
\* completed"; startConnect, on sessions that never settle).
NeverStranded == \A i, r \in Nodes : ~Stranded(i, r)

\* In the end every two peers share a session for good.
Settles ==
  <>[](\A i, r \in Nodes :
         i < r => sess[i][r] # None /\ sess[i][r] = sess[r][i])
=============================================================================
