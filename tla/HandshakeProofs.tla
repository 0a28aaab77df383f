-------------------------- MODULE HandshakeProofs --------------------------
(***************************************************************************)
(* Proofs about Handshake for any set of nodes, any supply of ephemeral    *)
(* keys and any number of faults.                                          *)
(*                                                                         *)
(* SafetyInv holds whatever the network and the timers do.  FinishedOnce   *)
(* is inductive with the types and OneInitiator: without OneInitiator an   *)
(* init could replace the session of an initiator.                         *)
(***************************************************************************)
EXTENDS Handshake, TLAPS

SafetyInv == TypeOK /\ OneInitiator /\ FinishedOnce

LEMMA PickIn == ASSUME NEW ids, ids # {} PROVE Pick(ids) \in ids
BY DEF Pick

LEMMA FreshTypes ==
  ASSUME NEW i, NEW r
  PROVE  /\ FreshInit(i, r) \subseteq Ids
         /\ FreshReply(i, r) \subseteq Ids
BY DEF FreshInit, FreshReply

\* Keep forgets or leaves alone, entry by entry.
LEMMA KeepTables ==
  ASSUME TypeOK, NEW n \in Nodes, NEW L
  PROVE  /\ Keep(sess, n, L) \in [Nodes -> [Nodes -> Session \cup {None}]]
         /\ \A a, b \in Nodes : Keep(sess, n, L)[a][b] =
              IF a = n /\ b \notin L THEN None ELSE sess[a][b]
         /\ Keep(handshake, n, L) \in [Nodes -> [Nodes -> Ids \cup {None}]]
         /\ \A a, b \in Nodes : Keep(handshake, n, L)[a][b] =
              IF a = n /\ b \notin L THEN None ELSE handshake[a][b]
<1>1. /\ Keep(sess, n, L) \in [Nodes -> [Nodes -> Session \cup {None}]]
      /\ \A a, b \in Nodes : Keep(sess, n, L)[a][b] =
           IF a = n /\ b \notin L THEN None ELSE sess[a][b]
  <2> DEFINE row == [m \in Nodes |-> IF m \in L THEN sess[n][m] ELSE None]
  <2>1. sess \in [Nodes -> [Nodes -> Session \cup {None}]]
    BY DEF TypeOK
  <2>2. row \in [Nodes -> Session \cup {None}]
    BY <2>1
  <2>3. Keep(sess, n, L) = [sess EXCEPT ![n] = row]
    BY DEF Keep
  <2>4. \A b \in Nodes : row[b] = IF b \in L THEN sess[n][b] ELSE None
    OBVIOUS
  <2> HIDE DEF row
  <2> QED BY <2>1, <2>2, <2>3, <2>4
<1>2. /\ Keep(handshake, n, L) \in [Nodes -> [Nodes -> Ids \cup {None}]]
      /\ \A a, b \in Nodes : Keep(handshake, n, L)[a][b] =
           IF a = n /\ b \notin L THEN None ELSE handshake[a][b]
  <2> DEFINE row == [m \in Nodes |-> IF m \in L THEN handshake[n][m] ELSE None]
  <2>1. handshake \in [Nodes -> [Nodes -> Ids \cup {None}]]
    BY DEF TypeOK
  <2>2. row \in [Nodes -> Ids \cup {None}]
    BY <2>1
  <2>3. Keep(handshake, n, L) = [handshake EXCEPT ![n] = row]
    BY DEF Keep
  <2>4. \A b \in Nodes : row[b] = IF b \in L THEN handshake[n][b] ELSE None
    OBVIOUS
  <2> HIDE DEF row
  <2> QED BY <2>1, <2>2, <2>3, <2>4
<1> QED BY <1>1, <1>2

\* What an entry of a table holds when it holds anything.
LEMMA Entries ==
  ASSUME TypeOK, NEW i \in Nodes, NEW r \in Nodes
  PROVE  /\ None \notin Ids
         /\ sess[i][r] # None =>
              /\ sess[i][r] \in Session
              /\ sess[i][r].init \in Ids
         /\ handshake[i][r] # None => handshake[i][r] \in Ids
         /\ reading[i] # None =>
              /\ reading[i].peer \in Nodes
              /\ reading[i].handshake \in Ids
              /\ reading[i].reply \in Session
              /\ reading[i].reply.init \in Ids
<1>1. None \notin Ids
  BY HandshakeAssumption
<1>2. sess[i][r] \in Session \cup {None}
  <2>1. sess[i] \in [Nodes -> Session \cup {None}]
    BY DEF TypeOK
  <2> QED BY <2>1
<1>3. \A s \in Session : s.init \in Ids
  BY DEF Session
<1>4. handshake[i][r] \in Ids \cup {None}
  <2>1. handshake[i] \in [Nodes -> Ids \cup {None}]
    BY DEF TypeOK
  <2> QED BY <2>1
<1>5. reading[i] \in Reading \cup {None}
  BY DEF TypeOK
<1>6. \A got \in Reading : /\ got.peer \in Nodes
                           /\ got.handshake \in Ids
                           /\ got.reply \in Session
  BY DEF Reading
<1> QED BY <1>1, <1>2, <1>3, <1>4, <1>5, <1>6

LEMMA OrphanJobs ==
  ASSUME jobs \in SUBSET Job, NEW n, NEW gone
  PROVE  /\ Orphan(n, gone) \in SUBSET Job
         /\ \A j \in Orphan(n, gone) :
              \E k \in jobs : k.node = j.node /\ k.peer = j.peer
<1>1. ASSUME NEW j \in jobs
      PROVE  /\ [j EXCEPT !.live = FALSE] \in Job
             /\ [j EXCEPT !.live = FALSE].node = j.node
             /\ [j EXCEPT !.live = FALSE].peer = j.peer
  <2>1. j \in Job
    OBVIOUS
  <2> QED BY <2>1 DEF Job
<1> QED BY <1>1 DEF Orphan

LEMMA FaultTypes ==
  ASSUME TypeOK, NEW kind \in FaultKinds, Fault(kind)
  PROVE  faults' \in [FaultKinds -> Nat]
BY DEF Fault, TypeOK

\* A delivery takes the message away or repeats it, and may add others.
LEMMA DeliverWire ==
  ASSUME TypeOK, NEW msg, NEW sent, Deliver(msg, sent)
  PROVE  /\ faults' \in [FaultKinds -> Nat]
         /\ wire' \subseteq wire \cup sent
         /\ sent \subseteq wire'
<1>1. (IF msg.type = "init" THEN "repeat init" ELSE "repeat reply")
        \in FaultKinds
  BY DEF FaultKinds
<1>2. CASE wire' = (wire \ {msg}) \cup sent /\ UNCHANGED faults
  BY <1>2 DEF TypeOK
<1>3. CASE /\ Fault(IF msg.type = "init" THEN "repeat init"
                                         ELSE "repeat reply")
           /\ wire' = wire \cup sent
  BY <1>1, <1>3, FaultTypes
<1> QED BY <1>2, <1>3 DEF Deliver

LEMMA InitSafety == Init => SafetyInv
<1> SUFFICES ASSUME Init PROVE SafetyInv
  OBVIOUS
<1>1. TypeOK
  BY DEF Init, TypeOK
<1>2. OneInitiator
  BY DEF Init, OneInitiator
<1>3. FinishedOnce
  BY DEF Init, FinishedOnce
<1> QED BY <1>1, <1>2, <1>3 DEF SafetyInv

-----------------------------------------------------------------------------
\* mergePeers starts a handshake only where n is the initiator, and a
\* session it keeps keeps its place beside the handshake it keeps.
LEMMA MergePeersSafety ==
  ASSUME SafetyInv, NEW n \in Nodes, NEW L \in SUBSET (Nodes \ {n}),
         MergePeers(n, L)
  PROVE  SafetyInv'
<1> DEFINE new == L \ listed[n]
           gone == listed[n] \ L
           started == {[node |-> n, peer |-> m, live |-> TRUE,
                        by |-> "readSocket"] :
                         m \in {k \in new : isInitiatorFor(n, k)}}
<1>1. /\ listed' = [listed EXCEPT ![n] = L]
      /\ sess' = Keep(sess, n, L)
      /\ handshake' = Keep(handshake, n, L)
      /\ helloDue' = (helloDue \ ({n} \X gone)) \cup ({n} \X new)
      /\ jobs' = Orphan(n, gone) \cup started
      /\ UNCHANGED <<reading, wire>>
  BY DEF MergePeers
<1>2. TypeOK
  BY DEF SafetyInv
<1>3. faults' \in [FaultKinds -> Nat]
  <2>1. "forget" \in FaultKinds
    BY DEF FaultKinds
  <2> QED BY <1>2, <2>1, FaultTypes DEF MergePeers, TypeOK
<1>4. /\ sess' \in [Nodes -> [Nodes -> Session \cup {None}]]
      /\ handshake' \in [Nodes -> [Nodes -> Ids \cup {None}]]
      /\ \A a, b \in Nodes :
           /\ sess'[a][b] # None => sess'[a][b] = sess[a][b]
           /\ handshake'[a][b] # None => handshake'[a][b] = handshake[a][b]
  BY <1>1, <1>2, KeepTables
<1>5. /\ started \subseteq Job
      /\ \A j \in started : j.node < j.peer
  <2>1. ASSUME NEW m \in new, isInitiatorFor(n, m)
        PROVE  /\ [node |-> n, peer |-> m, live |-> TRUE,
                   by |-> "readSocket"] \in Job
               /\ n < m
    BY <2>1 DEF Job, isInitiatorFor
  <2> QED BY <2>1
<1>6. /\ jobs' \in SUBSET Job
      /\ \A j \in jobs' : j.node < j.peer
  <2>1. jobs \in SUBSET Job
    BY <1>2 DEF TypeOK
  <2>2. \A j \in Orphan(n, gone) : j \in Job /\ j.node < j.peer
    BY <2>1, OrphanJobs DEF SafetyInv, OneInitiator
  <2> QED BY <1>1, <1>5, <2>2
<1>7. TypeOK'
  <2>1. listed' \in [Nodes -> SUBSET Nodes]
    BY <1>1, <1>2 DEF TypeOK
  <2>2. helloDue' \in SUBSET (Nodes \X Nodes)
    BY <1>1, <1>2 DEF TypeOK
  <2> QED BY <1>1, <1>2, <1>3, <1>4, <1>6, <2>1, <2>2 DEF TypeOK
<1>8. OneInitiator'
  BY <1>1, <1>4, <1>6 DEF SafetyInv, OneInitiator
<1>9. FinishedOnce'
  <2> SUFFICES ASSUME NEW i \in Nodes, NEW r \in Nodes, i < r,
                      sess'[i][r] # None
               PROVE  /\ handshake'[i][r] # sess'[i][r].init
                      /\ reading[i] # None /\ reading[i].peer = r =>
                           reading[i].handshake # sess'[i][r].init
    BY <1>1 DEF FinishedOnce
  <2>1. sess'[i][r] = sess[i][r] /\ sess[i][r] # None
    BY <1>4
  <2>2. sess[i][r].init \in Ids /\ None \notin Ids
    BY <1>2, <2>1, Entries
  <2>3. CASE handshake'[i][r] = None
    BY <2>1, <2>2, <2>3 DEF SafetyInv, FinishedOnce
  <2>4. CASE handshake'[i][r] # None
    BY <1>4, <2>1, <2>4 DEF SafetyInv, FinishedOnce
  <2> QED BY <2>3, <2>4
<1> QED BY <1>7, <1>8, <1>9 DEF SafetyInv

\* A new process knows no peer and owes no handshake to anybody.
LEMMA RestartSafety ==
  ASSUME SafetyInv, NEW n \in Nodes, Restart(n)
  PROVE  SafetyInv'
<1>1. /\ listed' = [listed EXCEPT ![n] = {}]
      /\ sess' = Keep(sess, n, {})
      /\ handshake' = Keep(handshake, n, {})
      /\ helloDue' = helloDue \ ({n} \X Nodes)
      /\ jobs' = {j \in jobs : j.node # n}
      /\ reading' = [reading EXCEPT ![n] = None]
      /\ wire' = wire
  BY DEF Restart
<1>2. TypeOK
  BY DEF SafetyInv
<1>3. faults' \in [FaultKinds -> Nat]
  <2>1. "forget" \in FaultKinds
    BY DEF FaultKinds
  <2> QED BY <1>2, <2>1, FaultTypes DEF Restart
<1>4. /\ sess' \in [Nodes -> [Nodes -> Session \cup {None}]]
      /\ handshake' \in [Nodes -> [Nodes -> Ids \cup {None}]]
      /\ \A a, b \in Nodes :
           /\ sess'[a][b] # None => a # n /\ sess'[a][b] = sess[a][b]
           /\ handshake'[a][b] # None => handshake'[a][b] = handshake[a][b]
           /\ a # n => handshake'[a][b] = handshake[a][b]
  BY <1>1, <1>2, KeepTables
<1>5. \A a \in Nodes : /\ a # n => reading'[a] = reading[a]
                       /\ a = n => reading'[a] = None
  BY <1>1, <1>2 DEF TypeOK
<1>6. TypeOK'
  <2>1. listed' \in [Nodes -> SUBSET Nodes]
    BY <1>1, <1>2 DEF TypeOK
  <2>2. reading' \in [Nodes -> Reading \cup {None}]
    BY <1>1, <1>2 DEF TypeOK
  <2>3. jobs' \in SUBSET Job /\ helloDue' \in SUBSET (Nodes \X Nodes)
    BY <1>1, <1>2 DEF TypeOK
  <2> QED BY <1>1, <1>2, <1>3, <1>4, <2>1, <2>2, <2>3 DEF TypeOK
<1>7. OneInitiator'
  <2>1. \A a, b \in Nodes : handshake'[a][b] # None => a < b
    BY <1>4 DEF SafetyInv, OneInitiator
  <2>2. \A a \in Nodes : reading'[a] # None => a < reading'[a].peer
    BY <1>5 DEF SafetyInv, OneInitiator
  <2>3. \A j \in jobs' : j.node < j.peer
    BY <1>1 DEF SafetyInv, OneInitiator
  <2> QED BY <1>1, <2>1, <2>2, <2>3 DEF SafetyInv, OneInitiator
<1>8. FinishedOnce'
  BY <1>4, <1>5 DEF SafetyInv, FinishedOnce
<1> QED BY <1>6, <1>7, <1>8 DEF SafetyInv

\* Deciding on a retry or a wake-up only adds jobs of an initiator.
LEMMA DecideSafety ==
  ASSUME SafetyInv, NEW n \in Nodes, NEW m \in Nodes,
         Elapse(n, m) \/ MaintainPeers(n) \/ Wake(n, m)
  PROVE  SafetyInv'
<1>1. UNCHANGED <<listed, sess, handshake, reading, wire, faults>>
  BY DEF Elapse, MaintainPeers, Wake
<1>2. TypeOK
  BY DEF SafetyInv
<1>3. helloDue' \in SUBSET (Nodes \X Nodes)
  BY <1>2 DEF Elapse, MaintainPeers, Wake, TypeOK
<1>4. /\ jobs' \in SUBSET Job
      /\ \A j \in jobs' : j.node < j.peer
  <2>1. jobs \in SUBSET Job /\ \A j \in jobs : j.node < j.peer
    BY DEF SafetyInv, TypeOK, OneInitiator
  <2>2. ASSUME NEW k \in Nodes, isInitiatorFor(n, k)
        PROVE  /\ [node |-> n, peer |-> k, live |-> TRUE,
                   by |-> "maintain"] \in Job
               /\ [node |-> n, peer |-> k, live |-> TRUE,
                   by |-> "readDevice"] \in Job
               /\ n < k
    BY <2>2 DEF Job, isInitiatorFor
  <2>3. CASE Elapse(n, m)
    BY <2>1, <2>3 DEF Elapse
  <2>4. CASE MaintainPeers(n)
    <3>1. \A k \in Overdue(n) : k \in Nodes /\ isInitiatorFor(n, k)
      BY <1>2 DEF Overdue, TypeOK
    <3>2. ASSUME NEW j \in jobs', j \notin jobs
          PROVE  j \in Job /\ j.node < j.peer
      <4>1. PICK k \in Overdue(n) :
              j = [node |-> n, peer |-> k, live |-> TRUE, by |-> "maintain"]
        BY <2>4, <3>2 DEF MaintainPeers
      <4> QED BY <2>2, <3>1, <4>1
    <3> QED BY <2>1, <3>2
  <2>5. CASE Wake(n, m)
    <3> DEFINE job == [node |-> n, peer |-> m, live |-> TRUE,
                       by |-> "readDevice"]
    <3>1. jobs' = jobs \cup {job}
      BY <2>5 DEF Wake
    <3>2. isInitiatorFor(n, m)
      BY <2>5 DEF Wake
    <3>3. job \in Job /\ job.node < job.peer
      BY <2>2, <3>2
    <3> HIDE DEF job
    <3> QED BY <2>1, <3>1, <3>3
  <2> QED BY <2>3, <2>4, <2>5
<1>5. TypeOK'
  BY <1>1, <1>2, <1>3, <1>4 DEF TypeOK
<1>6. OneInitiator' /\ FinishedOnce'
  BY <1>1, <1>4 DEF SafetyInv, OneInitiator, FinishedOnce
<1> QED BY <1>5, <1>6 DEF SafetyInv

\* A new handshake's key is none that a session or a reply came from.
LEMMA StartHandshakeSafety ==
  ASSUME SafetyInv, NEW j \in jobs, StartHandshake(j)
  PROVE  SafetyInv'
<1> DEFINE e == Pick(FreshInit(j.node, j.peer))
           msg == [type |-> "init", from |-> j.node, to |-> j.peer, init |-> e]
<1>1. TypeOK
  BY DEF SafetyInv
<1>2. /\ j.node \in Nodes /\ j.peer \in Nodes /\ j.node < j.peer
  BY <1>1 DEF SafetyInv, OneInitiator, TypeOK, Job
<1>3. e \in Ids /\ e \in FreshInit(j.node, j.peer)
  BY PickIn, FreshTypes DEF StartHandshake
<1> HIDE DEF e
<1>4. /\ wire' = wire \cup {msg}
      /\ jobs' = jobs \ {j}
      /\ UNCHANGED <<listed, sess, reading, faults>>
      /\ \/ /\ handshake' = [handshake EXCEPT ![j.node][j.peer] = e]
            /\ helloDue' = helloDue \ {<<j.node, j.peer>>}
         \/ UNCHANGED <<handshake, helloDue>>
  BY DEF StartHandshake, e
<1>5. msg \in InitMsg /\ msg.from < msg.to
  BY <1>2, <1>3 DEF InitMsg
<1>6. /\ handshake' \in [Nodes -> [Nodes -> Ids \cup {None}]]
      /\ \A a, b \in Nodes :
           \/ handshake'[a][b] = handshake[a][b]
           \/ a = j.node /\ b = j.peer /\ handshake'[a][b] = e
  <2>1. handshake \in [Nodes -> [Nodes -> Ids \cup {None}]]
    BY <1>1 DEF TypeOK
  <2> QED BY <1>2, <1>3, <1>4, <2>1
<1>7. TypeOK'
  <2>1. wire' \in SUBSET (InitMsg \cup ReplyMsg) /\ jobs' \in SUBSET Job
    BY <1>1, <1>4, <1>5 DEF TypeOK
  <2>2. helloDue' \in SUBSET (Nodes \X Nodes)
    BY <1>1, <1>4 DEF TypeOK
  <2> QED BY <1>1, <1>4, <1>6, <2>1, <2>2 DEF TypeOK
<1>8. OneInitiator'
  <2>1. \A w \in wire' : IF w.type = "init" THEN w.from < w.to
                                            ELSE w.to < w.from
    BY <1>4, <1>5 DEF SafetyInv, OneInitiator
  <2>2. \A k \in jobs' : k.node < k.peer
    BY <1>4 DEF SafetyInv, OneInitiator
  <2>3. \A a, b \in Nodes : handshake'[a][b] # None => a < b
    BY <1>2, <1>6 DEF SafetyInv, OneInitiator
  <2>4. \A a \in Nodes : reading'[a] # None => a < reading'[a].peer
    BY <1>4 DEF SafetyInv, OneInitiator
  <2> QED BY <2>1, <2>2, <2>3, <2>4 DEF OneInitiator
<1>9. FinishedOnce'
  <2>1. sess[j.node][j.peer] # None => e # sess[j.node][j.peer].init
    BY <1>3 DEF FreshInit, SessionsOf
  <2> QED BY <1>4, <1>6, <2>1 DEF SafetyInv, FinishedOnce
<1> QED BY <1>7, <1>8, <1>9 DEF SafetyInv

\* A responder's session is not an initiator's.
LEMMA ReceiveInitSafety ==
  ASSUME SafetyInv, NEW n \in Nodes, NEW msg \in wire, ReceiveInit(n, msg)
  PROVE  SafetyInv'
<1> DEFINE i == msg.from
           s == [init |-> msg.init, reply |-> Pick(FreshReply(i, n))]
           reply == [type |-> "reply", from |-> n, to |-> i, sess |-> s]
<1>1. TypeOK
  BY DEF SafetyInv
<1>2. i \in Nodes /\ msg.init \in Ids /\ i < n
  <2>1. msg \in InitMsg \cup ReplyMsg /\ msg.type = "init" /\ msg.to = n
    BY <1>1 DEF TypeOK, ReceiveInit
  <2>2. msg \in InitMsg
    BY <2>1 DEF ReplyMsg
  <2> QED BY <2>1, <2>2 DEF InitMsg, SafetyInv, OneInitiator
<1>3. s \in Session
  <2>1. Pick(FreshReply(i, n)) \in Ids
    BY PickIn, FreshTypes DEF ReceiveInit
  <2> QED BY <1>2, <2>1 DEF Session
<1> HIDE DEF s
<1>4. /\ sess' = [sess EXCEPT ![n][i] = s]
      /\ Deliver(msg, {reply})
      /\ handshake' = [handshake EXCEPT ![n][i] = None]
      /\ UNCHANGED <<listed, helloDue, jobs, reading>>
  BY DEF ReceiveInit, s
<1>5. reply \in ReplyMsg /\ reply.type = "reply" /\ reply.to < reply.from
  BY <1>2, <1>3 DEF ReplyMsg
<1>6. wire' \subseteq wire \cup {reply} /\ faults' \in [FaultKinds -> Nat]
  BY <1>1, <1>4, DeliverWire
<1>7. /\ sess' \in [Nodes -> [Nodes -> Session \cup {None}]]
      /\ \A a, b \in Nodes :
           sess'[a][b] = sess[a][b] \/ (a = n /\ b = i)
  <2>1. sess \in [Nodes -> [Nodes -> Session \cup {None}]]
    BY <1>1 DEF TypeOK
  <2> QED BY <1>2, <1>3, <1>4, <2>1
<1>8. /\ handshake' \in [Nodes -> [Nodes -> Ids \cup {None}]]
      /\ \A a, b \in Nodes :
           \/ handshake'[a][b] = handshake[a][b]
           \/ a = n /\ b = i /\ handshake'[a][b] = None
  <2>1. handshake \in [Nodes -> [Nodes -> Ids \cup {None}]]
    BY <1>1 DEF TypeOK
  <2> QED BY <1>2, <1>4, <2>1
<1>9. TypeOK'
  BY <1>1, <1>4, <1>5, <1>6, <1>7, <1>8 DEF TypeOK
<1>10. OneInitiator'
  BY <1>4, <1>5, <1>6, <1>8 DEF SafetyInv, OneInitiator
<1>11. FinishedOnce'
  <2>1. \A a, b \in Nodes :
          a < b => /\ sess'[a][b] = sess[a][b]
                   /\ handshake'[a][b] = handshake[a][b]
    <3>1. n \in Nat /\ i \in Nat
      BY <1>2, HandshakeAssumption
    <3>2. ~(n < i)
      BY <1>2, <3>1
    <3> QED BY <1>7, <1>8, <3>2
  <2> QED BY <1>4, <2>1 DEF SafetyInv, FinishedOnce
<1> QED BY <1>9, <1>10, <1>11 DEF SafetyInv

\* What readSocket reads is the pending handshake, which is not finished.
LEMMA ReceiveReplySafety ==
  ASSUME SafetyInv, NEW n \in Nodes, NEW msg \in wire, ReceiveReply(n, msg)
  PROVE  SafetyInv'
<1> DEFINE r == msg.from
           got == [peer |-> r, handshake |-> handshake[n][r],
                   reply |-> msg.sess]
<1>1. TypeOK
  BY DEF SafetyInv
<1>2. r \in Nodes /\ msg.sess \in Session /\ n < r
  <2>1. msg \in InitMsg \cup ReplyMsg /\ msg.type = "reply" /\ msg.to = n
    BY <1>1 DEF TypeOK, ReceiveReply
  <2>2. msg \in ReplyMsg
    BY <2>1 DEF InitMsg
  <2> QED BY <2>1, <2>2 DEF ReplyMsg, SafetyInv, OneInitiator
<1>3. handshake[n][r] # None /\ handshake[n][r] \in Ids
  BY <1>1, <1>2, Entries DEF ReceiveReply
<1>4. /\ reading' = [reading EXCEPT ![n] = got]
      /\ Deliver(msg, {})
      /\ UNCHANGED <<listed, sess, handshake, helloDue, jobs>>
  BY DEF ReceiveReply
<1>5. got \in Reading /\ got.peer = r /\ got.handshake = handshake[n][r]
  BY <1>2, <1>3 DEF Reading
<1>6. wire' \subseteq wire /\ faults' \in [FaultKinds -> Nat]
  BY <1>1, <1>4, DeliverWire
<1> HIDE DEF got
<1>7. \A a \in Nodes : reading'[a] = IF a = n THEN got ELSE reading[a]
  BY <1>1, <1>4 DEF TypeOK
<1>8. TypeOK'
  <2>1. reading' \in [Nodes -> Reading \cup {None}]
    BY <1>1, <1>4, <1>5 DEF TypeOK
  <2> QED BY <1>1, <1>4, <1>6, <2>1 DEF TypeOK
<1>9. OneInitiator'
  BY <1>2, <1>4, <1>5, <1>6, <1>7 DEF SafetyInv, OneInitiator
<1>10. FinishedOnce'
  BY <1>4, <1>5, <1>7 DEF SafetyInv, FinishedOnce
<1> QED BY <1>8, <1>9, <1>10 DEF SafetyInv

\* The session a finished handshake gives is the last of that handshake.
LEMMA FinishHandshakeSafety ==
  ASSUME SafetyInv, NEW n \in Nodes, FinishHandshake(n)
  PROVE  SafetyInv'
<1> DEFINE r == reading[n].peer
           s == reading[n].reply
<1>1. TypeOK
  BY DEF SafetyInv
<1>2. /\ reading[n] # None
      /\ sess' = IF reading[n].handshake = s.init
                   THEN [sess EXCEPT ![n][r] = s] ELSE sess
      /\ handshake' = [handshake EXCEPT ![n][r] = None]
      /\ reading' = [reading EXCEPT ![n] = None]
      /\ UNCHANGED <<listed, helloDue, jobs, wire, faults>>
  BY DEF FinishHandshake
<1>3. r \in Nodes /\ s \in Session /\ s.init \in Ids /\ None \notin Ids
  BY <1>1, <1>2, Entries
<1>4. /\ sess' \in [Nodes -> [Nodes -> Session \cup {None}]]
      /\ \A a, b \in Nodes :
           \/ sess'[a][b] = sess[a][b]
           \/ a = n /\ b = r /\ sess'[a][b] = s
  <2>1. sess \in [Nodes -> [Nodes -> Session \cup {None}]]
    BY <1>1 DEF TypeOK
  <2> QED BY <1>2, <1>3, <2>1
<1>5. /\ handshake' \in [Nodes -> [Nodes -> Ids \cup {None}]]
      /\ \A a, b \in Nodes :
           handshake'[a][b] = IF a = n /\ b = r THEN None ELSE handshake[a][b]
  <2>1. handshake \in [Nodes -> [Nodes -> Ids \cup {None}]]
    BY <1>1 DEF TypeOK
  <2> QED BY <1>2, <1>3, <2>1
<1>6. \A a \in Nodes : reading'[a] = IF a = n THEN None ELSE reading[a]
  BY <1>1, <1>2 DEF TypeOK
<1>7. TypeOK'
  <2>1. reading' \in [Nodes -> Reading \cup {None}]
    BY <1>1, <1>2 DEF TypeOK
  <2> QED BY <1>1, <1>2, <1>4, <1>5, <2>1 DEF TypeOK
<1>8. OneInitiator'
  BY <1>2, <1>5, <1>6 DEF SafetyInv, OneInitiator
<1>9. FinishedOnce'
  <2> SUFFICES ASSUME NEW a \in Nodes, NEW b \in Nodes, a < b,
                      sess'[a][b] # None
               PROVE  /\ handshake'[a][b] # sess'[a][b].init
                      /\ reading'[a] # None /\ reading'[a].peer = b =>
                           reading'[a].handshake # sess'[a][b].init
    BY DEF FinishedOnce
  <2>1. CASE sess'[a][b] = sess[a][b]
    <3>1. sess[a][b].init \in Ids
      BY <1>1, <2>1, Entries
    <3> QED BY <1>3, <1>5, <1>6, <2>1, <3>1 DEF SafetyInv, FinishedOnce
  <2>2. CASE a = n /\ b = r /\ sess'[a][b] = s
    BY <1>3, <1>5, <1>6, <2>2
  <2> QED BY <1>4, <2>1, <2>2
<1> QED BY <1>7, <1>8, <1>9 DEF SafetyInv

\* A message that is discarded or lost changes nothing but the wire.
LEMMA DropSafety ==
  ASSUME SafetyInv, NEW msg \in wire,
         Lose(msg) \/ \E n \in Nodes : Discard(n, msg)
  PROVE  SafetyInv'
<1>1. TypeOK
  BY DEF SafetyInv
<1>2. /\ wire' \subseteq wire
      /\ faults' \in [FaultKinds -> Nat]
      /\ UNCHANGED <<listed, sess, handshake, helloDue, jobs, reading>>
  <2>1. CASE Lose(msg)
    <3>1. "lose" \in FaultKinds
      BY DEF FaultKinds
    <3> QED BY <1>1, <2>1, <3>1, FaultTypes DEF Lose
  <2>2. CASE \E n \in Nodes : Discard(n, msg)
    BY <1>1, <2>2, DeliverWire DEF Discard
  <2> QED BY <2>1, <2>2
<1>3. TypeOK'
  BY <1>1, <1>2 DEF TypeOK
<1>4. OneInitiator' /\ FinishedOnce'
  BY <1>2 DEF SafetyInv, OneInitiator, FinishedOnce
<1> QED BY <1>3, <1>4 DEF SafetyInv

LEMMA NextSafety == SafetyInv /\ [Next]_vars => SafetyInv'
<1> SUFFICES ASSUME SafetyInv, [Next]_vars PROVE SafetyInv'
  OBVIOUS
<1>1. ASSUME NEW n \in Nodes, NEW L \in SUBSET (Nodes \ {n}), MergePeers(n, L)
      PROVE  SafetyInv'
  BY <1>1, MergePeersSafety
<1>2. ASSUME NEW n \in Nodes, Restart(n) PROVE SafetyInv'
  BY <1>2, RestartSafety
<1>3. ASSUME NEW n \in Nodes, MaintainPeers(n) PROVE SafetyInv'
  BY <1>3, DecideSafety
<1>4. ASSUME NEW n \in Nodes, FinishHandshake(n) PROVE SafetyInv'
  BY <1>4, FinishHandshakeSafety
<1>5. ASSUME NEW n \in Nodes, NEW m \in Nodes, Elapse(n, m) \/ Wake(n, m)
      PROVE  SafetyInv'
  BY <1>5, DecideSafety
<1>6. ASSUME NEW n \in Nodes, NEW msg \in wire, Receive(n, msg)
      PROVE  SafetyInv'
  BY <1>6, ReceiveInitSafety, ReceiveReplySafety, DropSafety DEF Receive
<1>7. ASSUME NEW j \in jobs, StartHandshake(j) PROVE SafetyInv'
  BY <1>7, StartHandshakeSafety
<1>8. ASSUME NEW msg \in wire, Lose(msg) PROVE SafetyInv'
  BY <1>8, DropSafety
<1>9. CASE UNCHANGED vars
  BY <1>9 DEF vars, SafetyInv, TypeOK, OneInitiator, FinishedOnce
<1> QED BY <1>1, <1>2, <1>3, <1>4, <1>5, <1>6, <1>7, <1>8, <1>9 DEF Next

\* The state of every client keeps its types; no handshake that is being
\* finished is nil.
THEOREM HandshakeTypes == Spec => []TypeOK
<1>1. Spec => []SafetyInv
  BY InitSafety, NextSafety, PTL DEF Spec
<1>2. SafetyInv => TypeOK
  BY DEF SafetyInv
<1> QED BY <1>1, <1>2, PTL

\* Glare is impossible between any number of peers.
THEOREM NoGlare == Spec => []OneInitiator
<1>1. Spec => []SafetyInv
  BY InitSafety, NextSafety, PTL DEF Spec
<1>2. SafetyInv => OneInitiator
  BY DEF SafetyInv
<1> QED BY <1>1, <1>2, PTL

\* No repetition or reordering makes an initiator use a session twice.
THEOREM HandshakeFinishedOnce == Spec => []FinishedOnce
<1>1. Spec => []SafetyInv
  BY InitSafety, NextSafety, PTL DEF Spec
<1>2. SafetyInv => FinishedOnce
  BY DEF SafetyInv
<1> QED BY <1>1, <1>2, PTL

-----------------------------------------------------------------------------
(***************************************************************************)
(* Agreement.  It needs more than safety of the protocol alone: an orderly *)
(* network and orderly peers.  Orderly says what they are, PairInv that    *)
(* there is never more than one attempt between two peers, at one stage.   *)
(***************************************************************************)

\* An attempt ends before the next is decided, no init comes twice, and no
\* peer that answers loses its memory.
Orderly ==
  /\ Prompt
  /\ MaxFaults["repeat init"] = 0
  /\ \A f \in Forgetful, n \in Nodes : ~(n < f)

PairInv(i, r) ==
  /\ \A j \in jobs : j.node = i /\ j.peer = r =>
       /\ sess[i][r] = None
       /\ \A msg \in wire : ~Between(msg, i, r)
       /\ BeingRead(i, r) = {}
       /\ \A k \in jobs : k.node = i /\ k.peer = r => k = j
  /\ \A msg \in wire : Between(msg, i, r) =>
       IF msg.type = "init"
         THEN /\ sess[i][r] = None
              /\ BeingRead(i, r) = {}
              /\ \A w \in wire : Between(w, i, r) => w = msg
         ELSE sess[r][i] = msg.sess
  /\ \A got \in BeingRead(i, r) : got.reply = sess[r][i]
  /\ sess[i][r] # None => sess[r][i] = sess[i][r]
  /\ r \notin listed[i] => Quiet(i, r)

UnlistedEmpty ==
  \A n, m \in Nodes : m \notin listed[n] => sess[n][m] = None

OrderlyInv ==
  /\ SafetyInv
  /\ UnlistedEmpty
  /\ \A i, r \in Nodes : i < r => PairInv(i, r)

LEMMA InitOrderly == Init => OrderlyInv
<1> SUFFICES ASSUME Init PROVE OrderlyInv
  OBVIOUS
<1>1. SafetyInv
  BY InitSafety
<1>2. UnlistedEmpty
  BY DEF Init, UnlistedEmpty
<1>3. ASSUME NEW i \in Nodes, NEW r \in Nodes PROVE PairInv(i, r)
  BY DEF Init, PairInv, BeingRead, Quiet, Busy
<1> QED BY <1>1, <1>2, <1>3 DEF OrderlyInv

\* PairInv survives a step that only takes away from what is under way.
LEMMA LessUnderWay ==
  ASSUME NEW i \in Nodes, NEW r \in Nodes, PairInv(i, r),
         sess'[i][r] = sess[i][r],
         sess'[r][i] = sess[r][i],
         \A msg \in wire' : Between(msg, i, r) => msg \in wire,
         \A j \in jobs' : j.node = i /\ j.peer = r => j \in jobs,
         BeingRead(i, r)' \subseteq BeingRead(i, r),
         r \notin listed'[i] => r \notin listed[i]
  PROVE  PairInv(i, r)'
<1>1. \A j \in jobs' : j.node = i /\ j.peer = r =>
        /\ sess'[i][r] = None
        /\ \A msg \in wire' : ~Between(msg, i, r)
        /\ BeingRead(i, r)' = {}
        /\ \A k \in jobs' : k.node = i /\ k.peer = r => k = j
  BY DEF PairInv
<1>2. \A msg \in wire' : Between(msg, i, r) =>
        IF msg.type = "init"
          THEN /\ sess'[i][r] = None
               /\ BeingRead(i, r)' = {}
               /\ \A w \in wire' : Between(w, i, r) => w = msg
          ELSE sess'[r][i] = msg.sess
  BY DEF PairInv
<1>3. \A got \in BeingRead(i, r)' : got.reply = sess'[r][i]
  BY DEF PairInv
<1>4. sess'[i][r] # None => sess'[r][i] = sess'[i][r]
  BY DEF PairInv
<1>5. r \notin listed'[i] => Quiet(i, r)'
  BY DEF PairInv, Quiet, Busy
<1> QED BY <1>1, <1>2, <1>3, <1>4, <1>5 DEF PairInv, Between

\* The steps that start and end nothing.
LEMMA IdleOrderly ==
  ASSUME OrderlyInv, SafetyInv',
         \/ UNCHANGED vars
         \/ \E n, m \in Nodes : Elapse(n, m)
         \/ \E msg \in wire : Lose(msg) \/ \E n \in Nodes : Discard(n, msg)
  PROVE  OrderlyInv'
<1>1. /\ UNCHANGED <<listed, sess, jobs, reading>>
      /\ wire' \subseteq wire
  BY DEF vars, Elapse, Lose, Discard, Deliver
<1>2. UnlistedEmpty'
  BY <1>1 DEF OrderlyInv, UnlistedEmpty
<1>3. ASSUME NEW i \in Nodes, NEW r \in Nodes, i < r
      PROVE  PairInv(i, r)'
  <2>1. PairInv(i, r)
    BY <1>3 DEF OrderlyInv
  <2>2. BeingRead(i, r)' = BeingRead(i, r)
    BY <1>1 DEF BeingRead
  <2> QED BY <1>1, <2>1, <2>2, LessUnderWay
<1> QED BY <1>2, <1>3 DEF OrderlyInv

\* Only the first of the peers can forget somebody, and it answers nobody.
LEMMA NobodyBelow ==
  ASSUME Orderly, NEW f \in Forgetful, NEW i \in Nodes, NEW r \in Nodes, i < r
  PROVE  r # f
BY DEF Orderly

LEMMA MergePeersOrderly ==
  ASSUME OrderlyInv, SafetyInv', Orderly,
         NEW n \in Nodes, NEW L \in SUBSET (Nodes \ {n}), MergePeers(n, L)
  PROVE  OrderlyInv'
<1> DEFINE new == L \ listed[n]
           gone == listed[n] \ L
<1>1. /\ listed' = [listed EXCEPT ![n] = L]
      /\ sess' = Keep(sess, n, L)
      /\ UNCHANGED <<reading, wire>>
      /\ gone # {} => /\ n \in Forgetful
                      /\ \A m \in gone : Quiet(n, m)
  BY DEF MergePeers, Orderly
<1>2. TypeOK
  BY DEF OrderlyInv, SafetyInv
<1>3. \A a, b \in Nodes :
        sess'[a][b] = IF a = n /\ b \notin L THEN None ELSE sess[a][b]
  BY <1>1, <1>2, KeepTables
<1>4. \A a \in Nodes : listed'[a] = IF a = n THEN L ELSE listed[a]
  BY <1>1, <1>2 DEF TypeOK
<1>5. UnlistedEmpty'
  BY <1>3, <1>4 DEF OrderlyInv, UnlistedEmpty
<1>6. ASSUME NEW j \in jobs', j \notin jobs
      PROVE  \/ /\ j.node = n /\ j.peer \in gone
                /\ \E k \in jobs : k.node = n /\ k.peer = j.peer
             \/ /\ j = [node |-> n, peer |-> j.peer, live |-> TRUE,
                        by |-> "readSocket"]
                /\ j.peer \in new
  <2>1. CASE j \in Orphan(n, gone)
    <3>1. PICK k \in jobs :
            j = IF k.node = n /\ k.peer \in gone
                  THEN [k EXCEPT !.live = FALSE] ELSE k
      BY <2>1 DEF Orphan
    <3>2. k \in Job
      BY <1>2 DEF TypeOK
    <3>3. /\ k.node = n /\ k.peer \in gone
          /\ j = [k EXCEPT !.live = FALSE]
      BY <1>6, <3>1
    <3>4. j.node = k.node /\ j.peer = k.peer
      BY <3>2, <3>3 DEF Job
    <3> QED BY <3>3, <3>4
  <2>2. CASE j \notin Orphan(n, gone)
    <3>1. PICK m \in new : j = [node |-> n, peer |-> m, live |-> TRUE,
                                by |-> "readSocket"]
      BY <1>6, <2>2 DEF MergePeers
    <3> QED BY <3>1
  <2> QED BY <2>1, <2>2
<1>7. ASSUME NEW i \in Nodes, NEW r \in Nodes, i < r
      PROVE  PairInv(i, r)'
  <2>1. PairInv(i, r)
    BY <1>7 DEF OrderlyInv
  <2>2. /\ BeingRead(i, r)' = BeingRead(i, r)
        /\ UNCHANGED wire
    BY <1>1 DEF BeingRead
  <2>3. sess'[r][i] = sess[r][i]
    <3>1. CASE gone # {}
      BY <1>1, <1>3, <1>7, <3>1, NobodyBelow
    <3>2. CASE gone = {}
      BY <1>3, <3>2 DEF OrderlyInv, UnlistedEmpty
    <3> QED BY <3>1, <3>2
  <2>4. CASE i = n /\ r \in new
    <3>1. Quiet(i, r) /\ sess[i][r] = None
      BY <2>1, <2>4 DEF PairInv, OrderlyInv, UnlistedEmpty
    <3>2. /\ \A msg \in wire' : ~Between(msg, i, r)
          /\ BeingRead(i, r)' = {}
          /\ sess'[i][r] = None
      BY <1>3, <2>2, <2>4, <3>1 DEF Quiet, Busy
    <3>3. \A j \in jobs' : j.node = i /\ j.peer = r =>
            j = [node |-> n, peer |-> r, live |-> TRUE, by |-> "readSocket"]
      BY <1>6, <3>1, <2>4 DEF Quiet, Busy
    <3>4. r \in listed'[i]
      BY <1>4, <2>4
    <3> QED BY <3>2, <3>3, <3>4 DEF PairInv, Between
  <2>5. CASE i = n /\ r \in gone
    <3>1. Quiet(i, r)
      BY <1>1, <2>5
    <3>2. /\ \A msg \in wire' : ~Between(msg, i, r)
          /\ BeingRead(i, r)' = {}
          /\ sess'[i][r] = None
      BY <1>3, <2>2, <2>5, <3>1 DEF Quiet, Busy
    <3>3. \A j \in jobs' : ~(j.node = i /\ j.peer = r)
      BY <1>6, <2>5, <3>1 DEF Quiet, Busy
    <3>4. Quiet(i, r)'
      BY <3>2, <3>3 DEF Quiet, Busy, Between
    <3> QED BY <3>2, <3>3, <3>4 DEF PairInv, Between
  <2>6. CASE i # n \/ (r \notin new /\ r \notin gone)
    <3>1. sess'[i][r] = sess[i][r]
      BY <1>3, <2>6 DEF OrderlyInv, UnlistedEmpty
    <3>2. \A j \in jobs' : j.node = i /\ j.peer = r => j \in jobs
      BY <1>6, <2>6
    <3>3. r \notin listed'[i] => r \notin listed[i]
      BY <1>4, <2>6
    <3> QED BY <2>1, <2>2, <2>3, <3>1, <3>2, <3>3, LessUnderWay
  <2> QED BY <2>4, <2>5, <2>6
<1> QED BY <1>5, <1>7 DEF OrderlyInv

LEMMA RestartOrderly ==
  ASSUME OrderlyInv, SafetyInv', Orderly, NEW n \in Nodes, Restart(n)
  PROVE  OrderlyInv'
<1>1. /\ n \in Forgetful
      /\ \A m \in Nodes : Quiet(n, m)
      /\ listed' = [listed EXCEPT ![n] = {}]
      /\ sess' = Keep(sess, n, {})
      /\ jobs' = {j \in jobs : j.node # n}
      /\ reading' = [reading EXCEPT ![n] = None]
      /\ wire' = wire
  BY DEF Restart, Orderly
<1>2. TypeOK
  BY DEF OrderlyInv, SafetyInv
<1>3. \A a, b \in Nodes : sess'[a][b] = IF a = n THEN None ELSE sess[a][b]
  BY <1>1, <1>2, KeepTables
<1>4. \A a \in Nodes : /\ listed'[a] = IF a = n THEN {} ELSE listed[a]
                       /\ reading'[a] = IF a = n THEN None ELSE reading[a]
  BY <1>1, <1>2 DEF TypeOK
<1>5. UnlistedEmpty'
  BY <1>3, <1>4 DEF OrderlyInv, UnlistedEmpty
<1>6. ASSUME NEW i \in Nodes, NEW r \in Nodes, i < r
      PROVE  PairInv(i, r)'
  <2>1. PairInv(i, r)
    BY <1>6 DEF OrderlyInv
  <2>2. BeingRead(i, r)' \subseteq BeingRead(i, r)
    BY <1>4 DEF BeingRead
  <2>3. sess'[r][i] = sess[r][i]
    BY <1>1, <1>3, <1>6, NobodyBelow
  <2>4. CASE i = n
    <3>1. Quiet(i, r)
      BY <1>1, <2>4
    <3>2. /\ \A msg \in wire' : ~Between(msg, i, r)
          /\ BeingRead(i, r)' = {}
          /\ sess'[i][r] = None
          /\ \A j \in jobs' : ~(j.node = i /\ j.peer = r)
      BY <1>1, <1>3, <2>2, <2>4, <3>1 DEF Quiet, Busy
    <3>3. Quiet(i, r)'
      BY <3>2 DEF Quiet, Busy, Between
    <3> QED BY <3>2, <3>3 DEF PairInv, Between
  <2>5. CASE i # n
    BY <1>1, <1>3, <1>4, <2>1, <2>2, <2>3, <2>5, LessUnderWay
  <2> QED BY <2>4, <2>5
<1> QED BY <1>5, <1>6 DEF OrderlyInv

\* A retry is decided between attempts: it is the only one of its pair.
LEMMA MaintainPeersOrderly ==
  ASSUME OrderlyInv, SafetyInv', Orderly, NEW n \in Nodes, MaintainPeers(n)
  PROVE  OrderlyInv'
<1>1. /\ UNCHANGED <<listed, sess, reading, wire>>
      /\ \A m \in Overdue(n) : Quiet(n, m)
      /\ jobs' = jobs \cup {[node |-> n, peer |-> m, live |-> TRUE,
                             by |-> "maintain"] : m \in Overdue(n)}
  BY DEF MaintainPeers, Orderly
<1>2. UnlistedEmpty'
  BY <1>1 DEF OrderlyInv, UnlistedEmpty
<1>3. ASSUME NEW i \in Nodes, NEW r \in Nodes, i < r
      PROVE  PairInv(i, r)'
  <2>1. PairInv(i, r)
    BY <1>3 DEF OrderlyInv
  <2>2. BeingRead(i, r)' = BeingRead(i, r)
    BY <1>1 DEF BeingRead
  <2>3. CASE i = n /\ r \in Overdue(n)
    <3>1. Quiet(i, r) /\ sess[i][r] = None /\ r \in listed[i]
      BY <1>1, <2>3 DEF Overdue
    <3>2. \A j \in jobs' : j.node = i /\ j.peer = r =>
            j = [node |-> n, peer |-> r, live |-> TRUE, by |-> "maintain"]
      BY <1>1, <2>3, <3>1 DEF Quiet, Busy
    <3>3. /\ \A msg \in wire' : ~Between(msg, i, r)
          /\ BeingRead(i, r)' = {}
      BY <1>1, <2>2, <3>1 DEF Quiet, Busy
    <3> QED BY <1>1, <3>1, <3>2, <3>3 DEF PairInv, Between
  <2>4. CASE ~(i = n /\ r \in Overdue(n))
    <3>1. \A j \in jobs' : j.node = i /\ j.peer = r => j \in jobs
      BY <1>1, <2>4
    <3> QED BY <1>1, <2>1, <2>2, <3>1, LessUnderWay
  <2> QED BY <2>3, <2>4
<1> QED BY <1>2, <1>3 DEF OrderlyInv

\* Waking a quiet pair is the same for one peer.
LEMMA WakeOrderly ==
  ASSUME OrderlyInv, SafetyInv', Orderly,
         NEW n \in Nodes, NEW m \in Nodes, Wake(n, m)
  PROVE  OrderlyInv'
<1> DEFINE job == [node |-> n, peer |-> m, live |-> TRUE, by |-> "readDevice"]
<1>1. /\ UNCHANGED <<listed, sess, reading, wire>>
      /\ Quiet(n, m) /\ sess[n][m] = None /\ m \in listed[n]
      /\ jobs' = jobs \cup {job}
  BY DEF Wake, Orderly
<1>2. UnlistedEmpty'
  BY <1>1 DEF OrderlyInv, UnlistedEmpty
<1>3. job.node = n /\ job.peer = m
  OBVIOUS
<1> HIDE DEF job
<1>4. ASSUME NEW i \in Nodes, NEW r \in Nodes, i < r
      PROVE  PairInv(i, r)'
  <2>1. PairInv(i, r)
    BY <1>4 DEF OrderlyInv
  <2>2. BeingRead(i, r)' = BeingRead(i, r)
    BY <1>1 DEF BeingRead
  <2>3. CASE i = n /\ r = m
    <3>1. \A j \in jobs' : j.node = i /\ j.peer = r => j = job
      BY <1>1, <2>3 DEF Quiet, Busy
    <3>2. /\ \A msg \in wire' : ~Between(msg, i, r)
          /\ BeingRead(i, r)' = {}
      BY <1>1, <2>2, <2>3 DEF Quiet, Busy
    <3> QED BY <1>1, <2>3, <3>1, <3>2 DEF PairInv, Between
  <2>4. CASE ~(i = n /\ r = m)
    <3>1. \A j \in jobs' : j.node = i /\ j.peer = r => j \in jobs
      BY <1>1, <1>3, <2>4
    <3> QED BY <1>1, <2>1, <2>2, <3>1, LessUnderWay
  <2> QED BY <2>3, <2>4
<1> QED BY <1>2, <1>4 DEF OrderlyInv

\* The job becomes the one init of its pair.
LEMMA StartHandshakeOrderly ==
  ASSUME OrderlyInv, SafetyInv', NEW j \in jobs, StartHandshake(j)
  PROVE  OrderlyInv'
<1> DEFINE msg == [type |-> "init", from |-> j.node, to |-> j.peer,
                   init |-> Pick(FreshInit(j.node, j.peer))]
<1>1. /\ UNCHANGED <<listed, sess, reading>>
      /\ wire' = wire \cup {msg}
      /\ jobs' = jobs \ {j}
  BY DEF StartHandshake
<1>2. j.node \in Nodes /\ j.peer \in Nodes /\ j.node < j.peer
  BY DEF OrderlyInv, SafetyInv, OneInitiator, TypeOK, Job
<1>3. /\ msg.type = "init"
      /\ \A a, b : Between(msg, a, b) => \/ a = j.node /\ b = j.peer
                                         \/ a = j.peer /\ b = j.node
  BY DEF Between
<1> HIDE DEF msg
<1>4. UnlistedEmpty'
  BY <1>1 DEF OrderlyInv, UnlistedEmpty
<1>5. ASSUME NEW i \in Nodes, NEW r \in Nodes, i < r
      PROVE  PairInv(i, r)'
  <2>1. PairInv(i, r)
    BY <1>5 DEF OrderlyInv
  <2>2. BeingRead(i, r)' = BeingRead(i, r)
    BY <1>1 DEF BeingRead
  <2>3. CASE i = j.node /\ r = j.peer
    <3>1. /\ sess[i][r] = None
          /\ \A w \in wire : ~Between(w, i, r)
          /\ BeingRead(i, r) = {}
          /\ \A k \in jobs : k.node = i /\ k.peer = r => k = j
          /\ r \in listed[i]
      BY <2>1, <2>3 DEF PairInv, Quiet, Busy
    <3>2. /\ sess'[i][r] = None
          /\ BeingRead(i, r)' = {}
          /\ \A k \in jobs' : ~(k.node = i /\ k.peer = r)
          /\ r \in listed'[i]
      BY <1>1, <2>2, <3>1
    <3>3. \A w \in wire' : Between(w, i, r) => w = msg
      BY <1>1, <3>1
    <3> QED BY <1>3, <3>2, <3>3 DEF PairInv, Between
  <2>4. CASE ~(i = j.node /\ r = j.peer)
    <3>1. i \in Nat /\ r \in Nat
      BY HandshakeAssumption
    <3>2. ~Between(msg, i, r)
      BY <1>2, <1>3, <1>5, <2>4, <3>1
    <3> QED BY <1>1, <2>1, <2>2, <3>2, LessUnderWay
  <2> QED BY <2>3, <2>4
<1> QED BY <1>4, <1>5 DEF OrderlyInv

\* The init becomes the responder's session, and the one reply of its pair.
LEMMA ReceiveInitOrderly ==
  ASSUME OrderlyInv, SafetyInv', Orderly,
         NEW n \in Nodes, NEW msg \in wire, ReceiveInit(n, msg)
  PROVE  OrderlyInv'
<1> DEFINE a == msg.from
           s == [init |-> msg.init, reply |-> Pick(FreshReply(a, n))]
           reply == [type |-> "reply", from |-> n, to |-> a, sess |-> s]
<1>1. /\ UNCHANGED <<listed, jobs, reading>>
      /\ sess' = [sess EXCEPT ![n][a] = s]
      /\ msg.type = "init" /\ msg.to = n /\ a \in listed[n]
  BY DEF ReceiveInit
<1>2. wire' = (wire \ {msg}) \cup {reply}
  <2>1. ~Fault("repeat init")
    <3>1. faults["repeat init"] \in Nat
      BY DEF OrderlyInv, SafetyInv, TypeOK, FaultKinds
    <3>2. MaxFaults["repeat init"] = 0
      BY DEF Orderly
    <3>3. \A k \in Nat : ~(k < 0)
      OBVIOUS
    <3> QED BY <3>1, <3>2, <3>3 DEF Fault
  <2> QED BY <1>1, <2>1 DEF ReceiveInit, Deliver
<1>3. TypeOK
  BY DEF OrderlyInv, SafetyInv
<1>4. a \in Nodes /\ a < n
  <2>1. msg \in InitMsg \cup ReplyMsg
    BY <1>3 DEF TypeOK
  <2> QED BY <1>1, <2>1 DEF InitMsg, ReplyMsg, OrderlyInv, SafetyInv,
                            OneInitiator
<1>5. /\ reply.type = "reply" /\ reply.sess = s
      /\ reply.from = n /\ reply.to = a
  OBVIOUS
<1> HIDE DEF reply, s
<1>6. \A x, y \in Nodes :
        sess'[x][y] = IF x = n /\ y = a THEN s ELSE sess[x][y]
  BY <1>1, <1>3, <1>4 DEF TypeOK
<1>7. UnlistedEmpty'
  BY <1>1, <1>6 DEF OrderlyInv, UnlistedEmpty
<1>8. ASSUME NEW i \in Nodes, NEW r \in Nodes, i < r
      PROVE  PairInv(i, r)'
  <2>1. PairInv(i, r)
    BY <1>8 DEF OrderlyInv
  <2>2. BeingRead(i, r)' = BeingRead(i, r)
    BY <1>1 DEF BeingRead
  <2>3. i \in Nat /\ r \in Nat /\ a \in Nat /\ n \in Nat
    BY <1>4, HandshakeAssumption
  <2>4. CASE i = a /\ r = n
    <3>1. Between(msg, i, r)
      BY <1>1, <2>4 DEF Between
    <3>2. /\ sess[i][r] = None
          /\ BeingRead(i, r) = {}
          /\ \A w \in wire : Between(w, i, r) => w = msg
          /\ \A j \in jobs : ~(j.node = i /\ j.peer = r)
          /\ r \in listed[i]
      BY <1>1, <2>1, <3>1 DEF PairInv, Quiet, Busy
    <3>3. /\ sess'[i][r] = None
          /\ sess'[r][i] = s
      BY <1>6, <2>3, <2>4, <3>2, <1>8
    <3>4. \A w \in wire' : Between(w, i, r) => w = reply
      BY <1>2, <3>2
    <3> QED BY <1>1, <1>5, <2>2, <3>2, <3>3, <3>4 DEF PairInv, Between
  <2>5. CASE ~(i = a /\ r = n)
    <3>1. sess'[i][r] = sess[i][r] /\ sess'[r][i] = sess[r][i]
      BY <1>4, <1>6, <1>8, <2>3, <2>5
    <3>2. ~Between(reply, i, r)
      BY <1>4, <1>5, <1>8, <2>3, <2>5 DEF Between
    <3> QED BY <1>1, <1>2, <2>1, <2>2, <3>1, <3>2, LessUnderWay
  <2> QED BY <2>4, <2>5
<1> QED BY <1>7, <1>8 DEF OrderlyInv

\* What readSocket is about to finish is what the responder holds.
LEMMA ReceiveReplyOrderly ==
  ASSUME OrderlyInv, SafetyInv',
         NEW n \in Nodes, NEW msg \in wire, ReceiveReply(n, msg)
  PROVE  OrderlyInv'
<1> DEFINE b == msg.from
           got == [peer |-> b, handshake |-> handshake[n][b],
                   reply |-> msg.sess]
<1>1. /\ UNCHANGED <<listed, sess, jobs>>
      /\ reading[n] = None
      /\ reading' = [reading EXCEPT ![n] = got]
      /\ wire' \subseteq wire
      /\ msg.type = "reply" /\ msg.to = n
  BY DEF ReceiveReply, SocketIdle, Deliver
<1>2. TypeOK
  BY DEF OrderlyInv, SafetyInv
<1>3. \A x \in Nodes : reading'[x] = IF x = n THEN got ELSE reading[x]
  BY <1>1, <1>2 DEF TypeOK
<1>4. got.peer = b /\ got.reply = msg.sess
  OBVIOUS
<1> HIDE DEF got
<1>5. UnlistedEmpty'
  BY <1>1 DEF OrderlyInv, UnlistedEmpty
<1>6. ASSUME NEW i \in Nodes, NEW r \in Nodes, i < r
      PROVE  PairInv(i, r)'
  <2>1. PairInv(i, r)
    BY <1>6 DEF OrderlyInv
  <2>2. CASE i = n /\ r = b
    <3>1. Between(msg, i, r) /\ msg.type # "init"
      BY <1>1, <2>2 DEF Between
    <3>2. /\ sess[r][i] = msg.sess
          /\ \A j \in jobs : ~(j.node = i /\ j.peer = r)
          /\ r \in listed[i]
      BY <2>1, <3>1 DEF PairInv, Quiet, Busy
    <3>3. \A w \in wire : Between(w, i, r) => w.type # "init"
      BY <2>1, <3>1 DEF PairInv
    <3>4. \A x \in BeingRead(i, r)' : x.reply = sess'[r][i]
      BY <1>1, <1>3, <1>4, <2>2, <3>2 DEF BeingRead
    <3>5. \A w \in wire' : Between(w, i, r) =>
            w.type # "init" /\ sess'[r][i] = w.sess
      BY <1>1, <2>1, <3>3 DEF PairInv
    <3>6. sess'[i][r] # None => sess'[r][i] = sess'[i][r]
      BY <1>1, <2>1 DEF PairInv
    <3> QED BY <1>1, <3>2, <3>4, <3>5, <3>6 DEF PairInv, Between
  <2>3. CASE ~(i = n /\ r = b)
    <3>1. BeingRead(i, r)' \subseteq BeingRead(i, r)
      BY <1>3, <1>4, <2>3 DEF BeingRead
    <3> QED BY <1>1, <2>1, <3>1, LessUnderWay
  <2> QED BY <2>2, <2>3
<1> QED BY <1>5, <1>6 DEF OrderlyInv

\* The initiator's session becomes the one the responder holds.
LEMMA FinishHandshakeOrderly ==
  ASSUME OrderlyInv, SafetyInv', NEW n \in Nodes, FinishHandshake(n)
  PROVE  OrderlyInv'
<1> DEFINE got == reading[n]
           b == got.peer
<1>1. /\ UNCHANGED <<listed, jobs, wire>>
      /\ got # None
      /\ sess' = IF got.handshake = got.reply.init
                   THEN [sess EXCEPT ![n][b] = got.reply] ELSE sess
      /\ reading' = [reading EXCEPT ![n] = None]
  BY DEF FinishHandshake
<1>2. TypeOK
  BY DEF OrderlyInv, SafetyInv
<1>3. b \in Nodes /\ n < b /\ b \in Nat /\ n \in Nat
  BY <1>1, <1>2, Entries, HandshakeAssumption
     DEF OrderlyInv, SafetyInv, OneInitiator
<1>4. /\ \A x, y \in Nodes : ~(x = n /\ y = b) => sess'[x][y] = sess[x][y]
      /\ sess'[n][b] \in {sess[n][b], got.reply}
  BY <1>1, <1>2, <1>3 DEF TypeOK
<1>5. \A x \in Nodes : reading'[x] = IF x = n THEN None ELSE reading[x]
  BY <1>1, <1>2 DEF TypeOK
<1>6. PairInv(n, b) /\ got \in BeingRead(n, b)
  BY <1>1, <1>3 DEF OrderlyInv, BeingRead
<1>7. b \in listed[n]
  BY <1>6 DEF PairInv, Quiet, Busy
<1>8. UnlistedEmpty'
  BY <1>1, <1>4, <1>7 DEF OrderlyInv, UnlistedEmpty
<1>9. ASSUME NEW i \in Nodes, NEW r \in Nodes, i < r
      PROVE  PairInv(i, r)'
  <2>1. PairInv(i, r) /\ i \in Nat /\ r \in Nat
    BY <1>9, HandshakeAssumption DEF OrderlyInv
  <2>2. BeingRead(i, r)' \subseteq BeingRead(i, r)
    BY <1>5 DEF BeingRead
  <2>3. sess'[r][i] = sess[r][i]
    BY <1>3, <1>4, <1>9, <2>1
  <2>4. CASE i = n /\ r = b
    <3>1. /\ \A j \in jobs : ~(j.node = i /\ j.peer = r)
          /\ \A w \in wire : Between(w, i, r) => w.type # "init"
          /\ got.reply = sess[r][i]
      BY <1>6, <2>4 DEF PairInv
    <3>2. sess'[i][r] # None => sess'[r][i] = sess'[i][r]
      BY <1>4, <2>1, <2>3, <2>4, <3>1 DEF PairInv
    <3>3. \A w \in wire' : Between(w, i, r) =>
            w.type # "init" /\ sess'[r][i] = w.sess
      BY <1>1, <2>1, <2>3, <3>1 DEF PairInv
    <3>4. \A x \in BeingRead(i, r)' : x.reply = sess'[r][i]
      BY <2>1, <2>2, <2>3 DEF PairInv
    <3> QED BY <1>1, <1>7, <2>4, <3>1, <3>2, <3>3, <3>4
            DEF PairInv, Between
  <2>5. CASE ~(i = n /\ r = b)
    BY <1>1, <1>4, <2>1, <2>2, <2>3, <2>5, LessUnderWay
  <2> QED BY <2>4, <2>5
<1> QED BY <1>8, <1>9 DEF OrderlyInv

LEMMA NextOrderly ==
  ASSUME Orderly
  PROVE  OrderlyInv /\ [Next]_vars => OrderlyInv'
<1> SUFFICES ASSUME OrderlyInv, [Next]_vars PROVE OrderlyInv'
  OBVIOUS
<1>1. SafetyInv'
  BY NextSafety DEF OrderlyInv
<1>2. ASSUME NEW n \in Nodes, NEW L \in SUBSET (Nodes \ {n}), MergePeers(n, L)
      PROVE  OrderlyInv'
  BY <1>1, <1>2, MergePeersOrderly
<1>3. ASSUME NEW n \in Nodes, Restart(n) PROVE OrderlyInv'
  BY <1>1, <1>3, RestartOrderly
<1>4. ASSUME NEW n \in Nodes, MaintainPeers(n) PROVE OrderlyInv'
  BY <1>1, <1>4, MaintainPeersOrderly
<1>5. ASSUME NEW n \in Nodes, FinishHandshake(n) PROVE OrderlyInv'
  BY <1>1, <1>5, FinishHandshakeOrderly
<1>6. ASSUME NEW n \in Nodes, NEW m \in Nodes, Elapse(n, m) PROVE OrderlyInv'
  BY <1>1, <1>6, IdleOrderly
<1>7. ASSUME NEW n \in Nodes, NEW m \in Nodes, Wake(n, m) PROVE OrderlyInv'
  BY <1>1, <1>7, WakeOrderly
<1>8. ASSUME NEW n \in Nodes, NEW msg \in wire, Receive(n, msg)
      PROVE  OrderlyInv'
  BY <1>1, <1>8, ReceiveInitOrderly, ReceiveReplyOrderly, IdleOrderly
     DEF Receive
<1>9. ASSUME NEW j \in jobs, StartHandshake(j) PROVE OrderlyInv'
  BY <1>1, <1>9, StartHandshakeOrderly
<1>10. ASSUME NEW msg \in wire, Lose(msg) PROVE OrderlyInv'
  BY <1>1, <1>10, IdleOrderly
<1>11. CASE UNCHANGED vars
  BY <1>1, <1>11, IdleOrderly
<1> QED BY <1>2, <1>3, <1>4, <1>5, <1>6, <1>7, <1>8, <1>9, <1>10, <1>11
        DEF Next

\* Between orderly peers, however many and however lossy their network, the
\* key an initiator encrypts with is always the key its peer decrypts with.
THEOREM OrderlyPeersAgree ==
  ASSUME Orderly
  PROVE  Spec => []Agreed
<1>1. OrderlyInv => Agreed
  BY DEF OrderlyInv, PairInv, Agreed
<1>2. OrderlyInv /\ [Next]_vars => OrderlyInv'
  BY NextOrderly
<1> QED BY <1>1, <1>2, InitOrderly, PTL DEF Spec
=============================================================================
