--------------------------- MODULE RoutingProofs ---------------------------
(***************************************************************************)
(* Proofs about Routing for any devices, addresses and lists, and any      *)
(* number of crashes, errors and restarts.                                 *)
(***************************************************************************)
EXTENDS Routing, StateFileProofs

-----------------------------------------------------------------------------
(* The coordinator in Routing is that of StateFile, so whatever holds of   *)
(* that holds here.                                                        *)

LEMMA StepIsFileStep == [RoutingNext]_vars => [Next]_fileVars
<1> SUFFICES ASSUME [RoutingNext]_vars PROVE [Next]_fileVars
  OBVIOUS
<1>1. ASSUME NEW d \in Devices, NEW f \in Savers, RegisterDevice(d, f)
      PROVE  Next
  BY <1>1 DEF RegisterDevice, Next
<1>2. CASE CrashServer
  BY <1>2 DEF CrashServer, Next
<1>3. CASE FileStep
  BY <1>3 DEF FileStep, Next
<1>4. ASSUME NEW d \in Others, GoOffline(d)
      PROVE  UNCHANGED fileVars
  BY <1>4 DEF GoOffline
<1>5. ASSUME \/ Restart \/ OpenDevice \/ DropGone
             \/ \E msg \in lists : Receive(msg)
             \/ \E d \in Others : MergeEntry(d)
      PROVE  UNCHANGED fileVars
  BY <1>5 DEF Restart, OpenDevice, DropGone, Receive, MergeEntry
<1>6. CASE UNCHANGED vars
  BY <1>6 DEF vars
<1> QED
  BY <1>1, <1>2, <1>3, <1>4, <1>5, <1>6 DEF RoutingNext

\* Peer lists, clients and their restarts do nothing to the coordinator's
\* tables and file that StateFile has not: Routing implements it.
THEOREM RoutingImplementsStateFile == RoutingSpec => Spec
<1>1. RoutingInit => Init
  BY DEF RoutingInit
<1>2. [RoutingNext]_vars => [Next]_fileVars
  BY StepIsFileStep
<1> QED
  BY <1>1, <1>2, PTL DEF RoutingSpec, Spec

-----------------------------------------------------------------------------
(* Type correctness. *)

LEMMA PushTypes ==
  ASSUME lists \in SUBSET Message, NEW msgs \in SUBSET Message, Push(msgs)
  PROVE  lists' \in SUBSET Message
BY DEF Push

LEMMA PeerListType ==
  ASSUME NEW table \in Table, NEW present \in SUBSET Others
  PROVE  /\ peerList(table, present) \in List
         /\ [vip |-> None, list |-> peerList(table, present)] \in Message
         /\ \A d \in Devices :
              [vip |-> table[d], list |-> peerList(table, present)] \in Message
BY DEF peerList, List, Table, Message, Others

LEMMA NextRoutingTypes ==
  RoutingTypeOK /\ TypeOK' /\ [RoutingNext]_vars => RoutingTypeOK'
<1> SUFFICES ASSUME RoutingTypeOK, TypeOK', [RoutingNext]_vars
             PROVE  RoutingTypeOK'
  OBVIOUS
<1> USE DEF sessionVars, clientVars, history
<1>0. devices \in Table /\ devices' \in Table
  BY DEF RoutingTypeOK, TypeOK
<1>1. ASSUME NEW d \in Devices, NEW f \in Savers, RegisterDevice(d, f)
      PROVE  RoutingTypeOK'
  <2>1. online' \in SUBSET Others /\ registered' \in BOOLEAN
    BY <1>1 DEF RegisterDevice, RoutingTypeOK, Others
  <2>2. lists' \in SUBSET Message
    <3>1. CASE d = Me
      <4> DEFINE list == peerList(devices', online)
      <4>1. {[vip |-> devices'[d], list |-> list],
             [vip |-> None, list |-> list]} \in SUBSET Message
        BY <1>0, PeerListType DEF RoutingTypeOK
      <4>2. Push({[vip |-> devices'[d], list |-> list],
                  [vip |-> None, list |-> list]})
        BY <1>1, <3>1 DEF RegisterDevice
      <4> HIDE DEF list
      <4> QED
        BY <4>1, <4>2, PushTypes DEF RoutingTypeOK
    <3>2. CASE d # Me
      <4> DEFINE list == peerList(devices', online')
                 msgs == IF registered THEN {[vip |-> None, list |-> list]}
                         ELSE {}
      <4>1. msgs \in SUBSET Message
        BY <1>0, <2>1, PeerListType
      <4>2. Push(msgs)
        BY <1>1, <3>2 DEF RegisterDevice
      <4> HIDE DEF msgs
      <4> QED
        BY <4>1, <4>2, PushTypes DEF RoutingTypeOK
    <3> QED
      BY <3>1, <3>2
  <2> QED
    BY <1>1, <2>1, <2>2 DEF RegisterDevice, RoutingTypeOK
<1>2. ASSUME NEW d \in Others, GoOffline(d)
      PROVE  RoutingTypeOK'
  <2> DEFINE list == peerList(devices, online')
             msgs == IF registered THEN {[vip |-> None, list |-> list]} ELSE {}
  <2>1. online' \in SUBSET Others
    BY <1>2 DEF GoOffline, RoutingTypeOK
  <2>2. msgs \in SUBSET Message
    BY <1>0, <2>1, PeerListType
  <2>3. Push(msgs)
    BY <1>2 DEF GoOffline
  <2> HIDE DEF msgs
  <2>4. lists' \in SUBSET Message
    BY <2>2, <2>3, PushTypes DEF RoutingTypeOK
  <2> QED
    BY <1>2, <2>1, <2>4 DEF GoOffline, RoutingTypeOK
<1>3. CASE CrashServer
  BY <1>3 DEF CrashServer, RoutingTypeOK
<1>4. CASE FileStep
  BY <1>4 DEF FileStep, RoutingTypeOK
<1>5. CASE Restart
  BY <1>5 DEF Restart, RoutingTypeOK, NoPeers, List
<1>6. ASSUME NEW msg \in lists, Receive(msg)
      PROVE  RoutingTypeOK'
  <2>1. msg \in Message
    BY DEF RoutingTypeOK
  <2>2. virtualIP' \in Addresses \cup {None} /\ merging' \in Merge
    BY <1>6, <2>1 DEF Receive, RoutingTypeOK, Message, Merge, In
  <2> QED
    BY <1>6, <2>2 DEF Receive, RoutingTypeOK
<1>7. CASE OpenDevice
  BY <1>7 DEF OpenDevice, RoutingTypeOK
<1>8. ASSUME NEW d \in Others, MergeEntry(d)
      PROVE  RoutingTypeOK'
  <2> DEFINE a == merging.left[d]
  <2>1. merging \in Merge /\ a \in Addresses
    BY <1>8 DEF MergeEntry, RoutingTypeOK, In, Merge, List
  <2>2. SetAddress(d, a) /\ merging' = [merging EXCEPT !.left[d] = None]
        /\ contested' \in SUBSET Addresses
    BY <1>8, <2>1 DEF MergeEntry, RoutingTypeOK
  <2>3. merging' \in Merge
    BY <2>1, <2>2 DEF Merge, List
  <2> HIDE DEF a
  <2>4. /\ peers' \in List
        /\ byIP' \in [Addresses -> Others \cup {None}]
    BY <2>1, <2>2 DEF SetAddress, RoutingTypeOK, List
  <2> QED
    BY <1>8, <2>2, <2>3, <2>4 DEF MergeEntry, RoutingTypeOK
<1>9. CASE DropGone
  <2>1. /\ peers' \in List
        /\ byIP' \in [Addresses -> Others \cup {None}]
    BY <1>9 DEF DropGone, RoutingTypeOK, List
  <2> QED
    BY <1>9, <2>1 DEF DropGone, RoutingTypeOK
<1>10. CASE UNCHANGED vars
  BY <1>10 DEF vars, RoutingTypeOK
<1> QED
  BY <1>1, <1>2, <1>3, <1>4, <1>5, <1>6, <1>7, <1>8, <1>9, <1>10
  DEF RoutingNext

\* Every variable keeps its type: whatever is listed, told or merged is an
\* address of the network's.
THEOREM RoutingTypes == RoutingSpec => []RoutingTypeOK
<1>1. RoutingInit /\ TypeOK => RoutingTypeOK
  BY DEF RoutingInit, RoutingTypeOK, NoPeers, List
<1>2. RoutingTypeOK /\ TypeOK' /\ [RoutingNext]_vars => RoutingTypeOK'
  BY NextRoutingTypes
<1> QED
  BY <1>1, <1>2, RoutingImplementsStateFile, StateFileTypes, PTL
  DEF RoutingSpec

-----------------------------------------------------------------------------
(* peers and byIP.  Only three steps write them: Restart, an entry, and    *)
(* the end of a list.                                                      *)

LEMMA OthersLeaveRoutes ==
  ASSUME [RoutingNext]_vars, ~Restart, ~DropGone,
         \A d \in Others : ~MergeEntry(d)
  PROVE  UNCHANGED <<peers, byIP, contested>>
BY DEF RoutingNext, RegisterDevice, GoOffline, CrashServer, FileStep, Receive,
       OpenDevice, vars, clientVars, history

LEMMA NextNoMisroute ==
  RoutingTypeOK /\ NoMisroute /\ [RoutingNext]_vars => NoMisroute'
<1> SUFFICES ASSUME RoutingTypeOK, NoMisroute, [RoutingNext]_vars
             PROVE  NoMisroute'
  OBVIOUS
<1> USE DEF NoMisroute, routePacket, accepts
<1>1. ASSUME NEW d \in Others, MergeEntry(d)
      PROVE  NoMisroute'
  <2> DEFINE a == merging.left[d]
  <2>1. a # None /\ SetAddress(d, a)
    BY <1>1 DEF MergeEntry, In
  <2> HIDE DEF a
  <2>2. peers \in [Others -> Addresses \cup {None}]
    BY DEF RoutingTypeOK, List
  <2>3. /\ peers' = [peers EXCEPT ![d] = a]
        /\ \A b \in Addresses :
             byIP'[b] = IF peers[d] = a THEN byIP[b]
                        ELSE IF b = a THEN d
                        ELSE IF b = peers[d] THEN None ELSE byIP[b]
    BY <2>1 DEF SetAddress
  <2>4. \A b \in Addresses : byIP[b] \in Others \cup {None}
    BY DEF RoutingTypeOK
  <2> QED
    BY <2>2, <2>3, <2>4
<1>2. CASE DropGone
  <2> DEFINE gone == In(peers) \ merging.seen
  <2>1. /\ peers' = [d \in Others |-> IF d \in gone THEN None ELSE peers[d]]
        /\ byIP' = [a \in Addresses |->
             IF a \in {peers[d] : d \in gone} THEN None ELSE byIP[a]]
    BY <1>2 DEF DropGone
  <2> HIDE DEF gone
  <2>2. \A b \in Addresses : byIP[b] \in Others \cup {None}
    BY DEF RoutingTypeOK
  <2> QED
    BY <2>1, <2>2
<1>3. CASE Restart
  BY <1>3 DEF Restart
<1>4. CASE UNCHANGED <<peers, byIP, contested>>
  BY <1>4
<1> QED
  BY <1>1, <1>2, <1>3, <1>4, OthersLeaveRoutes

\* A packet only ever goes to a peer that would be believed if it answered,
\* between two entries of a list and with lists in any order (mergePeers,
\* routePacket, handleTransport).
THEOREM NothingMisrouted == RoutingSpec => []NoMisroute
<1>1. RoutingInit => NoMisroute
  BY DEF RoutingInit, NoMisroute, routePacket
<1>2. RoutingTypeOK /\ NoMisroute /\ [RoutingNext]_vars => NoMisroute'
  BY NextNoMisroute
<1> QED
  BY <1>1, <1>2, RoutingTypes, PTL DEF RoutingSpec

-----------------------------------------------------------------------------
\* An address that two entries have is contested.
SharedIsContested ==
  \A d, e \in Others :
    d # e /\ peers[d] = peers[e] /\ peers[d] # None => peers[d] \in contested

RouteInv == Routable /\ SharedIsContested

LEMMA NextRoutable ==
  RoutingTypeOK /\ RouteInv /\ [RoutingNext]_vars => RouteInv'
<1> SUFFICES ASSUME RoutingTypeOK, RouteInv, [RoutingNext]_vars
             PROVE  RouteInv'
  OBVIOUS
<1>0. /\ peers \in [Others -> Addresses \cup {None}]
      /\ \A d \in Others : peers[d] # None /\ peers[d] \notin contested =>
           byIP[peers[d]] = d
      /\ \A d, e \in Others :
           d # e /\ peers[d] = peers[e] /\ peers[d] # None =>
             peers[d] \in contested
  BY DEF RoutingTypeOK, List, RouteInv, Routable, SharedIsContested,
         routePacket, In
<1>1. ASSUME
        /\ \A d \in Others : peers'[d] # None /\ peers'[d] \notin contested' =>
             byIP'[peers'[d]] = d
        /\ \A d, e \in Others :
             d # e /\ peers'[d] = peers'[e] /\ peers'[d] # None =>
               peers'[d] \in contested'
      PROVE  RouteInv'
  BY <1>1 DEF RouteInv, Routable, SharedIsContested, routePacket, In
<1>2. ASSUME NEW d \in Others, MergeEntry(d)
      PROVE  RouteInv'
  <2> DEFINE a == merging.left[d]
  <2>1. a \in Addresses
    BY <1>2 DEF MergeEntry, In, RoutingTypeOK, Merge, List
  <2>2. /\ peers' = [peers EXCEPT ![d] = a]
        /\ \A b \in Addresses :
             byIP'[b] = IF peers[d] = a THEN byIP[b]
                        ELSE IF b = a THEN d
                        ELSE IF b = peers[d] THEN None ELSE byIP[b]
        /\ contested' = contested \cup
             (IF \E e \in Others \ {d} : peers[e] = a THEN {a} ELSE {})
    BY <1>2 DEF MergeEntry, SetAddress
  <2> HIDE DEF a
  <2>3. /\ peers'[d] = a
        /\ \A e \in Others \ {d} : peers'[e] = peers[e]
    BY <1>0, <2>2
  <2>4. a # None
    BY <2>1, StateFileAssumption
  <2>5. a \notin contested' => byIP'[a] = d
    BY <1>0, <2>1, <2>2, <2>4
  <2>6. ASSUME NEW e \in Others \ {d}, peers[e] # None,
               peers[e] \notin contested'
        PROVE  byIP'[peers[e]] = e
    BY <1>0, <2>2, <2>6
  <2>7. ASSUME NEW e \in Others, NEW g \in Others, e # g,
               peers'[e] = peers'[g], peers'[e] # None
        PROVE  peers'[e] \in contested'
    BY <1>0, <2>2, <2>3, <2>7
  <2> QED
    BY <1>1, <2>3, <2>5, <2>6, <2>7
<1>3. CASE DropGone
  <2> DEFINE gone == In(peers) \ merging.seen
  <2>1. /\ peers' = [d \in Others |-> IF d \in gone THEN None ELSE peers[d]]
        /\ byIP' = [a \in Addresses |->
             IF a \in {peers[d] : d \in gone} THEN None ELSE byIP[a]]
        /\ contested' = contested
    BY <1>3 DEF DropGone, history
  <2>2. gone \subseteq Others
    BY DEF In
  <2> HIDE DEF gone
  <2> QED
    BY <1>0, <1>1, <2>1, <2>2
<1>4. CASE Restart
  BY <1>1, <1>4 DEF Restart, NoPeers
<1>5. CASE UNCHANGED <<peers, byIP, contested>>
  BY <1>0, <1>1, <1>5
<1> QED
  BY <1>2, <1>3, <1>4, <1>5, OthersLeaveRoutes

\* Whoever is in the table can be sent to, unless its address has been in
\* another entry as well: that is the only way mergePeers loses a route.
THEOREM ListedIsRoutable == RoutingSpec => []Routable
<1>1. RoutingInit => RouteInv
  BY DEF RoutingInit, RouteInv, Routable, SharedIsContested, In, NoPeers
<1>2. RoutingTypeOK /\ RouteInv /\ [RoutingNext]_vars => RouteInv'
  BY NextRoutable
<1>3. RouteInv => Routable
  BY DEF RouteInv
<1> QED
  BY <1>1, <1>2, <1>3, RoutingTypes, PTL DEF RoutingSpec

-----------------------------------------------------------------------------
(* Me's own address.  Everything Me has been told is the address the       *)
(* coordinator told it last, as long as no crash has made it forget.       *)

OneAddress ==
  ~forgotten =>
    /\ Me \notin lost
    /\ \A msg \in lists : msg.vip \in {promised[Me], None}
    /\ virtualIP \in {promised[Me], None}
    /\ iface \in {promised[Me], None}

OwnInv == OneAddress /\ (registered => up)

LEMMA PushAdds ==
  ASSUME NEW msgs, Push(msgs)
  PROVE  \A msg \in lists' : msg \in lists \/ msg \in msgs
BY DEF Push

LEMMA NextOwn ==
  RoutingTypeOK /\ KeptInv /\ OwnInv /\ [RoutingNext]_vars => OwnInv'
<1> SUFFICES ASSUME RoutingTypeOK, KeptInv, OwnInv, [RoutingNext]_vars
             PROVE  OwnInv'
  OBVIOUS
<1> USE DEF sessionVars, clientVars, history, OwnInv, OneAddress
<1>0. Me \in Devices /\ None \notin Addresses
  BY RoutingAssumption, StateFileAssumption
<1>1. ASSUME NEW d \in Devices, NEW f \in Savers, RegisterDevice(d, f)
      PROVE  OwnInv'
  <2>1. /\ Register(d, f) /\ up /\ up' /\ lost' = lost \ {d}
        /\ promised' = [promised EXCEPT ![d] = devices'[d]]
        /\ UNCHANGED <<virtualIP, iface, forgotten>>
    BY <1>1 DEF RegisterDevice, Register
  <2>2. promised \in Table /\ devices \in Table
    BY DEF RoutingTypeOK, TypeOK
  <2>3. CASE d = Me
    <3>1. promised'[Me] = devices'[Me]
      BY <1>0, <2>1, <2>2, <2>3 DEF Table
    <3>2. ~forgotten /\ promised[Me] # None => promised'[Me] = promised[Me]
      <4> SUFFICES ASSUME ~forgotten, promised[Me] # None
                   PROVE  devices'[Me] = promised[Me]
        BY <3>1
      <4>1. devices[Me] = promised[Me]
        BY <1>0, <2>1 DEF KeptInv, WhileUp, Known
      <4> QED
        BY <1>0, <2>1, <2>2, <2>3, <4>1 DEF Register, Table
    <3>3. \A msg \in lists' : msg.vip \in {devices'[Me], None} \/ msg \in lists
      <4>1. Push({[vip |-> devices'[d], list |-> peerList(devices', online)],
                  [vip |-> None, list |-> peerList(devices', online)]})
        BY <1>1, <2>3 DEF RegisterDevice
      <4> QED
        BY <2>3, <4>1, PushAdds
    <3> QED
      BY <2>1, <3>1, <3>2, <3>3
  <2>4. CASE d # Me
    <3>1. promised'[Me] = promised[Me]
      BY <1>0, <2>1, <2>2, <2>4 DEF Table
    <3>2. \A msg \in lists' : msg.vip = None \/ msg \in lists
      <4>1. Push(IF registered
                   THEN {[vip |-> None, list |-> peerList(devices', online')]}
                   ELSE {})
        BY <1>1, <2>4 DEF RegisterDevice
      <4> QED
        BY <4>1, PushAdds
    <3>3. Me \notin lost => Me \notin lost'
      BY <2>1
    <3> QED
      BY <2>1, <3>1, <3>2, <3>3
  <2> QED
    BY <2>3, <2>4
<1>2. ASSUME NEW d \in Others, GoOffline(d)
      PROVE  OwnInv'
  <2>1. \A msg \in lists' : msg.vip = None \/ msg \in lists
    BY <1>2 DEF GoOffline, Push
  <2> QED
    BY <1>2, <2>1 DEF GoOffline, fileVars, server
<1>3. CASE CrashServer
  BY <1>3 DEF CrashServer, Crash
<1>4. CASE FileStep
  <2>1. UNCHANGED <<promised, lost>> /\ (up => up')
    BY <1>4 DEF FileStep, FileNext, loadState, Sweep, FlushBegin, FlushOpen,
      FlushWrite, FlushRename, FlushError, RegisterElsewhere, server, disk
  <2> QED
    BY <1>4, <2>1 DEF FileStep
<1>5. CASE Restart
  BY <1>5 DEF Restart, fileVars, server
<1>6. ASSUME NEW msg \in lists, Receive(msg)
      PROVE  OwnInv'
  BY <1>6 DEF Receive, fileVars, server
<1>7. CASE OpenDevice
  BY <1>7 DEF OpenDevice, fileVars, server
<1>8. ASSUME DropGone \/ \E d \in Others : MergeEntry(d)
      PROVE  OwnInv'
  BY <1>8 DEF DropGone, MergeEntry, fileVars, server
<1>9. CASE UNCHANGED vars
  BY <1>9 DEF vars, fileVars, server
<1> QED
  BY <1>1, <1>2, <1>3, <1>4, <1>5, <1>6, <1>7, <1>8, <1>9 DEF RoutingNext

\* The address Me's interface has is the one the coordinator lists Me at,
\* unless a crash has found the file without it: however often either end
\* restarts, and however late an answer is (deviceFor, handleRegistered).
THEOREM InterfaceIsListed == RoutingSpec => []HasItsAddress
<1>1. RoutingInit => OwnInv
  BY DEF RoutingInit, Init, OwnInv, OneAddress
<1>2. RoutingTypeOK /\ KeptInv /\ OwnInv /\ [RoutingNext]_vars => OwnInv'
  BY NextOwn
<1>3. RoutingTypeOK /\ KeptInv /\ OwnInv => HasItsAddress
  <2> SUFFICES ASSUME RoutingTypeOK, KeptInv, OwnInv,
                      registered, iface # None, ~forgotten
               PROVE  devices[Me] = iface
    BY DEF HasItsAddress
  <2>1. up /\ Me \notin lost /\ iface = promised[Me] /\ Me \in Devices
    BY RoutingAssumption DEF OwnInv, OneAddress
  <2> QED
    BY <2>1 DEF KeptInv, WhileUp, Known
<1> QED
  BY <1>1, <1>2, <1>3, RoutingTypes, RoutingImplementsStateFile,
     StateFileKept, PTL DEF RoutingSpec
=============================================================================
