------------------------------ MODULE Routing ------------------------------
(***************************************************************************)
(* Where a client sends the packets for a virtual address, and whose       *)
(* packets it accepts (internal/client): the virtual addresses in its      *)
(* peers table and byIP, merged entry by entry from the lists of a         *)
(* coordinator that hands the addresses out (StateFile).                   *)
(*                                                                         *)
(* One client, Me, of the network Home.  The others only register and go   *)
(* offline.  readSocket merges one list at a time and takes the lock for   *)
(* every entry anew, so readDevice routes packets between two entries.     *)
(* Lists overtake each other and are lost; how sessions come and go at the *)
(* coordinator is in Registry, what a peer's session and path do is in     *)
(* Handshake and Paths.                                                    *)
(***************************************************************************)
EXTENDS StateFile

CONSTANTS
  Me,
  MaxLists    \* how many lists may be on their way to Me

ASSUME RoutingAssumption ==
  /\ Me \in Devices
  /\ None \notin Devices
  /\ MaxLists \in Nat \ {0}

VARIABLES
  online,     \* the other devices the coordinator has a session of
  registered, \* has it one of the process Me is now
  lists,      \* answers and peer lists on their way to Me
  virtualIP,  \* the address the coordinator told Me last, or None
  iface,      \* the address Me's interface was opened with, or None
  peers,      \* peers[d]: the virtualIP of the peer object of d, or None
  byIP,       \* byIP[a]: the peer packets to a are sent to, or None
  merging,    \* what is left of the list readSocket merges, or None
  contested,  \* addresses two entries of peers have had at a time
  forgotten   \* has a crash found the file without Me's address

sessionVars == <<online, registered>>
clientVars  == <<lists, virtualIP, iface, peers, byIP, merging>>
history     == <<contested, forgotten>>
vars        == <<fileVars, sessionVars, clientVars, history>>

Others == Devices \ {Me}

\* A peer list: the address of each device that is in it.
List   == [Others -> Addresses \cup {None}]
NoPeers == [d \in Others |-> None]
In(list) == {d \in Others : list[d] # None}

\* Registered has an address for Me, PeerList has not.
Message == [vip : Addresses \cup {None}, list : List]
\* The entries to come, and who is in the list.
Merge   == [left : List, seen : SUBSET Others]

RoutingTypeOK ==
  /\ TypeOK
  /\ online \in SUBSET Others /\ registered \in BOOLEAN
  /\ lists \in SUBSET Message
  /\ virtualIP \in Addresses \cup {None} /\ iface \in Addresses \cup {None}
  /\ peers \in List
  /\ byIP \in [Addresses -> Others \cup {None}]
  /\ merging \in Merge \cup {None}
  /\ contested \in SUBSET Addresses
  /\ forgotten \in BOOLEAN

RoutingInit ==
  /\ Init
  /\ online = {} /\ registered = FALSE
  /\ lists = {}
  /\ virtualIP = None /\ iface = None
  /\ peers = NoPeers
  /\ byIP = [a \in Addresses |-> None]
  /\ merging = None
  /\ contested = {} /\ forgotten = FALSE

-----------------------------------------------------------------------------
\* peerListLocked, for Me.
peerList(table, present) ==
  [d \in Others |-> IF d \in present THEN table[d] ELSE None]

\* Any of what is sent may be lost; beyond MaxLists it is.
Push(msgs) ==
  \E sent \in SUBSET msgs :
    /\ Cardinality(lists \cup sent) <= MaxLists
    /\ lists' = lists \cup sent

\* A device registers: the answer has its address, and the members get a
\* list.  Me asks when its process starts or has been told to.
RegisterDevice(d, f) ==
  /\ Register(d, f)
  /\ IF d = Me
       THEN /\ ~registered
            /\ registered' = TRUE
            /\ LET list == peerList(devices', online) IN
                 Push({[vip |-> devices'[d], list |-> list],
                       [vip |-> None, list |-> list]})
            /\ UNCHANGED online
       ELSE /\ online' = online \cup {d}
            /\ Push(IF registered
                      THEN {[vip |-> None,
                             list |-> peerList(devices', online')]}
                      ELSE {})
            /\ UNCHANGED registered
  /\ UNCHANGED <<virtualIP, iface, peers, byIP, merging, history>>

\* Another device says Bye or is swept.
GoOffline(d) ==
  /\ up
  /\ d \in online
  /\ online' = online \ {d}
  /\ Push(IF registered
            THEN {[vip |-> None, list |-> peerList(devices, online')]} ELSE {})
  /\ UNCHANGED <<fileVars, registered, virtualIP, iface, peers, byIP, merging,
                 history>>

\* The coordinator ends, and with it the sessions, which are not persisted.
CrashServer ==
  /\ Crash
  /\ online' = {} /\ registered' = FALSE
  /\ forgotten' = (forgotten \/ Me \in lost')
  /\ UNCHANGED <<clientVars, contested>>

\* The steps of StateFile the sessions and Me have no part in.
FileStep ==
  /\ FileNext \/ loadState
  /\ UNCHANGED <<sessionVars, clientVars, history>>

-----------------------------------------------------------------------------
\* Me's process ends and the next one has a new socket, which nothing that
\* was sent to the old one reaches.
Restart ==
  /\ registered' = FALSE
  /\ virtualIP' = None /\ iface' = None
  /\ peers' = NoPeers
  /\ byIP' = [a \in Addresses |-> None]
  /\ merging' = None
  /\ lists' = {}
  /\ contested' = {}
  /\ UNCHANGED <<fileVars, online, forgotten>>

\* handleRegistered, handlePeerList: the address is stored, and mergePeers
\* begins.
Receive(msg) ==
  /\ merging = None
  /\ lists' = lists \ {msg}
  /\ virtualIP' = IF msg.vip = None THEN virtualIP ELSE msg.vip
  /\ merging' = [left |-> msg.list, seen |-> In(msg.list)]
  /\ UNCHANGED <<fileVars, sessionVars, iface, peers, byIP, history>>

\* Run, once registered: the interface gets the address of that moment.
OpenDevice ==
  /\ virtualIP # None /\ iface = None
  /\ iface' = virtualIP
  /\ UNCHANGED <<fileVars, sessionVars, lists, virtualIP, peers, byIP, merging,
                 history>>

-----------------------------------------------------------------------------
\* Mutant: the old address of a peer stays in byIP.
SetAddressKeepingOld(d, a) ==
  /\ peers' = [peers EXCEPT ![d] = a]
  /\ byIP' = [byIP EXCEPT ![a] = d]

\* Mutant: the address of a new peer is filled in before it is compared.
SetAddressOfKnown(d, a) ==
  /\ peers' = [peers EXCEPT ![d] = a]
  /\ byIP' = [b \in Addresses |->
                IF peers[d] \in {a, None} THEN byIP[b]
                ELSE IF b = a THEN d
                ELSE IF b = peers[d] THEN None ELSE byIP[b]]

\* mergePeers, the virtual address: nothing when it is the one p has.
SetAddress(d, a) ==
  /\ peers' = [peers EXCEPT ![d] = a]
  /\ byIP' = [b \in Addresses |->
                IF peers[d] = a THEN byIP[b]
                ELSE IF b = a THEN d
                ELSE IF b = peers[d] THEN None ELSE byIP[b]]

\* The lock section of one entry.  The server sorts its lists by the text of
\* the addresses; nothing depends on it, so the entries come in any order.
MergeEntry(d) ==
  /\ merging # None
  /\ d \in In(merging.left)
  /\ LET a == merging.left[d]
     IN /\ SetAddress(d, a)
        /\ contested' = contested \cup
             (IF \E e \in Others \ {d} : peers[e] = a THEN {a} ELSE {})
        /\ merging' = [merging EXCEPT !.left[d] = None]
  /\ UNCHANGED <<fileVars, sessionVars, lists, virtualIP, iface, forgotten>>

\* Mutant: whoever is gone can still be sent to.
DropGoneKeepingAddress ==
  /\ merging # None
  /\ In(merging.left) = {}
  /\ peers' = [d \in Others |-> IF d \in merging.seen THEN peers[d] ELSE None]
  /\ merging' = None
  /\ UNCHANGED <<fileVars, sessionVars, lists, virtualIP, iface, byIP, history>>

\* The last lock section: the peers that are not listed any more, and what
\* byIP has at the addresses they had.
DropGone ==
  /\ merging # None
  /\ In(merging.left) = {}
  /\ LET gone == In(peers) \ merging.seen IN
       /\ peers' = [d \in Others |-> IF d \in gone THEN None ELSE peers[d]]
       /\ byIP' = [a \in Addresses |->
                     IF a \in {peers[d] : d \in gone} THEN None ELSE byIP[a]]
  /\ merging' = None
  /\ UNCHANGED <<fileVars, sessionVars, lists, virtualIP, iface, history>>

-----------------------------------------------------------------------------
\* routePacket: the peer a packet to address a goes to, or None.  Me's own
\* address is its system's own affair, broadcasts go to everybody in peers.
routePacket(a) == byIP[a]

\* handleTransport: whether a packet of d that claims to come from a is let
\* through to the interface.
accepts(d, a) == peers[d] = a

RoutingNext ==
  \/ \E d \in Devices, f \in Savers : RegisterDevice(d, f)
  \/ \E d \in Others : GoOffline(d)
  \/ CrashServer
  \/ FileStep
  \/ Restart
  \/ \E msg \in lists : Receive(msg)
  \/ OpenDevice
  \/ \E d \in Others : MergeEntry(d)
  \/ DropGone

RoutingSpec == RoutingInit /\ [][RoutingNext]_vars

-----------------------------------------------------------------------------
\* A packet is only ever sent to a peer that would be believed if it answered
\* from the address the packet was sent to, in the middle of a list too
\* (mergePeers keeps byIP and virtualIP together; handleTransport: "a peer may
\* only claim its own address").
NoMisroute ==
  \A a \in Addresses : routePacket(a) # None => accepts(routePacket(a), a)

\* Whoever is in the peers table can be sent to, unless another entry has had
\* its address at the same time, as between the two entries of a list that
\* moves the address from one device to the other (mergePeers deletes by the
\* old address without asking whose it is now).
Routable ==
  \A d \in In(peers) : peers[d] \notin contested => routePacket(peers[d]) = d

\* The address at which the coordinator lists Me is the one its interface was
\* opened with, unless a crash has ever found the file without it (deviceFor,
\* flushState, loadState; handleRegistered changes virtualIP, but not the
\* interface, so an address that is lost cannot be put right).
HasItsAddress ==
  registered /\ iface # None /\ ~forgotten => devices[Me] = iface
=============================================================================
