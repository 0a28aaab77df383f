------------------------------ MODULE Registry ------------------------------
(***************************************************************************)
(* Who is online: the sessions the coordinator keeps (internal/server) and *)
(* the peer lists with which its clients follow them (internal/client).    *)
(*                                                                         *)
(* Two goroutines of the server change the sessions.  The reader handles   *)
(* one datagram after another; the sweep removes sessions that have been   *)
(* silent.  Both tell the members of a network afterwards: pushPeerList    *)
(* takes a snapshot in a lock section of its own and sends it without the  *)
(* lock, so job holds what a goroutine has read and not sent yet.          *)
(*                                                                         *)
(* A client sends Register once, then keepalives; an answer that it is not *)
(* registered makes it register again.  It replaces its peer table by      *)
(* every list it gets.  at is the UDP address its datagrams come from: a   *)
(* new process or a move to another network changes it, and what is on the *)
(* way to the old one is lost.                                             *)
(*                                                                         *)
(* Names, keys, virtual addresses (StateFile) and LAN candidates are left  *)
(* out of the lists; PunchReq and Relay only read the sessions, except     *)
(* that relayed traffic keeps its sender's session alive as a keepalive    *)
(* does.  Networks exist, each with its password; a registration refused   *)
(* for another reason than the password changes nothing and is not here.   *)
(***************************************************************************)
EXTENDS Integers, Sequences, FiniteSets

CONSTANTS
  Clients,    \* peer IDs
  Networks,
  None,
  Refused,    \* which clients have the wrong password for which networks
  Careful,    \* do users change networks only when the server has seen them go
  Atomic,     \* does a goroutine send what it read before the other begins
  MaxAddress, \* how many addresses each client may have
  MaxPending, \* a keepalive waits while as many datagrams are under way
  Faults,     \* the kinds of faults that may happen
  MaxFaults   \* how many may happen in all

Goroutines == {"reader", "sweep"}
FaultKinds == {"lose", "lose list", "repeat", "overtake", "silence", "crash",
               "server"}

ASSUME RegistryAssumption ==
  /\ Networks # {}
  /\ None \notin Networks
  /\ Refused \subseteq Clients \X Networks
  /\ Careful \in BOOLEAN /\ Atomic \in BOOLEAN
  /\ MaxAddress \in [Clients -> Nat] /\ MaxPending \in Nat
  /\ Faults \subseteq FaultKinds /\ MaxFaults \in Nat

VARIABLES
  phase,      \* off, joining (Run awaits the first answer) or on
  net,        \* the network a client wants to be in
  at,         \* the address its datagrams come from
  view,       \* its peers table: who, and the public endpoint of each
  up, down,   \* datagrams on their way to the server and to the client
  sessions,   \* the server's sessions
  silent,     \* those last seen more than peerTimeout ago
  job,        \* what a goroutine of the server still has to send and push
  faults      \* how many faults have happened

client == <<phase, net, at, view>>
wire   == <<up, down>>
server == <<sessions, silent, job>>
vars   == <<phase, net, at, view, up, down, sessions, silent, job, faults>>

Addresses == Nat
Session   == [net : Networks, at : Addresses]
List      == SUBSET (Clients \X Addresses)
Request   == [type : {"register"}, net : Networks, at : Addresses]
               \cup [type : {"keepalive", "bye"}, at : Addresses]
Answer    == [type : {"registered", "peers"}, peers : List]
               \cup [type : {"not registered", "wrong password"}]
Delivery  == [to : Clients, at : Addresses, msg : Answer]
Job       == [out : SUBSET Delivery, push : SUBSET (Networks \X Clients)]

Online == {c \in Clients : sessions[c] # None}

TypeOK ==
  /\ phase \in [Clients -> {"off", "joining", "on"}]
  /\ net \in [Clients -> Networks]
  /\ at \in [Clients -> Addresses]
  /\ view \in [Clients -> List]
  /\ up \in [Clients -> Seq(Request)]
  /\ down \in [Clients -> Seq(Answer)]
  /\ sessions \in [Clients -> Session \cup {None}]
  /\ silent \in SUBSET Online
  /\ job \in [Goroutines -> Job]
  /\ faults \in Nat

Idle == [out |-> {}, push |-> {}]

Init ==
  /\ phase = [c \in Clients |-> "off"]
  /\ net = [c \in Clients |-> CHOOSE n \in Networks : TRUE]
  /\ at = [c \in Clients |-> 0]
  /\ view = [c \in Clients |-> {}]
  /\ up = [c \in Clients |-> << >>]
  /\ down = [c \in Clients |-> << >>]
  /\ sessions = [c \in Clients |-> None]
  /\ silent = {}
  /\ job = [g \in Goroutines |-> Idle]
  /\ faults = 0

Fault(kind) ==
  /\ kind \in Faults
  /\ faults < MaxFaults
  /\ faults' = faults + 1

-----------------------------------------------------------------------------
(* The client. *)

SendUp(c, req) == up' = [up EXCEPT ![c] = Append(@, req)]

Register(c, n, a) == [type |-> "register", net |-> n, at |-> a]
Keepalive(c) == [type |-> "keepalive", at |-> at[c]]
Bye(c) == [type |-> "bye", at |-> at[c]]

\* Run: a new socket, and one Register.
Start(c, n) ==
  /\ phase[c] = "off"
  /\ at[c] < MaxAddress[c]
  /\ Careful => n = net[c] \/ (sessions[c] = None /\ up[c] = << >>)
  /\ phase' = [phase EXCEPT ![c] = "joining"]
  /\ net' = [net EXCEPT ![c] = n]
  /\ at' = [at EXCEPT ![c] = @ + 1]
  /\ SendUp(c, Register(c, n, at[c] + 1))
  /\ UNCHANGED <<view, down, server, faults>>

\* The process ends: its socket is closed and its table gone.
Gone(c) ==
  /\ phase' = [phase EXCEPT ![c] = "off"]
  /\ view' = [view EXCEPT ![c] = {}]
  /\ down' = [down EXCEPT ![c] = << >>]
  /\ UNCHANGED <<net, at>>

\* Run gives up after 15 seconds, or Close comes before the first answer.
GiveUp(c) ==
  /\ phase[c] = "joining"
  /\ Gone(c)
  /\ UNCHANGED <<up, server, faults>>

\* Close ends Run, which says Bye.
Close(c) ==
  /\ phase[c] = "on"
  /\ Gone(c)
  /\ SendUp(c, Bye(c))
  /\ UNCHANGED <<server, faults>>

\* The process is killed.
Crash(c) ==
  /\ phase[c] # "off"
  /\ Fault("crash")
  /\ Gone(c)
  /\ UNCHANGED <<up, server>>

\* Wi-Fi to LTE, or a NAT rebinding: the client does not notice.
Roam(c) ==
  /\ phase[c] = "on"
  /\ at[c] < MaxAddress[c]
  /\ at' = [at EXCEPT ![c] = @ + 1]
  /\ down' = [down EXCEPT ![c] = << >>]
  /\ UNCHANGED <<phase, net, view, up, server, faults>>

\* maintain, every serverKeepalive; by then most of what was under way is
\* there.
SendKeepalive(c) ==
  /\ phase[c] = "on"
  /\ Len(up[c]) + Len(down[c]) < MaxPending
  /\ SendUp(c, Keepalive(c))
  /\ UNCHANGED <<client, down, server, faults>>

Received(c) == down' = [down EXCEPT ![c] = Tail(@)]

\* handleRegistered, handlePeerList: mergePeers makes the list the table.
ReceiveList(c) ==
  /\ down[c] # << >>
  /\ LET msg == Head(down[c]) IN
       /\ msg.type \in {"registered", "peers"}
       /\ view' = [view EXCEPT ![c] = {p \in msg.peers : p[1] # c}]
       /\ phase' = IF msg.type = "registered"
                     THEN [phase EXCEPT ![c] = "on"] ELSE phase
  /\ Received(c)
  /\ UNCHANGED <<net, at, up, server, faults>>

\* handleServerError, "not registered".
ReceiveNotRegistered(c) ==
  /\ down[c] # << >>
  /\ Head(down[c]).type = "not registered"
  /\ SendUp(c, Register(c, net[c], at[c]))
  /\ Received(c)
  /\ UNCHANGED <<client, server, faults>>

\* handleServerError, "wrong network password": Close, as above.
ReceiveRefusal(c) ==
  /\ down[c] # << >>
  /\ Head(down[c]).type = "wrong password"
  /\ Gone(c)
  /\ IF phase[c] = "on" THEN SendUp(c, Bye(c)) ELSE UNCHANGED up
  /\ UNCHANGED <<server, faults>>

-----------------------------------------------------------------------------
(* The server. *)

\* Mutant: members of all networks are listed.
peerListEverybody(n, exclude) ==
  {<<p, sessions[p].at>> : p \in Online \ {exclude}}

\* peerListLocked.
peerList(n, exclude) ==
  {<<p, sessions[p].at>> :
     p \in {q \in Online : sessions[q].net = n /\ q # exclude}}

Busy(g) == job[g] # Idle

Answering(c, a, msg) == {[to |-> c, at |-> a, msg |-> msg]}

\* The list in the answer is read in the lock section that stores the session.
HandleRegister(c, req) ==
  IF <<c, req.net>> \in Refused
    THEN /\ job' = [job EXCEPT !["reader"].out =
               Answering(c, req.at, [type |-> "wrong password"])]
         /\ UNCHANGED <<sessions, silent>>
    ELSE /\ sessions' = [sessions EXCEPT ![c] = [net |-> req.net, at |-> req.at]]
         /\ silent' = silent \ {c}
         /\ job' = [job EXCEPT !["reader"] =
               [out |-> Answering(c, req.at, [type |-> "registered",
                                             peers |-> peerList(req.net, c)]),
                push |-> {<<req.net, c>>}]]

\* Mutant: a keepalive of a session that is not known is ignored.
HandleKeepaliveQuietly(c, req) ==
  /\ sessions[c] # None
  /\ silent' = silent \ {c}
  /\ IF sessions[c].at # req.at
       THEN /\ sessions' = [sessions EXCEPT ![c].at = req.at]
            /\ job' = [job EXCEPT !["reader"].push = {<<sessions[c].net, c>>}]
       ELSE UNCHANGED <<sessions, job>>

HandleKeepalive(c, req) ==
  IF sessions[c] = None
    THEN /\ job' = [job EXCEPT !["reader"].out =
               Answering(c, req.at, [type |-> "not registered"])]
         /\ UNCHANGED <<sessions, silent>>
    ELSE /\ silent' = silent \ {c}
         /\ IF sessions[c].at # req.at
              THEN /\ sessions' = [sessions EXCEPT ![c].at = req.at]
                   /\ job' = [job EXCEPT !["reader"].push =
                                {<<sessions[c].net, c>>}]
              ELSE UNCHANGED <<sessions, job>>

\* Mutant: the time the session was last seen is not forgotten with it.
HandleByeKeepingAge(c) ==
  IF sessions[c] = None
    THEN UNCHANGED <<sessions, silent, job>>
    ELSE /\ sessions' = [sessions EXCEPT ![c] = None]
         /\ job' = [job EXCEPT !["reader"].push = {<<sessions[c].net, c>>}]
         /\ UNCHANGED silent

HandleBye(c) ==
  IF sessions[c] = None
    THEN UNCHANGED <<sessions, silent, job>>
    ELSE /\ sessions' = [sessions EXCEPT ![c] = None]
         /\ silent' = silent \ {c}
         /\ job' = [job EXCEPT !["reader"].push = {<<sessions[c].net, c>>}]

\* handle: the reader takes a datagram, which the network may bring again.
Handle(c) ==
  /\ up[c] # << >>
  /\ ~Busy("reader")
  /\ Atomic => ~Busy("sweep")
  /\ \/ up' = [up EXCEPT ![c] = Tail(@)] /\ UNCHANGED faults
     \/ Fault("repeat") /\ UNCHANGED up
  /\ LET req == Head(up[c]) IN
       \/ req.type = "register" /\ HandleRegister(c, req)
       \/ req.type = "keepalive" /\ HandleKeepalive(c, req)
       \/ req.type = "bye" /\ HandleBye(c)
  /\ UNCHANGED <<client, down>>

\* sweep: all that are too old go in one lock section, and each is announced.
Sweep ==
  /\ silent # {}
  /\ ~Busy("sweep")
  /\ Atomic => ~Busy("reader")
  /\ sessions' = [c \in Clients |-> IF c \in silent THEN None ELSE sessions[c]]
  /\ job' = [job EXCEPT !["sweep"].push = {<<sessions[c].net, c>> : c \in silent}]
  /\ silent' = {}
  /\ UNCHANGED <<client, wire, faults>>

\* Mutant: who has changed is not told.
membersButChanged(n, changed) ==
  {p \in Online : sessions[p].net = n /\ p # changed}

\* Whom pushPeerList tells: everybody online in the network, changed or not.
members(n, changed) == {p \in Online : sessions[p].net = n}

\* pushPeerList up to the unlock.
PushSnapshot(g) ==
  /\ job[g].out = {}
  /\ \E due \in job[g].push :
       job' = [job EXCEPT ![g] =
         [out  |-> {[to |-> p, at |-> sessions[p].at,
                     msg |-> [type |-> "peers", peers |-> peerList(due[1], p)]] :
                      p \in members(due[1], due[2])},
          push |-> @.push \ {due}]]
  /\ UNCHANGED <<client, wire, sessions, silent, faults>>

\* sendControl, for an answer or for every delivery of a push; a client gets
\* at most one of them.  Nobody hears what is sent to an address of the past.
Send(g) ==
  LET heard == {d \in job[g].out : phase[d.to] # "off" /\ at[d.to] = d.at}
  IN
  /\ job[g].out # {}
  /\ down' = [c \in Clients |->
       IF \E d \in heard : d.to = c
         THEN Append(down[c], (CHOOSE d \in heard : d.to = c).msg)
         ELSE down[c]]
  /\ job' = [job EXCEPT ![g].out = {}]
  /\ UNCHANGED <<client, up, sessions, silent, faults>>

\* peerTimeout passes since a session was last seen; while its client runs
\* that takes keepalives that do not get through.
Age(c) ==
  /\ c \in Online \ silent
  /\ IF phase[c] = "off" THEN UNCHANGED faults ELSE Fault("silence")
  /\ silent' = silent \cup {c}
  /\ UNCHANGED <<client, wire, sessions, job>>

\* The server process ends and is started again; sessions are not persisted.
Restart ==
  /\ Fault("server")
  /\ sessions' = [c \in Clients |-> None]
  /\ silent' = {}
  /\ job' = [g \in Goroutines |-> Idle]
  /\ UNCHANGED <<client, wire>>

-----------------------------------------------------------------------------
(* The network. *)

Lose(c) ==
  /\ \/ /\ up[c] # << >>
        /\ Fault("lose")
        /\ up' = [up EXCEPT ![c] = Tail(@)]
        /\ UNCHANGED down
     \/ /\ down[c] # << >>
        /\ Fault(IF Head(down[c]).type = "peers" THEN "lose list" ELSE "lose")
        /\ down' = [down EXCEPT ![c] = Tail(@)]
        /\ UNCHANGED up
  /\ UNCHANGED <<client, server>>

\* Two requests of a client change places.
Overtake(c) ==
  /\ Len(up[c]) > 1
  /\ up[c][1] # up[c][2]
  /\ Fault("overtake")
  /\ up' = [up EXCEPT ![c][1] = up[c][2], ![c][2] = up[c][1]]
  /\ UNCHANGED <<client, down, server>>

-----------------------------------------------------------------------------
Receive(c) == ReceiveList(c) \/ ReceiveNotRegistered(c) \/ ReceiveRefusal(c)

Next ==
  \/ \E c \in Clients :
       \/ \E n \in Networks : Start(c, n)
       \/ GiveUp(c) \/ Close(c) \/ Crash(c) \/ Roam(c)
       \/ SendKeepalive(c)
       \/ Receive(c)
       \/ Handle(c)
       \/ Age(c)
       \/ Lose(c) \/ Overtake(c)
  \/ \E g \in Goroutines : PushSnapshot(g) \/ Send(g)
  \/ Sweep
  \/ Restart

Spec == Init /\ [][Next]_vars

\* Both ends keep running, what is not lost arrives, and time passes for a
\* session whose client is gone.  Nobody has to start or stop a client.
Fairness ==
  /\ \A c \in Clients :
       /\ WF_vars(GiveUp(c))
       /\ WF_vars(SendKeepalive(c))
       /\ WF_vars(Receive(c))
       /\ SF_vars(Handle(c))
       /\ WF_vars(Age(c) /\ phase[c] = "off")
  /\ \A g \in Goroutines : WF_vars(PushSnapshot(g)) /\ WF_vars(Send(g))
  /\ SF_vars(Sweep)

FairSpec == Spec /\ Fairness

-----------------------------------------------------------------------------
AtRest ==
  /\ \A c \in Clients : up[c] = << >> /\ down[c] = << >>
  /\ \A g \in Goroutines : ~Busy(g)

\* With nothing on its way, every client that the server knows where to find
\* has the peer table the server would send it now: no change of a session
\* goes unannounced ("pushed whenever the membership or an endpoint changes").
ViewsCurrent ==
  AtRest =>
    \A c \in Online :
      phase[c] = "on" /\ at[c] = sessions[c].at =>
        view[c] = peerList(sessions[c].net, c)

\* Nobody is ever shown as a member of a network whose password it does not
\* have, whatever it was in before and whatever the network does to the lists.
Isolation ==
  \A c \in Clients : \A p \in view[c] : <<p[1], net[c]>> \notin Refused

\* In the end, whoever is online has exactly the others who are online in its
\* table, at their present addresses: clients the server forgot come back,
\* those that went without a Bye are removed, moves are noticed.
Reunited ==
  <>[](\A c \in Clients : phase[c] = "on" =>
         view[c] = {<<p, at[p]>> :
           p \in {q \in Clients \ {c} : phase[q] = "on" /\ net[q] = net[c]}})
=============================================================================
