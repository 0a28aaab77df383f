--------------------------- MODULE RegistryProofs ---------------------------
(***************************************************************************)
(* Proofs about Registry for any clients, networks and passwords, and any  *)
(* number of addresses and faults.                                         *)
(*                                                                         *)
(* Isolation is about what a client has in its table; it holds because of  *)
(* everything that is on its way there.  A list is good for the network of *)
(* the session it was read for; that is still the network of the client    *)
(* when it arrives, because a client changes its network only together     *)
(* with its address, and the server has forgotten it by then (Careful).    *)
(*                                                                         *)
(* ViewsCurrent, whose argument stands before its own invariant below,     *)
(* needs the goroutines to take turns and lists not to be lost.            *)
(***************************************************************************)
EXTENDS Registry, SequenceTheorems, TLAPS

\* Nobody in L is kept out of network n.
Good(n, L) == Careful => \A p \in L : <<p[1], n>> \notin Refused

\* What may be on its way from and to a client.
Requests(c) ==
  {r \in Request :
     /\ r.at <= at[c]
     /\ Careful /\ r.type = "register" => r.net = net[c]}
Answers(c) ==
  {m \in Answer : m.type \in {"registered", "peers"} => Good(net[c], m.peers)}

OffIsEmpty ==
  \A c \in Clients : phase[c] = "off" => view[c] = {} /\ down[c] = << >>
ViewsGood == \A c \in Clients : Good(net[c], view[c])
WireGood ==
  \A c \in Clients : up[c] \in Seq(Requests(c)) /\ down[c] \in Seq(Answers(c))
SessionsGood ==
  \A c \in Online :
    /\ sessions[c].at <= at[c]
    /\ Careful => sessions[c].net = net[c] /\ <<c, net[c]>> \notin Refused
OutGood ==
  \A g \in Goroutines : \A d \in job[g].out :
    d.at <= at[d.to] /\ (d.at = at[d.to] => d.msg \in Answers(d.to))

Inv ==
  /\ TypeOK
  /\ OffIsEmpty /\ ViewsGood /\ WireGood /\ SessionsGood /\ OutGood

-----------------------------------------------------------------------------
(* Sequences that grow, shrink and are put in another order. *)

LEMMA Appended ==
  ASSUME NEW S, NEW q \in Seq(S), NEW e \in S
  PROVE  Append(q, e) \in Seq(S)
OBVIOUS

LEMMA Taken ==
  ASSUME NEW S, NEW q \in Seq(S), q # << >>
  PROVE  Head(q) \in S /\ Tail(q) \in Seq(S)
BY HeadTailProperties

LEMMA Swapped ==
  ASSUME NEW S, NEW q \in Seq(S), Len(q) > 1
  PROVE  [[q EXCEPT ![1] = q[2]] EXCEPT ![2] = q[1]] \in Seq(S)
<1> DEFINE r == [q EXCEPT ![1] = q[2]]
<1>1. Len(q) \in Nat /\ 1 \in 1 .. Len(q) /\ 2 \in 1 .. Len(q)
  BY LenProperties
<1>2. q[1] \in S /\ q[2] \in S
  BY <1>1, ElementOfSeq
<1>3. r \in Seq(S) /\ Len(r) = Len(q)
  BY <1>1, <1>2, ExceptSeq
<1> HIDE DEF r
<1>4. [r EXCEPT ![2] = q[1]] \in Seq(S)
  BY <1>1, <1>2, <1>3, ExceptSeq
<1> QED BY <1>4 DEF r

-----------------------------------------------------------------------------
(* What the operators return. *)

LEMMA PeerListTypes ==
  ASSUME TypeOK, NEW n, NEW e
  PROVE  peerList(n, e) \in List
BY DEF TypeOK, peerList, Online, List, Session, Addresses

\* The server has a session only for who may be in its network.
LEMMA PeerListGood ==
  ASSUME SessionsGood, NEW n, NEW e
  PROVE  Good(n, peerList(n, e))
<1> SUFFICES ASSUME Careful, NEW p \in peerList(n, e)
             PROVE  <<p[1], n>> \notin Refused
  BY DEF Good
<1>1. PICK q \in Online : sessions[q].net = n /\ p = <<q, sessions[q].at>>
  BY DEF peerList
<1>2. p[1] = q
  BY <1>1
<1> QED BY <1>1, <1>2 DEF SessionsGood

\* A list of the network a client is in is one it may get.
LEMMA PeerListAnswer ==
  ASSUME TypeOK, SessionsGood, NEW c \in Clients, NEW n,
         Careful => n = net[c], NEW t \in {"registered", "peers"}
  PROVE  LET msg == [type |-> t, peers |-> peerList(n, c)]
         IN  msg \in Answer /\ msg \in Answers(c)
<1> DEFINE L == peerList(n, c)
           msg == [type |-> t, peers |-> L]
<1>1. L \in List /\ Good(n, L)
  BY PeerListTypes, PeerListGood
<1>2. Good(net[c], L)
  BY <1>1 DEF Good
<1> HIDE DEF L
<1>3. msg \in Answer /\ msg.peers = L
  BY <1>1 DEF Answer
<1>4. msg \in Answers(c)
  BY <1>2, <1>3 DEF Answers
<1> QED BY <1>3, <1>4 DEF L

LEMMA RequestTypes ==
  ASSUME NEW r \in Request
  PROVE  /\ r.at \in Addresses
         /\ r.type = "register" => r.net \in Networks
BY DEF Request

LEMMA AnswerTypes ==
  ASSUME NEW m \in Answer, m.type \in {"registered", "peers"}
  PROVE  m.peers \in List
BY DEF Answer

LEMMA InitInv == Init => Inv
<1> SUFFICES ASSUME Init PROVE Inv
  OBVIOUS
<1>1. (CHOOSE n \in Networks : TRUE) \in Networks
  BY RegistryAssumption
<1>2. Online = {}
  BY DEF Init, Online
<1>3. TypeOK
  BY <1>1, <1>2, EmptySeq
  DEF Init, TypeOK, Idle, Job, List, Addresses
<1>4. OffIsEmpty /\ ViewsGood
  BY DEF Init, OffIsEmpty, ViewsGood, Good
<1>5. WireGood
  BY EmptySeq DEF Init, WireGood
<1>6. SessionsGood
  BY <1>2 DEF SessionsGood
<1>7. OutGood
  BY DEF Init, OutGood, Idle
<1> QED BY <1>3, <1>4, <1>5, <1>6, <1>7 DEF Inv

-----------------------------------------------------------------------------
(* The steps of a client. *)

\* While a client keeps network and address the same may be on its way.
LEMMA SameWire ==
  ASSUME UNCHANGED <<net, at>>
  PROVE  \A c \in Clients : Requests(c)' = Requests(c) /\ Answers(c)' = Answers(c)
BY DEF Requests, Answers, Good

LEMMA ServerFrame ==
  ASSUME SessionsGood, OutGood, UNCHANGED <<net, at, sessions, job>>
  PROVE  SessionsGood' /\ OutGood'
<1>1. Online' = Online
  BY DEF Online
<1>2. SessionsGood'
  BY <1>1 DEF SessionsGood
<1>3. OutGood'
  BY DEF OutGood, Answers, Good
<1> QED BY <1>2, <1>3

LEMMA FaultTypes ==
  ASSUME TypeOK, NEW kind, Fault(kind)
  PROVE  faults' \in Nat
BY DEF Fault, TypeOK

\* What a client sends.
LEMMA SendUpTypes ==
  ASSUME TypeOK, WireGood, NEW c \in Clients, NEW req,
         UNCHANGED <<net, at>>, SendUp(c, req), req \in Requests(c)
  PROVE  /\ up' \in [Clients -> Seq(Request)]
         /\ \A d \in Clients : up'[d] \in Seq(Requests(d)')
<1>1. up \in [Clients -> Seq(Request)] /\ up' = [up EXCEPT ![c] = Append(@, req)]
  BY DEF TypeOK, SendUp
<1>2. req \in Request
  BY DEF Requests
<1>3. Append(up[c], req) \in Seq(Request)
  BY <1>1, <1>2, Appended
<1>4. up[c] \in Seq(Requests(c))
  BY DEF WireGood
<1>5. Append(up[c], req) \in Seq(Requests(c))
  BY <1>4, Appended
<1>6. \A d \in Clients : up'[d] \in Seq(Requests(d))
  BY <1>1, <1>5 DEF WireGood
<1> QED BY <1>1, <1>3, <1>6, SameWire

LEMMA OwnRequests ==
  ASSUME TypeOK, NEW c \in Clients
  PROVE  /\ Keepalive(c) \in Requests(c)
         /\ Bye(c) \in Requests(c)
         /\ Register(c, net[c], at[c]) \in Requests(c)
<1>1. at[c] \in Addresses /\ net[c] \in Networks /\ at[c] <= at[c]
  BY DEF TypeOK, Addresses
<1>2. Keepalive(c) \in Request /\ Bye(c) \in Request
  BY <1>1 DEF Keepalive, Bye, Request
<1>3. Register(c, net[c], at[c]) \in Request
  BY <1>1 DEF Register, Request
<1> QED BY <1>1, <1>2, <1>3 DEF Keepalive, Bye, Register, Requests

\* A new process has a new address: nothing that is still under way to the old
\* one can reach it, and the server knows nothing of it in another network.
LEMMA StartInv ==
  ASSUME Inv, NEW c \in Clients, NEW n \in Networks, Start(c, n)
  PROVE  Inv'
<1> DEFINE req == Register(c, n, at[c] + 1)
<1>1. TypeOK /\ OffIsEmpty /\ ViewsGood /\ WireGood /\ SessionsGood /\ OutGood
  BY DEF Inv
<1>2. /\ phase[c] = "off"
      /\ Careful => n = net[c] \/ (sessions[c] = None /\ up[c] = << >>)
      /\ phase' = [phase EXCEPT ![c] = "joining"]
      /\ net' = [net EXCEPT ![c] = n]
      /\ at' = [at EXCEPT ![c] = @ + 1]
      /\ up' = [up EXCEPT ![c] = Append(@, req)]
      /\ UNCHANGED <<view, down, sessions, silent, job, faults>>
  BY DEF Start, SendUp, server
<1>3. at \in [Clients -> Nat] /\ at[c] \in Nat /\ at[c] + 1 \in Nat
  BY <1>1 DEF TypeOK, Addresses
<1>4. /\ net' \in [Clients -> Networks] /\ at' \in [Clients -> Nat]
      /\ net'[c] = n /\ at'[c] = at[c] + 1
      /\ \A d \in Clients : d # c => net'[d] = net[d] /\ at'[d] = at[d]
  BY <1>1, <1>2, <1>3 DEF TypeOK
<1>5. req \in Request /\ req.at = at'[c] /\ req.net = net'[c]
  BY <1>3, <1>4 DEF Register, Request, Addresses
<1> HIDE DEF req
<1>6. req \in Requests(c)'
  BY <1>3, <1>4, <1>5 DEF Requests
<1>7. up[c] \in Seq(Requests(c)')
  <2>1. CASE Careful => n = net[c]
    <3>1. \A r \in Requests(c) : r \in Requests(c)'
      BY <1>3, <1>4, <2>1, RequestTypes DEF Requests, Addresses
    <3>2. up[c] \in Seq(Requests(c))
      BY <1>1 DEF WireGood
    <3> QED BY <3>1, <3>2, SeqMonotonic
  <2>2. CASE up[c] = << >>
    BY <2>2, EmptySeq
  <2> QED BY <1>2, <2>1, <2>2
<1>8. TypeOK'
  <2>1. up \in [Clients -> Seq(Request)] /\ up[c] \in Seq(Request)
    BY <1>1 DEF TypeOK
  <2>2. Append(up[c], req) \in Seq(Request)
    BY <1>5, <2>1, Appended
  <2>3. up' \in [Clients -> Seq(Request)]
    BY <1>2, <2>1, <2>2
  <2>4. phase' \in [Clients -> {"off", "joining", "on"}]
    BY <1>1, <1>2 DEF TypeOK
  <2>5. Online' = Online
    BY <1>2 DEF Online
  <2> QED BY <1>1, <1>2, <1>4, <2>3, <2>4, <2>5 DEF TypeOK, Addresses
<1>9. OffIsEmpty'
  BY <1>1, <1>2 DEF OffIsEmpty, TypeOK
<1>10. ViewsGood'
  BY <1>1, <1>2, <1>4 DEF ViewsGood, OffIsEmpty, Good
<1>11. WireGood'
  <2> SUFFICES ASSUME NEW d \in Clients
               PROVE  up'[d] \in Seq(Requests(d)') /\ down'[d] \in Seq(Answers(d)')
    BY DEF WireGood
  <2>1. CASE d = c
    <3>1. Append(up[c], req) \in Seq(Requests(c)')
      BY <1>6, <1>7, Appended
    <3>2. up'[c] = Append(up[c], req)
      BY <1>1, <1>2 DEF TypeOK
    <3>3. down'[c] = << >>
      BY <1>1, <1>2 DEF OffIsEmpty
    <3> QED BY <2>1, <3>1, <3>2, <3>3, EmptySeq
  <2>2. CASE d # c
    <3>1. Requests(d)' = Requests(d) /\ Answers(d)' = Answers(d)
      BY <1>4, <2>2 DEF Requests, Answers, Good
    <3>2. up'[d] = up[d] /\ down'[d] = down[d]
      BY <1>1, <1>2, <2>2 DEF TypeOK
    <3> QED BY <1>1, <3>1, <3>2 DEF WireGood
  <2> QED BY <2>1, <2>2
<1>12. SessionsGood'
  <2>1. Online' = Online
    BY <1>2 DEF Online
  <2> SUFFICES ASSUME NEW d \in Online
               PROVE  /\ sessions[d].at <= at'[d]
                      /\ Careful => /\ sessions[d].net = net'[d]
                                    /\ <<d, net'[d]>> \notin Refused
    BY <1>2, <2>1 DEF SessionsGood
  <2>2. /\ d \in Clients /\ sessions[d].at <= at[d]
        /\ Careful => sessions[d].net = net[d] /\ <<d, net[d]>> \notin Refused
    BY <1>1 DEF SessionsGood, Online
  <2>3. sessions[d].at \in Nat
    BY <1>1 DEF TypeOK, Online, Session, Addresses
  <2>4. Careful /\ d = c => n = net[c]
    BY <1>2 DEF Online
  <2> QED BY <1>3, <1>4, <2>2, <2>3, <2>4
<1>13. OutGood'
  <2> SUFFICES ASSUME NEW g \in Goroutines, NEW d \in job[g].out
               PROVE  d.at <= at'[d.to] /\ (d.at = at'[d.to] => d.msg \in Answers(d.to)')
    BY <1>2 DEF OutGood
  <2>1. d.to \in Clients /\ d.at \in Nat
    BY <1>1 DEF TypeOK, Job, Delivery, Addresses
  <2>2. d.at <= at[d.to] /\ (d.at = at[d.to] => d.msg \in Answers(d.to))
    BY <1>1 DEF OutGood
  <2>3. CASE d.to = c
    BY <1>3, <1>4, <2>1, <2>2, <2>3
  <2>4. CASE d.to # c
    BY <1>4, <2>1, <2>2, <2>4 DEF Answers, Good
  <2> QED BY <2>3, <2>4
<1> QED BY <1>8, <1>9, <1>10, <1>11, <1>12, <1>13 DEF Inv

\* A client that ends leaves nothing behind but, perhaps, a Bye.
LEMMA LeaveInv ==
  ASSUME Inv, NEW c \in Clients, Gone(c), UNCHANGED server, faults' \in Nat,
         UNCHANGED up \/ SendUp(c, Bye(c))
  PROVE  Inv'
<1>1. TypeOK /\ OffIsEmpty /\ ViewsGood /\ WireGood /\ SessionsGood /\ OutGood
  BY DEF Inv
<1>2. /\ phase' = [phase EXCEPT ![c] = "off"]
      /\ view' = [view EXCEPT ![c] = {}]
      /\ down' = [down EXCEPT ![c] = << >>]
      /\ UNCHANGED <<net, at, sessions, silent, job>>
  BY DEF Gone, server
<1>3. /\ up' \in [Clients -> Seq(Request)]
      /\ \A d \in Clients : up'[d] \in Seq(Requests(d)')
  <2>1. CASE UNCHANGED up
    BY <1>1, <1>2, <2>1, SameWire DEF TypeOK, WireGood
  <2>2. CASE SendUp(c, Bye(c))
    BY <1>1, <1>2, <2>2, SendUpTypes, OwnRequests
  <2> QED BY <2>1, <2>2
<1>4. down' \in [Clients -> Seq(Answer)]
  BY <1>1, <1>2, EmptySeq DEF TypeOK
<1>5. TypeOK'
  <2>1. phase' \in [Clients -> {"off", "joining", "on"}]
    BY <1>1, <1>2 DEF TypeOK
  <2>2. view' \in [Clients -> List]
    BY <1>1, <1>2 DEF TypeOK, List
  <2>3. Online' = Online
    BY <1>2 DEF Online
  <2> QED BY <1>1, <1>2, <1>3, <1>4, <2>1, <2>2, <2>3 DEF TypeOK
<1>6. OffIsEmpty' /\ ViewsGood'
  BY <1>1, <1>2 DEF OffIsEmpty, ViewsGood, Good, TypeOK
<1>7. WireGood'
  <2>1. \A d \in Clients : down'[d] \in Seq(Answers(d))
    BY <1>1, <1>2, EmptySeq DEF WireGood, TypeOK
  <2> QED BY <1>2, <1>3, <2>1, SameWire DEF WireGood
<1>8. SessionsGood' /\ OutGood'
  BY <1>1, <1>2, ServerFrame
<1> QED BY <1>5, <1>6, <1>7, <1>8 DEF Inv

\* A move makes what is under way to the client miss it.
LEMMA RoamInv ==
  ASSUME Inv, NEW c \in Clients, Roam(c)
  PROVE  Inv'
<1>1. TypeOK /\ OffIsEmpty /\ ViewsGood /\ WireGood /\ SessionsGood /\ OutGood
  BY DEF Inv
<1>2. /\ at' = [at EXCEPT ![c] = @ + 1]
      /\ down' = [down EXCEPT ![c] = << >>]
      /\ UNCHANGED <<phase, net, view, up, sessions, silent, job, faults>>
  BY DEF Roam, server
<1>3. /\ at \in [Clients -> Nat] /\ at[c] \in Nat
      /\ at' \in [Clients -> Nat] /\ at'[c] = at[c] + 1
      /\ \A d \in Clients : d # c => at'[d] = at[d]
  BY <1>1, <1>2 DEF TypeOK, Addresses
<1>4. Online' = Online
  BY <1>2 DEF Online
<1>5. down' \in [Clients -> Seq(Answer)]
  BY <1>1, <1>2, EmptySeq DEF TypeOK
<1>6. TypeOK'
  BY <1>1, <1>2, <1>3, <1>4, <1>5 DEF TypeOK, Addresses
<1>7. OffIsEmpty' /\ ViewsGood'
  BY <1>1, <1>2 DEF OffIsEmpty, ViewsGood, Good, TypeOK
<1>8. WireGood'
  <2> SUFFICES ASSUME NEW d \in Clients
               PROVE  up'[d] \in Seq(Requests(d)') /\ down'[d] \in Seq(Answers(d)')
    BY DEF WireGood
  <2>1. \A r \in Requests(d) : r \in Requests(d)'
    BY <1>2, <1>3, RequestTypes DEF Requests, Addresses
  <2>2. up'[d] \in Seq(Requests(d)')
    BY <1>1, <1>2, <2>1, SeqMonotonic DEF WireGood
  <2>3. Answers(d)' = Answers(d)
    BY <1>2 DEF Answers, Good
  <2>4. down'[d] \in Seq(Answers(d))
    BY <1>1, <1>2, EmptySeq DEF WireGood, TypeOK
  <2> QED BY <2>2, <2>3, <2>4
<1>9. SessionsGood'
  <2> SUFFICES ASSUME NEW d \in Online
               PROVE  /\ sessions[d].at <= at'[d]
                      /\ Careful => /\ sessions[d].net = net[d]
                                    /\ <<d, net[d]>> \notin Refused
    BY <1>2, <1>4 DEF SessionsGood
  <2>1. d \in Clients /\ sessions[d].at \in Nat
    BY <1>1 DEF TypeOK, Online, Session, Addresses
  <2> QED BY <1>1, <1>3, <2>1 DEF SessionsGood
<1>10. OutGood'
  <2> SUFFICES ASSUME NEW g \in Goroutines, NEW d \in job[g].out
               PROVE  d.at <= at'[d.to] /\ (d.at = at'[d.to] => d.msg \in Answers(d.to)')
    BY <1>2 DEF OutGood
  <2>1. d.to \in Clients /\ d.at \in Nat
    BY <1>1 DEF TypeOK, Job, Delivery, Addresses
  <2>2. d.at <= at[d.to] /\ (d.at = at[d.to] => d.msg \in Answers(d.to))
    BY <1>1 DEF OutGood
  <2>3. Answers(d.to)' = Answers(d.to)
    BY <1>2 DEF Answers, Good
  <2> QED BY <1>3, <2>1, <2>2, <2>3
<1> QED BY <1>6, <1>7, <1>8, <1>9, <1>10 DEF Inv

\* Another datagram of a client is on its way.
LEMMA SendUpInv ==
  ASSUME Inv, NEW c \in Clients, NEW req \in Requests(c), SendUp(c, req),
         UNCHANGED <<client, server, faults>>,
         \/ UNCHANGED down
         \/ down[c] # << >> /\ Received(c)
  PROVE  Inv'
<1>1. TypeOK /\ OffIsEmpty /\ ViewsGood /\ WireGood /\ SessionsGood /\ OutGood
  BY DEF Inv
<1>2. UNCHANGED <<phase, net, at, view, sessions, silent, job, faults>>
  BY DEF client, server
<1>3. /\ up' \in [Clients -> Seq(Request)]
      /\ \A d \in Clients : up'[d] \in Seq(Requests(d)')
  BY <1>1, <1>2, SendUpTypes
<1>4. /\ down' \in [Clients -> Seq(Answer)]
      /\ \A d \in Clients : down'[d] \in Seq(Answers(d))
      /\ \A d \in Clients : down[d] = << >> => down'[d] = << >>
  <2>1. CASE UNCHANGED down
    BY <1>1, <2>1 DEF TypeOK, WireGood
  <2>2. CASE down[c] # << >> /\ Received(c)
    <3>1. down' = [down EXCEPT ![c] = Tail(@)]
      BY <2>2 DEF Received
    <3>2. down \in [Clients -> Seq(Answer)] /\ down[c] \in Seq(Answer)
      BY <1>1 DEF TypeOK
    <3>3. Tail(down[c]) \in Seq(Answer)
      BY <2>2, <3>2, Taken
    <3>4. down[c] \in Seq(Answers(c))
      BY <1>1 DEF WireGood
    <3>5. Tail(down[c]) \in Seq(Answers(c))
      BY <2>2, <3>4, Taken
    <3> QED BY <1>1, <2>2, <3>1, <3>2, <3>3, <3>5 DEF WireGood
  <2> QED BY <2>1, <2>2
<1>5. Online' = Online
  BY <1>2 DEF Online
<1>6. TypeOK'
  BY <1>1, <1>2, <1>3, <1>4, <1>5 DEF TypeOK
<1>7. OffIsEmpty' /\ ViewsGood'
  BY <1>1, <1>2, <1>4 DEF OffIsEmpty, ViewsGood, Good
<1>8. WireGood'
  BY <1>2, <1>3, <1>4, SameWire DEF WireGood
<1>9. SessionsGood' /\ OutGood'
  BY <1>1, <1>2, ServerFrame
<1> QED BY <1>6, <1>7, <1>8, <1>9 DEF Inv

\* Every list that arrives is good for the network its client is in.
LEMMA ReceiveListInv ==
  ASSUME Inv, NEW c \in Clients, ReceiveList(c)
  PROVE  Inv'
<1> DEFINE msg == Head(down[c])
           seen == {p \in msg.peers : p[1] # c}
<1>1. TypeOK /\ OffIsEmpty /\ ViewsGood /\ WireGood /\ SessionsGood /\ OutGood
  BY DEF Inv
<1>2. /\ down[c] # << >>
      /\ msg.type \in {"registered", "peers"}
      /\ view' = [view EXCEPT ![c] = seen]
      /\ phase' = IF msg.type = "registered"
                    THEN [phase EXCEPT ![c] = "on"] ELSE phase
      /\ down' = [down EXCEPT ![c] = Tail(@)]
      /\ UNCHANGED <<net, at, up, sessions, silent, job, faults>>
  BY DEF ReceiveList, Received, server
<1>3. down \in [Clients -> Seq(Answer)] /\ down[c] \in Seq(Answer)
  BY <1>1 DEF TypeOK
<1>4. msg \in Answer /\ Tail(down[c]) \in Seq(Answer)
  BY <1>2, <1>3, Taken
<1>5. down[c] \in Seq(Answers(c))
  BY <1>1 DEF WireGood
<1>6. msg \in Answers(c) /\ Tail(down[c]) \in Seq(Answers(c))
  BY <1>2, <1>5, Taken
<1> HIDE DEF msg
<1>7. seen \in List /\ Good(net[c], seen)
  <2>1. msg.peers \in List
    BY <1>2, <1>4, AnswerTypes
  <2>2. Good(net[c], msg.peers)
    BY <1>2, <1>6 DEF Answers
  <2> QED BY <2>1, <2>2 DEF List, Good
<1> HIDE DEF seen
<1>8. TypeOK'
  <2>1. phase' \in [Clients -> {"off", "joining", "on"}]
    BY <1>1, <1>2 DEF TypeOK
  <2>2. view' \in [Clients -> List]
    BY <1>1, <1>2, <1>7 DEF TypeOK
  <2>3. down' \in [Clients -> Seq(Answer)]
    BY <1>2, <1>3, <1>4
  <2>4. Online' = Online
    BY <1>2 DEF Online
  <2> QED BY <1>1, <1>2, <2>1, <2>2, <2>3, <2>4 DEF TypeOK
<1>9. OffIsEmpty'
  BY <1>1, <1>2 DEF OffIsEmpty, TypeOK
<1>10. ViewsGood'
  BY <1>1, <1>2, <1>7 DEF ViewsGood, Good, TypeOK
<1>11. WireGood'
  <2>1. \A d \in Clients : down'[d] \in Seq(Answers(d))
    BY <1>1, <1>2, <1>3, <1>6 DEF WireGood
  <2> QED BY <1>1, <1>2, <2>1, SameWire DEF WireGood
<1>12. SessionsGood' /\ OutGood'
  BY <1>1, <1>2, ServerFrame
<1> QED BY <1>8, <1>9, <1>10, <1>11, <1>12 DEF Inv

-----------------------------------------------------------------------------
(* The steps of the server. *)

\* When the clients do nothing the invariant is about the server and the wire.
LEMMA QuietClientsInv ==
  ASSUME Inv, UNCHANGED client,
         up' \in [Clients -> Seq(Request)],
         down' \in [Clients -> Seq(Answer)],
         \A c \in Clients : /\ up'[c] \in Seq(Requests(c))
                            /\ down'[c] \in Seq(Answers(c))
                            /\ phase[c] = "off" => down'[c] = << >>,
         sessions' \in [Clients -> Session \cup {None}],
         silent' \subseteq Online',
         job' \in [Goroutines -> Job],
         faults' \in Nat,
         SessionsGood', OutGood'
  PROVE  Inv'
<1>1. TypeOK /\ OffIsEmpty /\ ViewsGood /\ WireGood
  BY DEF Inv
<1>2. UNCHANGED <<phase, net, at, view>>
  BY DEF client
<1>3. TypeOK'
  BY <1>1, <1>2 DEF TypeOK
<1>4. OffIsEmpty' /\ ViewsGood'
  BY <1>1, <1>2 DEF OffIsEmpty, ViewsGood, Good
<1>5. WireGood'
  BY <1>2, SameWire DEF WireGood
<1> QED BY <1>3, <1>4, <1>5 DEF Inv

\* Taking the first datagram from the wire leaves good ones.
LEMMA TakenFromWire ==
  ASSUME Inv, NEW c \in Clients
  PROVE  /\ up[c] # << >> =>
              /\ Head(up[c]) \in Requests(c)
              /\ [up EXCEPT ![c] = Tail(@)] \in [Clients -> Seq(Request)]
              /\ \A d \in Clients :
                   [up EXCEPT ![c] = Tail(@)][d] \in Seq(Requests(d))
         /\ down[c] # << >> =>
              /\ [down EXCEPT ![c] = Tail(@)] \in [Clients -> Seq(Answer)]
              /\ \A d \in Clients :
                   [down EXCEPT ![c] = Tail(@)][d] \in Seq(Answers(d))
<1>1. TypeOK /\ WireGood
  BY DEF Inv
<1>2. /\ up \in [Clients -> Seq(Request)] /\ up[c] \in Seq(Request)
      /\ down \in [Clients -> Seq(Answer)] /\ down[c] \in Seq(Answer)
  BY <1>1 DEF TypeOK
<1>3. up[c] \in Seq(Requests(c)) /\ down[c] \in Seq(Answers(c))
  BY <1>1 DEF WireGood
<1>4. ASSUME up[c] # << >>
      PROVE  /\ Head(up[c]) \in Requests(c)
             /\ Tail(up[c]) \in Seq(Request) /\ Tail(up[c]) \in Seq(Requests(c))
  BY <1>2, <1>3, <1>4, Taken
<1>5. ASSUME down[c] # << >>
      PROVE  Tail(down[c]) \in Seq(Answer) /\ Tail(down[c]) \in Seq(Answers(c))
  BY <1>2, <1>3, <1>5, Taken
<1> QED BY <1>1, <1>2, <1>4, <1>5 DEF WireGood

\* Whoever has a session has one of its present network.
LEMMA SessionTypes ==
  ASSUME TypeOK, NEW c \in Online
  PROVE  /\ c \in Clients /\ sessions[c] \in Session
         /\ sessions[c].net \in Networks /\ sessions[c].at \in Addresses
BY DEF TypeOK, Online, Session

LEMMA AnsweringTypes ==
  ASSUME NEW c \in Clients, NEW a \in Addresses, NEW m \in Answer
  PROVE  /\ Answering(c, a, m) \subseteq Delivery
         /\ \A d \in Answering(c, a, m) : d.to = c /\ d.at = a /\ d.msg = m
BY DEF Answering, Delivery

\* The one who registers, and whom it is listed to.
LEMMA HandleRegisterInv ==
  ASSUME Inv, NEW c \in Clients, NEW req \in Requests(c),
         req.type = "register", HandleRegister(c, req), ~Busy("reader"),
         UNCHANGED <<client, down>>
  PROVE  /\ sessions' \in [Clients -> Session \cup {None}]
         /\ silent' \subseteq Online'
         /\ job' \in [Goroutines -> Job]
         /\ SessionsGood' /\ OutGood'
<1> DEFINE wrong == [type |-> "wrong password"]
           L == peerList(req.net, c)
           right == [type |-> "registered", peers |-> L]
<1>1. TypeOK /\ SessionsGood /\ OutGood
  BY DEF Inv
<1>2. UNCHANGED <<phase, net, at, view, down>>
  BY DEF client
<1>3. /\ Careful => req.net = net[c]
      /\ req.net \in Networks
      /\ req.at \in Addresses /\ req.at <= at[c]
  BY RequestTypes DEF Requests
<1>4. "reader" \in Goroutines /\ job \in [Goroutines -> Job]
      /\ job["reader"] = Idle
  BY <1>1 DEF Goroutines, TypeOK, Busy
<1>5. wrong \in Answer /\ wrong \in Answers(c)
  BY DEF Answer, Answers
<1>6. right \in Answer /\ right \in Answers(c)
  BY <1>1, <1>3, PeerListAnswer
<1> HIDE DEF wrong, right
<1>7. CASE <<c, req.net>> \in Refused
  <2> DEFINE out == Answering(c, req.at, wrong)
  <2>1. job' = [job EXCEPT !["reader"].out = out] /\ UNCHANGED <<sessions, silent>>
    BY <1>7 DEF HandleRegister, wrong
  <2>2. /\ out \subseteq Delivery
        /\ \A d \in out : d.to = c /\ d.at = req.at /\ d.msg = wrong
    BY <1>3, <1>5, AnsweringTypes
  <2> HIDE DEF out
  <2>4. /\ job' \in [Goroutines -> Job]
        /\ job'["reader"].out = out
        /\ \A g \in Goroutines : g # "reader" => job'[g] = job[g]
    BY <1>4, <2>1, <2>2 DEF Job
  <2>5. Online' = Online
    BY <2>1 DEF Online
  <2>6. SessionsGood'
    BY <1>1, <1>2, <2>1, <2>5 DEF SessionsGood
  <2>7. OutGood'
    BY <1>1, <1>2, <1>3, <1>5, <2>2, <2>4, SameWire DEF OutGood, Answers, Good
  <2> QED BY <1>1, <2>1, <2>4, <2>5, <2>6, <2>7 DEF TypeOK
<1>8. CASE <<c, req.net>> \notin Refused
  <2> DEFINE s == [net |-> req.net, at |-> req.at]
             out == Answering(c, req.at, right)
             push == {<<req.net, c>>}
  <2>1. /\ sessions' = [sessions EXCEPT ![c] = s]
        /\ silent' = silent \ {c}
        /\ job' = [job EXCEPT !["reader"] = [out |-> out, push |-> push]]
    BY <1>8 DEF HandleRegister, right
  <2>2. s \in Session /\ s.net = req.net /\ s.at = req.at
    BY <1>3 DEF Session
  <2>3. /\ out \subseteq Delivery
        /\ \A d \in out : d.to = c /\ d.at = req.at /\ d.msg = right
    BY <1>3, <1>6, AnsweringTypes
  <2>4. push \subseteq Networks \X Clients
    BY <1>3
  <2> HIDE DEF s, out, push
  <2>5. /\ job' \in [Goroutines -> Job]
        /\ job'["reader"].out = out
        /\ \A g \in Goroutines : g # "reader" => job'[g] = job[g]
    BY <1>4, <2>1, <2>3, <2>4 DEF Job
  <2>6. /\ sessions' \in [Clients -> Session \cup {None}]
        /\ sessions'[c] = s
        /\ \A d \in Clients : d # c => sessions'[d] = sessions[d]
    BY <1>1, <2>1, <2>2 DEF TypeOK
  <2>7. silent' \subseteq Online'
    BY <1>1, <2>1, <2>6 DEF TypeOK, Online
  <2>8. SessionsGood'
    BY <1>1, <1>2, <1>3, <1>8, <2>2, <2>6 DEF SessionsGood, Online
  <2>9. OutGood'
    BY <1>1, <1>2, <1>3, <1>6, <2>3, <2>5, SameWire DEF OutGood, Answers, Good
  <2> QED BY <2>5, <2>6, <2>7, <2>8, <2>9
<1> QED BY <1>7, <1>8

\* A keepalive only brings the address of a session up to date.
LEMMA HandleKeepaliveInv ==
  ASSUME Inv, NEW c \in Clients, NEW req \in Requests(c),
         HandleKeepalive(c, req), ~Busy("reader"),
         UNCHANGED <<client, down>>
  PROVE  /\ sessions' \in [Clients -> Session \cup {None}]
         /\ silent' \subseteq Online'
         /\ job' \in [Goroutines -> Job]
         /\ SessionsGood' /\ OutGood'
<1> DEFINE msg == [type |-> "not registered"]
           out == Answering(c, req.at, msg)
           push == {<<sessions[c].net, c>>}
<1>1. TypeOK /\ SessionsGood /\ OutGood
  BY DEF Inv
<1>2. UNCHANGED <<phase, net, at, view, down>>
  BY DEF client
<1>3. req.at \in Addresses /\ req.at <= at[c]
  BY RequestTypes DEF Requests
<1>4. "reader" \in Goroutines /\ job \in [Goroutines -> Job]
      /\ job["reader"] = Idle
  BY <1>1 DEF Goroutines, TypeOK, Busy
<1>5. msg \in Answer /\ msg \in Answers(c)
  BY DEF Answer, Answers
<1> HIDE DEF msg
<1>6. /\ out \subseteq Delivery
      /\ \A d \in out : d.to = c /\ d.at = req.at /\ d.msg = msg
  BY <1>3, <1>5, AnsweringTypes
<1>7. \/ sessions[c] = None
      \/ c \in Online /\ sessions[c] \in Session /\ sessions[c].net \in Networks
  BY <1>1 DEF TypeOK, Online, Session
<1> HIDE DEF out
<1>8. CASE sessions[c] = None
  <2>1. job' = [job EXCEPT !["reader"].out = out] /\ UNCHANGED <<sessions, silent>>
    BY <1>8 DEF HandleKeepalive, msg, out
  <2>2. /\ job' \in [Goroutines -> Job]
        /\ job'["reader"].out = out
        /\ \A g \in Goroutines : g # "reader" => job'[g] = job[g]
    BY <1>4, <1>6, <2>1 DEF Job
  <2>3. Online' = Online
    BY <2>1 DEF Online
  <2>4. SessionsGood'
    BY <1>1, <1>2, <2>1, <2>3 DEF SessionsGood
  <2>5. OutGood'
    BY <1>1, <1>2, <1>3, <1>5, <1>6, <2>2, SameWire DEF OutGood, Answers, Good
  <2> QED BY <1>1, <2>1, <2>2, <2>3, <2>4, <2>5 DEF TypeOK
<1>9. CASE sessions[c] # None
  <2>1. /\ silent' = silent \ {c}
        /\ \/ /\ sessions' = [sessions EXCEPT ![c].at = req.at]
              /\ job' = [job EXCEPT !["reader"].push = push]
           \/ UNCHANGED <<sessions, job>>
    BY <1>9 DEF HandleKeepalive
  <2>2. push \subseteq Networks \X Clients
    BY <1>7, <1>9
  <2> HIDE DEF push
  <2>3. /\ job' \in [Goroutines -> Job]
        /\ \A g \in Goroutines : job'[g].out = job[g].out
    <3>1. CASE job' = [job EXCEPT !["reader"].push = push]
      BY <1>4, <2>2, <3>1 DEF Job
    <3> QED BY <1>4, <2>1, <3>1
  <2>4. /\ sessions' \in [Clients -> Session \cup {None}]
        /\ \A d \in Clients : d # c => sessions'[d] = sessions[d]
        /\ sessions'[c].net = sessions[c].net
        /\ sessions'[c].at \in {req.at, sessions[c].at}
    <3>1. CASE sessions' = [sessions EXCEPT ![c].at = req.at]
      BY <1>1, <1>3, <1>7, <1>9, <3>1 DEF TypeOK, Session
    <3> QED BY <1>1, <2>1, <3>1 DEF TypeOK
  <2>5. silent' \subseteq Online'
    BY <1>1, <2>1, <2>4 DEF TypeOK, Online
  <2>6. SessionsGood'
    BY <1>1, <1>2, <1>3, <1>7, <1>9, <2>4 DEF SessionsGood, Online
  <2>7. OutGood'
    BY <1>1, <1>2, <2>3, SameWire DEF OutGood, TypeOK, Job, Delivery
  <2> QED BY <2>3, <2>4, <2>5, <2>6, <2>7
<1> QED BY <1>8, <1>9

\* A Bye takes a session away.
LEMMA HandleByeInv ==
  ASSUME Inv, NEW c \in Clients, HandleBye(c), UNCHANGED <<client, down>>
  PROVE  /\ sessions' \in [Clients -> Session \cup {None}]
         /\ silent' \subseteq Online'
         /\ job' \in [Goroutines -> Job]
         /\ SessionsGood' /\ OutGood'
<1> DEFINE push == {<<sessions[c].net, c>>}
<1>1. TypeOK /\ SessionsGood /\ OutGood
  BY DEF Inv
<1>2. UNCHANGED <<phase, net, at, view, down>>
  BY DEF client
<1>3. CASE sessions[c] = None
  <2>1. UNCHANGED <<sessions, silent, job>>
    BY <1>3 DEF HandleBye
  <2>2. Online' = Online
    BY <2>1 DEF Online
  <2> QED BY <1>1, <1>2, <2>1, <2>2, ServerFrame DEF TypeOK
<1>4. CASE sessions[c] # None
  <2>1. /\ sessions' = [sessions EXCEPT ![c] = None]
        /\ job' = [job EXCEPT !["reader"].push = push]
        /\ silent' = silent \ {c}
    BY <1>4 DEF HandleBye
  <2>2. c \in Online
    BY <1>4 DEF Online
  <2>3. push \subseteq Networks \X Clients
    BY <1>1, <2>2, SessionTypes
  <2> HIDE DEF push
  <2>4. "reader" \in Goroutines /\ job \in [Goroutines -> Job]
    BY <1>1 DEF Goroutines, TypeOK
  <2>5. /\ job' \in [Goroutines -> Job]
        /\ \A g \in Goroutines : job'[g].out = job[g].out
    BY <2>1, <2>3, <2>4 DEF Job
  <2>6. sessions' \in [Clients -> Session \cup {None}]
    BY <1>1, <2>1 DEF TypeOK
  <2>7. Online' = Online \ {c} /\ \A d \in Online' : sessions'[d] = sessions[d]
    BY <1>1, <2>1 DEF TypeOK, Online
  <2>8. silent' \subseteq Online'
    BY <1>1, <2>1, <2>7 DEF TypeOK
  <2>9. SessionsGood'
    BY <1>1, <1>2, <2>7 DEF SessionsGood, Online
  <2>10. OutGood'
    BY <1>1, <1>2, <2>5, SameWire DEF OutGood, TypeOK, Job, Delivery
  <2> QED BY <2>5, <2>6, <2>8, <2>9, <2>10
<1> QED BY <1>3, <1>4

LEMMA HandleInv ==
  ASSUME Inv, NEW c \in Clients, Handle(c)
  PROVE  Inv'
<1> DEFINE req == Head(up[c])
<1>1. TypeOK /\ OffIsEmpty /\ WireGood
  BY DEF Inv
<1>2. /\ up[c] # << >> /\ ~Busy("reader")
      /\ UNCHANGED <<client, down>>
      /\ \/ up' = [up EXCEPT ![c] = Tail(@)] /\ UNCHANGED faults
         \/ UNCHANGED up /\ Fault("repeat")
      /\ \/ req.type = "register" /\ HandleRegister(c, req)
         \/ req.type = "keepalive" /\ HandleKeepalive(c, req)
         \/ req.type = "bye" /\ HandleBye(c)
  BY DEF Handle
<1>3. faults' \in Nat
  BY <1>1, <1>2, FaultTypes DEF TypeOK
<1>4. /\ req \in Requests(c)
      /\ up' \in [Clients -> Seq(Request)]
      /\ \A d \in Clients : up'[d] \in Seq(Requests(d))
  <2>1. req \in Requests(c)
    BY <1>2, TakenFromWire
  <2>2. CASE up' = [up EXCEPT ![c] = Tail(@)]
    BY <1>2, <2>1, <2>2, TakenFromWire
  <2>3. CASE UNCHANGED up
    BY <1>1, <2>1, <2>3 DEF TypeOK, WireGood
  <2> QED BY <1>2, <2>2, <2>3
<1> HIDE DEF req
<1>5. /\ sessions' \in [Clients -> Session \cup {None}]
      /\ silent' \subseteq Online'
      /\ job' \in [Goroutines -> Job]
      /\ SessionsGood' /\ OutGood'
  BY <1>2, <1>4, HandleRegisterInv, HandleKeepaliveInv, HandleByeInv
<1>6. /\ down' \in [Clients -> Seq(Answer)]
      /\ \A d \in Clients : /\ down'[d] \in Seq(Answers(d))
                            /\ phase[d] = "off" => down'[d] = << >>
  BY <1>1, <1>2 DEF TypeOK, WireGood, OffIsEmpty
<1> QED BY <1>2, <1>3, <1>4, <1>5, <1>6, QuietClientsInv

\* Nothing on the wire changes.
LEMMA WireFrame ==
  ASSUME Inv, UNCHANGED wire
  PROVE  /\ up' \in [Clients -> Seq(Request)]
         /\ down' \in [Clients -> Seq(Answer)]
         /\ \A c \in Clients : /\ up'[c] \in Seq(Requests(c))
                               /\ down'[c] \in Seq(Answers(c))
                               /\ phase[c] = "off" => down'[c] = << >>
BY DEF Inv, wire, TypeOK, WireGood, OffIsEmpty

LEMMA SweepInv ==
  ASSUME Inv, Sweep
  PROVE  Inv'
<1> DEFINE push == {<<sessions[c].net, c>> : c \in silent}
<1>1. TypeOK /\ SessionsGood /\ OutGood
  BY DEF Inv
<1>2. /\ sessions' = [c \in Clients |-> IF c \in silent THEN None ELSE sessions[c]]
      /\ job' = [job EXCEPT !["sweep"].push = push]
      /\ silent' = {}
      /\ UNCHANGED <<client, wire, faults>>
  BY DEF Sweep
<1>3. UNCHANGED <<net, at>>
  BY <1>2 DEF client
<1>4. push \subseteq Networks \X Clients
  BY <1>1, SessionTypes DEF TypeOK
<1> HIDE DEF push
<1>5. "sweep" \in Goroutines /\ job \in [Goroutines -> Job]
  BY <1>1 DEF Goroutines, TypeOK
<1>6. /\ job' \in [Goroutines -> Job]
      /\ \A g \in Goroutines : job'[g].out = job[g].out
  BY <1>2, <1>4, <1>5 DEF Job
<1>7. sessions' \in [Clients -> Session \cup {None}]
  BY <1>1, <1>2 DEF TypeOK
<1>8. \A c \in Online' : c \in Online /\ sessions'[c] = sessions[c]
  BY <1>2 DEF Online
<1>9. SessionsGood'
  BY <1>1, <1>3, <1>8 DEF SessionsGood
<1>10. OutGood'
  BY <1>1, <1>3, <1>6, SameWire DEF OutGood, TypeOK, Job, Delivery
<1>11. silent' \subseteq Online' /\ faults' \in Nat
  BY <1>1, <1>2 DEF TypeOK
<1> QED BY <1>2, <1>6, <1>7, <1>9, <1>10, <1>11, WireFrame, QuietClientsInv

\* The list a member is sent is read in the lock section that reads where it
\* is, and both belong to the network it is in.
LEMMA PushSnapshotInv ==
  ASSUME Inv, NEW g \in Goroutines, PushSnapshot(g)
  PROVE  Inv'
<1> DEFINE msg(n, p) == [type |-> "peers", peers |-> peerList(n, p)]
           delivery(n, p) == [to |-> p, at |-> sessions[p].at, msg |-> msg(n, p)]
<1>1. TypeOK /\ SessionsGood /\ OutGood
  BY DEF Inv
<1>2. PICK due \in job[g].push :
        job' = [job EXCEPT ![g] =
                  [out  |-> {delivery(due[1], p) : p \in members(due[1], due[2])},
                   push |-> @.push \ {due}]]
  BY DEF PushSnapshot
<1>3. UNCHANGED <<client, wire, sessions, silent, faults>>
  BY DEF PushSnapshot
<1>4. UNCHANGED <<net, at>>
  BY <1>3 DEF client
<1> DEFINE out == {delivery(due[1], p) : p \in members(due[1], due[2])}
           rest == job[g].push \ {due}
<1>5. rest \subseteq Networks \X Clients
  BY <1>1 DEF TypeOK, Job
<1>6. ASSUME NEW p \in members(due[1], due[2])
      PROVE  /\ delivery(due[1], p) \in Delivery
             /\ delivery(due[1], p).to = p
             /\ delivery(due[1], p).at <= at[p]
             /\ delivery(due[1], p).msg \in Answers(p)
  <2>1. p \in Online /\ sessions[p].net = due[1]
    BY DEF members
  <2>2. p \in Clients /\ sessions[p].at \in Addresses
    BY <1>1, <2>1, SessionTypes
  <2>3. sessions[p].at <= at[p] /\ (Careful => due[1] = net[p])
    BY <1>1, <2>1 DEF SessionsGood
  <2>4. msg(due[1], p) \in Answer /\ msg(due[1], p) \in Answers(p)
    BY <1>1, <2>2, <2>3, PeerListAnswer
  <2> HIDE DEF msg
  <2> QED BY <2>2, <2>3, <2>4 DEF Delivery
<1> HIDE DEF delivery
<1>7. out \subseteq Delivery
  BY <1>6
<1>8. \A d \in out : d.at <= at[d.to] /\ d.msg \in Answers(d.to)
  BY <1>6
<1> HIDE DEF out, rest
<1>9. job' = [job EXCEPT ![g] = [out |-> out, push |-> rest]]
  BY <1>2 DEF out, rest
<1>10. /\ job' \in [Goroutines -> Job]
       /\ job'[g].out = out
       /\ \A h \in Goroutines : h # g => job'[h] = job[h]
  BY <1>1, <1>5, <1>7, <1>9 DEF TypeOK, Job
<1>11. Online' = Online
  BY <1>3 DEF Online
<1>12. SessionsGood'
  BY <1>1, <1>3, <1>4, <1>11 DEF SessionsGood
<1>13. OutGood'
  BY <1>1, <1>4, <1>8, <1>10 DEF OutGood, Answers, Good
<1>14. sessions' \in [Clients -> Session \cup {None}] /\ silent' \subseteq Online'
       /\ faults' \in Nat
  BY <1>1, <1>3, <1>11 DEF TypeOK
<1> QED BY <1>3, <1>10, <1>12, <1>13, <1>14, WireFrame, QuietClientsInv

\* Only who is still at the address a delivery was made for hears it.
LEMMA SendInv ==
  ASSUME Inv, NEW g \in Goroutines, Send(g)
  PROVE  Inv'
<1> DEFINE heard == {d \in job[g].out : phase[d.to] # "off" /\ at[d.to] = d.at}
           first(c) == CHOOSE d \in heard : d.to = c
<1>1. TypeOK /\ SessionsGood /\ OutGood /\ WireGood /\ OffIsEmpty
  BY DEF Inv
<1>2. /\ down' = [c \in Clients |->
           IF \E d \in heard : d.to = c
             THEN Append(down[c], first(c).msg)
             ELSE down[c]]
      /\ job' = [job EXCEPT ![g].out = {}]
      /\ UNCHANGED <<client, up, sessions, silent, faults>>
  BY DEF Send
<1>3. UNCHANGED <<net, at>>
  BY <1>2 DEF client
<1>4. ASSUME NEW c \in Clients, \E d \in heard : d.to = c
      PROVE  first(c).msg \in Answer /\ first(c).msg \in Answers(c)
             /\ phase[c] # "off"
  <2>1. first(c) \in heard /\ first(c).to = c
    BY <1>4
  <2> HIDE DEF first
  <2>2. first(c) \in job[g].out /\ at[c] = first(c).at /\ phase[c] # "off"
    BY <2>1
  <2>3. first(c) \in Delivery
    BY <1>1, <2>2 DEF TypeOK, Job
  <2> QED BY <1>1, <2>1, <2>2, <2>3 DEF OutGood, Delivery
<1> HIDE DEF heard, first
<1>5. ASSUME NEW c \in Clients
      PROVE  /\ down'[c] \in Seq(Answer)
             /\ down'[c] \in Seq(Answers(c))
             /\ phase[c] = "off" => down'[c] = << >>
  <2>1. down[c] \in Seq(Answer) /\ down[c] \in Seq(Answers(c))
    BY <1>1 DEF TypeOK, WireGood
  <2>2. CASE \E d \in heard : d.to = c
    <3>1. down'[c] = Append(down[c], first(c).msg)
      BY <1>2, <2>2
    <3>2. Append(down[c], first(c).msg) \in Seq(Answer)
      BY <1>4, <2>1, <2>2, Appended
    <3>3. Append(down[c], first(c).msg) \in Seq(Answers(c))
      BY <1>4, <2>1, <2>2, Appended
    <3> QED BY <1>4, <2>2, <3>1, <3>2, <3>3
  <2>3. CASE ~\E d \in heard : d.to = c
    BY <1>1, <1>2, <2>1, <2>3 DEF OffIsEmpty
  <2> QED BY <2>2, <2>3
<1>6. down' \in [Clients -> Seq(Answer)]
  BY <1>2, <1>5
<1>7. /\ job' \in [Goroutines -> Job]
      /\ \A h \in Goroutines : job'[h].out \subseteq job[h].out
  BY <1>1, <1>2 DEF TypeOK, Job
<1>8. Online' = Online
  BY <1>2 DEF Online
<1>9. SessionsGood'
  BY <1>1, <1>2, <1>3, <1>8 DEF SessionsGood
<1>10. OutGood'
  BY <1>1, <1>3, <1>7, SameWire DEF OutGood, TypeOK, Job, Delivery
<1>11. /\ up' \in [Clients -> Seq(Request)]
       /\ \A c \in Clients : up'[c] \in Seq(Requests(c))
       /\ sessions' \in [Clients -> Session \cup {None}]
       /\ silent' \subseteq Online' /\ faults' \in Nat
  BY <1>1, <1>2, <1>8 DEF TypeOK, WireGood
<1> QED BY <1>2, <1>5, <1>6, <1>7, <1>9, <1>10, <1>11, QuietClientsInv

LEMMA AgeInv ==
  ASSUME Inv, NEW c \in Clients, Age(c)
  PROVE  Inv'
<1>1. TypeOK /\ SessionsGood /\ OutGood
  BY DEF Inv
<1>2. /\ c \in Online
      /\ UNCHANGED faults \/ Fault("silence")
      /\ silent' = silent \cup {c}
      /\ UNCHANGED <<client, wire, sessions, job>>
  BY DEF Age
<1>3. faults' \in Nat
  BY <1>1, <1>2, FaultTypes DEF TypeOK
<1>4. Online' = Online /\ UNCHANGED <<net, at>>
  BY <1>2 DEF Online, client
<1>5. SessionsGood' /\ OutGood'
  BY <1>1, <1>2, <1>4, ServerFrame
<1>6. /\ sessions' \in [Clients -> Session \cup {None}]
      /\ silent' \subseteq Online' /\ job' \in [Goroutines -> Job]
  BY <1>1, <1>2, <1>4 DEF TypeOK
<1> QED BY <1>2, <1>3, <1>5, <1>6, WireFrame, QuietClientsInv

LEMMA RestartInv ==
  ASSUME Inv, Restart
  PROVE  Inv'
<1>1. TypeOK
  BY DEF Inv
<1>2. /\ Fault("server")
      /\ sessions' = [c \in Clients |-> None]
      /\ silent' = {}
      /\ job' = [g \in Goroutines |-> Idle]
      /\ UNCHANGED <<client, wire>>
  BY DEF Restart
<1>3. faults' \in Nat
  BY <1>1, <1>2, FaultTypes
<1>4. Online' = {}
  BY <1>2 DEF Online
<1>5. SessionsGood' /\ silent' \subseteq Online'
  BY <1>2, <1>4 DEF SessionsGood
<1>6. OutGood' /\ job' \in [Goroutines -> Job]
  BY <1>2 DEF OutGood, Idle, Job
<1>7. sessions' \in [Clients -> Session \cup {None}]
  BY <1>2
<1> QED BY <1>2, <1>3, <1>5, <1>6, <1>7, WireFrame, QuietClientsInv

-----------------------------------------------------------------------------
(* The network, and the theorems. *)

LEMMA NetworkInv ==
  ASSUME Inv, NEW c \in Clients, Lose(c) \/ Overtake(c)
  PROVE  Inv'
<1>1. TypeOK /\ WireGood /\ OffIsEmpty /\ SessionsGood /\ OutGood
  BY DEF Inv
<1>2. /\ UNCHANGED <<client, server>>
      /\ \E kind \in FaultKinds : Fault(kind)
  BY DEF Lose, Overtake, Fault, FaultKinds
<1>3. faults' \in Nat
  BY <1>1, <1>2, FaultTypes
<1>4. UNCHANGED <<phase, net, at, view, sessions, silent, job>>
  BY <1>2 DEF client, server
<1>5. /\ up' \in [Clients -> Seq(Request)]
      /\ down' \in [Clients -> Seq(Answer)]
      /\ \A d \in Clients : /\ up'[d] \in Seq(Requests(d))
                            /\ down'[d] \in Seq(Answers(d))
                            /\ phase[d] = "off" => down'[d] = << >>
  <2>1. CASE up[c] # << >> /\ up' = [up EXCEPT ![c] = Tail(@)] /\ UNCHANGED down
    <3>1. /\ up' \in [Clients -> Seq(Request)]
          /\ \A d \in Clients : up'[d] \in Seq(Requests(d))
      BY <2>1, TakenFromWire
    <3> QED BY <1>1, <2>1, <3>1 DEF TypeOK, WireGood, OffIsEmpty
  <2>2. CASE down[c] # << >> /\ down' = [down EXCEPT ![c] = Tail(@)]
             /\ UNCHANGED up
    <3>1. /\ down' \in [Clients -> Seq(Answer)]
          /\ \A d \in Clients : down'[d] \in Seq(Answers(d))
      BY <2>2, TakenFromWire
    <3>2. \A d \in Clients : phase[d] = "off" => down'[d] = << >>
      BY <1>1, <2>2 DEF TypeOK, OffIsEmpty
    <3> QED BY <1>1, <2>2, <3>1, <3>2 DEF TypeOK, WireGood
  <2>3. CASE Overtake(c)
    <3> DEFINE q == [[up[c] EXCEPT ![1] = up[c][2]] EXCEPT ![2] = up[c][1]]
    <3>1. /\ up \in [Clients -> Seq(Request)] /\ up[c] \in Seq(Request)
          /\ up[c] \in Seq(Requests(c))
      BY <1>1 DEF TypeOK, WireGood
    <3>2. Len(up[c]) > 1 /\ UNCHANGED down
      BY <2>3 DEF Overtake
    <3>3. q \in Seq(Request) /\ q \in Seq(Requests(c))
      BY <3>1, <3>2, Swapped
    <3>4. up' = [up EXCEPT ![c] = q]
      BY <2>3, <3>1 DEF Overtake
    <3> HIDE DEF q
    <3>5. /\ up' \in [Clients -> Seq(Request)]
          /\ \A d \in Clients : up'[d] \in Seq(Requests(d))
      BY <1>1, <3>1, <3>3, <3>4 DEF WireGood
    <3> QED BY <1>1, <3>2, <3>5 DEF TypeOK, WireGood, OffIsEmpty
  <2> QED BY <2>1, <2>2, <2>3 DEF Lose
<1>6. SessionsGood' /\ OutGood' /\ Online' = Online
  BY <1>1, <1>4, ServerFrame DEF Online
<1>7. /\ sessions' \in [Clients -> Session \cup {None}]
      /\ silent' \subseteq Online' /\ job' \in [Goroutines -> Job]
  BY <1>1, <1>4, <1>6 DEF TypeOK
<1> QED BY <1>2, <1>3, <1>5, <1>6, <1>7, QuietClientsInv

LEMMA StepInv ==
  ASSUME Inv, [Next]_vars
  PROVE  Inv'
<1>1. TypeOK
  BY DEF Inv
<1>2. ASSUME NEW c \in Clients, NEW n \in Networks, Start(c, n)
      PROVE  Inv'
  BY <1>2, StartInv
<1>3. ASSUME NEW c \in Clients, GiveUp(c) \/ Close(c) \/ Crash(c) \/ ReceiveRefusal(c)
      PROVE  Inv'
  <2>1. Gone(c) /\ UNCHANGED server /\ (UNCHANGED up \/ SendUp(c, Bye(c)))
    BY <1>3 DEF GiveUp, Close, Crash, ReceiveRefusal
  <2>2. faults' \in Nat
    BY <1>1, <1>3, FaultTypes DEF GiveUp, Close, Crash, ReceiveRefusal, TypeOK
  <2> QED BY <2>1, <2>2, LeaveInv
<1>4. ASSUME NEW c \in Clients, SendKeepalive(c) \/ ReceiveNotRegistered(c)
      PROVE  Inv'
  <2>1. CASE SendKeepalive(c)
    BY <1>1, <2>1, OwnRequests, SendUpInv DEF SendKeepalive
  <2>2. CASE ReceiveNotRegistered(c)
    BY <1>1, <2>2, OwnRequests, SendUpInv DEF ReceiveNotRegistered
  <2> QED BY <1>4, <2>1, <2>2
<1>5. ASSUME NEW c \in Clients,
             Roam(c) \/ ReceiveList(c) \/ Handle(c) \/ Age(c) \/ Lose(c) \/ Overtake(c)
      PROVE  Inv'
  BY <1>5, RoamInv, ReceiveListInv, HandleInv, AgeInv, NetworkInv
<1>6. ASSUME NEW g \in Goroutines, PushSnapshot(g) \/ Send(g)
      PROVE  Inv'
  BY <1>6, PushSnapshotInv, SendInv
<1>7. CASE Sweep \/ Restart
  BY <1>7, SweepInv, RestartInv
<1>8. CASE UNCHANGED vars
  BY <1>8 DEF vars, Inv, TypeOK, OffIsEmpty, ViewsGood, WireGood, SessionsGood,
              OutGood, Online, Requests, Answers, Good
<1> QED BY <1>2, <1>3, <1>4, <1>5, <1>6, <1>7, <1>8 DEF Next, Receive

\* The state of the registry, of its clients and of what is under way between
\* them keeps its types whatever fails: no session is silent that is not there.
THEOREM RegistryTypes == Spec => []TypeOK
<1>1. Inv => TypeOK
  BY DEF Inv
<1> QED BY <1>1, InitInv, StepInv, PTL DEF Spec

\* However many clients and networks there are, whatever is lost, repeated or
\* overtaken, and whenever the goroutines of the server run: the peer table
\* that handleRegistered and handlePeerList make never shows a client somebody
\* that handleRegister would refuse in the client's network.
THEOREM NobodyMislisted ==
  ASSUME Careful
  PROVE  Spec => []Isolation
<1>1. Inv => Isolation
  BY DEF Inv, ViewsGood, Good, Isolation
<1> QED BY <1>1, InitInv, StepInv, PTL DEF Spec

-----------------------------------------------------------------------------
(* Current views, when a goroutine of the server is done before the other  *)
(* begins, users are careful and lists arrive.                             *)
(*                                                                         *)
(* Of what the server has still to say to the members of a network, the    *)
(* last always is the list of the moment: a push of the network is due, or *)
(* a list has been read for this client, or it is the last list on its way,*)
(* or the one it has.                                                      *)

Dependable == Careful /\ Atomic /\ "lose list" \notin Faults

\* The list a client should have.
Due(c) == peerList(sessions[c].net, c)

\* The datagrams of q from the i-th on leave a table as it is.
NoList(q, i) == \A j \in i .. Len(q) : q[j].type \notin {"registered", "peers"}

\* The server knows where to find a client.
Followed(c) == c \in Online /\ phase[c] # "off" /\ at[c] = sessions[c].at

\* The goroutines, with the jobs js, have still to tell the members of n.
Pending(js, n) == \E g \in Goroutines : \E due \in js[g].push : due[1] = n
ListRead(c) ==
  \E g \in Goroutines : \E d \in job[g].out :
    d.to = c /\ d.at = at[c] /\ d.msg.type = "peers"
HasLatest(c) ==
  \/ view[c] = Due(c) /\ NoList(down[c], 1)
  \/ \E i \in 1 .. Len(down[c]) :
       /\ down[c][i].type = "peers" /\ down[c][i].peers = Due(c)
       /\ NoList(down[c], i + 1)
Told(c) ==
  Followed(c) => Pending(job, sessions[c].net) \/ ListRead(c) \/ HasLatest(c)

OneAtATime == \E g \in Goroutines : \A h \in Goroutines : h # g => ~Busy(h)
OutOnce == \A g \in Goroutines : \A d, e \in job[g].out : d.to = e.to => d = e
\* What has been read is still so.
OutCurrent ==
  \A g \in Goroutines : \A d \in job[g].out :
    /\ d.msg.type = "peers" => d.to \in Online /\ d.msg.peers = Due(d.to)
    /\ d.msg.type = "registered" /\ d.to \in Online =>
         Pending(job, sessions[d.to].net)

ListInv ==
  /\ Inv
  /\ OneAtATime /\ OutOnce /\ OutCurrent
  /\ \A c \in Clients : Told(c)

LEMMA ListInvInit == Init => ListInv
<1> SUFFICES ASSUME Init PROVE ListInv
  OBVIOUS
<1>1. Online = {}
  BY DEF Init, Online
<1>2. \A g \in Goroutines : ~Busy(g) /\ job[g].out = {}
  BY DEF Init, Busy, Idle
<1> QED
  BY <1>1, <1>2, InitInv
     DEF ListInv, OneAtATime, OutOnce, OutCurrent, Told, Followed, Goroutines

\* A step of one client leaves the server's part as it is, and what there is to
\* say of the others.
LEMMA OneClientKeeps ==
  ASSUME ListInv, Inv', NEW c \in Clients, UNCHANGED <<sessions, job>>,
         \A d \in Clients \ {c} :
           /\ phase'[d] = phase[d] /\ at'[d] = at[d]
           /\ view'[d] = view[d] /\ down'[d] = down[d],
         Told(c)'
  PROVE  ListInv'
<1>1. Online' = Online /\ \A n, d : peerList(n, d)' = peerList(n, d)
  BY DEF Online, peerList
<1>2. OneAtATime' /\ OutOnce' /\ OutCurrent'
  BY <1>1
     DEF ListInv, OneAtATime, OutOnce, OutCurrent, Busy, Due, Pending
<1>3. ASSUME NEW d \in Clients \ {c}
      PROVE  Told(d)'
  <2>1. Told(d)
    BY DEF ListInv
  <2> QED
    BY <1>1, <1>3, <2>1
       DEF Told, Followed, Pending, ListRead, HasLatest, Due, NoList
<1> QED
  BY <1>2, <1>3 DEF ListInv

\* A client whose address is not that of its session, or that is off, is not
\* followed.
LEMMA LostToServer ==
  ASSUME ListInv, Inv', NEW c \in Clients, UNCHANGED <<sessions, job>>,
         \A d \in Clients \ {c} :
           /\ phase'[d] = phase[d] /\ at'[d] = at[d]
           /\ view'[d] = view[d] /\ down'[d] = down[d],
         phase'[c] = "off" \/ at'[c] = at[c] + 1
  PROVE  ListInv'
<1>1. Online' = Online
  BY DEF Online
<1>2. ~Followed(c)'
  <2>1. CASE phase'[c] = "off"
    BY <2>1 DEF Followed
  <2>2. CASE at'[c] = at[c] + 1
    <3>1. at[c] \in Nat
      BY DEF ListInv, Inv, TypeOK, Addresses
    <3>2. c \in Online => sessions[c].at <= at[c] /\ sessions[c].at \in Nat
      BY DEF ListInv, Inv, SessionsGood, TypeOK, Online, Session, Addresses
    <3> QED
      BY <1>1, <2>2, <3>1, <3>2 DEF Followed
  <2> QED
    BY <2>1, <2>2
<1> QED
  BY <1>2, OneClientKeeps DEF Told

\* A client takes the next datagram, or it is lost.
LEMMA TakenKeeps ==
  ASSUME ListInv, Inv', NEW c \in Clients, UNCHANGED <<sessions, job, at>>,
         \A d \in Clients \ {c} :
           /\ phase'[d] = phase[d]
           /\ view'[d] = view[d] /\ down'[d] = down[d],
         down[c] # << >>, down'[c] = Tail(down[c]),
         NEW msg, msg = Head(down[c]),
         \/ msg.type \notin {"registered", "peers"} /\ view'[c] = view[c]
         \/ msg.type = "registered" /\ view'[c] = view[c]
         \/ /\ msg.type \in {"registered", "peers"}
            /\ view'[c] = {p \in msg.peers : p[1] # c}
  PROVE  ListInv'
<1>1. Online' = Online /\ Due(c)' = Due(c)
  BY DEF Online, Due, peerList
<1>2. phase[c] # "off" /\ down[c] \in Seq(Answer)
  BY DEF ListInv, Inv, OffIsEmpty, TypeOK
<1> DEFINE q == down[c]
           r == down'[c]
<1>3. /\ Len(q) \in Nat \ {0} /\ Len(r) = Len(q) - 1 /\ q[1] = msg
      /\ \A j \in 1 .. Len(r) : r[j] = q[j + 1]
  BY <1>2
<1>4. ASSUME NEW i \in 1 .. Len(q), NoList(q, i + 1)
      PROVE  NoList(r, i)
  BY <1>3, <1>4 DEF NoList
<1> HIDE DEF q, r
<1>5. ASSUME HasLatest(c)
      PROVE  HasLatest(c)'
  <2>1. CASE view[c] = Due(c) /\ NoList(q, 1)
    <3>1. msg.type \notin {"registered", "peers"}
      BY <1>3, <2>1 DEF NoList
    <3>2. NoList(r, 1)
      BY <1>3, <2>1 DEF NoList
    <3>3. view'[c] = Due(c)
      BY <2>1, <3>1
    <3> QED
      BY <1>1, <3>2, <3>3 DEF HasLatest, r
  <2>2. CASE \E i \in 1 .. Len(q) : /\ q[i].type = "peers" /\ q[i].peers = Due(c)
                                   /\ NoList(q, i + 1)
    <3>1. PICK i \in 1 .. Len(q) : /\ q[i].type = "peers" /\ q[i].peers = Due(c)
                                   /\ NoList(q, i + 1)
      BY <2>2
    <3>2. CASE i = 1
      <4>1. view'[c] = {p \in Due(c) : p[1] # c}
        BY <1>3, <3>1, <3>2
      <4>2. view'[c] = Due(c)
        BY <4>1 DEF Due, peerList
      <4>3. NoList(r, 1)
        BY <1>4, <3>1, <3>2
      <4> QED
        BY <1>1, <4>2, <4>3 DEF HasLatest, r
    <3>3. CASE i # 1
      <4>1. i - 1 \in 1 .. Len(r) /\ r[i - 1] = q[i] /\ NoList(r, (i - 1) + 1)
        BY <1>3, <1>4, <3>1, <3>3
      <4> QED
        BY <1>1, <3>1, <4>1 DEF HasLatest, r
    <3> QED
      BY <3>2, <3>3
  <2> QED
    BY <1>5, <2>1, <2>2 DEF HasLatest, q
<1>6. CASE Pending(job, sessions[c].net) \/ ListRead(c)
  <2>1. Pending(job', sessions'[c].net) \/ ListRead(c)'
    BY <1>6 DEF Pending, ListRead
  <2> QED
    BY <2>1, OneClientKeeps DEF Told
<1>7. CASE ~Followed(c)
  <2>1. ~Followed(c)'
    BY <1>1, <1>2, <1>7 DEF Followed
  <2> QED
    BY <2>1, OneClientKeeps DEF Told
<1>8. CASE HasLatest(c)
  BY <1>5, <1>8, OneClientKeeps DEF Told
<1> QED
  BY <1>6, <1>7, <1>8 DEF ListInv, Told

\* Sessions change while nobody is busy, and the networks concerned are told.
LEMMA ChangesTold ==
  ASSUME ListInv, \A g \in Goroutines : ~Busy(g),
         UNCHANGED <<phase, at, view, down>>,
         \A e \in Clients : \/ sessions'[e] = sessions[e]
                            \/ /\ e \in Online => Pending(job', sessions[e].net)
                               /\ e \in Online' => Pending(job', sessions'[e].net)
  PROVE  \A c \in Clients : Told(c)'
<1> SUFFICES ASSUME NEW c \in Clients, Followed(c)', ~Pending(job', sessions'[c].net)
             PROVE  HasLatest(c)'
  BY DEF Told
<1>1. sessions'[c] = sessions[c]
  BY DEF Followed
<1>2. Followed(c)
  BY <1>1 DEF Followed, Online
<1>3. ~Pending(job, sessions[c].net) /\ ~ListRead(c)
  BY DEF Pending, ListRead, Busy, Idle
<1>4. HasLatest(c)
  BY <1>2, <1>3 DEF ListInv, Told
<1>5. Due(c)' = Due(c)
  <2>1. ASSUME NEW e \in Clients
        PROVE  /\ e \in Online /\ sessions[e].net = sessions[c].net
                    <=> e \in Online' /\ sessions'[e].net = sessions[c].net
               /\ e \in Online /\ sessions[e].net = sessions[c].net =>
                    sessions'[e] = sessions[e]
    <3>1. CASE sessions'[e] = sessions[e]
      BY <3>1 DEF Online
    <3>2. CASE sessions'[e] # sessions[e]
      BY <1>1, <3>2
    <3> QED
      BY <3>1, <3>2
  <2>2. Online \subseteq Clients /\ Online' \subseteq Clients
    BY DEF Online
  <2> QED
    BY <1>1, <2>1, <2>2 DEF Due, peerList
<1> QED
  BY <1>4, <1>5 DEF HasLatest

\* The reader has handled a datagram of c.
LEMMA ReaderKeeps ==
  ASSUME ListInv, Inv', \A g \in Goroutines : ~Busy(g),
         UNCHANGED <<phase, at, view, down>>,
         job'["sweep"] = job["sweep"],
         NEW c \in Clients, NEW a, NEW m,
         job'["reader"].out \subseteq Answering(c, a, m),
         m.type # "peers",
         m.type = "registered" => Pending(job', sessions'[c].net),
         \A e \in Clients : \/ sessions'[e] = sessions[e]
                            \/ /\ e \in Online => Pending(job', sessions[e].net)
                               /\ e \in Online' => Pending(job', sessions'[e].net)
  PROVE  ListInv'
<1>1. \A x \in Clients : Told(x)'
  BY ChangesTold
<1>2. OneAtATime' /\ job'["sweep"].out = {}
  BY DEF OneAtATime, Busy, Goroutines, Idle
<1>3. \A d \in job'["reader"].out : d.to = c /\ d.msg = m
                                    /\ d = [to |-> c, at |-> a, msg |-> m]
  BY DEF Answering
<1>4. OutOnce'
  BY <1>2, <1>3 DEF OutOnce, Goroutines
<1>5. OutCurrent'
  BY <1>2, <1>3 DEF OutCurrent, Goroutines
<1> QED
  BY <1>1, <1>2, <1>4, <1>5 DEF ListInv

\* What the reader has pushed is pending.
LEMMA ReaderPending ==
  ASSUME NEW n, NEW c, job'["reader"].push = {<<n, c>>}
  PROVE  Pending(job', n)
<1>1. <<n, c>> \in job'["reader"].push /\ <<n, c>>[1] = n
  OBVIOUS
<1> QED
  BY <1>1 DEF Pending, Goroutines

LEMMA HandleKeepsLists ==
  ASSUME Dependable, ListInv, Inv', NEW c \in Clients, Handle(c)
  PROVE  ListInv'
<1> DEFINE req == Head(up[c])
<1>1. /\ \A g \in Goroutines : ~Busy(g)
      /\ UNCHANGED <<phase, at, view, down>>
      /\ \/ req.type = "register" /\ HandleRegister(c, req)
         \/ req.type = "keepalive" /\ HandleKeepalive(c, req)
         \/ req.type = "bye" /\ HandleBye(c)
      /\ up[c] # << >>
  BY DEF Handle, Dependable, client, Goroutines
<1>2. req \in Requests(c)
  BY <1>1, Taken DEF ListInv, Inv, WireGood
<1> HIDE DEF req
<1>3. /\ job \in [Goroutines -> Job] /\ job["reader"] = Idle
      /\ sessions \in [Clients -> Session \cup {None}]
  BY <1>1 DEF Busy, Goroutines, ListInv, Inv, TypeOK
<1>4. CASE req.type = "register" /\ HandleRegister(c, req)
  <2>1. req.net = net[c] /\ req.net \in Networks
    BY <1>2, <1>4, RequestTypes DEF Requests, Dependable
  <2>2. c \in Online => sessions[c].net = req.net
    BY <2>1 DEF Dependable, ListInv, Inv, SessionsGood
  <2>3. CASE <<c, req.net>> \in Refused
    <3> DEFINE m == [type |-> "wrong password"]
    <3>1. /\ job' = [job EXCEPT !["reader"].out = Answering(c, req.at, m)]
          /\ UNCHANGED sessions
      BY <1>4, <2>3 DEF HandleRegister
    <3>2. job'["sweep"] = job["sweep"]
          /\ job'["reader"].out = Answering(c, req.at, m)
      BY <1>3, <3>1 DEF Goroutines, Job
    <3>3. m.type = "wrong password"
      OBVIOUS
    <3> HIDE DEF m
    <3> QED
      BY <1>1, <3>1, <3>2, <3>3, ReaderKeeps
  <2>4. CASE <<c, req.net>> \notin Refused
    <3> DEFINE m == [type |-> "registered", peers |-> peerList(req.net, c)]
               s == [net |-> req.net, at |-> req.at]
    <3>1. /\ job' = [job EXCEPT !["reader"] =
                [out |-> Answering(c, req.at, m), push |-> {<<req.net, c>>}]]
          /\ sessions' = [sessions EXCEPT ![c] = s]
      BY <1>4, <2>4 DEF HandleRegister
    <3>2. /\ job'["sweep"] = job["sweep"]
          /\ job'["reader"].out = Answering(c, req.at, m)
          /\ job'["reader"].push = {<<req.net, c>>}
      BY <1>3, <3>1 DEF Goroutines
    <3>3. Pending(job', req.net)
      BY <3>2, ReaderPending
    <3>4. /\ sessions'[c].net = req.net
          /\ \A e \in Clients : e # c => sessions'[e] = sessions[e]
      BY <1>3, <3>1
    <3>5. m.type = "registered"
      OBVIOUS
    <3> HIDE DEF m, s
    <3> QED
      BY <1>1, <2>2, <3>2, <3>3, <3>4, <3>5, ReaderKeeps
  <2> QED
    BY <2>3, <2>4
<1>5. CASE req.type = "keepalive" /\ HandleKeepalive(c, req)
  <2> DEFINE m == [type |-> "not registered"]
  <2>0. m.type = "not registered"
    OBVIOUS
  <2> HIDE DEF m
  <2>1. CASE sessions[c] = None
    <3>1. /\ job' = [job EXCEPT !["reader"].out = Answering(c, req.at, m)]
          /\ UNCHANGED sessions
      BY <1>5, <2>1 DEF HandleKeepalive, m
    <3>2. job'["sweep"] = job["sweep"]
          /\ job'["reader"].out = Answering(c, req.at, m)
      BY <1>3, <3>1 DEF Goroutines, Job
    <3> QED
      BY <1>1, <2>0, <3>1, <3>2, ReaderKeeps
  <2>2. CASE sessions[c] # None /\ sessions[c].at # req.at
    <3> DEFINE n == sessions[c].net
    <3>1. /\ job' = [job EXCEPT !["reader"].push = {<<n, c>>}]
          /\ sessions' = [sessions EXCEPT ![c].at = req.at]
      BY <1>5, <2>2 DEF HandleKeepalive
    <3>2. /\ job'["sweep"] = job["sweep"]
          /\ job'["reader"].out \subseteq Answering(c, req.at, m)
          /\ job'["reader"].push = {<<n, c>>}
      BY <1>3, <3>1 DEF Goroutines, Job, Idle
    <3>3. Pending(job', n)
      BY <3>2, ReaderPending
    <3>4. /\ sessions'[c].net = n
          /\ \A e \in Clients : e # c => sessions'[e] = sessions[e]
      BY <1>3, <2>2, <3>1 DEF Session
    <3> QED
      BY <1>1, <2>0, <3>2, <3>3, <3>4, ReaderKeeps
  <2>3. CASE sessions[c] # None /\ sessions[c].at = req.at
    <3>1. UNCHANGED <<sessions, job>>
      BY <1>5, <2>3 DEF HandleKeepalive
    <3>2. job'["reader"].out = {}
      BY <1>3, <3>1 DEF Idle
    <3>3. job'["reader"].out \subseteq Answering(c, req.at, m)
      BY <3>2
    <3> QED
      BY <1>1, <2>0, <3>1, <3>3, ReaderKeeps
  <2> QED
    BY <2>1, <2>2, <2>3
<1>6. CASE req.type = "bye" /\ HandleBye(c)
  <2> DEFINE m == [type |-> "not registered"]
             n == sessions[c].net
  <2>0. m.type = "not registered"
    OBVIOUS
  <2> HIDE DEF m
  <2>1. CASE sessions[c] = None
    <3>1. UNCHANGED <<sessions, job>>
      BY <1>6, <2>1 DEF HandleBye
    <3>2. job'["reader"].out = {}
      BY <1>3, <3>1 DEF Idle
    <3>3. job'["reader"].out \subseteq Answering(c, req.at, m)
      BY <3>2
    <3> QED
      BY <1>1, <2>0, <3>1, <3>3, ReaderKeeps
  <2>2. CASE sessions[c] # None
    <3>1. /\ job' = [job EXCEPT !["reader"].push = {<<n, c>>}]
          /\ sessions' = [sessions EXCEPT ![c] = None]
      BY <1>6, <2>2 DEF HandleBye
    <3>2. /\ job'["sweep"] = job["sweep"]
          /\ job'["reader"].out \subseteq Answering(c, req.at, m)
          /\ job'["reader"].push = {<<n, c>>}
      BY <1>3, <3>1 DEF Goroutines, Job, Idle
    <3>3. Pending(job', n)
      BY <3>2, ReaderPending
    <3>4. /\ c \notin Online'
          /\ \A e \in Clients : e # c => sessions'[e] = sessions[e]
      BY <1>3, <3>1 DEF Online
    <3> QED
      BY <1>1, <2>0, <3>2, <3>3, <3>4, ReaderKeeps
  <2> QED
    BY <2>1, <2>2
<1> QED
  BY <1>1, <1>4, <1>5, <1>6

LEMMA SweepKeepsLists ==
  ASSUME Dependable, ListInv, Inv', Sweep
  PROVE  ListInv'
<1>1. /\ \A g \in Goroutines : ~Busy(g)
      /\ UNCHANGED <<phase, at, view, down>>
      /\ sessions' = [c \in Clients |-> IF c \in silent THEN None ELSE sessions[c]]
  BY DEF Sweep, Dependable, client, wire, Goroutines
<1>2. /\ job' = [job EXCEPT !["sweep"].push =
                   {<<sessions[c].net, c>> : c \in silent}]
      /\ job \in [Goroutines -> Job]
      /\ \A g \in Goroutines : job[g] = Idle
  BY <1>1 DEF Sweep, Busy, ListInv, Inv, TypeOK
<1>3. /\ job'["reader"] = Idle /\ job'["sweep"].out = {}
      /\ job'["sweep"].push = {<<sessions[c].net, c>> : c \in silent}
  BY <1>2 DEF Goroutines, Job, Idle
<1>4. ASSUME NEW e \in silent
      PROVE  Pending(job', sessions[e].net)
  <2>1. /\ <<sessions[e].net, e>> \in job'["sweep"].push
        /\ <<sessions[e].net, e>>[1] = sessions[e].net
    BY <1>3, <1>4
  <2> QED
    BY <2>1 DEF Pending, Goroutines
<1>5. \A e \in Clients : \/ sessions'[e] = sessions[e]
                         \/ /\ e \in Online => Pending(job', sessions[e].net)
                            /\ e \notin Online'
  BY <1>1, <1>4 DEF Online
<1>6. \A c \in Clients : Told(c)'
  BY <1>1, <1>5, ChangesTold
<1>7. OneAtATime' /\ OutOnce' /\ OutCurrent'
  BY <1>3 DEF OneAtATime, OutOnce, OutCurrent, Busy, Idle, Goroutines
<1> QED
  BY <1>6, <1>7 DEF ListInv

\* Without sessions nobody is followed.
LEMMA RestartKeepsLists ==
  ASSUME ListInv, Inv', Restart
  PROVE  ListInv'
<1>1. Online' = {}
  BY DEF Restart, Online
<1>2. \A g \in Goroutines : job'[g] = Idle /\ job'[g].out = {}
  BY DEF Restart, Idle
<1> QED
  BY <1>1, <1>2
     DEF ListInv, OneAtATime, OutOnce, OutCurrent, Busy, Told, Followed, Goroutines

\* While a goroutine is busy, the other is not.
LEMMA OthersIdle ==
  ASSUME ListInv, NEW g \in Goroutines, Busy(g)
  PROVE  \A h \in Goroutines : h # g => job[h] = Idle
BY DEF ListInv, OneAtATime, Busy

LEMMA SnapshotKeepsLists ==
  ASSUME ListInv, Inv', NEW g \in Goroutines, PushSnapshot(g)
  PROVE  ListInv'
<1>1. /\ job[g].out = {} /\ UNCHANGED <<phase, at, view, down, sessions>>
      /\ job \in [Goroutines -> Job]
  BY DEF PushSnapshot, client, wire, ListInv, Inv, TypeOK
<1> DEFINE told(d, p) ==
      [to |-> p, at |-> sessions[p].at,
       msg |-> [type |-> "peers", peers |-> peerList(d[1], p)]]
<1>2. PICK due \in job[g].push :
        job' = [job EXCEPT ![g] =
                  [out |-> {told(due, p) : p \in members(due[1], due[2])},
                   push |-> @.push \ {due}]]
  BY DEF PushSnapshot
<1>3. /\ job'[g].out = {told(due, p) : p \in members(due[1], due[2])}
      /\ job'[g].push = job[g].push \ {due}
      /\ \A h \in Goroutines : h # g => job'[h] = job[h]
  BY <1>1, <1>2
<1>4. \A h \in Goroutines : h # g => job[h] = Idle
  <2>1. Busy(g)
    BY <1>2 DEF Busy, Idle
  <2> QED
    BY <2>1, OthersIdle
<1>5. Online' = Online /\ \A c \in Clients : Due(c)' = Due(c)
  BY <1>1 DEF Online, Due, peerList
<1>6. ASSUME NEW p \in members(due[1], due[2])
      PROVE  /\ told(due, p).to = p /\ told(due, p).at = sessions[p].at
             /\ told(due, p).msg.type = "peers"
             /\ told(due, p).msg.peers = Due(p) /\ p \in Online
  BY <1>6 DEF members, Due
<1> HIDE DEF told
<1>7. OneAtATime'
  BY <1>3, <1>4 DEF OneAtATime, Busy
<1>8. OutOnce'
  BY <1>3, <1>4, <1>6 DEF OutOnce, Idle
<1>9. OutCurrent'
  BY <1>3, <1>4, <1>5, <1>6 DEF OutCurrent, Idle, Online
<1>10. ASSUME NEW c \in Clients, Followed(c)'
       PROVE  Pending(job', sessions[c].net) \/ ListRead(c)' \/ HasLatest(c)'
  <2>1. Followed(c)
    BY <1>1, <1>5, <1>10 DEF Followed
  <2>2. CASE sessions[c].net = due[1]
    <3>1. c \in members(due[1], due[2])
      BY <2>1, <2>2 DEF members, Followed
    <3>2. told(due, c) \in job'[g].out
      BY <1>3, <3>1
    <3> QED
      BY <1>1, <1>6, <2>1, <3>1, <3>2 DEF ListRead, Followed
  <2>3. CASE sessions[c].net # due[1]
    <3>1. ~ListRead(c)
      BY <1>1, <1>4 DEF ListRead, Idle
    <3>2. CASE Pending(job, sessions[c].net)
      BY <1>3, <2>3, <3>2 DEF Pending
    <3>3. CASE HasLatest(c)
      BY <1>1, <1>5, <3>3 DEF HasLatest
    <3> QED
      BY <2>1, <3>1, <3>2, <3>3 DEF ListInv, Told
  <2> QED
    BY <2>2, <2>3
<1> QED
  BY <1>1, <1>7, <1>8, <1>9, <1>10 DEF ListInv, Told

LEMMA SendKeepsLists ==
  ASSUME ListInv, Inv', NEW g \in Goroutines, Send(g)
  PROVE  ListInv'
<1> DEFINE heard == {d \in job[g].out : phase[d.to] # "off" /\ at[d.to] = d.at}
           msg(c) == (CHOOSE d \in heard : d.to = c).msg
<1>1. /\ job[g].out # {} /\ UNCHANGED <<phase, at, view, sessions>>
      /\ job \in [Goroutines -> Job]
      /\ job' = [job EXCEPT ![g].out = {}]
      /\ down' = [c \in Clients |->
           IF \E d \in heard : d.to = c THEN Append(down[c], msg(c))
           ELSE down[c]]
  BY DEF Send, client, ListInv, Inv, TypeOK
<1>2. ASSUME NEW c \in Clients, NEW d \in heard, d.to = c
      PROVE  down'[c] = Append(down[c], d.msg)
  <2>1. \A e \in heard : e.to = c => e = d
    BY <1>2 DEF ListInv, OutOnce
  <2>2. (CHOOSE e \in heard : e.to = c) = d
    BY <1>2, <2>1
  <2> QED
    BY <1>1, <1>2, <2>2
<1>3. ASSUME NEW c \in Clients, \A d \in heard : d.to # c
      PROVE  down'[c] = down[c]
  BY <1>1, <1>3
<1>4. /\ job'[g].out = {} /\ job'[g].push = job[g].push
      /\ \A h \in Goroutines : h # g => job'[h] = job[h] /\ job[h] = Idle
  <2>1. Busy(g)
    BY <1>1 DEF Busy, Idle
  <2> QED
    BY <1>1, <2>1, OthersIdle DEF Job
<1>5. Online' = Online /\ \A c \in Clients : Due(c)' = Due(c)
  BY <1>1 DEF Online, Due, peerList
<1>6. OneAtATime' /\ OutOnce' /\ OutCurrent'
  BY <1>4 DEF OneAtATime, OutOnce, OutCurrent, Busy, Idle
<1>7. ASSUME NEW c \in Clients, Followed(c)'
      PROVE  Pending(job', sessions[c].net) \/ HasLatest(c)'
  <2>1. Followed(c)
    BY <1>1, <1>5, <1>7 DEF Followed
  <2>2. down[c] \in Seq(Answer)
    BY DEF ListInv, Inv, TypeOK
  <2>3. CASE Pending(job, sessions[c].net)
    BY <1>4, <2>3 DEF Pending
  <2>4. CASE ListRead(c)
    <3>1. PICK d \in job[g].out : d.to = c /\ d.at = at[c] /\ d.msg.type = "peers"
      BY <1>4, <2>4 DEF ListRead, Idle
    <3>2. d \in heard
      BY <2>1, <3>1 DEF Followed
    <3>3. down'[c] = Append(down[c], d.msg) /\ d.msg.peers = Due(c)
      BY <1>2, <3>1, <3>2 DEF ListInv, OutCurrent
    <3> DEFINE i == Len(down[c]) + 1
    <3>4. /\ i \in 1 .. Len(down'[c]) /\ down'[c][i] = d.msg
          /\ Len(down'[c]) = i /\ i \in Nat
      BY <2>2, <3>3
    <3>5. NoList(down'[c], i + 1)
      BY <3>4 DEF NoList
    <3> HIDE DEF i
    <3> QED
      BY <1>5, <3>1, <3>3, <3>4, <3>5 DEF HasLatest
  <2>5. CASE /\ HasLatest(c) /\ ~ListRead(c) /\ ~Pending(job, sessions[c].net)
    <3>1. CASE \A d \in heard : d.to # c
      BY <1>1, <1>3, <1>5, <2>5, <3>1 DEF HasLatest
    <3>2. CASE \E d \in heard : d.to = c
      <4>1. PICK d \in heard : d.to = c
        BY <3>2
      <4>2. d.msg.type \notin {"registered", "peers"}
        <5>1. d.msg.type # "peers"
          BY <2>5, <4>1 DEF ListRead
        <5>2. d.msg.type # "registered"
          BY <2>1, <2>5, <4>1 DEF ListInv, OutCurrent, Followed
        <5> QED
          BY <5>1, <5>2
      <4>3. /\ Len(down'[c]) = Len(down[c]) + 1 /\ Len(down[c]) \in Nat
            /\ \A j \in 1 .. Len(down[c]) : down'[c][j] = down[c][j]
            /\ down'[c][Len(down[c]) + 1] = d.msg
        BY <1>2, <2>2, <4>1
      <4>4. ASSUME NEW k \in Nat \ {0}, NoList(down[c], k)
            PROVE  NoList(down'[c], k)
        BY <4>2, <4>3, <4>4 DEF NoList
      <4>5. CASE view[c] = Due(c) /\ NoList(down[c], 1)
        <5>1. 1 \in Nat \ {0}
          OBVIOUS
        <5>2. NoList(down'[c], 1)
          BY <4>4, <4>5, <5>1
        <5>3. view' = view
          BY <1>1
        <5>4. view'[c] = Due(c)'
          BY <1>5, <4>5, <5>3
        <5>5. HasLatest(c)'
          BY <5>2, <5>4 DEF HasLatest
        <5> QED
          BY <5>5
      <4>6. CASE \E i \in 1 .. Len(down[c]) :
                   /\ down[c][i].type = "peers" /\ down[c][i].peers = Due(c)
                   /\ NoList(down[c], i + 1)
        <5>1. PICK i \in 1 .. Len(down[c]) :
                   /\ down[c][i].type = "peers" /\ down[c][i].peers = Due(c)
                   /\ NoList(down[c], i + 1)
          BY <4>6
        <5>2. i + 1 \in Nat \ {0} /\ i \in 1 .. Len(down'[c])
          BY <4>3
        <5>3. NoList(down'[c], i + 1) /\ down'[c][i] = down[c][i]
          BY <4>3, <4>4, <5>1, <5>2
        <5>4. down'[c][i].type = "peers" /\ down'[c][i].peers = Due(c)'
          BY <1>5, <5>1, <5>3
        <5>5. HasLatest(c)'
          BY <5>2, <5>3, <5>4 DEF HasLatest
        <5> QED
          BY <5>5
      <4> QED
        BY <2>5, <4>5, <4>6 DEF HasLatest
    <3> QED
      BY <3>1, <3>2
  <2> QED
    BY <2>1, <2>3, <2>4, <2>5 DEF ListInv, Told
<1> QED
  BY <1>1, <1>6, <1>7 DEF ListInv, Told

\* What the sessions say and what the clients have been told stays as it is.
LEMMA NothingKeeps ==
  ASSUME ListInv, Inv', UNCHANGED <<phase, at, view, down, sessions, job>>
  PROVE  ListInv'
<1>1. Online' = Online /\ \A c : Due(c)' = Due(c)
  BY DEF Online, Due, peerList
<1>2. OneAtATime' /\ OutOnce' /\ OutCurrent'
  BY <1>1 DEF ListInv, OneAtATime, OutOnce, OutCurrent, Busy, Pending
<1>3. ASSUME NEW c \in Clients
      PROVE  Told(c)'
  <2>1. Told(c)
    BY DEF ListInv
  <2> QED
    BY <1>1, <2>1 DEF Told, Followed, Pending, ListRead, HasLatest, NoList
<1> QED
  BY <1>2, <1>3 DEF ListInv

\* The process of c ends.
LEMMA GoneKeeps ==
  ASSUME ListInv, Inv', NEW c \in Clients, Gone(c), UNCHANGED <<sessions, job>>
  PROVE  ListInv'
<1>1. \A d \in Clients \ {c} :
        /\ phase'[d] = phase[d] /\ at'[d] = at[d]
        /\ view'[d] = view[d] /\ down'[d] = down[d]
  BY DEF Gone, ListInv, Inv, TypeOK
<1>2. phase'[c] = "off"
  BY DEF Gone, ListInv, Inv, TypeOK
<1> QED
  BY <1>1, <1>2, LostToServer

\* Its address changes.
LEMMA MovedKeeps ==
  ASSUME ListInv, Inv', NEW c \in Clients, UNCHANGED <<sessions, job, view>>,
         at' = [at EXCEPT ![c] = @ + 1],
         \/ phase' = phase
         \/ phase' = [phase EXCEPT ![c] = "joining"],
         \/ down' = down
         \/ down' = [down EXCEPT ![c] = << >>]
  PROVE  ListInv'
<1>1. \A d \in Clients \ {c} :
        /\ phase'[d] = phase[d] /\ at'[d] = at[d]
        /\ view'[d] = view[d] /\ down'[d] = down[d]
  BY DEF ListInv, Inv, TypeOK
<1>2. at'[c] = at[c] + 1
  BY DEF ListInv, Inv, TypeOK
<1> QED
  BY <1>1, <1>2, LostToServer

LEMMA ReceiveKeepsLists ==
  ASSUME ListInv, Inv', NEW c \in Clients,
         ReceiveList(c) \/ ReceiveNotRegistered(c)
  PROVE  ListInv'
<1> DEFINE msg == Head(down[c])
<1>1. /\ down[c] # << >> /\ down' = [down EXCEPT ![c] = Tail(@)]
      /\ UNCHANGED <<sessions, job, at>>
  BY DEF ReceiveList, ReceiveNotRegistered, Received, server, client
<1>2. /\ down'[c] = Tail(down[c])
      /\ \A d \in Clients \ {c} : down'[d] = down[d]
  BY <1>1 DEF ListInv, Inv, TypeOK
<1>3. CASE ReceiveList(c)
  <2>1. /\ msg.type \in {"registered", "peers"}
        /\ view' = [view EXCEPT ![c] = {p \in msg.peers : p[1] # c}]
        /\ phase' = IF msg.type = "registered"
                      THEN [phase EXCEPT ![c] = "on"] ELSE phase
    BY <1>3 DEF ReceiveList
  <2>2. /\ view'[c] = {p \in msg.peers : p[1] # c}
        /\ \A d \in Clients \ {c} : phase'[d] = phase[d] /\ view'[d] = view[d]
    BY <2>1 DEF ListInv, Inv, TypeOK
  <2> HIDE DEF msg
  <2> QED
    BY <1>1, <1>2, <2>1, <2>2, TakenKeeps DEF msg
<1>4. CASE ReceiveNotRegistered(c)
  <2>1. msg.type = "not registered" /\ UNCHANGED <<phase, view>>
    BY <1>4 DEF ReceiveNotRegistered, client
  <2> QED
    BY <1>1, <1>2, <2>1, TakenKeeps
<1> QED
  BY <1>3, <1>4

\* The network may lose what is not a list.
LEMMA LoseKeepsLists ==
  ASSUME Dependable, ListInv, Inv', NEW c \in Clients, Lose(c)
  PROVE  ListInv'
<1>1. UNCHANGED <<phase, at, view, sessions, job>>
  BY DEF Lose, client, server
<1>2. CASE UNCHANGED down
  BY <1>1, <1>2, NothingKeeps
<1>3. CASE /\ down[c] # << >> /\ Head(down[c]).type # "peers"
           /\ down' = [down EXCEPT ![c] = Tail(@)]
  <2>1. /\ down'[c] = Tail(down[c])
        /\ \A d \in Clients \ {c} : down'[d] = down[d]
    BY <1>3 DEF ListInv, Inv, TypeOK
  <2> DEFINE msg == Head(down[c])
  <2>2. \/ msg.type \notin {"registered", "peers"}
        \/ msg.type = "registered"
    BY <1>3
  <2> QED
    BY <1>1, <1>3, <2>1, <2>2, TakenKeeps
<1> QED
  BY <1>2, <1>3 DEF Lose, Fault, Dependable

LEMMA ListStep ==
  ASSUME Dependable, ListInv, [Next]_vars
  PROVE  ListInv'
<1>1. Inv'
  BY StepInv DEF ListInv
<1>2. ASSUME NEW c \in Clients, NEW n \in Networks, Start(c, n)
      PROVE  ListInv'
  BY <1>1, <1>2, MovedKeeps DEF Start, server
<1>3. ASSUME NEW c \in Clients,
             GiveUp(c) \/ Close(c) \/ Crash(c) \/ ReceiveRefusal(c)
      PROVE  ListInv'
  BY <1>1, <1>3, GoneKeeps DEF GiveUp, Close, Crash, ReceiveRefusal, server
<1>4. ASSUME NEW c \in Clients, Roam(c)
      PROVE  ListInv'
  BY <1>1, <1>4, MovedKeeps DEF Roam, server
<1>5. ASSUME NEW c \in Clients, SendKeepalive(c) \/ Overtake(c) \/ Age(c)
      PROVE  ListInv'
  BY <1>1, <1>5, NothingKeeps
     DEF SendKeepalive, Overtake, Age, client, server, wire
<1>6. ASSUME NEW c \in Clients,
             ReceiveList(c) \/ ReceiveNotRegistered(c) \/ Handle(c) \/ Lose(c)
      PROVE  ListInv'
  BY <1>1, <1>6, ReceiveKeepsLists, HandleKeepsLists, LoseKeepsLists
<1>7. ASSUME NEW g \in Goroutines, PushSnapshot(g) \/ Send(g)
      PROVE  ListInv'
  BY <1>1, <1>7, SnapshotKeepsLists, SendKeepsLists
<1>8. CASE Sweep \/ Restart
  BY <1>1, <1>8, SweepKeepsLists, RestartKeepsLists
<1>9. CASE UNCHANGED vars
  BY <1>1, <1>9, NothingKeeps DEF vars
<1> QED
  BY <1>2, <1>3, <1>4, <1>5, <1>6, <1>7, <1>8, <1>9 DEF Next, Receive

\* With nothing to send, nothing is pending or read.
LEMMA NothingToSay ==
  ASSUME \A g \in Goroutines : ~Busy(g)
  PROVE  \A n, c : ~Pending(job, n) /\ ~ListRead(c)
BY DEF Busy, Idle, Pending, ListRead

LEMMA ListsAreCurrent ==
  ASSUME ListInv
  PROVE  ViewsCurrent
<1> SUFFICES ASSUME AtRest, NEW c \in Online, phase[c] = "on",
                    at[c] = sessions[c].at
             PROVE  view[c] = Due(c)
  BY DEF ViewsCurrent, Due
<1>1. c \in Clients
  BY DEF Online
<1>2. Told(c) /\ Followed(c)
  BY <1>1 DEF ListInv, Followed
<1>3. down[c] = << >> /\ \A g \in Goroutines : ~Busy(g)
  BY <1>1, Zenon DEF AtRest
<1>4. HasLatest(c)
  BY <1>2, <1>3, NothingToSay, Zenon DEF Told
<1>5. Len(down[c]) = 0
  BY <1>3
<1> QED
  BY <1>4, <1>5 DEF HasLatest

\* When one goroutine of the server has sent what it read before the other
\* begins, users are careful and lists arrive, then whatever else is lost,
\* repeated or overtaken, whoever is killed, moves or is forgotten: with nothing
\* left to send, every client that runs where its session says has the table
\* pushPeerList would give it now.  handleRegister, handleKeepalive, handleBye
\* and sweep announce every change, and no list that was read earlier arrives
\* later.
THEOREM ViewsStayCurrent ==
  ASSUME Careful, Atomic, "lose list" \notin Faults
  PROVE  Spec => []ViewsCurrent
<1>1. Dependable
  BY DEF Dependable
<1>2. ListInv => ViewsCurrent
  BY ListsAreCurrent
<1>3. ListInv /\ [Next]_vars => ListInv'
  BY <1>1, ListStep
<1> QED
  BY <1>2, <1>3, ListInvInit, PTL DEF Spec
=============================================================================
