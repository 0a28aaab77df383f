------------------------------- MODULE Engine -------------------------------
(***************************************************************************)
(* The life of a Client (internal/client): Run opens a socket, registers,  *)
(* waits for an address, opens the interface and serves until Close, which *)
(* anybody may call at any time and more than once.  Several goroutines    *)
(* have a part in it:                                                      *)
(*   Run          goes through the stages below and returns nil or an error*)
(*   readSocket   takes the coordinator's answers, lists and refusals      *)
(*   readDevice   closes the client when the interface fails               *)
(* and the program that made the client reads its Status meanwhile.        *)
(*                                                                         *)
(* What the peers are to each other is in the other modules; here they are *)
(* the addresses Status shows.  The coordinator answers or does not.       *)
(***************************************************************************)
EXTENDS Integers, FiniteSets

CONSTANTS
  Engines,     \* the clients a program may make, one after the other
  Peers,       \* addresses of other devices, ordered as the programs sort them
  MaxChanges   \* how often a peer list brings something new

ASSUME EngineAssumption ==
  /\ IsFiniteSet(Engines)
  /\ Peers \subseteq Nat /\ IsFiniteSet(Peers)
  /\ MaxChanges \in Nat

VARIABLES
  engines,  \* the state of each client
  changes   \* how many lists have brought something new

engineVars == <<engines, changes>>

\* none: not made; new: not running yet; ended: Run has returned; gone: what
\* called Run has taken notice.
Stage  == {"none", "new", "waiting", "opening", "serving", "ended", "gone"}
Status == [vip : BOOLEAN, peers : SUBSET Peers]
Client == [stage : Stage, accepted : BOOLEAN, closing : BOOLEAN,
           failed : BOOLEAN, status : Status]

NoStatus == [vip |-> FALSE, peers |-> {}]
NoClient == [stage |-> "none", accepted |-> FALSE, closing |-> FALSE,
             failed |-> FALSE, status |-> NoStatus]
NoClients == [e \in Engines |-> NoClient]

EngineTypeOK ==
  /\ engines \in [Engines -> Client]
  /\ changes \in 0 .. MaxChanges

EngineInit == engines = NoClients /\ changes = 0

At(e, s) == engines[e].stage = s

\* Run has not returned.
Running(e) == engines[e].stage \notin {"none", "ended", "gone"}

-----------------------------------------------------------------------------
\* New: the coordinator will accept the password, or refuse it.
New(e, accepted) ==
  /\ At(e, "none")
  /\ engines' = [engines EXCEPT ![e].stage = "new", ![e].accepted = accepted]
  /\ UNCHANGED changes

\* Close, by whoever: the second time it does nothing.
Closed(e) == [engines EXCEPT ![e].closing = TRUE]

\* Run returns.
Returned(e, failed) ==
  [engines EXCEPT ![e].stage = "ended", ![e].failed = failed]

\* Run: the socket, and the registration, either of which may fail.
Register(e) ==
  /\ At(e, "new")
  /\ \/ engines' = [engines EXCEPT ![e].stage = "waiting"]
     \/ engines' = Returned(e, TRUE)
  /\ UNCHANGED changes

\* The select in Run: an address, 15 seconds without, or Close.  With several
\* of them it takes any.
StopWaiting(e) ==
  /\ At(e, "waiting")
  /\ \/ /\ engines[e].status.vip
        /\ engines' = [engines EXCEPT ![e].stage = "opening"]
     \/ engines' = Returned(e, TRUE)
     \/ /\ engines[e].closing
        /\ engines' = Returned(e, FALSE)
  /\ UNCHANGED changes

\* device.Open, which takes its time; Close is not looked at before it is done.
OpenDevice(e) ==
  /\ At(e, "opening")
  /\ \/ engines' = [engines EXCEPT ![e].stage = "serving"]
     \/ engines' = Returned(e, TRUE)
  /\ UNCHANGED changes

\* The end of Run: a Bye, no error.
Leave(e) ==
  /\ At(e, "serving")
  /\ engines[e].closing
  /\ engines' = Returned(e, FALSE)
  /\ UNCHANGED changes

\* Run's own steps.
Run(e) == Register(e) \/ StopWaiting(e) \/ OpenDevice(e) \/ Leave(e)

-----------------------------------------------------------------------------
\* readSocket runs while the socket is open.
Reads(e) == engines[e].stage \in {"waiting", "opening", "serving"}

\* handleRegistered for the first time.  Who is online is merged after it.
Registered(e) ==
  /\ Reads(e)
  /\ engines[e].accepted /\ ~engines[e].status.vip
  /\ engines' = [engines EXCEPT ![e].status.vip = TRUE]
  /\ UNCHANGED changes

\* mergePeers: somebody has come or gone.
MergePeers(e, peers) ==
  /\ Reads(e)
  /\ engines[e].status.vip
  /\ peers # engines[e].status.peers
  /\ changes < MaxChanges
  /\ changes' = changes + 1
  /\ engines' = [engines EXCEPT ![e].status.peers = peers]

\* handleServerError: the coordinator refuses the password.
Refused(e) ==
  /\ Reads(e)
  /\ ~engines[e].accepted
  /\ engines' = Closed(e)
  /\ UNCHANGED changes

\* readDevice: the interface cannot be read any more.
DeviceFails(e) ==
  /\ At(e, "serving")
  /\ engines' = Closed(e)
  /\ UNCHANGED changes

\* What comes from outside.
Outside(e) ==
  \/ Registered(e)
  \/ \E peers \in SUBSET Peers : MergePeers(e, peers)
  \/ Refused(e)
  \/ DeviceFails(e)
=============================================================================
