# Models of P2PV

P2PV gives friends a virtual LAN: a coordinator (`internal/server`) hands out
virtual addresses and tells the members of a network about each other, and the
clients (`internal/client`) carry IP packets between them, directly where a
NAT lets them and through the coordinator otherwise, in Noise sessions
(`internal/session`). This directory holds TLA+ models of the parts of it that
are hard to test, the TLC configurations that check them and TLAPS proofs of
what holds for every size. Paths below are relative to the repository.

Run a configuration with `tlc -config MCRegistry.cfg MCRegistry`, check the
proofs of a module with `tlapm RegistryProofs.tla`.

## The system

| Component | State | Operations | What is hard | What makes it correct |
|---|---|---|---|---|
| Session transport (`session.go`) | send counter; `highest`, `seen`, `anyRecvd` | `Seal`, `Open` | any order, repetition and damage of packets; the edge of the bitmap | nothing delivered twice, nothing shut out by a packet nobody sent |
| Session establishment (`client.go`) | per peer `sess`, `handshake`, `lastHello` | `startConnect`, `startHandshake`, `handleHandshake`, retries of `maintainPeers`, `wake` | three goroutines, each unlocking between reading and writing; UDP; restarts | no glare; a handshake finished once; both ends use the same session; in the end there is one |
| Coordinator registry (`server.go`) | `sessions` with endpoint, network, `lastSeen` | `handleRegister`, `handleKeepalive`, `handleBye`, `sweep`, `pushPeerList` | two goroutines that read under the lock and send without; lists that are sent once; clients that move, die, come back | every member has the current list; nobody is listed where it may not be |
| Coordinator state (`server.go`) | `networks`, `stateDirty`, the state file | `deviceFor`, `allocateIPLocked`, `flushState`, `loadState` | saves that overlap; a crash between any two steps; failed writes | distinct addresses; the file can be read back; an address told is kept |
| Relay and punch broker (`server.go`) | none of its own | `handleRelay`, `handlePunchReq` | the sender is found by its endpoint | the right source is named |
| Peer table and routing (`client.go`) | `peers`, `byIP`, own address, the interface's address | `mergePeers`, `handleRegistered`, `routePacket`, `handleTransport`, `fanout` | lists that are lost or overtake each other, merged entry by entry; addresses that change hands | nothing is sent to who would not be believed; a listed peer can be routed to |
| Paths (`client.go`) | `directPath`, `lastAck`, `lastPunch`, `punchRounds` | `punch`, acks, timers of `maintainPeers`, `sendToPeer` | a late ack against a deadline; a path cleared by who read it before | a dead path is left, a live one is found again |
| Client life cycle (`client.go`) | `virtualIP`, `closing`, `dev`, `Status` | `New`, `Run`, `Close`, `Status`, `readSocket`, `readDevice` | the order in which goroutines start and stop; a Close at any moment | one end, with a Bye if there was a connection |
| Local store (`store.go`) | identity and saved networks on disk | `LoadOrCreateIdentity`, `SaveNetwork`, `ForgetNetwork` | a crash or an error between two steps of a write | one identity; no entry changed that nobody asked for |
| Command line programs (`cmd/`) | arguments | `join`, `forget`, `id`, the tray's and the window's main | what is saved before what has succeeded | a Bye is said before they end |
| Tray (`internal/tray`) | client, widgets, tracked addresses, failure | `watch`, the engine goroutine, `render`, Quit | two goroutines draw the same widgets without a lock | a failure stays visible; a click copies what the row shows |
| Window (`internal/gui`) | client, `connected`, rows, queue of the UI thread | connect, disconnect, `refreshLoop`, `finishDisconnect` | a status drawn after the connection it describes; clicks while the old client ends | one client at a time; the window shows the present connection |

They interact by datagrams (client and coordinator, client and client, the
latter also relayed), by lock-protected maps inside a process, and by the two
kinds of files. `PROJECT.json` lists, line by line, what can go wrong and
which property watches it.

## Modules

| Module | Models | State and actions |
|---|---|---|
| `ReplayGuard` | what a receiver promises, abstractly | the set of accepted counters; deliver or refuse, with the reason |
| `ReplayWindow` | one direction of a `Session` | the fields of `Session`, `delivered` and the last verdict; `Seal`, and `Open` as `OpenRefused`, `OpenDamaged`, `OpenAuthentic` |
| `Handshake` | session establishment between clients | one record or table per field of `peer`; an action per lock section: `MergePeers`, `MaintainPeers`, `Wake`, `StartHandshake`, `ReceiveInit`, `ReceiveReply`, `FinishHandshake`; `Restart`, `Elapse`, `Lose` for the world |
| `Registry` | the coordinator's sessions and the clients that follow them | `sessions`, `silent` (older than `peerTimeout`), `job` (what a goroutine has read and not sent); an action per handler and lock section on the server, per event on the client |
| `StateFile` | what the coordinator remembers | the table of one network, the subnets of all, dirty flag, each `flushState` call's progress, files as inodes; `Register`, `RegisterElsewhere` (another network takes a subnet), `Sweep`, the four steps of a flush, `Crash`, `loadState` |
| `Routing` | one client's peers and routes, on top of `StateFile` | `peers`, `byIP`, `virtualIP`, the address of the interface, lists on their way; `Receive`, then a lock section per entry (`MergeEntry`) and one for who is gone (`DropGone`); `RegisterDevice` and `CrashServer` are steps of `StateFile` that also send lists |
| `Paths` | the direct path between two clients | the path fields of `peer`, each client's NAT binding, datagrams under way; the timers in rounds of `maintainTick`: `Tick` decides and `Act` does, as in `maintainPeers`; probes, acks, invitations, `sendToPeer` in its two lock sections; outages, losses, late datagrams and moves for the world |
| `Store` | what the programs of a user keep on disk, and when | the two files and the temporary one; the running program and its next steps, every system call of a write being one (`CreateIdentity`, `FillIdentity`, `OpenTmp`, `WriteTmp`, `Rename`) |
| `Engine` | the life of a `Client` | its stage in `Run`, `closing`, what `Status` would say; `Register`, `StopWaiting`, `OpenDevice`, `Leave`, and what comes from outside |
| `Tray` | the menu and who draws it | each widget and tracked address; per goroutine the status it has taken and the widgets still to be set (`Call`, `Look`, `Draw`) |
| `Window` | the window and the queue of its UI thread | `connected`, `engine`, `queue`, what `refreshLoop` holds; `Take`, `Ask`, `QueueRender`, `QueueFinish`, `RunClosure` |
| `Desktop` | a user's programs, one at a time, composed of the four above | how each starts (`Start`), ends (`JoinReturns`, `TrayReturns`, `Quit`) and dies (`Crash`) |
| `ReplayWindowProofs`, `HandshakeProofs`, `RegistryProofs`, `StateFileProofs`, `RoutingProofs`, `PathsProofs`, `StoreProofs`, `DesktopProofs` | proofs | |
| `MCHandshake`, `MCRegistry`, `MCStateFile`, `MCRouting`, `MCDesktop` | constants, bounds and symmetry for TLC | |

Names of variables and actions are those of the Go code wherever there is one.
Definitions whose comment begins with "Mutant" are plausible mistakes; they
are used by no specification and only show that a property notices them.

Modelling decisions that matter:

- A session is named by the two ephemeral keys it was made from; keys are a
  small set of reusable values, never reused while anything remembers them.
- A lock section of the code is one step; between two of them anything may
  happen. What a goroutine carries from one to the next is state (`jobs` and
  `reading` in `Handshake`, `job` in `Registry`, `flush` in `StateFile`).
- Outside `Paths` time is not counted: a timer may fire whenever it is armed
  (`Elapse`, `Age`). In `Paths` it is, in ticks, and a comparison of a tick's
  time with one taken between two ticks may come out a tick lower (`Elapsed`).
  The constants `Prompt` in `Handshake` and `Atomic` in `Registry` state what
  the code silently relies on, that a step is over before the next timer or
  goroutine comes, so that what holds with it can be told from what holds
  without. `Careful` in `Registry` is the same for users: they change networks
  only when the coordinator has seen them leave. `Spaced` in `StateFile` says
  registrations do not overlap a save.
- Events from another module are the weakest thing the rest of the system may
  do: in `Routing` any list is sent, lost or overtaken (how sessions come and
  go is in `Registry`); in `Engine` the coordinator answers or does not, the
  interface opens or does not, at any time.
- What a user's program does before it connects is a list of stages that
  differ per program (`Stages`, `ConnectStages`): `join` saves the password
  before it loads the identity, the tray after, the window after it has found
  the server, and each goes on with a different part of that when one fails.
- The queue of the UI thread has a bound in the model only, `MaxQueue`, and only
  `refreshLoop` waits for it: a drawing queued behind another closure has the
  effect of one that is queued when the other has run.
- The endpoint a datagram comes from is an address of its client that grows
  with every start and move; datagrams to an old one are lost.

## Runs

| Run | Configuration | Shows | Bounds |
|---|---|---|---|
| replay | `MCReplayWindow.cfg` | `TypeOK`, `AtMostOnce`, `WindowExact`, `NoLockout`, and that `ReplayWindow` implements `ReplayGuard` | a window of 3 in a word of 3 bits (as in the code, the window fills the word) and counters up to 7: jumps inside the window, to its edge and past it, counters that have fallen out of it, and the last counter all happen |
| handshake | `MCHandshake.cfg` | `TypeOK`, `OneInitiator`, `FinishedOnce`, `Agreed` always, `Settles` in the end | two peers with traffic and three keys each (three attempts), two losses, two repeated replies, two restarts of the initiator |
| handshake_race | `MCHandshakeRace.cfg` | `NeverStranded` is violated | no fault at all, one retry that is decided while a reply is on its way |
| handshake_forgotten | `MCHandshakeForgotten.cfg` | `NeverStranded` is violated | one restart of the peer with the higher ID |
| registry | `MCRegistry.cfg` | `TypeOK`, `Isolation`, `ViewsCurrent` always, `Reunited` in the end | two clients, two networks of which one refuses one client, one restart, move or change of network, one fault of any kind except a lost list |
| registry_race | `MCRegistryRace.cfg` | `ViewsCurrent` is violated | no fault at all, one client joining while another is swept |
| paths | `MCPaths.cfg` | `TypeOK`, `NoBlackHole`, `PathsKept` always, `BothDirect` in the end | two clients with one candidate each, one event of any kind (a datagram lost or late, an outage, a move, a failing write, a packet or handshake); intervals 1, 2 and 4 ticks for 2, 15 and 30, in the same order and the deadline twice the keepalive; a NAT that forgets after 4 |
| addresses | `MCRouting.cfg` | `RoutingTypeOK`, `FileWhole`, `DistinctAddresses`, `DistinctSubnets`, `UpToDate`, `AddressKept`, `NoMisroute`, `Routable`, `HasItsAddress` | four devices and three host numbers, so that one is refused; two subnets for two networks; a crash or a failed write; one list on its way at a time, which may be lost or late |
| state_file_torn | `MCStateFileTorn.cfg` | `FileWhole` is violated | two registrations at once |
| state_file_forgets | `MCStateFileForgets.cfg` | `NoSharedAddress` is violated | one crash |
| desktop | `MCDesktop.cfg` | `TypeOK`, `OneIdentity`, `OneEngine`, `RowsTell`, `OnlyAsAsked`, `ExitsSaidBye`, and in the end `FailureShown` and `WindowFollows` | any program and a command after it, one of which may be killed or fail to write; two connections of the window; two peers and one row for them (so the row changes hands, and there is one too many), one change of the peer list |
| tray_silent | `MCTraySilent.cfg` | `EndShown` is violated | one start of the tray, nothing fails |

Two clients and two peers are enough, as every property of `Handshake`,
`Registry` and `Paths` is about a pair. `Routing` needs a third device: an
address changes hands between two others in the table of the first, after a
crash that forgets who had it. The fourth is one more than there are
addresses. `MCRouting` counts crashes and
errors together, and lets the other network exist next to at most two
devices; the devices other than the client itself are symmetric. In `Paths`
one event suffices to bring about every case (each fault alone forces the way
back), and rounds go on for ever, so there is no bound on time: the counters
stop where no comparison can tell the difference. In `MCDesktop` the second
program is one of the command line, which exercises what the first has left on
disk; a second client in one process is what only the window can have.

The instances are smaller than the constants allow because every invariant of a
passing run is a theorem for all of them, under the assumptions named there (see
Proofs), and the instances satisfy those assumptions. For liveness the runs are
all there is.

Everything that is counted is bounded by a constant: faults, addresses of a
client, crashes, errors, starts of a program, changes of a peer list, lists on
their way, and keepalives by `MaxPending` (the next is not sent while so many
datagrams are under way, since 25 seconds have passed). Deadlock is checked
for `ReplayWindow` and `Paths` only: elsewhere clients may all be off or
connected with nothing more to do, a coordinator whose file is torn stays
down, and programs end.

### What the violations mean

- **handshake_race.** `handleHandshake` reads `p.handshake`, finishes it
  without the lock and clears `p.handshake` with the session it stores. If
  `maintainPeers` has started another handshake in between, its reply finds
  nothing to finish while the responder has already moved to it. Both ends then
  have a session, so nobody retries. The same happens when an init is
  repeated or delayed.
- **handshake_forgotten.** The peer with the higher ID restarts and is listed
  again before the sweep has missed it; the other end keeps its session and,
  having one, never starts another. The restarted end may not start one.
- **registry_race.** The sweep and the reader send lists in another order than
  they read them. A lost list has the same effect: lists are not repeated.
- **state_file_torn.** All saves use one temporary file without a lock.
- **state_file_forgets.** The answer to a registration is sent before the save.
- **tray_silent.** The engine goroutine of the tray draws a failure when `Run`
  returns an error. A refused password, or an interface that cannot be read
  any more, closes the client, and `Run` then returns nil: the menu goes on
  saying "Connecting" or showing the peers.

### What else the models show

Some things the code accepts are visible in the models, and the properties are
stated so that they hold with them. They are what a change of the code would
remove from the properties:

- A peer whose address was another's a moment ago may be unroutable until the
  next change of it: the entry that gives the address up deletes the route the
  other has just made (`client.go:391`). `Routable` excludes such `contested`
  addresses. A list that is lost is never repeated.
- The interface keeps the address it was opened with when a later registration
  brings another (`client.go:325`). `HasItsAddress` excludes what happens after
  a crash has `forgotten` the client.
- `FileWhole` and `UpToDate` hold with `Spaced` only; a write that has failed is
  not tried again before something changes (`errors` in `UpToDate`).
- A password is saved before it is accepted, so a mistyped one replaces the
  right one (`main.go:171`). `OnlyAsAsked` counts that as asked for.
- A program that dies between creating and filling the identity file leaves one
  that is refused from then on (`Torn`); nothing has used it, so `OneIdentity`
  holds.
- A status taken before a disconnect may be drawn after `finishDisconnect` and
  stay until the next connection (`gui.go:355`): `WindowFollows` says nothing
  of the rows while no client runs.
- Quit in the window closes the client without waiting for its Bye
  (`gui.go:49`): `ExitsSaidBye` is about `join` and the tray. A client that
  fails says no Bye either.
- After a failure the tray still tracks the addresses of rows it has hidden.

## Fairness

`Handshake!Fairness`: goroutines that have something to do run (Go schedules
them), an armed timer fires (`time.Ticker`), a message that is not lost is
received in the end, and the list of everybody reaches every node. `Lose` and
the repetitions are bounded, so a retry eventually gets through; nothing makes
a fault happen.

`Registry!Fairness`: weak fairness of every client and server step that the
code runs by itself (keepalives, giving up, receiving, sending, taking a
snapshot). `Handle` and `Sweep` are strongly fair: the kernel queues a
socket's datagrams in order, so the reader comes to each, and the sweep's
ticker does not stop; they are interrupted only by each other. Time passes for
a session whose client is gone. Starting, closing, moving and dying are not
fair: no user has to do anything.

`Paths!Fairness`: `maintain` ticks and does what it has decided, a write that
has begun ends, datagrams the NATs let pass arrive within the round (or are
lost or late, at most `MaxEvents` times), a client that has moved appears in
the other's list (this is what `Registry` shows), and no outage is for ever.
`Wake`, packets and faults are not fair: nobody has to play.

`Desktop!FairSpec`: a program goes on with its next stage, a client's `Run`
with its own steps, the goroutines of tray and window with what they are
doing, and their tickers tick. Signals, clicks, answers of the coordinator,
failures of the interface and crashes are not fair. `FailureShown`, `EndShown`
and `WindowFollows` are of the form `<>[]`: the clicks and changes are bounded,
so in the end there are no more of them, and what is shown then is what must be
right.

`Routing` and `StateFile` have no liveness: a list that is lost is not sent
again, and a write that fails is not tried again.

`NoBlackHole` and `PathsKept` count the rounds since the network last changed
or failed (`calm`). A single lost probe does cost a working path: with an ack
every 15 seconds and a deadline of 30, the next one is a tick too late. The
path comes back with the next probes (`BothDirect`), and traffic takes the
relay in between.

## Proofs

Everything below is proved from the named assumption on the constants of its
module (`WindowAssumption` of `ReplayWindow` and of `Window`,
`HandshakeAssumption`, `RegistryAssumption`, `StateFileAssumption`,
`RoutingAssumption`, `PathsAssumption`, `StoreAssumption`, `EngineAssumption`,
`TrayAssumption`, `DesktopAssumption`), for any number of nodes, counters,
keys, networks, addresses, rows, programs and faults.

- **`ReplayWindowProofs`.** The inductive invariant `Inv` joins the types with
  the exact meaning of the bitmap. `AtMostOnce` alone is not inductive: that a
  counter is fresh follows only from what the bitmap says about the counters
  inside the window and from `NoLockout` about those above it. The refinement
  of `ReplayGuard` maps `accepted` to the counters delivered at least once.
- **`HandshakeProofs`.** `SafetyInv` (types, `OneInitiator`, `FinishedOnce`)
  is inductive together: without the initiator rule an init could replace an
  initiator's session by one its handshake is still pending for. Agreement
  holds only if attempts do not overlap and only initiators restart
  (`Orderly`); its invariant `PairInv` says at which single stage the one
  attempt between two peers is.
- **`RegistryProofs`.** `Isolation` is about a client's table and holds
  because of everything on its way there. The inductive invariant `Inv` says
  that a session belongs to the network its client is in, that a registration
  under way does, and that whatever list is addressed to where a client is now,
  or waits for it, is one for the network it is in now. A client changes its
  network only together with its address, when the server has forgotten it:
  this is `Careful`, which `NobodyMislisted` assumes and `RegistryTypes` does
  not. Without it a list of the old network could be right for a session whose
  client has already moved on.
  `ViewsStayCurrent` assumes in addition that the goroutines take turns
  (`Atomic`; `registry_race` shows what happens otherwise) and that no list is
  lost; everything else may be lost, repeated or overtaken. What is on its way
  must end with the list of the moment: `Told` says of every client the server
  knows where to find that a push of its network is still due, or its list has
  been read, or is the last on the wire, or is its table already. For a list
  that has been read to be still true when it is sent, the goroutine that holds
  it must be the only busy one (`OneAtATime`, `OutCurrent`).
- **`StateFileProofs`.** Addresses and subnets are distinct because of every
  snapshot there is: a table comes back from the file, the file from a flush,
  a flush from a table that may be old by then, so `DistinctInv` says the same
  of all of them and nothing about which of them is current. It needs no
  `Spaced`: overlapping saves tear the file, but no duplicate comes from it.
  `SavedAddressKept` needs that nothing writes while the server is down
  (`WhileDown`). `FileIsWhole` and `FileIsUpToDate` do assume `Spaced`: their
  invariant `SaveInv` says that one flush is active at most, that what it saves
  is the table of the moment, and how far the temporary file is at each of its
  steps; that the file is not empty comes from `SomethingToSave`. A flush finds
  an inode nobody uses by counting (`FreshInode`).
- **`RoutingProofs`.** `RoutingImplementsStateFile` maps every step to one of
  `StateFile` or a stutter, which brings all of the above to the specification
  the run `addresses` checks. `NoMisroute` is inductive with the types;
  `Routable` needs that an address two entries share is contested; for
  `HasItsAddress` everything on its way to the client, and what it remembers,
  has to agree with what the coordinator promised (`OneAddress`).
- **`PathsProofs`.** `NoBlackHole` holds for any intervals, because `AgesInv`
  bounds the age of a client's last ack by what is on its way to it, and by
  where its goroutine is between `Tick` and `Act`. That a path which works is
  never given up (`PathsKept`) does depend on the intervals: `IntervalsFit`
  says that two probes are a tick apart at least, and that the keepalive and a
  tick are less than `pathDeadline` and than what a NAT remembers. The code has
  2, 15 and 30 ticks, and chose 15 for the NATs (`client.go:38`). `KeptInv` then
  says how old an ack, a binding or a probe can be at each point of the round.
  The last two conditions are tight: when the keepalive and a tick are as long
  as either, TLC finds a path given up that works.
- **`StoreProofs`** has the steps of `Store` on their own, as lemmas. A program
  is a list of stages that grows when a file has to be made and shrinks with
  every stage; `Planned` says which stage follows which, so that `KeyWritten`
  can say that nobody gets past `fill` without the key in the file. `WritesWhole` says what
  the temporary file holds at each stage of a write; only this makes the rename
  change one entry.
- **`DesktopProofs`.** `DesktopInv` joins the files (`StoreInv`), the clients
  and the window (`MemoryInv`) and the menu (`TrayInv`). `OneEngine` is not
  inductive: who may start a client depends on the closures queued for the UI
  thread and on what the goroutines there hold. `RowsTell` neither: while both
  goroutines of the tray draw, rows and tracked addresses differ, and `Busy`
  and `RowsKept` say of each row that what `watch` has still to set brings title
  and address together again, or that the row is hidden and stays so. A drawing is the
  concatenation of the calls for every row, for any number of rows. That needs
  an induction over the rows; it is done on the sets of row numbers, whose
  strict inclusion the library knows to be well-founded (`LeastNumber`).
  `ExitsSaidBye` and `OnlyAsAsked` are properties of steps and follow from
  `DesktopInv` action by action.

What is only model-checked: the liveness properties `Settles`, `Reunited`,
`BothDirect`, `FailureShown` and `WindowFollows`: fairness is outside the
prover. Every other property of the passing runs is the statement of a theorem.

## Not modelled

- Encoding and decoding of datagrams (`internal/proto`; stateless, with
  round-trip tests): the models exchange what is decoded.
- Key derivation and the Noise primitives (cryptography): a session is the pair
  of ephemeral keys it was made from, a password what the coordinator makes of
  it.
- Drivers of the virtual interface (`internal/device`): opening and reading it
  succeeds or fails, in `Engine`.
- Flags, printed tables, log lines, layout, icons, clipboard tools and the
  probe and build scripts; the server's main, which passes its flags on. Host
  names and LAN candidates appear in no property.
- Two programs of one user at the same time: `Store` has one. The code does not
  lock its files, and two that save at once may lose an entry.
- The search for a relayed packet's sender by its endpoint (`handleRelay`);
  relaying itself is in `Paths` as the path that works while no direct one does.
- A registration refused because a network is full is one that changes nothing
  in `Registry`; `StateFile` has it.

## Plan

1. `Lease`: keepalives against `peerTimeout` in seconds, "this tolerates two
   losses", with a theorem for every choice of the intervals.
2. The relay and the search for a sender by its endpoint.
