----------------------------- MODULE StateFile -----------------------------
(***************************************************************************)
(* What the coordinator remembers across restarts (internal/server): which *)
(* subnet each network has and which virtual address each device of one    *)
(* network, in memory and in the state file.                               *)
(*                                                                         *)
(* handleRegister answers first and saves afterwards, in a goroutine of    *)
(* its own; the sweep saves as well.  Each takes its snapshot under the    *)
(* lock and writes it without: open the temporary file (the same one for   *)
(* all), write, rename.  A goroutine that holds the temporary file open    *)
(* keeps writing to it after another has renamed it, so files are inodes   *)
(* here and the two paths are names of them.                               *)
(*                                                                         *)
(* The devices are those of the network Home; of the others only the       *)
(* subnets are kept, which share the pool and the file.  Host names are    *)
(* left out; they only make the file dirty.                                *)
(***************************************************************************)
EXTENDS Integers, FiniteSets

CONSTANTS
  Devices,     \* peer IDs of the network Home
  Hosts,       \* host numbers of a /24, 2 .. 254 in the code
  Networks, Home,
  SubnetCount, \* 256 in the code
  None,
  Savers,      \* goroutines handleRegister started that have not ended
  Sweeper,     \* the sweep goroutine
  Inodes,
  Spaced,      \* does every registration find the one before it saved
  MaxCrashes,
  MaxErrors    \* how often a write may fail

Flushers == Savers \cup {Sweeper}

Subnets == 0 .. SubnetCount - 1
Addresses == Subnets \X Hosts

ASSUME StateFileAssumption ==
  /\ Hosts \subseteq Nat /\ IsFiniteSet(Hosts) /\ Hosts # {}
  /\ SubnetCount \in Nat \ {0}
  /\ Home \in Networks /\ IsFiniteSet(Networks)
  /\ IsFiniteSet(Devices) /\ IsFiniteSet(Flushers)
  /\ None \notin Addresses \cup Subnets \cup Inodes
  /\ Sweeper \notin Savers
  /\ IsFiniteSet(Inodes) /\ Cardinality(Inodes) >= Cardinality(Flushers) + 2
  /\ Spaced \in BOOLEAN
  /\ MaxCrashes \in Nat /\ MaxErrors \in Nat

VARIABLES
  up,        \* is the server running
  devices,   \* Home's Devices table: the address of each, or None
  subnets,   \* the Subnet of each network there is, None of one there is not
  nextSubnet,
  dirty,     \* stateDirty
  flush,     \* what each flushState call is about to do
  tmp,       \* the inode the name state.json.tmp stands for, or None
  file,      \* the inode the name state.json stands for, or None
  content,   \* what is in each inode
  promised,  \* the address each device was last told, or None
  lost,      \* devices whose promised address was not saved when it crashed
  crashes, errors

server == <<up, devices, subnets, nextSubnet, dirty>>
disk   == <<tmp, file, content>>
fileVars == <<server, flush, disk, promised, lost, crashes, errors>>

Table == [Devices -> Addresses \cup {None}]
NoDevices == [d \in Devices |-> None]
NoSubnets == [n \in Networks |-> None]
Known(table) == {d \in Devices : table[d] # None}
Created(nets) == {n \in Networks : nets[n] # None}

\* What a flush saves: persistedState.
State == [devices : Table, subnets : [Networks -> Subnets \cup {None}]]
NoState == [devices |-> NoDevices, subnets |-> NoSubnets]
Current == [devices |-> devices, subnets |-> subnets]

\* The more networks and devices, the longer the file.
Size(state) ==
  Cardinality(Known(state.devices)) + Cardinality(Created(state.subnets))

\* data is the snapshot written last, size the length of the file.
Content == [data : State, size : Nat]
EmptyFile == [data |-> NoState, size |-> 0]

\* A file that holds one snapshot and nothing else is what json.Unmarshal
\* accepts; an empty one, or one with the tail of a longer, it does not.
Whole(c) == c.size > 0 /\ c.size = Size(c.data)

Idle == [pc |-> "idle", data |-> NoState, fd |-> None]

TypeOK ==
  /\ up \in BOOLEAN /\ dirty \in BOOLEAN
  /\ devices \in Table /\ promised \in Table
  /\ subnets \in [Networks -> Subnets \cup {None}]
  /\ nextSubnet \in 0 .. SubnetCount
  /\ flush \in [Flushers -> [pc : {"idle", "begin", "open", "write", "rename"},
                             data : State, fd : Inodes \cup {None}]]
  /\ tmp \in Inodes \cup {None} /\ file \in Inodes \cup {None}
  /\ content \in [Inodes -> Content]
  /\ lost \in SUBSET Devices
  /\ crashes \in 0 .. MaxCrashes /\ errors \in 0 .. MaxErrors

Init ==
  /\ up = TRUE /\ dirty = FALSE
  /\ devices = NoDevices /\ subnets = NoSubnets /\ nextSubnet = 0
  /\ flush = [f \in Flushers |-> Idle]
  /\ tmp = None /\ file = None
  /\ content = [i \in Inodes |-> EmptyFile]
  /\ promised = NoDevices /\ lost = {}
  /\ crashes = 0 /\ errors = 0

-----------------------------------------------------------------------------
AllIdle == \A f \in Flushers : flush[f].pc = "idle"

UsedSubnets == {subnets[n] : n \in Created(subnets)}

\* The third bytes in the order in which they are tried.
Candidate(i) == (nextSubnet + i) % SubnetCount
\* Mutant: who comes after the last network has its subnet to itself.
AllTries == 0 .. SubnetCount - 1

FreeTries == {i \in 0 .. SubnetCount - 1 : Candidate(i) \notin UsedSubnets}

\* allocateSubnetLocked: the first free one from nextSubnet on, around the
\* end; None when there is none.
allocateSubnet ==
  IF FreeTries = {} THEN None
  ELSE Candidate(CHOOSE i \in FreeTries : \A j \in FreeTries : i <= j)

\* networkFor: the subnets and nextSubnet once n exists.
networkFor(n) ==
  IF subnets[n] # None THEN [subnets |-> subnets, next |-> nextSubnet]
  ELSE [subnets |-> [subnets EXCEPT ![n] = allocateSubnet],
        next    |-> allocateSubnet + 1]
CanHave(n) == subnets[n] # None \/ allocateSubnet # None

-----------------------------------------------------------------------------
\* Mutant: the addresses the state file has are in use, not those in memory.
FreeOnFile(s) ==
  ({s} \X Hosts) \ (IF file = None THEN {}
                    ELSE {content[file].data.devices[d] : d \in Devices})

Free(s) == ({s} \X Hosts) \ {devices[d] : d \in Known(devices)}

\* Mutant: the address after as many as there are devices, the new one too.
NextByCount(s) ==
  LET low == CHOOSE h \in Hosts : \A g \in Hosts : h <= g
  IN <<s, low + Cardinality(Known(devices)) + 1>>

\* allocateIPLocked: the lowest host number no device of the network has.
allocateIP(s) == CHOOSE a \in Free(s) : \A b \in Free(s) : a[2] <= b[2]

\* Mutant: a new device does not make the state dirty.
RegisterClean(d, f) ==
  LET net == networkFor(Home)
      s   == net.subnets[Home]
  IN
  /\ up
  /\ Spaced => AllIdle
  /\ f \in Savers /\ flush[f].pc = "idle"
  /\ CanHave(Home)
  /\ devices[d] = None => Free(s) # {}
  /\ devices' = [devices EXCEPT ![d] = IF @ = None THEN allocateIP(s) ELSE @]
  /\ subnets' = net.subnets /\ nextSubnet' = net.next
  /\ dirty' = (dirty \/ subnets' # subnets)
  /\ promised' = [promised EXCEPT ![d] = devices'[d]]
  /\ lost' = lost \ {d}
  /\ flush' = [flush EXCEPT ![f].pc = "begin"]
  /\ UNCHANGED <<up, disk, crashes, errors>>

\* handleRegister in Home: networkFor and deviceFor under the lock, the
\* answer, saveStateAsync.  Without a free subnet or address it is refused;
\* a network that has just been created has addresses.
Register(d, f) ==
  LET net == networkFor(Home)
      s   == net.subnets[Home]
  IN
  /\ up
  /\ Spaced => AllIdle
  /\ f \in Savers /\ flush[f].pc = "idle"
  /\ CanHave(Home)
  /\ devices[d] = None => Free(s) # {}
  /\ devices' = [devices EXCEPT ![d] = IF @ = None THEN allocateIP(s) ELSE @]
  /\ subnets' = net.subnets /\ nextSubnet' = net.next
  /\ dirty' = (dirty \/ subnets' # subnets \/ devices' # devices)
  /\ promised' = [promised EXCEPT ![d] = devices'[d]]
  /\ lost' = lost \ {d}
  /\ flush' = [flush EXCEPT ![f].pc = "begin"]
  /\ UNCHANGED <<up, disk, crashes, errors>>

\* handleRegister of the first device of another network.
RegisterElsewhere(n, f) ==
  /\ up
  /\ Spaced => AllIdle
  /\ f \in Savers /\ flush[f].pc = "idle"
  /\ n # Home /\ subnets[n] = None
  /\ CanHave(n)
  /\ subnets' = networkFor(n).subnets /\ nextSubnet' = networkFor(n).next
  /\ dirty' = TRUE
  /\ flush' = [flush EXCEPT ![f].pc = "begin"]
  /\ UNCHANGED <<up, devices, disk, promised, lost, crashes, errors>>

\* flushState in the sweep, up to the unlock: only when it finds something
\* to save does it change anything.
Sweep ==
  /\ up
  /\ flush[Sweeper].pc = "idle"
  /\ dirty
  /\ flush' = [flush EXCEPT ![Sweeper] =
                 [pc |-> "open", data |-> Current, fd |-> None]]
  /\ dirty' = FALSE
  /\ UNCHANGED <<up, devices, subnets, nextSubnet, disk, promised, lost,
                 crashes, errors>>

-----------------------------------------------------------------------------
\* The same in saveStateAsync's goroutine: nothing to do, or a snapshot that
\* counts as saved from here on.
FlushBegin(f) ==
  /\ flush[f].pc = "begin"
  /\ flush' = [flush EXCEPT ![f] =
       IF dirty THEN [pc |-> "open", data |-> Current, fd |-> None] ELSE Idle]
  /\ dirty' = FALSE
  /\ UNCHANGED <<up, devices, subnets, nextSubnet, disk, promised, lost,
                 crashes, errors>>

Unused == {i \in Inodes : /\ i \notin {tmp, file}
                          /\ \A f \in Flushers : flush[f].fd # i}

\* Mutant: the snapshot is written into the state file itself.
FlushOpenInPlace(f) ==
  /\ flush[f].pc = "open"
  /\ LET i == IF file = None THEN CHOOSE j \in Unused : TRUE ELSE file
     IN /\ file' = i
        /\ content' = [content EXCEPT ![i] = EmptyFile]
        /\ flush' = [flush EXCEPT ![f].pc = "write", ![f].fd = i]
  /\ UNCHANGED <<server, tmp, promised, lost, crashes, errors>>

\* os.WriteFile opens the temporary file, creating or truncating it.
FlushOpen(f) ==
  /\ flush[f].pc = "open"
  /\ LET i == IF tmp = None THEN CHOOSE j \in Unused : TRUE ELSE tmp
     IN /\ tmp' = i
        /\ content' = [content EXCEPT ![i] = EmptyFile]
        /\ flush' = [flush EXCEPT ![f].pc = "write", ![f].fd = i]
  /\ UNCHANGED <<server, file, promised, lost, crashes, errors>>

\* It writes from the start of the file; what is longer stays behind.
FlushWrite(f) ==
  /\ flush[f].pc = "write"
  /\ LET i == flush[f].fd
         length == Size(flush[f].data)
     IN content' = [content EXCEPT ![i] =
          [data |-> flush[f].data,
           size |-> IF length < @.size THEN @.size ELSE length]]
  /\ flush' = [flush EXCEPT ![f].pc = "rename", ![f].fd = None]
  /\ UNCHANGED <<server, tmp, file, promised, lost, crashes, errors>>

\* os.Rename moves the name, whichever inode it stands for by now; without
\* one it fails and is logged.
FlushRename(f) ==
  /\ flush[f].pc = "rename"
  /\ IF tmp = None THEN UNCHANGED <<tmp, file>>
     ELSE file' = tmp /\ tmp' = None
  /\ flush' = [flush EXCEPT ![f] = Idle]
  /\ UNCHANGED <<server, content, promised, lost, crashes, errors>>

\* MkdirAll or WriteFile fails, as on a full disk: logged, and not tried
\* again before something else changes.
FlushError(f) ==
  /\ errors < MaxErrors
  /\ errors' = errors + 1
  /\ flush[f].pc \in {"open", "write"}
  /\ flush' = [flush EXCEPT ![f] = Idle]
  /\ UNCHANGED <<server, disk, promised, lost, crashes>>

-----------------------------------------------------------------------------
Saved(d) == file # None /\ content[file].data.devices[d] = promised[d]

\* The process ends; the files stay as they are.
Crash ==
  /\ up
  /\ crashes < MaxCrashes
  /\ crashes' = crashes + 1
  /\ up' = FALSE
  /\ devices' = NoDevices /\ subnets' = NoSubnets
  /\ nextSubnet' = 0 /\ dirty' = FALSE
  /\ flush' = [f \in Flushers |-> Idle]
  /\ lost' = lost \cup {d \in Known(promised) : ~Saved(d)}
  /\ UNCHANGED <<disk, promised, errors>>

\* Mutant: a table that comes from the file is not taken over.
loadStateEmpty ==
  /\ ~up
  /\ file # None => Whole(content[file])
  /\ up' = TRUE
  /\ UNCHANGED <<devices, subnets, nextSubnet, dirty, flush, disk, promised,
                 lost, crashes, errors>>

\* loadState: a missing file is an empty state, a corrupt one is an error
\* that keeps the server from starting.  Where the next search for a subnet
\* starts is not in the file.
loadState ==
  LET data == IF file = None THEN NoState ELSE content[file].data IN
  /\ ~up
  /\ file # None => Whole(content[file])
  /\ up' = TRUE
  /\ devices' = data.devices /\ subnets' = data.subnets
  /\ UNCHANGED <<nextSubnet, dirty, flush, disk, promised, lost, crashes,
                 errors>>

FileNext ==
  \/ Sweep
  \/ \E f \in Flushers : \/ FlushBegin(f)
                         \/ FlushOpen(f)
                         \/ FlushWrite(f)
                         \/ FlushRename(f)
                         \/ FlushError(f)
  \/ \E n \in Networks, f \in Savers : RegisterElsewhere(n, f)

Next ==
  \/ \E d \in Devices, f \in Savers : Register(d, f)
  \/ FileNext
  \/ Crash
  \/ loadState

Spec == Init /\ [][Next]_fileVars

-----------------------------------------------------------------------------
\* Whenever the process ends, the state file is one it can start from again
\* (flushState: "a crash mid-write cannot leave a truncated file behind").
FileWhole == file # None => Whole(content[file])

\* No two devices of a network share an address, restarts included
\* (allocateIPLocked over a table that loadState may have brought back).
DistinctAddresses ==
  \A d, e \in Known(devices) : devices[d] = devices[e] => d = e

\* No two networks share a subnet, although where the search starts is
\* forgotten in a restart (allocateSubnetLocked looks at those in use).
DistinctSubnets ==
  \A n, m \in Created(subnets) : subnets[n] = subnets[m] => n = m

\* When nothing is left to save, the file holds the table in memory, unless a
\* write has failed (stateDirty is cleared before the snapshot is written).
UpToDate ==
  up /\ AllIdle /\ ~dirty /\ errors = 0 =>
    Current = IF file = None THEN NoState ELSE content[file].data

\* A device keeps the address it was told through reconnects and restarts,
\* if the file had it when the server went down (deviceFor, loadState).
AddressKept ==
  up => \A d \in Known(promised) \ lost : devices[d] = promised[d]

\* No two friends are ever told the same address: each keeps its own "across
\* reconnects and server restarts" (the comment on device).
NoSharedAddress ==
  \A d, e \in Known(promised) : promised[d] = promised[e] => d = e
=============================================================================
