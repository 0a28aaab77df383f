-------------------------- MODULE StateFileProofs --------------------------
(***************************************************************************)
(* Proofs about StateFile for any devices, networks, hosts and subnets,    *)
(* any number of goroutines that save, and any number of crashes and       *)
(* errors.                                                                 *)
(***************************************************************************)
EXTENDS StateFile, FiniteSetTheorems, WellFoundedInduction, TLAPS

-----------------------------------------------------------------------------
(* What is looked for by number, and an inode nobody uses. *)

LEMMA Smallest ==
  ASSUME NEW S \in SUBSET Nat, S # {}
  PROVE  \E n \in S : \A m \in S : n <= m
<1>1. PICK n \in S : \A m \in S : <<m, n>> \notin OpToRel(<, Nat)
  BY WFMin, NatLessThanWellFounded, Zenon
<1>2. \A m \in S : ~(m < n)
  BY <1>1, Zenon DEF OpToRel
<1> QED
  BY <1>2

LEMMA SizeIsNatural ==
  ASSUME NEW s \in State
  PROVE  Size(s) \in Nat
<1>1. /\ Known(s.devices) \in SUBSET Devices
      /\ Created(s.subnets) \in SUBSET Networks
  BY DEF Known, Created
<1>2. Cardinality(Known(s.devices)) \in Nat
  BY <1>1, StateFileAssumption, FS_Subset, FS_CardinalityType
<1>3. Cardinality(Created(s.subnets)) \in Nat
  BY <1>1, StateFileAssumption, FS_Subset, FS_CardinalityType
<1> QED
  BY <1>2, <1>3 DEF Size

LEMMA FirstFreeAddress ==
  ASSUME NEW s \in Subnets, Free(s) # {}
  PROVE  allocateIP(s) \in Free(s) /\ allocateIP(s) \in Addresses
<1> DEFINE S == {a[2] : a \in Free(s)}
<1>1. Free(s) \subseteq Addresses
  BY DEF Free, Addresses
<1>2. S \in SUBSET Nat /\ S # {}
  BY <1>1, StateFileAssumption DEF Addresses
<1>3. PICK n \in S : \A m \in S : n <= m
  BY <1>2, Smallest
<1>4. PICK a \in Free(s) : a[2] = n
  BY <1>3
<1>5. \A b \in Free(s) : a[2] <= b[2]
  BY <1>3, <1>4
<1>6. allocateIP(s) \in Free(s)
  BY <1>4, <1>5 DEF allocateIP
<1> QED
  BY <1>1, <1>6

LEMMA FirstFreeSubnet ==
  ASSUME TypeOK, allocateSubnet # None
  PROVE  allocateSubnet \in Subnets \ UsedSubnets
<1>1. FreeTries # {} /\ FreeTries \in SUBSET Nat
  BY StateFileAssumption DEF allocateSubnet, FreeTries
<1>2. PICK i \in FreeTries : \A j \in FreeTries : i <= j
  BY <1>1, Smallest
<1> DEFINE k == CHOOSE i1 \in FreeTries : \A j \in FreeTries : i1 <= j
<1>3. k \in FreeTries
  BY <1>2
<1>4. allocateSubnet = Candidate(k)
  BY <1>1 DEF allocateSubnet
<1> HIDE DEF k
<1>5. Candidate(k) \in Subnets
  <2>1. k \in Nat
    BY <1>1, <1>3
  <2>2. nextSubnet \in Nat /\ SubnetCount \in Nat \ {0}
    BY StateFileAssumption DEF TypeOK
  <2>3. (nextSubnet + k) % SubnetCount \in 0 .. SubnetCount - 1
    BY <2>1, <2>2
  <2> QED
    BY <2>3 DEF Candidate, Subnets
<1> QED
  BY <1>3, <1>4, <1>5 DEF FreeTries

\* The network of a registration that is not refused.
LEMMA NetworkForIt ==
  ASSUME TypeOK, NEW n \in Networks, CanHave(n)
  PROVE  /\ networkFor(n).subnets \in [Networks -> Subnets \cup {None}]
         /\ networkFor(n).next \in 0 .. SubnetCount
         /\ networkFor(n).subnets[n] \in Subnets
         /\ networkFor(n).subnets # subnets =>
              /\ subnets[n] = None
              /\ networkFor(n).subnets[n] \notin UsedSubnets
              /\ \A m \in Networks \ {n} :
                   networkFor(n).subnets[m] = subnets[m]
<1>1. CASE subnets[n] # None
  BY <1>1 DEF networkFor, TypeOK
<1>2. CASE subnets[n] = None
  <2>1. allocateSubnet \in Subnets \ UsedSubnets
    BY <1>2, FirstFreeSubnet DEF CanHave
  <2>2. /\ networkFor(n).subnets = [subnets EXCEPT ![n] = allocateSubnet]
        /\ networkFor(n).next = allocateSubnet + 1
    BY <1>2 DEF networkFor
  <2>3. allocateSubnet + 1 \in 0 .. SubnetCount
    BY <2>1, StateFileAssumption DEF Subnets
  <2> QED
    BY <1>2, <2>1, <2>2, <2>3 DEF TypeOK
<1> QED
  BY <1>1, <1>2

LEMMA FreshInode ==
  ASSUME TypeOK, tmp = None
  PROVE  Unused # {}
<1> DEFINE S == Inodes \ {file}
           g == [i \in S |-> CHOOSE f \in Flushers : flush[f].fd = i]
<1>1. IsFiniteSet(S) /\ IsFiniteSet(Flushers)
  BY StateFileAssumption, FS_RemoveElement
<1>2. Cardinality(Flushers) < Cardinality(S)
  <2>1. Cardinality(Flushers) \in Nat /\ Cardinality(Inodes) \in Nat
    BY StateFileAssumption, FS_CardinalityType
  <2>2. Cardinality(S) >= Cardinality(Inodes) - 1
    <3>1. CASE file \in Inodes
      <4>1. IsFiniteSet(Inodes)
        BY StateFileAssumption
      <4>2. Cardinality(S) = Cardinality(Inodes) - 1
        BY <3>1, <4>1, FS_RemoveElement
      <4> QED
        BY <2>1, <4>2
    <3>2. CASE file \notin Inodes
      <4>1. S = Inodes
        BY <3>2
      <4> QED
        BY <2>1, <4>1
    <3> QED
      BY <3>1, <3>2
  <2>3. Cardinality(Inodes) >= Cardinality(Flushers) + 2
    BY StateFileAssumption
  <2>4. Cardinality(S) \in Nat
    BY <1>1, FS_CardinalityType
  <2> HIDE DEF S
  <2> QED
    BY <2>1, <2>2, <2>3, <2>4
<1>3. SUFFICES ASSUME Unused = {} PROVE FALSE
  OBVIOUS
<1>4. \A i \in S : \E f \in Flushers : flush[f].fd = i
  BY <1>3, StateFileAssumption DEF Unused
<1>5. \A i \in S : g[i] \in Flushers /\ flush[g[i]].fd = i
  BY <1>4
<1>6. g \in [S -> Flushers]
  BY <1>5
<1> HIDE DEF g
<1>7. \E x, y \in S : x # y /\ g[x] = g[y]
  BY <1>1, <1>2, <1>6, FS_PigeonHole
<1> QED
  BY <1>5, <1>7

-----------------------------------------------------------------------------
(* Type correctness. *)

\* What Register does to the table.
LEMMA RegisterTypes ==
  ASSUME TypeOK, NEW d \in Devices, NEW f \in Savers, Register(d, f)
  PROVE  /\ devices' \in Table /\ devices'[d] \in Addresses
         /\ devices' # devices =>
              /\ devices[d] = None
              /\ \A e \in Devices \ {d} : devices'[e] = devices[e]
              /\ \A e \in Known(devices) : devices[e] # devices'[d]
<1> DEFINE s == networkFor(Home).subnets[Home]
<1>1. s \in Subnets
  BY NetworkForIt, StateFileAssumption DEF Register
<1> HIDE DEF s
<1>2. CASE devices[d] # None
  <2>1. devices' = devices
    BY <1>2 DEF Register, TypeOK, Table
  <2> QED
    BY <1>2, <2>1 DEF TypeOK, Table
<1>3. CASE devices[d] = None
  <2>1. Free(s) # {}
    BY <1>3 DEF Register, s
  <2>2. allocateIP(s) \in Free(s) /\ allocateIP(s) \in Addresses
    BY <1>1, <2>1, FirstFreeAddress
  <2>3. devices' = [devices EXCEPT ![d] = allocateIP(s)]
    BY <1>3 DEF Register, s, TypeOK, Table
  <2>4. \A e \in Known(devices) : devices[e] # allocateIP(s)
    BY <2>2 DEF Free
  <2> QED
    BY <1>3, <2>2, <2>3, <2>4 DEF TypeOK, Table
<1> QED
  BY <1>2, <1>3

LEMMA SnapshotTypes ==
  ASSUME TypeOK
  PROVE  Current \in State /\ NoState \in State /\ EmptyFile \in Content
BY DEF TypeOK, Current, State, NoState, NoDevices, NoSubnets, EmptyFile,
       Content, Table

LEMMA InitTypes == Init => TypeOK
<1> SUFFICES ASSUME Init PROVE TypeOK
  OBVIOUS
<1>1. NoState \in State /\ EmptyFile \in Content
  BY DEF State, NoState, NoDevices, NoSubnets, EmptyFile, Content, Table
<1>2. 0 \in 0 .. SubnetCount /\ 0 \in 0 .. MaxCrashes /\ 0 \in 0 .. MaxErrors
  BY StateFileAssumption
<1> QED
  BY <1>1, <1>2 DEF Init, TypeOK, NoDevices, NoSubnets, Table, Idle

LEMMA NextTypes == TypeOK /\ [Next]_fileVars => TypeOK'
<1> SUFFICES ASSUME TypeOK, [Next]_fileVars PROVE TypeOK'
  OBVIOUS
<1> USE DEF server, disk
<1>0. /\ Current \in State /\ NoState \in State /\ EmptyFile \in Content
      /\ Idle \in [pc : {"idle", "begin", "open", "write", "rename"},
                    data : State, fd : Inodes \cup {None}]
      /\ Savers \subseteq Flushers /\ Sweeper \in Flushers
  BY SnapshotTypes DEF Idle, Flushers
<1>1. ASSUME NEW d \in Devices, NEW f \in Savers, Register(d, f)
      PROVE  TypeOK'
  <2>1. devices' \in Table /\ devices'[d] \in Addresses
    BY <1>1, RegisterTypes
  <2>2. /\ subnets' \in [Networks -> Subnets \cup {None}]
        /\ nextSubnet' \in 0 .. SubnetCount
    BY <1>1, NetworkForIt, StateFileAssumption DEF Register
  <2> QED
    BY <1>0, <1>1, <2>1, <2>2 DEF Register, TypeOK, Table
<1>2. ASSUME NEW n \in Networks, NEW f \in Savers, RegisterElsewhere(n, f)
      PROVE  TypeOK'
  <2>1. /\ subnets' \in [Networks -> Subnets \cup {None}]
        /\ nextSubnet' \in 0 .. SubnetCount
    BY <1>2, NetworkForIt DEF RegisterElsewhere
  <2> QED
    BY <1>0, <1>2, <2>1 DEF RegisterElsewhere, TypeOK
<1>3. CASE Sweep
  BY <1>0, <1>3 DEF Sweep, TypeOK
<1>4. ASSUME NEW f \in Flushers, FlushBegin(f)
      PROVE  TypeOK'
  BY <1>0, <1>4 DEF FlushBegin, TypeOK
<1>5. ASSUME NEW f \in Flushers, FlushOpen(f)
      PROVE  TypeOK'
  <2> DEFINE i == IF tmp = None THEN CHOOSE j \in Unused : TRUE ELSE tmp
  <2>1. i \in Inodes
    BY FreshInode DEF Unused, TypeOK
  <2> HIDE DEF i
  <2>2. /\ tmp' = i
        /\ content' = [content EXCEPT ![i] = EmptyFile]
        /\ flush' = [flush EXCEPT ![f].pc = "write", ![f].fd = i]
    BY <1>5 DEF FlushOpen, i
  <2>3. content' \in [Inodes -> Content]
    BY <1>0, <2>2 DEF TypeOK
  <2>4. flush' \in [Flushers ->
                     [pc : {"idle", "begin", "open", "write", "rename"},
                      data : State, fd : Inodes \cup {None}]]
    BY <2>1, <2>2 DEF TypeOK
  <2> QED
    BY <1>5, <2>1, <2>2, <2>3, <2>4 DEF FlushOpen, TypeOK
<1>6. ASSUME NEW f \in Flushers, FlushWrite(f)
      PROVE  TypeOK'
  <2> DEFINE i == flush[f].fd
             length == Size(flush[f].data)
             new == [data |-> flush[f].data,
                     size |-> IF length < content[i].size
                                THEN content[i].size ELSE length]
  <2>1. flush[f].data \in State
    BY DEF TypeOK
  <2>2. length \in Nat
    BY <2>1, SizeIsNatural
  <2> HIDE DEF length
  <2>3. i \in Inodes => new \in Content
    BY <2>1, <2>2 DEF Content, TypeOK
  <2>4. content' = [content EXCEPT ![i] = new]
    BY <1>6 DEF FlushWrite, length
  <2> HIDE DEF new
  <2>5. content' \in [Inodes -> Content]
    BY <2>3, <2>4 DEF TypeOK
  <2> QED
    BY <1>0, <1>6, <2>5 DEF FlushWrite, TypeOK
<1>7. ASSUME NEW f \in Flushers, FlushRename(f)
      PROVE  TypeOK'
  BY <1>0, <1>7 DEF FlushRename, TypeOK
<1>8. ASSUME NEW f \in Flushers, FlushError(f)
      PROVE  TypeOK'
  BY <1>0, <1>8, StateFileAssumption DEF FlushError, TypeOK
<1>9. CASE Crash
  <2>1. devices' \in Table /\ subnets' \in [Networks -> Subnets \cup {None}]
    BY <1>9 DEF Crash, NoDevices, NoSubnets, Table
  <2>2. lost' \in SUBSET Devices
    BY <1>9 DEF Crash, TypeOK, Known
  <2>3. crashes' \in 0 .. MaxCrashes /\ nextSubnet' \in 0 .. SubnetCount
    BY <1>9, StateFileAssumption DEF Crash, TypeOK
  <2> QED
    BY <1>0, <1>9, <2>1, <2>2, <2>3 DEF Crash, TypeOK
<1>10. CASE loadState
  <2>1. (IF file = None THEN NoState ELSE content[file].data) \in State
    BY <1>0 DEF TypeOK, Content
  <2> QED
    BY <1>0, <1>10, <2>1 DEF loadState, TypeOK, State
<1>11. CASE UNCHANGED fileVars
  BY <1>11 DEF fileVars, TypeOK
<1> QED
  BY <1>1, <1>2, <1>3, <1>4, <1>5, <1>6, <1>7, <1>8, <1>9, <1>10, <1>11
  DEF Next, FileNext

\* Every variable keeps its type, for any devices, networks, hosts, subnets,
\* savers, crashes and errors; in particular every address handed out is one
\* of the network's (allocateIPLocked, allocateSubnetLocked).
THEOREM StateFileTypes == Spec => []TypeOK
<1>1. Init => TypeOK
  BY InitTypes
<1>2. TypeOK /\ [Next]_fileVars => TypeOK'
  BY NextTypes
<1> QED
  BY <1>1, <1>2, PTL DEF Spec

-----------------------------------------------------------------------------
(* No address and no subnet twice.  A table may come back from the file,   *)
(* and a file may be written from a table that is not current any more, so *)
(* all of them have to be free of duplicates.                              *)

Unambiguous(state) ==
  /\ \A d, e \in Known(state.devices) :
       state.devices[d] = state.devices[e] => d = e
  /\ \A n, m \in Created(state.subnets) :
       state.subnets[n] = state.subnets[m] => n = m

AllUnambiguous ==
  /\ Unambiguous(Current)
  /\ \A f \in Flushers : Unambiguous(flush[f].data)
  /\ \A i \in Inodes : Unambiguous(content[i].data)

DistinctInv == TypeOK /\ AllUnambiguous

LEMMA NothingTwice == Unambiguous(NoState)
BY DEF Unambiguous, NoState, NoDevices, NoSubnets, Known, Created

\* A network that is created has a subnet of its own.
LEMMA NewSubnetDistinct ==
  ASSUME TypeOK, Unambiguous(Current), NEW n \in Networks, CanHave(n)
  PROVE  \A l, m \in Created(networkFor(n).subnets) :
           networkFor(n).subnets[l] = networkFor(n).subnets[m] => l = m
<1> DEFINE new == networkFor(n).subnets
<1>1. \A l, m \in Created(subnets) : subnets[l] = subnets[m] => l = m
  BY DEF Unambiguous, Current
<1>2. new # subnets => /\ subnets[n] = None
                       /\ new[n] \notin UsedSubnets
                       /\ \A m \in Networks \ {n} : new[m] = subnets[m]
  BY NetworkForIt
<1> HIDE DEF new
<1>3. CASE new = subnets
  BY <1>1, <1>3 DEF new
<1>4. CASE new # subnets
  <2>1. \A l, m \in Created(new) : new[l] = new[m] => l = m
    BY <1>1, <1>2, <1>4 DEF Created, UsedSubnets
  <2> QED
    BY <2>1 DEF new
<1> QED
  BY <1>3, <1>4

\* A device that is new has an address of its own.
LEMMA NewAddressDistinct ==
  ASSUME TypeOK, Unambiguous(Current),
         NEW d \in Devices, NEW f \in Savers, Register(d, f)
  PROVE  \A e, g \in Known(devices') : devices'[e] = devices'[g] => e = g
<1>1. devices' # devices =>
        /\ devices[d] = None
        /\ \A e \in Devices \ {d} : devices'[e] = devices[e]
        /\ \A e \in Known(devices) : devices[e] # devices'[d]
  BY RegisterTypes
<1>2. \A e, g \in Known(devices) : devices[e] = devices[g] => e = g
  BY DEF Unambiguous, Current
<1>3. CASE devices' = devices
  BY <1>2, <1>3
<1>4. CASE devices' # devices
  BY <1>1, <1>2, <1>4 DEF Known
<1> QED
  BY <1>3, <1>4

LEMMA NextDistinct == DistinctInv /\ [Next]_fileVars => AllUnambiguous'
<1> SUFFICES ASSUME TypeOK, AllUnambiguous, [Next]_fileVars
             PROVE  AllUnambiguous'
  BY DEF DistinctInv
<1> USE DEF server, disk
<1>0. /\ Unambiguous(Current) /\ Unambiguous(NoState)
      /\ Unambiguous(Idle.data) /\ Unambiguous(EmptyFile.data)
      /\ Savers \subseteq Flushers
  BY NothingTwice DEF AllUnambiguous, Idle, EmptyFile, Flushers
<1>1. ASSUME NEW d \in Devices, NEW f \in Savers, Register(d, f)
      PROVE  AllUnambiguous'
  <2>1. \A e, g \in Known(devices') : devices'[e] = devices'[g] => e = g
    BY <1>0, <1>1, NewAddressDistinct
  <2>2. \A n, m \in Created(subnets') : subnets'[n] = subnets'[m] => n = m
    BY <1>0, <1>1, NewSubnetDistinct, StateFileAssumption DEF Register
  <2>3. Unambiguous(Current)'
    BY <2>1, <2>2 DEF Unambiguous, Current
  <2>4. \A g \in Flushers : flush'[g].data = flush[g].data
    BY <1>1 DEF Register, TypeOK
  <2> QED
    BY <1>1, <2>3, <2>4 DEF Register, AllUnambiguous, Unambiguous
<1>2. ASSUME NEW n \in Networks, NEW f \in Savers, RegisterElsewhere(n, f)
      PROVE  AllUnambiguous'
  <2>1. \A l, m \in Created(subnets') : subnets'[l] = subnets'[m] => l = m
    BY <1>0, <1>2, NewSubnetDistinct DEF RegisterElsewhere
  <2>2. Unambiguous(Current)'
    BY <1>0, <1>2, <2>1 DEF Unambiguous, Current, RegisterElsewhere
  <2>3. \A g \in Flushers : flush'[g].data = flush[g].data
    BY <1>2 DEF RegisterElsewhere, TypeOK
  <2> QED
    BY <1>2, <2>2, <2>3 DEF RegisterElsewhere, AllUnambiguous, Unambiguous
<1>3. CASE Sweep
  <2>1. Current' = Current
    BY <1>3 DEF Sweep, Current
  <2>2. \A g \in Flushers : flush'[g].data \in {flush[g].data, Current}
    BY <1>3 DEF Sweep, TypeOK
  <2> QED
    BY <1>0, <1>3, <2>1, <2>2 DEF Sweep, AllUnambiguous, Unambiguous
<1>4. ASSUME NEW f \in Flushers, FlushBegin(f)
      PROVE  AllUnambiguous'
  <2>1. Current' = Current
    BY <1>4 DEF FlushBegin, Current
  <2>2. \A g \in Flushers :
          flush'[g].data \in {flush[g].data, Current, Idle.data}
    BY <1>4 DEF FlushBegin, TypeOK
  <2> QED
    BY <1>0, <1>4, <2>1, <2>2 DEF FlushBegin, AllUnambiguous, Unambiguous
<1>5. ASSUME NEW f \in Flushers, FlushOpen(f)
      PROVE  AllUnambiguous'
  <2>1. Current' = Current
    BY <1>5 DEF FlushOpen, Current
  <2>2. \A g \in Flushers : flush'[g].data = flush[g].data
    BY <1>5 DEF FlushOpen, TypeOK
  <2>3. \A i \in Inodes : content'[i] \in {content[i], EmptyFile}
    BY <1>5 DEF FlushOpen, TypeOK
  <2> QED
    BY <1>0, <2>1, <2>2, <2>3 DEF AllUnambiguous, Unambiguous
<1>6. ASSUME NEW f \in Flushers, FlushWrite(f)
      PROVE  AllUnambiguous'
  <2>1. Current' = Current
    BY <1>6 DEF FlushWrite, Current
  <2>2. \A g \in Flushers : flush'[g].data = flush[g].data
    BY <1>6 DEF FlushWrite, TypeOK
  <2>3. \A i \in Inodes :
          content'[i].data \in {content[i].data, flush[f].data}
    BY <1>6 DEF FlushWrite, TypeOK
  <2> QED
    BY <1>0, <2>1, <2>2, <2>3 DEF AllUnambiguous, Unambiguous
<1>7. ASSUME NEW f \in Flushers, FlushRename(f) \/ FlushError(f)
      PROVE  AllUnambiguous'
  <2>1. Current' = Current /\ content' = content
    BY <1>7 DEF FlushRename, FlushError, Current
  <2>2. \A g \in Flushers : flush'[g].data \in {flush[g].data, Idle.data}
    BY <1>7 DEF FlushRename, FlushError, TypeOK
  <2> QED
    BY <1>0, <2>1, <2>2 DEF AllUnambiguous, Unambiguous
<1>8. CASE Crash
  <2>1. Current' = NoState /\ content' = content
    BY <1>8 DEF Crash, Current, NoState
  <2>2. \A g \in Flushers : flush'[g].data = Idle.data
    BY <1>8 DEF Crash
  <2> QED
    BY <1>0, <2>1, <2>2 DEF AllUnambiguous, Unambiguous
<1>9. CASE loadState
  <2>1. /\ Current' = IF file = None THEN NoState ELSE content[file].data
        /\ content' = content /\ flush' = flush
    BY <1>9 DEF loadState, Current, TypeOK, Content, State, NoState
  <2>2. file \in Inodes \cup {None}
    BY DEF TypeOK
  <2>3. Unambiguous(Current)'
    BY <1>0, <2>1, <2>2 DEF AllUnambiguous, Unambiguous
  <2> QED
    BY <2>1, <2>3 DEF AllUnambiguous, Unambiguous
<1>10. CASE UNCHANGED fileVars
  <2>1. Current' = Current /\ content' = content /\ flush' = flush
    BY <1>10 DEF fileVars, Current
  <2> QED
    BY <2>1 DEF AllUnambiguous, Unambiguous
<1> QED
  BY <1>1, <1>2, <1>3, <1>4, <1>5, <1>6, <1>7, <1>8, <1>9, <1>10
  DEF Next, FileNext

LEMMA StateFileDistinct == Spec => []DistinctInv
<1>1. Init => DistinctInv
  <2> SUFFICES ASSUME Init PROVE AllUnambiguous
    BY InitTypes DEF DistinctInv
  <2>1. Current = NoState
    BY DEF Init, Current, NoState
  <2> QED
    BY <2>1, NothingTwice DEF Init, AllUnambiguous, Idle, EmptyFile
<1>2. DistinctInv /\ [Next]_fileVars => DistinctInv'
  BY NextTypes, NextDistinct DEF DistinctInv
<1> QED
  BY <1>1, <1>2, PTL DEF Spec

\* No two devices ever share an address, whatever is saved or loaded and when,
\* overlapping saves and crashes included (allocateIPLocked, loadState).
THEOREM AddressesDistinct == Spec => []DistinctAddresses
<1>1. DistinctInv => DistinctAddresses
  BY DEF DistinctInv, AllUnambiguous, Unambiguous, Current, DistinctAddresses
<1> QED
  BY <1>1, StateFileDistinct, PTL

\* No two networks ever share a subnet, however often the search starts from
\* the first again (allocateSubnetLocked, loadState).
THEOREM SubnetsDistinct == Spec => []DistinctSubnets
<1>1. DistinctInv => DistinctSubnets
  BY DEF DistinctInv, AllUnambiguous, Unambiguous, Current, DistinctSubnets
<1> QED
  BY <1>1, StateFileDistinct, PTL

-----------------------------------------------------------------------------
(* An address that is on file is kept.  While the server is down nothing   *)
(* writes, so what was saved when it ended is what it finds.               *)

WhileUp == up => \A d \in Known(promised) \ lost : devices[d] = promised[d]

WhileDown ==
  ~up => /\ ~dirty /\ AllIdle
         /\ \A d \in Known(promised) \ lost : Saved(d)

KeptInv == TypeOK /\ WhileUp /\ WhileDown

\* The steps of a save change none of what is kept, and only while it is up.
LEMMA SavingKeeps ==
  ASSUME KeptInv, NEW f \in Flushers,
         \/ FlushBegin(f) \/ FlushOpen(f) \/ FlushWrite(f)
         \/ FlushRename(f) \/ FlushError(f)
  PROVE  (WhileUp /\ WhileDown)'
<1>1. up /\ UNCHANGED <<up, devices, promised, lost>>
  BY DEF FlushBegin, FlushOpen, FlushWrite, FlushRename, FlushError, KeptInv,
         WhileDown, AllIdle, server, disk
<1> QED
  BY <1>1 DEF KeptInv, WhileUp, WhileDown, Known

LEMMA NextKeeps == KeptInv /\ [Next]_fileVars => (WhileUp /\ WhileDown)'
<1> SUFFICES ASSUME KeptInv, [Next]_fileVars
             PROVE  (WhileUp /\ WhileDown)'
  OBVIOUS
<1> USE DEF server, disk
<1>0. TypeOK /\ WhileUp /\ WhileDown
  BY DEF KeptInv
<1>1. ASSUME NEW d \in Devices, NEW f \in Savers, Register(d, f)
      PROVE  (WhileUp /\ WhileDown)'
  <2>1. up /\ up' /\ lost' = lost \ {d}
    BY <1>1 DEF Register
  <2>2. /\ promised' = [promised EXCEPT ![d] = devices'[d]]
        /\ \A e \in Devices \ {d} : devices'[e] = devices[e]
    BY <1>0, <1>1 DEF Register, TypeOK, Table
  <2>3. \A e \in Known(promised') \ lost' : devices'[e] = promised'[e]
    BY <1>0, <2>1, <2>2 DEF WhileUp, Known, TypeOK, Table
  <2> QED
    BY <2>1, <2>3 DEF WhileUp, WhileDown
<1>2. ASSUME NEW n \in Networks, NEW f \in Savers, RegisterElsewhere(n, f)
      PROVE  (WhileUp /\ WhileDown)'
  BY <1>0, <1>2 DEF RegisterElsewhere, WhileUp, WhileDown, Known
<1>3. CASE Sweep
  BY <1>0, <1>3 DEF Sweep, WhileUp, WhileDown, Known
<1>4. ASSUME NEW f \in Flushers,
             \/ FlushBegin(f) \/ FlushOpen(f) \/ FlushWrite(f)
             \/ FlushRename(f) \/ FlushError(f)
      PROVE  (WhileUp /\ WhileDown)'
  BY <1>4, SavingKeeps
<1>5. CASE Crash
  <2>1. /\ ~up' /\ ~dirty' /\ UNCHANGED <<disk, promised>>
        /\ lost' = lost \cup {d \in Known(promised) : ~Saved(d)}
        /\ AllIdle'
    BY <1>5 DEF Crash, AllIdle, Idle
  <2>2. \A d \in Known(promised) \ lost' : Saved(d)
    BY <2>1
  <2>3. \A d \in Known(promised)' \ lost' : Saved(d)'
    BY <2>1, <2>2 DEF Saved, Known
  <2> QED
    BY <2>1, <2>3 DEF WhileUp, WhileDown
<1>6. CASE loadState
  <2>1. /\ ~up /\ up' /\ UNCHANGED <<promised, lost>>
        /\ devices' = (IF file = None THEN NoState
                       ELSE content[file].data).devices
    BY <1>6 DEF loadState
  <2>2. \A d \in Known(promised) \ lost : devices'[d] = promised[d]
    BY <1>0, <2>1 DEF WhileDown, Saved
  <2> QED
    BY <2>1, <2>2 DEF WhileUp, WhileDown, Known
<1>7. CASE UNCHANGED fileVars
  BY <1>0, <1>7 DEF fileVars, WhileUp, WhileDown, AllIdle, Saved, Known
<1> QED
  BY <1>1, <1>2, <1>3, <1>4, <1>5, <1>6, <1>7 DEF Next, FileNext

LEMMA StateFileKept == Spec => []KeptInv
<1>1. Init => KeptInv
  BY InitTypes
  DEF Init, KeptInv, WhileUp, WhileDown, Known, NoDevices
<1>2. KeptInv /\ [Next]_fileVars => KeptInv'
  BY NextTypes, NextKeeps DEF KeptInv
<1> QED
  BY <1>1, <1>2, PTL DEF Spec

\* Whatever overlaps, crashes and fails: a device whose address the file had
\* whenever the server went down still has the address it was told (deviceFor,
\* loadState).
THEOREM SavedAddressKept == Spec => []AddressKept
<1>1. KeptInv => AddressKept
  BY DEF KeptInv, WhileUp, AddressKept
<1> QED
  BY <1>1, StateFileKept, PTL

-----------------------------------------------------------------------------
(* Registrations that do not overlap a save.  Then one flush is active at  *)
(* most, it saves the table of the moment, and nobody else has a hand on   *)
(* the temporary file.  That the sweep may come before a goroutine that    *)
(* has not begun does no harm: the second of the two finds nothing dirty.  *)

Active(f) == flush[f].pc \in {"open", "write", "rename"}

\* What is active is the only one, and nothing has changed since.
OneSave ==
  /\ \A f, g \in Flushers : Active(f) /\ Active(g) => f = g
  /\ \A f \in Flushers : Active(f) => ~dirty /\ flush[f].data = Current

\* There is something to save, so that the file will not be empty.
SomethingToSave == dirty \/ ~AllIdle => Size(Current) > 0

\* How far the temporary file is.
TmpReady ==
  \A f \in Flushers :
    /\ flush[f].pc = "write" =>
         /\ tmp # None /\ flush[f].fd = tmp
         /\ content[tmp] = EmptyFile
    /\ flush[f].pc = "rename" =>
         /\ tmp # None
         /\ content[tmp].data = flush[f].data
         /\ Whole(content[tmp])

FileSound == FileWhole /\ (tmp # None => tmp # file)

OnFile == IF file = None THEN NoState ELSE content[file].data
\* Without an error what is not being saved has been.
NothingMissing ==
  up /\ ~dirty /\ errors = 0 /\ (\A f \in Flushers : ~Active(f)) =>
    Current = OnFile

SaveInv ==
  /\ KeptInv
  /\ OneSave /\ SomethingToSave /\ TmpReady /\ FileSound /\ NothingMissing

\* What else than KeptInv is to be shown of a step.
SaveParts ==
  OneSave /\ SomethingToSave /\ TmpReady /\ FileSound /\ NothingMissing

LEMMA SizeIsPositive ==
  ASSUME NEW s \in State,
         \/ \E d \in Devices : s.devices[d] # None
         \/ \E n \in Networks : s.subnets[n] # None
  PROVE  Size(s) > 0
<1> DEFINE K == Known(s.devices)
           C == Created(s.subnets)
<1>1. K \in SUBSET Devices /\ C \in SUBSET Networks
  BY DEF Known, Created
<1>2. IsFiniteSet(K) /\ IsFiniteSet(C)
  BY <1>1, StateFileAssumption, FS_Subset
<1>3. K # {} \/ C # {}
  BY DEF Known, Created
<1> HIDE DEF K, C
<1>4. Cardinality(K) \in Nat /\ Cardinality(C) \in Nat
  BY <1>2, FS_CardinalityType
<1>5. (Cardinality(K) = 0 => K = {}) /\ (Cardinality(C) = 0 => C = {})
  BY <1>2, FS_EmptySet
<1>6. Cardinality(K) + Cardinality(C) > 0
  BY <1>3, <1>4, <1>5
<1> QED
  BY <1>6 DEF Size, K, C

\* After a registration nothing is active, and there is something to save.
LEMMA RegistrationIsSpaced ==
  ASSUME Spaced, SaveInv, KeptInv',
         \/ \E d \in Devices, f \in Savers : Register(d, f)
         \/ \E n \in Networks, f \in Savers : RegisterElsewhere(n, f)
  PROVE  SaveParts'
<1> USE DEF server, disk
<1>0. TypeOK /\ TypeOK' /\ FileSound /\ NothingMissing
  BY DEF SaveInv, KeptInv
<1>1. PICK f \in Savers :
        \/ \E d \in Devices : Register(d, f)
        \/ \E n \in Networks : RegisterElsewhere(n, f)
  OBVIOUS
<1>2. /\ AllIdle /\ up /\ up'
      /\ flush' = [flush EXCEPT ![f].pc = "begin"]
      /\ UNCHANGED <<disk, errors>>
  BY <1>1 DEF Register, RegisterElsewhere
<1>3. \A g \in Flushers : flush'[g].pc \in {"idle", "begin"}
  BY <1>0, <1>2 DEF AllIdle, TypeOK
<1>4. OneSave' /\ TmpReady' /\ \A g \in Flushers : ~Active(g) /\ ~Active(g)'
  BY <1>2, <1>3 DEF OneSave, TmpReady, Active, AllIdle
<1>5. FileSound'
  BY <1>0, <1>2 DEF FileSound, FileWhole, Whole, Size
<1>6. SomethingToSave'
  <2>1. \/ \E d \in Devices : devices'[d] # None
        \/ \E n \in Networks : subnets'[n] # None
    <3>1. ASSUME NEW d \in Devices, Register(d, f)
          PROVE  devices'[d] # None
      BY <1>0, <3>1, RegisterTypes, StateFileAssumption
    <3>2. ASSUME NEW n \in Networks, RegisterElsewhere(n, f)
          PROVE  subnets'[n] # None
      BY <1>0, <3>2, NetworkForIt, StateFileAssumption DEF RegisterElsewhere
    <3> QED
      BY <1>1, <3>1, <3>2
  <2>2. Current' \in State
    BY <1>0 DEF TypeOK, State, Current
  <2>3. Size(Current') > 0
    BY <2>1, <2>2, SizeIsPositive DEF Current
  <2> QED
    BY <2>3 DEF SomethingToSave
<1>7. NothingMissing'
  <2>1. ~dirty' => ~dirty /\ devices' = devices /\ subnets' = subnets
    BY <1>1 DEF Register, RegisterElsewhere
  <2> QED
    BY <1>0, <1>2, <1>4, <2>1 DEF NothingMissing, Current, OnFile
<1> QED
  BY <1>4, <1>5, <1>6, <1>7 DEF SaveParts

\* A snapshot is taken only when no flush is active.
LEMMA SnapshotIsSpaced ==
  ASSUME SaveInv, NEW f \in Flushers,
         \/ Sweep /\ f = Sweeper
         \/ FlushBegin(f)
  PROVE  SaveParts'
<1> USE DEF server, disk
<1>0. /\ TypeOK /\ OneSave /\ SomethingToSave /\ TmpReady /\ FileSound
      /\ NothingMissing
  BY DEF SaveInv, KeptInv
<1>1. /\ UNCHANGED <<up, devices, subnets, disk, errors>> /\ ~dirty'
      /\ flush[f].pc \in {"idle", "begin"}
      /\ flush' = [flush EXCEPT ![f] =
           IF dirty THEN [pc |-> "open", data |-> Current, fd |-> None]
           ELSE Idle]
  BY DEF Sweep, FlushBegin
<1>2. Current' = Current /\ FileSound'
  BY <1>0, <1>1 DEF FileSound, FileWhole, Whole, Size, Current
<1>3. CASE dirty
  <2>1. \A g \in Flushers : ~Active(g)
    BY <1>0, <1>3 DEF OneSave
  <2>2. /\ flush'[f] = [pc |-> "open", data |-> Current, fd |-> None]
        /\ \A g \in Flushers \ {f} : flush'[g] = flush[g]
    BY <1>0, <1>1, <1>3 DEF TypeOK
  <2>3. OneSave'
    BY <1>1, <1>2, <2>1, <2>2 DEF OneSave, Active
  <2>4. SomethingToSave'
    BY <1>0, <1>2, <1>3 DEF SomethingToSave
  <2>5. TmpReady'
    BY <2>1, <2>2 DEF TmpReady, Active
  <2>6. NothingMissing'
    BY <2>2 DEF NothingMissing, Active
  <2> QED
    BY <1>2, <2>3, <2>4, <2>5, <2>6 DEF SaveParts
<1>4. CASE ~dirty
  <2>1. /\ flush'[f] = Idle
        /\ \A g \in Flushers \ {f} : flush'[g] = flush[g]
    BY <1>0, <1>1, <1>4 DEF TypeOK
  <2>2. \A g \in Flushers : (Active(g)' <=> Active(g)) /\ (Active(g) => g # f)
    BY <1>1, <2>1 DEF Active, Idle
  <2>3. OneSave'
    BY <1>0, <1>1, <1>2, <2>1, <2>2 DEF OneSave
  <2>4. AllIdle => AllIdle'
    BY <2>1 DEF AllIdle, Idle
  <2>5. SomethingToSave'
    BY <1>0, <1>1, <1>2, <2>4 DEF SomethingToSave
  <2>6. TmpReady'
    BY <1>0, <1>1, <2>1 DEF TmpReady, Idle, Whole, Size
  <2>7. NothingMissing'
    BY <1>0, <1>1, <1>2, <1>4, <2>2 DEF NothingMissing, OnFile
  <2> QED
    BY <1>2, <2>3, <2>5, <2>6, <2>7 DEF SaveParts
<1> QED
  BY <1>3, <1>4

\* A flush goes on with the temporary file it has for itself.
LEMMA OpenIsSpaced ==
  ASSUME SaveInv, NEW f \in Flushers, FlushOpen(f)
  PROVE  SaveParts'
<1> USE DEF server, disk
<1>0. /\ TypeOK /\ OneSave /\ SomethingToSave /\ FileSound
      /\ flush[f].pc = "open"
  BY DEF SaveInv, KeptInv, FlushOpen
<1> DEFINE i == IF tmp = None THEN CHOOSE j \in Unused : TRUE ELSE tmp
<1>1. i \in Inodes /\ i # None /\ i # file
  BY <1>0, FreshInode, StateFileAssumption DEF Unused, TypeOK, FileSound
<1> HIDE DEF i
<1>2. /\ tmp' = i /\ file' = file
      /\ content' = [content EXCEPT ![i] = EmptyFile]
      /\ flush' = [flush EXCEPT ![f].pc = "write", ![f].fd = i]
      /\ UNCHANGED server
  BY DEF FlushOpen, i
<1>3. /\ Current' = Current
      /\ \A g \in Flushers : /\ flush'[g].data = flush[g].data
                             /\ Active(g)' <=> Active(g)
  BY <1>0, <1>2 DEF Current, Active, TypeOK
<1>4. \A g \in Flushers : Active(g) => g = f
  BY <1>0 DEF OneSave, Active
<1>5. OneSave'
  BY <1>0, <1>2, <1>3 DEF OneSave
<1>6. SomethingToSave'
  BY <1>0, <1>2, <1>3 DEF SomethingToSave, AllIdle
<1>7. TmpReady'
  <2>1. flush'[f].pc = "write" /\ flush'[f].fd = i
    BY <1>0, <1>2 DEF TypeOK
  <2>2. content'[i] = EmptyFile
    BY <1>0, <1>1, <1>2 DEF TypeOK
  <2>3. \A g \in Flushers \ {f} : flush'[g].pc \notin {"write", "rename"}
    BY <1>3, <1>4 DEF Active
  <2> QED
    BY <1>1, <1>2, <2>1, <2>2, <2>3 DEF TmpReady
<1>8. FileSound'
  <2>1. file # None => content'[file] = content[file]
    BY <1>0, <1>1, <1>2 DEF TypeOK
  <2> QED
    BY <1>0, <1>1, <1>2, <2>1 DEF FileSound, FileWhole, Whole, Size
<1>9. NothingMissing'
  BY <1>0, <1>3 DEF NothingMissing, Active
<1> QED
  BY <1>5, <1>6, <1>7, <1>8, <1>9 DEF SaveParts

LEMMA WriteIsSpaced ==
  ASSUME SaveInv, NEW f \in Flushers, FlushWrite(f)
  PROVE  SaveParts'
<1> USE DEF server, disk
<1>0. /\ TypeOK /\ OneSave /\ SomethingToSave /\ TmpReady /\ FileSound
      /\ flush[f].pc = "write"
  BY DEF SaveInv, KeptInv, FlushWrite
<1> DEFINE data == flush[f].data
           new == [data |-> data, size |-> Size(data)]
<1>1. /\ tmp \in Inodes /\ tmp # None /\ tmp # file
      /\ flush[f].fd = tmp /\ content[tmp] = EmptyFile
  BY <1>0 DEF TypeOK, TmpReady, FileSound
<1>2. data = Current /\ Size(data) > 0
  BY <1>0 DEF OneSave, Active, SomethingToSave, AllIdle
<1>3. data \in State /\ Size(data) \in Nat
  BY <1>0, SizeIsNatural DEF TypeOK
<1>4. /\ content' = [content EXCEPT ![tmp] = new]
      /\ flush' = [flush EXCEPT ![f].pc = "rename", ![f].fd = None]
      /\ UNCHANGED <<server, tmp, file>>
  <2>1. content[tmp].size = 0 /\ ~(Size(data) < content[tmp].size)
    BY <1>1, <1>3 DEF EmptyFile
  <2>2. content' = [content EXCEPT ![tmp] =
          [data |-> data,
           size |-> IF Size(data) < content[tmp].size
                      THEN content[tmp].size ELSE Size(data)]]
    BY <1>1 DEF FlushWrite
  <2>3. content' = [content EXCEPT ![tmp] = new]
    BY <2>1, <2>2
  <2> QED
    BY <2>3 DEF FlushWrite
<1>5. /\ Current' = Current
      /\ \A g \in Flushers : /\ flush'[g].data = flush[g].data
                             /\ Active(g)' <=> Active(g)
  BY <1>0, <1>4 DEF Current, Active, TypeOK
<1>6. \A g \in Flushers : Active(g) => g = f
  BY <1>0 DEF OneSave, Active
<1>7. OneSave'
  BY <1>0, <1>4, <1>5 DEF OneSave
<1>8. SomethingToSave'
  BY <1>0, <1>4, <1>5 DEF SomethingToSave, AllIdle
<1>9. TmpReady'
  <2>1. flush'[f].pc = "rename" /\ flush'[f].data = data
    BY <1>0, <1>4 DEF TypeOK
  <2>2. content'[tmp] = new
    BY <1>0, <1>1, <1>4 DEF TypeOK
  <2>3. \A g \in Flushers \ {f} : flush'[g].pc \notin {"write", "rename"}
    BY <1>5, <1>6 DEF Active
  <2>4. content'[tmp'].data = data /\ Whole(content'[tmp'])
    BY <1>2, <1>4, <2>2 DEF Whole
  <2> QED
    BY <1>1, <1>4, <2>1, <2>3, <2>4 DEF TmpReady
<1>10. FileSound'
  <2>1. file # None => content'[file] = content[file]
    BY <1>0, <1>1, <1>4 DEF TypeOK
  <2> QED
    BY <1>0, <1>1, <1>4, <2>1 DEF FileSound, FileWhole, Whole, Size
<1>11. NothingMissing'
  BY <1>0, <1>5 DEF NothingMissing, Active
<1> QED
  BY <1>7, <1>8, <1>9, <1>10, <1>11 DEF SaveParts

\* It ends: with the file, or with an error that is counted.
LEMMA EndIsSpaced ==
  ASSUME SaveInv, NEW f \in Flushers, FlushRename(f) \/ FlushError(f)
  PROVE  SaveParts'
<1> USE DEF server, disk
<1>0. /\ TypeOK /\ OneSave /\ SomethingToSave /\ TmpReady /\ FileSound
      /\ Active(f)
  BY DEF SaveInv, KeptInv, FlushRename, FlushError, Active
<1>1. /\ flush' = [flush EXCEPT ![f] = Idle]
      /\ UNCHANGED <<server, content>>
  BY DEF FlushRename, FlushError
<1>2. flush'[f] = Idle /\ \A g \in Flushers \ {f} : flush'[g] = flush[g]
  BY <1>0, <1>1 DEF TypeOK
<1>3. Current' = Current /\ \A g \in Flushers : ~Active(g)'
  BY <1>0, <1>1, <1>2 DEF Current, Active, Idle, OneSave
<1>4. OneSave' /\ TmpReady'
  BY <1>3 DEF OneSave, TmpReady, Active
<1>5. SomethingToSave'
  BY <1>0, <1>1, <1>3 DEF SomethingToSave, Active, AllIdle
<1>6. FileSound' /\ NothingMissing'
  <2>1. CASE FlushRename(f)
    <3>1. /\ tmp # None /\ Whole(content[tmp])
          /\ content[tmp].data = flush[f].data /\ flush[f].data = Current
      BY <1>0, <2>1 DEF FlushRename, TmpReady, OneSave
    <3>2. file' = tmp /\ tmp' = None /\ content' = content
      BY <2>1, <3>1 DEF FlushRename
    <3>3. FileSound'
      BY <3>1, <3>2 DEF FileSound, FileWhole, Whole, Size
    <3>4. NothingMissing'
      BY <1>3, <3>1, <3>2 DEF NothingMissing, OnFile
    <3> QED
      BY <3>3, <3>4
  <2>2. CASE FlushError(f)
    <3>1. UNCHANGED <<tmp, file, content>> /\ errors' # 0
      BY <1>0, <2>2, StateFileAssumption DEF FlushError, TypeOK
    <3> QED
      BY <1>0, <3>1
      DEF FileSound, FileWhole, Whole, Size, NothingMissing
  <2> QED
    BY <2>1, <2>2
<1> QED
  BY <1>4, <1>5, <1>6 DEF SaveParts

\* A crash ends all saves, and there is none before the file has been read.
LEMMA RestartIsSpaced ==
  ASSUME SaveInv, Crash \/ loadState
  PROVE  SaveParts'
<1> USE DEF server, disk
<1>0. TypeOK /\ WhileDown /\ FileSound
  BY DEF SaveInv, KeptInv
<1>1. UNCHANGED disk /\ ~dirty' /\ AllIdle'
  BY <1>0 DEF Crash, loadState, WhileDown, AllIdle, Idle
<1>2. \A g \in Flushers : ~Active(g)' /\ flush'[g].pc = "idle"
  BY <1>1 DEF Active, AllIdle
<1>3. OneSave' /\ TmpReady' /\ SomethingToSave'
  BY <1>1, <1>2 DEF OneSave, TmpReady, SomethingToSave
<1>4. FileSound'
  BY <1>0, <1>1 DEF FileSound, FileWhole, Whole, Size
<1>5. NothingMissing'
  <2>1. CASE Crash
    BY <2>1 DEF Crash, NothingMissing
  <2>2. CASE loadState
    <3>1. OnFile \in State
      BY <1>0, SnapshotTypes DEF TypeOK, OnFile, Content
    <3>2. devices' = OnFile.devices /\ subnets' = OnFile.subnets
      BY <2>2 DEF loadState, OnFile
    <3>3. Current' = OnFile
      BY <3>1, <3>2 DEF Current, State
    <3>4. OnFile' = OnFile
      BY <1>1 DEF OnFile
    <3> QED
      BY <3>3, <3>4 DEF NothingMissing
  <2> QED
    BY <2>1, <2>2
<1> QED
  BY <1>3, <1>4, <1>5 DEF SaveParts

LEMMA StateFileSpaced ==
  ASSUME Spaced
  PROVE  Spec => []SaveInv
<1>1. Init => SaveInv
  <2> SUFFICES ASSUME Init PROVE SaveInv
    OBVIOUS
  <2>1. KeptInv
    BY InitTypes DEF Init, KeptInv, WhileUp, WhileDown, Known, NoDevices
  <2>2. \A f \in Flushers : flush[f].pc = "idle" /\ ~Active(f)
    BY DEF Init, Idle, Active
  <2>3. OneSave /\ SomethingToSave /\ TmpReady
    BY <2>2
    DEF Init, OneSave, SomethingToSave, AllIdle, TmpReady
  <2>4. FileSound /\ NothingMissing
    BY DEF Init, FileSound, FileWhole, NothingMissing, Current, OnFile, NoState
  <2> QED
    BY <2>1, <2>3, <2>4 DEF SaveInv
<1>2. SaveInv /\ [Next]_fileVars => SaveInv'
  <2> SUFFICES ASSUME SaveInv, [Next]_fileVars PROVE SaveInv'
    OBVIOUS
  <2>0. KeptInv'
    BY NextTypes, NextKeeps DEF SaveInv, KeptInv
  <2> SUFFICES SaveParts'
    BY <2>0 DEF SaveInv, SaveParts
  <2>1. ASSUME NEW d \in Devices, NEW f \in Savers, Register(d, f)
        PROVE  SaveParts'
    BY <2>0, <2>1, RegistrationIsSpaced
  <2>2. ASSUME NEW n \in Networks, NEW f \in Savers, RegisterElsewhere(n, f)
        PROVE  SaveParts'
    BY <2>0, <2>2, RegistrationIsSpaced
  <2>3. CASE Sweep
    BY <2>3, SnapshotIsSpaced DEF Flushers
  <2>4. ASSUME NEW f \in Flushers, FlushBegin(f)
        PROVE  SaveParts'
    BY <2>4, SnapshotIsSpaced
  <2>5. ASSUME NEW f \in Flushers, FlushOpen(f)
        PROVE  SaveParts'
    BY <2>5, OpenIsSpaced
  <2>6. ASSUME NEW f \in Flushers, FlushWrite(f)
        PROVE  SaveParts'
    BY <2>6, WriteIsSpaced
  <2>7. ASSUME NEW f \in Flushers, FlushRename(f) \/ FlushError(f)
        PROVE  SaveParts'
    BY <2>7, EndIsSpaced
  <2>8. CASE Crash \/ loadState
    BY <2>8, RestartIsSpaced
  <2>9. CASE UNCHANGED fileVars
    BY <2>9 DEF SaveInv, SaveParts, OneSave, SomethingToSave, TmpReady,
      FileSound, NothingMissing, fileVars, server, disk, Active, AllIdle,
      Current, OnFile, FileWhole, Whole, Size
  <2> QED
    BY <2>1, <2>2, <2>3, <2>4, <2>5, <2>6, <2>7, <2>8, <2>9
    DEF Next, FileNext
<1> QED
  BY <1>1, <1>2, PTL DEF Spec

\* If registrations come one save after the other, the state file is never
\* torn, at whatever step of a save the server ends or a write fails
\* (flushState, rename of a temporary file).
THEOREM FileIsWhole ==
  ASSUME Spaced
  PROVE  Spec => []FileWhole
<1>1. SaveInv => FileWhole
  BY DEF SaveInv, FileSound
<1> QED
  BY <1>1, StateFileSpaced, PTL

\* And when nothing is left to save, the file has what is in memory, unless a
\* write has failed: clearing stateDirty before writing loses no change
\* (flushState).
THEOREM FileIsUpToDate ==
  ASSUME Spaced
  PROVE  Spec => []UpToDate
<1>1. SaveInv => UpToDate
  BY DEF SaveInv, NothingMissing, UpToDate, AllIdle, Active, OnFile
<1> QED
  BY <1>1, StateFileSpaced, PTL
=============================================================================
