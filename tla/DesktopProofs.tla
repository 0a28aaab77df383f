---------------------------- MODULE DesktopProofs ----------------------------
(***************************************************************************)
(* Proofs about Desktop for any networks, keys, peers and rows, and any    *)
(* number of programs, clients, crashes and errors.                        *)
(***************************************************************************)
EXTENDS Desktop, StoreProofs, FiniteSetTheorems, WellFoundedInduction

-----------------------------------------------------------------------------
(* Sets of numbers, and sequences of sequences. *)

\* A set of numbers has a least one.  The library's induction is about
\* operators; its strict inclusion of finite sets is well-founded as it stands.
LEMMA LeastNumber ==
  ASSUME NEW T \in SUBSET Nat, T # {}
  PROVE  \E n \in T : \A m \in T : n <= m
<1> DEFINE below == {1 .. n : n \in T}
<1>1. IsWellFoundedOn(StrictSubsetOrdering(Nat), FiniteSubsetsOf(Nat))
  BY FS_StrictSubsetOrderingWellFounded
<1>2. \A n \in Nat : 1 .. n \in FiniteSubsetsOf(Nat)
  BY FS_Interval DEF FiniteSubsetsOf
<1>3. below \subseteq FiniteSubsetsOf(Nat) /\ below # {}
  BY <1>2
<1>4. PICK x \in below :
        \A y \in below : ~(<<y, x>> \in StrictSubsetOrdering(Nat))
  BY <1>1, <1>3, WFMin
<1>5. PICK n \in T : x = 1 .. n
  BY <1>4
<1>6. ASSUME NEW m \in T, m < n
      PROVE  FALSE
  <2>1. 1 .. m \subseteq 1 .. n /\ 1 .. m # 1 .. n
    BY <1>5, <1>6
  <2>2. <<1 .. m, 1 .. n>> \in StrictSubsetOrdering(Nat)
    BY <2>1 DEF StrictSubsetOrdering
  <2> QED
    BY <1>4, <1>5, <1>6, <2>2
<1> QED
  BY <1>6

\* The parts of a flattened sequence of sequences, each appended to those
\* before it.
Appended(f, s, n) ==
  /\ f[1] = s[1]
  /\ \A i \in 2 .. n : f[i] = f[i - 1] \o s[i]

LEMMA AppendedExists ==
  ASSUME NEW S, NEW n \in Nat \ {0}, NEW s \in [1 .. n -> Seq(S)]
  PROVE  \E f \in [1 .. n -> Seq(S)] : Appended(f, s, n)
<1> DEFINE without == {k \in 1 .. n :
                         ~ \E f \in [1 .. k -> Seq(S)] : Appended(f, s, k)}
<1>1. SUFFICES ASSUME without # {} PROVE FALSE
  OBVIOUS
<1>0. /\ without \in SUBSET Nat
      /\ \A k \in 1 .. n : k \notin without =>
           \E f \in [1 .. k -> Seq(S)] : Appended(f, s, k)
  OBVIOUS
<1>2. PICK k \in without : \A m \in without : k <= m
  <2> HIDE DEF without
  <2> QED
    BY <1>0, <1>1, LeastNumber
<1>3. k \in 1 .. n /\ ~ \E f \in [1 .. k -> Seq(S)] : Appended(f, s, k)
  BY <1>2
<1>4. CASE k = 1
  <2>1. Appended([i \in 1 .. 1 |-> s[1]], s, 1)
    BY DEF Appended
  <2>2. [i \in 1 .. 1 |-> s[1]] \in [1 .. 1 -> Seq(S)]
    OBVIOUS
  <2> QED
    BY <1>3, <1>4, <2>1, <2>2
<1>5. CASE k > 1
  <2>1. k - 1 \in 1 .. n /\ k - 1 \notin without
    <3> HIDE DEF without
    <3> QED
      BY <1>2, <1>3, <1>5
  <2>2. PICK f \in [1 .. k - 1 -> Seq(S)] : Appended(f, s, k - 1)
    BY <1>0, <2>1
  <2> DEFINE g == [i \in 1 .. k |-> IF i = k THEN f[k - 1] \o s[k] ELSE f[i]]
  <2>3. f[k - 1] \o s[k] \in Seq(S)
    BY <1>3, <1>5
  <2>4. g \in [1 .. k -> Seq(S)]
    BY <1>3, <1>5, <2>3
  <2>5. g[1] = s[1]
    <3>1. f[1] = s[1] /\ 1 \in 1 .. k /\ k # 1
      BY <1>3, <1>5, <2>2 DEF Appended
    <3> QED
      BY <3>1
  <2>6. ASSUME NEW i \in 2 .. k
        PROVE  g[i] = g[i - 1] \o s[i]
    <3>1. g[i - 1] = f[i - 1]
      BY <1>3, <2>6
    <3>2. g[i] = f[i - 1] \o s[i]
      <4>1. CASE i = k
        BY <1>5, <4>1
      <4>2. CASE i # k
        <5>1. i \in 2 .. k - 1 /\ g[i] = f[i]
          BY <1>3, <4>2
        <5>2. f[i] = f[i - 1] \o s[i]
          BY <2>2, <5>1 DEF Appended
        <5> HIDE DEF g
        <5> QED
          BY <5>1, <5>2
      <4> QED
        BY <4>1, <4>2
    <3> HIDE DEF g
    <3> QED
      BY <3>1, <3>2
  <2>7. Appended(g, s, k)
    <3> HIDE DEF g
    <3> QED
      BY <2>5, <2>6 DEF Appended
  <2> HIDE DEF g
  <2> QED
    BY <1>3, <2>4, <2>7
<1> QED
  BY <1>3, <1>4, <1>5

LEMMA FlattenIs ==
  ASSUME NEW S, NEW n \in Nat \ {0}, NEW s \in [1 .. n -> Seq(S)]
  PROVE  \E f : Appended(f, s, n) /\ FlattenSeq(s) = f[n]
<1>1. PICK f \in [1 .. n -> Seq(S)] : Appended(f, s, n)
  BY AppendedExists
<1> DEFINE step(h) ==
      [i \in 1 .. n |-> IF i = 1 THEN s[i] ELSE h[i - 1] \o s[i]]
           flatten == CHOOSE h : h = step(h)
<1>2. f = step(f)
  <2>1. ASSUME NEW i \in 1 .. n
        PROVE  f[i] = step(f)[i]
    <3>1. CASE i = 1
      BY <1>1, <3>1 DEF Appended
    <3>2. CASE i # 1
      <4>1. i \in 2 .. n
        BY <3>2
      <4>2. step(f)[i] = f[i - 1] \o s[i]
        BY <3>2
      <4> HIDE DEF step
      <4> QED
        BY <1>1, <4>1, <4>2 DEF Appended
    <3> QED
      BY <3>1, <3>2
  <2>2. f = [i \in 1 .. n |-> f[i]] /\ step(f) = [i \in 1 .. n |-> step(f)[i]]
    BY <1>1
  <2> HIDE DEF step
  <2> QED
    BY <2>1, <2>2
<1>3. flatten = step(flatten)
  <2> HIDE DEF step
  <2> QED
    BY <1>2
<1>4. Appended(flatten, s, n)
  <2> HIDE DEF flatten
  <2>1. \A i \in 1 .. n : flatten[i] = step(flatten)[i]
    <3> HIDE DEF step
    <3> QED
      BY <1>3
  <2>2. step(flatten)[1] = s[1]
    BY <1>1
  <2>3. \A i \in 2 .. n : step(flatten)[i] = flatten[i - 1] \o s[i]
    <3> TAKE i \in 2 .. n
    <3>1. i \in 1 .. n /\ i # 1
      OBVIOUS
    <3> QED
      BY <3>1
  <2>4. 1 \in 1 .. n /\ \A i \in 2 .. n : i \in 1 .. n
    OBVIOUS
  <2> HIDE DEF step
  <2>5. flatten[1] = s[1]
    BY <2>1, <2>2, <2>4
  <2>6. \A i \in 2 .. n : flatten[i] = flatten[i - 1] \o s[i]
    BY <2>1, <2>3, <2>4
  <2> QED
    BY <2>5, <2>6 DEF Appended
<1>5. Len(s) = n
  OBVIOUS
<1>6. FlattenSeq(s) = flatten[n]
  BY <1>5 DEF FlattenSeq
<1> QED
  BY <1>4, <1>6

\* Every element of a sequence comes from one of the first k parts, together
\* with those around it there.
From(t, s, k) ==
  \A p \in 1 .. Len(t) :
    \E i \in 1 .. k : \E j \in 1 .. Len(s[i]) :
      /\ t[p] = s[i][j]
      /\ j > 1 => p > 1 /\ t[p - 1] = s[i][j - 1]
      /\ j < Len(s[i]) => p < Len(t) /\ t[p + 1] = s[i][j + 1]

LEMMA FromAppended ==
  ASSUME NEW S, NEW n \in Nat, NEW s \in [1 .. n -> Seq(S)],
         NEW k \in 2 .. n, NEW a \in Seq(S), From(a, s, k - 1)
  PROVE  a \o s[k] \in Seq(S) /\ From(a \o s[k], s, k)
<1> DEFINE b == s[k]
           t == a \o b
<1>1. k \in 1 .. n /\ b \in Seq(S)
  OBVIOUS
<1>2. /\ t \in Seq(S) /\ Len(t) = Len(a) + Len(b)
      /\ Len(a) \in Nat /\ Len(b) \in Nat
      /\ \A p \in 1 .. Len(a) : t[p] = a[p]
      /\ \A p \in 1 .. Len(b) : t[Len(a) + p] = b[p]
  BY <1>1
<1> HIDE DEF t
<1>3. ASSUME NEW p \in 1 .. Len(t)
      PROVE  \E i \in 1 .. k : \E j \in 1 .. Len(s[i]) :
               /\ t[p] = s[i][j]
               /\ j > 1 => p > 1 /\ t[p - 1] = s[i][j - 1]
               /\ j < Len(s[i]) => p < Len(t) /\ t[p + 1] = s[i][j + 1]
  <2>1. CASE p <= Len(a)
    <3>1. PICK i \in 1 .. k - 1 : \E j \in 1 .. Len(s[i]) :
            /\ a[p] = s[i][j]
            /\ j > 1 => p > 1 /\ a[p - 1] = s[i][j - 1]
            /\ j < Len(s[i]) => p < Len(a) /\ a[p + 1] = s[i][j + 1]
      <4>1. p \in 1 .. Len(a)
        BY <1>2, <1>3, <2>1
      <4> QED
        BY <4>1 DEF From
    <3>2. PICK j \in 1 .. Len(s[i]) :
            /\ a[p] = s[i][j]
            /\ j > 1 => p > 1 /\ a[p - 1] = s[i][j - 1]
            /\ j < Len(s[i]) => p < Len(a) /\ a[p + 1] = s[i][j + 1]
      BY <3>1
    <3>3. i \in 1 .. k
      OBVIOUS
    <3>4. /\ t[p] = a[p]
          /\ p > 1 => t[p - 1] = a[p - 1]
          /\ p < Len(a) => p < Len(t) /\ t[p + 1] = a[p + 1]
      BY <1>2, <1>3, <2>1
    <3> QED
      BY <3>2, <3>3, <3>4
  <2>2. CASE p > Len(a)
    <3>1. PICK j \in 1 .. Len(b) : p = Len(a) + j
      <4>1. p - Len(a) \in 1 .. Len(b) /\ p = Len(a) + (p - Len(a))
        BY <1>2, <1>3, <2>2
      <4> QED
        BY <4>1
    <3>2. t[p] = b[j]
      BY <1>2, <3>1
    <3>3. j > 1 => p > 1 /\ t[p - 1] = b[j - 1]
      <4>1. j > 1 => j - 1 \in 1 .. Len(b) /\ p - 1 = Len(a) + (j - 1)
        BY <1>2, <3>1
      <4> QED
        BY <1>2, <3>1, <4>1
    <3>4. j < Len(b) => p < Len(t) /\ t[p + 1] = b[j + 1]
      <4>1. j < Len(b) => j + 1 \in 1 .. Len(b) /\ p + 1 = Len(a) + (j + 1)
        BY <1>2, <3>1
      <4> QED
        BY <1>2, <3>1, <4>1
    <3> QED
      BY <3>1, <3>2, <3>3, <3>4
  <2> QED
    BY <1>2, <1>3, <2>1, <2>2
<1> QED
  BY <1>2, <1>3 DEF From, t

LEMMA FlattenElements ==
  ASSUME NEW S, NEW n \in Nat, NEW s \in [1 .. n -> Seq(S)]
  PROVE  FlattenSeq(s) \in Seq(S) /\ From(FlattenSeq(s), s, n)
<1>1. CASE n = 0
  <2>1. Len(s) = 0 /\ s = << >>
    BY <1>1
  <2>2. FlattenSeq(s) = << >>
    BY <2>1 DEF FlattenSeq
  <2> QED
    BY <2>2 DEF From
<1>2. CASE n # 0
  <2>1. PICK f : Appended(f, s, n) /\ FlattenSeq(s) = f[n]
    BY <1>2, FlattenIs
  <2>2. f[1] \in Seq(S) /\ From(f[1], s, 1)
    BY <1>2, <2>1 DEF Appended, From
  <2>3. ASSUME NEW k \in 2 .. n, f[k - 1] \in Seq(S), From(f[k - 1], s, k - 1)
        PROVE  f[k] \in Seq(S) /\ From(f[k], s, k)
    <3>1. f[k] = f[k - 1] \o s[k]
      BY <2>1 DEF Appended
    <3>2. f[k - 1] \o s[k] \in Seq(S) /\ From(f[k - 1] \o s[k], s, k)
      BY <2>3, FromAppended
    <3> QED
      BY <3>1, <3>2
  <2> DEFINE wrong == {k \in 1 .. n : ~(f[k] \in Seq(S) /\ From(f[k], s, k))}
  <2>4. wrong = {}
    <3>1. SUFFICES ASSUME wrong # {} PROVE FALSE
      OBVIOUS
    <3>2. wrong \in SUBSET Nat
      OBVIOUS
    <3>3. PICK k \in wrong : \A m \in wrong : k <= m
      <4> HIDE DEF wrong
      <4> QED
        BY <3>1, <3>2, LeastNumber
    <3>4. k \in 1 .. n /\ k # 1
      BY <2>2
    <3>5. k - 1 \in 1 .. n /\ k - 1 \notin wrong
      <4> HIDE DEF wrong
      <4> QED
        BY <3>3, <3>4
    <3>6. f[k - 1] \in Seq(S) /\ From(f[k - 1], s, k - 1) /\ k \in 2 .. n
      BY <3>4, <3>5
    <3> QED
      BY <2>3, <3>6
  <2>5. f[n] \in Seq(S) /\ From(f[n], s, n)
    <3>1. n \in 1 .. n
      BY <1>2
    <3>2. n \notin wrong
      BY <2>4
    <3> QED
      BY <3>1, <3>2
  <2> QED
    BY <2>1, <2>5
<1> QED
  BY <1>1, <1>2

-----------------------------------------------------------------------------
(* What is drawn. *)

\* Every row that has a peer has one: no two have the same number below them.
LEMMA PeerInRow ==
  ASSUME NEW peers \in SUBSET Nat, IsFiniteSet(peers),
         NEW i \in 1 .. Cardinality(peers)
  PROVE  PeerIn(peers, i) \in peers
<1> DEFINE n == Cardinality(peers)
           below(p) == {q \in peers : q < p}
           rank == [p \in peers |-> Cardinality(below(p))]
<1>1. n \in Nat
  BY FS_CardinalityType
<1>2. ASSUME NEW p \in peers
      PROVE  /\ IsFiniteSet(below(p)) /\ rank[p] = Cardinality(below(p))
             /\ rank[p] \in 0 .. n - 1
  <2>1. IsFiniteSet(below(p)) /\ Cardinality(below(p)) <= n
           /\ (n = Cardinality(below(p)) => peers = below(p))
    <3>1. below(p) \in SUBSET peers
      OBVIOUS
    <3> HIDE DEF below
    <3> QED
      BY <3>1, FS_Subset
  <2>2. p \notin below(p)
    BY <1>2
  <2>3. Cardinality(below(p)) \in Nat
    BY <2>1, FS_CardinalityType
  <2> HIDE DEF below
  <2> QED
    BY <1>1, <1>2, <2>1, <2>2, <2>3
<1>3. ASSUME NEW p \in peers, NEW q \in peers, p < q
      PROVE  rank[p] # rank[q]
  <2>1. below(p) \in SUBSET below(q)
    <3>1. \A r \in peers : r \in Nat
      OBVIOUS
    <3>2. \A r \in peers : r < p => r < q
      BY <1>3, <3>1
    <3> QED
      BY <3>2
  <2>2. p \in below(q) /\ p \notin below(p)
    BY <1>3
  <2>3. IsFiniteSet(below(q)) /\ rank[p] = Cardinality(below(p))
           /\ rank[q] = Cardinality(below(q))
    BY <1>2
  <2> HIDE DEF below, rank
  <2>4. Cardinality(below(p)) # Cardinality(below(q))
    BY <2>1, <2>2, <2>3, FS_Subset
  <2> QED
    BY <2>3, <2>4
<1>4. rank \in Injection(peers, 0 .. n - 1)
  <2>1. rank \in [peers -> 0 .. n - 1] /\ DOMAIN rank = peers
    BY <1>2
  <2>2. ASSUME NEW p \in peers, NEW q \in peers, rank[p] = rank[q]
        PROVE  p = q
    <3> HIDE DEF rank
    <3>1. p \in Nat /\ q \in Nat
      OBVIOUS
    <3> QED
      BY <1>3, <2>2, <3>1
  <2> HIDE DEF rank
  <2> QED
    BY <2>1, <2>2 DEF Injection, IsInjective
<1>5. IsFiniteSet(0 .. n - 1) /\ Cardinality(0 .. n - 1) = n
  <2> HIDE DEF n
  <2>1. 0 \in Int /\ n - 1 \in Int
    BY <1>1
  <2>2. /\ IsFiniteSet(0 .. n - 1)
        /\ Cardinality(0 .. n - 1) = IF 0 > n - 1 THEN 0 ELSE n - 1 - 0 + 1
    BY <2>1, FS_Interval
  <2> QED
    BY <1>1, <2>2
<1>6. rank \in Surjection(peers, 0 .. n - 1)
  <2> HIDE DEF rank
  <2> QED
    BY <1>4, <1>5, FS_Injection
<1>7. PICK p \in peers : rank[p] = i - 1
  <2>1. i - 1 \in 0 .. n - 1
    BY <1>1
  <2> HIDE DEF rank
  <2> QED
    BY <1>6, <2>1 DEF Surjection
<1>8. Cardinality({q \in peers : q < p}) = i - 1
  BY <1>7
<1> QED
  BY <1>8 DEF PeerIn

\* The widgets of rows, and what may be done to a widget.
RowWidgets == {"title", "tracked", "shown"}
Settings ==
  {set \in Widgets \X (BOOLEAN \cup Values("status") \cup Peers \cup {0}) :
     set[2] \in Values(set[1][1])}

Title(i, a)   == <<<<"title", i>>, a>>
Tracked(i, a) == <<<<"tracked", i>>, a>>
On(i)         == <<<<"shown", i>>, TRUE>>
Off(i)        == <<<<"shown", i>>, FALSE>>

\* What is done to a row at a time.
RowParts(i) ==
  {<<Off(i)>>, <<Off(i), Tracked(i, 0)>>}
    \cup {<<Title(i, a), Tracked(i, a), On(i)>> : a \in Peers}

LEMMA SettingsAre ==
  /\ \A i \in Slots, a \in Peers \cup {0} :
       Title(i, a) \in Settings /\ Tracked(i, a) \in Settings
  /\ \A i \in Slots : On(i) \in Settings /\ Off(i) \in Settings
  /\ \A v \in Values("status") : Set("status", 0, v) \in Settings
  /\ \A w \in {"self", "selfTracked", "overflow"}, b \in BOOLEAN :
       Set(w, 0, b) \in Settings
<1>1. ASSUME NEW i \in Slots, NEW a \in Peers \cup {0}
      PROVE  Title(i, a) \in Settings /\ Tracked(i, a) \in Settings
  BY DEF Title, Tracked, Settings, Widgets, Values
<1>2. ASSUME NEW i \in Slots
      PROVE  On(i) \in Settings /\ Off(i) \in Settings
  BY DEF On, Off, Settings, Widgets, Values
<1>3. ASSUME NEW v \in Values("status")
      PROVE  Set("status", 0, v) \in Settings
  BY DEF Set, Settings, Widgets, Values
<1>4. ASSUME NEW w \in {"self", "selfTracked", "overflow"}, NEW b \in BOOLEAN
      PROVE  Set(w, 0, b) \in Settings
  BY DEF Set, Settings, Widgets, Values
<1> QED
  BY <1>1, <1>2, <1>3, <1>4

LEMMA TailEmpty ==
  ASSUME NEW S, NEW t \in Seq(S), t # << >>
  PROVE  Tail(t) = << >> <=> Len(t) = 1
<1>1. Tail(t) \in Seq(S) /\ Len(Tail(t)) = Len(t) - 1 /\ Len(t) \in Nat \ {0}
  OBVIOUS
<1>2. Tail(t) = << >> <=> Len(Tail(t)) = 0
  BY <1>1
<1> QED
  BY <1>1, <1>2

LEMMA ShortSequences ==
  ASSUME NEW S, NEW a \in S, NEW b \in S, NEW c \in S
  PROVE  /\ <<a>> \in Seq(S) /\ Len(<<a>>) = 1 /\ <<a>>[1] = a
         /\ <<a, b>> \in Seq(S) /\ Len(<<a, b>>) = 2
         /\ <<a, b>>[1] = a /\ <<a, b>>[2] = b
         /\ <<a, b, c>> \in Seq(S) /\ Len(<<a, b, c>>) = 3
         /\ <<a, b, c>>[1] = a /\ <<a, b, c>>[2] = b /\ <<a, b, c>>[3] = c
OBVIOUS

LEMMA OnOff ==
  ASSUME NEW i
  PROVE  /\ On(i)[1] = <<"shown", i>> /\ Off(i)[1] = <<"shown", i>>
         /\ On(i) # Off(i)
BY DEF On, Off

\* The title of a row comes right before what is tracked, unless the row is
\* hidden before it and not shown again; what is shown has been tracked.
RowTold(t, i, j) ==
  /\ t[j][1] = <<"title", i>> => j < Len(t) /\ t[j + 1] = Tracked(i, t[j][2])
  /\ t[j][1] = <<"tracked", i>> =>
       /\ j > 1
       /\ \/ t[j - 1] = Title(i, t[j][2])
          \/ t[j - 1] = Off(i) /\ \A k \in 1 .. Len(t) : t[k] # On(i)
  /\ t[j] = On(i) => j > 1 /\ t[j - 1][1] = <<"tracked", i>>

LEMMA RowsSettings ==
  ASSUME NEW i \in Slots, NEW x \in RowParts(i)
  PROVE  /\ x \in Seq(Settings)
         /\ \A j \in 1 .. Len(x) :
              /\ x[j][1][1] \in RowWidgets /\ x[j][1][2] = i
              /\ RowTold(x, i, j)
<1> DEFINE on  == On(i)
           off == Off(i)
           Told(j) == /\ x[j][1][1] \in RowWidgets /\ x[j][1][2] = i
                      /\ RowTold(x, i, j)
<1>0. on \in Settings /\ off \in Settings
  BY SettingsAre
<1>1. \A a \in Peers \cup {0} :
        Title(i, a) \in Settings /\ Tracked(i, a) \in Settings
  BY SettingsAre
<1>2. /\ on # off
      /\ on[1] = <<"shown", i>> /\ off[1] = <<"shown", i>>
      /\ on[1][1] = "shown" /\ off[1][1] = "shown"
      /\ on[1][2] = i /\ off[1][2] = i
  BY OnOff
<1>3. \A a : /\ Title(i, a)[1] = <<"title", i>> /\ Title(i, a)[2] = a
             /\ Tracked(i, a)[1] = <<"tracked", i>> /\ Tracked(i, a)[2] = a
             /\ Title(i, a)[1][1] = "title" /\ Title(i, a)[1][2] = i
             /\ Tracked(i, a)[1][1] = "tracked" /\ Tracked(i, a)[1][2] = i
             /\ Title(i, a) # on /\ Tracked(i, a) # on
  BY <1>2 DEF Title, Tracked
<1>4. /\ <<"title", i>> # <<"tracked", i>> /\ <<"title", i>> # <<"shown", i>>
      /\ <<"tracked", i>> # <<"shown", i>>
      /\ {"title", "tracked", "shown"} \subseteq RowWidgets
  BY DEF RowWidgets
<1> HIDE DEF on, off
<1>5. ASSUME x = <<off>>
      PROVE  x \in Seq(Settings) /\ \A j \in 1 .. Len(x) : Told(j)
  <2>1. x \in Seq(Settings) /\ Len(x) = 1 /\ x[1] = off
    BY <1>0, <1>1, <1>5, ShortSequences
  <2>2. Told(1)
    BY <1>2, <1>4, <2>1 DEF RowTold, on, off
  <2>3. \A j \in 1 .. Len(x) : j = 1
    BY <2>1
  <2> HIDE DEF Told
  <2> QED
    BY <2>1, <2>2, <2>3
<1>6. ASSUME x = <<off, Tracked(i, 0)>>
      PROVE  x \in Seq(Settings) /\ \A j \in 1 .. Len(x) : Told(j)
  <2>1. /\ x \in Seq(Settings) /\ Len(x) = 2
        /\ x[1] = off /\ x[2] = Tracked(i, 0)
    BY <1>0, <1>1, <1>6, ShortSequences
  <2>2. \A j \in 1 .. Len(x) : j = 1 \/ j = 2
    BY <2>1
  <2>3. \A k \in 1 .. Len(x) : x[k] # on
    <3>1. x[1] # on /\ x[2] # on
      BY <1>2, <1>3, <2>1
    <3> QED
      BY <2>2, <3>1
  <2>4. Told(1)
    BY <1>2, <1>4, <2>1 DEF RowTold, on, off
  <2>5. Told(2)
    <3>1. x[2][1][1] \in RowWidgets /\ x[2][1][2] = i
      BY <1>3, <1>4, <2>1
    <3>2. x[2][1] # <<"title", i>> /\ x[2] # on
      BY <1>3, <1>4, <2>1
    <3>3. x[2 - 1] = off
      <4>1. 2 - 1 = 1
        OBVIOUS
      <4> QED
        BY <2>1, <4>1
    <3> QED
      BY <2>3, <3>1, <3>2, <3>3 DEF RowTold, on, off
  <2> HIDE DEF Told
  <2> QED
    BY <2>1, <2>2, <2>4, <2>5
<1>7. ASSUME NEW a \in Peers, x = <<Title(i, a), Tracked(i, a), on>>
      PROVE  x \in Seq(Settings) /\ \A j \in 1 .. Len(x) : Told(j)
  <2>1. Title(i, a) \in Settings /\ Tracked(i, a) \in Settings
    BY <1>1
  <2>2. /\ x \in Seq(Settings) /\ Len(x) = 3
        /\ x[1] = Title(i, a) /\ x[2] = Tracked(i, a) /\ x[3] = on
    BY <1>0, <1>1, <1>7, <2>1, ShortSequences
  <2>3. \A j \in 1 .. Len(x) : j = 1 \/ j = 2 \/ j = 3
    BY <2>2
  <2>4. /\ x[1][1] = <<"title", i>> /\ x[1][2] = a
        /\ x[2][1] = <<"tracked", i>> /\ x[2][2] = a
        /\ x[1][1][1] = "title" /\ x[1][1][2] = i
        /\ x[2][1][1] = "tracked" /\ x[2][1][2] = i
        /\ x[1] # on /\ x[2] # on
    BY <1>3, <2>2
  <2>5. Told(1)
    <3>1. x[1][1] # <<"tracked", i>> /\ x[1 + 1] = Tracked(i, x[1][2])
      BY <1>4, <2>2, <2>4
    <3> QED
      BY <1>4, <2>2, <2>4, <3>1 DEF RowTold, on, off
  <2>6. Told(2)
    <3>1. x[2][1] # <<"title", i>> /\ x[2 - 1] = Title(i, x[2][2])
      BY <1>4, <2>2, <2>4
    <3> QED
      BY <1>4, <2>4, <3>1 DEF RowTold, on, off
  <2>7. Told(3)
    <3>1. x[3][1] # <<"title", i>> /\ x[3][1] # <<"tracked", i>>
      BY <1>2, <1>4, <2>2
    <3>2. x[3 - 1][1] = <<"tracked", i>>
      BY <2>4
    <3>3. x[3][1][1] \in RowWidgets /\ x[3][1][2] = i
      BY <1>2, <1>4, <2>2
    <3> QED
      BY <3>1, <3>2, <3>3 DEF RowTold, on, off
  <2> HIDE DEF Told
  <2> QED
    BY <2>2, <2>3, <2>5, <2>6, <2>7
<1>8. CASE x = <<off>>
  BY <1>5, <1>8
<1>9. CASE x = <<off, Tracked(i, 0)>>
  BY <1>6, <1>9
<1>10. CASE \E a \in Peers : x = <<Title(i, a), Tracked(i, a), on>>
  BY <1>7, <1>10
<1> QED
  BY <1>8, <1>9, <1>10 DEF RowParts, on, off

LEMMA RowIs ==
  ASSUME NEW peers \in SUBSET Peers, NEW i \in Slots
  PROVE  Row(peers, i) \in RowParts(i)
<1>1. IsFiniteSet(peers) /\ peers \in SUBSET Nat
  BY EngineAssumption, FS_Subset
<1>2. i \in Nat \ {0} /\ Cardinality(peers) \in Nat
  <2>1. Slots \subseteq Nat \ {0}
    BY TrayAssumption, FS_CardinalityType
  <2> QED
    BY <1>1, <2>1, FS_CardinalityType
<1>3. CASE i <= Cardinality(peers)
  <2>1. i \in 1 .. Cardinality(peers)
    BY <1>2, <1>3
  <2>2. PeerIn(peers, i) \in Peers
    BY <1>1, <2>1, PeerInRow
  <2> QED
    BY <1>3, <2>2 DEF Row, RowParts, Title, Tracked, On, Set
<1>4. CASE ~(i <= Cardinality(peers))
  BY <1>4 DEF Row, RowParts, Tracked, Off, Set
<1> QED
  BY <1>3, <1>4

Told(t, i) == \A p \in 1 .. Len(t) : RowTold(t, i, p)

\* Whatever is done to the widgets of a row is one of the steps for it.
FromRows(t, s) ==
  \A p \in 1 .. Len(t) :
    t[p][1][1] \in RowWidgets =>
      LET i == t[p][1][2] IN
      i \in Slots /\ \E j \in 1 .. Len(s[i]) : t[p] = s[i][j]

\* All the rows, one after the other: what is said of a row is only there.
LEMMA EachRowTold ==
  ASSUME NEW s, s = [i \in Slots |-> s[i]],
         \A i \in Slots : s[i] \in RowParts(i),
         NEW e, e = FlattenSeq(s)
  PROVE  /\ e \in Seq(Settings)
         /\ FromRows(e, s) /\ \A i \in Slots : Told(e, i)
<1> DEFINE n == Cardinality(Slots)
<1>1. n \in Nat /\ Slots = 1 .. n
  BY TrayAssumption, FS_CardinalityType
<1> HIDE DEF n
<1>2. s \in [1 .. n -> Seq(Settings)]
  <2>1. \A i \in Slots : s[i] \in Seq(Settings)
    BY RowsSettings
  <2> QED
    BY <1>1, <2>1
<1>3. e \in Seq(Settings) /\ From(e, s, n)
  BY <1>1, <1>2, FlattenElements
<1>4. ASSUME NEW p \in 1 .. Len(e)
      PROVE  /\ e[p][1][1] \in RowWidgets /\ e[p][1][2] \in Slots
             /\ \E j \in 1 .. Len(s[e[p][1][2]]) :
                  /\ e[p] = s[e[p][1][2]][j]
                  /\ j > 1 => p > 1 /\ e[p - 1] = s[e[p][1][2]][j - 1]
                  /\ j < Len(s[e[p][1][2]]) =>
                       p < Len(e) /\ e[p + 1] = s[e[p][1][2]][j + 1]
  <2>1. PICK i \in 1 .. n : \E j \in 1 .. Len(s[i]) :
          /\ e[p] = s[i][j]
          /\ j > 1 => p > 1 /\ e[p - 1] = s[i][j - 1]
          /\ j < Len(s[i]) => p < Len(e) /\ e[p + 1] = s[i][j + 1]
    BY <1>3 DEF From
  <2>2. \A j \in 1 .. Len(s[i]) :
          s[i][j][1][1] \in RowWidgets /\ s[i][j][1][2] = i
    <3>1. i \in Slots /\ s[i] \in RowParts(i)
      BY <1>1
    <3> QED
      BY <3>1, RowsSettings
  <2>3. e[p][1][1] \in RowWidgets /\ e[p][1][2] = i
    BY <2>1, <2>2
  <2> QED
    BY <1>1, <2>1, <2>3
<1>5. ASSUME NEW i \in Slots, NEW p \in 1 .. Len(e), e[p][1][2] = i
      PROVE  RowTold(e, i, p)
  <2>1. PICK j \in 1 .. Len(s[i]) :
          /\ e[p] = s[i][j]
          /\ j > 1 => p > 1 /\ e[p - 1] = s[i][j - 1]
          /\ j < Len(s[i]) => p < Len(e) /\ e[p + 1] = s[i][j + 1]
    BY <1>4, <1>5
  <2>2. RowTold(s[i], i, j)
    BY RowsSettings
  <2>3. e[p][1] = <<"title", i>> =>
          p < Len(e) /\ e[p + 1] = Tracked(i, e[p][2])
    BY <2>1, <2>2 DEF RowTold
  <2>4. e[p] = On(i) => p > 1 /\ e[p - 1][1] = <<"tracked", i>>
    BY <2>1, <2>2 DEF RowTold
  <2>5. ASSUME \A k \in 1 .. Len(s[i]) : s[i][k] # On(i)
        PROVE  \A k \in 1 .. Len(e) : e[k] # On(i)
    <3> SUFFICES ASSUME NEW k \in 1 .. Len(e), e[k] = On(i)
                 PROVE  FALSE
      OBVIOUS
    <3>1. e[k][1][2] = i
      BY OnOff
    <3>2. \E l \in 1 .. Len(s[i]) : e[k] = s[i][l]
      BY <1>4, <3>1
    <3> QED
      BY <2>5, <3>2
  <2>6. e[p][1] = <<"tracked", i>> =>
          /\ p > 1
          /\ \/ e[p - 1] = Title(i, e[p][2])
             \/ e[p - 1] = Off(i) /\ \A k \in 1 .. Len(e) : e[k] # On(i)
    BY <2>1, <2>2, <2>5 DEF RowTold
  <2> QED
    BY <2>3, <2>4, <2>6 DEF RowTold
<1>6. ASSUME NEW i \in Slots, NEW p \in 1 .. Len(e), e[p][1][2] # i
      PROVE  RowTold(e, i, p)
  <2>1. \A w : e[p][1] # <<w, i>>
    BY <1>6
  <2>2. e[p] # On(i)
    BY <2>1, OnOff
  <2> QED
    BY <2>1, <2>2 DEF RowTold
<1>7. \A i \in Slots : Told(e, i)
  BY <1>5, <1>6 DEF Told
<1>8. FromRows(e, s)
  BY <1>4 DEF FromRows
<1> QED
  BY <1>3, <1>7, <1>8

\* Before and after the rows other widgets are set.
NoRows(t) ==
  t \in Seq(Settings) /\ \A p \in 1 .. Len(t) : t[p][1][1] \notin RowWidgets

LEMMA MenuTold ==
  ASSUME NEW e \in Seq(Settings), NEW h, NEW o, NoRows(h), NoRows(o),
         NEW t, t = h \o e \o o
  PROVE  /\ t \in Seq(Settings) /\ Len(t) = Len(h) + Len(e) + Len(o)
         /\ \A i : Told(e, i) => Told(t, i)
         /\ \A s : FromRows(e, s) => FromRows(t, s)
<1>0. /\ h \in Seq(Settings) /\ o \in Seq(Settings)
      /\ \A p \in 1 .. Len(h) : h[p][1][1] \notin RowWidgets
      /\ \A p \in 1 .. Len(o) : o[p][1][1] \notin RowWidgets
  BY DEF NoRows
<1>1. /\ t \in Seq(Settings) /\ Len(t) = Len(h) + Len(e) + Len(o)
      /\ Len(h) \in Nat /\ Len(e) \in Nat /\ Len(o) \in Nat
      /\ \A p \in 1 .. Len(h) : t[p] = h[p]
      /\ \A p \in 1 .. Len(e) : t[Len(h) + p] = e[p]
      /\ \A p \in 1 .. Len(o) : t[Len(h) + Len(e) + p] = o[p]
  <2> DEFINE a == h \o e
  <2>1. /\ a \in Seq(Settings) /\ Len(a) = Len(h) + Len(e)
        /\ Len(h) \in Nat /\ Len(e) \in Nat /\ Len(o) \in Nat
        /\ \A p \in 1 .. Len(h) : a[p] = h[p]
        /\ \A p \in 1 .. Len(e) : a[Len(h) + p] = e[p]
    BY <1>0
  <2> HIDE DEF a
  <2>2. /\ a \o o \in Seq(Settings) /\ Len(a \o o) = Len(a) + Len(o)
        /\ \A p \in 1 .. Len(a) : (a \o o)[p] = a[p]
        /\ \A p \in 1 .. Len(o) : (a \o o)[Len(a) + p] = o[p]
    <3>1. a \in Seq(Settings)
      BY <2>1
    <3> QED
      BY <1>0, <3>1
  <2>3. t = a \o o
    BY DEF a
  <2> QED
    BY <2>1, <2>2, <2>3
<1>2. ASSUME NEW p \in 1 .. Len(t)
      PROVE  \/ t[p][1][1] \notin RowWidgets
             \/ \E q \in 1 .. Len(e) : p = Len(h) + q /\ t[p] = e[q]
  <2>1. CASE p <= Len(h)
    BY <1>0, <1>1, <1>2, <2>1
  <2>2. CASE p > Len(h) /\ p <= Len(h) + Len(e)
    <3>1. p - Len(h) \in 1 .. Len(e) /\ p = Len(h) + (p - Len(h))
      BY <1>1, <1>2, <2>2
    <3> QED
      BY <1>1, <3>1
  <2>3. CASE p > Len(h) + Len(e)
    <3>1. /\ p - Len(h) - Len(e) \in 1 .. Len(o)
          /\ p = Len(h) + Len(e) + (p - Len(h) - Len(e))
      BY <1>1, <1>2, <2>3
    <3> QED
      BY <1>0, <1>1, <3>1
  <2> QED
    BY <1>1, <1>2, <2>1, <2>2, <2>3
<1>3. ASSUME NEW i, NEW p \in 1 .. Len(t), t[p][1][1] \notin RowWidgets
      PROVE  t[p] # On(i) /\ RowTold(t, i, p)
  <2>1. t[p][1] # <<"title", i>> /\ t[p][1] # <<"tracked", i>>
    BY <1>3 DEF RowWidgets
  <2>2. t[p] # On(i)
    BY <1>3, OnOff DEF RowWidgets
  <2> QED
    BY <2>1, <2>2 DEF RowTold
<1>4. ASSUME NEW i, Told(e, i), NEW q \in 1 .. Len(e)
      PROVE  RowTold(t, i, Len(h) + q)
  <2> DEFINE p == Len(h) + q
  <2>1. /\ p \in 1 .. Len(t) /\ t[p] = e[q]
        /\ q > 1 => p > 1 /\ t[p - 1] = e[q - 1]
        /\ q < Len(e) => p < Len(t) /\ t[p + 1] = e[q + 1]
    <3>1. p \in 1 .. Len(t) /\ t[p] = e[q]
      BY <1>1
    <3>2. q > 1 => p > 1 /\ q - 1 \in 1 .. Len(e) /\ p - 1 = Len(h) + (q - 1)
      BY <1>1
    <3>3. q < Len(e) =>
            p < Len(t) /\ q + 1 \in 1 .. Len(e) /\ p + 1 = Len(h) + (q + 1)
      BY <1>1
    <3> HIDE DEF p
    <3>4. q > 1 => t[p - 1] = e[q - 1]
      BY <1>1, <3>2
    <3>5. q < Len(e) => t[p + 1] = e[q + 1]
      BY <1>1, <3>3
    <3> QED
      BY <3>1, <3>2, <3>3, <3>4, <3>5
  <2> HIDE DEF p
  <2>2. RowTold(e, i, q)
    BY <1>4 DEF Told
  <2>3. ASSUME \A k \in 1 .. Len(e) : e[k] # On(i)
        PROVE  \A k \in 1 .. Len(t) : t[k] # On(i)
    BY <1>2, <1>3, <2>3
  <2>4. t[p][1] = <<"title", i>> =>
          p < Len(t) /\ t[p + 1] = Tracked(i, t[p][2])
    BY <2>1, <2>2 DEF RowTold
  <2>5. t[p] = On(i) => p > 1 /\ t[p - 1][1] = <<"tracked", i>>
    BY <2>1, <2>2 DEF RowTold
  <2>6. t[p][1] = <<"tracked", i>> =>
          /\ p > 1
          /\ \/ t[p - 1] = Title(i, t[p][2])
             \/ t[p - 1] = Off(i) /\ \A k \in 1 .. Len(t) : t[k] # On(i)
    BY <2>1, <2>2, <2>3 DEF RowTold
  <2>7. RowTold(t, i, p)
    BY <2>4, <2>5, <2>6 DEF RowTold
  <2> QED
    BY <2>7 DEF p
<1>5. ASSUME NEW i, Told(e, i)
      PROVE  Told(t, i)
  <2>1. \A q \in 1 .. Len(e) : RowTold(t, i, Len(h) + q)
    BY <1>4, <1>5
  <2> QED
    BY <1>2, <1>3, <2>1 DEF Told
<1>6. ASSUME NEW s, FromRows(e, s)
      PROVE  FromRows(t, s)
  <2> SUFFICES ASSUME NEW p \in 1 .. Len(t), t[p][1][1] \in RowWidgets
               PROVE  LET i == t[p][1][2] IN
                      i \in Slots /\ \E j \in 1 .. Len(s[i]) : t[p] = s[i][j]
    BY DEF FromRows
  <2>1. PICK q \in 1 .. Len(e) : t[p] = e[q]
    BY <1>2
  <2> QED
    BY <1>6, <2>1 DEF FromRows
<1> QED
  BY <1>1, <1>5, <1>6

LEMMA HeadlineTypes ==
  ASSUME NEW status \in Values("status"), NEW self \in BOOLEAN,
         NEW more \in BOOLEAN
  PROVE  /\ NoRows(Headline(status, self)) /\ Len(Headline(status, self)) = 3
         /\ NoRows(Overflow(more))
<1>1. /\ Set("status", 0, status) \in Settings
      /\ Set("self", 0, self) \in Settings
      /\ Set("selfTracked", 0, self) \in Settings
      /\ Set("overflow", 0, more) \in Settings
  BY SettingsAre
<1>2. /\ Set("status", 0, status)[1][1] \notin RowWidgets
      /\ Set("self", 0, self)[1][1] \notin RowWidgets
      /\ Set("selfTracked", 0, self)[1][1] \notin RowWidgets
      /\ Set("overflow", 0, more)[1][1] \notin RowWidgets
  BY DEF Set, RowWidgets
<1> DEFINE a == Set("status", 0, status)
           b == Set("self", 0, self)
           c == Set("selfTracked", 0, self)
           d == Set("overflow", 0, more)
<1>3. Headline(status, self) = <<a, b, c>> /\ Overflow(more) = <<d>>
  BY DEF Headline, Overflow
<1>4. /\ a \in Settings /\ b \in Settings /\ c \in Settings /\ d \in Settings
      /\ a[1][1] \notin RowWidgets /\ b[1][1] \notin RowWidgets
      /\ c[1][1] \notin RowWidgets /\ d[1][1] \notin RowWidgets
  BY <1>1, <1>2
<1> HIDE DEF a, b, c, d
<1>5. \A p \in 1 .. 3 : p = 1 \/ p = 2 \/ p = 3
  OBVIOUS
<1>6. \A p \in 1 .. 3 : <<a, b, c>>[p][1][1] \notin RowWidgets
  BY <1>4, <1>5, ShortSequences
<1>7. /\ Len(<<a, b, c>>) = 3 /\ <<a, b, c>> \in Seq(Settings)
      /\ <<d>> \in Seq(Settings)
      /\ Len(<<d>>) = 1 /\ <<d>>[1] = d
  BY <1>4, ShortSequences
<1>8. \A p \in 1 .. Len(<<d>>) : p = 1
  BY <1>7
<1> QED
  BY <1>3, <1>4, <1>6, <1>7, <1>8 DEF NoRows

\* What is drawn consists of rows, and of others before and after them.
Drawn(t, s) ==
  \E h, e, o :
    /\ NoRows(h) /\ NoRows(o) /\ Len(h) = 3
    /\ s = [i \in Slots |-> s[i]] /\ \A i \in Slots : s[i] \in RowParts(i)
    /\ e = FlattenSeq(s) /\ t = h \o e \o o

LEMMA DrawnTold ==
  ASSUME NEW t, NEW s, Drawn(t, s)
  PROVE  /\ t \in Seq(Settings) /\ t # << >>
         /\ FromRows(t, s) /\ \A i \in Slots : Told(t, i)
<1>1. PICK h, e, o :
        /\ NoRows(h) /\ NoRows(o) /\ Len(h) = 3
        /\ s = [i \in Slots |-> s[i]] /\ \A i \in Slots : s[i] \in RowParts(i)
        /\ e = FlattenSeq(s) /\ t = h \o e \o o
  BY DEF Drawn
<1>2. e \in Seq(Settings) /\ FromRows(e, s) /\ \A i \in Slots : Told(e, i)
  BY <1>1, EachRowTold
<1>3. /\ t \in Seq(Settings) /\ Len(t) = Len(h) + Len(e) + Len(o)
      /\ \A i : Told(e, i) => Told(t, i)
      /\ FromRows(t, s)
  <2>1. NoRows(h) /\ NoRows(o) /\ t = h \o e \o o
    BY <1>1
  <2>2. \A r : FromRows(e, r) => FromRows(t, r)
    BY <1>2, <2>1, MenuTold
  <2>3. /\ t \in Seq(Settings) /\ Len(t) = Len(h) + Len(e) + Len(o)
        /\ \A i : Told(e, i) => Told(t, i)
    BY <1>2, <2>1, MenuTold
  <2> QED
    BY <1>2, <2>2, <2>3
<1>4. t # << >>
  <2>1. Len(e) \in Nat /\ Len(o) \in Nat
    BY <1>1, <1>2 DEF NoRows
  <2> QED
    BY <1>1, <1>3, <2>1
<1> QED
  BY <1>2, <1>3, <1>4

\* Whatever render has been called with: it draws something, says of each row
\* what RowTold says, and with a failure only hides rows.
LEMMA RenderTold ==
  ASSUME NEW st \in Status, failErr \in BOOLEAN, NEW t, t = renderMenu(st)
  PROVE  /\ t \in Seq(Settings) /\ t # << >>
         /\ \A i \in Slots : Told(t, i)
         /\ failErr => \A p \in 1 .. Len(t) : t[p][1][1] \in RowWidgets =>
                         t[p] = Off(t[p][1][2])
<1> DEFINE Parts(s) == /\ s = [i \in Slots |-> s[i]]
                       /\ \A i \in Slots : s[i] \in RowParts(i)
                       /\ failErr => \A i \in Slots : s[i] = <<Off(i)>>
<1>1. st.vip \in BOOLEAN /\ st.peers \in SUBSET Peers
  BY DEF Status
<1>2. PICK s :
        /\ Parts(s)
        /\ \E status \in Values("status"), self \in BOOLEAN, more \in BOOLEAN :
             t = Headline(status, self) \o FlattenSeq(s) \o Overflow(more)
  <2> DEFINE hidden == [i \in Slots |-> Hidden(i)]
             rows == [i \in Slots |-> Row(st.peers, i)]
             over == Cardinality(st.peers) > Cardinality(Slots)
  <2>1. Parts(hidden)
    BY DEF Hidden, RowParts, Set, Off
  <2>2. ~failErr => Parts(rows)
    BY <1>1, RowIs
  <2>3. over \in BOOLEAN /\ TRUE \in BOOLEAN /\ FALSE \in BOOLEAN
    OBVIOUS
  <2>4. {"failed", "connecting", "online"} \subseteq Values("status")
    BY DEF Values
  <2> HIDE DEF Parts
  <2>5. CASE failErr
    <3>1. t = Headline("failed", FALSE) \o FlattenSeq(hidden) \o Overflow(FALSE)
      BY <2>5 DEF renderMenu, EachRow
    <3> HIDE DEF hidden
    <3> QED
      BY <2>1, <2>3, <2>4, <3>1
  <2>6. CASE ~failErr /\ ~st.vip
    <3>1. t = Headline("connecting", FALSE) \o FlattenSeq(hidden)
                \o Overflow(FALSE)
      BY <2>6 DEF renderMenu, EachRow
    <3> HIDE DEF hidden
    <3> QED
      BY <2>1, <2>3, <2>4, <3>1
  <2>7. CASE ~failErr /\ st.vip
    <3>1. t = Headline("online", TRUE) \o FlattenSeq(rows) \o Overflow(over)
      BY <2>7 DEF renderMenu, EachRow
    <3> HIDE DEF rows, over
    <3> QED
      BY <2>2, <2>3, <2>4, <2>7, <3>1
  <2> QED
    BY <1>1, <2>5, <2>6, <2>7
<1>3. Drawn(t, s)
  BY <1>2, HeadlineTypes DEF Drawn
<1>4. /\ t \in Seq(Settings) /\ t # << >>
      /\ FromRows(t, s) /\ \A i \in Slots : Told(t, i)
  BY <1>3, DrawnTold
<1>5. ASSUME failErr, NEW p \in 1 .. Len(t), t[p][1][1] \in RowWidgets
      PROVE  t[p] = Off(t[p][1][2])
  <2> DEFINE i == t[p][1][2]
  <2>1. i \in Slots /\ \E j \in 1 .. Len(s[i]) : t[p] = s[i][j]
    BY <1>4, <1>5 DEF FromRows
  <2> HIDE DEF i
  <2>2. s[i] = <<Off(i)>>
    BY <1>2, <1>5, <2>1
  <2>3. t[p] = Off(i)
    BY <2>1, <2>2
  <2> QED
    BY <2>3 DEF i
<1> QED
  BY <1>4, <1>5

-----------------------------------------------------------------------------
(* What a row tells while it is drawn. *)

Contents == BOOLEAN \cup Values("status") \cup Peers \cup {0}

\* What watch is about to do, t, agrees with what the row i of the menu m shows
\* and tracks: either the title comes first and then what is tracked, or the
\* row is hidden and stays so.
RowKept(t, m, i) ==
  /\ \A j \in 1 .. Len(t) : t[j][1] = <<"title", i>> =>
       j < Len(t) /\ t[j + 1] = Tracked(i, t[j][2])
  /\ \A j \in 1 .. Len(t) : t[j][1] = <<"tracked", i>> =>
       \/ j > 1 /\ t[j - 1] = Title(i, t[j][2])
       \/ j = 1 /\ m[<<"title", i>>] = t[j][2]
       \/ /\ \A k \in 1 .. Len(t) : t[k] # On(i)
          /\ \/ j > 1 /\ t[j - 1] = Off(i)
             \/ j = 1 /\ m[<<"shown", i>>] = FALSE
  /\ (\A j \in 1 .. Len(t) : t[j][1] # <<"tracked", i>>) =>
       \/ m[<<"tracked", i>>] = m[<<"title", i>>]
       \/ /\ m[<<"shown", i>>] = FALSE
          /\ \A k \in 1 .. Len(t) : t[k] # On(i)

LEMMA ShownIs ==
  ASSUME NEW x \in Settings, NEW i, x[1] = <<"shown", i>>
  PROVE  x = On(i) \/ x = Off(i)
<1>1. x = <<x[1], x[2]>> /\ x[2] \in Values("shown")
  BY DEF Settings
<1>2. x[2] \in BOOLEAN
  BY <1>1 DEF Values
<1> QED
  BY <1>1, <1>2 DEF On, Off

LEMMA OnOffValues ==
  ASSUME NEW i
  PROVE  Off(i)[2] = FALSE
BY DEF Off

LEMMA RowWidgetsAre ==
  ASSUME NEW i
  PROVE  /\ i \in Slots => \A k \in RowWidgets : <<k, i>> \in Widgets
         /\ <<"title", i>> # <<"tracked", i>> /\ <<"title", i>> # <<"shown", i>>
         /\ <<"tracked", i>> # <<"shown", i>>
         /\ RowWidgets = {"title", "tracked", "shown"}
BY DEF RowWidgets, Widgets

\* The next widget is set.
LEMMA DrawKeepsRow ==
  ASSUME NEW t \in Seq(Settings), t # << >>, NEW m \in [Widgets -> Contents],
         NEW i \in Slots, RowKept(t, m, i)
  PROVE  RowKept(Tail(t), [m EXCEPT ![Head(t)[1]] = Head(t)[2]], i)
<1> DEFINE x == t[1]
           r == Tail(t)
           M == [m EXCEPT ![x[1]] = x[2]]
<1>1. /\ r \in Seq(Settings) /\ Len(r) = Len(t) - 1 /\ Len(t) \in Nat \ {0}
      /\ \A j \in 1 .. Len(r) : j + 1 \in 2 .. Len(t) /\ r[j] = t[j + 1]
      /\ \A j \in 2 .. Len(t) : j - 1 \in 1 .. Len(r) /\ t[j] = r[j - 1]
      /\ Head(t) = x /\ x \in Settings /\ 1 \in 1 .. Len(t)
  OBVIOUS
<1>2. \A k \in RowWidgets :
        M[<<k, i>>] = IF x[1] = <<k, i>> THEN x[2] ELSE m[<<k, i>>]
  BY RowWidgetsAre
<1> HIDE DEF r, M, x
<1>3. ASSUME NEW j \in 1 .. Len(r), r[j][1] = <<"title", i>>
      PROVE  j < Len(r) /\ r[j + 1] = Tracked(i, r[j][2])
  <2>1. j + 1 \in 1 .. Len(t) /\ t[j + 1][1] = <<"title", i>>
    BY <1>1, <1>3
  <2>2. j + 1 < Len(t) /\ t[j + 1 + 1] = Tracked(i, r[j][2])
    BY <1>1, <2>1 DEF RowKept
  <2>3. j + 1 \in 1 .. Len(r)
    BY <1>1, <2>2
  <2> QED
    BY <1>1, <2>2, <2>3
<1>4. (\A k \in 1 .. Len(t) : t[k] # On(i)) =>
        \A k \in 1 .. Len(r) : r[k] # On(i)
  BY <1>1
<1>5. ASSUME NEW j \in 1 .. Len(r), r[j][1] = <<"tracked", i>>
      PROVE  \/ j > 1 /\ r[j - 1] = Title(i, r[j][2])
             \/ j = 1 /\ M[<<"title", i>>] = r[j][2]
             \/ /\ \A k \in 1 .. Len(r) : r[k] # On(i)
                /\ \/ j > 1 /\ r[j - 1] = Off(i)
                   \/ j = 1 /\ M[<<"shown", i>>] = FALSE
  <2>1. j + 1 \in 1 .. Len(t) /\ t[j + 1] = r[j] /\ j + 1 # 1 /\ j + 1 - 1 = j
    BY <1>1
  <2>2. \/ t[j] = Title(i, r[j][2])
        \/ (\A k \in 1 .. Len(t) : t[k] # On(i)) /\ t[j] = Off(i)
    <3> DEFINE q == j + 1
    <3>1. q \in 1 .. Len(t) /\ t[q] = r[j] /\ q # 1 /\ q - 1 = j
      BY <2>1
    <3> HIDE DEF q
    <3>2. \/ t[q - 1] = Title(i, t[q][2])
          \/ (\A k \in 1 .. Len(t) : t[k] # On(i)) /\ t[q - 1] = Off(i)
      BY <1>5, <3>1 DEF RowKept
    <3> QED
      BY <3>1, <3>2
  <2>3. CASE j > 1
    <3>1. r[j - 1] = t[j]
      <4>1. j \in 2 .. Len(t)
        BY <1>1, <2>1, <2>3
      <4> QED
        BY <1>1, <4>1
    <3> QED
      BY <1>4, <2>2, <2>3, <3>1
  <2>4. CASE j = 1
    <3>1. x = Title(i, r[j][2]) => M[<<"title", i>>] = r[j][2]
      BY <1>2, RowWidgetsAre DEF Title
    <3>2. x = Off(i) => M[<<"shown", i>>] = FALSE
      BY <1>2, OnOff, OnOffValues, RowWidgetsAre
    <3>3. t[j] = x
      BY <2>4 DEF x
    <3> QED
      BY <1>4, <2>2, <2>4, <3>1, <3>2, <3>3
  <2>5. j > 1 \/ j = 1
    OBVIOUS
  <2> QED
    BY <2>3, <2>4, <2>5
<1>6. ASSUME \A j \in 1 .. Len(r) : r[j][1] # <<"tracked", i>>
      PROVE  \/ M[<<"tracked", i>>] = M[<<"title", i>>]
             \/ /\ M[<<"shown", i>>] = FALSE
                /\ \A k \in 1 .. Len(r) : r[k] # On(i)
  <2>1. x[1] = <<"tracked", i>> =>
          \/ m[<<"title", i>>] = x[2]
          \/ (\A k \in 1 .. Len(t) : t[k] # On(i)) /\ m[<<"shown", i>>] = FALSE
    <3>1. \A j \in 1 .. Len(t) : j = 1 /\ t[j][1] = <<"tracked", i>> =>
            \/ m[<<"title", i>>] = t[j][2]
            \/ /\ \A k \in 1 .. Len(t) : t[k] # On(i)
               /\ m[<<"shown", i>>] = FALSE
      BY DEF RowKept
    <3> QED
      BY <1>1, <3>1 DEF x
  <2>2. CASE x[1] = <<"tracked", i>>
    BY <1>2, <1>4, <2>1, <2>2, RowWidgetsAre
  <2>3. CASE x[1] # <<"tracked", i>>
    <3>1. \A j \in 1 .. Len(t) : t[j][1] # <<"tracked", i>>
      <4> SUFFICES ASSUME NEW j \in 1 .. Len(t)
                   PROVE  t[j][1] # <<"tracked", i>>
        OBVIOUS
      <4>1. CASE j = 1
        BY <2>3, <4>1 DEF x
      <4>2. CASE j # 1
        <5>1. j \in 2 .. Len(t)
          BY <1>1, <4>2
        <5> QED
          BY <1>1, <1>6, <5>1
      <4> QED
        BY <4>1, <4>2
    <3>2. x[1] # <<"title", i>>
      <4> SUFFICES ASSUME x[1] = <<"title", i>> PROVE FALSE
        OBVIOUS
      <4>1. 1 < Len(t) /\ t[1 + 1] = Tracked(i, x[2])
        BY <1>1 DEF RowKept, x
      <4>2. 1 + 1 \in 1 .. Len(t)
        BY <1>1, <4>1
      <4> QED
        BY <3>1, <4>1, <4>2 DEF Tracked
    <3>3. \/ m[<<"tracked", i>>] = m[<<"title", i>>]
          \/ /\ m[<<"shown", i>>] = FALSE
             /\ \A k \in 1 .. Len(t) : t[k] # On(i)
      BY <3>1 DEF RowKept
    <3>4. M[<<"tracked", i>>] = m[<<"tracked", i>>]
            /\ M[<<"title", i>>] = m[<<"title", i>>]
      BY <1>2, <2>3, <3>2, RowWidgetsAre
    <3>5. x # On(i) /\ m[<<"shown", i>>] = FALSE => M[<<"shown", i>>] = FALSE
      <4>1. CASE x[1] = <<"shown", i>>
        <5>1. x = On(i) \/ x = Off(i)
          BY <1>1, <4>1, ShownIs
        <5>2. M[<<"shown", i>>] = x[2]
          BY <1>2, <4>1, RowWidgetsAre
        <5> QED
          BY <5>1, <5>2, OnOffValues
      <4>2. CASE x[1] # <<"shown", i>>
        BY <1>2, <4>2, RowWidgetsAre
      <4> QED
        BY <4>1, <4>2
    <3>6. (\A k \in 1 .. Len(t) : t[k] # On(i)) => x # On(i)
      BY <1>1 DEF x
    <3> QED
      BY <1>4, <3>3, <3>4, <3>5, <3>6
  <2> QED
    BY <2>2, <2>3
<1> QED
  BY <1>1, <1>3, <1>5, <1>6 DEF RowKept, r, M

\* The other goroutine sets a widget that is in no row, or hides a row.
LEMMA HideKeepsRow ==
  ASSUME NEW t, NEW m \in [Widgets -> Contents], NEW i \in Slots,
         RowKept(t, m, i), NEW x \in Settings,
         x[1][1] \in RowWidgets => x = Off(x[1][2])
  PROVE  RowKept(t, [m EXCEPT ![x[1]] = x[2]], i)
<1> DEFINE M == [m EXCEPT ![x[1]] = x[2]]
<1>1. \A k \in RowWidgets :
        M[<<k, i>>] = IF x[1] = <<k, i>> THEN x[2] ELSE m[<<k, i>>]
  BY RowWidgetsAre
<1> HIDE DEF M
<1>2. x[1] # <<"title", i>> /\ x[1] # <<"tracked", i>>
  BY OnOff, RowWidgetsAre
<1>3. x[1] = <<"shown", i>> => x[2] = FALSE
  <2>1. x[1] = <<"shown", i>> => x[1][1] = "shown" /\ x[1][2] = i
    OBVIOUS
  <2>2. x[1] = <<"shown", i>> => x = Off(i)
    BY <2>1, RowWidgetsAre
  <2> QED
    BY <2>2, OnOffValues
<1>4. /\ M[<<"title", i>>] = m[<<"title", i>>]
      /\ M[<<"tracked", i>>] = m[<<"tracked", i>>]
      /\ m[<<"shown", i>>] = FALSE => M[<<"shown", i>>] = FALSE
  BY <1>1, <1>2, <1>3, RowWidgetsAre
<1>5. RowKept(t, M, i)
  BY <1>4 DEF RowKept
<1> QED
  BY <1>5 DEF M

\* A drawing begins.
LEMMA LookKeepsRow ==
  ASSUME NEW t, NEW m, NEW i, Told(t, i), RowKept(<< >>, m, i),
         t \in Seq(Settings)
  PROVE  RowKept(t, m, i)
<1>1. \/ m[<<"tracked", i>>] = m[<<"title", i>>]
      \/ m[<<"shown", i>>] = FALSE
  BY DEF RowKept
<1>2. ASSUME \A j \in 1 .. Len(t) : t[j][1] # <<"tracked", i>>
      PROVE  \A k \in 1 .. Len(t) : t[k] # On(i)
  <2> SUFFICES ASSUME NEW k \in 1 .. Len(t), t[k] = On(i)
               PROVE  FALSE
    OBVIOUS
  <2>1. k > 1 /\ t[k - 1][1] = <<"tracked", i>>
    BY DEF Told, RowTold
  <2>2. k - 1 \in 1 .. Len(t)
    BY <2>1
  <2> QED
    BY <1>2, <2>1, <2>2
<1>3. \A j \in 1 .. Len(t) : t[j][1] = <<"title", i>> =>
        j < Len(t) /\ t[j + 1] = Tracked(i, t[j][2])
  BY DEF Told, RowTold
<1>4. \A j \in 1 .. Len(t) : t[j][1] = <<"tracked", i>> =>
        \/ j > 1 /\ t[j - 1] = Title(i, t[j][2])
        \/ /\ \A k \in 1 .. Len(t) : t[k] # On(i)
           /\ j > 1 /\ t[j - 1] = Off(i)
  BY DEF Told, RowTold
<1> QED
  BY <1>1, <1>2, <1>3, <1>4 DEF RowKept

-----------------------------------------------------------------------------
(* The tray. *)

Draws   == {"watch", "engine"}
Drawing == [pc : {"idle", "called", "drawing"}, st : Status,
            todo : Seq(Settings)]

MenuTyped ==
  /\ menu \in [Widgets -> Contents]
  /\ \A w \in Widgets : menu[w] \in Values(w[1])
  /\ failErr \in BOOLEAN /\ quitting \in BOOLEAN
  /\ drawing \in [Draws -> Drawing]

\* Whoever draws has something to draw.
Busy == \A who \in Draws :
          drawing[who].pc = "drawing" <=> drawing[who].todo # << >>

\* The engine's goroutine draws a failure, and that hides rows.
EngineHides ==
  /\ drawing["engine"].pc # "idle" => failErr
  /\ LET t == drawing["engine"].todo IN
     \A p \in 1 .. Len(t) : t[p][1][1] \in RowWidgets => t[p] = Off(t[p][1][2])

RowsKept == \A i \in Slots : RowKept(drawing["watch"].todo, menu, i)

TrayInv == MenuTyped /\ Busy /\ EngineHides /\ RowsKept

LEMMA TrayTypes == TrayInv => TrayTypeOK
<1> SUFFICES ASSUME TrayInv PROVE TrayTypeOK
  OBVIOUS
<1>1. /\ DOMAIN menu = Widgets /\ \A w \in Widgets : menu[w] \in Values(w[1])
      /\ failErr \in BOOLEAN /\ quitting \in BOOLEAN
  BY DEF TrayInv, MenuTyped
<1>2. ASSUME NEW who \in {"watch", "engine"}
      PROVE  /\ drawing[who].pc \in {"idle", "called", "drawing"}
             /\ drawing[who].st \in Status
             /\ \A set \in Range(drawing[who].todo) :
                  set[2] \in Values(set[1][1])
  <2>1. drawing[who] \in Drawing
    BY DEF TrayInv, MenuTyped, Draws
  <2>2. drawing[who].todo \in Seq(Settings)
    BY <2>1 DEF Drawing
  <2>3. \A set \in Range(drawing[who].todo) : set \in Settings
    BY <2>2 DEF Range
  <2> QED
    BY <2>1, <2>3 DEF Drawing, Settings
<1> QED
  BY <1>1, <1>2 DEF TrayTypeOK

LEMMA TrayRowsTell == TrayInv => RowsTell
<1> SUFFICES ASSUME TrayInv,
                    \A who \in {"watch", "engine"} : drawing[who] = Idle,
                    NEW i \in Slots, menu[<<"shown", i>>]
             PROVE  menu[<<"tracked", i>>] = menu[<<"title", i>>]
  BY DEF RowsTell
<1>1. drawing["watch"].todo = << >>
  BY DEF Idle
<1>2. RowKept(<< >>, menu, i)
  BY <1>1 DEF TrayInv, RowsKept
<1>3. \/ menu[<<"tracked", i>>] = menu[<<"title", i>>]
      \/ menu[<<"shown", i>>] = FALSE
  BY <1>2 DEF RowKept
<1> QED
  BY <1>3

LEMMA IdleType == Idle \in Drawing /\ NoStatus \in Status
<1>1. NoStatus \in Status
  BY DEF NoStatus, Status
<1>2. << >> \in Seq(Settings)
  OBVIOUS
<1> QED
  BY <1>1, <1>2 DEF Idle, Drawing

\* The menu of a program that begins, or has ended.
LEMMA FreshTray == TrayInit => TrayInv
<1> SUFFICES ASSUME TrayInit PROVE TrayInv
  OBVIOUS
<1>0. /\ menu = NewMenu /\ failErr = FALSE /\ quitting = FALSE
      /\ drawing = [who \in Draws |-> Idle]
  BY DEF TrayInit, Draws
<1>1. \A w \in Widgets : NewMenu[w] \in Values(w[1])
  <2> SUFFICES ASSUME NEW w \in Widgets PROVE NewMenu[w] \in Values(w[1])
    OBVIOUS
  <2>1. CASE w[1] = "status"
    BY <2>1 DEF NewMenu, Values
  <2>2. CASE w[1] \in {"title", "tracked"}
    BY <2>2 DEF NewMenu, Values
  <2>3. CASE w[1] \notin {"status", "title", "tracked"}
    BY <2>3 DEF NewMenu, Values
  <2> QED
    BY <2>1, <2>2, <2>3
<1>2. NewMenu \in [Widgets -> Contents]
  <2>1. \A k : Values(k) \subseteq Contents
    BY DEF Values, Contents
  <2>2. NewMenu = [w \in Widgets |-> NewMenu[w]]
    BY DEF NewMenu
  <2> QED
    BY <1>1, <2>1, <2>2
<1>3. MenuTyped
  BY <1>0, <1>1, <1>2, IdleType DEF MenuTyped
<1>4. \A who \in Draws : drawing[who].pc = "idle" /\ drawing[who].todo = << >>
  BY <1>0 DEF Idle
<1>5. Busy /\ EngineHides
  BY <1>4 DEF Busy, EngineHides, Draws
<1>6. ASSUME NEW i \in Slots
      PROVE  RowKept(<< >>, NewMenu, i)
  <2>1. NewMenu[<<"tracked", i>>] = 0 /\ NewMenu[<<"title", i>>] = 0
    BY RowWidgetsAre DEF NewMenu
  <2> QED
    BY <2>1 DEF RowKept
<1>7. RowsKept
  BY <1>0, <1>4, <1>6 DEF RowsKept, Draws
<1> QED
  BY <1>3, <1>5, <1>7 DEF TrayInv

LEMMA TraySame ==
  ASSUME TrayInv, UNCHANGED <<menu, failErr, drawing>>, quitting' \in BOOLEAN
  PROVE  TrayInv'
BY DEF TrayInv, MenuTyped, Busy, EngineHides, RowsKept

\* The goroutine asks for the Status.
LEMMA CallKeeps ==
  ASSUME TrayInv, EngineTypeOK, NEW who \in Draws, Call(who),
         UNCHANGED <<menu, quitting>>,
         failErr' \in BOOLEAN, failErr => failErr',
         who = "engine" => failErr', drawing[who].pc # "drawing"
  PROVE  TrayInv'
<1> DEFINE d == [pc |-> "called", st |-> engines[Mine].status, todo |-> << >>]
<1>1. d \in Drawing /\ d.pc = "called" /\ d.todo = << >>
  <2>1. engines[Mine].status \in Status
    BY TrayAssumption DEF EngineTypeOK, Client
  <2> QED
    BY <2>1 DEF Drawing
<1>2. drawing' = [drawing EXCEPT ![who] = d] /\ drawing \in [Draws -> Drawing]
  BY DEF Call, TrayInv, MenuTyped
<1> HIDE DEF d
<1>3. /\ drawing' \in [Draws -> Drawing] /\ drawing'[who] = d
      /\ \A o \in Draws : o # who => drawing'[o] = drawing[o]
  BY <1>1, <1>2
<1>4. drawing[who].todo = << >>
  BY DEF TrayInv, Busy
<1>5. \A o \in Draws : drawing'[o].todo = drawing[o].todo
  BY <1>1, <1>3, <1>4
<1>6. MenuTyped'
  BY <1>3 DEF TrayInv, MenuTyped
<1>7. Busy'
  BY <1>1, <1>3 DEF TrayInv, Busy
<1>8. EngineHides'
  BY <1>3, <1>5 DEF TrayInv, EngineHides, Draws
<1>9. RowsKept'
  BY <1>5 DEF TrayInv, RowsKept, Draws
<1> QED
  BY <1>6, <1>7, <1>8, <1>9 DEF TrayInv

\* It looks at failErr, and knows what to draw.
LEMMA LookKeeps ==
  ASSUME TrayInv, NEW who \in Draws, Look(who)
  PROVE  TrayInv'
<1>1. PICK t : t = renderMenu(drawing[who].st)
  OBVIOUS
<1>2. drawing \in [Draws -> Drawing] /\ failErr \in BOOLEAN
  BY DEF TrayInv, MenuTyped
<1>3. drawing[who].st \in Status /\ drawing[who].todo \in Seq(Settings)
  BY <1>2 DEF Drawing
<1>4. /\ t \in Seq(Settings) /\ t # << >>
      /\ \A i \in Slots : Told(t, i)
      /\ failErr => \A p \in 1 .. Len(t) : t[p][1][1] \in RowWidgets =>
                      t[p] = Off(t[p][1][2])
  BY <1>1, <1>2, <1>3, RenderTold
<1> DEFINE d == [pc |-> "drawing", st |-> NoStatus, todo |-> t]
<1>5. d \in Drawing /\ d.pc = "drawing" /\ d.todo = t
  BY <1>4, IdleType DEF Drawing
<1>6. /\ drawing' = [drawing EXCEPT ![who] = d] /\ drawing[who].pc = "called"
      /\ UNCHANGED <<menu, failErr, quitting>>
  BY <1>1 DEF Look
<1> HIDE DEF d
<1>7. /\ drawing' \in [Draws -> Drawing] /\ drawing'[who] = d
      /\ \A o \in Draws : o # who => drawing'[o] = drawing[o]
  BY <1>2, <1>5, <1>6
<1>8. MenuTyped'
  BY <1>6, <1>7 DEF TrayInv, MenuTyped
<1>9. Busy'
  BY <1>4, <1>5, <1>7 DEF TrayInv, Busy
<1>10. EngineHides'
  <2>1. CASE who = "engine"
    <3>1. failErr
      BY <1>6, <2>1 DEF TrayInv, EngineHides
    <3>2. drawing'["engine"].todo = t
      BY <1>5, <1>7, <2>1
    <3> QED
      BY <1>4, <1>6, <3>1, <3>2 DEF EngineHides
  <2>2. CASE who # "engine"
    BY <1>6, <1>7, <2>2 DEF TrayInv, EngineHides, Draws
  <2> QED
    BY <2>1, <2>2
<1>11. RowsKept'
  <2>1. CASE who = "watch"
    <3>1. drawing["watch"].todo = << >> /\ drawing'["watch"].todo = t
      BY <1>5, <1>6, <1>7, <2>1 DEF TrayInv, Busy
    <3>2. \A i \in Slots : RowKept(<< >>, menu, i)
      BY <3>1 DEF TrayInv, RowsKept
    <3>3. \A i \in Slots : RowKept(t, menu, i)
      BY <1>4, <3>2, LookKeepsRow
    <3> QED
      BY <1>6, <3>1, <3>3 DEF RowsKept
  <2>2. CASE who # "watch"
    BY <1>6, <1>7, <2>2 DEF TrayInv, RowsKept, Draws
  <2> QED
    BY <2>1, <2>2
<1> QED
  BY <1>8, <1>9, <1>10, <1>11 DEF TrayInv

\* It sets the next widget.
LEMMA DrawKeeps ==
  ASSUME TrayInv, NEW who \in Draws, Draw(who)
  PROVE  TrayInv'
<1> DEFINE t == drawing[who].todo
           x == Head(t)
           d == drawing'[who]
<1>1. /\ drawing \in [Draws -> Drawing] /\ failErr \in BOOLEAN
      /\ menu \in [Widgets -> Contents]
      /\ \A w \in Widgets : menu[w] \in Values(w[1])
  BY DEF TrayInv, MenuTyped
<1>2. t \in Seq(Settings) /\ t # << >> /\ drawing[who].pc = "drawing"
  BY <1>1 DEF Drawing, Draw, TrayInv, Busy
<1>3. /\ Tail(t) \in Seq(Settings) /\ Len(Tail(t)) = Len(t) - 1
      /\ Len(t) \in Nat \ {0} /\ x = t[1] /\ x \in Settings /\ 1 \in 1 .. Len(t)
      /\ \A p \in 1 .. Len(Tail(t)) :
           p + 1 \in 1 .. Len(t) /\ Tail(t)[p] = t[p + 1]
  BY <1>2
<1>4. /\ menu' = [menu EXCEPT ![x[1]] = x[2]]
      /\ drawing' = [drawing EXCEPT ![who] =
           IF Len(t) = 1 THEN Idle ELSE [@ EXCEPT !.todo = Tail(t)]]
      /\ UNCHANGED <<failErr, quitting>>
  BY DEF Draw
<1>5. /\ d \in Drawing /\ d.todo = Tail(t)
      /\ d.pc = "drawing" <=> Tail(t) # << >>
  <2>1. CASE Len(t) = 1
    <3>1. d = Idle
      BY <1>1, <1>4, <2>1
    <3>2. Tail(t) = << >>
      <4> HIDE DEF t
      <4> QED
        BY <1>2, <2>1, TailEmpty
    <3> QED
      BY <3>1, <3>2, IdleType DEF Idle
  <2>2. CASE Len(t) # 1
    <3>1. d = [drawing[who] EXCEPT !.todo = Tail(t)]
      BY <1>1, <1>4, <2>2
    <3>2. drawing[who] \in Drawing
      BY <1>1
    <3>3. d \in Drawing /\ d.todo = Tail(t) /\ d.pc = drawing[who].pc
      BY <1>3, <3>1, <3>2 DEF Drawing
    <3>4. Tail(t) # << >>
      <4> HIDE DEF t
      <4> QED
        BY <1>2, <2>2, TailEmpty
    <3> QED
      BY <1>2, <3>3, <3>4
  <2> QED
    BY <2>1, <2>2
<1>6. /\ drawing' \in [Draws -> Drawing]
      /\ \A o \in Draws : o # who => drawing'[o] = drawing[o]
  <2>1. drawing' = [drawing EXCEPT ![who] = d]
    BY <1>1, <1>4
  <2> HIDE DEF d
  <2> QED
    BY <1>1, <1>5, <2>1
<1> HIDE DEF x, t, d
<1>7. MenuTyped'
  <2>1. x[1] \in Widgets /\ x[2] \in Values(x[1][1]) /\ x[2] \in Contents
    BY <1>3 DEF Settings, Contents
  <2>2. menu' \in [Widgets -> Contents]
    BY <1>1, <1>4, <2>1
  <2>3. \A w \in Widgets : menu'[w] \in Values(w[1])
    BY <1>1, <1>4, <2>1
  <2> QED
    BY <1>4, <1>6, <2>2, <2>3 DEF TrayInv, MenuTyped
<1>8. Busy'
  <2>1. drawing'[who].pc = "drawing" <=> drawing'[who].todo # << >>
    BY <1>5 DEF d
  <2> QED
    BY <1>6, <2>1 DEF TrayInv, Busy
<1>9. EngineHides'
  <2>1. CASE who = "engine"
    <3>1. failErr /\ drawing'["engine"].todo = Tail(t)
      BY <1>2, <1>5, <2>1 DEF d, TrayInv, EngineHides
    <3>2. \A p \in 1 .. Len(t) : t[p][1][1] \in RowWidgets =>
            t[p] = Off(t[p][1][2])
      BY <2>1 DEF t, TrayInv, EngineHides
    <3>3. \A p \in 1 .. Len(Tail(t)) : Tail(t)[p][1][1] \in RowWidgets =>
            Tail(t)[p] = Off(Tail(t)[p][1][2])
      BY <1>3, <3>2
    <3> QED
      BY <1>4, <3>1, <3>3 DEF EngineHides
  <2>2. CASE who # "engine"
    BY <1>4, <1>6, <2>2 DEF TrayInv, EngineHides, Draws
  <2> QED
    BY <2>1, <2>2
<1>10. RowsKept'
  <2> SUFFICES ASSUME NEW i \in Slots
               PROVE  RowKept(drawing'["watch"].todo, menu', i)
    BY DEF RowsKept
  <2>1. RowKept(drawing["watch"].todo, menu, i)
    BY DEF TrayInv, RowsKept
  <2>2. CASE who = "watch"
    <3>1. RowKept(t, menu, i) /\ drawing'["watch"].todo = Tail(t)
      BY <1>5, <2>1, <2>2 DEF t, d
    <3>2. RowKept(Tail(t), [menu EXCEPT ![Head(t)[1]] = Head(t)[2]], i)
      BY <1>1, <1>2, <3>1, DrawKeepsRow
    <3> QED
      BY <1>4, <3>1, <3>2 DEF x
  <2>3. CASE who # "watch"
    <3>1. drawing'["watch"].todo = drawing["watch"].todo
      BY <1>6, <2>3 DEF Draws
    <3>2. x[1][1] \in RowWidgets => x = Off(x[1][2])
      BY <1>3, <2>3 DEF t, Draws, TrayInv, EngineHides
    <3>3. RowKept(drawing["watch"].todo, [menu EXCEPT ![x[1]] = x[2]], i)
      BY <1>1, <1>3, <2>1, <3>2, HideKeepsRow
    <3> QED
      BY <1>4, <3>1, <3>3
  <2> QED
    BY <2>2, <2>3
<1> QED
  BY <1>7, <1>8, <1>9, <1>10 DEF TrayInv

-----------------------------------------------------------------------------
(* The clients. *)

LEMMA ClientSet ==
  ASSUME EngineTypeOK, NEW e \in Engines, NEW c \in Client,
         engines' = [engines EXCEPT ![e] = c], changes' \in 0 .. MaxChanges
  PROVE  /\ EngineTypeOK' /\ engines'[e] = c
         /\ \A d \in Engines : d # e => engines'[d] = engines[d]
BY DEF EngineTypeOK

\* A client that runs comes to another stage; what comes from outside leaves it
\* at its stage.
LEMMA ClientSteps ==
  ASSUME EngineTypeOK, NEW e \in Engines, Run(e) \/ Outside(e)
  PROVE  /\ EngineTypeOK'
         /\ \A d \in Engines : d # e => engines'[d].stage = engines[d].stage
         /\ \/ engines'[e].stage = engines[e].stage
            \/ Running(e) /\ engines'[e].stage \notin {"none", "gone"}
<1>1. /\ engines[e] \in Client /\ changes \in 0 .. MaxChanges
      /\ engines \in [Engines -> Client] /\ MaxChanges \in Nat
  BY EngineAssumption DEF EngineTypeOK
<1>2. ASSUME NEW c \in Client, engines' = [engines EXCEPT ![e] = c],
             changes' \in 0 .. MaxChanges,
             \/ c.stage = engines[e].stage
             \/ Running(e) /\ c.stage \notin {"none", "gone"}
      PROVE  /\ EngineTypeOK'
             /\ \A d \in Engines : d # e => engines'[d].stage = engines[d].stage
             /\ \/ engines'[e].stage = engines[e].stage
                \/ Running(e) /\ engines'[e].stage \notin {"none", "gone"}
  BY <1>2, ClientSet
<1>3. CASE Run(e)
  <2>1. Running(e) /\ UNCHANGED changes
    BY <1>3 DEF Run, Register, StopWaiting, OpenDevice, Leave, At, Running
  <2>2. ASSUME NEW s \in {"waiting", "opening", "serving"},
               engines' = [engines EXCEPT ![e].stage = s]
        PROVE  \E c \in Client : /\ engines' = [engines EXCEPT ![e] = c]
                                 /\ c.stage \notin {"none", "gone"}
    <3>1. [engines[e] EXCEPT !.stage = s] \in Client
      BY <1>1 DEF Client, Stage
    <3>2. engines' = [engines EXCEPT ![e] = [engines[e] EXCEPT !.stage = s]]
      BY <1>1, <2>2
    <3>3. [engines[e] EXCEPT !.stage = s].stage = s
      BY <1>1 DEF Client
    <3> QED
      BY <3>1, <3>2, <3>3
  <2>3. ASSUME NEW failed \in BOOLEAN, engines' = Returned(e, failed)
        PROVE  \E c \in Client : /\ engines' = [engines EXCEPT ![e] = c]
                                 /\ c.stage \notin {"none", "gone"}
    <3> DEFINE c == [engines[e] EXCEPT !.stage = "ended", !.failed = failed]
    <3>1. c \in Client /\ c.stage = "ended"
      BY <1>1 DEF Client, Stage
    <3>2. engines' = [engines EXCEPT ![e] = c]
      BY <1>1, <2>3 DEF Returned
    <3> QED
      BY <3>1, <3>2
  <2>4. \E c \in Client : /\ engines' = [engines EXCEPT ![e] = c]
                          /\ c.stage \notin {"none", "gone"}
    BY <1>3, <2>2, <2>3 DEF Run, Register, StopWaiting, OpenDevice, Leave
  <2> QED
    BY <1>1, <1>2, <2>1, <2>4
<1>4. CASE Outside(e)
  <2>1. CASE Registered(e)
    <3> DEFINE c == [engines[e] EXCEPT !.status.vip = TRUE]
    <3>1. c \in Client /\ c.stage = engines[e].stage
      BY <1>1 DEF Client, Status
    <3>2. engines' = [engines EXCEPT ![e] = c] /\ UNCHANGED changes
      BY <1>1, <2>1 DEF Registered
    <3> QED
      BY <1>1, <1>2, <3>1, <3>2
  <2>2. CASE \E peers \in SUBSET Peers : MergePeers(e, peers)
    <3>1. PICK peers \in SUBSET Peers : MergePeers(e, peers)
      BY <2>2
    <3> DEFINE c == [engines[e] EXCEPT !.status.peers = peers]
    <3>2. c \in Client /\ c.stage = engines[e].stage
      BY <1>1 DEF Client, Status
    <3>3. engines' = [engines EXCEPT ![e] = c] /\ changes' \in 0 .. MaxChanges
      BY <1>1, <3>1 DEF MergePeers
    <3> QED
      BY <1>2, <3>2, <3>3
  <2>3. CASE Refused(e) \/ DeviceFails(e)
    <3> DEFINE c == [engines[e] EXCEPT !.closing = TRUE]
    <3>1. c \in Client /\ c.stage = engines[e].stage
      BY <1>1 DEF Client
    <3>2. engines' = [engines EXCEPT ![e] = c] /\ UNCHANGED changes
      BY <1>1, <2>3 DEF Refused, DeviceFails, Closed
    <3> QED
      BY <1>1, <1>2, <3>1, <3>2
  <2> QED
    BY <1>4, <2>1, <2>2, <2>3 DEF Outside
<1> QED
  BY <1>3, <1>4

LEMMA ClosedKeeps ==
  ASSUME EngineTypeOK, NEW e \in Engines, engines' = Closed(e),
         UNCHANGED changes
  PROVE  /\ EngineTypeOK'
         /\ \A d \in Engines : engines'[d].stage = engines[d].stage
<1> DEFINE c == [engines[e] EXCEPT !.closing = TRUE]
<1>1. engines \in [Engines -> Client] /\ engines[e] \in Client
  BY DEF EngineTypeOK
<1>2. c \in Client /\ c.stage = engines[e].stage
  BY <1>1 DEF Client
<1>3. engines' = [engines EXCEPT ![e] = c] /\ changes' \in 0 .. MaxChanges
  BY <1>1 DEF Closed, EngineTypeOK
<1> HIDE DEF c
<1> QED
  BY <1>2, <1>3, ClientSet

-----------------------------------------------------------------------------
(* The window, and which program has which clients. *)

Quiet(d) == engines[d].stage \in {"none", "gone"}
Finish(q, j) == q[j].do = "finish"

\* A connection has a client until its end has been handled: that end is queued
\* once, when the client is gone.
WindowInv ==
  /\ WindowTypeOK
  /\ refresh.pc = "taken" => refresh.engine \in Engines
  /\ connected <=> engine # NoEngine
  /\ \A j \in 1 .. Len(queue) : Finish(queue, j) =>
       /\ connected /\ At(engine, "gone")
       /\ \A k \in 1 .. Len(queue) : Finish(queue, k) => k = j

\* Nothing of the window is left without it.
NoWindow == ~connected /\ queue = << >> /\ refresh = Waiting

\* The window may have left any number of clients behind, all of them gone; the
\* other programs have one client, and none before they have prepared.
ProgramInv ==
  /\ program.cmd # "window" =>
       /\ NoWindow
       /\ \A d \in Engines :
            d # Mine \/ program.todo # << >> \/ program.cmd = "none" =>
              At(d, "none")
  /\ connected => program.todo = << >>
  /\ program.cmd = "window" => \A d \in Engines : d # engine => Quiet(d)

MemoryInv == EngineTypeOK /\ WindowInv /\ ProgramInv

LEMMA RunningOne == MemoryInv => OneEngine
<1> SUFFICES ASSUME MemoryInv, NEW e \in Engines, Running(e)
             PROVE  /\ \A d \in Engines \ {e} : ~Running(d)
                    /\ program.cmd = "window" => connected /\ engine = e
  BY DEF OneEngine
<1>1. ~Quiet(e) /\ ~At(e, "none")
  BY DEF Running, Quiet, At
<1>2. CASE program.cmd = "window"
  <2>1. engine = e /\ engine # NoEngine
    BY <1>1, <1>2, WindowAssumption DEF MemoryInv, ProgramInv
  <2> QED
    BY <1>2, <2>1 DEF MemoryInv, ProgramInv, WindowInv, Quiet, Running
<1>3. CASE program.cmd # "window"
  BY <1>1, <1>3 DEF MemoryInv, ProgramInv, At, Running
<1> QED
  BY <1>2, <1>3

\* A program that is not connected has nothing that runs.
LEMMA Preparing ==
  ASSUME MemoryInv, \/ program.todo # << >>
                    \/ program.cmd = "none"
                    \/ ~connected /\ program.cmd = "window"
  PROVE  /\ ~connected /\ engine = NoEngine
         /\ \A d \in Engines : Quiet(d)
         /\ program.cmd # "window" => \A d \in Engines : At(d, "none")
         /\ \A j \in 1 .. Len(queue) : ~Finish(queue, j)
<1>1. ~connected
  BY DEF MemoryInv, ProgramInv, NoWindow
<1>2. engine = NoEngine /\ engine \notin Engines
  BY <1>1, WindowAssumption DEF MemoryInv, WindowInv
<1>3. \A d \in Engines : Quiet(d)
  BY <1>2 DEF MemoryInv, ProgramInv, Quiet, At
<1> QED
  BY <1>1, <1>2, <1>3 DEF MemoryInv, ProgramInv, WindowInv

\* What the programs do with the disk before they connect.
LEMMA DiskKeeps ==
  ASSUME MemoryInv, UNCHANGED <<engineVars, windowVars>>,
         \/ program.todo # << >>
         \/ program.cmd = "none"
         \/ ~connected /\ program.cmd = "window",
         program.cmd = "window" => program'.cmd = "window"
  PROVE  MemoryInv'
<1>1. /\ ~connected /\ engine = NoEngine
      /\ \A d \in Engines : Quiet(d)
      /\ program.cmd # "window" => \A d \in Engines : At(d, "none")
  BY Preparing
<1>2. EngineTypeOK' /\ WindowInv'
  BY DEF MemoryInv, EngineTypeOK, WindowInv, WindowTypeOK, Finish, At,
         engineVars, windowVars
<1>3. program.cmd # "window" => NoWindow
  BY DEF MemoryInv, ProgramInv
<1>4. ProgramInv'
  BY <1>1, <1>3 DEF ProgramInv, NoWindow, Quiet, At, engineVars, windowVars
<1> QED
  BY <1>2, <1>4 DEF MemoryInv

\* Closing a client, and what comes from outside, leaves all at their stages.
LEMMA StagesKeep ==
  ASSUME MemoryInv, EngineTypeOK', UNCHANGED <<program, windowVars>>,
         \A d \in Engines : engines'[d].stage = engines[d].stage
  PROVE  MemoryInv'
<1>1. connected => engine \in Engines
  BY DEF MemoryInv, WindowInv, WindowTypeOK
<1>2. WindowInv'
  BY <1>1 DEF MemoryInv, WindowInv, WindowTypeOK, Finish, At, windowVars
<1>3. ProgramInv'
  BY DEF MemoryInv, ProgramInv, NoWindow, Quiet, At, windowVars
<1> QED
  BY <1>2, <1>3 DEF MemoryInv

\* A client takes a step, and the program none.
LEMMA ClientKeeps ==
  ASSUME MemoryInv, NEW e \in Engines, Run(e) \/ Outside(e),
         UNCHANGED <<program, windowVars>>
  PROVE  MemoryInv'
<1>1. /\ EngineTypeOK'
      /\ \A d \in Engines : d # e => engines'[d].stage = engines[d].stage
      /\ \/ engines'[e].stage = engines[e].stage
         \/ Running(e) /\ engines'[e].stage \notin {"none", "gone"}
  BY ClientSteps DEF MemoryInv
<1>2. CASE engines'[e].stage = engines[e].stage
  BY <1>1, <1>2, StagesKeep
<1>3. CASE Running(e)
  <2>1. ~Quiet(e) /\ ~At(e, "none") /\ ~At(e, "gone")
    BY <1>3 DEF Running, Quiet, At
  <2>2. program.cmd = "window" => engine = e
    BY <2>1 DEF MemoryInv, ProgramInv
  <2>3. program.cmd # "window" => e = Mine /\ program.todo = << >>
                                    /\ program.cmd # "none"
    BY <2>1 DEF MemoryInv, ProgramInv
  <2>4. \A j \in 1 .. Len(queue) : ~Finish(queue, j)
    <3>1. CASE program.cmd = "window"
      BY <2>1, <2>2, <3>1 DEF MemoryInv, WindowInv
    <3>2. CASE program.cmd # "window"
      BY <3>2 DEF MemoryInv, ProgramInv, NoWindow
    <3> QED
      BY <3>1, <3>2
  <2>5. WindowInv'
    BY <2>4 DEF MemoryInv, WindowInv, WindowTypeOK, Finish, windowVars
  <2>6. ProgramInv'
    BY <1>1, <2>2, <2>3
       DEF MemoryInv, ProgramInv, NoWindow, Quiet, At, windowVars
  <2> QED
    BY <1>1, <2>5, <2>6 DEF MemoryInv
<1> QED
  BY <1>1, <1>2, <1>3

\* Nothing is left of a program.
LEMMA ExitKeeps ==
  ASSUME MemoryInv, Exit
  PROVE  MemoryInv' /\ TrayInv'
<1>1. NoClient \in Client /\ NoClient.stage = "none"
  BY DEF NoClient, Client, Stage, Status, NoStatus
<1>2. /\ EngineTypeOK' /\ \A d \in Engines : engines'[d].stage = "none"
  BY <1>1 DEF Exit, NoClients, MemoryInv, EngineTypeOK
<1>3. Waiting \in [pc : {"waiting", "taken", "asked"},
                   engine : Engines \cup {NoEngine}, st : Status]
      /\ Waiting.pc = "waiting"
  BY IdleType DEF Waiting
<1>4. WindowInv'
  <2>1. << >> \in Seq(Closure) /\ \A j : j \notin 1 .. Len(<< >>)
    OBVIOUS
  <2>2. /\ connected' = FALSE /\ engine' = NoEngine /\ queue' = << >>
        /\ refresh' = Waiting /\ label' = "off" /\ model' = {}
    BY DEF Exit
  <2>3. WindowTypeOK'
    BY <1>3, <2>1, <2>2 DEF WindowTypeOK
  <2> QED
    BY <1>3, <2>1, <2>2, <2>3 DEF WindowInv
<1>5. program'.cmd = "none"
  BY DEF Exit, NoProgram
<1>6. ProgramInv'
  BY <1>2, <1>5 DEF Exit, ProgramInv, NoWindow, At
<1>7. TrayInv'
  <2>1. (TrayInit => TrayInv)'
    BY FreshTray, PTL
  <2>2. TrayInit'
    BY DEF Exit, TrayInit
  <2> QED
    BY <2>1, <2>2
<1> QED
  BY <1>2, <1>4, <1>6, <1>7 DEF MemoryInv

\* A client is made and run.
LEMMA StartKeeps ==
  ASSUME MemoryInv, StoreInv, Start
  PROVE  MemoryInv'
<1>1. PICK e \in Engines :
        /\ \A d \in Engines : d < e <=> ~At(d, "none")
        /\ New(e, program.password = "right")
        /\ IF program.cmd = "window" THEN StoreEngine(e)
           ELSE UNCHANGED windowVars
  BY DEF Start
<1>2. /\ program.todo # << >> /\ program.cmd # "none"
      /\ program'.cmd = program.cmd /\ program'.todo = << >>
  <2>1. program' = [NoProgram EXCEPT !.cmd = program.cmd] /\ Due("start")
    BY DEF Start
  <2>2. program.todo # << >> /\ program.cmd \in DOMAIN Stages
    BY <2>1, Where DEF StageNames
  <2> QED
    BY <2>1, <2>2 DEF NoProgram, Stages
<1>3. /\ ~connected /\ engine = NoEngine
      /\ \A d \in Engines : Quiet(d)
      /\ program.cmd # "window" => \A d \in Engines : At(d, "none")
      /\ \A j \in 1 .. Len(queue) : ~Finish(queue, j)
  BY <1>2, Preparing
<1>4. /\ EngineTypeOK' /\ \A d \in Engines : d # e => engines'[d] = engines[d]
  <2> DEFINE c == [engines[e] EXCEPT !.stage = "new",
                                     !.accepted = program.password = "right"]
  <2>1. engines \in [Engines -> Client] /\ engines[e] \in Client
    BY DEF MemoryInv, EngineTypeOK
  <2>2. c \in Client
    BY <2>1 DEF Client, Stage
  <2>3. engines' = [engines EXCEPT ![e] = c] /\ changes' \in 0 .. MaxChanges
    BY <1>1, <2>1 DEF New, MemoryInv, EngineTypeOK
  <2> HIDE DEF c
  <2> QED
    BY <2>2, <2>3, ClientSet DEF MemoryInv
<1>5. CASE program.cmd = "window"
  <2>1. StoreEngine(e)
    BY <1>1, <1>5
  <2>2. WindowInv'
    BY <1>3, <2>1, WindowAssumption
       DEF MemoryInv, WindowInv, WindowTypeOK, StoreEngine, Finish
  <2>3. ProgramInv'
    BY <1>2, <1>3, <1>4, <1>5, <2>1 DEF ProgramInv, Quiet, StoreEngine
  <2> QED
    BY <1>4, <2>2, <2>3 DEF MemoryInv
<1>6. CASE program.cmd # "window"
  <2>1. UNCHANGED windowVars
    BY <1>1, <1>6
  <2>2. WindowInv'
    BY <1>3, <2>1 DEF MemoryInv, WindowInv, WindowTypeOK, windowVars, Finish
  <2>3. e = Mine
    <3>1. Mine \in Engines /\ Mine = 1 /\ Engines \subseteq Int /\ e >= 1
      BY TrayAssumption, DesktopAssumption, EngineAssumption, FS_CardinalityType
    <3>2. ~(Mine < e)
      BY <1>1, <1>3, <1>6, <3>1
    <3> QED
      BY <3>1, <3>2
  <2>4. ProgramInv'
    BY <1>2, <1>3, <1>4, <1>6, <2>1, <2>3
       DEF MemoryInv, ProgramInv, NoWindow, windowVars, At
  <2> QED
    BY <1>4, <2>2, <2>4 DEF MemoryInv
<1> QED
  BY <1>5, <1>6

\* refreshLoop.
LEMMA RefreshKeeps ==
  ASSUME MemoryInv, RefreshStep, UNCHANGED program
  PROVE  MemoryInv'
<1>1. /\ UNCHANGED <<engineVars, connected, engine, label, model>>
      /\ EngineTypeOK'
  BY DEF RefreshStep, Take, Ask, QueueRender, MemoryInv, EngineTypeOK,
         engineVars
<1>2. program.cmd = "window"
  BY DEF RefreshStep, Take, Ask, QueueRender, Waiting, MemoryInv, WindowInv,
         ProgramInv, NoWindow
<1>3. ProgramInv'
  BY <1>1, <1>2 DEF MemoryInv, ProgramInv, Quiet, engineVars
<1> DEFINE Refreshes == [pc : {"waiting", "taken", "asked"},
                         engine : Engines \cup {NoEngine}, st : Status]
<1>4. refresh \in Refreshes /\ queue \in Seq(Closure)
  BY DEF MemoryInv, WindowInv, WindowTypeOK
<1>5. CASE Take
  <2>1. refresh' = [refresh EXCEPT !.pc = "taken", !.engine = engine]
           /\ engine \in Engines /\ UNCHANGED queue
    BY <1>5 DEF Take, MemoryInv, WindowInv, WindowTypeOK
  <2>2. refresh' \in Refreshes /\ refresh'.engine \in Engines
    BY <1>4, <2>1
  <2>3. WindowInv'
    BY <1>1, <2>1, <2>2
       DEF MemoryInv, WindowInv, WindowTypeOK, Finish, At, engineVars
  <2> QED
    BY <1>1, <1>3, <2>3 DEF MemoryInv
<1>6. CASE Ask
  <2>1. /\ refresh' = [pc |-> "asked", engine |-> NoEngine,
                       st |-> engines[refresh.engine].status]
        /\ refresh.engine \in Engines /\ UNCHANGED queue
    BY <1>6 DEF Ask, MemoryInv, WindowInv
  <2>2. engines[refresh.engine].status \in Status
    BY <2>1 DEF MemoryInv, EngineTypeOK, Client
  <2>3. refresh' \in Refreshes /\ refresh'.pc = "asked"
    BY <2>1, <2>2
  <2>4. WindowInv'
    BY <1>1, <2>1, <2>3
       DEF MemoryInv, WindowInv, WindowTypeOK, Finish, At, engineVars
  <2> QED
    BY <1>1, <1>3, <2>4 DEF MemoryInv
<1>7. CASE QueueRender
  <2> DEFINE c == [do |-> "render", st |-> refresh.st]
  <2>1. queue' = Append(queue, c) /\ refresh' = Waiting
    BY <1>7 DEF QueueRender
  <2>2. c \in Closure /\ c.do # "finish"
    BY <1>4 DEF Closure
  <2> HIDE DEF c
  <2>3. /\ queue' \in Seq(Closure) /\ Len(queue') = Len(queue) + 1
        /\ Len(queue) \in Nat /\ queue'[Len(queue) + 1] = c
        /\ \A j \in 1 .. Len(queue) : queue'[j] = queue[j]
    BY <1>4, <2>1, <2>2
  <2>4. \A j \in 1 .. Len(queue') : Finish(queue', j) =>
          j \in 1 .. Len(queue) /\ Finish(queue, j)
    BY <2>2, <2>3 DEF Finish
  <2>5. Waiting \in Refreshes /\ Waiting.pc = "waiting"
    BY IdleType DEF Waiting
  <2>6. WindowTypeOK'
    BY <1>1, <2>1, <2>3, <2>5 DEF MemoryInv, WindowInv, WindowTypeOK
  <2>7. \A j \in 1 .. Len(queue') : Finish(queue', j) =>
          /\ connected' /\ At(engine, "gone")'
          /\ \A k \in 1 .. Len(queue') : Finish(queue', k) => k = j
    BY <1>1, <2>4 DEF MemoryInv, WindowInv, At, engineVars
  <2>8. WindowInv'
    BY <1>1, <2>1, <2>5, <2>6, <2>7 DEF MemoryInv, WindowInv
  <2> QED
    BY <1>1, <1>3, <2>8 DEF MemoryInv
<1> QED
  BY <1>5, <1>6, <1>7 DEF RefreshStep

\* A connection has ended.
LEMMA QueueFinishKeeps ==
  ASSUME MemoryInv, program.cmd = "window", NEW e \in Engines, QueueFinish(e),
         UNCHANGED program
  PROVE  MemoryInv'
<1> DEFINE c == [do |-> "finish", failed |-> engines[e].failed]
           n == [NoClient EXCEPT !.stage = "gone", !.status = engines[e].status]
<1>1. /\ queue' = Append(queue, c) /\ engines' = [engines EXCEPT ![e] = n]
      /\ At(e, "ended")
      /\ UNCHANGED <<changes, connected, engine, refresh, label, model>>
  BY DEF QueueFinish
<1>2. engines \in [Engines -> Client] /\ engines[e] \in Client
  BY DEF MemoryInv, EngineTypeOK
<1>3. n \in Client /\ n.stage = "gone" /\ c \in Closure
  BY <1>2 DEF NoClient, Client, Stage, Closure, NoStatus, Status
<1> HIDE DEF c, n
<1>4. /\ EngineTypeOK' /\ engines'[e] = n
      /\ \A d \in Engines : d # e => engines'[d] = engines[d]
  <2>1. changes' \in 0 .. MaxChanges
    BY <1>1 DEF MemoryInv, EngineTypeOK
  <2> QED
    BY <1>1, <1>3, <2>1, ClientSet DEF MemoryInv
<1>5. engine = e /\ connected
  <2>1. ~Quiet(e)
    BY <1>1 DEF At, Quiet
  <2>2. engine = e /\ e # NoEngine
    BY <2>1, WindowAssumption DEF MemoryInv, ProgramInv
  <2> QED
    BY <2>2 DEF MemoryInv, WindowInv
<1>6. \A j \in 1 .. Len(queue) : ~Finish(queue, j)
  BY <1>1, <1>5 DEF MemoryInv, WindowInv, At
<1>7. /\ queue' \in Seq(Closure) /\ Len(queue') = Len(queue) + 1
      /\ Len(queue) \in Nat
      /\ \A j \in 1 .. Len(queue) : queue'[j] = queue[j]
  BY <1>1, <1>3 DEF MemoryInv, WindowInv, WindowTypeOK
<1>8. \A j \in 1 .. Len(queue') : Finish(queue', j) => j = Len(queue')
  BY <1>6, <1>7 DEF Finish
<1>9. WindowTypeOK'
  BY <1>1, <1>7 DEF MemoryInv, WindowInv, WindowTypeOK
<1>10. WindowInv'
  BY <1>1, <1>3, <1>4, <1>5, <1>8, <1>9 DEF MemoryInv, WindowInv, At
<1>11. ProgramInv'
  BY <1>1, <1>4, <1>5 DEF MemoryInv, ProgramInv, Quiet
<1> QED
  BY <1>4, <1>10, <1>11 DEF MemoryInv

\* The UI thread draws a status, or finishes a connection.
LEMMA RunClosureKeeps ==
  ASSUME MemoryInv, program.cmd = "window", RunClosure, UNCHANGED program
  PROVE  MemoryInv'
<1> DEFINE c == Head(queue)
<1>1. /\ queue \in Seq(Closure) /\ queue # << >> /\ queue' = Tail(queue)
      /\ UNCHANGED <<engineVars, refresh>>
  BY DEF RunClosure, MemoryInv, WindowInv, WindowTypeOK
<1>2. /\ queue' \in Seq(Closure) /\ Len(queue') = Len(queue) - 1
      /\ Len(queue) \in Nat \ {0} /\ 1 \in 1 .. Len(queue)
      /\ c = queue[1] /\ c \in Closure
      /\ \A j \in 1 .. Len(queue') :
           j + 1 \in 1 .. Len(queue) /\ queue'[j] = queue[j + 1]
  BY <1>1
<1>3. \A j \in 1 .. Len(queue') : Finish(queue', j) =>
        j + 1 \in 1 .. Len(queue) /\ Finish(queue, j + 1)
  BY <1>2 DEF Finish
<1>4. EngineTypeOK'
  BY <1>1 DEF MemoryInv, EngineTypeOK, engineVars
<1>5. CASE c.do = "render" /\ render(c.st) /\ UNCHANGED <<engine, connected>>
  <2>1. c.st \in Status
    BY <1>2, <1>5 DEF Closure
  <2>2. /\ label' \in {"off", "error", "connecting", "online"}
        /\ model' \in SUBSET Peers
    BY <1>5, <2>1 DEF render, Status, MemoryInv, WindowInv, WindowTypeOK
  <2>3. WindowTypeOK'
    BY <1>1, <1>2, <1>5, <2>2 DEF MemoryInv, WindowInv, WindowTypeOK
  <2>4. ASSUME NEW j \in 1 .. Len(queue'), Finish(queue', j)
        PROVE  /\ connected' /\ At(engine, "gone")'
               /\ \A k \in 1 .. Len(queue') : Finish(queue', k) => k = j
    <3>1. j + 1 \in 1 .. Len(queue) /\ Finish(queue, j + 1)
      BY <1>3, <2>4
    <3>2. /\ connected /\ At(engine, "gone")
          /\ \A k \in 1 .. Len(queue) : Finish(queue, k) => k = j + 1
      BY <3>1 DEF MemoryInv, WindowInv
    <3>3. \A k \in 1 .. Len(queue') : Finish(queue', k) => k + 1 = j + 1
      BY <1>3, <3>2
    <3> QED
      BY <1>1, <1>2, <1>5, <3>2, <3>3 DEF At, engineVars
  <2>5. WindowInv'
    BY <1>1, <1>5, <2>3, <2>4 DEF MemoryInv, WindowInv
  <2>6. ProgramInv'
    BY <1>1, <1>5 DEF MemoryInv, ProgramInv, Quiet, engineVars
  <2> QED
    BY <1>4, <2>5, <2>6 DEF MemoryInv
<1>6. CASE c.do = "finish" /\ finishDisconnect(c.failed)
  <2>1. Finish(queue, 1)
    BY <1>2, <1>6 DEF Finish
  <2>2. connected /\ At(engine, "gone")
           /\ \A k \in 1 .. Len(queue) : Finish(queue, k) => k = 1
    BY <1>2, <2>1 DEF MemoryInv, WindowInv
  <2>3. \A j \in 1 .. Len(queue') : ~Finish(queue', j)
    BY <1>2, <1>3, <2>2
  <2>4. /\ engine' = NoEngine /\ connected' = FALSE /\ model' = {}
        /\ label' \in {"off", "error", "connecting", "online"}
    BY <1>6 DEF finishDisconnect
  <2>5. WindowInv'
    BY <1>1, <1>2, <2>3, <2>4 DEF MemoryInv, WindowInv, WindowTypeOK
  <2>6. \A d \in Engines : Quiet(d)
    BY <2>2 DEF MemoryInv, ProgramInv, Quiet, At
  <2>7. ProgramInv'
    BY <1>1, <2>4, <2>6 DEF ProgramInv, Quiet, engineVars
  <2> QED
    BY <1>4, <2>5, <2>7 DEF MemoryInv
<1> QED
  BY <1>5, <1>6 DEF RunClosure

\* The engine goroutine of the tray says that the client is gone.
LEMMA ReportKeeps ==
  ASSUME MemoryInv, program.cmd = "tray", Report,
         UNCHANGED <<program, windowVars>>
  PROVE  MemoryInv'
<1>1. /\ engines' = [engines EXCEPT ![Mine].stage = "gone"] /\ UNCHANGED changes
      /\ At(Mine, "ended") /\ Mine \in Engines
  BY TrayAssumption DEF Report
<1>2. engines \in [Engines -> Client] /\ engines[Mine] \in Client
  BY <1>1 DEF MemoryInv, EngineTypeOK
<1> DEFINE c == [engines[Mine] EXCEPT !.stage = "gone"]
<1>3. c \in Client /\ engines' = [engines EXCEPT ![Mine] = c]
         /\ changes' \in 0 .. MaxChanges
  BY <1>1, <1>2 DEF Client, Stage, MemoryInv, EngineTypeOK
<1> HIDE DEF c
<1>4. EngineTypeOK' /\ \A d \in Engines : d # Mine => engines'[d] = engines[d]
  BY <1>1, <1>3, ClientSet DEF MemoryInv
<1>5. program.todo = << >>
  BY <1>1 DEF MemoryInv, ProgramInv, At
<1>6. WindowInv'
  BY DEF MemoryInv, WindowInv, WindowTypeOK, ProgramInv, NoWindow, Finish,
         windowVars
<1>7. ProgramInv'
  BY <1>4, <1>5 DEF MemoryInv, ProgramInv, NoWindow, At, windowVars
<1> QED
  BY <1>4, <1>6, <1>7 DEF MemoryInv

-----------------------------------------------------------------------------
(* All of it. *)

DesktopInv == StoreInv /\ MemoryInv /\ TrayInv

LEMMA InitOK == Init => DesktopInv
<1> SUFFICES ASSUME Init PROVE DesktopInv
  OBVIOUS
<1>1. StoreInv
  BY StoreInitOK DEF Init
<1>2. NoClient \in Client /\ NoClient.stage = "none"
  BY DEF NoClient, Client, Stage, Status, NoStatus
<1>3. EngineTypeOK /\ \A d \in Engines : At(d, "none")
  BY <1>2, EngineAssumption DEF Init, EngineInit, EngineTypeOK, NoClients, At
<1>4. WindowInv /\ NoWindow
  <2>1. << >> \in Seq(Closure) /\ \A j : j \notin 1 .. Len(<< >>)
    OBVIOUS
  <2>2. /\ Waiting \in [pc : {"waiting", "taken", "asked"},
                        engine : Engines \cup {NoEngine}, st : Status]
        /\ Waiting.pc = "waiting"
    BY IdleType DEF Waiting
  <2>3. WindowTypeOK
    BY <2>1, <2>2 DEF Init, WindowInit, WindowTypeOK
  <2> QED
    BY <2>1, <2>2, <2>3 DEF Init, WindowInit, WindowInv, NoWindow
<1>5. program.cmd = "none"
  BY DEF Init, StoreInit, NoProgram
<1>6. ProgramInv
  BY <1>3, <1>4, <1>5 DEF ProgramInv, NoWindow
<1>7. TrayInv
  BY FreshTray DEF Init
<1> QED
  BY <1>1, <1>3, <1>4, <1>6, <1>7 DEF DesktopInv, MemoryInv

\* A program ends, in whichever way.
LEMMA ExitAll ==
  ASSUME DesktopInv, Exit, faults' \in 0 .. MaxFaults
  PROVE  DesktopInv'
<1>1. program' = [NoProgram EXCEPT !.cmd = "none"]
  BY DEF Exit, NoProgram
<1>2. StoreInv'
  BY <1>1, IdleProgram DEF DesktopInv, Exit
<1> QED
  BY <1>2, ExitKeeps DEF DesktopInv

\* Nothing of the disk, and nothing of the tray, in a step.
LEMMA Apart ==
  ASSUME DesktopInv
  PROVE  /\ UNCHANGED storeVars => StoreInv'
         /\ UNCHANGED trayVars => TrayInv'
<1>1. ASSUME UNCHANGED storeVars
      PROVE  StoreInv'
  BY <1>1 DEF DesktopInv, storeVars, files, StoreInv, FilesTyped, KeyWritten,
     NetworkKnown, WritesWhole, OneIdentity, Now, Loaded
<1>2. ASSUME UNCHANGED trayVars
      PROVE  TrayInv'
  BY <1>2, TraySame DEF DesktopInv, trayVars, TrayInv, MenuTyped
<1> QED
  BY <1>1, <1>2

\* A step on disk is one of a program that has something left to do; and only
\* the programs that have no window end there.
LEMMA StoreStepDue == StoreStep => program.todo # << >>
BY DEF StoreStep, Resolve, LoadIdentity, CreateIdentity, FillIdentity,
   UseIdentity, SaveNetwork, ForgetNetwork, OpenTmp, WriteTmp, Rename, Due

LEMMA StoreStepStays ==
  ASSUME StoreInv, StoreStep, program.cmd = "window"
  PROVE  program'.cmd = "window"
<1>1. program \in Program
  BY DEF StoreInv
<1>2. Fail => program'.cmd = "window"
  BY DEF Fail, Ready, NoProgram
<1>3. ~Due("show")
  BY Where, Stops DEF StageNames
<1>4. CASE Resolve
  BY <1>1, <1>2, <1>4 DEF Resolve, Program
<1>5. CASE LoadIdentity
  <2>1. identity \in Keys \cup {None, Torn}
    BY DEF StoreInv, FilesTyped
  <2>2. CASE identity = Torn
    BY <1>2, <1>5, <2>2, NoneDistinct DEF LoadIdentity
  <2>3. CASE identity \in Keys
    BY <1>1, <1>5, <2>3, NoneDistinct DEF LoadIdentity, Program
  <2>4. CASE identity = None
    BY <1>1, <1>5, <2>4, NoneDistinct DEF LoadIdentity, Program
  <2> QED
    BY <2>1, <2>2, <2>3, <2>4
<1>6. CASE UseIdentity
  BY <1>1, <1>2, <1>3, <1>6 DEF UseIdentity, Program
<1>7. CASE SaveNetwork
  <2>1. CASE networks = Torn
    BY <1>1, <1>7, <2>1 DEF SaveNetwork, Program
  <2>2. CASE networks # Torn
    BY <1>1, <1>7, <2>2 DEF SaveNetwork, Program
  <2> QED
    BY <2>1, <2>2
<1>8. CASE ForgetNetwork
  <2>1. CASE program.name \in Remembered
    BY <1>1, <1>8, <2>1 DEF ForgetNetwork, Program
  <2>2. CASE program.name \notin Remembered
    BY <1>2, <1>8, <2>2 DEF ForgetNetwork
  <2> QED
    BY <2>1, <2>2
<1>9. CASE CreateIdentity \/ FillIdentity \/ OpenTmp \/ WriteTmp \/ Rename
  BY <1>1, <1>9
     DEF CreateIdentity, FillIdentity, OpenTmp, WriteTmp, Rename, Program
<1> QED
  BY <1>4, <1>5, <1>6, <1>7, <1>8, <1>9 DEF StoreStep

\* A program is prepared, up to its client.
LEMMA PrepareKeeps == ASSUME DesktopInv, Prepare PROVE DesktopInv'
<1>1. CASE StoreStep /\ UNCHANGED <<engineVars, trayVars, windowVars>>
  <2>1. StoreInv'
    BY <1>1, StoreStepKeeps DEF DesktopInv
  <2>2. program.todo # << >>
    BY <1>1, StoreStepDue
  <2>3. program.cmd = "window" => program'.cmd = "window"
    BY <1>1, StoreStepStays DEF DesktopInv
  <2>4. UNCHANGED <<engineVars, windowVars>> /\ UNCHANGED trayVars
    BY <1>1
  <2>5. MemoryInv'
    BY <2>2, <2>3, <2>4, DiskKeeps DEF DesktopInv
  <2> QED
    BY <2>1, <2>4, <2>5, Apart DEF DesktopInv
<1>2. CASE Start
  <2>1. /\ program' = [NoProgram EXCEPT !.cmd = program.cmd] /\ Due("start")
        /\ UNCHANGED <<files, used, starts, faults, trayVars>>
    BY <1>2 DEF Start
  <2>2. program.cmd \in Connects
    <3>1. "start" \in StageNames
      BY DEF StageNames
    <3>2. "start" \in StagesOf(program.cmd) /\ program.cmd \in DOMAIN Stages
      BY <2>1, <3>1, Where DEF DesktopInv
    <3> QED
      BY <3>2, Stops
  <2>3. /\ program.cmd \in DOMAIN Stages \cup {"none"} /\ program.cmd # "forget"
        /\ faults' \in 0 .. MaxFaults
    BY <2>1, <2>2 DEF Connects, Stages, DesktopInv, StoreInv, FilesTyped
  <2>4. StoreInv'
    BY <2>1, <2>3, IdleProgram DEF DesktopInv
  <2> QED
    BY <1>2, <2>1, <2>4, StartKeeps, Apart DEF DesktopInv
<1> QED
  BY <1>1, <1>2 DEF Prepare

LEMMA BeginAll == ASSUME DesktopInv, Begin PROVE DesktopInv'
<1>1. PICK cmd \in DOMAIN Stages, n \in Names \cup {None},
           p \in Typed \cup {None} :
        Launch(cmd, n, p)
  BY DEF Begin
<1>2. StoreInv'
  BY <1>1, BeginKeeps DEF DesktopInv
<1>3. program.cmd = "none"
  BY <1>1 DEF Launch, NoProgram
<1>4. UNCHANGED <<engineVars, windowVars>> /\ UNCHANGED trayVars
  BY DEF Begin
<1>5. MemoryInv'
  BY <1>3, <1>4, DiskKeeps DEF DesktopInv
<1> QED
  BY <1>2, <1>4, <1>5, Apart DEF DesktopInv

LEMMA DiskFailsKeeps == ASSUME DesktopInv, DiskFails PROVE DesktopInv'
<1>1. StoreInv'
  BY WriteErrorKeeps DEF DiskFails, DesktopInv
<1>2. program.todo # << >>
  BY DEF DiskFails, WriteError, Due
<1>3. program.cmd = "window" => program'.cmd = "window"
  BY DEF DiskFails, WriteError, DesktopInv, StoreInv, Program, Fail, Ready,
         NoProgram
<1>4. UNCHANGED <<engineVars, windowVars>> /\ UNCHANGED trayVars
  BY DEF DiskFails
<1>5. MemoryInv'
  BY <1>2, <1>3, <1>4, DiskKeeps DEF DesktopInv
<1> QED
  BY <1>1, <1>4, <1>5, Apart DEF DesktopInv

\* The client and the tray, which leave the disk and the window alone.
LEMMA ClientAll ==
  ASSUME DesktopInv, ClientRuns \/ Environment \/ Signal
  PROVE  DesktopInv'
<1>1. UNCHANGED storeVars /\ UNCHANGED trayVars /\ UNCHANGED windowVars
      /\ UNCHANGED program
  BY DEF ClientRuns, Environment, Signal, InMemory, storeVars
<1>2. CASE ClientRuns \/ Environment
  <2>1. PICK e \in Engines : Run(e) \/ Outside(e)
    BY <1>2 DEF ClientRuns, Environment
  <2> QED
    BY <1>1, <2>1, ClientKeeps, Apart DEF DesktopInv
<1>3. CASE Signal
  <2>1. /\ EngineTypeOK'
        /\ \A d \in Engines : engines'[d].stage = engines[d].stage
    BY <1>3, TrayAssumption, ClosedKeeps DEF Signal, DesktopInv, MemoryInv
  <2> QED
    BY <1>1, <2>1, StagesKeep, Apart DEF DesktopInv
<1> QED
  BY <1>2, <1>3

LEMMA TrayAll ==
  ASSUME DesktopInv, TrayWatches \/ TrayRuns \/ TrayClick
  PROVE  DesktopInv'
<1>1. UNCHANGED storeVars /\ UNCHANGED windowVars /\ UNCHANGED program
      /\ program.cmd = "tray"
  BY DEF TrayWatches, TrayRuns, TrayClick, InMemory, storeVars, Up
<1>2. EngineTypeOK /\ TrayInv
  BY DEF DesktopInv, MemoryInv
<1>3. ASSUME TrayInv', UNCHANGED engineVars
      PROVE  DesktopInv'
  <2>1. EngineTypeOK'
    BY <1>2, <1>3 DEF EngineTypeOK, engineVars
  <2>2. MemoryInv'
    BY <1>1, <1>3, <2>1, StagesKeep DEF DesktopInv, engineVars
  <2> QED
    BY <1>1, <1>3, <2>2, Apart DEF DesktopInv
<1>4. CASE Tick
  <2>1. drawing["watch"].pc # "drawing"
    BY <1>4 DEF Tick, Idle
  <2>2. TrayInv'
    BY <1>2, <1>4, <2>1, CallKeeps DEF Tick, Draws, TrayInv, MenuTyped
  <2> QED
    BY <1>3, <1>4, <2>2 DEF Tick
<1>5. CASE SetFailure
  <2>1. drawing["engine"].pc # "drawing"
    BY <1>2, <1>5 DEF SetFailure, TrayInv, EngineHides
  <2>2. TrayInv'
    BY <1>2, <1>5, <2>1, CallKeeps DEF SetFailure, Draws
  <2> QED
    BY <1>3, <1>5, <2>2 DEF SetFailure
<1>6. CASE \E who \in Draws : Look(who) \/ Draw(who)
  <2>1. TrayInv'
    BY <1>2, <1>6, LookKeeps, DrawKeeps
  <2>2. UNCHANGED engineVars
    BY <1>6 DEF Look, Draw
  <2> QED
    BY <1>3, <2>1, <2>2
<1>7. CASE Report
  <2>1. MemoryInv' /\ UNCHANGED trayVars
    BY <1>1, <1>7, ReportKeeps DEF DesktopInv, Report
  <2> QED
    BY <1>1, <2>1, Apart DEF DesktopInv
<1>8. CASE ClickQuit
  <2>1. /\ EngineTypeOK'
        /\ \A d \in Engines : engines'[d].stage = engines[d].stage
    BY <1>2, <1>8, TrayAssumption, ClosedKeeps DEF ClickQuit
  <2>2. TrayInv'
    BY <1>2, <1>8, TraySame DEF ClickQuit
  <2> QED
    BY <1>1, <2>1, <2>2, StagesKeep, Apart DEF DesktopInv
<1> QED
  BY <1>4, <1>5, <1>6, <1>7, <1>8
     DEF TrayWatches, TrayRuns, TrayClick, WatchStep, EngineStep, Draws

LEMMA WindowAll ==
  ASSUME DesktopInv, WindowRefreshes \/ WindowRuns \/ WindowDraws \/ WindowClick
  PROVE  DesktopInv'
<1>1. TrayInv'
  BY Apart DEF WindowRefreshes, WindowRuns, WindowDraws, WindowClick
<1>2. ASSUME UNCHANGED storeVars, MemoryInv'
      PROVE  DesktopInv'
  BY <1>1, <1>2, Apart DEF DesktopInv
<1>3. UNCHANGED storeVars => UNCHANGED program
  BY DEF storeVars
<1>4. CASE WindowRefreshes
  BY <1>2, <1>3, <1>4, RefreshKeeps DEF WindowRefreshes, InMemory, DesktopInv
<1>5. CASE WindowRuns
  <2>1. PICK e \in Engines : QueueFinish(e)
    BY <1>5 DEF WindowRuns
  <2> QED
    BY <1>2, <1>3, <1>5, <2>1, QueueFinishKeeps
       DEF WindowRuns, InMemory, DesktopInv
<1>6. CASE WindowDraws
  BY <1>2, <1>3, <1>6, RunClosureKeeps DEF WindowDraws, InMemory, DesktopInv, Up
<1>7. CASE Disconnect /\ InMemory
  <2>1. /\ engine \in Engines /\ engines' = Closed(engine)
        /\ UNCHANGED changes /\ UNCHANGED windowVars
    BY <1>7, WindowAssumption
       DEF Disconnect, Disconnected, DesktopInv, MemoryInv, WindowInv,
           WindowTypeOK
  <2>2. /\ EngineTypeOK'
        /\ \A d \in Engines : engines'[d].stage = engines[d].stage
    BY <2>1, ClosedKeeps DEF DesktopInv, MemoryInv
  <2>3. MemoryInv'
    BY <1>3, <1>7, <2>1, <2>2, StagesKeep DEF InMemory, DesktopInv
  <2> QED
    BY <1>2, <1>7, <2>3 DEF InMemory
<1>8. CASE /\ ~connected /\ program.cmd = "window"
           /\ \E n \in Names, p \in Typed \cup {None} : Connect(n, p)
           /\ UNCHANGED <<engineVars, windowVars>>
  <2>1. PICK n \in Names, p \in Typed \cup {None} : Connect(n, p)
    BY <1>8
  <2>2. StoreInv'
    BY <2>1, NoneDistinct, BeginKeeps DEF DesktopInv
  <2>3. program'.cmd = "window"
    BY <2>1 DEF Connect, Ready, NoProgram
  <2>4. MemoryInv'
    BY <1>8, <2>3, DiskKeeps DEF DesktopInv
  <2> QED
    BY <1>1, <2>2, <2>4 DEF DesktopInv
<1> QED
  BY <1>4, <1>5, <1>6, <1>7, <1>8 DEF WindowClick, Up

LEMMA EndKeeps ==
  ASSUME DesktopInv, Crash \/ JoinReturns \/ TrayReturns \/ Quit
  PROVE  DesktopInv'
<1>1. Exit
  BY DEF Crash, JoinReturns, TrayReturns, Quit
<1>2. faults \in 0 .. MaxFaults /\ MaxFaults \in Nat
  BY StoreAssumption DEF DesktopInv, StoreInv, FilesTyped
<1>3. faults' \in 0 .. MaxFaults
  BY <1>2 DEF Crash, JoinReturns, TrayReturns, Quit
<1> QED
  BY <1>1, <1>3, ExitAll

LEMMA StepKeeps == DesktopInv /\ [Next]_vars => DesktopInv'
<1> SUFFICES ASSUME DesktopInv, [Next]_vars PROVE DesktopInv'
  OBVIOUS
<1>1. CASE Next
  BY <1>1, BeginAll, PrepareKeeps, DiskFailsKeeps, ClientAll, TrayAll,
     WindowAll, EndKeeps DEF Next
<1>2. CASE UNCHANGED vars
  <2>1. /\ UNCHANGED storeVars /\ UNCHANGED trayVars /\ UNCHANGED windowVars
        /\ UNCHANGED engineVars /\ UNCHANGED program
    BY <1>2 DEF vars, storeVars
  <2>2. EngineTypeOK'
    BY <2>1 DEF DesktopInv, MemoryInv, EngineTypeOK, engineVars
  <2>3. MemoryInv'
    BY <2>1, <2>2, StagesKeep DEF DesktopInv, engineVars
  <2> QED
    BY <2>1, <2>3, Apart DEF DesktopInv
<1> QED
  BY <1>1, <1>2

\* The inductive invariant of the programs.
THEOREM Inductive == Spec => []DesktopInv
BY InitOK, StepKeeps, PTL DEF Spec

\* Every variable of the three programs, on disk and in memory, keeps its type:
\* whoever starts a client has a network, its password and an identity, and
\* the files are whole or known to be torn (cmd/p2pv, cmd/p2pv-tray,
\* internal/gui, internal/store).
THEOREM DesktopTypes == Spec => []TypeOK
<1>1. DesktopInv => TypeOK
  BY StoreTypes, TrayTypes
     DEF DesktopInv, TypeOK, MemoryInv, WindowInv
<1> QED
  BY <1>1, Inductive, PTL

\* A device never appears under two identities, whichever programs its user
\* runs one after the other, and wherever they are killed or a write fails:
\* the key is in the file before anything is done with it
\* (LoadOrCreateIdentity).
THEOREM IdentityIsKept == Spec => []OneIdentity
<1>1. DesktopInv => OneIdentity
  BY DEF DesktopInv, StoreInv
<1> QED
  BY <1>1, Inductive, PTL

\* However fast the user clicks, no two clients run at a time, and the window
\* refers to the one that does (connect, disconnect, finishDisconnect).
THEOREM OneClientRuns == Spec => []OneEngine
<1>1. DesktopInv => OneEngine
  BY RunningOne DEF DesktopInv
<1> QED
  BY <1>1, Inductive, PTL

\* Although two goroutines of the tray draw the menu widget by widget, and
\* nothing keeps them apart, a click copies the address its row shows, for any
\* number of rows and peers (render, track, renderFailure).
THEOREM ClicksCopyWhatIsShown == Spec => []RowsTell
<1>1. DesktopInv => RowsTell
  BY TrayRowsTell DEF DesktopInv
<1> QED
  BY <1>1, Inductive, PTL

-----------------------------------------------------------------------------
(* What no step does. *)

\* Only a rename changes the file of networks.
LEMMA OnlyRename == [Next]_vars => Rename \/ UNCHANGED networks
<1> SUFFICES ASSUME [Next]_vars, ~Rename PROVE UNCHANGED networks
  OBVIOUS
<1>1. CASE UNCHANGED vars
  BY <1>1 DEF vars, storeVars, files
<1>2. CASE Begin
  BY <1>2 DEF Begin, Launch, files
<1>3. CASE Prepare
  <2>1. CASE Start
    BY <2>1 DEF Start, files
  <2>2. CASE StoreStep
    BY <2>2 DEF StoreStep, Resolve, LoadIdentity, CreateIdentity, FillIdentity,
       UseIdentity, SaveNetwork, ForgetNetwork, OpenTmp, WriteTmp, files
  <2> QED
    BY <1>3, <2>1, <2>2 DEF Prepare
<1>4. CASE DiskFails
  BY <1>4 DEF DiskFails, WriteError, files
<1>5. CASE Crash \/ JoinReturns \/ TrayReturns \/ Quit
  BY <1>5 DEF Crash, JoinReturns, TrayReturns, Quit, Exit, files
<1>6. CASE ClientRuns \/ Environment \/ Signal
  BY <1>6 DEF ClientRuns, Environment, Signal, InMemory, storeVars, files
<1>7. CASE TrayWatches \/ TrayRuns \/ TrayClick
  BY <1>7 DEF TrayWatches, TrayRuns, TrayClick, InMemory, storeVars, files
<1>8. CASE WindowRefreshes \/ WindowRuns \/ WindowDraws \/ WindowClick
  BY <1>8 DEF WindowRefreshes, WindowRuns, WindowDraws, WindowClick, Connect,
     InMemory, storeVars, files
<1> QED
  BY <1>1, <1>2, <1>3, <1>4, <1>5, <1>6, <1>7, <1>8 DEF Next

\* At whatever point saving fails or a program dies, a remembered network
\* changes only as the user has asked for: joined, to the password that is
\* used, or forgotten (SaveNetwork, ForgetNetwork, writeNetworks).
THEOREM NetworksChangeAsAsked == Spec => OnlyAsAsked
<1> DEFINE Asked == \A n \in Names :
      Entry(n)' # Entry(n) =>
        /\ n = program.name
        /\ Entry(n)' = IF program.cmd = "forget" THEN None
                       ELSE program.password
<1>1. DesktopInv /\ [Next]_vars => [Asked]_storeVars
  <2> SUFFICES ASSUME DesktopInv, [Next]_vars PROVE Asked
    OBVIOUS
  <2>1. CASE Rename
    BY <2>1, RenameAsAsked DEF DesktopInv
  <2>2. CASE UNCHANGED networks
    BY <2>2 DEF Entry, Loaded
  <2> QED
    BY <2>1, <2>2, OnlyRename
<1> QED
  BY <1>1, Inductive, PTL DEF Spec, OnlyAsAsked

\* Neither join nor the tray ends while its client serves, unless it is killed:
\* Run has said goodbye to the coordinator by then (cmdJoin, tray.Run).
THEOREM ProgramsSayBye == Spec => ExitsSaidBye
<1> DEFINE Bye ==
      program' = NoProgram /\ faults' = faults =>
        program.cmd = "window" \/ \A e \in Engines : ~At(e, "serving")
<1>1. DesktopInv /\ [Next]_vars => [Bye]_vars
  <2> SUFFICES ASSUME DesktopInv, [Next]_vars, program' = NoProgram,
                      faults' = faults, program.cmd # "window"
               PROVE  \A e \in Engines : ~At(e, "serving")
    OBVIOUS
  <2>1. \A e \in Engines :
          e # Mine \/ program.todo # << >> \/ program.cmd = "none" =>
            At(e, "none")
    BY DEF DesktopInv, MemoryInv, ProgramInv
  <2>2. CASE UNCHANGED program
    BY <2>1, <2>2 DEF NoProgram, At
  <2>3. CASE JoinReturns \/ TrayReturns
    <3>1. ~At(Mine, "serving")
      BY <2>3 DEF JoinReturns, TrayReturns, MayExit, At
    <3> QED
      BY <2>1, <3>1 DEF At
  <2>4. CASE Begin
    BY <2>1, <2>4 DEF Begin, Launch, NoProgram, At
  <2>5. CASE Prepare
    <3>1. program.todo # << >>
      BY <2>5, StoreStepDue DEF Prepare, Start, Due
    <3> QED
      BY <2>1, <3>1 DEF At
  <2>6. ~Crash /\ ~DiskFails
    <3>1. faults' # faults + 1
      BY DEF DesktopInv, StoreInv, FilesTyped
    <3> QED
      BY <3>1 DEF Crash, DiskFails, WriteError
  <2>7. ~Quit /\ ~WindowClick
    BY DEF Quit, WindowClick, Up
  <2>8. CASE ClientRuns \/ Environment \/ Signal
    BY <2>2, <2>8 DEF ClientRuns, Environment, Signal, InMemory, storeVars
  <2>9. CASE TrayWatches \/ TrayRuns \/ TrayClick
    BY <2>2, <2>9 DEF TrayWatches, TrayRuns, TrayClick, InMemory, storeVars
  <2>10. CASE WindowRefreshes \/ WindowRuns \/ WindowDraws
    BY <2>2, <2>10
       DEF WindowRefreshes, WindowRuns, WindowDraws, InMemory, storeVars
  <2>11. CASE UNCHANGED vars
    BY <2>2, <2>11 DEF vars, storeVars
  <2> QED
    BY <2>3, <2>4, <2>5, <2>6, <2>7, <2>8, <2>9, <2>10, <2>11 DEF Next
<1> QED
  BY <1>1, Inductive, PTL DEF Spec, ExitsSaidBye
=============================================================================
