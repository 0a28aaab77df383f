----------------------------- MODULE StoreProofs -----------------------------
(***************************************************************************)
(* What holds of the files and of the program that works on them, for any  *)
(* names, keys and passwords, and any number of programs, crashes and      *)
(* errors: lemmas about the steps of Store, which Desktop takes part in.   *)
(***************************************************************************)
EXTENDS Store, TLAPS

-----------------------------------------------------------------------------
(* What a program may have before it.  Every stage but the last has another*)
(* after it, which one depends on the program alone.                       *)

StageNames == WriteStages \cup {"resolve", "save", "identity", "create", "fill",
                                "new", "start", "show", "forget"}

Program == [cmd : DOMAIN Stages \cup {"none"}, todo : Seq(StageNames),
            name : Names \cup {None}, password : Passwords \cup {None},
            key : Keys \cup {None}, all : Table]

Connects == {"join", "tray", "window"}

\* The stage after another, or the end of them.
After(cmd, stage) ==
  CASE stage = "open" -> "write"
    [] stage = "write" -> "rename"
    [] stage = "create" -> "fill"
    [] stage = "resolve" -> IF cmd = "join" THEN "save" ELSE "identity"
    [] stage \in {"identity", "fill"} /\ cmd = "tray" -> "save"
    [] stage \in {"identity", "fill"} /\ cmd = "id" -> "show"
    [] stage \in {"identity", "fill"} /\ cmd \in {"join", "window"} -> "new"
    [] stage \in {"save", "rename"} /\ cmd = "join" -> "identity"
    [] stage \in {"save", "rename"} /\ cmd = "tray" -> "new"
    [] stage \in {"save", "rename"} /\ cmd = "window" -> "start"
    [] stage = "new" -> IF cmd = "window" THEN "save" ELSE "start"
    [] OTHER -> "end"

\* The stages of a program.
StagesOf(cmd) ==
  CASE cmd \in Connects -> StageNames \ {"show", "forget"}
    [] cmd = "id" -> {"identity", "create", "fill", "show"}
    [] cmd = "forget" -> WriteStages \cup {"forget"}
    [] OTHER -> {}

First(todo) == IF todo = << >> THEN "end" ELSE Head(todo)

Planned(cmd, todo) ==
  /\ todo \in Seq(StageNames)
  /\ \A i \in 1 .. Len(todo) :
       /\ todo[i] \in StagesOf(cmd)
       /\ After(cmd, todo[i]) = IF i < Len(todo) THEN todo[i + 1] ELSE "end"

LEMMA PlannedFirst ==
  ASSUME NEW cmd, NEW todo, Planned(cmd, todo)
  PROVE  /\ todo # << >> => First(todo) \in StagesOf(cmd) /\ First(todo) # "end"
         /\ todo = << >> => First(todo) = "end"
         /\ StagesOf(cmd) \subseteq StageNames
BY DEF Planned, First, StagesOf, StageNames, WriteStages

LEMMA FirstIs ==
  ASSUME NEW todo \in Seq(StageNames)
  PROVE  First(todo) = IF 0 < Len(todo) THEN todo[1] ELSE "end"
BY DEF First

\* When a stage is over, what comes after it is due.
LEMMA PlannedTail ==
  ASSUME NEW cmd, NEW todo, Planned(cmd, todo), todo # << >>
  PROVE  /\ Planned(cmd, Tail(todo))
         /\ First(Tail(todo)) = After(cmd, First(todo))
<1>1. /\ Tail(todo) \in Seq(StageNames) /\ Len(Tail(todo)) = Len(todo) - 1
      /\ \A i \in 1 .. Len(Tail(todo)) : Tail(todo)[i] = todo[i + 1]
      /\ Len(todo) \in Nat \ {0} /\ Head(todo) = todo[1]
  BY DEF Planned
<1>2. First(Tail(todo)) = IF 1 < Len(todo) THEN todo[2] ELSE "end"
  <2>1. First(Tail(todo)) = IF 0 < Len(Tail(todo)) THEN Tail(todo)[1] ELSE "end"
    BY <1>1, FirstIs
  <2>2. 1 < Len(todo) => 1 \in 1 .. Len(Tail(todo)) /\ Tail(todo)[1] = todo[2]
    BY <1>1
  <2> QED
    BY <1>1, <2>1, <2>2
<1> QED
  BY <1>1, <1>2 DEF Planned, First

\* A key is made, and a file is written, before what comes next.
LEMMA PlannedCreate ==
  ASSUME NEW cmd, NEW rest, Planned(cmd, rest),
         "create" \in StagesOf(cmd), "fill" \in StagesOf(cmd),
         First(rest) = After(cmd, "fill")
  PROVE  /\ Planned(cmd, <<"create", "fill">> \o rest)
         /\ First(<<"create", "fill">> \o rest) = "create"
<1> DEFINE todo == <<"create", "fill">> \o rest
<1>1. /\ todo \in Seq(StageNames) /\ Len(todo) = Len(rest) + 2
      /\ Len(rest) \in Nat /\ todo # << >>
      /\ todo[1] = "create" /\ todo[2] = "fill"
      /\ \A i \in 1 .. Len(rest) : todo[i + 2] = rest[i]
  BY DEF Planned, StageNames
<1>2. First(rest) = IF 0 < Len(rest) THEN rest[1] ELSE "end"
  BY DEF First, Planned
<1>3. ASSUME NEW i \in 1 .. Len(todo)
      PROVE  /\ todo[i] \in StagesOf(cmd)
             /\ After(cmd, todo[i]) =
                 IF i < Len(todo) THEN todo[i + 1] ELSE "end"
  <2>1. CASE i = 1
    BY <1>1, <2>1 DEF After
  <2>2. CASE i = 2
    BY <1>1, <1>2, <2>2
  <2>3. CASE i > 2
    <3>1. i - 2 \in 1 .. Len(rest) /\ todo[i] = rest[i - 2]
      BY <1>1, <1>3, <2>3
    <3>2. i < Len(todo) => todo[i + 1] = rest[i - 2 + 1]
      BY <1>1, <1>3, <2>3
    <3> QED
      BY <1>1, <3>1, <3>2 DEF Planned
  <2> QED
    BY <1>1, <1>3, <2>1, <2>2, <2>3
<1> QED
  BY <1>1, <1>3 DEF Planned, First

LEMMA PlannedWrite ==
  ASSUME NEW cmd, NEW rest, Planned(cmd, rest),
         WriteStages \subseteq StagesOf(cmd),
         First(rest) = After(cmd, "rename")
  PROVE  /\ Planned(cmd, <<"open", "write", "rename">> \o rest)
         /\ First(<<"open", "write", "rename">> \o rest) = "open"
<1> DEFINE todo == <<"open", "write", "rename">> \o rest
<1>1. /\ todo \in Seq(StageNames) /\ Len(todo) = Len(rest) + 3
      /\ Len(rest) \in Nat /\ todo # << >>
      /\ todo[1] = "open" /\ todo[2] = "write" /\ todo[3] = "rename"
      /\ \A i \in 1 .. Len(rest) : todo[i + 3] = rest[i]
  BY DEF Planned, StageNames, WriteStages
<1>2. First(rest) = IF 0 < Len(rest) THEN rest[1] ELSE "end"
  BY DEF First, Planned
<1>3. ASSUME NEW i \in 1 .. Len(todo)
      PROVE  /\ todo[i] \in StagesOf(cmd)
             /\ After(cmd, todo[i]) =
                 IF i < Len(todo) THEN todo[i + 1] ELSE "end"
  <2>1. CASE i \in {1, 2}
    BY <1>1, <2>1 DEF After, WriteStages
  <2>2. CASE i = 3
    BY <1>1, <1>2, <2>2 DEF WriteStages
  <2>3. CASE i > 3
    <3>1. i - 3 \in 1 .. Len(rest) /\ todo[i] = rest[i - 3]
      BY <1>1, <1>3, <2>3
    <3>2. i < Len(todo) => todo[i + 1] = rest[i - 3 + 1]
      BY <1>1, <1>3, <2>3
    <3> QED
      BY <1>1, <3>1, <3>2 DEF Planned
  <2> QED
    BY <1>1, <1>3, <2>1, <2>2, <2>3
<1> QED
  BY <1>1, <1>3 DEF Planned, First

\* What is left when some stages are left out.
LEMMA PlannedSkip ==
  ASSUME NEW cmd, NEW todo, Planned(cmd, todo), NEW n \in 1 .. Len(todo)
  PROVE  /\ Planned(cmd, SubSeq(todo, n + 1, Len(todo)))
         /\ First(SubSeq(todo, n + 1, Len(todo))) = After(cmd, todo[n])
<1> DEFINE rest == SubSeq(todo, n + 1, Len(todo))
<1>1. /\ rest \in Seq(StageNames) /\ Len(rest) = Len(todo) - n
      /\ \A i \in 1 .. Len(rest) : rest[i] = todo[i + n]
      /\ Len(todo) \in Nat
  BY DEF Planned
<1>2. First(rest) = IF n < Len(todo) THEN todo[n + 1] ELSE "end"
  <2>1. First(rest) = IF 0 < Len(rest) THEN rest[1] ELSE "end"
    BY <1>1, FirstIs
  <2>2. n < Len(todo) => 1 \in 1 .. Len(rest) /\ rest[1] = todo[n + 1]
    BY <1>1
  <2> HIDE DEF rest
  <2> QED
    BY <1>1, <2>1, <2>2
<1>3. ASSUME NEW i \in 1 .. Len(rest)
      PROVE  /\ rest[i] \in StagesOf(cmd)
             /\ After(cmd, rest[i]) =
                 IF i < Len(rest) THEN rest[i + 1] ELSE "end"
  <2>1. i + n \in 1 .. Len(todo) /\ (i < Len(rest) <=> i + n < Len(todo))
    BY <1>1, <1>3
  <2>2. i < Len(rest) => rest[i + 1] = todo[i + n + 1]
    BY <1>1, <1>3
  <2> QED
    BY <1>1, <2>1, <2>2 DEF Planned
<1> QED
  BY <1>1, <1>2, <1>3 DEF Planned

\* What programs and the window begin with.
LEMMA PlannedStart ==
  /\ \A cmd \in DOMAIN Stages : Planned(cmd, Stages[cmd])
  /\ Planned("window", ConnectStages) /\ First(ConnectStages) = "resolve"
  /\ \A cmd : Planned(cmd, << >>)
<1>1. Planned("join", Stages["join"])
  BY DEF Planned, Stages, StagesOf, After, StageNames, WriteStages, Connects
<1>2. Planned("tray", Stages["tray"])
  BY DEF Planned, Stages, StagesOf, After, StageNames, WriteStages, Connects
<1>3. Planned("id", Stages["id"])
  BY DEF Planned, Stages, StagesOf, After, StageNames, WriteStages, Connects
<1>4. Planned("forget", Stages["forget"])
  BY DEF Planned, Stages, StagesOf, After, StageNames, WriteStages, Connects
<1>5. Planned("window", Stages["window"])
  BY DEF Planned, Stages, StagesOf, After, StageNames, WriteStages, Connects
<1>6. Planned("window", ConnectStages) /\ First(ConnectStages) = "resolve"
  BY DEF Planned, ConnectStages, StagesOf, After, StageNames, WriteStages,
         Connects, First
<1>7. \A cmd : Planned(cmd, << >>)
  BY DEF Planned
<1> QED
  BY <1>1, <1>2, <1>3, <1>4, <1>5, <1>6, <1>7 DEF Stages

-----------------------------------------------------------------------------
(* The invariant, in terms of the stage that is due.                       *)

Now == First(program.todo)

LEMMA DueIs ==
  ASSUME NEW stage \in StageNames, Planned(program.cmd, program.todo)
  PROVE  Due(stage) <=> Now = stage
BY DEF Due, Now, First, StageNames, WriteStages

\* The identity is known from here on.
Identified(cmd, stage) ==
  \/ stage \in {"create", "fill", "new", "start", "show"}
  \/ stage \in WriteStages \cup {"save"} /\ cmd \in {"tray", "window"}

\* An identity is in the file before anything is done with it, and one is made
\* only where there has been none.
KeyWritten ==
  Identified(program.cmd, Now) =>
    /\ program.key \in Keys
    /\ IF Now \in {"create", "fill"} THEN used = {} ELSE identity = program.key

\* Whoever connects has a network and its password, once they are resolved.
NetworkKnown ==
  /\ program.password # None => program.name \in Names
  /\ program.cmd = "forget" => program.name \in Names
  /\ program.cmd \in Connects /\ Now \notin {"resolve", "end"} =>
       program.name \in Names /\ program.password \in Passwords

\* What is to be written is what was read, but for the one entry; and what
\* becomes the file is all of it.
WritesWhole ==
  /\ networks # Torn
  /\ Now \in WriteStages =>
       program.all = [Loaded EXCEPT ![program.name] =
                        IF program.cmd = "forget" THEN None
                        ELSE program.password]
  /\ Now = "rename" => tmp = program.all

FilesTyped ==
  /\ identity \in Keys \cup {None, Torn}
  /\ networks \in Table \cup {None, Torn} /\ tmp \in Table \cup {None, Torn}
  /\ used \in SUBSET Keys
  /\ starts \in 0 .. MaxStarts /\ faults \in 0 .. MaxFaults

StoreInv ==
  /\ FilesTyped
  /\ program \in Program /\ Planned(program.cmd, program.todo)
  /\ KeyWritten /\ NetworkKnown /\ WritesWhole
  /\ OneIdentity

LEMMA NoneDistinct ==
  /\ None \notin Names /\ None \notin Keys /\ None \notin Passwords
  /\ Torn \notin Names /\ Torn \notin Keys /\ Torn # None
  /\ None \notin Table /\ Torn \notin Table
BY StoreAssumption DEF Table

LEMMA StoreTypes == StoreInv => StoreTypeOK
<1> SUFFICES ASSUME StoreInv PROVE StoreTypeOK
  OBVIOUS
<1>1. Due("start") => Now = "start"
  BY DEF Due, Now, First
<1>2. Due("start") => program.cmd \in Connects
  BY <1>1, PlannedFirst DEF StoreInv, Now, StagesOf, WriteStages
<1>3. Due("start") => /\ program.name \in Names
                      /\ program.password \in Passwords
                      /\ program.key \in Keys
  BY <1>1, <1>2 DEF StoreInv, KeyWritten, NetworkKnown, Identified
<1> QED
  BY <1>3 DEF StoreInv, FilesTyped, Program, StageNames, StoreTypeOK

LEMMA NoProgramType ==
  /\ NoProgram \in Program /\ NoTable \in Table
  /\ \A cmd \in DOMAIN Stages \cup {"none"} :
       [NoProgram EXCEPT !.cmd = cmd] \in Program
  /\ Ready \in Program
<1>1. NoTable \in Table
  BY DEF NoTable, Table
<1>2. << >> \in Seq(StageNames)
  OBVIOUS
<1> QED
  BY <1>1, <1>2 DEF NoProgram, Ready, Program, Stages

\* A program that has nothing left to do knows nothing either.
LEMMA IdleProgram ==
  ASSUME StoreInv, NEW cmd \in DOMAIN Stages \cup {"none"},
         program' = [NoProgram EXCEPT !.cmd = cmd], UNCHANGED files,
         UNCHANGED used, starts' = starts, faults' \in 0 .. MaxFaults,
         cmd # "forget"
  PROVE  StoreInv'
<1>1. /\ program'.cmd = cmd /\ program'.todo = << >> /\ program'.name = None
      /\ program'.password = None /\ program'.key = None
      /\ program'.all = NoTable /\ program' \in Program
  BY NoProgramType DEF NoProgram
<1>2. Planned(program'.cmd, program'.todo) /\ Now' = "end"
  BY <1>1, PlannedStart DEF Now, First
<1>3. FilesTyped'
  BY DEF StoreInv, FilesTyped, files
<1>4. KeyWritten' /\ NetworkKnown' /\ WritesWhole'
  BY <1>1, <1>2 DEF KeyWritten, NetworkKnown, WritesWhole, Identified, StoreInv,
     WriteStages, files
<1>5. OneIdentity'
  BY DEF StoreInv, OneIdentity, files
<1> QED
  BY <1>1, <1>2, <1>3, <1>4, <1>5 DEF StoreInv

LEMMA FailEnds ==
  ASSUME Fail
  PROVE  \E cmd \in (DOMAIN Stages \cup {"none"}) \ {"forget"} :
           program' = [NoProgram EXCEPT !.cmd = cmd]
<1>1. NoProgram = [NoProgram EXCEPT !.cmd = "none"]
  BY DEF NoProgram
<1>2. Ready = [NoProgram EXCEPT !.cmd = "window"]
  BY DEF Ready
<1> QED
  BY <1>1, <1>2 DEF Fail, Stages

-----------------------------------------------------------------------------
(* The steps. *)

\* Where a program is, by the stage that is due.
LEMMA Where ==
  ASSUME StoreInv, NEW stage \in StageNames, Due(stage)
  PROVE  /\ Now = stage /\ program.todo # << >>
         /\ stage \in StagesOf(program.cmd)
         /\ program.cmd \in DOMAIN Stages
         /\ Planned(program.cmd, Tail(program.todo))
         /\ First(Tail(program.todo)) = After(program.cmd, stage)
<1>1. Now = stage /\ program.todo # << >>
  BY DEF Due, Now, First
<1>2. Planned(program.cmd, program.todo)
  BY DEF StoreInv
<1>3. stage \in StagesOf(program.cmd)
  BY <1>1, <1>2, PlannedFirst DEF Now
<1>4. program.cmd \in DOMAIN Stages
  BY <1>3 DEF StagesOf, Connects, Stages
<1> QED
  BY <1>1, <1>2, <1>3, <1>4, PlannedTail DEF Now

\* Which programs have a stage.
LEMMA Stops ==
  ASSUME NEW cmd \in DOMAIN Stages
  PROVE  /\ \A s \in {"resolve", "save", "new", "start"} :
              s \in StagesOf(cmd) => cmd \in Connects
         /\ "show" \in StagesOf(cmd) => cmd = "id"
         /\ "forget" \in StagesOf(cmd) => cmd = "forget"
         /\ \A s \in {"identity", "create", "fill"} :
              s \in StagesOf(cmd) => cmd \in Connects \cup {"id"}
         /\ \A s \in WriteStages :
              s \in StagesOf(cmd) => cmd \in Connects \cup {"forget"}
         /\ cmd \in Connects \cup {"forget"} =>
              WriteStages \subseteq StagesOf(cmd)
         /\ cmd \in Connects \cup {"id"} =>
              "create" \in StagesOf(cmd) /\ "fill" \in StagesOf(cmd)
BY DEF StagesOf, Connects, WriteStages, StageNames, Stages

\* A stage is over, and the next one is due.
LEMMA StageOver ==
  ASSUME StoreInv, NEW stage \in StageNames, Due(stage),
         program' = [program EXCEPT !.todo = Tail(@)]
  PROVE  /\ program' \in Program /\ Planned(program'.cmd, program'.todo)
         /\ Now' = After(program.cmd, stage)
         /\ program'.cmd = program.cmd /\ program'.name = program.name
         /\ program'.password = program.password
         /\ program'.key = program.key /\ program'.all = program.all
<1>1. /\ Planned(program.cmd, Tail(program.todo))
      /\ First(Tail(program.todo)) = After(program.cmd, stage)
  BY Where
<1>2. program \in Program /\ Tail(program.todo) \in Seq(StageNames)
  BY <1>1 DEF StoreInv, Planned
<1>3. /\ program'.cmd = program.cmd /\ program'.name = program.name
      /\ program'.password = program.password /\ program' \in Program
      /\ program'.key = program.key /\ program'.all = program.all
      /\ program'.todo = Tail(program.todo)
  BY <1>2 DEF Program
<1> QED
  BY <1>1, <1>3 DEF Now

\* The stages of After, the other way round.
LEMMA Follows ==
  ASSUME NEW cmd \in DOMAIN Stages, NEW s \in StageNames, s \in StagesOf(cmd)
  PROVE  /\ After(cmd, s) # "resolve"
         /\ After(cmd, s) = "fill" <=> s = "create"
         /\ After(cmd, s) # "create"
         /\ After(cmd, s) = "rename" <=> s = "write"
         /\ After(cmd, s) = "write" <=> s = "open"
         /\ After(cmd, s) # "open"
         /\ Identified(cmd, s) => After(cmd, s) = "end"
                                  \/ Identified(cmd, After(cmd, s))
         /\ Identified(cmd, After(cmd, s)) =>
              Identified(cmd, s) \/ s = "identity"
         /\ s = "identity" =>
              /\ After(cmd, s) = After(cmd, "fill")
              /\ Identified(cmd, After(cmd, s))
         /\ s = "save" => After(cmd, s) = After(cmd, "rename")
         /\ cmd = "forget" /\ s = "rename" => After(cmd, s) = "end"
BY DEF After, Identified, StagesOf, WriteStages, StageNames, Connects, Stages

\* What is resolved is a network and its password.
LEMMA ResolvedType ==
  ASSUME StoreInv, NEW r \in Resolved
  PROVE  r[1] \in Names /\ r[2] \in Passwords
<1>1. \A n \in Remembered : n \in Names /\ Entry(n) \in Passwords
  <2> SUFFICES ASSUME NEW n \in Remembered
               PROVE  n \in Names /\ Entry(n) \in Passwords
    OBVIOUS
  <2>1. n \in Names /\ Entry(n) # None
    BY DEF Remembered
  <2>2. Loaded \in Table /\ networks # Torn
    BY NoProgramType DEF Loaded, StoreInv, FilesTyped, WritesWhole
  <2> QED
    BY <2>1, <2>2 DEF Entry, Table
<1>2. program.password \in Passwords \cup {None} /\ Typed \subseteq Passwords
  BY StoreAssumption DEF StoreInv, Program
<1>3. CASE program.password # None
  <2>1. r = <<program.name, program.password>>
    BY <1>3 DEF Resolved
  <2> QED
    BY <1>2, <1>3, <2>1 DEF StoreInv, NetworkKnown
<1>4. CASE program.password = None /\ program.name = None
  <2>1. r \in {<<m, Entry(m)>> : m \in Remembered}
    BY <1>4 DEF Resolved
  <2> QED
    BY <1>1, <2>1
<1>5. CASE program.password = None /\ program.name # None
  <2>1. program.name \in Names
    BY <1>5 DEF StoreInv, Program
  <2>2. \/ /\ program.name \in Remembered
           /\ r = <<program.name, Entry(program.name)>>
        \/ r \in {program.name} \X Typed
    BY <1>5 DEF Resolved
  <2> QED
    BY <1>1, <1>2, <2>1, <2>2
<1> QED
  BY <1>2, <1>3, <1>4, <1>5

LEMMA FailKeeps ==
  ASSUME StoreInv, Fail, UNCHANGED <<files, used, starts>>,
         faults' \in 0 .. MaxFaults
  PROVE  StoreInv'
<1>1. PICK cmd \in (DOMAIN Stages \cup {"none"}) \ {"forget"} :
        program' = [NoProgram EXCEPT !.cmd = cmd]
  BY FailEnds
<1> QED
  BY <1>1, IdleProgram

LEMMA ResolveKeeps == ASSUME StoreInv, Resolve PROVE StoreInv'
<1>1. faults' \in 0 .. MaxFaults /\ UNCHANGED <<files, used, starts, faults>>
  BY DEF Resolve, StoreInv, FilesTyped
<1>2. ASSUME NEW r \in Resolved,
             program' = [program EXCEPT !.todo = Tail(@), !.name = r[1],
                                        !.password = r[2]]
      PROVE  StoreInv'
  <2>1. r[1] \in Names /\ r[2] \in Passwords
    BY ResolvedType
  <2>2. /\ Now = "resolve" /\ "resolve" \in StagesOf(program.cmd)
        /\ program.cmd \in DOMAIN Stages
        /\ Planned(program.cmd, Tail(program.todo))
        /\ First(Tail(program.todo)) = After(program.cmd, "resolve")
    BY Where DEF Resolve, StageNames
  <2>3. /\ program'.cmd = program.cmd /\ program'.name = r[1]
        /\ program'.password = r[2] /\ program' \in Program
        /\ program'.todo = Tail(program.todo)
    BY <1>2, <2>1, <2>2 DEF StoreInv, Program, Planned
  <2>4. Now' = After(program.cmd, "resolve")
    BY <2>2, <2>3 DEF Now
  <2>5. program.cmd \in Connects
    BY <2>2, Stops
  <2>6. Now' \in {"save", "identity"} /\ ~Identified(program'.cmd, Now')
    BY <2>3, <2>4, <2>5 DEF After, Connects, Identified, WriteStages
  <2>7. KeyWritten' /\ NetworkKnown' /\ WritesWhole'
    BY <1>1, <2>1, <2>3, <2>6
       DEF KeyWritten, NetworkKnown, WritesWhole, WriteStages, StoreInv, files
  <2> QED
    BY <1>1, <2>2, <2>3, <2>7 DEF StoreInv, FilesTyped, OneIdentity, files
<1> QED
  BY <1>1, <1>2, FailKeeps DEF Resolve

LEMMA LoadIdentityKeeps == ASSUME StoreInv, LoadIdentity PROVE StoreInv'
<1>1. faults' \in 0 .. MaxFaults /\ UNCHANGED <<files, used, starts, faults>>
  BY DEF LoadIdentity, StoreInv, FilesTyped
<1>2. /\ Now = "identity" /\ "identity" \in StagesOf(program.cmd)
      /\ program.cmd \in DOMAIN Stages
      /\ Planned(program.cmd, Tail(program.todo))
      /\ First(Tail(program.todo)) = After(program.cmd, "identity")
  BY Where DEF LoadIdentity, StageNames
<1>3. /\ Identified(program.cmd, After(program.cmd, "identity"))
      /\ After(program.cmd, "identity") \notin {"create", "fill", "rename"}
      /\ After(program.cmd, "identity") \notin WriteStages
      /\ After(program.cmd, "identity") = After(program.cmd, "fill")
      /\ program.cmd \in Connects \cup {"id"}
  BY <1>2, Follows, Stops DEF StageNames, WriteStages
<1>4. CASE identity = Torn
  BY <1>1, <1>4, FailKeeps, NoneDistinct DEF LoadIdentity
<1>5. CASE identity \in Keys
  <2>1. program' = [program EXCEPT !.todo = Tail(@), !.key = identity]
    BY <1>5, NoneDistinct DEF LoadIdentity
  <2>2. /\ program'.cmd = program.cmd /\ program'.name = program.name
        /\ program'.password = program.password /\ program' \in Program
        /\ program'.key = identity /\ program'.todo = Tail(program.todo)
    BY <1>2, <1>5, <2>1 DEF StoreInv, Program, Planned
  <2>3. Now' = After(program.cmd, "identity")
    BY <1>2, <2>2 DEF Now
  <2>4. KeyWritten' /\ NetworkKnown' /\ WritesWhole'
    BY <1>1, <1>2, <1>3, <1>5, <2>2, <2>3
       DEF KeyWritten, NetworkKnown, WritesWhole, StoreInv, files
  <2> QED
    BY <1>1, <1>2, <2>2, <2>4 DEF StoreInv, FilesTyped, OneIdentity, files
<1>6. CASE identity = None
  <2>1. used = {}
    BY <1>6, NoneDistinct DEF StoreInv, OneIdentity, FilesTyped
  <2>2. NewIdentity \in Keys
    BY <2>1, StoreAssumption DEF NewIdentity
  <2> DEFINE todo == <<"create", "fill">> \o Tail(program.todo)
  <2>3. program' = [program EXCEPT !.todo = todo, !.key = NewIdentity]
    BY <1>6, NoneDistinct DEF LoadIdentity
  <2>4. Planned(program.cmd, todo) /\ First(todo) = "create"
    BY <1>2, <1>3, Stops, PlannedCreate
  <2> HIDE DEF todo
  <2>5. /\ program'.cmd = program.cmd /\ program'.name = program.name
        /\ program'.password = program.password /\ program' \in Program
        /\ program'.key = NewIdentity /\ program'.todo = todo
    BY <2>2, <2>3, <2>4 DEF StoreInv, Program, Planned
  <2>6. Now' = "create"
    BY <2>4, <2>5 DEF Now
  <2>7. KeyWritten' /\ NetworkKnown' /\ WritesWhole'
    BY <1>1, <1>2, <2>1, <2>2, <2>5, <2>6
       DEF KeyWritten, NetworkKnown, WritesWhole, WriteStages, StoreInv, files
  <2> QED
    BY <1>1, <2>4, <2>5, <2>7 DEF StoreInv, FilesTyped, OneIdentity, files
<1> QED
  BY <1>4, <1>5, <1>6 DEF StoreInv, FilesTyped

LEMMA MakeIdentityKeeps ==
  ASSUME StoreInv, CreateIdentity \/ FillIdentity
  PROVE  StoreInv'
<1>1. UNCHANGED <<networks, tmp, used, starts, faults>>
  BY DEF CreateIdentity, FillIdentity
<1>2. CASE CreateIdentity
  <2>1. identity' = Torn /\ Now = "create"
    BY <1>2, Where DEF CreateIdentity, StageNames
  <2>2. /\ program' \in Program /\ Planned(program'.cmd, program'.todo)
        /\ Now' = After(program.cmd, "create")
        /\ program'.cmd = program.cmd /\ program'.name = program.name
        /\ program'.password = program.password
        /\ program'.key = program.key
    BY <1>2, StageOver DEF CreateIdentity, StageNames
  <2>3. KeyWritten' /\ NetworkKnown' /\ WritesWhole' /\ OneIdentity'
    BY <1>1, <2>1, <2>2
       DEF KeyWritten, NetworkKnown, WritesWhole, WriteStages, StoreInv,
           Identified, OneIdentity, After
  <2> QED
    BY <1>1, <2>1, <2>2, <2>3 DEF StoreInv, FilesTyped
<1>3. CASE FillIdentity
  <2>1. /\ identity' = program.key /\ Now = "fill"
        /\ program.cmd \in DOMAIN Stages /\ "fill" \in StagesOf(program.cmd)
    BY <1>3, Where DEF FillIdentity, StageNames
  <2>2. /\ program' \in Program /\ Planned(program'.cmd, program'.todo)
        /\ Now' = After(program.cmd, "fill")
        /\ program'.cmd = program.cmd /\ program'.name = program.name
        /\ program'.password = program.password
        /\ program'.key = program.key
    BY <1>3, StageOver DEF FillIdentity, StageNames
  <2>3. Now' \in {"save", "new", "show"}
    BY <2>1, <2>2, Stops DEF After, Connects
  <2>4. program.key \in Keys /\ used = {}
    BY <2>1 DEF StoreInv, KeyWritten, Identified
  <2>5. KeyWritten' /\ NetworkKnown' /\ WritesWhole' /\ OneIdentity'
    BY <1>1, <2>1, <2>2, <2>3, <2>4
       DEF KeyWritten, NetworkKnown, WritesWhole, WriteStages, StoreInv,
           OneIdentity
  <2> QED
    BY <1>1, <2>1, <2>2, <2>4, <2>5 DEF StoreInv, FilesTyped
<1> QED
  BY <1>2, <1>3

LEMMA UseIdentityKeeps == ASSUME StoreInv, UseIdentity PROVE StoreInv'
<1>1. UNCHANGED <<files, starts, faults>> /\ faults' \in 0 .. MaxFaults
  BY DEF UseIdentity, StoreInv, FilesTyped
<1>2. CASE Due("new") /\ Fail /\ UNCHANGED used
  BY <1>1, <1>2, FailKeeps
<1>3. ASSUME used' = used \cup {program.key}
      PROVE  OneIdentity' /\ used' = {identity} /\ used' \in SUBSET Keys
  <2>1. Now \in {"new", "show"}
    BY Where DEF UseIdentity, StageNames
  <2>2. program.key \in Keys /\ identity = program.key
    BY <2>1 DEF StoreInv, KeyWritten, Identified
  <2>3. used = {} \/ used = {identity}
    BY DEF StoreInv, OneIdentity
  <2> QED
    BY <1>1, <1>3, <2>2, <2>3 DEF OneIdentity, files
<1>4. CASE /\ Due("show") /\ used' = used \cup {program.key}
           /\ program' = NoProgram
  <2>1. /\ program'.cmd = "none" /\ program'.todo = << >>
        /\ program'.password = None
    BY <1>4 DEF NoProgram
  <2>2. Planned(program'.cmd, program'.todo) /\ Now' = "end"
    BY <2>1, PlannedStart DEF Now, First
  <2>3. KeyWritten' /\ NetworkKnown' /\ WritesWhole'
    BY <1>1, <2>1, <2>2
       DEF KeyWritten, NetworkKnown, WritesWhole, WriteStages, StoreInv,
           Identified, files, Connects
  <2> QED
    BY <1>1, <1>3, <1>4, <2>2, <2>3, NoProgramType
       DEF StoreInv, FilesTyped, files
<1>5. CASE /\ ~Due("show") /\ used' = used \cup {program.key}
           /\ program' = [program EXCEPT !.todo = Tail(@)]
  <2>1. Due("new")
    BY <1>5 DEF UseIdentity
  <2>2. /\ Now = "new" /\ program.cmd \in DOMAIN Stages
        /\ "new" \in StagesOf(program.cmd)
    BY <2>1, Where DEF StageNames
  <2>3. /\ program' \in Program /\ Planned(program'.cmd, program'.todo)
        /\ Now' = After(program.cmd, "new")
        /\ program'.cmd = program.cmd /\ program'.name = program.name
        /\ program'.password = program.password
        /\ program'.key = program.key
    BY <1>5, <2>1, StageOver DEF StageNames
  <2>4. Now' \in {"save", "start"} /\ program.cmd \in Connects
    BY <2>2, <2>3, Stops DEF After
  <2>5. KeyWritten' /\ NetworkKnown' /\ WritesWhole'
    BY <1>1, <2>2, <2>3, <2>4
       DEF KeyWritten, NetworkKnown, WritesWhole, WriteStages, StoreInv,
           Identified, files
  <2> QED
    BY <1>1, <1>3, <1>5, <2>3, <2>5 DEF StoreInv, FilesTyped, files
<1> QED
  BY <1>2, <1>4, <1>5 DEF UseIdentity

LEMMA LoadedType ==
  ASSUME StoreInv, NEW n, NEW v \in Passwords \cup {None}
  PROVE  Loaded \in Table /\ [Loaded EXCEPT ![n] = v] \in Table
<1>1. Loaded \in Table
  BY NoProgramType DEF Loaded, StoreInv, FilesTyped, WritesWhole
<1> QED
  BY <1>1 DEF Table

LEMMA SaveNetworkKeeps == ASSUME StoreInv, SaveNetwork PROVE StoreInv'
<1>1. UNCHANGED <<files, used, starts, faults>>
  BY DEF SaveNetwork
<1>2. /\ Now = "save" /\ "save" \in StagesOf(program.cmd)
      /\ program.cmd \in DOMAIN Stages
      /\ Planned(program.cmd, Tail(program.todo))
      /\ First(Tail(program.todo)) = After(program.cmd, "save")
  BY Where DEF SaveNetwork, StageNames
<1>3. /\ program.cmd \in Connects /\ WriteStages \subseteq StagesOf(program.cmd)
      /\ After(program.cmd, "save") = After(program.cmd, "rename")
  BY <1>2, Stops, Follows DEF StageNames
<1>4. program.name \in Names /\ program.password \in Passwords
  BY <1>2, <1>3 DEF StoreInv, NetworkKnown
<1> DEFINE todo == <<"open", "write", "rename">> \o Tail(program.todo)
           all == [Loaded EXCEPT ![program.name] = program.password]
<1>5. program' = [program EXCEPT !.todo = todo, !.all = all]
  BY DEF SaveNetwork, StoreInv, WritesWhole
<1>6. Planned(program.cmd, todo) /\ First(todo) = "open" /\ all \in Table
  BY <1>2, <1>3, <1>4, PlannedWrite, LoadedType
<1> HIDE DEF todo
<1>7. /\ program'.cmd = program.cmd /\ program'.name = program.name
      /\ program'.password = program.password /\ program'.key = program.key
      /\ program'.todo = todo /\ program'.all = all /\ program' \in Program
  BY <1>5, <1>6 DEF StoreInv, Program, Planned
<1>8. Now' = "open" /\ Loaded' = Loaded /\ program.cmd # "forget"
  BY <1>1, <1>3, <1>6, <1>7 DEF Now, Loaded, files, Connects
<1>9. KeyWritten' /\ NetworkKnown' /\ WritesWhole'
  BY <1>1, <1>2, <1>4, <1>7, <1>8
     DEF KeyWritten, NetworkKnown, WritesWhole, WriteStages, StoreInv,
         Identified, files
<1> QED
  BY <1>1, <1>6, <1>7, <1>9 DEF StoreInv, FilesTyped, OneIdentity, files

LEMMA ForgetNetworkKeeps == ASSUME StoreInv, ForgetNetwork PROVE StoreInv'
<1>1. UNCHANGED <<files, used, starts, faults>> /\ faults' \in 0 .. MaxFaults
  BY DEF ForgetNetwork, StoreInv, FilesTyped
<1>2. CASE program.name \notin Remembered
  BY <1>1, <1>2, FailKeeps DEF ForgetNetwork
<1>3. CASE program.name \in Remembered
  <2>1. /\ Now = "forget" /\ "forget" \in StagesOf(program.cmd)
        /\ program.cmd \in DOMAIN Stages
    BY Where DEF ForgetNetwork, StageNames
  <2>2. program.cmd = "forget" /\ WriteStages \subseteq StagesOf(program.cmd)
    BY <2>1, Stops
  <2> DEFINE todo == <<"open", "write", "rename">>
             all == [Loaded EXCEPT ![program.name] = None]
  <2>3. program' = [program EXCEPT !.todo = todo, !.all = all]
    BY <1>3 DEF ForgetNetwork
  <2>4. Planned(program.cmd, todo) /\ First(todo) = "open"
    BY <2>2 DEF Planned, First, StageNames, WriteStages, After
  <2>5. all \in Table
    BY LoadedType
  <2> HIDE DEF todo
  <2>6. /\ program'.cmd = program.cmd /\ program'.name = program.name
        /\ program'.password = program.password /\ program'.key = program.key
        /\ program'.todo = todo /\ program'.all = all /\ program' \in Program
    BY <2>3, <2>4, <2>5 DEF StoreInv, Program, Planned
  <2>7. Now' = "open" /\ Loaded' = Loaded
    BY <1>1, <2>4, <2>6 DEF Now, Loaded, files
  <2>8. KeyWritten' /\ NetworkKnown' /\ WritesWhole'
    BY <1>1, <2>2, <2>6, <2>7
       DEF KeyWritten, NetworkKnown, WritesWhole, WriteStages, StoreInv,
           Identified, files, Connects
  <2> QED
    BY <1>1, <2>4, <2>6, <2>8 DEF StoreInv, FilesTyped, OneIdentity, files
<1> QED
  BY <1>2, <1>3

LEMMA WriteTmpKeeps == ASSUME StoreInv, OpenTmp \/ WriteTmp PROVE StoreInv'
<1>1. UNCHANGED <<identity, networks, used, starts, faults>>
  BY DEF OpenTmp, WriteTmp
<1>2. PICK stage \in {"open", "write"} :
        /\ Due(stage) /\ program' = [program EXCEPT !.todo = Tail(@)]
        /\ tmp' = IF stage = "open" THEN Torn ELSE program.all
  BY DEF OpenTmp, WriteTmp
<1>3. stage \in StageNames /\ stage \in WriteStages
  BY DEF StageNames, WriteStages
<1>4. /\ Now = stage /\ stage \in StagesOf(program.cmd)
      /\ program.cmd \in DOMAIN Stages
  BY <1>2, <1>3, Where
<1>5. /\ program' \in Program /\ Planned(program'.cmd, program'.todo)
      /\ Now' = After(program.cmd, stage)
      /\ program'.cmd = program.cmd /\ program'.name = program.name
      /\ program'.password = program.password
      /\ program'.key = program.key /\ program'.all = program.all
  BY <1>2, <1>3, StageOver
<1>6. Now' = IF stage = "open" THEN "write" ELSE "rename"
  BY <1>5 DEF After
<1>7. tmp' \in Table \cup {None, Torn}
  BY <1>2 DEF StoreInv, Program
<1>8. Loaded' = Loaded
  BY <1>1 DEF Loaded
<1>9. KeyWritten' /\ NetworkKnown' /\ WritesWhole'
  BY <1>1, <1>2, <1>3, <1>4, <1>5, <1>6, <1>8
     DEF KeyWritten, NetworkKnown, WritesWhole, WriteStages, StoreInv,
         Identified
<1> QED
  BY <1>1, <1>5, <1>7, <1>9 DEF StoreInv, FilesTyped, OneIdentity

LEMMA RenameKeeps == ASSUME StoreInv, Rename PROVE StoreInv'
<1>1. UNCHANGED <<identity, used, starts, faults>> /\ tmp' = None
  BY DEF Rename
<1>2. /\ Now = "rename" /\ "rename" \in StagesOf(program.cmd)
      /\ program.cmd \in DOMAIN Stages
  BY Where DEF Rename, StageNames, WriteStages
<1>3. networks' = program.all /\ networks' # Torn
      /\ networks' \in Table \cup {None, Torn}
  BY <1>2, NoneDistinct DEF Rename, StoreInv, WritesWhole, Program
<1>4. CASE program.cmd = "forget"
  <2>1. program' = NoProgram
    BY <1>4 DEF Rename
  <2>2. /\ program'.cmd = "none" /\ program'.todo = << >>
        /\ program'.password = None
    BY <2>1 DEF NoProgram
  <2>3. Planned(program'.cmd, program'.todo) /\ Now' = "end"
    BY <2>2, PlannedStart DEF Now, First
  <2>4. KeyWritten' /\ NetworkKnown' /\ WritesWhole'
    BY <1>3, <2>2, <2>3
       DEF KeyWritten, NetworkKnown, WritesWhole, WriteStages, Identified,
           Connects
  <2> QED
    BY <1>1, <1>3, <2>1, <2>3, <2>4, NoProgramType
       DEF StoreInv, FilesTyped, OneIdentity
<1>5. CASE program.cmd # "forget"
  <2>1. program' = [program EXCEPT !.todo = Tail(@)] /\ Due("rename")
    BY <1>5 DEF Rename
  <2>2. /\ program' \in Program /\ Planned(program'.cmd, program'.todo)
        /\ Now' = After(program.cmd, "rename")
        /\ program'.cmd = program.cmd /\ program'.name = program.name
        /\ program'.password = program.password
        /\ program'.key = program.key
    BY <2>1, StageOver DEF StageNames, WriteStages
  <2>3. program.cmd \in Connects
    BY <1>2, <1>5, Stops DEF WriteStages
  <2>4. Now' = CASE program.cmd = "join" -> "identity"
                 [] program.cmd = "tray" -> "new"
                 [] program.cmd = "window" -> "start"
    BY <2>2, <2>3 DEF After, Connects
  <2>5. KeyWritten' /\ NetworkKnown' /\ WritesWhole'
    BY <1>1, <1>2, <1>3, <2>2, <2>3, <2>4
       DEF KeyWritten, NetworkKnown, WritesWhole, WriteStages, StoreInv,
           Identified, Connects
  <2> QED
    BY <1>1, <1>3, <2>2, <2>5 DEF StoreInv, FilesTyped, OneIdentity
<1> QED
  BY <1>4, <1>5

\* What is left when saving has failed.
LEMMA AfterSaveIs ==
  ASSUME StoreInv, NEW stage \in WriteStages, Due(stage)
  PROVE  /\ Planned(program.cmd, AfterSave)
         /\ First(AfterSave) = After(program.cmd, "rename")
<1> DEFINE todo == program.todo
           cmd == program.cmd
<1>1. Planned(cmd, todo) /\ todo # << >> /\ Head(todo) = stage
  BY DEF StoreInv, Due
<1>2. Len(todo) \in Nat /\ todo[1] = stage /\ 1 <= Len(todo)
  BY <1>1 DEF Planned
<1>3. \A i \in 1 .. Len(todo) :
        After(cmd, todo[i]) = IF i < Len(todo) THEN todo[i + 1] ELSE "end"
  BY <1>1 DEF Planned
<1> HIDE DEF todo, cmd
<1>4. After(cmd, "open") = "write" /\ After(cmd, "write") = "rename"
  BY DEF After
<1>5. CASE stage = "open"
  <2>1. 1 < Len(todo) /\ todo[2] = "write"
    BY <1>2, <1>3, <1>4, <1>5
  <2>2. 2 < Len(todo) /\ todo[3] = "rename"
    BY <1>2, <1>3, <1>4, <2>1
  <2>3. AfterSave = SubSeq(todo, 3 + 1, Len(todo)) /\ 3 \in 1 .. Len(todo)
    BY <1>1, <1>2, <1>5, <2>2 DEF AfterSave, Due, todo
  <2> QED
    BY <1>1, <2>2, <2>3, PlannedSkip DEF cmd
<1>6. CASE stage = "write"
  <2>1. 1 < Len(todo) /\ todo[2] = "rename"
    BY <1>2, <1>3, <1>4, <1>6
  <2>2. AfterSave = SubSeq(todo, 2 + 1, Len(todo)) /\ 2 \in 1 .. Len(todo)
    BY <1>1, <1>2, <1>6, <2>1 DEF AfterSave, Due, todo
  <2> QED
    BY <1>1, <2>1, <2>2, PlannedSkip DEF cmd
<1>7. CASE stage = "rename"
  <2>1. AfterSave = SubSeq(todo, 1 + 1, Len(todo)) /\ 1 \in 1 .. Len(todo)
    BY <1>1, <1>2, <1>7 DEF AfterSave, Due, todo
  <2> QED
    BY <1>1, <1>2, <1>7, <2>1, PlannedSkip DEF cmd
<1> QED
  BY <1>5, <1>6, <1>7 DEF WriteStages

LEMMA WriteErrorKeeps == ASSUME StoreInv, WriteError PROVE StoreInv'
<1>1. UNCHANGED <<files, used, starts>> /\ faults' \in 0 .. MaxFaults
  BY StoreAssumption DEF WriteError, StoreInv, FilesTyped
<1>2. CASE Fail
  BY <1>1, <1>2, FailKeeps
<1>3. CASE /\ \E stage \in WriteStages : Due(stage)
           /\ program.cmd # "forget"
           /\ program' = [program EXCEPT !.todo = AfterSave]
  <2>1. PICK stage \in WriteStages : Due(stage)
    BY <1>3
  <2>2. /\ Now = stage /\ stage \in StagesOf(program.cmd)
        /\ program.cmd \in DOMAIN Stages
    BY <2>1, Where DEF StageNames
  <2>3. program.cmd \in Connects
    BY <1>3, <2>2, Stops
  <2>4. /\ Planned(program.cmd, AfterSave)
        /\ First(AfterSave) = After(program.cmd, "rename")
    BY <2>1, AfterSaveIs
  <2>5. /\ program'.cmd = program.cmd /\ program'.name = program.name
        /\ program'.password = program.password /\ program'.key = program.key
        /\ program'.todo = AfterSave /\ program' \in Program
    BY <1>3, <2>4 DEF StoreInv, Program, Planned
  <2>6. Now' = CASE program.cmd = "join" -> "identity"
                 [] program.cmd = "tray" -> "new"
                 [] program.cmd = "window" -> "start"
    BY <2>3, <2>4, <2>5 DEF After, Connects, Now
  <2>7. KeyWritten' /\ NetworkKnown' /\ WritesWhole'
    BY <1>1, <2>2, <2>3, <2>5, <2>6
       DEF KeyWritten, NetworkKnown, WritesWhole, WriteStages, StoreInv,
           Identified, Connects, files
  <2> QED
    BY <1>1, <2>4, <2>5, <2>7 DEF StoreInv, FilesTyped, OneIdentity, files
<1> QED
  BY <1>2, <1>3 DEF WriteError

LEMMA BeginKeeps ==
  ASSUME StoreInv, NEW name \in Names \cup {None},
         NEW password \in Typed \cup {None},
         \/ \E cmd \in DOMAIN Stages : Launch(cmd, name, password)
         \/ Connect(name, password) /\ name # None
  PROVE  StoreInv'
<1>0. password \in Passwords \cup {None}
  BY StoreAssumption
<1>1. CASE Connect(name, password) /\ name # None
  <2>1. /\ program'.cmd = "window" /\ program'.name = name
        /\ program'.password = password /\ program'.todo = ConnectStages
        /\ program' \in Program
    <3>1. program' = [Ready EXCEPT !.todo = ConnectStages, !.name = name,
                                   !.password = password]
      BY <1>1 DEF Connect
    <3>2. ConnectStages \in Seq(StageNames) /\ Ready \in Program
      BY NoProgramType, PlannedStart DEF Planned
    <3>3. Ready.cmd = "window"
      BY DEF Ready, NoProgram
    <3> HIDE DEF Ready
    <3> QED
      BY <1>0, <3>1, <3>2, <3>3 DEF Program
  <2>2. Planned(program'.cmd, program'.todo) /\ Now' = "resolve"
    BY <2>1, PlannedStart DEF Now
  <2>3. KeyWritten' /\ NetworkKnown' /\ WritesWhole'
    BY <1>1, <2>1, <2>2
       DEF Connect, KeyWritten, NetworkKnown, WritesWhole, WriteStages,
           StoreInv, Identified, files
  <2> QED
    BY <1>1, <2>1, <2>2, <2>3
       DEF Connect, StoreInv, FilesTyped, OneIdentity, files
<1>2. ASSUME NEW cmd \in DOMAIN Stages, Launch(cmd, name, password)
      PROVE  StoreInv'
  <2>1. /\ program'.cmd = cmd /\ program'.name = name
        /\ program'.password = password /\ program'.todo = Stages[cmd]
        /\ program' \in Program
    BY <1>0, <1>2, NoProgramType, PlannedStart
       DEF Launch, NoProgram, Program, Planned
  <2>2. Planned(program'.cmd, program'.todo) /\ Now' = First(Stages[cmd])
    BY <2>1, PlannedStart DEF Now
  <2>3. First(Stages[cmd]) =
          CASE cmd \in {"join", "tray"} -> "resolve"
            [] cmd = "id" -> "identity"
            [] cmd = "forget" -> "forget"
            [] cmd = "window" -> "end"
    BY DEF First, Stages
  <2>4. starts' \in 0 .. MaxStarts
    <3>1. starts \in 0 .. MaxStarts /\ MaxStarts \in Nat
      BY StoreAssumption DEF StoreInv, FilesTyped
    <3>2. starts' = starts + 1 /\ starts < MaxStarts
      BY <1>2 DEF Launch
    <3> QED
      BY <3>1, <3>2
  <2>5. KeyWritten' /\ NetworkKnown' /\ WritesWhole'
    BY <1>2, <2>1, <2>2, <2>3
       DEF Launch, KeyWritten, NetworkKnown, WritesWhole, WriteStages,
           StoreInv, Identified, files, Stages, Connects
  <2> QED
    BY <1>2, <2>1, <2>2, <2>4, <2>5
       DEF Launch, StoreInv, FilesTyped, OneIdentity, files
<1> QED
  BY <1>1, <1>2

LEMMA StoreStepKeeps == ASSUME StoreInv, StoreStep PROVE StoreInv'
BY ResolveKeeps, LoadIdentityKeeps, MakeIdentityKeeps, UseIdentityKeeps,
   SaveNetworkKeeps, ForgetNetworkKeeps, WriteTmpKeeps, RenameKeeps
   DEF StoreStep

LEMMA StoreInitOK == StoreInit => StoreInv
<1> SUFFICES ASSUME StoreInit PROVE StoreInv
  OBVIOUS
<1>1. /\ identity \in Keys \cup {None}
      /\ used = IF identity = None THEN {} ELSE {identity}
  BY StoreAssumption DEF StoreInit
<1>2. networks \in Table \cup {None} /\ tmp = None
  BY <1>1, StoreAssumption DEF StoreInit, Table
<1>3. program.cmd = "none" /\ program.todo = << >> /\ program.password = None
  BY DEF StoreInit, NoProgram
<1>4. Planned(program.cmd, program.todo) /\ Now = "end"
  BY <1>3, PlannedStart DEF Now, First
<1>5. FilesTyped /\ OneIdentity
  BY <1>1, <1>2, StoreAssumption DEF StoreInit, FilesTyped, OneIdentity
<1>6. networks # Torn
  BY <1>2, NoneDistinct
<1> QED
  BY <1>3, <1>4, <1>5, <1>6, NoProgramType
     DEF StoreInit, StoreInv, KeyWritten, NetworkKnown, WritesWhole,
         WriteStages, Identified, Connects

\* The one step that changes what is remembered changes one entry, as the user
\* has asked for.
LEMMA RenameAsAsked ==
  ASSUME StoreInv, Rename, NEW n \in Names, Entry(n)' # Entry(n)
  PROVE  /\ n = program.name
         /\ Entry(n)' = IF program.cmd = "forget" THEN None
                        ELSE program.password
<1> DEFINE value == IF program.cmd = "forget" THEN None ELSE program.password
<1>1. Now = "rename"
  BY Where DEF Rename, StageNames, WriteStages
<1>2. /\ program.all = [Loaded EXCEPT ![program.name] = value]
      /\ networks' = program.all /\ networks # Torn /\ program.all \in Table
  BY <1>1 DEF Rename, StoreInv, WritesWhole, WriteStages, Program
<1>3. Loaded \in Table
  BY LoadedType
<1>4. Entry(n) = Loaded[n] /\ Entry(n)' = program.all[n]
  BY <1>2, NoneDistinct DEF Entry, Loaded
<1> QED
  BY <1>2, <1>3, <1>4 DEF Table
=============================================================================
