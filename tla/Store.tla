------------------------------- MODULE Store -------------------------------
(***************************************************************************)
(* What the programs of one user keep on disk (internal/store), and in     *)
(* which order they read and write it before they connect (cmd/p2pv,       *)
(* cmd/p2pv-tray, internal/gui): the device's identity, and the networks   *)
(* that are remembered with their passwords.                               *)
(*                                                                         *)
(* One program runs at a time.  Every system call of a write is a step, so *)
(* that a crash or an error may come between any two.  A password is what  *)
(* the coordinator makes of it, right or wrong, and stands for the keys    *)
(* derived from it.                                                        *)
(***************************************************************************)
EXTENDS Integers, FiniteSets, Sequences

CONSTANTS
  Names,       \* of networks
  Keys,        \* what NewIdentity may come up with
  None,        \* no such file, entry, argument or key
  Torn,        \* a file with only part of its contents
  Typed,       \* passwords the user types
  Histories,   \* what a user may have saved before
  MaxStarts,   \* how often a program is started
  MaxFaults    \* how often a program is killed, or a write fails

Passwords == {"right", "wrong"}

ASSUME StoreAssumption ==
  /\ IsFiniteSet(Names) /\ IsFiniteSet(Keys) /\ Keys # {}
  /\ {None, Torn} \cap (Names \cup Keys \cup Passwords) = {}
  /\ {None, Torn} \cap [Names -> Passwords \cup {None}] = {}
  /\ None # Torn
  /\ Typed \subseteq Passwords
  /\ Histories \subseteq [Names -> Passwords \cup {None}]
  /\ MaxStarts \in Nat /\ MaxFaults \in Nat

VARIABLES
  program,   \* the program that runs and what it is about to do
  identity,  \* identity.key
  networks,  \* networks.json
  tmp,       \* networks.json.tmp
  used,      \* the identities a client was made with, or the user was shown
  starts, faults

files     == <<identity, networks, tmp>>
storeVars == <<program, files, used, starts, faults>>

\* The saved networks: the password of each, or None.
Table   == [Names -> Passwords \cup {None}]
NoTable == [n \in Names |-> None]

\* What LoadNetworks returns; a file that is not there is an empty table.
Loaded     == IF networks = None THEN NoTable ELSE networks
Entry(n)   == IF networks = Torn THEN None ELSE Loaded[n]
Remembered == {n \in Names : Entry(n) # None}

WriteStages == {"open", "write", "rename"}
Stages ==
  [join   |-> <<"resolve", "save", "identity", "new", "start">>,
   tray   |-> <<"resolve", "identity", "save", "new", "start">>,
   id     |-> <<"identity", "show">>,
   forget |-> <<"forget">>,
   window |-> << >>]
ConnectStages == <<"resolve", "identity", "new", "save", "start">>

NoProgram == [cmd |-> "none", todo |-> << >>, name |-> None,
              password |-> None, key |-> None, all |-> NoTable]
Ready == [NoProgram EXCEPT !.cmd = "window"]

\* What the running program does next.
Due(stage) == program.todo # << >> /\ Head(program.todo) = stage

\* Every connection has a network, its password and an identity.
StoreTypeOK ==
  /\ program.cmd \in DOMAIN Stages \cup {"none"}
  /\ program.todo \in
       Seq(WriteStages \cup {"resolve", "save", "identity", "create", "fill",
                             "new", "start", "show", "forget"})
  /\ program.name \in Names \cup {None}
  /\ program.password \in Passwords \cup {None}
  /\ program.key \in Keys \cup {None} /\ program.all \in Table
  /\ Due("start") => /\ program.name \in Names
                     /\ program.password \in Passwords
                     /\ program.key \in Keys
  /\ identity \in Keys \cup {None, Torn}
  /\ networks \in Table \cup {None, Torn} /\ tmp \in Table \cup {None, Torn}
  /\ used \in SUBSET Keys
  /\ starts \in 0 .. MaxStarts /\ faults \in 0 .. MaxFaults

\* The first program of a new user, or one of a user who has a history.
StoreInit ==
  /\ program = NoProgram
  /\ identity \in {None, CHOOSE k \in Keys : TRUE}
  /\ used = IF identity = None THEN {} ELSE {identity}
  /\ networks \in IF identity = None THEN {None} ELSE Histories
  /\ tmp = None
  /\ starts = 0 /\ faults = 0

-----------------------------------------------------------------------------
\* An error ends a program; the window only shows it.
Fail == program' = IF program.cmd = "window" THEN Ready ELSE NoProgram

\* A program is started with its arguments.
Launch(cmd, name, password) ==
  /\ program = NoProgram
  /\ starts < MaxStarts
  /\ starts' = starts + 1
  /\ name = None => cmd \notin {"join", "forget"} /\ password = None
  /\ cmd \notin {"join", "tray"} => password = None
  /\ cmd \in {"id", "window"} => name = None
  /\ program' = [NoProgram EXCEPT !.cmd = cmd, !.todo = Stages[cmd],
                                  !.name = name, !.password = password]
  /\ UNCHANGED <<files, used, faults>>

\* Window.connect with a name and perhaps a password in the form.
Connect(name, password) ==
  /\ program = Ready
  /\ program' = [Ready EXCEPT !.todo = ConnectStages, !.name = name,
                              !.password = password]
  /\ UNCHANGED <<files, used, starts, faults>>

\* The networks and passwords a program may end up with: the one it was given,
\* a remembered one (the tray's may go unnamed if it is the only one), or what
\* the user of join answers when asked.
Resolved ==
  LET n == program.name
      remembered == {<<m, Entry(m)>> : m \in Remembered}
  IN CASE program.password # None -> {<<n, program.password>>}
       [] program.password = None /\ n = None ->
            IF Cardinality(remembered) = 1 THEN remembered ELSE {}
       [] program.password = None /\ n # None ->
            IF n \in Remembered THEN {<<n, Entry(n)>>}
            ELSE IF program.cmd = "join" THEN {n} \X Typed ELSE {}

\* join asks for the password, and may not be given one.
Asks == /\ program.cmd = "join" /\ program.password = None
        /\ program.name \notin Remembered

Resolve ==
  /\ Due("resolve")
  /\ \/ \E r \in Resolved :
          program' = [program EXCEPT !.todo = Tail(@), !.name = r[1],
                                     !.password = r[2]]
     \/ (Resolved = {} \/ Asks) /\ Fail
  /\ UNCHANGED <<files, used, starts, faults>>

-----------------------------------------------------------------------------
NewIdentity == CHOOSE k \in Keys \ used : TRUE

\* Mutant: the new identity is used, and written when there is time.
LoadIdentityUnwritten ==
  /\ Due("identity")
  /\ CASE identity = Torn -> Fail
       [] identity \in Keys ->
            program' = [program EXCEPT !.todo = Tail(@), !.key = identity]
       [] identity = None ->
            program' = [program EXCEPT !.todo = Tail(@) \o <<"create", "fill">>,
                                       !.key = NewIdentity]
  /\ UNCHANGED <<files, used, starts, faults>>

\* LoadOrCreateIdentity: a file of the wrong length is an error, a missing
\* one is written before the new key is returned.
LoadIdentity ==
  /\ Due("identity")
  /\ CASE identity = Torn -> Fail
       [] identity \in Keys ->
            program' = [program EXCEPT !.todo = Tail(@), !.key = identity]
       [] identity = None ->
            program' = [program EXCEPT !.todo = <<"create", "fill">> \o Tail(@),
                                       !.key = NewIdentity]
  /\ UNCHANGED <<files, used, starts, faults>>

CreateIdentity ==
  /\ Due("create")
  /\ identity' = Torn
  /\ program' = [program EXCEPT !.todo = Tail(@)]
  /\ UNCHANGED <<networks, tmp, used, starts, faults>>

FillIdentity ==
  /\ Due("fill")
  /\ identity' = program.key
  /\ program' = [program EXCEPT !.todo = Tail(@)]
  /\ UNCHANGED <<networks, tmp, used, starts, faults>>

\* client.New, which may not find the server, and cmdID: the identity is used.
UseIdentity ==
  /\ Due("new") \/ Due("show")
  /\ \/ /\ used' = used \cup {program.key}
        /\ program' = IF Due("show") THEN NoProgram
                      ELSE [program EXCEPT !.todo = Tail(@)]
     \/ Due("new") /\ Fail /\ UNCHANGED used
  /\ UNCHANGED <<files, starts, faults>>

-----------------------------------------------------------------------------
\* Mutant: when saving has failed the client is started.
AfterSaveStart == <<"start">>

\* What the program goes on with when the saving is done, or has failed:
\* connecting does without it.
AfterSave ==
  LET left == CASE Due("open") -> 3 [] Due("write") -> 2 [] Due("rename") -> 1
  IN SubSeq(program.todo, left + 1, Len(program.todo))

\* Mutant: only the network that is joined is written.
SaveNetworkAlone ==
  /\ Due("save")
  /\ program' =
       [program EXCEPT
          !.todo = <<"open", "write", "rename">> \o Tail(@),
          !.all = [NoTable EXCEPT ![program.name] = program.password]]
  /\ UNCHANGED <<files, used, starts, faults>>

\* SaveNetwork up to writeNetworks; a file it cannot read ends it.
SaveNetwork ==
  /\ Due("save")
  /\ program' =
       IF networks = Torn THEN [program EXCEPT !.todo = Tail(@)]
       ELSE [program EXCEPT
               !.todo = <<"open", "write", "rename">> \o Tail(@),
               !.all = [Loaded EXCEPT ![program.name] = program.password]]
  /\ UNCHANGED <<files, used, starts, faults>>

\* ForgetNetwork likewise; a name it does not find is an error.
ForgetNetwork ==
  /\ Due("forget")
  /\ IF program.name \in Remembered
       THEN program' = [program EXCEPT
                          !.todo = <<"open", "write", "rename">>,
                          !.all = [Loaded EXCEPT ![program.name] = None]]
       ELSE Fail
  /\ UNCHANGED <<files, used, starts, faults>>

\* writeNetworks: os.WriteFile opens or truncates the temporary file, ...
OpenTmp ==
  /\ Due("open")
  /\ tmp' = Torn
  /\ program' = [program EXCEPT !.todo = Tail(@)]
  /\ UNCHANGED <<identity, networks, used, starts, faults>>

\* ... fills it ...
WriteTmp ==
  /\ Due("write")
  /\ tmp' = program.all
  /\ program' = [program EXCEPT !.todo = Tail(@)]
  /\ UNCHANGED <<identity, networks, used, starts, faults>>

\* ... and it becomes the file.  Forgetting ends here.
Rename ==
  /\ Due("rename")
  /\ networks' = tmp /\ tmp' = None
  /\ program' = IF program.cmd = "forget" THEN NoProgram
                ELSE [program EXCEPT !.todo = Tail(@)]
  /\ UNCHANGED <<identity, used, starts, faults>>

\* A write fails, and what was written of it stays.  Without an identity there
\* is no connection; without the file of networks there is one, but forgetting
\* has failed.
WriteError ==
  /\ faults < MaxFaults
  /\ faults' = faults + 1
  /\ \/ Due("create") /\ Fail
     \/ Due("fill") /\ Fail
     \/ /\ \E stage \in WriteStages : Due(stage)
        /\ IF program.cmd = "forget" THEN Fail
           ELSE program' = [program EXCEPT !.todo = AfterSave]
  /\ UNCHANGED <<files, used, starts>>

StoreStep ==
  \/ Resolve
  \/ LoadIdentity
  \/ CreateIdentity
  \/ FillIdentity
  \/ UseIdentity
  \/ SaveNetwork
  \/ ForgetNetwork
  \/ OpenTmp
  \/ WriteTmp
  \/ Rename

-----------------------------------------------------------------------------
\* A device never appears under two identities: whatever has been used is what
\* the file has, and another one is only ever made where there was none
\* (LoadOrCreateIdentity: "written before it is used").
OneIdentity == used # {} => used = {identity}

\* However saving fails, and at whatever point the program dies: the only
\* entry that ever changes is that of the network the user is joining, to the
\* password that is used, or forgetting (SaveNetwork, ForgetNetwork,
\* writeNetworks).
OnlyAsAsked ==
  [][\A n \in Names :
       Entry(n)' # Entry(n) =>
         /\ n = program.name
         /\ Entry(n)' = IF program.cmd = "forget" THEN None
                        ELSE program.password]_storeVars
=============================================================================
