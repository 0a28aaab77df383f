-------------------------------- MODULE Tray --------------------------------
(***************************************************************************)
(* The program in the system tray (internal/tray): a menu, drawn widget by *)
(* widget from the Status of one client.  Two goroutines draw, and nothing *)
(* keeps them apart:                                                       *)
(*   watch   every refreshInterval                                         *)
(*   engine  runs the client, and draws its failure as soon as Run has     *)
(*           returned one                                                  *)
(* The address a click copies is kept next to the widgets (track).  The    *)
(* third goroutine waits for a click on Quit; Run, which started them      *)
(* all, then waits a second for the client to end.                         *)
(***************************************************************************)
EXTENDS Engine, Sequences, SequencesExt

CONSTANTS
  Slots,    \* rows for peers, 1 .. 12 in the code
  Mine      \* the client of the tray program

ASSUME TrayAssumption ==
  /\ Slots = 1 .. Cardinality(Slots) /\ IsFiniteSet(Slots)
  /\ Mine \in Engines

VARIABLES
  menu,      \* what each widget shows, and what is tracked next to it
  failErr,   \* the client's error has been set
  drawing,   \* what each goroutine is about to draw
  quitting   \* Quit has been clicked

trayVars == <<menu, failErr, drawing, quitting>>

\* A widget of the menu, or of a row.
Widgets == ({"status", "self", "selfTracked", "overflow"} \X {0})
             \cup ({"title", "tracked", "shown"} \X Slots)

\* The texts of status, the addresses of rows (0: none), and whether there is
\* anything in the others.
Values(kind) == CASE kind = "status" -> {"connecting", "failed", "online"}
                  [] kind \in {"title", "tracked"} -> Peers \cup {0}
                  [] OTHER -> BOOLEAN

NewMenu == [w \in Widgets |-> CASE w[1] = "status" -> "connecting"
                                [] w[1] \in {"title", "tracked"} -> 0
                                [] OTHER -> FALSE]

\* st: the Status render has been called with.  todo: the widgets still to be
\* set, and to what.
Idle == [pc |-> "idle", st |-> NoStatus, todo |-> << >>]

TrayTypeOK ==
  /\ DOMAIN menu = Widgets
  /\ \A w \in Widgets : menu[w] \in Values(w[1])
  /\ failErr \in BOOLEAN /\ quitting \in BOOLEAN
  /\ \A who \in {"watch", "engine"} :
       /\ drawing[who].pc \in {"idle", "called", "drawing"}
       /\ drawing[who].st \in Status
       /\ \A set \in Range(drawing[who].todo) : set[2] \in Values(set[1][1])

TrayInit ==
  /\ menu = NewMenu
  /\ failErr = FALSE /\ quitting = FALSE
  /\ drawing = [who \in {"watch", "engine"} |-> Idle]

-----------------------------------------------------------------------------
Set(at, row, to) == << <<at, row>>, to >>

\* The loops over the rows.
EachRow(Steps(_)) == FlattenSeq([i \in Slots |-> Steps(i)])

\* Mutant: the failure branch also forgets what the rows show.
HiddenUntracked(i) == <<Set("shown", i, FALSE), Set("tracked", i, 0)>>

Hidden(i) == <<Set("shown", i, FALSE)>>

\* The peer in row i, in the order of the addresses.
PeerIn(peers, i) ==
  CHOOSE p \in peers : Cardinality({q \in peers : q < p}) = i - 1

Row(peers, i) ==
  IF i <= Cardinality(peers)
    THEN <<Set("title", i, PeerIn(peers, i)),
           Set("tracked", i, PeerIn(peers, i)), Set("shown", i, TRUE)>>
    ELSE <<Set("shown", i, FALSE), Set("tracked", i, 0)>>

Headline(status, self) ==
  <<Set("status", 0, status), Set("self", 0, self),
    Set("selfTracked", 0, self)>>
Overflow(more) == <<Set("overflow", 0, more)>>

\* Mutant: the Status is drawn whatever has happened to the client.
renderMenuAnyway(st) ==
  IF ~st.vip
    THEN Headline("connecting", FALSE) \o EachRow(Hidden) \o Overflow(FALSE)
    ELSE Headline("online", TRUE)
           \o EachRow(LAMBDA i : Row(st.peers, i))
           \o Overflow(Cardinality(st.peers) > Cardinality(Slots))

\* render: a failure outranks any status.
renderMenu(st) ==
  CASE failErr ->
         Headline("failed", FALSE) \o EachRow(Hidden) \o Overflow(FALSE)
    [] ~failErr /\ ~st.vip ->
         Headline("connecting", FALSE) \o EachRow(Hidden) \o Overflow(FALSE)
    [] ~failErr /\ st.vip ->
         Headline("online", TRUE)
           \o EachRow(LAMBDA i : Row(st.peers, i))
           \o Overflow(Cardinality(st.peers) > Cardinality(Slots))

\* The Status comes first.
Call(who) ==
  drawing' = [drawing EXCEPT ![who] =
    [pc |-> "called", st |-> engines[Mine].status, todo |-> << >>]]

\* The look at failErr, which has a lock of its own.
Look(who) ==
  /\ drawing[who].pc = "called"
  /\ drawing' = [drawing EXCEPT ![who] =
       [pc |-> "drawing", st |-> NoStatus,
        todo |-> renderMenu(drawing[who].st)]]
  /\ UNCHANGED <<engineVars, menu, failErr, quitting>>

Draw(who) ==
  /\ drawing[who].pc = "drawing"
  /\ LET todo == drawing[who].todo IN
       /\ menu' = [menu EXCEPT ![Head(todo)[1]] = Head(todo)[2]]
       /\ drawing' = [drawing EXCEPT ![who] =
            IF Len(todo) = 1 THEN Idle ELSE [@ EXCEPT !.todo = Tail(todo)]]
  /\ UNCHANGED <<engineVars, failErr, quitting>>

-----------------------------------------------------------------------------
\* watch: the next tick.
Tick ==
  /\ drawing["watch"] = Idle
  /\ Call("watch")
  /\ UNCHANGED <<engineVars, menu, failErr, quitting>>

\* The engine goroutine: Run has returned an error, ...
SetFailure ==
  /\ At(Mine, "ended") /\ engines[Mine].failed
  /\ ~failErr
  /\ failErr' = TRUE
  /\ Call("engine")
  /\ UNCHANGED <<engineVars, menu, quitting>>

\* ... which has been drawn, or nil: errCh gets either.
Report ==
  /\ At(Mine, "ended")
  /\ engines[Mine].failed => failErr /\ drawing["engine"] = Idle
  /\ engines' = [engines EXCEPT ![Mine].stage = "gone"]
  /\ UNCHANGED <<changes, trayVars>>

\* Quit is clicked: Close, and systray.Run returns.
ClickQuit ==
  /\ engines[Mine].stage # "none" /\ ~quitting
  /\ quitting' = TRUE
  /\ engines' = Closed(Mine)
  /\ UNCHANGED <<changes, menu, failErr, drawing>>

\* Mutant: Run does not wait for the client.
MayExitAtOnce == quitting

\* The end of Run.  Whatever the client does when it is closed takes less than
\* a second, but for opening the interface.
MayExit == quitting /\ (At(Mine, "gone") \/ At(Mine, "opening"))

WatchStep  == Tick \/ Look("watch") \/ Draw("watch")
EngineStep == SetFailure \/ Look("engine") \/ Draw("engine") \/ Report

-----------------------------------------------------------------------------
\* A failure is all the menu shows, whoever has drawn last.
ShowsFailure ==
  /\ menu[<<"status", 0>>] = "failed"
  /\ ~menu[<<"selfTracked", 0>>] /\ ~menu[<<"overflow", 0>>]
  /\ \A i \in Slots : ~menu[<<"shown", i>>]
=============================================================================
