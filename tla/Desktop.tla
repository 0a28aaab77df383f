------------------------------ MODULE Desktop ------------------------------
(***************************************************************************)
(* The programs of one user, one at a time: the command line (cmd/p2pv),   *)
(* the tray (cmd/p2pv-tray) and the window (cmd/p2pv-gui), composed of     *)
(* what they keep on disk (Store), the client they run (Engine) and what   *)
(* they show of it (Tray, Window).                                         *)
(*                                                                         *)
(* All that is in memory ends with a program, which may be killed or panic *)
(* at any moment.                                                          *)
(***************************************************************************)
EXTENDS Store, Tray, Window

vars == <<storeVars, engineVars, trayVars, windowVars>>

ASSUME DesktopAssumption ==
  /\ Engines = 1 .. Cardinality(Engines)
  /\ Mine = 1

TypeOK == StoreTypeOK /\ EngineTypeOK /\ TrayTypeOK /\ WindowTypeOK

Init == StoreInit /\ EngineInit /\ TrayInit /\ WindowInit

-----------------------------------------------------------------------------
\* The program has come as far as it does on its own.
Up(cmd) == program.cmd = cmd /\ program.todo = << >>

\* The client is made, and whatever runs it begins: main itself (join), the
\* goroutines of onReady (tray), the goroutine of connect (window).
Start ==
  /\ Due("start")
  /\ program' = [NoProgram EXCEPT !.cmd = program.cmd]
  /\ \E e \in Engines :
       /\ \A d \in Engines : d < e <=> ~At(d, "none")
       /\ New(e, program.password = "right")
       /\ IF program.cmd = "window" THEN StoreEngine(e)
          ELSE UNCHANGED windowVars
  /\ UNCHANGED <<files, used, starts, faults, trayVars>>

\* What the program had in memory is gone.
Exit ==
  /\ program' = NoProgram
  /\ engines' = NoClients
  /\ menu' = NewMenu /\ failErr' = FALSE /\ quitting' = FALSE
  /\ drawing' = [who \in {"watch", "engine"} |-> Idle]
  /\ connected' = FALSE /\ engine' = NoEngine
  /\ queue' = << >> /\ refresh' = Waiting
  /\ label' = "off" /\ model' = {}
  /\ UNCHANGED <<changes, files, used, starts>>

\* A signal makes cmdJoin close the client; the program ends when Run returns.
Signal ==
  /\ Up("join")
  /\ engines' = Closed(Mine)
  /\ UNCHANGED <<changes, storeVars, trayVars, windowVars>>

JoinReturns ==
  /\ Up("join") /\ At(Mine, "ended")
  /\ Exit
  /\ UNCHANGED faults

TrayReturns ==
  /\ Up("tray") /\ MayExit
  /\ Exit
  /\ UNCHANGED faults

\* Quit in the menu of the icon, or onClosing without a connection: the client
\* is closed, but not waited for.
Quit ==
  /\ Up("window")
  /\ Exit
  /\ UNCHANGED faults

Crash ==
  /\ program # NoProgram
  /\ faults < MaxFaults
  /\ faults' = faults + 1
  /\ Exit

-----------------------------------------------------------------------------
\* What the disk has no part in.
InMemory == UNCHANGED storeVars

ClientRuns == /\ \E e \in Engines : Run(e)
              /\ InMemory /\ UNCHANGED <<trayVars, windowVars>>
Environment == /\ \E e \in Engines : Outside(e)
               /\ InMemory /\ UNCHANGED <<trayVars, windowVars>>

TrayWatches == Up("tray") /\ WatchStep /\ InMemory /\ UNCHANGED windowVars
TrayRuns    == Up("tray") /\ EngineStep /\ InMemory /\ UNCHANGED windowVars
TrayClick   == Up("tray") /\ ClickQuit /\ InMemory /\ UNCHANGED windowVars

WindowRefreshes == RefreshStep /\ InMemory /\ UNCHANGED trayVars
WindowRuns      == /\ program.cmd = "window"
                   /\ \E e \in Engines : QueueFinish(e)
                   /\ InMemory /\ UNCHANGED trayVars
\* The UI thread does one thing at a time.
WindowDraws == Up("window") /\ RunClosure /\ InMemory /\ UNCHANGED trayVars
WindowClick ==
  /\ Up("window")
  /\ \/ Disconnect /\ InMemory
     \/ /\ ~connected
        /\ \E e \in Engines : At(e, "none")
        /\ \E n \in Names, p \in Typed \cup {None} : Connect(n, p)
        /\ UNCHANGED <<engineVars, windowVars>>
  /\ UNCHANGED trayVars

Prepare ==
  \/ StoreStep /\ UNCHANGED <<engineVars, trayVars, windowVars>>
  \/ Start

Begin ==
  /\ \E cmd \in DOMAIN Stages, n \in Names \cup {None},
        p \in Typed \cup {None} : Launch(cmd, n, p)
  /\ UNCHANGED <<engineVars, trayVars, windowVars>>

DiskFails == WriteError /\ UNCHANGED <<engineVars, trayVars, windowVars>>

Next ==
  \/ Begin
  \/ Prepare
  \/ DiskFails
  \/ Crash
  \/ ClientRuns
  \/ Environment
  \/ Signal
  \/ JoinReturns
  \/ TrayWatches
  \/ TrayRuns
  \/ TrayClick
  \/ TrayReturns
  \/ WindowRefreshes
  \/ WindowRuns
  \/ WindowDraws
  \/ WindowClick
  \/ Quit

Spec == Init /\ [][Next]_vars

\* Programs go on, goroutines run, tickers tick.  Nobody has to click, and
\* nothing has to fail or to be answered.
FairSpec ==
  /\ Spec
  /\ WF_vars(Prepare)
  /\ WF_vars(ClientRuns)
  /\ WF_vars(JoinReturns) /\ WF_vars(TrayReturns)
  /\ WF_vars(TrayWatches) /\ WF_vars(TrayRuns)
  /\ WF_vars(WindowRefreshes) /\ WF_vars(WindowRuns) /\ WF_vars(WindowDraws)

-----------------------------------------------------------------------------
\* No two clients at a time open the one interface, however fast the user
\* clicks: until Run has returned, the button closes and does not connect
\* (connected is reset by finishDisconnect, and by nothing else).
OneEngine ==
  \A e \in Engines :
    Running(e) => /\ \A d \in Engines \ {e} : ~Running(d)
                  /\ program.cmd = "window" => connected /\ engine = e

\* A click copies what the row shows: whenever nobody is drawing, the address
\* kept for a row is the one in its title, whichever of the two goroutines has
\* drawn it last (render, track).
RowsTell ==
  (\A who \in {"watch", "engine"} : drawing[who] = Idle) =>
    \A i \in Slots : menu[<<"shown", i>>] =>
      menu[<<"tracked", i>>] = menu[<<"title", i>>]

\* In the end a failure is all the tray shows, although watch may be in the
\* middle of drawing something else when it is set ("A failed engine has to be
\* visible in the menu").
FailureShown == <>[](Up("tray") /\ failErr => ShowsFailure)

\* In the end the window says it is connected exactly if its client runs, and
\* shows the peers that client has (refreshLoop, finishDisconnect).
WindowFollows ==
  <>[](Up("window") =>
         /\ connected <=> \E e \in Engines : Running(e)
         /\ \A e \in Engines :
              Running(e) /\ engines[e].status.vip =>
                model = engines[e].status.peers)

\* join and the tray do not end under a client that serves, so that its Bye
\* reaches the coordinator (Run; "Disconnect and quit").
ExitsSaidBye ==
  [][program' = NoProgram /\ faults' = faults =>
       program.cmd = "window" \/ \A e \in Engines : ~At(e, "serving")]_vars

\* In the end the tray shows that its client has ended on its own ("A failed
\* engine has to be visible in the menu": tray.Run).
EndShown == <>[](Up("tray") /\ At(Mine, "gone") /\ ~quitting => ShowsFailure)
=============================================================================
