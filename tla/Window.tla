------------------------------- MODULE Window -------------------------------
(***************************************************************************)
(* The window (internal/gui).  One thread, the UI, handles the clicks and  *)
(* whatever other goroutines have queued for it (Synchronize):             *)
(*   a goroutine per connection  runs the client, and queues its end       *)
(*   refreshLoop                 takes the client, asks for its Status, and *)
(*                               queues the drawing of it                  *)
(* What connecting does before there is a client is in Store.              *)
(***************************************************************************)
EXTENDS Engine, Sequences

CONSTANTS
  NoEngine,  \* nil
  MaxQueue   \* how much may be queued

ASSUME WindowAssumption ==
  /\ NoEngine \notin Engines
  /\ MaxQueue \in Nat \ {0}

VARIABLES
  connected, \* Window.connected
  engine,    \* Window.engine
  queue,     \* closures for the UI thread
  refresh,   \* what refreshLoop has taken
  label,     \* the line that says whether there is a connection
  model      \* the rows of the peer table

windowVars == <<connected, engine, queue, refresh, label, model>>

\* Draw a status, or finish a connection that has ended.
Closure == [do : {"render"}, st : Status]
             \cup [do : {"finish"}, failed : BOOLEAN]

Waiting == [pc |-> "waiting", engine |-> NoEngine, st |-> NoStatus]

WindowTypeOK ==
  /\ connected \in BOOLEAN
  /\ engine \in Engines \cup {NoEngine}
  /\ queue \in Seq(Closure)
  /\ refresh \in [pc : {"waiting", "taken", "asked"},
                  engine : Engines \cup {NoEngine}, st : Status]
  /\ label \in {"off", "error", "connecting", "online"}
  /\ model \in SUBSET Peers

WindowInit ==
  /\ connected = FALSE /\ engine = NoEngine
  /\ queue = << >> /\ refresh = Waiting
  /\ label = "off" /\ model = {}

-----------------------------------------------------------------------------
\* The end of connect: the client is stored, and run in a goroutine.
StoreEngine(e) ==
  /\ engine' = e /\ connected' = TRUE
  /\ label' = "connecting"
  /\ UNCHANGED <<queue, refresh, model>>

\* disconnect: Close, and the rest when Run has returned.
Disconnected == IF engine = NoEngine THEN engines ELSE Closed(engine)

\* Mutant: the window is reset at once.
DisconnectAtOnce ==
  /\ connected
  /\ engines' = Disconnected
  /\ engine' = NoEngine /\ connected' = FALSE
  /\ label' = "off" /\ model' = {}
  /\ UNCHANGED <<changes, queue, refresh>>

\* onConnectClicked while connected.
Disconnect ==
  /\ connected
  /\ engines' = Disconnected
  /\ UNCHANGED <<changes, windowVars>>

\* The goroutine of a connection: Run has returned.  All that anybody asks of
\* the client from now on is its Status.
QueueFinish(e) ==
  /\ At(e, "ended")
  /\ queue' = Append(queue, [do |-> "finish", failed |-> engines[e].failed])
  /\ engines' = [engines EXCEPT ![e] = 
       [NoClient EXCEPT !.stage = "gone", !.status = engines[e].status]]
  /\ UNCHANGED <<changes, connected, engine, refresh, label, model>>

-----------------------------------------------------------------------------
\* refreshLoop: the client, if there is one, ...
Take ==
  /\ refresh.pc = "waiting"
  /\ engine # NoEngine
  /\ refresh' = [refresh EXCEPT !.pc = "taken", !.engine = engine]
  /\ UNCHANGED <<engineVars, connected, engine, queue, label, model>>

\* ... its Status, ...
Ask ==
  /\ refresh.pc = "taken"
  /\ refresh' = [pc |-> "asked", engine |-> NoEngine,
                 st |-> engines[refresh.engine].status]
  /\ UNCHANGED <<engineVars, connected, engine, queue, label, model>>

\* ... and the drawing of it.
QueueRender ==
  /\ refresh.pc = "asked"
  /\ Len(queue) < MaxQueue
  /\ queue' = Append(queue, [do |-> "render", st |-> refresh.st])
  /\ refresh' = Waiting
  /\ UNCHANGED <<engineVars, connected, engine, label, model>>

RefreshStep == Take \/ Ask \/ QueueRender

-----------------------------------------------------------------------------
\* Mutant: what is shown once is not drawn again.
renderOnce(st) ==
  /\ label' = IF st.vip THEN "online" ELSE "connecting"
  /\ model' = IF st.vip /\ label # "online" THEN st.peers ELSE model

\* render: the table stays as it is while there is no address.
render(st) ==
  /\ label' = IF st.vip THEN "online" ELSE "connecting"
  /\ model' = IF st.vip THEN st.peers ELSE model

\* finishDisconnect, and the label for what has happened.
finishDisconnect(failed) ==
  /\ engine' = NoEngine /\ connected' = FALSE
  /\ label' = IF failed THEN "error" ELSE "off"
  /\ model' = {}

\* The UI thread runs what is queued next.
RunClosure ==
  /\ queue # << >>
  /\ queue' = Tail(queue)
  /\ LET next == Head(queue) IN
       \/ /\ next.do = "render"
          /\ render(next.st)
          /\ UNCHANGED <<engine, connected>>
       \/ next.do = "finish" /\ finishDisconnect(next.failed)
  /\ UNCHANGED <<engineVars, refresh>>
=============================================================================
