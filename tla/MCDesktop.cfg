\* Two programs of one user, one after the other, one of which may be killed or
\* fail to write once; in the window two connections.
SPECIFICATION FairSpec
CONSTANTS
  n1 = n1
  n2 = n2
  Names = {n1, n2}
  Keys = {k1, k2}
  None = None
  Torn = Torn
  Typed = {"right"}
  Histories <- OneOfEach
  MaxStarts = 2
  MaxFaults = 1
  Engines = {1, 2}
  Mine = 1
  Peers = {2, 3}
  MaxChanges = 1
  Slots = {1}
  NoEngine = NoEngine
  MaxQueue = 1
CONSTRAINT Small
INVARIANTS
  TypeOK
  OneIdentity
  OneEngine
  RowsTell
PROPERTIES
  OnlyAsAsked
  
  FailureShown
  WindowFollows
\* Programs end, and no more than MaxStarts are started.
CHECK_DEADLOCK FALSE
