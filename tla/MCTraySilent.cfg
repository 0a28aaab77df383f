\* The tray, once, without a crash or a failing write: the client ends without
\* an error when its password is refused, or when its interface fails.
SPECIFICATION FairSpec
CONSTANTS
  n1 = n1
  n2 = n2
  Names = {n1, n2}
  Keys = {k1, k2}
  None = None
  Torn = Torn
  Typed = {"wrong"}
  Histories <- OneOfEach
  MaxStarts = 1
  MaxFaults = 0
  Engines = {1}
  Mine = 1
  Peers = {2}
  MaxChanges = 0
  Slots = {1}
  NoEngine = NoEngine
  MaxQueue = 1
PROPERTY
  EndShown
\* The one program may end.
CHECK_DEADLOCK FALSE
