\* Nothing is lost, repeated or overtaken: a client joins while the session
\* of another, which has gone, is being removed.
SPECIFICATION Spec
CONSTANTS
  c1 = c1
  c2 = c2
  B = B
  Clients = {c1, c2}
  Networks = {A}
  None = None
  Refused = {}
  Careful = TRUE
  Atomic = FALSE
  MaxAddress <- Addresses21
  MaxPending = 1
  Faults = {}
  MaxFaults = 0
INVARIANT
  ViewsCurrent
\* With everybody off nothing more needs to happen.
CHECK_DEADLOCK FALSE
