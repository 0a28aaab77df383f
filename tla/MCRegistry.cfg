\* Two networks, one client that may not join the second; a client starts
\* twice, or starts and moves or changes networks, and one fault of any kind
\* but the loss of a peer list.
SPECIFICATION FairSpec
CONSTANTS
  c1 = c1
  c2 = c2
  B = B
  Clients = {c1, c2}
  Networks = {A, B}
  None = None
  Refused <- WrongPasswords
  Careful = TRUE
  Atomic = TRUE
  MaxAddress <- Addresses21
  MaxPending = 1
  Faults <- ListsArrive
  MaxFaults = 1
INVARIANTS
  TypeOK
  Isolation
  ViewsCurrent
PROPERTY
  Reunited
\* With everybody off nothing more needs to happen.
CHECK_DEADLOCK FALSE
