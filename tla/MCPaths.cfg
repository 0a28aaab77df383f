\* Two clients, and one event of any kind: a lost or late datagram, an outage, a
\* move, a failing write, a packet or a handshake.  The intervals keep the
\* order of the code's (2, 15 and 30 ticks) and the deadline twice the
\* keepalive; a binding lasts as long as the deadline.
SPECIFICATION FairSpec
CONSTANTS
  Clients = {c1, c2}
  None = None
  PunchInterval = 1
  PathKeepalive = 2
  PathDeadline = 4
  PunchAttempts = 1
  NatTimeout = 4
  MaxAddress = 1
  Events = {"lose", "delay", "block", "move", "write", "traffic"}
  MaxEvents = 1
INVARIANTS
  TypeOK
  NoBlackHole
PROPERTIES
  PathsKept
  BothDirect
