\* One crash, between the answer to a registration and the rename.
SPECIFICATION Spec
CONSTANTS
  Devices = {d1, d2, d3}
  Hosts = {2, 3, 4}
  Networks = {home}
  Home = home
  SubnetCount = 2
  None = None
  Savers = {s1}
  Sweeper = Sweeper
  Inodes = {1, 2, 3, 4, 5}
  Spaced = TRUE
  MaxCrashes = 1
  MaxErrors = 0
SYMMETRY Symmetric
INVARIANT
  NoSharedAddress
\* A server that cannot read its state file stays down.
CHECK_DEADLOCK FALSE
