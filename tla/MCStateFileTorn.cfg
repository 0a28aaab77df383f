\* Two registrations at the same time; nothing crashes or fails.
SPECIFICATION Spec
CONSTANTS
  Devices = {d1, d2, d3}
  Hosts = {2, 3, 4}
  Networks = {home}
  Home = home
  SubnetCount = 2
  None = None
  Savers = {s1, s2}
  Sweeper = Sweeper
  Inodes = {1, 2, 3, 4, 5}
  Spaced = FALSE
  MaxCrashes = 0
  MaxErrors = 0
SYMMETRY Symmetric
INVARIANT
  FileWhole
\* A server that cannot read its state file stays down.
CHECK_DEADLOCK FALSE
