\* Four devices in a network of three addresses, next to another network;
\* registrations far enough apart for each to be saved before the next, a crash
\* or a failed write at any moment, lists late and lost.
SPECIFICATION RoutingSpec
CONSTANTS
  Devices = {me, d1, d2, d3}
  Me = me
  Hosts = {2, 3, 4}
  Networks = {home, other}
  Home = home
  SubnetCount = 2
  None = None
  Savers = {s1}
  Sweeper = Sweeper
  Inodes = {1, 2, 3, 4}
  Spaced = TRUE
  MaxCrashes = 1
  MaxErrors = 1
  MaxLists = 1
SYMMETRY Symmetric
CONSTRAINT Small
INVARIANTS
  RoutingTypeOK
  FileWhole
  DistinctAddresses
  DistinctSubnets
  UpToDate
  AddressKept
  NoMisroute
  Routable
  HasItsAddress
\* A server that cannot read its state file stays down.
CHECK_DEADLOCK FALSE
