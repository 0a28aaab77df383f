\* The peer with the higher ID is the one that loses its memory once.
SPECIFICATION Spec
CONSTANTS
  Nodes = {1, 2}
  Ids = {1, 2, 3}
  None = None
  Traffic = FALSE
  Prompt = TRUE
  Forgetful = {2}
  MaxFaults <- OneForgets
INVARIANT
  NeverStranded
CHECK_DEADLOCK FALSE
