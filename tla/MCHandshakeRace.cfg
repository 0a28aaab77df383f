\* A network that loses, repeats and reorders nothing it does not have to:
\* a retry that starts while a reply is on its way is enough.
SPECIFICATION Spec
CONSTANTS
  Nodes = {1, 2}
  Ids = {1, 2, 3}
  None = None
  Traffic = FALSE
  Prompt = FALSE
  Forgetful = {}
  MaxFaults <- NoFault
INVARIANT
  NeverStranded
CHECK_DEADLOCK FALSE
