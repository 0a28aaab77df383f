\* Two peers with traffic, whose attempts are over before the next begins; the
\* initiator may lose its memory twice, two messages may be lost and two
\* replies repeated.  Three ephemeral keys per end are enough.
SPECIFICATION FairSpec
CONSTANTS
  Nodes = {1, 2}
  Ids = {1, 2, 3}
  None = None
  Traffic = TRUE
  Prompt = TRUE
  Forgetful = {1}
  MaxFaults <- Tolerated
INVARIANTS
  TypeOK
  OneInitiator
  FinishedOnce
  Agreed
PROPERTY
  Settles
\* With everybody connected nothing more needs to happen.
CHECK_DEADLOCK FALSE
