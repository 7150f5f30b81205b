SPECIFICATION Spec
CONSTANTS
  Runs = {r1, r2, r3}
  KEEP_N = 2
  OldEntries <- Closing
  MaxCommands = 2
  MaxFailed = 1
  Entries <- LastEntries
INVARIANTS
  TypeOK
  LinksLead
PROPERTIES
  LostOnlyByOverflow
  BackfillKeepsBase
  BackfillRecovers
SYMMETRY Symmetry
CHECK_DEADLOCK FALSE
