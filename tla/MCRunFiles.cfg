SPECIFICATION Spec
CONSTANTS
  Commands = {c1, c2}
  Runs <- TwoRuns
  Envelopes <- Answers
  MaxEntries = 2
INVARIANTS
  TypeOK
  NothingUnrecorded
  LedgerIsTheRun
PROPERTIES
  LostOnlyByOverlap
SYMMETRY Symmetry
