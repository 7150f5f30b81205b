SPECIFICATION Spec
CONSTANTS
  Nodes = {"owner", "gate", "audit"}
  Types = {"spec", "code"}
  NodeInputs <- Inputs
  MaxEpoch = 5
INVARIANTS NothingAhead
PROPERTIES ImplementsFreshness
CHECK_DEADLOCK FALSE
