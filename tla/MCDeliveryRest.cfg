SPECIFICATION FairSpec
CONSTANTS
  Deploy = "false"
  InactiveRoles = {"performance", "code-quality", "spec-audit"}
  Lightweight = {"unset", "true"}
  Classes = {"feature"}
  Failing = {"spec-gate", "code-lint", "security"}
  Advising = {"security"}
  Stuck = {"backend"}
  Unsure = {}
  MaxReturns = 3
  NoNode = NoNode
  Entry = "intake"
  Nodes <- ServerNodes
  Types <- ServerTypes
  NodeInputs <- ServerInputs
  NodeOutputs <- ServerOutputs
  NodeWhen <- ServerWhen
  NodeSkipIf <- ServerSkipIf
  DriveCategory <- ServerCategory
  ForwardEdges <- ServerEdges
  NodeReturns <- ServerReturns
  ProjectFlags <- ServerFlags
  Envelopes <- ServerEnvelopes
PROPERTIES ComesToRest
CHECK_DEADLOCK FALSE
