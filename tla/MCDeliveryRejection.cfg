SPECIFICATION Spec
CONSTANTS
  Deploy = "true"
  InactiveRoles = {"performance", "code-quality", "spec-audit"}
  Lightweight = {"unset"}
  Classes = {"feature"}
  Failing = {"qa"}
  Advising = {}
  Stuck = {}
  Unsure = {}
  MaxReturns = 1
  NoNode = NoNode
  Entry = "intake"
  Nodes <- ServerNodes
  Types <- ServerTypes
  NodeInputs <- ServerInputs
  NodeOutputs <- ServerOutputs
  NodeWhen <- ServerWhen
  NodeSkipIf <- ServerSkipIf
  DriveCategory <- ServerCategory
  ForwardEdges <- ServerEdges
  NodeReturns <- ServerReturns
  ProjectFlags <- ServerFlags
  Envelopes <- ServerEnvelopes
PROPERTIES RejectionHalts
CHECK_DEADLOCK FALSE
