SPECIFICATION Spec
CONSTANTS
  Deploy = "false"
  InactiveRoles = {"performance", "code-quality", "spec-audit"}
  Lightweight = {"unset"}
  Classes = {"feature"}
  Failing = {"qa"}
  Advising = {}
  Stuck = {}
  Unsure = {}
  MaxReturns = 1
  NoNode = NoNode
  Entry = "intake"
  Nodes <- ServerNodes
  Types <- ServerTypes
  NodeInputs <- ServerInputs
  NodeOutputs <- ServerOutputs
  NodeWhen <- ServerWhen
  NodeSkipIf <- ServerSkipIf
  DriveCategory <- ServerCategory
  ForwardEdges <- ServerEdges
  NodeReturns <- ServerReturns
  ProjectFlags <- ServerFlags
  Envelopes <- ServerEnvelopes
INVARIANTS ReflowBeforeClose
CHECK_DEADLOCK FALSE
