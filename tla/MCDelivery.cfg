\* A deploying server project with two auditors: returns and bare failures of
\* four gates, an advisory finding of every gate (behind all but security it
\* leaves the run nowhere to go), a BLOCKER, the lightweight lane, a class left
\* to judgment.
SPECIFICATION Spec
CONSTANTS
  Deploy = "true"
  InactiveRoles = {"performance", "spec-audit"}
  Lightweight = {"unset","true"}
  Classes = {"unset"}
  Failing = {"code-lint", "qa", "security", "monitor"}
  Advising = {"spec-gate", "feasibility", "code-lint", "qa", "security", "monitor"}
  Stuck = {"backend"}
  Unsure = {"code-lint"}
  MaxReturns = 2
  NoNode = NoNode
  Entry = "intake"
  Nodes <- ServerNodes
  Types <- ServerTypes
  NodeInputs <- ServerInputs
  NodeOutputs <- ServerOutputs
  NodeWhen <- ServerWhen
  NodeSkipIf <- ServerSkipIf
  DriveCategory <- ServerCategory
  ForwardEdges <- ServerEdges
  NodeReturns <- ServerReturns
  ProjectFlags <- ServerFlags
  Envelopes <- ServerEnvelopes
INVARIANTS
  TypeOK
  InflightIsWorked
  NeverStalls
  AncestorsDone
  FirstPassClosesComplete
  FirstPassClosesIdle
  ConsentBeforeProduction
  HaltIsAnswered
PROPERTIES
  FirstPassRunsOnce
CHECK_DEADLOCK FALSE
