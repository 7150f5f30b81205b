\* The flag as it is when nobody sets it: run.sh alone decides.
SPECIFICATION Spec
CONSTANTS
  Paths = {"current-run.md", "mine", "made"}
  RunFile = "current-run.md"
  NodeCommit = "unset"
PROPERTY ForeignWorkKept
