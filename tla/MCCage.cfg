SPECIFICATION Spec
CONSTANTS
  Deploys = {d1, d2}
  Defs = {v1, v2}
INVARIANTS
  TypeOK
  AgentIsCaged
  NoSilentSync
  LoginSurvives
  TrafficIsConfined
SYMMETRY Symmetry
