\* Liveness, so without symmetry: one project, two spellings of its URL.
SPECIFICATION FairSpec
CONSTANTS
  Clients = {c1, c2}
  Projects = {p1}
  Repos = {r1, r2}
  Slashes = {FALSE, TRUE}
  Tools = {claude}
  AllowedTools = {claude}
  Machines = {m1}
  NoHandle = NoHandle
  NoRepo = NoRepo
  NoTool = NoTool
PROPERTIES
  EveryRequestIsAnswered
  MismatchIsGenuine
