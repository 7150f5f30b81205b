SPECIFICATION Spec
CONSTANTS
  Clients = {c1, c2}
  Projects = {p1}
  Repos = {r1}
  Slashes = {FALSE}
  Tools = {claude, aider}
  AllowedTools = {claude, aider}
  Machines = {m1, m2}
  NoHandle = NoHandle
  NoRepo = NoRepo
  NoTool = NoTool
INVARIANT OneRunningMachine
