\* Two projects, two coroutines: the race on one lock, and two projects at once.
SPECIFICATION Spec
CONSTANTS
  Clients = {c1, c2}
  Projects = {p1, p2}
  Repos = {r1, r2}
  Slashes = {FALSE}
  Tools = {claude, vim}
  AllowedTools = {claude}
  Machines = {m1, m2}
  NoHandle = NoHandle
  NoRepo = NoRepo
  NoTool = NoTool
SYMMETRY Symmetry
INVARIANTS
  TypeOK
  ReadyAnswersAreWalled
  EnvironmentsFailClosed
  WorkspacesAreDisjoint
  ProvisioningIsUndisturbed
  OneProviderCall
PROPERTIES
  ImplementsContract
  RepoBindingIsStable
  ReadyConnectionIsStable
  RefusalChangesNothing
