------------------------- MODULE LifecycleService -------------------------
(***************************************************************************)
(* The runtime control plane: LifecycleService over its in-memory          *)
(* repository, with the cage provider and the Fly machines behind it.      *)
(*                                                                         *)
(* A client is a coroutine serving one HTTP request at a time.  ensure,    *)
(* sleep and destroy run under the project's asyncio.Lock, a FIFO queue    *)
(* whose head holds the lock; get, git and files take no lock.  asyncio    *)
(* switches coroutines only at an await, so the code between two awaits is *)
(* one action: an ensure that calls the provider is the three actions      *)
(* EnsureProvision, Create... and Start..., everything else between the    *)
(* lock and the answer is a single one.                                    *)
(***************************************************************************)
EXTENDS Naturals, Sequences

CONSTANTS Clients,       \* coroutines serving requests
          Projects,      \* project_id keys
          Repos,         \* repositories, whatever the spelling of their URL
          Slashes,       \* whether a repo_url may end in a slash, or must
          Tools,         \* tools a request may name
          AllowedTools,  \* ALLOWED_TOOLS
          Machines,      \* ids Fly can hand out: the bound on machines made
          NoHandle, NoRepo, NoTool

ASSUME ConstantsAssumption ==
  /\ AllowedTools \subseteq Tools
  /\ Slashes \subseteq BOOLEAN
  /\ NoHandle \notin Machines
  /\ NoRepo \notin Repos
  /\ NoTool \notin Tools

VARIABLES
  records,  \* EnvironmentRepository._store, NoRecord where it has no key
  queue,    \* queue[p]: the holder of p's lock and the waiters behind it
  pc,       \* where each coroutine is suspended
  req,      \* the request each coroutine serves, or served last
  machine,  \* FlyProvider.start's local machine_id
  resp,     \* the answer to that request
  fleet     \* Fly's machines (the external service)

vars == <<records, queue, pc, req, machine, resp, fleet>>

----------------------------------------------------------------------------
(* Data.  A repo_url is a repository and whether it ends in a slash.       *)

Urls == [repo : Repos, slash : Slashes]
(* Mutant: the trailing slash is not stripped. *)
KeepSlash(url) == url
NormalizeUrl(url) == url.repo

NoUrl == [repo |-> NoRepo, slash |-> FALSE]

(* phase is "enforcing" exactly while provisioning, and is left out.       *)
EnvironmentRecord ==
  [status : {"provisioning", "ready", "asleep", "destroyed"},
   url : Urls, tool : Tools, connection : Machines \union {NoHandle}]
NoRecord ==
  [status |-> "none", url |-> NoUrl, tool |-> NoTool, connection |-> NoHandle]

FreshRecord(url, tool) ==
  [status |-> "provisioning", url |-> url, tool |-> tool,
   connection |-> NoHandle]

(* Mutant: a record that stops being ready keeps its connection. *)
KeepConnection(record, status, connection) ==
  [record EXCEPT !.status = status,
                 !.connection = IF connection = NoHandle THEN @ ELSE connection]

(* What every write but the first does to a record. *)
Rewrite(record, status, connection) ==
  [record EXCEPT !.status = status, !.connection = connection]

Live(record) == record.status \notin {"none", "destroyed"}

LockedOps == {"sleep", "destroy"}
ReadOps == {"get", "git", "files"}
Requests ==
  [op : {"ensure"}, project : Projects, url : Urls, tool : Tools]
    \union [op : LockedOps \union ReadOps, project : Projects,
            url : {NoUrl}, tool : {NoTool}]

Codes == {"ok", "ERR_TOOL_NOT_ALLOWED", "ERR_REPO_MISMATCH",
          "ERR_ENVIRONMENT_NOT_FOUND", "ERR_ENVIRONMENT_NOT_READY",
          "ERR_PATH_ESCAPE", "ERR_PROVISION_FAILED",
          "ERR_RUNTIME_UNAVAILABLE", "lost"}
Status == {"none", "provisioning", "ready", "asleep", "destroyed"}
Responses == [code : Codes, status : Status,
              connection : Machines \union {NoHandle}]

Error(code) == [code |-> code, status |-> "none", connection |-> NoHandle]
RecordToResponse(record) ==
  [code |-> "ok", status |-> record.status, connection |-> record.connection]
NoResponse == Error("lost")

(* A Fly machine: nothing, created, or started behind the egress wall.     *)
FlyMachine == [state : {"created", "started"}, project : Projects, tool : Tools]
NoMachine == [state |-> "absent"]

(* CageEnforcementProvider: what start raised, as the app-facing code.     *)
Failures == {"ProxyDownError", "CageError", "unexpected"}
(* Mutant: the provider's own error reaches the consumer. *)
LeakFailure(failure) == failure

FailureCode(failure) ==
  IF failure = "CageError" THEN "ERR_PROVISION_FAILED"
                           ELSE "ERR_RUNTIME_UNAVAILABLE"

----------------------------------------------------------------------------
Init ==
  /\ records = [p \in Projects |-> NoRecord]
  /\ queue = [p \in Projects |-> <<>>]
  /\ pc = [c \in Clients |-> "idle"]
  /\ req \in [Clients -> {[op |-> "get", project |-> p, url |-> NoUrl,
                           tool |-> NoTool] : p \in Projects}]
  /\ machine = [c \in Clients |-> NoHandle]
  /\ resp = [c \in Clients |-> NoResponse]
  /\ fleet = [m \in Machines |-> NoMachine]

(* Mutant: every request gets a lock of its own. *)
OwnLock(c) == \E i \in DOMAIN queue[req[c].project] :
                queue[req[c].project][i] = c

Holds(c) ==
  /\ queue[req[c].project] # <<>>
  /\ Head(queue[req[c].project]) = c

(* The coroutine answers without having taken the lock. *)
Reply(c, answer) ==
  /\ pc' = [pc EXCEPT ![c] = "idle"]
  /\ resp' = [resp EXCEPT ![c] = answer]

(* The coroutine answers and leaves the "async with lock" block. *)
Finish(c, answer) ==
  /\ Reply(c, answer)
  /\ machine' = [machine EXCEPT ![c] = NoHandle]
  /\ queue' = [queue EXCEPT ![req[c].project] = Tail(@)]

----------------------------------------------------------------------------
(* Requests arriving.                                                      *)

(* An allowed ensure, a sleep or a destroy queues for the project's lock.  *)
Acquire(c, r) ==
  /\ pc[c] = "idle"
  /\ r.op = "ensure" => r.tool \in AllowedTools
  /\ r.op \in {"ensure"} \union LockedOps
  /\ req' = [req EXCEPT ![c] = r]
  /\ resp' = [resp EXCEPT ![c] = NoResponse]
  /\ queue' = [queue EXCEPT ![r.project] = Append(@, c)]
  /\ pc' = [pc EXCEPT ![c] = "waiting"]
  /\ UNCHANGED <<records, machine, fleet>>

(* ensure refuses a tool off the allowlist before it asks for the lock. *)
RejectTool(c, r) ==
  /\ pc[c] = "idle"
  /\ r.op = "ensure"
  /\ r.tool \notin AllowedTools
  /\ req' = [req EXCEPT ![c] = r]
  /\ Reply(c, Error("ERR_TOOL_NOT_ALLOWED"))
  /\ UNCHANGED <<records, queue, machine, fleet>>

Get(c, r) ==
  /\ pc[c] = "idle"
  /\ r.op = "get"
  /\ req' = [req EXCEPT ![c] = r]
  /\ Reply(c, IF records[r.project] = NoRecord
                THEN Error("ERR_ENVIRONMENT_NOT_FOUND")
                ELSE RecordToResponse(records[r.project]))
  /\ UNCHANGED <<records, queue, machine, fleet>>

(* git and files on an environment that is absent or not ready. *)
RefuseWorkspace(c, r) ==
  /\ pc[c] = "idle"
  /\ r.op \in {"git", "files"}
  /\ records[r.project].status # "ready"
  /\ req' = [req EXCEPT ![c] = r]
  /\ Reply(c, Error(IF records[r.project] = NoRecord
                      THEN "ERR_ENVIRONMENT_NOT_FOUND"
                      ELSE "ERR_ENVIRONMENT_NOT_READY"))
  /\ UNCHANGED <<records, queue, machine, fleet>>

(* list_files answers at once; the path may escape the workspace. *)
ListFiles(c, r) ==
  /\ pc[c] = "idle"
  /\ r.op = "files"
  /\ records[r.project].status = "ready"
  /\ req' = [req EXCEPT ![c] = r]
  /\ \E code \in {"ok", "ERR_PATH_ESCAPE"} : Reply(c, Error(code))
  /\ UNCHANGED <<records, queue, machine, fleet>>

(* get_git_status checks readiness, then awaits its subprocesses. *)
GitStatus(c, r) ==
  /\ pc[c] = "idle"
  /\ r.op = "git"
  /\ records[r.project].status = "ready"
  /\ req' = [req EXCEPT ![c] = r]
  /\ resp' = [resp EXCEPT ![c] = NoResponse]
  /\ pc' = [pc EXCEPT ![c] = "git"]
  /\ UNCHANGED <<records, queue, machine, fleet>>

GitReply(c) ==
  /\ pc[c] = "git"
  /\ Reply(c, Error("ok"))
  /\ UNCHANGED <<records, queue, req, machine, fleet>>

----------------------------------------------------------------------------
(* The lock's holder runs.                                                 *)

(* Mutant: the environment is woken before the repository is compared. *)
WakeThenMismatch(c) ==
  LET p == req[c].project IN
  /\ pc[c] = "waiting" /\ Holds(c) /\ req[c].op = "ensure"
  /\ records[p].status = "asleep"
  /\ NormalizeUrl(records[p].url) # NormalizeUrl(req[c].url)
  /\ records' = [records EXCEPT ![p] = Rewrite(@, "provisioning", NoHandle)]
  /\ Finish(c, Error("ERR_REPO_MISMATCH"))
  /\ UNCHANGED <<req, fleet>>

EnsureMismatch(c) ==
  LET record == records[req[c].project] IN
  /\ pc[c] = "waiting" /\ Holds(c) /\ req[c].op = "ensure"
  /\ Live(record)
  /\ NormalizeUrl(record.url) # NormalizeUrl(req[c].url)
  /\ Finish(c, Error("ERR_REPO_MISMATCH"))
  /\ UNCHANGED <<records, req, fleet>>

EnsureReady(c) ==
  LET record == records[req[c].project] IN
  /\ pc[c] = "waiting" /\ Holds(c) /\ req[c].op = "ensure"
  /\ record.status = "ready"
  /\ NormalizeUrl(record.url) = NormalizeUrl(req[c].url)
  /\ Finish(c, RecordToResponse(record))
  /\ UNCHANGED <<records, req, fleet>>

(* Mutant: the repository of an existing environment is not compared. *)
RebindRepo(c) ==
  LET p == req[c].project IN
  /\ pc[c] = "waiting" /\ Holds(c) /\ req[c].op = "ensure"
  /\ records[p].status # "ready"
  /\ records' = [records EXCEPT ![p] = FreshRecord(req[c].url, req[c].tool)]
  /\ pc' = [pc EXCEPT ![c] = "creating"]
  /\ UNCHANGED <<queue, req, machine, resp, fleet>>

(* A fresh cycle, a wake or a resumed provisioning: the record is brought  *)
(* to provisioning and the provider is asked for this request's workspace. *)
EnsureProvision(c) ==
  LET p == req[c].project
      record == records[p]
  IN
  /\ pc[c] = "waiting" /\ Holds(c) /\ req[c].op = "ensure"
  /\ record.status # "ready"
  /\ Live(record) => NormalizeUrl(record.url) = NormalizeUrl(req[c].url)
  /\ records' =
       [records EXCEPT ![p] =
          IF Live(record)
            THEN Rewrite(record, "provisioning", NoHandle)
            ELSE FreshRecord(req[c].url, req[c].tool)]
  /\ pc' = [pc EXCEPT ![c] = "creating"]
  /\ UNCHANGED <<queue, req, machine, resp, fleet>>

(* Mutant: a machine of the app is adopted, whosever project it serves. *)
AdoptMachine(c, m) ==
  /\ pc[c] = "creating"
  /\ fleet' = [fleet EXCEPT ![m] = [state |-> "created",
                                    project |-> req[c].project,
                                    tool |-> req[c].tool]]
  /\ machine' = [machine EXCEPT ![c] = m]
  /\ pc' = [pc EXCEPT ![c] = "starting"]
  /\ UNCHANGED <<records, queue, req, resp>>

(* POST machines succeeded; the start request goes out. *)
CreateReply(c, m) ==
  /\ pc[c] = "creating"
  /\ fleet[m] = NoMachine
  /\ fleet' = [fleet EXCEPT ![m] = [state |-> "created",
                                    project |-> req[c].project,
                                    tool |-> req[c].tool]]
  /\ machine' = [machine EXCEPT ![c] = m]
  /\ pc' = [pc EXCEPT ![c] = "starting"]
  /\ UNCHANGED <<records, queue, req, resp>>

(* Mutant: an error path answers without leaving the lock. *)
KeepLock(c, failure) ==
  /\ pc[c] = "creating"
  /\ Reply(c, Error(FailureCode(failure)))
  /\ UNCHANGED <<records, queue, req, machine, fleet>>

(* The create call failed: refused, or its answer lost or unusable, in     *)
(* which case the machine may exist all the same.                          *)
CreateFails(c, failure) ==
  /\ pc[c] = "creating"
  /\ \/ UNCHANGED fleet
     \/ \E m \in Machines :
          /\ fleet[m] = NoMachine
          /\ fleet' = [fleet EXCEPT ![m] = [state |-> "created",
                                            project |-> req[c].project,
                                            tool |-> req[c].tool]]
  /\ Finish(c, Error(FailureCode(failure)))
  /\ UNCHANGED <<records, req>>

(* POST start succeeded: EnforcementActive reaches the fail-closed gate,   *)
(* which writes the record it has held since before the provider call.     *)
StartReply(c) ==
  LET p == req[c].project
      ready == Rewrite(records[p], "ready", machine[c])
  IN
  /\ pc[c] = "starting"
  /\ fleet' = [fleet EXCEPT ![machine[c]].state = "started"]
  /\ records' = [records EXCEPT ![p] = ready]
  /\ Finish(c, RecordToResponse(ready))
  /\ UNCHANGED req

(* Mutant: the gate opens although the provider failed. *)
FailOpen(c, failure) ==
  LET p == req[c].project
      ready == Rewrite(records[p], "ready", machine[c])
  IN
  /\ pc[c] = "starting"
  /\ records' = [records EXCEPT ![p] = ready]
  /\ Finish(c, RecordToResponse(ready))
  /\ UNCHANGED <<req, fleet>>

(* The start call failed; on a lost answer the machine may be running. *)
StartFails(c, failure) ==
  /\ pc[c] = "starting"
  /\ \/ UNCHANGED fleet
     \/ fleet' = [fleet EXCEPT ![machine[c]].state = "started"]
  /\ Finish(c, Error(FailureCode(failure)))
  /\ UNCHANGED <<records, req>>

Sleep(c) ==
  LET p == req[c].project
      record == records[p]
      asleep == Rewrite(record, "asleep", NoHandle)
  IN
  /\ pc[c] = "waiting" /\ Holds(c) /\ req[c].op = "sleep"
  /\ \/ /\ record = NoRecord
        /\ Finish(c, Error("ERR_ENVIRONMENT_NOT_FOUND"))
        /\ UNCHANGED records
     \/ /\ record.status \in {"destroyed", "provisioning", "asleep"}
        /\ Finish(c, RecordToResponse(record))
        /\ UNCHANGED records
     \/ /\ record.status = "ready"
        /\ records' = [records EXCEPT ![p] = asleep]
        /\ Finish(c, RecordToResponse(asleep))
  /\ UNCHANGED <<req, fleet>>

(* Mutant: destroy does not wait for the lock. *)
DestroyUnlocked(c) ==
  LET p == req[c].project
      destroyed == Rewrite(records[p], "destroyed", NoHandle)
  IN
  /\ pc[c] = "waiting" /\ req[c].op = "destroy"
  /\ Live(records[p])
  /\ records' = [records EXCEPT ![p] = destroyed]
  /\ queue' = [queue EXCEPT ![p] = SelectSeq(@, LAMBDA b : b # c)]
  /\ Reply(c, RecordToResponse(destroyed))
  /\ UNCHANGED <<req, machine, fleet>>

Destroy(c) ==
  LET p == req[c].project
      record == records[p]
      destroyed == Rewrite(record, "destroyed", NoHandle)
  IN
  /\ pc[c] = "waiting" /\ Holds(c) /\ req[c].op = "destroy"
  /\ \/ /\ record = NoRecord
        /\ Finish(c, Error("ERR_ENVIRONMENT_NOT_FOUND"))
        /\ UNCHANGED records
     \/ /\ record.status = "destroyed"
        /\ Finish(c, RecordToResponse(record))
        /\ UNCHANGED records
     \/ /\ Live(record)
        /\ records' = [records EXCEPT ![p] = destroyed]
        /\ Finish(c, RecordToResponse(destroyed))
  /\ UNCHANGED <<req, fleet>>

(* The server process is replaced: repository, locks and coroutines are    *)
(* gone, Fly's machines are not.                                           *)
Restart ==
  /\ records' = [p \in Projects |-> NoRecord]
  /\ queue' = [p \in Projects |-> <<>>]
  /\ pc' = [c \in Clients |-> "idle"]
  /\ machine' = [c \in Clients |-> NoHandle]
  /\ resp' = [c \in Clients |->
                IF pc[c] = "idle" THEN resp[c] ELSE NoResponse]
  /\ UNCHANGED <<req, fleet>>

----------------------------------------------------------------------------
Arrive(c) ==
  \E r \in Requests :
    \/ Acquire(c, r)
    \/ RejectTool(c, r)
    \/ Get(c, r)
    \/ RefuseWorkspace(c, r)
    \/ ListFiles(c, r)
    \/ GitStatus(c, r)

(* What the event loop runs by itself for a request under the lock. *)
Proceed(c) ==
  \/ EnsureMismatch(c)
  \/ EnsureReady(c)
  \/ EnsureProvision(c)
  \/ \E m \in Machines : CreateReply(c, m)
  \/ StartReply(c)
  \/ \E failure \in Failures : CreateFails(c, failure) \/ StartFails(c, failure)
  \/ Sleep(c)
  \/ Destroy(c)

Next ==
  \/ \E c \in Clients : Arrive(c) \/ GitReply(c) \/ Proceed(c)
  \/ Restart

Spec == Init /\ [][Next]_vars

(* asyncio runs a coroutine whose await has completed, and every provider  *)
(* call completes: httpx gives up after 30 seconds.  The git subprocesses  *)
(* have no timeout, and clients owe nothing.                               *)
Fairness == \A c \in Clients : WF_vars(Proceed(c))

FairSpec == Spec /\ Fairness

----------------------------------------------------------------------------
TypeOK ==
  /\ records \in [Projects -> EnvironmentRecord \union {NoRecord}]
  /\ queue \in [Projects -> Seq(Clients)]
  /\ pc \in [Clients -> {"idle", "waiting", "creating", "starting", "git"}]
  /\ req \in [Clients -> Requests]
  /\ machine \in [Clients -> Machines \union {NoHandle}]
  /\ resp \in [Clients -> Responses]
  /\ fleet \in [Machines -> FlyMachine \union {NoMachine}]

Calling(c) == pc[c] \in {"creating", "starting"}

Undisturbed(c) ==
  LET p == req[c].project IN
  /\ Holds(c)
  /\ records[p].status = "provisioning"
  /\ NormalizeUrl(records[p].url) = NormalizeUrl(req[c].url)
  /\ pc[c] = "starting" =>
       /\ fleet[machine[c]] =
            [state |-> "created", project |-> p, tool |-> req[c].tool]
       /\ \A q \in Projects : records[q].connection # machine[c]

(* The fail-closed gate as a consumer sees it: an answer that says ready   *)
(* names a machine that was made for the consumer's own project and runs   *)
(* behind the wall, however many failures, retries, sleeps, destroys and   *)
(* restarts lie between the answer and now.                                *)
ReadyAnswersAreWalled ==
  \A c \in Clients :
    resp[c].status = "ready" =>
      /\ resp[c].connection \in Machines
      /\ fleet[resp[c].connection].state = "started"
      /\ fleet[resp[c].connection].project = req[c].project

(* What ensure read before awaiting the provider still holds when the      *)
(* answer arrives: the caller holds the lock, the record it will write     *)
(* through the gate is still provisioning and bound to its repository, and *)
(* the machine being started is its own.                                   *)
ProvisioningIsUndisturbed == \A c \in Clients : Calling(c) => Undisturbed(c)

(* Concurrent ensures of one project never have two provider calls out. *)
OneProviderCall ==
  \A b, c \in Clients :
    Calling(b) /\ Calling(c) /\ req[b].project = req[c].project => b = c

(* A live environment keeps its repository: an ensure with another         *)
(* repo.url is refused, and the binding changes only through a destroy.    *)
RepoBindingIsStable ==
  [][\A p \in Projects :
       {records[p].status, records'[p].status}
           \subseteq {"provisioning", "ready", "asleep"} =>
         records'[p].url.repo = records[p].url.repo]_vars

(* "A race never returns two different ready": while an environment stays  *)
(* ready its connection is never replaced.                                 *)
ReadyConnectionIsStable ==
  [][\A p \in Projects :
       records[p].status = "ready" /\ records'[p].status = "ready" =>
         records'[p].connection = records[p].connection]_vars

(* An ensure refused with an error of its own request (repository, tool)   *)
(* leaves environment and fleet as they were; in particular it does not    *)
(* wake a sleeping environment first.                                      *)
RefusalChangesNothing ==
  [][\A c \in Clients :
       resp'[c] # resp[c] /\ resp'[c].code \in {"ERR_REPO_MISMATCH",
                                                "ERR_TOOL_NOT_ALLOWED"} =>
         UNCHANGED <<records, fleet>>]_vars

(* A mismatch is answered only for another repository on a live            *)
(* environment, never for another spelling of the same URL nor for an      *)
(* environment that is gone.                                               *)
MismatchIsGenuine ==
  [][\A c \in Clients :
       resp'[c] # resp[c] /\ resp'[c].code = "ERR_REPO_MISMATCH" =>
         LET record == records[req[c].project] IN
         /\ record.status \in {"provisioning", "ready", "asleep"}
         /\ record.url.repo # req[c].url.repo]_vars

(* The service implements the contract of one environment per project. *)
Contract ==
  INSTANCE EnvironmentContract WITH
    Handles <- Machines,
    status <- [p \in Projects |-> records[p].status],
    handle <- [p \in Projects |-> records[p].connection],
    walls <- {m \in Machines : fleet[m].state = "started"}

ImplementsContract == Contract!Spec

(* The gate at the records: ready means a started machine, and a record    *)
(* that is not ready exposes none.                                         *)
EnvironmentsFailClosed == Contract!FailClosed

(* No two projects are connected to the same machine. *)
WorkspacesAreDisjoint == Contract!HandlesDisjoint

(* Every ensure, sleep or destroy is answered, also behind a provider call *)
(* that fails: no path leaves the lock taken.                              *)
EveryRequestIsAnswered ==
  \A c \in Clients : pc[c] = "waiting" ~> pc[c] = "idle"

(* server/cage/runtime.py: start starts "(or resumes)" the project's        *)
(* workspace, of which there is one.  At most one machine of a project     *)
(* runs.                                                                   *)
OneRunningMachine ==
  \A m, n \in Machines :
    /\ fleet[m].state = "started" /\ fleet[n].state = "started"
    /\ fleet[m].project = fleet[n].project
    => m = n
============================================================================
