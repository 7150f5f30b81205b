# Dream Team Sandbox in TLA+

The repository holds three programs with state worth verifying. The **runtime
control plane** (`server/runtime/`) is an asyncio service that gives each project
one caged environment on a Fly machine. The **cage** (`server/cage/`) deploys
that machine behind a host policy and boots the agent on it behind two more
walls. The **delivery pipeline engine** (`.agentic/scripts/pipeline/core/`) takes
a change through a graph of agents, gates and human decisions, and keeps the
run's files. This directory models them, model-checks them with TLC on small
instances and proves the main safety results with TLAPS for every value of the
constants.

Paths below are relative to the repository root; `core/` stands for
`.agentic/scripts/pipeline/core/`.

## 1. Inventory

### Runtime control plane

| Component | State | Operations | Correct when |
|---|---|---|---|
| `LifecycleService` (`server/runtime/service.py`) with `EnvironmentRepository` | a record per project in process memory (status, repository, tool, connection); one `asyncio.Lock` per project | `ensure`, `sleep`, `destroy` under the lock; `get_environment`, `git_status`, `list_files` without it | an environment is `ready` only behind a confirmed wall; one environment, one repository, one provider call at a time per project; every request is answered |
| Enforcement providers (`runtime/enforcement/`) | none | `ensure_enforced`: awaits the runtime and translates what it raises | a consumer sees contract codes only |
| `FlyProvider` (`server/cage/providers/fly_provider.py`) | none of its own; Fly's machines | `start` (create, then start), `stop`, `status`, `health` | the machine returned belongs to the project and is started |
| Workspace access (`runtime/workspace.py`) | the checkout on disk | `git_status` (three subprocesses), `list_files` | answers stay inside the workspace |
| Configuration, authentication | constant | | |

The service calls the provider, the provider calls Fly; nothing calls back.
What is hard: coroutines switch at every `await`, so what `ensure` read before
calling the provider may be old when it resumes; a provider call may fail, or
succeed with its answer lost; records live in memory only, so a restart forgets
environments whose machines exist.

### Cage

| Component | State | Operations | Correct when |
|---|---|---|---|
| `cage_deploy` (`cage/deploy`, `policy`, `overlay`) | the lock file with the pinned definition, the rendered ACL, the image, the host policy, the machine | seven steps, any of which aborts | the policy is up before the machine; nothing runs that was neither pinned nor accepted |
| Ruleset and enforcer (`cage/policy/ruleset.py`, `enforcer.py`) | none | `build_ruleset`, `assert_complete`, rendering for Fly | every packet the acceptance criteria name is judged as they say, on every machine that is up |
| Boot (`cage/overlay/entrypoint.sh`) | firewall, proxy, privileges of this boot; `$HOME` of the image; the volume | login on the volume, proxy, firewall, de-root, exec | the agent never runs before its walls, nor as root; a login is kept |

What is hard: a step may have taken effect and be reported as failed; a kill
falls between the truncation and the write of the lock; two people deploy at
once; the app's repository moves meanwhile; the volume outlives the machine and
the root file system may or may not outlive a restart.

### Delivery pipeline

| Component | State | Operations | Correct when |
|---|---|---|---|
| Delivery graph (`.agentic/pipeline/*.yaml`, `core/graph.py`) | constant | node categories, forward and return edges | the checks of `core/check.py` find nothing |
| Graph checks (`core/check.py`) | none | C1 to C17 over graph and prose | they report what is wrong and nothing else |
| Edge conditions (`core/predicate.py`, `vocab.py`) | none | three-valued evaluation, classification into eligible, skip, judgment | |
| Frontier (`core/frontier.py`) | none: computed from the run's state | what is ready, judged, in flight, skipped by policy, over | no node out before its ancestors; never wedged; joins wait for all |
| Run driver (`core/run.py`) | `current-run.md` (see the next row) | `start`, `drive`, `skip`, `resolve-loop`, `done` (delegates) | a run comes to rest; it closes only when everything is done; production needs consent |
| Envelope intake (`core/result.py`) | completed, outcomes, counters, flags, status, frontier, halt gate | five outcome handlers, chosen by outcome and severity | a rejected run stays stopped; a finding goes back to the node that must fix it |
| Versions (`core/runstate.py`, `frontier.py`) | epoch, type versions, node versions | `stamp`, `uncomplete`, the staleness test | a node counts as stale exactly when an input changed after it ran |
| Recovery (`core/resilience.py`, `common.py`) | ledgers, snapshot | `repair`, `checkpoint`, `restore` | the rebuilt run is the run that was lost |
| Wave closing (`core/statewrite.py`, `ledger.py`) | the block in `STATE.md`, summaries | the hook at the terminal, `backfill` | no closed wave is lost, no link dangles |
| Node commits (`core/nodecommit.py`, `run.sh`) | working tree, index, the wave's baseline | a commit after every node | what was dirty before the wave is never swept |
| Status, composition, guardrails, prompts | files | read-only or one-shot tools | |

An orchestrator (a person or an agent) calls `drive`, hands the nodes it prints
to agents and people, and passes their envelopes to `done`. The only state
between two calls is on disk. What is hard: several nodes are in flight at once
and answer in any order; a return pulls back a node that somebody is still
working on; gates rewrite types that later nodes read; counters, halts,
rejections and blockers all share one `status` and one `note`; commands are
processes without a lock that may overlap or be killed between an append to the
ledger and a replacement of the state; the operator works in the same tree.

`PROJECT.json` lists every component with what is left out of it, and every
hazard at its line with the property that covers it, or why none does.

## 2. Modules

    EnvironmentContract <--refines-- LifecycleService <-- MCLifecycle
                                            ^
                                  LifecycleServiceProofs

    EgressPolicy <-- CageDeploy <--+
                                   +-- Cage <-- MCCage
                     CageBoot <----+     ^
                                    CageProofs

    Freshness <--refines-- EpochStamps <-- MCEpochStamps
        ^                       ^
        |                 EpochStampsProofs
    PipelineRun <-- MCDelivery --> GraphCheck --> DeliveryGraph
        |   ^                                          |
        |   PipelineRunProofs                          |
        +---------------> Predicates <-----------------+

    RunFiles <-- MCRunFiles          NodeCommits <-- MCNodeCommits
        ^                                 ^
    RunFilesProofs                   NodeCommitsProofs

    WaveRecords <-- MCWaves
        ^
    WaveRecordsProofs

| Module | Models |
|---|---|
| `EnvironmentContract` | what consumers may rely on: the state machine of one environment per project and the fail-closed gate; no requests, locks or machines |
| `LifecycleService` | the service, its locks, the cage provider, Fly's machines and a restart |
| `EgressPolicy` | the ruleset H1 to H7, its completeness test, its rendering and what Fly decides by it |
| `CageDeploy`, `CageBoot`, `Cage` | `cage-deploy` and what it leaves behind; `entrypoint.sh` on the machine; both together, where the next deploy replaces a machine that runs |
| `Predicates` | conditions as the parser yields them, in disjunctive form, with their evaluation and classification |
| `DeliveryGraph` | `delivery.yaml` with the types of `artifacts.yaml`: nodes, categories, inputs, outputs, conditions, edges, returns |
| `GraphCheck` | the checks of `core/check.py` that read the graph |
| `Freshness` | incremental rebuild as the frontier sees it: fresh until an input changes |
| `EpochStamps` | the version numbers that decide it in the code |
| `PipelineRun` | `drive`, `done`, `skip`, `resolve-loop` over the run's state, with the agents and people who answer; parameterised by the graph |
| `RunFiles` | the files that state is kept in and the processes that read, write, restore and rebuild them |
| `NodeCommits` | commit on done: flag, baseline, index and tree |
| `WaveRecords` | the block of closed waves: the hook at the terminal and `backfill` |
| `*Proofs` | the theorems about the module they extend |
| `MC*` | instances for TLC: symmetry, the cut graph, the envelopes agents may send |

### LifecycleService against the code

* A client is a coroutine serving one request at a time. asyncio switches only
  at an `await`, so the code between two awaits is one action. `ensure` with a
  provider call is `Acquire`, `EnsureProvision`, `CreateReply`/`CreateFails`,
  `StartReply`/`StartFails`; everything else between taking the lock and the
  answer is one action. `get_lock` and an uncontended `acquire` do not suspend.
* `queue[p]` is the project's lock: its head holds it, the rest wait in the
  order they came (`asyncio.Lock` is FIFO).
* `phase` is a function of the status and is left out. A URL is a repository and
  whether it ends in a slash, since `_normalize_url` strips it.
* Fly is external: creating and starting are two requests, each of which may
  fail before it took effect, after it (the answer is lost), or with an answer
  the provider cannot use. The classification of what is raised into
  `ERR_PROVISION_FAILED` and `ERR_RUNTIME_UNAVAILABLE` is the provider's.
* `Restart` loses records, locks and the requests being served; machines stay.
* `FlyProvider.stop`, `status` and `health` have no caller in the service, the
  development provider replays a table without awaiting, and `healthz` reads no
  state: none of them is modelled.

### Cage against the code

* An invocation of `cage-deploy` is a step counter. Between two steps, and
  between the truncation and the write of the lock file (`Torn`), it may be
  killed and others may move. `check_drift` pins on the first deploy and with
  `--accept-drift`, and aborts otherwise; a torn lock reads as no pin.
* The lints and the team name are decided by what they look for (an
  `[http_service]` section that is not commented out, a secret, a credential; the
  number of labels), never by the text itself. The runners for build, deploy and
  smoke test and the Fly API are injected into the code and external: each may
  fail, and the API and the deploy also after they have taken effect.
* `EgressPolicy` abstracts a packet to direction, service and the networks of its
  far end; one in none of them is the public internet. The default resolver lies
  inside the range that H5 drops, so the order of the list is what makes names
  resolvable. What the rules are for is not read off the rules but off the
  acceptance criteria (`acceptance/containment-cage.md`, items 1a-1e, 2d, 7a).
* `CageBoot` follows `entrypoint.sh` top to bottom. Every step but the last may
  end the boot (`cage_abort`); a restart clears what lives in memory and may or
  may not reset the root file system; a deploy that replaces the machine brings a
  fresh one. Login is written through `$HOME/.claude`, a link to the volume if
  nothing of that name was there.
* `accepted`, `mishap` and `loggedIn` are history: what was pinned first or
  accepted, whether a lock was seen torn or the app moved under a deploy, and
  whether a login was ever written to the volume.

### PipelineRun against the code

* `Drive` is one pass of `drive`'s loop. Each pass writes the state file, so a
  `drive` that is killed between two passes is simply called again. Its
  disjuncts are the rungs of the ladder in `run.py:262-389`, each guarded by the
  failure of the ones above it.
* `Compute` is `Frontier.compute`: the dependencies that count (`ActiveDeps`),
  the completed nodes that still hold (`ValidCompleted`), what policy skips, and
  the kinds of the open nodes. The code strikes completed nodes off until nothing
  changes; what is left, in whatever order, is the greatest set that supports
  itself, which is how the model says it.
* `Done` is `advance_state`: the return target is resolved, the node (and the
  target of a blocking return) leaves the frontier, flags are merged, then one
  of the five handlers applies. `Answer` is an envelope from whoever was given
  the node; `Decide` and `Skip` are the orchestrator's reply to what `drive`
  asked it.
* `working[n]` counts the agents or people at work on `n`; the code has no such
  field. A return takes `n` out of the frontier but does not stop its agent,
  and a later `drive` hands `n` out again: then two are at work.
* Version numbers are replaced by `Freshness`, a finite abstraction that
  `EpochStamps` is shown to implement.
* Conditions are evaluated against the node they leave and the flags known at
  that moment; `Predicates` translates And, Or, Not and each atom's verdict.
* Left out: `active_node`, `awaiting_human`, payloads, findings and model hints,
  none of which a later call decides by. Files, processes and commits are the
  business of `RunFiles` and `NodeCommits`. A failure names one of its node's
  return targets, where the code accepts any node. `skip` is modelled for the
  nodes `drive` asks about, not as a free override.

`MCDelivery` keeps the nodes that the project configuration leaves active (a
server project without clients or database) and the edges between them. A node
whose `when` is decided false by the configuration takes part in nothing: its
edges are not waited for and it is never ready, so the cut run is the run.
`NodeReturns` is left whole, because a node's single return target is counted
over the whole graph.

The hypotheses of the theorems of section 4 are named assumptions, evaluated for
this graph: `ApprovalAssumption` in `PipelineRun`, and in `MCDelivery`

* `DeclaredInOrder`: who declares a flag comes before the nodes whose edges hang
  on it;
* `EndsAtTheTerminal`: whatever was declared, there is a way on from every node
  that takes part, and it leads to `done`;
* `MonitorIsLast`: of the nodes that run, only `devops` reads what a later one
  (`monitor`) produces, and behind `monitor` there is only `done`, open after a
  pass and shut after an advisory failure;
* `NothingIsClosed`: forward edges form no cycle, every node that takes part has a
  way in, and no edge is closed by a node that has passed. What completes a node
  without a pass (an advisory failure, a `BLOCKER`, an acknowledgement) may close
  one, and is in the model.

`GraphCheck` states C2, C3, C5 to C9, C11, C12, C16 and C17 as operators over
the whole graph, with the depth-first search of C17 as the code has it. Two
named assumptions are evaluated whenever `MCDelivery` is: `ShippedGraphIsSound`
(the graph in the repository passes) and `CycleGuardIsExact` (for all 512 graphs
of three nodes the search returns a closed walk along edges exactly if there is a
cycle). C1, C4, C10 and C13 to C15 read prose, file names and the spelling of
conditions.

### RunFiles against the code

* Each command is a process: it reads the state once, replaces the file
  atomically (`common.py`), takes no lock and may be killed between any two of
  its accesses. `done` appends to the ledger (`append_ledger`), reads
  (`advance_state`, first disjunct) and writes (second); `drive` reads once and
  writes its copy after each advance of its own, takes a snapshot before it hands
  out, and writes again; `skip` and `resolve-loop` read and write; `repair`
  replays a ledger into a fresh state and writes it.
* A state is abstracted to its run, the envelopes it has absorbed, in order, and
  whether it holds effects that no envelope carries (`own`: a skip, a loop reset,
  a completion by the engine). `PipelineRun` is what those effects are.
* `mishaps` is history since the last start or repair: `overlap`, `restore`,
  `repair`, and `parted` for what else takes state and ledger apart: a killed
  `done`, an envelope of another run, a run id used twice.

### NodeCommits against the code

* A path is dirty or clean, staged or not. `FlagFor` is `run.sh`: the flag is
  turned on for `done` and `drive` only, unless the shell has set it.
* `commit_node` writes the state, then stages what is dirty and not in the
  baseline and commits the whole index; either git call may fail.
* `foreign` (dirty when the wave started) and `lost` (the baseline is no longer
  start's) are history. The operator edits, stages and commits in the same tree.

### WaveRecords against the code

* `Terminal` is `drive` at the end of a run: the status is written before the
  hook, which gets the state that `drive` holds. `on_terminal` tries the summary,
  `record_closed_wave` upserts the record into the text it has read. `backfill`
  finds closed waves in the ledgers (`BackfillScans`), then reads the file
  (`BackfillReads`), for one wave after the other, oldest write first, tries the
  summary where there is none and upserts its record into its copy
  (`BackfillUpserts`).
* Both then open, write and rename the same `STATE.md.tmp` (`Opens`, `Writes`,
  `Replaces`). Opening empties it, also under the other; a file that the other
  has renamed while it was open is written where it then is. Either may be killed
  or fail at any step (`HookEnds`, `BackfillEnds`). `start`, `done`, `repair` go
  on all the while.
* `generate_summary` may fail on any ledger (it cannot be rendered or written)
  and does without one: `on_terminal` and `_ensure_summary` warn and go on. The
  model keeps, as history, whose last attempt `failed`, because
  `statewrite.py:331-332` accepts a link that leads nowhere in just that case.
* A record is its run and whether its `wave_base` is known; a ledger its last
  entry and its place in the order of writes.
* Simplified: one hook and one backfill at a time, and a backfill scans all
  ledgers at once.

## 3. What TLC checks

Every property of a passing run has a mutant in `PROJECT.json`: one definition
changed the way a bug would change it, which TLC refutes under the same
configuration.

| Run | Instance | Properties | Distinct states |
|---|---|---|---|
| `lifecycle` | 2 clients, 2 projects, 2 repositories, 2 tools of which 1 is allowed, 2 machines | types, walled ready answers, fail-closed records, disjoint workspaces, undisturbed provisioning, one provider call, stable repository, stable connection, refusals without effect, refinement of `EnvironmentContract` | 206,816 |
| `lifecycle_answers` | 2 clients, 1 project, 2 repositories in 2 spellings, 1 machine; fairness | every locked request is answered, mismatches are genuine | 39,116 |
| `delivery` | a deploying server project, 17 nodes, two auditors side by side, at most 2 returns from 4 gates, advisory failures of 6, a bare failure, a blocker, approvals, rejections, the lightweight lane, the class left to judgment | types, nobody awaited in vain, no halt for ever, stalls only behind an answer that is no pass, consent before production; on a first pass: ancestors done, complete and idle when closed, nothing handed out twice | 181,829 |
| `delivery_rest` | the server graph without deploy, at most 3 returns, a blocker, fairness | the run comes to rest | 1,393 |
| `epoch_stamps` | 3 nodes, 2 types, 5 epochs | nothing ahead of the epoch, refinement of `Freshness` | 5,160 |
| `cage` | 2 overlapping deploys, 2 definitions, any number of boots | types, the agent is caged, no silent sync, a login survives, the traffic is confined | 451,230 |
| `files` | 2 processes, 2 runs, 3 envelopes, 2 ledger entries before overlaps end | types, nothing unrecorded, the state is its ledger, updates are lost by overlap only | 549,144 |
| `waves` | 3 waves, a block of 2, ledgers from before, 2 commands, a failing summary | types, links lead, records go by overflow or overlap only, backfill keeps `wave_base`, backfill recovers | 2,494,261 |

**Lifecycle bounds.** Two coroutines are the holder of a lock and one that waits
and overtakes whatever the holder has read; the theorems of section 4 hold for
any number. Two machines let a retry or a wake make a second one; when Fly has
none left, creating can only fail, which is also what a quota does. The symmetry
used is over clients, machines, projects and repositories, in runs that check no
liveness.

**Pipeline bounds.** `MaxReturns` bounds the returns counted in a run; a reset
of a counter makes room again. Two returns let one gate return twice, or a second
gate return while the first return is being redone; three reach the threshold at
which a counter blocks the run, and its reset. Three auditors that would only
multiply the interleavings are turned off, and at least one stays: a project that
turns all of them off leaves the join without a live input, so it never opens and
the run stalls at `audit-join` (a hazard on the list, without a property).
`NeverStalls` speaks of runs in which nothing was skipped and the first-pass
properties of runs in which nothing was returned: skipping a node that only
judgment opened leaves its product missing for good, by the orchestrator's
choice. Every gate of the instance but one auditor may answer with an advisory
failure; behind `spec-gate`, `feasibility`, `code-lint`, `qa` and `monitor` it
wedges the run, and so does a `BLOCKER` of `backend` once the run goes on.
`NeverStalls` says that nothing else does. An advisory failure of `monitor`
leaves the terminal shut while `devops`, stale by what `monitor` wrote, goes out
again: `FirstPassRunsOnce` excludes that one answer (`NoLateFinding`), and both
are findings below.

**Cage bounds.** Two deploys overlap at every pair of steps; two definitions are
the pinned one and the one the app has moved to, and `Broken` is neither. The
ruleset is checked on all packets the rules distinguish.

**File bounds.** Two processes are enough for one to lose the other's update.
`MaxEntries` bounds the ledgers; once it is reached, commands run one at a time,
so the state after the last overlap is still explored. Two runs let an envelope
arrive for another run than the current one and a repair rebuild an old one.

**Wave bounds.** Three waves overflow a block of two, and bring back one that was
pushed out; `KEEP_N` is a parameter (ten in the code). Any of the three may have a
ledger from before there was a block, in any order, which then ends closed
(`OldEntries`); on top come two of `start`, `done` and `repair` (`MaxCommands`):
two waves meet the hook, or one is closed twice, and a ledger is closed or
reopened while a backfill is under way. One ledger at a time may fail to give a
summary (`MaxFailed`); those of runs without a ledger fail besides. The number of
backfills, hooks and kills is not bounded.

**Deadlock** is checked for the lifecycle, the cage and the files. The pipeline,
the epochs and the waves do end: a run closes or is blocked, and the bound on
epochs or commands is reached.

### Fairness

* Lifecycle (`FairSpec`): `WF(Proceed(c))` for each coroutine. asyncio resumes a
  coroutine whose await has completed, and every call to Fly completes because
  httpx gives up after 30 seconds. Clients owe no request, and nothing is assumed
  of the git subprocesses, which have no timeout: `EveryRequestIsAnswered` is
  about the operations that wait for the lock.
* Pipeline (`FairSpec`): `WF(Drive)`, since the orchestrator's loop is to call
  `drive` after every `done`, and `WF` of each agent's answer, since an invoked
  subagent returns. People at gates owe no answer, and nobody has to decide what
  `drive` asks; `ComesToRest` therefore counts such a wait as rest.
* The cage, the files, the commits and the waves are driven by people and
  killed at will: nothing is owed, and they are checked for safety only.

### Findings

Four runs look for a disagreement between the repository's own words and its
code, and find one each.

| Run | What happens |
|---|---|
| `lifecycle_one_machine` | start always creates: after a lost answer, or a wake, two machines of one project run |
| `delivery_reflow` | qa returns to architecture; code-lint's inputs did not change, so qa goes out again at once, passes, and the wave closes while architecture is being redone |
| `delivery_rejection` | a rejection blocks the run, and the next envelope of another node in flight sets it going again |
| `commits_baseline` | `run.sh` turns commit-on-done on for `done` and `drive` but not for `start`, so no baseline is captured and the first node commit sweeps what was dirty before the wave (`nodecommit.py:18` says never) |

Four more are what the properties of passing runs have to except, or a theorem
proves:

| Run | What happens |
|---|---|
| `delivery` (`NeverStalls`) | an advisory failure behind which there is only an edge for a pass (`spec-gate`, `code-lint`, `qa`, ...), or the `BLOCKER` of a node once the run goes on, completes the node and opens nothing: the run is wedged |
| `delivery` (`FirstPassRunsOnce`) | an advisory failure of `monitor` shuts the terminal and makes `devops` stale, which is handed out again with nothing returned |
| `cage` (`TrafficIsConfined`, `AppIsShutOut`) | H7 denies all that comes in, the private network too, over which the app is to reach the workspace |
| `waves` (`LostOnlyByOverflow`) | the hook and a backfill share `STATE.md.tmp`: one opens, and so empties, what the other is about to rename to `STATE.md` |

Met while modelling, and stated by no run:

* An ensure that wakes or resumes an environment with another tool starts that
  tool, and the record keeps reporting the first one (`runtime.openapi.yaml:248`).
* A verdict about old code, answered after a return, is stamped with the newest
  epoch and counts as fresh, where `flow.md:254-255` says a late completion does
  not revive a stale node.
* By the contract the proxy process gets out through H1
  (`contracts/containment-cage.md:39-40`), and acceptance item 2a reaches an
  allowed domain by way of it. H1 allows the loopback address only, so a
  connection of the proxy's own to the public internet is H6's, like everybody
  else's. Whether Fly applies a policy per process is not the repository's to say
  (a spike the code leaves open), so this is no finding.
* `backfill` orders waves by the last write of their ledgers, where
  `statewrite.py:350` speaks of the time they were closed: a late entry moves a
  wave to the end.
* The rendered ACL is made readable by root only and the proxy is started as
  another user (`entrypoint.sh:86-91`); `StartProxy` may fail for any reason, so
  the model covers the boot that ends there.

## 4. What TLAPS proves

**LifecycleServiceProofs**, for every set of clients, projects, repositories,
tools and machines, from `ConstantsAssumption` (the "none" values are not
members):

* `TypeCorrect`, `NoStaleEnsure`, `FailClosedGate`, `EnsuresAreSerialized`,
  `ReadyIsWalled`, `NoSharedMachine`; the action properties `RepositoryIsBound`,
  `ConnectionIsBound`, `RefusalIsPure`, `MismatchIsReal`; and
  `ContractImplemented`: the service refines `EnvironmentContract`.
* The inductive invariant is `TypeOK`, `CallsAreEnsures` (who calls the provider
  serves an ensure), `ProvisioningIsUndisturbed` (the caller holds the lock and
  its record is still the one it read), `RecordsAreWalled` (a ready record's
  machine is started and its project's) and `ReadyAnswersAreWalled`. None of the
  last three is inductive alone: the gate writes a ready record from a machine
  the coroutine remembers, so the machine must have been kept its own across the
  await, which holds because the lock was.
* The action properties rest on `RecordsKept`, what a step may make of a record,
  for which the gate must be known to be reached from provisioning only, and on
  `NextRefuses`, the two steps that may answer a refusal.

**PipelineRunProofs**, for every graph, project configuration and set of
well-formed envelopes:

* `RunTypeCorrect`, `NobodyIsAwaitedInVain` (`InflightIsWorked`) and
  `NoHaltIsForEver` (`HaltIsAnswered`). Together they are inductive: only a
  dispatch adds to the frontier or raises the halt, and it adds a worker; an
  answer takes a worker away, its node out of the frontier and its halt down.
* `NothingGoesUnapproved` (`ConsentBeforeProduction`), from `ApprovalAssumption`:
  the approver needs no input and nothing returns to it, so its completion never
  goes stale and its outcome is never taken back to be asked for again; what is
  approved has no other way in. The strengthening (`Stance`) says that an approver
  is at work exactly while it is in flight, that one that is done is fresh, not
  out again and has its outcome, and that only a done one has approved.
* `AncestorsComeFirst` (`AncestorsDone`), for every graph that is `Ordered`. A
  flag declared late could add an edge in front of a node that is already out,
  and an input produced late could make a done node stale under one that is out.
  `Ordered` rules out both: for each node in `settled` there is a region
  (`after`) that nothing enters but by way of that node, and what declares the
  flags an edge hangs on, or an input of the node, comes before it. The
  invariant (`InOrder`) is `AncestorsDone`, also for skipped nodes, together with:
  while a settled node is not done or skipped, nothing of its region is out, done
  or skipped; a settled node that is done is not out and still counts; a node is
  worked on, by one, exactly while it is in flight. `CountersAreNoted` ties the first pass to `note`, so that a pass with a
  return behind it never becomes a first pass again.
* `SettledRunOnce`: in those graphs no settled node is handed out a second time on
  a first pass.
* `ClosesComplete` (`FirstPassClosesComplete`), for a graph that also `Converges`:
  from each node that takes part there is an edge to one nearer to the terminal,
  whatever was declared. Of the nodes left out take the one with the fewest steps
  to go; the node it leads to is done, and by `AncestorsDone` so is it. The choice
  is `LeastNatural`, the least element of a set of numbers, from the library's
  well-foundedness of `<`: the induction over numbers that needs no operator as a
  parameter.

* `RunsOnce` (`FirstPassRunsOnce`) and `ClosesIdle` (`FirstPassClosesIdle`), for a
  graph that is also `Closing`. `SettledRunOnce` leaves the nodes that read what
  comes after them: a gate makes such a node stale, and `drive` would hand it out
  again if it turned to workers before the terminal. `Closing` says who can do
  that: the late nodes, each of which, where it takes part, is the only way into
  the terminal, opened by a pass and shut by an advisory failure. The invariant
  `OnceOnly` has two parts, until a late node completes with a finding and the
  terminal is `Shut` for the rest of the pass. `Current`:
  until a late node is done, what is not settled is fresh. `Quiet`: what is in
  flight is not done and takes part, and the terminal is done only in a run that is
  over, with nothing in flight. So when a node goes stale the terminal is ready
  (`LateIsLast`), nobody is asked before `drive` has seen to it, and by
  `NothingLeftOut` all else that takes part is done by then.
* `StreamNeverDries` (`NeverStalls`), for a graph that `Flows`, on every pass and not
  only the first. Of the nodes that take part and do not count as done take the
  one of least rank (`LeastNatural` again). All it waits for counts as done, and so
  has one of its node's outcomes; unless one of these is no pass they close no edge,
  and the node is in flight or offered. That what counts
  as done has such an outcome is the invariant `Poised`, and the case that needs
  care is a node that balks, one that may answer `REJECTED` or a bare `FAIL`: that
  overwrites the outcome of a node and leaves it completed. Nothing returns to
  these, so one that is completed and at work is stale, and what it then refuses
  does not count. With two agents on one, left behind by a return, the second
  could refuse what the first had finished, and the run could stall.

The shipped graph satisfies all these hypotheses: TLC evaluates them in the
`delivery` runs.

**EpochStampsProofs**, for every set of nodes, types and inputs: `NoVersionAhead`,
and `VersionsDecideFreshness`: comparing epochs implements `Freshness`. The key
lemma (`BehindAfter`) says that after a write of newer versions a node is behind
exactly if it was before or reads what was written; it needs `NothingAhead`,
without which the new epoch might not be newer.

**CageProofs**, for any number of deploys and any definitions, from
`DefsAssumption` (the markers are no definitions): `CageTypeCorrect`,
`AlwaysCaged`, `NeverSyncedSilently`, `LoginIsKept`. The invariant has a part for
the walls (the policy is up from the step that raised it on, and each stage of a
boot has the walls of the stages before it), one for the pins (whatever is on its
way to the machine, in the lock, in an invocation or in the image, is accepted,
or there was a mishap) and one for the login (the link is there only with a
volume the agent owns). Two more join the rules to the deploy, since wherever there is a
machine it is these rules that are in force: `MachineIsConfined`
(`TrafficIsConfined`), and `AppIsShutOut`, the finding about H7: nothing is let
in, from the private network neither. Both rest on the lemma `ThreeRulesAllow`:
whatever networks its far end is in, what H1 to H3 are about gets out and
nothing else passes.

**RunFilesProofs**, for any number of commands, runs and envelopes:

* `FilesTypeCorrect` and `LedgerIsComplete`, from the invariant `TypeOK`,
  `LedgersAreSorted`, `AppendedFirst` (a done that is about to write has its
  envelope in the ledger) and `NothingUnrecorded`.
* `StateIsItsLedger` and `UpdatesAreKept`, from that invariant with `OneAtATime`
  (where nothing overlapped, one command runs, its copy is the file, and what
  repair is about to write is a whole ledger) and `OneAhead` (where nothing parted
  them, a done leaves the ledger one envelope ahead of the state, its own).

**NodeCommitsProofs**, for every set of paths: `CommitTypeCorrect`, and
`BaselineProtects`: with the flag set for the whole session (where
`commits_baseline` has it unset) nothing foreign is swept but what somebody had
staged, from the invariant `Covered` that the baseline covers what is foreign.

**WaveRecordsProofs**, for any number of waves and any `KEEP_N` above zero:
`OneRecordPerWave` (`TypeOK`), `LinksAlwaysLead` (`LinksLead`), `NoOtherLoss`
(`LostOnlyByOverflow`), `BaseIsKept` (`BackfillKeepsBase`), `LostWavesComeBack`
(`BackfillRecovers`). The lemmas say what one upsert does to a block: it keeps
the runs apart and at most `KEEP_N`, adds the record, and drops one only if the
block is full afterwards. The invariant follows every copy, the temporary file
included. `LinksInv`: whatever is in the block or may get there has a summary or a
failed attempt at one. `CopyInv`: unless a writer's copy is full, it holds all that
was read. `FillInv`: that of a backfill, unless it is full, also holds every wave
found and not still to be taken up, and keeps each `wave_base` that it was read
with. None of this mentions the ledgers or the block as they are now, so it
stands whatever happens to them between the scan and the write.

Only model-checked:

* Liveness (`EveryRequestIsAnswered`, `ComesToRest`), which is out of the prover's
  reach.
* `GraphCheck`, which declares RECURSIVE operators and is used by TLC's runs only.

## 5. Not modelled, and why

* Configuration and authentication, `status`, composition tools, command
  guardrails and scans, prompts and templates: no state that two steps could
  disagree on, or text matching.
* Parsing and formatting of conditions, URLs, paths, porcelain output, ledgers
  and summaries: functions of text. They appear as what the parser yields.
* git answers that are stale when they arrive: the code accepts them and no
  document promises otherwise.
* The rules inside `nftables.cage.conf`, the proxy's own decisions and what
  becomes of the proxy after the boot: the substrate's, not the repository's
  state.
* The facts inside a wave's record (loop counts, times, costs), and edits of
  `STATE.md` by hand between the engine's read and its write.
* Checks C1, C4, C10 and C13 to C15, which read prose and file names.

Simplified where a step of the code is several accesses:

* `check_drift` reads app definition and pin in one step; the code reads the
  files of the definition one after the other and then the pin (`drift.py:89-90`),
  so a hash may also mix two definitions.
* A boot that ends while it hands the volume to the agent (`entrypoint.sh:52-58`)
  leaves no partial ownership behind: the next boot starts from what there was.
* An append to a ledger is one step, and two commands that write
  `current-run.md` at once are ordered by their renames: a torn append, and the
  shared `current-run.md.tmp`, are not modelled. What overlapping commands do to
  one another is excepted from `LostOnlyByOverlap` either way.
* In `delivery_rest` nobody answers with a bare failure. The code counts no
  returns for these, so a node that never stops to answer so has the run go on
  for ever, and nothing in the code ends that.

## 6. What is left

1. What each agent was handed and when, so that a late verdict about old code
   can be stated as a property of `PipelineRun`.
2. A project without auditors, where `audit-join` never opens.
3. `PipelineRun` under `RunFiles`: the abstraction of a state to the envelopes it
   has absorbed, as a refinement.
4. `StreamNeverDries` for runs in which the caller skipped a node: what its
   successors then wait for, and which skips leave a way on.
