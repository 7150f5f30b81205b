---------------------------- MODULE PipelineRun ----------------------------
(***************************************************************************)
(* One run of the delivery stream: run.py drive computes the frontier and  *)
(* hands out nodes, result.py takes the envelopes that come back, and the  *)
(* only state between two calls is current-run.md.                         *)
(*                                                                         *)
(* An orchestrator calls the two in any order it likes; agents and people  *)
(* answer in any order they like.  Each pass of drive's loop writes the    *)
(* file, so a pass is a step, and a drive that is killed between two of    *)
(* them is simply called again.                                            *)
(***************************************************************************)
EXTENDS Predicates, Functions, Freshness

CONSTANTS
  Entry, NoNode,
  NodeOutputs,
  NodeWhen, NodeSkipIf,             \* conditions
  DriveCategory,                    \* ROUTER, WORKER, JOIN, TERMINAL, ..._GATE
  ForwardEdges, NodeReturns,
  ProjectFlags,                     \* project-config.md: a value for every flag
  Envelopes,                        \* the envelopes a node may send
  MaxReturns                        \* the bound on returns counted in a run

ASSUME InputsAssumption == NodeInputs \in [Nodes -> SUBSET Types]

(* The edges a return can be counted on. *)
ReturnEdges == {edge \in Nodes \X Nodes : edge[2] \in NodeReturns[edge[1]]}

ASSUME GraphAssumption ==
  /\ Entry \in Nodes
  /\ NoNode \notin Nodes
  /\ NodeOutputs \in [Nodes -> SUBSET Types]
  /\ MaxReturns \in Nat

Results == {"PASS", "FAIL", "APPROVED", "REJECTED", "ACK", "PENDING", "DONE",
            "BLOCKER"}
FlagValues == {"unset", "true", "false", "feature", "bugfix", "improvement",
               "author", "intake", "derive"}

ASSUME FlagsAssumption ==
  ProjectFlags \in [DOMAIN ProjectFlags -> FlagValues]

(* A failure names one of its node's return targets, or none; a flag that  *)
(* is not declared is "unset".                                             *)
EnvelopesOf(n) ==
  [outcome: Results,
   severity: {"blocking", "advisory"},
   returns_to: (NodeReturns[n] \cap Nodes) \union {NoNode},
   changed: SUBSET Types,
   flags: [DOMAIN ProjectFlags -> FlagValues]]

ASSUME EnvelopesAssumption ==
  \A n \in Nodes : \A env \in Envelopes[n] : env \in EnvelopesOf(n)

VARIABLES
  status, note,   \* note: which of the handlers wrote it
  frontier,       \* the nodes handed out
  halt_gate,
  completed, outcomes, skipped,
  counters,       \* returns by edge
  flags,          \* the project's, overridden by what envelopes declared
  working         \* how many agents or people are at work on a node

vars == <<status, note, frontier, halt_gate, completed, outcomes, skipped,
          counters, flags, version, working>>

Init ==
  /\ status = "in_progress" /\ note = "none"
  /\ frontier = {} /\ halt_gate = NoNode
  /\ completed = {} /\ outcomes = [n \in Nodes |-> "none"] /\ skipped = {}
  /\ counters = [edge \in ReturnEdges |-> 0]
  /\ flags = ProjectFlags
  /\ Unversioned
  /\ working = [n \in Nodes |-> 0]

----------------------------------------------------------------------------
(* The frontier.                                                           *)

ActiveWith(n, f) == Classify(NodeWhen[n], f, "none") # "skip"
Active(n) == ActiveWith(n, flags)

(* Mutant: what is still in flight is not waited for. *)
DepsAtRest ==
  {e \in ForwardEdges :
     /\ StructuralLive(e.when, flags)
     /\ e.from \notin skipped \union frontier
     /\ Active(e.from)}

(* The edges that are waited for: forward, not ruled out by the flags, from *)
(* a node that takes part.                                                 *)
ActiveDeps ==
  {e \in ForwardEdges :
     /\ StructuralLive(e.when, flags)
     /\ e.from \notin skipped
     /\ Active(e.from)}

To(n, deps) == {e \in deps : e.to = n}

SkipHolds(n) == Classify(NodeSkipIf[n], flags, "none") = "eligible"

(* A completed node counts by itself when policy skipped it, or when its   *)
(* inputs have not moved on since it ran.                                  *)
Stands(n) == SkipHolds(n) \/ version[n] = "fresh"

(* One without a version (a join, the terminal) leans on what it waited    *)
(* for.  What does not count is struck off until nothing changes, in any   *)
(* order: what is left is the greatest set that supports itself.           *)
ValidCompleted(deps) ==
  LET standing == {n \in completed : Stands(n)}
      leaning == {n \in completed \ standing : version[n] = "none"}
      Supported(S) ==
        \A n \in S : \A e \in To(n, deps) : e.from \in standing \union S
  IN  standing \union UNION {S \in SUBSET leaning : Supported(S)}

EdgeClass(e) == Classify(e.when, flags, outcomes[e.from])

(* Mutant: an edge counts as soon as its source has run. *)
ReadyWhateverTheOutcome(n, done, deps) ==
  IF To(n, deps) = {} THEN IF n = Entry THEN "ready" ELSE "none"
  ELSE IF \E e \in To(n, deps) : e.from \notin done THEN "waiting"
  ELSE "ready"

ReadyKind(n, done, deps) ==
  IF To(n, deps) = {} THEN IF n = Entry THEN "ready" ELSE "none"
  ELSE IF \E e \in To(n, deps) : e.from \notin done \/ EdgeClass(e) = "skip"
    THEN "waiting"
  ELSE IF \E e \in To(n, deps) : EdgeClass(e) = "judgment" THEN "judgment"
  ELSE "ready"

(* Mutant: policy skips a node before anything has reached it. *)
SkipAtOnce(valid, deps) ==
  {n \in Nodes \ (valid \union frontier \union skipped) : SkipHolds(n)}

AutoSkip(valid, deps) ==
  {n \in Nodes \ (valid \union frontier \union skipped) :
     SkipHolds(n) /\ ReadyKind(n, valid, deps) = "ready"}

Buckets(deps, valid, auto_skip) ==
  LET done == valid \union auto_skip
      open == {n \in Nodes \ (done \union frontier \union skipped) : Active(n)}
      Kind(kind) == {n \in open : ReadyKind(n, done, deps) = kind}
  IN  [auto_skip |-> auto_skip,
       ready |-> Kind("ready"),
       judgment |-> Kind("judgment"),
       inflight |-> frontier \ valid,
       terminal_reached |-> \E n \in done : DriveCategory[n] = "TERMINAL"]

Compute ==
  LET deps == ActiveDeps
      valid == ValidCompleted(deps)
  IN  Buckets(deps, valid, AutoSkip(valid, deps))

ReadyOf(j, categories) == {n \in j.ready : DriveCategory[n] \in categories}

----------------------------------------------------------------------------
(* drive: the first of these that applies.                                 *)

(* Mutant: every node the engine completes gets the terminal's outcome. *)
AdvanceAsDone(nodes, outcome) ==
  /\ completed' = completed \union nodes
  /\ outcomes' = [n \in Nodes |-> IF n \in nodes THEN "DONE" ELSE outcomes[n]]
  /\ UNCHANGED <<note, frontier, halt_gate, skipped, counters, flags, version,
                 working>>

(* The engine completes nodes by itself; they get no version. *)
Advance(nodes, outcome) ==
  /\ completed' = completed \union nodes
  /\ outcomes' = [n \in Nodes |-> IF n \in nodes THEN outcome ELSE outcomes[n]]
  /\ UNCHANGED <<note, frontier, halt_gate, skipped, counters, flags, version,
                 working>>

(* These are handed out: somebody starts to work on each. *)
Dispatch(nodes) ==
  /\ frontier' = frontier \union nodes
  /\ working' = [n \in Nodes |-> working[n] + IF n \in nodes THEN 1 ELSE 0]
  /\ UNCHANGED <<status, note, completed, outcomes, skipped, counters, flags,
                 version>>

SkipByPolicy(j) ==
  /\ j.auto_skip # {}
  /\ Advance(j.auto_skip, "PASS")
  /\ UNCHANGED status

Join(j) ==
  /\ j.auto_skip = {}
  /\ ReadyOf(j, {"JOIN"}) # {}
  /\ Advance(ReadyOf(j, {"JOIN"}), "PASS")
  /\ UNCHANGED status

Finish(j) ==
  /\ j.auto_skip = {} /\ ReadyOf(j, {"JOIN"}) = {}
  /\ \E n \in ReadyOf(j, {"TERMINAL"}) : Advance({n}, "DONE")
  /\ status' = "done"

Halt(j) ==
  /\ j.auto_skip = {} /\ ReadyOf(j, {"JOIN", "TERMINAL"}) = {}
  /\ \E g \in ReadyOf(j, {"BLOCKING_GATE"}) :
       /\ Dispatch({g})
       /\ halt_gate' = g

Workers == {"WORKER", "FREE_GATE"}

(* Mutant: workers go out before the run is closed. *)
HandOutFirst(j) ==
  /\ j.auto_skip = {}
  /\ ReadyOf(j, {"JOIN", "BLOCKING_GATE"}) = {}
  /\ ReadyOf(j, Workers) # {}
  /\ Dispatch(ReadyOf(j, Workers))
  /\ UNCHANGED halt_gate

HandOut(j) ==
  /\ j.auto_skip = {}
  /\ ReadyOf(j, {"JOIN", "TERMINAL", "BLOCKING_GATE"}) = {}
  /\ ReadyOf(j, Workers) # {}
  /\ Dispatch(ReadyOf(j, Workers))
  /\ UNCHANGED halt_gate

Idle(j) == j.auto_skip = {} /\ j.ready \subseteq ReadyOf(j, {"ROUTER"})

Close(j) ==
  /\ Idle(j)
  /\ j.ready = {} /\ j.judgment = {} /\ j.inflight = {}
  /\ j.terminal_reached
  /\ status' = "done"
  /\ Advance({}, "DONE")

(* drive goes no further while a blocking gate is unanswered. *)
Running == status = "in_progress" /\ halt_gate = NoNode

(* Bound by a quantifier, so that the frontier is computed once. *)
Drive ==
  /\ Running
  /\ \E j \in {Compute} :
       \/ SkipByPolicy(j)
       \/ Join(j)
       \/ Finish(j)
       \/ Halt(j)
       \/ HandOut(j)
       \/ Close(j)

(* What drive asks its caller to decide: a router's class, or whether to   *)
(* run a node whose edge is a matter of judgment.                          *)
ToDecide ==
  UNION {IF ~ (Running /\ Idle(j)) THEN {}
         ELSE IF j.ready # {} THEN j.ready ELSE j.judgment : j \in {Compute}}

----------------------------------------------------------------------------
(* done: an envelope arrives.                                              *)

(* Mutant: the answered node stays in flight. *)
ReceiveKeepingInflight(n, env) ==
  /\ frontier' = frontier
  /\ halt_gate' = IF halt_gate = n THEN NoNode ELSE halt_gate
  /\ working' = [working EXCEPT ![n] = IF @ = 0 THEN 0 ELSE @ - 1]
  /\ UNCHANGED skipped

(* Mutant: the halt outlives the answer. *)
ReceiveKeepingHalt(n, env) ==
  /\ frontier' = frontier \ {n, IF env.outcome = "FAIL"
                                     /\ env.severity = "blocking"
                                  THEN env.returns_to ELSE n}
  /\ halt_gate' = halt_gate
  /\ working' = [working EXCEPT ![n] = IF @ = 0 THEN 0 ELSE @ - 1]
  /\ UNCHANGED skipped

(* What advance_state does before it looks at the outcome.  A return takes *)
(* its target out of the frontier too.                                     *)
Receive(n, env) ==
  /\ frontier' = frontier \ {n, IF env.outcome = "FAIL"
                                     /\ env.severity = "blocking"
                                  THEN env.returns_to ELSE n}
  /\ halt_gate' = IF halt_gate = n THEN NoNode ELSE halt_gate
  /\ working' = [working EXCEPT ![n] = IF @ = 0 THEN 0 ELSE @ - 1]
  /\ UNCHANGED skipped

(* A failure without a target goes to the node's only return target. *)
Resolved(n, env) ==
  IF /\ env.outcome = "FAIL" /\ env.returns_to = NoNode
     /\ \E t \in Nodes : NodeReturns[n] = {t}
    THEN [env EXCEPT !.returns_to = CHOOSE t \in Nodes : NodeReturns[n] = {t}]
    ELSE env

Merged(f, declared) ==
  [name \in DOMAIN f |-> IF declared[name] # "unset" THEN declared[name] ELSE f[name]]
MergeFlags(env) == flags' = Merged(flags, env.flags)

(* Mutant: what the finding points at is completed, not who found it. *)
AdvisoryFailOfTarget(n, env) ==
  /\ env.outcome = "FAIL" /\ env.severity = "advisory"
  /\ completed' = completed \union {env.returns_to}
  /\ outcomes' = [outcomes EXCEPT ![n] = "FAIL"]
  /\ Stamp(n, env.changed)
  /\ status' = "in_progress"
  /\ UNCHANGED <<note, counters>>

AdvisoryFail(n, env) ==
  /\ env.outcome = "FAIL" /\ env.severity = "advisory"
  /\ completed' = completed \union {n}
  /\ outcomes' = [outcomes EXCEPT ![n] = "FAIL"]
  /\ Stamp(n, env.changed)
  /\ status' = "in_progress"
  /\ UNCHANGED <<note, counters>>

(* MaxReturns bounds the returns of a run. *)
TotalReturns == FoldFunction(+, 0, counters)

ReturnFail(n, env) ==
  LET target == env.returns_to
      edge == <<n, target>>
  IN
  /\ env.outcome = "FAIL" /\ env.severity = "blocking" /\ target # NoNode
  /\ TotalReturns < MaxReturns
  /\ completed' = completed \ {target}
  /\ outcomes' = [outcomes EXCEPT ![target] = "none"]
  /\ Invalidate(target, NodeOutputs[target])
  /\ counters' = [counters EXCEPT ![edge] = @ + 1]
  /\ IF counters[edge] + 1 >= 3
       THEN status' = "blocked" /\ note' = "counter"
       ELSE status' = "in_progress" /\ UNCHANGED note

BareFail(n, env) ==
  /\ env.outcome = "FAIL" /\ env.severity = "blocking"
  /\ env.returns_to = NoNode
  /\ outcomes' = [outcomes EXCEPT ![n] = "FAIL"]
  /\ status' = "in_progress"
  /\ UNCHANGED <<note, completed, counters, version>>

Rejected(n, env) ==
  /\ env.outcome = "REJECTED"
  /\ outcomes' = [outcomes EXCEPT ![n] = "REJECTED"]
  /\ status' = "blocked" /\ note' = "rejected"
  /\ UNCHANGED <<completed, counters, version>>

Completion(n, env) ==
  /\ env.outcome \notin {"FAIL", "REJECTED"}
  /\ completed' = completed \union {n}
  /\ outcomes' = [outcomes EXCEPT ![n] = env.outcome]
  /\ Stamp(n, env.changed)
  /\ IF env.outcome = "BLOCKER"
       THEN status' = "blocked" /\ note' = "blocker"
       ELSE status' = "in_progress" /\ UNCHANGED note
  /\ UNCHANGED counters

Done(n, envelope) ==
  LET env == Resolved(n, envelope) IN
  /\ Receive(n, env)
  /\ MergeFlags(env)
  /\ \/ AdvisoryFail(n, env)
     \/ ReturnFail(n, env)
     \/ BareFail(n, env)
     \/ Rejected(n, env)
     \/ Completion(n, env)

(* Whoever was given the node answers. *)
Answer(n) ==
  /\ working[n] > 0
  /\ \E env \in Envelopes[n] : Done(n, env)

(* The orchestrator decides what drive asked it to. *)
Decide(n) == \E env \in Envelopes[n] : Done(n, env)

Skip(n) ==
  /\ DriveCategory[n] # "ROUTER"
  /\ skipped' = skipped \union {n}
  /\ frontier' = frontier \ {n}
  /\ UNCHANGED <<status, note, halt_gate, completed, outcomes, counters, flags,
                 version, working>>

ResolveLoop(edge) ==
  /\ counters[edge] >= 3
  /\ note # "rejected"
  /\ counters' = [counters EXCEPT ![edge] = 0]
  /\ IF status = "blocked"
       THEN status' = "in_progress" /\ note' = "resolved"
       ELSE UNCHANGED <<status, note>>
  /\ UNCHANGED <<frontier, halt_gate, completed, outcomes, skipped, flags,
                 version, working>>

Next ==
  \/ Drive
  \/ \E n \in Nodes : Answer(n)
  \/ \E n \in ToDecide : Decide(n) \/ Skip(n)
  \/ \E edge \in ReturnEdges : ResolveLoop(edge)

Spec == Init /\ [][Next]_vars

(* run.py drive is called again after every answer, and an agent that was  *)
(* handed a node answers.  People owe nothing, and nobody has to decide.   *)
IsAgent(n) == DriveCategory[n] = "WORKER"

Fairness ==
  /\ WF_vars(Drive)
  /\ \A n \in Nodes : WF_vars(IsAgent(n) /\ Answer(n))

FairSpec == Spec /\ Fairness

----------------------------------------------------------------------------
(* The edges that wait for a person's approval, and what the graph promises *)
(* of them: the approver is no node of the engine's own, needs no input,    *)
(* and nothing is returned or left to policy there; what is approved has no *)
(* other way in.                                                            *)
ApprovalEdges == {e \in ForwardEdges : e.when = All({Outcome("APPROVED")})}

ASSUME ApprovalAssumption ==
  \A e \in ApprovalEdges :
    /\ {e.from, e.to} \subseteq Nodes /\ e.to # Entry
    /\ \A other \in ForwardEdges : other.to = e.to => other = e
    /\ DriveCategory[e.from] \notin {"JOIN", "TERMINAL"}
    /\ NodeInputs[e.from] = {} /\ NodeSkipIf[e.from] = {}
    /\ \A n \in Nodes : e.from \notin NodeReturns[n]

(* The order of the stream, as far as the first pass leans on it.  A node   *)
(* comes after d when nothing leads to it but by way of d: by each of the  *)
(* edges into it, or by one that is always waited for.                     *)
Downstream(d, region) ==
  /\ region \subseteq Nodes \ {Entry, d}
  /\ \A n \in region :
       \/ \A e \in To(n, ForwardEdges) : e.from \in region \union {d}
       \/ \E e \in To(n, ForwardEdges) :
            e.from \in region \union {d} /\ e.when = Always /\ NodeWhen[e.from] = Always

(* The flags a condition hangs on, and those an envelope of n may declare. *)
Reads(condition) ==
  LET named == {literal.name : literal \in {l \in UNION condition :
                                              l.kind \notin {"outcome", "text"}}}
  IN  named \union {Capability[name] : name \in named \cap DOMAIN Capability}
EdgeReads(e) == Reads(e.when) \union Reads(NodeWhen[e.from])
Declared(n) ==
  {name \in DOMAIN ProjectFlags : \E env \in Envelopes[n] : env.flags[name] # "unset"}

(* n produces an input of d, or declares a flag policy may skip d by.      *)
Informs(n, d) ==
  \/ \E env \in Envelopes[n] : env.changed \cap NodeInputs[d] # {}
  \/ Declared(n) \cap Reads(NodeSkipIf[d]) # {}

(* Who declares a flag comes before the nodes whose edges hang on it, and  *)
(* after all that could make it run again; and so do those, in their turn. *)
Ordered(settled, after) ==
  /\ settled \subseteq Nodes
  /\ \A d \in settled :
       /\ Downstream(d, after[d]) /\ DriveCategory[d] \notin {"JOIN", "TERMINAL"}
       /\ \A n \in Nodes : Informs(n, d) => n \in settled /\ d \in after[n]
       /\ Reads(NodeSkipIf[d]) \subseteq DOMAIN ProjectFlags
  /\ \A n \in Nodes : Declared(n) # {} => n \in settled
  /\ \A e \in ForwardEdges :
       /\ EdgeReads(e) \subseteq DOMAIN ProjectFlags
       /\ \A n \in Nodes : EdgeReads(e) \cap Declared(n) # {} => e.to \in after[n]

(* All that the flags may become. *)
Possible(flaggings) ==
  /\ ProjectFlags \in flaggings
  /\ \A f \in flaggings, n \in Nodes : \A env \in Envelopes[n] :
       Merged(f, env.flags) \in flaggings

(* Whatever was declared, the way on from every node that takes part leads *)
(* nearer to the terminal.                                                 *)
Converges(terminal, remaining, flaggings) ==
  /\ \A n \in Nodes : DriveCategory[n] = "TERMINAL" => n = terminal
  /\ remaining \in [Nodes -> Nat]
  /\ Possible(flaggings)
  /\ \A f \in flaggings : \A n \in Nodes \ {terminal} :
       ActiveWith(n, f) =>
         \E e \in ForwardEdges :
           /\ e.from = n /\ StructuralLive(e.when, f)
           /\ e.to \in Nodes /\ ActiveWith(e.to, f) /\ remaining[e.to] < remaining[n]

(* What n may answer and be done, and what of that is a pass.              *)
Completing(n) ==
  {env.outcome : env \in {answer \in Envelopes[n] :
     /\ answer.outcome # "REJECTED"
     /\ answer.outcome = "FAIL" => answer.severity = "advisory"}}
Passing(n) == Completing(n) \ {"BLOCKER", "FAIL"}

(* Where n takes part it is the only way into the terminal: open once n    *)
(* has passed, and shut by an advisory failure.                            *)
Ends(n, terminal, f) ==
  LET live == {e \in To(terminal, ForwardEdges) :
                 StructuralLive(e.when, f) /\ ActiveWith(e.from, f)}
  IN  ActiveWith(n, f) =>
        /\ ActiveWith(terminal, f)
        /\ {e.from : e \in live} = {n}
        /\ \A e \in live, outcome \in Passing(n) : Classify(e.when, f, outcome) = "eligible"
        /\ \A e \in live : Classify(e.when, f, "FAIL") = "skip"

(* What is not settled is informed by what comes before it, or by the late *)
(* nodes, and those end the run.  Flags come before the nodes they turn    *)
(* off, and nobody is asked whether to run the terminal.                   *)
Closing(settled, after, late, terminal, flaggings) ==
  /\ terminal \in Nodes /\ DriveCategory[terminal] = "TERMINAL"
  /\ late \subseteq settled
  /\ \A n \in late \union (Nodes \ settled) : NodeSkipIf[n] = {}
  /\ \A n \in Nodes, u \in Nodes \ settled :
       DriveCategory[u] \notin {"JOIN", "TERMINAL"} /\ Informs(n, u) =>
         n \in late \/ (n \in settled /\ u \in after[n])
  /\ \A u \in Nodes :
       /\ Reads(NodeWhen[u]) \subseteq DOMAIN ProjectFlags
       /\ \A n \in Nodes : Declared(n) \cap Reads(NodeWhen[u]) # {} => u \in after[n]
  /\ \A f \in flaggings :
       /\ \A n \in late : Ends(n, terminal, f)
       /\ \A e \in To(terminal, ForwardEdges), outcome \in Results :
            Classify(e.when, f, outcome) # "judgment"

(* The outcomes of nodes that are done, the engine's own included.         *)
Standing(n) ==
  Completing(n)
    \union {outcome \in {"PASS"} : DriveCategory[n] = "JOIN" \/ NodeSkipIf[n] # {}}
    \union {outcome \in {"DONE"} : DriveCategory[n] = "TERMINAL"}

(* n may answer something that neither completes it nor goes back.         *)
Balks(n) ==
  \E env \in Envelopes[n] :
    \/ env.outcome = "REJECTED"
    \/ /\ env.outcome = "FAIL" /\ env.severity = "blocking"
       /\ Resolved(n, env).returns_to = NoNode

(* A node that answered with one of these is completed and has not passed: *)
(* an advisory finding, a BLOCKER, an acknowledgement, a gate left open.   *)
WithoutPassing == {"FAIL", "BLOCKER", "ACK", "PENDING"}

(* Forward edges form no cycle, there is a way into every node that takes  *)
(* part, and whoever has passed closes no edge.  Nothing is returned to a  *)
(* node that balks, so that nobody else is at work on it when it does.     *)
Flows(terminal, rank, flaggings) ==
  /\ terminal \in Nodes /\ DriveCategory[terminal] = "TERMINAL"
  /\ rank \in [Nodes -> Nat]
  /\ \A e \in ForwardEdges : {e.from, e.to} \subseteq Nodes /\ rank[e.from] < rank[e.to]
  /\ \A n \in Nodes : Balks(n) =>
       /\ DriveCategory[n] \notin {"JOIN", "TERMINAL"} /\ NodeSkipIf[n] = {}
       /\ \A m \in Nodes : n \notin NodeReturns[m]
  /\ Possible(flaggings)
  /\ \A f \in flaggings :
       /\ ActiveWith(terminal, f)
       /\ \A n \in Nodes \ {Entry} : ActiveWith(n, f) =>
            \E e \in To(n, ForwardEdges) : StructuralLive(e.when, f) /\ ActiveWith(e.from, f)
       /\ \A e \in ForwardEdges : StructuralLive(e.when, f) =>
            \A outcome \in Standing(e.from) \ WithoutPassing :
              Classify(e.when, f, outcome) # "skip"

TypeOK ==
  /\ status \in {"in_progress", "blocked", "done"}
  /\ note \in {"none", "counter", "rejected", "blocker", "resolved"}
  /\ frontier \subseteq Nodes
  /\ halt_gate \in Nodes \union {NoNode}
  /\ completed \subseteq Nodes
  /\ outcomes \in [Nodes -> Results \union {"none"}]
  /\ skipped \subseteq Nodes
  /\ counters \in [ReturnEdges -> Nat]
  /\ flags \in [DOMAIN ProjectFlags -> FlagValues]
  /\ version \in [Nodes -> {"none", "fresh", "stale"}]
  /\ working \in [Nodes -> Nat]

(* drive says INFLIGHT and waits for the nodes in flight: somebody is at   *)
(* work on each of them, also after returns have pulled nodes back that    *)
(* agents were still busy with.  Otherwise the wait never ends.            *)
InflightIsWorked == \A n \in frontier : working[n] > 0

(* delivery.yaml, deploy-approve: production is deployed on an explicit    *)
(* human approval and on nothing else, whatever was answered, retried,     *)
(* skipped, returned or declared before: no opt-out.                       *)
ConsentBeforeProduction ==
  \A e \in ApprovalEdges :
    e.to \in frontier \union completed \/ working[e.to] > 0 =>
      outcomes[e.from] = "APPROVED"

(* drive halts for a blocking gate until it is answered: somebody is there *)
(* to answer it, also after returns and rejections.  Otherwise the run     *)
(* stands still for ever.                                                  *)
HaltIsAnswered == halt_gate # NoNode => working[halt_gate] > 0

(* drive finds something to hand out, to ask or to wait for, or the end. *)
GoesOn ==
  \A j \in {Compute} :
    \/ j.auto_skip # {} \/ j.ready # {} \/ j.judgment # {} \/ j.inflight # {}
    \/ j.terminal_reached

(* run.py:383, "graf drhne": when drive finds itself with nothing to do and *)
(* nobody to wait for before the run is over, and nobody skipped a node,   *)
(* then it waits for an edge that a completed node has shut by an answer   *)
(* that is not a pass.  Nothing else dries the graph up: no return, late   *)
(* flag, refusal or answer given twice.  flow.md:245 promises more, that   *)
(* an advisory finding lets the run go on.                                 *)
NeverStalls ==
  Running /\ skipped = {} /\ ~ GoesOn =>
    \E e \in ActiveDeps :
      e.from \in completed /\ outcomes[e.from] \in WithoutPassing /\ EdgeClass(e) = "skip"

(* No return was counted so far (a reset of a counter needs three). *)
FirstPass == note = "none" /\ \A edge \in ReturnEdges : counters[edge] = 0

(* While nothing was returned, a node is handed out only when all of its   *)
(* ancestors are done: what a node waits for, and what they waited for.    *)
AncestorsDone ==
  FirstPass =>
    \A e \in ActiveDeps :
      e.to \in completed \union frontier => e.from \in completed

(* The gate that leads into the terminal has not completed with a finding. *)
NoLateFinding ==
  \A e \in ForwardEdges :
    DriveCategory[e.to] = "TERMINAL" /\ e.from \in completed => outcomes[e.from] # "FAIL"

(* While nothing was returned, no node is handed out a second time after   *)
(* it completed, although gates keep producing inputs of later nodes: what *)
(* monitor makes stale is overtaken by the terminal.  After an advisory    *)
(* finding of monitor the terminal stays shut, and devops does go out again. *)
FirstPassRunsOnce ==
  [][FirstPass /\ NoLateFinding => completed \cap (frontier' \ frontier) = {}]_vars

(* A run that closes without a return leaves nothing out: every node that  *)
(* takes part is done, but those the caller decided to skip.               *)
FirstPassClosesComplete ==
  status = "done" /\ FirstPass =>
    \A n \in Nodes : Active(n) => n \in completed \union skipped

(* Nor does it leave an agent at work.                                     *)
FirstPassClosesIdle ==
  status = "done" /\ FirstPass => \A n \in Nodes : working[n] = 0

(* Under fairness the run does not spin: again and again it is over,       *)
(* blocked, or in the hands of a person.                                   *)
ComesToRest ==
  []<>(\/ status \in {"done", "blocked"}
       \/ ToDecide # {}
       \/ \E n \in Nodes : ~ IsAgent(n) /\ working[n] > 0)

(* frontier.py, _valid_completed: what a returned node produced is         *)
(* invalidated so that its consumers "run again BEFORE the wave closes".   *)
(* No run closes while a node it was returned to is still to be redone.    *)
ReflowBeforeClose ==
  status = "done" =>
    \A edge \in ReturnEdges : counters[edge] > 0 => edge[2] \in completed

(* flow.md: after REJECTED the run is stopped.  Only an operator's edit    *)
(* could let it go on; nothing an agent still sends does.                  *)
RejectionHalts ==
  [][status = "blocked" /\ note = "rejected" => status' = "blocked"]_vars
============================================================================
