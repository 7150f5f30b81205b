---------------------------- MODULE MCDelivery ----------------------------
(***************************************************************************)
(* The delivery graph cut down to a project: the nodes its project-config  *)
(* leaves active.  An inactive node takes part in nothing, so the cut run  *)
(* is the run.                                                             *)
(***************************************************************************)
EXTENDS PipelineRun, GraphCheck, Sequences

CONSTANTS Deploy,         \* has_deploy
          InactiveRoles,  \* active_roles: the roles turned off
          Lightweight,    \* what intake may say of lightweight
          Classes,        \* ... and of class; "unset" leaves it to judgment
          Failing,        \* the nodes that may fail and return
          Advising,       \* the nodes that may fail advisory
          Unsure,         \* the nodes that may fail without naming a target
          Stuck           \* the nodes that may report a BLOCKER

(* A server project without a database and without clients. *)
ServerFlags ==
  [class |-> "unset", has_signature |-> "unset", has_server |-> "true",
   has_db |-> "false", has_ui |-> "false", has_deploy |-> Deploy,
   touches_db |-> "unset", touches_server |-> "unset",
   touches_shared_ui |-> "unset", design_source |-> "unset",
   targets_web |-> "false", targets_mobile |-> "false",
   targets_desktop |-> "false", lightweight |-> "unset"]

ServerNodes ==
  ({"intake", "product", "feasibility", "architecture", "spec-gate", "backend",
    "audit-join", "done"}
     \union {"code-lint", "security", "qa", "performance", "code-quality",
             "spec-audit", "l2-review"}
     \union (IF Deploy = "true"
              THEN {"deploy-approve", "production", "devops", "monitor"} ELSE {}))
  \ InactiveRoles

(* Listed, because TLC computes it anew wherever Nodes is mentioned. *)
ASSUME TheActiveNodes ==
  ServerNodes = {n \in DeliveryNodes \ InactiveRoles :
                   Classify(DeliveryWhen[n], ServerFlags, "none") # "skip"}
ServerEdges ==
  {e \in DeliveryEdges : {e.from, e.to} \subseteq ServerNodes}
On(f) == [n \in ServerNodes |-> f[n]]

ServerInputs == On(DeliveryInputs)
ServerOutputs == On(DeliveryOutputs)
ServerWhen == On(DeliveryWhen)
ServerSkipIf == On(DeliverySkipIf)
ServerCategory == On(DeliveryCategory)
ServerReturns == On(DeliveryReturns)
ServerTypes == UNION {ServerInputs[n] \union ServerOutputs[n] : n \in ServerNodes}

NoFlags == [name \in DOMAIN ServerFlags |-> "unset"]

(* An envelope, derived where it says nothing: all outputs changed. *)
Says(n, outcome) ==
  [outcome |-> outcome, severity |-> "blocking", returns_to |-> NoNode,
   changed |-> ServerOutputs[n], flags |-> NoFlags]

(* What architecture declares. *)
Touching(f) ==
  [f EXCEPT !.touches_db = "false", !.touches_server = "true", !.touches_shared_ui = "false"]

Succeeds(n) ==
  CASE n = "intake" ->
         {[Says(n, "PASS") EXCEPT !.flags = [NoFlags EXCEPT !.class = c,
                                                       !.lightweight = l]] :
            c \in Classes, l \in Lightweight}
    [] n = "architecture" ->
         {[Says(n, "PASS") EXCEPT !.flags = Touching(NoFlags)]}
    [] n = "l2-review" -> {Says(n, "ACK")}
    [] n = "deploy-approve" ->
         {Says(n, outcome) : outcome \in {"APPROVED", "REJECTED", "ACK"}}
    [] OTHER -> {Says(n, "PASS")}

Fails(n) ==
  {[Says(n, "FAIL") EXCEPT !.returns_to = t] :
     t \in IF n \in Failing THEN ServerReturns[n] \cap ServerNodes ELSE {}}

Advises(n) ==
  {[Says(m, "FAIL") EXCEPT !.severity = "advisory"] : m \in Advising \cap {n}}

ServerEnvelopes ==
  [n \in ServerNodes |->
     Succeeds(n) \union Fails(n) \union Advises(n)
       \union {Says(m, "FAIL") : m \in Unsure \cap {n}}
       \union {Says(m, "BLOCKER") : m \in Stuck \cap {n}}]

(* The stages of the stream.  A stage comes after all before it.  Of what  *)
(* runs on a first pass, only devops reads what later nodes produce: the   *)
(* output of gates, and monitor is one.                                    *)
Stages ==
  <<{"intake"}, {"product"}, {"spec-gate"}, {"feasibility"}, {"architecture"},
    {"backend"}, {"code-lint"}, {"qa"}, Auditors, {"audit-join"}, {"l2-review"},
    {"devops"}, {"deploy-approve"}, {"production"}, {"monitor"}, {"done"}>>
Stage == [n \in ServerNodes |-> CHOOSE i \in DOMAIN Stages : n \in Stages[i]]

Settled == ServerNodes \ {"devops", "audit-join", "done"}
After == [n \in ServerNodes |-> {m \in ServerNodes \ {"done"} : Stage[m] > Stage[n]}]
ASSUME DeclaredInOrder == Ordered(Settled, After)

Remaining == [n \in ServerNodes |-> Len(Stages) - Stage[n]]
Asked ==
  {[ServerFlags EXCEPT !.class = c, !.lightweight = l] :
     c \in Classes \union {"unset"}, l \in Lightweight \union {"unset"}}
Flaggings == Asked \union {Touching(f) : f \in Asked}
ASSUME EndsAtTheTerminal == Converges("done", Remaining, Flaggings)

Late == ServerNodes \cap {"monitor"}
ASSUME MonitorIsLast == Closing(Settled, After, Late, "done", Flaggings)

ASSUME NothingIsClosed == Flows("done", Stage, Flaggings)
============================================================================
