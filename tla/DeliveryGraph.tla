--------------------------- MODULE DeliveryGraph ---------------------------
(***************************************************************************)
(* delivery.yaml: the nodes of the delivery stream with their artifact     *)
(* types, and the edges between them.                                      *)
(***************************************************************************)
EXTENDS Predicates, TLC

Clients == {"web", "mobile", "desktop"}
CodeOwners == Clients \union {"backend"}

(* How drive treats a node: by its type, a human gate by "blocking".       *)
DeliveryCategory ==
  [n \in {"intake"} |-> "ROUTER"] @@
  [n \in {"product", "ux-design", "architecture", "db-schema", "ui-system",
          "devops", "production"} \union CodeOwners |-> "WORKER"] @@
  [n \in {"spec-gate", "feasibility", "code-lint", "qa", "performance",
          "spec-audit", "security", "code-quality", "design-audit",
          "monitor"} |-> "WORKER"] @@
  [n \in {"design-intake", "l2-review"} |-> "FREE_GATE"] @@
  [n \in {"deploy-approve"} |-> "BLOCKING_GATE"] @@
  [n \in {"audit-join"} |-> "JOIN"] @@
  [n \in {"done"} |-> "TERMINAL"]

DeliveryNodes == DOMAIN DeliveryCategory

(* artifacts.yaml: the abstract type "code" stands for its subtypes.       *)
ServerCode == {"server-code"}
ClientCode == {"web-code", "mobile-code", "desktop-code"}
Code == {"code"} \union ServerCode \union ClientCode

DeliveryInputs ==
  "intake" :> {"issue"} @@
  "product" :> {"backlog-item"} @@
  "spec-gate" :> {"spec", "acceptance"} @@
  "feasibility" :> {"spec"} @@
  "ux-design" :> {"spec"} @@
  "architecture" :> {"spec", "acceptance"} @@
  "db-schema" :> {"contract", "spec"} @@
  "ui-system" :> {"spec", "mockup", "design-manual"} @@
  "backend" :> {"contract", "reuse-decision", "migrations"} @@
  [n \in Clients |-> {"contract", "mockup", "ui-components"}] @@
  "code-lint" :> Code @@
  "qa" :> {"acceptance"} \union ServerCode \union ClientCode @@
  "performance" :> {"acceptance"} \union Code @@
  "spec-audit" :> {"spec", "acceptance", "contract"} @@
  "security" :> {"contract"} \union Code @@
  "code-quality" :> Code @@
  "design-audit" :> {"mockup", "design-manual", "screenshot"} @@
  "devops" :> {"gate-output"} \union Code @@
  [n \in DeliveryNodes |-> {}]

DeliveryOutputs ==
  "product" :> {"spec", "acceptance", "has_ui"} @@
  "ux-design" :> {"mockup"} @@
  "architecture" :> {"contract", "error-codes", "reuse-decision"} @@
  "db-schema" :> {"db-schema", "migrations"} @@
  "ui-system" :> {"ui-components", "design-manual"} @@
  "backend" :> ServerCode \union {"unit-tests"} @@
  "web" :> {"web-code", "unit-tests"} @@
  "mobile" :> {"mobile-code", "unit-tests"} @@
  "desktop" :> {"desktop-code", "unit-tests"} @@
  "devops" :> {"build", "staging-deploy"} @@
  "production" :> {"production-deploy"} @@
  [n \in {"spec-gate", "feasibility", "code-lint", "qa", "performance",
          "spec-audit", "security", "code-quality", "design-audit",
          "monitor"} |-> {"gate-output"}] @@
  [n \in DeliveryNodes |-> {}]

----------------------------------------------------------------------------
(* Conditions. *)
TouchesDb == {Flag("has_db"), Flag("touches_db")}
TouchesServer == {Flag("has_server"), Flag("touches_server")}
Deploys == All({Flag("has_deploy")})

DeliveryWhen ==
  "design-intake" :> All({Flag("has_ui"), Equals("design_source", "intake")}) @@
  "ux-design" :> {{Flag("has_ui"), Equals("design_source", "author")},
                  {Flag("has_ui"), Equals("design_source", "intake")}} @@
  "db-schema" :> All(TouchesDb) @@
  "ui-system" :> All({Flag("has_ui"), Flag("touches_shared_ui")}) @@
  "backend" :> All(TouchesServer) @@
  "web" :> All({Flag("targets_web"), Flag("has_ui")}) @@
  "mobile" :> All({Flag("targets_mobile"), Flag("has_ui")}) @@
  "desktop" :> All({Flag("targets_desktop"), Flag("has_ui")}) @@
  "design-audit" :> All({Flag("has_ui")}) @@
  [n \in {"devops", "deploy-approve", "production", "monitor"} |-> Deploys] @@
  [n \in DeliveryNodes |-> Always]

(* No condition is written as the empty set: the node is never skipped.    *)
DeliverySkipIf ==
  [n \in {"feasibility", "architecture"} |-> All({Flag("lightweight")})] @@
  [n \in DeliveryNodes |-> {}]

Edge(from, to, when) == [from |-> from, to |-> to, when |-> when]
FanOut(from, targets, when) == {Edge(from, to, when) : to \in targets}
FanIn(sources, to, when) == {Edge(from, to, when) : from \in sources}

Passed == All({Outcome("PASS")})
Auditors == {"performance", "spec-audit", "security", "code-quality",
             "design-audit"}

(* The edges whose kind is not return. *)
DeliveryEdges ==
  {Edge("intake", "product",
        {{Class("feature")}, {Class("improvement")},
         {Class("bugfix"), Not(Signature)}}),
   Edge("product", "spec-gate", Always),
   Edge("spec-gate", "feasibility", Passed),
   Edge("feasibility", "architecture", Passed),
   Edge("feasibility", "ux-design",
        All({Outcome("PASS"), Flag("has_ui"), Equals("design_source", "author")})),
   Edge("feasibility", "design-intake",
        All({Outcome("PASS"), Flag("has_ui"), Equals("design_source", "intake")})),
   Edge("feasibility", "ui-system",
        All({Outcome("PASS"), Flag("has_ui"), Equals("design_source", "derive")})),
   Edge("design-intake", "ux-design", Always),
   Edge("architecture", "db-schema", All(TouchesDb)),
   Edge("architecture", "backend",
        {TouchesServer \union {Not(literal)} : literal \in TouchesDb}),
   Edge("db-schema", "backend", All(TouchesServer)),
   Edge("ux-design", "ui-system", All({FreeText})),
   Edge("code-lint", "qa", Passed),
   Edge("audit-join", "l2-review", Always),
   Edge("l2-review", "devops", Deploys),
   Edge("l2-review", "done", All({Not(Flag("has_deploy"))})),
   Edge("devops", "deploy-approve", Always),
   Edge("deploy-approve", "production", All({Outcome("APPROVED")})),
   Edge("production", "monitor", Always),
   Edge("monitor", "done", Passed)}
  \union FanOut("ui-system", Clients, Always)
  \union FanOut("architecture", Clients, Always)
  \union FanIn(CodeOwners, "code-lint", Passed)
  \union FanOut("qa", Auditors, Passed)
  \union FanIn(Auditors, "audit-join", Always)

(* The targets of a node's return edges. *)
DeliveryReturns ==
  [n \in {"spec-gate", "feasibility"} |-> {"product"}] @@
  "architecture" :> {"db-schema", "backend", "product"} @@
  [n \in {"code-lint", "security", "code-quality", "performance", "monitor"} |->
     CodeOwners] @@
  "qa" :> {"architecture"} @@
  "spec-audit" :> {"product", "architecture"} @@
  "design-audit" :> Clients \union {"ux-design", "ui-system"} @@
  "devops" :> CodeOwners \union {"feasibility", "db-schema", "qa"} @@
  [n \in DeliveryNodes |-> {}]
============================================================================
