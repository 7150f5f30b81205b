----------------------------- MODULE GraphCheck -----------------------------
(***************************************************************************)
(* check.py: what "pipeline check" finds wrong with a delivery graph.  A   *)
(* finding is the number of the check and what it is about.  The checks    *)
(* that read prose (agents, the spelling of conditions) are left out.      *)
(***************************************************************************)
EXTENDS DeliveryGraph
LOCAL INSTANCE Naturals
LOCAL INSTANCE SequencesExt
LOCAL INSTANCE FiniteSetsExt

NodeType(n) ==
  CASE DeliveryCategory[n] = "ROUTER" -> "router"
    [] DeliveryCategory[n] = "JOIN" -> "join"
    [] DeliveryCategory[n] = "TERMINAL" -> "terminal"
    [] DeliveryCategory[n] \in {"FREE_GATE", "BLOCKING_GATE"} -> "human-gate"
    [] "gate-output" \in DeliveryOutputs[n] -> "gate"
    [] OTHER -> "agent"

(* Phases T2 and T3-post: they make code, contracts or a deploy. *)
ProducerPhases ==
  {"architecture", "db-schema", "ui-system", "devops", "production", "monitor",
   "code-lint"} \union CodeOwners

Producers == {n \in ProducerPhases : NodeType(n) = "agent"}
JoinRequires ==
  {"performance", "spec-audit", "security", "code-quality", "design-audit"}
Artifacts ==
  Code \union
  {"issue", "backlog-item", "screenshot", "spec", "acceptance", "has_ui",
   "mockup", "design-manual", "ui-components", "contract", "error-codes",
   "reuse-decision", "scaffold", "db-schema", "migrations", "unit-tests",
   "gate-output", "build", "staging-deploy", "production-deploy"}
Sources == {"issue", "backlog-item", "screenshot"}
ProseGates == [spec_check |-> "spec-gate", lint_gate |-> "code-lint"]

ForwardProducers(n) == {e.from : e \in {d \in DeliveryEdges : d.to = n}}
Adjacency(n) ==
  {e.to : e \in {d \in DeliveryEdges : d.from = n}} \union DeliveryReturns[n]

(* What a walk from the nodes of front reaches, avoiding skip. *)
RECURSIVE Reachable(_, _, _)
Reachable(front, seen, skip) ==
  LET new == front \ (seen \union skip) IN
  IF new = {} THEN seen
  ELSE Reachable(UNION {Adjacency(n) : n \in new}, seen \union new, skip)

About(check, subjects) == {<<check, x>> : x \in subjects}

check_references ==
  LET named == UNION {{e.from, e.to} : e \in DeliveryEdges} IN
  About("C2", ({"intake"} \union named) \ DeliveryNodes)
    \union About("C3", JoinRequires \ DeliveryNodes)

check_reachability ==
  LET unspecified == Reachable({"intake"}, {}, {"product"}) IN
  About("C5", {n \in DeliveryNodes : NodeType(n) # "terminal" /\ Adjacency(n) = {}})
    \union About("C6", DeliveryNodes \ Reachable({"intake"}, {}, {}))
    \union About("C7", {"product"} \ DeliveryNodes)
    \union About("C7", Producers \intersect unspecified)

check_typed_io ==
  LET consumed == UNION {DeliveryInputs[n] : n \in DeliveryNodes}
      produced == UNION {DeliveryOutputs[n] : n \in DeliveryNodes}
      satisfied == Sources \union produced
        \union {t \in {"code"} : (ServerCode \union ClientCode) \intersect produced # {}}
  IN About("C8", (consumed \union produced) \ Artifacts)
       \union About("C9", (consumed \intersect Artifacts) \ satisfied)

check_dataflow ==
  About("C11", {n \in DeliveryNodes \ {"intake"} : ForwardProducers(n) = {}})
    \union About("C12", {n \in {"audit-join"} : ForwardProducers(n) # JoinRequires})

check_prose_gates ==
  {<<"C16", p>> : p \in {q \in DOMAIN ProseGates :
     ProseGates[q] \notin DeliveryNodes \/ NodeType(ProseGates[q]) # "gate"}}

----------------------------------------------------------------------------
(* The depth-first search of C17: white nodes are new, gray ones on the    *)
(* path, black ones done.  It stops at the first edge back into the path   *)
(* and cuts the cycle out of it.                                           *)
RECURSIVE Visit(_, _, _)

CutCycle(path, n) ==
  Append(SubSeq(path, CHOOSE i \in DOMAIN path : path[i] = n, Len(path)), n)

VisitNext(succ, search, n) ==
  IF search.cycle # <<>> THEN search
  ELSE IF search.color[n] = "gray"
    THEN [search EXCEPT !.cycle = CutCycle(search.path, n)]
  ELSE IF search.color[n] = "white" THEN Visit(succ, search, n)
  ELSE search

Visit(succ, search, n) ==
  LET entered == [search EXCEPT !.color[n] = "gray", !.path = Append(@, n)]
      left == FoldLeft(LAMBDA s, m : VisitNext(succ, s, m), entered, succ[n])
  IN IF left.cycle # <<>> THEN left
     ELSE [left EXCEPT !.color[n] = "black", !.path = Front(@)]

(* The cycle found among nodes, a sequence, with their successors; or none. *)
FindCycle(nodes, succ) ==
  LET start == [color |-> [n \in DOMAIN succ |-> "white"], path |-> <<>>,
                cycle |-> <<>>]
      From(s, n) == IF s.cycle # <<>> \/ s.color[n] # "white" THEN s
                    ELSE Visit(succ, [s EXCEPT !.path = <<>>], n)
  IN FoldLeft(From, start, nodes).cycle

check_forward_acyclic ==
  LET order == FoldSet(LAMBDA n, s : Append(s, n), <<>>, DeliveryNodes)
      succ == [n \in DeliveryNodes |->
                 SelectSeq(order, LAMBDA m : n \in ForwardProducers(m))]
  IN {<<"C17", cycle>> : cycle \in {FindCycle(order, succ)} \ {<<>>}}

----------------------------------------------------------------------------
(* delivery.yaml, "validovaná 1:1 (run.sh check)": the graph the pipeline  *)
(* is shipped with has no dead end, no orphan, no producer reachable       *)
(* around the spec authority, no type nobody produces, no node without a   *)
(* forward producer and no forward cycle.                                  *)
ASSUME ShippedGraphIsSound ==
  check_references \union check_reachability \union check_typed_io
    \union check_dataflow \union check_prose_gates
    \union check_forward_acyclic = {}

(* check.py, C17: the search misses no cycle and invents none.  For every  *)
(* graph of three nodes it reports a closed walk along edges, or nothing   *)
(* where no node is reachable from itself.                                 *)
ASSUME CycleGuardIsExact ==
  \A edges \in SUBSET ((1 .. 3) \X (1 .. 3)) :
    LET succ == [n \in 1 .. 3 |-> SelectSeq(<<1, 2, 3>>, LAMBDA m : <<n, m>> \in edges)]
        cycle == FindCycle(<<1, 2, 3>>, succ)
        two == {<<a, c>> \in (1 .. 3) \X (1 .. 3) :
                  \E b \in 1 .. 3 : <<a, b>> \in edges /\ <<b, c>> \in edges}
        three == {<<a, c>> \in (1 .. 3) \X (1 .. 3) :
                  \E b \in 1 .. 3 : <<a, b>> \in two /\ <<b, c>> \in edges}
        cyclic == \E n \in 1 .. 3 : <<n, n>> \in edges \union two \union three
    IN IF cyclic
        THEN /\ Len(cycle) > 1 /\ cycle[1] = cycle[Len(cycle)]
             /\ \A i \in 1 .. Len(cycle) - 1 : <<cycle[i], cycle[i + 1]>> \in edges
        ELSE cycle = <<>>
============================================================================
