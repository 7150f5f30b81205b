------------------------- MODULE PipelineRunProofs -------------------------
(***************************************************************************)
(* Invariants of the pipeline for every graph, every set of envelopes and  *)
(* any number of returns.                                                  *)
(***************************************************************************)
EXTENDS PipelineRun, WellFoundedInduction, TLAPS

(* The fields of an envelope keep their types when a missing return target *)
(* is filled in.                                                           *)
LEMMA ResolvedType ==
  ASSUME NEW n \in Nodes, NEW env \in EnvelopesOf(n)
  PROVE  Resolved(n, env) \in EnvelopesOf(n)
<1>1. CASE /\ env.outcome = "FAIL" /\ env.returns_to = NoNode
           /\ \E t \in Nodes : NodeReturns[n] = {t}
  <2>1. PICK t \in Nodes : NodeReturns[n] = {t}
    BY <1>1
  <2>2. (CHOOSE u \in Nodes : NodeReturns[n] = {u}) \in NodeReturns[n] \cap Nodes
    BY <2>1
  <2>3. QED
    BY <1>1, <2>2 DEF Resolved, EnvelopesOf
<1>2. QED
  BY <1>1 DEF Resolved

(* What drive is offered are nodes.                                        *)
LEMMA ComputeType ==
  ASSUME NEW j, j = Compute
  PROVE  /\ j.auto_skip \subseteq Nodes
         /\ j.ready \subseteq Nodes
         /\ j.judgment \subseteq Nodes
BY DEF Compute, Buckets, AutoSkip

LEMMA ToDecideType == ToDecide \subseteq Nodes
  BY ComputeType DEF ToDecide

(* Freshness keeps its type. *)
Versions == [Nodes -> {"none", "fresh", "stale"}]

LEMMA StampType ==
  ASSUME version \in Versions, NEW n \in Nodes, NEW changed, Stamp(n, changed)
  PROVE  version' \in Versions
BY DEF Versions, Stamp, Aged

LEMMA InvalidateType ==
  ASSUME version \in Versions, NEW n \in Nodes, NEW changed,
         Invalidate(n, changed)
  PROVE  version' \in Versions
BY DEF Versions, Invalidate, Aged

----------------------------------------------------------------------------
(* The inductive invariant: who is in flight is worked on, and so is the   *)
(* gate that drive halted for.                                             *)
IInv == TypeOK /\ InflightIsWorked /\ HaltIsAnswered

LEMMA InitHolds == Init => IInv
  BY GraphAssumption, FlagsAssumption
  DEF Init, IInv, TypeOK, InflightIsWorked, HaltIsAnswered, Unversioned, Results

LEMMA AdvanceHolds ==
  ASSUME IInv, NEW nodes \in SUBSET Nodes, NEW outcome \in Results,
         Advance(nodes, outcome), status' \in {"in_progress", "blocked", "done"}
  PROVE  IInv'
<1>1. completed' \subseteq Nodes /\ outcomes' \in [Nodes -> Results \union {"none"}]
  BY DEF IInv, TypeOK, Advance
<1>2. QED
  BY <1>1 DEF IInv, TypeOK, InflightIsWorked, HaltIsAnswered, Advance

LEMMA DispatchHolds ==
  ASSUME IInv, NEW nodes \in SUBSET Nodes, Dispatch(nodes),
         halt_gate' \in nodes \union {halt_gate}
  PROVE  IInv'
<1>1. working' \in [Nodes -> Nat]
  BY DEF IInv, TypeOK, Dispatch
<1>2. \A n \in frontier' : working'[n] > 0
  BY DEF IInv, TypeOK, InflightIsWorked, Dispatch
<1>3. HaltIsAnswered'
  BY GraphAssumption DEF IInv, TypeOK, HaltIsAnswered, Dispatch
<1>4. halt_gate' \in Nodes \union {NoNode}
  BY DEF IInv, TypeOK
<1>5. QED
  BY <1>1, <1>2, <1>3, <1>4 DEF IInv, TypeOK, InflightIsWorked, Dispatch

LEMMA DriveHolds == IInv /\ Drive => IInv'
<1> SUFFICES ASSUME IInv, Drive PROVE IInv'
  OBVIOUS
<1>1. PICK j \in {Compute} : \/ SkipByPolicy(j)
                             \/ Join(j)
                             \/ Finish(j)
                             \/ Halt(j)
                             \/ HandOut(j)
                             \/ Close(j)
  BY DEF Drive
<1>2. j.auto_skip \subseteq Nodes /\ j.ready \subseteq Nodes
  BY ComputeType
<1>3. \A categories : ReadyOf(j, categories) \subseteq Nodes
  BY <1>2 DEF ReadyOf
<1>4. status \in {"in_progress", "blocked", "done"}
  BY DEF IInv, TypeOK
<1>5. halt_gate \in Nodes \union {NoNode}
  BY DEF IInv, TypeOK
<1>6. {"PASS", "DONE"} \subseteq Results
  BY DEF Results
<1>7. CASE SkipByPolicy(j)
  BY <1>7, <1>2, <1>4, <1>6, AdvanceHolds DEF SkipByPolicy
<1>8. CASE Join(j)
  BY <1>8, <1>3, <1>4, <1>6, AdvanceHolds DEF Join
<1>9. CASE Finish(j)
  <2>1. PICK n \in ReadyOf(j, {"TERMINAL"}) : Advance({n}, "DONE")
    BY <1>9 DEF Finish
  <2>2. {n} \subseteq Nodes
    BY <2>1, <1>3
  <2>3. QED
    BY <1>9, <2>1, <2>2, <1>6, AdvanceHolds DEF Finish
<1>10. CASE Halt(j)
  <2>1. PICK g \in ReadyOf(j, {"BLOCKING_GATE"}) : Dispatch({g}) /\ halt_gate' = g
    BY <1>10 DEF Halt
  <2>2. g \in Nodes
    BY <2>1, <1>3
  <2>3. QED
    BY <2>1, <2>2, DispatchHolds
<1>11. CASE HandOut(j)
  BY <1>11, <1>3, <1>5, DispatchHolds DEF HandOut
<1>12. CASE Close(j)
  BY <1>12, <1>6, AdvanceHolds DEF Close
<1>13. QED
  BY <1>1, <1>7, <1>8, <1>9, <1>10, <1>11, <1>12

LEMMA DoneHolds ==
  ASSUME IInv, NEW n \in Nodes, NEW envelope \in Envelopes[n],
         Done(n, envelope)
  PROVE  IInv'
<1> DEFINE env == Resolved(n, envelope)
<1>1. env \in EnvelopesOf(n)
  BY EnvelopesAssumption, ResolvedType
<1> HIDE DEF env
<1>2. Receive(n, env) /\ MergeFlags(env)
  BY DEF Done, env
<1>3. \/ AdvisoryFail(n, env) \/ ReturnFail(n, env) \/ BareFail(n, env)
      \/ Rejected(n, env) \/ Completion(n, env)
  BY DEF Done, env
<1>4. /\ frontier' \subseteq frontier \ {n}
      /\ halt_gate' \in Nodes \union {NoNode}
      /\ skipped' = skipped
  BY <1>2 DEF Receive, IInv, TypeOK
<1>5. working' \in [Nodes -> Nat] /\ \A m \in Nodes \ {n} : working'[m] = working[m]
  BY <1>2 DEF Receive, IInv, TypeOK
<1>6. InflightIsWorked' /\ HaltIsAnswered'
  <2>1. InflightIsWorked'
    BY <1>4, <1>5 DEF InflightIsWorked, IInv, TypeOK
  <2>2. HaltIsAnswered'
    BY <1>2, <1>5 DEF HaltIsAnswered, Receive, IInv, TypeOK
  <2>3. QED
    BY <2>1, <2>2
<1>7. flags' \in [DOMAIN ProjectFlags -> FlagValues]
  <2>1. env.flags \in [DOMAIN ProjectFlags -> FlagValues]
    BY <1>1 DEF EnvelopesOf
  <2>2. flags \in [DOMAIN ProjectFlags -> FlagValues]
    BY DEF IInv, TypeOK
  <2>3. QED
    BY <1>2, <2>1, <2>2 DEF MergeFlags, Merged
<1>8. version \in Versions
  BY DEF IInv, TypeOK, Versions
<1>9. env.outcome \in Results
  BY <1>1 DEF EnvelopesOf
<1> DEFINE HandlerType ==
      /\ status' \in {"in_progress", "blocked", "done"}
      /\ note' \in {"none", "counter", "rejected", "blocker", "resolved"}
      /\ completed' \subseteq Nodes
      /\ outcomes' \in [Nodes -> Results \union {"none"}]
      /\ counters' \in [ReturnEdges -> Nat]
      /\ version' \in Versions
<1>10. CASE AdvisoryFail(n, env)
  <2>1. version' \in Versions
    BY <1>10, <1>8, StampType DEF AdvisoryFail
  <2>2. HandlerType
    BY <1>10, <2>1 DEF AdvisoryFail, IInv, TypeOK, Results
  <2>3. QED
    BY <2>2, <1>4, <1>5, <1>6, <1>7 DEF IInv, TypeOK, Versions
<1>11. CASE ReturnFail(n, env)
  <2> DEFINE target == env.returns_to
  <2>1. target \in Nodes /\ <<n, target>> \in ReturnEdges
    BY <1>11, <1>1 DEF ReturnFail, EnvelopesOf, ReturnEdges
  <2>2. version' \in Versions
    BY <1>11, <1>8, <2>1, InvalidateType DEF ReturnFail
  <2>3. counters' \in [ReturnEdges -> Nat]
    BY <1>11, <2>1 DEF ReturnFail, IInv, TypeOK
  <2>4. outcomes' \in [Nodes -> Results \union {"none"}]
    BY <1>11, <2>1 DEF ReturnFail, IInv, TypeOK
  <2>5. /\ status' \in {"in_progress", "blocked", "done"}
        /\ note' \in {"none", "counter", "rejected", "blocker", "resolved"}
    BY <1>11 DEF ReturnFail, IInv, TypeOK
  <2>6. HandlerType
    BY <1>11, <2>2, <2>3, <2>4, <2>5 DEF ReturnFail, IInv, TypeOK
  <2>7. QED
    BY <2>6, <1>4, <1>5, <1>6, <1>7 DEF IInv, TypeOK, Versions
<1>12. CASE BareFail(n, env)
  <2>1. HandlerType
    BY <1>12, <1>8 DEF BareFail, IInv, TypeOK, Results
  <2>2. QED
    BY <2>1, <1>4, <1>5, <1>6, <1>7 DEF IInv, TypeOK, Versions
<1>13. CASE Rejected(n, env)
  <2>1. HandlerType
    BY <1>13, <1>8 DEF Rejected, IInv, TypeOK, Results
  <2>2. QED
    BY <2>1, <1>4, <1>5, <1>6, <1>7 DEF IInv, TypeOK, Versions
<1>14. CASE Completion(n, env)
  <2>1. version' \in Versions
    BY <1>14, <1>8, StampType DEF Completion
  <2>2. HandlerType
    BY <1>14, <2>1, <1>9 DEF Completion, IInv, TypeOK
  <2>3. QED
    BY <2>2, <1>4, <1>5, <1>6, <1>7 DEF IInv, TypeOK, Versions
<1>15. QED
  BY <1>3, <1>10, <1>11, <1>12, <1>13, <1>14

LEMMA StepHolds == IInv /\ [Next]_vars => IInv'
<1> SUFFICES ASSUME IInv, [Next]_vars PROVE IInv'
  OBVIOUS
<1>1. CASE Drive
  BY <1>1, DriveHolds
<1>2. ASSUME NEW n \in Nodes, Answer(n) PROVE IInv'
  BY <1>2, DoneHolds DEF Answer
<1>3. ASSUME NEW n \in ToDecide, Decide(n) PROVE IInv'
  BY <1>3, ToDecideType, DoneHolds DEF Decide
<1>4. ASSUME NEW n \in ToDecide, Skip(n) PROVE IInv'
  BY <1>4, ToDecideType DEF Skip, IInv, TypeOK, InflightIsWorked, HaltIsAnswered
<1>5. ASSUME NEW edge \in ReturnEdges, ResolveLoop(edge) PROVE IInv'
  BY <1>5 DEF ResolveLoop, IInv, TypeOK, InflightIsWorked, HaltIsAnswered
<1>6. CASE UNCHANGED vars
  BY <1>6 DEF vars, IInv, TypeOK, InflightIsWorked, HaltIsAnswered
<1>7. QED
  BY <1>1, <1>2, <1>3, <1>4, <1>5, <1>6 DEF Next

(* TypeOK: the run state keeps its type for every graph and any number of  *)
(* returns; in particular only nodes are completed and only edges counted. *)
THEOREM RunTypeCorrect == Spec => []TypeOK
<1>1. IInv => TypeOK
  BY DEF IInv
<1>2. QED
  BY InitHolds, StepHolds, <1>1, PTL DEF Spec

(* InflightIsWorked: for every graph, whatever is returned to whom while   *)
(* agents are at work, somebody is at work on each node drive waits for.   *)
THEOREM NobodyIsAwaitedInVain == Spec => []InflightIsWorked
<1>1. IInv => InflightIsWorked
  BY DEF IInv
<1>2. QED
  BY InitHolds, StepHolds, <1>1, PTL DEF Spec

(* HaltIsAnswered: for every graph, whatever is returned or rejected, drive *)
(* is never halted for a gate that nobody was given or that has answered.  *)
THEOREM NoHaltIsForEver == Spec => []HaltIsAnswered
<1>1. IInv => HaltIsAnswered
  BY DEF IInv
<1>2. QED
  BY InitHolds, StepHolds, <1>1, PTL DEF Spec

----------------------------------------------------------------------------
(* Approvals. *)

(* What an approval edge says: go on an approval, stop on anything else,   *)
(* and ask where the approver has not answered.                            *)
LEMMA ApprovalClass ==
  ASSUME NEW e \in ApprovalEdges
  PROVE  EdgeClass(e) = IF outcomes[e.from] = "none" THEN "judgment"
                        ELSE IF outcomes[e.from] = "APPROVED" THEN "eligible"
                        ELSE "skip"
<1> DEFINE approval == Outcome("APPROVED")
           given == outcomes[e.from]
<1>1. approval.kind = "outcome" /\ approval.value = "APPROVED" /\ ~ approval.negated
  BY DEF Outcome, Literal
<1>2. AtomVerdict(approval, flags, given) =
        IF given = "none" THEN "UNKNOWN" ELSE BoolVerdict(given = "APPROVED")
  BY <1>1 DEF AtomVerdict
<1>3. e.when = {{approval}}
  BY DEF ApprovalEdges, All
<1> HIDE DEF approval, given
<1>4. {AtomVerdict(literal, flags, given) : literal \in UNION {{approval}}}
        = {AtomVerdict(approval, flags, given)}
  OBVIOUS
<1>5. Evaluate({{approval}}, flags, given) =
        IF given = "none" THEN "UNKNOWN" ELSE BoolVerdict(given = "APPROVED")
  <2>1. CASE given = "none"
    BY <2>1, <1>2, <1>4 DEF Evaluate
  <2>2. CASE given # "none"
    <3>1. Holds(approval, flags, given) <=> given = "APPROVED"
      BY <2>2, <1>1, <1>2 DEF Holds, BoolVerdict
    <3>2. QED
      BY <2>2, <3>1, <1>2, <1>4 DEF Evaluate, BoolVerdict
  <2>3. QED
    BY <2>1, <2>2
<1>6. QED
  BY <1>3, <1>5 DEF EdgeClass, Classify, Classification, BoolVerdict, given

(* What is approved is skipped by policy or found ready only when approved. *)
LEMMA ReadyIsApproved ==
  ASSUME NEW e \in ApprovalEdges, NEW done, NEW deps \in SUBSET ForwardEdges,
         ReadyKind(e.to, done, deps) = "ready"
  PROVE  outcomes[e.from] = "APPROVED"
<1>1. To(e.to, deps) # {}
  BY ApprovalAssumption DEF ReadyKind
<1>2. To(e.to, deps) = {e}
  BY <1>1, ApprovalAssumption DEF To, ApprovalEdges
<1>3. EdgeClass(e) \notin {"skip", "judgment"}
  BY <1>2 DEF ReadyKind
<1>4. QED
  BY <1>3, ApprovalClass

LEMMA JudgedIsUnanswered ==
  ASSUME NEW e \in ApprovalEdges, NEW done, NEW deps \in SUBSET ForwardEdges,
         ReadyKind(e.to, done, deps) = "judgment"
  PROVE  e.from \in done /\ outcomes[e.from] = "none"
<1>1. To(e.to, deps) # {}
  BY ApprovalAssumption DEF ReadyKind
<1>2. To(e.to, deps) = {e}
  BY <1>1, ApprovalAssumption DEF To, ApprovalEdges
<1>3. e.from \in done /\ EdgeClass(e) # "skip"
  BY <1>2 DEF ReadyKind
<1>4. EdgeClass(e) = "judgment"
  BY <1>2, <1>3 DEF ReadyKind
<1>5. QED
  BY <1>3, <1>4, ApprovalClass

(* An approver is at work exactly while its node is in flight; it answers   *)
(* once, and an answer that stands is not asked for again.                 *)
Stance(g) ==
  /\ working[g] = IF g \in frontier THEN 1 ELSE 0
  /\ g \in completed =>
       version[g] = "fresh" /\ g \notin frontier /\ outcomes[g] # "none"
  /\ outcomes[g] = "APPROVED" => g \in completed

Consent(e) ==
  e.to \in frontier \union completed \/ working[e.to] > 0 =>
    outcomes[e.from] = "APPROVED"

AInv == \A e \in ApprovalEdges : Stance(e.from) /\ Consent(e)

LEMMA ConsentInit == Init => AInv
  BY ApprovalAssumption
  DEF Init, AInv, Stance, Consent

(* Policy never skips a node that has no condition to be skipped on.       *)
LEMMA NoPolicy ==
  ASSUME NEW n \in Nodes, NodeSkipIf[n] = {}
  PROVE  ~ SkipHolds(n)
  BY DEF SkipHolds, Classify, Classification, Evaluate, BoolVerdict

LEMMA ApproverIsAsked ==
  ASSUME NEW e \in ApprovalEdges
  PROVE  ~ SkipHolds(e.from)
  BY ApprovalAssumption, NoPolicy

(* What drive offers is not in flight, and does not count as done by      *)
(* itself; what it skips, policy skips.                                    *)
LEMMA OfferedAnew ==
  ASSUME NEW j, j = Compute
  PROVE  /\ \A n \in j.ready \union j.judgment :
              n \notin frontier /\ (n \in completed => version[n] # "fresh")
         /\ \A n \in j.auto_skip : SkipHolds(n)
<1> DEFINE valid == ValidCompleted(ActiveDeps)
           skips == AutoSkip(valid, ActiveDeps)
<1>1. j = Buckets(ActiveDeps, valid, skips)
  BY DEF Compute
<1>2. \A n \in completed : version[n] = "fresh" => n \in valid
  BY DEF ValidCompleted, Stands
<1>3. \A n \in skips : SkipHolds(n)
  BY DEF AutoSkip
<1> HIDE DEF valid, skips
<1>4. j.ready \union j.judgment \subseteq Nodes \ (valid \union frontier)
  BY <1>1 DEF Buckets
<1>5. j.auto_skip = skips
  BY <1>1 DEF Buckets
<1>6. QED
  BY <1>2, <1>3, <1>4, <1>5

(* What drive may do, as far as approvals are concerned.                   *)
LEMMA ComputedApprovals ==
  ASSUME NEW e \in ApprovalEdges, NEW j, j = Compute
  PROVE  /\ e.from \notin j.auto_skip
         /\ e.from \in j.ready \union j.judgment =>
              /\ e.from \notin frontier
              /\ e.from \in completed => version[e.from] # "fresh"
         /\ e.to \in j.auto_skip \union j.ready => outcomes[e.from] = "APPROVED"
         /\ j.auto_skip = {} /\ e.to \in j.judgment =>
              e.from \in completed /\ outcomes[e.from] = "none"
<1> DEFINE deps == ActiveDeps
           valid == ValidCompleted(deps)
           skips == AutoSkip(valid, deps)
<1>1. j = Buckets(deps, valid, skips)
  BY DEF Compute
<1>2. deps \in SUBSET ForwardEdges
  BY DEF ActiveDeps
<1>3. valid \subseteq completed
  BY DEF ValidCompleted
<1> HIDE DEF deps, valid
<1>4. e.from \notin skips
  BY ApproverIsAsked DEF AutoSkip
<1>5. e.to \in skips => outcomes[e.from] = "APPROVED"
  BY <1>2, ReadyIsApproved DEF AutoSkip
<1> HIDE DEF skips
<1>6. j.auto_skip = skips
  BY <1>1 DEF Buckets
<1>7. e.to \in j.ready => outcomes[e.from] = "APPROVED"
  BY <1>1, <1>2, ReadyIsApproved DEF Buckets
<1>8. skips = {} /\ e.to \in j.judgment => e.from \in valid /\ outcomes[e.from] = "none"
  <2>1. e.to \in j.judgment => ReadyKind(e.to, valid \union skips, deps) = "judgment"
    BY <1>1 DEF Buckets
  <2>2. QED
    BY <2>1, <1>2, JudgedIsUnanswered
<1>9. QED
  BY <1>3, <1>4, <1>5, <1>6, <1>7, <1>8, OfferedAnew

LEMMA AdvanceConsent ==
  ASSUME AInv, NEW nodes \in SUBSET Nodes, NEW outcome, Advance(nodes, outcome),
         NEW e \in ApprovalEdges, e.from \notin nodes,
         e.to \in nodes => outcomes[e.from] = "APPROVED"
  PROVE  Stance(e.from)' /\ Consent(e)'
<1>1. outcomes'[e.from] = outcomes[e.from]
  BY ApprovalAssumption DEF Advance
<1>2. QED
  BY <1>1 DEF Advance, AInv, Stance, Consent

LEMMA DispatchConsent ==
  ASSUME IInv, AInv, NEW nodes \in SUBSET Nodes, Dispatch(nodes),
         NEW e \in ApprovalEdges,
         e.from \in nodes => e.from \notin frontier \union completed,
         e.to \in nodes => outcomes[e.from] = "APPROVED"
  PROVE  Stance(e.from)' /\ Consent(e)'
<1>1. \A n \in {e.from, e.to} :
        working'[n] = working[n] + IF n \in nodes THEN 1 ELSE 0
  BY ApprovalAssumption DEF Dispatch
<1>2. working[e.to] \in Nat
  BY ApprovalAssumption DEF IInv, TypeOK
<1>3. QED
  BY <1>1, <1>2 DEF Dispatch, AInv, Stance, Consent

LEMMA DriveConsent ==
  ASSUME IInv, AInv, Drive, NEW e \in ApprovalEdges
  PROVE  Stance(e.from)' /\ Consent(e)'
<1>1. PICK j \in {Compute} : \/ SkipByPolicy(j)
                             \/ Join(j)
                             \/ Finish(j)
                             \/ Halt(j)
                             \/ HandOut(j)
                             \/ Close(j)
  BY DEF Drive
<1>2. j.auto_skip \subseteq Nodes /\ j.ready \subseteq Nodes
  BY ComputeType
<1>3. \A categories : ReadyOf(j, categories) \subseteq j.ready
  BY DEF ReadyOf
<1>4. /\ e.from \notin j.auto_skip
      /\ e.from \in j.ready => e.from \notin frontier \union completed
      /\ e.to \in j.auto_skip \union j.ready => outcomes[e.from] = "APPROVED"
  BY ComputedApprovals DEF AInv, Stance
<1>5. CASE SkipByPolicy(j)
  BY <1>5, <1>2, <1>4, AdvanceConsent DEF SkipByPolicy
<1>6. CASE Join(j)
  <2>1. e.from \notin ReadyOf(j, {"JOIN"})
    BY ApprovalAssumption DEF ReadyOf
  <2>2. QED
    BY <1>6, <2>1, <1>2, <1>3, <1>4, AdvanceConsent DEF Join
<1>7. CASE Finish(j)
  <2>1. PICK n \in ReadyOf(j, {"TERMINAL"}) : Advance({n}, "DONE")
    BY <1>7 DEF Finish
  <2>2. n \in j.ready /\ n # e.from
    BY <2>1, ApprovalAssumption DEF ReadyOf
  <2>3. QED
    BY <2>1, <2>2, <1>2, <1>4, AdvanceConsent
<1>8. CASE Halt(j)
  <2>1. PICK g \in ReadyOf(j, {"BLOCKING_GATE"}) : Dispatch({g})
    BY <1>8 DEF Halt
  <2>2. g \in j.ready
    BY <2>1, <1>3
  <2>3. QED
    BY <2>1, <2>2, <1>2, <1>4, DispatchConsent
<1>9. CASE HandOut(j)
  BY <1>9, <1>2, <1>3, <1>4, DispatchConsent DEF HandOut
<1>10. CASE Close(j)
  BY <1>10, AdvanceConsent DEF Close
<1>11. QED
  BY <1>1, <1>5, <1>6, <1>7, <1>8, <1>9, <1>10

(* An envelope, when it comes from an approver that is at work or idle, and *)
(* not from a node whose approval is outstanding.                          *)
LEMMA DoneConsent ==
  ASSUME IInv, AInv, NEW n \in Nodes, NEW envelope \in Envelopes[n],
         Done(n, envelope), NEW e \in ApprovalEdges,
         n = e.from => e.from \notin completed,
         n = e.to => outcomes[e.from] = "APPROVED"
  PROVE  Stance(e.from)' /\ Consent(e)'
<1> DEFINE env == Resolved(n, envelope)
           g == e.from
<1>1. env \in EnvelopesOf(n)
  BY EnvelopesAssumption, ResolvedType
<1> HIDE DEF env
<1>2. Receive(n, env)
  BY DEF Done, env
<1>3. \/ AdvisoryFail(n, env) \/ ReturnFail(n, env) \/ BareFail(n, env)
      \/ Rejected(n, env) \/ Completion(n, env)
  BY DEF Done, env
<1>4. g \in Nodes /\ g \notin NodeReturns[n] /\ g # NoNode
  BY ApprovalAssumption, GraphAssumption
<1>5. env.returns_to # g /\ env.outcome \in Results
  BY <1>1, <1>4 DEF EnvelopesOf
<1>6. working'[g] = IF g \in frontier' THEN 1 ELSE 0
  <2>1. frontier' \subseteq frontier /\ (g \in frontier' <=> g \in frontier /\ g # n)
    BY <1>2, <1>5 DEF Receive
  <2>2. working'[g] = IF n = g THEN IF working[g] = 0 THEN 0 ELSE working[g] - 1
                      ELSE working[g]
    BY <1>2, <1>4 DEF Receive, IInv, TypeOK
  <2>3. QED
    BY <2>1, <2>2 DEF AInv, Stance
<1>7. /\ frontier' \subseteq frontier /\ (g \notin frontier => g \notin frontier')
      /\ working'[e.to] > 0 => working[e.to] > 0
  BY <1>2, ApprovalAssumption DEF Receive, IInv, TypeOK
<1>8. NodeInputs[g] = {}
  BY ApprovalAssumption
<1>9. version' \in Versions /\ (n # g => version'[g] = version[g])
  <2>1. version \in Versions
    BY DEF IInv, TypeOK, Versions
  <2>2. ASSUME NEW changed, Stamp(n, changed)
        PROVE  version' \in Versions /\ (n # g => version'[g] = version[g])
    BY <2>1, <2>2, <1>4, <1>8 DEF Versions, Stamp, Aged, Consumers
  <2>3. ASSUME NEW changed, NEW t \in Nodes, t # g, Invalidate(t, changed)
        PROVE  version' \in Versions /\ version'[g] = version[g]
    BY <2>1, <2>3, <1>4, <1>8 DEF Versions, Invalidate, Aged, Consumers
  <2>4. CASE AdvisoryFail(n, env)
    BY <2>4, <2>2 DEF AdvisoryFail
  <2>5. CASE ReturnFail(n, env)
    <3>1. env.returns_to \in Nodes
      BY <2>5, <1>1 DEF ReturnFail, EnvelopesOf
    <3>2. QED
      BY <2>5, <3>1, <1>5, <2>3 DEF ReturnFail
  <2>6. CASE BareFail(n, env)
    BY <2>6, <2>1 DEF BareFail
  <2>7. CASE Rejected(n, env)
    BY <2>7, <2>1 DEF Rejected
  <2>8. CASE Completion(n, env)
    BY <2>8, <2>2 DEF Completion
  <2>9. QED
    BY <1>3, <2>4, <2>5, <2>6, <2>7, <2>8
<1>10. CASE n # g
  <2>1. outcomes'[g] = outcomes[g]
    BY <1>3, <1>4, <1>5, <1>10
    DEF AdvisoryFail, ReturnFail, BareFail, Rejected, Completion, IInv, TypeOK
  <2>2. /\ completed' \subseteq completed \union {n}
        /\ g \in completed' <=> g \in completed
    BY <1>3, <1>5, <1>10
    DEF AdvisoryFail, ReturnFail, BareFail, Rejected, Completion
  <2>3. QED
    BY <2>1, <2>2, <1>6, <1>7, <1>9, <1>10 DEF AInv, Stance, Consent
<1>11. CASE n = g
  <2>1. g \notin completed /\ outcomes[g] # "APPROVED" /\ n # e.to
    BY <1>11 DEF AInv, Stance
  <2>2. g \notin frontier'
    BY <1>2, <1>11 DEF Receive
  <2>3. completed' \subseteq completed \union {n}
    BY <1>3
    DEF AdvisoryFail, ReturnFail, BareFail, Rejected, Completion
  <2>4. Consent(e)'
    BY <2>1, <2>3, <1>7 DEF AInv, Consent
  <2>5. \/ /\ g \in completed' /\ version'[g] = "fresh" /\ outcomes'[g] # "none"
        \/ g \notin completed' /\ outcomes'[g] # "APPROVED"
    <3>1. CASE AdvisoryFail(n, env)
      BY <3>1, <1>4, <1>11 DEF AdvisoryFail, Stamp, Aged, IInv, TypeOK
    <3>2. CASE ReturnFail(n, env)
      BY <3>2, <2>1, <1>4, <1>5, <1>11 DEF ReturnFail, IInv, TypeOK
    <3>3. CASE BareFail(n, env)
      BY <3>3, <2>1, <1>4, <1>11 DEF BareFail, IInv, TypeOK
    <3>4. CASE Rejected(n, env)
      BY <3>4, <2>1, <1>4, <1>11 DEF Rejected, IInv, TypeOK
    <3>5. CASE Completion(n, env)
      BY <3>5, <1>4, <1>5, <1>11 DEF Completion, Stamp, Aged, IInv, TypeOK, Results
    <3>6. QED
      BY <1>3, <3>1, <3>2, <3>3, <3>4, <3>5
  <2>6. QED
    BY <2>2, <2>4, <2>5, <1>6 DEF Stance
<1>12. QED
  BY <1>10, <1>11

LEMMA StepConsent == IInv /\ AInv /\ [Next]_vars => AInv'
<1> SUFFICES ASSUME IInv, AInv, [Next]_vars, NEW e \in ApprovalEdges
             PROVE  Stance(e.from)' /\ Consent(e)'
  BY DEF AInv
<1>1. CASE Drive
  BY <1>1, DriveConsent
<1>2. ASSUME NEW n \in Nodes, Answer(n)
      PROVE  Stance(e.from)' /\ Consent(e)'
  <2>1. working[n] > 0
    BY <1>2 DEF Answer
  <2>2. n = e.from => e.from \notin completed
    BY <2>1 DEF AInv, Stance
  <2>3. n = e.to => outcomes[e.from] = "APPROVED"
    BY <2>1 DEF AInv, Consent
  <2>4. QED
    BY <1>2, <2>2, <2>3, DoneConsent DEF Answer
<1>3. ASSUME NEW n \in ToDecide
      PROVE  /\ n = e.from => e.from \notin frontier \union completed
             /\ n = e.to => outcomes[e.from] = "APPROVED"
  <2>1. PICK j \in {Compute} :
          n \in IF ~ (Running /\ Idle(j)) THEN {}
                ELSE IF j.ready # {} THEN j.ready ELSE j.judgment
    BY <1>3 DEF ToDecide
  <2>2. j.auto_skip = {} /\ n \in j.ready \union j.judgment
    BY <2>1 DEF Idle
  <2>3. n = e.from => e.from \notin frontier \union completed
    BY <2>2, ComputedApprovals DEF AInv, Stance
  <2>4. ~ (e.to \in j.judgment)
    BY <2>2, ComputedApprovals DEF AInv, Stance
  <2>5. QED
    BY <2>2, <2>3, <2>4, ComputedApprovals
<1>4. ASSUME NEW n \in ToDecide, Decide(n)
      PROVE  Stance(e.from)' /\ Consent(e)'
  BY <1>4, <1>3, ToDecideType, DoneConsent DEF Decide
<1>5. ASSUME NEW n \in ToDecide, Skip(n)
      PROVE  Stance(e.from)' /\ Consent(e)'
  BY <1>5, <1>3 DEF Skip, AInv, Stance, Consent
<1>6. ASSUME NEW edge \in ReturnEdges, ResolveLoop(edge)
      PROVE  Stance(e.from)' /\ Consent(e)'
  BY <1>6 DEF ResolveLoop, AInv, Stance, Consent
<1>7. CASE UNCHANGED vars
  BY <1>7 DEF vars, AInv, Stance, Consent
<1>8. QED
  BY <1>1, <1>2, <1>4, <1>5, <1>6, <1>7 DEF Next

(* ConsentBeforeProduction: for every graph whose approvers are asked once  *)
(* and that nothing is returned to, nobody works on what they approve, and *)
(* it is not done, unless they approved it; and that is never taken back.  *)
THEOREM NothingGoesUnapproved == Spec => []ConsentBeforeProduction
<1>1. AInv => ConsentBeforeProduction
  BY DEF AInv, Consent, ConsentBeforeProduction
<1>2. QED
  BY InitHolds, StepHolds, ConsentInit, StepConsent, <1>1, PTL DEF Spec

----------------------------------------------------------------------------
(* The first pass. *)

(* A condition gives the same verdict on flags that agree where it reads.  *)
Agree(f, g, names) == \A name \in names : f[name] = g[name]

LEMMA SameVerdict ==
  ASSUME NEW condition, NEW f, NEW g, Agree(f, g, Reads(condition))
  PROVE  /\ \A outcome : Classify(condition, f, outcome) = Classify(condition, g, outcome)
         /\ StructuralLive(condition, f) = StructuralLive(condition, g)
<1> DEFINE flagged == {l \in UNION condition : l.kind \notin {"outcome", "text"}}
           named == {l.name : l \in flagged}
<1>1. \A l \in flagged : f[l.name] = g[l.name] /\ FlagValue(f, l.name) = FlagValue(g, l.name)
  <2>1. TAKE l \in flagged
  <2>2. l.name \in named
    OBVIOUS
  <2>3. named \subseteq Reads(condition)
        /\ \A name \in named \cap DOMAIN Capability : Capability[name] \in Reads(condition)
    BY DEF Reads
  <2>4. f[l.name] = g[l.name]
        /\ (l.name \in DOMAIN Capability => f[Capability[l.name]] = g[Capability[l.name]])
    BY <2>2, <2>3 DEF Agree
  <2>5. QED
    BY <2>4 DEF FlagValue
<1> HIDE DEF named
<1>2. ASSUME NEW l \in UNION condition
      PROVE  /\ \A outcome : AtomVerdict(l, f, outcome) = AtomVerdict(l, g, outcome)
             /\ StructuralHolds(l, f) = StructuralHolds(l, g)
  <2>1. CASE l.kind = "outcome"
    BY <2>1 DEF AtomVerdict, StructuralHolds
  <2>2. CASE l.kind = "text"
    BY <2>2 DEF AtomVerdict, StructuralHolds
  <2>3. CASE l \in flagged
    BY <2>3, <1>1 DEF AtomVerdict, StructuralHolds
  <2>4. QED
    BY <2>1, <2>2, <2>3
<1>3. ASSUME NEW outcome
      PROVE  Classify(condition, f, outcome) = Classify(condition, g, outcome)
  <2>1. {AtomVerdict(l, f, outcome) : l \in UNION condition}
          = {AtomVerdict(l, g, outcome) : l \in UNION condition}
    BY <1>2
  <2>2. \A clause \in condition, l \in UNION condition :
          Holds(l, f, outcome) = Holds(l, g, outcome)
    BY <1>2 DEF Holds
  <2>3. (\E clause \in condition : \A l \in clause : Holds(l, f, outcome))
          <=> (\E clause \in condition : \A l \in clause : Holds(l, g, outcome))
    BY <2>2
  <2>4. Evaluate(condition, f, outcome) = Evaluate(condition, g, outcome)
    BY <2>1, <2>3 DEF Evaluate, BoolVerdict
  <2>5. QED
    BY <2>4 DEF Classify
<1>4. StructuralLive(condition, f) = StructuralLive(condition, g)
  BY <1>2 DEF StructuralLive
<1>5. QED
  BY <1>3, <1>4

(* A first pass stays one only as long as nothing is returned: a counter   *)
(* that is reset has left its note behind.                                 *)
CountersAreNoted == \A edge \in ReturnEdges : counters[edge] >= 3 => note # "none"

LEMMA CountersNoted ==
  ASSUME IInv, CountersAreNoted, [Next]_vars
  PROVE  CountersAreNoted' /\ (FirstPass' => FirstPass)
<1> DEFINE Goal == CountersAreNoted' /\ (FirstPass' => FirstPass)
<1>1. CASE UNCHANGED <<note, counters>>
  BY <1>1 DEF CountersAreNoted, FirstPass
<1>2. CASE Drive
  BY <1>1, <1>2 DEF Drive, SkipByPolicy, Join, Finish, Halt, HandOut, Close, Advance, Dispatch
<1>3. ASSUME NEW n \in Nodes, NEW envelope \in Envelopes[n], Done(n, envelope)
      PROVE  Goal
  <2> DEFINE env == Resolved(n, envelope)
  <2>1. env \in EnvelopesOf(n)
    BY EnvelopesAssumption, ResolvedType
  <2> HIDE DEF env
  <2>2. \/ AdvisoryFail(n, env) \/ ReturnFail(n, env) \/ BareFail(n, env)
        \/ Rejected(n, env) \/ Completion(n, env)
    BY <1>3 DEF Done, env
  <2>3. CASE ReturnFail(n, env)
    <3> DEFINE edge == <<n, env.returns_to>>
    <3>1. edge \in ReturnEdges
      BY <2>1, <2>3 DEF ReturnFail, EnvelopesOf, ReturnEdges
    <3>2. /\ counters' = [counters EXCEPT ![edge] = @ + 1]
          /\ counters \in [ReturnEdges -> Nat]
          /\ counters[edge] + 1 >= 3 => note' = "counter"
          /\ note' \in {note, "counter"}
      BY <2>3 DEF ReturnFail, IInv, TypeOK
    <3>3. counters'[edge] # 0
      BY <3>1, <3>2
    <3>4. CountersAreNoted'
      BY <3>1, <3>2 DEF CountersAreNoted
    <3>5. QED
      BY <3>1, <3>3, <3>4 DEF FirstPass
  <2>4. CASE ~ ReturnFail(n, env)
    <3>1. counters' = counters /\ (note' = note \/ note' # "none")
      BY <2>2, <2>4 DEF AdvisoryFail, BareFail, Rejected, Completion
    <3>2. QED
      BY <3>1 DEF CountersAreNoted, FirstPass
  <2>5. QED
    BY <2>3, <2>4
<1>4. ASSUME NEW edge \in ReturnEdges, ResolveLoop(edge)
      PROVE  Goal
  <2>1. /\ counters[edge] >= 3 /\ counters \in [ReturnEdges -> Nat]
        /\ counters' = [counters EXCEPT ![edge] = 0]
        /\ note' \in {note, "resolved"}
    BY <1>4 DEF ResolveLoop, IInv, TypeOK
  <2>2. note' # "none"
    BY <2>1 DEF CountersAreNoted
  <2>3. QED
    BY <2>2 DEF CountersAreNoted, FirstPass
<1>5. CASE UNCHANGED vars
  BY <1>1, <1>5 DEF vars
<1>6. ASSUME NEW n \in Nodes, Skip(n)
      PROVE  Goal
  BY <1>1, <1>6 DEF Skip
<1>7. QED
  BY <1>2, <1>3, <1>4, <1>5, <1>6, ToDecideType DEF Next, Answer, Decide

(* On a first pass a node is worked on just while it is in flight, and     *)
(* what is not yet settled has nothing after it under way.                 *)
AncestorsCame ==
  \A e \in ActiveDeps :
    e.to \in completed \union frontier \union skipped => e.from \in completed
Came(d, region) ==
  region \cap (completed \union frontier \union skipped) # {} => d \in completed \union skipped
Stays(d) == d \in completed => d \notin frontier /\ (version[d] = "fresh" \/ SkipHolds(d))

InOrder(settled, after) ==
  FirstPass =>
    /\ AncestorsCame
    /\ \A n \in Nodes : working[n] = IF n \in frontier THEN 1 ELSE 0
    /\ frontier \cap skipped = {}
    /\ \A d \in settled : Came(d, after[d]) /\ Stays(d)

(* All that n waits for is done, and so is what settles matters for it.    *)
Reached(n, settled, after) ==
  /\ n \notin skipped
  /\ \A e \in To(n, ActiveDeps) : e.from \in completed
  /\ \A d \in settled : n \in after[d] => d \in completed \union skipped

LEMMA AlwaysLive ==
  ASSUME NEW e \in ForwardEdges, e.when = Always, NodeWhen[e.from] = Always,
         e.from \notin skipped
  PROVE  e \in ActiveDeps
<1>1. StructuralLive(Always, flags)
  BY DEF StructuralLive, Always
<1>2. Classify(Always, flags, "none") = "eligible"
  BY DEF Classify, Classification, Evaluate, BoolVerdict, Always
<1>3. QED
  BY <1>1, <1>2 DEF ActiveDeps, Active, ActiveWith

(* What becomes ready, or a matter of judgment, has been reached.          *)
LEMMA ReadyIsReached ==
  ASSUME NEW settled, NEW after, Ordered(settled, after), FirstPass, InOrder(settled, after),
         NEW done \in SUBSET completed, NEW n \in Nodes, n \notin skipped,
         ReadyKind(n, done, ActiveDeps) \in {"ready", "judgment"}
  PROVE  Reached(n, settled, after)
<1>1. \/ To(n, ActiveDeps) = {} /\ n = Entry
      \/ To(n, ActiveDeps) # {} /\ \A e \in To(n, ActiveDeps) : e.from \in done
  BY DEF ReadyKind
<1>2. ASSUME NEW d \in settled, n \in after[d]
      PROVE  d \in completed \union skipped
  <2>1. Downstream(d, after[d]) /\ Came(d, after[d])
    BY <1>2 DEF Ordered, InOrder
  <2>2. n # Entry
    BY <1>2, <2>1 DEF Downstream
  <2>3. SUFFICES ASSUME NEW e \in To(n, ForwardEdges), e.from \in after[d] \union {d},
                        e.from \in completed \union skipped
                 PROVE  d \in completed \union skipped
    <3>1. PICK e \in To(n, ActiveDeps) : e.from \in completed
      BY <1>1, <2>2
    <3>2. e \in To(n, ForwardEdges)
      BY <3>1 DEF To, ActiveDeps
    <3>3. CASE \A x \in To(n, ForwardEdges) : x.from \in after[d] \union {d}
      BY <2>3, <3>1, <3>2, <3>3
    <3>4. CASE \E x \in To(n, ForwardEdges) :
                 x.from \in after[d] \union {d} /\ x.when = Always /\ NodeWhen[x.from] = Always
      <4>1. PICK x \in To(n, ForwardEdges) :
              x.from \in after[d] \union {d} /\ x.when = Always /\ NodeWhen[x.from] = Always
        BY <3>4
      <4>2. x.from \in skipped \/ x \in To(n, ActiveDeps)
        BY <4>1, AlwaysLive DEF To
      <4>3. QED
        BY <1>1, <2>2, <2>3, <4>1, <4>2
    <3>5. QED
      BY <1>2, <2>1, <3>3, <3>4 DEF Downstream
  <2>4. CASE e.from = d
    BY <2>3, <2>4
  <2>5. QED
    BY <2>1, <2>3, <2>4 DEF Came
<1>3. QED
  BY <1>1, <1>2 DEF Reached

LEMMA ComputedInOrder ==
  ASSUME NEW settled, NEW after, Ordered(settled, after), FirstPass, InOrder(settled, after),
         NEW j, j = Compute, NEW n,
         \/ n \in j.auto_skip
         \/ j.auto_skip = {} /\ n \in j.ready \union j.judgment
  PROVE  /\ Reached(n, settled, after) /\ n \in Nodes \ frontier
         /\ n \in j.auto_skip => SkipHolds(n)
         /\ n \in settled /\ n \notin j.auto_skip => n \notin completed
<1> DEFINE deps == ActiveDeps
           valid == ValidCompleted(deps)
           skips == AutoSkip(valid, deps)
<1>1. j = Buckets(deps, valid, skips)
  BY DEF Compute
<1>2. valid \subseteq completed /\ \A d \in settled : d \in completed => d \in valid
  BY DEF ValidCompleted, Stands, InOrder, Stays
<1> HIDE DEF valid
<1>3. CASE n \in j.auto_skip
  <2>1. /\ n \in Nodes \ (frontier \union skipped) /\ SkipHolds(n)
        /\ ReadyKind(n, valid, deps) = "ready"
    BY <1>1, <1>3 DEF Buckets, AutoSkip
  <2>2. QED
    BY <1>2, <1>3, <2>1, ReadyIsReached
<1>4. CASE j.auto_skip = {} /\ n \in j.ready \union j.judgment
  <2>1. skips = {}
    BY <1>1, <1>4 DEF Buckets
  <2>2. /\ n \in Nodes \ (valid \union frontier \union skipped)
        /\ ReadyKind(n, valid \union skips, deps) \in {"ready", "judgment"}
    BY <1>1, <1>4 DEF Buckets
  <2>3. ReadyKind(n, valid, deps) \in {"ready", "judgment"}
    BY <2>1, <2>2
  <2>4. QED
    BY <1>2, <1>4, <2>2, <2>3, ReadyIsReached
<1>5. QED
  BY <1>3, <1>4

LEMMA AdvanceInOrder ==
  ASSUME IInv, NEW settled \in SUBSET Nodes, NEW after, FirstPass, InOrder(settled, after),
         NEW nodes \in SUBSET Nodes, NEW outcome, Advance(nodes, outcome),
         \A n \in nodes : /\ Reached(n, settled, after) /\ n \notin frontier
                          /\ n \in settled => SkipHolds(n)
  PROVE  InOrder(settled, after)'
<1>1. /\ completed' = completed \union nodes
      /\ UNCHANGED <<note, frontier, skipped, counters, flags, version, working>>
  BY DEF Advance
<1>2. ActiveDeps' = ActiveDeps /\ \A n \in Nodes : SkipHolds(n)' = SkipHolds(n)
  BY <1>1 DEF ActiveDeps, Active, ActiveWith, SkipHolds
<1>3. AncestorsCame'
  BY <1>1, <1>2 DEF InOrder, AncestorsCame, Reached, To, ActiveDeps
<1>4. \A d \in settled : Came(d, after[d])'
  BY <1>1 DEF InOrder, Came, Reached
<1>5. \A d \in settled : Stays(d)'
  BY <1>1, <1>2 DEF InOrder, Stays
<1>6. QED
  BY <1>1, <1>3, <1>4, <1>5 DEF InOrder

LEMMA DispatchInOrder ==
  ASSUME IInv, NEW settled \in SUBSET Nodes, NEW after, FirstPass, InOrder(settled, after),
         NEW nodes \in SUBSET Nodes, Dispatch(nodes),
         \A n \in nodes : /\ Reached(n, settled, after) /\ n \notin frontier
                          /\ n \in settled => n \notin completed
  PROVE  InOrder(settled, after)'
<1>1. /\ frontier' = frontier \union nodes
      /\ working' = [n \in Nodes |-> working[n] + IF n \in nodes THEN 1 ELSE 0]
      /\ UNCHANGED <<note, completed, skipped, counters, flags, version>>
  BY DEF Dispatch
<1>2. ActiveDeps' = ActiveDeps /\ \A n \in Nodes : SkipHolds(n)' = SkipHolds(n)
  BY <1>1 DEF ActiveDeps, Active, ActiveWith, SkipHolds
<1>3. AncestorsCame'
  BY <1>1, <1>2 DEF InOrder, AncestorsCame, Reached, To, ActiveDeps
<1>4. \A d \in settled : Came(d, after[d])'
  BY <1>1 DEF InOrder, Came, Reached
<1>5. \A d \in settled : Stays(d)'
  BY <1>1, <1>2 DEF InOrder, Stays
<1>6. \A n \in Nodes : working'[n] = IF n \in frontier' THEN 1 ELSE 0
  BY <1>1 DEF InOrder
<1>7. frontier' \cap skipped' = {}
  BY <1>1 DEF InOrder, Reached
<1>8. QED
  BY <1>3, <1>4, <1>5, <1>6, <1>7 DEF InOrder

LEMMA DriveInOrder ==
  ASSUME IInv, NEW settled, NEW after, Ordered(settled, after), FirstPass,
         InOrder(settled, after), Drive
  PROVE  InOrder(settled, after)'
<1>1. PICK j \in {Compute} : \/ SkipByPolicy(j)
                             \/ Join(j)
                             \/ Finish(j)
                             \/ Halt(j)
                             \/ HandOut(j)
                             \/ Close(j)
  BY DEF Drive
<1>2. settled \in SUBSET Nodes
  BY DEF Ordered
<1>3. j.auto_skip \subseteq Nodes /\ j.ready \subseteq Nodes
  BY ComputeType
<1>4. \A n \in j.auto_skip : Reached(n, settled, after) /\ n \notin frontier /\ SkipHolds(n)
  BY ComputedInOrder
<1>5. ASSUME j.auto_skip = {}
      PROVE  \A n \in j.ready : /\ Reached(n, settled, after) /\ n \notin frontier
                                /\ n \in settled => n \notin completed
  BY <1>5, ComputedInOrder
<1>6. \A categories : ReadyOf(j, categories) \subseteq j.ready
  BY DEF ReadyOf
<1>7. \A n \in ReadyOf(j, {"JOIN"}) \union ReadyOf(j, {"TERMINAL"}) : n \notin settled
  BY DEF ReadyOf, Ordered
<1>8. CASE SkipByPolicy(j)
  BY <1>8, <1>2, <1>3, <1>4, AdvanceInOrder DEF SkipByPolicy
<1>9. CASE Join(j)
  BY <1>9, <1>2, <1>3, <1>5, <1>6, <1>7, AdvanceInOrder DEF Join
<1>10. CASE Finish(j)
  <2>1. PICK n \in ReadyOf(j, {"TERMINAL"}) : Advance({n}, "DONE")
    BY <1>10 DEF Finish
  <2>2. j.auto_skip = {} /\ n \in j.ready /\ n \notin settled
    BY <1>6, <1>7, <1>10, <2>1 DEF Finish
  <2>3. Reached(n, settled, after) /\ n \notin frontier /\ {n} \in SUBSET Nodes
    BY <1>3, <1>5, <2>2
  <2>4. QED
    BY <1>2, <2>1, <2>2, <2>3, AdvanceInOrder
<1>11. CASE Halt(j)
  <2>1. PICK g \in ReadyOf(j, {"BLOCKING_GATE"}) : Dispatch({g})
    BY <1>11 DEF Halt
  <2>2. g \in j.ready /\ j.auto_skip = {}
    BY <1>6, <1>11, <2>1 DEF Halt
  <2>3. /\ Reached(g, settled, after) /\ g \notin frontier /\ {g} \in SUBSET Nodes
        /\ g \in settled => g \notin completed
    BY <1>3, <1>5, <2>2
  <2>4. QED
    BY <1>2, <2>1, <2>3, DispatchInOrder
<1>12. CASE HandOut(j)
  BY <1>12, <1>2, <1>3, <1>5, <1>6, DispatchInOrder DEF HandOut
<1>13. CASE Close(j)
  BY <1>13, <1>2, AdvanceInOrder DEF Close
<1>14. QED
  BY <1>1, <1>8, <1>9, <1>10, <1>11, <1>12, <1>13

(* On a first pass an answer completes its node or, failing without a      *)
(* target, leaves it to be handed out again.                               *)
Passes(n, envelope) ==
  /\ completed' = completed \union {n}
  /\ outcomes' = [outcomes EXCEPT ![n] = envelope.outcome]
  /\ envelope.outcome \in Completing(n) \ {"BLOCKER"}
  /\ Stamp(n, envelope.changed)
FailsBare(n) ==
  /\ outcomes' = [outcomes EXCEPT ![n] = "FAIL"]
  /\ UNCHANGED <<completed, version>>

LEMMA FirstPassAnswer ==
  ASSUME IInv, FirstPass, FirstPass', NEW n \in Nodes, NEW envelope \in Envelopes[n],
         Done(n, envelope)
  PROVE  /\ Passes(n, envelope) \/ FailsBare(n)
         /\ frontier' = frontier \ {n} /\ skipped' = skipped /\ status' = "in_progress"
         /\ working' = [working EXCEPT ![n] = IF @ = 0 THEN 0 ELSE @ - 1]
         /\ flags' = Merged(flags, envelope.flags)
<1> DEFINE env == Resolved(n, envelope)
<1>1. /\ env \in EnvelopesOf(n) /\ envelope \in EnvelopesOf(n)
      /\ env.flags = envelope.flags /\ env.changed = envelope.changed
      /\ env.outcome = envelope.outcome /\ env.severity = envelope.severity
  <2>1. envelope \in EnvelopesOf(n)
    BY EnvelopesAssumption
  <2>2. QED
    BY <2>1, ResolvedType DEF Resolved, EnvelopesOf
<1> HIDE DEF env
<1>2. /\ Receive(n, env) /\ MergeFlags(env)
      /\ \/ AdvisoryFail(n, env) \/ ReturnFail(n, env) \/ BareFail(n, env)
         \/ Rejected(n, env) \/ Completion(n, env)
  BY DEF Done, env
<1>3. ~ ReturnFail(n, env)
  <2>1. SUFFICES ASSUME ReturnFail(n, env) PROVE FALSE
    OBVIOUS
  <2>2. <<n, env.returns_to>> \in ReturnEdges
    BY <1>1, <2>1 DEF ReturnFail, EnvelopesOf, ReturnEdges
  <2>3. counters'[<<n, env.returns_to>>] # 0
    BY <2>1, <2>2 DEF ReturnFail, IInv, TypeOK
  <2>4. QED
    BY <2>2, <2>3 DEF FirstPass
<1>4. frontier' = frontier \ {n}
  <2>1. CASE env.outcome = "FAIL" /\ env.severity = "blocking"
    <3>1. env.returns_to = NoNode
      BY <1>2, <1>3, <2>1 DEF AdvisoryFail, BareFail, Rejected, Completion
    <3>2. NoNode \notin frontier
      BY GraphAssumption DEF IInv, TypeOK
    <3>3. QED
      BY <1>2, <2>1, <3>1, <3>2 DEF Receive
  <2>2. CASE ~ (env.outcome = "FAIL" /\ env.severity = "blocking")
    BY <1>2, <2>2 DEF Receive
  <2>3. QED
    BY <2>1, <2>2
<1>5. CASE BareFail(n, env)
  BY <1>1, <1>2, <1>4, <1>5 DEF BareFail, FailsBare, Receive, MergeFlags
<1>6. CASE AdvisoryFail(n, env) \/ Completion(n, env)
  <2>1. /\ completed' = completed \union {n}
        /\ outcomes' = [outcomes EXCEPT ![n] = env.outcome]
        /\ Stamp(n, env.changed) /\ status' = "in_progress"
        /\ env.outcome \notin {"REJECTED", "BLOCKER"}
        /\ env.outcome = "FAIL" => env.severity = "advisory"
    BY <1>6 DEF AdvisoryFail, Completion, FirstPass
  <2>2. envelope.outcome \in Completing(n) \ {"BLOCKER"}
    BY <1>1, <2>1 DEF Completing
  <2>3. QED
    BY <1>1, <1>2, <1>4, <2>1, <2>2 DEF Passes, Receive, MergeFlags
<1>7. QED
  BY <1>2, <1>3, <1>5, <1>6 DEF Rejected, FirstPass

(* Conditions that hang on nothing its envelope declares keep their        *)
(* verdict.                                                                *)
LEMMA DeclaredOnly ==
  ASSUME IInv, NEW n \in Nodes, NEW envelope \in Envelopes[n],
         flags' = Merged(flags, envelope.flags),
         NEW condition, Reads(condition) \subseteq DOMAIN ProjectFlags,
         Reads(condition) \cap Declared(n) = {}
  PROVE  /\ StructuralLive(condition, flags') = StructuralLive(condition, flags)
         /\ Classify(condition, flags', "none") = Classify(condition, flags, "none")
<1>1. \A name \in DOMAIN ProjectFlags :
         flags'[name] = IF envelope.flags[name] # "unset" THEN envelope.flags[name]
                        ELSE flags[name]
  BY DEF Merged, IInv, TypeOK
<1>2. Agree(flags', flags, Reads(condition))
  BY <1>1 DEF Agree, Declared
<1>3. QED
  BY <1>2, SameVerdict

(* An envelope of a node that was handed out or is for its caller to       *)
(* decide: nothing that hangs on what it says is under way.                *)
LEMMA DoneInOrder ==
  ASSUME IInv, NEW settled, NEW after, Ordered(settled, after),
         FirstPass, FirstPass', InOrder(settled, after),
         NEW n \in Nodes, NEW envelope \in Envelopes[n], Done(n, envelope),
         Reached(n, settled, after), n \in settled => n \notin completed
  PROVE  InOrder(settled, after)'
<1>1. envelope \in EnvelopesOf(n)
  BY EnvelopesAssumption
<1>2. /\ Passes(n, envelope) \/ FailsBare(n)
      /\ working' = [working EXCEPT ![n] = IF @ = 0 THEN 0 ELSE @ - 1]
      /\ flags' = Merged(flags, envelope.flags)
  BY FirstPassAnswer
<1>3. /\ completed \subseteq completed' /\ completed' \subseteq completed \union {n}
      /\ n \in completed' => n \in completed \/ Stamp(n, envelope.changed)
      /\ UNCHANGED version \/ Stamp(n, envelope.changed)
      /\ UNCHANGED skipped
  BY <1>2, FirstPassAnswer DEF Passes, FailsBare
<1>4. frontier' = frontier \ {n}
  BY FirstPassAnswer
<1>5. \A m \in Nodes : working'[m] = IF m \in frontier' THEN 1 ELSE 0
  <2>1. working' = [working EXCEPT ![n] = IF @ = 0 THEN 0 ELSE @ - 1]
        /\ working \in [Nodes -> Nat]
    BY <1>2 DEF IInv, TypeOK
  <2>2. QED
    BY <1>4, <2>1 DEF InOrder
<1>7. ASSUME NEW condition, Reads(condition) \subseteq DOMAIN ProjectFlags,
             Reads(condition) \cap Declared(n) = {}
      PROVE  /\ StructuralLive(condition, flags') = StructuralLive(condition, flags)
             /\ Classify(condition, flags', "none") = Classify(condition, flags, "none")
  BY <1>2, <1>7, DeclaredOnly
<1>8. \A e \in ForwardEdges :
         EdgeReads(e) \cap Declared(n) # {} =>
           /\ n \in settled /\ e.to \in after[n] /\ e.to # n
           /\ e.to \notin completed \union frontier \union skipped
  <2>1. TAKE e \in ForwardEdges
  <2>2. SUFFICES ASSUME EdgeReads(e) \cap Declared(n) # {}
                 PROVE  /\ n \in settled /\ e.to \in after[n] /\ e.to # n
                        /\ e.to \notin completed \union frontier \union skipped
    OBVIOUS
  <2>3. n \in settled /\ e.to \in after[n]
    BY <2>2 DEF Ordered
  <2>4. e.to # n
    BY <2>3 DEF Ordered, Downstream
  <2>5. Came(n, after[n])
    BY <2>3 DEF InOrder
  <2>6. QED
    BY <2>3, <2>4, <2>5 DEF Came, Reached
<1>9. AncestorsCame'
  <2>1. SUFFICES ASSUME NEW e \in ActiveDeps',
                        e.to \in completed' \union frontier' \union skipped'
                 PROVE  e.from \in completed'
    BY DEF AncestorsCame
  <2>2. e \in ForwardEdges /\ e.to \in completed \union frontier \union skipped \union {n}
    BY <1>3, <1>4, <2>1 DEF ActiveDeps
  <2>3. EdgeReads(e) \cap Declared(n) = {}
    BY <1>8, <2>2
  <2>4. EdgeReads(e) \subseteq DOMAIN ProjectFlags
    BY <2>2 DEF Ordered
  <2>5. e \in ActiveDeps
    BY <1>3, <1>7, <2>1, <2>3, <2>4 DEF ActiveDeps, Active, ActiveWith, EdgeReads
  <2>6. e.from \in completed
    BY <2>2, <2>5 DEF InOrder, AncestorsCame, Reached, To
  <2>7. QED
    BY <1>3, <2>6
<1>10. \A d \in settled : Came(d, after[d])'
  BY <1>3, <1>4 DEF InOrder, Came, Reached
<1>11. ASSUME NEW d \in settled, d \in completed'
       PROVE  d \notin frontier' /\ (version'[d] = "fresh" \/ SkipHolds(d)')
  <2>1. d \in Nodes /\ version \in Versions
    BY DEF Ordered, IInv, TypeOK, Versions
  <2>2. CASE d = n
    <3>1. Stamp(n, envelope.changed)
      BY <1>3, <1>11, <2>2
    <3>2. version'[d] = "fresh"
      BY <2>1, <2>2, <3>1 DEF Stamp, Aged, Versions
    <3>3. QED
      BY <1>4, <2>2, <3>2
  <2>3. CASE d # n
    <3>1. d \in completed /\ d \notin frontier /\ (version[d] = "fresh" \/ SkipHolds(d))
      BY <1>3, <1>11, <2>3 DEF InOrder, Stays
    <3>2. ~ Informs(n, d)
      <4>1. Informs(n, d) => n \in settled /\ d \in after[n]
        BY DEF Ordered
      <4>2. n \in settled => Came(n, after[n])
        BY DEF InOrder
      <4>3. QED
        BY <3>1, <4>1, <4>2 DEF Came, Reached
    <3>3. CASE version[d] = "fresh"
      <4>1. envelope.changed \cap NodeInputs[d] = {}
        BY <1>1, <3>2 DEF Informs
      <4>2. version'[d] = "fresh"
        BY <1>3, <2>1, <2>3, <3>3, <4>1 DEF Stamp, Aged, Consumers, Versions
      <4>3. QED
        BY <1>4, <3>1, <4>2
    <3>4. CASE SkipHolds(d)
      <4>1. Reads(NodeSkipIf[d]) \cap Declared(n) = {}
            /\ Reads(NodeSkipIf[d]) \subseteq DOMAIN ProjectFlags
        BY <3>2 DEF Informs, Ordered
      <4>2. SkipHolds(d)'
        BY <1>7, <3>4, <4>1 DEF SkipHolds
      <4>3. QED
        BY <1>4, <3>1, <4>2
    <3>5. QED
      BY <3>1, <3>3, <3>4
  <2>4. QED
    BY <2>2, <2>3
<1>12. frontier' \cap skipped' = {}
  BY <1>3, <1>4 DEF InOrder
<1>13. QED
  BY <1>5, <1>9, <1>10, <1>11, <1>12 DEF InOrder, Stays

LEMMA InitInOrder ==
  ASSUME NEW settled, NEW after
  PROVE  Init => CountersAreNoted /\ InOrder(settled, after)
  BY DEF Init, CountersAreNoted, InOrder, AncestorsCame, Came, Stays

LEMMA DecidedInOrder ==
  ASSUME NEW settled, NEW after, Ordered(settled, after), FirstPass, InOrder(settled, after),
         NEW n \in ToDecide
  PROVE  /\ Reached(n, settled, after) /\ n \in Nodes \ frontier
         /\ n \in settled => n \notin completed
<1>1. PICK j \in {Compute} :
        n \in IF ~ (Running /\ Idle(j)) THEN {}
              ELSE IF j.ready # {} THEN j.ready ELSE j.judgment
  BY DEF ToDecide
<1>2. j.auto_skip = {} /\ n \in j.ready \union j.judgment
  BY <1>1 DEF Idle
<1>3. QED
  BY <1>2, ComputedInOrder

LEMMA StepInOrder ==
  ASSUME NEW settled, NEW after, Ordered(settled, after),
         IInv, CountersAreNoted, InOrder(settled, after), [Next]_vars
  PROVE  InOrder(settled, after)'
<1>1. SUFFICES ASSUME FirstPass, FirstPass'
               PROVE  InOrder(settled, after)'
  BY CountersNoted DEF InOrder
<1>2. CASE Drive
  BY <1>1, <1>2, DriveInOrder
<1>3. ASSUME NEW n \in Nodes, Answer(n)
      PROVE  InOrder(settled, after)'
  <2>1. n \in frontier
    BY <1>1, <1>3 DEF Answer, InOrder
  <2>2. Reached(n, settled, after)
    BY <1>1, <2>1 DEF InOrder, AncestorsCame, Came, Reached, To
  <2>3. n \in settled => n \notin completed
    BY <1>1, <2>1 DEF InOrder, Stays
  <2>4. QED
    BY <1>1, <1>3, <2>2, <2>3, DoneInOrder DEF Answer
<1>4. ASSUME NEW n \in ToDecide, Decide(n)
      PROVE  InOrder(settled, after)'
  BY <1>1, <1>4, DecidedInOrder, DoneInOrder DEF Decide
<1>5. ASSUME NEW n \in ToDecide, Skip(n)
      PROVE  InOrder(settled, after)'
  <2>1. Reached(n, settled, after) /\ n \in Nodes \ frontier
    BY <1>1, DecidedInOrder
  <2>2. /\ skipped' = skipped \union {n} /\ frontier' = frontier
        /\ UNCHANGED <<completed, flags, version, working>>
    BY <1>5, <2>1 DEF Skip
  <2>3. ActiveDeps' \subseteq ActiveDeps /\ \A d : SkipHolds(d)' = SkipHolds(d)
    BY <2>2 DEF ActiveDeps, Active, ActiveWith, SkipHolds
  <2>4. AncestorsCame'
    BY <1>1, <2>1, <2>2, <2>3 DEF InOrder, AncestorsCame, Reached, To
  <2>5. \A d \in settled : Came(d, after[d])' /\ Stays(d)'
    BY <1>1, <2>1, <2>2, <2>3 DEF InOrder, Came, Stays, Reached
  <2>6. QED
    BY <1>1, <2>1, <2>2, <2>4, <2>5 DEF InOrder
<1>6. ASSUME NEW edge \in ReturnEdges, ResolveLoop(edge)
      PROVE  FALSE
  BY <1>1, <1>6 DEF ResolveLoop, FirstPass
<1>7. CASE UNCHANGED vars
  BY <1>7 DEF vars, InOrder, AncestorsCame, FirstPass, ActiveDeps, Active, ActiveWith,
                     Came, Stays, SkipHolds
<1>8. QED
  BY <1>2, <1>3, <1>4, <1>5, <1>6, <1>7 DEF Next

LEMMA FirstPassInductive ==
  ASSUME NEW CONSTANT settled, NEW CONSTANT after, Ordered(settled, after)
  PROVE  Spec => [](IInv /\ CountersAreNoted /\ InOrder(settled, after))
<1> DEFINE FInv == IInv /\ CountersAreNoted /\ InOrder(settled, after)
<1>1. Init => FInv
  BY InitHolds, InitInOrder
<1>2. FInv /\ [Next]_vars => FInv'
  BY StepHolds, CountersNoted, StepInOrder
<1>3. QED
  BY <1>1, <1>2, PTL DEF Spec

(* AncestorsDone: in every graph whose flags are declared in order, a node *)
(* is handed out on a first pass only when all it waits for is done, and   *)
(* no flag that is declared later makes it wait for something else.        *)
THEOREM AncestorsComeFirst ==
  ASSUME NEW CONSTANT settled, NEW CONSTANT after, Ordered(settled, after)
  PROVE  Spec => []AncestorsDone
<1>1. InOrder(settled, after) => AncestorsDone
  BY DEF InOrder, AncestorsCame, AncestorsDone
<1>2. QED
  BY FirstPassInductive, <1>1, PTL

(* FirstPassRunsOnce, of the nodes whose inputs come from before them:     *)
(* whatever gates produce, they are not handed out again on a first pass.  *)
THEOREM SettledRunOnce ==
  ASSUME NEW CONSTANT settled, NEW CONSTANT after, Ordered(settled, after)
  PROVE  Spec => [][FirstPass => settled \cap completed \cap (frontier' \ frontier) = {}]_vars
<1>1. ASSUME IInv, InOrder(settled, after), [Next]_vars
      PROVE  [FirstPass => settled \cap completed \cap (frontier' \ frontier) = {}]_vars
  <2>1. SUFFICES ASSUME FirstPass, Next, NEW n \in settled, n \in frontier' \ frontier
                 PROVE  n \notin completed
    BY <1>1 DEF vars
  <2>2. \A m \in Nodes : \A envelope \in Envelopes[m] :
          Done(m, envelope) => frontier' \subseteq frontier
    BY DEF Done, Receive
  <2>3. Drive
    BY <2>1, <2>2, ToDecideType DEF Next, Answer, Decide, Skip, ResolveLoop
  <2>4. PICK j \in {Compute} : Halt(j) \/ HandOut(j)
    BY <2>1, <2>3 DEF Drive, SkipByPolicy, Join, Finish, Close, Advance
  <2>5. j.auto_skip = {} /\ n \in j.ready
    BY <2>1, <2>4 DEF Halt, HandOut, Dispatch, ReadyOf
  <2>6. QED
    BY <1>1, <2>1, <2>5, ComputedInOrder
<1>2. QED
  BY FirstPassInductive, <1>1, PTL DEF Spec

----------------------------------------------------------------------------
(* The end of a first pass. *)

LEMMA LeastNatural ==
  ASSUME NEW numbers \in SUBSET Nat, numbers # {}
  PROVE  \E x \in numbers : \A y \in numbers : ~ (y < x)
<1> DEFINE less == {pair \in Nat \X Nat : pair[1] < pair[2]}
<1>1. IsWellFoundedOn(less, Nat)
  BY NatLessThanWellFounded DEF OpToRel
<1>2. \A x, y \in Nat : y < x => <<y, x>> \in less
  OBVIOUS
<1> HIDE DEF less
<1>3. PICK x \in numbers : \A y \in numbers : ~ (<<y, x>> \in less)
  BY <1>1, WFMin
<1>4. \A y \in numbers : ~ (y < x)
  <2>1. TAKE y \in numbers
  <2>2. x \in Nat /\ y \in Nat
    OBVIOUS
  <2>3. QED
    BY <1>2, <1>3, <2>2
<1>5. QED
  BY <1>3, <1>4

(* The terminal closes the run, and nothing else does.                     *)
Closed(terminal, flaggings) ==
  /\ flags \in flaggings
  /\ FirstPass /\ status = "done" => terminal \in completed

LEMMA DriveCloses ==
  ASSUME NEW terminal, NEW remaining, NEW flaggings,
         Converges(terminal, remaining, flaggings), TypeOK, Drive, status' = "done"
  PROVE  terminal \in completed'
<1>1. PICK j \in {Compute} : Finish(j) \/ Close(j)
  BY DEF Drive, Running, SkipByPolicy, Join, Halt, HandOut, Dispatch
<1>2. j.ready \subseteq Nodes
  BY ComputeType
<1>3. CASE Finish(j)
  <2>1. PICK n \in ReadyOf(j, {"TERMINAL"}) : Advance({n}, "DONE")
    BY <1>3 DEF Finish
  <2>2. n \in Nodes /\ DriveCategory[n] = "TERMINAL"
    BY <1>2, <2>1 DEF ReadyOf
  <2>3. n = terminal
    BY <2>2 DEF Converges
  <2>4. QED
    BY <2>1, <2>3 DEF Advance
<1>4. CASE Close(j)
  <2>1. j.auto_skip = {} /\ j.terminal_reached /\ completed' = completed
    BY <1>4 DEF Close, Idle, Advance
  <2> DEFINE valid == ValidCompleted(ActiveDeps)
  <2>2. j = Buckets(ActiveDeps, valid, AutoSkip(valid, ActiveDeps))
    BY DEF Compute
  <2>3. valid \subseteq completed
    BY DEF ValidCompleted
  <2> HIDE DEF valid
  <2>4. /\ j.auto_skip = AutoSkip(valid, ActiveDeps)
        /\ j.terminal_reached =>
             \E n \in valid \union AutoSkip(valid, ActiveDeps) : DriveCategory[n] = "TERMINAL"
    BY <2>2 DEF Buckets
  <2>5. PICK n \in completed : DriveCategory[n] = "TERMINAL"
    BY <2>1, <2>3, <2>4
  <2>6. QED
    BY <2>1, <2>5 DEF Converges, TypeOK
<1>5. QED
  BY <1>1, <1>3, <1>4

LEMMA StepClosed ==
  ASSUME NEW terminal, NEW remaining, NEW flaggings,
         Converges(terminal, remaining, flaggings),
         IInv, CountersAreNoted, Closed(terminal, flaggings), [Next]_vars
  PROVE  Closed(terminal, flaggings)'
<1>1. FirstPass' => FirstPass
  BY CountersNoted
<1>2. CASE Drive
  <2>1. UNCHANGED flags /\ completed \subseteq completed' /\ status \in {"in_progress"}
    BY <1>2 DEF Drive, Running, SkipByPolicy, Join, Finish, Halt, HandOut, Close, Advance, Dispatch
  <2>2. QED
    BY <1>2, <2>1, DriveCloses DEF Closed, IInv
<1>3. ASSUME NEW n \in Nodes, NEW envelope \in Envelopes[n], Done(n, envelope)
      PROVE  Closed(terminal, flaggings)'
  <2> DEFINE env == Resolved(n, envelope)
  <2>1. env.flags = envelope.flags
    BY EnvelopesAssumption DEF Resolved, EnvelopesOf
  <2> HIDE DEF env
  <2>2. /\ flags' = Merged(flags, env.flags)
        /\ \/ AdvisoryFail(n, env) \/ ReturnFail(n, env) \/ BareFail(n, env)
           \/ Rejected(n, env) \/ Completion(n, env)
    BY <1>3 DEF Done, MergeFlags, env
  <2>3. status' # "done"
    BY <2>2 DEF AdvisoryFail, ReturnFail, BareFail, Rejected, Completion
  <2>4. flags' \in flaggings
    BY <2>1, <2>2 DEF Closed, Converges, Possible
  <2>5. QED
    BY <2>3, <2>4 DEF Closed
<1>4. ASSUME NEW n \in Nodes, Skip(n)
      PROVE  Closed(terminal, flaggings)'
  BY <1>1, <1>4 DEF Skip, Closed
<1>5. ASSUME NEW edge \in ReturnEdges, ResolveLoop(edge)
      PROVE  Closed(terminal, flaggings)'
  BY <1>1, <1>5 DEF ResolveLoop, Closed, FirstPass
<1>6. CASE UNCHANGED vars
  BY <1>6 DEF vars, Closed, FirstPass
<1>7. QED
  BY <1>2, <1>3, <1>4, <1>5, <1>6, ToDecideType DEF Next, Answer, Decide

(* When all the terminal waits for is done, so is everything that takes    *)
(* part: of what is not, take the nearest; the way on from it leads to a   *)
(* node that is done, and that waited for it.                              *)
LEMMA NothingLeftOut ==
  ASSUME NEW settled, NEW after, NEW terminal, NEW remaining, NEW flaggings,
         Converges(terminal, remaining, flaggings), flags \in flaggings,
         InOrder(settled, after), FirstPass,
         \A e \in To(terminal, ActiveDeps) : e.from \in completed
  PROVE  \A n \in Nodes \ {terminal} : Active(n) => n \in completed \union skipped
<1> DEFINE left == {n \in Nodes \ {terminal} : Active(n) /\ n \notin completed \union skipped}
<1>1. SUFFICES ASSUME left # {} PROVE FALSE
  OBVIOUS
<1>2. {remaining[n] : n \in left} \in SUBSET Nat /\ {remaining[n] : n \in left} # {}
  BY <1>1 DEF Converges
<1>3. PICK n \in left : \A m \in left : ~ (remaining[m] < remaining[n])
  BY <1>2, LeastNatural
<1>4. n \in Nodes \ {terminal} /\ ActiveWith(n, flags) /\ n \notin skipped
  BY <1>3 DEF Active
<1>5. PICK e \in ForwardEdges :
        /\ e.from = n /\ StructuralLive(e.when, flags)
        /\ e.to \in Nodes /\ ActiveWith(e.to, flags) /\ remaining[e.to] < remaining[n]
  BY <1>4 DEF Converges
<1>6. e \in ActiveDeps
  BY <1>4, <1>5 DEF ActiveDeps, Active
<1>7. e.to = terminal \/ e.to \in completed \union skipped
  BY <1>3, <1>5 DEF Active
<1>8. n \in completed
  BY <1>5, <1>6, <1>7 DEF InOrder, AncestorsCame, To
<1>9. QED
  BY <1>3, <1>8

(* FirstPassClosesComplete: in every graph whose flags are declared in     *)
(* order and whose ways lead to the terminal whatever they are, a run that *)
(* closes without a return has left no node out.                           *)
THEOREM ClosesComplete ==
  ASSUME NEW CONSTANT settled, NEW CONSTANT after, Ordered(settled, after),
         NEW CONSTANT terminal, NEW CONSTANT remaining, NEW CONSTANT flaggings,
         Converges(terminal, remaining, flaggings)
  PROVE  Spec => []FirstPassClosesComplete
<1>1. Init => Closed(terminal, flaggings)
  BY DEF Init, Closed, Converges, Possible
<1>2. /\ IInv /\ CountersAreNoted /\ InOrder(settled, after)
      /\ Closed(terminal, flaggings) /\ [Next]_vars
      => Closed(terminal, flaggings)'
  BY StepClosed
<1>3. InOrder(settled, after) /\ Closed(terminal, flaggings) => FirstPassClosesComplete
  <2>1. SUFFICES ASSUME InOrder(settled, after), Closed(terminal, flaggings),
                        status = "done", FirstPass
                 PROVE  \A n \in Nodes : Active(n) => n \in completed \union skipped
    BY DEF FirstPassClosesComplete
  <2>2. terminal \in completed /\ flags \in flaggings
    BY <2>1 DEF Closed
  <2>3. \A e \in To(terminal, ActiveDeps) : e.from \in completed
    BY <2>1, <2>2 DEF InOrder, AncestorsCame, To
  <2>4. QED
    BY <2>1, <2>2, <2>3, NothingLeftOut
<1>4. QED
  BY FirstPassInductive, <1>1, <1>2, <1>3, PTL DEF Spec

----------------------------------------------------------------------------
(* Each node once. *)

(* On a first pass nobody is at work on what is done, nor on what was      *)
(* turned off.  What is not settled goes stale only when a late node is    *)
(* done, and the terminal closes the run while nobody is at work.          *)
Quiet(late, terminal) ==
  /\ frontier \cap completed = {}
  /\ \A n \in frontier \union (late \cap completed) : Active(n) /\ n \notin skipped
  /\ \A n \in late \cap completed : outcomes[n] \in Passing(n)
  /\ \A n \in completed : outcomes[n] # "none"
  /\ terminal \notin frontier \union skipped
  /\ terminal \in completed => status = "done"
  /\ status = "done" => frontier = {}
Current(settled, late) ==
  \A u \in completed \ settled :
    \/ DriveCategory[u] \in {"JOIN", "TERMINAL"}
    \/ version[u] = "fresh" \/ late \cap completed # {}

(* A late node with a finding leaves the terminal waiting for good.        *)
Shut(late, terminal) ==
  /\ terminal \notin completed \union frontier \union skipped
  /\ \E n \in late \cap completed : Active(n) /\ n \notin skipped /\ outcomes[n] = "FAIL"

OnceOnly(settled, late, terminal) ==
  FirstPass => (Quiet(late, terminal) /\ Current(settled, late)) \/ Shut(late, terminal)

(* Once a late node is done, the terminal is ready.                        *)
LEMMA LateIsLast ==
  ASSUME IInv, NEW settled, NEW after, NEW late, NEW terminal, NEW flaggings,
         Ordered(settled, after), Closing(settled, after, late, terminal, flaggings),
         FirstPass, InOrder(settled, after), flags \in flaggings,
         Quiet(late, terminal), Running,
         NEW n \in late \cap completed, NEW j, j = Compute, j.auto_skip = {}
  PROVE  terminal \in j.ready
<1> DEFINE deps == ActiveDeps
           valid == ValidCompleted(deps)
           skips == AutoSkip(valid, deps)
<1>1. j = Buckets(deps, valid, skips)
  BY DEF Compute
<1>2. skips = {}
  BY <1>1 DEF Buckets
<1>3. n \in valid /\ valid \subseteq completed
  BY DEF ValidCompleted, Stands, InOrder, Stays, Closing
<1> HIDE DEF valid
<1>4. /\ terminal \in Nodes \ (completed \union frontier \union skipped)
      /\ ActiveWith(n, flags) /\ n \notin skipped /\ outcomes[n] \in Passing(n)
  BY DEF Closing, Quiet, Running, Active
<1> DEFINE live == {e \in To(terminal, ForwardEdges) :
                      StructuralLive(e.when, flags) /\ ActiveWith(e.from, flags)}
<1>5. /\ ActiveWith(terminal, flags)
      /\ {e.from : e \in live} = {n}
      /\ \A e \in live, outcome \in Passing(n) : Classify(e.when, flags, outcome) = "eligible"
  BY <1>4 DEF Closing, Ends
<1>6. To(terminal, deps) = live
  BY <1>4, <1>5 DEF To, ActiveDeps, Active
<1>7. /\ To(terminal, deps) # {}
      /\ \A e \in To(terminal, deps) : e.from = n /\ EdgeClass(e) = "eligible"
  BY <1>4, <1>5, <1>6 DEF EdgeClass
<1>8. ReadyKind(terminal, valid \union skips, deps) = "ready"
  BY <1>3, <1>7 DEF ReadyKind
<1>9. QED
  BY <1>1, <1>2, <1>3, <1>4, <1>5, <1>8 DEF Buckets, Active

(* So what is offered before the terminal is was never done.               *)
LEMMA OfferedOnce ==
  ASSUME IInv, NEW settled, NEW after, NEW late, NEW terminal, NEW flaggings,
         Ordered(settled, after), Closing(settled, after, late, terminal, flaggings),
         FirstPass, InOrder(settled, after), flags \in flaggings,
         Quiet(late, terminal), Current(settled, late), Running,
         NEW j, j = Compute, j.auto_skip = {}, terminal \notin j.ready,
         NEW n \in j.ready, DriveCategory[n] \notin {"JOIN", "TERMINAL"}
  PROVE  n \notin completed
<1> DEFINE deps == ActiveDeps
           valid == ValidCompleted(deps)
<1>1. n \notin valid
  BY DEF Compute, Buckets
<1>2. \A u \in completed : version[u] = "fresh" => u \in valid
  BY DEF ValidCompleted, Stands
<1>3. late \cap completed = {}
  BY LateIsLast
<1>4. n \in settled => n \notin completed
  BY ComputedInOrder
<1>5. QED
  BY <1>1, <1>2, <1>3, <1>4 DEF Current

(* Nobody is asked whether to run the terminal.                            *)
LEMMA TerminalNotAsked ==
  ASSUME IInv, NEW settled, NEW after, NEW late, NEW terminal, NEW flaggings,
         Closing(settled, after, late, terminal, flaggings),
         flags \in flaggings, Quiet(late, terminal)
  PROVE  terminal \notin ToDecide
<1>1. SUFFICES ASSUME terminal \in ToDecide PROVE FALSE
  OBVIOUS
<1>2. PICK j \in {Compute} :
        terminal \in IF ~ (Running /\ Idle(j)) THEN {}
                     ELSE IF j.ready # {} THEN j.ready ELSE j.judgment
  BY <1>1 DEF ToDecide
<1>3. /\ j.auto_skip = {} /\ j.ready \subseteq ReadyOf(j, {"ROUTER"})
      /\ terminal \in j.ready \union j.judgment
  BY <1>2 DEF Idle
<1>4. terminal \in j.judgment
  BY <1>3 DEF ReadyOf, Closing
<1> DEFINE deps == ActiveDeps
           valid == ValidCompleted(deps)
           done == valid \union AutoSkip(valid, deps)
<1>5. j.auto_skip = AutoSkip(valid, deps) /\ ReadyKind(terminal, done, deps) = "judgment"
  BY <1>4 DEF Compute, Buckets
<1>6. done \subseteq completed
  BY <1>3, <1>5 DEF ValidCompleted
<1> HIDE DEF done, valid
<1>7. PICK e \in To(terminal, deps) : e.from \in done /\ EdgeClass(e) = "judgment"
  BY <1>5 DEF ReadyKind
<1>8. e \in To(terminal, ForwardEdges)
  BY <1>7 DEF To, ActiveDeps
<1>9. outcomes[e.from] \in Results
  BY <1>6, <1>7 DEF Quiet, IInv, TypeOK
<1>10. QED
  BY <1>7, <1>8, <1>9 DEF EdgeClass, Closing

LEMMA AdvanceOnce ==
  ASSUME IInv, NEW settled, NEW late, NEW terminal,
         Quiet(late, terminal), Current(settled, late),
         NEW nodes \in SUBSET Nodes, NEW outcome, outcome # "none",
         Advance(nodes, outcome), status' = status,
         nodes \cap (late \union frontier \union {terminal}) = {},
         \A u \in nodes \ settled : DriveCategory[u] \in {"JOIN", "TERMINAL"}
  PROVE  Quiet(late, terminal)' /\ Current(settled, late)'
<1>1. /\ completed' = completed \union nodes
      /\ outcomes' = [n \in Nodes |-> IF n \in nodes THEN outcome ELSE outcomes[n]]
      /\ UNCHANGED <<frontier, skipped, flags, version>>
  BY DEF Advance
<1>2. late \cap completed' = late \cap completed
  BY <1>1
<1>3. \A n \in completed' : n \in Nodes /\ outcomes'[n] \in {outcome, outcomes[n]}
  BY <1>1 DEF IInv, TypeOK
<1>4. Quiet(late, terminal)'
  <2>1. \A n \in frontier' \union (late \cap completed') : Active(n)' /\ n \notin skipped'
    BY <1>1, <1>2 DEF Quiet, Active, ActiveWith
  <2>2. \A n \in late \cap completed' : outcomes'[n] \in Passing(n)
    BY <1>1, <1>2, <1>3 DEF Quiet
  <2>3. \A n \in completed' : outcomes'[n] # "none"
    BY <1>1, <1>3 DEF Quiet, IInv, TypeOK
  <2>4. QED
    BY <1>1, <2>1, <2>2, <2>3 DEF Quiet
<1>5. Current(settled, late)'
  BY <1>1, <1>2 DEF Current
<1>6. QED
  BY <1>4, <1>5

LEMMA DispatchOnce ==
  ASSUME NEW settled, NEW late, NEW terminal,
         Quiet(late, terminal), Current(settled, late), Running,
         NEW nodes, Dispatch(nodes),
         \A n \in nodes : n \notin completed \union skipped \union {terminal} /\ Active(n)
  PROVE  Quiet(late, terminal)' /\ Current(settled, late)'
<1>1. /\ frontier' = frontier \union nodes
      /\ UNCHANGED <<status, completed, outcomes, skipped, flags, version>>
  BY DEF Dispatch
<1>2. Current(settled, late)'
  BY <1>1 DEF Current
<1>3. \A n \in frontier' \union (late \cap completed') : Active(n)' /\ n \notin skipped'
  BY <1>1 DEF Quiet, Active, ActiveWith
<1>4. QED
  BY <1>1, <1>2, <1>3 DEF Quiet, Running

(* The terminal closes a run in which nobody is at work any more.          *)
LEMMA FinishOnce ==
  ASSUME IInv, NEW settled, NEW after, NEW late, NEW terminal, NEW remaining, NEW flaggings,
         Ordered(settled, after), Converges(terminal, remaining, flaggings),
         Closing(settled, after, late, terminal, flaggings),
         FirstPass, InOrder(settled, after), flags \in flaggings,
         Quiet(late, terminal), Current(settled, late),
         NEW j, j = Compute, Finish(j)
  PROVE  Quiet(late, terminal)' /\ Current(settled, late)'
<1>1. PICK n \in ReadyOf(j, {"TERMINAL"}) : Advance({n}, "DONE")
  BY DEF Finish
<1>2. n \in j.ready /\ j.auto_skip = {} /\ status' = "done"
  BY <1>1 DEF Finish, ReadyOf
<1>3. n = terminal /\ terminal \in Nodes
  BY <1>1, <1>2, ComputeType DEF ReadyOf, Converges
<1>4. /\ completed' = completed \union {terminal}
      /\ outcomes' = [m \in Nodes |-> IF m \in {terminal} THEN "DONE" ELSE outcomes[m]]
      /\ UNCHANGED <<frontier, skipped, flags, version>>
  BY <1>1, <1>3 DEF Advance
<1>5. Reached(terminal, settled, after)
  BY <1>2, <1>3, ComputedInOrder
<1>6. \A m \in Nodes \ {terminal} : Active(m) => m \in completed \union skipped
  BY <1>5, NothingLeftOut DEF Reached
<1>7. frontier = {}
  BY <1>6 DEF Quiet, IInv, TypeOK
<1>8. terminal \notin settled /\ late \subseteq settled /\ DriveCategory[terminal] = "TERMINAL"
  BY DEF Closing, Ordered
<1>9. late \cap completed' = late \cap completed
  BY <1>4, <1>8
<1>10. \A m \in completed' : m \in Nodes /\ outcomes'[m] # "none"
  BY <1>3, <1>4 DEF Quiet, IInv, TypeOK
<1>11. \A m \in late \cap completed' :
          outcomes'[m] \in Passing(m) /\ Active(m)' /\ m \notin skipped'
  BY <1>4, <1>8, <1>9, <1>10 DEF Quiet, Active, ActiveWith
<1>12. Quiet(late, terminal)'
  BY <1>2, <1>4, <1>7, <1>9, <1>10, <1>11 DEF Quiet
<1>13. Current(settled, late)'
  BY <1>4, <1>8, <1>9 DEF Current
<1>14. QED
  BY <1>12, <1>13

LEMMA DriveOnce ==
  ASSUME IInv, NEW settled, NEW after, NEW late, NEW terminal, NEW remaining, NEW flaggings,
         Ordered(settled, after), Converges(terminal, remaining, flaggings),
         Closing(settled, after, late, terminal, flaggings),
         FirstPass, InOrder(settled, after), flags \in flaggings,
         Quiet(late, terminal), Current(settled, late), Drive
  PROVE  Quiet(late, terminal)' /\ Current(settled, late)'
<1>1. PICK j \in {Compute} : \/ SkipByPolicy(j)
                             \/ Join(j)
                             \/ Finish(j)
                             \/ Halt(j)
                             \/ HandOut(j)
                             \/ Close(j)
  BY DEF Drive
<1>2. Running /\ j = Compute
  BY DEF Drive
<1>3. /\ late \subseteq settled /\ settled \subseteq Nodes /\ terminal \in Nodes \ settled
      /\ DriveCategory[terminal] = "TERMINAL"
      /\ \A n \in settled : DriveCategory[n] # "JOIN"
  BY DEF Closing, Ordered
<1>4. CASE SkipByPolicy(j)
  <2>1. \A n \in j.auto_skip : n \in Nodes \ frontier /\ SkipHolds(n)
    BY ComputedInOrder
  <2>2. \A n \in late \union (Nodes \ settled) : n \notin j.auto_skip
    BY <1>3, <2>1, NoPolicy DEF Closing
  <2>3. /\ j.auto_skip \in SUBSET Nodes
        /\ j.auto_skip \cap (late \union frontier \union {terminal}) = {}
        /\ j.auto_skip \subseteq settled
    BY <1>3, <2>1, <2>2
  <2>4. QED
    BY <1>4, <2>3, AdvanceOnce DEF SkipByPolicy
<1>5. CASE Join(j)
  <2>1. j.auto_skip = {}
    BY <1>5 DEF Join
  <2>2. \A n \in ReadyOf(j, {"JOIN"}) :
          n \in Nodes \ frontier /\ DriveCategory[n] = "JOIN"
    BY <2>1, ComputedInOrder DEF ReadyOf
  <2>3. /\ ReadyOf(j, {"JOIN"}) \in SUBSET Nodes
        /\ ReadyOf(j, {"JOIN"}) \cap (late \union frontier \union {terminal}) = {}
        /\ \A n \in ReadyOf(j, {"JOIN"}) \ settled : DriveCategory[n] \in {"JOIN", "TERMINAL"}
    BY <1>3, <2>2
  <2>4. QED
    BY <1>5, <2>3, AdvanceOnce DEF Join
<1>6. CASE Finish(j)
  BY <1>2, <1>6, FinishOnce
<1>7. ASSUME NEW nodes \in SUBSET ReadyOf(j, {"BLOCKING_GATE"} \union Workers), Dispatch(nodes),
             j.auto_skip = {}, ReadyOf(j, {"TERMINAL"}) = {}
      PROVE  Quiet(late, terminal)' /\ Current(settled, late)'
  <2>1. \A n \in nodes : n \in j.ready /\ DriveCategory[n] \notin {"JOIN", "TERMINAL"}
    BY <1>7 DEF ReadyOf, Workers
  <2>2. terminal \notin j.ready
    BY <1>3, <1>7 DEF ReadyOf
  <2>3. \A n \in nodes : n \notin completed
    BY <1>2, <1>7, <2>1, <2>2, OfferedOnce
  <2>4. \A n \in nodes : n \notin skipped /\ Active(n)
    BY <1>2, <2>1 DEF Compute, Buckets
  <2>5. QED
    BY <1>2, <1>3, <1>7, <2>1, <2>3, <2>4, DispatchOnce
<1>8. CASE Halt(j)
  <2>1. PICK g \in ReadyOf(j, {"BLOCKING_GATE"}) : Dispatch({g})
    BY <1>8 DEF Halt
  <2>2. QED
    BY <1>7, <1>8, <2>1 DEF Halt, ReadyOf
<1>9. CASE HandOut(j)
  BY <1>7, <1>9 DEF HandOut, ReadyOf
<1>10. CASE Close(j)
  <2>1. status' = "done" /\ completed' = completed
    BY <1>10 DEF Close, Advance
  <2>2. terminal \in completed
    BY <2>1, DriveCloses DEF IInv
  <2>3. QED
    BY <1>2, <2>2 DEF Quiet, Running
<1>11. QED
  BY <1>1, <1>4, <1>5, <1>6, <1>8, <1>9, <1>10

LEMMA AnswerOnce ==
  ASSUME IInv, NEW settled, NEW after, NEW late, NEW terminal, NEW flaggings,
         Ordered(settled, after), Closing(settled, after, late, terminal, flaggings),
         FirstPass, FirstPass', InOrder(settled, after),
         Quiet(late, terminal), Current(settled, late), status # "done",
         NEW n \in Nodes \ {terminal}, Active(n), Reached(n, settled, after),
         n \in settled => n \notin completed,
         NEW envelope \in Envelopes[n], Done(n, envelope)
  PROVE  (Quiet(late, terminal)' /\ Current(settled, late)') \/ Shut(late, terminal)'
<1>1. /\ Passes(n, envelope) \/ FailsBare(n)
      /\ frontier' = frontier \ {n} /\ skipped' = skipped /\ status' = "in_progress"
      /\ flags' = Merged(flags, envelope.flags)
  BY FirstPassAnswer
<1>2. /\ completed \subseteq completed' /\ completed' \subseteq completed \union {n}
      /\ late \cap completed \subseteq late \cap completed'
  BY <1>1 DEF Passes, FailsBare
<1>3. /\ late \subseteq settled /\ settled \subseteq Nodes /\ completed' \subseteq Nodes
      /\ envelope.outcome \in Results /\ outcomes \in [Nodes -> Results \union {"none"}]
      /\ version \in Versions
  BY <1>2, EnvelopesAssumption DEF Closing, Ordered, EnvelopesOf, IInv, TypeOK, Versions
<1>4. ASSUME NEW m \in frontier \union completed \union {n}
      PROVE  ~ (n \in settled /\ m \in after[n])
  <2>1. SUFFICES ASSUME n \in settled, m \in after[n] PROVE FALSE
    OBVIOUS
  <2>2. m # n
    BY <2>1 DEF Ordered, Downstream
  <2>3. Came(n, after[n]) /\ n \notin completed \union skipped
    BY <2>1 DEF InOrder, Reached
  <2>4. QED
    BY <2>1, <2>2, <2>3 DEF Came
<1>5. ASSUME NEW m \in frontier \union (late \cap completed) \union {n}
      PROVE  Active(m)' /\ m \notin skipped'
  <2>1. m \in Nodes /\ Active(m) /\ m \notin skipped
    BY DEF Quiet, Reached, IInv, TypeOK
  <2>2. Declared(n) # {} => n \in settled
    BY DEF Ordered
  <2>3. /\ Reads(NodeWhen[m]) \subseteq DOMAIN ProjectFlags
        /\ Reads(NodeWhen[m]) \cap Declared(n) = {}
    BY <1>4, <2>1, <2>2 DEF Closing
  <2>4. Classify(NodeWhen[m], flags', "none") = Classify(NodeWhen[m], flags, "none")
    BY <1>1, <2>3, DeclaredOnly
  <2>5. QED
    BY <1>1, <2>1, <2>4 DEF Active, ActiveWith
<1>6. \A m \in completed' : outcomes'[m] # "none"
  BY <1>1, <1>2, <1>3 DEF Passes, FailsBare, Quiet, Results
<1>7. CASE n \in late /\ Passes(n, envelope) /\ envelope.outcome = "FAIL"
  <2>1. n \in late \cap completed' /\ outcomes'[n] = "FAIL"
    BY <1>3, <1>7 DEF Passes
  <2>2. terminal \notin completed' \union frontier' \union skipped'
    BY <1>1, <1>2 DEF Quiet
  <2>3. QED
    BY <1>5, <2>1, <2>2 DEF Shut
<1> SUFFICES ASSUME ~ (n \in late /\ Passes(n, envelope) /\ envelope.outcome = "FAIL")
             PROVE  Quiet(late, terminal)' /\ Current(settled, late)'
  BY <1>7
<1>8. ASSUME NEW m \in late \cap completed'
      PROVE  outcomes'[m] \in Passing(m)
  <2>1. CASE m = n
    <3>1. Passes(n, envelope)
      BY <1>1, <1>3, <2>1 DEF FailsBare
    <3>2. QED
      BY <1>3, <2>1, <3>1 DEF Passes, Passing
  <2>2. CASE m # n
    <3>1. m \in late \cap completed /\ outcomes'[m] = outcomes[m]
      BY <1>1, <1>2, <1>3, <2>2 DEF Passes, FailsBare
    <3>2. QED
      BY <3>1 DEF Quiet
  <2>3. QED
    BY <2>1, <2>2
<1>9. Quiet(late, terminal)'
  BY <1>1, <1>2, <1>5, <1>6, <1>8 DEF Quiet
<1>10. ASSUME NEW u \in completed' \ settled, DriveCategory[u] \notin {"JOIN", "TERMINAL"},
             late \cap completed' = {}
      PROVE  version'[u] = "fresh"
  <2>1. CASE FailsBare(n)
    BY <1>2, <1>10, <2>1 DEF FailsBare, Current
  <2>2. CASE Passes(n, envelope)
    <3>1. Stamp(n, envelope.changed) /\ n \in completed' /\ n \notin late
      BY <1>10, <2>2 DEF Passes
    <3>2. CASE u = n
      BY <1>3, <3>1, <3>2 DEF Stamp, Aged, Versions
    <3>3. CASE u # n
      <4>1. u \in completed /\ u \in Nodes /\ version[u] = "fresh"
        BY <1>2, <1>3, <1>10, <3>3 DEF Current
      <4>2. ~ Informs(n, u)
        BY <1>4, <1>10, <3>1, <4>1 DEF Closing
      <4>3. envelope.changed \cap NodeInputs[u] = {}
        BY <4>2 DEF Informs
      <4>4. QED
        BY <1>3, <3>1, <3>3, <4>1, <4>3 DEF Stamp, Aged, Consumers, Versions
    <3>4. QED
      BY <3>2, <3>3
  <2>3. QED
    BY <1>1, <2>1, <2>2
<1>11. QED
  BY <1>9, <1>10 DEF Current

(* Then the terminal is neither ready nor a matter of judgment.            *)
LEMMA ShutWaits ==
  ASSUME IInv, NEW settled, NEW after, NEW late, NEW terminal, NEW flaggings,
         Ordered(settled, after), Closing(settled, after, late, terminal, flaggings),
         FirstPass, InOrder(settled, after), flags \in flaggings,
         Shut(late, terminal), NEW j, j = Compute
  PROVE  terminal \notin j.auto_skip \union j.ready \union j.judgment
<1> DEFINE deps == ActiveDeps
           valid == ValidCompleted(deps)
           skips == AutoSkip(valid, deps)
           live == {e \in To(terminal, ForwardEdges) :
                      StructuralLive(e.when, flags) /\ ActiveWith(e.from, flags)}
<1>1. j = Buckets(deps, valid, skips)
  BY DEF Compute
<1>2. PICK n \in late \cap completed : Active(n) /\ n \notin skipped /\ outcomes[n] = "FAIL"
  BY DEF Shut
<1>3. {e.from : e \in live} = {n} /\ \A e \in live : Classify(e.when, flags, "FAIL") = "skip"
  BY <1>2 DEF Closing, Ends, Active
<1>4. PICK e \in live : e.from = n
  BY <1>3
<1>5. e \in To(terminal, deps) /\ EdgeClass(e) = "skip"
  BY <1>2, <1>3, <1>4 DEF To, ActiveDeps, Active, EdgeClass
<1>6. \A done : ReadyKind(terminal, done, deps) = "waiting"
  BY <1>5 DEF ReadyKind
<1>7. terminal \notin valid \union skips
  BY <1>6 DEF ValidCompleted, AutoSkip, Shut
<1>8. QED
  BY <1>1, <1>6, <1>7 DEF Buckets

LEMMA ShutStays ==
  ASSUME IInv, NEW settled, NEW after, NEW late, NEW terminal, NEW remaining, NEW flaggings,
         Ordered(settled, after), Converges(terminal, remaining, flaggings),
         Closing(settled, after, late, terminal, flaggings),
         FirstPass, FirstPass', InOrder(settled, after), flags \in flaggings,
         Shut(late, terminal), [Next]_vars
  PROVE  Shut(late, terminal)'
<1>1. PICK n \in late \cap completed : Active(n) /\ n \notin skipped /\ outcomes[n] = "FAIL"
  BY DEF Shut
<1>2. /\ n \in settled /\ settled \subseteq Nodes /\ n \notin frontier
      /\ terminal \in Nodes /\ DriveCategory[terminal] = "TERMINAL"
  BY <1>1 DEF Closing, Ordered, InOrder, Stays
<1>3. CASE Drive
  <2>1. PICK j \in {Compute} : \/ SkipByPolicy(j)
                               \/ Join(j)
                               \/ Finish(j)
                               \/ Halt(j)
                               \/ HandOut(j)
                               \/ Close(j)
    BY <1>3 DEF Drive
  <2>2. terminal \notin j.auto_skip \union j.ready
    BY ShutWaits
  <2>3. NodeSkipIf[n] = {} /\ DriveCategory[n] \notin {"JOIN", "TERMINAL"}
    BY <1>1, <1>2 DEF Closing, Ordered
  <2>4. n \notin j.auto_skip
    BY <1>2, <2>1, <2>3, ComputedInOrder, NoPolicy
  <2>5. ~ Finish(j)
    BY <2>1, <2>2, ComputeType DEF Finish, ReadyOf, Converges
  <2>6. /\ UNCHANGED <<skipped, flags>> /\ completed \subseteq completed'
        /\ terminal \notin completed' \union frontier'
    BY <2>1, <2>2, <2>5 DEF Shut, SkipByPolicy, Join, Halt, HandOut, Close, Advance, Dispatch,
                            ReadyOf
  <2>7. outcomes'[n] = outcomes[n]
    BY <1>2, <2>1, <2>3, <2>4, <2>5 DEF SkipByPolicy, Join, Halt, HandOut, Close, Advance,
                                         Dispatch, ReadyOf
  <2>8. QED
    BY <1>1, <2>6, <2>7 DEF Shut, Active, ActiveWith
<1>4. ASSUME NEW m \in Nodes \ {terminal, n}, Reached(m, settled, after),
             NEW envelope \in Envelopes[m], Done(m, envelope),
             m \in settled => m \notin completed
      PROVE  Shut(late, terminal)'
  <2>1. /\ Passes(m, envelope) \/ FailsBare(m)
        /\ frontier' = frontier \ {m} /\ skipped' = skipped
        /\ flags' = Merged(flags, envelope.flags)
    BY <1>4, FirstPassAnswer
  <2>2. /\ completed \subseteq completed' /\ completed' \subseteq completed \union {m}
        /\ outcomes'[n] = outcomes[n]
    BY <1>2, <1>4, <2>1 DEF Passes, FailsBare, IInv, TypeOK
  <2>3. ~ (m \in settled /\ n \in after[m])
    BY <1>1, <1>4 DEF InOrder, Came, Reached
  <2>4. /\ Reads(NodeWhen[n]) \subseteq DOMAIN ProjectFlags
        /\ Reads(NodeWhen[n]) \cap Declared(m) = {}
    BY <1>2, <1>4, <2>3 DEF Closing, Ordered
  <2>5. Classify(NodeWhen[n], flags', "none") = Classify(NodeWhen[n], flags, "none")
    BY <1>4, <2>1, <2>4, DeclaredOnly
  <2>6. Active(n)'
    BY <1>1, <2>5 DEF Active, ActiveWith
  <2>7. QED
    BY <1>1, <1>4, <2>1, <2>2, <2>6 DEF Shut
<1>5. ASSUME NEW m \in Nodes, Answer(m)
      PROVE  Shut(late, terminal)'
  <2>1. m \in frontier
    BY <1>5 DEF Answer, InOrder
  <2>2. m # n /\ m # terminal /\ (m \in settled => m \notin completed)
    BY <1>2, <2>1 DEF Shut, InOrder, Stays
  <2>3. Reached(m, settled, after)
    BY <2>1 DEF InOrder, AncestorsCame, Came, Reached, To
  <2>4. QED
    BY <1>4, <1>5, <2>2, <2>3 DEF Answer
<1>6. ASSUME NEW m \in ToDecide
      PROVE  /\ m \in Nodes \ {terminal, n} /\ Reached(m, settled, after)
             /\ m \in settled => m \notin completed
  <2>1. \E j \in {Compute} : m \in j.ready \union j.judgment
    BY DEF ToDecide
  <2>2. m # terminal
    BY <2>1, ShutWaits
  <2>3. QED
    BY <1>1, <1>2, <2>2, DecidedInOrder
<1>7. ASSUME NEW m \in ToDecide, Decide(m)
      PROVE  Shut(late, terminal)'
  BY <1>4, <1>6, <1>7 DEF Decide
<1>8. ASSUME NEW m \in ToDecide, Skip(m)
      PROVE  Shut(late, terminal)'
  BY <1>1, <1>6, <1>8 DEF Skip, Shut, Active, ActiveWith
<1>9. ASSUME NEW edge \in ReturnEdges, ResolveLoop(edge)
      PROVE  FALSE
  BY <1>9 DEF ResolveLoop, FirstPass
<1>10. CASE UNCHANGED vars
  BY <1>1, <1>10 DEF vars, Shut, Active, ActiveWith
<1>11. QED
  BY <1>3, <1>5, <1>7, <1>8, <1>9, <1>10 DEF Next

LEMMA QuietStep ==
  ASSUME NEW settled, NEW after, NEW late, NEW terminal, NEW remaining, NEW flaggings,
         Ordered(settled, after), Converges(terminal, remaining, flaggings),
         Closing(settled, after, late, terminal, flaggings),
         IInv, FirstPass, FirstPass', InOrder(settled, after), flags \in flaggings,
         Quiet(late, terminal), Current(settled, late), [Next]_vars
  PROVE  (Quiet(late, terminal)' /\ Current(settled, late)') \/ Shut(late, terminal)'
<1> DEFINE Goal == (Quiet(late, terminal)' /\ Current(settled, late)') \/ Shut(late, terminal)'
<1>3. CASE Drive
  BY <1>3, DriveOnce
<1>4. ASSUME NEW n \in Nodes, Answer(n)
      PROVE  Goal
  <2>1. n \in frontier
    BY <1>4 DEF Answer, InOrder
  <2>2. status # "done" /\ n # terminal /\ n \notin completed /\ Active(n)
    BY <2>1 DEF Quiet
  <2>3. Reached(n, settled, after)
    BY <2>1 DEF InOrder, AncestorsCame, Came, Reached, To
  <2>4. QED
    BY <1>4, <2>2, <2>3, AnswerOnce DEF Answer
<1>5. ASSUME NEW n \in ToDecide
      PROVE  /\ Running /\ n \in Nodes \ (frontier \union {terminal}) /\ Active(n)
             /\ Reached(n, settled, after)
             /\ n \in settled => n \notin completed
  <2>1. Running /\ \E j \in {Compute} : n \in j.ready \union j.judgment
    BY DEF ToDecide
  <2>2. Active(n)
    BY <2>1 DEF Compute, Buckets
  <2>3. n # terminal
    BY TerminalNotAsked
  <2>4. QED
    BY <2>1, <2>2, <2>3, DecidedInOrder
<1>6. ASSUME NEW n \in ToDecide, Decide(n)
      PROVE  Goal
  BY <1>5, <1>6, AnswerOnce DEF Decide, Running
<1>7. ASSUME NEW n \in ToDecide, Skip(n)
      PROVE  Goal
  <2>1. /\ skipped' = skipped \union {n} /\ frontier' = frontier
        /\ UNCHANGED <<status, completed, outcomes, flags, version>>
    BY <1>5, <1>7 DEF Skip
  <2>2. n \notin frontier \union (late \cap completed) \union {terminal}
    BY <1>5 DEF Closing
  <2>3. \A m \in frontier' \union (late \cap completed') : Active(m)' /\ m \notin skipped'
    BY <2>1, <2>2 DEF Quiet, Active, ActiveWith
  <2>4. QED
    BY <2>1, <2>2, <2>3 DEF Quiet, Current
<1>8. ASSUME NEW edge \in ReturnEdges, ResolveLoop(edge)
      PROVE  FALSE
  BY <1>8 DEF ResolveLoop, FirstPass
<1>9. CASE UNCHANGED vars
  BY <1>9 DEF vars, Quiet, Current, Active, ActiveWith
<1>10. QED
  BY <1>3, <1>4, <1>6, <1>7, <1>8, <1>9 DEF Next

LEMMA StepOnce ==
  ASSUME NEW settled, NEW after, NEW late, NEW terminal, NEW remaining, NEW flaggings,
         Ordered(settled, after), Converges(terminal, remaining, flaggings),
         Closing(settled, after, late, terminal, flaggings),
         IInv, CountersAreNoted, InOrder(settled, after), Closed(terminal, flaggings),
         OnceOnly(settled, late, terminal), [Next]_vars
  PROVE  OnceOnly(settled, late, terminal)'
<1>1. SUFFICES ASSUME FirstPass, FirstPass'
               PROVE  (Quiet(late, terminal)' /\ Current(settled, late)')
                        \/ Shut(late, terminal)'
  BY CountersNoted DEF OnceOnly
<1>2. flags \in flaggings
  BY <1>1 DEF Closed
<1>3. CASE Shut(late, terminal)
  BY <1>1, <1>2, <1>3, ShutStays
<1>4. CASE Quiet(late, terminal) /\ Current(settled, late)
  BY <1>1, <1>2, <1>4, QuietStep
<1>5. QED
  BY <1>1, <1>3, <1>4 DEF OnceOnly

LEMMA InitOnce ==
  ASSUME NEW settled, NEW late, NEW terminal, NEW remaining, NEW flaggings,
         Converges(terminal, remaining, flaggings)
  PROVE  Init => Closed(terminal, flaggings) /\ OnceOnly(settled, late, terminal)
  BY DEF Init, Closed, Converges, Possible, OnceOnly, Quiet, Current

LEMMA OnceInductive ==
  ASSUME NEW CONSTANT settled, NEW CONSTANT after, NEW CONSTANT late,
         NEW CONSTANT terminal, NEW CONSTANT remaining, NEW CONSTANT flaggings,
         Ordered(settled, after), Converges(terminal, remaining, flaggings),
         Closing(settled, after, late, terminal, flaggings)
  PROVE  Spec => []( /\ IInv /\ CountersAreNoted /\ InOrder(settled, after)
                     /\ Closed(terminal, flaggings) /\ OnceOnly(settled, late, terminal))
<1> DEFINE OInv == Closed(terminal, flaggings) /\ OnceOnly(settled, late, terminal)
<1>1. Init => OInv
  BY InitOnce
<1>2. IInv /\ CountersAreNoted /\ InOrder(settled, after) /\ OInv /\ [Next]_vars => OInv'
  BY StepClosed, StepOnce
<1>3. QED
  BY FirstPassInductive, <1>1, <1>2, PTL DEF Spec

(* A late node with a finding leads into the terminal.                     *)
LEMMA NotShut ==
  ASSUME NEW settled, NEW after, NEW late, NEW terminal, NEW flaggings,
         Closing(settled, after, late, terminal, flaggings), flags \in flaggings,
         NoLateFinding
  PROVE  ~ Shut(late, terminal)
<1>1. SUFFICES ASSUME NEW n \in late \cap completed, Active(n), outcomes[n] = "FAIL"
               PROVE  FALSE
  BY DEF Shut
<1>2. n \in {e.from : e \in {e \in To(terminal, ForwardEdges) :
                 StructuralLive(e.when, flags) /\ ActiveWith(e.from, flags)}}
  BY <1>1 DEF Closing, Ends, Active
<1>3. PICK e \in ForwardEdges : e.from = n /\ e.to = terminal
  BY <1>2 DEF To
<1>4. QED
  BY <1>1, <1>3 DEF NoLateFinding, Closing

(* FirstPassRunsOnce: in every graph that is declared in order, leads to   *)
(* its terminal and ends with its late nodes, no node goes out twice on a  *)
(* first pass, also not one that a late node has just made stale: then the *)
(* terminal is ready, and drive turns to it first, unless the late node    *)
(* completed with a finding.                                               *)
THEOREM RunsOnce ==
  ASSUME NEW CONSTANT settled, NEW CONSTANT after, NEW CONSTANT late,
         NEW CONSTANT terminal, NEW CONSTANT remaining, NEW CONSTANT flaggings,
         Ordered(settled, after), Converges(terminal, remaining, flaggings),
         Closing(settled, after, late, terminal, flaggings)
  PROVE  Spec => FirstPassRunsOnce
<1>1. ASSUME IInv, InOrder(settled, after), Closed(terminal, flaggings),
             OnceOnly(settled, late, terminal), [Next]_vars
      PROVE  [FirstPass /\ NoLateFinding => completed \cap (frontier' \ frontier) = {}]_vars
  <2>1. SUFFICES ASSUME FirstPass, NoLateFinding, Next, NEW n \in frontier' \ frontier
                 PROVE  n \notin completed
    BY <1>1 DEF vars
  <2>2. \A m \in Nodes : \A envelope \in Envelopes[m] :
          Done(m, envelope) => frontier' \subseteq frontier
    BY DEF Done, Receive
  <2>3. Drive
    BY <2>1, <2>2, ToDecideType DEF Next, Answer, Decide, Skip, ResolveLoop
  <2>4. PICK j \in {Compute} : Halt(j) \/ HandOut(j)
    BY <2>1, <2>3 DEF Drive, SkipByPolicy, Join, Finish, Close, Advance
  <2>5. /\ j.auto_skip = {} /\ n \in j.ready /\ ReadyOf(j, {"TERMINAL"}) = {}
        /\ DriveCategory[n] \notin {"JOIN", "TERMINAL"}
    BY <2>1, <2>4 DEF Halt, HandOut, Dispatch, ReadyOf, Workers
  <2>6. terminal \notin j.ready
    BY <2>5 DEF ReadyOf, Closing
  <2>7. /\ Running /\ flags \in flaggings
        /\ Quiet(late, terminal) /\ Current(settled, late)
    <3>1. Running /\ flags \in flaggings
      BY <1>1, <2>1, <2>3 DEF Drive, Closed
    <3>2. ~ Shut(late, terminal)
      BY <2>1, <3>1, NotShut
    <3>3. QED
      BY <1>1, <2>1, <3>1, <3>2 DEF OnceOnly
  <2>8. QED
    BY <1>1, <2>1, <2>5, <2>6, <2>7, OfferedOnce
<1>2. QED
  BY OnceInductive, <1>1, PTL DEF Spec, FirstPassRunsOnce

(* FirstPassClosesIdle: in those graphs nobody is at work any more when a  *)
(* run closes on its first pass.                                           *)
THEOREM ClosesIdle ==
  ASSUME NEW CONSTANT settled, NEW CONSTANT after, NEW CONSTANT late,
         NEW CONSTANT terminal, NEW CONSTANT remaining, NEW CONSTANT flaggings,
         Ordered(settled, after), Converges(terminal, remaining, flaggings),
         Closing(settled, after, late, terminal, flaggings)
  PROVE  Spec => []FirstPassClosesIdle
<1>1. ASSUME InOrder(settled, after), OnceOnly(settled, late, terminal),
             Closed(terminal, flaggings), status = "done", FirstPass
      PROVE  \A n \in Nodes : working[n] = 0
  <2>1. ~ Shut(late, terminal)
    BY <1>1 DEF Closed, Shut
  <2>2. frontier = {}
    BY <1>1, <2>1 DEF OnceOnly, Quiet
  <2>3. QED
    BY <1>1, <2>2 DEF InOrder
<1>2. QED
  BY OnceInductive, <1>1, PTL DEF FirstPassClosesIdle
----------------------------------------------------------------------------
(* The stream does not dry up. *)

(* What counts as done was done with one of the outcomes of its node.  A   *)
(* node that balks is worked on once at a time, and only when its work is  *)
(* missing or stale; so what it then refuses does not count.               *)
Poised(n) ==
  /\ n \in completed /\ ~ (Balks(n) /\ version[n] = "stale") => outcomes[n] \in Standing(n)
  /\ Balks(n) =>
       /\ working[n] = IF n \in frontier THEN 1 ELSE 0
       /\ n \in completed => version[n] \in {"fresh", "stale"}
       /\ n \in completed /\ version[n] = "fresh" => n \notin frontier

AllPoised == \A n \in Nodes : Poised(n)

LEMMA AdvancePoised ==
  ASSUME AllPoised, NEW nodes \in SUBSET Nodes, NEW outcome, Advance(nodes, outcome),
         \A n \in nodes : outcome \in Standing(n) /\ ~ Balks(n)
  PROVE  AllPoised'
<1> SUFFICES ASSUME NEW n \in Nodes PROVE Poised(n)'
  BY DEF AllPoised
<1>1. /\ completed' = completed \union nodes
      /\ outcomes'[n] = IF n \in nodes THEN outcome ELSE outcomes[n]
      /\ UNCHANGED <<frontier, version, working>>
  BY DEF Advance
<1>2. QED
  BY <1>1 DEF AllPoised, Poised

LEMMA DispatchPoised ==
  ASSUME IInv, AllPoised, NEW nodes \in SUBSET Nodes, Dispatch(nodes),
         \A n \in nodes : n \notin frontier /\ (n \in completed => version[n] # "fresh")
  PROVE  AllPoised'
<1> SUFFICES ASSUME NEW n \in Nodes PROVE Poised(n)'
  BY DEF AllPoised
<1>1. /\ frontier' = frontier \union nodes
      /\ working'[n] = working[n] + IF n \in nodes THEN 1 ELSE 0
      /\ working[n] \in Nat
      /\ UNCHANGED <<completed, outcomes, version>>
  BY DEF Dispatch, IInv, TypeOK
<1>2. QED
  BY <1>1 DEF AllPoised, Poised

LEMMA DrivePoised ==
  ASSUME NEW terminal, NEW rank, NEW flaggings, Flows(terminal, rank, flaggings),
         IInv, AllPoised, Drive
  PROVE  AllPoised'
<1>1. PICK j \in {Compute} : \/ SkipByPolicy(j)
                             \/ Join(j)
                             \/ Finish(j)
                             \/ Halt(j)
                             \/ HandOut(j)
                             \/ Close(j)
  BY DEF Drive
<1>2. j = Compute /\ j.auto_skip \subseteq Nodes /\ j.ready \subseteq Nodes
  BY ComputeType
<1>3. \A categories : ReadyOf(j, categories) \subseteq j.ready
  BY DEF ReadyOf
<1>4. \A n \in j.ready : n \notin frontier /\ (n \in completed => version[n] # "fresh")
  BY <1>2, OfferedAnew
<1>5. CASE SkipByPolicy(j)
  <2>1. \A n \in j.auto_skip : NodeSkipIf[n] # {}
    BY <1>2, OfferedAnew, NoPolicy
  <2>2. \A n \in j.auto_skip : "PASS" \in Standing(n) /\ ~ Balks(n)
    BY <1>2, <2>1 DEF Standing, Flows
  <2>3. QED
    BY <1>2, <1>5, <2>2, AdvancePoised DEF SkipByPolicy
<1>6. CASE Join(j)
  <2>1. \A n \in ReadyOf(j, {"JOIN"}) : DriveCategory[n] = "JOIN" /\ n \in Nodes
    BY <1>2 DEF ReadyOf
  <2>2. \A n \in ReadyOf(j, {"JOIN"}) : "PASS" \in Standing(n) /\ ~ Balks(n)
    BY <2>1 DEF Standing, Flows
  <2>3. QED
    BY <1>6, <2>1, <2>2, AdvancePoised DEF Join
<1>7. CASE Finish(j)
  <2>1. PICK n \in ReadyOf(j, {"TERMINAL"}) : Advance({n}, "DONE")
    BY <1>7 DEF Finish
  <2>2. n \in Nodes /\ DriveCategory[n] = "TERMINAL"
    BY <1>2, <2>1 DEF ReadyOf
  <2>3. "DONE" \in Standing(n) /\ ~ Balks(n)
    BY <2>2 DEF Standing, Flows
  <2>4. QED
    BY <2>1, <2>2, <2>3, AdvancePoised
<1>8. CASE Halt(j)
  <2>1. PICK g \in ReadyOf(j, {"BLOCKING_GATE"}) : Dispatch({g})
    BY <1>8 DEF Halt
  <2>2. g \in j.ready
    BY <1>3, <2>1
  <2>3. QED
    BY <1>2, <1>4, <2>1, <2>2, DispatchPoised
<1>9. CASE HandOut(j)
  BY <1>2, <1>3, <1>4, <1>9, DispatchPoised DEF HandOut
<1>10. CASE Close(j)
  BY <1>10, AdvancePoised DEF Close
<1>11. QED
  BY <1>1, <1>5, <1>6, <1>7, <1>8, <1>9, <1>10

LEMMA DonePoised ==
  ASSUME NEW terminal, NEW rank, NEW flaggings, Flows(terminal, rank, flaggings),
         IInv, AllPoised, NEW n \in Nodes, NEW envelope \in Envelopes[n],
         Balks(n) /\ n \in completed => version[n] = "stale",
         Done(n, envelope)
  PROVE  AllPoised'
<1> SUFFICES ASSUME NEW m \in Nodes PROVE Poised(m)'
  BY DEF AllPoised
<1> DEFINE env == Resolved(n, envelope)
<1>1. /\ env \in EnvelopesOf(n) /\ env.outcome \in Results
      /\ env.returns_to \in (NodeReturns[n] \cap Nodes) \union {NoNode}
      /\ env.outcome = envelope.outcome /\ env.severity = envelope.severity
  <2>1. envelope \in EnvelopesOf(n) /\ env \in EnvelopesOf(n)
    BY EnvelopesAssumption, ResolvedType
  <2>2. QED
    BY <2>1 DEF Resolved, EnvelopesOf
<1>2. /\ env.outcome = "REJECTED" => Balks(n)
      /\ env.outcome = "FAIL" /\ env.severity = "blocking" /\ env.returns_to = NoNode
           => Balks(n)
  BY <1>1 DEF Balks
<1> HIDE DEF env
<1>3. /\ Receive(n, env)
      /\ \/ AdvisoryFail(n, env) \/ ReturnFail(n, env) \/ BareFail(n, env)
         \/ Rejected(n, env) \/ Completion(n, env)
  BY DEF Done, env
<1>4. version \in Versions /\ NoNode \notin Nodes
  BY GraphAssumption DEF IInv, TypeOK, Versions
<1>5. Balks(m) => m # env.returns_to
  BY <1>1, <1>4 DEF Flows
<1>6. Balks(m) => /\ m \in frontier' => m \in frontier
                  /\ working'[m] = IF m \in frontier' THEN 1 ELSE 0
  <2>1. SUFFICES ASSUME Balks(m)
                 PROVE  /\ m \in frontier' => m \in frontier
                        /\ working'[m] = IF m \in frontier' THEN 1 ELSE 0
    OBVIOUS
  <2>2. m \in frontier' <=> m \in frontier /\ m # n
    BY <1>3, <1>5, <2>1 DEF Receive
  <2>3. working'[m] = IF m = n THEN IF working[m] = 0 THEN 0 ELSE working[m] - 1
                      ELSE working[m]
    BY <1>3 DEF Receive, IInv, TypeOK
  <2>4. working[m] = IF m \in frontier THEN 1 ELSE 0
    BY <2>1 DEF AllPoised, Poised
  <2>5. QED
    BY <2>2, <2>3, <2>4
<1>7. n \notin frontier'
  BY <1>3 DEF Receive
<1>8. ASSUME NEW types, Stamp(n, types), m # n
      PROVE  \/ version'[m] = version[m]
             \/ version[m] = "fresh" /\ version'[m] = "stale"
  BY <1>4, <1>8 DEF Versions, Stamp, Aged, Consumers
<1>9. CASE ReturnFail(n, env)
  <2> DEFINE target == env.returns_to
  <2>1. /\ completed' = completed \ {target} /\ target \in Nodes
        /\ outcomes' = [outcomes EXCEPT ![target] = "none"]
        /\ version' = [Aged(NodeOutputs[target]) EXCEPT ![target] = "none"]
    BY <1>1, <1>9 DEF ReturnFail, Invalidate
  <2>2. CASE m = target
    BY <1>5, <1>6, <2>1, <2>2 DEF Poised
  <2>3. CASE m # target
    <3>1. /\ m \in completed' <=> m \in completed
          /\ outcomes'[m] = outcomes[m]
          /\ \/ version'[m] = version[m]
             \/ version[m] = "fresh" /\ version'[m] = "stale"
      BY <1>4, <2>1, <2>3 DEF Versions, Aged, Consumers, IInv, TypeOK
    <3>2. QED
      BY <1>6, <3>1 DEF AllPoised, Poised
  <2>4. QED
    BY <2>2, <2>3
<1>10. CASE BareFail(n, env) \/ Rejected(n, env)
  <2>1. Balks(n) /\ completed' = completed /\ version' = version
    BY <1>2, <1>10 DEF BareFail, Rejected
  <2>2. m # n => outcomes'[m] = outcomes[m]
    BY <1>10 DEF BareFail, Rejected, IInv, TypeOK
  <2>3. QED
    BY <1>6, <2>1, <2>2 DEF AllPoised, Poised
<1>11. CASE AdvisoryFail(n, env) \/ Completion(n, env)
  <2>1. /\ completed' = completed \union {n}
        /\ outcomes' = [outcomes EXCEPT ![n] = env.outcome]
        /\ Stamp(n, env.changed)
        /\ env.outcome # "REJECTED" /\ (env.outcome = "FAIL" => env.severity = "advisory")
    BY <1>11 DEF AdvisoryFail, Completion
  <2>2. CASE m = n
    <3>1. outcomes'[m] \in Standing(m) /\ version'[m] = "fresh"
      <4>1. outcomes'[m] = env.outcome /\ version'[m] = "fresh"
        BY <1>4, <2>1, <2>2 DEF Versions, Stamp, Aged, IInv, TypeOK
      <4>2. env.outcome \in Completing(n)
        BY <1>1, <2>1 DEF Completing
      <4>3. QED
        BY <2>2, <4>1, <4>2 DEF Standing
    <3>2. QED
      BY <1>6, <1>7, <2>2, <3>1 DEF Poised
  <2>3. CASE m # n
    <3>1. /\ m \in completed' <=> m \in completed
          /\ outcomes'[m] = outcomes[m]
          /\ \/ version'[m] = version[m]
             \/ version[m] = "fresh" /\ version'[m] = "stale"
      BY <1>8, <2>1, <2>3 DEF IInv, TypeOK
    <3>2. QED
      BY <1>6, <3>1 DEF AllPoised, Poised
  <2>4. QED
    BY <2>2, <2>3
<1>12. QED
  BY <1>3, <1>9, <1>10, <1>11

LEMMA StepPoised ==
  ASSUME NEW terminal, NEW rank, NEW flaggings, Flows(terminal, rank, flaggings),
         IInv, AllPoised, flags \in flaggings, [Next]_vars
  PROVE  AllPoised' /\ flags' \in flaggings
<1>1. CASE Drive
  <2>1. UNCHANGED flags
    BY <1>1 DEF Drive, SkipByPolicy, Join, Finish, Halt, HandOut, Close, Advance, Dispatch
  <2>2. QED
    BY <1>1, <2>1, DrivePoised
<1>2. ASSUME NEW n \in Nodes, NEW envelope \in Envelopes[n], Done(n, envelope)
      PROVE  flags' \in flaggings
  <2>1. Resolved(n, envelope).flags = envelope.flags
    BY EnvelopesAssumption DEF Resolved, EnvelopesOf
  <2>2. flags' = Merged(flags, envelope.flags)
    BY <1>2, <2>1 DEF Done, MergeFlags
  <2>3. QED
    BY <2>2 DEF Flows, Possible
<1>3. ASSUME NEW n \in Nodes, Answer(n)
      PROVE  AllPoised' /\ flags' \in flaggings
  <2>1. Balks(n) /\ n \in completed => version[n] = "stale"
    BY <1>3 DEF Answer, AllPoised, Poised
  <2>2. QED
    BY <1>2, <1>3, <2>1, DonePoised DEF Answer
<1>4. ASSUME NEW n \in ToDecide
      PROVE  n \in Nodes /\ n \notin frontier /\ (n \in completed => version[n] # "fresh")
  <2>1. \E j \in {Compute} : n \in j.ready \union j.judgment
    BY DEF ToDecide
  <2>2. QED
    BY <2>1, ToDecideType, OfferedAnew
<1>5. ASSUME NEW n \in ToDecide, Decide(n)
      PROVE  AllPoised' /\ flags' \in flaggings
  <2>1. Balks(n) /\ n \in completed => version[n] = "stale"
    BY <1>4 DEF AllPoised, Poised
  <2>2. QED
    BY <1>2, <1>4, <1>5, <2>1, DonePoised DEF Decide
<1>6. ASSUME NEW n \in ToDecide, Skip(n)
      PROVE  AllPoised' /\ flags' \in flaggings
  BY <1>4, <1>6 DEF Skip, AllPoised, Poised
<1>7. ASSUME NEW edge \in ReturnEdges, ResolveLoop(edge)
      PROVE  AllPoised' /\ flags' \in flaggings
  BY <1>7 DEF ResolveLoop, AllPoised, Poised
<1>8. CASE UNCHANGED vars
  BY <1>8 DEF vars, AllPoised, Poised
<1>9. QED
  BY <1>1, <1>3, <1>5, <1>6, <1>7, <1>8 DEF Next

(* What counts as done has one of the outcomes of its node.                *)
LEMMA ValidStands ==
  ASSUME NEW terminal, NEW rank, NEW flaggings, Flows(terminal, rank, flaggings),
         IInv, AllPoised, NEW deps, NEW n \in ValidCompleted(deps)
  PROVE  n \in completed /\ n \in Nodes /\ outcomes[n] \in Standing(n)
<1>1. n \in completed /\ (Stands(n) \/ version[n] = "none")
  BY DEF ValidCompleted
<1>2. n \in Nodes
  BY <1>1 DEF IInv, TypeOK
<1>3. Balks(n) => ~ SkipHolds(n)
  BY <1>2, NoPolicy DEF Flows
<1>4. Balks(n) => version[n] = "fresh"
  BY <1>1, <1>2, <1>3 DEF Stands, AllPoised, Poised
<1>5. QED
  BY <1>1, <1>2, <1>4 DEF AllPoised, Poised

(* Of the nodes that take part and do not count as done, take one that     *)
(* comes first: all it waits for counts as done, and if no edge to it is   *)
(* closed it is offered.                                                   *)
LEMMA PoisedGoesOn ==
  ASSUME NEW terminal, NEW rank, NEW flaggings, Flows(terminal, rank, flaggings),
         IInv, AllPoised, flags \in flaggings
  PROVE  NeverStalls
<1>1. SUFFICES ASSUME skipped = {},
                      \A e \in ActiveDeps :
                        ~ /\ e.from \in completed /\ outcomes[e.from] \in WithoutPassing
                          /\ EdgeClass(e) = "skip",
                      NEW j, j = Compute,
                      j.auto_skip = {}, j.ready = {}, j.judgment = {}, j.inflight = {},
                      ~ j.terminal_reached
               PROVE  FALSE
  BY DEF NeverStalls, GoesOn
<1> DEFINE deps == ActiveDeps
           valid == ValidCompleted(deps)
           left == {n \in Nodes : Active(n) /\ n \notin valid}
           open == {n \in Nodes \ (valid \union frontier) : Active(n)}
<1>2. \A n \in valid : n \in completed /\ n \in Nodes /\ outcomes[n] \in Standing(n)
  BY ValidStands
<1>3. j = Buckets(deps, valid, AutoSkip(valid, deps))
  BY <1>1 DEF Compute
<1>4. \A e \in deps : /\ e \in ForwardEdges /\ Active(e.from)
                      /\ StructuralLive(e.when, flags)
  BY DEF ActiveDeps
<1>5. \A e \in ForwardEdges :
        StructuralLive(e.when, flags) /\ Active(e.from) => e \in deps
  BY <1>1 DEF ActiveDeps
<1> HIDE DEF deps, valid
<1>6. AutoSkip(valid, deps) = {} /\ frontier \subseteq valid
  BY <1>1, <1>3 DEF Buckets
<1>7. /\ \A n \in open : ReadyKind(n, valid, deps) \notin {"ready", "judgment"}
      /\ \A n \in valid : DriveCategory[n] # "TERMINAL"
  BY <1>1, <1>3, <1>6 DEF Buckets
<1>8. terminal \in left
  BY <1>7 DEF Flows, Active
<1>9. PICK n \in left : \A m \in left : ~ (rank[m] < rank[n])
  <2>1. {rank[m] : m \in left} \in SUBSET Nat /\ {rank[m] : m \in left} # {}
    BY <1>8 DEF Flows
  <2>2. PICK x \in {rank[m] : m \in left} : \A y \in {rank[m] : m \in left} : ~ (y < x)
    BY <2>1, LeastNatural
  <2>3. QED
    BY <2>2
<1>10. n \in open
  BY <1>6, <1>9
<1>11. \A e \in To(n, deps) : e.from \in valid
  <2>1. SUFFICES ASSUME NEW e \in To(n, deps) PROVE e.from \in valid
    OBVIOUS
  <2>2. e.from \in Nodes /\ Active(e.from) /\ rank[e.from] < rank[n]
    BY <1>4, <2>1 DEF To, Flows
  <2>3. QED
    BY <1>9, <2>2
<1>12. \A e \in To(n, deps) : EdgeClass(e) # "skip"
  <2>1. SUFFICES ASSUME NEW e \in To(n, deps) PROVE EdgeClass(e) # "skip"
    OBVIOUS
  <2>2. /\ e \in ForwardEdges /\ StructuralLive(e.when, flags)
        /\ e.from \in completed /\ outcomes[e.from] \in Standing(e.from)
    BY <1>2, <1>4, <1>11, <2>1 DEF To
  <2>3. CASE outcomes[e.from] \in WithoutPassing
    BY <1>1, <1>5, <2>1, <2>2, <2>3 DEF To, deps
  <2>4. CASE outcomes[e.from] \notin WithoutPassing
    BY <2>2, <2>4 DEF Flows, EdgeClass
  <2>5. QED
    BY <2>3, <2>4
<1>13. To(n, deps) # {} \/ n = Entry
  BY <1>5, <1>9 DEF Flows, Active, To
<1>14. ReadyKind(n, valid, deps) \in {"ready", "judgment"}
  BY <1>11, <1>12, <1>13 DEF ReadyKind
<1>15. QED
  BY <1>7, <1>10, <1>14

(* NeverStalls: in every graph without a cycle, with a way into every node *)
(* that takes part, and where only answers that are no pass can close a    *)
(* forward edge, such an answer is all that ever leaves drive with nothing *)
(* to do and nobody to wait for, whatever was returned, refused or         *)
(* answered twice.                                                         *)
THEOREM StreamNeverDries ==
  ASSUME NEW CONSTANT terminal, NEW CONSTANT rank, NEW CONSTANT flaggings,
         Flows(terminal, rank, flaggings)
  PROVE  Spec => []NeverStalls
<1> DEFINE Poise == AllPoised /\ flags \in flaggings
<1>1. Init => IInv /\ Poise
  BY InitHolds DEF Init, AllPoised, Poised, Flows, Possible
<1>2. IInv /\ Poise /\ [Next]_vars => IInv' /\ Poise'
  BY StepHolds, StepPoised
<1>3. IInv /\ Poise => NeverStalls
  BY PoisedGoesOn
<1>4. QED
  BY <1>1, <1>2, <1>3, PTL DEF Spec
============================================================================
