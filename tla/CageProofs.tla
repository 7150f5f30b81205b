----------------------------- MODULE CageProofs -----------------------------
(***************************************************************************)
(* The promises of the cage for any set of definitions and any number of   *)
(* concurrent deploys.  The deploy and the boot meet in the machine, so    *)
(* the inductive invariant has a part for the walls, one for the pins and  *)
(* one for the login.                                                      *)
(***************************************************************************)
EXTENDS Cage, TLAPS

Walls ==
  /\ machine # NoDef => policy = render(build_ruleset)
  /\ \A d \in Deploys :
       step[d] \in {"walled", "deployed"} => policy = render(build_ruleset)
  /\ boot # "off" => machine # NoDef
  /\ boot \in {"init", "prepared", "proxied", "walled"} => privilege = AsRoot
  /\ boot = "agent" => privilege = Caged
  /\ boot \in {"proxied", "walled", "agent"} => proxy
  /\ boot \in {"walled", "agent"} => firewall

Known(def) == def \in accepted \/ mishap
Pins ==
  /\ lock \in Defs => Known(lock)
  /\ \A d \in Deploys : Relying(d) => Known(app)
  /\ \A d \in Deploys : step[d] \in {"pinning", "writing"} => wdh[d] \in Defs /\ Known(wdh[d])
  /\ image # NoDef => Known(image)
  /\ machine # NoDef => Known(machine)

Booted == boot \in {"prepared", "proxied", "walled", "agent"}
Logins ==
  /\ home = "link" => mounted /\ volume.owner = "claude"
  /\ Booted /\ mounted => home = "link"
  /\ home = "directory" => ~mounted
  /\ loggedIn => volume.login

IInv == TypeOK /\ Walls /\ Pins /\ Logins

-----------------------------------------------------------------------------
LEMMA InitIInv == Init => IInv
<1> SUFFICES ASSUME Init PROVE IInv
  OBVIOUS
<1> USE DefsAssumption DEF Init, DeployInit, BootInit
<1>1. TypeOK
  BY DEF TypeOK
<1>2. Walls
  BY DEF Walls
<1>3. Pins
  BY DEF Pins, Relying, NoDef
<1>4. Logins
  BY DEF Logins, Booted
<1>5. QED
  BY <1>1, <1>2, <1>3, <1>4 DEF IInv

(* The steps of the boot, and of the deploy, by what they may touch.       *)
BootTyped ==
  /\ boot \in {"off", "init", "prepared", "proxied", "walled", "agent"}
  /\ firewall \in BOOLEAN /\ proxy \in BOOLEAN /\ privilege \in {Caged, AsRoot}
  /\ home \in {"absent", "link", "directory"} /\ mounted \in BOOLEAN
  /\ volume \in [owner : {"root", "claude"}, login : BOOLEAN]
  /\ loggedIn \in BOOLEAN

DeployTyped ==
  /\ app \in Defs \union {Broken}
  /\ lock \in Defs \union {NoDef, Torn}
  /\ acl \in BOOLEAN
  /\ image \in Defs \union {NoDef} /\ machine \in Defs \union {NoDef}
  /\ policy \in {Down, render(build_ruleset)}
  /\ step \in [Deploys -> {"idle", "pinning", "writing", "checked", "linted",
                           "rendered", "built", "walled", "deployed"}]
  /\ wdh \in [Deploys -> Defs \union {NoDef}]
  /\ accepted \subseteq Defs /\ mishap \in BOOLEAN

LEMMA TypedParts == TypeOK <=> DeployTyped /\ BootTyped
  BY DEF TypeOK, DeployTyped, BootTyped

LEMMA BootTypes ==
  ASSUME BootTyped, entrypoint
  PROVE  BootTyped'
<1> USE DEF BootTyped
<1>1. CASE Start
  BY <1>1 DEF Start, Memory
<1>2. CASE PersistLogin
  BY <1>2 DEF PersistLogin, Chown, LinkHome, cage_abort, Memory
<1>3. CASE StartProxy
  BY <1>3 DEF StartProxy, cage_abort, Memory
<1>4. CASE InstallFirewall
  BY <1>4 DEF InstallFirewall, cage_abort, Memory
<1>5. CASE ExecAgent
  BY <1>5 DEF ExecAgent, cage_abort, Memory
<1>6. CASE Login
  BY <1>6 DEF Login, CanLogin, HasLogin
<1>7. QED
  BY <1>1, <1>2, <1>3, <1>4, <1>5, <1>6 DEF entrypoint

LEMMA BootLogins ==
  ASSUME BootTyped, Logins, entrypoint
  PROVE  Logins'
<1> USE DEF BootTyped, Logins, Booted
<1>1. CASE Start
  BY <1>1 DEF Start, Memory
<1>2. CASE PersistLogin
  BY <1>2 DEF PersistLogin, Chown, LinkHome, cage_abort, Memory
<1>3. CASE StartProxy
  BY <1>3 DEF StartProxy, cage_abort, Memory
<1>4. CASE InstallFirewall
  BY <1>4 DEF InstallFirewall, cage_abort, Memory
<1>5. CASE ExecAgent
  BY <1>5 DEF ExecAgent, cage_abort, Memory
<1>6. CASE Login
  BY <1>6 DEF Login, CanLogin, HasLogin
<1>7. QED
  BY <1>1, <1>2, <1>3, <1>4, <1>5, <1>6 DEF entrypoint

LEMMA BootWalls ==
  ASSUME BootTyped, Walls, machine # NoDef, entrypoint, UNCHANGED deployVars
  PROVE  Walls'
<1> USE DEF BootTyped, Walls, deployVars
<1>1. CASE Start
  BY <1>1 DEF Start, Memory
<1>2. CASE PersistLogin
  BY <1>2 DEF PersistLogin, Chown, LinkHome, cage_abort, Memory
<1>3. CASE StartProxy
  BY <1>3 DEF StartProxy, cage_abort, Memory
<1>4. CASE InstallFirewall
  BY <1>4 DEF InstallFirewall, cage_abort, Memory
<1>5. CASE ExecAgent
  BY <1>5 DEF ExecAgent, cage_abort, Memory
<1>6. CASE Login
  BY <1>6 DEF Login
<1>7. QED
  BY <1>1, <1>2, <1>3, <1>4, <1>5, <1>6 DEF entrypoint

LEMMA ReplacedBoot ==
  ASSUME BootTyped, Logins, Replaced
  PROVE  BootTyped' /\ Logins' /\ boot' = "off"
  BY DEF BootTyped, Logins, Booted, Replaced, Memory

-----------------------------------------------------------------------------
(* What a step of a deploy does to the policy and to the machine.          *)
PolicyKept ==
  /\ policy' \in {policy, render(build_ruleset)}
  /\ \A x \in Deploys : step'[x] \in {"walled", "deployed"} =>
       step[x] \in {"walled", "deployed"} \/ policy' = render(build_ruleset)
  /\ machine' # machine => \E x \in Deploys : step[x] = "walled"

DeployStep == DeployTyped' /\ Pins' /\ PolicyKept

LEMMA DeploySteps ==
  ASSUME DeployTyped, Pins, NEW d \in Deploys, run_deploy(d) \/ Killed(d)
  PROVE  DeployStep
<1> USE DefsAssumption DEF DeployTyped, Pins, Known, Relying, PolicyKept, DeployStep,
                           Reach, Abort, Forget, NoDef, Broken, Torn
<1>1. ASSUME NEW accept_drift \in BOOLEAN, check_drift(d, accept_drift) PROVE DeployStep
  BY <1>1 DEF check_drift, read_pinned_hash, compute_workspace_def_hash
<1>2. CASE write_pinned_hash(d)
  BY <1>2 DEF write_pinned_hash
<1>3. CASE Lint(d)
  BY <1>3 DEF Lint
<1>4. CASE render_acl(d)
  BY <1>4 DEF render_acl
<1>5. CASE Build(d)
  BY <1>5 DEF Build
<1>6. CASE apply(d)
  <2>1. /\ policy' \in {policy, render(build_ruleset)}
        /\ \/ policy' = render(build_ruleset) /\ Reach(d, "walled") /\ UNCHANGED wdh
           \/ Abort(d)
        /\ UNCHANGED <<app, lock, acl, image, machine, accepted, mishap>>
    BY <1>6 DEF apply
  <2>2. QED
    BY <2>1
<1>7. CASE DeployMachine(d)
  BY <1>7 DEF DeployMachine
<1>8. CASE Smoke(d)
  BY <1>8 DEF Smoke
<1>9. CASE Killed(d)
  BY <1>9 DEF Killed
<1>10. QED
  BY <1>1, <1>2, <1>3, <1>4, <1>5, <1>6, <1>7, <1>8, <1>9 DEF run_deploy

LEMMA AppSteps ==
  ASSUME DeployTyped, Pins, AppChanges
  PROVE  DeployTyped' /\ Pins'
  BY DefsAssumption DEF DeployTyped, Pins, Known, Relying, AppChanges

-----------------------------------------------------------------------------
LEMMA NextIInv == IInv /\ [Next]_vars => IInv'
<1> SUFFICES ASSUME IInv, [Next]_vars PROVE IInv'
  OBVIOUS
<1>0. DeployTyped /\ BootTyped /\ Walls /\ Pins /\ Logins
  BY TypedParts DEF IInv
<1>1. DeployTyped' /\ BootTyped' => TypeOK'
  BY DEF TypeOK, DeployTyped, BootTyped
<1>2. ASSUME UNCHANGED bootVars PROVE BootTyped' /\ Logins'
  BY <1>0, <1>2 DEF bootVars, BootTyped, Logins, Booted
<1>3. ASSUME NEW d \in Deploys, run_deploy(d) \/ Killed(d),
             machine' = machine, UNCHANGED bootVars
      PROVE  IInv'
  <2>1. DeployStep
    BY <1>0, <1>3, DeploySteps
  <2>2. Walls'
    BY <1>0, <1>3, <2>1 DEF Walls, DeployStep, PolicyKept, bootVars
  <2>3. QED
    BY <1>1, <1>2, <1>3, <2>1, <2>2 DEF IInv, DeployStep
<1>4. ASSUME NEW d \in Deploys, DeployMachine(d), machine' # NoDef, Replaced
      PROVE  IInv'
  <2>1. DeployStep
    BY <1>0, <1>4, DeploySteps DEF run_deploy
  <2>2. BootTyped' /\ Logins' /\ boot' = "off"
    BY <1>0, <1>4, ReplacedBoot
  <2>3. Walls'
    BY <1>0, <2>1, <2>2 DEF Walls, DeployStep, PolicyKept
  <2>4. QED
    BY <1>1, <2>1, <2>2, <2>3 DEF IInv, DeployStep
<1>5. CASE AppChanges /\ UNCHANGED bootVars
  <2>1. DeployTyped' /\ Pins'
    BY <1>0, <1>5, AppSteps
  <2>2. Walls'
    BY <1>0, <1>5 DEF Walls, AppChanges, bootVars
  <2>3. QED
    BY <1>1, <1>2, <1>5, <2>1, <2>2 DEF IInv
<1>6. CASE Boot
  <2>1. machine # NoDef /\ entrypoint /\ UNCHANGED deployVars
    BY <1>6 DEF Boot
  <2>2. BootTyped' /\ Logins'
    BY <1>0, <2>1, BootTypes, BootLogins
  <2>3. Walls'
    BY <1>0, <2>1, BootWalls
  <2>4. DeployTyped' /\ Pins'
    BY <1>0, <2>1 DEF DeployTyped, Pins, Known, Relying, deployVars
  <2>5. QED
    BY <1>1, <2>2, <2>3, <2>4 DEF IInv
<1>7. CASE UNCHANGED vars
  <2>1. DeployTyped' /\ Pins'
    BY <1>0, <1>7 DEF DeployTyped, Pins, Known, Relying, deployVars, vars
  <2>2. Walls'
    BY <1>0, <1>7 DEF Walls, deployVars, bootVars, vars
  <2>3. UNCHANGED bootVars
    BY <1>7 DEF vars
  <2>4. QED
    BY <1>1, <1>2, <2>1, <2>2, <2>3 DEF IInv
<1>8. ASSUME NEW d \in Deploys, Killed(d) PROVE machine' = machine
  BY <1>8 DEF Killed
<1>9. QED
  BY <1>3, <1>4, <1>5, <1>6, <1>7, <1>8 DEF Next, Deploy

LEMMA Inductive == Spec => []IInv
<1>1. QED
  BY InitIInv, NextIInv, PTL DEF Spec

(* Cage.TypeOK for every number of deploys and definitions.                *)
THEOREM CageTypeCorrect == Spec => []TypeOK
<1>1. IInv => TypeOK
  BY DEF IInv
<1>2. QED
  BY <1>1, Inductive, PTL

(* No agent without all three walls: the host policy is applied before the *)
(* machine exists and is never taken back, and the boot raises its own two *)
(* walls anew each time (cage_deploy.py:96-101, entrypoint.sh:72-155).     *)
THEOREM AlwaysCaged == Spec => []AgentIsCaged
<1>1. IInv => AgentIsCaged
  BY DEF IInv, Walls, AgentIsCaged
<1>2. QED
  BY <1>1, Inductive, PTL

(* A machine runs only what was pinned first or accepted (drift.py:76-110):*)
(* every definition on its way to the machine is known.                    *)
THEOREM NeverSyncedSilently == Spec => []NoSilentSync
<1>1. IInv => NoSilentSync
  BY DEF IInv, Pins, Known, NoSilentSync
<1>2. QED
  BY <1>1, Inductive, PTL

(* The login on the volume outlives boots and machines (entrypoint.sh:     *)
(* 41-65): the link is only ever there with a volume the agent owns.       *)
THEOREM LoginIsKept == Spec => []LoginSurvives
<1>1. IInv => LoginSurvives
  <2> SUFFICES ASSUME IInv, boot = "agent", mounted
               PROVE  CanLogin /\ (loggedIn => HasLogin)
    BY DEF LoginSurvives
  <2>1. home = "link" /\ volume.owner = "claude" /\ (loggedIn => volume.login)
    BY DEF IInv, Logins, Booted
  <2>2. privilege = Caged
    BY DEF IInv, Walls
  <2>3. QED
    BY <2>1, <2>2 DEF CanLogin, HasLogin, Caged
<1>2. QED
  BY <1>1, Inductive, PTL

-----------------------------------------------------------------------------
(* The list order decides: the first rule that matches a packet.           *)
LEMMA FirstMatchDecides ==
  ASSUME NEW ruleset, DOMAIN ruleset \subseteq Nat, NEW p,
         NEW n \in DOMAIN ruleset, Matches(ruleset[n], p),
         \A i \in DOMAIN ruleset : i < n => ~Matches(ruleset[i], p)
  PROVE  Verdict(render(ruleset), p) = ruleset[n].action
<1> DEFINE hits == {x \in render(ruleset).rules : Matches(x.rule, p)}
           first == [priority |-> n, rule |-> ruleset[n]]
<1>1. \A x \in hits : \E i \in DOMAIN ruleset :
        x = [priority |-> i, rule |-> ruleset[i]] /\ Matches(ruleset[i], p)
  BY DEF render
<1>2. first \in hits
  BY DEF render
<1>3. \A x \in hits : x.priority \in Nat /\ n <= x.priority
  <2>1. TAKE x \in hits
  <2>2. PICK i \in DOMAIN ruleset :
          x = [priority |-> i, rule |-> ruleset[i]] /\ Matches(ruleset[i], p)
    BY <1>1
  <2>3. i \in Nat /\ n \in Nat /\ ~ (i < n)
    BY <2>2
  <2>4. QED
    BY <2>2, <2>3
<1>4. \A x \in hits : (\A y \in hits : x.priority <= y.priority) => x = first
  <2>1. SUFFICES ASSUME NEW x \in hits, x.priority <= first.priority PROVE x = first
    BY <1>2
  <2>2. PICK i \in DOMAIN ruleset : x = [priority |-> i, rule |-> ruleset[i]]
    BY <1>1
  <2>3. i = n
    BY <1>3, <2>1, <2>2
  <2>4. QED
    BY <2>2, <2>3
<1>5. \A y \in hits : first.priority <= y.priority
  BY <1>3
<1> HIDE DEF hits
<1> DEFINE chosen == CHOOSE x \in hits : \A y \in hits : x.priority <= y.priority
<1>6. chosen = first
  BY <1>2, <1>4, <1>5
<1>7. Verdict(render(ruleset), p) =
        IF hits = {} THEN render(ruleset).default_action ELSE chosen.rule.action
  BY DEF Verdict, hits
<1> HIDE DEF chosen
<1>8. hits # {} /\ chosen.rule.action = ruleset[n].action
  BY <1>2, <1>6
<1>9. QED
  BY <1>7, <1>8

LEMMA NoMatchIsDenied ==
  ASSUME NEW ruleset, NEW p, \A i \in DOMAIN ruleset : ~Matches(ruleset[i], p)
  PROVE  Verdict(render(ruleset), p) = "deny"
<1>1. {x \in render(ruleset).rules : Matches(x.rule, p)} = {}
  BY DEF render
<1>2. QED
  BY <1>1 DEF Verdict, render

(* Nothing gets out but what one of the rules H1 to H3 is about: none of    *)
(* those that deny comes before them.                                      *)
LEMMA ThreeRulesAllow ==
  ASSUME NEW p, p.service # "any"
  PROVE  Verdict(render(build_ruleset), p) = "allow" <=>
           /\ p.direction = "egress"
           /\ \/ p.service = "https" /\ ("proxy" \in p.nets \/ "private" \in p.nets)
              \/ p.service = "dns" /\ "resolver" \in p.nets
<1> DEFINE R == build_ruleset
<1>1. /\ DOMAIN R = 1..7
      /\ R[1] = Rule("H1", "egress", "https", "proxy", "allow")
      /\ R[2] = Rule("H2", "egress", "https", "private", "allow")
      /\ R[3] = Rule("H3", "egress", "dns", "resolver", "allow")
      /\ R[4] = Rule("H4", "egress", "ssh", "*", "deny")
      /\ R[5] = Rule("H5", "egress", "any", "metadata", "drop")
      /\ R[6] = Rule("H6", "egress", "any", "*", "deny")
      /\ R[7] = Rule("H7", "ingress", "any", "*", "deny")
  BY DEF build_ruleset
<1> HIDE DEF R
<1>2. /\ \A i \in 1..3 : R[i].action = "allow"
      /\ \A i \in 4..7 : R[i].action # "allow"
  BY <1>1 DEF Rule
<1>3. /\ p.direction = "egress"
      /\ \/ p.service = "https" /\ ("proxy" \in p.nets \/ "private" \in p.nets)
         \/ p.service = "dns" /\ "resolver" \in p.nets
      <=> \E i \in 1..3 : Matches(R[i], p)
  BY <1>1 DEF Rule, Matches
<1>4. CASE \E i \in 1..3 : Matches(R[i], p)
  <2>1. PICK n \in 1..3 : Matches(R[n], p) /\ \A i \in 1..3 : i < n => ~Matches(R[i], p)
    BY <1>4
  <2>2. n \in DOMAIN R /\ DOMAIN R \subseteq Nat
        /\ \A i \in DOMAIN R : i < n => ~Matches(R[i], p)
    BY <1>1, <2>1
  <2>3. Verdict(render(R), p) = R[n].action
    BY <2>1, <2>2, FirstMatchDecides
  <2>4. QED
    BY <1>2, <1>3, <2>1, <2>3 DEF R
<1>5. CASE ~ \E i \in 1..3 : Matches(R[i], p)
  <2>1. CASE \E i \in DOMAIN R : Matches(R[i], p)
    <3>1. PICK n \in 1..7 : Matches(R[n], p) /\ \A i \in 1..7 : i < n => ~Matches(R[i], p)
      BY <1>1, <2>1
    <3>2. n \in 4..7 /\ DOMAIN R \subseteq Nat
      BY <1>1, <1>5, <3>1
    <3>3. Verdict(render(R), p) = R[n].action
      BY <1>1, <3>1, <3>2, FirstMatchDecides
    <3>4. QED
      BY <1>2, <1>3, <1>5, <3>2, <3>3 DEF R
  <2>2. CASE ~ \E i \in DOMAIN R : Matches(R[i], p)
    <3>1. Verdict(render(R), p) = "deny"
      BY <2>2, NoMatchIsDenied
    <3>2. QED
      BY <1>3, <1>5, <3>1 DEF R
  <2>3. QED
    BY <2>1, <2>2
<1>6. QED
  BY <1>4, <1>5

(* TrafficIsConfined: wherever there is a machine it is these rules that    *)
(* are in force, for as long as it is there (cage_deploy.py:96-101), and   *)
(* they keep what the acceptance criteria ask of the egress.               *)
THEOREM MachineIsConfined == Spec => []TrafficIsConfined
<1>1. ASSUME IInv, machine # NoDef, NEW p \in Packets
      PROVE  LET passes == Verdict(policy, p) = "allow" IN
             IF p.direction = "ingress" THEN passes => "private" \in p.nets
             ELSE /\ passes => /\ p.nets # {} /\ p.service # "ssh"
                               /\ p.service = "dns" \/ "metadata" \in p.nets =>
                                    p.service = "dns" /\ "resolver" \in p.nets
                  /\ p.service = "dns" /\ "resolver" \in p.nets => passes
                  /\ p.service = "https" /\ p.nets \cap {"proxy", "private"} # {} => passes
  <2>1. policy = render(build_ruleset)
    BY <1>1 DEF IInv, Walls
  <2>2. /\ p.direction \in {"egress", "ingress"} /\ p.nets \in FarEnds
        /\ p.service \in {"https", "dns", "ssh", "agent", "other"}
    BY DEF Packets
  <2>3. "metadata" \in p.nets => "proxy" \notin p.nets /\ "private" \notin p.nets
    BY <2>2 DEF FarEnds
  <2>4. Verdict(policy, p) = "allow" <=>
          /\ p.direction = "egress"
          /\ \/ p.service = "https" /\ ("proxy" \in p.nets \/ "private" \in p.nets)
             \/ p.service = "dns" /\ "resolver" \in p.nets
    BY <2>1, <2>2, ThreeRulesAllow
  <2>5. QED
    BY <2>2, <2>3, <2>4
<1>2. IInv => TrafficIsConfined
  BY <1>1 DEF TrafficIsConfined
<1>3. QED
  BY <1>2, Inductive, PTL

(* H7 denies more than the contract asks for: wherever there is a machine, *)
(* nothing is let in, from the private network neither, though it is over  *)
(* that network that the app reaches the workspace (ruleset.py:139-145,    *)
(* contracts/containment-cage.md:36, 172).                                 *)
THEOREM AppIsShutOut ==
  Spec => [](machine # NoDef =>
               \A p \in Packets :
                 p.direction = "ingress" => Verdict(policy, p) # "allow")
<1>1. ASSUME IInv, machine # NoDef, NEW p \in Packets, p.direction = "ingress"
      PROVE  Verdict(policy, p) # "allow"
  <2>1. policy = render(build_ruleset)
    BY <1>1 DEF IInv, Walls
  <2>2. p.service # "any"
    BY DEF Packets
  <2>3. QED
    BY <1>1, <2>1, <2>2, ThreeRulesAllow
<1>2. IInv => (machine # NoDef =>
                 \A p \in Packets :
                   p.direction = "ingress" => Verdict(policy, p) # "allow")
  BY <1>1
<1>3. QED
  BY <1>2, Inductive, PTL
=============================================================================
