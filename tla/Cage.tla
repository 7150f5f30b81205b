------------------------------- MODULE Cage -------------------------------
(***************************************************************************)
(* The cage from deploy to agent: CageDeploy puts a machine up, CageBoot   *)
(* boots it, again and again, and the next deploy replaces it.             *)
(***************************************************************************)
EXTENDS CageDeploy, CageBoot

vars == <<deployVars, bootVars>>

Init == DeployInit /\ BootInit

(* A deploy that replaces the machine starts with a fresh one; every other *)
(* step of a deploy leaves a running machine alone.                        *)
Deploy(d) ==
  \/ run_deploy(d) /\ machine' = machine /\ UNCHANGED bootVars
  \/ DeployMachine(d) /\ machine' # NoDef /\ Replaced
Boot == machine # NoDef /\ entrypoint /\ UNCHANGED deployVars

Next ==
  \/ \E d \in Deploys : Deploy(d) \/ (Killed(d) /\ UNCHANGED bootVars)
  \/ AppChanges /\ UNCHANGED bootVars
  \/ Boot

Spec == Init /\ [][Next]_vars

-----------------------------------------------------------------------------
TypeOK ==
  /\ app \in Defs \union {Broken}
  /\ lock \in Defs \union {NoDef, Torn}
  /\ acl \in BOOLEAN
  /\ image \in Defs \union {NoDef} /\ machine \in Defs \union {NoDef}
  /\ policy \in {Down, render(build_ruleset)}
  /\ step \in [Deploys -> {"idle", "pinning", "writing", "checked", "linted",
                           "rendered", "built", "walled", "deployed"}]
  /\ wdh \in [Deploys -> Defs \union {NoDef}]
  /\ accepted \subseteq Defs /\ mishap \in BOOLEAN
  /\ boot \in {"off", "init", "prepared", "proxied", "walled", "agent"}
  /\ firewall \in BOOLEAN /\ proxy \in BOOLEAN /\ privilege \in {Caged, AsRoot}
  /\ home \in {"absent", "link", "directory"} /\ mounted \in BOOLEAN
  /\ volume \in [owner : {"root", "claude"}, login : BOOLEAN]
  /\ loggedIn \in BOOLEAN

(* cage_deploy.py:13-14, entrypoint.sh:9-11: an agent runs only where all  *)
(* three walls stand: the host policy on the Fly app, the proxy and the    *)
(* firewall of this boot; and never as root, through any sequence of       *)
(* aborted, killed, overlapping and repeated deploys and of reboots.       *)
AgentIsCaged ==
  /\ machine # NoDef => policy = render(build_ruleset)
  /\ boot = "agent" => machine # NoDef /\ proxy /\ firewall /\ privilege = Caged

(* drift.py:9-11: no silent sync.  The machine runs only a definition that *)
(* was pinned by the first deploy or accepted with --accept-drift,         *)
(* whatever failed in between; except when the lock was caught between     *)
(* its truncation and its write, or the app moved under a running deploy.  *)
NoSilentSync == machine # NoDef => machine \in accepted \/ mishap

(* entrypoint.sh:41-48: a login on the volume is found by every agent that *)
(* boots with the volume, across restarts, resets of the root file system, *)
(* failed boots and new machines; the agent is able to write one.          *)
LoginSurvives ==
  boot = "agent" /\ mounted => CanLogin /\ (loggedIn => HasLogin)

(* acceptance/containment-cage.md, items 1a-1e, 2d and 7a: on every machine *)
(* that cage-deploy has put up, after any sequence of deploys, nothing gets *)
(* out to the public internet, not by https either, no ssh gets out at     *)
(* all, the metadata range is out of reach but for names asked of the      *)
(* resolver inside it, and only that resolver is asked; nothing is let in  *)
(* from outside the private network.  Yet the resolver, the proxy and the  *)
(* private peers are reached, so that no rule cuts off what an earlier one *)
(* is there to allow.                                                      *)
TrafficIsConfined ==
  machine # NoDef =>
    \A p \in Packets :
      LET passes == Verdict(policy, p) = "allow" IN
      IF p.direction = "ingress" THEN passes => "private" \in p.nets
      ELSE /\ passes => /\ p.nets # {} /\ p.service # "ssh"
                        /\ p.service = "dns" \/ "metadata" \in p.nets =>
                             p.service = "dns" /\ "resolver" \in p.nets
           /\ p.service = "dns" /\ "resolver" \in p.nets => passes
           /\ p.service = "https" /\ p.nets \cap {"proxy", "private"} # {} => passes
===========================================================================
