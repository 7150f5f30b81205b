---------------------------- MODULE EgressPolicy ----------------------------
(***************************************************************************)
(* The host-enforced ruleset H1-H7 (server/cage/policy/ruleset.py) and     *)
(* what the Fly adapter makes of it: rules in list order, first match      *)
(* wins, deny by default (enforcer.py).  A packet is abstracted to its     *)
(* direction, its service and the networks its far end belongs to.         *)
(***************************************************************************)
EXTENDS Naturals, Sequences, SequencesExt

Rule(id, direction, service, target, action) ==
  [id |-> id, direction |-> direction, service |-> service,
   target |-> target, action |-> action]

RULE_IDS == <<"H1", "H2", "H3", "H4", "H5", "H6", "H7">>

build_ruleset ==
  << Rule("H1", "egress", "https", "proxy", "allow"),
     Rule("H2", "egress", "https", "private", "allow"),
     Rule("H3", "egress", "dns", "resolver", "allow"),
     Rule("H4", "egress", "ssh", "*", "deny"),
     Rule("H5", "egress", "any", "metadata", "drop"),
     Rule("H6", "egress", "any", "*", "deny"),
     Rule("H7", "ingress", "any", "*", "deny") >>

Ids(ruleset) == [i \in DOMAIN ruleset |-> ruleset[i].id]
Denies(ruleset, id, targets) ==
  \E r \in ToSet(ruleset) : r.id = id /\ r.action = "deny" /\ r.target \in targets

\* The ruleset the enforcer is willing to apply at all.
assert_complete(ruleset) ==
  /\ Ids(ruleset) = RULE_IDS
  /\ Denies(ruleset, "H6", {"*"})
  /\ \E r \in ToSet(ruleset) : r.id = "H7" /\ r.action = "deny"

(* Mutant: the last rule gets the highest priority. *)
render_from_the_end(ruleset) ==
  [default_action |-> "deny",
   rules |-> {[priority |-> Len(ruleset) - i, rule |-> ruleset[i]] : i \in DOMAIN ruleset}]

(* What Fly is sent: the index in the list is the priority.                *)
render(ruleset) ==
  [default_action |-> "deny",
   rules |-> {[priority |-> i, rule |-> ruleset[i]] : i \in DOMAIN ruleset}]

Matches(r, p) ==
  /\ r.direction = p.direction
  /\ r.service \in {"any", p.service}
  /\ r.target = "*" \/ r.target \in p.nets

(* Fly's side: the matching rule of the lowest priority decides.           *)
Verdict(policy, p) ==
  LET hits == {x \in policy.rules : Matches(x.rule, p)}
  IN  IF hits = {} THEN policy.default_action
      ELSE (CHOOSE x \in hits : \A y \in hits : x.priority <= y.priority).rule.action

(* A far end by the networks the rules name; one that is in none of them is *)
(* the public internet.  The default resolver is inside the metadata range *)
(* that H5 blackholes.                                                     *)
FarEnds == {{"proxy"}, {"private"}, {"resolver", "metadata"}, {"metadata"}, {}}

(* agent: the workspace's own :8081, which the app talks to.               *)
Packets == [direction : {"egress", "ingress"},
            service : {"https", "dns", "ssh", "agent", "other"}, nets : FarEnds]
=============================================================================
