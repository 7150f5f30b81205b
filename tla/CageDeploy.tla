---------------------------- MODULE CageDeploy ----------------------------
(***************************************************************************)
(* cage-deploy (server/cage/deploy/cage_deploy.py): the seven steps that   *)
(* put a hardened workspace image on a machine, each of which may abort    *)
(* the deploy, with a kill possible between any two file or API calls.     *)
(* The state is what outlives one invocation: the lock file with the       *)
(* pinned definition, the rendered ACL, the image, the host policy and     *)
(* the machine.  The build, deploy and smoke runners and the Fly API are   *)
(* injected into the code; they succeed, or fail with or without having    *)
(* taken effect.                                                           *)
(***************************************************************************)
EXTENDS EgressPolicy

CONSTANTS Deploys,   \* concurrent invocations of cage-deploy
          Defs       \* contents the app's workspace definition may have

NoDef == "none"      \* no pin, no image, no machine: nothing there
Broken == "broken"   \* a definition file is missing from the app's repo
Torn == "torn"       \* the lock file between its truncation and its write
Down == [default_action |-> "allow", rules |-> {}]  \* no host policy

ASSUME DefsAssumption == {NoDef, Broken, Torn} \intersect Defs = {}

VARIABLES app,       \* the app repo's workspace definition files
          lock,      \* cage-deploy.lock
          acl,       \* smokescreen-acl.rendered.yaml in the overlay
          image,     \* the definition the workspace image was built from
          policy,    \* what the Fly app enforces
          machine,   \* the definition the machine runs
          step,      \* per invocation: the last step it has finished
          wdh,       \* ... the hash it is about to pin; later steps only
                     \* log it and hand it along
          accepted,  \* history: definitions pinned first or by --accept-drift
          mishap     \* history: a lock was seen torn, or the app moved
                     \* under a deploy that had already checked it

deployVars == <<app, lock, acl, image, policy, machine, step, wdh, accepted, mishap>>

InFlight(d) == step[d] # "idle"
(* Between the drift check and the build an invocation relies on the hash. *)
Relying(d) == step[d] \in {"pinning", "writing", "checked", "linted", "rendered"}

(* Whatever was there before the first cage-deploy: no pin and no policy.  *)
DeployInit ==
  /\ app \in Defs
  /\ lock = NoDef /\ acl = FALSE /\ image = NoDef /\ policy = Down
  /\ machine = NoDef
  /\ step = [d \in Deploys |-> "idle"] /\ wdh = [d \in Deploys |-> NoDef]
  /\ accepted = {} /\ mishap = FALSE

(* The app's developers, who know nothing of the cage.                     *)
AppChanges ==
  /\ app' \in (Defs \union {Broken}) \ {app}
  /\ mishap' = (mishap \/ \E d \in Deploys : Relying(d))
  /\ UNCHANGED <<lock, acl, image, policy, machine, step, wdh, accepted>>

Reach(d, s) == step' = [step EXCEPT ![d] = s]
(* CageError -> ABORT, exit 1; any other exception ends the process too.   *)
Forget(d) == wdh' = [wdh EXCEPT ![d] = NoDef]
Abort(d) == Reach(d, "idle") /\ Forget(d)

compute_workspace_def_hash(d) == wdh' = [wdh EXCEPT ![d] = app]

(* Mutant: the pin is taken for the hash of the files. *)
read_computed_hash == IF lock = Torn THEN NoDef ELSE app

(* A lock file without the key's line reads as never pinned.               *)
read_pinned_hash == IF lock = Torn THEN NoDef ELSE lock

(* Step 1: hash the files, read the pin, and decide.                       *)
check_drift(d, accept_drift) ==
  /\ step[d] = "idle"
  /\ mishap' = (mishap \/ lock = Torn)
  /\ UNCHANGED <<app, lock, acl, image, policy, machine>>
  /\ \/ /\ \/ app = Broken
           \/ read_pinned_hash \notin {NoDef, app} /\ ~accept_drift
        /\ UNCHANGED <<step, wdh, accepted>>
     \/ /\ app # Broken /\ read_pinned_hash = app
        /\ Reach(d, "checked")
        /\ UNCHANGED <<wdh, accepted>>
     \/ /\ app # Broken
        /\ \/ read_pinned_hash = NoDef
           \/ read_pinned_hash # app /\ accept_drift
        /\ compute_workspace_def_hash(d) /\ Reach(d, "pinning")
        /\ accepted' = IF lock = NoDef \/ accept_drift
                       THEN accepted \union {app} ELSE accepted

(* write_text opens the file for writing, which empties it, and writes.    *)
write_pinned_hash(d) ==
  /\ UNCHANGED <<app, acl, image, policy, machine, accepted, mishap>>
  /\ \/ step[d] = "pinning" /\ lock' = Torn /\ Reach(d, "writing") /\ UNCHANGED wdh
     \/ step[d] = "writing" /\ lock' = wdh[d] /\ Reach(d, "checked") /\ Forget(d)

(* Step 2: the overlay's config and the environment it is deployed with.   *)
lint_no_http_service(config) == "http_service" \notin config
scan_secret_leak(env) == "high_value_secret" \notin env
scan_git_write_cred(env) == "git_write_credential" \notin env
Lint(d) ==
  /\ step[d] = "checked"
  /\ UNCHANGED <<app, lock, acl, image, policy, machine, accepted, mishap>>
  /\ \E config \in SUBSET {"http_service", "commented http_service"},
        env \in SUBSET {"high_value_secret", "git_write_credential"} :
       IF /\ lint_no_http_service(config)
          /\ scan_secret_leak(env) /\ scan_git_write_cred(env)
       THEN Reach(d, "linted") /\ UNCHANGED wdh
       ELSE Abort(d)

(* Step 3: one DNS label is accepted, bare or under the Access suffix.     *)
_validate_cf_team(team) == team \in {"label", "label under the suffix"}
render_acl(d) ==
  /\ step[d] = "linted"
  /\ UNCHANGED <<app, lock, image, policy, machine, accepted, mishap>>
  /\ \E team \in {"", "label", "label under the suffix", "several labels"} :
       IF _validate_cf_team(team)
       THEN acl' = TRUE /\ Reach(d, "rendered") /\ UNCHANGED wdh
       ELSE Abort(d) /\ UNCHANGED acl

(* Step 4: the combined context is the overlay and the app repo as it is   *)
(* now; the hash is only handed along.                                     *)
Build(d) ==
  /\ step[d] = "rendered"
  /\ UNCHANGED <<app, lock, acl, policy, machine, accepted, mishap>>
  /\ \/ acl /\ app # Broken /\ image' = app /\ Reach(d, "built") /\ UNCHANGED wdh
     \/ Abort(d) /\ UNCHANGED image

(* Step 5: a substrate without an adapter, an incomplete ruleset and any   *)
(* answer but a 2xx abort; a failed call may have taken effect.            *)
get_enforcer(substrate) == substrate = "fly"
apply(d) ==
  /\ step[d] = "built"
  /\ UNCHANGED <<app, lock, acl, image, machine, accepted, mishap>>
  /\ \E substrate \in {"fly", "vps"}, answer \in {"2xx", "lost", "refused", "no transport"} :
       LET sent == /\ get_enforcer(substrate) /\ assert_complete(build_ruleset)
                   /\ answer # "no transport"
       IN  /\ policy' = IF sent /\ answer # "refused"
                        THEN render(build_ruleset) ELSE policy
           /\ IF sent /\ answer = "2xx"
              THEN Reach(d, "walled") /\ UNCHANGED wdh
              ELSE Abort(d)

(* Mutant: the machine does not wait for the policy. *)
DeployUnwalled(d) ==
  /\ step[d] = "built" /\ machine' = image /\ Reach(d, "deployed")
  /\ UNCHANGED <<app, lock, acl, image, policy, wdh, accepted, mishap>>

(* Step 6.  A runner that fails may have replaced the machine already.     *)
DeployMachine(d) ==
  /\ step[d] = "walled"
  /\ UNCHANGED <<app, lock, acl, image, policy, accepted, mishap>>
  /\ \/ machine' = image /\ Reach(d, "deployed") /\ UNCHANGED wdh
     \/ machine' \in {machine, image} /\ Abort(d)

(* Step 7: passed, left out, or failed; the machine stays in every case.   *)
Smoke(d) ==
  /\ step[d] = "deployed" /\ Abort(d)
  /\ UNCHANGED <<app, lock, acl, image, policy, machine, accepted, mishap>>

Killed(d) ==
  /\ InFlight(d) /\ Abort(d)
  /\ UNCHANGED <<app, lock, acl, image, policy, machine, accepted, mishap>>

run_deploy(d) ==
  \/ \E accept_drift \in BOOLEAN : check_drift(d, accept_drift)
  \/ write_pinned_hash(d) \/ Lint(d) \/ render_acl(d) \/ Build(d)
  \/ apply(d) \/ DeployMachine(d) \/ Smoke(d)
===========================================================================
