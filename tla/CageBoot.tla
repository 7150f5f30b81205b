----------------------------- MODULE CageBoot -----------------------------
(***************************************************************************)
(* The boot of a workspace machine: server/cage/overlay/entrypoint.sh from *)
(* root to the exec of the agent, every step of which aborts the boot when *)
(* it fails, and what the agent's Claude login leaves behind.  The volume  *)
(* outlives the machine; the root file system outlives a restart only      *)
(* when Fly does not reset it.                                             *)
(***************************************************************************)
EXTENDS Naturals

VARIABLES boot,      \* how far the entrypoint is
          firewall,  \* nftables.cage.conf is installed in this boot
          proxy,     \* Smokescreen was seen running in this boot
          privilege, \* what runs the machine's main process
          home,      \* $HOME/.claude of the agent: absent, a link, or a directory
          mounted,   \* /data exists on this machine
          volume,    \* /data/claude-config: its owner, and whether a login is in it
          loggedIn   \* history: the operator has logged Claude in on the volume

bootVars == <<boot, firewall, proxy, privilege, home, mounted, volume, loggedIn>>

Caged == [user |-> "claude", net_admin |-> FALSE, no_new_privs |-> TRUE]
AsRoot == [user |-> "root", net_admin |-> TRUE, no_new_privs |-> FALSE]

(* The app's own entrypoint ran as root on the same volume and may have    *)
(* left a login there.                                                     *)
BootInit ==
  /\ boot = "off" /\ firewall = FALSE /\ proxy = FALSE /\ privilege = AsRoot
  /\ home = "absent" /\ mounted = TRUE
  /\ volume \in [owner : {"root"}, login : BOOLEAN]
  /\ loggedIn = volume.login

(* What lives in the machine's memory: rules, processes, privileges.       *)
Memory(at) ==
  boot' = at /\ firewall' = FALSE /\ proxy' = FALSE /\ privilege' = AsRoot

(* Power on, also of a running machine: the root file system may be reset. *)
Start ==
  /\ boot \in {"off", "agent"} /\ Memory("init")
  /\ home' \in {home, "absent"}
  /\ UNCHANGED <<mounted, volume, loggedIn>>

(* exit 1 of a machine's init stops the machine.                           *)
cage_abort == Memory("off") /\ UNCHANGED <<home, mounted, volume, loggedIn>>

(* Mutant: the volume is given to the proxy's user. *)
ChownToProxy == volume' = [volume EXCEPT !.owner = "smokescreen"]
Chown == volume' = [volume EXCEPT !.owner = "claude"]

(* Mutant: the link is never made. *)
LinkNothing == UNCHANGED home
LinkHome == home' = IF home = "absent" THEN "link" ELSE home

(* Step 0a: the volume belongs to the agent and its $HOME/.claude leads    *)
(* there, unless something of that name is there already.                  *)
PersistLogin ==
  /\ boot = "init"
  /\ \/ /\ boot' = "prepared"
        /\ IF mounted
           THEN Chown /\ LinkHome
           ELSE UNCHANGED <<volume, home>>
        /\ UNCHANGED <<firewall, proxy, privilege, mounted, loggedIn>>
     \/ mounted /\ cage_abort

(* Step 0d: without its ACL, or dead a second after its start: no egress,  *)
(* and no boot.                                                            *)
StartProxy ==
  /\ boot = "prepared"
  /\ \/ /\ boot' = "proxied" /\ proxy' = TRUE
        /\ UNCHANGED <<firewall, privilege, home, mounted, volume, loggedIn>>
     \/ cage_abort

(* Step 1, while CAP_NET_ADMIN is still there, and the look at it that     *)
(* precedes the de-root.                                                   *)
InstallFirewall ==
  /\ boot = "proxied"
  /\ \/ /\ privilege.net_admin
        /\ boot' = "walled" /\ firewall' = TRUE
        /\ UNCHANGED <<proxy, privilege, home, mounted, volume, loggedIn>>
     \/ cage_abort

(* Steps 2 to 4: one capsh drops the capabilities from the bounding set,   *)
(* sets no_new_privs, becomes the agent's user and executes the agent.     *)
ExecAgent ==
  /\ boot = "walled"
  /\ \/ /\ boot' = "agent" /\ privilege' = Caged
        /\ UNCHANGED <<firewall, proxy, home, mounted, volume, loggedIn>>
     \/ cage_abort

CanLogin == boot = "agent" /\ (home = "link" => volume.owner = privilege.user)
HasLogin == home = "link" /\ volume.login

(* Claude writes its token through $HOME/.claude.                          *)
Login ==
  /\ CanLogin /\ ~HasLogin
  /\ IF home = "link"
     THEN volume' = [volume EXCEPT !.login = TRUE] /\ UNCHANGED home
     ELSE home' = "directory" /\ UNCHANGED volume
  /\ loggedIn' = (loggedIn \/ mounted)
  /\ UNCHANGED <<boot, firewall, proxy, privilege, mounted>>

(* A new machine: its image's root file system, the volume if it is        *)
(* mounted.                                                                *)
Replaced ==
  /\ Memory("off")
  /\ home' = "absent" /\ mounted' \in BOOLEAN
  /\ UNCHANGED <<volume, loggedIn>>

entrypoint ==
  Start \/ PersistLogin \/ StartProxy \/ InstallFirewall \/ ExecAgent \/ Login
===========================================================================
