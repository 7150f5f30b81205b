----------------------------- MODULE RunFiles -----------------------------
(***************************************************************************)
(* The files of a pipeline run and the commands that read and replace      *)
(* them: current-run.md, the append-only ledger of every run, and the      *)
(* snapshot of current-run.md.  Every run.sh command is a process of its   *)
(* own: it reads the state once, replaces the file atomically, takes no    *)
(* lock, and may be killed between any two of its file accesses.  What a   *)
(* state says is abstracted to the envelopes it has absorbed and to        *)
(* whether it holds effects that no envelope carries: a skip, a loop       *)
(* reset, a completion by the engine.  The node commits that follow a      *)
(* write are in NodeCommits.                                               *)
(* (core/run.py, result.py, resilience.py, common.py)                      *)
(***************************************************************************)
EXTENDS Naturals, FiniteSets, Sequences, SequencesExt

CONSTANTS Commands,    \* processes that may be alive at the same time
          Runs,        \* run ids
          Envelopes,   \* [run, node]: what agents answer
          MaxEntries   \* bound: entries in all the ledgers; with all of
                       \* them written, commands run one at a time

NoRun == "no run"

ASSUME ParametersAssumption ==
  /\ Envelopes \subseteq [run : Runs, node : STRING]
  /\ NoRun \notin Runs

VARIABLES file,      \* current-run.md
          snapshot,  \* .agentic/.checkpoint/current-run.snapshot.md
          ledger,    \* runs/<run>/ledger.yaml: the done envelopes, in order
          at,        \* per command: what it does next
          copy,      \* ... the state it has read
          envelope,  \* ... the envelope it was called with
          mishaps    \* history, since the start or the last repair: two
                     \* commands at once, a restore, a repair, or "parted",
                     \* what else takes the state and its ledger apart: a
                     \* killed done, another run's envelope, a run id used twice

vars == <<file, snapshot, ledger, at, copy, envelope, mishaps>>

States == [run : Runs \union {NoRun}, absorbed : Seq(Envelopes), own : BOOLEAN]
fresh_result(r) == [run |-> r, absorbed |-> <<>>, own |-> FALSE]
NoFile == fresh_result(NoRun)
Blank == [run |-> NoRun, node |-> NoRun]

Entries == FoldFunctionOnSet(LAMBDA l, n : Len(l) + n, 0, ledger, Runs)

Init ==
  /\ file = NoFile /\ snapshot = NoFile
  /\ ledger = [r \in Runs |-> <<>>]
  /\ at = [c \in Commands |-> "idle"]
  /\ copy = [c \in Commands |-> NoFile] /\ envelope = [c \in Commands |-> Blank]
  /\ mishaps = {}

Idle(c) == at[c] = "idle"
Others(c) == {x \in Commands \ {c} : ~Idle(x)}
(* Somebody calls a command, whatever else is running.                     *)
Free(c) == Idle(c) /\ (Others(c) = {} \/ Entries < MaxEntries)
Go(c, next) == at' = [at EXCEPT ![c] = next]
Ends(c) ==
  /\ at' = [at EXCEPT ![c] = "idle"] /\ copy' = [copy EXCEPT ![c] = NoFile]
  /\ envelope' = [envelope EXCEPT ![c] = Blank]
Met(c, more) ==
  mishaps' = mishaps \union more \union (IF Others(c) = {} THEN {} ELSE {"overlap"})

(* Mutant: the block in the file is not understood. *)
read_nothing(c) == copy' = [copy EXCEPT ![c] = fresh_result(file.run)]

read_state(c) == copy' = [copy EXCEPT ![c] = file]

(* run.sh start: the state is written anew.  The ledger of a run id used   *)
(* before and the snapshot stay.                                           *)
start(c, r) ==
  /\ Free(c) /\ file' = fresh_result(r)
  /\ mishaps' = (IF Others(c) = {} THEN {} ELSE {"overlap"})
                  \union (IF ledger[r] = <<>> THEN {} ELSE {"parted"})
  /\ UNCHANGED <<snapshot, ledger, at, copy, envelope>>

(* Mutant: the ledger is that of the current run. *)
append_to_current(c, e) ==
  /\ Free(c) /\ Entries < MaxEntries
  /\ ledger' = [ledger EXCEPT ![file.run] = Append(@, e)]
  /\ envelope' = [envelope EXCEPT ![c] = e] /\ Go(c, "advance")
  /\ Met(c, IF e.run = file.run THEN {} ELSE {"parted"})
  /\ UNCHANGED <<file, snapshot, copy>>

(* run.sh done: the ledger first, then the state.                          *)
append_ledger(c, e) ==
  /\ Free(c) /\ Entries < MaxEntries
  /\ ledger' = [ledger EXCEPT ![e.run] = Append(@, e)]
  /\ envelope' = [envelope EXCEPT ![c] = e] /\ Go(c, "advance")
  /\ Met(c, IF e.run = file.run THEN {} ELSE {"parted"})
  /\ UNCHANGED <<file, snapshot, copy>>

advance_state(c) ==
  \/ /\ at[c] = "advance" /\ read_state(c) /\ Go(c, "advanced")
     /\ UNCHANGED <<file, snapshot, ledger, envelope, mishaps>>
  \/ /\ at[c] = "advanced" /\ Ends(c)
     /\ file' = [copy[c] EXCEPT
           !.run = IF @ = NoRun THEN envelope[c].run ELSE @,
           !.absorbed = Append(@, envelope[c])]
     /\ UNCHANGED <<snapshot, ledger, mishaps>>

(* run.sh drive: one read; then it advances joins, skips and the terminal  *)
(* by itself, writing its copy after each; before it hands out or halts it *)
(* takes a snapshot of the file.                                           *)
drive(c) ==
  /\ Free(c) /\ file.run # NoRun /\ read_state(c) /\ Go(c, "drive")
  /\ Met(c, {}) /\ UNCHANGED <<file, snapshot, ledger, envelope>>

EngineAdvances(c) ==
  /\ at[c] = "drive" /\ copy' = [copy EXCEPT ![c].own = TRUE] /\ file' = copy'[c]
  /\ UNCHANGED <<snapshot, ledger, at, envelope, mishaps>>

_auto_checkpoint(c) ==
  /\ at[c] = "drive" /\ Go(c, "dispatch") /\ snapshot' = file
  /\ UNCHANGED <<file, ledger, copy, envelope, mishaps>>

DriveEnds(c) ==
  /\ \/ at[c] = "drive" /\ UNCHANGED file
     \/ at[c] = "dispatch" /\ file' = copy[c]
  /\ Ends(c) /\ UNCHANGED <<snapshot, ledger, mishaps>>

(* run.sh skip, and resolve-loop, whose audit record repair does not read. *)
mutate_state(c) ==
  \/ /\ Free(c) /\ read_state(c) /\ Go(c, "mutate") /\ Met(c, {})
     /\ UNCHANGED <<file, snapshot, ledger, envelope>>
  \/ /\ at[c] = "mutate" /\ file' = [copy[c] EXCEPT !.own = TRUE] /\ Ends(c)
     /\ UNCHANGED <<snapshot, ledger, mishaps>>

(* run.sh checkpoint [--restore]; nothing reads the meta.yaml beside it.   *)
checkpoint(c) ==
  /\ Free(c) /\ file.run # NoRun /\ snapshot' = file /\ Met(c, {})
  /\ UNCHANGED <<file, ledger, at, copy, envelope>>
restore_checkpoint(c) ==
  /\ Free(c) /\ snapshot.run # NoRun /\ file' = snapshot /\ Met(c, {"restore"})
  /\ UNCHANGED <<snapshot, ledger, at, copy, envelope>>

(* Mutants: the empty document at the end of the ledger is replayed too;    *)
(* every envelope is replayed once, in any order.                          *)
rebuild_with_empty(r) == [run |-> r, absorbed |-> Append(ledger[r], Blank), own |-> FALSE]
rebuild_each_once(r) ==
  [run |-> r, absorbed |-> SetToSeq(ToSet(ledger[r])), own |-> FALSE]

(* run.sh repair [run-id]: the envelopes of the ledger replayed into a     *)
(* fresh state through the same advance_state, then one write.             *)
rebuild_state(r) == [run |-> r, absorbed |-> ledger[r], own |-> FALSE]
repair(c) ==
  \/ \E r \in Runs :
       /\ Free(c) /\ ledger[r] # <<>> /\ Go(c, "repair")
       /\ copy' = [copy EXCEPT ![c] = rebuild_state(r)] /\ Met(c, {})
       /\ UNCHANGED <<file, snapshot, ledger, envelope>>
  \/ /\ at[c] = "repair" /\ file' = copy[c] /\ Ends(c)
     /\ mishaps' = {"repair"} \union (mishaps \intersect {"overlap"})
     /\ UNCHANGED <<snapshot, ledger>>

Killed(c) ==
  /\ ~Idle(c) /\ Ends(c)
  /\ mishaps' = mishaps \union (IF at[c] \in {"advance", "advanced"} THEN {"parted"} ELSE {})
  /\ UNCHANGED <<file, snapshot, ledger>>

Command(c) ==
  \/ \E r \in Runs : start(c, r)
  \/ \E e \in Envelopes : append_ledger(c, e)
  \/ advance_state(c)
  \/ drive(c) \/ EngineAdvances(c) \/ _auto_checkpoint(c) \/ DriveEnds(c)
  \/ mutate_state(c) \/ checkpoint(c) \/ restore_checkpoint(c)
  \/ repair(c) \/ Killed(c)

Next == \E c \in Commands : Command(c)
Spec == Init /\ [][Next]_vars

-----------------------------------------------------------------------------
TypeOK ==
  /\ file \in States /\ snapshot \in States
  /\ ledger \in [Runs -> Seq(Envelopes)]
  /\ at \in [Commands -> {"idle", "advance", "advanced", "drive", "dispatch",
                         "mutate", "repair"}]
  /\ copy \in [Commands -> States] /\ envelope \in [Commands -> Envelopes \union {Blank}]
  /\ mishaps \subseteq {"overlap", "parted", "restore", "repair"}

(* resilience.py:6-8: the ledger is the source of truth.  No state, on     *)
(* disk, in the snapshot or in the hands of a command, has absorbed an     *)
(* envelope that its run's ledger does not hold, through every kill,       *)
(* overlap, restore and repair: what repair starts from is complete.       *)
RecordedIn(l, st) == \A e \in ToSet(st.absorbed) : e \in ToSet(l[e.run])
NothingUnrecorded ==
  /\ RecordedIn(ledger, file) /\ RecordedIn(ledger, snapshot)
  /\ \A c \in Commands : RecordedIn(ledger, copy[c])

(* resilience.py:155-161: a replay is the run.  Where nothing has parted   *)
(* them since the start or the last repair (no killed done, no restore, no *)
(* envelope of another run, no run id used twice, no two commands at once) *)
(* the state has absorbed exactly its ledger, in order.                    *)
LedgerIsTheRun ==
  /\ file.run # NoRun /\ mishaps \subseteq {"repair"}
  /\ \A c \in Commands : at[c] \notin {"advance", "advanced"}
  => file.absorbed = ledger[file.run]

(* common.py:166: a command that writes the state drops what an earlier    *)
(* one put there only if the two overlapped; start, repair and restore are *)
(* the commands meant to drop.                                             *)
Writes(c) == at[c] \in {"advanced", "drive", "dispatch", "mutate"}
LostOnlyByOverlap ==
  [][\A c \in Commands :
       Writes(c) /\ <<at'[c], copy'[c]>> # <<at[c], copy[c]>> /\ "overlap" \notin mishaps =>
         /\ IsPrefix(file.absorbed, file'.absorbed)
         /\ file.own => file'.own
         /\ file.run # NoRun => file'.run = file.run]_vars
===========================================================================
