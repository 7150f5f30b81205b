---------------------------- MODULE WaveRecords ----------------------------
(***************************************************************************)
(* The engine's block in STATE.md: a record for each of the last closed    *)
(* waves, written when drive reaches the terminal, and made up for from    *)
(* the ledgers by statewrite.py backfill (core/statewrite.py, ledger.py,   *)
(* run.py on_terminal).  Both read the file, change their copy, write it   *)
(* to the same STATE.md.tmp and rename that; both give up on any error,    *)
(* and waves go on meanwhile.  Of a record only the run and whether its    *)
(* wave_base is known matter here; of a ledger its last entry and when it  *)
(* was written.                                                            *)
(***************************************************************************)
EXTENDS Naturals, FiniteSets, Sequences, SequencesExt

CONSTANTS Runs,     \* run ids
          KEEP_N,   \* how many records the block keeps
          Entries,  \* [node, outcome]: what a ledger may end with
          OldEntries,  \* bound: what one from before the block may end with
          MaxCommands, \* bound: start, done and repair together
          MaxFailed    \* bound: ledgers that have failed to give a summary

NoRun == "no run"
NoEntry == [node |-> "none", outcome |-> "none"]
Writers == {"hook", "backfill"}

ASSUME RecordsAssumption ==
  /\ KEEP_N \in Nat \ {0} /\ MaxCommands \in Nat /\ MaxFailed \in Nat
  /\ Entries \subseteq [node : STRING, outcome : STRING] \ {NoEntry}
  /\ OldEntries \subseteq Entries
  /\ NoRun \notin Runs

VARIABLES current,   \* current-run.md: run, status and whether wave_base is known
          last,      \* per run, the last entry of its ledger
          older,     \* <<a, b>>: the ledger of a was last written before that of b
          summaries, \* the runs with a summary.md
          failed,    \* the runs whose summary failed when it was last tried
          block,     \* the records in STATE.md, in file order
          tmp,       \* STATE.md.tmp: whether it is there, and the records in it
          drive,     \* where the terminal's hook is, and the record it will write
          fill,      \* a backfill's scan: the waves it found, their order, those to go
          pen,       \* per writer: its step, where its open file is, its copies
          commands   \* how many start, done and repair there were (for the bound)

files == <<current, last, older, commands>>
vars == <<files, summaries, failed, block, tmp, drive, fill, pen>>

Records == [run : Runs, wave_base : BOOLEAN]
NoRecord == [run |-> NoRun, wave_base |-> FALSE]
NoTmp == [there |-> FALSE, text |-> <<>>]
IdleHook == [step |-> "idle", record |-> NoRecord]
IdleFill == [found |-> {}, order |-> {}, left |-> {}]
IdlePen == [step |-> "idle", file |-> "tmp", read |-> <<>>, text |-> <<>>]
Copied(read, text) == [step |-> "copied", file |-> "tmp", read |-> read, text |-> text]

(* The runs with a ledger, by when it was last written.                    *)
Ordered(order, ledgers) ==
  /\ \A a, b \in Runs :
       (<<a, b>> \in order \/ <<b, a>> \in order)
         <=> a # b /\ ledgers[a] # NoEntry /\ ledgers[b] # NoEntry
  /\ \A a, b, c \in Runs :
       <<a, b>> \in order /\ <<b, c>> \in order => <<a, c>> \in order

(* There may be ledgers from before there was a block (statewrite.py:228). *)
Init ==
  /\ current = [run |-> NoRun, done |-> FALSE, wave_base |-> FALSE]
  /\ last \in [Runs -> OldEntries \union {NoEntry}]
  /\ older \in {order \in SUBSET (Runs \X Runs) : Ordered(order, last)}
  /\ summaries = {} /\ failed = {} /\ block = <<>> /\ tmp = NoTmp
  /\ drive = IdleHook /\ fill = IdleFill /\ pen = [w \in Writers |-> IdlePen]
  /\ commands = 0

-----------------------------------------------------------------------------
(* The block.                                                              *)
RunsOf(waves) == {w.run : w \in ToSet(waves)}

(* Mutant: one record too few is kept. *)
KeepsOneLess(waves) ==
  IF Len(waves) >= KEEP_N THEN SubSeq(waves, Len(waves) - KEEP_N + 2, Len(waves))
  ELSE waves

Keeps(waves) ==
  IF Len(waves) > KEEP_N THEN SubSeq(waves, Len(waves) - KEEP_N + 1, Len(waves))
  ELSE waves

(* Mutant: a replay adds a second record. *)
append_record(waves, record) == Keeps(Append(waves, record))

(* A wave that is there keeps its place, a new one goes to the end and may *)
(* push the first out.                                                     *)
upsert_record(waves, record) ==
  IF record.run \in RunsOf(waves)
  THEN [i \in DOMAIN waves |-> IF waves[i].run = record.run THEN record ELSE waves[i]]
  ELSE Keeps(Append(waves, record))

-----------------------------------------------------------------------------
(* The waves, which go on whatever the hook and a backfill are doing.      *)
closing == <<summaries, failed, block, tmp, drive, fill, pen>>
Command == commands < MaxCommands /\ commands' = commands + 1

(* A wave starts over whatever was there before.                           *)
start(r) ==
  /\ Command
  /\ \E known \in BOOLEAN : current' = [run |-> r, done |-> FALSE, wave_base |-> known]
  /\ UNCHANGED <<last, older, closing>>

(* An envelope sets the current run going and goes to the ledger of the    *)
(* run that it names, which may be another.                                *)
done(r, entry) ==
  /\ Command /\ current.run # NoRun
  /\ last' = [last EXCEPT ![r] = entry]
  /\ older' = {p \in older : r \notin {p[1], p[2]}}
                \union {<<a, r>> : a \in {a \in Runs \ {r} : last[a] # NoEntry}}
  /\ current' = [current EXCEPT !.done = FALSE]
  /\ UNCHANGED closing

(* A repaired state knows no wave_base and may be that of a closed wave.   *)
repair(r) ==
  /\ Command /\ last[r] # NoEntry
  /\ current' = [run |-> r, done |-> FALSE, wave_base |-> FALSE]
  /\ UNCHANGED <<last, older, closing>>

-----------------------------------------------------------------------------
(* STATE.md.tmp: opened, which empties it, written and renamed to STATE.md. *)
(* An open file follows a rename: what the other writer has renamed in the *)
(* meantime is written where it then is, in STATE.md, or after a second    *)
(* rename in a file that has no name.  With no STATE.md.tmp left to rename *)
(* the writer has its error, and ends.                                     *)
Opens(w) ==
  /\ pen[w].step = "copied" /\ (w = "backfill" => fill.left = {})
  /\ tmp' = [there |-> TRUE, text |-> <<>>]
  /\ pen' = [pen EXCEPT ![w].step = "opened"]
  /\ UNCHANGED <<files, summaries, failed, block, drive, fill>>

Writes(w) ==
  /\ pen[w].step = "opened" /\ pen' = [pen EXCEPT ![w].step = "written"]
  /\ tmp' = IF pen[w].file = "tmp" THEN [tmp EXCEPT !.text = pen[w].text] ELSE tmp
  /\ block' = IF pen[w].file = "STATE.md" THEN pen[w].text ELSE block
  /\ UNCHANGED <<files, summaries, failed, drive, fill>>

Renamed(file) == IF file = "tmp" THEN "STATE.md" ELSE "no name"
Leaves(w, other) ==
  CASE other = w -> IdlePen
    [] other # w /\ pen[other].step = "opened" ->
         [pen[other] EXCEPT !.file = Renamed(@)]
    [] OTHER -> pen[other]

Replaces(w) ==
  /\ pen[w].step = "written" /\ tmp.there
  /\ block' = tmp.text /\ tmp' = NoTmp
  /\ pen' = [other \in Writers |-> Leaves(w, other)]
  /\ fill' = IF w = "backfill" THEN IdleFill ELSE fill
  /\ UNCHANGED <<files, summaries, failed, drive>>

writes_state(w) == Opens(w) \/ Writes(w) \/ Replaces(w)

-----------------------------------------------------------------------------
(* drive reaches the terminal: the status is written before the hook runs, *)
(* which gets the state that drive holds.                                  *)
Terminal ==
  /\ drive = IdleHook /\ pen["hook"] = IdlePen
  /\ current.run # NoRun /\ ~current.done
  /\ current' = [current EXCEPT !.done = TRUE]
  /\ drive' = [step |-> "closing",
               record |-> [run |-> current.run, wave_base |-> current.wave_base]]
  /\ UNCHANGED <<last, older, commands, summaries, failed, block, tmp, fill, pen>>

(* It takes a ledger; what cannot be rendered or written is a warning.     *)
generate_summary(r) ==
  \/ /\ last[r] # NoEntry
     /\ summaries' = summaries \union {r} /\ failed' = failed \ {r}
  \/ /\ last[r] = NoEntry \/ Cardinality(failed \ {r}) < MaxFailed
     /\ failed' = failed \union {r} /\ UNCHANGED summaries

(* Mutant: the summary is left to backfill. *)
RecordOnly ==
  /\ drive.step = "closing" /\ drive' = [drive EXCEPT !.step = "recording"]
  /\ UNCHANGED <<files, summaries, failed, block, tmp, fill, pen>>

(* The summary first.                                                      *)
on_terminal ==
  /\ drive.step = "closing" /\ drive' = [drive EXCEPT !.step = "recording"]
  /\ generate_summary(drive.record.run)
  /\ UNCHANGED <<files, block, tmp, fill, pen>>

(* Then the record goes into a copy of the block.                          *)
record_closed_wave ==
  /\ drive.step = "recording" /\ drive' = IdleHook
  /\ pen' = [pen EXCEPT !["hook"] =
                Copied(block, upsert_record(block, drive.record))]
  /\ UNCHANGED <<files, summaries, failed, block, tmp, fill>>

(* Killed, or an error on STATE.md or its temporary file: the run is done, *)
(* and nobody will close it again.                                         *)
HookEnds ==
  /\ drive # IdleHook \/ pen["hook"] # IdlePen
  /\ drive' = IdleHook /\ pen' = [pen EXCEPT !["hook"] = IdlePen]
  /\ UNCHANGED <<files, summaries, failed, block, tmp, fill>>

-----------------------------------------------------------------------------
(* Backfill.                                                               *)
_TERMINAL_ACCEPT ==
  ({"done"} \X {"DONE", "PASS"}) \union ({"l2-review"} \X {"ACK", "APPROVED"})
    \union {<<"monitor", "PASS">>}
_reached_terminal(entry) == <<entry.node, entry.outcome>> \in _TERMINAL_ACCEPT

_discover_closed_waves == {r \in Runs : _reached_terminal(last[r])}

(* A ledger knows no wave_base; what the block knew stays.                 *)
build_record_from_ledger(r, existing) ==
  [run |-> r,
   wave_base |-> \E w \in ToSet(existing) : w.run = r /\ w.wave_base]

BackfillScans ==
  /\ fill = IdleFill /\ pen["backfill"] = IdlePen /\ _discover_closed_waves # {}
  /\ fill' = [found |-> _discover_closed_waves, left |-> _discover_closed_waves,
              order |-> older \intersect (_discover_closed_waves \X _discover_closed_waves)]
  /\ UNCHANGED <<files, summaries, failed, block, tmp, drive, pen>>

BackfillReads ==
  /\ fill # IdleFill /\ pen["backfill"] = IdlePen
  /\ pen' = [pen EXCEPT !["backfill"] = Copied(block, block)]
  /\ UNCHANGED <<files, summaries, failed, block, tmp, drive, fill>>

(* The waves are taken up in the order in which their ledgers were written *)
(* when they were found.                                                   *)
OldestLeft == {r \in fill.left : \A other \in fill.left : <<other, r>> \notin fill.order}

_ensure_summary(r) ==
  IF r \in summaries THEN UNCHANGED <<summaries, failed>> ELSE generate_summary(r)

(* Mutant: what the block knew is looked up after each upsert. *)
UpsertAsItGoes ==
  /\ pen["backfill"].step = "copied"
  /\ \E r \in OldestLeft :
       /\ _ensure_summary(r)
       /\ fill' = [fill EXCEPT !.left = @ \ {r}, !.order = {p \in @ : r \notin {p[1], p[2]}}]
       /\ pen' = [pen EXCEPT !["backfill"].text =
                     upsert_record(@, build_record_from_ledger(r, @))]
  /\ UNCHANGED <<files, block, tmp, drive>>

(* Its summary is there, or a warning, before the block leads to it.       *)
BackfillUpserts ==
  /\ pen["backfill"].step = "copied"
  /\ \E r \in OldestLeft :
       /\ _ensure_summary(r)
       /\ fill' = [fill EXCEPT !.left = @ \ {r}, !.order = {p \in @ : r \notin {p[1], p[2]}}]
       /\ pen' = [pen EXCEPT !["backfill"].text =
                     upsert_record(@, build_record_from_ledger(r, pen["backfill"].read))]
  /\ UNCHANGED <<files, block, tmp, drive>>

backfill == BackfillScans \/ BackfillReads \/ BackfillUpserts

(* Killed, or an error on STATE.md or its temporary file.                  *)
BackfillEnds ==
  /\ fill # IdleFill /\ fill' = IdleFill /\ pen' = [pen EXCEPT !["backfill"] = IdlePen]
  /\ UNCHANGED <<files, summaries, failed, block, tmp, drive>>

Next ==
  \/ \E r \in Runs : start(r) \/ repair(r) \/ \E entry \in Entries : done(r, entry)
  \/ Terminal \/ on_terminal \/ record_closed_wave \/ HookEnds
  \/ backfill \/ BackfillEnds
  \/ \E w \in Writers : writes_state(w)

Spec == Init /\ [][Next]_vars

-----------------------------------------------------------------------------
Waves ==
  {waves \in Seq(Records) :
     /\ Len(waves) <= KEEP_N
     /\ \A i, j \in DOMAIN waves : waves[i].run = waves[j].run => i = j}

Pens ==
  [step : {"idle", "copied", "opened", "written"}, file : {"tmp", "STATE.md", "no name"},
   read : Waves, text : Waves]

(* One record per wave however often it is closed, repaired and backfilled *)
(* (statewrite.py:12-13), and never more than KEEP_N of them, in the block *)
(* and in every copy of it; the ledgers have an order.                     *)
TypeOK ==
  /\ commands \in Nat
  /\ current \in [run : Runs \union {NoRun}, done : BOOLEAN, wave_base : BOOLEAN]
  /\ last \in [Runs -> Entries \union {NoEntry}]
  /\ older \subseteq Runs \X Runs /\ Ordered(older, last)
  /\ summaries \subseteq Runs /\ failed \subseteq Runs
  /\ block \in Waves /\ tmp \in [there : BOOLEAN, text : Waves]
  /\ drive \in [step : {"closing", "recording"}, record : Records] \union {IdleHook}
  /\ fill \in [found : SUBSET Runs, order : SUBSET (Runs \X Runs), left : SUBSET Runs]
  /\ pen \in [Writers -> Pens]

(* statewrite.py:330-332: no record leads to a summary that is not there,  *)
(* unless the last attempt at it has failed, which is only warned of; in   *)
(* whatever order hook and backfill write, over one another too, and       *)
(* wherever they are killed.                                               *)
LinksLead == RunsOf(block) \subseteq summaries \union failed

(* A step of w that changes what STATE.md holds.                           *)
Publishes(w) ==
  \/ Writes(w) /\ pen[w].file = "STATE.md"
  \/ Replaces(w)

(* A record goes only when the block is full afterwards, or when the hook  *)
(* and the backfill overlapped: the copy was stale, or what was renamed    *)
(* was not what the writer had put there.                                  *)
LostOnlyByOverflow ==
  [][\A r \in RunsOf(block) \ RunsOf(block') :
       \/ Len(block') = KEEP_N
       \/ \E w \in Writers :
            Publishes(w) /\ (pen[w].read # block \/ block' # pen[w].text)]_vars

(* statewrite.py:366-368: where a backfill gets its own text into the file *)
(* that it has read, it takes from no record the wave_base that it has and *)
(* the ledger has not, also where it pushes a record out and puts it back. *)
BackfillKeepsBase ==
  [][Publishes("backfill") /\ block' = pen["backfill"].text
       /\ pen["backfill"].read = block =>
       \A old \in ToSet(block), new \in ToSet(block') :
         old.run = new.run /\ old.wave_base => new.wave_base]_vars

(* statewrite.py:344-350: what a kill of the hook or an overlap has lost   *)
(* comes back.  A backfill that gets its own text into the file leaves out *)
(* none of the waves that were closed when it looked, unless the block is  *)
(* full, whatever has happened to block and ledgers since.                 *)
BackfillRecovers ==
  [][Publishes("backfill") /\ block' = pen["backfill"].text =>
       Len(block') = KEEP_N \/ fill.found \subseteq RunsOf(block')]_vars
=============================================================================
