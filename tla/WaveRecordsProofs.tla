------------------------- MODULE WaveRecordsProofs -------------------------
(***************************************************************************)
(* The engine's block in STATE.md, for any number of waves and any limit.  *)
(***************************************************************************)
EXTENDS WaveRecords, SequenceTheorems, TLAPS

(* A wave that is in the block is one of its entries.                      *)
LEMMA RunsOfBlock ==
  ASSUME NEW waves \in Waves
  PROVE  /\ ToSet(waves) \subseteq Records
         /\ DOMAIN waves = 1..Len(waves) /\ Len(waves) \in Nat
         /\ RunsOf(waves) = {waves[i].run : i \in 1..Len(waves)}
         /\ RunsOf(waves) \subseteq Runs
<1>1. DOMAIN waves = 1..Len(waves) /\ Len(waves) \in Nat
      /\ \A i \in 1..Len(waves) : waves[i] \in Records
  BY DEF Waves
<1>2. QED
  BY <1>1 DEF ToSet, RunsOf, Records

LEMMA EmptyBlock == <<>> \in Waves /\ RunsOf(<<>>) = {} /\ ToSet(<<>>) = {}
  BY RecordsAssumption DEF Waves, RunsOf, ToSet

(* What upsert_record makes of a block: a block with the record in it once, *)
(* with nothing else new, and with every wave it had, unless it is full.   *)
LEMMA Upserted ==
  ASSUME NEW waves \in Waves, NEW record \in Records,
         NEW result, result = upsert_record(waves, record)
  PROVE  /\ result \in Waves
         /\ \A w \in ToSet(result) :
              w = record \/ (w \in ToSet(waves) /\ w.run # record.run)
         /\ \/ Len(result) = KEEP_N
            \/ RunsOf(result) = RunsOf(waves) \union {record.run}
         /\ Len(waves) = KEEP_N => Len(result) = KEEP_N
<1>1. /\ DOMAIN waves = 1..Len(waves) /\ Len(waves) \in Nat /\ Len(waves) <= KEEP_N
      /\ \A i \in 1..Len(waves) : waves[i] \in Records
      /\ \A i, j \in 1..Len(waves) : waves[i].run = waves[j].run => i = j
      /\ waves \in Seq(Records)
  BY DEF Waves
<1>2. KEEP_N \in Nat /\ KEEP_N > 0
  BY RecordsAssumption
<1>3. CASE record.run \in RunsOf(waves)
  <2>1. result = [i \in 1..Len(waves) |->
                    IF waves[i].run = record.run THEN record ELSE waves[i]]
    BY <1>1, <1>3 DEF upsert_record
  <2>2. result \in Seq(Records) /\ Len(result) = Len(waves)
    BY <1>1, <2>1
  <2>3. \A i \in 1..Len(waves) : result[i].run = waves[i].run
    BY <1>1, <2>1
  <2>4. result \in Waves
    BY <1>1, <2>2, <2>3 DEF Waves
  <2>5. \A w \in ToSet(result) : w = record \/ (w \in ToSet(waves) /\ w.run # record.run)
    BY <1>1, <2>1 DEF ToSet
  <2>6. RunsOf(result) = RunsOf(waves)
    <3>1. /\ RunsOf(result) = {result[i].run : i \in 1..Len(result)}
          /\ RunsOf(waves) = {waves[i].run : i \in 1..Len(waves)}
      BY <2>4, RunsOfBlock
    <3>2. \A i \in 1..Len(waves) : result[i].run \in RunsOf(waves) /\ waves[i].run \in RunsOf(result)
      <4>1. TAKE i \in 1..Len(waves)
      <4>2. i \in 1..Len(result) /\ result[i].run = waves[i].run
        BY <2>2, <2>3
      <4>3. QED
        BY <3>1, <4>2
    <3>3. RunsOf(result) \subseteq RunsOf(waves)
      BY <2>2, <3>1, <3>2
    <3>4. RunsOf(waves) \subseteq RunsOf(result)
      BY <3>1, <3>2
    <3>5. QED
      BY <3>3, <3>4
  <2>7. QED
    BY <1>3, <2>2, <2>4, <2>5, <2>6
<1>4. CASE record.run \notin RunsOf(waves)
  <2> DEFINE longer == Append(waves, record)
             dropped == IF Len(waves) = KEEP_N THEN 1 ELSE 0
  <2>1. /\ longer \in Seq(Records) /\ Len(longer) = Len(waves) + 1
        /\ \A i \in 1..Len(waves) : longer[i] = waves[i]
        /\ longer[Len(waves) + 1] = record
    BY <1>1
  <2>2. \A i \in 1..Len(waves) : waves[i].run # record.run
    BY <1>4, RunsOfBlock
  <2>3. result = IF Len(longer) > KEEP_N
                   THEN SubSeq(longer, Len(longer) - KEEP_N + 1, Len(longer))
                   ELSE longer
    BY <1>4 DEF upsert_record, Keeps
  <2> HIDE DEF longer
  <2>4. /\ result \in Seq(Records) /\ Len(result) = Len(waves) + 1 - dropped
        /\ \A i \in 1..Len(result) : result[i] = longer[i + dropped]
        /\ dropped \in {0, 1} /\ Len(result) <= KEEP_N
    <3>1. CASE Len(waves) = KEEP_N
      <4>1. result = SubSeq(longer, 2, Len(longer))
        BY <1>1, <1>2, <2>1, <2>3, <3>1
      <4>2. \A i \in 2..Len(longer) : longer[i] \in Records
        BY <2>1
      <4>3. /\ result \in Seq(Records)
            /\ Len(result) = IF 2 <= Len(longer) THEN Len(longer) - 2 + 1 ELSE 0
            /\ \A i \in 1..Len(longer) - 2 + 1 : result[i] = longer[2 + i - 1]
        BY <1>1, <2>1, <4>1, <4>2, SubSeqProperties
      <4>4. QED
        BY <1>1, <1>2, <2>1, <3>1, <4>3
    <3>2. CASE Len(waves) # KEEP_N
      <4>1. Len(longer) <= KEEP_N /\ ~ (Len(longer) > KEEP_N)
        <5>1. Len(waves) \in Nat /\ Len(waves) <= KEEP_N /\ KEEP_N \in Nat
          BY <1>1, <1>2
        <5>2. Len(waves) + 1 <= KEEP_N
          BY <3>2, <5>1
        <5>3. Len(longer) = Len(waves) + 1
          BY <2>1
        <5>4. QED
          BY <5>1, <5>2, <5>3
      <4>2. result = longer
        BY <2>3, <4>1
      <4>3. dropped = 0
        BY <3>2
      <4> HIDE DEF dropped
      <4>4. \A i \in 1..Len(result) : i + dropped = i
        BY <2>1, <4>2, <4>3
      <4>5. QED
        BY <1>1, <2>1, <4>1, <4>2, <4>3, <4>4
    <3>3. QED
      BY <3>1, <3>2
  <2> HIDE DEF dropped
  <2>5. Len(result) \in Nat
    BY <2>4
  <2>6. \A i, j \in 1..Len(longer) : longer[i].run = longer[j].run => i = j
    BY <1>1, <2>1, <2>2
  <2>7. result \in Waves
    <3>1. \A i \in 1..Len(result) : i + dropped \in 1..Len(longer)
      BY <1>1, <2>1, <2>4, <2>5
    <3>2. ASSUME NEW i \in 1..Len(result), NEW j \in 1..Len(result),
                 result[i].run = result[j].run
          PROVE  i = j
      <4>1. result[i] = longer[i + dropped] /\ result[j] = longer[j + dropped]
        BY <2>4
      <4>2. i + dropped = j + dropped
        BY <2>6, <3>1, <3>2, <4>1
      <4>3. i \in Int /\ j \in Int /\ dropped \in Int
        BY <2>4, <2>5
      <4>4. QED
        BY <4>2, <4>3
    <3>3. DOMAIN result = 1..Len(result)
      BY <2>4
    <3>4. QED
      BY <2>4, <2>5, <3>2, <3>3 DEF Waves
  <2>8. \A w \in ToSet(result) : w = record \/ (w \in ToSet(waves) /\ w.run # record.run)
    <3>1. ASSUME NEW i \in 1..Len(result)
          PROVE  \/ result[i] = record
                 \/ result[i] \in ToSet(waves) /\ result[i].run # record.run
      <4>1. i + dropped \in 1..Len(waves) + 1
        BY <1>1, <2>4, <2>5
      <4>2. CASE i + dropped = Len(waves) + 1
        BY <2>1, <2>4, <4>2
      <4>3. CASE i + dropped \in 1..Len(waves)
        <5>1. result[i] = waves[i + dropped] /\ i + dropped \in DOMAIN waves
          BY <1>1, <2>1, <2>4, <4>3
        <5>2. QED
          BY <2>2, <4>3, <5>1 DEF ToSet
      <4>4. QED
        BY <1>1, <4>1, <4>2, <4>3
    <3>2. QED
      BY <2>7, <3>1, RunsOfBlock DEF ToSet
  <2>9. Len(waves) # KEEP_N => RunsOf(result) = RunsOf(waves) \union {record.run}
    <3>1. SUFFICES ASSUME Len(waves) # KEEP_N
                   PROVE  RunsOf(result) = RunsOf(waves) \union {record.run}
      OBVIOUS
    <3>2. Len(result) = Len(waves) + 1 /\ \A i \in 1..Len(result) : result[i] = longer[i]
      BY <1>1, <2>4, <3>1 DEF dropped
    <3>3. QED
      BY <1>1, <2>1, <2>7, <3>2, RunsOfBlock
  <2>10. QED
    BY <1>1, <2>4, <2>7, <2>8, <2>9
<1>5. QED
  BY <1>3, <1>4

-----------------------------------------------------------------------------
(* Whatever is in the block, or in a copy of it that may get there, has a  *)
(* summary or a failed attempt at one; and so has the wave that drive is   *)
(* about to record.                                                        *)
Led == summaries \union failed
LinksInv ==
  /\ RunsOf(block) \subseteq Led /\ RunsOf(tmp.text) \subseteq Led
  /\ \A w \in Writers : RunsOf(pen[w].text) \subseteq Led
  /\ drive.step = "recording" => drive.record.run \in Led

(* A copy has the waves that it was read with, unless it is full.          *)
Full(waves) == Len(waves) = KEEP_N
CopyInv ==
  \A w \in Writers : pen[w].step # "idle" =>
    Full(pen[w].text) \/ RunsOf(pen[w].read) \subseteq RunsOf(pen[w].text)

(* That of a backfill has besides, unless it is full, the waves that were  *)
(* found and are not to go, and the wave_base of those it was read with.   *)
FillInv ==
  /\ pen["backfill"].step = "idle" => fill.left = fill.found
  /\ pen["backfill"].step \in {"opened", "written"} => fill.left = {}
  /\ pen["backfill"].step # "idle" =>
       /\ \/ Full(pen["backfill"].text)
          \/ fill.found \subseteq fill.left \union RunsOf(pen["backfill"].text)
       /\ \A old \in ToSet(pen["backfill"].read), new \in ToSet(pen["backfill"].text) :
            old.run = new.run /\ old.wave_base => new.wave_base

IInv == TypeOK /\ LinksInv /\ CopyInv /\ FillInv

LEMMA InitIInv == Init => IInv
<1> SUFFICES ASSUME Init PROVE IInv
  OBVIOUS
<1> USE RecordsAssumption, EmptyBlock DEF Init, IdleHook, IdleFill, IdlePen, NoTmp
<1>1. TypeOK
  BY DEF TypeOK, Pens
<1>2. LinksInv
  BY DEF LinksInv
<1>3. CopyInv /\ FillInv
  BY DEF CopyInv, FillInv, Writers
<1>4. QED
  BY <1>1, <1>2, <1>3 DEF IInv

(* The commands leave block, copies and summaries alone.                   *)
WaveStep(r) == start(r) \/ repair(r) \/ \E entry \in Entries : done(r, entry)

LEMMA CommandSteps ==
  ASSUME IInv, NEW r \in Runs, WaveStep(r)
  PROVE  IInv'
<1> USE DEF IInv
<1>1. /\ UNCHANGED <<summaries, failed, block, tmp, drive, fill, pen>>
      /\ commands' \in Nat
      /\ current' \in [run : Runs \union {NoRun}, done : BOOLEAN, wave_base : BOOLEAN]
  <2>0. /\ commands \in Nat
        /\ current \in [run : Runs \union {NoRun}, done : BOOLEAN, wave_base : BOOLEAN]
    BY DEF TypeOK
  <2> HIDE DEF IInv
  <2>1. CASE start(r)
    BY <2>0, <2>1 DEF start, Command, closing
  <2>2. CASE repair(r)
    BY <2>0, <2>2 DEF repair, Command, closing
  <2>3. ASSUME NEW entry \in Entries, done(r, entry)
        PROVE  <1>1!:
    <3>1. /\ UNCHANGED <<summaries, failed, block, tmp, drive, fill, pen>>
          /\ commands' = commands + 1 /\ current' = [current EXCEPT !.done = FALSE]
      BY <2>3 DEF done, Command, closing
    <3>2. commands' \in Nat
      BY <2>0, <3>1
    <3>3. current' \in [run : Runs \union {NoRun}, done : BOOLEAN, wave_base : BOOLEAN]
      BY <2>0, <3>1
    <3>4. QED
      BY <3>1, <3>2, <3>3
  <2>4. QED
    BY <2>1, <2>2, <2>3 DEF WaveStep
<1>2. LinksInv' /\ CopyInv' /\ FillInv'
  BY <1>1 DEF LinksInv, CopyInv, FillInv, Led
<1>3. CASE UNCHANGED <<last, older>>
  BY <1>1, <1>2, <1>3 DEF TypeOK, Ordered
<1>4. ASSUME NEW entry \in Entries, done(r, entry)
      PROVE  TypeOK'
  <2> DEFINE before == {a \in Runs \ {r} : last[a] # NoEntry}
  <2>1. /\ last' = [last EXCEPT ![r] = entry]
        /\ older' = {p \in older : r \notin {p[1], p[2]}} \union {<<a, r>> : a \in before}
    BY <1>4 DEF done
  <2>2. entry # NoEntry
    BY RecordsAssumption
  <2>3. last' \in [Runs -> Entries \union {NoEntry}]
    <3>1. last \in [Runs -> Entries \union {NoEntry}]
      BY DEF TypeOK
    <3>2. QED
      BY <2>1, <3>1
  <2>4. \A a \in Runs : last'[a] # NoEntry <=> a = r \/ a \in before
    BY <2>1, <2>2 DEF TypeOK
  <2>5. \A a, b \in Runs : <<a, b>> \in older' <=>
          (<<a, b>> \in older /\ a # r /\ b # r) \/ (b = r /\ a \in before)
    BY <2>1
  <2>6. older' \subseteq Runs \X Runs
    <3>1. older \subseteq Runs \X Runs
      BY DEF TypeOK
    <3>2. QED
      BY <2>1, <3>1
  <2>7. Ordered(older, last)
    BY DEF TypeOK
  <2>8. \A a, b \in Runs : (<<a, b>> \in older' \/ <<b, a>> \in older')
                             <=> a # b /\ last'[a] # NoEntry /\ last'[b] # NoEntry
    BY <2>4, <2>5, <2>7 DEF Ordered
  <2>9. \A a, b, c \in Runs :
          <<a, b>> \in older' /\ <<b, c>> \in older' => <<a, c>> \in older'
    BY <2>5, <2>7 DEF Ordered
  <2>10. Ordered(older, last)'
    BY <2>8, <2>9 DEF Ordered
  <2>11. QED
    BY <1>1, <2>3, <2>6, <2>10 DEF TypeOK
<1>5. QED
  BY <1>2, <1>3, <1>4 DEF WaveStep, start, repair

(* An attempt at a summary succeeds or fails, and is known either way.     *)
LEMMA Attempted ==
  ASSUME IInv, NEW r \in Runs, generate_summary(r) \/ _ensure_summary(r)
  PROVE  Led \subseteq Led' /\ r \in Led' /\ summaries' \subseteq Runs /\ failed' \subseteq Runs
<1>1. summaries \subseteq Runs /\ failed \subseteq Runs
  BY DEF IInv, TypeOK
<1>2. CASE generate_summary(r)
  BY <1>1, <1>2 DEF generate_summary, Led
<1>3. CASE r \in summaries /\ UNCHANGED <<summaries, failed>>
  BY <1>1, <1>3 DEF Led
<1>4. QED
  BY <1>2, <1>3 DEF _ensure_summary

-----------------------------------------------------------------------------
(* The terminal's hook.                                                    *)
LEMMA DriveSteps ==
  ASSUME IInv, Terminal \/ on_terminal \/ record_closed_wave \/ HookEnds
  PROVE  IInv'
<1> USE DEF IInv
<1>1. UNCHANGED <<last, older, commands, fill, block, tmp>>
  BY DEF Terminal, on_terminal, record_closed_wave, HookEnds, files
<1>2. CASE Terminal
  <2>1. current.run \in Runs /\ UNCHANGED <<summaries, failed, pen>>
        /\ drive'.step = "closing"
    BY <1>2 DEF Terminal, TypeOK
  <2>2. drive' \in [step : {"closing", "recording"}, record : Records]
    BY <1>2, <2>1 DEF Terminal, TypeOK, Records
  <2>3. TypeOK'
    BY <1>1, <1>2, <2>1, <2>2 DEF Terminal, TypeOK, Ordered
  <2>4. QED
    BY <1>1, <2>1, <2>3 DEF LinksInv, CopyInv, FillInv, Led
<1>3. CASE on_terminal
  <2>0. drive.step = "closing" /\ drive' = [drive EXCEPT !.step = "recording"]
        /\ UNCHANGED <<current, pen>>
    BY <1>3 DEF on_terminal, files
  <2>1. drive \in [step : {"closing", "recording"}, record : Records]
    <3>1. drive \in [step : {"closing", "recording"}, record : Records] \union {IdleHook}
      BY DEF TypeOK
    <3>2. IdleHook.step = "idle"
      BY DEF IdleHook
    <3>3. QED
      BY <2>0, <3>1, <3>2
  <2>2. drive.record.run \in Runs /\ generate_summary(drive.record.run)
        /\ drive'.record = drive.record
    BY <1>3, <2>0, <2>1 DEF on_terminal, Records
  <2>3. Led \subseteq Led' /\ drive.record.run \in Led'
        /\ summaries' \subseteq Runs /\ failed' \subseteq Runs
    BY <2>2, Attempted
  <2>4. TypeOK'
    BY <1>1, <2>0, <2>1, <2>3 DEF TypeOK, Ordered
  <2>5. QED
    BY <1>1, <2>0, <2>2, <2>3, <2>4 DEF LinksInv, CopyInv, FillInv
<1>4. CASE record_closed_wave
  <2> DEFINE copy == upsert_record(block, drive.record)
  <2>1. drive.record \in Records /\ drive.record.run \in Led /\ block \in Waves
    <3>1. drive.step = "recording"
      BY <1>4 DEF record_closed_wave
    <3>2. /\ drive \in [step : {"closing", "recording"}, record : Records] \union {IdleHook}
          /\ block \in Waves
      BY DEF TypeOK
    <3>3. IdleHook.step = "idle"
      BY DEF IdleHook
    <3>4. QED
      BY <3>1, <3>2, <3>3 DEF LinksInv
  <2>2. /\ copy \in Waves
        /\ \A w \in ToSet(copy) : w = drive.record \/ w \in ToSet(block)
        /\ Full(copy) \/ RunsOf(block) \subseteq RunsOf(copy)
    BY <2>1, Upserted DEF Full
  <2>3. RunsOf(copy) \subseteq Led
    BY <2>1, <2>2 DEF RunsOf, LinksInv
  <2> HIDE DEF copy
  <2>4. /\ UNCHANGED <<current, summaries, failed>> /\ drive' = IdleHook
        /\ pen' = [pen EXCEPT !["hook"] =
                      [step |-> "copied", file |-> "tmp", read |-> block, text |-> copy]]
    BY <1>4 DEF record_closed_wave, Copied, files, copy
  <2>5. pen'["hook"] = [step |-> "copied", file |-> "tmp", read |-> block, text |-> copy]
        /\ pen'["backfill"] = pen["backfill"]
    BY <2>4 DEF TypeOK, Writers
  <2>6. TypeOK'
    BY <1>1, <2>1, <2>2, <2>4 DEF TypeOK, Ordered, Pens
  <2>7. LinksInv'
    BY <1>1, <2>3, <2>4, <2>5 DEF LinksInv, Led, IdleHook, Writers
  <2>8. CopyInv' /\ FillInv'
    BY <1>1, <2>2, <2>5 DEF CopyInv, FillInv, Writers, Full
  <2>9. QED
    BY <2>6, <2>7, <2>8
<1>5. CASE HookEnds
  <2>1. /\ UNCHANGED <<current, summaries, failed>> /\ drive' = IdleHook
        /\ pen' = [pen EXCEPT !["hook"] = IdlePen]
    BY <1>5 DEF HookEnds, files
  <2>2. pen'["hook"] = IdlePen /\ pen'["backfill"] = pen["backfill"]
    BY <2>1 DEF TypeOK, Writers
  <2>3. TypeOK'
    BY <1>1, <2>1, EmptyBlock DEF TypeOK, Ordered, IdlePen, Pens
  <2>4. LinksInv'
    BY <1>1, <2>1, <2>2, EmptyBlock DEF LinksInv, Led, IdleHook, IdlePen, Writers
  <2>5. CopyInv' /\ FillInv'
    BY <1>1, <2>2 DEF CopyInv, FillInv, Writers, IdlePen, Full
  <2>6. QED
    BY <2>3, <2>4, <2>5
<1>6. QED
  BY <1>2, <1>3, <1>4, <1>5

-----------------------------------------------------------------------------
(* The temporary file: what is written and renamed are copies.             *)
LEMMA PenSteps ==
  ASSUME IInv, NEW w \in Writers, writes_state(w)
  PROVE  IInv'
<1> USE DEF IInv
<1>1. UNCHANGED <<current, last, older, commands, summaries, failed, drive>>
      /\ Led' = Led
  BY DEF writes_state, Opens, Writes, Replaces, files, Led
<1>2. CASE Opens(w)
  <2>1. /\ pen[w].step = "copied" /\ (w = "backfill" => fill.left = {})
        /\ tmp' = [there |-> TRUE, text |-> <<>>] /\ UNCHANGED <<block, fill>>
        /\ pen' = [pen EXCEPT ![w].step = "opened"]
    BY <1>2 DEF Opens
  <2>2. \A o \in Writers : pen'[o].read = pen[o].read /\ pen'[o].text = pen[o].text
                          /\ pen'[o].step = IF o = w THEN "opened" ELSE pen[o].step
    BY <2>1 DEF TypeOK
  <2>3. TypeOK'
    <3>1. pen \in [Writers -> Pens] /\ pen' = [pen EXCEPT ![w].step = "opened"]
      BY <2>1 DEF TypeOK
    <3>2. pen' \in [Writers -> Pens]
      BY <3>1 DEF Pens
    <3>3. QED
      BY <1>1, <2>1, <3>2, EmptyBlock DEF TypeOK, Ordered
  <2>4. LinksInv'
    BY <1>1, <2>1, <2>2, EmptyBlock DEF LinksInv
  <2>5. CopyInv' /\ FillInv'
    BY <2>1, <2>2 DEF CopyInv, FillInv, Writers, Full
  <2>6. QED
    BY <2>3, <2>4, <2>5
<1>3. CASE Writes(w)
  <2>1. /\ pen[w].step = "opened" /\ UNCHANGED fill
        /\ pen' = [pen EXCEPT ![w].step = "written"]
        /\ block' \in {block, pen[w].text}
        /\ tmp' = tmp \/ tmp' = [tmp EXCEPT !.text = pen[w].text]
    BY <1>3 DEF Writes
  <2>2. \A o \in Writers : pen'[o].read = pen[o].read /\ pen'[o].text = pen[o].text
                          /\ pen'[o].step = IF o = w THEN "written" ELSE pen[o].step
    BY <2>1 DEF TypeOK
  <2>3. /\ block' \in Waves /\ RunsOf(block') \subseteq Led
        /\ tmp' \in [there : BOOLEAN, text : Waves] /\ RunsOf(tmp'.text) \subseteq Led
    BY <2>1 DEF TypeOK, LinksInv, Pens
  <2>4. TypeOK'
    <3>1. pen \in [Writers -> Pens] /\ pen' = [pen EXCEPT ![w].step = "written"]
      BY <2>1 DEF TypeOK
    <3>2. pen' \in [Writers -> Pens]
      BY <3>1 DEF Pens
    <3>3. QED
      BY <1>1, <2>1, <2>3, <3>2 DEF TypeOK, Ordered
  <2>5. LinksInv'
    BY <1>1, <2>2, <2>3 DEF LinksInv
  <2>6. CopyInv' /\ FillInv'
    BY <2>1, <2>2 DEF CopyInv, FillInv, Writers, Full
  <2>7. QED
    BY <2>4, <2>5, <2>6
<1>4. CASE Replaces(w)
  <2>1. /\ block' = tmp.text /\ tmp' = [there |-> FALSE, text |-> <<>>]
        /\ pen' = [o \in Writers |-> Leaves(w, o)]
        /\ fill' = IF w = "backfill" THEN IdleFill ELSE fill
    BY <1>4 DEF Replaces, NoTmp
  <2>2. ASSUME NEW o \in Writers
        PROVE  /\ o = w => /\ pen'[o].step = "idle"
                           /\ pen'[o].read = <<>> /\ pen'[o].text = <<>>
               /\ o # w => /\ pen'[o].read = pen[o].read /\ pen'[o].text = pen[o].text
                           /\ pen'[o].step = pen[o].step
               /\ pen'[o] \in Pens
    <3>1. pen'[o] = Leaves(w, o)
      BY <2>1
    <3>2. CASE o = w
      BY <3>1, <3>2, EmptyBlock DEF Leaves, IdlePen, Pens
    <3>3. CASE o # w /\ pen[o].step = "opened"
      <4>1. pen'[o] = [pen[o] EXCEPT !.file = Renamed(@)]
        BY <3>1, <3>3 DEF Leaves
      <4>2. Renamed(pen[o].file) \in {"STATE.md", "no name"}
        BY DEF Renamed
      <4>3. QED
        BY <3>3, <4>1, <4>2 DEF TypeOK, Pens
    <3>4. CASE o # w /\ pen[o].step # "opened"
      BY <3>1, <3>4 DEF Leaves, TypeOK
    <3>5. QED
      BY <3>2, <3>3, <3>4
  <2>3. TypeOK'
    <3>1. pen' \in [Writers -> Pens]
      BY <2>1, <2>2
    <3>2. fill' \in [found : SUBSET Runs, order : SUBSET (Runs \X Runs), left : SUBSET Runs]
      BY <2>1 DEF TypeOK, IdleFill
    <3>3. QED
      BY <1>1, <2>1, <3>1, <3>2, EmptyBlock DEF TypeOK, Ordered
  <2>4. LinksInv'
    <3>1. ASSUME NEW o \in Writers PROVE RunsOf(pen'[o].text) \subseteq Led
      BY <2>2, EmptyBlock DEF LinksInv
    <3>2. RunsOf(block') \subseteq Led /\ RunsOf(tmp'.text) \subseteq Led
      BY <2>1, EmptyBlock DEF LinksInv
    <3>3. QED
      BY <1>1, <3>1, <3>2 DEF LinksInv
  <2>5. CopyInv'
    <3>1. ASSUME NEW o \in Writers, pen'[o].step # "idle"
          PROVE  Full(pen'[o].text) \/ RunsOf(pen'[o].read) \subseteq RunsOf(pen'[o].text)
      BY <2>2, <3>1 DEF CopyInv
    <3>2. QED
      BY <3>1 DEF CopyInv, Full
  <2>6. FillInv'
    <3>1. CASE w = "backfill"
      <4>1. pen'["backfill"].step = "idle" /\ fill' = IdleFill
        BY <2>1, <2>2, <3>1 DEF Writers
      <4>2. QED
        BY <4>1 DEF FillInv, IdleFill
    <3>2. CASE w # "backfill"
      <4>1. /\ pen'["backfill"].read = pen["backfill"].read /\ fill' = fill
            /\ pen'["backfill"].text = pen["backfill"].text
            /\ pen'["backfill"].step = pen["backfill"].step
        BY <2>1, <2>2, <3>2 DEF Writers
      <4>2. QED
        BY <4>1 DEF FillInv, Full
    <3>3. QED
      BY <3>1, <3>2
  <2>7. QED
    BY <2>3, <2>4, <2>5, <2>6
<1>5. QED
  BY <1>2, <1>3, <1>4 DEF writes_state

(* A backfill: its copy starts as the block, and takes one wave at a time. *)
LEMMA BackfillSteps ==
  ASSUME IInv, backfill \/ BackfillEnds
  PROVE  IInv'
<1> USE DEF IInv
<1>1. UNCHANGED <<current, last, older, commands, block, tmp, drive>>
  BY DEF backfill, BackfillScans, BackfillReads, BackfillUpserts, BackfillEnds, files
<1>2. CASE BackfillScans
  <2>1. /\ fill = IdleFill /\ UNCHANGED <<summaries, failed, pen>>
        /\ fill'.left = fill'.found
        /\ fill' \in [found : SUBSET Runs, order : SUBSET (Runs \X Runs), left : SUBSET Runs]
    BY <1>2 DEF BackfillScans, _discover_closed_waves
  <2>2. TypeOK'
    BY <1>1, <2>1 DEF TypeOK, Ordered
  <2>3. LinksInv' /\ CopyInv'
    BY <1>1, <2>1 DEF LinksInv, CopyInv, Led
  <2>4. pen["backfill"].step = "idle"
    BY <1>2 DEF BackfillScans, IdlePen
  <2>5. FillInv'
    BY <2>1, <2>4 DEF FillInv
  <2>6. QED
    BY <2>2, <2>3, <2>5
<1>3. CASE BackfillReads
  <2>1. /\ UNCHANGED <<summaries, failed, fill>>
        /\ pen["backfill"].step = "idle"
        /\ pen' = [pen EXCEPT !["backfill"] =
                      [step |-> "copied", file |-> "tmp", read |-> block, text |-> block]]
    BY <1>3 DEF BackfillReads, Copied, IdlePen
  <2>2. pen \in [Writers -> Pens] /\ block \in Waves
    BY DEF TypeOK
  <2>3. /\ pen' \in [Writers -> Pens] /\ pen'["hook"] = pen["hook"]
        /\ pen'["backfill"].step = "copied"
        /\ pen'["backfill"].read = block /\ pen'["backfill"].text = block
    BY <2>1, <2>2 DEF Writers, Pens
  <2>4. TypeOK'
    BY <1>1, <2>1, <2>3 DEF TypeOK, Ordered
  <2>5. LinksInv' /\ CopyInv'
    BY <1>1, <2>1, <2>3 DEF LinksInv, CopyInv, Led, Writers, Full
  <2>6. \A old, new \in ToSet(block) : old.run = new.run => old = new
    BY <2>2 DEF Waves, ToSet
  <2>7. FillInv'
    BY <2>1, <2>3, <2>6 DEF FillInv
  <2>8. QED
    BY <2>4, <2>5, <2>7
<1>4. CASE BackfillUpserts
  <2> DEFINE before == pen["backfill"]
  <2>1. PICK r \in OldestLeft :
          /\ _ensure_summary(r) /\ before.step = "copied"
          /\ fill' = [fill EXCEPT !.left = @ \ {r},
                                  !.order = {p \in @ : r \notin {p[1], p[2]}}]
          /\ pen' = [pen EXCEPT !["backfill"].text =
                        upsert_record(@, build_record_from_ledger(r, before.read))]
    BY <1>4 DEF BackfillUpserts
  <2> DEFINE record == build_record_from_ledger(r, before.read)
             text == upsert_record(before.text, record)
  <2>2. /\ pen \in [Writers -> Pens] /\ before.text \in Waves
        /\ fill \in [found : SUBSET Runs, order : SUBSET (Runs \X Runs), left : SUBSET Runs]
    BY DEF TypeOK, Writers, Pens
  <2>3. r \in Runs /\ r \in fill.left
    BY <2>1, <2>2 DEF OldestLeft
  <2>4. record \in Records /\ record.run = r
        /\ (record.wave_base <=> \E w \in ToSet(before.read) : w.run = r /\ w.wave_base)
    BY <2>3 DEF build_record_from_ledger, Records
  <2>5. /\ text \in Waves
        /\ \A w \in ToSet(text) : w = record \/ (w \in ToSet(before.text) /\ w.run # record.run)
        /\ Full(text) \/ RunsOf(text) = RunsOf(before.text) \union {r}
        /\ Full(before.text) => Full(text)
    BY <2>2, <2>4, Upserted DEF Full
  <2>6. pen' = [pen EXCEPT !["backfill"].text = text]
    BY <2>1
  <2> HIDE DEF record, text
  <2>7. /\ pen' \in [Writers -> Pens] /\ pen'["hook"] = pen["hook"]
        /\ pen'["backfill"].step = "copied" /\ pen'["backfill"].text = text
        /\ pen'["backfill"].read = before.read
    <3>1. before.step = "copied" /\ text \in Waves
      BY <2>1, <2>5
    <3>2. QED
      BY <2>2, <2>6, <3>1 DEF Writers, Pens
  <2>8. /\ fill' \in [found : SUBSET Runs, order : SUBSET (Runs \X Runs), left : SUBSET Runs]
        /\ fill'.found = fill.found /\ fill'.left = fill.left \ {r}
    BY <2>1, <2>2
  <2>9. /\ Led \subseteq Led' /\ r \in Led'
        /\ summaries' \subseteq Runs /\ failed' \subseteq Runs
    BY <2>1, <2>3, Attempted
  <2>10. TypeOK'
    BY <1>1, <2>7, <2>8, <2>9 DEF TypeOK, Ordered
  <2>11. RunsOf(text) \subseteq RunsOf(before.text) \union {r}
    BY <2>4, <2>5 DEF RunsOf
  <2>12. LinksInv'
    BY <1>1, <2>7, <2>9, <2>11 DEF LinksInv, Writers
  <2>13. CopyInv'
    BY <2>1, <2>5, <2>7 DEF CopyInv, Writers, Full
  <2>14. \/ Full(text)
         \/ fill'.found \subseteq fill'.left \union RunsOf(text)
    BY <2>1, <2>5, <2>8 DEF FillInv
  <2>15. \A old \in ToSet(before.read), new \in ToSet(text) :
           old.run = new.run /\ old.wave_base => new.wave_base
    BY <2>1, <2>4, <2>5 DEF FillInv
  <2>16. FillInv'
    BY <2>7, <2>14, <2>15 DEF FillInv, Full
  <2>17. QED
    BY <2>10, <2>12, <2>13, <2>16
<1>5. CASE BackfillEnds
  <2>1. /\ UNCHANGED <<summaries, failed>> /\ fill' = IdleFill
        /\ pen' = [pen EXCEPT !["backfill"] = IdlePen]
    BY <1>5 DEF BackfillEnds
  <2>2. pen \in [Writers -> Pens]
    BY DEF TypeOK
  <2>3. /\ pen' \in [Writers -> Pens] /\ pen'["hook"] = pen["hook"]
        /\ pen'["backfill"].step = "idle" /\ pen'["backfill"].text = <<>>
    BY <2>1, <2>2, EmptyBlock DEF Writers, Pens, IdlePen
  <2>4. TypeOK'
    BY <1>1, <2>1, <2>3 DEF TypeOK, Ordered, IdleFill
  <2>5. LinksInv' /\ CopyInv'
    BY <1>1, <2>1, <2>3, EmptyBlock DEF LinksInv, CopyInv, Led, Writers, Full
  <2>6. FillInv'
    BY <2>1, <2>3 DEF FillInv, IdleFill
  <2>7. QED
    BY <2>4, <2>5, <2>6
<1>6. QED
  BY <1>2, <1>3, <1>4, <1>5 DEF backfill

LEMMA StepIInv == IInv /\ [Next]_vars => IInv'
<1> SUFFICES ASSUME IInv, [Next]_vars PROVE IInv'
  OBVIOUS
<1>1. CASE UNCHANGED vars
  BY <1>1 DEF vars, files, IInv, TypeOK, Ordered, LinksInv, Led, CopyInv, FillInv
<1>2. CASE Next
  BY <1>2, CommandSteps, DriveSteps, BackfillSteps, PenSteps DEF Next, WaveStep
<1>3. QED
  BY <1>1, <1>2

LEMMA Inductive == Spec => []IInv
  BY InitIInv, StepIInv, PTL DEF Spec

-----------------------------------------------------------------------------
(* However often waves are closed, repaired and backfilled, the block, the *)
(* temporary file and every copy have one record per wave and no more than *)
(* KEEP_N, whatever that is.                                               *)
THEOREM OneRecordPerWave == Spec => []TypeOK
<1>1. IInv => TypeOK
  BY DEF IInv
<1>2. QED
  BY Inductive, <1>1, PTL

(* The summary is tried before the record that leads to it, in the hook    *)
(* and in the backfill, killed in the middle or not, and also where one of *)
(* them writes over the other: a link that leads nowhere is one whose last *)
(* attempt has failed.                                                     *)
THEOREM LinksAlwaysLead == Spec => []LinksLead
<1>1. IInv => LinksLead
  BY DEF IInv, LinksInv, LinksLead, Led
<1>2. QED
  BY Inductive, <1>1, PTL

(* The steps that change STATE.md are those of the two writers, and one    *)
(* that gets its own text there got there with all it had copied.          *)
LEMMA OnlyWritersPublish ==
  ASSUME Next, block' # block
  PROVE  \E w \in Writers : Publishes(w)
<1>1. PICK w \in Writers : writes_state(w)
  BY DEF Next, start, done, repair, closing, Terminal, on_terminal, record_closed_wave,
         HookEnds, backfill, BackfillScans, BackfillReads, BackfillUpserts, BackfillEnds
<1>2. QED
  BY <1>1 DEF writes_state, Opens, Writes, Publishes

LEMMA Published ==
  ASSUME IInv, NEW w \in Writers, Publishes(w)
  PROVE  pen[w].step \in {"opened", "written"}
  BY DEF Publishes, Writes, Replaces

(* A record is lost to a full block, to a copy that was stale or to what   *)
(* the other writer had put in the temporary file, and to nothing else.    *)
THEOREM NoOtherLoss == Spec => LostOnlyByOverflow
<1> DEFINE Lost(r) ==
      \/ Len(block') = KEEP_N
      \/ \E w \in Writers :
           Publishes(w) /\ (pen[w].read # block \/ block' # pen[w].text)
<1>1. ASSUME IInv, [Next]_vars
      PROVE  [\A r \in RunsOf(block) \ RunsOf(block') : Lost(r)]_vars
  <2> SUFFICES ASSUME block' # block, Next, NEW r \in RunsOf(block) \ RunsOf(block')
               PROVE  Lost(r)
    BY <1>1 DEF vars
  <2>1. PICK w \in Writers : Publishes(w)
    BY OnlyWritersPublish
  <2>2. pen[w].step # "idle"
    BY <1>1, <2>1, Published
  <2>3. CASE pen[w].read = block /\ block' = pen[w].text
    BY <1>1, <2>2, <2>3 DEF IInv, CopyInv, Full
  <2>4. QED
    BY <2>1, <2>3
<1>2. QED
  BY Inductive, <1>1, PTL DEF Spec, LostOnlyByOverflow

(* A backfill takes no wave_base from a record, also where it pushes the   *)
(* record out and puts it back.                                            *)
THEOREM BaseIsKept == Spec => BackfillKeepsBase
<1> DEFINE Kept ==
      Publishes("backfill") /\ block' = pen["backfill"].text
        /\ pen["backfill"].read = block =>
        \A old \in ToSet(block), new \in ToSet(block') :
          old.run = new.run /\ old.wave_base => new.wave_base
<1>1. ASSUME IInv PROVE Kept
  <2>1. Publishes("backfill") => pen["backfill"].step # "idle"
    BY <1>1, Published DEF Writers
  <2>2. QED
    BY <1>1, <2>1 DEF IInv, FillInv
<1>2. IInv => [Kept]_vars
  BY <1>1
<1>3. QED
  BY Inductive, <1>2, PTL DEF BackfillKeepsBase

(* What a kill of the hook or an overlap has lost, a backfill that gets    *)
(* its text into the file brings back, unless the block is full: every     *)
(* wave that was closed when it looked, whatever came between.             *)
THEOREM LostWavesComeBack == Spec => BackfillRecovers
<1> DEFINE Recovered ==
      Publishes("backfill") /\ block' = pen["backfill"].text =>
        Len(block') = KEEP_N \/ fill.found \subseteq RunsOf(block')
<1>1. ASSUME IInv PROVE Recovered
  <2>1. Publishes("backfill") => pen["backfill"].step \in {"opened", "written"}
    BY <1>1, Published DEF Writers
  <2>2. QED
    BY <1>1, <2>1 DEF IInv, FillInv, Full
<1>2. IInv => [Recovered]_vars
  BY <1>1
<1>3. QED
  BY Inductive, <1>2, PTL DEF BackfillRecovers
=============================================================================
