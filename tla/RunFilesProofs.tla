-------------------------- MODULE RunFilesProofs --------------------------
(***************************************************************************)
(* The ledger is complete, for any number of commands running over each  *)
(* other, any runs and any envelopes; where nothing parted them the state*)
(* is the replay of its ledger; and only an overlap drops an update.     *)
(***************************************************************************)
EXTENDS RunFiles, TLAPS

(* A ledger holds envelopes of its own run only.                         *)
LedgersAreSorted == \A r \in Runs : \A e \in ToSet(ledger[r]) : e.run = r

(* A done that is about to advance the state has written its envelope.   *)
AppendedFirst ==
  \A c \in Commands : at[c] \in {"advance", "advanced"} =>
    envelope[c] \in Envelopes /\ envelope[c] \in ToSet(ledger[envelope[c].run])

IInv == TypeOK /\ LedgersAreSorted /\ AppendedFirst /\ NothingUnrecorded

LEMMA EnvelopeRuns == \A e \in Envelopes : e.run \in Runs
  BY ParametersAssumption

LEMMA ToSetAppend ==
  ASSUME NEW S, NEW s \in Seq(S), NEW x \in S
  PROVE  /\ Append(s, x) \in Seq(S)
         /\ ToSet(Append(s, x)) = ToSet(s) \union {x}
<1>1. /\ Append(s, x) \in Seq(S)
      /\ DOMAIN Append(s, x) = 1 .. Len(s) + 1 /\ DOMAIN s = 1 .. Len(s)
      /\ \A i \in 1 .. Len(s) : Append(s, x)[i] = s[i]
      /\ Append(s, x)[Len(s) + 1] = x
      /\ Len(s) \in Nat
  OBVIOUS
<1>2. 1 .. Len(s) + 1 = (1 .. Len(s)) \union {Len(s) + 1}
  BY <1>1
<1>3. QED
  BY <1>1, <1>2 DEF ToSet

LEMMA ToSetEmpty == ToSet(<<>>) = {}
  BY DEF ToSet

LEMMA ToSetIn ==
  ASSUME NEW S, NEW s \in Seq(S)
  PROVE  ToSet(s) \subseteq S
  BY DEF ToSet

LEMMA FreshTyped ==
  /\ NoFile \in States /\ NoFile.absorbed = <<>>
  /\ \A r \in Runs : fresh_result(r) \in States /\ fresh_result(r).absorbed = <<>>
<1>1. <<>> \in Seq(Envelopes)
  OBVIOUS
<1>2. ASSUME NEW r \in Runs \union {NoRun}
      PROVE  fresh_result(r) \in States /\ fresh_result(r).absorbed = <<>>
  BY <1>1 DEF fresh_result, States
<1>3. QED
  BY <1>2 DEF NoFile

LEMMA FreshRecorded ==
  ASSUME NEW l
  PROVE  RecordedIn(l, NoFile) /\ \A r \in Runs : RecordedIn(l, fresh_result(r))
  BY FreshTyped, ToSetEmpty DEF RecordedIn

LEMMA InitIInv == Init => IInv
<1> SUFFICES ASSUME Init PROVE IInv
  OBVIOUS
<1>1. TypeOK
  BY FreshTyped DEF Init, TypeOK
<1>2. LedgersAreSorted
  BY ToSetEmpty DEF Init, LedgersAreSorted
<1>3. AppendedFirst
  BY DEF Init, AppendedFirst
<1>4. NothingUnrecorded
  BY FreshRecorded DEF Init, NothingUnrecorded
<1> QED
  BY <1>1, <1>2, <1>3, <1>4 DEF IInv

-----------------------------------------------------------------------------
(* What the writes of the commands make of a state.                      *)
LEMMA OwnEffect ==
  ASSUME NEW st \in States
  PROVE  /\ [st EXCEPT !.own = TRUE] \in States
         /\ [st EXCEPT !.own = TRUE].absorbed = st.absorbed
  BY DEF States

LEMMA Absorbs ==
  ASSUME NEW st \in States, NEW e \in Envelopes, NEW l,
         RecordedIn(l, st), e \in ToSet(l[e.run]),
         NEW new, new = [st EXCEPT !.run = IF @ = NoRun THEN e.run ELSE @,
                                   !.absorbed = Append(@, e)]
  PROVE  new \in States /\ RecordedIn(l, new)
<1>1. /\ st.absorbed \in Seq(Envelopes) /\ st.run \in Runs \union {NoRun}
      /\ st.own \in BOOLEAN
  BY DEF States
<1>2. /\ new.absorbed = Append(st.absorbed, e)
      /\ new.run \in Runs \union {NoRun}
      /\ new = [run |-> new.run, absorbed |-> new.absorbed, own |-> st.own]
  BY <1>1, EnvelopeRuns DEF States
<1>3. /\ new.absorbed \in Seq(Envelopes)
      /\ ToSet(new.absorbed) = ToSet(st.absorbed) \union {e}
  BY <1>1, <1>2, ToSetAppend
<1>4. QED
  BY <1>1, <1>2, <1>3 DEF States, RecordedIn

LEMMA Rebuilds ==
  ASSUME NEW r \in Runs, TypeOK, LedgersAreSorted
  PROVE  rebuild_state(r) \in States /\ RecordedIn(ledger, rebuild_state(r))
<1>1. ledger[r] \in Seq(Envelopes)
  BY DEF TypeOK
<1>2. rebuild_state(r) = [run |-> r, absorbed |-> ledger[r], own |-> FALSE]
  BY DEF rebuild_state
<1>3. rebuild_state(r) \in States
  BY <1>1, <1>2 DEF States
<1>4. rebuild_state(r).absorbed = ledger[r]
  BY <1>2
<1>5. \A x \in ToSet(ledger[r]) : x.run = r
  BY DEF LedgersAreSorted
<1>6. QED
  BY <1>3, <1>4, <1>5 DEF RecordedIn

LEMMA LedgerGrows ==
  ASSUME TypeOK, NEW e \in Envelopes,
         ledger' = [ledger EXCEPT ![e.run] = Append(@, e)]
  PROVE  /\ ledger' \in [Runs -> Seq(Envelopes)]
         /\ e \in ToSet(ledger'[e.run])
         /\ \A r \in Runs :
               /\ ToSet(ledger[r]) \subseteq ToSet(ledger'[r])
               /\ ToSet(ledger'[r]) \subseteq ToSet(ledger[r]) \union {e}
               /\ (r # e.run => ledger'[r] = ledger[r])
<1>1. e.run \in Runs /\ ledger \in [Runs -> Seq(Envelopes)]
  BY EnvelopeRuns DEF TypeOK
<1>2. /\ Append(ledger[e.run], e) \in Seq(Envelopes)
      /\ ToSet(Append(ledger[e.run], e)) = ToSet(ledger[e.run]) \union {e}
  BY <1>1, ToSetAppend
<1>3. QED
  BY <1>1, <1>2

-----------------------------------------------------------------------------
LEMMA NextIInv == IInv /\ [Next]_vars => IInv'
<1> SUFFICES ASSUME IInv, [Next]_vars PROVE IInv'
  OBVIOUS
<1> USE DEF IInv
<1> DEFINE Ok(l, st) == st \in States /\ RecordedIn(l, st)
<1>0. /\ Ok(ledger, file) /\ Ok(ledger, snapshot)
      /\ \A c \in Commands : Ok(ledger, copy[c])
      /\ \A l : Ok(l, NoFile) /\ \A r \in Runs : Ok(l, fresh_result(r))
  BY FreshTyped, FreshRecorded DEF TypeOK, NothingUnrecorded
<1> DEFINE Steps == {"idle", "advance", "advanced", "drive", "dispatch",
                     "mutate", "repair"}
(* The ledger stays, and what is written anywhere was recorded before.   *)
<1>1. ASSUME UNCHANGED ledger,
             Ok(ledger, file') /\ Ok(ledger, snapshot'),
             NEW c \in Commands, NEW st, Ok(ledger, st), NEW next \in Steps,
             copy' \in {copy, [copy EXCEPT ![c] = st]},
             \/ UNCHANGED <<at, envelope>>
             \/ /\ at' = [at EXCEPT ![c] = next]
                /\ \/ UNCHANGED envelope /\ (next = "advanced" => at[c] = "advance")
                      /\ next # "advance"
                   \/ envelope' = [envelope EXCEPT ![c] = Blank] /\ next = "idle",
             mishaps' \subseteq {"overlap", "parted", "restore", "repair"}
      PROVE  IInv'
  <2>1. TypeOK'
    BY <1>1, <1>0 DEF TypeOK
  <2>2. LedgersAreSorted'
    BY <1>1 DEF LedgersAreSorted
  <2>3. AppendedFirst'
    BY <1>1 DEF AppendedFirst, TypeOK
  <2>4. NothingUnrecorded'
    BY <1>1, <1>0 DEF NothingUnrecorded, TypeOK
  <2>5. QED
    BY <2>1, <2>2, <2>3, <2>4
<1>2. ASSUME NEW c \in Commands, NEW r \in Runs, start(c, r) PROVE IInv'
  <2>1. Ok(ledger, file') /\ Ok(ledger, snapshot')
    BY <1>2, <1>0 DEF start
  <2>2. mishaps' \subseteq {"overlap", "parted", "restore", "repair"}
    BY <1>2 DEF start
  <2>3. QED
    BY <1>1, <1>2, <1>0, <2>1, <2>2 DEF start
<1>3. ASSUME NEW c \in Commands, NEW e \in Envelopes, append_ledger(c, e) PROVE IInv'
  <2>1. /\ ledger' = [ledger EXCEPT ![e.run] = Append(@, e)]
        /\ envelope' = [envelope EXCEPT ![c] = e]
        /\ at' = [at EXCEPT ![c] = "advance"]
        /\ UNCHANGED <<file, snapshot, copy>>
        /\ mishaps' \subseteq {"overlap", "parted", "restore", "repair"}
    BY <1>3 DEF append_ledger, Go, Met, TypeOK
  <2>2. /\ ledger' \in [Runs -> Seq(Envelopes)]
        /\ e \in ToSet(ledger'[e.run])
        /\ \A r \in Runs :
              /\ ToSet(ledger[r]) \subseteq ToSet(ledger'[r])
              /\ ToSet(ledger'[r]) \subseteq ToSet(ledger[r]) \union {e}
              /\ (r # e.run => ledger'[r] = ledger[r])
    BY <2>1, LedgerGrows
  <2>3. \A r \in Runs : \A x \in ToSet(ledger[r]) : x \in ToSet(ledger'[r])
    BY <2>2
  <2>4. TypeOK'
    BY <2>1, <2>2 DEF TypeOK
  <2>5. LedgersAreSorted'
    <3>1. ASSUME NEW r \in Runs, NEW x \in ToSet(ledger'[r]) PROVE x.run = r
      <4>1. \A y \in ToSet(ledger[r]) : y.run = r
        BY DEF LedgersAreSorted
      <4>2. CASE r = e.run
        <5>1. x \in ToSet(ledger[r]) \union {e}
          BY <2>2, <3>1
        <5>2. QED
          BY <4>1, <4>2, <5>1
      <4>3. CASE r # e.run
        <5>1. ledger'[r] = ledger[r]
          BY <2>2, <4>3
        <5>2. QED
          BY <3>1, <4>1, <5>1
      <4>4. QED
        BY <4>2, <4>3
    <3>2. QED
      BY <3>1 DEF LedgersAreSorted
  <2>6. AppendedFirst'
    <3>1. ASSUME NEW x \in Commands, at'[x] \in {"advance", "advanced"}
          PROVE  /\ envelope'[x] \in Envelopes
                 /\ envelope'[x] \in ToSet(ledger'[envelope'[x].run])
      <4>1. CASE x = c
        BY <2>1, <2>2, <4>1 DEF TypeOK
      <4>2. CASE x # c
        <5>1. at'[x] = at[x] /\ envelope'[x] = envelope[x]
          BY <2>1, <4>2 DEF TypeOK
        <5>2. envelope[x] \in Envelopes /\ envelope[x] \in ToSet(ledger[envelope[x].run])
          BY <3>1, <5>1 DEF AppendedFirst
        <5>3. envelope[x].run \in Runs
          BY <5>2, EnvelopeRuns
        <5>4. QED
          BY <2>3, <5>1, <5>2, <5>3
      <4>3. QED
        BY <4>1, <4>2
    <3>2. QED
      BY <3>1 DEF AppendedFirst
  <2>7. ASSUME NEW st \in States, RecordedIn(ledger, st)
        PROVE  RecordedIn(ledger', st)
    <3>1. \A x \in ToSet(st.absorbed) : x.run \in Runs
      BY <2>7, ToSetIn, EnvelopeRuns DEF States
    <3>2. QED
      BY <2>7, <2>3, <3>1 DEF RecordedIn
  <2>8. NothingUnrecorded'
    BY <2>1, <2>7, <1>0 DEF NothingUnrecorded
  <2>9. QED
    BY <2>4, <2>5, <2>6, <2>8
<1>4. ASSUME NEW c \in Commands, advance_state(c) PROVE IInv'
  <2>1. CASE at[c] = "advance" /\ read_state(c) /\ Go(c, "advanced")
             /\ UNCHANGED <<file, snapshot, ledger, envelope, mishaps>>
    BY <1>0, <1>1, <2>1 DEF read_state, Go, TypeOK
  <2>2. CASE /\ at[c] = "advanced" /\ Ends(c)
             /\ file' = [copy[c] EXCEPT
                   !.run = IF @ = NoRun THEN envelope[c].run ELSE @,
                   !.absorbed = Append(@, envelope[c])]
             /\ UNCHANGED <<snapshot, ledger, mishaps>>
    <3>1. envelope[c] \in Envelopes /\ envelope[c] \in ToSet(ledger[envelope[c].run])
      BY <2>2 DEF AppendedFirst
    <3>2. Ok(ledger, file')
      BY <2>2, <3>1, <1>0, Absorbs
    <3>3. QED
      BY <1>0, <1>1, <2>2, <3>2 DEF Ends, TypeOK
  <2>3. QED
    BY <1>4, <2>1, <2>2 DEF advance_state
<1>5. ASSUME NEW c \in Commands, drive(c) PROVE IInv'
  BY <1>0, <1>1, <1>5 DEF drive, read_state, Go, Met, TypeOK
<1>6. ASSUME NEW c \in Commands, EngineAdvances(c) PROVE IInv'
  <2>1. Ok(ledger, [copy[c] EXCEPT !.own = TRUE])
    BY <1>0, OwnEffect DEF RecordedIn
  <2>2. copy' = [copy EXCEPT ![c] = [copy[c] EXCEPT !.own = TRUE]]
    BY <1>6 DEF EngineAdvances, TypeOK
  <2>3. file' = [copy[c] EXCEPT !.own = TRUE]
    BY <1>6, <2>2 DEF EngineAdvances, TypeOK
  <2>4. QED
    BY <1>0, <1>1, <1>6, <2>1, <2>2, <2>3 DEF EngineAdvances, TypeOK
<1>7. ASSUME NEW c \in Commands, _auto_checkpoint(c) PROVE IInv'
  BY <1>0, <1>1, <1>7 DEF _auto_checkpoint, Go, TypeOK
<1>8. ASSUME NEW c \in Commands, DriveEnds(c) PROVE IInv'
  BY <1>0, <1>1, <1>8 DEF DriveEnds, Ends, TypeOK
<1>9. ASSUME NEW c \in Commands, mutate_state(c) PROVE IInv'
  <2>1. Ok(ledger, [copy[c] EXCEPT !.own = TRUE])
    BY <1>0, OwnEffect DEF RecordedIn
  <2>2. CASE Free(c) /\ read_state(c) /\ Go(c, "mutate") /\ Met(c, {})
             /\ UNCHANGED <<file, snapshot, ledger, envelope>>
    BY <1>0, <1>1, <2>2 DEF read_state, Go, Met, TypeOK
  <2>3. CASE at[c] = "mutate" /\ file' = [copy[c] EXCEPT !.own = TRUE] /\ Ends(c)
             /\ UNCHANGED <<snapshot, ledger, mishaps>>
    BY <1>0, <1>1, <2>1, <2>3 DEF Ends, TypeOK
  <2>4. QED
    BY <1>9, <2>2, <2>3 DEF mutate_state
<1>10. ASSUME NEW c \in Commands, checkpoint(c) PROVE IInv'
  BY <1>0, <1>1, <1>10 DEF checkpoint, Met, TypeOK
<1>11. ASSUME NEW c \in Commands, restore_checkpoint(c) PROVE IInv'
  BY <1>0, <1>1, <1>11 DEF restore_checkpoint, Met, TypeOK
<1>12. ASSUME NEW c \in Commands, repair(c) PROVE IInv'
  <2>1. ASSUME NEW r \in Runs, Go(c, "repair"),
               copy' = [copy EXCEPT ![c] = rebuild_state(r)], Met(c, {}),
               UNCHANGED <<file, snapshot, ledger, envelope>>
        PROVE  IInv'
    <3>1. Ok(ledger, rebuild_state(r))
      BY Rebuilds
    <3>2. QED
      BY <1>0, <1>1, <2>1, <3>1 DEF Go, Met, TypeOK
  <2>2. CASE /\ at[c] = "repair" /\ file' = copy[c] /\ Ends(c)
             /\ mishaps' = {"repair"} \union (mishaps \intersect {"overlap"})
             /\ UNCHANGED <<snapshot, ledger>>
    BY <1>0, <1>1, <2>2 DEF Ends, TypeOK
  <2>3. QED
    BY <1>12, <2>1, <2>2 DEF repair
<1>13. ASSUME NEW c \in Commands, Killed(c) PROVE IInv'
  BY <1>0, <1>1, <1>13 DEF Killed, Ends, TypeOK
<1>14. CASE UNCHANGED vars
  BY <1>14 DEF vars, TypeOK, LedgersAreSorted, AppendedFirst, NothingUnrecorded
<1>15. QED
  BY <1>2, <1>3, <1>4, <1>5, <1>6, <1>7, <1>8, <1>9, <1>10, <1>11, <1>12,
     <1>13, <1>14 DEF Next, Command

(* The files keep their types.                                           *)
THEOREM FilesTypeCorrect == Spec => []TypeOK
<1>1. IInv => TypeOK
  BY DEF IInv
<1>2. QED
  BY InitIInv, NextIInv, <1>1, PTL DEF Spec

(* resilience.py:6-8: whatever a state has absorbed is in the ledger of  *)
(* its run, so repair starts from a complete record.                     *)
THEOREM LedgerIsComplete == Spec => []NothingUnrecorded
<1>1. IInv => NothingUnrecorded
  BY DEF IInv
<1>2. QED
  BY InitIInv, NextIInv, <1>1, PTL DEF Spec

-----------------------------------------------------------------------------
(* Where no two commands have overlapped: one runs at a time, what it has*)
(* read to write back is what the file still holds, and what repair is   *)
(* about to write is the whole ledger.                                   *)
OneAtATime ==
  "overlap" \notin mishaps =>
    /\ \A b, c \in Commands : ~Idle(b) /\ ~Idle(c) => b = c
    /\ \A c \in Commands : Writes(c) => copy[c] = file
    /\ \A c \in Commands : at[c] = "repair" =>
         copy[c].run \in Runs /\ copy[c].absorbed = ledger[copy[c].run]

(* Where nothing has parted state and ledger, a done is at most one      *)
(* envelope ahead in the ledger, its own, of the current run.            *)
OneAhead ==
  mishaps \subseteq {"repair"} =>
    \A c \in Commands : at[c] \in {"advance", "advanced"} =>
      /\ envelope[c].run = file.run
      /\ ledger[file.run] = Append(file.absorbed, envelope[c])

RInv == IInv /\ OneAtATime /\ OneAhead /\ LedgerIsTheRun

LEMMA InitRInv == Init => RInv
  BY InitIInv DEF Init, RInv, OneAtATime, OneAhead, LedgerIsTheRun, Idle, Writes,
     NoFile, fresh_result

(* A command that begins with nobody overlapping finds everybody idle; one *)
(* that goes on is the only one.                                         *)
LEMMA BeginsAlone ==
  ASSUME TypeOK, NEW c \in Commands, Free(c), NEW more, Met(c, more),
         "overlap" \notin mishaps'
  PROVE  "overlap" \notin mishaps /\ \A b \in Commands : Idle(b)
  BY DEF Free, Met, Others

LEMMA GoesOnAlone ==
  ASSUME OneAtATime, NEW c \in Commands, ~Idle(c), "overlap" \notin mishaps
  PROVE  \A b \in Commands : b # c => Idle(b)
  BY DEF OneAtATime

(* A step that leaves nobody at work, or c at work with what it has just *)
(* read or written.                                                      *)
LEMMA StepIsOneAtATime ==
  ASSUME TypeOK, TypeOK', NEW c \in Commands,
         NEW next, at' = [at EXCEPT ![c] = next],
         \A b \in Commands : b # c => Idle(b),
         next \in {"advanced", "drive", "dispatch", "mutate"} => copy'[c] = file',
         next = "repair" => /\ copy'[c].run \in Runs
                            /\ copy'[c].absorbed = ledger'[copy'[c].run]
  PROVE  OneAtATime'
  BY DEF OneAtATime, Idle, Writes, TypeOK

LEMMA NextOneAtATime ==
  ASSUME IInv, IInv', OneAtATime, NEW c \in Commands, Command(c)
  PROVE  OneAtATime'
<1> SUFFICES ASSUME "overlap" \notin mishaps' PROVE OneAtATime'
  BY DEF OneAtATime
<1>0. TypeOK /\ TypeOK'
  BY DEF IInv
<1>1. ASSUME NEW r \in Runs, start(c, r) PROVE OneAtATime'
  BY <1>0, <1>1 DEF start, Free, Others, OneAtATime, Idle, Writes
<1>2. ASSUME NEW e \in Envelopes, append_ledger(c, e) PROVE OneAtATime'
  BY <1>0, <1>2, BeginsAlone, StepIsOneAtATime DEF append_ledger, Go
<1>3. CASE advance_state(c)
  <2>1. ~Idle(c) /\ UNCHANGED mishaps
    BY <1>3 DEF advance_state, Idle
  <2>2. CASE at[c] = "advance"
    <3>1. copy'[c] = file'
      BY <1>0, <1>3, <2>2 DEF advance_state, read_state, TypeOK
    <3>2. at' = [at EXCEPT ![c] = "advanced"]
      BY <1>3, <2>2 DEF advance_state, Go
    <3>3. QED
      BY <1>0, <2>1, <3>1, <3>2, GoesOnAlone, StepIsOneAtATime
  <2>3. CASE at[c] # "advance"
    <3>1. at' = [at EXCEPT ![c] = "idle"]
      BY <1>3, <2>3 DEF advance_state, Ends
    <3>2. QED
      BY <1>0, <2>1, <3>1, GoesOnAlone, StepIsOneAtATime
  <2>4. QED
    BY <2>2, <2>3
<1>4. CASE drive(c)
  <2>1. copy'[c] = file'
    BY <1>0, <1>4 DEF drive, read_state, TypeOK
  <2>2. QED
    BY <1>0, <1>4, <2>1, BeginsAlone, StepIsOneAtATime DEF drive, Go
<1>5. CASE EngineAdvances(c)
  <2>1. /\ at[c] = "drive" /\ copy'[c] = file' /\ UNCHANGED <<at, mishaps>>
    BY <1>0, <1>5 DEF EngineAdvances, TypeOK
  <2>2. at' = [at EXCEPT ![c] = "drive"] /\ ~Idle(c)
    BY <1>0, <2>1 DEF TypeOK, Idle
  <2>3. QED
    BY <1>0, <2>1, <2>2, GoesOnAlone, StepIsOneAtATime
<1>6. CASE _auto_checkpoint(c)
  <2>1. ~Idle(c) /\ Writes(c) /\ UNCHANGED <<file, copy, mishaps>>
    BY <1>6 DEF _auto_checkpoint, Idle, Writes
  <2>2. copy'[c] = file'
    BY <2>1 DEF OneAtATime
  <2>3. QED
    BY <1>0, <1>6, <2>1, <2>2, GoesOnAlone, StepIsOneAtATime
    DEF _auto_checkpoint, Go
<1>7. CASE DriveEnds(c)
  <2>1. ~Idle(c) /\ UNCHANGED mishaps /\ at' = [at EXCEPT ![c] = "idle"]
    BY <1>7 DEF DriveEnds, Ends, Idle
  <2>2. QED
    BY <1>0, <2>1, GoesOnAlone, StepIsOneAtATime
<1>8. CASE mutate_state(c)
  <2>1. CASE Idle(c)
    <3>1. copy'[c] = file' /\ at' = [at EXCEPT ![c] = "mutate"]
      BY <1>0, <1>8, <2>1 DEF mutate_state, read_state, TypeOK, Idle, Go
    <3>2. Free(c) /\ Met(c, {})
      BY <1>8, <2>1 DEF mutate_state, Idle
    <3>3. QED
      BY <1>0, <3>1, <3>2, BeginsAlone, StepIsOneAtATime
  <2>2. CASE ~Idle(c)
    <3>1. UNCHANGED mishaps /\ at' = [at EXCEPT ![c] = "idle"]
      BY <1>8, <2>2 DEF mutate_state, Ends, Free
    <3>2. QED
      BY <1>0, <2>2, <3>1, GoesOnAlone, StepIsOneAtATime
  <2>3. QED
    BY <2>1, <2>2
<1>9. CASE checkpoint(c) \/ restore_checkpoint(c)
  <2>1. Free(c) /\ UNCHANGED at /\ (Met(c, {}) \/ Met(c, {"restore"}))
    BY <1>9 DEF checkpoint, restore_checkpoint
  <2>2. at' = [at EXCEPT ![c] = "idle"]
    BY <1>0, <2>1 DEF Free, Idle, TypeOK
  <2>3. QED
    BY <1>0, <2>1, <2>2, BeginsAlone, StepIsOneAtATime
<1>10. CASE repair(c)
  <2>1. CASE Idle(c)
    <3>1. PICK r \in Runs : /\ Free(c) /\ Met(c, {}) /\ UNCHANGED ledger
                            /\ at' = [at EXCEPT ![c] = "repair"]
                            /\ copy' = [copy EXCEPT ![c] = rebuild_state(r)]
      BY <1>10, <2>1 DEF repair, Idle, Go
    <3>2. copy'[c].run \in Runs /\ copy'[c].absorbed = ledger'[copy'[c].run]
      BY <1>0, <3>1 DEF rebuild_state, TypeOK
    <3>3. QED
      BY <1>0, <3>1, <3>2, BeginsAlone, StepIsOneAtATime
  <2>2. CASE ~Idle(c)
    <3>1. "overlap" \notin mishaps /\ at' = [at EXCEPT ![c] = "idle"]
      BY <1>10, <2>2 DEF repair, Ends, Free
    <3>2. QED
      BY <1>0, <2>2, <3>1, GoesOnAlone, StepIsOneAtATime
  <2>3. QED
    BY <2>1, <2>2
<1>11. CASE Killed(c)
  <2>1. ~Idle(c) /\ "overlap" \notin mishaps /\ at' = [at EXCEPT ![c] = "idle"]
    BY <1>11 DEF Killed, Ends
  <2>2. QED
    BY <1>0, <2>1, GoesOnAlone, StepIsOneAtATime
<1> QED
  BY <1>1, <1>2, <1>3, <1>4, <1>5, <1>6, <1>7, <1>8, <1>9, <1>10, <1>11
  DEF Command

(* What the writes of a running command do to a file that is its copy.   *)
LEMMA WrittenState ==
  ASSUME NEW st \in States
  PROVE  /\ [st EXCEPT !.own = TRUE].absorbed = st.absorbed
         /\ [st EXCEPT !.own = TRUE].run = st.run
         /\ [st EXCEPT !.own = TRUE].own
  BY DEF States

(* A file that keeps run and envelopes, a ledger that stays and a done   *)
(* that, if any, stands where it stood.                                  *)
LEMMA StepIsQuiet ==
  ASSUME OneAhead, LedgerIsTheRun,
         file'.run = file.run, file'.absorbed = file.absorbed,
         UNCHANGED ledger, mishaps \subseteq mishaps',
         NEW c \in Commands, at[c] \notin {"advance", "advanced"},
         \A b \in Commands : b # c => at'[b] = at[b] /\ envelope'[b] = envelope[b],
         at'[c] \notin {"advance", "advanced"}
  PROVE  OneAhead' /\ LedgerIsTheRun'
<1>1. mishaps' \subseteq {"repair"} => mishaps \subseteq {"repair"}
  OBVIOUS
<1>2. \A b \in Commands : at'[b] \in {"advance", "advanced"} =>
        b # c /\ at[b] \in {"advance", "advanced"} /\ envelope'[b] = envelope[b]
  OBVIOUS
<1>3. OneAhead'
  BY <1>1, <1>2 DEF OneAhead
<1>4. LedgerIsTheRun'
  BY <1>1 DEF LedgerIsTheRun
<1> QED
  BY <1>3, <1>4

LEMMA NextReplay ==
  ASSUME RInv, IInv', NEW c \in Commands, Command(c)
  PROVE  OneAhead' /\ LedgerIsTheRun'
<1> USE DEF RInv
<1>0. TypeOK /\ TypeOK'
  BY DEF IInv
<1> SUFFICES ASSUME mishaps' \subseteq {"repair"} PROVE OneAhead' /\ LedgerIsTheRun'
  BY DEF OneAhead, LedgerIsTheRun
<1> USE <1>0
<1>1. ASSUME NEW r \in Runs, start(c, r) PROVE OneAhead' /\ LedgerIsTheRun'
  <2>1. \A b \in Commands : Idle(b)
    BY <1>1 DEF start, Free, Others
  <2>2. ledger[r] = <<>> /\ file' = fresh_result(r) /\ UNCHANGED <<ledger, at>>
    BY <1>1 DEF start
  <2>3. file'.run = r /\ file'.absorbed = <<>>
    BY <2>2 DEF fresh_result
  <2>4. QED
    BY <2>1, <2>2, <2>3 DEF OneAhead, LedgerIsTheRun, Idle
<1>2. ASSUME NEW e \in Envelopes, append_ledger(c, e)
      PROVE  OneAhead' /\ LedgerIsTheRun'
  <2>1. /\ ledger' = [ledger EXCEPT ![e.run] = Append(ledger[e.run], e)]
        /\ envelope' = [envelope EXCEPT ![c] = e]
        /\ at' = [at EXCEPT ![c] = "advance"]
        /\ e.run = file.run /\ UNCHANGED file
        /\ mishaps \subseteq {"repair"}
    BY <1>2 DEF append_ledger, Go, Met
  <2>2. \A b \in Commands : Idle(b)
    BY <1>2, BeginsAlone DEF append_ledger
  <2>3. e.run \in Runs /\ file.run # NoRun
    BY <2>1, EnvelopeRuns, ParametersAssumption
  <2>4. file.absorbed = ledger[file.run]
    BY <2>1, <2>2, <2>3 DEF LedgerIsTheRun, Idle
  <2>5. ledger'[file.run] = Append(file.absorbed, e)
    BY <2>1, <2>3, <2>4 DEF TypeOK
  <2>6. at'[c] = "advance" /\ envelope'[c] = e
    BY <2>1 DEF TypeOK
  <2>7. \A b \in Commands : at'[b] \in {"advance", "advanced"} => b = c
    BY <2>1, <2>2 DEF TypeOK, Idle
  <2>8. QED
    BY <2>1, <2>5, <2>6, <2>7 DEF OneAhead, LedgerIsTheRun
<1>3. CASE advance_state(c)
  <2>1. CASE at[c] = "advance"
    <3>1. /\ at' = [at EXCEPT ![c] = "advanced"]
          /\ UNCHANGED <<file, ledger, envelope, mishaps>>
      BY <1>3, <2>1 DEF advance_state, Go
    <3>2. /\ \A b \in Commands : at'[b] \in {"advance", "advanced"} =>
                                   at[b] \in {"advance", "advanced"}
          /\ at'[c] = "advanced"
      BY <2>1, <3>1 DEF TypeOK
    <3>3. QED
      BY <3>1, <3>2 DEF OneAhead, LedgerIsTheRun
  <2>2. CASE at[c] # "advance"
    <3>1. /\ at[c] = "advanced" /\ at' = [at EXCEPT ![c] = "idle"]
          /\ file' = [copy[c] EXCEPT
                         !.run = IF @ = NoRun THEN envelope[c].run ELSE @,
                         !.absorbed = Append(@, envelope[c])]
          /\ UNCHANGED <<ledger, mishaps>>
      BY <1>3, <2>2 DEF advance_state, Ends
    <3>2. /\ copy[c] = file /\ \A b \in Commands : b # c => Idle(b)
      BY <3>1, GoesOnAlone DEF OneAtATime, Writes, Idle
    <3>3. /\ envelope[c].run = file.run
          /\ ledger[file.run] = Append(file.absorbed, envelope[c])
      BY <3>1 DEF OneAhead
    <3>4. file.run # NoRun
      BY <3>1, <3>3, EnvelopeRuns, ParametersAssumption DEF IInv, AppendedFirst
    <3>5. file'.absorbed = Append(file.absorbed, envelope[c]) /\ file'.run = file.run
      <4>1. /\ file \in States
            /\ envelope[c] \in Envelopes
            /\ file' = [file EXCEPT
                         !.run = IF @ = NoRun THEN envelope[c].run ELSE @,
                         !.absorbed = Append(@, envelope[c])]
        BY <3>1, <3>2 DEF TypeOK, IInv, AppendedFirst
      <4>2. QED
        BY <3>4, <4>1 DEF States
    <3>6. \A b \in Commands : at'[b] = "idle"
      BY <3>1, <3>2 DEF TypeOK, Idle
    <3>7. QED
      BY <3>1, <3>3, <3>5, <3>6 DEF OneAhead, LedgerIsTheRun
  <2>3. QED
    BY <2>1, <2>2
<1>4. CASE drive(c)
  BY <1>4, StepIsQuiet DEF drive, Free, Idle, Go, Met, TypeOK
<1>5. CASE EngineAdvances(c)
  <2>1. /\ at[c] = "drive" /\ copy' = [copy EXCEPT ![c].own = TRUE]
        /\ file' = copy'[c] /\ UNCHANGED <<ledger, at, envelope, mishaps>>
    BY <1>5 DEF EngineAdvances
  <2>2. copy[c] = file
    BY <2>1 DEF OneAtATime, Writes
  <2>3. file' = [file EXCEPT !.own = TRUE]
    BY <2>1, <2>2 DEF TypeOK
  <2>4. file'.run = file.run /\ file'.absorbed = file.absorbed
    BY <2>3, WrittenState DEF TypeOK
  <2>5. QED
    BY <2>1, <2>4, StepIsQuiet
<1>6. CASE _auto_checkpoint(c)
  BY <1>6, StepIsQuiet DEF _auto_checkpoint, Go, TypeOK
<1>7. CASE DriveEnds(c)
  <2>1. /\ at[c] \in {"drive", "dispatch"} /\ file' \in {file, copy[c]}
        /\ at' = [at EXCEPT ![c] = "idle"]
        /\ envelope' = [envelope EXCEPT ![c] = Blank]
        /\ UNCHANGED <<ledger, mishaps>>
    BY <1>7 DEF DriveEnds, Ends
  <2>2. copy[c] = file
    BY <2>1 DEF OneAtATime, Writes
  <2>3. QED
    BY <2>1, <2>2, StepIsQuiet DEF TypeOK
<1>8. CASE mutate_state(c)
  <2>1. CASE Idle(c)
    <3>1. /\ Met(c, {}) /\ at' = [at EXCEPT ![c] = "mutate"]
          /\ UNCHANGED <<file, ledger, envelope>>
      BY <1>8, <2>1 DEF mutate_state, Idle, Go
    <3>2. QED
      BY <2>1, <3>1, StepIsQuiet DEF Met, Idle, TypeOK
  <2>2. CASE ~Idle(c)
    <3>1. /\ at[c] = "mutate" /\ file' = [copy[c] EXCEPT !.own = TRUE]
          /\ at' = [at EXCEPT ![c] = "idle"]
          /\ envelope' = [envelope EXCEPT ![c] = Blank]
          /\ UNCHANGED <<ledger, mishaps>>
      BY <1>8, <2>2 DEF mutate_state, Ends, Free
    <3>2. copy[c] = file
      BY <3>1 DEF OneAtATime, Writes
    <3>3. file'.run = file.run /\ file'.absorbed = file.absorbed
      BY <3>1, <3>2, WrittenState DEF TypeOK
    <3>4. QED
      BY <3>1, <3>3, StepIsQuiet DEF TypeOK
  <2>3. QED
    BY <2>1, <2>2
<1>9. CASE checkpoint(c)
  BY <1>9, StepIsQuiet DEF checkpoint, Free, Idle, Met, TypeOK
<1>10. CASE restore_checkpoint(c)
  BY <1>10 DEF restore_checkpoint, Met
<1>11. CASE repair(c)
  <2>1. CASE Idle(c)
    <3>1. /\ Met(c, {}) /\ at' = [at EXCEPT ![c] = "repair"]
          /\ UNCHANGED <<file, ledger, envelope>>
      BY <1>11, <2>1 DEF repair, Idle, Go
    <3>2. QED
      BY <2>1, <3>1, StepIsQuiet DEF Met, Idle, TypeOK
  <2>2. CASE ~Idle(c)
    <3>1. /\ at[c] = "repair" /\ file' = copy[c] /\ UNCHANGED ledger
          /\ at' = [at EXCEPT ![c] = "idle"] /\ "overlap" \notin mishaps
      BY <1>11, <2>2 DEF repair, Ends, Free
    <3>2. \A b \in Commands : at'[b] = "idle"
      BY <3>1, <2>2, GoesOnAlone DEF TypeOK, Idle
    <3>3. file'.absorbed = ledger'[file'.run]
      BY <3>1 DEF OneAtATime
    <3>4. QED
      BY <3>2, <3>3 DEF OneAhead, LedgerIsTheRun
  <2>3. QED
    BY <2>1, <2>2
<1>12. CASE Killed(c)
  BY <1>12, StepIsQuiet DEF Killed, Ends, TypeOK
<1> QED
  BY <1>1, <1>2, <1>3, <1>4, <1>5, <1>6, <1>7, <1>8, <1>9, <1>10, <1>11, <1>12
  DEF Command

LEMMA NextRInv == RInv /\ [Next]_vars => RInv'
<1> SUFFICES ASSUME RInv, [Next]_vars PROVE RInv'
  OBVIOUS
<1>1. IInv'
  BY NextIInv DEF RInv
<1>2. ASSUME NEW c \in Commands, Command(c) PROVE RInv'
  BY <1>1, <1>2, NextOneAtATime, NextReplay DEF RInv
<1>3. CASE UNCHANGED vars
  BY <1>1, <1>3 DEF RInv, vars, OneAtATime, OneAhead, LedgerIsTheRun, Idle, Writes
<1> QED
  BY <1>2, <1>3 DEF Next

(* resilience.py:155-161: between two mishaps the state is the replay of *)
(* its ledger.                                                           *)
THEOREM StateIsItsLedger == Spec => []LedgerIsTheRun
<1>1. RInv => LedgerIsTheRun
  BY DEF RInv
<1> QED
  BY InitRInv, NextRInv, <1>1, PTL DEF Spec

-----------------------------------------------------------------------------
LEMMA PrefixReflexive ==
  ASSUME NEW s \in Seq(Envelopes)
  PROVE  IsPrefix(s, s)
  BY DEF IsPrefix

LEMMA PrefixOfAppend ==
  ASSUME NEW s \in Seq(Envelopes), NEW e \in Envelopes
  PROVE  IsPrefix(s, Append(s, e))
<1>1. /\ Len(Append(s, e)) = Len(s) + 1 /\ Len(s) \in Nat
      /\ \A i \in 1 .. Len(s) : Append(s, e)[i] = s[i]
  OBVIOUS
<1>2. SubSeq(s, 1, Len(s)) = SubSeq(Append(s, e), 1, Len(s))
  BY <1>1
<1> QED
  BY <1>1, <1>2 DEF IsPrefix

Keeps ==
  /\ IsPrefix(file.absorbed, file'.absorbed)
  /\ file.own => file'.own
  /\ file.run # NoRun => file'.run = file.run

(* A write of a command that nobody overlapped adds to what is there.    *)
LEMMA WriteKeeps ==
  ASSUME RInv, NEW c \in Commands, Command(c), Writes(c), "overlap" \notin mishaps
  PROVE  Keeps
<1>0. /\ file \in States /\ copy[c] = file /\ ~Idle(c)
      /\ file.absorbed \in Seq(Envelopes)
  BY DEF RInv, IInv, TypeOK, OneAtATime, Writes, Idle, States
<1>1. CASE UNCHANGED file
  BY <1>0, <1>1, PrefixReflexive DEF Keeps
<1>2. CASE file' = [file EXCEPT !.own = TRUE]
  <2>1. file'.absorbed = file.absorbed /\ file'.run = file.run /\ file'.own
    BY <1>0, <1>2, WrittenState
  <2>2. QED
    BY <1>0, <2>1, PrefixReflexive DEF Keeps
<1>3. CASE advance_state(c)
  <2>1. /\ at[c] = "advanced"
        /\ file' = [file EXCEPT !.run = IF @ = NoRun THEN envelope[c].run ELSE @,
                                !.absorbed = Append(@, envelope[c])]
    BY <1>0, <1>3 DEF advance_state, Writes
  <2>2. envelope[c] \in Envelopes
    BY <2>1 DEF RInv, IInv, AppendedFirst
  <2>3. /\ file'.absorbed = Append(file.absorbed, envelope[c])
        /\ file'.own = file.own /\ (file.run # NoRun => file'.run = file.run)
    BY <1>0, <2>1, <2>2 DEF States
  <2>4. QED
    BY <1>0, <2>2, <2>3, PrefixOfAppend DEF Keeps
<1>4. CASE EngineAdvances(c)
  <2>1. file' = [file EXCEPT !.own = TRUE]
    BY <1>0, <1>4 DEF EngineAdvances, RInv, IInv, TypeOK
  <2>2. QED
    BY <1>2, <2>1
<1>5. CASE mutate_state(c)
  BY <1>0, <1>2, <1>5 DEF mutate_state, Free
<1>6. CASE _auto_checkpoint(c) \/ DriveEnds(c) \/ Killed(c)
  BY <1>0, <1>1, <1>6 DEF _auto_checkpoint, DriveEnds, Killed
<1>7. CASE repair(c)
  BY <1>0, <1>7 DEF repair, Free, Writes
<1> QED
  BY <1>0, <1>3, <1>4, <1>5, <1>6, <1>7
  DEF Command, start, append_ledger, drive, checkpoint, restore_checkpoint, Free

LEMMA OnlyItsOwn ==
  ASSUME TypeOK, NEW b \in Commands, Command(b), NEW c \in Commands, b # c
  PROVE  at'[c] = at[c] /\ copy'[c] = copy[c]
  BY DEF TypeOK, Command, start, append_ledger, advance_state, read_state, drive,
     EngineAdvances, _auto_checkpoint, DriveEnds, mutate_state, checkpoint,
     restore_checkpoint, repair, Killed, Go, Ends

(* common.py:166: two commands have to overlap for one to drop what the  *)
(* other wrote.                                                          *)
THEOREM UpdatesAreKept == Spec => LostOnlyByOverlap
<1> DEFINE Kept ==
      \A c \in Commands :
        Writes(c) /\ <<at'[c], copy'[c]>> # <<at[c], copy[c]>> /\ "overlap" \notin mishaps =>
          /\ IsPrefix(file.absorbed, file'.absorbed)
          /\ file.own => file'.own
          /\ file.run # NoRun => file'.run = file.run
<1>1. RInv /\ [Next]_vars => [Kept]_vars
  <2> SUFFICES ASSUME RInv, NEW b \in Commands, Command(b), NEW c \in Commands,
                      Writes(c), <<at'[c], copy'[c]>> # <<at[c], copy[c]>>,
                      "overlap" \notin mishaps
               PROVE  Keeps
    BY DEF Next, Keeps
  <2>1. b = c
    BY OnlyItsOwn DEF RInv, IInv
  <2> QED
    BY <2>1, WriteKeeps
<1> QED
  BY InitRInv, NextRInv, <1>1, PTL DEF Spec, LostOnlyByOverlap
===========================================================================
