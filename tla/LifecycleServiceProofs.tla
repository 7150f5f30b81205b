----------------------- MODULE LifecycleServiceProofs -----------------------
(***************************************************************************)
(* The fail-closed gate, the serialization of provider calls, what no step *)
(* may do to a record, and the refinement of EnvironmentContract, for    *)
(* every set of clients, projects, repositories, tools and machines.     *)
(***************************************************************************)
EXTENDS LifecycleService, TLAPS

(* A coroutine between the two Fly calls owns a machine id, and only     *)
(* ensures reach the provider.                                           *)
CallsAreEnsures ==
  \A c \in Clients :
    /\ Calling(c) => req[c].op = "ensure"
    /\ pc[c] = "starting" => machine[c] \in Machines

(* The repository's side of the gate: ready names a walled machine of the*)
(* project, any other state names none.                                  *)
RecordsAreWalled ==
  \A p \in Projects :
    /\ records[p].status = "ready" =>
         /\ records[p].connection \in Machines
         /\ fleet[records[p].connection].state = "started"
         /\ fleet[records[p].connection].project = p
    /\ records[p].status # "ready" => records[p].connection = NoHandle

IInv ==
  /\ TypeOK
  /\ CallsAreEnsures
  /\ ProvisioningIsUndisturbed
  /\ RecordsAreWalled
  /\ ReadyAnswersAreWalled

----------------------------------------------------------------------------
(* The lock's head is unique, so two calls of one project are one call. *)
LEMMA HolderIsUnique ==
  ASSUME NEW b \in Clients, NEW c \in Clients,
         Holds(b), Holds(c), req[b].project = req[c].project
  PROVE  b = c
BY DEF Holds

(* OneProviderCall follows from the state of the callers. *)
LEMMA CallsAreSerialized == ProvisioningIsUndisturbed => OneProviderCall
BY HolderIsUnique DEF ProvisioningIsUndisturbed, OneProviderCall, Undisturbed

(* What an answer is made of. *)
LEMMA ErrorType ==
  ASSUME NEW code \in Codes
  PROVE  /\ Error(code) \in Responses
         /\ Error(code).status = "none"
BY DEF Error, Responses, Status

LEMMA ResponseType ==
  ASSUME NEW record \in EnvironmentRecord \union {NoRecord}
  PROVE  /\ RecordToResponse(record) \in Responses
         /\ RecordToResponse(record).status = record.status
         /\ RecordToResponse(record).connection = record.connection
BY DEF RecordToResponse, Responses, Codes, Status, EnvironmentRecord, NoRecord

LEMMA InitIInv == Init => IInv
<1> SUFFICES ASSUME Init PROVE IInv
  OBVIOUS
<1> USE DEF Init
<1>1. TypeOK
  BY DEF TypeOK, Requests, Responses, NoResponse, Error, Codes, Status,
         LockedOps, ReadOps
<1>2. CallsAreEnsures /\ ProvisioningIsUndisturbed
  BY DEF CallsAreEnsures, ProvisioningIsUndisturbed, Calling
<1>3. RecordsAreWalled
  BY DEF RecordsAreWalled, NoRecord
<1>4. ReadyAnswersAreWalled
  BY DEF ReadyAnswersAreWalled, NoResponse, Error
<1> QED
  BY <1>1, <1>2, <1>3, <1>4 DEF IInv

----------------------------------------------------------------------------
LEMMA RequestType ==
  ASSUME NEW r \in Requests
  PROVE  /\ r.project \in Projects
         /\ r.op = "ensure" => r.url \in Urls /\ r.tool \in Tools
BY DEF Requests, LockedOps, ReadOps

(* Queueing up behind the holder leaves the holder at the head. *)
LEMMA AppendKeepsHead ==
  ASSUME NEW s \in Seq(Clients), NEW c \in Clients
  PROVE  /\ Append(s, c) \in Seq(Clients)
         /\ s # <<>> => Append(s, c) # <<>> /\ Head(Append(s, c)) = Head(s)
OBVIOUS

(* A coroutine calling the provider is not disturbed by a step that leaves *)
(* its own state, the records and the fleet alone and, at most, lets     *)
(* another coroutine queue behind it.                                    *)
LEMMA WaitersDoNotDisturb ==
  ASSUME IInv, NEW d \in Clients, Calling(d),
         UNCHANGED <<pc[d], req[d], machine[d], records, fleet>>,
         \/ queue'[req[d].project] = queue[req[d].project]
         \/ \E c \in Clients :
              queue'[req[d].project] = Append(queue[req[d].project], c)
  PROVE  Undisturbed(d)'
<1>1. Undisturbed(d)
  BY DEF IInv, ProvisioningIsUndisturbed
<1>2. queue[req[d].project] \in Seq(Clients) /\ req'[d] = req[d]
  BY RequestType DEF IInv, TypeOK
<1>3. Holds(d)'
  BY <1>1, <1>2, AppendKeepsHead DEF Undisturbed, Holds
<1> QED
  BY <1>1, <1>3 DEF Undisturbed

(* Arriving requests: only the requester's own coroutine moves. *)
LEMMA ArriveStep ==
  ASSUME IInv, NEW c \in Clients, Arrive(c)
  PROVE  IInv'
<1> PICK r \in Requests :
       \/ Acquire(c, r) \/ RejectTool(c, r) \/ Get(c, r)
       \/ RefuseWorkspace(c, r) \/ ListFiles(c, r) \/ GitStatus(c, r)
  BY DEF Arrive
<1>1. /\ UNCHANGED <<records, machine, fleet>>
      /\ pc[c] = "idle"
      /\ pc'[c] \in {"idle", "waiting", "git"}
      /\ pc' = [pc EXCEPT ![c] = pc'[c]]
      /\ req' = [req EXCEPT ![c] = r]
      /\ resp' = [resp EXCEPT ![c] = resp'[c]]
      /\ \/ queue' = queue
         \/ queue' = [queue EXCEPT ![r.project] = Append(queue[r.project], c)]
  BY DEF IInv, TypeOK, Acquire, RejectTool, Get, RefuseWorkspace, ListFiles,
         GitStatus, Reply
<1>2. r.project \in Projects
  BY RequestType
<1>3. /\ resp'[c] \in Responses
      /\ resp'[c].status = "ready" =>
           resp'[c] = RecordToResponse(records[r.project])
  BY <1>2, ErrorType, ResponseType DEF IInv, TypeOK, Acquire, RejectTool, Get,
     RefuseWorkspace, ListFiles, GitStatus, Reply, NoResponse, Codes
<1>4. TypeOK'
  <2>1. queue' \in [Projects -> Seq(Clients)]
    <3>1. Append(queue[r.project], c) \in Seq(Clients)
      BY <1>2, AppendKeepsHead DEF IInv, TypeOK
    <3> QED
      BY <1>1, <3>1 DEF IInv, TypeOK
  <2>2. /\ pc' \in [Clients ->
                     {"idle", "waiting", "creating", "starting", "git"}]
        /\ req' \in [Clients -> Requests]
        /\ resp' \in [Clients -> Responses]
    BY <1>1, <1>3 DEF IInv, TypeOK
  <2> QED
    BY <1>1, <2>1, <2>2 DEF IInv, TypeOK
<1>5. CallsAreEnsures'
  BY <1>1 DEF IInv, TypeOK, CallsAreEnsures, Calling
<1>6. ProvisioningIsUndisturbed'
  <2> SUFFICES ASSUME NEW d \in Clients, Calling(d)'
               PROVE  Undisturbed(d)'
    BY DEF ProvisioningIsUndisturbed
  <2>1. d # c /\ Calling(d) /\ UNCHANGED <<pc[d], req[d], machine[d]>>
    BY <1>1 DEF IInv, TypeOK, Calling
  <2>2. \/ queue'[req[d].project] = queue[req[d].project]
        \/ queue'[req[d].project] = Append(queue[req[d].project], c)
    <3>1. req[d].project \in Projects
      BY RequestType DEF IInv, TypeOK
    <3> QED
      BY <1>1, <1>2, <3>1 DEF IInv, TypeOK
  <2> QED
    BY <1>1, <2>1, <2>2, WaitersDoNotDisturb
<1>7. ReadyAnswersAreWalled'
  <2> SUFFICES ASSUME NEW d \in Clients, resp'[d].status = "ready"
               PROVE  /\ resp'[d].connection \in Machines
                      /\ fleet[resp'[d].connection].state = "started"
                      /\ fleet[resp'[d].connection].project = req'[d].project
    BY <1>1 DEF ReadyAnswersAreWalled
  <2>1. CASE d # c
    BY <1>1, <2>1 DEF IInv, TypeOK, ReadyAnswersAreWalled
  <2>2. CASE d = c
    BY <1>1, <1>2, <1>3, <2>2, ResponseType
    DEF IInv, TypeOK, RecordsAreWalled
  <2> QED
    BY <2>1, <2>2
<1>8. RecordsAreWalled'
  BY <1>1 DEF IInv, RecordsAreWalled
<1> QED
  BY <1>4, <1>5, <1>6, <1>7, <1>8 DEF IInv

----------------------------------------------------------------------------
(* The lock's holder runs.  What its steps do to the fleet: a machine    *)
(* appears, or the holder's own machine starts.                          *)
FleetStep(c) ==
  \A m \in Machines :
    \/ fleet'[m] = fleet[m]
    \/ fleet[m] = NoMachine /\ fleet'[m].state = "created"
    \/ pc[c] = "starting" /\ m = machine[c]

(* The machine a coroutine is starting is its own and not yet started. *)
LEMMA StartingMachine ==
  ASSUME IInv, NEW c \in Clients, pc[c] = "starting"
  PROVE  /\ machine[c] \in Machines
         /\ fleet[machine[c]].state = "created"
         /\ fleet[machine[c]].project = req[c].project
         /\ fleet[machine[c]] # NoMachine
<1>1. Undisturbed(c) /\ machine[c] \in Machines
  BY DEF IInv, ProvisioningIsUndisturbed, CallsAreEnsures, Calling
<1>2. fleet[machine[c]] = [state |-> "created", project |-> req[c].project,
                           tool |-> req[c].tool]
  BY <1>1 DEF Undisturbed
<1> QED
  BY <1>1, <1>2 DEF NoMachine

LEMMA FleetFrame ==
  ASSUME IInv, NEW c \in Clients, Holds(c), FleetStep(c)
  PROVE  /\ \A m \in Machines :
              fleet[m].state = "started" => fleet'[m] = fleet[m]
         /\ \A d \in Clients :
              d # c /\ pc[d] = "starting" =>
                fleet'[machine[d]] = fleet[machine[d]]
<1>1. ASSUME NEW m \in Machines, fleet[m].state = "started"
      PROVE  fleet'[m] = fleet[m]
  <2>1. fleet[m] # NoMachine
    BY <1>1 DEF NoMachine
  <2>2. ~(pc[c] = "starting" /\ m = machine[c])
    BY <1>1, StartingMachine
  <2> QED
    BY <2>1, <2>2 DEF FleetStep
<1>2. ASSUME NEW d \in Clients, d # c, pc[d] = "starting"
      PROVE  fleet'[machine[d]] = fleet[machine[d]]
  <2>1. Holds(d)
    BY <1>2 DEF IInv, ProvisioningIsUndisturbed, Undisturbed, Calling
  <2>2. req[d].project # req[c].project
    BY <1>2, <2>1, HolderIsUnique
  <2>3. ~(pc[c] = "starting" /\ machine[d] = machine[c])
    BY <1>2, <2>2, StartingMachine
  <2> QED
    BY <1>2, <2>3, StartingMachine DEF FleetStep
<1> QED
  BY <1>1, <1>2

(* The invariant survives any step of the holder c that moves only c and *)
(* c's project, shows the consumer nothing but the new record, writes    *)
(* ready only over a started machine of the project, and leaves c itself *)
(* undisturbed while it calls the provider.                              *)
HolderStep(c) ==
  LET p == req[c].project IN
  /\ fleet' \in [Machines -> FlyMachine \union {NoMachine}]
  /\ FleetStep(c)
  /\ req' = req
  /\ records' = [records EXCEPT ![p] = records'[p]]
  /\ records'[p] \in EnvironmentRecord \union {NoRecord}
  /\ \/ records'[p] = records[p]
     \/ records'[p].status # "ready" /\ records'[p].connection = NoHandle
     \/ /\ records'[p].status = "ready"
        /\ records'[p].connection = machine[c]
        /\ pc[c] = "starting"
        /\ fleet'[machine[c]].state = "started"
        /\ fleet'[machine[c]].project = p
  /\ resp' = [resp EXCEPT ![c] = resp'[c]]
  /\ resp'[c] \in Responses
  /\ resp'[c].status = "ready" =>
       \/ resp'[c] = resp[c]
       \/ resp'[c] = RecordToResponse(records'[p])
  /\ pc' = [pc EXCEPT ![c] = pc'[c]]
  /\ pc'[c] \in {"idle", "waiting", "creating", "starting"}
  /\ machine' = [machine EXCEPT ![c] = machine'[c]]
  /\ machine'[c] \in Machines \union {NoHandle}
  /\ queue' \in {queue, [queue EXCEPT ![p] = Tail(queue[p])]}
  /\ Calling(c)' => Undisturbed(c)' /\ req[c].op = "ensure"
  /\ pc'[c] = "starting" => machine'[c] \in Machines

LEMMA HolderStepKeepsIInv ==
  ASSUME IInv, NEW c \in Clients, Holds(c), HolderStep(c)
  PROVE  IInv'
<1> DEFINE p == req[c].project
<1>1. p \in Projects
  BY RequestType DEF IInv, TypeOK
<1>2. FleetStep(c)
  BY DEF HolderStep
<1>3. TypeOK'
  <2>1. Tail(queue[p]) \in Seq(Clients)
    BY <1>1 DEF IInv, TypeOK, Holds
  <2>2. queue' \in [Projects -> Seq(Clients)]
    BY <1>1, <2>1 DEF IInv, TypeOK, HolderStep
  <2>3. /\ records' \in [Projects -> EnvironmentRecord \union {NoRecord}]
        /\ resp' \in [Clients -> Responses]
    BY <1>1 DEF IInv, TypeOK, HolderStep
  <2>4. pc' \in [Clients -> {"idle", "waiting", "creating", "starting", "git"}]
    BY DEF IInv, TypeOK, HolderStep
  <2>5. machine' \in [Clients -> Machines \union {NoHandle}]
    BY DEF IInv, TypeOK, HolderStep
  <2> QED
    BY <2>2, <2>3, <2>4, <2>5 DEF IInv, TypeOK, HolderStep
<1>4. CallsAreEnsures'
  BY DEF IInv, TypeOK, CallsAreEnsures, HolderStep, Calling
<1>5. ProvisioningIsUndisturbed'
  <2> SUFFICES ASSUME NEW d \in Clients, Calling(d)'
               PROVE  Undisturbed(d)'
    BY DEF ProvisioningIsUndisturbed
  <2>1. CASE d = c
    BY <2>1 DEF HolderStep
  <2>2. CASE d # c
    <3> DEFINE q == req[d].project
    <3>1. /\ pc'[d] = pc[d] /\ machine'[d] = machine[d] /\ req'[d] = req[d]
          /\ Calling(d)
      BY <2>2 DEF IInv, TypeOK, HolderStep, Calling
    <3>2. Undisturbed(d) /\ q \in Projects
      BY <3>1, RequestType DEF IInv, TypeOK, ProvisioningIsUndisturbed
    <3>3. q # p
      BY <2>2, <3>2, HolderIsUnique DEF Undisturbed
    <3>4. records'[q] = records[q] /\ queue'[q] = queue[q]
      BY <1>1, <3>2, <3>3 DEF IInv, TypeOK, HolderStep
    <3>5. ASSUME pc[d] = "starting"
          PROVE  /\ fleet'[machine[d]] = fleet[machine[d]]
                 /\ \A r \in Projects : records'[r].connection # machine[d]
      <4>1. fleet'[machine[d]] = fleet[machine[d]] /\ machine[d] \in Machines
        BY <1>2, <2>2, <3>1, <3>5, FleetFrame DEF IInv, CallsAreEnsures
      <4>2. records'[p].connection # machine[d]
        <5>1. records[p].connection # machine[d]
          BY <1>1, <3>2, <3>5 DEF Undisturbed
        <5>2. NoHandle # machine[d]
          BY <4>1, ConstantsAssumption
        <5>3. pc[c] = "starting" => machine[c] # machine[d]
          BY <3>3, <3>5, StartingMachine
        <5> QED
          BY <5>1, <5>2, <5>3 DEF HolderStep
      <4>3. ASSUME NEW r \in Projects, r # p
            PROVE  records'[r].connection # machine[d]
        BY <1>1, <3>2, <3>5, <4>3 DEF IInv, TypeOK, HolderStep, Undisturbed
      <4> QED
        BY <4>1, <4>2, <4>3
    <3> QED
      BY <3>1, <3>2, <3>4, <3>5 DEF Undisturbed, Holds
  <2> QED
    BY <2>1, <2>2
<1>6. RecordsAreWalled'
  <2> SUFFICES ASSUME NEW q \in Projects
               PROVE  /\ records'[q].status = "ready" =>
                           /\ records'[q].connection \in Machines
                           /\ fleet'[records'[q].connection].state = "started"
                           /\ fleet'[records'[q].connection].project = q
                      /\ records'[q].status # "ready" =>
                           records'[q].connection = NoHandle
    BY DEF RecordsAreWalled
  <2>1. CASE records'[q] = records[q]
    BY <1>2, <2>1, FleetFrame DEF IInv, RecordsAreWalled
  <2>2. CASE records'[q] # records[q]
    BY <1>1, <2>2
    DEF IInv, TypeOK, CallsAreEnsures, HolderStep
  <2> QED
    BY <2>1, <2>2
<1>7. ReadyAnswersAreWalled'
  <2> SUFFICES ASSUME NEW d \in Clients, resp'[d].status = "ready"
               PROVE  /\ resp'[d].connection \in Machines
                      /\ fleet'[resp'[d].connection].state = "started"
                      /\ fleet'[resp'[d].connection].project = req'[d].project
    BY DEF ReadyAnswersAreWalled
  <2>1. CASE resp'[d] = resp[d]
    BY <1>2, <2>1, FleetFrame
    DEF IInv, TypeOK, ReadyAnswersAreWalled, HolderStep
  <2>2. CASE resp'[d] # resp[d]
    <3>1. d = c /\ resp'[c] = RecordToResponse(records'[p])
      BY <2>2 DEF IInv, TypeOK, HolderStep
    <3>2. /\ records'[p].status = "ready"
          /\ resp'[c].connection = records'[p].connection
      BY <3>1, ResponseType DEF HolderStep
    <3> QED
      BY <1>1, <1>6, <3>1, <3>2 DEF RecordsAreWalled, HolderStep
  <2> QED
    BY <2>1, <2>2
<1> QED
  BY <1>3, <1>4, <1>5, <1>6, <1>7 DEF IInv

(* The records the service writes back: same url and tool. *)
LEMMA Rewritten ==
  ASSUME NEW record \in EnvironmentRecord \union {NoRecord},
         record.status # "none",
         NEW status \in {"provisioning", "ready", "asleep", "destroyed"},
         NEW connection \in Machines \union {NoHandle}
  PROVE  LET new == Rewrite(record, status, connection)
         IN  /\ new \in EnvironmentRecord
             /\ new.status = status
             /\ new.connection = connection
             /\ new.url = record.url
<1>1. record \in EnvironmentRecord
  BY DEF NoRecord
<1> QED
  BY <1>1 DEF EnvironmentRecord, Rewrite

(* What every answer under the lock does, as parts of HolderStep. *)
LEMMA FinishStep ==
  ASSUME IInv, NEW c \in Clients, Holds(c), NEW answer \in Responses,
         Finish(c, answer)
  PROVE  /\ resp' = [resp EXCEPT ![c] = resp'[c]]
         /\ resp'[c] = answer
         /\ pc' = [pc EXCEPT ![c] = pc'[c]]
         /\ pc'[c] = "idle"
         /\ machine' = [machine EXCEPT ![c] = machine'[c]]
         /\ machine'[c] = NoHandle
         /\ queue' \in {queue, [queue EXCEPT ![req[c].project] =
                                  Tail(queue[req[c].project])]}
         /\ ~Calling(c)'
BY DEF IInv, TypeOK, Finish, Reply, Calling

(* The holder answers without touching records or fleet. *)
LEMMA AnswerStep ==
  ASSUME IInv, NEW c \in Clients, Holds(c), NEW answer \in Responses,
         Finish(c, answer), UNCHANGED <<records, req, fleet>>,
         answer.status = "ready" =>
           answer = RecordToResponse(records[req[c].project])
  PROVE  HolderStep(c)
<1>1. req[c].project \in Projects
  BY RequestType DEF IInv, TypeOK
<1>2. records[req[c].project] \in EnvironmentRecord \union {NoRecord}
  BY <1>1 DEF IInv, TypeOK
<1>3. FleetStep(c)
  BY DEF FleetStep
<1> QED
  BY <1>1, <1>2, <1>3, FinishStep DEF HolderStep, IInv, TypeOK

(* The holder answers with a record it has just written, not ready. *)
LEMMA WriteStep ==
  ASSUME IInv, NEW c \in Clients, Holds(c),
         NEW record \in EnvironmentRecord, record.status # "ready",
         record.connection = NoHandle,
         records' = [records EXCEPT ![req[c].project] = record],
         Finish(c, RecordToResponse(record)), UNCHANGED <<req, fleet>>
  PROVE  HolderStep(c)
<1>1. req[c].project \in Projects
  BY RequestType DEF IInv, TypeOK
<1>2. /\ records'[req[c].project] = record
      /\ records' = [records EXCEPT ![req[c].project] =
                       records'[req[c].project]]
  BY <1>1 DEF IInv, TypeOK
<1>3. FleetStep(c)
  BY DEF FleetStep
<1>4. RecordToResponse(record) \in Responses
  BY ResponseType
<1>5. fleet' \in [Machines -> FlyMachine \union {NoMachine}]
  BY DEF IInv, TypeOK
<1> QED
  BY <1>2, <1>3, <1>4, <1>5, FinishStep DEF HolderStep

(* The provider call ends in an error: whatever it did to the fleet, the *)
(* record stays provisioning.                                            *)
LEMMA FailStep ==
  ASSUME IInv, NEW c \in Clients, Holds(c), NEW failure \in Failures,
         fleet' \in [Machines -> FlyMachine \union {NoMachine}],
         FleetStep(c),
         Finish(c, Error(FailureCode(failure))), UNCHANGED <<records, req>>
  PROVE  HolderStep(c)
<1>1. FailureCode(failure) \in Codes
  BY DEF FailureCode, Codes
<1>2. /\ Error(FailureCode(failure)) \in Responses
      /\ Error(FailureCode(failure)).status = "none"
  BY <1>1, ErrorType
<1>3. /\ req[c].project \in Projects
      /\ records[req[c].project] \in EnvironmentRecord \union {NoRecord}
      /\ records' = [records EXCEPT ![req[c].project] =
                       records'[req[c].project]]
  BY RequestType DEF IInv, TypeOK
<1> QED
  BY <1>2, <1>3, FinishStep DEF HolderStep

LEMMA FlyMachineType ==
  ASSUME NEW p \in Projects, NEW tool \in Tools
  PROVE  [state |-> "created", project |-> p, tool |-> tool] \in FlyMachine
BY DEF FlyMachine

(* Starting the holder's machine is a step of the fleet. *)
LEMMA StartedFleet ==
  ASSUME IInv, NEW c \in Clients, pc[c] = "starting",
         fleet' = [fleet EXCEPT ![machine[c]].state = "started"]
  PROVE  /\ fleet' \in [Machines -> FlyMachine \union {NoMachine}]
         /\ FleetStep(c)
         /\ fleet'[machine[c]].state = "started"
         /\ fleet'[machine[c]].project = req[c].project
<1> DEFINE started == [fleet[machine[c]] EXCEPT !.state = "started"]
<1>1. machine[c] \in Machines /\ fleet[machine[c]] \in FlyMachine
  BY StartingMachine DEF IInv, TypeOK
<1>2. started \in FlyMachine /\ started.state = "started"
      /\ started.project = req[c].project
  BY <1>1, StartingMachine DEF FlyMachine
<1>3. fleet' = [fleet EXCEPT ![machine[c]] = started]
  OBVIOUS
<1> HIDE DEF started
<1> QED
  BY <1>1, <1>2, <1>3 DEF IInv, TypeOK, FleetStep

LEMMA ProceedStep ==
  ASSUME IInv, NEW c \in Clients, Proceed(c)
  PROVE  Holds(c) /\ HolderStep(c)
<1> DEFINE p == req[c].project
<1>1. /\ p \in Projects
      /\ req[c].op = "ensure" => req[c].url \in Urls /\ req[c].tool \in Tools
      /\ records[p] \in EnvironmentRecord \union {NoRecord}
  BY RequestType DEF IInv, TypeOK
<1>2. Calling(c) => Holds(c)
  BY DEF IInv, ProvisioningIsUndisturbed, Undisturbed
<1>3. CASE EnsureMismatch(c)
  BY <1>3, AnswerStep, ErrorType DEF EnsureMismatch, Codes
<1>4. CASE EnsureReady(c)
  BY <1>1, <1>4, AnswerStep, ResponseType DEF EnsureReady
<1>5. CASE EnsureProvision(c)
  <2> DEFINE written == IF Live(records[p])
                          THEN Rewrite(records[p], "provisioning", NoHandle)
                          ELSE FreshRecord(req[c].url, req[c].tool)
  <2>1. /\ Holds(c) /\ req[c].op = "ensure"
        /\ records' = [records EXCEPT ![p] = written]
        /\ Live(records[p]) =>
             NormalizeUrl(records[p].url) = NormalizeUrl(req[c].url)
        /\ pc' = [pc EXCEPT ![c] = "creating"]
        /\ UNCHANGED <<queue, req, machine, resp, fleet>>
    BY <1>5 DEF EnsureProvision
  <2>2. /\ written \in EnvironmentRecord
        /\ written.status = "provisioning" /\ written.connection = NoHandle
        /\ NormalizeUrl(written.url) = NormalizeUrl(req[c].url)
    <3>1. CASE Live(records[p])
      <4> DEFINE woken == Rewrite(records[p], "provisioning", NoHandle)
      <4>1. records[p].status # "none"
        BY <3>1 DEF Live
      <4>2. /\ woken \in EnvironmentRecord
            /\ woken.status = "provisioning" /\ woken.connection = NoHandle
            /\ woken.url = records[p].url
        <5> HIDE DEF written
        <5> QED
          BY <1>1, <4>1, Rewritten
      <4>3. written = woken
        BY <3>1
      <4> HIDE DEF written, woken
      <4> QED
        BY <2>1, <3>1, <4>2, <4>3 DEF NormalizeUrl
    <3>2. CASE ~Live(records[p])
      BY <1>1, <2>1, <3>2 DEF EnvironmentRecord, FreshRecord, NormalizeUrl
    <3> QED
      BY <3>1, <3>2
  <2>3. /\ records'[p] = written
        /\ records' = [records EXCEPT ![p] = records'[p]]
    BY <1>1, <2>1 DEF IInv, TypeOK
  <2>4. /\ pc'[c] = "creating"
        /\ pc' = [pc EXCEPT ![c] = pc'[c]]
        /\ Undisturbed(c)'
    BY <2>1, <2>2, <2>3 DEF IInv, TypeOK, Undisturbed, Holds
  <2>5. /\ resp[c] \in Responses /\ resp' = [resp EXCEPT ![c] = resp'[c]]
        /\ machine[c] \in Machines \union {NoHandle}
        /\ machine' = [machine EXCEPT ![c] = machine'[c]]
        /\ fleet' \in [Machines -> FlyMachine \union {NoMachine}]
    BY <2>1 DEF IInv, TypeOK
  <2>6. FleetStep(c)
    BY <2>1 DEF FleetStep
  <2> HIDE DEF written
  <2> QED
    BY <2>1, <2>2, <2>3, <2>4, <2>5, <2>6 DEF HolderStep
<1>6. ASSUME NEW m \in Machines, CreateReply(c, m)
      PROVE  Holds(c) /\ HolderStep(c)
  <2>1. /\ pc[c] = "creating" /\ Calling(c)
        /\ fleet[m] = NoMachine
        /\ fleet' = [fleet EXCEPT ![m] = [state |-> "created", project |-> p,
                                          tool |-> req[c].tool]]
        /\ machine' = [machine EXCEPT ![c] = m]
        /\ pc' = [pc EXCEPT ![c] = "starting"]
        /\ UNCHANGED <<records, queue, req, resp>>
    BY <1>6 DEF CreateReply, Calling
  <2>2. req[c].op = "ensure" /\ Undisturbed(c)
    BY <2>1 DEF IInv, CallsAreEnsures, ProvisioningIsUndisturbed
  <2>3. /\ fleet' \in [Machines -> FlyMachine \union {NoMachine}]
        /\ FleetStep(c)
        /\ fleet'[m] = [state |-> "created", project |-> p,
                        tool |-> req[c].tool]
    BY <1>1, <2>1, <2>2, FlyMachineType DEF IInv, TypeOK, FleetStep
  <2>4. \A q \in Projects : records[q].connection # m
    <3> TAKE q \in Projects
    <3>1. fleet[m].state # "started"
      BY <2>1 DEF NoMachine
    <3> QED
      BY <3>1, ConstantsAssumption DEF IInv, RecordsAreWalled
  <2>5. /\ pc'[c] = "starting" /\ machine'[c] = m
        /\ pc' = [pc EXCEPT ![c] = pc'[c]]
        /\ machine' = [machine EXCEPT ![c] = machine'[c]]
    BY <2>1 DEF IInv, TypeOK
  <2>6. Undisturbed(c)'
    BY <2>1, <2>2, <2>3, <2>4, <2>5 DEF Undisturbed, Holds
  <2>7. /\ resp[c] \in Responses /\ resp' = [resp EXCEPT ![c] = resp'[c]]
        /\ records' = [records EXCEPT ![p] = records'[p]]
    BY <1>1, <2>1 DEF IInv, TypeOK
  <2> QED
    BY <1>1, <1>2, <2>1, <2>2, <2>3, <2>5, <2>6, <2>7 DEF HolderStep
<1>7. CASE StartReply(c)
  <2> DEFINE ready == Rewrite(records[p], "ready", machine[c])
  <2>1. /\ pc[c] = "starting" /\ Calling(c)
        /\ fleet' = [fleet EXCEPT ![machine[c]].state = "started"]
        /\ records' = [records EXCEPT ![p] = ready]
        /\ Finish(c, RecordToResponse(ready))
        /\ UNCHANGED req
    BY <1>7 DEF StartReply, Calling
  <2>2. Undisturbed(c) /\ machine[c] \in Machines
    BY <2>1, StartingMachine DEF IInv, ProvisioningIsUndisturbed
  <2>3. /\ fleet' \in [Machines -> FlyMachine \union {NoMachine}]
        /\ FleetStep(c)
        /\ fleet'[machine[c]].state = "started"
        /\ fleet'[machine[c]].project = p
    BY <2>1, <2>2, StartedFleet
  <2>4. /\ ready \in EnvironmentRecord
        /\ ready.status = "ready" /\ ready.connection = machine[c]
    BY <1>1, <2>2, Rewritten DEF Undisturbed
  <2>5. /\ records'[p] = ready
        /\ records' = [records EXCEPT ![p] = records'[p]]
    BY <1>1, <2>1 DEF IInv, TypeOK
  <2>6. RecordToResponse(ready) \in Responses
    BY <2>4, ResponseType
  <2> HIDE DEF ready
  <2> QED
    BY <1>2, <2>1, <2>2, <2>3, <2>4, <2>5, <2>6, FinishStep DEF HolderStep
<1>8. ASSUME NEW failure \in Failures, CreateFails(c, failure)
      PROVE  Holds(c) /\ HolderStep(c)
  <2>1. Calling(c) /\ req[c].op = "ensure"
    BY <1>8 DEF CreateFails, Calling, IInv, CallsAreEnsures
  <2>2. /\ fleet' \in [Machines -> FlyMachine \union {NoMachine}]
        /\ FleetStep(c)
    BY <1>1, <1>8, <2>1, FlyMachineType
    DEF CreateFails, IInv, TypeOK, FleetStep
  <2> QED
    BY <1>2, <1>8, <2>1, <2>2, FailStep DEF CreateFails
<1>9. ASSUME NEW failure \in Failures, StartFails(c, failure)
      PROVE  Holds(c) /\ HolderStep(c)
  <2>1. pc[c] = "starting" /\ Calling(c)
    BY <1>9 DEF StartFails, Calling
  <2>2. /\ fleet' \in [Machines -> FlyMachine \union {NoMachine}]
        /\ FleetStep(c)
    <3>1. CASE UNCHANGED fleet
      BY <3>1 DEF IInv, TypeOK, FleetStep
    <3>2. CASE fleet' = [fleet EXCEPT ![machine[c]].state = "started"]
      BY <2>1, <3>2, StartedFleet
    <3> QED
      BY <1>9, <3>1, <3>2 DEF StartFails
  <2> QED
    BY <1>2, <1>9, <2>1, <2>2, FailStep DEF StartFails
<1>10. CASE Sleep(c)
  <2> DEFINE asleep == Rewrite(records[p], "asleep", NoHandle)
  <2>1. Holds(c) /\ UNCHANGED <<req, fleet>>
    BY <1>10 DEF Sleep
  <2>2. CASE /\ Finish(c, Error("ERR_ENVIRONMENT_NOT_FOUND"))
             /\ UNCHANGED records
    BY <2>1, <2>2, AnswerStep, ErrorType DEF Codes
  <2>3. CASE Finish(c, RecordToResponse(records[p])) /\ UNCHANGED records
    BY <1>1, <2>1, <2>3, AnswerStep, ResponseType
  <2>4. CASE /\ records[p].status = "ready"
             /\ records' = [records EXCEPT ![p] = asleep]
             /\ Finish(c, RecordToResponse(asleep))
    <3>1. /\ asleep \in EnvironmentRecord
          /\ asleep.status # "ready" /\ asleep.connection = NoHandle
      BY <1>1, <2>4, Rewritten
    <3> HIDE DEF asleep
    <3> QED
      BY <2>1, <2>4, <3>1, WriteStep
  <2> QED
    BY <1>10, <2>2, <2>3, <2>4 DEF Sleep
<1>11. CASE Destroy(c)
  <2> DEFINE destroyed == Rewrite(records[p], "destroyed", NoHandle)
  <2>1. Holds(c) /\ UNCHANGED <<req, fleet>>
    BY <1>11 DEF Destroy
  <2>2. CASE /\ Finish(c, Error("ERR_ENVIRONMENT_NOT_FOUND"))
             /\ UNCHANGED records
    BY <2>1, <2>2, AnswerStep, ErrorType DEF Codes
  <2>3. CASE Finish(c, RecordToResponse(records[p])) /\ UNCHANGED records
    BY <1>1, <2>1, <2>3, AnswerStep, ResponseType
  <2>4. CASE /\ Live(records[p])
             /\ records' = [records EXCEPT ![p] = destroyed]
             /\ Finish(c, RecordToResponse(destroyed))
    <3>1. /\ destroyed \in EnvironmentRecord
          /\ destroyed.status # "ready" /\ destroyed.connection = NoHandle
      BY <1>1, <2>4, Rewritten DEF Live
    <3> HIDE DEF destroyed
    <3> QED
      BY <2>1, <2>4, <3>1, WriteStep
  <2> QED
    BY <1>11, <2>2, <2>3, <2>4 DEF Destroy
<1> QED
  BY <1>3, <1>4, <1>5, <1>6, <1>7, <1>8, <1>9, <1>10, <1>11 DEF Proceed

----------------------------------------------------------------------------
(* The git subprocesses answering, and the server process being replaced.*)
LEMMA GitReplyStep ==
  ASSUME IInv, NEW c \in Clients, GitReply(c)
  PROVE  IInv'
<1>1. /\ pc[c] = "git"
      /\ pc' = [pc EXCEPT ![c] = "idle"]
      /\ resp' = [resp EXCEPT ![c] = Error("ok")]
      /\ UNCHANGED <<records, queue, req, machine, fleet>>
  BY DEF GitReply, Reply
<1>2. Error("ok") \in Responses /\ Error("ok").status = "none"
  BY ErrorType DEF Codes
<1>3. TypeOK'
  BY <1>1, <1>2 DEF IInv, TypeOK
<1>4. CallsAreEnsures'
  BY <1>1 DEF IInv, TypeOK, CallsAreEnsures, Calling
<1>5. ProvisioningIsUndisturbed'
  <2> SUFFICES ASSUME NEW d \in Clients, Calling(d)'
               PROVE  Undisturbed(d)'
    BY DEF ProvisioningIsUndisturbed
  <2>1. Calling(d) /\ pc'[d] = pc[d]
    BY <1>1 DEF IInv, TypeOK, Calling
  <2> QED
    BY <1>1, <2>1, WaitersDoNotDisturb
<1>6. RecordsAreWalled' /\ ReadyAnswersAreWalled'
  BY <1>1, <1>2 DEF IInv, TypeOK, RecordsAreWalled, ReadyAnswersAreWalled
<1> QED
  BY <1>3, <1>4, <1>5, <1>6 DEF IInv

LEMMA RestartStep ==
  ASSUME IInv, Restart
  PROVE  IInv'
<1> USE DEF Restart
<1>1. NoResponse \in Responses /\ NoResponse.status = "none"
  BY ErrorType DEF NoResponse, Codes
<1>2. TypeOK'
  BY <1>1 DEF IInv, TypeOK
<1>3. CallsAreEnsures' /\ ProvisioningIsUndisturbed'
  BY DEF CallsAreEnsures, ProvisioningIsUndisturbed, Calling
<1>4. RecordsAreWalled'
  BY DEF RecordsAreWalled, NoRecord
<1>5. ReadyAnswersAreWalled'
  BY <1>1 DEF IInv, ReadyAnswersAreWalled
<1> QED
  BY <1>2, <1>3, <1>4, <1>5 DEF IInv

LEMMA StutterStep ==
  ASSUME IInv, UNCHANGED vars
  PROVE  IInv'
BY DEF vars, IInv, TypeOK, CallsAreEnsures, ProvisioningIsUndisturbed,
       RecordsAreWalled, ReadyAnswersAreWalled, Calling, Undisturbed, Holds

LEMMA NextKeepsIInv == IInv /\ [Next]_vars => IInv'
BY ArriveStep, ProceedStep, HolderStepKeepsIInv, GitReplyStep, RestartStep,
   StutterStep DEF Next

----------------------------------------------------------------------------
(* Types, records and answers stay well-formed. *)
THEOREM TypeCorrect == Spec => []TypeOK
<1>1. IInv => TypeOK
  BY DEF IInv
<1> QED
  BY <1>1, InitIInv, NextKeepsIInv, PTL DEF Spec

(* The fail-closed gate: no consumer is ever told ready about anything but *)
(* a walled machine of its own project.                                  *)
THEOREM FailClosedGate == Spec => []ReadyAnswersAreWalled
<1>1. IInv => ReadyAnswersAreWalled
  BY DEF IInv
<1> QED
  BY <1>1, InitIInv, NextKeepsIInv, PTL DEF Spec

(* What ensure read before the provider call still holds after it. *)
THEOREM NoStaleEnsure == Spec => []ProvisioningIsUndisturbed
<1>1. IInv => ProvisioningIsUndisturbed
  BY DEF IInv
<1> QED
  BY <1>1, InitIInv, NextKeepsIInv, PTL DEF Spec

(* The per-project lock serializes the provider calls. *)
THEOREM EnsuresAreSerialized == Spec => []OneProviderCall
<1>1. IInv => OneProviderCall
  BY CallsAreSerialized DEF IInv
<1> QED
  BY <1>1, InitIInv, NextKeepsIInv, PTL DEF Spec

----------------------------------------------------------------------------
(* The refinement.  The contract's variables, read off the service's. *)
Statuses == [p \in Projects |-> records[p].status]
Connections == [p \in Projects |-> records[p].connection]
Walls == {m \in Machines : fleet[m].state = "started"}

ContractStep == Contract!Next \/ UNCHANGED <<Statuses, Connections, Walls>>

(* Steps that leave every record alone change nothing the contract sees, *)
(* unless a wall comes up unannounced.                                   *)
LEMMA QuietStep ==
  ASSUME UNCHANGED records, Walls' = Walls
  PROVE  ContractStep
BY DEF ContractStep, Statuses, Connections

LEMMA ArriveRefines ==
  ASSUME NEW c \in Clients, Arrive(c) \/ GitReply(c)
  PROVE  ContractStep
<1>1. UNCHANGED <<records, fleet>>
  BY DEF Arrive, Acquire, RejectTool, Get, RefuseWorkspace, ListFiles,
         GitStatus, GitReply
<1> QED
  BY <1>1, QuietStep DEF Walls

(* Rewriting one record rewrites one project's status and connection. *)
LEMMA RecordWritten ==
  ASSUME IInv, NEW p \in Projects, NEW record,
         records' = [records EXCEPT ![p] = record]
  PROVE  /\ Statuses' = [Statuses EXCEPT ![p] = record.status]
         /\ Connections' = [Connections EXCEPT ![p] = record.connection]
BY DEF IInv, TypeOK, Statuses, Connections

LEMMA ActivateIsNext ==
  ASSUME NEW p \in Projects, NEW h \in Machines, Contract!Activate(p, h)
  PROVE  Contract!Next
BY DEF Contract!Next

LEMMA RaiseWallIsNext ==
  ASSUME NEW h \in Machines, Contract!RaiseWall(h)
  PROVE  Contract!Next
BY DEF Contract!Next

LEMMA ProceedRefines ==
  ASSUME IInv, NEW c \in Clients, Proceed(c)
  PROVE  ContractStep
<1> PICK p \in Projects : p = req[c].project
  BY RequestType DEF IInv, TypeOK
<1>1. records[p] \in EnvironmentRecord \union {NoRecord}
  BY DEF IInv, TypeOK
<1>2. CASE EnsureMismatch(c) \/ EnsureReady(c)
  BY <1>2, QuietStep DEF EnsureMismatch, EnsureReady, Walls
<1>3. CASE EnsureProvision(c)
  <2> DEFINE written == IF Live(records[p])
                          THEN Rewrite(records[p], "provisioning", NoHandle)
                          ELSE FreshRecord(req[c].url, req[c].tool)
  <2>1. /\ records' = [records EXCEPT ![p] = written]
        /\ records[p].status # "ready"
        /\ UNCHANGED fleet
    BY <1>3 DEF EnsureProvision
  <2>2. written.status = "provisioning" /\ written.connection = NoHandle
    <3>1. CASE Live(records[p])
      <4>1. records[p].status # "none"
        BY <3>1 DEF Live
      <4> QED
        BY <1>1, <3>1, <4>1, Rewritten
    <3>2. CASE ~Live(records[p])
      BY <3>2 DEF FreshRecord
    <3> QED
      BY <3>1, <3>2
  <2>3. /\ Statuses' = [Statuses EXCEPT ![p] = "provisioning"]
        /\ Connections' = [Connections EXCEPT ![p] = NoHandle]
    <3> HIDE DEF written
    <3> PICK record : record = written
      OBVIOUS
    <3>8. records' = [records EXCEPT ![p] = record]
      BY <2>1, <2>2
    <3>9. /\ Statuses' = [Statuses EXCEPT ![p] = record.status]
         /\ Connections' = [Connections EXCEPT ![p] = record.connection]
      BY <3>8, RecordWritten
    <3> QED
      BY <3>9, <2>1, <2>2
  <2>4. /\ Statuses[p] = records[p].status
        /\ Connections[p] = NoHandle
        /\ Walls' = Walls
    BY <2>1 DEF Statuses, Connections, Walls, IInv, RecordsAreWalled
  <2>5. CASE records[p].status = "provisioning"
    BY <2>3, <2>4, <2>5 DEF ContractStep, Statuses, Connections
  <2>6. CASE records[p].status # "provisioning"
    <3>1. Contract!Provision(p)
      BY <1>1, <2>1, <2>3, <2>4, <2>6
      DEF Contract!Provision, EnvironmentRecord, NoRecord,
          Statuses, Connections, Walls
    <3> QED
      BY <3>1 DEF ContractStep, Contract!Next
  <2> QED
    BY <2>5, <2>6
<1>4. ASSUME NEW m \in Machines, CreateReply(c, m)
      PROVE  ContractStep
  <2>1. Walls' = Walls
    BY <1>4 DEF CreateReply, Walls, NoMachine, IInv, TypeOK
  <2> QED
    BY <1>4, <2>1, QuietStep DEF CreateReply
<1>5. ASSUME NEW failure \in Failures, CreateFails(c, failure)
      PROVE  ContractStep
  <2>1. Walls' = Walls
    <3>1. CASE UNCHANGED fleet
      BY <3>1 DEF Walls
    <3>2. ASSUME NEW m \in Machines, fleet[m] = NoMachine,
                 fleet' = [fleet EXCEPT ![m] = [state |-> "created",
                                                project |-> p,
                                                tool |-> req[c].tool]]
          PROVE  Walls' = Walls
      BY <3>2 DEF Walls, NoMachine, IInv, TypeOK
    <3> QED
      BY <1>5, <3>1, <3>2 DEF CreateFails
  <2> QED
    BY <1>5, <2>1, QuietStep DEF CreateFails
<1>6. ASSUME pc[c] = "starting",
             fleet' = [fleet EXCEPT ![machine[c]].state = "started"]
      PROVE  Walls' = Walls \union {machine[c]}
  BY <1>6, StartingMachine DEF Walls, IInv, TypeOK
<1>7. CASE StartReply(c)
  <2> PICK h \in Machines : h = machine[c]
    BY <1>7, StartingMachine DEF StartReply
  <2>1. /\ pc[c] = "starting"
        /\ Undisturbed(c)
        /\ Walls' = Walls \union {h}
    BY <1>6, <1>7, StartingMachine
    DEF StartReply, IInv, ProvisioningIsUndisturbed, Calling
  <2>2. /\ Statuses' = [Statuses EXCEPT ![p] = "ready"]
        /\ Connections' = [Connections EXCEPT ![p] = h]
    <3> DEFINE ready == Rewrite(records[p], "ready", h)
    <3>1. ready.status = "ready" /\ ready.connection = h
      BY <1>1, <2>1, Rewritten DEF Undisturbed
    <3>2. records' = [records EXCEPT ![p] = ready]
      BY <1>7 DEF StartReply
    <3> HIDE DEF ready
    <3> PICK record : record = ready
      OBVIOUS
    <3>8. records' = [records EXCEPT ![p] = record]
      BY <3>1, <3>2
    <3>9. /\ Statuses' = [Statuses EXCEPT ![p] = record.status]
         /\ Connections' = [Connections EXCEPT ![p] = record.connection]
      BY <3>8, RecordWritten
    <3> QED
      BY <3>9, <3>1, <3>2
  <2>3. /\ Statuses[p] = "provisioning"
        /\ \A q \in Projects : Connections[q] # h
    BY <1>1, <2>1 DEF Undisturbed, Statuses, Connections
  <2>4. Contract!Activate(p, h)
    BY <1>1, <2>1, <2>2, <2>3
    DEF Contract!Activate, Statuses, Connections, Walls
  <2> QED
    BY <1>1, <2>1, <2>4, ActivateIsNext DEF ContractStep
<1>8. ASSUME NEW failure \in Failures, StartFails(c, failure)
      PROVE  ContractStep
  <2>1. CASE UNCHANGED fleet
    BY <1>8, <2>1, QuietStep DEF StartFails, Walls
  <2>2. CASE fleet' = [fleet EXCEPT ![machine[c]].state = "started"]
    <3> PICK h \in Machines : h = machine[c]
      BY <1>8, StartingMachine DEF StartFails
    <3>1. Walls' = Walls \union {h} /\ UNCHANGED records
      BY <1>6, <1>8, <2>2 DEF StartFails
    <3>2. Contract!RaiseWall(h)
      BY <3>1 DEF Contract!RaiseWall, Walls
    <3> QED
      BY <3>1, <3>2, RaiseWallIsNext DEF ContractStep
  <2> QED
    BY <1>8, <2>1, <2>2 DEF StartFails
<1>9. CASE Sleep(c)
  <2>1. Walls' = Walls
    BY <1>9 DEF Sleep, Walls
  <2>2. CASE UNCHANGED records
    BY <2>1, <2>2, QuietStep
  <2>3. CASE /\ records[p].status = "ready"
             /\ records' = [records EXCEPT ![p] =
                              Rewrite(records[p], "asleep", NoHandle)]
    <3>1. /\ Statuses' = [Statuses EXCEPT ![p] = "asleep"]
          /\ Connections' = [Connections EXCEPT ![p] = NoHandle]
      <4> DEFINE written == Rewrite(records[p], "asleep", NoHandle)
      <4>1. written.status = "asleep" /\ written.connection = NoHandle
        BY <1>1, <2>3, Rewritten
      <4>2. records' = [records EXCEPT ![p] = written]
        BY <2>3
      <4> HIDE DEF written
      <4> PICK record : record = written
        OBVIOUS
      <4>8. records' = [records EXCEPT ![p] = record]
        BY <4>1, <4>2
      <4>9. /\ Statuses' = [Statuses EXCEPT ![p] = record.status]
           /\ Connections' = [Connections EXCEPT ![p] = record.connection]
        BY <4>8, RecordWritten
      <4> QED
        BY <4>9, <4>1, <4>2
    <3>2. Contract!FallAsleep(p)
      BY <2>1, <2>3, <3>1
      DEF Contract!FallAsleep, Statuses, Connections, Walls
    <3> QED
      BY <3>2 DEF ContractStep, Contract!Next
  <2> QED
    BY <1>9, <2>2, <2>3 DEF Sleep
<1>10. CASE Destroy(c)
  <2>1. Walls' = Walls
    BY <1>10 DEF Destroy, Walls
  <2>2. CASE UNCHANGED records
    BY <2>1, <2>2, QuietStep
  <2>3. CASE /\ Live(records[p])
             /\ records' = [records EXCEPT ![p] =
                              Rewrite(records[p], "destroyed", NoHandle)]
    <3>1. records[p].status \in {"provisioning", "ready", "asleep"}
      BY <1>1, <2>3 DEF Live, EnvironmentRecord, NoRecord
    <3>2. /\ Statuses' = [Statuses EXCEPT ![p] = "destroyed"]
          /\ Connections' = [Connections EXCEPT ![p] = NoHandle]
      <4> DEFINE written == Rewrite(records[p], "destroyed", NoHandle)
      <4>1. written.status = "destroyed" /\ written.connection = NoHandle
        BY <1>1, <2>3, <3>1, Rewritten
      <4>2. records' = [records EXCEPT ![p] = written]
        BY <2>3
      <4> HIDE DEF written
      <4> PICK record : record = written
        OBVIOUS
      <4>8. records' = [records EXCEPT ![p] = record]
        BY <4>1, <4>2
      <4>9. /\ Statuses' = [Statuses EXCEPT ![p] = record.status]
           /\ Connections' = [Connections EXCEPT ![p] = record.connection]
        BY <4>8, RecordWritten
      <4> QED
        BY <4>9, <4>1, <4>2
    <3>3. Contract!Destroy(p)
      BY <2>1, <3>1, <3>2
      DEF Contract!Destroy, Statuses, Connections, Walls
    <3> QED
      BY <3>3 DEF ContractStep, Contract!Next
  <2> QED
    BY <1>10, <2>2, <2>3 DEF Destroy
<1> QED
  BY <1>2, <1>3, <1>4, <1>5, <1>7, <1>8, <1>9, <1>10 DEF Proceed

LEMMA RestartRefines ==
  ASSUME Restart
  PROVE  ContractStep
<1>1. Contract!Forget
  BY DEF Restart, Contract!Forget, Statuses, Connections, Walls, NoRecord
<1> QED
  BY <1>1 DEF ContractStep, Contract!Next

LEMMA InitRefines == Init => Contract!Init
<1> SUFFICES ASSUME Init
             PROVE  Contract!Init
  OBVIOUS
<1>1. Statuses = [p \in Projects |-> "none"]
  BY DEF Init, Statuses, NoRecord
<1>2. Connections = [p \in Projects |-> NoHandle]
  BY DEF Init, Connections, NoRecord
<1>3. Walls = {}
  BY DEF Init, Walls, NoMachine
<1> QED
  BY <1>1, <1>2, <1>3 DEF Contract!Init, Statuses, Connections, Walls

LEMMA NextRefines == IInv /\ [Next]_vars => [Contract!Next]_Contract!vars
<1> SUFFICES ASSUME IInv, [Next]_vars
             PROVE  ContractStep
  BY DEF ContractStep, Contract!vars, Statuses, Connections, Walls
<1>1. CASE \E c \in Clients : Arrive(c) \/ GitReply(c) \/ Proceed(c)
  BY <1>1, ArriveRefines, ProceedRefines
<1>2. CASE Restart
  BY <1>2, RestartRefines
<1>3. CASE UNCHANGED vars
  BY <1>3, QuietStep DEF vars, Walls
<1> QED
  BY <1>1, <1>2, <1>3 DEF Next

(* The service implements the contract: every step of it, failures and   *)
(* restarts included, is a step of the contract or invisible to it.      *)
THEOREM ContractImplemented == Spec => ImplementsContract
BY InitIInv, NextKeepsIInv, InitRefines, NextRefines, PTL
DEF Spec, ImplementsContract, Contract!Spec

(* Behind the contract, and by the service's own invariant: an environment *)
(* is ready only behind a wall, and exposes a connection in no other state.*)
THEOREM ReadyIsWalled == Spec => []EnvironmentsFailClosed
<1>1. IInv => EnvironmentsFailClosed
  BY DEF IInv, RecordsAreWalled, EnvironmentsFailClosed, Contract!FailClosed
<1> QED
  BY <1>1, InitIInv, NextKeepsIInv, PTL DEF Spec

(* Two projects never share a machine. *)
THEOREM NoSharedMachine == Spec => []WorkspacesAreDisjoint
<1>1. IInv => WorkspacesAreDisjoint
  BY DEF IInv, RecordsAreWalled, WorkspacesAreDisjoint,
         Contract!HandlesDisjoint
<1> QED
  BY <1>1, InitIInv, NextKeepsIInv, PTL DEF Spec

----------------------------------------------------------------------------
(* What no step may do.  A step leaves an environment's record alone,    *)
(* forgets it, replaces one that is not live, or rewrites it under the   *)
(* same repository, never from ready to ready.                           *)
RecordsKept ==
  \A q \in Projects :
    \/ records'[q] = records[q]
    \/ records'[q].status = "none"
    \/ ~Live(records[q])
    \/ /\ records'[q].url = records[q].url
       /\ ~(records[q].status = "ready" /\ records'[q].status = "ready")

LEMMA RewriteKeeps ==
  ASSUME IInv, NEW p \in Projects, Live(records[p]),
         NEW status \in {"provisioning", "ready", "asleep", "destroyed"},
         records[p].status # "ready" \/ status # "ready",
         NEW connection \in Machines \union {NoHandle},
         records' = [records EXCEPT ![p] =
                       Rewrite(records[p], status, connection)]
  PROVE  RecordsKept
<1> DEFINE new == Rewrite(records[p], status, connection)
<1>1. records[p] \in EnvironmentRecord \union {NoRecord}
      /\ records[p].status # "none"
  BY DEF IInv, TypeOK, Live
<1>2. new.status = status /\ new.url = records[p].url
  BY <1>1, Rewritten
<1>3. /\ records'[p] = new
      /\ \A q \in Projects : q # p => records'[q] = records[q]
  BY DEF IInv, TypeOK
<1> HIDE DEF new
<1> QED
  BY <1>2, <1>3 DEF RecordsKept

LEMMA ProceedKeepsRecords ==
  ASSUME IInv, NEW c \in Clients, Proceed(c)
  PROVE  RecordsKept
<1> PICK p \in Projects : p = req[c].project
  BY RequestType DEF IInv, TypeOK
<1>1. CASE UNCHANGED records
  BY <1>1 DEF RecordsKept
<1>2. CASE EnsureProvision(c)
  <2>1. CASE Live(records[p])
    <3>1. /\ records[p].status # "ready"
          /\ records' = [records EXCEPT ![p] =
                           Rewrite(records[p], "provisioning", NoHandle)]
      BY <1>2, <2>1 DEF EnsureProvision
    <3> QED
      BY <2>1, <3>1, RewriteKeeps
  <2>2. CASE ~Live(records[p])
    <3>1. \A q \in Projects : q # p => records'[q] = records[q]
      BY <1>2 DEF EnsureProvision, IInv, TypeOK
    <3> QED
      BY <2>2, <3>1 DEF RecordsKept
  <2> QED
    BY <2>1, <2>2
<1>3. CASE StartReply(c)
  <2>1. /\ machine[c] \in Machines /\ Undisturbed(c)
        /\ records' = [records EXCEPT ![p] =
                         Rewrite(records[p], "ready", machine[c])]
    BY <1>3, StartingMachine
    DEF StartReply, IInv, ProvisioningIsUndisturbed, Calling
  <2>2. records[p].status = "provisioning"
    BY <2>1 DEF Undisturbed
  <2> QED
    BY <2>1, <2>2, RewriteKeeps DEF Live
<1>4. CASE Sleep(c)
  <2> SUFFICES ASSUME records[p].status = "ready",
                      records' = [records EXCEPT ![p] =
                                    Rewrite(records[p], "asleep", NoHandle)]
               PROVE  RecordsKept
    BY <1>1, <1>4 DEF Sleep
  <2> QED
    BY RewriteKeeps DEF Live
<1>5. CASE Destroy(c)
  <2> SUFFICES ASSUME Live(records[p]),
                      records' = [records EXCEPT ![p] =
                                    Rewrite(records[p], "destroyed", NoHandle)]
               PROVE  RecordsKept
    BY <1>1, <1>5 DEF Destroy
  <2> QED
    BY RewriteKeeps
<1> QED
  BY <1>1, <1>2, <1>3, <1>4, <1>5
  DEF Proceed, EnsureMismatch, EnsureReady, CreateReply, CreateFails, StartFails

LEMMA NextKeepsRecords == IInv /\ [Next]_vars => RecordsKept
<1> SUFFICES ASSUME IInv, [Next]_vars
             PROVE  RecordsKept
  OBVIOUS
<1>1. ASSUME NEW c \in Clients, Arrive(c) \/ GitReply(c)
      PROVE  RecordsKept
  BY <1>1 DEF RecordsKept, Arrive, Acquire, RejectTool, Get, RefuseWorkspace,
     ListFiles, GitStatus, GitReply
<1>2. CASE Restart
  BY <1>2 DEF Restart, RecordsKept, NoRecord
<1>3. CASE UNCHANGED vars
  BY <1>3 DEF vars, RecordsKept
<1> QED
  BY <1>1, <1>2, <1>3, ProceedKeepsRecords DEF Next

(* A live environment keeps its repository. *)
THEOREM RepositoryIsBound == Spec => RepoBindingIsStable
<1>1. RecordsKept =>
        \A p \in Projects :
          {records[p].status, records'[p].status}
              \subseteq {"provisioning", "ready", "asleep"} =>
            records'[p].url.repo = records[p].url.repo
  BY DEF RecordsKept, Live
<1> QED
  BY <1>1, InitIInv, NextKeepsIInv, NextKeepsRecords, PTL
  DEF Spec, RepoBindingIsStable

(* A race never returns two different ready. *)
THEOREM ConnectionIsBound == Spec => ReadyConnectionIsStable
<1>1. RecordsKept =>
        \A p \in Projects :
          records[p].status = "ready" /\ records'[p].status = "ready" =>
            records'[p].connection = records[p].connection
  BY DEF RecordsKept, Live
<1> QED
  BY <1>1, InitIInv, NextKeepsIInv, NextKeepsRecords, PTL
  DEF Spec, ReadyConnectionIsStable

----------------------------------------------------------------------------
(* Refusals.  Only two steps answer that a request was wrong.            *)
Refused(d) ==
  /\ resp'[d] # resp[d]
  /\ resp'[d].code \in {"ERR_REPO_MISMATCH", "ERR_TOOL_NOT_ALLOWED"}

LEMMA ArriveRefuses ==
  ASSUME IInv, NEW c \in Clients, Arrive(c) \/ GitReply(c),
         NEW d \in Clients, Refused(d)
  PROVE  /\ UNCHANGED <<records, fleet>>
         /\ resp'[d].code = "ERR_TOOL_NOT_ALLOWED"
<1>1. UNCHANGED <<records, fleet>>
  BY DEF Arrive, Acquire, RejectTool, Get, RefuseWorkspace, ListFiles,
         GitStatus, GitReply
<1>2. CASE GitReply(c)
  BY <1>2 DEF GitReply, Reply, Refused, Error, IInv, TypeOK
<1>3. ASSUME NEW r \in Requests,
             \/ Acquire(c, r) \/ RejectTool(c, r) \/ Get(c, r)
             \/ RefuseWorkspace(c, r) \/ ListFiles(c, r) \/ GitStatus(c, r)
      PROVE  resp'[d].code = "ERR_TOOL_NOT_ALLOWED"
  <2>1. resp'[d] = resp[d] \/ (d = c /\ resp'[c].code # "ERR_REPO_MISMATCH")
    BY <1>3 DEF Acquire, RejectTool, Get, RefuseWorkspace, ListFiles, GitStatus,
       Reply, NoResponse, Error, RecordToResponse, IInv, TypeOK
  <2> QED
    BY <2>1 DEF Refused
<1> QED
  BY <1>1, <1>2, <1>3 DEF Arrive

(* Under the lock it is the comparison of repositories, which touches    *)
(* nothing.                                                              *)
LEMMA ProceedRefuses ==
  ASSUME IInv, NEW c \in Clients, Proceed(c), NEW d \in Clients, Refused(d)
  PROVE  EnsureMismatch(c) /\ d = c
<1>1. ASSUME NEW answer, Finish(c, answer)
      PROVE  d = c /\ answer.code \in {"ERR_REPO_MISMATCH", "ERR_TOOL_NOT_ALLOWED"}
  BY <1>1 DEF Finish, Reply, Refused, IInv, TypeOK
<1>2. ASSUME NEW code, Finish(c, Error(code))
      PROVE  d = c /\ code \in {"ERR_REPO_MISMATCH", "ERR_TOOL_NOT_ALLOWED"}
  BY <1>1, <1>2 DEF Error
<1>3. ASSUME NEW record, Finish(c, RecordToResponse(record))
      PROVE  FALSE
  BY <1>1, <1>3 DEF RecordToResponse
<1>4. ASSUME NEW failure \in Failures, Finish(c, Error(FailureCode(failure)))
      PROVE  FALSE
  BY <1>2, <1>4 DEF FailureCode
<1>5. ~ UNCHANGED resp
  BY DEF Refused
<1>6. Proceed(c) => EnsureMismatch(c)
  BY <1>2, <1>3, <1>4, <1>5
  DEF Proceed, EnsureReady, EnsureProvision, CreateReply, StartReply, CreateFails,
      StartFails, Sleep, Destroy
<1>7. EnsureMismatch(c) => d = c
  BY <1>2 DEF EnsureMismatch
<1> QED
  BY <1>6, <1>7

LEMMA NextRefuses ==
  ASSUME IInv, [Next]_vars, NEW d \in Clients, Refused(d)
  PROVE  \/ EnsureMismatch(d)
         \/ /\ UNCHANGED <<records, fleet>>
            /\ resp'[d].code = "ERR_TOOL_NOT_ALLOWED"
<1>1. ~ Restart /\ ~ UNCHANGED vars
  BY DEF Restart, vars, Refused, NoResponse, Error
<1> QED
  BY <1>1, ArriveRefuses, ProceedRefuses DEF Next

(* A refused ensure changes nothing; it wakes no sleeping environment.   *)
THEOREM RefusalIsPure == Spec => RefusalChangesNothing
<1>1. IInv /\ [Next]_vars =>
        \A c \in Clients :
          resp'[c] # resp[c] /\ resp'[c].code \in {"ERR_REPO_MISMATCH",
                                                   "ERR_TOOL_NOT_ALLOWED"} =>
            UNCHANGED <<records, fleet>>
  BY NextRefuses DEF Refused, EnsureMismatch
<1> QED
  BY <1>1, InitIInv, NextKeepsIInv, PTL DEF Spec, RefusalChangesNothing

(* A mismatch is answered for another repository on a live environment.  *)
THEOREM MismatchIsReal == Spec => MismatchIsGenuine
<1>1. IInv /\ [Next]_vars =>
        \A c \in Clients :
          resp'[c] # resp[c] /\ resp'[c].code = "ERR_REPO_MISMATCH" =>
            LET record == records[req[c].project] IN
            /\ record.status \in {"provisioning", "ready", "asleep"}
            /\ record.url.repo # req[c].url.repo
  <2> SUFFICES ASSUME IInv, [Next]_vars, NEW c \in Clients,
                      resp'[c] # resp[c], resp'[c].code = "ERR_REPO_MISMATCH"
               PROVE  LET record == records[req[c].project] IN
                      /\ record.status \in {"provisioning", "ready", "asleep"}
                      /\ record.url.repo # req[c].url.repo
    OBVIOUS
  <2>1. EnsureMismatch(c)
    BY NextRefuses DEF Refused
  <2>2. records[req[c].project] \in EnvironmentRecord \union {NoRecord}
    BY RequestType DEF IInv, TypeOK
  <2> QED
    BY <2>1, <2>2
    DEF EnsureMismatch, Live, NormalizeUrl, EnvironmentRecord, NoRecord
<1> QED
  BY <1>1, InitIInv, NextKeepsIInv, PTL DEF Spec, MismatchIsGenuine
=============================================================================
