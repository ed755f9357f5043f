------------------------- MODULE SiteWorker_proofs -------------------------
(***************************************************************************)
(* Proofs about the site workers: that what they do to the tables is what  *)
(* the control plane allows, so that everything proved of it holds of a    *)
(* site, and what their runs promise.  For any number of clusters,         *)
(* instances, operations and vmids.                                        *)
(***************************************************************************)
EXTENDS SiteWorker, ControlPlane_proofs

-----------------------------------------------------------------------------
(* Types.                                                                  *)

Statuses == {"pending", "active", "done", "failed"}

WorkerType ==
    [pc: ProgramPoints, op: OperationIds \cup {NoOperation}, stage: Stages, outcome: Outcomes,
     vmid: Vmids \cup {NoVmid}, teardown: BOOLEAN, pending: SUBSET Deletion]

GuestType == [owner: InstanceIds \cup {NoInstance}, snapshots: SUBSET OperationIds]

LEMMA SiteTyped ==
    SiteTypeOK <=>
        /\ TypeOK
        /\ operation_stages \in [OperationIds -> [Stages -> Statuses]]
        /\ proxmox_vmid \in [InstanceIds -> Vmids \cup {NoVmid}]
        /\ guests \in [ClusterIds -> [Vmids -> GuestType]]
        /\ worker \in [ClusterIds -> WorkerType]
BY DEF SiteTypeOK, Statuses, GuestType, WorkerType

LEMMA SiteStaysTyped ==
    ASSUME TypeOK', operation_stages' \in [OperationIds -> [Stages -> Statuses]],
           proxmox_vmid' \in [InstanceIds -> Vmids \cup {NoVmid}],
           guests' \in [ClusterIds -> [Vmids -> GuestType]],
           worker' \in [ClusterIds -> WorkerType]
    PROVE  SiteTypeOK'
BY DEF SiteTypeOK, Statuses, GuestType, WorkerType

LEMMA StagesAre ==
    /\ DOMAIN STAGE_ORDER = 1 .. 4
    /\ STAGE_ORDER[1] = "capacity_reservation" /\ STAGE_ORDER[2] = "proxmox_api_call"
    /\ STAGE_ORDER[3] = "automated_verification" /\ STAGE_ORDER[4] = "ready"
    /\ Stages = {"capacity_reservation", "proxmox_api_call", "automated_verification", "ready"}
<1>1. /\ DOMAIN STAGE_ORDER = 1 .. 4
      /\ STAGE_ORDER[1] = "capacity_reservation" /\ STAGE_ORDER[2] = "proxmox_api_call"
      /\ STAGE_ORDER[3] = "automated_verification" /\ STAGE_ORDER[4] = "ready"
  BY DEF STAGE_ORDER
<1>2. 1 .. 4 = {1, 2, 3, 4}
  OBVIOUS
<1> QED
  BY <1>1, <1>2 DEF Stages

LEMMA IdleTyped ==
    /\ Idle \in WorkerType /\ Idle.pc = "idle" /\ Idle.teardown = FALSE /\ Idle.pending = {}
    /\ NoGuest \in GuestType /\ NoGuest.owner = NoInstance
BY StagesAre DEF Idle, WorkerType, ProgramPoints, Outcomes, NoGuest, GuestType

\* The ways in which the state of a run changes.
LEMMA Moved ==
    ASSUME SiteTypeOK, NEW c \in ClusterIds, NEW new \in WorkerType,
           worker' = [worker EXCEPT ![c] = new]
    PROVE  /\ worker' \in [ClusterIds -> WorkerType]
           /\ worker'[c] = new
           /\ \A d \in ClusterIds \ {c} : worker'[d] = worker[d]
BY SiteTyped

Kept(c) ==
    /\ worker'[c].op = worker[c].op /\ worker'[c].vmid = worker[c].vmid
    /\ worker'[c].teardown = worker[c].teardown /\ worker'[c].pending = worker[c].pending

LEMMA WentTo ==
    ASSUME SiteTypeOK, NEW c \in ClusterIds, NEW pc \in ProgramPoints, GoTo(c, pc)
    PROVE  /\ worker' \in [ClusterIds -> WorkerType]
           /\ worker'[c].pc = pc /\ Kept(c) /\ worker'[c].stage = worker[c].stage
           /\ worker'[c].outcome = worker[c].outcome
           /\ \A d \in ClusterIds \ {c} : worker'[d] = worker[d]
<1> DEFINE q == [worker[c] EXCEPT !.pc = pc]
<1>1. worker \in [ClusterIds -> WorkerType] /\ worker[c] \in WorkerType
  BY SiteTyped
<1>2. /\ q \in WorkerType /\ q.pc = pc /\ q.op = worker[c].op /\ q.stage = worker[c].stage
      /\ q.outcome = worker[c].outcome /\ q.vmid = worker[c].vmid
      /\ q.teardown = worker[c].teardown /\ q.pending = worker[c].pending
  BY <1>1 DEF WorkerType
<1>3. worker' = [worker EXCEPT ![c] = q]
  BY <1>1 DEF GoTo
<1> HIDE DEF q
<1> QED
  BY <1>2, <1>3, Moved DEF Kept

LEMMA WentToWith ==
    ASSUME SiteTypeOK, NEW c \in ClusterIds, NEW pc \in ProgramPoints, NEW outcome \in Outcomes,
           worker' = [worker EXCEPT ![c].pc = pc, ![c].outcome = outcome]
    PROVE  /\ worker' \in [ClusterIds -> WorkerType]
           /\ worker'[c].pc = pc /\ Kept(c) /\ worker'[c].stage = worker[c].stage
           /\ worker'[c].outcome = outcome
           /\ \A d \in ClusterIds \ {c} : worker'[d] = worker[d]
<1> DEFINE q == [worker[c] EXCEPT !.pc = pc, !.outcome = outcome]
<1>1. worker \in [ClusterIds -> WorkerType] /\ worker[c] \in WorkerType
  BY SiteTyped
<1>2. /\ q \in WorkerType /\ q.pc = pc /\ q.op = worker[c].op /\ q.stage = worker[c].stage
      /\ q.outcome = outcome /\ q.vmid = worker[c].vmid
      /\ q.teardown = worker[c].teardown /\ q.pending = worker[c].pending
  BY <1>1 DEF WorkerType
<1>3. worker' = [worker EXCEPT ![c] = q]
  BY <1>1
<1> HIDE DEF q
<1> QED
  BY <1>2, <1>3, Moved DEF Kept

LEMMA FinishFailed ==
    ASSUME SiteTypeOK, NEW c \in ClusterIds, ToFinishFailed(c)
    PROVE  /\ worker' \in [ClusterIds -> WorkerType]
           /\ worker'[c].pc = "finish" /\ Kept(c) /\ worker'[c].stage = worker[c].stage
           /\ worker'[c].outcome = "failed"
           /\ \A d \in ClusterIds \ {c} : worker'[d] = worker[d]
<1>1. "finish" \in ProgramPoints /\ "failed" \in Outcomes
  BY DEF ProgramPoints, Outcomes
<1> QED
  BY <1>1, WentToWith DEF ToFinishFailed

LEMMA Looped ==
    ASSUME SiteTypeOK, NEW c \in ClusterIds,
           ToLoop(c) \/ worker' = [worker EXCEPT ![c] = Idle]
    PROVE  /\ worker' \in [ClusterIds -> WorkerType]
           /\ worker'[c].pc \in {"loop", "idle"} /\ ~worker'[c].teardown /\ worker'[c].pending = {}
           /\ \A d \in ClusterIds \ {c} : worker'[d] = worker[d]
<1> DEFINE q == [Idle EXCEPT !.pc = "loop"]
<1>1. q \in WorkerType /\ q.pc = "loop" /\ ~q.teardown /\ q.pending = {}
  BY IdleTyped DEF WorkerType, ProgramPoints
<1>2. CASE ToLoop(c)
  <2>1. worker' = [worker EXCEPT ![c] = q]
    BY <1>2 DEF ToLoop
  <2> HIDE DEF q
  <2> QED
    BY <1>1, <2>1, Moved
<1>3. CASE worker' = [worker EXCEPT ![c] = Idle]
  BY <1>3, IdleTyped, Moved
<1> QED
  BY <1>2, <1>3

LEMMA GivesUpTeardown ==
    ASSUME SiteTypeOK, NEW c \in ClusterIds, worker' = [worker EXCEPT ![c].outcome = "failed"]
    PROVE  /\ worker' \in [ClusterIds -> WorkerType]
           /\ worker'[c].pc = worker[c].pc /\ Kept(c) /\ worker'[c].stage = worker[c].stage
           /\ worker'[c].outcome = "failed"
           /\ \A d \in ClusterIds \ {c} : worker'[d] = worker[d]
<1> DEFINE q == [worker[c] EXCEPT !.outcome = "failed"]
<1>1. worker \in [ClusterIds -> WorkerType] /\ worker[c] \in WorkerType
  BY SiteTyped
<1>2. /\ q \in WorkerType /\ q.pc = worker[c].pc /\ q.op = worker[c].op
      /\ q.stage = worker[c].stage /\ q.outcome = "failed" /\ q.vmid = worker[c].vmid
      /\ q.teardown = worker[c].teardown /\ q.pending = worker[c].pending
  BY <1>1 DEF WorkerType, Outcomes
<1>3. worker' = [worker EXCEPT ![c] = q]
  BY <1>1
<1> HIDE DEF q
<1> QED
  BY <1>2, <1>3, Moved DEF Kept

LEMMA NextDeletions ==
    ASSUME SiteTypeOK, NEW c \in ClusterIds, ToDeletions(c)
    PROVE  /\ worker' \in [ClusterIds -> WorkerType]
           /\ worker'[c].pc = "deletions" /\ worker'[c].teardown
           /\ worker'[c].pending = worker[c].pending
           /\ \A d \in ClusterIds \ {c} : worker'[d] = worker[d]
<1> DEFINE q == [Idle EXCEPT !.pc = "deletions", !.teardown = TRUE, !.pending = worker[c].pending]
<1>1. worker[c].pending \in SUBSET Deletion
  BY SiteTyped DEF WorkerType
<1>2. q \in WorkerType /\ q.pc = "deletions" /\ q.teardown /\ q.pending = worker[c].pending
  BY <1>1, IdleTyped DEF WorkerType, ProgramPoints
<1> HIDE DEF q
<1> QED
  BY <1>2, Moved DEF q, ToDeletions

\* The tables of what follows a finish.
LEMMA AfterFinishIs ==
    ASSUME NEW c
    PROVE  /\ worker[c].teardown /\ AfterFinish(c) => ToDeletions(c)
           /\ ~worker[c].teardown /\ worker[c].outcome = "succeeded" /\ AfterFinish(c) => GoTo(c, "mark")
           /\ ~worker[c].teardown /\ worker[c].outcome # "succeeded" /\ AfterFinish(c) => ToLoop(c)
BY DEF AfterFinish

LEMMA AfterFinishThrowsIs ==
    ASSUME NEW c \in ClusterIds, worker[c].outcome \in Outcomes, AfterFinishThrows(c)
    PROVE  /\ worker[c].teardown /\ worker[c].vmid = NoVmid => ToLoop(c)
           /\ worker[c].teardown /\ worker[c].vmid # NoVmid /\ worker[c].outcome = "succeeded" =>
                worker' = [worker EXCEPT ![c].outcome = "failed"]
           /\ worker[c].teardown /\ worker[c].vmid # NoVmid /\ worker[c].outcome = "failed" =>
                ToDeletions(c)
           /\ ~worker[c].teardown /\ worker[c].outcome = "succeeded" => GoTo(c, "failing")
           /\ ~worker[c].teardown /\ worker[c].outcome = "failed" => ToLoop(c)
BY DEF AfterFinishThrows, Outcomes

-----------------------------------------------------------------------------
(* What the steps do to the state of a run.                                *)

LEMMA StartRunIs ==
    ASSUME SiteTypeOK, NEW c \in ClusterIds, StartRun(c)
    PROVE  /\ worker' \in [ClusterIds -> WorkerType]
           /\ \/ worker'[c].pc = "deletions" /\ worker'[c].teardown
                 /\ worker'[c].pending = PendingDeletions(c)
              \/ worker'[c].pc \in {"loop", "idle"} /\ ~worker'[c].teardown
                 /\ worker'[c].pending = {}
           /\ \A d \in ClusterIds \ {c} : worker'[d] = worker[d]
<1>1. CASE ToLoop(c)
  BY <1>1, Looped
<1>2. CASE worker' = [worker EXCEPT ![c].pc = "deletions", ![c].teardown = TRUE,
                                    ![c].pending = PendingDeletions(c)]
  <2> DEFINE q == [worker[c] EXCEPT !.pc = "deletions", !.teardown = TRUE,
                                    !.pending = PendingDeletions(c)]
  <2>1. worker \in [ClusterIds -> WorkerType] /\ worker[c] \in WorkerType
    BY SiteTyped
  <2>2. PendingDeletions(c) \in SUBSET Deletion
    BY DEF PendingDeletions
  <2>3. q \in WorkerType /\ q.pc = "deletions" /\ q.teardown /\ q.pending = PendingDeletions(c)
    BY <2>1, <2>2 DEF WorkerType, ProgramPoints
  <2>4. worker' = [worker EXCEPT ![c] = q]
    BY <1>2, <2>1
  <2> HIDE DEF q
  <2> QED
    BY <2>3, <2>4, Moved
<1> QED
  BY <1>1, <1>2 DEF StartRun

LEMMA NextDeletionIs ==
    ASSUME SiteTypeOK, NEW c \in ClusterIds, NextDeletion(c)
    PROVE  /\ worker' \in [ClusterIds -> WorkerType]
           /\ \A d \in ClusterIds \ {c} : worker'[d] = worker[d]
           /\ \E d \in worker[c].pending :
                /\ d \in Deletion /\ worker'[c].op = d.op /\ worker'[c].vmid = d.vmid
                /\ worker'[c].outcome = "succeeded"
                /\ worker'[c].teardown = worker[c].teardown
                /\ worker'[c].pending = worker[c].pending \ {d}
                /\ worker'[c].pc = IF d.vmid = NoVmid THEN "finish" ELSE "destroy"
<1>1. PICK d \in worker[c].pending :
          worker' = [worker EXCEPT ![c] =
              [worker[c] EXCEPT
                        !.pc = IF d.vmid = NoVmid THEN "finish" ELSE "destroy",
                        !.op = d.op, !.vmid = d.vmid, !.outcome = "succeeded",
                        !.pending = @ \ {d}]]
  BY DEF NextDeletion
<1> DEFINE pc == IF d.vmid = NoVmid THEN "finish" ELSE "destroy"
           q == [worker[c] EXCEPT !.pc = pc, !.op = d.op, !.vmid = d.vmid,
                                  !.outcome = "succeeded", !.pending = @ \ {d}]
<1>2. worker \in [ClusterIds -> WorkerType] /\ worker[c] \in WorkerType /\ d \in Deletion
  BY SiteTyped DEF WorkerType
<1>3. pc \in ProgramPoints /\ d.op \in OperationIds /\ d.vmid \in Vmids \cup {NoVmid}
  BY <1>2 DEF ProgramPoints, Deletion
<1> HIDE DEF pc
<1>4. /\ q \in WorkerType /\ q.pc = pc /\ q.op = d.op /\ q.vmid = d.vmid
      /\ q.outcome = "succeeded" /\ q.teardown = worker[c].teardown
      /\ q.pending = worker[c].pending \ {d}
  BY <1>2, <1>3 DEF WorkerType, Outcomes
<1>5. worker' = [worker EXCEPT ![c] = q]
  BY <1>1 DEF pc
<1> HIDE DEF q
<1> QED
  BY <1>2, <1>4, <1>5, Moved DEF pc

LEMMA ListOperationIs ==
    ASSUME SiteTypeOK, NEW c \in ClusterIds, NEW o \in OperationIds, ListOperation(c, o)
    PROVE  /\ worker' \in [ClusterIds -> WorkerType]
           /\ worker'[c].pc = "listed" /\ worker'[c].op = o
           /\ worker'[c].teardown = worker[c].teardown /\ worker'[c].pending = worker[c].pending
           /\ \A d \in ClusterIds \ {c} : worker'[d] = worker[d]
<1> DEFINE q == [worker[c] EXCEPT !.pc = "listed", !.op = o]
<1>1. worker \in [ClusterIds -> WorkerType] /\ worker[c] \in WorkerType
  BY SiteTyped
<1>2. /\ q \in WorkerType /\ q.pc = "listed" /\ q.op = o
      /\ q.teardown = worker[c].teardown /\ q.pending = worker[c].pending
  BY <1>1 DEF WorkerType, ProgramPoints
<1>3. worker' = [worker EXCEPT ![c] = q]
  BY <1>1 DEF ListOperation
<1> HIDE DEF q
<1> QED
  BY <1>2, <1>3, Moved

\* The stage that comes next is open, and those before it are not.
LEMMA NextStageIs ==
    ASSUME NEW o, OpenStages(o) # {}
    PROVE  /\ NextStage(o) \in Stages
           /\ operation_stages[o][NextStage(o)] \in {"pending", "active"}
           /\ operations[o].staged
           /\ \A k \in 1 .. 4 : STAGE_ORDER[k] = NextStage(o) =>
                \A j \in 1 .. 4 : j < k =>
                    operation_stages[o][STAGE_ORDER[j]] \notin {"pending", "active"}
<1>1. OpenStages(o) \subseteq 1 .. 4
  BY StagesAre DEF OpenStages
<1>2. \E k \in OpenStages(o) : \A j \in OpenStages(o) : k <= j
  <2>1. 1 .. 4 = {1, 2, 3, 4}
    OBVIOUS
  <2> QED
    BY <1>1, <2>1
<1>3. PICK k \in OpenStages(o) :
          NextStage(o) = STAGE_ORDER[k] /\ \A j \in OpenStages(o) : k <= j
  BY <1>2 DEF NextStage
<1>4. k \in 1 .. 4 /\ operations[o].staged /\ operation_stages[o][STAGE_ORDER[k]] \in {"pending", "active"}
  BY <1>3, <1>1 DEF OpenStages
<1>5. ASSUME NEW n \in 1 .. 4, STAGE_ORDER[n] = STAGE_ORDER[k]
      PROVE  n = k
  <2>1. 1 .. 4 = {1, 2, 3, 4}
    OBVIOUS
  <2> QED
    BY <1>4, <1>5, <2>1, StagesAre
<1>6. ASSUME NEW j \in 1 .. 4, j < k
      PROVE  operation_stages[o][STAGE_ORDER[j]] \notin {"pending", "active"}
  BY <1>3, <1>4, <1>6, StagesAre DEF OpenStages
<1> QED
  BY <1>3, <1>4, <1>5, <1>6, StagesAre DEF Stages

LEMMA StartStageIs ==
    ASSUME SiteTypeOK, NEW c \in ClusterIds, StartStage(c)
    PROVE  /\ worker' \in [ClusterIds -> WorkerType]
           /\ worker'[c].pc = "stage" /\ worker'[c].stage = NextStage(worker[c].op) /\ Kept(c)
           /\ \A d \in ClusterIds \ {c} : worker'[d] = worker[d]
<1> DEFINE s == NextStage(worker[c].op)
           q == [worker[c] EXCEPT !.pc = "stage", !.stage = s]
<1>1. worker \in [ClusterIds -> WorkerType] /\ worker[c] \in WorkerType /\ s \in Stages
  BY SiteTyped, NextStageIs DEF StartStage
<1>2. worker' = [worker EXCEPT ![c].pc = "stage", ![c].stage = s]
  BY DEF StartStage
<1> HIDE DEF s
<1>3. /\ q \in WorkerType /\ q.pc = "stage" /\ q.stage = s /\ q.op = worker[c].op
      /\ q.vmid = worker[c].vmid
      /\ q.teardown = worker[c].teardown /\ q.pending = worker[c].pending
  BY <1>1 DEF WorkerType, ProgramPoints
<1>4. worker' = [worker EXCEPT ![c] = q]
  BY <1>1, <1>2
<1> HIDE DEF q
<1> QED
  BY <1>3, <1>4, Moved DEF Kept, s

LEMMA CloneIs ==
    ASSUME SiteTypeOK, NEW c \in ClusterIds, Clone(c)
    PROVE  /\ worker' \in [ClusterIds -> WorkerType]
           /\ worker'[c].op = worker[c].op /\ worker'[c].stage = worker[c].stage
           /\ worker'[c].teardown = worker[c].teardown /\ worker'[c].pending = worker[c].pending
           /\ \A d \in ClusterIds \ {c} : worker'[d] = worker[d]
           /\ \E v \in Vmids :
                /\ guests[c][v] = NoGuest
                /\ guests' = [guests EXCEPT ![c][v] = [NoGuest EXCEPT !.owner = Op(c).instance]]
                /\ \/ worker'[c].pc = "cloned" /\ worker'[c].vmid = v
                   \/ worker'[c].pc = "failing" /\ "task_unseen" \in Faults
<1>1. PICK v \in Vmids :
        /\ guests[c][v] = NoGuest
        /\ guests' = [guests EXCEPT ![c][v] = [NoGuest EXCEPT !.owner = Op(c).instance]]
        /\ \/ worker' = [worker EXCEPT ![c].pc = "cloned", ![c].vmid = v]
           \/ "task_unseen" \in Faults /\ GoTo(c, "failing")
  BY DEF Clone, TaskUnseen
<1>2. CASE "task_unseen" \in Faults /\ GoTo(c, "failing")
  <2>1. "failing" \in ProgramPoints
    BY DEF ProgramPoints
  <2> QED
    BY <1>1, <1>2, <2>1, WentTo DEF Kept
<1>3. CASE worker' = [worker EXCEPT ![c].pc = "cloned", ![c].vmid = v]
  <2> DEFINE q == [worker[c] EXCEPT !.pc = "cloned", !.vmid = v]
  <2>1. worker \in [ClusterIds -> WorkerType] /\ worker[c] \in WorkerType
    BY SiteTyped
  <2>2. /\ q \in WorkerType /\ q.pc = "cloned" /\ q.stage = worker[c].stage /\ q.op = worker[c].op
        /\ q.vmid = v /\ q.teardown = worker[c].teardown /\ q.pending = worker[c].pending
    BY <2>1 DEF WorkerType, ProgramPoints
  <2>3. worker' = [worker EXCEPT ![c] = q]
    BY <1>3, <2>1
  <2> HIDE DEF q
  <2>4. /\ worker' \in [ClusterIds -> WorkerType] /\ worker'[c] = q
        /\ \A d \in ClusterIds \ {c} : worker'[d] = worker[d]
    BY <2>2, <2>3, Moved
  <2> QED
    BY <1>1, <2>2, <2>4
<1> QED
  BY <1>1, <1>2, <1>3

\* The steps that move a run on and keep all else of its state.
GoesOn(c) ==
    \/ DestroyListed(c) \/ ReserveCapacity(c) \/ ReserveThrows(c) \/ RecordClone(c) \/ TakeSnapshot(c)
    \/ RollBackGuest(c) \/ ResizeGuest(c) \/ Verify(c) \/ StageThrows(c)

LEMMA GoesOnIs ==
    ASSUME SiteTypeOK, NEW c \in ClusterIds, GoesOn(c)
    PROVE  /\ worker' \in [ClusterIds -> WorkerType] /\ Kept(c)
           /\ worker'[c].stage = worker[c].stage /\ worker'[c].outcome = worker[c].outcome
           /\ worker'[c].pc = IF DestroyListed(c) THEN "finish"
                              ELSE IF GoTo(c, "mark") THEN "mark" ELSE "failing"
           /\ GoTo(c, "mark") \/ GoTo(c, "failing") \/ DestroyListed(c)
           /\ \A d \in ClusterIds \ {c} : worker'[d] = worker[d]
<1>1. {"mark", "failing", "finish"} \subseteq ProgramPoints
  BY DEF ProgramPoints
<1>2. \/ GoTo(c, "mark") /\ ~DestroyListed(c)
      \/ GoTo(c, "failing") /\ ~DestroyListed(c)
      \/ GoTo(c, "finish") /\ DestroyListed(c)
  <2>1. ASSUME DestroyListed(c) PROVE At(c, "destroy") /\ GoTo(c, "finish")
    BY <2>1 DEF DestroyListed
  <2>2. ASSUME ~DestroyListed(c) PROVE GoTo(c, "mark") \/ GoTo(c, "failing")
    BY <2>2 DEF GoesOn, ReserveCapacity, ReserveThrows, RecordClone, TakeSnapshot, TaskUnseen,
       RollBackGuest, ResizeGuest, Verify, StageThrows
  <2> QED
    BY <2>1, <2>2
<1>3. CASE GoTo(c, "mark") /\ ~DestroyListed(c)
  BY <1>1, <1>3, WentTo
<1>4. CASE GoTo(c, "failing") /\ ~DestroyListed(c)
  <2>1. worker'[c].pc = "failing"
    BY <1>1, <1>4, WentTo
  <2>2. ~GoTo(c, "mark")
    BY <2>1, <1>1, WentTo
  <2> QED
    BY <1>1, <1>4, <2>2, WentTo
<1>5. CASE GoTo(c, "finish") /\ DestroyListed(c)
  BY <1>1, <1>5, WentTo
<1> QED
  BY <1>2, <1>3, <1>4, <1>5

\* Those that go back to the loop, or end the run.
Leaves(c) ==
    \/ EndDeletions(c) \/ NoPendingStage(c) \/ VerifyLater(c) \/ MarkDone(c) \/ EndRun(c) \/ Crash(c)

LEMMA LeavesIs ==
    ASSUME SiteTypeOK, NEW c \in ClusterIds, Leaves(c)
    PROVE  /\ worker' \in [ClusterIds -> WorkerType]
           /\ worker'[c].pc \in {"loop", "idle"} /\ ~worker'[c].teardown /\ worker'[c].pending = {}
           /\ \A d \in ClusterIds \ {c} : worker'[d] = worker[d]
BY Looped DEF Leaves, EndDeletions, NoPendingStage, VerifyLater, MarkDone, EndRun, Crash

LEMMA ReadyIs ==
    ASSUME SiteTypeOK, NEW c \in ClusterIds, Ready(c)
    PROVE  /\ worker' \in [ClusterIds -> WorkerType]
           /\ worker'[c].pc = "finish" /\ Kept(c) /\ worker'[c].stage = worker[c].stage
           /\ worker'[c].outcome = "succeeded"
           /\ \A d \in ClusterIds \ {c} : worker'[d] = worker[d]
<1>1. "finish" \in ProgramPoints /\ "succeeded" \in Outcomes
  BY DEF ProgramPoints, Outcomes
<1>2. worker' = [worker EXCEPT ![c].pc = "finish", ![c].outcome = "succeeded"]
  BY DEF Ready
<1> QED
  BY <1>1, <1>2, WentToWith

LEMMA DestroyThrowsIs ==
    ASSUME SiteTypeOK, NEW c \in ClusterIds, DestroyThrows(c)
    PROVE  /\ worker' \in [ClusterIds -> WorkerType] /\ Kept(c)
           /\ worker'[c].pc = "finish" /\ worker'[c].outcome = "failed"
           /\ worker'[c].stage = worker[c].stage
           /\ \A d \in ClusterIds \ {c} : worker'[d] = worker[d]
BY FinishFailed DEF DestroyThrows, ToFinishFailed

\* A failed stage: marked, rolled back if it is of a create, and finished.
LEMMA CompensateIs ==
    ASSUME SiteTypeOK, NEW c \in ClusterIds, Compensate(c)
    PROVE  /\ worker' \in [ClusterIds -> WorkerType] /\ Kept(c)
           /\ worker'[c].stage = worker[c].stage
           /\ \/ worker'[c].pc = "finish" /\ worker'[c].outcome = "failed"
              \/ worker'[c].pc \in {"rollback", "clear"} /\ Op(c).kind = "create"
              \/ worker'[c].pc = "clear" /\ RollBackClone(c)
           /\ \A d \in ClusterIds \ {c} : worker'[d] = worker[d]
<1>1. {"rollback", "clear"} \subseteq ProgramPoints
  BY DEF ProgramPoints
<1>2. \/ ToFinishFailed(c)
      \/ Op(c).kind = "create" /\ GoTo(c, "rollback")
      \/ GoTo(c, "clear") /\ RollBackClone(c)
  BY DEF Compensate, MarkFailed, RollBackClone, ClearVmid, RollbackThrows
<1>3. CASE ToFinishFailed(c)
  BY <1>3, FinishFailed
<1>4. CASE Op(c).kind = "create" /\ GoTo(c, "rollback")
  BY <1>1, <1>4, WentTo
<1>5. CASE GoTo(c, "clear") /\ RollBackClone(c)
  BY <1>1, <1>5, WentTo
<1> QED
  BY <1>2, <1>3, <1>4, <1>5

\* What follows a call of the finish.
Finishes(c) == CallFinish(c) \/ FinishThrows(c)

LEMMA FinishesIs ==
    ASSUME SiteTypeOK, NEW c \in ClusterIds, Finishes(c)
    PROVE  /\ worker' \in [ClusterIds -> WorkerType]
           /\ \A d \in ClusterIds \ {c} : worker'[d] = worker[d]
           /\ \/ CallFinish(c) /\ worker' = worker
              \/ worker[c].teardown /\ worker'[c].pc = "deletions" /\ worker'[c].teardown
                 /\ worker'[c].pending = worker[c].pending
              \/ worker'[c].pc \in {"loop", "idle"} /\ ~worker'[c].teardown
                 /\ worker'[c].pending = {}
              \/ FinishThrows(c) /\ worker[c].teardown /\ worker'[c].pc = "finish" /\ Kept(c)
                 /\ worker'[c].outcome = "failed"
              \/ CallFinish(c) /\ ~worker[c].teardown /\ worker[c].outcome = "succeeded"
                 /\ worker'[c].pc = "mark" /\ Kept(c) /\ worker'[c].stage = worker[c].stage
              \/ FinishThrows(c) /\ ~worker[c].teardown /\ worker[c].outcome = "succeeded"
                 /\ worker'[c].pc = "failing" /\ Kept(c) /\ worker'[c].stage = worker[c].stage
<1>1. /\ worker[c].outcome \in Outcomes /\ worker[c].teardown \in BOOLEAN
      /\ {"mark", "failing"} \subseteq ProgramPoints /\ worker \in [ClusterIds -> WorkerType]
  BY SiteTyped DEF WorkerType, ProgramPoints
<1>2. CASE CallFinish(c) /\ worker' = worker
  BY <1>1, <1>2
<1>3. CASE CallFinish(c) /\ AfterFinish(c)
  <2>1. CASE worker[c].teardown /\ ToDeletions(c)
    BY <2>1, NextDeletions
  <2>2. CASE ~worker[c].teardown /\ worker[c].outcome = "succeeded" /\ GoTo(c, "mark")
    BY <1>1, <1>3, <2>2, WentTo
  <2>3. CASE ToLoop(c)
    BY <2>3, Looped
  <2> QED
    BY <1>1, <1>3, <2>1, <2>2, <2>3, AfterFinishIs
<1>4. CASE FinishThrows(c)
  <2>1. CASE worker[c].teardown /\ ToDeletions(c)
    BY <2>1, NextDeletions
  <2>2. CASE ~worker[c].teardown /\ worker[c].outcome = "succeeded" /\ GoTo(c, "failing")
    BY <1>1, <1>4, <2>2, WentTo
  <2>3. CASE ToLoop(c)
    BY <2>3, Looped
  <2>4. CASE worker[c].teardown /\ worker' = [worker EXCEPT ![c].outcome = "failed"]
    BY <1>4, <2>4, GivesUpTeardown DEF FinishThrows, At
  <2>5. AfterFinishThrows(c)
    BY <1>4 DEF FinishThrows
  <2> QED
    BY <1>1, <2>1, <2>2, <2>3, <2>4, <2>5, AfterFinishThrowsIs DEF Outcomes
<1> QED
  BY <1>2, <1>3, <1>4 DEF Finishes, CallFinish

-----------------------------------------------------------------------------
(* What a run knows of its operation.                                      *)

\* A run has an operation wherever it needs one, which is its own cluster's
\* while it goes through the stages, and still active until it is finished.
Holding(c) ==
    \/ worker[c].pc \in {"listed", "stage", "cloned", "mark", "failing", "rollback", "clear"}
    \/ At(c, "finish") /\ ~worker[c].teardown

KnowsOperation ==
    \A c \in ClusterIds :
        /\ worker[c].pc \notin {"idle", "deletions", "loop"} => worker[c].op \in OperationIds
        /\ worker[c].pc \in {"loop", "listed", "stage", "cloned", "mark", "failing", "rollback",
                             "clear"} => ~worker[c].teardown
        /\ worker[c].pc \in {"deletions", "destroy"} => worker[c].teardown
        /\ Holding(c) => Op(c).cluster = c
        /\ worker[c].pc \in {"listed", "stage", "cloned"} => Active(worker[c].op)

\* An operation that was never requested is on no cluster.
UnusedIsUnplaced ==
    \A o \in OperationIds : operations[o].state = "none" => operations[o].cluster = NoCluster

SiteTypes == SiteTypeOK /\ KnowsOperation /\ UnusedIsUnplaced

-----------------------------------------------------------------------------
(* What the steps do to the tables.                                        *)

\* The steps that leave the tables alone.
LEMMA SameTables ==
    ASSUME NEW c \in ClusterIds, Work(c) \/ EndRun(c) \/ Crash(c),
           ~StartStage(c), ~ReserveCapacity(c), ~CallFinish(c)
    PROVE  UNCHANGED tables
BY DEF Work, DeletionPass, OneStage, Compensate, EndRun, Crash, StartRun, NextDeletion,
   DestroyListed, DestroyThrows, EndDeletions, ListOperation, NoPendingStage, ReserveThrows, Clone,
   RecordClone, TakeSnapshot, RollBackGuest, ResizeGuest, Verify, VerifyLater, StageThrows, Ready,
   MarkDone, MarkFailed, RollBackClone, ClearVmid, RollbackThrows, FinishThrows

LEMMA FinishCalls ==
    ASSUME SiteTypes, NEW c \in ClusterIds, CallFinish(c)
    PROVE  /\ worker[c].op \in OperationIds /\ worker[c].outcome \in Outcomes
           /\ WorkerCall(worker[c].op)
           /\ Op(c).cluster = c
           /\ UNCHANGED tables \/ Active(worker[c].op) \/ Op(c).kind = "create"
<1>1. worker[c].op \in OperationIds /\ worker[c].outcome \in Outcomes /\ Op(c).cluster = c
  BY SiteTyped DEF SiteTypes, KnowsOperation, WorkerType, CallFinish, At, FinishIsAccepted
<1>2. StagePassed(worker[c].op, "proxmox_api_call") \in BOOLEAN
  BY DEF StagePassed
<1>3. \/ worker_finish_operation(worker[c].op, worker[c].outcome,
                                 StagePassed(worker[c].op, "proxmox_api_call"))
      \/ FinishAgain(worker[c].op, worker[c].outcome)
  BY DEF CallFinish, Finish
<1>4. worker_finish_operation(worker[c].op, worker[c].outcome,
                              StagePassed(worker[c].op, "proxmox_api_call")) => Active(worker[c].op)
  BY DEF worker_finish_operation
<1>5. FinishAgain(worker[c].op, worker[c].outcome) /\ Op(c).kind # "create" => UNCHANGED tables
  BY DEF FinishAgain, Op, tables
<1> QED
  BY <1>1, <1>2, <1>3, <1>4, <1>5 DEF WorkerCall

\* Every step of a site is a step of the control plane, or none.
LEMMA StepImplements ==
    ASSUME SiteTypes, [SiteNext]_vars
    PROVE  [Next]_tables
<1>1. CASE UNCHANGED vars
  BY <1>1 DEF vars, tables
<1>2. CASE \E o \in OperationIds : SiteRequest(o)
  BY <1>2 DEF SiteRequest, Next
<1>3. ASSUME NEW c \in ClusterIds, Claim(c)
      PROVE  Next
  BY <1>3 DEF Claim, Next, WorkerCall
<1>4. ASSUME NEW c \in ClusterIds, StartStage(c)
      PROVE  Next
  BY <1>4 DEF StartStage, At, SiteTypes, KnowsOperation, Next, WorkerCall
<1>5. ASSUME NEW c \in ClusterIds, ReserveCapacity(c)
      PROVE  [Next]_tables
  BY <1>5 DEF ReserveCapacity, InStage, At, SiteTypes, KnowsOperation, Next, WorkerCall, tables
<1>6. ASSUME NEW c \in ClusterIds, CallFinish(c)
      PROVE  Next
  BY <1>6, FinishCalls DEF Next
<1> QED
  BY <1>1, <1>2, <1>3, <1>4, <1>5, <1>6, SameTables DEF SiteNext

LEMMA TypeNext ==
    ASSUME TypeOK, [Next]_tables
    PROVE  TypeOK'
<1>1. CASE UNCHANGED tables
  BY <1>1 DEF tables, TypeOK
<1> QED
  BY <1>1, TypeRequest, TypeWorkerCall DEF Next

-----------------------------------------------------------------------------
(* Type correctness.                                                       *)

\* All the ways there are for a run to go on.
LEMMA WorkCases ==
    ASSUME NEW c \in ClusterIds, Work(c) \/ Claim(c) \/ EndRun(c) \/ Crash(c)
    PROVE  \/ StartRun(c) \/ NextDeletion(c) \/ DestroyThrows(c)
           \/ (\E o \in OperationIds : ListOperation(c, o)) \/ StartStage(c) \/ Clone(c)
           \/ GoesOn(c) \/ Leaves(c) \/ Ready(c) \/ Compensate(c) \/ Finishes(c) \/ Claim(c)
BY DEF Work, DeletionPass, OneStage, GoesOn, Leaves, Finishes

LEMMA RunTyped ==
    ASSUME SiteTypeOK, NEW c \in ClusterIds, Work(c) \/ Claim(c) \/ EndRun(c) \/ Crash(c)
    PROVE  /\ worker' \in [ClusterIds -> WorkerType]
           /\ \A d \in ClusterIds \ {c} : worker'[d] = worker[d]
<1>1. CASE Claim(c)
  BY <1>1, SiteTyped DEF Claim
<1>2. CASE StartRun(c)
  BY <1>2, StartRunIs
<1>3. CASE NextDeletion(c)
  BY <1>3, NextDeletionIs
<1>4. CASE DestroyThrows(c)
  BY <1>4, DestroyThrowsIs
<1>5. CASE \E o \in OperationIds : ListOperation(c, o)
  BY <1>5, ListOperationIs
<1>6. CASE StartStage(c)
  BY <1>6, StartStageIs
<1>7. CASE Clone(c)
  BY <1>7, CloneIs
<1>8. CASE GoesOn(c)
  BY <1>8, GoesOnIs
<1>9. CASE Leaves(c)
  BY <1>9, LeavesIs
<1>10. CASE Ready(c)
  BY <1>10, ReadyIs
<1>11. CASE Compensate(c)
  BY <1>11, CompensateIs
<1>12. CASE Finishes(c)
  BY <1>12, FinishesIs
<1> QED
  BY <1>1, <1>2, <1>3, <1>4, <1>5, <1>6, <1>7, <1>8, <1>9, <1>10, <1>11, <1>12, WorkCases

\* The stages change only where a stage starts or is marked, or is claimed.
LEMMA StageMoves ==
    ASSUME SiteTypes, NEW c \in ClusterIds, Work(c) \/ Claim(c) \/ EndRun(c) \/ Crash(c)
    PROVE  \/ UNCHANGED operation_stages
           \/ \E o \in OperationIds, s \in Stages, status \in Statuses :
                /\ operation_stages' = [operation_stages EXCEPT ![o][s] = status]
                /\ \/ StartStage(c) /\ o = worker[c].op /\ s = NextStage(o) /\ status = "active"
                   \/ MarkDone(c) /\ o = worker[c].op /\ s = worker[c].stage /\ status = "done"
                   \/ MarkFailed(c) /\ o = worker[c].op /\ s = worker[c].stage /\ status = "failed"
                   \/ /\ s = "capacity_reservation" /\ status = "done"
                      /\ Claim(c) /\ \E d \in ClusterIds : place_next_pending_operation(o, d)
<1> USE DEF Statuses
<1>1. CASE Claim(c)
  BY <1>1, StagesAre DEF Claim
<1>2. CASE StartStage(c)
  BY <1>2, NextStageIs DEF StartStage, At, SiteTypes, KnowsOperation
<1>3. CASE MarkDone(c)
  BY <1>3, SiteTyped DEF MarkDone, SetStage, At, SiteTypes, KnowsOperation, WorkerType
<1>4. CASE MarkFailed(c)
  BY <1>4, SiteTyped DEF MarkFailed, SetStage, At, SiteTypes, KnowsOperation, WorkerType
<1>5. CASE ~Claim(c) /\ ~StartStage(c) /\ ~MarkDone(c) /\ ~MarkFailed(c)
  BY <1>5 DEF Work, DeletionPass, OneStage, Compensate, EndRun, Crash, StartRun, NextDeletion,
     DestroyListed, DestroyThrows, EndDeletions, ListOperation, NoPendingStage, ReserveCapacity,
     ReserveThrows, Clone, RecordClone, TakeSnapshot, RollBackGuest, ResizeGuest, Verify,
     VerifyLater, StageThrows, Ready, RollBackClone, ClearVmid, RollbackThrows, FinishThrows,
     CallFinish
<1> QED
  BY <1>1, <1>2, <1>3, <1>4, <1>5

\* A vmid is recorded, cleared, or gone with its row.
LEMMA VmidMoves ==
    ASSUME SiteTypes, NEW c \in ClusterIds, Work(c) \/ Claim(c) \/ EndRun(c) \/ Crash(c)
    PROVE  \/ UNCHANGED proxmox_vmid
           \/ /\ RecordClone(c) /\ VmidIsFree(c, worker[c].vmid) /\ GoTo(c, "mark")
              /\ proxmox_vmid' = [proxmox_vmid EXCEPT ![Op(c).instance] = worker[c].vmid]
           \/ ClearVmid(c) /\ proxmox_vmid' = [proxmox_vmid EXCEPT ![Op(c).instance] = NoVmid]
           \/ /\ CallFinish(c)
              /\ proxmox_vmid' = [i \in InstanceIds |->
                    IF instances'[i].state = "gone" THEN NoVmid ELSE proxmox_vmid[i]]
<1>1. CASE RecordClone(c)
  BY <1>1 DEF RecordClone
<1>2. CASE ClearVmid(c)
  BY <1>2 DEF ClearVmid
<1>3. CASE CallFinish(c)
  BY <1>3 DEF CallFinish, Finish
<1>4. CASE ~RecordClone(c) /\ ~ClearVmid(c) /\ ~CallFinish(c)
  BY <1>4 DEF Work, DeletionPass, OneStage, Compensate, EndRun, Crash, StartRun, NextDeletion,
     DestroyListed, DestroyThrows, EndDeletions, ListOperation, NoPendingStage, ReserveCapacity,
     ReserveThrows, Clone, TakeSnapshot, RollBackGuest, ResizeGuest, Verify, StartStage, MarkDone,
     VerifyLater, StageThrows, Ready, MarkFailed, RollBackClone, RollbackThrows, FinishThrows, Claim
<1> QED
  BY <1>1, <1>2, <1>3, <1>4

\* A run touches the guests of its own cluster alone, and one at a time.
LEMMA GuestMoves ==
    ASSUME SiteTypes, NEW c \in ClusterIds, Work(c) \/ Claim(c) \/ EndRun(c) \/ Crash(c)
    PROVE  \/ UNCHANGED guests
           \/ \E v : guests' = [guests EXCEPT ![c][v] = NoGuest] /\ v # NoVmid
                /\ \/ (DestroyListed(c) \/ DestroyThrows(c)) /\ v = worker[c].vmid
                   \/ (RollBackClone(c) \/ (RollbackThrows(c) /\ At(c, "rollback")))
                      /\ v = proxmox_vmid[Op(c).instance]
           \/ Clone(c) /\ \E v \in Vmids :
                /\ guests[c][v] = NoGuest
                /\ guests' = [guests EXCEPT ![c][v] = [NoGuest EXCEPT !.owner = Op(c).instance]]
           \/ /\ TakeSnapshot(c)
              /\ guests' = [guests EXCEPT ![c][proxmox_vmid[Op(c).instance]].snapshots =
                                @ \cup {worker[c].op}]
<1>1. CASE DestroyListed(c) \/ DestroyThrows(c)
  BY <1>1 DEF DestroyListed, DestroyThrows, Destroy
<1>2. CASE RollBackClone(c) \/ RollbackThrows(c)
  BY <1>2 DEF RollBackClone, RollbackThrows, Destroy
<1>3. CASE Clone(c)
  BY <1>3 DEF Clone
<1>4. CASE TakeSnapshot(c)
  BY <1>4 DEF TakeSnapshot
<1>5. CASE /\ ~DestroyListed(c) /\ ~DestroyThrows(c) /\ ~RollBackClone(c) /\ ~RollbackThrows(c)
           /\ ~Clone(c) /\ ~TakeSnapshot(c)
  BY <1>5 DEF Work, DeletionPass, OneStage, Compensate, EndRun, Crash, StartRun, NextDeletion,
     EndDeletions, ListOperation, NoPendingStage, ReserveCapacity, RecordClone, ClearVmid,
     ReserveThrows, RollBackGuest, ResizeGuest, Verify, StartStage, MarkDone,
     VerifyLater, StageThrows, Ready, MarkFailed, FinishThrows, Claim, CallFinish
<1> QED
  BY <1>1, <1>2, <1>3, <1>4, <1>5

LEMMA GuestSet ==
    ASSUME SiteTypeOK, NEW c \in ClusterIds, NEW v, NEW x, v \in Vmids => x \in GuestType,
           guests' = [guests EXCEPT ![c][v] = x]
    PROVE  /\ guests' \in [ClusterIds -> [Vmids -> GuestType]]
           /\ \A d \in ClusterIds, u \in Vmids :
                guests'[d][u] = IF d = c /\ u = v THEN x ELSE guests[d][u]
<1> DEFINE g == guests[c]
           h == [g EXCEPT ![v] = x]
<1>1. guests \in [ClusterIds -> [Vmids -> GuestType]] /\ g \in [Vmids -> GuestType]
  BY SiteTyped
<1>2. guests' = [guests EXCEPT ![c] = h]
  BY <1>1
<1> HIDE DEF g
<1>3. h \in [Vmids -> GuestType] /\ \A u \in Vmids : h[u] = IF u = v THEN x ELSE g[u]
  BY <1>1
<1> HIDE DEF h
<1> QED
  BY <1>1, <1>2, <1>3 DEF g

LEMMA SnapshotTaken ==
    ASSUME SiteTypes, NEW c \in ClusterIds, TakeSnapshot(c)
    PROVE  /\ guests' \in [ClusterIds -> [Vmids -> GuestType]]
           /\ \A d \in ClusterIds, u \in Vmids :
                /\ guests'[d][u].owner = guests[d][u].owner
                /\ guests'[d][u].snapshots =
                      IF d = c /\ u = proxmox_vmid[Op(c).instance]
                      THEN guests[d][u].snapshots \cup {worker[c].op} ELSE guests[d][u].snapshots
<1> DEFINE v == proxmox_vmid[Op(c).instance]
           g == guests[c][v]
           x == [g EXCEPT !.snapshots = @ \cup {worker[c].op}]
<1>1. SiteTypeOK /\ worker[c].op \in OperationIds
  BY DEF SiteTypes, TakeSnapshot, InStage, At, KnowsOperation
<1>2. guests' = [guests EXCEPT ![c][v] = x]
  BY <1>1, SiteTyped DEF TakeSnapshot
<1> HIDE DEF v
<1>3. v \in Vmids => g \in GuestType
  BY <1>1, SiteTyped
<1>4. v \in Vmids => /\ x \in GuestType /\ x.owner = g.owner
                     /\ x.snapshots = g.snapshots \cup {worker[c].op}
  <2> HIDE DEF g
  <2> QED
    BY <1>1, <1>3 DEF GuestType
<1> HIDE DEF x
<1>5. /\ guests' \in [ClusterIds -> [Vmids -> GuestType]]
      /\ \A d \in ClusterIds, u \in Vmids :
            guests'[d][u] = IF d = c /\ u = v THEN x ELSE guests[d][u]
  BY <1>1, <1>2, <1>4, GuestSet
<1> QED
  BY <1>4, <1>5 DEF v

LEMMA SiteTypeStep ==
    ASSUME SiteTypes, NEW c \in ClusterIds, Work(c) \/ Claim(c) \/ EndRun(c) \/ Crash(c), TypeOK'
    PROVE  SiteTypeOK'
<1>0. SiteTypeOK
  BY DEF SiteTypes
<1>1. worker' \in [ClusterIds -> WorkerType]
  BY <1>0, RunTyped
<1>2. operation_stages' \in [OperationIds -> [Stages -> Statuses]]
  <2>1. operation_stages \in [OperationIds -> [Stages -> Statuses]]
    BY <1>0, SiteTyped
  <2>2. CASE UNCHANGED operation_stages
    BY <2>1, <2>2
  <2>3. CASE \E o \in OperationIds, s \in Stages, status \in Statuses :
                operation_stages' = [operation_stages EXCEPT ![o][s] = status]
    BY <2>1, <2>3
  <2> QED
    BY <2>2, <2>3, StageMoves
<1>3. worker[c].vmid \in Vmids \cup {NoVmid}
  BY <1>0, SiteTyped DEF WorkerType
<1>4. proxmox_vmid' \in [InstanceIds -> Vmids \cup {NoVmid}]
  <2>1. proxmox_vmid \in [InstanceIds -> Vmids \cup {NoVmid}]
    BY <1>0, SiteTyped
  <2> QED
    BY <1>3, <2>1, VmidMoves
<1>5. guests' \in [ClusterIds -> [Vmids -> GuestType]]
  <2>1. guests \in [ClusterIds -> [Vmids -> GuestType]]
    BY <1>0, SiteTyped
  <2>2. CASE \E v : guests' = [guests EXCEPT ![c][v] = NoGuest]
    BY <1>0, <2>2, IdleTyped, GuestSet
  <2>3. CASE Clone(c)
    <3>1. PICK v \in Vmids :
              guests' = [guests EXCEPT ![c][v] = [NoGuest EXCEPT !.owner = Op(c).instance]]
      BY <2>3 DEF Clone
    <3>2. worker[c].op \in OperationIds
      BY <2>3 DEF Clone, InStage, At, SiteTypes, KnowsOperation
    <3>3. Op(c).instance \in InstanceIds \cup {NoInstance}
      BY <1>0, <3>2, SiteTyped DEF TypeOK, OperationRow, Op
    <3>4. [NoGuest EXCEPT !.owner = Op(c).instance] \in GuestType
      BY <3>3 DEF GuestType, NoGuest
    <3> QED
      BY <1>0, <3>1, <3>4, GuestSet
  <2>4. CASE TakeSnapshot(c)
    BY <2>4, SnapshotTaken
  <2> QED
    BY <2>1, <2>2, <2>3, <2>4, GuestMoves
<1> QED
  BY <1>1, <1>2, <1>4, <1>5, SiteStaysTyped

-----------------------------------------------------------------------------
(* What happens to the operation of a run.                                 *)

\* A run changes the state of no operation but its own: it starts a stage of
\* it, or finishes it.  Its own cluster's worker alone can do so.
LEMMA OperationMoves ==
    ASSUME SiteTypes, NEW c \in ClusterIds, Work(c) \/ Claim(c) \/ EndRun(c) \/ Crash(c),
           NEW o \in OperationIds
    PROVE  /\ operations'[o].kind = operations[o].kind
           /\ operations'[o].staged = operations[o].staged
           /\ \/ operations'[o].cluster = operations[o].cluster
              \/ Claim(c) /\ operations[o].cluster = NoCluster
           /\ \/ operations'[o].state = operations[o].state
              \/ /\ StartStage(c) /\ o = worker[c].op /\ operations[o].cluster = c
                 /\ Active(o) /\ operations'[o].state = "running"
              \/ /\ CallFinish(c) /\ o = worker[c].op /\ operations[o].cluster = c
                 /\ Active(o) /\ operations'[o].state = worker[c].outcome
<1>t. operations \in [OperationIds -> OperationRow]
  BY SiteTyped DEF SiteTypes, TypeOK
<1>1. CASE UNCHANGED operations
  BY <1>1
<1>2. CASE Claim(c)
  <2>1. PICK q \in OperationIds, d \in ClusterIds : place_next_pending_operation(q, d)
    BY <1>2 DEF Claim
  <2>2. operations[q].cluster = NoCluster /\ operations' = [operations EXCEPT ![q].cluster = d]
    BY <2>1 DEF place_next_pending_operation
  <2> QED
    BY <1>2, <1>t, <2>2 DEF OperationRow
<1>3. CASE StartStage(c)
  <2>1. /\ worker[c].op \in OperationIds /\ Op(c).cluster = c /\ Active(worker[c].op)
        /\ operations' = [operations EXCEPT ![worker[c].op].state = "running"]
    BY <1>3 DEF StartStage, worker_start_stage, At, SiteTypes, KnowsOperation, Holding
  <2> QED
    BY <1>3, <1>t, <2>1 DEF OperationRow, Op
<1>4. CASE CallFinish(c)
  <2>1. worker[c].op \in OperationIds /\ worker[c].outcome \in Outcomes /\ Op(c).cluster = c
    BY <1>4, FinishCalls
  <2>2. CASE FinishAgain(worker[c].op, worker[c].outcome)
    BY <2>2 DEF FinishAgain
  <2>3. CASE worker_finish_operation(worker[c].op, worker[c].outcome,
                                     StagePassed(worker[c].op, "proxmox_api_call"))
    <3>1. /\ Active(worker[c].op)
          /\ operations' = OperationsAfter(worker[c].op, Op(c).instance, worker[c].outcome)
      BY <2>3 DEF worker_finish_operation, Op
    <3> QED
      BY <1>4, <1>t, <2>1, <3>1 DEF OperationsAfter, OperationRow, Op
  <2> QED
    BY <1>4, <2>2, <2>3 DEF CallFinish, Finish
<1> QED
  BY <1>1, <1>2, <1>3, <1>4, SameTables DEF tables, ReserveCapacity, worker_hold_capacity

\* A request makes an operation, and touches no other.
LEMMA RequestMade ==
    ASSUME SiteTypes, NEW q \in OperationIds, SiteRequest(q)
    PROVE  /\ operations[q].state = "none" /\ operations'[q].state = "pending"
           /\ \A p \in OperationIds \ {q} : operations'[p] = operations[p]
<1>t. operations \in [OperationIds -> OperationRow]
  BY SiteTyped DEF SiteTypes, TypeOK
<1>1. CASE \E i \in InstanceIds, p \in Plans : request_instance_create(q, i, p)
  BY <1>1, <1>t DEF request_instance_create, NoOperationRow
<1>2. ASSUME NEW i, NEW kind, NEW admitted, NEW plan, NEW snapshot, NEW staged,
             InsertOperation(q, i, kind, admitted, plan, snapshot, staged)
      PROVE  /\ operations[q].state = "none" /\ operations'[q].state = "pending"
             /\ \A p \in OperationIds \ {q} : operations'[p] = operations[p]
  BY <1>2, <1>t DEF InsertOperation
<1> QED
  BY <1>1, <1>2 DEF SiteRequest, Request, request_instance_snapshot, request_instance_resize,
     request_instance_restore_replace, request_instance_deletion, request_instance_delete

LEMMA RequestMoves ==
    ASSUME SiteTypes, NEW q \in OperationIds, SiteRequest(q), NEW o \in OperationIds,
           operations[o].state # "none"
    PROVE  operations'[o] = operations[o]
BY RequestMade

\* What another cluster's run knows of its operation stays true.
LEMMA OthersKnow ==
    ASSUME SiteTypes, NEW c \in ClusterIds, Work(c) \/ Claim(c) \/ EndRun(c) \/ Crash(c),
           NEW o \in OperationIds, operations[o].cluster # c, operations[o].cluster # NoCluster
    PROVE  operations'[o].cluster = operations[o].cluster /\ operations'[o].state = operations[o].state
BY OperationMoves

\* The run that moves keeps to what it knows.
LEMMA MoverKnows ==
    ASSUME SiteTypes, NEW c \in ClusterIds, Work(c) \/ EndRun(c) \/ Crash(c)
    PROVE  /\ worker'[c].pc \notin {"idle", "deletions", "loop"} => worker'[c].op \in OperationIds
           /\ worker'[c].pc \in {"loop", "listed", "stage", "cloned", "mark", "failing", "rollback",
                                "clear"} => ~worker'[c].teardown
           /\ worker'[c].pc \in {"deletions", "destroy"} => worker'[c].teardown
           /\ Holding(c)' => Op(c)'.cluster = c
           /\ worker'[c].pc \in {"listed", "stage", "cloned"} =>
                operations'[worker'[c].op].state \in ActiveStates
<1> USE DEF Holding, Op, At
<1>0. SiteTypeOK /\ KnowsOperation /\ worker[c].teardown \in BOOLEAN /\ c # NoCluster
  BY SiteTyped, NullsAreNotIds DEF SiteTypes, WorkerType
<1>1. CASE StartRun(c)
  BY <1>0, <1>1, StartRunIs
<1>2. CASE NextDeletion(c)
  <2>1. worker[c].teardown
    BY <1>0, <1>2 DEF NextDeletion, KnowsOperation
  <2> QED
    BY <1>0, <1>2, <2>1, NextDeletionIs DEF Deletion
<1>3. CASE DestroyThrows(c)
  <2>1. worker[c].teardown /\ worker[c].op \in OperationIds
    BY <1>0, <1>3 DEF DestroyThrows, KnowsOperation
  <2> QED
    BY <1>0, <1>3, <2>1, DestroyThrowsIs DEF Kept
<1>4. ASSUME NEW o \in OperationIds, ListOperation(c, o)
      PROVE  /\ worker'[c].pc = "listed" /\ worker'[c].op = o /\ ~worker'[c].teardown
             /\ operations'[o].cluster = c /\ operations'[o].state \in ActiveStates
  <2>1. ~worker[c].teardown /\ UNCHANGED tables
    BY <1>0, <1>4 DEF ListOperation, OwnsOperation, KnowsOperation
  <2>2. operations[o].cluster = c /\ operations[o].state \in ActiveStates
    BY <1>4 DEF ListOperation, OwnsOperation, Active
  <2> QED
    BY <1>0, <1>4, <2>1, <2>2, ListOperationIs DEF tables
<1>5. CASE StartStage(c)
  <2>1. /\ ~worker[c].teardown /\ worker[c].op \in OperationIds /\ Op(c).cluster = c
        /\ Active(worker[c].op)
    BY <1>0, <1>5 DEF StartStage, KnowsOperation
  <2>2. operations'[worker[c].op].cluster = c /\ operations'[worker[c].op].state \in ActiveStates
    <3>1. ~CallFinish(c) /\ ~Claim(c)
      BY <1>5 DEF StartStage, CallFinish, Claim
    <3> QED
      BY <1>0, <1>5, <2>1, <3>1, OperationMoves DEF Active, ActiveStates
  <2> QED
    BY <1>0, <1>5, <2>1, <2>2, StartStageIs DEF Kept
<1>6. CASE Clone(c) \/ (GoesOn(c) /\ ~DestroyListed(c))
  <2>1. /\ ~worker[c].teardown /\ worker[c].op \in OperationIds /\ Op(c).cluster = c
        /\ Active(worker[c].op)
    BY <1>0, <1>6 DEF Clone, GoesOn, InStage, KnowsOperation, ReserveCapacity, ReserveThrows,
       RecordClone, TakeSnapshot, RollBackGuest, ResizeGuest, Verify, StageThrows
  <2>2. operations'[worker[c].op].cluster = c
    BY <1>0, <2>1, OperationMoves
  <2>3. CASE Clone(c)
    <3>1. operations'[worker[c].op].state \in ActiveStates
      BY <2>1, <2>3 DEF Clone, tables, Active
    <3> QED
      BY <1>0, <2>1, <2>2, <2>3, <3>1, CloneIs
  <2>4. CASE GoesOn(c) /\ ~DestroyListed(c)
    BY <1>0, <2>1, <2>2, <2>4, GoesOnIs DEF Kept
  <2> QED
    BY <1>6, <2>3, <2>4
<1>7. CASE DestroyListed(c)
  <2>1. worker[c].teardown /\ worker[c].op \in OperationIds
    BY <1>0, <1>7 DEF DestroyListed, KnowsOperation
  <2> QED
    BY <1>0, <1>7, <2>1, GoesOnIs DEF Kept, GoesOn
<1>8. CASE Leaves(c)
  BY <1>0, <1>8, LeavesIs
<1>9. CASE Ready(c)
  <2>1. ~worker[c].teardown /\ worker[c].op \in OperationIds /\ Op(c).cluster = c
    BY <1>0, <1>9 DEF Ready, InStage, KnowsOperation
  <2>2. operations'[worker[c].op].cluster = c
    BY <1>0, <2>1, OperationMoves
  <2> QED
    BY <1>0, <1>9, <2>1, <2>2, ReadyIs DEF Kept
<1>10. CASE Compensate(c)
  <2>1. ~worker[c].teardown /\ worker[c].op \in OperationIds /\ Op(c).cluster = c
    BY <1>0, <1>10 DEF Compensate, MarkFailed, RollBackClone, ClearVmid, RollbackThrows, KnowsOperation
  <2>2. operations'[worker[c].op].cluster = c
    BY <1>0, <2>1, OperationMoves
  <2> QED
    BY <1>0, <1>10, <2>1, <2>2, CompensateIs DEF Kept
<1>11. CASE Finishes(c)
  <2>1. worker[c].pc = "finish" /\ worker[c].op \in OperationIds
    BY <1>0, <1>11 DEF Finishes, CallFinish, FinishThrows, KnowsOperation
  <2>2. ~worker[c].teardown => Op(c).cluster = c /\ operations'[worker[c].op].cluster = c
    BY <1>0, <2>1, OperationMoves DEF KnowsOperation
  <2> QED
    BY <1>0, <1>11, <2>1, <2>2, FinishesIs DEF Kept
<1>12. CASE \E o \in OperationIds : ListOperation(c, o)
  BY <1>12, <1>4
<1>13. CASE Claim(c)
  BY <1>0, <1>13 DEF Claim, KnowsOperation
<1> QED
  BY <1>1, <1>2, <1>3, <1>5, <1>6, <1>7, <1>8, <1>9, <1>10, <1>11, <1>12, <1>13, WorkCases

LEMMA KnowsNext ==
    ASSUME SiteTypes, [SiteNext]_vars
    PROVE  KnowsOperation'
<1>k. KnowsOperation /\ SiteTypeOK
  BY DEF SiteTypes
<1>1. CASE UNCHANGED vars
  BY <1>1 DEF SiteTypes, KnowsOperation, vars, tables, siteVars, Holding, Op, At, Active
<1>2. ASSUME NEW q \in OperationIds, SiteRequest(q)
      PROVE  KnowsOperation'
  <2>1. UNCHANGED worker
    BY <1>2 DEF SiteRequest, siteVars
  <2>3. \A o \in OperationIds : Active(o) => operations'[o] = operations[o]
    BY <1>2, RequestMoves DEF Active, ActiveStates
  <2>4. \A o \in OperationIds : operations[o].cluster # NoCluster =>
            operations'[o].cluster = operations[o].cluster
    BY <1>2, RequestMoves DEF SiteTypes, UnusedIsUnplaced
  <2> QED
    BY <1>k, <2>1, <2>3, <2>4, NullsAreNotIds DEF KnowsOperation, Holding, Op, At, Active
<1>3. ASSUME NEW c \in ClusterIds, Claim(c)
      PROVE  KnowsOperation'
  <2>1. \A o \in OperationIds : /\ operations'[o].state = operations[o].state
                                /\ operations[o].cluster # NoCluster =>
                                      operations'[o].cluster = operations[o].cluster
    BY <1>3, OperationMoves DEF Claim, StartStage, CallFinish, At
  <2>2. UNCHANGED worker
    BY <1>3 DEF Claim
  <2> QED
    BY <1>k, <2>1, <2>2, NullsAreNotIds DEF KnowsOperation, Holding, Op, At, Active
<1>4. ASSUME NEW c \in ClusterIds, Work(c) \/ EndRun(c) \/ Crash(c)
      PROVE  KnowsOperation'
  <2>1. ASSUME NEW d \in ClusterIds, d # c
        PROVE  /\ worker'[d] = worker[d]
               /\ \A o \in OperationIds : operations[o].cluster = d =>
                    operations'[o].cluster = d /\ operations'[o].state = operations[o].state
    BY <1>4, <1>k, <2>1, RunTyped, OthersKnow, NullsAreNotIds
  <2>2. ASSUME NEW d \in ClusterIds, d # c
        PROVE  /\ worker'[d].pc \notin {"idle", "deletions", "loop"} => worker'[d].op \in OperationIds
               /\ worker'[d].pc \in {"loop", "listed", "stage", "cloned", "mark", "failing", "rollback",
                                    "clear"} => ~worker'[d].teardown
               /\ worker'[d].pc \in {"deletions", "destroy"} => worker'[d].teardown
               /\ Holding(d)' => Op(d)'.cluster = d
               /\ worker'[d].pc \in {"listed", "stage", "cloned"} =>
                    operations'[worker'[d].op].state \in ActiveStates
    BY <1>k, <2>1, <2>2 DEF KnowsOperation, Holding, Op, At, Active
  <2> QED
    BY <1>4, <2>2, MoverKnows DEF KnowsOperation, Active
<1> QED
  BY <1>1, <1>2, <1>3, <1>4 DEF SiteNext

LEMMA UnusedNext ==
    ASSUME SiteTypes, [SiteNext]_vars
    PROVE  UnusedIsUnplaced'
<1> USE DEF UnusedIsUnplaced
<1>1. CASE UNCHANGED vars
  BY <1>1 DEF SiteTypes, vars, tables
<1>2. ASSUME NEW q \in OperationIds, SiteRequest(q)
      PROVE  UnusedIsUnplaced'
  <2>1. operations'[q].state = "pending"
    BY <1>2, RequestMade
  <2>2. \A p \in OperationIds : p # q => operations'[p] = operations[p]
    BY <1>2, RequestMade
  <2> QED
    BY <2>1, <2>2 DEF SiteTypes
<1>3. ASSUME NEW c \in ClusterIds, Work(c) \/ Claim(c) \/ EndRun(c) \/ Crash(c)
      PROVE  UnusedIsUnplaced'
  <2> SUFFICES ASSUME NEW o \in OperationIds, operations'[o].state = "none"
               PROVE  operations'[o].cluster = NoCluster
    OBVIOUS
  <2>1. operations[o].state = "none" /\ operations[o].cluster = NoCluster
    BY <1>3, OperationMoves, SiteTyped DEF SiteTypes, Outcomes, WorkerType
  <2>3. CASE Claim(c)
    BY <2>1, <2>3, SiteTyped DEF Claim, place_next_pending_operation, SiteTypes, TypeOK
  <2>4. CASE ~Claim(c)
    BY <1>3, <2>1, <2>4, OperationMoves
  <2> QED
    BY <2>3, <2>4
<1> QED
  BY <1>1, <1>2, <1>3 DEF SiteNext

-----------------------------------------------------------------------------
LEMMA SiteTypesInit == SiteInit => SiteTypes
<1> SUFFICES ASSUME SiteInit PROVE SiteTypes
  OBVIOUS
<1>1. SiteTypeOK
  BY TypeInit, IdleTyped, SiteTyped DEF SiteInit, Statuses
<1>2. KnowsOperation
  BY IdleTyped DEF SiteInit, KnowsOperation, Holding, At
<1>3. UnusedIsUnplaced
  BY DEF SiteInit, Init, NoOperationRow, UnusedIsUnplaced
<1> QED
  BY <1>1, <1>2, <1>3 DEF SiteTypes

LEMMA SiteTypesNext == SiteTypes /\ [SiteNext]_vars => SiteTypes'
<1> SUFFICES ASSUME SiteTypes, [SiteNext]_vars PROVE SiteTypes'
  OBVIOUS
<1>0. SiteTypeOK /\ TypeOK
  BY SiteTyped DEF SiteTypes
<1>1. TypeOK'
  BY <1>0, StepImplements, TypeNext
<1>2. ASSUME UNCHANGED siteVars PROVE SiteTypeOK'
  <2>1. /\ operation_stages' = operation_stages /\ proxmox_vmid' = proxmox_vmid
        /\ guests' = guests /\ worker' = worker
    BY <1>2 DEF siteVars
  <2> QED
    BY <1>0, <1>1, <2>1, SiteTyped, SiteStaysTyped
<1>3. ASSUME NEW c \in ClusterIds, Work(c) \/ Claim(c) \/ EndRun(c) \/ Crash(c)
      PROVE  SiteTypeOK'
  BY <1>1, <1>3, SiteTypeStep
<1>4. SiteTypeOK'
  <2>1. UNCHANGED vars => UNCHANGED siteVars
    BY DEF vars, siteVars
  <2> QED
    BY <1>2, <1>3, <2>1 DEF SiteNext, SiteRequest
<1> QED
  BY <1>4, KnowsNext, UnusedNext DEF SiteTypes

LEMMA SiteTypesHold == SiteSpec => []SiteTypes
BY SiteTypesInit, SiteTypesNext, PTL DEF SiteSpec

\* Every row, every guest and the state of every run keeps its type.
THEOREM SiteTypeCorrect == SiteSpec => []SiteTypeOK
<1>1. SiteTypes => SiteTypeOK
  BY DEF SiteTypes
<1> QED
  BY <1>1, SiteTypesHold, PTL

\* A site implements the control plane: whatever fails, whenever a run is
\* killed, and however the runs of the clusters interleave, the workers call
\* the functions of the schema only as that module lets them, a stage starts
\* and capacity is held only for an operation that is still active
\* (deploy/site-worker/index.js:2504-2568).
THEOREM SitesImplementControlPlane == SiteSpec => Spec
<1>1. SiteInit => Init
  BY DEF SiteInit
<1>2. SiteTypes /\ [SiteNext]_vars => [Next]_tables
  BY StepImplements
<1> QED
  BY <1>1, <1>2, SiteTypesHold, PTL DEF SiteSpec, Spec

\* So all that is proved of the control plane holds of a site, among it that no
\* instance is left busy with nothing to settle it.
THEOREM SitesNeverStrand == SiteSpec => []NoStrandedInstance
BY SitesImplementControlPlane, NeverStranded, PTL

-----------------------------------------------------------------------------
(***************************************************************************)
(* What the runs of the workers promise: an operation that is reported as  *)
(* succeeded has passed every stage, a usable instance has its own guest,  *)
(* and every guest is named by a row.                                      *)
(*                                                                         *)
(* They assume that the operation of a failed stage is finished as failed: *)
(* the process is not killed while it handles a failed stage, and the      *)
(* finish it then makes gets through.  Without it a create whose guest was *)
(* rolled back may be taken up again after the stage that failed.          *)
(***************************************************************************)
FailuresAreTold == {"failure_lost", "handler_crash", "gives_up"} \cap Faults = {}

Moves(c) == Work(c) \/ Claim(c) \/ EndRun(c) \/ Crash(c)

-----------------------------------------------------------------------------
(* The inductive invariant of the stages.                                  *)

\* What a run knows of its operation between two steps.
RunSound(c) ==
    /\ worker[c].pc \in {"failing", "rollback", "clear"} => Active(worker[c].op)
    /\ At(c, "mark") /\ worker[c].stage # "ready" => Active(worker[c].op)
    /\ worker[c].pc \in {"rollback", "clear"} => Op(c).kind = "create"
    /\ At(c, "finish") /\ ~worker[c].teardown /\ worker[c].outcome = "succeeded" =>
          worker[c].stage = "ready"
    /\ At(c, "finish") /\ ~worker[c].teardown /\ ~Active(worker[c].op) =>
          Op(c).state = worker[c].outcome

RunIsSound == \A c \in ClusterIds : RunSound(c)

\* A stage is worked on only after the ones before it are done.
Before(s, t) ==
    \/ s = "capacity_reservation" /\ t # "capacity_reservation"
    \/ s = "proxmox_api_call" /\ t \in {"automated_verification", "ready"}
    \/ s = "automated_verification" /\ t = "ready"

OnAStage(c) ==
    \/ worker[c].pc \in {"stage", "cloned", "mark"}
    \/ At(c, "finish") /\ ~worker[c].teardown /\ worker[c].outcome = "succeeded"

Ordered(c) ==
    OnAStage(c) =>
        \A s \in Stages : Before(s, worker[c].stage) => StagePassed(worker[c].op, s)

InOrder == \A c \in ClusterIds : Ordered(c)

UnusedIsPending ==
    \A o \in OperationIds : \A s \in Stages :
        operations[o].state = "none" => operation_stages[o][s] = "pending"

\* A failed stage of an operation that goes on is being handled.
Handled(o) == \E c \in ClusterIds : HandlingFailure(c) /\ worker[c].op = o

FailedIsHandled ==
    \A o \in OperationIds : \A s \in Stages :
        operation_stages[o][s] = "failed" /\ Active(o) => Handled(o)

\* The deletion pass works on deletes.
ListedDeletes(c) ==
    /\ worker[c].pending # {} =>
          worker[c].pc \in {"deletions", "destroy", "finish"} /\ worker[c].teardown
    /\ \A d \in worker[c].pending : operations[d.op].kind = "delete" /\ operations[d.op].state # "none"
    /\ worker[c].pc \in {"destroy", "finish"} /\ worker[c].teardown =>
          Op(c).kind = "delete" /\ Op(c).state # "none"

ListedIsDelete == \A c \in ClusterIds : ListedDeletes(c)

StageInv ==
    /\ RunIsSound
    /\ InOrder
    /\ UnusedIsPending
    /\ FailedIsHandled
    /\ ListedIsDelete
    /\ SucceededPassedAll

-----------------------------------------------------------------------------
(* What a step leaves alone.                                               *)

LEMMA StageNames ==
    ASSUME NEW s \in Stages, NEW t \in Stages, Before(s, t)
    PROVE  \E j, k \in 1 .. 4 : j < k /\ STAGE_ORDER[j] = s /\ STAGE_ORDER[k] = t
<1>1. /\ s \in {"capacity_reservation", "proxmox_api_call", "automated_verification", "ready"}
      /\ t \in {"capacity_reservation", "proxmox_api_call", "automated_verification", "ready"}
  BY StagesAre
<1>2. CASE s = "capacity_reservation"
  BY <1>1, <1>2, StagesAre DEF Before
<1>3. CASE s = "proxmox_api_call"
  BY <1>1, <1>3, StagesAre DEF Before
<1>4. CASE s = "automated_verification"
  BY <1>1, <1>4, StagesAre DEF Before
<1> QED
  BY <1>1, <1>2, <1>3, <1>4 DEF Before

\* The run that holds an operation is the one of its cluster.
LEMMA HolderIs ==
    ASSUME SiteTypes, NEW c \in ClusterIds, Holding(c)
    PROVE  /\ worker[c].op \in OperationIds
           /\ operations[worker[c].op].cluster = c /\ c # NoCluster
           /\ \A d \in ClusterIds : Holding(d) /\ worker[d].op = worker[c].op => d = c
<1>1. \A d \in ClusterIds : Holding(d) => worker[d].op \in OperationIds /\ operations[worker[d].op].cluster = d
  BY DEF SiteTypes, KnowsOperation, Holding, Op, At
<1> QED
  BY <1>1, NullsAreNotIds

LEMMA HandlerHolds ==
    ASSUME NEW c \in ClusterIds, HandlingFailure(c)
    PROVE  Holding(c) /\ ~OnAStage(c)
BY DEF HandlingFailure, Holding, FinishingFailure, OnAStage, At

\* What another run holds does not move.
LEMMA OtherRuns ==
    ASSUME SiteTypes, NEW c \in ClusterIds, Moves(c), NEW d \in ClusterIds, d # c, Holding(d)
    PROVE  /\ worker'[d] = worker[d]
           /\ operations'[worker[d].op].kind = operations[worker[d].op].kind
           /\ operations'[worker[d].op].state = operations[worker[d].op].state
           /\ operation_stages'[worker[d].op] = operation_stages[worker[d].op]
<1> DEFINE o == worker[d].op
<1>0. SiteTypeOK
  BY DEF SiteTypes
<1>1. o \in OperationIds /\ operations[o].cluster = d /\ d # NoCluster
  BY HolderIs
<1>2. worker'[d] = worker[d]
  BY <1>0, RunTyped DEF Moves
<1>3. operations'[o].kind = operations[o].kind /\ operations'[o].state = operations[o].state
  BY <1>1, OperationMoves, OthersKnow DEF Moves
<1>4. operation_stages'[o] = operation_stages[o]
  <2>1. ASSUME NEW p \in OperationIds, NEW s \in Stages, NEW status \in Statuses,
               operation_stages' = [operation_stages EXCEPT ![p][s] = status],
               \/ (StartStage(c) \/ MarkDone(c) \/ MarkFailed(c)) /\ p = worker[c].op
               \/ \E e \in ClusterIds : place_next_pending_operation(p, e)
        PROVE  operation_stages'[o] = operation_stages[o]
    <3>1. p # o
      <4>1. CASE StartStage(c) \/ MarkDone(c) \/ MarkFailed(c)
        <5>1. Holding(c)
          BY <4>1 DEF StartStage, MarkDone, MarkFailed, Holding, At
        <5> QED
          BY <5>1, <2>1, <1>1, HolderIs DEF place_next_pending_operation
      <4>2. CASE \E e \in ClusterIds : place_next_pending_operation(p, e)
        BY <4>2, <1>1 DEF place_next_pending_operation
      <4> QED
        BY <2>1, <4>1, <4>2
    <3> QED
      BY <1>0, <1>1, <2>1, <3>1, SiteTyped
  <2> QED
    BY <2>1, <1>1, StageMoves DEF Moves
<1> QED
  BY <1>2, <1>3, <1>4

\* A finish that is answered ends its operation.
LEMMA FinishEnds ==
    ASSUME SiteTypes, NEW c \in ClusterIds, CallFinish(c)
    PROVE  /\ operations'[worker[c].op].state \in Outcomes
           /\ Active(worker[c].op) => operations'[worker[c].op].state = worker[c].outcome
           /\ UNCHANGED <<operation_stages, guests>>
<1> DEFINE o == worker[c].op
<1>1. o \in OperationIds /\ worker[c].outcome \in Outcomes /\ TypeOK
  BY SiteTyped, FinishCalls DEF SiteTypes
<1>2. \/ worker_finish_operation(o, worker[c].outcome, StagePassed(o, "proxmox_api_call"))
      \/ FinishAgain(o, worker[c].outcome)
  BY DEF CallFinish, Finish
<1>3. CASE worker_finish_operation(o, worker[c].outcome, StagePassed(o, "proxmox_api_call"))
  <2>1. operations' = OperationsAfter(o, operations[o].instance, worker[c].outcome)
    BY <1>3 DEF worker_finish_operation
  <2>2. operations'[o].state = worker[c].outcome
    BY <1>1, <2>1 DEF OperationsAfter, TypeOK, OperationRow
  <2> QED
    BY <1>1, <2>2 DEF CallFinish
<1>4. CASE FinishAgain(o, worker[c].outcome)
  BY <1>4 DEF FinishAgain, CallFinish, Active, ActiveStates, Outcomes
<1> QED
  BY <1>2, <1>3, <1>4

\* A finish that throws leaves its operation as it was, and is not the one of
\* a failed stage.
LEMMA ThrowsOnlyActive ==
    ASSUME SiteTypes, FailuresAreTold, NEW c \in ClusterIds, FinishThrows(c), ~worker[c].teardown
    PROVE  Active(worker[c].op) /\ worker[c].outcome = "succeeded" /\ UNCHANGED tables
<1>1. worker[c].outcome \in Outcomes
  BY SiteTyped DEF SiteTypes, WorkerType
<1>2. Op(c).cluster = c
  <2>1. Holding(c)
    BY DEF FinishThrows, Holding
  <2> QED
    BY <2>1, HolderIs DEF Op
<1>3. ~("failure_lost" \in Faults) /\ ~("gives_up" \in Faults)
  BY DEF FailuresAreTold
<1> QED
  BY <1>1, <1>2, <1>3 DEF FinishThrows, FinishIsAccepted, FinishingFailure, Outcomes
-----------------------------------------------------------------------------
(* Each part of the invariant, for the run that moves.                     *)

\* The operation of a run that holds one keeps its state unless it is started
\* or finished.
LEMMA OperationStays ==
    ASSUME SiteTypes, NEW c \in ClusterIds, Moves(c), ~StartStage(c), ~CallFinish(c),
           NEW o \in OperationIds
    PROVE  operations'[o].state = operations[o].state /\ operations'[o].kind = operations[o].kind
BY OperationMoves DEF Moves

LEMMA MoverSound ==
    ASSUME SiteTypes, RunIsSound, FailuresAreTold, NEW c \in ClusterIds, Moves(c)
    PROVE  RunSound(c)'
<1> USE DEF At, Op, Active
<1>0. /\ SiteTypeOK /\ KnowsOperation /\ RunSound(c)
      /\ worker[c].teardown \in BOOLEAN /\ worker[c].outcome \in Outcomes
      /\ worker' \in [ClusterIds -> WorkerType]
  BY SiteTyped, RunTyped DEF SiteTypes, RunIsSound, WorkerType, Moves
<1>1. CASE StartRun(c) \/ Leaves(c)
  BY <1>0, <1>1, StartRunIs, LeavesIs DEF RunSound
<1>2. CASE NextDeletion(c)
  <2>1. worker[c].teardown
    BY <1>0, <1>2 DEF NextDeletion, KnowsOperation
  <2> QED
    BY <1>0, <1>2, <2>1, NextDeletionIs DEF RunSound
<1>3. CASE DestroyThrows(c) \/ DestroyListed(c)
  <2>1. worker[c].teardown
    BY <1>0, <1>3 DEF DestroyThrows, DestroyListed, KnowsOperation
  <2>2. worker'[c].pc = "finish" /\ Kept(c)
    BY <1>0, <1>3, DestroyThrowsIs, GoesOnIs DEF GoesOn
  <2> QED
    BY <2>1, <2>2 DEF RunSound, Kept
<1>4. CASE (\E o \in OperationIds : ListOperation(c, o)) \/ StartStage(c)
  <2>1. worker'[c].pc \in {"listed", "stage"}
    BY <1>0, <1>4, ListOperationIs, StartStageIs
  <2> QED
    BY <2>1 DEF RunSound
<1>5. CASE Clone(c) \/ (GoesOn(c) /\ ~DestroyListed(c))
  <2>1. worker[c].op \in OperationIds /\ Active(worker[c].op)
    BY <1>0, <1>5 DEF Clone, GoesOn, InStage, KnowsOperation, ReserveCapacity, ReserveThrows,
       RecordClone, TakeSnapshot, RollBackGuest, ResizeGuest, Verify, StageThrows
  <2>2. ~StartStage(c) /\ ~CallFinish(c)
    BY <1>5 DEF Clone, GoesOn, InStage, StartStage, CallFinish, ReserveCapacity, ReserveThrows,
       RecordClone, TakeSnapshot, RollBackGuest, ResizeGuest, Verify, StageThrows
  <2>3. operations'[worker[c].op].state = operations[worker[c].op].state
    BY <1>0, <2>1, <2>2, OperationStays DEF Moves
  <2>4. worker'[c].op = worker[c].op /\ worker'[c].pc \in {"cloned", "mark", "failing"}
    BY <1>0, <1>5, CloneIs, GoesOnIs DEF Kept
  <2> QED
    BY <2>1, <2>3, <2>4 DEF RunSound
<1>6. CASE Ready(c)
  <2>1. worker[c].op \in OperationIds /\ Active(worker[c].op) /\ worker[c].stage = "ready"
    BY <1>0, <1>6 DEF Ready, InStage, KnowsOperation
  <2>2. operations'[worker[c].op].state = operations[worker[c].op].state
    BY <1>0, <1>6, <2>1, OperationStays DEF Ready, InStage, StartStage, CallFinish, Moves
  <2> QED
    BY <1>0, <1>6, <2>1, <2>2, ReadyIs DEF RunSound, Kept
<1>7. CASE Compensate(c)
  <2>1. worker[c].pc \in {"failing", "rollback", "clear"}
    BY <1>7 DEF Compensate, MarkFailed, RollBackClone, ClearVmid, RollbackThrows
  <2>2. worker[c].op \in OperationIds /\ Active(worker[c].op)
    BY <1>0, <2>1 DEF RunSound, KnowsOperation
  <2>3. /\ operations'[worker[c].op].state = operations[worker[c].op].state
        /\ operations'[worker[c].op].kind = operations[worker[c].op].kind
    BY <1>0, <2>1, <2>2, OperationStays DEF StartStage, CallFinish, Moves
  <2>4. worker[c].pc \in {"rollback", "clear"} => Op(c).kind = "create"
    BY <1>0 DEF RunSound
  <2>5. RollBackClone(c) => worker[c].pc = "rollback"
    BY DEF RollBackClone
  <2> QED
    BY <1>0, <1>7, <2>2, <2>3, <2>4, <2>5, CompensateIs DEF RunSound, Kept
<1>8. CASE CallFinish(c)
  <2>1. worker[c].pc = "finish"
    BY <1>8 DEF CallFinish
  <2>2. Active(worker[c].op) => operations'[worker[c].op].state = worker[c].outcome
    BY <1>8, FinishEnds
  <2>3. worker[c].op \in OperationIds
    BY <1>0, <2>1 DEF KnowsOperation
  <2>4. ~Active(worker[c].op) => operations'[worker[c].op].state = operations[worker[c].op].state
    BY <2>1, <2>3, OperationMoves DEF Moves
  <2>5. CASE worker' = worker
    BY <1>0, <2>1, <2>2, <2>4, <2>5 DEF RunSound
  <2>6. CASE /\ ~worker[c].teardown /\ worker[c].outcome = "succeeded"
             /\ worker'[c].pc = "mark" /\ worker'[c].stage = worker[c].stage
    BY <1>0, <2>1, <2>6 DEF RunSound
  <2>7. CASE worker'[c].pc \in {"deletions", "loop", "idle"}
    BY <2>7 DEF RunSound
  <2>8. ~FinishThrows(c) \/ worker'[c].pc \in {"deletions", "loop", "idle"} \/ worker' = worker
           \/ worker'[c].pc = "mark"
    BY <1>0, <1>8, AfterFinishIs, NextDeletions, Looped, WentTo
       DEF CallFinish, ProgramPoints, Outcomes
  <2> QED
    BY <1>0, <1>8, <2>5, <2>6, <2>7, <2>8, FinishesIs DEF Finishes
<1>9. CASE FinishThrows(c)
  <2>1. worker[c].pc = "finish" /\ worker[c].op \in OperationIds
    BY <1>0, <1>9 DEF FinishThrows, KnowsOperation
  <2>2. ~worker[c].teardown => Active(worker[c].op) /\ UNCHANGED tables
    BY <1>9, ThrowsOnlyActive
  <2>3. CASE /\ ~worker[c].teardown /\ worker'[c].pc = "failing" /\ Kept(c)
    BY <2>1, <2>2, <2>3 DEF RunSound, Kept, tables
  <2>4. CASE worker[c].teardown /\ worker'[c].pc = "finish" /\ Kept(c)
    BY <2>4 DEF RunSound, Kept
  <2>5. CASE worker'[c].pc \in {"deletions", "loop", "idle"}
    BY <2>5 DEF RunSound
  <2>6. CASE CallFinish(c)
    BY <1>8, <2>6
  <2> QED
    BY <1>0, <1>9, <2>3, <2>4, <2>5, <2>6, FinishesIs DEF Finishes
<1>10. CASE Claim(c)
  <2>1. worker[c].pc = "loop" /\ UNCHANGED worker
    BY <1>10 DEF Claim
  <2> QED
    BY <2>1 DEF RunSound
<1> QED
  BY <1>1, <1>2, <1>3, <1>4, <1>5, <1>6, <1>7, <1>8, <1>9, <1>10, WorkCases DEF Moves, Finishes

LEMMA SoundNext ==
    ASSUME SiteTypes, RunIsSound, FailuresAreTold, NEW c \in ClusterIds, Moves(c)
    PROVE  RunIsSound'
<1>1. ASSUME NEW d \in ClusterIds, d # c
      PROVE  RunSound(d)'
  <2>1. worker'[d] = worker[d]
    BY <1>1, RunTyped DEF Moves, SiteTypes
  <2>2. RunSound(d)
    BY DEF RunIsSound
  <2>3. CASE Holding(d)
    BY <1>1, <2>1, <2>2, <2>3, OtherRuns DEF RunSound, At, Op, Active
  <2>4. CASE ~Holding(d)
    BY <2>1, <2>4 DEF Holding, RunSound, At
  <2> QED
    BY <2>3, <2>4
<1> QED
  BY <1>1, MoverSound DEF RunIsSound
\* How one stage of one operation changes.
LEMMA StageMoved ==
    ASSUME SiteTypes, NEW c \in ClusterIds, Moves(c), NEW o \in OperationIds, NEW s \in Stages
    PROVE  \/ operation_stages'[o][s] = operation_stages[o][s]
           \/ /\ StartStage(c) /\ o = worker[c].op /\ s = NextStage(o)
              /\ operation_stages'[o][s] = "active"
           \/ /\ MarkDone(c) /\ o = worker[c].op /\ s = worker[c].stage
              /\ operation_stages'[o][s] = "done"
           \/ /\ MarkFailed(c) /\ o = worker[c].op /\ s = worker[c].stage
              /\ operation_stages'[o][s] = "failed"
           \/ /\ s = "capacity_reservation" /\ operation_stages'[o][s] = "done"
              /\ operations[o].cluster = NoCluster /\ operations[o].state = "pending"
<1>0. operation_stages \in [OperationIds -> [Stages -> Statuses]]
  BY SiteTyped DEF SiteTypes
<1>1. CASE UNCHANGED operation_stages
  BY <1>1
<1>2. ASSUME NEW p \in OperationIds, NEW t \in Stages, NEW status \in Statuses,
             operation_stages' = [operation_stages EXCEPT ![p][t] = status],
             \/ StartStage(c) /\ p = worker[c].op /\ t = NextStage(p) /\ status = "active"
             \/ MarkDone(c) /\ p = worker[c].op /\ t = worker[c].stage /\ status = "done"
             \/ MarkFailed(c) /\ p = worker[c].op /\ t = worker[c].stage /\ status = "failed"
             \/ /\ t = "capacity_reservation" /\ status = "done"
                /\ \E d \in ClusterIds : place_next_pending_operation(p, d)
      PROVE  \/ operation_stages'[o][s] = operation_stages[o][s]
             \/ /\ StartStage(c) /\ o = worker[c].op /\ s = NextStage(o)
                /\ operation_stages'[o][s] = "active"
             \/ /\ MarkDone(c) /\ o = worker[c].op /\ s = worker[c].stage
                /\ operation_stages'[o][s] = "done"
             \/ /\ MarkFailed(c) /\ o = worker[c].op /\ s = worker[c].stage
                /\ operation_stages'[o][s] = "failed"
             \/ /\ s = "capacity_reservation" /\ operation_stages'[o][s] = "done"
                /\ operations[o].cluster = NoCluster /\ operations[o].state = "pending"
  <2>1. operation_stages'[o][s] = IF o = p /\ s = t THEN status ELSE operation_stages[o][s]
    BY <1>0, <1>2
  <2>2. CASE o = p /\ s = t
    BY <1>2, <2>1, <2>2 DEF place_next_pending_operation
  <2> QED
    BY <2>1, <2>2
<1> QED
  BY <1>1, <1>2, StageMoves DEF Moves

\* A run takes up the first stage that is open: the ones before it are done,
\* since a failed one would still be handled by this very run.
LEMMA EarlierAreDone ==
    ASSUME SiteTypes, FailedIsHandled, NEW c \in ClusterIds, StartStage(c), NEW s \in Stages,
           Before(s, NextStage(worker[c].op))
    PROVE  operation_stages[worker[c].op][s] = "done" /\ s # NextStage(worker[c].op)
<1> DEFINE o == worker[c].op
           t == NextStage(o)
<1>0. operation_stages \in [OperationIds -> [Stages -> Statuses]]
  BY SiteTyped DEF SiteTypes
<1>1. At(c, "listed") /\ Holding(c) /\ OpenStages(o) # {}
  BY DEF StartStage, Holding, At
<1>2. o \in OperationIds /\ Active(o)
  BY <1>1 DEF SiteTypes, KnowsOperation, At
<1>3. /\ t \in Stages
      /\ \A k \in 1 .. 4 : STAGE_ORDER[k] = t =>
            \A j \in 1 .. 4 : j < k =>
                operation_stages[o][STAGE_ORDER[j]] \notin {"pending", "active"}
  BY <1>1, NextStageIs
<1> HIDE DEF t
<1>4. operation_stages[o][s] \notin {"pending", "active"}
  BY <1>3, StageNames DEF t
<1>5. operation_stages[o][s] # "failed"
  <2>1. SUFFICES ASSUME operation_stages[o][s] = "failed"
                 PROVE  FALSE
    OBVIOUS
  <2>2. PICK d \in ClusterIds : HandlingFailure(d) /\ worker[d].op = o
    BY <1>2, <2>1 DEF FailedIsHandled, Handled
  <2>3. d = c
    BY <2>2, <1>1, HolderIs, HandlerHolds
  <2> QED
    BY <1>1, <2>2, <2>3 DEF HandlingFailure, At
<1>6. s # t
  BY <1>3 DEF Before, t
<1> QED
  BY <1>0, <1>2, <1>4, <1>5, <1>6 DEF Statuses, t

LEMMA MoverOrdered ==
    ASSUME SiteTypes, RunIsSound, InOrder, FailedIsHandled, FailuresAreTold,
           NEW c \in ClusterIds, Moves(c)
    PROVE  Ordered(c)'
<1> USE DEF At
<1>0. /\ SiteTypeOK /\ KnowsOperation /\ RunSound(c) /\ Ordered(c)
      /\ worker[c].teardown \in BOOLEAN /\ worker[c].outcome \in Outcomes
      /\ worker' \in [ClusterIds -> WorkerType]
  BY SiteTyped, RunTyped DEF SiteTypes, RunIsSound, InOrder, WorkerType, Moves
<1>1. SUFFICES ASSUME OnAStage(c)', NEW s \in Stages, Before(s, worker'[c].stage)
               PROVE  operation_stages'[worker'[c].op][s] = "done"
  BY DEF Ordered, StagePassed
<1>2. CASE StartStage(c)
  <2>1. worker'[c].op = worker[c].op /\ worker'[c].stage = NextStage(worker[c].op)
    BY <1>0, <1>2, StartStageIs DEF Kept
  <2>2. operation_stages[worker[c].op][s] = "done" /\ s # NextStage(worker[c].op)
    BY <1>1, <1>2, <2>1, EarlierAreDone
  <2>3. worker[c].op \in OperationIds
    BY <1>0, <1>2 DEF StartStage, KnowsOperation
  <2>4. ~MarkFailed(c) /\ ~MarkDone(c)
    BY <1>2 DEF StartStage, MarkFailed, MarkDone
  <2> QED
    BY <2>1, <2>2, <2>3, <2>4, StageMoved
<1>3. ASSUME OnAStage(c), worker'[c].op = worker[c].op, worker'[c].stage = worker[c].stage,
             ~StartStage(c), ~MarkFailed(c)
      PROVE  operation_stages'[worker'[c].op][s] = "done"
  <2>1. operation_stages[worker[c].op][s] = "done"
    BY <1>0, <1>1, <1>3 DEF Ordered, StagePassed
  <2>2. worker[c].op \in OperationIds
    BY <1>0, <1>3 DEF OnAStage, KnowsOperation
  <2> QED
    BY <1>3, <2>1, <2>2, StageMoved
<1>4. CASE Clone(c) \/ Ready(c) \/ (GoesOn(c) /\ ~DestroyListed(c))
  <2>1. worker[c].pc \in {"stage", "cloned"}
    BY <1>4 DEF Clone, Ready, GoesOn, InStage, ReserveCapacity, ReserveThrows, RecordClone,
       TakeSnapshot, RollBackGuest, ResizeGuest, Verify, StageThrows
  <2>2. worker'[c].op = worker[c].op /\ worker'[c].stage = worker[c].stage
    BY <1>0, <1>4, CloneIs, ReadyIs, GoesOnIs DEF Kept
  <2> QED
    BY <1>3, <2>1, <2>2 DEF OnAStage, StartStage, MarkFailed
<1>5. CASE CallFinish(c)
  <2>1. worker[c].pc = "finish"
    BY <1>5 DEF CallFinish
  <2>2. CASE worker' = worker
    BY <1>1, <1>3, <2>1, <2>2 DEF OnAStage, StartStage, MarkFailed
  <2>3. CASE /\ ~worker[c].teardown /\ worker[c].outcome = "succeeded" /\ Kept(c)
             /\ worker'[c].stage = worker[c].stage
    BY <1>3, <2>1, <2>3 DEF OnAStage, StartStage, MarkFailed, Kept
  <2>4. CASE worker'[c].pc \in {"deletions", "loop", "idle"}
    BY <1>1, <2>4 DEF OnAStage
  <2> QED
    BY <1>0, <1>5, <2>2, <2>3, <2>4, AfterFinishIs, NextDeletions, Looped, WentTo
       DEF CallFinish, ProgramPoints, Outcomes
<1>6. CASE FinishThrows(c)
  <2>1. worker[c].pc = "finish"
    BY <1>6 DEF FinishThrows
  <2>2. ~CallFinish(c) \/ CallFinish(c)
    OBVIOUS
  <2>3. CASE worker'[c].pc \in {"deletions", "loop", "idle", "failing"}
    BY <1>1, <2>3 DEF OnAStage
  <2>4. CASE worker[c].teardown /\ worker'[c].pc = "finish" /\ Kept(c)
    BY <1>1, <2>4 DEF OnAStage, Kept
  <2>5. CASE CallFinish(c)
    BY <1>5, <2>5
  <2> QED
    BY <1>0, <1>6, <2>3, <2>4, <2>5, FinishesIs DEF Finishes
<1>7. CASE StartRun(c) \/ Leaves(c) \/ Claim(c) \/ \E o \in OperationIds : ListOperation(c, o)
  <2>1. Claim(c) => worker'[c].pc = "loop"
    BY DEF Claim
  <2>2. worker'[c].pc \in {"deletions", "loop", "idle", "listed"}
    BY <1>0, <1>7, <2>1, StartRunIs, LeavesIs, ListOperationIs
  <2> QED
    BY <1>1, <2>2 DEF OnAStage
<1>8. CASE NextDeletion(c) \/ DestroyThrows(c) \/ DestroyListed(c)
  <2>1. worker[c].teardown
    BY <1>0, <1>8 DEF NextDeletion, DestroyThrows, DestroyListed, KnowsOperation
  <2>2. worker'[c].pc \in {"destroy", "finish"} /\ worker'[c].teardown
    BY <1>0, <1>8, <2>1, NextDeletionIs, DestroyThrowsIs, GoesOnIs DEF GoesOn, Kept
  <2> QED
    BY <1>1, <2>2 DEF OnAStage
<1>9. CASE Compensate(c)
  <2>1. \/ worker'[c].pc \in {"rollback", "clear"}
        \/ worker'[c].pc = "finish" /\ worker'[c].outcome = "failed"
    BY <1>0, <1>9, CompensateIs
  <2> QED
    BY <1>1, <2>1 DEF OnAStage
<1> QED
  BY <1>2, <1>4, <1>5, <1>6, <1>7, <1>8, <1>9, WorkCases DEF Moves, Finishes

LEMMA OrderNext ==
    ASSUME SiteTypes, RunIsSound, InOrder, FailedIsHandled, FailuresAreTold,
           NEW c \in ClusterIds, Moves(c)
    PROVE  InOrder'
<1>1. ASSUME NEW d \in ClusterIds, d # c
      PROVE  Ordered(d)'
  <2>1. worker'[d] = worker[d]
    BY <1>1, RunTyped DEF Moves, SiteTypes
  <2>2. Ordered(d)
    BY DEF InOrder
  <2>3. CASE OnAStage(d)
    <3>1. Holding(d)
      BY <2>3 DEF OnAStage, Holding, At
    <3> QED
      BY <1>1, <2>1, <2>2, <2>3, <3>1, OtherRuns DEF Ordered, StagePassed, OnAStage, At
  <2>4. CASE ~OnAStage(d)
    BY <2>1, <2>4 DEF Ordered, OnAStage, At
  <2> QED
    BY <2>3, <2>4
<1> QED
  BY <1>1, MoverOrdered DEF InOrder

\* What has been requested stays requested, and a run holds nothing else.
LEMMA HeldIsUsed ==
    ASSUME SiteTypes, NEW c \in ClusterIds, Holding(c)
    PROVE  worker[c].op \in OperationIds /\ operations[worker[c].op].state # "none"
BY HolderIs DEF SiteTypes, UnusedIsUnplaced

LEMMA UsedStays ==
    ASSUME SiteTypes, NEW c \in ClusterIds, Moves(c), NEW o \in OperationIds
    PROVE  /\ operations'[o].kind = operations[o].kind
           /\ operations'[o].state = "none" <=> operations[o].state = "none"
<1>1. worker[c].outcome # "none"
  BY SiteTyped DEF SiteTypes, WorkerType, Outcomes
<1>2. /\ operations'[o].kind = operations[o].kind
      /\ \/ operations'[o].state = operations[o].state
         \/ Active(o) /\ operations'[o].state = "running"
         \/ Active(o) /\ operations'[o].state = worker[c].outcome
  BY OperationMoves DEF Moves
<1> QED
  BY <1>1, <1>2 DEF Active, ActiveStates

LEMMA UnusedPendingMoves ==
    ASSUME SiteTypes, UnusedIsPending, NEW c \in ClusterIds, Moves(c)
    PROVE  UnusedIsPending'
<1> SUFFICES ASSUME NEW o \in OperationIds, NEW s \in Stages, operations'[o].state = "none"
             PROVE  operation_stages'[o][s] = "pending"
  BY DEF UnusedIsPending
<1>1. operations[o].state = "none" /\ operation_stages[o][s] = "pending"
  BY UsedStays DEF UnusedIsPending
<1>2. StartStage(c) \/ MarkDone(c) \/ MarkFailed(c) => Holding(c)
  BY DEF StartStage, MarkDone, MarkFailed, Holding, At
<1> QED
  BY <1>1, <1>2, StageMoved, HeldIsUsed

\* A failed stage is handled to its end.
LEMMA HandlingGoesOn ==
    ASSUME FailuresAreTold, NEW c \in ClusterIds, HandlingFailure(c), Moves(c)
    PROVE  Compensate(c) \/ CallFinish(c) \/ FinishThrows(c)
<1>1. worker[c].pc \in {"failing", "rollback", "clear", "finish"}
  BY DEF HandlingFailure, At
<1>2. ~Claim(c) /\ ~EndRun(c) /\ ~DeletionPass(c)
  BY <1>1 DEF Claim, EndRun, DeletionPass, StartRun, NextDeletion, DestroyListed, DestroyThrows,
     EndDeletions, At
<1>3. ~OneStage(c)
  BY <1>1 DEF OneStage, ListOperation, StartStage, NoPendingStage, ReserveCapacity, ReserveThrows,
     Clone, RecordClone, TakeSnapshot, RollBackGuest, ResizeGuest, Verify, VerifyLater,
     StageThrows,
     Ready, MarkDone, InStage, At
<1>4. ~Crash(c)
  <2>1. ~("handler_crash" \in Faults)
    BY DEF FailuresAreTold
  <2>2. ~Cloning(c)
    BY <1>1 DEF Cloning
  <2> QED
    BY <2>1, <2>2 DEF Crash
<1> QED
  BY <1>2, <1>3, <1>4 DEF Moves, Work

LEMMA CompensationHandles ==
    ASSUME SiteTypes, NEW c \in ClusterIds, Compensate(c)
    PROVE  HandlingFailure(c)' /\ worker'[c].op = worker[c].op
<1>1. worker[c].pc \in {"failing", "rollback", "clear"}
  BY DEF Compensate, MarkFailed, RollBackClone, ClearVmid, RollbackThrows, At
<1>2. ~worker[c].teardown
  BY <1>1 DEF SiteTypes, KnowsOperation
<1> QED
  BY <1>2, CompensateIs DEF SiteTypes, HandlingFailure, FinishingFailure, Kept, At

LEMMA HandledStays ==
    ASSUME SiteTypes, FailuresAreTold, NEW c \in ClusterIds, Moves(c), NEW o \in OperationIds,
           Handled(o), operations'[o].state \in ActiveStates
    PROVE  Handled(o)'
<1>1. PICK d \in ClusterIds : HandlingFailure(d) /\ worker[d].op = o
  BY DEF Handled
<1>2. CASE d # c
  BY <1>1, <1>2, HandlerHolds, OtherRuns DEF Handled, HandlingFailure, FinishingFailure, At
<1>3. CASE d = c
  <2>1. ~CallFinish(c)
    BY <1>1, <1>3, FinishEnds DEF ActiveStates, Outcomes
  <2>2. ~FinishThrows(c)
    <3>1. FinishThrows(c) => FinishingFailure(c)
      BY <1>1, <1>3 DEF FinishThrows, HandlingFailure, At
    <3> QED
      BY <3>1, ThrowsOnlyActive DEF FinishingFailure
  <2> QED
    BY <1>1, <1>3, <2>1, <2>2, HandlingGoesOn, CompensationHandles DEF Handled
<1> QED
  BY <1>2, <1>3

LEMMA HandledMoves ==
    ASSUME SiteTypes, FailedIsHandled, FailuresAreTold, NEW c \in ClusterIds, Moves(c)
    PROVE  FailedIsHandled'
<1> SUFFICES ASSUME NEW o \in OperationIds, NEW s \in Stages, operation_stages'[o][s] = "failed",
                    operations'[o].state \in ActiveStates
             PROVE  Handled(o)'
  BY DEF FailedIsHandled, Active
<1>1. Active(o)
  BY OperationMoves DEF Moves, Active, ActiveStates
<1>2. CASE operation_stages[o][s] = "failed"
  BY <1>1, <1>2, HandledStays DEF FailedIsHandled
<1>3. CASE operation_stages[o][s] # "failed"
  <2>1. MarkFailed(c) /\ o = worker[c].op
    BY <1>3, StageMoved
  <2> QED
    BY <2>1, CompensationHandles DEF Compensate, Handled
<1> QED
  BY <1>2, <1>3

LEMMA MoverListed ==
    ASSUME SiteTypes, ListedIsDelete, NEW c \in ClusterIds, Moves(c)
    PROVE  ListedDeletes(c)'
<1> USE DEF At, Op
<1>0. /\ SiteTypeOK /\ KnowsOperation /\ ListedDeletes(c) /\ worker[c].teardown \in BOOLEAN
      /\ worker[c].pending \in SUBSET Deletion
      /\ worker' \in [ClusterIds -> WorkerType]
  BY SiteTyped, RunTyped DEF SiteTypes, ListedIsDelete, WorkerType, Moves
<1>1. \A o \in OperationIds : operations[o].kind = "delete" /\ operations[o].state # "none" =>
          operations'[o].kind = "delete" /\ operations'[o].state # "none"
  BY UsedStays
<1>2. \A d \in Deletion : d.op \in OperationIds
  BY DEF Deletion
<1>3. CASE StartRun(c)
  <2>1. \A d \in PendingDeletions(c) :
            d \in Deletion /\ operations[d.op].kind = "delete" /\ operations[d.op].state # "none"
    BY DEF PendingDeletions, Active, ActiveStates
  <2> QED
    BY <1>0, <1>1, <1>2, <1>3, <2>1, StartRunIs DEF ListedDeletes
<1>4. CASE NextDeletion(c)
  <2>1. worker[c].teardown
    BY <1>0, <1>4 DEF NextDeletion, KnowsOperation
  <2>2. PICK d \in worker[c].pending :
            /\ d \in Deletion /\ worker'[c].op = d.op /\ worker'[c].teardown = worker[c].teardown
            /\ worker'[c].pending = worker[c].pending \ {d}
            /\ worker'[c].pc \in {"finish", "destroy"}
    BY <1>0, <1>4, NextDeletionIs
  <2> QED
    BY <1>0, <1>1, <1>2, <2>1, <2>2 DEF ListedDeletes
<1>5. CASE DestroyThrows(c) \/ DestroyListed(c)
  <2>1. worker[c].pc = "destroy" /\ worker[c].teardown /\ worker[c].op \in OperationIds
    BY <1>0, <1>5 DEF DestroyThrows, DestroyListed, KnowsOperation
  <2>2. worker'[c].pc = "finish" /\ Kept(c)
    BY <1>0, <1>5, DestroyThrowsIs, GoesOnIs DEF GoesOn
  <2> QED
    BY <1>0, <1>1, <1>2, <2>1, <2>2 DEF ListedDeletes, Kept
<1>6. ASSUME ~worker[c].teardown, worker'[c].teardown = worker[c].teardown,
             worker'[c].pending = worker[c].pending
      PROVE  ListedDeletes(c)'
  BY <1>0, <1>6 DEF ListedDeletes
<1>7. CASE (\E o \in OperationIds : ListOperation(c, o)) \/ StartStage(c) \/ Clone(c)
  <2>1. ~worker[c].teardown
    BY <1>0, <1>7 DEF ListOperation, StartStage, Clone, InStage, KnowsOperation
  <2> QED
    BY <1>0, <1>6, <1>7, <2>1, ListOperationIs, StartStageIs, CloneIs DEF Kept
<1>8. CASE Ready(c) \/ Compensate(c) \/ (GoesOn(c) /\ ~DestroyListed(c))
  <2>1. ~worker[c].teardown
    BY <1>0, <1>8 DEF Ready, Compensate, GoesOn, InStage, KnowsOperation, ReserveCapacity,
       ReserveThrows, RecordClone, TakeSnapshot, RollBackGuest, ResizeGuest, Verify, StageThrows,
       MarkFailed, RollBackClone, ClearVmid, RollbackThrows
  <2> QED
    BY <1>0, <1>6, <1>8, <2>1, ReadyIs, CompensateIs, GoesOnIs DEF Kept
<1>9. CASE Leaves(c)
  BY <1>0, <1>9, LeavesIs DEF ListedDeletes
<1>10. CASE Claim(c)
  <2>1. worker' = worker /\ worker[c].pc = "loop"
    BY <1>10 DEF Claim
  <2> QED
    BY <1>0, <1>6, <2>1 DEF KnowsOperation
<1>11. CASE Finishes(c)
  <2>1. worker[c].pc = "finish" /\ worker[c].op \in OperationIds
    BY <1>0, <1>11 DEF Finishes, CallFinish, FinishThrows, KnowsOperation
  <2>2. CASE worker' = worker
    BY <1>0, <1>1, <1>2, <2>1, <2>2 DEF ListedDeletes
  <2>3. CASE worker[c].teardown /\ worker'[c].pc = "deletions" /\ worker'[c].teardown
             /\ worker'[c].pending = worker[c].pending
    BY <1>0, <1>1, <1>2, <2>3 DEF ListedDeletes
  <2>4. CASE worker'[c].pc \in {"loop", "idle"} /\ worker'[c].pending = {}
    BY <2>4 DEF ListedDeletes
  <2>5. CASE worker[c].teardown /\ worker'[c].pc = "finish" /\ Kept(c)
    BY <1>0, <1>1, <1>2, <2>1, <2>5 DEF ListedDeletes, Kept
  <2>6. CASE ~worker[c].teardown /\ Kept(c)
    BY <1>6, <2>6 DEF Kept
  <2> QED
    BY <1>0, <1>11, <2>2, <2>3, <2>4, <2>5, <2>6, FinishesIs
<1> QED
  BY <1>3, <1>4, <1>5, <1>7, <1>8, <1>9, <1>10, <1>11, WorkCases DEF Moves

LEMMA ListedMoves ==
    ASSUME SiteTypes, ListedIsDelete, NEW c \in ClusterIds, Moves(c)
    PROVE  ListedIsDelete'
<1>1. ASSUME NEW d \in ClusterIds, d # c
      PROVE  ListedDeletes(d)'
  <2>1. worker'[d] = worker[d]
    BY <1>1, RunTyped DEF Moves, SiteTypes
  <2>2. /\ ListedDeletes(d)
        /\ worker[d].pc \in {"destroy", "finish"} => worker[d].op \in OperationIds
        /\ \A x \in worker[d].pending : x.op \in OperationIds
    BY SiteTyped DEF ListedIsDelete, SiteTypes, KnowsOperation, WorkerType, Deletion
  <2>3. \A o \in OperationIds : operations[o].kind = "delete" /\ operations[o].state # "none" =>
            operations'[o].kind = "delete" /\ operations'[o].state # "none"
    BY UsedStays
  <2> QED
    BY <2>1, <2>2, <2>3 DEF ListedDeletes, Op
<1> QED
  BY <1>1, MoverListed DEF ListedIsDelete

LEMMA SuccessMoves ==
    ASSUME SiteTypes, StageInv, NEW c \in ClusterIds, Moves(c)
    PROVE  SucceededPassedAll'
<1> SUFFICES ASSUME NEW o \in OperationIds, NEW s \in Stages \ {"ready"},
                    operations'[o].state = "succeeded", operations'[o].kind # "delete"
             PROVE  operation_stages'[o][s] = "done"
  BY DEF SucceededPassedAll, StagePassed
<1>0. /\ operations[o].kind # "delete" /\ RunSound(c) /\ Ordered(c) /\ ListedDeletes(c)
      /\ KnowsOperation
  BY UsedStays DEF StageInv, RunIsSound, InOrder, ListedIsDelete, SiteTypes
<1>1. CASE operations[o].state = "succeeded"
  <2>1. operation_stages[o][s] = "done"
    BY <1>0, <1>1 DEF StageInv, SucceededPassedAll, StagePassed
  <2>2. ~Active(o)
    BY <1>1 DEF Active, ActiveStates
  <2>3. StartStage(c) \/ MarkFailed(c) => Active(worker[c].op)
    BY <1>0 DEF StartStage, MarkFailed, At, KnowsOperation, RunSound
  <2> QED
    BY <2>1, <2>2, <2>3, StageMoved
<1>2. CASE operations[o].state # "succeeded"
  <2>1. CallFinish(c) /\ o = worker[c].op /\ worker[c].outcome = "succeeded" /\ Active(o)
    BY <1>2, OperationMoves DEF Moves
  <2>2. At(c, "finish") /\ ~worker[c].teardown
    BY <1>0, <2>1 DEF CallFinish, At, ListedDeletes, Op
  <2>3. worker[c].stage = "ready"
    BY <1>0, <2>1, <2>2 DEF RunSound
  <2>4. Before(s, "ready")
    BY StagesAre DEF Before
  <2>5. operation_stages[o][s] = "done"
    BY <1>0, <2>1, <2>2, <2>3, <2>4 DEF Ordered, OnAStage, StagePassed
  <2> QED
    BY <2>1, <2>5, FinishEnds
<1> QED
  BY <1>1, <1>2

LEMMA StageInvMoves ==
    ASSUME SiteTypes, StageInv, FailuresAreTold, NEW c \in ClusterIds, Moves(c)
    PROVE  StageInv'
<1>1. RunIsSound'
  BY SoundNext DEF StageInv
<1>2. InOrder'
  BY OrderNext DEF StageInv
<1>3. UnusedIsPending'
  BY UnusedPendingMoves DEF StageInv
<1>4. FailedIsHandled'
  BY HandledMoves DEF StageInv
<1>5. ListedIsDelete'
  BY ListedMoves DEF StageInv
<1>6. SucceededPassedAll'
  BY SuccessMoves
<1> QED
  BY <1>1, <1>2, <1>3, <1>4, <1>5, <1>6 DEF StageInv

\* A request is of an operation that no run knows.
LEMMA StageInvRequest ==
    ASSUME SiteTypes, StageInv, NEW q \in OperationIds, SiteRequest(q)
    PROVE  StageInv'
<1>1. worker' = worker /\ operation_stages' = operation_stages
  BY DEF SiteRequest, siteVars
<1>2. /\ operations[q].state = "none" /\ operations'[q].state = "pending"
      /\ \A o \in OperationIds : operations[o].state # "none" => operations'[o] = operations[o]
      /\ \A o \in OperationIds : o # q => operations'[o] = operations[o]
  BY RequestMade
<1>3. \A c \in ClusterIds : Holding(c) =>
          worker[c].op \in OperationIds /\ operations[worker[c].op].state # "none"
  BY HeldIsUsed
<1>4. RunIsSound'
  <2> SUFFICES ASSUME NEW c \in ClusterIds PROVE RunSound(c)'
    BY DEF RunIsSound
  <2>1. RunSound(c)
    BY DEF StageInv, RunIsSound
  <2>2. CASE Holding(c)
    BY <1>1, <1>2, <1>3, <2>1, <2>2 DEF RunSound, At, Op, Active
  <2>3. CASE ~Holding(c)
    BY <1>1, <2>3 DEF RunSound, Holding, At
  <2> QED
    BY <2>2, <2>3
<1>5. InOrder'
  BY <1>1 DEF StageInv, InOrder, Ordered, OnAStage, StagePassed, At
<1>6. UnusedIsPending'
  BY <1>1, <1>2 DEF StageInv, UnusedIsPending
<1>7. FailedIsHandled'
  <2> SUFFICES ASSUME NEW o \in OperationIds, NEW s \in Stages, operation_stages'[o][s] = "failed",
                      operations'[o].state \in ActiveStates
               PROVE  Handled(o)'
    BY DEF FailedIsHandled, Active
  <2>1. operation_stages[o][s] = "failed" /\ o # q
    BY <1>1, <1>2 DEF StageInv, UnusedIsPending
  <2>2. Active(o)
    BY <1>2, <2>1 DEF Active
  <2> QED
    BY <1>1, <2>1, <2>2
       DEF StageInv, FailedIsHandled, Handled, HandlingFailure, FinishingFailure, At
<1>8. ListedIsDelete'
  <2> SUFFICES ASSUME NEW c \in ClusterIds PROVE ListedDeletes(c)'
    BY DEF ListedIsDelete
  <2>1. ListedDeletes(c) /\ (worker[c].pc \in {"destroy", "finish"} => worker[c].op \in OperationIds)
    BY DEF StageInv, ListedIsDelete, SiteTypes, KnowsOperation
  <2>2. \A d \in worker[c].pending : d.op \in OperationIds
    BY SiteTyped DEF SiteTypes, WorkerType, Deletion
  <2> QED
    BY <1>1, <1>2, <2>1, <2>2 DEF ListedDeletes, Op
<1>9. SucceededPassedAll'
  BY <1>1, <1>2 DEF StageInv, SucceededPassedAll, StagePassed
<1> QED
  BY <1>4, <1>5, <1>6, <1>7, <1>8, <1>9 DEF StageInv

LEMMA StageInvStutter ==
    ASSUME StageInv, UNCHANGED vars
    PROVE  StageInv'
<1>1. /\ worker' = worker /\ operation_stages' = operation_stages /\ operations' = operations
      /\ guests' = guests /\ proxmox_vmid' = proxmox_vmid
  BY DEF vars, tables, siteVars
<1>2. RunIsSound' /\ InOrder'
  BY <1>1
     DEF StageInv, RunIsSound, RunSound, InOrder, Ordered, OnAStage, StagePassed, At, Op, Active
<1>3. UnusedIsPending' /\ SucceededPassedAll'
  BY <1>1 DEF StageInv, UnusedIsPending, SucceededPassedAll, StagePassed
<1>4. FailedIsHandled'
  BY <1>1 DEF StageInv, FailedIsHandled, Handled, HandlingFailure, FinishingFailure, At, Active
<1>5. ListedIsDelete'
  BY <1>1 DEF StageInv, ListedIsDelete, ListedDeletes, Op
<1> QED
  BY <1>2, <1>3, <1>4, <1>5 DEF StageInv

LEMMA StageInvInit == SiteInit => StageInv
<1> SUFFICES ASSUME SiteInit PROVE StageInv
  OBVIOUS
<1>1. \A c \in ClusterIds : worker[c].pc = "idle" /\ ~worker[c].teardown /\ worker[c].pending = {}
  BY IdleTyped DEF SiteInit
<1>2. \A o \in OperationIds : /\ operations[o].state = "none"
                              /\ \A s \in Stages : operation_stages[o][s] = "pending"
  BY DEF SiteInit, Init, NoOperationRow
<1>3. RunIsSound /\ InOrder /\ ListedIsDelete
  BY <1>1 DEF RunIsSound, RunSound, InOrder, Ordered, OnAStage, ListedIsDelete, ListedDeletes, At
<1>4. UnusedIsPending /\ FailedIsHandled /\ SucceededPassedAll
  BY <1>2 DEF UnusedIsPending, FailedIsHandled, SucceededPassedAll
<1> QED
  BY <1>3, <1>4 DEF StageInv

LEMMA StageInvNext ==
    ASSUME FailuresAreTold
    PROVE  SiteTypes /\ StageInv /\ [SiteNext]_vars => StageInv'
BY StageInvMoves, StageInvRequest, StageInvStutter DEF SiteNext, Moves

LEMMA StageInvHolds ==
    ASSUME FailuresAreTold
    PROVE  SiteSpec => []StageInv
<1>1. SiteTypes /\ StageInv /\ [SiteNext]_vars => StageInv'
  BY StageInvNext
<1> QED
  BY <1>1, StageInvInit, SiteTypesHold, PTL DEF SiteSpec

\* An operation reported as succeeded has passed every stage: a run resumes at
\* the first stage that is not done, wherever the one before it was killed and
\* whichever marks were lost, and never passes over a failed one
\* (deploy/site-worker/index.js:1463-1475, 2282-2296).
THEOREM SuccessIsComplete ==
    ASSUME FailuresAreTold
    PROVE  SiteSpec => []SucceededPassedAll
<1>1. StageInv => SucceededPassedAll
  BY DEF StageInv
<1> QED
  BY <1>1, StageInvHolds, PTL

-----------------------------------------------------------------------------
(* The inductive invariant of the guests.                                  *)

Ending == {"deleting", "delete_failed"}

\* The state of an instance while an operation on it is under way, ...
BusyAsAsked ==
    \A o \in OperationIds : Active(o) =>
        /\ operations[o].kind = "create" => instances[operations[o].instance].state = "provisioning"
        /\ operations[o].kind = "delete" => instances[operations[o].instance].state = "deleting"
        /\ operations[o].kind \in {"snapshot", "resize", "restore_replace"} =>
              instances[operations[o].instance].state \in Live

\* ... after its create, and while it has a recovery point.
CreateTold ==
    \A o \in OperationIds : operations[o].kind = "create" /\ operations[o].instance # NoInstance =>
        /\ operations[o].state = "succeeded" =>
              instances[operations[o].instance].state \in Live \cup Ending
        /\ operations[o].state = "failed" =>
              instances[operations[o].instance].state \in {"failed"} \cup Ending

SnapshotOfLive ==
    \A s \in OperationIds : instance_snapshots[s] = "ready" =>
        /\ operations[s].instance \in InstanceIds
        /\ instances[operations[s].instance].state \in Live \cup Ending

TableInv == BusyAsAsked /\ CreateTold /\ SnapshotOfLive

-----------------------------------------------------------------------------
(* What a step of a run does to the tables.                                *)

\* The steps that are no finish and no placement leave the instances alone.
LEMMA OnlyFinishSettles ==
    ASSUME SiteTypes, NEW c \in ClusterIds, Moves(c), ~Claim(c), ~CallFinish(c)
    PROVE  /\ instances' = instances /\ instance_snapshots' = instance_snapshots
           /\ \A o \in OperationIds : operations'[o].instance = operations[o].instance
<1>t. operations \in [OperationIds -> OperationRow]
  BY SiteTyped DEF SiteTypes, TypeOK
<1>1. CASE StartStage(c)
  <2>1. /\ operations' = [operations EXCEPT ![worker[c].op].state = "running"]
        /\ instances' = instances /\ instance_snapshots' = instance_snapshots
    BY <1>1 DEF StartStage, worker_start_stage
  <2> QED
    BY <1>t, <2>1 DEF OperationRow
<1>2. CASE ReserveCapacity(c)
  BY <1>2 DEF ReserveCapacity, worker_hold_capacity, tables
<1>3. CASE UNCHANGED tables
  BY <1>3 DEF tables
<1> QED
  BY <1>1, <1>2, <1>3, SameTables DEF Moves

LEMMA Placed ==
    ASSUME SiteTypes, IInv, NEW c \in ClusterIds, Claim(c)
    PROVE  /\ instance_snapshots' = instance_snapshots
           /\ \A o \in OperationIds : operations'[o].instance = operations[o].instance
           /\ \A i \in InstanceIds :
                /\ instances'[i].state = instances[i].state
                /\ \/ instances'[i].cluster = instances[i].cluster
                   \/ instances[i].cluster = NoCluster
<1>t. operations \in [OperationIds -> OperationRow] /\ instances \in [InstanceIds -> InstanceRow]
  BY SiteTyped DEF SiteTypes, TypeOK
<1>1. PICK q \in OperationIds, d \in ClusterIds : place_next_pending_operation(q, d)
  BY DEF Claim
<1> DEFINE i == operations[q].instance
<1>2. /\ operations[q].cluster = NoCluster /\ Active(q)
      /\ operations' = [operations EXCEPT ![q].cluster = d]
      /\ instances' = [instances EXCEPT ![i].cluster = d]
      /\ instance_snapshots' = instance_snapshots
  BY <1>1 DEF place_next_pending_operation, Active, ActiveStates
<1>3. i \in InstanceIds /\ instances[i].cluster = NoCluster
  BY <1>2, NullsAreNotIds DEF IInv, ActiveHasInstance, RoutedToOwner
<1> QED
  BY <1>t, <1>2, <1>3 DEF OperationRow, InstanceRow

\* A first finish settles the instance, and the snapshot, of its operation; the
\* one of a delete takes the row away.
LEMMA Settled ==
    ASSUME SiteTypes, IInv, TableInv, NEW c \in ClusterIds, CallFinish(c), Active(worker[c].op),
           NEW o, o = worker[c].op, NEW i, i = operations[o].instance
    PROVE  /\ o \in OperationIds /\ i \in InstanceIds
           /\ operations'[o].state = worker[c].outcome
           /\ \A j \in InstanceIds : instances'[j].cluster = instances[j].cluster
           /\ \A j \in InstanceIds \ {i} : instances'[j].state = instances[j].state
           /\ operations[o].kind = "create" =>
                /\ instances[i].state = "provisioning"
                /\ instances'[i].state = IF worker[c].outcome = "succeeded" THEN "ready" ELSE "failed"
           /\ operations[o].kind = "delete" =>
                /\ instances[i].state = "deleting"
                /\ instances'[i].state =
                        IF worker[c].outcome = "succeeded" THEN "gone" ELSE "delete_failed"
           /\ operations[o].kind \in {"snapshot", "resize", "restore_replace"} =>
                /\ instances[i].state \in Live
                /\ instances'[i].state \in {"ready", "degraded"}
           /\ \A q \in OperationIds :
                /\ operations'[q].instance =
                     IF operations[o].kind = "delete" /\ worker[c].outcome = "succeeded"
                          /\ operations[q].instance = i
                     THEN NoInstance ELSE operations[q].instance
                /\ instance_snapshots'[q] =
                     IF operations[o].kind = "snapshot" /\ q = o
                     THEN IF worker[c].outcome = "succeeded" THEN "ready" ELSE "failed"
                     ELSE IF operations[o].kind = "delete" /\ worker[c].outcome = "succeeded"
                               /\ operations[q].instance = i
                     THEN "none" ELSE instance_snapshots[q]
<1>1. /\ o \in OperationIds /\ worker[c].outcome \in Outcomes /\ TypeOK
      /\ StagePassed(o, "proxmox_api_call") \in BOOLEAN
  BY SiteTyped, FinishCalls DEF SiteTypes, StagePassed
<1>2. worker_finish_operation(o, worker[c].outcome, StagePassed(o, "proxmox_api_call"))
  <2>1. ~FinishAgain(o, worker[c].outcome)
    BY DEF FinishAgain, Active, ActiveStates, Outcomes
  <2> QED
    BY <2>1 DEF CallFinish, Finish
<1>3. /\ i \in InstanceIds /\ operations'[o].state = worker[c].outcome
      /\ \A q \in OperationIds : operations'[q].instance =
                     IF operations[o].kind = "delete" /\ worker[c].outcome = "succeeded"
                          /\ operations[q].instance = i
                     THEN NoInstance ELSE operations[q].instance
      /\ \A j \in InstanceIds \ {i} : instances'[j] = instances[j]
      /\ instances'[i].state = SettledState(operations[o].kind, i, worker[c].outcome)
      /\ instances'[i].cluster = instances[i].cluster
  BY <1>1, <1>2, FinishEffect
<1>4. /\ operations[o].kind = "create" => instances[i].state = "provisioning"
      /\ operations[o].kind = "delete" => instances[i].state = "deleting"
      /\ operations[o].kind \in {"snapshot", "resize", "restore_replace"} => instances[i].state \in Live
  BY <1>1 DEF TableInv, BusyAsAsked
<1>5. /\ operations[o].kind = "create" =>
            instances'[i].state = IF worker[c].outcome = "succeeded" THEN "ready" ELSE "failed"
      /\ operations[o].kind = "delete" =>
            instances'[i].state = IF worker[c].outcome = "succeeded" THEN "gone" ELSE "delete_failed"
      /\ operations[o].kind \in {"snapshot", "resize", "restore_replace"} =>
            instances'[i].state \in {"ready", "degraded"}
  BY <1>3, <1>4, SettledStateIs DEF CreateSettles
<1>6. \A q \in OperationIds : instance_snapshots'[q] =
                     IF operations[o].kind = "snapshot" /\ q = o
                     THEN IF worker[c].outcome = "succeeded" THEN "ready" ELSE "failed"
                     ELSE IF operations[o].kind = "delete" /\ worker[c].outcome = "succeeded"
                               /\ operations[q].instance = i
                     THEN "none" ELSE instance_snapshots[q]
  <2>1. instance_snapshots' = SnapshotsAfter(o, i, worker[c].outcome)
    BY <1>2 DEF worker_finish_operation
  <2> QED
    BY <1>1, <2>1, SnapshotsAfterIs DEF TypeOK
<1> QED
  BY <1>1, <1>3, <1>4, <1>5, <1>6

\* One sent again says what the first one said.
LEMMA SettledAgain ==
    ASSUME SiteTypes, IInv, TableInv, RunIsSound, ListedIsDelete, NEW c \in ClusterIds,
           CallFinish(c), ~Active(worker[c].op)
    PROVE  /\ operations' = operations /\ instance_snapshots' = instance_snapshots
           /\ \A i \in InstanceIds :
                /\ instances'[i].cluster = instances[i].cluster
                /\ \/ instances'[i].state = instances[i].state
                   \/ instances[i].state \in Live /\ instances'[i].state = "ready"
<1> DEFINE o == worker[c].op
           i == operations[o].instance
<1>1. /\ o \in OperationIds /\ worker[c].outcome \in Outcomes /\ TypeOK
      /\ instances \in [InstanceIds -> InstanceRow] /\ i \in InstanceIds \cup {NoInstance}
  BY SiteTyped, FinishCalls DEF SiteTypes, TypeOK, OperationRow
<1>2. FinishAgain(o, worker[c].outcome)
  BY DEF CallFinish, Finish, worker_finish_operation
<1>3. /\ operations' = operations /\ instance_snapshots' = instance_snapshots
      /\ instances' = IF operations[o].kind = "create" /\ i # NoInstance
                      THEN [instances EXCEPT ![i].state = CreateSettles(i, worker[c].outcome)]
                      ELSE instances
  BY <1>2 DEF FinishAgain
<1>4. CASE operations[o].kind = "create" /\ i # NoInstance
  <2>1. ~worker[c].teardown
    BY <1>4 DEF ListedIsDelete, ListedDeletes, CallFinish, At, Op
  <2>2. operations[o].state = worker[c].outcome
    BY <2>1 DEF RunIsSound, RunSound, CallFinish, Op
  <2>3. /\ worker[c].outcome = "succeeded" => instances[i].state \in Live \cup Ending
        /\ worker[c].outcome = "failed" => instances[i].state \in {"failed"} \cup Ending
    BY <1>1, <1>4, <2>2 DEF TableInv, CreateTold
  <2>4. \/ CreateSettles(i, worker[c].outcome) = instances[i].state
        \/ instances[i].state \in Live /\ CreateSettles(i, worker[c].outcome) = "ready"
    BY <1>1, <2>3 DEF CreateSettles, Ending, Live, Outcomes
  <2>5. instances' = [instances EXCEPT ![i].state = CreateSettles(i, worker[c].outcome)]
    BY <1>3, <1>4
  <2> QED
    BY <1>1, <1>3, <1>4, <2>4, <2>5 DEF InstanceRow
<1>5. CASE ~(operations[o].kind = "create" /\ i # NoInstance)
  BY <1>3, <1>5
<1> QED
  BY <1>4, <1>5

LEMMA StateMoves ==
    ASSUME SiteTypes, IInv, TableInv, RunIsSound, ListedIsDelete, NEW c \in ClusterIds, Moves(c),
           NEW i \in InstanceIds
    PROVE  /\ \/ instances'[i].cluster = instances[i].cluster
              \/ instances[i].cluster = NoCluster
           /\ \/ instances'[i].state = instances[i].state
              \/ instances[i].state \in Live /\ instances'[i].state \in {"ready", "degraded"}
              \/ /\ CallFinish(c) /\ Active(worker[c].op) /\ Op(c).kind = "create"
                 /\ Op(c).instance = i /\ instances[i].state = "provisioning"
                 /\ instances'[i].state = IF worker[c].outcome = "succeeded" THEN "ready" ELSE "failed"
              \/ /\ CallFinish(c) /\ Active(worker[c].op) /\ Op(c).kind = "delete"
                 /\ Op(c).instance = i /\ instances[i].state = "deleting"
                 /\ instances'[i].state \in {"gone", "delete_failed"}
<1>1. CASE ~Claim(c) /\ ~CallFinish(c)
  BY <1>1, OnlyFinishSettles
<1>2. CASE Claim(c)
  BY <1>2, Placed
<1>3. CASE CallFinish(c) /\ ~Active(worker[c].op)
  BY <1>3, SettledAgain
<1>4. CASE CallFinish(c) /\ Active(worker[c].op)
  <2>1. Op(c).kind \in Kinds
    BY <1>4, FinishCalls, SiteTyped DEF SiteTypes, TypeOK, OperationRow, Op
  <2> QED
    BY <1>4, <2>1, Settled DEF Op, Kinds
<1> QED
  BY <1>1, <1>2, <1>3, <1>4

\* An operation that goes on was under way, on the same instance.
LEMMA StillActive ==
    ASSUME SiteTypes, IInv, TableInv, RunIsSound, ListedIsDelete, NEW c \in ClusterIds, Moves(c),
           NEW o \in OperationIds, operations'[o].state \in ActiveStates
    PROVE  /\ Active(o) /\ ~(CallFinish(c) /\ worker[c].op = o)
           /\ operations'[o].instance = operations[o].instance /\ operations[o].instance \in InstanceIds
           /\ operations'[o].kind = operations[o].kind
<1>1. Active(o) /\ ~(CallFinish(c) /\ worker[c].op = o) /\ operations'[o].kind = operations[o].kind
  BY OperationMoves, FinishEnds DEF Moves, Active, ActiveStates, Outcomes
<1>2. operations[o].instance \in InstanceIds
  BY <1>1 DEF IInv, ActiveHasInstance
<1>3. CASE CallFinish(c) /\ Active(worker[c].op)
  <2>1. worker[c].op \in OperationIds
    BY <1>3, Settled
  <2>2. operations[worker[c].op].instance # operations[o].instance
    BY <1>1, <1>3, <2>1 DEF IInv, OneActive
  <2> QED
    BY <1>1, <1>2, <1>3, <2>2, Settled
<1>4. CASE CallFinish(c) /\ ~Active(worker[c].op)
  BY <1>1, <1>2, <1>4, SettledAgain
<1>5. CASE Claim(c)
  BY <1>1, <1>2, <1>5, Placed
<1>6. CASE ~Claim(c) /\ ~CallFinish(c)
  BY <1>1, <1>2, <1>6, OnlyFinishSettles
<1> QED
  BY <1>3, <1>4, <1>5, <1>6

\* An operation that is told as ended keeps its instance, or loses it to a
\* delete that takes the row and its recovery points away.
LEMMA InstanceStays ==
    ASSUME SiteTypes, IInv, TableInv, RunIsSound, ListedIsDelete, NEW c \in ClusterIds, Moves(c),
           NEW o \in OperationIds
    PROVE  \/ operations'[o].instance = operations[o].instance
              /\ (instances'[operations[o].instance].state = "gone" =>
                      operations[o].instance \notin InstanceIds
                      \/ instances[operations[o].instance].state = "gone")
           \/ operations'[o].instance = NoInstance /\ instance_snapshots'[o] # "ready"
<1> DEFINE i == operations[o].instance
<1>1. CASE ~Claim(c) /\ ~CallFinish(c)
  BY <1>1, OnlyFinishSettles
<1>2. CASE Claim(c)
  BY <1>2, Placed
<1>3. CASE CallFinish(c) /\ ~Active(worker[c].op)
  <2>1. operations' = operations
    BY <1>3, SettledAgain
  <2>2. i \in InstanceIds => instances'[i].state \in {instances[i].state, "ready"}
    BY <1>3, SettledAgain
  <2> QED
    BY <2>1, <2>2
<1>4. CASE CallFinish(c) /\ Active(worker[c].op)
  <2> DEFINE p == worker[c].op
             j == operations[p].instance
  <2>1. p \in OperationIds /\ operations[p].kind \in Kinds
    BY <1>4, FinishCalls, SiteTyped DEF SiteTypes, TypeOK, OperationRow
  <2>2. CASE operations[p].kind = "delete" /\ worker[c].outcome = "succeeded" /\ i = j
    BY <1>4, <2>1, <2>2, Settled
  <2>3. CASE i = j /\ ~(operations[p].kind = "delete" /\ worker[c].outcome = "succeeded")
    <3>1. operations'[o].instance = i
      BY <1>4, <2>1, <2>3, Settled
    <3>2. instances'[j].state # "gone"
      BY <1>4, <2>1, <2>3, Settled DEF Kinds
    <3> QED
      BY <2>3, <3>1, <3>2
  <2>4. CASE i # j
    <3>1. operations'[o].instance = i
      BY <1>4, <2>1, <2>4, Settled
    <3>2. i \in InstanceIds => instances'[i].state = instances[i].state
      BY <1>4, <2>1, <2>4, Settled
    <3> QED
      BY <3>1, <3>2
  <2> QED
    BY <2>2, <2>3, <2>4
<1> QED
  BY <1>1, <1>2, <1>3, <1>4

\* A recovery point gets ready when its snapshot succeeds.
LEMMA SnapshotMoves ==
    ASSUME SiteTypes, IInv, TableInv, RunIsSound, ListedIsDelete, NEW c \in ClusterIds, Moves(c),
           NEW s \in OperationIds, instance_snapshots'[s] = "ready"
    PROVE  \/ instance_snapshots[s] = "ready"
           \/ /\ CallFinish(c) /\ Active(s) /\ worker[c].op = s /\ operations[s].kind = "snapshot"
              /\ worker[c].outcome = "succeeded" /\ operations[s].instance \in InstanceIds
              /\ instances[operations[s].instance].state \in Live
<1>1. CASE ~Claim(c) /\ ~CallFinish(c)
  BY <1>1, OnlyFinishSettles
<1>2. CASE Claim(c)
  BY <1>2, Placed
<1>3. CASE CallFinish(c) /\ ~Active(worker[c].op)
  BY <1>3, SettledAgain
<1>4. CASE CallFinish(c) /\ Active(worker[c].op)
  BY <1>4, Settled
<1> QED
  BY <1>1, <1>2, <1>3, <1>4

LEMMA TableMoves ==
    ASSUME SiteTypes, IInv, IInv', TableInv, RunIsSound, ListedIsDelete, NEW c \in ClusterIds, Moves(c)
    PROVE  TableInv'
<1>1. BusyAsAsked'
  <2> SUFFICES ASSUME NEW o \in OperationIds, operations'[o].state \in ActiveStates
               PROVE  /\ operations'[o].kind = "create" =>
                            instances'[operations'[o].instance].state = "provisioning"
                      /\ operations'[o].kind = "delete" =>
                            instances'[operations'[o].instance].state = "deleting"
                      /\ operations'[o].kind \in {"snapshot", "resize", "restore_replace"} =>
                            instances'[operations'[o].instance].state \in Live
    BY DEF BusyAsAsked, Active
  <2> DEFINE i == operations[o].instance
  <2>1. /\ Active(o) /\ ~(CallFinish(c) /\ worker[c].op = o)
        /\ operations'[o].instance = i /\ i \in InstanceIds /\ operations'[o].kind = operations[o].kind
    BY StillActive
  <2>2. ASSUME CallFinish(c), Active(worker[c].op) PROVE Op(c).instance # i
    BY <2>1, <2>2, FinishCalls DEF IInv, OneActive, Op
  <2>3. instances'[i].state = instances[i].state
        \/ (instances[i].state \in Live /\ instances'[i].state \in {"ready", "degraded"})
    BY <2>1, <2>2, StateMoves
  <2> QED
    BY <2>1, <2>3 DEF TableInv, BusyAsAsked, Live
<1>2. CreateTold'
  <2> SUFFICES ASSUME NEW o \in OperationIds, operations'[o].kind = "create",
                      operations'[o].instance # NoInstance
               PROVE  /\ operations'[o].state = "succeeded" =>
                            instances'[operations'[o].instance].state \in Live \cup Ending
                      /\ operations'[o].state = "failed" =>
                            instances'[operations'[o].instance].state \in {"failed"} \cup Ending
    BY DEF CreateTold
  <2> DEFINE i == operations[o].instance
  <2>1. /\ operations[o].kind = "create" /\ operations'[o].instance = i /\ i \in InstanceIds
        /\ instances'[i].state = "gone" => instances[i].state = "gone"
    BY UsedStays, InstanceStays, SiteTyped DEF SiteTypes, TypeOK, OperationRow
  <2>2. instances[i].state # "gone"
    BY <2>1, NullsAreNotIds DEF IInv, RefersToRow
  <2>3. CASE operations'[o].state = operations[o].state
    <3>1. /\ operations[o].state = "succeeded" => instances[i].state \in Live \cup Ending
          /\ operations[o].state = "failed" => instances[i].state \in {"failed"} \cup Ending
      BY <2>1, NullsAreNotIds DEF TableInv, CreateTold
    <3> QED
      BY <2>1, <2>2, <2>3, <3>1, StateMoves DEF Live, Ending
  <2>4. CASE CallFinish(c) /\ o = worker[c].op /\ Active(o)
    BY <2>1, <2>4, Settled DEF Live
  <2> QED
    BY <2>1, <2>3, <2>4, OperationMoves DEF Moves
<1>3. SnapshotOfLive'
  <2> SUFFICES ASSUME NEW s \in OperationIds, instance_snapshots'[s] = "ready"
               PROVE  /\ operations'[s].instance \in InstanceIds
                      /\ instances'[operations'[s].instance].state \in Live \cup Ending
    BY DEF SnapshotOfLive
  <2> DEFINE i == operations[s].instance
  <2>1. i \in InstanceIds /\ instances[i].state \in Live \cup Ending
    BY SnapshotMoves DEF TableInv, SnapshotOfLive
  <2>2. operations'[s].instance = i /\ (instances'[i].state = "gone" => instances[i].state = "gone")
    BY <2>1, InstanceStays
  <2> QED
    BY <2>1, <2>2, StateMoves DEF Live, Ending
<1> QED
  BY <1>1, <1>2, <1>3 DEF TableInv

\* What a request does, whatever it asks for.
LEMMA RequestIs ==
    ASSUME SiteTypes, IInv, NEW q \in OperationIds, SiteRequest(q)
    PROVE  /\ operations[q].instance = NoInstance
           /\ \A s \in OperationIds : instance_snapshots'[s] = "ready" => instance_snapshots[s] = "ready"
           /\ \E i \in InstanceIds :
                /\ operations'[q].instance = i /\ i # NoInstance
                /\ \A j \in InstanceIds \ {i} : instances'[j] = instances[j]
                /\ \/ operations'[q].kind = "create" /\ instances[i].state = "none"
                      /\ instances'[i].state = "provisioning" /\ instances'[i].cluster = NoCluster
                   \/ /\ instances'[i].cluster = instances[i].cluster /\ ActiveOn(i) = {}
                      /\ \/ /\ operations'[q].kind \in {"snapshot", "resize", "restore_replace"}
                            /\ instances[i].state \in Recoverable /\ instances'[i].state \in Live
                         \/ /\ operations'[q].kind = "delete"
                            /\ instances[i].state \in Deletable /\ instances'[i].state = "deleting"
<1>t. /\ operations \in [OperationIds -> OperationRow] /\ instances \in [InstanceIds -> InstanceRow]
      /\ instance_snapshots \in [OperationIds -> {"none", "creating", "ready", "failed"}]
  BY SiteTyped DEF SiteTypes, TypeOK
<1>0. operations[q].instance = NoInstance
  BY RequestMade DEF IInv, UnusedHasNoInstance
<1>1. \A s \in OperationIds : instance_snapshots'[s] = "ready" => instance_snapshots[s] = "ready"
  BY <1>t DEF SiteRequest, Request, request_instance_create, request_instance_snapshot,
     request_instance_resize, request_instance_restore_replace, request_instance_deletion,
     request_instance_delete
<1>2. PICK i \in InstanceIds :
        \/ \E p \in Plans : request_instance_create(q, i, p)
        \/ \E plan, snapshot, staged :
              \/ InsertOperation(q, i, "snapshot", Recoverable, plan, snapshot, staged)
              \/ InsertOperation(q, i, "resize", Recoverable, plan, snapshot, staged)
              \/ InsertOperation(q, i, "restore_replace", Recoverable, plan, snapshot, staged)
              \/ InsertOperation(q, i, "delete", Deletable, plan, snapshot, staged)
  BY DEF SiteRequest, Request, request_instance_snapshot,
     request_instance_resize, request_instance_restore_replace, request_instance_deletion,
     request_instance_delete
<1>n. i # NoInstance
  BY NullsAreNotIds
<1>3. CASE \E p \in Plans : request_instance_create(q, i, p)
  <2>1. /\ operations'[q].instance = i /\ operations'[q].kind = "create" /\ instances[i].state = "none"
        /\ instances'[i].state = "provisioning" /\ instances'[i].cluster = NoCluster
        /\ \A j \in InstanceIds \ {i} : instances'[j] = instances[j]
    BY <1>t, <1>3 DEF request_instance_create, NoOperationRow
  <2> QED
    BY <1>0, <1>1, <1>n, <2>1
<1>4. ASSUME NEW kind, NEW admitted, NEW plan, NEW snapshot, NEW staged,
             InsertOperation(q, i, kind, admitted, plan, snapshot, staged)
      PROVE  /\ operations'[q].instance = i /\ operations'[q].kind = kind
             /\ instances[i].state \in admitted /\ instances'[i].state = BusyState(kind)
             /\ instances'[i].cluster = instances[i].cluster /\ ActiveOn(i) = {}
             /\ \A j \in InstanceIds \ {i} : instances'[j] = instances[j]
  BY <1>t, <1>4 DEF InsertOperation, InstanceRow
<1>5. CASE \E plan, snapshot, staged : InsertOperation(q, i, "delete", Deletable, plan, snapshot, staged)
  BY <1>0, <1>1, <1>n, <1>4, <1>5, BusyStateIs
<1>6. CASE \E plan, snapshot, staged :
              \/ InsertOperation(q, i, "snapshot", Recoverable, plan, snapshot, staged)
              \/ InsertOperation(q, i, "resize", Recoverable, plan, snapshot, staged)
              \/ InsertOperation(q, i, "restore_replace", Recoverable, plan, snapshot, staged)
  BY <1>0, <1>1, <1>n, <1>4, <1>6, BusyStateIs DEF Live
<1> QED
  BY <1>2, <1>3, <1>5, <1>6

LEMMA TableRequest ==
    ASSUME SiteTypes, IInv, TableInv, NEW q \in OperationIds, SiteRequest(q)
    PROVE  TableInv'
<1>1. /\ operations[q].state = "none" /\ operations'[q].state = "pending"
      /\ operations[q].instance = NoInstance
      /\ \A o \in OperationIds : o # q => operations'[o] = operations[o]
  BY RequestMade, RequestIs
<1>2. PICK i \in InstanceIds :
                /\ operations'[q].instance = i /\ i # NoInstance
                /\ \A j \in InstanceIds \ {i} : instances'[j] = instances[j]
                /\ \/ operations'[q].kind = "create" /\ instances[i].state = "none"
                      /\ instances'[i].state = "provisioning"
                   \/ /\ ActiveOn(i) = {}
                      /\ \/ /\ operations'[q].kind \in {"snapshot", "resize", "restore_replace"}
                            /\ instances[i].state \in Recoverable /\ instances'[i].state \in Live
                         \/ /\ operations'[q].kind = "delete"
                            /\ instances[i].state \in Deletable /\ instances'[i].state = "deleting"
  BY RequestIs
<1>3. \A o \in OperationIds : Active(o) /\ o # q => operations[o].instance # i
  BY <1>2 DEF ActiveOn, IInv, RefersToRow
<1>4. BusyAsAsked'
  <2> SUFFICES ASSUME NEW o \in OperationIds, operations'[o].state \in ActiveStates
               PROVE  /\ operations'[o].kind = "create" =>
                            instances'[operations'[o].instance].state = "provisioning"
                      /\ operations'[o].kind = "delete" =>
                            instances'[operations'[o].instance].state = "deleting"
                      /\ operations'[o].kind \in {"snapshot", "resize", "restore_replace"} =>
                            instances'[operations'[o].instance].state \in Live
    BY DEF BusyAsAsked, Active
  <2>1. CASE o = q
    BY <1>2, <2>1
  <2>2. CASE o # q
    <3>1. Active(o) /\ operations'[o] = operations[o] /\ operations[o].instance \in InstanceIds \ {i}
      BY <1>1, <1>3, <2>2 DEF Active, IInv, ActiveHasInstance
    <3> QED
      BY <1>2, <3>1 DEF TableInv, BusyAsAsked
  <2> QED
    BY <2>1, <2>2
<1>5. CreateTold'
  <2> SUFFICES ASSUME NEW o \in OperationIds, operations'[o].kind = "create",
                      operations'[o].instance # NoInstance
               PROVE  /\ operations'[o].state = "succeeded" =>
                            instances'[operations'[o].instance].state \in Live \cup Ending
                      /\ operations'[o].state = "failed" =>
                            instances'[operations'[o].instance].state \in {"failed"} \cup Ending
    BY DEF CreateTold
  <2>1. CASE o = q
    BY <1>1, <2>1
  <2>2. CASE o # q
    <3>1. operations'[o] = operations[o] /\ operations[o].instance \in InstanceIds
      BY <1>1, <2>2, SiteTyped DEF SiteTypes, TypeOK, OperationRow
    <3>2. instances[operations[o].instance].state # "none"
      BY <3>1, NullsAreNotIds DEF IInv, RefersToRow
    <3>3. /\ operations[o].state = "succeeded" =>
                instances[operations[o].instance].state \in Live \cup Ending
          /\ operations[o].state = "failed" =>
                instances[operations[o].instance].state \in {"failed"} \cup Ending
      BY <3>1, NullsAreNotIds DEF TableInv, CreateTold
    <3> QED
      BY <1>2, <3>1, <3>2, <3>3 DEF Recoverable, Ending, Live
  <2> QED
    BY <2>1, <2>2
<1>6. SnapshotOfLive'
  <2> SUFFICES ASSUME NEW s \in OperationIds, instance_snapshots'[s] = "ready"
               PROVE  /\ operations'[s].instance \in InstanceIds
                      /\ instances'[operations'[s].instance].state \in Live \cup Ending
    BY DEF SnapshotOfLive
  <2>1. /\ operations[s].instance \in InstanceIds
        /\ instances[operations[s].instance].state \in Live \cup Ending
    BY RequestIs DEF TableInv, SnapshotOfLive
  <2>2. s # q /\ operations'[s] = operations[s]
    BY <1>1, <2>1, NullsAreNotIds
  <2> QED
    BY <1>2, <2>1, <2>2 DEF Live, Ending
<1> QED
  BY <1>4, <1>5, <1>6 DEF TableInv

-----------------------------------------------------------------------------
(* The guests.                                                             *)

\* A vmid is in the row of at most one instance of a cluster.
VmidsDistinct ==
    \A i \in InstanceIds : proxmox_vmid[i] # NoVmid =>
        /\ instances[i].cluster # NoCluster /\ instances[i].state \notin {"none", "gone"}
        /\ \A j \in InstanceIds :
              instances[j].cluster = instances[i].cluster /\ proxmox_vmid[j] = proxmox_vmid[i] =>
                j = i

\* What is listed for deletion is not in use, and will not be.
NotInUse(c, v) ==
    \A i \in InstanceIds :
        instances[i].cluster = c /\ proxmox_vmid[i] = v => instances[i].state \in Ending

SparesInUse(c) ==
    /\ \A d \in worker[c].pending : d.vmid # NoVmid => NotInUse(c, d.vmid)
    /\ At(c, "destroy") => worker[c].vmid # NoVmid /\ NotInUse(c, worker[c].vmid)

ListedIsEnding == \A c \in ClusterIds : SparesInUse(c)

\* The clone that is about to be recorded is there.
CloneIsThere(c) ==
    At(c, "cloned") =>
        /\ worker[c].stage = "proxmox_api_call" /\ Op(c).kind \in {"create", "delete"}
        /\ worker[c].vmid \in Vmids /\ guests[c][worker[c].vmid].owner = Op(c).instance

ClonedIsThere == \A c \in ClusterIds : CloneIsThere(c)

\* Proxmox did what the stage is for, and it has not been undone.
CallMade(o) ==
    \/ StagePassed(o, "proxmox_api_call")
    \/ \E c \in ClusterIds :
          At(c, "mark") /\ worker[c].stage = "proxmox_api_call" /\ worker[c].op = o

CallDone(o) ==
    LET i == operations[o].instance IN
    /\ operations[o].kind = "create" => HasGuest(i) /\ GuestOf(i).owner = i
    /\ operations[o].kind = "snapshot" => o \in GuestOf(i).snapshots

CallHolds ==
    \A o \in OperationIds : Active(o) /\ CallMade(o) /\ ~Handled(o) => CallDone(o)

GuestInv ==
    /\ VmidsDistinct
    /\ ListedIsEnding
    /\ ClonedIsThere
    /\ CallHolds
    /\ LiveHasGuest

SiteInv == SiteTypes /\ IInv /\ StageInv /\ TableInv /\ GuestInv

-----------------------------------------------------------------------------
(* What a step of a run does to the guests and to the rows that name them. *)

LEMMA SiteInvHas ==
    ASSUME SiteInv
    PROVE  /\ SiteTypes /\ IInv /\ StageInv /\ TableInv
           /\ RunIsSound /\ InOrder /\ ListedIsDelete
           /\ VmidsDistinct /\ ListedIsEnding /\ ClonedIsThere /\ CallHolds /\ LiveHasGuest
           /\ SiteTypeOK /\ KnowsOperation
           /\ proxmox_vmid \in [InstanceIds -> Vmids \cup {NoVmid}]
           /\ guests \in [ClusterIds -> [Vmids -> GuestType]]
           /\ \A i \in InstanceIds : instances[i].cluster \in ClusterIds \cup {NoCluster}
BY SiteTyped DEF SiteInv, StageInv, GuestInv, SiteTypes, TypeOK, InstanceRow

\* The instance of an operation a run works on is on its cluster.
LEMMA OpIsPlaced ==
    ASSUME SiteTypes, IInv, NEW c \in ClusterIds, Holding(c), Active(worker[c].op)
    PROVE  /\ worker[c].op \in OperationIds /\ Op(c).instance \in InstanceIds /\ c # NoCluster
           /\ instances[Op(c).instance].cluster = c
           /\ instances[Op(c).instance].state \notin {"none", "gone"}
           /\ \A o \in OperationIds : Active(o) /\ operations[o].instance = Op(c).instance =>
                o = worker[c].op
<1>1. worker[c].op \in OperationIds /\ operations[worker[c].op].cluster = c /\ c # NoCluster
  BY HolderIs
<1>2. Op(c).instance \in InstanceIds
  BY <1>1 DEF IInv, ActiveHasInstance, Op
<1> QED
  BY <1>1, <1>2, NullsAreNotIds DEF IInv, RoutedToOwner, RefersToRow, OneActive, Op

LEMMA VmidEffect ==
    ASSUME SiteInv, NEW c \in ClusterIds, Moves(c), NEW i \in InstanceIds
    PROVE  /\ CallFinish(c) /\ instances'[i].state = "gone" => proxmox_vmid'[i] = NoVmid
           /\ \/ proxmox_vmid'[i] = proxmox_vmid[i]
              \/ /\ RecordClone(c) /\ i = Op(c).instance /\ VmidIsFree(c, worker[c].vmid)
                 /\ GoTo(c, "mark") /\ proxmox_vmid'[i] = worker[c].vmid
              \/ ClearVmid(c) /\ i = Op(c).instance /\ proxmox_vmid'[i] = NoVmid
              \/ CallFinish(c) /\ instances'[i].state = "gone" /\ proxmox_vmid'[i] = NoVmid
<1>1. proxmox_vmid \in [InstanceIds -> Vmids \cup {NoVmid}] /\ SiteTypes
  BY SiteInvHas
<1>2. CallFinish(c) => proxmox_vmid' = [j \in InstanceIds |->
                            IF instances'[j].state = "gone" THEN NoVmid ELSE proxmox_vmid[j]]
  BY DEF CallFinish, Finish
<1>3. CASE CallFinish(c)
  BY <1>2, <1>3
<1>4. CASE UNCHANGED proxmox_vmid
  BY <1>2, <1>4
<1>5. CASE /\ RecordClone(c) /\ VmidIsFree(c, worker[c].vmid) /\ GoTo(c, "mark")
           /\ proxmox_vmid' = [proxmox_vmid EXCEPT ![Op(c).instance] = worker[c].vmid]
  <2>1. ~CallFinish(c)
    BY <1>5 DEF RecordClone, CallFinish, At
  <2> QED
    BY <1>1, <1>5, <2>1
<1>6. CASE ClearVmid(c) /\ proxmox_vmid' = [proxmox_vmid EXCEPT ![Op(c).instance] = NoVmid]
  <2>1. ~CallFinish(c)
    BY <1>6 DEF ClearVmid, CallFinish, At
  <2> QED
    BY <1>1, <1>6, <2>1
<1> QED
  BY <1>1, <1>3, <1>4, <1>5, <1>6, VmidMoves DEF Moves

\* The row that a clone is recorded in.
LEMMA RecordedIn ==
    ASSUME SiteInv, NEW c \in ClusterIds, RecordClone(c)
    PROVE  /\ Holding(c) /\ Active(worker[c].op) /\ At(c, "cloned") /\ worker[c].vmid \in Vmids
           /\ Op(c).instance \in InstanceIds /\ c # NoCluster
           /\ instances[Op(c).instance].cluster = c
           /\ instances' = instances /\ operations' = operations /\ guests' = guests
<1>1. At(c, "cloned") /\ Holding(c) /\ UNCHANGED <<tables, operation_stages, guests>>
  BY DEF RecordClone, Holding, At
<1>2. Active(worker[c].op) /\ worker[c].vmid \in Vmids
  BY <1>1, SiteInvHas DEF KnowsOperation, ClonedIsThere, CloneIsThere, At
<1> QED
  BY <1>1, <1>2, SiteInvHas, OpIsPlaced DEF tables

LEMMA MoveState ==
    ASSUME SiteInv, NEW c \in ClusterIds, Moves(c), NEW i \in InstanceIds
    PROVE  /\ instances[i].cluster # NoCluster => instances'[i].cluster = instances[i].cluster
           /\ proxmox_vmid[i] # NoVmid =>
                /\ instances[i].cluster # NoCluster
                /\ instances'[i].cluster = instances[i].cluster
                /\ instances'[i].state \notin {"none"}
                /\ instances'[i].state = "gone" => CallFinish(c)
           /\ instances[i].state \in Ending => instances'[i].state \in Ending \cup {"gone"}
<1>1. /\ \/ instances'[i].cluster = instances[i].cluster
         \/ instances[i].cluster = NoCluster
      /\ \/ instances'[i].state = instances[i].state
         \/ instances[i].state \in Live /\ instances'[i].state \in {"ready", "degraded"}
         \/ instances[i].state = "provisioning" /\ instances'[i].state \in {"ready", "failed"}
         \/ CallFinish(c) /\ instances'[i].state \in {"gone", "delete_failed"}
  BY SiteInvHas, StateMoves
<1>2. proxmox_vmid[i] # NoVmid =>
          instances[i].cluster # NoCluster /\ instances[i].state \notin {"none", "gone"}
  BY SiteInvHas DEF VmidsDistinct
<1> QED
  BY <1>1, <1>2 DEF Ending, Live

LEMMA DistinctMoves ==
    ASSUME SiteInv, NEW c \in ClusterIds, Moves(c)
    PROVE  VmidsDistinct'
<1> SUFFICES ASSUME NEW i \in InstanceIds, proxmox_vmid'[i] # NoVmid
             PROVE  /\ instances'[i].cluster # NoCluster /\ instances'[i].state \notin {"none", "gone"}
                    /\ \A j \in InstanceIds :
                          instances'[j].cluster = instances'[i].cluster
                          /\ proxmox_vmid'[j] = proxmox_vmid'[i] => j = i
  BY DEF VmidsDistinct
<1> DEFINE new(k) == /\ RecordClone(c) /\ k = Op(c).instance /\ VmidIsFree(c, worker[c].vmid)
                     /\ proxmox_vmid'[k] = worker[c].vmid
<1>1. ASSUME NEW k \in InstanceIds, proxmox_vmid'[k] # NoVmid
      PROVE  new(k) \/ (/\ proxmox_vmid[k] # NoVmid /\ proxmox_vmid'[k] = proxmox_vmid[k]
                        /\ instances'[k].cluster = instances[k].cluster
                        /\ instances[k].cluster # NoCluster
                        /\ instances'[k].state \notin {"none", "gone"})
  BY <1>1, VmidEffect, MoveState
<1>2. ASSUME NEW k \in InstanceIds, new(k)
      PROVE  /\ instances'[k].cluster = c /\ c # NoCluster /\ instances'[k].state \notin {"none", "gone"}
             /\ \A j \in InstanceIds : instances[j].cluster = c => proxmox_vmid[j] # proxmox_vmid'[k]
  <2>1. instances[k].state \notin {"none", "gone"}
    BY <1>2, RecordedIn, SiteInvHas, OpIsPlaced
  <2> QED
    BY <1>2, <2>1, RecordedIn DEF VmidIsFree
<1>3. ASSUME NEW j \in InstanceIds, instances'[j].cluster = instances'[i].cluster,
             proxmox_vmid'[j] = proxmox_vmid'[i]
      PROVE  j = i
  <2>1. CASE new(i) \/ new(j)
    <3> HIDE DEF new
    <3>1. new(i) /\ new(j) => i = j
      BY DEF new
    <3> QED
      BY <1>1, <1>2, <1>3, <2>1, <3>1
  <2>2. CASE ~new(i) /\ ~new(j)
    <3> HIDE DEF new
    <3> QED
      BY <1>1, <1>3, <2>2, SiteInvHas DEF VmidsDistinct
  <2> QED
    BY <2>1, <2>2
<1> HIDE DEF new
<1> QED
  BY <1>1, <1>2, <1>3

LEMMA NotInUseMoves ==
    ASSUME SiteInv, NEW c \in ClusterIds, Moves(c), NEW d \in ClusterIds, NEW v, v # NoVmid,
           NotInUse(d, v), ~(RecordClone(c) /\ c = d)
    PROVE  NotInUse(d, v)'
<1> SUFFICES ASSUME NEW i \in InstanceIds, instances'[i].cluster = d, proxmox_vmid'[i] = v
             PROVE  instances'[i].state \in Ending
  BY DEF NotInUse
<1>1. ~RecordClone(c) \/ i # Op(c).instance
  BY RecordedIn
<1>2. proxmox_vmid[i] = v /\ ~(CallFinish(c) /\ instances'[i].state = "gone")
  BY <1>1, VmidEffect
<1>3. instances[i].cluster = d /\ instances'[i].state # "gone"
  BY <1>2, MoveState
<1> QED
  BY <1>2, <1>3, MoveState DEF NotInUse

\* What a run has listed it lists at its start.
LEMMA PendingMoves ==
    ASSUME SiteTypes, NEW c \in ClusterIds, Moves(c)
    PROVE  /\ \/ worker'[c].pending \subseteq worker[c].pending
              \/ StartRun(c) /\ worker'[c].pending = PendingDeletions(c)
           /\ worker'[c].pc = "destroy" =>
                \E d \in worker[c].pending : d.vmid # NoVmid /\ worker'[c].vmid = d.vmid
<1>0. SiteTypeOK
  BY DEF SiteTypes
<1>1. CASE StartRun(c) \/ Leaves(c)
  BY <1>0, <1>1, StartRunIs, LeavesIs
<1>2. CASE NextDeletion(c)
  BY <1>0, <1>2, NextDeletionIs
<1>3. CASE DestroyThrows(c) \/ Ready(c) \/ StartStage(c)
  BY <1>0, <1>3, DestroyThrowsIs, ReadyIs, StartStageIs DEF Kept
<1>4. CASE (\E o \in OperationIds : ListOperation(c, o)) \/ Clone(c)
  BY <1>0, <1>4, ListOperationIs, CloneIs
<1>5. CASE GoesOn(c) \/ Compensate(c)
  BY <1>0, <1>5, GoesOnIs, CompensateIs DEF Kept
<1>6. CASE Finishes(c)
  <2>1. worker[c].pc = "finish"
    BY <1>6 DEF Finishes, CallFinish, FinishThrows, At
  <2> QED
    BY <1>0, <1>6, <2>1, FinishesIs DEF Kept
<1>7. CASE Claim(c)
  <2>1. worker' = worker /\ worker[c].pc = "loop"
    BY <1>7 DEF Claim, At
  <2> QED
    BY <2>1
<1> QED
  BY <1>1, <1>2, <1>3, <1>4, <1>5, <1>6, <1>7, WorkCases DEF Moves

LEMMA EndingMoves ==
    ASSUME SiteInv, NEW c \in ClusterIds, Moves(c)
    PROVE  ListedIsEnding'
<1>0. SiteTypes /\ ListedIsEnding /\ ListedIsDelete /\ SiteTypeOK
  BY SiteInvHas
<1>1. ASSUME NEW d \in ClusterIds, d # c
      PROVE  SparesInUse(d)'
  <2>1. worker'[d] = worker[d] /\ SparesInUse(d)
    BY <1>0, <1>1, RunTyped DEF Moves, ListedIsEnding
  <2> QED
    BY <1>1, <2>1, NotInUseMoves DEF SparesInUse, At
<1>2. SparesInUse(c)'
  <2>1. ASSUME NEW x \in worker[c].pending, x.vmid # NoVmid
        PROVE  NotInUse(c, x.vmid)'
    <3>1. ~RecordClone(c)
      BY <1>0 DEF ListedIsDelete, ListedDeletes, RecordClone, At
    <3> QED
      BY <1>0, <2>1, <3>1, NotInUseMoves DEF ListedIsEnding, SparesInUse
  <2>2. ASSUME StartRun(c), NEW x \in PendingDeletions(c), x.vmid # NoVmid
        PROVE  NotInUse(c, x.vmid)'
    <3>1. /\ x \in Deletion /\ instances[x.instance].state = "deleting"
          /\ instances[x.instance].cluster = c /\ x.vmid = proxmox_vmid[x.instance]
      BY <2>2 DEF PendingDeletions, ListedFor
    <3>2. NotInUse(c, x.vmid)
      BY <2>2, <3>1, SiteInvHas DEF NotInUse, VmidsDistinct, Deletion, Ending
    <3>3. ~RecordClone(c)
      BY <2>2 DEF StartRun, RecordClone, At
    <3> QED
      BY <2>2, <3>2, <3>3, NotInUseMoves
  <2> QED
    BY <1>0, <2>1, <2>2, PendingMoves DEF SparesInUse, At
<1> QED
  BY <1>1, <1>2 DEF ListedIsEnding

LEMMA OtherGuest ==
    ASSUME SiteTypeOK, NEW c \in ClusterIds, NEW v, NEW x, guests' = [guests EXCEPT ![c][v] = x],
           NEW e \in ClusterIds, NEW u \in Vmids, ~(e = c /\ u = v)
    PROVE  guests'[e][u] = guests[e][u]
<1>1. guests \in [ClusterIds -> [Vmids -> GuestType]] /\ guests[c] \in [Vmids -> GuestType]
  BY SiteTyped
<1> DEFINE h == [guests[c] EXCEPT ![v] = x]
<1>2. guests' = [guests EXCEPT ![c] = h]
  BY <1>1
<1>3. \A w \in Vmids : w # v => h[w] = guests[c][w]
  BY <1>1
<1> HIDE DEF h
<1> QED
  BY <1>1, <1>2, <1>3

\* A guest is touched by nothing but a deletion, the rollback of a create, a
\* clone or a snapshot: that of an instance which is neither being deleted nor
\* rolled back nor cloned again stays, with its recovery points.
LEMMA GuestKept ==
    ASSUME SiteInv, NEW c \in ClusterIds, Moves(c), NEW i \in InstanceIds, HasGuest(i),
           instances[i].state \notin Ending,
           ~(worker[c].pc \in {"rollback", "clear"} /\ Op(c).instance = i),
           ~(RecordClone(c) /\ Op(c).instance = i)
    PROVE  /\ HasGuest(i)' /\ GuestOf(i)'.owner = GuestOf(i).owner
           /\ GuestOf(i).snapshots \subseteq GuestOf(i)'.snapshots
           /\ instances'[i].cluster = instances[i].cluster /\ proxmox_vmid'[i] = proxmox_vmid[i]
<1> DEFINE e == instances[i].cluster
           u == proxmox_vmid[i]
<1>0. SiteTypes /\ SiteTypeOK /\ guests \in [ClusterIds -> [Vmids -> GuestType]]
  BY SiteInvHas
<1>1. e \in ClusterIds /\ u \in Vmids /\ e # NoCluster /\ u # NoVmid /\ guests[e][u] # NoGuest
  BY SiteInvHas, NoVmidIsNoId DEF HasGuest, Present
<1>2. instances'[i].cluster = e
  BY <1>1, MoveState
<1>3. proxmox_vmid'[i] = u
  <2>1. ~(CallFinish(c) /\ instances'[i].state = "gone")
    <3>1. instances[i].state # "gone"
      BY <1>1, SiteInvHas DEF VmidsDistinct
    <3> QED
      BY <3>1, SiteInvHas, StateMoves DEF Ending, Live
  <2>2. ~(ClearVmid(c) /\ i = Op(c).instance)
    BY DEF ClearVmid, At
  <2> QED
    BY <2>1, <2>2, VmidEffect
<1>4. ASSUME NEW v, guests' = [guests EXCEPT ![c][v] = NoGuest], v # NoVmid,
             \/ (DestroyListed(c) \/ DestroyThrows(c)) /\ v = worker[c].vmid
             \/ (RollBackClone(c) \/ (RollbackThrows(c) /\ At(c, "rollback")))
                /\ v = proxmox_vmid[Op(c).instance]
      PROVE  guests'[e][u] = guests[e][u]
  <2>1. ~(e = c /\ u = v)
    <3>1. CASE DestroyListed(c) \/ DestroyThrows(c)
      <4>1. At(c, "destroy")
        BY <3>1 DEF DestroyListed, DestroyThrows
      <4>2. v = worker[c].vmid
        BY <1>4, <4>1 DEF RollBackClone, At
      <4>3. NotInUse(c, v)
        BY <4>1, <4>2, SiteInvHas DEF ListedIsEnding, SparesInUse
      <4> QED
        BY <4>3 DEF NotInUse
    <3>2. CASE (RollBackClone(c) \/ (RollbackThrows(c) /\ At(c, "rollback")))
               /\ v = proxmox_vmid[Op(c).instance]
      <4>1. worker[c].pc = "rollback" /\ Holding(c)
        BY <3>2 DEF RollBackClone, Holding, At
      <4>2. Active(worker[c].op)
        BY <4>1, SiteInvHas DEF RunIsSound, RunSound
      <4>3. Op(c).instance \in InstanceIds /\ instances[Op(c).instance].cluster = c
        BY <1>0, <4>1, <4>2, SiteInvHas, OpIsPlaced
      <4> QED
        BY <1>1, <3>2, <4>1, <4>3, SiteInvHas DEF VmidsDistinct
    <3> QED
      BY <1>4, <3>1, <3>2
  <2>2. NoGuest \in GuestType
    BY IdleTyped
  <2> QED
    BY <1>0, <1>1, <1>4, <2>1, <2>2, GuestSet
<1>5. ASSUME NEW v \in Vmids, guests[c][v] = NoGuest,
             guests' = [guests EXCEPT ![c][v] = [NoGuest EXCEPT !.owner = Op(c).instance]]
      PROVE  guests'[e][u] = guests[e][u]
  <2>2. ~(e = c /\ u = v)
    BY <1>1, <1>5
  <2> DEFINE x == [NoGuest EXCEPT !.owner = Op(c).instance]
  <2>3. guests' = [guests EXCEPT ![c][v] = x]
    BY <1>5
  <2> HIDE DEF x
  <2> QED
    BY <1>0, <1>1, <2>2, <2>3, OtherGuest
<1>6. CASE TakeSnapshot(c)
  <2>1. worker[c].op \in OperationIds
    BY <1>0, <1>6 DEF TakeSnapshot, InStage, At, SiteTypes, KnowsOperation
  <2>2. /\ guests'[e][u].owner = guests[e][u].owner
        /\ guests[e][u].snapshots \subseteq guests'[e][u].snapshots
    BY <1>0, <1>1, <1>6, SnapshotTaken
  <2>3. guests'[e][u] # NoGuest
    <3>1. CASE e = c /\ u = proxmox_vmid[Op(c).instance]
      <4>1. NoGuest.snapshots = {}
        BY DEF NoGuest
      <4>2. worker[c].op \in guests'[e][u].snapshots
        BY <1>0, <1>1, <1>6, <3>1, SnapshotTaken
      <4> QED
        BY <4>1, <4>2
    <3>2. CASE ~(e = c /\ u = proxmox_vmid[Op(c).instance])
      BY <1>0, <1>1, <1>6, <3>2 DEF TakeSnapshot
    <3> QED
      BY <3>1, <3>2
  <2> QED
    BY <1>1, <1>2, <1>3, <2>2, <2>3 DEF HasGuest, GuestOf, Present
<1>7. CASE guests'[e][u] = guests[e][u]
  BY <1>1, <1>2, <1>3, <1>7 DEF HasGuest, GuestOf, Present
<1> QED
  BY <1>0, <1>4, <1>5, <1>6, <1>7, GuestMoves DEF Moves

\* A run comes to the mark of a stage from the stage, and to a clone from the
\* call that makes it.
LEMMA ToMark ==
    ASSUME SiteTypes, NEW c \in ClusterIds, Moves(c), worker'[c].pc = "mark", RunIsSound,
           worker[c].pc # "mark"
    PROVE  /\ worker'[c].op = worker[c].op /\ worker'[c].stage = worker[c].stage
           /\ \/ GoesOn(c) /\ GoTo(c, "mark")
              \/ CallFinish(c) /\ worker[c].stage = "ready"
<1>0. SiteTypeOK
  BY DEF SiteTypes
<1>1. CASE GoesOn(c)
  BY <1>0, <1>1, GoesOnIs DEF Kept
<1>2. CASE Finishes(c)
  <2>1. worker[c].pc = "finish"
    BY <1>2 DEF Finishes, CallFinish, FinishThrows, At
  <2>2. /\ CallFinish(c) /\ ~worker[c].teardown /\ worker[c].outcome = "succeeded"
        /\ Kept(c) /\ worker'[c].stage = worker[c].stage
    BY <1>0, <1>2, <2>1, FinishesIs
  <2> QED
    BY <2>1, <2>2 DEF RunIsSound, RunSound, Kept, At
<1>3. CASE StartRun(c) \/ Leaves(c) \/ Claim(c) \/ \E o \in OperationIds : ListOperation(c, o)
  <2>1. Claim(c) => worker'[c].pc = "loop"
    BY DEF Claim, At
  <2> QED
    BY <1>0, <1>3, <2>1, StartRunIs, LeavesIs, ListOperationIs
<1>4. CASE NextDeletion(c) \/ DestroyThrows(c) \/ Ready(c) \/ StartStage(c) \/ Clone(c)
  BY <1>0, <1>4, NextDeletionIs, DestroyThrowsIs, ReadyIs, StartStageIs, CloneIs
<1>5. CASE Compensate(c)
  BY <1>0, <1>5, CompensateIs
<1> QED
  BY <1>1, <1>2, <1>3, <1>4, <1>5, WorkCases DEF Moves

LEMMA ToCloned ==
    ASSUME SiteTypes, NEW c \in ClusterIds, Moves(c), worker'[c].pc = "cloned"
    PROVE  Clone(c)
<1>0. SiteTypeOK
  BY DEF SiteTypes
<1>1. CASE GoesOn(c) \/ Compensate(c)
  BY <1>0, <1>1, GoesOnIs, CompensateIs
<1>2. CASE Finishes(c)
  <2>1. worker[c].pc = "finish"
    BY <1>2 DEF Finishes, CallFinish, FinishThrows, At
  <2> QED
    BY <1>0, <1>2, <2>1, FinishesIs
<1>3. CASE StartRun(c) \/ Leaves(c) \/ Claim(c) \/ \E o \in OperationIds : ListOperation(c, o)
  <2>1. Claim(c) => worker'[c].pc = "loop"
    BY DEF Claim, At
  <2> QED
    BY <1>0, <1>3, <2>1, StartRunIs, LeavesIs, ListOperationIs
<1>4. CASE NextDeletion(c) \/ DestroyThrows(c) \/ Ready(c) \/ StartStage(c)
  BY <1>0, <1>4, NextDeletionIs, DestroyThrowsIs, ReadyIs, StartStageIs
<1> QED
  BY <1>1, <1>2, <1>3, <1>4, WorkCases DEF Moves

LEMMA ClonedMoves ==
    ASSUME SiteInv, NEW c \in ClusterIds, Moves(c)
    PROVE  ClonedIsThere'
<1>0. /\ SiteTypes /\ SiteTypeOK /\ guests \in [ClusterIds -> [Vmids -> GuestType]]
      /\ IInv /\ TableInv /\ RunIsSound /\ ListedIsDelete
  BY SiteInvHas
<1>1. ASSUME NEW d \in ClusterIds, d # c, worker'[d].pc = "cloned"
      PROVE  CloneIsThere(d)'
  <2> DEFINE o == worker[d].op
             v == worker[d].vmid
  <2>1. worker'[d] = worker[d] /\ At(d, "cloned") /\ Holding(d)
    BY <1>0, <1>1, RunTyped DEF Moves, At, Holding
  <2>2. /\ o \in OperationIds /\ Active(o) /\ worker[d].stage = "proxmox_api_call"
        /\ operations[o].kind \in {"create", "delete"} /\ v \in Vmids
        /\ guests[d][v].owner = operations[o].instance
    BY <2>1, SiteInvHas DEF KnowsOperation, ClonedIsThere, CloneIsThere, At, Op
  <2>3. operations'[o].state \in ActiveStates
    BY <1>0, <1>1, <2>1, <2>2, OtherRuns DEF Active
  <2>4. operations'[o].instance = operations[o].instance /\ operations'[o].kind = operations[o].kind
    BY <1>0, <2>2, <2>3, StillActive
  <2>5. guests'[d][v].owner = guests[d][v].owner
    <3>1. ASSUME NEW x, NEW w, guests' = [guests EXCEPT ![c][w] = x]
          PROVE  guests'[d] = guests[d]
      BY <1>0, <1>1, <3>1
    <3>2. CASE TakeSnapshot(c)
      BY <1>0, <2>2, <3>2, SnapshotTaken
    <3> QED
      BY <1>0, <3>1, <3>2, GuestMoves DEF Moves
  <2> QED
    BY <2>1, <2>2, <2>4, <2>5 DEF CloneIsThere, At, Op
<1>2. ASSUME worker'[c].pc = "cloned" PROVE CloneIsThere(c)'
  <2>1. Clone(c)
    BY <1>0, <1>2, ToCloned
  <2>2. /\ worker[c].op \in OperationIds /\ operations' = operations
        /\ worker[c].stage = "proxmox_api_call" /\ Op(c).kind \in {"create", "delete"}
    BY <1>0, <2>1 DEF Clone, InStage, At, SiteTypes, KnowsOperation, tables
  <2>3. PICK v \in Vmids :
            /\ guests' = [guests EXCEPT ![c][v] = [NoGuest EXCEPT !.owner = Op(c).instance]]
            /\ worker'[c].vmid = v
    BY <1>0, <1>2, <2>1, CloneIs
  <2>4. worker'[c].op = worker[c].op /\ worker'[c].stage = worker[c].stage
    BY <1>0, <2>1, CloneIs
  <2>5. guests'[c][v].owner = Op(c).instance
    BY <1>0, <2>3 DEF NoGuest
  <2> QED
    BY <2>2, <2>3, <2>4, <2>5 DEF CloneIsThere, At, Op
<1> QED
  BY <1>1, <1>2 DEF ClonedIsThere, CloneIsThere, At

\* An instance in use is neither being deleted, nor rolled back, nor cloned.
LEMMA LiveGuestKept ==
    ASSUME SiteInv, NEW c \in ClusterIds, Moves(c), NEW i \in InstanceIds, HasGuest(i),
           instances[i].state \in Live
    PROVE  /\ HasGuest(i)' /\ GuestOf(i)'.owner = GuestOf(i).owner
           /\ GuestOf(i).snapshots \subseteq GuestOf(i)'.snapshots
<1>1. ~(worker[c].pc \in {"rollback", "clear"} /\ Op(c).instance = i)
  <2> SUFFICES ASSUME worker[c].pc \in {"rollback", "clear"}, Op(c).instance = i PROVE FALSE
    OBVIOUS
  <2>1. worker[c].op \in OperationIds /\ Active(worker[c].op) /\ Op(c).kind = "create"
    BY SiteInvHas DEF KnowsOperation, RunIsSound, RunSound
  <2> QED
    BY <2>1, SiteInvHas DEF TableInv, BusyAsAsked, Op, Live
<1>2. ~(RecordClone(c) /\ Op(c).instance = i)
  <2> SUFFICES ASSUME RecordClone(c), Op(c).instance = i PROVE FALSE
    OBVIOUS
  <2>1. worker[c].op \in OperationIds /\ Active(worker[c].op) /\ Op(c).kind \in {"create", "delete"}
    BY RecordedIn, SiteInvHas DEF KnowsOperation, ClonedIsThere, CloneIsThere, At
  <2> QED
    BY <2>1, SiteInvHas DEF TableInv, BusyAsAsked, Op, Live
<1>3. instances[i].state \notin Ending
  BY DEF Live, Ending
<1> QED
  BY <1>1, <1>2, <1>3, GuestKept

\* The call of Proxmox is made by the clone that is recorded, by the snapshot
\* that is taken, or was made before.
LEMMA CallMoves ==
    ASSUME SiteInv, NEW c \in ClusterIds, Moves(c), NEW o \in OperationIds, CallMade(o)',
           operations[o].kind \in {"create", "snapshot"}
    PROVE  \/ CallMade(o)
           \/ RecordClone(c) /\ worker[c].op = o /\ GoTo(c, "mark")
           \/ TakeSnapshot(c) /\ worker[c].op = o
<1>0. SiteTypes /\ SiteTypeOK /\ RunIsSound
  BY SiteInvHas
<1>1. CASE operation_stages'[o]["proxmox_api_call"] = "done"
  <2>1. "proxmox_api_call" \in Stages
    BY StagesAre
  <2>2. operation_stages[o]["proxmox_api_call"] = "done"
        \/ (MarkDone(c) /\ o = worker[c].op /\ worker[c].stage = "proxmox_api_call")
    BY <1>0, <1>1, <2>1, StageMoved
  <2> QED
    BY <2>2 DEF CallMade, StagePassed, MarkDone
<1>2. ASSUME NEW d \in ClusterIds, worker'[d].pc = "mark", worker'[d].stage = "proxmox_api_call",
             worker'[d].op = o, ~CallMade(o)
      PROVE  (RecordClone(c) \/ TakeSnapshot(c)) /\ worker[c].op = o /\ GoTo(c, "mark")
  <2>1. ~(worker[d].pc = "mark" /\ worker[d].stage = "proxmox_api_call" /\ worker[d].op = o)
    BY <1>2 DEF CallMade, At
  <2>2. d = c
    BY <1>0, <1>2, <2>1, RunTyped DEF Moves
  <2>3. worker[c].pc # "mark"
    <3>1. SUFFICES ASSUME worker[c].pc = "mark" PROVE FALSE
      OBVIOUS
    <3>2. MarkDone(c) \/ Crash(c)
      BY <3>1 DEF Moves, Work, DeletionPass, StartRun, NextDeletion, DestroyListed, DestroyThrows,
         EndDeletions, OneStage, ListOperation, StartStage, NoPendingStage, ReserveCapacity,
         ReserveThrows, Clone, RecordClone, TakeSnapshot, RollBackGuest, ResizeGuest, Verify,
         VerifyLater, StageThrows, Ready, InStage, Compensate, MarkFailed, RollBackClone,
         ClearVmid,
         RollbackThrows, CallFinish, FinishThrows, Claim, EndRun, At
    <3> QED
      BY <1>0, <1>2, <2>2, <3>2, LeavesIs DEF Leaves
  <2>4. /\ worker[c].op = o /\ worker[c].stage = "proxmox_api_call"
        /\ GoesOn(c) /\ GoTo(c, "mark")
    BY <1>0, <1>2, <2>2, <2>3, ToMark
  <2>5. ~StageThrows(c) /\ ~ReserveThrows(c) /\ ~DestroyListed(c)
    <3>1. ASSUME GoTo(c, "failing") PROVE FALSE
      <4>1. "failing" \in ProgramPoints
        BY DEF ProgramPoints
      <4> QED
        BY <1>0, <1>2, <2>2, <3>1, <4>1, WentTo
    <3>2. ASSUME GoTo(c, "finish") PROVE FALSE
      <4>1. "finish" \in ProgramPoints
        BY DEF ProgramPoints
      <4> QED
        BY <1>0, <1>2, <2>2, <3>2, <4>1, WentTo
    <3> QED
      BY <3>1, <3>2 DEF StageThrows, ReserveThrows, DestroyListed
  <2> QED
    BY <2>4, <2>5 DEF GoesOn, ReserveCapacity, RollBackGuest, ResizeGuest, Verify, InStage, Op
<1> QED
  BY <1>1, <1>2 DEF CallMade, StagePassed, At

LEMMA CallMovesOn ==
    ASSUME SiteInv, FailuresAreTold, NEW c \in ClusterIds, Moves(c)
    PROVE  CallHolds'
<1>0. /\ SiteTypes /\ SiteTypeOK /\ IInv /\ TableInv /\ RunIsSound /\ ListedIsDelete
      /\ CallHolds /\ LiveHasGuest
      /\ guests \in [ClusterIds -> [Vmids -> GuestType]]
  BY SiteInvHas
<1> SUFFICES ASSUME NEW o \in OperationIds, operations'[o].state \in ActiveStates, CallMade(o)',
                    ~Handled(o)'
             PROVE  CallDone(o)'
  BY DEF CallHolds, Active
<1>1. PICK i \in InstanceIds :
        /\ i = operations[o].instance /\ operations'[o].instance = i
        /\ Active(o) /\ ~(CallFinish(c) /\ worker[c].op = o)
        /\ operations'[o].kind = operations[o].kind
  BY <1>0, StillActive
<1>2. ~Handled(o)
  BY <1>0, HandledStays
<1>3. CASE RecordClone(c) /\ worker[c].op = o
  <2> DEFINE v == worker[c].vmid
  <2>1. /\ v \in Vmids /\ c # NoCluster /\ instances' = instances /\ instances[i].cluster = c
        /\ guests' = guests /\ At(c, "cloned")
    BY <1>1, <1>3, RecordedIn DEF Op
  <2>2. GoTo(c, "mark") /\ proxmox_vmid'[i] = v
    <3>1. ~GoTo(c, "failing")
      <4>1. SUFFICES ASSUME GoTo(c, "failing") PROVE FALSE
        OBVIOUS
      <4>2. worker'[c].pc = "failing" /\ worker'[c].op = o
        BY <1>0, <1>3, <4>1, WentTo DEF ProgramPoints, Kept
      <4> QED
        BY <4>2 DEF Handled, HandlingFailure
    <3>2. proxmox_vmid' = [proxmox_vmid EXCEPT ![i] = v] /\ GoTo(c, "mark")
      BY <1>1, <1>3, <3>1 DEF RecordClone, Op
    <3> QED
      BY <1>1, <3>2, SiteInvHas
  <2>3. guests[c][v].owner = i /\ operations[o].kind \in {"create", "delete"}
    BY <1>1, <1>3, <2>1, SiteInvHas DEF ClonedIsThere, CloneIsThere, Op
  <2>4. guests[c][v] # NoGuest /\ v # NoVmid
    BY <1>1, <2>1, <2>3, IdleTyped, NullsAreNotIds, NoVmidIsNoId
  <2> QED
    BY <1>1, <2>1, <2>2, <2>3, <2>4 DEF CallDone, HasGuest, Present, GuestOf
<1>4. CASE TakeSnapshot(c) /\ worker[c].op = o
  <2>1. /\ operations[o].kind = "snapshot" /\ HasGuest(i) /\ Holding(c)
        /\ UNCHANGED <<tables, operation_stages, proxmox_vmid>>
    BY <1>1, <1>4 DEF TakeSnapshot, Op, InStage, Holding, At
  <2>2. instances[i].cluster = c /\ proxmox_vmid[i] \in Vmids
    BY <1>0, <1>1, <1>4, <2>1, SiteInvHas, OpIsPlaced DEF Op, HasGuest, Present
  <2>3. o \in guests'[c][proxmox_vmid[i]].snapshots
    BY <1>0, <1>1, <1>4, <2>2, SnapshotTaken DEF Op
  <2> QED
    BY <1>1, <2>1, <2>2, <2>3 DEF CallDone, GuestOf, tables
<1>5. CASE ~(RecordClone(c) /\ worker[c].op = o) /\ ~(TakeSnapshot(c) /\ worker[c].op = o)
  <2>1. operations[o].kind \in {"create", "snapshot"} => CallMade(o)
    BY <1>5, CallMoves
  <2>2. CASE operations[o].kind = "create"
    <3>1. HasGuest(i) /\ GuestOf(i).owner = i /\ instances[i].state = "provisioning"
      BY <1>0, <1>1, <1>2, <2>1, <2>2 DEF CallHolds, CallDone, TableInv, BusyAsAsked
    <3>2. ASSUME Holding(c), Active(worker[c].op), Op(c).instance = i PROVE worker[c].op = o
      BY <1>0, <1>1, <3>2, OpIsPlaced
    <3>3. ~(worker[c].pc \in {"rollback", "clear"} /\ Op(c).instance = i)
      <4>1. worker[c].pc \in {"rollback", "clear"} =>
                HandlingFailure(c) /\ Holding(c) /\ Active(worker[c].op)
        BY <1>0 DEF RunIsSound, RunSound, HandlingFailure, Holding
      <4> QED
        BY <1>2, <3>2, <4>1 DEF Handled
    <3>4. ~(RecordClone(c) /\ Op(c).instance = i)
      BY <1>5, <3>2, RecordedIn
    <3>5. HasGuest(i)' /\ GuestOf(i)'.owner = i
      BY <1>1, <3>1, <3>3, <3>4, GuestKept DEF Ending
    <3> QED
      BY <1>1, <2>2, <3>5 DEF CallDone
  <2>3. CASE operations[o].kind = "snapshot"
    <3>1. o \in GuestOf(i).snapshots /\ instances[i].state \in Live
      BY <1>0, <1>1, <1>2, <2>1, <2>3 DEF CallHolds, CallDone, TableInv, BusyAsAsked
    <3>2. HasGuest(i)
      BY <1>0, <1>1, <3>1 DEF LiveHasGuest
    <3>3. o \in GuestOf(i)'.snapshots
      BY <1>1, <3>1, <3>2, LiveGuestKept
    <3> QED
      BY <1>1, <2>3, <3>3 DEF CallDone
  <2>4. CASE operations[o].kind \notin {"create", "snapshot"}
    BY <1>1, <2>4 DEF CallDone
  <2> QED
    BY <2>2, <2>3, <2>4
<1> QED
  BY <1>3, <1>4, <1>5

\* The operation that a run is about to report as succeeded has its effect.
LEMMA FinishIsTrue ==
    ASSUME SiteInv, NEW c \in ClusterIds, CallFinish(c), Active(worker[c].op),
           worker[c].outcome = "succeeded", Op(c).kind # "delete"
    PROVE  CallDone(worker[c].op)
<1> DEFINE o == worker[c].op
<1>1. worker[c].pc = "finish" /\ o \in OperationIds /\ SiteTypes
  BY SiteInvHas, FinishCalls DEF CallFinish, At
<1>2. ~worker[c].teardown
  BY <1>1, SiteInvHas DEF ListedIsDelete, ListedDeletes
<1>3. worker[c].stage = "ready" /\ OnAStage(c) /\ Holding(c)
  BY <1>1, <1>2, SiteInvHas DEF RunIsSound, RunSound, OnAStage, Holding, At
<1>4. StagePassed(o, "proxmox_api_call")
  <2>1. "proxmox_api_call" \in Stages /\ Before("proxmox_api_call", "ready")
    BY StagesAre DEF Before
  <2> QED
    BY <1>3, <2>1, SiteInvHas DEF InOrder, Ordered
<1>5. ~Handled(o)
  <2> SUFFICES ASSUME NEW d \in ClusterIds, HandlingFailure(d), worker[d].op = o PROVE FALSE
    BY DEF Handled
  <2>1. d = c
    BY <1>1, <1>3, HandlerHolds, HolderIs
  <2> QED
    BY <1>1, <2>1 DEF HandlingFailure, FinishingFailure
<1> QED
  BY <1>1, <1>4, <1>5, SiteInvHas DEF CallHolds, CallMade

\* A finish touches no guest, and no row that is not gone.
LEMMA FinishSpares ==
    ASSUME SiteInv, NEW c \in ClusterIds, Moves(c), CallFinish(c), NEW i \in InstanceIds,
           instances[i].cluster # NoCluster, instances'[i].state # "gone"
    PROVE  /\ HasGuest(i) => HasGuest(i)'
           /\ GuestOf(i)' = GuestOf(i)
<1>1. guests' = guests
  BY DEF CallFinish
<1>2. instances'[i].cluster = instances[i].cluster
  BY MoveState
<1>3. proxmox_vmid'[i] = proxmox_vmid[i]
  BY VmidEffect DEF RecordClone, ClearVmid, CallFinish, At
<1> QED
  BY <1>1, <1>2, <1>3 DEF HasGuest, GuestOf, Present

LEMMA LiveMoves ==
    ASSUME SiteInv, NEW c \in ClusterIds, Moves(c)
    PROVE  LiveHasGuest'
<1>0. /\ SiteTypes /\ IInv /\ TableInv /\ RunIsSound /\ ListedIsDelete /\ LiveHasGuest
  BY SiteInvHas
<1>1. ASSUME NEW i \in InstanceIds, instances'[i].state \in Live
      PROVE  HasGuest(i)' /\ GuestOf(i)'.owner = i
  <2>1. CASE instances[i].state \in Live
    BY <1>0, <2>1, LiveGuestKept DEF LiveHasGuest
  <2>2. CASE instances[i].state \notin Live
    <3>1. /\ CallFinish(c) /\ Active(worker[c].op) /\ Op(c).kind = "create"
          /\ Op(c).instance = i /\ worker[c].outcome = "succeeded"
          /\ instances'[i].state = "ready"
      BY <1>0, <1>1, <2>2, StateMoves DEF Live
    <3>2. HasGuest(i) /\ GuestOf(i).owner = i
      BY <3>1, FinishIsTrue DEF CallDone, Op
    <3> QED
      BY <3>1, <3>2, FinishSpares DEF HasGuest
  <2> QED
    BY <2>1, <2>2
<1>2. ASSUME NEW s \in OperationIds, NEW i, i = operations'[s].instance,
             instance_snapshots'[s] = "ready", instances'[i].state \in Live
      PROVE  s \in GuestOf(i)'.snapshots
  <2>1. operations[s].instance \in InstanceIds /\ instances[operations[s].instance].state \in Live \cup Ending
    BY <1>0, <1>2, SnapshotMoves DEF TableInv, SnapshotOfLive
  <2>2. i = operations[s].instance /\ i \in InstanceIds
    BY <1>0, <1>2, <2>1, InstanceStays
  <2>3. instances[i].state \in Live
    BY <1>2, <2>1, <2>2, MoveState DEF Live, Ending
  <2>4. HasGuest(i) /\ instances[i].cluster # NoCluster
    BY <1>0, <2>2, <2>3 DEF LiveHasGuest, HasGuest
  <2>5. CASE instance_snapshots[s] = "ready"
    <3>1. s \in GuestOf(i).snapshots
      BY <1>0, <2>2, <2>3, <2>5 DEF LiveHasGuest
    <3> QED
      BY <2>2, <2>3, <2>4, <3>1, LiveGuestKept
  <2>6. CASE /\ CallFinish(c) /\ Active(s) /\ worker[c].op = s /\ operations[s].kind = "snapshot"
             /\ worker[c].outcome = "succeeded"
    <3>1. s \in GuestOf(i).snapshots
      BY <2>2, <2>6, FinishIsTrue DEF CallDone, Op
    <3> QED
      BY <1>2, <2>2, <2>4, <2>6, <3>1, FinishSpares DEF Live
  <2> QED
    BY <1>0, <1>2, <2>5, <2>6, SnapshotMoves
<1>3. ASSUME NEW i \in InstanceIds, instances'[i].state \in Live
      PROVE  (HasGuest(i) /\ GuestOf(i).owner = i)'
  BY <1>1, <1>3
<1>4. ASSUME NEW s \in OperationIds, instance_snapshots'[s] = "ready",
             instances'[operations'[s].instance].state \in Live
      PROVE  (s \in GuestOf(operations[s].instance).snapshots)'
  <2>1. PICK i : i = operations'[s].instance
    OBVIOUS
  <2>2. s \in GuestOf(i)'.snapshots
    BY <1>2, <1>4, <2>1
  <2> QED
    BY <2>1, <2>2 DEF GuestOf
<1> QED
  BY <1>3, <1>4 DEF LiveHasGuest

LEMMA GuestInvMoves ==
    ASSUME SiteInv, FailuresAreTold, NEW c \in ClusterIds, Moves(c)
    PROVE  GuestInv'
<1>1. VmidsDistinct' /\ ListedIsEnding' /\ ClonedIsThere'
  BY DistinctMoves, EndingMoves, ClonedMoves
<1>2. CallHolds' /\ LiveHasGuest'
  BY CallMovesOn, LiveMoves
<1> QED
  BY <1>1, <1>2 DEF GuestInv

\* A request touches no guest, and the row of an instance that has one keeps
\* its cluster.
LEMMA RequestSpares ==
    ASSUME SiteInv, NEW q \in OperationIds, SiteRequest(q), NEW i \in InstanceIds
    PROVE  /\ instances[i].state # "none" => /\ instances'[i].cluster = instances[i].cluster
                                             /\ HasGuest(i) => HasGuest(i)'
                                             /\ GuestOf(i)' = GuestOf(i)
           /\ proxmox_vmid[i] # NoVmid =>
                /\ instances[i].state \notin {"none", "gone"} /\ instances[i].cluster # NoCluster
                /\ instances'[i].state \notin {"none", "gone"}
           /\ instances[i].state \in Ending => instances'[i].state \in Ending
           /\ instances'[i].state \in Live => instances[i].state \in Live
<1>0. proxmox_vmid' = proxmox_vmid /\ guests' = guests
  BY DEF SiteRequest, siteVars
<1>1. PICK k \in InstanceIds :
                /\ \A j \in InstanceIds \ {k} : instances'[j] = instances[j]
                /\ \/ instances[k].state = "none" /\ instances'[k].state = "provisioning"
                   \/ /\ instances'[k].cluster = instances[k].cluster
                      /\ \/ instances[k].state \in Recoverable /\ instances'[k].state \in Live
                         \/ instances[k].state \in Deletable /\ instances'[k].state = "deleting"
  BY SiteInvHas, RequestIs
<1>2. /\ instances[i].state # "none" => instances'[i].cluster = instances[i].cluster
      /\ instances[i].state \in Ending => instances'[i].state \in Ending
      /\ instances'[i].state \in Live => instances[i].state \in Live
      /\ instances[i].state \notin {"none", "gone"} => instances'[i].state \notin {"none", "gone"}
  BY <1>1 DEF Ending, Live, Recoverable, Deletable
<1>3. proxmox_vmid[i] # NoVmid =>
          instances[i].state \notin {"none", "gone"} /\ instances[i].cluster # NoCluster
  BY SiteInvHas DEF VmidsDistinct
<1>4. instances[i].state # "none" => /\ HasGuest(i) => HasGuest(i)'
                                     /\ GuestOf(i)' = GuestOf(i)
  BY <1>0, <1>2 DEF HasGuest, GuestOf, Present
<1> QED
  BY <1>2, <1>3, <1>4

LEMMA GuestInvRequest ==
    ASSUME SiteInv, NEW q \in OperationIds, SiteRequest(q)
    PROVE  GuestInv'
<1>0. /\ proxmox_vmid' = proxmox_vmid /\ guests' = guests /\ worker' = worker
      /\ operation_stages' = operation_stages /\ SiteTypes
  BY SiteInvHas DEF SiteRequest, siteVars
<1>1. /\ operations[q].state = "none" /\ operations'[q].state = "pending"
      /\ \A o \in OperationIds : o # q => operations'[o] = operations[o]
      /\ \A o \in OperationIds : operations[o].state # "none" => operations'[o] = operations[o]
  BY <1>0, RequestMade
<1>2. \A c \in ClusterIds : Holding(c) =>
          worker[c].op \in OperationIds /\ operations[worker[c].op].state # "none"
  BY <1>0, HeldIsUsed
<1>3. VmidsDistinct'
  BY <1>0, RequestSpares, SiteInvHas DEF VmidsDistinct
<1>4. ASSUME NEW c \in ClusterIds, NEW v, v # NoVmid, NotInUse(c, v)
      PROVE  NotInUse(c, v)'
  BY <1>0, <1>4, RequestSpares DEF NotInUse
<1>5. ListedIsEnding'
  BY <1>0, <1>4, SiteInvHas DEF ListedIsEnding, SparesInUse, At
<1>6. ClonedIsThere'
  <2> SUFFICES ASSUME NEW c \in ClusterIds, worker[c].pc = "cloned" PROVE CloneIsThere(c)'
    BY <1>0 DEF ClonedIsThere, CloneIsThere, At
  <2>1. operations'[worker[c].op] = operations[worker[c].op]
    BY <1>1, <1>2 DEF Holding
  <2> QED
    BY <1>0, <2>1, SiteInvHas DEF ClonedIsThere, CloneIsThere, At, Op
<1>7. CallHolds'
  <2> SUFFICES ASSUME NEW o \in OperationIds, operations'[o].state \in ActiveStates, CallMade(o)',
                      ~Handled(o)'
               PROVE  CallDone(o)'
    BY DEF CallHolds, Active
  <2>1. CallMade(o) /\ ~Handled(o)
    BY <1>0 DEF CallMade, Handled, HandlingFailure, FinishingFailure, StagePassed, At
  <2>2. o # q
    <3>1. "proxmox_api_call" \in Stages
      BY StagesAre
    <3>2. operation_stages[q]["proxmox_api_call"] = "pending"
      BY <1>1, <3>1, SiteInvHas DEF StageInv, UnusedIsPending
    <3>3. \A c \in ClusterIds : At(c, "mark") => worker[c].op # q
      BY <1>1, <1>2 DEF Holding, At
    <3> QED
      BY <2>1, <3>2, <3>3 DEF CallMade, StagePassed
  <2>3. operations'[o] = operations[o] /\ Active(o)
    BY <1>1, <2>2 DEF Active
  <2>4. CallDone(o)
    BY <2>1, <2>3, SiteInvHas DEF CallHolds
  <2>5. PICK i \in InstanceIds : i = operations[o].instance
    BY <2>3, SiteInvHas DEF IInv, ActiveHasInstance
  <2>6. instances[i].state # "none"
    BY <2>5, SiteInvHas, NullsAreNotIds DEF IInv, RefersToRow
  <2>7. (HasGuest(i) => HasGuest(i)') /\ GuestOf(i)' = GuestOf(i)
    BY <2>6, RequestSpares
  <2> QED
    BY <2>3, <2>4, <2>5, <2>7 DEF CallDone
<1>8. LiveHasGuest'
  <2>1. ASSUME NEW i \in InstanceIds, instances'[i].state \in Live
        PROVE  (HasGuest(i) /\ GuestOf(i).owner = i)'
    <3>1. instances[i].state \in Live /\ instances[i].state # "none"
      BY <2>1, RequestSpares DEF Live
    <3> QED
      BY <3>1, RequestSpares, SiteInvHas DEF LiveHasGuest
  <2>2. ASSUME NEW s \in OperationIds, instance_snapshots'[s] = "ready",
               instances'[operations'[s].instance].state \in Live
        PROVE  (s \in GuestOf(operations[s].instance).snapshots)'
    <3>1. instance_snapshots[s] = "ready" /\ operations[q].instance = NoInstance
      BY <2>2, SiteInvHas, RequestIs
    <3>2. PICK i \in InstanceIds : i = operations[s].instance
      BY <3>1, SiteInvHas DEF TableInv, SnapshotOfLive
    <3>3. s # q /\ operations'[s] = operations[s]
      BY <1>1, <3>1, <3>2, NullsAreNotIds
    <3>4. instances[i].state \in Live /\ instances[i].state # "none"
      BY <2>2, <3>2, <3>3, RequestSpares DEF Live
    <3>5. s \in GuestOf(i).snapshots /\ GuestOf(i)' = GuestOf(i)
      BY <3>1, <3>2, <3>4, SiteInvHas, RequestSpares DEF LiveHasGuest
    <3> QED
      BY <3>2, <3>3, <3>5 DEF GuestOf
  <2> QED
    BY <2>1, <2>2 DEF LiveHasGuest
<1> QED
  BY <1>3, <1>5, <1>6, <1>7, <1>8 DEF GuestInv

-----------------------------------------------------------------------------
(* The invariance.                                                         *)

LEMMA TableInvStutter ==
    ASSUME TableInv, UNCHANGED vars
    PROVE  TableInv'
<1>1. instances' = instances /\ operations' = operations /\ instance_snapshots' = instance_snapshots
  BY DEF vars, tables
<1> QED
  BY <1>1 DEF TableInv, BusyAsAsked, CreateTold, SnapshotOfLive, Active

LEMMA GuestInvStutter ==
    ASSUME GuestInv, UNCHANGED vars
    PROVE  GuestInv'
<1>1. /\ worker' = worker /\ operation_stages' = operation_stages /\ operations' = operations
      /\ guests' = guests /\ proxmox_vmid' = proxmox_vmid /\ instances' = instances
      /\ instance_snapshots' = instance_snapshots
  BY DEF vars, tables, siteVars
<1>2. VmidsDistinct'
  BY <1>1 DEF GuestInv, VmidsDistinct
<1>3. ListedIsEnding'
  BY <1>1 DEF GuestInv, ListedIsEnding, SparesInUse, NotInUse, At
<1>4. ClonedIsThere'
  BY <1>1 DEF GuestInv, ClonedIsThere, CloneIsThere, At, Op
<1>5. CallHolds'
  <2>1. ASSUME NEW o \in OperationIds
        PROVE  /\ Active(o)' <=> Active(o)
               /\ CallMade(o)' <=> CallMade(o)
               /\ Handled(o)' <=> Handled(o)
               /\ CallDone(o)' <=> CallDone(o)
    BY <1>1
       DEF Active, CallMade, StagePassed, Handled, HandlingFailure, FinishingFailure, CallDone,
                HasGuest, GuestOf, Present, At
  <2> QED
    BY <2>1 DEF GuestInv, CallHolds
<1>6. LiveHasGuest'
  BY <1>1 DEF GuestInv, LiveHasGuest, HasGuest, GuestOf, Present
<1> QED
  BY <1>2, <1>3, <1>4, <1>5, <1>6 DEF GuestInv

LEMMA GuestsInit == SiteInit => TableInv /\ GuestInv
<1> SUFFICES ASSUME SiteInit PROVE TableInv /\ GuestInv
  OBVIOUS
<1>1. \A c \in ClusterIds : worker[c].pc = "idle" /\ worker[c].pending = {}
  BY IdleTyped DEF SiteInit
<1>2. /\ \A o \in OperationIds : /\ operations[o].state = "none"
                                 /\ operations[o].instance = NoInstance
                                 /\ instance_snapshots[o] = "none"
      /\ \A i \in InstanceIds : instances[i].state = "none" /\ proxmox_vmid[i] = NoVmid
  BY DEF SiteInit, Init, NoOperationRow, NoInstanceRow
<1>3. TableInv
  BY <1>2 DEF TableInv, BusyAsAsked, CreateTold, SnapshotOfLive, Active, ActiveStates
<1>4. VmidsDistinct /\ ListedIsEnding /\ ClonedIsThere
  BY <1>1, <1>2 DEF VmidsDistinct, ListedIsEnding, SparesInUse, ClonedIsThere, CloneIsThere, At
<1>5. CallHolds /\ LiveHasGuest
  BY <1>2 DEF CallHolds, Active, ActiveStates, LiveHasGuest, Live
<1> QED
  BY <1>3, <1>4, <1>5 DEF GuestInv

LEMMA TablesNext ==
    ASSUME IInv, [Next]_tables
    PROVE  IInv'
BY StepKeepsIInv, StutterKeepsIInv DEF Next

LEMMA SiteInvNext ==
    ASSUME FailuresAreTold, SiteInv, [SiteNext]_vars
    PROVE  SiteInv'
<1>0. SiteTypes /\ IInv /\ StageInv /\ TableInv /\ GuestInv /\ RunIsSound /\ ListedIsDelete
  BY SiteInvHas DEF SiteInv
<1>1. SiteTypes'
  BY <1>0, SiteTypesNext
<1>2. IInv'
  BY <1>0, StepImplements, TablesNext
<1>3. StageInv'
  BY <1>0, StageInvNext
<1>4. CASE UNCHANGED vars
  BY <1>0, <1>1, <1>2, <1>3, <1>4, TableInvStutter, GuestInvStutter DEF SiteInv
<1>5. ASSUME NEW q \in OperationIds, SiteRequest(q) PROVE TableInv' /\ GuestInv'
  BY <1>0, <1>5, TableRequest, GuestInvRequest
<1>6. ASSUME NEW c \in ClusterIds, Moves(c) PROVE TableInv' /\ GuestInv'
  BY <1>0, <1>2, <1>6, TableMoves, GuestInvMoves
<1>7. CASE SiteNext
  <2>1. TableInv' /\ GuestInv'
    BY <1>5, <1>6, <1>7 DEF SiteNext, Moves
  <2> QED
    BY <1>1, <1>2, <1>3, <2>1 DEF SiteInv
<1> QED
  BY <1>4, <1>7

LEMMA SiteInvHolds ==
    ASSUME FailuresAreTold
    PROVE  SiteSpec => []SiteInv
<1>1. SiteInit => SiteInv
  BY SiteTypesInit, InitIInv, StageInvInit, GuestsInit DEF SiteInit, SiteInv
<1>2. SiteInv /\ [SiteNext]_vars => SiteInv'
  BY SiteInvNext
<1> QED
  BY <1>1, <1>2, PTL DEF SiteSpec

-----------------------------------------------------------------------------
(* The theorems.                                                           *)

\* A usable instance has its own guest, and a recovery point shown as ready
\* exists on it: no failed stage, no finish made twice, no rollback and no
\* deletion through a vmid that has been used again takes it away
\* (deploy/site-worker/index.js:638-720, 2270-2294).
THEOREM LiveAlwaysHasGuest ==
    ASSUME FailuresAreTold
    PROVE  SiteSpec => []LiveHasGuest
<1>1. SiteInv => LiveHasGuest
  BY SiteInvHas
<1> QED
  BY <1>1, SiteInvHolds, PTL

\* No step of any worker destroys the guest of an instance in use: what the
\* deletion pass has listed stays a deletion until it is destroyed, and the
\* rollback is of a create that has never been usable
\* (deploy/site-worker/index.js:1431-1459).
THEOREM LiveGuestsAreSpared ==
    ASSUME FailuresAreTold
    PROVE  SiteSpec => DestroysNoLiveGuest
<1>1. SiteInv /\ [SiteNext]_vars =>
        [\A i \in InstanceIds :
            HasGuest(i) /\ instances[i].state \in Live => HasGuest(i)']_vars
  <2> SUFFICES ASSUME SiteInv, SiteNext, NEW i \in InstanceIds, HasGuest(i), instances[i].state \in Live
               PROVE  HasGuest(i)'
    OBVIOUS
  <2>1. ASSUME NEW q \in OperationIds, SiteRequest(q) PROVE HasGuest(i)'
    BY <2>1, RequestSpares DEF Live
  <2>2. ASSUME NEW c \in ClusterIds, Moves(c) PROVE HasGuest(i)'
    BY <2>2, LiveGuestKept
  <2> QED
    BY <2>1, <2>2 DEF SiteNext, Moves
<1> QED
  BY <1>1, SiteInvHolds, PTL DEF SiteSpec, DestroysNoLiveGuest

-----------------------------------------------------------------------------
(* The inductive invariant of the guests that nobody names.                *)

\* The worker gets to know of every clone it makes, and no operator asks for
\* a delete.
ClonesAreKnown ==
    /\ {"task_unseen", "record_lost", "mark_lost", "clone_crash"} \cap Faults = {}
    /\ "operator_delete" \notin Intents

AtWork(c) == Holding(c) /\ ~At(c, "listed")

\* No delete goes through the stages, ...
NoStagedDelete ==
    /\ \A o \in OperationIds : operations[o].kind = "delete" => ~operations[o].staged
    /\ \A c \in ClusterIds : AtWork(c) => Op(c).kind # "delete"

\* ... the stage a run is in is open, ...
StageIsOpen(c) ==
    worker[c].pc \in {"stage", "cloned"} => operation_stages[worker[c].op][worker[c].stage] = "active"

StagesAreOpen == \A c \in ClusterIds : StageIsOpen(c)

\* ... and an instance has no vmid until its create has cloned a guest.
ClonesOnce ==
    \A o \in OperationIds :
        Active(o) /\ operations[o].kind = "create" /\ ~CallMade(o) /\ ~Handled(o) =>
            proxmox_vmid[operations[o].instance] = NoVmid

\* A vmid is cleared when its guest has been destroyed.
GoneBeforeClear(c) ==
    At(c, "clear") => \A v \in Vmids : proxmox_vmid[Op(c).instance] = v => guests[c][v] = NoGuest

\* What a run has listed for deletion is what the row still says, ...
DeleteIsOf(c, o, v) ==
    Active(o) =>
        /\ proxmox_vmid[operations[o].instance] = v
        /\ v # NoVmid => instances[operations[o].instance].cluster = c

ListedAsIs(c) ==
    /\ \A d \in worker[c].pending : DeleteIsOf(c, d.op, d.vmid)
    /\ worker[c].pc \in {"destroy", "finish"} /\ worker[c].teardown =>
          DeleteIsOf(c, worker[c].op, worker[c].vmid)

\* ... and is gone when the run reports it so.
GoneBeforeFinish(c) ==
    At(c, "finish") /\ worker[c].teardown /\ worker[c].outcome = "succeeded" =>
        \A v \in Vmids : worker[c].vmid = v => guests[c][v] = NoGuest

DestroysFirst == \A c \in ClusterIds : GoneBeforeClear(c) /\ ListedAsIs(c) /\ GoneBeforeFinish(c)

OrphanInv == NoStagedDelete /\ StagesAreOpen /\ ClonesOnce /\ DestroysFirst /\ NoOrphanGuest

-----------------------------------------------------------------------------
(* Each part of the invariant, for a step of a run.                        *)

\* A run is at work on an operation it was at work on before, or starts a
\* stage of it.
LEMMA WorksOn ==
    ASSUME SiteTypes, NEW c \in ClusterIds, Moves(c), AtWork(c)'
    PROVE  /\ worker'[c].op = worker[c].op
           /\ AtWork(c) \/ StartStage(c)
<1> USE DEF AtWork, Holding, At
<1>0. SiteTypeOK /\ KnowsOperation
  BY DEF SiteTypes
<1>1. CASE StartRun(c) \/ Leaves(c) \/ Claim(c) \/ \E o \in OperationIds : ListOperation(c, o)
  <2>1. Claim(c) => worker'[c].pc = "loop"
    BY DEF Claim
  <2> QED
    BY <1>0, <1>1, <2>1, StartRunIs, LeavesIs, ListOperationIs
<1>2. CASE NextDeletion(c)
  <2>1. worker[c].teardown
    BY <1>0, <1>2 DEF NextDeletion, KnowsOperation
  <2> QED
    BY <1>0, <1>2, <2>1, NextDeletionIs
<1>3. CASE DestroyThrows(c) \/ DestroyListed(c)
  <2>1. worker[c].teardown
    BY <1>0, <1>3 DEF DestroyThrows, DestroyListed, KnowsOperation
  <2>2. worker'[c].pc = "finish" /\ Kept(c)
    BY <1>0, <1>3, DestroyThrowsIs, GoesOnIs DEF GoesOn
  <2> QED
    BY <2>1, <2>2 DEF Kept
<1>4. CASE StartStage(c) \/ Clone(c) \/ Ready(c)
  <2>1. Clone(c) \/ Ready(c) => worker[c].pc = "stage"
    BY DEF Clone, Ready, InStage
  <2> QED
    BY <1>0, <1>4, <2>1, StartStageIs, CloneIs, ReadyIs DEF Kept
<1>5. CASE GoesOn(c) /\ ~DestroyListed(c)
  <2>1. worker[c].pc \in {"stage", "cloned"}
    BY <1>5 DEF GoesOn, InStage, ReserveCapacity, ReserveThrows, RecordClone, TakeSnapshot,
       RollBackGuest, ResizeGuest, Verify, StageThrows
  <2> QED
    BY <1>0, <1>5, <2>1, GoesOnIs DEF Kept
<1>6. CASE Compensate(c)
  <2>1. worker[c].pc \in {"failing", "rollback", "clear"}
    BY <1>6 DEF Compensate, MarkFailed, RollBackClone, ClearVmid, RollbackThrows
  <2> QED
    BY <1>0, <1>6, <2>1, CompensateIs DEF Kept
<1>7. CASE Finishes(c)
  <2>1. worker[c].pc = "finish"
    BY <1>7 DEF Finishes, CallFinish, FinishThrows
  <2> QED
    BY <1>0, <1>7, <2>1, FinishesIs DEF Kept
<1> QED
  BY <1>1, <1>2, <1>3, <1>4, <1>5, <1>6, <1>7, WorkCases DEF Moves

LEMMA StagedMoves ==
    ASSUME SiteTypes, NoStagedDelete, NEW c \in ClusterIds, Moves(c)
    PROVE  NoStagedDelete'
<1>1. ASSUME NEW o \in OperationIds
      PROVE  operations'[o].kind = operations[o].kind /\ operations'[o].staged = operations[o].staged
  BY OperationMoves DEF Moves
<1>2. ASSUME NEW d \in ClusterIds, AtWork(d)'
      PROVE  operations'[worker'[d].op].kind # "delete"
  <2>1. CASE d # c
    <3>1. worker'[d] = worker[d] /\ AtWork(d) /\ Holding(d)
      BY <1>2, <2>1, RunTyped DEF Moves, SiteTypes, AtWork, Holding, At
    <3> QED
      BY <2>1, <3>1, OtherRuns DEF NoStagedDelete, Op
  <2>2. CASE d = c
    <3>1. worker'[c].op = worker[c].op /\ (AtWork(c) \/ StartStage(c))
      BY <1>2, <2>2, WorksOn
    <3>2. Holding(c) /\ worker[c].op \in OperationIds
      BY <3>1, HolderIs DEF AtWork, StartStage, Holding, At
    <3>3. operations[worker[c].op].kind # "delete"
      <4>1. CASE StartStage(c)
        <5>1. operations[worker[c].op].staged
          BY <4>1, NextStageIs DEF StartStage
        <5> QED
          BY <3>2, <5>1 DEF NoStagedDelete
      <4>2. CASE AtWork(c)
        BY <4>2 DEF NoStagedDelete, Op
      <4> QED
        BY <3>1, <4>1, <4>2
    <3> QED
      BY <2>2, <3>1, <3>2, <3>3, <1>1
  <2> QED
    BY <2>1, <2>2
<1> QED
  BY <1>1, <1>2 DEF NoStagedDelete, Op

\* A run comes to a stage by starting it, and to a clone from its call.
LEMMA ToStage ==
    ASSUME SiteTypes, NEW c \in ClusterIds, Moves(c), worker'[c].pc = "stage"
    PROVE  StartStage(c)
<1>0. SiteTypeOK
  BY DEF SiteTypes
<1>1. CASE GoesOn(c) \/ Compensate(c)
  BY <1>0, <1>1, GoesOnIs, CompensateIs
<1>2. CASE Finishes(c)
  <2>1. worker[c].pc = "finish"
    BY <1>2 DEF Finishes, CallFinish, FinishThrows, At
  <2> QED
    BY <1>0, <1>2, <2>1, FinishesIs
<1>3. CASE StartRun(c) \/ Leaves(c) \/ Claim(c) \/ \E o \in OperationIds : ListOperation(c, o)
  <2>1. Claim(c) => worker'[c].pc = "loop"
    BY DEF Claim, At
  <2> QED
    BY <1>0, <1>3, <2>1, StartRunIs, LeavesIs, ListOperationIs
<1>4. CASE NextDeletion(c) \/ DestroyThrows(c) \/ Ready(c) \/ Clone(c)
  BY <1>0, <1>4, NextDeletionIs, DestroyThrowsIs, ReadyIs, CloneIs
<1> QED
  BY <1>1, <1>2, <1>3, <1>4, WorkCases DEF Moves

LEMMA OpenMoves ==
    ASSUME SiteTypes, StagesAreOpen, NEW c \in ClusterIds, Moves(c)
    PROVE  StagesAreOpen'
<1>0. SiteTypeOK
  BY DEF SiteTypes
<1> SUFFICES ASSUME NEW d \in ClusterIds, worker'[d].pc \in {"stage", "cloned"}
             PROVE  operation_stages'[worker'[d].op][worker'[d].stage] = "active"
  BY DEF StagesAreOpen, StageIsOpen
<1>1. CASE d # c
  <2>1. worker'[d] = worker[d] /\ Holding(d)
    BY <1>0, <1>1, RunTyped DEF Moves, Holding
  <2> QED
    BY <1>1, <2>1, OtherRuns DEF StagesAreOpen, StageIsOpen
<1>2. CASE d = c /\ worker'[c].pc = "stage"
  <2> DEFINE o == worker[c].op
             s == NextStage(o)
  <2>1. StartStage(c) /\ o \in OperationIds
    BY <1>2, ToStage DEF StartStage, At, SiteTypes, KnowsOperation
  <2>2. s \in Stages /\ operation_stages' = [operation_stages EXCEPT ![o][s] = "active"]
    BY <2>1, NextStageIs DEF StartStage
  <2>3. operation_stages'[o][s] = "active"
    <3> HIDE DEF s
    <3> QED
      BY <1>0, <2>1, <2>2, SiteTyped
  <2>4. worker'[c].op = o /\ worker'[c].stage = s
    BY <1>0, <2>1, StartStageIs DEF Kept
  <2> QED
    BY <1>2, <2>3, <2>4
<1>3. CASE d = c /\ worker'[c].pc = "cloned"
  <2>1. Clone(c)
    BY <1>3, ToCloned
  <2>2. operation_stages' = operation_stages /\ worker[c].pc = "stage"
    BY <2>1 DEF Clone, InStage, At
  <2>3. worker'[c].op = worker[c].op /\ worker'[c].stage = worker[c].stage
    BY <1>0, <2>1, CloneIs
  <2> QED
    BY <1>3, <2>2, <2>3 DEF StagesAreOpen, StageIsOpen
<1> QED
  BY <1>1, <1>2, <1>3

\* The guests of a cluster are its own worker's to touch.
LEMMA ForeignGuests ==
    ASSUME SiteTypes, NEW c \in ClusterIds, Moves(c), NEW d \in ClusterIds, d # c
    PROVE  \A v \in Vmids : guests[d][v] = NoGuest => guests'[d][v] = NoGuest
<1>0. SiteTypeOK /\ guests \in [ClusterIds -> [Vmids -> GuestType]]
  BY SiteTyped DEF SiteTypes
<1>1. ASSUME NEW x, NEW w, guests' = [guests EXCEPT ![c][w] = x]
      PROVE  guests'[d] = guests[d]
  BY <1>0, <1>1
<1>2. CASE TakeSnapshot(c)
  <2> DEFINE w == proxmox_vmid[Op(c).instance]
             x == [guests[c][w] EXCEPT !.snapshots = @ \cup {worker[c].op}]
  <2>1. guests' = [guests EXCEPT ![c][w] = x]
    BY <1>2 DEF TakeSnapshot, OnGuest
  <2> HIDE DEF x, w
  <2> QED
    BY <2>1, <1>1
<1> QED
  BY <1>0, <1>1, <1>2, GuestMoves DEF Moves

\* Which guests a run makes.
LEMMA GuestMade ==
    ASSUME SiteTypes, NEW c \in ClusterIds, Moves(c), NEW v \in Vmids, guests[c][v] = NoGuest,
           guests'[c][v] # NoGuest
    PROVE  \/ Clone(c) /\ (worker'[c].pc = "cloned" => worker'[c].vmid = v)
           \/ TakeSnapshot(c) /\ v = proxmox_vmid[Op(c).instance]
<1>0. SiteTypeOK /\ guests \in [ClusterIds -> [Vmids -> GuestType]] /\ NoGuest \in GuestType
  BY SiteTyped, IdleTyped DEF SiteTypes
<1>1. ASSUME NEW w, guests' = [guests EXCEPT ![c][w] = NoGuest] PROVE FALSE
  BY <1>0, <1>1, GuestSet
<1>2. CASE Clone(c)
  <2>1. PICK w \in Vmids :
          /\ guests' = [guests EXCEPT ![c][w] = [NoGuest EXCEPT !.owner = Op(c).instance]]
          /\ \/ worker'[c].pc = "cloned" /\ worker'[c].vmid = w
             \/ worker'[c].pc = "failing" /\ "task_unseen" \in Faults
    BY <1>0, <1>2, CloneIs
  <2> DEFINE x == [NoGuest EXCEPT !.owner = Op(c).instance]
  <2>2. guests' = [guests EXCEPT ![c][w] = x]
    BY <2>1
  <2> HIDE DEF x
  <2>3. v = w
    BY <1>0, <2>2, OtherGuest
  <2> QED
    BY <1>2, <2>1, <2>3
<1>3. CASE TakeSnapshot(c)
  <2> DEFINE w == proxmox_vmid[Op(c).instance]
             x == [guests[c][w] EXCEPT !.snapshots = @ \cup {worker[c].op}]
  <2>1. guests' = [guests EXCEPT ![c][w] = x]
    BY <1>3 DEF TakeSnapshot, OnGuest
  <2> HIDE DEF x, w
  <2>2. v = w
    BY <1>0, <2>1, OtherGuest
  <2> QED
    BY <1>3, <2>2 DEF w
<1> QED
  BY <1>1, <1>2, <1>3, GuestMoves DEF Moves

\* A call that was made stays made, or its failure is handled.
LEMMA CallStays ==
    ASSUME SiteInv, ClonesAreKnown, NEW c \in ClusterIds, Moves(c), NEW o \in OperationIds,
           CallMade(o), operations[o].kind = "create"
    PROVE  CallMade(o)' \/ Handled(o)'
<1>0. SiteTypes /\ SiteTypeOK /\ "proxmox_api_call" \in Stages
  BY SiteInvHas, StagesAre
<1>1. CASE StagePassed(o, "proxmox_api_call")
  <2>1. CASE MarkFailed(c) /\ o = worker[c].op
    <3>1. HandlingFailure(c)' /\ worker'[c].op = o
      BY <1>0, <2>1, CompensationHandles DEF Compensate
    <3> QED
      BY <3>1 DEF Handled
  <2>2. CASE StartStage(c) /\ o = worker[c].op /\ "proxmox_api_call" = NextStage(o)
    <3>1. operation_stages[o]["proxmox_api_call"] \in {"pending", "active"}
      BY <2>2, NextStageIs DEF StartStage
    <3> QED
      BY <1>1, <3>1 DEF StagePassed
  <2> QED
    BY <1>0, <1>1, <2>1, <2>2, StageMoved DEF CallMade, StagePassed
<1>2. ASSUME NEW d \in ClusterIds, At(d, "mark"), worker[d].stage = "proxmox_api_call",
             worker[d].op = o
      PROVE  CallMade(o)' \/ Handled(o)'
  <2>1. CASE d # c
    <3>1. worker'[d] = worker[d]
      BY <1>0, <2>1, RunTyped DEF Moves
    <3> QED
      BY <1>2, <3>1 DEF CallMade, At
  <2>2. CASE d = c
    <3>1. MarkDone(c) \/ Crash(c)
      BY <1>2, <2>2
         DEF Moves, Work, DeletionPass, StartRun, NextDeletion, DestroyListed, DestroyThrows,
         EndDeletions, OneStage, ListOperation, StartStage, NoPendingStage, ReserveCapacity,
         ReserveThrows, Clone, RecordClone, TakeSnapshot, RollBackGuest, ResizeGuest, Verify,
         VerifyLater, StageThrows, Ready, InStage, Compensate, MarkFailed, RollBackClone,
         ClearVmid,
         RollbackThrows, CallFinish, FinishThrows, Claim, EndRun, At
    <3>2. ~Crash(c)
      BY <1>2, <2>2 DEF Crash, Cloning, HandlingFailure, ClonesAreKnown, At, Op
    <3>3. operation_stages' = [operation_stages EXCEPT ![o]["proxmox_api_call"] = "done"]
      BY <1>2, <2>2, <3>1, <3>2 DEF MarkDone, SetStage, ClonesAreKnown
    <3>4. operation_stages'[o]["proxmox_api_call"] = "done"
      BY <1>0, <3>3, SiteTyped
    <3> QED
      BY <3>4 DEF CallMade, StagePassed
  <2> QED
    BY <2>1, <2>2
<1> QED
  BY <1>1, <1>2 DEF CallMade

LEMMA OnceMoves ==
    ASSUME SiteInv, ClonesOnce, FailuresAreTold, ClonesAreKnown, NEW c \in ClusterIds, Moves(c)
    PROVE  ClonesOnce'
<1>0. SiteTypes /\ SiteTypeOK /\ IInv /\ TableInv /\ RunIsSound /\ ListedIsDelete
  BY SiteInvHas
<1> SUFFICES ASSUME NEW o \in OperationIds, operations'[o].state \in ActiveStates,
                    operations'[o].kind = "create", ~CallMade(o)', ~Handled(o)'
             PROVE  proxmox_vmid'[operations'[o].instance] = NoVmid
  BY DEF ClonesOnce, Active
<1>1. PICK i \in InstanceIds :
        /\ i = operations[o].instance /\ operations'[o].instance = i
        /\ Active(o) /\ operations[o].kind = "create"
  BY <1>0, StillActive
<1>2. ~Handled(o) /\ ~CallMade(o)
  BY <1>0, <1>1, HandledStays, CallStays
<1>3. proxmox_vmid[i] = NoVmid
  BY <1>1, <1>2 DEF ClonesOnce
<1>4. ~(RecordClone(c) /\ i = Op(c).instance /\ GoTo(c, "mark"))
  <2> SUFFICES ASSUME RecordClone(c), i = Op(c).instance, GoTo(c, "mark") PROVE FALSE
    OBVIOUS
  <2>1. Holding(c) /\ Active(worker[c].op) /\ At(c, "cloned")
    BY RecordedIn
  <2>2. worker[c].op = o
    <3>1. \A p \in OperationIds : Active(p) /\ operations[p].instance = Op(c).instance => p = worker[c].op
      BY <1>0, <2>1, OpIsPlaced
    <3> QED
      BY <1>1, <3>1
  <2>3. worker[c].stage = "proxmox_api_call"
    BY <2>1, SiteInvHas DEF ClonedIsThere, CloneIsThere
  <2>4. worker'[c].pc = "mark" /\ worker'[c].stage = worker[c].stage /\ worker'[c].op = o
    BY <1>0, <2>2, WentTo DEF ProgramPoints, Kept
  <2> QED
    BY <2>3, <2>4 DEF CallMade, At
<1> QED
  BY <1>1, <1>3, <1>4, VmidEffect

\* The vmid of an instance with an operation under way that no other run
\* holds stays.
LEMMA ActiveVmidStays ==
    ASSUME SiteInv, NEW c \in ClusterIds, Moves(c), NEW o \in OperationIds,
           operations'[o].state \in ActiveStates, ~(AtWork(c) /\ worker[c].op = o),
           NEW i \in InstanceIds, i = operations[o].instance
    PROVE  /\ operations'[o].instance = i /\ Active(o)
           /\ proxmox_vmid'[i] = proxmox_vmid[i]
<1>0. SiteTypes /\ SiteTypeOK /\ IInv /\ TableInv /\ RunIsSound /\ ListedIsDelete
  BY SiteInvHas
<1>1. /\ Active(o) /\ operations'[o].instance = i /\ ~(CallFinish(c) /\ worker[c].op = o)
  BY <1>0, StillActive
<1>2. ~(RecordClone(c) /\ i = Op(c).instance)
  BY <1>0, <1>1, RecordedIn, OpIsPlaced DEF AtWork, At
<1>3. ~(ClearVmid(c) /\ i = Op(c).instance)
  <2> SUFFICES ASSUME ClearVmid(c), i = Op(c).instance PROVE FALSE
    OBVIOUS
  <2>1. worker[c].pc = "clear" /\ AtWork(c) /\ Holding(c) /\ Active(worker[c].op)
    BY <1>0 DEF ClearVmid, At, AtWork, Holding, RunIsSound, RunSound
  <2> QED
    BY <1>0, <1>1, <2>1, OpIsPlaced
<1>4. ~(CallFinish(c) /\ instances'[i].state = "gone")
  <2> SUFFICES ASSUME CallFinish(c), instances'[i].state = "gone" PROVE FALSE
    OBVIOUS
  <2>1. instances[i].state # "gone"
    BY <1>1, NullsAreNotIds DEF SiteInv, IInv, RefersToRow
  <2>2. Active(worker[c].op) /\ Op(c).instance = i /\ worker[c].op \in OperationIds
    BY <1>0, <2>1, StateMoves, FinishCalls DEF Live
  <2> QED
    BY <1>0, <1>1, <2>2 DEF IInv, OneActive, Op
<1> QED
  BY <1>1, <1>2, <1>3, <1>4, VmidEffect

LEMMA ToClear ==
    ASSUME SiteTypes, NEW c \in ClusterIds, Moves(c), worker'[c].pc = "clear"
    PROVE  /\ RollBackClone(c) /\ proxmox_vmid[Op(c).instance] # NoVmid
           /\ worker'[c].op = worker[c].op
<1>0. SiteTypeOK
  BY DEF SiteTypes
<1>1. CASE GoesOn(c)
  BY <1>0, <1>1, GoesOnIs
<1>2. CASE Finishes(c)
  <2>1. worker[c].pc = "finish"
    BY <1>2 DEF Finishes, CallFinish, FinishThrows, At
  <2> QED
    BY <1>0, <1>2, <2>1, FinishesIs
<1>3. CASE StartRun(c) \/ Leaves(c) \/ Claim(c) \/ \E o \in OperationIds : ListOperation(c, o)
  <2>1. Claim(c) => worker'[c].pc = "loop"
    BY DEF Claim, At
  <2> QED
    BY <1>0, <1>3, <2>1, StartRunIs, LeavesIs, ListOperationIs
<1>4. CASE NextDeletion(c) \/ DestroyThrows(c) \/ Ready(c) \/ StartStage(c) \/ Clone(c)
  BY <1>0, <1>4, NextDeletionIs, DestroyThrowsIs, ReadyIs, StartStageIs, CloneIs
<1>5. CASE Compensate(c)
  <2>1. ~ToFinishFailed(c)
    BY <1>0, FinishFailed
  <2>2. ~GoTo(c, "rollback")
    BY <1>0, WentTo DEF ProgramPoints
  <2>3. RollBackClone(c) /\ GoTo(c, "clear") /\ proxmox_vmid[Op(c).instance] # NoVmid
    BY <1>5, <2>1, <2>2 DEF Compensate, MarkFailed, RollBackClone, ClearVmid, RollbackThrows
  <2> QED
    BY <1>0, <2>3, WentTo DEF ProgramPoints, Kept
<1> QED
  BY <1>1, <1>2, <1>3, <1>4, <1>5, WorkCases DEF Moves

LEMMA ClearMoves ==
    ASSUME SiteInv, DestroysFirst, NEW c \in ClusterIds, Moves(c), NEW d \in ClusterIds
    PROVE  GoneBeforeClear(d)'
<1>0. SiteTypes /\ SiteTypeOK /\ IInv /\ TableInv /\ RunIsSound /\ ListedIsDelete
  BY SiteInvHas
<1> SUFFICES ASSUME worker'[d].pc = "clear", NEW v \in Vmids,
                    proxmox_vmid'[operations'[worker'[d].op].instance] = v
             PROVE  guests'[d][v] = NoGuest
  BY DEF GoneBeforeClear, At, Op
<1>1. CASE d # c
  <2> DEFINE o == worker[d].op
  <2>1. worker'[d] = worker[d] /\ worker[d].pc = "clear" /\ Holding(d) /\ Active(o)
    BY <1>0, <1>1, RunTyped DEF Moves, Holding, RunIsSound, RunSound
  <2>2. o \in OperationIds /\ operations'[o].state \in ActiveStates
    BY <1>0, <1>1, <2>1, OtherRuns, HolderIs DEF Active
  <2>3. ~(AtWork(c) /\ worker[c].op = o)
    BY <1>0, <1>1, <2>1, HolderIs DEF AtWork
  <2>4. PICK i \in InstanceIds : i = operations[o].instance
    BY <1>0, <2>1, OpIsPlaced DEF Op
  <2>5. operations'[o].instance = i /\ proxmox_vmid'[i] = proxmox_vmid[i]
    BY <2>2, <2>3, <2>4, ActiveVmidStays
  <2>6. guests[d][v] = NoGuest
    BY <2>1, <2>4, <2>5 DEF DestroysFirst, GoneBeforeClear, At, Op
  <2> QED
    BY <1>0, <1>1, <2>6, ForeignGuests
<1>2. CASE d = c
  <2>1. RollBackClone(c) /\ proxmox_vmid[Op(c).instance] # NoVmid /\ worker'[c].op = worker[c].op
    BY <1>0, <1>2, ToClear
  <2>2. operations' = operations /\ proxmox_vmid' = proxmox_vmid
    BY <2>1 DEF RollBackClone, tables
  <2>3. proxmox_vmid[Op(c).instance] = v
    BY <1>2, <2>1, <2>2 DEF Op
  <2>4. guests' = [guests EXCEPT ![c][v] = NoGuest]
    BY <2>1, <2>3 DEF RollBackClone, Destroy
  <2> QED
    BY <1>0, <1>2, <2>4, IdleTyped, GuestSet
<1> QED
  BY <1>1, <1>2

\* What was listed is still so, until it is finished.
LEMMA DeleteStays ==
    ASSUME SiteInv, NoStagedDelete, NEW c \in ClusterIds, Moves(c), NEW d \in ClusterIds,
           NEW o \in OperationIds, operations[o].kind = "delete", NEW v, DeleteIsOf(d, o, v)
    PROVE  DeleteIsOf(d, o, v)'
<1>0. SiteTypes /\ SiteTypeOK /\ IInv /\ TableInv /\ RunIsSound /\ ListedIsDelete
  BY SiteInvHas
<1> SUFFICES ASSUME operations'[o].state \in ActiveStates
             PROVE  /\ proxmox_vmid'[operations'[o].instance] = v
                    /\ v # NoVmid => instances'[operations'[o].instance].cluster = d
  BY DEF DeleteIsOf, Active
<1>1. PICK i \in InstanceIds : i = operations[o].instance
  BY <1>0, StillActive
<1>2. ~(AtWork(c) /\ worker[c].op = o)
  BY DEF NoStagedDelete, Op
<1>3. operations'[o].instance = i /\ Active(o) /\ proxmox_vmid'[i] = proxmox_vmid[i]
  BY <1>1, <1>2, ActiveVmidStays
<1>4. proxmox_vmid[i] = v /\ (v # NoVmid => instances[i].cluster = d)
  BY <1>1, <1>3 DEF DeleteIsOf
<1>5. v # NoVmid => instances'[i].cluster = d
  BY <1>4, MoveState
<1> QED
  BY <1>3, <1>4, <1>5

\* A run goes from one listed deletion to its end.
LEMMA TearsDown ==
    ASSUME SiteTypes, NEW c \in ClusterIds, Moves(c), worker'[c].pc \in {"destroy", "finish"},
           worker'[c].teardown
    PROVE  \/ \E x \in worker[c].pending :
                /\ x.op = worker'[c].op /\ x.vmid = worker'[c].vmid
                /\ worker'[c].pc = "finish" => x.vmid = NoVmid
           \/ /\ worker[c].pc \in {"destroy", "finish"} /\ worker[c].teardown
              /\ worker'[c].op = worker[c].op /\ worker'[c].vmid = worker[c].vmid
              /\ worker'[c].pc = "finish"
              /\ \/ DestroyListed(c) \/ worker'[c].outcome = "failed"
                 \/ CallFinish(c) /\ worker' = worker
<1>0. SiteTypeOK /\ KnowsOperation
  BY DEF SiteTypes
<1>1. CASE StartRun(c) \/ Leaves(c) \/ Claim(c) \/ \E o \in OperationIds : ListOperation(c, o)
  <2>1. Claim(c) => worker'[c].pc = "loop"
    BY DEF Claim, At
  <2> QED
    BY <1>0, <1>1, <2>1, StartRunIs, LeavesIs, ListOperationIs
<1>2. CASE NextDeletion(c)
  BY <1>0, <1>2, NextDeletionIs
<1>3. CASE DestroyThrows(c)
  BY <1>0, <1>3, DestroyThrowsIs DEF DestroyThrows, At, Kept
<1>4. CASE DestroyListed(c)
  BY <1>0, <1>4, GoesOnIs DEF DestroyListed, At, Kept, GoesOn
<1>5. CASE StartStage(c) \/ Clone(c) \/ (GoesOn(c) /\ ~DestroyListed(c))
  BY <1>0, <1>5, StartStageIs, CloneIs, GoesOnIs
<1>6. CASE Ready(c)
  BY <1>0, <1>6, ReadyIs DEF Ready, InStage, At, KnowsOperation, Kept
<1>7. CASE Compensate(c)
  <2>1. worker[c].pc \in {"failing", "rollback", "clear"}
    BY <1>7 DEF Compensate, MarkFailed, RollBackClone, ClearVmid, RollbackThrows, At
  <2> QED
    BY <1>0, <1>7, <2>1, CompensateIs DEF KnowsOperation, Kept
<1>8. CASE Finishes(c)
  <2>1. worker[c].pc = "finish"
    BY <1>8 DEF Finishes, CallFinish, FinishThrows, At
  <2> QED
    BY <1>0, <1>8, <2>1, FinishesIs DEF Kept
<1> QED
  BY <1>1, <1>2, <1>3, <1>4, <1>5, <1>6, <1>7, <1>8, WorkCases DEF Moves

LEMMA ListedStays ==
    ASSUME SiteInv, NoStagedDelete, DestroysFirst, NEW c \in ClusterIds, Moves(c), NEW d \in ClusterIds
    PROVE  ListedAsIs(d)'
<1>0. SiteTypes /\ SiteTypeOK /\ KnowsOperation /\ ListedDeletes(d) /\ ListedAsIs(d)
  BY SiteInvHas DEF ListedIsDelete, DestroysFirst
<1>1. ASSUME NEW x \in worker[d].pending
      PROVE  DeleteIsOf(d, x.op, x.vmid)'
  <2>1. x.op \in OperationIds /\ operations[x.op].kind = "delete" /\ DeleteIsOf(d, x.op, x.vmid)
    BY <1>0, <1>1, SiteTyped DEF ListedDeletes, ListedAsIs, WorkerType, Deletion
  <2>2. PICK o \in OperationIds : o = x.op
    BY <2>1
  <2>3. PICK v : v = x.vmid
    OBVIOUS
  <2>4. DeleteIsOf(d, o, v)'
    BY <2>1, <2>2, <2>3, DeleteStays
  <2> QED
    BY <2>2, <2>3, <2>4
<1>2. ASSUME worker[d].pc \in {"destroy", "finish"}, worker[d].teardown
      PROVE  \A o, v : o = worker[d].op /\ v = worker[d].vmid => DeleteIsOf(d, o, v)'
  <2>1. /\ worker[d].op \in OperationIds /\ operations[worker[d].op].kind = "delete"
        /\ DeleteIsOf(d, worker[d].op, worker[d].vmid)
    BY <1>0, <1>2 DEF ListedDeletes, ListedAsIs, KnowsOperation, Op
  <2> QED
    BY <2>1, DeleteStays
<1>3. CASE d # c
  <2>1. worker'[d] = worker[d]
    BY <1>0, <1>3, RunTyped DEF Moves
  <2>2. ASSUME worker'[d].pc \in {"destroy", "finish"}, worker'[d].teardown
        PROVE  DeleteIsOf(d, worker[d].op, worker[d].vmid)'
    <3>1. PICK o, v : o = worker[d].op /\ v = worker[d].vmid
      OBVIOUS
    <3>2. DeleteIsOf(d, o, v)'
      BY <1>2, <2>1, <2>2, <3>1
    <3> QED
      BY <2>1, <3>1, <3>2 DEF DeleteIsOf, Active
  <2> QED
    BY <1>1, <2>1, <2>2 DEF ListedAsIs
<1>4. CASE d = c
  <2>1. ASSUME NEW x \in worker'[c].pending
        PROVE  DeleteIsOf(c, x.op, x.vmid)'
    <3>1. CASE x \in worker[c].pending
      BY <1>1, <1>4, <3>1
    <3>2. CASE StartRun(c) /\ x \in PendingDeletions(c)
      <4>1. /\ x \in Deletion /\ operations[x.op].instance = x.instance
            /\ x.vmid = proxmox_vmid[x.instance]
            /\ x.vmid # NoVmid => instances[x.instance].cluster = c
        BY <3>2 DEF PendingDeletions, ListedFor
      <4>2. instances' = instances /\ operations' = operations /\ proxmox_vmid' = proxmox_vmid
        BY <3>2 DEF StartRun, tables
      <4> QED
        BY <4>1, <4>2 DEF DeleteIsOf
    <3> QED
      BY <1>0, <2>1, <3>1, <3>2, PendingMoves
  <2>2. ASSUME worker'[c].pc \in {"destroy", "finish"}, worker'[c].teardown,
               NEW o, NEW v, o = worker'[c].op, v = worker'[c].vmid
        PROVE  DeleteIsOf(c, o, v)'
    <3>1. CASE \E x \in worker[c].pending : x.op = o /\ x.vmid = v
      BY <1>1, <1>4, <3>1
    <3>2. CASE /\ worker[c].pc \in {"destroy", "finish"} /\ worker[c].teardown
               /\ o = worker[c].op /\ v = worker[c].vmid
      BY <1>2, <1>4, <3>2
    <3> QED
      BY <1>0, <2>2, <3>1, <3>2, TearsDown
  <2>3. ASSUME worker'[c].pc \in {"destroy", "finish"}, worker'[c].teardown
        PROVE  DeleteIsOf(c, worker[c].op, worker[c].vmid)'
    <3>1. PICK o, v : o = worker'[c].op /\ v = worker'[c].vmid
      OBVIOUS
    <3>2. DeleteIsOf(c, o, v)'
      BY <2>2, <2>3, <3>1
    <3> QED
      BY <3>1, <3>2 DEF DeleteIsOf, Active
  <2> QED
    BY <1>4, <2>1, <2>3 DEF ListedAsIs
<1> QED
  BY <1>3, <1>4

LEMMA TornMoves ==
    ASSUME SiteInv, DestroysFirst, NEW c \in ClusterIds, Moves(c), NEW d \in ClusterIds
    PROVE  GoneBeforeFinish(d)'
<1>0. SiteTypes /\ SiteTypeOK /\ GoneBeforeFinish(d) /\ SparesInUse(d)
  BY SiteInvHas DEF DestroysFirst, ListedIsEnding
<1> SUFFICES ASSUME worker'[d].pc = "finish", worker'[d].teardown, worker'[d].outcome = "succeeded",
                    NEW v \in Vmids, worker'[d].vmid = v
             PROVE  guests'[d][v] = NoGuest
  BY DEF GoneBeforeFinish, At
<1>1. CASE d # c
  <2>1. worker'[d] = worker[d]
    BY <1>0, <1>1, RunTyped DEF Moves
  <2>2. guests[d][v] = NoGuest
    BY <1>0, <2>1 DEF GoneBeforeFinish, At
  <2> QED
    BY <1>0, <1>1, <2>2, ForeignGuests
<1>2. CASE d = c
  <2>1. CASE DestroyListed(c) /\ worker[c].vmid = v
    <3>1. v # NoVmid
      BY NoVmidIsNoId
    <3>2. guests' = [guests EXCEPT ![c][v] = NoGuest]
      BY <2>1, <3>1 DEF DestroyListed, Destroy
    <3> QED
      BY <1>0, <1>2, <3>2, IdleTyped, GuestSet
  <2>2. CASE CallFinish(c) /\ worker' = worker
    BY <1>0, <1>2, <2>2 DEF CallFinish, GoneBeforeFinish, At
  <2> QED
    BY <1>0, <1>2, <2>1, <2>2, TearsDown, NoVmidIsNoId
<1> QED
  BY <1>1, <1>2

LEMMA OrphanMoves ==
    ASSUME SiteInv, OrphanInv, ClonesAreKnown, FailuresAreTold, NEW c \in ClusterIds, Moves(c)
    PROVE  NoOrphanGuest'
<1>0. SiteTypes /\ SiteTypeOK /\ IInv /\ TableInv /\ RunIsSound /\ ListedIsDelete
  BY SiteInvHas
<1> SUFFICES ASSUME NEW e \in ClusterIds, NEW v \in Vmids, guests'[e][v] # NoGuest
             PROVE  ~VmidIsFree(e, v)' \/ (worker'[e].pc = "cloned" /\ worker'[e].vmid = v)
  BY DEF NoOrphanGuest, At
<1>v. v # NoVmid
  BY NoVmidIsNoId
<1>1. ASSUME NEW i \in InstanceIds, instances[i].cluster = e, proxmox_vmid[i] = v,
             guests[e][v] # NoGuest
      PROVE  ~VmidIsFree(e, v)'
  <2>1. instances'[i].cluster = e
    BY <1>v, <1>1, MoveState
  <2>2. ~(RecordClone(c) /\ i = Op(c).instance)
    <3> SUFFICES ASSUME RecordClone(c), i = Op(c).instance PROVE FALSE
      OBVIOUS
    <3>1. /\ Holding(c) /\ Active(worker[c].op) /\ worker[c].pc = "cloned"
          /\ worker[c].op \in OperationIds
      BY RecordedIn, HolderIs, <1>0 DEF At
    <3>2. Op(c).kind = "create" /\ worker[c].stage = "proxmox_api_call"
      BY <3>1, SiteInvHas DEF OrphanInv, NoStagedDelete, AtWork, ClonedIsThere, CloneIsThere, At
    <3>3. ~StagePassed(worker[c].op, "proxmox_api_call")
      BY <3>1, <3>2 DEF OrphanInv, StagesAreOpen, StageIsOpen, StagePassed
    <3>4. ~CallMade(worker[c].op)
      BY <1>0, <3>1, <3>3, HolderIs DEF CallMade, Holding, At
    <3>5. ~Handled(worker[c].op)
      BY <1>0, <3>1, HolderIs, HandlerHolds DEF Handled, HandlingFailure, At
    <3> QED
      BY <1>v, <1>1, <3>1, <3>2, <3>4, <3>5 DEF OrphanInv, ClonesOnce, Op
  <2>3. ~(ClearVmid(c) /\ i = Op(c).instance)
    <3> SUFFICES ASSUME ClearVmid(c), i = Op(c).instance PROVE FALSE
      OBVIOUS
    <3>1. worker[c].pc = "clear" /\ Holding(c) /\ Active(worker[c].op)
      BY <1>0 DEF ClearVmid, At, Holding, RunIsSound, RunSound
    <3>2. instances[i].cluster = c
      BY <1>0, <3>1, OpIsPlaced
    <3> QED
      BY <1>1, <3>1, <3>2 DEF OrphanInv, DestroysFirst, GoneBeforeClear, At
  <2>4. ~(CallFinish(c) /\ instances'[i].state = "gone")
    <3> SUFFICES ASSUME CallFinish(c), instances'[i].state = "gone" PROVE FALSE
      OBVIOUS
    <3>1. instances[i].state # "gone"
      BY <1>v, <1>1, SiteInvHas DEF VmidsDistinct
    <3>2. Active(worker[c].op) /\ Op(c).kind = "delete" /\ Op(c).instance = i
      BY <1>0, <3>1, StateMoves DEF Live
    <3>3. worker[c].pc = "finish" /\ worker[c].teardown
      <4>1. worker[c].pc = "finish"
        BY DEF CallFinish, At
      <4> QED
        BY <3>2, <4>1 DEF OrphanInv, NoStagedDelete, AtWork, Holding, At
    <3>4. worker[c].vmid = v /\ e = c
      BY <1>v, <1>1, <3>2, <3>3 DEF OrphanInv, DestroysFirst, ListedAsIs, DeleteIsOf, Op
    <3>5. worker[c].outcome = "succeeded"
      BY <1>0, <3>2, FinishCalls, Settled DEF Op, Outcomes
    <3> QED
      BY <1>1, <3>3, <3>4, <3>5 DEF OrphanInv, DestroysFirst, GoneBeforeFinish, At
  <2>5. proxmox_vmid'[i] = v
    BY <1>1, <2>2, <2>3, <2>4, VmidEffect
  <2> QED
    BY <2>1, <2>5 DEF VmidIsFree
<1>2. CASE guests[e][v] # NoGuest /\ ~VmidIsFree(e, v)
  BY <1>1, <1>2 DEF VmidIsFree
<1>3. CASE guests[e][v] # NoGuest /\ worker[e].pc = "cloned" /\ worker[e].vmid = v
  <2>1. CASE e # c
    <3>1. worker'[e] = worker[e]
      BY <1>0, <2>1, RunTyped DEF Moves
    <3> QED
      BY <1>3, <3>1
  <2>2. CASE e = c
    <3>1. Cloning(c)
      BY <1>3, <2>2, SiteInvHas DEF Cloning, ClonedIsThere, CloneIsThere, At
    <3>2. ~Crash(c)
      BY <1>3, <2>2, <3>1 DEF Crash, HandlingFailure, ClonesAreKnown, At
    <3>3. RecordClone(c)
      BY <1>3, <2>2, <3>2 DEF Moves, Work, DeletionPass, StartRun, NextDeletion, DestroyListed,
         DestroyThrows, EndDeletions, OneStage, ListOperation, StartStage, NoPendingStage,
         ReserveCapacity, ReserveThrows, Clone, TakeSnapshot, RollBackGuest, ResizeGuest, Verify,
         VerifyLater, StageThrows, Ready, InStage, Compensate, MarkFailed, RollBackClone,
         ClearVmid,
         RollbackThrows, MarkDone, CallFinish, FinishThrows, Claim, EndRun, At
    <3>4. PICK i \in InstanceIds : i = Op(c).instance /\ instances[i].cluster = c
      BY <3>3, RecordedIn
    <3>5. CASE ~VmidIsFree(c, v)
      BY <1>2, <1>3, <2>2, <3>5
    <3>6. CASE VmidIsFree(c, v)
      <4>1. proxmox_vmid' = [proxmox_vmid EXCEPT ![i] = v] /\ instances' = instances
        BY <1>3, <2>2, <3>3, <3>4, <3>6 DEF RecordClone, ClonesAreKnown, tables
      <4>2. proxmox_vmid'[i] = v
        BY <4>1, SiteInvHas
      <4> QED
        BY <2>2, <3>4, <4>1, <4>2 DEF VmidIsFree
    <3> QED
      BY <3>5, <3>6
  <2> QED
    BY <2>1, <2>2
<1>4. CASE guests[e][v] = NoGuest
  <2>1. e = c
    BY <1>0, <1>4, ForeignGuests
  <2>2. ~(TakeSnapshot(c) /\ v = proxmox_vmid[Op(c).instance])
    <3> SUFFICES ASSUME TakeSnapshot(c), v = proxmox_vmid[Op(c).instance] PROVE FALSE
      OBVIOUS
    <3>1. Holding(c) /\ Active(worker[c].op) /\ HasGuest(Op(c).instance)
      BY <1>0 DEF TakeSnapshot, InStage, At, Holding, SiteTypes, KnowsOperation
    <3> QED
      BY <1>0, <1>4, <2>1, <3>1, OpIsPlaced DEF HasGuest, Present
  <2>3. Clone(c) /\ (worker'[c].pc = "cloned" => worker'[c].vmid = v)
    BY <1>0, <1>4, <2>1, <2>2, GuestMade
  <2>4. worker'[c].pc = "cloned"
    BY <1>0, <2>3, CloneIs DEF ClonesAreKnown
  <2> QED
    BY <2>1, <2>3, <2>4
<1> QED
  BY <1>2, <1>3, <1>4 DEF OrphanInv, NoOrphanGuest, At

LEMMA OrphanInvMoves ==
    ASSUME SiteInv, OrphanInv, ClonesAreKnown, FailuresAreTold, NEW c \in ClusterIds, Moves(c)
    PROVE  OrphanInv'
<1>0. SiteTypes
  BY SiteInvHas
<1>1. NoStagedDelete' /\ StagesAreOpen'
  BY <1>0, StagedMoves, OpenMoves DEF OrphanInv
<1>2. ClonesOnce'
  BY OnceMoves DEF OrphanInv
<1>3. DestroysFirst'
  BY ClearMoves, ListedStays, TornMoves DEF OrphanInv, DestroysFirst
<1>4. NoOrphanGuest'
  BY OrphanMoves
<1> QED
  BY <1>1, <1>2, <1>3, <1>4 DEF OrphanInv

\* A request makes neither a guest nor a vmid, and what was listed stays so.
LEMMA OrphanInvRequest ==
    ASSUME SiteInv, OrphanInv, ClonesAreKnown, NEW q \in OperationIds, SiteRequest(q)
    PROVE  OrphanInv'
<1>0. /\ proxmox_vmid' = proxmox_vmid /\ guests' = guests /\ worker' = worker
      /\ operation_stages' = operation_stages /\ SiteTypes /\ IInv
  BY SiteInvHas DEF SiteRequest, siteVars
<1>1. /\ operations[q].state = "none"
      /\ \A o \in OperationIds \ {q} : operations'[o] = operations[o]
  BY <1>0, RequestMade
<1>2. \A c \in ClusterIds : Holding(c) =>
          worker[c].op \in OperationIds /\ operations'[worker[c].op] = operations[worker[c].op]
  BY <1>0, <1>1, HeldIsUsed
<1>3. \A i \in InstanceIds : proxmox_vmid[i] # NoVmid => instances'[i].cluster = instances[i].cluster
  BY RequestSpares
<1>4. NoStagedDelete'
  <2>1. ASSUME operations'[q].kind = "delete" PROVE ~operations'[q].staged
    BY <2>1 DEF SiteRequest, IntentOf, ClonesAreKnown
  <2> QED
    BY <1>0, <1>1, <1>2, <2>1 DEF OrphanInv, NoStagedDelete, AtWork, Holding, Op, At
<1>5. StagesAreOpen'
  BY <1>0 DEF OrphanInv, StagesAreOpen, StageIsOpen
<1>6. ClonesOnce'
  <2> SUFFICES ASSUME NEW o \in OperationIds, operations'[o].state \in ActiveStates,
                      operations'[o].kind = "create", ~CallMade(o)', ~Handled(o)'
               PROVE  proxmox_vmid'[operations'[o].instance] = NoVmid
    BY DEF ClonesOnce, Active
  <2>1. ~CallMade(o) /\ ~Handled(o)
    BY <1>0 DEF CallMade, Handled, HandlingFailure, FinishingFailure, StagePassed, At
  <2>2. CASE o # q
    BY <1>0, <1>1, <2>1, <2>2 DEF OrphanInv, ClonesOnce, Active
  <2>3. CASE o = q
    <3>1. PICK i \in InstanceIds : operations'[q].instance = i /\ instances[i].state = "none"
      BY <1>0, <2>3, RequestIs
    <3>2. proxmox_vmid[i] = NoVmid
      BY <3>1, SiteInvHas DEF VmidsDistinct
    <3> QED
      BY <1>0, <2>3, <3>1, <3>2
  <2> QED
    BY <2>2, <2>3
<1>7. DestroysFirst'
  <2> SUFFICES ASSUME NEW c \in ClusterIds
               PROVE  GoneBeforeClear(c)' /\ ListedAsIs(c)' /\ GoneBeforeFinish(c)'
    BY DEF DestroysFirst
  <2>1. GoneBeforeClear(c)'
    BY <1>0, <1>2 DEF OrphanInv, DestroysFirst, GoneBeforeClear, Holding, At, Op
  <2>2. GoneBeforeFinish(c)'
    BY <1>0 DEF OrphanInv, DestroysFirst, GoneBeforeFinish, At
  <2>3. ASSUME NEW o \in OperationIds, NEW v, operations[o].state # "none", DeleteIsOf(c, o, v)
        PROVE  DeleteIsOf(c, o, v)'
    <3>1. operations'[o] = operations[o]
      BY <1>1, <2>3
    <3> SUFFICES ASSUME Active(o)
                 PROVE  /\ proxmox_vmid[operations[o].instance] = v
                        /\ v # NoVmid => instances'[operations[o].instance].cluster = c
      BY <1>0, <3>1 DEF DeleteIsOf, Active
    <3>2. operations[o].instance \in InstanceIds
      BY <1>0 DEF IInv, ActiveHasInstance
    <3> QED
      BY <1>3, <2>3, <3>2 DEF DeleteIsOf
  <2>4. ListedDeletes(c) /\ ListedAsIs(c) /\ KnowsOperation
    BY <1>0, SiteInvHas DEF OrphanInv, DestroysFirst, ListedIsDelete
  <2>5. ASSUME NEW d \in worker[c].pending PROVE DeleteIsOf(c, d.op, d.vmid)'
    <3>1. d.op \in OperationIds /\ operations[d.op].state # "none" /\ DeleteIsOf(c, d.op, d.vmid)
      BY <1>0, <2>4, <2>5, SiteTyped
         DEF ListedDeletes, ListedAsIs, SiteTypes, WorkerType, Deletion
    <3>2. PICK o \in OperationIds : o = d.op
      BY <3>1
    <3>3. PICK v : v = d.vmid
      OBVIOUS
    <3>4. DeleteIsOf(c, o, v)'
      BY <2>3, <3>1, <3>2, <3>3
    <3> QED
      BY <3>2, <3>3, <3>4
  <2>6. ASSUME worker[c].pc \in {"destroy", "finish"}, worker[c].teardown
        PROVE  \A o, v : o = worker[c].op /\ v = worker[c].vmid => DeleteIsOf(c, o, v)'
    <3>1. /\ worker[c].op \in OperationIds /\ operations[worker[c].op].state # "none"
          /\ DeleteIsOf(c, worker[c].op, worker[c].vmid)
      BY <2>4, <2>6 DEF ListedDeletes, ListedAsIs, KnowsOperation, Op
    <3> QED
      BY <2>3, <3>1
  <2>7. ListedAsIs(c)'
    <3>1. ASSUME NEW d \in worker'[c].pending PROVE DeleteIsOf(c, d.op, d.vmid)'
      BY <1>0, <2>5, <3>1
    <3>2. ASSUME worker'[c].pc \in {"destroy", "finish"}, worker'[c].teardown
          PROVE  DeleteIsOf(c, worker[c].op, worker[c].vmid)'
      <4>1. PICK o, v : o = worker[c].op /\ v = worker[c].vmid
        OBVIOUS
      <4>2. DeleteIsOf(c, o, v)'
        BY <1>0, <2>6, <3>2, <4>1
      <4> QED
        BY <1>0, <4>1, <4>2 DEF DeleteIsOf, Active
    <3> QED
      BY <3>1, <3>2 DEF ListedAsIs
  <2> QED
    BY <2>1, <2>2, <2>7
<1>8. NoOrphanGuest'
  <2> SUFFICES ASSUME NEW c \in ClusterIds, NEW v \in Vmids, guests[c][v] # NoGuest, ~VmidIsFree(c, v)
               PROVE  ~VmidIsFree(c, v)'
    BY <1>0 DEF OrphanInv, NoOrphanGuest, At
  <2>1. PICK i \in InstanceIds : instances[i].cluster = c /\ proxmox_vmid[i] = v
    BY DEF VmidIsFree
  <2> QED
    BY <1>0, <1>3, <2>1, NoVmidIsNoId DEF VmidIsFree
<1> QED
  BY <1>4, <1>5, <1>6, <1>7, <1>8 DEF OrphanInv

LEMMA OrphanInvStutter ==
    ASSUME OrphanInv, UNCHANGED vars
    PROVE  OrphanInv'
<1>1. /\ worker' = worker /\ operation_stages' = operation_stages /\ operations' = operations
      /\ guests' = guests /\ proxmox_vmid' = proxmox_vmid /\ instances' = instances
  BY DEF vars, tables, siteVars
<1>2. NoStagedDelete' /\ StagesAreOpen'
  BY <1>1 DEF OrphanInv, NoStagedDelete, AtWork, Holding, StagesAreOpen, StageIsOpen, Op, At
<1>3. ClonesOnce'
  <2>1. ASSUME NEW o \in OperationIds
        PROVE  /\ Active(o)' <=> Active(o)
               /\ CallMade(o)' <=> CallMade(o)
               /\ Handled(o)' <=> Handled(o)
    BY <1>1 DEF Active, CallMade, StagePassed, Handled, HandlingFailure, FinishingFailure, At
  <2> QED
    BY <1>1, <2>1 DEF OrphanInv, ClonesOnce
<1>4. DestroysFirst'
  <2>1. \A c \in ClusterIds : GoneBeforeClear(c)' /\ GoneBeforeFinish(c)'
    BY <1>1 DEF OrphanInv, DestroysFirst, GoneBeforeClear, GoneBeforeFinish, At, Op
  <2>2. \A c \in ClusterIds : ListedAsIs(c)'
    BY <1>1 DEF OrphanInv, DestroysFirst, ListedAsIs, DeleteIsOf, Active
  <2> QED
    BY <2>1, <2>2 DEF DestroysFirst
<1>5. NoOrphanGuest'
  BY <1>1 DEF OrphanInv, NoOrphanGuest, VmidIsFree, At
<1> QED
  BY <1>2, <1>3, <1>4, <1>5 DEF OrphanInv

LEMMA OrphanInvInit == SiteInit => OrphanInv
<1> SUFFICES ASSUME SiteInit PROVE OrphanInv
  OBVIOUS
<1>1. \A c \in ClusterIds : worker[c].pc = "idle" /\ worker[c].pending = {}
  BY IdleTyped DEF SiteInit
<1>2. /\ \A o \in OperationIds : operations[o].state = "none" /\ operations[o].kind # "delete"
      /\ \A c \in ClusterIds, v \in Vmids : guests[c][v] = NoGuest
  BY DEF SiteInit, Init, NoOperationRow
<1>3. NoStagedDelete /\ StagesAreOpen /\ ClonesOnce /\ NoOrphanGuest
  BY <1>1, <1>2 DEF NoStagedDelete, AtWork, Holding, At, StagesAreOpen, StageIsOpen, ClonesOnce,
     Active, ActiveStates, NoOrphanGuest
<1>4. DestroysFirst
  BY <1>1 DEF DestroysFirst, GoneBeforeClear, ListedAsIs, GoneBeforeFinish, At
<1> QED
  BY <1>3, <1>4 DEF OrphanInv

LEMMA OrphanInvNext ==
    ASSUME FailuresAreTold, ClonesAreKnown, SiteInv, OrphanInv, [SiteNext]_vars
    PROVE  OrphanInv'
<1>1. CASE UNCHANGED vars
  BY <1>1, OrphanInvStutter
<1>2. CASE SiteNext
  BY <1>2, OrphanInvRequest, OrphanInvMoves DEF SiteNext, Moves
<1> QED
  BY <1>1, <1>2

\* No guest runs for nobody: the row of an instance names it, so that a delete
\* destroys it, or its clone is about to be recorded.  A rollback destroys
\* before it clears the vmid, and the deletion pass before it reports
\* (deploy/site-worker/index.js:638-720, 1431-1459).  The hypotheses are the
\* ways a clone is made and not recorded; an operator's delete goes through the
\* stages and clones again, and the run operator_delete shows the guest it
\* leaves.
THEOREM NoGuestIsForgotten ==
    ASSUME FailuresAreTold, ClonesAreKnown
    PROVE  SiteSpec => []NoOrphanGuest
<1>1. SiteInit => OrphanInv
  BY OrphanInvInit
<1>2. SiteInv /\ OrphanInv /\ [SiteNext]_vars => OrphanInv'
  BY OrphanInvNext
<1>3. OrphanInv => NoOrphanGuest
  BY DEF OrphanInv
<1> QED
  BY <1>1, <1>2, <1>3, SiteInvHolds, PTL DEF SiteSpec
=============================================================================
