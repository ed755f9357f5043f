----------------------------- MODULE SiteWorker -----------------------------
(***************************************************************************)
(* The site workers (deploy/site-worker/index.js), one per cluster, with   *)
(* the control plane they call and the Proxmox guests they act on.         *)
(*                                                                         *)
(* A systemd timer starts one run of the worker at a time on a cluster     *)
(* (Type=oneshot).  A run first carries out the pending deletions, then    *)
(* advances one stage of one operation at a time until its time is up.     *)
(* Each call to the database or to Proxmox is a step of its own: the       *)
(* process may die, and a call may fail, between any two of them.          *)
(*                                                                         *)
(* Simplifications, and why each is sound:                                 *)
(*  - The stages that only confirm something are folded into the next one  *)
(*    that changes state: preflight into capacity_reservation;             *)
(*    operation_created and site_worker_dispatch into proxmox_api_call;    *)
(*    template_cloud_init, network_access_attach and                       *)
(*    backup_monitoring_attach into automated_verification, with which     *)
(*    they share their outcomes: done, wait and come back, or throw.       *)
(*  - A guest is known by its cluster and vmid: a Proxmox cluster has one  *)
(*    vmid space for all its nodes.                                        *)
(*  - The listing orders operations by updated_at; here any of them is     *)
(*    next.  The warm pool and the tailnet are not part of this module.    *)
(*                                                                         *)
(* Faults names what may go wrong in a configuration:                      *)
(*   proxmox_error    a Proxmox call is refused                            *)
(*   task_unseen      a clone or a snapshot is made, but the answer or the *)
(*                    120 s wait for its task is lost                      *)
(*   rpc_error        a finish, or the listing of deletions, never gets    *)
(*                    through                                              *)
(*   failure_lost     the finish of a failed stage never gets through      *)
(*   record_lost      the write of a vmid never gets through               *)
(*   mark_lost        markStage fails, which it only logs                  *)
(*   answer_lost      a finish is applied and its answer lost; the fetch   *)
(*                    layer sends it again, up to five times               *)
(*   gives_up         all five attempts of a finish go unanswered          *)
(*   ssh_wait         port 22 and the guest agent's own check fail for now *)
(*   crash            the process is killed between two steps, outside of  *)
(*   clone_crash      the span from the clone to the mark of its stage,    *)
(*   handler_crash    and the handling of a failed stage                   *)
(***************************************************************************)
EXTENDS ControlPlane, Sequences

CONSTANTS
    Vmids,         \* vmids cluster/nextid may return
    NoVmid,        \* the SQL null
    Housekeeper,   \* the cluster whose worker has the tailnet role
    Intents,       \* the requests made in a configuration
    Faults

ASSUME NoVmidIsNoId == NoVmid \notin Vmids

VARIABLES
    operation_stages,  \* operation -> stage -> status
    proxmox_vmid,      \* instances.proxmox_vmid
    guests,            \* cluster -> vmid -> what Proxmox runs there
    worker             \* cluster -> the run in progress

siteVars == <<operation_stages, proxmox_vmid, guests, worker>>
vars == <<tables, siteVars>>

-----------------------------------------------------------------------------
STAGE_ORDER == <<"capacity_reservation", "proxmox_api_call", "automated_verification", "ready">>
Stages == {STAGE_ORDER[k] : k \in DOMAIN STAGE_ORDER}

NoGuest == [owner |-> NoInstance, snapshots |-> {}]

Idle == [pc |-> "idle", op |-> NoOperation, stage |-> "ready", outcome |-> "succeeded",
         vmid |-> NoVmid, teardown |-> FALSE, pending |-> {}]

\* A row of worker_list_pending_deletions, as it was read.
Deletion == [op: OperationIds, instance: InstanceIds, cluster: ClusterIds, vmid: Vmids \cup {NoVmid}]

ProgramPoints ==
    {"idle", "deletions", "destroy", "loop", "listed", "stage", "cloned", "mark", "failing",
     "rollback", "clear", "finish"}

SiteTypeOK ==
    /\ TypeOK
    /\ operation_stages \in
            [OperationIds -> [Stages -> {"pending", "active", "done", "failed"}]]
    /\ proxmox_vmid \in [InstanceIds -> Vmids \cup {NoVmid}]
    /\ guests \in [ClusterIds -> [Vmids ->
            [owner: InstanceIds \cup {NoInstance}, snapshots: SUBSET OperationIds]]]
    /\ worker \in [ClusterIds ->
            [pc: ProgramPoints, op: OperationIds \cup {NoOperation}, stage: Stages,
             outcome: Outcomes, vmid: Vmids \cup {NoVmid}, teardown: BOOLEAN,
             pending: SUBSET Deletion]]

SiteInit ==
    /\ Init
    /\ operation_stages = [o \in OperationIds |-> [s \in Stages |-> "pending"]]
    /\ proxmox_vmid = [i \in InstanceIds |-> NoVmid]
    /\ guests = [c \in ClusterIds |-> [v \in Vmids |-> NoGuest]]
    /\ worker = [c \in ClusterIds |-> Idle]

At(c, pc) == worker[c].pc = pc
Op(c) == operations[worker[c].op]

\* The worker of c goes on at pc, everything else of its state kept.
GoTo(c, pc) == worker' = [worker EXCEPT ![c].pc = pc]
ToLoop(c) == worker' = [worker EXCEPT ![c] = [Idle EXCEPT !.pc = "loop"]]
ToDeletions(c) ==
    worker' = [worker EXCEPT ![c] =
        [Idle EXCEPT !.pc = "deletions", !.teardown = TRUE, !.pending = worker[c].pending]]

\* The guest that instance i's row names.
Present(c, v) == v # NoVmid /\ guests[c][v] # NoGuest
HasGuest(i) == instances[i].cluster # NoCluster /\ Present(instances[i].cluster, proxmox_vmid[i])
GuestOf(i) == guests[instances[i].cluster][proxmox_vmid[i]]

Destroy(c, v) ==
    guests' = IF v = NoVmid THEN guests ELSE [guests EXCEPT ![c][v] = NoGuest]

-----------------------------------------------------------------------------
(* The console and placement.                                              *)

IntentOf(row) == IF row.kind = "delete" /\ row.staged THEN "operator_delete" ELSE row.kind

SiteRequest(o) ==
    /\ Request(o)
    /\ IntentOf(operations'[o]) \in Intents
    /\ UNCHANGED siteVars

\* claimPendingOperations: a worker in its loop asks for a placement, which
\* may choose any cluster and settles the stages placement stands for.
Claim(w) ==
    /\ At(w, "loop")
    /\ \E o \in OperationIds, c \in ClusterIds :
        /\ place_next_pending_operation(o, c)
        /\ operation_stages' = [operation_stages EXCEPT ![o]["capacity_reservation"] = "done"]
    /\ UNCHANGED <<proxmox_vmid, guests, worker>>

-----------------------------------------------------------------------------
(* A finish, as worker_finish_operation sees it.  The row of a deleted     *)
(* instance takes its vmid with it.                                        *)

StagePassed(o, s) == operation_stages[o][s] = "done"

\* A resize reports the resources its proxmox_api_call stage recorded.
Finish(o, outcome) ==
    /\ \/ worker_finish_operation(o, outcome, StagePassed(o, "proxmox_api_call"))
       \/ FinishAgain(o, outcome)
    /\ proxmox_vmid' = [i \in InstanceIds |->
            IF instances'[i].state = "gone" THEN NoVmid ELSE proxmox_vmid[i]]

\* What the caller does once the finish is answered.
AfterFinish(c) ==
    CASE worker[c].teardown -> ToDeletions(c)
      [] ~worker[c].teardown /\ worker[c].outcome = "succeeded" -> GoTo(c, "mark")
      [] OTHER -> ToLoop(c)

\* And when it throws: a failed teardown or stage is finished as failed, and
\* an error of that finish is only logged.  The finish of a deletion without
\* a guest is not guarded: its error ends the deletion pass.
AfterFinishThrows(c) ==
    CASE worker[c].teardown /\ worker[c].vmid = NoVmid -> ToLoop(c)
      [] worker[c].teardown /\ worker[c].vmid # NoVmid /\ worker[c].outcome = "succeeded" ->
            worker' = [worker EXCEPT ![c].outcome = "failed"]
      [] worker[c].teardown /\ worker[c].vmid # NoVmid /\ worker[c].outcome = "failed" ->
            ToDeletions(c)
      [] ~worker[c].teardown /\ worker[c].outcome = "succeeded" -> GoTo(c, "failing")
      [] OTHER -> ToLoop(c)

\* assert_worker_owns_operation, and the observed resources of a resize.
FinishIsAccepted(c) ==
    /\ Op(c).cluster = c
    /\ Op(c).kind = "resize" /\ worker[c].outcome = "succeeded" /\ Active(worker[c].op) =>
            StagePassed(worker[c].op, "proxmox_api_call")

\* The finish that ends the handling of a failed stage.
FinishingFailure(c) == ~worker[c].teardown /\ worker[c].outcome = "failed"

CallFinish(c) ==
    /\ At(c, "finish")
    /\ FinishIsAccepted(c)
    /\ Finish(worker[c].op, worker[c].outcome)
    /\ \/ AfterFinish(c)
       \/ "answer_lost" \in Faults /\ Active(worker[c].op) /\ UNCHANGED worker
    /\ UNCHANGED <<operation_stages, guests>>

FinishThrows(c) ==
    /\ At(c, "finish")
    /\ \/ ~FinishIsAccepted(c)
       \/ "rpc_error" \in Faults /\ Active(worker[c].op) /\ ~FinishingFailure(c)
       \/ "failure_lost" \in Faults /\ Active(worker[c].op) /\ FinishingFailure(c)
       \/ "gives_up" \in Faults /\ ~Active(worker[c].op)
    /\ AfterFinishThrows(c)
    /\ UNCHANGED <<tables, operation_stages, proxmox_vmid, guests>>

-----------------------------------------------------------------------------
(* processPendingInstanceDeletions.                                        *)

ListedFor(c, i) ==
    \/ instances[i].cluster = c
    \/ c = Housekeeper /\ proxmox_vmid[i] = NoVmid

PendingDeletions(c) ==
    {d \in Deletion :
        /\ instances[d.instance].state = "deleting"
        /\ operations[d.op].kind = "delete" /\ operations[d.op].instance = d.instance
        /\ Active(d.op)
        /\ ListedFor(c, d.instance)
        /\ d.cluster = instances[d.instance].cluster
        /\ d.vmid = proxmox_vmid[d.instance]}

\* A run starts with the list of pending deletions, or without it when the
\* listing or the Tailscale token cannot be had.
StartRun(c) ==
    /\ At(c, "idle")
    /\ \/ worker' = [worker EXCEPT ![c].pc = "deletions", ![c].teardown = TRUE,
                                   ![c].pending = PendingDeletions(c)]
       \/ "rpc_error" \in Faults /\ ToLoop(c)
    /\ UNCHANGED <<tables, operation_stages, proxmox_vmid, guests>>

NextDeletion(c) ==
    /\ At(c, "deletions")
    /\ \E d \in worker[c].pending :
        worker' = [worker EXCEPT ![c] =
            [worker[c] EXCEPT !.pc = IF d.vmid = NoVmid THEN "finish" ELSE "destroy",
                              !.op = d.op, !.vmid = d.vmid, !.outcome = "succeeded",
                              !.pending = @ \ {d}]]
    /\ UNCHANGED <<tables, operation_stages, proxmox_vmid, guests>>

\* Presence is asked first, so a guest already gone is the state wanted.
DestroyListed(c) ==
    /\ At(c, "destroy")
    /\ Destroy(c, worker[c].vmid)
    /\ GoTo(c, "finish")
    /\ UNCHANGED <<tables, operation_stages, proxmox_vmid>>

\* The stop, the delete, its task or, with the guest gone, the removal of the
\* tailnet device may fail.
DestroyThrows(c) ==
    /\ At(c, "destroy")
    /\ "proxmox_error" \in Faults
    /\ Destroy(c, worker[c].vmid) \/ UNCHANGED guests
    /\ worker' = [worker EXCEPT ![c].pc = "finish", ![c].outcome = "failed"]
    /\ UNCHANGED <<tables, operation_stages, proxmox_vmid>>

EndDeletions(c) ==
    /\ At(c, "deletions")
    /\ worker[c].pending = {}
    /\ ToLoop(c)
    /\ UNCHANGED <<tables, operation_stages, proxmox_vmid, guests>>

-----------------------------------------------------------------------------
(* run and processOneStage.                                                *)

\* assertOperationOwnership, which also the listing and every call of the
\* boundary ask for.
OwnsOperation(c, o) == operations[o].cluster = c

ListOperation_anyState(c, o) ==
    /\ At(c, "loop")
    /\ OwnsOperation(c, o) /\ operations[o].state # "none"
    /\ worker' = [worker EXCEPT ![c].pc = "listed", ![c].op = o]
    /\ UNCHANGED <<tables, operation_stages, proxmox_vmid, guests>>

ListOperation_pendingOnly(c, o) ==
    /\ At(c, "loop")
    /\ OwnsOperation(c, o)
    /\ operations[o].state = "pending"
    /\ worker' = [worker EXCEPT ![c].pc = "listed", ![c].op = o]
    /\ UNCHANGED <<tables, operation_stages, proxmox_vmid, guests>>

\* Operation o is first in the list of this cluster's active operations.
ListOperation(c, o) ==
    /\ At(c, "loop")
    /\ OwnsOperation(c, o)
    /\ Active(o)
    /\ worker' = [worker EXCEPT ![c].pc = "listed", ![c].op = o]
    /\ UNCHANGED <<tables, operation_stages, proxmox_vmid, guests>>

\* The time of the run, which began with it, is up.
EndRun(c) ==
    /\ At(c, "loop")
    /\ worker' = [worker EXCEPT ![c] = Idle]
    /\ UNCHANGED <<tables, operation_stages, proxmox_vmid, guests>>

OpenStages(o) ==
    {k \in DOMAIN STAGE_ORDER :
        operations[o].staged /\ operation_stages[o][STAGE_ORDER[k]] \in {"pending", "active"}}

\* The first stage that is pending or active: done and failed ones are passed over.
NextStage(o) ==
    STAGE_ORDER[CHOOSE k \in OpenStages(o) : \A j \in OpenStages(o) : k <= j]

StartStage(c) ==
    LET o == worker[c].op IN
    /\ At(c, "listed")
    /\ OpenStages(o) # {}
    /\ worker_start_stage(o)
    /\ operation_stages' = [operation_stages EXCEPT ![o][NextStage(o)] = "active"]
    /\ worker' = [worker EXCEPT ![c].pc = "stage", ![c].stage = NextStage(o)]
    /\ UNCHANGED <<proxmox_vmid, guests>>

\* no_pending_stage throws out of the run.
NoPendingStage(c) ==
    /\ At(c, "listed")
    /\ OpenStages(worker[c].op) = {}
    /\ worker' = [worker EXCEPT ![c] = Idle]
    /\ UNCHANGED <<tables, operation_stages, proxmox_vmid, guests>>

InStage(c, s) == At(c, "stage") /\ worker[c].stage = s

\* capacity_reservation: placement has done it for a create, snapshot and
\* restore skip it.
ReserveCapacity(c) ==
    /\ InStage(c, "capacity_reservation")
    /\ IF Op(c).kind \in {"snapshot", "restore_replace"}
       THEN UNCHANGED tables ELSE worker_hold_capacity(worker[c].op)
    /\ GoTo(c, "mark")
    /\ UNCHANGED <<operation_stages, proxmox_vmid, guests>>

\* A second hold violates the unique index: the answer of the first was lost,
\* or its mark was.
ReserveThrows(c) ==
    /\ InStage(c, "capacity_reservation")
    /\ capacity_reservations[worker[c].op] = "held"
    /\ Op(c).kind \notin {"snapshot", "restore_replace"}
    /\ GoTo(c, "failing")
    /\ UNCHANGED <<tables, operation_stages, proxmox_vmid, guests>>

\* The answer to the request is lost, or waitForTask gives up on its task after
\* 120 s: what Proxmox did stays, and the stage has failed.
TaskUnseen(c) == "task_unseen" \in Faults /\ GoTo(c, "failing")

\* proxmox_api_call of any kind that has no branch of its own: a create, and a
\* delete that was given stages.
Clone(c) ==
    /\ InStage(c, "proxmox_api_call")
    /\ Op(c).kind \in {"create", "delete"}
    /\ \E v \in Vmids :
        /\ guests[c][v] = NoGuest
        /\ guests' = [guests EXCEPT ![c][v] = [NoGuest EXCEPT !.owner = Op(c).instance]]
        /\ \/ worker' = [worker EXCEPT ![c].pc = "cloned", ![c].vmid = v]
           \/ TaskUnseen(c)
    /\ UNCHANGED <<tables, operation_stages, proxmox_vmid>>

VmidIsFree_unchecked(c, v) == TRUE

VmidIsFree(c, v) == \A i \in InstanceIds : instances[i].cluster = c => proxmox_vmid[i] # v

\* worker_update_instance_runtime under the unique index on (cluster, vmid).
RecordClone(c) ==
    LET v == worker[c].vmid IN
    /\ At(c, "cloned")
    /\ \/ /\ VmidIsFree(c, v)
          /\ proxmox_vmid' = [proxmox_vmid EXCEPT ![Op(c).instance] = v]
          /\ GoTo(c, "mark")
       \/ /\ ~VmidIsFree(c, v) \/ "record_lost" \in Faults
          /\ GoTo(c, "failing")
          /\ UNCHANGED proxmox_vmid
    /\ UNCHANGED <<tables, operation_stages, guests>>

OnGuest(c) == guests[c][proxmox_vmid[Op(c).instance]]

TakeSnapshot_notAwaited(c) ==
    /\ InStage(c, "proxmox_api_call")
    /\ Op(c).kind = "snapshot"
    /\ HasGuest(Op(c).instance)
    /\ GoTo(c, "mark")
    /\ UNCHANGED <<tables, operation_stages, proxmox_vmid, guests>>

TakeSnapshot(c) ==
    /\ InStage(c, "proxmox_api_call")
    /\ Op(c).kind = "snapshot"
    /\ HasGuest(Op(c).instance)
    /\ worker[c].op \notin OnGuest(c).snapshots
    /\ guests' = [guests EXCEPT ![c][proxmox_vmid[Op(c).instance]].snapshots = @ \cup {worker[c].op}]
    /\ GoTo(c, "mark") \/ TaskUnseen(c)
    /\ UNCHANGED <<tables, operation_stages, proxmox_vmid>>

RollBackGuest(c) ==
    /\ InStage(c, "proxmox_api_call")
    /\ Op(c).kind = "restore_replace"
    /\ HasGuest(Op(c).instance)
    /\ Op(c).snapshot \in OnGuest(c).snapshots
    /\ GoTo(c, "mark")
    /\ UNCHANGED <<tables, operation_stages, proxmox_vmid, guests>>

ResizeGuest(c) ==
    /\ InStage(c, "proxmox_api_call")
    /\ Op(c).kind = "resize"
    /\ HasGuest(Op(c).instance)
    /\ GoTo(c, "mark")
    /\ UNCHANGED <<tables, operation_stages, proxmox_vmid, guests>>

\* The guest stages: nothing to do for a snapshot, for the others the guest
\* has to answer.
Verify(c) ==
    /\ InStage(c, "automated_verification")
    /\ Op(c).kind = "snapshot" \/ HasGuest(Op(c).instance)
    /\ GoTo(c, "mark")
    /\ UNCHANGED <<tables, operation_stages, proxmox_vmid, guests>>

\* retry_wait: the stage stays active.  The wait for the agent is bounded by
\* NETWORK_ATTACH_EXEC_MAX_MS, the one for port 22 is not.
VerifyLater(c) ==
    /\ InStage(c, "automated_verification")
    /\ Op(c).kind # "snapshot" /\ HasGuest(Op(c).instance)
    /\ "ssh_wait" \in Faults
    /\ ToLoop(c)
    /\ UNCHANGED <<tables, operation_stages, proxmox_vmid, guests>>

\* What a stage needs of Proxmox is not there.
Impossible(c) ==
    CASE worker[c].stage = "proxmox_api_call" /\ Op(c).kind = "snapshot" ->
            HasGuest(Op(c).instance) => worker[c].op \in OnGuest(c).snapshots
      [] worker[c].stage = "proxmox_api_call" /\ Op(c).kind = "restore_replace" ->
            HasGuest(Op(c).instance) => Op(c).snapshot \notin OnGuest(c).snapshots
      [] worker[c].stage = "proxmox_api_call" /\ Op(c).kind = "resize" -> ~HasGuest(Op(c).instance)
      [] worker[c].stage = "proxmox_api_call" /\ Op(c).kind \in {"create", "delete"} ->
            \A v \in Vmids : guests[c][v] # NoGuest
      [] worker[c].stage = "automated_verification" ->
            Op(c).kind # "snapshot" /\ ~HasGuest(Op(c).instance)
      [] OTHER -> FALSE

StageThrows(c) ==
    /\ At(c, "stage")
    /\ \/ Impossible(c)
       \/ worker[c].stage # "ready" /\ "proxmox_error" \in Faults
    /\ GoTo(c, "failing")
    /\ UNCHANGED <<tables, operation_stages, proxmox_vmid, guests>>

Ready(c) ==
    /\ InStage(c, "ready")
    /\ worker' = [worker EXCEPT ![c].pc = "finish", ![c].outcome = "succeeded"]
    /\ UNCHANGED <<tables, operation_stages, proxmox_vmid, guests>>

SetStage_outcome(c, status) ==
    operation_stages' = [operation_stages EXCEPT ![worker[c].op][worker[c].stage] =
        IF status = "done" THEN "succeeded" ELSE status]

SetStage(c, status) ==
    \/ operation_stages' = [operation_stages EXCEPT ![worker[c].op][worker[c].stage] = status]
    \/ "mark_lost" \in Faults /\ UNCHANGED operation_stages

MarkDone(c) ==
    /\ At(c, "mark")
    /\ SetStage(c, "done")
    /\ ToLoop(c)
    /\ UNCHANGED <<tables, proxmox_vmid, guests>>

-----------------------------------------------------------------------------
(* The catch of processOneStage: mark, roll a create back, finish.         *)

ToFinishFailed(c) == worker' = [worker EXCEPT ![c].pc = "finish", ![c].outcome = "failed"]

MarkFailed_anyKind(c) ==
    /\ At(c, "failing")
    /\ SetStage(c, "failed")
    /\ GoTo(c, "rollback")
    /\ UNCHANGED <<tables, proxmox_vmid, guests>>

MarkFailed_noFinish(c) ==
    /\ At(c, "failing")
    /\ SetStage(c, "failed")
    /\ IF Op(c).kind = "create" THEN GoTo(c, "rollback") ELSE ToLoop(c)
    /\ UNCHANGED <<tables, proxmox_vmid, guests>>

MarkFailed(c) ==
    /\ At(c, "failing")
    /\ SetStage(c, "failed")
    /\ IF Op(c).kind = "create" THEN GoTo(c, "rollback") ELSE ToFinishFailed(c)
    /\ UNCHANGED <<tables, proxmox_vmid, guests>>

RollBackClone_notDestroyed(c) ==
    /\ At(c, "rollback")
    /\ IF proxmox_vmid[Op(c).instance] = NoVmid THEN ToFinishFailed(c) ELSE GoTo(c, "clear")
    /\ UNCHANGED <<tables, operation_stages, proxmox_vmid, guests>>

\* rollBackFailedCreate reads the row again, and does nothing without a vmid.
RollBackClone(c) ==
    LET v == proxmox_vmid[Op(c).instance] IN
    /\ At(c, "rollback")
    /\ IF v = NoVmid
       THEN ToFinishFailed(c) /\ UNCHANGED guests
       ELSE Destroy(c, v) /\ GoTo(c, "clear")
    /\ UNCHANGED <<tables, operation_stages, proxmox_vmid>>

ClearVmid(c) ==
    /\ At(c, "clear")
    /\ proxmox_vmid' = [proxmox_vmid EXCEPT ![Op(c).instance] = NoVmid]
    /\ ToFinishFailed(c)
    /\ UNCHANGED <<tables, operation_stages, guests>>

\* An error of the rollback, with the guest destroyed or not, is logged, and
\* the create is still finished.
RollbackThrows(c) ==
    /\ \/ /\ At(c, "rollback")
          /\ "proxmox_error" \in Faults
          /\ Destroy(c, proxmox_vmid[Op(c).instance]) \/ UNCHANGED guests
       \/ /\ At(c, "clear")
          /\ "record_lost" \in Faults
          /\ UNCHANGED guests
    /\ ToFinishFailed(c)
    /\ UNCHANGED <<tables, operation_stages, proxmox_vmid>>

HandlingFailure(c) ==
    \/ worker[c].pc \in {"failing", "rollback", "clear"}
    \/ At(c, "finish") /\ FinishingFailure(c)

Cloning(c) ==
    /\ worker[c].pc \in {"cloned", "mark"}
    /\ worker[c].stage = "proxmox_api_call"
    /\ Op(c).kind \in {"create", "delete"}

\* The process is killed; the timer starts the next run.
Crash(c) ==
    /\ worker[c].pc \notin {"idle", "loop"}
    /\ \/ "handler_crash" \in Faults /\ HandlingFailure(c)
       \/ "clone_crash" \in Faults /\ Cloning(c)
       \/ "crash" \in Faults /\ ~HandlingFailure(c) /\ ~Cloning(c)
    /\ worker' = [worker EXCEPT ![c] = Idle]
    /\ UNCHANGED <<tables, operation_stages, proxmox_vmid, guests>>

-----------------------------------------------------------------------------
DeletionPass(c) ==
    \/ StartRun(c) \/ NextDeletion(c) \/ DestroyListed(c) \/ DestroyThrows(c) \/ EndDeletions(c)

OneStage(c) ==
    \/ (\E o \in OperationIds : ListOperation(c, o)) \/ StartStage(c) \/ NoPendingStage(c)
    \/ ReserveCapacity(c) \/ ReserveThrows(c)
    \/ Clone(c) \/ RecordClone(c) \/ TakeSnapshot(c) \/ RollBackGuest(c) \/ ResizeGuest(c)
    \/ Verify(c) \/ VerifyLater(c) \/ StageThrows(c) \/ Ready(c) \/ MarkDone(c)

Compensate(c) == MarkFailed(c) \/ RollBackClone(c) \/ ClearVmid(c) \/ RollbackThrows(c)

Work(c) ==
    DeletionPass(c) \/ OneStage(c) \/ Compensate(c) \/ CallFinish(c) \/ FinishThrows(c)

SiteNext ==
    \/ \E o \in OperationIds : SiteRequest(o)
    \/ \E c \in ClusterIds : Work(c) \/ Claim(c) \/ EndRun(c) \/ Crash(c)

SiteSpec == SiteInit /\ [][SiteNext]_vars

\* What the timer and the order of the listing give: a run that is under way
\* goes on and the next one starts; the least recently touched operation is
\* listed first, so none is passed over for ever; and some day the process
\* is not killed any more.
Fairness ==
    \A c \in ClusterIds :
        /\ WF_vars(Work(c))
        /\ \A o \in OperationIds : SF_vars(ListOperation(c, o))
        /\ <>[][~Crash(c)]_vars

FairSpec == SiteSpec /\ Fairness

-----------------------------------------------------------------------------
(* Safety.                                                                 *)

Live == {"ready", "degraded", "snapshotting", "resizing", "restoring"}

\* A usable instance has its own guest: the one its row names exists and was
\* cloned for it, through failed stages, repeated finishes and crashes; and a
\* recovery point shown as ready exists on it.
LiveHasGuest ==
    /\ \A i \in InstanceIds :
          instances[i].state \in Live => HasGuest(i) /\ GuestOf(i).owner = i
    /\ \A s \in OperationIds : LET i == operations[s].instance IN
          instance_snapshots[s] = "ready" /\ instances[i].state \in Live =>
              s \in GuestOf(i).snapshots

\* No guest runs for nobody: the row of some instance on its cluster names it,
\* so that a delete will destroy it, or its clone is about to be recorded.
NoOrphanGuest ==
    \A c \in ClusterIds, v \in Vmids : guests[c][v] # NoGuest =>
        \/ ~VmidIsFree(c, v)
        \/ At(c, "cloned") /\ worker[c].vmid = v

\* An operation reported as succeeded has passed every stage, none was failed
\* or passed over: a run resumes at the first stage that is not done.  (The
\* deletion pass carries out a delete without its stages.)
SucceededPassedAll ==
    \A o \in OperationIds : operations[o].state = "succeeded" /\ operations[o].kind # "delete" =>
        \A s \in Stages \ {"ready"} : StagePassed(o, s)

\* A guest is destroyed only for an instance being deleted or a create that
\* was never usable, never one that some instance in use names: not by the
\* rollback (`an instance that never reached ready was never reachable, so it
\* holds no customer data`), nor by a delete through a vmid used again.
DestroysNoLiveGuest ==
    [][\A i \in InstanceIds : HasGuest(i) /\ instances[i].state \in Live => HasGuest(i)']_vars

-----------------------------------------------------------------------------
(* Liveness.                                                               *)

\* Every operation that has been placed on a cluster ends: its worker brings
\* it to a terminal state, whichever stage fails and wherever a run is killed
\* outside the handling of a failed stage.
PlacedOperationsEnd ==
    \A o \in OperationIds : Active(o) /\ Owned(o) ~> ~Active(o)

=============================================================================
