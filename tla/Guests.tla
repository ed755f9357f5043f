------------------------------- MODULE Guests -------------------------------
(***************************************************************************)
(* Who a guest of a cluster belongs to: the warm pool the worker keeps     *)
(* (maintainWarmPool), the create that claims from it or clones cold, the  *)
(* deletion pass, and the sweep for guests the control plane cannot        *)
(* account for (reconcileOrphanGuests), with the operator who approves     *)
(* what the sweep may destroy.                                             *)
(*                                                                         *)
(* One run of the worker is, in this order: deletions, warm pool, sweep,   *)
(* creates.  Each call to the database or to Proxmox is a step; customers  *)
(* and the operator act between any two of them.                           *)
(*                                                                         *)
(* Simplifications, and why each is sound:                                 *)
(*  - One cluster: vmids, warm_pool_vms rows and findings all belong to    *)
(*    one, and no statement of these functions crosses clusters.           *)
(*  - A guest is a number, counted up to MaxGuests, so that a later guest  *)
(*    on the same vmid is another guest.  The code knows vmids only.       *)
(*  - Whether a create asks for the pooled image and plan is left open: it *)
(*    may clone cold while the pool has a guest.                           *)
(*  - Of a create, only what attaches a guest; SiteWorker.tla has the      *)
(*    stages.  A failed stage is handled without a crash in between, a     *)
(*    vmid is always cleared after a rollback and a finish always arrives: *)
(*    SiteWorker.tla has those faults as well.                             *)
(*  - The pool's PVE boundary, templates and the worker's own container    *)
(*    never change sides; guests outside it are not here.                  *)
(*                                                                         *)
(* Faults names what may go wrong in a configuration:                      *)
(*   proxmox_error   a Proxmox call is refused                             *)
(*   record_lost     the vmid of a clone cannot be written                 *)
(*   answer_lost     a claim is made, its answer lost, and the fetch layer *)
(*                   asks again                                            *)
(*   crash           the run is killed                                     *)
(*   mark_lost       a guest is reaped, and the mark of it fails           *)
(***************************************************************************)
EXTENDS Integers, FiniteSets

CONSTANTS
    InstanceIds,
    Vmids,        \* the vmids of the cluster's range
    MaxGuests,    \* guests made in a behaviour
    Target,       \* config.warmPool.target
    Faults,
    NoInstance, NoVmid

ASSUME VmidsAreNumbers == Vmids \subseteq Nat /\ IsFiniteSet(Vmids)
ASSUME NullsAreNotNames == NoInstance \notin InstanceIds /\ NoVmid \notin Vmids
\* The names below of a guest without an instance are no ids of instances.
ASSUME OwnersAreNoInstances == {"nobody", "pool", "unmade", "destroyed"} \cap InstanceIds = {}
ASSUME BoundsAreNumbers == {MaxGuests, Target} \subseteq Nat

VARIABLES
    guest_at,       \* vmid -> the guest Proxmox runs there
    made,           \* guests made so far
    instances,      \* state and proxmox_vmid
    warm_pool_vms,  \* vmid -> its row, never deleted
    findings,       \* vmid -> its infrastructure_findings row
    prompt,         \* the finding the operator was shown, and as which guest
    worker          \* the run in progress

vars == <<guest_at, made, instances, warm_pool_vms, findings, prompt, worker>>

-----------------------------------------------------------------------------
NoGuest == 0
GuestIds == 1 .. MaxGuests

InstanceStates ==
    {"none", "requested", "cloned", "ready", "failed", "deleting", "delete_failed", "gone"}

ProgramPoints ==
    {"idle", "deletions", "finish_delete", "pool", "expire", "build", "record", "sweep",
     "approved", "reaping", "mark", "loop", "claim", "configure", "attach", "done", "verify",
     "failing"}

Idle == [pc |-> "idle", todo |-> {}, rows |-> 0, vmid |-> NoVmid, instance |-> NoInstance]

NoPoolRow == [state |-> "none", claimed_by |-> NoInstance]

\* The last two fields are for the properties: the guest the last report saw
\* there, and the guest the operator meant by approving (approved_for_reap_at
\* is null as long as there is none).
NoFinding ==
    [observations |-> 0, resolved |-> FALSE, dismissed |-> FALSE, reaped |-> FALSE,
     guest |-> NoGuest, approved |-> NoGuest]

InstanceType == [state: InstanceStates, vmid: Vmids \cup {NoVmid}]
PoolRowType ==
    [state: {"none", "building", "warm", "claimed", "failed"}, claimed_by: InstanceIds \cup {NoInstance}]
FindingType ==
    [observations: 0 .. 2, resolved: BOOLEAN, dismissed: BOOLEAN, reaped: BOOLEAN,
     guest: 0 .. MaxGuests, approved: 0 .. MaxGuests]
PromptType == [vmid: Vmids \cup {NoVmid}, guest: 0 .. MaxGuests]
WorkerType ==
    [pc: ProgramPoints, todo: SUBSET (Vmids \cup InstanceIds), rows: 0 .. Cardinality(Vmids),
     vmid: Vmids \cup {NoVmid}, instance: InstanceIds \cup {NoInstance}]

\* Every variable has its type, and at most the target wait in the pool,
\* however runs are cut short between a clone and its row, and rows fail while
\* others are claimed (maintainWarmPool).
TypeOK ==
    /\ guest_at \in [Vmids -> 0 .. MaxGuests]
    /\ made \in 0 .. MaxGuests
    /\ instances \in [InstanceIds -> InstanceType]
    /\ warm_pool_vms \in [Vmids -> PoolRowType]
    /\ findings \in [Vmids -> FindingType]
    /\ prompt \in PromptType
    /\ worker \in WorkerType
    /\ Cardinality({v \in Vmids : warm_pool_vms[v].state \in {"building", "warm"}}) <= Target

Init ==
    /\ guest_at = [v \in Vmids |-> NoGuest]
    /\ made = 0
    /\ instances = [i \in InstanceIds |-> [state |-> "none", vmid |-> NoVmid]]
    /\ warm_pool_vms = [v \in Vmids |-> NoPoolRow]
    /\ findings = [v \in Vmids |-> NoFinding]
    /\ prompt = [vmid |-> NoVmid, guest |-> NoGuest]
    /\ worker = Idle

At(pc) == worker.pc = pc
GoTo(pc) == worker' = [worker EXCEPT !.pc = pc]
WithVmid(pc, v) == worker' = [worker EXCEPT !.pc = pc, !.vmid = v]
Done(x, pc) == worker' = [worker EXCEPT !.pc = pc, !.vmid = NoVmid, !.todo = @ \ {x}]
ToLoop == worker' = [Idle EXCEPT !.pc = "loop"]

Running(v) == v # NoVmid /\ guest_at[v] # NoGuest
RowsIn(states) == {v \in Vmids : warm_pool_vms[v].state \in states}
InstancesIn(states) == {i \in InstanceIds : instances[i].state \in states}

\* stop, DELETE, and the wait for its task.
GuestRemoved(v) ==
    guest_at' = IF v = NoVmid THEN guest_at ELSE [guest_at EXCEPT ![v] = NoGuest]

\* cluster/nextid, which answers the lowest free vmid, and the clone.
FreeVmids == {v \in Vmids : guest_at[v] = NoGuest}
CanClone == made < MaxGuests /\ FreeVmids # {}

CloneAs(v) ==
    /\ CanClone
    /\ v \in FreeVmids /\ \A u \in FreeVmids : v <= u
    /\ made' = made + 1
    /\ guest_at' = [guest_at EXCEPT ![v] = made + 1]

InstanceBecomes(i, state, v) ==
    instances' = [instances EXCEPT ![i] = [state |-> state, vmid |-> v]]

-----------------------------------------------------------------------------
(* Customers.                                                              *)

request_instance_create(i) ==
    /\ instances[i].state = "none"
    /\ InstanceBecomes(i, "requested", NoVmid)
    /\ UNCHANGED <<guest_at, made, warm_pool_vms, findings, prompt, worker>>

request_instance_deletion(i) ==
    /\ instances[i].state \in {"ready", "failed", "delete_failed"}
    /\ InstanceBecomes(i, "deleting", instances[i].vmid)
    /\ UNCHANGED <<guest_at, made, warm_pool_vms, findings, prompt, worker>>

-----------------------------------------------------------------------------
(* processPendingInstanceDeletions.                                        *)

StartRun ==
    /\ At("idle")
    /\ worker' = [Idle EXCEPT !.pc = "deletions", !.todo = InstancesIn({"deleting"})]
    /\ UNCHANGED <<guest_at, made, instances, warm_pool_vms, findings, prompt>>

\* A guest that is not there any more is not asked for again.
DestroyListed(i) ==
    /\ At("deletions") /\ i \in worker.todo
    /\ GuestRemoved(instances[i].vmid)
    /\ worker' = [worker EXCEPT !.pc = "finish_delete", !.instance = i]
    /\ UNCHANGED <<made, instances, warm_pool_vms, findings, prompt>>

DestroyThrows(i) ==
    /\ At("deletions") /\ i \in worker.todo
    /\ "proxmox_error" \in Faults /\ Running(instances[i].vmid)
    /\ InstanceBecomes(i, "delete_failed", instances[i].vmid)
    /\ Done(i, "deletions")
    /\ UNCHANGED <<guest_at, made, warm_pool_vms, findings, prompt>>

\* The row goes, and claimed_by_instance_id with it (on delete set null).
FinishDelete ==
    /\ At("finish_delete")
    /\ InstanceBecomes(worker.instance, "gone", NoVmid)
    /\ warm_pool_vms' = [v \in Vmids |->
            IF warm_pool_vms[v].claimed_by = worker.instance
            THEN [warm_pool_vms[v] EXCEPT !.claimed_by = NoInstance]
            ELSE warm_pool_vms[v]]
    /\ worker' = [worker EXCEPT !.pc = "deletions", !.todo = @ \ {worker.instance},
                                !.instance = NoInstance]
    /\ UNCHANGED <<guest_at, made, findings, prompt>>

-----------------------------------------------------------------------------
(* maintainWarmPool.                                                       *)

ListPool_warm_only ==
    /\ At("deletions") /\ worker.todo = {}
    /\ worker' = [Idle EXCEPT !.pc = "pool", !.todo = RowsIn({"building"}),
                              !.rows = Cardinality(RowsIn({"warm"}))]
    /\ UNCHANGED <<guest_at, made, instances, warm_pool_vms, findings, prompt>>

\* The building and warm rows are read once: the count decides on a build.
ListPool ==
    /\ At("deletions") /\ worker.todo = {}
    /\ worker' = [Idle EXCEPT !.pc = "pool", !.todo = RowsIn({"building"}),
                              !.rows = Cardinality(RowsIn({"building", "warm"}))]
    /\ UNCHANGED <<guest_at, made, instances, warm_pool_vms, findings, prompt>>

RowBecomes(v, state) == warm_pool_vms' = [warm_pool_vms EXCEPT ![v].state = state]

RowEnrolled(v) ==
    /\ At("pool") /\ v \in worker.todo
    /\ RowBecomes(v, "warm")
    /\ Done(v, "pool")
    /\ UNCHANGED <<guest_at, made, instances, findings, prompt>>

RowWaits(v) ==
    /\ At("pool") /\ v \in worker.todo
    /\ Done(v, "pool")
    /\ UNCHANGED <<guest_at, made, instances, warm_pool_vms, findings, prompt>>

\* Not enrolled in NETWORK_ATTACH_EXEC_MAX_MS: the row first, then the guest.
RowExpires(v) ==
    /\ At("pool") /\ v \in worker.todo
    /\ RowBecomes(v, "failed")
    /\ WithVmid("expire", v)
    /\ UNCHANGED <<guest_at, made, instances, findings, prompt>>

DestroyExpired ==
    /\ At("expire")
    /\ \/ GuestRemoved(worker.vmid)
       \/ "proxmox_error" \in Faults /\ UNCHANGED guest_at
    /\ Done(worker.vmid, "pool")
    /\ UNCHANGED <<made, instances, warm_pool_vms, findings, prompt>>

PoolIsFull ==
    /\ At("pool") /\ worker.todo = {}
    /\ worker.rows >= Target \/ ~CanClone \/ "proxmox_error" \in Faults
    /\ GoTo("sweep")
    /\ UNCHANGED <<guest_at, made, instances, warm_pool_vms, findings, prompt>>

BuildOne(v) ==
    /\ At("pool") /\ worker.todo = {}
    /\ worker.rows < Target
    /\ CloneAs(v)
    /\ WithVmid("record", v)
    /\ UNCHANGED <<instances, warm_pool_vms, findings, prompt>>

\* A row of an earlier guest on this vmid refuses the new one.
worker_record_warm_pool_vm ==
    /\ At("record")
    /\ warm_pool_vms' =
            IF warm_pool_vms[worker.vmid].state = "none"
            THEN [warm_pool_vms EXCEPT ![worker.vmid].state = "building"]
            ELSE warm_pool_vms
    /\ WithVmid("sweep", NoVmid)
    /\ UNCHANGED <<guest_at, made, instances, findings, prompt>>

\* Configuring, growing or starting the new guest failed, which is logged.
BuildThrows ==
    /\ At("record") /\ "proxmox_error" \in Faults
    /\ WithVmid("sweep", NoVmid)
    /\ UNCHANGED <<guest_at, made, instances, warm_pool_vms, findings, prompt>>

-----------------------------------------------------------------------------
(* reconcileOrphanGuests.                                                  *)

worker_list_known_vmids_instances == {instances[i].vmid : i \in InstanceIds}

\* Every vmid an instance or any warm_pool_vms row names, whatever its state.
worker_list_known_vmids ==
    {instances[i].vmid : i \in InstanceIds} \cup {v \in Vmids : warm_pool_vms[v].state # "none"}

Closed(v) == findings[v].dismissed \/ findings[v].reaped

findOrphanGuests == {v \in Vmids : Running(v) /\ v \notin worker_list_known_vmids}

FindingAfter_uncapped(v, seen) ==
    LET f == findings[v] IN
    CASE Closed(v) -> f
      [] ~Closed(v) /\ v \in seen ->
            [f EXCEPT !.observations = @ + 1, !.resolved = FALSE, !.guest = guest_at[v]]
      [] OTHER -> [f EXCEPT !.resolved = f.observations > 0]

FindingAfter_closes_all(v, seen) ==
    LET f == findings[v] IN
    CASE Closed(v) -> f
      [] ~Closed(v) /\ v \in seen ->
            [f EXCEPT !.observations = IF @ < 2 THEN @ + 1 ELSE 2,
                      !.resolved = TRUE, !.guest = guest_at[v]]
      [] OTHER -> [f EXCEPT !.resolved = f.observations > 0]

\* The row of a vmid after the sweep reported `seen`.  On a closed finding it
\* only refreshes what nobody looks at any more.
FindingAfter(v, seen) ==
    LET f == findings[v] IN
    CASE Closed(v) -> f
      [] ~Closed(v) /\ v \in seen ->
            [f EXCEPT !.observations = IF @ < 2 THEN @ + 1 ELSE 2,
                      !.resolved = FALSE, !.guest = guest_at[v]]
      [] OTHER -> [f EXCEPT !.resolved = f.observations > 0]

\* Templates and the worker's own container make an empty pool impossible.
worker_report_orphan_guests ==
    /\ At("sweep")
    /\ findings' = [v \in Vmids |-> FindingAfter(v, findOrphanGuests)]
    /\ GoTo("approved")
    /\ UNCHANGED <<guest_at, made, instances, warm_pool_vms, prompt>>

SweepThrows ==
    /\ At("sweep") /\ "proxmox_error" \in Faults
    /\ ToLoop
    /\ UNCHANGED <<guest_at, made, instances, warm_pool_vms, findings, prompt>>

ApprovedReaps_again ==
    {v \in Vmids : findings[v].approved # NoGuest /\ ~findings[v].dismissed}

ApprovedReaps ==
    {v \in Vmids : findings[v].approved # NoGuest /\ ~findings[v].reaped /\ ~findings[v].dismissed}

worker_list_approved_reaps ==
    /\ At("approved")
    /\ worker' = [worker EXCEPT !.pc = "reaping", !.todo = ApprovedReaps]
    /\ UNCHANGED <<guest_at, made, instances, warm_pool_vms, findings, prompt>>

ReapGuest(v) ==
    /\ At("reaping") /\ v \in worker.todo
    /\ GuestRemoved(v)
    /\ WithVmid("mark", v)
    /\ UNCHANGED <<made, instances, warm_pool_vms, findings, prompt>>

ReapThrows(v) ==
    /\ At("reaping") /\ v \in worker.todo
    /\ "proxmox_error" \in Faults
    /\ Done(v, "reaping")
    /\ UNCHANGED <<guest_at, made, instances, warm_pool_vms, findings, prompt>>

worker_mark_orphan_reaped_resolved ==
    /\ At("mark")
    /\ findings' = [findings EXCEPT ![worker.vmid].resolved = TRUE]
    /\ Done(worker.vmid, "reaping")
    /\ UNCHANGED <<guest_at, made, instances, warm_pool_vms, prompt>>

worker_mark_orphan_reaped ==
    /\ At("mark")
    /\ \/ findings' = [findings EXCEPT ![worker.vmid].reaped = TRUE,
                                       ![worker.vmid].resolved = TRUE]
       \/ "mark_lost" \in Faults /\ UNCHANGED findings
    /\ Done(worker.vmid, "reaping")
    /\ UNCHANGED <<guest_at, made, instances, warm_pool_vms, prompt>>

EndReaps ==
    /\ At("reaping") /\ worker.todo = {}
    /\ ToLoop
    /\ UNCHANGED <<guest_at, made, instances, warm_pool_vms, findings, prompt>>

-----------------------------------------------------------------------------
(* The operator (scripts/operator-cleanup.mjs).                            *)

OpenFinding(v) ==
    /\ findings[v].observations > 0
    /\ ~findings[v].resolved /\ ~findings[v].dismissed /\ ~findings[v].reaped

\* What `orphans approve` prints before it asks.
operator_list_orphan_guests(v) ==
    /\ OpenFinding(v)
    /\ findings[v].approved = NoGuest
    /\ prompt' = [vmid |-> v, guest |-> findings[v].guest]
    /\ UNCHANGED <<guest_at, made, instances, warm_pool_vms, findings, worker>>

\* Neither resolved_at nor a second look at the guest is asked for.
operator_approve_orphan_reap ==
    /\ prompt.vmid # NoVmid
    /\ prompt' = [vmid |-> NoVmid, guest |-> NoGuest]
    /\ LET f == findings[prompt.vmid] IN
       findings' = IF f.dismissed \/ f.reaped \/ f.observations < 2
                   THEN findings
                   ELSE [findings EXCEPT ![prompt.vmid].approved = prompt.guest]
    /\ UNCHANGED <<guest_at, made, instances, warm_pool_vms, worker>>

operator_dismiss_orphan_guest(v) ==
    /\ OpenFinding(v)
    /\ findings' = [findings EXCEPT ![v].dismissed = TRUE]
    /\ UNCHANGED <<guest_at, made, instances, warm_pool_vms, prompt, worker>>

-----------------------------------------------------------------------------
(* A create at proxmox_api_call, and what becomes of it.                   *)

PickCreate(i) ==
    /\ At("loop")
    /\ \/ instances[i].state = "requested"
          /\ worker' = [worker EXCEPT !.pc = "claim", !.instance = i]
       \/ instances[i].state = "cloned"
          /\ worker' = [worker EXCEPT !.pc = "verify", !.instance = i]
    /\ UNCHANGED <<guest_at, made, instances, warm_pool_vms, findings, prompt>>

Claimable == RowsIn({"warm"})

worker_claim_warm_pool_vm(v) ==
    /\ At("claim") /\ v \in Claimable
    /\ warm_pool_vms' = [warm_pool_vms EXCEPT
            ![v] = [state |-> "claimed", claimed_by |-> worker.instance]]
    /\ \/ WithVmid("configure", v)
       \/ "answer_lost" \in Faults /\ UNCHANGED worker
    /\ UNCHANGED <<guest_at, made, instances, findings, prompt>>

\* PUT .../config with the customer's name: no guest, no claim.
ConfigureClaimed ==
    /\ At("configure")
    /\ \/ Running(worker.vmid) /\ GoTo("attach")
       \/ ("proxmox_error" \in Faults \/ ~Running(worker.vmid)) /\ GoTo("failing")
    /\ UNCHANGED <<guest_at, made, instances, warm_pool_vms, findings, prompt>>

CloneCold(v) ==
    /\ At("claim")
    /\ CloneAs(v)
    /\ WithVmid("attach", v)
    /\ UNCHANGED <<instances, warm_pool_vms, findings, prompt>>

CloneThrows ==
    /\ At("claim")
    /\ "proxmox_error" \in Faults \/ ~CanClone
    /\ GoTo("failing")
    /\ UNCHANGED <<guest_at, made, instances, warm_pool_vms, findings, prompt>>

\* instances_cluster_vmid_key
VmidIsFree(v) == \A i \in InstanceIds \ {worker.instance} : instances[i].vmid # v

worker_update_instance_runtime ==
    /\ At("attach")
    /\ \/ /\ VmidIsFree(worker.vmid)
          /\ InstanceBecomes(worker.instance, "requested", worker.vmid)
          /\ GoTo("done")
       \/ /\ ~VmidIsFree(worker.vmid) \/ "record_lost" \in Faults
          /\ UNCHANGED instances
          /\ GoTo("failing")
    /\ UNCHANGED <<guest_at, made, warm_pool_vms, findings, prompt>>

MarkDone ==
    /\ At("done")
    /\ instances' = [instances EXCEPT ![worker.instance].state = "cloned"]
    /\ ToLoop
    /\ UNCHANGED <<guest_at, made, warm_pool_vms, findings, prompt>>

\* The stages that configure and verify the guest, to the finish.
Verify ==
    /\ At("verify")
    /\ \/ /\ Running(instances[worker.instance].vmid)
          /\ instances' = [instances EXCEPT ![worker.instance].state = "ready"]
          /\ ToLoop
       \/ /\ "proxmox_error" \in Faults \/ ~Running(instances[worker.instance].vmid)
          /\ UNCHANGED instances
          /\ GoTo("failing")
    /\ UNCHANGED <<guest_at, made, warm_pool_vms, findings, prompt>>

\* rollBackFailedCreate destroys what the instance row names, and only that;
\* then the failed finish.
RollBack ==
    /\ At("failing")
    /\ \/ /\ GuestRemoved(instances[worker.instance].vmid)
          /\ InstanceBecomes(worker.instance, "failed", NoVmid)
       \/ /\ "proxmox_error" \in Faults /\ instances[worker.instance].vmid # NoVmid
          /\ InstanceBecomes(worker.instance, "failed", instances[worker.instance].vmid)
          /\ UNCHANGED guest_at
    /\ ToLoop
    /\ UNCHANGED <<made, warm_pool_vms, findings, prompt>>

EndRun ==
    /\ At("loop")
    /\ worker' = Idle
    /\ UNCHANGED <<guest_at, made, instances, warm_pool_vms, findings, prompt>>

-----------------------------------------------------------------------------
\* Killed between two operations, a run ends as it would have.
Crash ==
    /\ "crash" \in Faults
    /\ worker.pc \notin {"idle", "failing", "loop"}
    /\ At("mark") => "mark_lost" \in Faults
    /\ worker' = Idle
    /\ UNCHANGED <<guest_at, made, instances, warm_pool_vms, findings, prompt>>

Customers ==
    \E i \in InstanceIds : request_instance_create(i) \/ request_instance_deletion(i)

Operator ==
    \/ operator_approve_orphan_reap
    \/ \E v \in Vmids : operator_list_orphan_guests(v) \/ operator_dismiss_orphan_guest(v)

Deletions ==
    \/ \E i \in InstanceIds : DestroyListed(i) \/ DestroyThrows(i)
    \/ FinishDelete

WarmPool ==
    \/ ListPool \/ DestroyExpired \/ PoolIsFull \/ worker_record_warm_pool_vm \/ BuildThrows
    \/ \E v \in Vmids : RowEnrolled(v) \/ RowWaits(v) \/ RowExpires(v) \/ BuildOne(v)

OrphanSweep ==
    \/ worker_report_orphan_guests \/ SweepThrows \/ worker_list_approved_reaps
    \/ worker_mark_orphan_reaped \/ EndReaps
    \/ \E v \in Vmids : ReapGuest(v) \/ ReapThrows(v)

Creates ==
    \/ ConfigureClaimed \/ CloneThrows \/ worker_update_instance_runtime \/ MarkDone \/ Verify
    \/ RollBack
    \/ \E i \in InstanceIds : PickCreate(i)
    \/ \E v \in Vmids : worker_claim_warm_pool_vm(v) \/ CloneCold(v)

Run == StartRun \/ Deletions \/ WarmPool \/ OrphanSweep \/ Creates \/ EndRun

Next == Customers \/ Operator \/ Run \/ Crash

\* The timer starts the next run, and a run goes on by itself.  Runs are not
\* killed for ever, and Proxmox does not refuse the same for ever.
Fairness ==
    /\ WF_vars(Run)
    /\ <>[][~Crash]_vars
    /\ SF_vars(worker_report_orphan_guests)
    /\ \A v \in Vmids : SF_vars(ReapGuest(v))

Spec == Init /\ [][Next]_vars /\ Fairness

-----------------------------------------------------------------------------
(* Properties.                                                             *)

OwnersAt(v) ==
    {i \in InstanceIds : instances[i].vmid = v} \cup
    (IF warm_pool_vms[v].state \in {"building", "warm"} THEN {"pool"} ELSE {})

OwnerOf(g) ==
    LET places == {v \in Vmids : guest_at[v] = g} IN
    IF g > made THEN "unmade"
    ELSE IF places = {} THEN "destroyed"
    ELSE LET owners == OwnersAt(CHOOSE v \in places : TRUE) IN
         CASE owners = {} -> "nobody"
           [] Cardinality(owners) = 1 -> CHOOSE o \in owners : TRUE
           [] OTHER -> "shared"

\* What GuestOwnership.tla promises, of the guests as their vmids are recorded
\* in instances and warm_pool_vms: one owner at a time, destroyed once, and
\* never while serving a customer or waiting in the pool.  The claim, the cold
\* clone, both kinds of teardown and the sweep all act on a vmid that Proxmox
\* gives away again.
Ownership == INSTANCE GuestOwnership WITH
    owner <- [g \in GuestIds |-> OwnerOf(g)],
    serving <- InstancesIn({"ready"}),
    Nobody <- "nobody", Pool <- "pool", Unmade <- "unmade", Destroyed <- "destroyed"

OwnedByOne == Ownership!Spec

\* reconcileOrphanGuests: the guest that is reaped is the one the operator was
\* shown when they approved, not a later guest on its vmid; a finding is acted
\* upon many runs after it was read, and approval outlives the observation.
ReapsWhatWasApproved ==
    [][\A v \in Vmids :
            ReapGuest(v) => guest_at[v] \in {NoGuest, findings[v].approved}]_vars

Reported(v) == findings[v].observations > 0 /\ ~findings[v].resolved

\* reconcileOrphanGuests: a guest that stays unaccounted for is put before the
\* operator, unless they closed a finding on its vmid before.
StrayIsReported ==
    \A v \in Vmids :
        v \in findOrphanGuests /\ ~Closed(v) ~> Reported(v) \/ v \notin findOrphanGuests \/ Closed(v)

\* reconcileOrphanGuests: a guest approved for reaping is destroyed, through
\* refusals and restarts, unless the operator dismisses it after all.
ApprovedIsReaped ==
    \A v \in Vmids : findings[v].approved # NoGuest ~> Closed(v)

=============================================================================
